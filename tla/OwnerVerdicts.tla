---------------------------- MODULE OwnerVerdicts ----------------------------
(***************************************************************************)
(* The outcomes the per-owner check of a response may return, for the      *)
(* consents that hold, the fail policy, and whether the phase ran out of   *)
(* time (responseOutcome, src/internal/plugin/consent.go).                 *)
(***************************************************************************)
EXTENDS Naturals, FailPolicy

NoSubject == 0
Pending == [decision |-> "pending", failMode |-> "", subject |-> NoSubject,
            checked |-> {}]

OutcomesOver(claims) ==
  [decision : Decisions, failMode : {"", ByPolicy},
   subject : {NoSubject} \cup claims, checked : SUBSET claims]

(* Some consulted owners refused: the first of them is named.               *)
Refusing(claims, granted) ==
  {o \in OutcomesOver(claims) :
     /\ o.decision = "deny" /\ o.failMode = ""
     /\ o.subject \in o.checked \ granted
     /\ \A i \in o.checked \ granted : o.subject <= i}

(* Variant: a failure decides even if an owner refused.                     *)
FallingBackPastRefusals(claims, granted, failOpen) ==
  {o \in OutcomesOver(claims) :
     /\ o.failMode = ByPolicy
     /\ o.decision = failDecision(failOpen, ByPolicy)
     /\ o.subject \in claims \ o.checked}

(* No consulted owner refused, but one gave no answer: the policy decides.  *)
FallingBack(claims, granted, failOpen) ==
  {o \in OutcomesOver(claims) :
     /\ o.failMode = ByPolicy
     /\ o.decision = failDecision(failOpen, ByPolicy)
     /\ o.subject \in claims \ o.checked
     /\ o.checked \subseteq granted}

(* Variant: an owner whose check was not made, whatever the reason, is left *)
(* out of account.                                                          *)
ReleasingUnchecked(claims, granted, late) ==
  {o \in OutcomesOver(claims) :
     /\ o.decision = "allow" /\ o.failMode = "" /\ o.subject = NoSubject
     /\ o.checked \subseteq granted}

(* Every owner granted; or, the deadline having passed, every owner that    *)
(* was consulted at all.                                                    *)
Releasing(claims, granted, late) ==
  {o \in OutcomesOver(claims) :
     /\ o.decision = "allow" /\ o.failMode = "" /\ o.subject = NoSubject
     /\ o.checked \subseteq granted
     /\ o.checked = claims \/ late}

OwnerOutcomes(claims, granted, failOpen, late) ==
  Refusing(claims, granted) \cup FallingBack(claims, granted, failOpen)
    \cup Releasing(claims, granted, late)
=============================================================================
