----------------------------- MODULE OwnerChecks -----------------------------
(***************************************************************************)
(* The per-owner fan-out of one response: checkOwners and                  *)
(* reduceOwnerResults of src/internal/plugin/consent.go.                   *)
(*                                                                         *)
(* One goroutine per distinct claim takes one of a few slots, asks the     *)
(* consent-manager, writes its result, and cancels its siblings if the     *)
(* result is a problem.  When all have returned the results are reduced to *)
(* one verdict.  The phase's deadline may expire at any moment before.     *)
(*                                                                         *)
(* The consent-manager's records do not change while one response is       *)
(* being checked: consent[i] is what a check of claim i would find.        *)
(***************************************************************************)
EXTENDS Naturals, FiniteSets, OwnerVerdicts

CONSTANTS N,      (* how many distinct claims the response resolves to      *)
          Slots   (* maxConcurrentConsentChecks                             *)

ASSUME OwnerChecksAssumption ==
  /\ N \in Nat \ {0}
  /\ Slots \in Nat \ {0}

Claims == 1..N

VARIABLES
  failOpen,      (* cfg.IsFailOpen()                                        *)
  consent,       (* the consent-manager's record for each claim             *)
  worker,        (* where each claim's goroutine is                         *)
  answer,        (* results[i]: what its check wrote                        *)
  checksErr,     (* checksCtx.Err(): why the checks were stopped, if so     *)
  phaseExpired,  (* ctx.Err() # nil: the phase's deadline has passed        *)
  outcome        (* the responseOutcome checkOwners returns                 *)

vars == <<failOpen, consent, worker, answer, checksErr, phaseExpired, outcome>>

(* "doomed" is a goroutine that took a slot after the checks were stopped: *)
(* its very first call fails with the context's error.                     *)
WorkerStates == {"waiting", "calling", "doomed", "answered", "done", "skipped"}
ContextErrors == {"Canceled", "DeadlineExceeded"}
Errors == {"outage"} \cup ContextErrors
Answers == {"none", "allow", "deny"} \cup Errors

Problems == {"deny"} \cup Errors

Stopped == checksErr # "none"
(* Variant: the slot of a finished check is never given back.               *)
HoldingForever ==
  {i \in Claims : worker[i] \in {"calling", "doomed", "answered", "done"}}
Holding == {i \in Claims : worker[i] \in {"calling", "doomed", "answered"}}
Returned == {i \in Claims : worker[i] \in {"done", "skipped"}}
Attempted == Claims \ {i \in Claims : worker[i] \in {"waiting", "skipped"}}
Decided == outcome.decision # "pending"
-----------------------------------------------------------------------------
Init ==
  /\ failOpen \in BOOLEAN
  /\ consent \in [Claims -> {"granted", "refused"}]
  /\ worker = [i \in Claims |-> "waiting"]
  /\ answer = [i \in Claims |-> "none"]
  /\ checksErr = "none"
  /\ phaseExpired = FALSE
  /\ outcome = Pending

(* select: a slot is free.  When checksCtx is done too, Go picks either     *)
(* branch, so this and Skip may both be enabled.                            *)
Acquire(i) ==
  /\ worker[i] = "waiting"
  /\ Cardinality(Holding) < Slots
  /\ worker' = [worker EXCEPT ![i] = IF Stopped THEN "doomed" ELSE "calling"]
  /\ UNCHANGED <<failOpen, consent, answer, checksErr, phaseExpired, outcome>>

(* Variant: a goroutine that returns early has already set attempted.       *)
SkipAttempted(i) ==
  /\ worker[i] = "waiting"
  /\ Stopped
  /\ worker' = [worker EXCEPT ![i] = "done"]
  /\ UNCHANGED <<failOpen, consent, answer, checksErr, phaseExpired, outcome>>

(* select: checksCtx is done; the goroutine returns, attempted stays false. *)
Skip(i) ==
  /\ worker[i] = "waiting"
  /\ Stopped
  /\ worker' = [worker EXCEPT ![i] = "skipped"]
  /\ UNCHANGED <<failOpen, consent, answer, checksErr, phaseExpired, outcome>>

Returns(i, result) ==
  /\ answer' = [answer EXCEPT ![i] = result]
  /\ worker' = [worker EXCEPT ![i] = "answered"]
  /\ UNCHANGED <<failOpen, consent, checksErr, phaseExpired, outcome>>

(* CheckConsent returns the consent-manager's answer.  An answer already on *)
(* its way is still delivered after the checks have been stopped.           *)
Reply(i) ==
  /\ worker[i] = "calling"
  /\ Returns(i, IF consent[i] = "granted" THEN "allow" ELSE "deny")

(* CheckConsent fails on its own: an outage, a timeout, an error status.    *)
Fail(i) ==
  /\ worker[i] = "calling"
  /\ Returns(i, "outage")

(* CheckConsent fails because its context is done.                          *)
Abort(i) ==
  /\ worker[i] \in {"calling", "doomed"}
  /\ Stopped
  /\ Returns(i, checksErr)

(* Variant: every returning check cancels its siblings, not only a problem. *)
FinishAlwaysCancels(i) ==
  /\ worker[i] = "answered"
  /\ checksErr' = IF ~Stopped THEN "Canceled" ELSE checksErr
  /\ worker' = [worker EXCEPT ![i] = "done"]
  /\ UNCHANGED <<failOpen, consent, answer, phaseExpired, outcome>>

(* A problem cancels the siblings (the first cause of a context sticks);    *)
(* then the deferred calls give the slot back.                              *)
Finish(i) ==
  /\ worker[i] = "answered"
  /\ checksErr' = IF answer[i] \in Problems /\ ~Stopped
                  THEN "Canceled" ELSE checksErr
  /\ worker' = [worker EXCEPT ![i] = "done"]
  /\ UNCHANGED <<failOpen, consent, answer, phaseExpired, outcome>>

(* phaseCtx's deadline passes; the child context is done with it.           *)
PhaseExpires ==
  /\ ~phaseExpired
  /\ ~Decided
  /\ phaseExpired' = TRUE
  /\ checksErr' = IF Stopped THEN checksErr ELSE "DeadlineExceeded"
  /\ UNCHANGED <<failOpen, consent, worker, answer, outcome>>
-----------------------------------------------------------------------------
Lowest(S) == CHOOSE i \in S : \A j \in S : i <= j

(* Variant: every owner a check was started for is recorded.                *)
CheckedOnceAttempted == Attempted

(* The owners an audit record is written for.                               *)
Checked == {i \in Attempted : answer[i] \in {"allow", "deny"}}
Refusals == {i \in Attempted : answer[i] = "deny"}

(* Variant: every context error is taken for a sibling's cancellation.      *)
FailuresNotByContext == {i \in Attempted : answer[i] = "outage"}

(* Variant: a sibling's cancellation counts as a failure.                   *)
FailuresWithCancelled == {i \in Attempted : answer[i] \in Errors}

(* A call cancelled by a sibling is not a failure, unless the phase has     *)
(* expired as well.                                                         *)
Failures == {i \in Attempted : /\ answer[i] \in Errors
                               /\ answer[i] = "Canceled" => phaseExpired}

Refuse == [decision |-> "deny", failMode |-> "", subject |-> Lowest(Refusals),
           checked |-> Checked]

FallBack ==
  LET first == Lowest(Failures)
      mode  == failModeForError(answer[first])
  IN [decision |-> failDecision(failOpen, mode), failMode |-> mode,
      subject |-> first, checked |-> Checked]

Release == [decision |-> "allow", failMode |-> "", subject |-> NoSubject,
            checked |-> Checked]

(* Variant: ranked by index alone, as before decisiveness came first.       *)
reduceByIndex ==
  IF Refusals \cup Failures = {} THEN Release
  ELSE IF Lowest(Refusals \cup Failures) \in Refusals THEN Refuse
  ELSE FallBack

(* A definite refusal first, then a failure, each at its lowest index.      *)
reduceOwnerResults ==
  IF Refusals # {} THEN Refuse
  ELSE IF Failures # {} THEN FallBack
  ELSE Release

(* wg.Wait() has returned.                                                  *)
Conclude ==
  /\ ~Decided
  /\ Returned = Claims
  /\ outcome' = reduceOwnerResults
  /\ UNCHANGED <<failOpen, consent, worker, answer, checksErr, phaseExpired>>

(* The outcome has been returned and nothing is left to run.                *)
Terminated == Decided /\ UNCHANGED vars

Next ==
  \/ \E i \in Claims : \/ Acquire(i) \/ Skip(i)
                       \/ Reply(i) \/ Fail(i) \/ Abort(i)
                       \/ Finish(i)
  \/ PhaseExpires
  \/ Conclude
  \/ Terminated

(* The Go scheduler runs every goroutine that can run, and a call returns   *)
(* because the HTTP client has a timeout.  Nothing obliges a call to fail,  *)
(* nor the deadline to pass.                                                *)
Fairness ==
  /\ \A i \in Claims : /\ WF_vars(Acquire(i) \/ Skip(i))
                       /\ WF_vars(Reply(i) \/ Fail(i) \/ Abort(i))
                       /\ WF_vars(Finish(i))
  /\ WF_vars(Conclude)

Spec == Init /\ [][Next]_vars
FairSpec == Spec /\ Fairness
-----------------------------------------------------------------------------
(* Types, and how a goroutine's place relates to what it has written: a     *)
(* result exists exactly once its call has returned, and a skipped owner    *)
(* has none (results[i] is written by goroutine i only, consent.go:486-514).*)
TypeOK ==
  /\ failOpen \in BOOLEAN
  /\ consent \in [Claims -> {"granted", "refused"}]
  /\ worker \in [Claims -> WorkerStates]
  /\ answer \in [Claims -> Answers]
  /\ checksErr \in {"none"} \cup ContextErrors
  /\ phaseExpired \in BOOLEAN
  /\ outcome \in [decision : {"pending"} \cup Decisions,
                  failMode : {""} \cup FailModes,
                  subject : {NoSubject} \cup Claims,
                  checked : SUBSET Claims]
  /\ \A i \in Claims : answer[i] = "none" <=> worker[i] \notin {"answered", "done"}

PlainAllow == outcome.decision = "allow" /\ outcome.failMode = ""

(* deny_all: while the phase is within its deadline, a response is released *)
(* without recourse to the fail policy only if every owner was consulted,   *)
(* granted, and is named in the audit record; a sibling's short-circuit     *)
(* never lets an owner go unasked (consent.go:451-452, 561-595).            *)
AllowIsUnanimous ==
  PlainAllow /\ ~phaseExpired =>
    /\ \A i \in Claims : consent[i] = "granted" /\ answer[i] = "allow"
    /\ outcome.checked = Claims

(* A refusal an owner's check returned decides the response, whatever       *)
(* failed beside it, in whatever order the goroutines finished, and however *)
(* the operator set fail_open (consent.go:544-555, 571-577).                *)
RefusalIsFinal ==
  Decided /\ (\E i \in Claims : answer[i] = "deny") =>
    outcome.decision = "deny" /\ outcome.failMode = ""

(* With fail_open off nothing is released while an owner that was consulted *)
(* has not granted: neither a failure, nor a cancelled call, nor a call the *)
(* deadline cut short may pass for an allow (consent.go:579-593).           *)
FailClosedHolds ==
  outcome.decision = "allow" /\ ~failOpen =>
    \A i \in Attempted : consent[i] = "granted" /\ answer[i] = "allow"

(* The owner an outcome names is one whose own check decided it: it really  *)
(* refused, or its own call failed and the fail policy was applied to it.   *)
(* An owner whose call a sibling cancelled takes the blame only when the    *)
(* whole phase ran out of time (consent.go:557-560, 583-587).               *)
OutcomeIsExplained ==
  outcome.subject # NoSubject =>
    LET i == outcome.subject IN
    \/ /\ outcome.decision = "deny"
       /\ answer[i] = "deny"
       /\ consent[i] = "refused"
    \/ /\ outcome.failMode = ByPolicy
       /\ outcome.decision = "allow" <=> failOpen
       /\ answer[i] = "outage" \/ phaseExpired

(* checkOwners returns: slots are given back and every goroutine reaches    *)
(* wg.Done, even if nothing ever cancels and the deadline never passes      *)
(* (consent.go:467-522).                                                    *)
Termination == <>Decided
(* Hiding the goroutines, checkOwners is the gate its caller relies on: one *)
(* step from pending to an outcome the consents, the fail policy and the    *)
(* deadline allow, and no further step (consent.go:451-525).                *)
Gate == INSTANCE OwnerGate
  WITH N <- N, failOpen <- failOpen, consent <- consent, phaseExpired <- phaseExpired,
       outcome <- outcome
ImplementsGate == Gate!GateSpec
-----------------------------------------------------------------------------
(* What the code's comments and tests say, and the code does not do.        *)

(* consent.go:451-452: "every one must have a granted consent for this      *)
(* consumer, or the whole response is denied".                              *)
EveryOwnerGranted ==
  outcome.decision = "allow" /\ ~failOpen => \A i \in Claims : consent[i] = "granted"
=============================================================================
