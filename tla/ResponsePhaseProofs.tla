------------------------- MODULE ResponsePhaseProofs -------------------------
(***************************************************************************)
(* Proofs about ResponsePhase for any authority, any replies of the        *)
(* resolver and any limit on the owners of one response.                   *)
(***************************************************************************)
EXTENDS ResponsePhase, SequenceTheorems, WellFoundedInduction, TLAPS

(* A set of natural numbers that is not empty has a lowest element.         *)
LEMMA LowestNumber ==
  ASSUME NEW S \in SUBSET Nat, S # {}
  PROVE  \E x \in S : \A y \in S : ~ (y < x)
<1>1. PICK x \in S : \A y \in S : ~ (<<y, x>> \in OpToRel(<, Nat))
  BY NatLessThanWellFounded, WFMin
<1>2. \A y \in S : ~ (y < x)
  BY <1>1, Zenon DEF OpToRel
<1> QED
  BY <1>2

LEMMA HeadIsFirst ==
  ASSUME NEW S, NEW s \in Seq(S), s # <<>>
  PROVE  Head(s) = s[1]
  BY LenProperties, EmptySeq

(* The loop of distinctClaims: what it has kept after each claim.           *)
IsLoop(kept, claims_, n) ==
  kept = [m \in 0..n |-> IF m = 0 THEN <<>> ELSE Keep(kept[m - 1], claims_[m])]

LEMMA LoopRuns ==
  ASSUME NEW C
  PROVE  \A n \in Nat : \E kept : IsLoop(kept, C, n)
<1>1. SUFFICES ASSUME {n \in Nat : ~ \E kept : IsLoop(kept, C, n)} # {}
               PROVE  FALSE
  OBVIOUS
<1>2. PICK n \in {k \in Nat : ~ \E kept : IsLoop(kept, C, k)} :
        \A k \in Nat : (~ \E kept : IsLoop(kept, C, k)) => ~ (k < n)
  BY <1>1, LowestNumber
<1>3. CASE n = 0
  <2>1. IsLoop([m \in 0..0 |-> <<>>], C, 0)
    BY DEF IsLoop
  <2> QED
    BY <1>2, <1>3, <2>1
<1>4. CASE n # 0
  <2>1. n - 1 \in Nat /\ n - 1 < n
    BY <1>4
  <2>2. PICK kept : IsLoop(kept, C, n - 1)
    BY <1>2, <2>1
  <2> DEFINE next == [m \in 0..n |-> IF m = n THEN Keep(kept[n - 1], C[n]) ELSE kept[m]]
  <2>3. \A m \in 0..n - 1 : next[m] = kept[m]
    BY <2>1
  <2>4. \A m \in 0..n - 1 : kept[m] = IF m = 0 THEN <<>> ELSE Keep(kept[m - 1], C[m])
    BY <2>2 DEF IsLoop
  <2>5. next[n] = Keep(next[n - 1], C[n])
    BY <2>1, <2>3
  <2>6. ASSUME NEW m \in 0..n
        PROVE  next[m] = IF m = 0 THEN <<>> ELSE Keep(next[m - 1], C[m])
    <3>1. CASE m = n
      BY <1>4, <2>5, <3>1
    <3>2. CASE m # n
      <4>1. m \in 0..n - 1 /\ (m # 0 => m - 1 \in 0..n - 1)
        BY <3>2
      <4> HIDE DEF next
      <4> QED
        BY <2>3, <2>4, <4>1
    <3> QED
      BY <3>1, <3>2
  <2>7. IsLoop(next, C, n)
    BY <2>6, Zenon DEF IsLoop
  <2> QED
    BY <1>2, <2>7
<1> QED
  BY <1>3, <1>4

LEMMA distinctClaimsLoops ==
  ASSUME NEW C, Len(C) \in Nat
  PROVE  \E kept : IsLoop(kept, C, Len(C)) /\ distinctClaims(C) = kept[Len(C)]
<1> DEFINE kept == CHOOSE f : IsLoop(f, C, Len(C))
<1>1. IsLoop(kept, C, Len(C))
  BY LoopRuns
<1>2. distinctClaims(C) = kept[Len(C)]
  BY DEF distinctClaims, IsLoop
<1> QED
  BY <1>1, <1>2

(* What is kept of the first n claims: only them, each owner and resource   *)
(* of them, and each once.                                                  *)
KeptOf(kept, C, n) ==
  /\ \A i \in 1..n : \E j \in 1..Len(kept) : SameKey(kept[j], C[i])
  /\ \A j \in 1..Len(kept) : \E i \in 1..n : kept[j] = C[i]
  /\ \A i, j \in 1..Len(kept) : SameKey(kept[i], kept[j]) => i = j

LEMMA KeepOne ==
  ASSUME NEW S, NEW C \in Seq(S), NEW n \in 1..Len(C), NEW kept \in Seq(S),
         KeptOf(kept, C, n - 1)
  PROVE  Keep(kept, C[n]) \in Seq(S) /\ KeptOf(Keep(kept, C[n]), C, n)
<1>1. /\ Len(C) \in Nat /\ Len(kept) \in Nat /\ DOMAIN kept = 1..Len(kept)
      /\ C[n] \in S /\ n \in Nat
  BY LenProperties, ElementOfSeq
<1>2. /\ \A i \in 1..n : i \in 1..n - 1 \/ i = n
      /\ 1..n - 1 \subseteq 1..n /\ n \in 1..n
  BY <1>1
<1>3. CASE \E i \in DOMAIN kept : SameKey(kept[i], C[n])
  BY <1>1, <1>2, <1>3, Zenon DEF Keep, KeptOf
<1>4. CASE ~ \E i \in DOMAIN kept : SameKey(kept[i], C[n])
  <2> DEFINE next == Append(kept, C[n])
  <2>1. /\ Keep(kept, C[n]) = next /\ next \in Seq(S) /\ Len(next) = Len(kept) + 1
        /\ \A j \in 1..Len(kept) : next[j] = kept[j]
        /\ next[Len(kept) + 1] = C[n]
    BY <1>1, <1>4, AppendProperties DEF Keep
  <2> HIDE DEF next
  <2>2. /\ \A j \in 1..Len(kept) + 1 : j \in 1..Len(kept) \/ j = Len(kept) + 1
        /\ 1..Len(kept) \subseteq 1..Len(kept) + 1 /\ Len(kept) + 1 \in 1..Len(kept) + 1
    BY <1>1
  <2>3. \A i \in 1..n : \E j \in 1..Len(next) : SameKey(next[j], C[i])
    <3>1. SameKey(next[Len(kept) + 1], C[n])
      BY <2>1, Zenon DEF SameKey
    <3> QED
      BY <1>2, <2>1, <2>2, <3>1, Zenon DEF KeptOf
  <2>4. \A j \in 1..Len(next) : \E i \in 1..n : next[j] = C[i]
    <3>1. \A j \in 1..Len(kept) : \E i \in 1..n - 1 : next[j] = C[i]
      BY <2>1 DEF KeptOf
    <3>2. \A j \in 1..Len(kept) + 1 : \E i \in 1..n : next[j] = C[i]
      BY <1>2, <2>1, <2>2, <3>1, Zenon
    <3> QED
      BY <2>1, <3>2
  <2>5. \A i, j \in 1..Len(next) : SameKey(next[i], next[j]) => i = j
    <3>1. \A i \in 1..Len(kept) : ~ SameKey(next[i], next[Len(kept) + 1])
      BY <1>1, <1>4, <2>1
    <3>2. \A i \in 1..Len(kept) : ~ SameKey(next[Len(kept) + 1], next[i])
      BY <3>1 DEF SameKey
    <3>3. \A i, j \in 1..Len(kept) : SameKey(next[i], next[j]) => i = j
      BY <2>1 DEF KeptOf
    <3> QED
      BY <2>1, <2>2, <3>1, <3>2, <3>3
  <2> QED
    BY <2>1, <2>3, <2>4, <2>5 DEF KeptOf
<1> QED
  BY <1>3, <1>4

(* distinctClaims keeps one claim for each owner and resource.              *)
LEMMA distinctClaimsKeeps ==
  ASSUME NEW S, NEW C \in Seq(S)
  PROVE  distinctClaims(C) \in Seq(S) /\ KeptOf(distinctClaims(C), C, Len(C))
<1>1. Len(C) \in Nat
  BY LenProperties
<1>2. PICK kept : IsLoop(kept, C, Len(C)) /\ distinctClaims(C) = kept[Len(C)]
  BY <1>1, distinctClaimsLoops
<1> DEFINE Right(n) == kept[n] \in Seq(S) /\ KeptOf(kept[n], C, n)
<1>3. SUFFICES ASSUME {n \in 0..Len(C) : ~ Right(n)} # {}
               PROVE  FALSE
  BY <1>1, <1>2
<1>4. PICK n \in 0..Len(C) : ~ Right(n) /\ \A k \in 0..Len(C) : ~ Right(k) => ~ (k < n)
  <2>1. {n \in 0..Len(C) : ~ Right(n)} \in SUBSET Nat
    BY <1>1
  <2>2. PICK n \in {n \in 0..Len(C) : ~ Right(n)} :
          \A k \in {n_1 \in 0..Len(C) : ~ Right(n_1)} : ~ (k < n)
    BY <1>3, <2>1, LowestNumber
  <2> QED
    BY <2>2
<1>5. kept[n] = IF n = 0 THEN <<>> ELSE Keep(kept[n - 1], C[n])
  BY <1>2, <1>4 DEF IsLoop
<1>6. CASE n = 0
  <2>1. KeptOf(<<>>, C, 0) /\ <<>> \in Seq(S)
    BY DEF KeptOf
  <2> QED
    BY <1>4, <1>5, <1>6, <2>1
<1>7. CASE n # 0
  <2>1. n \in 1..Len(C) /\ n - 1 \in 0..Len(C) /\ n - 1 < n
    BY <1>1, <1>7
  <2>2. Right(n - 1)
    BY <1>4, <2>1
  <2>3. Right(n)
    BY <1>5, <1>7, <2>1, <2>2, KeepOne
  <2> QED
    BY <1>4, <2>3
<1> QED
  BY <1>6, <1>7
-----------------------------------------------------------------------------
Deciding == {"RecordDecision", "recordAudit", "Enforce", "done"}

(* What each step of the phase knows.                                       *)
PhaseKnows ==
  /\ pc \notin {"RequestFilter", "correlationKey", "LoadAndDelete"} \cup Deciding =>
       context # "none"
  /\ pc \in {"RequestFilter", "correlationKey", "LoadAndDelete", "ReadBody", "Consumer"} =>
       parties = {}
  /\ pc = "Provider" => context = "claims" /\ parties = {"consumer"}
  /\ pc \in {"Resolve", "Claims", "CheckOwners"} =>
       context = "claims" /\ parties = {"consumer", "provider"}
  /\ pc \notin {"Claims", "CheckOwners"} \cup Deciding => asked = {} /\ claims = <<>>
  /\ pc \in {"Claims", "CheckOwners"} =>
       asked = {{"consumer", "provider"}} /\ claims \in Replies
  /\ pc \notin {"CheckOwners"} \cup Deciding => distinct = <<>>
  /\ pc # "done" => response = "held"
  /\ pc \notin Deciding => audit = {} /\ counted = 0
  /\ pc = "RecordDecision" => audit = {} /\ counted = 0
  /\ pc = "recordAudit" => audit = {}

(* The claims that reach the owner checks can be checked: each names an     *)
(* owner and is stood for by one that is to be checked.                     *)
StoodFor(i) ==
  \E m \in DOMAIN claims :
    /\ SameKey(claims[m], claims[i])
    /\ cfg.requirePurpose => claims[m].purpose # Unset
    /\ \E j \in DOMAIN distinct : distinct[j] = claims[m]

Scoped ==
  /\ Len(distinct) \in 1..MaxOwners
  /\ \A i \in DOMAIN claims : claims[i].owner # Unset /\ StoodFor(i)

ClaimsAreScoped ==
  pc = "CheckOwners" =>
    Scoped /\ claims \in Seq(ToSet(claims)) /\ distinct = distinctClaims(claims)

(* Why an outcome may allow, and what a refusal rests on.                   *)
MayRelease ==
  /\ context # "none"
  /\ \/ cfg.failOpen /\ reason = "outage"
     \/ /\ asked = {{"consumer", "provider"}} /\ context = "claims"
        /\ \/ distinct = <<>> /\ claims = <<>>
           \/ Scoped /\ (late \/ outcome.checked = DOMAIN distinct)

OutcomeIsEarned ==
  pc \in Deciding =>
    /\ outcome.decision = "allow" => MayRelease /\ outcome.checked \subseteq Granted
    /\ outcome.decision = "allow" /\ outcome.failMode = "" /\ ~late =>
         DOMAIN distinct \subseteq Granted
    /\ outcome.decision = "deny" /\ outcome.failMode = "" =>
         outcome.subject \in outcome.checked \ Granted

(* What has been recorded, and done, is the outcome.                        *)
RecordedThenDone ==
  /\ pc \in Deciding \ {"RecordDecision"} => counted = 1
  /\ pc \in {"Enforce", "done"} => audit = IF cfg.auditEnabled THEN AuditRecords ELSE {}
  /\ pc = "done" => response = IF outcome.decision = "deny" THEN "denial" ELSE "upstream"

IInv ==
  /\ TypeOK
  /\ PhaseKnows
  /\ ClaimsAreScoped
  /\ OutcomeIsEarned
  /\ RecordedThenDone
-----------------------------------------------------------------------------
LEMMA PendingDecidesNothing ==
  /\ Pending.decision \notin Decisions /\ Pending.failMode = ""
  /\ Pending.subject = NoSubject /\ Pending.checked = {}
  BY DEF Pending, Decisions

LEMMA OutcomeType ==
  ASSUME NEW decision \in Decisions, NEW mode \in {""} \cup FailModes, NEW claimed
  PROVE  [Pending EXCEPT !.decision = decision, !.failMode = mode]
           \in [decision : Decisions, failMode : {""} \cup FailModes,
               subject : {NoSubject} \cup claimed, checked : SUBSET claimed]
  BY DEF Pending

LEMMA InitIInv ==
  ASSUME Init
  PROVE  IInv
<1> USE DEF Init
<1>1. TypeOK
  <2>1. claims \in Replies \cup {<<>>} /\ late \in BOOLEAN
    OBVIOUS
  <2>2. counted \in 0..1
    OBVIOUS
  <2>3. outcome = Pending \/ outcome \in [decision : Decisions, failMode : {""} \cup FailModes,
                                         subject : {NoSubject} \cup DOMAIN distinct,
                                         checked : SUBSET DOMAIN distinct]
    OBVIOUS
  <2> QED
    BY <2>1, <2>2, <2>3 DEF TypeOK
<1>2. PhaseKnows /\ ClaimsAreScoped /\ OutcomeIsEarned /\ RecordedThenDone
  BY DEF PhaseKnows, ClaimsAreScoped, OutcomeIsEarned, RecordedThenDone, Deciding
<1> QED
  BY <1>1, <1>2 DEF IInv

(* An early return decides by the policy only for an outage, and only once  *)
(* the request's context is in hand.                                        *)
LEMMA FailWithIInv ==
  ASSUME IInv, pc \notin Deciding, NEW mode \in FailModes, NEW why, FailWith(mode, why),
         mode = ByPolicy => why = "outage" /\ context # "none",
         why \in {"outage", "no correlation id", "no request context", "body too large",
                  "no consuming participant", "claims cannot be checked"} \cup PermanentErrors,
         parties' \subseteq {"consumer", "provider"},
         asked' \subseteq SUBSET {"consumer", "provider"},
         claims' \in Replies \cup {<<>>},
         UNCHANGED <<world, context, late, results>>
  PROVE  IInv'
<1> USE DEF world, results
<1>1. /\ pc' = "RecordDecision" /\ reason' = why
      /\ outcome' = [Pending EXCEPT !.decision = failDecision(cfg.failOpen, mode),
                                    !.failMode = mode]
  BY DEF FailWith
<1>2. /\ failDecision(cfg.failOpen, mode) \in Decisions
      /\ failDecision(cfg.failOpen, mode) = "allow" => cfg.failOpen /\ mode = ByPolicy
  BY DEF failDecision, Decisions
<1>3. /\ outcome'.decision = failDecision(cfg.failOpen, mode) /\ outcome'.failMode = mode
      /\ outcome'.subject = NoSubject /\ outcome'.checked = {} /\ mode # ""
  <2>1. mode # ""
    BY DEF FailModes, ByPolicy, AlwaysClosed
  <2>2. PICK decision : decision = failDecision(cfg.failOpen, mode)
    OBVIOUS
  <2>3. outcome' = [Pending EXCEPT !.decision = decision, !.failMode = mode]
    BY <1>1, <2>2
  <2>4. PICK o : o = outcome'
    OBVIOUS
  <2>5. o = [Pending EXCEPT !.decision = decision, !.failMode = mode]
    BY <2>3, <2>4
  <2>6. o.decision = decision /\ o.failMode = mode /\ o.subject = NoSubject /\ o.checked = {}
    BY <2>5 DEF Pending
  <2> QED
    BY <2>1, <2>2, <2>4, <2>6
<1>4. audit = {} /\ counted = 0 /\ response = "held"
  BY DEF IInv, PhaseKnows, Deciding
<1>5. TypeOK'
  <2>1. outcome' # Pending
    BY <1>2, <1>3, PendingDecidesNothing
  <2>2. outcome' \in [decision : Decisions, failMode : {""} \cup FailModes,
                      subject : {NoSubject} \cup DOMAIN distinct',
                      checked : SUBSET DOMAIN distinct']
    BY <1>1, <1>2, OutcomeType
  <2> QED
    BY <1>1, <1>4, <2>1, <2>2 DEF IInv, TypeOK
<1>6. PhaseKnows' /\ ClaimsAreScoped' /\ RecordedThenDone'
  BY <1>1, <1>4 DEF PhaseKnows, ClaimsAreScoped, RecordedThenDone, Deciding
<1>7. OutcomeIsEarned'
  <2>1. outcome'.decision = "allow" => cfg'.failOpen /\ reason' = "outage" /\ context' # "none"
    BY <1>1, <1>2, <1>3
  <2> QED
    BY <1>3, <2>1 DEF OutcomeIsEarned, MayRelease
<1> QED
  BY <1>5, <1>6, <1>7 DEF IInv

(* A step that leaves what decides alone.                                   *)
LEMMA ProceedIInv ==
  ASSUME IInv, pc \notin Deciding,
         pc' \in {"correlationKey", "LoadAndDelete", "ReadBody", "Consumer", "Provider",
                 "Resolve", "Claims", "CheckOwners"},
         context' \in {"none", "noclaims", "claims"},
         parties' \subseteq {"consumer", "provider"},
         asked' \subseteq SUBSET {"consumer", "provider"},
         claims' \in Replies \cup {<<>>}, late' \in BOOLEAN,
         UNCHANGED <<world, outcome, reason, results>>,
         PhaseKnows', ClaimsAreScoped'
  PROVE  IInv'
<1> USE DEF world, results
<1>1. outcome = Pending /\ audit = {}
  BY DEF IInv, TypeOK, PhaseKnows, Deciding
<1>2. TypeOK'
  BY <1>1 DEF IInv, TypeOK, Deciding
<1>3. OutcomeIsEarned' /\ RecordedThenDone'
  BY DEF OutcomeIsEarned, RecordedThenDone, Deciding
<1> QED
  BY <1>2, <1>3 DEF IInv

LEMMA EarlyIInv ==
  ASSUME IInv, RequestFilter \/ LoseContext \/ correlationKey \/ LoadAndDelete \/ ReadBody
               \/ PhaseExpires
  PROVE  IInv'
<1> USE DEF world, results
<1>0. pc \notin Deciding
  BY DEF Deciding, RequestFilter, LoseContext, correlationKey, LoadAndDelete, ReadBody, PhaseExpires
<1>1. CASE RequestFilter
  <2>1. PhaseKnows' /\ ClaimsAreScoped'
    BY <1>1 DEF RequestFilter, IInv, PhaseKnows, ClaimsAreScoped, Deciding
  <2> QED
    BY <1>0, <1>1, <2>1, ProceedIInv DEF RequestFilter, IInv, TypeOK
<1>2. CASE LoseContext
  <2>1. PhaseKnows' /\ ClaimsAreScoped'
    BY <1>2 DEF LoseContext, IInv, PhaseKnows, ClaimsAreScoped, Deciding
  <2> QED
    BY <1>0, <1>2, <2>1, ProceedIInv DEF LoseContext, IInv, TypeOK
<1>3. CASE correlationKey
  <2>1. CASE FailWith(AlwaysClosed, "no correlation id")
    BY <1>0, <1>3, <2>1, FailWithIInv
    DEF correlationKey, IInv, TypeOK, FailModes, ByPolicy, AlwaysClosed
  <2>2. CASE Proceed("LoadAndDelete")
    <3>1. PhaseKnows' /\ ClaimsAreScoped'
      BY <1>3, <2>2 DEF correlationKey, Proceed, IInv, PhaseKnows, ClaimsAreScoped, Deciding
    <3> QED
      BY <1>0, <1>3, <2>2, <3>1, ProceedIInv DEF correlationKey, Proceed, IInv, TypeOK
  <2> QED
    BY <1>3, <2>1, <2>2 DEF correlationKey
<1>4. CASE LoadAndDelete
  <2>1. CASE context = "none"
    BY <1>0, <1>4, <2>1, FailWithIInv
    DEF LoadAndDelete, IInv, TypeOK, FailModes, ByPolicy, AlwaysClosed
  <2>2. CASE context # "none"
    <3>1. PhaseKnows' /\ ClaimsAreScoped'
      BY <1>4, <2>2 DEF LoadAndDelete, Proceed, IInv, PhaseKnows, ClaimsAreScoped, Deciding
    <3> QED
      BY <1>0, <1>4, <2>2, <3>1, ProceedIInv DEF LoadAndDelete, Proceed, IInv, TypeOK
  <2> QED
    BY <2>1, <2>2
<1>5. CASE ReadBody
  <2>0. context # "none"
    BY <1>5 DEF ReadBody, IInv, PhaseKnows, Deciding
  <2>1. CASE FailWith(ByPolicy, "outage")
    BY <1>0, <1>5, <2>0, <2>1, FailWithIInv DEF ReadBody, IInv, TypeOK, FailModes
  <2>2. CASE FailWith(AlwaysClosed, "body too large")
    BY <1>0, <1>5, <2>2, FailWithIInv
    DEF ReadBody, IInv, TypeOK, FailModes, ByPolicy, AlwaysClosed
  <2>3. CASE Proceed("Consumer")
    <3>1. PhaseKnows' /\ ClaimsAreScoped'
      BY <1>5, <2>3 DEF ReadBody, Proceed, IInv, PhaseKnows, ClaimsAreScoped, Deciding
    <3> QED
      BY <1>0, <1>5, <2>3, <3>1, ProceedIInv DEF ReadBody, Proceed, IInv, TypeOK
  <2> QED
    BY <1>5, <2>1, <2>2, <2>3 DEF ReadBody
<1>6. CASE PhaseExpires
  <2>1. PhaseKnows'
    BY <1>6 DEF PhaseExpires, IInv, PhaseKnows, Deciding
  <2>2. ClaimsAreScoped'
    BY <1>6 DEF PhaseExpires, IInv, ClaimsAreScoped, Scoped, StoodFor
  <2> QED
    BY <1>0, <1>6, <2>1, <2>2, ProceedIInv DEF PhaseExpires, IInv, TypeOK
<1> QED
  BY <1>1, <1>2, <1>3, <1>4, <1>5, <1>6

(* Only a failure is an outage the policy may ride out.                     *)
LEMMA IdentifyIInv ==
  ASSUME IInv, IdentifyConsumer \/ IdentifyProvider
  PROVE  IInv'
<1> USE DEF world, results
<1>0. /\ pc \notin Deciding /\ context # "none"
      /\ UNCHANGED <<world, context, asked, claims, distinct, late, results>>
  BY DEF Deciding, IdentifyConsumer, IdentifyProvider, IInv, PhaseKnows
<1>1. ASSUME NEW err \in {"outage"} \cup PermanentErrors, FailWith(failModeForError(err), err),
             UNCHANGED parties
      PROVE  IInv'
  <2>1. /\ failModeForError(err) \in FailModes
        /\ failModeForError(err) = ByPolicy => err = "outage"
    BY DEF failModeForError, FailModes, PermanentErrors, ByPolicy, AlwaysClosed
  <2> QED
    BY <1>0, <1>1, <2>1, FailWithIInv DEF IInv, TypeOK
<1>2. CASE IdentifyConsumer
  <2>1. CASE FailWith(AlwaysClosed, "no consuming participant") /\ UNCHANGED parties
    BY <1>0, <2>1, FailWithIInv DEF IInv, TypeOK, FailModes, ByPolicy, AlwaysClosed
  <2>2. CASE context = "claims" /\ Proceed("Provider") /\ parties' = parties \cup {"consumer"}
    <3>1. PhaseKnows' /\ ClaimsAreScoped'
      BY <1>0, <1>2, <2>2
      DEF IdentifyConsumer, Proceed, IInv, PhaseKnows, ClaimsAreScoped, Deciding
    <3> QED
      BY <1>0, <2>2, <3>1, ProceedIInv DEF Proceed, IInv, TypeOK
  <2> QED
    BY <1>1, <1>2, <2>1, <2>2 DEF IdentifyConsumer
<1>3. CASE IdentifyProvider
  <2>1. CASE Proceed("Resolve") /\ parties' = parties \cup {"provider"}
    <3>1. PhaseKnows' /\ ClaimsAreScoped'
      BY <1>0, <1>3, <2>1
      DEF IdentifyProvider, Proceed, IInv, PhaseKnows, ClaimsAreScoped, Deciding
    <3> QED
      BY <1>0, <2>1, <3>1, ProceedIInv DEF Proceed, IInv, TypeOK
  <2>2. {"outage", "ErrNoCredentials"} \subseteq {"outage"} \cup PermanentErrors
    BY DEF PermanentErrors
  <2>3. CASE /\ \E err \in {"outage", "ErrNoCredentials"} : FailWith(failModeForError(err), err)
             /\ UNCHANGED parties
    BY <1>1, <2>2, <2>3, Zenon
  <2> QED
    BY <1>3, <2>1, <2>3 DEF IdentifyProvider
<1> QED
  BY <1>2, <1>3

(* The resolver answers that no consent is needed, or with claims.          *)
LEMMA ResolveIInv ==
  ASSUME IInv, Resolve
  PROVE  IInv'
<1> USE DEF world, results
<1>1. /\ pc = "Resolve" /\ pc \notin Deciding /\ asked' = asked \cup {parties}
      /\ UNCHANGED <<world, context, parties, distinct, late, results>>
  BY DEF Resolve, Deciding
<1>2. /\ context = "claims" /\ asked' = {{"consumer", "provider"}}
      /\ claims = <<>> /\ distinct = <<>>
      /\ audit = {} /\ counted = 0 /\ response = "held" /\ outcome = Pending
  BY <1>1 DEF IInv, PhaseKnows, Deciding, TypeOK
<1>3. CASE FailWith(ByPolicy, "outage") /\ UNCHANGED claims
  <2>1. /\ parties' \subseteq {"consumer", "provider"}
        /\ asked' \subseteq SUBSET {"consumer", "provider"} /\ claims' \in Replies \cup {<<>>}
    <3>1. {{"consumer", "provider"}} \subseteq SUBSET {"consumer", "provider"}
      OBVIOUS
    <3>2. claims' \in Replies \cup {<<>>}
      BY <1>3 DEF IInv, TypeOK
    <3>3. parties' \subseteq {"consumer", "provider"}
      BY <1>1 DEF IInv, TypeOK
    <3> QED
      BY <1>2, <3>1, <3>2, <3>3
  <2>2. ByPolicy \in FailModes /\ context # "none"
    BY <1>2 DEF FailModes
  <2> QED
    BY <1>1, <1>3, <2>1, <2>2, FailWithIInv
<1>4. CASE /\ pc' = "RecordDecision" /\ outcome' = [Pending EXCEPT !.decision = "allow"]
           /\ UNCHANGED <<claims, reason>>
  <2>1. /\ outcome'.decision = "allow" /\ outcome'.failMode = "" /\ outcome'.subject = NoSubject
        /\ outcome'.checked = {}
        /\ outcome' \in [decision : Decisions, failMode : {""} \cup FailModes,
                         subject : {NoSubject} \cup DOMAIN distinct',
                         checked : SUBSET DOMAIN distinct']
    BY <1>4 DEF Pending, Decisions
  <2>2. outcome' # Pending
    BY <2>1, PendingDecidesNothing DEF Decisions
  <2>3. TypeOK'
    BY <1>1, <1>2, <1>4, <2>1, <2>2 DEF IInv, TypeOK
  <2>4. PhaseKnows' /\ ClaimsAreScoped' /\ RecordedThenDone'
    BY <1>1, <1>2, <1>4 DEF PhaseKnows, ClaimsAreScoped, RecordedThenDone, Deciding
  <2>5. DOMAIN distinct' = {}
    BY <1>1, <1>2
  <2>6. OutcomeIsEarned'
    BY <1>1, <1>2, <1>4, <2>1, <2>5 DEF OutcomeIsEarned, MayRelease
  <2> QED
    BY <2>3, <2>4, <2>6 DEF IInv
<1>5. CASE Proceed("Claims") /\ claims' \in Replies
  <2>1. PhaseKnows' /\ ClaimsAreScoped'
    BY <1>1, <1>2, <1>5 DEF Proceed, IInv, PhaseKnows, ClaimsAreScoped, Deciding
  <2> QED
    BY <1>1, <1>2, <1>5, <2>1, ProceedIInv DEF Proceed, IInv, TypeOK
<1> QED
  BY <1>3, <1>4, <1>5 DEF Resolve

(* What distinctClaims keeps of claims that all name an owner: claims that  *)
(* name one, and at least one of them.                                      *)
LEMMA ScopeIInv ==
  ASSUME IInv, ScopeClaims
  PROVE  IInv'
<1> USE DEF world, results
<1>1. /\ pc = "Claims" /\ pc \notin Deciding /\ distinct' = distinctClaims(claims)
      /\ UNCHANGED <<world, context, parties, asked, claims, late, results>>
  BY DEF ScopeClaims, Deciding
<1>2. CASE FailWith(AlwaysClosed, "claims cannot be checked")
  BY <1>1, <1>2, FailWithIInv DEF IInv, TypeOK, FailModes, ByPolicy, AlwaysClosed
<1>3. CASE /\ Proceed("CheckOwners") /\ claims # <<>> /\ ~ NamesNoOwner(claims)
           /\ cfg.requirePurpose => ~ NamesNoPurpose(distinct')
           /\ ~ (Len(distinct') > MaxOwners)
  <2>1. claims \in Seq(ToSet(claims))
    BY <1>1, ResponsePhaseAssumption DEF IInv, PhaseKnows
  <2>2. distinct' \in Seq(ToSet(claims)) /\ KeptOf(distinct', claims, Len(claims))
    BY <1>1, <2>1, distinctClaimsKeeps
  <2>3. /\ Len(claims) \in Nat \ {0} /\ DOMAIN claims = 1..Len(claims)
        /\ Len(distinct') \in Nat /\ DOMAIN distinct' = 1..Len(distinct')
    BY <1>3, <2>1, <2>2, LenProperties, EmptySeq
  <2>4. Len(distinct') \in 1..MaxOwners
    <3>1. 1 \in 1..Len(claims)
      BY <2>3
    <3>2. 1..Len(distinct') # {}
      BY <2>2, <3>1 DEF KeptOf
    <3> QED
      BY <1>3, <2>3, <3>2, ResponsePhaseAssumption
  <2>5. \A i \in DOMAIN claims : claims[i].owner # Unset
    BY <1>3 DEF NamesNoOwner
  <2>6. ASSUME NEW i \in DOMAIN claims
        PROVE  StoodFor(i)'
    <3>1. PICK j \in DOMAIN distinct' : SameKey(distinct'[j], claims[i])
      BY <2>2, <2>3, Zenon DEF KeptOf
    <3>2. PICK m \in DOMAIN claims : distinct'[j] = claims[m]
      BY <2>2, <2>3, Zenon DEF KeptOf
    <3>3. cfg.requirePurpose => claims[m].purpose # Unset
      BY <1>3, <3>2 DEF NamesNoPurpose
    <3>4. SameKey(claims[m], claims[i])
      BY <3>1, <3>2
    <3> QED
      BY <1>1, <3>2, <3>3, <3>4, Zenon DEF StoodFor
  <2>7. ClaimsAreScoped'
    BY <1>1, <2>1, <2>4, <2>5, <2>6 DEF ClaimsAreScoped, Scoped
  <2>8. PhaseKnows'
    BY <1>1, <1>3 DEF Proceed, IInv, PhaseKnows, Deciding
  <2> QED
    BY <1>1, <1>3, <2>7, <2>8, ProceedIInv DEF Proceed, IInv, TypeOK
<1> QED
  BY <1>2, <1>3 DEF ScopeClaims

(* The gate's outcome: it allows on the policy after an outage, or because  *)
(* every owner it lists granted - all of them, in time.                     *)
LEMMA checkOwnersIInv ==
  ASSUME IInv, checkOwners
  PROVE  IInv'
<1> USE DEF world, results
<1> DEFINE D == DOMAIN distinct
<1>1. /\ pc = "CheckOwners" /\ pc' = "RecordDecision"
      /\ outcome' \in OwnerOutcomes(D, Granted, cfg.failOpen, late)
      /\ reason' = IF outcome'.failMode = ByPolicy THEN "outage" ELSE reason
      /\ UNCHANGED <<world, context, parties, asked, claims, distinct, late, results>>
  BY DEF checkOwners
<1>2. /\ context = "claims" /\ asked = {{"consumer", "provider"}} /\ Scoped
      /\ audit = {} /\ counted = 0 /\ response = "held"
  BY <1>1 DEF IInv, PhaseKnows, ClaimsAreScoped, Deciding
<1>3. outcome' \in [decision : Decisions, failMode : {"", ByPolicy},
                    subject : {NoSubject} \cup D, checked : SUBSET D]
  BY <1>1, Zenon DEF OwnerOutcomes, Refusing, FallingBack, Releasing, OutcomesOver
<1>4. \/ /\ outcome'.decision = "deny" /\ outcome'.failMode = ""
         /\ outcome'.subject \in outcome'.checked \ Granted
      \/ /\ outcome'.failMode = ByPolicy /\ outcome'.decision = failDecision(cfg.failOpen, ByPolicy)
         /\ outcome'.checked \subseteq Granted
      \/ /\ outcome'.decision = "allow" /\ outcome'.failMode = ""
         /\ outcome'.checked \subseteq Granted /\ (outcome'.checked = D \/ late)
  BY <1>1, Zenon DEF OwnerOutcomes, Refusing, FallingBack, Releasing
<1>5. Granted' = Granted /\ Scoped' = Scoped
  BY <1>1 DEF Granted, Scoped, StoodFor
<1>6. TypeOK'
  <2>1. outcome' # Pending
    BY <1>3, PendingDecidesNothing
  <2>2. outcome' \in [decision : Decisions, failMode : {""} \cup FailModes,
                      subject : {NoSubject} \cup DOMAIN distinct',
                      checked : SUBSET DOMAIN distinct']
    BY <1>1, <1>3 DEF FailModes
  <2>3. reason' \in {"outage", reason}
    BY <1>1
  <2> QED
    BY <1>1, <1>2, <2>1, <2>2, <2>3 DEF IInv, TypeOK
<1>7. PhaseKnows' /\ ClaimsAreScoped' /\ RecordedThenDone'
  BY <1>1, <1>2 DEF PhaseKnows, ClaimsAreScoped, RecordedThenDone, Deciding
<1>8. OutcomeIsEarned'
  <2>1. MayRelease' \/ outcome'.decision = "deny"
    BY <1>1, <1>2, <1>4, <1>5 DEF MayRelease, failDecision
  <2>2. outcome'.decision = "allow" => outcome'.checked \subseteq Granted
    BY <1>4
  <2>3. outcome'.decision = "allow" /\ outcome'.failMode = "" /\ ~late => D \subseteq Granted
    BY <1>4 DEF ByPolicy
  <2>4. outcome'.decision = "deny" /\ outcome'.failMode = "" =>
          outcome'.subject \in outcome'.checked \ Granted
    BY <1>4 DEF ByPolicy
  <2> QED
    BY <1>1, <1>5, <2>1, <2>2, <2>3, <2>4 DEF OutcomeIsEarned
<1> QED
  BY <1>6, <1>7, <1>8 DEF IInv

(* The types of a decided outcome's phase, once it is left alone.           *)
LEMMA Typed ==
  ASSUME IInv, pc \in Deciding, pc' \in Deciding, counted' = 1 \/ counted' = counted,
         response' \in {"held", "upstream", "denial"},
         \A record \in audit' :
           record.subject \in {NoSubject} \cup outcome.checked \cup {outcome.subject},
         UNCHANGED <<world, context, parties, asked, claims, distinct, late, outcome, reason>>
  PROVE  TypeOK'
<1> USE DEF world
<1>1. outcome' # Pending
  BY DEF IInv, TypeOK, Deciding
<1>2. outcome' = Pending \/ outcome' \in [decision : Decisions, failMode : {""} \cup FailModes,
                                         subject : {NoSubject} \cup DOMAIN distinct',
                                         checked : SUBSET DOMAIN distinct']
  BY Zenon DEF IInv, TypeOK
<1>3. \A record \in audit' :
        record.subject \in {NoSubject} \cup outcome'.checked \cup {outcome'.subject}
  BY Zenon
<1>4. counted' \in 0..1
  <2>1. counted \in 0..1
    BY DEF IInv, TypeOK
  <2> QED
    BY <2>1
<1> QED
  BY <1>1, <1>2, <1>3, <1>4 DEF IInv, TypeOK, Deciding

(* Counting, recording and enforcing the outcome leave it alone.            *)
LEMMA EnforcingIInv ==
  ASSUME IInv, RecordDecision \/ recordAudit \/ Enforce
  PROVE  IInv'
<1> USE DEF world, results
<1>1. /\ pc \in Deciding /\ pc' \in Deciding /\ outcome # Pending
      /\ UNCHANGED <<world, context, parties, asked, claims, distinct, late, outcome, reason>>
  BY DEF RecordDecision, recordAudit, Enforce, Deciding, IInv, TypeOK
<1>2. Granted' = Granted /\ AuditRecords' = AuditRecords /\ MayRelease' = MayRelease
  BY <1>1 DEF Granted, AuditRecords, MayRelease, Scoped, StoodFor
<1>3. OutcomeIsEarned' /\ ClaimsAreScoped'
  BY <1>1, <1>2 DEF IInv, OutcomeIsEarned, ClaimsAreScoped, Deciding
<1>4. \A record \in AuditRecords :
        record.subject \in {NoSubject} \cup outcome.checked \cup {outcome.subject}
  BY DEF AuditRecords
<1>5. CASE RecordDecision
  <2>1. counted' = 1 /\ pc' = "recordAudit" /\ audit' = {} /\ response' = "held"
    BY <1>5 DEF RecordDecision, IInv, PhaseKnows
  <2>2. TypeOK'
    BY <1>1, <1>4, <2>1, Typed
  <2>3. PhaseKnows' /\ RecordedThenDone'
    BY <2>1 DEF PhaseKnows, RecordedThenDone, Deciding
  <2> QED
    BY <1>3, <2>2, <2>3 DEF IInv
<1>6. CASE recordAudit
  <2>1. /\ counted' = 1 /\ pc' = "Enforce" /\ response' = "held"
        /\ audit' = IF cfg.auditEnabled THEN AuditRecords ELSE {}
    BY <1>6 DEF recordAudit, IInv, PhaseKnows, RecordedThenDone, Deciding
  <2>2. TypeOK'
    BY <1>1, <1>4, <2>1, Typed
  <2>3. PhaseKnows' /\ RecordedThenDone'
    BY <1>1, <1>2, <2>1 DEF PhaseKnows, RecordedThenDone, Deciding
  <2> QED
    BY <1>3, <2>2, <2>3 DEF IInv
<1>7. CASE Enforce
  <2>1. /\ counted' = 1 /\ pc' = "done"
        /\ response' = IF outcome.decision = "deny" THEN "denial" ELSE "upstream"
        /\ audit' = audit /\ audit = IF cfg.auditEnabled THEN AuditRecords ELSE {}
    BY <1>7 DEF Enforce, IInv, PhaseKnows, RecordedThenDone, Deciding
  <2>2. TypeOK'
    BY <1>1, <1>4, <2>1, Typed
  <2>3. PhaseKnows' /\ RecordedThenDone'
    BY <1>1, <1>2, <2>1 DEF PhaseKnows, RecordedThenDone, Deciding
  <2> QED
    BY <1>3, <2>2, <2>3 DEF IInv
<1> QED
  BY <1>5, <1>6, <1>7

LEMMA NextIInv ==
  ASSUME IInv, [Next]_vars
  PROVE  IInv'
<1>1. CASE UNCHANGED vars
  <2> USE DEF vars
  <2>1. TypeOK'
    <3>1. outcome' = Pending \/ outcome' \in [decision : Decisions, failMode : {""} \cup FailModes,
                                             subject : {NoSubject} \cup DOMAIN distinct',
                                             checked : SUBSET DOMAIN distinct']
      BY <1>1, Zenon DEF IInv, TypeOK
    <3>2. \A record \in audit' :
            record.subject \in {NoSubject} \cup outcome'.checked \cup {outcome'.subject}
      BY <1>1, Zenon DEF IInv, TypeOK
    <3>3. claims' \in Replies \cup {<<>>} /\ late' \in BOOLEAN /\ asked' \subseteq SUBSET {"consumer", "provider"}
      BY <1>1, Zenon DEF IInv, TypeOK
    <3>4. counted' \in 0..1 /\ cfg' \in Config /\ records' \in Authorities
      BY <1>1, Zenon DEF IInv, TypeOK
    <3>5. /\ pc' \in {"RequestFilter", "correlationKey", "LoadAndDelete", "ReadBody", "Consumer",
                     "Provider", "Resolve", "Claims", "CheckOwners", "RecordDecision",
                     "recordAudit", "Enforce", "done"}
          /\ outcome' = Pending <=> pc' \notin {"RecordDecision", "recordAudit", "Enforce", "done"}
      BY <1>1, Zenon DEF IInv, TypeOK
    <3>6. /\ context' \in {"none", "noclaims", "claims"} /\ parties' \subseteq {"consumer", "provider"}
          /\ response' \in {"held", "upstream", "denial"}
          /\ reason' \in {"none", "outage", "no correlation id", "no request context",
                          "body too large", "no consuming participant",
                          "claims cannot be checked"} \cup PermanentErrors
      BY <1>1, Zenon DEF IInv, TypeOK
    <3> QED
      BY <3>1, <3>2, <3>3, <3>4, <3>5, <3>6, Zenon DEF TypeOK
  <2>2. PhaseKnows' /\ ClaimsAreScoped'
    BY <1>1 DEF IInv, PhaseKnows, ClaimsAreScoped, Scoped, StoodFor
  <2>3. Granted' = Granted /\ MayRelease' = MayRelease /\ AuditRecords' = AuditRecords
    BY <1>1 DEF MayRelease, Scoped, StoodFor, Granted, AuditRecords
  <2>4. OutcomeIsEarned' /\ RecordedThenDone'
    BY <1>1, <2>3 DEF IInv, OutcomeIsEarned, RecordedThenDone
  <2> QED
    BY <2>1, <2>2, <2>4 DEF IInv
<1> QED
  BY <1>1, EarlyIInv, IdentifyIInv, ResolveIInv, ScopeIInv, checkOwnersIInv, EnforcingIInv
  DEF Next, Terminated

(* Every reachable state satisfies the inductive invariant.                 *)
THEOREM Inductive == Spec => []IInv
<1>1. Init => IInv
  BY InitIInv
<1>2. IInv /\ [Next]_vars => IInv'
  BY NextIInv
<1> QED
  BY <1>1, <1>2, PTL DEF Spec
-----------------------------------------------------------------------------
(* The phase's variables keep their types, and an outcome is there exactly  *)
(* from the moment the phase has decided.                                   *)
THEOREM TypeCorrect == Spec => []TypeOK
<1>1. IInv => TypeOK
  BY DEF IInv
<1> QED
  BY <1>1, Inductive, PTL

(* A response the client got was allowed by an outcome that had one of the  *)
(* reasons a release may have: a failure the policy rides out, an answer    *)
(* that no consent is needed, or a check that came back for each owner and  *)
(* resource of the claims, the deadline alone excusing one that was not     *)
(* made (consent.go:256-383, 471-475, 625-677).                             *)
THEOREM ReleasesJustified == Spec => []ReleaseIsJustified
<1>1. IInv => ReleaseIsJustified
  <2> SUFFICES ASSUME IInv, response = "upstream"
               PROVE  ReleaseIsJustified
    BY DEF ReleaseIsJustified
  <2>1. pc = "done" /\ outcome.decision # "deny" /\ outcome # Pending
    BY DEF IInv, PhaseKnows, RecordedThenDone, TypeOK
  <2>2. outcome.decision = "allow"
    BY <2>1 DEF IInv, TypeOK, Decisions
  <2>3. MayRelease
    BY <2>1, <2>2 DEF IInv, OutcomeIsEarned, Deciding
  <2>4. CASE cfg.failOpen /\ reason = "outage"
    BY <2>3, <2>4 DEF MayRelease, ReleaseIsJustified
  <2>5. CASE distinct = <<>> /\ claims = <<>> /\ asked = {{"consumer", "provider"}} /\ context = "claims"
    <3>1. Len(distinct) <= MaxOwners /\ DOMAIN claims = {}
      BY <2>5, ResponsePhaseAssumption
    <3> QED
      BY <2>3, <2>5, <3>1 DEF MayRelease, ReleaseIsJustified
  <2>6. CASE /\ Scoped /\ (late \/ outcome.checked = DOMAIN distinct)
             /\ asked = {{"consumer", "provider"}} /\ context = "claims"
    <3>1. Len(distinct) <= MaxOwners
      BY <2>6, ResponsePhaseAssumption DEF Scoped
    <3>2. ASSUME NEW i \in DOMAIN claims
          PROVE  /\ claims[i].owner # Unset
                 /\ \E m \in DOMAIN claims :
                      /\ SameKey(claims[m], claims[i])
                      /\ cfg.requirePurpose => claims[m].purpose # Unset
                      /\ late \/ \E j \in outcome.checked : distinct[j] = claims[m]
      BY <2>6, Zenon DEF Scoped, StoodFor
    <3> QED
      BY <2>3, <2>6, <3>1, <3>2 DEF MayRelease, ReleaseIsJustified
  <2> QED
    BY <2>3, <2>4, <2>5, <2>6 DEF MayRelease
<1> QED
  BY <1>1, Inductive, PTL

(* A plain release in time rests, for every claim, on a standing consent of *)
(* its owner to this consumer (client.go:820-913).                          *)
THEOREM ReleasesRestOnAgreements == Spec => []ReleaseRestsOnAgreements
<1>1. IInv => ReleaseRestsOnAgreements
  <2> SUFFICES ASSUME IInv, response = "upstream", outcome.failMode = "", ~late,
                      NEW i \in DOMAIN distinct
               PROVE  \E record \in records :
                        LET first == IF record.recipients = <<>> THEN {}
                                     ELSE {record.recipients[1]} IN
                        /\ record.owner = distinct[i].owner /\ record.status = "granted"
                        /\ Consumer \in record.named \cup first
                        /\ distinct[i].purpose # Unset => distinct[i].purpose \in record.purposes
                        /\ distinct[i].resource # Unset => distinct[i].resource \in record.data
    BY DEF ReleaseRestsOnAgreements
  <2>1. pc = "done" /\ outcome.decision # "deny" /\ outcome # Pending
    BY DEF IInv, PhaseKnows, RecordedThenDone, TypeOK
  <2>2. outcome.decision = "allow"
    BY <2>1 DEF IInv, TypeOK, Decisions
  <2>3. hasGrantedConsent(records, distinct[i], Consumer)
    BY <2>1, <2>2 DEF IInv, OutcomeIsEarned, Deciding, Granted
  <2>4. PICK record \in records :
          /\ record.owner = distinct[i].owner /\ record.status = "granted"
          /\ grantedTo(record, Consumer)
          /\ coversPurpose(record, distinct[i].purpose)
          /\ coversResource(record, distinct[i].resource)
    BY <2>3 DEF hasGrantedConsent
  <2>5. Consumer \in record.named \cup
          (IF record.recipients = <<>> THEN {} ELSE {record.recipients[1]})
    <3>1. record.recipients \in Seq(ToSet(record.recipients))
      BY ResponsePhaseAssumption DEF IInv, TypeOK
    <3>2. record.recipients # <<>> => Head(record.recipients) = record.recipients[1]
      BY <3>1, HeadIsFirst, Zenon
    <3> QED
      BY <2>4, <3>2 DEF grantedTo
  <2> QED
    BY <2>4, <2>5 DEF coversPurpose, coversResource
<1> QED
  BY <1>1, Inductive, PTL

(* The claims checked are one for each owner and resource the resolver      *)
(* named (consent.go:414-435).                                              *)
THEOREM NoClaimIsDropped == Spec => []NoClaimDropped
<1>1. IInv => NoClaimDropped
  <2> SUFFICES ASSUME IInv, pc = "CheckOwners"
               PROVE  NoClaimDropped
    BY DEF NoClaimDropped
  <2>1. claims \in Seq(ToSet(claims)) /\ distinct = distinctClaims(claims)
    BY DEF IInv, ClaimsAreScoped
  <2>2. distinct \in Seq(ToSet(claims)) /\ KeptOf(distinct, claims, Len(claims))
    BY <2>1, distinctClaimsKeeps
  <2>3. DOMAIN claims = 1..Len(claims) /\ DOMAIN distinct = 1..Len(distinct)
    BY <2>1, <2>2, LenProperties
  <2> DEFINE key(claim) == <<claim.owner, claim.resource>>
  <2>4. \A c, d : SameKey(c, d) <=> key(c) = key(d)
    BY DEF SameKey
  <2>5. \A k : (\E i \in DOMAIN claims : k = key(claims[i]))
                 <=> (\E j \in DOMAIN distinct : k = key(distinct[j]))
    <3> HIDE DEF key
    <3> QED
      BY <2>2, <2>3, <2>4, Zenon DEF KeptOf
  <2>6. {key(claims[i]) : i \in DOMAIN claims} = {key(distinct[j]) : j \in DOMAIN distinct}
    <3> HIDE DEF key
    <3> QED
      BY <2>5, Zenon
  <2>7. \A i, j \in DOMAIN distinct : key(distinct[i]) = key(distinct[j]) => i = j
    <3> HIDE DEF key
    <3> QED
      BY <2>2, <2>3, <2>4, Zenon DEF KeptOf
  <2> QED
    BY <2>6, <2>7 DEF NoClaimDropped
<1> QED
  BY <1>1, Inductive, PTL

(* What was done is what was counted and recorded (consent.go:233-249,      *)
(* 547-551, 679-722).                                                       *)
THEOREM AuditAgrees == Spec => []AuditNeverContradicts
<1>1. IInv => AuditNeverContradicts
  <2> SUFFICES ASSUME IInv
               PROVE  AuditNeverContradicts
    OBVIOUS
  <2>1. AuditRecords # {}
    BY DEF AuditRecords
  <2>2. response # "held" => pc = "done"
    BY DEF IInv, PhaseKnows
  <2>3. ASSUME pc = "done"
        PROVE  /\ counted = 1 /\ outcome.decision \in {"allow", "deny"}
               /\ response = IF outcome.decision = "deny" THEN "denial" ELSE "upstream"
               /\ cfg.auditEnabled => audit = AuditRecords
    BY <2>3 DEF IInv, RecordedThenDone, Deciding, TypeOK, Decisions
  <2>4. ASSUME pc = "done", cfg.auditEnabled, response = "upstream", NEW record \in audit
        PROVE  record.decision = "allow"
    <3>1. outcome.decision = "allow" /\ audit = AuditRecords
      BY <2>3, <2>4
    <3>2. outcome.checked \subseteq Granted
      BY <2>4, <3>1 DEF IInv, OutcomeIsEarned, Deciding
    <3> QED
      BY <2>4, <3>1, <3>2 DEF AuditRecords
  <2>5. ASSUME pc = "done", cfg.auditEnabled, response = "denial", outcome.failMode = ""
        PROVE  \E record \in audit : record.decision = "deny" /\ record.subject = outcome.subject
    <3>1. outcome.decision = "deny" /\ audit = AuditRecords
      BY <2>3, <2>5
    <3>2. outcome.subject \in outcome.checked \ Granted
      BY <2>5, <3>1 DEF IInv, OutcomeIsEarned, Deciding
    <3> DEFINE refusal == [subject |-> outcome.subject, decision |-> "deny"]
    <3>3. refusal \in AuditRecords
      BY <3>2, Zenon DEF AuditRecords
    <3>4. refusal.decision = "deny" /\ refusal.subject = outcome.subject
      OBVIOUS
    <3> QED
      BY <3>1, <3>3, <3>4, Zenon
  <2> QED
    BY <2>1, <2>2, <2>3, <2>4, <2>5 DEF AuditNeverContradicts
<1> QED
  BY <1>1, Inductive, PTL
=============================================================================
