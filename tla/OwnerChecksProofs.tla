-------------------------- MODULE OwnerChecksProofs --------------------------
(***************************************************************************)
(* Proofs about OwnerChecks for every number of claims and of slots.       *)
(***************************************************************************)
EXTENDS OwnerChecks, WellFoundedInduction, TLAPS

(* What makes the properties inductive: why the checks were stopped, what   *)
(* each goroutine's place and result say about that, and that the outcome   *)
(* is the reduction of results nobody writes any more.                      *)
StopHasACause ==
  /\ checksErr = "DeadlineExceeded" => phaseExpired
  /\ checksErr = "Canceled" =>
       \E i \in Claims : worker[i] = "done" /\ answer[i] \in {"deny", "outage"}

ResultsAreHonest ==
  \A i \in Claims :
    /\ worker[i] \in {"skipped", "doomed"} => Stopped
    /\ answer[i] \in ContextErrors => answer[i] = checksErr
    /\ answer[i] = "allow" => consent[i] = "granted"
    /\ answer[i] = "deny" => consent[i] = "refused"

OutcomeIsReduction ==
  IF Decided THEN Returned = Claims /\ outcome = reduceOwnerResults
             ELSE outcome = Pending

IInv == TypeOK /\ StopHasACause /\ ResultsAreHonest /\ OutcomeIsReduction
-----------------------------------------------------------------------------
(* A non-empty set of claims has a lowest one.                              *)
LEMMA LowestIsMember ==
  ASSUME NEW S \in SUBSET Claims, S # {}
  PROVE  /\ Lowest(S) \in S
         /\ \A j \in S : Lowest(S) <= j
<1>1. S \subseteq Nat
  BY OwnerChecksAssumption, SMT DEF Claims
<1>2. \E x \in S : \A y \in S : ~ (<<y, x>> \in OpToRel(<, Nat))
  BY <1>1, NatLessThanWellFounded, WFMin
<1>3. PICK x \in S : \A y \in S : ~ (<<y, x>> \in OpToRel(<, Nat))
  BY <1>2
<1>4. \A y \in S : ~ (y < x)
  BY <1>1, <1>3, Zenon DEF OpToRel
<1>5. \A y \in S : x <= y
  BY <1>1, <1>4
<1> QED
  BY <1>5 DEF Lowest

(* The reduction returns an outcome.                                        *)
LEMMA ReductionType ==
  ASSUME TypeOK
  PROVE  reduceOwnerResults \in [decision : Decisions,
                                failMode : {""} \cup FailModes,
                                subject : {NoSubject} \cup Claims,
                                checked : SUBSET Claims]
<1>1. /\ Refusals \subseteq Claims /\ Failures \subseteq Claims
      /\ Checked \subseteq Claims
  BY DEF Refusals, Failures, Checked, Attempted
<1>2. CASE Refusals # {}
  BY <1>1, <1>2, LowestIsMember
  DEF reduceOwnerResults, Refuse, Decisions
<1>3. CASE Refusals = {} /\ Failures # {}
  BY <1>1, <1>3, LowestIsMember
  DEF reduceOwnerResults, FallBack, Decisions, FailModes, failDecision, failModeForError
<1>4. CASE Refusals = {} /\ Failures = {}
  BY <1>1, <1>4 DEF reduceOwnerResults, Release, Decisions, NoSubject
<1> QED
  BY <1>2, <1>3, <1>4

-----------------------------------------------------------------------------
LEMMA InitIInv == Init => IInv
<1> SUFFICES ASSUME Init PROVE IInv
  OBVIOUS
<1> USE DEF Init, Pending, NoSubject
<1>1. TypeOK
  BY DEF TypeOK, WorkerStates, Answers
<1>2. StopHasACause
  BY DEF StopHasACause
<1>3. ResultsAreHonest
  BY DEF ResultsAreHonest, ContextErrors
<1>4. OutcomeIsReduction
  BY DEF OutcomeIsReduction, Decided
<1> QED
  BY <1>1, <1>2, <1>3, <1>4 DEF IInv

(* Once every goroutine has returned, none can take a step; so a step of a  *)
(* goroutine is taken while the outcome is pending.                         *)
LEMMA StepIsPending ==
  ASSUME IInv, NEW i \in Claims, worker[i] \notin {"done", "skipped"}
  PROVE  ~Decided /\ outcome = Pending
BY DEF IInv, OutcomeIsReduction, Returned

LEMMA NextIInv == IInv /\ [Next]_vars => IInv'
<1> SUFFICES ASSUME IInv, [Next]_vars PROVE IInv'
  OBVIOUS
<1> USE DEF IInv
<1>1. ASSUME NEW i \in Claims, Acquire(i) PROVE IInv'
  <2>1. ~Decided /\ outcome = Pending
    BY <1>1, StepIsPending DEF Acquire
  <2>2. TypeOK'
    BY <1>1 DEF Acquire, TypeOK, WorkerStates
  <2>3. StopHasACause'
    BY <1>1 DEF Acquire, TypeOK, StopHasACause
  <2>4. ResultsAreHonest'
    BY <1>1 DEF Acquire, TypeOK, ResultsAreHonest, Stopped
  <2>5. OutcomeIsReduction'
    BY <1>1, <2>1 DEF Acquire, OutcomeIsReduction, Decided, Pending
  <2> QED
    BY <2>2, <2>3, <2>4, <2>5
<1>2. ASSUME NEW i \in Claims, Skip(i) PROVE IInv'
  <2>1. ~Decided /\ outcome = Pending
    BY <1>2, StepIsPending DEF Skip
  <2>2. TypeOK'
    BY <1>2 DEF Skip, TypeOK, WorkerStates
  <2>3. StopHasACause'
    BY <1>2 DEF Skip, TypeOK, StopHasACause
  <2>4. ResultsAreHonest'
    BY <1>2 DEF Skip, TypeOK, ResultsAreHonest, Stopped
  <2>5. OutcomeIsReduction'
    BY <1>2, <2>1 DEF Skip, OutcomeIsReduction, Decided, Pending
  <2> QED
    BY <2>2, <2>3, <2>4, <2>5
<1>3. ASSUME NEW i \in Claims, NEW result, Returns(i, result),
             worker[i] \in {"calling", "doomed"},
             result \in Answers \ {"none"},
             result \in ContextErrors => result = checksErr,
             result = "allow" => consent[i] = "granted",
             result = "deny" => consent[i] = "refused"
      PROVE IInv'
  <2>1. ~Decided /\ outcome = Pending
    BY <1>3, StepIsPending
  <2>2. TypeOK'
    BY <1>3 DEF Returns, TypeOK, WorkerStates
  <2>3. StopHasACause'
    BY <1>3 DEF Returns, TypeOK, StopHasACause
  <2>4. ResultsAreHonest'
    BY <1>3 DEF Returns, TypeOK, ResultsAreHonest, Stopped
  <2>5. OutcomeIsReduction'
    BY <1>3, <2>1 DEF Returns, OutcomeIsReduction, Decided, Pending
  <2> QED
    BY <2>2, <2>3, <2>4, <2>5
<1>4. ASSUME NEW i \in Claims, Reply(i) PROVE IInv'
  BY <1>3, <1>4 DEF Reply, Answers, ContextErrors, TypeOK
<1>5. ASSUME NEW i \in Claims, Fail(i) PROVE IInv'
  BY <1>3, <1>5 DEF Fail, Answers, Errors, ContextErrors
<1>6. ASSUME NEW i \in Claims, Abort(i) PROVE IInv'
  BY <1>3, <1>6 DEF Abort, Answers, Errors, ContextErrors, Stopped, TypeOK
<1>7. ASSUME NEW i \in Claims, Finish(i) PROVE IInv'
  <2>1. ~Decided /\ outcome = Pending
    BY <1>7, StepIsPending DEF Finish
  <2>2. TypeOK'
    BY <1>7 DEF Finish, TypeOK, WorkerStates, ContextErrors
  <2>3. StopHasACause'
    <3>1. CASE answer[i] \in Problems /\ ~Stopped
      <4>1. answer[i] \in {"deny", "outage"}
        BY <3>1 DEF Problems, Errors, ResultsAreHonest, Stopped, ContextErrors
      <4>2. checksErr' = "Canceled" /\ worker'[i] = "done" /\ answer' = answer
        BY <1>7, <3>1 DEF Finish, TypeOK
      <4> QED
        BY <4>1, <4>2 DEF StopHasACause
    <3>2. CASE ~ (answer[i] \in Problems /\ ~Stopped)
      BY <1>7, <3>2 DEF Finish, TypeOK, StopHasACause
    <3> QED
      BY <3>1, <3>2
  <2>4. ResultsAreHonest'
    BY <1>7 DEF Finish, TypeOK, ResultsAreHonest, Stopped, ContextErrors
  <2>5. OutcomeIsReduction'
    BY <1>7, <2>1 DEF Finish, OutcomeIsReduction, Decided, Pending
  <2> QED
    BY <2>2, <2>3, <2>4, <2>5
<1>8. CASE PhaseExpires
  <2>1. TypeOK'
    BY <1>8 DEF PhaseExpires, TypeOK, ContextErrors
  <2>2. StopHasACause'
    BY <1>8 DEF PhaseExpires, StopHasACause, Stopped
  <2>3. ResultsAreHonest'
    BY <1>8 DEF PhaseExpires, ResultsAreHonest, Stopped, ContextErrors
  <2>4. OutcomeIsReduction'
    BY <1>8 DEF PhaseExpires, OutcomeIsReduction, Decided, Pending
  <2> QED
    BY <2>1, <2>2, <2>3, <2>4
<1>9. CASE Conclude
  <2>1. outcome' = reduceOwnerResults /\ reduceOwnerResults.decision # "pending"
    BY <1>9, ReductionType DEF Conclude, Decisions
  <2>2. TypeOK'
    BY <1>9, ReductionType DEF Conclude, TypeOK
  <2>3. StopHasACause' /\ ResultsAreHonest'
    BY <1>9 DEF Conclude, StopHasACause, ResultsAreHonest, Stopped
  <2>4. reduceOwnerResults' = reduceOwnerResults /\ Returned' = Returned
    BY <1>9 DEF Conclude, reduceOwnerResults, Refuse, FallBack, Release,
                Refusals, Failures, Checked, Attempted, Returned
  <2>5. OutcomeIsReduction'
    BY <1>9, <2>1, <2>4 DEF Conclude, OutcomeIsReduction, Decided
  <2> QED
    BY <2>2, <2>3, <2>5
<1>10. CASE UNCHANGED vars
  <2>1. TypeOK' /\ StopHasACause' /\ ResultsAreHonest'
    BY <1>10 DEF vars, TypeOK, StopHasACause, ResultsAreHonest, Stopped
  <2>2. reduceOwnerResults' = reduceOwnerResults /\ Returned' = Returned
    BY <1>10 DEF vars, reduceOwnerResults, Refuse, FallBack, Release,
                 Refusals, Failures, Checked, Attempted, Returned
  <2>3. OutcomeIsReduction'
    BY <1>10, <2>2 DEF vars, OutcomeIsReduction, Decided, Pending
  <2> QED
    BY <2>1, <2>3
<1> QED
  BY <1>1, <1>2, <1>4, <1>5, <1>6, <1>7, <1>8, <1>9, <1>10 DEF Next, Terminated

(* The invariant of the owners' checks holds in every state, for any number *)
(* of distinct claims and any limit of checks in flight.                    *)
THEOREM Invariance == Spec => []IInv
<1> QED
  BY InitIInv, NextIInv, PTL DEF Spec
-----------------------------------------------------------------------------
(* A conclusion other than a refusal, with no failure to apply the policy   *)
(* to, was reached without a sibling's cancellation: a cancellation comes   *)
(* from a refusal or an outage, and either would have decided.              *)
LEMMA NoProblemNoCancel ==
  ASSUME IInv, Refusals = {}, Failures = {}
  PROVE  checksErr # "Canceled"
<1> SUFFICES ASSUME checksErr = "Canceled" PROVE FALSE
  OBVIOUS
<1>1. PICK i \in Claims : worker[i] = "done" /\ answer[i] \in {"deny", "outage"}
  BY DEF IInv, StopHasACause
<1>2. i \in Attempted
  BY <1>1 DEF Attempted
<1> QED
  BY <1>1, <1>2 DEF Refusals, Failures, Errors

(* An owner that was consulted and is neither a refusal nor a failure has   *)
(* answered that it granted.                                                *)
LEMMA ConsultedGranted ==
  ASSUME IInv, Returned = Claims, Refusals = {}, Failures = {}, NEW i \in Attempted
  PROVE  consent[i] = "granted" /\ answer[i] = "allow"
<1>1. i \in Claims /\ worker[i] = "done"
  BY DEF Returned, Attempted
<1>2. answer[i] \in {"allow", "deny"} \cup Errors
  BY <1>1 DEF IInv, TypeOK, Answers
<1>3. answer[i] # "deny" /\ answer[i] # "outage" /\ answer[i] # "DeadlineExceeded"
  BY DEF Refusals, Failures, Errors, ContextErrors
<1>4. answer[i] # "Canceled"
  BY <1>1, NoProblemNoCancel DEF IInv, ResultsAreHonest, ContextErrors
<1>5. answer[i] = "allow"
  BY <1>2, <1>3, <1>4 DEF Errors, ContextErrors
<1> QED
  BY <1>1, <1>5 DEF IInv, ResultsAreHonest

(* Within the deadline, a conclusion with neither refusal nor failure is    *)
(* reached only when every owner was consulted.                             *)
LEMMA NobodyLeftOut ==
  ASSUME IInv, Returned = Claims, Refusals = {}, Failures = {}, ~phaseExpired
  PROVE  Attempted = Claims /\ Checked = Claims
<1>1. ~Stopped
  BY NoProblemNoCancel DEF IInv, TypeOK, StopHasACause, Stopped, ContextErrors
<1>2. Attempted = Claims
  BY <1>1 DEF IInv, ResultsAreHonest, Returned, Attempted
<1>3. \A i \in Claims : answer[i] = "allow"
  BY <1>2, ConsultedGranted
<1> QED
  BY <1>2, <1>3 DEF Checked

(* AllowIsUnanimous, for any number of owners and slots.                    *)
THEOREM Unanimity == Spec => []AllowIsUnanimous
<1>1. IInv => AllowIsUnanimous
  <2> SUFFICES ASSUME IInv, PlainAllow, ~phaseExpired
               PROVE  /\ \A i \in Claims : consent[i] = "granted" /\ answer[i] = "allow"
                      /\ outcome.checked = Claims
    BY DEF AllowIsUnanimous
  <2>1. Returned = Claims /\ outcome = reduceOwnerResults
    BY DEF PlainAllow, Decided, IInv, OutcomeIsReduction
  <2>2. Refusals = {} /\ Failures = {}
    BY <2>1 DEF PlainAllow, reduceOwnerResults, Refuse, FallBack,
                failModeForError, ByPolicy, AlwaysClosed
  <2>3. Attempted = Claims /\ Checked = Claims
    BY <2>1, <2>2, NobodyLeftOut
  <2>4. \A i \in Claims : consent[i] = "granted" /\ answer[i] = "allow"
    BY <2>1, <2>2, <2>3, ConsultedGranted
  <2>5. outcome.checked = Claims
    BY <2>1, <2>2, <2>3 DEF reduceOwnerResults, Release
  <2> QED
    BY <2>4, <2>5
<1> QED
  BY <1>1, Invariance, PTL

(* RefusalIsFinal, for any number of owners and slots.                      *)
THEOREM RefusalFinality == Spec => []RefusalIsFinal
<1>1. IInv => RefusalIsFinal
  <2> SUFFICES ASSUME IInv, Decided, NEW i \in Claims, answer[i] = "deny"
               PROVE  outcome.decision = "deny" /\ outcome.failMode = ""
    BY DEF RefusalIsFinal
  <2>1. i \in Refusals
    BY DEF IInv, TypeOK, Refusals, Attempted
  <2>2. outcome = Refuse
    BY <2>1 DEF IInv, OutcomeIsReduction, reduceOwnerResults
  <2> QED
    BY <2>2 DEF Refuse
<1> QED
  BY <1>1, Invariance, PTL

(* FailClosedHolds, for any number of owners and slots.                     *)
THEOREM FailClosed == Spec => []FailClosedHolds
<1>1. IInv => FailClosedHolds
  <2> SUFFICES ASSUME IInv, outcome.decision = "allow", ~failOpen
               PROVE  \A i \in Attempted : consent[i] = "granted" /\ answer[i] = "allow"
    BY DEF FailClosedHolds
  <2>1. Returned = Claims /\ outcome = reduceOwnerResults
    BY DEF Decided, IInv, OutcomeIsReduction
  <2>2. Refusals = {} /\ Failures = {}
    BY <2>1 DEF reduceOwnerResults, Refuse, FallBack, failDecision
  <2> QED
    BY <2>1, <2>2, ConsultedGranted
<1> QED
  BY <1>1, Invariance, PTL

(* OutcomeIsExplained, for any number of owners and slots.                  *)
THEOREM ExplainedOutcome == Spec => []OutcomeIsExplained
<1>1. IInv => OutcomeIsExplained
  <2> SUFFICES ASSUME IInv, outcome.subject # NoSubject PROVE OutcomeIsExplained
    BY DEF OutcomeIsExplained
  <2>1. outcome # Pending
    <3>1. Pending.subject = NoSubject
      BY DEF Pending
    <3> QED
      BY <3>1
  <2>2. outcome = reduceOwnerResults
    BY <2>1 DEF IInv, OutcomeIsReduction
  <2>3. CASE Refusals # {}
    <3>1. outcome.subject \in Refusals /\ outcome.decision = "deny"
      BY <2>2, <2>3, LowestIsMember DEF reduceOwnerResults, Refuse, Refusals, Attempted
    <3> QED
      BY <3>1 DEF OutcomeIsExplained, Refusals, Attempted, IInv, ResultsAreHonest
  <2>4. CASE Refusals = {} /\ Failures # {}
    <3>1. Lowest(Failures) \in Failures
      BY <2>4, LowestIsMember DEF Failures, Attempted
    <3>2. failModeForError(answer[Lowest(Failures)]) = ByPolicy
      BY <3>1 DEF Failures, Errors, ContextErrors, failModeForError, PermanentErrors
    <3>3. /\ outcome.subject \in Failures
          /\ outcome.failMode = ByPolicy
          /\ outcome.decision = failDecision(failOpen, ByPolicy)
      BY <2>2, <2>4, <3>1, <3>2 DEF reduceOwnerResults, FallBack
    <3>4. outcome.decision = "allow" <=> failOpen
      BY <3>3 DEF failDecision
    <3>5. answer[outcome.subject] = "outage" \/ phaseExpired
      BY <3>3 DEF Failures, Attempted, Errors, ContextErrors, IInv,
                  ResultsAreHonest, StopHasACause
    <3> QED
      BY <3>3, <3>4, <3>5 DEF OutcomeIsExplained
  <2>5. CASE Refusals = {} /\ Failures = {}
    BY <2>2, <2>5 DEF reduceOwnerResults, Release
  <2> QED
    BY <2>3, <2>4, <2>5
<1> QED
  BY <1>1, Invariance, PTL

(* TypeOK, for any number of owners and slots.                              *)
THEOREM TypeCorrect == Spec => []TypeOK
<1>1. IInv => TypeOK
  BY DEF IInv
<1> QED
  BY <1>1, Invariance, PTL
-----------------------------------------------------------------------------
Granted == {i \in 1..N : consent[i] = "granted"}

(* What the last step returns is an outcome the gate may return.            *)
LEMMA ReductionIsAllowed ==
  ASSUME IInv, Returned = Claims
  PROVE  reduceOwnerResults \in OwnerOutcomes(1..N, Granted, failOpen, phaseExpired)
<1>1. /\ Refusals \subseteq Claims /\ Failures \subseteq Claims
      /\ Checked \subseteq Claims /\ Claims = 1..N
  BY DEF Refusals, Failures, Checked, Attempted, Claims
<1>2. \A i \in Checked : i \in Refusals <=> i \notin Granted
  BY <1>1 DEF IInv, ResultsAreHonest, Checked, Refusals, Granted
<1>3. Refusals = Checked \ Granted
  BY <1>2 DEF Refusals, Checked
<1>4. CASE Refusals # {}
  <2>1. /\ Lowest(Refusals) \in Refusals
        /\ \A i \in Refusals : Lowest(Refusals) <= i
    BY <1>1, <1>4, LowestIsMember
  <2>2. Refuse \in OutcomesOver(1..N)
    BY <1>1, <2>1 DEF Refuse, OutcomesOver, Decisions
  <2>3. Refuse \in Refusing(1..N, Granted)
    BY <1>3, <2>1, <2>2 DEF Refuse, Refusing
  <2> QED
    BY <1>4, <2>3 DEF reduceOwnerResults, OwnerOutcomes
<1>5. CASE Refusals = {} /\ Failures # {}
  <2>1. Lowest(Failures) \in Failures
    BY <1>1, <1>5, LowestIsMember
  <2>2. Lowest(Failures) \notin Checked /\ Lowest(Failures) \in 1..N
    BY <1>1, <2>1 DEF Failures, Checked, Errors, ContextErrors
  <2>3. failModeForError(answer[Lowest(Failures)]) = ByPolicy
    BY <2>1 DEF Failures, Errors, ContextErrors, failModeForError, PermanentErrors
  <2>4. FallBack \in OutcomesOver(1..N)
    BY <1>1, <2>2, <2>3 DEF FallBack, OutcomesOver, failDecision, Decisions
  <2>5. FallBack \in FallingBack(1..N, Granted, failOpen)
    BY <1>3, <1>5, <2>2, <2>3, <2>4 DEF FallBack, FallingBack
  <2> QED
    BY <1>5, <2>5 DEF reduceOwnerResults, OwnerOutcomes
<1>6. CASE Refusals = {} /\ Failures = {}
  <2>1. phaseExpired \/ Checked = 1..N
    BY <1>1, <1>6, NobodyLeftOut
  <2>2. Release \in OutcomesOver(1..N)
    BY <1>1 DEF Release, OutcomesOver, Decisions
  <2>3. Release \in Releasing(1..N, Granted, phaseExpired)
    BY <1>3, <1>6, <2>1, <2>2 DEF Release, Releasing
  <2> QED
    BY <1>6, <2>3 DEF reduceOwnerResults, OwnerOutcomes
<1> QED
  BY <1>4, <1>5, <1>6

(* ImplementsGate: whatever the goroutines do, the caller of checkOwners    *)
(* sees one step of the abstract gate.                                      *)
THEOREM GateRefinement == Spec => ImplementsGate
<1>1. Init => Gate!GateInit
  BY DEF Init, Gate!GateInit, Pending, Gate!Pending, NoSubject, Gate!NoSubject, Claims
<1>2. IInv /\ [Next]_vars => [Gate!Expire \/ Gate!Decide]_(Gate!gateVars)
  <2> SUFFICES ASSUME IInv, [Next]_vars
               PROVE  [Gate!Expire \/ Gate!Decide]_(Gate!gateVars)
    OBVIOUS
  <2>1. CASE UNCHANGED <<failOpen, consent, phaseExpired, outcome>>
    BY <2>1 DEF Gate!gateVars
  <2>2. CASE PhaseExpires
    <3>1. outcome = Pending
      BY <2>2 DEF PhaseExpires, IInv, OutcomeIsReduction
    <3>2. Gate!Expire
      BY <2>2, <3>1 DEF PhaseExpires, Gate!Expire, Pending, Gate!Pending, NoSubject, Gate!NoSubject
    <3> QED
      BY <3>2
  <2>3. CASE Conclude
    <3>1. outcome = Pending
      BY <2>3 DEF Conclude, IInv, OutcomeIsReduction
    <3>2. outcome' \in OwnerOutcomes(1..N, Granted, failOpen, phaseExpired)
      BY <2>3, ReductionIsAllowed DEF Conclude
    <3>3. Gate!Decide
      BY <2>3, <3>1, <3>2
      DEF Conclude, Gate!Decide, Granted, Pending, Gate!Pending, NoSubject, Gate!NoSubject,
          OwnerOutcomes, Gate!OwnerOutcomes, Refusing, Gate!Refusing,
          FallingBack, Gate!FallingBack, Releasing, Gate!Releasing,
          OutcomesOver, Gate!OutcomesOver, Decisions, Gate!Decisions,
          failDecision, Gate!failDecision, ByPolicy, Gate!ByPolicy
    <3> QED
      BY <3>3
  <2> QED
    BY <2>1, <2>2, <2>3 DEF Next, vars, Terminated, Acquire, Skip, Reply, Fail,
                            Abort, Returns, Finish
<1> QED
  BY <1>1, <1>2, Invariance, PTL DEF Spec, ImplementsGate, Gate!GateSpec
=============================================================================
