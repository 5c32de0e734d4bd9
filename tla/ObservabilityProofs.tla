------------------------- MODULE ObservabilityProofs -------------------------
(***************************************************************************)
(* Proofs about Observability for any requests, owners, interval, cap on   *)
(* keys and buckets.                                                       *)
(***************************************************************************)
EXTENDS Observability, FiniteSetTheorems, TLAPS

(* The requests whose phase is at one of the given stages.                  *)
Staged(S) == {k \in Requests : stage[k] \in S}
Tally(S) == Cardinality(Staged(S))

Problems == {"refusal", "failure"}
Modes == {"none"} \cup FailModes
ResolverFailed == {Failing("resolver-error", ByPolicy)}
ChecksFailed == {Failing("consent-check", mode) : mode \in FailModes}
Checks == {Checking(left, found) : left \in 0..Owners, found \in SUBSET Problems}
MetFailure == {s \in Checks : "failure" \in s.problems}
Troubled == {s \in Checks : s.problems # {}} \cup ChecksFailed \cup {Deciding("deny", "none")}
Due == {Deciding(decision, ByPolicy) : decision \in Decisions}
Ordinary == Checks \cup {Deciding(decision, "none") : decision \in Decisions}
Ended == {At("done")}

(* The checks that may still count an error without adding a problem: those *)
(* beside one that has met a problem already.                               *)
OpenOf(s) == IF s.at = "checking" /\ s.problems # {} THEN s.left ELSE 0
Open == {c \in Requests \X (1..Owners) : c[2] <= OpenOf(stage[c[1]])}

Errors == calls["consent_manager"]["error"]
Told == met["consent-check"] + decisions[<<"deny", "none">>] + Tally(Troubled)

(* The resolver's errors and the log's occurrences differ by the failures   *)
(* that have been counted and not yet logged.                               *)
FailuresTally ==
  /\ \A k \in Requests : stage[k] # Failing("resolver-error", AlwaysClosed)
  /\ calls["owner_resolver"]["error"] = met["resolver-error"] + Tally(ResolverFailed)

(* Each response with a failed check has an error to itself; and a response *)
(* in trouble has at most as many errors as it has owners, of which those   *)
(* that are still open are to come.                                         *)
ChecksTally ==
  /\ met["consent-check"] + Tally(ChecksFailed) + Tally(MetFailure) <= Errors
  /\ Errors + Cardinality(Open) <= Owners * Told

(* The decisions and the calls differ by the phases in between.             *)
DecisionsTally ==
  /\ By("none") + By(ByPolicy) + By(AlwaysClosed) = Tally(Ended)
  /\ By("none") + Tally(Ordinary) <= calls["owner_resolver"]["success"]
  /\ calls["owner_resolver"]["error"] <= By(ByPolicy) + Tally(ResolverFailed) + Tally(Due)

SeriesAgree ==
  \A d \in Dependencies :
    /\ calls[d]["success"] + calls[d]["error"] = latency[d].total
    /\ \A b \in 1..Buckets :
         latency[d].counts[b] <= IF b = Buckets THEN latency[d].total ELSE latency[d].counts[b + 1]

(* The limiter remembers the last line of each key it knows, and knows      *)
(* every key that has one, up to its cap.                                   *)
LimiterKnows ==
  \A key \in LogKeys :
    /\ met[key] = lines[key].count + lines[key].reported + Pending(key)
    /\ Tracked(key) => lines[key].count > 0 /\ suppression[key].lastLogged = lines[key].last
    /\ ~Tracked(key) /\ lines[key].count > 0 => Cardinality(DOMAIN suppression) = KeyCap

IInv ==
  /\ TypeOK
  /\ FailuresTally
  /\ ChecksTally
  /\ DecisionsTally
  /\ SeriesAgree
  /\ LimiterKnows
-----------------------------------------------------------------------------
(* A set of requests that changes at one of them.                           *)
LEMMA OneMoved ==
  ASSUME NEW k \in Requests, NEW A \in SUBSET Requests, NEW B \in SUBSET Requests,
         A \ {k} = B \ {k}
  PROVE  /\ Cardinality(A) \in Nat /\ Cardinality(B) \in Nat
         /\ Cardinality(B) + (IF k \in A THEN 1 ELSE 0) = Cardinality(A) + (IF k \in B THEN 1 ELSE 0)
<1> DEFINE C == A \ {k}
<1>1. IsFiniteSet(A) /\ IsFiniteSet(B) /\ IsFiniteSet(C)
  BY ObservabilityAssumption, FS_Subset
<1>2. Cardinality(A) \in Nat /\ Cardinality(B) \in Nat /\ Cardinality(C) \in Nat
  BY <1>1, FS_CardinalityType
<1>3. k \notin C /\ Cardinality(C \cup {k}) = Cardinality(C) + 1
  BY <1>1, FS_AddElement
<1>4. A = (IF k \in A THEN C \cup {k} ELSE C) /\ B = (IF k \in B THEN C \cup {k} ELSE C)
  OBVIOUS
<1> HIDE DEF C
<1> QED
  BY <1>2, <1>3, <1>4

LEMMA TallyType ==
  ASSUME NEW S PROVE Tally(S) \in Nat
<1>1. IsFiniteSet(Staged(S))
  BY ObservabilityAssumption, FS_Subset DEF Staged
<1> QED
  BY <1>1, FS_CardinalityType DEF Tally

(* A phase that moves on leaves the tally of its old stage for that of the  *)
(* new one.                                                                 *)
LEMMA TallyMoves ==
  ASSUME stage \in [Requests -> Stages], NEW k \in Requests, NEW next, Goto(k, next), NEW S
  PROVE  /\ Tally(S) \in Nat /\ Tally(S)' \in Nat
         /\ Tally(S)' + (IF stage[k] \in S THEN 1 ELSE 0) = Tally(S) + (IF next \in S THEN 1 ELSE 0)
<1> DEFINE A == {j \in Requests : stage[j] \in S}
           B == {j \in Requests : stage'[j] \in S}
<1>1. A \in SUBSET Requests /\ B \in SUBSET Requests
  OBVIOUS
<1>2. \A j \in Requests : stage'[j] = IF j = k THEN next ELSE stage[j]
  BY DEF Goto
<1>3. A \ {k} = B \ {k} /\ (k \in A <=> stage[k] \in S) /\ (k \in B <=> next \in S)
  BY <1>2
<1>4. Tally(S) = Cardinality(A) /\ Tally(S)' = Cardinality(B)
  BY DEF Tally, Staged
<1> HIDE DEF A, B
<1>5. /\ Cardinality(A) \in Nat /\ Cardinality(B) \in Nat
      /\ Cardinality(B) + (IF k \in A THEN 1 ELSE 0) = Cardinality(A) + (IF k \in B THEN 1 ELSE 0)
  BY <1>1, <1>3, OneMoved
<1> QED
  BY <1>3, <1>4, <1>5

(* A number that a phase's step from its stage to the next moves.           *)
One(P) == IF P THEN 1 ELSE 0
Moved(S, k, next) ==
  /\ Tally(S) \in Nat /\ Tally(S)' \in Nat
  /\ Tally(S)' + One(stage[k] \in S) = Tally(S) + One(next \in S)

(* A phase's step moves the tallies of its stage and its open checks.       *)
LEMMA PhaseMoves ==
  ASSUME TypeOK, NEW k \in Requests, NEW next \in Stages, Goto(k, next)
  PROVE  /\ stage' \in [Requests -> Stages]
         /\ \A j \in Requests : stage'[j] = IF j = k THEN next ELSE stage[j]
         /\ Moved(ResolverFailed, k, next) /\ Moved(ChecksFailed, k, next)
         /\ Moved(MetFailure, k, next) /\ Moved(Troubled, k, next)
         /\ Moved(Due, k, next) /\ Moved(Ordinary, k, next) /\ Moved(Ended, k, next)
         /\ Cardinality(Open) \in Nat /\ Cardinality(Open') \in Nat
         /\ Cardinality(Open') + OpenOf(stage[k]) = Cardinality(Open) + OpenOf(next)
<1>1. stage \in [Requests -> Stages]
  BY DEF TypeOK
<1>2. \A j \in Requests : stage'[j] = IF j = k THEN next ELSE stage[j]
  BY <1>1 DEF Goto
<1>3. stage' \in [Requests -> Stages]
  BY <1>1 DEF Goto
<1>4. ASSUME NEW S PROVE Moved(S, k, next)
  BY <1>1, TallyMoves DEF Moved, One
<1>5. \A s \in Stages : OpenOf(s) \in 0..Owners
  BY ObservabilityAssumption DEF OpenOf, Stages, At
<1> DEFINE Rest == {c \in Open : c[1] # k}
           Row(n) == {k} \X (1..n)
<1>6. Open = Rest \cup Row(OpenOf(stage[k])) /\ Rest \cap Row(OpenOf(stage[k])) = {}
  <2>1. ASSUME NEW c PROVE c \in Open /\ c[1] = k <=> c \in Row(OpenOf(stage[k]))
    <3>1. OpenOf(stage[k]) \in 0..Owners /\ Owners \in Nat
      BY <1>1, <1>5, ObservabilityAssumption
    <3> QED
      BY <3>1 DEF Open
  <2> QED
    BY <2>1
<1>7. Open' = Rest \cup Row(OpenOf(next)) /\ Rest \cap Row(OpenOf(next)) = {}
  <2>1. ASSUME NEW c PROVE c \in Open' /\ c[1] = k <=> c \in Row(OpenOf(next))
    <3>1. OpenOf(next) \in 0..Owners /\ Owners \in Nat /\ stage'[k] = next
      BY <1>2, <1>5, ObservabilityAssumption
    <3> QED
      BY <3>1 DEF Open, OpenOf
  <2>2. ASSUME NEW c PROVE c \in Open' /\ c[1] # k <=> c \in Rest
    BY <1>2 DEF Open, OpenOf
  <2> QED
    BY <2>1, <2>2
<1>8. IsFiniteSet(Rest)
  <2>1. Owners \in Nat /\ IsFiniteSet(Requests)
    BY ObservabilityAssumption
  <2>2. IsFiniteSet(Requests \X (1..Owners))
    <3>1. IsFiniteSet(1..Owners)
      BY <2>1, FS_Interval
    <3> QED
      BY <2>1, <3>1, FS_Product
  <2>3. Rest \subseteq Requests \X (1..Owners)
    BY DEF Open
  <2> QED
    BY <2>2, <2>3, FS_Subset
<1>9. ASSUME NEW n \in Nat
      PROVE  IsFiniteSet(Row(n)) /\ Cardinality(Row(n)) = n
  <2>1. IsFiniteSet({k}) /\ Cardinality({k}) = 1
    BY FS_Singleton
  <2>2. 1 \in Int /\ n \in Int /\ ~ (1 > n) => n - 1 + 1 = n
    OBVIOUS
  <2>3. IsFiniteSet(1..n)
    BY <2>2, FS_Interval
  <2>4. Cardinality(1..n) = IF 1 > n THEN 0 ELSE n - 1 + 1
    BY <2>2, FS_Interval
  <2>5. Cardinality(1..n) = n
    BY <2>4
  <2>6. IsFiniteSet({k} \X (1..n)) /\ Cardinality({k} \X (1..n)) = 1 * n
    <3>1. PICK one, many : one = {k} /\ many = 1..n
      OBVIOUS
    <3>2. IsFiniteSet(one) /\ Cardinality(one) = 1 /\ IsFiniteSet(many) /\ Cardinality(many) = n
      BY <2>1, <2>3, <2>5, <3>1
    <3>3. IsFiniteSet(one \X many) /\ Cardinality(one \X many) = Cardinality(one) * Cardinality(many)
      BY <3>2, FS_Product
    <3> QED
      BY <3>1, <3>2, <3>3
  <2>7. 1 * n = n
    OBVIOUS
  <2> QED
    BY <2>6, <2>7
<1> HIDE DEF Rest, Row
<1>10. ASSUME NEW n \in Nat, Rest \cap Row(n) = {}
       PROVE  Cardinality(Rest \cup Row(n)) = Cardinality(Rest) + n /\ Cardinality(Rest) \in Nat
  <2>1. Cardinality({}) = 0
    BY FS_EmptySet
  <2>2. Cardinality(Rest) \in Nat
    BY <1>8, FS_CardinalityType
  <2>3. Cardinality(Rest \cup Row(n)) = Cardinality(Rest) + Cardinality(Row(n)) - Cardinality(Rest \cap Row(n))
    BY <1>8, <1>9, FS_Union
  <2>4. Cardinality(Rest \cap Row(n)) = 0
    BY <1>10, <2>1
  <2>5. Cardinality(Row(n)) = n
    BY <1>9
  <2> QED
    BY <2>2, <2>3, <2>4, <2>5
<1>11. OpenOf(stage[k]) \in Nat /\ OpenOf(next) \in Nat
  BY <1>1, <1>5, ObservabilityAssumption
<1>12. /\ Cardinality(Open) = Cardinality(Rest) + OpenOf(stage[k]) /\ Cardinality(Rest) \in Nat
       /\ Cardinality(Open') = Cardinality(Rest) + OpenOf(next)
  BY <1>6, <1>7, <1>10, <1>11
<1>13. /\ Cardinality(Open) \in Nat /\ Cardinality(Open') \in Nat
       /\ Cardinality(Open') + OpenOf(stage[k]) = Cardinality(Open) + OpenOf(next)
  BY <1>11, <1>12
<1> QED
  BY <1>2, <1>3, <1>4, <1>13

(* Which tallies a stage is in.                                             *)
LEMMA AtClasses ==
  ASSUME NEW name \in {"before", "resolving", "done"}
  PROVE  LET s == At(name)
         IN /\ s \in Stages /\ OpenOf(s) = 0
            /\ s \notin ResolverFailed /\ s \notin ChecksFailed /\ s \notin MetFailure
            /\ s \notin Troubled /\ s \notin Due /\ s \notin Ordinary
            /\ s \in Ended <=> name = "done"
<1> DEFINE s == At(name)
<1>1. s.at = name
  BY DEF At
<1>2. s \in Stages
  BY DEF Stages, At
<1>3. OpenOf(s) = 0
  BY <1>1 DEF OpenOf
<1>4. /\ \A key, m : s # Failing(key, m)
      /\ \A d, m : s # Deciding(d, m)
  BY <1>1 DEF Failing, Deciding
<1>5. s \notin Checks
  <2>1. \A c \in Checks : c.at = "checking"
    BY DEF Checks, Checking
  <2> QED
    BY <1>1, <2>1
<1>6. s = At("done") <=> name = "done"
  BY DEF At
<1> HIDE DEF s
<1>7. s \in Ended <=> name = "done"
  BY <1>6 DEF Ended
<1>8. /\ s \notin ResolverFailed /\ s \notin ChecksFailed /\ s \notin MetFailure
      /\ s \notin Troubled /\ s \notin Due /\ s \notin Ordinary
  BY <1>4, <1>5 DEF ResolverFailed, ChecksFailed, MetFailure, Troubled, Due, Ordinary
<1> QED
  BY <1>2, <1>3, <1>7, <1>8 DEF s

LEMMA FailingClasses ==
  ASSUME NEW key \in LogKeys, NEW mode \in FailModes
  PROVE  LET s == Failing(key, mode)
         IN /\ s \in Stages /\ OpenOf(s) = 0
            /\ s \in ResolverFailed <=> key = "resolver-error" /\ mode = ByPolicy
            /\ s \in ChecksFailed <=> key = "consent-check"
            /\ s \in Troubled <=> key = "consent-check"
            /\ s \notin MetFailure /\ s \notin Due /\ s \notin Ordinary /\ s \notin Ended
<1> DEFINE s == Failing(key, mode)
<1>1. s.at = "failing" /\ s.key = key /\ s.mode = mode
  BY DEF Failing
<1>2. s \in Stages
  BY DEF Stages, Failing
<1>3. OpenOf(s) = 0
  BY <1>1 DEF OpenOf
<1>4. s \in ResolverFailed <=> key = "resolver-error" /\ mode = ByPolicy
  BY DEF ResolverFailed, Failing
<1>5. s \in ChecksFailed <=> key = "consent-check"
  <2>1. \A m \in FailModes : s = Failing("consent-check", m) => key = "consent-check"
    BY DEF Failing
  <2> QED
    BY <2>1 DEF ChecksFailed
<1>6. s \notin Checks /\ s \notin MetFailure
  <2>1. \A c \in Checks : c.at = "checking"
    BY DEF Checks, Checking
  <2> QED
    BY <1>1, <2>1 DEF MetFailure
<1>7. \A decision, m : s # Deciding(decision, m)
  BY <1>1 DEF Deciding
<1>8. s # At("done")
  BY <1>1 DEF At
<1> HIDE DEF s
<1>9. s \in Troubled <=> key = "consent-check"
  BY <1>5, <1>6, <1>7 DEF Troubled
<1>10. s \notin Due /\ s \notin Ordinary /\ s \notin Ended
  BY <1>6, <1>7, <1>8 DEF Due, Ordinary, Ended
<1> QED
  BY <1>2, <1>3, <1>4, <1>5, <1>6, <1>9, <1>10 DEF s

LEMMA DecidingClasses ==
  ASSUME NEW decision \in Decisions, NEW mode \in Modes
  PROVE  LET s == Deciding(decision, mode)
         IN /\ s \in Stages /\ OpenOf(s) = 0
            /\ s \notin ResolverFailed /\ s \notin ChecksFailed /\ s \notin MetFailure
            /\ s \in Troubled <=> decision = "deny" /\ mode = "none"
            /\ s \in Due <=> mode = ByPolicy
            /\ s \in Ordinary <=> mode = "none"
            /\ s \notin Ended
<1> DEFINE s == Deciding(decision, mode)
<1>1. s.at = "deciding" /\ s.verdict = <<decision, mode>>
  BY DEF Deciding
<1>2. s \in Stages
  BY DEF Stages, Deciding, Verdicts, Modes
<1>3. OpenOf(s) = 0
  BY <1>1 DEF OpenOf
<1>4. \A key, m : s # Failing(key, m)
  BY <1>1 DEF Failing
<1>5. s \notin Checks
  <2>1. \A c \in Checks : c.at = "checking"
    BY DEF Checks, Checking
  <2> QED
    BY <1>1, <2>1
<1>6. \A d, m : s = Deciding(d, m) <=> decision = d /\ mode = m
  BY DEF Deciding
<1>7. s # At("done")
  BY <1>1 DEF At
<1> HIDE DEF s
<1>8. s \in Troubled <=> decision = "deny" /\ mode = "none"
  BY <1>4, <1>5, <1>6 DEF Troubled, ChecksFailed
<1>9. s \in Due <=> mode = ByPolicy
  BY <1>6 DEF Due
<1>10. s \in Ordinary <=> mode = "none"
  BY <1>5, <1>6 DEF Ordinary
<1>11. s \notin ResolverFailed /\ s \notin ChecksFailed /\ s \notin MetFailure /\ s \notin Ended
  BY <1>4, <1>5, <1>7 DEF ResolverFailed, ChecksFailed, MetFailure, Ended
<1> QED
  BY <1>2, <1>3, <1>8, <1>9, <1>10, <1>11 DEF s

LEMMA CheckingClasses ==
  ASSUME NEW left \in 0..Owners, NEW found \in SUBSET Problems
  PROVE  LET s == Checking(left, found)
         IN /\ s \in Stages /\ OpenOf(s) = IF found # {} THEN left ELSE 0
            /\ s \notin ResolverFailed /\ s \notin ChecksFailed
            /\ s \in MetFailure <=> "failure" \in found
            /\ s \in Troubled <=> found # {}
            /\ s \notin Due /\ s \in Ordinary /\ s \notin Ended
<1> DEFINE s == Checking(left, found)
<1>1. s.at = "checking" /\ s.left = left /\ s.problems = found
  BY DEF Checking
<1>2. s \in Stages
  BY DEF Stages, Checking, Problems
<1>3. OpenOf(s) = IF found # {} THEN left ELSE 0
  BY <1>1 DEF OpenOf
<1>4. s \in Checks
  BY DEF Checks
<1>5. /\ \A key, m : s # Failing(key, m)
      /\ \A d, m : s # Deciding(d, m)
      /\ s # At("done")
  BY <1>1 DEF Failing, Deciding, At
<1> HIDE DEF s
<1>6. s \in MetFailure <=> "failure" \in found
  BY <1>1, <1>4 DEF MetFailure
<1>7. s \in Troubled <=> found # {}
  BY <1>1, <1>4, <1>5 DEF Troubled, ChecksFailed
<1>8. s \notin ResolverFailed /\ s \notin ChecksFailed /\ s \notin Due /\ s \in Ordinary /\ s \notin Ended
  BY <1>4, <1>5 DEF ResolverFailed, ChecksFailed, Due, Ordinary, Ended
<1> QED
  BY <1>2, <1>3, <1>6, <1>7, <1>8 DEF s

LEMMA StageShapes ==
  ASSUME NEW s \in Stages
  PROVE  /\ \A a \in {"before", "resolving", "done"} : s.at = a => s = At(a)
         /\ s.at = "checking" =>
              s = Checking(s.left, s.problems) /\ s.left \in 0..Owners /\ s.problems \in SUBSET Problems
         /\ s.at = "failing" =>
              s = Failing(s.key, s.mode) /\ s.key \in LogKeys /\ s.mode \in FailModes
         /\ s.at = "deciding" =>
              \E decision \in Decisions, mode \in Modes : s = Deciding(decision, mode)
BY DEF Stages, At, Checking, Failing, Deciding, Problems, Verdicts, Modes

(* The numbers of the invariant.                                            *)
LEMMA NumbersAreNat ==
  ASSUME TypeOK
  PROVE  /\ \A d \in Dependencies, o \in Outcomes : calls[d][o] \in Nat
         /\ calls["owner_resolver"]["error"] \in Nat /\ calls["owner_resolver"]["success"] \in Nat
         /\ Errors \in Nat
         /\ met["resolver-error"] \in Nat /\ met["consent-check"] \in Nat
         /\ \A v \in Verdicts : decisions[v] \in Nat
         /\ decisions[<<"deny", "none">>] \in Nat
         /\ \A mode \in Modes : By(mode) \in Nat
         /\ By("none") \in Nat /\ By(ByPolicy) \in Nat /\ By(AlwaysClosed) \in Nat
         /\ Told \in Nat
         /\ Owners \in Nat
<1>1. \A d \in Dependencies, o \in Outcomes : calls[d][o] \in Nat
  BY DEF TypeOK
<1>2. /\ calls["owner_resolver"]["error"] \in Nat /\ calls["owner_resolver"]["success"] \in Nat
      /\ Errors \in Nat
  BY <1>1 DEF Dependencies, Outcomes, Errors
<1>3. met["resolver-error"] \in Nat /\ met["consent-check"] \in Nat
  BY DEF TypeOK, LogKeys
<1>4. \A v \in Verdicts : decisions[v] \in Nat
  BY DEF TypeOK
<1>5. \A mode \in Modes : decisions[<<"allow", mode>>] \in Nat /\ decisions[<<"deny", mode>>] \in Nat
  BY <1>4 DEF Verdicts, Decisions, Modes
<1>6. ASSUME NEW mode \in Modes PROVE By(mode) \in Nat
  <2>1. decisions[<<"allow", mode>>] \in Nat /\ decisions[<<"deny", mode>>] \in Nat
    BY <1>5
  <2> QED
    BY <2>1 DEF By
<1>7. {"none", ByPolicy, AlwaysClosed} \subseteq Modes
  BY DEF Modes, FailModes
<1>8. Told \in Nat
  <2>1. Tally(Troubled) \in Nat /\ decisions[<<"deny", "none">>] \in Nat
    BY <1>5, <1>7, TallyType
  <2> QED
    BY <1>3, <2>1 DEF Told
<1> QED
  BY <1>1, <1>2, <1>3, <1>4, <1>5, <1>6, <1>7, <1>8, ObservabilityAssumption

(* The errors stay within what the told responses allow: a step either      *)
(* settles open checks, or puts one more response in trouble.               *)
LEMMA BoundKept ==
  ASSUME NEW e \in Nat, NEW o \in Nat, NEW t \in Nat, NEW e2 \in Nat, NEW o2 \in Nat,
         e + o <= Owners * t, e2 + o2 <= e + o
  PROVE  e2 + o2 <= Owners * t
BY ObservabilityAssumption

LEMMA BoundGrows ==
  ASSUME NEW e \in Nat, NEW o \in Nat, NEW t \in Nat, NEW e2 \in Nat, NEW o2 \in Nat,
         e + o <= Owners * t, e2 + o2 <= e + o + Owners
  PROVE  e2 + o2 <= Owners * (t + 1)
<1>1. Owners \in Nat /\ Owners * t \in Nat
  BY ObservabilityAssumption
<1>2. Owners * (t + 1) = Owners * t + Owners
  BY <1>1
<1> QED
  BY <1>1, <1>2

(* A step that leaves the consent-manager's calls, the log and the counted  *)
(* decisions alone, and the phase as troubled as it was.                    *)
LEMMA ChecksUntouched ==
  ASSUME IInv, NEW k \in Requests, NEW next \in Stages, Goto(k, next),
         Errors' = Errors, UNCHANGED <<met, decisions>>,
         stage[k] \in Troubled <=> next \in Troubled,
         One(next \in ChecksFailed) + One(next \in MetFailure)
           <= One(stage[k] \in ChecksFailed) + One(stage[k] \in MetFailure),
         OpenOf(next) <= OpenOf(stage[k]), OpenOf(stage[k]) \in Nat, OpenOf(next) \in Nat
  PROVE  ChecksTally'
<1>1. /\ Moved(ChecksFailed, k, next) /\ Moved(MetFailure, k, next) /\ Moved(Troubled, k, next)
      /\ Cardinality(Open) \in Nat /\ Cardinality(Open') \in Nat
      /\ Cardinality(Open') + OpenOf(stage[k]) = Cardinality(Open) + OpenOf(next)
  BY PhaseMoves DEF IInv
<1>2. /\ met["consent-check"] \in Nat /\ Errors \in Nat /\ Told \in Nat
      /\ decisions[<<"deny", "none">>] \in Nat
  BY NumbersAreNat DEF IInv
<1>3. Tally(Troubled)' = Tally(Troubled) /\ Told' = Told
  BY <1>1 DEF Moved, One, Told
<1>4. met'["consent-check"] + Tally(ChecksFailed)' + Tally(MetFailure)' <= Errors'
  <2>1. Tally(ChecksFailed)' + Tally(MetFailure)' <= Tally(ChecksFailed) + Tally(MetFailure)
    BY <1>1 DEF Moved, One
  <2> QED
    BY <1>1, <1>2, <2>1 DEF IInv, ChecksTally, Moved
<1>5. Errors' + Cardinality(Open') <= Owners * Told'
  <2>1. Errors + Cardinality(Open) <= Owners * Told
    BY DEF IInv, ChecksTally
  <2>2. Errors' + Cardinality(Open') <= Errors + Cardinality(Open)
    BY <1>1, <1>2
  <2>3. Errors' \in Nat /\ Told' \in Nat
    BY <1>2, <1>3
  <2> QED
    BY <1>1, <1>2, <1>3, <2>1, <2>2, <2>3, BoundKept
<1> QED
  BY <1>4, <1>5 DEF ChecksTally

(* Likewise for the decisions and the resolver's calls.                     *)
LEMMA DecisionsUntouched ==
  ASSUME IInv, NEW k \in Requests, NEW next \in Stages, Goto(k, next),
         calls'["owner_resolver"] = calls["owner_resolver"], UNCHANGED decisions,
         stage[k] \notin Ended, next \notin Ended,
         next \in Ordinary => stage[k] \in Ordinary,
         One(next \in ResolverFailed) + One(next \in Due)
           = One(stage[k] \in ResolverFailed) + One(stage[k] \in Due)
  PROVE  DecisionsTally'
<1>1. /\ Moved(ResolverFailed, k, next) /\ Moved(Due, k, next)
      /\ Moved(Ordinary, k, next) /\ Moved(Ended, k, next)
  BY PhaseMoves DEF IInv
<1>2. /\ calls["owner_resolver"]["error"] \in Nat /\ calls["owner_resolver"]["success"] \in Nat
      /\ By("none") \in Nat /\ By(ByPolicy) \in Nat
  BY NumbersAreNat DEF IInv
<1>3. Tally(Ended)' = Tally(Ended)
  BY <1>1 DEF Moved, One
<1>4. Tally(Ordinary)' <= Tally(Ordinary)
  BY <1>1 DEF Moved, One
<1>5. Tally(ResolverFailed)' + Tally(Due)' = Tally(ResolverFailed) + Tally(Due)
  BY <1>1 DEF Moved, One
<1>6. \A mode : By(mode)' = By(mode)
  BY DEF By
<1>7. By("none")' + By(ByPolicy)' + By(AlwaysClosed)' = Tally(Ended)'
  BY <1>3, <1>6 DEF IInv, DecisionsTally
<1>8. By("none")' + Tally(Ordinary)' <= calls'["owner_resolver"]["success"]
  BY <1>1, <1>2, <1>4, <1>6 DEF IInv, DecisionsTally, Moved
<1>9. calls'["owner_resolver"]["error"] <= By(ByPolicy)' + Tally(ResolverFailed)' + Tally(Due)'
  BY <1>1, <1>2, <1>5, <1>6 DEF IInv, DecisionsTally, Moved
<1> QED
  BY <1>7, <1>8, <1>9 DEF DecisionsTally

-----------------------------------------------------------------------------
(* The counters.                                                            *)

Histogram == [counts : [1..Buckets -> Nat], total : Nat]
Cumulative(h) ==
  \A b \in 1..Buckets : h.counts[b] <= IF b = Buckets THEN h.total ELSE h.counts[b + 1]

(* An observation adds one call and leaves the buckets cumulative.          *)
LEMMA ObservationAdds ==
  ASSUME NEW h \in Histogram, NEW b \in 1..Buckets + 1, Cumulative(h)
  PROVE  /\ observe(h, b) \in Histogram
         /\ observe(h, b).total = h.total + 1
         /\ Cumulative(observe(h, b))
<1>1. Buckets \in Nat \ {0}
  BY ObservabilityAssumption
<1>2. h.total \in Nat /\ h.counts \in [1..Buckets -> Nat]
  BY DEF Histogram
<1> DEFINE more == [i \in 1..Buckets |-> IF b <= i THEN h.counts[i] + 1 ELSE h.counts[i]]
<1>3. observe(h, b) = [counts |-> more, total |-> h.total + 1]
  BY DEF observe
<1>4. more \in [1..Buckets -> Nat]
  <2>1. \A n \in Nat : n + 1 \in Nat
    OBVIOUS
  <2>2. \A i \in 1..Buckets : h.counts[i] \in Nat
    BY <1>2, Zenon
  <2> QED
    BY <2>1, <2>2, Zenon
<1>5. \A i \in 1..Buckets : more[i] <= IF i = Buckets THEN h.total + 1 ELSE more[i + 1]
  <2> TAKE i \in 1..Buckets
  <2>1. more[i] = IF b <= i THEN h.counts[i] + 1 ELSE h.counts[i]
    OBVIOUS
  <2>2. h.counts[i] \in Nat
    BY <1>2
  <2>3. CASE i = Buckets
    <3>1. h.counts[i] <= h.total
      BY <2>3 DEF Cumulative
    <3> QED
      BY <1>2, <2>1, <2>2, <2>3, <3>1
  <2>4. CASE i # Buckets
    <3>1. i + 1 \in 1..Buckets
      BY <1>1, <2>4
    <3>2. h.counts[i] <= h.counts[i + 1]
      BY <2>4 DEF Cumulative
    <3>3. more[i + 1] = IF b <= i + 1 THEN h.counts[i + 1] + 1 ELSE h.counts[i + 1]
      BY <3>1
    <3>4. h.counts[i + 1] \in Nat
      BY <1>2, <3>1
    <3> HIDE DEF more
    <3> QED
      BY <1>1, <2>1, <2>2, <2>4, <3>2, <3>3, <3>4
  <2> QED
    BY <2>3, <2>4
<1> HIDE DEF more
<1>6. observe(h, b) \in Histogram
  BY <1>2, <1>3, <1>4 DEF Histogram
<1>7. Cumulative(observe(h, b))
  BY <1>3, <1>5 DEF Cumulative
<1> QED
  BY <1>3, <1>6, <1>7

(* A call is counted and timed.                                             *)
LEMMA CallIsCounted ==
  ASSUME TypeOK, SeriesAgree, NEW d \in Dependencies, NEW o \in Outcomes, RecordDependencyCall(d, o)
  PROVE  /\ calls' \in [Dependencies -> [Outcomes -> Nat]]
         /\ latency' \in [Dependencies -> Histogram]
         /\ calls'[d][o] = calls[d][o] + 1
         /\ \A e \in Dependencies, p \in Outcomes : <<e, p>> # <<d, o>> => calls'[e][p] = calls[e][p]
         /\ SeriesAgree'
<1>1. calls \in [Dependencies -> [Outcomes -> Nat]] /\ latency \in [Dependencies -> Histogram]
  BY DEF TypeOK, Histogram
<1>2. calls' = [calls EXCEPT ![d][o] = @ + 1]
  BY DEF RecordDependencyCall
<1>3. PICK b \in 1..Buckets + 1 : latency' = [latency EXCEPT ![d] = observe(@, b)]
  BY DEF RecordDependencyCall
<1>4. \A e \in Dependencies :
        Cumulative(latency[e]) /\ calls[e]["success"] + calls[e]["error"] = latency[e].total
  BY DEF SeriesAgree, Cumulative
<1>5. /\ observe(latency[d], b) \in Histogram
      /\ observe(latency[d], b).total = latency[d].total + 1
      /\ Cumulative(observe(latency[d], b))
  BY <1>1, <1>4, ObservationAdds
<1>6. /\ calls' \in [Dependencies -> [Outcomes -> Nat]]
      /\ calls'[d][o] = calls[d][o] + 1
      /\ \A e \in Dependencies, p \in Outcomes : <<e, p>> # <<d, o>> => calls'[e][p] = calls[e][p]
  BY <1>1, <1>2
<1>7. /\ latency' \in [Dependencies -> Histogram]
      /\ latency'[d] = observe(latency[d], b)
      /\ \A e \in Dependencies \ {d} : latency'[e] = latency[e]
  BY <1>1, <1>3, <1>5
<1>8. ASSUME NEW e \in Dependencies
      PROVE  Cumulative(latency'[e]) /\ calls'[e]["success"] + calls'[e]["error"] = latency'[e].total
  <2>1. CASE e = d
    <3>1. calls[d]["success"] \in Nat /\ calls[d]["error"] \in Nat
      BY <1>1 DEF Outcomes
    <3>2. calls'[d]["success"] + calls'[d]["error"] = calls[d]["success"] + calls[d]["error"] + 1
      <4>1. CASE o = "success"
        <5>1. calls'[d]["error"] = calls[d]["error"] /\ calls'[d]["success"] = calls[d]["success"] + 1
          BY <1>6, <4>1 DEF Outcomes
        <5> QED
          BY <3>1, <5>1
      <4>2. CASE o = "error"
        <5>1. calls'[d]["success"] = calls[d]["success"] /\ calls'[d]["error"] = calls[d]["error"] + 1
          BY <1>6, <4>2 DEF Outcomes
        <5> QED
          BY <3>1, <5>1
      <4> QED
        BY <4>1, <4>2 DEF Outcomes
    <3> QED
      BY <1>4, <1>5, <1>7, <2>1, <3>2
  <2>2. CASE e # d
    <3>1. calls'[e]["success"] = calls[e]["success"] /\ calls'[e]["error"] = calls[e]["error"]
      BY <1>6, <2>2 DEF Outcomes
    <3> QED
      BY <1>4, <1>7, <2>2, <3>1
  <2> QED
    BY <2>1, <2>2
<1>9. SeriesAgree'
  BY <1>8 DEF SeriesAgree, Cumulative
<1> QED
  BY <1>6, <1>7, <1>9
-----------------------------------------------------------------------------
(* The steps of a phase that write no line.                                 *)

(* A step that touches no counter and not the log, either.                  *)
LEMMA QuietStep ==
  ASSUME IInv, NEW k \in Requests, NEW next \in Stages, Goto(k, next),
         UNCHANGED <<now, limiter, counters>>,
         next # Failing("resolver-error", AlwaysClosed),
         stage[k] \in Troubled <=> next \in Troubled,
         One(next \in ChecksFailed) + One(next \in MetFailure)
           <= One(stage[k] \in ChecksFailed) + One(stage[k] \in MetFailure),
         OpenOf(next) <= OpenOf(stage[k]), OpenOf(stage[k]) \in Nat, OpenOf(next) \in Nat,
         stage[k] \notin Ended, next \notin Ended,
         next \in Ordinary => stage[k] \in Ordinary,
         stage[k] \notin ResolverFailed, next \notin ResolverFailed,
         stage[k] \notin Due, next \notin Due
  PROVE  IInv'
<1>1. UNCHANGED <<now, suppression, lines, met, calls, latency, decisions>>
  BY DEF limiter, counters
<1>2. /\ stage' \in [Requests -> Stages]
      /\ \A j \in Requests : stage'[j] = IF j = k THEN next ELSE stage[j]
      /\ Moved(ResolverFailed, k, next)
  BY PhaseMoves DEF IInv
<1>3. TypeOK'
  BY <1>1, <1>2 DEF IInv, TypeOK
<1>4. Errors' = Errors
  BY <1>1 DEF Errors
<1>5. ChecksTally'
  BY <1>1, <1>4, ChecksUntouched
<1>6. One(next \in ResolverFailed) + One(next \in Due)
        = One(stage[k] \in ResolverFailed) + One(stage[k] \in Due)
  BY DEF One
<1>7. DecisionsTally'
  BY <1>1, <1>6, DecisionsUntouched
<1>8. FailuresTally'
  <2>1. Tally(ResolverFailed)' = Tally(ResolverFailed)
    BY <1>2 DEF Moved, One
  <2> QED
    BY <1>1, <1>2, <2>1 DEF IInv, FailuresTally
<1>9. SeriesAgree' /\ LimiterKnows'
  BY <1>1 DEF IInv, SeriesAgree, LimiterKnows, Pending, Tracked
<1> QED
  BY <1>3, <1>5, <1>7, <1>8, <1>9 DEF IInv

LEMMA LookupIInv ==
  ASSUME IInv, NEW k \in Requests, LoadContext(k) \/ FailLookup(k)
  PROVE  IInv'
<1>1. PICK name \in {"before", "resolving"} : stage[k] = At(name)
  BY StageShapes DEF LoadContext, FailLookup, IInv, TypeOK
<1>2. PICK next :
        /\ Goto(k, next)
        /\ \/ next = At("resolving")
           \/ \E key \in {"no-request-context", "lookup"}, mode \in FailModes : next = Failing(key, mode)
  BY DEF LoadContext, FailLookup, FailModes
<1>3. UNCHANGED <<now, limiter, counters>>
  BY DEF LoadContext, FailLookup
<1>4. /\ OpenOf(stage[k]) = 0
      /\ stage[k] \notin ResolverFailed /\ stage[k] \notin ChecksFailed /\ stage[k] \notin MetFailure
      /\ stage[k] \notin Troubled /\ stage[k] \notin Due /\ stage[k] \notin Ordinary
      /\ stage[k] \notin Ended
  BY <1>1, AtClasses
<1>5. /\ next \in Stages /\ OpenOf(next) = 0
      /\ next \notin ResolverFailed /\ next \notin ChecksFailed /\ next \notin MetFailure
      /\ next \notin Troubled /\ next \notin Due /\ next \notin Ordinary /\ next \notin Ended
      /\ next # Failing("resolver-error", AlwaysClosed)
  <2>1. CASE next = At("resolving")
    BY <2>1, AtClasses DEF At, Failing
  <2>2. CASE \E key \in {"no-request-context", "lookup"}, mode \in FailModes : next = Failing(key, mode)
    <3>1. PICK key \in {"no-request-context", "lookup"}, mode \in FailModes : next = Failing(key, mode)
      BY <2>2
    <3>2. key \in LogKeys /\ key # "resolver-error" /\ key # "consent-check"
      BY DEF LogKeys
    <3>3. next # Failing("resolver-error", AlwaysClosed)
      BY <3>1, <3>2 DEF Failing
    <3> QED
      BY <3>1, <3>2, <3>3, FailingClasses
  <2> QED
    BY <1>2, <2>1, <2>2
<1> QED
  BY <1>2, <1>3, <1>4, <1>5, QuietStep DEF One

LEMMA SkipCheckIInv ==
  ASSUME IInv, NEW k \in Requests, SkipCheck(k)
  PROVE  IInv'
<1> DEFINE left == stage[k].left
           found == stage[k].problems
           next == Checking(left - 1, found)
<1>1. stage[k] = Checking(left, found) /\ left \in 0..Owners /\ found \in SUBSET Problems
  BY StageShapes DEF SkipCheck, IInv, TypeOK
<1>2. left > 0 /\ Goto(k, next) /\ UNCHANGED <<now, limiter, counters>>
  BY DEF SkipCheck, CheckIsOver
<1> HIDE DEF left, found
<1>3. left - 1 \in 0..Owners /\ left \in Nat /\ left - 1 \in Nat
  BY <1>1, <1>2, ObservabilityAssumption
<1>4. /\ OpenOf(stage[k]) = IF found # {} THEN left ELSE 0
      /\ stage[k] \notin ResolverFailed /\ stage[k] \notin ChecksFailed
      /\ stage[k] \in MetFailure <=> "failure" \in found
      /\ stage[k] \in Troubled <=> found # {}
      /\ stage[k] \notin Due /\ stage[k] \in Ordinary /\ stage[k] \notin Ended
  BY <1>1, CheckingClasses
<1>5. /\ next \in Stages /\ OpenOf(next) = IF found # {} THEN left - 1 ELSE 0
      /\ next \notin ResolverFailed /\ next \notin ChecksFailed
      /\ next \in MetFailure <=> "failure" \in found
      /\ next \in Troubled <=> found # {}
      /\ next \notin Due /\ next \in Ordinary /\ next \notin Ended
  BY <1>1, <1>3, CheckingClasses
<1>6. next # Failing("resolver-error", AlwaysClosed)
  BY DEF Checking, Failing
<1>7. OpenOf(next) <= OpenOf(stage[k]) /\ OpenOf(stage[k]) \in Nat /\ OpenOf(next) \in Nat
  BY <1>3, <1>4, <1>5
<1> HIDE DEF next
<1>8. One(next \in ChecksFailed) + One(next \in MetFailure)
        <= One(stage[k] \in ChecksFailed) + One(stage[k] \in MetFailure)
  BY <1>4, <1>5 DEF One
<1> QED
  BY <1>2, <1>4, <1>5, <1>6, <1>7, <1>8, QuietStep

LEMMA ReduceIInv ==
  ASSUME IInv, NEW k \in Requests, reduceOwnerResults(k)
  PROVE  IInv'
<1> DEFINE found == stage[k].problems
<1>1. stage[k] = Checking(0, found) /\ found \in SUBSET Problems
  BY StageShapes DEF reduceOwnerResults, IInv, TypeOK
<1>2. PICK mode \in FailModes :
        Goto(k, IF "refusal" \in found THEN Deciding("deny", "none")
                ELSE IF "failure" \in found THEN Failing("consent-check", mode)
                ELSE Deciding("allow", "none"))
  BY DEF reduceOwnerResults
<1>3. UNCHANGED <<now, limiter, counters>>
  BY DEF reduceOwnerResults
<1> HIDE DEF found
<1>4. /\ OpenOf(stage[k]) = 0
      /\ stage[k] \notin ResolverFailed /\ stage[k] \notin ChecksFailed
      /\ stage[k] \in MetFailure <=> "failure" \in found
      /\ stage[k] \in Troubled <=> found # {}
      /\ stage[k] \notin Due /\ stage[k] \in Ordinary /\ stage[k] \notin Ended
  <2>1. 0 \in 0..Owners
    BY ObservabilityAssumption
  <2> QED
    BY <1>1, <2>1, CheckingClasses
<1>5. ASSUME NEW next, Goto(k, next), next \in Stages, OpenOf(next) = 0,
             next \notin ResolverFailed, next \notin MetFailure, next \notin Due, next \notin Ended,
             next \in ChecksFailed => "failure" \in found,
             next \in Troubled <=> found # {},
             next # Failing("resolver-error", AlwaysClosed)
      PROVE  IInv'
  <2>1. One(next \in ChecksFailed) + One(next \in MetFailure)
          <= One(stage[k] \in ChecksFailed) + One(stage[k] \in MetFailure)
    BY <1>4, <1>5 DEF One
  <2> QED
    BY <1>3, <1>4, <1>5, <2>1, QuietStep
<1>6. CASE "refusal" \in found
  <2> DEFINE next == Deciding("deny", "none")
  <2>1. /\ next \in Stages /\ OpenOf(next) = 0 /\ next \in Troubled
        /\ next \notin ResolverFailed /\ next \notin ChecksFailed /\ next \notin MetFailure
        /\ next \notin Due /\ next \notin Ended
    BY DecidingClasses DEF Decisions, Modes, FailModes, ByPolicy, AlwaysClosed
  <2>2. next # Failing("resolver-error", AlwaysClosed)
    BY DEF Deciding, Failing
  <2>3. Goto(k, next)
    BY <1>2, <1>6
  <2> HIDE DEF next
  <2> QED
    BY <1>5, <1>6, <2>1, <2>2, <2>3
<1>7. CASE "refusal" \notin found /\ "failure" \in found
  <2> DEFINE next == Failing("consent-check", mode)
  <2>1. /\ next \in Stages /\ OpenOf(next) = 0 /\ next \in Troubled
        /\ next \notin ResolverFailed /\ next \notin MetFailure
        /\ next \notin Due /\ next \notin Ended
    BY FailingClasses DEF LogKeys
  <2>2. next # Failing("resolver-error", AlwaysClosed)
    BY DEF Failing
  <2>3. Goto(k, next)
    BY <1>2, <1>7
  <2> HIDE DEF next
  <2> QED
    BY <1>5, <1>7, <2>1, <2>2, <2>3
<1>8. CASE "refusal" \notin found /\ "failure" \notin found
  <2> DEFINE next == Deciding("allow", "none")
  <2>1. /\ next \in Stages /\ OpenOf(next) = 0 /\ next \notin Troubled
        /\ next \notin ResolverFailed /\ next \notin ChecksFailed /\ next \notin MetFailure
        /\ next \notin Due /\ next \notin Ended
    BY DecidingClasses DEF Decisions, Modes, FailModes, ByPolicy, AlwaysClosed
  <2>2. next # Failing("resolver-error", AlwaysClosed)
    BY DEF Deciding, Failing
  <2>3. Goto(k, next)
    BY <1>2, <1>8
  <2>4. found = {}
    BY <1>1, <1>8 DEF Problems
  <2> HIDE DEF next
  <2> QED
    BY <1>5, <1>8, <2>1, <2>2, <2>3, <2>4
<1> QED
  BY <1>6, <1>7, <1>8

LEMMA ResolveIInv ==
  ASSUME IInv, NEW k \in Requests, Resolve(k)
  PROVE  IInv'
<1>1. stage[k] = At("resolving")
  BY StageShapes DEF Resolve, IInv, TypeOK
<1>2. PICK o, next :
        /\ o \in Outcomes
        /\ RecordDependencyCall("owner_resolver", o) /\ Goto(k, next)
        /\ \/ o = "error" /\ next = Failing("resolver-error", ByPolicy)
           \/ /\ o = "success"
              /\ \/ next \in {Deciding("allow", "none"), Deciding("deny", AlwaysClosed)}
                 \/ next = Failing("claims", AlwaysClosed)
                 \/ \E n \in 1..Owners : next = Checking(n, {})
  BY DEF Resolve, Outcomes
<1>3. UNCHANGED <<now, suppression, lines, met, decisions>>
  BY DEF Resolve, limiter
<1>4. /\ calls' \in [Dependencies -> [Outcomes -> Nat]]
      /\ latency' \in [Dependencies -> Histogram]
      /\ calls'["owner_resolver"][o] = calls["owner_resolver"][o] + 1
      /\ \A e \in Dependencies, p \in Outcomes :
           <<e, p>> # <<"owner_resolver", o>> => calls'[e][p] = calls[e][p]
      /\ SeriesAgree'
  BY <1>2, CallIsCounted DEF IInv, Dependencies
<1>5. /\ OpenOf(stage[k]) = 0
      /\ stage[k] \notin ResolverFailed /\ stage[k] \notin ChecksFailed /\ stage[k] \notin MetFailure
      /\ stage[k] \notin Troubled /\ stage[k] \notin Due /\ stage[k] \notin Ordinary
      /\ stage[k] \notin Ended
  BY <1>1, AtClasses
<1>6. /\ next \in Stages /\ OpenOf(next) = 0
      /\ next \notin ChecksFailed /\ next \notin MetFailure /\ next \notin Troubled
      /\ next \notin Due /\ next \notin Ended
      /\ next \in ResolverFailed <=> o = "error"
      /\ next \in Ordinary => o = "success"
      /\ next # Failing("resolver-error", AlwaysClosed)
  <2> USE DEF Decisions, Modes, FailModes, ByPolicy, AlwaysClosed
  <2>1. CASE o = "error" /\ next = Failing("resolver-error", ByPolicy)
    BY <2>1, FailingClasses DEF LogKeys, Failing
  <2>2. CASE o = "success" /\ next \in {Deciding("allow", "none"), Deciding("deny", AlwaysClosed)}
    <3>1. next # Failing("resolver-error", AlwaysClosed)
      BY <2>2 DEF Deciding, Failing
    <3> QED
      BY <2>2, <3>1, DecidingClasses
  <2>3. CASE o = "success" /\ next = Failing("claims", AlwaysClosed)
    <3>1. next # Failing("resolver-error", AlwaysClosed)
      BY <2>3 DEF Failing
    <3> QED
      BY <2>3, <3>1, FailingClasses DEF LogKeys
  <2>4. CASE o = "success" /\ \E n \in 1..Owners : next = Checking(n, {})
    <3>1. PICK n \in 0..Owners : next = Checking(n, {})
      BY <2>4, ObservabilityAssumption
    <3>2. next # Failing("resolver-error", AlwaysClosed)
      BY <3>1 DEF Checking, Failing
    <3> QED
      BY <2>4, <3>1, <3>2, CheckingClasses
  <2> QED
    BY <1>2, <2>1, <2>2, <2>3, <2>4
<1>7. /\ stage' \in [Requests -> Stages]
      /\ \A j \in Requests : stage'[j] = IF j = k THEN next ELSE stage[j]
      /\ Moved(ResolverFailed, k, next) /\ Moved(Due, k, next)
      /\ Moved(Ordinary, k, next) /\ Moved(Ended, k, next)
  BY <1>2, <1>6, PhaseMoves DEF IInv
<1>8. TypeOK' /\ LimiterKnows'
  BY <1>3, <1>4, <1>7 DEF IInv, TypeOK, Histogram, LimiterKnows, Pending, Tracked
<1>9. Errors' = Errors
  BY <1>4 DEF Errors, Dependencies, Outcomes
<1>10. ChecksTally'
  <2>1. One(next \in ChecksFailed) + One(next \in MetFailure)
          <= One(stage[k] \in ChecksFailed) + One(stage[k] \in MetFailure)
    BY <1>5, <1>6 DEF One
  <2> QED
    BY <1>2, <1>3, <1>5, <1>6, <1>9, <2>1, ChecksUntouched
<1>11. /\ calls["owner_resolver"]["error"] \in Nat /\ calls["owner_resolver"]["success"] \in Nat
       /\ met["resolver-error"] \in Nat /\ By("none") \in Nat /\ By(ByPolicy) \in Nat
  BY NumbersAreNat DEF IInv
<1>12. /\ calls'["owner_resolver"]["error"] = calls["owner_resolver"]["error"] + One(o = "error")
       /\ calls'["owner_resolver"]["success"] = calls["owner_resolver"]["success"] + One(o = "success")
  BY <1>2, <1>4, <1>11 DEF Dependencies, Outcomes, One
<1>13. Tally(ResolverFailed)' = Tally(ResolverFailed) + One(o = "error")
  BY <1>5, <1>6, <1>7 DEF Moved, One
<1>14. FailuresTally'
  BY <1>3, <1>6, <1>7, <1>11, <1>12, <1>13 DEF IInv, FailuresTally, Moved, One
<1>15. DecisionsTally'
  <2>1. \A mode : By(mode)' = By(mode)
    BY <1>3 DEF By
  <2>2. Tally(Ended)' = Tally(Ended) /\ Tally(Due)' = Tally(Due)
    BY <1>5, <1>6, <1>7 DEF Moved, One
  <2>3. Tally(Ordinary)' <= Tally(Ordinary) + One(o = "success")
    BY <1>5, <1>6, <1>7 DEF Moved, One
  <2>4. By("none")' + By(ByPolicy)' + By(AlwaysClosed)' = Tally(Ended)'
    BY <2>1, <2>2 DEF IInv, DecisionsTally
  <2>5. By("none")' + Tally(Ordinary)' <= calls'["owner_resolver"]["success"]
    BY <1>7, <1>11, <1>12, <2>1, <2>3 DEF IInv, DecisionsTally, Moved, One
  <2>6. calls'["owner_resolver"]["error"] <= By(ByPolicy)' + Tally(ResolverFailed)' + Tally(Due)'
    BY <1>7, <1>11, <1>12, <1>13, <2>1, <2>2 DEF IInv, DecisionsTally, Moved, One
  <2> QED
    BY <2>4, <2>5, <2>6 DEF DecisionsTally
<1> QED
  BY <1>4, <1>8, <1>10, <1>14, <1>15 DEF IInv

LEMMA CheckConsentIInv ==
  ASSUME IInv, NEW k \in Requests, CheckConsent(k)
  PROVE  IInv'
<1> DEFINE left == stage[k].left
           found == stage[k].problems
<1>1. stage[k] = Checking(left, found) /\ left \in 0..Owners /\ found \in SUBSET Problems /\ left > 0
  BY StageShapes DEF CheckConsent, IInv, TypeOK
<1>2. PICK o \in Outcomes, new \in {{}, {"refusal"}, {"failure"}} :
        /\ RecordDependencyCall("consent_manager", o) /\ Goto(k, Checking(left - 1, found \cup new))
        /\ o = "success" => new # {"failure"}
        /\ o = "error" => (new = {"failure"} \/ (found # {} /\ new = {}))
  <2>1. CASE /\ RecordDependencyCall("consent_manager", "success")
             /\ \E new \in {{}, {"refusal"}} : CheckIsOver(k, new)
    <3>1. PICK new \in {{}, {"refusal"}} : CheckIsOver(k, new)
      BY <2>1
    <3>2. new # {"failure"} /\ new \in {{}, {"refusal"}, {"failure"}}
      OBVIOUS
    <3> QED
      BY <2>1, <3>1, <3>2 DEF CheckIsOver, Outcomes
  <2>2. CASE /\ RecordDependencyCall("consent_manager", "error")
             /\ CheckIsOver(k, {"failure"}) \/ (found # {} /\ CheckIsOver(k, {}))
    <3>1. CASE CheckIsOver(k, {"failure"})
      BY <2>2, <3>1 DEF CheckIsOver, Outcomes
    <3>2. CASE found # {} /\ CheckIsOver(k, {})
      BY <2>2, <3>2 DEF CheckIsOver, Outcomes
    <3> QED
      BY <2>2, <3>1, <3>2
  <2> QED
    BY <2>1, <2>2 DEF CheckConsent
<1> DEFINE next == Checking(left - 1, found \cup new)
<1>3. UNCHANGED <<now, suppression, lines, met, decisions>>
  BY DEF CheckConsent, limiter
<1> HIDE DEF left, found
<1>4. left - 1 \in 0..Owners /\ left \in 1..Owners /\ left - 1 \in Nat /\ Owners \in Nat
  BY <1>1, ObservabilityAssumption
<1>5. /\ calls' \in [Dependencies -> [Outcomes -> Nat]]
      /\ latency' \in [Dependencies -> Histogram]
      /\ calls'["consent_manager"][o] = calls["consent_manager"][o] + 1
      /\ \A e \in Dependencies, p \in Outcomes :
           <<e, p>> # <<"consent_manager", o>> => calls'[e][p] = calls[e][p]
      /\ SeriesAgree'
  BY <1>2, CallIsCounted DEF IInv, Dependencies
<1>6. /\ OpenOf(stage[k]) = IF found # {} THEN left ELSE 0
      /\ stage[k] \notin ResolverFailed /\ stage[k] \notin ChecksFailed
      /\ stage[k] \in MetFailure <=> "failure" \in found
      /\ stage[k] \in Troubled <=> found # {}
      /\ stage[k] \notin Due /\ stage[k] \in Ordinary /\ stage[k] \notin Ended
  BY <1>1, CheckingClasses
<1>7. /\ next \in Stages /\ OpenOf(next) = IF found \cup new # {} THEN left - 1 ELSE 0
      /\ next \notin ResolverFailed /\ next \notin ChecksFailed
      /\ next \in MetFailure <=> "failure" \in found \cup new
      /\ next \in Troubled <=> found \cup new # {}
      /\ next \notin Due /\ next \in Ordinary /\ next \notin Ended
  <2>1. found \cup new \in SUBSET Problems
    BY <1>1 DEF Problems
  <2> QED
    BY <1>4, <2>1, CheckingClasses
<1>8. next # Failing("resolver-error", AlwaysClosed)
  BY DEF Checking, Failing
<1>9. Goto(k, next)
  BY <1>2
<1> HIDE DEF next
<1>10. /\ stage' \in [Requests -> Stages]
       /\ \A j \in Requests : stage'[j] = IF j = k THEN next ELSE stage[j]
       /\ Moved(ResolverFailed, k, next) /\ Moved(ChecksFailed, k, next)
       /\ Moved(MetFailure, k, next) /\ Moved(Troubled, k, next)
       /\ Cardinality(Open) \in Nat /\ Cardinality(Open') \in Nat
       /\ Cardinality(Open') + OpenOf(stage[k]) = Cardinality(Open) + OpenOf(next)
  BY <1>7, <1>9, PhaseMoves DEF IInv
<1>11. TypeOK' /\ LimiterKnows'
  BY <1>3, <1>5, <1>10 DEF IInv, TypeOK, Histogram, LimiterKnows, Pending, Tracked
<1>12. /\ met["consent-check"] \in Nat /\ Errors \in Nat /\ Told \in Nat
       /\ calls["owner_resolver"]["error"] \in Nat /\ calls["owner_resolver"]["success"] \in Nat
  BY NumbersAreNat DEF IInv
<1>13. Errors' = Errors + One(o = "error") /\ Errors' \in Nat
  BY <1>2, <1>5, <1>12 DEF Errors, Dependencies, Outcomes, One
<1>14. /\ calls'["owner_resolver"]["error"] = calls["owner_resolver"]["error"]
       /\ calls'["owner_resolver"]["success"] = calls["owner_resolver"]["success"]
  BY <1>5 DEF Dependencies, Outcomes
<1>15. Told' = Told + One(found = {} /\ new # {}) /\ Told' \in Nat
  <2>1. Tally(Troubled)' = Tally(Troubled) + One(found = {} /\ new # {})
    BY <1>6, <1>7, <1>10 DEF Moved, One
  <2>2. decisions[<<"deny", "none">>] \in Nat
    BY NumbersAreNat DEF IInv
  <2> QED
    BY <1>3, <1>10, <1>12, <2>1, <2>2 DEF Told, Moved, One
<1>16. met'["consent-check"] + Tally(ChecksFailed)' + Tally(MetFailure)' <= Errors'
  <2>1. Tally(ChecksFailed)' = Tally(ChecksFailed)
    BY <1>6, <1>7, <1>10 DEF Moved, One
  <2>2. new = {"failure"} <=> "failure" \in new
    BY <1>2
  <2>3. Tally(MetFailure)' <= Tally(MetFailure) + One(new = {"failure"})
    BY <1>6, <1>7, <1>10, <2>2 DEF Moved, One
  <2>4. One(new = {"failure"}) <= One(o = "error")
    BY <1>2 DEF One, Outcomes
  <2> QED
    BY <1>3, <1>10, <1>12, <1>13, <2>1, <2>3, <2>4 DEF IInv, ChecksTally, Moved, One
<1>17. Errors' + Cardinality(Open') <= Owners * Told'
  <2>1. Errors + Cardinality(Open) <= Owners * Told
    BY DEF IInv, ChecksTally
  <2>2. CASE found # {}
    <3>1. found \cup new # {}
      BY <2>2
    <3>2. Cardinality(Open') + 1 = Cardinality(Open)
      BY <1>4, <1>6, <1>7, <1>10, <2>2, <3>1
    <3>3. Errors' + Cardinality(Open') <= Errors + Cardinality(Open)
      BY <1>10, <1>12, <1>13, <3>2 DEF One
    <3>4. Told' = Told
      BY <1>12, <1>15, <2>2 DEF One
    <3> QED
      BY <1>10, <1>12, <1>13, <1>15, <2>1, <3>3, <3>4, BoundKept
  <2>3. CASE found = {} /\ new = {}
    <3>1. o # "error"
      BY <1>2, <2>3
    <3>2. found \cup new = {}
      BY <2>3
    <3>3. Cardinality(Open') = Cardinality(Open)
      BY <1>6, <1>7, <1>10, <2>3, <3>2
    <3>4. Errors' + Cardinality(Open') <= Errors + Cardinality(Open)
      BY <1>10, <1>12, <1>13, <3>1, <3>3 DEF One
    <3>5. Told' = Told
      BY <1>12, <1>15, <2>3 DEF One
    <3> QED
      BY <1>10, <1>12, <1>13, <1>15, <2>1, <3>4, <3>5, BoundKept
  <2>4. CASE found = {} /\ new # {}
    <3>1. found \cup new # {}
      BY <2>4
    <3>2. Cardinality(Open') = Cardinality(Open) + (left - 1)
      BY <1>4, <1>6, <1>7, <1>10, <2>4, <3>1
    <3>3. Errors' + Cardinality(Open') <= Errors + Cardinality(Open) + Owners
      <4>1. One(o = "error") \in 0..1 /\ left \in Nat /\ left <= Owners
        BY <1>4 DEF One
      <4>2. Errors' <= Errors + 1
        BY <1>12, <1>13, <4>1
      <4>3. Cardinality(Open') + 1 <= Cardinality(Open) + Owners
        BY <1>4, <1>10, <3>2, <4>1
      <4> QED
        BY <1>4, <1>10, <1>12, <1>13, <4>2, <4>3
    <3>4. Told' = Told + 1
      BY <1>12, <1>15, <2>4 DEF One
    <3>5. Errors' + Cardinality(Open') <= Owners * (Told + 1)
      BY <1>10, <1>12, <1>13, <2>1, <3>3, BoundGrows
    <3> QED
      BY <3>4, <3>5
  <2> QED
    BY <2>2, <2>3, <2>4
<1>18. ChecksTally'
  BY <1>16, <1>17 DEF ChecksTally
<1>19. FailuresTally'
  <2>1. Tally(ResolverFailed)' = Tally(ResolverFailed)
    BY <1>6, <1>7, <1>10 DEF Moved, One
  <2> QED
    BY <1>3, <1>8, <1>10, <1>14, <2>1 DEF IInv, FailuresTally
<1>20. DecisionsTally'
  <2>1. /\ Moved(Due, k, next) /\ Moved(Ordinary, k, next) /\ Moved(Ended, k, next)
    BY <1>7, <1>9, PhaseMoves DEF IInv
  <2>2. /\ Tally(ResolverFailed)' = Tally(ResolverFailed) /\ Tally(Due)' = Tally(Due)
        /\ Tally(Ordinary)' = Tally(Ordinary) /\ Tally(Ended)' = Tally(Ended)
    BY <1>6, <1>7, <1>10, <2>1 DEF Moved, One
  <2>3. \A mode : By(mode)' = By(mode)
    BY <1>3 DEF By
  <2> QED
    BY <1>14, <2>2, <2>3 DEF IInv, DecisionsTally
<1> QED
  BY <1>5, <1>11, <1>18, <1>19, <1>20 DEF IInv
-----------------------------------------------------------------------------
(* The limiter.                                                             *)

LEMMA LogKeysAreFinite == IsFiniteSet(LogKeys)
<1>1. IsFiniteSet({"no-request-context"})
  BY FS_Singleton
<1>2. IsFiniteSet({"no-request-context"} \cup {"lookup"})
  BY <1>1, FS_AddElement
<1>3. IsFiniteSet({"no-request-context"} \cup {"lookup"} \cup {"resolver-error"})
  BY <1>2, FS_AddElement
<1>4. IsFiniteSet({"no-request-context"} \cup {"lookup"} \cup {"resolver-error"} \cup {"claims"})
  BY <1>3, FS_AddElement
<1>5. IsFiniteSet({"no-request-context"} \cup {"lookup"} \cup {"resolver-error"} \cup {"claims"}
                    \cup {"consent-check"})
  BY <1>4, FS_AddElement
<1>6. LogKeys = {"no-request-context"} \cup {"lookup"} \cup {"resolver-error"} \cup {"claims"}
                  \cup {"consent-check"}
  BY DEF LogKeys
<1> QED
  BY <1>5, <1>6

LEMMA LineWritten ==
  ASSUME TypeOK, NEW key \in LogKeys, NEW n \in Nat, Line(key, n), now' = now
  PROVE  /\ lines' \in [LogKeys -> [count : Nat, last : 0..now', reported : Nat]]
         /\ lines'[key].count = lines[key].count + 1
         /\ lines'[key].reported = lines[key].reported + n
         /\ lines'[key].last = now
         /\ \A x \in LogKeys \ {key} : lines'[x] = lines[x]
<1>1. /\ now \in Nat
      /\ lines \in [LogKeys -> [count : Nat, last : 0..now, reported : Nat]]
  BY DEF TypeOK
<1> DEFINE line == [count |-> lines[key].count + 1, last |-> now, reported |-> lines[key].reported + n]
<1>2. line \in [count : Nat, last : 0..now, reported : Nat]
  BY <1>1
<1>3. lines' = [lines EXCEPT ![key] = line]
  BY DEF Line
<1> HIDE DEF line
<1>4. lines' \in [LogKeys -> [count : Nat, last : 0..now', reported : Nat]]
      /\ lines'[key] = line /\ \A x \in LogKeys \ {key} : lines'[x] = lines[x]
  BY <1>1, <1>2, <1>3
<1> QED
  BY <1>4 DEF line

(* What the line of a failure does to the limiter, and to its key alone.    *)
LEMMA OccurrenceIsKept ==
  ASSUME IInv, NEW key \in LogKeys, LogEvery(key), now' = now
  PROVE  /\ DOMAIN suppression' \subseteq LogKeys
         /\ Cardinality(DOMAIN suppression') <= KeyCap
         /\ \A x \in DOMAIN suppression' :
              suppression'[x] \in [lastLogged : 0..now', suppressed : Nat]
         /\ lines' \in [LogKeys -> [count : Nat, last : 0..now', reported : Nat]]
         /\ met' \in [LogKeys -> Nat]
         /\ met'[key] = met[key] + 1
         /\ \A x \in LogKeys \ {key} : met'[x] = met[x]
         /\ LimiterKnows'
         /\ LET recent == lines[key].count > 0 /\ now < lines[key].last + Interval
            IN /\ Tracked(key) => (recent <=> lines'[key].count = lines[key].count)
               /\ ~Tracked(key) => lines'[key].count = lines[key].count + 1
               /\ ~Tracked(key) /\ lines[key].count > 0 => Cardinality(DOMAIN suppression) = KeyCap
<1>1. /\ now \in Nat /\ Interval \in Nat /\ KeyCap \in Nat
      /\ DOMAIN suppression \subseteq LogKeys /\ Cardinality(DOMAIN suppression) <= KeyCap
      /\ \A x \in DOMAIN suppression : suppression[x] \in [lastLogged : 0..now, suppressed : Nat]
      /\ lines \in [LogKeys -> [count : Nat, last : 0..now, reported : Nat]]
      /\ met \in [LogKeys -> Nat]
  BY ObservabilityAssumption DEF IInv, TypeOK
<1>2. /\ met' \in [LogKeys -> Nat] /\ met'[key] = met[key] + 1
      /\ \A x \in LogKeys \ {key} : met'[x] = met[x]
  BY <1>1 DEF LogEvery
<1>3. \A x \in LogKeys :
        /\ met[x] = lines[x].count + lines[x].reported + Pending(x)
        /\ Tracked(x) => lines[x].count > 0 /\ suppression[x].lastLogged = lines[x].last
        /\ ~Tracked(x) /\ lines[x].count > 0 => Cardinality(DOMAIN suppression) = KeyCap
  BY DEF IInv, LimiterKnows
<1>4. /\ lines[key].count \in Nat /\ lines[key].reported \in Nat /\ lines[key].last \in 0..now
      /\ met[key] \in Nat
  BY <1>1
<1>5. CASE Admit(key)
  <2> DEFINE state == [lastLogged |-> now, suppressed |-> 0]
  <2>1. Tracked(key) /\ ~Quiet(key) /\ Track(key, state) /\ Line(key, suppression[key].suppressed)
    BY <1>5 DEF Admit
  <2>2. suppression[key].suppressed \in Nat /\ Pending(key) = suppression[key].suppressed
    BY <1>1, <2>1 DEF Pending, Tracked
  <2>3. /\ lines' \in [LogKeys -> [count : Nat, last : 0..now', reported : Nat]]
        /\ lines'[key].count = lines[key].count + 1
        /\ lines'[key].reported = lines[key].reported + suppression[key].suppressed
        /\ lines'[key].last = now
        /\ \A x \in LogKeys \ {key} : lines'[x] = lines[x]
    BY <2>1, <2>2, LineWritten DEF IInv
  <2>4. /\ DOMAIN suppression' = DOMAIN suppression /\ suppression'[key] = state
        /\ \A x \in DOMAIN suppression \ {key} : suppression'[x] = suppression[x]
    BY <2>1 DEF Track, Tracked
  <2>5. \A x \in DOMAIN suppression' : suppression'[x] \in [lastLogged : 0..now', suppressed : Nat]
    <3>1. state \in [lastLogged : 0..now', suppressed : Nat]
      BY <1>1
    <3> HIDE DEF state
    <3> QED
      BY <1>1, <2>4, <3>1
  <2>6. \A x \in LogKeys : Tracked(x)' = Tracked(x)
    BY <2>4 DEF Tracked
  <2>7. Pending(key)' = 0 /\ \A x \in LogKeys \ {key} : Pending(x)' = Pending(x)
    BY <2>1, <2>4 DEF Pending, Tracked
  <2>8. LimiterKnows'
    <3> SUFFICES ASSUME NEW x \in LogKeys
                 PROVE  /\ met'[x] = lines'[x].count + lines'[x].reported + Pending(x)'
                        /\ Tracked(x)' => lines'[x].count > 0 /\ suppression'[x].lastLogged = lines'[x].last
                        /\ ~Tracked(x)' /\ lines'[x].count > 0 => Cardinality(DOMAIN suppression') = KeyCap
      BY DEF LimiterKnows
    <3>1. CASE x = key
      <4>1. met'[key] = lines'[key].count + lines'[key].reported + Pending(key)'
        BY <1>2, <1>3, <1>4, <2>2, <2>3, <2>7
      <4>2. Tracked(key)' /\ lines'[key].count > 0 /\ suppression'[key].lastLogged = lines'[key].last
        BY <1>4, <2>1, <2>3, <2>4, <2>6
      <4> QED
        BY <3>1, <4>1, <4>2
    <3>2. CASE x # key
      BY <1>2, <1>3, <2>3, <2>4, <2>6, <2>7, <3>2 DEF Tracked
    <3> QED
      BY <3>1, <3>2
  <2>9. ~(lines[key].count > 0 /\ now < lines[key].last + Interval)
    BY <1>3, <2>1 DEF Quiet
  <2> QED
    BY <1>1, <1>2, <1>4, <2>1, <2>3, <2>4, <2>5, <2>8, <2>9
<1>6. CASE Suppress(key)
  <2> DEFINE state == [suppression[key] EXCEPT !.suppressed = @ + 1]
  <2>1. Quiet(key) /\ Tracked(key) /\ Track(key, state) /\ lines' = lines
    BY <1>6 DEF Suppress, Quiet
  <2>2. suppression[key].suppressed \in Nat /\ Pending(key) = suppression[key].suppressed
        /\ suppression[key] \in [lastLogged : 0..now, suppressed : Nat]
    BY <1>1, <2>1 DEF Pending, Tracked
  <2>3. /\ state \in [lastLogged : 0..now', suppressed : Nat]
        /\ state.lastLogged = suppression[key].lastLogged
        /\ state.suppressed = suppression[key].suppressed + 1
    BY <2>2
  <2> HIDE DEF state
  <2>4. /\ DOMAIN suppression' = DOMAIN suppression /\ suppression'[key] = state
        /\ \A x \in DOMAIN suppression \ {key} : suppression'[x] = suppression[x]
    BY <2>1 DEF Track, Tracked
  <2>5. \A x \in DOMAIN suppression' : suppression'[x] \in [lastLogged : 0..now', suppressed : Nat]
    BY <1>1, <2>3, <2>4
  <2>6. \A x \in LogKeys : Tracked(x)' = Tracked(x)
    BY <2>4 DEF Tracked
  <2>7. /\ Pending(key)' = Pending(key) + 1
        /\ \A x \in LogKeys \ {key} : Pending(x)' = Pending(x)
    BY <2>1, <2>2, <2>3, <2>4 DEF Pending, Tracked
  <2>8. LimiterKnows'
    <3> SUFFICES ASSUME NEW x \in LogKeys
                 PROVE  /\ met'[x] = lines[x].count + lines[x].reported + Pending(x)'
                        /\ Tracked(x)' => lines[x].count > 0 /\ suppression'[x].lastLogged = lines[x].last
                        /\ ~Tracked(x)' /\ lines[x].count > 0 => Cardinality(DOMAIN suppression') = KeyCap
      BY <2>1 DEF LimiterKnows
    <3>1. CASE x = key
      <4>1. met'[key] = lines[key].count + lines[key].reported + Pending(key)'
        BY <1>2, <1>3, <1>4, <2>2, <2>7
      <4>2. Tracked(key)' /\ lines[key].count > 0 /\ suppression'[key].lastLogged = lines[key].last
        BY <1>3, <2>1, <2>3, <2>4, <2>6
      <4> QED
        BY <3>1, <4>1, <4>2
    <3>2. CASE x # key
      BY <1>2, <1>3, <2>4, <2>6, <2>7, <3>2 DEF Tracked
    <3> QED
      BY <3>1, <3>2
  <2>9. lines[key].count > 0 /\ now < lines[key].last + Interval
    BY <1>3, <2>1 DEF Quiet
  <2> QED
    BY <1>1, <1>2, <2>1, <2>4, <2>5, <2>8, <2>9
<1>7. CASE AdmitNew(key)
  <2>1. ~Tracked(key) /\ Line(key, 0)
    BY <1>7 DEF AdmitNew
  <2>2. /\ lines' \in [LogKeys -> [count : Nat, last : 0..now', reported : Nat]]
        /\ lines'[key].count = lines[key].count + 1
        /\ lines'[key].reported = lines[key].reported
        /\ lines'[key].last = now
        /\ \A x \in LogKeys \ {key} : lines'[x] = lines[x]
    BY <1>4, <2>1, LineWritten DEF IInv
  <2>3. Pending(key) = 0
    BY <2>1 DEF Pending
  <2>4. IsFiniteSet(DOMAIN suppression) /\ Cardinality(DOMAIN suppression) \in Nat
    <3>1. IsFiniteSet(LogKeys)
      BY LogKeysAreFinite
    <3> QED
      BY <1>1, <3>1, FS_Subset, FS_CardinalityType
  <2>5. CASE Cardinality(DOMAIN suppression) < KeyCap
    <3> DEFINE state == [lastLogged |-> now, suppressed |-> 0]
    <3>1. Track(key, state)
      BY <1>7, <2>4, <2>5, <1>1 DEF AdmitNew
    <3>2. state \in [lastLogged : 0..now', suppressed : Nat] /\ state.lastLogged = now /\ state.suppressed = 0
      BY <1>1
    <3> HIDE DEF state
    <3>3. /\ DOMAIN suppression' = DOMAIN suppression \cup {key} /\ suppression'[key] = state
          /\ \A x \in DOMAIN suppression : suppression'[x] = suppression[x]
      BY <2>1, <3>1 DEF Track, Tracked
    <3>4. Cardinality(DOMAIN suppression') <= KeyCap
      <4>1. Cardinality(DOMAIN suppression \cup {key}) = Cardinality(DOMAIN suppression) + 1
        BY <2>1, <2>4, FS_AddElement DEF Tracked
      <4> QED
        BY <1>1, <2>4, <2>5, <3>3, <4>1
    <3>5. \A x \in DOMAIN suppression' : suppression'[x] \in [lastLogged : 0..now', suppressed : Nat]
      BY <1>1, <3>2, <3>3
    <3>6. Tracked(key)' /\ \A x \in LogKeys \ {key} : Tracked(x)' = Tracked(x)
      BY <3>3 DEF Tracked
    <3>7. Pending(key)' = 0 /\ \A x \in LogKeys \ {key} : Pending(x)' = Pending(x)
      BY <3>2, <3>3 DEF Pending, Tracked
    <3>8. LimiterKnows'
      <4> SUFFICES ASSUME NEW x \in LogKeys
                   PROVE  /\ met'[x] = lines'[x].count + lines'[x].reported + Pending(x)'
                          /\ Tracked(x)' => lines'[x].count > 0 /\ suppression'[x].lastLogged = lines'[x].last
                          /\ ~Tracked(x)' /\ lines'[x].count > 0 => Cardinality(DOMAIN suppression') = KeyCap
        BY DEF LimiterKnows
      <4>1. CASE x = key
        BY <1>2, <1>3, <1>4, <2>2, <2>3, <3>2, <3>3, <3>6, <3>7, <4>1
      <4>2. CASE x # key
        BY <1>1, <1>2, <1>3, <2>2, <2>4, <2>5, <3>3, <3>6, <3>7, <4>2 DEF Tracked
      <4> QED
        BY <4>1, <4>2
    <3> QED
      BY <1>1, <1>2, <1>3, <2>1, <2>2, <3>3, <3>4, <3>5, <3>8
  <2>6. CASE Cardinality(DOMAIN suppression) >= KeyCap
    <3>1. suppression' = suppression
      BY <1>1, <1>7, <2>4, <2>6, SMTT(30) DEF AdmitNew
    <3>2. Cardinality(DOMAIN suppression) = KeyCap
      BY <1>1, <2>4, <2>6, SMTT(30)
    <3>3. \A x \in LogKeys : Tracked(x)' = Tracked(x) /\ Pending(x)' = Pending(x)
      BY <3>1 DEF Tracked, Pending
    <3>4. LimiterKnows'
      <4> SUFFICES ASSUME NEW x \in LogKeys
                   PROVE  /\ met'[x] = lines'[x].count + lines'[x].reported + Pending(x)'
                          /\ Tracked(x)' => lines'[x].count > 0 /\ suppression[x].lastLogged = lines'[x].last
                          /\ ~Tracked(x)' /\ lines'[x].count > 0 => Cardinality(DOMAIN suppression) = KeyCap
        BY <3>1 DEF LimiterKnows
      <4>1. CASE x = key
        BY <1>2, <1>3, <1>4, <2>1, <2>2, <2>3, <3>2, <3>3, <4>1
      <4>2. CASE x # key
        BY <1>2, <1>3, <2>2, <3>3, <4>2
      <4> QED
        BY <4>1, <4>2
    <3> QED
      BY <1>1, <1>2, <2>1, <2>2, <3>1, <3>2, <3>4
  <2> QED
    BY <1>1, <2>4, <2>5, <2>6
<1> QED
  BY <1>5, <1>6, <1>7 DEF LogEvery
-----------------------------------------------------------------------------
LEMMA LogFailureIInv ==
  ASSUME IInv, NEW k \in Requests, LogFailure(k)
  PROVE  IInv'
<1> DEFINE key == stage[k].key
           mode == stage[k].mode
<1>1. stage[k] = Failing(key, mode) /\ key \in LogKeys /\ mode \in FailModes
  BY StageShapes DEF LogFailure, IInv, TypeOK
<1>2. PICK decision \in Decisions : LogEvery(key) /\ Goto(k, Deciding(decision, mode))
  BY DEF LogFailure, failDecision, Decisions
<1>3. UNCHANGED <<now, calls, latency, decisions>>
  BY DEF LogFailure, counters
<1> DEFINE next == Deciding(decision, mode)
<1> HIDE DEF key, mode
<1>4. /\ DOMAIN suppression' \subseteq LogKeys
      /\ Cardinality(DOMAIN suppression') <= KeyCap
      /\ \A x \in DOMAIN suppression' :
           suppression'[x] \in [lastLogged : 0..now', suppressed : Nat]
      /\ lines' \in [LogKeys -> [count : Nat, last : 0..now', reported : Nat]]
      /\ met' \in [LogKeys -> Nat]
      /\ met'[key] = met[key] + 1
      /\ \A x \in LogKeys \ {key} : met'[x] = met[x]
      /\ LimiterKnows'
  BY <1>1, <1>2, <1>3, OccurrenceIsKept
<1>5. /\ OpenOf(stage[k]) = 0
      /\ stage[k] \in ResolverFailed <=> key = "resolver-error" /\ mode = ByPolicy
      /\ stage[k] \in ChecksFailed <=> key = "consent-check"
      /\ stage[k] \in Troubled <=> key = "consent-check"
      /\ stage[k] \notin MetFailure /\ stage[k] \notin Due /\ stage[k] \notin Ordinary
      /\ stage[k] \notin Ended
  BY <1>1, FailingClasses
<1>6. mode \in Modes /\ mode # "none"
  BY <1>1 DEF Modes, FailModes, ByPolicy, AlwaysClosed
<1>7. /\ next \in Stages /\ OpenOf(next) = 0
      /\ next \notin ResolverFailed /\ next \notin ChecksFailed /\ next \notin MetFailure
      /\ next \notin Troubled /\ next \notin Ordinary /\ next \notin Ended
      /\ next \in Due <=> mode = ByPolicy
  BY <1>6, DecidingClasses
<1>8. next # Failing("resolver-error", AlwaysClosed)
  BY DEF Deciding, Failing
<1>9. key = "resolver-error" => mode = ByPolicy
  BY <1>1 DEF IInv, FailuresTally, FailModes
<1>10. Goto(k, next)
  BY <1>2
<1> HIDE DEF next
<1>11. /\ stage' \in [Requests -> Stages]
       /\ \A j \in Requests : stage'[j] = IF j = k THEN next ELSE stage[j]
       /\ Moved(ResolverFailed, k, next) /\ Moved(ChecksFailed, k, next)
       /\ Moved(MetFailure, k, next) /\ Moved(Troubled, k, next)
       /\ Moved(Due, k, next) /\ Moved(Ordinary, k, next) /\ Moved(Ended, k, next)
       /\ Cardinality(Open) \in Nat /\ Cardinality(Open') \in Nat
       /\ Cardinality(Open') + OpenOf(stage[k]) = Cardinality(Open) + OpenOf(next)
  BY <1>7, <1>10, PhaseMoves DEF IInv
<1>12. TypeOK'
  BY <1>3, <1>4, <1>11 DEF IInv, TypeOK
<1>13. SeriesAgree'
  BY <1>3 DEF IInv, SeriesAgree
<1>14. /\ Tally(ResolverFailed)' + One(key = "resolver-error") = Tally(ResolverFailed)
       /\ Tally(ChecksFailed)' + One(key = "consent-check") = Tally(ChecksFailed)
       /\ Tally(Troubled)' + One(key = "consent-check") = Tally(Troubled)
       /\ Tally(MetFailure)' = Tally(MetFailure)
       /\ Tally(Due)' = Tally(Due) + One(mode = ByPolicy)
       /\ Tally(Ordinary)' = Tally(Ordinary) /\ Tally(Ended)' = Tally(Ended)
  BY <1>5, <1>7, <1>9, <1>11 DEF Moved, One
<1>15. /\ Tally(ResolverFailed)' \in Nat /\ Tally(ChecksFailed)' \in Nat /\ Tally(Troubled)' \in Nat
       /\ Tally(Due)' \in Nat /\ Tally(Due) \in Nat /\ Tally(MetFailure) \in Nat
  BY <1>11 DEF Moved
<1>16. /\ calls["owner_resolver"]["error"] \in Nat /\ met["resolver-error"] \in Nat
       /\ met["consent-check"] \in Nat /\ By(ByPolicy) \in Nat /\ Errors \in Nat /\ Told \in Nat
       /\ decisions[<<"deny", "none">>] \in Nat
  BY NumbersAreNat DEF IInv
<1>17. /\ met'["resolver-error"] = met["resolver-error"] + One(key = "resolver-error")
       /\ met'["consent-check"] = met["consent-check"] + One(key = "consent-check")
  BY <1>1, <1>4, <1>16 DEF One, LogKeys
<1>18. FailuresTally'
  BY <1>3, <1>8, <1>11, <1>14, <1>15, <1>16, <1>17 DEF IInv, FailuresTally, One
<1>19. ChecksTally'
  <2>1. Errors' = Errors
    BY <1>3 DEF Errors
  <2>2. Cardinality(Open') = Cardinality(Open)
    BY <1>5, <1>7, <1>11
  <2>3. Told' = Told
    BY <1>3, <1>14, <1>15, <1>16, <1>17 DEF Told, One
  <2>4. met'["consent-check"] + Tally(ChecksFailed)' + Tally(MetFailure)' <= Errors'
    BY <1>14, <1>15, <1>16, <1>17, <2>1 DEF IInv, ChecksTally, One
  <2> QED
    BY <2>1, <2>2, <2>3, <2>4 DEF IInv, ChecksTally
<1>20. DecisionsTally'
  <2>1. \A m : By(m)' = By(m)
    BY <1>3 DEF By
  <2>2. calls'["owner_resolver"]["error"] <= By(ByPolicy)' + Tally(ResolverFailed)' + Tally(Due)'
    <3>1. Tally(ResolverFailed) + Tally(Due) <= Tally(ResolverFailed)' + Tally(Due)'
      BY <1>9, <1>14, <1>15 DEF One
    <3> QED
      BY <1>3, <1>14, <1>15, <1>16, <2>1, <3>1 DEF IInv, DecisionsTally, One
  <2> QED
    BY <1>3, <1>14, <2>1, <2>2 DEF IInv, DecisionsTally
<1> QED
  BY <1>4, <1>12, <1>13, <1>18, <1>19, <1>20 DEF IInv

LEMMA RecordDecisionIInv ==
  ASSUME IInv, NEW k \in Requests, RecordDecision(k)
  PROVE  IInv'
<1>1. PICK decision \in Decisions, mode \in Modes : stage[k] = Deciding(decision, mode)
  BY StageShapes DEF RecordDecision, IInv, TypeOK
<1> DEFINE v == <<decision, mode>>
           next == At("done")
<1>2. /\ decisions' = [decisions EXCEPT ![v] = @ + 1] /\ Goto(k, next)
      /\ UNCHANGED <<now, suppression, lines, met, calls, latency>>
  BY <1>1 DEF RecordDecision, limiter, Deciding
<1>3. v \in Verdicts
  BY DEF Verdicts, Modes
<1>4. /\ decisions \in [Verdicts -> Nat] /\ decisions' \in [Verdicts -> Nat]
      /\ decisions'[v] = decisions[v] + 1
      /\ \A w \in Verdicts \ {v} : decisions'[w] = decisions[w]
  BY <1>2, <1>3 DEF IInv, TypeOK
<1>5. /\ OpenOf(stage[k]) = 0
      /\ stage[k] \notin ResolverFailed /\ stage[k] \notin ChecksFailed /\ stage[k] \notin MetFailure
      /\ stage[k] \in Troubled <=> decision = "deny" /\ mode = "none"
      /\ stage[k] \in Due <=> mode = ByPolicy
      /\ stage[k] \in Ordinary <=> mode = "none"
      /\ stage[k] \notin Ended
  BY <1>1, DecidingClasses
<1>6. /\ next \in Stages /\ OpenOf(next) = 0
      /\ next \notin ResolverFailed /\ next \notin ChecksFailed /\ next \notin MetFailure
      /\ next \notin Troubled /\ next \notin Due /\ next \notin Ordinary /\ next \in Ended
  BY AtClasses
<1>7. next # Failing("resolver-error", AlwaysClosed)
  BY DEF At, Failing
<1> HIDE DEF next
<1>8. /\ stage' \in [Requests -> Stages]
      /\ \A j \in Requests : stage'[j] = IF j = k THEN next ELSE stage[j]
      /\ Moved(ResolverFailed, k, next) /\ Moved(ChecksFailed, k, next)
      /\ Moved(MetFailure, k, next) /\ Moved(Troubled, k, next)
      /\ Moved(Due, k, next) /\ Moved(Ordinary, k, next) /\ Moved(Ended, k, next)
      /\ Cardinality(Open) \in Nat /\ Cardinality(Open') \in Nat
      /\ Cardinality(Open') + OpenOf(stage[k]) = Cardinality(Open) + OpenOf(next)
  BY <1>2, <1>6, PhaseMoves DEF IInv
<1>9. TypeOK'
  BY <1>2, <1>4, <1>8 DEF IInv, TypeOK
<1>10. SeriesAgree' /\ LimiterKnows'
  BY <1>2 DEF IInv, SeriesAgree, LimiterKnows, Pending, Tracked
<1>11. /\ Tally(ResolverFailed)' = Tally(ResolverFailed) /\ Tally(ChecksFailed)' = Tally(ChecksFailed)
       /\ Tally(MetFailure)' = Tally(MetFailure)
       /\ Tally(Troubled)' + One(decision = "deny" /\ mode = "none") = Tally(Troubled)
       /\ Tally(Due)' + One(mode = ByPolicy) = Tally(Due)
       /\ Tally(Ordinary)' + One(mode = "none") = Tally(Ordinary)
       /\ Tally(Ended)' = Tally(Ended) + 1
  BY <1>5, <1>6, <1>8 DEF Moved, One
<1>12. /\ Tally(Troubled)' \in Nat /\ Tally(Due)' \in Nat /\ Tally(Ordinary)' \in Nat /\ Tally(Ended) \in Nat
       /\ Tally(ResolverFailed) \in Nat
  BY <1>8 DEF Moved
<1>13. /\ met["consent-check"] \in Nat /\ decisions[<<"deny", "none">>] \in Nat
       /\ \A m \in Modes : By(m) \in Nat
       /\ calls["owner_resolver"]["error"] \in Nat /\ calls["owner_resolver"]["success"] \in Nat
  BY NumbersAreNat DEF IInv
<1>14. \A m \in Modes : By(m)' = By(m) + One(m = mode)
  <2> SUFFICES ASSUME NEW m \in Modes PROVE By(m)' = By(m) + One(m = mode)
    OBVIOUS
  <2>1. /\ <<"allow", m>> \in Verdicts /\ <<"deny", m>> \in Verdicts
        /\ decisions[<<"allow", m>>] \in Nat /\ decisions[<<"deny", m>>] \in Nat
    BY <1>4 DEF Verdicts, Decisions, Modes
  <2>2. CASE m # mode
    <3>1. <<"allow", m>> # v /\ <<"deny", m>> # v
      BY <2>2
    <3>2. decisions'[<<"allow", m>>] = decisions[<<"allow", m>>]
          /\ decisions'[<<"deny", m>>] = decisions[<<"deny", m>>]
      BY <1>4, <2>1, <3>1
    <3> QED
      BY <2>1, <2>2, <3>2 DEF By, One
  <2>3. CASE m = mode /\ decision = "allow"
    <3>1. decisions'[<<"allow", m>>] = decisions[<<"allow", m>>] + 1
          /\ decisions'[<<"deny", m>>] = decisions[<<"deny", m>>]
      BY <1>4, <2>1, <2>3
    <3> QED
      BY <2>1, <2>3, <3>1 DEF By, One
  <2>4. CASE m = mode /\ decision = "deny"
    <3>1. decisions'[<<"allow", m>>] = decisions[<<"allow", m>>]
          /\ decisions'[<<"deny", m>>] = decisions[<<"deny", m>>] + 1
      BY <1>4, <2>1, <2>4
    <3> QED
      BY <2>1, <2>4, <3>1 DEF By, One
  <2> QED
    BY <2>2, <2>3, <2>4 DEF Decisions
<1>15. decisions'[<<"deny", "none">>]
         = decisions[<<"deny", "none">>] + One(decision = "deny" /\ mode = "none")
  <2>1. <<"deny", "none">> \in Verdicts /\ (<<"deny", "none">> = v <=> decision = "deny" /\ mode = "none")
    BY DEF Verdicts, Decisions
  <2> HIDE DEF v
  <2> QED
    BY <1>4, <1>13, <2>1 DEF One
<1> HIDE DEF v
<1>16. FailuresTally'
  BY <1>2, <1>7, <1>8, <1>11 DEF IInv, FailuresTally
<1>17. ChecksTally'
  <2>1. Errors' = Errors
    BY <1>2 DEF Errors
  <2>2. Cardinality(Open') = Cardinality(Open)
    BY <1>5, <1>6, <1>8
  <2>3. Told' = Told
    BY <1>2, <1>11, <1>12, <1>13, <1>15 DEF Told, One
  <2> QED
    BY <1>2, <1>11, <2>1, <2>2, <2>3 DEF IInv, ChecksTally
<1>18. DecisionsTally'
  <2>1. /\ By("none")' = By("none") + One(mode = "none")
        /\ By(ByPolicy)' = By(ByPolicy) + One(mode = ByPolicy)
        /\ By(AlwaysClosed)' = By(AlwaysClosed) + One(mode = AlwaysClosed)
        /\ By("none") \in Nat /\ By(ByPolicy) \in Nat /\ By(AlwaysClosed) \in Nat
    BY <1>13, <1>14 DEF Modes, FailModes
  <2>2. One(mode = "none") + One(mode = ByPolicy) + One(mode = AlwaysClosed) = 1
    BY DEF One, Modes, FailModes, ByPolicy, AlwaysClosed
  <2>3. By("none")' + By(ByPolicy)' + By(AlwaysClosed)' = Tally(Ended)'
    BY <1>11, <1>12, <2>1, <2>2 DEF IInv, DecisionsTally, One
  <2>4. By("none")' + Tally(Ordinary)' <= calls'["owner_resolver"]["success"]
    BY <1>2, <1>11, <1>12, <1>13, <2>1 DEF IInv, DecisionsTally, One
  <2>5. calls'["owner_resolver"]["error"] <= By(ByPolicy)' + Tally(ResolverFailed)' + Tally(Due)'
    BY <1>2, <1>11, <1>12, <1>13, <2>1 DEF IInv, DecisionsTally, One
  <2> QED
    BY <2>3, <2>4, <2>5 DEF DecisionsTally
<1> QED
  BY <1>9, <1>10, <1>16, <1>17, <1>18 DEF IInv

LEMMA TickIInv == IInv /\ Tick => IInv'
<1> SUFFICES ASSUME IInv, Tick PROVE IInv'
  OBVIOUS
<1>1. /\ now \in Nat /\ now' = now + 1
      /\ UNCHANGED <<stage, suppression, lines, met, calls, latency, decisions>>
  BY DEF Tick, limiter, counters, IInv, TypeOK
<1>2. TypeOK'
  <2>1. 0..now \subseteq 0..now'
    BY <1>1
  <2>2. \A x \in DOMAIN suppression : suppression[x] \in [lastLogged : 0..now', suppressed : Nat]
    BY <2>1 DEF IInv, TypeOK
  <2>3. lines \in [LogKeys -> [count : Nat, last : 0..now', reported : Nat]]
    BY <2>1 DEF IInv, TypeOK
  <2> QED
    BY <1>1, <2>2, <2>3 DEF IInv, TypeOK
<1>3. FailuresTally' /\ ChecksTally' /\ DecisionsTally'
  BY <1>1 DEF IInv, FailuresTally, ChecksTally, DecisionsTally, Tally, Staged, Open, Errors, Told, By
<1>4. SeriesAgree' /\ LimiterKnows'
  BY <1>1 DEF IInv, SeriesAgree, LimiterKnows, Pending, Tracked
<1> QED
  BY <1>2, <1>3, <1>4 DEF IInv

LEMMA StutterIInv == IInv /\ UNCHANGED vars => IInv'
<1> SUFFICES ASSUME IInv, UNCHANGED vars PROVE IInv'
  OBVIOUS
<1>1. UNCHANGED <<now, stage, suppression, lines, met, calls, latency, decisions>>
  BY DEF vars, limiter, counters
<1>2. TypeOK' /\ SeriesAgree' /\ LimiterKnows'
  BY <1>1 DEF IInv, TypeOK, SeriesAgree, LimiterKnows, Pending, Tracked
<1>3. FailuresTally' /\ ChecksTally' /\ DecisionsTally'
  BY <1>1 DEF IInv, FailuresTally, ChecksTally, DecisionsTally, Tally, Staged, Open, Errors, Told, By
<1> QED
  BY <1>2, <1>3 DEF IInv

LEMMA NextIInv == IInv /\ [Next]_vars => IInv'
<1> SUFFICES ASSUME IInv, [Next]_vars PROVE IInv'
  OBVIOUS
<1>1. CASE \E k \in Requests : LoadContext(k) \/ FailLookup(k)
  BY <1>1, LookupIInv
<1>2. CASE \E k \in Requests : Resolve(k)
  BY <1>2, ResolveIInv
<1>3. CASE \E k \in Requests : CheckConsent(k)
  BY <1>3, CheckConsentIInv
<1>4. CASE \E k \in Requests : SkipCheck(k)
  BY <1>4, SkipCheckIInv
<1>5. CASE \E k \in Requests : reduceOwnerResults(k)
  BY <1>5, ReduceIInv
<1>6. CASE \E k \in Requests : LogFailure(k)
  BY <1>6, LogFailureIInv
<1>7. CASE \E k \in Requests : RecordDecision(k)
  BY <1>7, RecordDecisionIInv
<1>8. CASE Tick
  BY <1>8, TickIInv
<1>9. CASE Terminated \/ UNCHANGED vars
  BY <1>9, StutterIInv DEF Terminated
<1> QED
  BY <1>1, <1>2, <1>3, <1>4, <1>5, <1>6, <1>7, <1>8, <1>9 DEF Next

LEMMA InitIInv == Init => IInv
<1> SUFFICES ASSUME Init PROVE IInv
  OBVIOUS
<1>1. DOMAIN suppression = {} /\ Cardinality(DOMAIN suppression) = 0
  BY FS_EmptySet DEF Init
<1>2. KeyCap \in Nat \ {0} /\ Buckets \in Nat \ {0}
  BY ObservabilityAssumption
<1>3. TypeOK
  <2>1. stage \in [Requests -> Stages]
    BY DEF Init, Stages
  <2>2. lines \in [LogKeys -> [count : Nat, last : 0..now, reported : Nat]] /\ met \in [LogKeys -> Nat]
    BY DEF Init
  <2>3. /\ calls \in [Dependencies -> [Outcomes -> Nat]]
        /\ latency \in [Dependencies -> [counts : [1..Buckets -> Nat], total : Nat]]
        /\ decisions \in [Verdicts -> Nat]
    BY DEF Init
  <2>4. now \in Nat
    BY DEF Init
  <2> QED
    BY <1>1, <1>2, <2>1, <2>2, <2>3, <2>4 DEF TypeOK
<1>4. ASSUME NEW S, At("before") \notin S PROVE Tally(S) = 0
  <2>1. Staged(S) = {}
    BY <1>4 DEF Init, Staged
  <2> QED
    BY <2>1, FS_EmptySet DEF Tally
<1>5. /\ Tally(ResolverFailed) = 0 /\ Tally(ChecksFailed) = 0 /\ Tally(MetFailure) = 0
      /\ Tally(Troubled) = 0 /\ Tally(Due) = 0 /\ Tally(Ordinary) = 0 /\ Tally(Ended) = 0
  BY <1>4, AtClasses
<1>6. FailuresTally
  BY <1>5 DEF Init, FailuresTally, Dependencies, Outcomes, LogKeys, At, Failing
<1>7. ChecksTally
  <2>1. Errors = 0
    BY DEF Init, Errors, Dependencies, Outcomes
  <2>2. Told = 0
    BY <1>5 DEF Init, Told, LogKeys, Verdicts, Decisions
  <2>3. Open = {}
    <3>1. \A k \in Requests : OpenOf(stage[k]) = 0
      BY AtClasses DEF Init
    <3> QED
      BY <3>1 DEF Open
  <2>4. Cardinality(Open) = 0
    BY <2>3, FS_EmptySet
  <2> QED
    BY <1>5, <2>1, <2>2, <2>4, ObservabilityAssumption DEF Init, ChecksTally, LogKeys
<1>8. DecisionsTally
  BY <1>5 DEF Init, DecisionsTally, By, Dependencies, Outcomes, Verdicts, Decisions, FailModes
<1>9. SeriesAgree
  BY <1>2 DEF Init, SeriesAgree, Outcomes
<1>10. LimiterKnows
  BY <1>1 DEF Init, LimiterKnows, Pending, Tracked
<1> QED
  BY <1>3, <1>6, <1>7, <1>8, <1>9, <1>10 DEF IInv

LEMMA SpecIInv == Spec => []IInv
<1>1. Init => IInv
  BY InitIInv
<1>2. IInv /\ [Next]_vars => IInv'
  BY NextIInv
<1> QED
  BY <1>1, <1>2, PTL DEF Spec
-----------------------------------------------------------------------------
(* The sets of the properties are those of the tallies.                     *)
LEMMA SameSets ==
  ASSUME IInv
  PROVE  /\ FailingAt("resolver-error") = Staged(ResolverFailed)
         /\ FailingAt("consent-check") = Staged(ChecksFailed)
         /\ Untold = Staged(Troubled)
         /\ In("done") = Staged(Ended)
         /\ {k \in In("deciding") : stage[k].verdict[2] = ByPolicy} = Staged(Due)
<1> SUFFICES ASSUME NEW k \in Requests
             PROVE  /\ k \in FailingAt("resolver-error") <=> stage[k] \in ResolverFailed
                    /\ k \in FailingAt("consent-check") <=> stage[k] \in ChecksFailed
                    /\ k \in Untold <=> stage[k] \in Troubled
                    /\ k \in In("done") <=> stage[k] \in Ended
                    /\ k \in In("deciding") /\ stage[k].verdict[2] = ByPolicy <=> stage[k] \in Due
  BY DEF FailingAt, Untold, In, Staged
<1>1. stage[k] \in Stages /\ stage[k] # Failing("resolver-error", AlwaysClosed)
  BY DEF IInv, TypeOK, FailuresTally
<1>2. CASE \E name \in {"before", "resolving", "done"} : stage[k] = At(name)
  <2>1. PICK name \in {"before", "resolving", "done"} : stage[k] = At(name)
    BY <1>2
  <2>2. stage[k].at = name /\ stage[k] # Deciding("deny", "none")
    BY <2>1 DEF At, Deciding
  <2> QED
    BY <2>1, <2>2, AtClasses DEF FailingAt, Untold, In
<1>3. CASE \E left \in 0..Owners, found \in SUBSET Problems : stage[k] = Checking(left, found)
  <2>1. PICK left \in 0..Owners, found \in SUBSET Problems : stage[k] = Checking(left, found)
    BY <1>3
  <2>2. stage[k].at = "checking" /\ stage[k].problems = found /\ stage[k] # Deciding("deny", "none")
    BY <2>1 DEF Checking, Deciding
  <2> QED
    BY <2>1, <2>2, CheckingClasses DEF FailingAt, Untold, In
<1>4. CASE \E key \in LogKeys, mode \in FailModes : stage[k] = Failing(key, mode)
  <2>1. PICK key \in LogKeys, mode \in FailModes : stage[k] = Failing(key, mode)
    BY <1>4
  <2>2. stage[k].at = "failing" /\ stage[k].key = key /\ stage[k] # Deciding("deny", "none")
    BY <2>1 DEF Failing, Deciding
  <2>3. key = "resolver-error" => mode = ByPolicy
    BY <1>1, <2>1 DEF FailModes
  <2> QED
    BY <2>1, <2>2, <2>3, FailingClasses DEF FailingAt, Untold, In
<1>5. CASE \E decision \in Decisions, mode \in Modes : stage[k] = Deciding(decision, mode)
  <2>1. PICK decision \in Decisions, mode \in Modes : stage[k] = Deciding(decision, mode)
    BY <1>5
  <2>2. stage[k].at = "deciding" /\ stage[k].verdict[2] = mode
    BY <2>1 DEF Deciding
  <2>3. stage[k] = Deciding("deny", "none") <=> decision = "deny" /\ mode = "none"
    BY <2>1 DEF Deciding
  <2> QED
    BY <2>1, <2>2, <2>3, DecidingClasses DEF FailingAt, Untold, In
<1> QED
  BY <1>1, <1>2, <1>3, <1>4, <1>5, StageShapes DEF Stages

(* A step meets a failure only by LogFailure, and there the limiter decides.*)
LEMMA StepIsLimited ==
  IInv /\ [Next]_vars =>
    \A key \in LogKeys : met'[key] # met[key] =>
      LET recent == lines[key].count > 0 /\ now < lines[key].last + Interval
      IN /\ Tracked(key) => (recent <=> lines'[key].count = lines[key].count)
         /\ ~Tracked(key) => lines'[key].count = lines[key].count + 1
         /\ ~Tracked(key) /\ lines[key].count > 0 => Cardinality(DOMAIN suppression) = KeyCap
         /\ Cardinality(DOMAIN suppression') <= KeyCap
<1> SUFFICES ASSUME IInv, [Next]_vars, NEW key \in LogKeys, met'[key] # met[key]
             PROVE  LET recent == lines[key].count > 0 /\ now < lines[key].last + Interval
                    IN /\ Tracked(key) => (recent <=> lines'[key].count = lines[key].count)
                       /\ ~Tracked(key) => lines'[key].count = lines[key].count + 1
                       /\ ~Tracked(key) /\ lines[key].count > 0 =>
                            Cardinality(DOMAIN suppression) = KeyCap
                       /\ Cardinality(DOMAIN suppression') <= KeyCap
  OBVIOUS
<1>1. \E k \in Requests : LogFailure(k)
  BY DEF Next, vars, limiter, LoadContext, FailLookup, Resolve, CheckConsent, SkipCheck,
         reduceOwnerResults, RecordDecision, Tick, Terminated
<1>2. PICK k \in Requests : LogFailure(k)
  BY <1>1
<1>3. stage[k].key \in LogKeys /\ LogEvery(stage[k].key) /\ now' = now
  BY <1>2, StageShapes DEF LogFailure, IInv, TypeOK
<1>4. key = stage[k].key
  BY <1>3, OccurrenceIsKept
<1> QED
  BY <1>3, <1>4, OccurrenceIsKept

(* Types, and that the limiter knows no more keys than its cap              *)
(* (logging.go:79, 102-113).                                                *)
THEOREM TypeCorrect == Spec => []TypeOK
<1>1. IInv => TypeOK
  BY DEF IInv
<1> QED
  BY <1>1, SpecIInv, PTL

(* No occurrence of a failure is lost between the log and the limiter, nor  *)
(* an outage of the resolver between the counters and the log, for any      *)
(* number of concurrent phases (logging.go:92-118; consent.go:352-354).     *)
THEOREM NothingIsLost == Spec => []NothingSuppressedSilently
<1>1. IInv => NothingSuppressedSilently
  BY SameSets DEF IInv, FailuresTally, LimiterKnows, NothingSuppressedSilently, Tally
<1> QED
  BY <1>1, SpecIInv, PTL

(* Failed checks in the log do not outnumber the errors counted, and those  *)
(* do not outnumber the owners of the responses that have told of a problem *)
(* or are about to, for any number of phases and of owners per response     *)
(* (consent.go:490-492, 515, 561-595).                                      *)
THEOREM ErrorsAreTold == Spec => []EveryErrorIsTold
<1>1. IInv => EveryErrorIsTold
  <2> SUFFICES ASSUME IInv PROVE EveryErrorIsTold
    OBVIOUS
  <2>1. /\ Cardinality(FailingAt("consent-check")) = Tally(ChecksFailed)
        /\ Cardinality(Untold) = Tally(Troubled)
    BY SameSets DEF Tally
  <2>2. /\ met["consent-check"] \in Nat /\ Errors \in Nat /\ Told \in Nat /\ Owners * Told \in Nat
        /\ Tally(ChecksFailed) \in Nat /\ Tally(MetFailure) \in Nat
    BY NumbersAreNat, TallyType DEF IInv
  <2>3. Cardinality(Open) \in Nat
    <3>1. IsFiniteSet(Requests) /\ IsFiniteSet(1..Owners)
      BY ObservabilityAssumption, FS_Interval
    <3>2. IsFiniteSet(Requests \X (1..Owners))
      BY <3>1, FS_Product
    <3>3. IsFiniteSet(Open)
      BY <3>2, FS_Subset DEF Open
    <3> QED
      BY <3>3, FS_CardinalityType
  <2>4. met["consent-check"] + Cardinality(FailingAt("consent-check")) <= Errors
    BY <2>1, <2>2 DEF IInv, ChecksTally
  <2>5. Errors <= Owners * Told
    BY <2>2, <2>3 DEF IInv, ChecksTally
  <2> QED
    BY <2>1, <2>4, <2>5 DEF EveryErrorIsTold, Errors, Told
<1> QED
  BY <1>1, SpecIInv, PTL

(* A scrape finds the counters in agreement at every moment, for any number *)
(* of concurrent phases and of buckets (metrics.go:120-155, 207-234).       *)
THEOREM ScrapesAgree == Spec => []CountersAgree
<1>1. IInv => CountersAgree
  <2> SUFFICES ASSUME IInv PROVE CountersAgree
    OBVIOUS
  <2>1. By("none") <= calls["owner_resolver"]["success"]
    <3>1. /\ By("none") \in Nat /\ Tally(Ordinary) \in Nat
          /\ calls["owner_resolver"]["success"] \in Nat
      BY NumbersAreNat, TallyType DEF IInv
    <3> QED
      BY <3>1 DEF IInv, DecisionsTally
  <2>2. /\ Cardinality(FailingAt("resolver-error")) = Tally(ResolverFailed)
        /\ Cardinality(In("done")) = Tally(Ended)
        /\ Cardinality({k \in In("deciding") : stage[k].verdict[2] = ByPolicy}) = Tally(Due)
    BY SameSets DEF Tally
  <2> QED
    BY <2>1, <2>2 DEF IInv, DecisionsTally, SeriesAgree, CountersAgree
<1> QED
  BY <1>1, SpecIInv, PTL

(* A lasting failure is logged once per interval, for any interval, cap and *)
(* number of phases that meet it (logging.go:76-79, 98-117).                *)
THEOREM LinesAreLimited == Spec => OneLinePerInterval
<1>1. IInv /\ [Next]_vars =>
        \A key \in LogKeys : met'[key] # met[key] =>
          LET recent == lines[key].count > 0 /\ now < lines[key].last + Interval
          IN /\ Tracked(key) => (recent <=> lines'[key].count = lines[key].count)
             /\ ~Tracked(key) => lines'[key].count = lines[key].count + 1
             /\ ~Tracked(key) /\ lines[key].count > 0 => Cardinality(DOMAIN suppression) = KeyCap
             /\ Cardinality(DOMAIN suppression') <= KeyCap
  BY StepIsLimited
<1> QED
  BY <1>1, SpecIInv, PTL DEF Spec, OneLinePerInterval
=============================================================================
