------------------------- MODULE AuditEmitterProofs -------------------------
(***************************************************************************)
(* Proofs about AuditEmitter for any configurations, requests and records, *)
(* and for any size of the queues and batches.                             *)
(***************************************************************************)
EXTENDS AuditEmitter, SequenceTheorems, TLAPS

Held(e) == ToSet(queue[e]) \cup ToSet(batch[e])

(* Each emitter holds records of its own requests, each of them once.       *)
HoldsItsOwn(e) ==
  /\ IsInjective(queue[e]) /\ IsInjective(batch[e])
  /\ ToSet(queue[e]) \cap ToSet(batch[e]) = {}
  /\ \A record \in Held(e) : emitter[record[1]] = e
  /\ worker[e] = "none" => queue[e] = <<>> /\ batch[e] = <<>>

(* Every record emitted has one fate.                                       *)
OneFate ==
  /\ Emitted = received \cup failed \cup (UNION {Held(e) : e \in Emitter}) \cup DroppedAnywhere
  /\ received \cap failed = {}
  /\ (received \cup failed) \cap ((UNION {Held(e) : e \in Emitter}) \cup DroppedAnywhere) = {}
  /\ (UNION {Held(e) : e \in Emitter}) \cap DroppedAnywhere = {}

(* Emitters come into being in the registry, which loses them only to       *)
(* ShutdownAll: the first of a configuration before it, the second after.   *)
RegistryKnows ==
  /\ \A e \in emitters : worker[e] # "none"
  /\ \A r \in Requests : emitter[r] # NoEmitter => worker[emitter[r]] # "none"
  /\ \A key \in Keys : worker[<<key, 2>>] # "none" => <<key, 2>> \in emitters
  /\ main = "run" =>
       /\ done = {} /\ pending = {}
       /\ \A key \in Keys : /\ worker[<<key, 1>>] # "none" => <<key, 1>> \in emitters
                            /\ worker[<<key, 2>>] = "none"
       /\ \A r \in Requests : emitter[r] \in emitters \cup {NoEmitter}

(* A record needs an emitter to have been emitted on.                       *)
EmittedOnEmitters ==
  /\ \A r \in Requests : emitter[r] = NoEmitter => emitted[r] = 0
  /\ early \subseteq Emitted

(* A worker stops only after its emitter was told to, with an empty queue,  *)
(* and main waits for every emitter an early record was emitted on.         *)
EarlyIsFlushed ==
  /\ \A e \in Emitter : worker[e] \in {"drain", "last", "stopped"} => e \in done
  /\ \A e \in Emitter : worker[e] \in {"last", "stopped"} => ToSet(queue[e]) \cap early = {}
  /\ main # "run" => \A record \in early :
       \/ emitter[record[1]] \in pending
       \/ worker[emitter[record[1]]] = "stopped"
  /\ main = "exited" => pending = {}

IInv ==
  /\ TypeOK
  /\ \A e \in Emitter : HoldsItsOwn(e)
  /\ OneFate
  /\ RegistryKnows
  /\ EmittedOnEmitters
  /\ EarlyIsFlushed
-----------------------------------------------------------------------------
(* Sequences as sets of records.                                            *)
LEMMA ToSetAppend ==
  ASSUME NEW S, NEW s \in Seq(S), NEW x \in S, IsInjective(s), x \notin ToSet(s)
  PROVE  /\ Append(s, x) \in Seq(S)
         /\ ToSet(Append(s, x)) = ToSet(s) \cup {x}
         /\ IsInjective(Append(s, x))
<1>1. /\ Append(s, x) \in Seq(S) /\ Len(s) \in Nat /\ DOMAIN s = 1..Len(s)
      /\ DOMAIN Append(s, x) = 1..Len(s) + 1
      /\ \A i \in 1..Len(s) : Append(s, x)[i] = s[i]
      /\ Append(s, x)[Len(s) + 1] = x
  BY AppendProperties, LenProperties
<1>2. \A i \in 1..Len(s) + 1 : i \in 1..Len(s) \/ i = Len(s) + 1
  BY <1>1
<1>3. 1..Len(s) \subseteq 1..Len(s) + 1 /\ Len(s) + 1 \in 1..Len(s) + 1
  BY <1>1
<1>4. ToSet(Append(s, x)) = ToSet(s) \cup {x}
  BY <1>1, <1>2, <1>3, Zenon DEF ToSet
<1>5. IsInjective(Append(s, x))
  BY <1>1, <1>2, Zenon DEF ToSet, IsInjective
<1> QED
  BY <1>1, <1>4, <1>5

LEMMA ToSetTail ==
  ASSUME NEW S, NEW s \in Seq(S), s # <<>>, IsInjective(s)
  PROVE  /\ Tail(s) \in Seq(S) /\ Len(Tail(s)) = Len(s) - 1
         /\ Head(s) \in S
         /\ ToSet(s) = ToSet(Tail(s)) \cup {Head(s)}
         /\ Head(s) \notin ToSet(Tail(s))
         /\ IsInjective(Tail(s))
<1>1. /\ Len(s) \in Nat /\ Len(s) > 0 /\ DOMAIN s = 1..Len(s)
      /\ Tail(s) \in Seq(S) /\ Len(Tail(s)) = Len(s) - 1 /\ DOMAIN Tail(s) = 1..Len(s) - 1
      /\ Head(s) = s[1] /\ s[1] \in S
      /\ \A i \in 1..Len(s) - 1 : Tail(s)[i] = s[i + 1]
  BY HeadTailProperties, LenProperties, EmptySeq
<1>2. \A i \in 1..Len(s) : i = 1 \/ (i - 1 \in 1..Len(s) - 1 /\ Tail(s)[i - 1] = s[i])
  BY <1>1
<1>3. 1 \in 1..Len(s) /\ \A i \in 1..Len(s) - 1 : i + 1 \in 1..Len(s) /\ i + 1 # 1
  BY <1>1
<1>4. ToSet(s) = ToSet(Tail(s)) \cup {Head(s)}
  <2>1. \A x : (\E i \in 1..Len(s) : x = s[i]) <=>
               (\E i \in 1..Len(s) - 1 : x = Tail(s)[i]) \/ x = s[1]
    <3>1. ASSUME NEW x, NEW i \in 1..Len(s), x = s[i]
          PROVE  (\E j \in 1..Len(s) - 1 : x = Tail(s)[j]) \/ x = s[1]
      BY <1>2, <3>1, Zenon
    <3>2. ASSUME NEW x, NEW i \in 1..Len(s) - 1, x = Tail(s)[i]
          PROVE  \E j \in 1..Len(s) : x = s[j]
      BY <1>1, <1>3, <3>2, Zenon
    <3> QED
      BY <1>3, <3>1, <3>2, Zenon
  <2>2. /\ \A x : x \in ToSet(s) <=> \E i \in 1..Len(s) : x = s[i]
        /\ \A x : x \in ToSet(Tail(s)) <=> \E i \in 1..Len(s) - 1 : x = Tail(s)[i]
    BY <1>1, Zenon DEF ToSet
  <2>3. \A x : x \in ToSet(s) <=> x \in ToSet(Tail(s)) \/ x = s[1]
    BY <2>1, <2>2, Zenon
  <2> QED
    BY <1>1, <2>3
<1>5. Head(s) \notin ToSet(Tail(s))
  <2>1. \A i \in 1..Len(s) - 1 : s[i + 1] # s[1]
    BY <1>1, <1>3 DEF IsInjective
  <2> QED
    BY <1>1, <2>1, Zenon DEF ToSet
<1>6. IsInjective(Tail(s))
  <2>1. SUFFICES ASSUME NEW i \in 1..Len(s) - 1, NEW j \in 1..Len(s) - 1, Tail(s)[i] = Tail(s)[j]
                 PROVE  i = j
    BY <1>1, Zenon DEF IsInjective
  <2>2. i + 1 = j + 1
    <3>1. i + 1 \in DOMAIN s /\ j + 1 \in DOMAIN s
      BY <1>1, <1>3, Zenon
    <3>2. s[i + 1] = s[j + 1]
      BY <1>1, <2>1, Zenon
    <3> QED
      BY <3>1, <3>2, Zenon DEF IsInjective
  <2> QED
    BY <2>2
<1> QED
  BY <1>1, <1>4, <1>5, <1>6

LEMMA ToSetEmpty == ToSet(<<>>) = {} /\ IsInjective(<<>>)
  BY DEF ToSet, IsInjective

(* The first of the queue goes to the end of the batch.                     *)
LEMMA MoveOne ==
  ASSUME NEW S, NEW q \in Seq(S), NEW b \in Seq(S), q # <<>>, IsInjective(q), IsInjective(b),
         ToSet(q) \cap ToSet(b) = {}
  PROVE  /\ Tail(q) \in Seq(S) /\ Append(b, Head(q)) \in Seq(S)
         /\ IsInjective(Tail(q)) /\ IsInjective(Append(b, Head(q)))
         /\ ToSet(Tail(q)) \cap ToSet(Append(b, Head(q))) = {}
         /\ ToSet(Tail(q)) \cup ToSet(Append(b, Head(q))) = ToSet(q) \cup ToSet(b)
         /\ Len(Tail(q)) = Len(q) - 1 /\ Len(Append(b, Head(q))) = Len(b) + 1
<1>1. /\ Tail(q) \in Seq(S) /\ Len(Tail(q)) = Len(q) - 1 /\ Head(q) \in S
      /\ ToSet(q) = ToSet(Tail(q)) \cup {Head(q)}
      /\ Head(q) \notin ToSet(Tail(q)) /\ IsInjective(Tail(q))
  BY ToSetTail
<1>2. /\ Append(b, Head(q)) \in Seq(S) /\ IsInjective(Append(b, Head(q)))
      /\ ToSet(Append(b, Head(q))) = ToSet(b) \cup {Head(q)}
  BY <1>1, ToSetAppend
<1>3. Len(Append(b, Head(q))) = Len(b) + 1
  BY <1>1, AppendProperties
<1> QED
  BY <1>1, <1>2, <1>3

(* What waits is what the queues and batches hold.                          *)
LEMMA WaitingIsHeld ==
  ASSUME TypeOK, NEW e \in Emitter
  PROVE  ToSet(Waiting(e)) = Held(e)
<1> DEFINE q == queue[e]
           b == batch[e]
<1>1. q \in Seq(Record) /\ b \in Seq(Record)
  BY DEF TypeOK
<1> HIDE DEF q, b
<1>2. /\ q \o b \in Seq(Record) /\ Len(q) \in Nat /\ Len(b) \in Nat
      /\ DOMAIN q = 1..Len(q) /\ DOMAIN b = 1..Len(b)
      /\ DOMAIN (q \o b) = 1..Len(q) + Len(b)
      /\ \A i \in 1..Len(q) + Len(b) :
           (q \o b)[i] = IF i <= Len(q) THEN q[i] ELSE b[i - Len(q)]
  BY <1>1, ConcatProperties, LenProperties
<1>3. \A i \in 1..Len(q) + Len(b) :
        \/ i \in 1..Len(q) /\ (q \o b)[i] = q[i]
        \/ i - Len(q) \in 1..Len(b) /\ (q \o b)[i] = b[i - Len(q)]
  BY <1>2
<1>4. /\ \A i \in 1..Len(q) : i \in 1..Len(q) + Len(b) /\ (q \o b)[i] = q[i]
      /\ \A i \in 1..Len(b) : i + Len(q) \in 1..Len(q) + Len(b) /\ (q \o b)[i + Len(q)] = b[i]
  BY <1>2
<1>5. ToSet(q \o b) = ToSet(q) \cup ToSet(b)
  <2>1. \A x : (\E i \in 1..Len(q) + Len(b) : x = (q \o b)[i]) <=>
               (\E i \in 1..Len(q) : x = q[i]) \/ (\E i \in 1..Len(b) : x = b[i])
    BY <1>3, <1>4
  <2> QED
    BY <1>2, <2>1, Zenon DEF ToSet
<1> QED
  BY <1>5 DEF Waiting, Held, q, b

(* Two injective sequences without a common element, one after the other.   *)
LEMMA WaitingOnce ==
  ASSUME TypeOK, NEW e \in Emitter, HoldsItsOwn(e)
  PROVE  IsInjective(Waiting(e))
<1> DEFINE q == queue[e]
           b == batch[e]
<1>1. /\ q \in Seq(Record) /\ b \in Seq(Record)
      /\ IsInjective(q) /\ IsInjective(b) /\ ToSet(q) \cap ToSet(b) = {}
  BY DEF TypeOK, HoldsItsOwn
<1> HIDE DEF q, b
<1>2. /\ Len(q) \in Nat /\ Len(b) \in Nat
      /\ DOMAIN q = 1..Len(q) /\ DOMAIN b = 1..Len(b)
      /\ DOMAIN (q \o b) = 1..Len(q) + Len(b)
      /\ \A i \in 1..Len(q) + Len(b) :
           (q \o b)[i] = IF i <= Len(q) THEN q[i] ELSE b[i - Len(q)]
  BY <1>1, ConcatProperties, LenProperties
<1>3. \A i \in 1..Len(q) + Len(b) :
        \/ i \in 1..Len(q) /\ (q \o b)[i] = q[i]
        \/ i - Len(q) \in 1..Len(b) /\ (q \o b)[i] = b[i - Len(q)]
  BY <1>2
<1>4. \A i \in 1..Len(q), j \in 1..Len(b) : q[i] # b[j]
  BY <1>1, <1>2, Zenon DEF ToSet
<1>5. /\ \A i, j \in 1..Len(q) : q[i] = q[j] => i = j
      /\ \A i, j \in 1..Len(b) : b[i] = b[j] => i = j
  BY <1>1, <1>2, Zenon DEF IsInjective
<1>6. ASSUME NEW i \in 1..Len(q) + Len(b), NEW j \in 1..Len(q) + Len(b), (q \o b)[i] = (q \o b)[j]
      PROVE  i = j
  BY <1>2, <1>3, <1>4, <1>5, <1>6
<1>7. IsInjective(q \o b)
  BY <1>2, <1>6, Zenon DEF IsInjective
<1> QED
  BY <1>7 DEF Waiting, q, b
-----------------------------------------------------------------------------
LEMMA InitIInv ==
  ASSUME Init
  PROVE  IInv
<1> USE AuditEmitterAssumption DEF Init
<1>1. TypeOK
  BY DEF TypeOK, Record
<1>2. \A e \in Emitter : HoldsItsOwn(e) /\ Held(e) = {}
  BY ToSetEmpty DEF HoldsItsOwn, Held
<1>3. Emitted = {}
  BY DEF Emitted, Record
<1>4. OneFate
  BY <1>2, <1>3 DEF OneFate, DroppedAnywhere
<1>5. RegistryKnows /\ EmittedOnEmitters
  BY <1>3 DEF RegistryKnows, EmittedOnEmitters, Emitter
<1>6. EarlyIsFlushed
  BY DEF EarlyIsFlushed
<1> QED
  BY <1>1, <1>2, <1>4, <1>5, <1>6 DEF IInv

(* Records that stay where they are keep their fate.                        *)
LEMMA FatesStay ==
  ASSUME OneFate, UNCHANGED <<emitted, received, failed, dropped>>,
         \A e \in Emitter : Held(e)' = Held(e)
  PROVE  OneFate'
<1>1. (UNION {Held(e) : e \in Emitter})' = UNION {Held(e) : e \in Emitter}
  BY Zenon
<1>2. DroppedAnywhere' = DroppedAnywhere /\ Emitted' = Emitted
  BY DEF DroppedAnywhere, Emitted
<1> QED
  BY <1>1, <1>2 DEF OneFate

LEMMA EarlyEmitters ==
  ASSUME IInv, NEW record \in early
  PROVE  record[1] \in Requests /\ emitter[record[1]] \in Emitter
<1>1. record[1] \in Requests /\ record[2] \in 1..Owners /\ record[2] <= emitted[record[1]]
  BY DEF IInv, EmittedOnEmitters, Emitted, Record
<1>2. emitted[record[1]] # 0
  BY <1>1
<1> QED
  BY <1>1, <1>2 DEF IInv, EmittedOnEmitters, TypeOK

(* A step of one worker disturbs nothing but what its own emitter holds.    *)
LEMMA WorkerStep ==
  ASSUME IInv, NEW e \in Emitter, UNCHANGED <<emitters, requests, exits>>, TypeOK',
         \A d \in Emitter \ {e} : /\ queue'[d] = queue[d] /\ batch'[d] = batch[d]
                                  /\ worker'[d] = worker[d],
         worker[e] \notin {"none", "stopped"}, worker'[e] # "none",
         worker'[e] \in {"drain", "last", "stopped"} => e \in done,
         worker'[e] \in {"last", "stopped"} => ToSet(queue'[e]) \cap early = {},
         HoldsItsOwn(e)', OneFate'
  PROVE  IInv'
<1> USE DEF requests, exits
<1>1. ASSUME NEW d \in Emitter \ {e}
      PROVE  HoldsItsOwn(d)'
  BY <1>1 DEF IInv, HoldsItsOwn, Held
<1>2. RegistryKnows'
  <2>1. \A d \in Emitter : worker'[d] = "none" <=> worker[d] = "none"
    OBVIOUS
  <2>2. emitters \subseteq Emitter /\ \A key \in Keys : <<key, 1>> \in Emitter /\ <<key, 2>> \in Emitter
    BY DEF IInv, TypeOK, Emitter
  <2>3. \A r \in Requests : emitter[r] # NoEmitter => emitter[r] \in Emitter
    BY DEF IInv, TypeOK
  <2> QED
    BY <2>1, <2>2, <2>3 DEF IInv, RegistryKnows
<1>3. EmittedOnEmitters'
  BY DEF IInv, EmittedOnEmitters, Emitted
<1>4. EarlyIsFlushed'
  <2>1. \A record \in early : emitter[record[1]] \in Emitter
    BY EarlyEmitters
  <2>2. \A d \in Emitter : worker'[d] \in {"drain", "last", "stopped"} => d \in done
    BY DEF IInv, EarlyIsFlushed
  <2>3. \A d \in Emitter : worker'[d] \in {"last", "stopped"} => ToSet(queue'[d]) \cap early = {}
    BY DEF IInv, EarlyIsFlushed
  <2>4. \A d \in Emitter : worker[d] = "stopped" => worker'[d] = "stopped"
    OBVIOUS
  <2> QED
    BY <2>1, <2>2, <2>3, <2>4 DEF IInv, EarlyIsFlushed
<1> QED
  BY <1>1, <1>2, <1>3, <1>4 DEF IInv

LEMMA MoveIInv ==
  ASSUME IInv, NEW e \in Emitter, NEW step,
         queue[e] # <<>>,
         queue' = [queue EXCEPT ![e] = Tail(@)],
         batch' = [batch EXCEPT ![e] = Append(@, Head(queue[e]))],
         worker' = [worker EXCEPT ![e] = step],
         \/ worker[e] = "select" /\ step = IF Len(batch'[e]) >= BatchSize THEN "export" ELSE "select"
         \/ worker[e] = "drain" /\ step = "drain",
         UNCHANGED <<emitters, requests, dropped, collected, exits>>
  PROVE  IInv'
<1> USE DEF requests, collected, exits
<1>1. /\ queue \in [Emitter -> Seq(Record)] /\ batch \in [Emitter -> Seq(Record)]
      /\ queue[e] \in Seq(Record) /\ batch[e] \in Seq(Record) /\ HoldsItsOwn(e)
  BY DEF IInv, TypeOK
<1>2. queue'[e] = Tail(queue[e]) /\ batch'[e] = Append(batch[e], Head(queue[e]))
  BY <1>1
<1>3. /\ queue'[e] \in Seq(Record) /\ batch'[e] \in Seq(Record)
      /\ IsInjective(queue'[e]) /\ IsInjective(batch'[e])
      /\ ToSet(queue'[e]) \cap ToSet(batch'[e]) = {}
      /\ ToSet(queue'[e]) \cup ToSet(batch'[e]) = ToSet(queue[e]) \cup ToSet(batch[e])
      /\ Len(queue'[e]) = Len(queue[e]) - 1 /\ Len(batch'[e]) = Len(batch[e]) + 1
  BY <1>1, <1>2, MoveOne DEF HoldsItsOwn
<1>4. Len(queue[e]) \in Nat /\ Len(batch[e]) \in Nat
  BY <1>1, LenProperties
<1>5. \A d \in Emitter \ {e} : /\ queue'[d] = queue[d] /\ batch'[d] = batch[d]
                               /\ worker'[d] = worker[d]
  BY <1>1 DEF IInv, TypeOK
<1>6. worker'[e] = step /\ worker' \in [Emitter -> {"none", "select", "export", "drain", "last", "stopped"}]
  BY DEF IInv, TypeOK
<1>7. TypeOK'
  <2>1. queue' \in [Emitter -> Seq(Record)] /\ batch' \in [Emitter -> Seq(Record)]
    BY <1>1, <1>2, <1>3
  <2>2. \A d \in Emitter : Len(queue'[d]) <= QueueSize
    BY <1>3, <1>4, <1>5, AuditEmitterAssumption DEF IInv, TypeOK
  <2>3. \A d \in Emitter : /\ worker'[d] = "select" => Len(batch'[d]) < BatchSize
                           /\ worker'[d] = "stopped" => batch'[d] = <<>>
    BY <1>3, <1>4, <1>5, <1>6, AuditEmitterAssumption DEF IInv, TypeOK
  <2> QED
    BY <1>6, <2>1, <2>2, <2>3 DEF IInv, TypeOK
<1>8. HoldsItsOwn(e)'
  BY <1>1, <1>3, <1>6 DEF HoldsItsOwn, Held
<1>9. OneFate'
  BY <1>3, <1>5, FatesStay DEF IInv, Held
<1> QED
  BY <1>5, <1>6, <1>7, <1>8, <1>9, WorkerStep DEF IInv, EarlyIsFlushed

(* A worker's change of state that moves no record.                         *)
LEMMA TurnIInv ==
  ASSUME IInv, NEW e \in Emitter, NEW step \in {"export", "drain", "last", "stopped"},
         worker[e] \in {"select", "drain"},
         worker' = [worker EXCEPT ![e] = step],
         step # "export" => e \in done,
         step \in {"last", "stopped"} => queue[e] = <<>>,
         step = "stopped" => batch[e] = <<>>,
         UNCHANGED <<emitters, requests, queue, batch, dropped, collected, exits>>
  PROVE  IInv'
<1> USE DEF requests, collected, exits
<1>1. /\ worker'[e] = step /\ worker' \in [Emitter -> {"none", "select", "export", "drain", "last", "stopped"}]
      /\ \A d \in Emitter \ {e} : worker'[d] = worker[d]
  BY DEF IInv, TypeOK
<1>2. TypeOK'
  BY <1>1 DEF IInv, TypeOK
<1>3. HoldsItsOwn(e)'
  BY <1>1 DEF IInv, HoldsItsOwn, Held
<1>4. OneFate'
  BY FatesStay DEF IInv, Held
<1>5. step \in {"last", "stopped"} => ToSet(queue'[e]) \cap early = {}
  BY ToSetEmpty
<1> QED
  BY <1>1, <1>2, <1>3, <1>4, <1>5, WorkerStep

(* The batch leaves its emitter for the Collector, or is lost.              *)
LEMMA exportIInv ==
  ASSUME IInv, NEW e \in Emitter, export(e)
  PROVE  IInv'
<1> USE DEF requests, collected, exits
<1> DEFINE b == ToSet(batch[e])
<1>1. /\ worker[e] \in {"export", "last"} /\ batch' = [batch EXCEPT ![e] = <<>>]
      /\ worker' = [worker EXCEPT ![e] = IF @ = "last" THEN "stopped" ELSE "select"]
      /\ UNCHANGED <<emitters, requests, queue, dropped, exits>>
      /\ \/ received' = received \cup b /\ UNCHANGED failed
         \/ failed' = failed \cup b /\ UNCHANGED received
  BY DEF export, Working
<1>2. /\ batch'[e] = <<>> /\ worker'[e] = IF worker[e] = "last" THEN "stopped" ELSE "select"
      /\ \A d \in Emitter \ {e} : batch'[d] = batch[d] /\ worker'[d] = worker[d]
      /\ batch' \in [Emitter -> Seq(Record)]
      /\ worker' \in [Emitter -> {"none", "select", "export", "drain", "last", "stopped"}]
  BY <1>1 DEF IInv, TypeOK
<1>3. Held(e)' = Held(e) \ b /\ b \subseteq Held(e) /\ HoldsItsOwn(e)'
  BY <1>1, <1>2, ToSetEmpty DEF IInv, HoldsItsOwn, Held
<1>4. b \subseteq Record
  BY ElementOfSeq, LenProperties DEF IInv, TypeOK, ToSet
<1>5. TypeOK'
  <2>1. received' \subseteq Record /\ failed' \subseteq Record
    BY <1>1, <1>4 DEF IInv, TypeOK
  <2>2. Len(<<>>) < BatchSize
    BY AuditEmitterAssumption
  <2> QED
    BY <1>1, <1>2, <2>1, <2>2 DEF IInv, TypeOK
<1>6. OneFate'
  <2>1. \A d \in Emitter \ {e} : Held(d)' = Held(d) /\ Held(d) \cap Held(e) = {}
    <3>1. \A d \in Emitter : \A record \in Held(d) : emitter[record[1]] = d
      BY DEF IInv, HoldsItsOwn
    <3>2. \A d \in Emitter \ {e} : Held(d)' = Held(d)
      BY <1>1, <1>2 DEF Held
    <3> QED
      BY <3>1, <3>2
  <2>2. (UNION {Held(d) : d \in Emitter})' = (UNION {Held(d) : d \in Emitter}) \ b
    <3>1. \A record : (\E d \in Emitter : record \in Held(d)')
                        <=> (\E d \in Emitter : record \in Held(d)) /\ record \notin b
      BY <1>3, <2>1, Zenon
    <3> QED
      BY <3>1, Zenon
  <2>3. b \subseteq UNION {Held(d) : d \in Emitter}
    BY <1>3
  <2>4. DroppedAnywhere' = DroppedAnywhere /\ Emitted' = Emitted
    BY <1>1 DEF DroppedAnywhere, Emitted
  <2> QED
    BY <1>1, <2>2, <2>3, <2>4 DEF IInv, OneFate
<1> QED
  BY <1>1, <1>2, <1>3, <1>5, <1>6, WorkerStep DEF IInv, EarlyIsFlushed

LEMMA WorkIInv ==
  ASSUME IInv, NEW e \in Emitter, Work(e)
  PROVE  IInv'
<1>1. CASE Take(e)
  <2> DEFINE step == IF Len(batch'[e]) >= BatchSize THEN "export" ELSE "select"
  <2>1. /\ worker[e] = "select" /\ queue[e] # <<>>
        /\ queue' = [queue EXCEPT ![e] = Tail(@)]
        /\ batch' = [batch EXCEPT ![e] = Append(@, Head(queue[e]))]
        /\ worker' = [worker EXCEPT ![e] = step]
        /\ UNCHANGED <<emitters, requests, dropped, collected, exits>>
    BY <1>1 DEF Take, Working
  <2> QED
    BY <2>1, MoveIInv
<1>2. CASE Drain(e)
  <2>1. worker' = [worker EXCEPT ![e] = "drain"]
    BY <1>2 DEF Drain, Working, IInv, TypeOK
  <2> QED
    BY <1>2, <2>1, MoveIInv DEF Drain, Working
<1>3. CASE Tick(e)
  BY <1>3, TurnIInv DEF Tick, Working
<1>4. CASE Stop(e)
  BY <1>4, TurnIInv DEF Stop, Working
<1>5. CASE DrainEnds(e)
  <2> DEFINE step == IF batch[e] = <<>> THEN "stopped" ELSE "last"
  <2>1. e \in done
    BY <1>5 DEF DrainEnds, Working, IInv, EarlyIsFlushed
  <2>2. /\ worker[e] = "drain" /\ queue[e] = <<>> /\ worker' = [worker EXCEPT ![e] = step]
        /\ UNCHANGED <<emitters, requests, queue, batch, dropped, collected, exits>>
    BY <1>5 DEF DrainEnds, Working
  <2> QED
    BY <2>1, <2>2, TurnIInv
<1>6. CASE export(e)
  BY <1>6, exportIInv
<1> QED
  BY <1>1, <1>2, <1>3, <1>4, <1>5, <1>6 DEF Work
-----------------------------------------------------------------------------
(* A new emitter is one that never worked, and so holds nothing.            *)
LEMMA GetIInv ==
  ASSUME IInv, NEW r \in Requests, Get(r)
  PROVE  IInv'
<1> USE DEF requests, collected, exits
<1>1. /\ main # "exited" /\ emitter[r] = NoEmitter
      /\ UNCHANGED <<emitted, queue, batch, dropped, collected, exits, early>>
  BY DEF Get
<1>2. PICK key \in Keys :
        LET registered == {e \in emitters : e[1] = key}
            fresh == IF worker[<<key, 1>>] = "none" THEN <<key, 1>> ELSE <<key, 2>>
        IN IF registered # {}
           THEN /\ emitter' = [emitter EXCEPT ![r] = CHOOSE e \in registered : TRUE]
                /\ UNCHANGED <<emitters, worker>>
           ELSE /\ emitter' = [emitter EXCEPT ![r] = fresh]
                /\ emitters' = emitters \cup {fresh}
                /\ worker' = [worker EXCEPT ![fresh] = "select"]
  BY DEF Get
<1>3. /\ \A k \in Keys : <<k, 1>> \in Emitter /\ <<k, 2>> \in Emitter
      /\ \A e \in Emitter : \E k \in Keys : e = <<k, 1>> \/ e = <<k, 2>>
      /\ NoEmitter \notin Emitter
  BY DEF Emitter, NoEmitter
(* Either way the request gets an emitter that is then registered.          *)
<1>4. PICK e \in Emitter :
        /\ emitter' = [emitter EXCEPT ![r] = e]
        /\ \/ e \in emitters /\ UNCHANGED <<emitters, worker>>
           \/ /\ e \notin emitters /\ worker[e] = "none" /\ emitters' = emitters \cup {e}
              /\ worker' = [worker EXCEPT ![e] = "select"]
              /\ main = "run" => \E k \in Keys : e = <<k, 1>>
  <2> DEFINE registered == {e \in emitters : e[1] = key}
             fresh == IF worker[<<key, 1>>] = "none" THEN <<key, 1>> ELSE <<key, 2>>
  <2>1. CASE registered # {}
    <3>1. (CHOOSE e \in registered : TRUE) \in registered
      BY <2>1
    <3>2. registered \subseteq emitters /\ emitters \subseteq Emitter
      BY DEF IInv, TypeOK
    <3> QED
      BY <1>2, <2>1, <3>1, <3>2
  <2>2. CASE registered = {}
    <3>1. <<key, 1>> \notin emitters /\ <<key, 2>> \notin emitters
      BY <2>2
    <3>2. /\ worker[<<key, 2>>] = "none"
          /\ main = "run" => worker[<<key, 1>>] = "none"
      BY <3>1 DEF IInv, RegistryKnows
    <3>3. /\ fresh \in Emitter /\ fresh \notin emitters /\ worker[fresh] = "none"
          /\ main = "run" => fresh = <<key, 1>>
      BY <1>3, <3>1, <3>2
    <3> QED
      BY <1>2, <2>2, <3>3
  <2> QED
    BY <2>1, <2>2
<1>5. /\ emitter'[r] = e /\ \A q \in Requests \ {r} : emitter'[q] = emitter[q]
      /\ emitter' \in [Requests -> Emitter \cup {NoEmitter}]
  BY <1>4 DEF IInv, TypeOK
<1>6. /\ worker' \in [Emitter -> {"none", "select", "export", "drain", "last", "stopped"}]
      /\ \A d \in Emitter : worker'[d] = worker[d] \/ (d = e /\ worker[d] = "none" /\ worker'[d] = "select")
      /\ emitters' \subseteq Emitter
  BY <1>4 DEF IInv, TypeOK
<1>7. emitted[r] = 0
  BY <1>1 DEF IInv, EmittedOnEmitters
<1>8. TypeOK'
  <2>1. \A d \in Emitter : /\ worker'[d] = "select" => Len(batch[d]) < BatchSize
                           /\ worker'[d] = "stopped" => batch[d] = <<>>
    <3>1. \A d \in Emitter : worker[d] = "none" => Len(batch[d]) < BatchSize
      BY AuditEmitterAssumption DEF IInv, HoldsItsOwn
    <3> QED
      BY <1>6, <3>1 DEF IInv, TypeOK
  <2> QED
    BY <1>1, <1>5, <1>6, <2>1 DEF IInv, TypeOK
<1>9. \A d \in Emitter : HoldsItsOwn(d)'
  <2>1. \A d \in Emitter : \A record \in Held(d) : emitter'[record[1]] = d
    <3>1. \A d \in Emitter : \A record \in Held(d) : record[1] \in Requests
      <4>1. \A d \in Emitter : Held(d) \subseteq Record
        BY ElementOfSeq, LenProperties DEF IInv, TypeOK, Held, ToSet
      <4> QED
        BY <4>1 DEF Record
    <3> QED
      BY <1>1, <1>3, <1>5, <3>1 DEF IInv, HoldsItsOwn
  <2>2. \A d \in Emitter : worker'[d] = "none" => worker[d] = "none"
    BY <1>6
  <2> QED
    BY <1>1, <2>1, <2>2 DEF IInv, HoldsItsOwn, Held
<1>10. OneFate'
  BY <1>1, FatesStay DEF IInv, Held
<1>11. RegistryKnows'
  <2>1. e \in emitters' /\ worker'[e] # "none" /\ emitters' \subseteq emitters \cup {e} /\ emitters \subseteq emitters'
    BY <1>4, <1>6 DEF IInv, RegistryKnows, TypeOK
  <2>2. \A d \in emitters' : worker'[d] # "none"
    BY <1>6, <2>1 DEF IInv, RegistryKnows, TypeOK
  <2>3. \A d \in Emitter : worker'[d] # "none" => worker[d] # "none" \/ d \in emitters'
    BY <1>6, <2>1
  <2>4. \A k \in Keys : worker'[<<k, 2>>] # "none" => <<k, 2>> \in emitters'
    BY <1>3, <2>1, <2>3 DEF IInv, RegistryKnows
  <2>5. ASSUME main = "run"
        PROVE  /\ \A k \in Keys : /\ worker'[<<k, 1>>] # "none" => <<k, 1>> \in emitters'
                                  /\ worker'[<<k, 2>>] = "none"
               /\ \A q \in Requests : emitter'[q] \in emitters' \cup {NoEmitter}
    <3>1. \A k \in Keys : worker'[<<k, 1>>] # "none" => <<k, 1>> \in emitters'
      BY <1>3, <2>1, <2>3, <2>5 DEF IInv, RegistryKnows
    <3>2. \A k \in Keys : worker'[<<k, 2>>] = "none"
      <4>1. \A k \in Keys : worker[<<k, 2>>] = "none" /\ <<k, 2>> \in Emitter
        BY <1>3, <2>5 DEF IInv, RegistryKnows
      <4>2. CASE e \in emitters /\ UNCHANGED <<emitters, worker>>
        BY <4>1, <4>2
      <4>3. CASE \E k \in Keys : e = <<k, 1>>
        <5>1. \A k \in Keys : e # <<k, 2>>
          BY <4>3
        <5> QED
          BY <1>6, <4>1, <5>1
      <4> QED
        BY <1>4, <2>5, <4>2, <4>3
    <3>3. \A q \in Requests : emitter'[q] \in emitters' \cup {NoEmitter}
      BY <1>5, <2>1, <2>5 DEF IInv, RegistryKnows
    <3> QED
      BY <3>1, <3>2, <3>3
  <2>6. \A q \in Requests : emitter'[q] # NoEmitter => worker'[emitter'[q]] # "none"
    <3>1. \A q \in Requests : emitter[q] # NoEmitter => emitter[q] \in Emitter
      BY DEF IInv, TypeOK
    <3> QED
      BY <1>5, <1>6, <2>1, <3>1 DEF IInv, RegistryKnows
  <2> QED
    BY <1>1, <2>2, <2>4, <2>5, <2>6 DEF IInv, RegistryKnows
<1>12. EmittedOnEmitters'
  BY <1>1, <1>3, <1>5 DEF IInv, EmittedOnEmitters, Emitted
<1>13. EarlyIsFlushed'
  <2>1. \A record \in early : /\ record[1] # r /\ emitter'[record[1]] = emitter[record[1]]
                              /\ emitter[record[1]] \in Emitter
    BY <1>1, <1>3, <1>5, EarlyEmitters
  <2> QED
    BY <1>1, <1>6, <2>1 DEF IInv, EarlyIsFlushed
<1> QED
  BY <1>8, <1>9, <1>10, <1>11, <1>12, <1>13 DEF IInv

(* One record more than were emitted goes to the end of the queue of its    *)
(* request's emitter, or is counted as dropped there.                       *)
LEMMA recordAuditIInv ==
  ASSUME IInv, NEW r \in Requests, recordAudit(r)
  PROVE  IInv'
<1> USE DEF requests, collected, exits
<1>1. PICK e \in Emitter : emitter[r] = e
  BY DEF recordAudit, IInv, TypeOK
<1>2. PICK new : new = <<r, emitted[r] + 1>>
  OBVIOUS
<1>3. /\ e # NoEmitter /\ emitted[r] < Owners /\ Emit(r, e)
      /\ emitted' = [emitted EXCEPT ![r] = @ + 1]
      /\ early' = IF main = "run" THEN early \cup {new} ELSE early
      /\ UNCHANGED <<emitters, emitter, batch, worker, received, failed, done, main, pending>>
  BY <1>1, <1>2 DEF recordAudit
<1>4. emitted[r] \in 0..Owners /\ emitted[r] + 1 \in 1..Owners /\ new \in Record
  BY <1>2, <1>3, AuditEmitterAssumption DEF IInv, TypeOK, Record
<1>5. Emitted' = Emitted \cup {new} /\ new \notin Emitted
  <2>1. \A q \in Requests : emitted'[q] = IF q = r THEN emitted[r] + 1 ELSE emitted[q]
    BY <1>3 DEF IInv, TypeOK
  <2>2. \A record \in Record :
          /\ record[1] \in Requests /\ record[2] \in Nat /\ record = <<record[1], record[2]>>
          /\ emitted[record[1]] \in Nat
    BY DEF Record, IInv, TypeOK
  <2>3. \A record \in Record :
          record[2] <= emitted'[record[1]] <=> record[2] <= emitted[record[1]] \/ record = new
    BY <1>2, <1>4, <2>1, <2>2
  <2>4. ~(new[2] <= emitted[new[1]])
    BY <1>2, <1>4
  <2> QED
    BY <1>4, <2>3, <2>4 DEF Emitted
<1>6. new \notin received \cup failed /\ new \notin DroppedAnywhere /\ \A d \in Emitter : new \notin Held(d)
  BY <1>5 DEF IInv, OneFate
<1>7. HoldsItsOwn(e)
  BY <1>4 DEF IInv
(* Where the record goes.                                                   *)
<1>8. /\ queue' \in [Emitter -> Seq(Record)] /\ dropped' \in [Emitter -> SUBSET Record]
      /\ \A d \in Emitter \ {e} : queue'[d] = queue[d] /\ dropped'[d] = dropped[d]
      /\ Len(queue'[e]) <= QueueSize /\ IsInjective(queue'[e])
      /\ \/ ToSet(queue'[e]) = ToSet(queue[e]) \cup {new} /\ dropped'[e] = dropped[e]
         \/ queue'[e] = queue[e] /\ dropped'[e] = dropped[e] \cup {new}
  <2>1. /\ queue \in [Emitter -> Seq(Record)] /\ dropped \in [Emitter -> SUBSET Record]
        /\ queue[e] \in Seq(Record) /\ Len(queue[e]) <= QueueSize /\ IsInjective(queue[e])
        /\ new \notin ToSet(queue[e])
    BY <1>4, <1>6, <1>7 DEF IInv, TypeOK, HoldsItsOwn, Held
  <2>2. CASE Len(queue[e]) < QueueSize
    <3>1. queue' = [queue EXCEPT ![e] = Append(@, new)] /\ dropped' = dropped
      BY <1>3, <1>2, <2>2 DEF Emit
    <3>2. queue'[e] = Append(queue[e], new)
      BY <1>4, <2>1, <3>1
    <3>3. /\ queue'[e] \in Seq(Record) /\ IsInjective(queue'[e])
          /\ ToSet(queue'[e]) = ToSet(queue[e]) \cup {new}
      <4>1. /\ Append(queue[e], new) \in Seq(Record) /\ IsInjective(Append(queue[e], new))
            /\ ToSet(Append(queue[e], new)) = ToSet(queue[e]) \cup {new}
        BY <1>4, <2>1, ToSetAppend
      <4> QED
        BY <3>2, <4>1
    <3>4. Len(queue'[e]) = Len(queue[e]) + 1 /\ Len(queue[e]) \in Nat
      BY <1>4, <2>1, <3>2, AppendProperties, LenProperties
    <3>5. Len(queue'[e]) <= QueueSize
      BY <2>2, <3>4, AuditEmitterAssumption
    <3> QED
      BY <1>4, <2>1, <3>1, <3>3, <3>5
  <2>3. CASE ~(Len(queue[e]) < QueueSize)
    <3>1. dropped' = [dropped EXCEPT ![e] = @ \cup {new}] /\ queue' = queue
      BY <1>3, <1>2, <2>3 DEF Emit
    <3> QED
      BY <1>4, <2>1, <3>1
  <2> QED
    BY <2>2, <2>3
<1>9. TypeOK'
  <2>1. emitted' \in [Requests -> 0..Owners]
    <3>1. emitted \in [Requests -> 0..Owners] /\ emitted[r] + 1 \in 0..Owners
      BY <1>4 DEF IInv, TypeOK
    <3> QED
      BY <1>3, <3>1
  <2>2. early' \subseteq Record
    BY <1>3, <1>4 DEF IInv, TypeOK
  <2>3. ASSUME NEW d \in Emitter
        PROVE  Len(queue'[d]) <= QueueSize
    BY <1>8 DEF IInv, TypeOK
  <2>4. \A d \in Emitter : /\ worker'[d] = "select" => Len(batch'[d]) < BatchSize
                           /\ worker'[d] = "stopped" => batch'[d] = <<>>
    BY <1>3 DEF IInv, TypeOK
  <2> QED
    BY <1>3, <1>8, <2>1, <2>2, <2>3, <2>4 DEF IInv, TypeOK
<1>10. worker[e] # "none"
  BY <1>1, <1>3 DEF IInv, RegistryKnows
<1>11. \A d \in Emitter \ {e} : Held(d)' = Held(d)
  BY <1>3, <1>8 DEF Held
<1>12. \A d \in Emitter : HoldsItsOwn(d)'
  <2>1. ASSUME NEW d \in Emitter \ {e}
        PROVE  HoldsItsOwn(d)'
    BY <1>3, <1>8, <2>1 DEF IInv, HoldsItsOwn, Held
  <2>2. HoldsItsOwn(e)'
    <3>1. emitter[new[1]] = e
      BY <1>1, <1>2
    <3>2. ToSet(queue'[e]) \subseteq ToSet(queue[e]) \cup {new} /\ batch'[e] = batch[e]
      BY <1>3, <1>8
    <3>3. Held(e)' \subseteq Held(e) \cup {new}
      BY <3>2 DEF Held
    <3>4. new \notin ToSet(batch[e]) /\ ToSet(queue[e]) \cap ToSet(batch[e]) = {}
      BY <1>6, <1>7 DEF HoldsItsOwn, Held
    <3>5. ToSet(queue'[e]) \cap ToSet(batch'[e]) = {}
      BY <3>2, <3>4
    <3>6. \A record \in Held(e) : emitter[record[1]] = e
      BY <1>7 DEF HoldsItsOwn
    <3>7. \A record \in Held(e)' : emitter'[record[1]] = e
      BY <1>3, <3>1, <3>3, <3>6
    <3>8. IsInjective(queue'[e]) /\ IsInjective(batch'[e]) /\ worker'[e] # "none"
      BY <1>3, <1>7, <1>8, <1>10, <3>2 DEF HoldsItsOwn
    <3> QED
      BY <3>5, <3>7, <3>8, Zenon DEF HoldsItsOwn
  <2> QED
    BY <2>1, <2>2
<1>13. OneFate'
  <2>1. CASE ToSet(queue'[e]) = ToSet(queue[e]) \cup {new} /\ dropped'[e] = dropped[e]
    <3>1. Held(e)' = Held(e) \cup {new}
      BY <1>3, <2>1 DEF Held
    <3>2. (UNION {Held(d) : d \in Emitter})' = (UNION {Held(d) : d \in Emitter}) \cup {new}
      <4>1. \A record : (\E d \in Emitter : record \in Held(d)')
                           <=> (\E d \in Emitter : record \in Held(d)) \/ record = new
        BY <1>4, <1>11, <3>1, Zenon
      <4> QED
        BY <4>1, Zenon
    <3>3. DroppedAnywhere' = DroppedAnywhere
      BY <1>8, <2>1 DEF DroppedAnywhere
    <3> QED
      BY <1>3, <1>5, <1>6, <3>2, <3>3 DEF IInv, OneFate
  <2>2. CASE queue'[e] = queue[e] /\ dropped'[e] = dropped[e] \cup {new}
    <3>1. (UNION {Held(d) : d \in Emitter})' = UNION {Held(d) : d \in Emitter}
      BY <1>3, <1>11, <2>2 DEF Held
    <3>2. DroppedAnywhere' = DroppedAnywhere \cup {new}
      <4>1. \A record : (\E d \in Emitter : record \in dropped'[d])
                           <=> (\E d \in Emitter : record \in dropped[d]) \/ record = new
        BY <1>4, <1>8, <2>2, Zenon
      <4> QED
        BY <4>1, Zenon DEF DroppedAnywhere
    <3>3. \A d \in Emitter : new \notin Held(d)
      BY <1>6
    <3> QED
      BY <1>3, <1>5, <1>6, <3>1, <3>2, <3>3 DEF IInv, OneFate
  <2> QED
    BY <1>8, <2>1, <2>2
<1>14. RegistryKnows'
  BY <1>3 DEF IInv, RegistryKnows
<1>15. EmittedOnEmitters'
  <2>1. \A q \in Requests : emitter'[q] = NoEmitter => emitted'[q] = 0
    BY <1>1, <1>3 DEF IInv, EmittedOnEmitters, TypeOK
  <2> QED
    BY <1>3, <1>5, <2>1 DEF IInv, EmittedOnEmitters
(* While the program runs no worker is ending; later early does not grow.   *)
<1>16. EarlyIsFlushed'
  <2>1. CASE main = "run"
    BY <1>3, <2>1 DEF IInv, EarlyIsFlushed, RegistryKnows
  <2>2. CASE main # "run"
    <3>1. new \notin early /\ early' = early
      BY <1>3, <1>5, <2>2 DEF IInv, EmittedOnEmitters
    <3>2. \A d \in Emitter : ToSet(queue'[d]) \subseteq ToSet(queue[d]) \cup {new}
      BY <1>8
    <3> QED
      BY <1>3, <3>1, <3>2 DEF IInv, EarlyIsFlushed
  <2> QED
    BY <2>1, <2>2
<1> QED
  BY <1>9, <1>12, <1>13, <1>14, <1>15, <1>16 DEF IInv
-----------------------------------------------------------------------------
(* The steps of the main goroutine move no record and stop no worker.       *)
LEMMA MainIInv ==
  ASSUME IInv, NEW e, ShutdownAll \/ Shutdown(e) \/ ShutdownReturns(e) \/ Exit
  PROVE  IInv'
<1> USE DEF requests, collected
<1>1. UNCHANGED <<emitter, emitted, early, queue, batch, worker, dropped, received, failed>>
  BY DEF ShutdownAll, Shutdown, ShutdownReturns, Exit
<1>2. TypeOK'
  BY <1>1 DEF IInv, TypeOK, ShutdownAll, Shutdown, ShutdownReturns, Exit
<1>3. \A d \in Emitter : HoldsItsOwn(d)'
  BY <1>1 DEF IInv, HoldsItsOwn, Held
<1>4. OneFate'
  BY <1>1, FatesStay DEF IInv, Held
<1>5. RegistryKnows'
  BY <1>1 DEF IInv, RegistryKnows, ShutdownAll, Shutdown, ShutdownReturns, Exit
<1>6. EmittedOnEmitters'
  BY <1>1 DEF IInv, EmittedOnEmitters, Emitted
<1>7. EarlyIsFlushed'
  <2>1. CASE ShutdownAll
    <3>1. \A record \in early : emitter[record[1]] \in emitters
      <4>1. \A record \in early : record[1] \in Requests /\ emitter[record[1]] # NoEmitter
        BY EarlyEmitters DEF Emitter, NoEmitter
      <4> QED
        BY <2>1, <4>1 DEF ShutdownAll, IInv, RegistryKnows
    <3> QED
      BY <1>1, <2>1, <3>1 DEF ShutdownAll, IInv, EarlyIsFlushed
  <2>2. CASE Shutdown(e)
    BY <1>1, <2>2 DEF Shutdown, IInv, EarlyIsFlushed
  <2>3. CASE ShutdownReturns(e)
    BY <1>1, <2>3 DEF ShutdownReturns, IInv, EarlyIsFlushed
  <2>4. CASE Exit
    BY <1>1, <2>4 DEF Exit, IInv, EarlyIsFlushed
  <2> QED
    BY <2>1, <2>2, <2>3, <2>4
<1> QED
  BY <1>2, <1>3, <1>4, <1>5, <1>6, <1>7 DEF IInv

LEMMA StutterIInv ==
  ASSUME IInv, UNCHANGED vars
  PROVE  IInv'
<1> USE DEF vars
<1>1. TypeOK'
  BY DEF IInv, TypeOK
<1>2. \A e \in Emitter : HoldsItsOwn(e)'
  BY DEF IInv, HoldsItsOwn, Held
<1>3. OneFate'
  BY FatesStay DEF IInv, Held
<1>4. RegistryKnows' /\ EmittedOnEmitters' /\ EarlyIsFlushed'
  BY DEF IInv, RegistryKnows, EmittedOnEmitters, Emitted, EarlyIsFlushed
<1> QED
  BY <1>1, <1>2, <1>3, <1>4 DEF IInv

LEMMA NextIInv ==
  ASSUME IInv, [Next]_vars
  PROVE  IInv'
<1>1. ASSUME NEW r \in Requests, Get(r) \/ recordAudit(r)
      PROVE  IInv'
  BY <1>1, GetIInv, recordAuditIInv
<1>2. ASSUME NEW e \in Emitter, Work(e) \/ Shutdown(e) \/ ShutdownReturns(e)
      PROVE  IInv'
  BY <1>2, WorkIInv, MainIInv
<1>3. CASE ShutdownAll \/ Exit
  BY <1>3, MainIInv
<1>4. CASE UNCHANGED vars
  BY <1>4, StutterIInv
<1> QED
  BY <1>1, <1>2, <1>3, <1>4 DEF Next, Terminated

(* Every reachable state satisfies the inductive invariant.                 *)
THEOREM Inductive == Spec => []IInv
<1>1. Init => IInv
  BY InitIInv
<1>2. IInv /\ [Next]_vars => IInv'
  BY NextIInv
<1> QED
  BY <1>1, <1>2, PTL DEF Spec
-----------------------------------------------------------------------------
(* The variables keep their types, the channels their capacity, and a       *)
(* worker that waits or has ended keeps no full or forgotten batch.         *)
THEOREM TypeCorrect == Spec => []TypeOK
<1>1. IInv => TypeOK
  BY DEF IInv
<1> QED
  BY <1>1, Inductive, PTL

(* Every record ever emitted waits once with the emitter of its request, or *)
(* was taken, lost with its batch, or counted as dropped - never two of     *)
(* these (audit.go:239-248, 293-357).                                       *)
THEOREM RecordsAccounted == Spec => []EveryRecordAccounted
<1>1. IInv => EveryRecordAccounted
  <2> SUFFICES ASSUME IInv
               PROVE  EveryRecordAccounted
    OBVIOUS
  <2>1. \A e \in Emitter : ToSet(Waiting(e)) = Held(e) /\ IsInjective(Waiting(e))
    BY WaitingIsHeld, WaitingOnce DEF IInv
  <2>2. WaitingAnywhere = UNION {Held(e) : e \in Emitter}
    BY <2>1, Zenon DEF WaitingAnywhere
  <2>3. \A e \in Emitter : \A record \in ToSet(Waiting(e)) : emitter[record[1]] = e
    BY <2>1 DEF IInv, HoldsItsOwn
  <2> QED
    BY <2>1, <2>2, <2>3 DEF IInv, OneFate, EveryRecordAccounted
<1> QED
  BY <1>1, Inductive, PTL

(* When the process exits no record emitted before the runner returned is   *)
(* still waiting: main waited for the worker of each of their emitters, and *)
(* that worker ended with its queue empty of them (audit.go:184-202,        *)
(* 286-326; main.go:56-76).                                                 *)
THEOREM ExitFlushes == Spec => []FlushedAtExit
<1>1. IInv => FlushedAtExit
  <2> SUFFICES ASSUME IInv, main = "exited", NEW record \in early, NEW e \in Emitter,
                      record \in ToSet(Waiting(e))
               PROVE  FALSE
    BY DEF FlushedAtExit, WaitingAnywhere
  <2>1. record \in Held(e)
    BY WaitingIsHeld DEF IInv
  <2>2. worker[e] = "stopped"
    BY <2>1 DEF IInv, HoldsItsOwn, EarlyIsFlushed
  <2>3. batch[e] = <<>> /\ ToSet(queue[e]) \cap early = {}
    BY <2>2 DEF IInv, TypeOK, EarlyIsFlushed
  <2> QED
    BY <2>1, <2>3, ToSetEmpty DEF Held
<1> QED
  BY <1>1, Inductive, PTL
=============================================================================
