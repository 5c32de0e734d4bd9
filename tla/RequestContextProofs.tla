------------------------ MODULE RequestContextProofs ------------------------
(***************************************************************************)
(* Proofs about what the request phase leaves to the response phase: how   *)
(* long the store keeps it (RequestContextStore, for any requests, cap,    *)
(* batch and TTL), and whom it names (ConsumerIdentity, for any            *)
(* configurations, environments, tokens and paths).                        *)
(***************************************************************************)
EXTENDS RequestContextStore, ConsumerIdentity, FiniteSetTheorems, SequenceTheorems,
        WellFoundedInduction, TLAPS

(* A request whose response is still to come has lost its context only to   *)
(* its age or to an overflow.                                               *)
LossIsExcused ==
  \A k \in Keys : phase[k] \in AtUpstream /\ k \notin held =>
    now > storedAt[k] + TTL \/ overflowed

IInv == TypeOK /\ SizeBounded /\ EveryEntryAccounted /\ LossIsExcused
-----------------------------------------------------------------------------
(* The store is a finite set: it holds contexts of the requests only.       *)
LEMMA HeldIsFinite ==
  ASSUME held \subseteq Keys
  PROVE  IsFiniteSet(held) /\ Cardinality(held) \in Nat
BY RequestContextStoreAssumption, FS_Subset, FS_CardinalityType

(* Removing a part of the store takes as many entries as the part has.      *)
LEMMA RemovalCounts ==
  ASSUME held \subseteq Keys, NEW E \in SUBSET held
  PROVE  /\ IsFiniteSet(E) /\ IsFiniteSet(held \ E)
         /\ Cardinality(E) \in Nat
         /\ Cardinality(held \ E) = Cardinality(held) - Cardinality(E)
         /\ Cardinality(E) <= Cardinality(held)
<1>1. IsFiniteSet(held) /\ Cardinality(held) \in Nat
  BY HeldIsFinite
<1>2. IsFiniteSet(E) /\ Cardinality(E) <= Cardinality(held)
  BY <1>1, FS_Subset
<1>3. IsFiniteSet(held \ E)
  BY <1>1, FS_Subset
<1>4. held \cap E = E
  OBVIOUS
<1>5. Cardinality(held \ E) = Cardinality(held) - Cardinality(E)
  BY <1>1, <1>4, FS_Difference
<1> QED
  BY <1>2, <1>3, <1>5, FS_CardinalityType

(* An overflow frees at least one slot, and only slots that are taken.      *)
LEMMA EvictionFrees ==
  ASSUME held \subseteq Keys, NEW E \in EvictionsForSpace
  PROVE  E \in SUBSET held /\ Cardinality(E) >= 1
<1>1. CASE ExpiredAt(now) # {}
  <2>1. E = ExpiredAt(now) /\ E \in SUBSET held
    BY <1>1 DEF EvictionsForSpace, ExpiredAt
  <2>2. IsFiniteSet(E) /\ Cardinality(E) \in Nat
    BY <2>1, RemovalCounts
  <2>3. Cardinality(E) # 0
    BY <1>1, <2>1, <2>2, FS_EmptySet
  <2> QED
    BY <2>1, <2>2, <2>3
<1>2. CASE ExpiredAt(now) = {}
  BY <1>2, RequestContextStoreAssumption DEF EvictionsForSpace, OldestBatches
<1> QED
  BY <1>1, <1>2

(* The empty store satisfies the invariant.                                 *)
LEMMA InitIInv == Init => IInv
<1> SUFFICES ASSUME Init PROVE IInv
  OBVIOUS
<1>1. TypeOK
  <2>1. storedAt \in [Keys -> 0..now] /\ phase \in [Keys -> Phases]
    BY DEF Init, Phases
  <2>2. now \in 0..MaxTime /\ janitorNow \in 0..now
    BY RequestContextStoreAssumption DEF Init
  <2> QED
    BY <2>1, <2>2 DEF Init, TypeOK
<1>2. Cardinality(held) = 0
  BY FS_EmptySet DEF Init
<1>3. SizeBounded /\ EveryEntryAccounted
  BY <1>2, RequestContextStoreAssumption DEF Init, SizeBounded, EveryEntryAccounted
<1>4. LossIsExcused
  BY DEF Init, LossIsExcused, AtUpstream
<1> QED
  BY <1>1, <1>3, <1>4 DEF IInv
-----------------------------------------------------------------------------
(* Storing a context in the place of the evicted ones.                      *)
LEMMA PutIInv ==
  ASSUME IInv, NEW k \in Keys, Advance(k), NEW E \in SUBSET held, Put(k, E),
         k \notin E,
         k \in held \/ Cardinality(held) - Cardinality(E) < MaxRequestContexts
  PROVE  IInv'
<1> USE RequestContextStoreAssumption
<1>1. held \subseteq Keys
  BY DEF IInv, TypeOK
<1>2. TypeOK'
  <2>1. Cardinality(E) \in Nat
    BY <1>1, RemovalCounts
  <2>2. phase' \in [Keys -> Phases] /\ phase'[k] \in AtUpstream
        /\ \A l \in Keys \ {k} : phase'[l] = phase[l]
    BY DEF Advance, IInv, TypeOK, Phases, AtUpstream
  <2>3. held' \subseteq {l \in Keys : phase'[l] \in AtUpstream \cup {"abandoned"}}
    BY <2>2 DEF Put, IInv, TypeOK
  <2>4. now' \in 0..MaxTime /\ janitorNow' \in 0..now' /\ storedAt' \in [Keys -> 0..now']
    BY DEF Put, IInv, TypeOK
  <2>5. evicted' \in Nat /\ inserted' \in Nat /\ consumed' \in Nat
    BY <2>1 DEF Put, IInv, TypeOK
  <2>6. overflowed' \in BOOLEAN
    BY Zenon DEF Put
  <2>7. janitor' \in {"off", "idle", "sweeping"}
    BY DEF Put, IInv, TypeOK
  <2> QED
    BY <2>2, <2>3, <2>4, <2>5, <2>6, <2>7 DEF TypeOK
<1>3. SizeBounded' /\ EveryEntryAccounted'
  <2> DEFINE left == held \ E
  <2>1. /\ IsFiniteSet(left) /\ Cardinality(left) = Cardinality(held) - Cardinality(E)
        /\ Cardinality(E) \in Nat /\ Cardinality(left) \in Nat
    BY <1>1, RemovalCounts, FS_CardinalityType
  <2>2. held' = left \cup {k}
    BY DEF Put
  <2>3. Cardinality(held') = IF k \in held THEN Cardinality(left)
                                           ELSE Cardinality(left) + 1
    BY <2>1, <2>2, FS_AddElement
  <2>4. Cardinality(held) \in Nat
    BY <1>1, HeldIsFinite
  <2> HIDE DEF left
  <2>5. SizeBounded'
    BY <2>1, <2>3, <2>4 DEF IInv, SizeBounded
  <2>6. EveryEntryAccounted'
    BY <2>1, <2>3, <2>4 DEF IInv, TypeOK, EveryEntryAccounted, Put
  <2> QED
    BY <2>5, <2>6
<1>4. LossIsExcused'
  <2> SUFFICES ASSUME NEW l \in Keys, phase'[l] \in AtUpstream, l \notin held',
                      ~overflowed'
               PROVE  now' > storedAt'[l] + TTL
    BY DEF LossIsExcused
  <2>1. l # k /\ phase'[l] = phase[l] /\ storedAt'[l] = storedAt[l] /\ now' = now
    BY DEF Put, Advance, IInv, TypeOK
  <2>2. ~overflowed /\ E \subseteq ExpiredAt(now)
    BY DEF Put
  <2> QED
    BY <2>1, <2>2 DEF Put, IInv, LossIsExcused, ExpiredAt
<1> QED
  BY <1>2, <1>3, <1>4 DEF IInv

(* Storing a context, with or without making space for it, keeps the        *)
(* invariant.                                                               *)
LEMMA StoreIInv ==
  ASSUME IInv, NEW k \in Keys, StoreRequestContext(k)
  PROVE  IInv'
<1>1. held \subseteq Keys
  BY DEF IInv, TypeOK
<1>2. Advance(k)
  BY DEF StoreRequestContext
<1>3. CASE (Cardinality(held) < MaxRequestContexts \/ k \in held) /\ Put(k, {})
  <2>1. Cardinality({}) = 0 /\ Cardinality(held) \in Nat
    BY <1>1, HeldIsFinite, FS_EmptySet
  <2>2. k \in held \/ Cardinality(held) - Cardinality({}) < MaxRequestContexts
    BY <1>3, <2>1
  <2> QED
    BY <1>2, <1>3, <2>2, PutIInv
<1>4. ASSUME Cardinality(held) >= MaxRequestContexts, k \notin held,
             NEW E \in EvictionsForSpace, Put(k, E)
      PROVE IInv'
  <2>1. E \in SUBSET held /\ Cardinality(E) >= 1
    BY <1>1, EvictionFrees
  <2>2. Cardinality(held) - Cardinality(E) < MaxRequestContexts
    <3>1. Cardinality(held) \in Nat /\ Cardinality(E) \in Nat
      BY <1>1, <2>1, RemovalCounts, HeldIsFinite
    <3> QED
      BY <2>1, <3>1, RequestContextStoreAssumption DEF IInv, SizeBounded
  <2> QED
    BY <1>2, <1>4, <2>1, <2>2, PutIInv
<1> QED
  BY <1>3, <1>4 DEF StoreRequestContext

(* Loading a context, live or expired, keeps the invariant.                 *)
LEMMA LoadIInv ==
  ASSUME IInv, NEW k \in Keys, LoadAndDeleteRequestContext(k)
  PROVE  IInv'
<1> USE RequestContextStoreAssumption
<1>1. held \subseteq Keys /\ Cardinality(held) \in Nat
  BY HeldIsFinite DEF IInv, TypeOK
<1>2. PICK p \in {"gated", "unresolved"} : phase' = [phase EXCEPT ![k] = p]
  BY DEF LoadAndDeleteRequestContext
<1>3. held' = held \ {k} /\ UNCHANGED <<now, storedAt, janitor, janitorNow, inserted, overflowed>>
  BY DEF LoadAndDeleteRequestContext
<1>4. evicted' \in Nat /\ consumed' \in Nat
  BY DEF LoadAndDeleteRequestContext, IInv, TypeOK
<1>5. TypeOK'
  BY <1>2, <1>3, <1>4 DEF IInv, TypeOK, Phases, AtUpstream
<1>6. SizeBounded' /\ EveryEntryAccounted'
  <2>1. CASE k \in held
    <3>1. Cardinality(held') = Cardinality(held) - 1
      BY <1>1, <1>3, <2>1, HeldIsFinite, FS_RemoveElement
    <3>2. \/ consumed' = consumed + 1 /\ evicted' = evicted
          \/ consumed' = consumed /\ evicted' = evicted + 1
      BY <2>1 DEF LoadAndDeleteRequestContext
    <3> QED
      BY <1>1, <1>3, <3>1, <3>2 DEF IInv, TypeOK, SizeBounded, EveryEntryAccounted
  <2>2. CASE k \notin held
    <3>1. held' = held /\ consumed' = consumed /\ evicted' = evicted
      BY <1>3, <2>2 DEF LoadAndDeleteRequestContext, ExpiredAt
    <3> QED
      BY <1>3, <3>1 DEF IInv, SizeBounded, EveryEntryAccounted
  <2> QED
    BY <2>1, <2>2
<1>7. LossIsExcused'
  BY <1>2, <1>3 DEF IInv, TypeOK, LossIsExcused, AtUpstream
<1> QED
  BY <1>5, <1>6, <1>7 DEF IInv

(* A sweep of the janitor keeps the invariant.                              *)
LEMMA SweepIInv ==
  ASSUME IInv, JanitorSweep
  PROVE  IInv'
<1> USE RequestContextStoreAssumption
<1> DEFINE E == ExpiredAt(janitorNow)
<1>1. held \subseteq Keys /\ Cardinality(held) \in Nat /\ E \in SUBSET held
  BY HeldIsFinite DEF IInv, TypeOK, ExpiredAt
<1>2. /\ Cardinality(E) \in Nat
      /\ Cardinality(held \ E) = Cardinality(held) - Cardinality(E)
  BY <1>1, RemovalCounts
<1>3. /\ held' = held \ E /\ evicted' = evicted + Cardinality(E)
      /\ janitor' = "idle"
      /\ UNCHANGED <<now, storedAt, janitorNow, phase, inserted, consumed, overflowed>>
  BY DEF JanitorSweep
<1>4. LossIsExcused'
  <2> SUFFICES ASSUME NEW l \in Keys, phase[l] \in AtUpstream, l \notin held',
                      ~overflowed
               PROVE  now > storedAt[l] + TTL
    BY <1>3 DEF LossIsExcused
  <2>1. CASE l \in held
    BY <1>3, <2>1 DEF ExpiredAt, IInv, TypeOK
  <2>2. CASE l \notin held
    BY <2>2 DEF IInv, LossIsExcused
  <2> QED
    BY <2>1, <2>2
<1> HIDE DEF E
<1>5. TypeOK'
  BY <1>2, <1>3 DEF IInv, TypeOK
<1>6. SizeBounded' /\ EveryEntryAccounted'
  BY <1>1, <1>2, <1>3 DEF IInv, TypeOK, SizeBounded, EveryEntryAccounted
<1> QED
  BY <1>4, <1>5, <1>6 DEF IInv

(* Every step keeps the invariant.                                          *)
LEMMA NextIInv == IInv /\ [Next]_vars => IInv'
<1> SUFFICES ASSUME IInv, [Next]_vars PROVE IInv'
  OBVIOUS
<1> USE RequestContextStoreAssumption
<1>1. ASSUME NEW k \in Keys, StoreRequestContext(k) PROVE IInv'
  BY <1>1, StoreIInv
<1>2. ASSUME NEW k \in Keys, LoadAndDeleteRequestContext(k) PROVE IInv'
  BY <1>2, LoadIInv
<1>3. ASSUME NEW k \in Keys, Abandon(k) PROVE IInv'
  BY <1>3 DEF Abandon, IInv, TypeOK, SizeBounded, EveryEntryAccounted,
              LossIsExcused, Phases, AtUpstream
<1>4. CASE JanitorTick
  BY <1>4 DEF JanitorTick, IInv, TypeOK, SizeBounded, EveryEntryAccounted, LossIsExcused
<1>5. CASE JanitorSweep
  BY <1>5, SweepIInv
<1>6. CASE Tick
  <2>1. TypeOK'
    BY <1>6 DEF Tick, IInv, TypeOK
  <2>2. LossIsExcused'
    BY <1>6 DEF Tick, IInv, TypeOK, LossIsExcused
  <2>3. SizeBounded' /\ EveryEntryAccounted'
    BY <1>6 DEF Tick, IInv, SizeBounded, EveryEntryAccounted
  <2> QED
    BY <2>1, <2>2, <2>3 DEF IInv
<1>7. CASE UNCHANGED vars
  BY <1>7 DEF vars, IInv, TypeOK, SizeBounded, EveryEntryAccounted, LossIsExcused
<1> QED
  BY <1>1, <1>2, <1>3, <1>4, <1>5, <1>6, <1>7 DEF Next, Horizon

(* The invariant of the store holds in every state, for any requests,       *)
(* cap, batch, TTL and clock bound.                                         *)
THEOREM Invariance == Spec => []IInv
<1> QED
  BY InitIInv, NextIInv, PTL DEF Spec
-----------------------------------------------------------------------------
(* TypeOK, for any requests, cap, batch, TTL and clock bound.               *)
THEOREM TypeCorrect == Spec => []TypeOK
<1>1. IInv => TypeOK
  BY DEF IInv
<1> QED
  BY <1>1, Invariance, PTL

(* SizeBounded: the store never exceeds its cap, whatever the cap, the      *)
(* batch, and the number of requests.                                       *)
THEOREM StoreIsBounded == Spec => []SizeBounded
<1>1. IInv => SizeBounded
  BY DEF IInv
<1> QED
  BY <1>1, Invariance, PTL

(* EveryEntryAccounted: contextsEvicted misses no lost entry and counts     *)
(* none twice.                                                              *)
THEOREM EvictionsAreCounted == Spec => []EveryEntryAccounted
<1>1. IInv => EveryEntryAccounted
  BY DEF IInv
<1> QED
  BY <1>1, Invariance, PTL

(* ResponseMatchesAge: a response phase never decides on a stale context    *)
(* and, short of an overflow, always finds a fresh one.                     *)
THEOREM ResponsesMatchAge == Spec => ResponseMatchesAge
<1> DEFINE A == \A k \in Keys :
       /\ phase[k] # "gated" /\ phase'[k] = "gated" => now <= storedAt[k] + TTL
       /\ phase[k] # "unresolved" /\ phase'[k] = "unresolved" =>
            now > storedAt[k] + TTL \/ overflowed
<1>1. IInv /\ [Next]_vars => [A]_vars
  <2> SUFFICES ASSUME IInv, Next, NEW k \in Keys,
                      phase[k] \notin {"gated"} \/ phase[k] \notin {"unresolved"},
                      phase'[k] # phase[k], phase'[k] \in {"gated", "unresolved"}
               PROVE  /\ phase'[k] = "gated" => now <= storedAt[k] + TTL
                      /\ phase'[k] = "unresolved" => now > storedAt[k] + TTL \/ overflowed
    OBVIOUS
  <2>1. LoadAndDeleteRequestContext(k)
    BY DEF Next, StoreRequestContext, Advance, LoadAndDeleteRequestContext, Abandon,
           JanitorTick, JanitorSweep, Tick, Horizon, vars, IInv, TypeOK
  <2> QED
    BY <2>1, RequestContextStoreAssumption
    DEF LoadAndDeleteRequestContext, ExpiredAt, IInv, TypeOK, LossIsExcused
<1> QED
  BY <1>1, Invariance, PTL DEF Spec, ResponseMatchesAge
-----------------------------------------------------------------------------
(* The live contexts that a step takes away from requests it does not       *)
(* answer.                                                                  *)
Lost == {k \in held \ held' : phase'[k] = phase[k] /\ now <= storedAt[k] + TTL}

GivesWay ==
  Lost # {} =>
    /\ Cardinality(held) = MaxRequestContexts /\ ExpiredAt(now) = {}
    /\ Cardinality(Lost) <= Batch
    /\ \A k \in Lost, l \in held \cap held' : storedAt[k] <= storedAt[l]

(* Making room: what is evicted is expired, or else a batch of the oldest.  *)
LEMMA StoreGivesWay ==
  ASSUME IInv, NEW k \in Keys, StoreRequestContext(k)
  PROVE  GivesWay
<1> USE RequestContextStoreAssumption
<1>1. held \subseteq Keys /\ Cardinality(held) \in Nat
  BY HeldIsFinite DEF IInv, TypeOK
<1>2. CASE Put(k, {})
  BY <1>2 DEF Put, Lost, GivesWay
<1>3. ASSUME Cardinality(held) >= MaxRequestContexts, k \notin held,
             NEW E \in EvictionsForSpace, Put(k, E)
      PROVE  GivesWay
  <2>1. held' = (held \ E) \cup {k} /\ Lost \subseteq E
    BY <1>3 DEF Put, Lost
  <2>2. CASE ExpiredAt(now) # {}
    <3>1. E = ExpiredAt(now)
      BY <2>2 DEF EvictionsForSpace
    <3>2. Lost = {}
      BY <1>1, <2>1, <3>1 DEF Lost, ExpiredAt, IInv, TypeOK
    <3> QED
      BY <3>2 DEF GivesWay
  <2>3. CASE ExpiredAt(now) = {}
    <3>1. /\ E \in SUBSET held /\ Cardinality(E) = Batch
          /\ \A x \in E, y \in held \ E : storedAt[x] <= storedAt[y]
      BY <2>3 DEF EvictionsForSpace, OldestBatches
    <3>2. Cardinality(held) = MaxRequestContexts
      BY <1>1, <1>3 DEF IInv, SizeBounded
    <3>3. Cardinality(Lost) <= Batch
      BY <1>1, <2>1, <3>1, RemovalCounts, FS_Subset
    <3>4. held \cap held' \subseteq held \ E
      BY <1>3, <2>1
    <3> QED
      BY <2>1, <2>3, <3>1, <3>2, <3>3, <3>4 DEF GivesWay
  <2> QED
    BY <2>2, <2>3
<1> QED
  BY <1>2, <1>3 DEF StoreRequestContext

(* Whatever else leaves the store has been answered or has expired.         *)
LEMMA NextGivesWay == IInv /\ [Next]_vars => GivesWay
<1> SUFFICES ASSUME IInv, [Next]_vars PROVE GivesWay
  OBVIOUS
<1>1. ASSUME NEW k \in Keys, StoreRequestContext(k) PROVE GivesWay
  BY <1>1, StoreGivesWay
<1>2. ASSUME NEW k \in Keys, LoadAndDeleteRequestContext(k) PROVE Lost = {}
  BY <1>2 DEF LoadAndDeleteRequestContext, Lost, IInv, TypeOK, AtUpstream
<1>3. CASE JanitorSweep
  <2>1. held \subseteq Keys /\ storedAt \in [Keys -> 0..now] /\ now \in Nat /\ janitorNow \in 0..now
    BY DEF IInv, TypeOK
  <2>2. ASSUME NEW l \in held \ held' PROVE ~(now <= storedAt[l] + TTL)
    BY <1>3, <2>1, <2>2, RequestContextStoreAssumption DEF JanitorSweep, ExpiredAt
  <2> QED
    BY <2>2 DEF Lost, GivesWay
<1>4. ASSUME held' = held PROVE Lost = {}
  BY <1>4 DEF Lost
<1> QED
  BY <1>1, <1>2, <1>3, <1>4
  DEF Next, Abandon, JanitorTick, Tick, Horizon, vars, GivesWay

(* OverflowTakesOldest: a live context is taken from its request only by a  *)
(* new one, in a store full of live contexts, at most a batch of them at a  *)
(* time and the oldest first.                                               *)
THEOREM OldestGiveWay == Spec => OverflowTakesOldest
<1> DEFINE A == LET lost == {k \in held \ held' : phase'[k] = phase[k] /\ now <= storedAt[k] + TTL}
                IN lost # {} =>
                     /\ Cardinality(held) = MaxRequestContexts /\ ExpiredAt(now) = {}
                     /\ Cardinality(lost) <= Batch
                     /\ \A k \in lost, l \in held \cap held' : storedAt[k] <= storedAt[l]
<1>1. IInv /\ [Next]_vars => [A]_vars
  BY NextGivesWay DEF GivesWay, Lost
<1> QED
  BY <1>1, Invariance, PTL DEF Spec, OverflowTakesOldest
-----------------------------------------------------------------------------
(* A set of natural numbers that is not empty has a lowest element.         *)
LEMMA LowestNumber ==
  ASSUME NEW S \in SUBSET Nat, S # {}
  PROVE  \E x \in S : \A y \in S : x <= y
<1>1. PICK x \in S : \A y \in S : ~ (<<y, x>> \in OpToRel(<, Nat))
  BY NatLessThanWellFounded, WFMin
<1>2. \A y \in S : ~ (y < x)
  BY <1>1, Zenon DEF OpToRel
<1> QED
  BY <1>2

(* Induction, for a set in the place of a predicate.                        *)
LEMMA Inductively ==
  ASSUME NEW S, 0 \in S, \A n \in Nat : n \in S => n + 1 \in S
  PROVE  Nat \subseteq S
<1>1. SUFFICES ASSUME Nat \ S # {} PROVE FALSE
  OBVIOUS
<1>2. PICK x \in Nat \ S : \A y \in Nat \ S : x <= y
  BY <1>1, LowestNumber
<1>3. x # 0 /\ x - 1 \in Nat /\ x - 1 \notin Nat \ S
  BY <1>2
<1> QED
  BY <1>2, <1>3

(* The loops of the path's walk and of its addresses, each over the items   *)
(* of a sequence: what one turn makes of what the turns before it left.     *)
Turn(loop, left, item) ==
  CASE loop = "indices"   -> Element(left, item)
    [] loop = "walk"      -> Descend(left, item)
    [] loop = "addresses" -> Lengthen(left, item)
    [] loop = "positions" -> Deeper(left)

IsLoop(loop, first, items, n, left) ==
  left = [m \in 0..n |-> IF m = 0 THEN first ELSE Turn(loop, left[m - 1], items[m])]

(* What is left after n turns.                                              *)
After(loop, first, items, n) ==
  (CHOOSE left : IsLoop(loop, first, items, n, left))[n]

(* A loop of any number of turns has a record of what each turn left.       *)
LEMMA LoopRuns ==
  ASSUME NEW loop, NEW first, NEW items
  PROVE  \A n \in Nat : \E left : IsLoop(loop, first, items, n, left)
<1> DEFINE Runs_ == {n \in Nat : \E left : IsLoop(loop, first, items, n, left)}
<1>1. 0 \in Runs_
  <2>1. IsLoop(loop, first, items, 0, [m \in 0..0 |-> first])
    BY DEF IsLoop
  <2> QED
    BY <2>1
<1>2. ASSUME NEW n \in Nat, n \in Runs_ PROVE n + 1 \in Runs_
  <2>1. PICK left : IsLoop(loop, first, items, n, left)
    BY <1>2
  <2> DEFINE next == [m \in 0..(n + 1) |->
                        IF m = n + 1 THEN Turn(loop, left[n], items[n + 1]) ELSE left[m]]
  <2>2. \A m \in 0..n : left[m] = IF m = 0 THEN first ELSE Turn(loop, left[m - 1], items[m])
    BY <2>1, Zenon DEF IsLoop
  <2>3. /\ next[n + 1] = Turn(loop, left[n], items[n + 1])
        /\ \A m \in 0..n : next[m] = left[m]
        /\ next = [m \in 0..(n + 1) |-> next[m]]
    OBVIOUS
  <2> HIDE DEF next
  <2>4. ASSUME NEW m \in 0..(n + 1)
        PROVE  next[m] = IF m = 0 THEN first ELSE Turn(loop, next[m - 1], items[m])
    <3>1. CASE m = n + 1
      <4>1. m # 0 /\ m - 1 = n /\ n \in 0..n
        BY <3>1
      <4>2. next[m - 1] = left[n]
        BY <2>3, <4>1
      <4>3. next[m] = Turn(loop, left[n], items[m])
        BY <2>3, <3>1
      <4> QED
        BY <4>1, <4>2, <4>3
    <3>2. CASE m # n + 1
      <4>1. m \in 0..n /\ (m # 0 => m - 1 \in 0..n)
        BY <3>2
      <4> QED
        BY <2>2, <2>3, <4>1
    <3> QED
      BY <3>1, <3>2
  <2>5. IsLoop(loop, first, items, n + 1, next)
    BY <2>3, <2>4, Zenon DEF IsLoop
  <2> QED
    BY <2>5
<1>3. Nat \subseteq Runs_
  <2> HIDE DEF Runs_
  <2> QED
    BY <1>1, <1>2, Inductively
<1> QED
  BY <1>3

(* Two runs of a loop agree on the turns both have taken.                   *)
LEMMA LoopsAgree ==
  ASSUME NEW loop, NEW first, NEW items, NEW n \in Nat, NEW k \in Nat, NEW f, NEW g,
         IsLoop(loop, first, items, n, f), IsLoop(loop, first, items, k, g)
  PROVE  \A m \in Nat : m <= n /\ m <= k => f[m] = g[m]
<1> DEFINE Same == {m \in Nat : m <= n /\ m <= k => f[m] = g[m]}
<1>1. /\ \A m \in 0..n : f[m] = IF m = 0 THEN first ELSE Turn(loop, f[m - 1], items[m])
      /\ \A m \in 0..k : g[m] = IF m = 0 THEN first ELSE Turn(loop, g[m - 1], items[m])
  BY Zenon DEF IsLoop
<1>2. 0 \in Same
  BY <1>1
<1>3. ASSUME NEW m \in Nat, m \in Same PROVE m + 1 \in Same
  BY <1>1, <1>3
<1>4. Nat \subseteq Same
  <2> HIDE DEF Same
  <2> QED
    BY <1>2, <1>3, Inductively
<1> QED
  BY <1>4

(* The loop's first state, and its next.                                    *)
LEMMA LoopTurns ==
  ASSUME NEW loop, NEW first, NEW items, NEW n \in Nat
  PROVE  /\ After(loop, first, items, 0) = first
         /\ After(loop, first, items, n + 1) =
              Turn(loop, After(loop, first, items, n), items[n + 1])
<1> DEFINE Loop(m) == CHOOSE left : IsLoop(loop, first, items, m, left)
<1>1. ASSUME NEW m \in Nat
      PROVE  IsLoop(loop, first, items, m, Loop(m)) /\ After(loop, first, items, m) = Loop(m)[m]
  BY LoopRuns DEF After
<1> HIDE DEF Loop
<1>2. After(loop, first, items, 0) = first
  BY <1>1 DEF IsLoop
<1>3. Loop(n + 1)[n] = Loop(n)[n]
  BY <1>1, LoopsAgree
<1>4. IsLoop(loop, first, items, n + 1, Loop(n + 1))
  BY <1>1
<1>5. \A m \in 0..(n + 1) : Loop(n + 1)[m] =
        IF m = 0 THEN first ELSE Turn(loop, Loop(n + 1)[m - 1], items[m])
  BY <1>4, Zenon DEF IsLoop
<1>6. Loop(n + 1)[n + 1] = Turn(loop, Loop(n + 1)[n], items[n + 1])
  BY <1>5
<1>7. /\ After(loop, first, items, n) = Loop(n)[n]
      /\ After(loop, first, items, n + 1) = Loop(n + 1)[n + 1]
  BY <1>1
<1> QED
  BY <1>2, <1>3, <1>6, <1>7

(* The record of a loop ends in what is left after its turns.               *)
LEMMA LoopIsAfter ==
  ASSUME NEW loop, NEW first, NEW items, NEW n \in Nat, NEW left,
         IsLoop(loop, first, items, n, left)
  PROVE  left[n] = After(loop, first, items, n)
BY LoopRuns, LoopsAgree DEF After

(* Each definition is its loop after the last item.                         *)
LEMMA ElementAtLoops ==
  ASSUME NEW node, NEW indices, Len(indices) \in Nat
  PROVE  ElementAt(node, indices) = After("indices", node, indices, Len(indices))
<1> DEFINE N == Len(indices)
           R(left) == left = [m \in 0..N |-> IF m = 0 THEN node
                                             ELSE Element(left[m - 1], indices[m])]
           it == CHOOSE left : R(left)
<1>1. ASSUME NEW left PROVE R(left) <=> IsLoop("indices", node, indices, N, left)
  BY DEF IsLoop, Turn
<1>2. \E left : R(left)
  BY <1>1, LoopRuns
<1>3. R(it)
  BY <1>2
<1>4. ElementAt(node, indices) = it[N]
  BY DEF ElementAt
<1> HIDE DEF it, R
<1>5. IsLoop("indices", node, indices, N, it)
  BY <1>1, <1>3
<1> QED
  BY <1>4, <1>5, LoopIsAfter

(* The walk down a path is its loop after the last segment.                 *)
LEMMA WalkLoops ==
  ASSUME NEW node, NEW path, Len(path) \in Nat
  PROVE  Walk(node, path) = After("walk", node, path, Len(path))
<1> DEFINE R(left) == left = [m \in 0..Len(path) |-> IF m = 0 THEN node ELSE Descend(left[m - 1], path[m])]
           it == CHOOSE left : R(left)
<1>1. ASSUME NEW left PROVE R(left) <=> IsLoop("walk", node, path, Len(path), left)
  BY DEF IsLoop, Turn
<1>2. \E left : R(left)
  BY <1>1, LoopRuns
<1>3. R(it)
  BY <1>2
<1>4. Walk(node, path) = it[Len(path)]
  BY DEF Walk
<1> HIDE DEF it, R
<1>5. IsLoop("walk", node, path, Len(path), it)
  BY <1>1, <1>3
<1> QED
  BY <1>4, <1>5, LoopIsAfter

(* The addresses of a path are their loop after the last segment.           *)
LEMMA AddressesLoops ==
  ASSUME NEW path, Len(path) \in Nat
  PROVE  Addresses(path) = After("addresses", {<<>>}, path, Len(path))
<1> DEFINE R(left) == left = [m \in 0..Len(path) |-> IF m = 0 THEN {<<>>} ELSE Lengthen(left[m - 1], path[m])]
           it == CHOOSE left : R(left)
<1>1. ASSUME NEW left PROVE R(left) <=> IsLoop("addresses", {<<>>}, path, Len(path), left)
  BY DEF IsLoop, Turn
<1>2. \E left : R(left)
  BY <1>1, LoopRuns
<1>3. R(it)
  BY <1>2
<1>4. Addresses(path) = it[Len(path)]
  BY DEF Addresses
<1> HIDE DEF it, R
<1>5. IsLoop("addresses", {<<>>}, path, Len(path), it)
  BY <1>1, <1>3
<1> QED
  BY <1>4, <1>5, LoopIsAfter

(* The positions of a depth are their loop after that many turns.           *)
LEMMA PositionsLoops ==
  ASSUME NEW root, NEW depth \in Nat
  PROVE  Positions(root, depth) = After("positions", {<< <<>>, root >>}, <<>>, depth)
<1> DEFINE R(left) == left = [m \in 0..depth |-> IF m = 0 THEN {<< <<>>, root >>} ELSE Deeper(left[m - 1])]
           it == CHOOSE left : R(left)
<1>1. ASSUME NEW left PROVE R(left) <=> IsLoop("positions", {<< <<>>, root >>}, <<>>, depth, left)
  BY DEF IsLoop, Turn
<1>2. \E left : R(left)
  BY <1>1, LoopRuns
<1>3. R(it)
  BY <1>2
<1>4. Positions(root, depth) = it[depth]
  BY DEF Positions
<1> HIDE DEF it, R
<1>5. IsLoop("positions", {<< <<>>, root >>}, <<>>, depth, it)
  BY <1>1, <1>3
<1> QED
  BY <1>4, <1>5, LoopIsAfter

(* A prefix of the items is all that the turns so far have seen.            *)
LEMMA LoopsOfPrefix ==
  ASSUME NEW loop, NEW first, NEW items, NEW others, NEW k \in Nat,
         \A m \in 1..k : items[m] = others[m]
  PROVE  After(loop, first, items, k) = After(loop, first, others, k)
<1> DEFINE Same == {n \in Nat : n <= k =>
                      After(loop, first, items, n) = After(loop, first, others, n)}
<1>1. 0 \in Same
  <2>1. After(loop, first, items, 0) = first /\ After(loop, first, others, 0) = first
    BY LoopTurns
  <2> QED
    BY <2>1
<1>2. ASSUME NEW n \in Nat, n \in Same PROVE n + 1 \in Same
  <2>1. CASE n + 1 <= k
    <3>1. items[n + 1] = others[n + 1]
      BY <2>1
    <3>2. After(loop, first, items, n) = After(loop, first, others, n)
      BY <1>2, <2>1
    <3>3. /\ After(loop, first, items, n + 1) =
               Turn(loop, After(loop, first, items, n), items[n + 1])
          /\ After(loop, first, others, n + 1) =
               Turn(loop, After(loop, first, others, n), others[n + 1])
      BY LoopTurns
    <3> QED
      BY <3>1, <3>2, <3>3
  <2> QED
    BY <2>1
<1>3. Nat \subseteq Same
  <2> HIDE DEF Same
  <2> QED
    BY <1>1, <1>2, Inductively
<1> QED
  BY <1>3

(* One index more leads one element further.                                *)
LEMMA ElementAtNext ==
  ASSUME NEW node, NEW V, NEW indices \in Seq(V), NEW index
  PROVE  /\ ElementAt(node, <<>>) = node
         /\ ElementAt(node, Append(indices, index)) = Element(ElementAt(node, indices), index)
<1> DEFINE more == Append(indices, index)
           N == Len(indices)
<1>1. /\ N \in Nat /\ Len(more) = N + 1 /\ more[N + 1] = index
      /\ \A m \in 1..N : more[m] = indices[m]
  OBVIOUS
<1> HIDE DEF more
<1>2. After("indices", node, more, N) = After("indices", node, indices, N)
  BY <1>1, LoopsOfPrefix
<1>3. After("indices", node, more, N + 1) = Element(After("indices", node, more, N), index)
  <2>1. After("indices", node, more, N + 1) =
          Turn("indices", After("indices", node, more, N), more[N + 1])
    BY <1>1, LoopTurns, SMTT(30)
  <2> QED
    BY <1>1, <2>1 DEF Turn
<1>4. ElementAt(node, indices) = After("indices", node, indices, N)
  BY <1>1, ElementAtLoops
<1>5. ElementAt(node, more) = After("indices", node, more, N + 1)
  BY <1>1, ElementAtLoops
<1>6. ElementAt(node, <<>>) = After("indices", node, <<>>, 0)
  BY ElementAtLoops
<1>7. After("indices", node, <<>>, 0) = node
  BY LoopTurns
<1> QED
  BY <1>2, <1>3, <1>4, <1>5, <1>6, <1>7 DEF more

(* At depth 0 there is the root only.                                       *)
LEMMA PositionsFirst ==
  ASSUME NEW root
  PROVE  Positions(root, 0) = {<< <<>>, root >>}
<1>1. Positions(root, 0) = After("positions", {<< <<>>, root >>}, <<>>, 0)
  BY PositionsLoops
<1>2. After("positions", {<< <<>>, root >>}, <<>>, 0) = {<< <<>>, root >>}
  BY LoopTurns
<1> QED
  BY <1>1, <1>2

(* The positions of a depth are the children of those one level up.         *)
LEMMA PositionsNext ==
  ASSUME NEW root, NEW depth \in Nat, NEW p
  PROVE  p \in Positions(root, depth + 1) <=>
           \E q \in Positions(root, depth) :
             \E c \in Children(q[2]) : p = <<Append(q[1], c[1]), c[2]>>
<1> DEFINE top == {<< <<>>, root >>}
<1>1. /\ Positions(root, depth) = After("positions", top, <<>>, depth)
      /\ Positions(root, depth + 1) = After("positions", top, <<>>, depth + 1)
  BY PositionsLoops
<1> HIDE DEF top
<1>2. After("positions", top, <<>>, depth + 1) =
        Turn("positions", After("positions", top, <<>>, depth), <<>>[depth + 1])
  BY LoopTurns
<1>3. Positions(root, depth + 1) = Deeper(Positions(root, depth))
  BY <1>1, <1>2 DEF Turn
<1>4. ASSUME NEW S
      PROVE  p \in Deeper(S) <=>
               \E q \in S : \E c \in Children(q[2]) : p = <<Append(q[1], c[1]), c[2]>>
  <2>1. ASSUME p \in Deeper(S)
        PROVE  \E q \in S : \E c \in Children(q[2]) : p = <<Append(q[1], c[1]), c[2]>>
    <3>1. PICK q \in S : p \in {<<Append(q[1], c[1]), c[2]>> : c \in Children(q[2])}
      BY <2>1 DEF Deeper
    <3> QED
      BY <3>1
  <2>2. ASSUME NEW q \in S, NEW c \in Children(q[2]), p = <<Append(q[1], c[1]), c[2]>>
        PROVE  p \in Deeper(S)
    <3>1. p \in {<<Append(q[1], d[1]), d[2]>> : d \in Children(q[2])}
      BY <2>2
    <3> QED
      BY <3>1, Zenon DEF Deeper
  <2> QED
    BY <2>1, <2>2
<1> QED
  BY <1>3, <1>4

(* Two sequences with an item appended are equal only item by item.         *)
LEMMA AppendTakesApart ==
  ASSUME NEW V, NEW W, NEW s \in Seq(V), NEW t \in Seq(W), NEW a, NEW b,
         Append(s, a) = Append(t, b)
  PROVE  s = t /\ a = b
<1>1. Len(s) + 1 = Len(t) + 1 /\ Len(s) \in Nat /\ Len(t) \in Nat
  <2>1. Len(Append(s, a)) = Len(s) + 1 /\ Len(Append(t, b)) = Len(t) + 1
    OBVIOUS
  <2> QED
    BY <2>1
<1>2. Append(s, a)[Len(s) + 1] = a /\ Append(t, b)[Len(t) + 1] = b
  OBVIOUS
<1>3. ASSUME NEW i \in 1..Len(s) PROVE s[i] = t[i]
  <2>1. Append(s, a)[i] = s[i] /\ Append(t, b)[i] = t[i]
    BY <1>1
  <2> QED
    BY <2>1
<1>4. s \in Seq(V \cup W) /\ t \in Seq(V \cup W)
  OBVIOUS
<1> QED
  BY <1>1, <1>2, <1>3, <1>4

(* The address of a position is a sequence as long as the position is deep. *)
LEMMA PositionsAreAddressed ==
  ASSUME NEW root
  PROVE  \A depth \in Nat : \A p \in Positions(root, depth) :
           \E V : p[1] \in Seq(V) /\ Len(p[1]) = depth
<1> DEFINE Good == {depth \in Nat : \A p \in Positions(root, depth) :
                                     \E V : p[1] \in Seq(V) /\ Len(p[1]) = depth}
<1>1. 0 \in Good
  <2>1. ASSUME NEW p \in Positions(root, 0) PROVE p[1] \in Seq({}) /\ Len(p[1]) = 0
    <3>1. p = << <<>>, root >>
      BY PositionsFirst
    <3>2. p[1] = <<>>
      BY <3>1
    <3> QED
      BY <3>2
  <2> QED
    BY <2>1
<1>2. ASSUME NEW n \in Nat, n \in Good PROVE n + 1 \in Good
  <2>1. SUFFICES ASSUME NEW p \in Positions(root, n + 1)
                 PROVE  \E V : p[1] \in Seq(V) /\ Len(p[1]) = n + 1
    OBVIOUS
  <2>2. PICK q \in Positions(root, n) : \E c \in Children(q[2]) : p = <<Append(q[1], c[1]), c[2]>>
    BY <2>1, PositionsNext
  <2>6. PICK c \in Children(q[2]) : p = <<Append(q[1], c[1]), c[2]>>
    BY <2>2
  <2>3. PICK V : q[1] \in Seq(V) /\ Len(q[1]) = n
    BY <1>2
  <2>4. q[1] \in Seq(V \cup {c[1]})
    BY <2>3
  <2>5. Append(q[1], c[1]) \in Seq(V \cup {c[1]}) /\ Len(Append(q[1], c[1])) = n + 1
    BY <2>3, <2>4
  <2> QED
    BY <2>6, <2>5
<1>3. Nat \subseteq Good
  <2> HIDE DEF Good
  <2> QED
    BY <1>1, <1>2, Inductively
<1> QED
  BY <1>3

(* The children of a node that a step of an address leads to.               *)
Below(node, step) == {c[2] : c \in {c \in Children(node) : c[1] = step}}

(* What an address holds: the root, at the empty one, and one step          *)
(* further what is below what was held.                                     *)
LEMMA ValuesAtNext ==
  ASSUME NEW root, NEW V, NEW address \in Seq(V), NEW step
  PROVE  /\ ValuesAt(root, <<>>) = {root}
         /\ \A y : y \in ValuesAt(root, Append(address, step)) <=>
                   \E v \in ValuesAt(root, address) : y \in Below(v, step)
<1>1. ValuesAt(root, <<>>) = {root}
  <2>1. ValuesAt(root, <<>>) = {p[2] : p \in {p \in Positions(root, 0) : p[1] = <<>>}}
    BY DEF ValuesAt
  <2> DEFINE top == << <<>>, root >>
  <2>2. top[1] = <<>> /\ top[2] = root
    OBVIOUS
  <2> HIDE DEF top
  <2>3. Positions(root, 0) = {top}
    BY PositionsFirst DEF top
  <2> QED
    BY <2>1, <2>2, <2>3
<1> DEFINE N == Len(address)
           more == Append(address, step)
<1>2. N \in Nat /\ Len(more) = N + 1
  OBVIOUS
<1>3. \A v : v \in ValuesAt(root, address) <=> \E p \in Positions(root, N) : p[1] = address /\ v = p[2]
  BY DEF ValuesAt
<1>4. \A v : v \in ValuesAt(root, more) <=> \E p \in Positions(root, N + 1) : p[1] = more /\ v = p[2]
  BY <1>2 DEF ValuesAt
<1>5. \A p : p \in Positions(root, N + 1) <=>
        \E q \in Positions(root, N) : \E c \in Children(q[2]) : p = <<Append(q[1], c[1]), c[2]>>
  BY <1>2, PositionsNext
<1>6. ASSUME NEW q \in Positions(root, N), NEW s, Append(q[1], s) = more
      PROVE  q[1] = address /\ s = step
  <2>1. PICK W : q[1] \in Seq(W)
    BY <1>2, PositionsAreAddressed
  <2> QED
    BY <1>6, <2>1, AppendTakesApart
<1>7. ASSUME NEW v \in ValuesAt(root, more)
      PROVE  \E u \in ValuesAt(root, address) : v \in Below(u, step)
  <2>0. PICK q \in Positions(root, N) :
          \E c \in Children(q[2]) : Append(q[1], c[1]) = more /\ v = c[2]
    BY <1>4, <1>5
  <2>1. PICK c \in Children(q[2]) : Append(q[1], c[1]) = more /\ v = c[2]
    BY <2>0
  <2>2. q[1] = address /\ c[1] = step
    BY <1>6, <2>1
  <2> QED
    BY <1>3, <2>1, <2>2 DEF Below
<1>8. ASSUME NEW u \in ValuesAt(root, address), NEW v \in Below(u, step)
      PROVE  v \in ValuesAt(root, more)
  <2>1. PICK q \in Positions(root, N) : q[1] = address /\ u = q[2]
    BY <1>3
  <2>2. PICK c \in Children(u) : c[1] = step /\ v = c[2]
    BY DEF Below
  <2>3. <<more, v>> \in Positions(root, N + 1)
    BY <1>5, <2>1, <2>2
  <2> QED
    BY <1>4, <2>3
<1> HIDE DEF more
<1>9. \A y : y \in ValuesAt(root, more) <=> \E v \in ValuesAt(root, address) : y \in Below(v, step)
  BY <1>7, <1>8
<1> QED
  BY <1>1, <1>9 DEF more

(* Nothing is below what is absent.                                         *)
LEMMA NothingBelowAbsent ==
  /\ Children(Absent) = {}
  /\ \A step : Below(Absent, step) = {}
  /\ \A i : Element(Absent, i) = Absent
  /\ \A n : Member(Absent, n) = Absent
<1>1. Absent.kind = "absent"
  BY DEF Absent
<1>2. Children(Absent) = {}
  BY <1>1 DEF Children
<1>3. \A step : Below(Absent, step) = {}
  BY <1>2 DEF Below
<1>4. \A i : Element(Absent, i) = Absent
  BY <1>1 DEF Element
<1>5. \A n : Member(Absent, n) = Absent
  BY <1>1 DEF Member, descendIntoObject
<1> QED
  BY <1>2, <1>3, <1>4, <1>5

(* Below a node, a name leads to the member of an object.                   *)
LEMMA BelowName ==
  ASSUME NEW node, NEW n, NEW x
  PROVE  x \in Below(node, Name(n)) <=>
           node.kind = "object" /\ n \in DOMAIN node.members /\ x = node.members[n]
<1>1. x \in Below(node, Name(n)) <=> \E c \in Children(node) : c[1] = Name(n) /\ x = c[2]
  BY DEF Below
<1>2. CASE node.kind = "object"
  <2>1. Children(node) = {<<Name(m), node.members[m]>> : m \in DOMAIN node.members}
    BY <1>2 DEF Children
  <2>2. \A m : Name(m) = Name(n) <=> m = n
    BY DEF Name
  <2>3. \A c : c \in Children(node) <=>
          \E m \in DOMAIN node.members : c = <<Name(m), node.members[m]>>
    BY <2>1
  <2>4. ASSUME NEW c \in Children(node), c[1] = Name(n), x = c[2]
        PROVE  n \in DOMAIN node.members /\ x = node.members[n]
    <3>1. PICK m \in DOMAIN node.members : c = <<Name(m), node.members[m]>>
      BY <2>3
    <3>2. c[1] = Name(m) /\ c[2] = node.members[m]
      BY <3>1
    <3> QED
      BY <2>2, <2>4, <3>2
  <2>5. ASSUME n \in DOMAIN node.members, x = node.members[n]
        PROVE  \E c \in Children(node) : c[1] = Name(n) /\ x = c[2]
    <3> DEFINE c == <<Name(n), node.members[n]>>
    <3>1. c[1] = Name(n) /\ c[2] = node.members[n]
      OBVIOUS
    <3>2. c \in Children(node)
      BY <2>3, <2>5
    <3> QED
      BY <2>5, <3>1, <3>2
  <2> QED
    BY <1>1, <1>2, <2>4, <2>5
<1>3. CASE node.kind = "array"
  <2>1. Children(node) = {<<Index(i), node.items[i + 1]>> : i \in 0..(Len(node.items) - 1)}
    BY <1>3 DEF Children
  <2>2. \A i : Index(i) # Name(n)
    BY DEF Index, Name
  <2> QED
    BY <1>1, <1>3, <2>1, <2>2
<1>4. CASE node.kind \notin {"object", "array"}
  BY <1>1, <1>4 DEF Children
<1> QED
  BY <1>2, <1>3, <1>4

(* Below a node, an index leads to the element of an array.                 *)
LEMMA BelowIndex ==
  ASSUME NEW node, NEW i, NEW x, x # Absent
  PROVE  x \in Below(node, Index(i)) <=> x = Element(node, i)
<1>1. x \in Below(node, Index(i)) <=> \E c \in Children(node) : c[1] = Index(i) /\ x = c[2]
  BY DEF Below
<1>2. CASE node.kind = "object"
  <2>1. Children(node) = {<<Name(m), node.members[m]>> : m \in DOMAIN node.members}
    BY <1>2 DEF Children
  <2>2. \A m : Name(m) # Index(i)
    BY DEF Index, Name
  <2>3. Element(node, i) = Absent
    BY <1>2 DEF Element
  <2> QED
    BY <1>1, <2>1, <2>2, <2>3
<1>3. CASE node.kind = "array"
  <2>1. Children(node) = {<<Index(j), node.items[j + 1]>> : j \in 0..(Len(node.items) - 1)}
    BY <1>3 DEF Children
  <2>2. \A j : Index(j) = Index(i) <=> j = i
    BY DEF Index
  <2>3. x = Element(node, i) <=> i \in 0..(Len(node.items) - 1) /\ x = node.items[i + 1]
    BY <1>3 DEF Element
  <2>4. \A c : c \in Children(node) <=>
          \E j \in 0..(Len(node.items) - 1) : c = <<Index(j), node.items[j + 1]>>
    BY <2>1
  <2>5. ASSUME NEW c \in Children(node), c[1] = Index(i), x = c[2] PROVE x = Element(node, i)
    <3>1. PICK j \in 0..(Len(node.items) - 1) : c = <<Index(j), node.items[j + 1]>>
      BY <2>4
    <3>2. c[1] = Index(j) /\ c[2] = node.items[j + 1]
      BY <3>1
    <3> QED
      BY <2>2, <2>3, <2>5, <3>2
  <2>6. ASSUME i \in 0..(Len(node.items) - 1), x = node.items[i + 1]
        PROVE  \E c \in Children(node) : c[1] = Index(i) /\ x = c[2]
    <3> DEFINE c == <<Index(i), node.items[i + 1]>>
    <3>1. c[1] = Index(i) /\ c[2] = node.items[i + 1]
      OBVIOUS
    <3>2. c \in Children(node)
      BY <2>4, <2>6
    <3> QED
      BY <2>6, <3>1, <3>2
  <2> QED
    BY <1>1, <2>3, <2>5, <2>6
<1>4. CASE node.kind \notin {"object", "array"}
  BY <1>1, <1>4 DEF Children, Element
<1> QED
  BY <1>2, <1>3, <1>4

(* A member is below the node, or below the first element of an array.      *)
LEMMA MemberBelow ==
  ASSUME NEW node, NEW n, NEW x, x # Absent
  PROVE  x = Member(node, n) <=>
           \/ x \in Below(node, Name(n))
           \/ \E w \in Below(node, Index(0)) : x \in Below(w, Name(n))
<1>1. ASSUME NEW v, v.kind # "array" PROVE x = Member(v, n) <=> x \in Below(v, Name(n))
  BY <1>1, BelowName DEF Member, descendIntoObject
<1>2. CASE node.kind = "array"
  <2>1. x \notin Below(node, Name(n))
    BY <1>2, BelowName
  <2>2. x = Member(node, n) <=> x \in Below(Element(node, 0), Name(n))
    BY <1>2, BelowName DEF Member, descendIntoObject
  <2>3. \A w : w # Absent => (w \in Below(node, Index(0)) <=> w = Element(node, 0))
    BY BelowIndex
  <2>4. \A w : x \in Below(w, Name(n)) => w # Absent
    BY NothingBelowAbsent
  <2> QED
    BY <2>1, <2>2, <2>3, <2>4
<1>3. CASE node.kind # "array"
  <2>1. \A w : w # Absent => w \notin Below(node, Index(0))
    BY <1>3, BelowIndex DEF Element
  <2>2. \A w : x \in Below(w, Name(n)) => w # Absent
    BY NothingBelowAbsent
  <2> QED
    BY <1>1, <1>3, <2>1, <2>2
<1> QED
  BY <1>2, <1>3

(* The indices of a segment, as the steps of an address.                    *)
Steps(indices) == [i \in 1..Len(indices) |-> Index(indices[i])]

(* The first n of them.                                                     *)
FirstOf(s, n) == [i \in 1..n |-> s[i]]

(* The first items of a sequence, one item after the other.                 *)
LEMMA FirstOfNext ==
  ASSUME NEW V, NEW s \in Seq(V), NEW n \in Nat, n + 1 <= Len(s)
  PROVE  /\ FirstOf(s, 0) = <<>>
         /\ FirstOf(s, n) \in Seq(V) /\ Len(FirstOf(s, n)) = n
         /\ FirstOf(s, n + 1) = Append(FirstOf(s, n), s[n + 1])
<1>1. FirstOf(s, n) \in Seq(V) /\ Len(FirstOf(s, n)) = n /\ FirstOf(s, 0) = <<>>
  BY DEF FirstOf
<1>3. FirstOf(s, n + 1) \in Seq(V) /\ Len(FirstOf(s, n + 1)) = n + 1
  BY DEF FirstOf
<1>4. /\ Append(FirstOf(s, n), s[n + 1]) \in Seq(V)
      /\ Len(Append(FirstOf(s, n), s[n + 1])) = n + 1
  BY <1>1
<1>5. ASSUME NEW i \in 1..(n + 1) PROVE FirstOf(s, n + 1)[i] = Append(FirstOf(s, n), s[n + 1])[i]
  BY <1>1 DEF FirstOf
<1> QED
  BY <1>1, <1>3, <1>4, <1>5

(* As many items of a sequence as it has are the sequence.                  *)
LEMMA FirstOfAll ==
  ASSUME NEW V, NEW s \in Seq(V)
  PROVE  FirstOf(s, Len(s)) = s
BY DEF FirstOf

(* Appending to the second of two sequences appends to both.                *)
LEMMA AppendToConcat ==
  ASSUME NEW V, NEW s \in Seq(V), NEW t \in Seq(V), NEW x
  PROVE  s \o Append(t, x) = Append(s \o t, x)
<1> DEFINE W == V \cup {x}
<1>1. s \in Seq(W) /\ t \in Seq(W) /\ x \in W
  OBVIOUS
<1> HIDE DEF W
<1>2. /\ s \o Append(t, x) \in Seq(W) /\ Len(s \o Append(t, x)) = Len(s) + Len(t) + 1
      /\ Append(s \o t, x) \in Seq(W) /\ Len(Append(s \o t, x)) = Len(s) + Len(t) + 1
  BY <1>1
<1>3. ASSUME NEW i \in 1..(Len(s) + Len(t) + 1) PROVE (s \o Append(t, x))[i] = Append(s \o t, x)[i]
  BY <1>1
<1> QED
  BY <1>2, <1>3

(* Where indices lead from a set of nodes, and where a segment does.        *)
ElementsAt(nodes, indices) == {ElementAt(u, indices) : u \in nodes}
Descendants(nodes, segment) == {Descend(u, segment) : u \in nodes}

(* From an address, the indices lead to the same elements as from the       *)
(* values at it.                                                            *)
LEMMA IndicesLead ==
  ASSUME NEW root, NEW V, NEW address \in Seq(V), NEW indices \in Seq(Nat),
         NEW x, x # Absent
  PROVE  x \in ValuesAt(root, address \o Steps(indices)) <=>
           x \in ElementsAt(ValuesAt(root, address), indices)
<1> DEFINE to(n) == address \o FirstOf(Steps(indices), n)
           Lead == {n \in Nat : n <= Len(indices) =>
                     \A y : y # Absent =>
                       (y \in ValuesAt(root, to(n)) <=>
                          \E u \in ValuesAt(root, address) : y = ElementAt(u, FirstOf(indices, n)))}
           W == V \cup {Index(i) : i \in Nat}
<1>1. /\ Steps(indices) \in Seq(W) /\ Len(Steps(indices)) = Len(indices)
      /\ \A i \in 1..Len(indices) : Steps(indices)[i] = Index(indices[i])
      /\ Len(indices) \in Nat
  BY DEF Steps
<1>2. FirstOf(indices, 0) = <<>> /\ to(0) = address
  BY DEF FirstOf
<1>3. 0 \in Lead
  <2>1. \A u : ElementAt(u, <<>>) = u
    BY ElementAtNext
  <2> QED
    BY <1>2, <2>1
<1>4. ASSUME NEW n \in Nat, n \in Lead PROVE n + 1 \in Lead
  <2>1. SUFFICES ASSUME n + 1 <= Len(indices), NEW y, y # Absent
                 PROVE  y \in ValuesAt(root, to(n + 1)) <=>
                          \E u \in ValuesAt(root, address) :
                            y = ElementAt(u, FirstOf(indices, n + 1))
    OBVIOUS
  <2> DEFINE i == indices[n + 1]
  <2>2. i \in Nat /\ Steps(indices)[n + 1] = Index(i)
    BY <1>1, <2>1
  <2>3. /\ FirstOf(Steps(indices), n) \in Seq(W)
        /\ FirstOf(Steps(indices), n + 1) = Append(FirstOf(Steps(indices), n), Index(i))
    BY <1>1, <2>1, <2>2, FirstOfNext
  <2>4. to(n) \in Seq(W) /\ to(n + 1) = Append(to(n), Index(i))
    <3>1. address \in Seq(W)
      OBVIOUS
    <3> HIDE DEF W
    <3>2. to(n) \in Seq(W)
      BY <2>3, <3>1
    <3> DEFINE before == FirstOf(Steps(indices), n)
    <3> HIDE DEF before
    <3>4. before \in Seq(W)
      BY <2>3 DEF before
    <3>5. address \o Append(before, Index(i)) = Append(address \o before, Index(i))
      BY <3>1, <3>4, AppendToConcat
    <3>3. to(n + 1) = Append(to(n), Index(i))
      BY <2>3, <3>5, Zenon DEF before
    <3> QED
      BY <3>2, <3>3
  <2>5. y \in ValuesAt(root, to(n + 1)) <=>
          \E v \in ValuesAt(root, to(n)) : y \in Below(v, Index(i))
    <3> HIDE DEF to, W, i
    <3> QED
      BY <2>4, ValuesAtNext
  <2>6. \A v : y \in Below(v, Index(i)) <=> v # Absent /\ y = Element(v, i)
    BY <2>1, BelowIndex, NothingBelowAbsent
  <2>7. \A v : v # Absent =>
          (v \in ValuesAt(root, to(n)) <=>
             \E u \in ValuesAt(root, address) : v = ElementAt(u, FirstOf(indices, n)))
    BY <1>4, <2>1
  <2>8. \A u : ElementAt(u, FirstOf(indices, n + 1)) =
                 Element(ElementAt(u, FirstOf(indices, n)), i)
    <3>1. /\ FirstOf(indices, n) \in Seq(Nat)
          /\ FirstOf(indices, n + 1) = Append(FirstOf(indices, n), i)
      BY <2>1, FirstOfNext
    <3> DEFINE before == FirstOf(indices, n)
    <3> HIDE DEF i, before
    <3>2. before \in Seq(Nat)
      BY <3>1 DEF before
    <3>3. ASSUME NEW u PROVE ElementAt(u, Append(before, i)) = Element(ElementAt(u, before), i)
      BY <3>2, ElementAtNext
    <3> QED
      BY <3>1, <3>3, Zenon DEF before
  <2>9. \A v : y = Element(v, i) => v # Absent
    BY <2>1, NothingBelowAbsent
  <2> HIDE DEF to, i
  <2> QED
    BY <2>5, <2>6, <2>7, <2>8, <2>9
<1>5. Nat \subseteq Lead
  <2> HIDE DEF Lead
  <2> QED
    BY <1>3, <1>4, Inductively
<1>6. FirstOf(indices, Len(indices)) = indices /\ to(Len(indices)) = address \o Steps(indices)
  BY <1>1, FirstOfAll
<1>7. x \in ValuesAt(root, to(Len(indices))) <=>
        \E u \in ValuesAt(root, address) : x = ElementAt(u, FirstOf(indices, Len(indices)))
  <2>1. Len(indices) \in Lead
    BY <1>1, <1>5
  <2> HIDE DEF to
  <2> QED
    BY <1>1, <2>1
<1> HIDE DEF to
<1> QED
  BY <1>6, <1>7 DEF ElementsAt

(* Nothing that is no array has elements.                                   *)
LEMMA ElementAtNoArray ==
  ASSUME NEW node, node.kind # "array", NEW indices \in Seq(Nat)
  PROVE  ElementAt(node, indices) = IF Len(indices) = 0 THEN node ELSE Absent
<1> DEFINE Kept == {n \in Nat : After("indices", node, indices, n) =
                                  IF n = 0 THEN node ELSE Absent}
<1>1. 0 \in Kept
  BY LoopTurns
<1>2. ASSUME NEW n \in Nat, n \in Kept PROVE n + 1 \in Kept
  <2>1. After("indices", node, indices, n + 1) =
          Turn("indices", After("indices", node, indices, n), indices[n + 1])
    BY LoopTurns
  <2>2. \A i : Element(node, i) = Absent /\ Element(Absent, i) = Absent
    BY NothingBelowAbsent DEF Element
  <2> QED
    BY <1>2, <2>1, <2>2 DEF Turn
<1>3. Nat \subseteq Kept
  <2> HIDE DEF Kept
  <2> QED
    BY <1>1, <1>2, Inductively
<1>4. Len(indices) \in Nat
  OBVIOUS
<1> QED
  BY <1>3, <1>4, ElementAtLoops

(* What is absent has no elements.                                          *)
LEMMA ElementAtAbsent ==
  ASSUME NEW indices \in Seq(Nat)
  PROVE  ElementAt(Absent, indices) = Absent
<1>1. Absent.kind # "array"
  BY DEF Absent
<1> QED
  BY <1>1, ElementAtNoArray

(* A segment of a path that is configured, or of the default one: that a    *)
(* literal is a string is not among the facts the provers have.             *)
PathSegment ==
  [name : STRING \cup {"verifiableCredential", "issuer"}, indices : Seq(Nat), wellFormed : BOOLEAN]

(* A segment leads nowhere from where there is nothing.                     *)
LEMMA DescendAbsent ==
  ASSUME NEW segment \in PathSegment
  PROVE  Descend(Absent, segment) = Absent
BY NothingBelowAbsent, ElementAtAbsent DEF Descend, PathSegment

(* The addresses of a segment: its indices, below the name if it has one,   *)
(* of the node itself or of its first element.                              *)
LEMMA SegmentAddressesSteps ==
  ASSUME NEW segment \in PathSegment
  PROVE  SegmentAddresses(segment) =
           IF segment.name = "" THEN {Steps(segment.indices)}
           ELSE {<<Name(segment.name)>> \o Steps(segment.indices),
                 <<Index(0), Name(segment.name)>> \o Steps(segment.indices)}
BY DEF SegmentAddresses, Steps

(* The steps of indices are a sequence of steps.                            *)
LEMMA StepsAreSequences ==
  ASSUME NEW indices \in Seq(Nat)
  PROVE  Steps(indices) \in Seq({Index(i) : i \in Nat})
<1> DEFINE T == {Index(i) : i \in Nat}
<1>1. \A i \in 1..Len(indices) : Index(indices[i]) \in T
  OBVIOUS
<1> HIDE DEF T
<1>2. Steps(indices) \in Seq(T)
  BY <1>1 DEF Steps
<1> QED
  BY <1>2 DEF T

(* An address that goes on with a step first is the longer address that     *)
(* goes on with the rest.                                                   *)
LEMMA StepFirst ==
  ASSUME NEW V, NEW s \in Seq(V), NEW t \in Seq(V), NEW a \in V, NEW one, one = <<a>>
  PROVE  s \o (one \o t) = Append(s, a) \o t
<1>1. one \in Seq(V) /\ Len(one) = 1 /\ one[1] = a
  OBVIOUS
<1> DEFINE left == s \o (one \o t)
           right == Append(s, a) \o t
<1>2. /\ one \o t \in Seq(V) /\ Len(one \o t) = 1 + Len(t)
      /\ \A i \in 1..(1 + Len(t)) : (one \o t)[i] = IF i = 1 THEN a ELSE t[i - 1]
  BY <1>1
<1>3. /\ Append(s, a) \in Seq(V) /\ Len(Append(s, a)) = Len(s) + 1
      /\ \A i \in 1..(Len(s) + 1) : Append(s, a)[i] = IF i = Len(s) + 1 THEN a ELSE s[i]
  OBVIOUS
<1>4. left \in Seq(V) /\ right \in Seq(V) /\ Len(left) = Len(s) + 1 + Len(t) /\ Len(right) = Len(left)
  BY <1>2, <1>3
<1>5. ASSUME NEW i \in 1..Len(left)
      PROVE  left[i] = right[i]
  <2>1. left[i] = IF i <= Len(s) THEN s[i] ELSE (one \o t)[i - Len(s)]
    BY <1>2, <1>4
  <2>2. right[i] = IF i <= Len(s) + 1 THEN Append(s, a)[i] ELSE t[i - Len(s) - 1]
    BY <1>3, <1>4
  <2>3. CASE i <= Len(s)
    BY <1>3, <1>4, <2>1, <2>2, <2>3
  <2>4. CASE i = Len(s) + 1
    BY <1>2, <1>3, <1>4, <2>1, <2>2, <2>4
  <2>5. CASE i > Len(s) + 1
    <3>1. i - Len(s) \in 1..(1 + Len(t)) /\ i - Len(s) # 1 /\ (i - Len(s)) - 1 = i - Len(s) - 1
      BY <1>4, <2>5
    <3> QED
      BY <1>2, <1>4, <2>1, <2>2, <2>5, <3>1
  <2> QED
    BY <1>4, <2>3, <2>4, <2>5
<1> HIDE DEF left, right
<1>6. left = right
  BY <1>4, <1>5
<1> QED
  BY <1>6 DEF left, right

(* And so it is for two steps.                                              *)
LEMMA StepsFirst ==
  ASSUME NEW V, NEW s \in Seq(V), NEW t \in Seq(V), NEW a \in V, NEW b \in V,
         NEW two, two = <<b, a>>
  PROVE  s \o (two \o t) = Append(Append(s, b), a) \o t
<1> DEFINE one == <<a>>
           first == <<b>>
<1>1. one \in Seq(V) /\ two = first \o one
  OBVIOUS
<1>2. Append(s, b) \in Seq(V) /\ one \o t \in Seq(V)
  BY <1>1
<1>3. one = <<a>> /\ first = <<b>> /\ first \in Seq(V)
  OBVIOUS
<1> HIDE DEF one, first
<1>4. two \o t = first \o (one \o t)
  <2>1. (first \o one) \o t = first \o (one \o t)
    BY <1>1, <1>3, ConcatAssociative
  <2> QED
    BY <1>1, <2>1, Zenon
<1>5. s \o (first \o (one \o t)) = Append(s, b) \o (one \o t)
  BY <1>2, <1>3, StepFirst
<1>6. Append(s, b) \o (one \o t) = Append(Append(s, b), a) \o t
  BY <1>2, <1>3, StepFirst
<1> QED
  BY <1>4, <1>5, <1>6, Zenon

(* From an address, the addresses of a segment lead to where the segment    *)
(* leads from the values at it.                                             *)
LEMMA SegmentLeads ==
  ASSUME NEW root, NEW V, NEW address \in Seq(V), NEW segment \in PathSegment,
         segment.wellFormed, NEW x, x # Absent
  PROVE  (\E rest \in SegmentAddresses(segment) : x \in ValuesAt(root, address \o rest))
         <=> x \in Descendants(ValuesAt(root, address), segment)
<1> DEFINE indices == segment.indices
           name == segment.name
           there == Append(address, Name(name))
           within == Append(Append(address, Index(0)), Name(name))
           W == V \cup {Index(i) : i \in Nat} \cup {Name(name)}
<1>1. indices \in Seq(Nat)
  BY DEF PathSegment
<1>2. CASE name = ""
  <2>1. SegmentAddresses(segment) = {Steps(indices)}
    BY <1>2, SegmentAddressesSteps
  <2>2. \A u : Descend(u, segment) = ElementAt(u, indices)
    BY <1>2 DEF Descend
  <2> HIDE DEF indices
  <2>3. x \in ValuesAt(root, address \o Steps(indices)) <=>
          x \in ElementsAt(ValuesAt(root, address), indices)
    BY <1>1, IndicesLead
  <2> QED
    BY <2>1, <2>2, <2>3 DEF ElementsAt, Descendants
<1>3. CASE name # ""
  <2>1. /\ address \in Seq(W) /\ Steps(indices) \in Seq(W) /\ Name(name) \in W /\ Index(0) \in W
        /\ there \in Seq(W) /\ within \in Seq(W) /\ Append(address, Index(0)) \in Seq(W)
    <3>1. address \in Seq(W) /\ Name(name) \in W /\ Index(0) \in W
      OBVIOUS
    <3>2. Steps(indices) \in Seq(W)
      <4> DEFINE T == {Index(i) : i \in Nat}
      <4>1. T \subseteq W
        OBVIOUS
      <4>2. Steps(indices) \in Seq(T)
        BY <1>1, StepsAreSequences
      <4> HIDE DEF T, W
      <4> QED
        BY <4>1, <4>2
    <3> HIDE DEF W
    <3> QED
      BY <3>1, <3>2
  <2>2. /\ address \o (<<Name(name)>> \o Steps(indices)) = there \o Steps(indices)
        /\ address \o (<<Index(0), Name(name)>> \o Steps(indices)) = within \o Steps(indices)
    <3> DEFINE a == Name(name)
               b == Index(0)
               t == Steps(indices)
               one == <<a>>
               two == <<b, a>>
    <3>1. address \in Seq(W) /\ t \in Seq(W) /\ a \in W /\ b \in W /\ one = <<a>> /\ two = <<b, a>>
      BY <2>1
    <3> HIDE DEF W, a, b, t, one, two
    <3>2. address \o (one \o t) = Append(address, a) \o t
      BY <3>1, StepFirst
    <3>3. address \o (two \o t) = Append(Append(address, b), a) \o t
      BY <3>1, StepsFirst
    <3> QED
      BY <3>2, <3>3, Zenon DEF a, b, t, one, two
  <2>3. SegmentAddresses(segment) = {<<Name(name)>> \o Steps(indices),
                                     <<Index(0), Name(name)>> \o Steps(indices)}
    BY <1>3, SegmentAddressesSteps
  <2>4. \A u : Descend(u, segment) = ElementAt(Member(u, name), indices)
    BY <1>3 DEF Descend
  <2> HIDE DEF W, indices, name
  <2>5. \A y : y \in ValuesAt(root, there) <=>
                \E v \in ValuesAt(root, address) : y \in Below(v, Name(name))
    BY <2>1, ValuesAtNext
  <2>6. \A w : w \in ValuesAt(root, Append(address, Index(0))) <=>
                \E v \in ValuesAt(root, address) : w \in Below(v, Index(0))
    BY <2>1, ValuesAtNext
  <2>7. \A y : y \in ValuesAt(root, within) <=>
                \E w \in ValuesAt(root, Append(address, Index(0))) : y \in Below(w, Name(name))
    <3> DEFINE before == Append(address, Index(0))
    <3> HIDE DEF before
    <3>1. before \in Seq(W) /\ within = Append(before, Name(name))
      BY <2>1 DEF before
    <3>2. \A y : y \in ValuesAt(root, Append(before, Name(name))) <=>
                  \E w \in ValuesAt(root, before) : y \in Below(w, Name(name))
      BY <3>1, ValuesAtNext
    <3> QED
      BY <3>1, <3>2 DEF before
  <2> HIDE DEF there, within
  <2>8. /\ x \in ValuesAt(root, there \o Steps(indices)) <=>
             \E y \in ValuesAt(root, there) : x = ElementAt(y, indices)
        /\ x \in ValuesAt(root, within \o Steps(indices)) <=>
             \E y \in ValuesAt(root, within) : x = ElementAt(y, indices)
    <3>1. there \in Seq(W) /\ within \in Seq(W)
      BY <2>1
    <3>2. x \in ValuesAt(root, there \o Steps(indices)) <=>
            x \in ElementsAt(ValuesAt(root, there), indices)
      BY <1>1, <3>1, IndicesLead
    <3>3. x \in ValuesAt(root, within \o Steps(indices)) <=>
            x \in ElementsAt(ValuesAt(root, within), indices)
      BY <1>1, <3>1, IndicesLead
    <3> QED
      BY <3>2, <3>3 DEF ElementsAt
  <2>9. \A y : x = ElementAt(y, indices) => y # Absent
    BY <1>1, ElementAtAbsent
  <2>10. \A y : y # Absent =>
           (y \in ValuesAt(root, there) \cup ValuesAt(root, within) <=>
              \E u \in ValuesAt(root, address) : y = Member(u, name))
    <3>1. SUFFICES ASSUME NEW y, y # Absent
                   PROVE  y \in ValuesAt(root, there) \cup ValuesAt(root, within) <=>
                            \E u \in ValuesAt(root, address) : y = Member(u, name)
      OBVIOUS
    <3>2. \A u : y = Member(u, name) <=>
                  \/ y \in Below(u, Name(name))
                  \/ \E w \in Below(u, Index(0)) : y \in Below(w, Name(name))
      BY <3>1, MemberBelow
    <3> QED
      BY <2>5, <2>6, <2>7, <3>2
  <2> QED
    BY <2>2, <2>3, <2>4, <2>8, <2>9, <2>10 DEF Descendants
<1> QED
  BY <1>2, <1>3

(* The addresses of a segment are sequences.                                *)
LEMMA SegmentAddressesAreSequences ==
  ASSUME NEW segment \in PathSegment, NEW rest \in SegmentAddresses(segment)
  PROVE  \E V : rest \in Seq(V)
<1> DEFINE V == {Index(i) : i \in Nat} \cup {Name(segment.name)}
           t == Steps(segment.indices)
           a == Name(segment.name)
           b == Index(0)
<1>1. t \in Seq(V) /\ a \in V /\ b \in V
  <2> DEFINE T == {Index(i) : i \in Nat}
  <2>1. T \subseteq V /\ a \in V /\ b \in V
    OBVIOUS
  <2>2. t \in Seq(T)
    BY StepsAreSequences DEF PathSegment
  <2> HIDE DEF T, V, t, a, b
  <2> QED
    BY <2>1, <2>2
<1>2. rest \in {t, <<a>> \o t, <<b, a>> \o t}
  BY SegmentAddressesSteps
<1> HIDE DEF V, t, a, b
<1>3. <<a>> \o t \in Seq(V) /\ <<b, a>> \o t \in Seq(V)
  BY <1>1
<1> QED
  BY <1>1, <1>2, <1>3

(* One turn of the loop over a path's addresses.                            *)
LEMMA AddressesNext ==
  ASSUME NEW path, NEW n \in Nat
  PROVE  /\ After("addresses", {<<>>}, path, 0) = {<<>>}
         /\ After("addresses", {<<>>}, path, n + 1) =
              Lengthen(After("addresses", {<<>>}, path, n), path[n + 1])
BY LoopTurns DEF Turn

(* One turn of the loop over a path's segments.                             *)
LEMMA WalkNext ==
  ASSUME NEW node, NEW path, NEW n \in Nat
  PROVE  /\ After("walk", node, path, 0) = node
         /\ After("walk", node, path, n + 1) = Descend(After("walk", node, path, n), path[n + 1])
BY LoopTurns DEF Turn

(* The addresses of a well-formed path lead where its walk does.            *)
LEMMA PathLeads ==
  ASSUME NEW root, NEW path \in Seq(PathSegment), \A i \in 1..Len(path) : path[i].wellFormed,
         NEW x, x # Absent
  PROVE  (\E a \in Addresses(path) : x \in ValuesAt(root, a)) <=> x = Walk(root, path)
<1> DEFINE A(n) == After("addresses", {<<>>}, path, n)
           at(n) == After("walk", root, path, n)
           Lead == {n \in Nat : n <= Len(path) =>
                     /\ \A a \in A(n) : \E V : a \in Seq(V)
                     /\ \A y : y # Absent =>
                          ((\E a \in A(n) : y \in ValuesAt(root, a)) <=> y = at(n))}
<1>1. 0 \in Lead
  <2>1. A(0) = {<<>>}
    BY AddressesNext
  <2>2. at(0) = root
    BY WalkNext
  <2>3. ValuesAt(root, <<>>) = {root}
    <3>1. <<>> \in Seq({})
      OBVIOUS
    <3> QED
      BY <3>1, ValuesAtNext
  <2>4. <<>> \in Seq({})
    OBVIOUS
  <2> HIDE DEF A, at
  <2> QED
    BY <2>1, <2>2, <2>3, <2>4
<1>2. ASSUME NEW n \in Nat, n \in Lead PROVE n + 1 \in Lead
  <2>1. SUFFICES ASSUME n + 1 <= Len(path)
                 PROVE  /\ \A a \in A(n + 1) : \E V : a \in Seq(V)
                        /\ \A y : y # Absent =>
                             ((\E a \in A(n + 1) : y \in ValuesAt(root, a)) <=> y = at(n + 1))
    OBVIOUS
  <2> DEFINE segment == path[n + 1]
  <2>2. segment \in PathSegment /\ segment.wellFormed
    BY <2>1
  <2>3. \A a : a \in A(n + 1) <=>
                 \E b \in A(n) : \E rest \in SegmentAddresses(segment) : a = b \o rest
    <3>1. A(n + 1) = Lengthen(A(n), segment)
      BY AddressesNext
    <3> HIDE DEF A, segment
    <3>2. ASSUME NEW a \in Lengthen(A(n), segment)
          PROVE  \E b \in A(n) : \E rest \in SegmentAddresses(segment) : a = b \o rest
      BY <3>2 DEF Lengthen
    <3>3. ASSUME NEW b \in A(n), NEW rest \in SegmentAddresses(segment)
          PROVE  b \o rest \in Lengthen(A(n), segment)
      BY <3>3 DEF Lengthen
    <3> QED
      BY <3>1, <3>2, <3>3
  <2>4. at(n + 1) = Descend(at(n), segment)
    BY WalkNext
  <2> HIDE DEF segment, A, at
  <2>5. /\ \A b \in A(n) : \E V : b \in Seq(V)
        /\ \A u : u # Absent => ((\E b \in A(n) : u \in ValuesAt(root, b)) <=> u = at(n))
    <3>1. n <= Len(path)
      BY <2>1
    <3> QED
      BY <1>2, <3>1
  <2>6. ASSUME NEW b \in A(n), NEW rest \in SegmentAddresses(segment)
        PROVE  \E V : b \o rest \in Seq(V)
    <3>1. PICK V : b \in Seq(V)
      BY <2>5
    <3>2. PICK W : rest \in Seq(W)
      BY <2>2, SegmentAddressesAreSequences
    <3>3. b \in Seq(V \cup W) /\ rest \in Seq(V \cup W)
      BY <3>1, <3>2
    <3>4. b \o rest \in Seq(V \cup W)
      BY <3>3
    <3> QED
      BY <3>4
  <2>7. ASSUME NEW y, y # Absent
        PROVE  (\E a \in A(n + 1) : y \in ValuesAt(root, a)) <=> y = at(n + 1)
    <3>1. (\E a \in A(n + 1) : y \in ValuesAt(root, a)) <=>
            \E b \in A(n) : \E rest \in SegmentAddresses(segment) : y \in ValuesAt(root, b \o rest)
      BY <2>3
    <3>2. ASSUME NEW b \in A(n)
          PROVE  (\E rest \in SegmentAddresses(segment) : y \in ValuesAt(root, b \o rest)) <=>
                   \E u \in ValuesAt(root, b) : y = Descend(u, segment)
      <4>1. PICK V : b \in Seq(V)
        BY <2>5
      <4>2. (\E rest \in SegmentAddresses(segment) : y \in ValuesAt(root, b \o rest)) <=>
              y \in Descendants(ValuesAt(root, b), segment)
        BY <2>2, <2>7, <4>1, SegmentLeads
      <4> QED
        BY <4>2 DEF Descendants
    <3>3. \A u : y = Descend(u, segment) => u # Absent
      BY <2>2, <2>7, DescendAbsent
    <3> QED
      BY <2>4, <2>5, <3>1, <3>2, <3>3
  <2> QED
    <3>1. ASSUME NEW a \in A(n + 1) PROVE \E V : a \in Seq(V)
      <4>1. PICK b \in A(n) : \E rest \in SegmentAddresses(segment) : a = b \o rest
        BY <2>3
      <4>2. PICK rest \in SegmentAddresses(segment) : a = b \o rest
        BY <4>1
      <4>3. PICK V : b \o rest \in Seq(V)
        BY <2>6
      <4> QED
        BY <4>2, <4>3
    <3> QED
      BY <2>7, <3>1
<1>3. Nat \subseteq Lead
  <2> HIDE DEF Lead
  <2> QED
    BY <1>1, <1>2, Inductively
<1>4. Len(path) \in Nat
  OBVIOUS
<1>5. A(Len(path)) = Addresses(path) /\ at(Len(path)) = Walk(root, path)
  BY <1>4, AddressesLoops, WalkLoops
<1>6. (\E a \in A(Len(path)) : x \in ValuesAt(root, a)) <=> x = at(Len(path))
  <2>1. Len(path) \in Lead
    BY <1>3, <1>4
  <2> HIDE DEF A, at
  <2> QED
    BY <1>4, <2>1
<1> QED
  BY <1>5, <1>6

(* A malformed segment leads nowhere.                                       *)
LEMMA MalformedLeadsNowhere ==
  ASSUME NEW root, NEW path \in Seq(PathSegment), NEW i \in 1..Len(path), ~path[i].wellFormed
  PROVE  Walk(root, path) = Absent
<1> DEFINE at(n) == After("walk", root, path, n)
           Gone == {n \in Nat : i <= n /\ n <= Len(path) => at(n) = Absent}
<1>1. 0 \in Gone
  OBVIOUS
<1>2. ASSUME NEW n \in Nat, n \in Gone PROVE n + 1 \in Gone
  <2>1. at(n + 1) = Descend(at(n), path[n + 1])
    BY WalkNext
  <2> HIDE DEF at
  <2>2. CASE n + 1 = i
    <3>1. ~path[n + 1].wellFormed
      BY <2>2
    <3>2. at(n + 1) = Absent
      BY <2>1, <3>1 DEF Descend
    <3> QED
      BY <3>2
  <2>3. CASE n + 1 # i /\ i <= n + 1 /\ n + 1 <= Len(path)
    <3>1. at(n) = Absent /\ path[n + 1] \in PathSegment
      BY <1>2, <2>3
    <3>2. at(n + 1) = Absent
      BY <2>1, <3>1, DescendAbsent
    <3> QED
      BY <3>2
  <2> QED
    BY <2>2, <2>3
<1>3. Nat \subseteq Gone
  <2> HIDE DEF Gone
  <2> QED
    BY <1>1, <1>2, Inductively
<1>4. at(Len(path)) = Absent
  <2> HIDE DEF at
  <2> QED
    BY <1>3
<1> QED
  BY <1>4, WalkLoops

(* Nothing is found in claims that are empty.                               *)
LEMMA EmptyClaims ==
  ASSUME NEW members, DOMAIN members = {}, NEW path \in Seq(PathSegment)
  PROVE  Walk(Object(members), path) \in {Object(members), Absent}
<1> DEFINE object == Object(members)
           at(n) == After("walk", object, path, n)
           Kept == {n \in Nat : n <= Len(path) => at(n) \in {object, Absent}}
<1>1. 0 \in Kept
  BY WalkNext
<1>2. ASSUME NEW n \in Nat, n \in Kept PROVE n + 1 \in Kept
  <2>1. at(n + 1) = Descend(at(n), path[n + 1])
    BY WalkNext
  <2>2. object.kind = "object" /\ object.members = members
    BY DEF Object
  <2> HIDE DEF at, object
  <2>3. SUFFICES ASSUME n + 1 <= Len(path) PROVE at(n + 1) \in {object, Absent}
    OBVIOUS
  <2>4. path[n + 1] \in PathSegment /\ at(n) \in {object, Absent}
    BY <1>2, <2>3
  <2>5. ASSUME NEW segment \in PathSegment PROVE Descend(object, segment) \in {object, Absent}
    <3>1. segment.indices \in Seq(Nat)
      BY DEF PathSegment
    <3>2. Member(object, segment.name) = Absent
      BY <2>2 DEF Member, descendIntoObject
    <3> QED
      BY <2>2, <3>1, <3>2, ElementAtNoArray, ElementAtAbsent DEF Descend
  <2> QED
    BY <2>1, <2>4, <2>5, DescendAbsent
<1>3. Nat \subseteq Kept
  <2> HIDE DEF Kept
  <2> QED
    BY <1>1, <1>2, Inductively
<1>4. at(Len(path)) \in {object, Absent}
  <2> HIDE DEF at
  <2> QED
    BY <1>3
<1> QED
  BY <1>4, WalkLoops

(* The consumer is the string at the end of the walk.                       *)
IsDID(v) == v.kind = "string" /\ v.value # ""

(* The consumer is read at the end of the walk, and is none where no        *)
(* string is found.                                                         *)
LEMMA ReadsTheLeaf ==
  ASSUME NEW members, NEW path \in Seq(PathSegment), NEW leaf, leaf = Walk(Object(members), path)
  PROVE  /\ consumerFromClaims(members, path) = IF IsDID(leaf) THEN leaf.value ELSE NoConsumer
         /\ ~IsDID(Absent) /\ ~IsDID(Object(members))
<1> DEFINE root == Object(members)
<1>1. ~IsDID(Absent)
  <2>1. Absent.kind = "absent"
    BY DEF Absent
  <2> QED
    BY <2>1 DEF IsDID
<1>2. ~IsDID(root)
  <2>1. root.kind = "object"
    BY DEF Object
  <2> QED
    BY <2>1 DEF IsDID
<1>3. path = <<>> => leaf = root
  <2>1. leaf = After("walk", root, path, Len(path))
    BY WalkLoops
  <2> QED
    BY <2>1, WalkNext
<1>4. DOMAIN members = {} => leaf \in {root, Absent}
  BY EmptyClaims
<1>5. IsDID(leaf) => path # <<>> /\ DOMAIN members # {}
  <2> HIDE DEF root
  <2> QED
    BY <1>1, <1>2, <1>3, <1>4
<1>6. consumerFromClaims(members, path) = IF IsDID(leaf) THEN leaf.value ELSE NoConsumer
  BY <1>5 DEF consumerFromClaims, IsDID
<1> QED
  BY <1>1, <1>2, <1>6

(* consumerFromClaims reads the one string that the path names, if any.     *)
LEMMA ReadsTheNamed ==
  ASSUME NEW members, NEW path \in Seq(PathSegment), NEW named,
         named = IF \A i \in 1..Len(path) : path[i].wellFormed
                 THEN Named(Object(members), path) ELSE {}
  PROVE  IF named = {} THEN consumerFromClaims(members, path) = NoConsumer
         ELSE named = {consumerFromClaims(members, path)}
<1> DEFINE root == Object(members)
           leaf == Walk(root, path)
<1>1. \A v : IsDID(v) => v # Absent
  BY ReadsTheLeaf
<1>2. consumerFromClaims(members, path) = IF IsDID(leaf) THEN leaf.value ELSE NoConsumer
  BY ReadsTheLeaf
<1>3. named = IF IsDID(leaf) THEN {leaf.value} ELSE {}
  <2>1. CASE ~ \A i \in 1..Len(path) : path[i].wellFormed
    <3>1. leaf = Absent
      BY <2>1, MalformedLeadsNowhere
    <3> QED
      BY <1>1, <2>1, <3>1
  <2>2. CASE \A i \in 1..Len(path) : path[i].wellFormed
    <3>1. ASSUME NEW v, IsDID(v)
          PROVE  (\E a \in Addresses(path) : v \in ValuesAt(root, a)) <=> v = leaf
      BY <1>1, <2>2, <3>1, PathLeads
    <3>2. \A y : y \in named <=> \E v : /\ \E a \in Addresses(path) : v \in ValuesAt(root, a)
                                        /\ IsDID(v) /\ y = v.value
      BY <2>2 DEF Named, IsDID
    <3>3. ASSUME NEW y \in named PROVE IsDID(leaf) /\ y = leaf.value
      <4>1. PICK v : /\ \E a \in Addresses(path) : v \in ValuesAt(root, a)
                     /\ IsDID(v) /\ y = v.value
        BY <3>2
      <4>2. v = leaf
        BY <3>1, <4>1
      <4> QED
        BY <4>1, <4>2
    <3>4. ASSUME IsDID(leaf) PROVE leaf.value \in named
      <4>1. \E a \in Addresses(path) : leaf \in ValuesAt(root, a)
        BY <3>1, <3>4
      <4> QED
        BY <3>2, <3>4, <4>1
    <3> HIDE DEF leaf
    <3> QED
      BY <3>3, <3>4
  <2> QED
    BY <2>1, <2>2
<1> QED
  BY <1>2, <1>3

(* A segment that has a name.                                               *)
HasName(segment) == segment.name # ""

(* Walking the claims that were kept, those with the given names, comes to  *)
(* the same node as walking all of them, or to none, unless both walks are  *)
(* still at their claims; and to the same one where the path's first name   *)
(* was kept.                                                                *)
SameEnd(kept, full, names, path) ==
  /\ \/ Walk(Object(kept), path) \in {Absent, Walk(Object(full), path)}
     \/ Walk(Object(kept), path) = Object(kept) /\ Walk(Object(full), path) = Object(full)
  /\ Len(path) # 0 /\ HasName(path[1]) /\ path[1].name \in names
       => Walk(Object(kept), path) = Walk(Object(full), path)

(* So it is for whatever names are kept.                                    *)
LEMMA WalksOfTheKept ==
  ASSUME NEW full, NEW names, NEW kept, kept = Restrict(full, DOMAIN full \cap names),
         NEW path \in Seq(PathSegment)
  PROVE  SameEnd(kept, full, names, path)
<1> DEFINE some == Object(kept)
           all == Object(full)
           k(n) == After("walk", some, path, n)
           f(n) == After("walk", all, path, n)
           Told == Len(path) # 0 /\ HasName(path[1]) /\ path[1].name \in names
           Near(n) == /\ k(n) \in {Absent, f(n)} \/ (k(n) = some /\ f(n) = all)
                      /\ Told /\ n >= 1 => k(n) = f(n)
           Always == {n \in Nat : n <= Len(path) => Near(n)}
<1>1. k(0) = some /\ f(0) = all
  BY WalkNext
<1>2. ASSUME NEW segment \in PathSegment
      PROVE  LET a == Descend(some, segment)  b == Descend(all, segment)
             IN /\ a \in {Absent, b} \/ (a = some /\ b = all)
                /\ HasName(segment) /\ segment.name \in names => a = b
  <2> DEFINE name == segment.name
             indices == segment.indices
  <2>1. /\ some.kind = "object" /\ some.members = kept
        /\ all.kind = "object" /\ all.members = full /\ indices \in Seq(Nat)
    BY DEF Object, PathSegment
  <2> HIDE DEF some, all
  <2>2. CASE ~segment.wellFormed
    BY <2>2 DEF Descend
  <2>3. CASE segment.wellFormed /\ name = ""
    BY <2>1, <2>3, ElementAtNoArray DEF Descend, HasName
  <2>4. CASE segment.wellFormed /\ name # ""
    <3>1. Descend(some, segment) = ElementAt(Member(some, name), indices)
      BY <2>4 DEF Descend
    <3>2. Descend(all, segment) = ElementAt(Member(all, name), indices)
      BY <2>4 DEF Descend
    <3>3. Member(some, name) = IF name \in DOMAIN full \cap names THEN full[name] ELSE Absent
      BY <2>1 DEF Member, descendIntoObject, Restrict
    <3>4. Member(all, name) = IF name \in DOMAIN full THEN full[name] ELSE Absent
      BY <2>1 DEF Member, descendIntoObject
    <3>5. ElementAt(Absent, indices) = Absent
      BY <2>1, ElementAtAbsent
    <3> HIDE DEF name, indices
    <3> QED
      BY <3>1, <3>2, <3>3, <3>4, <3>5 DEF name
  <2> QED
    BY <2>2, <2>3, <2>4
<1> HIDE DEF Near
<1>3. ASSUME NEW n \in Nat, n \in Always PROVE n + 1 \in Always
  <2>1. k(n + 1) = Descend(k(n), path[n + 1]) /\ f(n + 1) = Descend(f(n), path[n + 1])
    BY WalkNext
  <2> HIDE DEF k, f, some, all
  <2>2. SUFFICES ASSUME n + 1 <= Len(path) PROVE Near(n + 1)
    OBVIOUS
  <2> DEFINE segment == path[n + 1]
  <2>3. segment \in PathSegment /\ Descend(Absent, segment) = Absent
    BY <2>2, DescendAbsent
  <2>4. Near(n)
    BY <1>3, <2>2
  <2>5. CASE n = 0
    <3>1. segment = path[1] /\ k(n) = some /\ f(n) = all
      BY <1>1, <2>5
    <3> HIDE DEF segment
    <3>2. /\ k(n + 1) \in {Absent, f(n + 1)} \/ (k(n + 1) = some /\ f(n + 1) = all)
          /\ Told => k(n + 1) = f(n + 1)
      BY <1>2, <2>1, <2>3, <3>1 DEF segment
    <3> QED
      BY <3>2 DEF Near
  <2>6. CASE n >= 1
    <3>1. /\ k(n) \in {Absent, f(n)} \/ (k(n) = some /\ f(n) = all)
          /\ Told => k(n) = f(n)
      BY <2>4, <2>6 DEF Near
    <3> HIDE DEF Told
    <3>2. /\ k(n + 1) \in {Absent, f(n + 1)} \/ (k(n + 1) = some /\ f(n + 1) = all)
          /\ Told => k(n + 1) = f(n + 1)
      BY <1>2, <2>1, <2>3, <3>1
    <3> QED
      BY <3>2 DEF Near
  <2> HIDE DEF segment, Told
  <2> QED
    BY <2>5, <2>6
<1>4. Nat \subseteq Always
  <2>1. 0 \in Always
    BY <1>1 DEF Near
  <2> HIDE DEF Always
  <2> QED
    BY <1>3, <2>1, Inductively
<1>5. /\ k(Len(path)) \in {Absent, f(Len(path))} \/ (k(Len(path)) = some /\ f(Len(path)) = all)
      /\ Told => k(Len(path)) = f(Len(path))
  <2> HIDE DEF k, f, some, all
  <2>1. Len(path) \in Nat
    OBVIOUS
  <2>2. Near(Len(path))
    BY <1>4, <2>1
  <2>3. Told => Len(path) >= 1
    <3>1. Len(path) # 0 => Len(path) >= 1
      BY <2>1
    <3> QED
      BY <3>1, Zenon
  <2> HIDE DEF Told
  <2> QED
    BY <2>2, <2>3 DEF Near
<1>6. k(Len(path)) = Walk(some, path) /\ f(Len(path)) = Walk(all, path)
  BY WalkLoops
<1> HIDE DEF k, f
<1> QED
  BY <1>5, <1>6, Zenon DEF SameEnd

(* An item of a sequence is in its set.                                     *)
LEMMA InToSet ==
  ASSUME NEW V, NEW s \in Seq(V), NEW i \in 1..Len(s)
  PROVE  s[i] \in ToSet(s)
BY DEF ToSet

(* Claims decoded by name are the token's own, restricted to the names.     *)
LEMMA DecodedClaims ==
  ASSUME NEW full, NEW keys, keys # <<>>
  PROVE  DecodeClaims(full, keys) = Restrict(full, DOMAIN full \cap ToSet(keys))
BY DEF DecodeClaims

(* Whatever names are decoded, the consumer is the token's own or none.     *)
LEMMA NoOtherConsumer ==
  ASSUME NEW full, NEW keys, NEW path \in Seq(PathSegment)
  PROVE  consumerFromClaims(DecodeClaims(full, keys), path) \in
           {consumerFromClaims(full, path), NoConsumer}
<1>1. CASE keys = <<>>
  BY <1>1 DEF DecodeClaims
<1>2. CASE keys # <<>>
  <2> DEFINE kept == DecodeClaims(full, keys)
             end == Walk(Object(kept), path)
             whole == Walk(Object(full), path)
  <2>1. end \in {Absent, whole} \/ (end = Object(kept) /\ whole = Object(full))
    <3> DEFINE names == ToSet(keys)
    <3>1. kept = Restrict(full, DOMAIN full \cap names)
      BY <1>2, DecodedClaims
    <3> HIDE DEF kept, names
    <3>2. SameEnd(kept, full, names, path)
      BY <3>1, WalksOfTheKept
    <3> QED
      BY <3>2 DEF SameEnd
  <2>2. /\ consumerFromClaims(kept, path) = IF IsDID(end) THEN end.value ELSE NoConsumer
        /\ ~IsDID(Absent) /\ ~IsDID(Object(kept))
    BY ReadsTheLeaf
  <2>3. consumerFromClaims(full, path) = IF IsDID(whole) THEN whole.value ELSE NoConsumer
    BY ReadsTheLeaf
  <2> HIDE DEF kept, end, whole
  <2> QED
    BY <2>1, <2>2, <2>3 DEF kept
<1> QED
  BY <1>1, <1>2

(* The names to decode for a path keep the consumer that it names.          *)
LEMMA RootIsDecoded ==
  ASSUME NEW V, NEW forward \in Seq(V), NEW path,
         claimKeysToDecode(forward, path) # <<>>, path # <<>>
  PROVE  claimPathRoot(path) \in ToSet(claimKeysToDecode(forward, path))
<1> DEFINE keys == claimKeysToDecode(forward, path)
           root == claimPathRoot(path)
<1>1. CASE Contains(forward, root)
  <2>1. keys = forward
    BY <1>1 DEF claimKeysToDecode
  <2>2. PICK i \in 1..Len(forward) : forward[i] = root
    BY <1>1 DEF Contains
  <2> QED
    BY <2>1, <2>2, InToSet
<1>2. CASE ~Contains(forward, root) /\ forward # <<>>
  <2>1. keys = Append(forward, root)
    BY <1>2 DEF claimKeysToDecode
  <2> HIDE DEF root
  <2> DEFINE more == Append(forward, root)
  <2>2. /\ more \in Seq(V \cup {root}) /\ Len(more) = Len(forward) + 1
        /\ more[Len(forward) + 1] = root /\ Len(forward) \in Nat
    OBVIOUS
  <2> HIDE DEF more
  <2>3. root \in ToSet(more)
    BY <2>2, InToSet
  <2> QED
    BY <2>1, <2>3 DEF more, root
<1>3. forward # <<>>
  BY DEF claimKeysToDecode
<1> QED
  BY <1>1, <1>2, <1>3

(* The claims the request phase decodes for a path, whatever it forwards,   *)
(* name the consumer all of them name.                                      *)
LEMMA ConsumerIsKept ==
  ASSUME NEW full, NEW V, NEW forward \in Seq(V), NEW path \in Seq(PathSegment), HasName(Head(path))
  PROVE  consumerFromClaims(DecodeClaims(full, claimKeysToDecode(forward, path)), path) =
           consumerFromClaims(full, path)
<1> DEFINE keys == claimKeysToDecode(forward, path)
           kept == DecodeClaims(full, keys)
<1>1. CASE keys = <<>>
  BY <1>1 DEF DecodeClaims
<1>2. CASE path = <<>>
  BY <1>2 DEF consumerFromClaims
<1>3. CASE keys # <<>> /\ path # <<>>
  <2>1. Len(path) # 0 /\ Head(path) = path[1]
    BY <1>3
  <2> DEFINE names == ToSet(keys)
  <2>2. path[1].name \in names
    BY <1>3, <2>1, RootIsDecoded DEF claimPathRoot
  <2>3. kept = Restrict(full, DOMAIN full \cap names)
    BY <1>3, DecodedClaims
  <2> DEFINE end == Walk(Object(kept), path)
             whole == Walk(Object(full), path)
  <2>4. end = whole
    <3> HIDE DEF kept, names
    <3>1. SameEnd(kept, full, names, path)
      BY <2>3, WalksOfTheKept
    <3>2. Len(path) # 0 /\ HasName(path[1]) /\ path[1].name \in names
      BY <2>1, <2>2
    <3> QED
      BY <3>1, <3>2, Zenon DEF SameEnd
  <2>5. consumerFromClaims(kept, path) = IF IsDID(end) THEN end.value ELSE NoConsumer
    BY ReadsTheLeaf
  <2>6. consumerFromClaims(full, path) = IF IsDID(whole) THEN whole.value ELSE NoConsumer
    BY ReadsTheLeaf
  <2>7. consumerFromClaims(kept, path) = consumerFromClaims(full, path)
    <3> HIDE DEF kept, end, whole
    <3> QED
      BY <2>4, <2>5, <2>6
  <2> QED
    BY <2>7
<1> QED
  BY <1>1, <1>2, <1>3
-----------------------------------------------------------------------------
Slash == "/"

(* The trimmed prefix is the given one, up to slashes at its end, and does  *)
(* not end in one.                                                          *)
LEMMA TrimRightTrims ==
  ASSUME NEW V, NEW p \in Seq(V)
  PROVE  /\ \E n \in 0..Len(p) : p = TrimRight(p) \o [i \in 1..n |-> Slash]
         /\ Len(TrimRight(p)) > 0 => Last(TrimRight(p)) # Slash
<1> DEFINE S == {n \in 0..Len(p) : \A i \in (n + 1)..Len(p) : p[i] = Slash}
           m == Min(S)
<1>1. TrimRight(p) = SubSeq(p, 1, m)
  BY DEF TrimRight, Slash
<1>2. Len(p) \in S
  OBVIOUS
<1>3. \E x \in S : \A y \in S : x <= y
  <2>1. S \in SUBSET Nat /\ S # {}
    BY <1>2
  <2> HIDE DEF S
  <2> QED
    BY <2>1, LowestNumber
<1>4. m \in S /\ \A y \in S : m <= y
  <2> HIDE DEF S
  <2> QED
    BY <1>3 DEF Min
<1> HIDE DEF m
<1>5. m \in 0..Len(p) /\ \A i \in (m + 1)..Len(p) : p[i] = Slash
  BY <1>4
<1>6. m > 0 => p[m] # Slash
  <2>1. SUFFICES ASSUME m > 0, p[m] = Slash PROVE FALSE
    OBVIOUS
  <2>2. m - 1 \in S
    BY <1>5, <2>1
  <2>3. m \in Int /\ m <= m - 1
    <3> HIDE DEF S
    <3> QED
      BY <1>4, <1>5, <2>2
  <2> QED
    BY <2>3
<1> HIDE DEF S
<1> DEFINE t == SubSeq(p, 1, m)
           rest == [i \in 1..(Len(p) - m) |-> Slash]
<1>7. t \in Seq(V) /\ Len(t) = m /\ \A i \in 1..m : t[i] = p[i]
  BY <1>5
<1>8. p = t \o rest
  <2>1. p \in Seq(V \cup {Slash}) /\ t \in Seq(V \cup {Slash})
    BY <1>7
  <2>2. rest \in Seq(V \cup {Slash}) /\ Len(rest) = Len(p) - m
    BY <1>5
  <2>3. \A i \in 1..(Len(p) - m) : rest[i] = p[m + i]
    BY <1>5
  <2> DEFINE W == V \cup {Slash}
  <2> HIDE DEF t, rest, W
  <2>4. t \o rest \in Seq(W) /\ Len(t \o rest) = Len(p) /\ p \in Seq(W)
    <3>1. p \in Seq(W) /\ t \in Seq(W) /\ rest \in Seq(W)
      BY <2>1, <2>2, Zenon DEF W
    <3>2. t \o rest \in Seq(W) /\ Len(t \o rest) = Len(t) + Len(rest)
      BY <3>1
    <3>3. Len(t) = m /\ Len(rest) = Len(p) - m /\ m \in Int /\ Len(p) \in Int
      BY <1>5, <1>7, <2>2
    <3>4. Len(t) + Len(rest) = Len(p)
      BY <3>3
    <3> QED
      BY <3>1, <3>2, <3>4, Zenon
  <2>5. ASSUME NEW i \in 1..Len(p) PROVE p[i] = (t \o rest)[i]
    <3>1. t \in Seq(W) /\ rest \in Seq(W)
      BY <2>1, <2>2 DEF W
    <3>2. CASE i <= m
      BY <1>5, <1>7, <2>2, <3>1, <3>2
    <3>3. CASE i > m
      <4>1. i - m \in 1..(Len(p) - m) /\ m + (i - m) = i
        BY <1>5, <3>3
      <4>2. (t \o rest)[i] = rest[i - m]
        BY <1>5, <1>7, <2>2, <3>1, <3>3
      <4> QED
        BY <2>3, <4>1, <4>2
    <3>4. i <= m \/ i > m
      BY <1>5
    <3> QED
      BY <3>2, <3>3, <3>4
  <2> QED
    BY <2>4, <2>5, SeqEqual
<1>9. Len(t) > 0 => Last(t) # Slash
  BY <1>5, <1>6, <1>7 DEF Last
<1>10. Len(p) - m \in 0..Len(p)
  BY <1>5
<1> QED
  BY <1>1, <1>8, <1>9, <1>10

(* The prefix of a loaded configuration is the configured one, if any,      *)
(* without slashes at its end, and at most the root ends in one.            *)
LEMMA TrimmedPrefixTrims ==
  ASSUME NEW V, NEW p \in Seq(V)
  PROVE  /\ p = <<>> \/ \E n \in 0..Len(p) : p = TrimmedPrefix(p) \o [i \in 1..n |-> Slash]
         /\ Len(TrimmedPrefix(p)) > 1 => Last(TrimmedPrefix(p)) # Slash
<1>1. CASE p = <<"/">>
  <2>1. TrimmedPrefix(p) = p
    BY <1>1 DEF TrimmedPrefix
  <2>2. Len(p) = 1
    BY <1>1
  <2>3. p = p \o [i \in 1..0 |-> Slash] /\ 0 \in 0..Len(p)
    OBVIOUS
  <2> QED
    BY <2>1, <2>2, <2>3
<1>2. CASE p # <<"/">> /\ p # <<>>
  <2>1. TrimmedPrefix(p) = TrimRight(p)
    BY <1>2 DEF TrimmedPrefix
  <2>2. Len(TrimRight(p)) > 1 => Len(TrimRight(p)) > 0
    OBVIOUS
  <2> QED
    BY <2>1, <2>2, TrimRightTrims
<1>3. CASE p # <<"/">> /\ p = <<>>
  <2>1. TrimmedPrefix(p) = TrimRight(DefaultPrefix)
    BY <1>3 DEF TrimmedPrefix
  <2>2. DefaultPrefix \in Seq({"/", "v1"})
    BY DEF DefaultPrefix
  <2>3. Len(TrimRight(DefaultPrefix)) > 0 => Last(TrimRight(DefaultPrefix)) # Slash
    BY <2>2, TrimRightTrims
  <2> QED
    BY <1>3, <2>1, <2>3
<1> QED
  BY <1>1, <1>2, <1>3

(* What ParseConfig makes of each field of a configuration it accepts.      *)
Parsed(raw, e, conf) ==
  /\ Validate(conf)
  /\ \A f \in DOMAIN Bounds : conf.numbers[f] = Defaulted(raw.numbers[f], Bounds[f])
  /\ \A f \in DOMAIN DefaultTexts : raw.texts[f] \in {"", conf.texts[f]}
  /\ \A s \in FromEnv : conf.secrets[s] = IF raw.secrets[s] = "" THEN e[s] ELSE raw.secrets[s]
  /\ conf.prefix = TrimmedPrefix(raw.prefix)
  /\ conf.claim = IF raw.claim = <<>> THEN DefaultConsumerClaim ELSE raw.claim
  /\ conf.forward = raw.forward
  /\ conf.fail_open = raw.fail_open

(* And so it does, whatever was configured.                                 *)
LEMMA ParsedFields ==
  ASSUME NEW raw \in RawConfig, NEW e \in [FromEnv -> STRING],
         NEW conf, conf = ParseConfig(raw, e), conf # Rejected
  PROVE  Parsed(raw, e, conf)
<1> DEFINE defaulted == applyDefaults(raw)
<1>1. conf = applyEnv(defaulted, e) /\ Validate(conf)
  BY Zenon DEF ParseConfig
<1>2. DOMAIN raw = {"consent_api_url", "owner_resolver_url", "prefix", "numbers", "texts", "claim",
                    "forward", "secrets", "participant_token", "audit_enabled", "fail_open"}
  BY DEF RawConfig
<1>3. /\ \A f \in DOMAIN Bounds : defaulted.numbers[f] = Defaulted(raw.numbers[f], Bounds[f])
      /\ \A f \in DOMAIN DefaultTexts :
           raw.texts[f] = "" \/ raw.texts[f] = defaulted.texts[f]
      /\ defaulted.secrets = raw.secrets
      /\ defaulted.prefix = TrimmedPrefix(raw.prefix)
      /\ defaulted.claim = IF raw.claim = <<>> THEN DefaultConsumerClaim ELSE raw.claim
      /\ defaulted.forward = raw.forward
      /\ defaulted.fail_open = raw.fail_open
      /\ DOMAIN defaulted = DOMAIN raw
  BY <1>2 DEF applyDefaults
<1> HIDE DEF defaulted
<1>4. /\ \A s \in FromEnv :
           conf.secrets[s] = IF defaulted.secrets[s] = "" THEN e[s] ELSE defaulted.secrets[s]
      /\ conf.numbers = defaulted.numbers /\ conf.texts = defaulted.texts
      /\ conf.prefix = defaulted.prefix /\ conf.claim = defaulted.claim
      /\ conf.forward = defaulted.forward /\ conf.fail_open = defaulted.fail_open
  <2> DEFINE secrets == [s \in FromEnv |-> IF defaulted.secrets[s] = "" THEN e[s] ELSE defaulted.secrets[s]]
  <2>1. conf = [defaulted EXCEPT !.secrets = secrets]
    BY <1>1, Zenon DEF applyEnv
  <2>2. {"secrets", "numbers", "texts", "prefix", "claim", "forward", "fail_open"} \subseteq DOMAIN defaulted
    BY <1>2, <1>3
  <2>3. \A s \in FromEnv : secrets[s] = IF defaulted.secrets[s] = "" THEN e[s] ELSE defaulted.secrets[s]
    OBVIOUS
  <2> HIDE DEF secrets
  <2>4. conf.secrets = secrets
    BY <2>1, <2>2
  <2>5. /\ conf.numbers = defaulted.numbers /\ conf.texts = defaulted.texts
        /\ conf.prefix = defaulted.prefix /\ conf.claim = defaulted.claim
        /\ conf.forward = defaulted.forward /\ conf.fail_open = defaulted.fail_open
    BY <2>1, <2>2
  <2> QED
    BY <2>3, <2>4, <2>5, Zenon
<1>5. /\ \A f \in DOMAIN Bounds : conf.numbers[f] = Defaulted(raw.numbers[f], Bounds[f])
      /\ \A f \in DOMAIN DefaultTexts : raw.texts[f] \in {"", conf.texts[f]}
      /\ \A s \in FromEnv : conf.secrets[s] = IF raw.secrets[s] = "" THEN e[s] ELSE raw.secrets[s]
  BY <1>3, <1>4, Zenon
<1> QED
  BY <1>1, <1>3, <1>4, <1>5, Zenon DEF Parsed

(* The bounds of the numbers are natural numbers.                           *)
LEMMA BoundsAreNumbers ==
  \A f \in DOMAIN Bounds : Bounds[f].min \in Nat /\ Bounds[f].max \in Nat /\ Bounds[f].default \in Nat
BY DEF Bounds

(* The timeouts and the token's lifetime have 1 as their lower bound.       *)
LEMMA LowestBounds ==
  /\ "consent_api_timeout" \in DOMAIN Bounds /\ Bounds["consent_api_timeout"].min = 1
  /\ "owner_resolver_timeout" \in DOMAIN Bounds /\ Bounds["owner_resolver_timeout"].min = 1
  /\ "participant_token_ttl" \in DOMAIN Bounds /\ Bounds["participant_token_ttl"].min = 1
BY DEF Bounds

(* The numbers of a loaded configuration are in range, and those that were  *)
(* set are the ones that were set.                                          *)
LEMMA ParsedNumbers ==
  ASSUME NEW raw \in RawConfig, NEW e \in [FromEnv -> STRING],
         NEW conf, conf = ParseConfig(raw, e), conf # Rejected, NEW f \in DOMAIN Bounds
  PROVE  /\ conf.numbers[f] \in Bounds[f].min..Bounds[f].max
         /\ raw.numbers[f] \in {0, conf.numbers[f]}
<1>0. Parsed(raw, e, conf)
  BY ParsedFields
<1>1. conf.numbers[f] = Defaulted(raw.numbers[f], Bounds[f]) /\ InBounds(conf.numbers[f], Bounds[f])
  <2>1. conf.numbers[f] = Defaulted(raw.numbers[f], Bounds[f]) /\ Validate(conf)
    BY <1>0, Zenon DEF Parsed
  <2>2. InBounds(conf.numbers[f], Bounds[f])
    BY <2>1, Zenon DEF Validate
  <2> QED
    BY <2>1, <2>2
<1>2. raw.numbers[f] \in Int
  BY DEF RawConfig
<1>3. Bounds[f].min \in Nat /\ Bounds[f].max \in Nat /\ Bounds[f].default \in Nat
  BY BoundsAreNumbers
<1> QED
  BY <1>1, <1>2, <1>3 DEF Defaulted, InBounds

(* What ParseConfig accepts is sound, whatever was configured.              *)
LEMMA ParsedIsSound ==
  ASSUME NEW raw \in RawConfig, NEW e \in [FromEnv -> STRING],
         NEW conf, conf = ParseConfig(raw, e), conf # Rejected
  PROVE  /\ \A f \in DOMAIN Bounds : conf.numbers[f] \in Bounds[f].min..Bounds[f].max
         /\ ~NoCredentials(ConsentClient(conf))
         /\ conf.secrets["token_service_url"] = "" \/ conf.secrets["token_service_url"] \in HttpURLs
         /\ conf.audit_enabled => conf.secrets["audit_otlp_endpoint"] # ""
         /\ Head(conf.prefix) = "/"
         /\ Len(conf.prefix) > 1 => Last(conf.prefix) # "/"
<1>0. Parsed(raw, e, conf)
  BY ParsedFields
<1>1. Validate(conf)
  BY <1>0, Zenon DEF Parsed
<1>2. /\ conf.secrets["token_service_url"] = "" \/ conf.secrets["token_service_url"] \in HttpURLs
      /\ conf.secrets["token_service_url"] # "" \/ conf.participant_token # ""
      /\ conf.audit_enabled => conf.secrets["audit_otlp_endpoint"] # ""
      /\ Head(conf.prefix) = "/"
  BY <1>1, Zenon DEF Validate
<1>3. ~NoCredentials(ConsentClient(conf))
  <2>1. /\ ConsentClient(conf).staticToken = conf.participant_token
        /\ ConsentClient(conf).tokenService = conf.secrets["token_service_url"]
    BY DEF ConsentClient
  <2> QED
    BY <1>2, <2>1, Zenon DEF NoCredentials
<1>4. raw.prefix \in Seq(STRING)
  BY DEF RawConfig
<1>5. conf.prefix = TrimmedPrefix(raw.prefix)
  BY <1>0, Zenon DEF Parsed
<1>6. Len(conf.prefix) > 1 => Last(conf.prefix) # "/"
  BY <1>4, <1>5, TrimmedPrefixTrims DEF Slash
<1>7. \A f \in DOMAIN Bounds : conf.numbers[f] \in Bounds[f].min..Bounds[f].max
  BY ParsedNumbers
<1> QED
  BY <1>2, <1>3, <1>6, <1>7

(* What ParseConfig accepts has kept every field that was set.              *)
LEMMA ParsedReplacesNothing ==
  ASSUME NEW raw \in RawConfig, NEW e \in [FromEnv -> STRING],
         NEW conf, conf = ParseConfig(raw, e), conf # Rejected
  PROVE  LET client == ConsentClient(conf)
         IN /\ \A f \in DOMAIN Bounds : raw.numbers[f] \in {0, conf.numbers[f]}
            /\ \A s \in FromEnv : conf.secrets[s] = IF raw.secrets[s] = "" THEN e[s] ELSE raw.secrets[s]
            /\ \A f \in DOMAIN DefaultTexts : raw.texts[f] \in {"", conf.texts[f]}
            /\ raw.claim \in {<<>>, conf.claim}
            /\ raw.prefix = <<>> \/ \E n \in 0..Len(raw.prefix) :
                 raw.prefix = conf.prefix \o [i \in 1..n |-> "/"]
            /\ client.timeout = conf.numbers.consent_api_timeout
            /\ client.tokenTTL = conf.numbers.participant_token_ttl
            /\ client.prefix = conf.prefix
            /\ ResolverTimeout(conf) = conf.numbers.owner_resolver_timeout
            /\ IsFailOpen(conf) => raw.fail_open = "true"
<1>0. Parsed(raw, e, conf)
  BY ParsedFields
<1>1. \A f \in DOMAIN Bounds : raw.numbers[f] \in {0, conf.numbers[f]}
  BY ParsedNumbers
<1>2. \A s \in FromEnv : conf.secrets[s] = IF raw.secrets[s] = "" THEN e[s] ELSE raw.secrets[s]
  BY <1>0, Zenon DEF Parsed
<1>3. \A f \in DOMAIN DefaultTexts : raw.texts[f] \in {"", conf.texts[f]}
  BY <1>0, Zenon DEF Parsed
<1>4. raw.claim \in {<<>>, conf.claim}
  <2>1. conf.claim = IF raw.claim = <<>> THEN DefaultConsumerClaim ELSE raw.claim
    BY <1>0, Zenon DEF Parsed
  <2> QED
    BY <2>1
<1>5. raw.prefix = <<>> \/ \E n \in 0..Len(raw.prefix) :
        raw.prefix = conf.prefix \o [i \in 1..n |-> "/"]
  <2>1. raw.prefix \in Seq(STRING)
    BY DEF RawConfig
  <2>2. conf.prefix = TrimmedPrefix(raw.prefix)
    BY <1>0, Zenon DEF Parsed
  <2> QED
    BY <2>1, <2>2, TrimmedPrefixTrims DEF Slash
<1>6. \A f \in {"consent_api_timeout", "owner_resolver_timeout", "participant_token_ttl"} :
        conf.numbers[f] \in Int /\ conf.numbers[f] >= 1
  BY ParsedNumbers, LowestBounds, BoundsAreNumbers
<1>7. conf.prefix # <<>> /\ conf.fail_open = raw.fail_open
  <2>1. Validate(conf) /\ conf.fail_open = raw.fail_open
    BY <1>0, Zenon DEF Parsed
  <2> QED
    BY <2>1, Zenon DEF Validate
<1>8. /\ ConsentClient(conf).timeout = conf.numbers.consent_api_timeout
      /\ ConsentClient(conf).tokenTTL = conf.numbers.participant_token_ttl
      /\ ConsentClient(conf).prefix = conf.prefix
  BY <1>6, <1>7 DEF ConsentClient
<1>9. ResolverTimeout(conf) = conf.numbers.owner_resolver_timeout
  BY <1>6 DEF ResolverTimeout
<1> QED
  BY <1>1, <1>2, <1>3, <1>4, <1>5, <1>7, <1>8, <1>9, Zenon DEF IsFailOpen
-----------------------------------------------------------------------------
(* What the request phase left, and what the response phase made of it.     *)
KeptClaims ==
  IF request.kind = "readable" /\ request.header = loaded["pre"].texts.jwt_header_name
  THEN DecodeClaims(request.claims, claimKeysToDecode(loaded["pre"].forward, loaded["pre"].claim))
  ELSE NoClaims

(* Each phase has its own configuration, parsed, or none yet; a phase that  *)
(* has run had one that was accepted, and left what it makes of it.         *)
RouteInv ==
  /\ route \in [pre : RawConfig, post : RawConfig]
  /\ env \in [FromEnv -> STRING]
  /\ pc \in Filters \cup {"done"}
  /\ DOMAIN loaded = Filters
  /\ \A f \in Filters : loaded[f] \in {NotLoaded, ParseConfig(route[f], env)}
  /\ pc # "pre" => "pre" \in Loaded /\ claims = KeptClaims
  /\ pc = "done" => /\ "post" \in Loaded
                    /\ consumer = consumerFromClaims(claims, loaded["post"].claim)

(* A route without configurations satisfies the invariant, and every step   *)
(* keeps it.                                                                *)
LEMMA RouteInvHolds ==
  /\ RouteInit => RouteInv
  /\ RouteInv /\ [RouteNext]_routeVars => RouteInv'
<1>1. ASSUME RouteInit PROVE RouteInv
  <2>1. PICK case \in Cases : route = case.route /\ env = case.env
    BY <1>1 DEF RouteInit
  <2>2. route \in [pre : RawConfig, post : RawConfig] /\ env \in [FromEnv -> STRING]
    BY <2>1, ConsumerIdentityAssumption
  <2>3. pc = "pre" /\ loaded = [f \in Filters |-> NotLoaded]
    BY <1>1 DEF RouteInit
  <2>4. DOMAIN loaded = Filters /\ \A f \in Filters : loaded[f] = NotLoaded
    BY <2>3
  <2>5. pc \in Filters /\ pc # "done" /\ ~(pc # "pre")
    BY <2>3 DEF Filters
  <2> QED
    BY <2>2, <2>4, <2>5 DEF RouteInv
<1>2. ASSUME RouteInv, [RouteNext]_routeVars PROVE RouteInv'
  <2>1. CASE UNCHANGED routeVars
    BY <1>2, <2>1 DEF RouteInv, routeVars, KeptClaims, Loaded
  <2>2. ASSUME NEW p \in Filters, ParseConf(p) PROVE RouteInv'
    <3>1. /\ loaded[p] = NotLoaded /\ loaded' = [loaded EXCEPT ![p] = ParseConfig(route[p], env)]
          /\ UNCHANGED <<route, env, request, pc, claims, consumer>>
      BY <2>2 DEF ParseConf
    <3>2. /\ DOMAIN loaded' = Filters
          /\ \A f \in Filters : loaded'[f] = IF f = p THEN ParseConfig(route[f], env) ELSE loaded[f]
      BY <1>2, <3>1 DEF RouteInv
    <3>3. \A f \in Loaded : f # p /\ f \in Loaded' /\ loaded'[f] = loaded[f]
      BY <3>1, <3>2 DEF Loaded
    <3>4. pc' # "pre" => "pre" \in Loaded' /\ claims' = KeptClaims'
      BY <1>2, <3>1, <3>3 DEF RouteInv, KeptClaims
    <3>5. pc' = "done" => /\ "post" \in Loaded'
                         /\ consumer' = consumerFromClaims(claims', loaded'["post"].claim)
      BY <1>2, <3>1, <3>3 DEF RouteInv
    <3> QED
      BY <1>2, <3>1, <3>2, <3>4, <3>5 DEF RouteInv
  <2>3. CASE RequestFilter
    <3>1. /\ "pre" \in Loaded /\ pc = "pre" /\ pc' = "post" /\ claims' = KeptClaims
          /\ UNCHANGED <<route, env, request, loaded, consumer>>
      BY <2>3 DEF RequestFilter, Runs, Loaded, Filters, KeptClaims
    <3>2. KeptClaims' = KeptClaims /\ Loaded' = Loaded
      BY <3>1 DEF KeptClaims, Loaded
    <3> QED
      BY <1>2, <3>1, <3>2 DEF RouteInv, Filters
  <2>4. CASE ReadConsumer
    <3>1. /\ "post" \in Loaded /\ pc = "post" /\ pc' = "done"
          /\ consumer' = consumerFromClaims(claims, loaded["post"].claim)
          /\ UNCHANGED <<route, env, request, loaded, claims>>
      BY <2>4 DEF ReadConsumer, Runs, Loaded, Filters
    <3>2. KeptClaims' = KeptClaims /\ Loaded' = Loaded
      BY <3>1 DEF KeptClaims, Loaded
    <3> QED
      BY <1>2, <3>1, <3>2 DEF RouteInv, Filters
  <2>5. CASE Terminated
    BY <2>1, <2>5 DEF Terminated
  <2> QED
    BY <1>2, <2>1, <2>2, <2>3, <2>4, <2>5 DEF RouteNext
<1> QED
  BY <1>1, <1>2

(* The invariant of a route holds in every state, for any configurations    *)
(* and environments the cases give it, and any claims of its request.       *)
THEOREM RouteInvariant == RouteSpec => []RouteInv
<1>1. RouteInit => RouteInv
  BY RouteInvHolds
<1>2. RouteInv /\ [RouteNext]_routeVars => RouteInv'
  BY RouteInvHolds
<1> QED
  BY <1>1, <1>2, PTL DEF RouteSpec

(* What is loaded is what ParseConfig made of the route, and was accepted.  *)
LEMMA LoadedIsParsed ==
  ASSUME RouteInv, NEW f \in Loaded
  PROVE  /\ f \in Filters /\ route[f] \in RawConfig /\ env \in [FromEnv -> STRING]
         /\ loaded[f] = ParseConfig(route[f], env) /\ loaded[f] # Rejected
<1>1. f \in Filters /\ loaded[f] # NotLoaded /\ loaded[f] # Rejected
  BY DEF Loaded
<1> QED
  BY <1>1 DEF RouteInv, Filters

(* A loaded configuration has a path of segments and a sequence of claims   *)
(* to forward.                                                              *)
LEMMA LoadedClaimIsAPath ==
  ASSUME RouteInv, NEW f \in Loaded
  PROVE  loaded[f].claim \in Seq(PathSegment) /\ loaded[f].forward \in Seq(STRING)
<1>1. /\ route[f] \in RawConfig /\ env \in [FromEnv -> STRING]
      /\ loaded[f] = ParseConfig(route[f], env) /\ loaded[f] # Rejected
  BY LoadedIsParsed
<1>2. /\ loaded[f].claim = IF route[f].claim = <<>> THEN DefaultConsumerClaim ELSE route[f].claim
      /\ loaded[f].forward = route[f].forward
  <2> DEFINE raw == route[f]
             conf == loaded[f]
  <2> HIDE DEF raw, conf
  <2>1. /\ raw \in RawConfig /\ env \in [FromEnv -> STRING]
        /\ conf = ParseConfig(raw, env) /\ conf # Rejected
    BY <1>1 DEF raw, conf
  <2>2. /\ conf.claim = IF raw.claim = <<>> THEN DefaultConsumerClaim ELSE raw.claim
        /\ conf.forward = raw.forward
    <3>1. Parsed(raw, env, conf)
      BY <2>1, ParsedFields
    <3> QED
      BY <3>1, Zenon DEF Parsed
  <2> QED
    BY <2>2 DEF raw, conf
<1>3. route[f].claim \in Seq(PathSegment) /\ route[f].forward \in Seq(STRING)
  <2>1. route[f].claim \in Seq(Segment) /\ route[f].forward \in Seq(STRING)
    BY <1>1 DEF RawConfig, Path
  <2>2. Segment \subseteq PathSegment
    BY DEF Segment, PathSegment
  <2> QED
    BY <2>1, <2>2
<1>4. DefaultConsumerClaim \in Seq(PathSegment)
  <2> DEFINE vc == [name |-> "verifiableCredential", indices |-> <<>>, wellFormed |-> TRUE]
             issuer == [name |-> "issuer", indices |-> <<>>, wellFormed |-> TRUE]
  <2>1. ASSUME NEW n \in {"verifiableCredential", "issuer"}, NEW indices \in Seq(Nat)
        PROVE  [name |-> n, indices |-> indices, wellFormed |-> TRUE] \in PathSegment
    BY DEF PathSegment
  <2>2. vc \in PathSegment /\ issuer \in PathSegment
    <3>1. <<>> \in Seq(Nat)
      OBVIOUS
    <3> QED
      BY <2>1, <3>1, Zenon
  <2> HIDE DEF vc, issuer
  <2>3. <<vc, issuer>> \in Seq(PathSegment)
    BY <2>2
  <2> QED
    BY <2>3, Zenon DEF DefaultConsumerClaim, vc, issuer
<1> QED
  BY <1>2, <1>3, <1>4

(* No route is loaded that the phases could not work with.                  *)
THEOREM LoadedRoutesAreSound == RouteSpec => []LoadedRouteIsSound
<1>1. RouteInv => LoadedRouteIsSound
  BY LoadedIsParsed, ParsedIsSound DEF LoadedRouteIsSound
<1> QED
  BY <1>1, RouteInvariant, PTL

(* What the operator set is what the phases and their clients use.          *)
THEOREM NothingSetIsEverReplaced == RouteSpec => []NothingSetIsReplaced
<1>1. RouteInv => NothingSetIsReplaced
  BY LoadedIsParsed, ParsedReplacesNothing DEF NothingSetIsReplaced
<1> QED
  BY <1>1, RouteInvariant, PTL

(* The consumer is the one that the token's own claims name, or none, and   *)
(* not none where both phases are configured alike.                         *)
THEOREM ConsumersAreTheTokens == RouteSpec => []ConsumerIsTheTokens
<1>1. ASSUME RouteInv PROVE ConsumerIsTheTokens
  <2>1. SUFFICES ASSUME pc = "done" PROVE ConsumerIsTheTokens
    BY DEF ConsumerIsTheTokens
  <2> DEFINE pre == loaded["pre"]
             path == loaded["post"].claim
             keys == claimKeysToDecode(pre.forward, pre.claim)
             named == consumerFromClaims(request.claims, path)
  <2>2. /\ "pre" \in Loaded /\ "post" \in Loaded
        /\ claims = KeptClaims /\ consumer = consumerFromClaims(claims, path)
    BY <1>1, <2>1 DEF RouteInv
  <2>3. path \in Seq(PathSegment) /\ pre.claim \in Seq(PathSegment) /\ pre.forward \in Seq(STRING)
    BY <1>1, <2>2, LoadedClaimIsAPath
  <2>4. consumer \in {named, NoConsumer}
    <3>1. CASE claims = DecodeClaims(request.claims, keys)
      <4> HIDE DEF keys, path
      <4>1. consumerFromClaims(DecodeClaims(request.claims, keys), path) \in
              {consumerFromClaims(request.claims, path), NoConsumer}
        BY <2>3, NoOtherConsumer
      <4> QED
        BY <2>2, <3>1, <4>1
    <3>2. CASE claims = NoClaims
      <4>1. DOMAIN claims = {}
        BY <3>2 DEF NoClaims
      <4>2. consumer = NoConsumer
        BY <2>2, <4>1 DEF consumerFromClaims
      <4> QED
        BY <4>2
    <3> QED
      BY <2>2, <3>1, <3>2 DEF KeptClaims
  <2>5. ASSUME Agree("claim"), request.kind = "readable",
               request.header = pre.texts.jwt_header_name, claimPathRoot(pre.claim) # ""
        PROVE  consumer = named
    <3>1. pre.claim = path
      BY <2>5 DEF Agree
    <3>2. claims = DecodeClaims(request.claims, keys)
      BY <2>2, <2>5 DEF KeptClaims
    <3>3. HasName(Head(path))
      BY <2>5, <3>1 DEF HasName, claimPathRoot
    <3> DEFINE forward == pre.forward
    <3> HIDE DEF pre, path, forward
    <3>4. consumerFromClaims(DecodeClaims(request.claims, claimKeysToDecode(forward, path)), path) =
            consumerFromClaims(request.claims, path)
      BY <2>3, <3>3, ConsumerIsKept DEF forward
    <3> QED
      BY <2>2, <3>1, <3>2, <3>4 DEF forward
  <2> QED
    BY <2>4, <2>5 DEF ConsumerIsTheTokens
<1> QED
  BY <1>1, RouteInvariant, PTL

(* Whatever the claims and the path, the consumer that is read is the one   *)
(* string at an address of the path.                                        *)
THEOREM ConsumersAreWhatThePathNames == RouteSpec => []ReadsWhatThePathNames
<1>1. ASSUME RouteInv PROVE ReadsWhatThePathNames
  <2>1. SUFFICES ASSUME pc = "done" PROVE ReadsWhatThePathNames
    BY DEF ReadsWhatThePathNames
  <2> DEFINE path == loaded["post"].claim
             named == IF \A i \in 1..Len(path) : path[i].wellFormed
                      THEN Named(Object(claims), path) ELSE {}
  <2>2. "post" \in Loaded /\ consumer = consumerFromClaims(claims, path)
    BY <1>1, <2>1 DEF RouteInv
  <2>3. path \in Seq(PathSegment)
    BY <1>1, <2>2, LoadedClaimIsAPath
  <2>4. IF named = {} THEN consumer = NoConsumer ELSE named = {consumer}
    BY <2>2, <2>3, ReadsTheNamed
  <2> QED
    BY <2>4 DEF ReadsWhatThePathNames
<1> QED
  BY <1>1, RouteInvariant, PTL
=============================================================================
