------------------------- MODULE RequestContextStore -------------------------
(***************************************************************************)
(* The store that bridges a request's two phases                           *)
(* (src/internal/plugin/context.go): RequestFilter leaves the context of a *)
(* request under its Nginx $request_id, ResponseFilter consumes it, and    *)
(* the entries of requests whose response never comes are bounded by a     *)
(* TTL, swept by a janitor, and by a cap, enforced when storing.           *)
(*                                                                         *)
(* Every operation holds requestContextMu throughout and is one action,    *)
(* but the janitor reads the clock before it takes the mutex.              *)
(***************************************************************************)
EXTENDS Naturals, FiniteSets

CONSTANTS
  Keys,                (* the request ids of the requests that arrive       *)
  MaxRequestContexts,  (* the cap                                           *)
  Batch,               (* contextEvictionBatch                              *)
  TTL,                 (* RequestContextTTL                                 *)
  MaxTime              (* bound: the clock stops here, and requests arrive  *)
                       (* only while their context can outlive its TTL      *)

ASSUME RequestContextStoreAssumption ==
  /\ IsFiniteSet(Keys)
  /\ MaxRequestContexts \in Nat \ {0}
  /\ Batch \in 1..MaxRequestContexts
  /\ TTL \in Nat
  /\ MaxTime \in Nat

VARIABLES
  now,         (* the clock                                                 *)
  held,        (* the keys of requestContextStore                           *)
  storedAt,    (* when each key was last stored                             *)
  evicted,     (* contextsEvicted                                           *)
  janitor,     (* the janitor goroutine                                     *)
  janitorNow,  (* the time.Now() its sweep was called with                  *)
  phase,       (* how far each request is                                   *)
  inserted,    (* history: entries the store has taken on                   *)
  consumed,    (* history: entries handed to a response phase               *)
  overflowed   (* history: live entries have been evicted for space         *)

vars == <<now, held, storedAt, evicted, janitor, janitorNow, phase,
          inserted, consumed, overflowed>>

(* A request whose request phase runs a second time under the same id is    *)
(* "rerun": StoreRequestContext then overwrites the first context.  Its     *)
(* response phase finds a context ("gated") or does not ("unresolved").     *)
Phases == {"new", "upstream", "rerun", "gated", "unresolved", "abandoned"}
AtUpstream == {"upstream", "rerun"}

Init ==
  /\ now = 0
  /\ held = {}
  /\ storedAt = [k \in Keys |-> 0]
  /\ evicted = 0
  /\ janitor = "off"
  /\ janitorNow = 0
  /\ phase = [k \in Keys |-> "new"]
  /\ inserted = 0
  /\ consumed = 0
  /\ overflowed = FALSE

(* Variant: an entry exactly as old as its TTL is taken for expired.        *)
ExpiredAtTTL(t) == {k \in held : t >= storedAt[k] + TTL}

ExpiredAt(t) == {k \in held : t > storedAt[k] + TTL}

(* Variant: the first Batch entries in map order go, whatever their age.    *)
AnyBatches == {S \in SUBSET held : Cardinality(S) = Batch}

(* sort.Slice is not stable and a map has no order: among entries of the    *)
(* same age, any may go.                                                    *)
OldestBatches ==
  {S \in SUBSET held : /\ Cardinality(S) = Batch
                       /\ \A k \in S, l \in held \ S : storedAt[k] <= storedAt[l]}

(* What evictForSpaceLocked may remove from a full store.                   *)
EvictionsForSpace ==
  IF ExpiredAt(now) # {} THEN {ExpiredAt(now)} ELSE OldestBatches

Advance(k) ==
  \/ phase[k] = "new" /\ phase' = [phase EXCEPT ![k] = "upstream"]
  \/ phase[k] = "upstream" /\ phase' = [phase EXCEPT ![k] = "rerun"]

Put(k, evictions) ==
  /\ held' = (held \ evictions) \cup {k}
  /\ storedAt' = [storedAt EXCEPT ![k] = now]
  /\ evicted' = evicted + Cardinality(evictions)
  /\ inserted' = IF k \in held THEN inserted ELSE inserted + 1
  /\ janitor' = IF janitor = "off" THEN "idle" ELSE janitor
  /\ overflowed' = (overflowed \/ ~(evictions \subseteq ExpiredAt(now)))
  /\ UNCHANGED <<now, janitorNow, consumed>>

(* Variant: the store makes room only once it is above its cap.             *)
StoreAboveCap(k) ==
  /\ now + TTL < MaxTime
  /\ Advance(k)
  /\ \/ /\ Cardinality(held) <= MaxRequestContexts \/ k \in held
        /\ Put(k, {})
     \/ /\ Cardinality(held) > MaxRequestContexts /\ k \notin held
        /\ \E evictions \in EvictionsForSpace : Put(k, evictions)

(* The request phase reaches StoreRequestContext.                           *)
StoreRequestContext(k) ==
  /\ now + TTL < MaxTime
  /\ Advance(k)
  /\ \/ /\ Cardinality(held) < MaxRequestContexts \/ k \in held
        /\ Put(k, {})
     \/ /\ Cardinality(held) >= MaxRequestContexts /\ k \notin held
        /\ \E evictions \in EvictionsForSpace : Put(k, evictions)

(* Variant: the context is loaded but not deleted.                          *)
LoadRequestContext(k) ==
  /\ phase[k] \in AtUpstream
  /\ \/ /\ k \in held \ ExpiredAt(now)
        /\ phase' = [phase EXCEPT ![k] = "gated"]
        /\ consumed' = consumed + 1
     \/ /\ k \notin held \ ExpiredAt(now)
        /\ phase' = [phase EXCEPT ![k] = "unresolved"]
        /\ UNCHANGED consumed
  /\ UNCHANGED <<now, held, storedAt, evicted, janitor, janitorNow, inserted,
                 overflowed>>

(* Variant: a context found past its TTL is removed without being counted.  *)
LoadAndDeleteUncounted(k) ==
  /\ phase[k] \in AtUpstream
  /\ held' = held \ {k}
  /\ \/ /\ k \in held \ ExpiredAt(now)
        /\ phase' = [phase EXCEPT ![k] = "gated"]
        /\ consumed' = consumed + 1
     \/ /\ k \notin held \ ExpiredAt(now)
        /\ phase' = [phase EXCEPT ![k] = "unresolved"]
        /\ UNCHANGED consumed
  /\ UNCHANGED <<now, storedAt, evicted, janitor, janitorNow, inserted, overflowed>>

(* The response phase consumes its context; one past its TTL is removed,    *)
(* counted, and reported absent.                                            *)
LoadAndDeleteRequestContext(k) ==
  /\ phase[k] \in AtUpstream
  /\ held' = held \ {k}
  /\ \/ /\ k \in held \ ExpiredAt(now)
        /\ phase' = [phase EXCEPT ![k] = "gated"]
        /\ consumed' = consumed + 1
        /\ UNCHANGED evicted
     \/ /\ k \in ExpiredAt(now)
        /\ phase' = [phase EXCEPT ![k] = "unresolved"]
        /\ evicted' = evicted + 1
        /\ UNCHANGED consumed
     \/ /\ k \notin held
        /\ phase' = [phase EXCEPT ![k] = "unresolved"]
        /\ UNCHANGED <<evicted, consumed>>
  /\ UNCHANGED <<now, storedAt, janitor, janitorNow, inserted, overflowed>>

(* The response phase never runs: the client left, the upstream timed out.  *)
Abandon(k) ==
  /\ phase[k] \in AtUpstream
  /\ phase' = [phase EXCEPT ![k] = "abandoned"]
  /\ UNCHANGED <<now, held, storedAt, evicted, janitor, janitorNow, inserted,
                 consumed, overflowed>>

(* Variant: the clock is read once, before the loop over the ticker.        *)
JanitorTickStaleClock ==
  /\ janitor = "idle"
  /\ janitor' = "sweeping"
  /\ UNCHANGED <<now, held, storedAt, evicted, janitorNow, phase, inserted,
                 consumed, overflowed>>

(* The ticker fires: sweepRequestContexts(time.Now()) is called, and waits  *)
(* for the mutex.                                                           *)
JanitorTick ==
  /\ janitor = "idle"
  /\ janitor' = "sweeping"
  /\ janitorNow' = now
  /\ UNCHANGED <<now, held, storedAt, evicted, phase, inserted, consumed, overflowed>>

(* It has the mutex: everything expired at the time it read is removed.     *)
JanitorSweep ==
  /\ janitor = "sweeping"
  /\ janitor' = "idle"
  /\ held' = held \ ExpiredAt(janitorNow)
  /\ evicted' = evicted + Cardinality(ExpiredAt(janitorNow))
  /\ UNCHANGED <<now, storedAt, janitorNow, phase, inserted, consumed, overflowed>>

Tick ==
  /\ now < MaxTime
  /\ now' = now + 1
  /\ UNCHANGED <<held, storedAt, evicted, janitor, janitorNow, phase, inserted,
                 consumed, overflowed>>

(* The bound: the clock goes no further.                                    *)
Horizon == now = MaxTime /\ UNCHANGED vars

Next ==
  \/ \E k \in Keys : \/ StoreRequestContext(k)
                     \/ LoadAndDeleteRequestContext(k)
                     \/ Abandon(k)
  \/ JanitorTick
  \/ JanitorSweep
  \/ Tick
  \/ Horizon

(* Time passes and the janitor goroutine, once started, runs for the life   *)
(* of the process; no request owes anyone a response phase.                 *)
Fairness == WF_vars(Tick) /\ WF_vars(JanitorTick) /\ WF_vars(JanitorSweep)

Spec == Init /\ [][Next]_vars
FairSpec == Spec /\ Fairness
-----------------------------------------------------------------------------
(* Types, and what the store may hold: contexts of requests that have been  *)
(* stored and not answered, none from the future.                           *)
TypeOK ==
  /\ now \in 0..MaxTime
  /\ held \subseteq {k \in Keys : phase[k] \in AtUpstream \cup {"abandoned"}}
  /\ storedAt \in [Keys -> 0..now]
  /\ evicted \in Nat
  /\ janitor \in {"off", "idle", "sweeping"}
  /\ janitorNow \in 0..now
  /\ phase \in [Keys -> Phases]
  /\ inserted \in Nat
  /\ consumed \in Nat
  /\ overflowed \in BOOLEAN

(* The cap holds however requests, responses, sweeps and overflows          *)
(* interleave (context.go:62-65, 150-163).                                  *)
SizeBounded == Cardinality(held) <= MaxRequestContexts

(* Every entry the store ever took on is still held, was handed to exactly  *)
(* one response phase, or is counted in contextsEvicted exactly once: the   *)
(* janitor, an overflow and a late response never count one entry twice     *)
(* and never lose one uncounted (context.go:107-111, 204, 225, 262).        *)
EveryEntryAccounted == inserted = Cardinality(held) + consumed + evicted

(* A response phase finds its context iff it comes within the TTL of its    *)
(* (last) request phase, however far behind the janitor's clock is and      *)
(* whether or not it has swept yet; an overflow excuses a loss, and nothing *)
(* excuses deciding on a stale context (context.go:247-266).                *)
ResponseMatchesAge ==
  [][\A k \in Keys :
       /\ phase[k] # "gated" /\ phase'[k] = "gated" => now <= storedAt[k] + TTL
       /\ phase[k] # "unresolved" /\ phase'[k] = "unresolved" =>
            now > storedAt[k] + TTL \/ overflowed]_vars

(* A live context gives way only to a new one, only in a store full of live *)
(* contexts, never to make room that a whole batch would not explain, and   *)
(* never while an older one stays (context.go:171-206).                     *)
OverflowTakesOldest ==
  [][LET lost == {k \in held \ held' : phase'[k] = phase[k] /\ now <= storedAt[k] + TTL}
     IN lost # {} =>
          /\ Cardinality(held) = MaxRequestContexts /\ ExpiredAt(now) = {}
          /\ Cardinality(lost) <= Batch
          /\ \A k \in lost, l \in held \cap held' : storedAt[k] <= storedAt[l]]_vars

(* No context stays for ever, even if no response phase ever runs and no    *)
(* further request arrives (context.go:98-103, 126-142).                     *)
LeakIsReclaimed == \A k \in Keys : k \in held ~> k \notin held
=============================================================================
