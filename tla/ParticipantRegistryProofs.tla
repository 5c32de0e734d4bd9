--------------------- MODULE ParticipantRegistryProofs ---------------------
(***************************************************************************)
(* Proofs about ParticipantRegistry: whatever the number of look-ups, and  *)
(* in whatever order their answers are stored, the cache rests on what the *)
(* registries said, and every asker is told nothing older than the window  *)
(* of its answer.                                                          *)
(***************************************************************************)
EXTENDS ParticipantRegistry, TLAPS

(* A call under way has not outlived its timeout, and what it brought held  *)
(* when it was sent or later.                                               *)
CallsInTime ==
  \A c \in Callers :
    /\ pc[c] \in Calling => now <= since[c] + CallTimeout
    /\ pc[c] = "answered" => sd[c] \in Found /\ HeldSince(ask[c], sd[c], since[c])

IInv == Types /\ CallsInTime /\ ResultsAreFinal /\ CacheRestsOnAnswers

LEMMA TTLOfType == \A v : TTLOf(v) \in Nat \ {0}
BY ParticipantRegistryAssumption DEF TTLOf

LEMMA AnswersFound == ASSUME Types, NEW k \in Keys PROVE Answers(k) \subseteq Found
BY DEF Types, Answers, Found

(* What held at time t or later still counts as having held then, after the *)
(* registries' own steps as after all others.                               *)
LEMMA HeldStays ==
  ASSUME Types, [Next]_vars, NEW k \in Keys, NEW v, NEW t \in 0..now, HeldSince(k, v, t)
  PROVE  HeldSince(k, v, t)'
<1>1. CASE UNCHANGED <<listed, past>>
  BY <1>1 DEF HeldSince, Answers
<1>2. ASSUME NEW j \in Keys, NEW urls \in SUBSET URLs, Change(j, urls)
      PROVE  HeldSince(k, v, t)'
  <2>1. CASE \E p \in past : p.key = k /\ p.answer = v /\ p.until >= t
    BY <1>2, <2>1 DEF Change, HeldSince
  <2>2. CASE v \in Answers(k) /\ j = k
    <3>1. [key |-> k, answer |-> v, until |-> now] \in past'
      BY <1>2, <2>2 DEF Change
    <3>2. now >= t
      BY DEF Types
    <3> QED
      BY <3>1, <3>2 DEF HeldSince
  <2>3. CASE v \in Answers(k) /\ j # k
    <3>1. listed'[k] = listed[k]
      BY <1>2, <2>3 DEF Change, Types
    <3> QED
      BY <2>3, <3>1 DEF HeldSince, Answers
  <2> QED
    BY <2>1, <2>2, <2>3 DEF HeldSince
<1>3. ASSUME NEW c \in Callers, Step(c)
      PROVE  UNCHANGED <<listed, past>>
  BY <1>3 DEF Step, Look, lookupParticipantSD, Answer, Store, Unauthorized, Fails, registry
<1> QED
  BY <1>1, <1>2, <1>3 DEF Next, Tick, Terminated, vars

(* What is known of an entry stays known while the entry stays.             *)
LEMMA EntryStays ==
  ASSUME Types, [Next]_vars, now' \in Nat, now <= now', NEW k \in Keys, NEW v, NEW e \in Nat,
         \E t \in 0..now : HeldSince(k, v, t) /\ e <= t + CallTimeout + TTLOf(v)
  PROVE  \E t \in 0..now' : HeldSince(k, v, t)' /\ e <= t + CallTimeout + TTLOf(v)
<1>1. PICK t \in 0..now : HeldSince(k, v, t) /\ e <= t + CallTimeout + TTLOf(v)
  OBVIOUS
<1>2. HeldSince(k, v, t)'
  BY <1>1, HeldStays
<1>3. t \in 0..now'
  BY DEF Types
<1> QED
  BY <1>1, <1>2, <1>3
-----------------------------------------------------------------------------
(* An empty participant cache satisfies the invariant.                      *)
THEOREM Initially == Init => IInv
<1> SUFFICES ASSUME Init PROVE IInv
  OBVIOUS
<1>1. Types
  BY ParticipantRegistryAssumption DEF Init, Types, Found
<1> QED
  BY <1>1 DEF Init, IInv, CallsInTime, ResultsAreFinal, CacheRestsOnAnswers, Calling

Steps == {"idle", "credentials", "call", "answered", "done"}

LEMMA GotoTypes ==
  ASSUME Types, NEW c \in Callers, NEW step \in Steps, Goto(c, step), now' = now
  PROVE  pc' \in [Callers -> Steps] /\ since' \in [Callers -> 0..now']
<1>1. now \in Nat /\ since \in [Callers -> 0..now] /\ pc \in [Callers -> Steps]
  BY ParticipantRegistryAssumption DEF Types, Steps
<1>2. (IF step = "call" THEN now ELSE IF step = "answered" THEN since[c] ELSE 0) \in 0..now
  BY <1>1
<1> QED
  BY <1>1, <1>2 DEF Goto

LEMMA FinishTypes ==
  ASSUME Types, NEW c \in Callers, NEW answer \in Found \cup {"none", "rejected", "failed"},
         Finish(c, answer), UNCHANGED registry,
         cache' \in [Keys -> [answer : Found \cup {"none"}, expiry : Nat]]
  PROVE  Types'
<1>1. pc' \in [Callers -> Steps] /\ since' \in [Callers -> 0..now']
  <2>1. now' = now /\ Goto(c, "done") /\ "done" \in Steps
    BY DEF Finish, registry, Steps
  <2> QED
    BY <2>1, GotoTypes
<1> QED
  BY <1>1 DEF Types, Finish, registry, Steps

(* One step of one look-up keeps the types.                                 *)
LEMMA StepTypes ==
  ASSUME IInv, NEW c \in Callers, Step(c) PROVE Types'
<1>0. Types /\ CallsInTime
  BY DEF IInv
<1>1. CASE Look(c)
  <2>1. CASE Finish(c, cache[ask[c]].answer)
    <3>1. ask[c] \in Keys
      BY <1>0 DEF Types
    <3>2. cache[ask[c]].answer \in Found \cup {"none", "rejected", "failed"}
      BY <1>0, <3>1 DEF Types
    <3> QED
      BY <1>0, <1>1, <2>1, <3>2, FinishTypes DEF Look, Types
  <2>2. CASE Goto(c, "credentials") /\ UNCHANGED <<result, forced, sd>>
    <3>1. pc' \in [Callers -> Steps] /\ since' \in [Callers -> 0..now']
      BY <1>0, <1>1, <2>2, GotoTypes DEF Look, registry, Steps
    <3> QED
      BY <1>0, <1>1, <2>2, <3>1 DEF Look, registry, Types, Steps
  <2> QED
    BY <1>1, <2>1, <2>2 DEF Look, cacheKey
<1>2. CASE lookupParticipantSD(c)
  <2>1. pc' \in [Callers -> Steps] /\ since' \in [Callers -> 0..now']
    BY <1>0, <1>2, GotoTypes DEF lookupParticipantSD, registry, Steps
  <2> QED
    BY <1>0, <1>2, <2>1 DEF lookupParticipantSD, registry, Types, Steps
<1>3. CASE Answer(c)
  <2>1. pc' \in [Callers -> Steps] /\ since' \in [Callers -> 0..now']
    BY <1>0, <1>3, GotoTypes DEF Answer, registry, Steps
  <2>2. sd' \in [Callers -> Found \cup {"none"}]
    BY <1>0, <1>3, AnswersFound DEF Answer, Types
  <2> QED
    BY <1>0, <1>3, <2>1, <2>2 DEF Answer, registry, Types, Steps
<1>4. CASE Store(c)
  <2>1. now + TTLOf(sd[c]) \in Nat /\ sd[c] \in Found
    BY <1>0, <1>4, TTLOfType DEF Store, CallsInTime, Types
  <2>2. cache' \in [Keys -> [answer : Found \cup {"none"}, expiry : Nat]]
    BY <1>0, <1>4, <2>1 DEF Store, cacheKey, Types
  <2> QED
    BY <1>0, <1>4, <2>1, <2>2, FinishTypes DEF Store
<1>5. CASE Unauthorized(c)
  <2>1. CASE Finish(c, "rejected")
    BY <1>0, <1>5, <2>1, FinishTypes DEF Unauthorized, Types
  <2>2. CASE /\ Goto(c, "credentials")
             /\ forced' = [forced EXCEPT ![c] = TRUE]
             /\ UNCHANGED <<result, sd>>
    <3>1. pc' \in [Callers -> Steps] /\ since' \in [Callers -> 0..now']
      BY <1>0, <1>5, <2>2, GotoTypes DEF Unauthorized, registry, Steps
    <3> QED
      BY <1>0, <1>5, <2>2, <3>1 DEF Unauthorized, registry, Types, Steps
  <2> QED
    BY <1>5, <2>1, <2>2 DEF Unauthorized
<1>6. CASE Fails(c)
  BY <1>0, <1>6, FinishTypes DEF Fails, Types
<1> QED
  BY <1>1, <1>2, <1>3, <1>4, <1>5, <1>6 DEF Step

(* Every step of a lookup, of the owner resolver and of the clock keeps     *)
(* it.                                                                      *)
THEOREM Consecution == IInv /\ [Next]_vars => IInv'
<1> SUFFICES ASSUME IInv, [Next]_vars PROVE IInv'
  OBVIOUS
<1>0. Types /\ CallsInTime /\ ResultsAreFinal /\ CacheRestsOnAnswers
  BY DEF IInv
<1>1. Types'
  <2>1. ASSUME NEW k \in Keys, NEW urls \in SUBSET URLs, Change(k, urls) PROVE Types'
    <3>1. {[key |-> k, answer |-> v, until |-> now] : v \in Answers(k)}
            \subseteq [key : Keys, answer : Found, until : 0..now]
      BY <1>0, AnswersFound DEF Types
    <3> QED
      BY <1>0, <2>1, <3>1 DEF Types, Change
  <2>2. CASE Tick
    BY <1>0, <2>2, ParticipantRegistryAssumption DEF Types, Tick
  <2>3. CASE UNCHANGED vars
    BY <1>0, <2>3 DEF Types, vars
  <2> QED
    BY <2>1, <2>2, <2>3, StepTypes DEF Next, Terminated
<1>2. now' \in Nat /\ now <= now' /\ ask' = ask
  <2>1. ASSUME NEW c \in Callers, Step(c) PROVE UNCHANGED <<now, ask>>
    BY <2>1 DEF Step, Look, lookupParticipantSD, Answer, Store, Unauthorized, Fails, registry
  <2> QED
    BY <1>0, <2>1 DEF Next, Change, Tick, Terminated, vars, Types
<1>3. CallsInTime'
  <2> SUFFICES ASSUME NEW d \in Callers, NEW k, k = ask[d],
                      NEW v, v = sd'[d], NEW t, t = since'[d]
               PROVE  /\ pc'[d] \in Calling => now' <= t + CallTimeout
                      /\ pc'[d] = "answered" => v \in Found /\ HeldSince(k, v, t)'
    BY <1>2 DEF CallsInTime, HeldSince, Answers
  <2>0. k \in Keys /\ now \in Nat /\ CallTimeout \in Nat /\ since[d] \in 0..now
    BY <1>0, ParticipantRegistryAssumption DEF Types
  <2>1. CASE pc'[d] = pc[d] /\ since'[d] = since[d] /\ sd'[d] = sd[d] /\ now' = now
    <3>1. pc[d] = "answered" => HeldSince(k, v, t)'
      BY <1>0, <2>0, <2>1, HeldStays DEF CallsInTime
    <3> QED
      BY <1>0, <2>1, <3>1 DEF CallsInTime
  <2>2. ASSUME NEW c \in Callers, Step(c), c # d
        PROVE  pc'[d] = pc[d] /\ since'[d] = since[d] /\ sd'[d] = sd[d] /\ now' = now
    BY <1>0, <2>2 DEF Step, Look, lookupParticipantSD, Answer, Store, Unauthorized, Fails,
                      registry, Goto, Finish, Types
  <2>3. CASE lookupParticipantSD(d)
    <3>1. pc'[d] = "call" /\ t = now /\ now' = now
      BY <1>0, <2>3 DEF lookupParticipantSD, Goto, registry, Types
    <3> QED
      BY <2>0, <3>1
  <2>4. CASE Answer(d)
    <3>1. v \in Answers(k) /\ t = since[d] /\ pc[d] = "call" /\ now' = now
      BY <1>0, <2>4 DEF Answer, Goto, registry, Types
    <3>2. v \in Answers(k)' /\ v \in Found
      BY <2>0, <1>0, <2>4, <3>1, AnswersFound DEF Answer, Answers, registry
    <3> QED
      BY <1>0, <3>1, <3>2, <1>2 DEF CallsInTime, Calling, HeldSince, Answers
  <2>5. CASE Look(d) \/ Store(d) \/ Unauthorized(d) \/ Fails(d)
    <3>1. pc'[d] \in {"credentials", "done"}
      BY <1>0, <2>5 DEF Look, Store, Unauthorized, Fails, Goto, Finish, Types
    <3> QED
      BY <3>1 DEF Calling
  <2>6. CASE Tick
    <3>0. pc'[d] = pc[d] /\ t = since[d] /\ v = sd[d] /\ now' = now + 1
      BY <2>6 DEF Tick
    <3>1. pc[d] = "answered" => HeldSince(k, v, t)'
      BY <1>0, <2>0, <3>0, HeldStays DEF CallsInTime
    <3>2. pc[d] \in Calling => now + 1 <= since[d] + CallTimeout
      BY <2>0, <2>6 DEF Tick
    <3> QED
      BY <1>0, <3>0, <3>1, <3>2 DEF CallsInTime
  <2> QED
    BY <2>1, <2>2, <2>3, <2>4, <2>5, <2>6 DEF Next, Step, Change, Terminated, vars
<1>4. ResultsAreFinal'
  <2> SUFFICES ASSUME NEW d \in Callers PROVE pc'[d] = "done" <=> result'[d] # "none"
    BY DEF ResultsAreFinal
  <2>1. ASSUME NEW c \in Callers, Step(c) PROVE pc'[d] = "done" <=> result'[d] # "none"
    <3> USE <1>0, ParticipantRegistryAssumption DEF Types, ResultsAreFinal, Goto, Finish, Found
    <3>1. CASE Look(c)
      BY <3>1, SMTT(30) DEF Look, cacheKey
    <3>2. CASE lookupParticipantSD(c) \/ Answer(c)
      BY <3>2 DEF lookupParticipantSD, Answer
    <3>3. CASE Store(c)
      BY <3>3 DEF Store, CallsInTime
    <3>4. CASE Unauthorized(c) \/ Fails(c)
      BY <3>4, SMTT(30) DEF Unauthorized, Fails
    <3> QED
      BY <2>1, <3>1, <3>2, <3>3, <3>4 DEF Step
  <2> QED
    BY <1>0, <2>1 DEF ResultsAreFinal, Next, Change, Tick, Terminated, vars
<1>5. CacheRestsOnAnswers'
  <2> SUFFICES ASSUME NEW k \in Keys, NEW v, v = cache'[k].answer, v # "none",
                      NEW e, e = cache'[k].expiry
               PROVE  \E t \in 0..now' : HeldSince(k, v, t)' /\ e <= t + CallTimeout + TTLOf(v)
    BY DEF CacheRestsOnAnswers, HeldSince, Answers
  <2>1. CASE cache'[k] = cache[k]
    BY <1>0, <1>2, <2>1, EntryStays DEF CacheRestsOnAnswers, Types
  <2>2. ASSUME NEW c \in Callers, Store(c), ask[c] = k
        PROVE  \E t \in 0..now' : HeldSince(k, v, t)' /\ e <= t + CallTimeout + TTLOf(v)
    <3>1. v = sd[c] /\ e = now + TTLOf(v) /\ pc[c] = "answered"
      BY <1>0, <2>2 DEF Store, cacheKey, Types
    <3>2. TTLOf(v) \in Nat /\ CallTimeout \in Nat /\ since[c] \in 0..now /\ now \in Nat
      BY <1>0, TTLOfType, ParticipantRegistryAssumption DEF Types
    <3>3. PICK t : t = since[c]
      OBVIOUS
    <3>4. HeldSince(k, v, t)'
      BY <1>0, <2>2, <3>1, <3>2, <3>3, HeldStays DEF CallsInTime
    <3>5. now <= t + CallTimeout
      BY <1>0, <3>1, <3>3 DEF CallsInTime, Calling
    <3>6. e <= t + CallTimeout + TTLOf(v)
      BY <3>1, <3>2, <3>3, <3>5
    <3>7. t \in 0..now'
      BY <1>2, <3>2, <3>3
    <3> QED
      BY <3>4, <3>6, <3>7
  <2>3. ASSUME NEW c \in Callers, Step(c)
        PROVE  cache'[k] = cache[k] \/ (Store(c) /\ ask[c] = k)
    BY <1>0, <2>3 DEF Step, Look, lookupParticipantSD, Answer, Store, Unauthorized, Fails, cacheKey, Types
  <2> QED
    BY <2>1, <2>2, <2>3 DEF Next, Change, Tick, Terminated, vars
<1> QED
  BY <1>1, <1>3, <1>4, <1>5 DEF IInv

(* The invariant of the participant cache holds in every state.             *)
THEOREM Invariance == Spec => []IInv
BY Initially, Consecution, PTL DEF Spec

(* TypeOK: types, and a result exactly when the look-up is over             *)
(* (client.go:423-437, 455-491).                                            *)
THEOREM TypeCorrect == Spec => []TypeOK
BY Invariance, PTL DEF IInv, TypeOK

(* CacheRestsOnAnswers: for any number of callers, authorities and changes, *)
(* an entry rests on an answer of its own authority (client.go:480-486).    *)
THEOREM CacheIsHonest == Spec => []CacheRestsOnAnswers
BY Invariance, PTL DEF IInv
-----------------------------------------------------------------------------
(* What holds, or held within one call, may be told.                        *)
LEMMA Tellable ==
  ASSUME IInv, NEW k \in Keys, NEW v \in Found, NEW t \in 0..now, HeldSince(k, v, t),
         now < t + CallTimeout + TTLOf(v)
  PROVE  Oracle!Recent(k, v)
<1>1. CASE v \in Answers(k)
  BY <1>1 DEF Oracle!Recent, Oracle!Answers, Answers
<1>2. CASE \E p \in past : p.key = k /\ p.answer = v /\ p.until >= t
  <2>1. PICK p \in past : p.key = k /\ p.answer = v /\ p.until >= t
    BY <1>2
  <2>2. p.until \in Nat /\ now \in Nat /\ TTLOf(v) \in Nat /\ CallTimeout \in Nat
    BY TTLOfType, ParticipantRegistryAssumption DEF IInv, Types
  <2>3. now < p.until + TTLOf(v) + CallTimeout
    BY <2>1, <2>2
  <2>4. now < p.until + (IF v = Unknown THEN NegativeTTL + CallTimeout ELSE TTL + CallTimeout)
    <3>1. CASE v = Unknown
      BY <2>2, <2>3, <3>1, ParticipantRegistryAssumption DEF TTLOf
    <3>2. CASE v # Unknown
      BY <2>2, <2>3, <3>2, ParticipantRegistryAssumption DEF TTLOf
    <3> QED
      BY <3>1, <3>2
  <2> QED
    BY <2>1, <2>4 DEF Oracle!Recent, Found
<1> QED
  BY <1>1, <1>2 DEF HeldSince

(* ImplementsOracle: whatever overtakes what, no asker is told anything     *)
(* older than the window of its answer (client.go:413-421, 455-491).        *)
THEOREM OracleRefinement == Spec => ImplementsOracle
<1>1. Init => Oracle!Init
  BY DEF Init, Oracle!Init
<1>2. IInv /\ [Next]_vars => [Oracle!Next]_(Oracle!vars)
  <2> SUFFICES ASSUME IInv, [Next]_vars PROVE [Oracle!Next]_(Oracle!vars)
    OBVIOUS
  <2>0. Types /\ CallsInTime /\ ResultsAreFinal /\ CacheRestsOnAnswers
    BY DEF IInv
  <2>1. CASE UNCHANGED vars
    BY <2>1 DEF vars, Oracle!vars
  <2>2. ASSUME NEW k \in Keys, NEW urls \in SUBSET URLs, Change(k, urls) PROVE Oracle!Next
    <3>1. Oracle!Change(k, urls)
      BY <2>2 DEF Change, Oracle!Change, Answers, Oracle!Answers
    <3> QED
      BY <3>1 DEF Oracle!Next
  <2>3. CASE Tick
    BY <2>3 DEF Tick, Oracle!Tick, Oracle!Next
  <2>4. ASSUME NEW c \in Callers, Step(c) PROVE [Oracle!Next]_(Oracle!vars)
    <3>1. CASE UNCHANGED result
      BY <2>4, <3>1 DEF Step, Look, lookupParticipantSD, Answer, Store, Unauthorized, Fails, registry, Oracle!vars
    <3>2. ASSUME NEW v \in Found \cup {"rejected", "failed"}, Finish(c, v), UNCHANGED registry,
                 pc[c] # "done", v \in Found => Oracle!Recent(ask[c], v)
          PROVE  Oracle!Next
      <4>1. result[c] = "none" /\ result' = [result EXCEPT ![c] = v]
        BY <2>0, <3>2 DEF ResultsAreFinal, Finish
      <4>2. Oracle!Tell(c)
        BY <3>2, <4>1 DEF Oracle!Tell, registry, Found
      <4> QED
        BY <4>2 DEF Oracle!Next
    <3>3. CASE Look(c) /\ ~UNCHANGED result
      <4> DEFINE entry == cache[ask[c]]
      <4>1. entry.answer \in Found /\ now < entry.expiry /\ Finish(c, entry.answer) /\ pc[c] = "idle"
            /\ UNCHANGED registry
        BY <2>0, <3>3 DEF Look, cacheKey, Types
      <4>2. PICK t \in 0..now : /\ HeldSince(ask[c], entry.answer, t)
                                /\ entry.expiry <= t + CallTimeout + TTLOf(entry.answer)
        <5>1. ask[c] \in Keys /\ entry.answer # "none"
          BY <2>0, <4>1, ParticipantRegistryAssumption DEF Types, Found
        <5> QED
          BY <2>0, <5>1 DEF CacheRestsOnAnswers
      <4>3. ask[c] \in Keys /\ now \in Nat /\ entry.expiry \in Nat /\ CallTimeout \in Nat
            /\ TTLOf(entry.answer) \in Nat
        BY <2>0, TTLOfType, ParticipantRegistryAssumption DEF Types
      <4> HIDE DEF entry
      <4>4. now < t + CallTimeout + TTLOf(entry.answer)
        BY <4>1, <4>2, <4>3
      <4>5. Oracle!Recent(ask[c], entry.answer)
        BY <4>1, <4>2, <4>3, <4>4, Tellable
      <4> QED
        BY <3>2, <4>1, <4>5
    <3>4. CASE Store(c)
      <4>1. /\ Finish(c, sd[c]) /\ UNCHANGED registry /\ pc[c] = "answered"
            /\ sd[c] \in Found /\ HeldSince(ask[c], sd[c], since[c])
            /\ now <= since[c] + CallTimeout
        BY <2>0, <3>4 DEF Store, CallsInTime, Calling
      <4>2. ask[c] \in Keys /\ since[c] \in 0..now /\ now \in Nat /\ CallTimeout \in Nat
            /\ TTLOf(sd[c]) \in Nat \ {0}
        BY <2>0, TTLOfType, ParticipantRegistryAssumption DEF Types
      <4>3. now < since[c] + CallTimeout + TTLOf(sd[c])
        BY <4>1, <4>2
      <4>4. Oracle!Recent(ask[c], sd[c])
        BY <4>1, <4>2, <4>3, Tellable
      <4> QED
        BY <3>2, <4>1, <4>4
    <3>5. CASE Unauthorized(c) /\ ~UNCHANGED result
      <4>1. Finish(c, "rejected") /\ UNCHANGED registry /\ pc[c] # "done"
        BY <3>5 DEF Unauthorized
      <4>2. "rejected" \notin Found
        BY ParticipantRegistryAssumption DEF Found
      <4> QED
        BY <3>2, <4>1, <4>2
    <3>6. CASE Fails(c)
      <4>1. Finish(c, "failed") /\ UNCHANGED registry /\ pc[c] # "done"
        BY <3>6 DEF Fails
      <4>2. "failed" \notin Found
        BY ParticipantRegistryAssumption DEF Found
      <4> QED
        BY <3>2, <4>1, <4>2
    <3> QED
      BY <2>4, <3>1, <3>3, <3>4, <3>5, <3>6 DEF Step, lookupParticipantSD, Answer
  <2> QED
    BY <2>1, <2>2, <2>3, <2>4 DEF Next, Terminated
<1> QED
  BY <1>1, <1>2, Invariance, PTL DEF Spec, ImplementsOracle, Oracle!Spec
=============================================================================
