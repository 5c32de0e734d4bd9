------------------------ MODULE IdentifierCacheProofs ------------------------
(***************************************************************************)
(* Proofs about IdentifierCache for any checks, lifetimes, timeouts and    *)
(* registrations.                                                          *)
(***************************************************************************)
EXTENDS IdentifierCache, TLAPS

Active(c) == pc[c] \notin Waiting

(* The subject was, at some moment of the check, not consenting.            *)
Wavered(c) == \E status \in seen[c] : status # "granted"

(* A check that has not ended has not decided.                              *)
UndecidedUntilDone == \A c \in Checks : pc[c] # "done" => decision[c] = "none"

(* A check has seen what the subject is now, and its call is in time.       *)
ChecksKeepUp ==
  \A c \in Checks : Active(c) =>
    subject \in seen[c] /\ since[c] <= now /\ now <= since[c] + CallTimeout

(* An answer that is out of date when it arrives was given before the       *)
(* subject registered again, which the check has then seen.                 *)
AnswersAreExcused ==
  \A c \in Checks : pc[c] = "found" =>
    /\ identifier[c] = 0 => "unknown" \in seen[c]
    /\ identifier[c] # registration =>
         Wavered(c) /\ (identifier[c] # 0 => since[c] <= registeredAt)

(* What the cache holds of an earlier registration runs out.                *)
EntriesRunOut ==
  /\ cached.identifier = 0 => cached.expiry = 0
  /\ cached.identifier # registration => cached.expiry <= registeredAt + TTL + CallTimeout

(* A check lists the consents of an identifier left behind only if it saw   *)
(* the change or started on an entry that was about to run out.             *)
ListingIsExcused ==
  \A c \in Checks : pc[c] = "list" =>
    /\ identifier[c] # 0
    /\ identifier[c] # registration =>
         Wavered(c) \/ since[c] < registeredAt + TTL + CallTimeout

IInv ==
  /\ TypeOK
  /\ UndecidedUntilDone
  /\ ChecksKeepUp
  /\ AnswersAreExcused
  /\ EntriesRunOut
  /\ ListingIsExcused
  /\ AllowIsCurrent
-----------------------------------------------------------------------------
Statuses == {"unknown", "registered", "granted"}

LEMMA InitIInv == Init => IInv
<1> SUFFICES ASSUME Init PROVE IInv
  OBVIOUS
<1> USE IdentifierCacheAssumption DEF Init
<1>1. TypeOK
  BY DEF TypeOK
<1>2. UndecidedUntilDone /\ ChecksKeepUp /\ AnswersAreExcused /\ ListingIsExcused /\ AllowIsCurrent
  BY DEF UndecidedUntilDone, ChecksKeepUp, AnswersAreExcused, ListingIsExcused, AllowIsCurrent,
         Active, Waiting
<1>3. EntriesRunOut
  BY DEF EntriesRunOut
<1> QED
  BY <1>1, <1>2, <1>3 DEF IInv

(* What a step of one check does to it and leaves alone of the others.      *)
Moves(c) ==
  /\ UNCHANGED <<now, authority>>
  /\ \A d \in Checks \ {c} :
       pc'[d] = pc[d] /\ since'[d] = since[d] /\ identifier'[d] = identifier[d]
         /\ seen'[d] = seen[d] /\ decision'[d] = decision[d]

LEMMA LookupMoves ==
  ASSUME IInv, NEW c \in Checks, Lookup(c)
  PROVE  /\ TypeOK' /\ Moves(c) /\ cached' = cached
         /\ seen'[c] = {subject} /\ decision'[c] = "none" /\ since'[c] = now
         /\ \/ pc'[c] = "search"
            \/ pc'[c] = "list" /\ identifier'[c] = cached.identifier /\ now < cached.expiry
<1> USE IdentifierCacheAssumption DEF Lookup, Goto, authority, Waiting, Hit
<1>1. TypeOK'
  BY DEF IInv, TypeOK
<1>2. Moves(c) /\ cached' = cached
  BY DEF IInv, TypeOK, Moves
<1>3. seen'[c] = {subject} /\ decision'[c] = "none" /\ since'[c] = now
  BY DEF IInv, TypeOK, UndecidedUntilDone
<1>4. \/ pc'[c] = "search"
      \/ pc'[c] = "list" /\ identifier'[c] = cached.identifier /\ now < cached.expiry
  BY DEF IInv, TypeOK
<1> QED
  BY <1>1, <1>2, <1>3, <1>4

LEMMA SearchMoves ==
  ASSUME IInv, NEW c \in Checks, Search(c)
  PROVE  /\ TypeOK' /\ Moves(c) /\ cached' = cached
         /\ pc[c] = "search" /\ pc'[c] = "found"
         /\ identifier'[c] = IF subject = "unknown" THEN 0 ELSE registration
         /\ seen'[c] = seen[c] /\ decision'[c] = decision[c] /\ since'[c] = since[c]
<1> USE IdentifierCacheAssumption DEF Search, authority
<1>1. TypeOK'
  BY DEF IInv, TypeOK
<1>2. Moves(c) /\ cached' = cached
  BY DEF IInv, TypeOK, Moves
<1> QED
  BY <1>1, <1>2 DEF IInv, TypeOK

LEMMA RememberMoves ==
  ASSUME IInv, NEW c \in Checks, Remember(c)
  PROVE  /\ TypeOK' /\ Moves(c)
         /\ pc[c] = "found" /\ seen'[c] = seen[c] /\ identifier'[c] = identifier[c]
         /\ \/ /\ identifier[c] = 0 /\ cached' = cached
               /\ pc'[c] = "done" /\ decision'[c] = "deny"
            \/ /\ identifier[c] # 0
               /\ cached' = [identifier |-> identifier[c], expiry |-> now + TTL]
               /\ pc'[c] = "list" /\ since'[c] = now /\ decision'[c] = decision[c]
<1> USE IdentifierCacheAssumption DEF Remember, Finish, Goto, authority, Waiting
<1>1. CASE identifier[c] = 0
  <2>1. TypeOK'
    BY <1>1 DEF IInv, TypeOK
  <2>2. Moves(c) /\ cached' = cached
    BY <1>1 DEF IInv, TypeOK, Moves
  <2> QED
    BY <1>1, <2>1, <2>2 DEF IInv, TypeOK
<1>2. CASE identifier[c] # 0
  <2>1. TypeOK'
    <3>1. cached' \in [identifier : 0..registration', expiry : 0..(now' + TTL)]
      BY <1>2 DEF IInv, TypeOK
    <3> QED
      BY <1>2, <3>1 DEF IInv, TypeOK
  <2>2. Moves(c)
    BY <1>2 DEF IInv, TypeOK, Moves
  <2> QED
    BY <1>2, <2>1, <2>2 DEF IInv, TypeOK
<1> QED
  BY <1>1, <1>2

LEMMA EndMoves ==
  ASSUME IInv, NEW c \in Checks, List(c) \/ CallFails(c)
  PROVE  /\ TypeOK' /\ Moves(c) /\ cached' = cached
         /\ pc'[c] = "done" /\ seen'[c] = seen[c]
         /\ decision'[c] = "allow" => subject = "granted" /\ Active(c)
         /\ decision'[c] = "deny" =>
              pc[c] = "list" /\ ~(subject = "granted" /\ identifier[c] = registration)
<1> USE IdentifierCacheAssumption DEF List, CallFails, Finish, Goto, authority, Waiting, Active
<1>1. TypeOK'
  BY DEF IInv, TypeOK
<1>2. Moves(c) /\ cached' = cached
  BY DEF IInv, TypeOK, Moves
<1>3. pc'[c] = "done" /\ seen'[c] = seen[c]
  BY DEF IInv, TypeOK
<1>4. decision'[c] = "allow" => subject = "granted" /\ Active(c)
  BY DEF IInv, TypeOK
<1>5. decision'[c] = "deny" =>
        pc[c] = "list" /\ ~(subject = "granted" /\ identifier[c] = registration)
  BY DEF IInv, TypeOK
<1> QED
  BY <1>1, <1>2, <1>3, <1>4, <1>5
-----------------------------------------------------------------------------
(* What holds of the checks that do not move holds of them still.           *)
LEMMA OthersKeep ==
  ASSUME IInv, NEW c \in Checks, Moves(c), NEW d \in Checks \ {c}
  PROVE  /\ pc'[d] # "done" => decision'[d] = "none"
         /\ Active(d)' => subject' \in seen'[d] /\ since'[d] <= now' /\ now' <= since'[d] + CallTimeout
         /\ pc'[d] = "found" =>
              /\ identifier'[d] = 0 => "unknown" \in seen'[d]
              /\ identifier'[d] # registration' =>
                   Wavered(d)' /\ (identifier'[d] # 0 => since'[d] <= registeredAt')
         /\ pc'[d] = "list" =>
              /\ identifier'[d] # 0
              /\ identifier'[d] # registration' =>
                   Wavered(d)' \/ since'[d] < registeredAt' + TTL + CallTimeout
         /\ decision'[d] = "allow" => "granted" \in seen'[d]
<1>1. /\ pc'[d] = pc[d] /\ since'[d] = since[d] /\ identifier'[d] = identifier[d]
      /\ seen'[d] = seen[d] /\ decision'[d] = decision[d] /\ now' = now
      /\ subject' = subject /\ registration' = registration /\ registeredAt' = registeredAt
  BY DEF Moves, authority
<1>2. Wavered(d)' = Wavered(d) /\ Active(d)' = Active(d)
  BY <1>1 DEF Wavered, Active, Waiting
<1> QED
  BY <1>1, <1>2 DEF IInv, UndecidedUntilDone, ChecksKeepUp, AnswersAreExcused,
                    ListingIsExcused, AllowIsCurrent

(* A step of one check preserves the invariant if it preserves it for that  *)
(* check and for the cache.                                                 *)
LEMMA OwnStepSuffices ==
  ASSUME IInv, NEW c \in Checks, Moves(c), TypeOK', EntriesRunOut',
         pc'[c] # "done" => decision'[c] = "none",
         Active(c)' => subject' \in seen'[c] /\ since'[c] <= now' /\ now' <= since'[c] + CallTimeout,
         pc'[c] = "found" =>
           /\ identifier'[c] = 0 => "unknown" \in seen'[c]
           /\ identifier'[c] # registration' =>
                Wavered(c)' /\ (identifier'[c] # 0 => since'[c] <= registeredAt'),
         pc'[c] = "list" =>
           /\ identifier'[c] # 0
           /\ identifier'[c] # registration' =>
                Wavered(c)' \/ since'[c] < registeredAt' + TTL + CallTimeout,
         decision'[c] = "allow" => "granted" \in seen'[c]
  PROVE  IInv'
<1>1. UndecidedUntilDone'
  BY OthersKeep DEF UndecidedUntilDone
<1>2. ChecksKeepUp'
  BY OthersKeep DEF ChecksKeepUp
<1>3. AnswersAreExcused'
  BY OthersKeep DEF AnswersAreExcused
<1>4. ListingIsExcused'
  BY OthersKeep DEF ListingIsExcused
<1>5. AllowIsCurrent'
  BY OthersKeep DEF AllowIsCurrent
<1> QED
  BY <1>1, <1>2, <1>3, <1>4, <1>5 DEF IInv

LEMMA LookupIInv ==
  ASSUME IInv, NEW c \in Checks, Lookup(c)
  PROVE  IInv'
<1> USE IdentifierCacheAssumption
<1>1. /\ TypeOK' /\ Moves(c) /\ cached' = cached
      /\ seen'[c] = {subject} /\ decision'[c] = "none" /\ since'[c] = now
      /\ \/ pc'[c] = "search"
         \/ pc'[c] = "list" /\ identifier'[c] = cached.identifier /\ now < cached.expiry
  BY LookupMoves
<1>2. now' = now /\ subject' = subject /\ registration' = registration /\ registeredAt' = registeredAt
  BY <1>1 DEF Moves, authority
<1>3. EntriesRunOut'
  BY <1>1, <1>2 DEF IInv, EntriesRunOut
<1>4. Active(c)' => subject' \in seen'[c] /\ since'[c] <= now' /\ now' <= since'[c] + CallTimeout
  BY <1>1, <1>2 DEF IInv, TypeOK
<1>5. pc'[c] = "list" =>
        /\ identifier'[c] # 0
        /\ identifier'[c] # registration' => since'[c] < registeredAt' + TTL + CallTimeout
  BY <1>1, <1>2 DEF IInv, TypeOK, EntriesRunOut
<1> QED
  BY <1>1, <1>3, <1>4, <1>5, OwnStepSuffices

LEMMA SearchIInv ==
  ASSUME IInv, NEW c \in Checks, Search(c)
  PROVE  IInv'
<1> USE IdentifierCacheAssumption
<1>1. /\ TypeOK' /\ Moves(c) /\ cached' = cached
      /\ pc[c] = "search" /\ pc'[c] = "found"
      /\ identifier'[c] = IF subject = "unknown" THEN 0 ELSE registration
      /\ seen'[c] = seen[c] /\ decision'[c] = decision[c] /\ since'[c] = since[c]
  BY SearchMoves
<1>2. now' = now /\ subject' = subject /\ registration' = registration /\ registeredAt' = registeredAt
  BY <1>1 DEF Moves, authority
<1>3. Active(c) /\ subject \in seen[c] /\ since[c] <= now /\ now <= since[c] + CallTimeout
  BY <1>1 DEF IInv, ChecksKeepUp, Active, Waiting
<1>4. EntriesRunOut'
  BY <1>1, <1>2 DEF IInv, EntriesRunOut
<1>5. decision'[c] = "none"
  BY <1>1 DEF IInv, UndecidedUntilDone
<1>6. /\ identifier'[c] = 0 => "unknown" \in seen'[c]
      /\ identifier'[c] # registration' => identifier'[c] = 0 /\ Wavered(c)'
  <2>1. CASE subject = "unknown"
    BY <1>1, <1>2, <1>3, <2>1 DEF Wavered
  <2>2. CASE subject # "unknown"
    BY <1>1, <1>2, <2>2 DEF IInv, TypeOK
  <2> QED
    BY <2>1, <2>2
<1> QED
  BY <1>1, <1>2, <1>3, <1>4, <1>5, <1>6, OwnStepSuffices

LEMMA RememberIInv ==
  ASSUME IInv, NEW c \in Checks, Remember(c)
  PROVE  IInv'
<1> USE IdentifierCacheAssumption
<1>1. /\ TypeOK' /\ Moves(c)
      /\ pc[c] = "found" /\ seen'[c] = seen[c] /\ identifier'[c] = identifier[c]
      /\ \/ /\ identifier[c] = 0 /\ cached' = cached
            /\ pc'[c] = "done" /\ decision'[c] = "deny"
         \/ /\ identifier[c] # 0
            /\ cached' = [identifier |-> identifier[c], expiry |-> now + TTL]
            /\ pc'[c] = "list" /\ since'[c] = now /\ decision'[c] = decision[c]
  BY RememberMoves
<1>2. now' = now /\ subject' = subject /\ registration' = registration /\ registeredAt' = registeredAt
  BY <1>1 DEF Moves, authority
<1>3. subject \in seen[c] /\ since[c] <= now /\ now <= since[c] + CallTimeout
  BY <1>1 DEF IInv, ChecksKeepUp, Active, Waiting
<1>4. decision[c] = "none"
  BY <1>1 DEF IInv, UndecidedUntilDone
<1>5. identifier[c] # registration =>
        Wavered(c) /\ (identifier[c] # 0 => since[c] <= registeredAt)
  BY <1>1 DEF IInv, AnswersAreExcused
<1>6. now \in Nat /\ since[c] \in Nat /\ registeredAt \in Nat
  BY DEF IInv, TypeOK
<1>7. CASE identifier[c] = 0 /\ cached' = cached /\ pc'[c] = "done" /\ decision'[c] = "deny"
  <2>1. EntriesRunOut'
    BY <1>2, <1>7 DEF IInv, EntriesRunOut
  <2>2. ~Active(c)'
    BY <1>7 DEF Active, Waiting
  <2> QED
    BY <1>1, <1>7, <2>1, <2>2, OwnStepSuffices
<1>8. CASE /\ identifier[c] # 0
           /\ cached' = [identifier |-> identifier[c], expiry |-> now + TTL]
           /\ pc'[c] = "list" /\ since'[c] = now /\ decision'[c] = decision[c]
  <2>1. EntriesRunOut'
    BY <1>2, <1>3, <1>5, <1>6, <1>8 DEF EntriesRunOut
  <2>2. identifier'[c] # registration' => Wavered(c)'
    BY <1>1, <1>2, <1>5 DEF Wavered
  <2>3. subject' \in seen'[c] /\ since'[c] <= now' /\ now' <= since'[c] + CallTimeout
    BY <1>1, <1>2, <1>3, <1>6, <1>8
  <2> QED
    BY <1>1, <1>4, <1>8, <2>1, <2>2, <2>3, OwnStepSuffices
<1> QED
  BY <1>1, <1>7, <1>8

LEMMA EndIInv ==
  ASSUME IInv, NEW c \in Checks, List(c) \/ CallFails(c)
  PROVE  IInv'
<1>1. /\ TypeOK' /\ Moves(c) /\ cached' = cached
      /\ pc'[c] = "done" /\ seen'[c] = seen[c]
      /\ decision'[c] = "allow" => subject = "granted" /\ Active(c)
  BY EndMoves
<1>2. registration' = registration /\ registeredAt' = registeredAt
  BY <1>1 DEF Moves, authority
<1>3. EntriesRunOut'
  BY <1>1, <1>2 DEF IInv, EntriesRunOut
<1>4. decision'[c] = "allow" => "granted" \in seen'[c]
  BY <1>1 DEF IInv, ChecksKeepUp
<1>5. ~Active(c)'
  BY <1>1 DEF Active, Waiting
<1> QED
  BY <1>1, <1>3, <1>4, <1>5, OwnStepSuffices
-----------------------------------------------------------------------------
(* A change of the subject's status is seen by every check under way.       *)
LEMMA StatusIInv ==
  ASSUME IInv, NEW status \in Statuses, Becomes(status),
         registration' \in 0..MaxRegistrations, registration' = 0 => status = "unknown",
         \/ registration' = registration /\ registeredAt' = registeredAt
         \/ /\ registration' = registration + 1 /\ registeredAt' = now
            /\ status = "registered"
  PROVE  IInv'
<1> USE IdentifierCacheAssumption
<1>1. /\ subject' = status /\ now' = now /\ cached' = cached /\ pc' = pc /\ since' = since
      /\ identifier' = identifier /\ decision' = decision
  BY DEF Becomes
<1>2. \A c \in Checks :
        seen'[c] = IF pc[c] \in Waiting THEN seen[c] ELSE seen[c] \cup {status}
  BY DEF Becomes
<1>3. TypeOK'
  <2>1. seen' \in [Checks -> SUBSET Statuses]
    BY DEF Becomes, IInv, TypeOK, Statuses
  <2>2. registeredAt' \in 0..MaxTime
    BY DEF IInv, TypeOK
  <2>3. cached' \in [identifier : 0..registration', expiry : 0..(now' + TTL)]
    BY <1>1 DEF IInv, TypeOK
  <2>4. identifier' \in [Checks -> 0..registration']
    BY <1>1 DEF IInv, TypeOK
  <2> QED
    BY <1>1, <2>1, <2>2, <2>3, <2>4 DEF IInv, TypeOK, Statuses
<1>4. UndecidedUntilDone'
  BY <1>1 DEF IInv, UndecidedUntilDone
<1>5. ChecksKeepUp'
  BY <1>1, <1>2 DEF IInv, ChecksKeepUp, Active
<1>6. AllowIsCurrent'
  BY <1>1, <1>2 DEF IInv, AllowIsCurrent
<1>7. EntriesRunOut'
  BY <1>1 DEF IInv, TypeOK, EntriesRunOut
<1>8. ASSUME NEW c \in Checks, Active(c)
      PROVE  /\ status \in seen'[c] /\ seen[c] \subseteq seen'[c]
             /\ Wavered(c) => Wavered(c)'
             /\ status # "granted" => Wavered(c)'
  BY <1>2, <1>8 DEF Active, Wavered
<1>9. AnswersAreExcused'
  <2> SUFFICES ASSUME NEW c \in Checks, pc[c] = "found"
               PROVE  /\ identifier[c] = 0 => "unknown" \in seen'[c]
                      /\ identifier[c] # registration' =>
                           Wavered(c)' /\ (identifier[c] # 0 => since[c] <= registeredAt')
    BY <1>1 DEF AnswersAreExcused
  <2>1. Active(c)
    BY DEF Active, Waiting
  <2>2. since[c] <= now
    BY <2>1 DEF IInv, ChecksKeepUp
  <2> QED
    BY <1>8, <2>1, <2>2 DEF IInv, AnswersAreExcused
<1>10. ListingIsExcused'
  <2> SUFFICES ASSUME NEW c \in Checks, pc[c] = "list"
               PROVE  /\ identifier[c] # 0
                      /\ identifier[c] # registration' =>
                           Wavered(c)' \/ since[c] < registeredAt' + TTL + CallTimeout
    BY <1>1 DEF ListingIsExcused
  <2>1. Active(c)
    BY DEF Active, Waiting
  <2> QED
    BY <1>8, <2>1 DEF IInv, ListingIsExcused
<1> QED
  BY <1>3, <1>4, <1>5, <1>6, <1>7, <1>9, <1>10 DEF IInv

LEMMA AuthorityIInv == IInv /\ (Register \/ Grant \/ Withdraw \/ Leave) => IInv'
<1> SUFFICES ASSUME IInv, Register \/ Grant \/ Withdraw \/ Leave PROVE IInv'
  OBVIOUS
<1> USE IdentifierCacheAssumption DEF Statuses
<1>1. /\ registration \in 0..MaxRegistrations
      /\ registration = 0 => subject = "unknown"
  BY DEF IInv, TypeOK
<1>2. CASE Register
  BY <1>1, <1>2, StatusIInv DEF Register
<1>3. CASE Grant
  BY <1>1, <1>3, StatusIInv DEF Grant
<1>4. CASE Withdraw
  BY <1>1, <1>4, StatusIInv DEF Withdraw
<1>5. CASE Leave
  BY <1>1, <1>5, StatusIInv DEF Leave
<1> QED
  BY <1>2, <1>3, <1>4, <1>5

LEMMA TickIInv == IInv /\ Tick => IInv'
<1> SUFFICES ASSUME IInv, Tick PROVE IInv'
  OBVIOUS
<1> USE IdentifierCacheAssumption DEF Tick, authority
<1>1. TypeOK'
  <2>1. now' \in 0..MaxTime
    BY DEF IInv, TypeOK
  <2>2. cached' \in [identifier : 0..registration', expiry : 0..(now' + TTL)]
    BY DEF IInv, TypeOK
  <2> QED
    BY <2>1, <2>2 DEF IInv, TypeOK
<1>2. ChecksKeepUp'
  BY DEF IInv, TypeOK, ChecksKeepUp, Active
<1>3. UndecidedUntilDone' /\ AllowIsCurrent'
  BY DEF IInv, UndecidedUntilDone, AllowIsCurrent
<1>4. AnswersAreExcused' /\ ListingIsExcused'
  BY DEF IInv, AnswersAreExcused, ListingIsExcused, Wavered
<1>5. EntriesRunOut'
  BY DEF IInv, EntriesRunOut
<1> QED
  BY <1>1, <1>2, <1>3, <1>4, <1>5 DEF IInv

LEMMA StutterIInv == IInv /\ UNCHANGED vars => IInv'
BY DEF IInv, vars, TypeOK, UndecidedUntilDone, ChecksKeepUp, AnswersAreExcused, EntriesRunOut,
       ListingIsExcused, AllowIsCurrent, Active, Wavered, Waiting

LEMMA NextIInv == IInv /\ [Next]_vars => IInv'
<1> SUFFICES ASSUME IInv, [Next]_vars PROVE IInv'
  OBVIOUS
<1>1. CASE \E c \in Checks : Lookup(c)
  BY <1>1, LookupIInv
<1>2. CASE \E c \in Checks : Search(c)
  BY <1>2, SearchIInv
<1>3. CASE \E c \in Checks : Remember(c)
  BY <1>3, RememberIInv
<1>4. CASE \E c \in Checks : List(c) \/ CallFails(c)
  BY <1>4, EndIInv
<1>5. CASE Register \/ Grant \/ Withdraw \/ Leave
  BY <1>5, AuthorityIInv
<1>6. CASE Tick
  BY <1>6, TickIInv
<1>7. CASE Terminated \/ UNCHANGED vars
  BY <1>7, StutterIInv DEF Terminated
<1> QED
  BY <1>1, <1>2, <1>3, <1>4, <1>5, <1>6, <1>7 DEF Next

LEMMA SpecIInv == Spec => []IInv
<1>1. Init => IInv
  BY InitIInv
<1>2. IInv /\ [Next]_vars => IInv'
  BY NextIInv
<1> QED
  BY <1>1, <1>2, PTL DEF Spec
-----------------------------------------------------------------------------
(* A denial of a subject that consented all through the check comes from an *)
(* identifier it left behind not long ago.                                  *)
LEMMA StepRunsOut ==
  IInv /\ [Next]_vars =>
    \A c \in Checks :
      decision[c] = "none" /\ decision'[c] = "deny" /\ seen[c] = {"granted"} =>
        registration > 1 /\ now < registeredAt + TTL + 2 * CallTimeout
<1> SUFFICES ASSUME IInv, [Next]_vars, NEW c \in Checks,
                    decision[c] = "none", decision'[c] = "deny", seen[c] = {"granted"}
             PROVE  registration > 1 /\ now < registeredAt + TTL + 2 * CallTimeout
  OBVIOUS
<1> USE IdentifierCacheAssumption
<1>1. ~Wavered(c)
  BY DEF Wavered
<1>2. ASSUME NEW d \in Checks, Moves(d), decision'[d] # "deny" PROVE FALSE
  <2>1. c # d
    BY <1>2
  <2> QED
    BY <1>2, <2>1 DEF Moves
<1>3. CASE \E d \in Checks : Lookup(d)
  BY <1>2, <1>3, LookupMoves
<1>4. CASE \E d \in Checks : Search(d)
  <2>1. PICK d \in Checks : Search(d)
    BY <1>4
  <2>2. Moves(d) /\ decision'[d] = decision[d] /\ pc[d] = "search"
    BY <2>1, SearchMoves
  <2>3. decision[d] = "none"
    BY <2>2 DEF IInv, UndecidedUntilDone
  <2> QED
    BY <1>2, <2>2, <2>3
<1>5. CASE \E d \in Checks : Remember(d)
  <2>1. PICK d \in Checks : Remember(d)
    BY <1>5
  <2>2. Moves(d) /\ pc[d] = "found"
        /\ (identifier[d] = 0 \/ decision'[d] = decision[d])
    BY <2>1, RememberMoves
  <2>3. decision[d] = "none"
    BY <2>2 DEF IInv, UndecidedUntilDone
  <2>4. c = d /\ identifier[c] = 0
    BY <1>2, <2>2, <2>3 DEF Moves
  <2>5. "unknown" \in seen[c]
    BY <2>2, <2>4 DEF IInv, AnswersAreExcused
  <2> QED
    BY <2>5
<1>6. CASE \E d \in Checks : List(d) \/ CallFails(d)
  <2>1. PICK d \in Checks : List(d) \/ CallFails(d)
    BY <1>6
  <2>2. /\ Moves(d)
        /\ decision'[d] = "deny" =>
             pc[d] = "list" /\ ~(subject = "granted" /\ identifier[d] = registration)
    BY <2>1, EndMoves
  <2>3. c = d
    BY <1>2, <2>2 DEF Moves
  <2>4. pc[c] = "list" /\ ~(subject = "granted" /\ identifier[c] = registration)
    BY <2>2, <2>3
  <2>5. Active(c)
    BY <2>4 DEF Active, Waiting
  <2>6. subject = "granted" /\ since[c] <= now /\ now <= since[c] + CallTimeout
    BY <2>5 DEF IInv, ChecksKeepUp
  <2>7. identifier[c] # 0 /\ since[c] < registeredAt + TTL + CallTimeout
    BY <1>1, <2>4, <2>6 DEF IInv, ListingIsExcused
  <2>8. identifier[c] \in 0..registration /\ identifier[c] # registration
    BY <2>4, <2>6 DEF IInv, TypeOK
  <2>9. since[c] \in Nat /\ now \in Nat /\ registeredAt \in Nat /\ registration \in Nat
    BY DEF IInv, TypeOK
  <2> QED
    BY <2>6, <2>7, <2>8, <2>9
<1>7. CASE Register \/ Grant \/ Withdraw \/ Leave
  BY <1>7 DEF Register, Grant, Withdraw, Leave, Becomes
<1>8. CASE Tick
  BY <1>8 DEF Tick
<1>9. CASE Terminated \/ UNCHANGED vars
  BY <1>9 DEF Terminated, vars
<1> QED
  BY <1>3, <1>4, <1>5, <1>6, <1>7, <1>8, <1>9 DEF Next

(* Types, and that identifiers are those the authority issued, an entry     *)
(* living no longer than its TTL from now (client.go:734-743).              *)
THEOREM TypeCorrect == Spec => []TypeOK
<1>1. IInv => TypeOK
  BY DEF IInv
<1> QED
  BY <1>1, SpecIInv, PTL

(* A decision is never reused, for any number of concurrent checks and      *)
(* whatever the lifetimes: an allow rests on a consent that was there       *)
(* during this very check (client.go:279-301, 882-913).                     *)
THEOREM AllowsAreCurrent == Spec => []AllowIsCurrent
<1>1. IInv => AllowIsCurrent
  BY DEF IInv
<1> QED
  BY <1>1, SpecIInv, PTL

(* The price of the identifier cache is bounded, for any TTL and timeout: a *)
(* subject that registered once is never denied a consent it has given, and *)
(* one that registered again only for the TTL and two calls                 *)
(* (client.go:382-390, 696-697, 734-743).                                   *)
THEOREM StalenessIsBounded == Spec => StaleIdentifierRunsOut
<1>1. IInv /\ [Next]_vars =>
        \A c \in Checks :
          decision[c] = "none" /\ decision'[c] = "deny" /\ seen[c] = {"granted"} =>
            registration > 1 /\ now < registeredAt + TTL + 2 * CallTimeout
  BY StepRunsOut
<1> QED
  BY <1>1, SpecIInv, PTL DEF Spec, StaleIdentifierRunsOut
=============================================================================
