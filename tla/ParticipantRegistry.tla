------------------------ MODULE ParticipantRegistry ------------------------
(***************************************************************************)
(* The participant registry behind its cache (src/internal/consent/        *)
(* client.go): ParticipantSelfDescriptionByDID translates a DID to a       *)
(* self-description, remembering what it found for a long time and that    *)
(* there was nothing to find for a short one.                              *)
(*                                                                         *)
(* Look-ups of several requests and routes run at once, and nothing orders *)
(* the answers they store: a slow one may replace a newer one.  Meanwhile  *)
(* participants register, move and leave.  A caller always has a DID       *)
(* (evaluateWithResolver returns before, when the token names none), and   *)
(* what it does with the credentials is CredentialCache's.                 *)
(***************************************************************************)
EXTENDS Naturals, FiniteSets

CONSTANTS
  Callers,            (* the look-ups                                       *)
  Authorities,        (* credential identities: what cacheKey tells apart   *)
  StaticAuthorities,  (* those with a static token, which is not refreshed  *)
  DIDs,
  URLs,               (* self-descriptions                                  *)
  Unknown,            (* "no such participant"                              *)
  TTL,                (* participantSDCacheTTL                              *)
  NegativeTTL,        (* participantSDNegativeTTL                           *)
  CallTimeout,        (* the HTTP client's timeout                          *)
  MaxPast,            (* bound: answers the registries leave behind         *)
  MaxTime             (* bound: time                                        *)

ASSUME ParticipantRegistryAssumption ==
  /\ StaticAuthorities \subseteq Authorities
  /\ {TTL, NegativeTTL} \subseteq Nat \ {0}
  /\ {CallTimeout, MaxPast, MaxTime} \subseteq Nat
  /\ Unknown \notin URLs
  /\ {"none", "rejected", "failed"} \cap (URLs \cup {Unknown}) = {}

Keys == [authority : Authorities, did : DIDs]
Found == URLs \cup {Unknown}

VARIABLES
  now,
  ask,      (* per caller: its route's authority and its DID                *)
  listed,   (* per key: the self-descriptions registered for it             *)
  past,     (* history: answers that no longer hold, and until when         *)
  cache,    (* participantSDCache: per key an answer ("none": no entry) and *)
            (* its expiry                                                   *)
  pc,
  since,    (* when the caller's pending HTTP call started                  *)
  forced,   (* forceLogin: this is the retry                                *)
  sd,       (* what the registry answered the caller                        *)
  result

vars == <<now, ask, listed, past, cache, pc, since, forced, sd, result>>
registry == <<now, ask, listed, past>>

Init ==
  /\ now = 0
  /\ ask \in [Callers -> Keys]
  /\ listed \in [Keys -> SUBSET URLs]
  /\ past = {}
  /\ cache = [k \in Keys |-> [answer |-> "none", expiry |-> 0]]
  /\ pc = [c \in Callers |-> "idle"]
  /\ since = [c \in Callers |-> 0]
  /\ forced = [c \in Callers |-> FALSE]
  /\ sd = [c \in Callers |-> "none"]
  /\ result = [c \in Callers |-> "none"]

(* The steps at which the caller's HTTP call to the registry is under way;  *)
(* its clock starts with the call.                                          *)
Calling == {"call", "answered"}

Goto(c, step) ==
  /\ pc' = [pc EXCEPT ![c] = step]
  /\ since' = [since EXCEPT ![c] = IF step = "call" THEN now
                                   ELSE IF step = "answered" THEN @ ELSE 0]

(* A return; the look-up's own variables end with it.                       *)
Finish(c, answer) ==
  /\ Goto(c, "done")
  /\ result' = [result EXCEPT ![c] = answer]
  /\ forced' = [forced EXCEPT ![c] = FALSE]
  /\ sd' = [sd EXCEPT ![c] = "none"]
-----------------------------------------------------------------------------
(* Variant: the DID alone is the key.                                       *)
cacheKeyOfDID(c) == [ask[c] EXCEPT !.authority = CHOOSE a \in Authorities : TRUE]

cacheKey(c) == ask[c]

(* A look at the cache: an entry that is still fresh, positive or negative, *)
(* is the answer.                                                           *)
Look(c) ==
  /\ pc[c] = "idle"
  /\ LET entry == cache[cacheKey(c)]
     IN IF entry.answer # "none" /\ now < entry.expiry
        THEN Finish(c, entry.answer)
        ELSE Goto(c, "credentials") /\ UNCHANGED <<result, forced, sd>>
  /\ UNCHANGED <<registry, cache>>

(* The credentials are there: GET /participants is sent.                    *)
lookupParticipantSD(c) ==
  /\ pc[c] = "credentials"
  /\ Goto(c, "call")
  /\ UNCHANGED <<registry, cache, forced, sd, result>>

(* Variant: that there is no such participant is not marked as an answer.   *)
AnswersUnmarked(k) == IF listed[k] = {} THEN {"none"} ELSE listed[k]

(* The registry answers with its list; of several entries for the DID that  *)
(* have a self-description the first is taken, which may be any.            *)
Answers(k) == IF listed[k] = {} THEN {Unknown} ELSE listed[k]

Answer(c) ==
  /\ pc[c] = "call"
  /\ \E v \in Answers(ask[c]) : sd' = [sd EXCEPT ![c] = v]
  /\ Goto(c, "answered")
  /\ UNCHANGED <<registry, cache, forced, result>>

(* Variant: "no such participant" is kept as long as a self-description.    *)
TTLOfAll(v) == TTL

TTLOf(v) == IF v = Unknown THEN NegativeTTL ELSE TTL

(* The answer arrives, is stored over whatever is there, and is returned.   *)
Store(c) ==
  /\ pc[c] = "answered"
  /\ cache' = [cache EXCEPT ![cacheKey(c)] =
                 [answer |-> sd[c], expiry |-> now + TTLOf(sd[c])]]
  /\ Finish(c, sd[c])
  /\ UNCHANGED registry

(* A 401, on the registry or already on the credentials: one retry with a   *)
(* forced refresh, unless the token is static.                              *)
Unauthorized(c) ==
  /\ pc[c] \in {"credentials", "call"}
  /\ IF ask[c].authority \notin StaticAuthorities /\ ~forced[c]
     THEN /\ Goto(c, "credentials")
          /\ forced' = [forced EXCEPT ![c] = TRUE]
          /\ UNCHANGED <<result, sd>>
     ELSE Finish(c, "rejected")
  /\ UNCHANGED <<registry, cache>>

(* Variant: a failed look-up is remembered as an unknown participant.       *)
FailsUnknown(c) ==
  /\ pc[c] \in {"credentials", "call", "answered"}
  /\ cache' = [cache EXCEPT ![cacheKey(c)] =
                 [answer |-> Unknown, expiry |-> now + NegativeTTL]]
  /\ Finish(c, "failed")
  /\ UNCHANGED registry

(* Any other failure, an answer that cannot be read among them, is returned *)
(* and leaves the cache alone.                                              *)
Fails(c) ==
  /\ pc[c] \in {"credentials", "call", "answered"}
  /\ Finish(c, "failed")
  /\ UNCHANGED <<registry, cache>>

Step(c) ==
  Look(c) \/ lookupParticipantSD(c) \/ Answer(c) \/ Store(c) \/ Unauthorized(c) \/ Fails(c)
-----------------------------------------------------------------------------
(* The registries: a participant registers, changes its self-description,   *)
(* is registered twice, or leaves.                                          *)
Change(k, urls) ==
  /\ Cardinality(past) < MaxPast
  /\ urls # listed[k]
  /\ past' = past \cup {[key |-> k, answer |-> v, until |-> now] : v \in Answers(k)}
  /\ listed' = [listed EXCEPT ![k] = urls]
  /\ UNCHANGED <<now, ask, cache, pc, since, forced, sd, result>>

(* Time passes, but no call outlives its timeout.                           *)
Tick ==
  /\ now < MaxTime
  /\ \A c \in Callers : pc[c] \in Calling => now < since[c] + CallTimeout
  /\ now' = now + 1
  /\ UNCHANGED <<ask, listed, past, cache, pc, since, forced, sd, result>>

Terminated == (\A c \in Callers : pc[c] = "done") /\ UNCHANGED vars

Next ==
  \/ \E c \in Callers : Step(c)
  \/ \E k \in Keys, urls \in SUBSET URLs : Change(k, urls)
  \/ Tick \/ Terminated

Spec == Init /\ [][Next]_vars
-----------------------------------------------------------------------------
Types ==
  /\ now \in 0..MaxTime
  /\ ask \in [Callers -> Keys]
  /\ listed \in [Keys -> SUBSET URLs]
  /\ past \subseteq [key : Keys, answer : Found, until : 0..now]
  /\ cache \in [Keys -> [answer : Found \cup {"none"}, expiry : Nat]]
  /\ pc \in [Callers -> {"idle", "credentials", "call", "answered", "done"}]
  /\ since \in [Callers -> 0..now]
  /\ forced \in [Callers -> BOOLEAN]
  /\ sd \in [Callers -> Found \cup {"none"}]
  /\ result \in [Callers -> Found \cup {"none", "rejected", "failed"}]

(* A look-up has a result exactly when it is over.                          *)
ResultsAreFinal == \A c \in Callers : pc[c] = "done" <=> result[c] # "none"

TypeOK == Types /\ ResultsAreFinal

(* What a key's own authority answered at time t or later.                  *)
HeldSince(k, v, t) ==
  \/ v \in Answers(k)
  \/ \E p \in past : p.key = k /\ p.answer = v /\ p.until >= t

(* The cache holds nothing but what the registry of the key's own authority *)
(* answered, no longer before the entry than one call takes: no failure, no *)
(* other authority's participant, no entry refreshed by being read          *)
(* (client.go:455-491, 224-235).                                            *)
CacheRestsOnAnswers ==
  \A k \in Keys :
    cache[k].answer # "none" =>
      \E t \in 0..now :
        /\ HeldSince(k, cache[k].answer, t)
        /\ cache[k].expiry <= t + CallTimeout + TTLOf(cache[k].answer)

(* Whoever asks is told what its own authority's registry said within the   *)
(* window of that answer, though a slow answer may replace a newer one: a   *)
(* participant that has registered is found again after NegativeTTL and one *)
(* call (client.go:413-421, 480-486).                                       *)
Oracle == INSTANCE RegistryOracle
  WITH Askers <- Callers, told <- result,
       Windows <- [v \in Found |-> IF v = Unknown THEN NegativeTTL + CallTimeout
                                            ELSE TTL + CallTimeout]
ImplementsOracle == Oracle!Spec
=============================================================================
