-------------------------- MODULE IdentifierCache --------------------------
(***************************************************************************)
(* The two calls of a consent check (check, src/internal/consent/          *)
(* client.go) and the cache between them: resolveUserIdentifier maps a     *)
(* subject to its user identifier and remembers it for identifierCacheTTL, *)
(* hasGrantedConsent lists that identifier's consents every time.          *)
(*                                                                         *)
(* Several checks for one subject run at once, as a response's resources   *)
(* make them.  Meanwhile the subject may register, grant, withdraw, leave  *)
(* and register again, under a new identifier.                             *)
(***************************************************************************)
EXTENDS Naturals, FiniteSets

CONSTANTS
  Checks,             (* the checks, one call of check each                 *)
  TTL,                (* identifierCacheTTL                                 *)
  CallTimeout,        (* the HTTP client's timeout                          *)
  MaxRegistrations,   (* bound: how often the subject registers             *)
  MaxTime             (* bound: time                                        *)

ASSUME IdentifierCacheAssumption ==
  {TTL, CallTimeout, MaxRegistrations, MaxTime} \subseteq Nat

VARIABLES
  now,
  subject,        (* the authority's: "unknown", "registered" (with no      *)
                  (* consent that matches) or "granted"                     *)
  registration,   (* the subject's latest identifier, numbered; 0: none yet *)
  registeredAt,   (* when it was issued                                     *)
  cached,         (* identifierEntry: its identifier and its expiry         *)
  pc,
  since,          (* when the check's pending HTTP call started             *)
  identifier,     (* the check's userIdentifier; 0: not found               *)
  seen,           (* history: what subject was during the check             *)
  decision

vars == <<now, subject, registration, registeredAt, cached, pc, since,
          identifier, seen, decision>>
authority == <<subject, registration, registeredAt>>

Init ==
  /\ now = 0
  /\ subject = "unknown"
  /\ registration = 0
  /\ registeredAt = 0
  /\ cached = [identifier |-> 0, expiry |-> 0]
  /\ pc = [c \in Checks |-> "idle"]
  /\ since = [c \in Checks |-> 0]
  /\ identifier = [c \in Checks |-> 0]
  /\ seen = [c \in Checks |-> {}]
  /\ decision = [c \in Checks |-> "none"]

Waiting == {"idle", "done"}

Goto(c, step) ==
  /\ pc' = [pc EXCEPT ![c] = step]
  /\ since' = [since EXCEPT ![c] = IF step \in Waiting THEN 0 ELSE now]

Finish(c, answer) ==
  /\ Goto(c, "done")
  /\ decision' = [decision EXCEPT ![c] = answer]
-----------------------------------------------------------------------------
(* Variant: an entry never goes stale.                                      *)
HitForever == cached.expiry > 0

Hit == now < cached.expiry

(* A look at the cache: its identifier, or the search.                      *)
Lookup(c) ==
  /\ pc[c] = "idle"
  /\ IF Hit
     THEN Goto(c, "list") /\ identifier' = [identifier EXCEPT ![c] = cached.identifier]
     ELSE Goto(c, "search") /\ UNCHANGED identifier
  /\ seen' = [seen EXCEPT ![c] = {subject}]
  /\ UNCHANGED <<now, authority, cached, decision>>

(* The authority answers the search: an identifier, or none.                *)
Search(c) ==
  /\ pc[c] = "search"
  /\ identifier' = [identifier EXCEPT ![c] = IF subject = "unknown" THEN 0 ELSE registration]
  /\ pc' = [pc EXCEPT ![c] = "found"]
  /\ UNCHANGED <<now, authority, cached, since, seen, decision>>

(* Variant: an unknown subject is remembered too.                           *)
RememberAnything(c) ==
  /\ pc[c] = "found"
  /\ cached' = [identifier |-> identifier[c], expiry |-> now + TTL]
  /\ IF identifier[c] = 0
     THEN Finish(c, "deny")
     ELSE Goto(c, "list") /\ UNCHANGED decision
  /\ UNCHANGED <<now, authority, identifier, seen>>

(* The answer arrives: an unknown subject is denied and not remembered.     *)
Remember(c) ==
  /\ pc[c] = "found"
  /\ IF identifier[c] = 0
     THEN Finish(c, "deny") /\ UNCHANGED cached
     ELSE /\ Goto(c, "list")
          /\ cached' = [identifier |-> identifier[c], expiry |-> now + TTL]
          /\ UNCHANGED decision
  /\ UNCHANGED <<now, authority, identifier, seen>>

(* Variant: any consent record allows, whatever its status.                 *)
ListAny(c) ==
  /\ pc[c] = "list"
  /\ Finish(c, IF subject # "unknown" /\ identifier[c] = registration
               THEN "allow" ELSE "deny")
  /\ UNCHANGED <<now, authority, cached, identifier, seen>>

(* The identifier's consents; one the subject has left behind has none.     *)
List(c) ==
  /\ pc[c] = "list"
  /\ Finish(c, IF subject = "granted" /\ identifier[c] = registration
               THEN "allow" ELSE "deny")
  /\ UNCHANGED <<now, authority, cached, identifier, seen>>

(* Either call fails, or its answer cannot be read.                         *)
CallFails(c) ==
  /\ pc[c] \notin Waiting
  /\ Finish(c, "error")
  /\ UNCHANGED <<now, authority, cached, identifier, seen>>
-----------------------------------------------------------------------------
(* The authority.                                                           *)
Becomes(status) ==
  /\ subject' = status
  /\ seen' = [c \in Checks |-> IF pc[c] \in Waiting THEN seen[c] ELSE seen[c] \cup {status}]
  /\ UNCHANGED <<now, cached, pc, since, identifier, decision>>

Register ==
  /\ subject = "unknown"
  /\ registration < MaxRegistrations
  /\ registration' = registration + 1
  /\ registeredAt' = now
  /\ Becomes("registered")

Grant == subject = "registered" /\ Becomes("granted") /\ UNCHANGED <<registration, registeredAt>>
Withdraw == subject = "granted" /\ Becomes("registered") /\ UNCHANGED <<registration, registeredAt>>
Leave == subject # "unknown" /\ Becomes("unknown") /\ UNCHANGED <<registration, registeredAt>>

(* Time passes, but no call outlives its timeout.                           *)
Tick ==
  /\ now < MaxTime
  /\ \A c \in Checks : pc[c] \notin Waiting => now < since[c] + CallTimeout
  /\ now' = now + 1
  /\ UNCHANGED <<authority, cached, pc, since, identifier, seen, decision>>

Terminated == (\A c \in Checks : pc[c] = "done") /\ UNCHANGED vars

Next ==
  \/ \E c \in Checks : Lookup(c) \/ Search(c) \/ Remember(c) \/ List(c) \/ CallFails(c)
  \/ Register \/ Grant \/ Withdraw \/ Leave \/ Tick \/ Terminated

Spec == Init /\ [][Next]_vars
-----------------------------------------------------------------------------
TypeOK ==
  /\ now \in 0..MaxTime
  /\ subject \in {"unknown", "registered", "granted"}
  /\ registration \in 0..MaxRegistrations
  /\ registration = 0 => subject = "unknown"
  /\ registeredAt \in 0..MaxTime
  /\ cached \in [identifier : 0..registration, expiry : 0..(now + TTL)]
  /\ pc \in [Checks -> {"idle", "search", "found", "list", "done"}]
  /\ since \in [Checks -> 0..MaxTime]
  /\ identifier \in [Checks -> 0..registration]
  /\ seen \in [Checks -> SUBSET {"unknown", "registered", "granted"}]
  /\ decision \in [Checks -> {"none", "allow", "deny", "error"}]

(* No decision is reused: an allowed check has a consent that was granted   *)
(* at some moment of this very check, under the subject's own identifier,   *)
(* however old the cached identifier is (client.go:279-301, 882-913).       *)
AllowIsCurrent == \A c \in Checks : decision[c] = "allow" => "granted" \in seen[c]

(* A subject whose consent stands throughout a check is denied only on an   *)
(* identifier it has left behind, by registering again, and no longer than  *)
(* the entry lives and the calls before and after it take: that it was once *)
(* unknown is never held against it (client.go:382-390, 696-697, 734-743).  *)
StaleIdentifierRunsOut ==
  [][\A c \in Checks :
       decision[c] = "none" /\ decision'[c] = "deny" /\ seen[c] = {"granted"} =>
         registration > 1 /\ now < registeredAt + TTL + 2 * CallTimeout]_vars
=============================================================================
