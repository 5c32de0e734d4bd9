-------------------------- MODULE CredentialCache --------------------------
(***************************************************************************)
(* The participant credentials of one credential identity (src/internal/   *)
(* consent/client.go): one cached token and provider self-description,     *)
(* refreshed under the entry's lock, and the calls that use them and retry *)
(* once with a forced refresh when the consent-manager answers 401.  The   *)
(* callers may come from routes that differ in token_ttl, which the        *)
(* entry's key leaves out.                                                 *)
(*                                                                         *)
(* Tokens are numbered in the order the token service mints them.  The     *)
(* consent-manager refuses a token that was revoked or has expired, and    *)
(* any call may fail.  Time is counted in units the token's lifetime, the  *)
(* refresh skew and a call's timeout are multiples of.                     *)
(***************************************************************************)
EXTENDS Integers, Sequences, FiniteSets

CONSTANTS
  Callers,      (* goroutines that need the credentials, one call each      *)
  Lifetimes,    (* what the token service reports: 0 is no usable lifetime  *)
  TokenTTLs,    (* the routes' token_ttl, how long they cache a token       *)
  Skew,         (* tokenRefreshSkew                                         *)
  CallTimeout,  (* the HTTP client's timeout                                *)
  MaxTokens,    (* bound: tokens minted                                     *)
  MaxTime       (* bound: time                                              *)

ASSUME CredentialCacheAssumption ==
  /\ IsFiniteSet(Callers)
  /\ Lifetimes \subseteq Nat
  /\ TokenTTLs \subseteq Nat \ {0}
  /\ {Skew, CallTimeout, MaxTokens, MaxTime} \subseteq Nat
  /\ 2 * CallTimeout <= Skew

VARIABLES
  cfg,        (* the static overrides, of one identity and so the same for  *)
              (* all; without a static token there is a token service       *)
              (* (Config.Validate); and each caller's own token_ttl         *)
  now,
  entry,      (* cacheEntry: its token (0: none), tokenExpiry, and whether  *)
              (* it holds a providerSD                                      *)
  holder,     (* who holds the entry's lock: a set of at most one caller    *)
  minted,     (* per token: when it was minted, its lifetime, and until     *)
              (* when it was cached (0: never received)                     *)
  revoked,    (* tokens revoked                                             *)
  kind,       (* what the caller does: "call" an endpoint that needs the    *)
              (* token, with the retry, or ask for the "provider" alone     *)
  pc,
  since,      (* when the caller's pending HTTP call started                *)
  forced,     (* forceLogin: this is the retry                              *)
  token,      (* the token credentials returned to the caller               *)
  refused,    (* the tokens the consent-manager refused the caller          *)
  result

vars == <<cfg, now, entry, holder, minted, revoked, kind, pc, since, forced,
          token, refused, result>>
service == <<cfg, now, minted, revoked, kind>>

Static == 1
Forever == MaxTime + 1
Tokens == 1..Len(minted)
Expiry(t) == IF minted[t].life = 0 THEN Forever ELSE minted[t].at + minted[t].life
Rejects(t) == t \in revoked \/ now > Expiry(t)

Init ==
  /\ cfg \in [staticToken : BOOLEAN, staticSD : BOOLEAN, tokenTTL : [Callers -> TokenTTLs]]
  /\ now = 0
  /\ entry = [token |-> 0, expiry |-> 0, sd |-> FALSE]
  /\ holder = {}
  /\ minted = IF cfg.staticToken THEN <<[at |-> 0, life |-> 0, until |-> Forever]>> ELSE <<>>
  /\ revoked = {}
  /\ kind \in [Callers -> {"call", "provider"}]
  /\ pc = [c \in Callers |-> "credentials"]
  /\ since = [c \in Callers |-> 0]
  /\ forced = [c \in Callers |-> FALSE]
  /\ token = [c \in Callers |-> 0]
  /\ refused = [c \in Callers |-> {}]
  /\ result = [c \in Callers |-> "none"]
-----------------------------------------------------------------------------
(* The steps at which the caller has no HTTP call under way.                *)
Waiting == {"credentials", "done"}

Goto(c, step) ==
  /\ pc' = [pc EXCEPT ![c] = step]
  /\ since' = [since EXCEPT ![c] = IF step \in Waiting THEN 0 ELSE now]

Finish(c, answer) ==
  /\ Goto(c, "done")
  /\ result' = [result EXCEPT ![c] = answer]

Unlock(c) == holder' = holder \ {c}

(* Variant: only success releases the entry's lock.                         *)
GiveUpLocked(c, answer) == Finish(c, answer) /\ UNCHANGED holder

(* Any return from credentials releases the entry's lock.                   *)
GiveUp(c, answer) == Finish(c, answer) /\ Unlock(c)

(* Variant: the retry asks for the credentials as the first attempt did.    *)
RetryUnforced(c) ==
  /\ IF kind[c] = "call" /\ ~cfg.staticToken /\ refused[c] = {}
     THEN Goto(c, "credentials") /\ UNCHANGED result
     ELSE Finish(c, "rejected")
  /\ UNCHANGED forced

(* A 401: CheckConsent and ParticipantSelfDescriptionByDID retry once with  *)
(* a forced refresh; ProviderSelfDescription does not.                      *)
Retry(c) ==
  IF kind[c] = "call" /\ ~cfg.staticToken /\ ~forced[c]
  THEN /\ Goto(c, "credentials")
       /\ forced' = [forced EXCEPT ![c] = TRUE]
       /\ UNCHANGED result
  ELSE Finish(c, "rejected") /\ UNCHANGED forced

Refuse(c, t) ==
  /\ Rejects(t)
  /\ refused' = [refused EXCEPT ![c] = @ \cup {t}]
  /\ Retry(c)

(* All is configured: credentials returns without a look at the cache.      *)
Configured(c) ==
  /\ pc[c] = "credentials"
  /\ cfg.staticToken /\ cfg.staticSD
  /\ IF kind[c] = "call" THEN Goto(c, "use") /\ UNCHANGED result
                         ELSE Finish(c, "ok")
  /\ token' = [token EXCEPT ![c] = Static]
  /\ UNCHANGED <<service, entry, holder, forced, refused>>

(* Variant: the entry has no lock of its own.                               *)
NeverLocked == TRUE

Unlocked == holder = {}

(* The entry's lock, then a look at its token: a retry drops it first, and  *)
(* a token that is missing or past its expiry is fetched anew.              *)
Lock(c) ==
  /\ pc[c] = "credentials"
  /\ ~(cfg.staticToken /\ cfg.staticSD)
  /\ Unlocked
  /\ holder' = holder \cup {c}
  /\ entry' = IF forced[c] /\ ~cfg.staticToken THEN [entry EXCEPT !.token = 0] ELSE entry
  /\ Goto(c, IF ~cfg.staticToken /\ (entry'.token = 0 \/ now > entry.expiry)
             THEN "fetchToken" ELSE "fetchProviderSD")
  /\ UNCHANGED <<service, forced, token, refused, result>>

(* Variant: the skew is forgotten.                                          *)
cacheForAll(lifetime, maxLifetime) ==
  IF lifetime > 0 /\ lifetime < maxLifetime THEN lifetime ELSE maxLifetime

(* How long a token is cached: the shorter of its lifetime and the cap,     *)
(* less the skew unless nothing would be left.                              *)
cacheFor(lifetime, maxLifetime) ==
  LET ttl == IF lifetime > 0 /\ lifetime < maxLifetime THEN lifetime ELSE maxLifetime
  IN IF ttl > Skew THEN ttl - Skew ELSE ttl

(* fetchToken: the service mints a token ...                                *)
Mint(c) ==
  /\ pc[c] = "fetchToken"
  /\ Len(minted) < MaxTokens
  /\ \E life \in Lifetimes : minted' = Append(minted, [at |-> now, life |-> life, until |-> 0])
  /\ token' = [token EXCEPT ![c] = Len(minted')]
  /\ pc' = [pc EXCEPT ![c] = "receiveToken"]
  /\ UNCHANGED <<cfg, now, revoked, kind, entry, holder, since, forced, refused, result>>

(* ... its answer arrives, and the token is cached from then on; or the     *)
(* call fails, whether a token was minted or not.                           *)
ReceiveToken(c) ==
  /\ pc[c] = "receiveToken"
  /\ LET until == now + cacheFor(minted[token[c]].life, cfg.tokenTTL[c]) IN
       /\ entry' = [entry EXCEPT !.token = token[c], !.expiry = until]
       /\ minted' = [minted EXCEPT ![token[c]].until = until]
  /\ Goto(c, "fetchProviderSD")
  /\ UNCHANGED <<cfg, now, revoked, kind, holder, forced, token, refused, result>>

FetchFails(c) ==
  /\ pc[c] \in {"fetchToken", "receiveToken"}
  /\ GiveUp(c, "error")
  /\ UNCHANGED <<service, entry, forced, token, refused>>

(* The credentials are complete: the entry is unlocked and they are used.   *)
HandOut(c) ==
  /\ Unlock(c)
  /\ token' = [token EXCEPT ![c] = IF cfg.staticToken THEN Static ELSE entry.token]
  /\ IF kind[c] = "call" THEN Goto(c, "use") /\ UNCHANGED result
                         ELSE Finish(c, "ok")
  /\ UNCHANGED <<forced, refused>>

(* The provider self-description: configured, cached, or read from /me.     *)
fetchProviderSD(c) ==
  /\ pc[c] = "fetchProviderSD"
  /\ LET t == IF cfg.staticToken THEN Static ELSE entry.token IN
       \/ /\ cfg.staticSD \/ entry.sd
          /\ HandOut(c)
          /\ UNCHANGED entry
       \/ /\ ~cfg.staticSD /\ ~entry.sd /\ ~Rejects(t)
          /\ HandOut(c)
          /\ entry' = [entry EXCEPT !.sd = TRUE]
       \/ /\ ~cfg.staticSD /\ ~entry.sd
          /\ Refuse(c, t)
          /\ Unlock(c)
          /\ UNCHANGED <<entry, token>>
       \/ /\ ~cfg.staticSD /\ ~entry.sd
          /\ GiveUp(c, "error")
          /\ UNCHANGED <<entry, forced, token, refused>>
  /\ UNCHANGED service

(* The calls made with the token, to the first that does not succeed.       *)
Use(c) ==
  /\ pc[c] = "use"
  /\ \/ /\ ~Rejects(token[c])
        /\ Finish(c, "ok")
        /\ UNCHANGED <<forced, refused>>
     \/ Refuse(c, token[c])
     \/ /\ Finish(c, "error")
        /\ UNCHANGED <<forced, refused>>
  /\ UNCHANGED <<service, entry, holder, token>>
-----------------------------------------------------------------------------
(* The world.                                                               *)
Revoke ==
  /\ \E t \in Tokens \ revoked : revoked' = revoked \cup {t}
  /\ UNCHANGED <<cfg, now, minted, kind, entry, holder, pc, since, forced, token, refused, result>>

(* Time passes, but no call outlives its timeout.                           *)
Tick ==
  /\ now < MaxTime
  /\ \A c \in Callers :
       pc[c] \notin Waiting => now < since[c] + CallTimeout
  /\ now' = now + 1
  /\ UNCHANGED <<cfg, minted, revoked, kind, entry, holder, pc, since, forced, token, refused, result>>

Terminated == (\A c \in Callers : pc[c] = "done") /\ UNCHANGED vars

Step(c) ==
  \/ Configured(c) \/ Lock(c) \/ Mint(c) \/ ReceiveToken(c) \/ FetchFails(c)
  \/ fetchProviderSD(c) \/ Use(c)

Next == (\E c \in Callers : Step(c)) \/ Revoke \/ Tick \/ Terminated

(* Every goroutine keeps running, and an HTTP call ends by its timeout.     *)
Fairness == \A c \in Callers : WF_vars(Step(c))

Spec == Init /\ [][Next]_vars
FairSpec == Spec /\ Fairness
-----------------------------------------------------------------------------
TypeOK ==
  /\ cfg \in [staticToken : BOOLEAN, staticSD : BOOLEAN, tokenTTL : [Callers -> TokenTTLs]]
  /\ now \in 0..MaxTime
  /\ entry \in [token : 0..Len(minted), expiry : Nat, sd : BOOLEAN]
  /\ holder \subseteq Callers
  /\ \A c, d \in holder : c = d
  /\ \A c \in Callers :
       c \in holder <=> pc[c] \in {"fetchToken", "receiveToken", "fetchProviderSD"}
  /\ minted \in Seq([at : 0..MaxTime, life : Lifetimes \cup {0}, until : Nat])
  /\ revoked \subseteq Tokens
  /\ kind \in [Callers -> {"call", "provider"}]
  /\ pc \in [Callers -> {"credentials", "fetchToken", "receiveToken", "fetchProviderSD",
                         "use", "done"}]
  /\ since \in [Callers -> 0..MaxTime]
  /\ forced \in [Callers -> BOOLEAN]
  /\ token \in [Callers -> 0..Len(minted)]
  /\ refused \in [Callers -> SUBSET Tokens]
  /\ result \in [Callers -> {"none", "ok", "error", "rejected"}]

(* A call fails for its token only when nothing could be done about it: a   *)
(* fetched token was refused, and so was another one minted for the retry.  *)
(* A revoked or expired cached token alone never denies anybody             *)
(* (client.go:263-273, 469-478).                                            *)
RejectedOnlyAfterRefresh ==
  \A c \in Callers :
    result[c] = "rejected" /\ kind[c] = "call" /\ ~cfg.staticToken =>
      Cardinality(refused[c]) = 2

Lost(t) ==
  minted[t].until = 0 /\ \A c \in Callers : pc[c] = "receiveToken" => token[c] # t

(* The token service is asked once, however many callers start at once,     *)
(* and again only for a reason of its own each time: a refusal somebody     *)
(* met, an answer that was lost, or a cached token that ran out             *)
(* (client.go:344-364).                                                     *)
LoginsAreEarned ==
  Len(minted) <= 1
                   + Cardinality({meeting \in Callers \X Tokens : meeting[2] \in refused[meeting[1]]})
                   + Cardinality({t \in Tokens : Lost(t) \/ minted[t].until \in 1..(now - 1)})

Alive(c) == Expiry(token'[c]) >= now

(* A lifetime that outlasts the skew and, where a route's token_ttl is too  *)
(* short for the skew to be taken off it, that token_ttl besides.           *)
Outlasts(life) ==
  /\ life > Skew
  /\ \A c \in Callers : cfg.tokenTTL[c] <= Skew => life >= Skew + cfg.tokenTTL[c]

HandedOut(c) == pc[c] # "use" /\ pc'[c] = "use"

(* A token whose lifetime the skew leaves room in has not expired when it   *)
(* is handed out, although it is cached from its answer's arrival, perhaps  *)
(* by a route with another token_ttl, and the provider's lookup comes after *)
(* its check; nor does one that is cached for the token_ttl alone, which    *)
(* may itself be shorter than the skew (client.go:355-377, 588-597,         *)
(* 224-235).                                                                *)
HandedOutAlive ==
  [][\A c \in Callers : HandedOut(c) =>
       LET life == minted[token'[c]].life IN life = 0 \/ Outlasts(life) => Alive(c)]_vars

(* Nobody waits for ever: every caller gets its credentials or an error,    *)
(* whoever failed before it while it waited for the lock                    *)
(* (client.go:346-347).                                                     *)
EveryCallerAnswered == \A c \in Callers : <>(pc[c] = "done")
=============================================================================
