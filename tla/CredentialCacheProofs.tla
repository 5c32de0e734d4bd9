----------------------- MODULE CredentialCacheProofs -----------------------
(***************************************************************************)
(* Proofs about CredentialCache for any number of callers, any lifetimes   *)
(* and token_ttls, and any skew at least two calls long.                   *)
(***************************************************************************)
EXTENDS CredentialCache, FiniteSetTheorems, SequenceTheorems, TLAPS

(* With a static token nothing is ever fetched.                             *)
StaticIsStatic ==
  cfg.staticToken =>
    /\ Len(minted) = 1 /\ minted[Static].life = 0
    /\ entry.token = 0
    /\ \A c \in Callers : /\ pc[c] \notin {"fetchToken", "receiveToken"}
                          /\ token[c] \in {0, Static} /\ ~forced[c]
                          /\ pc[c] = "use" => token[c] = Static

(* The cached token is one that was received, for the time it is cached.    *)
EntryIsReceived ==
  /\ \A t \in Tokens : minted[t].at <= now
  /\ entry.token # 0 => minted[entry.token].until = entry.expiry /\ entry.expiry > 0

(* It is replaced only once it is gone or has run out; whoever fetches or   *)
(* uses a token has one.                                                    *)
HasToken(c) ==
  /\ pc[c] \in {"fetchToken", "receiveToken"} => entry.token = 0 \/ entry.expiry < now
  /\ pc[c] = "receiveToken" => token[c] \in Tokens /\ minted[token[c]].until = 0
  /\ pc[c] = "fetchProviderSD" => cfg.staticToken \/ entry.token # 0
  /\ pc[c] = "use" => token[c] \in Tokens

(* A retry follows one refusal, and asks with a token not refused yet.      *)
RetryIsFresh(c) ==
  /\ result[c] # "none" => pc[c] = "done"
  /\ forced[c] => kind[c] = "call" /\ refused[c] # {}
  /\ kind[c] = "call" /\ ~cfg.staticToken /\ pc[c] # "done" =>
       /\ IF forced[c] THEN \E t \in Tokens : refused[c] = {t} ELSE refused[c] = {}
       /\ pc[c] \in {"receiveToken", "use"} => token[c] \notin refused[c]
       /\ pc[c] = "fetchProviderSD" => entry.token \notin refused[c]
  /\ kind[c] = "call" /\ ~cfg.staticToken /\ result[c] = "rejected" =>
       \E s, t \in Tokens : s # t /\ refused[c] = {s, t}

(* A token is cached no longer than leaves it the time of a call ...        *)
CachedInTime ==
  \A t \in Tokens :
    ~cfg.staticToken /\ minted[t].until > 0 /\ Outlasts(minted[t].life) =>
      minted[t].until + Skew <= minted[t].at + minted[t].life + CallTimeout

(* ... and the calls under way keep to their timeout.                       *)
CallsInTime(c) ==
  /\ pc[c] \notin Waiting => since[c] <= now /\ now <= since[c] + CallTimeout
  /\ pc[c] = "receiveToken" => since[c] <= minted[token[c]].at
  /\ pc[c] = "fetchProviderSD" /\ ~cfg.staticToken /\ Outlasts(minted[entry.token].life) =>
       since[c] + CallTimeout <= minted[entry.token].at + minted[entry.token].life

(* Tokens that were still good for the cache when they were dropped from    *)
(* it, and the retries that may have dropped them.                          *)
Displaced == {t \in Tokens : /\ minted[t].until > 0 /\ minted[t].until >= now
                             /\ t # entry.token}
Retried == {c \in Callers : forced[c] /\ pc[c] # "credentials"}

DropsAreRetries == ~cfg.staticToken => Cardinality(Displaced) <= Cardinality(Retried)

IInv ==
  /\ TypeOK /\ StaticIsStatic /\ EntryIsReceived /\ CachedInTime
  /\ \A c \in Callers : HasToken(c) /\ RetryIsFresh(c) /\ CallsInTime(c)
  /\ DropsAreRetries
-----------------------------------------------------------------------------
USE DEF Waiting, Tokens, Static

(* The type invariant in two parts: what the callers share, and their own.  *)
SharedTyped ==
  /\ cfg \in [staticToken : BOOLEAN, staticSD : BOOLEAN, tokenTTL : [Callers -> TokenTTLs]]
  /\ now \in 0..MaxTime
  /\ entry \in [token : 0..Len(minted), expiry : Nat, sd : BOOLEAN]
  /\ minted \in Seq([at : 0..MaxTime, life : Lifetimes \cup {0}, until : Nat])
  /\ revoked \subseteq Tokens
  /\ kind \in [Callers -> {"call", "provider"}]

Steps == {"credentials", "fetchToken", "receiveToken", "fetchProviderSD", "use", "done"}
Holding == {"fetchToken", "receiveToken", "fetchProviderSD"}

CallersTyped ==
  /\ holder \subseteq Callers
  /\ \A c, d \in holder : c = d
  /\ \A c \in Callers : c \in holder <=> pc[c] \in Holding
  /\ pc \in [Callers -> Steps]
  /\ since \in [Callers -> 0..MaxTime]
  /\ forced \in [Callers -> BOOLEAN]
  /\ token \in [Callers -> 0..Len(minted)]
  /\ refused \in [Callers -> SUBSET Tokens]
  /\ result \in [Callers -> {"none", "ok", "error", "rejected"}]

LEMMA TypeParts == /\ TypeOK <=> SharedTyped /\ CallersTyped
                   /\ TypeOK' <=> SharedTyped' /\ CallersTyped'
  BY DEF TypeOK, SharedTyped, CallersTyped, Steps, Holding

(* The numbers in what is shared.                                           *)
LEMMA SharedNumbers ==
  ASSUME SharedTyped
  PROVE  /\ Len(minted) \in Nat /\ now \in Nat /\ MaxTime \in Nat
         /\ \A t \in Tokens : /\ minted[t].at \in Nat /\ minted[t].until \in Nat
                              /\ minted[t].life \in Lifetimes \cup {0} /\ minted[t].life \in Nat
         /\ entry.token \in 0..Len(minted) /\ entry.expiry \in Nat
         /\ cfg.staticToken \in BOOLEAN
         /\ \A c \in Callers : cfg.tokenTTL[c] \in Nat \ {0}
         /\ Skew \in Nat /\ CallTimeout \in Nat /\ 2 * CallTimeout <= Skew
<1>1. Len(minted) \in Nat /\ \A t \in Tokens :
        minted[t] \in [at : 0..MaxTime, life : Lifetimes \cup {0}, until : Nat]
  BY ElementOfSeq, LenProperties DEF SharedTyped
<1>2. /\ MaxTime \in Nat /\ Lifetimes \cup {0} \subseteq Nat
      /\ Skew \in Nat /\ CallTimeout \in Nat /\ 2 * CallTimeout <= Skew
  BY CredentialCacheAssumption
<1>3. /\ now \in Nat /\ entry.token \in 0..Len(minted) /\ entry.expiry \in Nat
      /\ cfg.staticToken \in BOOLEAN
  BY <1>1, <1>2 DEF SharedTyped
<1>4. \A c \in Callers : cfg.tokenTTL[c] \in Nat \ {0}
  BY CredentialCacheAssumption DEF SharedTyped
<1>5. \A t \in Tokens : /\ minted[t].at \in Nat /\ minted[t].until \in Nat
                        /\ minted[t].life \in Lifetimes \cup {0} /\ minted[t].life \in Nat
  BY <1>1, <1>2
<1> QED
  BY <1>1, <1>2, <1>3, <1>4, <1>5

(* What is cached is never for no time, and leaves the skew of a lifetime   *)
(* that outlasts it.                                                        *)
LEMMA CachedShorter ==
  ASSUME NEW life \in Nat, NEW ttl \in Nat \ {0}
  PROVE  /\ cacheFor(life, ttl) \in Nat \ {0}
         /\ life > Skew /\ (ttl <= Skew => life >= Skew + ttl) =>
              cacheFor(life, ttl) + Skew <= life
  BY CredentialCacheAssumption DEF cacheFor

LEMMA FiniteSides ==
  ASSUME SharedTyped
  PROVE  IsFiniteSet(Displaced) /\ IsFiniteSet(Retried) /\ IsFiniteSet(Retried')
<1>1. Len(minted) \in Nat
  BY SharedNumbers
<1>2. IsFiniteSet(Tokens)
  BY <1>1, FS_Interval
<1> QED
  BY <1>2, CredentialCacheAssumption, FS_Subset DEF Displaced, Retried

(* The tokens dropped while good never outnumber the retries as long as     *)
(* nothing joins the first and nothing leaves the second.                   *)
LEMMA NoneDropped ==
  ASSUME IInv, UNCHANGED cfg, Displaced' \subseteq Displaced, Retried \subseteq Retried'
  PROVE  DropsAreRetries'
<1>1. IsFiniteSet(Displaced) /\ IsFiniteSet(Retried')
  BY TypeParts, FiniteSides DEF IInv
<1>2. Cardinality(Displaced') <= Cardinality(Displaced)
  BY <1>1, FS_Subset
<1>3. Cardinality(Retried) <= Cardinality(Retried')
  BY <1>1, FS_Subset
<1>4. /\ Cardinality(Displaced) \in Nat /\ Cardinality(Displaced') \in Nat
      /\ Cardinality(Retried) \in Nat /\ Cardinality(Retried') \in Nat
  BY <1>1, FS_Subset, FS_CardinalityType
<1> QED
  BY <1>2, <1>3, <1>4 DEF IInv, DropsAreRetries

LEMMA InitIInv ==
  ASSUME Init
  PROVE  IInv
<1> USE CredentialCacheAssumption DEF Init
<1>1. minted \in Seq([at : 0..MaxTime, life : Lifetimes \cup {0}, until : Nat])
  <2> DEFINE stat == [at |-> 0, life |-> 0, until |-> Forever]
             T == [at : 0..MaxTime, life : Lifetimes \cup {0}, until : Nat]
  <2>1. stat \in T
    BY DEF Forever
  <2>2. <<stat>> \in Seq(T) /\ <<>> \in Seq(T)
    <3> HIDE DEF stat, T
    <3> QED  BY <2>1
  <2> QED
    BY <2>2
<1>2. Len(minted) = IF cfg.staticToken THEN 1 ELSE 0
  OBVIOUS
<1>3. TypeOK
  BY <1>1, <1>2 DEF TypeOK
<1>4. StaticIsStatic /\ EntryIsReceived /\ CachedInTime
  BY <1>2 DEF StaticIsStatic, EntryIsReceived, CachedInTime
<1>5. \A c \in Callers : HasToken(c) /\ RetryIsFresh(c) /\ CallsInTime(c)
  BY DEF HasToken, RetryIsFresh, CallsInTime
<1>6. DropsAreRetries
  <2>1. SUFFICES ASSUME ~cfg.staticToken PROVE Cardinality(Displaced) <= Cardinality(Retried)
    BY DEF DropsAreRetries
  <2>2. Displaced = {} /\ Retried = {}
    BY <1>2, <2>1 DEF Displaced, Retried
  <2> QED
    BY <2>2, FS_EmptySet
<1> QED
  BY <1>3, <1>4, <1>5, <1>6 DEF IInv
-----------------------------------------------------------------------------
(* Nothing a step of one caller leaves alone matters to another.            *)
Untouched(d) ==
  /\ pc'[d] = pc[d] /\ since'[d] = since[d] /\ forced'[d] = forced[d]
  /\ token'[d] = token[d] /\ refused'[d] = refused[d] /\ result'[d] = result[d]

LEMMA GotoTyped ==
  ASSUME SharedTyped, CallersTyped, NEW c \in Callers, NEW step \in Steps, Goto(c, step)
  PROVE  /\ pc' \in [Callers -> Steps] /\ since' \in [Callers -> 0..MaxTime]
         /\ \A d \in Callers \ {c} : pc'[d] = pc[d] /\ since'[d] = since[d]
         /\ pc'[c] = step /\ since'[c] = IF step \in {"credentials", "done"} THEN 0 ELSE now
<1>1. now \in 0..MaxTime /\ 0 \in 0..MaxTime
  BY SharedNumbers DEF SharedTyped
<1> QED
  BY <1>1 DEF CallersTyped, Goto

(* What one caller does disturbs another only through the cache and the     *)
(* tokens, which are its own while it holds the entry.                      *)
LEMMA OthersUnmoved ==
  ASSUME IInv, NEW c \in Callers, UNCHANGED <<cfg, now, kind>>,
         \A d \in Callers \ {c} : Untouched(d),
         Len(minted) <= Len(minted)', Len(minted)' \in Nat,
         \/ UNCHANGED <<entry.token, entry.expiry, minted>>
         \/ \A d \in Callers \ {c} : pc[d] \notin Holding
  PROVE  \A d \in Callers \ {c} : HasToken(d)' /\ RetryIsFresh(d)' /\ CallsInTime(d)'
<1> SUFFICES ASSUME NEW d \in Callers \ {c}
             PROVE  HasToken(d)' /\ RetryIsFresh(d)' /\ CallsInTime(d)'
  OBVIOUS
<1>1. Untouched(d) /\ HasToken(d) /\ RetryIsFresh(d) /\ CallsInTime(d) /\ Len(minted) \in Nat
  BY TypeParts, SharedNumbers DEF IInv
<1>2. HasToken(d)'
  BY <1>1 DEF HasToken, Untouched, Holding
<1>3. RetryIsFresh(d)'
  BY <1>1 DEF RetryIsFresh, Untouched, Holding
<1>4. CallsInTime(d)'
  BY <1>1 DEF CallsInTime, Untouched, Holding, Outlasts
<1> QED
  BY <1>2, <1>3, <1>4

(* A step of one caller that leaves the token, the cache and the time       *)
(* alone: only its own invariant can be disturbed.                          *)
LEMMA OwnStep ==
  ASSUME IInv, NEW c \in Callers, UNCHANGED service,
         entry' \in {entry, [entry EXCEPT !.sd = TRUE]},
         \A d \in Callers \ {c} : Untouched(d),
         CallersTyped', StaticIsStatic', HasToken(c)', RetryIsFresh(c)', CallsInTime(c)',
         Retried \subseteq Retried'
  PROVE  IInv'
<1> USE DEF service
<1>1. UNCHANGED <<entry.token, entry.expiry>>
  BY DEF IInv, TypeOK
<1>2. SharedTyped'
  <2>1. SharedTyped
    BY TypeParts DEF IInv
  <2>2. entry' \in [token : 0..Len(minted), expiry : Nat, sd : BOOLEAN]
    <3>1. entry \in [token : 0..Len(minted), expiry : Nat, sd : BOOLEAN]
      BY <2>1 DEF SharedTyped
    <3> QED
      BY <3>1
  <2> QED
    BY <2>1, <2>2 DEF SharedTyped
<1>3. TypeOK'
  BY <1>2, TypeParts
<1>4. EntryIsReceived' /\ CachedInTime'
  BY <1>1 DEF IInv, EntryIsReceived, CachedInTime, Outlasts
<1>5. \A d \in Callers \ {c} : HasToken(d)' /\ RetryIsFresh(d)' /\ CallsInTime(d)'
  <2>1. Len(minted) \in Nat
    BY TypeParts, SharedNumbers DEF IInv
  <2> QED
    BY <1>1, <2>1, OthersUnmoved
<1>6. DropsAreRetries'
  BY <1>1, NoneDropped DEF Displaced
<1> QED
  BY <1>3, <1>4, <1>5, <1>6 DEF IInv

(* The caller goes on to use its token ...                                  *)
LEMMA UsesIInv ==
  ASSUME IInv, NEW c \in Callers, NEW t \in Tokens, UNCHANGED <<service, forced, refused, result>>,
         entry' \in {entry, [entry EXCEPT !.sd = TRUE]},
         pc[c] \in {"credentials", "fetchProviderSD"}, Goto(c, "use"), holder' = holder \ {c},
         token' = [token EXCEPT ![c] = t],
         cfg.staticToken => t = Static,
         ~cfg.staticToken => t \notin refused[c]
  PROVE  IInv'
<1> USE DEF service
<1>1. SharedTyped /\ CallersTyped /\ HasToken(c) /\ RetryIsFresh(c) /\ CallsInTime(c)
  BY TypeParts DEF IInv
<1>2. /\ pc' \in [Callers -> Steps] /\ since' \in [Callers -> 0..MaxTime]
      /\ \A d \in Callers \ {c} : pc'[d] = pc[d] /\ since'[d] = since[d]
      /\ pc'[c] = "use" /\ since'[c] = now
  BY <1>1, GotoTyped DEF Steps
<1>3. token' \in [Callers -> 0..Len(minted)] /\ token'[c] = t
  BY <1>1, SharedNumbers DEF CallersTyped
<1>4. \A d \in Callers \ {c} : Untouched(d)
  BY <1>1, <1>2 DEF CallersTyped, Untouched
<1>5. CallersTyped'
  BY <1>1, <1>2, <1>3 DEF CallersTyped, Holding
<1>6. StaticIsStatic'
  <2>1. cfg.staticToken => UNCHANGED entry.token
    BY DEF IInv, TypeOK
  <2> QED
    BY <1>2, <1>3, <1>4, <2>1, SMTT(30) DEF IInv, StaticIsStatic, Untouched
<1>7. HasToken(c)' /\ CallsInTime(c)'
  BY <1>1, <1>2, <1>3, SharedNumbers DEF HasToken, CallsInTime
<1>8. RetryIsFresh(c)'
  BY <1>1, <1>2, <1>3 DEF RetryIsFresh
<1>9. Retried \subseteq Retried'
  BY <1>2, <1>4 DEF Retried, Untouched
<1> QED
  BY <1>4, <1>5, <1>6, <1>7, <1>8, <1>9, OwnStep

(* ... or ends, with an answer that is not a refusal.                       *)
LEMMA FinishIInv ==
  ASSUME IInv, NEW c \in Callers, NEW answer \in {"ok", "error"},
         UNCHANGED <<service, forced, refused>>,
         entry' \in {entry, [entry EXCEPT !.sd = TRUE]},
         Finish(c, answer), holder' = holder \ {c},
         NEW t \in 0..Len(minted), token' = [token EXCEPT ![c] = t],
         cfg.staticToken => t \in {0, Static}
  PROVE  IInv'
<1> USE DEF service
<1>1. SharedTyped /\ CallersTyped /\ HasToken(c) /\ RetryIsFresh(c) /\ CallsInTime(c)
  BY TypeParts DEF IInv
<1>2. /\ pc' \in [Callers -> Steps] /\ since' \in [Callers -> 0..MaxTime]
      /\ \A d \in Callers \ {c} : pc'[d] = pc[d] /\ since'[d] = since[d]
      /\ pc'[c] = "done" /\ since'[c] = 0
  BY <1>1, GotoTyped DEF Steps, Finish
<1>3. /\ token' \in [Callers -> 0..Len(minted)] /\ token'[c] = t
      /\ result' \in [Callers -> {"none", "ok", "error", "rejected"}] /\ result'[c] = answer
      /\ \A d \in Callers \ {c} : token'[d] = token[d] /\ result'[d] = result[d]
  BY <1>1, SharedNumbers DEF CallersTyped, Finish
<1>4. \A d \in Callers \ {c} : Untouched(d)
  BY <1>1, <1>2, <1>3 DEF CallersTyped, Untouched
<1>5. CallersTyped'
  BY <1>1, <1>2, <1>3 DEF CallersTyped, Holding
<1>6. StaticIsStatic'
  <2>1. cfg.staticToken => UNCHANGED entry.token
    BY DEF IInv, TypeOK
  <2> QED
    BY <1>2, <1>3, <1>4, <2>1 DEF IInv, StaticIsStatic, Untouched
<1>7. HasToken(c)' /\ CallsInTime(c)' /\ RetryIsFresh(c)'
  BY <1>1, <1>2, <1>3 DEF HasToken, CallsInTime, RetryIsFresh
<1>8. Retried \subseteq Retried'
  BY <1>2, <1>4 DEF Retried, Untouched
<1> QED
  BY <1>4, <1>5, <1>6, <1>7, <1>8, OwnStep

(* A refusal is the first, and retried, or the second and of a token other  *)
(* than the first's.                                                        *)
LEMMA RefuseIInv ==
  ASSUME IInv, NEW c \in Callers, NEW t \in Tokens,
         UNCHANGED <<service, entry, token>>,
         Refuse(c, t), holder' = holder \ {c},
         pc[c] \in {"use", "fetchProviderSD"},
         kind[c] = "call" /\ ~cfg.staticToken => t \notin refused[c]
  PROVE  IInv'
<1> USE DEF service
<1>1. SharedTyped /\ CallersTyped /\ HasToken(c) /\ RetryIsFresh(c) /\ CallsInTime(c)
  BY TypeParts DEF IInv
<1>2. /\ refused' \in [Callers -> SUBSET Tokens] /\ refused'[c] = refused[c] \cup {t}
      /\ \A d \in Callers \ {c} : refused'[d] = refused[d]
  BY <1>1 DEF CallersTyped, Refuse
<1>3. CASE kind[c] = "call" /\ ~cfg.staticToken /\ ~forced[c]
  <2>1. /\ pc' \in [Callers -> Steps] /\ since' \in [Callers -> 0..MaxTime]
        /\ \A d \in Callers \ {c} : pc'[d] = pc[d] /\ since'[d] = since[d]
        /\ pc'[c] = "credentials" /\ since'[c] = 0
    BY <1>1, <1>3, GotoTyped DEF Steps, Refuse, Retry
  <2>2. /\ forced' \in [Callers -> BOOLEAN] /\ forced'[c] /\ UNCHANGED result
        /\ \A d \in Callers \ {c} : forced'[d] = forced[d]
    BY <1>1, <1>3 DEF CallersTyped, Refuse, Retry
  <2>3. \A d \in Callers \ {c} : Untouched(d)
    BY <1>2, <2>1, <2>2 DEF Untouched
  <2>4. CallersTyped'
    BY <1>1, <1>2, <2>1, <2>2 DEF CallersTyped, Holding
  <2>5. StaticIsStatic'
    BY <1>3 DEF StaticIsStatic
  <2>6. refused'[c] = {t}
    BY <1>1, <1>2, <1>3 DEF RetryIsFresh
  <2>7. HasToken(c)' /\ CallsInTime(c)' /\ RetryIsFresh(c)'
    BY <1>1, <1>3, <2>1, <2>2, <2>6 DEF HasToken, CallsInTime, RetryIsFresh
  <2>8. Retried \subseteq Retried'
    BY <1>3, <2>3 DEF Retried, Untouched
  <2> QED
    BY <2>3, <2>4, <2>5, <2>7, <2>8, OwnStep
<1>4. CASE ~(kind[c] = "call" /\ ~cfg.staticToken /\ ~forced[c])
  <2>1. /\ pc' \in [Callers -> Steps] /\ since' \in [Callers -> 0..MaxTime]
        /\ \A d \in Callers \ {c} : pc'[d] = pc[d] /\ since'[d] = since[d]
        /\ pc'[c] = "done" /\ since'[c] = 0
    BY <1>1, <1>4, GotoTyped DEF Steps, Refuse, Retry, Finish
  <2>2. /\ result' \in [Callers -> {"none", "ok", "error", "rejected"}] /\ UNCHANGED forced
        /\ \A d \in Callers \ {c} : result'[d] = result[d]
    BY <1>1, <1>4 DEF CallersTyped, Refuse, Retry, Finish
  <2>3. \A d \in Callers \ {c} : Untouched(d)
    BY <1>2, <2>1, <2>2 DEF Untouched
  <2>4. CallersTyped'
    BY <1>1, <1>2, <2>1, <2>2 DEF CallersTyped, Holding
  <2>5. StaticIsStatic'
    BY <2>1, <2>2, <2>3 DEF IInv, StaticIsStatic, Untouched
  <2>6. kind[c] = "call" /\ ~cfg.staticToken =>
          \E s \in Tokens : s # t /\ refused'[c] = {s, t}
    <3>1. SUFFICES ASSUME kind[c] = "call", ~cfg.staticToken
                   PROVE  \E s \in Tokens : s # t /\ refused'[c] = {s, t}
      OBVIOUS
    <3>2. PICK s \in Tokens : refused[c] = {s}
      BY <1>1, <1>4, <3>1 DEF RetryIsFresh
    <3> QED
      BY <1>2, <3>1, <3>2
  <2>7. HasToken(c)' /\ CallsInTime(c)' /\ RetryIsFresh(c)'
    BY <1>1, <1>2, <2>1, <2>2, <2>6 DEF HasToken, CallsInTime, RetryIsFresh
  <2>8. Retried \subseteq Retried'
    BY <2>1, <2>2, <2>3 DEF Retried, Untouched
  <2> QED
    BY <2>3, <2>4, <2>5, <2>7, <2>8, OwnStep
<1> QED
  BY <1>3, <1>4
-----------------------------------------------------------------------------
LEMMA ConfiguredIInv ==
  ASSUME IInv, NEW c \in Callers, Configured(c)
  PROVE  IInv'
<1>1. /\ cfg.staticToken /\ pc[c] = "credentials" /\ token' = [token EXCEPT ![c] = Static]
      /\ UNCHANGED <<service, entry, holder, forced, refused>>
      /\ IF kind[c] = "call" THEN Goto(c, "use") /\ UNCHANGED result ELSE Finish(c, "ok")
  BY DEF Configured
<1>2. Static \in Tokens /\ Static \in 0..Len(minted)
  BY <1>1 DEF IInv, StaticIsStatic
<1>3. holder' = holder \ {c}
  BY <1>1 DEF IInv, TypeOK
<1>4. CASE kind[c] = "call"
  BY <1>1, <1>2, <1>3, <1>4, UsesIInv
<1>5. CASE kind[c] # "call"
  BY <1>1, <1>2, <1>3, <1>5, FinishIInv
<1> QED
  BY <1>4, <1>5

LEMMA FetchFailsIInv ==
  ASSUME IInv, NEW c \in Callers, FetchFails(c)
  PROVE  IInv'
<1>1. ~cfg.staticToken /\ token[c] \in 0..Len(minted) /\ token' = [token EXCEPT ![c] = token[c]]
  BY DEF FetchFails, IInv, TypeOK, StaticIsStatic
<1> QED
  BY <1>1, FinishIInv DEF FetchFails, GiveUp, Unlock

LEMMA UseIInv ==
  ASSUME IInv, NEW c \in Callers, Use(c)
  PROVE  IInv'
<1>1. /\ token[c] \in Tokens /\ token[c] \in 0..Len(minted)
      /\ cfg.staticToken => token[c] = Static
      /\ kind[c] = "call" /\ ~cfg.staticToken => token[c] \notin refused[c]
  BY DEF Use, IInv, TypeOK, HasToken, StaticIsStatic, RetryIsFresh
<1>2. token' = [token EXCEPT ![c] = token[c]] /\ holder' = holder \ {c}
  BY DEF Use, IInv, TypeOK
<1> QED
  BY <1>1, <1>2, FinishIInv, RefuseIInv DEF Use

LEMMA fetchProviderSDIInv ==
  ASSUME IInv, NEW c \in Callers, fetchProviderSD(c)
  PROVE  IInv'
<1> DEFINE t == IF cfg.staticToken THEN Static ELSE entry.token
<1>1. /\ t \in Tokens /\ t \in 0..Len(minted)
      /\ cfg.staticToken => t = Static
      /\ kind[c] = "call" /\ ~cfg.staticToken => t \notin refused[c]
  BY DEF fetchProviderSD, IInv, TypeOK, HasToken, StaticIsStatic, RetryIsFresh
<1>2. /\ token[c] \in 0..Len(minted) /\ token = [token EXCEPT ![c] = token[c]]
      /\ cfg.staticToken => token[c] \in {0, Static}
  BY DEF IInv, TypeOK, StaticIsStatic
<1> HIDE DEF t
<1>3. ASSUME HandOut(c), entry' \in {entry, [entry EXCEPT !.sd = TRUE]},
             pc[c] = "fetchProviderSD", UNCHANGED service
      PROVE  IInv'
  <2>1. token' = [token EXCEPT ![c] = t] /\ holder' = holder \ {c} /\ UNCHANGED <<forced, refused>>
    BY <1>3 DEF HandOut, Unlock, t
  <2>2. CASE kind[c] = "call"
    BY <1>1, <1>3, <2>1, <2>2, UsesIInv DEF HandOut
  <2>3. CASE kind[c] # "call"
    BY <1>1, <1>3, <2>1, <2>3, FinishIInv DEF HandOut
  <2> QED
    BY <2>2, <2>3
<1>4. CASE Refuse(c, t) /\ Unlock(c) /\ UNCHANGED <<entry, token>> /\ pc[c] = "fetchProviderSD" /\ UNCHANGED service
  BY <1>1, <1>4, RefuseIInv DEF Unlock
<1>5. CASE GiveUp(c, "error") /\ UNCHANGED <<entry, forced, token, refused>> /\ UNCHANGED service
  BY <1>2, <1>5, FinishIInv DEF GiveUp, Unlock
<1> QED
  BY <1>3, <1>4, <1>5 DEF fetchProviderSD, t

LEMMA LockIInv ==
  ASSUME IInv, NEW c \in Callers, Lock(c)
  PROVE  IInv'
<1> USE DEF service
<1>1. SharedTyped /\ CallersTyped /\ HasToken(c) /\ RetryIsFresh(c) /\ CallsInTime(c)
  BY TypeParts DEF IInv
<1> DEFINE drops == forced[c] /\ ~cfg.staticToken
           step == IF ~cfg.staticToken /\ (entry'.token = 0 \/ now > entry.expiry)
                   THEN "fetchToken" ELSE "fetchProviderSD"
<1>2. /\ pc[c] = "credentials" /\ holder = {} /\ holder' = {c} /\ Goto(c, step)
      /\ UNCHANGED <<service, forced, token, refused, result>>
  BY DEF Lock, Unlocked
<1>3. /\ entry' \in [token : 0..Len(minted), expiry : Nat, sd : BOOLEAN]
      /\ entry'.token = (IF drops THEN 0 ELSE entry.token) /\ entry'.expiry = entry.expiry
  <2>1. entry \in [token : 0..Len(minted), expiry : Nat, sd : BOOLEAN] /\ 0 \in 0..Len(minted)
    BY <1>1, SharedNumbers DEF SharedTyped
  <2>2. entry' = IF drops THEN [entry EXCEPT !.token = 0] ELSE entry
    BY DEF Lock
  <2> HIDE DEF drops
  <2> QED
    BY <2>1, <2>2
<1>4. step \in Steps
  BY DEF Steps
<1> HIDE DEF step
<1>5. /\ pc' \in [Callers -> Steps] /\ since' \in [Callers -> 0..MaxTime]
      /\ \A d \in Callers \ {c} : pc'[d] = pc[d] /\ since'[d] = since[d]
      /\ pc'[c] = step /\ since'[c] = now
  BY <1>1, <1>2, <1>4, GotoTyped DEF step
<1>6. \A d \in Callers \ {c} : Untouched(d) /\ pc[d] \notin Holding
  BY <1>1, <1>2, <1>5 DEF CallersTyped, Untouched
<1>7. TypeOK'
  <2>1. SharedTyped'
    BY <1>1, <1>2, <1>3 DEF SharedTyped
  <2>2. CallersTyped'
    BY <1>1, <1>2, <1>5, <1>6 DEF CallersTyped, Holding, step
  <2> QED
    BY <2>1, <2>2, TypeParts
<1>8. StaticIsStatic'
  BY <1>2, <1>3, <1>5, <1>6 DEF IInv, StaticIsStatic, Untouched, step
<1>9. EntryIsReceived' /\ CachedInTime'
  BY <1>2, <1>3 DEF IInv, EntryIsReceived, CachedInTime, Outlasts
<1>10. \A d \in Callers \ {c} : HasToken(d)' /\ RetryIsFresh(d)' /\ CallsInTime(d)'
  <2>1. Len(minted) \in Nat
    BY <1>1, SharedNumbers
  <2> QED
    BY <1>2, <1>6, <2>1, OthersUnmoved
<1>11. HasToken(c)' /\ RetryIsFresh(c)'
  <2>1. HasToken(c)'
    BY <1>1, <1>2, <1>3, <1>5, SharedNumbers DEF HasToken, step
  <2>2. RetryIsFresh(c)'
    BY <1>1, <1>2, <1>3, <1>5 DEF RetryIsFresh, step
  <2> QED
    BY <2>1, <2>2
<1>12. CallsInTime(c)'
  <2>1. ASSUME pc'[c] = "fetchProviderSD", ~cfg.staticToken, Outlasts(minted[entry'.token].life)
        PROVE  now + CallTimeout <= minted[entry'.token].at + minted[entry'.token].life
    <3>1. entry'.token = entry.token /\ entry.token \in Tokens /\ now <= entry.expiry
      BY <1>1, <1>2, <1>3, <1>5, <2>1, SharedNumbers DEF step
    <3>2. minted[entry.token].until = entry.expiry /\ entry.expiry > 0
      BY <1>1, <3>1 DEF IInv, EntryIsReceived
    <3>3. entry.expiry + Skew <= minted[entry.token].at + minted[entry.token].life + CallTimeout
      BY <2>1, <3>1, <3>2 DEF IInv, CachedInTime
    <3>4. minted[entry.token].at \in Nat /\ minted[entry.token].life \in Nat
      BY <1>1, <3>1, SharedNumbers
    <3>5. /\ now \in Nat /\ entry.expiry \in Nat /\ Skew \in Nat /\ CallTimeout \in Nat
          /\ 2 * CallTimeout <= Skew
      BY <1>1, SharedNumbers
    <3> DEFINE at == minted[entry.token].at
               life == minted[entry.token].life
               expiry == entry.expiry
    <3>6. at \in Nat /\ life \in Nat /\ expiry \in Nat
      BY <3>4, <3>5
    <3>7. now <= expiry /\ expiry + Skew <= at + life + CallTimeout
      BY <3>1, <3>3
    <3> HIDE DEF at, life, expiry
    <3>8. now + CallTimeout <= at + life
      BY <3>5, <3>6, <3>7
    <3> QED
      BY <3>1, <3>8 DEF at, life
  <2>2. now <= now + CallTimeout /\ now <= now
    BY <1>1, SharedNumbers
  <2> QED
    BY <1>2, <1>5, <2>1, <2>2 DEF CallsInTime, Outlasts, step
<1>13. DropsAreRetries'
  <2>1. CASE ~drops
    <3>1. Displaced' \subseteq Displaced /\ Retried \subseteq Retried'
      BY <1>2, <1>3, <1>5, <1>6, <2>1 DEF Displaced, Retried, Untouched
    <3> QED
      BY <1>2, <3>1, NoneDropped
  <2>2. CASE drops
    <3>1. Displaced' \subseteq Displaced \cup {entry.token}
      BY <1>2 DEF Displaced
    <3>2. Retried' = Retried \cup {c} /\ c \notin Retried
      BY <1>2, <1>5, <1>6, <2>2 DEF Retried, Untouched, step
    <3>3. IsFiniteSet(Displaced) /\ IsFiniteSet(Retried)
      BY <1>1, FiniteSides
    <3>4. /\ Cardinality(Displaced \cup {entry.token}) <= Cardinality(Displaced) + 1
          /\ IsFiniteSet(Displaced \cup {entry.token}) /\ Cardinality(Displaced) \in Nat
      <4>1. Cardinality(Displaced) \in Nat
        BY <3>3, FS_CardinalityType
      <4> QED
        BY <3>3, <4>1, FS_AddElement
    <3>5. Cardinality(Displaced') <= Cardinality(Displaced) + 1
      BY <3>1, <3>4, FS_Subset, FS_CardinalityType
    <3>6. Cardinality(Retried') = Cardinality(Retried) + 1 /\ Cardinality(Retried) \in Nat
      BY <3>2, <3>3, FS_AddElement, FS_CardinalityType
    <3>7. Cardinality(Displaced') \in Nat
      BY <3>1, <3>4, FS_Subset, FS_CardinalityType
    <3>8. Cardinality(Displaced) <= Cardinality(Retried)
      BY <2>2 DEF IInv, DropsAreRetries
    <3> QED
      BY <3>4, <3>5, <3>6, <3>7, <3>8 DEF DropsAreRetries
  <2> QED
    BY <2>1, <2>2
<1> QED
  BY <1>7, <1>8, <1>9, <1>10, <1>11, <1>12, <1>13 DEF IInv

(* A freshly minted token is nobody's yet, so it was never refused.         *)
LEMMA MintIInv ==
  ASSUME IInv, NEW c \in Callers, Mint(c)
  PROVE  IInv'
<1>1. SharedTyped /\ CallersTyped /\ HasToken(c) /\ RetryIsFresh(c) /\ CallsInTime(c)
  BY TypeParts DEF IInv
<1>2. PICK life \in Lifetimes : minted' = Append(minted, [at |-> now, life |-> life, until |-> 0])
  BY DEF Mint
<1>3. /\ minted' \in Seq([at : 0..MaxTime, life : Lifetimes \cup {0}, until : Nat])
      /\ Len(minted)' = Len(minted) + 1
      /\ \A t \in Tokens : minted'[t] = minted[t]
      /\ minted'[Len(minted) + 1] = [at |-> now, life |-> life, until |-> 0]
  <2> DEFINE T == [at : 0..MaxTime, life : Lifetimes \cup {0}, until : Nat]
             e == [at |-> now, life |-> life, until |-> 0]
  <2>1. minted \in Seq(T) /\ e \in T
    BY <1>1 DEF SharedTyped
  <2> HIDE DEF T, e
  <2>2. /\ Append(minted, e) \in Seq(T) /\ Len(Append(minted, e)) = Len(minted) + 1
        /\ \A t \in 1..Len(minted) : Append(minted, e)[t] = minted[t]
        /\ Append(minted, e)[Len(minted) + 1] = e
    BY <2>1, AppendProperties
  <2> QED
    BY <1>2, <2>2 DEF T, e
<1>4. /\ UNCHANGED <<cfg, now, revoked, kind, entry, holder, since, forced, refused, result>>
      /\ pc[c] = "fetchToken" /\ ~cfg.staticToken
  BY <1>1 DEF Mint, IInv, StaticIsStatic
<1>5. /\ pc' = [pc EXCEPT ![c] = "receiveToken"] /\ token' = [token EXCEPT ![c] = Len(minted) + 1]
  BY <1>3 DEF Mint
<1>6. /\ pc' \in [Callers -> Steps] /\ pc'[c] = "receiveToken" /\ token'[c] = Len(minted) + 1
      /\ \A d \in Callers \ {c} : pc'[d] = pc[d] /\ token'[d] = token[d]
  BY <1>1, <1>5 DEF CallersTyped, Steps
<1>7. \A d \in Callers \ {c} : Untouched(d) /\ pc[d] \notin Holding
  BY <1>1, <1>4, <1>6 DEF CallersTyped, Untouched, Holding
<1>8. Len(minted) \in Nat /\ now \in Nat
  BY <1>1, SharedNumbers
<1>9. TypeOK'
  <2>1. SharedTyped'
    BY <1>1, <1>3, <1>4, <1>8, SMTT(30) DEF SharedTyped
  <2>2. token' \in [Callers -> 0..Len(minted)']
    BY <1>1, <1>3, <1>5, <1>8 DEF CallersTyped
  <2>3. refused' \in [Callers -> SUBSET Tokens']
    BY <1>1, <1>3, <1>4, <1>8 DEF CallersTyped
  <2>4. CallersTyped'
    BY <1>1, <1>4, <1>6, <2>2, <2>3 DEF CallersTyped, Holding
  <2> QED
    BY <2>1, <2>4, TypeParts
<1>10. StaticIsStatic'
  BY <1>4 DEF StaticIsStatic
<1>11. EntryIsReceived' /\ CachedInTime'
  <2>1. EntryIsReceived'
    <3>1. \A t \in Tokens' : t \in Tokens \/ t = Len(minted) + 1
      BY <1>3, <1>8
    <3>2. \A t \in Tokens' : minted'[t].at <= now
      BY <1>3, <1>8, <3>1 DEF IInv, EntryIsReceived
    <3>3. entry.token # 0 => entry.token \in Tokens
      BY <1>1, SharedNumbers
    <3> QED
      BY <1>3, <1>4, <3>2, <3>3 DEF IInv, EntryIsReceived
  <2>2. CachedInTime'
    BY <1>3, <1>4, <1>8 DEF IInv, CachedInTime, Outlasts
  <2> QED
    BY <2>1, <2>2
<1>12. \A d \in Callers \ {c} : HasToken(d)' /\ RetryIsFresh(d)' /\ CallsInTime(d)'
  BY <1>3, <1>4, <1>7, <1>8, OthersUnmoved
<1>13. HasToken(c)' /\ CallsInTime(c)'
  BY <1>1, <1>3, <1>4, <1>6, <1>8 DEF HasToken, CallsInTime
<1>14. RetryIsFresh(c)'
  <2>1. refused[c] \subseteq Tokens
    BY <1>1 DEF CallersTyped
  <2>2. Len(minted) + 1 \notin refused[c] /\ Tokens \subseteq Tokens'
    BY <1>3, <1>8, <2>1
  <2> QED
    BY <1>1, <1>4, <1>6, <2>2 DEF RetryIsFresh
<1>15. DropsAreRetries'
  <2>1. Displaced' \subseteq Displaced
    BY <1>3, <1>4, <1>8 DEF Displaced
  <2>2. Retried \subseteq Retried'
    BY <1>4, <1>6 DEF Retried
  <2> QED
    BY <1>4, <2>1, <2>2, NoneDropped
<1> QED
  BY <1>9, <1>10, <1>11, <1>12, <1>13, <1>14, <1>15 DEF IInv

(* The token replaces one that is gone or has run out.                      *)
LEMMA ReceiveTokenIInv ==
  ASSUME IInv, NEW c \in Callers, ReceiveToken(c)
  PROVE  IInv'
<1> DEFINE t == token[c]
           stay == cacheFor(minted[t].life, cfg.tokenTTL[c])
           until == now + stay
<1>1. SharedTyped /\ CallersTyped /\ HasToken(c) /\ RetryIsFresh(c) /\ CallsInTime(c)
  BY TypeParts DEF IInv
<1>2. /\ entry' = [entry EXCEPT !.token = t, !.expiry = until]
      /\ minted' = [minted EXCEPT ![t].until = until]
      /\ pc[c] = "receiveToken" /\ Goto(c, "fetchProviderSD") /\ ~cfg.staticToken
      /\ UNCHANGED <<cfg, now, revoked, kind, holder, forced, token, refused, result>>
  BY DEF ReceiveToken, IInv, StaticIsStatic
<1>3. t \in Tokens /\ minted[t].until = 0 /\ (entry.token = 0 \/ entry.expiry < now)
  BY <1>1, <1>2 DEF HasToken
<1>4. /\ Len(minted) \in Nat /\ now \in Nat /\ Skew \in Nat /\ CallTimeout \in Nat
      /\ 2 * CallTimeout <= Skew
      /\ minted[t].at \in Nat /\ minted[t].life \in Nat /\ cfg.tokenTTL[c] \in Nat \ {0}
  BY <1>1, <1>3, SharedNumbers
<1>5. /\ stay \in Nat \ {0}
      /\ Outlasts(minted[t].life) => stay + Skew <= minted[t].life
  BY <1>4, CachedShorter DEF Outlasts
<1> HIDE DEF t, stay
<1>6. until \in Nat /\ until > 0 /\ until >= now
  BY <1>4, <1>5
<1>7. /\ minted' \in Seq([at : 0..MaxTime, life : Lifetimes \cup {0}, until : Nat])
      /\ Len(minted)' = Len(minted)
      /\ \A s \in Tokens : minted'[s] = IF s = t THEN [minted[t] EXCEPT !.until = until] ELSE minted[s]
  <2> DEFINE T == [at : 0..MaxTime, life : Lifetimes \cup {0}, until : Nat]
             e == [minted[t] EXCEPT !.until = until]
  <2>1. minted \in Seq(T) /\ minted[t] \in T
    BY <1>1, <1>3, ElementOfSeq DEF SharedTyped
  <2>2. e \in T
    BY <1>6, <2>1
  <2>3. minted' = [minted EXCEPT ![t] = e]
    BY <1>2
  <2> HIDE DEF T, e
  <2>4. /\ [minted EXCEPT ![t] = e] \in Seq(T) /\ Len([minted EXCEPT ![t] = e]) = Len(minted)
        /\ \A s \in 1..Len(minted) : [minted EXCEPT ![t] = e][s] = IF s = t THEN e ELSE minted[s]
    BY <1>3, <2>1, <2>2, ExceptSeq
  <2> QED
    BY <2>3, <2>4 DEF T, e
<1>8. \A s \in Tokens : /\ minted'[s].at = minted[s].at /\ minted'[s].life = minted[s].life
                        /\ minted'[s].until = IF s = t THEN until ELSE minted[s].until
  <2>1. \A s \in Tokens : minted[s] \in [at : 0..MaxTime, life : Lifetimes \cup {0}, until : Nat]
    BY <1>1, ElementOfSeq DEF SharedTyped
  <2> DEFINE e == [minted[t] EXCEPT !.until = until]
  <2>2. e.at = minted[t].at /\ e.life = minted[t].life /\ e.until = until
    BY <1>3, <2>1
  <2>3. \A s \in Tokens : minted'[s] = IF s = t THEN e ELSE minted[s]
    BY <1>7
  <2> HIDE DEF e, until
  <2> QED
    BY <2>2, <2>3
<1>9. /\ entry'.token = t /\ entry'.expiry = until
      /\ entry' \in [token : 0..Len(minted), expiry : Nat, sd : BOOLEAN]
  <2>1. entry \in [token : 0..Len(minted), expiry : Nat, sd : BOOLEAN] /\ t \in 0..Len(minted)
    BY <1>1, <1>3, <1>4 DEF SharedTyped
  <2> HIDE DEF until
  <2> QED
    BY <1>2, <1>6, <2>1
<1> HIDE DEF until
<1>10. /\ pc' \in [Callers -> Steps] /\ since' \in [Callers -> 0..MaxTime]
       /\ \A d \in Callers \ {c} : pc'[d] = pc[d] /\ since'[d] = since[d]
       /\ pc'[c] = "fetchProviderSD" /\ since'[c] = now
  BY <1>1, <1>2, GotoTyped DEF Steps
<1>11. \A d \in Callers \ {c} : Untouched(d) /\ pc[d] \notin Holding
  BY <1>1, <1>2, <1>10 DEF CallersTyped, Untouched, Holding
<1>12. TypeOK'
  <2>1. SharedTyped'
    BY <1>1, <1>2, <1>7, <1>9 DEF SharedTyped
  <2>2. CallersTyped'
    BY <1>1, <1>2, <1>7, <1>10 DEF CallersTyped, Holding
  <2> QED
    BY <2>1, <2>2, TypeParts
<1>13. StaticIsStatic'
  BY <1>2 DEF StaticIsStatic
<1>14. EntryIsReceived'
  BY <1>2, <1>3, <1>6, <1>7, <1>8, <1>9 DEF IInv, EntryIsReceived
<1>15. CachedInTime'
  <2>1. ASSUME NEW s \in Tokens, minted'[s].until > 0, Outlasts(minted[s].life)
        PROVE  minted'[s].until + Skew <= minted[s].at + minted[s].life + CallTimeout
    <3>1. CASE s # t
      BY <1>2, <1>8, <2>1, <3>1 DEF IInv, CachedInTime
    <3>2. CASE s = t
      <4>1. /\ since[c] <= minted[t].at /\ now <= since[c] + CallTimeout /\ since[c] \in Nat
        BY <1>1, <1>2 DEF CallsInTime, CallersTyped, t
      <4>2. stay + Skew <= minted[t].life
        BY <1>5, <2>1, <3>2
      <4>3. minted'[s].until = now + stay
        BY <1>8, <3>2 DEF until
      <4> QED
        BY <1>4, <1>5, <3>2, <4>1, <4>2, <4>3
    <3> QED
      BY <3>1, <3>2
  <2> QED
    BY <1>2, <1>7, <1>8, <2>1 DEF CachedInTime, Outlasts
<1>16. \A d \in Callers \ {c} : HasToken(d)' /\ RetryIsFresh(d)' /\ CallsInTime(d)'
  <2>1. Len(minted) <= Len(minted)' /\ Len(minted)' \in Nat
    BY <1>4, <1>7
  <2> QED
    BY <1>2, <1>11, <2>1, OthersUnmoved
<1>17. HasToken(c)' /\ RetryIsFresh(c)'
  <2>1. HasToken(c)'
    BY <1>2, <1>3, <1>9, <1>10 DEF HasToken
  <2>2. Tokens' = Tokens
    BY <1>7
  <2>3. kind[c] = "call" => t \notin refused[c]
    BY <1>1, <1>2 DEF RetryIsFresh, t
  <2>4. RetryIsFresh(c)'
    BY <1>1, <1>2, <1>9, <1>10, <2>2, <2>3 DEF RetryIsFresh
  <2> QED
    BY <2>1, <2>4
<1>18. CallsInTime(c)'
  <2>1. ASSUME Outlasts(minted[t].life)
        PROVE  now + CallTimeout <= minted[t].at + minted[t].life
    <3>1. /\ since[c] <= minted[t].at /\ now <= since[c] + CallTimeout /\ since[c] \in Nat
      BY <1>1, <1>2 DEF CallsInTime, CallersTyped, t
    <3>2. minted[t].life > Skew
      BY <2>1 DEF Outlasts
    <3> QED
      BY <1>4, <3>1, <3>2
  <2>2. now <= now + CallTimeout /\ now <= now
    BY <1>4
  <2> QED
    BY <1>2, <1>3, <1>8, <1>9, <1>10, <2>1, <2>2 DEF CallsInTime, Outlasts
<1>19. DropsAreRetries'
  <2>1. Displaced' \subseteq Displaced
    <3>1. SUFFICES ASSUME NEW s \in Displaced' PROVE s \in Displaced
      OBVIOUS
    <3>2. s \in Tokens /\ s # t /\ minted[s].until > 0 /\ minted[s].until >= now
      BY <1>2, <1>7, <1>8, <1>9, <3>1 DEF Displaced
    <3>3. s # entry.token
      BY <1>1, <1>3, <1>4, <3>2, SharedNumbers DEF IInv, EntryIsReceived
    <3> QED
      BY <3>2, <3>3 DEF Displaced
  <2>2. Retried \subseteq Retried'
    BY <1>2, <1>10 DEF Retried
  <2> QED
    BY <1>2, <2>1, <2>2, NoneDropped
<1> QED
  BY <1>12, <1>13, <1>14, <1>15, <1>16, <1>17, <1>18, <1>19 DEF IInv
-----------------------------------------------------------------------------
LEMMA RevokeIInv ==
  ASSUME IInv, Revoke
  PROVE  IInv'
<1>1. SharedTyped /\ CallersTyped
  BY TypeParts DEF IInv
<1>2. /\ UNCHANGED <<cfg, now, minted, kind, entry, holder, pc, since, forced, token, refused, result>>
      /\ revoked' \subseteq Tokens
  BY <1>1 DEF Revoke, SharedTyped
<1>3. TypeOK'
  BY <1>1, <1>2, TypeParts DEF SharedTyped, CallersTyped
<1>4. StaticIsStatic' /\ EntryIsReceived' /\ CachedInTime'
  BY <1>2 DEF IInv, StaticIsStatic, EntryIsReceived, CachedInTime, Outlasts
<1>5. \A c \in Callers : HasToken(c)' /\ RetryIsFresh(c)' /\ CallsInTime(c)'
  BY <1>2 DEF IInv, HasToken, RetryIsFresh, CallsInTime, Outlasts
<1>6. DropsAreRetries'
  BY <1>2, NoneDropped DEF Displaced, Retried
<1> QED
  BY <1>3, <1>4, <1>5, <1>6 DEF IInv

(* Time runs what is cached out and drops nothing.                          *)
LEMMA TickIInv ==
  ASSUME IInv, Tick
  PROVE  IInv'
<1>1. SharedTyped /\ CallersTyped
  BY TypeParts DEF IInv
<1>2. /\ UNCHANGED <<cfg, minted, revoked, kind, entry, holder, pc, since, forced, token, refused, result>>
      /\ now' = now + 1 /\ now < MaxTime /\ now \in Nat /\ MaxTime \in Nat
      /\ Len(minted) \in Nat /\ entry.expiry \in Nat /\ CallTimeout \in Nat
      /\ \A t \in Tokens : minted[t].at \in Nat /\ minted[t].until \in Nat
      /\ \A c \in Callers : pc[c] \notin Waiting => now < since[c] + CallTimeout
      /\ \A c \in Callers : since[c] \in Nat
  BY <1>1, SharedNumbers DEF Tick, CallersTyped
<1>3. TypeOK'
  BY <1>1, <1>2, TypeParts DEF SharedTyped, CallersTyped
<1>4. StaticIsStatic' /\ CachedInTime'
  BY <1>2 DEF IInv, StaticIsStatic, CachedInTime, Outlasts
<1>5. EntryIsReceived'
  BY <1>2 DEF IInv, EntryIsReceived
<1>6. \A c \in Callers : HasToken(c)' /\ RetryIsFresh(c)'
  BY <1>2 DEF IInv, HasToken, RetryIsFresh
<1>7. \A c \in Callers : CallsInTime(c)'
  BY <1>2 DEF IInv, CallsInTime, Outlasts
<1>8. DropsAreRetries'
  BY <1>2, NoneDropped DEF Displaced, Retried
<1> QED
  BY <1>3, <1>4, <1>5, <1>6, <1>7, <1>8 DEF IInv

LEMMA NextIInv ==
  ASSUME IInv, [Next]_vars
  PROVE  IInv'
<1>1. ASSUME NEW c \in Callers, Step(c)
      PROVE  IInv'
  BY <1>1, ConfiguredIInv, LockIInv, MintIInv, ReceiveTokenIInv, FetchFailsIInv,
     fetchProviderSDIInv, UseIInv DEF Step
<1>2. CASE UNCHANGED vars
  <2> USE <1>2 DEF vars
  <2>1. TypeOK' /\ StaticIsStatic' /\ EntryIsReceived' /\ CachedInTime'
    BY DEF IInv, TypeOK, StaticIsStatic, EntryIsReceived, CachedInTime, Outlasts
  <2>2. \A c \in Callers : HasToken(c)' /\ RetryIsFresh(c)' /\ CallsInTime(c)'
    BY DEF IInv, HasToken, RetryIsFresh, CallsInTime, Outlasts
  <2>3. DropsAreRetries'
    BY NoneDropped DEF Displaced, Retried
  <2> QED
    BY <2>1, <2>2, <2>3 DEF IInv
<1> QED
  BY <1>1, <1>2, RevokeIInv, TickIInv DEF Next, Terminated

LEMMA Inductive == Spec => []IInv
<1>1. Init => IInv
  BY InitIInv
<1>2. IInv /\ [Next]_vars => IInv'
  BY NextIInv
<1> QED
  BY <1>1, <1>2, PTL DEF Spec
-----------------------------------------------------------------------------
(* Types, who holds the entry's lock, and that no two do.                   *)
THEOREM TypeCorrect == Spec => []TypeOK
<1>1. IInv => TypeOK
  BY DEF IInv
<1> QED
  BY <1>1, Inductive, PTL

(* A call fails for its token only when a fetched token was refused, and so *)
(* was another one minted for the retry: a revoked or expired token in the  *)
(* cache alone never denies anybody (client.go:263-273, 469-478).           *)
THEOREM RefusalsAreRetried == Spec => []RejectedOnlyAfterRefresh
<1>1. IInv => RejectedOnlyAfterRefresh
  <2>1. SUFFICES ASSUME IInv, NEW c \in Callers,
                        result[c] = "rejected", kind[c] = "call", ~cfg.staticToken
                 PROVE  Cardinality(refused[c]) = 2
    BY DEF RejectedOnlyAfterRefresh
  <2>2. PICK s, t \in Tokens : s # t /\ refused[c] = {s, t}
    BY <2>1 DEF IInv, RetryIsFresh
  <2>3. IsFiniteSet({s}) /\ Cardinality({s}) = 1 /\ {s} \cup {t} = {s, t}
    BY FS_Singleton
  <2>4. Cardinality({s} \cup {t}) = 1 + 1
    BY <2>2, <2>3, FS_AddElement
  <2>5. Cardinality(refused[c]) = 1 + 1
    BY <2>2, <2>3, <2>4, Zenon
  <2> QED
    BY <2>5
<1> QED
  BY <1>1, Inductive, PTL

(* The token service is asked once, and again only for a refusal somebody   *)
(* met, an answer that was lost, or a cached token that ran out, however    *)
(* many callers start at once (client.go:344-364).                          *)
THEOREM LoginsEarned == Spec => []LoginsAreEarned
<1> DEFINE Meetings == {meeting \in Callers \X Tokens : meeting[2] \in refused[meeting[1]]}
           Gone == {t \in Tokens : Lost(t) \/ minted[t].until \in 1..(now - 1)}
<1>1. ASSUME IInv
      PROVE  Len(minted) <= 1 + Cardinality(Meetings) + Cardinality(Gone)
  <2>1. SharedTyped /\ CallersTyped /\ Len(minted) \in Nat
    BY <1>1, TypeParts, SharedNumbers DEF IInv
  <2>2. IsFiniteSet(Tokens) /\ Cardinality(Tokens) = Len(minted)
    <3> DEFINE n == Len(minted)
    <3>1. n \in Nat
      BY <2>1
    <3> HIDE DEF n
    <3>2. IsFiniteSet(1..n) /\ Cardinality(1..n) = n
      BY <3>1, FS_Interval
    <3> QED
      BY <3>2 DEF n
  <2>3. IsFiniteSet(Meetings) /\ Cardinality(Meetings) \in Nat
    BY <2>2, CredentialCacheAssumption, FS_Product, FS_Subset, FS_CardinalityType
  <2>4. IsFiniteSet(Gone) /\ Cardinality(Gone) \in Nat
    BY <2>2, FS_Subset, FS_CardinalityType
  <2>5. CASE cfg.staticToken
    <3>1. Len(minted) = 1
      BY <1>1, <2>5 DEF IInv, StaticIsStatic
    <3> HIDE DEF Meetings, Gone
    <3> QED
      BY <2>3, <2>4, <3>1
  <2>6. CASE ~cfg.staticToken
    <3>1. IsFiniteSet(Displaced) /\ IsFiniteSet(Retried) /\ Cardinality(Displaced) \in Nat
      BY <2>1, FiniteSides, FS_CardinalityType
    (* Each retry rests on a refusal its caller met.                        *)
    <3>2. Cardinality(Retried) <= Cardinality(Meetings)
      <4> DEFINE met == [c \in Retried |-> <<c, CHOOSE t \in refused[c] : TRUE>>]
      <4>1. \A c \in Retried : (CHOOSE t \in refused[c] : TRUE) \in refused[c]
        BY <1>1 DEF IInv, RetryIsFresh, Retried
      <4>2. \A c \in Retried : met[c] \in Meetings
        BY <2>1, <4>1 DEF CallersTyped, Retried
      <4>3. met \in Injection(Retried, Meetings)
        BY <4>2, Zenon DEF Injection, IsInjective
      <4> QED
        BY <2>3, <4>3, FS_Injection
    (* Of the others at most one is on its way, or cached and good.         *)
    <3>3. PICK x : Tokens \subseteq (Displaced \cup Gone) \cup {x}
      <4>1. \A t \in Tokens : \/ t \in Displaced \cup Gone \/ t = entry.token
                              \/ \E c \in Callers : pc[c] = "receiveToken" /\ token[c] = t
        BY <2>1, SharedNumbers DEF Displaced, Lost
      <4>2. CASE \E c \in Callers : pc[c] = "receiveToken"
        <5>1. PICK c \in Callers : pc[c] = "receiveToken"
          BY <4>2
        <5>2. \A d \in Callers : pc[d] = "receiveToken" => d = c
          BY <2>1, <5>1 DEF CallersTyped, Holding
        <5>3. entry.token \in Tokens => entry.token \in Gone
          BY <1>1, <2>1, <5>1, SharedNumbers DEF IInv, HasToken, EntryIsReceived
        <5>4. Tokens \subseteq (Displaced \cup Gone) \cup {token[c]}
          BY <4>1, <5>2, <5>3
        <5> QED
          BY <5>4
      <4>3. CASE ~\E c \in Callers : pc[c] = "receiveToken"
        <5>1. Tokens \subseteq (Displaced \cup Gone) \cup {entry.token}
          BY <4>1, <4>3
        <5> QED
          BY <5>1
      <4> QED
        BY <4>2, <4>3
    <3>4. /\ IsFiniteSet(Displaced \cup Gone)
          /\ Cardinality(Displaced \cup Gone) <= Cardinality(Displaced) + Cardinality(Gone)
      <4> HIDE DEF Gone
      <4>1. /\ IsFiniteSet(Displaced \cup Gone) /\ IsFiniteSet(Displaced \cap Gone)
            /\ Cardinality(Displaced \cup Gone) =
                 Cardinality(Displaced) + Cardinality(Gone) - Cardinality(Displaced \cap Gone)
        BY <2>4, <3>1, FS_Union, FS_Intersection
      <4>2. Cardinality(Displaced \cap Gone) \in Nat
        BY <4>1, FS_CardinalityType
      <4> QED
        BY <2>4, <3>1, <4>1, <4>2
    <3> HIDE DEF Gone, Meetings
    <3>5. Cardinality(Displaced \cup Gone) \in Nat
      BY <3>4, FS_CardinalityType
    <3>6. /\ IsFiniteSet((Displaced \cup Gone) \cup {x})
          /\ Cardinality((Displaced \cup Gone) \cup {x}) <= Cardinality(Displaced \cup Gone) + 1
      BY <3>4, <3>5, FS_AddElement
    <3>7. Cardinality(Tokens) <= Cardinality((Displaced \cup Gone) \cup {x})
      BY <3>3, <3>6, FS_Subset
    <3>8. Cardinality(Displaced) <= Cardinality(Retried) /\ Cardinality(Retried) \in Nat
      BY <1>1, <2>6, <3>1, FS_CardinalityType DEF IInv, DropsAreRetries
    <3>9. Cardinality((Displaced \cup Gone) \cup {x}) \in Nat
      BY <3>6, FS_CardinalityType
    <3> QED
      BY <2>1, <2>2, <2>3, <2>4, <3>1, <3>2, <3>4, <3>5, <3>6, <3>7, <3>8, <3>9
  <2> QED
    BY <2>5, <2>6
<1>2. IInv => LoginsAreEarned
  BY <1>1 DEF LoginsAreEarned
<1> QED
  BY <1>2, Inductive, PTL

(* A token whose lifetime outlasts the skew has not expired when it is      *)
(* handed out, whatever the lifetimes, the routes' token_ttls and the skew, *)
(* as long as two calls fit into the skew (client.go:355-377, 588-597).     *)
THEOREM TokensHandedOutAlive == Spec => HandedOutAlive
<1>1. ASSUME IInv, Next, NEW c \in Callers, HandedOut(c),
             LET life == minted[token'[c]].life IN life = 0 \/ Outlasts(life)
      PROVE  Alive(c)
  <2>1. SharedTyped /\ CallersTyped /\ HasToken(c) /\ CallsInTime(c)
    BY <1>1, TypeParts DEF IInv
  <2>2. Configured(c) \/ fetchProviderSD(c)
    <3>1. PICK d \in Callers : Step(d)
      BY <1>1 DEF HandedOut, Next, Revoke, Tick, Terminated, vars
    <3>2. d = c
      BY <1>1, <2>1, <3>1 DEF HandedOut, CallersTyped, Step, Configured, Lock, Mint, ReceiveToken,
         FetchFails, fetchProviderSD, HandOut, Use, Refuse, Retry, GiveUp, Finish, Goto
    <3>3. ~(Lock(c) \/ Mint(c) \/ ReceiveToken(c) \/ FetchFails(c) \/ Use(c))
      BY <1>1, <2>1 DEF HandedOut, CallersTyped, Lock, Mint, ReceiveToken,
         FetchFails, Use, GiveUp, Finish, Goto
    <3> QED
      BY <3>1, <3>2, <3>3 DEF Step
  <2>3. now \in 0..MaxTime /\ UNCHANGED <<cfg, minted, now>>
    BY <2>1, <2>2 DEF SharedTyped, Configured, fetchProviderSD, service
  <2>4. CASE cfg.staticToken
    <3>1. token'[c] = Static /\ minted[Static].life = 0
      BY <1>1, <2>1, <2>2, <2>4 DEF IInv, StaticIsStatic, CallersTyped, HandedOut, Configured,
         fetchProviderSD, HandOut, Refuse, Retry, GiveUp, Finish, Goto
    <3> QED
      BY <2>1, <2>3, <3>1, SharedNumbers DEF Alive, Expiry, Forever
  <2>5. CASE ~cfg.staticToken
    <3>1. token'[c] = entry.token /\ pc[c] = "fetchProviderSD"
      BY <1>1, <2>1, <2>2, <2>5 DEF CallersTyped, HandedOut, Configured,
         fetchProviderSD, HandOut, Refuse, Retry, GiveUp, Finish, Goto
    <3>2. entry.token \in Tokens /\ minted[entry.token].life \in Nat /\ minted[entry.token].at \in Nat
      BY <2>1, <2>5, <3>1, SharedNumbers DEF HasToken
    <3>3. CASE minted[entry.token].life = 0
      BY <2>1, <2>3, <3>1, <3>3, SharedNumbers DEF Alive, Expiry, Forever
    <3>4. CASE Outlasts(minted[entry.token].life)
      <4>1. /\ now <= since[c] + CallTimeout
            /\ since[c] + CallTimeout <= minted[entry.token].at + minted[entry.token].life
        BY <2>1, <2>5, <3>1, <3>4 DEF CallsInTime
      <4>2. now \in Nat /\ since[c] \in Nat /\ CallTimeout \in Nat /\ MaxTime \in Nat
        BY <2>1, SharedNumbers DEF CallersTyped
      <4>3. now <= minted[entry.token].at + minted[entry.token].life
        BY <3>2, <4>1, <4>2
      <4>4. now <= MaxTime + 1
        BY <2>3, <4>2
      <4> QED
        BY <2>3, <3>1, <4>3, <4>4 DEF Alive, Expiry, Forever
    <3> QED
      BY <1>1, <3>1, <3>3, <3>4
  <2> QED
    BY <2>4, <2>5
<1>2. IInv /\ [Next]_vars =>
        [\A c \in Callers : HandedOut(c) =>
           LET life == minted[token'[c]].life IN life = 0 \/ Outlasts(life) => Alive(c)]_vars
  BY <1>1
<1> QED
  BY <1>2, Inductive, PTL DEF Spec, HandedOutAlive
=============================================================================
