----------------------------- MODULE RouteConfig -----------------------------
(***************************************************************************)
(* From the JSON of a route to the clients its phases use: ParseConfig     *)
(* (src/internal/plugin/config.go), clientConfigFromCfg (consent.go) and   *)
(* the defaults of the clients themselves.                                 *)
(*                                                                         *)
(* A route is a record of its numbers, texts, URLs and secrets, each a     *)
(* function from the JSON names, with 0 and "" for what is left out; its   *)
(* prefix is a sequence of "/" and of runs of other characters; fail_open  *)
(* is "unset", "true" or "false".  The fields that are neither defaulted   *)
(* nor validated are those their users read (claims, forward).             *)
(***************************************************************************)
EXTENDS Integers, Sequences, FiniteSetsExt

CONSTANTS
  HttpURLs,   (* what url.ParseRequestURI accepts, with scheme http(s)      *)
  Rejected    (* ParseConfig's error                                        *)

Bounds ==
  [consent_api_timeout     |-> [min |-> 1,   max |-> 60000,     default |-> 5000],
   owner_resolver_timeout  |-> [min |-> 1,   max |-> 60000,     default |-> 2000],
   response_phase_timeout  |-> [min |-> 1,   max |-> 120000,    default |-> 10000],
   max_owners_per_response |-> [min |-> 1,   max |-> 1000,      default |-> 50],
   max_resolve_body_bytes  |-> [min |-> 1,   max |-> 104857600, default |-> 1048576],
   participant_token_ttl   |-> [min |-> 1,   max |-> 86400,     default |-> 3000],
   deny_status_code        |-> [min |-> 100, max |-> 599,       default |-> 403]]

DefaultTexts ==
  [jwt_header_name            |-> "Authorization",
   token_audience             |-> "consent-manager",
   deny_response_body         |-> "denied by consent policy",
   deny_response_content_type |-> "application/json"]

(* The secrets and endpoints that the environment may provide.              *)
FromEnv == {"consent_key", "token_service_url", "audit_otlp_endpoint"}

(* verifiableCredential.issuer                                              *)
DefaultConsumerClaim ==
  << [name |-> "verifiableCredential", indices |-> <<>>, wellFormed |-> TRUE],
     [name |-> "issuer", indices |-> <<>>, wellFormed |-> TRUE] >>

DefaultPrefix == <<"/", "v1">>

(* A dotted path by its segments, as parseClaimSegment reads them.          *)
Segment == [name : STRING, indices : Seq(Nat), wellFormed : BOOLEAN]
Path == Seq(Segment)

(* The configuration as it was written.                                     *)
RawConfig ==
  [consent_api_url : STRING, owner_resolver_url : STRING, prefix : Seq(STRING),
   numbers : [DOMAIN Bounds -> Int], texts : [DOMAIN DefaultTexts -> STRING],
   claim : Path, forward : Seq(STRING), secrets : [FromEnv -> STRING],
   participant_token : STRING, audit_enabled : BOOLEAN,
   fail_open : {"unset", "true", "false"}]

(* The prefix up to its last character other than "/".                      *)
TrimRight(prefix) ==
  SubSeq(prefix, 1, Min({n \in 0..Len(prefix) : \A i \in (n + 1)..Len(prefix) : prefix[i] = "/"}))

(* A prefix that is "/" itself is left as it is.                            *)
TrimmedPrefix(prefix) ==
  IF prefix = <<"/">> THEN prefix
  ELSE TrimRight(IF prefix = <<>> THEN DefaultPrefix ELSE prefix)

(* Variant: an explicit value below the minimum is taken for one left out.  *)
DefaultedBelow(n, bounds) == IF n < bounds.min THEN bounds.default ELSE n

Defaulted(n, bounds) == IF n = 0 THEN bounds.default ELSE n

applyDefaults(raw) ==
  [raw EXCEPT
     !.numbers = [f \in DOMAIN Bounds |-> Defaulted(raw.numbers[f], Bounds[f])],
     !.texts   = [f \in DOMAIN DefaultTexts |->
                    IF raw.texts[f] = "" THEN DefaultTexts[f] ELSE raw.texts[f]],
     !.prefix  = TrimmedPrefix(raw.prefix),
     !.claim   = IF raw.claim = <<>> THEN DefaultConsumerClaim ELSE raw.claim]

(* A value in the route's configuration always wins.                        *)
applyEnv(conf, env) ==
  [conf EXCEPT !.secrets = [s \in FromEnv |-> IF conf.secrets[s] = "" THEN env[s] ELSE conf.secrets[s]]]

InBounds(n, bounds) == bounds.min <= n /\ n <= bounds.max

Validate(conf) ==
  /\ {conf.consent_api_url, conf.owner_resolver_url} \subseteq HttpURLs
  /\ conf.prefix # <<>> /\ Head(conf.prefix) = "/"
  /\ \A f \in DOMAIN Bounds : InBounds(conf.numbers[f], Bounds[f])
  /\ conf.audit_enabled => conf.secrets["audit_otlp_endpoint"] # ""
  /\ conf.secrets["token_service_url"] \in HttpURLs \cup {""}
  /\ conf.secrets["token_service_url"] # "" \/ conf.participant_token # ""

(* Variant: the environment is read after the configuration is validated.   *)
ParseConfigEnvLast(raw, env) ==
  LET conf == applyDefaults(raw)
  IN IF Validate(conf) THEN applyEnv(conf, env) ELSE Rejected

ParseConfig(raw, env) ==
  LET conf == applyEnv(applyDefaults(raw), env)
  IN IF Validate(conf) THEN conf ELSE Rejected

IsFailOpen(conf) == conf.fail_open = "true"
-----------------------------------------------------------------------------
(* The consent client of a response phase; times are in the route's units.  *)
ConsentClient(conf) ==
  [timeout      |-> IF conf.numbers.consent_api_timeout < 1
                    THEN 5000 ELSE conf.numbers.consent_api_timeout,
   prefix       |-> IF conf.prefix = <<>> THEN DefaultPrefix ELSE conf.prefix,
   tokenTTL     |-> IF conf.numbers.participant_token_ttl <= 0
                    THEN 3000 ELSE conf.numbers.participant_token_ttl,
   staticToken  |-> conf.participant_token,
   tokenService |-> conf.secrets["token_service_url"]]

(* The resolver client's timeout.                                           *)
ResolverTimeout(conf) ==
  IF conf.numbers.owner_resolver_timeout <= 0
  THEN 2000 ELSE conf.numbers.owner_resolver_timeout

(* credentials' ErrNoCredentials.                                           *)
NoCredentials(client) == client.staticToken = "" /\ client.tokenService = ""
=============================================================================
