-------------------------- MODULE ConsumerIdentity --------------------------
(***************************************************************************)
(* How a response comes to be checked for the party the token names        *)
(* (src/internal/plugin/consent.go, config.go, src/internal/jwt): the      *)
(* plugin is configured for each phase of a route of its own, each         *)
(* configuration is parsed when the runner hands it over, the request      *)
(* phase keeps some claims of the token under its configuration, and the   *)
(* response phase reads the consumer from what was kept under its own.     *)
(*                                                                         *)
(* The runner does not run a filter whose configuration was rejected; a    *)
(* response phase without its request phase is ResponsePhase's.            *)
(***************************************************************************)
EXTENDS RouteConfig, ClaimPath

CONSTANTS
  Cases,        (* the cases examined: [route, env, request], where         *)
                (*   route is a pair of configurations [pre, post];         *)
                (*   env is what the environment provides, per FromEnv name;*)
                (*   request is [header, kind, claims]: the header that     *)
                (*   carries a token, whether it is "readable", its claims  *)
  NotLoaded     (* a configuration not parsed yet                           *)

ASSUME ConsumerIdentityAssumption ==
  \A case \in Cases :
    /\ case.route \in [pre : RawConfig, post : RawConfig]
    /\ case.env \in [FromEnv -> STRING]

VARIABLES
  route, env, request,
  loaded,       (* per phase: NotLoaded, Rejected or the configuration      *)
  pc,           (* the phase the request is before                          *)
  claims,       (* RequestContext.JWTClaims                                 *)
  consumer      (* what evaluateWithResolver read: a DID or NoConsumer      *)

routeVars == <<route, env, request, loaded, pc, claims, consumer>>

Filters == {"pre", "post"}
NoClaims == <<>>

RouteInit ==
  /\ \E case \in Cases :
       route = case.route /\ env = case.env /\ request = case.request
  /\ loaded = [phase \in Filters |-> NotLoaded]
  /\ pc = "pre"
  /\ claims = NoClaims
  /\ consumer = "unread"

ParseConf(phase) ==
  /\ loaded[phase] = NotLoaded
  /\ loaded' = [loaded EXCEPT ![phase] = ParseConfig(route[phase], env)]
  /\ UNCHANGED <<route, env, request, pc, claims, consumer>>

Runs(phase) == pc = phase /\ loaded[phase] \notin {NotLoaded, Rejected}

(* A header that is missing, without Bearer prefix or not decodable leaves  *)
(* the context without claims.                                              *)
RequestFilter ==
  /\ Runs("pre")
  /\ claims' = IF request.kind = "readable"
                  /\ request.header = loaded["pre"].texts.jwt_header_name
               THEN DecodeClaims(request.claims,
                      claimKeysToDecode(loaded["pre"].forward, loaded["pre"].claim))
               ELSE NoClaims
  /\ pc' = "post"
  /\ UNCHANGED <<route, env, request, loaded, consumer>>

(* evaluateWithResolver, as far as the consumer; what it does without one   *)
(* is ResponsePhase's.                                                      *)
ReadConsumer ==
  /\ Runs("post")
  /\ consumer' = consumerFromClaims(claims, loaded["post"].claim)
  /\ pc' = "done"
  /\ UNCHANGED <<route, env, request, loaded, claims>>

(* A phase whose configuration was rejected is not run.                     *)
Terminated ==
  /\ pc \in Filters => loaded[pc] = Rejected
  /\ UNCHANGED routeVars

RouteNext == (\E phase \in Filters : ParseConf(phase)) \/ RequestFilter \/ ReadConsumer \/ Terminated

RouteSpec == RouteInit /\ [][RouteNext]_routeVars
-----------------------------------------------------------------------------
Loaded == {phase \in Filters : loaded[phase] \notin {NotLoaded, Rejected}}

(* What the other modules take for granted of a route that was loaded: its  *)
(* bounds are positive and in range, every call has a timeout and a path    *)
(* with one separator, somebody can authenticate, and whoever audits has a  *)
(* place to (config.go:408-504, client.go:162-187, 330-332, 916-918).       *)
LoadedRouteIsSound ==
  \A phase \in Loaded :
    LET conf == loaded[phase]
    IN /\ \A f \in DOMAIN Bounds : conf.numbers[f] \in Bounds[f].min..Bounds[f].max
       /\ ~NoCredentials(ConsentClient(conf))
       /\ conf.secrets["token_service_url"] = "" \/ conf.secrets["token_service_url"] \in HttpURLs
       /\ conf.audit_enabled => conf.secrets["audit_otlp_endpoint"] # ""
       /\ Head(conf.prefix) = "/"
       /\ Len(conf.prefix) > 1 => Last(conf.prefix) # "/"

(* What the operator wrote is what is used: defaults and environment fill   *)
(* what is left out, no value out of range is replaced by one in range, and *)
(* the clients put no default of their own in place of a loaded value       *)
(* (config.go:342-406, client.go:164-176, ownerresolver/client.go:138-141). *)
NothingSetIsReplaced ==
  \A phase \in Loaded :
    LET raw == route[phase]  conf == loaded[phase]  client == ConsentClient(conf)
    IN /\ \A f \in DOMAIN Bounds : raw.numbers[f] \in {0, conf.numbers[f]}
       /\ \A s \in FromEnv : conf.secrets[s] = IF raw.secrets[s] = "" THEN env[s] ELSE raw.secrets[s]
       /\ \A f \in DOMAIN DefaultTexts : raw.texts[f] \in {"", conf.texts[f]}
       /\ raw.claim \in {<<>>, conf.claim}
       /\ raw.prefix = <<>> \/ \E n \in 0..Len(raw.prefix) :
            raw.prefix = conf.prefix \o [i \in 1..n |-> "/"]
       /\ client.timeout = conf.numbers.consent_api_timeout
       /\ client.tokenTTL = conf.numbers.participant_token_ttl
       /\ client.prefix = conf.prefix
       /\ ResolverTimeout(conf) = conf.numbers.owner_resolver_timeout
       /\ IsFailOpen(conf) => raw.fail_open = "true"

Agree(field) == loaded["pre"][field] = loaded["post"][field]

(* Decoding no more than it needs never changes who the consumer is: it is  *)
(* always the token's own, and when both phases are configured alike it is  *)
(* the one the whole token names, for every path whose first name, the one  *)
(* decoded ahead of time, is not empty                                      *)
(* (consent.go:136-152, 776-794).                                           *)
ConsumerIsTheTokens ==
  pc = "done" =>
    LET named == consumerFromClaims(request.claims, loaded["post"].claim)
    IN /\ consumer \in {named, NoConsumer}
       /\ /\ Agree("claim") /\ Agree("forward") /\ Agree("texts")
          /\ request.kind = "readable"
          /\ request.header = loaded["pre"].texts.jwt_header_name
          /\ claimPathRoot(loaded["pre"].claim) # ""
          => consumer = named
-----------------------------------------------------------------------------
(* What a path means, without walking it: the addresses it stands for, in   *)
(* the set of all positions of the claims.                                  *)

Name(n) == <<"name", n>>
Index(i) == <<"index", i>>

Children(node) ==
  IF node.kind = "object" THEN {<<Name(n), node.members[n]>> : n \in DOMAIN node.members}
  ELSE IF node.kind = "array"
       THEN {<<Index(i), node.items[i + 1]>> : i \in 0..(Len(node.items) - 1)}
  ELSE {}

(* The positions at the given depth, each an address and the value there.   *)
Deeper(positions) ==
  UNION {{<<Append(p[1], c[1]), c[2]>> : c \in Children(p[2])} : p \in positions}

Positions(root, depth) ==
  LET level[d \in 0..depth] == IF d = 0 THEN {<< <<>>, root >>} ELSE Deeper(level[d - 1])
  IN level[depth]

ValuesAt(root, address) == {p[2] : p \in {p \in Positions(root, Len(address)) : p[1] = address}}

(* What a segment stands for: before a name it may leave out one index,     *)
(* that of the first element.                                               *)
SegmentAddresses(segment) ==
  LET indices == [i \in 1..Len(segment.indices) |-> Index(segment.indices[i])]
  IN IF segment.name = "" THEN {indices}
     ELSE {<<Name(segment.name)>> \o indices, <<Index(0), Name(segment.name)>> \o indices}

Lengthen(addresses, segment) ==
  {address \o rest : address \in addresses, rest \in SegmentAddresses(segment)}

Addresses(path) ==
  LET addresses[n \in 0..Len(path)] ==
        IF n = 0 THEN {<<>>} ELSE Lengthen(addresses[n - 1], path[n])
  IN addresses[Len(path)]

Named(root, path) ==
  {leaf.value : leaf \in {leaf \in UNION {ValuesAt(root, a) : a \in Addresses(path)} :
                            leaf.kind = "string" /\ leaf.value # ""}}

(* The consumer is the one non-empty string at an address of the path, and  *)
(* there is none if there is no such string, or the path is malformed: an   *)
(* array in the way is entered at its first element, whatever else it holds *)
(* (consent.go:820-885).                                                    *)
ReadsWhatThePathNames ==
  pc = "done" =>
    LET path  == loaded["post"].claim
        named == IF \A i \in 1..Len(path) : path[i].wellFormed
                 THEN Named(Object(claims), path) ELSE {}
    IN IF named = {} THEN consumer = NoConsumer ELSE named = {consumer}
=============================================================================
