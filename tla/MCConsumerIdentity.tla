------------------------- MODULE MCConsumerIdentity -------------------------
(* Two families of cases.  In the first, one field at a time of an ordinary *)
(* route takes its odd values, under every environment.  In the second the  *)
(* phases are configured with every pair of claim paths, with claims to     *)
(* forward that may differ too, for tokens of every shape.                  *)
EXTENDS ConsumerIdentity

Seg(name, indices) == [name |-> name, indices |-> indices, wellFormed |-> TRUE]
VC == "verifiableCredential"
Text(value) == [kind |-> "string", value |-> value]
Array(items) == [kind |-> "array", items |-> items]
Credential(issuer) == Object([issuer |-> issuer])
Tokens ==
  { [sub |-> Text("s"), verifiableCredential |-> Credential(Text("did:a"))],
    [sub |-> Text("s"), iss |-> Text("did:c"),
     verifiableCredential |-> Array(<<Credential(Text("did:a")), Credential(Text("did:b"))>>)],
    [iss |-> Text("did:c"), verifiableCredential |-> Array(<<>>)],
    [verifiableCredential |-> Array(<<Array(<<Credential(Text("did:a"))>>), Credential(Text("did:b"))>>)],
    [iss |-> Array(<<Text("did:c")>>), verifiableCredential |-> Array(<<Text("did:a"), Credential(Text("did:b"))>>)],
    [iss |-> Text(""), verifiableCredential |-> Credential(Array(<<Text("did:a"), Text("did:b")>>))] }

Paths ==
  { <<>>,
    <<Seg(VC, <<0>>), Seg("issuer", <<>>)>>,
    <<Seg(VC, <<1>>), Seg("issuer", <<>>)>>,
    <<Seg(VC, <<0, 0>>), Seg("issuer", <<>>)>>,
    <<Seg(VC, <<>>), Seg("issuer", <<1>>)>>,
    <<Seg(VC, <<>>), Seg("", <<0>>), Seg("issuer", <<>>)>>,
    <<Seg("iss", <<>>)>>,
    <<Seg("", <<>>), Seg("iss", <<>>)>>,
    <<Seg("iss", <<>>), [name |-> "issuer", indices |-> <<>>, wellFormed |-> FALSE]>> }
Forwards == {<<>>, <<"sub">>, <<"iss", "sub">>, <<"sub", VC>>}

Ordinary ==
  [consent_api_url |-> "http:manager", owner_resolver_url |-> "http:resolver",
   prefix |-> <<>>, numbers |-> [f \in DOMAIN Bounds |-> 0],
   texts |-> [f \in DOMAIN DefaultTexts |-> ""], claim |-> <<>>, forward |-> <<>>,
   secrets |-> [s \in FromEnv |-> ""], participant_token |-> "",
   audit_enabled |-> FALSE, fail_open |-> "unset"]

OddNumbers ==
  UNION {{[Ordinary EXCEPT !.numbers[f] = n] :
            n \in {-1, Bounds[f].min - 1, Bounds[f].min, Bounds[f].max, Bounds[f].max + 1}} :
         f \in DOMAIN Bounds}
OddURLs ==
  {[Ordinary EXCEPT !.consent_api_url = u] : u \in {"", "ftp:manager"}}
  \cup {[Ordinary EXCEPT !.owner_resolver_url = u] : u \in {"", "ftp:resolver"}}
OddPrefixes ==
  {[Ordinary EXCEPT !.prefix = p] :
     p \in {<<"/">>, <<"/", "/">>, <<"/", "v2">>, <<"/", "v2", "/", "/">>, <<"v2">>, <<"v2", "/">>}}
OddSecrets ==
  {[Ordinary EXCEPT !.secrets["token_service_url"] = u, !.participant_token = t,
                    !.audit_enabled = a, !.secrets["audit_otlp_endpoint"] = e] :
     u \in {"", "http:tokens", "ftp:tokens"}, t \in {"", "token"}, a \in BOOLEAN, e \in {"", "collector"}}
OddFlags ==
  {[Ordinary EXCEPT !.fail_open = f, !.secrets["consent_key"] = "key"] : f \in {"true", "false"}}

Environments ==
  {[consent_key |-> k, token_service_url |-> u, audit_otlp_endpoint |-> e] :
     k \in {"", "env key"}, u \in {"", "http:env", "ftp:env"}, e \in {"", "env collector"}}
OrdinaryEnv == [consent_key |-> "", token_service_url |-> "http:env", audit_otlp_endpoint |-> ""]

ReadableIn(header) == {[header |-> header, kind |-> "readable", claims |-> c] : c \in Tokens}
ARequest == CHOOSE r \in ReadableIn("Authorization") : TRUE

ConfigCases ==
  {[route |-> [pre |-> raw, post |-> raw], env |-> e, request |-> ARequest] :
     raw \in OddNumbers \cup OddURLs \cup OddPrefixes \cup OddSecrets \cup OddFlags,
     e \in Environments}

With(path, forward, header) ==
  [Ordinary EXCEPT !.claim = path, !.forward = forward, !.texts["jwt_header_name"] = header]

(* The phases alike, or differing in any of path, claims and header.        *)
ClaimCases ==
  {[route |-> [pre |-> With(p[1], f[1], h[1]), post |-> With(p[2], f[2], h[2])],
    env |-> OrdinaryEnv, request |-> r] :
     p \in Paths \X Paths, f \in {<<a, a>> : a \in Forwards} \cup {<< <<"sub">>, <<>> >>},
     h \in {<<"", "">>, <<"X-Token", "">>},
     r \in ReadableIn("Authorization")
             \cup {[header |-> "Authorization", kind |-> "unreadable", claims |-> NoClaims]}}

MCCases == ConfigCases \cup ClaimCases
MCHttpURLs == {"http:manager", "http:resolver", "http:tokens", "http:env"}
=============================================================================
