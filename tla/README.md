# Consent plugin: TLA+ specifications and proofs

The consent plugin is an APISIX external plugin that decides, for every gated
response, whether the data it carries may be released to the party that asked.
This directory specifies it in TLA+, checks the specifications with TLC on small
instances and proves the most important properties of nine modules with TLAPS for
every value of their constants. `PROJECT.json` maps each definition to the lines
it models and lists the runs, the mutants that each property rejects, the
theorems, the hazards and the findings. Paths below are relative to `src/`.

## 1. The system

### Components

| Component | Source | State | Operations | What makes it correct |
|---|---|---|---|---|
| Process entry | `main.go` | – | run the runner, then flush the audit queues and exit | nothing queued before the runner returned is lost by exiting |
| Two-phase filter | `internal/plugin/consent.go` | none of its own; one phase per goroutine | `RequestFilter`, `ResponseFilter`, `evaluate`, `evaluateWithResolver`, `RecordDecision`, `recordAudit`, `denyResponse` | a response is released only for a reason the policy names; every decision is counted and recorded before it is enforced |
| Per-owner fan-out | `consent.go`, `checkOwners` | results per claim, a semaphore, a child context | take a slot or give up, ask, write, cancel the siblings, reduce | *deny_all*: every owner must agree; a refusal is final; the verdict does not depend on scheduling |
| Fail policy | `consent.go` | – | `failOutcome`, `failModeForError` | misconfigurations are never failed open |
| Claim scoping, consent match | `consent.go`, `internal/consent/client.go` | – | `distinctClaims`, `checkPurposeScoping`, `hasGrantedConsent` | a consent given to another party, or for another purpose or resource, never counts |
| Request-context store | `internal/plugin/context.go` | map under a mutex, eviction counter, janitor goroutine | store, load-and-delete, overflow, sweep | bounded; no stale context decides; an entry is counted once |
| Audit emitter | `internal/audit/audit.go` | registry of emitters; per emitter a bounded channel, a batch, a worker | `Get`, `Emit`, `run`, `export`, `Shutdown`, `ShutdownAll`, `Dropped` | never blocks a request; loses nothing unaccounted; the exit flushes |
| Participant credentials | `internal/consent/client.go` | per credential identity a token, its expiry and a provider self-description, under the entry's lock | `credentials`, `fetchToken`, `fetchProviderSD`, the 401 retry | refreshes are not repeated without reason; a stale cached token alone denies nobody |
| Consent check, identifier cache | `client.go` | positive-only map with a TTL | `check`, `resolveUserIdentifier`, `hasGrantedConsent` | decisions are never cached; "unknown" is never remembered |
| Participant registry cache | `client.go` | map with a long positive and a short negative TTL | `ParticipantSelfDescriptionByDID`, `lookupParticipantSD` | a participant registered late is found; no failure is remembered; each credential identity is told its own registry's answers |
| Owner resolver client | `internal/ownerresolver/client.go` | none | `Resolve` | claims are passed on as they were answered |
| Configuration | `internal/plugin/config.go` | – | `ParseConfig`: `applyDefaults`, `applyEnv`, `Validate`; `clientConfigFromCfg` | every bound used elsewhere is in range; nothing the operator set is replaced |
| Token and claim path | `internal/jwt/extractor.go`, `consent.go` | the decoded claims, in the request's context | `claimKeysToDecode`, `DecodeClaims`, `consumerFromClaims` | the consumer is the one the token names at the configured path |
| Metrics | `internal/metrics/metrics.go` | counters and histograms under one mutex | `RecordDecision`, `RecordDependencyCall`, the scrape | the series agree with each other in every scrape |
| Logging | `internal/logging/logging.go` | per key the last line and a count, under a mutex, for a bounded number of keys | `DebugfEvery`, `WarnfEvery`, `ErrorfEvery` | a lasting failure costs one line per interval, and no occurrence is lost |

### How they interact

APISIX calls the plugin twice per request, in two separate RPCs on the runner's
socket. `RequestFilter` decodes the token and leaves a context in the store under
the `$request_id`; the upstream answers; `ResponseFilter` consumes the context,
reads the body, identifies consumer and provider through the consent client (and
so through the credential and registry caches), asks the OwnerResolver who owns
the payload, scopes the claims, and runs one goroutine per distinct claim through
the two-call consent check (the credential and identifier caches again). The
outcome is counted, queued on the route's audit emitter, and enforced by leaving
the response alone or replacing it. The response phase of a request may never
come; both phases of many requests run concurrently.

### What is hard about it

* **Fan-out with short-circuit.** Goroutines wait for slots with a `select` that
  may take either branch; a problem cancels siblings in flight; the phase's
  deadline cancels everything; then causes of errors are told apart after the fact.
* **Fail-open against misconfiguration.** Each of five dependency calls may fail
  for reasons that may or may not be ridden out.
* **Leaks and clocks.** Contexts whose response never comes; a sweep whose clock
  was read before the mutex; overflow.
* **Exit.** Requests go on recording while emitters drain and the process ends.
* **Caches.** Tokens that expire, or are revoked, between look-up and use; many
  callers refreshing together; identifiers that outlive a registration; registry
  answers that arrive out of order, with two lifetimes.
* **Two configurations.** The phases of a route are configured apart; what one
  keeps of the token the other reads.
* **Shared bookkeeping.** Counters and the log's limiter are updated by all phases
  at once, and an operator has nothing else to go by.

All of these are listed with their lines under `hazards` in `PROJECT.json`.

## 2. The modules

Names follow the source. A step is one action as long as no other goroutine can
see its middle: what is done under one mutex is one step, a network call is a step
of its own with the world free to move before and after it.

* **FailPolicy** – the two fail modes, `failModeForError` and `failOutcome`'s
  decision. Extended by everything that can fail to decide.
* **OwnerVerdicts** – the set `OwnerOutcomes(claims, granted, failOpen, late)` of
  outcomes the fan-out may return: refusals, fail-policy outcomes, releases.
* **OwnerGate** – the abstract specification of `checkOwners`: pending, then one
  step to a member of `OwnerOutcomes`.
* **OwnerChecks** – the fan-out itself (`checkOwners`, `reduceOwnerResults`). One
  action per step of a goroutine: `Acquire`/`Skip` are the two branches of the
  `select`; `Reply`, `Fail`, `Abort` are the ways the call returns; `Finish` is
  the cancellation and the deferred release; `PhaseExpires` the deadline;
  `Conclude` is `wg.Wait` followed by the reduction. `ImplementsGate` is OwnerGate
  under a refinement mapping (`INSTANCE OwnerGate WITH ...`) that hides the goroutines.
* **ConsentMatch** – `distinctClaims` (a recursive function over the iterations of its
  loop, whose body is `Keep`), the scoping checks and `hasGrantedConsent`, as operators
  over claims and records.
* **ResponsePhase** – one request through both phases. Each early return of
  `evaluate` and `evaluateWithResolver` is a disjunct; `checkOwners` is one step
  into `OwnerOutcomes`, which OwnerChecks is proved to implement; the context may
  disappear at any moment before it is consumed, as RequestContextStore allows.
  `context` distinguishes a token that yielded claims from one that did not.
* **RequestContextStore** – the store and its janitor. Every method is one action,
  because it holds the mutex throughout, except the janitor, whose `time.Now()`
  (`JanitorTick`) precedes its turn at the mutex (`JanitorSweep`). A request may
  run its request phase twice under one id.
* **AuditEmitter** – the registry, and per emitter queue, worker and shutdown;
  requests that fetch their emitter and then emit their records one after the
  other; the main goroutine from the runner's return to the exit. An emitter
  created after the registry was emptied is modelled as the second of its key.
* **CredentialCache** – callers that take the entry's lock, mint a token, read the
  provider self-description and use the token, with the single forced retry on 401;
  tokens expire and are revoked. Minting and receiving are two steps: the
  token's life starts at the service, its caching when the answer arrives. Each
  caller is of a route with its own `token_ttl` (`TokenTTLs`); the routes share the entry.
* **IdentifierCache** – concurrent checks of one subject that registers, consents,
  withdraws, leaves and registers again under a new identifier.
* **RegistryOracle** – the abstract specification of a look-up of a participant: the
  registries' self-descriptions change, and an asker is told one that its own registry
  gives, or gave at most a window ago (`Windows`: one length per kind of answer).
* **ParticipantRegistry** – `ParticipantSelfDescriptionByDID` and
  `lookupParticipantSD` with their cache, by any number of callers under several
  credential identities: `Look` reads the cache, `lookupParticipantSD` sends the
  call, `Answer` is the registry, `Store` writes whatever comes, in whatever order;
  `Unauthorized` is the 401 with its one retry, `Fails` every other error.
  `ImplementsOracle` maps its results to what RegistryOracle's askers are told, the
  cache and the calls hidden.
* **RouteConfig** – `ParseConfig` as defaults, then environment, then validation, and what
  `clientConfigFromCfg` and the clients' own constructors make of the result.
* **ClaimPath** – JSON values, `claimKeysToDecode`, `DecodeClaims` and the walk of
  `consumerFromClaims`: `Walk` is a recursive function over the segments of a path,
  `ElementAt` one over the indices of a segment.
* **ConsumerIdentity** – composes the two: both phases of a route parse their configuration, the
  request phase decodes under one, the response phase reads the consumer under
  the other. It also holds the reference definition of a path: the addresses it
  stands for among all positions of the claims.
* **Observability** – response phases counting, timing and logging. `Resolve` and
  `CheckConsent` call `RecordDependencyCall`. The checks of a response are as many as it has
  claims: each counts its own call, the ones a sibling cancelled as errors too
  (`CheckConsent`), or leaves unasked (`SkipCheck`), and `reduceOwnerResults` turns them all into
  one line or, beside a refusal, none. What OwnerChecks says of the goroutines is cut down to
  that: which checks are over, and whether one of them refused or failed. `LogFailure` calls
  `LogEvery` (the three `...fEvery` functions), whose three cases are `Admit`, `Suppress` and
  `AdmitNew`; `RecordDecision` ends the phase.
* **OwnerChecksProofs**, **ResponsePhaseProofs**, **AuditEmitterProofs**,
  **CredentialCacheProofs**, **IdentifierCacheProofs**, **ParticipantRegistryProofs**,
  **ObservabilityProofs** – the theorems, one module for each component.
* **RequestContextProofs** – the theorems about both sides of the request context: how long
  the store keeps it (RequestContextStore) and whom it names (ConsumerIdentity).
* **MC\*** – the modules TLC is run on; they only add values for constants.

Operators introduced by a comment that starts with "Variant:" are plausible bugs. They are
not used by any specification: each stands just before the definition it would
replace, and the property paired with it under `mutants` fails once it does.

## 3. The runs

| Run | Shows |
|---|---|
| `owner_checks` | `AllowIsUnanimous`: within the deadline a release means everybody was asked and agreed. `RefusalIsFinal`: a returned refusal decides, fail-open or not. `FailClosedHolds`: without fail_open no consulted owner's failure passes. `OutcomeIsExplained`: the owner blamed is one that refused or failed itself. `Termination`: slots come back. `ImplementsGate`: the refinement. |
| `response_phase` | `ReleaseIsJustified`: a response gets out by the policy for an outage, because no consent is required, or because every claim names an owner and was checked, itself or by a claim of the same owner and resource (with a purpose where one is required); only the deadline excuses a check that was not made. `ReleaseRestsOnAgreements`: a plain release rests on records for this very consumer, purpose and resource. `NoClaimDropped`: scoping neither loses nor repeats an (owner, resource). `AuditNeverContradicts`: nothing is enforced before it is counted and has left a record, nothing is released beside a record of a refusal, and a refusal that is enforced is in the log. That the only records beside a *failure's* denial may say allow is the third point of section 7. |
| `context_store` | `SizeBounded`, `EveryEntryAccounted`, `ResponseMatchesAge` (a response finds its context exactly if it is in time, overflow apart), `OverflowTakesOldest`, `LeakIsReclaimed` (the janitor alone clears what nobody consumes). |
| `audit_emitter` | `EveryRecordAccounted`: each record is in exactly one place. `FlushedAtExit`: what was emitted before the runner returned is not in a queue at the exit. `ShutdownCompletes`: the exit comes, whatever the finitely many requests still in flight record meanwhile and whichever branch a `select` takes. `WaitingIsTemporary`: a batch need not fill. |
| `credential_cache` | `RejectedOnlyAfterRefresh`: a denial for the token means that two tokens were refused. `LoginsAreEarned`: each login has its own reason. `HandedOutAlive`: the skew, where it is taken off, covers the two calls made under the lock, and so does a lifetime that much longer than a `token_ttl` too short for it. `EveryCallerAnswered`: no error path keeps the lock. |
| `identifier_cache` | `AllowIsCurrent`: an allow saw a consent granted during that very check. `StaleIdentifierRunsOut`: a subject that consents is denied only on an identifier it abandoned, for at most the TTL and the calls on either side; having been unknown is not held against it. |
| `participant_registry` | `CacheRestsOnAnswers`: an entry is an answer of its key's own registry, given no longer before it was stored than a call takes. `ImplementsOracle`: the refinement, and with it the bound on how long a late "no such participant" can deny. |
| `consumer_identity` | `LoadedRouteIsSound`: what the other modules assume of a route. `NothingSetIsReplaced`: no value set is lost to a default, here or in the clients. `ConsumerIsTheTokens`: decoding less never changes who the consumer is. `ReadsWhatThePathNames`: the walk against the reference definition. |
| `observability` | `NothingSuppressedSilently`: occurrences = lines + reported + still pending, and the resolver's errors are the occurrences of its key and those on their way to the log. `OneLinePerInterval`. `EveryErrorIsTold`: the consent-manager's errors against what is told of them. They are not one to one: a response with several failed or cancelled checks has one occurrence in the log, and none if an owner refused. What holds is that failed checks in the log never outnumber the errors, and that the errors are no more than the owners of the responses that have told of a problem, or have met one and are about to. `CountersAgree`: outcomes, histograms and decisions in one scrape. |

The other three runs each check one statement of a comment or of the project's
README and find it violated; see section 7.

### Bounds, and why they are enough

* `owner_checks`: N = 3, Slots = 2 – one goroutine waits while two run, so one
  problem can cancel both a call and a wait while a third result is already written.
  The proofs lift the bound.
* `response_phase`: two owners, one resource, two purposes, replies of up to three
  claims (repeated, unnamed, purposeless), every subset of four records, MaxOwners 2:
  three distinct claims exceed it. One request suffices: phases share only the store and caches,
  whose effects are the nondeterministic choices of the phase. The proofs lift the bound,
  the length of a reply included.
* `context_store`: four requests, cap 3, batch 2, TTL 1, clock to 3: an overflow
  evicts a proper subset of a full store, contexts of two ages meet, and every
  context that is stored can still outlive its TTL. The bound on arrivals,
  `now + TTL < MaxTime`, is there for the last point only. The clock's stop is the
  self-loop `Horizon`. No symmetry is used, because the run checks liveness.
* `audit_emitter`: two keys, two requests of two records, queue 2, batch 2: a queue
  fills while a batch is being exported, partial batches occur, and a second
  emitter of a key is created after the shutdown began. The ticker is enabled
  whenever there is something to export, which covers any flush interval. The proofs lift the bound.
* `credential_cache`: two callers, lifetimes "none stated" and 3, token TTLs 2 and 4 (one
  the skew cannot be taken off), skew 2, call timeout 1, two tokens, clock to 4: expiry, the
  refreshed token being refused too and a concurrent holder all occur. The proofs lift the
  bound. The code's values have the
  same order: the skew is 60 s, a call 5 s by default and 60 s at most. The
  assumption `2 * CallTimeout <= Skew` is stated in the module, and `HandedOutAlive`
  depends on it: with consent_api_timeout above 30 s the property is not claimed.
* `identifier_cache`: three checks, two registrations, TTL 1, clock to 3 – one check
  fills the cache, one uses it after the re-registration, one overlaps either.
* `participant_registry`: three callers, two credential identities (one with a static
  token), one DID and one self-description, TTL 2, NegativeTTL 1, calls of at most 1, clock to
  3: a late negative answer overwrites a newer entry and the third caller reads it,
  entries of either kind run out, and the participant registers, leaves and registers
  again (`MaxPast` = 2 answers that no longer hold). The proofs lift the bound. Callers are symmetric.
* `consumer_identity`: two families of cases. One odd field at a time (below, at and above
  each bound; every form of prefix; every combination of URLs and secrets) under every
  environment; and every pair of nine claim paths with different claims to forward and
  header names, over six shapes of token. The model has no loops, so the cases are the bound.
  The proofs lift it: they hold for any set of cases.
* `observability`: three phases of up to two checks, Interval 2, KeyCap 2 of five keys, one bucket and
  what is beyond it, clock to 2. Three occurrences are what one key needs to be logged, suppressed and
  reported, and three keys what it takes to exceed the cap; with two checks one fails while the
  other is cancelled, or refuses. Phases are symmetric. The proofs lift the bounds, that on buckets
  and that on owners included.

`MaxTokens`, `MaxRegistrations`, `MaxPast` and `MaxTime` are bounds of the models, not of the
code, and appear only in guards of the actions that mint, register, change the registry and tick (and in
the arrival guard above).

### Fairness

* OwnerChecks: the Go scheduler runs what can run, and a call returns because the
  HTTP client has a timeout (weak fairness on "take a slot or give up", on "the
  call returns somehow", on the deferred code and on the reduction). Nothing obliges a
  call to fail or the deadline to pass.
* RequestContextStore: time passes, and the janitor, once started, ticks and gets
  the mutex. No request owes a response phase.
* AuditEmitter: a worker that can take some step does (one condition over its
  whole loop, so no particular choice of a `select` is promised; the drain ends
  because the requests are finitely many, as those in flight at a shutdown are), the main goroutine runs, an export ends
  by its timeout. Requests and the signal are unfair.
* CredentialCache: each caller that can step does; a mutex is not promised to be
  fair, but each caller has boundedly many turns, so everybody gets one.

## 4. What is proved

Everything below is checked by TLAPS for all values of the constants.

**OwnerChecks** (`OwnerChecksAssumption`: N and Slots are positive integers).
`IInv` is inductive: `TypeOK`; *StopHasACause* (checks stopped by a sibling point
to a finished goroutine with a refusal or an outage of its own; checks stopped by
the deadline mean that the phase has expired); *ResultsAreHonest* (a written answer agrees
with the consent, a context error with the context, and only stopped checks skip);
*OutcomeIsReduction* (the outcome is the reduction of results that nobody writes any
more). It is needed because the properties speak of outcomes while the
code's argument is about causes: an owner left out is excused only if some other
owner's problem, or the deadline, stopped the checks, and then that problem is among
the results the reduction sees. `Unanimity`, `RefusalFinality`, `FailClosed`,
`ExplainedOutcome` follow from `IInv`, each within one state. `GateRefinement`
shows that every step is a step of OwnerGate or a stutter, with `ReductionIsAllowed`
(the reduction of an `IInv` state is in `OwnerOutcomes`) as its core.

**RequestContextStore** (`RequestContextStoreAssumption`: finitely many keys, a
positive cap, a batch between 1 and the cap). `IInv` is `TypeOK`, `SizeBounded`,
`EveryEntryAccounted` and *LossIsExcused* (a request at the upstream that has no
context any more is past its TTL, or an overflow has happened); the last is what
`ResponsesMatchAge` needs, since the janitor compares with an older clock than the
response does. The lemmas on cardinalities rest on the library's finite-set theorems.

**ParticipantRegistry** (`ParticipantRegistryAssumption`: positive lifetimes, a
self-description is not `Unknown`, static authorities are authorities). `IInv` is the
types, *CallsInTime* (a call under way is younger than its timeout, and what it
brought held when it was sent or later), *ResultsAreFinal* and
`CacheRestsOnAnswers`. It ties each answer to the moment of its call, which is what a store in the
wrong order needs: an overwritten entry is older, but never older than one call.
`OracleRefinement` shows that every step is a step of RegistryOracle or a stutter;
the step that gives a result uses that the answer's window is its lifetime plus one call.

**IdentifierCache** (`IdentifierCacheAssumption`: natural numbers). `IInv` adds to the types
*ChecksKeepUp* (a check has seen what the subject is now, and its call is in
time), *AnswersAreExcused* and *ListingIsExcused* (an identifier that is out of date
was current when its call was sent, or was read from an entry about to run out), and
*EntriesRunOut* (an entry of an earlier registration was stored within one call of
the new one). `StalenessIsBounded` adds up these three spans. `TypeCorrect` is only proved.

**Observability** (`ObservabilityAssumption`: finitely many requests; a positive interval, cap,
number of buckets and limit on owners). The invariant counts the phases at each stage:
*FailuresTally* and *DecisionsTally* balance counters, occurrences and decisions against the phases
in between, with *Ordinary* (phases that will end in an ordinary verdict) as the strengthening that
makes the bound by the resolver's successes inductive; *LimiterKnows* says
that the limiter remembers exactly the last line of each key it knows. `TallyMoves`
is the core: a step moves one request from one tally to another. `ErrorsAreTold` needs more, because
one response may count several errors. *ChecksTally* gives each response `Owners`
errors to spend and takes off the checks still open in a response that has met a problem (`Open`),
so a check that ends there moves from what may still come to what may have been counted; below, a response whose checks met a failure has one
error of its own. `PhaseMoves` is the step lemma for it. `TypeCorrect` is only proved.

**ResponsePhase** (`ResponsePhaseAssumption`: a positive limit on owners; replies, and the
recipients of a record, are sequences of any length). `IInv` is the types, *PhaseKnows*
(what each step may rely on: a context, the parties identified, the question asked),
*ClaimsAreScoped* (each claim the resolver sent is stood for by one that reaches the owner checks),
*OutcomeIsEarned* (an outcome that allows was reached on one of the three ways and, in time, after
all checks came back; one that refuses names an owner who was asked and had not granted) and *RecordedThenDone*. The properties speak of the response
at the end, each early return of the phase decides it earlier: the invariant carries the
reason from the return to the enforcement. The step of the owner checks uses
only OwnerVerdicts, which `GateRefinement` justifies. `NoClaimIsDropped` needs
`distinctClaims` for every sequence of claims: `LoopRuns` shows that its recursive function
exists, since the least length without one would follow a length with one, and
`distinctClaimsKeeps` that the loop keeps one claim of each (owner, resource).

**AuditEmitter** (`AuditEmitterAssumption`: positive sizes). `IInv` is the types,
*HoldsItsOwn* (queue and batch of an emitter are disjoint, free of repetitions, and hold
records of requests that fetched that emitter), *OneFate* (`EveryRecordAccounted` by sets),
*RegistryKnows* (until the runner returns every emitter in use is in the registry; afterwards
new ones are the second of their configuration), *EmittedOnEmitters* and *EarlyIsFlushed* (a
worker that is past its drain leaves no early record in its queue, and main waits for every
emitter that has one). `ExitFlushes` needs the registry: it is what makes `ShutdownAll` reach every
emitter that an early record was put on.

**CredentialCache** (`CredentialCacheAssumption`: finitely many callers, positive token
TTLs, a skew of at least two calls). `IInv` is the types, with the lock's owner;
*StaticIsStatic*; *EntryIsReceived* and *HasToken* (the cached token was received, and is replaced
only when gone or run out); *RetryIsFresh* (a retry has met one refusal and will present a token
it was not refused: between dropping the cached one and using the next the caller never
lets go of the lock); *CachedInTime* and *CallsInTime*, the arithmetic of `HandedOutAlive`; and
*DropsAreRetries* (there are no more tokens dropped while still good than retries that may
have dropped them), which is what bounds the logins: a token missing from the cache is accounted for
by a refusal, a loss or its end, each counted once. `TypeCorrect` is only proved.

RequestContextStore's `OldestGiveWay` is about a step: from `SizeBounded`, a store that has to
make room is full, and nothing else takes a live context from its request
(the sweep's clock is never ahead of the present).

**ConsumerIdentity** (`ConsumerIdentityAssumption`: each case is a pair of configurations of the
fields' types and an environment of strings; the claims of a token are any value at all,
and what request comes with which route is not constrained). *RouteInv* is short: each
phase is not loaded yet or has what `ParseConfig` makes of its own configuration, a phase that has
run had one that was accepted, and what it left is what the definitions say it leaves. The
weight is in the operators, and these are the steps from one to the next:

* `ParsedIsSound` and `ParsedReplacesNothing` are about `ParseConfig` for any raw
  configuration and environment: `LoadedRoutesAreSound` and `NothingSetIsEverReplaced`
  restate them for what is loaded. The second needs that trimming a prefix only takes slashes
  off its end (`TrimRightTrims`).
* The loops (`ElementAt`, `Walk`, and the definition's `Addresses` and `Positions`) are recursive
  functions. `Turn` names what one turn of each does; `LoopRuns` shows that such a function exists for any
  number of turns, `LoopsAgree` that it is unique, and `LoopTurns` gives the equation that all later
  proofs use. The library's induction takes a predicate as a parameter; `Inductively`
  states induction for a set in its place, from the lowest number that is not in it.
* `NoOtherConsumer` and `ConsumerIsKept` compare a walk of the claims kept with a walk of all claims. Their
  induction needs `SameEnd`: both walks are at the same node, or the first has nothing left, or
  both are still at the claims themselves. A path whose first segment has no name stays there,
  which is why `ConsumerIsTheTokens` asks for a first name. `ConsumersAreTheTokens` follows.
* `SegmentLeads` and `PathLeads` show that the addresses a path stands for hold, together, just the
  node at the end of the walk, for every path and every nesting of objects and arrays: a name leads below an object or,
  through one index left out, below the first element of an array, and never both.
  `MalformedLeadsNowhere` is the other half. `ConsumersAreWhatThePathNames` follows.

`PathSegment` names the two segments of the default path beside the strings, because that
a literal is a string is not among the facts the provers have.

**Model-checked only**: liveness (`Termination`, `LeakIsReclaimed`, `ShutdownCompletes`,
`WaitingIsTemporary`, `EveryCallerAnswered`), which is beyond the prover under fairness.
Every invariant, action property and refinement of the passing runs is proved.

## 5. What is not modelled

* The encodings: OTLP, JSON, HTTP, the metrics' text format, the parsing of a path's segments and the
  sanitising and redaction of what is logged. No property is about them; a value that
  cannot be parsed is one case of the models.
* A route configuration of the wrong type (`consent.go:238-242`, and the same in `RequestFilter`):
  the phase is skipped and the response passes, uncounted and unrecorded. The runner only hands on
  what `ParseConf` returned, so it cannot be reached.
* The permanent errors of an owner's own check (`failModeForError` at `consent.go:590`): a consent check
  looks no participant up, and without credentials the phase has failed at the provider
  before it comes to the checks, as `Validate` would have refused the route (`config.go:498`).
  OwnerVerdicts has the policy's outcome only; ResponsePhase and Observability keep the branch where it is harmless to.
* Header stripping and the framing of a denial: a denial is one step that replaces the response.
* The counter of unscoped checks, and the numbers the store and the emitters publish
  through callbacks. A scrape reads the store's size and its evictions under two
  separate locks (`metrics.go:242`): composing the scraper with the requests of
  RequestContextStore makes more states than a run can visit, so
  `EveryEntryAccounted`, about each single state, is what is claimed.
* A provider self-description that changes: it is cached without an expiry
  (`client.go:369`), so nothing bounds how long an old one is used, and CredentialCache
  records only whether there is one.
* The growth of the identifier and participant caches (`client.go:742`): nothing is ever evicted, so
  there is no bound to state.
* How far the response phase may overrun its deadline: reading the body and
  waiting for the credential lock do not observe the context (`consent.go:285-289`).
* APISIX and the runner, the consent-manager, the registries, the resolver, the token service and the
  Collector are external; what the plugin relies on of them is the environment's
  actions in each module. The consent records are assumed not to change while one response is checked
  (OwnerChecks, ResponsePhase); IdentifierCache lets them change between any two calls.

## 6. Plan

1. **Composition of the caches**: CredentialCache, IdentifierCache and ParticipantRegistry under one
   consent client, so that one 401 is seen by all three, with a provider
   self-description that changes while it is cached.
2. **The scraper** beside an abstraction of the context store small enough to compose.
3. **Proofs**: what a composition of the caches promises.

## 7. Disagreements between the code and what is said of it

Each of the first three has a run that ends in a counterexample.

1. `EveryOwnerGranted` – after the deadline, claims still waiting for a slot are
   skipped and not counted as failures: if all the others had agreed, the response
   is released, with fail_open off.
2. `EveryClaimSatisfied` – claims are collapsed by (owner, resource), so a second
   purpose for the same pair is never checked.
3. `EnforcedDecisionIsRecorded` – if one owner agreed and another's check failed,
   the denial leaves no record and the only record says allow.

Noticed while modelling, without a run of their own:

* With fail_open, an outage cancels a sibling that would have refused, and the
  response is released (`consent.go:515`); OwnerGate allows exactly that.
* A claim without a purpose can hide behind one that has one for the same owner and resource, with require_purpose
  on, since claims are collapsed before their purposes are looked at (`consent.go:366-372`); `config.go:218-219`
  says that such a claim is a denial. `ReleaseIsJustified` is stated over the claims as the resolver
  sent them, and so says what does hold: a claim of the same owner and resource names a purpose and was checked.
* Callers refused the same token each drop whatever token is cached and log in
  again, also one that another caller has just fetched (`client.go:263-273`).
* Lines suppressed for a key are reported with its next line only: if the failure
  stops, the count is never reported (`logging.go:147`).
* For a consumer path that begins with ".", the claim to decode is the empty name and not
  the path's first (`consent.go:136-152`): with other claims to forward, the consumer is not found.
  `ConsumerIsTheTokens` excludes such paths.
* `contextsEvicted` also counts contexts that the response phase itself finds
  past their TTL, and live ones evicted for space whose response comes later;
  `context.go:238-240` speaks of requests that never reached their response phase.
* `Dropped` sums over the registry, which `ShutdownAll` empties: the counter of
  `metrics.go:295-298`, said only to increase, falls during the shutdown. Records emitted to
  a stopped emitter, or to one created after the shutdown, are lost uncounted.
* A token whose lifetime is no longer than the skew is cached for its whole lifetime
  (`client.go:588-597`), counted from the answer's arrival, so it may be handed out
  after it has expired, which `client.go:76-77` rules out. `HandedOutAlive` says for which
  lifetimes this cannot happen: those longer than the skew and, on a route whose
  `token_ttl` lies within the skew, at least as long as both together.
* The concurrent checks of one response all miss an empty identifier cache, so an
  owner may be searched once per resource (compare `client.go:683-685`).
* The credential cache's key leaves out the token TTL (`client.go:224-235`); the
  provider self-description is never refreshed, and looking it up alone
  (`ProviderSelfDescription`) has no retry on 401; neither the identifier nor the participant cache evicts.
* An API prefix of "/" is exempt from the trimming that is there to avoid double
  slashes (`config.go:354-358`), and yields them.

## Running

    tlc -workers 2 -config MCOwnerChecks.cfg MCOwnerChecks
    tlapm OwnerChecksProofs.tla

and likewise for the other `MC*` modules, their configurations and `*Proofs` modules.
