--------------------------- MODULE Observability ---------------------------
(***************************************************************************)
(* What an operator is told of the response phases (src/internal/metrics,  *)
(* src/internal/logging): each phase counts and times its calls, logs its  *)
(* failures at a limited rate, and counts its decision, and the phases of  *)
(* many requests do so at once.  The counters are under one mutex and the  *)
(* limiter under another, never held together, and a scrape copies all the *)
(* counters under theirs: what it shows is a state of this module.         *)
(*                                                                         *)
(* The consent checks of a response each count their own call, the ones a  *)
(* sibling cancelled too, and are then reduced to at most one line: what   *)
(* is kept of a check here is that it is over, and whether it was a refusal *)
(* or a failure (OwnerChecks has the goroutines).  A key stands            *)
(* for those of the steps that end alike: "no-request-context" for the two *)
(* of evaluate, "lookup" for the five before the resolver, "claims" for    *)
(* the two between it and the consent checks.  A line counts as written    *)
(* when allow admits it; its level and text are left out, and so are the   *)
(* unscoped checks' counter and the numbers other packages publish.        *)
(***************************************************************************)
EXTENDS Naturals, FiniteSets, FailPolicy

CONSTANTS
  Requests,
  Owners,       (* max_owners_per_response                                  *)
  Interval,     (* suppressionInterval                                      *)
  KeyCap,       (* suppressionKeyCap                                        *)
  Buckets,      (* how many bounds latencyBuckets has                       *)
  MaxTime       (* bound: the clock stops here                              *)

ASSUME ObservabilityAssumption ==
  /\ IsFiniteSet(Requests)
  /\ {Owners, Interval, KeyCap, Buckets} \subseteq Nat \ {0}
  /\ MaxTime \in Nat

VARIABLES
  now,
  stage,        (* per request: where its response phase is                 *)
  suppression,  (* suppressionByKey                                         *)
  lines,        (* history, per key: lines written, when the last one was,  *)
                (* the occurrences they reported suppressed                 *)
  met,          (* history, per key: occurrences                            *)
  calls,        (* dependencyCalls                                          *)
  latency,      (* per dependency: [counts, total]                          *)
  decisions     (* decisions, by decision and fail mode                     *)

limiter == <<suppression, lines, met>>
counters == <<calls, latency, decisions>>
vars == <<now, stage, limiter, counters>>

Dependencies == {"owner_resolver", "consent_manager"}
Outcomes == {"success", "error"}
(* A decision's two labels: RecordDecision writes "none" for an ordinary    *)
(* verdict's fail mode.                                                     *)
Verdicts == Decisions \X ({"none"} \cup FailModes)
LogKeys == {"no-request-context", "lookup", "resolver-error", "claims", "consent-check"}

At(name) == [at |-> name]
Failing(key, mode) == [at |-> "failing", key |-> key, mode |-> mode]
Deciding(decision, mode) == [at |-> "deciding", verdict |-> <<decision, mode>>]

(* The consent checks that are not over yet, and the problems of the others.*)
Checking(left, problems) == [at |-> "checking", left |-> left, problems |-> problems]

Init ==
  /\ now = 0
  /\ stage = [k \in Requests |-> At("before")]
  /\ suppression = <<>>
  /\ lines = [key \in LogKeys |-> [count |-> 0, last |-> 0, reported |-> 0]]
  /\ met = [key \in LogKeys |-> 0]
  /\ calls = [d \in Dependencies |-> [o \in Outcomes |-> 0]]
  /\ latency = [d \in Dependencies |-> [counts |-> [b \in 1..Buckets |-> 0], total |-> 0]]
  /\ decisions = [v \in Verdicts |-> 0]
-----------------------------------------------------------------------------
(* Logging.                                                                 *)

Line(key, suppressed) ==
  lines' = [lines EXCEPT ![key] = [count |-> @.count + 1, last |-> now,
                                   reported |-> @.reported + suppressed]]
Track(key, state) ==
  suppression' = [x \in DOMAIN suppression \cup {key} |->
                    IF x = key THEN state ELSE suppression[x]]

Tracked(key) == key \in DOMAIN suppression
Quiet(key) == Tracked(key) /\ now < suppression[key].lastLogged + Interval

(* Variant: the count is reset when the interval restarts, unreported.      *)
AdmitUnreported(key) ==
  /\ Tracked(key) /\ ~Quiet(key)
  /\ Track(key, [lastLogged |-> now, suppressed |-> 0])
  /\ Line(key, 0)

(* The interval since the last line is over: the line says how many         *)
(* occurrences it stands for.                                               *)
Admit(key) ==
  /\ Tracked(key) /\ ~Quiet(key)
  /\ Track(key, [lastLogged |-> now, suppressed |-> 0])
  /\ Line(key, suppression[key].suppressed)

(* Variant: an occurrence that is suppressed restarts the interval, so a    *)
(* failure that never stops is logged once.                                 *)
SuppressRestarting(key) ==
  /\ Quiet(key)
  /\ Track(key, [lastLogged |-> now, suppressed |-> suppression[key].suppressed + 1])
  /\ UNCHANGED lines

Suppress(key) ==
  /\ Quiet(key)
  /\ Track(key, [suppression[key] EXCEPT !.suppressed = @ + 1])
  /\ UNCHANGED lines

(* A key's first occurrence; past the cap on keys nothing is remembered.    *)
AdmitNew(key) ==
  /\ ~Tracked(key)
  /\ Line(key, 0)
  /\ \/ /\ Cardinality(DOMAIN suppression) < KeyCap
        /\ Track(key, [lastLogged |-> now, suppressed |-> 0])
     \/ /\ Cardinality(DOMAIN suppression) >= KeyCap
        /\ UNCHANGED suppression

(* DebugfEvery, WarnfEvery and ErrorfEvery differ in the level.             *)
LogEvery(key) ==
  /\ met' = [met EXCEPT ![key] = @ + 1]
  /\ Admit(key) \/ Suppress(key) \/ AdmitNew(key)
-----------------------------------------------------------------------------
(* The response phase, as far as it counts and logs.                        *)

Goto(k, next) == stage' = [stage EXCEPT ![k] = next]

(* histogram.observe: a call in bucket b is in every wider one too, and one *)
(* beyond every bound only in the total.                                    *)
observe(h, b) ==
  [counts |-> [i \in 1..Buckets |-> IF b <= i THEN h.counts[i] + 1 ELSE h.counts[i]],
   total |-> h.total + 1]

(* Variant: only the calls that succeeded are timed.                        *)
RecordDependencyCallTimed(dependency, outcome) ==
  /\ calls' = [calls EXCEPT ![dependency][outcome] = @ + 1]
  /\ IF outcome = "success"
     THEN \E b \in 1..Buckets + 1 : latency' = [latency EXCEPT ![dependency] = observe(@, b)]
     ELSE UNCHANGED latency

RecordDependencyCall(dependency, outcome) ==
  /\ calls' = [calls EXCEPT ![dependency][outcome] = @ + 1]
  /\ \E b \in 1..Buckets + 1 : latency' = [latency EXCEPT ![dependency] = observe(@, b)]

(* The context is there or the phase has failed.                            *)
LoadContext(k) ==
  /\ stage[k].at = "before"
  /\ \E next \in {At("resolving"), Failing("no-request-context", AlwaysClosed)} : Goto(k, next)
  /\ UNCHANGED <<now, limiter, counters>>

(* The body, the consumer or the provider is not to be had: no call that is *)
(* counted has been made.                                                   *)
FailLookup(k) ==
  /\ stage[k].at = "resolving"
  /\ \E mode \in FailModes : Goto(k, Failing("lookup", mode))
  /\ UNCHANGED <<now, limiter, counters>>

(* A claim that names no owner ends the phase without a line; the others    *)
(* are checked, each in a goroutine of its own.                             *)
Resolve(k) ==
  /\ stage[k].at = "resolving"
  /\ \/ /\ RecordDependencyCall("owner_resolver", "error")
        /\ Goto(k, Failing("resolver-error", ByPolicy))
     \/ /\ RecordDependencyCall("owner_resolver", "success")
        /\ \E next \in {Deciding("allow", "none"), Deciding("deny", AlwaysClosed),
                         Failing("claims", AlwaysClosed)}
                        \cup {Checking(n, {}) : n \in 1..Owners} : Goto(k, next)
  /\ UNCHANGED <<now, limiter, decisions>>

CheckIsOver(k, found) == Goto(k, Checking(stage[k].left - 1, stage[k].problems \cup found))

(* One call: an owner's grant or refusal, a failure of its own, or one that *)
(* a sibling's problem cancelled, which counts as an error and is no        *)
(* problem itself.                                                          *)
CheckConsent(k) ==
  /\ stage[k].at = "checking" /\ stage[k].left > 0
  /\ \/ /\ RecordDependencyCall("consent_manager", "success")
        /\ \E found \in {{}, {"refusal"}} : CheckIsOver(k, found)
     \/ /\ RecordDependencyCall("consent_manager", "error")
        /\ CheckIsOver(k, {"failure"}) \/ (stage[k].problems # {} /\ CheckIsOver(k, {}))
  /\ UNCHANGED <<now, limiter, decisions>>

(* A sibling's problem, or the deadline at whatever moment, stops a check   *)
(* that has no slot yet: it makes no call.                                  *)
SkipCheck(k) ==
  /\ stage[k].at = "checking" /\ stage[k].left > 0
  /\ CheckIsOver(k, {})
  /\ UNCHANGED <<now, limiter, counters>>

(* Variant: every error is taken for a sibling's cancellation.              *)
reduceRefusalsOnly(k) ==
  /\ stage[k].at = "checking" /\ stage[k].left = 0
  /\ Goto(k, Deciding(IF "refusal" \in stage[k].problems THEN "deny" ELSE "allow", "none"))
  /\ UNCHANGED <<now, limiter, counters>>

(* All checks are over.  A refusal decides without a line, whatever failed  *)
(* beside it; else the first failure is to be logged, and it alone.         *)
reduceOwnerResults(k) ==
  /\ stage[k].at = "checking" /\ stage[k].left = 0
  /\ \E mode \in FailModes :
       Goto(k, IF "refusal" \in stage[k].problems THEN Deciding("deny", "none")
               ELSE IF "failure" \in stage[k].problems THEN Failing("consent-check", mode)
               ELSE Deciding("allow", "none"))
  /\ UNCHANGED <<now, limiter, counters>>

(* The line, then failOutcome's decision, by the route's fail_open.         *)
LogFailure(k) ==
  /\ stage[k].at = "failing"
  /\ LogEvery(stage[k].key)
  /\ \E failOpen \in BOOLEAN :
       Goto(k, Deciding(failDecision(failOpen, stage[k].mode), stage[k].mode))
  /\ UNCHANGED <<now, counters>>

RecordDecision(k) ==
  /\ stage[k].at = "deciding"
  /\ decisions' = [decisions EXCEPT ![stage[k].verdict] = @ + 1]
  /\ Goto(k, At("done"))
  /\ UNCHANGED <<now, limiter, calls, latency>>
-----------------------------------------------------------------------------
Tick == now < MaxTime /\ now' = now + 1 /\ UNCHANGED <<stage, limiter, counters>>

Terminated == (\A k \in Requests : stage[k].at = "done") /\ now = MaxTime /\ UNCHANGED vars

Next ==
  \/ \E k \in Requests : \/ LoadContext(k) \/ FailLookup(k) \/ Resolve(k)
                         \/ CheckConsent(k) \/ SkipCheck(k) \/ reduceOwnerResults(k)
                         \/ LogFailure(k) \/ RecordDecision(k)
  \/ Tick
  \/ Terminated

Spec == Init /\ [][Next]_vars
-----------------------------------------------------------------------------
Stages ==
  {At(a) : a \in {"before", "resolving", "done"}}
  \cup [at : {"checking"}, left : 0..Owners, problems : SUBSET {"refusal", "failure"}]
  \cup [at : {"failing"}, key : LogKeys, mode : FailModes]
  \cup [at : {"deciding"}, verdict : Verdicts]

TypeOK ==
  /\ now \in Nat
  /\ stage \in [Requests -> Stages]
  /\ DOMAIN suppression \subseteq LogKeys
  /\ Cardinality(DOMAIN suppression) <= KeyCap
  /\ \A key \in DOMAIN suppression :
       suppression[key] \in [lastLogged : 0..now, suppressed : Nat]
  /\ lines \in [LogKeys -> [count : Nat, last : 0..now, reported : Nat]]
  /\ met \in [LogKeys -> Nat]
  /\ calls \in [Dependencies -> [Outcomes -> Nat]]
  /\ latency \in [Dependencies -> [counts : [1..Buckets -> Nat], total : Nat]]
  /\ decisions \in [Verdicts -> Nat]

Pending(key) == IF Tracked(key) THEN suppression[key].suppressed ELSE 0
FailingAt(key) == {k \in Requests : stage[k].at = "failing" /\ stage[k].key = key}

(* Whatever is suppressed is owned up to: every occurrence of a failure is  *)
(* a line, is reported by a later line of its key or will be by the next,   *)
(* and no outage of the resolver is counted that is not an occurrence too,  *)
(* once its phase has reached the log (logging.go:92-118, 147-154;          *)
(* consent.go:352-354).                                                     *)
NothingSuppressedSilently ==
  /\ \A key \in LogKeys :
       met[key] = lines[key].count + lines[key].reported + Pending(key)
  /\ calls["owner_resolver"]["error"] = met["resolver-error"] + Cardinality(FailingAt("resolver-error"))

(* The phases whose checks have met a problem that is not yet told.         *)
Untold ==
  {k \in Requests : \/ stage[k].at = "checking" /\ stage[k].problems # {}
                    \/ stage[k].at = "failing" /\ stage[k].key = "consent-check"
                    \/ stage[k] = Deciding("deny", "none")}

(* The consent-manager's errors against what an operator is told of them.   *)
(* They are not one to one: a response may count an error for each owner    *)
(* and log one line, or none beside a refusal.  But there are no more       *)
(* occurrences of a failed check, logged or on their way to it, than errors *)
(* counted; and no more errors than the owners of the responses that have   *)
(* told of a problem, by an occurrence or a counted refusal, or have met    *)
(* one and are about to (consent.go:490-492, 515, 561-595).                 *)
EveryErrorIsTold ==
  LET errors == calls["consent_manager"]["error"]
      told == met["consent-check"] + decisions[<<"deny", "none">>]
  IN /\ met["consent-check"] + Cardinality(FailingAt("consent-check")) <= errors
     /\ errors <= Owners * (told + Cardinality(Untold))

(* A failure that goes on costs a line per interval, no more and no less,   *)
(* however many requests meet it, in a memory that does not grow: but for   *)
(* the keys past the cap, two lines are an interval apart, and an occurrence*)
(* is left out only while the last line is younger than that                *)
(* (logging.go:76-79, 98-117).                                              *)
OneLinePerInterval ==
  [][\A key \in LogKeys : met'[key] # met[key] =>
       LET recent == lines[key].count > 0 /\ now < lines[key].last + Interval
       IN /\ Tracked(key) => (recent <=> lines'[key].count = lines[key].count)
          /\ ~Tracked(key) => lines'[key].count = lines[key].count + 1
          /\ ~Tracked(key) /\ lines[key].count > 0 =>
               Cardinality(DOMAIN suppression) = KeyCap
          /\ Cardinality(DOMAIN suppression') <= KeyCap]_vars

In(name) == {k \in Requests : stage[k].at = name}
By(mode) == decisions[<<"allow", mode>>] + decisions[<<"deny", mode>>]

(* Whenever mu is free, and so in every scrape, the counters tell one story:*)
(* the outcomes of a dependency add up to its histogram, whose buckets are  *)
(* cumulative; every phase that ended is one decision; an ordinary verdict  *)
(* follows a call of the resolver that succeeded, and an outage of the      *)
(* resolver is never counted as anything else (metrics.go:120-155, 207-234; *)
(* consent.go:243-245, 352-356).                                            *)
CountersAgree ==
  /\ \A d \in Dependencies :
       LET h == latency[d]
       IN /\ calls[d]["success"] + calls[d]["error"] = h.total
          /\ \A b \in 1..Buckets : h.counts[b] <= IF b = Buckets THEN h.total ELSE h.counts[b + 1]
  /\ By("none") + By(ByPolicy) + By(AlwaysClosed) = Cardinality(In("done"))
  /\ By("none") <= calls["owner_resolver"]["success"]
  /\ calls["owner_resolver"]["error"] <=
       By(ByPolicy) + Cardinality(FailingAt("resolver-error"))
         + Cardinality({k \in In("deciding") : stage[k].verdict[2] = ByPolicy})
=============================================================================
