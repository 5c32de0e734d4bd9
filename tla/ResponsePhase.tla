---------------------------- MODULE ResponsePhase ----------------------------
(***************************************************************************)
(* One gated request through both phases: RequestFilter, then              *)
(* ResponseFilter with evaluate and evaluateWithResolver, the decision's   *)
(* metric, its audit records and its enforcement                           *)
(* (src/internal/plugin/consent.go).                                       *)
(*                                                                         *)
(* The request-context store may lose the context (RequestContextStore     *)
(* says when); checkOwners is one step of the gate that OwnerChecks        *)
(* implements (OwnerVerdicts).  Every dependency may fail at every call.   *)
(***************************************************************************)
EXTENDS Naturals, Sequences, FiniteSets, OwnerVerdicts, ConsentMatch

CONSTANTS
  Consumer,       (* the participant the data would be released to          *)
  Authorities,    (* the sets of consent records the authority may hold     *)
  Replies,        (* the claim sequences the resolver may answer with       *)
  MaxOwners       (* max_owners_per_response                                *)

ASSUME ResponsePhaseAssumption ==
  /\ MaxOwners \in Nat \ {0}
  /\ \A reply \in Replies : reply \in Seq(ToSet(reply))
  /\ \A authority \in Authorities : \A record \in authority :
       record.recipients \in Seq(ToSet(record.recipients))

VARIABLES
  cfg,        (* the route's failOpen, requirePurpose and auditEnabled      *)
  records,    (* the authority's consent records                            *)
  pc,         (* the next call of the phase                                 *)
  context,    (* the request's entry in the store: "none", or what its      *)
              (* JWT yielded: "claims" or "noclaims"                        *)
  parties,    (* resolveParties: the sides identified so far                *)
  asked,      (* the questions put to /resolve, by the parties they named   *)
  claims,     (* result.Claims, as the resolver sent them                   *)
  distinct,   (* the claims to check                                        *)
  late,       (* phaseCtx's deadline has passed                             *)
  outcome,    (* the responseOutcome                                        *)
  reason,     (* its reason, where no answer was reached: what failed       *)
  counted,    (* decisions counted in the metrics                           *)
  audit,      (* the audit records emitted                                  *)
  response    (* what the client gets                                       *)

vars == <<cfg, records, pc, context, parties, asked, claims, distinct, late,
          outcome, reason, counted, audit, response>>

Config == [failOpen : BOOLEAN, requirePurpose : BOOLEAN, auditEnabled : BOOLEAN]

Init ==
  /\ cfg \in Config
  /\ records \in Authorities
  /\ pc = "RequestFilter"
  /\ context = "none"
  /\ parties = {}
  /\ asked = {}
  /\ claims = <<>>
  /\ distinct = <<>>
  /\ late = FALSE
  /\ outcome = Pending
  /\ reason = "none"
  /\ counted = 0
  /\ audit = {}
  /\ response = "held"

world == <<cfg, records>>
results == <<counted, audit, response>>
-----------------------------------------------------------------------------
(* The request phase leaves a context unless it cannot read the request id; *)
(* a token that cannot be decoded leaves one without claims.                *)
RequestFilter ==
  /\ pc = "RequestFilter"
  /\ pc' = "correlationKey"
  /\ context' \in {"none", "noclaims", "claims"}
  /\ UNCHANGED <<world, parties, asked, claims, distinct, late, outcome, reason, results>>

(* The store evicts the context before the response phase consumes it.      *)
LoseContext ==
  /\ pc \in {"correlationKey", "LoadAndDelete"}
  /\ context # "none"
  /\ context' = "none"
  /\ UNCHANGED <<world, pc, parties, asked, claims, distinct, late, outcome, reason, results>>

(* Variant: an early return hands back an outcome that decides nothing.     *)
FailWithNothing(mode, why) ==
  /\ pc' = "RecordDecision"
  /\ reason' = why
  /\ UNCHANGED outcome

(* An early return with failOutcome's outcome.                              *)
FailWith(mode, why) ==
  /\ pc' = "RecordDecision"
  /\ reason' = why
  /\ outcome' = [Pending EXCEPT !.decision = failDecision(cfg.failOpen, mode),
                                !.failMode = mode]

Proceed(next) == pc' = next /\ UNCHANGED <<outcome, reason>>

correlationKey ==
  /\ pc = "correlationKey"
  /\ Proceed("LoadAndDelete") \/ FailWith(AlwaysClosed, "no correlation id")
  /\ UNCHANGED <<world, context, parties, asked, claims, distinct, late, results>>

(* The context is consumed: it is gone from the store, found or not.  With  *)
(* it in hand the phase's deadline starts to run.                           *)
LoadAndDelete ==
  /\ pc = "LoadAndDelete"
  /\ IF context = "none" THEN FailWith(AlwaysClosed, "no request context")
                         ELSE Proceed("ReadBody")
  /\ UNCHANGED <<world, context, parties, asked, claims, distinct, late, results>>

(* Reading fails, or the body is too large to examine.                      *)
ReadBody ==
  /\ pc = "ReadBody"
  /\ \/ Proceed("Consumer")
     \/ FailWith(ByPolicy, "outage")
     \/ FailWith(AlwaysClosed, "body too large")
  /\ UNCHANGED <<world, context, parties, asked, claims, distinct, late, results>>

(* consumerFromClaims, then the participant registry, which a cache may     *)
(* answer for even once the deadline has passed.                            *)
IdentifyConsumer ==
  /\ pc = "Consumer"
  /\ \/ /\ FailWith(AlwaysClosed, "no consuming participant")
        /\ UNCHANGED parties
     \/ /\ context = "claims"
        /\ \E err \in {"outage"} \cup PermanentErrors : FailWith(failModeForError(err), err)
        /\ UNCHANGED parties
     \/ /\ context = "claims"
        /\ Proceed("Provider")
        /\ parties' = parties \cup {"consumer"}
  /\ UNCHANGED <<world, context, asked, claims, distinct, late, results>>

IdentifyProvider ==
  /\ pc = "Provider"
  /\ \/ /\ Proceed("Resolve")
        /\ parties' = parties \cup {"provider"}
     \/ /\ \E err \in {"outage", "ErrNoCredentials"} : FailWith(failModeForError(err), err)
        /\ UNCHANGED parties
  /\ UNCHANGED <<world, context, asked, claims, distinct, late, results>>

(* The resolver fails (as it must once the deadline has passed), needs no   *)
(* consent, or answers with claims.                                         *)
Resolve ==
  /\ pc = "Resolve"
  /\ asked' = asked \cup {parties}
  /\ \/ /\ FailWith(ByPolicy, "outage")
        /\ UNCHANGED claims
     \/ /\ ~late
        /\ pc' = "RecordDecision"
        /\ outcome' = [Pending EXCEPT !.decision = "allow"]
        /\ UNCHANGED <<claims, reason>>
     \/ /\ ~late
        /\ Proceed("Claims")
        /\ claims' \in Replies
  /\ UNCHANGED <<world, context, parties, distinct, late, results>>

ScopeClaims ==
  /\ pc = "Claims"
  /\ distinct' = distinctClaims(claims)
  /\ IF \/ claims = <<>>
        \/ NamesNoOwner(claims)
        \/ cfg.requirePurpose /\ NamesNoPurpose(distinct')
        \/ Len(distinct') > MaxOwners
     THEN FailWith(AlwaysClosed, "claims cannot be checked")
     ELSE Proceed("CheckOwners")
  /\ UNCHANGED <<world, context, parties, asked, claims, late, results>>

Granted == {i \in DOMAIN distinct : hasGrantedConsent(records, distinct[i], Consumer)}

checkOwners ==
  /\ pc = "CheckOwners"
  /\ pc' = "RecordDecision"
  /\ outcome' \in OwnerOutcomes(DOMAIN distinct, Granted, cfg.failOpen, late)
  /\ reason' = IF outcome'.failMode = ByPolicy THEN "outage" ELSE reason
  /\ UNCHANGED <<world, context, parties, asked, claims, distinct, late, results>>

(* phaseCtx's deadline passes.                                              *)
PhaseExpires ==
  /\ pc \in {"ReadBody", "Consumer", "Provider", "Resolve", "Claims", "CheckOwners"}
  /\ ~late
  /\ late' = TRUE
  /\ UNCHANGED <<world, pc, context, parties, asked, claims, distinct, outcome, reason, results>>

RecordDecision ==
  /\ pc = "RecordDecision"
  /\ pc' = "recordAudit"
  /\ counted' = counted + 1
  /\ UNCHANGED <<world, context, parties, asked, claims, distinct, late, outcome,
                 reason, audit, response>>

(* Variant: only the owners that answered are recorded.                     *)
AuditRecordsOfOwners ==
  {[subject |-> i, decision |-> IF i \in Granted THEN "allow" ELSE "deny"]
     : i \in outcome.checked}

(* One record per owner that answered; the outcome itself if none did.      *)
AuditRecords ==
  IF outcome.checked = {}
  THEN {[subject |-> outcome.subject, decision |-> outcome.decision]}
  ELSE {[subject |-> i, decision |-> IF i \in Granted THEN "allow" ELSE "deny"]
          : i \in outcome.checked}

recordAudit ==
  /\ pc = "recordAudit"
  /\ pc' = "Enforce"
  /\ audit' = IF cfg.auditEnabled THEN AuditRecords ELSE {}
  /\ UNCHANGED <<world, context, parties, asked, claims, distinct, late, outcome,
                 reason, counted, response>>

(* denyResponse replaces the whole response; otherwise it passes unchanged. *)
Enforce ==
  /\ pc = "Enforce"
  /\ pc' = "done"
  /\ response' = IF outcome.decision = "deny" THEN "denial" ELSE "upstream"
  /\ UNCHANGED <<world, context, parties, asked, claims, distinct, late, outcome,
                 reason, counted, audit>>

(* The response has been handed back to APISIX.                             *)
Terminated == pc = "done" /\ UNCHANGED vars

Next ==
  \/ RequestFilter \/ LoseContext
  \/ correlationKey \/ LoadAndDelete \/ ReadBody
  \/ IdentifyConsumer \/ IdentifyProvider \/ Resolve \/ ScopeClaims \/ checkOwners
  \/ PhaseExpires
  \/ RecordDecision \/ recordAudit \/ Enforce \/ Terminated

Spec == Init /\ [][Next]_vars
-----------------------------------------------------------------------------
TypeOK ==
  /\ cfg \in Config
  /\ records \in Authorities
  /\ pc \in {"RequestFilter", "correlationKey", "LoadAndDelete", "ReadBody", "Consumer",
             "Provider", "Resolve", "Claims", "CheckOwners", "RecordDecision",
             "recordAudit", "Enforce", "done"}
  /\ context \in {"none", "noclaims", "claims"}
  /\ parties \subseteq {"consumer", "provider"}
  /\ asked \subseteq SUBSET {"consumer", "provider"}
  /\ claims \in Replies \cup {<<>>}
  /\ late \in BOOLEAN
  /\ outcome = Pending \/ outcome \in [decision : Decisions, failMode : {""} \cup FailModes,
                                      subject : {NoSubject} \cup DOMAIN distinct,
                                      checked : SUBSET DOMAIN distinct]
  /\ counted \in 0..1
  /\ \A record \in audit : record.subject \in {NoSubject} \cup outcome.checked \cup {outcome.subject}
  /\ response \in {"held", "upstream", "denial"}
  /\ reason \in {"none", "outage", "no correlation id", "no request context",
                 "body too large", "no consuming participant",
                 "claims cannot be checked"} \cup PermanentErrors
  /\ outcome = Pending <=> pc \notin {"RecordDecision", "recordAudit", "Enforce", "done"}

(* The upstream's response reaches the client only of a request whose       *)
(* context survived, and then either because a dependency failed and the    *)
(* operator chose to fail open, or because the resolver, asked with both    *)
(* parties of the contract, required no consent, or because each of its     *)
(* claims names an owner and the check of a claim with that owner and       *)
(* resource, and with a purpose where one is required, has come back; only  *)
(* the phase's deadline excuses a check that was not made (consent.go:471). *)
(* A lost context, an unreadable or unregistered consumer, an unnamed owner,*)
(* purposes that are missing or too many owners are never released by       *)
(* fail_open, even when something else fails too (consent.go:256-383,       *)
(* 625-677).                                                                *)
ReleaseIsJustified ==
  response = "upstream" =>
    /\ context # "none"
    /\ \/ cfg.failOpen /\ reason = "outage"
       \/ /\ asked = {{"consumer", "provider"}} /\ context = "claims"
          /\ Len(distinct) <= MaxOwners
          /\ \A i \in DOMAIN claims :
               /\ claims[i].owner # Unset
               /\ \E m \in DOMAIN claims :
                    /\ SameKey(claims[m], claims[i])
                    /\ cfg.requirePurpose => claims[m].purpose # Unset
                    /\ late \/ \E j \in outcome.checked : distinct[j] = claims[m]

(* A consent granted to somebody else, withdrawn, or for another purpose or *)
(* resource never releases: each claim checked for a plain release in time  *)
(* has a record whose authority is this consumer's (client.go:820-913).     *)
ReleaseRestsOnAgreements ==
  response = "upstream" /\ outcome.failMode = "" /\ ~late =>
    \A i \in DOMAIN distinct : \E record \in records :
      LET first == IF record.recipients = <<>> THEN {} ELSE {record.recipients[1]} IN
      /\ record.owner = distinct[i].owner /\ record.status = "granted"
      /\ Consumer \in record.named \cup first
      /\ distinct[i].purpose # Unset => distinct[i].purpose \in record.purposes
      /\ distinct[i].resource # Unset => distinct[i].resource \in record.data

(* No owner or resource the resolver named goes unchecked and none is       *)
(* checked twice, however its claims repeat (consent.go:414-435).           *)
NoClaimDropped ==
  pc = "CheckOwners" =>
    LET key(claim) == <<claim.owner, claim.resource>>
    IN /\ {key(claims[i]) : i \in DOMAIN claims} = {key(distinct[j]) : j \in DOMAIN distinct}
       /\ \A i, j \in DOMAIN distinct : key(distinct[i]) = key(distinct[j]) => i = j

(* What the operator is told is what was done: nothing reaches the client   *)
(* before its decision has been counted once and, on an audited route, left *)
(* a record, not even for a request the phase knows nothing about; data is  *)
(* not released beside a record of an owner's refusal; and a refusal that   *)
(* was enforced is in the log (consent.go:233-249, 547-551, 679-722).       *)
AuditNeverContradicts ==
  /\ response # "held" => counted = 1 /\ (cfg.auditEnabled => audit # {})
  /\ pc = "done" /\ cfg.auditEnabled =>
       /\ response = "upstream" => \A record \in audit : record.decision = "allow"
       /\ response = "denial" /\ outcome.failMode = "" =>
            \E record \in audit : record.decision = "deny" /\ record.subject = outcome.subject
-----------------------------------------------------------------------------
(* What the code's comments say, and the code does not do.                  *)

(* ownerresolver/client.go:88-90: "Every one must be satisfied for the      *)
(* response to be released."                                                *)
EveryClaimSatisfied ==
  response = "upstream" /\ outcome.failMode = "" /\ ~late =>
    \A i \in DOMAIN claims : hasGrantedConsent(records, claims[i], Consumer)

(* consent.go:233-234: "Every decision is recorded to the audit sink (when  *)
(* enabled) before it is enforced."                                         *)
EnforcedDecisionIsRecorded ==
  pc = "done" /\ cfg.auditEnabled =>
    \E record \in audit : record.decision = outcome.decision
=============================================================================
