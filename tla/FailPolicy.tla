----------------------------- MODULE FailPolicy -----------------------------
(***************************************************************************)
(* The plugin's fail policy (src/internal/plugin/consent.go): which of the *)
(* situations in which no consent decision could be reached are outages    *)
(* the operator may ride out with fail_open, and which always deny.        *)
(***************************************************************************)

Decisions == {"allow", "deny"}

(* failMode: "" marks an outcome that a definite answer decided. *)
ByPolicy == "by_policy"
AlwaysClosed == "always_closed"
FailModes == {ByPolicy, AlwaysClosed}

(* The errors of the consent client that no retry will fix. *)
PermanentErrors == {"ErrNoCredentials", "ErrParticipantNotRegistered"}

(* Variant: every error is an outage.                                       *)
everyErrorByPolicy(err) == ByPolicy

(* A permanent error is a misconfiguration, never an outage to ride out.    *)
failModeForError(err) ==
  IF err \in PermanentErrors THEN AlwaysClosed ELSE ByPolicy

(* The decision of an unresolved check: released only if the operator's     *)
(* policy applies to this mode and is to fail open.                         *)
failDecision(failOpen, mode) ==
  IF mode = ByPolicy /\ failOpen THEN "allow" ELSE "deny"
=============================================================================
