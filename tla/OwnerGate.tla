------------------------------ MODULE OwnerGate ------------------------------
(***************************************************************************)
(* What the per-owner check of a response promises its caller, whatever    *)
(* its goroutines do: which outcomes checkOwners may return for the        *)
(* consents that hold, the fail policy, and whether the phase ran out of   *)
(* time.  OwnerChecks implements it, and ResponsePhase takes checkOwners   *)
(* to be one step of it.                                                   *)
(***************************************************************************)
EXTENDS OwnerVerdicts
-----------------------------------------------------------------------------
CONSTANT N

VARIABLES failOpen, consent, phaseExpired, outcome

gateVars == <<failOpen, consent, phaseExpired, outcome>>

GateInit ==
  /\ failOpen \in BOOLEAN
  /\ consent \in [1..N -> {"granted", "refused"}]
  /\ phaseExpired = FALSE
  /\ outcome = Pending

Expire ==
  /\ outcome = Pending
  /\ phaseExpired' = TRUE
  /\ UNCHANGED <<failOpen, consent, outcome>>

Decide ==
  /\ outcome = Pending
  /\ outcome' \in OwnerOutcomes(1..N, {i \in 1..N : consent[i] = "granted"},
                                failOpen, phaseExpired)
  /\ UNCHANGED <<failOpen, consent, phaseExpired>>

GateSpec == GateInit /\ [][Expire \/ Decide]_gateVars
=============================================================================
