--------------------------- MODULE MCOwnerChecks ---------------------------
(* Three claims compete for two slots: one goroutine must wait while two   *)
(* siblings are in flight, so a problem can cancel both a call and a wait. *)
EXTENDS OwnerChecks
=============================================================================
