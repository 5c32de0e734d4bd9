----------------------- MODULE MCRequestContextStore -----------------------
(* Four requests compete for a store of three slots that evicts two at a   *)
(* time, over a clock that lets every context outlive its TTL.             *)
EXTENDS RequestContextStore
=============================================================================
