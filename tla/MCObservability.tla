-------------------------- MODULE MCObservability --------------------------
(* Three response phases, as many as it takes for one key to log, to stay   *)
(* quiet and to report it, with room for two of five keys and a clock that  *)
(* reaches the end of an interval; two checks each, so that one fails and   *)
(* the other is cancelled, or refuses.                                      *)
EXTENDS Observability, TLC

Symmetry == Permutations(Requests)
=============================================================================
