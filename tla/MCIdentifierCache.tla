------------------------- MODULE MCIdentifierCache -------------------------
(* Three checks: one to cache an identifier, one to use it after the        *)
(* subject registered again, and one to overlap either.                     *)
EXTENDS IdentifierCache, TLC

Symmetry == Permutations(Checks)
=============================================================================
