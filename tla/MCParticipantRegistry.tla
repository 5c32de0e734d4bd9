----------------------- MODULE MCParticipantRegistry -----------------------
(* Three look-ups over two authorities, one of them with a static token:    *)
(* one fills the cache, a slow one overwrites it, and one is served.        *)
EXTENDS ParticipantRegistry, TLC

Symmetry == Permutations(Callers)
=============================================================================
