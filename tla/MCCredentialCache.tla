------------------------- MODULE MCCredentialCache -------------------------
(* Two callers of one entry, so that one always finds what the other did.   *)
(* A unit of time is half the skew.                                         *)
EXTENDS CredentialCache
=============================================================================
