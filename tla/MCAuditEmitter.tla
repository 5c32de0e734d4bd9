--------------------------- MODULE MCAuditEmitter ---------------------------
(* Two configurations, two requests of two records each: with a queue of    *)
(* two and batches of two, queues fill while a batch is on its way, and     *)
(* requests go on recording after the registry was emptied.                 *)
EXTENDS AuditEmitter
=============================================================================
