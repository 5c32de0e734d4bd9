---------------------------- MODULE AuditEmitter ----------------------------
(***************************************************************************)
(* The asynchronous audit exporters (src/internal/audit/audit.go), the     *)
(* requests that record on them (recordAudit, consent.go) and the          *)
(* runner's exit (main.go).                                                *)
(*                                                                         *)
(* A request gets its route's emitter and queues its records one after     *)
(* the other, never waiting.  One worker per emitter batches and exports   *)
(* them; the Collector may refuse or miss any export.  When the runner     *)
(* returns, ShutdownAll empties the registry and stops the emitters it     *)
(* held, while requests still in flight go on recording.                   *)
(***************************************************************************)
EXTENDS Naturals, Sequences, FiniteSets, SequencesExt

CONSTANTS
  Keys,         (* the emitter configurations of the routes (Config.key)    *)
  Requests,     (* the requests decided                                     *)
  Owners,       (* records per request                                      *)
  QueueSize,    (* defaultQueueSize                                         *)
  BatchSize     (* defaultBatchSize                                         *)

ASSUME AuditEmitterAssumption ==
  /\ Owners \in Nat \ {0}
  /\ QueueSize \in Nat \ {0}
  /\ BatchSize \in Nat \ {0}

(* ShutdownAll runs once, so a configuration gets at most two emitters.     *)
Emitter == Keys \X {1, 2}
NoEmitter == <<>>
Record == Requests \X (1..Owners)

VARIABLES
  emitters,   (* the registry: the emitters Get finds                       *)
  emitter,    (* per request: what Get returned                             *)
  emitted,    (* per request: how many of its records it has emitted        *)
  queue,      (* per emitter: its channel                                   *)
  batch,      (* per emitter: its worker's batch                            *)
  worker,     (* per emitter: what its worker does                          *)
  done,       (* the emitters whose done channel is closed                  *)
  dropped,    (* per emitter: the records counted in dropped                *)
  received,   (* the records the Collector took                             *)
  failed,     (* the records whose export failed                            *)
  main,       (* the main goroutine                                         *)
  pending,    (* ShutdownAll: the emitters still to shut down               *)
  early       (* history: the records emitted before the runner returned    *)

vars == <<emitters, emitter, emitted, queue, batch, worker, done, dropped,
          received, failed, main, pending, early>>

requests == <<emitter, emitted, early>>
exits == <<done, main, pending>>
collected == <<received, failed>>

Init ==
  /\ emitters = {}
  /\ emitter = [r \in Requests |-> NoEmitter]
  /\ emitted = [r \in Requests |-> 0]
  /\ queue = [e \in Emitter |-> <<>>]
  /\ batch = [e \in Emitter |-> <<>>]
  /\ worker = [e \in Emitter |-> "none"]
  /\ done = {}
  /\ dropped = [e \in Emitter |-> {}]
  /\ received = {}
  /\ failed = {}
  /\ main = "run"
  /\ pending = {}
  /\ early = {}
-----------------------------------------------------------------------------
(* Requests.                                                                *)

(* The registry's emitter for the route's configuration, or a new one.      *)
Get(r) ==
  /\ main # "exited"
  /\ emitter[r] = NoEmitter
  /\ \E key \in Keys :
       LET registered == {e \in emitters : e[1] = key}
           fresh == IF worker[<<key, 1>>] = "none" THEN <<key, 1>> ELSE <<key, 2>>
       IN IF registered # {}
          THEN /\ emitter' = [emitter EXCEPT ![r] = CHOOSE e \in registered : TRUE]
               /\ UNCHANGED <<emitters, worker>>
          ELSE /\ emitter' = [emitter EXCEPT ![r] = fresh]
               /\ emitters' = emitters \cup {fresh}
               /\ worker' = [worker EXCEPT ![fresh] = "select"]
  /\ UNCHANGED <<emitted, queue, batch, dropped, collected, exits, early>>

(* Variant: a full queue makes room by forgetting its oldest record.        *)
EmitOverOldest(r, e) ==
  /\ queue' = [queue EXCEPT ![e] =
       Append(IF Len(@) < QueueSize THEN @ ELSE Tail(@), <<r, emitted[r] + 1>>)]
  /\ UNCHANGED dropped

(* Emit: queued, or dropped and counted.                                    *)
Emit(r, e) ==
  IF Len(queue[e]) < QueueSize
  THEN /\ queue' = [queue EXCEPT ![e] = Append(@, <<r, emitted[r] + 1>>)]
       /\ UNCHANGED dropped
  ELSE /\ dropped' = [dropped EXCEPT ![e] = @ \cup {<<r, emitted[r] + 1>>}]
       /\ UNCHANGED queue

recordAudit(r) ==
  /\ main # "exited"
  /\ emitter[r] # NoEmitter
  /\ emitted[r] < Owners
  /\ Emit(r, emitter[r])
  /\ emitted' = [emitted EXCEPT ![r] = @ + 1]
  /\ early' = IF main = "run" THEN early \cup {<<r, emitted[r] + 1>>} ELSE early
  /\ UNCHANGED <<emitters, emitter, batch, worker, collected, exits>>
-----------------------------------------------------------------------------
(* An emitter's worker (run).                                               *)

Working(e, step) == main # "exited" /\ worker[e] = step

(* Variant: off by one, a full batch waits for one record more.             *)
TakeOneMore(e) ==
  /\ Working(e, "select")
  /\ queue[e] # <<>>
  /\ queue' = [queue EXCEPT ![e] = Tail(@)]
  /\ batch' = [batch EXCEPT ![e] = Append(@, Head(queue[e]))]
  /\ worker' = [worker EXCEPT ![e] =
                  IF Len(batch'[e]) > BatchSize THEN "export" ELSE @]
  /\ UNCHANGED <<emitters, requests, dropped, collected, exits>>

(* One record off the queue; a full batch is exported at once.              *)
Take(e) ==
  /\ Working(e, "select")
  /\ queue[e] # <<>>
  /\ queue' = [queue EXCEPT ![e] = Tail(@)]
  /\ batch' = [batch EXCEPT ![e] = Append(@, Head(queue[e]))]
  /\ worker' = [worker EXCEPT ![e] =
                  IF Len(batch'[e]) >= BatchSize THEN "export" ELSE @]
  /\ UNCHANGED <<emitters, requests, dropped, collected, exits>>

(* Variant: the ticker exports only what is already full.                   *)
TickWhenFull(e) ==
  /\ Working(e, "select")
  /\ Len(batch[e]) >= BatchSize
  /\ worker' = [worker EXCEPT ![e] = "export"]
  /\ UNCHANGED <<emitters, requests, queue, batch, dropped, collected, exits>>

(* The ticker fires; with an empty batch nothing happens.                   *)
Tick(e) ==
  /\ Working(e, "select")
  /\ batch[e] # <<>>
  /\ worker' = [worker EXCEPT ![e] = "export"]
  /\ UNCHANGED <<emitters, requests, queue, batch, dropped, collected, exits>>

(* Variant: the shutdown is noticed only with something left in the queue.  *)
StopWithWork(e) ==
  /\ Working(e, "select")
  /\ e \in done
  /\ queue[e] # <<>>
  /\ worker' = [worker EXCEPT ![e] = "drain"]
  /\ UNCHANGED <<emitters, requests, queue, batch, dropped, collected, exits>>

(* done is closed, and the select picks it.                                 *)
Stop(e) ==
  /\ Working(e, "select")
  /\ e \in done
  /\ worker' = [worker EXCEPT ![e] = "drain"]
  /\ UNCHANGED <<emitters, requests, queue, batch, dropped, collected, exits>>

Drain(e) ==
  /\ Working(e, "drain")
  /\ queue[e] # <<>>
  /\ queue' = [queue EXCEPT ![e] = Tail(@)]
  /\ batch' = [batch EXCEPT ![e] = Append(@, Head(queue[e]))]
  /\ UNCHANGED <<emitters, requests, worker, dropped, collected, exits>>

(* Nothing is queued at this moment: the last batch, and the worker ends.   *)
DrainEnds(e) ==
  /\ Working(e, "drain")
  /\ queue[e] = <<>>
  /\ worker' = [worker EXCEPT ![e] = IF batch[e] = <<>> THEN "stopped" ELSE "last"]
  /\ UNCHANGED <<emitters, requests, queue, batch, dropped, collected, exits>>

(* One POST; a batch that fails is logged and gone.                         *)
export(e) ==
  /\ \E step \in {"export", "last"} : Working(e, step)
  /\ \/ received' = received \cup ToSet(batch[e]) /\ UNCHANGED failed
     \/ failed' = failed \cup ToSet(batch[e]) /\ UNCHANGED received
  /\ batch' = [batch EXCEPT ![e] = <<>>]
  /\ worker' = [worker EXCEPT ![e] = IF @ = "last" THEN "stopped" ELSE "select"]
  /\ UNCHANGED <<emitters, requests, queue, dropped, exits>>
-----------------------------------------------------------------------------
(* The main goroutine.                                                      *)

(* The runner returns on a signal, without waiting for its requests, and    *)
(* ShutdownAll takes the registry.                                          *)
ShutdownAll ==
  /\ main = "run"
  /\ main' = "shutdown"
  /\ pending' = emitters
  /\ emitters' = {}
  /\ UNCHANGED <<requests, queue, batch, worker, dropped, collected, done>>

(* Shutdown closes done ...                                                 *)
Shutdown(e) ==
  /\ main = "shutdown"
  /\ e \in pending
  /\ pending \cap done = {}
  /\ done' = done \cup {e}
  /\ UNCHANGED <<emitters, requests, queue, batch, worker, dropped, collected, main, pending>>

(* Variant: Shutdown does not wait for the worker.                          *)
ShutdownLeaves(e) ==
  /\ main = "shutdown"
  /\ e \in pending \cap done
  /\ pending' = pending \ {e}
  /\ UNCHANGED <<emitters, requests, queue, batch, worker, dropped, collected, done, main>>

(* ... and waits for the worker to stop.                                    *)
ShutdownReturns(e) ==
  /\ main = "shutdown"
  /\ e \in pending \cap done
  /\ worker[e] = "stopped"
  /\ pending' = pending \ {e}
  /\ UNCHANGED <<emitters, requests, queue, batch, worker, dropped, collected, done, main>>

(* main returns, and with it every goroutine ends.                          *)
Exit ==
  /\ main = "shutdown"
  /\ pending = {}
  /\ main' = "exited"
  /\ UNCHANGED <<emitters, requests, queue, batch, worker, dropped, collected, done, pending>>

Terminated == main = "exited" /\ UNCHANGED vars

Work(e) == Take(e) \/ Tick(e) \/ Stop(e) \/ Drain(e) \/ DrainEnds(e) \/ export(e)

Next ==
  \/ \E r \in Requests : Get(r) \/ recordAudit(r)
  \/ \E e \in Emitter : Work(e) \/ Shutdown(e) \/ ShutdownReturns(e)
  \/ ShutdownAll \/ Exit \/ Terminated

(* A worker and the main goroutine keep running once they can; an export    *)
(* ends by its timeout.  Nobody owes a request or a signal.                 *)
Fairness ==
  /\ \A e \in Emitter :
       WF_vars(Work(e)) /\ WF_vars(Shutdown(e)) /\ WF_vars(ShutdownReturns(e))
  /\ WF_vars(Exit)

Spec == Init /\ [][Next]_vars
FairSpec == Spec /\ Fairness
-----------------------------------------------------------------------------
TypeOK ==
  /\ emitters \subseteq Emitter
  /\ emitter \in [Requests -> Emitter \cup {NoEmitter}]
  /\ emitted \in [Requests -> 0..Owners]
  /\ queue \in [Emitter -> Seq(Record)]
  /\ batch \in [Emitter -> Seq(Record)]
  /\ \A e \in Emitter :
       /\ Len(queue[e]) <= QueueSize
       /\ worker[e] = "select" => Len(batch[e]) < BatchSize
       /\ worker[e] = "stopped" => batch[e] = <<>>
  /\ worker \in [Emitter -> {"none", "select", "export", "drain", "last", "stopped"}]
  /\ done \subseteq Emitter
  /\ dropped \in [Emitter -> SUBSET Record]
  /\ received \subseteq Record
  /\ failed \subseteq Record
  /\ main \in {"run", "shutdown", "exited"}
  /\ pending \subseteq Emitter
  /\ early \subseteq Record

Emitted == {record \in Record : record[2] <= emitted[record[1]]}
Waiting(e) == queue[e] \o batch[e]
WaitingAnywhere == UNION {ToSet(Waiting(e)) : e \in Emitter}
DroppedAnywhere == UNION {dropped[e] : e \in Emitter}

(* Every record ever emitted is in exactly one place: waiting once, with    *)
(* the emitter its request holds, taken by the Collector, lost with a       *)
(* failed export, or counted as dropped.  None disappears unaccounted and   *)
(* none is exported twice (audit.go:239-248, 293-357).                      *)
EveryRecordAccounted ==
  /\ Emitted = received \cup failed \cup WaitingAnywhere \cup DroppedAnywhere
  /\ received \cap failed = {}
  /\ (received \cup failed) \cap (WaitingAnywhere \cup DroppedAnywhere) = {}
  /\ WaitingAnywhere \cap DroppedAnywhere = {}
  /\ \A e \in Emitter :
       /\ IsInjective(Waiting(e))
       /\ \A record \in ToSet(Waiting(e)) : emitter[record[1]] = e

(* The process does not exit with a record still waiting that was emitted   *)
(* before the runner returned: the flush is complete for all the requests   *)
(* decided by then (audit.go:184-202, 286-326; main.go:56-76).              *)
FlushedAtExit == main = "exited" => early \cap WaitingAnywhere = {}

(* The exit is not held up for ever by a worker, whatever the requests      *)
(* still in flight emit meanwhile (audit.go:286-289, 316-324).              *)
ShutdownCompletes == main = "shutdown" ~> main = "exited"

(* A record that has been queued is handed to the Collector or lost with    *)
(* its batch, however few records follow it, unless the process exits       *)
(* (audit.go:306-315).                                                      *)
WaitingIsTemporary ==
  \A record \in Record :
    record \in WaitingAnywhere ~> record \in received \cup failed \/ main = "exited"
=============================================================================
