----------------------------- MODULE EnvWorkers -----------------------------
(***************************************************************************)
(* The instances of an env and the tasks of the env daemon that talk to    *)
(* them (runtime/src/envd/server/instance_worker.rs).  Each instance is a  *)
(* daemon process of its own, behind one worker task: the env's actor puts *)
(* a request in the worker's queue and keeps a one-shot receiver for the   *)
(* answer; the worker sends one request at a time over the socket, waits   *)
(* at most five seconds, and closes for good after the first error.        *)
(*                                                                         *)
(* An actor that stops waiting drops its receivers, not the requests: they *)
(* stay queued, and the instance carries them out.                         *)
(***************************************************************************)
EXTENDS Naturals, Sequences

CONSTANTS
  NumInstances,    (* the instances, in the order of the env's definition  *)
  WorkerQueueCap,  (* requests a worker's queue holds (64 in the code)     *)
  Faults           (* the faults of this instance of the model             *)

AllFaults ==
  {"crash",        (* an instance's process dies                           *)
   "timeout",      (* an instance answers later than the worker waits      *)
   "pre", "post",  (* an instance's request fails before or after its tick *)
   "direct",       (* a client resets an attached instance directly        *)
   "can",          (* the env's CAN socket fails                           *)
   "write"}        (* the env's trace row cannot be written                *)

ASSUME WorkersAssumption ==
  /\ NumInstances \in Nat \ {0}
  /\ WorkerQueueCap \in Nat \ {0}
  /\ Faults \subseteq AllFaults

Instances == 1 .. NumInstances

Ops == {"Step", "Reset", "Discard", "Read", "Close"}

VARIABLES
  queue,    (* per instance, the requests its worker has not taken         *)
  wstate,   (* "idle", "waiting", "failing" (answered an error), "closed"  *)
  reply,    (* what the actor's one-shot receiver holds, "none" if it has  *)
            (* no receiver for this instance                               *)
  inbox,    (* the request the instance's daemon has not carried out       *)
  outbox,   (* the answer on the socket                                    *)
  alive,
  ticks,    (* ticks the instance's project made since its last reset      *)
  sample    (* what the instance read last: the number of its tick         *)

workers == <<queue, wstate, reply>>
instances == <<inbox, outbox, alive, ticks, sample>>
workerVars == <<workers, instances>>

WorkersInit ==
  /\ queue = [i \in Instances |-> <<>>]
  /\ wstate = [i \in Instances |-> "idle"]
  /\ reply = [i \in Instances |-> "none"]
  /\ inbox = [i \in Instances |-> "none"]
  /\ outbox = [i \in Instances |-> "none"]
  /\ alive = [i \in Instances |-> TRUE]
  /\ ticks = [i \in Instances |-> 0]
  /\ sample = [i \in Instances |-> 0]

Failed(i) == wstate[i] \in {"failing", "closed"}

-----------------------------------------------------------------------------
(* What the actor does with a worker.                                      *)

(* begin_request on an open channel; it waits while the queue is full.     *)
Begin(i, op) ==
  /\ wstate[i] # "closed"
  /\ Len(queue[i]) < WorkerQueueCap
  /\ queue' = [queue EXCEPT ![i] = Append(@, op)]
  /\ reply' = [reply EXCEPT ![i] = "pending"]
  /\ UNCHANGED wstate

(* The answer to the request the actor awaits is taken out of the receiver.*)
TakeReply(i) ==
  /\ reply' = [reply EXCEPT ![i] = "none"]
  /\ UNCHANGED <<queue, wstate>>

(* An early return drops every receiver the actor still holds.             *)
DropReceivers ==
  /\ reply' = [i \in Instances |-> "none"]
  /\ UNCHANGED <<queue, wstate>>

-----------------------------------------------------------------------------
(* A worker task.                                                          *)

(* The one-shot of the request just answered: the actor's receiver is that *)
(* of the last request queued, the receivers of earlier ones were dropped. *)
Answer(i, rest, outcome) ==
  reply' = IF rest = <<>> /\ reply[i] = "pending"
           THEN [reply EXCEPT ![i] = outcome] ELSE reply

(* The next request is written to the socket; a dead instance refuses it.  *)
WorkerSend(i) ==
  /\ wstate[i] = "idle"
  /\ queue[i] # <<>>
  /\ queue' = [queue EXCEPT ![i] = Tail(@)]
  /\ IF alive[i]
     THEN /\ inbox' = [inbox EXCEPT ![i] = Head(queue[i])]
          /\ wstate' = [wstate EXCEPT ![i] = "waiting"]
          /\ UNCHANGED reply
     ELSE /\ Answer(i, Tail(queue[i]), "err")
          /\ wstate' = [wstate EXCEPT ![i] = "failing"]
          /\ UNCHANGED inbox
  /\ UNCHANGED <<outbox, alive, ticks, sample>>

WorkerReceive(i) ==
  /\ wstate[i] = "waiting"
  /\ outbox[i] # "none"
  /\ Answer(i, queue[i], outbox[i])
  /\ wstate' = [wstate EXCEPT ![i] = IF outbox[i] = "ok" THEN "idle"
                                                         ELSE "failing"]
  /\ outbox' = [outbox EXCEPT ![i] = "none"]
  /\ UNCHANGED <<queue, inbox, alive, ticks, sample>>

(* The timeout, or the end of the stream after the instance died.          *)
WorkerGivesUp(i) ==
  /\ wstate[i] = "waiting"
  /\ outbox[i] = "none"
  /\ "timeout" \in Faults \/ ~alive[i]
  /\ Answer(i, queue[i], "err")
  /\ wstate' = [wstate EXCEPT ![i] = "failing"]
  /\ UNCHANGED <<queue, instances>>

(* Mutant: an error does not close the worker.                             *)
WorkerStaysOpen(i) ==
  /\ wstate[i] = "failing"
  /\ wstate' = [wstate EXCEPT ![i] = "idle"]
  /\ UNCHANGED <<queue, reply, instances>>

(* The task ends: requests still queued are dropped unanswered.            *)
WorkerCloses(i) ==
  /\ wstate[i] = "failing"
  /\ wstate' = [wstate EXCEPT ![i] = "closed"]
  /\ reply' = IF queue[i] # <<>> /\ reply[i] = "pending"
              THEN [reply EXCEPT ![i] = "err"] ELSE reply
  /\ queue' = [queue EXCEPT ![i] = <<>>]
  /\ UNCHANGED instances

WorkerStep(i) ==
  WorkerSend(i) \/ WorkerReceive(i) \/ WorkerGivesUp(i) \/ WorkerCloses(i)

-----------------------------------------------------------------------------
(* An instance's daemon, as far as the env can tell.                       *)

(* The answer only gets through while the worker still listens.            *)
Deliver(i, outcome) ==
  outbox' = [outbox EXCEPT ![i] = IF wstate[i] = "waiting" THEN outcome ELSE @]

InstanceSteps(i) ==
  /\ inbox[i] = "Step"
  /\ \/ /\ ticks' = [ticks EXCEPT ![i] = @ + 1]
        /\ Deliver(i, "ok")
     \/ /\ "pre" \in Faults
        /\ Deliver(i, "err")
        /\ UNCHANGED ticks
     \/ /\ "post" \in Faults
        /\ ticks' = [ticks EXCEPT ![i] = @ + 1]
        /\ Deliver(i, "err")
  /\ UNCHANGED <<alive, sample>>

InstanceResets(i) ==
  /\ inbox[i] = "Reset"
  /\ \/ /\ ticks' = [ticks EXCEPT ![i] = 0]
        /\ Deliver(i, "ok")
     \/ /\ "pre" \in Faults
        /\ Deliver(i, "err")
        /\ UNCHANGED ticks
  /\ UNCHANGED <<alive, sample>>

InstanceDiscards(i) ==
  /\ inbox[i] = "Discard"
  /\ \/ Deliver(i, "ok")
     \/ "pre" \in Faults /\ Deliver(i, "err")
  /\ UNCHANGED <<alive, ticks, sample>>

InstanceReads(i) ==
  /\ inbox[i] = "Read"
  /\ \/ /\ sample' = [sample EXCEPT ![i] = ticks[i]]
        /\ Deliver(i, "ok")
     \/ /\ "pre" \in Faults
        /\ Deliver(i, "err")
        /\ UNCHANGED sample
  /\ UNCHANGED <<alive, ticks>>

(* The process exits; its last answer may not get out before that.         *)
InstanceCloses(i) ==
  /\ inbox[i] = "Close"
  /\ alive' = [alive EXCEPT ![i] = FALSE]
  /\ Deliver(i, "ok") \/ UNCHANGED outbox
  /\ UNCHANGED <<ticks, sample>>

InstanceExecutes(i) ==
  /\ alive[i]
  /\ inbox' = [inbox EXCEPT ![i] = "none"]
  /\ \/ InstanceSteps(i)
     \/ InstanceResets(i)
     \/ InstanceDiscards(i)
     \/ InstanceReads(i)
     \/ InstanceCloses(i)
  /\ UNCHANGED workers

InstanceCrashes(i) ==
  /\ "crash" \in Faults
  /\ alive[i]
  /\ alive' = [alive EXCEPT ![i] = FALSE]
  /\ inbox' = [inbox EXCEPT ![i] = "none"]
  /\ UNCHANGED <<workers, outbox, ticks, sample>>

(* An attached instance rejects local time control, but not a reset.       *)
DirectReset(i) ==
  /\ "direct" \in Faults
  /\ alive[i]
  /\ ticks' = [ticks EXCEPT ![i] = 0]
  /\ UNCHANGED <<workers, inbox, outbox, alive, sample>>

InstanceStep(i) == InstanceExecutes(i) \/ InstanceCrashes(i)

-----------------------------------------------------------------------------
WorkersTypeOK ==
  /\ queue \in [Instances -> Seq(Ops)]
  /\ \A i \in Instances : Len(queue[i]) <= WorkerQueueCap
  /\ wstate \in [Instances -> {"idle", "waiting", "failing", "closed"}]
  /\ reply \in [Instances -> {"none", "pending", "ok", "err"}]
  /\ inbox \in [Instances -> Ops \cup {"none"}]
  /\ outbox \in [Instances -> {"none", "ok", "err"}]
  /\ alive \in [Instances -> BOOLEAN]
  /\ ticks \in [Instances -> Nat]
  /\ sample \in [Instances -> Nat]

=============================================================================
