-------------------------- MODULE RequestTransport --------------------------
(***************************************************************************)
(* How a request reaches a daemon (runtime/src/connection.rs, and the      *)
(* connections of daemon/server.rs): every attempt is a connection of its  *)
(* own with the same request, and an attempt that times out, or finds no   *)
(* daemon, is made again.  The daemon does not know that two requests are  *)
(* one, and carries out also those whose client has gone.                  *)
(*                                                                         *)
(* Two kinds of request are told apart: one that can be carried out any    *)
(* number of times, such as a TimeStep, and one that is refused the second *)
(* time, such as a SharedAttach.                                           *)
(***************************************************************************)
EXTENDS Naturals, Sequences, FiniteSets

CONSTANTS
  Clients,
  OnceOnly,     (* the clients whose request is refused the second time    *)
  MaxAttempts,  (* max_attempts (3)                                        *)
  Faults        (* "readTimeout", "connectTimeout", "down" (the daemon     *)
                (* dies)                                                   *)

TransportAssumption ==
  /\ OnceOnly \subseteq Clients
  /\ MaxAttempts \in Nat \ {0}
  /\ Faults \subseteq {"readTimeout", "connectTimeout", "down"}

VARIABLES
  pc,       (* per client: "prepare", "connect", "read", "failed" (this    *)
            (* attempt), "ok", "refused", "error"                          *)
  failure,  (* how the last attempt failed                                 *)
  attempt,  (* attempts that have failed                                   *)
  wire,     (* requests written to a connection, not yet taken from it     *)
  queue,    (* the daemon's channel                                        *)
  reply,    (* per client and attempt, the answer on its connection        *)
  done,     (* how often each client's request was carried out             *)
  up,       (* the daemon runs                                             *)
  timedOut  (* history: the client gave up waiting for an answer           *)

vars == <<pc, failure, attempt, wire, queue, reply, done, up, timedOut>>

Attempts == 0 .. MaxAttempts - 1
Failures == {"none", "timeout", "refused", "reset", "eof"}
Retryable == {"timeout", "refused", "reset"}

Init ==
  /\ pc = [c \in Clients |-> "prepare"]
  /\ failure = [c \in Clients |-> "none"]
  /\ attempt = [c \in Clients |-> 0]
  /\ wire = {} /\ queue = <<>>
  /\ reply = [c \in Clients |-> [n \in Attempts |-> "none"]]
  /\ done = [c \in Clients |-> 0]
  /\ up = TRUE
  /\ timedOut = [c \in Clients |-> FALSE]

-----------------------------------------------------------------------------
(* A client.                                                               *)

Goto(c, place) == pc' = [pc EXCEPT ![c] = place]
Fails(c, why) == Goto(c, "failed") /\ failure' = [failure EXCEPT ![c] = why]

(* ensure_daemon_running.                                                  *)
Prepare(c) ==
  /\ pc[c] = "prepare"
  /\ Goto(c, IF up THEN "connect" ELSE "error")
  /\ UNCHANGED <<failure, attempt, wire, queue, reply, done, up, timedOut>>

(* A connection is made and the request written to it.                     *)
Connect(c) ==
  /\ pc[c] = "connect"
  /\ \/ /\ up
        /\ wire' = wire \cup {<<c, attempt[c]>>}
        /\ Goto(c, "read") /\ UNCHANGED failure
     \/ ~up /\ Fails(c, "refused") /\ UNCHANGED wire
     \/ "connectTimeout" \in Faults /\ Fails(c, "timeout") /\ UNCHANGED wire
  /\ UNCHANGED <<attempt, queue, reply, done, up, timedOut>>

ReadReply(c) ==
  /\ pc[c] = "read"
  /\ reply[c][attempt[c]] # "none"
  /\ Goto(c, reply[c][attempt[c]])
  /\ UNCHANGED <<failure, attempt, wire, queue, reply, done, up, timedOut>>

(* The read timeout of thirty seconds.                                     *)
ReadTimesOut(c) ==
  /\ pc[c] = "read"
  /\ "readTimeout" \in Faults
  /\ Fails(c, "timeout")
  /\ timedOut' = [timedOut EXCEPT ![c] = TRUE]
  /\ UNCHANGED <<attempt, wire, queue, reply, done, up>>

(* A daemon that dies closes the connection, or resets it.                 *)
ReadBreaks(c) ==
  /\ pc[c] = "read"
  /\ ~up
  /\ reply[c][attempt[c]] = "none"
  /\ Fails(c, "eof") \/ Fails(c, "reset")
  /\ UNCHANGED <<attempt, wire, queue, reply, done, up, timedOut>>

(* should_retry, and the pause before the next attempt.                    *)
Retry(c) ==
  /\ pc[c] = "failed"
  /\ IF attempt[c] + 1 >= MaxAttempts \/ failure[c] \notin Retryable
     THEN Goto(c, "error") /\ UNCHANGED attempt
     ELSE Goto(c, "connect") /\ attempt' = [attempt EXCEPT ![c] = @ + 1]
  /\ UNCHANGED <<failure, wire, queue, reply, done, up, timedOut>>

ClientStep(c) ==
  \/ Prepare(c) \/ Connect(c) \/ ReadReply(c) \/ ReadTimesOut(c)
  \/ ReadBreaks(c) \/ Retry(c)

-----------------------------------------------------------------------------
(* The daemon: a connection's task queues what it reads; the actor carries *)
(* it out and hands the answer to the connection, if it is still there.    *)

(* Mutant: a request is acknowledged as soon as it is queued.              *)
EnqueueAcknowledged ==
  /\ up
  /\ \E m \in wire : /\ wire' = wire \ {m} /\ queue' = Append(queue, m)
                     /\ reply' = [reply EXCEPT ![m[1]][m[2]] = "ok"]
  /\ UNCHANGED <<pc, failure, attempt, done, up, timedOut>>

Enqueue ==
  /\ up
  /\ \E m \in wire : wire' = wire \ {m} /\ queue' = Append(queue, m)
  /\ UNCHANGED <<pc, failure, attempt, reply, done, up, timedOut>>

CarryOut ==
  /\ up
  /\ queue # <<>>
  /\ LET c == Head(queue)[1]
         refuse == c \in OnceOnly /\ done[c] > 0
     IN  /\ done' = IF refuse THEN done ELSE [done EXCEPT ![c] = @ + 1]
         /\ reply' = [reply EXCEPT ![c][Head(queue)[2]] = IF refuse THEN "refused" ELSE "ok"]
  /\ queue' = Tail(queue)
  /\ UNCHANGED <<pc, failure, attempt, wire, up, timedOut>>

DaemonDies ==
  /\ "down" \in Faults /\ up
  /\ up' = FALSE
  /\ wire' = {} /\ queue' = <<>>
  /\ UNCHANGED <<pc, failure, attempt, reply, done, timedOut>>

(* Every request returns, whatever becomes of the daemon.                  *)
AllReturned == \A c \in Clients : pc[c] \in {"ok", "refused", "error"}

Next ==
  \/ \E c \in Clients : ClientStep(c)
  \/ Enqueue \/ CarryOut \/ DaemonDies
  \/ (AllReturned /\ (wire = {} /\ queue = <<>>) /\ UNCHANGED vars)

(* Processes are scheduled; a timeout need not happen.                     *)
Spec ==
  /\ Init /\ [][Next]_vars
  /\ \A c \in Clients : WF_vars(ClientStep(c))
  /\ WF_vars(Enqueue) /\ WF_vars(CarryOut)

-----------------------------------------------------------------------------
TypeOK ==
  /\ pc \in [Clients -> {"prepare", "connect", "read", "failed", "ok", "refused", "error"}]
  /\ failure \in [Clients -> Failures]
  /\ attempt \in [Clients -> Attempts]
  /\ wire \subseteq Clients \X Attempts
  /\ queue \in Seq(Clients \X Attempts)
  /\ reply \in [Clients -> [Attempts -> {"none", "ok", "refused"}]]
  /\ done \in [Clients -> Nat]
  /\ up \in BOOLEAN /\ timedOut \in [Clients -> BOOLEAN]

(* A request is carried out more than once only if its client gave up      *)
(* waiting for an answer, and never more often than attempts were made.    *)
RepeatedOnlyAfterTimeout ==
  \A c \in Clients : /\ done[c] <= attempt[c] + 1
                     /\ done[c] > 1 => timedOut[c]

(* A request that is reported to be carried out was.                       *)
OkMeansDone == \A c \in Clients : pc[c] = "ok" => done[c] > 0

(* A client is told that its request is refused only if it was the client  *)
(* itself that had made it before and gave up waiting.                     *)
RefusedOnlyAfterTimeout ==
  \A c \in Clients : pc[c] = "refused" => done[c] = 1 /\ timedOut[c]


=============================================================================
