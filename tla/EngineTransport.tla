-------------------------- MODULE EngineTransport --------------------------
(***************************************************************************)
(* What the engine promises a controller, abstractly: its status          *)
(* (ECA_ENGINE::status) and the command queue it drains.  The status only *)
(* changes by the command at the head of the queue, by the engine's own   *)
(* progress while running, by update_engine_state, or by the end of exec. *)
(***************************************************************************)
EXTENDS Sequences

CONSTANT Commands   \* commands a controller may submit: [op, arg] records

VARIABLES status, queue

StopCmd == [op |-> "stop", arg |-> 0]

\* A controller appends a command (ECA_ENGINE::command).
Submit ==
  /\ \E c \in Commands \cup {StopCmd} : queue' = Append(queue, c)
  /\ UNCHANGED status

\* exit: the queue is dropped and the engine ends, not ready.
Exit ==
  /\ queue # <<>> /\ Head(queue).op = "exit"
  /\ status # "notready"
  /\ status' = "notready"
  /\ queue' = <<>>

\* Any other command: start makes the engine run, stop stops a running
\* engine, everything else leaves the status as it is.
Interpret ==
  /\ queue # <<>> /\ Head(queue).op # "exit"
  /\ status # "notready"
  /\ queue' = Tail(queue)
  /\ status' = CASE Head(queue).op = "start"                      -> "running"
                 [] Head(queue).op = "stop" /\ status = "running" -> "stopped"
                 [] OTHER                                         -> status

\* A running engine processes, and may finish or fail on its own.
Progress ==
  /\ status = "running"
  /\ status' \in {"finished", "error"}
  /\ UNCHANGED queue

\* Between iterations the engine may declare itself finished, and queues a
\* stop for itself when it is finished or failed.
UpdateState ==
  \/ /\ status \in {"running", "stopped"}
     /\ status' = "finished"
     /\ queue' \in {queue, Append(queue, StopCmd)}
  \/ /\ status \in {"finished", "error"}
     /\ UNCHANGED status
     /\ queue' = Append(queue, StopCmd)

\* A batch run that finished or failed ends exec.
Halt ==
  /\ status \in {"finished", "error"}
  /\ status' = "notready"
  /\ UNCHANGED queue

Init == status = "stopped" /\ queue = <<>>

Next == Submit \/ Exit \/ Interpret \/ Progress \/ UpdateState \/ Halt

Spec == Init /\ [][Next]_<<status, queue>>

=============================================================================
