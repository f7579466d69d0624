------------------------------- MODULE Daemon -------------------------------
(***************************************************************************)
(* The receiver tasks an Application spawns, at work with the               *)
(* PriorityManager of the daemon: Application and PriorityManager composed. *)
(*                                                                         *)
(* A task of Application is a receiver of PriorityManager while it runs.    *)
(* One that needs no scheduled datagrams, or gives up on the unscheduled    *)
(* ones, ends without asking for a level; any other ends when it has        *)
(* unregistered, or by a panic: a request without an answer, or a send that *)
(* failed.  The Application is not told of a panic.                         *)
(***************************************************************************)
EXTENDS Application

CONSTANTS
  LEVELS,           \* CONST::SCHEDULED_PRIORITY_LEVELS
  MAX_REMAINING     \* bound on what remains of a message

VARIABLES pc, remaining, mailbox, queue, wakers, levels

managerVars == <<pc, remaining, mailbox, queue, wakers, levels>>
daemonVars  == <<vars, managerVars>>

\* Every datagram that arrives makes at most one task.
TaskNumbers == 1 .. MAX_ARRIVALS

\* The receivers of PriorityManager: a message id and the number of its task.
Receivers == Incoming \X TaskNumbers

ASSUME DaemonAssumption ==
  /\ LEVELS \in Nat \ {0}
  /\ MAX_REMAINING \in Nat \ {0}
  /\ None \notin Receivers

PM == INSTANCE PriorityManager WITH
  Ids       <- Incoming,
  MessageId <- [r \in Receivers |-> r[1]],
  senders   <- wakers

\* Only receivers use the PriorityManager.
Running(t) ==
  /\ t \in DOMAIN tasks
  /\ tasks[t].id \in Incoming
  /\ tasks[t].state = "running"

ReceiverOf(t) == <<tasks[t].id, t>>

-----------------------------------------------------------------------------
(* A receiver task between its start and its end *)

\* receive_scheduled_datagrams asks the PriorityManager.
Ask(t) ==
  /\ Running(t)
  /\ \/ PM!AskFirst(ReceiverOf(t))
     \/ \E n \in 1 .. MAX_REMAINING :
          PM!Register(ReceiverOf(t), n) \/ PM!AskNext(ReceiverOf(t), n)
  /\ UNCHANGED vars

Unregister(t) ==
  /\ Running(t)
  /\ PM!Unregister(ReceiverOf(t))
  /\ UNCHANGED vars

\* The PriorityManager handles a request; a task it leaves without an answer
\* panics.
Manage ==
  /\ PM!Handle
  /\ tasks' = [t \in DOMAIN tasks |->
                 IF Running(t) /\ pc'[ReceiverOf(t)] = "panicked"
                 THEN [tasks[t] EXCEPT !.state = "done"] ELSE tasks[t]]
  /\ UNCHANGED <<registrarVars, lifeVars, delivered, receivers, senders, joins, netVars, handed>>

\* The DatagramSender cannot send a resend or a grant: expect panics the task, which
\* neither unregisters nor reports.
FailToSend(t) ==
  /\ Running(t)
  /\ pc[ReceiverOf(t)] \in {"idle", "granted"}
  /\ Become(t, "done")
  /\ UNCHANGED <<registrarVars, lifeVars, delivered, receivers, senders, joins, netVars, handed,
                 managerVars>>

\* complete and exit come before the scheduled part or after it.
Finish(t) ==
  /\ t \in DOMAIN tasks
  /\ pc[ReceiverOf(t)] \in {"idle", "finished"}
  /\ HandOver(t) \/ Exit(t)
  /\ UNCHANGED managerVars

Close(t) ==
  /\ t \in DOMAIN tasks
  /\ Announce(t) \/ End(t)
  /\ UNCHANGED managerVars

TaskNext(t) == Ask(t) \/ Unregister(t) \/ FailToSend(t) \/ Finish(t) \/ Close(t)

-----------------------------------------------------------------------------
(* The rest of the daemon *)

ApplicationNext ==
  /\ \/ Connect
     \/ RegistrarStep
     \/ ForwardData
     \/ \E id \in Incoming : DispatchData(id)
     \/ \E l \in Lives : LifeStep(l) \/ StopReading(l) \/ StopWriting(l)
  /\ UNCHANGED managerVars

DaemonInit == Init /\ PM!Init

DaemonNext == ApplicationNext \/ Manage \/ \E t \in TaskNumbers : TaskNext(t)

DaemonSpec == DaemonInit /\ [][DaemonNext]_daemonVars

\* A task that waits for nobody goes on: it asks once it is woken, and ends.
GoOn(t) ==
  \/ Ask(t) /\ pc[ReceiverOf(t)] = "activated"
  \/ Finish(t)
  \/ Close(t)

\* Tasks and the PriorityManager keep running.  The loop of a receiver is bounded
\* (Terminates in MessageTransfer), so one that is granted again and again
\* unregisters at last.  Nothing is assumed of the Application.
DaemonFairness ==
  /\ WF_daemonVars(Manage)
  /\ \A t \in TaskNumbers : WF_daemonVars(GoOn(t)) /\ SF_daemonVars(Unregister(t))

FairDaemonSpec == DaemonSpec /\ DaemonFairness

-----------------------------------------------------------------------------
(* Properties *)

\* Task t holds level i, as the PriorityManager sees it.
Holds(t, i) ==
  /\ levels[i] # PM!Empty /\ levels[i][1] = tasks[t].id
  /\ pc[ReceiverOf(t)] \in {"activated", "asking", "granted"}

Returning(t, i) ==
  /\ levels[i] # PM!Empty /\ levels[i][1] = tasks[t].id
  /\ \E k \in 1 .. Len(mailbox) :
       mailbox[k].kind = "Unregister" /\ mailbox[k].receiver = ReceiverOf(t)

\* A level is lost for the life of the daemon when the task that holds it is gone:
\* by a failed send, or by an abort of an Application that was shut down.
Lost(t, i) ==
  /\ Holds(t, i)
  /\ \/ tasks[t].state = "done"
     \/ tasks[t].state = "aborted" /\ app[tasks[t].life] # "running"

AnyLost == \E t \in DOMAIN tasks : \E i \in PM!Level : Lost(t, i)

\* An occupied level has a running task that will give it back, or its return is
\* on the way.  There are two exceptions only: a failed send; and an Application
\* that drains its channel after shutdown, which may make a second receiver of a
\* message and abort it when the first one reports.
LevelsReturned ==
  \A i \in PM!Level : levels[i] # PM!Empty =>
    \E t \in DOMAIN tasks : (Running(t) /\ Holds(t, i)) \/ Returning(t, i) \/ Lost(t, i)

\* No message has had two receivers in this daemon, not even in two lives.
ReceivedOnce ==
  \A t, u \in DOMAIN tasks :
    tasks[t].id \in Incoming /\ tasks[t].id = tasks[u].id => t = u

\* The queue keeps the entry of a registration whose sender another receiver of
\* the message has replaced.  Popped, it finds no sender: the level stays empty
\* though messages wait, and nobody looks at the queue again before the next
\* request.
Stalled == ~PM!WorkConserving /\ ~ReceivedOnce

\* When no more datagrams arrive, every receiver task ends and every level is free
\* again, though the application stops in between; unless a level was lost, or two
\* receivers of one message have left one idle.
Quiesces ==
  \/ <>(AnyLost \/ Stalled)
  \/ <>[](/\ \A t \in DOMAIN tasks : tasks[t].state \in {"done", "aborted"}
          /\ \A i \in PM!Level : levels[i] = PM!Empty)

\* A task that registered gets its level in the end, whichever Application made
\* those before it; unless it is aborted, a level was lost, or two receivers of one
\* message have left a level idle while it waits.
Served ==
  \A t \in TaskNumbers :
    (Running(t) /\ pc[ReceiverOf(t)] = "registering")
      ~> (~Running(t) \/ pc[ReceiverOf(t)] = "granted" \/ AnyLost \/ Stalled)

\* Every request for a priority is answered, although a receiver of a former life
\* may still run (the unwrap in get_scheduled_priority).
AlwaysAnswered == PM!AlwaysAnswered

\* No task was made by an Application that has shut down.
NoFormerLife == \A t \in DOMAIN tasks : Unstopped(tasks[t].life)

\* As long as every receiver is one of an application that has not shut down, none
\* asks in vain: a receiver is woken only with a level, and keeps it.
AnsweredWhileRunning == NoFormerLife => AlwaysAnswered

=============================================================================
