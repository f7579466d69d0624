----------------------------- MODULE Application -----------------------------
(***************************************************************************)
(* One application id on one daemon: the Application actor, the receiver    *)
(* and sender tasks it spawns, its reader and writer, the registrar, and    *)
(* the DatagramReceiver threads, through the lives of the application: each *)
(* registration makes an Application actor of its own, a life.              *)
(*                                                                         *)
(* What a MessageReceiver or MessageSender does between its start and the   *)
(* moment it reports to the Application is the business of MessageTransfer. *)
(* Here a task runs, may hand a message to the writer, announces its end,   *)
(* and ends.  Channels are not bounded (their capacity is 1000).            *)
(***************************************************************************)
EXTENDS Integers, Sequences, FiniteSets

CONSTANTS
  Incoming,          \* ids of messages whose data datagrams arrive
  Outgoing,          \* ids the Application draws for messages it sends
  MAX_CONNECTIONS,   \* bound on connections accepted
  MAX_ARRIVALS,      \* bound on data datagrams
  None

ASSUME ApplicationAssumption ==
  /\ Incoming \cap Outgoing = {}
  /\ MAX_CONNECTIONS \in Nat /\ MAX_ARRIVALS \in Nat
  /\ None \notin Nat

Lives == 1 .. MAX_CONNECTIONS

VARIABLES
  registry,     \* application_handles: the life registered, or None
  registrar,    \* its mailbox
  reading,      \* the registrar waits for a registration message
  connections,  \* connections accepted so far
  lives,        \* of which the registrar made a life
  app,          \* each Application task: "none", "running", "draining", "ended" or "panicked"
  inbox,        \* its channel
  reader,       \* each ApplicationReader: "none", "reading" or "stopped"
  writer,       \* each ApplicationWriter takes messages
  delivered,    \* delivered_messages
  receivers,    \* keys of message_receiver_handles
  senders,      \* keys of message_sender_handles
  joins,        \* join handles of both kinds: the task of each id, or None
  tasks,        \* every task spawned, in order
  dr,           \* the datagram a DatagramReceiver is about to forward, or None
  arrivals,     \* data datagrams received so far
  handed        \* how often each life's writer was given each message

registrarVars == <<registry, registrar, reading, connections, lives>>
lifeVars  == <<app, inbox, reader, writer>>
tableVars == <<delivered, receivers, senders, joins, tasks>>
netVars   == <<dr, arrivals>>
vars == <<registrarVars, lifeVars, tableVars, netVars, handed>>

Message == [kind : {"Shutdown"}]
             \cup [kind : {"FromDatagramReceiver", "FromMessageReceiver"}, id : Incoming]
             \cup [kind : {"FromApplicationReader", "FromMessageSender"}, id : Outgoing]

Task == [life : Lives, id : Incoming \cup Outgoing,
         state : {"running", "announcing", "ending", "done", "aborted"}]

-----------------------------------------------------------------------------
(* Channels and tasks *)

Open(l) == app[l] = "running"

\* The channel of life l after a send: a closed channel refuses the message, and
\* every sender here ignores the error.
Sent(l, msg) == [inbox EXCEPT ![l] = IF Open(l) THEN Append(@, msg) ELSE @]

Spawned(l, id) == Append(tasks, [life |-> l, id |-> id, state |-> "running"])

\* abort has no effect on a task that has returned.
Aborted(l, id) ==
  LET t == joins[l][id]
  IN  IF t # None /\ tasks[t].state # "done"
      THEN [tasks EXCEPT ![t].state = "aborted"]
      ELSE tasks

-----------------------------------------------------------------------------
(* The registrar *)

\* The listener accepts a connection.
Connect ==
  /\ connections < MAX_CONNECTIONS
  /\ connections' = connections + 1
  /\ registrar' = Append(registrar, "FromApplicationListener")
  /\ UNCHANGED <<registry, reading, lives, lifeVars, tableVars, netVars, handed>>

\* The registrar turns to a new connection and blocks on its first message...
ReadRegistration ==
  /\ ~reading
  /\ registrar # <<>> /\ Head(registrar) = "FromApplicationListener"
  /\ registrar' = Tail(registrar)
  /\ reading' = TRUE
  /\ UNCHANGED <<registry, connections, lives, lifeVars, tableVars, netVars, handed>>

\* Mutation: the id is not looked up first.
CreateAnyway ==
  /\ reading
  /\ dr = None
  /\ reading' = FALSE
  /\ lives' = lives + 1
  /\ registry' = lives'
  /\ app' = [app EXCEPT ![lives'] = "running"]
  /\ reader' = [reader EXCEPT ![lives'] = "reading"]
  /\ writer' = [writer EXCEPT ![lives'] = TRUE]
  /\ UNCHANGED <<registrar, connections, inbox, tableVars, netVars, handed>>

\* Mutation: the handle registered is that of the life before.
CreateWithFormerHandle ==
  /\ reading
  /\ dr = None
  /\ reading' = FALSE
  /\ \/ /\ registry = None
        /\ lives' = lives + 1
        /\ registry' = lives
        /\ app' = [app EXCEPT ![lives'] = "running"]
        /\ reader' = [reader EXCEPT ![lives'] = "reading"]
        /\ writer' = [writer EXCEPT ![lives'] = TRUE]
     \/ /\ registry # None
        /\ UNCHANGED <<registry, lives, app, reader, writer>>
  /\ UNCHANGED <<registrar, connections, inbox, tableVars, netVars, handed>>

\* ...and create_application makes a life, unless the id is registered.
CreateApplication ==
  /\ reading
  /\ dr = None
  /\ reading' = FALSE
  /\ \/ /\ registry = None
        /\ lives' = lives + 1
        /\ registry' = lives'
        /\ app' = [app EXCEPT ![lives'] = "running"]
        /\ reader' = [reader EXCEPT ![lives'] = "reading"]
        /\ writer' = [writer EXCEPT ![lives'] = TRUE]
     \/ /\ registry # None
        /\ UNCHANGED <<registry, lives, app, reader, writer>>
  /\ UNCHANGED <<registrar, connections, inbox, tableVars, netVars, handed>>

\* The message cannot be read, or the stream cannot be split in two: the error is
\* ignored and the connection dropped.
RefuseRegistration ==
  /\ reading
  /\ reading' = FALSE
  /\ UNCHANGED <<registry, registrar, connections, lives, lifeVars, tableVars, netVars, handed>>

\* handle_from_application: unregister the id and abort the Application task.
\* Both create_application and this hold the lock of application_handles, which a
\* DatagramReceiver keeps while it forwards a datagram.
RemoveApplication ==
  /\ ~reading
  /\ dr = None
  /\ registrar # <<>> /\ Head(registrar) = "FromApplication"
  /\ registrar' = Tail(registrar)
  /\ registry' = None
  /\ app' = [l \in Lives |-> IF l = registry THEN "ended" ELSE app[l]]
  /\ UNCHANGED <<reading, connections, lives, inbox, reader, writer, tableVars, netVars, handed>>

-----------------------------------------------------------------------------
(* DatagramReceiver threads *)

\* ApplicationHandle::handle_data_datagram: straight to the receiver of the
\* message if there is one, otherwise to the Application, once the lock of
\* message_receivers is released.
DispatchData(id) ==
  /\ dr = None
  /\ registry # None
  /\ arrivals < MAX_ARRIVALS
  /\ arrivals' = arrivals + 1
  /\ dr' = IF id \in receivers[registry] THEN None ELSE id
  /\ UNCHANGED <<registrarVars, lifeVars, tableVars, handed>>

ForwardData ==
  /\ dr # None
  /\ inbox' = Sent(registry, [kind |-> "FromDatagramReceiver", id |-> dr])
  /\ dr' = None
  /\ UNCHANGED <<registrarVars, app, reader, writer, tableVars, arrivals, handed>>

-----------------------------------------------------------------------------
(* The Application actor *)

\* Mutation: the table of receivers is trusted to have been looked up before.
HandleDataUnchecked(l, id) ==
  /\ IF id \in delivered[l]
     THEN UNCHANGED <<receivers, joins, tasks>>
     ELSE /\ receivers' = [receivers EXCEPT ![l] = @ \cup {id}]
          /\ joins' = [joins EXCEPT ![l][id] = Len(tasks) + 1]
          /\ tasks' = Spawned(l, id)
  /\ UNCHANGED <<registrar, app, reader, writer, delivered, senders>>

\* handle_data_datagram: a delivered message is ignored, a known one goes to its
\* receiver, any other gets one; but see PanicOnData.
HandleData(l, id) ==
  /\ IF id \in delivered[l] \cup receivers[l]
     THEN UNCHANGED <<receivers, joins, tasks>>
     ELSE /\ receivers' = [receivers EXCEPT ![l] = @ \cup {id}]
          /\ joins' = [joins EXCEPT ![l][id] = Len(tasks) + 1]
          /\ tasks' = Spawned(l, id)
  /\ UNCHANGED <<registrar, app, reader, writer, delivered, senders>>

HandleSubmit(l, id) ==
  /\ IF id \in senders[l]
     THEN UNCHANGED <<senders, joins, tasks>>
     ELSE /\ senders' = [senders EXCEPT ![l] = @ \cup {id}]
          /\ joins' = [joins EXCEPT ![l][id] = Len(tasks) + 1]
          /\ tasks' = Spawned(l, id)
  /\ UNCHANGED <<registrar, app, reader, writer, delivered, receivers>>

\* Mutation: the message is not remembered as delivered.
HandleFromReceiverForget(l, id) ==
  /\ receivers' = [receivers EXCEPT ![l] = @ \ {id}]
  /\ tasks' = Aborted(l, id)
  /\ joins' = [joins EXCEPT ![l][id] = None]
  /\ UNCHANGED <<registrar, app, reader, writer, delivered, senders>>

\* Mutation: the handle stays in the table.
HandleFromReceiverKeep(l, id) ==
  /\ delivered' = [delivered EXCEPT ![l] = @ \cup {id}]
  /\ tasks' = Aborted(l, id)
  /\ UNCHANGED <<registrar, app, reader, writer, receivers, senders, joins>>

HandleFromReceiver(l, id) ==
  /\ delivered' = [delivered EXCEPT ![l] = @ \cup {id}]
  /\ receivers' = [receivers EXCEPT ![l] = @ \ {id}]
  /\ tasks' = Aborted(l, id)
  /\ joins' = [joins EXCEPT ![l][id] = None]
  /\ UNCHANGED <<registrar, app, reader, writer, senders>>

HandleFromSender(l, id) ==
  /\ senders' = [senders EXCEPT ![l] = @ \ {id}]
  /\ tasks' = Aborted(l, id)
  /\ joins' = [joins EXCEPT ![l][id] = None]
  /\ UNCHANGED <<registrar, app, reader, writer, delivered, receivers>>

\* Mutation: the registrar is not told.
HandleShutdownSilently(l) ==
  /\ app' = [app EXCEPT ![l] = "draining"]
  /\ receivers' = [receivers EXCEPT ![l] = {}]
  /\ senders' = [senders EXCEPT ![l] = {}]
  /\ writer' = [writer EXCEPT ![l] = FALSE]
  /\ reader' = [reader EXCEPT ![l] = "stopped"]
  /\ UNCHANGED <<registrar, delivered, joins, tasks>>

\* handle_shutdown.  Its two maps over the join handles are lazy and never run, so
\* no receiver or sender task is aborted.
HandleShutdown(l) ==
  /\ app' = [app EXCEPT ![l] = "draining"]
  /\ receivers' = [receivers EXCEPT ![l] = {}]
  /\ senders' = [senders EXCEPT ![l] = {}]
  /\ writer' = [writer EXCEPT ![l] = FALSE]
  /\ reader' = [reader EXCEPT ![l] = "stopped"]
  /\ registrar' = Append(registrar, "FromApplication")
  /\ UNCHANGED <<delivered, joins, tasks>>

\* run_application: what is in a closed channel is still received.
HandleMessage(l) ==
  /\ app[l] \in {"running", "draining"}
  /\ inbox[l] # <<>>
  /\ inbox' = [inbox EXCEPT ![l] = Tail(@)]
  /\ LET msg == Head(inbox[l]) IN
       \/ msg.kind = "FromDatagramReceiver"  /\ HandleData(l, msg.id)
       \/ msg.kind = "FromApplicationReader" /\ HandleSubmit(l, msg.id)
       \/ msg.kind = "FromMessageReceiver"   /\ HandleFromReceiver(l, msg.id)
       \/ msg.kind = "FromMessageSender"     /\ HandleFromSender(l, msg.id)
       \/ msg.kind = "Shutdown"              /\ HandleShutdown(l)
  /\ UNCHANGED <<registry, reading, connections, lives, netVars, handed>>

\* MessageReceiverHandle::new runs in the Application task, and unwraps the slot of
\* the first datagram that arrived: one past the end of the vector (a damaged one,
\* or from a daemon with another -d) panics the Application.  Its channel is gone,
\* its tables and tasks remain, and the registrar is not told.
PanicOnData(l) ==
  /\ app[l] \in {"running", "draining"}
  /\ inbox[l] # <<>> /\ Head(inbox[l]).kind = "FromDatagramReceiver"
  /\ Head(inbox[l]).id \notin delivered[l] \cup receivers[l]
  /\ inbox' = [inbox EXCEPT ![l] = <<>>]
  /\ app' = [app EXCEPT ![l] = IF @ = "running" THEN "panicked" ELSE "ended"]
  /\ UNCHANGED <<registrarVars, reader, writer, tableVars, netVars, handed>>

\* Mutation: the registrar is told once more when the task returns.
EndApplicationTelling(l) ==
  /\ app[l] = "draining"
  /\ inbox[l] = <<>>
  /\ app' = [app EXCEPT ![l] = "ended"]
  /\ registrar' = Append(registrar, "FromApplication")
  /\ UNCHANGED <<registry, reading, connections, lives, inbox, reader, writer, tableVars,
                 netVars, handed>>

\* recv returns None on a closed and empty channel.
EndApplication(l) ==
  /\ app[l] = "draining"
  /\ inbox[l] = <<>>
  /\ app' = [app EXCEPT ![l] = "ended"]
  /\ UNCHANGED <<registrarVars, inbox, reader, writer, tableVars, netVars, handed>>

-----------------------------------------------------------------------------
(* Reader, writer and tasks *)

\* The application submits a message, for which the Application draws an id.
Submit(l, id) ==
  /\ reader[l] = "reading"
  /\ \A t \in DOMAIN tasks : tasks[t].id # id
  /\ \A k \in Lives : \A i \in 1 .. Len(inbox[k]) :
       inbox[k][i] # [kind |-> "FromApplicationReader", id |-> id]
  /\ inbox' = Sent(l, [kind |-> "FromApplicationReader", id |-> id])
  /\ UNCHANGED <<registrarVars, app, reader, writer, tableVars, netVars, handed>>

\* The stream ends or fails: run_application_reader reports Shutdown, once.
StopReading(l) ==
  /\ reader[l] = "reading"
  /\ reader' = [reader EXCEPT ![l] = "stopped"]
  /\ inbox' = Sent(l, [kind |-> "Shutdown"])
  /\ UNCHANGED <<registrarVars, app, writer, tableVars, netVars, handed>>

\* A write to the stream fails: run_application_writer returns.
StopWriting(l) ==
  /\ writer[l]
  /\ writer' = [writer EXCEPT ![l] = FALSE]
  /\ UNCHANGED <<registrarVars, app, inbox, reader, tableVars, netVars, handed>>

Become(t, state) == tasks' = [tasks EXCEPT ![t].state = state]

\* MessageReceiver::complete hands the message to the writer.
HandOver(t) ==
  /\ tasks[t].state = "running"
  /\ tasks[t].id \in Incoming
  /\ Become(t, "announcing")
  /\ handed' = IF writer[tasks[t].life]
               THEN [handed EXCEPT ![tasks[t].life][tasks[t].id] = @ + 1]
               ELSE handed
  /\ UNCHANGED <<registrarVars, lifeVars, delivered, receivers, senders, joins, netVars>>

\* MessageReceiver::exit, or the end of a MessageSender: nothing is handed over.
Exit(t) ==
  /\ tasks[t].state = "running"
  /\ Become(t, "announcing")
  /\ UNCHANGED <<registrarVars, lifeVars, delivered, receivers, senders, joins,
                 netVars, handed>>

Announce(t) ==
  /\ tasks[t].state = "announcing"
  /\ Become(t, "ending")
  /\ inbox' = Sent(tasks[t].life,
                   [kind |-> IF tasks[t].id \in Incoming
                             THEN "FromMessageReceiver" ELSE "FromMessageSender",
                    id |-> tasks[t].id])
  /\ UNCHANGED <<registrarVars, app, reader, writer, delivered, receivers, senders,
                 joins, netVars, handed>>

\* The final grant of a receiver, and the return of either task.
End(t) ==
  /\ tasks[t].state = "ending"
  /\ Become(t, "done")
  /\ UNCHANGED <<registrarVars, lifeVars, delivered, receivers, senders, joins,
                 netVars, handed>>

-----------------------------------------------------------------------------
Init ==
  /\ registry = None
  /\ registrar = <<>>
  /\ reading = FALSE
  /\ connections = 0
  /\ lives = 0
  /\ app = [l \in Lives |-> "none"]
  /\ inbox = [l \in Lives |-> <<>>]
  /\ reader = [l \in Lives |-> "none"]
  /\ writer = [l \in Lives |-> FALSE]
  /\ delivered = [l \in Lives |-> {}]
  /\ receivers = [l \in Lives |-> {}]
  /\ senders = [l \in Lives |-> {}]
  /\ joins = [l \in Lives |-> [id \in Incoming \cup Outgoing |-> None]]
  /\ tasks = <<>>
  /\ dr = None
  /\ arrivals = 0
  /\ handed = [l \in Lives |-> [id \in Incoming |-> 0]]

RegistrarStep ==
  ReadRegistration \/ CreateApplication \/ RefuseRegistration \/ RemoveApplication

LifeStep(l) == HandleMessage(l) \/ PanicOnData(l) \/ EndApplication(l)

TaskStep(t) == HandOver(t) \/ Exit(t) \/ Announce(t) \/ End(t)

Next ==
  \/ Connect
  \/ RegistrarStep
  \/ ForwardData
  \/ \E id \in Incoming : DispatchData(id)
  \/ \E l \in Lives :
       \/ LifeStep(l)
       \/ StopReading(l)
       \/ StopWriting(l)
       \/ \E id \in Outgoing : Submit(l, id)
  \/ \E t \in DOMAIN tasks : TaskStep(t)

Spec == Init /\ [][Next]_vars

\* Every actor keeps receiving.  The registrar competes with the DatagramReceiver
\* threads for the lock of application_handles and gets it at times; and a client
\* that connects sends its registration message, which the registrar reads with a
\* blocking call.
Fairness ==
  /\ SF_vars(RegistrarStep)
  /\ WF_vars(ForwardData)
  /\ \A l \in Lives : WF_vars(LifeStep(l))

FairSpec == Spec /\ Fairness

-----------------------------------------------------------------------------
(* Properties *)

TypeOK ==
  /\ registry \in Lives \cup {None}
  /\ registrar \in Seq({"FromApplicationListener", "FromApplication"})
  /\ reading \in BOOLEAN
  /\ connections \in 0 .. MAX_CONNECTIONS
  /\ lives \in 0 .. connections
  /\ app \in [Lives -> {"none", "running", "draining", "ended", "panicked"}]
  /\ inbox \in [Lives -> Seq(Message)]
  /\ reader \in [Lives -> {"none", "reading", "stopped"}]
  /\ writer \in [Lives -> BOOLEAN]
  /\ delivered \in [Lives -> SUBSET Incoming]
  /\ receivers \in [Lives -> SUBSET Incoming]
  /\ senders \in [Lives -> SUBSET Outgoing]
  /\ joins \in [Lives -> [Incoming \cup Outgoing -> DOMAIN tasks \cup {None}]]
  /\ tasks \in Seq(Task)
  /\ dr \in Incoming \cup {None}
  /\ arrivals \in 0 .. MAX_ARRIVALS
  /\ handed \in [Lives -> [Incoming -> Nat]]

\* A life that was never told to shut down: it runs, or has panicked.
Unstopped(l) == app[l] \in {"running", "panicked"}

\* The lookup of a DatagramReceiver and what the Application does with the
\* datagram are two steps, and a message may be delivered between them: still an
\* Application that is not shutting down makes one receiver for a message, ever.
OneReceiver ==
  \A l \in Lives : Unstopped(l) =>
    \A t, u \in DOMAIN tasks :
      /\ tasks[t].life = l /\ tasks[u].life = l
      /\ tasks[t].id = tasks[u].id
      => t = u

\* A registered application is given a message at most once per life, whatever
\* copies of its datagrams arrive, and whatever is left in a closed channel.
HandedOnce ==
  \A l \in Lives : \A id \in Incoming : handed[l][id] <= 1

\* A handle in the tables leads to a task that still runs, or its removal is on
\* the way: datagrams are not sent for ever to a channel nobody reads.
NoDeadHandle ==
  \A l \in Lives : app[l] = "running" =>
    \A id \in receivers[l] \cup senders[l] :
      \/ tasks[joins[l][id]].state \in {"running", "announcing"}
      \/ \E i \in 1 .. Len(inbox[l]) :
           inbox[l][i] \in {[kind |-> "FromMessageReceiver", id |-> id],
                            [kind |-> "FromMessageSender", id |-> id]}

\* At most one life has not shut down, and it is the registered one: a panic keeps
\* the id for ever, so no life comes after it.
OneLife ==
  \A l \in Lives : Unstopped(l) => registry = l

\* An application that has not shut down itself is not aborted: the abort in
\* handle_from_application, which knows the id alone, never hits the successor of
\* the life that stopped.
AbortedAfterShutdown ==
  [][\A l \in Lives : app[l] = "running" => app'[l] # "ended"]_vars

\* An Application that is not shutting down aborts a task only after the task has
\* announced its end, so an abort never costs a message.
AbortAfterAnnounce ==
  [][\A t \in DOMAIN tasks :
       app[tasks[t].life] = "running" /\ tasks'[t].state = "aborted"
         => tasks[t].state \in {"ending", "aborted"}]_vars

\* Once its reader stops, an application gives up its id, so that it can register
\* again; unless its Application task has panicked, or still does.
IdReleased ==
  \A l \in Lives : reader[l] = "stopped" ~> (registry # l \/ app[l] = "panicked")

\* Shutting down aborts all connected actors (the comment of handle_shutdown).
ShutdownAbortsTasks ==
  \A l \in Lives : app[l] \in {"draining", "ended"} =>
    \A t \in DOMAIN tasks : tasks[t].life = l => tasks[t].state # "running"

\* A task is aborted at the shutdown of its application or when it has completed
\* (the comment of the join handles).
AbortedWhenComplete ==
  [][\A t \in DOMAIN tasks :
       tasks[t].state # "aborted" /\ tasks'[t].state = "aborted" =>
         \/ tasks[t].state = "ending"
         \/ app[tasks[t].life] = "running" /\ app'[tasks[t].life] = "draining"]_vars

=============================================================================
