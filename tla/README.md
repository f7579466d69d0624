# A TLA+ model of homad

homad is a daemon for the Homa transport protocol. Applications connect to it
over a UNIX socket, register an application id, and exchange whole messages; the
daemons exchange datagrams over raw IP. Inside, it is a set of actors: tokio
tasks and threads that own their state and talk through mpsc channels.

## The system

| component (under `src/src/`) | state | operations | talks to |
|---|---|---|---|
| ApplicationListener | the listening socket | accept | Registrar |
| ApplicationRegistrar | `application_handles` (shared, locked), join handles | register an application, remove it | starts Application |
| Application | tables of receiver and sender handles (shared, locked), their join handles, `delivered_messages` | dispatch a datagram, start a MessageSender or MessageReceiver, remove it, shut down | all its tasks, Registrar |
| ApplicationReader, ApplicationWriter | a half of the stream | read or write messages | Application / receivers |
| MessageSender | the split message, a resend counter | push unscheduled datagrams, obey grants and resends | PriorityManager, WorkloadManager, network, Application |
| MessageReceiver | the vector of datagrams, counts of datagrams and bytes, a resend counter | collect, ask for resends, grant, deliver or exit | PriorityManager, WorkloadManager, network, Writer, Application |
| PriorityManager | queue of waiting messages, oneshot senders, the two scheduled levels, partitions per host | register, get, unregister; unscheduled get and put | wakes receivers |
| WorkloadManager (with `utils.rs`) | sorted message lengths, their quantiles | get, update | |
| DatagramReceiver (3 threads) | a shared socket behind a lock | check a datagram, find its application, forward it | Application or its tasks |
| DatagramSender | thirty raw sockets behind locks | send | network |
| Datagram and message models, registration codec | none | split, checksum, encode, decode | |

A message goes: reader → Application → MessageSender → network →
DatagramReceiver → Application (first datagram) or MessageReceiver (later ones)
→ writer. Grants and resends go back through DatagramReceiver to the
MessageSender.

What is hard in it, and what makes it correct:

* **Transfer** (sender, receiver, network): datagrams are lost, duplicated and
  reordered, timers race late answers, and a grant names the *number* of
  datagrams collected as if it were the first one missing. It is correct if
  that number is always the right index, nothing is counted twice, what is
  delivered is the whole message, a sender that is told so is told the truth, and
  both tasks end.
* **Levels** (PriorityManager and receivers): many receivers, two levels, requests
  that wait in a mailbox, wakeups by oneshot channels. It is correct if a receiver
  that holds a level is always answered, no level leaks or idles, no wakeup is
  lost, the levels follow what remains, and everyone gets a turn.
* **Unscheduled priorities** (WorkloadManagers, PriorityManagers and the datagrams
  between them): workloads that arrive late or twice, cuts computed in `f32` and
  truncated, two lookups that should agree. It is correct if the samples stay in
  order, a host stores of another what that one sent, the cuts share out the
  samples as they should, and a longer message never goes first.
* **Lives** (Application, registrar, DatagramReceiver, tasks): tables looked up by
  one actor and acted on by another, aborts by join handle, shutdown with messages
  still in the channel, and a new registration of the same id. It is correct if a
  message is received once per life, aborts hit only tasks that are done, an id
  has one life at a time and is released at its end.
* **Lives and levels together**: the receivers of one life, or of two, hold levels
  of a PriorityManager that knows nothing of lives. It is correct if each level
  comes back whatever happens to the Application.

`PROJECT.json` lists each hazard with the line where it bites and the properties
that watch it.

## Modules

**`MessageDelivery`** is what one transfer promises, without datagrams: the
receiving end settles once (delivered or failed), the sending end settles once
(confirmed or gave up), and it is confirmed only after a delivery.

**`MessageTransfer`** is `message_sender.rs` and `message_receiver.rs` for one
message, and implements `MessageDelivery` (`ImplementsDelivery`). `sPhase` and
`rPhase` say at which `select!` or call the two tasks stand; `datagrams`,
`collected_datagrams` and `collected_bytes` are the receiver's fields (of the
vector, the filled indices); `net` is the set of datagrams that may still be
received, the tasks' channels included. A datagram is its kind and sequence
number. Each arm of each `select!` is an action, together with the calls it makes:
a data datagram in the scheduled loop, for example, is `AddScheduled`: add the
datagram, check for the end, and send the next grant. The abort of a receiver
that has reported, but not yet sent its final grant, is `AbortReceiver`; its message
is delivered, but nobody will confirm it (`rPhase = "aborted"`). The two
daemons' options are separate constants, because they are separate command lines.

`Next` is the worst network (loss, duplication, reordering, early timers).
`FairNext` drops duplication, and `QuietNext` drops loss as well; they are
subsets of `Next` made for the liveness properties. `QuietNext` keeps the abort that
beats the final grant, which needs no network, and lets the sender of that message
give up (`Forsaken`).

**`MCTransfer`** instantiates it for messages of every shape at once: a scenario,
chosen in `Init`, gives the length, the limit and the network.

**`TransferRetries`** adds to it the count that the header of
`message_receiver.rs` speaks of, the duplicate grants for the datagram that is
missing *now*.

**`PriorityManager`** is the scheduled half of `priority_manager.rs` with its
clients. `queue`, `senders` and `levels` are the actor's fields; `mailbox` is its
channel; `pc` and `remaining` are where each receiver stands in
`receive_scheduled_datagrams`. Each request is two steps, sending and handling,
so that anything may come between. `Pops` allows every order the heap may give to
ties; `SortPriorityLevels` is a stable sort by the `Ord` of the code.
`MessageId` gives each receiver the id it registers under. `MCPriority` holds the
instance TLC uses.

**`UnscheduledPriorities`** is `workload_manager.rs`, `quantile` of
`utils.rs`, and the unscheduled half of `priority_manager.rs`, on several hosts
that exchange their workloads. The two halves of the PriorityManager share no
state but the mailbox. `Quantiles` is the set of values that `quantile` may return:
the code computes position, weights and products in `f32` and truncates each
product, so a cut may lie a little to either side of the exact interpolation
(`Interpolation`). The set allows for a position one LEVELS-th of a sample off, for
products less than one off, and for the truncation of both. That covers the errors
of `f32` for fewer than 2^19 samples of less than 2^23 bytes (`WorkloadAssumption`),
which was derived from the rounding of each operation and tried on 400,000 random
inputs of the function in `f32`; with 491,528 samples, for instance, the position is
a third of a LEVELS-th off. A workload, once obtained, may be put at any time and any
number of times: that is the network. `MCUnscheduled` adds the symmetry of hosts.

**`Application`** is one application id through its lives, each the Application
actor of one registration: `application.rs`, `application_registrar.rs`, reader,
writer, the tasks they spawn and the dispatch by DatagramReceiver threads. The
lookup of a receiver and the send to the Application are two steps
(`DispatchData`, `ForwardData`), because the lock of the table is released in
between; the lock of `application_handles` is held across both, and the
registrar's steps wait for it (`dr = None`). A task is reduced to what the
Application sees of it: it runs, may hand a message over, announces its end, ends.
The Application creates receivers in its own task, so a first datagram whose number
is out of range panics it (`PanicOnData`): its channel is gone, its tasks, its tables
and its entry in the registry remain. `Unstopped` are the lives that run or have so
panicked.

**`Daemon`** composes the two: the receivers of `PriorityManager` are the receiver
tasks of `Application`, under the ids of their messages. A task asks for levels
between its start and its end, ends without one, or panics (`Manage`, for a
request without an answer; `FailToSend`). A receiver is the id of a task with its
number (`Receivers`). Here an abort may hit a task wherever it stands, and two tasks
may come to share an id: `NoFormerLife` says that none was made by an Application
that has shut down since. `MCDaemon` starts it from two states, because what four
receivers can do together lies among too many states to be reached from the first
(see Bounds).

**`DatagramReceiver`** is the threads of `datagram_receiver.rs`: the lock around
the socket, the check of a packet that the network may have damaged, and the
lookup of its application.

**`MessageTransferProofs`**, **`PriorityManagerProofs`**, **`ApplicationProofs`**,
**`UnscheduledPrioritiesProofs`** and **`DaemonProofs`** hold the theorems about the
modules they are named for; the last one uses those of its two parts.

The operators marked "Mutation" in the modules are wrong variants of the
definition after them; none is used by a specification. Each shows that a
property is able to fail.

## Runs

| run | asks | instance | result |
|---|---|---|---|
| `transfer_safety` | is the transfer safe, and does it implement `MessageDelivery`? | 7 bytes in datagrams of 2 (four, the last short), 2 unscheduled, 1 resend each, 2 duplicate grants | holds |
| `transfer_shapes` | do both tasks end whatever is lost, and is a message delivered when nothing is, and confirmed if the abort does not beat the final grant, whatever its length? | seven lengths from 1 to 9 bytes, with none to three scheduled datagrams, on three networks | holds |
| `priority_safety` | are levels given, kept, ordered and returned properly? | 4 receivers, 2 levels, lengths up to 3, symmetry | holds |
| `application_lifecycle` | one receiver per message, one hand-over, no dead handles, one life at a time, no life aborted for another, ids released? | 2 connections, 2 arrivals of one message, 1 message sent, panics of the Application | holds |
| `daemon` | does every level come back, and is every receiver served, though the application stops? | 1 level, 1 connection; 2 arrivals of one message or of two from the start, and 4 receivers of 2 messages from a state after a shutdown | holds |
| `unscheduled` | samples in order, partitions of the right host, equal shares, priorities in order? | 2 hosts, 3 levels, 2 messages of 2 lengths, up to 3 receivers, symmetry | holds |
| `retry_budget` | does a datagram have its full number of duplicate grants? | as `transfer_safety` | **violated** |
| `limit_mismatch` | does the receiver exit if the daemons' `-u` differ? | limits 3 and 1 | **violated** |
| `application_shutdown` | does shutdown abort the tasks? | as `application_lifecycle` | **violated** |
| `abort_of_successor` | does an abort hit only a completed task? | 1 connection, 2 arrivals | **violated** |
| `daemon_shared_id` | is every request for a level answered? | 1 connection, 3 arrivals, 1 level | **violated** |
| `datagram_checksum` | is a damaged datagram rejected? | 2 threads, 2 packets | **violated** |

The six violated runs are disagreements between the code and what its comments
or assertions say:

* *retry_budget*: `resend_counter` of the scheduled loop is never reset, so
  `LARGE_RESENDS` is for the whole message, not for each datagram.
* *limit_mismatch*: a hole among the slots makes a grant ask for a datagram the
  receiver already has; each arrival restarts the timer and sends the same grant.
* *application_shutdown*: the aborts are in lazy iterators that nothing
  consumes, so the receivers of a former life run on.
* *abort_of_successor*: after shutdown the Application drains its channel. A
  buffered datagram makes a second receiver of a message, whose join handle
  replaces the first one's; the buffered report of the first then aborts the
  second, which has not completed. If it holds a level, that level is never
  returned.
* *daemon_shared_id*: two receivers of one message, one made before the shutdown
  and one after, register under one id. The second registration replaces the
  sender of the first, whose request then finds no level and panics in `unwrap`.
* *datagram_checksum*: `checksum()` stores what it computes, so the comparison is
  of a value with itself.

`daemon` says what is left of the guarantees in spite of these. As long as the
Application that made them runs, no receiver asks in vain (`AnsweredWhileRunning`),
and an occupied level has a running holder or is on its way back, but for two
exceptions (`LevelsReturned`, `Lost`): the abort above, and a send that failed.
`Quiesces` and `Served` hold unless such a loss happened, or a level stays empty
because two receivers have shared an id (`Stalled`, below).

Modelling also showed some things that are no run:

* A level may stay empty though messages wait. When a second receiver of a message
  registers, it replaces the stored sender of the first, whose entry stays in the
  queue. The first of the two entries to be popped uses up the sender; the second one
  finds none, and `try_activate_messages` goes on to the next level, not to the next
  entry (`priority_manager.rs:122-128`). With one level and a third message waiting,
  that message sleeps until some other request comes, and for ever if none does. No
  level is lost in the sense of `Lost`: that is why `Quiesces` and `Served` name
  `Stalled` as well. It takes four datagrams and a shutdown; `daemon` reaches it from
  its second initial state, and without the exception both properties are violated
  there.
* A first datagram that is out of range, from a daemon with another `-d` or damaged,
  takes the whole Application with it, and its id stays registered for good.
  `IdReleased` names that exception; the safety properties of lives hold all the same.
* On a network that loses nothing a sender may still not be told of its delivery, when
  the abort of the receiver's task beats the final grant: `EventuallyDelivered` says
  "confirmed, or delivered and given up".
* Truncated quantiles need not be in order: five equal samples of 5 give the cuts
  4, 4, 5, 4, 4. `LongerNeverHigher` holds all the same, because the lookup takes
  the first cut that fits.
* The lookups for known and unknown hosts agree up to the last partition
  (`DefaultsAgree`). Beyond it a known host gives 24 and an unknown one 16, with
  the six levels of the code.
* With different `-d` options the transfer is not safe. Tried on the model: for a
  message of 5 bytes, a sender with payloads of 1 and a receiver with payloads of
  2 grant and answer for ever; for 3 bytes, with 2 and 1, a sender may be told of
  a delivery that did not happen.

The configurations switch the deadlock check off where the modelled systems
do stop: a transfer ends, every receiver finishes, the bounds on connections and
arrivals are used up. That they do not stop *early* is what the liveness
properties say.

### Bounds

Two scheduled datagrams are the least for which one grant can overtake another
and a needless retransmission of an earlier datagram can meet a later phase; two
unscheduled ones the least for which one can be missing while the other has
arrived; a short last datagram is there because the end is decided by bytes. A
retry limit of one or two lets each loop go round and give up. Four receivers
over the real two levels leave two in the queue, so that a pop has a choice and
may meet a tie. Two connections are a former life and its successor (and, when
the first is still registered, a refused registration); two arrivals are a
datagram and its duplicate, or one more after shutdown. `daemon` has one level, so
that any two receivers compete, and one connection, whose shutdown may come
between its two arrivals; `daemon_shared_id` needs a third. What four receivers of two
messages add, the stale entry of the queue above, is explored from a state
(`AfterShutdown` of `MCDaemon`) that `Daemon` reaches with four arrivals in one life:
the application has shut down, two receivers of one message have registered, with
different remaining lengths, and one of another message waits. From the start, two
arrivals with one byte left are enough for the rest. In `unscheduled`, two
messages between two hosts go the same way or opposite ways, a third receiver is a
late datagram or another life, two samples are enough to leave the default cuts
and three to put positions between samples or on one; the lengths lie within and
beyond the default cuts (2 and 4). Three levels are the least with two cuts; the code
has six. Two packets are a damaged one
and a whole one. The bounds of the transfer do not matter to the theorems. The mailbox and channel capacities
(1000) are not modelled: no channel comes near them in these instances.

### Fairness

* `FairSpec` of `MessageTransfer`, and `Spec` of `MCTransfer` with the same parts:
  tasks that need no datagram go on (tokio runs ready tasks), which includes
  `Activate`: that a receiver that waits for a level gets one is *assumed* here, and is
  the subject of `Served` in `Daemon`; a datagram in flight
  is eventually received or lost; and timers fire, *once nothing is in flight*. The
  code restarts every timer when a datagram arrives, so it promises no more than
  that. `Terminates` thus really has to show that arrivals cannot keep coming.
* `QuietFairness`: progress of the whole. Early timers that only retransmit are
  allowed; no timer gives up, which would take a silence of the whole retry budget,
  but that of a sender whose receiver was aborted.
  Waiting for ever is not excluded, so a transfer that stalls violates
  `EventuallyDelivered`.
* `DaemonFairness`: the PriorityManager handles its mailbox; a woken receiver asks
  for its first priority; a receiver that is granted over and over unregisters at
  last (strong fairness), which is what `Terminates` shows of the scheduled loop;
  and a task at its end ends (`GoOn`). Nothing is assumed of the Application, which may
  stop handling messages, nor of the arrival of datagrams: a registered receiver
  is `Served` because the receivers before it end.
* `Application`: each Application task and the DatagramReceiver threads go on. The
  registrar competes for a lock that DatagramReceiver threads take again and
  again, and gets it at times (strong fairness). `ReadRegistration` is a
  blocking read: it is assumed that a client that connects sends its id. A client
  that does not stops the registrar, and `IdReleased` with it.

## Proofs

Every safety property of `MessageTransfer`, `PriorityManager`, `Application`,
`UnscheduledPriorities` and `Daemon` that a run checks is a theorem for all values
of the constants. Each proof module has one inductive invariant `IInv` (`DaemonInv`
in `DaemonProofs`), checked by TLC on the instance of the run before it was proved,
one lemma per action or group of like actions, `InitIInv`, `NextIInv`, and a theorem
for each property.

### The transfer

`MessageTransferProofs` proves, for every message length, payload length,
unscheduled limit and retry limit, and over the worst network (`Spec`), all the
safety properties of the transfer: `TypeOK`, `NoHole`, `GrantWindow`, `NoPanic`,
`TransmittedMeansDelivered`, `RemainingPositive`, `DeliveredIntact`, and that
`MessageTransfer` implements `MessageDelivery` (`ImplementsMessageDelivery`).

Assumptions: `ConfigAssumption` (the constants are naturals, payload lengths are
positive), and `SameConfig`, that both daemons run with the same `-d` and `-u`. The
second is needed: `limit_mismatch` is what happens without it. `DeliveredWhole`
also assumes a message of at least one byte.

The argument. None of the properties is inductive alone: whether the next
datagram leaves a hole depends on what is in flight, and what is in flight on
which grants were ever sent. `IInv` adds

* `Collected`: the counts agree with the slots, the bytes by arithmetic on
  `split` (`SplitCountBounds`, `PayloadLengthValue`, `BytesComplete`: all bytes are
  there exactly when all datagrams are);
* `Flow`: a data datagram in flight is an unscheduled one, or one that a grant
  asked for, so not beyond what is collected; a grant names at most the number
  collected, and names the number of datagrams only after delivery; a resend asks
  for an unscheduled datagram;
* `Filled`: which slots are filled in which phase.

`Flow` gives `NoHole` (a new scheduled datagram can only be the next one), `Filled`
gives `NoPanic`, and the two together `TransmittedMeansDelivered`. The refinement
uses `IInv` for the one step that needs it, `Confirm`.

### The levels

`PriorityManagerProofs` proves, for any set of receivers, number of levels and
lengths, from `PriorityAssumption` (at least one level and one byte):

- whatever ids the receivers register under, also when two share one: `TypeOK` and
  `NoLeakedLevel`;
- as long as no two receivers have registered under one id (`OwnIds`, the
  hypothesis of these theorems): `AlwaysAnswered`, `WorkConserving`, `NoLostWakeup`,
  `LevelsReflectReceivers` and the action property `ShortestFirst`.

A message has one receiver while its application runs (`OneReceiver`), so `OwnIds`
is the normal case, which `DaemonProofs` proves; `daemon_shared_id` shows the panic
that is possible without it.

The argument without `OwnIds`. `SharedInv` says that the mailbox agrees with where
its receivers stand (`RequestsTrue`: at most one request each, the one its position
calls for), that a stored sender belongs to a receiver that sleeps (`SendersTrue`),
and that the levels have holders: `HeldBy` states an injection from the occupied
levels into the receivers that were woken and whose unregistration has not been
handled (`Holding`), with the ids of the levels. An injection is what survives a
shared id: an unregistration that finds an entry of another receiver with its id
swaps the two holders (`HeldByOthers`), and each sender that
`try_activate_messages` takes makes one more holder and one more level (`Giving`).

The argument with `OwnIds`. Levels, queue, senders and mailbox each tell a part of
where a receiver stands, and `IInv` says that they agree: besides `SharedInv`, a
level carries an id exactly from the moment the receiver is woken until its
unregistration has been handled (`Holders`); the levels are sorted, one per id,
and up to date unless a newer value is in the mailbox (`LevelsTrue`); what waits in
the queue belongs to a receiver that sleeps and whose sender is stored
(`QueueTrue`). The hard step is `try_activate_messages`: the lemma `Activation` says
that it takes a set of waiting messages none of which has more left than any that
stays, gives each a level of its own, keeps all other levels, and leaves either no
message waiting or no level empty; it rests on `TurnsCount` (the empty levels are
numbered without gaps) and `SortKeeps` (the sort is a rearrangement).

### The lives

`ApplicationProofs` proves, for any sets of messages and any number of connections
and datagrams, from the constants' own assumption only: `TypeOK`, `OneLife`,
`OneReceiver`, `HandedOnce`, `NoDeadHandle`, and the action properties
`AbortAfterAnnounce` and `AbortedAfterShutdown`.

The argument. `Control` is about lives: a reader and a writer do not outlast their
Application and the reader stops it once (`EndsTrue`), so the registrar is told once
of each life, and before another begins (`RemovalTrue`); therefore the life it
removes is the one that stopped (`OneLife`, `AbortedAfterShutdown`); a life that panicked
is never reported, so it stays registered and none follows it. That there are
lives enough needs a count of the connections that wait (`ConnectionsCounted`).
`Tables` is about one life: a message is in the table of receivers or delivered
from the moment it has a task (`MessagesKnown`), which gives `OneReceiver` though
the lookup is made before the datagram is queued; a report in the channel comes
from a task that has announced its end (`ReportsTrue`), which says which task an abort
hits. That a handle has a task which has not ended, or a report that waits
(`HandlesTrue`, for `NoDeadHandle`), is not part of `IInv`: it is lost when a task
panics, and nothing else depends on it. Each lemma proves that its step keeps it
(`HandlesKept`), so that `IInv` alone carries over to `Daemon`.

### The unscheduled priorities

`UnscheduledPrioritiesProofs` proves, for any number of hosts, messages and
receivers, any lengths and any sample size, from the constants' own assumption
only: `TypeOK`, `SamplesInOrder`, `PartitionsAreTheHosts`, `EqualShares`,
`LongerNeverHigher` and `DefaultsAgree`. The assumption bounds the levels by eight,
because the priority is a DSCP of six bits and the levels are eight apart, and the
lengths and samples by what `Quantiles` covers.

The argument. `SamplesInOrder` needs that the position found by the binary search is
where the new length belongs (`PlaceOf`, `InsertedInOrder`); `EqualShares` that an
interpolation of samples in order lies between its two neighbours however it is
rounded (`Neighbours`), so that the samples below and above a cut can be counted from
the position (`Shares`), and that a host's workload is one its samples give
(`CutsTrue`). `PartitionsAreTheHosts` needs
that what a host has sent does not change when it goes on sampling (`SentStays`,
`PartitionsKept`).
`LongerNeverHigher` and `DefaultsAgree` are facts about the two lookups
(`KnownFalls`, `UnknownFalls`, `LookupsAgree`), true of all cuts, ordered or not.

### The daemon

`DaemonProofs` proves, for any sets of messages and any number of connections,
datagrams and levels, and for any lengths:

- `LevelsReturned`: an occupied level comes back, except in the two ways it names;
- `AlwaysAnswered`, `WorkConserving`, `NoLostWakeup`, `LevelsReflectReceivers` and
  `ShortestFirst`, as long as no message has had two receivers (`ReceivedOnce`),
  though applications come and go. The condition is needed: `daemon_shared_id` is
  what happens without it;
- `AnsweredWhileRunning`: with no task of an Application that has shut down, the
  condition holds;
- that `Daemon` implements `PriorityManager` (`ImplementsPriorityManager`), so panics
  and aborts are nothing the actor was not specified for;
- that `OneLife`, `OneReceiver`, `HandedOnce` and `AbortAfterAnnounce` hold of
  `Daemon` too, where tasks panic without a report (`PromisesSurvivePanics`,
  `AbortsAreLateDespitePanics`). `NoDeadHandle` does not.

Assumptions: `DaemonAssumption` (at least one level and one byte) and that of
`Application`. The first gives `PriorityAssumption` for the instance in `Daemon`
(`ManagerAssumption`); nothing is assumed of the ids.

The argument. `DaemonInv` joins the invariants of the two parts by two facts:
whoever has turned to the PriorityManager is a task of the Application, under the
id of its message (`ReceiversAreTasks`); and a task between its registration and
its unregistration runs, has panicked, or was aborted by an Application that had
shut down (`EngagedTrue`), because a running Application aborts only tasks that have
announced their end (`AbortStep`), which come to that after they have unregistered.
The part of `PriorityManager` that needs an id for each receiver holds under
`ReceivedOnce`, which gives `OwnIds` (`OnceOwnsIds`) and, once false, stays false,
because tasks are only ever added. Under `NoFormerLife` all tasks are of one life
(`OneLife`), which has one receiver for a message (`OneReceiver`): that is
`ReceivedOnce` (`LifeReceivesOnce`). A step of a receiver or of the actor is a step of
`PriorityManager` (`RequestSteps`, `SameHandle`), any other leaves it alone; a panic
changes the state of a task and nothing that `IInv` of `Application` depends on
(`TasksFail`).

`PM` in `Daemon` and `PMP` in `DaemonProofs` are the same instance, without and with
its theorems; the lemmas `Same...` say so, definition by definition.

### Only model-checked

Liveness (`Terminates`, `EventuallyDelivered`, `Quiesces`, `Served`, `IdReleased`) is
beyond the prover, as are ENABLED and induction over data (no proved module
declares a RECURSIVE operator). The invariants of `MCTransfer` are those
`MessageTransferProofs` proves for all constants (`DeliveredWhole`, `NeverPanics`,
`TransmittedIsDelivered`), in the scenarios of one run: a theorem about that run would
say less. `DatagramReceiver`, `TransferRetries` and the runs that expect a violation
have no theorem to state: their properties do not hold.

## Not modelled

* Deserialisation, the IPv4 header and the byte layouts: encodings on which no
  modelled decision depends. A packet either deserializes or it does not.
* The errors of `f32` beyond 2^19 samples or 2^23 bytes: there `quantile` may return
  values that `Quantiles` does not hold. Within, `EqualShares` counts samples and does
  not bound the distance to the exact interpolation, which grows with the gap of the
  neighbours.
* Control datagrams at the Application: a lookup and a forward that change no table.
* The panic of a MessageSender whose send fails: it leaves its handle in the table
  of senders, as that of a receiver does in `Daemon` (`FailToSend`).
* The link between the two ends of a delivery: a hand-over to a writer that has
  stopped is part of `Application` (`StopWriting`, `HandOver`), the confirmation
  that follows it part of `MessageTransfer`; the two are not composed.
* Channel capacities, memory, and the length of time. Options out of range (a
  timeout of 0 or 1, a payload length of 0) panic at once and have no states.
* Two applications in one daemon: they share the registrar's table by distinct ids
  and the PriorityManager, and nothing else; `Daemon` has two messages instead.
* `main` and the listener's rebinding of its socket: I/O.

## Plan

1. `MessageDelivery`, `MessageTransfer`, its runs and proofs: done.
2. `PriorityManager`, `Application`, their runs: done.
3. `UnscheduledPriorities`, `DatagramReceiver`, `Daemon`, `MCTransfer`: done.
4. Proofs about `PriorityManager`, `Application` and `UnscheduledPriorities`: done.
5. Proofs about `Daemon`, from the invariants of its two components: done.
6. Left: a composition of `Application` with the confirmation of a hand-over to a writer
   that has stopped.
