--------------------------- MODULE PriorityManager ---------------------------
(***************************************************************************)
(* The scheduled half of the PriorityManager actor, with the tasks that use *)
(* it: message receivers that want one of LEVELS scheduled priority levels. *)
(*                                                                         *)
(* A receiver registers and sleeps until its message is given a level, then *)
(* asks for its priority before each grant, reporting how much remains, and *)
(* unregisters when it is done.  Requests wait in the actor's mailbox; the  *)
(* replies are oneshot channels, which wake the receiver that waits.        *)
(*                                                                         *)
(* The actor knows a message by its id alone.  MessageId says which id each *)
(* receiver uses; two receivers share one when an application registers     *)
(* again while the receivers of its former life are still running.          *)
(***************************************************************************)
EXTENDS Integers, Sequences, FiniteSets, Functions

CONSTANTS
  Receivers,        \* MessageReceiver tasks of the daemon
  Ids,              \* message ids
  MessageId,        \* the id each receiver registers
  LEVELS,           \* CONST::SCHEDULED_PRIORITY_LEVELS
  MAX_REMAINING,    \* bound on what remains of a message
  None              \* no receiver

ASSUME PriorityAssumption ==
  /\ MessageId \in [Receivers -> Ids]
  /\ LEVELS \in Nat \ {0}
  /\ MAX_REMAINING \in Nat \ {0}
  /\ None \notin Receivers

VARIABLES
  pc,          \* where each receiver stands
  remaining,   \* message_length - collected_bytes of each receiver
  mailbox,     \* requests the actor has not received yet
  queue,       \* registered messages without a level: <<id, remaining>>
  senders,     \* for each id the receiver its oneshot sender would wake, or None
  levels       \* scheduled_priority_levels

clientVars  == <<pc, remaining>>
managerVars == <<queue, senders, levels>>
vars == <<pc, remaining, mailbox, queue, senders, levels>>

-----------------------------------------------------------------------------
(* Levels *)

Level == 0 .. LEVELS - 1

Empty == <<>>
Occupied == Ids \X (0 .. MAX_REMAINING)

\* Ord for PriorityLevelEntry: the longest message first, empty levels last.
Before(e, f) ==
  /\ e # Empty
  /\ f # Empty => e[2] > f[2]

\* sort_priority_levels, a stable sort: a set of one result.
SortPriorityLevels(s) ==
  {[i \in Level |-> s[p[i]]] :
     p \in {p \in Bijection(Level, Level) :
              \A i, j \in Level : i < j =>
                /\ ~Before(s[p[j]], s[p[i]])
                /\ ~Before(s[p[i]], s[p[j]]) => p[i] < p[j]}}

EmptyPositions(s) == {i \in Level : s[i] = Empty}

Positions(s, id) == {i \in Level : s[i] # Empty /\ s[i][1] = id}

\* find_message_position: the first level that holds the id.
IsMessagePosition(s, id, i) ==
  /\ i \in Positions(s, id)
  /\ \A j \in Positions(s, id) : i <= j

-----------------------------------------------------------------------------
(* The actor *)

\* Mutation: without Reverse the queue pops the longest message.
PopsLongest(q, n) ==
  {s \in [1 .. n -> q] :
     /\ IsInjective(s)
     /\ \A i, j \in 1 .. n : i < j => s[i][2] >= s[j][2]
     /\ \A i \in 1 .. n : \A e \in q \ Range(s) : s[i][2] >= e[2]}

\* What n pops of the priority queue may return, in order: always one with the
\* least remaining, for it is pushed with Reverse(remaining); ties are broken by the shape of the heap.
Pops(q, n) ==
  {s \in [1 .. n -> q] :
     /\ IsInjective(s)
     /\ \A i, j \in 1 .. n : i < j => s[i][2] <= s[j][2]
     /\ \A i \in 1 .. n : \A e \in q \ Range(s) : s[i][2] <= e[2]}

\* The popped message finds its oneshot sender, which no earlier one took.
HasSender(s, i, snd) ==
  /\ snd[s[i][1]] # None
  /\ \A j \in 1 .. i - 1 : s[j][1] # s[i][1]

\* try_activate_messages, from the given queue, senders, levels and receivers:
\* the empty levels, first to last, take the popped messages that have a sender.
TryActivate(q, snd, lev, pcs) ==
  LET free == EmptyPositions(lev)
      n    == IF Cardinality(q) < Cardinality(free)
              THEN Cardinality(q) ELSE Cardinality(free)
      turn(p) == Cardinality({f \in free : f <= p})
  IN  \E s \in Pops(q, n) :
        LET taken == {i \in 1 .. n : HasSender(s, i, snd)}
            ids   == {s[i][1] : i \in taken}
        IN  /\ queue' = q \ Range(s)
            /\ senders' = [id \in Ids |-> IF id \in ids THEN None ELSE snd[id]]
            /\ pc' = [r \in Receivers |->
                        IF \E id \in ids : snd[id] = r THEN "activated" ELSE pcs[r]]
            /\ levels' \in SortPriorityLevels(
                 [p \in Level |->
                    IF p \in free /\ turn(p) \in taken THEN s[turn(p)] ELSE lev[p]])

\* Mutation: what is registered leaves out the datagram about to be granted.
HandleRegisterRest(m) ==
  LET id == MessageId[m.receiver]
  IN  /\ TryActivate(queue \cup {<<id, m.remaining - 1>>},
                     [senders EXCEPT ![id] = m.receiver], levels, pc)
      /\ UNCHANGED remaining

\* Mutation: no attempt to activate what was registered.
HandleRegisterOnly(m) ==
  /\ queue' = queue \cup {<<MessageId[m.receiver], m.remaining>>}
  /\ senders' = [senders EXCEPT ![MessageId[m.receiver]] = m.receiver]
  /\ UNCHANGED <<clientVars, levels>>

\* Mutation: the sender is not stored.
HandleRegisterUnsent(m) ==
  /\ TryActivate(queue \cup {<<MessageId[m.receiver], m.remaining>>},
                 senders, levels, pc)
  /\ UNCHANGED remaining

\* Mutation: a receiver that registers is woken at once.
HandleRegisterAwake(m) ==
  LET id == MessageId[m.receiver]
  IN  /\ TryActivate(queue \cup {<<id, m.remaining>>},
                     [senders EXCEPT ![id] = m.receiver], levels,
                     [pc EXCEPT ![m.receiver] = "activated"])
      /\ UNCHANGED remaining

\* A message whose id is registered already replaces the sender of the other: the
\* dropped channel wakes the other receiver as well, which ignores the error.
HandleRegister(m) ==
  LET id    == MessageId[m.receiver]
      other == senders[id]
  IN  /\ TryActivate(queue \cup {<<id, m.remaining>>},
                     [senders EXCEPT ![id] = m.receiver],
                     levels,
                     [r \in Receivers |-> IF r = other THEN "activated" ELSE pc[r]])
      /\ UNCHANGED remaining

\* Mutation: the levels are not sorted after the update.
HandleGetUnsorted(m) ==
  LET id == MessageId[m.receiver]
  IN  \/ \E i \in Level :
           /\ IsMessagePosition(levels, id, i)
           /\ levels' = [levels EXCEPT ![i] = <<id, m.remaining>>]
           /\ pc' = [pc EXCEPT ![m.receiver] = "granted"]
           /\ UNCHANGED <<remaining, queue, senders>>
      \/ /\ Positions(levels, id) = {}
         /\ pc' = [pc EXCEPT ![m.receiver] = "panicked"]
         /\ UNCHANGED <<remaining, managerVars>>

\* The reply is the position after the sort.  Without one the channel is dropped
\* and get_scheduled_priority panics in the receiver.
HandleGet(m) ==
  LET id == MessageId[m.receiver]
  IN  \/ \E i \in Level :
           /\ IsMessagePosition(levels, id, i)
           /\ levels' \in SortPriorityLevels([levels EXCEPT ![i] = <<id, m.remaining>>])
           /\ pc' = [pc EXCEPT ![m.receiver] = "granted"]
           /\ UNCHANGED <<remaining, queue, senders>>
      \/ /\ Positions(levels, id) = {}
         /\ pc' = [pc EXCEPT ![m.receiver] = "panicked"]
         /\ UNCHANGED <<remaining, managerVars>>

\* Mutation: unregistering frees the first level, whoever has it.
HandleUnregisterFirst(m) ==
  /\ TryActivate(queue, senders, [levels EXCEPT ![0] = Empty], pc)
  /\ UNCHANGED remaining

\* Mutation: the level freed is not offered to those who wait.
HandleUnregisterOnly(m) ==
  /\ levels' = [i \in Level |-> IF i \in Positions(levels, MessageId[m.receiver])
                               THEN Empty ELSE levels[i]]
  /\ UNCHANGED <<clientVars, queue, senders>>

HandleUnregister(m) ==
  LET id == MessageId[m.receiver]
  IN  \/ \E i \in Level :
           /\ IsMessagePosition(levels, id, i)
           /\ TryActivate(queue, senders, [levels EXCEPT ![i] = Empty], pc)
           /\ UNCHANGED remaining
      \/ /\ Positions(levels, id) = {}
         /\ UNCHANGED <<clientVars, managerVars>>

\* run_priority_manager takes the oldest request.
Handle ==
  /\ mailbox # <<>>
  /\ mailbox' = Tail(mailbox)
  /\ LET m == Head(mailbox) IN
       \/ m.kind = "Register"   /\ HandleRegister(m)
       \/ m.kind = "Get"        /\ HandleGet(m)
       \/ m.kind = "Unregister" /\ HandleUnregister(m)

-----------------------------------------------------------------------------
(* The receivers *)

Request == [kind : {"Register", "Get", "Unregister"},
            receiver : Receivers, remaining : 0 .. MAX_REMAINING]

Send(kind, r, n) ==
  mailbox' = Append(mailbox, [kind |-> kind, receiver |-> r, remaining |-> n])

\* register_priority, at the head of receive_scheduled_datagrams.
Register(r, n) ==
  /\ pc[r] = "idle"
  /\ pc' = [pc EXCEPT ![r] = "registering"]
  /\ remaining' = [remaining EXCEPT ![r] = n]
  /\ Send("Register", r, n)
  /\ UNCHANGED managerVars

\* get_priority for the first grant.
AskFirst(r) ==
  /\ pc[r] = "activated"
  /\ pc' = [pc EXCEPT ![r] = "asking"]
  /\ Send("Get", r, remaining[r])
  /\ UNCHANGED <<remaining, managerVars>>

\* get_priority for a later grant: after a datagram, which may be a duplicate,
\* or after a timeout.
AskNext(r, n) ==
  /\ pc[r] = "granted"
  /\ n <= remaining[r]
  /\ pc' = [pc EXCEPT ![r] = "asking"]
  /\ remaining' = [remaining EXCEPT ![r] = n]
  /\ Send("Get", r, n)
  /\ UNCHANGED managerVars

\* Mutation: the receiver ends without unregistering.
FinishOnly(r) ==
  /\ pc[r] = "granted"
  /\ pc' = [pc EXCEPT ![r] = "finished"]
  /\ UNCHANGED <<remaining, mailbox, managerVars>>

\* unregister_priority, when the last datagram arrived or the last timeout fired.
Unregister(r) ==
  /\ pc[r] = "granted"
  /\ pc' = [pc EXCEPT ![r] = "finished"]
  /\ Send("Unregister", r, 0)
  /\ UNCHANGED <<remaining, managerVars>>

Init ==
  /\ pc = [r \in Receivers |-> "idle"]
  /\ remaining = [r \in Receivers |-> MAX_REMAINING]
  /\ mailbox = <<>>
  /\ queue = {}
  /\ senders = [id \in Ids |-> None]
  /\ levels = [i \in Level |-> Empty]

Next ==
  \/ Handle
  \/ \E r \in Receivers :
       \/ AskFirst(r)
       \/ Unregister(r)
       \/ \E n \in 1 .. MAX_REMAINING : Register(r, n) \/ AskNext(r, n)

Spec == Init /\ [][Next]_vars

-----------------------------------------------------------------------------
(* Properties *)

TypeOK ==
  /\ pc \in [Receivers -> {"idle", "registering", "activated", "asking",
                           "granted", "finished", "panicked"}]
  /\ remaining \in [Receivers -> 1 .. MAX_REMAINING]
  /\ mailbox \in Seq(Request)
  /\ queue \subseteq Ids \X (1 .. MAX_REMAINING)
  /\ senders \in [Ids -> Receivers \cup {None}]
  /\ levels \in [Level -> Occupied \cup {Empty}]

\* Every request for a priority is answered: the unwrap in
\* get_scheduled_priority never fails, because a message keeps its level from
\* the moment its receiver is woken until its receiver unregisters.
AlwaysAnswered == \A r \in Receivers : pc[r] # "panicked"

\* No level stays empty while a message waits for one.
WorkConserving == EmptyPositions(levels) # {} => queue = {}

\* A level is held for a receiver that uses it, or that will give it back when
\* the actor gets to its unregistration: none is lost.
NoLeakedLevel ==
  \A i \in Level : levels[i] # Empty =>
    \E r \in Receivers :
      /\ MessageId[r] = levels[i][1]
      /\ \/ pc[r] \in {"activated", "asking", "granted"}
         \/ \E k \in 1 .. Len(mailbox) :
              mailbox[k].kind = "Unregister" /\ mailbox[k].receiver = r

\* No wakeup is lost: whoever sleeps until its message is activated is still in
\* the mailbox, or can be woken by the sender stored for a message in the queue.
NoLostWakeup ==
  \A r \in Receivers : pc[r] = "registering" =>
    \/ \E k \in 1 .. Len(mailbox) :
         mailbox[k].kind = "Register" /\ mailbox[k].receiver = r
    \/ /\ senders[MessageId[r]] = r
       /\ <<MessageId[r], remaining[r]>> \in queue

\* Once the actor is up to date, a higher level means that less remains at the
\* receiver itself, not just in what it said when it registered.
LevelsReflectReceivers ==
  mailbox = <<>> =>
    \A r, q \in Receivers : \A i, j \in Level :
      /\ i \in Positions(levels, MessageId[r])
      /\ j \in Positions(levels, MessageId[q])
      /\ pc[r] # "idle" /\ pc[q] # "idle"
      /\ i < j
      => remaining[r] >= remaining[q]

\* Levels are given in order of what remains: whoever gets one leaves nobody
\* waiting that registered with less.
ShortestFirst ==
  [][\A r \in Receivers : pc[r] = "registering" /\ pc'[r] = "activated" =>
       \A e \in queue' : remaining[r] <= e[2]]_vars

=============================================================================
