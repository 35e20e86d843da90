------------------------- MODULE ReliableMessaging -------------------------
(***************************************************************************)
(* ReliableMessageHandler (reliable_message_handler.go) on top of          *)
(* DefaultMessageHandler (message_handler.go): messages that wait for an   *)
(* acknowledgement, their timers, the bounded queue of incoming messages   *)
(* and the deduplicator.                                                   *)
(*                                                                         *)
(* The actors are the senders, the timers of every message, each in a      *)
(* goroutine, the pump of every connection (handleConnectionMessages), the *)
(* processor of the queue, the readers that hand the messages of a device  *)
(* to ProcessIncomingMessage, and the caller of Stop.  Message IDs are the *)
(* clock in nanoseconds: the ID of a first transmission is the pending     *)
(* message's only if the clock has not moved in between.                   *)
(***************************************************************************)
EXTENDS Integers, Sequences, SequencesExt

CONSTANTS
    Msgs,             \* messages given to SendReliable
    Incoming,         \* IDs of the data messages of the peers
    Devices,
    Conns,            \* connection objects
    ReceiverOf,       \* the device of a message or of a connection
    MaxRetries,       \* maxRetries of NewReliableMessageHandler
    QueueSize,        \* capacity of the MessageQueue
    MaxDeliveries,    \* bound: how often the link delivers one incoming message
    None

ASSUME MessagingAssumption ==
    /\ ReceiverOf \in [Msgs \cup Conns \cup Incoming -> Devices]
    /\ MaxRetries \in Nat /\ QueueSize \in Nat /\ MaxDeliveries \in Nat
    /\ Msgs \cap Incoming = {}

VARIABLES
    life,         \* the handler: "new", "running" or "stopped"
    stopping,     \* Stop has cleared the pending messages and goes on
    pending,      \* pendingMessages
    retries,      \* RetryCount of a message
    chain,        \* where the transmissions of a message are
    seen,         \* messages whose own ID a peer has seen on the wire
    connections,  \* DefaultMessageHandler.connections
    open,         \* connections whose peer has not closed
    pump,         \* the goroutine of a connection
    queue,        \* MessageQueue.messages
    received,     \* MessageDeduplicator.receivedMessages
    reader,       \* what the reader of a device does with a message
    deliveries,   \* how often the link has delivered an incoming message
    sent,         \* history: transmissions of a message
    lateSent,     \* history: those made after it had left pendingMessages
    queued,       \* history: how often a message came into the queue
    forgotten     \* history: how often the deduplicator has forgotten it

sending   == <<pending, retries, chain, seen, sent, lateSent>>
linked    == <<connections, open, pump>>
receiving == <<received, reader, deliveries, queued, forgotten>>
vars      == <<life, stopping, sending, linked, queue, receiving>>

Quiet == [at |-> "idle", id |-> None]

\* Queued: an acknowledgement of the message id, or a data message.
Items == [kind : {"ack", "data"}, id : Msgs \cup Incoming \cup {None}]

TypeOK ==
    /\ life \in {"new", "running", "stopped"} /\ stopping \in BOOLEAN
    /\ pending \subseteq Msgs /\ seen \subseteq Msgs
    /\ retries \in [Msgs -> Nat]
    /\ chain \in [Msgs -> {"unsent", "transmit", "sent", "timer", "interval", "failed", "over"}]
    /\ connections \in [Devices -> Conns \cup {None}]
    /\ open \subseteq Conns
    /\ pump \in [Conns -> {"none", "running", "closing", "ended"}]
    /\ queue \in Seq(Items) /\ Len(queue) <= QueueSize
    /\ received \subseteq Incoming
    /\ reader \in [Devices -> [at : {"idle", "checked", "marked"}, id : Incoming \cup {None}]]
    /\ \A f \in {deliveries, queued, forgotten} : f \in [Incoming -> Nat]
    /\ sent \in [Msgs -> Nat] /\ lateSent \in [Msgs -> Nat]

Init ==
    /\ life = "new" /\ stopping = FALSE
    /\ pending = {} /\ seen = {}
    /\ retries = [m \in Msgs |-> 0]
    /\ chain = [m \in Msgs |-> "unsent"]
    /\ connections = [d \in Devices |-> None]
    /\ open = Conns /\ pump = [c \in Conns |-> "none"]
    /\ queue = <<>>
    /\ received = {}
    /\ reader = [d \in Devices |-> Quiet]
    /\ deliveries = [w \in Incoming |-> 0]
    /\ queued = deliveries /\ forgotten = deliveries
    /\ sent = [m \in Msgs |-> 0] /\ lateSent = sent

-----------------------------------------------------------------------------
\* A reliable message: SendReliable and its timers.
\* SendReliable puts the message into the table before it is sent.
SendReliable(m) ==
    /\ chain[m] = "unsent"
    /\ pending' = pending \cup {m}
    /\ chain' = [chain EXCEPT ![m] = "transmit"]
    /\ UNCHANGED <<life, stopping, retries, seen, sent, lateSent, linked, queue, receiving>>

\* sendMessageWithRetry, up to the return of conn.Send.  A repeated transmission
\* has a new ID for certain.
Transmit(m) ==
    /\ chain[m] = "transmit"
    /\ connections[ReceiverOf[m]] # None
    /\ chain' = [chain EXCEPT ![m] = "sent"]
    /\ sent' = [sent EXCEPT ![m] = @ + 1]
    /\ lateSent' = [lateSent EXCEPT ![m] = @ + IF m \in pending THEN 0 ELSE 1]
    /\ \/ UNCHANGED seen
       \/ sent[m] = 0 /\ seen' = seen \cup {m}
    /\ UNCHANGED <<life, stopping, pending, retries, linked, queue, receiving>>

\* There is no connection, or its Send fails.
TransmitFails(m) ==
    /\ chain[m] = "transmit"
    /\ chain' = [chain EXCEPT ![m] = "failed"]
    /\ UNCHANGED <<life, stopping, pending, retries, seen, sent, lateSent, linked, queue, receiving>>

FailureForgets(m) ==
    /\ chain[m] = "failed"
    /\ pending' = pending \ {m}
    /\ chain' = [chain EXCEPT ![m] = "over"]
    /\ UNCHANGED <<life, stopping, retries, seen, sent, lateSent, linked, queue, receiving>>

\* The end of sendMessageWithRetry: the timer starts once the message is out.
ArmTimer(m) ==
    /\ chain[m] = "sent"
    /\ chain' = [chain EXCEPT ![m] = "timer"]
    /\ UNCHANGED <<life, stopping, pending, retries, seen, sent, lateSent, linked, queue, receiving>>

-----------------------------------------------------------------------------
\* Plausible bugs of handleMessageTimeout: an acknowledged message is sent
\* again, one retry more, a retry that is not scheduled.
NothingIsTriedAgain(m) ==
    /\ chain[m] = "timer" /\ m \notin pending
    /\ chain' = [chain EXCEPT ![m] = "interval"]
    /\ UNCHANGED <<pending, retries>>

GivesUpLate(m) ==
    /\ chain[m] = "timer" /\ m \in pending
    /\ retries' = [retries EXCEPT ![m] = @ + 1]
    /\ IF retries[m] + 1 > MaxRetries
       THEN pending' = pending \ {m} /\ chain' = [chain EXCEPT ![m] = "over"]
       ELSE UNCHANGED pending /\ chain' = [chain EXCEPT ![m] = "interval"]

RetryUnscheduled(m) ==
    /\ chain[m] = "timer" /\ m \in pending
    /\ retries[m] + 1 < MaxRetries
    /\ retries' = [retries EXCEPT ![m] = @ + 1]
    /\ chain' = [chain EXCEPT ![m] = "over"]
    /\ UNCHANGED pending

\* handleMessageTimeout: a message that is not in the table any more, one
\* whose retries are used up, and one that is sent again after the interval.
TimerFindsNothing(m) ==
    /\ chain[m] = "timer" /\ m \notin pending
    /\ chain' = [chain EXCEPT ![m] = "over"]
    /\ UNCHANGED <<pending, retries>>

GivesUp(m) ==
    /\ chain[m] = "timer" /\ m \in pending
    /\ retries[m] + 1 >= MaxRetries
    /\ retries' = [retries EXCEPT ![m] = @ + 1]
    /\ pending' = pending \ {m}
    /\ chain' = [chain EXCEPT ![m] = "over"]

TriesAgain(m) ==
    /\ chain[m] = "timer" /\ m \in pending
    /\ retries[m] + 1 < MaxRetries
    /\ retries' = [retries EXCEPT ![m] = @ + 1]
    /\ chain' = [chain EXCEPT ![m] = "interval"]
    /\ UNCHANGED pending

HandleMessageTimeout(m) ==
    /\ TimerFindsNothing(m) \/ GivesUp(m) \/ TriesAgain(m)
    /\ UNCHANGED <<life, stopping, seen, sent, lateSent, linked, queue, receiving>>

\* The second timer sends again without a look at the table.
IntervalEnds(m) ==
    /\ chain[m] = "interval"
    /\ chain' = [chain EXCEPT ![m] = "transmit"]
    /\ UNCHANGED <<life, stopping, pending, retries, seen, sent, lateSent, linked, queue, receiving>>

\* pending.Timer.Stop(): without effect on a timer not yet set or gone off.
Disarmed(m) == [chain EXCEPT ![m] = IF @ = "timer" THEN "over" ELSE @]

ProcessAck(m) ==
    \/ /\ m \in pending
       /\ pending' = pending \ {m} /\ chain' = Disarmed(m)
    \/ /\ m \notin pending
       /\ UNCHANGED <<pending, chain>>

-----------------------------------------------------------------------------
\* The connections and the queue.
Device(c) == ReceiverOf[c]

\* AddConnection: the pump reads the handler's context, which Start sets.
AddConnection(c) ==
    /\ life # "new" /\ pump[c] = "none"
    /\ connections' = [connections EXCEPT ![Device(c)] = c]
    /\ pump' = [pump EXCEPT ![c] = "running"]
    /\ UNCHANGED <<life, stopping, sending, open, queue, receiving>>

PeerCloses(c) ==
    /\ c \in open
    /\ open' = open \ {c}
    /\ UNCHANGED <<life, stopping, sending, connections, pump, queue, receiving>>

\* MessageQueue.Enqueue: no priority makes room in a full queue, as nothing is
\* ever dropped from it; a closed queue takes nothing.
Enqueues(item) ==
    IF life = "stopped" \/ Len(queue) = QueueSize
    THEN UNCHANGED queue
    ELSE queue' = Append(queue, item)

\* A peer's acknowledgement or data message comes in.
PumpReceives(c) ==
    /\ pump[c] = "running" /\ c \in open
    /\ \/ \E m \in seen : ReceiverOf[m] = Device(c) /\ Enqueues([kind |-> "ack", id |-> m])
       \/ Enqueues([kind |-> "data", id |-> None])
    /\ UNCHANGED <<life, stopping, sending, linked, receiving>>

PumpFindsClosed(c) ==
    /\ pump[c] = "running" /\ c \notin open
    /\ pump' = [pump EXCEPT ![c] = "closing"]
    /\ UNCHANGED <<life, stopping, sending, connections, open, queue, receiving>>

\* RemoveConnection, by device ID: the entry may be a newer connection's.
PumpRemoves(c) ==
    /\ pump[c] = "closing"
    /\ connections' = [connections EXCEPT ![Device(c)] = None]
    /\ pump' = [pump EXCEPT ![c] = "ended"]
    /\ UNCHANGED <<life, stopping, sending, open, queue, receiving>>

PumpIsCancelled(c) ==
    /\ pump[c] = "running" /\ life = "stopped"
    /\ pump' = [pump EXCEPT ![c] = "ended"]
    /\ UNCHANGED <<life, stopping, sending, connections, open, queue, receiving>>

\* processMessages and handleMessage; of the callbacks only the one for
\* acknowledgements is the handler's own.  The empty messages a closed queue
\* yields, until the processor sees the cancelled context, find no callback here.
ProcessMessage ==
    /\ life # "new" /\ queue # <<>>
    /\ queue' = Tail(queue)
    /\ IF Head(queue).kind = "ack"
       THEN ProcessAck(Head(queue).id)
       ELSE UNCHANGED <<pending, chain>>
    /\ UNCHANGED <<life, stopping, retries, seen, sent, lateSent, linked, receiving>>

-----------------------------------------------------------------------------
\* ProcessIncomingMessage, called by the reader of a device: the duplicate
\* check, the mark and the queue are three critical sections.  The link may
\* deliver a message again.
IsDuplicate(w) == w \in received

Arrives(w) ==
    /\ reader[ReceiverOf[w]] = Quiet /\ deliveries[w] < MaxDeliveries
    /\ deliveries' = [deliveries EXCEPT ![w] = @ + 1]
    /\ reader' = [reader EXCEPT ![ReceiverOf[w]] =
                    IF IsDuplicate(w) THEN Quiet ELSE [at |-> "checked", id |-> w]]
    /\ UNCHANGED <<life, stopping, sending, linked, queue, received, queued, forgotten>>

\* A plausible bug: the message is checked but never marked.
MarkLost(d) ==
    /\ reader[d].at = "checked"
    /\ reader' = [reader EXCEPT ![d].at = "marked"]
    /\ UNCHANGED <<life, stopping, sending, linked, queue, received, deliveries, queued, forgotten>>

MarkReceived(d) ==
    /\ reader[d].at = "checked"
    /\ received' = received \cup {reader[d].id}
    /\ reader' = [reader EXCEPT ![d].at = "marked"]
    /\ UNCHANGED <<life, stopping, sending, linked, queue, deliveries, queued, forgotten>>

EnqueueMarked(d) ==
    LET w == reader[d].id IN
    /\ reader[d].at = "marked"
    /\ Enqueues([kind |-> "data", id |-> w])
    /\ queued' = [queued EXCEPT ![w] = @ + Len(queue') - Len(queue)]
    /\ reader' = [reader EXCEPT ![d] = Quiet]
    /\ UNCHANGED <<life, stopping, sending, linked, received, deliveries, forgotten>>

\* MessageDeduplicator.cleanup, while its goroutine runs.
Forget(w) ==
    /\ life = "running" /\ w \in received
    /\ received' = received \ {w}
    /\ forgotten' = [forgotten EXCEPT ![w] = @ + 1]
    /\ UNCHANGED <<life, stopping, sending, linked, queue, reader, deliveries, queued>>

-----------------------------------------------------------------------------
Start ==
    /\ life = "new"
    /\ life' = "running"
    /\ UNCHANGED <<stopping, sending, linked, queue, receiving>>

\* Stop clears the table first, whether or not the handler runs ...
StopClears ==
    /\ ~stopping /\ life # "stopped"
    /\ stopping' = TRUE
    /\ pending' = {}
    /\ chain' = [m \in Msgs |-> IF m \in pending THEN Disarmed(m)[m] ELSE chain[m]]
    /\ UNCHANGED <<life, retries, seen, sent, lateSent, linked, queue, receiving>>

\* ... and fails if it does not; otherwise it cancels the context and closes
\* the queue, whose messages may still be processed.
StopEnds ==
    /\ stopping
    /\ stopping' = FALSE
    /\ life' = IF life = "running" THEN "stopped" ELSE life
    /\ UNCHANGED <<sending, linked, queue, receiving>>

-----------------------------------------------------------------------------
Timers(m) == FailureForgets(m) \/ ArmTimer(m) \/ HandleMessageTimeout(m) \/ IntervalEnds(m)
Sends(m)  == Transmit(m) \/ TransmitFails(m)
Pump(c)   == PumpFindsClosed(c) \/ PumpRemoves(c) \/ PumpIsCancelled(c)

Next ==
    \/ \E m \in Msgs : SendReliable(m) \/ Sends(m) \/ Timers(m)
    \/ \E c \in Conns : AddConnection(c) \/ PeerCloses(c) \/ PumpReceives(c) \/ Pump(c)
    \/ ProcessMessage
    \/ \E w \in Incoming : Arrives(w) \/ Forget(w)
    \/ \E d \in Devices : MarkReceived(d) \/ EnqueueMarked(d)
    \/ Start \/ StopClears \/ StopEnds

Spec == Init /\ [][Next]_vars

\* A timer that is set goes off, and a goroutine that can take a step does.
\* Nothing makes anyone send, answer, close or stop.
Fairness == \A m \in Msgs : WF_vars(Sends(m)) /\ WF_vars(Timers(m))

FairSpec == Spec /\ Fairness

-----------------------------------------------------------------------------
\* A message is not transmitted more often than maxRetries allows, whatever
\* acknowledgements, failures and a stop come in between
\* (handleMessageTimeout, sendMessageWithRetry).
TransmissionsBounded == \A m \in Msgs : sent[m] <= 1 \/ sent[m] <= MaxRetries

\* Once a message has left the table - acknowledged, given up, or dropped by
\* Stop - at most the one transmission already under way or scheduled follows.
AtMostOneLateSend == \A m \in Msgs : lateSent[m] <= 1

\* A message that the reader of its device hands over comes into the queue once,
\* and again only if the deduplicator has forgotten it meanwhile
\* (ProcessIncomingMessage against cleanup).
QueuedOnce == \A w \in Incoming : queued[w] <= 1 + forgotten[w]

\* No message waits for its acknowledgement forever: it is acknowledged, given
\* up or fails, although no acknowledgement need ever come and every timer is
\* set again by the goroutine of the last one.
PendingResolves == \A m \in Msgs : (m \in pending) ~> (m \notin pending)
=============================================================================
