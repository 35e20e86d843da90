--------------------------- MODULE MessagingProofs ---------------------------
(* Proofs about what messages pass through: ReliableMessaging, FileTransfer,*)
(* MessageFraming and PriorityScheduler, for any messages, devices, workers,*)
(* sizes and limits.                                                        *)
EXTENDS ReliableMessaging, MessageParts, TLAPS

-----------------------------------------------------------------------------
(* ReliableMessaging.                                                       *)

-----------------------------------------------------------------------------
(* Transmissions                                                            *)

Places == {"unsent", "transmit", "sent", "timer", "interval", "failed", "over"}

SendTypes ==
    /\ pending \subseteq Msgs
    /\ chain \in [Msgs -> Places]
    /\ retries \in [Msgs -> Nat] /\ sent \in [Msgs -> Nat] /\ lateSent \in [Msgs -> Nat]

\* The retry that is under way is allowed.
Allowed(m) == retries[m] = 0 \/ retries[m] < MaxRetries

\* Every transmission but the first was counted as a retry before it was made.
CountAgrees ==
    \A m \in Msgs :
        /\ chain[m] = "unsent" => sent[m] = 0 /\ retries[m] = 0
        /\ chain[m] \in {"transmit", "interval"} => sent[m] = retries[m] /\ Allowed(m)
        /\ chain[m] \in {"sent", "timer"} => sent[m] = retries[m] + 1 /\ Allowed(m)
        /\ chain[m] \in {"failed", "over"} => sent[m] <= 1 \/ sent[m] <= MaxRetries

\* After a late transmission the message is not in the table, and its timer,
\* set or still to be set, will find nothing.
LateIsLast ==
    \A m \in Msgs :
        /\ lateSent[m] <= 1
        /\ lateSent[m] = 1 => m \notin pending /\ chain[m] \in {"sent", "timer", "over"}

SendInv == SendTypes /\ CountAgrees /\ LateIsLast

\* Stop and an acknowledgement take messages out of the table and disarm timers.
LEMMA DisarmStep ==
    ASSUME SendInv, UNCHANGED <<retries, sent, lateSent>>, NEW gone \in SUBSET pending,
           pending' = pending \ gone,
           chain' = [m \in Msgs |-> IF m \in gone /\ chain[m] = "timer" THEN "over" ELSE chain[m]]
    PROVE  SendInv'
<1> USE DEF SendInv, SendTypes, Places
<1>1. SendTypes'
    OBVIOUS
<1>2. CountAgrees'
    BY MessagingAssumption DEF CountAgrees, Allowed
<1>3. LateIsLast'
    BY DEF LateIsLast
<1>4. QED
    BY <1>1, <1>2, <1>3

\* A step of one message's goroutine.
LEMMA ChainStep ==
    ASSUME SendInv, NEW m \in Msgs, SendReliable(m) \/ Sends(m) \/ Timers(m)
    PROVE  SendInv'
<1> USE MessagingAssumption DEF SendInv, SendTypes, Places
<1>1. CASE SendReliable(m)
    BY <1>1 DEF SendReliable, CountAgrees, LateIsLast, Allowed
<1>2. CASE Transmit(m)
    BY <1>2 DEF Transmit, CountAgrees, LateIsLast, Allowed
<1>3. CASE TransmitFails(m)
    BY <1>3 DEF TransmitFails, CountAgrees, LateIsLast, Allowed
<1>4. CASE FailureForgets(m)
    BY <1>4 DEF FailureForgets, CountAgrees, LateIsLast, Allowed
<1>5. CASE ArmTimer(m)
    BY <1>5 DEF ArmTimer, CountAgrees, LateIsLast, Allowed
<1>6. CASE HandleMessageTimeout(m)
    <2>1. CASE TimerFindsNothing(m)
        BY <1>6, <2>1
        DEF HandleMessageTimeout, TimerFindsNothing, CountAgrees, LateIsLast, Allowed
    <2>2. CASE GivesUp(m)
        BY <1>6, <2>2 DEF HandleMessageTimeout, GivesUp, CountAgrees, LateIsLast, Allowed
    <2>3. CASE TriesAgain(m)
        BY <1>6, <2>3 DEF HandleMessageTimeout, TriesAgain, CountAgrees, LateIsLast, Allowed
    <2>4. QED
        BY <1>6, <2>1, <2>2, <2>3 DEF HandleMessageTimeout
<1>7. CASE IntervalEnds(m)
    BY <1>7 DEF IntervalEnds, CountAgrees, LateIsLast, Allowed
<1>8. QED
    BY <1>1, <1>2, <1>3, <1>4, <1>5, <1>6, <1>7 DEF Sends, Timers

\* Every step keeps the count of what was transmitted.
LEMMA SendStep ==
    ASSUME SendInv, [Next]_vars
    PROVE  SendInv'
<1>1. ASSUME NEW m \in Msgs, SendReliable(m) \/ Sends(m) \/ Timers(m)
      PROVE  SendInv'
    BY <1>1, ChainStep
<1>2. CASE ProcessMessage
    <2>1. ASSUME NEW m, m \in pending, ProcessAck(m)
          PROVE  SendInv'
        <3>1. /\ pending' = pending \ {m}
              /\ chain' = [n \in Msgs |->
                    IF n \in {m} /\ chain[n] = "timer" THEN "over" ELSE chain[n]]
            BY <2>1 DEF ProcessAck, Disarmed, SendInv, SendTypes
        <3>2. UNCHANGED <<retries, sent, lateSent>> /\ {m} \in SUBSET pending
            BY <1>2, <2>1 DEF ProcessMessage
        <3>3. QED
            BY <3>1, <3>2, DisarmStep
    <2>2. ASSUME UNCHANGED <<pending, chain>>
          PROVE  SendInv'
        BY <1>2, <2>2
        DEF ProcessMessage, SendInv, SendTypes, CountAgrees, LateIsLast, Allowed
    <2>3. QED
        BY <1>2, <2>1, <2>2 DEF ProcessMessage, ProcessAck
<1>3. CASE StopClears
    <2>1. chain' = [m \in Msgs |->
             IF m \in pending /\ chain[m] = "timer" THEN "over" ELSE chain[m]]
        BY <1>3 DEF StopClears, Disarmed, SendInv, SendTypes
    <2>2. pending' = pending \ pending /\ UNCHANGED <<retries, sent, lateSent>>
        BY <1>3 DEF StopClears
    <2>3. QED
        BY <2>1, <2>2, DisarmStep
<1>4. CASE UNCHANGED sending
    BY <1>4 DEF sending, SendInv, SendTypes, CountAgrees, LateIsLast, Allowed
<1>5. QED
    BY <1>1, <1>2, <1>3, <1>4
    DEF Next, vars, AddConnection, PeerCloses, PumpReceives, Pump, PumpFindsClosed,
        PumpRemoves, PumpIsCancelled, Arrives, Forget, MarkReceived, EnqueueMarked, Start,
        StopEnds

\* The transmissions of a message and what is counted of them.
THEOREM SendInvariant == Spec => []SendInv
<1>1. Init => SendInv
    BY DEF Init, SendInv, SendTypes, Places, CountAgrees, LateIsLast
<1>2. SendInv /\ [Next]_vars => SendInv'
    BY SendStep
<1>3. QED
    BY <1>1, <1>2, PTL DEF Spec

\* A message is not transmitted more often than maxRetries allows
\* (handleMessageTimeout, sendMessageWithRetry).
THEOREM RetriesRespectLimit == Spec => []TransmissionsBounded
<1>1. SendInv => TransmissionsBounded
    BY MessagingAssumption
    DEF SendInv, SendTypes, Places, CountAgrees, Allowed, TransmissionsBounded
<1>2. QED
    BY <1>1, SendInvariant, PTL

\* Once a message has left the table, at most one transmission follows, for any
\* number of acknowledgements, retries and timers (reliable_message_handler.go:239).
THEOREM OneLateSend == Spec => []AtMostOneLateSend
<1>1. SendInv => AtMostOneLateSend
    BY DEF SendInv, LateIsLast, AtMostOneLateSend
<1>2. QED
    BY <1>1, SendInvariant, PTL

-----------------------------------------------------------------------------
(* Reception                                                                *)

ReadTypes ==
    /\ seen \subseteq Msgs
    /\ queue \in Seq(Items)
    /\ received \subseteq Incoming
    /\ reader \in [Devices -> [at : {"idle", "checked", "marked"}, id : Incoming \cup {None}]]
    /\ \A d \in Devices :
          reader[d].at # "idle" => reader[d].id \in Incoming /\ ReceiverOf[reader[d].id] = d
    /\ queued \in [Incoming -> Nat] /\ forgotten \in [Incoming -> Nat]

Reads(w, place) == reader[ReceiverOf[w]].id = w /\ reader[ReceiverOf[w]].at = place

\* A mark allows one place in the queue, and forgetting it another one.
MarksAgree ==
    \A w \in Incoming :
        /\ w \notin received => queued[w] <= forgotten[w]
        /\ queued[w] <= 1 + forgotten[w]
        /\ Reads(w, "checked") => w \notin received
        /\ Reads(w, "marked") =>
              IF w \in received THEN queued[w] <= forgotten[w] ELSE queued[w] + 1 <= forgotten[w]

ReadInv == ReadTypes /\ MarksAgree

\* An item is queued once, or not at all.
LEMMA EnqueueAddsOne ==
    ASSUME queue \in Seq(Items), NEW item \in Items, Enqueues(item)
    PROVE  queue' \in Seq(Items) /\ Len(queue') - Len(queue) \in {0, 1}
BY DEF Enqueues

\* Every step keeps the marks and the queue in agreement.
LEMMA ReadStep ==
    ASSUME ReadInv, [Next]_vars
    PROVE  ReadInv'
<1> USE MessagingAssumption DEF ReadInv, ReadTypes
<1>1. ASSUME NEW w \in Incoming, Arrives(w)
      PROVE  ReadInv'
    BY <1>1 DEF Arrives, sending, IsDuplicate, Quiet, MarksAgree, Reads
<1>2. ASSUME NEW w \in Incoming, Forget(w)
      PROVE  ReadInv'
    BY <1>2 DEF Forget, sending, MarksAgree, Reads
<1>3. ASSUME NEW d \in Devices, MarkReceived(d)
      PROVE  ReadInv'
    BY <1>3 DEF MarkReceived, sending, MarksAgree, Reads
<1>4. ASSUME NEW d \in Devices, EnqueueMarked(d)
      PROVE  ReadInv'
    <2> DEFINE w == reader[d].id
    <2>1. w \in Incoming /\ ReceiverOf[w] = d /\ [kind |-> "data", id |-> w] \in Items
        BY <1>4 DEF EnqueueMarked, Items
    <2>2. queue' \in Seq(Items) /\ Len(queue') - Len(queue) \in {0, 1}
        BY <1>4, <2>1, EnqueueAddsOne DEF EnqueueMarked
    <2>3. queued' = [queued EXCEPT ![w] = @] \/ queued' = [queued EXCEPT ![w] = @ + 1]
        <3>1. Len(queue) \in Nat /\ Len(queue') \in Nat /\ queued[w] \in Nat
            BY <2>1, <2>2
        <3>2. CASE Len(queue') - Len(queue) = 0
            <4>1. queued[w] + Len(queue') - Len(queue) = queued[w]
                BY <3>1, <3>2
            <4>2. QED
                BY <1>4, <4>1 DEF EnqueueMarked
        <3>3. CASE Len(queue') - Len(queue) = 1
            <4>1. queued[w] + Len(queue') - Len(queue) = queued[w] + 1
                BY <3>1, <3>3
            <4>2. QED
                BY <1>4, <4>1 DEF EnqueueMarked
        <3>4. QED
            BY <2>2, <3>2, <3>3
    <2>4. QED
        BY <1>4, <2>1, <2>2, <2>3 DEF EnqueueMarked, sending, Quiet, MarksAgree, Reads
<1>5. ASSUME NEW c \in Conns, PumpReceives(c)
      PROVE  ReadInv'
    <2>1. UNCHANGED <<seen, receiving>>
        BY <1>5 DEF PumpReceives, sending
    <2>2. PICK item \in [kind : {"ack", "data"}, id : seen \cup {None}] : Enqueues(item)
        BY <1>5 DEF PumpReceives
    <2>3. queue' \in Seq(Items)
        BY <2>2, EnqueueAddsOne DEF Items
    <2>4. QED
        BY <2>1, <2>3 DEF receiving, MarksAgree, Reads
<1>6. CASE ProcessMessage
    BY <1>6 DEF ProcessMessage, receiving, MarksAgree, Reads
<1>7. CASE UNCHANGED <<seen, queue, receiving>>
    BY <1>7 DEF receiving, MarksAgree, Reads
<1>8. ASSUME NEW m \in Msgs, Transmit(m)
      PROVE  ReadInv'
    BY <1>8 DEF Transmit, receiving, MarksAgree, Reads
<1>9. QED
    BY <1>1, <1>2, <1>3, <1>4, <1>5, <1>6, <1>7, <1>8
    DEF Next, vars, sending, SendReliable, Sends, Timers, TransmitFails, FailureForgets,
        ArmTimer, HandleMessageTimeout, IntervalEnds, AddConnection, PeerCloses, Pump,
        PumpFindsClosed, PumpRemoves, PumpIsCancelled, Start, StopClears, StopEnds

\* A message comes into the queue once, and again only after the deduplicator has
\* forgotten it (ProcessIncomingMessage against cleanup).
THEOREM QueuedAtMostOnce == Spec => []QueuedOnce
<1>1. Init => ReadInv
    BY MessagingAssumption DEF Init, Quiet, ReadInv, ReadTypes, MarksAgree, Reads
<1>2. ReadInv /\ [Next]_vars => ReadInv'
    BY ReadStep
<1>3. ReadInv => QueuedOnce
    BY DEF ReadInv, MarksAgree, QueuedOnce
<1>4. QED
    BY <1>1, <1>2, <1>3, PTL DEF Spec

-----------------------------------------------------------------------------
(* FileTransfer implements DownloadFolder.  A message tells of a transfer   *)
(* that has begun: whatever is saved was announced.                         *)

Announced == {t \in Transfers : sender[t].at \in {"sending", "ended"}}

FilesInv ==
    /\ sender \in [Transfers -> [at : {"new", "sending", "ended", "refused"}, next : Nat]]
    /\ \A m \in net : m.transfer \in Announced

\* Nothing takes an announcement back.
LEMMA SenderStep ==
    ASSUME FilesInv, NEW t \in Transfers,
           Files!SendFile(t) \/ Files!SendChunk(t) \/ Files!SendEnds(t)
    PROVE  /\ FilesInv'
           /\ Announced' \in {Announced, Announced \cup {t}}
           /\ UNCHANGED folder
<1> USE DEF FilesInv, Announced
<1>1. CASE Files!SendFile(t)
    BY <1>1 DEF Files!SendFile, Files!sendMessage, Files!Info
<1>2. CASE Files!SendChunk(t)
    BY <1>2 DEF Files!SendChunk, Files!sendMessage, Files!Chunk, Files!Chunks
<1>3. CASE Files!SendEnds(t)
    BY <1>3 DEF Files!SendEnds
<1>4. QED
    BY <1>1, <1>2, <1>3

\* What a message changes in the folder: the file of its transfer, which is
\* the one that was sent, or the remains of a failed write.
LEMMA MessageStep ==
    ASSUME NEW m, Files!ProcessMessage(m)
    PROVE  \/ UNCHANGED folder
           \/ folder' = [folder EXCEPT ![Name[m.transfer]] = Files!Content(m.transfer)]
           \/ folder' = [folder EXCEPT ![Name[m.transfer]] = Torn]
<1>1. CASE Files!HandleFileInfo(m.transfer)
    BY <1>1 DEF Files!HandleFileInfo
<1>2. ASSUME Files!CompleteTransfer(m.transfer, m.index)
      PROVE  \/ UNCHANGED folder
             \/ folder' = [folder EXCEPT ![Name[m.transfer]] = Files!Content(m.transfer)]
             \/ folder' = [folder EXCEPT ![Name[m.transfer]] = Torn]
    BY <1>2 DEF Files!CompleteTransfer, Files!Intact
<1>3. CASE Files!HandleChunk(m.transfer, m.index)
    BY <1>2, <1>3 DEF Files!HandleChunk
<1>4. QED
    BY <1>1, <1>3 DEF Files!ProcessMessage

\* Every step keeps the folder and the transfers in agreement.
LEMMA FilesStep ==
    ASSUME FilesInv, [Files!Next]_(Files!vars)
    PROVE  FilesInv'
<1>1. ASSUME NEW t \in Transfers, Files!SendFile(t) \/ Files!SendChunk(t) \/ Files!SendEnds(t)
      PROVE  FilesInv'
    BY <1>1, SenderStep
<1>2. ASSUME net' \subseteq net, UNCHANGED sender
      PROVE  FilesInv'
    BY <1>2 DEF FilesInv, Announced
<1>3. QED
    BY <1>1, <1>2 DEF Files!Next, Files!HandleMessages, Files!Lose, Files!Restart,
                      Files!vars

\* Every step is one of the folder's steps, or leaves it and what was announced.
LEMMA FolderStep ==
    ASSUME FilesInv, [Files!Next]_(Files!vars)
    PROVE  [Files!Folder!Next]_<<Announced, folder>>
<1> USE DEF Files!Folder!Next, Files!Folder!Announce, Files!Folder!Save,
            Files!Folder!SaveFails
<1>1. ASSUME NEW t \in Transfers, Files!SendFile(t) \/ Files!SendChunk(t) \/ Files!SendEnds(t)
      PROVE  [Files!Folder!Next]_<<Announced, folder>>
    BY <1>1, SenderStep DEF Announced
<1>2. CASE Files!HandleMessages
    <2>1. PICK m \in net : Files!ProcessMessage(m)
        BY <1>2 DEF Files!HandleMessages
    <2>2. m.transfer \in Announced /\ m.transfer \in Transfers
        BY DEF FilesInv, Announced
    <2>3. UNCHANGED Announced
        BY <1>2 DEF Files!HandleMessages, Announced
    <2>4. QED
        BY <2>1, <2>2, <2>3, MessageStep DEF Announced
<1>3. CASE UNCHANGED <<sender, folder>>
    BY <1>3 DEF Announced
<1>4. QED
    BY <1>1, <1>2, <1>3 DEF Files!Next, Files!Lose, Files!Restart, Files!vars

\* Whatever is lost, repeated or overtaken, and whatever the chunk sizes of the
\* two processes, a file in the folder is an announced one from beginning to end,
\* or what a failed write has left (completeTransfer, main.go:400).
THEOREM ImplementsFolder == Files!Spec => SavesWholeFiles
<1>1. Files!Init => FilesInv
    BY DEF Files!Init, FilesInv, Announced, Files!Unsent
<1>2. FilesInv /\ [Files!Next]_(Files!vars) => FilesInv'
    BY FilesStep
<1>3. Files!Init => Files!Folder!Init
    BY DEF Files!Init, Files!Folder!Init, Files!Folder!Names, Files!Unsent
<1>4. FilesInv /\ [Files!Next]_(Files!vars) => [Files!Folder!Next]_<<Announced, folder>>
    BY FolderStep
<1>5. QED
    BY <1>1, <1>2, <1>3, <1>4, PTL
    DEF Files!Spec, SavesWholeFiles, Files!SavesWholeFiles,
        Files!Folder!Spec, Announced

-----------------------------------------------------------------------------
(* MessageFraming.                                                          *)

FramingTypes ==
    /\ protocols \in [{"encoder", "decoder"} ->
                        [protocol : {"RFCOMM", "L2CAP"}, mtu : MTUs, checksum : BOOLEAN]]
    /\ encoded \subseteq Framing!Frame /\ wire \subseteq Framing!Frame

\* A frame whose payload and whose magic number are still what they were is one that
\* was encoded.
Genuine(f) ==
    f.payload # Garbled /\ f.magic # "none" => <<f.magic, f.payload>> \in framesSent

FramingInv ==
    /\ FramingTypes
    /\ \A f \in encoded \cup wire : Genuine(f)
    /\ Framing!DecodedWasEncoded

\* A payload that was changed has no checksum that fits it.
LEMMA ChecksumsAreGenuine ==
    ASSUME NEW f \in Framing!Frame
    PROVE  f.checksum # Garbled
BY FramingAssumed DEF Framing!Frame, Framing!FramingAssumption

\* A frame's lengths are numbers.
LEMMA FrameParts ==
    ASSUME NEW f \in Framing!Frame
    PROVE  f.length \in Nat /\ f.extra \in Int /\ Framing!DataLength(f) \in Int
BY DEF Framing!Frame, Framing!DataLength, Framing!FrameOverhead, Framing!HeaderSize,
       Framing!FooterSize

\* Every step keeps every frame on the wire a genuine one.
LEMMA FramingStep ==
    ASSUME FramingInv, [Framing!Next]_(Framing!vars)
    PROVE  FramingInv'
<1>1. ASSUME NEW m \in Framed, Framing!EncodeMessageWithRetry(m)
      PROVE  FramingInv'
    <2> DEFINE h == protocols["encoder"]
    <2>1. /\ encoded' = encoded \cup {Framing!FrameOf(m, h)}
          /\ framesSent' = framesSent \cup {<<h.protocol, m>>}
          /\ UNCHANGED <<protocols, wire, framesReceived>>
        BY <1>1 DEF Framing!EncodeMessageWithRetry, Framing!EncodeMessage
    <2>2. Framing!FrameOf(m, h) \in Framing!Frame
        <3>1. /\ h.protocol \in Framing!Protocols /\ h.checksum \in BOOLEAN
              /\ LengthOf[m] \in Nat /\ 0 \in Int
            BY FramingAssumed DEF FramingInv, FramingTypes, Framing!FramingAssumption,
                                  Framing!Protocols
        <3>2. QED
            BY <3>1 DEF Framing!FrameOf, Framing!Frame
    <2>3. Framing!FrameOf(m, h).payload = m /\ Framing!FrameOf(m, h).magic = h.protocol
        BY DEF Framing!FrameOf
    <2>4. FramingTypes'
        BY <2>1, <2>2 DEF FramingInv, FramingTypes
    <2>5. \A f \in encoded' \cup wire' : Genuine(f)'
        BY <2>1, <2>3 DEF FramingInv, Genuine
    <2>6. Framing!DecodedWasEncoded'
        BY <2>1 DEF FramingInv, Framing!DecodedWasEncoded
    <2>7. QED
        BY <2>4, <2>5, <2>6 DEF FramingInv
<1>2. ASSUME UNCHANGED <<protocols, framesSent, framesReceived>>,
             encoded' \subseteq Framing!Frame, wire' \subseteq Framing!Frame,
             \A f \in encoded' \cup wire' : Genuine(f)
      PROVE  FramingInv'
    BY <1>2 DEF FramingInv, FramingTypes, Genuine, Framing!DecodedWasEncoded
<1>3. ASSUME NEW f \in encoded, Framing!Write(f)
      PROVE  FramingInv'
    <2>1. /\ UNCHANGED <<protocols, framesSent, framesReceived>>
          /\ encoded' \subseteq encoded /\ wire' \subseteq wire \cup {f}
        BY <1>3 DEF Framing!Write
    <2>2. QED
        BY <2>1, <1>2 DEF FramingInv, FramingTypes
<1>4. ASSUME NEW f \in wire, Framing!LinkChanges(f)
      PROVE  FramingInv'
    <2>1. PICK g \in Framing!Changed(f) :
            /\ wire' = (wire \ {f}) \cup {g}
            /\ UNCHANGED <<protocols, encoded, framesSent, framesReceived>>
        BY <1>4 DEF Framing!LinkChanges
    <2>2. f \in Framing!Frame
        BY DEF FramingInv, FramingTypes
    <2>3. g \in Framing!Frame
        <3>1. f.length + 1 \in Nat /\ 0 \in Nat
            BY <2>2, FrameParts
        <3>2. \A n \in {0, f.length + 1} : [f EXCEPT !.declared = n] \in Framing!Frame
            BY <2>2, <3>1 DEF Framing!Frame
        <3>3. [f EXCEPT !.extra = -1] \in Framing!Frame
            BY <2>2 DEF Framing!Frame
        <3>4. /\ [f EXCEPT !.payload = Garbled] \in Framing!Frame
              /\ [f EXCEPT !.magic = "none"] \in Framing!Frame
            BY <2>2 DEF Framing!Frame
        <3>5. QED
            BY <3>2, <3>3, <3>4 DEF Framing!Changed
    <2>4. Genuine(f)
        BY DEF FramingInv
    <2>5. Genuine(g)
        BY <2>1, <2>2, <2>4 DEF Framing!Changed, Framing!Frame, Genuine
    <2>6. QED
        BY <2>1, <2>3, <2>5, <1>2 DEF FramingInv, FramingTypes
<1>5. ASSUME NEW f \in wire, Framing!LinkLoses(f)
      PROVE  FramingInv'
    BY <1>5, <1>2 DEF Framing!LinkLoses, FramingInv, FramingTypes
<1>6. ASSUME NEW f \in wire, NEW g \in wire, Framing!LinkJoins(f, g)
      PROVE  FramingInv'
    <2> DEFINE j == [f EXCEPT !.extra = f.extra + Framing!DataLength(g)]
    <2>1. /\ wire' = (wire \ {f, g}) \cup {j}
          /\ UNCHANGED <<protocols, encoded, framesSent, framesReceived>>
        BY <1>6 DEF Framing!LinkJoins
    <2>2. f \in Framing!Frame /\ g \in Framing!Frame /\ Genuine(f)
        BY DEF FramingInv, FramingTypes
    <2>3. j \in Framing!Frame
        <3>1. f.extra + Framing!DataLength(g) \in Int
            BY <2>2, FrameParts
        <3>2. QED
            BY <2>2, <3>1 DEF Framing!Frame
    <2>4. j.payload = f.payload /\ j.magic = f.magic
        BY <2>2 DEF Framing!Frame
    <2>5. Genuine(j)
        BY <2>2, <2>4 DEF Genuine
    <2>6. QED
        BY <2>1, <2>3, <2>5, <1>2 DEF FramingInv, FramingTypes
<1>7. ASSUME NEW f \in wire, Framing!ProcessMessage(f)
      PROVE  FramingInv'
    <2> DEFINE h == protocols["decoder"]
    <2>1. /\ wire' = wire \ {f}
          /\ UNCHANGED <<protocols, encoded, framesSent>>
          /\ \/ framesReceived' = framesReceived
             \/ /\ Framing!DecodeMessage(f, h)
                /\ framesReceived' = framesReceived \cup {<<h.protocol, f.payload, h.checksum>>}
        BY <1>7 DEF Framing!ProcessMessage
    <2>2. FramingTypes' /\ \A k \in encoded' \cup wire' : Genuine(k)'
        BY <2>1 DEF FramingInv, FramingTypes, Genuine
    <2>3. ASSUME Framing!DecodeMessage(f, h), h.checksum
          PROVE  <<h.protocol, f.payload>> \in framesSent
        <3>1. f.checksum = f.payload /\ f.magic = h.protocol
            BY <2>3 DEF Framing!DecodeMessage, Framing!VerifiesChecksum,
                        Framing!VerifiesMagic
        <3>2. f \in Framing!Frame /\ Genuine(f) /\ h.protocol # "none"
            BY DEF FramingInv, FramingTypes
        <3>3. QED
            BY <3>1, <3>2, ChecksumsAreGenuine DEF Genuine
    <2>4. Framing!DecodedWasEncoded'
        BY <2>1, <2>3 DEF FramingInv, Framing!DecodedWasEncoded
    <2>5. QED
        BY <2>2, <2>4 DEF FramingInv
<1>8. ASSUME NEW s \in Framing!Sides, NEW mtu \in MTUs, Framing!SetMTU(s, mtu)
      PROVE  FramingInv'
    <2>1. FramingTypes'
        BY <1>8 DEF Framing!SetMTU, Framing!Sides, FramingInv, FramingTypes
    <2>2. QED
        BY <1>8, <2>1 DEF Framing!SetMTU, FramingInv, Genuine, Framing!DecodedWasEncoded
<1>9. ASSUME UNCHANGED Framing!vars \/ Framing!CloseStream
             \/ \E n \in {0, 3} : Framing!SetRetryStrategy(n)
      PROVE  FramingInv'
    BY <1>9, <1>2 DEF Framing!vars, Framing!CloseStream, Framing!SetRetryStrategy,
                      FramingInv, FramingTypes
<1>10. QED
    BY <1>1, <1>3, <1>4, <1>5, <1>6, <1>7, <1>8, <1>9 DEF Framing!Next

\* MessageFraming: what a handler that verifies checksums decodes was encoded by a
\* handler of its protocol, whatever the link did to it (protocol.go:177, 303).
THEOREM NothingIsForged == Framing!Spec => []DecodedWasEncoded
<1>1. Framing!Init => FramingInv
    BY DEF Framing!Init, FramingInv, FramingTypes, Framing!DecodedWasEncoded, Framing!Sides,
           Framing!Protocols
<1>2. FramingInv /\ [Framing!Next]_(Framing!vars) => FramingInv'
    BY FramingStep
<1>3. QED
    BY <1>1, <1>2, PTL DEF Framing!Spec, FramingInv, DecodedWasEncoded

-----------------------------------------------------------------------------
(* PriorityScheduler.                                                       *)

\* Nothing is in s twice.
Distinct(s) == \A i, j \in 1 .. Len(s) : s[i] = s[j] => i = j

In(s) == {s[i] : i \in 1 .. Len(s)}

\* What is put at the end of a queue comes in, what is taken from its front goes out.
LEMMA PutAtEnd ==
    ASSUME NEW S, NEW s \in Seq(S), Distinct(s), NEW m \in S, m \notin In(s)
    PROVE  /\ Append(s, m) \in Seq(S) /\ Distinct(Append(s, m))
           /\ In(Append(s, m)) = In(s) \cup {m}
BY DEF Distinct, In

\* The other end of a queue.
LEMMA TakenFromFront ==
    ASSUME NEW S, NEW s \in Seq(S), Distinct(s), s # <<>>
    PROVE  /\ Tail(s) \in Seq(S) /\ Distinct(Tail(s)) /\ Head(s) \in S
           /\ Head(s) \in In(s) /\ In(Tail(s)) = In(s) \ {Head(s)}
<1>1. /\ Len(s) \in Nat \ {0} /\ Head(s) = s[1] /\ Tail(s) \in Seq(S)
      /\ Len(Tail(s)) = Len(s) - 1
      /\ \A i \in 1 .. Len(s) - 1 : Tail(s)[i] = s[i + 1]
    OBVIOUS
<1>2. Distinct(Tail(s))
    BY <1>1 DEF Distinct
<1>3. Head(s) \in S /\ Head(s) \in In(s)
    BY <1>1 DEF In
<1>4. \A x \in In(Tail(s)) : x \in In(s) /\ x # Head(s)
    BY <1>1 DEF In, Distinct
<1>5. ASSUME NEW x \in In(s), x # Head(s)
      PROVE  x \in In(Tail(s))
    <2>1. PICK i \in 1 .. Len(s) : x = s[i]
        BY DEF In
    <2>2. i - 1 \in 1 .. Len(s) - 1 /\ Tail(s)[i - 1] = x
        BY <1>1, <1>5, <2>1
    <2>3. QED
        BY <1>1, <2>2 DEF In
<1>6. QED
    BY <1>1, <1>2, <1>3, <1>4, <1>5

\* What a goroutine of the handler holds, as long as no queue is closed.
Hands == Queued \cup {"none", "waiting", "ended"}

\* The queues of the priorities, taken together.
Waiting == UNION {In(queues[p]) : p \in Scheduler!Priorities}

\* Nobody is at two places: q, o and t are the messages in the queues, s, d and k
\* what scheduler, distributor and workers hold.
Apart(q, o, t, s, d, k) ==
    /\ q \cap o = {} /\ q \cap t = {} /\ o \cap t = {}
    /\ s \notin q \cup o \cup t /\ d \notin q \cup o \cup t
    /\ s \in Queued => s # d
    /\ \A w \in Workers :
          /\ k[w] \notin q \cup o \cup t
          /\ k[w] \in Queued => k[w] # s /\ k[w] # d
          /\ \A v \in Workers \ {w} : k[w] \in Queued => k[v] # k[w]

\* Queues are closed when no worker is left, and none comes back.
HandlerLife ==
    /\ closed \in BOOLEAN
    /\ closed => handler = "stopped"
    /\ handler \in {"workers ended", "stopped"} => \A w \in Workers : workers[w] = "ended"
    /\ handler = "new" => \A w \in Workers : workers[w] = "none"
    /\ workers \in [Workers -> Hands \cup {Empty}]
    /\ reporting \subseteq Workers
    /\ \A w \in reporting : workers[w] \in Scheduler!Values

\* Until then only messages are on their way, each of them at one place.
Flow ==
    /\ queues \in [Scheduler!Priorities -> Seq(Queued)]
    /\ \A p \in Scheduler!Priorities : /\ Distinct(queues[p])
                                       /\ \A m \in In(queues[p]) : PriorityOf[m] = p
    /\ output \in Seq(Queued) /\ Distinct(output)
    /\ workQueue \in Seq(Queued) /\ Distinct(workQueue)
    /\ scheduler \in Hands /\ distributor \in Hands
    /\ workers \in [Workers -> Hands]
    /\ Apart(Waiting, In(output), In(workQueue), scheduler, distributor, workers)

SchedulerInv == HandlerLife /\ (~closed => Flow)

\* The assumptions about names.
LEMMA NamesApart ==
    /\ "none" \notin Queued /\ "waiting" \notin Queued /\ "ended" \notin Queued
    /\ Empty \notin Hands
    /\ \A m \in Queued : PriorityOf[m] \in Scheduler!Priorities
BY SchedulerAssumed DEF Scheduler!SchedulerAssumption, Hands

\* Every step keeps the order of starting and stopping.
LEMMA LifeStep ==
    ASSUME SchedulerInv, Scheduler!Next
    PROVE  HandlerLife'
<1> USE NamesApart DEF SchedulerInv, HandlerLife, Hands, Scheduler!Values
<1>1. CASE Scheduler!Start
    BY <1>1 DEF Scheduler!Start
<1>2. CASE Scheduler!StopCancels \/ Scheduler!Stop
    <2>1. /\ UNCHANGED <<workers, reporting>>
          /\ \/ handler = "running" /\ handler' = "cancelled" /\ UNCHANGED closed
             \/ /\ handler = "cancelled" /\ \A w \in Workers : workers[w] = "ended"
                /\ handler' = "workers ended" /\ UNCHANGED closed
             \/ handler = "workers ended" /\ handler' = "stopped"
        BY <1>2 DEF Scheduler!StopCancels, Scheduler!Stop, Scheduler!WorkersEnded,
                    Scheduler!CloseQueues, Scheduler!scheduling, Scheduler!passing,
                    Scheduler!working
    <2>2. handler # "stopped" /\ handler' # "new"
        BY <2>1
    <2>3. ~closed
        BY <2>2
    <2>4. (closed' \in BOOLEAN) /\ (closed' => handler' = "stopped")
        <3>1. CASE UNCHANGED closed
            BY <2>3, <3>1
        <3>2. CASE ~ UNCHANGED closed
            <4>1. /\ Scheduler!CloseQueues
                BY <1>2, <3>2 DEF Scheduler!StopCancels, Scheduler!Stop, Scheduler!WorkersEnded,
                                  Scheduler!scheduling
            <4>2. closed' = TRUE /\ handler' = "stopped"
                BY <4>1 DEF Scheduler!CloseQueues
            <4>3. QED
                BY <4>2
        <3>3. QED
            BY <3>1, <3>2
    <2>5. handler' \in {"workers ended", "stopped"} => \A w \in Workers : workers[w] = "ended"
        BY <2>1
    <2>6. workers' = workers /\ reporting' = reporting
        BY <2>1
    <2>7. QED
        BY <2>2, <2>4, <2>5, <2>6
<1>3. ASSUME UNCHANGED <<handler, closed, workers, reporting>>
      PROVE  HandlerLife'
    BY <1>3
<1>4. ASSUME NEW w \in Workers, Scheduler!Work(w)
      PROVE  HandlerLife'
    <2>1. workers[w] = "waiting" /\ workQueue # <<>>
        BY <1>4 DEF Scheduler!Work
    <2>2. Head(workQueue) \in Queued
        <3>1. ~closed
            BY <2>1
        <3>2. workQueue \in Seq(Queued) /\ Distinct(workQueue)
            BY <3>1 DEF Flow
        <3>3. QED
            BY <2>1, <3>2, TakenFromFront
    <2>3. /\ workers[w] = "waiting" /\ workers' = [workers EXCEPT ![w] = Head(workQueue)]
          /\ UNCHANGED <<handler, closed, reporting>>
        BY <1>4 DEF Scheduler!Work, Scheduler!scheduling
    <2>4. handler \notin {"new", "workers ended", "stopped"} /\ w \notin reporting
        BY <2>3
    <2>5. workers' \in [Workers -> Hands \cup {Empty}]
        BY <2>2, <2>3
    <2>6. QED
        BY <2>3, <2>4, <2>5
<1>5. ASSUME NEW w \in Workers, Scheduler!Processed(w) \/ Scheduler!Report(w)
      PROVE  HandlerLife'
    <2>1. /\ workers[w] \in Queued \cup {Empty} /\ UNCHANGED <<handler, closed>>
          /\ \/ workers' = workers /\ reporting' = reporting \cup {w}
             \/ /\ workers' = [workers EXCEPT ![w] = "waiting"]
                /\ reporting' = reporting \ {w}
        BY <1>5 DEF Scheduler!Processed, Scheduler!Report, Scheduler!scheduling, Scheduler!passing
    <2>2. handler \notin {"new", "workers ended", "stopped"}
        BY <2>1
    <2>3. workers' \in [Workers -> Hands \cup {Empty}]
        BY <2>1
    <2>4. QED
        BY <2>1, <2>2, <2>3
<1>6. ASSUME NEW w \in Workers, Scheduler!WorkerEnds(w)
      PROVE  HandlerLife'
    BY <1>6 DEF Scheduler!WorkerEnds, Scheduler!scheduling, Scheduler!passing
<1>7. QED
    BY <1>1, <1>2, <1>3, <1>4, <1>5, <1>6
    DEF Scheduler!Next, Scheduler!Submit, Scheduler!Tick, Scheduler!NewRound, Scheduler!PassOn,
        Scheduler!Serve, Scheduler!SchedulerEnds, Scheduler!Take, Scheduler!HandOver,
        Scheduler!DistributorEnds, Scheduler!Worker, Scheduler!scheduling, Scheduler!passing,
        Scheduler!working

\* A queue of one priority changes, the others stay.
LEMMA QueueMoves ==
    ASSUME Flow, NEW p \in Scheduler!Priorities, NEW s \in Seq(Queued), Distinct(s),
           \A m \in In(s) : PriorityOf[m] = p, queues' = [queues EXCEPT ![p] = s]
    PROVE  /\ queues' \in [Scheduler!Priorities -> Seq(Queued)]
           /\ \A r \in Scheduler!Priorities : /\ Distinct(queues'[r])
                                              /\ \A m \in In(queues'[r]) : PriorityOf[m] = r
           /\ Waiting' = (Waiting \ In(queues[p])) \cup In(s)
<1>1. /\ queues' \in [Scheduler!Priorities -> Seq(Queued)] /\ queues'[p] = s
      /\ \A r \in Scheduler!Priorities \ {p} : queues'[r] = queues[r]
    BY DEF Flow
<1>2. \A r \in Scheduler!Priorities \ {p} : In(queues[r]) \cap In(queues[p]) = {}
    BY DEF Flow
<1>3. Waiting' = UNION {In(queues'[r]) : r \in Scheduler!Priorities}
    BY DEF Waiting
<1>4. \A x : x \in Waiting' <=> x \in (Waiting \ In(queues[p])) \cup In(s)
    BY <1>1, <1>2, <1>3 DEF Waiting
<1>5. QED
    BY <1>1, <1>4 DEF Flow

\* The steps of the queues' and the scheduler's own.
LEMMA SchedulingKeeps ==
    ASSUME SchedulerInv, ~closed,
           \/ \E m \in Queued : Scheduler!Submit(m)
           \/ Scheduler!Tick \/ Scheduler!SchedulerEnds
    PROVE  Flow'
<1> USE NamesApart
<1>1. Flow
    BY DEF SchedulerInv
<1>2. Scheduler!ToSet(output) = In(output) /\ Scheduler!ToSet(workQueue) = In(workQueue)
    BY <1>1 DEF Flow, In, Scheduler!ToSet
<1>3. \A p \in Scheduler!Priorities : Scheduler!ToSet(queues[p]) = In(queues[p])
    BY <1>1 DEF Flow, In, Scheduler!ToSet
<1>4. ASSUME NEW m \in Queued, Scheduler!Submit(m)
      PROVE  Flow'
    <2> DEFINE p == PriorityOf[m]
    <2>1. /\ m \notin Waiting \cup In(output) \cup In(workQueue)
          /\ m # scheduler /\ m # distributor /\ \A w \in Workers : workers[w] # m
          /\ queues' = [queues EXCEPT ![p] = Append(queues[p], m)]
          /\ UNCHANGED <<scheduler, output, distributor, workQueue, workers>>
        <3>1. m \notin Scheduler!OnTheWay
            BY <1>4 DEF Scheduler!Submit
        <3>2. /\ \A r \in Scheduler!Priorities : m \notin Scheduler!ToSet(queues[r])
              /\ m \notin Scheduler!ToSet(output) /\ m \notin Scheduler!ToSet(workQueue)
              /\ m # scheduler /\ m # distributor /\ \A w \in Workers : workers[w] # m
            <4>1. \A r \in Scheduler!Priorities : m \notin Scheduler!ToSet(queues[r])
                BY <3>1 DEF Scheduler!OnTheWay
            <4>2. m \notin Scheduler!ToSet(output) /\ m \notin Scheduler!ToSet(workQueue)
                BY <3>1 DEF Scheduler!OnTheWay
            <4>3. m # scheduler /\ m # distributor
                BY <3>1 DEF Scheduler!OnTheWay
            <4>4. \A w \in Workers : workers[w] # m
                BY <3>1 DEF Scheduler!OnTheWay
            <4>5. QED
                BY <4>1, <4>2, <4>3, <4>4
        <3>3. /\ queues' = [queues EXCEPT ![p] = Append(queues[p], m)]
              /\ UNCHANGED <<scheduler, output, distributor, workQueue, workers>>
            BY <1>4 DEF Scheduler!Submit, Scheduler!passing, Scheduler!working
        <3> HIDE DEF p
        <3>4. QED
            BY <1>2, <1>3, <3>2, <3>3 DEF Waiting
    <2>2. p \in Scheduler!Priorities /\ queues[p] \in Seq(Queued) /\ Distinct(queues[p])
        BY <1>1 DEF Flow
    <2>3. m \notin In(queues[p])
        BY <2>1, <2>2 DEF Waiting
    <2>4. PICK s : s = Append(queues[p], m)
        OBVIOUS
    <2>5. s \in Seq(Queued) /\ Distinct(s) /\ In(s) = In(queues[p]) \cup {m}
        BY <2>2, <2>3, <2>4, PutAtEnd
    <2>6. \A x \in In(s) : PriorityOf[x] = p
        BY <1>1, <2>2, <2>5 DEF Flow
    <2>7. In(queues[p]) \subseteq Waiting
        BY <2>2 DEF Waiting
    <2> HIDE DEF p
    <2>8. /\ queues' \in [Scheduler!Priorities -> Seq(Queued)]
          /\ \A r \in Scheduler!Priorities : /\ Distinct(queues'[r])
                                             /\ \A x \in In(queues'[r]) : PriorityOf[x] = r
          /\ Waiting' = (Waiting \ In(queues[p])) \cup In(s)
        BY <1>1, <2>1, <2>2, <2>4, <2>5, <2>6, QueueMoves
    <2>9. Waiting' = Waiting \cup {m}
        BY <2>5, <2>7, <2>8
    <2>10. Apart(Waiting', In(output), In(workQueue), scheduler, distributor, workers)
        BY <1>1, <2>1, <2>9 DEF Flow, Apart
    <2>11. QED
        BY <1>1, <2>1, <2>8, <2>10 DEF Flow
<1>5. ASSUME NEW i \in DOMAIN Scheduler!Ordered, Scheduler!Serve(i)
      PROVE  Flow'
    <2> DEFINE p == Scheduler!Ordered[i]
    <2>1. /\ scheduler = "waiting" /\ queues[p] # <<>> /\ scheduler' = Head(queues[p])
          /\ queues' = [queues EXCEPT ![p] = Tail(queues[p])]
          /\ UNCHANGED <<output, distributor, workQueue, workers>>
        BY <1>5 DEF Scheduler!Serve, Scheduler!Serveable, Scheduler!passing, Scheduler!working
    <2>2. p \in Scheduler!Priorities
        BY <1>5 DEF Scheduler!Priorities, Scheduler!ToSet
    <2>3. queues[p] \in Seq(Queued) /\ Distinct(queues[p])
        BY <1>1, <2>2 DEF Flow
    <2>4. PICK s, m : s = Tail(queues[p]) /\ m = Head(queues[p])
        OBVIOUS
    <2> HIDE DEF p
    <2>5. /\ s \in Seq(Queued) /\ Distinct(s) /\ m \in Queued
          /\ m \in In(queues[p]) /\ In(s) = In(queues[p]) \ {m}
        BY <2>1, <2>3, <2>4, TakenFromFront
    <2>6. \A x \in In(s) : PriorityOf[x] = p
        BY <1>1, <2>2, <2>5 DEF Flow
    <2>7. In(queues[p]) \subseteq Waiting
        BY <2>2 DEF Waiting
    <2>8. /\ queues' \in [Scheduler!Priorities -> Seq(Queued)]
          /\ \A r \in Scheduler!Priorities : /\ Distinct(queues'[r])
                                             /\ \A x \in In(queues'[r]) : PriorityOf[x] = r
          /\ Waiting' = (Waiting \ In(queues[p])) \cup In(s)
        BY <1>1, <2>1, <2>2, <2>4, <2>5, <2>6, QueueMoves
    <2>9. Waiting' = Waiting \ {m} /\ m \in Waiting
        BY <2>5, <2>7, <2>8
    <2>10. Apart(Waiting', In(output), In(workQueue), m, distributor, workers)
        BY <1>1, <2>5, <2>9 DEF Flow, Apart
    <2>11. scheduler' = m /\ m \in Hands
        BY <2>1, <2>4, <2>5 DEF Hands
    <2>12. QED
        BY <1>1, <2>1, <2>8, <2>10, <2>11 DEF Flow
<1>6. CASE Scheduler!NewRound
    BY <1>1, <1>6 DEF Scheduler!NewRound, Scheduler!passing, Scheduler!working, Flow, Waiting
<1>7. CASE Scheduler!PassOn
    <2>1. /\ scheduler \in Queued /\ output' = Append(output, scheduler)
          /\ scheduler' = "waiting"
          /\ UNCHANGED <<queues, distributor, workQueue, workers>>
        BY <1>1, <1>7 DEF Scheduler!PassOn, Scheduler!Values, Scheduler!working, Flow
    <2>2. PICK s : s = Append(output, scheduler)
        OBVIOUS
    <2>3. scheduler \notin In(output)
        BY <1>1 DEF Flow, Apart
    <2>4. s \in Seq(Queued) /\ Distinct(s) /\ In(s) = In(output) \cup {scheduler}
        BY <1>1, <2>1, <2>2, <2>3, PutAtEnd DEF Flow
    <2>5. Waiting \subseteq Queued /\ In(output) \subseteq Queued /\ In(workQueue) \subseteq Queued
        BY <1>1 DEF Flow, In, Waiting
    <2>6. Apart(Waiting, In(s), In(workQueue), "waiting", distributor, workers)
        BY <1>1, <2>1, <2>4, <2>5 DEF Flow, Apart
    <2>7. Waiting' = Waiting /\ "waiting" \in Hands
        BY <2>1 DEF Waiting, Hands
    <2>8. QED
        BY <1>1, <2>1, <2>2, <2>4, <2>6, <2>7 DEF Flow
<1>8. CASE Scheduler!SchedulerEnds
    <2>1. /\ scheduler' = "ended"
          /\ UNCHANGED <<queues, output, distributor, workQueue, workers>>
        BY <1>8 DEF Scheduler!SchedulerEnds, Scheduler!passing, Scheduler!working
    <2>2. Waiting \subseteq Queued /\ In(output) \subseteq Queued /\ In(workQueue) \subseteq Queued
        BY <1>1 DEF Flow, In, Waiting
    <2>3. Apart(Waiting, In(output), In(workQueue), "ended", distributor, workers)
        BY <1>1, <2>2 DEF Flow, Apart
    <2>4. Waiting' = Waiting /\ "ended" \in Hands
        BY <2>1 DEF Waiting, Hands
    <2>5. QED
        BY <1>1, <2>1, <2>3, <2>4 DEF Flow
<1>9. QED
    BY <1>4, <1>5, <1>6, <1>7, <1>8 DEF Scheduler!Tick

\* The steps of the distributor and of the workers.
LEMMA WorkingKeeps ==
    ASSUME SchedulerInv, ~closed,
           \/ Scheduler!Start \/ Scheduler!Take \/ Scheduler!HandOver
           \/ Scheduler!DistributorEnds
           \/ \E w \in Workers : Scheduler!Worker(w) \/ Scheduler!WorkerEnds(w)
    PROVE  Flow'
<1> USE NamesApart
<1>1. Flow
    BY DEF SchedulerInv
<1>2. /\ Waiting \subseteq Queued /\ In(output) \subseteq Queued
      /\ In(workQueue) \subseteq Queued
    BY <1>1 DEF Flow, In, Waiting
<1>3. {"none", "waiting", "ended"} \subseteq Hands
    BY DEF Hands
<1>4. CASE Scheduler!Start
    <2>1. /\ scheduler' = "waiting" /\ distributor' = "waiting"
          /\ workers' = [w \in Workers |-> "waiting"]
          /\ UNCHANGED <<queues, output, workQueue>>
        BY <1>4 DEF Scheduler!Start
    <2>2. /\ workers' \in [Workers -> Hands] /\ \A w \in Workers : workers'[w] = "waiting"
        BY <1>3, <2>1
    <2>3. Apart(Waiting, In(output), In(workQueue), "waiting", "waiting", workers')
        BY <1>1, <1>2, <2>2 DEF Flow, Apart
    <2>4. Waiting' = Waiting
        BY <2>1 DEF Waiting
    <2>5. QED
        BY <1>1, <1>3, <2>1, <2>2, <2>3, <2>4 DEF Flow
<1>5. CASE Scheduler!Take
    <2>1. /\ distributor = "waiting" /\ output # <<>>
          /\ distributor' = Head(output) /\ output' = Tail(output)
          /\ UNCHANGED <<queues, scheduler, workQueue, workers>>
        BY <1>5 DEF Scheduler!Take, Scheduler!scheduling, Scheduler!working
    <2>2. PICK s, m : s = Tail(output) /\ m = Head(output)
        OBVIOUS
    <2>3. /\ s \in Seq(Queued) /\ Distinct(s) /\ m \in Queued
          /\ m \in In(output) /\ In(s) = In(output) \ {m}
        BY <1>1, <2>1, <2>2, TakenFromFront DEF Flow
    <2>4. Apart(Waiting, In(s), In(workQueue), scheduler, m, workers)
        BY <1>1, <2>3 DEF Flow, Apart
    <2>5. Waiting' = Waiting /\ m \in Hands
        BY <2>1, <2>3 DEF Waiting, Hands
    <2>6. QED
        BY <1>1, <2>1, <2>2, <2>3, <2>4, <2>5 DEF Flow
<1>6. CASE Scheduler!HandOver
    <2>1. /\ distributor \in Queued /\ workQueue' = Append(workQueue, distributor)
          /\ distributor' = "waiting"
          /\ UNCHANGED <<queues, scheduler, output, workers>>
        BY <1>1, <1>6 DEF Scheduler!HandOver, Scheduler!Values, Scheduler!scheduling,
                          Scheduler!working, Flow
    <2>2. PICK s : s = Append(workQueue, distributor)
        OBVIOUS
    <2>3. distributor \notin In(workQueue)
        BY <1>1 DEF Flow, Apart
    <2>4. s \in Seq(Queued) /\ Distinct(s) /\ In(s) = In(workQueue) \cup {distributor}
        BY <1>1, <2>1, <2>2, <2>3, PutAtEnd DEF Flow
    <2>5. Apart(Waiting, In(output), In(s), scheduler, "waiting", workers)
        BY <1>1, <1>2, <2>1, <2>4 DEF Flow, Apart
    <2>6. Waiting' = Waiting
        BY <2>1 DEF Waiting
    <2>7. QED
        BY <1>1, <1>3, <2>1, <2>2, <2>4, <2>5, <2>6 DEF Flow
<1>7. CASE Scheduler!DistributorEnds
    <2>1. /\ distributor' = "ended"
          /\ UNCHANGED <<queues, scheduler, output, workQueue, workers>>
        BY <1>7 DEF Scheduler!DistributorEnds, Scheduler!scheduling, Scheduler!working
    <2>2. Apart(Waiting, In(output), In(workQueue), scheduler, "ended", workers)
        BY <1>1, <1>2 DEF Flow, Apart
    <2>3. Waiting' = Waiting
        BY <2>1 DEF Waiting
    <2>4. QED
        BY <1>1, <1>3, <2>1, <2>2, <2>3 DEF Flow
<1>8. ASSUME NEW w \in Workers, Scheduler!Work(w)
      PROVE  Flow'
    <2>1. /\ workQueue # <<>> /\ workers' = [workers EXCEPT ![w] = Head(workQueue)]
          /\ workQueue' = Tail(workQueue)
          /\ UNCHANGED <<queues, scheduler, output, distributor>>
        BY <1>8 DEF Scheduler!Work, Scheduler!scheduling
    <2>2. PICK s, m : s = Tail(workQueue) /\ m = Head(workQueue)
        OBVIOUS
    <2>3. /\ s \in Seq(Queued) /\ Distinct(s) /\ m \in Queued
          /\ m \in In(workQueue) /\ In(s) = In(workQueue) \ {m}
        BY <1>1, <2>1, <2>2, TakenFromFront DEF Flow
    <2>4. m \in Hands
        BY <2>3 DEF Hands
    <2>5. /\ workers' \in [Workers -> Hands] /\ workers'[w] = m
          /\ \A v \in Workers \ {w} : workers'[v] = workers[v]
        BY <1>1, <2>1, <2>2, <2>4 DEF Flow
    <2>6. Apart(Waiting, In(output), In(s), scheduler, distributor, workers')
        BY <1>1, <2>3, <2>5 DEF Flow, Apart
    <2>7. Waiting' = Waiting
        BY <2>1 DEF Waiting
    <2>8. QED
        BY <1>1, <2>1, <2>2, <2>3, <2>5, <2>6, <2>7 DEF Flow
<1>9. ASSUME NEW w \in Workers, Scheduler!Processed(w)
      PROVE  Flow'
    BY <1>1, <1>9 DEF Scheduler!Processed, Scheduler!scheduling, Scheduler!passing, Flow, Waiting
<1>10. ASSUME NEW w \in Workers, NEW place \in {"waiting", "ended"},
              workers' = [workers EXCEPT ![w] = place],
              UNCHANGED <<queues, scheduler, output, distributor, workQueue>>
       PROVE  Flow'
    <2>1. /\ workers' \in [Workers -> Hands] /\ workers'[w] = place
          /\ \A v \in Workers \ {w} : workers'[v] = workers[v]
        BY <1>1, <1>3, <1>10 DEF Flow
    <2>2. place \notin Queued
        BY <1>10
    <2>3. Apart(Waiting, In(output), In(workQueue), scheduler, distributor, workers')
        BY <1>1, <1>2, <2>1, <2>2 DEF Flow, Apart
    <2>4. Waiting' = Waiting
        BY <1>10 DEF Waiting
    <2>5. QED
        BY <1>1, <1>10, <2>1, <2>3, <2>4 DEF Flow
<1>11. ASSUME NEW w \in Workers, Scheduler!Report(w) \/ Scheduler!WorkerEnds(w)
       PROVE  Flow'
    BY <1>10, <1>11 DEF Scheduler!Report, Scheduler!WorkerEnds, Scheduler!scheduling,
                        Scheduler!passing
<1>12. QED
    BY <1>4, <1>5, <1>6, <1>7, <1>8, <1>9, <1>11 DEF Scheduler!Worker

\* PriorityScheduler: what a worker processes was submitted and is processed by
\* nobody else, and no worker gets the zero message of a closed queue, for any number
\* of messages and workers and any weights (concurrent_message_handler.go:327, 475).
THEOREM MessagesAreWorkedOnOnce == Scheduler!Spec => []Scheduler!WorkedOnOnce
<1>1. Scheduler!Init => SchedulerInv
    <2>1. SUFFICES ASSUME Scheduler!Init PROVE SchedulerInv
        OBVIOUS
    <2>2. /\ <<>> \in Seq(Queued) /\ Distinct(<<>>) /\ In(<<>>) = {} /\ "none" \in Hands
        BY DEF Distinct, In, Hands
    <2>3. /\ queues \in [Scheduler!Priorities -> Seq(Queued)]
          /\ \A p \in Scheduler!Priorities : queues[p] = <<>>
          /\ workers \in [Workers -> Hands] /\ \A w \in Workers : workers[w] = "none"
        BY <2>1, <2>2 DEF Scheduler!Init
    <2>4. Waiting = {}
        BY <2>2, <2>3 DEF Waiting
    <2>5. /\ output = <<>> /\ workQueue = <<>> /\ scheduler = "none" /\ distributor = "none"
          /\ closed = FALSE /\ handler = "new" /\ reporting = {}
        BY <2>1 DEF Scheduler!Init
    <2>6. Apart(Waiting, In(output), In(workQueue), scheduler, distributor, workers)
        BY <2>2, <2>3, <2>4, <2>5, NamesApart DEF Apart
    <2>7. Flow
        BY <2>2, <2>3, <2>5, <2>6 DEF Flow
    <2>8. HandlerLife
        BY <2>3, <2>5 DEF HandlerLife
    <2>9. QED
        BY <2>7, <2>8 DEF SchedulerInv
<1>2. SchedulerInv /\ [Scheduler!Next]_(Scheduler!vars) => SchedulerInv'
    <2>1. SUFFICES ASSUME SchedulerInv, [Scheduler!Next]_(Scheduler!vars)
                   PROVE  SchedulerInv'
        OBVIOUS
    <2>2. CASE UNCHANGED Scheduler!vars
        BY <2>1, <2>2 DEF SchedulerInv, HandlerLife, Flow, Waiting, Scheduler!vars,
                          Scheduler!scheduling, Scheduler!passing, Scheduler!working
    <2>3. ASSUME UNCHANGED <<queues, scheduler, output, distributor, workQueue, workers>>, Flow
          PROVE  Flow'
        BY <2>3 DEF Flow, Waiting
    <2>4. CASE Scheduler!StopCancels \/ Scheduler!Stop
        <3>1. /\ UNCHANGED <<queues, scheduler, output, distributor, workQueue, workers>>
              /\ UNCHANGED closed \/ closed' = TRUE
            BY <2>4 DEF Scheduler!StopCancels, Scheduler!Stop, Scheduler!WorkersEnded,
                        Scheduler!CloseQueues, Scheduler!scheduling, Scheduler!passing,
                        Scheduler!working
        <3>2. HandlerLife'
            BY <2>1, <2>4, LifeStep DEF Scheduler!Next
        <3>3. QED
            BY <2>1, <2>3, <3>1, <3>2 DEF SchedulerInv
    <2>5. CASE /\ Scheduler!Next /\ ~ (Scheduler!StopCancels \/ Scheduler!Stop)
        <3>1. closed' = closed
            BY <2>5
            DEF Scheduler!Next, Scheduler!Start, Scheduler!Submit, Scheduler!Tick,
                Scheduler!NewRound, Scheduler!PassOn, Scheduler!Serve, Scheduler!SchedulerEnds,
                Scheduler!Take, Scheduler!HandOver, Scheduler!DistributorEnds,
                Scheduler!Worker, Scheduler!Work, Scheduler!Processed, Scheduler!Report,
                Scheduler!WorkerEnds, Scheduler!scheduling
        <3>2. HandlerLife'
            BY <2>1, <2>5, LifeStep
        <3>3. ~closed => Flow'
            BY <2>1, <2>5, SchedulingKeeps, WorkingKeeps DEF Scheduler!Next
        <3>4. QED
            BY <3>1, <3>2, <3>3 DEF SchedulerInv
    <2>6. QED
        BY <2>1, <2>2, <2>4, <2>5
<1>3. SchedulerInv => Scheduler!WorkedOnOnce
    <2>1. SUFFICES ASSUME SchedulerInv PROVE Scheduler!WorkedOnOnce
        OBVIOUS
    <2>2. CASE closed
        <3>1. \A w \in Workers : workers[w] = "ended"
            BY <2>1, <2>2 DEF SchedulerInv, HandlerLife
        <3>2. "ended" # Empty /\ "ended" \notin Queued
            BY NamesApart DEF Hands
        <3>3. QED
            BY <3>1, <3>2 DEF Scheduler!WorkedOnOnce
    <2>3. CASE ~closed
        BY <2>1, <2>3, NamesApart DEF SchedulerInv, Flow, Apart, Scheduler!WorkedOnOnce
    <2>4. QED
        BY <2>2, <2>3
<1>4. QED
    BY <1>1, <1>2, <1>3, PTL DEF Scheduler!Spec
=============================================================================
