---------------------------- MODULE FileTransfer ----------------------------
(***************************************************************************)
(* The file transfer example (examples/file-transfer/main.go): one process *)
(* sends files in chunks, another assembles, verifies and saves them.  The *)
(* component that carries the messages is external: one that it takes may  *)
(* be lost, delivered twice or overtake another.  Acknowledgements change  *)
(* nothing at the sender, which waits for none, and are left out.          *)
(*                                                                         *)
(* The bytes of a file differ from those of every other and from the zeros *)
(* a buffer is made with; two contents have one MD5 sum if they are equal. *)
(***************************************************************************)
EXTENDS Integers, FiniteSets, Sequences

CONSTANTS
    Transfers,   \* the files that are sent
    Name,        \* their file names
    Size,        \* their numbers of bytes
    ChunkSizes,  \* values of the flag -chunk-size
    Nothing,     \* no transfer, no file
    Torn         \* what a failed write leaves of a file

\* What the constants must be.
TransferAssumption ==
    /\ Size \in [Transfers -> Nat]
    /\ ChunkSizes \subseteq Nat \ {0}

VARIABLES
    chunkSize,   \* the flag of either process
    sender,      \* a transfer's sendFileChunks
    net,         \* messages under way
    receiver,    \* app.transfers of the receiving process
    folder,      \* its download directory
    crashed      \* has it panicked?

vars == <<chunkSize, sender, net, receiver, folder, crashed>>

\* The byte a buffer is made with.
Zero == <<>>

Content(t) == [i \in 1 .. Size[t] |-> <<t, i>>]

TotalChunks(t) == (Size[t] + chunkSize["sender"] - 1) \div chunkSize["sender"]

Chunks(t) == 0 .. TotalChunks(t) - 1

Info(t)     == [type |-> "file_info", transfer |-> t]
Chunk(t, i) == [type |-> "chunk", transfer |-> t, index |-> i]

Unsent == [at |-> "new", next |-> 0]

Init ==
    /\ chunkSize \in [{"sender", "receiver"} -> ChunkSizes]
    /\ sender = [t \in Transfers |-> Unsent]
    /\ net = {}
    /\ receiver = [t \in Transfers |-> Nothing]
    /\ folder = [n \in {Name[t] : t \in Transfers} |-> Nothing]
    /\ crashed = FALSE

-----------------------------------------------------------------------------
(* The sender.                                                             *)

\* A message the component takes.
sendMessage(m) == net' = net \cup {m}

\* sendMessage fails if the pool has no connection, or the component refuses.
SendFile(t) ==
    /\ sender[t].at = "new"
    /\ \/ /\ sendMessage(Info(t))
          /\ sender' = [sender EXCEPT ![t].at = "sending"]
       \/ /\ sender' = [sender EXCEPT ![t].at = "refused"]
          /\ UNCHANGED net
    /\ UNCHANGED <<chunkSize, receiver, folder, crashed>>

\* A chunk that is refused ends the transfer.
SendChunk(t) ==
    /\ sender[t].at = "sending" /\ sender[t].next \in Chunks(t)
    /\ \/ /\ sendMessage(Chunk(t, sender[t].next))
          /\ sender' = [sender EXCEPT ![t].next = @ + 1]
       \/ /\ sender' = [sender EXCEPT ![t].at = "ended"]
          /\ UNCHANGED net
    /\ UNCHANGED <<chunkSize, receiver, folder, crashed>>

SendEnds(t) ==
    /\ sender[t].at = "sending" /\ sender[t].next \notin Chunks(t)
    /\ sender' = [sender EXCEPT ![t].at = "ended"]
    /\ UNCHANGED <<chunkSize, net, receiver, folder, crashed>>

-----------------------------------------------------------------------------
(* The receiver: one goroutine takes the messages, one after the other.    *)

\* A second announcement of a transfer makes it start again.
HandleFileInfo(t) ==
    /\ receiver' = [receiver EXCEPT ![t] =
          [status |-> "transferring", got |-> {}, data |-> [i \in 1 .. Size[t] |-> Zero]]]
    /\ UNCHANGED <<folder, crashed>>

\* The buffer once chunk i has been copied to where the receiver's own chunk
\* size puts it; copy() cuts off what does not fit.
Copied(t, i) ==
    LET from == i * chunkSize["sender"]
        to   == i * chunkSize["receiver"]
        Taken(p) == p > to /\ p <= to + chunkSize["sender"] /\ from + p - to <= Size[t]
    IN  [p \in 1 .. Size[t] |-> IF Taken(p) THEN <<t, from + p - to>> ELSE receiver[t].data[p]]

\* Mutation: the sum is not compared.
AnyData(t, data) == TRUE

Intact(t, data) == data = Content(t)

\* Are all chunks there, with chunk i?
AllReceived(t, i) == Cardinality(receiver[t].got \cup {i}) = TotalChunks(t)

\* completeTransfer: a file whose sum is right is written.  A write that fails
\* may have replaced the old file or not.
CompleteTransfer(t, i) ==
    LET data == Copied(t, i)
        Becomes(status) ==
            receiver' = [receiver EXCEPT
                ![t] = [status |-> status, got |-> @.got \cup {i}, data |-> data]]
    IN  \/ ~Intact(t, data) /\ Becomes("failed") /\ UNCHANGED folder
        \/ /\ Intact(t, data)
           /\ Becomes("completed")
           /\ folder' = [folder EXCEPT ![Name[t]] = data]
        \/ /\ Intact(t, data)
           /\ Becomes("failed")
           /\ folder' \in {folder, [folder EXCEPT ![Name[t]] = Torn]}

HandleChunk(t, i) ==
    \/ receiver[t] = Nothing /\ UNCHANGED <<receiver, folder, crashed>>
    \/ /\ receiver[t] # Nothing /\ i \in receiver[t].got
       /\ UNCHANGED <<receiver, folder, crashed>>
    \/ /\ receiver[t] # Nothing /\ i \notin receiver[t].got
       /\ i * chunkSize["receiver"] > Size[t]    \* slice bounds out of range
       /\ crashed' = TRUE
       /\ receiver' = [u \in Transfers |-> Nothing]
       /\ UNCHANGED folder
    \/ /\ receiver[t] # Nothing /\ i \notin receiver[t].got
       /\ i * chunkSize["receiver"] <= Size[t]
       /\ \/ ~AllReceived(t, i)
             /\ receiver' = [receiver EXCEPT ![t].got = @ \cup {i}, ![t].data = Copied(t, i)]
             /\ UNCHANGED folder
          \/ AllReceived(t, i) /\ CompleteTransfer(t, i)
       /\ UNCHANGED crashed

ProcessMessage(m) ==
    \/ m.type = "file_info" /\ HandleFileInfo(m.transfer)
    \/ m.type = "chunk" /\ HandleChunk(m.transfer, m.index)

\* A message is taken, and may come again.
HandleMessages ==
    /\ ~crashed
    /\ \E m \in net : ProcessMessage(m) /\ net' \in {net, net \ {m}}
    /\ UNCHANGED <<chunkSize, sender>>

\* A message is lost.
Lose ==
    /\ \E m \in net : net' = net \ {m}
    /\ UNCHANGED <<chunkSize, sender, receiver, folder, crashed>>

\* The receiving process is started again: it remembers no transfer.
Restart ==
    /\ receiver' = [t \in Transfers |-> Nothing]
    /\ crashed' = FALSE
    /\ UNCHANGED <<chunkSize, sender, net, folder>>

Next ==
    \/ \E t \in Transfers : SendFile(t) \/ SendChunk(t) \/ SendEnds(t)
    \/ HandleMessages \/ Lose \/ Restart

Spec == Init /\ [][Next]_vars

-----------------------------------------------------------------------------
Folder == INSTANCE DownloadFolder WITH
    NameOf <- Name,
    ContentOf <- [t \in Transfers |-> Content(t)],
    announced <- {t \in Transfers : sender[t].at \in {"sending", "ended"}}

\* The sum of the whole file is compared before it is saved (main.go:400):
\* whatever is lost, repeated or overtaken, and whatever the two chunk sizes,
\* the folder holds under a name exactly one announced file, or the remains of
\* a failed write.
SavesWholeFiles == Folder!Spec
=============================================================================
