---------------------------- MODULE MessageParts ----------------------------
(* What messages pass through beside ReliableMessaging: PriorityScheduler,  *)
(* MessageFraming and FileTransfer.  They share no variable.                *)
CONSTANTS
    Queued, PriorityOf, Weight, Workers, HandlerSize, Empty,  \* PriorityScheduler
    Framed, Garbled, LengthOf, MTUs, InTransit,               \* MessageFraming
    Transfers, Name, Size, ChunkSizes, Nothing, Torn          \* FileTransfer

VARIABLES
    handler, queues, closed, counters, scheduler, output, distributor, workQueue,
    workers, reporting,
    protocols, encoded, wire, stream, strategy, framesSent, framesReceived,
    chunkSize, sender, net, receiver, folder, crashed

schedulerVars ==
    <<handler, queues, closed, counters, scheduler, output, distributor, workQueue,
      workers, reporting>>
framingVars  == <<protocols, encoded, wire, stream, strategy, framesSent, framesReceived>>
transferVars == <<chunkSize, sender, net, receiver, folder, crashed>>

Scheduler == INSTANCE PriorityScheduler WITH
    Messages <- Queued, QueueSize <- HandlerSize, life <- handler

Framing == INSTANCE MessageFraming WITH
    Messages <- Framed, Size <- LengthOf, handler <- protocols, retries <- strategy,
    sent <- framesSent, received <- framesReceived

Files == INSTANCE FileTransfer

ASSUME SchedulerAssumed == Scheduler!SchedulerAssumption
ASSUME FramingAssumed == Framing!FramingAssumption
ASSUME TransferAssumed == Files!TransferAssumption

\* PriorityScheduler: a message in a queue is processed, whatever keeps coming at
\* higher priority, unless the handler is stopped (scheduleNext).
NoPriorityStarves == Scheduler!NoPriorityStarves

\* PriorityScheduler: Stop returns (WorkerPool.Stop waits for every worker).
StopReturns == Scheduler!StopReturns

\* MessageFraming: what a handler that verifies checksums decodes was encoded by a
\* handler of its protocol (protocol.go:177, 303).
DecodedWasEncoded == Framing!DecodedWasEncoded

\* FileTransfer implements DownloadFolder: under a name there is nothing, a file as
\* it was announced, or what a failed write has left (main.go:398).
SavesWholeFiles == Files!SavesWholeFiles
=============================================================================
