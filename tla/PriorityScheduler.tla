------------------------- MODULE PriorityScheduler -------------------------
(***************************************************************************)
(* The way of a message through ConcurrentMessageHandler                   *)
(* (concurrent_message_handler.go): a queue per priority, the scheduler    *)
(* that serves the queues by weight, the distributor, the pool of workers, *)
(* their Start and Stop.                                                   *)
(*                                                                         *)
(* A message that has been processed may be submitted again: it stands for *)
(* the next one of its priority.  A receive from a closed queue yields the *)
(* zero message, Empty here, of the priority of nobody.                    *)
(***************************************************************************)
EXTENDS Integers, Sequences, SequencesExt

CONSTANTS
    Messages,
    PriorityOf,       \* the priority of a message
    Workers,
    Weight,           \* PriorityScheduler.weights
    QueueSize,        \* the size the handler is made with
    Empty             \* the zero message

\* The order in which scheduleNext looks at the queues.
Ordered == <<"critical", "high", "normal", "low">>
Priorities == ToSet(Ordered)

\* What the constants must be.
SchedulerAssumption ==
    /\ PriorityOf \in [Messages -> Priorities]
    /\ Weight \in [Priorities -> Nat \ {0}]
    /\ QueueSize \in Nat
    /\ Empty \notin Messages
    /\ {"none", "waiting", "ended"} \cap (Messages \cup {Empty}) = {}

VARIABLES
    life,         \* "new", "running", "cancelled", "workers ended", "stopped"
    queues,       \* the queue of a priority
    closed,       \* the queues are closed
    counters,     \* PriorityScheduler.counters
    scheduler,    \* the scheduler: "none", "waiting", the message it passes on, "ended"
    output,       \* PriorityScheduler.outputQueue
    distributor,  \* the goroutine of distributeMessages, like the scheduler
    workQueue,    \* WorkerPool.workQueue
    workers,      \* the goroutine of a worker, like the scheduler
    reporting     \* workers whose result is not yet in the resultQueue

scheduling == <<queues, closed, counters, scheduler>>
passing    == <<output, distributor, workQueue>>
working    == <<workers, reporting>>
vars       == <<life, scheduling, passing, working>>

Values     == Messages \cup {Empty}
Goroutine  == Values \cup {"none", "waiting", "ended"}
cancelled  == life \notin {"new", "running"}

\* NewPriorityQueues: a size below four leaves three of the queues without room.
Capacity(p) == IF p = "normal" THEN QueueSize \div 2 ELSE QueueSize \div 4

TypeOK ==
    /\ life \in {"new", "running", "cancelled", "workers ended", "stopped"}
    /\ queues \in [Priorities -> Seq(Messages)]
    /\ \A p \in Priorities : Len(queues[p]) <= Capacity(p)
    /\ closed \in BOOLEAN
    /\ \A p \in Priorities : counters[p] \in 0..Weight[p]
    /\ scheduler \in Goroutine /\ distributor \in Goroutine
    /\ output \in Seq(Values) /\ workQueue \in Seq(Values)
    /\ Len(output) <= QueueSize /\ Len(workQueue) <= QueueSize
    /\ workers \in [Workers -> Goroutine]
    /\ reporting \subseteq Workers

Init ==
    /\ life = "new"
    /\ queues = [p \in Priorities |-> <<>>]
    /\ closed = FALSE
    /\ counters = [p \in Priorities |-> 0]
    /\ scheduler = "none" /\ distributor = "none"
    /\ output = <<>> /\ workQueue = <<>>
    /\ workers = [w \in Workers |-> "none"]
    /\ reporting = {}

-----------------------------------------------------------------------------
Start ==
    /\ life = "new"
    /\ life' = "running"
    /\ scheduler' = "waiting" /\ distributor' = "waiting"
    /\ workers' = [w \in Workers |-> "waiting"]
    /\ UNCHANGED <<queues, closed, counters, output, workQueue, reporting>>

\* Stop cancels the context of all goroutines, ...
StopCancels ==
    /\ life = "running"
    /\ life' = "cancelled"
    /\ UNCHANGED <<scheduling, passing, working>>

\* ... waits for the workers, ...
WorkersEnded ==
    /\ life = "cancelled"
    /\ \A w \in Workers : workers[w] = "ended"
    /\ life' = "workers ended"
    /\ UNCHANGED <<scheduling, passing, working>>

\* ... closes the queues, in one step here, and stops the reliable handler.
CloseQueues ==
    /\ life = "workers ended"
    /\ closed' = TRUE
    /\ life' = "stopped"
    /\ UNCHANGED <<queues, counters, scheduler, passing, working>>

-----------------------------------------------------------------------------
\* Messages that are somewhere on their way.
OnTheWay ==
    (UNION {ToSet(queues[p]) : p \in Priorities}) \cup ToSet(output) \cup ToSet(workQueue)
        \cup {scheduler, distributor} \cup {workers[w] : w \in Workers}

\* ProcessMessageConcurrent, when the queue has room and is open; otherwise it fails.
Submit(m) ==
    LET p == PriorityOf[m] IN
    /\ m \notin OnTheWay
    /\ ~closed /\ Len(queues[p]) < Capacity(p)
    /\ queues' = [queues EXCEPT ![p] = Append(@, m)]
    /\ UNCHANGED <<life, closed, counters, scheduler, passing, working>>

\* A queue that scheduleNext may serve: its weight is not used up, and a receive
\* from it does not block.
Serveable(p) == counters[p] < Weight[p] /\ (queues[p] # <<>> \/ closed)

\* A plausible bug: what is served is not counted.
ServeUncounted(i) ==
    LET p == Ordered[i] IN
    /\ scheduler = "waiting"
    /\ Serveable(p) /\ \A j \in 1..(i - 1) : ~Serveable(Ordered[j])
    /\ scheduler' = IF queues[p] # <<>> THEN Head(queues[p]) ELSE Empty
    /\ queues' = [queues EXCEPT ![p] = IF @ # <<>> THEN Tail(@) ELSE @]
    /\ UNCHANGED <<life, closed, counters, passing, working>>

\* A tick: scheduleNext serves the first such queue ...
Serve(i) ==
    LET p == Ordered[i] IN
    /\ scheduler = "waiting"
    /\ Serveable(p) /\ \A j \in 1..(i - 1) : ~Serveable(Ordered[j])
    /\ counters' = [counters EXCEPT ![p] = @ + 1]
    /\ scheduler' = IF queues[p] # <<>> THEN Head(queues[p]) ELSE Empty
    /\ queues' = [queues EXCEPT ![p] = IF @ # <<>> THEN Tail(@) ELSE @]
    /\ UNCHANGED <<life, closed, passing, working>>

\* ... and begins a new round if there is none.
NewRound ==
    /\ scheduler = "waiting"
    /\ \A p \in Priorities : ~Serveable(p)
    /\ counters' = [p \in Priorities |-> 0]
    /\ UNCHANGED <<life, queues, closed, scheduler, passing, working>>

\* The scheduler holds on to its message until the output queue has room.
PassOn ==
    /\ scheduler \in Values /\ Len(output) < QueueSize
    /\ output' = Append(output, scheduler)
    /\ scheduler' = "waiting"
    /\ UNCHANGED <<life, queues, closed, counters, distributor, workQueue, working>>

\* ps.ctx.Done(): a message in hand is dropped.
SchedulerEnds ==
    /\ cancelled /\ scheduler # "ended"
    /\ scheduler' = "ended"
    /\ UNCHANGED <<life, queues, closed, counters, passing, working>>

-----------------------------------------------------------------------------
Take ==
    /\ distributor = "waiting" /\ output # <<>>
    /\ distributor' = Head(output)
    /\ output' = Tail(output)
    /\ UNCHANGED <<life, scheduling, workQueue, working>>

HandOver ==
    /\ distributor \in Values /\ Len(workQueue) < QueueSize
    /\ workQueue' = Append(workQueue, distributor)
    /\ distributor' = "waiting"
    /\ UNCHANGED <<life, scheduling, output, working>>

DistributorEnds ==
    /\ cancelled /\ distributor # "ended"
    /\ distributor' = "ended"
    /\ UNCHANGED <<life, scheduling, output, workQueue, working>>

-----------------------------------------------------------------------------
Work(w) ==
    /\ workers[w] = "waiting" /\ workQueue # <<>>
    /\ workers' = [workers EXCEPT ![w] = Head(workQueue)]
    /\ workQueue' = Tail(workQueue)
    /\ UNCHANGED <<life, scheduling, output, distributor, reporting>>

\* The processor is done with the message; its result is still to be sent.
Processed(w) ==
    /\ workers[w] \in Values /\ w \notin reporting
    /\ reporting' = reporting \cup {w}
    /\ UNCHANGED <<life, scheduling, passing, workers>>

\* handleResults takes the result and throws it away; once the context is
\* cancelled and the resultQueue full, the worker gives it up.
Report(w) ==
    /\ w \in reporting
    /\ reporting' = reporting \ {w}
    /\ workers' = [workers EXCEPT ![w] = "waiting"]
    /\ UNCHANGED <<life, scheduling, passing>>

\* A plausible bug: the worker looks at the context only while it
\* takes a message.
WorkerEndsWhenIdle(w) ==
    /\ cancelled /\ workers[w] = "waiting" /\ workQueue # <<>>
    /\ workers' = [workers EXCEPT ![w] = "ended"]
    /\ UNCHANGED <<life, scheduling, passing, reporting>>

WorkerEnds(w) ==
    /\ cancelled /\ workers[w] = "waiting"
    /\ workers' = [workers EXCEPT ![w] = "ended"]
    /\ UNCHANGED <<life, scheduling, passing, reporting>>

-----------------------------------------------------------------------------
Tick == NewRound \/ PassOn \/ \E i \in DOMAIN Ordered : Serve(i)
Stop == WorkersEnded \/ CloseQueues
Worker(w) == Work(w) \/ Processed(w) \/ Report(w)

Next ==
    \/ Start \/ StopCancels \/ Stop
    \/ \E m \in Messages : Submit(m)
    \/ Tick \/ SchedulerEnds
    \/ Take \/ HandOver \/ DistributorEnds
    \/ \E w \in Workers : Worker(w) \/ WorkerEnds(w)

Spec == Init /\ [][Next]_vars

\* The ticker ticks, the goroutines run, and a select that finds its context
\* cancelled time and again takes that case at last: Go picks among the ready
\* cases at random.  Nothing makes anyone submit, start or stop.
Fairness ==
    /\ WF_vars(Tick) /\ WF_vars(Take \/ HandOver) /\ WF_vars(Stop)
    /\ \A w \in Workers : WF_vars(Worker(w)) /\ SF_vars(WorkerEnds(w))

FairSpec == Spec /\ Fairness

-----------------------------------------------------------------------------
\* What a worker processes was submitted and is processed by nobody else: the
\* goroutines pass a message on without a copy, and the zero messages of closed
\* queues come when no worker is left (concurrent_message_handler.go:327, 475).
WorkedOnOnce ==
    \A w \in Workers :
        /\ workers[w] # Empty
        /\ workers[w] \in Messages => \A v \in Workers \ {w} : workers[v] # workers[w]

\* A message in a queue is processed, however many messages of higher priority
\* keep coming, unless the handler is stopped (the weights of scheduleNext).
NoPriorityStarves ==
    \A m \in Messages :
        (life = "running" /\ m \in ToSet(queues[PriorityOf[m]]))
            ~> (cancelled \/ \E w \in reporting : workers[w] = m)

\* Stop returns, although the queues between the goroutines may be full and
\* nobody may empty them any more (WorkerPool.Stop waits for every worker).
StopReturns == (life = "cancelled") ~> (life = "stopped")
=============================================================================
