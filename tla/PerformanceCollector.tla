------------------------ MODULE PerformanceCollector ------------------------
(***************************************************************************)
(* The collector of performance figures                                    *)
(* (pkg/bluetooth/performance_collector.go): a loop reads, at every tick,  *)
(* the counters of the pool's active connections and then, under the lock, *)
(* works out throughput, latencies and signal strength.                    *)
(*                                                                         *)
(* Messages are counted like bytes; the history, figures of the system and *)
(* callbacks are left out, and so is the time a rate is divided by, with   *)
(* the return where none has passed since the last collection              *)
(* (performance_collector.go:369).                                         *)
(***************************************************************************)
EXTENDS Integers, FiniteSets, Sequences, FiniteSetsExt, SequencesExt

CONSTANTS
    Devices,
    MaxBytes,     \* bound: what a connection transfers, and all between two readings
    Modulus,      \* the counters' 2^64
    MaxSamples,   \* 100
    Loops         \* bound: 1 .. the number of calls of StartCollection

CollectorAssumption ==
    /\ IsFiniteSet(Devices) /\ MaxBytes \in Nat /\ Modulus \in Nat
    /\ Cardinality(Devices) * MaxBytes < Modulus
    /\ MaxSamples \in Nat \ {0}
    /\ IsFiniteSet(Loops) /\ Loops = 1 .. Cardinality(Loops)

VARIABLES
    live,        \* devices whose connection is in the pool and active
    bytes,       \* what each one's connection has transferred
    collecting,  \* isCollecting
    started,     \* the last context: collectionCtx is that of this call
    cancelled,   \* contexts that have ended
    loop,        \* each loop: where it is, the context it waits on, what it has read
    total,       \* throughputData.TotalBytes
    moved, steady,  \* since the last reading: bytes transferred; has no connection left
                    \* and no loop recorded while another one did?
    misled       \* has an increment been another than it should be?

pool == <<live, bytes>>
figures == <<total, misled>>
vars == <<pool, collecting, started, cancelled, loop, figures, moved, steady>>

Nothing == [total |-> 0, moved |-> 0, steady |-> FALSE]

TypeOK ==
    /\ live \subseteq Devices /\ bytes \in [Devices -> 0 .. MaxBytes]
    /\ collecting \in BOOLEAN
    /\ started \in Loops \cup {0} /\ cancelled \subseteq Loops
    /\ \A l \in Loops :
          /\ loop[l].at \in {"none", "waiting", "recording", "ended"}
          /\ loop[l].ctx \in Loops \cup {0}
          /\ loop[l].read.total \in 0 .. Modulus - 1
    /\ total \in 0 .. Modulus - 1
    /\ moved \in 0 .. MaxBytes /\ steady \in BOOLEAN /\ misled \in BOOLEAN

Init ==
    /\ live = {} /\ bytes = [d \in Devices |-> 0]
    /\ collecting = FALSE /\ started = 0 /\ cancelled = {}
    /\ loop = [l \in Loops |-> [at |-> "none", ctx |-> 0, read |-> Nothing]]
    /\ total = 0
    /\ moved = 0 /\ steady = TRUE
    /\ misled = FALSE

-----------------------------------------------------------------------------
(* The pool.                                                               *)

Connects(d) ==
    /\ d \notin live
    /\ live' = live \cup {d}
    /\ UNCHANGED <<bytes, collecting, started, cancelled, loop, figures, moved, steady>>

Transfers(d) ==
    /\ d \in live /\ bytes[d] < MaxBytes /\ moved < MaxBytes
    /\ bytes' = [bytes EXCEPT ![d] = @ + 1]
    /\ moved' = moved + 1
    /\ UNCHANGED <<live, collecting, started, cancelled, loop, figures, steady>>

Leaves(d) ==
    /\ d \in live
    /\ live' = live \ {d} /\ bytes' = [bytes EXCEPT ![d] = 0]
    /\ steady' = (steady /\ bytes[d] = 0)
    /\ UNCHANGED <<collecting, started, cancelled, loop, figures, moved>>

-----------------------------------------------------------------------------
(* The collector.                                                          *)

StartCollection(l) ==
    /\ ~collecting /\ l = started + 1
    /\ collecting' = TRUE /\ started' = l
    /\ loop' = [loop EXCEPT ![l] = [@ EXCEPT !.at = "waiting", !.ctx = l]]
    /\ UNCHANGED <<pool, cancelled, figures, moved, steady>>

StopCollection ==
    /\ collecting
    /\ collecting' = FALSE /\ cancelled' = cancelled \cup {started}
    /\ UNCHANGED <<pool, started, loop, figures, moved, steady>>

\* The context given to StartCollection ends: isCollecting stays as it is.
ContextEnds ==
    /\ started # 0
    /\ cancelled' = cancelled \cup {started}
    /\ UNCHANGED <<pool, collecting, started, loop, figures, moved, steady>>

LoopEnds(l) ==
    /\ loop[l].at = "waiting" /\ loop[l].ctx \in cancelled
    /\ loop' = [loop EXCEPT ![l].at = "ended"]
    /\ UNCHANGED <<pool, collecting, started, cancelled, figures, moved, steady>>

totalBytes == MapThenSumSet(LAMBDA d : bytes[d], live) % Modulus

Alone(l) == \A k \in Loops \ {l} : loop[k].at # "recording"

\* A tick: what the connections say is read without the lock.
collectCurrentMetrics(l) ==
    /\ loop[l].at = "waiting"
    /\ loop' = [k \in Loops |->
          IF k # l THEN [loop[k] EXCEPT !.read.steady = FALSE]
          ELSE [loop[l] EXCEPT !.at = "recording",
                   !.read = [total |-> totalBytes,
                             moved |-> moved, steady |-> steady /\ Alone(l)]]]
    /\ moved' = 0 /\ steady' = TRUE
    /\ UNCHANGED <<pool, collecting, started, cancelled, figures>>

\* Mutation: the total is not brought up to date.
TotalStays(read) == total

TotalBytes(read) == read.total

\* The counters are unsigned: an increment below 0 comes round.
bytesDelta(read) == (read.total - total) % Modulus

\* The rest of performCollection; the loop then waits on whatever context the
\* collector has by now.
Record(l) ==
    LET read == loop[l].read IN
    /\ loop[l].at = "recording"
    /\ misled' = (misled \/ (read.steady /\ bytesDelta(read) # read.moved))
    /\ total' = TotalBytes(read)
    /\ loop' = [loop EXCEPT ![l] = [at |-> "waiting", ctx |-> started, read |-> Nothing]]
    /\ steady' = (steady /\ Alone(l))
    /\ UNCHANGED <<pool, collecting, started, cancelled, moved>>

Next ==
    \/ StopCollection \/ ContextEnds
    \/ \E d \in Devices : Connects(d) \/ Transfers(d) \/ Leaves(d)
    \/ \E l \in Loops :
         StartCollection(l) \/ LoopEnds(l) \/ collectCurrentMetrics(l) \/ Record(l)

Spec == Init /\ [][Next]_vars

-----------------------------------------------------------------------------
(* What is worked out from the samples of a device's latency and signal.   *)

\* A sample is added at the end, the oldest one makes room.
Sampled(s, v) == IF Len(s) = MaxSamples THEN Append(Tail(s), v) ELSE Append(s, v)

calculateLatencyPercentile(s, percent) ==
    LET sorted == SortSeq(s, LAMBDA a, b : a < b)
    IN  sorted[1 + ((Len(s) - 1) * percent) \div 100]

SumOf(s) == FoldSeq(LAMBDA a, b : a + b, 0, s)

calculateMin(s) == CHOOSE m \in Range(s) : \A v \in Range(s) : m <= v
calculateMax(s) == CHOOSE m \in Range(s) : \A v \in Range(s) : v <= m

LatencyData(s) ==
    [average |-> SumOf(s) \div Len(s), min |-> calculateMin(s), max |-> calculateMax(s),
     p95 |-> calculateLatencyPercentile(s, 95), p99 |-> calculateLatencyPercentile(s, 99)]

\* The average is a fraction, kept as the sum it is made from.
RSSIData(s) ==
    [current |-> Last(s), sum |-> SumOf(s), min |-> calculateMin(s), max |-> calculateMax(s)]

\* How good a signal is, from 0, poor, to 3, excellent.
evaluateSignalQuality(rssi) == Cardinality({b \in {-50, -60, -70} : rssi >= b})

\* The averages of the two halves are more than 5 apart.
calculateRSSITrend(s) ==
    LET mid  == Len(s) \div 2
        rest == Len(s) - mid
        diff == SumOf(SubSeq(s, mid + 1, Len(s))) * mid - SumOf(SubSeq(s, 1, mid)) * rest
    IN  IF Len(s) < 2 THEN "stable"
        ELSE IF diff > 5 * mid * rest THEN "improving"
        ELSE IF diff < -5 * mid * rest THEN "degrading" ELSE "stable"

\* The window keeps the latest samples in their order.
WindowIsLatest(s) ==
    LET Kept[n \in 0 .. Len(s)] == IF n = 0 THEN <<>> ELSE Sampled(Kept[n - 1], s[n])
        from == IF Len(s) > MaxSamples THEN Len(s) - MaxSamples + 1 ELSE 1
    IN  Kept[Len(s)] = SubSeq(s, from, Len(s))

\* The figures are in order, and the 95th percentile is a sample: at most a
\* twentieth of the samples, one of a few, are above it.
PercentilesInOrder(s) ==
    LET data  == LatencyData(s)
        above == {i \in DOMAIN s : s[i] > data.p95}
    IN  /\ data.min <= data.average /\ data.average <= data.max
        /\ data.min <= data.p95 /\ data.p95 <= data.p99 /\ data.p99 <= data.max
        /\ data.p95 \in Range(s) /\ Cardinality(above) * 20 <= Len(s) + 19

\* The signal's figures are in order, too, and so is what they are called.
SignalInOrder(s) ==
    LET data == RSSIData(s)
        called(v) == evaluateSignalQuality(v)
    IN  /\ data.min * Len(s) <= data.sum /\ data.sum <= data.max * Len(s)
        /\ data.min <= data.current /\ data.current <= data.max
        /\ called(data.min) <= called(data.current) /\ called(data.current) <= called(data.max)

\* A signal that has only become better is not said to degrade, nor the other
\* way round.
TrendFollows(s) ==
    LET Only(R(_, _)) == \A i, j \in DOMAIN s : i < j => R(s[i], s[j])
    IN  /\ Only(LAMBDA a, b : a <= b) => calculateRSSITrend(s) # "degrading"
        /\ Only(LAMBDA a, b : a >= b) => calculateRSSITrend(s) # "improving"

-----------------------------------------------------------------------------
\* The increment is what the connections have transferred since the reading
\* before, unless one that was counted has left or two loops overlapped; the
\* total it is taken from survives stopping and starting
\* (performance_collector.go:118, 185, 365).
IncrementIsTraffic == ~misled
=============================================================================
