------------------------ MODULE DefaultAdapterProofs ------------------------
(* Proofs about DefaultAdapter, for any devices, connections and numbers of *)
(* scans, listeners and timers.                                             *)
EXTENDS DefaultAdapter, TLAPS

\* A channel is open while its flag is set: whoever looks at the flag under da.mu
\* finds it open.  An open channel whose flag is not set (the first one, before
\* anyone scans) is why the converse does not hold.
ChannelsOpen ==
    /\ scanning \in BOOLEAN /\ listening \in BOOLEAN
    /\ scanOpen \in BOOLEAN /\ connOpen \in BOOLEAN
    /\ scanning => scanOpen
    /\ listening => connOpen

AdapterInv == ChannelsOpen /\ NeverClosesTwice

\* What is closed only where its flag is set was open.
LEMMA StopsStep ==
    ASSUME AdapterInv, NEW scans \in BOOLEAN, NEW listens \in BOOLEAN, Stops(scans, listens),
           scans => scanning, listens => listening
    PROVE  AdapterInv'
<1>1. ChannelsOpen'
    BY DEF AdapterInv, ChannelsOpen, Stops
<1>2. crashed' = crashed
    BY DEF AdapterInv, ChannelsOpen, Stops
<1>3. QED
    BY <1>1, <1>2 DEF AdapterInv, NeverClosesTwice

\* Steps that leave the channels alone, and do not close one.
LEMMA OtherSteps ==
    ASSUME AdapterInv, UNCHANGED <<scanning, listening, scanOpen, connOpen>>,
           crashed' \in {crashed, "sent on closed", "fatal"}
    PROVE  AdapterInv'
BY DEF AdapterInv, ChannelsOpen, NeverClosesTwice

\* The calls keep an open channel behind every flag.
LEMMA CallStep ==
    ASSUME AdapterInv, Calls
    PROVE  AdapterInv'
<1>1. ASSUME NEW s \in Scans, Scan(s)
      PROVE  AdapterInv'
    BY <1>1 DEF Scan, AdapterInv, ChannelsOpen, NeverClosesTwice
<1>2. ASSUME NEW l \in Listeners, Listen(l)
      PROVE  AdapterInv'
    BY <1>2 DEF Listen, AdapterInv, ChannelsOpen, NeverClosesTwice
<1>3. CASE StopScan
    BY <1>3, StopsStep DEF StopScan
<1>4. CASE StopListen
    BY <1>4, StopsStep DEF StopListen
<1>5. CASE Disable \/ Shutdown
    BY <1>5, StopsStep DEF Disable, Shutdown, AdapterInv, ChannelsOpen
<1>6. CASE Enable \/ AcceptConnection \/ \E b \in BOOLEAN : SetDiscoverable(b)
    BY <1>6, OtherSteps DEF Enable, AcceptConnection, SetDiscoverable, chans
<1>7. CASE \E d \in Devices : Connect(d) \/ ConnectWaits(d) \/ Disconnect(d)
    BY <1>7, OtherSteps DEF Connect, ConnectWaits, Disconnect, chans
<1>8. QED
    BY <1>1, <1>2, <1>3, <1>4, <1>5, <1>6, <1>7 DEF Calls

\* So do the operations of a connection.
LEMMA OperationStep ==
    ASSUME AdapterInv, Operation
    PROVE  AdapterInv'
BY OtherSteps DEF Operation, OperationCloses, OperationForgets, OperationEnds,
                  ShutdownCancels, ShutdownReturns, chans

\* So do the goroutines.
LEMMA GoroutineStep ==
    ASSUME AdapterInv, Goroutines
    PROVE  AdapterInv'
<1>1. CASE \E c \in Conns :
            \/ ReceiverRuns(c) \/ ReceiverEnded(c) \/ ReceiverPanics(c)
            \/ ApplicationCloses(c) \/ CloseReturns(c)
    BY <1>1, OtherSteps DEF ReceiverRuns, ReceiverEnded, ReceiverPanics, ApplicationCloses,
                            CloseReturns, chans
<1>2. CASE \E s \in Scans :
            \/ DeviceFound(s) \/ CacheUpdated(s) \/ DeviceSent(s)
            \/ ScanFails(s) \/ ScanReturns(s)
    BY <1>2, OtherSteps DEF DeviceFound, CacheUpdated, DeviceSent, ScanFails,
                            ScanReturns, chans
<1>3. ASSUME NEW s \in Scans, ScanEnds(s)
      PROVE  AdapterInv'
    BY <1>3, StopsStep DEF ScanEnds, AdapterInv, ChannelsOpen
<1>4. CASE \E l \in Listeners :
            \/ \E c \in Conns : ListenerTicks(l, c)
            \/ ListenerInserts(l) \/ ListenerOffers(l) \/ ListenerEnds(l)
    BY <1>4, OtherSteps DEF ListenerTicks, ListenerInserts, ListenerOffers, ListenerEnds,
                            chans
<1>5. CASE \E t \in Timers : TimerExpires(t) \/ TimerFires(t) \/ TimerEnds(t)
    BY <1>5, OtherSteps DEF TimerExpires, TimerFires, TimerEnds, chans
<1>6. QED
    BY <1>1, <1>2, <1>3, <1>4, <1>5 DEF Goroutines

\* Neither scanChan nor connChan is closed twice, by however many scans and
\* listeners that end at whatever moment (adapter.go:519, 531, 575).
THEOREM ChannelsCloseOnce == Spec => []NeverClosesTwice
<1>1. Init => AdapterInv
    BY DEF Init, AdapterInv, ChannelsOpen, NeverClosesTwice
<1>2. AdapterInv /\ [Next]_vars => AdapterInv'
    <2>1. ASSUME AdapterInv, UNCHANGED vars
          PROVE  AdapterInv'
        BY <2>1, OtherSteps DEF vars, chans
    <2>2. QED
        BY <2>1, CallStep, OperationStep, GoroutineStep DEF Next
<1>3. QED
    BY <1>1, <1>2, PTL DEF Spec, AdapterInv
=============================================================================
