----------------------------- MODULE MCMessaging -----------------------------
(* The instances of ReliableMessaging, PriorityScheduler, MessageFraming    *)
(* and FileTransfer for TLC.  A behaviour is one of a single module, which  *)
(* is chosen in the initial state.                                          *)
EXTENDS ReliableMessaging, MessageParts

CONSTANTS d1, m1, c1, w1, k1, k2, low, t1, t2, f1

VARIABLE part  \* the module that moves

MCReceiverOf == [x \in Msgs \cup Conns \cup Incoming |-> d1]

\* The weights of NewPriorityScheduler.
MCWeight ==
    [p \in {"critical", "high", "normal", "low"} |->
        CASE p = "critical" -> 8 [] p = "high" -> 4 [] p = "normal" -> 2 [] p = "low" -> 1]

MCPriorityOf == (k1 :> "critical") @@ (k2 :> "critical") @@ (low :> "low")

MCLengthOf == [m \in {m1} |-> 1]

\* Two files of one name, of three bytes and of one.
MCName == [t \in {t1, t2} |-> f1]
MCSize == (t1 :> 3) @@ (t2 :> 1)

MCInit ==
    /\ part \in {"reliable", "concurrent", "framing", "files"}
    /\ Init /\ Scheduler!Init /\ Framing!Init /\ Files!Init
    \* What the other modules may begin with does not matter to this one.
    /\ part # "framing" => /\ stream = 60
                           /\ \A s \in DOMAIN protocols :
                                 protocols[s] = [protocol |-> "RFCOMM", mtu |-> 60, checksum |-> TRUE]
    /\ part # "files" => \A p \in DOMAIN chunkSize : chunkSize[p] = 1

MCNext ==
    \/ part = "reliable" /\ Next /\ UNCHANGED <<part, schedulerVars, framingVars, transferVars>>
    \/ part = "concurrent" /\ Scheduler!Next /\ UNCHANGED <<part, vars, framingVars, transferVars>>
    \/ part = "framing" /\ Framing!Next /\ UNCHANGED <<part, vars, schedulerVars, transferVars>>
    \/ part = "files" /\ Files!Next /\ UNCHANGED <<part, vars, schedulerVars, framingVars>>

\* In its initial state no module enables a fair action.
MCSpec ==
    /\ MCInit /\ [][MCNext]_<<part, vars, schedulerVars, framingVars, transferVars>>
    /\ Fairness /\ Scheduler!Fairness
=============================================================================
