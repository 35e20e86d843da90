------------------------------ MODULE MCDevices ------------------------------
(* The instances of DeviceCache and DeviceServices for TLC.  A behaviour is *)
(* one of the manager's cache or one of its services, and is chosen in the  *)
(* initial state.                                                           *)
EXTENDS DeviceParts

VARIABLE part  \* the module that moves: "cache" or "services"

MCMaxActive == [kind \in {"pairing", "scan"} |-> 1]

MCInit == part \in {"cache", "services"} /\ Init /\ Cache!Init

MCNext ==
    \/ part = "services" /\ Next /\ UNCHANGED <<part, cacheVars>>
    \/ part = "cache" /\ Cache!Next /\ UNCHANGED <<part, vars>>

\* No fair action of the services is enabled in their initial state.
MCSpec == MCInit /\ [][MCNext]_<<part, vars, cacheVars>> /\ Fairness
=============================================================================
