-------------------------- MODULE MCServerSessions --------------------------
(* The instances of ServerLifecycle and ServerSessions in which a device    *)
(* comes back.  A behaviour is one of the server or one of its sessions,    *)
(* and is chosen in the initial state.                                      *)
EXTENDS ServerAccess

CONSTANTS d1, s1, s2

VARIABLE part  \* the module that moves

\* The device comes back while its last session is still being cleaned up.
MCDeviceOf == [s \in {s1, s2} |-> d1]

MCInit ==
    /\ part \in {"server", "sessions"}
    /\ Init /\ Access!Init

MCNext ==
    \/ part = "server" /\ Next /\ UNCHANGED <<part, sessionVars>>
    \/ part = "sessions" /\ Access!Next /\ UNCHANGED <<part, vars>>

\* No fair action of a module is enabled in its initial state.
MCSpec ==
    /\ MCInit /\ [][MCNext]_<<part, vars, sessionVars>>
    /\ Fairness /\ Access!Fairness
=============================================================================
