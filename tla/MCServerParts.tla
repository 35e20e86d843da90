---------------------------- MODULE MCServerParts ----------------------------
(* The instance of ServerLifecycle for TLC, and those of the parts beside   *)
(* the server.  A behaviour is one of a single module, which is chosen in   *)
(* the initial state.                                                       *)
EXTENDS ServerLifecycle, ServerParts, TLC

CONSTANTS d1, c1, c2, k1, k2, l1, l2, s1, s2, i1, i2

VARIABLE part  \* the module that moves

\* c2 needs c1, which cannot be stopped.
MCDependsOn == c1 :> {} @@ c2 :> {c1}
MCInstances == c1 :> {"start"} @@ c2 :> {"start", "stop"}

\* A key in use, a stored one, a session's, another caller's, and a new one.
MCKeys  == 1 .. 5
MCPairs == 1 .. 2

Parts == {"server", "component", "coordinator", "health", "security", "store", "config"}

MCInit ==
    /\ part \in Parts
    /\ Init /\ Component!Init /\ Coordinator!Init /\ Health!Init
    /\ Security!Init /\ Store!Init /\ Reload!Init
    \* What the other modules may begin with does not matter to this one.
    /\ part # "coordinator" => ~rules
    /\ part # "security" => encrypting
    /\ part # "store" => ~autoSave.mode

MCNext ==
    \/ part = "server" /\ Next
       /\ UNCHANGED <<part, compVars, coordinatorVars, healthVars, securityVars, storeVars, configVars>>
    \/ part = "component" /\ Component!Next
       /\ UNCHANGED <<part, vars, coordinatorVars, healthVars, securityVars, storeVars, configVars>>
    \/ part = "coordinator" /\ Coordinator!Next
       /\ UNCHANGED <<part, vars, compVars, healthVars, securityVars, storeVars, configVars>>
    \/ part = "health" /\ Health!Next
       /\ UNCHANGED <<part, vars, compVars, coordinatorVars, securityVars, storeVars, configVars>>
    \/ part = "security" /\ Security!Next
       /\ UNCHANGED <<part, vars, compVars, coordinatorVars, healthVars, storeVars, configVars>>
    \/ part = "store" /\ Store!Next
       /\ UNCHANGED <<part, vars, compVars, coordinatorVars, healthVars, securityVars, configVars>>
    \/ part = "config" /\ Reload!Next
       /\ UNCHANGED <<part, vars, compVars, coordinatorVars, healthVars, securityVars, storeVars>>

MCSpec ==
    MCInit /\ [][MCNext]_<<part, vars, compVars, coordinatorVars, healthVars, securityVars,
                           storeVars, configVars>>
=============================================================================
