------------------------ MODULE ComponentCoordinator ------------------------
(***************************************************************************)
(* The coordinator of registered components (component_coordinator.go) and *)
(* the manager of their states (state_manager.go).                         *)
(*                                                                         *)
(* StartComponent and StopComponent hold no lock from their first to their *)
(* last step: calls for one component, and for one it depends on, overlap. *)
(* The state manager ignores a change its rules do not allow, and its      *)
(* callers ignore that.                                                    *)
(***************************************************************************)
CONSTANTS
    Components,    \* names
    DependsOn,     \* the dependencies each is registered with
    Instances,     \* what each instance can do, by name
    Starters,      \* goroutines that call StartComponent and StopComponent
    Nobody         \* no component

CoordinatorAssumption ==
    /\ DependsOn \in [Components -> SUBSET Components]
    /\ Instances \in [Components -> SUBSET {"start", "stop"}]
    /\ Nobody \notin Components

VARIABLES
    rules,       \* whether InitializeDefaultTransitionRules was called
    states,      \* csm.states; a name that is not there is not registered
    on,          \* whether the instance runs
    calls,       \* what each starter is doing
    overlapped   \* components for which two calls were under way at once

vars == <<rules, states, on, calls, overlapped>>

Statuses == {"stopped", "starting", "running", "stopping", "error"}
Resting == [op |-> "none", name |-> Nobody, step |-> "none"]

TypeOK ==
    /\ rules \in BOOLEAN
    /\ states \in [Components -> Statuses \cup {"none"}]
    /\ on \in [Components -> BOOLEAN]
    /\ calls \in [Starters -> {Resting} \cup
         [op : {"start", "stop"}, name : Components,
          step : {"announces", "acts", "succeeded", "failed"}]]
    /\ overlapped \in SUBSET Components

Init ==
    /\ rules \in BOOLEAN
    /\ states = [n \in Components |-> "none"]
    /\ on = [n \in Components |-> FALSE]
    /\ calls = [c \in Starters |-> Resting]
    /\ overlapped = {}

-----------------------------------------------------------------------------
\* transitionRules; without any, every change is allowed.
Allowed(from, to) ==
    \/ ~rules
    \/ from = "stopped"  /\ to = "starting"
    \/ from = "starting" /\ to \in {"running", "error"}
    \/ from = "running"  /\ to \in {"stopping", "error"}
    \/ from = "stopping" /\ to \in {"stopped", "error"}
    \/ from = "error"    /\ to \in {"stopped", "starting"}

SetState(n, to) ==
    states' = IF Allowed(states[n], to) THEN [states EXCEPT ![n] = to] ELSE states

CallsFor(n) == {c \in Starters : calls[c].name = n}

RegisterComponent(n) ==
    /\ states[n] = "none"
    /\ states' = [states EXCEPT ![n] = "stopped"]
    /\ UNCHANGED <<rules, on, calls, overlapped>>

\* The call finds the component and, to start it, its dependencies running.
CallBegins(c, op, n) ==
    /\ calls[c] = Resting /\ states[n] # "none"
    /\ op = "start" => \A d \in DependsOn[n] : states[d] = "running"
    /\ calls' = [calls EXCEPT ![c] = [op |-> op, name |-> n, step |-> "announces"]]
    /\ overlapped' = IF CallsFor(n) = {} THEN overlapped ELSE overlapped \cup {n}
    /\ UNCHANGED <<rules, states, on>>

Announces(c) ==
    /\ calls[c].step = "announces"
    /\ SetState(calls[c].name, IF calls[c].op = "start" THEN "starting" ELSE "stopping")
    /\ calls' = [calls EXCEPT ![c].step = "acts"]
    /\ UNCHANGED <<rules, on, overlapped>>

\* startComponentInstance and stopComponentInstance.  An instance that lacks
\* the method is not called.  One that runs refuses to start or starts again;
\* a start that fails leaves it as it was, a stop that fails leaves it either way.
Acts(c, succeeds) ==
    /\ calls[c].step = "acts"
    /\ LET n == calls[c].name
           op == calls[c].op IN
       /\ succeeds => op \in Instances[n]
       /\ on' \in { [on EXCEPT ![n] = b] : b \in
              IF op \notin Instances[n] \/ (op = "start" /\ ~succeeds) THEN {on[n]}
              ELSE IF op = "start" THEN {TRUE}
              ELSE IF succeeds THEN {FALSE} ELSE {FALSE, on[n]} }
    /\ calls' = [calls EXCEPT ![c].step = IF succeeds THEN "succeeded" ELSE "failed"]
    /\ UNCHANGED <<rules, states, overlapped>>

\* Mutation: the error is logged and the call goes on.
ErrorIsLogged(c) ==
    /\ calls[c].step \in {"succeeded", "failed"}
    /\ SetState(calls[c].name, IF calls[c].op = "start" THEN "running" ELSE "stopped")
    /\ calls' = [calls EXCEPT ![c] = Resting]
    /\ UNCHANGED <<rules, on, overlapped>>

Settles(c) ==
    /\ calls[c].step \in {"succeeded", "failed"}
    /\ SetState(calls[c].name,
           IF calls[c].step = "failed" THEN "error"
           ELSE IF calls[c].op = "start" THEN "running" ELSE "stopped")
    /\ calls' = [calls EXCEPT ![c] = Resting]
    /\ UNCHANGED <<rules, on, overlapped>>

Next ==
    \/ \E n \in Components : RegisterComponent(n)
    \/ \E c \in Starters :
         \/ \E op \in {"start", "stop"}, n \in Components : CallBegins(c, op, n)
         \/ Announces(c) \/ Settles(c)
         \/ \E succeeds \in BOOLEAN : Acts(c, succeeds)

Spec == Init /\ [][Next]_vars

-----------------------------------------------------------------------------
\* With or without rules, whatever failed before and whatever was started twice
\* or stopped while it was off: between calls that did not overlap, a component
\* that is said to run runs and one that is said to be stopped does not
\* (component_coordinator.go:286, 292, 314, 320).
StatusAgrees ==
    \A n \in Components : CallsFor(n) = {} /\ n \notin overlapped =>
        /\ states[n] = "running" => on[n]
        /\ states[n] = "stopped" => ~on[n]
=============================================================================
