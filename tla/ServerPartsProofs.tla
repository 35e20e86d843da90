------------------------- MODULE ServerPartsProofs --------------------------
(* Proofs about the parts that work beside the server, which ServerParts    *)
(* puts side by side: each for any constants, each from an inductive        *)
(* invariant of its own.                                                    *)
EXTENDS Integers, ServerParts, SequencesExt, FiniteSetTheorems, TLAPS

-----------------------------------------------------------------------------
(* FileKeyStore.                                                            *)

\* One save at a time; while it runs, memory stays, and the temporary file once
\* it is written holds what memory holds.
OneSave ==
    /\ saving \in [Store!Savers -> {"no", "begun", "written"}]
    /\ Store!NoWriter \/ saving["loop"] = "no"
    /\ \A s \in Store!Savers : saving[s] = "written" => tmp = storeKeys

\* What the caller relies on, or may once the operation's save succeeds, is in
\* memory.
MemoryAgrees ==
    \A d \in StoreDevices :
        /\ acked[d] # Unknown => storeKeys[d] = acked[d]
        /\ ~Store!NoWriter /\ returns[d] # Unknown => storeKeys[d] = returns[d]

StoreInv == OneSave /\ MemoryAgrees /\ Store!AckedIsDurable

\* An operation has the store for itself, and what it changes is not relied on.
LEMMA ChangesStep ==
    ASSUME StoreInv, Store!Unlocked, NEW D, NEW new, Store!Changes(D, new)
    PROVE  StoreInv'
<1> USE DEF StoreInv, OneSave, MemoryAgrees, Store!AckedIsDurable, Store!Unlocked,
            Store!Changes, Store!Savers, Store!NoWriter
<1>1. OneSave'
    OBVIOUS
<1>2. MemoryAgrees' /\ Store!AckedIsDurable'
    OBVIOUS
<1>3. QED
    BY <1>1, <1>2

\* Every step keeps what is relied on in memory and in the file.
LEMMA StoreStep ==
    ASSUME StoreInv, [Store!Next]_(Store!vars)
    PROVE  StoreInv'
<1> USE DEF StoreInv, OneSave, MemoryAgrees, Store!AckedIsDurable, Store!Savers,
            Store!NoWriter
<1>1. ASSUME NEW d \in StoreDevices, NEW k \in StoreKeys, Store!StoreKey(d, k)
      PROVE  StoreInv'
    BY <1>1, ChangesStep DEF Store!StoreKey
<1>2. ASSUME NEW d \in StoreDevices, Store!DeleteKey(d)
      PROVE  StoreInv'
    BY <1>2, ChangesStep DEF Store!DeleteKey
<1>3. ASSUME NEW D \in SUBSET StoreDevices, Store!CleanupOldKeys(D)
      PROVE  StoreInv'
    BY <1>3, ChangesStep DEF Store!CleanupOldKeys
<1>4. CASE Store!Restore
    BY <1>4 DEF Store!Restore, Store!Unlocked
<1>5. CASE Store!CloseSaves
    BY <1>5 DEF Store!CloseSaves, Store!Unlocked
<1>6. CASE Store!LoopSaves
    BY <1>6 DEF Store!LoopSaves
<1>7. ASSUME NEW s \in Store!Savers, Store!SaveWrites(s)
      PROVE  StoreInv'
    BY <1>7 DEF Store!SaveWrites
<1>8. ASSUME NEW s \in Store!Savers, Store!SaveRenames(s)
      PROVE  StoreInv'
    BY <1>8 DEF Store!SaveRenames
<1>9. ASSUME NEW s \in Store!Savers, Store!SaveFails(s)
      PROVE  StoreInv'
    BY <1>9 DEF Store!SaveFails
<1>10. CASE Store!Restart
    BY <1>10 DEF Store!Restart
<1>11. CASE UNCHANGED <<storeKeys, file, tmp, saving, returns, acked>>
    BY <1>11
<1>12. QED
    BY <1>1, <1>2, <1>3, <1>4, <1>5, <1>6, <1>7, <1>8, <1>9, <1>10, <1>11
    DEF Store!Next, Store!CloseBegins, Store!LoopEnds, Store!Backup, Store!vars

\* What an operation has reported as saved is in the file, whatever failed or died
\* since, until the caller changes it: for any devices and keys, with the loop or
\* without it (keystore.go:110, 162, 293, 385).
THEOREM SavedIsDurable == Store!Spec => []AckedIsDurable
<1>1. Store!Init => StoreInv
    BY DEF Store!Init, Store!Empty, StoreInv, OneSave, MemoryAgrees, Store!AckedIsDurable,
           Store!Savers, Store!NoWriter
<1>2. StoreInv /\ [Store!Next]_(Store!vars) => StoreInv'
    BY StoreStep
<1>3. StoreInv => AckedIsDurable
    BY DEF StoreInv, AckedIsDurable
<1>4. QED
    BY <1>1, <1>2, <1>3, PTL DEF Store!Spec

-----------------------------------------------------------------------------
(* ConfigReload.                                                            *)

Subscription ==
    [channel : {"none", "open", "closed"}, id : SubscriberIds \cup {"none"},
     ended : {"no", "yes", "gone"}, buffer : Int]

\* A subscriber in the map has an open channel, under its own ID alone.
SubscribedIsOpen ==
    /\ subscription \in [Subscribers -> Subscription]
    /\ \A id \in DOMAIN subscribed :
          /\ subscribed[id] \in Subscribers
          /\ subscription[subscribed[id]].channel = "open"
          /\ subscription[subscribed[id]].id = id

ReloadInv == SubscribedIsOpen /\ Reload!NotifierNeverPanics

\* Closing channels changes nothing else.
LEMMA ClosedChannels ==
    ASSUME subscription \in [Subscribers -> Subscription], NEW S
    PROVE  /\ Reload!Closed(S) \in [Subscribers -> Subscription]
           /\ \A s \in Subscribers :
                 /\ Reload!Closed(S)[s].id = subscription[s].id
                 /\ s \notin S => Reload!Closed(S)[s] = subscription[s]
BY DEF Reload!Closed, Subscription

\* Every step keeps the map to open channels, and closes or sends to no other.
LEMMA ReloadStep ==
    ASSUME ReloadInv, [Reload!Next]_(Reload!vars)
    PROVE  ReloadInv'
<1> USE DEF ReloadInv, SubscribedIsOpen, Reload!NotifierNeverPanics
<1>1. ASSUME NEW s \in Subscribers, NEW id \in SubscriberIds, Reload!Subscribe(s, id)
      PROVE  ReloadInv'
    BY <1>1 DEF Reload!Subscribe, Reload!NoSubscription, Subscription
<1>2. ASSUME NEW s \in Subscribers, Reload!Read(s)
      PROVE  ReloadInv'
    BY <1>2 DEF Reload!Read, Subscription
<1>3. ASSUME NEW s \in Subscribers, Reload!SubscriberContextEnds(s)
      PROVE  ReloadInv'
    BY <1>3 DEF Reload!SubscriberContextEnds, Subscription
<1>4. ASSUME NEW s \in Subscribers, Reload!Unsubscribe(s)
      PROVE  ReloadInv'
    <2> DEFINE id == subscription[s].id
               S  == IF id \in DOMAIN subscribed THEN {subscribed[id]} ELSE {}
    <2>1. /\ subscription' = [Reload!Closed(S) EXCEPT ![s].ended = "gone"]
          /\ panicked' = Reload!Panics(S)
          /\ subscribed' = [i \in DOMAIN subscribed \ {id} |-> subscribed[i]]
        BY <1>4 DEF Reload!Unsubscribe
    <2>2. \A r \in S : subscription[r].channel = "open"
        OBVIOUS
    <2>3. \A i \in DOMAIN subscribed \ {id} : subscribed[i] \notin S
        OBVIOUS
    <2>4. /\ subscription' \in [Subscribers -> Subscription]
          /\ \A r \in Subscribers : subscription'[r].id = subscription[r].id
          /\ \A r \in Subscribers \ S : subscription'[r].channel = subscription[r].channel
        <3> HIDE DEF S
        <3>1. Reload!Closed(S) \in [Subscribers -> Subscription]
            BY ClosedChannels
        <3>2. QED
            BY <2>1, <3>1, ClosedChannels DEF Subscription
    <2>5. ~panicked'
        BY <2>1, <2>2 DEF Reload!Panics
    <2> HIDE DEF id, S
    <2>6. \A i \in DOMAIN subscribed' :
              i \in DOMAIN subscribed \ {id} /\ subscribed'[i] = subscribed[i]
        BY <2>1
    <2>7. QED
        BY <2>3, <2>4, <2>5, <2>6
<1>5. ASSUME NEW p \in Pairs, Reload!Notify(p)
      PROVE  ReloadInv'
    <2>1. /\ subscription' \in [Subscribers -> Subscription]
          /\ \A s \in Subscribers : /\ subscription'[s].id = subscription[s].id
                                    /\ subscription'[s].channel = subscription[s].channel
        <3> DEFINE to == {subscribed[id] : id \in DOMAIN subscribed}
        <3>1. \/ UNCHANGED subscription
              \/ subscription' = [s \in Subscribers |->
                     IF s \in to /\ subscription[s].buffer < Buffer
                     THEN [subscription[s] EXCEPT !.buffer = @ + 1] ELSE subscription[s]]
            BY <1>5 DEF Reload!Notify
        <3> HIDE DEF to
        <3>2. QED
            BY <3>1 DEF Subscription
    <2>2. ~panicked' /\ UNCHANGED subscribed
        BY <1>5 DEF Reload!Notify
    <2>3. QED
        BY <2>1, <2>2
<1>6. CASE Reload!CloseNotifier
    <2>1. subscription' \in [Subscribers -> Subscription]
        BY <1>6, ClosedChannels DEF Reload!CloseNotifier
    <2>2. ~panicked'
        BY <1>6 DEF Reload!CloseNotifier, Reload!Panics
    <2>3. DOMAIN subscribed' = {}
        BY <1>6 DEF Reload!CloseNotifier, Reload!NoSubscribers
    <2>4. QED
        BY <2>1, <2>2, <2>3
<1>7. CASE UNCHANGED <<subscription, subscribed, panicked>>
    BY <1>7
<1>8. QED
    BY <1>1, <1>2, <1>3, <1>4, <1>5, <1>6, <1>7
    DEF Reload!Next, Reload!StopWatching, Reload!FileChanges, Reload!StartWatching,
        Reload!ContextEnds, Reload!WatcherTicks, Reload!WatcherLoads, Reload!WatcherSends,
        Reload!WatcherEnds, Reload!HandlerTakes, Reload!HandlerUpdates, Reload!HandlerEnds,
        Reload!vars, Reload!notifying

\* No subscriber's channel is closed twice or sent to once it is closed, for any
\* subscribers and IDs, also where two of them share one (notifier.go:76, 106, 118, 142).
THEOREM ChannelsCloseOnce == Reload!Spec => []NotifierNeverPanics
<1>1. Reload!Init => ReloadInv
    BY DEF Reload!Init, Reload!NoSubscription, ReloadInv, SubscribedIsOpen, Subscription,
           Reload!NotifierNeverPanics
<1>2. ReloadInv /\ [Reload!Next]_(Reload!vars) => ReloadInv'
    BY ReloadStep
<1>3. ReloadInv => NotifierNeverPanics
    BY DEF ReloadInv, NotifierNeverPanics
<1>4. QED
    BY <1>1, <1>2, <1>3, PTL DEF Reload!Spec

-----------------------------------------------------------------------------
(* ComponentCoordinator.                                                    *)

CoordinatorTypes ==
    /\ states \in [Components -> Coordinator!Statuses \cup {"none"}]
    /\ on \in [Components -> BOOLEAN]
    /\ calls \in [Starters -> {Coordinator!Resting} \cup
         [op : {"start", "stop"}, name : Components,
          step : {"announces", "acts", "succeeded", "failed"}]]

\* A component that is not registered does not run, and nobody calls it.
UnregisteredRests ==
    \A n \in Components : states[n] = "none" =>
        ~on[n] /\ \A c \in Starters : calls[c].name # n

\* Of a component whose calls did not overlap, the state agrees with the instance
\* during a call, too: a call that has announced itself has left the state it is
\* going to leave, whether the rules allowed that or not.
StatesAgree ==
    \A n \in Components \ overlapped :
        /\ states[n] = "running" => on[n]
        /\ states[n] = "stopped" => ~on[n]
        /\ \A c, d \in Starters : calls[c].name = n /\ calls[d].name = n => c = d
        /\ \A c \in Starters : calls[c].name = n /\ calls[c].step # "announces" =>
              /\ states[n] # (IF calls[c].op = "start" THEN "stopped" ELSE "running")
              /\ calls[c].step = "succeeded" => (on[n] <=> calls[c].op = "start")

CoordinatorInv == CoordinatorTypes /\ UnregisteredRests /\ StatesAgree

\* Every step keeps the table of states and the components in agreement.
LEMMA CoordinatorStep ==
    ASSUME CoordinatorInv, [Coordinator!Next]_(Coordinator!vars)
    PROVE  CoordinatorInv'
<1> USE CoordinatorAssumed DEF CoordinatorInv, CoordinatorTypes, UnregisteredRests,
        Coordinator!CoordinatorAssumption, Coordinator!Statuses, Coordinator!Resting
<1>1. ASSUME NEW n \in Components, Coordinator!RegisterComponent(n)
      PROVE  CoordinatorInv'
    BY <1>1 DEF Coordinator!RegisterComponent, StatesAgree
<1>2. ASSUME NEW c \in Starters, NEW op \in {"start", "stop"}, NEW n \in Components,
             Coordinator!CallBegins(c, op, n)
      PROVE  CoordinatorInv'
    BY <1>2 DEF Coordinator!CallBegins, Coordinator!CallsFor, StatesAgree
<1>3. ASSUME NEW c \in Starters, Coordinator!Announces(c)
      PROVE  CoordinatorInv'
    BY <1>3 DEF Coordinator!Announces, Coordinator!SetState, Coordinator!Allowed,
                StatesAgree
<1>4. ASSUME NEW c \in Starters, NEW succeeds \in BOOLEAN, Coordinator!Acts(c, succeeds)
      PROVE  CoordinatorInv'
    <2> DEFINE n  == calls[c].name
               op == calls[c].op
    <2>1. /\ n \in Components /\ op \in {"start", "stop"} /\ calls[c].step = "acts"
          /\ calls' = [calls EXCEPT ![c].step = IF succeeds THEN "succeeded" ELSE "failed"]
          /\ UNCHANGED <<states, overlapped>>
        BY <1>4 DEF Coordinator!Acts
    <2>2. PICK b \in BOOLEAN :
            /\ on' = [on EXCEPT ![n] = b]
            /\ succeeds => b = (op = "start")
            /\ ~succeeds => b = on[n] \/ (op = "stop" /\ b = FALSE)
        <3>1. CASE succeeds
            BY <1>4, <3>1 DEF Coordinator!Acts
        <3>2. CASE ~succeeds
            <4>1. on[n] \in BOOLEAN
                BY <2>1
            <4>2. CASE op = "start"
                BY <1>4, <3>2, <4>1, <4>2 DEF Coordinator!Acts
            <4>3. CASE op = "stop"
                <5>1. on' \in {[on EXCEPT ![n] = b] : b \in {FALSE, on[n]}}
                    BY <1>4, <3>2, <4>3 DEF Coordinator!Acts
                <5>2. QED
                    BY <3>2, <4>1, <4>3, <5>1
            <4>4. QED
                BY <2>1, <4>2, <4>3
        <3>3. QED
            BY <3>1, <3>2
    <2>3. CoordinatorTypes' /\ UnregisteredRests'
        BY <2>1, <2>2
    <2>4. ASSUME n \notin overlapped
          PROVE  /\ states[n] = "running" => b
                 /\ states[n] = "stopped" => ~b
                 /\ succeeds => (b <=> op = "start")
        <3>1. states[n] # (IF op = "start" THEN "stopped" ELSE "running")
            BY <2>1, <2>4 DEF StatesAgree
        <3>2. (states[n] = "running" => on[n]) /\ (states[n] = "stopped" => ~on[n])
            BY <2>1, <2>4 DEF StatesAgree
        <3>3. QED
            BY <2>1, <2>2, <3>1, <3>2
    <2>5. StatesAgree'
        BY <2>1, <2>2, <2>4 DEF StatesAgree
    <2>6. QED
        BY <2>3, <2>5
<1>5. ASSUME NEW c \in Starters, Coordinator!Settles(c)
      PROVE  CoordinatorInv'
    BY <1>5 DEF Coordinator!Settles, Coordinator!SetState, StatesAgree
<1>6. CASE UNCHANGED Coordinator!vars
    BY <1>6 DEF Coordinator!vars, StatesAgree
<1>7. QED
    BY <1>1, <1>2, <1>3, <1>4, <1>5, <1>6 DEF Coordinator!Next

\* With or without rules, a component that is said to run runs and one that is said
\* to be stopped does not, unless calls for it have overlapped: for any components,
\* dependencies, instances and callers (component_coordinator.go:286, 292, 314, 320).
THEOREM StatusIsTrue == Coordinator!Spec => []StatusAgrees
<1>1. Coordinator!Init => CoordinatorInv
    <2> SUFFICES ASSUME Coordinator!Init PROVE CoordinatorInv
        OBVIOUS
    <2>1. CoordinatorTypes
        BY DEF Coordinator!Init, CoordinatorTypes
    <2>2. UnregisteredRests /\ StatesAgree
        BY CoordinatorAssumed
        DEF Coordinator!Init, Coordinator!Resting, UnregisteredRests, StatesAgree,
            Coordinator!CoordinatorAssumption
    <2>3. QED
        BY <2>1, <2>2 DEF CoordinatorInv
<1>2. CoordinatorInv /\ [Coordinator!Next]_(Coordinator!vars) => CoordinatorInv'
    BY CoordinatorStep
<1>3. CoordinatorInv => StatusAgrees
    BY DEF CoordinatorInv, StatesAgree, StatusAgrees, Coordinator!StatusAgrees
<1>4. QED
    BY <1>1, <1>2, <1>3, PTL DEF Coordinator!Spec

-----------------------------------------------------------------------------
(* SecurityManager.                                                         *)

KeyTypes ==
    /\ sessionKey \in [KeyedDevices -> Keys \cup {Security!NoSession}]
    /\ keys \in [KeyedDevices -> Keys \cup {Security!NoKey}]
    /\ stored \in [KeyedDevices -> Keys \cup {Security!NoKey}]
    /\ secCalls \in [Callers ->
          [op : {"idle", "generate", "rotate", "encrypt", "authorize", "authenticate"},
           device : KeyedDevices \cup {Security!Idle.device}, key : Keys \cup {Security!NoKey},
           step : {"none", "generate", "store", "session", "count", "whitelist"}]]
    /\ \A c \in Callers :
          /\ secCalls[c].step \in {"generate", "store", "session"}
                <=> secCalls[c].op \in {"generate", "rotate"}
          /\ secCalls[c].op # "idle" => secCalls[c].device \in KeyedDevices
          /\ secCalls[c].step \in {"store", "session"} => secCalls[c].key \in Keys

\* c is changing the keys of d.
Changes(c, d) == secCalls[c].op \in {"generate", "rotate"} /\ secCalls[c].device = d

\* A call that changes a device's keys alone finds what it has done so far, but
\* for a key in use that was removed because it had expired.
ChangeGoesOn(c, d) ==
    /\ secCalls[c].step \in {"store", "session"} => keys[d] \in {secCalls[c].key, Security!NoKey}
    /\ secCalls[c].step = "session" => stored[d] = secCalls[c].key

ChangesAlone ==
    \A d \in KeyedDevices \ contended :
        /\ \A b, c \in Callers : Changes(b, d) /\ Changes(c, d) => b = c
        /\ \A c \in Callers : Changes(c, d) => ChangeGoesOn(c, d)

\* KeysAgree, without the set of those who change the keys.
RestingAgree ==
    \A d \in KeyedDevices \ contended :
        (\A c \in Callers : ~Changes(c, d)) /\ sessionKey[d] # Security!NoSession
        => stored[d] = sessionKey[d] /\ keys[d] \in {sessionKey[d], Security!NoKey}

KeyInv == KeyTypes /\ ChangesAlone /\ RestingAgree

\* A call begins that changes no keys, or returns.
LEMMA OtherCalls ==
    ASSUME KeyInv, NEW c \in Callers, NEW call,
           secCalls' = [secCalls EXCEPT ![c] = call],
           call \in [op : {"idle", "encrypt", "authorize", "authenticate"},
                     device : KeyedDevices \cup {Security!Idle.device},
                     key : Keys \cup {Security!NoKey}, step : {"none", "count", "whitelist"}],
           call.op # "idle" => call.device \in KeyedDevices,
           secCalls[c].op \notin {"generate", "rotate"},
           UNCHANGED <<sessionKey, keys, stored, contended>>
    PROVE  KeyInv'
<1>1. KeyTypes'
    BY DEF KeyInv, KeyTypes
<1>2. secCalls'[c] = call /\ \A b \in Callers \ {c} : secCalls'[b] = secCalls[b]
    BY DEF KeyInv, KeyTypes
<1>3. call.op \notin {"generate", "rotate"}
    OBVIOUS
<1>4. ChangesAlone' /\ RestingAgree'
    BY <1>2, <1>3 DEF KeyInv, ChangesAlone, ChangeGoesOn, RestingAgree, Changes
<1>5. QED
    BY <1>1, <1>4 DEF KeyInv

\* A call that changes the keys of d begins; if another one is under way, the
\* device is contended.
LEMMA ChangeBeginsStep ==
    ASSUME KeyInv, NEW c \in Callers, NEW d \in KeyedDevices, NEW op \in {"generate", "rotate"},
           Security!ChangeBegins(c, op, d, "generate"),
           keys' \in [KeyedDevices -> Keys \cup {Security!NoKey}],
           \A e \in KeyedDevices \ {d} : keys'[e] = keys[e],
           UNCHANGED <<sessionKey, stored>>
    PROVE  KeyInv'
<1>1. secCalls[c] = Security!Idle /\ secCalls[c].op = "idle"
    BY DEF Security!ChangeBegins, Security!Begins, Security!Idle
<1>2. secCalls' = [secCalls EXCEPT ![c] =
            [op |-> op, device |-> d, step |-> "generate", key |-> Security!NoKey]]
    BY DEF Security!ChangeBegins, Security!Begins, Security!Call
<1>3. /\ secCalls'[c].op = op /\ secCalls'[c].device = d /\ secCalls'[c].step = "generate"
      /\ \A b \in Callers \ {c} : secCalls'[b] = secCalls[b]
    BY <1>2 DEF KeyInv, KeyTypes
<1>4. KeyTypes'
    BY <1>2 DEF KeyInv, KeyTypes
<1>5. \A e \in KeyedDevices : e # d => (e \in contended <=> e \in contended')
    BY DEF Security!ChangeBegins
<1>6. d \notin contended' => \A b \in Callers : ~Changes(b, d)
    BY DEF Security!ChangeBegins, Security!Changing, Changes
<1>7. \A b \in Callers, e \in KeyedDevices : Changes(b, e)' <=>
          \/ b = c /\ e = d
          \/ b # c /\ Changes(b, e)
    BY <1>3 DEF Changes
<1>8. ~Changes(c, d) /\ \A e \in KeyedDevices : ~Changes(c, e)
    BY <1>1 DEF Changes
<1>9. ChangesAlone'
    BY <1>3, <1>5, <1>6, <1>7, <1>8 DEF KeyInv, ChangesAlone, ChangeGoesOn
<1>10. RestingAgree'
    BY <1>5, <1>7, <1>8 DEF KeyInv, RestingAgree
<1>11. QED
    BY <1>4, <1>9, <1>10 DEF KeyInv

\* A call that changes a device's keys goes on, or returns: of the others'
\* devices nothing changes.
LEMMA ChangeStep ==
    ASSUME KeyInv, NEW c \in Callers, NEW d, d = secCalls[c].device,
           secCalls[c].op \in {"generate", "rotate"},
           KeyTypes',
           \A b \in Callers \ {c} : secCalls'[b] = secCalls[b],
           \A e \in KeyedDevices \ {d} : /\ sessionKey'[e] = sessionKey[e]
                                         /\ stored'[e] = stored[e] /\ keys'[e] = keys[e],
           UNCHANGED contended,
           \/ /\ secCalls'[c].op = secCalls[c].op /\ secCalls'[c].device = d
              /\ d \notin contended => ChangeGoesOn(c, d)'
           \/ /\ secCalls'[c].op \notin {"generate", "rotate"}
              /\ d \notin contended /\ sessionKey'[d] # Security!NoSession
                    => stored'[d] = sessionKey'[d] /\ keys'[d] \in {sessionKey'[d], Security!NoKey}
    PROVE  KeyInv'
<1>1. d \in KeyedDevices /\ Changes(c, d)
    BY DEF KeyInv, KeyTypes, Changes
<1>2. \A b \in Callers \ {c}, e \in KeyedDevices : Changes(b, e)' <=> Changes(b, e)
    BY DEF Changes
<1>3. \A e \in KeyedDevices : e # d => ~Changes(c, e) /\ ~Changes(c, e)'
    BY DEF Changes
<1>4. d \notin contended => \A b \in Callers \ {c} : ~Changes(b, d)
    BY <1>1 DEF KeyInv, ChangesAlone
<1>5. ChangesAlone'
    BY <1>1, <1>2, <1>3, <1>4 DEF KeyInv, ChangesAlone, ChangeGoesOn, Changes
<1>6. RestingAgree'
    BY <1>1, <1>2, <1>3, <1>4 DEF KeyInv, RestingAgree, Changes
<1>7. QED
    BY <1>5, <1>6 DEF KeyInv

\* Sessions end with the stored keys; a device whose keys are changed meanwhile is
\* contended.
LEMMA SessionsEndStep ==
    ASSUME KeyInv, NEW D, Security!SessionsEnd(D),
           UNCHANGED <<keys, secCalls>>
    PROVE  KeyInv'
<1>1. KeyTypes'
    BY DEF KeyInv, KeyTypes, Security!SessionsEnd
<1>2. \A d \in KeyedDevices \ contended' :
          /\ d \notin contended
          /\ d \notin D => sessionKey'[d] = sessionKey[d] /\ stored'[d] = stored[d]
          /\ d \in D => sessionKey'[d] = Security!NoSession /\ \A c \in Callers : ~Changes(c, d)
    BY DEF Security!SessionsEnd, Security!Changing, Changes
<1>3. \A b \in Callers, e \in KeyedDevices : Changes(b, e)' <=> Changes(b, e)
    BY DEF Changes
<1>4. ChangesAlone'
    BY <1>2, <1>3 DEF KeyInv, ChangesAlone, ChangeGoesOn
<1>5. RestingAgree'
    BY <1>2, <1>3 DEF KeyInv, RestingAgree
<1>6. QED
    BY <1>1, <1>4, <1>5 DEF KeyInv

\* Every step keeps the three places of a key in agreement.
LEMMA SecurityStep ==
    ASSUME KeyInv, [Security!Next]_(Security!vars)
    PROVE  KeyInv'
<1>0. UNCHANGED <<sessionKey, keys, stored, secCalls, contended>> => KeyInv'
    BY DEF KeyInv, KeyTypes, ChangesAlone, ChangeGoesOn, RestingAgree, Changes
<1>1. ASSUME NEW c \in Callers, NEW d \in KeyedDevices, Security!GenerateSessionKey(c, d)
      PROVE  KeyInv'
    <2>1. keys' \in [KeyedDevices -> Keys \cup {Security!NoKey}]
        BY <1>1 DEF Security!GenerateSessionKey, Security!keyring, KeyInv, KeyTypes
    <2>2. QED
        BY <1>1, <2>1, ChangeBeginsStep DEF Security!GenerateSessionKey, Security!keyring
<1>2. ASSUME NEW c \in Callers, NEW d \in KeyedDevices, Security!RotateSessionKey(c, d)
      PROVE  KeyInv'
    <2>1. /\ keys' \in [KeyedDevices -> Keys \cup {Security!NoKey}]
          /\ \A e \in KeyedDevices \ {d} : keys'[e] = keys[e]
        BY <1>2 DEF Security!RotateSessionKey, Security!KeysGo, KeyInv, KeyTypes
    <2>2. QED
        BY <1>2, <2>1, ChangeBeginsStep DEF Security!RotateSessionKey
<1>3. ASSUME NEW c \in Callers, NEW d \in KeyedDevices, Security!Encrypt(c, d)
      PROVE  KeyInv'
    <2> DEFINE call == [op |-> "encrypt", device |-> d, step |-> "count", key |-> keys[d]]
    <2>1. secCalls[c].op = "idle"
        BY <1>3 DEF Security!Encrypt, Security!Idle
    <2>2. /\ secCalls' = [secCalls EXCEPT ![c] = call]
          /\ UNCHANGED <<sessionKey, keys, stored, contended>>
        BY <1>3 DEF Security!Encrypt, Security!Call, Security!keyring
    <2>3. keys[d] \in Keys \cup {Security!NoKey}
        BY DEF KeyInv, KeyTypes
    <2>4. QED
        BY <2>1, <2>2, <2>3, OtherCalls
<1>4. ASSUME NEW c \in Callers, NEW d \in KeyedDevices, NEW op \in {"authorize", "authenticate"},
             Security!Begins(c, op, d, "whitelist"),
             UNCHANGED <<sessionKey, keys, stored, contended>>
      PROVE  KeyInv'
    <2> DEFINE call == [op |-> op, device |-> d, step |-> "whitelist",
        key |-> Security!NoKey]
    <2>1. secCalls[c].op = "idle" /\ secCalls' = [secCalls EXCEPT ![c] = call]
        BY <1>4 DEF Security!Begins, Security!Call, Security!Idle
    <2>2. QED
        BY <1>4, <2>1, OtherCalls
<1>5. ASSUME NEW c \in Callers, Security!KeyIsGenerated(c)
      PROVE  KeyInv'
    <2> DEFINE d == secCalls[c].device
    <2>1. PICK k \in Keys :
            /\ keys' = [keys EXCEPT ![d] = k]
            /\ secCalls' = [secCalls EXCEPT ![c].step = "store", ![c].key = k]
            /\ UNCHANGED <<sessionKey, stored, contended>>
        BY <1>5 DEF Security!KeyIsGenerated, Security!GenerateKey, Security!Goes
    <2>2. secCalls[c].op \in {"generate", "rotate"} /\ d \in KeyedDevices
        BY <1>5 DEF Security!KeyIsGenerated, KeyInv, KeyTypes
    <2>3. KeyTypes'
        BY <2>1, <2>2 DEF KeyInv, KeyTypes
    <2>4. /\ secCalls'[c].op = secCalls[c].op /\ secCalls'[c].device = d
          /\ secCalls'[c].step = "store" /\ secCalls'[c].key = k /\ keys'[d] = k
          /\ \A b \in Callers \ {c} : secCalls'[b] = secCalls[b]
          /\ \A e \in KeyedDevices \ {d} : keys'[e] = keys[e]
        BY <2>1, <2>2 DEF KeyInv, KeyTypes
    <2>5. ChangeGoesOn(c, d)'
        BY <2>4 DEF ChangeGoesOn
    <2>6. QED
        BY <2>1, <2>2, <2>3, <2>4, <2>5, ChangeStep
<1>6. ASSUME NEW c \in Callers, Security!KeyIsStored(c)
      PROVE  KeyInv'
    <2> DEFINE d == secCalls[c].device
    <2>1. /\ stored' = [stored EXCEPT ![d] = secCalls[c].key]
          /\ secCalls' = [secCalls EXCEPT ![c].step = "session", ![c].key = secCalls[c].key]
          /\ UNCHANGED <<sessionKey, keys, contended>>
        BY <1>6 DEF Security!KeyIsStored, Security!StoreKey, Security!Goes, Security!keyring
    <2>2. /\ secCalls[c].op \in {"generate", "rotate"} /\ d \in KeyedDevices
          /\ secCalls[c].key \in Keys
        BY <1>6 DEF Security!KeyIsStored, KeyInv, KeyTypes
    <2>3. KeyTypes'
        BY <2>1, <2>2 DEF KeyInv, KeyTypes
    <2>4. /\ secCalls'[c].op = secCalls[c].op /\ secCalls'[c].device = d
          /\ secCalls'[c].step = "session" /\ secCalls'[c].key = secCalls[c].key
          /\ stored'[d] = secCalls[c].key
          /\ \A b \in Callers \ {c} : secCalls'[b] = secCalls[b]
          /\ \A e \in KeyedDevices \ {d} : stored'[e] = stored[e]
        BY <2>1, <2>2 DEF KeyInv, KeyTypes
    <2>5. d \notin contended => keys[d] \in {secCalls[c].key, Security!NoKey}
        BY <1>6, <2>2 DEF Security!KeyIsStored, KeyInv, ChangesAlone, ChangeGoesOn, Changes
    <2>6. d \notin contended => ChangeGoesOn(c, d)'
        BY <2>1, <2>4, <2>5 DEF ChangeGoesOn
    <2>7. QED
        BY <2>1, <2>2, <2>3, <2>4, <2>6, ChangeStep
<1>7. ASSUME NEW c \in Callers, Security!GenerateSettles(c) \/ Security!RotateSettles(c)
      PROVE  KeyInv'
    <2> DEFINE d == secCalls[c].device
               k == secCalls[c].key
    <2>1. /\ secCalls[c].op \in {"generate", "rotate"} /\ secCalls[c].step = "session"
          /\ secCalls' = [secCalls EXCEPT ![c] = Security!Idle]
          /\ UNCHANGED <<keys, stored, contended>>
          /\ \/ sessionKey' = [sessionKey EXCEPT ![d] = k]
             \/ sessionKey[d] = Security!NoSession /\ sessionKey' = sessionKey
        BY <1>7 DEF Security!GenerateSettles, Security!RotateSettles, Security!At,
                    Security!Returns, Security!keyring
    <2>2. d \in KeyedDevices /\ k \in Keys \cup {Security!NoKey}
        BY <2>1 DEF KeyInv, KeyTypes
    <2>3. k \in Keys
        BY <2>1 DEF KeyInv, KeyTypes
    <2>4. KeyTypes'
        BY <2>1, <2>2, <2>3 DEF KeyInv, KeyTypes, Security!Idle, Security!NoKey
    <2>5. /\ secCalls'[c].op = "idle"
          /\ \A b \in Callers \ {c} : secCalls'[b] = secCalls[b]
          /\ \A e \in KeyedDevices \ {d} : sessionKey'[e] = sessionKey[e]
          /\ sessionKey'[d] \in {k, Security!NoSession}
        BY <2>1, <2>2 DEF KeyInv, KeyTypes, Security!Idle
    <2>6. d \notin contended => stored[d] = k /\ keys[d] \in {k, Security!NoKey}
        BY <2>1, <2>2 DEF KeyInv, ChangesAlone, ChangeGoesOn, Changes
    <2>7. QED
        BY <2>1, <2>2, <2>4, <2>5, <2>6, ChangeStep
<1>8. ASSUME NEW c \in Callers, Security!UseIsCounted(c) \/ Security!AuthorizeAnswers(c)
      PROVE  KeyInv'
    <2>1. /\ secCalls[c].op \in {"encrypt", "authorize"}
          /\ secCalls' = [secCalls EXCEPT ![c] = Security!Idle]
          /\ UNCHANGED <<sessionKey, keys, stored, contended>>
        BY <1>8 DEF Security!UseIsCounted, Security!AuthorizeAnswers, Security!At,
                    Security!Returns, Security!keyring
    <2>2. /\ Security!Idle.op = "idle"
          /\ Security!Idle \in
               [op : {"idle", "encrypt", "authorize", "authenticate"},
                device : KeyedDevices \cup {Security!Idle.device},
                key : Keys \cup {Security!NoKey}, step : {"none", "count", "whitelist"}]
        BY DEF Security!Idle
    <2>3. QED
        BY <2>1, <2>2, OtherCalls
<1>9. ASSUME NEW D, Security!SessionsEnd(D),
             UNCHANGED <<keys, secCalls>>
      PROVE  KeyInv'
    BY <1>9, SessionsEndStep
<1>10. ASSUME Security!CleanupExpiredKeys
      PROVE  KeyInv'
    <2>1. /\ keys' \in [KeyedDevices -> Keys \cup {Security!NoKey}]
          /\ \A d \in KeyedDevices : keys'[d] \in {keys[d], Security!NoKey}
          /\ UNCHANGED <<sessionKey, stored, secCalls, contended>>
        BY <1>10 DEF Security!CleanupExpiredKeys, Security!KeysGo, KeyInv, KeyTypes
    <2>2. KeyTypes'
        BY <2>1 DEF KeyInv, KeyTypes
    <2>3. ChangesAlone' /\ RestingAgree'
        BY <2>1 DEF KeyInv, ChangesAlone, ChangeGoesOn, RestingAgree, Changes
    <2>4. QED
        BY <2>2, <2>3 DEF KeyInv
<1>11. ASSUME UNCHANGED Security!vars
      PROVE  KeyInv'
    BY <1>0, <1>11 DEF Security!vars, Security!keyring
<1>12. CASE Security!Next
    <2>1. CASE \E c \in Callers, d \in KeyedDevices :
              Security!Authenticate(c, d) \/ Security!Authorize(c, d)
        BY <2>1, <1>4 DEF Security!Authenticate, Security!Authorize, Security!keyring
    <2>2. CASE \E d \in KeyedDevices : Security!RevokeSession(d)
        <3>1. PICK d \in KeyedDevices : Security!RevokeSession(d)
            BY <2>2
        <3>2. QED
            BY <3>1, <1>9 DEF Security!RevokeSession, Security!keyring
    <2>3. CASE Security!CleanupExpiredSessions
        BY <2>3, <1>9 DEF Security!CleanupExpiredSessions, Security!keyring
    <2>4. CASE \/ \E d \in KeyedDevices : Security!SessionExpires(d) \/ Security!KeyExpires(d)
               \/ Security!SetSessionTimeout
               \/ \E b \in BOOLEAN : Security!EnableSecurityFeature(b)
        BY <2>4, <1>0 DEF Security!SessionExpires, Security!KeyExpires,
                          Security!SetSessionTimeout, Security!EnableSecurityFeature,
                          Security!keyring
    <2>5. QED
        BY <1>12, <1>1, <1>2, <1>3, <1>5, <1>6, <1>7, <1>8, <1>10, <2>1, <2>2, <2>3, <2>4
        DEF Security!Next, Security!CallStep
<1>13. QED
    BY <1>11, <1>12

\* SecurityManager: the session, the store and the encryption manager agree on a
\* device's key, of any number of devices, callers and keys (manager.go:354, 880).
THEOREM KeysStayTogether == Security!Spec => []KeysAgree
<1>1. Security!Init => KeyInv
    <2>1. SUFFICES ASSUME Security!Init PROVE KeyInv
        OBVIOUS
    <2>2. KeyTypes
        BY <2>1 DEF Security!Init, Security!Idle, KeyTypes
    <2>3. \A c \in Callers : secCalls[c].op = "idle"
        BY <2>1 DEF Security!Init, Security!Idle
    <2>4. QED
        BY <2>1, <2>2, <2>3
        DEF Security!Init, KeyInv, ChangesAlone, ChangeGoesOn, RestingAgree, Changes
<1>2. KeyInv /\ [Security!Next]_(Security!vars) => KeyInv'
    BY SecurityStep
<1>3. KeyInv => KeysAgree
    BY DEF KeyInv, RestingAgree, Changes, KeysAgree, Security!KeysAgree, Security!Changing
<1>4. QED
    BY <1>1, <1>2, <1>3, PTL DEF Security!Spec

-----------------------------------------------------------------------------
(* BluetoothComponent.                                                      *)

\* shutdownOrder, which the component computes from startupOrder.
LEMMA ShutdownOrder ==
    /\ Component!shutdownOrder = <<"client", "server", "message", "health", "pool", "device",
                                   "security", "adapter">>
    /\ Component!Len(Component!shutdownOrder) = 8
    /\ Component!Len(Component!startupOrder) = 8
BY DEF Component!shutdownOrder, Component!startupOrder, Component!Reverse

\* Once a Stop has passed a part, the part is off.
PassedIsOff ==
    at.op = "stop" /\ ~disturbed =>
        /\ ~routing
        /\ at.step > 1 => ~adapter.initialized /\ peers["client"].status = "stopped"
        /\ at.step > 2 => peers["server"].status = "stopped"
        /\ at.step > 3 => ~handling
        /\ at.step > 4 => ~monitoring

\* The adapter that is shut down.
LEMMA OffAdapter ==
    /\ Component!Off \in [initialized : BOOLEAN, enabled : BOOLEAN]
    /\ ~Component!Off.initialized
BY DEF Component!Off

PartTypes ==
    /\ adapter \in [initialized : BOOLEAN, enabled : BOOLEAN]
    /\ peers \in [{"server", "client"} ->
         [status : {"stopped", "running", "error"}, closed : BOOLEAN]]

ComponentInv ==
    /\ compStatus \in {"stopped", "starting", "running", "stopping", "error"}
    /\ at \in [op : {"none", "start", "stop"}, step : Nat \ {0}]
    /\ disturbed \in BOOLEAN
    /\ PartTypes
    /\ PassedIsOff
    /\ Component!StopStopsEverything

\* A peer that starts leaves the parts well-formed.
LEMMA PeerStartsTypes ==
    ASSUME PartTypes, NEW p \in {"server", "client"}, NEW ok \in BOOLEAN, NEW ctx \in BOOLEAN,
           Component!PeerStarts(p, ok, ctx)
    PROVE  PartTypes'
<1>1. CASE peers[p].status = "running"
    BY <1>1 DEF Component!PeerStarts, PartTypes
<1>2. CASE peers[p].status # "running"
    <2>1. /\ adapter' = IF ok THEN [adapter EXCEPT !.initialized = TRUE, !.enabled = TRUE]
                        ELSE adapter
          /\ peers' = [peers EXCEPT ![p].status = IF ok THEN "running" ELSE "error"]
        BY <1>2 DEF Component!PeerStarts, Component!Enabled, PartTypes
    <2>2. adapter' \in [initialized : BOOLEAN, enabled : BOOLEAN]
        BY <2>1 DEF PartTypes
    <2>3. QED
        BY <2>1, <2>2 DEF PartTypes
<1>3. QED
    BY <1>1, <1>2

\* A peer that stops leaves the parts well-formed.
LEMMA PeerStopsTypes ==
    ASSUME PartTypes, NEW p \in {"server", "client"}, NEW ctx \in BOOLEAN,
           Component!PeerStops(p, ctx)
    PROVE  PartTypes'
<1>1. adapter' \in {adapter, Component!Off}
    BY DEF Component!PeerStops, Component!Shutdown
<1>2. \/ peers' = peers
      \/ peers' = [peers EXCEPT ![p] = [status |-> "stopped", closed |-> TRUE]]
    BY DEF Component!PeerStops
<1>3. adapter' \in [initialized : BOOLEAN, enabled : BOOLEAN]
    BY <1>1, OffAdapter DEF PartTypes
<1>4. [status |-> "stopped", closed |-> TRUE]
        \in [status : {"stopped", "running", "error"}, closed : BOOLEAN]
    OBVIOUS
<1>5. QED
    BY <1>2, <1>3, <1>4 DEF PartTypes

\* Every step keeps off what a Stop has passed.
LEMMA ComponentStep ==
    ASSUME ComponentInv, [Component!Next]_(Component!vars)
    PROVE  ComponentInv'
<1> USE DEF ComponentInv
<1>1. ASSUME Component!StartBegins
      PROVE  ComponentInv'
    BY <1>1 DEF Component!StartBegins, PartTypes, PassedIsOff,
                Component!StopStopsEverything, Component!Idle
<1>2. ASSUME NEW ok \in BOOLEAN, NEW ctx \in BOOLEAN, Component!StartStep(ok, ctx)
      PROVE  ComponentInv'
    <2>1. /\ at.op = "start"
          /\ at' = IF ok THEN [at EXCEPT !.step = @ + 1] ELSE Component!Idle
          /\ compStatus' = IF ok THEN compStatus ELSE "error"
          /\ disturbed' \in BOOLEAN
        BY <1>2 DEF Component!StartStep
    <2>2. /\ at' \in [op : {"none", "start"}, step : Nat \ {0}]
          /\ at'.op = "none" => compStatus' = "error"
        BY <2>1 DEF Component!Idle
    <2>3. PICK name : Component!StartComponent(name, ok, ctx)
        BY <1>2 DEF Component!StartStep
    <2>4. PartTypes'
        <3>1. CASE name = "adapter"
            <4>1. UNCHANGED peers /\ adapter' = [adapter EXCEPT !.initialized = @ \/ ok]
                BY <2>3, <3>1 DEF Component!StartComponent, Component!Initialize,
                                  Component!Peers
            <4>2. adapter' \in [initialized : BOOLEAN, enabled : BOOLEAN]
                BY <4>1 DEF PartTypes
            <4>3. QED
                BY <4>1, <4>2 DEF PartTypes
        <3>2. CASE name \in Component!Peers
            BY <2>3, <3>2, PeerStartsTypes DEF Component!StartComponent, Component!Peers
        <3>3. CASE name \notin Component!Peers \cup {"adapter"}
            <4>1. UNCHANGED <<adapter, peers>>
                BY <2>3, <3>3 DEF Component!StartComponent, Component!Peers
            <4>2. QED
                BY <4>1 DEF PartTypes
        <3>4. QED
            BY <3>1, <3>2, <3>3
    <2>5. PassedIsOff' /\ Component!StopStopsEverything'
        BY <2>2 DEF PassedIsOff, Component!StopStopsEverything, Component!Idle
    <2>6. QED
        BY <2>1, <2>2, <2>4, <2>5
<1>3. ASSUME Component!StartEnds
      PROVE  ComponentInv'
    BY <1>3 DEF Component!StartEnds, PartTypes, PassedIsOff, Component!StopStopsEverything,
                Component!Idle
<1>4. ASSUME Component!StopBegins
      PROVE  ComponentInv'
    <2>1. /\ compStatus' = "stopping" /\ at' = [op |-> "stop", step |-> 1]
          /\ UNCHANGED <<adapter, peers>>
          /\ disturbed' \in BOOLEAN /\ ~routing'
        BY <1>4 DEF Component!StopBegins
    <2>2. QED
        BY <2>1 DEF PartTypes, PassedIsOff, Component!StopStopsEverything
<1>5. ASSUME NEW ctx \in BOOLEAN, Component!StopStep(ctx)
      PROVE  ComponentInv'
    <2> DEFINE name == Component!shutdownOrder[at.step]
    <2>1. /\ at.op = "stop" /\ at.step <= 8
          /\ at' = [at EXCEPT !.step = @ + 1]
          /\ disturbed' = (disturbed \/ ~ctx)
          /\ UNCHANGED <<compStatus, routing>>
          /\ Component!StopComponent(name, ctx)
        BY <1>5, ShutdownOrder DEF Component!StopStep
    <2>2. /\ at' \in [op : {"stop"}, step : Nat \ {0}] /\ at'.step = at.step + 1
        BY <2>1
    <2>3. PartTypes'
        <3>1. CASE name = "adapter"
            <4>1. UNCHANGED peers /\ adapter' \in {adapter, Component!Off}
                BY <2>1, <3>1 DEF Component!StopComponent, Component!Shutdown,
                                  Component!Peers
            <4>2. QED
                BY <4>1, OffAdapter DEF PartTypes
        <3>2. CASE name \in Component!Peers
            BY <2>1, <3>2, PeerStopsTypes DEF Component!StopComponent, Component!Peers
        <3>3. CASE name \notin Component!Peers \cup {"adapter"}
            <4>1. UNCHANGED <<adapter, peers>>
                BY <2>1, <3>3 DEF Component!StopComponent, Component!Peers
            <4>2. QED
                BY <4>1 DEF PartTypes
        <3>4. QED
            BY <3>1, <3>2, <3>3
    <2>4. ~disturbed' => PassedIsOff'
        <3>1. SUFFICES ASSUME ctx, ~disturbed PROVE PassedIsOff'
            BY <2>1
        <3>2. CASE name = "client"
            <4>1. /\ adapter' = Component!Off
                  /\ peers' = [peers EXCEPT !["client"] = [status |-> "stopped", closed |-> TRUE]]
                  /\ UNCHANGED <<monitoring, handling>>
                BY <2>1, <3>1, <3>2
                DEF Component!StopComponent, Component!Peers, Component!PeerStops,
                    Component!Shutdown
            <4>2. at.step = 1
                BY <2>1, <3>2, ShutdownOrder
            <4>3. QED
                BY <2>1, <2>2, <4>1, <4>2 DEF PassedIsOff, PartTypes, Component!Off
        <3>3. CASE name = "server"
            <4>1. /\ peers'["server"].status = "stopped" /\ peers'["client"] = peers["client"]
                  /\ adapter' = adapter \/ adapter' = Component!Off
                  /\ UNCHANGED <<monitoring, handling>>
                BY <2>1, <3>1, <3>3
                DEF Component!StopComponent, Component!Peers, Component!PeerStops,
                    Component!Shutdown, PartTypes
            <4>2. at.step = 2
                BY <2>1, <3>3, ShutdownOrder
            <4>3. QED
                BY <2>1, <2>2, <3>1, <4>1, <4>2 DEF PassedIsOff, PartTypes, Component!Off
        <3>4. CASE name \notin Component!Peers
            <4>1. /\ UNCHANGED peers
                  /\ adapter' = adapter \/ adapter' = Component!Off
                  /\ name = "message" => ~handling'
                  /\ name # "message" => handling' = handling
                  /\ name = "health" => ~monitoring'
                  /\ name # "health" => monitoring' = monitoring
                BY <2>1, <3>1, <3>4
                DEF Component!StopComponent, Component!Peers, Component!Shutdown
            <4>2. /\ at.step > 2 /\ (name = "message" <=> at.step = 3)
                  /\ (name = "health" <=> at.step = 4)
                <5>1. at.step \in 1 .. 8
                    BY <2>1
                <5>2. QED
                    BY <3>4, <5>1, ShutdownOrder DEF Component!Peers
            <4>3. QED
                BY <2>1, <2>2, <3>1, <4>1, <4>2 DEF PassedIsOff, PartTypes, Component!Off
        <3>5. QED
            BY <3>2, <3>3, <3>4 DEF Component!Peers
    <2>5. disturbed' => PassedIsOff'
        BY DEF PassedIsOff
    <2>6. Component!StopStopsEverything'
        BY <2>2 DEF Component!StopStopsEverything, Component!Idle
    <2>7. QED
        BY <2>1, <2>2, <2>3, <2>4, <2>5, <2>6
<1>6. ASSUME Component!StopEnds
      PROVE  ComponentInv'
    BY <1>6, ShutdownOrder
    DEF Component!StopEnds, PartTypes, PassedIsOff, Component!StopStopsEverything,
        Component!Idle, Component!Peers
<1>7. ASSUME NEW p \in Component!Peers, NEW ok \in BOOLEAN, NEW ctx \in BOOLEAN,
             Component!DirectStart(p, ok, ctx)
      PROVE  ComponentInv'
    <2>1. PartTypes'
        BY <1>7, PeerStartsTypes DEF Component!DirectStart, Component!Peers
    <2>2. QED
        BY <1>7, <2>1 DEF Component!DirectStart, PassedIsOff, Component!StopStopsEverything
<1>8. ASSUME NEW p \in Component!Peers, NEW ctx \in BOOLEAN, Component!DirectStop(p, ctx)
      PROVE  ComponentInv'
    <2>1. PartTypes'
        BY <1>8, PeerStopsTypes DEF Component!DirectStop, Component!Peers
    <2>2. QED
        BY <1>8, <2>1 DEF Component!DirectStop, PassedIsOff, Component!StopStopsEverything
<1>9. ASSUME UNCHANGED Component!vars
      PROVE  ComponentInv'
    BY <1>9 DEF Component!vars, PartTypes, PassedIsOff, Component!StopStopsEverything,
                Component!Idle
<1>10. CASE Component!Next
    <2>1. Component!Ctx \subseteq BOOLEAN
        BY DEF Component!Ctx
    <2>2. QED
        BY <1>10, <1>1, <1>2, <1>3, <1>4, <1>5, <1>6, <1>7, <1>8, <2>1 DEF Component!Next
<1>11. QED
    BY <1>9, <1>10

\* BluetoothComponent: once a Stop that nothing disturbed has returned, every part
\* is off, whatever the calls before it did (component.go:259).
THEOREM StoppedIsOff == Component!Spec => []StopStopsEverything
<1>1. Component!Init => ComponentInv
    <2>1. SUFFICES ASSUME Component!Init PROVE ComponentInv
        OBVIOUS
    <2>2. /\ compStatus = "stopped" /\ at = [op |-> "none", step |-> 1]
          /\ adapter = Component!Off
          /\ peers = [p \in Component!Peers |-> [status |-> "stopped", closed |-> FALSE]]
          /\ disturbed \in BOOLEAN /\ ~monitoring /\ ~handling /\ ~routing
        BY <2>1 DEF Component!Init, Component!Idle
    <2>3. QED
        BY <2>2, OffAdapter
        DEF ComponentInv, PartTypes, PassedIsOff, Component!StopStopsEverything,
            Component!Peers
<1>2. ComponentInv /\ [Component!Next]_(Component!vars) => ComponentInv'
    BY ComponentStep
<1>3. QED
    BY <1>1, <1>2, PTL DEF Component!Spec, ComponentInv, StopStopsEverything

-----------------------------------------------------------------------------
(* HealthChecker.                                                           *)

\* The loops that have yet to report the verdict of d they have set.
Reporters(d, verdict) ==
    {l \in Loops : loop[l].at = "reporting" /\ loop[l].device = d /\ loop[l].verdict = verdict}

HealthTypes ==
    /\ DOMAIN alive \subseteq Checked
    /\ owed \in [Checked -> [{"healthy", "ill"} -> Int]]
    /\ verdicts \in [Checked -> {"healthy", "ill", "none"}]
    /\ loop \in [Loops -> [at : {"none", "waiting", "beating", "verdict", "reporting"},
                           left : SUBSET Checked, device : Checked \cup {"none"},
                           verdict : {"healthy", "ill", "none"}]]
    /\ \A l \in Loops :
          /\ loop[l].at \in {"beating", "reporting"} => loop[l].device \in Checked
          /\ loop[l].at = "verdict" /\ loop[l].verdict # "none" => loop[l].device \in Checked
          /\ loop[l].at = "reporting" => loop[l].verdict # "none"

FlipsReported ==
    \A d \in Checked, v \in {"healthy", "ill"} : owed[d][v] = Cardinality(Reporters(d, v))

HealthInv == HealthTypes /\ FlipsReported

\* There are finitely many reporters, and ReportsOf is how many.
LEMMA ReportersCount ==
    ASSUME NEW d, NEW verdict
    PROVE  /\ IsFiniteSet(Reporters(d, verdict))
           /\ Cardinality(Reporters(d, verdict)) \in Nat
           /\ Health!ReportsOf(d, verdict) = Cardinality(Reporters(d, verdict))
<1>1. IsFiniteSet(Loops)
    BY HealthAssumed DEF Health!HealthAssumption, Health!IsFiniteSet, IsFiniteSet
<1>2. Reporters(d, verdict) \subseteq Loops
    BY DEF Reporters
<1>3. IsFiniteSet(Reporters(d, verdict))
    BY <1>1, <1>2, FS_Subset
<1>4. Health!ReportsOf(d, verdict) = Cardinality(Reporters(d, verdict))
    BY DEF Health!ReportsOf, Reporters, Health!Cardinality, Cardinality
<1>5. QED
    BY <1>3, <1>4, FS_CardinalityType

\* A step of a loop that has nothing to report before and after.
LEMMA QuietStep ==
    ASSUME HealthInv, HealthTypes', UNCHANGED <<owed, verdicts>>,
           \A d, v : Reporters(d, v)' = Reporters(d, v)
    PROVE  HealthInv'
BY DEF HealthInv, FlipsReported

\* A change makes one loop a reporter, a report relieves it, and nothing else does either.
LEMMA HealthStep ==
    ASSUME HealthInv, [Health!Next]_(Health!vars)
    PROVE  HealthInv'
<1>1. ASSUME UNCHANGED <<owed, verdicts, loop>>, DOMAIN alive' \subseteq Checked
      PROVE  HealthInv'
    <2>1. HealthTypes'
        BY <1>1 DEF HealthInv, HealthTypes
    <2>2. QED
        BY <1>1, <2>1, QuietStep DEF Reporters
<1>2. ASSUME NEW l \in Loops, UNCHANGED <<alive, owed, verdicts>>, HealthTypes',
             \A k \in Loops \ {l} : loop'[k] = loop[k],
             loop[l].at # "reporting", loop'[l].at # "reporting"
      PROVE  HealthInv'
    <2>1. \A d, v : Reporters(d, v)' = Reporters(d, v)
        BY <1>2 DEF Reporters
    <2>2. QED
        BY <1>2, <2>1, QuietStep
<1>3. ASSUME NEW l \in Loops,
             \/ Health!StartMonitoring(l) \/ Health!LoopEnds(l) \/ Health!RoundBegins(l)
             \/ \E d \in Checked, beats \in BOOLEAN : Health!CheckBegins(l, d, beats)
             \/ \E verdict \in Health!Verdicts : Health!HeartbeatEnds(l, verdict)
      PROVE  HealthInv'
    <2>1. CASE Health!StartMonitoring(l) \/ Health!LoopEnds(l)
        <3>1. /\ loop[l].at # "reporting"
              /\ loop' = [loop EXCEPT ![l] = Health!Waiting] \/ loop' = [loop EXCEPT ![l] = Health!NoLoop]
              /\ UNCHANGED <<alive, owed, verdicts>>
            BY <2>1 DEF Health!StartMonitoring, Health!LoopEnds, Health!Waiting,
                        Health!NoLoop
        <3>2. PICK next \in {Health!Waiting, Health!NoLoop} : loop' = [loop EXCEPT ![l] = next]
            BY <3>1
        <3>3. /\ next.at \in {"none", "waiting"}
              /\ next = [at |-> next.at, left |-> {}, device |-> "none", verdict |-> "none"]
            BY <3>2 DEF Health!Waiting, Health!NoLoop
        <3>4. HealthTypes' /\ loop'[l].at # "reporting"
            BY <3>1, <3>2, <3>3 DEF HealthInv, HealthTypes
        <3>5. QED
            BY <3>1, <3>2, <3>4, <1>2 DEF HealthInv, HealthTypes
    <2>2. CASE Health!RoundBegins(l)
        <3>1. /\ loop[l] = Health!Waiting
              /\ loop' = [loop EXCEPT ![l].left = DOMAIN alive, ![l].at = "verdict"]
              /\ UNCHANGED <<alive, owed, verdicts>>
            BY <2>2 DEF Health!RoundBegins
        <3>2. HealthTypes' /\ loop'[l].at = "verdict" /\ loop[l].at = "waiting"
            BY <3>1 DEF HealthInv, HealthTypes, Health!Waiting
        <3>3. QED
            BY <3>1, <3>2, <1>2 DEF HealthInv, HealthTypes
    <2>3. CASE \E d \in Checked, beats \in BOOLEAN : Health!CheckBegins(l, d, beats)
        <3>1. PICK d \in Checked, beats \in BOOLEAN : Health!CheckBegins(l, d, beats)
            BY <2>3
        <3>2. /\ loop[l].at = "verdict"
              /\ loop' = [loop EXCEPT ![l].left = loop[l].left \ {d}, ![l].device = d,
                    ![l].at = IF beats THEN "beating" ELSE "verdict",
                    ![l].verdict = IF beats THEN "none" ELSE "ill"]
              /\ UNCHANGED <<alive, owed, verdicts>>
            BY <3>1 DEF Health!CheckBegins
        <3>3. loop'[l] = [at |-> IF beats THEN "beating" ELSE "verdict",
                          left |-> loop[l].left \ {d}, device |-> d,
                          verdict |-> IF beats THEN "none" ELSE "ill"]
            BY <3>2 DEF HealthInv, HealthTypes
        <3>4. loop' = [loop EXCEPT ![l] = loop'[l]]
            BY <3>2 DEF HealthInv, HealthTypes
        <3>5. loop'[l] \in
                [at : {"none", "waiting", "beating", "verdict", "reporting"},
                 left : SUBSET Checked, device : Checked \cup {"none"},
                 verdict : {"healthy", "ill", "none"}]
            BY <3>3 DEF HealthInv, HealthTypes
        <3>6. HealthTypes' /\ loop'[l].at # "reporting"
            BY <3>2, <3>3, <3>4, <3>5 DEF HealthInv, HealthTypes
        <3>7. QED
            BY <3>2, <3>4, <3>6, <1>2 DEF HealthInv, HealthTypes
    <2>4. CASE \E verdict \in Health!Verdicts : Health!HeartbeatEnds(l, verdict)
        <3>1. PICK verdict \in {"healthy", "ill"} : Health!HeartbeatEnds(l, verdict)
            BY <2>4 DEF Health!Verdicts
        <3>2. /\ loop[l].at = "beating"
              /\ loop' = [loop EXCEPT ![l].at = "verdict", ![l].verdict = verdict]
              /\ UNCHANGED <<alive, owed, verdicts>>
            BY <3>1 DEF Health!HeartbeatEnds
        <3>3. HealthTypes' /\ loop'[l].at # "reporting"
            BY <3>2 DEF HealthInv, HealthTypes
        <3>4. QED
            BY <3>2, <3>3, <1>2 DEF HealthInv, HealthTypes
    <2>5. QED
        BY <1>3, <2>1, <2>2, <2>3, <2>4
<1>4. ASSUME NEW l \in Loops
      PROVE  /\ Health!NextDevice(l).at \in {"waiting", "verdict"}
             /\ Health!NextDevice(l).verdict = "none"
             /\ Health!NextDevice(l) \in
                  [at : {"none", "waiting", "beating", "verdict", "reporting"},
                   left : SUBSET Checked, device : Checked \cup {"none"},
                   verdict : {"healthy", "ill", "none"}]
    BY DEF Health!NextDevice, Health!Waiting, HealthInv, HealthTypes
<1>5. ASSUME NEW l \in Loops, Health!VerdictIsSet(l)
      PROVE  HealthInv'
    <2>0. PICK d \in Checked, v \in {"healthy", "ill"} : loop[l].device = d /\ loop[l].verdict = v
        BY <1>5 DEF Health!VerdictIsSet, HealthInv, HealthTypes
    <2>1. /\ loop[l].at = "verdict" /\ loop[l].device = d /\ loop[l].verdict = v
          /\ verdicts' = [verdicts EXCEPT ![d] = v]
          /\ owed' = IF verdicts[d] = v THEN owed ELSE [owed EXCEPT ![d][v] = @ + 1]
          /\ UNCHANGED alive
        BY <1>5, <2>0 DEF Health!VerdictIsSet, Health!VerdictChanges
    <2>2. CASE verdicts[d] = v
        <3>1. /\ loop' = [loop EXCEPT ![l] = Health!NextDevice(l)]
              /\ verdicts' = verdicts /\ owed' = owed
            BY <1>5, <2>1, <2>2 DEF Health!VerdictIsSet, HealthInv, HealthTypes
        <3>2. HealthTypes' /\ loop'[l].at # "reporting"
            BY <2>1, <3>1, <1>4 DEF HealthInv, HealthTypes
        <3>3. QED
            BY <2>1, <3>1, <3>2, <1>2 DEF HealthInv, HealthTypes
    <2>3. CASE verdicts[d] # v
        <3>1. loop' = [loop EXCEPT ![l] = [loop[l] EXCEPT !.at = "reporting"]]
            BY <1>5, <2>0, <2>3 DEF Health!VerdictIsSet
        <3>0. owed' = [owed EXCEPT ![d][v] = owed[d][v] + 1]
            BY <2>1, <2>3
        <3>2. HealthTypes'
            BY <2>1, <3>0, <3>1 DEF HealthInv, HealthTypes
        <3>3. l \notin Reporters(d, v) /\ Reporters(d, v)' = Reporters(d, v) \cup {l}
            BY <2>1, <3>1 DEF HealthInv, HealthTypes, Reporters
        <3>4. \A e, w : <<e, w>> # <<d, v>> => Reporters(e, w)' = Reporters(e, w)
            BY <2>1, <3>1 DEF HealthInv, HealthTypes, Reporters
        <3>5. Cardinality(Reporters(d, v)') = Cardinality(Reporters(d, v)) + 1
            BY <3>3, ReportersCount, FS_AddElement
        <3>6. /\ owed' = [owed EXCEPT ![d] = [owed[d] EXCEPT ![v] = owed[d][v] + 1]]
              /\ owed[d] \in [{"healthy", "ill"} -> Int]
            BY <2>3, <3>0 DEF HealthInv, HealthTypes
        <3>7. \A e \in Checked, w \in {"healthy", "ill"} :
                 owed'[e][w] = IF <<e, w>> = <<d, v>> THEN owed[e][w] + 1 ELSE owed[e][w]
            BY <3>6 DEF HealthInv, HealthTypes
        <3>8. FlipsReported'
            BY <3>4, <3>5, <3>7 DEF HealthInv, FlipsReported
        <3>9. QED
            BY <3>2, <3>8 DEF HealthInv
    <2>4. QED
        BY <2>2, <2>3
<1>6. ASSUME NEW l \in Loops, Health!NotifyHealthStatus(l)
      PROVE  HealthInv'
    <2>0. PICK d \in Checked, v \in {"healthy", "ill"} : loop[l].device = d /\ loop[l].verdict = v
        BY <1>6 DEF Health!NotifyHealthStatus, HealthInv, HealthTypes
    <2>1. /\ loop[l].at = "reporting" /\ loop[l].device = d /\ loop[l].verdict = v
          /\ owed' = [owed EXCEPT ![d][v] = owed[d][v] - 1]
          /\ loop' = [loop EXCEPT ![l] = Health!NextDevice(l)]
          /\ UNCHANGED <<alive, verdicts>>
        BY <1>6, <2>0 DEF Health!NotifyHealthStatus
    <2>2. HealthTypes'
        BY <2>1, <1>4 DEF HealthInv, HealthTypes
    <2>3. l \in Reporters(d, v) /\ Reporters(d, v)' = Reporters(d, v) \ {l}
        BY <2>1, <1>4 DEF HealthInv, HealthTypes, Reporters
    <2>4. \A e, w : <<e, w>> # <<d, v>> => Reporters(e, w)' = Reporters(e, w)
        BY <2>1, <1>4 DEF HealthInv, HealthTypes, Reporters
    <2>5. Cardinality(Reporters(d, v)') = Cardinality(Reporters(d, v)) - 1
        BY <2>3, ReportersCount, FS_RemoveElement
    <2>6. \A e \in Checked, w \in {"healthy", "ill"} :
             owed'[e][w] = IF <<e, w>> = <<d, v>> THEN owed[e][w] - 1 ELSE owed[e][w]
        BY <2>1 DEF HealthInv, HealthTypes
    <2>7. FlipsReported'
        BY <2>4, <2>5, <2>6 DEF HealthInv, FlipsReported
    <2>8. QED
        BY <2>2, <2>7 DEF HealthInv
<1>7. ASSUME NEW d \in Checked, Health!PoolChanges(d)
      PROVE  HealthInv'
    <2>1. DOMAIN alive' \subseteq DOMAIN alive \cup {d}
        BY <1>7 DEF Health!PoolChanges
    <2>2. QED
        BY <1>7, <1>1, <2>1 DEF Health!PoolChanges, HealthInv, HealthTypes
<1>8. ASSUME \/ Health!StopMonitoring \/ Health!ContextEnds \/ UNCHANGED Health!vars
      PROVE  HealthInv'
    BY <1>8, <1>1 DEF Health!StopMonitoring, Health!ContextEnds, Health!vars,
                      HealthInv, HealthTypes
<1>9. QED
    BY <1>3, <1>5, <1>6, <1>7, <1>8 DEF Health!Next

\* HealthChecker: every change of a device's verdict, the first one included, has been
\* reported once or its one report is still to come from the loop that made it, with any
\* devices and loops (health_checker.go:141, 148).  The order of reports is left open.
THEOREM FlipsAreHeardOnce == Health!Spec => []FlipsAreReportedOnce
<1>1. Health!Init => HealthInv
    <2>1. SUFFICES ASSUME Health!Init PROVE HealthInv
        OBVIOUS
    <2>2. /\ alive = <<>> /\ verdicts = [d \in Checked |-> "none"]
          /\ owed = [d \in Checked |-> [v \in {"healthy", "ill"} |-> 0]]
          /\ loop = [l \in Loops |->
                       [at |-> "none", left |-> {}, device |-> "none", verdict |-> "none"]]
        <3>1. Health!NoLoop = [at |-> "none", left |-> {}, device |-> "none", verdict |-> "none"]
            BY DEF Health!NoLoop, Health!Waiting
        <3>2. QED
            BY <2>1, <3>1 DEF Health!Init, Health!Verdicts
    <2>3. HealthTypes
        <3>1. DOMAIN alive = {}
            BY <2>2
        <3>2. 0 \in Int
            OBVIOUS
        <3>3. QED
            BY <2>2, <3>1, <3>2 DEF HealthTypes
    <2>4. \A d, v : Reporters(d, v) = {}
        BY <2>2 DEF Reporters
    <2>5. \A d, v : Cardinality(Reporters(d, v)) = 0
        BY <2>4, FS_EmptySet
    <2>6. QED
        BY <2>2, <2>3, <2>5 DEF HealthInv, FlipsReported
<1>2. HealthInv /\ [Health!Next]_(Health!vars) => HealthInv'
    BY HealthStep
<1>3. HealthInv => FlipsAreReportedOnce
    BY ReportersCount
    DEF HealthInv, FlipsReported, FlipsAreReportedOnce, Health!FlipsAreReportedOnce,
        Health!Verdicts
<1>4. QED
    BY <1>1, <1>2, <1>3, PTL DEF Health!Spec
=============================================================================
