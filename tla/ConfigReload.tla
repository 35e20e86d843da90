---------------------------- MODULE ConfigReload ----------------------------
(***************************************************************************)
(* Hot reload of the configuration (internal/config): a watcher polls the  *)
(* file and passes each new version on through a channel of one place, a   *)
(* handler makes it the current configuration and notifies subscribers.    *)
(*                                                                         *)
(* There is one file.  StartWatching starts a watcher and its handler, the *)
(* n-th pair together; the watcher belongs to the manager, which cancels   *)
(* it only when the file is watched again, the handler to HotReloadManager.*)
(* Versions stand for contents and for modification times; a version may   *)
(* be one that does not load.  Callbacks of UpdateConfig and the other     *)
(* files' watchers are left out.                                           *)
(***************************************************************************)
EXTENDS Naturals, FiniteSets, Sequences

CONSTANTS
    Subscribers,  \* callers of Subscribe
    SubscriberIds,\* identifiers, of the time to the microsecond
    Pairs,        \* bound: 1 .. the number of calls of StartWatching
    MaxVersion,   \* bound: the last version of the file
    Buffer        \* places in a subscriber's channel (notifier.go:91)

ReloadAssumption ==
    /\ Pairs = 1 .. Cardinality(Pairs)
    /\ MaxVersion \in Nat \ {0} /\ Buffer \in Nat \ {0}

VARIABLES
    file,         \* the version of the file, and whether it loads
    watcher,      \* each watcher: where it is, lastModTime, the version it sends
    watched,      \* cm.watchers: which watcher StartWatching would cancel
    channel,      \* each pair's channel: at most one version
    handler,      \* each handler: where it is and its version
    handled,      \* hrm.watchers: which handler StopWatching would cancel
    cancelled,    \* contexts that have ended
    current,      \* currentConfig
    subscription, \* each subscriber: its channel, its ID, whether its context ended
    subscribed,   \* cn.subscribers: ID to subscriber
    closed,       \* cn.closed
    panicked

vars == <<file, watcher, watched, channel, handler, handled, cancelled, current,
          subscription, subscribed, closed, panicked>>

watching == <<file, watcher, watched, channel, handler, handled, cancelled, current>>
notifying == <<subscription, subscribed, closed, panicked>>

Versions == 0 .. MaxVersion
NoWatcher == [at |-> "none", seen |-> 0, loaded |-> 0]
NoHandler == [at |-> "none", version |-> 0]
NoSubscription == [channel |-> "none", id |-> "none", ended |-> "no", buffer |-> 0]

TypeOK ==
    /\ file \in [version : Versions, loads : BOOLEAN]
    /\ watcher \in [Pairs -> [at : {"none", "waiting", "changed", "sending", "ended"},
                              seen : Versions, loaded : Versions]]
    /\ watched \in Pairs \cup {0} /\ handled \in Pairs \cup {0}
    /\ channel \in [Pairs -> [full : BOOLEAN, version : Versions, closed : BOOLEAN]]
    /\ handler \in [Pairs -> [at : {"none", "waiting", "updating", "notifying", "ended"},
                              version : Versions]]
    /\ cancelled \subseteq {"watcher", "handler"} \X Pairs
    /\ current \in Versions
    /\ subscription \in [Subscribers -> [channel : {"none", "open", "closed"},
           id : SubscriberIds \cup {"none"}, ended : {"no", "yes", "gone"}, buffer : 0 .. Buffer]]
    /\ DOMAIN subscribed \subseteq SubscriberIds
    /\ subscribed \in [DOMAIN subscribed -> Subscribers]
    /\ closed \in BOOLEAN /\ panicked \in BOOLEAN

Init ==
    /\ file = [version |-> 0, loads |-> TRUE]
    /\ watcher = [p \in Pairs |-> NoWatcher]
    /\ watched = 0 /\ handled = 0
    /\ channel = [p \in Pairs |-> [full |-> FALSE, version |-> 0, closed |-> FALSE]]
    /\ handler = [p \in Pairs |-> NoHandler]
    /\ cancelled = {} /\ current = 0
    /\ subscription = [s \in Subscribers |-> NoSubscription]
    /\ subscribed = <<>>
    /\ closed = FALSE /\ panicked = FALSE

-----------------------------------------------------------------------------
\* Watching.
FileChanges(loads) ==
    /\ file.version < MaxVersion
    /\ file' = [version |-> file.version + 1, loads |-> loads]
    /\ UNCHANGED <<watcher, watched, channel, handler, handled, cancelled, current, notifying>>

Former(pair, which) == IF pair = 0 THEN {} ELSE {<<which, pair>>}

\* WatchConfig cancels the file's former watcher, StartWatching its handler.
FormerWatcher == Former(watched, "watcher")

StartWatching(p) ==
    /\ watcher[p] = NoWatcher /\ (p > 1 => watcher[p - 1] # NoWatcher)
    /\ cancelled' = cancelled \cup FormerWatcher \cup Former(handled, "handler")
    /\ watched' = p /\ handled' = p
    /\ watcher' = [watcher EXCEPT ![p] = [@ EXCEPT !.at = "waiting", !.seen = file.version]]
    /\ handler' = [handler EXCEPT ![p].at = "waiting"]
    /\ UNCHANGED <<file, channel, current, notifying>>

\* StopWatching, and Close of the HotReloadManager: the watcher goes on.
StopWatching ==
    /\ handled # 0
    /\ cancelled' = cancelled \cup {<<"handler", handled>>}
    /\ handled' = 0
    /\ UNCHANGED <<file, watcher, watched, channel, handler, current, notifying>>

\* The context given to StartWatching ends.
ContextEnds(p) ==
    /\ watcher[p] # NoWatcher
    /\ cancelled' = cancelled \cup {<<"watcher", p>>, <<"handler", p>>}
    /\ UNCHANGED <<file, watcher, watched, channel, handler, handled, current, notifying>>

\* A tick finds a later modification time, ...
WatcherTicks(p) ==
    /\ watcher[p].at = "waiting" /\ file.version > watcher[p].seen
    /\ watcher' = [watcher EXCEPT ![p].at = "changed", ![p].seen = file.version]
    /\ UNCHANGED <<file, watched, channel, handler, handled, cancelled, current, notifying>>

\* ... loads what is in the file by then, ...
WatcherLoads(p) ==
    /\ watcher[p].at = "changed"
    /\ watcher' = [watcher EXCEPT ![p].at = IF file.loads THEN "sending" ELSE "waiting",
                                  ![p].loaded = IF file.loads THEN file.version ELSE @]
    /\ UNCHANGED <<file, watched, channel, handler, handled, cancelled, current, notifying>>

\* ... and sends it, unless the last one is still in the channel.
WatcherSends(p) ==
    /\ watcher[p].at = "sending"
    /\ channel' = IF channel[p].full THEN channel
                  ELSE [channel EXCEPT ![p].full = TRUE, ![p].version = watcher[p].loaded]
    /\ watcher' = [watcher EXCEPT ![p].at = "waiting"]
    /\ UNCHANGED <<file, watched, handler, handled, cancelled, current, notifying>>

WatcherEnds(p) ==
    /\ <<"watcher", p>> \in cancelled /\ watcher[p].at \in {"waiting", "sending"}
    /\ watcher' = [watcher EXCEPT ![p].at = "ended"]
    /\ channel' = [channel EXCEPT ![p].closed = TRUE]
    /\ UNCHANGED <<file, watched, handler, handled, cancelled, current, notifying>>

\* The handler may still take a version after its context has ended.
HandlerTakes(p) ==
    /\ handler[p].at = "waiting" /\ channel[p].full
    /\ handler' = [handler EXCEPT ![p] = [at |-> "updating", version |-> channel[p].version]]
    /\ channel' = [channel EXCEPT ![p].full = FALSE]
    /\ UNCHANGED <<file, watcher, watched, handled, cancelled, current, notifying>>

HandlerUpdates(p) ==
    /\ handler[p].at = "updating"
    /\ current' = handler[p].version
    /\ handler' = [handler EXCEPT ![p].at = "notifying"]
    /\ UNCHANGED <<file, watcher, watched, channel, handled, cancelled, notifying>>

HandlerEnds(p) ==
    /\ handler[p].at = "waiting"
    /\ <<"handler", p>> \in cancelled \/ (channel[p].closed /\ ~channel[p].full)
    /\ handler' = [handler EXCEPT ![p].at = "ended"]
    /\ UNCHANGED <<file, watcher, watched, channel, handled, cancelled, current, notifying>>

-----------------------------------------------------------------------------
\* Subscribers.  Two that ask within a microsecond are given one ID.
Subscribe(s, id) ==
    /\ subscription[s] = NoSubscription
    /\ IF closed
       THEN /\ subscription' = [subscription EXCEPT ![s].channel = "closed"]
            /\ UNCHANGED subscribed
       ELSE /\ subscription' = [subscription EXCEPT ![s].channel = "open", ![s].id = id]
            /\ subscribed' = [i \in DOMAIN subscribed \cup {id} |->
                                 IF i = id THEN s ELSE subscribed[i]]
    /\ UNCHANGED <<watching, closed, panicked>>

Read(s) ==
    /\ subscription[s].buffer > 0
    /\ subscription' = [subscription EXCEPT ![s].buffer = @ - 1]
    /\ UNCHANGED <<watching, subscribed, closed, panicked>>

SubscriberContextEnds(s) ==
    /\ subscription[s].id # "none" /\ subscription[s].ended = "no"
    /\ subscription' = [subscription EXCEPT ![s].ended = "yes"]
    /\ UNCHANGED <<watching, subscribed, closed, panicked>>

\* The channels of S are closed; S is a set of subscribers.
Closed(S) ==
    [s \in Subscribers |->
        IF s \in S THEN [subscription[s] EXCEPT !.channel = "closed"] ELSE subscription[s]]

Panics(S) == panicked \/ \E s \in S : subscription[s].channel = "closed"

\* The goroutine of Subscribe, once.  Whose channel has the ID by now is not asked.
Unsubscribe(s) ==
    /\ subscription[s].ended = "yes"
    /\ LET id == subscription[s].id
           S == IF id \in DOMAIN subscribed THEN {subscribed[id]} ELSE {} IN
       /\ subscription' = [Closed(S) EXCEPT ![s].ended = "gone"]
       /\ panicked' = Panics(S)
       /\ subscribed' = [i \in DOMAIN subscribed \ {id} |-> subscribed[i]]
    /\ UNCHANGED <<watching, closed>>

Notify(p) ==
    /\ handler[p].at = "notifying"
    /\ handler' = [handler EXCEPT ![p].at = "waiting"]
    /\ IF closed THEN UNCHANGED <<subscription, panicked>>
       ELSE LET to == {subscribed[id] : id \in DOMAIN subscribed} IN
            /\ panicked' = (panicked \/ \E s \in to : subscription[s].channel = "closed")
            /\ subscription' = [s \in Subscribers |->
                   IF s \in to /\ subscription[s].buffer < Buffer
                   THEN [subscription[s] EXCEPT !.buffer = @ + 1] ELSE subscription[s]]
    /\ UNCHANGED <<file, watcher, watched, channel, handled, cancelled, current, subscribed, closed>>

\* Mutation: the map of the subscribers is left as it is.
SubscribersStay == subscribed

NoSubscribers == <<>>

CloseNotifier ==
    /\ ~closed
    /\ closed' = TRUE
    /\ LET S == {subscribed[id] : id \in DOMAIN subscribed} IN
       subscription' = Closed(S) /\ panicked' = Panics(S)
    /\ subscribed' = NoSubscribers
    /\ UNCHANGED watching

Next ==
    \/ StopWatching \/ CloseNotifier
    \/ \E loads \in BOOLEAN : FileChanges(loads)
    \/ \E p \in Pairs :
         \/ StartWatching(p) \/ ContextEnds(p) \/ WatcherTicks(p) \/ WatcherLoads(p)
         \/ WatcherSends(p) \/ WatcherEnds(p) \/ HandlerTakes(p) \/ HandlerUpdates(p)
         \/ HandlerEnds(p) \/ Notify(p)
    \/ \E s \in Subscribers :
         \/ Read(s) \/ SubscriberContextEnds(s) \/ Unsubscribe(s)
         \/ \E id \in SubscriberIds : Subscribe(s, id)

Spec == Init /\ [][Next]_vars

-----------------------------------------------------------------------------
\* No channel is closed twice and nothing is sent to a closed one, whoever
\* closes the notifier while subscribers' contexts end, and also when two
\* subscribers were given one ID (notifier.go:76, 106, 118, 142).
NotifierNeverPanics == ~panicked
=============================================================================
