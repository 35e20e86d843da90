--------------------------- MODULE ServerSessions ---------------------------
(***************************************************************************)
(* The server's connection handler (server_connection_handler.go) with the *)
(* managers it composes: sessions by device (session_manager.go), timeouts *)
(* and resources (timeout_manager.go).                                     *)
(*                                                                         *)
(* A session stands for its connection too, for its resource and for its   *)
(* two timeouts, "connect" and "auth".  Every table has a lock of its own, *)
(* taken for one access: that is one step.  The actors are                 *)
(*   - the server, which calls OnConnected and OnDisconnected with its own *)
(*     lock held: one call at a time;                                      *)
(*   - the server's monitor of a connection, which calls OnMessage;        *)
(*   - the goroutine of a session, which waits for the connection's end;   *)
(*   - the callbacks of expired timeouts, each in a goroutine;             *)
(*   - the cleaners of sessions and of resources.                          *)
(***************************************************************************)
EXTENDS Integers, FiniteSets

CONSTANTS
    Devices,          \* device identifiers
    Sessions,         \* bound: sessions of which anything is left
    DeviceOf,         \* the device of a session
    MaxSessions,      \* SessionConfig.MaxSessions
    MaxConnections,   \* ResourceConfig.MaxConnections
    RequireAuth,      \* ServerConnectionConfig.RequireAuth
    None

SessionAssumption ==
    /\ DeviceOf \in [Sessions -> Devices]
    /\ MaxSessions \in Nat /\ MaxConnections \in Nat
    /\ RequireAuth \in BOOLEAN
    /\ None \notin Devices \cup Sessions

VARIABLES
    served,      \* the server's connections
    alive,       \* sessions whose connection's channel is open
    dropped,     \* of these, the ones whose link is lost: not active, and Close does nothing
    monitors,    \* sessions whose connection the server monitors
    sessions,    \* SessionManager.sessions
    readers,     \* sessions whose goroutine runs (handleSession)
    authed,      \* devices whose listed session IsAuthenticated
    resources,   \* sessions whose resource is in ResourceManager.resources
    timeouts,    \* TimeoutManager.timeouts: kind and session
    cleanups,    \* the cleanups under way: whose, on behalf of what, how far
    call,        \* the call of the handler the server is in
    answering    \* the session whose auth message the monitor of a connection handles

server  == <<served, alive, dropped, monitors>>
tables  == <<sessions, readers, authed, resources, timeouts>>
vars    == <<server, tables, cleanups, call, answering>>

NoCall  == [op |-> "none", session |-> None, step |-> "none"]

TypeOK ==
    /\ served \in [Devices -> Sessions \cup {None}]
    /\ alive \subseteq Sessions /\ dropped \subseteq alive /\ monitors \subseteq Sessions
    /\ sessions \in [Devices -> Sessions \cup {None}]
    /\ readers \subseteq Sessions /\ authed \subseteq Devices
    /\ resources \subseteq Sessions
    /\ timeouts \subseteq {"connect", "auth"} \X Sessions
    /\ cleanups \subseteq
          [of : Sessions, for : {"timeout", "call"} \cup Sessions, step : {"clear", "close"}]
    /\ call \in [op : {"none", "connect", "disconnect"}, session : Sessions \cup {None},
                 step : {"none", "create", "allocate", "timeouts", "request", "forget"}]
    /\ answering \in [Sessions -> Sessions \cup {None}]

Init ==
    /\ served = [d \in Devices |-> None]
    /\ alive = {} /\ dropped = {} /\ monitors = {}
    /\ sessions = [d \in Devices |-> None]
    /\ readers = {} /\ authed = {}
    /\ resources = {} /\ timeouts = {}
    /\ cleanups = {} /\ call = NoCall
    /\ answering = [s \in Sessions |-> None]

-----------------------------------------------------------------------------
active     == alive \ dropped
Listed(s)  == sessions[DeviceOf[s]] = s
AllListed  == {d \in Devices : sessions[d] # None}
Unlisted(d) == [sessions EXCEPT ![d] = None]

\* Connection.Close: the channel of a connection whose link is lost stays open.
Close(s) == alive' = alive \ ({s} \ dropped)

\* Nothing is left of s, or only goroutines that wait on its channel for ever: its
\* name may stand for a new session.
Fresh(s) ==
    /\ s \notin alive \cup monitors \cup readers \/ s \in dropped
    /\ ~Listed(s) /\ s # served[DeviceOf[s]] /\ s \notin resources
    /\ \A t \in timeouts : t[2] # s
    /\ \A c \in cleanups : s \notin {c.of, c.for}
    /\ answering[s] = None /\ \A r \in Sessions : answering[r] # s

Goes(step) == call' = [call EXCEPT !.step = step]

-----------------------------------------------------------------------------
(* cleanup(session): its timeouts and its resource, then CloseSession.  It *)
(* names the device: whatever is the device's now is cleared and closed.   *)

Begins(s, for) == cleanups' = cleanups \cup {[of |-> s, for |-> for, step |-> "clear"]}

\* The timeouts and the resource are two tables that no other step reads together.
CleanupClears(c) ==
    /\ c.step = "clear"
    /\ timeouts' = {t \in timeouts : DeviceOf[t[2]] # DeviceOf[c.of]}
    /\ resources' = resources \ {c.of}
    /\ cleanups' = (cleanups \ {c}) \cup {[c EXCEPT !.step = "close"]}
    /\ UNCHANGED <<server, sessions, readers, authed, call, answering>>

\* A session out of the table is not asked again whether it IsAuthenticated.
Unlists(d) ==
    /\ sessions' = Unlisted(d)
    /\ authed' = authed \ {d}

\* SessionManager.CloseSession, with closeSessionInternal.
CloseSession(d) == Unlists(d) /\ Close(sessions[d])

\* Mutation: the session is closed only if it is still the device's, although the
\* timeouts are cleared by device.
CleanupClosesOwn(c) ==
    /\ c.step = "close"
    /\ IF Listed(c.of)
       THEN CloseSession(DeviceOf[c.of])
       ELSE UNCHANGED <<sessions, authed, alive>>
    /\ cleanups' = cleanups \ {c}
    /\ UNCHANGED <<served, dropped, monitors, readers, resources, timeouts, call, answering>>

CleanupCloses(c) ==
    /\ c.step = "close"
    /\ CloseSession(DeviceOf[c.of])
    /\ cleanups' = cleanups \ {c}
    /\ UNCHANGED <<served, dropped, monitors, readers, resources, timeouts, call, answering>>

CleaningFor(f) == \E c \in cleanups : c.for = f

\* The monitor of connection s is in OnMessage.
Busy(s) == answering[s] # None \/ CleaningFor(s)

-----------------------------------------------------------------------------
(* OnConnected, called by the server for a new connection.                 *)

\* The server refuses a second connection while the first is active, and replaces
\* one that is not: its session stays.
NewConnection(s) ==
    /\ call = NoCall /\ Fresh(s)
    /\ served[DeviceOf[s]] \notin active
    /\ served' = [served EXCEPT ![DeviceOf[s]] = s]
    /\ alive' = alive \cup {s} /\ dropped' = dropped \ {s}
    /\ monitors' = monitors \ {s} /\ readers' = readers \ {s}
    /\ call' = [op |-> "connect", session |-> s, step |-> "create"]
    /\ UNCHANGED <<sessions, authed, resources, timeouts, cleanups, answering>>

InConnect(step) == call.op = "connect" /\ call.step = step

\* A listed session is neither closed nor expired: it is never replaced.
CreateSession ==
    /\ InConnect("create")
    /\ LET s == call.session
       IN  IF Cardinality(AllListed) >= MaxSessions \/ sessions[DeviceOf[s]] # None
           THEN Goes("forget") /\ UNCHANGED <<sessions, readers>>
           ELSE /\ sessions' = [sessions EXCEPT ![DeviceOf[s]] = s]
                /\ readers' = readers \cup {s}
                /\ Goes("allocate")
    /\ UNCHANGED <<server, authed, resources, timeouts, cleanups, answering>>

AllocateResource ==
    /\ InConnect("allocate")
    /\ IF Cardinality(resources) >= MaxConnections
       THEN CloseSession(DeviceOf[call.session]) /\ Goes("forget") /\ UNCHANGED resources
       ELSE /\ resources' = resources \cup {call.session}
            /\ Goes("timeouts")
            /\ UNCHANGED <<sessions, authed, alive>>
    /\ UNCHANGED <<served, dropped, monitors, readers, timeouts, cleanups, answering>>

\* Two entries, one after the other: a cleanup in between could only take out the
\* connect timeout, and that cleanup then closes the device's session, as it does
\* when it clears both entries.
AddTimeouts ==
    /\ InConnect("timeouts")
    /\ timeouts' = timeouts \cup ({"connect"} \X {call.session})
                    \cup (IF RequireAuth THEN {<<"auth", call.session>>} ELSE {})
    /\ Goes("request")
    /\ UNCHANGED <<server, sessions, readers, authed, resources, cleanups, answering>>

\* The request for authentication fails, on an inactive connection at any rate, or
\* the user's callback does.
Established == call.session \in active \/ ~RequireAuth

ConnectFails ==
    /\ InConnect("request")
    /\ Begins(call.session, "call") /\ Goes("forget")
    /\ UNCHANGED <<server, tables, answering>>

ConnectSucceeds ==
    /\ InConnect("request") /\ Established
    /\ monitors' = monitors \cup {call.session}
    /\ call' = NoCall
    /\ UNCHANGED <<served, alive, dropped, tables, cleanups, answering>>

\* When the handler has returned, cleaned up or not, the server closes the connection
\* and takes it out of its map.
Forget ==
    /\ call.step = "forget" /\ ~CleaningFor("call")
    /\ Close(call.session)
    /\ served' = [served EXCEPT ![DeviceOf[call.session]] = None]
    /\ call' = NoCall
    /\ UNCHANGED <<dropped, monitors, tables, cleanups, answering>>

-----------------------------------------------------------------------------
(* OnDisconnected: the session it cleans up is the device's at that time.  *)

OnDisconnected(s) ==
    /\ call' = [op |-> "disconnect", session |-> s, step |-> "forget"]
    /\ LET found == sessions[DeviceOf[s]]
       IN  IF found = None THEN UNCHANGED cleanups ELSE Begins(found, "call")

\* The server's monitor finds the connection closed; forgetting it again after the
\* call changes nothing.
ConnectionClosed(s) ==
    /\ call = NoCall
    /\ s \in monitors \ alive /\ ~Busy(s)
    /\ monitors' = monitors \ {s}
    /\ served' = [served EXCEPT ![DeviceOf[s]] = None]
    /\ OnDisconnected(s)
    /\ UNCHANGED <<alive, dropped, tables, answering>>

\* DisconnectDevice, or the server's tick for a connection that is inactive.
DisconnectDevice(d) ==
    /\ call = NoCall /\ served[d] # None
    /\ OnDisconnected(served[d])
    /\ UNCHANGED <<server, tables, answering>>

\* The peer closes the connection.
PeerCloses(s) ==
    /\ s \in active
    /\ alive' = alive \ {s}
    /\ UNCHANGED <<served, dropped, monitors, tables, cleanups, call, answering>>

\* The link is lost: the connection is inactive, and nothing closes its channel.
LinkDrops(s) ==
    /\ s \in active
    /\ dropped' = dropped \cup {s}
    /\ UNCHANGED <<served, alive, monitors, tables, cleanups, call, answering>>

-----------------------------------------------------------------------------
(* OnMessage with an auth message, in the monitor of connection s.         *)

OnAuthMessage(s) ==
    /\ RequireAuth
    /\ s \in monitors /\ ~Busy(s)
    /\ DeviceOf[s] \in AllListed \ authed
    /\ answering' = [answering EXCEPT ![s] = sessions[DeviceOf[s]]]
    /\ UNCHANGED <<server, tables, cleanups, call>>

RemoveTimeout(kind, s) == timeouts' = timeouts \ {<<kind, s>>}

\* AuthenticateSession looks the device's session up again.
AuthSucceeds(s) ==
    /\ answering[s] # None
    /\ DeviceOf[s] \in AllListed
    /\ authed' = authed \cup {DeviceOf[s]}
    /\ RemoveTimeout("auth", answering[s])
    /\ answering' = [answering EXCEPT ![s] = None]
    /\ UNCHANGED <<server, sessions, readers, resources, cleanups, call>>

\* Attempts are not counted: any may be the MaxAuthAttempts-th, which has the
\* session cleaned up.
AuthFails(s) ==
    /\ answering[s] # None
    /\ answering' = [answering EXCEPT ![s] = None]
    /\ \/ UNCHANGED cleanups
       \/ Begins(answering[s], s)
    /\ UNCHANGED <<server, tables, call>>

-----------------------------------------------------------------------------
(* The session's goroutine, the checker of timeouts, the cleaners.         *)

\* Mutation: only a session that was authenticated is taken out of the table.
UnlistsIfAuthed(d) == IF d \in authed THEN Unlists(d) ELSE UNCHANGED <<sessions, authed>>

\* handleSessionClosed removes the device's entry, whichever session has it.
HandleSessionClosed(d) == Unlists(d)

SessionCloses(s) ==
    /\ s \in readers \ alive
    /\ HandleSessionClosed(DeviceOf[s])
    /\ readers' = readers \ {s}
    /\ UNCHANGED <<server, resources, timeouts, cleanups, call, answering>>

\* checkTimeouts takes the entry out and starts its callback.  Bound: two callbacks
\* of one session that have both still to clear count as one.
TimeoutExpires(kind, s) ==
    /\ <<kind, s>> \in timeouts
    /\ timeouts' = timeouts \ {<<kind, s>>}
    /\ Begins(s, "timeout")
    /\ UNCHANGED <<server, sessions, readers, authed, resources, call, answering>>

\* cleanupExpiredSessions: after SessionTimeout, in use or not.
SessionExpires(d) ==
    /\ sessions[d] # None
    /\ CloseSession(d)
    /\ UNCHANGED <<served, dropped, monitors, readers, resources, timeouts, cleanups,
                   call, answering>>

\* cleanupExpiredResources: no code calls GetResource, so after ResourceTimeout
\* a resource goes, in use or not.
ResourceExpires(s) ==
    /\ s \in resources
    /\ resources' = resources \ {s}
    /\ UNCHANGED <<server, sessions, readers, authed, timeouts, cleanups, call, answering>>

-----------------------------------------------------------------------------
CallStep ==
    \/ CreateSession \/ AllocateResource \/ AddTimeouts
    \/ ConnectFails \/ ConnectSucceeds \/ Forget

CleanupStep == \E c \in cleanups : CleanupClears(c) \/ CleanupCloses(c)

Next ==
    \/ CallStep
    \/ CleanupStep
    \/ \E s \in Sessions :
          \/ NewConnection(s) \/ PeerCloses(s) \/ LinkDrops(s) \/ ConnectionClosed(s)
          \/ OnAuthMessage(s) \/ AuthSucceeds(s) \/ AuthFails(s)
          \/ SessionCloses(s)
          \/ \E kind \in {"connect", "auth"} : TimeoutExpires(kind, s)
          \/ ResourceExpires(s)
    \/ \E d \in Devices : DisconnectDevice(d) \/ SessionExpires(d)

Spec == Init /\ [][Next]_vars

\* The calls, the cleanups and the sessions' goroutines go on, and the checker of
\* timeouts finds every entry that is still there: nothing puts a deadline off.  No
\* fairness for the peers, the user, the server's tick and the cleaners.
Fairness ==
    /\ WF_vars(CallStep)
    /\ WF_vars(CleanupStep)
    /\ WF_vars(\E s \in Sessions : SessionCloses(s))
    /\ WF_vars(\E s \in Sessions, kind \in {"connect", "auth"} : TimeoutExpires(kind, s))

FairSpec == Spec /\ Fairness

-----------------------------------------------------------------------------
\* A listed session has its goroutine, which is the one that will take it out of
\* the table when its connection ends, although cleanups and goroutines of other
\* sessions name the device only (session_manager.go:322, 349, 357).
ListedIsServed == \A s \in Sessions : Listed(s) => s \in readers

\* The session of d cannot serve it, and keeps a new one from being created.
Refused(d) ==
    /\ sessions[d] # None
    /\ ~(sessions[d] \in active /\ (RequireAuth => d \in authed))

\* A session whose connection has ended or lost its link, or that does not
\* authenticate although it has to, does not stay: a device that comes back is not
\* refused for ever (session_manager.go:151).  Of a lost link only the connect timeout
\* is sure to tell (timeout_manager.go:240): the server forgets the connection when
\* the device returns (server.go:359), and a late cleanup of another session of the
\* device may clear that timeout (server_connection_handler.go:113, 402, 479).
UnservableLeaves ==
    \A d \in Devices : Refused(d) ~> ~Refused(d)
=============================================================================
