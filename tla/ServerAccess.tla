---------------------------- MODULE ServerAccess ----------------------------
(* The server and the sessions of the devices it admits: ServerLifecycle    *)
(* and ServerSessions.  They share no variable.                             *)
EXTENDS ServerLifecycle

CONSTANTS Sessions, DeviceOf, MaxSessions, MaxServed, RequireAuth, None

VARIABLES
    served, alive, dropped, monitors, sessions, readers, authed, resources, timeouts,
    cleanups, call, answering

sessionVars ==
    <<served, alive, dropped, monitors, sessions, readers, authed, resources, timeouts,
      cleanups, call, answering>>

Access == INSTANCE ServerSessions WITH MaxConnections <- MaxServed

ASSUME SessionsAssumed == Access!SessionAssumption

\* ServerSessions: a listed session has its goroutine (session_manager.go:322, 357).
ListedIsServed == Access!ListedIsServed

\* ServerSessions: a session whose connection has ended or lost its link, or that
\* does not authenticate although it has to, does not stay in the table
\* (session_manager.go:151, server.go:359, server_connection_handler.go:402, 479).
UnservableLeaves == Access!UnservableLeaves
=============================================================================
