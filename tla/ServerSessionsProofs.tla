------------------------ MODULE ServerSessionsProofs ------------------------
(* Proofs about ServerSessions, for any devices, sessions and limits.       *)
EXTENDS ServerAccess, TLAPS

\* The server is in a call only on behalf of a session.
CallHasSession == call.op # "none" => call.session \in Sessions

IInv == Access!TypeOK /\ CallHasSession

\* Every step keeps the tables well-formed.
LEMMA TypeStep ==
    ASSUME IInv, [Access!Next]_(Access!vars)
    PROVE  IInv'
<1> USE SessionsAssumed DEF Access!SessionAssumption, IInv, Access!TypeOK,
                            CallHasSession, Access!server, Access!tables,
                            Access!Unlisted, Access!Goes, Access!Begins,
                            Access!OnDisconnected, Access!CloseSession, Access!Unlists,
                            Access!Close, Access!active, Access!NoCall
<1>1. CASE Access!CallStep
    <2>1. CASE Access!CreateSession
        BY <2>1 DEF Access!CreateSession, Access!InConnect
    <2>2. CASE Access!AllocateResource
        BY <2>2 DEF Access!AllocateResource, Access!InConnect
    <2>3. CASE Access!AddTimeouts
        BY <2>3 DEF Access!AddTimeouts, Access!InConnect
    <2>4. CASE Access!ConnectFails
        BY <2>4 DEF Access!ConnectFails, Access!InConnect
    <2>5. CASE Access!ConnectSucceeds
        BY <2>5 DEF Access!ConnectSucceeds, Access!InConnect
    <2>6. CASE Access!Forget
        BY <2>6 DEF Access!Forget
    <2>7. QED
        BY <1>1, <2>1, <2>2, <2>3, <2>4, <2>5, <2>6 DEF Access!CallStep
<1>2. CASE Access!CleanupStep
    <2> PICK c \in cleanups : Access!CleanupClears(c) \/ Access!CleanupCloses(c)
        BY <1>2 DEF Access!CleanupStep
    <2>1. CASE Access!CleanupClears(c)
        BY <2>1 DEF Access!CleanupClears
    <2>2. CASE Access!CleanupCloses(c)
        BY <2>2 DEF Access!CleanupCloses
    <2>3. QED
        BY <2>1, <2>2
<1>3. ASSUME NEW s \in Sessions, Access!NewConnection(s)
      PROVE  IInv'
    BY <1>3 DEF Access!NewConnection
<1>4. ASSUME NEW s \in Sessions, Access!PeerCloses(s)
      PROVE  IInv'
    BY <1>4 DEF Access!PeerCloses
<1>5. ASSUME NEW s \in Sessions, Access!ConnectionClosed(s)
      PROVE  IInv'
    BY <1>5 DEF Access!ConnectionClosed
<1>6. ASSUME NEW s \in Sessions, Access!OnAuthMessage(s)
      PROVE  IInv'
    BY <1>6 DEF Access!OnAuthMessage, Access!AllListed
<1>7. ASSUME NEW s \in Sessions, Access!AuthSucceeds(s)
      PROVE  IInv'
    BY <1>7 DEF Access!AuthSucceeds, Access!AllListed, Access!RemoveTimeout
<1>8. ASSUME NEW s \in Sessions, Access!AuthFails(s)
      PROVE  IInv'
    BY <1>8 DEF Access!AuthFails
<1>9. ASSUME NEW s \in Sessions, Access!SessionCloses(s)
      PROVE  IInv'
    BY <1>9 DEF Access!SessionCloses, Access!HandleSessionClosed
<1>10. ASSUME NEW s \in Sessions, NEW kind \in {"connect", "auth"},
              Access!TimeoutExpires(kind, s)
       PROVE  IInv'
    BY <1>10 DEF Access!TimeoutExpires
<1>11. ASSUME NEW s \in Sessions, Access!ResourceExpires(s)
       PROVE  IInv'
    BY <1>11 DEF Access!ResourceExpires
<1>12. ASSUME NEW d \in Devices, Access!DisconnectDevice(d)
       PROVE  IInv'
    BY <1>12 DEF Access!DisconnectDevice
<1>13. ASSUME NEW d \in Devices, Access!SessionExpires(d)
       PROVE  IInv'
    BY <1>13 DEF Access!SessionExpires
<1>14. ASSUME NEW s \in Sessions, Access!LinkDrops(s)
       PROVE  IInv'
    BY <1>14 DEF Access!LinkDrops
<1>15. CASE UNCHANGED Access!vars
    BY <1>15 DEF Access!vars
<1>16. QED
    BY <1>1, <1>2, <1>3, <1>4, <1>5, <1>6, <1>7, <1>8, <1>9, <1>10, <1>11, <1>12, <1>13,
       <1>14, <1>15 DEF Access!Next

\* The handler's tables stay well-formed (OnConnected, OnDisconnected, OnMessage).
THEOREM TypeCorrect == Access!Spec => []Access!TypeOK
<1>1. Access!Init => IInv
    BY SessionsAssumed DEF Access!Init, IInv, Access!TypeOK, CallHasSession,
                                    Access!NoCall, Access!SessionAssumption
<1>2. IInv /\ [Access!Next]_(Access!vars) => IInv'
    BY TypeStep
<1>3. IInv => Access!TypeOK
    BY DEF IInv
<1>4. QED
    BY <1>1, <1>2, <1>3, PTL DEF Access!Spec

-----------------------------------------------------------------------------
\* Of the table, only the entries that a step adds need a goroutine, and of the
\* goroutines, only those that end may not leave an entry behind.
LEMMA ServedStep ==
    ASSUME Access!TypeOK, Access!ListedIsServed,
           [Access!Next]_(Access!vars)
    PROVE  Access!ListedIsServed'
<1> USE SessionsAssumed DEF Access!SessionAssumption, Access!TypeOK, Access!ListedIsServed,
            Access!Listed, Access!Unlisted, Access!Unlists
<1>1. CASE Access!CreateSession
    BY <1>1 DEF Access!CreateSession, Access!InConnect, Access!Goes
<1>2. CASE Access!AllocateResource
    BY <1>2 DEF Access!AllocateResource, Access!CloseSession
<1>3. ASSUME NEW c \in cleanups, Access!CleanupCloses(c)
      PROVE  Access!ListedIsServed'
    BY <1>3 DEF Access!CleanupCloses, Access!CloseSession
<1>4. ASSUME NEW s \in Sessions, Access!SessionCloses(s)
      PROVE  Access!ListedIsServed'
    BY <1>4 DEF Access!SessionCloses, Access!HandleSessionClosed
<1>5. ASSUME NEW d \in Devices, Access!SessionExpires(d)
      PROVE  Access!ListedIsServed'
    BY <1>5 DEF Access!SessionExpires, Access!CloseSession
<1>6. ASSUME NEW s \in Sessions, Access!NewConnection(s)
      PROVE  Access!ListedIsServed'
    BY <1>6 DEF Access!NewConnection, Access!Fresh
<1>7. ASSUME UNCHANGED <<sessions, readers>>
      PROVE  Access!ListedIsServed'
    BY <1>7
<1>8. QED
    BY <1>1, <1>2, <1>3, <1>4, <1>5, <1>6, <1>7
    DEF Access!Next, Access!CallStep, Access!CleanupStep, Access!AddTimeouts,
        Access!ConnectFails, Access!ConnectSucceeds, Access!Forget,
        Access!CleanupClears, Access!PeerCloses, Access!LinkDrops,
        Access!ConnectionClosed, Access!OnAuthMessage, Access!AuthSucceeds,
        Access!AuthFails, Access!TimeoutExpires, Access!ResourceExpires,
        Access!DisconnectDevice, Access!vars, Access!tables, Access!server

\* A session in the table has its goroutine, although cleanups and the goroutines
\* of other sessions name the device only (session_manager.go:322, 349, 357).
THEOREM ListedSessionsAreServed == Access!Spec => []ListedIsServed
<1>1. Access!Init => Access!ListedIsServed
    BY SessionsAssumed DEF Access!Init, Access!ListedIsServed, Access!Listed,
                                    Access!SessionAssumption
<1>2. Access!TypeOK /\ Access!ListedIsServed /\ [Access!Next]_(Access!vars)
          => Access!ListedIsServed'
    BY ServedStep
<1>3. Access!Spec => []Access!TypeOK
    BY TypeCorrect
<1>4. QED
    BY <1>1, <1>2, <1>3, PTL DEF Access!Spec, ListedIsServed
=============================================================================
