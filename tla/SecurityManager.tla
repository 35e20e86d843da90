--------------------------- MODULE SecurityManager ---------------------------
(***************************************************************************)
(* The security manager (internal/security/manager.go) with its encryption *)
(* manager (encryption.go) and its memory key store: sessions under the    *)
(* manager's lock m.mu, the keys data is encrypted with under the          *)
(* encryption manager's, the stored keys under the store's.                *)
(*                                                                         *)
(* A critical section is one step.  A call that takes several of them is a *)
(* caller's call record between them: what it has read is in the record.   *)
(* The last two locks are never held while another one is asked for; m.mu  *)
(* is, so its holder is a variable.                                        *)
(***************************************************************************)
EXTENDS Integers, FiniteSets

CONSTANTS
    Devices,      \* device identifiers
    Callers,      \* goroutines that call the manager
    Keys,         \* bound: key objects alive at a time
    MaxUsage      \* EncryptionKey.MaxUsage, 10000 in the code

SecurityAssumption ==
    /\ IsFiniteSet(Devices) /\ IsFiniteSet(Callers)
    /\ IsFiniteSet(Keys) /\ Keys \subseteq Nat \ {0}
    /\ MaxUsage \in Nat \ {0}
    /\ "free" \notin Callers

VARIABLES
    holder,       \* who holds m.mu between two steps, "free" if nobody does
    sessionKey,   \* the key of a device's session, NoSession without one
    stale,        \* devices whose session has passed SessionTimeout
    encrypting,   \* config.EnableEncryption
    keys,         \* encryptionMgr.keys: the key in use for a device
    usage,        \* how often the key in use has been used
    expired,      \* devices whose key in use has passed ExpiresAt
    stored,       \* keyStore.keys
    calls,        \* the call each caller is in
    contended     \* history: devices whose keys two calls have changed at once

keyring == <<keys, usage, expired>>
vars == <<holder, sessionKey, stale, encrypting, keyring, stored, calls, contended>>

NoKey     == 0
NoSession == -1
Idle      == [op |-> "idle", device |-> CHOOSE d \in Devices : TRUE,
              step |-> "none", key |-> NoKey]
Call(op, d, step, k) == [op |-> op, device |-> d, step |-> step, key |-> k]

TypeOK ==
    /\ holder \in Callers \cup {"free"}
    /\ sessionKey \in [Devices -> Keys \cup {NoSession}]
    /\ stale \subseteq Devices
    /\ encrypting \in BOOLEAN
    /\ keys \in [Devices -> Keys \cup {NoKey}]
    /\ usage \in [Devices -> Nat] /\ expired \subseteq Devices
    /\ stored \in [Devices -> Keys \cup {NoKey}]
    /\ calls \in [Callers ->
          [op : {"idle", "generate", "rotate", "encrypt", "authorize", "authenticate"},
           device : Devices, key : Keys \cup {NoKey},
           step : {"none", "generate", "store", "session", "count", "whitelist"}]]
    /\ contended \subseteq Devices

-----------------------------------------------------------------------------
Begins(c, op, d, step) ==
    /\ calls[c] = Idle
    /\ calls' = [calls EXCEPT ![c] = Call(op, d, step, NoKey)]
At(c, op, step)   == calls[c].op = op /\ calls[c].step = step
Goes(c, step, k)  == calls' = [calls EXCEPT ![c].step = step, ![c].key = k]
Returns(c)        == calls' = [calls EXCEPT ![c] = Idle]

\* Callers that are changing the keys of d.
Changing(d) == {c \in Callers : calls[c].op \in {"generate", "rotate"} /\ calls[c].device = d}

InUse(k) ==
    \/ \E d \in Devices : k \in {keys[d], stored[d], sessionKey[d]}
    \/ \E c \in Callers : calls[c].key = k

FreshKey(k) == ~InUse(k) /\ \A l \in Keys : InUse(l) \/ k <= l

\* EncryptionManager.GenerateKey: a new key object, in use from now on.
GenerateKey(d, k) ==
    /\ FreshKey(k)
    /\ keys' = [keys EXCEPT ![d] = k]
    /\ usage' = [usage EXCEPT ![d] = 0]
    /\ expired' = expired \ {d}

KeysGo(D) ==
    /\ keys' = [d \in Devices |-> IF d \in D THEN NoKey ELSE keys[d]]
    /\ usage' = [d \in Devices |-> IF d \in D THEN 0 ELSE usage[d]]
    /\ expired' = expired \ D

\* EncryptionManager.GetKey returns a key.
Usable(d) == keys[d] # NoKey /\ d \notin expired /\ usage[d] < MaxUsage

-----------------------------------------------------------------------------
(* GenerateSessionKey and RotateSessionKey: the encryption manager, then   *)
(* the store, then the session, each under its own lock.                   *)

ChangeBegins(c, op, d, step) ==
    /\ Begins(c, op, d, step)
    /\ contended' = IF Changing(d) = {} THEN contended \ {d} ELSE contended \cup {d}

GenerateSessionKey(c, d) ==
    /\ ChangeBegins(c, "generate", d, "generate")
    /\ UNCHANGED <<holder, sessionKey, stale, encrypting, keyring, stored>>

\* RotateKey deletes the old key and lets go of its lock to call GenerateKey.
RotateSessionKey(c, d) ==
    /\ ChangeBegins(c, "rotate", d, "generate")
    /\ KeysGo({d})
    /\ UNCHANGED <<holder, sessionKey, stale, encrypting, stored>>

KeyIsGenerated(c) ==
    /\ calls[c].step = "generate"
    /\ \E k \in Keys :
          /\ GenerateKey(calls[c].device, k)
          /\ Goes(c, "store", k)
    /\ UNCHANGED <<holder, sessionKey, stale, encrypting, stored, contended>>

\* Mutation: a rotation leaves the old key in the store.
StoreNewOnly(c) == IF calls[c].op = "rotate" THEN stored
                   ELSE [stored EXCEPT ![calls[c].device] = calls[c].key]

StoreKey(c) == [stored EXCEPT ![calls[c].device] = calls[c].key]

KeyIsStored(c) ==
    /\ calls[c].step = "store"
    /\ stored' = StoreKey(c)
    /\ Goes(c, "session", calls[c].key)
    /\ UNCHANGED <<holder, sessionKey, stale, encrypting, keyring, contended>>

\* The session that is there or a new one takes the key (getOrCreateSession).
GenerateSettles(c) ==
    /\ At(c, "generate", "session")
    /\ holder = "free"
    /\ LET d == calls[c].device
       IN  /\ sessionKey' = [sessionKey EXCEPT ![d] = calls[c].key]
           /\ stale' = IF sessionKey[d] = NoSession THEN stale \ {d} ELSE stale
    /\ Returns(c)
    /\ UNCHANGED <<holder, encrypting, keyring, stored, contended>>

\* A rotation never creates a session, but keeps one from expiring.
RotateSettles(c) ==
    /\ At(c, "rotate", "session")
    /\ holder = "free"
    /\ LET d == calls[c].device
       IN  IF sessionKey[d] = NoSession
           THEN UNCHANGED <<sessionKey, stale>>
           ELSE /\ sessionKey' = [sessionKey EXCEPT ![d] = calls[c].key]
                /\ stale' = stale \ {d}
    /\ Returns(c)
    /\ UNCHANGED <<holder, encrypting, keyring, stored, contended>>

-----------------------------------------------------------------------------
(* Encrypt: the key is looked up under the read lock, its use is counted   *)
(* under the write lock, whatever has become of the key in between: what   *)
(* is counted on a key that is no longer in use is read by nobody.         *)

Encrypt(c, d) ==
    /\ encrypting
    /\ Usable(d)
    /\ calls[c] = Idle
    /\ calls' = [calls EXCEPT ![c] = Call("encrypt", d, "count", keys[d])]
    /\ UNCHANGED <<holder, sessionKey, stale, encrypting, keyring, stored, contended>>

UseIsCounted(c) ==
    /\ At(c, "encrypt", "count")
    /\ LET d == calls[c].device
       IN  usage' = IF keys[d] = calls[c].key THEN [usage EXCEPT ![d] = @ + 1] ELSE usage
    /\ Returns(c)
    /\ UNCHANGED <<holder, sessionKey, stale, encrypting, keys, expired, stored, contended>>

-----------------------------------------------------------------------------
(* Sessions end.                                                           *)

\* Sessions of the devices in D are deleted with their stored keys; the keys
\* data is encrypted with stay.
SessionsEnd(D) ==
    /\ sessionKey' = [d \in Devices |-> IF d \in D THEN NoSession ELSE sessionKey[d]]
    /\ stored' = [d \in Devices |-> IF d \in D THEN NoKey ELSE stored[d]]
    /\ stale' = stale \ D
    /\ contended' = contended \cup {d \in D : Changing(d) # {}}

RevokeSession(d) ==
    /\ holder = "free"
    /\ sessionKey[d] # NoSession
    /\ SessionsEnd({d})
    /\ UNCHANGED <<holder, encrypting, keyring, calls>>

CleanupExpiredSessions ==
    /\ holder = "free"
    /\ stale # {}
    /\ SessionsEnd(stale)
    /\ UNCHANGED <<holder, encrypting, keyring, calls>>

CleanupExpiredKeys ==
    /\ LET over == {d \in Devices : d \in expired \/ usage[d] >= MaxUsage}
       IN  over # {} /\ KeysGo(over)
    /\ UNCHANGED <<holder, sessionKey, stale, encrypting, stored, calls, contended>>

-----------------------------------------------------------------------------
(* Authenticate asks IsWhitelisted, which takes the read lock, while it    *)
(* holds the write lock: it never gets any further and never lets go.      *)

Authenticate(c, d) ==
    /\ holder = "free"
    /\ Begins(c, "authenticate", d, "whitelist")
    /\ holder' = c
    /\ UNCHANGED <<sessionKey, stale, encrypting, keyring, stored, contended>>

(* Authorize reads the white list, the policy, the trusted devices and the *)
(* session, one lock at a time, and changes nothing: it is granted only by *)
(* a session's permissions, which nobody but Authenticate gives.  The      *)
(* lists it reads decide nothing else and are left out.                    *)

Authorize(c, d) ==
    /\ Begins(c, "authorize", d, "whitelist")
    /\ UNCHANGED <<holder, sessionKey, stale, encrypting, keyring, stored, contended>>

AuthorizeAnswers(c) ==
    /\ calls[c].op = "authorize"
    /\ holder = "free"
    /\ Returns(c)
    /\ UNCHANGED <<holder, sessionKey, stale, encrypting, keyring, stored, contended>>

EnableSecurityFeature(on) ==
    /\ holder = "free"
    /\ encrypting' = on
    /\ UNCHANGED <<holder, sessionKey, stale, keyring, stored, calls, contended>>

\* Sessions may be too old for a shorter timeout, and no longer for a longer one.
SetSessionTimeout ==
    /\ holder = "free"
    /\ stale' \in SUBSET {d \in Devices : sessionKey[d] # NoSession}
    /\ UNCHANGED <<holder, sessionKey, encrypting, keyring, stored, calls, contended>>

-----------------------------------------------------------------------------
(* Time: a session or a key gets too old.                                  *)

SessionExpires(d) ==
    /\ sessionKey[d] # NoSession
    /\ d \notin stale
    /\ stale' = stale \cup {d}
    /\ UNCHANGED <<holder, sessionKey, encrypting, keyring, stored, calls, contended>>

KeyExpires(d) ==
    /\ keys[d] # NoKey
    /\ d \notin expired
    /\ expired' = expired \cup {d}
    /\ UNCHANGED <<holder, sessionKey, stale, encrypting, keys, usage, stored, calls, contended>>

-----------------------------------------------------------------------------
Init ==
    /\ holder = "free"
    /\ sessionKey = [d \in Devices |-> NoSession]
    /\ stale = {}
    /\ encrypting \in BOOLEAN
    /\ keys = [d \in Devices |-> NoKey]
    /\ usage = [d \in Devices |-> 0] /\ expired = {}
    /\ stored = [d \in Devices |-> NoKey]
    /\ calls = [c \in Callers |-> Idle]
    /\ contended = {}

CallStep(c) ==
    \/ KeyIsGenerated(c) \/ KeyIsStored(c) \/ GenerateSettles(c) \/ RotateSettles(c)
    \/ UseIsCounted(c) \/ AuthorizeAnswers(c)

Next ==
    \/ \E c \in Callers, d \in Devices :
          \/ GenerateSessionKey(c, d) \/ RotateSessionKey(c, d) \/ Encrypt(c, d)
          \/ Authenticate(c, d) \/ Authorize(c, d)
    \/ \E c \in Callers : CallStep(c)
    \/ \E d \in Devices : RevokeSession(d) \/ SessionExpires(d) \/ KeyExpires(d)
    \/ CleanupExpiredSessions \/ CleanupExpiredKeys \/ SetSessionTimeout
    \/ \E on \in BOOLEAN : EnableSecurityFeature(on)

Spec == Init /\ [][Next]_vars

-----------------------------------------------------------------------------
\* Where no two calls have changed a device's keys at once, the session, the
\* store and the encryption manager agree once the calls have returned: data is
\* encrypted with the session's key, and the store holds that one.
KeysAgree ==
    \A d \in Devices :
        (d \notin contended /\ Changing(d) = {} /\ sessionKey[d] # NoSession)
        => stored[d] = sessionKey[d] /\ keys[d] \in {sessionKey[d], NoKey}
=============================================================================
