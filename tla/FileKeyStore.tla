---------------------------- MODULE FileKeyStore ----------------------------
(***************************************************************************)
(* The key store (internal/security/keystore.go): keys by device, kept in  *)
(* memory and in a file that is replaced as a whole, at once or, in the    *)
(* automatic mode, by a loop and by Close.  The process may die at any     *)
(* step and start again.                                                   *)
(*                                                                         *)
(* fks.mu is held from the first step of a save to its last: for writing   *)
(* by an operation, for reading by the loop and by Backup.  Encryption,    *)
(* metadata, access counts and times are left out.                         *)
(***************************************************************************)
CONSTANTS
    StoreDevices,  \* device identifiers
    StoreKeys,     \* keys
    Missing,       \* no key, no file
    Unknown        \* the caller cannot tell

VARIABLES
    autoSave,    \* the mode, and whether its loop runs
    keys,        \* fks.keys
    file,        \* the store's file, device to entry
    tmp,         \* its temporary file
    backup,      \* the last backup
    saving,      \* saves under way: "no", "begun" or "written"
    returns,     \* what the caller may rely on once the operation's save succeeds
    closed,      \* stopChan: "no", "closing", "closed"
    acked        \* what the caller may rely on, by device

vars == <<autoSave, keys, file, tmp, backup, saving, returns, closed, acked>>

Savers == {"operation", "loop"}

Store == [StoreDevices -> StoreKeys \cup {Missing}]
Known == [StoreDevices -> StoreKeys \cup {Missing, Unknown}]

\* The loop runs in the automatic mode with an interval.
Modes == {a \in [mode : BOOLEAN, loop : BOOLEAN] : a.loop => a.mode}

Empty == [d \in StoreDevices |-> Missing]

TypeOK ==
    /\ autoSave \in [mode : BOOLEAN, loop : BOOLEAN]
    /\ keys \in Store /\ file \in Store
    /\ tmp \in Store \cup {Missing} /\ backup \in Store \cup {Missing}
    /\ saving \in [Savers -> {"no", "begun", "written"}]
    /\ returns \in Known /\ acked \in Known
    /\ closed \in {"no", "closing", "closed"}

Init ==
    /\ autoSave \in Modes
    /\ keys = Empty /\ file = Empty
    /\ tmp = Missing /\ backup = Missing
    /\ saving = [s \in Savers |-> "no"]
    /\ returns = Empty /\ acked = Empty
    /\ closed = "no"

-----------------------------------------------------------------------------
NoWriter == saving["operation"] = "no"
Unlocked == \A s \in Savers : saving[s] = "no"

\* The devices of D are changed to new in memory.  Without the loop the
\* operation saves, and returns with the save; with it, it returns at once.
Changes(D, new) ==
    /\ keys' = [d \in StoreDevices |-> IF d \in D THEN new ELSE keys[d]]
    /\ acked' = [d \in StoreDevices |-> IF d \in D THEN Unknown ELSE acked[d]]
    /\ returns' = [d \in StoreDevices |-> IF d \in D THEN new ELSE acked[d]]
    /\ saving' = [saving EXCEPT !["operation"] = IF autoSave.mode THEN "no" ELSE "begun"]
    /\ UNCHANGED <<autoSave, file, tmp, backup, closed>>

StoreKey(d, k) == Unlocked /\ Changes({d}, k)

DeleteKey(d) == Unlocked /\ keys[d] # Missing /\ Changes({d}, Missing)

\* The keys of D are older than maxAge.
CleanupOldKeys(D) ==
    /\ Unlocked /\ D # {} /\ \A d \in D : keys[d] # Missing
    /\ Changes(D, Missing)

\* The backup's entries are put over those in memory, and nothing is saved.
Restore ==
    /\ Unlocked /\ backup # Missing
    /\ keys' = [d \in StoreDevices |-> IF backup[d] # Missing THEN backup[d] ELSE keys[d]]
    /\ acked' = [d \in StoreDevices |-> IF backup[d] # Missing THEN Unknown ELSE acked[d]]
    /\ UNCHANGED <<autoSave, file, tmp, backup, saving, returns, closed>>

CloseBegins ==
    /\ closed = "no"
    /\ closed' = "closing"
    /\ UNCHANGED <<autoSave, keys, file, tmp, backup, saving, returns, acked>>

CloseSaves ==
    /\ closed = "closing" /\ Unlocked
    /\ closed' = "closed"
    /\ saving' = [saving EXCEPT !["operation"] = "begun"]
    /\ returns' = keys
    /\ UNCHANGED <<autoSave, keys, file, tmp, backup, acked>>

\* The loop and Backup read: they wait for an operation, not for each other.
LoopSaves ==
    /\ autoSave.loop /\ NoWriter /\ saving["loop"] = "no"
    /\ saving' = [saving EXCEPT !["loop"] = "begun"]
    /\ UNCHANGED <<autoSave, keys, file, tmp, backup, returns, closed, acked>>

LoopEnds ==
    /\ autoSave.loop /\ closed # "no" /\ saving["loop"] = "no"
    /\ autoSave' = [autoSave EXCEPT !.loop = FALSE]
    /\ UNCHANGED <<keys, file, tmp, backup, saving, returns, closed, acked>>

\* The backup is written next to its name and renamed, too; its steps change
\* nothing else, so one is enough.
Backup ==
    /\ NoWriter
    /\ backup' = keys
    /\ UNCHANGED <<autoSave, keys, file, tmp, saving, returns, closed, acked>>

\* saveToFile: the temporary file is written ...
SaveWrites(s) ==
    /\ saving[s] = "begun"
    /\ tmp' = keys
    /\ saving' = [saving EXCEPT ![s] = "written"]
    /\ UNCHANGED <<autoSave, keys, file, backup, returns, closed, acked>>

\* ... and takes the place of the file.
SaveRenames(s) ==
    /\ saving[s] = "written"
    /\ file' = tmp /\ tmp' = Missing
    /\ saving' = [saving EXCEPT ![s] = "no"]
    /\ acked' = IF s = "operation" THEN returns ELSE acked
    /\ UNCHANGED <<autoSave, keys, backup, returns, closed>>

\* Mutation: the error of a save is not returned.
ErrorIsSwallowed(s) ==
    /\ saving[s] # "no"
    /\ saving' = [saving EXCEPT ![s] = "no"]
    /\ acked' = IF s = "operation" THEN returns ELSE acked
    /\ UNCHANGED <<autoSave, keys, file, tmp, backup, returns, closed>>

\* Either fails: an operation returns the error, and memory keeps the change.
SaveFails(s) ==
    /\ saving[s] # "no"
    /\ saving' = [saving EXCEPT ![s] = "no"]
    /\ UNCHANGED <<autoSave, keys, file, tmp, backup, returns, closed, acked>>

\* The process dies and is started again, with the loop or without it.
Restart ==
    /\ autoSave' \in Modes
    /\ keys' = file
    /\ saving' = [s \in Savers |-> "no"]
    /\ closed' = "no"
    /\ UNCHANGED <<file, tmp, backup, returns, acked>>

Next ==
    \/ \E d \in StoreDevices, k \in StoreKeys : StoreKey(d, k)
    \/ \E d \in StoreDevices : DeleteKey(d)
    \/ \E D \in SUBSET StoreDevices : CleanupOldKeys(D)
    \/ Restore \/ CloseBegins \/ CloseSaves \/ LoopSaves \/ LoopEnds \/ Backup
    \/ \E s \in Savers : SaveWrites(s) \/ SaveRenames(s) \/ SaveFails(s)
    \/ Restart

Spec == Init /\ [][Next]_vars

-----------------------------------------------------------------------------
\* What an operation has reported as saved is in the file, whatever failed or
\* died since, until the caller changes it (keystore.go:110, 162, 293, 385).
AckedIsDurable ==
    \A d \in StoreDevices : acked[d] # Unknown => file[d] = acked[d]
=============================================================================
