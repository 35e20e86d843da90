--------------------------- MODULE DownloadFolder ---------------------------
(***************************************************************************)
(* What the file transfer example promises of the directory it downloads   *)
(* to: under a name there is nothing, a file exactly as one of its senders *)
(* announced it, or what a failed write has left.                          *)
(***************************************************************************)
CONSTANTS
    Transfers,      \* the files that may be sent
    NameOf,         \* the name a file is saved under
    ContentOf,      \* its bytes
    Nothing,        \* no file of that name
    Torn            \* what a write that failed has left

VARIABLES
    announced,  \* the files whose transfer has begun
    folder      \* file name to bytes

Names == {NameOf[t] : t \in Transfers}

Init == announced = {} /\ folder = [n \in Names |-> Nothing]

Announce(t) == announced' = announced \cup {t} /\ UNCHANGED folder

Save(t) ==
    /\ t \in announced
    /\ folder' = [folder EXCEPT ![NameOf[t]] = ContentOf[t]]
    /\ UNCHANGED announced

SaveFails(t) ==
    /\ t \in announced
    /\ folder' = [folder EXCEPT ![NameOf[t]] = Torn]
    /\ UNCHANGED announced

Next == \E t \in Transfers : Announce(t) \/ Save(t) \/ SaveFails(t)

Spec == Init /\ [][Next]_<<announced, folder>>
=============================================================================
