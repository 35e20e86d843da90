-------------------------- MODULE MCDefaultAdapter --------------------------
(* Instances of DefaultAdapter for TLC.                                    *)
EXTENDS DefaultAdapter, SequencesExt

CONSTANT d1

MCIncoming == <<d1>>

\* Every sequence of up to three advertisements with a name of every kind.
Advertisements ==
    [name : Generated \cup {"", "Pen", "Ink"}, uuids : SUBSET {"default", "audio"}]

ASSUME \A ads \in BoundedSeq(Advertisements, 3) :
    ads # <<>> => KeepsOwnName(ads) /\ KeepsServices(ads)
=============================================================================
