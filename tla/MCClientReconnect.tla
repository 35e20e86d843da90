-------------------------- MODULE MCClientReconnect --------------------------
(* Instances of ClientReconnect for TLC.                                   *)
EXTENDS ClientReconnect, TLC

DeviceSymmetry == Permutations(Devices)
=============================================================================
