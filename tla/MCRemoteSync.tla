---------------------------- MODULE MCRemoteSync ----------------------------
(* Two or three devices that share a target; profiles share a section.     *)
EXTENDS RemoteSync, TLC

DeviceSymmetry == Permutations(Devices)
=============================================================================
