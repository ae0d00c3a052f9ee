---------------------------- MODULE MCDeviceTrust ----------------------------
(* Instances of DeviceTrust for TLC: devices d1, d2, d3; in the account's   *)
(* instance d1 is this app's device.                                       *)
EXTENDS DeviceTrust, TLC

CONSTANTS d1, d2, d3

(* Devices are interchangeable, except this app's own.                     *)
Peers == Permutations(Devices \ {Own})
=============================================================================
