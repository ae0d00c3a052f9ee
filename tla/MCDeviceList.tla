---------------------------- MODULE MCDeviceList ----------------------------
(* Two clients and a device nobody uses any more, for TLC.                 *)
EXTENDS DeviceList

CONSTANTS c1, c2, old
=============================================================================
