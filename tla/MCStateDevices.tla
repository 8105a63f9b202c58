--------------------------- MODULE MCStateDevices ---------------------------
(* StateDevices for TLC: a redundant pair of devices and one socket.       *)
EXTENDS StateDevices

CONSTANTS d1, d2, c1, k1, v1, v2
=============================================================================
