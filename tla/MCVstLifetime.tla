--------------------------- MODULE MCVstLifetime ---------------------------
(* Small instances of VstLifetime for TLC.                               *)
EXTENDS VstLifetime
CONSTANTS u1, u2, io1, io2
============================================================================
