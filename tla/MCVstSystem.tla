-------------------------- MODULE MCVstSystem -----------------------------
(* Small instances of VstSystem for TLC.                               *)
EXTENDS VstSystem
CONSTANTS u1, u2, io1, io2
============================================================================
