--------------------------- MODULE MCVstCallbacks ---------------------------
(* Model values for the threads of VstCallbacks.                           *)
EXTENDS VstCallbacks

CONSTANTS u1, u2, io1, io2
=============================================================================
