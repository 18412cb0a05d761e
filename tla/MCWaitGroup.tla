---------------------------- MODULE MCWaitGroup ----------------------------
(* Small instances of WaitGroup for TLC.                                *)
EXTENDS WaitGroup
CONSTANTS e1, e2, e3
============================================================================
