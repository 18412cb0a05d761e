---------------------------- MODULE MCVstFraming ----------------------------
(* Small messages for TLC: the slices of the message header and the        *)
(* payload, of which the last does not fit into one chunk.                 *)
EXTENDS VstFraming

TwoMessages == << <<2>>, <<1, 3>> >>
=============================================================================
