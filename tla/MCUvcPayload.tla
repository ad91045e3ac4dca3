---------------------------- MODULE MCUvcPayload ----------------------------
(* An instance of UvcPayload with its two ways out, for TLC *)
EXTENDS UvcPoll

EofStyle == {"eof"}
=============================================================================
