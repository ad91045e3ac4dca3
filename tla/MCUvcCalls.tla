---------------------------- MODULE MCUvcCalls -----------------------------
(* The calls of libuvc on a context for TLC: opening, closing and streaming *)
(* of the handles (UvcContext), or what uvc_open reads of a camera and the  *)
(* negotiation that follows (UvcNegotiate).  The two share no state, so one *)
(* moves while the other is where it starts.                                *)
EXTENDS MCUvcContext, MCUvcNegotiate

CallsInit == Init /\ NegotiateInit

HandleCalls ==
    /\ NegotiateInit /\ camera = CHOOSE c \in Cameras : TRUE
    /\ Next /\ UNCHANGED negotiateVars
CameraCalls ==
    /\ Init /\ dev = CHOOSE d \in [Handles -> Devices] : TRUE
    /\ NegotiateNext /\ UNCHANGED vars

CallsSpec ==
    /\ CallsInit /\ [][HandleCalls \/ CameraCalls]_<<vars, negotiateVars>>
    /\ CallsFairness

=============================================================================
