---------------------------- MODULE MCUvcContext ----------------------------
(* Instances of UvcContext for TLC *)
EXTENDS UvcContext

CONSTANTS d1, d2, h1, h2, h3

TwoDevices   == {d1, d2}
ThreeHandles == {h1, h2, h3}
=============================================================================
