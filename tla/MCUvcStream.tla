---------------------------- MODULE MCUvcStream ----------------------------
(* Instances of UvcStream for TLC; the configurations give the constants.  *)
EXTENDS UvcStream

(* Failures that leave the handle in a state the code is written for *)
ExpectedFaults == {{"config", "submit"}}

(* Those, or all of them *)
MoreFaults == ExpectedFaults \cup {FaultKinds}

(* A rejected cancellation only *)
CancelFault == {{"cancel"}}

=============================================================================
