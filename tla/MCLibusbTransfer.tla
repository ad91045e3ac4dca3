-------------------------- MODULE MCLibusbTransfer --------------------------
(* Instances of LibusbTransfer for TLC *)
EXTENDS LibusbTransfer

Streams == [t \in Transfers |-> "stream"]
OneControl == [Streams EXCEPT ![CHOOSE t \in Transfers : TRUE] = "control"]

AnyDevice == {<<Streams, "one">>, <<OneControl, "pipe">>, <<Streams, "fails">>}
NoneOrOne == {0, 1}
=============================================================================
