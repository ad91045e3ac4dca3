--------------------------- MODULE MCLibusbEvents ---------------------------
(* An instance of LibusbEvents for TLC *)
EXTENDS LibusbEvents

CONSTANT u1

OneUser == {u1}
=============================================================================
