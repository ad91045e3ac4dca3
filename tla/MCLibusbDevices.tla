-------------------------- MODULE MCLibusbDevices --------------------------
(* LibusbDevices for TLC: a camera with an interface of its own on a hub    *)
(* below the root hub.  Another camera may take its place.                  *)
EXTENDS LibusbDevices, TLC

CONSTANTS u1, u2
MCSymmetry == Permutations(Users)

MCOrder == <<"iface", "camera", "hub", "root">>
MCAbove == [root |-> "controller", hub |-> "root", camera |-> "hub", iface |-> "camera"]
MCKind == [root |-> "hub", hub |-> "hub", camera |-> "device", iface |-> "interface"]
MCNames == [root |-> {5}, hub |-> {6}, camera |-> {1, 2}, iface |-> {7}]

=============================================================================
