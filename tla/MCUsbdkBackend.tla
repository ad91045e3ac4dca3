--------------------------- MODULE MCUsbdkBackend ---------------------------
(* An instance of UsbdkBackend: four identities, one more than the table   *)
(* has room for, with colliding hashes; up to two devices at a time, two   *)
(* contexts and two handles.                                               *)
EXTENDS UsbdkBackend

MCHash == <<1, 1, 2, 0>>
MCNumConfigs == <<1, 2, 1, 2>>
MCSymmetry == Permutations(Contexts) \cup Permutations(Handles) \cup Permutations(Transfers)
=============================================================================
