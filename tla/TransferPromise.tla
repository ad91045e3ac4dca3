--------------------------- MODULE TransferPromise ---------------------------
(***************************************************************************)
(* What libusb promises of the transfers of one device (libusb.h,          *)
(* libusb_submit_transfer and libusb_cancel_transfer): every accepted      *)
(* submission is called back once; a transfer is reported as timed out     *)
(* only if it had a timeout that passed, and as cancelled only if the      *)
(* driver was told to abort it.                                            *)
(***************************************************************************)
CONSTANT Transfers

VARIABLES
    active,    \* accepted and not yet called back
    aborted,   \* active transfers that the driver was told to abort
    expired,   \* active transfers whose timeout has passed
    report     \* what the callback that runs is told, "none" between callbacks

vars == <<active, aborted, expired, report>>

Init ==
    /\ active = {} /\ aborted = {} /\ expired = {}
    /\ report = "none"

(* The timeout of a transfer may pass while it is being submitted *)
Accept(t) ==
    /\ t \notin active
    /\ active' = active \cup {t}
    /\ expired' \in {expired, expired \cup {t}}
    /\ UNCHANGED <<aborted, report>>

(* A cancellation, or a timeout, may abort other transfers as well *)
Abort ==
    /\ aborted' \in SUBSET active /\ aborted \subseteq aborted'
    /\ UNCHANGED <<active, expired, report>>

Expire ==
    /\ expired' \in SUBSET active /\ expired \subseteq expired'
    /\ UNCHANGED <<active, aborted, report>>

CallBack(t, status) ==
    /\ t \in active
    /\ status = "cancelled" => t \in aborted
    /\ status = "timed_out" => t \in aborted \cap expired
    /\ active' = active \ {t} /\ aborted' = aborted \ {t} /\ expired' = expired \ {t}
    /\ report = "none" /\ report' = status

CallBackEnds ==
    /\ report' = "none"
    /\ UNCHANGED <<active, aborted, expired>>

Next ==
    \/ Abort \/ Expire \/ CallBackEnds
    \/ \E t \in Transfers : Accept(t)
    \/ \E t \in Transfers, status \in {"ended", "cancelled", "timed_out"} :
           CallBack(t, status)

Spec == Init /\ [][Next]_vars
=============================================================================
