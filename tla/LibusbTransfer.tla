---------------------------- MODULE LibusbTransfer ----------------------------
(***************************************************************************)
(* The life of the transfers of one device handle (libusb_src/io.c and the *)
(* UsbDk backend, which WinUSB's resembles): submission, completion,       *)
(* cancellation and timeouts, the locks that order them and the flags they *)
(* leave on a transfer.                                                    *)
(*                                                                         *)
(* Three threads act: App submits and cancels, Ev handles events and may   *)
(* submit a transfer again from its callback, Tm is a thread that waited   *)
(* for events until a timeout was due and handles the timeouts.            *)
(***************************************************************************)
EXTENDS Naturals, Sequences, FiniteSets, SequencesExt

CONSTANTS Transfers,
          None,        \* no thread, no transfer
          Devices,     \* values of <<kind, backend>>
          Timeouts,    \* timeouts a transfer may have, 0 is none
          MaxTime      \* bound: the clock, and what a timeout may reach

Procs == {"App", "Ev", "Tm"}

ASSUME ConstantsAssumption ==
    /\ None \notin Procs \cup Transfers
    /\ Devices \subseteq [Transfers -> {"stream", "control"}] \X {"one", "pipe", "fails"}
    /\ Timeouts \subseteq Nat /\ MaxTime \in Nat

VARIABLES
    kind,          \* kind[t]: "stream" (bulk or isochronous) or "control"
    backend,       \* "one": CancelIoEx cancels one request; "pipe": AbortPipe
                   \* cancels all of an endpoint; "fails": so does neither
    now,           \* the monotonic clock
    flying_lock, lock,       \* ctx->flying_transfers_lock, lock[t]: its holder
    flying,        \* ctx->flying_transfers
    timeout,       \* timeout[t]: absolute, 0 is none
    in_flight, cancelling,       \* state_flags, protected by lock[t]
    timeout_handled, timed_out,  \* timeout_flags, protected by flying_lock
    overlapped,    \* 0: pollable_fd.overlapped is NULL
    io,            \* driver: "none", "pending", "aborting", "done", "aborted"
    refs,          \* references on the device that transfers hold
    pc, work,      \* step of each thread, and the transfer it works on
    status,        \* Ev: the status to report
    \* history:
    owed,          \* owed[t]: submissions accepted and not called back
    asked,         \* transfers the application cancelled with success
    told,          \* transfers the driver was told to abort
    stray          \* a cancellation hit a transfer it was not meant for

config == <<kind, backend>>
locks == <<flying_lock, lock>>
flags == <<in_flight, cancelling>>
timeoutFlags == <<timeout_handled, timed_out>>
history == <<asked, told, stray>>
vars == <<config, now, locks, flying, timeout, flags, timeoutFlags, overlapped, io,
          refs, pc, work, status, owed, history>>

AllZero == [t \in Transfers |-> 0]

Init ==
    /\ \E d \in Devices : kind = d[1] /\ backend = d[2]
    /\ now = 0
    /\ flying_lock = None /\ lock = [t \in Transfers |-> None]
    /\ flying = <<>> /\ timeout = AllZero
    /\ in_flight = AllZero /\ cancelling = AllZero
    /\ timeout_handled = AllZero /\ timed_out = AllZero
    /\ overlapped = AllZero /\ io = [t \in Transfers |-> "none"]
    /\ refs = 0
    /\ pc = [p \in Procs |-> "idle"] /\ work = [p \in Procs |-> None]
    /\ status = "none"
    /\ owed = AllZero /\ asked = {} /\ told = {} /\ stray = 0

At(p, step) == pc[p] = step
Goto(p, step) == pc' = [pc EXCEPT ![p] = step]
Set(f, t, x) == [f EXCEPT ![t] = x]

-----------------------------------------------------------------------------
(* libusb_submit_transfer *)

(* Mutant: a transfer without a timeout is put at the head of the list      *)
AddToFlying_InfiniteFirst(t, when) ==
    LET later == {i \in 1..Len(flying) : timeout[flying[i]] > when}
        i == IF later = {} THEN Len(flying) + 1 ELSE CHOOSE j \in later : \A k \in later : j <= k
    IN  InsertAt(flying, IF when = 0 THEN 1 ELSE i, t)

(* add_to_flying_list: before the first that is due later or never          *)
AddToFlying(t, when) ==
    LET later == {i \in 1..Len(flying) :
                     timeout[flying[i]] = 0 \/ timeout[flying[i]] > when}
        i == IF when = 0 \/ later = {} THEN Len(flying) + 1
             ELSE CHOOSE j \in later : \A k \in later : j <= k
    IN  InsertAt(flying, i, t)

(* list_del unlinks the node of the transfer, wherever it stands            *)
Position(t) == CHOOSE i \in 1..Len(flying) : flying[i] = t

(* The application submits a transfer that no other thread submits, handles *)
(* or waits for                                                             *)
AppSubmit(t) ==
    /\ At("App", "idle")
    /\ owed[t] = 0 /\ \A p \in Procs : work[p] # t
    /\ Goto("App", "s_flying") /\ work' = Set(work, "App", t)
    /\ UNCHANGED <<config, now, locks, flying, timeout, flags, timeoutFlags,
                   overlapped, io, refs, status, owed, history>>

SubmitFlying(p) ==
    /\ At(p, "s_flying")
    /\ flying_lock = None
    /\ flying_lock' = p
    /\ Goto(p, "s_lock")
    /\ UNCHANGED <<config, now, lock, flying, timeout, flags, timeoutFlags, overlapped,
                   io, refs, work, status, owed, history>>

SubmitDone(p) ==
    IF p = "Ev" THEN Goto(p, "unref") /\ UNCHANGED work
                ELSE Goto(p, "idle") /\ work' = Set(work, p, None)

(* Mutant: only state_flags are reset                                       *)
ResetFlags_StateOnly(t) ==
    /\ in_flight' = Set(in_flight, t, 0) /\ cancelling' = Set(cancelling, t, 0)
    /\ UNCHANGED timeoutFlags

ResetFlags(t) ==
    /\ in_flight' = Set(in_flight, t, 0) /\ cancelling' = Set(cancelling, t, 0)
    /\ timeout_handled' = Set(timeout_handled, t, 0)
    /\ timed_out' = Set(timed_out, t, 0)

(* With both locks: flags reset, timeout computed, onto the flying list     *)
SubmitLock(p, after) ==
    LET t == work[p] IN
    /\ At(p, "s_lock")
    /\ lock[t] = None
    /\ IF in_flight[t] = 1
       THEN /\ SubmitDone(p)
            /\ UNCHANGED <<lock, flying, timeout, flags, timeoutFlags>>
       ELSE LET when == IF after = 0 THEN 0 ELSE now + after IN
            /\ lock' = Set(lock, t, p)
            /\ timeout' = Set(timeout, t, when)
            /\ flying' = AddToFlying(t, when)
            /\ ResetFlags(t)
            /\ Goto(p, "s_driver") /\ UNCHANGED work
    /\ flying_lock' = None
    /\ UNCHANGED <<config, now, overlapped, io, refs, status, owed, history>>

(* do_submit_transfer: the driver takes the request ...                     *)
SubmitAccepted(p) ==
    LET t == work[p] IN
    /\ At(p, "s_driver")
    /\ overlapped' = Set(overlapped, t, 1) /\ io' = Set(io, t, "pending")
    /\ owed' = Set(owed, t, owed[t] + 1)
    /\ asked' = asked \ {t} /\ told' = told \ {t}
    /\ Goto(p, "s_flag")
    /\ UNCHANGED <<config, now, locks, flying, timeout, flags, timeoutFlags, refs,
                   work, status, stray>>

SubmitFlag(p) ==
    LET t == work[p] IN
    /\ At(p, "s_flag")
    /\ in_flight' = Set(in_flight, t, 1) /\ refs' = refs + 1
    /\ lock' = Set(lock, t, None)
    /\ SubmitDone(p)
    /\ UNCHANGED <<config, now, flying_lock, flying, timeout, cancelling, timeoutFlags,
                   overlapped, io, status, owed, history>>

(* ... or not: the lock is released, then the list is cleaned up            *)
SubmitRejected(p) ==
    /\ At(p, "s_driver")
    /\ lock' = Set(lock, work[p], None)
    /\ Goto(p, "s_undo")
    /\ UNCHANGED <<config, now, flying_lock, flying, timeout, flags, timeoutFlags,
                   overlapped, io, refs, work, status, owed, history>>

SubmitUndo(p) ==
    /\ At(p, "s_undo")
    /\ flying_lock = None
    /\ flying' = RemoveAt(flying, Position(work[p]))
    /\ SubmitDone(p)
    /\ UNCHANGED <<config, now, locks, timeout, flags, timeoutFlags, overlapped, io,
                   refs, status, owed, history>>

-----------------------------------------------------------------------------
(* libusb_cancel_transfer *)

Pending == {t \in Transfers : io[t] = "pending"}

(* The requests the backend aborts when t is cancelled: for a control       *)
(* transfer none.  CancelIoEx without an OVERLAPPED cancels all requests of *)
(* the file; AbortPipe cancels all of the endpoint.                         *)
Hits(t) ==
    IF kind[t] = "control" \/ backend = "fails" THEN {}
    ELSE IF backend = "pipe" THEN {u \in Pending : kind[u] = "stream"}
    ELSE IF overlapped[t] = 0 THEN Pending
    ELSE Pending \cap {t}

(* The backend answers LIBUSB_SUCCESS                                       *)
BackendCancels(t) ==
    kind[t] = "control" \/ backend = "pipe" \/ (backend = "one" /\ Hits(t) # {})

(* The section under itransfer->lock, for p; ok if it returns success       *)
Cancel(t) ==
    LET ok == in_flight[t] = 1 /\ cancelling[t] = 0
        hits == IF ok THEN Hits(t) ELSE {}
    IN  /\ lock[t] = None
        /\ cancelling' = IF ok THEN Set(cancelling, t, 1) ELSE cancelling
        /\ io' = [u \in Transfers |-> IF u \in hits THEN "aborting" ELSE io[u]]
        /\ told' = told \cup hits
        /\ stray' = IF hits \subseteq {t} THEN stray ELSE 1

CancelSucceeds(t) == in_flight[t] = 1 /\ cancelling[t] = 0 /\ BackendCancels(t)

AppCancel(t) ==
    /\ At("App", "idle")
    /\ owed[t] = 1
    /\ Cancel(t)
    /\ asked' = IF CancelSucceeds(t) THEN asked \cup {t} ELSE asked
    /\ UNCHANGED <<config, now, locks, flying, timeout, in_flight, timeoutFlags,
                   overlapped, refs, pc, work, status, owed>>

-----------------------------------------------------------------------------
(* handle_timeouts *)

(* The first transfer on the list whose timeout was not handled, if it is   *)
(* due: transfers without a timeout are last.                               *)
Due(t) ==
    \E i \in 1..Len(flying) :
        /\ flying[i] = t /\ timeout_handled[t] = 0
        /\ \A j \in 1..(i - 1) : timeout_handled[flying[j]] = 1
        /\ timeout[t] # 0 /\ timeout[t] <= now

TimeoutsBegin ==
    /\ At("Tm", "idle")
    /\ flying_lock = None
    /\ \E t \in Transfers : Due(t)
    /\ flying_lock' = "Tm"
    /\ Goto("Tm", "scan")
    /\ UNCHANGED <<config, now, lock, flying, timeout, flags, timeoutFlags, overlapped,
                   io, refs, work, status, owed, history>>

TimeoutFound(t) ==
    /\ At("Tm", "scan")
    /\ Due(t)
    /\ timeout_handled' = Set(timeout_handled, t, 1)
    /\ work' = Set(work, "Tm", t)
    /\ Goto("Tm", "cancel")
    /\ UNCHANGED <<config, now, locks, flying, timeout, flags, timed_out, overlapped,
                   io, refs, status, owed, history>>

TimeoutCancel ==
    LET t == work["Tm"] IN
    /\ At("Tm", "cancel")
    /\ Cancel(t)
    /\ Goto("Tm", IF CancelSucceeds(t) THEN "mark" ELSE "scan")
    /\ work' = IF CancelSucceeds(t) THEN work ELSE Set(work, "Tm", None)
    /\ UNCHANGED <<config, now, locks, flying, timeout, in_flight, timeoutFlags,
                   overlapped, refs, status, owed, asked>>

TimeoutMark ==
    /\ At("Tm", "mark")
    /\ timed_out' = Set(timed_out, work["Tm"], 1)
    /\ work' = Set(work, "Tm", None)
    /\ Goto("Tm", "scan")
    /\ UNCHANGED <<config, now, locks, flying, timeout, flags, timeout_handled,
                   overlapped, io, refs, status, owed, history>>

TimeoutsEnd ==
    /\ At("Tm", "scan")
    /\ \A t \in Transfers : ~Due(t)
    /\ flying_lock' = None
    /\ Goto("Tm", "idle")
    /\ UNCHANGED <<config, now, lock, flying, timeout, flags, timeoutFlags, overlapped,
                   io, refs, work, status, owed, history>>

-----------------------------------------------------------------------------
(* windows_handle_events for one transfer, and the completion *)

(* The transfer of a ready descriptor is looked up in the flying list       *)
EvFound(t) ==
    /\ At("Ev", "idle")
    /\ flying_lock = None
    /\ io[t] \in {"done", "aborted"} /\ overlapped[t] = 1 /\ t \in ToSet(flying)
    /\ work' = Set(work, "Ev", t)
    /\ status' = IF io[t] = "done" THEN "ended" ELSE "cancelled"
    /\ Goto("Ev", "clear")
    /\ UNCHANGED <<config, now, locks, flying, timeout, flags, timeoutFlags, overlapped,
                   io, refs, owed, history>>

(* clear_transfer_priv, without the transfer's lock                         *)
EvClear ==
    LET t == work["Ev"] IN
    /\ At("Ev", "clear")
    /\ overlapped' = Set(overlapped, t, 0) /\ io' = Set(io, t, "none")
    /\ Goto("Ev", IF status = "cancelled" THEN "ask" ELSE "unlist")
    /\ UNCHANGED <<config, now, locks, flying, timeout, flags, timeoutFlags, refs, work,
                   status, owed, history>>

(* usbi_handle_transfer_cancellation                                        *)
EvAskTimedOut ==
    /\ At("Ev", "ask")
    /\ flying_lock = None
    /\ status' = IF timed_out[work["Ev"]] = 1 THEN "timed_out" ELSE "cancelled"
    /\ Goto("Ev", "unlist")
    /\ UNCHANGED <<config, now, locks, flying, timeout, flags, timeoutFlags, overlapped,
                   io, refs, work, owed, history>>

(* usbi_handle_transfer_completion: off the list, flag, callback, reference *)
EvUnlist ==
    /\ At("Ev", "unlist")
    /\ flying_lock = None
    /\ flying' = RemoveAt(flying, Position(work["Ev"]))
    /\ Goto("Ev", "unflag")
    /\ UNCHANGED <<config, now, locks, timeout, flags, timeoutFlags, overlapped, io,
                   refs, work, status, owed, history>>

(* Mutant: the flag is cleared without the transfer's lock                  *)
EvUnflag_NoLock ==
    /\ At("Ev", "unflag")
    /\ in_flight' = Set(in_flight, work["Ev"], 0)
    /\ Goto("Ev", "callback")
    /\ UNCHANGED <<config, now, locks, flying, timeout, cancelling, timeoutFlags,
                   overlapped, io, refs, work, status, owed, history>>

EvUnflag ==
    /\ At("Ev", "unflag")
    /\ lock[work["Ev"]] = None
    /\ in_flight' = Set(in_flight, work["Ev"], 0)
    /\ Goto("Ev", "callback")
    /\ UNCHANGED <<config, now, locks, flying, timeout, cancelling, timeoutFlags,
                   overlapped, io, refs, work, status, owed, history>>

(* The callback submits the transfer again, or returns                      *)
EvCallback(again) ==
    LET t == work["Ev"] IN
    /\ At("Ev", "callback")
    /\ owed' = Set(owed, t, owed[t] - 1)
    /\ asked' = asked \ {t} /\ told' = told \ {t}
    /\ Goto("Ev", IF again THEN "s_flying" ELSE "unref")
    /\ UNCHANGED <<config, now, locks, flying, timeout, flags, timeoutFlags, overlapped,
                   io, refs, work, status, stray>>

EvUnref ==
    /\ At("Ev", "unref")
    /\ refs' = refs - 1
    /\ work' = Set(work, "Ev", None) /\ status' = "none"
    /\ Goto("Ev", "idle")
    /\ UNCHANGED <<config, now, locks, flying, timeout, flags, timeoutFlags, overlapped,
                   io, owed, history>>

-----------------------------------------------------------------------------
(* The driver and the clock *)

(* A request ends, by the driver's own timeout (ERROR_SEM_TIMEOUT) included; *)
(* one that is being aborted may still end by itself                        *)
DriverEnds(t) ==
    /\ \/ io[t] \in {"pending", "aborting"} /\ io' = Set(io, t, "done")
       \/ io[t] = "aborting" /\ io' = Set(io, t, "aborted")
    /\ UNCHANGED <<config, now, locks, flying, timeout, flags, timeoutFlags, overlapped,
                   refs, pc, work, status, owed, history>>

Tick ==
    /\ now < MaxTime
    /\ now' = now + 1
    /\ UNCHANGED <<config, locks, flying, timeout, flags, timeoutFlags, overlapped, io,
                   refs, pc, work, status, owed, history>>

SubmitStep(p) ==
    \/ SubmitFlying(p) \/ SubmitAccepted(p) \/ SubmitFlag(p) \/ SubmitRejected(p)
    \/ SubmitUndo(p)
    \/ \E after \in Timeouts : now + after <= MaxTime /\ SubmitLock(p, after)

Ev ==
    \/ SubmitStep("Ev")
    \/ \E t \in Transfers : EvFound(t)
    \/ EvClear \/ EvAskTimedOut \/ EvUnlist \/ EvUnflag \/ EvUnref
    \/ \E again \in BOOLEAN : EvCallback(again)

Tm ==
    \/ TimeoutsBegin \/ TimeoutCancel \/ TimeoutMark \/ TimeoutsEnd
    \/ \E t \in Transfers : TimeoutFound(t)

Next ==
    \/ \E t \in Transfers : AppSubmit(t) \/ AppCancel(t) \/ DriverEnds(t)
    \/ SubmitStep("App") \/ Ev \/ Tm \/ Tick

Spec == Init /\ [][Next]_vars

(* Every thread runs on and gets the locks it waits for; Ev handles all the *)
(* descriptors that are ready before it polls again; the clock runs; a      *)
(* request that is being aborted ends.  A request that is not need not.     *)
FairSpec ==
    /\ Spec
    /\ SF_vars(SubmitStep("App")) /\ SF_vars(Ev) /\ SF_vars(Tm) /\ WF_vars(Tick)
    /\ \A t \in Transfers : SF_vars(EvFound(t))
    /\ \A t \in Transfers : WF_vars(io[t] = "aborting" /\ DriverEnds(t))

-----------------------------------------------------------------------------
(* Properties *)

(* Every variable stays in its range; no transfer is on the list twice, and *)
(* none is accepted twice without a callback in between.                    *)
TypeOK ==
    /\ flying_lock \in Procs \cup {None}
    /\ lock \in [Transfers -> Procs \cup {None}]
    /\ flying \in Seq(Transfers) /\ IsInjective(flying)
    /\ timeout \in [Transfers -> 0..MaxTime]
    /\ {in_flight, cancelling, timeout_handled, timed_out, overlapped, owed}
          \subseteq [Transfers -> {0, 1}]
    /\ io \in [Transfers -> {"none", "pending", "aborting", "done", "aborted"}]
    /\ refs \in Nat /\ work \in [Procs -> Transfers \cup {None}]
    /\ asked \subseteq Transfers /\ told \subseteq Transfers

(* A transfer that was called back, or was never accepted, has no trace in  *)
(* libusb: it can be submitted again.  What is in flight holds a reference  *)
(* on the device until after the callback.                                  *)
FlightExact ==
    /\ \A t \in Transfers :
           (owed[t] = 0 /\ \A p \in Procs : work[p] # t) =>
               in_flight[t] = 0 /\ t \notin ToSet(flying) /\ io[t] = "none"
    /\ Cardinality({t \in Transfers : in_flight[t] = 1}) <= refs

(* A transfer that only its timeout aborted is never reported as cancelled: *)
(* the handler of the completion waits for the handler of the timeout.      *)
CancelledOnRequest ==
    (At("Ev", "callback") /\ status = "cancelled" /\ stray = 0)
        => work["Ev"] \in asked

(* TransferPromise as these variables show it *)
Promise == INSTANCE TransferPromise WITH
    active  <- {t \in Transfers : owed[t] = 1},
    aborted <- told,
    expired <- {t \in Transfers : owed[t] = 1 /\ timeout[t] # 0 /\ timeout[t] <= now},
    report  <- IF pc["Ev"] \in {"idle", "clear", "ask", "unlist", "unflag", "callback"}
               THEN "none" ELSE status

(* Submission, cancellation, time-outs and completion, whatever their order, *)
(* keep what libusb promises of every transfer: one callback for each       *)
(* accepted submission, with a status that what happened to it justifies.   *)
ImplementsPromise == Promise!Spec

(* A transfer with a timeout comes back although the device never answers,  *)
(* if the backend can cancel it.                                            *)
TimeoutEnds ==
    \A t \in Transfers :
        (owed[t] = 1 /\ timeout[t] # 0 /\ kind[t] = "stream" /\ backend # "fails")
            ~> owed[t] = 0

(* Whatever the threads do between the locks of a transfer, its flags, the  *)
(* flying list and the references agree, and it is cancelled only on        *)
(* request (libusb_cancel_transfer, handle_timeout).                        *)
FlagsSound == TypeOK /\ FlightExact /\ CancelledOnRequest

=============================================================================
