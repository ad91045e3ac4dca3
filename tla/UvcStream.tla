------------------------------ MODULE UvcStream ------------------------------
(***************************************************************************)
(* The life of one uvc_stream_handle_t (libuvc_src/stream.c): opening it,  *)
(* starting it, the transfer callback that the libusb event thread runs,   *)
(* the thread that hands frames to the user callback, stopping and closing.*)
(*                                                                         *)
(* Three threads act: the application ("app"), the libusb event handler    *)
(* ("ev") and _uvc_user_caller ("usr").  They share cb_mutex and cb_cond.  *)
(* A critical section without a blocking call inside is one action guarded *)
(* by the free mutex; only uvc_stream_stop holds cb_mutex over several     *)
(* steps, because libusb_cancel_transfer runs under it.  The flag running  *)
(* is read and written without the mutex, each access in its own step.     *)
(*                                                                         *)
(* What a payload does to the buffers is the subject of UvcPayload; here   *)
(* the processing of one completed transfer publishes zero or more frames. *)
(***************************************************************************)
EXTENDS Naturals

CONSTANTS NumTransfers,  \* LIBUVC_NUM_TRANSFER_BUFS, 100 in the code
          MaxSeq,        \* bound on strmh->seq: frames of one streaming session
          FaultSets,     \* choices of what may fail, each a set of FaultKinds
          Reuse          \* may the application start a stopped handle again?

(***************************************************************************)
(* "config": a check between running = 1 and the allocation of transfers   *)
(* fails; "submit": libusb_submit_transfer fails; "cancel": the backend    *)
(* rejects the cancellation of a transfer that stays in flight; "nobuf":   *)
(* the unchecked malloc of outbuf or holdbuf returned NULL.                *)
(***************************************************************************)
FaultKinds == {"config", "submit", "cancel", "nobuf"}

ASSUME ConstantsAssumption ==
    /\ NumTransfers \in Nat \ {0}
    /\ MaxSeq \in Nat \ {0}
    /\ FaultSets \subseteq SUBSET FaultKinds
    /\ Reuse \in BOOLEAN

Transfers == 1..NumTransfers

VARIABLES
    faults,      \* which calls below the library may fail
    handle,      \* "none": no handle in devh->streams; "fresh": opened;
                 \* "used": started at least once; "stillborn": (history)
                 \* the first submission of the last start failed
    bufs,        \* outbuf and holdbuf: "ok", or "null" when one is NULL
    running,     \* strmh->running
    user_cb,     \* strmh->user_cb: "null" or "set"
    slot,        \* the i with strmh->transfers[i] # NULL
    alloc,       \* transfers whose memory is allocated
    flying,      \* transfers libusb has in flight (USBI_TRANSFER_IN_FLIGHT)
    cancelling,  \* those of them with USBI_TRANSFER_CANCELLING
    mutex,       \* holder of cb_mutex, or "none"
    waiting,     \* threads blocked in pthread_cond_wait on cb_cond
    seq,         \* strmh->seq
    hold_seq,    \* strmh->hold_seq
    last_seq,    \* the local of _uvc_user_caller
    appPc, appCall, appIdx,   \* application: step, outermost call, loop index
    evPc, evXfer,             \* event thread: step, transfer it calls back for
    usrPc                     \* user thread: step

handleVars == <<handle, bufs, user_cb>>
xferVars   == <<slot, alloc, flying, cancelling>>
lockVars   == <<mutex, waiting>>
frameVars  == <<seq, hold_seq>>
appVars    == <<appPc, appCall, appIdx>>
evVars     == <<evPc, evXfer>>
usrVars    == <<usrPc, last_seq>>
vars == <<faults, handleVars, running, xferVars, lockVars, frameVars, appVars,
          evVars, usrVars>>

Init ==
    /\ faults \in FaultSets
    /\ handle = "none" /\ bufs = "ok" /\ user_cb = "null"
    /\ running = 0
    /\ slot = {} /\ alloc = {} /\ flying = {} /\ cancelling = {}
    /\ mutex = "none" /\ waiting = {}
    /\ seq = 0 /\ hold_seq = 0 /\ last_seq = 0
    /\ appPc = "idle" /\ appCall = "none" /\ appIdx = 1
    /\ evPc = "idle" /\ evXfer = 1
    /\ usrPc = "none"

(* pthread_cond_broadcast(&strmh->cb_cond) *)
Broadcast == waiting' = {}

(* free(transfer->buffer); libusb_free_transfer(transfer); transfers[i] = NULL *)
FreeSlots(S) == /\ slot' = slot \ S
                /\ alloc' = alloc \ (S \cap slot)

-----------------------------------------------------------------------------
(* The application thread *)

(* An API call returns.  uvc_start_streaming closes the handle when         *)
(* uvc_stream_start reports an error; a stop that was part of               *)
(* uvc_stream_close continues there.                                        *)
Return(ret) ==
    IF appCall = "close" \/ (appCall = "start_streaming" /\ ret = "error")
    THEN appPc' = "close" /\ appCall' = "close"
    ELSE appPc' = "idle" /\ appCall' = "none"

(* uvc_stream_open_ctrl up to DL_APPEND; its failures leave no handle.      *)
(* Called on its own or as the first half of uvc_start_streaming.           *)
Open(call) ==
    /\ appPc = "idle" /\ handle = "none"
    /\ handle' = "fresh"
    /\ running' = 0 /\ user_cb' = "null"
    /\ \/ bufs' = "ok"
       \/ "nobuf" \in faults /\ bufs' = "null"
    /\ seq' = 0 /\ hold_seq' = 0
    /\ IF call = "start_streaming"
       THEN appPc' = "start" /\ appCall' = "start_streaming"
       ELSE appPc' = "idle" /\ appCall' = "none"
    /\ UNCHANGED <<faults, xferVars, lockVars, appIdx, evVars, usrVars>>

StartAllowed == /\ running = 0
                /\ \/ appPc = "start"
                   \/ appPc = "idle" /\ handle = "fresh"
                   \/ appPc = "idle" /\ handle # "none" /\ Reuse

(* uvc_stream_start fails between running = 1 and the allocation: no usable *)
(* frame descriptor, format or altsetting.  No other thread is looking yet, *)
(* so running = 1 and the reset at label fail are one step.                 *)
StartFails ==
    /\ "config" \in faults
    /\ StartAllowed
    /\ handle' = "used"
    /\ seq' = 1
    /\ Return("error")
    /\ UNCHANGED <<faults, bufs, user_cb, running, hold_seq, xferVars,
                   lockVars, appIdx, evVars, usrVars>>

(* uvc_stream_start up to the submission loop: reset of the counters, all   *)
(* transfers allocated, user thread created when there is a callback.       *)
(* hold_seq is not reset.                                                   *)
StartAlloc(cb) ==
    /\ StartAllowed
    /\ handle' = "used"
    /\ running' = 1
    /\ seq' = 1
    /\ slot' = Transfers /\ alloc' = Transfers
    /\ user_cb' = cb
    /\ usrPc' = IF cb = "set" THEN "run" ELSE "none"
    /\ last_seq' = 0
    /\ appPc' = "submit" /\ appIdx' = 1
    /\ appCall' = IF appCall = "none" THEN "start" ELSE appCall
    /\ UNCHANGED <<faults, bufs, hold_seq, flying, cancelling, lockVars,
                   evVars>>

(* Mutant: the submission loop tests its index one iteration too late *)
SubmitNext_OffByOne ==
    /\ appPc = "submit"
    /\ flying' = flying \cup {appIdx}
    /\ IF appIdx = NumTransfers + 1
       THEN Return("ok") /\ appIdx' = 1
       ELSE appIdx' = appIdx + 1 /\ UNCHANGED <<appPc, appCall>>
    /\ UNCHANGED <<faults, handleVars, running, slot, alloc, cancelling,
                   lockVars, frameVars, evVars, usrVars>>

(* One iteration of the submission loop that succeeds *)
SubmitNext ==
    /\ appPc = "submit"
    /\ flying' = flying \cup {appIdx}
    /\ IF appIdx = NumTransfers
       THEN Return("ok") /\ appIdx' = 1
       ELSE appIdx' = appIdx + 1 /\ UNCHANGED <<appPc, appCall>>
    /\ UNCHANGED <<faults, handleVars, running, slot, alloc, cancelling,
                   lockVars, frameVars, evVars, usrVars>>

(* A later submission fails: the transfers not submitted are freed and the  *)
(* stream runs with those that were.                                        *)
SubmitFailsLater ==
    /\ appPc = "submit" /\ "submit" \in faults
    /\ appIdx > 1
    /\ FreeSlots(appIdx..NumTransfers)
    /\ Return("ok")
    /\ appIdx' = 1
    /\ UNCHANGED <<faults, handleVars, running, flying, cancelling, lockVars,
                   frameVars, evVars, usrVars>>

(* The very first submission fails: an error is returned, while running,    *)
(* every slot and the user thread stay as they are.                         *)
SubmitFailsFirst ==
    /\ appPc = "submit" /\ "submit" \in faults
    /\ appIdx = 1
    /\ handle' = "stillborn"
    /\ Return("error")
    /\ UNCHANGED <<faults, bufs, user_cb, running, xferVars, lockVars,
                   frameVars, appIdx, evVars, usrVars>>

(* uvc_stream_stop: the guard and running = 0, before the mutex is taken    *)
StopBegin ==
    /\ running = 1
    /\ \/ /\ appPc = "idle" /\ handle # "none"
          /\ appCall' = "stop"
       \/ /\ appPc = "close"
          /\ UNCHANGED appCall
    /\ running' = 0
    /\ appPc' = "lock"
    /\ UNCHANGED <<faults, handleVars, xferVars, lockVars, frameVars, appIdx,
                   evVars, usrVars>>

StopLock ==
    /\ appPc = "lock"
    /\ mutex = "none"
    /\ mutex' = "app"
    /\ appPc' = "cancel" /\ appIdx' = 1
    /\ UNCHANGED <<faults, handleVars, running, xferVars, waiting, frameVars,
                   appCall, evVars, usrVars>>

(* End of one iteration of the cancellation loop *)
NextSlot == IF appIdx = NumTransfers
            THEN appPc' = "await" /\ appIdx' = 1
            ELSE appIdx' = appIdx + 1 /\ UNCHANGED appPc

(* Mutant: a transfer is freed as soon as its cancellation is requested *)
StopCancel_FreesAtOnce ==
    /\ appPc = "cancel"
    /\ cancelling' = cancelling \cup (slot \cap flying \cap {appIdx})
    /\ FreeSlots({appIdx})
    /\ NextSlot
    /\ UNCHANGED <<faults, handleVars, running, flying, lockVars, frameVars,
                   appCall, evVars, usrVars>>

(* libusb_cancel_transfer accepts the transfer in flight, or the slot is    *)
(* NULL, or the answer is LIBUSB_ERROR_NOT_FOUND, which is ignored.         *)
StopCancel ==
    /\ appPc = "cancel"
    /\ cancelling' = cancelling \cup (slot \cap flying \cap {appIdx})
    /\ NextSlot
    /\ UNCHANGED <<faults, handleVars, running, slot, alloc, flying, lockVars,
                   frameVars, appCall, evVars, usrVars>>

(* The backend rejects the cancellation, as UsbDk's does already when the   *)
(* request has just ended (CancelIoEx finds none, windows_usbdk.c:728):     *)
(* libusb marks the transfer CANCELLING but keeps it in flight, and the     *)
(* code frees it.                                                           *)
StopCancelFails ==
    /\ appPc = "cancel" /\ "cancel" \in faults
    /\ appIdx \in slot \cap (flying \ cancelling)
    /\ cancelling' = cancelling \cup {appIdx}
    /\ FreeSlots({appIdx})
    /\ NextSlot
    /\ UNCHANGED <<faults, handleVars, running, flying, lockVars, frameVars,
                   appCall, evVars, usrVars>>

(* The waiting loop of uvc_stream_stop: it holds the mutex, or takes it     *)
(* again after a wake-up, and waits while some slot is not NULL.            *)
StopWait ==
    /\ appPc = "await" /\ "app" \notin waiting
    /\ mutex \in {"none", "app"}
    /\ slot # {}
    /\ waiting' = waiting \cup {"app"}
    /\ mutex' = "none"
    /\ UNCHANGED <<faults, handleVars, running, xferVars, frameVars, appVars,
                   evVars, usrVars>>

(* Mutant: the stop does not look at the slots again before it returns *)
StopDrained_NoWait ==
    /\ appPc = "await" /\ "app" \notin waiting
    /\ mutex \in {"none", "app"}
    /\ Broadcast
    /\ mutex' = "none"
    /\ appPc' = "join"
    /\ UNCHANGED <<faults, handleVars, running, xferVars, frameVars, appCall,
                   appIdx, evVars, usrVars>>

(* All slots are NULL: kick the user thread awake and unlock *)
StopDrained ==
    /\ appPc = "await" /\ "app" \notin waiting
    /\ mutex \in {"none", "app"}
    /\ slot = {}
    /\ Broadcast
    /\ mutex' = "none"
    /\ appPc' = "join"
    /\ UNCHANGED <<faults, handleVars, running, xferVars, frameVars, appCall,
                   appIdx, evVars, usrVars>>

(* pthread_join when there is a user thread, then return *)
StopJoin ==
    /\ appPc = "join"
    /\ user_cb = "set" => usrPc = "done"
    /\ usrPc' = "none"
    /\ Return("ok")
    /\ UNCHANGED <<faults, handleVars, running, xferVars, lockVars, frameVars,
                   appIdx, evVars, last_seq>>

(* uvc_stream_close is called; when running it stops the stream first       *)
CloseBegin ==
    /\ appPc = "idle" /\ handle # "none"
    /\ appPc' = "close" /\ appCall' = "close"
    /\ UNCHANGED <<faults, handleVars, running, xferVars, lockVars, frameVars,
                   appIdx, evVars, usrVars>>

(* uvc_stream_close after the stop: buffers, mutex and handle are freed     *)
CloseFree ==
    /\ appPc = "close"
    /\ running = 0
    /\ handle' = "none"
    /\ appPc' = "idle" /\ appCall' = "none"
    /\ UNCHANGED <<faults, bufs, user_cb, running, xferVars, lockVars,
                   frameVars, appIdx, evVars, usrVars>>

App == \/ \E call \in {"open", "start_streaming"} : Open(call)
       \/ StartFails
       \/ \E cb \in {"null", "set"} : StartAlloc(cb)
       \/ SubmitNext \/ SubmitFailsLater \/ SubmitFailsFirst
       \/ StopBegin \/ StopLock \/ StopCancel \/ StopCancelFails
       \/ StopWait \/ StopDrained \/ StopJoin
       \/ CloseBegin \/ CloseFree

-----------------------------------------------------------------------------
(* The event handling thread: _uvc_stream_callback *)

(* libusb completes a transfer and calls back.  st is the class of          *)
(* transfer->status: "data" is COMPLETED, "gone" is CANCELLED, ERROR or     *)
(* NO_DEVICE, "retry" is TIMED_OUT, STALL or OVERFLOW.                      *)
Complete(t, st) ==
    /\ evPc = "idle"
    /\ t \in flying
    /\ flying' = flying \ {t}
    /\ cancelling' = cancelling \ {t}
    /\ evXfer' = t
    /\ evPc' = IF st = "data" THEN "data"
               ELSE IF st = "gone" THEN "drop" ELSE "resubmit"
    /\ UNCHANGED <<faults, handleVars, running, slot, alloc, lockVars,
                   frameVars, appVars, usrVars>>

(* Mutant: the swap of the buffers does not signal cb_cond *)
Publish_NoBroadcast ==
    /\ evPc = "data" /\ bufs = "ok"
    /\ mutex = "none"
    /\ seq <= MaxSeq
    /\ hold_seq' = seq
    /\ seq' = seq + 1
    /\ UNCHANGED <<faults, handleVars, running, xferVars, lockVars, appVars,
                   evVars, usrVars>>

(* A frame is published by _uvc_swap_buffers while the payloads of the      *)
(* transfer are processed; seq++ after the unlock is private to this thread *)
Publish ==
    /\ evPc = "data" /\ bufs = "ok"
    /\ mutex = "none"
    /\ seq <= MaxSeq
    /\ hold_seq' = seq
    /\ seq' = seq + 1
    /\ Broadcast
    /\ UNCHANGED <<faults, handleVars, running, xferVars, mutex, appVars,
                   evVars, usrVars>>

(* All payloads of the transfer are processed *)
PayloadsDone ==
    /\ evPc = "data" /\ bufs = "ok"
    /\ evPc' = "resubmit"
    /\ UNCHANGED <<faults, handleVars, running, xferVars, lockVars, frameVars,
                   appVars, evXfer, usrVars>>

(* A buffer is NULL: the status becomes ERROR and the callback calls itself *)
NoBuffers ==
    /\ evPc = "data" /\ bufs = "null"
    /\ evPc' = "innerdrop"
    /\ UNCHANGED <<faults, handleVars, running, xferVars, lockVars, frameVars,
                   appVars, evXfer, usrVars>>

(* Mutant: a freed transfer is not signalled to the waiting stop *)
DropTransfer_NoBroadcast ==
    /\ evPc \in {"drop", "innerdrop"}
    /\ mutex = "none"
    /\ FreeSlots({evXfer})
    /\ evPc' = IF evPc = "innerdrop" THEN "resubmit" ELSE "idle"
    /\ UNCHANGED <<faults, handleVars, running, flying, cancelling, lockVars,
                   frameVars, appVars, evXfer, usrVars>>

(* The transfer is freed and its slot cleared under the mutex.  From the    *)
(* inner call control goes on after the switch of the outer one, where      *)
(* resubmit is still 1.                                                     *)
DropTransfer ==
    /\ evPc \in {"drop", "innerdrop"}
    /\ mutex = "none"
    /\ FreeSlots({evXfer})
    /\ Broadcast
    /\ evPc' = IF evPc = "innerdrop" THEN "resubmit" ELSE "idle"
    /\ UNCHANGED <<faults, handleVars, running, flying, cancelling, mutex,
                   frameVars, appVars, evXfer, usrVars>>

(* if (strmh->running), read without the mutex *)
ReadRunning ==
    /\ evPc = "resubmit"
    /\ evPc' = IF running = 1 THEN "submit" ELSE "drop"
    /\ UNCHANGED <<faults, handleVars, running, xferVars, lockVars, frameVars,
                   appVars, evXfer, usrVars>>

Resubmit ==
    /\ evPc = "submit"
    /\ flying' = flying \cup {evXfer}
    /\ evPc' = "idle"
    /\ UNCHANGED <<faults, handleVars, running, slot, alloc, cancelling,
                   lockVars, frameVars, appVars, evXfer, usrVars>>

ResubmitFails ==
    /\ evPc = "submit" /\ "submit" \in faults
    /\ evPc' = "drop"
    /\ UNCHANGED <<faults, handleVars, running, xferVars, lockVars, frameVars,
                   appVars, evXfer, usrVars>>

Ev == \/ \E t \in Transfers, st \in {"data", "gone", "retry"} : Complete(t, st)
      \/ Publish \/ PayloadsDone \/ NoBuffers
      \/ DropTransfer \/ ReadRunning \/ Resubmit \/ ResubmitFails

-----------------------------------------------------------------------------
(* The user thread: _uvc_user_caller *)

(* The loop condition holds: the thread waits for a frame *)
UserWait ==
    /\ usrPc = "run" /\ "usr" \notin waiting
    /\ mutex = "none"
    /\ running = 1 /\ last_seq = hold_seq
    /\ waiting' = waiting \cup {"usr"}
    /\ UNCHANGED <<faults, handleVars, running, xferVars, mutex, frameVars,
                   appVars, evVars, usrVars>>

(* The stream was stopped: the thread ends *)
UserExit ==
    /\ usrPc = "run" /\ "usr" \notin waiting
    /\ mutex = "none"
    /\ running = 0
    /\ usrPc' = "done"
    /\ UNCHANGED <<faults, handleVars, running, xferVars, lockVars, frameVars,
                   appVars, evVars, last_seq>>

(* Mutant: the wait is an if, so a frame is taken after any wake-up *)
UserTake_NoRecheck ==
    /\ usrPc = "run" /\ "usr" \notin waiting
    /\ mutex = "none"
    /\ running = 1
    /\ last_seq' = hold_seq
    /\ usrPc' = "callback"
    /\ UNCHANGED <<faults, handleVars, running, xferVars, lockVars, frameVars,
                   appVars, evVars>>

(* A frame is copied out of the hold buffer under the mutex *)
UserTake ==
    /\ usrPc = "run" /\ "usr" \notin waiting
    /\ mutex = "none"
    /\ running = 1 /\ last_seq # hold_seq
    /\ last_seq' = hold_seq
    /\ usrPc' = "callback"
    /\ UNCHANGED <<faults, handleVars, running, xferVars, lockVars, frameVars,
                   appVars, evVars>>

(* strmh->user_cb(&strmh->frame) runs and returns *)
UserCallback ==
    /\ usrPc = "callback"
    /\ usrPc' = "run"
    /\ UNCHANGED <<faults, handleVars, running, xferVars, lockVars, frameVars,
                   appVars, evVars, last_seq>>

Usr == UserWait \/ UserExit \/ UserTake \/ UserCallback

(* pthread_cond_wait may return without a broadcast *)
SpuriousWakeup ==
    /\ \E th \in waiting : waiting' = waiting \ {th}
    /\ UNCHANGED <<faults, handleVars, running, xferVars, mutex, frameVars,
                   appVars, evVars, usrVars>>

-----------------------------------------------------------------------------
Next == App \/ Ev \/ Usr \/ SpuriousWakeup

Spec == Init /\ [][Next]_vars

(* Fairness of an API call in progress: the application thread runs on once *)
(* it is inside start, stop or close, but no call ever has to be made.      *)
InCall == appPc # "idle"

Fairness ==
    /\ WF_vars(InCall /\ App)
    /\ WF_vars(Ev)
    /\ WF_vars(Usr)

FairSpec == Spec /\ Fairness
-----------------------------------------------------------------------------
(* Properties *)

Threads == {"app", "ev", "usr"}

(* Every variable stays in the range its C declaration and use give it.     *)
TypeOK ==
    /\ faults \in FaultSets
    /\ handle \in {"none", "fresh", "used", "stillborn"}
    /\ bufs \in {"ok", "null"} /\ user_cb \in {"null", "set"}
    /\ running \in {0, 1}
    /\ slot \subseteq Transfers /\ alloc \subseteq Transfers
    /\ flying \subseteq Transfers /\ cancelling \subseteq Transfers
    /\ mutex \in {"none", "app"}
    /\ waiting \subseteq {"app", "usr"}
    /\ seq \in 0..(MaxSeq + 1) /\ hold_seq \in 0..MaxSeq /\ last_seq \in 0..MaxSeq
    /\ appPc \in {"idle", "start", "submit", "lock", "cancel", "await", "join",
                   "close"}
    /\ appCall \in {"none", "start", "start_streaming", "stop", "close"}
    /\ appIdx \in Transfers
    /\ evPc \in {"idle", "data", "drop", "innerdrop", "resubmit", "submit"}
    /\ evXfer \in Transfers
    /\ usrPc \in {"none", "run", "callback", "done"}

(* The application is outside start and stop and the stream is not running: *)
(* the states in which uvc_stream_close frees the handle, or in which the   *)
(* handle no longer exists.                                                 *)
Stopped == running = 0 /\ appPc \in {"idle", "start", "close"}

(* No cancellation is rejected and the buffers were allocated               *)
Careful == "cancel" \notin faults /\ "nobuf" \notin faults

(* Once uvc_stream_stop has returned nothing of the stream is left behind:  *)
(* every transfer is freed, none is in flight, no callback is being         *)
(* executed and the user thread is gone.  Otherwise uvc_stream_close frees  *)
(* a handle that the event thread or the user thread goes on using.         *)
Quiesced ==
    (Careful /\ Stopped) => /\ slot = {} /\ alloc = {} /\ flying = {}
                            /\ evPc = "idle" /\ usrPc = "none"

(* libusb_free_transfer (io.c): an active transfer is never freed; nor is a *)
(* transfer freed while _uvc_stream_callback still works on it.             *)
NeverFreedActive == /\ flying \subseteq alloc
                    /\ evPc # "idle" => evXfer \in alloc

(* The same where no cancellation is rejected and the buffers exist.        *)
FreedOnlyWhenInactive == Careful => NeverFreedActive

(* The numbers in use are of this session.  A restart leaves hold_seq, so   *)
(* that the old frame is handed out once more before the numbers start over.*)
OwnNumbers == hold_seq < seq /\ last_seq < seq

(* uvc_frame.sequence "may skip, but is strictly monotonically increasing": *)
(* the frames handed to one user callback carry growing numbers, whatever   *)
(* wake-ups the thread gets.                                                *)
SequenceIncreases ==
    [][(Careful /\ OwnNumbers /\ usrPc = "run" /\ usrPc' = "callback")
           => last_seq' > last_seq]_vars

(* A published frame that the user thread has not seen is delivered unless  *)
(* the stream is stopped: no wake-up is lost.                               *)
FrameDelivered ==
    (Careful /\ OwnNumbers /\ usrPc = "run" /\ running = 1 /\ hold_seq # last_seq)
        ~> (usrPc = "callback" \/ running = 0)

Stopping == appPc \in {"lock", "cancel", "await", "join"}

(* uvc_stream_stop returns, if the start had at least one transfer accepted *)
StopReturns == (Stopping /\ handle # "stillborn") ~> ~Stopping

=============================================================================
