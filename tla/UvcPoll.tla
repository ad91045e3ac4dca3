------------------------------- MODULE UvcPoll -------------------------------
(***************************************************************************)
(* The two ways by which the frames of UvcPayload leave the library        *)
(* (libuvc_src/stream.c): a stream started with a callback has the thread  *)
(* of UserTake; one started without has an application thread that calls   *)
(* uvc_stream_get_frame and shares cb_mutex and cb_cond with the event     *)
(* thread.  A stream has one of them, so last_seq stands for the thread's  *)
(* local variable or for last_polled_seq.                                  *)
(*                                                                         *)
(* A critical section without a wait inside is one step guarded by the     *)
(* free mutex; cb_mutex is the poller's while it is out of the library     *)
(* only because a call returned without the unlock.                        *)
(***************************************************************************)
EXTENDS UvcPayload

CONSTANT PollFrames     \* bound: frames the camera sends while one polls
ASSUME PollAssumption == PollFrames \in Nat

VARIABLES mode,        \* "callback" or "polling"
          cb_mutex,    \* "none" or "poller"
          poller,      \* the polling thread: "out", "lock", "asleep", "woken"
          timeout,     \* of its call: "now" (-1), "none" (0), "limit" (> 0)
          answer       \* of its last call: "frame", "null", "timeout"

pollVars == <<mode, cb_mutex, poller, timeout, answer>>
allVars == <<vars, pollVars>>

PollInit ==
    /\ Init
    /\ mode \in {"callback", "polling"} /\ cb_mutex = "none"
    /\ poller = "out" /\ timeout = "none" /\ answer = "null"

\* pthread_cond_broadcast wakes the poll that sleeps
\* Mutant: it is left out
Broadcast_Missing == UNCHANGED poller
Broadcast == poller' = IF poller = "asleep" THEN "woken" ELSE poller

\* the event thread publishes, under cb_mutex
Published ==
    /\ cb_mutex = "none"
    /\ FlipSwap \/ EndSwap
    /\ Broadcast
    /\ UNCHANGED <<mode, cb_mutex, timeout, answer>>

\* uvc_stream_get_frame is called
Call(t) ==
    /\ mode = "polling" /\ poller = "out"
    /\ poller' = "lock" /\ timeout' = t
    /\ UNCHANGED <<vars, mode, cb_mutex, answer>>
\* the frame is handed out, or there is none; the mutex is given back
\* Mutant: without a frame the mutex is kept
Leave_Keeps ==
    /\ IF last_seq < hold_seq
         THEN /\ Populate /\ last_seq' = hold_seq /\ answer' = "frame"
              /\ UNCHANGED <<camera, pc, pkt, work, hold, stillEnds, cb_mutex>>
       ELSE UNCHANGED vars /\ answer' = "null" /\ cb_mutex' = "poller"
    /\ poller' = "out"
    /\ UNCHANGED <<mode, timeout>>
Leave ==
    /\ IF last_seq < hold_seq
         THEN /\ Populate /\ last_seq' = hold_seq /\ answer' = "frame"
              /\ UNCHANGED <<camera, pc, pkt, work, hold, stillEnds>>
       ELSE UNCHANGED vars /\ answer' = "null"
    /\ poller' = "out"
    /\ UNCHANGED <<mode, cb_mutex, timeout>>
\* up to the wait
Enter ==
    /\ poller = "lock" /\ cb_mutex = "none"
    /\ IF last_seq < hold_seq \/ timeout = "now" THEN Leave
       ELSE poller' = "asleep" /\ UNCHANGED <<vars, mode, cb_mutex, timeout, answer>>
\* after the wait
Woken == poller = "woken" /\ cb_mutex = "none" /\ Leave
\* a condition variable may wake without a broadcast
Spurious ==
    /\ poller = "asleep" /\ poller' = "woken"
    /\ UNCHANGED <<vars, mode, cb_mutex, timeout, answer>>
\* pthread_cond_timedwait takes the mutex and returns ETIMEDOUT or EINVAL: the
\* call returns with the mutex
Expires ==
    /\ poller = "asleep" /\ timeout = "limit" /\ cb_mutex = "none"
    /\ cb_mutex' = "poller" /\ poller' = "out" /\ answer' = "timeout"
    /\ UNCHANGED <<vars, mode, timeout>>

PollNext ==
    \/ /\ \/ \E kind \in {"video", "still"}, withMeta \in BOOLEAN :
                (mode = "polling" => Current < PollFrames) /\ NewFrame(kind, withMeta)
          \/ LosePayload \/ ReadHeader \/ CopyData
          \/ mode = "callback" /\ UserTake
       /\ UNCHANGED pollVars
    \/ Published
    \/ \E t \in {"now", "none", "limit"} : Call(t)
    \/ Enter \/ Woken \/ Spurious \/ Expires

\* The threads run on; the camera may fall silent, the application may not poll
\* again, and nobody is woken for nothing.
PollSpec ==
    /\ PollInit /\ [][PollNext]_allVars
    /\ WF_allVars(CopyData /\ UNCHANGED pollVars)
    /\ WF_allVars(Published)
    /\ WF_allVars(mode = "callback" /\ UserTake /\ UNCHANGED pollVars)
    /\ WF_allVars(Enter) /\ WF_allVars(Woken)

-----------------------------------------------------------------------------
\* (the last answer from then on, because the next call waits for the mutex)
Expired == answer = "timeout"

\* A completed still image leads to a frame labelled still: a capture that waits
\* for ucImageType = 1 (getFrameCallBack) does not wait for ever.
StillReported == (mode = "callback" /\ flgStillFinish = 1) ~> (frame.ucImageType = 1)

\* A poll that sleeps when a frame is published returns with a frame: neither
\* the broadcast nor the frame is lost.
PollGetsFrame ==
    (poller \in {"asleep", "woken"} /\ hold_seq # last_seq) ~> (answer = "frame" \/ Expired)

\* Polling never keeps the event thread from publishing, until a poll expires:
\* that one keeps cb_mutex (stream.c:1530-1535), and the stream stands still.
EventsGoOn == (pc # "idle") ~> (pc = "idle" \/ Expired)
=============================================================================
