----------------------------- MODULE LibusbEvents -----------------------------
(***************************************************************************)
(* How the threads of one libusb context share the handling of events      *)
(* (libusb_src/io.c, core.c, sync.c, poll_windows.c and the Windows        *)
(* backend): the event lock, the event waiters, the event pipe, the array  *)
(* of descriptors that is polled, and libusb_close, which has to get the   *)
(* event lock from a thread blocked in poll.                               *)
(*                                                                         *)
(* Three kinds of threads: Users make synchronous transfers and handle     *)
(* events until theirs is complete; EventThread is the _uvc_handle_events  *)
(* of libuvc and handles events until `kill' is set; Closer closes         *)
(* devices, the last one as uvc_close does.  Waits are limited to 60 s by  *)
(* the code; they may end that way here, and nothing relies on it.         *)
(***************************************************************************)
EXTENDS Integers, Sequences, FiniteSets, SequencesExt

CONSTANTS Users, EventThread, Closer,
          None,      \* no thread
          NumFds,    \* MAX_FDS, what of it transfers can use
          MaxWait,   \* MAXIMUM_WAIT_OBJECTS, without the event pipe
          MaxCloses  \* bound: devices closed

Procs == Users \cup {EventThread, Closer}
Loopers == Users \cup {EventThread}
Fds == 1..NumFds
NoFd == 0

ASSUME ConstantsAssumption ==
    /\ EventThread # Closer /\ {EventThread, Closer} \cap Users = {}
    /\ None \notin Procs
    /\ NumFds \in Nat /\ MaxWait \in Nat \ {0} /\ MaxCloses \in Nat
    /\ IsFiniteSet(Users) /\ Cardinality(Users) <= NumFds

VARIABLES
    driver,         \* "accepts" every request, or also "rejects" some
    pc,             \* pc[p]: step of thread p
    events_lock, event_handler_active,
    waiters_lock, waiting,  \* mutex and wait set of event_waiters_cond
    modified,       \* event_flags: USBI_EVENT_POLLFDS_MODIFIED
    device_close, pipe,     \* pipe = 1: the event pipe is signalled
    ipollfds,       \* the list of descriptors to poll
    pollfds,        \* ctx->pollfds, the array made of it
    revents,        \* its positions where poll found a ready or invalid one
    open,           \* descriptors in fd_table
    fd,             \* fd[u]: pollable_fd of the transfer of u
    flying,         \* transfers on the list of flying transfers
    urb,            \* transfers the driver still works on
    signalled,      \* descriptors whose OVERLAPPED is complete
    closes,         \* libusb_close calls so far
    completed,      \* *completed of each looping thread, kill for EventThread
    early           \* history: transfers called back while the driver had them

config == <<driver, closes>>
lockVars == <<events_lock, event_handler_active, waiters_lock, waiting>>
dataVars == <<modified, device_close, pipe, ipollfds>>
xferVars == <<open, fd, flying, urb, signalled, early>>
vars == <<config, pc, lockVars, dataVars, pollfds, revents, xferVars, completed>>

(* usbi_io_init puts the event pipe on the list of descriptors, which counts *)
(* as a change of the list.                                                 *)
Init ==
    /\ driver \in {"accepts", "rejects"}
    /\ pc = [p \in Procs |-> IF p = EventThread THEN "loop" ELSE "idle"]
    /\ events_lock = None /\ event_handler_active = 0
    /\ waiters_lock = None /\ waiting = {}
    /\ modified = 1 /\ device_close = 0 /\ pipe = 1
    /\ ipollfds = <<>> /\ pollfds = <<>> /\ revents = {}
    /\ open = {} /\ fd = [u \in Users |-> NoFd]
    /\ flying = {} /\ urb = {} /\ signalled = {}
    /\ completed = [p \in Loopers |-> 0]
    /\ early = {} /\ closes = 0

Goto(p, step) == pc' = [pc EXCEPT ![p] = step]
At(p, step) == pc[p] = step

(* usbi_pending_events *)
Pending(mod, closing) == mod = 1 \/ closing > 0

(* usbi_fd_notification: record the change, signal if nothing is pending    *)
Notify ==
    /\ modified' = 1
    /\ pipe' = IF Pending(modified, device_close) THEN pipe ELSE 1

(* usbi_clear_event unless an event is still pending *)
ClearPipe(mod, closing) == pipe' = IF Pending(mod, closing) THEN pipe ELSE 0

(* usbi_remove_pollfd: a descriptor that is not on the list changes nothing  *)
Position(f) == CHOOSE i \in 1..Len(ipollfds) : ipollfds[i] = f

RemovePollfd(f) ==
    IF f \in ToSet(ipollfds) THEN ipollfds' = RemoveAt(ipollfds, Position(f)) /\ Notify
                             ELSE UNCHANGED <<ipollfds, modified, pipe>>

-----------------------------------------------------------------------------
(* Submission of a transfer, and the driver *)

(* libusb_submit_transfer up to the driver: flying list, descriptor, poll list *)
Submit(u) ==
    /\ At(u, "idle")
    /\ completed[EventThread] = 0
    /\ LET f == CHOOSE g \in Fds \ open : \A k \in Fds \ open : g <= k
       IN  /\ open' = open \cup {f}
           /\ fd' = [fd EXCEPT ![u] = f]
           /\ ipollfds' = Append(ipollfds, f)
    /\ flying' = flying \cup {u}
    /\ completed' = [completed EXCEPT ![u] = 0]
    /\ Notify
    /\ Goto(u, "driver")
    /\ UNCHANGED <<config, lockVars, device_close, pollfds, revents, urb, signalled,
                   early>>

SubmitAccepted(u) ==
    /\ At(u, "driver")
    /\ urb' = urb \cup {u}
    /\ Goto(u, "loop")
    /\ UNCHANGED <<config, lockVars, dataVars, pollfds, revents, open, fd, flying,
                   signalled, early, completed>>

(* The driver refuses: usbi_remove_pollfd *)
SubmitRejected(u) ==
    /\ At(u, "driver")
    /\ driver = "rejects"
    /\ RemovePollfd(fd[u])
    /\ Goto(u, "undo")
    /\ UNCHANGED <<config, lockVars, device_close, pollfds, revents, xferVars,
                   completed>>

(* usbi_close, and off the flying list; the error is returned *)
SubmitUndone(u) ==
    /\ At(u, "undo")
    /\ open' = open \ {fd[u]}
    /\ fd' = [fd EXCEPT ![u] = NoFd]
    /\ flying' = flying \ {u}
    /\ Goto(u, "idle")
    /\ UNCHANGED <<config, lockVars, dataVars, pollfds, revents, urb, signalled,
                   early, completed>>

(* The driver finishes a request and sets the event of its OVERLAPPED *)
DriverDone(u) ==
    /\ u \in urb
    /\ urb' = urb \ {u}
    /\ signalled' = IF fd[u] = NoFd THEN signalled ELSE signalled \cup {fd[u]}
    /\ UNCHANGED <<config, pc, lockVars, dataVars, pollfds, revents, open, fd, flying,
                   early, completed>>

-----------------------------------------------------------------------------
(* libusb_handle_events_timeout_completed in a loop until *completed *)

(* The loop's test - the transfer is freed, or the event thread ends - and  *)
(* the first test of libusb_try_lock_events: is someone closing a device?   *)
Loop(p) ==
    /\ At(p, "loop")
    /\ Goto(p, IF completed[p] = 0 THEN (IF device_close > 0 THEN "wait" ELSE "trylock")
               ELSE IF p = EventThread THEN "exited" ELSE "idle")
    /\ UNCHANGED <<config, lockVars, dataVars, pollfds, revents, xferVars, completed>>

(* libusb_try_lock_events again, after the event handler went away          *)
Try(p) ==
    /\ At(p, "try")
    /\ Goto(p, IF device_close > 0 THEN "wait" ELSE "trylock")
    /\ UNCHANGED <<config, lockVars, dataVars, pollfds, revents, xferVars, completed>>

TryLock(p) ==
    /\ At(p, "trylock")
    /\ IF events_lock = None
       THEN events_lock' = p /\ Goto(p, "locked")
       ELSE Goto(p, "wait") /\ UNCHANGED events_lock
    /\ UNCHANGED <<config, event_handler_active, waiters_lock, waiting, dataVars,
                   pollfds, revents, xferVars, completed>>

(* Mutant: the pipe is cleared although a device is being closed            *)
Locked_ClearsAlways(p) ==
    /\ At(p, "locked")
    /\ event_handler_active' = 1
    /\ IF completed[p] = 0
       THEN /\ pollfds' = IF modified = 1 THEN ipollfds ELSE pollfds
            /\ modified' = 0
            /\ pipe' = IF modified = 1 THEN 0 ELSE pipe
            /\ Goto(p, "poll")
       ELSE Goto(p, "unlock") /\ UNCHANGED <<pollfds, modified, pipe>>
    /\ UNCHANGED <<config, events_lock, waiters_lock, waiting, device_close, ipollfds,
                   revents, xferVars, completed>>

(* We are the event handler; *completed is read again under the lock, and   *)
(* handle_events makes the array anew if the list was modified.             *)
Locked(p) ==
    /\ At(p, "locked")
    /\ event_handler_active' = 1
    /\ IF completed[p] = 0
       THEN /\ pollfds' = IF modified = 1 THEN ipollfds ELSE pollfds
            /\ modified' = 0
            /\ IF modified = 1 THEN ClearPipe(0, device_close) ELSE UNCHANGED pipe
            /\ Goto(p, "poll")
       ELSE Goto(p, "unlock") /\ UNCHANGED <<pollfds, modified, pipe>>
    /\ UNCHANGED <<config, events_lock, waiters_lock, waiting, device_close, ipollfds,
                   revents, xferVars, completed>>

(* check_pollfds: complete requests, and descriptors that are not open      *)
Ready == {i \in 1..Len(pollfds) : pollfds[i] \in signalled \/ pollfds[i] \notin open}

Polled(p) ==
    /\ revents' = Ready
    /\ Goto(p, IF pipe = 1 THEN "pipe" ELSE "backend")

(* usbi_poll: return at once if something is ready, otherwise sleep         *)
Poll(p) ==
    /\ At(p, "poll")
    /\ IF pipe = 1 \/ Ready # {} THEN Polled(p)
       ELSE Goto(p, "asleep") /\ UNCHANGED revents
    /\ UNCHANGED <<config, lockVars, dataVars, pollfds, xferVars, completed>>

(* Only the pipe and the first MaxWait descriptors wake the sleeper         *)
PollWakes(p) ==
    /\ At(p, "asleep")
    /\ \/ pipe = 1
       \/ \E i \in 1..Len(pollfds) : i <= MaxWait /\ pollfds[i] \in signalled
    /\ Polled(p)
    /\ UNCHANGED <<config, lockVars, dataVars, pollfds, xferVars, completed>>

(* The event pipe: only the pollfds flag and device_close can be pending,   *)
(* and neither is taken back here.                                          *)
PipeEvent(p) ==
    /\ At(p, "pipe")
    /\ ClearPipe(modified, device_close)
    /\ Goto(p, IF revents = {} THEN "unlock" ELSE "backend")
    /\ UNCHANGED <<config, lockVars, modified, device_close, ipollfds, pollfds,
                   revents, xferVars, completed>>

(* The backend goes through the array from its start.                       *)
FirstReady == CHOOSE i \in revents : \A j \in revents : i <= j

(* Mutant: the handler is not told that a descriptor left the list          *)
BackendFound_NoNotify(p, u) ==
    /\ At(p, "backend") /\ revents # {}
    /\ u \in flying /\ fd[u] = pollfds[FirstReady]
    /\ ipollfds' = IF fd[u] \in ToSet(ipollfds) THEN RemoveAt(ipollfds, Position(fd[u]))
                   ELSE ipollfds
    /\ open' = open \ {fd[u]} /\ signalled' = signalled \ {fd[u]}
    /\ fd' = [fd EXCEPT ![u] = NoFd]
    /\ flying' = flying \ {u}
    /\ completed' = [completed EXCEPT ![u] = 1]
    /\ early' = IF u \in urb THEN early \cup {u} ELSE early
    /\ revents' = revents \ {FirstReady}
    /\ UNCHANGED <<config, pc, lockVars, modified, device_close, pipe, pollfds, urb>>

(* windows_handle_events for one ready descriptor: the flying transfer that *)
(* has it is finished, its descriptor removed and closed, and its callback  *)
(* sets *completed.                                                         *)
BackendFound(p, u) ==
    /\ At(p, "backend") /\ revents # {}
    /\ u \in flying /\ fd[u] = pollfds[FirstReady]
    /\ RemovePollfd(fd[u])
    /\ open' = open \ {fd[u]} /\ signalled' = signalled \ {fd[u]}
    /\ fd' = [fd EXCEPT ![u] = NoFd]
    /\ flying' = flying \ {u}
    /\ completed' = [completed EXCEPT ![u] = 1]
    /\ early' = IF u \in urb THEN early \cup {u} ELSE early
    /\ revents' = revents \ {FirstReady}
    /\ UNCHANGED <<config, pc, lockVars, device_close, pollfds, urb>>

(* No descriptor left, or no transfer for the next one: give up             *)
BackendEnds(p) ==
    /\ At(p, "backend")
    /\ revents # {} => \A u \in flying : fd[u] # pollfds[FirstReady]
    /\ revents' = {}
    /\ Goto(p, "unlock")
    /\ UNCHANGED <<config, lockVars, dataVars, pollfds, xferVars, completed>>

(* Mutant: nobody is woken                                                  *)
Broadcast_Missing(p) ==
    /\ At(p, "broadcast")
    /\ waiters_lock = None
    /\ Goto(p, IF p # Closer THEN "loop"
               ELSE IF completed[EventThread] = 1 THEN "join" ELSE "idle")
    /\ UNCHANGED <<config, events_lock, event_handler_active, waiters_lock, waiting,
                   dataVars, pollfds, revents, xferVars, completed>>

(* libusb_unlock_events *)
Unlock(p) ==
    /\ At(p, "unlock")
    /\ event_handler_active' = 0 /\ events_lock' = None
    /\ Goto(p, "broadcast")
    /\ UNCHANGED <<config, waiters_lock, waiting, dataVars, pollfds, revents,
                   xferVars, completed>>

Broadcast(p) ==
    /\ At(p, "broadcast")
    /\ waiters_lock = None
    /\ waiting' = {}
    /\ Goto(p, IF p # Closer THEN "loop"
               ELSE IF completed[EventThread] = 1 THEN "join" ELSE "idle")
    /\ UNCHANGED <<config, events_lock, event_handler_active, waiters_lock, dataVars,
                   pollfds, revents, xferVars, completed>>

-----------------------------------------------------------------------------
(* Another thread handles events: wait for it *)

LockWaiters(p) ==
    /\ At(p, "wait")
    /\ waiters_lock = None
    /\ IF completed[p] = 1
       THEN Goto(p, "loop") /\ UNCHANGED waiters_lock
       ELSE Goto(p, "active") /\ waiters_lock' = p
    /\ UNCHANGED <<config, events_lock, event_handler_active, waiting, dataVars,
                   pollfds, revents, xferVars, completed>>

(* libusb_event_handler_active; if nobody handles events any more, retry    *)
TestActive(p) ==
    /\ At(p, "active")
    /\ IF device_close > 0 \/ event_handler_active = 1
       THEN Goto(p, "sleep") /\ UNCHANGED waiters_lock
       ELSE Goto(p, "try") /\ waiters_lock' = None
    /\ UNCHANGED <<config, events_lock, event_handler_active, waiting, dataVars,
                   pollfds, revents, xferVars, completed>>

(* libusb_wait_for_event *)
Sleep(p) ==
    /\ At(p, "sleep")
    /\ waiting' = waiting \cup {p} /\ waiters_lock' = None
    /\ Goto(p, "waiting")
    /\ UNCHANGED <<config, events_lock, event_handler_active, dataVars, pollfds,
                   revents, xferVars, completed>>

Woken(p) ==
    /\ At(p, "waiting")
    /\ p \notin waiting /\ waiters_lock = None
    /\ Goto(p, "loop")
    /\ UNCHANGED <<config, lockVars, dataVars, pollfds, revents, xferVars, completed>>

(* 60 seconds pass, or the wait ends spuriously *)
WaitTimesOut(p) ==
    /\ At(p, "waiting")
    /\ p \in waiting
    /\ waiting' = waiting \ {p}
    /\ UNCHANGED <<config, pc, events_lock, event_handler_active, waiters_lock,
                   dataVars, pollfds, revents, xferVars, completed>>

PollTimesOut(p) ==
    /\ At(p, "asleep")
    /\ Goto(p, "unlock")
    /\ UNCHANGED <<config, lockVars, dataVars, pollfds, revents, xferVars, completed>>

-----------------------------------------------------------------------------
(* libusb_close, and uvc_close of the last device *)

StartClose ==
    /\ At(Closer, "idle")
    /\ completed[EventThread] = 0 /\ closes < MaxCloses
    /\ closes' = closes + 1
    /\ \/ UNCHANGED completed
       \/ /\ \A u \in Users : At(u, "idle")
          /\ completed' = [completed EXCEPT ![EventThread] = 1]
    /\ Goto(Closer, "close")
    /\ UNCHANGED <<driver, lockVars, dataVars, pollfds, revents, xferVars>>

CloseSignal ==
    /\ At(Closer, "close")
    /\ device_close' = device_close + 1
    /\ pipe' = IF Pending(modified, device_close) THEN pipe ELSE 1
    /\ Goto(Closer, "lock")
    /\ UNCHANGED <<config, lockVars, modified, ipollfds, pollfds, revents, xferVars,
                   completed>>

(* libusb_lock_events, do_close *)
CloseLock ==
    /\ At(Closer, "lock")
    /\ events_lock = None
    /\ events_lock' = Closer /\ event_handler_active' = 1
    /\ Goto(Closer, "closed")
    /\ UNCHANGED <<config, waiters_lock, waiting, dataVars, pollfds, revents,
                   xferVars, completed>>

CloseDone ==
    /\ At(Closer, "closed")
    /\ device_close' = device_close - 1
    /\ ClearPipe(modified, device_close')
    /\ Goto(Closer, "unlock")
    /\ UNCHANGED <<config, lockVars, modified, ipollfds, pollfds, revents, xferVars,
                   completed>>

(* pthread_join: the context is not used again *)
Join ==
    /\ At(Closer, "join")
    /\ At(EventThread, "exited")
    /\ Goto(Closer, "joined")
    /\ UNCHANGED <<config, lockVars, dataVars, pollfds, revents, xferVars, completed>>

-----------------------------------------------------------------------------
(* Steps of a thread that nobody else has to make for it *)
Step(p) ==
    \/ Loop(p) \/ Try(p) \/ TryLock(p) \/ Locked(p) \/ Poll(p)
    \/ PollWakes(p) \/ PipeEvent(p) \/ BackendEnds(p) \/ Unlock(p) \/ Broadcast(p)
    \/ \E u \in Users : BackendFound(p, u)
    \/ LockWaiters(p) \/ TestActive(p) \/ Sleep(p) \/ Woken(p)

Submission(u) == SubmitAccepted(u) \/ SubmitRejected(u) \/ SubmitUndone(u)

Closing == CloseSignal \/ CloseLock \/ CloseDone \/ Unlock(Closer) \/ Broadcast(Closer)
           \/ Join

TimesOut == \E p \in Loopers : WaitTimesOut(p) \/ PollTimesOut(p)

Next ==
    \/ \E p \in Loopers : Step(p)
    \/ \E u \in Users : Submit(u) \/ Submission(u) \/ DriverDone(u)
    \/ StartClose \/ Closing
    \/ TimesOut

Spec == Init /\ [][Next]_vars

(* Every thread inside a call runs on and every mutex is given out fairly;  *)
(* the driver finishes what it has accepted.                                *)
FairSpec ==
    /\ Spec
    /\ \A p \in Loopers : SF_vars(Step(p))
    /\ \A u \in Users : WF_vars(Submission(u)) /\ WF_vars(DriverDone(u))
    /\ SF_vars(Closing)

-----------------------------------------------------------------------------
(* Properties *)

Steps == {"loop", "try", "trylock", "locked", "poll", "asleep", "pipe",
          "backend", "unlock", "broadcast", "wait", "active", "sleep", "waiting"}

(* Types *)
TypeOK ==
    /\ \A u \in Users : pc[u] \in Steps \cup {"idle", "driver", "undo"}
    /\ pc[EventThread] \in Steps \cup {"exited"}
    /\ pc[Closer] \in {"idle", "close", "lock", "closed", "unlock", "broadcast",
                       "join", "joined"}
    /\ events_lock \in Procs \cup {None} /\ waiters_lock \in Procs \cup {None}
    /\ {event_handler_active, modified, pipe} \subseteq {0, 1}
    /\ waiting \subseteq Loopers /\ device_close \in Nat
    /\ ipollfds \in Seq(open) /\ IsInjective(ipollfds)
    /\ pollfds \in Seq(Fds) /\ revents \subseteq 1..Len(pollfds)
    /\ open \subseteq Fds /\ fd \in [Users -> Fds \cup {NoFd}]
    /\ flying \subseteq Users /\ urb \subseteq Users /\ signalled \subseteq Fds
    /\ completed \in [Loopers -> {0, 1}]

(* The event pipe is signalled exactly while something is pending: never    *)
(* written twice or read when empty, which usbi_write and usbi_read assert, *)
(* and no handler sleeps over an event or spins on one that is gone.        *)
PipeMatchesPending == pipe = 1 <=> Pending(modified, device_close)

(* The array a handler polls or sleeps on holds open descriptors only       *)
(* (check_pollfds asserts it), as long as the driver rejects no submission: *)
(* whoever handles events is the one who closes them.                       *)
PolledOpen ==
    driver = "accepts" =>
        \A p \in Loopers : At(p, "poll") \/ At(p, "asleep") => ToSet(pollfds) \subseteq open

(* A transfer is called back only when the driver has finished with it,     *)
(* although the backend knows transfers by descriptor numbers that are used *)
(* again and again (windows_handle_events).                                 *)
NotEarly == driver = "accepts" => early = {}

(* Every synchronous transfer returns, whoever handles the event.           *)
TransferReturns == \A u \in Users : (pc[u] = "loop") ~> (pc[u] = "idle")

(* libusb_close gets the event lock, and after the last close the event     *)
(* thread has ended.                                                        *)
CloseReturns == (pc[Closer] = "close") ~> (pc[Closer] \in {"idle", "joined"})

(* No call waits for ever for the thread that handles events.               *)
EventCallsReturn == TransferReturns /\ CloseReturns

(* The array a handler polls, made under the lock and used after it, leads  *)
(* it neither to a closed descriptor nor to a transfer that is not over.    *)
DescriptorsSound == TypeOK /\ PolledOpen /\ NotEarly

=============================================================================
