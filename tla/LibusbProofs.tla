----------------------------- MODULE LibusbProofs -----------------------------
(***************************************************************************)
(* Proofs about LibusbEvents for any number of threads that make           *)
(* synchronous transfers, of descriptors and of closes, and about          *)
(* WinusbBackend for any devices, transfers and number of calls.           *)
(***************************************************************************)
EXTENDS LibusbEvents, WinusbBackend, ListLemmas, FiniteSetTheorems, SequenceTheorems, TLAPS

-----------------------------------------------------------------------------
(* Event handling                                                            *)

(* device_close counts the close that is waiting for the event lock or has *)
(* it: between CloseSignal and CloseDone.                                   *)
CountInv ==
    /\ DOMAIN pc = Procs
    /\ device_close = IF pc[Closer] \in {"lock", "closed"} THEN 1 ELSE 0

LEMMA CountInvStep == CountInv /\ [Next]_vars => CountInv'
<1> SUFFICES ASSUME CountInv, [Next]_vars PROVE CountInv'
  OBVIOUS
<1> USE ConstantsAssumption DEF ConstantsAssumption, CountInv, Procs, Loopers, At,
        Goto, dataVars
<1>1. ASSUME NEW p \in Procs \ {Closer}, NEW step, Goto(p, step),
             UNCHANGED device_close
      PROVE  CountInv'
  BY <1>1
<1>2. ASSUME NEW p \in Loopers, Step(p) PROVE CountInv'
  <2>1. p \in Procs \ {Closer}
    BY <1>2
  <2>2. UNCHANGED device_close
    BY <1>2 DEF Step, Loop, Try, TryLock, Locked, Poll, PollWakes, PipeEvent,
                BackendEnds, Unlock, Broadcast, BackendFound, LockWaiters, TestActive,
                Sleep, Woken
  <2>3. UNCHANGED pc \/ \E step : Goto(p, step)
    BY <1>2 DEF Step, Loop, Try, TryLock, Locked, Polled, Poll, PollWakes, PipeEvent,
                BackendEnds, Unlock, Broadcast, BackendFound, LockWaiters, TestActive,
                Sleep, Woken
  <2> QED
    BY <1>1, <2>1, <2>2, <2>3
<1>3. ASSUME NEW u \in Users, Submit(u) \/ Submission(u) \/ DriverDone(u)
      PROVE  CountInv'
  BY <1>3 DEF Submit, Submission, SubmitAccepted, SubmitRejected, SubmitUndone,
              DriverDone
<1>4. ASSUME StartClose \/ Closing PROVE CountInv'
  BY <1>4 DEF StartClose, Closing, CloseSignal, CloseLock, CloseDone, Unlock,
              Broadcast, Join
<1>5. ASSUME TimesOut PROVE CountInv'
  BY <1>5 DEF TimesOut, WaitTimesOut, PollTimesOut
<1>6. CASE UNCHANGED vars
  BY <1>6 DEF vars
<1> QED
  BY <1>2, <1>3, <1>4, <1>5, <1>6 DEF Next

(* What the event pipe depends on                                           *)
PipeInv ==
    /\ pipe \in {0, 1} /\ modified \in {0, 1} /\ device_close \in Nat
    /\ PipeMatchesPending

(* Signalling when nothing was pending before keeps pipe and events equal.  *)
LEMMA NotifyKeepsPipeInv ==
    ASSUME PipeInv, Notify, UNCHANGED device_close
    PROVE  PipeInv'
BY DEF PipeInv, PipeMatchesPending, Notify, Pending

LEMMA RemovalKeepsPipeInv ==
    ASSUME PipeInv, NEW f, RemovePollfd(f), UNCHANGED device_close
    PROVE  PipeInv'
BY NotifyKeepsPipeInv DEF RemovePollfd, PipeInv, PipeMatchesPending, Pending

(* Clearing when nothing is pending any more establishes it.                *)
LEMMA ClearEstablishesPipeInv ==
    ASSUME pipe \in {0, 1}, modified' \in {0, 1}, device_close' \in Nat,
           (pipe = 0) => ~Pending(modified', device_close'),
           ClearPipe(modified', device_close')
    PROVE  PipeInv'
BY DEF PipeInv, PipeMatchesPending, ClearPipe, Pending

(* Every step of every thread keeps the event pipe equal to the events.     *)
LEMMA PipeInvStep == CountInv /\ PipeInv /\ [Next]_vars => PipeInv'
<1> SUFFICES ASSUME CountInv, PipeInv, [Next]_vars PROVE PipeInv'
  OBVIOUS
<1> USE DEF dataVars, config, lockVars, xferVars
<1>0. ASSUME UNCHANGED dataVars PROVE PipeInv'
  BY <1>0 DEF PipeInv, PipeMatchesPending, Pending
<1>1. ASSUME NEW p \in Loopers, Step(p) PROVE PipeInv'
  <2>1. CASE Locked(p)
    <3>1. CASE completed[p] = 0 /\ modified = 1
      <4>1. modified' = 0 /\ ClearPipe(0, device_close) /\ device_close' = device_close
        BY <2>1, <3>1 DEF Locked
      <4> QED
        BY <4>1, <3>1, ClearEstablishesPipeInv
           DEF PipeInv, PipeMatchesPending, Pending, ClearPipe
    <3>2. CASE ~(completed[p] = 0 /\ modified = 1)
      <4>1. UNCHANGED <<modified, device_close, pipe>>
        BY <2>1, <3>2 DEF Locked, PipeInv
      <4> QED
        BY <4>1 DEF PipeInv, PipeMatchesPending, Pending
    <3> QED
      BY <3>1, <3>2
  <2>2. CASE PipeEvent(p)
    BY <2>2 DEF PipeEvent, PipeInv, PipeMatchesPending, ClearPipe, Pending
  <2>3. CASE \E u \in Users : BackendFound(p, u)
    BY <2>3, RemovalKeepsPipeInv DEF BackendFound
  <2>4. CASE \/ Loop(p) \/ Try(p) \/ TryLock(p) \/ Poll(p) \/ PollWakes(p)
             \/ BackendEnds(p) \/ Unlock(p) \/ Broadcast(p)
    BY <2>4, <1>0 DEF Loop, Try, TryLock, Poll, PollWakes, BackendEnds, Unlock, Broadcast
  <2>5. CASE LockWaiters(p) \/ TestActive(p) \/ Sleep(p) \/ Woken(p)
    BY <2>5, <1>0 DEF LockWaiters, TestActive, Sleep, Woken
  <2> QED
    BY <1>1, <2>1, <2>2, <2>3, <2>4, <2>5 DEF Step
<1>2. ASSUME NEW u \in Users, Submit(u) \/ Submission(u) \/ DriverDone(u)
      PROVE  PipeInv'
  <2>1. CASE Submit(u) \/ SubmitRejected(u)
    BY <2>1, NotifyKeepsPipeInv, RemovalKeepsPipeInv DEF Submit, SubmitRejected
  <2>2. CASE SubmitAccepted(u) \/ SubmitUndone(u) \/ DriverDone(u)
    BY <2>2, <1>0 DEF SubmitAccepted, SubmitUndone, DriverDone
  <2> QED
    BY <1>2, <2>1, <2>2 DEF Submission
<1>3. ASSUME CloseSignal PROVE PipeInv'
  BY <1>3 DEF CloseSignal, PipeInv, PipeMatchesPending, Pending
<1>4. ASSUME CloseDone PROVE PipeInv'
  BY <1>4 DEF CloseDone, At, CountInv, PipeInv, PipeMatchesPending, ClearPipe, Pending
<1>5. ASSUME StartClose \/ CloseLock \/ Unlock(Closer) \/ Broadcast(Closer) \/ Join
      PROVE  PipeInv'
  BY <1>5, <1>0 DEF StartClose, CloseLock, Unlock, Broadcast, Join
<1>6. ASSUME TimesOut PROVE PipeInv'
  BY <1>6, <1>0 DEF TimesOut, WaitTimesOut, PollTimesOut
<1>7. CASE UNCHANGED vars
  BY <1>7, <1>0 DEF vars
<1> QED
  BY <1>1, <1>2, <1>3, <1>4, <1>5, <1>6, <1>7 DEF Next, Closing

(* In every behaviour the event pipe is signalled exactly while an event is *)
(* pending, however many threads submit, handle events and close.           *)
THEOREM EventPipeExact == Spec => []PipeMatchesPending
<1>1. Init => PipeInv
  BY DEF Init, PipeInv, PipeMatchesPending, Pending
<1>2. Init => CountInv
  BY ConstantsAssumption DEF ConstantsAssumption, Init, CountInv, Procs
<1>3. PipeInv => PipeMatchesPending
  BY DEF PipeInv
<1> QED
  BY <1>1, <1>2, <1>3, CountInvStep, PipeInvStep, PTL DEF Spec

-----------------------------------------------------------------------------
(* The descriptors: the inductive invariant *)

AllSteps == Steps \cup {"idle", "driver", "undo", "exited", "close", "lock", "closed",
                        "join", "joined"}

(* The thread that has the event lock is the one that handles events or     *)
(* closes a device, and nobody else uses what poll found.                   *)
Handling == {"locked", "poll", "asleep", "pipe", "backend", "unlock"}

LockInv ==
    /\ pc \in [Procs -> AllSteps]
    /\ \A p \in Loopers : events_lock = p <=> pc[p] \in Handling
    /\ events_lock = Closer <=> pc[Closer] \in {"closed", "unlock"}
    /\ revents # {} => \E p \in Loopers : pc[p] \in {"pipe", "backend"}

(* Descriptors belong to the transfers on the flying list, one to each, and *)
(* a transfer that is not submitted or is complete has none.                *)
FdInv ==
    /\ \A u \in Users : u \in flying <=> fd[u] # NoFd
    /\ \A u, v \in flying : fd[u] = fd[v] => u = v
    /\ open = {fd[u] : u \in flying}
    /\ \A u \in Users : pc[u] = "idle" \/ completed[u] = 1 => u \notin flying
    /\ \A u \in Users : pc[u] = "undo" => fd[u] \notin ToSet(ipollfds)

(* The array is a copy of the list, and the flag says when it may be old.   *)
ArrayInv ==
    /\ IsInjective(pollfds)
    /\ modified = 0 => pollfds = ipollfds

(* While the driver refuses nothing, only the thread with the event lock    *)
(* closes descriptors: what it found ready stays ready until it is handled, *)
(* and is of a transfer the driver has finished with.                       *)
ReadyInv ==
    driver = "accepts" =>
        /\ early = {} /\ \A u \in Users : pc[u] # "undo"
        /\ \A p \in Loopers :
              pc[p] \in {"poll", "asleep"} => ToSet(pollfds) \subseteq open
        /\ signalled \subseteq open
        /\ \A i \in revents : pollfds[i] \in signalled
        /\ \A u \in Users : u \in urb \/ pc[u] = "driver" => u \in flying
        /\ \A u \in urb : pc[u] # "driver"
        /\ \A u \in Users : fd[u] \in signalled => u \notin urb /\ pc[u] # "driver"

DescriptorInv == TypeOK /\ LockInv /\ FdInv /\ ArrayInv /\ ReadyInv

(* The steps in groups: a thread that waits or retries, the thread that has *)
(* the event lock, and libusb_close                                         *)
WaitStep(p) ==
    \/ Loop(p) \/ Try(p) \/ Broadcast(p) \/ LockWaiters(p) \/ TestActive(p) \/ Sleep(p)
    \/ Woken(p) \/ WaitTimesOut(p)

PollStep(p) == Poll(p) \/ PollWakes(p)

LockStep(p) ==
    TryLock(p) \/ PollTimesOut(p) \/ PipeEvent(p) \/ BackendEnds(p) \/ Unlock(p)

CloseStep ==
    StartClose \/ CloseSignal \/ CloseLock \/ CloseDone \/ Unlock(Closer)
    \/ Broadcast(Closer) \/ Join


LEMMA DescriptorInvInit == Init => DescriptorInv
<1> SUFFICES ASSUME Init PROVE DescriptorInv
  OBVIOUS
<1> USE ConstantsAssumption DEF ConstantsAssumption, Init, Procs, Loopers
<1>1. ToSet(<<>>) = {} /\ IsInjective(<<>>) /\ \A S : <<>> \in Seq(S)
  BY DEF ToSet, IsInjective
<1>2. TypeOK
  <2>1. pc[Closer] = "idle" /\ pc[EventThread] = "loop" /\ \A u \in Users : pc[u] = "idle"
    OBVIOUS
  <2> QED
    BY <1>1, <2>1 DEF TypeOK, Steps
<1>3. LockInv
  BY DEF LockInv, Handling, AllSteps, Steps
<1>4. FdInv /\ ArrayInv /\ ReadyInv
  BY <1>1 DEF FdInv, ArrayInv, ReadyInv
<1> QED
  BY <1>2, <1>3, <1>4 DEF DescriptorInv

(* There is a descriptor for every thread that may submit a transfer.       *)
LEMMA FreeDescriptor ==
    ASSUME TypeOK, FdInv, NEW u \in Users, pc[u] = "idle"
    PROVE  (CHOOSE g \in Fds \ open : \A k \in Fds \ open : g <= k) \in Fds \ open
<1>1. flying \subseteq Users \ {u}
  BY DEF FdInv, TypeOK
<1>2. IsFiniteSet(flying) /\ Cardinality(flying) <= Cardinality(Users) - 1
  <2>1. /\ IsFiniteSet(Users) /\ IsFiniteSet(Users \ {u})
        /\ Cardinality(Users \ {u}) = Cardinality(Users) - 1
    BY ConstantsAssumption, FS_RemoveElement DEF ConstantsAssumption
  <2> QED
    BY <1>1, <2>1, FS_Subset
<1>3. IsFiniteSet(open) /\ Cardinality(open) <= Cardinality(flying)
  <2> DEFINE g == [v \in flying |-> fd[v]]
  <2>1. g \in Surjection(flying, open)
    BY DEF FdInv, Surjection
  <2> QED
    BY <1>2, <2>1, FS_Surjection
<1>4. Cardinality(Fds) = NumFds
  BY ConstantsAssumption, FS_Interval DEF ConstantsAssumption, Fds
<1>5. open # Fds
  <2>1. /\ Cardinality(flying) \in Nat /\ Cardinality(open) \in Nat
        /\ Cardinality(Users) \in Nat /\ Cardinality(Users) <= NumFds /\ NumFds \in Nat
    BY <1>2, <1>3, ConstantsAssumption, FS_CardinalityType DEF ConstantsAssumption
  <2> QED
    BY <1>2, <1>3, <1>4, <2>1
<1>6. Fds \ open # {} /\ Fds \ open \in SUBSET Nat
  <2>1. Fds \in SUBSET Nat
    BY DEF Fds
  <2>2. open \subseteq Fds
    BY DEF TypeOK
  <2> QED
    BY <1>5, <2>1, <2>2
<1> QED
  BY <1>6, MinExists

(* usbi_remove_pollfd takes the descriptor, and no other, off the list and  *)
(* says that the list has changed.                                          *)
LEMMA PollfdRemoved ==
    ASSUME TypeOK, NEW f, RemovePollfd(f)
    PROVE  /\ ipollfds' \in Seq(open \ {f}) /\ IsInjective(ipollfds')
           /\ ToSet(ipollfds') = ToSet(ipollfds) \ {f}
           /\ modified' \in {0, 1} /\ pipe' \in {0, 1}
           /\ modified' = 0 => modified = 0 /\ ipollfds' = ipollfds
<1>0. /\ ipollfds \in Seq(open) /\ IsInjective(ipollfds)
      /\ modified \in {0, 1} /\ pipe \in {0, 1}
  BY DEF TypeOK
<1>1. \A s \in Seq(open) : f \notin ToSet(s) => s \in Seq(open \ {f})
  <2> SUFFICES ASSUME NEW s \in Seq(open), f \notin ToSet(s) PROVE s \in Seq(open \ {f})
    OBVIOUS
  <2>1. \A i \in 1..Len(s) : s[i] \in open \ {f}
    BY LenProperties DEF ToSet
  <2> QED
    BY <2>1, LenProperties
<1>2. CASE f \in ToSet(ipollfds)
  <2>1. ipollfds' = RemoveAt(ipollfds, Position(f)) /\ Notify
    BY <1>2 DEF RemovePollfd
  <2>2. \E i \in 1..Len(ipollfds) : ipollfds[i] = f
    BY <1>0, <1>2, LenProperties DEF ToSet
  <2>3. Position(f) \in 1..Len(ipollfds) /\ ipollfds[Position(f)] = f
    BY <2>2 DEF Position
  <2>4. /\ ipollfds' \in Seq(open) /\ IsInjective(ipollfds')
        /\ ToSet(ipollfds') = ToSet(ipollfds) \ {f}
    BY <1>0, <2>1, <2>3, ListRemove
  <2> QED
    BY <1>0, <1>1, <2>1, <2>4 DEF Notify
<1>3. CASE f \notin ToSet(ipollfds)
  <2>1. UNCHANGED <<ipollfds, modified, pipe>>
    BY <1>3 DEF RemovePollfd
  <2> QED
    BY <1>0, <1>1, <1>3, <2>1
<1> QED
  BY <1>2, <1>3

(* The backend takes the descriptors that poll found ready one by one.      *)
LEMMA FirstIsReady ==
    ASSUME TypeOK, revents # {}
    PROVE  FirstReady \in revents
<1>1. revents \in SUBSET Nat
  BY LenProperties DEF TypeOK
<1> QED
  BY <1>1, MinExists DEF FirstReady

-----------------------------------------------------------------------------
(* Every step preserves the invariant *)

LEMMA SubmitStep ==
    ASSUME NEW u \in Users, Submit(u), DescriptorInv
    PROVE  DescriptorInv'
<1> USE ConstantsAssumption DEF ConstantsAssumption
<1> USE DEF Submit, Fds, config, lockVars, Goto, At, Notify, Pending, Loopers, Procs
<1>0. TypeOK /\ LockInv /\ FdInv /\ ArrayInv /\ ReadyInv
  BY DEF DescriptorInv
<1> DEFINE f == CHOOSE g \in Fds \ open : \A k \in Fds \ open : g <= k
<1>a. f \in Fds /\ f \notin open
  BY <1>0, FreeDescriptor
<1>b. /\ open' = open \cup {f} /\ fd' = [fd EXCEPT ![u] = f]
      /\ ipollfds' = Append(ipollfds, f)
  OBVIOUS
<1> HIDE DEF f
<1>c. /\ ipollfds' \in Seq(open') /\ IsInjective(ipollfds')
      /\ ToSet(ipollfds') = ToSet(ipollfds) \cup {f}
  <2>1. ipollfds \in Seq(open') /\ IsInjective(ipollfds) /\ f \notin ToSet(ipollfds)
    BY <1>0, <1>a, <1>b DEF TypeOK, ToSet
  <2>2. f \in open'
    BY <1>b
  <2>3. /\ Append(ipollfds, f) \in Seq(open') /\ IsInjective(Append(ipollfds, f))
        /\ ToSet(Append(ipollfds, f)) = ToSet(ipollfds) \cup {f}
    BY <2>1, <2>2, ListAppend
  <2> HIDE DEF Submit
  <2> QED
    BY <1>b, <2>3
<1>d. u \notin flying /\ pc[u] = "idle" /\ f # NoFd
  BY <1>0, <1>a DEF FdInv, NoFd, Fds
<1>1. TypeOK'
  <2>1. /\ \A v \in Users : pc'[v] \in Steps \cup {"idle", "driver", "undo"}
        /\ UNCHANGED <<pc[EventThread], pc[Closer]>>
    BY <1>0 DEF TypeOK, LockInv
  <2>2. modified' \in {0, 1} /\ pipe' \in {0, 1}
    BY <1>0 DEF TypeOK
  <2>3. open' \subseteq Fds /\ fd' \in [Users -> Fds \cup {NoFd}]
    <3> HIDE DEF Submit, Fds
    <3> QED
      BY <1>0, <1>a, <1>b DEF TypeOK
  <2>4. flying' \subseteq Users /\ completed' \in [Loopers -> {0, 1}]
    BY <1>0 DEF TypeOK
  <2>5. UNCHANGED <<lockVars, device_close, pollfds, revents, urb, signalled>>
    OBVIOUS
  <2> HIDE DEF Submit
  <2> QED
    BY <1>0, <1>c, <2>1, <2>2, <2>3, <2>4, <2>5 DEF TypeOK
<1>2. LockInv'
  BY <1>0 DEF LockInv, Handling, Steps, AllSteps
<1>3. FdInv'
  <2>1. \A v \in flying : v \in Users /\ v # u /\ fd[v] # f /\ fd'[v] = fd[v]
    BY <1>0, <1>a, <1>b, <1>d DEF FdInv, TypeOK
  <2>2. fd'[u] = f /\ flying' = flying \cup {u}
    BY <1>0, <1>b DEF TypeOK
  <2>3. open' = {fd'[v] : v \in flying'}
    <3>1. open = {fd'[v] : v \in flying}
      BY <1>0, <2>1 DEF FdInv
    <3>2. {fd'[v] : v \in flying \cup {u}} = {fd'[v] : v \in flying} \cup {fd'[u]}
      OBVIOUS
    <3> QED
      BY <1>b, <2>2, <3>1, <3>2
  <2>4. \A v \in Users \ {u} : fd'[v] = fd[v] /\ pc'[v] = pc[v]
    BY <1>0, <1>b DEF TypeOK, LockInv
  <2>5. pc'[u] = "driver" /\ completed'[u] = 0
    BY <1>0 DEF TypeOK, LockInv
  <2>6. \A v \in Users \ {u} :
            /\ completed'[v] = completed[v]
            /\ pc[v] = "undo" => fd[v] \in open \/ fd[v] = NoFd
    BY <1>0 DEF TypeOK, FdInv
  <2>7. \A v \in Users : pc'[v] = "undo" => fd'[v] \notin ToSet(ipollfds')
    BY <1>0, <1>a, <1>c, <1>d, <2>4, <2>5, <2>6 DEF FdInv
  <2>8. \A v \in Users : v \in flying' <=> fd'[v] # NoFd
    BY <1>0, <1>d, <2>2, <2>4 DEF FdInv
  <2>9. \A v, w \in flying' : fd'[v] = fd'[w] => v = w
    BY <1>0, <2>1, <2>2 DEF FdInv
  <2>10. \A v \in Users : pc'[v] = "idle" \/ completed'[v] = 1 => v \notin flying'
    BY <1>0, <2>2, <2>4, <2>5, <2>6 DEF FdInv
  <2> QED
    BY <2>3, <2>7, <2>8, <2>9, <2>10 DEF FdInv
<1>4. ArrayInv'
  BY <1>0 DEF ArrayInv
<1>5. ReadyInv'
  <2>1. \A v \in Users \ {u} : fd'[v] = fd[v] /\ pc'[v] = pc[v]
    BY <1>0, <1>b DEF TypeOK, LockInv
  <2>2. fd'[u] = f /\ pc'[u] = "driver"
    BY <1>0, <1>b DEF TypeOK, LockInv
  <2>3. \A p \in Loopers : pc'[p] \in {"poll", "asleep"} => pc[p] \in {"poll", "asleep"}
    BY <1>0, <2>2 DEF LockInv
  <2>4. open \subseteq open' /\ flying' = flying \cup {u}
    BY <1>b
  <2>5. UNCHANGED <<driver, early, pollfds, revents, urb, signalled>>
    OBVIOUS
  <2>6. urb \subseteq Users
    BY <1>0 DEF TypeOK
  <2> HIDE DEF Submit
  <2> SUFFICES ASSUME driver = "accepts" PROVE ReadyInv'
    BY <2>5 DEF ReadyInv
  <2>7. f \notin signalled /\ u \notin urb
    BY <1>0, <1>a, <1>d DEF ReadyInv
  <2>8. ToSet(pollfds') = ToSet(pollfds)
    BY <2>5
  <2> QED
    BY <1>0, <2>1, <2>2, <2>3, <2>4, <2>5, <2>6, <2>7, <2>8 DEF ReadyInv
<1> QED
  BY <1>1, <1>2, <1>3, <1>4, <1>5 DEF DescriptorInv

LEMMA SubmitAcceptedStep ==
    ASSUME NEW u \in Users, SubmitAccepted(u), DescriptorInv
    PROVE  DescriptorInv'
<1> USE DEF SubmitAccepted, config, lockVars, dataVars, Goto, At, Loopers, Procs
<1>0. TypeOK /\ LockInv /\ FdInv /\ ArrayInv /\ ReadyInv
  BY DEF DescriptorInv
<1>1. TypeOK'
  BY <1>0 DEF TypeOK, Steps, NoFd, Fds
<1>2. LockInv'
  BY <1>0 DEF LockInv, Handling, Steps, AllSteps
<1>3. FdInv'
  BY <1>0 DEF FdInv, NoFd
<1>4. ArrayInv'
  BY <1>0 DEF ArrayInv
<1>5. ReadyInv'
  <2>1. pc'[u] = "loop" /\ \A q \in Procs \ {u} : pc'[q] = pc[q]
    BY <1>0 DEF LockInv
  <2>2. \A p \in Loopers : pc'[p] \in {"poll", "asleep"} => pc[p] \in {"poll", "asleep"}
    BY <2>1
  <2> QED
    BY <1>0, <2>1, <2>2 DEF ReadyInv
<1> QED
  BY <1>1, <1>2, <1>3, <1>4, <1>5 DEF DescriptorInv

LEMMA SubmitRejectedStep ==
    ASSUME NEW u \in Users, SubmitRejected(u), DescriptorInv
    PROVE  DescriptorInv'
<1> USE ConstantsAssumption DEF ConstantsAssumption
<1> USE DEF SubmitRejected, config, lockVars, xferVars, Goto, At, RemovePollfd, Notify,
            Pending, Loopers, Procs
<1>0. TypeOK /\ LockInv /\ FdInv /\ ArrayInv /\ ReadyInv
  BY DEF DescriptorInv
<1>a. /\ ipollfds' \in Seq(open \ {fd[u]}) /\ IsInjective(ipollfds')
      /\ ToSet(ipollfds') = ToSet(ipollfds) \ {fd[u]}
      /\ modified' \in {0, 1} /\ pipe' \in {0, 1}
      /\ modified' = 0 => modified = 0 /\ ipollfds' = ipollfds
  BY <1>0, PollfdRemoved
<1> HIDE DEF RemovePollfd
<1>1. TypeOK'
  <2>1. ipollfds' \in Seq(open)
    BY <1>a
  <2> QED
    BY <1>0, <1>a, <2>1 DEF TypeOK
<1>2. LockInv'
  BY <1>0 DEF LockInv, Handling, Steps, AllSteps
<1>3. FdInv'
  <2>1. pc'[u] = "undo" /\ pc[u] = "driver" /\ \A v \in Users \ {u} : pc'[v] = pc[v]
    BY <1>0 DEF LockInv
  <2>2. \A v \in Users : pc'[v] = "undo" => fd[v] \notin ToSet(ipollfds')
    BY <1>0, <1>a, <2>1 DEF FdInv
  <2> QED
    BY <1>0, <2>1, <2>2 DEF FdInv
<1>4. ArrayInv'
  BY <1>0, <1>a DEF ArrayInv
<1>5. ReadyInv'
  BY <1>0 DEF ReadyInv, Handling
<1> QED
  BY <1>1, <1>2, <1>3, <1>4, <1>5 DEF DescriptorInv

LEMMA SubmitUndoneStep ==
    ASSUME NEW u \in Users, SubmitUndone(u), DescriptorInv
    PROVE  DescriptorInv'
<1> USE ConstantsAssumption DEF ConstantsAssumption
<1> USE DEF SubmitUndone, NoFd, config, lockVars, dataVars, Goto, At, Procs, Loopers
<1>0. TypeOK /\ LockInv /\ FdInv /\ ArrayInv /\ ReadyInv
  BY DEF DescriptorInv
<1>1. TypeOK'
  <2>1. ipollfds \in Seq(open \ {fd[u]})
    <3>1. \A i \in 1..Len(ipollfds) : ipollfds[i] \in open \ {fd[u]}
      BY <1>0, LenProperties DEF TypeOK, FdInv, ToSet
    <3> QED
      BY <1>0, <3>1, LenProperties DEF TypeOK
  <2> QED
    BY <1>0, <2>1 DEF TypeOK
<1>2. LockInv'
  BY <1>0 DEF LockInv, Handling, Steps, AllSteps
<1>3. FdInv'
  BY <1>0 DEF TypeOK, LockInv, FdInv
<1>4. ArrayInv'
  BY <1>0 DEF ArrayInv
<1>5. ReadyInv'
  BY <1>0 DEF ReadyInv, Handling
<1> QED
  BY <1>1, <1>2, <1>3, <1>4, <1>5 DEF DescriptorInv

LEMMA DriverDoneStep ==
    ASSUME NEW u \in Users, DriverDone(u), DescriptorInv
    PROVE  DescriptorInv'
<1> USE DEF DriverDone, NoFd, config, lockVars, dataVars, Procs, Loopers
<1>0. TypeOK /\ LockInv /\ FdInv /\ ArrayInv /\ ReadyInv
  BY DEF DescriptorInv
<1>1. TypeOK'
  BY <1>0 DEF TypeOK, Steps, Fds
<1>2. LockInv'
  BY <1>0 DEF LockInv, Handling, Steps, AllSteps
<1>3. FdInv'
  BY <1>0 DEF FdInv
<1>4. ArrayInv'
  BY <1>0 DEF ArrayInv
<1>5. ReadyInv'
  BY <1>0 DEF TypeOK, LockInv, FdInv, ReadyInv, Handling
<1> QED
  BY <1>1, <1>2, <1>3, <1>4, <1>5 DEF DescriptorInv

LEMMA WaitStepKeeps ==
    ASSUME NEW p \in Loopers, WaitStep(p), DescriptorInv
    PROVE  DescriptorInv'
<1> USE ConstantsAssumption DEF ConstantsAssumption
<1> USE DEF WaitStep, Loop, Try, Broadcast, LockWaiters, TestActive, Sleep, Woken,
            WaitTimesOut, config, lockVars, dataVars, xferVars, Goto, At, Loopers, Procs
<1>0. TypeOK /\ LockInv /\ FdInv /\ ArrayInv /\ ReadyInv
  BY DEF DescriptorInv
<1>a. /\ p \in Procs /\ p # Closer
      /\ \/ UNCHANGED pc
         \/ \E step \in Steps : pc' = [pc EXCEPT ![p] = step]
         \/ p \in Users /\ pc' = [pc EXCEPT ![p] = "idle"]
         \/ p = EventThread /\ pc' = [pc EXCEPT ![p] = "exited"]
  BY DEF Steps
<1>1. TypeOK'
  <2>1. /\ \A u \in Users : pc'[u] \in Steps \cup {"idle", "driver", "undo"}
        /\ pc'[EventThread] \in Steps \cup {"exited"} /\ pc'[Closer] = pc[Closer]
    <3> HIDE DEF WaitStep
    <3> QED
      BY <1>0, <1>a DEF TypeOK, LockInv
  <2>2. waiters_lock' \in Procs \cup {None} /\ waiting' \subseteq Loopers
    BY <1>0 DEF TypeOK
  <2>3. /\ UNCHANGED <<events_lock, event_handler_active, dataVars, pollfds, revents>>
        /\ UNCHANGED <<xferVars, completed>>
    OBVIOUS
  <2> HIDE DEF WaitStep
  <2> QED
    BY <1>0, <2>1, <2>2, <2>3 DEF TypeOK
<1>2. LockInv'
  BY <1>0 DEF LockInv, Handling, Steps, AllSteps
<1>3. FdInv'
  BY <1>0 DEF TypeOK, LockInv, FdInv, NoFd
<1>4. ArrayInv'
  BY <1>0 DEF ArrayInv
<1>5. ReadyInv'
  BY <1>0 DEF TypeOK, LockInv, FdInv, ReadyInv, Handling
<1> QED
  BY <1>1, <1>2, <1>3, <1>4, <1>5 DEF DescriptorInv

LEMMA LockStepKeeps ==
    ASSUME NEW p \in Loopers, LockStep(p), DescriptorInv
    PROVE  DescriptorInv'
<1> USE ConstantsAssumption DEF ConstantsAssumption
<1> USE DEF LockStep, TryLock, PipeEvent, BackendEnds, Unlock, PollTimesOut, config,
            dataVars, xferVars, Goto, At, lockVars, ClearPipe, FirstReady, Pending,
            Loopers, Procs
<1>0. TypeOK /\ LockInv /\ FdInv /\ ArrayInv /\ ReadyInv
  BY DEF DescriptorInv
<1>1. TypeOK'
  <2>1. \E step \in Steps : pc' = [pc EXCEPT ![p] = step]
    BY DEF Steps
  <2>2. /\ \A u \in Users : pc'[u] \in Steps \cup {"idle", "driver", "undo"}
        /\ pc'[EventThread] \in Steps \cup {"exited"} /\ pc'[Closer] = pc[Closer]
    <3> HIDE DEF LockStep
    <3> QED
      BY <1>0, <2>1 DEF TypeOK, LockInv
  <2>3. /\ events_lock' \in Procs \cup {None}
        /\ event_handler_active' \in {0, 1} /\ pipe' \in {0, 1}
    BY <1>0 DEF TypeOK
  <2>4. revents' \subseteq revents
    OBVIOUS
  <2>5. /\ UNCHANGED <<waiters_lock, waiting, modified, device_close, ipollfds, pollfds>>
        /\ UNCHANGED <<xferVars, completed>>
    OBVIOUS
  <2> HIDE DEF LockStep
  <2> QED
    BY <1>0, <2>2, <2>3, <2>4, <2>5 DEF TypeOK
<1>2. LockInv'
  BY <1>0 DEF LockInv, Handling, Steps, AllSteps
<1>3. FdInv'
  BY <1>0 DEF TypeOK, LockInv, FdInv, NoFd
<1>4. ArrayInv'
  BY <1>0 DEF ArrayInv
<1>5. ReadyInv'
  BY <1>0 DEF TypeOK, LockInv, FdInv, ReadyInv, Handling
<1> QED
  BY <1>1, <1>2, <1>3, <1>4, <1>5 DEF DescriptorInv

LEMMA PollStepKeeps ==
    ASSUME NEW p \in Loopers, PollStep(p), DescriptorInv
    PROVE  DescriptorInv'
<1> USE DEF PollStep, Poll, PollWakes, config, lockVars, dataVars, xferVars, Goto, At,
            Ready, Polled, Loopers, Procs
<1>0. TypeOK /\ LockInv /\ FdInv /\ ArrayInv /\ ReadyInv
  BY DEF DescriptorInv
<1>1. TypeOK'
  BY <1>0 DEF TypeOK, LockInv, Steps, NoFd, Fds
<1>2. LockInv'
  BY <1>0 DEF LockInv, Handling, Steps, AllSteps
<1>3. FdInv'
  BY <1>0 DEF TypeOK, LockInv, FdInv, NoFd
<1>4. ArrayInv'
  BY <1>0 DEF ArrayInv
<1>5. ReadyInv'
  <2> SUFFICES ASSUME driver = "accepts" PROVE ReadyInv'
    BY DEF ReadyInv
  <2>1. ToSet(pollfds) \subseteq open
    BY <1>0 DEF ReadyInv
  <2>2. \A i \in revents' : pollfds[i] \in signalled
    <3>1. CASE revents' = Ready
      BY <1>0, <2>1, <3>1, LenProperties DEF TypeOK, ToSet
    <3>2. CASE UNCHANGED revents
      BY <1>0, <3>2 DEF ReadyInv
    <3> QED
      BY <3>1, <3>2
  <2>3. /\ \A u \in Users : pc'[u] = "undo" => pc[u] = "undo"
        /\ \A u \in Users : pc'[u] = "driver" => pc[u] = "driver"
    BY <1>0 DEF LockInv
  <2>4. UNCHANGED <<driver, pollfds, xferVars>> /\ urb \subseteq Users
    BY <1>0 DEF TypeOK
  <2> HIDE DEF PollStep
  <2> QED
    BY <1>0, <2>1, <2>2, <2>3, <2>4 DEF ReadyInv
<1> QED
  BY <1>1, <1>2, <1>3, <1>4, <1>5 DEF DescriptorInv

LEMMA LockedStep ==
    ASSUME NEW p \in Loopers, Locked(p), DescriptorInv
    PROVE  DescriptorInv'
<1> USE ConstantsAssumption DEF ConstantsAssumption
<1> USE DEF Locked, config, xferVars, Goto, At, ClearPipe, Pending, Loopers, Procs
<1>0. TypeOK /\ LockInv /\ FdInv /\ ArrayInv /\ ReadyInv
  BY DEF DescriptorInv
<1>a. revents = {}
  BY <1>0 DEF LockInv, Handling
<1>b. ToSet(pollfds') = ToSet(pollfds) \/ ToSet(pollfds') = ToSet(ipollfds)
  OBVIOUS
<1>1. TypeOK'
  <2>1. \E step \in Steps : pc' = [pc EXCEPT ![p] = step]
    BY DEF Steps
  <2>2. /\ \A u \in Users : pc'[u] \in Steps \cup {"idle", "driver", "undo"}
        /\ pc'[EventThread] \in Steps \cup {"exited"} /\ pc'[Closer] = pc[Closer]
    <3> HIDE DEF Locked
    <3> QED
      BY <1>0, <2>1 DEF TypeOK, LockInv
  <2>3. pollfds' \in Seq(Fds)
    BY <1>0 DEF TypeOK
  <2>4. {event_handler_active', modified', pipe'} \subseteq {0, 1}
    BY <1>0 DEF TypeOK
  <2>5. /\ UNCHANGED <<events_lock, waiters_lock, waiting, device_close, ipollfds>>
        /\ UNCHANGED <<revents, xferVars, completed>>
    OBVIOUS
  <2> HIDE DEF Locked
  <2> QED
    BY <1>0, <1>a, <2>2, <2>3, <2>4, <2>5 DEF TypeOK
<1>2. LockInv'
  BY <1>0 DEF LockInv, Handling, Steps, AllSteps
<1>3. FdInv'
  BY <1>0 DEF TypeOK, LockInv, FdInv, NoFd
<1>4. ArrayInv'
  BY <1>0 DEF TypeOK, ArrayInv
<1>5. ReadyInv'
  <2> SUFFICES ASSUME driver = "accepts" PROVE ReadyInv'
    BY DEF ReadyInv
  <2>1. pc'[p] = "poll" => ToSet(pollfds') \subseteq open
    <3>1. pc'[p] = "poll" => pollfds' = ipollfds
      BY <1>0 DEF ArrayInv, LockInv, TypeOK
    <3>2. ToSet(ipollfds) \subseteq open
      BY <1>0, LenProperties DEF TypeOK, ToSet
    <3> QED
      BY <3>1, <3>2
  <2>2. \A q \in Loopers \ {p} : pc'[q] \notin Handling
    BY <1>0 DEF LockInv, Handling
  <2>3. \A q \in Loopers : pc'[q] \in {"poll", "asleep"} => q = p /\ pc'[p] = "poll"
    BY <1>0, <2>2 DEF LockInv, Handling
  <2>4. /\ \A u \in Users : pc'[u] = "undo" => pc[u] = "undo"
        /\ \A u \in Users : pc'[u] = "driver" => pc[u] = "driver"
    BY <1>0 DEF LockInv
  <2>5. UNCHANGED <<driver, revents, xferVars>> /\ urb \subseteq Users
    BY <1>0 DEF TypeOK
  <2> HIDE DEF Locked
  <2> QED
    BY <1>0, <1>a, <2>1, <2>3, <2>4, <2>5 DEF ReadyInv
<1> QED
  BY <1>1, <1>2, <1>3, <1>4, <1>5 DEF DescriptorInv

LEMMA BackendFoundStep ==
    ASSUME NEW p \in Loopers, NEW u \in Users, BackendFound(p, u), DescriptorInv
    PROVE  DescriptorInv'
<1> USE DEF BackendFound, NoFd, config, lockVars, At, RemovePollfd, FirstReady, Procs,
            Notify, Pending, Loopers
<1>0. TypeOK /\ LockInv /\ FdInv /\ ArrayInv /\ ReadyInv
  BY DEF DescriptorInv
<1>a. /\ ipollfds' \in Seq(open \ {fd[u]}) /\ IsInjective(ipollfds')
      /\ ToSet(ipollfds') = ToSet(ipollfds) \ {fd[u]}
      /\ modified' \in {0, 1} /\ pipe' \in {0, 1}
      /\ modified' = 0 => modified = 0 /\ ipollfds' = ipollfds
  BY <1>0, PollfdRemoved
<1> HIDE DEF RemovePollfd
<1>b. FirstReady \in revents
  BY <1>0, FirstIsReady
<1> HIDE DEF FirstReady
<1>1. TypeOK'
  <2>1. ipollfds' \in Seq(open')
    BY <1>a
  <2> QED
    BY <1>0, <1>a, <2>1 DEF TypeOK
<1>2. LockInv'
  BY <1>0 DEF LockInv, Handling, Steps, AllSteps
<1>3. FdInv'
  <2>1. fd'[u] = NoFd /\ \A v \in Users \ {u} : fd'[v] = fd[v]
    BY <1>0 DEF TypeOK
  <2>2. open' = {fd'[v] : v \in flying'}
    <3>1. {fd'[v] : v \in flying \ {u}} = {fd[v] : v \in flying \ {u}}
      BY <1>0, <2>1 DEF TypeOK
    <3>2. {fd[v] : v \in flying \ {u}} = open \ {fd[u]}
      BY <1>0 DEF FdInv
    <3> QED
      BY <3>1, <3>2
  <2>3. completed'[u] = 1 /\ \A v \in Users \ {u} : completed'[v] = completed[v]
    BY <1>0 DEF TypeOK
  <2>4. ToSet(ipollfds') \subseteq open /\ NoFd \notin open
    BY <1>0, <1>a, LenProperties DEF TypeOK, ToSet, Fds
  <2>5. \A v \in Users : pc[v] = "undo" => fd'[v] \notin ToSet(ipollfds')
    BY <1>0, <1>a, <2>1, <2>4 DEF FdInv
  <2> QED
    BY <1>0, <2>1, <2>2, <2>3, <2>5 DEF FdInv, TypeOK
<1>4. ArrayInv'
  BY <1>0, <1>a DEF ArrayInv
<1>5. ReadyInv'
  <2> SUFFICES ASSUME driver = "accepts" PROVE ReadyInv'
    BY DEF ReadyInv
  <2>1. fd[u] \in signalled /\ u \notin urb /\ pc[u] # "driver"
    BY <1>0, <1>b DEF ReadyInv
  <2>2. \A q \in Loopers : pc'[q] \notin {"poll", "asleep"}
    BY <1>0 DEF LockInv, Handling
  <2>3. \A i \in revents' : pollfds[i] \in signalled'
    <3>1. \A i \in revents' : i \in 1..Len(pollfds) /\ i # FirstReady /\ i \in revents
      BY <1>0 DEF TypeOK
    <3>2. FirstReady \in 1..Len(pollfds) /\ pollfds[FirstReady] = fd[u]
      BY <1>0, <1>b DEF TypeOK
    <3>3. \A i \in revents' : pollfds[i] # fd[u]
      BY <1>0, <3>1, <3>2, LenProperties DEF ArrayInv, IsInjective, TypeOK
    <3> QED
      BY <1>0, <3>1, <3>3 DEF ReadyInv
  <2>4. fd'[u] = NoFd /\ \A v \in Users \ {u} : fd'[v] = fd[v]
    BY <1>0 DEF TypeOK
  <2>5. NoFd \notin signalled'
    BY <1>0 DEF TypeOK, Fds
  <2>6. /\ UNCHANGED <<driver, pc, urb, pollfds>> /\ early' = early
        /\ open' = open \ {fd[u]} /\ signalled' = signalled \ {fd[u]}
        /\ flying' = flying \ {u}
    BY <2>1
  <2> HIDE DEF BackendFound
  <2> QED
    BY <1>0, <2>1, <2>2, <2>3, <2>4, <2>5, <2>6 DEF ReadyInv
<1> QED
  BY <1>1, <1>2, <1>3, <1>4, <1>5 DEF DescriptorInv

LEMMA CloseStepKeeps == ASSUME CountInv, CloseStep, DescriptorInv PROVE DescriptorInv'
<1> USE ConstantsAssumption DEF ConstantsAssumption
<1> USE DEF CloseStep, Unlock, Broadcast, StartClose, CloseSignal, CloseLock, CloseDone,
            Join, config, dataVars, xferVars, Goto, At, lockVars, Pending, ClearPipe,
            Loopers, Procs
<1>0. TypeOK /\ LockInv /\ FdInv /\ ArrayInv /\ ReadyInv
  BY DEF DescriptorInv
<1>1. TypeOK'
  <2>1. \E step \in {"idle", "close", "lock", "closed", "unlock", "broadcast", "join",
                     "joined"} : pc' = [pc EXCEPT ![Closer] = step]
    OBVIOUS
  <2>2. /\ \A u \in Users : pc'[u] \in Steps \cup {"idle", "driver", "undo"}
        /\ pc'[EventThread] \in Steps \cup {"exited"}
        /\ pc'[Closer] \in {"idle", "close", "lock", "closed", "unlock", "broadcast",
                            "join", "joined"}
    <3> HIDE DEF CloseStep
    <3> QED
      BY <1>0, <2>1 DEF TypeOK, LockInv
  <2>3. /\ events_lock' \in Procs \cup {None}
        /\ event_handler_active' \in {0, 1} /\ pipe' \in {0, 1}
        /\ waiting' \subseteq waiting
    BY <1>0 DEF TypeOK
  <2>4. device_close' \in Nat
    BY <1>0 DEF TypeOK, CountInv
  <2>5. completed' \in [Loopers -> {0, 1}]
    BY <1>0 DEF TypeOK
  <2>6. UNCHANGED <<waiters_lock, modified, ipollfds, pollfds, revents, xferVars>>
    OBVIOUS
  <2> HIDE DEF CloseStep
  <2> QED
    BY <1>0, <2>2, <2>3, <2>4, <2>5, <2>6 DEF TypeOK
<1>2. LockInv'
  BY <1>0 DEF LockInv, Handling, Steps, AllSteps
<1>3. FdInv'
  BY <1>0 DEF TypeOK, LockInv, FdInv, NoFd
<1>4. ArrayInv'
  BY <1>0 DEF ArrayInv
<1>5. ReadyInv'
  BY <1>0 DEF TypeOK, LockInv, FdInv, ReadyInv, Handling
<1> QED
  BY <1>1, <1>2, <1>3, <1>4, <1>5 DEF DescriptorInv

LEMMA DescriptorInvStep == CountInv /\ DescriptorInv /\ [Next]_vars => DescriptorInv'
<1> SUFFICES ASSUME CountInv, DescriptorInv, [Next]_vars PROVE DescriptorInv'
  OBVIOUS
<1>1. ASSUME NEW p \in Loopers, Step(p) PROVE DescriptorInv'
  BY <1>1, WaitStepKeeps, LockStepKeeps, PollStepKeeps, LockedStep, BackendFoundStep
     DEF Step, WaitStep, LockStep, PollStep
<1>2. ASSUME NEW u \in Users, Submit(u) \/ Submission(u) \/ DriverDone(u)
      PROVE  DescriptorInv'
  BY <1>2, SubmitStep, SubmitAcceptedStep, SubmitRejectedStep, SubmitUndoneStep,
     DriverDoneStep DEF Submission
<1>3. ASSUME StartClose \/ Closing PROVE DescriptorInv'
  BY <1>3, CloseStepKeeps DEF Closing, CloseStep
<1>4. ASSUME TimesOut PROVE DescriptorInv'
  BY <1>4, WaitStepKeeps, LockStepKeeps DEF TimesOut, WaitStep, LockStep
<1>5. CASE UNCHANGED vars
  BY <1>5 DEF vars, config, lockVars, dataVars, xferVars, DescriptorInv, TypeOK, LockInv,
              FdInv, ArrayInv, ReadyInv
<1> QED
  BY <1>1, <1>2, <1>3, <1>4, <1>5 DEF Next

(* For any number of threads and descriptors: as long as the driver refuses *)
(* no submission, the thread that handles events polls open descriptors     *)
(* only, and completes no transfer that the driver still has.               *)
THEOREM EventDescriptorsSound == Spec => []DescriptorsSound
<1>1. Init => CountInv
  BY ConstantsAssumption DEF ConstantsAssumption, Init, CountInv, Procs
<1>2. DescriptorInv => DescriptorsSound
  BY DEF DescriptorInv, DescriptorsSound, PolledOpen, NotEarly, ReadyInv, At
<1> QED
  BY <1>1, <1>2, CountInvStep, DescriptorInvInit, DescriptorInvStep, PTL DEF Spec

-----------------------------------------------------------------------------
(* The WinUSB backend: the invariant                                         *)

HandleType ==
    [claimed : SUBSET Ifaces, file : [Ifaces -> {"none", "open", "flag"}],
     api : [Ifaces -> {"none", "valid"}], eps : [Ifaces -> SUBSET AllEndpoints],
     autos : [Ifaces -> Nat], files : [Ifaces -> Nat], apis : [Ifaces -> Nat],
     lost : [Ifaces -> Nat], alt : [Ifaces -> Nat], found : [Ifaces -> SUBSET Transfers],
     by : [Ifaces -> {"nobody", "app", "auto"}], mixed : SUBSET Ifaces, failed : SUBSET Ifaces,
     refused : SUBSET Ifaces, crossed : SUBSET Ifaces]
XferType ==
    [st : {"idle", "find", "claim", "drive", "call", "flying", "ended"},
     kind : {"none", "control", "bulk", "iso"},
     req : {"none", "vendor", "set same", "set other", "describe", "report"},
     tries : SUBSET [pass : 0 .. 2, iface : Ifaces], iface : Ifaces \cup {Unknown},
     handle : {"none", "valid"}, ep : AllEndpoints \cup {Unknown}, num : Ifaces, buf : BOOLEAN, fds : Nat, over : Nat]
SetterType ==
    {NoSetter} \cup {u \in [st : {"forget", "drive", "assign"}, iface : Ifaces, alt : Nat] :
                       u.alt \in DOMAIN device.eps[u.iface]}

\* What a claimed interface has, and who claimed it
ClaimedGood(s, i) ==
    /\ s.api[i] = "valid" /\ s.by[i] # "nobody"
    /\ Driver(i) = "hid" => s.file[i] = "flag"
    /\ s.autos[i] > 0 => s.by[i] = "auto" \/ i \in s.mixed
\* What Windows has open for an interface
Open1(s, i) == IF s.file[i] = "open" THEN 1 ELSE 0
Valid1(s, i) == IF s.api[i] = "valid" THEN 1 ELSE 0
AccountGood(s, live, i) ==
    /\ s.files[i] + s.apis[i] = s.lost[i] + Open1(s, i) + Valid1(s, i)
    /\ s.files[i] >= Open1(s, i) /\ s.apis[i] >= Valid1(s, i)
    /\ s.lost[i] > 0 => i \in s.failed \/ ~live \/ (~device.composite /\ i = 0)
\* Which handles an interface can have: files come with the open and stay.
DriverGood(s, live, i) ==
    /\ s.file[i] = "open" => Driver(i) = "winusb" /\ device.path[i]
    /\ s.file[i] = "flag" => Driver(i) = "hid"
    /\ s.api[i] = "valid" => Driver(i) \in {"winusb", "hid"}
    /\ s.api[i] = "valid" /\ Driver(i) = "winusb" /\ device.composite => device.path[i]
    /\ live /\ device.path[i] /\ Driver(i) = "winusb" => s.file[i] = "open"
    /\ live /\ device.path[i] /\ Driver(i) = "hid" => s.api[i] = "valid"
\* An interface with a driver handle that is not claimed had a claim that
\* failed half-way, or is the first one of a device with one driver.
UnclaimedGood(s, i) ==
    Driver(i) = "winusb" /\ s.api[i] = "valid" /\ i \notin s.claimed =>
        i \in s.failed \/ (~device.composite /\ i = 0)
IfaceGood(s, live, i) ==
    /\ i \in s.claimed => ClaimedGood(s, i)
    /\ AccountGood(s, live, i) /\ DriverGood(s, live, i)
HandleGood(s, live) ==
    s \in HandleType /\ \A i \in Ifaces : IfaceGood(s, live, i) /\ UnclaimedGood(s, i)

\* Nothing is claimed or open.
NothingOpen(s) ==
    /\ s.claimed = {} /\ \A i \in Ifaces : s.file[i] = "none" /\ s.api[i] = "none"

\* An interface that has had a driver handle, on which pipes are used
PipeOn(i) ==
    \/ Driver(i) = "hid"
    \/ Driver(i) = "winusb" /\ (device.composite => device.path[i])

\* A transfer on its way through the steps of a submission and of its end
XferGood(x) ==
    /\ x.fds = x.over + (IF x.st = "idle" THEN 0 ELSE 1)
    /\ x.st = "flying" /\ Driver(x.num) = "hid" => x.buf
    /\ x.buf /\ x.st \notin {"flying", "ended"} => x.over > 0
    /\ x.st \in {"find", "claim"} => x.kind = "control"
    /\ x.st \in {"find", "claim", "drive", "call"} /\ x.kind = "control" => x.tries # {}
    /\ x.st \in {"drive", "call"} => x.iface # Unknown
    /\ x.st = "idle" => x.kind = "none"
    /\ x.st \in {"drive", "call"} /\ x.kind # "control" => PipeOn(x.iface)
    /\ x.st \in {"flying", "ended"} /\ x.kind # "control" => PipeOn(x.num)

XfersGood(f) == f \in [Transfers -> XferType] /\ \A t \in Transfers : XferGood(f[t])

\* The transfers that an interface was counted for, or that found it claimed
Counts(x, i) == \/ x.st \in {"drive", "call"} /\ x.kind = "control" /\ x.iface = i
                \/ x.st \in {"flying", "ended"} /\ x.num = i
ClaimantsOf(f, i) == {t \in Transfers : Counts(f[t], i)}
AutosGood(s, f) ==
    \A i \in Ifaces : i \notin s.failed => s.autos[i] <= Cardinality(ClaimantsOf(f, i))

\* Before the open, and after the close
ClosedGoodState(live, s, f, u, c) ==
    /\ ~live => /\ NothingOpen(s) /\ u = NoSetter
                /\ \A t \in Transfers : f[t].st = "idle"
    /\ c = 0 => ~live /\ s = NoHandle

StateGood(live, s, f, u, ex, c) ==
    /\ live \in BOOLEAN /\ ex \in BOOLEAN /\ c \in 0 .. MaxCalls /\ u \in SetterType
    /\ HandleGood(s, live) /\ XfersGood(f) /\ AutosGood(s, f)
    /\ ClosedGoodState(live, s, f, u, c)
    /\ device.composite /\ device.cancels => ex
HandleInv == device \in Devices /\ StateGood(opened, h, xfer, setter, cancelEx, calls)

-----------------------------------------------------------------------------
(* What Windows and libusb keep of an interface                              *)

LEMMA DeviceIs ==
    ASSUME device \in Devices
    PROVE  /\ Ifaces \subseteq Nat /\ 0 \in Ifaces /\ -1 \notin Nat
           /\ device.composite \in BOOLEAN /\ device.iso \in BOOLEAN /\ device.cancels \in BOOLEAN
           /\ device.path \in [Ifaces -> BOOLEAN]
           /\ \A i \in Ifaces : /\ Driver(i) \in {"winusb", "hid", "none"}
                                /\ DOMAIN device.eps[i] \subseteq Nat /\ 0 \in DOMAIN device.eps[i]
                                /\ \A a \in DOMAIN device.eps[i] : device.eps[i][a] \subseteq AllEndpoints
           /\ ~device.composite => \A i \in Ifaces :
                 Driver(i) = Driver(0) /\ ((device.path[i] /\ Driver(i) = "winusb") => i = 0)
           /\ IsFiniteSet(Transfers) /\ MaxCalls \in Nat \ {0}
<1>1. ASSUME NEW i \in Ifaces, NEW a \in DOMAIN device.eps[i]
      PROVE  device.eps[i][a] \subseteq AllEndpoints
  BY <1>1 DEF AllEndpoints, Endpoints
<1>2. /\ DOMAIN device.driver \subseteq Nat /\ 0 \in DOMAIN device.driver
      /\ device.driver \in [DOMAIN device.driver -> {"winusb", "hid", "none"}]
      /\ device.path \in [DOMAIN device.driver -> BOOLEAN]
      /\ device.composite \in BOOLEAN /\ device.iso \in BOOLEAN /\ device.cancels \in BOOLEAN
      /\ \A i \in DOMAIN device.driver :
              /\ DOMAIN device.eps[i] \subseteq Nat /\ 0 \in DOMAIN device.eps[i]
              /\ ~device.composite => device.driver[i] = device.driver[0]
              /\ (~device.composite /\ device.path[i] /\ device.driver[i] = "winusb") => i = 0
  BY HandleAssumption
<1>3. IsFiniteSet(Transfers) /\ MaxCalls \in Nat \ {0}
  BY HandleAssumption
<1>4. -1 \notin Nat
  OBVIOUS
<1>5. Ifaces = DOMAIN device.driver /\ \A i : Driver(i) = device.driver[i]
  BY DEF Ifaces, Driver
<1>6. ASSUME ~device.composite, NEW i \in Ifaces
      PROVE  Driver(i) = Driver(0) /\ ((device.path[i] /\ Driver(i) = "winusb") => i = 0)
  BY <1>2, <1>5, <1>6
<1>7. \A i \in Ifaces : /\ Driver(i) \in {"winusb", "hid", "none"}
                        /\ DOMAIN device.eps[i] \subseteq Nat /\ 0 \in DOMAIN device.eps[i]
                        /\ \A a \in DOMAIN device.eps[i] : device.eps[i][a] \subseteq AllEndpoints
  BY <1>1, <1>2, <1>5
<1>8. Ifaces \subseteq Nat /\ 0 \in Ifaces /\ device.path \in [Ifaces -> BOOLEAN]
  BY <1>2, <1>5
<1> QED
  BY <1>2, <1>3, <1>4, <1>6, <1>7, <1>8

\* Two records that agree about an interface
SameAt(s, r, i) ==
    /\ (i \in s.claimed <=> i \in r.claimed) /\ (i \in s.mixed <=> i \in r.mixed)
    /\ (i \in s.failed <=> i \in r.failed)
    /\ s.file[i] = r.file[i] /\ s.api[i] = r.api[i]
    /\ s.autos[i] = r.autos[i] /\ s.files[i] = r.files[i] /\ s.apis[i] = r.apis[i]
    /\ s.lost[i] = r.lost[i] /\ s.by[i] = r.by[i]

LEMMA SameGood ==
    ASSUME NEW s, NEW r, NEW i, NEW live, SameAt(s, r, i)
    PROVE  /\ IfaceGood(s, live, i) => IfaceGood(r, live, i)
           /\ UnclaimedGood(s, i) => UnclaimedGood(r, i)
<1>1. i \in s.claimed /\ ClaimedGood(s, i) => ClaimedGood(r, i)
  BY DEF SameAt, ClaimedGood
<1>3. AccountGood(s, live, i) => AccountGood(r, live, i)
  BY DEF SameAt, AccountGood, Open1, Valid1
<1>4. DriverGood(s, live, i) => DriverGood(r, live, i)
  BY DEF SameAt, DriverGood
<1>5. (i \in s.claimed <=> i \in r.claimed) /\ (UnclaimedGood(s, i) => UnclaimedGood(r, i))
  BY DEF SameAt, UnclaimedGood
<1> QED
  BY <1>1, <1>3, <1>4, <1>5 DEF IfaceGood

\* What claims leave alone but for the claim itself
KeepsClaims(s, r) ==
    /\ r.claimed = s.claimed /\ r.autos = s.autos /\ r.by = s.by /\ r.mixed = s.mixed
    /\ r.failed = s.failed /\ r.eps = s.eps /\ r.refused = s.refused
    /\ r.crossed = s.crossed /\ r.found = s.found
KeepsHandles(s, r) ==
    r.file = s.file /\ r.api = s.api /\ r.files = s.files /\ r.apis = s.apis /\ r.lost = s.lost

LEMMA TakesIs ==
    ASSUME NEW s \in HandleType, NEW i \in Ifaces, NEW r, r = Takes(s, i)
    PROVE  /\ r \in HandleType /\ KeepsClaims(s, r) /\ r.file = s.file /\ r.files = s.files
           /\ r.api[i] = "valid" /\ r.apis[i] = s.apis[i] + 1
           /\ r.lost[i] = s.lost[i] + Valid1(s, i)
           /\ \A j \in Ifaces \ {i} : SameAt(s, r, j)
<1>a. s.api \in [Ifaces -> {"none", "valid"}] /\ s.apis \in [Ifaces -> Nat] /\ s.lost \in [Ifaces -> Nat]
      /\ s.alt \in [Ifaces -> Nat]
  BY DEF HandleType
<1>b. KeepsClaims(s, r) /\ r.file = s.file /\ r.files = s.files
  BY DEF HandleType, Takes, KeepsClaims
<1>c. /\ r.api \in [Ifaces -> {"none", "valid"}] /\ r.apis \in [Ifaces -> Nat]
      /\ r.lost \in [Ifaces -> Nat] /\ r.alt \in [Ifaces -> Nat]
  BY <1>a DEF HandleType, Takes
<1>d. r \in HandleType
  BY <1>c DEF HandleType, Takes
<1>1. r \in HandleType /\ KeepsClaims(s, r) /\ r.file = s.file /\ r.files = s.files
  BY <1>b, <1>d
<1>2. /\ r.api = [s.api EXCEPT ![i] = "valid"] /\ r.apis = [s.apis EXCEPT ![i] = @ + 1]
      /\ r.lost = [s.lost EXCEPT ![i] = IF s.api[i] = "valid" THEN @ + 1 ELSE @]
  BY DEF HandleType, Takes
<1>3. s.api \in [Ifaces -> {"none", "valid"}] /\ s.apis \in [Ifaces -> Nat] /\ s.lost \in [Ifaces -> Nat]
  BY DEF HandleType
<1>4. ASSUME NEW j \in Ifaces \ {i}
      PROVE  r.api[j] = s.api[j] /\ r.apis[j] = s.apis[j] /\ r.lost[j] = s.lost[j]
  BY <1>2, <1>3
<1>5. \A j \in Ifaces \ {i} : SameAt(s, r, j)
  BY <1>1, <1>4 DEF KeepsClaims, SameAt
<1>6. r.lost[i] = IF s.api[i] = "valid" THEN s.lost[i] + 1 ELSE s.lost[i]
  BY <1>2, <1>3
<1>7. s.lost[i] \in Nat
  BY <1>3
<1>8. r.lost[i] = s.lost[i] + Valid1(s, i)
  BY <1>6, <1>7 DEF Valid1
<1>9. r.api[i] = "valid" /\ r.apis[i] = s.apis[i] + 1
  BY <1>2, <1>3
<1> QED
  BY <1>1, <1>5, <1>8, <1>9

LEMMA LosesIs ==
    ASSUME NEW s \in HandleType, NEW i \in Ifaces, NEW r, r = Loses(s, i)
    PROVE  /\ r \in HandleType /\ KeepsClaims(s, r) /\ r.file = s.file /\ r.files = s.files
           /\ r.api[i] = "none" /\ r.apis[i] = s.apis[i]
           /\ r.lost[i] = s.lost[i] + Valid1(s, i)
           /\ \A j \in Ifaces \ {i} : SameAt(s, r, j)
<1>a. s.api \in [Ifaces -> {"none", "valid"}] /\ s.apis \in [Ifaces -> Nat] /\ s.lost \in [Ifaces -> Nat]
  BY DEF HandleType
<1>b. KeepsClaims(s, r) /\ r.file = s.file /\ r.files = s.files
  BY DEF HandleType, Loses, KeepsClaims
<1>c. /\ r.api \in [Ifaces -> {"none", "valid"}] /\ r.apis \in [Ifaces -> Nat]
      /\ r.lost \in [Ifaces -> Nat]
  BY <1>a DEF HandleType, Loses
<1>d. r \in HandleType
  BY <1>c DEF HandleType, Loses
<1>1. r \in HandleType /\ KeepsClaims(s, r) /\ r.file = s.file /\ r.files = s.files
  BY <1>b, <1>d
<1>2. /\ r.api = [s.api EXCEPT ![i] = "none"] /\ r.apis = s.apis
      /\ r.lost = [s.lost EXCEPT ![i] = IF s.api[i] = "valid" THEN @ + 1 ELSE @]
  BY DEF HandleType, Loses
<1>3. s.api \in [Ifaces -> {"none", "valid"}] /\ s.apis \in [Ifaces -> Nat] /\ s.lost \in [Ifaces -> Nat]
  BY DEF HandleType
<1>4. ASSUME NEW j \in Ifaces \ {i}
      PROVE  r.api[j] = s.api[j] /\ r.apis[j] = s.apis[j] /\ r.lost[j] = s.lost[j]
  BY <1>2, <1>3
<1>5. \A j \in Ifaces \ {i} : SameAt(s, r, j)
  BY <1>1, <1>4 DEF KeepsClaims, SameAt
<1>6. r.lost[i] = IF s.api[i] = "valid" THEN s.lost[i] + 1 ELSE s.lost[i]
  BY <1>2, <1>3
<1>7. s.lost[i] \in Nat
  BY <1>3
<1>8. r.lost[i] = s.lost[i] + Valid1(s, i)
  BY <1>6, <1>7 DEF Valid1
<1>9. r.api[i] = "none" /\ r.apis[i] = s.apis[i]
  BY <1>2, <1>3
<1> QED
  BY <1>1, <1>5, <1>8, <1>9
\* All interfaces are good, and those but one have no half-way claims.
GoodBut(s, i) ==
    /\ s \in HandleType /\ \A j \in Ifaces : IfaceGood(s, TRUE, j)
    /\ \A j \in Ifaces \ {i} : UnclaimedGood(s, j)

LEMMA FirstOfIs ==
    ASSUME NEW S \in SUBSET Nat
    PROVE  /\ FirstOf(S) = Unknown <=> S = {}
           /\ S # {} => FirstOf(S) \in S
<1>1. CASE S = {}
  BY <1>1 DEF FirstOf
<1>2. CASE S # {}
  <2>1. PICK m \in S : \A k \in S : m <= k
    BY <1>2, MinExists
  <2>2. FirstOf(S) \in S
    BY <1>2, <2>1 DEF FirstOf
  <2>3. Unknown \notin S
    BY DEF Unknown
  <2> QED
    BY <1>2, <2>2, <2>3
<1> QED
  BY <1>1, <1>2

HasHandle(s, i) == s.api[i] = "valid" /\ Driver(i) # "hid"

\* When a driver handle can be made for an interface
Takeable(s, i) ==
    /\ GoodBut(s, i) /\ UnclaimedGood(s, i) /\ (s.api[i] = "valid" => i \notin s.claimed)
    /\ Driver(i) = "winusb" /\ (device.composite => device.path[i])

\* A driver handle is made for an interface of a WinUSB-like driver.
LEMMA TakesGood ==
    ASSUME NEW s, NEW i \in Ifaces, Takeable(s, i), NEW r, r = Takes(s, i)
    PROVE  GoodBut(r, i) /\ KeepsClaims(s, r) /\ HasHandle(r, i)
<1>a. /\ GoodBut(s, i) /\ UnclaimedGood(s, i) /\ (s.api[i] = "valid" => i \notin s.claimed)
      /\ Driver(i) = "winusb" /\ (device.composite => device.path[i])
  BY DEF Takeable
<1>1. /\ r \in HandleType /\ KeepsClaims(s, r) /\ r.file = s.file /\ r.files = s.files
      /\ r.api[i] = "valid" /\ r.apis[i] = s.apis[i] + 1
      /\ r.lost[i] = s.lost[i] + Valid1(s, i)
      /\ \A j \in Ifaces \ {i} : SameAt(s, r, j)
  BY <1>a, TakesIs DEF GoodBut
<1>2. IfaceGood(s, TRUE, i)
  BY <1>a DEF GoodBut
<1>3. i \in r.claimed => ClaimedGood(r, i)
  BY <1>a, <1>1, <1>2 DEF IfaceGood, ClaimedGood, KeepsClaims
<1>5. DriverGood(r, TRUE, i)
  BY <1>a, <1>1, <1>2 DEF IfaceGood, DriverGood
<1>6. AccountGood(r, TRUE, i)
  <2>1. /\ s.files[i] \in Nat /\ s.apis[i] \in Nat /\ s.lost[i] \in Nat
        /\ Open1(s, i) \in Nat /\ Valid1(s, i) \in Nat
    BY <1>a DEF GoodBut, HandleType, Open1, Valid1
  <2>2. Open1(r, i) = Open1(s, i) /\ Valid1(r, i) = 1
    BY <1>1 DEF Open1, Valid1
  <2>3. AccountGood(s, TRUE, i)
    BY <1>2 DEF IfaceGood
  <2>4. /\ r.files[i] + r.apis[i] = r.lost[i] + Open1(r, i) + Valid1(r, i)
        /\ r.files[i] >= Open1(r, i) /\ r.apis[i] >= Valid1(r, i)
    <3> HIDE DEF Open1, Valid1
    <3> QED
      BY <1>1, <2>1, <2>2, <2>3 DEF AccountGood
  <2>5. s.api[i] = "valid" => i \in s.failed \/ (~device.composite /\ i = 0)
    BY <1>a DEF UnclaimedGood
  <2>6. s.lost[i] > 0 => i \in s.failed \/ (~device.composite /\ i = 0)
    BY <2>3 DEF AccountGood
  <2>7. r.lost[i] > 0 => s.lost[i] > 0 \/ s.api[i] = "valid"
    BY <1>1, <2>1 DEF Valid1
  <2>8. r.failed = s.failed
    BY <1>1 DEF KeepsClaims
  <2> QED
    BY <2>4, <2>5, <2>6, <2>7, <2>8 DEF AccountGood
<1>7. IfaceGood(r, TRUE, i)
  BY <1>3, <1>5, <1>6 DEF IfaceGood
<1>8. ASSUME NEW j \in Ifaces \ {i}
      PROVE  IfaceGood(r, TRUE, j) /\ UnclaimedGood(r, j)
  <2>1. IfaceGood(s, TRUE, j) /\ UnclaimedGood(s, j) /\ SameAt(s, r, j)
    BY <1>a, <1>1 DEF GoodBut
  <2> QED
    BY <2>1, SameGood
<1> QED
  BY <1>a, <1>1, <1>7, <1>8 DEF GoodBut, HasHandle

\* A driver handle is lost.
LEMMA LosesGood ==
    ASSUME NEW s, NEW i \in Ifaces, GoodBut(s, i), UnclaimedGood(s, i), i \notin s.claimed,
           Driver(i) = "winusb", NEW r, r = Loses(s, i)
    PROVE  GoodBut(r, i) /\ KeepsClaims(s, r) /\ UnclaimedGood(r, i)
<1>1. /\ r \in HandleType /\ KeepsClaims(s, r) /\ r.file = s.file /\ r.files = s.files
      /\ r.api[i] = "none" /\ r.apis[i] = s.apis[i]
      /\ r.lost[i] = s.lost[i] + Valid1(s, i)
      /\ \A j \in Ifaces \ {i} : SameAt(s, r, j)
  BY LosesIs DEF GoodBut
<1>2. IfaceGood(s, TRUE, i)
  BY DEF GoodBut
<1>3. i \notin r.claimed
  BY <1>1 DEF KeepsClaims
<1>5. DriverGood(r, TRUE, i)
  BY <1>1, <1>2 DEF IfaceGood, DriverGood
<1>6. AccountGood(r, TRUE, i)
  <2>1. /\ s.files[i] \in Nat /\ s.apis[i] \in Nat /\ s.lost[i] \in Nat
        /\ Open1(s, i) \in Nat /\ Valid1(s, i) \in Nat
    BY DEF GoodBut, HandleType, Open1, Valid1
  <2>2. Open1(r, i) = Open1(s, i) /\ Valid1(r, i) = 0
    BY <1>1 DEF Open1, Valid1
  <2>3. AccountGood(s, TRUE, i)
    BY <1>2 DEF IfaceGood
  <2>4. /\ r.files[i] + r.apis[i] = r.lost[i] + Open1(r, i) + Valid1(r, i)
        /\ r.files[i] >= Open1(r, i) /\ r.apis[i] >= Valid1(r, i)
    <3> HIDE DEF Open1, Valid1
    <3> QED
      BY <1>1, <2>1, <2>2, <2>3 DEF AccountGood
  <2>5. s.api[i] = "valid" => i \in s.failed \/ (~device.composite /\ i = 0)
    BY DEF UnclaimedGood
  <2>6. s.lost[i] > 0 => i \in s.failed \/ (~device.composite /\ i = 0)
    BY <2>3 DEF AccountGood
  <2>7. r.lost[i] > 0 => s.lost[i] > 0 \/ s.api[i] = "valid"
    BY <1>1, <2>1 DEF Valid1
  <2>8. r.failed = s.failed
    BY <1>1 DEF KeepsClaims
  <2> QED
    BY <2>4, <2>5, <2>6, <2>7, <2>8 DEF AccountGood
<1>7. IfaceGood(r, TRUE, i)
  BY <1>3, <1>5, <1>6 DEF IfaceGood
<1>8. ASSUME NEW j \in Ifaces \ {i}
      PROVE  IfaceGood(r, TRUE, j) /\ UnclaimedGood(r, j)
  <2>1. IfaceGood(s, TRUE, j) /\ UnclaimedGood(s, j) /\ SameAt(s, r, j)
    BY <1>1 DEF GoodBut
  <2> QED
    BY <2>1, SameGood
<1>9. UnclaimedGood(r, i)
  BY <1>1 DEF UnclaimedGood
<1> QED
  BY <1>1, <1>7, <1>8, <1>9 DEF GoodBut

-----------------------------------------------------------------------------
(* Claiming                                                                  *)

\* How a claim of the driver's can end
HalfClaimed(s, i, e) ==
    /\ GoodBut(e.h, i) /\ KeepsClaims(s, e.h)
    /\ e.ret # "ok" => UnclaimedGood(e.h, i)
    /\ e.ret = "ok" => /\ e.h.api[i] = "valid"
                       /\ Driver(i) = "hid" => e.h.file[i] = "flag"

LEMMA AllGood ==
    ASSUME NEW s, NEW i \in Ifaces
    PROVE  HandleGood(s, TRUE) <=> GoodBut(s, i) /\ UnclaimedGood(s, i)
BY DEF HandleGood, GoodBut

LEMMA Stays ==
    ASSUME NEW s, NEW i \in Ifaces, HandleGood(s, TRUE), NEW r, r # "ok", NEW e, e = Ends(r, s)
    PROVE  HalfClaimed(s, i, e)
BY AllGood DEF HalfClaimed, Ends, KeepsClaims

LEMMA InitializedGood ==
    ASSUME NEW s, NEW i \in Ifaces, HandleGood(s, TRUE), i \notin s.claimed,
           Driver(i) = "winusb", device.composite => device.path[i],
           NEW e, e = Ends("ok", Takes(s, i)) \/ \E x \in {"access", "no device", "not found", "busy"} :
                                                   e = Ends(x, Loses(s, i))
    PROVE  HalfClaimed(s, i, e)
<1>1. GoodBut(s, i) /\ UnclaimedGood(s, i)
  BY AllGood
<1>2. CASE e = Ends("ok", Takes(s, i))
  <2>1. e.ret = "ok" /\ e.h = Takes(s, i)
    BY <1>2 DEF Ends
  <2>2. Takeable(s, i)
    BY <1>1 DEF Takeable
  <2>3. GoodBut(e.h, i) /\ KeepsClaims(s, e.h) /\ HasHandle(e.h, i)
    BY <2>1, <2>2, TakesGood
  <2> QED
    BY <1>1, <2>1, <2>3 DEF HalfClaimed, HasHandle
<1>3. CASE \E x \in {"access", "no device", "not found", "busy"} : e = Ends(x, Loses(s, i))
  <2>0. PICK x \in {"access", "no device", "not found", "busy"} : e = Ends(x, Loses(s, i))
    BY <1>3
  <2>1. e.ret # "ok" /\ e.h = Loses(s, i)
    BY <2>0 DEF Ends
  <2>2. GoodBut(e.h, i) /\ KeepsClaims(s, e.h) /\ UnclaimedGood(e.h, i)
    BY <1>1, <2>1, LosesGood
  <2> QED
    BY <2>1, <2>2 DEF HalfClaimed
<1> QED
  BY <1>2, <1>3

\* winusbx_claim_interface
LEMMA WinusbClaimGood ==
    ASSUME device \in Devices, NEW s, NEW i \in Ifaces, HandleGood(s, TRUE), i \notin s.claimed,
           Driver(i) = "winusb", NEW e \in WinusbClaim(s, i)
    PROVE  HalfClaimed(s, i, e)
<1>1. CASE device.composite \/ i = 0
  <2>1. CASE s.file[i] # "open"
    <3>1. e = Ends("not found", s)
      BY <1>1, <2>1 DEF WinusbClaim
    <3> QED
      BY <3>1, Stays
  <2>2. CASE s.file[i] = "open"
    <3>1. device.path[i]
      BY <2>2 DEF HandleGood, IfaceGood, DriverGood
    <3>2. e \in Initialized(s, i)
      BY <1>1, <2>2 DEF WinusbClaim
    <3>3. \/ e = Ends("ok", Takes(s, i))
          \/ \E x \in {"access", "no device", "not found", "busy"} : e = Ends(x, Loses(s, i))
      BY <3>2 DEF Initialized
    <3> QED
      BY <3>1, <3>3, InitializedGood
  <2> QED
    BY <2>1, <2>2
<1>2. CASE ~(device.composite \/ i = 0)
  <2> DEFINE first == IF s.api[0] = "valid" THEN {Ends("ok", s)}
                      ELSE {Ends("ok", Takes(s, 0)), Ends("access", s)}
             ends(f) == IF f.ret # "ok" THEN {f}
                        ELSE {Ends("ok", Takes(f.h, i)), Ends("not found", Loses(f.h, i)),
                              Ends("busy", Loses(f.h, i))}
  <2>1. WinusbClaim(s, i) = UNION {ends(f) : f \in first}
    BY <1>2 DEF WinusbClaim
  <2>2. PICK f \in first : e \in ends(f)
    BY <2>1
  <2>3. 0 \in Ifaces /\ Driver(0) = "winusb" /\ 0 # i
    BY <1>2, DeviceIs
  <2>4. CASE f = Ends("access", s)
    <3>1. e = Ends("access", s)
      BY <2>2, <2>4 DEF Ends
    <3> QED
      BY <3>1, Stays
  <2>5. CASE f.ret = "ok" /\ HandleGood(f.h, TRUE) /\ KeepsClaims(s, f.h)
    <3>1. \/ e = Ends("ok", Takes(f.h, i))
          \/ \E x \in {"access", "no device", "not found", "busy"} : e = Ends(x, Loses(f.h, i))
      BY <2>2, <2>5
    <3>2. i \notin f.h.claimed
      BY <2>5 DEF KeepsClaims
    <3>3. HalfClaimed(f.h, i, e)
      BY <1>2, <2>5, <3>1, <3>2, InitializedGood
    <3> QED
      BY <2>5, <3>3 DEF HalfClaimed, KeepsClaims
  <2>6. CASE f = Ends("ok", s)
    BY <2>5, <2>6 DEF Ends, KeepsClaims
  <2>7. CASE f = Ends("ok", Takes(s, 0)) /\ s.api[0] # "valid"
    <3>1. f.ret = "ok" /\ f.h = Takes(s, 0)
      BY <2>7 DEF Ends
    <3>2. GoodBut(s, 0) /\ UnclaimedGood(s, 0)
      BY <2>3, AllGood
    <3>5. Takeable(s, 0)
      BY <1>2, <2>3, <2>7, <3>2 DEF Takeable
    <3>3. GoodBut(f.h, 0) /\ KeepsClaims(s, f.h)
      BY <2>3, <3>1, <3>5, TakesGood
    <3>4. UnclaimedGood(f.h, 0)
      BY <1>2 DEF UnclaimedGood
    <3> QED
      BY <2>3, <2>5, <3>1, <3>3, <3>4, AllGood
  <2> QED
    BY <2>2, <2>4, <2>6, <2>7
<1> QED
  BY <1>1, <1>2

\* hid_claim_interface
LEMMA HidClaimGood ==
    ASSUME NEW s, NEW i \in Ifaces, HandleGood(s, TRUE), i \notin s.claimed,
           Driver(i) = "hid", NEW e \in HidClaim(s, i)
    PROVE  HalfClaimed(s, i, e)
<1>1. CASE e = Ends("not found", s) \/ e = Ends("busy", s)
  BY <1>1, Stays
<1>2. CASE device.path[i] /\ e = Ends("ok", [s EXCEPT !.file[i] = "flag"])
  <2> DEFINE r == [s EXCEPT !.file[i] = "flag"]
  <2>1. e.ret = "ok" /\ e.h = r
    BY <1>2 DEF Ends
  <2>2. s \in HandleType /\ IfaceGood(s, TRUE, i)
    BY DEF HandleGood
  <2>3. s.file \in [Ifaces -> {"none", "open", "flag"}]
    BY <2>2 DEF HandleType
  <2>4. r.file \in [Ifaces -> {"none", "open", "flag"}]
    BY <2>2, <2>3 DEF HandleType
  <2>5. r \in HandleType
    BY <2>2, <2>4 DEF HandleType
  <2>6. /\ KeepsClaims(s, r) /\ r.api = s.api /\ r.files = s.files /\ r.apis = s.apis
        /\ r.lost = s.lost /\ r.file = [s.file EXCEPT ![i] = "flag"]
    BY <2>2 DEF HandleType, KeepsClaims
  <2> HIDE DEF r
  <2>7. r.file[i] = "flag" /\ \A j \in Ifaces \ {i} : r.file[j] = s.file[j]
    BY <2>3, <2>6
  <2>8. \A j \in Ifaces \ {i} : SameAt(s, r, j)
    BY <2>6, <2>7 DEF SameAt, KeepsClaims
  <2>9. \A j \in Ifaces \ {i} : IfaceGood(r, TRUE, j) /\ UnclaimedGood(r, j)
    BY <2>8, SameGood DEF HandleGood
  <2>10. s.api[i] = "valid" /\ s.file[i] # "open"
    BY <1>2, <2>2 DEF IfaceGood, DriverGood
  <2>11. Open1(r, i) = Open1(s, i) /\ Valid1(r, i) = Valid1(s, i)
    BY <2>6, <2>7, <2>10 DEF Open1, Valid1
  <2>12. AccountGood(r, TRUE, i)
    BY <2>2, <2>6, <2>11 DEF IfaceGood, AccountGood, KeepsClaims
  <2>13. i \notin r.claimed
    BY <2>6 DEF KeepsClaims
  <2>14. DriverGood(r, TRUE, i)
    BY <2>6, <2>7, <2>10 DEF DriverGood
  <2>15. GoodBut(r, i)
    BY <2>5, <2>9, <2>12, <2>13, <2>14 DEF GoodBut, IfaceGood
  <2> QED
    BY <2>1, <2>6, <2>7, <2>10, <2>15 DEF HalfClaimed
<1>3. \/ e = Ends("not found", s) \/ e = Ends("busy", s)
      \/ device.path[i] /\ e = Ends("ok", [s EXCEPT !.file[i] = "flag"])
  BY DEF HidClaim
<1> QED
  BY <1>1, <1>2, <1>3

LEMMA DriverClaimGood ==
    ASSUME device \in Devices, NEW s, NEW i \in Ifaces, HandleGood(s, TRUE), i \notin s.claimed,
           NEW e \in DriverClaim(s, i)
    PROVE  HalfClaimed(s, i, e)
<1>1. CASE Driver(i) = "winusb"
  BY <1>1, WinusbClaimGood DEF DriverClaim
<1>2. CASE Driver(i) = "hid"
  BY <1>2, HidClaimGood DEF DriverClaim
<1>3. CASE Driver(i) \notin {"winusb", "hid"}
  <2>1. e = Ends("not supported", s)
    BY <1>3 DEF DriverClaim
  <2> QED
    BY <2>1, Stays
<1> QED
  BY <1>1, <1>2, <1>3

\* Only the endpoints known of an interface change, or that they are not known.
Reassigned(s, r, i) ==
    /\ r.claimed = s.claimed /\ r.autos = s.autos /\ r.by = s.by /\ r.mixed = s.mixed
    /\ KeepsHandles(s, r) /\ s.failed \subseteq r.failed /\ r.failed \subseteq s.failed \cup {i}
    /\ r.alt = s.alt /\ r.refused = s.refused /\ r.crossed = s.crossed /\ r.found = s.found
    /\ \A j \in Ifaces \ {i} : r.eps[j] = s.eps[j]

LEMMA ReassignedGood ==
    ASSUME NEW s, NEW i \in Ifaces, GoodBut(s, i), NEW r \in HandleType, Reassigned(s, r, i)
    PROVE  GoodBut(r, i) /\ (UnclaimedGood(s, i) \/ i \in r.failed => UnclaimedGood(r, i))
<1>1. \A j \in Ifaces \ {i} : SameAt(s, r, j)
  BY DEF Reassigned, KeepsHandles, SameAt
<1>2. \A j \in Ifaces \ {i} : IfaceGood(r, TRUE, j) /\ UnclaimedGood(r, j)
  BY <1>1, SameGood DEF GoodBut
<1>3. IfaceGood(s, TRUE, i)
  BY DEF GoodBut
<1>4. i \in r.claimed => ClaimedGood(r, i)
  BY <1>3 DEF IfaceGood, ClaimedGood, Reassigned, KeepsHandles
<1>5. Open1(r, i) = Open1(s, i) /\ Valid1(r, i) = Valid1(s, i)
  BY DEF Reassigned, KeepsHandles, Open1, Valid1
<1>6. AccountGood(r, TRUE, i)
  BY <1>3, <1>5 DEF IfaceGood, AccountGood, Reassigned, KeepsHandles
<1>7. DriverGood(r, TRUE, i)
  BY <1>3 DEF IfaceGood, DriverGood, Reassigned, KeepsHandles
<1>8. UnclaimedGood(s, i) \/ i \in r.failed => UnclaimedGood(r, i)
  BY DEF UnclaimedGood, Reassigned, KeepsHandles
<1> QED
  BY <1>2, <1>4, <1>6, <1>7, <1>8 DEF GoodBut, IfaceGood

\* The endpoints of an interface are changed.
WithEndpoints(s, i, S) == [s EXCEPT !.eps[i] = S]

LEMMA ForgetGood ==
    ASSUME NEW s, NEW i \in Ifaces, GoodBut(s, i), NEW S \in SUBSET AllEndpoints,
           NEW r, r = WithEndpoints(s, i, S)
    PROVE  /\ r \in HandleType /\ Reassigned(s, r, i) /\ r.failed = s.failed /\ r.eps[i] = S
           /\ GoodBut(r, i) /\ (UnclaimedGood(s, i) => UnclaimedGood(r, i))
<1>1. s \in HandleType
  BY DEF GoodBut
<1>2. s.eps \in [Ifaces -> SUBSET AllEndpoints]
  BY <1>1 DEF HandleType
<1>3. r.eps = [s.eps EXCEPT ![i] = S]
  BY <1>1 DEF HandleType, WithEndpoints
<1>4. r.eps \in [Ifaces -> SUBSET AllEndpoints] /\ r.eps[i] = S
  BY <1>2, <1>3
<1>5. r \in HandleType
  BY <1>1, <1>4 DEF HandleType, WithEndpoints
<1>6. /\ r.claimed = s.claimed /\ r.autos = s.autos /\ r.by = s.by /\ r.mixed = s.mixed
      /\ r.failed = s.failed /\ KeepsHandles(s, r)
      /\ r.alt = s.alt /\ r.refused = s.refused /\ r.crossed = s.crossed /\ r.found = s.found
  BY <1>1 DEF HandleType, KeepsHandles, WithEndpoints
<1>7. \A j \in Ifaces \ {i} : r.eps[j] = s.eps[j]
  BY <1>2, <1>3
<1>8. Reassigned(s, r, i)
  BY <1>6, <1>7 DEF Reassigned
<1> QED
  BY <1>4, <1>5, <1>6, <1>8, ReassignedGood

LEMMA FailedGood ==
    ASSUME NEW s, NEW i \in Ifaces, GoodBut(s, i), NEW r, r = [s EXCEPT !.failed = @ \cup {i}]
    PROVE  /\ GoodBut(r, i) /\ UnclaimedGood(r, i) /\ Reassigned(s, r, i) /\ r.eps = s.eps
           /\ r.failed = s.failed \cup {i}
<1>1. s \in HandleType
  BY DEF GoodBut
<1>2. r \in HandleType
  BY <1>1 DEF HandleType
<1>3. /\ r.claimed = s.claimed /\ r.autos = s.autos /\ r.by = s.by /\ r.mixed = s.mixed
      /\ r.failed = s.failed \cup {i} /\ KeepsHandles(s, r) /\ r.eps = s.eps
      /\ r.alt = s.alt /\ r.refused = s.refused /\ r.crossed = s.crossed /\ r.found = s.found
  BY <1>1 DEF HandleType, KeepsHandles
<1>4. Reassigned(s, r, i) /\ i \in r.failed
  BY <1>3 DEF Reassigned
<1> QED
  BY <1>2, <1>3, <1>4, ReassignedGood

LEMMA AssignGood ==
    ASSUME device \in Devices, NEW s, NEW i \in Ifaces, GoodBut(s, i),
           NEW a \in DOMAIN device.eps[i], NEW e \in Assign(s, i, a)
    PROVE  /\ GoodBut(e.h, i) /\ Reassigned(s, e.h, i)
           /\ UnclaimedGood(s, i) \/ e.ret # "ok" => UnclaimedGood(e.h, i)
           /\ e.ret = "ok" => e.h.eps[i] = device.eps[i][a]
           /\ e.ret # "ok" => e.h.eps[i] = s.eps[i] \/ e.h.eps[i] = {}
<1>1. s \in HandleType /\ {} \in SUBSET AllEndpoints
  BY DEF GoodBut
<1>2. device.eps[i][a] \in SUBSET AllEndpoints
  BY DeviceIs
<1>3. CASE e = Ends("io", [s EXCEPT !.failed = @ \cup {i}])
  <2>1. e.ret = "io" /\ e.h = [s EXCEPT !.failed = @ \cup {i}]
    BY <1>3 DEF Ends
  <2> QED
    BY <2>1, FailedGood
<1>4. CASE e = Ends("no memory", [s EXCEPT !.failed = @ \cup {i}, !.eps[i] = {}])
  <2> DEFINE q == [s EXCEPT !.failed = @ \cup {i}]
             r == [q EXCEPT !.eps[i] = {}]
  <2>1. e.ret = "no memory" /\ e.h = r
    BY <1>4 DEF Ends
  <2>2. /\ GoodBut(q, i) /\ UnclaimedGood(q, i) /\ Reassigned(s, q, i)
        /\ q.failed = s.failed \cup {i}
    BY FailedGood
  <2> HIDE DEF q
  <2>3. /\ Reassigned(q, r, i) /\ r.eps[i] = {} /\ r.failed = q.failed
        /\ GoodBut(r, i) /\ UnclaimedGood(r, i)
    <3> HIDE DEF r
    <3>1. r = WithEndpoints(q, i, {}) /\ {} \in SUBSET AllEndpoints
      BY DEF r, WithEndpoints
    <3> QED
      BY <2>2, <3>1, ForgetGood
  <2> HIDE DEF r
  <2>4. Reassigned(s, r, i)
    BY <2>2, <2>3 DEF Reassigned, KeepsHandles
  <2> QED
    BY <2>1, <2>3, <2>4
<1>5. CASE e = Ends("ok", [s EXCEPT !.eps[i] = device.eps[i][a]])
  <2>1. PICK S \in SUBSET AllEndpoints : S = device.eps[i][a]
    BY <1>2
  <2>2. e.ret = "ok" /\ e.h = WithEndpoints(s, i, S)
    BY <1>5, <2>1 DEF Ends, WithEndpoints
  <2>3. PICK r : r = e.h
    OBVIOUS
  <2>4. /\ Reassigned(s, r, i) /\ r.eps[i] = S
        /\ GoodBut(r, i) /\ (UnclaimedGood(s, i) => UnclaimedGood(r, i))
    BY <2>2, <2>3, ForgetGood
  <2> QED
    BY <2>1, <2>2, <2>3, <2>4
<1> QED
  BY <1>3, <1>4, <1>5 DEF Assign

\* winusb_claim_interface
LEMMA BackendClaimGood ==
    ASSUME device \in Devices, NEW s, NEW i \in Ifaces, HandleGood(s, TRUE), i \notin s.claimed,
           NEW e \in BackendClaim(s, i)
    PROVE  /\ GoodBut(e.h, i) /\ (e.ret # "ok" => UnclaimedGood(e.h, i))
           /\ e.ret = "ok" => /\ e.h.api[i] = "valid"
                              /\ Driver(i) = "hid" => e.h.file[i] = "flag"
           /\ e.h.claimed = s.claimed /\ e.h.autos = s.autos /\ e.h.by = s.by
           /\ e.h.mixed = s.mixed /\ s.failed \subseteq e.h.failed
<1> DEFINE r == [s EXCEPT !.eps[i] = {}]
           ends(f) == IF f.ret = "ok" THEN Assign(f.h, i, 0) ELSE {f}
<1>1. HandleGood(r, TRUE) /\ Reassigned(s, r, i) /\ r.failed = s.failed
  <2> HIDE DEF r
  <2>1. r = WithEndpoints(s, i, {}) /\ {} \in SUBSET AllEndpoints
    BY DEF r, WithEndpoints
  <2>2. GoodBut(s, i) /\ UnclaimedGood(s, i)
    BY AllGood
  <2>3. GoodBut(r, i) /\ UnclaimedGood(r, i) /\ Reassigned(s, r, i) /\ r.failed = s.failed
    BY <2>1, <2>2, ForgetGood
  <2> QED
    BY <2>3, AllGood
<1>2. BackendClaim(s, i) = UNION {ends(f) : f \in DriverClaim(r, i)}
  BY DEF BackendClaim
<1>3. PICK f \in DriverClaim(r, i) : e \in ends(f)
  BY <1>2
<1>4. HalfClaimed(r, i, f)
  BY <1>1, <1>3, DriverClaimGood DEF Reassigned
<1>5. f.h.failed = s.failed /\ f.h.claimed = s.claimed /\ f.h.autos = s.autos /\ f.h.by = s.by
      /\ f.h.mixed = s.mixed
  BY <1>1, <1>4 DEF HalfClaimed, KeepsClaims, Reassigned
<1>6. CASE f.ret # "ok"
  BY <1>3, <1>4, <1>5, <1>6 DEF HalfClaimed
<1>7. CASE f.ret = "ok"
  <2>1. e \in Assign(f.h, i, 0) /\ 0 \in DOMAIN device.eps[i] /\ GoodBut(f.h, i)
    BY <1>3, <1>4, <1>7, DeviceIs DEF HalfClaimed
  <2>2. /\ GoodBut(e.h, i) /\ Reassigned(f.h, e.h, i)
        /\ e.ret # "ok" => UnclaimedGood(e.h, i)
    BY <2>1, AssignGood
  <2>3. e.h.api[i] = "valid" /\ (Driver(i) = "hid" => e.h.file[i] = "flag")
    BY <1>4, <1>7, <2>2 DEF HalfClaimed, Reassigned, KeepsHandles
  <2> QED
    BY <1>5, <2>2, <2>3 DEF Reassigned
<1> QED
  BY <1>6, <1>7

\* An interface becomes or stays claimed.
Marked(s, r, i) ==
    /\ KeepsHandles(s, r) /\ r.autos = s.autos
    /\ r.failed = s.failed /\ r.claimed = s.claimed \cup {i}
    /\ r.mixed \ {i} = s.mixed \ {i}
    /\ \A j \in Ifaces \ {i} : r.by[j] = s.by[j]
    /\ r.by[i] # "nobody" /\ (r.autos[i] > 0 => r.by[i] = "auto" \/ i \in r.mixed)

LEMMA MarkedGood ==
    ASSUME NEW s, NEW i \in Ifaces, GoodBut(s, i), s.api[i] = "valid",
           Driver(i) = "hid" => s.file[i] = "flag", NEW r \in HandleType, Marked(s, r, i)
    PROVE  HandleGood(r, TRUE)
<1>1. \A j \in Ifaces \ {i} : SameAt(s, r, j)
  BY DEF Marked, KeepsHandles, SameAt
<1>2. \A j \in Ifaces \ {i} : IfaceGood(r, TRUE, j) /\ UnclaimedGood(r, j)
  BY <1>1, SameGood DEF GoodBut
<1>3. IfaceGood(s, TRUE, i)
  BY DEF GoodBut
<1>4. r.api[i] = "valid" /\ (Driver(i) = "hid" => r.file[i] = "flag")
  BY DEF Marked, KeepsHandles
<1>5. ClaimedGood(r, i)
  BY <1>4 DEF ClaimedGood, Marked
<1>6. Open1(r, i) = Open1(s, i) /\ Valid1(r, i) = Valid1(s, i)
  BY DEF Marked, KeepsHandles, Open1, Valid1
<1>7. AccountGood(r, TRUE, i)
  BY <1>3, <1>6 DEF IfaceGood, AccountGood, Marked, KeepsHandles
<1>8. DriverGood(r, TRUE, i)
  BY <1>3 DEF IfaceGood, DriverGood, Marked, KeepsHandles
<1>9. UnclaimedGood(r, i)
  BY DEF UnclaimedGood, Marked
<1> QED
  BY <1>2, <1>5, <1>7, <1>8, <1>9 DEF HandleGood, IfaceGood

\* What a claim of libusb's gives
ClaimEnds(s, i, who, e) ==
    /\ HandleGood(e.h, TRUE) /\ e.h.autos = s.autos /\ s.failed \subseteq e.h.failed
    /\ e.ret = "ok" /\ who = "auto" =>
          i \in e.h.claimed /\ (e.h.by[i] = "auto" \/ i \in e.h.mixed)

\* The history of a claim
NotedIs(s, r, i, who) ==
    /\ KeepsHandles(s, r) /\ r.autos = s.autos /\ r.failed = s.failed /\ r.claimed = s.claimed
    /\ r.eps = s.eps /\ r.alt = s.alt /\ r.refused = s.refused /\ r.crossed = s.crossed
    /\ r.found = s.found
    /\ r.mixed \ {i} = s.mixed \ {i} /\ \A j \in Ifaces \ {i} : r.by[j] = s.by[j]
    /\ r.by[i] # "nobody" /\ (r.autos[i] > 0 => r.by[i] = "auto" \/ i \in r.mixed)
    /\ who = "auto" => r.by[i] = "auto" \/ i \in r.mixed

LEMMA NotedGood ==
    ASSUME NEW s \in HandleType, NEW i \in Ifaces, NEW who \in {"app", "auto"},
           NEW r, r = Noted(s, i, who)
    PROVE  r \in HandleType /\ NotedIs(s, r, i, who)
<1> DEFINE both == IF who = "app" THEN s.autos[i] > 0 ELSE s.by[i] = "app" \/ i \in s.mixed
<1>1. s.by \in [Ifaces -> {"nobody", "app", "auto"}]
  BY DEF HandleType
<1>2. /\ r.by = [s.by EXCEPT ![i] = IF who = "app" THEN who ELSE IF @ = "nobody" THEN who ELSE @]
      /\ r.mixed = IF both THEN s.mixed \cup {i} ELSE s.mixed \ {i}
  BY DEF HandleType, Noted
<1>3. r.by \in [Ifaces -> {"nobody", "app", "auto"}]
  BY <1>1, <1>2
<1>4. r.mixed \in SUBSET Ifaces
  BY <1>2 DEF HandleType
<1>5. /\ KeepsHandles(s, r) /\ r.autos = s.autos /\ r.failed = s.failed /\ r.claimed = s.claimed
      /\ r.eps = s.eps /\ r.alt = s.alt /\ r.refused = s.refused /\ r.crossed = s.crossed
      /\ r.found = s.found
  BY DEF HandleType, KeepsHandles, Noted
<1>6. r \in HandleType
  BY <1>3, <1>4 DEF HandleType, Noted
<1>7. /\ \A j \in Ifaces \ {i} : r.by[j] = s.by[j]
      /\ r.by[i] = IF who = "app" THEN who ELSE IF s.by[i] = "nobody" THEN who ELSE s.by[i]
  BY <1>1, <1>2
<1>8. s.by[i] \in {"nobody", "app", "auto"}
  BY <1>1
<1>9. CASE who = "app"
  BY <1>2, <1>5, <1>6, <1>7, <1>9 DEF NotedIs
<1>10. CASE who = "auto"
  BY <1>2, <1>5, <1>6, <1>7, <1>8, <1>10 DEF NotedIs
<1> QED
  BY <1>9, <1>10

\* libusb_claim_interface: of an interface that is claimed
LEMMA ClaimAgain ==
    ASSUME NEW s, NEW i \in Ifaces, HandleGood(s, TRUE), i \in s.claimed,
           NEW who \in {"app", "auto"}
    PROVE  ClaimEnds(s, i, who, Ends("ok", Noted(s, i, who)))
<1> DEFINE r == Noted(s, i, who)
<1>1. s \in HandleType /\ IfaceGood(s, TRUE, i) /\ GoodBut(s, i)
  BY AllGood DEF HandleGood
<1>2. r \in HandleType /\ NotedIs(s, r, i, who)
  BY <1>1, NotedGood
<1> HIDE DEF r
<1>3. ClaimedGood(s, i)
  BY <1>1 DEF IfaceGood
<1>4. Marked(s, r, i)
  BY <1>2 DEF Marked, NotedIs
<1>5. HandleGood(r, TRUE)
  BY <1>1, <1>2, <1>3, <1>4, MarkedGood DEF ClaimedGood
<1>6. ClaimEnds(s, i, who, Ends("ok", r))
  BY <1>2, <1>5 DEF ClaimEnds, Ends, NotedIs
<1> QED
  BY <1>6 DEF r

LEMMA ClaimFirst ==
    ASSUME NEW s, NEW i \in Ifaces, GoodBut(s, i), s.api[i] = "valid",
           Driver(i) = "hid" => s.file[i] = "flag", NEW who \in {"app", "auto"}, NEW C, NEW r,
           r = [Noted(s, i, who) EXCEPT !.claimed = @ \cup {i}, !.refused = @ \ {i},
                                        !.crossed = IF C THEN @ \cup {i} ELSE @ \ {i}]
    PROVE  ClaimEnds(s, i, who, Ends("ok", r))
<1> DEFINE q == Noted(s, i, who)
<1>1. q \in HandleType /\ NotedIs(s, q, i, who)
  BY NotedGood DEF GoodBut
<1> HIDE DEF q
<1>2. r = [q EXCEPT !.claimed = @ \cup {i}, !.refused = @ \ {i},
                    !.crossed = IF C THEN @ \cup {i} ELSE @ \ {i}]
  BY DEF q
<1>3. r \in HandleType
  <2> DEFINE claimed == q.claimed \cup {i}
             refused == q.refused \ {i}
             crossed == IF C THEN q.crossed \cup {i} ELSE q.crossed \ {i}
  <2>1. claimed \in SUBSET Ifaces /\ refused \in SUBSET Ifaces /\ crossed \in SUBSET Ifaces
    BY <1>1 DEF HandleType
  <2>2. r = [q EXCEPT !.claimed = claimed, !.refused = refused, !.crossed = crossed]
    BY <1>1, <1>2 DEF HandleType
  <2> HIDE DEF claimed, refused, crossed
  <2>3. r = [claimed |-> claimed, file |-> q.file, api |-> q.api, eps |-> q.eps,
             autos |-> q.autos, files |-> q.files, apis |-> q.apis, lost |-> q.lost,
             alt |-> q.alt, found |-> q.found, by |-> q.by, mixed |-> q.mixed,
             failed |-> q.failed, refused |-> refused, crossed |-> crossed]
    BY <1>1, <2>2 DEF HandleType
  <2> QED
    BY <1>1, <2>1, <2>3 DEF HandleType
<1>4. /\ KeepsHandles(q, r) /\ r.autos = q.autos /\ r.failed = q.failed /\ r.by = q.by
      /\ r.mixed = q.mixed /\ r.claimed = q.claimed \cup {i}
  BY <1>1, <1>2 DEF HandleType, KeepsHandles
<1>5. Marked(s, r, i)
  BY <1>1, <1>4 DEF Marked, NotedIs, KeepsHandles
<1>6. HandleGood(r, TRUE)
  BY <1>3, <1>5, MarkedGood
<1> QED
  BY <1>1, <1>4, <1>6 DEF ClaimEnds, Ends, NotedIs

LEMMA ClaimInterfaceGood ==
    ASSUME device \in Devices, NEW s, NEW i \in Ifaces, HandleGood(s, TRUE),
           NEW who \in {"app", "auto"}, NEW e \in ClaimInterface(s, i, who)
    PROVE  ClaimEnds(s, i, who, e)
<1>1. CASE i \in s.claimed
  <2>1. e = Ends("ok", Noted(s, i, who))
    BY <1>1 DEF ClaimInterface
  <2> QED
    BY <1>1, <2>1, ClaimAgain
<1>2. CASE i \notin s.claimed
  <2>1. PICK f \in BackendClaim(s, i) :
          e = IF f.ret = "ok"
                THEN Ends("ok", [Noted(f.h, i, who) EXCEPT
                       !.claimed = @ \cup {i}, !.refused = @ \ {i},
                       !.crossed = IF ChangesSetting(i) THEN @ \cup {i} ELSE @ \ {i}])
              ELSE f
    BY <1>2 DEF ClaimInterface
  <2>2. /\ GoodBut(f.h, i) /\ (f.ret # "ok" => UnclaimedGood(f.h, i))
        /\ f.ret = "ok" => /\ f.h.api[i] = "valid"
                           /\ Driver(i) = "hid" => f.h.file[i] = "flag"
        /\ f.h.claimed = s.claimed /\ f.h.autos = s.autos /\ f.h.by = s.by
        /\ f.h.mixed = s.mixed /\ s.failed \subseteq f.h.failed
    BY <1>2, BackendClaimGood
  <2>3. CASE f.ret # "ok"
    <3>1. e = f
      BY <2>1, <2>3
    <3> QED
      BY <2>2, <2>3, <3>1, AllGood DEF ClaimEnds
  <2>4. CASE f.ret = "ok"
    <3>1. ClaimEnds(f.h, i, who, e)
      BY <2>1, <2>2, <2>4, ClaimFirst
    <3> QED
      BY <2>2, <3>1 DEF ClaimEnds
  <2> QED
    BY <2>3, <2>4
<1> QED
  BY <1>1, <1>2

-----------------------------------------------------------------------------
(* Counting and releasing                                                    *)

\* What is known of the alternate settings stays.
KeepsEnds(s, r) ==
    r.eps = s.eps /\ r.alt = s.alt /\ r.refused = s.refused /\ r.crossed = s.crossed
\* Only the count of an interface changes.
Recounted(s, r, i, n) ==
    /\ KeepsHandles(s, r) /\ KeepsEnds(s, r) /\ r.claimed = s.claimed /\ r.found = s.found
    /\ r.failed = s.failed /\ r.mixed = s.mixed /\ r.by = s.by
    /\ r.autos[i] = n /\ \A j \in Ifaces \ {i} : r.autos[j] = s.autos[j]
MayCount(s, i) == i \in s.claimed => s.by[i] = "auto" \/ i \in s.mixed

LEMMA RecountedGood ==
    ASSUME NEW s, NEW i \in Ifaces, HandleGood(s, TRUE), NEW n \in Nat, MayCount(s, i),
           NEW r, r = [s EXCEPT !.autos[i] = n]
    PROVE  HandleGood(r, TRUE) /\ Recounted(s, r, i, n)
<1>1. s \in HandleType
  BY DEF HandleGood
<1>2. s.autos \in [Ifaces -> Nat]
  BY <1>1 DEF HandleType
<1>3. r.autos = [s.autos EXCEPT ![i] = n]
  BY <1>1 DEF HandleType
<1>4. r.autos \in [Ifaces -> Nat]
  BY <1>2, <1>3
<1>5. r \in HandleType
  BY <1>1, <1>4 DEF HandleType
<1>6. /\ KeepsHandles(s, r) /\ KeepsEnds(s, r) /\ r.claimed = s.claimed /\ r.found = s.found
      /\ r.failed = s.failed /\ r.mixed = s.mixed /\ r.by = s.by
  BY <1>1 DEF HandleType, KeepsHandles, KeepsEnds
<1>7. (\A j \in Ifaces \ {i} : r.autos[j] = s.autos[j]) /\ r.autos[i] = n
  BY <1>2, <1>3
<1>8. Recounted(s, r, i, n)
  BY <1>6, <1>7 DEF Recounted
<1>9. \A j \in Ifaces \ {i} : SameAt(s, r, j)
  BY <1>6, <1>7 DEF SameAt, KeepsHandles
<1>10. \A j \in Ifaces \ {i} : IfaceGood(r, TRUE, j) /\ UnclaimedGood(r, j)
  BY <1>9, SameGood DEF HandleGood
<1>11. IfaceGood(s, TRUE, i) /\ UnclaimedGood(s, i)
  BY DEF HandleGood
<1>12. i \in r.claimed => ClaimedGood(r, i)
  BY <1>6, <1>7, <1>11 DEF IfaceGood, ClaimedGood, KeepsHandles, MayCount
<1>13. Open1(r, i) = Open1(s, i) /\ Valid1(r, i) = Valid1(s, i)
  BY <1>6 DEF KeepsHandles, Open1, Valid1
<1>14. AccountGood(r, TRUE, i)
  BY <1>6, <1>11, <1>13 DEF IfaceGood, AccountGood, KeepsHandles
<1>15. DriverGood(r, TRUE, i)
  BY <1>6, <1>11 DEF IfaceGood, DriverGood, KeepsHandles
<1>16. UnclaimedGood(r, i)
  BY <1>6, <1>11 DEF UnclaimedGood, KeepsHandles
<1> QED
  BY <1>5, <1>7, <1>8, <1>10, <1>12, <1>14, <1>15, <1>16 DEF HandleGood, IfaceGood

LEMMA CountedGood ==
    ASSUME NEW s, NEW i \in Ifaces, HandleGood(s, TRUE), s.by[i] = "auto" \/ i \in s.mixed,
           NEW r, r = Counted(s, i)
    PROVE  HandleGood(r, TRUE) /\ Recounted(s, r, i, s.autos[i] + 1)
<1>1. s.autos[i] + 1 \in Nat /\ MayCount(s, i)
  BY DEF HandleGood, HandleType, MayCount
<1>2. s \in HandleType
  BY DEF HandleGood
<1>3. r = [s EXCEPT !.autos[i] = s.autos[i] + 1]
  BY <1>2 DEF Counted, HandleType
<1> QED
  BY <1>1, <1>3, RecountedGood

\* An interface is given back to its driver.
Released(s, r, i) ==
    /\ r.autos = s.autos /\ r.failed = s.failed /\ r.mixed = s.mixed \ {i} /\ KeepsEnds(s, r)
    /\ r.claimed = s.claimed \ {i} /\ r.lost = s.lost /\ r.files = s.files /\ r.found[i] = {}
    /\ \A j \in Ifaces \ {i} : /\ r.by[j] = s.by[j] /\ r.file[j] = s.file[j]
                               /\ r.found[j] = s.found[j]
                               /\ r.api[j] = s.api[j] /\ r.apis[j] = s.apis[j]

LEMMA ReleasedOthers ==
    ASSUME NEW s, NEW i \in Ifaces, HandleGood(s, TRUE), NEW r, Released(s, r, i)
    PROVE  \A j \in Ifaces \ {i} : IfaceGood(r, TRUE, j) /\ UnclaimedGood(r, j)
<1>1. \A j \in Ifaces \ {i} : SameAt(s, r, j)
  BY DEF Released, SameAt
<1> QED
  BY <1>1, SameGood DEF HandleGood

LEMMA WinusbReleased ==
    ASSUME NEW s, NEW i \in Ifaces, HandleGood(s, TRUE), i \in s.claimed,
           Driver(i) = "winusb", s.api[i] = "valid", NEW q, NEW r,
           q = [s EXCEPT !.api[i] = "none", !.apis[i] = @ - 1],
           r = [q EXCEPT !.claimed = @ \ {i}, !.by[i] = "nobody", !.mixed = @ \ {i}, !.found[i] = {}]
    PROVE  HandleGood(r, TRUE) /\ Released(s, r, i)
<1>1. s \in HandleType /\ IfaceGood(s, TRUE, i)
  BY DEF HandleGood
<1>2. /\ s.api \in [Ifaces -> {"none", "valid"}] /\ s.apis \in [Ifaces -> Nat]
      /\ s.by \in [Ifaces -> {"nobody", "app", "auto"}]
      /\ s.files[i] \in Nat /\ s.lost[i] \in Nat /\ s.found \in [Ifaces -> SUBSET Transfers]
  BY <1>1 DEF HandleType
<1>3. AccountGood(s, TRUE, i)
  BY <1>1 DEF IfaceGood
<1>4. Valid1(s, i) = 1 /\ s.apis[i] \in Nat
  BY <1>2 DEF Valid1
<1>5. s.apis[i] - 1 \in Nat
  BY <1>3, <1>4 DEF AccountGood
<1>6. /\ r.api = [s.api EXCEPT ![i] = "none"] /\ r.apis = [s.apis EXCEPT ![i] = s.apis[i] - 1]
      /\ r.by = [s.by EXCEPT ![i] = "nobody"] /\ r.claimed = s.claimed \ {i}
      /\ r.mixed = s.mixed \ {i} /\ r.found = [s.found EXCEPT ![i] = {}]
  BY <1>1 DEF HandleType
<1>7. /\ r.api \in [Ifaces -> {"none", "valid"}] /\ r.apis \in [Ifaces -> Nat]
      /\ r.by \in [Ifaces -> {"nobody", "app", "auto"}]
      /\ r.found \in [Ifaces -> SUBSET Transfers]
  BY <1>2, <1>5, <1>6
<1>8. /\ r.autos = s.autos /\ r.failed = s.failed /\ KeepsEnds(s, r)
      /\ r.lost = s.lost /\ r.files = s.files /\ r.file = s.file
  BY <1>1 DEF HandleType, KeepsEnds
<1>9. r \in HandleType
  <2>1. DOMAIN r = DOMAIN s /\ r = [claimed |-> r.claimed, file |-> r.file, api |-> r.api,
          eps |-> r.eps, autos |-> r.autos, files |-> r.files, apis |-> r.apis, lost |-> r.lost,
          alt |-> r.alt, found |-> r.found, by |-> r.by, mixed |-> r.mixed,
          failed |-> r.failed, refused |-> r.refused, crossed |-> r.crossed]
    BY <1>1 DEF HandleType
  <2>2. r.mixed \in SUBSET Ifaces
    BY <1>1, <1>6 DEF HandleType
  <2> QED
    BY <1>1, <1>6, <1>7, <1>8, <2>1, <2>2 DEF HandleType, KeepsEnds
<1>10. /\ r.found[i] = {}
       /\ \A j \in Ifaces \ {i} : /\ r.by[j] = s.by[j] /\ r.api[j] = s.api[j]
                                  /\ r.apis[j] = s.apis[j] /\ r.found[j] = s.found[j]
  BY <1>2, <1>6
<1>11. Released(s, r, i)
  BY <1>6, <1>8, <1>10 DEF Released
<1>12. r.api[i] = "none" /\ r.apis[i] = s.apis[i] - 1
  BY <1>2, <1>6
<1>13. Open1(r, i) = Open1(s, i) /\ Valid1(r, i) = 0 /\ Open1(s, i) \in Nat
  BY <1>8, <1>12 DEF Open1, Valid1
<1>14. AccountGood(r, TRUE, i)
  <2> HIDE DEF Open1, Valid1
  <2> QED
    BY <1>2, <1>3, <1>4, <1>5, <1>8, <1>12, <1>13 DEF AccountGood
<1>15. DriverGood(r, TRUE, i)
  BY <1>1, <1>8, <1>12 DEF IfaceGood, DriverGood
<1>17. UnclaimedGood(r, i) /\ i \notin r.claimed
  BY <1>6, <1>12 DEF UnclaimedGood
<1>18. IfaceGood(r, TRUE, i)
  BY <1>14, <1>15, <1>17 DEF IfaceGood
<1> QED
  BY <1>9, <1>11, <1>17, <1>18, ReleasedOthers DEF HandleGood

LEMMA HidReleased ==
    ASSUME NEW s, NEW i \in Ifaces, HandleGood(s, TRUE), i \in s.claimed,
           Driver(i) = "hid", s.file[i] = "flag", NEW q, NEW r,
           q = [s EXCEPT !.file[i] = "none"],
           r = [q EXCEPT !.claimed = @ \ {i}, !.by[i] = "nobody", !.mixed = @ \ {i}, !.found[i] = {}]
    PROVE  HandleGood(r, TRUE) /\ Released(s, r, i)
<1>1. s \in HandleType /\ IfaceGood(s, TRUE, i)
  BY DEF HandleGood
<1>2. /\ s.file \in [Ifaces -> {"none", "open", "flag"}]
      /\ s.by \in [Ifaces -> {"nobody", "app", "auto"}]
      /\ s.found \in [Ifaces -> SUBSET Transfers]
  BY <1>1 DEF HandleType
<1>3. AccountGood(s, TRUE, i)
  BY <1>1 DEF IfaceGood
<1>6. /\ r.file = [s.file EXCEPT ![i] = "none"]
      /\ r.by = [s.by EXCEPT ![i] = "nobody"] /\ r.claimed = s.claimed \ {i}
      /\ r.mixed = s.mixed \ {i} /\ r.found = [s.found EXCEPT ![i] = {}]
  BY <1>1 DEF HandleType
<1>7. /\ r.file \in [Ifaces -> {"none", "open", "flag"}]
      /\ r.by \in [Ifaces -> {"nobody", "app", "auto"}]
      /\ r.found \in [Ifaces -> SUBSET Transfers]
  BY <1>2, <1>6
<1>8. /\ r.autos = s.autos /\ r.failed = s.failed /\ KeepsEnds(s, r)
      /\ r.lost = s.lost /\ r.files = s.files /\ r.api = s.api /\ r.apis = s.apis
  BY <1>1 DEF HandleType, KeepsEnds
<1>9. r \in HandleType
  <2>1. DOMAIN r = DOMAIN s /\ r = [claimed |-> r.claimed, file |-> r.file, api |-> r.api,
          eps |-> r.eps, autos |-> r.autos, files |-> r.files, apis |-> r.apis, lost |-> r.lost,
          alt |-> r.alt, found |-> r.found, by |-> r.by, mixed |-> r.mixed,
          failed |-> r.failed, refused |-> r.refused, crossed |-> r.crossed]
    BY <1>1 DEF HandleType
  <2>2. r.mixed \in SUBSET Ifaces
    BY <1>1, <1>6 DEF HandleType
  <2> QED
    BY <1>1, <1>6, <1>7, <1>8, <2>1, <2>2 DEF HandleType, KeepsEnds
<1>10. /\ r.found[i] = {}
       /\ \A j \in Ifaces \ {i} : /\ r.by[j] = s.by[j] /\ r.file[j] = s.file[j]
                                  /\ r.found[j] = s.found[j]
  BY <1>2, <1>6
<1>11. Released(s, r, i)
  BY <1>6, <1>8, <1>10 DEF Released
<1>12. r.file[i] = "none"
  BY <1>2, <1>6
<1>13. Open1(r, i) = Open1(s, i) /\ Valid1(r, i) = Valid1(s, i)
  BY <1>8, <1>12 DEF Open1, Valid1
<1>14. AccountGood(r, TRUE, i)
  BY <1>3, <1>8, <1>13 DEF AccountGood
<1>15. DriverGood(r, TRUE, i)
  BY <1>1, <1>8, <1>12 DEF IfaceGood, DriverGood
<1>17. UnclaimedGood(r, i) /\ i \notin r.claimed
  BY <1>6 DEF UnclaimedGood
<1>18. IfaceGood(r, TRUE, i)
  BY <1>14, <1>15, <1>17 DEF IfaceGood
<1>19. \A j \in Ifaces \ {i} : IfaceGood(r, TRUE, j) /\ UnclaimedGood(r, j)
  BY <1>11, ReleasedOthers
<1> QED
  BY <1>9, <1>11, <1>17, <1>18, <1>19 DEF HandleGood

\* What a release leaves as it was
ReleaseKeeps(s, r, i) ==
    /\ r.autos = s.autos /\ r.failed = s.failed /\ KeepsEnds(s, r)
    /\ s.claimed \ r.claimed \subseteq {i} /\ r.claimed \subseteq s.claimed
    /\ \A j \in Ifaces : r.found[j] = s.found[j] \/ r.found[j] = {}
    /\ \A j \in s.claimed \ r.claimed : r.found[j] = {}

\* libusb_release_interface
LEMMA ReleaseInterfaceGood ==
    ASSUME NEW s, NEW i \in Ifaces, HandleGood(s, TRUE), NEW r, r = ReleaseInterface(s, i).h
    PROVE  HandleGood(r, TRUE) /\ ReleaseKeeps(s, r, i)
<1>1. CASE r = s
  BY <1>1 DEF ReleaseKeeps, KeepsEnds
<1> DEFINE e == DriverRelease(s, i)
<1>2. CASE i \notin s.claimed
  BY <1>1, <1>2 DEF ReleaseInterface, Ends
<1>3. CASE i \in s.claimed /\ Driver(i) = "winusb" /\ s.api[i] = "valid"
  <2>1. e = Ends("ok", [s EXCEPT !.api[i] = "none", !.apis[i] = @ - 1])
    BY <1>3 DEF DriverRelease
  <2> HIDE DEF e
  <2>2. e.ret = "ok" /\ e.h = [s EXCEPT !.api[i] = "none", !.apis[i] = @ - 1]
    BY <2>1 DEF Ends
  <2>3. r = [e.h EXCEPT !.claimed = @ \ {i}, !.by[i] = "nobody", !.mixed = @ \ {i}, !.found[i] = {}]
    BY <1>3, <2>2 DEF ReleaseInterface, Ends, e
  <2>4. HandleGood(r, TRUE) /\ Released(s, r, i)
    BY <1>3, <2>2, <2>3, WinusbReleased
  <2> QED
    BY <2>4 DEF Released, ReleaseKeeps
<1>4. CASE i \in s.claimed /\ Driver(i) = "hid" /\ s.file[i] = "flag"
  <2>1. e = Ends("ok", [s EXCEPT !.file[i] = "none"])
    BY <1>4 DEF DriverRelease
  <2> HIDE DEF e
  <2>2. e.ret = "ok" /\ e.h = [s EXCEPT !.file[i] = "none"]
    BY <2>1 DEF Ends
  <2>3. r = [e.h EXCEPT !.claimed = @ \ {i}, !.by[i] = "nobody", !.mixed = @ \ {i}, !.found[i] = {}]
    BY <1>4, <2>2 DEF ReleaseInterface, Ends, e
  <2>4. HandleGood(r, TRUE) /\ Released(s, r, i)
    BY <1>4, <2>2, <2>3, HidReleased
  <2> QED
    BY <2>4 DEF Released, ReleaseKeeps
<1>5. CASE /\ i \in s.claimed /\ ~(Driver(i) = "winusb" /\ s.api[i] = "valid")
           /\ ~(Driver(i) = "hid" /\ s.file[i] = "flag")
  <2>1. e = Ends("not found", s)
    BY <1>5 DEF DriverRelease
  <2> HIDE DEF e
  <2>2. e.ret # "ok" /\ e.h = s
    BY <2>1 DEF Ends
  <2> QED
    BY <1>1, <1>5, <2>2 DEF ReleaseInterface, e
<1> QED
  BY <1>2, <1>3, <1>4, <1>5

\* What the end of a transfer leaves of the interface it was sent to
AutoReleased(s, r, i) ==
    /\ r.failed = s.failed /\ KeepsEnds(s, r) /\ r.claimed \subseteq s.claimed
    /\ \A j \in Ifaces : r.found[j] = s.found[j] \/ r.found[j] = {}
    /\ \A j \in s.claimed \ r.claimed : r.found[j] = {}
    /\ r.autos[i] = (IF s.autos[i] = 0 THEN 0 ELSE s.autos[i] - 1)
    /\ \A j \in Ifaces \ {i} : r.autos[j] = s.autos[j]
    /\ \A j \in s.claimed \ r.claimed : s.by[j] = "auto" \/ j \in s.mixed

\* auto_release
LEMMA AutoReleaseGood ==
    ASSUME NEW s, NEW i \in Ifaces, HandleGood(s, TRUE), NEW r, r = AutoRelease(s, i)
    PROVE  HandleGood(r, TRUE) /\ AutoReleased(s, r, i)
<1>1. CASE s.autos[i] = 0
  BY <1>1 DEF AutoRelease, AutoReleased, KeepsEnds
<1>2. CASE s.autos[i] # 0
  <2> DEFINE q == [s EXCEPT !.autos[i] = @ - 1]
  <2>1. s \in HandleType /\ s.autos \in [Ifaces -> Nat] /\ IfaceGood(s, TRUE, i)
    BY DEF HandleGood, HandleType
  <2>2. s.autos[i] - 1 \in Nat /\ s.autos[i] > 0
    BY <1>2, <2>1
  <2>3. i \in s.claimed => s.by[i] = "auto" \/ i \in s.mixed
    BY <2>1, <2>2 DEF IfaceGood, ClaimedGood
  <2>4. q = [s EXCEPT !.autos[i] = s.autos[i] - 1]
    BY <2>1 DEF HandleType
  <2>5. r = IF q.autos[i] = 0 THEN ReleaseInterface(q, i).h ELSE q
    BY <1>2 DEF AutoRelease
  <2> HIDE DEF q
  <2>6. HandleGood(q, TRUE) /\ Recounted(s, q, i, s.autos[i] - 1)
    <3>1. MayCount(s, i)
      BY <2>3 DEF MayCount
    <3> QED
      BY <2>2, <2>4, <3>1, RecountedGood
  <2>7. HandleGood(r, TRUE) /\ ReleaseKeeps(q, r, i)
    <3>1. CASE r = q
      BY <2>6, <3>1 DEF ReleaseKeeps, KeepsEnds
    <3>2. CASE r = ReleaseInterface(q, i).h
      BY <2>6, <3>2, ReleaseInterfaceGood
    <3> QED
      BY <2>5, <3>1, <3>2
  <2>8. \A j \in s.claimed \ r.claimed : s.by[j] = "auto" \/ j \in s.mixed
    BY <2>3, <2>6, <2>7 DEF ReleaseKeeps, Recounted
  <2> QED
    BY <1>2, <2>6, <2>7, <2>8 DEF AutoReleased, ReleaseKeeps, Recounted, KeepsEnds
<1> QED
  BY <1>1, <1>2

-----------------------------------------------------------------------------
(* Opening and closing                                                       *)

NothingCounted(s) == \A i \in Ifaces : s.autos[i] = 0

LEMMA NoHandleIs ==
    ASSUME device \in Devices
    PROVE  /\ NoHandle \in HandleType /\ NothingOpen(NoHandle) /\ NothingCounted(NoHandle)
           /\ \A i \in Ifaces : /\ NoHandle.files[i] = 0 /\ NoHandle.apis[i] = 0
                                /\ NoHandle.lost[i] = 0
<1>1. 0 \in Nat
  OBVIOUS
<1>2. NoHandle \in HandleType
  BY <1>1 DEF NoHandle, HandleType
<1>3. NothingOpen(NoHandle) /\ NothingCounted(NoHandle)
  BY DEF NoHandle, NothingOpen, NothingCounted
<1>4. \A i \in Ifaces : /\ NoHandle.files[i] = 0 /\ NoHandle.apis[i] = 0
                        /\ NoHandle.lost[i] = 0
  BY DEF NoHandle
<1> QED
  BY <1>2, <1>3, <1>4

\* A handle that has nothing open is good when what Windows has is lost.
LEMMA ClosedGood ==
    ASSUME NEW s \in HandleType, NothingOpen(s),
           \A i \in Ifaces : s.files[i] + s.apis[i] = s.lost[i]
    PROVE  HandleGood(s, FALSE)
<1> SUFFICES ASSUME NEW i \in Ifaces
             PROVE  IfaceGood(s, FALSE, i) /\ UnclaimedGood(s, i)
  BY DEF HandleGood
<1>1. i \notin s.claimed /\ s.file[i] = "none" /\ s.api[i] = "none"
  BY DEF NothingOpen
<1>2. s.files[i] \in Nat /\ s.apis[i] \in Nat /\ s.lost[i] \in Nat
  BY DEF HandleType
<1>3. Open1(s, i) = 0 /\ Valid1(s, i) = 0
  BY <1>1 DEF Open1, Valid1
<1>4. AccountGood(s, FALSE, i)
  BY <1>2, <1>3 DEF AccountGood
<1>5. DriverGood(s, FALSE, i) /\ UnclaimedGood(s, i)
  BY <1>1 DEF DriverGood, UnclaimedGood
<1> QED
  BY <1>1, <1>4, <1>5 DEF IfaceGood

\* What opening some WinUSB-like and some HID interfaces makes of no handle
LEMMA OpenedIs ==
    ASSUME device \in Devices, NEW W, NEW H, NEW r, r = HidOpened(WinusbOpened(NoHandle, W), H)
    PROVE  /\ r \in HandleType /\ r.claimed = {} /\ NothingCounted(r)
           /\ \A i \in Ifaces : /\ r.file[i] = (IF i \in W THEN "open" ELSE "none")
                                /\ r.files[i] = (IF i \in W THEN 1 ELSE 0)
                                /\ r.api[i] = (IF i \in H THEN "valid" ELSE "none")
                                /\ r.apis[i] = (IF i \in H THEN 1 ELSE 0)
                                /\ r.lost[i] = 0
<1> DEFINE n == NoHandle
<1>1. /\ n \in HandleType /\ NothingOpen(n) /\ NothingCounted(n)
      /\ \A i \in Ifaces : n.files[i] = 0 /\ n.apis[i] = 0 /\ n.lost[i] = 0
  BY NoHandleIs
<1> HIDE DEF n
<1>2. r = HidOpened(WinusbOpened(n, W), H)
  BY DEF n
<1>3. /\ r.file = [i \in Ifaces |-> IF i \in W THEN "open" ELSE n.file[i]]
      /\ r.files = [i \in Ifaces |-> IF i \in W THEN n.files[i] + 1 ELSE n.files[i]]
      /\ r.api = [i \in Ifaces |-> IF i \in H THEN "valid" ELSE n.api[i]]
      /\ r.apis = [i \in Ifaces |-> IF i \in H THEN n.apis[i] + 1 ELSE n.apis[i]]
  <2> DEFINE q == WinusbOpened(n, W)
  <2>1. /\ q.file = [i \in Ifaces |-> IF i \in W THEN "open" ELSE n.file[i]]
        /\ q.files = [i \in Ifaces |-> IF i \in W THEN n.files[i] + 1 ELSE n.files[i]]
        /\ q.api = n.api /\ q.apis = n.apis
        /\ DOMAIN q = DOMAIN n
    BY <1>1 DEF HandleType, WinusbOpened
  <2>2. {"file", "files", "api", "apis"} \subseteq DOMAIN q
    BY <1>1, <2>1 DEF HandleType
  <2>3. r = HidOpened(q, H)
    BY <1>2
  <2> HIDE DEF q
  <2>4. r.file = q.file /\ r.files = q.files
    BY <2>2, <2>3 DEF HidOpened
  <2>5. /\ r.api = [i \in Ifaces |-> IF i \in H THEN "valid" ELSE q.api[i]]
        /\ r.apis = [i \in Ifaces |-> IF i \in H THEN q.apis[i] + 1 ELSE q.apis[i]]
    BY <2>2, <2>3 DEF HidOpened
  <2> QED
    BY <2>1, <2>4, <2>5
<1>4. /\ r.claimed = n.claimed /\ r.autos = n.autos /\ r.lost = n.lost /\ r.eps = n.eps
      /\ r.alt = n.alt /\ r.found = n.found /\ r.by = n.by /\ r.mixed = n.mixed
      /\ r.failed = n.failed /\ r.refused = n.refused /\ r.crossed = n.crossed
  BY <1>1, <1>2 DEF HandleType, WinusbOpened, HidOpened
<1>5. \A i \in Ifaces : /\ r.file[i] = (IF i \in W THEN "open" ELSE "none")
                        /\ r.files[i] = (IF i \in W THEN 1 ELSE 0)
                        /\ r.api[i] = (IF i \in H THEN "valid" ELSE "none")
                        /\ r.apis[i] = (IF i \in H THEN 1 ELSE 0)
                        /\ r.lost[i] = 0
  BY <1>1, <1>3, <1>4 DEF NothingOpen
<1>6. /\ r.file \in [Ifaces -> {"none", "open", "flag"}] /\ r.files \in [Ifaces -> Nat]
      /\ r.api \in [Ifaces -> {"none", "valid"}] /\ r.apis \in [Ifaces -> Nat]
  BY <1>3, <1>5
<1>7. r \in HandleType
  <2>1. r = [claimed |-> r.claimed, file |-> r.file, api |-> r.api,
          eps |-> r.eps, autos |-> r.autos, files |-> r.files, apis |-> r.apis, lost |-> r.lost,
          alt |-> r.alt, found |-> r.found, by |-> r.by, mixed |-> r.mixed,
          failed |-> r.failed, refused |-> r.refused, crossed |-> r.crossed]
    BY <1>1, <1>2 DEF HandleType, WinusbOpened, HidOpened
  <2> QED
    BY <1>1, <1>4, <1>6, <2>1 DEF HandleType
<1>8. r.claimed = {} /\ NothingCounted(r)
  BY <1>1, <1>4 DEF NothingOpen, NothingCounted
<1> QED
  BY <1>5, <1>7, <1>8

\* composite_open, winusbx_open, hid_open
LEMMA OpenGood ==
    ASSUME device \in Devices, NEW r, r = AllOpened(NoHandle)
    PROVE  HandleGood(r, TRUE) /\ NothingCounted(r)
<1>1. r = HidOpened(WinusbOpened(NoHandle, WinusbIfaces), HidIfaces)
  BY DEF AllOpened
<1>2. /\ r \in HandleType /\ r.claimed = {} /\ NothingCounted(r)
      /\ \A i \in Ifaces : /\ r.file[i] = (IF i \in WinusbIfaces THEN "open" ELSE "none")
                           /\ r.files[i] = (IF i \in WinusbIfaces THEN 1 ELSE 0)
                           /\ r.api[i] = (IF i \in HidIfaces THEN "valid" ELSE "none")
                           /\ r.apis[i] = (IF i \in HidIfaces THEN 1 ELSE 0)
                           /\ r.lost[i] = 0
  BY <1>1, OpenedIs
<1>3. ASSUME NEW i \in Ifaces
      PROVE  IfaceGood(r, TRUE, i) /\ UnclaimedGood(r, i)
  <2>1. AccountGood(r, TRUE, i)
    BY <1>2 DEF AccountGood, Open1, Valid1
  <2>2. (i \in WinusbIfaces <=> device.path[i] /\ Driver(i) = "winusb")
        /\ (i \in HidIfaces <=> device.path[i] /\ Driver(i) = "hid")
    BY DEF WinusbIfaces, HidIfaces
  <2>3. DriverGood(r, TRUE, i) /\ UnclaimedGood(r, i)
    BY <1>2, <2>2 DEF DriverGood, UnclaimedGood
  <2> QED
    BY <1>2, <2>1, <2>3 DEF IfaceGood
<1> QED
  BY <1>2, <1>3 DEF HandleGood

LEMMA OpenFailsGood ==
    ASSUME device \in Devices, NEW W, NEW H, NEW left, NEW r,
           left = HidOpened(WinusbOpened(NoHandle, W), H),
           r = [NoHandle EXCEPT !.files = left.files, !.apis = left.apis,
                                !.lost = [j \in Ifaces |-> left.files[j] + left.apis[j]]]
    PROVE  HandleGood(r, FALSE) /\ NothingOpen(r) /\ NothingCounted(r)
<1> DEFINE n == NoHandle
<1>1. /\ n \in HandleType /\ NothingOpen(n) /\ NothingCounted(n)
      /\ \A i \in Ifaces : n.files[i] = 0 /\ n.apis[i] = 0 /\ n.lost[i] = 0
  BY NoHandleIs
<1>2. left.files \in [Ifaces -> Nat] /\ left.apis \in [Ifaces -> Nat]
  BY OpenedIs DEF HandleType
<1> HIDE DEF n
<1>3. /\ r.claimed = n.claimed /\ r.autos = n.autos /\ r.file = n.file /\ r.api = n.api
      /\ r.files = left.files /\ r.apis = left.apis
      /\ r.lost = [j \in Ifaces |-> left.files[j] + left.apis[j]]
  BY <1>1 DEF n, HandleType
<1>4. r.lost \in [Ifaces -> Nat]
  BY <1>2, <1>3
<1>5. r \in HandleType
  BY <1>1, <1>2, <1>4 DEF n, HandleType
<1>6. NothingOpen(r) /\ NothingCounted(r)
  BY <1>1, <1>3 DEF NothingOpen, NothingCounted
<1>7. \A i \in Ifaces : r.files[i] + r.apis[i] = r.lost[i]
  BY <1>3
<1> QED
  BY <1>5, <1>6, <1>7, ClosedGood

\* winusbx_close, hid_close, composite_close
LEMMA CloseGood ==
    ASSUME device \in Devices, NEW s, HandleGood(s, TRUE), NEW q, q = Closed(s), NEW r,
           r = [q EXCEPT !.claimed = {}, !.by = NoHandle.by, !.autos = NoHandle.autos,
                         !.file = NoHandle.file, !.api = NoHandle.api, !.mixed = {},
                         !.found = NoHandle.found]
    PROVE  HandleGood(r, FALSE) /\ NothingOpen(r) /\ NothingCounted(r)
<1> DEFINE n == NoHandle
<1>1. n \in HandleType /\ NothingOpen(n) /\ NothingCounted(n) /\ s \in HandleType
  BY NoHandleIs DEF HandleGood
<1> DEFINE shuts(i) == s.file[i] = "open" /\ (device.composite \/ i = 0)
<1>2. /\ q.apis = [i \in Ifaces |-> IF s.api[i] = "valid" THEN s.apis[i] - 1 ELSE s.apis[i]]
      /\ q.files = [i \in Ifaces |-> IF shuts(i) THEN s.files[i] - 1 ELSE s.files[i]]
      /\ KeepsEnds(s, q) /\ q.lost = s.lost /\ q.failed = s.failed
      /\ q = [claimed |-> q.claimed, file |-> q.file, api |-> q.api,
              eps |-> q.eps, autos |-> q.autos, files |-> q.files, apis |-> q.apis,
              lost |-> q.lost, alt |-> q.alt, found |-> q.found, by |-> q.by, mixed |-> q.mixed,
              failed |-> q.failed, refused |-> q.refused, crossed |-> q.crossed]
  BY <1>1 DEF HandleType, Closed, KeepsEnds
<1>3. r = [claimed |-> {}, file |-> n.file, api |-> n.api, eps |-> q.eps, autos |-> n.autos,
           files |-> q.files, apis |-> q.apis, lost |-> q.lost, alt |-> q.alt, found |-> n.found,
           by |-> n.by, mixed |-> {}, failed |-> q.failed, refused |-> q.refused,
           crossed |-> q.crossed]
  BY <1>2
<1> HIDE DEF n, shuts
<1>4. ASSUME NEW i \in Ifaces
      PROVE  q.apis[i] \in Nat /\ q.files[i] \in Nat /\ q.files[i] + q.apis[i] = s.lost[i]
  <2>1. AccountGood(s, TRUE, i) /\ DriverGood(s, TRUE, i)
    BY DEF HandleGood, IfaceGood
  <2>2. s.files[i] \in Nat /\ s.apis[i] \in Nat /\ s.lost[i] \in Nat
    BY <1>1 DEF HandleType
  <2>3. s.file[i] = "open" => device.composite \/ i = 0
    BY <2>1, DeviceIs DEF DriverGood
  <2>4. shuts(i) <=> s.file[i] = "open"
    BY <2>3 DEF shuts
  <2>5. /\ q.apis[i] = IF s.api[i] = "valid" THEN s.apis[i] - 1 ELSE s.apis[i]
        /\ q.files[i] = IF s.file[i] = "open" THEN s.files[i] - 1 ELSE s.files[i]
    BY <1>2, <2>4
  <2> QED
    BY <2>1, <2>2, <2>5 DEF AccountGood, Open1, Valid1
<1>5. q.apis \in [Ifaces -> Nat] /\ q.files \in [Ifaces -> Nat]
  BY <1>2, <1>4
<1>6. r \in HandleType
  BY <1>1, <1>2, <1>3, <1>5 DEF HandleType, KeepsEnds
<1>7. NothingOpen(r) /\ NothingCounted(r)
  <2>1. r.claimed = {} /\ r.file = n.file /\ r.api = n.api /\ r.autos = n.autos
    BY <1>2 DEF n
  <2> QED
    BY <1>1, <2>1 DEF NothingOpen, NothingCounted
<1>8. ASSUME NEW i \in Ifaces
      PROVE  r.files[i] + r.apis[i] = r.lost[i]
  <2>1. r.files[i] = q.files[i] /\ r.apis[i] = q.apis[i] /\ r.lost[i] = s.lost[i]
    BY <1>2, <1>3
  <2> QED
    BY <1>4, <2>1
<1> QED
  BY <1>6, <1>7, <1>8, ClosedGood

-----------------------------------------------------------------------------
(* Transfers                                                                 *)

\* The fields of a transfer, one by one
XferShape(x) == x = [st |-> x.st, kind |-> x.kind, req |-> x.req, tries |-> x.tries,
                     iface |-> x.iface, handle |-> x.handle, ep |-> x.ep, num |-> x.num,
                     buf |-> x.buf, fds |-> x.fds, over |-> x.over]
TrySet == [pass : 0 .. 2, iface : Ifaces]
XferFields(x) ==
    /\ x.st \in {"idle", "find", "claim", "drive", "call", "flying", "ended"}
    /\ x.kind \in {"none", "control", "bulk", "iso"}
    /\ x.req \in {"none", "vendor", "set same", "set other", "describe", "report"}
    /\ x.tries \subseteq TrySet /\ x.handle \in {"none", "valid"}
    /\ x.iface \in Ifaces \cup {Unknown} /\ x.ep \in AllEndpoints \cup {Unknown}
    /\ x.num \in Ifaces /\ x.buf \in BOOLEAN /\ x.fds \in Nat /\ x.over \in Nat

LEMMA XferTyped ==
    ASSUME NEW x
    PROVE  x \in XferType <=> XferShape(x) /\ XferFields(x)
<1>1. x \in XferType => XferShape(x)
  BY DEF XferType, XferShape
<1>2. x \in XferType => XferFields(x)
  BY DEF XferType, XferFields, TrySet
<1>3. XferShape(x) /\ XferFields(x) => x \in XferType
  BY DEF XferType, XferShape, XferFields, TrySet
<1> QED
  BY <1>1, <1>2, <1>3

XferOk(x) == x \in XferType /\ XferGood(x)
IsIdle(x) == x.st = "idle" /\ x.kind = "none"

\* do_submit_transfer after a refusal
LEMMA RefusesIs ==
    ASSUME NEW x \in XferType, x.fds = x.over + 1, NEW r, NEW y, y = Refuses(x, r)
    PROVE  /\ y \in XferType /\ IsIdle(y) /\ y.fds = y.over /\ y.buf = x.buf
           /\ y.over = IF r = "overflow" THEN x.over + 1 ELSE x.over
<1>1. y = [st |-> "idle", kind |-> "none", req |-> "none", tries |-> {}, iface |-> Unknown,
           handle |-> "none", ep |-> Unknown, num |-> x.num, buf |-> x.buf,
           fds |-> IF r = "overflow" THEN x.fds ELSE x.fds - 1,
           over |-> IF r = "overflow" THEN x.over + 1 ELSE x.over]
  BY DEF Refuses, Idle, XferType
<1>2. x.fds \in Nat /\ x.over \in Nat /\ x.num \in Ifaces /\ x.buf \in BOOLEAN
  BY DEF XferType
<1>3. y.fds \in Nat /\ y.over \in Nat /\ y.fds = y.over
  BY <1>1, <1>2
<1>4. y \in XferType
  <2>1. XferShape(y)
    BY <1>1 DEF XferShape
  <2>2. XferFields(y)
    BY <1>1, <1>2, <1>3 DEF XferFields
  <2> QED
    BY <2>1, <2>2, XferTyped
<1> QED
  BY <1>1, <1>3, <1>4 DEF IsIdle

LEMMA IdleOk ==
    ASSUME NEW y \in XferType, IsIdle(y), y.fds = y.over, y.buf => y.over > 0
    PROVE  XferOk(y)
<1>1. y.over \in Nat
  BY DEF XferType
<1> QED
  BY <1>1 DEF XferOk, XferGood, IsIdle

\* A transfer on its way through the attempts
Trying(x) ==
    XferOk(x) /\ x.kind = "control" /\ x.st \in {"find", "claim", "drive", "call"}

LEMMA TryingIs ==
    ASSUME NEW x, Trying(x)
    PROVE  /\ x \in XferType /\ x.fds = x.over + 1 /\ (x.buf => x.over > 0)
           /\ x.tries # {} /\ x.fds \in Nat /\ x.over \in Nat /\ x.kind = "control"
<1>1. x.fds \in Nat /\ x.over \in Nat
  BY DEF Trying, XferOk, XferType
<1> QED
  BY <1>1 DEF Trying, XferOk, XferGood

LEMMA AttemptedOk ==
    ASSUME NEW x, Trying(x), NEW r, NEW y, y = Attempted(x, r)
    PROVE  XferOk(y)
<1>1. /\ x \in XferType /\ x.fds = x.over + 1 /\ (x.buf => x.over > 0)
      /\ x.tries # {} /\ x.fds \in Nat /\ x.over \in Nat /\ x.kind = "control"
  BY TryingIs
<1> DEFINE a == Attempt(x.tries)
<1> HIDE DEF a
<1>2. CASE /\ x.tries # {a}
           /\ y = [x EXCEPT !.st = "find", !.tries = @ \ {a}, !.iface = Unknown, !.handle = "none"]
  <2>1. y = [st |-> "find", kind |-> x.kind, req |-> x.req, tries |-> x.tries \ {a},
             iface |-> Unknown, handle |-> "none", ep |-> x.ep, num |-> x.num, buf |-> x.buf, fds |-> x.fds,
             over |-> x.over]
    BY <1>1, <1>2 DEF XferType
  <2>2. x.tries \ {a} # {}
    BY <1>1, <1>2
  <2>3. y \in XferType
    <3>1. XferFields(x)
      BY <1>1, XferTyped
    <3>2. XferShape(y)
      BY <2>1 DEF XferShape
    <3>3. y.tries \subseteq TrySet
      <4>1. x.tries \subseteq TrySet
        BY <3>1 DEF XferFields
      <4>2. y.tries = x.tries \ {a}
        BY <2>1
      <4> QED
        BY <4>1, <4>2
    <3>4. y.st = "find" /\ y.iface = Unknown /\ y.handle = "none"
      BY <2>1
    <3>5. /\ y.kind = x.kind /\ y.req = x.req /\ y.ep = x.ep /\ y.num = x.num
          /\ y.buf = x.buf /\ y.fds = x.fds /\ y.over = x.over
      BY <2>1
    <3>6. XferFields(y)
      BY <3>1, <3>3, <3>4, <3>5 DEF XferFields
    <3> QED
      BY <3>2, <3>6, XferTyped
  <2>4. XferGood(y)
    BY <1>1, <2>1, <2>2 DEF XferGood
  <2> QED
    BY <2>1, <2>3, <2>4 DEF XferOk
<1>3. CASE y = Refuses(x, r)
  <2>1. /\ y \in XferType /\ IsIdle(y) /\ y.fds = y.over /\ y.buf = x.buf
        /\ y.over = IF r = "overflow" THEN x.over + 1 ELSE x.over
    BY <1>1, <1>3, RefusesIs
  <2>2. y.buf => y.over > 0
    BY <1>1, <2>1
  <2> QED
    BY <2>1, <2>2, IdleOk DEF IsIdle
<1> QED
  BY <1>2, <1>3 DEF Attempted, a

\* The changes of a transfer
Tried(x, req, T) == [Began(x, "control") EXCEPT !.st = "find", !.req = req, !.tries = T]
Moved(x, i, st, b) == [x EXCEPT !.iface = i, !.st = st, !.buf = b]
Driven(x, st, i, b) == [Idle(x) EXCEPT !.kind = "control", !.st = st, !.num = i, !.buf = @ \/ b]
AskedFor(x, v) == [x EXCEPT !.st = "call", !.handle = v]
Queued(x, kind, b) == [Began(x, kind) EXCEPT !.buf = b]
Sent(x, i, ep) == [x EXCEPT !.st = "drive", !.iface = i, !.ep = ep]
Taken(x, a) ==
    [Idle(x) EXCEPT !.kind = x.kind, !.ep = x.ep, !.st = a.st, !.num = x.iface, !.buf = a.buf]
GivenUp(x, a) == [Refuses(x, a.ret) EXCEPT !.buf = a.buf]
Ended(x) == [x EXCEPT !.st = "ended"]
Handled(x) == [Idle(x) EXCEPT !.fds = @ - 1, !.buf = FALSE]

\* A transfer is idle, and has been finished or never begun.
LEMMA IdleIs ==
    ASSUME NEW x, XferOk(x), x.st = "idle"
    PROVE  x.kind = "none" /\ x.fds = x.over /\ x.over \in Nat /\ (x.buf => x.over > 0)
<1>1. x.fds \in Nat /\ x.over \in Nat
  BY DEF XferOk, XferType
<1> QED
  BY <1>1 DEF XferOk, XferGood

LEMMA AttemptsTyped ==
    ASSUME device \in Devices, NEW target
    PROVE  Attempts(target) \subseteq TrySet
<1>1. 0 \in Ifaces /\ 0 \in 0 .. 2 /\ 1 \in 0 .. 2 /\ 2 \in 0 .. 2
  BY DeviceIs
<1> DEFINE P == [pass : 0 .. 2, iface : Ifaces]
           usable == {i \in Ifaces : device.path[i] /\ Driver(i) # "none"}
           tried(pass, S) == {[pass |-> pass, iface |-> i] : i \in usable \cap S}
<1>2. ASSUME NEW p \in 0 .. 2, NEW S
      PROVE  tried(p, S) \subseteq P
  BY <1>2
<1>3. {[pass |-> 2, iface |-> 0]} \subseteq P
  BY <1>1
<1>4. \/ Attempts(target) = {[pass |-> 2, iface |-> 0]}
      \/ Attempts(target) = tried(0, {target}) \cup tried(1, Ifaces \ device.restricted)
                              \cup tried(2, Ifaces)
  BY DEF Attempts
<1> HIDE DEF tried, P
<1>5. Attempts(target) \subseteq P
  BY <1>1, <1>2, <1>3, <1>4
<1> QED
  BY <1>5 DEF P, TrySet

CanAsk(q) == q \in {"vendor", "set same", "set other", "describe", "report"}
CanTry(T) == T \subseteq TrySet /\ T # {}

LEMMA SubmitControlOk ==
    ASSUME NEW x, XferOk(x), x.st = "idle", NEW T, CanTry(T),
           NEW q, CanAsk(q), NEW y,
           y = Tried(x, q, T)
    PROVE  XferOk(y) /\ y.st = "find" /\ y.kind = "control"
<1>1. x.fds = x.over /\ x.over \in Nat /\ (x.buf => x.over > 0) /\ XferFields(x) /\ x \in XferType
  BY IdleIs, XferTyped DEF XferOk
<1>3. y = [st |-> "find", kind |-> "control", req |-> q, tries |-> T, iface |-> x.iface,
           handle |-> x.handle, ep |-> x.ep, num |-> x.num, buf |-> x.buf, fds |-> x.fds + 1, over |-> x.over]
  BY <1>1 DEF XferType, Tried, Began
<1>5. XferShape(y) /\ y.tries = T /\ y.fds = x.over + 1 /\ y.over = x.over /\ y.buf = x.buf
      /\ y.st = "find" /\ y.kind = "control" /\ y.fds \in Nat
  BY <1>1, <1>3 DEF XferShape
<1>6. y.req = q /\ y.iface = x.iface /\ y.handle = x.handle /\ y.ep = x.ep /\ y.num = x.num
  BY <1>3
<1>7. XferFields(y)
  BY <1>1, <1>5, <1>6 DEF XferFields, CanTry, CanAsk
<1>8. XferGood(y)
  BY <1>1, <1>5 DEF XferGood, CanTry
<1> QED
  BY <1>5, <1>7, <1>8, XferTyped DEF XferOk

\* The start of an attempt, and the claim for it
LEMMA MovesOk ==
    ASSUME NEW x, Trying(x), NEW i \in Ifaces \cup {Unknown}, NEW st \in {"claim", "drive"},
           st = "drive" => i # Unknown, NEW b \in BOOLEAN, b => x.buf,
           NEW y, y = Moved(x, i, st, b)
    PROVE  Trying(y) /\ y.st = st /\ y.iface = i /\ y.kind = "control"
<1>1. /\ x \in XferType /\ x.fds = x.over + 1 /\ (x.buf => x.over > 0)
      /\ x.tries # {} /\ x.fds \in Nat /\ x.over \in Nat /\ XferFields(x) /\ x.kind = "control"
  BY TryingIs, XferTyped
<1>2. y = [st |-> st, kind |-> x.kind, req |-> x.req, tries |-> x.tries, iface |-> i,
           handle |-> x.handle, ep |-> x.ep, num |-> x.num, buf |-> b, fds |-> x.fds, over |-> x.over]
  BY <1>1 DEF XferType, Moved
<1>3. /\ XferShape(y) /\ y.st = st /\ y.kind = x.kind /\ y.req = x.req /\ y.tries = x.tries
      /\ y.iface = i /\ y.handle = x.handle /\ y.ep = x.ep /\ y.num = x.num /\ y.buf = b
      /\ y.fds = x.fds /\ y.over = x.over
  BY <1>2 DEF XferShape
<1>4. XferFields(y)
  BY <1>1, <1>3 DEF XferFields
<1>5. XferGood(y)
  BY <1>1, <1>3 DEF XferGood
<1> QED
  BY <1>3, <1>4, <1>5, XferTyped DEF XferOk, Trying

\* The driver of an interface has taken or done a control transfer.
LEMMA DrivenOk ==
    ASSUME NEW x, Trying(x), NEW i \in Ifaces, NEW st \in {"flying", "ended"}, NEW b \in BOOLEAN,
           st = "flying" /\ Driver(i) = "hid" => b, NEW y,
           y = Driven(x, st, i, b)
    PROVE  XferOk(y) /\ y.st = st /\ y.num = i /\ y.kind = "control"
<1>1. /\ x \in XferType /\ x.fds = x.over + 1
      /\ x.fds \in Nat /\ x.over \in Nat /\ XferFields(x)
  BY TryingIs, XferTyped
<1>2. y = [st |-> st, kind |-> "control", req |-> "none", tries |-> {}, iface |-> Unknown,
           handle |-> "none", ep |-> Unknown, num |-> i, buf |-> (x.buf \/ b), fds |-> x.fds, over |-> x.over]
  BY <1>1 DEF XferType, Driven, Idle
<1>3. /\ XferShape(y) /\ y.st = st /\ y.kind = "control" /\ y.req = "none" /\ y.tries = {}
      /\ y.iface = Unknown /\ y.handle = "none" /\ y.ep = Unknown /\ y.num = i /\ y.fds = x.fds
      /\ y.over = x.over
  BY <1>2 DEF XferShape
<1>4. y.buf \in BOOLEAN /\ (b => y.buf)
  <2>1. y.buf = (x.buf \/ b)
    BY <1>2
  <2>2. x.buf \in BOOLEAN
    BY <1>1 DEF XferFields
  <2> QED
    BY <2>1, <2>2
<1>5. XferFields(y)
  BY <1>1, <1>3, <1>4 DEF XferFields
<1>6. XferGood(y)
  BY <1>1, <1>3, <1>4 DEF XferGood
<1> QED
  BY <1>3, <1>5, <1>6, XferTyped DEF XferOk

\* The driver handle is read.
LEMMA AskedOk ==
    ASSUME NEW x, XferOk(x), x.st = "drive", NEW v \in {"none", "valid"}, NEW y, y = AskedFor(x, v)
    PROVE  XferOk(y) /\ y.st = "call" /\ y.iface = x.iface /\ y.kind = x.kind
<1>1. x \in XferType /\ XferFields(x) /\ XferGood(x)
  BY XferTyped DEF XferOk
<1>2. y = [st |-> "call", kind |-> x.kind, req |-> x.req, tries |-> x.tries, iface |-> x.iface,
           handle |-> v, ep |-> x.ep, num |-> x.num, buf |-> x.buf, fds |-> x.fds,
           over |-> x.over]
  BY <1>1 DEF XferType, AskedFor
<1>3. /\ XferShape(y) /\ y.st = "call" /\ y.kind = x.kind /\ y.req = x.req /\ y.tries = x.tries
      /\ y.iface = x.iface /\ y.handle = v /\ y.ep = x.ep /\ y.num = x.num /\ y.buf = x.buf
      /\ y.fds = x.fds /\ y.over = x.over
  BY <1>2 DEF XferShape
<1>4. XferFields(y)
  BY <1>1, <1>3 DEF XferFields
<1>5. XferGood(y)
  BY <1>1, <1>3 DEF XferGood
<1> QED
  BY <1>3, <1>4, <1>5, XferTyped DEF XferOk

IsPipe(kind) == kind \in {"bulk", "iso"}

\* A bulk or isochronous transfer is begun.
LEMMA QueuedIs ==
    ASSUME NEW x, XferOk(x), x.st = "idle", NEW kind, IsPipe(kind), NEW b \in BOOLEAN, b => x.buf,
           NEW y, y = Queued(x, kind, b)
    PROVE  /\ y \in XferType /\ y.fds = y.over + 1 /\ y.kind = kind /\ y.buf = b
           /\ (y.buf => y.over > 0) /\ y.over \in Nat
<1>1. x.fds = x.over /\ x.over \in Nat /\ XferFields(x) /\ x \in XferType /\ (x.buf => x.over > 0)
  BY IdleIs, XferTyped DEF XferOk
<1>2. y = [st |-> x.st, kind |-> kind, req |-> x.req, tries |-> x.tries, iface |-> x.iface,
           handle |-> x.handle, ep |-> x.ep, num |-> x.num, buf |-> b, fds |-> x.fds + 1,
           over |-> x.over]
  BY <1>1 DEF XferType, Queued, Began
<1>3. /\ XferShape(y) /\ y.st = x.st /\ y.kind = kind /\ y.req = x.req /\ y.tries = x.tries
      /\ y.iface = x.iface /\ y.handle = x.handle /\ y.ep = x.ep /\ y.num = x.num /\ y.buf = b
      /\ y.fds = x.fds + 1 /\ y.over = x.over
  BY <1>2 DEF XferShape
<1>4. y.fds \in Nat
  BY <1>1, <1>3
<1>5. XferFields(y)
  BY <1>1, <1>3, <1>4 DEF XferFields, IsPipe
<1> QED
  BY <1>1, <1>3, <1>5, XferTyped

\* It is sent to the interface that has the endpoint.
LEMMA SentOk ==
    ASSUME NEW x \in XferType, x.fds = x.over + 1, x.buf => x.over > 0, IsPipe(x.kind),
           NEW i \in Ifaces, i # Unknown, PipeOn(i), NEW ep \in AllEndpoints,
           NEW y, y = Sent(x, i, ep)
    PROVE  XferOk(y)
<1>1. XferFields(x)
  BY XferTyped
<1>2. y = [st |-> "drive", kind |-> x.kind, req |-> x.req, tries |-> x.tries, iface |-> i,
           handle |-> x.handle, ep |-> ep, num |-> x.num, buf |-> x.buf, fds |-> x.fds,
           over |-> x.over]
  BY DEF XferType, Sent
<1>3. /\ XferShape(y) /\ y.st = "drive" /\ y.kind = x.kind /\ y.req = x.req /\ y.tries = x.tries
      /\ y.iface = i /\ y.handle = x.handle /\ y.ep = ep /\ y.num = x.num /\ y.buf = x.buf
      /\ y.fds = x.fds /\ y.over = x.over
  BY <1>2 DEF XferShape
<1>4. XferFields(y)
  BY <1>1, <1>3 DEF XferFields
<1>5. XferGood(y)
  BY <1>3 DEF XferGood, IsPipe
<1> QED
  BY <1>3, <1>4, <1>5, XferTyped DEF XferOk

\* What a driver may say of a bulk or isochronous transfer
PipeAnswer(i, was, a) ==
    /\ a.buf \in BOOLEAN
    /\ a.ret = "ok" => /\ a.st \in {"flying", "ended"}
                       /\ a.st = "flying" /\ Driver(i) = "hid" => a.buf
    /\ a.ret # "ok" /\ a.buf => was \/ a.ret = "overflow"

\* A pipe that waits for its driver
Asking(x) == XferOk(x) /\ x.st = "call" /\ IsPipe(x.kind)
LEMMA AskingIs ==
    ASSUME NEW x, Asking(x)
    PROVE  /\ x \in XferType /\ XferFields(x) /\ x.fds = x.over + 1 /\ (x.buf => x.over > 0)
           /\ x.over \in Nat /\ x.iface \in Ifaces /\ PipeOn(x.iface)
<1>1. x \in XferType /\ XferFields(x) /\ XferGood(x)
  BY XferTyped DEF Asking, XferOk
<1>2. x.iface \in Ifaces /\ x.over \in Nat
  BY <1>1 DEF Asking, XferFields, XferGood
<1> QED
  BY <1>1, <1>2 DEF Asking, XferGood, IsPipe

LEMMA PipeTaken ==
    ASSUME NEW x, Asking(x), NEW a, PipeAnswer(x.iface, x.buf, a), a.ret = "ok",
           NEW y, y = Taken(x, a)
    PROVE  XferOk(y)
<1>1. /\ x \in XferType /\ XferFields(x) /\ x.fds = x.over + 1 /\ x.over \in Nat
      /\ x.iface \in Ifaces /\ PipeOn(x.iface)
  BY AskingIs
<1>2. y = [st |-> a.st, kind |-> x.kind, req |-> "none", tries |-> {}, iface |-> Unknown,
           handle |-> "none", ep |-> x.ep, num |-> x.iface, buf |-> a.buf, fds |-> x.fds,
           over |-> x.over]
  BY <1>1 DEF XferType, Taken, Idle
<1>3. /\ XferShape(y) /\ y.st = a.st /\ y.kind = x.kind /\ y.req = "none" /\ y.tries = {}
      /\ y.iface = Unknown /\ y.handle = "none" /\ y.ep = x.ep /\ y.num = x.iface
      /\ y.buf = a.buf /\ y.fds = x.fds /\ y.over = x.over
  BY <1>2 DEF XferShape
<1>4. a.st \in {"flying", "ended"} /\ a.buf \in BOOLEAN
  BY DEF PipeAnswer
<1>5. XferFields(y)
  BY <1>1, <1>3, <1>4 DEF XferFields
<1>6. XferGood(y)
  BY <1>1, <1>3, <1>4 DEF XferGood, PipeAnswer
<1> QED
  BY <1>3, <1>5, <1>6, XferTyped DEF XferOk

LEMMA PipeRefused ==
    ASSUME NEW x, Asking(x), NEW a, PipeAnswer(x.iface, x.buf, a), a.ret # "ok",
           NEW y, y = GivenUp(x, a)
    PROVE  XferOk(y)
<1>1. /\ x \in XferType /\ x.fds = x.over + 1 /\ x.over \in Nat /\ (x.buf => x.over > 0)
  BY AskingIs
<1> DEFINE q == Refuses(x, a.ret)
<1>2. y = [q EXCEPT !.buf = a.buf]
  BY DEF GivenUp
<1> HIDE DEF q
<1>3. /\ q \in XferType /\ IsIdle(q) /\ q.fds = q.over
      /\ q.over = IF a.ret = "overflow" THEN x.over + 1 ELSE x.over
  BY <1>1, RefusesIs DEF q
<1>4. a.buf \in BOOLEAN /\ (a.buf => q.over > 0)
  BY <1>1, <1>3 DEF PipeAnswer
<1>5. y \in XferType /\ y.st = q.st /\ y.kind = q.kind /\ y.fds = q.fds /\ y.over = q.over
      /\ y.buf = a.buf
  BY <1>2, <1>3, <1>4 DEF XferType
<1> QED
  BY <1>3, <1>4, <1>5, IdleOk DEF IsIdle

\* The driver is done, and the event thread takes the transfer back.
LEMMA EndedOk ==
    ASSUME NEW x, XferOk(x), x.st = "flying", NEW y, y = Ended(x)
    PROVE  XferOk(y) /\ y.st = "ended" /\ y.num = x.num /\ y.kind = x.kind
<1>1. x \in XferType /\ XferFields(x)
  BY XferTyped DEF XferOk
<1>2. y = [st |-> "ended", kind |-> x.kind, req |-> x.req, tries |-> x.tries, iface |-> x.iface,
           handle |-> x.handle, ep |-> x.ep, num |-> x.num, buf |-> x.buf, fds |-> x.fds, over |-> x.over]
  BY <1>1 DEF XferType, Ended
<1>3. /\ XferShape(y) /\ y.st = "ended" /\ y.kind = x.kind /\ y.req = x.req /\ y.tries = x.tries
      /\ y.iface = x.iface /\ y.handle = x.handle /\ y.ep = x.ep /\ y.num = x.num
      /\ y.buf = x.buf /\ y.fds = x.fds /\ y.over = x.over
  BY <1>2 DEF XferShape
<1>4. XferFields(y)
  BY <1>1, <1>3 DEF XferFields
<1>5. XferGood(y)
  BY <1>3 DEF XferOk, XferGood
<1> QED
  BY <1>3, <1>4, <1>5, XferTyped DEF XferOk

LEMMA HandledOk ==
    ASSUME NEW x, XferOk(x), x.st = "ended", NEW y, y = Handled(x)
    PROVE  XferOk(y) /\ y.st = "idle" /\ y.kind = "none"
<1>1. x \in XferType /\ XferFields(x)
  BY XferTyped DEF XferOk
<1>2. x.fds = x.over + 1 /\ x.over \in Nat
  BY <1>1 DEF XferOk, XferGood, XferFields
<1>3. y = [st |-> "idle", kind |-> "none", req |-> "none", tries |-> {}, iface |-> Unknown,
           handle |-> "none", ep |-> Unknown, num |-> x.num, buf |-> FALSE, fds |-> x.fds - 1, over |-> x.over]
  BY <1>1 DEF XferType, Handled, Idle
<1>4. XferShape(y) /\ y.st = "idle" /\ y.kind = "none" /\ y.req = "none" /\ y.tries = {}
      /\ y.iface = Unknown /\ y.handle = "none" /\ y.ep = Unknown /\ y.num = x.num /\ y.buf = FALSE
      /\ y.fds = x.over /\ y.over = x.over
  BY <1>2, <1>3 DEF XferShape
<1>5. XferFields(y)
  BY <1>1, <1>2, <1>4 DEF XferFields
<1> QED
  BY <1>4, <1>5, XferTyped, IdleOk DEF IsIdle

-----------------------------------------------------------------------------
(* The transfers an interface was claimed for                                *)

LEMMA ClaimantsFinite ==
    ASSUME NEW f, NEW i
    PROVE  IsFiniteSet(ClaimantsOf(f, i)) /\ Cardinality(ClaimantsOf(f, i)) \in Nat
<1>1. ClaimantsOf(f, i) \subseteq Transfers /\ IsFiniteSet(Transfers)
  BY HandleAssumption DEF ClaimantsOf
<1>2. IsFiniteSet(ClaimantsOf(f, i))
  BY <1>1, FS_Subset
<1> QED
  BY <1>2, FS_CardinalityType

LEMMA ClaimantsGrow ==
    ASSUME NEW f, NEW g, NEW i, ClaimantsOf(f, i) \subseteq ClaimantsOf(g, i)
    PROVE  Cardinality(ClaimantsOf(f, i)) <= Cardinality(ClaimantsOf(g, i))
BY ClaimantsFinite, FS_Subset

\* Only one transfer changes.
Changes(f, g, t, y) == g = [f EXCEPT ![t] = y]

LEMMA ChangesIs ==
    ASSUME NEW f, XfersGood(f), NEW t \in Transfers, NEW y, XferOk(y), NEW g, Changes(f, g, t, y)
    PROVE  /\ XfersGood(g) /\ g[t] = y /\ \A u \in Transfers \ {t} : g[u] = f[u]
<1>1. f \in [Transfers -> XferType] /\ \A u \in Transfers : XferGood(f[u])
  BY DEF XfersGood
<1>2. y \in XferType /\ XferGood(y)
  BY DEF XferOk
<1>3. g \in [Transfers -> XferType] /\ g[t] = y /\ \A u \in Transfers \ {t} : g[u] = f[u]
  BY <1>1, <1>2 DEF Changes
<1>4. \A u \in Transfers : XferGood(g[u])
  BY <1>1, <1>2, <1>3
<1> QED
  BY <1>3, <1>4 DEF XfersGood

\* What is counted for interfaces stays, or they fail, and as many claimants stay.
AutosKept(s, r, x, y) ==
    \A i \in Ifaces : i \notin r.failed =>
        i \notin s.failed /\ r.autos[i] = s.autos[i] /\ (Counts(x, i) => Counts(y, i))

LEMMA AutosKeptGood ==
    ASSUME NEW f, NEW s \in HandleType, AutosGood(s, f), XfersGood(f), NEW t \in Transfers,
           NEW y, XferOk(y), NEW g, Changes(f, g, t, y), NEW r, AutosKept(s, r, f[t], y)
    PROVE  AutosGood(r, g)
<1>1. g[t] = y /\ \A u \in Transfers \ {t} : g[u] = f[u]
  BY ChangesIs
<1> SUFFICES ASSUME NEW i \in Ifaces, i \notin r.failed
             PROVE  r.autos[i] <= Cardinality(ClaimantsOf(g, i))
  BY DEF AutosGood
<1>2. i \notin s.failed /\ r.autos[i] = s.autos[i] /\ (Counts(f[t], i) => Counts(y, i))
  BY DEF AutosKept
<1>3. ClaimantsOf(f, i) \subseteq ClaimantsOf(g, i)
  BY <1>1, <1>2 DEF ClaimantsOf
<1>4. Cardinality(ClaimantsOf(f, i)) <= Cardinality(ClaimantsOf(g, i))
  BY <1>3, ClaimantsGrow
<1>5. s.autos[i] <= Cardinality(ClaimantsOf(f, i))
  BY <1>2 DEF AutosGood
<1> DEFINE m == Cardinality(ClaimantsOf(f, i))
           n == Cardinality(ClaimantsOf(g, i))
<1>6. m \in Nat /\ n \in Nat
  BY ClaimantsFinite
<1>7. s.autos[i] <= m /\ m <= n /\ s.autos[i] \in Nat
  BY <1>4, <1>5 DEF HandleType
<1> HIDE DEF m, n
<1>8. s.autos[i] <= n
  BY <1>6, <1>7
<1> QED
  BY <1>2, <1>8 DEF n

\* A transfer that counted for nothing is counted for an interface that is claimed.
LEMMA AutosUp ==
    ASSUME NEW f, NEW s, AutosGood(s, f), XfersGood(f), NEW t \in Transfers, NEW y, XferOk(y),
           NEW g, Changes(f, g, t, y), NEW r \in HandleType, NEW s1 \in HandleType,
           s.failed \subseteq s1.failed, s1.autos = s.autos, NEW i \in Ifaces, Recounted(s1, r, i, s.autos[i] + 1),
           s \in HandleType, \A j \in Ifaces : ~Counts(f[t], j), Counts(y, i)
    PROVE  AutosGood(r, g)
<1>1. g[t] = y /\ \A u \in Transfers \ {t} : g[u] = f[u]
  BY ChangesIs
<1> SUFFICES ASSUME NEW j \in Ifaces, j \notin r.failed
             PROVE  r.autos[j] <= Cardinality(ClaimantsOf(g, j))
  BY DEF AutosGood
<1>2. j \notin s.failed
  BY DEF Recounted
<1> DEFINE m == Cardinality(ClaimantsOf(f, j))
           n == Cardinality(ClaimantsOf(g, j))
<1>3. s.autos[j] <= m
  BY <1>2 DEF AutosGood
<1>4. m \in Nat /\ n \in Nat /\ s.autos[j] \in Nat
  BY ClaimantsFinite DEF HandleType
<1>5. m <= n
  BY <1>1, ClaimantsGrow DEF ClaimantsOf
<1>6. CASE j # i
  <2>1. r.autos[j] = s.autos[j]
    BY <1>6 DEF Recounted
  <2> HIDE DEF m, n
  <2>2. s.autos[j] <= n
    BY <1>3, <1>4, <1>5
  <2> QED
    BY <2>1, <2>2 DEF n
<1>7. CASE j = i
  <2>1. r.autos[j] = s.autos[j] + 1
    BY <1>7 DEF Recounted
  <2>2. t \notin ClaimantsOf(f, j) /\ ClaimantsOf(g, j) = ClaimantsOf(f, j) \cup {t}
    BY <1>1, <1>7 DEF ClaimantsOf
  <2>3. n = m + 1
    BY <2>2, ClaimantsFinite, FS_AddElement
  <2> HIDE DEF m, n
  <2>4. s.autos[j] + 1 <= n
    BY <1>3, <1>4, <2>3
  <2> QED
    BY <2>1, <2>4 DEF n
<1> QED
  BY <1>6, <1>7

\* A transfer that was on its way to an interface is done.
LEMMA AutosDown ==
    ASSUME NEW f, NEW s \in HandleType, AutosGood(s, f), XfersGood(f), NEW t \in Transfers,
           NEW y, XferOk(y), NEW g, Changes(f, g, t, y), NEW i \in Ifaces,
           \A j \in Ifaces : Counts(f[t], j) <=> j = i, NEW r, AutoReleased(s, r, i)
    PROVE  AutosGood(r, g)
<1>1. g[t] = y /\ \A u \in Transfers \ {t} : g[u] = f[u]
  BY ChangesIs
<1> SUFFICES ASSUME NEW j \in Ifaces, j \notin r.failed
             PROVE  r.autos[j] <= Cardinality(ClaimantsOf(g, j))
  BY DEF AutosGood
<1>2. j \notin s.failed
  BY DEF AutoReleased
<1> DEFINE m == Cardinality(ClaimantsOf(f, j))
           n == Cardinality(ClaimantsOf(g, j))
<1>3. s.autos[j] <= m
  BY <1>2 DEF AutosGood
<1>4. m \in Nat /\ n \in Nat /\ s.autos[j] \in Nat
  BY ClaimantsFinite DEF HandleType
<1>5. CASE j # i
  <2>1. r.autos[j] = s.autos[j]
    BY <1>5 DEF AutoReleased
  <2>2. m <= n
    BY <1>1, <1>5, ClaimantsGrow DEF ClaimantsOf
  <2> HIDE DEF m, n
  <2>3. s.autos[j] <= n
    BY <1>3, <1>4, <2>2
  <2> QED
    BY <2>1, <2>3 DEF n
<1>6. CASE j = i
  <2>1. r.autos[j] = IF s.autos[j] = 0 THEN 0 ELSE s.autos[j] - 1
    BY <1>6 DEF AutoReleased
  <2>2. ClaimantsOf(f, j) \ {t} \subseteq ClaimantsOf(g, j) /\ t \in ClaimantsOf(f, j)
    BY <1>1, <1>6 DEF ClaimantsOf
  <2>3. Cardinality(ClaimantsOf(f, j) \ {t}) = m - 1
    BY <2>2, ClaimantsFinite, FS_RemoveElement
  <2>4. m - 1 <= n
    BY <2>2, <2>3, ClaimantsFinite, FS_Subset
  <2> HIDE DEF m, n
  <2>5. (IF s.autos[j] = 0 THEN 0 ELSE s.autos[j] - 1) <= n
    BY <1>3, <1>4, <2>4
  <2> QED
    BY <2>1, <2>5 DEF n
<1> QED
  BY <1>5, <1>6

-----------------------------------------------------------------------------
(* The steps                                                                 *)

LEMMA NothingCountedGood ==
    ASSUME NEW s, NothingCounted(s), NEW f
    PROVE  AutosGood(s, f)
<1> SUFFICES ASSUME NEW i \in Ifaces
             PROVE  s.autos[i] <= Cardinality(ClaimantsOf(f, i))
  BY DEF AutosGood
<1>1. s.autos[i] = 0 /\ Cardinality(ClaimantsOf(f, i)) \in Nat
  BY ClaimantsFinite DEF NothingCounted
<1> QED
  BY <1>1

CancelFine(ex) == ex \in BOOLEAN /\ (device.composite /\ device.cancels => ex)

\* An open handle, and what the invariant says of it
OpenGoodState(s, f, u, ex, c) ==
    /\ HandleGood(s, TRUE) /\ XfersGood(f) /\ AutosGood(s, f) /\ u \in SetterType
    /\ CancelFine(ex) /\ c \in 1 .. MaxCalls

LEMMA OpenStateGood ==
    ASSUME device \in Devices, NEW s, NEW f, NEW u, NEW ex, NEW c, OpenGoodState(s, f, u, ex, c)
    PROVE  StateGood(TRUE, s, f, u, ex, c)
<1>1. MaxCalls \in Nat \ {0}
  BY DeviceIs
<1>2. c \in 0 .. MaxCalls /\ c # 0
  BY <1>1 DEF OpenGoodState
<1> QED
  BY <1>2 DEF OpenGoodState, StateGood, ClosedGoodState, CancelFine

LEMMA OpenedIsGood ==
    ASSUME HandleInv, opened
    PROVE  /\ device \in Devices /\ h \in HandleType
           /\ OpenGoodState(h, xfer, setter, cancelEx, calls)
<1>1. MaxCalls \in Nat \ {0}
  BY DeviceIs DEF HandleInv
<1>2. opened = TRUE /\ calls # 0 /\ calls \in 0 .. MaxCalls
  BY DEF HandleInv, StateGood, ClosedGoodState
<1>3. calls \in 1 .. MaxCalls
  BY <1>1, <1>2
<1> QED
  BY <1>2, <1>3 DEF HandleInv, StateGood, OpenGoodState, CancelFine, HandleGood

LEMMA BusyIsOpen ==
    ASSUME HandleInv, (\E t \in Transfers : xfer[t].st # "idle") \/ setter # NoSetter
    PROVE  opened
BY DEF HandleInv, StateGood, ClosedGoodState

LEMMA CalledAgain ==
    ASSUME HandleInv, Call
    PROVE  opened /\ opened = TRUE /\ calls' \in 1 .. MaxCalls
<1>1. MaxCalls \in Nat \ {0} /\ calls \in 0 .. MaxCalls /\ opened \in BOOLEAN
  BY DeviceIs DEF HandleInv, StateGood
<1> QED
  BY <1>1 DEF Call

LEMMA OpenStep ==
    ASSUME HandleInv, Open
    PROVE  StateGood(opened', h', xfer', setter', cancelEx', calls')
<1>1. device \in Devices /\ h = NoHandle /\ MaxCalls \in Nat \ {0} /\ opened' = TRUE /\ calls' = 1
  BY DeviceIs DEF HandleInv, StateGood, ClosedGoodState, Open
<1>2. 1 \in 1 .. MaxCalls
  BY <1>1
<1>3. HandleGood(h', TRUE) /\ NothingCounted(h')
  BY <1>1, OpenGood DEF Open
<1>4. AutosGood(h', xfer')
  BY <1>3, NothingCountedGood
<1>5. XfersGood(xfer') /\ setter' \in SetterType /\ CancelFine(cancelEx')
  BY DEF HandleInv, StateGood, Open, CancelFine
<1>6. OpenGoodState(h', xfer', setter', cancelEx', calls')
  BY <1>1, <1>2, <1>3, <1>4, <1>5 DEF OpenGoodState
<1> QED
  BY <1>1, <1>6, OpenStateGood

LEMMA OpenFailsStep ==
    ASSUME HandleInv, OpenFails
    PROVE  StateGood(opened', h', xfer', setter', cancelEx', calls')
<1>1. /\ device \in Devices /\ h = NoHandle /\ MaxCalls \in Nat \ {0} /\ opened = FALSE
      /\ opened' = FALSE /\ calls' = 1
  BY DeviceIs DEF HandleInv, StateGood, ClosedGoodState, OpenFails
<1>2. calls' \in 0 .. MaxCalls /\ calls' # 0
  BY <1>1
<1>3. PICK W, H, left : /\ left = HidOpened(WinusbOpened(h, W), H)
                        /\ h' = [h EXCEPT !.files = left.files, !.apis = left.apis,
                                     !.lost = [j \in Ifaces |-> left.files[j] + left.apis[j]]]
  <2>1. PICK i \in WinusbIfaces \cup HidIfaces :
           LET before == {j \in WinusbIfaces : Driver(i) = "hid" \/ j < i}
               hids == {j \in HidIfaces : Driver(i) = "hid" /\ j < i}
               left == HidOpened(WinusbOpened(h, before), hids)
           IN  h' = [h EXCEPT !.files = left.files, !.apis = left.apis,
                              !.lost = [j \in Ifaces |-> left.files[j] + left.apis[j]]]
    BY DEF OpenFails
  <2> DEFINE before == {j \in WinusbIfaces : Driver(i) = "hid" \/ j < i}
             hids == {j \in HidIfaces : Driver(i) = "hid" /\ j < i}
             left == HidOpened(WinusbOpened(h, before), hids)
  <2>2. h' = [h EXCEPT !.files = left.files, !.apis = left.apis,
                       !.lost = [j \in Ifaces |-> left.files[j] + left.apis[j]]]
    BY <2>1
  <2>3. left = HidOpened(WinusbOpened(h, before), hids)
    OBVIOUS
  <2> HIDE DEF left, before, hids
  <2> QED
    BY <2>2, <2>3
<1>4. HandleGood(h', FALSE) /\ NothingOpen(h') /\ NothingCounted(h')
  BY <1>1, <1>3, OpenFailsGood
<1>5. AutosGood(h', xfer')
  BY <1>4, NothingCountedGood
<1>6. /\ XfersGood(xfer') /\ setter' \in SetterType /\ CancelFine(cancelEx')
      /\ setter' = NoSetter /\ \A t \in Transfers : xfer'[t].st = "idle"
  BY <1>1 DEF HandleInv, StateGood, ClosedGoodState, OpenFails, CancelFine
<1> QED
  BY <1>1, <1>2, <1>4, <1>5, <1>6 DEF StateGood, ClosedGoodState, CancelFine

LEMMA CloseHandleStep ==
    ASSUME HandleInv, Close
    PROVE  StateGood(opened', h', xfer', setter', cancelEx', calls')
<1>1. opened /\ calls' \in 1 .. MaxCalls
  BY CalledAgain DEF Close
<1>2. /\ device \in Devices /\ h \in HandleType /\ MaxCalls \in Nat
      /\ OpenGoodState(h, xfer, setter, cancelEx, calls)
  BY <1>1, OpenedIsGood, DeviceIs
<1>3. calls' \in 0 .. MaxCalls /\ calls' # 0 /\ opened' = FALSE
  BY <1>1, <1>2 DEF Close
<1>4. PICK q : q = Closed(h)
  OBVIOUS
<1>5. h' = [q EXCEPT !.claimed = {}, !.by = NoHandle.by, !.autos = NoHandle.autos,
                     !.file = NoHandle.file, !.api = NoHandle.api, !.mixed = {},
                     !.found = NoHandle.found]
  BY <1>4 DEF Close
<1>6. HandleGood(h', FALSE) /\ NothingOpen(h') /\ NothingCounted(h')
  BY <1>2, <1>4, <1>5, CloseGood DEF OpenGoodState
<1>7. AutosGood(h', xfer')
  BY <1>6, NothingCountedGood
<1>8. /\ XfersGood(xfer') /\ setter' \in SetterType /\ CancelFine(cancelEx')
      /\ setter' = NoSetter /\ \A t \in Transfers : xfer'[t].st = "idle"
  BY <1>2 DEF OpenGoodState, Close
<1> QED
  BY <1>3, <1>6, <1>7, <1>8 DEF StateGood, ClosedGoodState, CancelFine

\* A call that changes only what is known of interfaces
LEMMA HandleStep ==
    ASSUME HandleInv, opened, NEW s, HandleGood(s, TRUE), AutosGood(s, xfer),
           NEW u \in SetterType, NEW c \in 1 .. MaxCalls
    PROVE  StateGood(TRUE, s, xfer, u, cancelEx, c)
<1>1. device \in Devices /\ OpenGoodState(h, xfer, setter, cancelEx, calls)
  BY OpenedIsGood
<1>2. OpenGoodState(s, xfer, u, cancelEx, c)
  BY <1>1 DEF OpenGoodState
<1> QED
  BY <1>1, <1>2, OpenStateGood

\* The counts stay, and failures are only added.
LEMMA CountsKept ==
    ASSUME NEW s, NEW f, AutosGood(s, f), NEW r, r.autos = s.autos, s.failed \subseteq r.failed
    PROVE  AutosGood(r, f)
BY DEF AutosGood

\* Only what is kept aside of claims and handles changes.
Aside(s, r) ==
    /\ r.claimed = s.claimed /\ r.mixed = s.mixed /\ r.failed = s.failed
    /\ r.autos = s.autos /\ r.by = s.by /\ KeepsHandles(s, r)

LEMMA AsideGood ==
    ASSUME NEW s, HandleGood(s, TRUE), NEW r \in HandleType, Aside(s, r)
    PROVE  HandleGood(r, TRUE) /\ \A f : AutosGood(s, f) => AutosGood(r, f)
<1>1. \A i \in Ifaces : SameAt(s, r, i)
  BY DEF Aside, KeepsHandles, SameAt
<1>2. \A i \in Ifaces : IfaceGood(r, TRUE, i) /\ UnclaimedGood(r, i)
  BY <1>1, SameGood DEF HandleGood
<1> QED
  BY <1>2 DEF HandleGood, AutosGood, Aside

LEMMA ClaimStep ==
    ASSUME HandleInv, Claim
    PROVE  StateGood(opened', h', xfer', setter', cancelEx', calls')
<1>1. opened /\ opened = TRUE /\ calls' \in 1 .. MaxCalls
  BY CalledAgain DEF Claim
<1>2. device \in Devices /\ OpenGoodState(h, xfer, setter, cancelEx, calls)
  BY <1>1, OpenedIsGood
<1>3. PICK i \in Ifaces : \E e \in ClaimInterface(h, i, "app") : h' = e.h
  BY DEF Claim
<1>4. PICK e \in ClaimInterface(h, i, "app") : h' = e.h
  BY <1>3
<1>5. ClaimEnds(h, i, "app", e)
  BY <1>2, ClaimInterfaceGood DEF OpenGoodState
<1>6. HandleGood(h', TRUE) /\ h'.autos = h.autos /\ h.failed \subseteq h'.failed
  BY <1>4, <1>5 DEF ClaimEnds
<1>7. AutosGood(h', xfer)
  BY <1>2, <1>6, CountsKept DEF OpenGoodState
<1>8. /\ opened' = opened /\ xfer' = xfer /\ setter' = setter /\ cancelEx' = cancelEx
      /\ setter \in SetterType
  BY <1>2 DEF Claim, OpenGoodState
<1> QED
  BY <1>1, <1>6, <1>7, <1>8, HandleStep

LEMMA ReleaseStep ==
    ASSUME HandleInv, Release
    PROVE  StateGood(opened', h', xfer', setter', cancelEx', calls')
<1>1. opened /\ opened = TRUE /\ calls' \in 1 .. MaxCalls
  BY CalledAgain DEF Release
<1>2. device \in Devices /\ OpenGoodState(h, xfer, setter, cancelEx, calls)
  BY <1>1, OpenedIsGood
<1>3. PICK i \in Ifaces : h' = ReleaseInterface(h, i).h
  BY DEF Release
<1>4. HandleGood(h', TRUE) /\ ReleaseKeeps(h, h', i)
  BY <1>2, <1>3, ReleaseInterfaceGood DEF OpenGoodState
<1>5. AutosGood(h', xfer)
  BY <1>2, <1>4, CountsKept DEF OpenGoodState, ReleaseKeeps
<1>6. /\ opened' = opened /\ xfer' = xfer /\ setter' = setter /\ cancelEx' = cancelEx
      /\ setter \in SetterType
  BY <1>2 DEF Release, OpenGoodState
<1> QED
  BY <1>1, <1>4, <1>5, <1>6, HandleStep

LEMMA SetterIs ==
    ASSUME HandleInv, setter.st \in {"forget", "drive", "assign"}
    PROVE  /\ opened /\ opened = TRUE /\ setter.iface \in Ifaces
           /\ setter.alt \in DOMAIN device.eps[setter.iface]
           /\ setter \in [st : {"forget", "drive", "assign"}, iface : Ifaces, alt : Nat]
<1>1. NoSetter.st = "none"
  BY DEF NoSetter
<1>2. setter # NoSetter
  BY <1>1
<1>3. opened = TRUE /\ opened
  BY <1>2 DEF HandleInv, StateGood, ClosedGoodState
<1>4. setter \in SetterType
  BY DEF HandleInv, StateGood
<1>5. /\ setter \in [st : {"forget", "drive", "assign"}, iface : Ifaces, alt : Nat]
      /\ setter.alt \in DOMAIN device.eps[setter.iface]
  BY <1>2, <1>4 DEF SetterType
<1>6. setter.iface \in Ifaces
  BY <1>5
<1> QED
  BY <1>3, <1>5, <1>6

LEMMA SetterMoves ==
    ASSUME NEW u \in [st : {"forget", "drive", "assign"}, iface : Ifaces, alt : Nat],
           u.alt \in DOMAIN device.eps[u.iface], NEW st \in {"forget", "drive", "assign"},
           NEW v, v = [u EXCEPT !.st = st]
    PROVE  v \in SetterType
<1>1. v.alt = u.alt /\ v.iface = u.iface
  OBVIOUS
<1>2. v \in [st : {"forget", "drive", "assign"}, iface : Ifaces, alt : Nat]
  OBVIOUS
<1> QED
  BY <1>1, <1>2 DEF SetterType

LEMMA SetAlternateStep ==
    ASSUME HandleInv, SetAlternate
    PROVE  StateGood(opened', h', xfer', setter', cancelEx', calls')
<1>1. opened /\ opened = TRUE /\ calls' \in 1 .. MaxCalls
  BY CalledAgain DEF SetAlternate
<1>2. device \in Devices /\ OpenGoodState(h, xfer, setter, cancelEx, calls) /\ h \in HandleType
  BY <1>1, OpenedIsGood
<1>3. PICK i \in h.claimed : \E a \in DOMAIN device.eps[i] :
                                setter' = [st |-> "forget", iface |-> i, alt |-> a]
  BY DEF SetAlternate
<1>4. PICK a \in DOMAIN device.eps[i] : setter' = [st |-> "forget", iface |-> i, alt |-> a]
  BY <1>3
<1>5. i \in Ifaces
  BY <1>2 DEF HandleType
<1>6. a \in Nat
  BY <1>2, <1>5, DeviceIs
<1>7. setter'.alt = a /\ setter'.iface = i
  BY <1>4
<1>8. setter' \in [st : {"forget", "drive", "assign"}, iface : Ifaces, alt : Nat]
  BY <1>4, <1>5, <1>6
<1>9. setter' \in SetterType
  BY <1>7, <1>8 DEF SetterType
<1>10. /\ opened' = opened /\ xfer' = xfer /\ h' = h /\ cancelEx' = cancelEx
       /\ HandleGood(h, TRUE) /\ AutosGood(h, xfer)
  BY <1>2 DEF SetAlternate, OpenGoodState
<1> QED
  BY <1>1, <1>9, <1>10, HandleStep

LEMMA AlternateForgetStep ==
    ASSUME HandleInv, AlternateForget
    PROVE  StateGood(opened', h', xfer', setter', cancelEx', calls')
<1>1. /\ opened /\ opened = TRUE /\ setter.iface \in Ifaces
      /\ setter.alt \in DOMAIN device.eps[setter.iface]
      /\ setter \in [st : {"forget", "drive", "assign"}, iface : Ifaces, alt : Nat]
  BY SetterIs DEF AlternateForget
<1>2. /\ OpenGoodState(h, xfer, setter, cancelEx, calls)
  BY <1>1, OpenedIsGood
<1>3. setter' \in SetterType
  BY <1>1, SetterMoves DEF AlternateForget
<1>4. PICK q : q = WithEndpoints(h, setter.iface, {})
  OBVIOUS
<1>5. /\ q \in HandleType /\ Reassigned(h, q, setter.iface) /\ q.failed = h.failed
      /\ HandleGood(q, TRUE)
  <2>1. {} \in SUBSET AllEndpoints /\ GoodBut(h, setter.iface) /\ UnclaimedGood(h, setter.iface)
    BY <1>1, <1>2, AllGood DEF OpenGoodState
  <2>2. /\ q \in HandleType /\ Reassigned(h, q, setter.iface) /\ q.failed = h.failed
        /\ GoodBut(q, setter.iface) /\ UnclaimedGood(q, setter.iface)
    BY <1>1, <1>4, <2>1, ForgetGood
  <2> QED
    BY <1>1, <2>2, AllGood
<1>6. AutosGood(q, xfer)
  BY <1>2, <1>5, CountsKept DEF OpenGoodState, Reassigned
<1>7. /\ opened' = opened /\ xfer' = xfer /\ cancelEx' = cancelEx /\ calls' \in 1 .. MaxCalls
  BY <1>2 DEF AlternateForget, OpenGoodState
<1>8. h' = [q EXCEPT !.crossed = @ \ {setter.iface}]
  <2>1. h \in HandleType
    BY <1>2 DEF OpenGoodState, HandleGood
  <2> QED
    BY <1>4, <2>1 DEF AlternateForget, HandleType, WithEndpoints
<1>9. h' \in HandleType
  BY <1>5, <1>8 DEF HandleType
<1>10. Aside(q, h')
  BY <1>5, <1>8 DEF HandleType, Aside, KeepsHandles
<1>11. HandleGood(h', TRUE) /\ AutosGood(h', xfer)
  BY <1>5, <1>6, <1>9, <1>10, AsideGood
<1> QED
  BY <1>1, <1>3, <1>7, <1>11, HandleStep

LEMMA AlternateDriveStep ==
    ASSUME HandleInv, AlternateDrive
    PROVE  StateGood(opened', h', xfer', setter', cancelEx', calls')
<1>1. /\ opened /\ opened = TRUE /\ setter.iface \in Ifaces
      /\ setter.alt \in DOMAIN device.eps[setter.iface]
      /\ setter \in [st : {"forget", "drive", "assign"}, iface : Ifaces, alt : Nat]
  BY SetterIs DEF AlternateDrive
<1>2. /\ OpenGoodState(h, xfer, setter, cancelEx, calls) /\ h \in HandleType
  BY <1>1, OpenedIsGood
<1>3. \/ setter' = [setter EXCEPT !.st = "assign"] /\ h' = [h EXCEPT !.alt[setter.iface] = setter.alt]
      \/ setter' = NoSetter /\ h' = [h EXCEPT !.refused = @ \cup {setter.iface}]
  BY DEF AlternateDrive
<1>4. NoSetter \in SetterType
  BY DEF SetterType
<1>5. setter' \in SetterType
  BY <1>1, <1>3, <1>4, SetterMoves
<1>6. h' \in HandleType /\ Aside(h, h')
  <2>1. CASE h' = [h EXCEPT !.alt[setter.iface] = setter.alt]
    <3>1. setter.alt \in Nat
      BY <1>1
    <3>2. h.alt \in [Ifaces -> Nat] /\ h'.alt = [h.alt EXCEPT ![setter.iface] = setter.alt]
      BY <1>2, <2>1 DEF HandleType
    <3>3. h'.alt \in [Ifaces -> Nat]
      BY <3>1, <3>2
    <3> QED
      BY <1>2, <2>1, <3>3 DEF HandleType, Aside, KeepsHandles
  <2>2. CASE h' = [h EXCEPT !.refused = @ \cup {setter.iface}]
    BY <1>1, <1>2, <2>2 DEF HandleType, Aside, KeepsHandles
  <2> QED
    BY <1>3, <2>1, <2>2
<1>7. HandleGood(h', TRUE) /\ AutosGood(h', xfer)
  BY <1>2, <1>6, AsideGood DEF OpenGoodState
<1>8. /\ opened' = opened /\ xfer' = xfer /\ cancelEx' = cancelEx /\ calls' \in 1 .. MaxCalls
  BY <1>2 DEF AlternateDrive, OpenGoodState
<1> QED
  BY <1>1, <1>5, <1>7, <1>8, HandleStep

LEMMA AlternateAssignStep ==
    ASSUME HandleInv, AlternateAssign
    PROVE  StateGood(opened', h', xfer', setter', cancelEx', calls')
<1> DEFINE i == setter.iface
           a == setter.alt
<1>1. opened /\ opened = TRUE /\ i \in Ifaces /\ a \in DOMAIN device.eps[i]
  BY SetterIs DEF AlternateAssign
<1>2. device \in Devices /\ OpenGoodState(h, xfer, setter, cancelEx, calls)
  BY <1>1, OpenedIsGood
<1>3. PICK e \in Assign(h, i, a) :
        h' = [e.h EXCEPT !.refused = IF e.ret = "ok" THEN @ \ {i} ELSE @ \cup {i}]
  BY DEF AlternateAssign
<1> HIDE DEF i, a
<1>4. GoodBut(h, i) /\ UnclaimedGood(h, i)
  BY <1>1, <1>2, AllGood DEF OpenGoodState
<1>5. GoodBut(e.h, i) /\ Reassigned(h, e.h, i) /\ UnclaimedGood(e.h, i)
  BY <1>1, <1>2, <1>4, AssignGood
<1>6. /\ HandleGood(e.h, TRUE) /\ e.h.autos = h.autos /\ h.failed \subseteq e.h.failed
      /\ e.h \in HandleType
  BY <1>1, <1>5, AllGood DEF Reassigned, HandleGood
<1>a. AutosGood(e.h, xfer)
  BY <1>2, <1>6, CountsKept DEF OpenGoodState
<1>b. h' \in HandleType /\ Aside(e.h, h')
  BY <1>1, <1>3, <1>6 DEF HandleType, Aside, KeepsHandles
<1>7. HandleGood(h', TRUE) /\ AutosGood(h', xfer)
  BY <1>6, <1>a, <1>b, AsideGood
<1>8. /\ opened' = opened /\ xfer' = xfer /\ cancelEx' = cancelEx /\ calls' \in 1 .. MaxCalls
      /\ setter' \in SetterType
  BY <1>2 DEF AlternateAssign, OpenGoodState, SetterType
<1> QED
  BY <1>1, <1>6, <1>7, <1>8, HandleStep

\* A step of one transfer
LEMMA XferStep ==
    ASSUME HandleInv, opened, NEW t \in Transfers, NEW y, XferOk(y), NEW g, Changes(xfer, g, t, y),
           NEW s, HandleGood(s, TRUE), AutosGood(s, g), NEW c \in 1 .. MaxCalls
    PROVE  StateGood(TRUE, s, g, setter, cancelEx, c)
<1>1. device \in Devices /\ OpenGoodState(h, xfer, setter, cancelEx, calls)
  BY OpenedIsGood
<1>2. XfersGood(g)
  BY <1>1, ChangesIs DEF OpenGoodState
<1>3. OpenGoodState(s, g, setter, cancelEx, c)
  BY <1>1, <1>2 DEF OpenGoodState
<1> QED
  BY <1>1, <1>3, OpenStateGood

LEMMA XferIs ==
    ASSUME HandleInv, NEW t \in Transfers
    PROVE  /\ XferOk(xfer[t]) /\ (xfer[t].st # "idle" => opened /\ opened = TRUE)
           /\ xfer \in [Transfers -> XferType]
           /\ xfer[t].st \in {"find", "claim"} => Trying(xfer[t])
           /\ xfer[t].st \in {"drive", "call"} /\ xfer[t].kind = "control" => Trying(xfer[t])
<1>1. opened \in BOOLEAN
  BY DEF HandleInv, StateGood
<1>2. XferOk(xfer[t]) /\ xfer \in [Transfers -> XferType]
  BY DEF HandleInv, StateGood, XfersGood, XferOk
<1>3. XferGood(xfer[t])
  BY <1>2 DEF XferOk
<1> QED
  BY <1>1, <1>2, <1>3, BusyIsOpen DEF Trying, XferGood

\* A transfer that is not counted for an interface
Uncounted(x) ==
    x.st \in {"idle", "find", "claim"} \/ (x.st \in {"drive", "call"} /\ x.kind # "control")

LEMMA NotCounting ==
    ASSUME NEW s, NEW r, r.autos = s.autos, s.failed \subseteq r.failed, NEW x,
           Uncounted(x), NEW y
    PROVE  AutosKept(s, r, x, y)
BY DEF AutosKept, Counts, Uncounted

\* A step of a transfer that is not counted for an interface
LEMMA UncountedStep ==
    ASSUME HandleInv, opened, NEW t \in Transfers, NEW y, XferOk(y), NEW g, Changes(xfer, g, t, y),
           Uncounted(xfer[t]), NEW s, HandleGood(s, TRUE), s.autos = h.autos,
           h.failed \subseteq s.failed, NEW c \in 1 .. MaxCalls
    PROVE  StateGood(TRUE, s, g, setter, cancelEx, c)
<1>1. h \in HandleType /\ AutosGood(h, xfer) /\ XfersGood(xfer)
  BY OpenedIsGood DEF OpenGoodState
<1>2. AutosKept(h, s, xfer[t], y)
  BY NotCounting
<1>3. AutosGood(s, g)
  BY <1>1, <1>2, AutosKeptGood
<1> QED
  BY <1>3, XferStep

LEMMA SubmitControlStep ==
    ASSUME HandleInv, NEW t \in Transfers, SubmitControl(t)
    PROVE  StateGood(opened', h', xfer', setter', cancelEx', calls')
<1>1. opened /\ opened = TRUE /\ calls' \in 1 .. MaxCalls
  BY CalledAgain DEF SubmitControl
<1>2. device \in Devices /\ OpenGoodState(h, xfer, setter, cancelEx, calls)
  BY <1>1, OpenedIsGood
<1>3. /\ opened' = opened /\ setter' = setter /\ h' = h /\ cancelEx' = cancelEx
      /\ HandleGood(h, TRUE) /\ AutosGood(h, xfer) /\ setter \in SetterType /\ xfer[t].st = "idle"
  BY <1>2 DEF SubmitControl, OpenGoodState
<1>4. PICK q, target :
         /\ CanAsk(q)
         /\ xfer' = IF Attempts(target) = {} THEN xfer
                    ELSE [xfer EXCEPT ![t] = [Began(xfer[t], "control") EXCEPT
                            !.st = "find", !.req = q, !.tries = Attempts(target)]]
  <2>1. PICK q \in {"vendor", "set same", "set other", "describe", "report"} :
        \E target \in {Unknown} \cup Ifaces \cup {InterfaceOf(ep) : ep \in AllEndpoints} :
         /\ ~device.composite => target = Unknown
         /\ xfer' = IF Attempts(target) = {} THEN xfer
                    ELSE [xfer EXCEPT ![t] = [Began(xfer[t], "control") EXCEPT
                            !.st = "find", !.req = q, !.tries = Attempts(target)]]
    BY DEF SubmitControl
  <2>2. CanAsk(q)
    BY DEF CanAsk
  <2> QED
    BY <2>1, <2>2
<1>5. CASE Attempts(target) = {}
  BY <1>1, <1>3, <1>4, <1>5, HandleStep
<1>6. CASE Attempts(target) # {}
  <2> DEFINE T == Attempts(target)
             y == Tried(xfer[t], q, T)
  <2>1. CanTry(T)
    BY <1>2, <1>6, AttemptsTyped DEF CanTry
  <2>2. Changes(xfer, xfer', t, y)
    BY <1>4, <1>6 DEF Changes, Tried
  <2> HIDE DEF T
  <2>3. XferOk(y)
    BY <1>3, <1>4, <2>1, XferIs, SubmitControlOk
  <2> HIDE DEF y
  <2> QED
    BY <1>1, <1>3, <2>2, <2>3, UncountedStep DEF Uncounted
<1> QED
  BY <1>5, <1>6

LEMMA FindStep ==
    ASSUME HandleInv, NEW t \in Transfers, Find(t)
    PROVE  StateGood(opened', h', xfer', setter', cancelEx', calls')
<1>1. opened /\ opened = TRUE /\ Trying(xfer[t]) /\ xfer[t].st = "find"
  BY XferIs DEF Find
<1>2. device \in Devices /\ OpenGoodState(h, xfer, setter, cancelEx, calls)
  BY <1>1, OpenedIsGood
<1>3. /\ opened' = opened /\ setter' = setter /\ h' = h /\ cancelEx' = cancelEx
      /\ HandleGood(h, TRUE) /\ calls' \in 1 .. MaxCalls
  BY <1>2 DEF Find, OpenGoodState
<1> DEFINE i == ValidInterface(h, DriverTried(t))
           st == IF i = Unknown THEN "claim" ELSE "drive"
           b == xfer[t].buf /\ DriverTried(t) # "hid"
           y == Moved(xfer[t], i, st, b)
<1>4. i \in Ifaces \cup {Unknown}
  <2> DEFINE S == {j \in Ifaces : /\ h.file[j] # "none" /\ h.api[j] = "valid"
                                  /\ Driver(j) = DriverTried(t)}
  <2>1. S \in SUBSET Nat
    BY <1>2, DeviceIs
  <2>2. i = FirstOf(S)
    BY DEF ValidInterface
  <2>3. S \subseteq Ifaces
    OBVIOUS
  <2> HIDE DEF S, i
  <2> QED
    BY <2>1, <2>2, <2>3, FirstOfIs
<1>5. XferFields(xfer[t])
  BY <1>1, XferTyped DEF Trying, XferOk
<1>6. b \in BOOLEAN /\ (b => xfer[t].buf)
  BY <1>5 DEF XferFields
<1>7. xfer' = [xfer EXCEPT ![t] = [xfer[t] EXCEPT !.iface = i, !.st = st, !.buf = b]]
  <2>1. xfer[t] \in XferType
    BY <1>1 DEF Trying, XferOk
  <2> QED
    BY <2>1 DEF Find, XferType
<1>8. st \in {"claim", "drive"} /\ (st = "drive" => i # Unknown)
  OBVIOUS
<1>9. Changes(xfer, xfer', t, y)
  BY <1>7 DEF Changes, Moved
<1> HIDE DEF i, b, st
<1>10. Trying(y)
  BY <1>1, <1>4, <1>6, <1>8, MovesOk
<1> HIDE DEF y
<1>11. XferOk(y)
  BY <1>10 DEF Trying
<1> QED
  BY <1>1, <1>3, <1>9, <1>11, UncountedStep DEF Uncounted

LEMMA AutoClaimStep ==
    ASSUME HandleInv, NEW t \in Transfers, AutoClaim(t)
    PROVE  StateGood(opened', h', xfer', setter', cancelEx', calls')
<1>1. opened /\ opened = TRUE /\ Trying(xfer[t]) /\ xfer[t].st = "claim"
  BY XferIs DEF AutoClaim
<1>2. device \in Devices /\ OpenGoodState(h, xfer, setter, cancelEx, calls) /\ h \in HandleType
  BY <1>1, OpenedIsGood
<1>3. /\ opened' = opened /\ setter' = setter /\ cancelEx' = cancelEx
      /\ HandleGood(h, TRUE) /\ calls' \in 1 .. MaxCalls
  BY <1>2 DEF AutoClaim, OpenGoodState
<1> DEFINE S == {j \in Ifaces : Driver(j) = DriverTried(t) /\ xfer[t].iface < j}
           i == FirstOf(S)
<1>4. /\ i = Unknown \/ i \in Ifaces
      /\ i \in Ifaces => i # Unknown
  <2>1. S \in SUBSET Nat /\ S \subseteq Ifaces /\ Ifaces \in SUBSET Nat /\ -1 \notin Nat
    BY <1>2, DeviceIs
  <2> HIDE DEF S
  <2> QED
    BY <2>1, FirstOfIs DEF Unknown
<1>5. \/ i = Unknown /\ xfer' = [xfer EXCEPT ![t] = Attempted(xfer[t], "not found")] /\ h' = h
      \/ /\ i # Unknown
         /\ \E e \in ClaimInterface(h, i, "auto") :
              /\ h' = IF e.ret = "ok" THEN Counted(e.h, i) ELSE e.h
              /\ xfer' = [xfer EXCEPT ![t] = [xfer[t] EXCEPT
                            !.iface = i, !.st = IF e.ret = "ok" THEN "drive" ELSE "claim"]]
  BY DEF AutoClaim
<1> HIDE DEF S, i
<1>6. CASE i = Unknown
  <2> DEFINE y == Attempted(xfer[t], "not found")
  <2>1. Changes(xfer, xfer', t, y) /\ h' = h
    BY <1>5, <1>6 DEF Changes
  <2>2. XferOk(y)
    BY <1>1, AttemptedOk
  <2> HIDE DEF y
  <2> QED
    BY <1>1, <1>3, <2>1, <2>2, UncountedStep DEF Uncounted
<1>7. CASE i # Unknown
  <2>1. i \in Ifaces
    BY <1>4, <1>7
  <2>2. PICK e \in ClaimInterface(h, i, "auto") :
              /\ h' = IF e.ret = "ok" THEN Counted(e.h, i) ELSE e.h
              /\ xfer' = [xfer EXCEPT ![t] = [xfer[t] EXCEPT
                            !.iface = i, !.st = IF e.ret = "ok" THEN "drive" ELSE "claim"]]
    BY <1>5, <1>7
  <2> DEFINE st == IF e.ret = "ok" THEN "drive" ELSE "claim"
             y == Moved(xfer[t], i, st, xfer[t].buf)
  <2>3. st \in {"claim", "drive"}
    OBVIOUS
  <2>4. Changes(xfer, xfer', t, y)
    <3>1. xfer[t] \in XferType
      BY <1>1 DEF Trying, XferOk
    <3>2. [xfer[t] EXCEPT !.iface = i, !.st = st] = [xfer[t] EXCEPT !.iface = i, !.st = st, !.buf = xfer[t].buf]
      BY <3>1 DEF XferType
    <3> QED
      BY <2>2, <3>2 DEF Changes, Moved
  <2>5. (st = "drive" <=> e.ret = "ok") /\ (st = "claim" <=> e.ret # "ok")
    OBVIOUS
  <2> HIDE DEF st
  <2>6. XferFields(xfer[t])
    BY <1>1, XferTyped DEF Trying, XferOk
  <2>7. Trying(y) /\ y.st = st /\ y.iface = i /\ y.kind = "control"
    <3>1. i \in Ifaces \cup {Unknown} /\ (st = "drive" => i # Unknown)
      BY <1>7, <2>1
    <3>2. xfer[t].buf \in BOOLEAN /\ (xfer[t].buf => xfer[t].buf)
      BY <2>6 DEF XferFields
    <3> QED
      BY <1>1, <2>3, <3>1, <3>2, MovesOk
  <2> HIDE DEF y
  <2>8. XferOk(y)
    BY <2>7 DEF Trying
  <2>9. ClaimEnds(h, i, "auto", e)
    BY <1>2, <1>3, <2>1, ClaimInterfaceGood
  <2>10. CASE e.ret # "ok"
    <3>1. HandleGood(h', TRUE) /\ h'.autos = h.autos /\ h.failed \subseteq h'.failed
      BY <2>2, <2>9, <2>10 DEF ClaimEnds
    <3> QED
      BY <1>1, <1>3, <2>4, <2>8, <3>1, UncountedStep DEF Uncounted
  <2>11. CASE e.ret = "ok"
    <3>1. /\ HandleGood(e.h, TRUE) /\ e.h.autos = h.autos /\ h.failed \subseteq e.h.failed
          /\ e.h.by[i] = "auto" \/ i \in e.h.mixed
      BY <2>9, <2>11 DEF ClaimEnds
    <3>2. h' = Counted(e.h, i)
      BY <2>2, <2>11
    <3>3. HandleGood(h', TRUE) /\ Recounted(e.h, h', i, e.h.autos[i] + 1)
      BY <2>1, <3>1, <3>2, CountedGood
    <3>4. Counts(y, i)
      BY <2>5, <2>7, <2>11 DEF Counts
    <3>5. \A j \in Ifaces : ~Counts(xfer[t], j)
      BY <1>1 DEF Counts
    <3>6. h' \in HandleType /\ e.h \in HandleType
      BY <3>1, <3>3 DEF HandleGood
    <3>7. Recounted(e.h, h', i, h.autos[i] + 1)
      BY <3>1, <3>3
    <3>8. AutosGood(h, xfer) /\ XfersGood(xfer)
      BY <1>2 DEF OpenGoodState
    <3>9. AutosGood(h', xfer')
      BY <1>2, <2>1, <2>4, <2>8, <3>1, <3>4, <3>5, <3>6, <3>7, <3>8, AutosUp
    <3> QED
      BY <1>1, <1>3, <2>4, <2>8, <3>3, <3>9, XferStep
  <2> QED
    BY <2>10, <2>11
<1> QED
  BY <1>6, <1>7

AnswerIs(a, r, st, b) == a.ret = r /\ a.st = st /\ a.buf = b

LEMMA AnswersIs ==
    ASSUME NEW r, NEW st, NEW b, NEW a, a = Answers(r, st, b)
    PROVE  AnswerIs(a, r, st, b)
BY DEF Answers, AnswerIs

\* The driver's answers to a control transfer
LEMMA ControlAnswers ==
    ASSUME NEW i, NEW v, NEW req, NEW a,
           a \in (IF Driver(i) = "hid" THEN HidControl(req) ELSE WinusbControl(v, req))
    PROVE  /\ a.buf \in BOOLEAN
           /\ a.ret = "ok" => /\ a.st \in {"flying", "ended"}
                              /\ a.st = "flying" /\ Driver(i) = "hid" => a.buf
<1>1. CASE Driver(i) = "hid"
  <2>1. a \in HidControl(req)
    BY <1>1
  <2>2. \/ a = Answers("not supported", "idle", FALSE) \/ a = Answers("invalid", "idle", FALSE)
        \/ a = Answers("io", "idle", FALSE) \/ a = Answers("overflow", "idle", FALSE)
        \/ a = Answers("ok", "ended", FALSE) \/ a = Answers("ok", "flying", TRUE)
    BY <2>1 DEF HidControl
  <2>3. \/ \E r \in {"not supported", "invalid", "io", "overflow"} : AnswerIs(a, r, "idle", FALSE)
        \/ AnswerIs(a, "ok", "ended", FALSE) \/ AnswerIs(a, "ok", "flying", TRUE)
    BY <2>2, AnswersIs
  <2> QED
    BY <2>3 DEF AnswerIs
<1>2. CASE Driver(i) # "hid"
  <2>1. a \in WinusbControl(v, req)
    BY <1>2
  <2>2. \/ a = Answers("invalid", "idle", FALSE) \/ a = Answers("io", "idle", FALSE)
        \/ a = Answers("ok", "ended", FALSE) \/ a = Answers("ok", "flying", FALSE)
    BY <2>1 DEF WinusbControl
  <2>3. \/ \E r \in {"invalid", "io"} : AnswerIs(a, r, "idle", FALSE)
        \/ AnswerIs(a, "ok", "ended", FALSE) \/ AnswerIs(a, "ok", "flying", FALSE)
    BY <2>2, AnswersIs
  <2> QED
    BY <1>2, <2>3 DEF AnswerIs
<1> QED
  BY <1>1, <1>2

\* An interface is marked as failed.
LEMMA FailedStays ==
    ASSUME NEW s, HandleGood(s, TRUE), NEW i \in Ifaces, NEW r,
           r = [s EXCEPT !.failed = @ \cup {i}]
    PROVE  HandleGood(r, TRUE) /\ r.autos = s.autos /\ r.failed = s.failed \cup {i}
<1>1. GoodBut(s, i)
  BY AllGood
<1>2. /\ GoodBut(r, i) /\ UnclaimedGood(r, i) /\ Reassigned(s, r, i)
      /\ r.failed = s.failed \cup {i}
  BY <1>1, FailedGood
<1> QED
  BY <1>2, AllGood DEF Reassigned

LEMMA TakeHandleStep ==
    ASSUME HandleInv, NEW t \in Transfers, TakeHandle(t)
    PROVE  StateGood(opened', h', xfer', setter', cancelEx', calls')
<1>1. opened /\ opened = TRUE /\ XferOk(xfer[t]) /\ xfer[t].st = "drive"
  BY XferIs DEF TakeHandle
<1>2. /\ device \in Devices /\ OpenGoodState(h, xfer, setter, cancelEx, calls)
      /\ h \in HandleType /\ AutosGood(h, xfer) /\ XfersGood(xfer)
  BY <1>1, OpenedIsGood DEF OpenGoodState
<1>3. /\ opened' = opened /\ setter' = setter /\ cancelEx' = cancelEx /\ h' = h
      /\ HandleGood(h, TRUE) /\ calls' \in 1 .. MaxCalls
  BY <1>2 DEF TakeHandle, OpenGoodState
<1> DEFINE v == h.api[xfer[t].iface]
           y == AskedFor(xfer[t], v)
<1>4. v \in {"none", "valid"}
  <2>1. XferFields(xfer[t]) /\ XferGood(xfer[t])
    BY <1>1, XferTyped DEF XferOk
  <2>2. xfer[t].iface \in Ifaces
    BY <1>1, <2>1 DEF XferFields, XferGood
  <2> QED
    BY <1>2, <2>2 DEF HandleType
<1>5. Changes(xfer, xfer', t, y)
  <2>1. xfer[t] \in XferType /\ xfer \in [Transfers -> XferType]
    BY <1>1, <1>2 DEF XferOk, XfersGood
  <2>2. xfer' = [xfer EXCEPT ![t].st = "call", ![t].handle = v]
    BY DEF TakeHandle
  <2> HIDE DEF v
  <2> QED
    BY <2>1, <2>2 DEF Changes, AskedFor, XferType
<1> HIDE DEF v
<1>6. XferOk(y) /\ y.st = "call" /\ y.iface = xfer[t].iface /\ y.kind = xfer[t].kind
  BY <1>1, <1>4, AskedOk
<1> HIDE DEF y
<1>7. AutosKept(h, h, xfer[t], y)
  BY <1>1, <1>6 DEF AutosKept, Counts
<1>8. AutosGood(h, xfer')
  BY <1>2, <1>5, <1>6, <1>7, AutosKeptGood
<1> QED
  BY <1>1, <1>3, <1>5, <1>6, <1>8, XferStep

LEMMA DriveStep ==
    ASSUME HandleInv, NEW t \in Transfers, Drive(t)
    PROVE  StateGood(opened', h', xfer', setter', cancelEx', calls')
<1>1. opened /\ opened = TRUE /\ Trying(xfer[t]) /\ xfer[t].st = "call"
  BY XferIs DEF Drive
<1>2. /\ device \in Devices /\ OpenGoodState(h, xfer, setter, cancelEx, calls)
      /\ h \in HandleType /\ AutosGood(h, xfer) /\ XfersGood(xfer)
  BY <1>1, OpenedIsGood DEF OpenGoodState
<1>3. /\ opened' = opened /\ setter' = setter /\ cancelEx' = cancelEx
      /\ HandleGood(h, TRUE) /\ calls' \in 1 .. MaxCalls
  BY <1>2 DEF Drive, OpenGoodState
<1> DEFINE i == xfer[t].iface
<1>4. i \in Ifaces
  <2>1. XferFields(xfer[t]) /\ XferGood(xfer[t])
    BY <1>1, XferTyped DEF Trying, XferOk
  <2> QED
    BY <1>1, <2>1 DEF XferFields, XferGood
<1>5. PICK a \in (IF Driver(i) = "hid" THEN HidControl(xfer[t].req)
                  ELSE WinusbControl(xfer[t].handle, xfer[t].req)) :
         /\ xfer' = [xfer EXCEPT ![t] = IF a.ret = "ok"
                       THEN [Idle(xfer[t]) EXCEPT !.kind = "control", !.st = a.st,
                                                  !.num = xfer[t].iface, !.buf = @ \/ a.buf]
                     ELSE Attempted(xfer[t], a.ret)]
         /\ h' = IF a.ret = "ok" THEN h ELSE [h EXCEPT !.failed = @ \cup {i}]
  BY DEF Drive
<1>6. /\ a.buf \in BOOLEAN
      /\ a.ret = "ok" => /\ a.st \in {"flying", "ended"}
                         /\ a.st = "flying" /\ Driver(i) = "hid" => a.buf
  BY <1>5, ControlAnswers
<1>7. CASE a.ret = "ok"
  <2> DEFINE y == Driven(xfer[t], a.st, i, a.buf)
  <2>1. Changes(xfer, xfer', t, y) /\ h' = h
    BY <1>5, <1>7 DEF Changes, Driven
  <2>2. a.st \in {"flying", "ended"} /\ (a.st = "flying" /\ Driver(i) = "hid" => a.buf)
    BY <1>6, <1>7
  <2> HIDE DEF i
  <2>3. XferOk(y) /\ y.st = a.st /\ y.num = i
    BY <1>1, <1>4, <1>6, <2>2, DrivenOk
  <2> HIDE DEF y
  <2>4. AutosKept(h, h, xfer[t], y)
    BY <1>1, <2>2, <2>3 DEF AutosKept, Counts, i
  <2>5. AutosGood(h', xfer')
    BY <1>2, <2>1, <2>3, <2>4, AutosKeptGood
  <2> QED
    BY <1>1, <1>3, <2>1, <2>3, <2>5, XferStep
<1>8. CASE a.ret # "ok"
  <2> DEFINE y == Attempted(xfer[t], a.ret)
  <2>1. Changes(xfer, xfer', t, y) /\ h' = [h EXCEPT !.failed = @ \cup {i}]
    BY <1>5, <1>8 DEF Changes
  <2>2. XferOk(y)
    BY <1>1, AttemptedOk
  <2> HIDE DEF y, i
  <2>3. HandleGood(h', TRUE) /\ h'.autos = h.autos /\ h'.failed = h.failed \cup {i}
    BY <1>3, <1>4, <2>1, FailedStays
  <2>4. AutosKept(h, h', xfer[t], y)
    BY <1>1, <2>3 DEF AutosKept, Counts, i
  <2>5. AutosGood(h', xfer')
    BY <1>2, <2>1, <2>2, <2>4, AutosKeptGood
  <2> QED
    BY <1>1, <1>3, <2>1, <2>2, <2>3, <2>5, XferStep
<1> QED
  BY <1>7, <1>8

\* The interface that has an endpoint, and the driver's answers to a pipe
LEMMA EndpointInterface ==
    ASSUME device \in Devices, HandleGood(h, TRUE), NEW ep, NEW i, i = InterfaceByEndpoint(h, ep),
           i # Unknown
    PROVE  /\ i \in Ifaces /\ h.api[i] = "valid" /\ Driver(i) \in {"winusb", "hid"}
           /\ Driver(i) = "winusb" /\ device.composite => device.path[i]
<1> DEFINE S == {j \in Ifaces : h.api[j] = "valid" /\ ep \in h.eps[j]}
<1>1. S \in SUBSET Nat /\ \A j \in S : j \in Ifaces /\ h.api[j] = "valid"
  BY DeviceIs
<1>2. i = FirstOf(S)
  BY DEF InterfaceByEndpoint
<1> HIDE DEF S
<1>3. i \in S
  BY <1>1, <1>2, FirstOfIs
<1>4. i \in Ifaces /\ h.api[i] = "valid"
  BY <1>1, <1>3
<1>5. DriverGood(h, TRUE, i)
  BY <1>4 DEF HandleGood, IfaceGood
<1> QED
  BY <1>4, <1>5 DEF DriverGood

LEMMA PipeAnswers ==
    ASSUME NEW i, NEW kind, NEW ep, NEW v, NEW buf \in BOOLEAN, NEW a,
           a \in (IF Driver(i) = "hid" THEN HidPipe(kind, ep, buf) ELSE WinusbPipe(v, kind, buf))
    PROVE  PipeAnswer(i, buf, a)
<1>1. CASE Driver(i) = "hid"
  <2>1. a \in HidPipe(kind, ep, buf)
    BY <1>1
  <2>2. \/ a = Answers("not supported", "idle", buf) \/ a = Answers("io", "idle", FALSE)
        \/ a = Answers("overflow", "idle", TRUE) \/ a = Answers("ok", "flying", TRUE)
        \/ a = Answers("ok", "ended", TRUE) \/ a = Answers("ok", "ended", FALSE)
    BY <2>1 DEF HidPipe
  <2>3. \/ AnswerIs(a, "not supported", "idle", buf) \/ AnswerIs(a, "io", "idle", FALSE)
        \/ AnswerIs(a, "overflow", "idle", TRUE) \/ AnswerIs(a, "ok", "flying", TRUE)
        \/ AnswerIs(a, "ok", "ended", TRUE) \/ AnswerIs(a, "ok", "ended", FALSE)
    BY <2>2, AnswersIs
  <2> QED
    BY <2>3 DEF PipeAnswer, AnswerIs
<1>2. CASE Driver(i) # "hid"
  <2>1. a \in WinusbPipe(v, kind, buf)
    BY <1>2
  <2>2. \/ a = Answers("not supported", "idle", buf) \/ a = Answers("io", "idle", buf)
        \/ a = Answers("ok", "flying", buf) \/ a = Answers("ok", "ended", buf)
    BY <2>1 DEF WinusbPipe
  <2>3. \/ \E r \in {"not supported", "io"} : AnswerIs(a, r, "idle", buf)
        \/ AnswerIs(a, "ok", "flying", buf) \/ AnswerIs(a, "ok", "ended", buf)
    BY <2>2, AnswersIs
  <2> QED
    BY <1>2, <2>3 DEF PipeAnswer, AnswerIs
<1> QED
  BY <1>1, <1>2

\* The transfers that have found an interface are changed.
WithFound(s, i, S) == [s EXCEPT !.found[i] = S]

LEMMA FoundChanged ==
    ASSUME NEW s, HandleGood(s, TRUE), NEW i \in Ifaces, NEW S \in SUBSET Transfers,
           NEW r, r = WithFound(s, i, S)
    PROVE  /\ HandleGood(r, TRUE) /\ Aside(s, r) /\ KeepsEnds(s, r)
           /\ r.found[i] = S /\ \A j \in Ifaces \ {i} : r.found[j] = s.found[j]
<1>1. s \in HandleType
  BY DEF HandleGood
<1>2. s.found \in [Ifaces -> SUBSET Transfers] /\ r.found = [s.found EXCEPT ![i] = S]
  BY <1>1 DEF HandleType, WithFound
<1>3. /\ r.found \in [Ifaces -> SUBSET Transfers] /\ r.found[i] = S
      /\ \A j \in Ifaces \ {i} : r.found[j] = s.found[j]
  BY <1>2
<1>4. r \in HandleType
  BY <1>1, <1>3 DEF HandleType, WithFound
<1>5. Aside(s, r) /\ KeepsEnds(s, r)
  BY <1>1 DEF WithFound, HandleType, Aside, KeepsHandles, KeepsEnds
<1> QED
  BY <1>3, <1>4, <1>5, AsideGood

\* A transfer is sent to the interface i that has its endpoint, or refused.
PipeSent(t, kind, b, i, ep) ==
    /\ IsPipe(kind) /\ b \in BOOLEAN /\ (b => xfer[t].buf) /\ ep \in AllEndpoints
    /\ i = InterfaceByEndpoint(h, ep)
    /\ i = Unknown => /\ Changes(xfer, xfer', t, Refuses(Queued(xfer[t], kind, b), "not found"))
                      /\ h' = h
    /\ i # Unknown => /\ Changes(xfer, xfer', t, Sent(Queued(xfer[t], kind, b), i, ep))
                      /\ h' = [h EXCEPT !.found[i] = @ \cup {t}]

LEMMA SubmitPipeIs ==
    ASSUME NEW t \in Transfers, XferOk(xfer[t]), SubmitPipe(t)
    PROVE  \E kind, b, i, ep : PipeSent(t, kind, b, i, ep)
<1>1. PICK ep \in AllEndpoints, kind \in {"bulk", "iso"} :
        LET i == InterfaceByEndpoint(h, ep)
            drops == kind = "bulk" /\ IF i # Unknown THEN Driver(i) = "hid"
                                      ELSE ~device.composite /\ Driver(0) = "hid"
            x == [Began(xfer[t], kind) EXCEPT !.buf = @ /\ ~drops]
        IN  /\ xfer' = [xfer EXCEPT ![t] =
                          IF i = Unknown THEN Refuses(x, "not found")
                          ELSE [x EXCEPT !.st = "drive", !.iface = i, !.ep = ep]]
            /\ h' = IF i = Unknown THEN h ELSE [h EXCEPT !.found[i] = @ \cup {t}]
  BY DEF SubmitPipe
<1> DEFINE i == InterfaceByEndpoint(h, ep)
           drops == kind = "bulk" /\ IF i # Unknown THEN Driver(i) = "hid"
                                     ELSE ~device.composite /\ Driver(0) = "hid"
           b == xfer[t].buf /\ ~drops
           x == [Began(xfer[t], kind) EXCEPT !.buf = @ /\ ~drops]
<1>2. xfer[t].buf \in BOOLEAN
  BY DEF XferOk, XferType
<1>3. x = Queued(xfer[t], kind, b)
  <2>1. xfer[t] \in XferType
    BY DEF XferOk
  <2>2. Began(xfer[t], kind).buf = xfer[t].buf
    BY <2>1 DEF XferType, Began
  <2> HIDE DEF drops
  <2> QED
    BY <2>2 DEF Queued
<1>4. /\ xfer' = [xfer EXCEPT ![t] = IF i = Unknown THEN Refuses(x, "not found")
                                     ELSE [x EXCEPT !.st = "drive", !.iface = i, !.ep = ep]]
      /\ h' = IF i = Unknown THEN h ELSE [h EXCEPT !.found[i] = @ \cup {t}]
  BY <1>1
<1>5. b \in BOOLEAN /\ (b => xfer[t].buf) /\ IsPipe(kind) /\ i = InterfaceByEndpoint(h, ep)
  BY <1>2 DEF IsPipe
<1> HIDE DEF x, b, i, drops
<1>6. PipeSent(t, kind, b, i, ep)
  BY <1>3, <1>4, <1>5 DEF PipeSent, Changes, Sent
<1> QED
  BY <1>6

LEMMA SubmitPipeStep ==
    ASSUME HandleInv, NEW t \in Transfers, SubmitPipe(t)
    PROVE  StateGood(opened', h', xfer', setter', cancelEx', calls')
<1>1. opened /\ opened = TRUE /\ calls' \in 1 .. MaxCalls
  BY CalledAgain DEF SubmitPipe
<1>2. device \in Devices /\ OpenGoodState(h, xfer, setter, cancelEx, calls) /\ h \in HandleType
  BY <1>1, OpenedIsGood
<1>3. /\ opened' = opened /\ setter' = setter /\ cancelEx' = cancelEx
      /\ HandleGood(h, TRUE) /\ xfer[t].st = "idle" /\ XferOk(xfer[t])
  BY <1>2, XferIs DEF SubmitPipe, OpenGoodState
<1>4. PICK kind, b, i, ep : PipeSent(t, kind, b, i, ep)
  BY <1>3, SubmitPipeIs
<1>5. /\ IsPipe(kind) /\ b \in BOOLEAN /\ (b => xfer[t].buf) /\ ep \in AllEndpoints
      /\ i = InterfaceByEndpoint(h, ep)
  BY <1>4 DEF PipeSent
<1>6. PICK x : x = Queued(xfer[t], kind, b)
  OBVIOUS
<1>7. /\ x \in XferType /\ x.fds = x.over + 1 /\ x.kind = kind
      /\ (x.buf => x.over > 0) /\ x.over \in Nat
  BY <1>3, <1>5, <1>6, QueuedIs
<1>8. CASE i = Unknown
  <2>1. PICK y : y = Refuses(x, "not found")
    OBVIOUS
  <2>2. Changes(xfer, xfer', t, y) /\ h' = h
    BY <1>4, <1>6, <1>8, <2>1 DEF PipeSent
  <2>3. /\ y \in XferType /\ IsIdle(y) /\ y.fds = y.over /\ y.buf = x.buf /\ y.over = x.over
    <3>1. PICK e : e = "not found"
      OBVIOUS
    <3>2. e # "overflow" /\ y = Refuses(x, e)
      BY <2>1, <3>1
    <3> QED
      BY <1>7, <3>2, RefusesIs
  <2>4. XferOk(y)
    BY <1>7, <2>3, IdleOk
  <2> QED
    BY <1>1, <1>3, <2>2, <2>4, UncountedStep DEF Uncounted
<1>9. CASE i # Unknown
  <2>1. PICK y : y = Sent(x, i, ep)
    OBVIOUS
  <2>2. Changes(xfer, xfer', t, y) /\ h' = [h EXCEPT !.found[i] = @ \cup {t}]
    BY <1>4, <1>6, <1>9, <2>1 DEF PipeSent
  <2>3. /\ i \in Ifaces /\ Driver(i) \in {"winusb", "hid"}
        /\ (Driver(i) = "winusb" /\ device.composite => device.path[i])
    BY <1>2, <1>3, <1>5, <1>9, EndpointInterface
  <2>4. XferOk(y)
    BY <1>5, <1>7, <1>9, <2>1, <2>3, SentOk DEF PipeOn
  <2>5. h' = WithFound(h, i, h.found[i] \cup {t}) /\ h.found[i] \cup {t} \in SUBSET Transfers
    BY <1>2, <2>2, <2>3 DEF HandleType, WithFound
  <2>6. HandleGood(h', TRUE) /\ Aside(h, h')
    BY <1>3, <2>3, <2>5, FoundChanged
  <2>7. h'.autos = h.autos /\ h.failed \subseteq h'.failed
    BY <2>6 DEF Aside
  <2> QED
    BY <1>1, <1>3, <2>2, <2>4, <2>6, <2>7, UncountedStep DEF Uncounted
<1> QED
  BY <1>8, <1>9

LEMMA DrivePipeStep ==
    ASSUME HandleInv, NEW t \in Transfers, DrivePipe(t)
    PROVE  StateGood(opened', h', xfer', setter', cancelEx', calls')
<1>1. opened /\ opened = TRUE /\ Asking(xfer[t])
  BY XferIs DEF DrivePipe, Asking, IsPipe
<1>2. device \in Devices /\ OpenGoodState(h, xfer, setter, cancelEx, calls) /\ h \in HandleType
  BY <1>1, OpenedIsGood
<1>3. /\ opened' = opened /\ setter' = setter /\ cancelEx' = cancelEx
      /\ HandleGood(h, TRUE) /\ calls' \in 1 .. MaxCalls
  BY <1>2 DEF DrivePipe, OpenGoodState
<1>4. PICK x : x = xfer[t]
  OBVIOUS
<1>5. /\ x \in XferType /\ XferFields(x) /\ x.iface \in Ifaces /\ x.buf \in BOOLEAN
  BY <1>1, <1>4, AskingIs DEF XferFields
<1>6. PICK a \in (IF Driver(x.iface) = "hid" THEN HidPipe(x.kind, x.ep, x.buf)
                  ELSE WinusbPipe(x.handle, x.kind, x.buf)) :
        xfer' = [xfer EXCEPT ![t] =
                  IF a.ret = "ok" THEN [Idle(x) EXCEPT !.kind = x.kind, !.ep = x.ep, !.st = a.st,
                                                       !.num = x.iface, !.buf = a.buf]
                  ELSE [Refuses(x, a.ret) EXCEPT !.buf = a.buf]]
  BY <1>4 DEF DrivePipe
<1>7. PipeAnswer(x.iface, x.buf, a)
  BY <1>5, <1>6, PipeAnswers
<1>8. PICK y : y = IF a.ret = "ok" THEN Taken(x, a) ELSE GivenUp(x, a)
  OBVIOUS
<1>9. Changes(xfer, xfer', t, y)
  BY <1>6, <1>8 DEF Changes, Taken, GivenUp
<1>10. XferOk(y)
  BY <1>1, <1>4, <1>7, <1>8, PipeTaken, PipeRefused
<1>11. /\ h' = WithFound(h, x.iface, h.found[x.iface] \ {t})
       /\ h.found[x.iface] \ {t} \in SUBSET Transfers
  BY <1>2, <1>4, <1>5 DEF DrivePipe, HandleType, WithFound
<1>12. HandleGood(h', TRUE) /\ Aside(h, h')
  BY <1>3, <1>5, <1>11, FoundChanged
<1>13. h'.autos = h.autos /\ h.failed \subseteq h'.failed
  BY <1>12 DEF Aside
<1>14. Uncounted(xfer[t])
  BY <1>1 DEF Asking, Uncounted, IsPipe
<1> QED
  BY <1>1, <1>3, <1>9, <1>10, <1>12, <1>13, <1>14, UncountedStep

LEMMA NumIs ==
    ASSUME NEW x, XferOk(x)
    PROVE  x.num \in Ifaces /\ XferGood(x)
<1>1. XferFields(x) /\ XferGood(x)
  BY XferTyped DEF XferOk
<1>2. x.num \in Ifaces
  BY <1>1, Zenon DEF XferFields
<1> QED
  BY <1>1, <1>2

\* Transfers that the driver has are ended; each keeps its interface.
FinishedIs(g) ==
    /\ XfersGood(g)
    /\ \A u \in Transfers : g[u].num = xfer[u].num /\ g[u].kind = xfer[u].kind
    /\ \A u \in Transfers : \A i : Counts(g[u], i) <=> Counts(xfer[u], i)

LEMMA FinishGood ==
    ASSUME XfersGood(xfer), NEW ts, NEW g, g = Finish(ts)
    PROVE  FinishedIs(g)
<1>1. xfer \in [Transfers -> XferType] /\ \A u \in Transfers : XferOk(xfer[u])
  BY DEF XfersGood, XferOk
<1>2. ASSUME NEW u \in Transfers
      PROVE  /\ XferOk(g[u]) /\ g[u].num = xfer[u].num /\ g[u].kind = xfer[u].kind
             /\ \A i : Counts(g[u], i) <=> Counts(xfer[u], i)
  <2>1. CASE g[u] = xfer[u]
    BY <1>1, <2>1
  <2>2. CASE xfer[u].st = "flying" /\ g[u] = Ended(xfer[u])
    <3>1. XferOk(g[u]) /\ g[u].st = "ended" /\ g[u].num = xfer[u].num /\ g[u].kind = xfer[u].kind
      BY <1>1, <2>2, EndedOk
    <3> QED
      BY <2>2, <3>1 DEF Counts
  <2> QED
    BY <2>1, <2>2 DEF Finish, Ended
<1>3. g \in [Transfers -> XferType]
  <2>1. g = [u \in Transfers |-> g[u]]
    BY DEF Finish
  <2>2. \A u \in Transfers : g[u] \in XferType
    BY <1>2 DEF XferOk
  <2> QED
    BY <2>1, <2>2
<1>4. XfersGood(g)
  BY <1>2, <1>3 DEF XfersGood, XferOk
<1> QED
  BY <1>2, <1>4 DEF FinishedIs

LEMMA FinishStep ==
    ASSUME HandleInv, opened, NEW g, g = xfer \/ FinishedIs(g), NEW ex, CancelFine(ex),
           NEW c \in 1 .. MaxCalls
    PROVE  StateGood(TRUE, h, g, setter, ex, c)
<1>1. device \in Devices /\ OpenGoodState(h, xfer, setter, cancelEx, calls)
  BY OpenedIsGood
<1>2. XfersGood(g) /\ AutosGood(h, g)
  <2>1. CASE g = xfer
    BY <1>1, <2>1 DEF OpenGoodState
  <2>2. CASE FinishedIs(g)
    <3>1. \A i : ClaimantsOf(g, i) = ClaimantsOf(xfer, i)
      BY <2>2 DEF FinishedIs, ClaimantsOf
    <3>2. AutosGood(h, xfer)
      BY <1>1 DEF OpenGoodState
    <3> QED
      BY <2>2, <3>1, <3>2 DEF FinishedIs, AutosGood
  <2> QED
    BY <2>1, <2>2
<1>3. OpenGoodState(h, g, setter, ex, c)
  BY <1>1, <1>2 DEF OpenGoodState
<1> QED
  BY <1>1, <1>3, OpenStateGood

\* CancelIoEx is only given up when the driver does not have it: of a composite
\* device a transfer that the driver takes has an interface with a file handle.
LEMMA CancelStep ==
    ASSUME HandleInv, NEW t \in Transfers, Cancel(t)
    PROVE  StateGood(opened', h', xfer', setter', cancelEx', calls')
<1>1. opened /\ opened = TRUE /\ calls' \in 1 .. MaxCalls
  BY CalledAgain DEF Cancel
<1>2. /\ device \in Devices /\ XfersGood(xfer) /\ CancelFine(cancelEx) /\ HandleGood(h, TRUE)
      /\ XferOk(xfer[t])
  BY <1>1, OpenedIsGood, XferIs DEF OpenGoodState
<1>3. opened' = opened /\ h' = h /\ setter' = setter
  BY DEF Cancel
<1>4. xfer' = xfer \/ FinishedIs(xfer')
  <2>1. xfer' = xfer \/ \E ts : xfer' = Finish(ts)
    BY DEF Cancel
  <2> QED
    BY <1>2, <2>1, FinishGood
<1>5. CancelFine(cancelEx')
  <2>1. CASE cancelEx' = cancelEx
    BY <1>2, <2>1
  <2>2. CASE cancelEx' # cancelEx
    <3>1. /\ InFlight(t) /\ Driver(xfer[t].num) # "hid" /\ xfer[t].kind # "control"
          /\ cancelEx' = FALSE /\ (cancelEx => GivesUp(t))
      BY <2>2 DEF Cancel
    <3>2. xfer[t].num \in Ifaces /\ XferGood(xfer[t])
      BY <1>2, NumIs
    <3>3. /\ Driver(xfer[t].num) = "winusb"
          /\ device.composite => device.path[xfer[t].num]
      BY <3>1, <3>2 DEF XferGood, InFlight, PipeOn
    <3>4. DriverGood(h, TRUE, xfer[t].num)
      BY <1>2, <3>2 DEF HandleGood, IfaceGood
    <3>5. device.composite => h.file[xfer[t].num] = "open"
      BY <3>3, <3>4 DEF DriverGood
    <3>6. cancelEx
      BY <1>2, <2>2, <3>1 DEF CancelFine
    <3> QED
      BY <3>1, <3>5, <3>6 DEF CancelFine, GivesUp
  <2> QED
    BY <2>1, <2>2
<1> QED
  BY <1>1, <1>3, <1>4, <1>5, FinishStep

LEMMA DriverEndsStep ==
    ASSUME HandleInv, NEW t \in Transfers, DriverEnds(t)
    PROVE  StateGood(opened', h', xfer', setter', cancelEx', calls')
<1>1. opened /\ opened = TRUE
  BY XferIs DEF DriverEnds
<1>2. XfersGood(xfer) /\ CancelFine(cancelEx) /\ calls \in 1 .. MaxCalls
  BY <1>1, OpenedIsGood DEF OpenGoodState
<1>3. FinishedIs(xfer')
  BY <1>2, FinishGood DEF DriverEnds
<1>4. opened' = opened /\ h' = h /\ setter' = setter /\ cancelEx' = cancelEx /\ calls' = calls
  BY DEF DriverEnds
<1> QED
  BY <1>1, <1>2, <1>3, <1>4, FinishStep

LEMMA ResetStep ==
    ASSUME HandleInv, Reset
    PROVE  StateGood(opened', h', xfer', setter', cancelEx', calls')
<1>1. opened /\ opened = TRUE /\ calls' \in 1 .. MaxCalls
  BY CalledAgain DEF Reset
<1>2. XfersGood(xfer) /\ CancelFine(cancelEx)
  BY <1>1, OpenedIsGood DEF OpenGoodState
<1>3. FinishedIs(xfer')
  BY <1>2, FinishGood DEF Reset
<1>4. opened' = opened /\ h' = h /\ setter' = setter /\ cancelEx' = cancelEx
  BY DEF Reset
<1> QED
  BY <1>1, <1>2, <1>3, <1>4, FinishStep

LEMMA ClearHaltStep ==
    ASSUME HandleInv, ClearHalt
    PROVE  StateGood(opened', h', xfer', setter', cancelEx', calls')
<1>1. opened /\ opened = TRUE /\ calls' \in 1 .. MaxCalls
  BY CalledAgain DEF ClearHalt
<1>2. CancelFine(cancelEx)
  BY <1>1, OpenedIsGood DEF OpenGoodState
<1>3. /\ opened' = opened /\ h' = h /\ setter' = setter /\ cancelEx' = cancelEx
      /\ xfer' = xfer
  BY DEF ClearHalt
<1> QED
  BY <1>1, <1>2, <1>3, FinishStep

LEMMA HandledStep ==
    ASSUME HandleInv, NEW t \in Transfers, Handle(t)
    PROVE  StateGood(opened', h', xfer', setter', cancelEx', calls')
<1>1. opened /\ opened = TRUE /\ XferOk(xfer[t]) /\ xfer[t].st = "ended"
  BY XferIs DEF Handle
<1>2. /\ device \in Devices /\ HandleGood(h, TRUE) /\ h \in HandleType
      /\ AutosGood(h, xfer) /\ XfersGood(xfer) /\ calls \in 1 .. MaxCalls
  BY <1>1, OpenedIsGood DEF OpenGoodState
<1> DEFINE i == xfer[t].num
           y == Handled(xfer[t])
<1>3. i \in Ifaces
  BY <1>1, NumIs
<1>4. Changes(xfer, xfer', t, y)
  BY DEF Handle, Changes, Handled
<1>5. h' = AutoRelease(h, i)
  BY DEF Handle
<1>6. \A j \in Ifaces : Counts(xfer[t], j) <=> j = i
  BY <1>1 DEF Counts
<1>7. XferOk(y)
  BY <1>1, HandledOk
<1> HIDE DEF i, y
<1>8. HandleGood(h', TRUE) /\ AutoReleased(h, h', i)
  BY <1>2, <1>3, <1>5, AutoReleaseGood
<1>9. AutosGood(h', xfer')
  BY <1>2, <1>3, <1>4, <1>6, <1>7, <1>8, AutosDown
<1>10. opened' = opened /\ setter' = setter /\ cancelEx' = cancelEx /\ calls' = calls
  BY DEF Handle
<1> QED
  BY <1>1, <1>2, <1>4, <1>7, <1>8, <1>9, <1>10, XferStep

-----------------------------------------------------------------------------
(* The invariant                                                             *)

LEMMA NewTransferOk ==
    ASSUME device \in Devices
    PROVE  XferOk(NewTransfer) /\ NewTransfer.st = "idle"
<1> DEFINE x == NewTransfer
<1>1. x = [st |-> "idle", kind |-> "none", req |-> "none", tries |-> {}, iface |-> Unknown,
           handle |-> "none", ep |-> Unknown, num |-> 0, buf |-> FALSE, fds |-> 0, over |-> 0]
  BY DEF NewTransfer
<1> HIDE DEF x
<1>2. /\ XferShape(x) /\ x.st = "idle" /\ x.kind = "none" /\ x.req = "none" /\ x.tries = {}
      /\ x.iface = Unknown /\ x.handle = "none" /\ x.ep = Unknown /\ x.num = 0 /\ x.buf = FALSE /\ x.fds = 0
      /\ x.over = 0
  BY <1>1 DEF XferShape
<1>3. 0 \in Ifaces
  BY DeviceIs
<1>4. XferFields(x)
  <2>1. 0 \in Nat /\ x.num \in Ifaces /\ x.iface \in Ifaces \cup {Unknown}
        /\ x.ep \in AllEndpoints \cup {Unknown}
    BY <1>2, <1>3
  <2> QED
    BY <1>2, <2>1, Zenon DEF XferFields
<1>5. XferOk(x)
  BY <1>2, <1>4, XferTyped, IdleOk DEF IsIdle
<1> QED
  BY <1>2, <1>5 DEF x

LEMMA HandleInitGood ==
    ASSUME HandleInit
    PROVE  HandleInv
<1>1. device \in Devices /\ MaxCalls \in Nat
  BY DeviceIs DEF HandleInit
<1>2. /\ opened = FALSE /\ h = NoHandle /\ setter = NoSetter /\ cancelEx = TRUE /\ calls = 0
      /\ xfer = [t \in Transfers |-> NewTransfer]
  BY DEF HandleInit
<1>3. /\ h \in HandleType /\ NothingOpen(h) /\ NothingCounted(h)
      /\ \A i \in Ifaces : h.files[i] = 0 /\ h.apis[i] = 0 /\ h.lost[i] = 0
  <2>1. /\ NoHandle \in HandleType /\ NothingOpen(NoHandle) /\ NothingCounted(NoHandle)
        /\ \A i \in Ifaces : /\ NoHandle.files[i] = 0 /\ NoHandle.apis[i] = 0
                             /\ NoHandle.lost[i] = 0
    BY <1>1, NoHandleIs
  <2> QED
    BY <1>2, <2>1
<1>4. \A i \in Ifaces : h.files[i] + h.apis[i] = h.lost[i]
  BY <1>3
<1>5. HandleGood(h, FALSE) /\ AutosGood(h, xfer)
  BY <1>1, <1>3, <1>4, ClosedGood, NothingCountedGood
<1>6. XferOk(NewTransfer) /\ NewTransfer.st = "idle"
  BY <1>1, NewTransferOk
<1>7. XfersGood(xfer) /\ \A t \in Transfers : xfer[t].st = "idle"
  BY <1>2, <1>6 DEF XfersGood, XferOk
<1>8. ClosedGoodState(opened, h, xfer, setter, calls)
  BY <1>2, <1>3, <1>7 DEF ClosedGoodState
<1>9. StateGood(opened, h, xfer, setter, cancelEx, calls)
  <2>1. /\ opened \in BOOLEAN /\ cancelEx \in BOOLEAN /\ calls \in 0 .. MaxCalls
        /\ setter \in SetterType /\ HandleGood(h, opened) /\ cancelEx
    <3>1. HandleGood(h, opened)
      BY <1>2, <1>5, Zenon
    <3>2. 0 \in 0 .. MaxCalls
      BY <1>1
    <3> QED
      BY <1>2, <3>1, <3>2, Zenon DEF SetterType
  <2> QED
    BY <1>5, <1>7, <1>8, <2>1 DEF StateGood
<1> QED
  BY <1>1, <1>9 DEF HandleInv

\* The device stays what it is, so that a state that is good now is good then.
LEMMA GoodNext ==
    ASSUME device' = device, device \in Devices,
           StateGood(opened', h', xfer', setter', cancelEx', calls')
    PROVE  HandleInv'
<1>1. Ifaces' = Ifaces /\ \A i : Driver(i)' = Driver(i) /\ Endpoints(i)' = Endpoints(i)
  BY DEF Ifaces, Driver, Endpoints
<1>2. AllEndpoints' = AllEndpoints
  BY <1>1 DEF AllEndpoints
<1>3. HandleType' = HandleType /\ XferType' = XferType /\ SetterType' = SetterType
  BY <1>1, <1>2 DEF HandleType, XferType, SetterType
<1>4. NoHandle' = NoHandle
  BY <1>1 DEF NoHandle
<1>5. HandleGood(h, opened)' = HandleGood(h', opened')
  <2>1. \A i : /\ ClaimedGood(h, i)' = ClaimedGood(h', i)
               /\ AccountGood(h, opened, i)' = AccountGood(h', opened', i)
               /\ DriverGood(h, opened, i)' = DriverGood(h', opened', i)
               /\ UnclaimedGood(h, i)' = UnclaimedGood(h', i)
    BY <1>1 DEF ClaimedGood, AccountGood, DriverGood, UnclaimedGood, Open1, Valid1
  <2> QED
    BY <1>1, <1>3, <2>1 DEF HandleGood, IfaceGood
<1>6. XfersGood(xfer)' = XfersGood(xfer')
  BY <1>1, <1>3 DEF XfersGood, XferGood, PipeOn
<1>7. AutosGood(h, xfer)' = AutosGood(h', xfer')
  BY <1>1 DEF AutosGood, ClaimantsOf, Counts
<1>8. ClosedGoodState(opened, h, xfer, setter, calls)'
        = ClosedGoodState(opened', h', xfer', setter', calls')
  BY <1>1, <1>4 DEF ClosedGoodState, NothingOpen
<1>9. StateGood(opened, h, xfer, setter, cancelEx, calls)'
  BY <1>3, <1>5, <1>6, <1>7, <1>8 DEF StateGood
<1> QED
  BY <1>9 DEF HandleInv

LEMMA HandleInvStep ==
    ASSUME HandleInv, [HandleNext]_handleVars
    PROVE  HandleInv'
<1>1. device \in Devices
  BY DEF HandleInv
<1> SUFFICES /\ device' = device
             /\ StateGood(opened', h', xfer', setter', cancelEx', calls')
  BY <1>1, GoodNext
<1>2. CASE Open
  <2>1. device' = device
    BY <1>2, Zenon DEF Open
  <2> QED
    BY <1>2, <2>1, OpenStep
<1>3. CASE OpenFails
  <2>1. device' = device
    BY <1>3, Zenon DEF OpenFails
  <2> QED
    BY <1>3, <2>1, OpenFailsStep
<1>4. CASE Close
  <2>1. device' = device
    BY <1>4, Zenon DEF Close
  <2> QED
    BY <1>4, <2>1, CloseHandleStep
<1>5. CASE Claim
  <2>1. device' = device
    BY <1>5, Zenon DEF Claim
  <2> QED
    BY <1>5, <2>1, ClaimStep
<1>6. CASE Release
  <2>1. device' = device
    BY <1>6, Zenon DEF Release
  <2> QED
    BY <1>6, <2>1, ReleaseStep
<1>7. CASE Reset
  <2>1. device' = device
    BY <1>7, Zenon DEF Reset
  <2> QED
    BY <1>7, <2>1, ResetStep
<1>8. CASE ClearHalt
  <2>1. device' = device
    BY <1>8, Zenon DEF ClearHalt
  <2> QED
    BY <1>8, <2>1, ClearHaltStep
<1>9. CASE SetAlternate
  <2>1. device' = device
    BY <1>9, Zenon DEF SetAlternate
  <2> QED
    BY <1>9, <2>1, SetAlternateStep
<1>10. CASE AlternateForget
  <2>1. device' = device
    BY <1>10, Zenon DEF AlternateForget
  <2> QED
    BY <1>10, <2>1, AlternateForgetStep
<1>11. CASE AlternateDrive
  <2>1. device' = device
    BY <1>11, Zenon DEF AlternateDrive
  <2> QED
    BY <1>11, <2>1, AlternateDriveStep
<1>12. CASE AlternateAssign
  <2>1. device' = device
    BY <1>12, Zenon DEF AlternateAssign
  <2> QED
    BY <1>12, <2>1, AlternateAssignStep
<1>13. CASE \E t \in Transfers : SubmitControl(t)
  <2>1. device' = device
    BY <1>13, Zenon DEF SubmitControl
  <2> QED
    BY <1>13, <2>1, SubmitControlStep
<1>14. CASE \E t \in Transfers : Find(t)
  <2>1. device' = device
    BY <1>14, Zenon DEF Find
  <2> QED
    BY <1>14, <2>1, FindStep
<1>15. CASE \E t \in Transfers : AutoClaim(t)
  <2>1. device' = device
    BY <1>15, Zenon DEF AutoClaim
  <2> QED
    BY <1>15, <2>1, AutoClaimStep
<1>16. CASE \E t \in Transfers : Drive(t)
  <2>1. device' = device
    BY <1>16, Zenon DEF Drive
  <2> QED
    BY <1>16, <2>1, DriveStep
<1>22. CASE \E t \in Transfers : TakeHandle(t)
  <2>1. device' = device
    BY <1>22, Zenon DEF TakeHandle
  <2> QED
    BY <1>22, <2>1, TakeHandleStep
<1>23. CASE \E t \in Transfers : DrivePipe(t)
  <2>1. device' = device
    BY <1>23, Zenon DEF DrivePipe
  <2> QED
    BY <1>23, <2>1, DrivePipeStep
<1>17. CASE \E t \in Transfers : SubmitPipe(t)
  <2>1. device' = device
    BY <1>17, Zenon DEF SubmitPipe
  <2> QED
    BY <1>17, <2>1, SubmitPipeStep
<1>18. CASE \E t \in Transfers : Cancel(t)
  <2>1. device' = device
    BY <1>18, Zenon DEF Cancel
  <2> QED
    BY <1>18, <2>1, CancelStep
<1>19. CASE \E t \in Transfers : DriverEnds(t)
  <2>1. device' = device
    BY <1>19, Zenon DEF DriverEnds
  <2> QED
    BY <1>19, <2>1, DriverEndsStep
<1>20. CASE \E t \in Transfers : Handle(t)
  <2>1. device' = device
    BY <1>20, Zenon DEF Handle
  <2> QED
    BY <1>20, <2>1, HandledStep
<1>21. CASE AnswerRequest \/ UNCHANGED handleVars
  <2>1. /\ device' = device /\ opened' = opened /\ h' = h /\ xfer' = xfer
        /\ setter' = setter /\ cancelEx' = cancelEx /\ calls' = calls
    BY <1>21 DEF AnswerRequest, handleVars
  <2> QED
    BY <2>1 DEF HandleInv
<1> QED
  BY <1>2, <1>3, <1>4, <1>5, <1>6, <1>7, <1>8, <1>9, <1>10, <1>11, <1>12, <1>13, <1>14, <1>15, <1>16, <1>17, <1>18, <1>19,
     <1>20, <1>21, <1>22, <1>23 DEF HandleNext

-----------------------------------------------------------------------------
(* The settings of the interfaces, and what transfers have found             *)

\* Where a transfer can be sent
Sendable(s, i) ==
    i \in s.claimed \/ i \in s.failed \/ Driver(i) = "hid" \/ (i = 0 /\ ~device.composite)
FoundGood(s, i) == s.found[i] # {} => Sendable(s, i)

\* The driver has a setting of the interface, and the endpoints are those of it;
\* none while it is changed, and perhaps after a change that was refused
Changing(u, i) == u.st \in {"drive", "assign"} /\ u.iface = i
EndpointsGood(s, u, i) ==
    IF Changing(u, i) THEN s.eps[i] = {} /\ (u.st = "assign" => s.alt[i] = u.alt)
    ELSE s.eps[i] = device.eps[i][s.alt[i]] \/ (i \in s.refused /\ s.eps[i] = {})
SettingGood(s, u, i) ==
    /\ s.alt[i] \in DOMAIN device.eps[i] /\ (Driver(i) = "hid" => s.alt[i] = 0)
    /\ i \in s.claimed \ s.crossed => EndpointsGood(s, u, i)
SettingsGood(s, u) == \A i \in Ifaces : SettingGood(s, u, i) /\ FoundGood(s, i)
SettingsInv == SettingsGood(h, setter)

\* What most steps do: at most they take claims away, and an interface that is
\* not claimed gets back its first setting.
SettingsKept(s, r) ==
    /\ r.refused = s.refused /\ r.crossed = s.crossed /\ r.claimed \subseteq s.claimed
    /\ s.failed \subseteq r.failed
    /\ \A j \in Ifaces :
         /\ r.eps[j] = s.eps[j] \/ j \notin r.claimed
         /\ r.alt[j] = s.alt[j] \/ (j \notin r.claimed /\ r.alt[j] = 0)
         /\ r.found[j] = {} \/ (r.found[j] \subseteq s.found[j] /\ (j \in s.claimed => j \in r.claimed))

LEMMA SettingsKeptGood ==
    ASSUME device \in Devices, NEW s, NEW r, NEW u, SettingsGood(s, u), SettingsKept(s, r)
    PROVE  SettingsGood(r, u)
<1> SUFFICES ASSUME NEW i \in Ifaces
             PROVE  SettingGood(r, u, i) /\ FoundGood(r, i)
  BY DEF SettingsGood
<1>1. SettingGood(s, u, i) /\ FoundGood(s, i) /\ 0 \in DOMAIN device.eps[i]
  BY DeviceIs DEF SettingsGood
<1>2. /\ r.eps[i] = s.eps[i] \/ i \notin r.claimed
      /\ r.alt[i] = s.alt[i] \/ (i \notin r.claimed /\ r.alt[i] = 0)
      /\ r.found[i] = {} \/ (r.found[i] \subseteq s.found[i] /\ (i \in s.claimed => i \in r.claimed))
      /\ r.refused = s.refused /\ r.crossed = s.crossed /\ (i \in r.claimed => i \in s.claimed)
      /\ (i \in s.failed => i \in r.failed)
  BY DEF SettingsKept
<1>3. i \in r.claimed \ r.crossed => EndpointsGood(r, u, i)
  BY <1>1, <1>2 DEF SettingGood, EndpointsGood
<1>4. r.alt[i] \in DOMAIN device.eps[i] /\ (Driver(i) = "hid" => r.alt[i] = 0)
  BY <1>1, <1>2 DEF SettingGood
<1>5. FoundGood(r, i)
  BY <1>1, <1>2 DEF FoundGood, Sendable
<1> QED
  BY <1>3, <1>4, <1>5 DEF SettingGood

LEMMA SettingsKeptTwice ==
    ASSUME NEW s, NEW q, NEW r, SettingsKept(s, q), SettingsKept(q, r)
    PROVE  SettingsKept(s, r)
<1> SUFFICES ASSUME NEW j \in Ifaces
             PROVE  /\ r.eps[j] = s.eps[j] \/ j \notin r.claimed
                    /\ r.alt[j] = s.alt[j] \/ (j \notin r.claimed /\ r.alt[j] = 0)
                    /\ r.found[j] = {}
                         \/ (r.found[j] \subseteq s.found[j] /\ (j \in s.claimed => j \in r.claimed))
  BY DEF SettingsKept
<1> QED
  BY DEF SettingsKept

LEMMA SameSettings ==
    ASSUME NEW s, NEW r, KeepsEnds(s, r), r.claimed \subseteq s.claimed, s.failed \subseteq r.failed,
           \A j \in Ifaces : \/ r.found[j] = {}
                             \/ r.found[j] \subseteq s.found[j] /\ (j \in s.claimed => j \in r.claimed)
    PROVE  SettingsKept(s, r)
BY DEF SettingsKept, KeepsEnds

\* A driver handle is made or lost for an interface that is not claimed.
LEMMA TakesSettings ==
    ASSUME NEW s \in HandleType, NEW i \in Ifaces, i \notin s.claimed
    PROVE  /\ SettingsKept(s, Takes(s, i)) /\ Takes(s, i).alt[i] = 0
           /\ SettingsKept(s, Loses(s, i)) /\ Takes(s, i).claimed = s.claimed
           /\ Takes(s, i) \in HandleType
<1>1. PICK r : r = Takes(s, i)
  OBVIOUS
<1>2. r \in HandleType /\ KeepsClaims(s, r)
  BY <1>1, TakesIs
<1>3. s.alt \in [Ifaces -> Nat] /\ r.alt = [s.alt EXCEPT ![i] = 0]
  BY <1>1 DEF Takes, HandleType
<1>4. r.alt[i] = 0 /\ \A j \in Ifaces \ {i} : r.alt[j] = s.alt[j]
  BY <1>3
<1>5. SettingsKept(s, r)
  BY <1>2, <1>4 DEF SettingsKept, KeepsClaims
<1>6. PICK q : q = Loses(s, i)
  OBVIOUS
<1>7. KeepsClaims(s, q) /\ q.alt = s.alt
  <2>1. q.alt = s.alt
    BY <1>6 DEF Loses, HandleType
  <2> QED
    BY <1>6, <2>1, LosesIs
<1>8. SettingsKept(s, q)
  BY <1>7 DEF SettingsKept, KeepsClaims
<1> QED
  BY <1>1, <1>2, <1>4, <1>5, <1>6, <1>8 DEF KeepsClaims

\* winusbx_claim_interface
LEMMA WinusbClaimSettings ==
    ASSUME device \in Devices, NEW s, NEW i \in Ifaces, HandleGood(s, TRUE), i \notin s.claimed,
           Driver(i) = "winusb", NEW e \in WinusbClaim(s, i)
    PROVE  SettingsKept(s, e.h) /\ (e.ret = "ok" => e.h.alt[i] = 0)
<1>0. s \in HandleType
  BY DEF HandleGood
<1>a. SettingsKept(s, s)
  BY DEF SettingsKept
<1>1. ASSUME NEW q \in HandleType, q.claimed = s.claimed, SettingsKept(s, q),
             e = Ends("ok", Takes(q, i)) \/ \E x \in {"access", "no device", "not found", "busy"} :
                                              e = Ends(x, Loses(q, i))
      PROVE  SettingsKept(s, e.h) /\ (e.ret = "ok" => e.h.alt[i] = 0)
  <2>1. /\ SettingsKept(q, Takes(q, i)) /\ Takes(q, i).alt[i] = 0 /\ SettingsKept(q, Loses(q, i))
    BY <1>1, TakesSettings
  <2>2. SettingsKept(s, Takes(q, i)) /\ SettingsKept(s, Loses(q, i))
    BY <1>1, <2>1, SettingsKeptTwice
  <2>3. CASE e = Ends("ok", Takes(q, i))
    BY <2>1, <2>2, <2>3 DEF Ends
  <2>4. CASE \E x \in {"access", "no device", "not found", "busy"} : e = Ends(x, Loses(q, i))
    <3>1. PICK x \in {"access", "no device", "not found", "busy"} : e = Ends(x, Loses(q, i))
      BY <2>4
    <3>2. e.ret # "ok" /\ e.h = Loses(q, i)
      BY <3>1 DEF Ends
    <3> QED
      BY <2>2, <3>2
  <2> QED
    BY <1>1, <2>3, <2>4
<1>2. CASE device.composite \/ i = 0
  <2>1. e = Ends("not found", s) \/ e \in Initialized(s, i)
    BY <1>2 DEF WinusbClaim
  <2>2. CASE e \in Initialized(s, i)
    <3>1. \/ e = Ends("ok", Takes(s, i))
          \/ \E x \in {"access", "no device", "not found", "busy"} : e = Ends(x, Loses(s, i))
      BY <2>2 DEF Initialized
    <3> QED
      BY <1>0, <1>a, <1>1, <3>1
  <2>3. CASE e = Ends("not found", s)
    BY <1>a, <2>3 DEF Ends
  <2> QED
    BY <2>1, <2>2, <2>3
<1>3. CASE ~(device.composite \/ i = 0)
  <2> DEFINE first == IF s.api[0] = "valid" THEN {Ends("ok", s)}
                      ELSE {Ends("ok", Takes(s, 0)), Ends("access", s)}
             ends(f) == IF f.ret # "ok" THEN {f}
                        ELSE {Ends("ok", Takes(f.h, i)), Ends("not found", Loses(f.h, i)),
                              Ends("busy", Loses(f.h, i))}
  <2>1. WinusbClaim(s, i) = UNION {ends(f) : f \in first}
    BY <1>3 DEF WinusbClaim
  <2>2. PICK f \in first : e \in ends(f)
    BY <2>1
  <2>3. \/ f.ret # "ok" /\ f = Ends("access", s)
        \/ f.ret = "ok" /\ f.h = s
        \/ f.ret = "ok" /\ f.h = Takes(s, 0) /\ s.api[0] # "valid"
    BY DEF Ends
  <2>4. CASE f.ret # "ok" /\ f = Ends("access", s)
    BY <1>a, <2>2, <2>4 DEF Ends
  <2>5. CASE f.ret = "ok" /\ f.h \in HandleType /\ f.h.claimed = s.claimed /\ SettingsKept(s, f.h)
    <3>1. \/ e = Ends("ok", Takes(f.h, i))
          \/ \E x \in {"access", "no device", "not found", "busy"} : e = Ends(x, Loses(f.h, i))
      BY <2>2, <2>5
    <3> QED
      BY <1>1, <2>5, <3>1
  <2>6. CASE f.ret = "ok" /\ f.h = s
    BY <1>0, <1>a, <2>5, <2>6
  <2>7. CASE f.ret = "ok" /\ f.h = Takes(s, 0) /\ s.api[0] # "valid"
    <3>1. 0 \in Ifaces /\ 0 \notin s.claimed
      BY <2>7, DeviceIs DEF HandleGood, IfaceGood, ClaimedGood
    <3>2. SettingsKept(s, f.h) /\ f.h.claimed = s.claimed /\ f.h \in HandleType
      BY <1>0, <2>7, <3>1, TakesSettings
    <3> QED
      BY <2>5, <2>7, <3>2
  <2> QED
    BY <2>3, <2>4, <2>6, <2>7
<1> QED
  BY <1>2, <1>3

\* hid_claim_interface
LEMMA HidClaimSettings ==
    ASSUME NEW s \in HandleType, NEW i, NEW e \in HidClaim(s, i)
    PROVE  SettingsKept(s, e.h) /\ e.h.alt = s.alt
<1>1. e \in {Ends("not found", s), Ends("busy", s), Ends("ok", [s EXCEPT !.file[i] = "flag"])}
  BY DEF HidClaim
<1>2. PICK q : q = [s EXCEPT !.file[i] = "flag"]
  OBVIOUS
<1>3. e.h = s \/ e.h = q
  <2>1. e \in {Ends("not found", s), Ends("busy", s), Ends("ok", q)}
    BY <1>1, <1>2
  <2>2. \E x : e = Ends(x, s) \/ e = Ends(x, q)
    BY <2>1
  <2>3. \A x, y : Ends(x, y).h = y
    BY DEF Ends
  <2> QED
    BY <2>2, <2>3
<1>4. q.alt = s.alt /\ KeepsClaims(s, q)
  BY <1>2 DEF HandleType, KeepsClaims
<1> QED
  BY <1>3, <1>4 DEF SettingsKept, KeepsClaims

LEMMA DriverClaimSettings ==
    ASSUME device \in Devices, NEW s, NEW i \in Ifaces, HandleGood(s, TRUE), i \notin s.claimed,
           Driver(i) = "hid" => s.alt[i] = 0, NEW e \in DriverClaim(s, i)
    PROVE  SettingsKept(s, e.h) /\ (e.ret = "ok" => e.h.alt[i] = 0)
<1>1. CASE Driver(i) = "winusb"
  <2>1. e \in WinusbClaim(s, i)
    BY <1>1 DEF DriverClaim
  <2> QED
    BY <1>1, <2>1, WinusbClaimSettings
<1>2. CASE Driver(i) = "hid"
  <2>1. e \in HidClaim(s, i) /\ s \in HandleType
    BY <1>2 DEF DriverClaim, HandleGood
  <2> QED
    BY <1>2, <2>1, HidClaimSettings
<1>3. CASE Driver(i) # "winusb" /\ Driver(i) # "hid"
  <2>1. e = Ends("not supported", s)
    BY <1>3 DEF DriverClaim
  <2> QED
    BY <2>1 DEF Ends, SettingsKept
<1> QED
  BY <1>1, <1>2, <1>3

LEMMA ReassignedSettings ==
    ASSUME NEW s, NEW i, NEW r, Reassigned(s, r, i), i \notin s.claimed
    PROVE  SettingsKept(s, r)
<1> SUFFICES ASSUME NEW j \in Ifaces
             PROVE  r.eps[j] = s.eps[j] \/ j \notin r.claimed
  BY DEF SettingsKept, Reassigned
<1> QED
  BY DEF Reassigned

\* winusb_claim_interface
LEMMA BackendClaimSettings ==
    ASSUME device \in Devices, NEW s, NEW i \in Ifaces, HandleGood(s, TRUE), i \notin s.claimed,
           Driver(i) = "hid" => s.alt[i] = 0, NEW e \in BackendClaim(s, i)
    PROVE  /\ SettingsKept(s, e.h)
           /\ e.ret = "ok" => e.h.alt[i] = 0 /\ e.h.eps[i] = device.eps[i][0]
<1> DEFINE ends(f) == IF f.ret = "ok" THEN Assign(f.h, i, 0) ELSE {f}
<1>1. PICK r : r = WithEndpoints(s, i, {})
  OBVIOUS
<1>2. HandleGood(r, TRUE) /\ Reassigned(s, r, i)
  <2>1. GoodBut(s, i) /\ UnclaimedGood(s, i) /\ {} \in SUBSET AllEndpoints
    BY AllGood
  <2>2. GoodBut(r, i) /\ UnclaimedGood(r, i) /\ Reassigned(s, r, i)
    BY <1>1, <2>1, ForgetGood
  <2> QED
    BY <2>2, AllGood
<1>3. BackendClaim(s, i) = UNION {ends(f) : f \in DriverClaim(r, i)}
  BY <1>1 DEF BackendClaim, WithEndpoints
<1>4. PICK f \in DriverClaim(r, i) : e \in ends(f)
  BY <1>3
<1>5. SettingsKept(s, r) /\ i \notin r.claimed /\ r.alt = s.alt
  BY <1>2, ReassignedSettings DEF Reassigned
<1>6. SettingsKept(r, f.h) /\ (f.ret = "ok" => f.h.alt[i] = 0)
  BY <1>2, <1>5, DriverClaimSettings
<1>7. SettingsKept(s, f.h)
  BY <1>5, <1>6, SettingsKeptTwice
<1>8. HalfClaimed(r, i, f)
  BY <1>2, <1>5, DriverClaimGood
<1>9. CASE f.ret # "ok"
  BY <1>4, <1>7, <1>9
<1>10. CASE f.ret = "ok"
  <2>1. e \in Assign(f.h, i, 0) /\ 0 \in DOMAIN device.eps[i] /\ GoodBut(f.h, i)
    BY <1>4, <1>8, <1>10, DeviceIs DEF HalfClaimed
  <2>2. Reassigned(f.h, e.h, i) /\ (e.ret = "ok" => e.h.eps[i] = device.eps[i][0])
    BY <2>1, AssignGood
  <2>3. i \notin f.h.claimed
    BY <1>5, <1>8 DEF HalfClaimed, KeepsClaims
  <2>4. SettingsKept(f.h, e.h)
    BY <2>2, <2>3, ReassignedSettings
  <2>5. SettingsKept(s, e.h)
    BY <1>7, <2>4, SettingsKeptTwice
  <2> QED
    BY <1>6, <1>10, <2>2, <2>5 DEF Reassigned
<1> QED
  BY <1>9, <1>10

\* libusb_claim_interface
LEMMA ClaimInterfaceSettings ==
    ASSUME device \in Devices, NEW s, NEW i \in Ifaces, HandleGood(s, TRUE),
           SettingsGood(s, setter), NEW who \in {"app", "auto"}, NEW e \in ClaimInterface(s, i, who)
    PROVE  SettingsGood(e.h, setter)
<1>1. CASE i \in s.claimed
  <2>1. e = Ends("ok", Noted(s, i, who)) /\ s \in HandleType
    BY <1>1 DEF ClaimInterface, HandleGood
  <2>2. PICK r : r = Noted(s, i, who)
    OBVIOUS
  <2>3. NotedIs(s, r, i, who)
    BY <2>1, <2>2, NotedGood
  <2>4. SettingsKept(s, r)
    BY <2>3 DEF NotedIs, SettingsKept
  <2>5. e.h = r
    BY <2>1, <2>2 DEF Ends
  <2> QED
    BY <2>4, <2>5, SettingsKeptGood
<1>2. CASE i \notin s.claimed
  <2>1. PICK f \in BackendClaim(s, i) :
          e = IF f.ret = "ok"
                THEN Ends("ok", [Noted(f.h, i, who) EXCEPT
                       !.claimed = @ \cup {i}, !.refused = @ \ {i},
                       !.crossed = IF ChangesSetting(i) THEN @ \cup {i} ELSE @ \ {i}])
              ELSE f
    BY <1>2 DEF ClaimInterface
  <2>2. Driver(i) = "hid" => s.alt[i] = 0
    BY DEF SettingsGood, SettingGood
  <2>3. /\ SettingsKept(s, f.h)
        /\ f.ret = "ok" => f.h.alt[i] = 0 /\ f.h.eps[i] = device.eps[i][0]
    BY <1>2, <2>2, BackendClaimSettings
  <2>4. SettingsGood(f.h, setter)
    BY <2>3, SettingsKeptGood
  <2>5. CASE f.ret # "ok"
    BY <2>1, <2>4, <2>5
  <2>6. CASE f.ret = "ok"
    <3>1. PICK q : q = Noted(f.h, i, who)
      OBVIOUS
    <3>2. f.h \in HandleType
      BY <1>2, BackendClaimGood DEF GoodBut
    <3>3. q \in HandleType /\ NotedIs(f.h, q, i, who)
      BY <3>1, <3>2, NotedGood
    <3>4. SettingsKept(f.h, q)
      BY <3>3 DEF NotedIs, SettingsKept
    <3>5. SettingsGood(q, setter)
      BY <2>4, <3>4, SettingsKeptGood
    <3>6. PICK r : r = [q EXCEPT !.claimed = @ \cup {i}, !.refused = @ \ {i},
                                 !.crossed = IF ChangesSetting(i) THEN @ \cup {i} ELSE @ \ {i}]
      OBVIOUS
    <3>7. e.h = r
      BY <2>1, <2>6, <3>1, <3>6 DEF Ends
    <3>8. /\ r.claimed = q.claimed \cup {i} /\ r.refused = q.refused \ {i}
          /\ r.crossed = IF ChangesSetting(i) THEN q.crossed \cup {i} ELSE q.crossed \ {i}
          /\ r.eps = q.eps /\ r.alt = q.alt /\ r.failed = q.failed /\ r.found = q.found
      BY <3>3, <3>6 DEF HandleType
    <3>9. r.alt[i] = 0 /\ r.eps[i] = device.eps[i][0]
      BY <2>3, <2>6, <3>3, <3>8 DEF NotedIs
    <3>10. ASSUME NEW j \in Ifaces
           PROVE  SettingGood(r, setter, j) /\ FoundGood(r, j)
      <4>1. SettingGood(q, setter, j) /\ FoundGood(q, j)
        BY <3>5 DEF SettingsGood
      <4>2. FoundGood(r, j)
        BY <3>8, <4>1 DEF FoundGood, Sendable
      <4>3. CASE j = i
        <5>1. Changing(setter, i) => i \in r.crossed
          BY <3>8 DEF Changing, ChangesSetting
        <5>2. 0 \in DOMAIN device.eps[i]
          BY DeviceIs
        <5> QED
          BY <3>9, <4>2, <4>3, <5>1, <5>2 DEF SettingGood, EndpointsGood
      <4>4. CASE j # i
        <5>1. /\ (j \in r.claimed <=> j \in q.claimed) /\ (j \in r.refused <=> j \in q.refused)
              /\ (j \in r.crossed <=> j \in q.crossed)
          BY <3>8, <4>4
        <5>2. r.eps[j] = q.eps[j] /\ r.alt[j] = q.alt[j]
          BY <3>8
        <5>3. EndpointsGood(q, setter, j) => EndpointsGood(r, setter, j)
          BY <5>1, <5>2, SMT DEF EndpointsGood
        <5> QED
          BY <4>1, <4>2, <5>1, <5>2, <5>3 DEF SettingGood
      <4> QED
        BY <4>2, <4>3, <4>4, <4>1
    <3>11. SettingsGood(r, setter)
      BY <3>10 DEF SettingsGood
    <3> QED
      BY <3>7, <3>11
  <2> QED
    BY <2>5, <2>6
<1> QED
  BY <1>1, <1>2

LEMMA NoHandleSettings ==
    ASSUME device \in Devices
    PROVE  SettingsGood(NoHandle, NoSetter)
<1> SUFFICES ASSUME NEW i \in Ifaces
             PROVE  SettingGood(NoHandle, NoSetter, i) /\ FoundGood(NoHandle, i)
  BY DEF SettingsGood
<1>1. NoHandle.alt[i] = 0 /\ NoHandle.claimed = {} /\ NoHandle.found[i] = {}
  BY DEF NoHandle
<1>2. 0 \in DOMAIN device.eps[i]
  BY DeviceIs
<1> QED
  BY <1>1, <1>2 DEF SettingGood, FoundGood

\* The opening and the closing of the handle
LEMMA OpenSettings ==
    ASSUME h \in HandleType, Open \/ OpenFails \/ Close
    PROVE  SettingsKept(h, h')
<1>1. ASSUME NEW W, NEW H, NEW q, q = HidOpened(WinusbOpened(h, W), H)
      PROVE  /\ KeepsEnds(h, q) /\ q.claimed = h.claimed /\ q.failed = h.failed
             /\ q.found = h.found
  BY <1>1 DEF HidOpened, WinusbOpened, HandleType, KeepsEnds
<1>2. CASE Open
  <2>1. h' = HidOpened(WinusbOpened(h, WinusbIfaces), HidIfaces)
    BY <1>2 DEF Open, AllOpened
  <2>2. /\ KeepsEnds(h, h') /\ h'.claimed = h.claimed /\ h'.failed = h.failed
        /\ h'.found = h.found
    BY <1>1, <2>1
  <2> QED
    BY <2>2 DEF SettingsKept, KeepsEnds
<1>3. CASE OpenFails
  <2>1. PICK f, a, l : h' = [h EXCEPT !.files = f, !.apis = a, !.lost = l]
    BY <1>3, Zenon DEF OpenFails
  <2>2. /\ KeepsEnds(h, h') /\ h'.claimed = h.claimed /\ h'.failed = h.failed
        /\ h'.found = h.found
    BY <2>1 DEF HandleType, KeepsEnds
  <2> QED
    BY <2>2 DEF SettingsKept, KeepsEnds
<1>4. CASE Close
  <2>1. PICK q : q = Closed(h)
    OBVIOUS
  <2>2. KeepsEnds(h, q) /\ q.failed = h.failed /\ DOMAIN q = DOMAIN h
    BY <2>1 DEF Closed, HandleType, KeepsEnds
  <2>3. h' = [q EXCEPT !.claimed = {}, !.by = NoHandle.by, !.autos = NoHandle.autos,
                       !.file = NoHandle.file, !.api = NoHandle.api, !.mixed = {},
                       !.found = NoHandle.found]
    BY <1>4, <2>1 DEF Close
  <2>4. DOMAIN h = {"claimed", "file", "api", "eps", "autos", "files", "apis", "lost", "alt",
                    "found", "by", "mixed", "failed", "refused", "crossed"}
    BY DEF HandleType
  <2>5. KeepsEnds(q, h') /\ h'.failed = q.failed /\ h'.claimed = {} /\ h'.found = NoHandle.found
    BY <2>2, <2>3, <2>4 DEF KeepsEnds
  <2>6. \A j \in Ifaces : h'.found[j] = {}
    BY <2>5 DEF NoHandle
  <2> QED
    BY <2>2, <2>5, <2>6 DEF SettingsKept, KeepsEnds
<1> QED
  BY <1>2, <1>3, <1>4

LEMMA ReleaseSettings ==
    ASSUME HandleInv, Release \/ \E t \in Transfers : Handle(t)
    PROVE  SettingsKept(h, h')
<1>1. CASE Release
  <2>1. HandleGood(h, TRUE)
    BY <1>1, CalledAgain, OpenedIsGood DEF Release, OpenGoodState
  <2>2. PICK i \in Ifaces : h' = ReleaseInterface(h, i).h
    BY <1>1 DEF Release
  <2>3. ReleaseKeeps(h, h', i)
    BY <2>1, <2>2, ReleaseInterfaceGood
  <2> QED
    BY <2>3, SameSettings DEF ReleaseKeeps
<1>2. CASE \E t \in Transfers : Handle(t)
  <2>1. PICK t \in Transfers : Handle(t)
    BY <1>2
  <2>2. opened /\ XferOk(xfer[t])
    BY <2>1, XferIs DEF Handle
  <2>3. HandleGood(h, TRUE) /\ xfer[t].num \in Ifaces /\ h' = AutoRelease(h, xfer[t].num)
    BY <2>1, <2>2, OpenedIsGood, NumIs DEF Handle, OpenGoodState
  <2>4. AutoReleased(h, h', xfer[t].num)
    BY <2>3, AutoReleaseGood
  <2> QED
    BY <2>4, SameSettings DEF AutoReleased
<1> QED
  BY <1>1, <1>2

LEMMA DriveSettings ==
    ASSUME h \in HandleType, NEW t \in Transfers, Drive(t) \/ DrivePipe(t)
    PROVE  SettingsKept(h, h')
<1>1. CASE Drive(t)
  <2>1. h' = h \/ h' = [h EXCEPT !.failed = @ \cup {xfer[t].iface}]
    BY <1>1, Zenon DEF Drive
  <2>2. KeepsEnds(h, h') /\ h'.claimed = h.claimed /\ h.failed \subseteq h'.failed /\ h'.found = h.found
    BY <2>1 DEF HandleType, KeepsEnds
  <2> QED
    BY <2>2, SameSettings
<1>2. CASE DrivePipe(t)
  <2>1. h' = [h EXCEPT !.found[xfer[t].iface] = @ \ {t}]
    BY <1>2, Zenon DEF DrivePipe
  <2>2. KeepsEnds(h, h') /\ h'.claimed = h.claimed /\ h'.failed = h.failed
    BY <2>1 DEF HandleType, KeepsEnds
  <2>3. \A j \in Ifaces : h'.found[j] \subseteq h.found[j]
    BY <2>1 DEF HandleType
  <2> QED
    BY <2>2, <2>3, SameSettings
<1> QED
  BY <1>1, <1>2

\* winusbx_submit_bulk_transfer, winusbx_submit_iso_transfer: an interface by which
\* an endpoint is found has a driver handle, which only a claim gives.
LEMMA FoundSendable ==
    ASSUME device \in Devices, HandleGood(h, TRUE), NEW ep, NEW i,
           i = InterfaceByEndpoint(h, ep), i # Unknown
    PROVE  Sendable(h, i)
<1>1. i \in Ifaces /\ h.api[i] = "valid" /\ Driver(i) \in {"winusb", "hid"}
  BY EndpointInterface
<1>2. UnclaimedGood(h, i)
  BY <1>1 DEF HandleGood
<1> QED
  BY <1>1, <1>2 DEF UnclaimedGood, Sendable

LEMMA SubmitPipeSettings ==
    ASSUME HandleInv, SettingsInv, NEW t \in Transfers, SubmitPipe(t)
    PROVE  SettingsGood(h', setter)
<1>1. opened
  BY CalledAgain DEF SubmitPipe
<1>2. device \in Devices /\ HandleGood(h, TRUE) /\ XferOk(xfer[t]) /\ h \in HandleType
  BY <1>1, OpenedIsGood, XferIs DEF OpenGoodState
<1>3. PICK kind, b, i, ep : PipeSent(t, kind, b, i, ep)
  BY <1>2, SubmitPipeIs
<1>4. CASE i = Unknown
  BY <1>3, <1>4 DEF PipeSent, SettingsInv
<1>5. CASE i # Unknown
  <2>1. i = InterfaceByEndpoint(h, ep) /\ h' = [h EXCEPT !.found[i] = @ \cup {t}]
    BY <1>3, <1>5 DEF PipeSent
  <2>2. Sendable(h, i) /\ i \in Ifaces
    BY <1>2, <1>5, <2>1, FoundSendable, EndpointInterface
  <2>3. h.found[i] \cup {t} \in SUBSET Transfers /\ h' = [h EXCEPT !.found[i] = h.found[i] \cup {t}]
    BY <1>2, <2>1, <2>2 DEF HandleType
  <2>4. /\ Aside(h, h') /\ KeepsEnds(h, h')
        /\ \A j \in Ifaces \ {i} : h'.found[j] = h.found[j]
    <3>1. PICK S \in SUBSET Transfers : S = h.found[i] \cup {t}
      BY <2>3
    <3>2. h' = WithFound(h, i, S)
      BY <2>3, <3>1 DEF WithFound
    <3>3. HandleGood(h, TRUE) /\ i \in Ifaces
      BY <1>2, <2>2
    <3>4. Aside(h, h')
      BY <3>2, <3>3, FoundChanged
    <3>5. KeepsEnds(h, h')
      BY <3>2, <3>3, FoundChanged
    <3>6. /\ h.found \in [Ifaces -> SUBSET Transfers]
          /\ h'.found = [h.found EXCEPT ![i] = S]
      BY <1>2, <3>2 DEF HandleType, WithFound
    <3>7. \A j \in Ifaces \ {i} : h'.found[j] = h.found[j]
      BY <3>6
    <3> QED
      BY <3>4, <3>5, <3>7
  <2>5. ASSUME NEW j \in Ifaces
        PROVE  SettingGood(h', setter, j) /\ FoundGood(h', j)
    <3>1. SettingGood(h, setter, j) /\ FoundGood(h, j)
      BY DEF SettingsInv, SettingsGood
    <3>2. SettingGood(h', setter, j)
      BY <2>4, <3>1 DEF SettingGood, EndpointsGood, Aside, KeepsEnds
    <3>3. FoundGood(h', j)
      BY <2>2, <2>4, <3>1 DEF FoundGood, Sendable, Aside
    <3> QED
      BY <3>2, <3>3
  <2> QED
    BY <2>5 DEF SettingsGood
<1> QED
  BY <1>4, <1>5

LEMMA ClaimSettings ==
    ASSUME HandleInv, SettingsInv, Claim \/ \E t \in Transfers : AutoClaim(t)
    PROVE  SettingsGood(h', setter)
<1>1. CASE Claim
  <2>1. device \in Devices /\ HandleGood(h, TRUE)
    BY <1>1, CalledAgain, OpenedIsGood DEF Claim, OpenGoodState
  <2>2. PICK i \in Ifaces : \E e \in ClaimInterface(h, i, "app") : h' = e.h
    BY <1>1 DEF Claim
  <2> QED
    BY <2>1, <2>2, ClaimInterfaceSettings DEF SettingsInv
<1>2. CASE \E t \in Transfers : AutoClaim(t)
  <2>1. PICK t \in Transfers : AutoClaim(t)
    BY <1>2
  <2>2. opened
    BY <2>1, XferIs DEF AutoClaim
  <2>3. device \in Devices /\ HandleGood(h, TRUE) /\ Ifaces \in SUBSET Nat
    BY <2>2, OpenedIsGood, DeviceIs DEF OpenGoodState
  <2> DEFINE S == {j \in Ifaces : Driver(j) = DriverTried(t) /\ xfer[t].iface < j}
             i == FirstOf(S)
  <2>4. \/ h' = h
        \/ /\ i # Unknown
           /\ \E e \in ClaimInterface(h, i, "auto") :
                h' = IF e.ret = "ok" THEN Counted(e.h, i) ELSE e.h
    BY <2>1, Zenon DEF AutoClaim
  <2>5. CASE h' = h
    BY <2>5 DEF SettingsInv
  <2>6. CASE i # Unknown /\ \E e \in ClaimInterface(h, i, "auto") :
                              h' = IF e.ret = "ok" THEN Counted(e.h, i) ELSE e.h
    <3>1. S \in SUBSET Nat /\ S \subseteq Ifaces
      BY <2>3
    <3> HIDE DEF S
    <3>2. i \in Ifaces
      BY <2>6, <3>1, FirstOfIs
    <3>3. PICK e \in ClaimInterface(h, i, "auto") :
                 h' = IF e.ret = "ok" THEN Counted(e.h, i) ELSE e.h
      BY <2>6
    <3> HIDE DEF i
    <3>4. SettingsGood(e.h, setter)
      BY <2>3, <3>2, <3>3, ClaimInterfaceSettings DEF SettingsInv
    <3>5. e.h \in HandleType
      BY <2>3, <3>2, <3>3, ClaimInterfaceGood DEF ClaimEnds, HandleGood
    <3>6. CASE h' = Counted(e.h, i)
      <4>1. PICK q : q = e.h
        OBVIOUS
      <4>2. KeepsEnds(q, h') /\ h'.claimed = q.claimed /\ h'.failed = q.failed /\ h'.found = q.found
        BY <3>5, <3>6, <4>1 DEF Counted, HandleType, KeepsEnds
      <4>3. SettingsKept(q, h')
        BY <4>2 DEF SettingsKept, KeepsEnds
      <4> QED
        BY <2>3, <3>4, <4>1, <4>3, SettingsKeptGood
    <3> QED
      BY <3>3, <3>4, <3>6
  <2> QED
    BY <2>4, <2>5, <2>6
<1> QED
  BY <1>1, <1>2

\* libusb_set_interface_alt_setting: the three steps of the backend
LEMMA ForgetSettings ==
    ASSUME HandleInv, SettingsInv, AlternateForget
    PROVE  SettingsGood(h', setter')
<1>1. setter.iface \in Ifaces /\ h \in HandleType
  BY SetterIs, OpenedIsGood DEF AlternateForget
<1>2. PICK i \in Ifaces : i = setter.iface
  BY <1>1
<1>3. /\ h' = [h EXCEPT !.eps[i] = {}, !.crossed = @ \ {i}]
      /\ setter' = [setter EXCEPT !.st = "drive"]
  BY <1>2 DEF AlternateForget
<1>4. setter.st = "forget" /\ setter \in [st : {"forget", "drive", "assign"}, iface : Ifaces, alt : Nat]
  BY SetterIs DEF AlternateForget
<1>5. setter'.st = "drive" /\ setter'.iface = i
  BY <1>2, <1>3, <1>4
<1>6. /\ h'.claimed = h.claimed /\ h'.refused = h.refused /\ h'.alt = h.alt /\ h'.failed = h.failed
      /\ h'.found = h.found /\ h'.crossed = h.crossed \ {i} /\ h'.eps = [h.eps EXCEPT ![i] = {}]
  BY <1>1, <1>3 DEF HandleType
<1>7. h.eps \in [Ifaces -> SUBSET AllEndpoints]
  BY <1>1 DEF HandleType
<1>8. h'.eps[i] = {} /\ \A j \in Ifaces \ {i} : h'.eps[j] = h.eps[j]
  BY <1>6, <1>7
<1> SUFFICES ASSUME NEW j \in Ifaces
             PROVE  SettingGood(h', setter', j) /\ FoundGood(h', j)
  BY DEF SettingsGood
<1>9. SettingGood(h, setter, j) /\ FoundGood(h, j)
  BY DEF SettingsInv, SettingsGood
<1>10. FoundGood(h', j)
  BY <1>6, <1>9 DEF FoundGood, Sendable
<1>11. CASE j = i
  <2>1. EndpointsGood(h', setter', i)
    BY <1>5, <1>8 DEF EndpointsGood, Changing
  <2> QED
    BY <1>6, <1>9, <1>10, <1>11, <2>1 DEF SettingGood
<1>12. CASE j # i
  <2>1. ~Changing(setter, j) /\ ~Changing(setter', j)
    BY <1>4, <1>5, <1>12 DEF Changing
  <2>2. h'.eps[j] = h.eps[j] /\ (j \in h'.crossed <=> j \in h.crossed)
    BY <1>6, <1>8, <1>12
  <2>3. EndpointsGood(h, setter, j) => EndpointsGood(h', setter', j)
    BY <1>6, <2>1, <2>2 DEF EndpointsGood
  <2> QED
    BY <1>6, <1>9, <1>10, <2>2, <2>3 DEF SettingGood
<1> QED
  BY <1>11, <1>12

LEMMA DriveAlternateSettings ==
    ASSUME HandleInv, SettingsInv, AlternateDrive
    PROVE  SettingsGood(h', setter')
<1>1. /\ setter.iface \in Ifaces /\ h \in HandleType
      /\ setter.alt \in DOMAIN device.eps[setter.iface]
      /\ setter \in [st : {"forget", "drive", "assign"}, iface : Ifaces, alt : Nat]
  BY SetterIs, OpenedIsGood DEF AlternateDrive
<1>2. PICK i, a : i \in Ifaces /\ i = setter.iface /\ a = setter.alt
  BY <1>1
<1>3. PICK r \in DriverSetsAlternate(i, a) :
         IF r = "ok" THEN /\ setter' = [setter EXCEPT !.st = "assign"]
                          /\ h' = [h EXCEPT !.alt[i] = a]
         ELSE setter' = NoSetter /\ h' = [h EXCEPT !.refused = @ \cup {i}]
  BY <1>2 DEF AlternateDrive
<1>4. setter.st = "drive"
  BY DEF AlternateDrive
<1> SUFFICES ASSUME NEW j \in Ifaces
             PROVE  SettingGood(h', setter', j) /\ FoundGood(h', j)
  BY DEF SettingsGood
<1>5. SettingGood(h, setter, j) /\ FoundGood(h, j)
  BY DEF SettingsInv, SettingsGood
<1>6. CASE r = "ok"
  <2>1. /\ h'.claimed = h.claimed /\ h'.refused = h.refused /\ h'.eps = h.eps /\ h'.failed = h.failed
        /\ h'.found = h.found /\ h'.crossed = h.crossed /\ h'.alt = [h.alt EXCEPT ![i] = a]
    BY <1>1, <1>3, <1>6 DEF HandleType
  <2>2. h'.alt[i] = a /\ \A k \in Ifaces \ {i} : h'.alt[k] = h.alt[k]
    <3>1. h.alt \in [Ifaces -> Nat]
      BY <1>1 DEF HandleType
    <3> QED
      BY <1>2, <2>1, <3>1
  <2>3. setter'.st = "assign" /\ setter'.iface = i /\ setter'.alt = a
    BY <1>1, <1>2, <1>3, <1>6
  <2>4. FoundGood(h', j)
    BY <1>5, <2>1 DEF FoundGood, Sendable
  <2>5. CASE j = i
    <3>1. Driver(i) = "hid" => a = 0
      BY <1>3, <1>6 DEF DriverSetsAlternate
    <3>2. Changing(setter, i) /\ Changing(setter', i)
      BY <1>2, <1>4, <2>3 DEF Changing
    <3>3. EndpointsGood(h, setter, i) => EndpointsGood(h', setter', i)
      BY <2>1, <2>2, <2>3, <3>2 DEF EndpointsGood
    <3> QED
      BY <1>1, <1>2, <1>5, <2>1, <2>2, <2>4, <2>5, <3>1, <3>3 DEF SettingGood
  <2>6. CASE j # i
    <3>1. ~Changing(setter, j) /\ ~Changing(setter', j)
      BY <1>2, <2>3, <2>6 DEF Changing
    <3>2. h'.alt[j] = h.alt[j]
      BY <2>2, <2>6
    <3>3. EndpointsGood(h, setter, j) => EndpointsGood(h', setter', j)
      BY <2>1, <3>1, <3>2 DEF EndpointsGood
    <3> QED
      BY <1>5, <2>1, <2>4, <3>2, <3>3 DEF SettingGood
  <2> QED
    BY <2>5, <2>6
<1>7. CASE r # "ok"
  <2>1. /\ h'.claimed = h.claimed /\ h'.refused = h.refused \cup {i} /\ h'.eps = h.eps
        /\ h'.failed = h.failed /\ h'.found = h.found /\ h'.crossed = h.crossed /\ h'.alt = h.alt
    BY <1>1, <1>3, <1>7 DEF HandleType
  <2>2. setter' = NoSetter
    BY <1>3, <1>7
  <2>3. ~Changing(setter', j)
    BY <2>2 DEF Changing, NoSetter
  <2>4. FoundGood(h', j)
    BY <1>5, <2>1 DEF FoundGood, Sendable
  <2>5. CASE j = i
    <3>1. Changing(setter, i)
      BY <1>2, <1>4 DEF Changing
    <3>2. EndpointsGood(h, setter, i) => EndpointsGood(h', setter', i)
      BY <2>1, <2>3, <2>5, <3>1 DEF EndpointsGood
    <3> QED
      BY <1>5, <2>1, <2>4, <2>5, <3>2 DEF SettingGood
  <2>6. CASE j # i
    <3>1. ~Changing(setter, j) /\ (j \in h'.refused <=> j \in h.refused)
      BY <1>2, <2>1, <2>6 DEF Changing
    <3>2. EndpointsGood(h, setter, j) => EndpointsGood(h', setter', j)
      BY <2>1, <2>3, <3>1 DEF EndpointsGood
    <3> QED
      BY <1>5, <2>1, <2>4, <3>2 DEF SettingGood
  <2> QED
    BY <2>5, <2>6
<1> QED
  BY <1>6, <1>7

LEMMA AssignSettings ==
    ASSUME HandleInv, SettingsInv, AlternateAssign
    PROVE  SettingsGood(h', setter')
<1>1. /\ opened /\ setter.iface \in Ifaces /\ setter.st = "assign"
      /\ setter.alt \in DOMAIN device.eps[setter.iface]
  BY SetterIs DEF AlternateAssign
<1>2. PICK i, a : i \in Ifaces /\ i = setter.iface /\ a = setter.alt
  BY <1>1
<1>3. device \in Devices /\ HandleGood(h, TRUE)
  BY <1>1, OpenedIsGood DEF OpenGoodState
<1>4. PICK e \in Assign(h, i, a) :
        h' = [e.h EXCEPT !.refused = IF e.ret = "ok" THEN @ \ {i} ELSE @ \cup {i}]
  BY <1>2 DEF AlternateAssign
<1>5. GoodBut(h, i) /\ a \in DOMAIN device.eps[i]
  BY <1>1, <1>2, <1>3, AllGood
<1>6. /\ GoodBut(e.h, i) /\ Reassigned(h, e.h, i)
      /\ e.ret = "ok" => e.h.eps[i] = device.eps[i][a]
      /\ e.ret # "ok" => e.h.eps[i] = h.eps[i] \/ e.h.eps[i] = {}
  BY <1>2, <1>3, <1>5, AssignGood
<1>7. PICK q : q = e.h
  OBVIOUS
<1>8. /\ h'.claimed = q.claimed /\ h'.eps = q.eps /\ h'.failed = q.failed /\ h'.found = q.found
      /\ h'.crossed = q.crossed /\ h'.alt = q.alt
      /\ h'.refused = IF e.ret = "ok" THEN q.refused \ {i} ELSE q.refused \cup {i}
  BY <1>4, <1>6, <1>7 DEF GoodBut, HandleType
<1>9. /\ h'.claimed = h.claimed /\ h.failed \subseteq h'.failed /\ h'.found = h.found
      /\ h'.crossed = h.crossed /\ h'.alt = h.alt /\ \A j \in Ifaces \ {i} : h'.eps[j] = h.eps[j]
      /\ h'.refused = IF e.ret = "ok" THEN h.refused \ {i} ELSE h.refused \cup {i}
  BY <1>6, <1>7, <1>8 DEF Reassigned
<1>10. setter' = NoSetter
  BY DEF AlternateAssign
<1> SUFFICES ASSUME NEW j \in Ifaces
             PROVE  SettingGood(h', setter', j) /\ FoundGood(h', j)
  BY DEF SettingsGood
<1>11. SettingGood(h, setter, j) /\ FoundGood(h, j)
  BY DEF SettingsInv, SettingsGood
<1>12. ~Changing(setter', j)
  BY <1>10 DEF Changing, NoSetter
<1>13. FoundGood(h', j)
  BY <1>9, <1>11 DEF FoundGood, Sendable
<1>14. CASE j = i
  <2>1. Changing(setter, i)
    BY <1>1, <1>2 DEF Changing
  <2>2. CASE e.ret = "ok"
    <3>1. h'.eps[i] = device.eps[i][a]
      BY <1>6, <1>7, <1>8, <2>2
    <3>2. EndpointsGood(h, setter, i) => h.alt[i] = a
      BY <1>1, <1>2, <2>1 DEF EndpointsGood
    <3>3. EndpointsGood(h, setter, i) => EndpointsGood(h', setter', i)
      BY <1>9, <1>12, <1>14, <3>1, <3>2 DEF EndpointsGood
    <3> QED
      BY <1>9, <1>11, <1>13, <1>14, <3>3 DEF SettingGood
  <2>3. CASE e.ret # "ok"
    <3>1. i \in h'.refused /\ (h'.eps[i] = h.eps[i] \/ h'.eps[i] = {})
      BY <1>6, <1>7, <1>8, <2>3
    <3>2. EndpointsGood(h, setter, i) => EndpointsGood(h', setter', i)
      BY <1>12, <1>14, <2>1, <3>1 DEF EndpointsGood
    <3> QED
      BY <1>9, <1>11, <1>13, <1>14, <3>2 DEF SettingGood
  <2> QED
    BY <2>2, <2>3
<1>15. CASE j # i
  <2>1. /\ ~Changing(setter, j) /\ (j \in h'.refused <=> j \in h.refused)
        /\ h'.eps[j] = h.eps[j]
    BY <1>2, <1>9, <1>15 DEF Changing
  <2>2. EndpointsGood(h, setter, j) => EndpointsGood(h', setter', j)
    BY <1>9, <1>12, <2>1 DEF EndpointsGood
  <2> QED
    BY <1>9, <1>11, <1>13, <2>2 DEF SettingGood
<1> QED
  BY <1>14, <1>15

LEMMA SetAlternateSettings ==
    ASSUME SettingsInv, SetAlternate
    PROVE  SettingsGood(h', setter')
<1>1. h' = h /\ setter = NoSetter /\ setter'.st = "forget"
  <2>1. PICK i, a : setter' = [st |-> "forget", iface |-> i, alt |-> a]
    BY DEF SetAlternate
  <2> QED
    BY <2>1 DEF SetAlternate
<1>2. ASSUME NEW j \in Ifaces
      PROVE  ~Changing(setter, j) /\ ~Changing(setter', j)
  BY <1>1 DEF Changing, NoSetter
<1> SUFFICES ASSUME NEW j \in Ifaces
             PROVE  SettingGood(h, setter', j) /\ FoundGood(h, j)
  BY <1>1 DEF SettingsGood
<1>3. SettingGood(h, setter, j) /\ FoundGood(h, j)
  BY DEF SettingsInv, SettingsGood
<1>4. EndpointsGood(h, setter, j) => EndpointsGood(h, setter', j)
  BY <1>2 DEF EndpointsGood
<1> QED
  BY <1>3, <1>4 DEF SettingGood

LEMMA SettingsStep ==
    ASSUME HandleInv, SettingsInv, [HandleNext]_handleVars
    PROVE  SettingsInv'
<1>1. device \in Devices /\ h \in HandleType
  BY DEF HandleInv, StateGood, HandleGood
<1> SUFFICES device' = device /\ SettingsGood(h', setter')
  <2>1. Ifaces' = Ifaces /\ \A i : Driver(i)' = Driver(i)
    BY DEF Ifaces, Driver
  <2>2. ASSUME SettingsGood(h', setter'), device' = device
        PROVE  SettingsGood(h, setter)'
    BY <2>1, <2>2 DEF SettingsGood, SettingGood, EndpointsGood, Changing, FoundGood, Sendable
  <2> QED
    BY <2>2 DEF SettingsInv
<1>2. CASE device' = device /\ setter' = setter /\ SettingsKept(h, h')
  BY <1>1, <1>2, SettingsKeptGood DEF SettingsInv
<1>3. CASE Open \/ OpenFails \/ Close
  <2>1. device' = device /\ setter' = setter
    BY <1>3, Zenon DEF Open, OpenFails, Close
  <2> QED
    BY <1>1, <1>2, <1>3, <2>1, OpenSettings
<1>4. CASE Release \/ \E t \in Transfers : Handle(t)
  <2>1. device' = device /\ setter' = setter
    BY <1>4, Zenon DEF Release, Handle
  <2> QED
    BY <1>2, <1>4, <2>1, ReleaseSettings
<1>5. CASE \E t \in Transfers : Drive(t) \/ DrivePipe(t)
  <2>1. device' = device /\ setter' = setter
    BY <1>5, Zenon DEF Drive, DrivePipe
  <2> QED
    BY <1>1, <1>2, <1>5, <2>1, DriveSettings
<1>6. CASE \E t \in Transfers : SubmitPipe(t)
  <2>1. device' = device /\ setter' = setter
    BY <1>6, Zenon DEF SubmitPipe
  <2> QED
    BY <1>6, <2>1, SubmitPipeSettings
<1>7. CASE Claim \/ \E t \in Transfers : AutoClaim(t)
  <2>1. device' = device /\ setter' = setter
    BY <1>7, Zenon DEF Claim, AutoClaim
  <2> QED
    BY <1>7, <2>1, ClaimSettings
<1>8. CASE SetAlternate
  <2>1. device' = device
    BY <1>8, Zenon DEF SetAlternate
  <2> QED
    BY <1>8, <2>1, SetAlternateSettings
<1>9. CASE AlternateForget
  <2>1. device' = device
    BY <1>9, Zenon DEF AlternateForget
  <2> QED
    BY <1>9, <2>1, ForgetSettings
<1>10. CASE AlternateDrive
  <2>1. device' = device
    BY <1>10, Zenon DEF AlternateDrive
  <2> QED
    BY <1>10, <2>1, DriveAlternateSettings
<1>11. CASE AlternateAssign
  <2>1. device' = device
    BY <1>11, Zenon DEF AlternateAssign
  <2> QED
    BY <1>11, <2>1, AssignSettings
<1>12. CASE \/ Reset \/ ClearHalt \/ AnswerRequest \/ UNCHANGED handleVars
            \/ \E t \in Transfers : SubmitControl(t) \/ Find(t) \/ TakeHandle(t) \/ Cancel(t)
                                      \/ DriverEnds(t)
  <2>1. device' = device /\ setter' = setter /\ h' = h
    BY <1>12, Zenon DEF Reset, ClearHalt, AnswerRequest, handleVars, SubmitControl, Find,
         TakeHandle, Cancel, DriverEnds
  <2> QED
    BY <2>1 DEF SettingsInv
<1> QED
  BY <1>3, <1>4, <1>5, <1>6, <1>7, <1>8, <1>9, <1>10, <1>11, <1>12 DEF HandleNext

LEMMA SettingsInitGood ==
    ASSUME HandleInit
    PROVE  SettingsInv
<1>1. device \in Devices /\ h = NoHandle /\ setter = NoSetter
  BY DEF HandleInit
<1> QED
  BY <1>1, NoHandleSettings DEF SettingsInv

-----------------------------------------------------------------------------
(* What is proved                                                            *)

LEMMA InvTyped ==
    ASSUME HandleInv, SettingsInv
    PROVE  HandleTypeOK
<1>1. /\ device \in Devices /\ h \in HandleType /\ XfersGood(xfer) /\ setter \in SetterType
      /\ calls \in 0 .. MaxCalls
  BY DEF HandleInv, StateGood, HandleGood
<1>2. /\ h.claimed \in SUBSET Ifaces /\ h.mixed \in SUBSET Ifaces /\ h.failed \in SUBSET Ifaces
      /\ h.refused \in SUBSET Ifaces /\ h.crossed \in SUBSET Ifaces
      /\ h.file \in [Ifaces -> {"none", "open", "flag"}] /\ h.api \in [Ifaces -> {"none", "valid"}]
      /\ h.eps \in [Ifaces -> SUBSET AllEndpoints]
      /\ h.by \in [Ifaces -> {"nobody", "app", "auto"}]
      /\ h.autos \in [Ifaces -> Nat] /\ h.files \in [Ifaces -> Nat]
      /\ h.apis \in [Ifaces -> Nat] /\ h.lost \in [Ifaces -> Nat]
      /\ h.found \in [Ifaces -> SUBSET Transfers]
  BY <1>1 DEF HandleType
<1>3. {h.autos[i] : i \in Ifaces} \cup {h.files[i] : i \in Ifaces}
        \cup {h.apis[i] : i \in Ifaces} \cup {h.lost[i] : i \in Ifaces} \subseteq Nat
  BY <1>2
<1>4. ASSUME NEW t \in Transfers
      PROVE  /\ xfer[t].st \in {"idle", "find", "claim", "drive", "call", "flying", "ended"}
             /\ xfer[t].num \in Ifaces /\ xfer[t].fds \in Nat
  <2>1. XferFields(xfer[t])
    BY <1>1, XferTyped DEF XfersGood
  <2> QED
    BY <2>1, Zenon DEF XferFields
<1>5. setter.st \in {"none", "forget", "drive", "assign"}
  BY <1>1 DEF SetterType, NoSetter
<1>6. \A i \in Ifaces : h.alt[i] \in DOMAIN device.eps[i] /\ h.found[i] \subseteq Transfers
  BY <1>2 DEF SettingsInv, SettingsGood, SettingGood
<1>7. h.claimed \cup h.mixed \cup h.failed \cup h.refused \cup h.crossed \subseteq Ifaces
  BY <1>2
<1> QED
  BY <1>1, <1>2, <1>3, <1>4, <1>5, <1>6, <1>7 DEF HandleTypeOK

LEMMA InvSettings ==
    ASSUME HandleInv, SettingsInv
    PROVE  EndpointsOfSetting
<1> SUFFICES ASSUME NEW i \in h.claimed \ h.crossed, ~ChangesSetting(i)
             PROVE  h.eps[i] = device.eps[i][h.alt[i]] \/ (i \in h.refused /\ h.eps[i] = {})
  BY DEF EndpointsOfSetting
<1>1. i \in Ifaces
  BY DEF HandleInv, StateGood, HandleGood, HandleType
<1>2. SettingGood(h, setter, i) /\ ~Changing(setter, i)
  BY <1>1 DEF SettingsInv, SettingsGood, Changing, ChangesSetting
<1> QED
  BY <1>2 DEF SettingGood, EndpointsGood

LEMMA InvCounted ==
    ASSUME HandleInv
    PROVE  AutoClaimAccounted
<1> SUFFICES ASSUME NEW i \in Ifaces, h.autos[i] > 0, i \notin h.failed
             PROVE  \E t \in Transfers : Counts(xfer[t], i)
  BY Zenon DEF AutoClaimAccounted, Counts, InFlight
<1> DEFINE n == Cardinality(ClaimantsOf(xfer, i))
<1>1. h \in HandleType /\ h.autos[i] <= n
  BY DEF HandleInv, StateGood, HandleGood, AutosGood
<1>2. n \in Nat /\ h.autos[i] \in Nat
  BY <1>1, ClaimantsFinite DEF HandleType
<1> HIDE DEF n
<1>3. n # 0
  BY <1>1, <1>2
<1>4. ClaimantsOf(xfer, i) # {}
  BY <1>3, FS_EmptySet DEF n
<1> QED
  BY <1>4 DEF ClaimantsOf

LEMMA InvSound ==
    ASSUME HandleInv, SettingsInv
    PROVE  HandleSound
<1>1. /\ device \in Devices /\ HandleGood(h, opened) /\ XfersGood(xfer)
      /\ device.composite /\ device.cancels => cancelEx
  BY DEF HandleInv, StateGood
<1>2. \A i \in h.claimed : i \in Ifaces
  BY <1>1 DEF HandleGood, HandleType
<1>3. \A i \in Ifaces : IfaceGood(h, opened, i)
  BY <1>1 DEF HandleGood
<1>4. ClaimedUsable
  BY <1>2, <1>3 DEF IfaceGood, ClaimedGood, ClaimedUsable
<1>5. HandlesAccounted
  BY <1>3 DEF IfaceGood, AccountGood, HandlesAccounted, Open1, Valid1
<1>6. \A t \in Transfers : XferGood(xfer[t])
  BY <1>1 DEF XfersGood
<1>7. PolledInFlight
  BY <1>6 DEF XferGood, PolledInFlight
<1>8. HidBufferHeld
  BY <1>6 DEF XferGood, HidBufferHeld
<1>9. HandleTypeOK /\ AutoClaimAccounted
  BY InvTyped, InvCounted
<1>10. EndpointsOfSetting
  BY InvSettings
<1> QED
  BY <1>10, <1>1, <1>4, <1>5, <1>7, <1>8, <1>9 DEF HandleSound, CancelKept

\* HandleSound, for every device and every number of transfers and calls, however
\* the steps of their threads interleave: what is claimed can be used; its endpoints
\* are those of the setting its driver has, or none when the last change failed,
\* unless it was released and claimed anew in the middle of a change; and whatever
\* Windows has open belongs to an interface or is lost in one of the known ways.
THEOREM HandlesSound == HandleSpec => []HandleSound
<1>1. HandleInit => HandleInv /\ SettingsInv
  BY HandleInitGood, SettingsInitGood
<1>2. HandleInv /\ SettingsInv /\ [HandleNext]_handleVars => (HandleInv /\ SettingsInv)'
  BY HandleInvStep, SettingsStep
<1>3. HandleInv /\ SettingsInv => HandleSound
  BY InvSound
<1> QED
  BY <1>1, <1>2, <1>3, PTL DEF HandleSpec

-----------------------------------------------------------------------------
(* What transfers do to claims                                               *)

\* auto_release gives back only what auto_claim has claimed.
LEMMA OnlyAutoReleasedStep ==
    ASSUME HandleInv, NEW t \in Transfers, Handle(t)
    PROVE  \A j \in h.claimed \ h'.claimed : h.by[j] = "auto" \/ j \in h.mixed
<1>1. opened /\ XferOk(xfer[t])
  BY XferIs DEF Handle
<1>2. HandleGood(h, TRUE)
  BY <1>1, OpenedIsGood DEF OpenGoodState
<1>3. xfer[t].num \in Ifaces
  BY <1>1, NumIs
<1>4. h' = AutoRelease(h, xfer[t].num)
  BY DEF Handle
<1>5. AutoReleased(h, h', xfer[t].num)
  BY <1>2, <1>3, <1>4, AutoReleaseGood
<1> QED
  BY <1>5 DEF AutoReleased

\* The driver is given a bulk or isochronous transfer.
LEMMA PipesOnClaimedStep ==
    ASSUME SettingsInv, NEW t \in Transfers, NEW i \in Ifaces, t \in h.found[i]
    PROVE  \/ i \in h.claimed \/ i \in h.failed \/ Driver(i) = "hid"
           \/ i = 0 /\ ~device.composite
BY DEF SettingsInv, SettingsGood, FoundGood, Sendable

\* ClaimsRespected, whatever calls, transfers and failures come between: the end of
\* a transfer takes an interface from the application only if the count of the claims
\* for transfers stood against the application's claim; and a bulk or isochronous
\* transfer is accepted only on an interface that is claimed, or was when the
\* transfer looked it up, but for HID, interface 0 of a device with one driver and
\* submissions or claims that failed half-way.
THEOREM ClaimsKept == HandleSpec => ClaimsRespected
<1>1. HandleInit => HandleInv /\ SettingsInv
  BY HandleInitGood, SettingsInitGood
<1>2. HandleInv /\ SettingsInv /\ [HandleNext]_handleVars => (HandleInv /\ SettingsInv)'
  BY HandleInvStep, SettingsStep
<1>3. HandleInv /\ SettingsInv /\ [HandleNext]_handleVars =>
        [\A i \in h.claimed \ h'.claimed :
           (\E t \in Transfers : Handle(t)) => h.by[i] = "auto" \/ i \in h.mixed]_handleVars
  BY OnlyAutoReleasedStep
<1>4. HandleInv /\ SettingsInv /\ [HandleNext]_handleVars =>
        [\A t \in Transfers, i \in Ifaces :
           DrivePipe(t) /\ xfer'[t].st # "idle" /\ xfer[t].iface = i =>
             \/ i \in h.claimed \/ i \in h.failed \/ Driver(i) = "hid"
             \/ i = 0 /\ ~device.composite
             \/ t \notin h.found[i]]_handleVars
  BY PipesOnClaimedStep
<1> QED
  BY <1>1, <1>2, <1>3, <1>4, PTL DEF HandleSpec, ClaimsRespected, OnlyAutoReleased, PipesOnClaimed

-----------------------------------------------------------------------------
(* HID reports (HidReports)                                                 *)

(* Sequences with the same elements are the same.                           *)
LEMMA SameSequence ==
    ASSUME NEW s \in Seq(Nat), NEW t \in Seq(Nat), Len(s) = Len(t),
           \A i \in 1 .. Len(s) : s[i] = t[i]
    PROVE  s = t
<1>1. s = [i \in 1 .. Len(s) |-> s[i]] /\ t = [i \in 1 .. Len(t) |-> t[i]]
  OBVIOUS
<1> QED
  BY <1>1

(* The first bytes of a sequence                                            *)
LEMMA PartIs ==
    ASSUME NEW s \in Seq(Nat), NEW n \in 0 .. Len(s)
    PROVE  /\ SubSeq(s, 1, n) \in Seq(Nat) /\ Len(SubSeq(s, 1, n)) = n
           /\ \A i \in 1 .. n : SubSeq(s, 1, n)[i] = s[i]
<1>1. \A i \in 1 .. n : s[i] \in Nat
  OBVIOUS
<1>2. /\ SubSeq(s, 1, n) \in Seq(Nat)
      /\ Len(SubSeq(s, 1, n)) = IF 1 <= n THEN n - 1 + 1 ELSE 0
      /\ \A i \in 1 .. n - 1 + 1 : SubSeq(s, 1, n)[i] = s[1 + i - 1]
  BY <1>1, SubSeqProperties, 1 \in Int, n \in Int
<1> QED
  BY <1>2

(* What Cut leaves                                                          *)
LEMMA CutIs ==
    ASSUME NEW s \in Seq(Nat), NEW size \in Nat
    PROVE  /\ Cut(s, size) \in Seq(Nat) /\ Len(Cut(s, size)) = Shortest(size, Len(s))
           /\ Shortest(size, Len(s)) \in 0 .. Len(s)
           /\ \A i \in 1 .. Shortest(size, Len(s)) : Cut(s, size)[i] = s[i]
<1>1. Shortest(size, Len(s)) \in 0 .. Len(s)
  BY DEF Shortest
<1> QED
  BY <1>1, PartIs DEF Cut

(* A part of a part from the first byte on                                  *)
LEMMA CutAgain ==
    ASSUME NEW s \in Seq(Nat), NEW room \in Nat, NEW size \in Nat, size <= room
    PROVE  SubSeq(Cut(s, room), 1, Shortest(size, Len(s))) = Cut(s, size)
<1>1. Shortest(size, Len(s)) \in 0 .. Shortest(room, Len(s))
  BY DEF Shortest
<1>2. /\ Cut(s, room) \in Seq(Nat) /\ Len(Cut(s, room)) = Shortest(room, Len(s))
      /\ Shortest(room, Len(s)) \in 0 .. Len(s)
      /\ \A i \in 1 .. Shortest(room, Len(s)) : Cut(s, room)[i] = s[i]
  BY CutIs
<1> DEFINE n == Shortest(size, Len(s))
           part == SubSeq(Cut(s, room), 1, n)
<1>3. /\ part \in Seq(Nat) /\ Len(part) = n
      /\ \A i \in 1 .. n : part[i] = Cut(s, room)[i]
  BY <1>1, <1>2, PartIs
<1>4. /\ Cut(s, size) \in Seq(Nat) /\ Len(Cut(s, size)) = n
      /\ \A i \in 1 .. n : Cut(s, size)[i] = s[i]
  BY CutIs
<1>5. \A i \in 1 .. n : part[i] = Cut(s, size)[i]
  <2> SUFFICES ASSUME NEW i \in 1 .. n PROVE part[i] = Cut(s, size)[i]
    OBVIOUS
  <2>1. i \in 1 .. Shortest(room, Len(s))
    BY <1>1, <1>2
  <2>2. part[i] = Cut(s, room)[i] /\ Cut(s, room)[i] = s[i] /\ Cut(s, size)[i] = s[i]
    BY <1>2, <1>3, <1>4, <2>1
  <2> QED
    BY <2>2
<1> QED
  BY <1>3, <1>4, <1>5, SameSequence

(* A report with its ID in front                                            *)
LEMMA Numbered ==
    ASSUME NEW id \in Nat, NEW report \in Seq(Nat)
    PROVE  /\ <<id>> \o report \in Seq(Nat) /\ Len(<<id>> \o report) = Len(report) + 1
           /\ (<<id>> \o report)[1] = id
           /\ \A i \in 1 .. Len(report) : (<<id>> \o report)[i + 1] = report[i]
OBVIOUS

(* What is behind the ID in the driver's buffer                             *)
LEMMA Behind ==
    ASSUME NEW id \in Nat, NEW report \in Seq(Nat), NEW room \in Nat, NEW size \in Nat,
           size <= room
    PROVE  LET buf == Cut(<<id>> \o report, room + 1)
               n == Shortest(size, Len(report))
           IN  /\ SubSeq(buf, 2, n + 1) = Cut(report, size)
               /\ SubSeq(Tail(buf), 1, n) = Cut(report, size)
<1> DEFINE whole == <<id>> \o report
           buf == Cut(whole, room + 1)
           n == Shortest(size, Len(report))
           tail == Tail(buf)
           one == SubSeq(buf, 2, n + 1)
           other == SubSeq(tail, 1, n)
<1>1. /\ whole \in Seq(Nat) /\ Len(whole) = Len(report) + 1 /\ whole[1] = id
      /\ \A i \in 1 .. Len(report) : whole[i + 1] = report[i]
  BY Numbered
<1>2. /\ buf \in Seq(Nat) /\ Len(buf) = Shortest(room + 1, Len(whole))
      /\ \A i \in 1 .. Shortest(room + 1, Len(whole)) : buf[i] = whole[i]
  <2>1. room + 1 \in Nat
    OBVIOUS
  <2> HIDE DEF whole
  <2> QED
    BY <1>1, <2>1, CutIs
<1> HIDE DEF whole, buf, n
<1>3. /\ n \in 0 .. Len(report) /\ n + 1 <= Len(buf) /\ 1 <= Len(buf)
      /\ Len(report) \in Nat /\ Len(buf) \in Nat
      /\ Len(buf) <= Len(report) + 1
  BY <1>1, <1>2 DEF Shortest, n
<1>4. \A i \in 1 .. n : buf[i + 1] = report[i]
  <2> SUFFICES ASSUME NEW i \in 1 .. n PROVE buf[i + 1] = report[i]
    OBVIOUS
  <2> DEFINE long == Len(report)
             got == Len(buf)
  <2>a. n \in 0 .. long /\ n + 1 <= got /\ long \in Nat /\ got \in Nat
    BY <1>3
  <2> HIDE DEF long, got
  <2>b. i \in 1 .. long /\ i + 1 \in 1 .. got
    BY <2>a
  <2>1. i \in 1 .. Len(report) /\ i + 1 \in 1 .. Shortest(room + 1, Len(whole))
    BY <1>2, <2>b DEF long, got
  <2> QED
    BY <1>1, <1>2, <2>1
<1>5. /\ tail \in Seq(Nat) /\ Len(tail) = Len(buf) - 1
      /\ \A i \in 1 .. Len(buf) - 1 : tail[i] = buf[i + 1]
  BY <1>2, <1>3
<1>6. /\ one \in Seq(Nat) /\ Len(one) = n /\ \A i \in 1 .. n : one[i] = buf[i + 1]
  <2>1. \A i \in 2 .. n + 1 : buf[i] \in Nat
    BY <1>2, <1>3
  <2>2. /\ one \in Seq(Nat)
        /\ Len(one) = IF 2 <= n + 1 THEN n + 1 - 2 + 1 ELSE 0
        /\ \A i \in 1 .. n + 1 - 2 + 1 : one[i] = buf[2 + i - 1]
    BY <1>3, <2>1, SubSeqProperties, 2 \in Int, n + 1 \in Int
  <2> HIDE DEF one
  <2> QED
    BY <1>3, <2>2
<1>7. /\ other \in Seq(Nat) /\ Len(other) = n /\ \A i \in 1 .. n : other[i] = tail[i]
  <2>1. n \in 0 .. Len(tail)
    BY <1>3, <1>5
  <2> HIDE DEF tail
  <2> QED
    BY <1>5, <2>1, PartIs
<1>8. /\ Cut(report, size) \in Seq(Nat) /\ Len(Cut(report, size)) = n
      /\ \A i \in 1 .. n : Cut(report, size)[i] = report[i]
  BY CutIs DEF n
<1> HIDE DEF tail, one, other
<1>9. \A i \in 1 .. n : one[i] = Cut(report, size)[i] /\ other[i] = Cut(report, size)[i]
  <2> SUFFICES ASSUME NEW i \in 1 .. n
               PROVE  one[i] = Cut(report, size)[i] /\ other[i] = Cut(report, size)[i]
    OBVIOUS
  <2>1. i \in 1 .. Len(buf) - 1
    BY <1>3
  <2>2. one[i] = buf[i + 1] /\ other[i] = tail[i] /\ tail[i] = buf[i + 1]
    BY <1>5, <1>6, <1>7, <2>1
  <2> QED
    BY <1>4, <1>8, <2>2
<1>10. one = Cut(report, size) /\ other = Cut(report, size)
  BY <1>6, <1>7, <1>8, <1>9, SameSequence
<1> QED
  BY <1>10 DEF one, other, tail, n, buf, whole

(* What a read asks for: the report, with its ID if it has one              *)
WithId(id, report) == IF id = 0 THEN report ELSE <<id>> \o report
Delivered(answer, id, report, size) ==
    /\ answer.data = Cut(WithId(id, report), size)
    /\ answer.ret \in {"overflow", "done"}
    /\ id # 0 => (answer.ret = "overflow" <=> Len(WithId(id, report)) > size)

(* The buffer that the driver has filled                                    *)
LEMMA FilledIs ==
    ASSUME NEW id \in Nat, NEW report \in Seq(Nat), NEW room \in Nat
    PROVE  LET buf == DriverFills(id, report, room + 1)
           IN  /\ buf \in Seq(Nat) /\ buf[1] = id
               /\ Len(buf) = Shortest(room, Len(report)) + 1
<1> DEFINE whole == <<id>> \o report
<1>1. /\ whole \in Seq(Nat) /\ Len(whole) = Len(report) + 1 /\ whole[1] = id
  BY Numbered
<1> HIDE DEF whole
<1>2. /\ Cut(whole, room + 1) \in Seq(Nat)
      /\ Len(Cut(whole, room + 1)) = Shortest(room + 1, Len(whole))
      /\ \A i \in 1 .. Shortest(room + 1, Len(whole)) : Cut(whole, room + 1)[i] = whole[i]
  BY <1>1, CutIs, room + 1 \in Nat
<1>3. Shortest(room + 1, Len(whole)) = Shortest(room, Len(report)) + 1
      /\ 1 \in 1 .. Shortest(room + 1, Len(whole))
  BY <1>1 DEF Shortest
<1> QED
  BY <1>1, <1>2, <1>3 DEF DriverFills, whole

(* A report with an ID, read in any of the three ways                       *)
LEMMA NumberedRead ==
    ASSUME NEW id \in Nat \ {0}, NEW report \in Seq(Nat), NEW size \in Nat
    PROVE  /\ Delivered(Copied(DriverFills(id, report, size + 1),
                               Len(DriverFills(id, report, size + 1)), size), id, report, size)
           /\ Delivered(GetReportNow(id, report, size), id, report, size)
<1> DEFINE buf == DriverFills(id, report, size + 1)
           whole == <<id>> \o report
           n == Shortest(size, Len(whole))
<1>1. buf \in Seq(Nat) /\ buf[1] = id /\ Len(buf) = Shortest(size, Len(report)) + 1
  BY FilledIs
<1>2. whole \in Seq(Nat) /\ Len(whole) = Len(report) + 1
  BY Numbered
<1>3. SubSeq(buf, 1, n) = Cut(whole, size)
  BY <1>2, CutAgain, size + 1 \in Nat, size <= size + 1 DEF DriverFills
<1>4. Cut(whole, size) \in Seq(Nat) /\ Len(Cut(whole, size)) = n
  BY <1>2, CutIs
<1> HIDE DEF buf, whole
<1>5. /\ Shortest(Len(buf), size) = n
      /\ Len(buf) > size <=> Len(whole) > size
  BY <1>1, <1>2 DEF Shortest
<1>6. n = 0 => Cut(whole, size) = <<>>
  BY <1>4
<1>7. Delivered(Copied(buf, Len(buf), size), id, report, size)
  BY <1>1, <1>3, <1>5, <1>6 DEF Copied, Delivered, WithId, whole
<1>8. Delivered(GetReportNow(id, report, size), id, report, size)
  BY <1>1, <1>3, <1>5 DEF GetReportNow, DriverCounts, Delivered, WithId, whole, buf
<1> QED
  BY <1>7, <1>8 DEF buf

(* A report without an ID that a control request reads at once              *)
LEMMA PlainNow ==
    ASSUME NEW report \in Seq(Nat), NEW size \in Nat
    PROVE  Delivered(GetReportNow(0, report, size), 0, report, size)
<1> DEFINE buf == DriverFills(0, report, size + 1)
           n == Shortest(size, Len(report))
<1>1. Len(buf) = n + 1
  BY FilledIs
<1>2. SubSeq(Tail(buf), 1, n) = Cut(report, size)
  BY Behind, 0 \in Nat, size <= size DEF DriverFills
<1> HIDE DEF buf
<1>3. n \in Nat /\ Len(buf) - 1 = n /\ Shortest(Len(buf) - 1, size) = n
  BY <1>1 DEF Shortest
<1> QED
  BY <1>2, <1>3 DEF GetReportNow, DriverCounts, Delivered, WithId, buf

(* A report without an ID that an interrupt transfer reads                  *)
LEMMA PlainBulk ==
    ASSUME NEW report \in Seq(Nat), NEW size \in Nat
    PROVE  /\ Delivered(BulkRead(FALSE, 0, report, size), 0, report, size)
           /\ BulkRead(FALSE, 0, report, size).ret = "overflow" <=> Len(report) > size
<1> DEFINE buf == DriverFills(0, report, size + 1 + 1)
           n == Shortest(size, Len(report))
<1>1. Len(buf) = Shortest(size + 1, Len(report)) + 1 /\ buf[1] = 0
  BY FilledIs, 0 \in Nat, size + 1 \in Nat
<1>2. SubSeq(buf, 2, n + 1) = Cut(report, size)
  BY Behind, 0 \in Nat, size + 1 \in Nat, size <= size + 1 DEF DriverFills
<1> HIDE DEF buf
<1>3. /\ n \in Nat /\ Shortest(Len(buf), size + 1) = n + 1 /\ n + 1 # 0
      /\ Len(buf) > size + 1 <=> Len(report) > size
  BY <1>1 DEF Shortest
<1>4. BulkRead(FALSE, 0, report, size) = Copied(buf, Len(buf), size + 1)
  BY DEF BulkRead, BulkLength, DriverCounts, buf
<1> QED
  <2>1. Copied(buf, Len(buf), size + 1).data = SubSeq(buf, 2, n + 1)
    BY <1>1, <1>3 DEF Copied
  <2>2. Copied(buf, Len(buf), size + 1).ret = IF Len(buf) > size + 1 THEN "overflow" ELSE "done"
    BY DEF Copied
  <2> QED
    BY <1>2, <1>3, <1>4, <2>1, <2>2 DEF Delivered, WithId

(* A report without an ID that a control request reads later: it is one byte *)
(* short, and nothing at all if there was only one                          *)
LEMMA PlainLater ==
    ASSUME NEW report \in Seq(Nat), NEW size \in Nat
    PROVE  GetReportLater(0, report, size).data
             = Cut(report, Shortest(size, Len(report)) - 1)
<1> DEFINE buf == DriverFills(0, report, size + 1)
           n == Shortest(size, Len(report))
<1>1. Len(buf) = n + 1 /\ buf[1] = 0
  BY FilledIs
<1>2. n \in Nat /\ n <= size /\ n <= Len(report) /\ Len(report) \in Nat
  BY DEF Shortest
<1> HIDE DEF buf, n
<1>3. GetReportLater(0, report, size) = Copied(buf, n, size)
  BY <1>1, <1>2 DEF GetReportLater, DriverCounts, buf
<1>4. Copied(buf, n, size).data = IF n = 0 THEN <<>> ELSE SubSeq(buf, 2, n)
  BY <1>1, <1>2 DEF Copied, Shortest
<1>5. CASE n = 0
  <2>1. Cut(report, n - 1) = SubSeq(report, 1, -1)
    BY <1>2, <1>5 DEF Cut, Shortest
  <2>2. SubSeq(report, 1, -1) = <<>>
    OBVIOUS
  <2> QED
    BY <1>3, <1>4, <1>5, <2>1, <2>2 DEF n
<1>6. CASE n # 0
  <2> DEFINE m == n - 1
  <2>1. m \in Nat /\ m <= size /\ Shortest(m, Len(report)) = m /\ m + 1 = n
    BY <1>2, <1>6 DEF Shortest
  <2> HIDE DEF m
  <2>2. SubSeq(buf, 2, m + 1) = Cut(report, m)
    BY <2>1, Behind, 0 \in Nat DEF DriverFills, buf
  <2> QED
    BY <1>3, <1>4, <1>6, <2>1, <2>2 DEF n, m
<1> QED
  BY <1>5, <1>6

(* Whatever is asked, the answer is right.                                  *)
LEMMA RequestAnswered ==
    ASSUME HidNext
    PROVE  ReportsRight'
<1> USE DEF NoRequest
<1>1. CASE AskDescriptor
  <2>1. request'.what = "descriptor"
    BY <1>1 DEF AskDescriptor
  <2> QED
    BY <2>1 DEF ReportsRight, ReadDelivers, WriteDelivers
<1>2. CASE AskReport
  <2>1. PICK id \in 0 .. 1, report \in Reports, size \in Asked, how \in {"now", "later", "bulk"},
             type \in {"input", "output", "feature"}, recipient \in {"interface", "endpoint"} :
          LET class == ClassRequest("in", recipient, "GET_REPORT", type, id, size)
          IN  request' = [what |-> "read", id |-> id, report |-> report, size |-> size, how |-> how,
                          answer |-> IF how = "bulk" THEN BulkRead(id # 0, id, report, size)
                                     ELSE IF class = "invalid" THEN Refused(class)
                                     ELSE IF how = "now" THEN GetReportNow(id, report, size)
                                     ELSE GetReportLater(id, report, size)]
    BY <1>2 DEF AskReport
  <2> DEFINE answer == request'.answer
  <2>2. /\ request'.what = "read" /\ request'.id = id /\ request'.report = report
        /\ request'.size = size /\ request'.how = how
        /\ answer = IF how = "bulk" THEN BulkRead(id # 0, id, report, size)
                    ELSE IF ClassRequest("in", recipient, "GET_REPORT", type, id, size) = "invalid"
                      THEN Refused("invalid")
                    ELSE IF how = "now" THEN GetReportNow(id, report, size)
                    ELSE GetReportLater(id, report, size)
    BY <2>1
  <2>3. id \in Nat /\ report \in Seq(Nat) /\ size \in Nat
    BY HidAssumption
  <2> HIDE DEF answer
  <2>4. CASE answer.ret = "invalid"
    BY <2>2, <2>4 DEF ReportsRight, ReadDelivers, WriteDelivers, answer
  <2>5. CASE how = "later" /\ id = 0
    <3>1. CASE answer.ret # "invalid"
      <4>1. answer = GetReportLater(id, report, size)
        BY <2>2, <2>5, <3>1 DEF Refused
      <4>2. answer.data = Cut(report, Shortest(size, Len(report)) - 1)
        BY <2>3, <2>5, <4>1, PlainLater
      <4> QED
        BY <2>2, <2>5, <4>2 DEF ReportsRight, ReadDelivers, WriteDelivers, answer
    <3> QED
      BY <2>4, <3>1
  <2>6. CASE answer.ret # "invalid" /\ ~(how = "later" /\ id = 0)
    <3>1. how # "bulk" => answer = IF how = "now" THEN GetReportNow(id, report, size)
                                   ELSE GetReportLater(id, report, size)
      BY <2>2, <2>6 DEF Refused
    <3>2. /\ Delivered(answer, id, report, size)
          /\ how = "bulk" \/ id # 0 => (answer.ret = "overflow" <=> Len(WithId(id, report)) > size)
      <4>1. CASE id # 0
        <5>1. BulkRead(id # 0, id, report, size)
                = Copied(DriverFills(id, report, size + 1),
                         Len(DriverFills(id, report, size + 1)), size)
          BY <4>1 DEF BulkRead, BulkLength, DriverCounts
        <5>2. GetReportLater(id, report, size)
                = Copied(DriverFills(id, report, size + 1),
                         Len(DriverFills(id, report, size + 1)), size)
          BY <4>1 DEF GetReportLater, DriverCounts
        <5>3. Delivered(answer, id, report, size)
          BY <2>2, <2>3, <3>1, <4>1, <5>1, <5>2, NumberedRead
        <5> QED
          BY <4>1, <5>3 DEF Delivered
      <4>2. CASE id = 0 /\ how = "now"
        BY <2>3, <3>1, <4>2, PlainNow
      <4>3. CASE id = 0 /\ how = "bulk"
        <5>1. answer = BulkRead(FALSE, 0, report, size)
          BY <2>2, <4>3
        <5> QED
          BY <2>3, <4>3, <5>1, PlainBulk DEF WithId
      <4> QED
        BY <2>6, <4>1, <4>2, <4>3
    <3>3. /\ answer.data = Cut(WithId(id, report), size)
          /\ (request'.how = "later" /\ request'.id = 0) = FALSE
      BY <2>2, <2>6, <3>2 DEF Delivered
    <3>4. ReadDelivers'
      <4>1. PICK whole : whole = WithId(id, report)
        OBVIOUS
      <4>2. /\ answer.data = Cut(whole, size)
            /\ how = "bulk" \/ id # 0 => (answer.ret = "overflow" <=> Len(whole) > size)
        BY <3>2, <3>3, <4>1
      <4>3. whole = IF request'.id = 0 THEN request'.report ELSE <<request'.id>> \o request'.report
        BY <2>2, <4>1 DEF WithId
      <4> QED
        BY <2>2, <3>3, <4>2, <4>3 DEF ReadDelivers, answer
    <3>5. WriteDelivers'
      BY <2>2 DEF WriteDelivers
    <3> QED
      BY <3>4, <3>5 DEF ReportsRight
  <2> QED
    BY <2>4, <2>5, <2>6
<1>3. CASE SendReport
  <2>1. PICK id \in 0 .. 1, report \in Reports, how \in {"control", "bulk"},
             type \in {"input", "output", "feature"} :
          LET data == IF id = 0 THEN report ELSE <<id>> \o report
              class == ClassRequest("out", "interface", "SET_REPORT", type, id, Len(data))
          IN  request' = [what |-> "write", id |-> id, report |-> report,
                          answer |-> IF how = "bulk" THEN Done(BulkWriteBuffer(id # 0, data))
                                     ELSE IF class = "invalid" THEN Refused(class)
                                     ELSE Done(SetReportBuffer(id, data))]
    BY <1>3 DEF SendReport
  <2> DEFINE data == IF id = 0 THEN report ELSE <<id>> \o report
  <2>2. /\ request'.what = "write" /\ request'.id = id /\ request'.report = report
        /\ request'.answer \in {Done(BulkWriteBuffer(id # 0, data)), Refused("invalid"),
                                Done(SetReportBuffer(id, data))}
    BY <2>1
  <2>3. BulkWriteBuffer(id # 0, data) = <<id>> \o report /\ SetReportBuffer(id, data) = <<id>> \o report
    BY DEF BulkWriteBuffer, SetReportBuffer
  <2>4. request'.answer.ret = "done" => request'.answer.data = <<id>> \o report
    BY <2>2, <2>3 DEF Done, Refused
  <2> QED
    BY <2>2, <2>4 DEF ReportsRight, ReadDelivers, WriteDelivers
<1> QED
  BY <1>1, <1>2, <1>3 DEF HidNext

(* No other step makes a request.                                           *)
LEMMA ReportsStep == ReportsRight /\ [HandleNext]_handleVars => ReportsRight'
<1> SUFFICES ASSUME ReportsRight, [HandleNext]_handleVars PROVE ReportsRight'
  OBVIOUS
<1>1. CASE AnswerRequest
  BY <1>1, RequestAnswered DEF AnswerRequest
<1>2. CASE request' = request
  BY <1>2 DEF ReportsRight, ReadDelivers, WriteDelivers
<1>3. CASE Open \/ OpenFails \/ Close \/ Claim \/ Release \/ Reset \/ ClearHalt
  BY <1>2, <1>3 DEF Open, OpenFails, Close, Claim, Release, Reset, ClearHalt
<1>4. CASE SetAlternate \/ AlternateForget \/ AlternateDrive \/ AlternateAssign
  BY <1>2, <1>4 DEF SetAlternate, AlternateForget, AlternateDrive, AlternateAssign
<1>5. ASSUME NEW t \in Transfers,
             SubmitControl(t) \/ Find(t) \/ AutoClaim(t) \/ TakeHandle(t) \/ Drive(t)
      PROVE  ReportsRight'
  BY <1>2, <1>5 DEF SubmitControl, Find, AutoClaim, TakeHandle, Drive
<1>6. ASSUME NEW t \in Transfers,
             SubmitPipe(t) \/ DrivePipe(t) \/ Cancel(t) \/ DriverEnds(t) \/ Handle(t)
      PROVE  ReportsRight'
  BY <1>2, <1>6 DEF SubmitPipe, DrivePipe, Cancel, DriverEnds, Handle
<1>7. CASE UNCHANGED handleVars
  BY <1>2, <1>7 DEF handleVars
<1> QED
  BY <1>1, <1>3, <1>4, <1>5, <1>6, <1>7 DEF HandleNext

(* ReportsRight, for reports and requests of any length: whoever reads a HID  *)
(* report, at once, later or by an interrupt transfer, gets it from its first *)
(* byte as far as asked for and, unless it came with a control request and    *)
(* without an ID, learns whether it was longer; a report without an ID that a  *)
(* control request reads later is exactly one byte short.  The driver gets a   *)
(* report that is written with its ID in front.                             *)
THEOREM HidReportsRight == HandleSpec => []ReportsRight
<1>1. HandleInit => ReportsRight
  BY DEF HandleInit, HidInit, NoRequest, ReportsRight, ReadDelivers, WriteDelivers
<1> QED
  BY <1>1, ReportsStep, PTL DEF HandleSpec

=============================================================================
