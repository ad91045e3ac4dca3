--------------------------- MODULE UvcStreamProofs ---------------------------
(***************************************************************************)
(* Proofs about the two halves of a stream.  UvcStream, its life on the    *)
(* threads: for every number of transfers, every bound on the sequence     *)
(* number and every choice of the faults.  UvcNegotiate, its set-up: for   *)
(* every camera that is as the code counts on it (CamerasAssumption), and  *)
(* every format, size and rate that is asked for (AsksAssumption).         *)
(***************************************************************************)
EXTENDS UvcStream, UvcNegotiate, ListLemmas, TLAPS

(* The variables of the handle, of the threads and of libusb stay in their  *)
(* ranges, whatever fails.                                                  *)
THEOREM StreamTypeCorrect == Spec => []TypeOK
<1> USE ConstantsAssumption DEF ConstantsAssumption, Transfers
<1>1. Init => TypeOK
  BY DEF Init, TypeOK
<1>2. TypeOK /\ [Next]_vars => TypeOK'
  <2> SUFFICES ASSUME TypeOK, [Next]_vars PROVE TypeOK'
    OBVIOUS
  <2> USE DEF TypeOK, handleVars, xferVars, lockVars, frameVars, appVars, evVars,
              usrVars, Broadcast, FreeSlots, Return
  <2>1. CASE App
    <3>1. ASSUME NEW call \in {"open", "start_streaming"}, Open(call)
          PROVE TypeOK'
      BY <3>1 DEF Open
    <3>2. CASE StartFails
      BY <3>2 DEF StartFails
    <3>3. ASSUME NEW cb \in {"null", "set"}, StartAlloc(cb)
          PROVE TypeOK'
      BY <3>3 DEF StartAlloc
    <3>4. CASE SubmitNext
      BY <3>4 DEF SubmitNext
    <3>5. CASE SubmitFailsLater
      BY <3>5 DEF SubmitFailsLater
    <3>6. CASE SubmitFailsFirst
      BY <3>6 DEF SubmitFailsFirst
    <3>7. CASE StopBegin
      BY <3>7 DEF StopBegin
    <3>8. CASE StopLock
      BY <3>8 DEF StopLock
    <3>9. CASE StopCancel
      BY <3>9 DEF StopCancel, NextSlot
    <3>10. CASE StopCancelFails
      BY <3>10 DEF StopCancelFails, NextSlot
    <3>11. CASE StopWait
      BY <3>11 DEF StopWait
    <3>12. CASE StopDrained
      BY <3>12 DEF StopDrained
    <3>13. CASE StopJoin
      BY <3>13 DEF StopJoin
    <3>14. CASE CloseBegin
      BY <3>14 DEF CloseBegin
    <3>15. CASE CloseFree
      BY <3>15 DEF CloseFree
    <3> QED
      BY <2>1, <3>1, <3>2, <3>3, <3>4, <3>5, <3>6, <3>7, <3>8, <3>9, <3>10,
         <3>11, <3>12, <3>13, <3>14, <3>15 DEF App
  <2>2. CASE Ev
    <3>1. ASSUME NEW t \in Transfers, NEW st \in {"data", "gone", "retry"},
                 Complete(t, st)
          PROVE TypeOK'
      BY <3>1 DEF Complete
    <3>2. CASE Publish
      BY <3>2 DEF Publish
    <3>3. CASE PayloadsDone
      BY <3>3 DEF PayloadsDone
    <3>4. CASE NoBuffers
      BY <3>4 DEF NoBuffers
    <3>5. CASE DropTransfer
      BY <3>5 DEF DropTransfer
    <3>6. CASE ReadRunning
      BY <3>6 DEF ReadRunning
    <3>7. CASE Resubmit
      BY <3>7 DEF Resubmit
    <3>8. CASE ResubmitFails
      BY <3>8 DEF ResubmitFails
    <3> QED
      BY <2>2, <3>1, <3>2, <3>3, <3>4, <3>5, <3>6, <3>7, <3>8 DEF Ev
  <2>3. CASE Usr
    <3>1. CASE UserWait
      BY <3>1 DEF UserWait
    <3>2. CASE UserExit
      BY <3>2 DEF UserExit
    <3>3. CASE UserTake
      BY <3>3 DEF UserTake
    <3>4. CASE UserCallback
      BY <3>4 DEF UserCallback
    <3> QED
      BY <2>3, <3>1, <3>2, <3>3, <3>4 DEF Usr
  <2>4. CASE SpuriousWakeup
    BY <2>4 DEF SpuriousWakeup
  <2>5. CASE UNCHANGED vars
    BY <2>5 DEF vars
  <2> QED
    BY <2>1, <2>2, <2>3, <2>4, <2>5 DEF Next
<1> QED
  BY <1>1, <1>2, PTL DEF Spec
-----------------------------------------------------------------------------
(* What may fail is chosen once *)
LEMMA CarefulStays == [Next]_vars => faults' = faults /\ Careful' = Careful
<1>1. [Next]_vars => faults' = faults
  BY DEF vars, Next, App, Ev, Usr, Open, StartFails, StartAlloc, SubmitNext,
         SubmitFailsLater, SubmitFailsFirst, StopBegin, StopLock, StopCancel,
         StopCancelFails, StopWait, StopDrained, StopJoin, CloseBegin, CloseFree,
         Complete, Publish, PayloadsDone, NoBuffers, DropTransfer, ReadRunning,
         Resubmit, ResubmitFails, UserWait, UserExit, UserTake, UserCallback,
         SpuriousWakeup
<1> QED
  BY <1>1 DEF Careful

(***************************************************************************)
(* That a stop leaves nothing behind.  Quiesced alone is not inductive: it *)
(* needs to know where each transfer is while the stream runs.  Every      *)
(* transfer in libusb or in the callback has a slot, so no slot set means  *)
(* nothing is left; a slot is only cleared for a transfer that is neither  *)
(* in flight nor in the hands of the callback; while the start is still    *)
(* submitting, the transfers not yet submitted are untouched.              *)
(***************************************************************************)

(* The transfer the event thread is calling back for *)
InCallback == IF evPc = "idle" THEN {} ELSE {evXfer}

(* Every active transfer has its slot and its memory *)
ActiveHaveSlot ==
    /\ alloc = slot
    /\ flying \subseteq slot
    /\ InCallback \subseteq slot
    /\ flying \cap InCallback = {}

(* The submission loop runs on a running stream and has touched only the    *)
(* transfers before its index.                                              *)
SubmitInv ==
    appPc = "submit" =>
        /\ running = 1
        /\ \A t \in Transfers : t >= appIdx => /\ t \in slot
                                              /\ t \notin flying
                                              /\ t \notin InCallback

(* Where the stream is not running, and what the stop has established       *)
PhaseInv ==
    /\ appPc \in {"start", "lock", "cancel", "await", "join"} => running = 0
    /\ appPc = "join" => slot = {}
    /\ handle = "none" => running = 0
    /\ bufs = "ok" /\ evPc # "innerdrop"

QuiescedInv == /\ TypeOK
               /\ ActiveHaveSlot
               /\ SubmitInv
               /\ PhaseInv
               /\ Stopped => slot = {} /\ usrPc = "none"

(* With working buffers and cancellations, the strengthened invariant holds *)
LEMMA QuiescedInvInvariant == Spec => [](Careful => QuiescedInv)
<1> USE ConstantsAssumption DEF ConstantsAssumption, Transfers, InCallback
<1>1. Init => (Careful => QuiescedInv)
  BY DEF Init, QuiescedInv, TypeOK, ActiveHaveSlot, SubmitInv, PhaseInv
<1>2. TypeOK' /\ (Careful => QuiescedInv) /\ [Next]_vars
        => (Careful => QuiescedInv)'
  <2> SUFFICES ASSUME TypeOK', QuiescedInv, Careful, [Next]_vars
               PROVE  QuiescedInv'
    BY CarefulStays
  <2> USE DEF QuiescedInv, TypeOK, ActiveHaveSlot, SubmitInv, PhaseInv, Stopped,
              handleVars, xferVars, lockVars, frameVars, appVars, evVars,
              usrVars, Broadcast, FreeSlots, Return, Careful
  <2>1. CASE App
    <3>1. ASSUME NEW call \in {"open", "start_streaming"}, Open(call)
          PROVE QuiescedInv'
      BY <3>1 DEF Open
    <3>2. CASE StartFails
      BY <3>2 DEF StartFails, StartAllowed
    <3>3. ASSUME NEW cb \in {"null", "set"}, StartAlloc(cb)
          PROVE QuiescedInv'
      BY <3>3 DEF StartAlloc, StartAllowed
    <3>4. CASE SubmitNext
      BY <3>4 DEF SubmitNext
    <3>5. CASE SubmitFailsLater
      BY <3>5 DEF SubmitFailsLater
    <3>6. CASE SubmitFailsFirst
      BY <3>6 DEF SubmitFailsFirst
    <3>7. CASE StopBegin
      BY <3>7 DEF StopBegin
    <3>8. CASE StopLock
      BY <3>8 DEF StopLock
    <3>9. CASE StopCancel
      BY <3>9 DEF StopCancel, NextSlot
    <3>10. CASE StopCancelFails
      BY <3>10 DEF StopCancelFails, NextSlot
    <3>11. CASE StopWait
      BY <3>11 DEF StopWait
    <3>12. CASE StopDrained
      BY <3>12 DEF StopDrained
    <3>13. CASE StopJoin
      BY <3>13 DEF StopJoin
    <3>14. CASE CloseBegin
      BY <3>14 DEF CloseBegin
    <3>15. CASE CloseFree
      BY <3>15 DEF CloseFree
    <3> QED
      BY <2>1, <3>1, <3>2, <3>3, <3>4, <3>5, <3>6, <3>7, <3>8, <3>9, <3>10,
         <3>11, <3>12, <3>13, <3>14, <3>15 DEF App
  <2>2. CASE Ev
    <3>1. ASSUME NEW t \in Transfers, NEW st \in {"data", "gone", "retry"},
                 Complete(t, st)
          PROVE QuiescedInv'
      BY <3>1 DEF Complete
    <3>2. CASE Publish
      BY <3>2 DEF Publish
    <3>3. CASE PayloadsDone
      BY <3>3 DEF PayloadsDone
    <3>4. CASE NoBuffers
      BY <3>4 DEF NoBuffers
    <3>5. CASE DropTransfer
      BY <3>5 DEF DropTransfer
    <3>6. CASE ReadRunning
      BY <3>6 DEF ReadRunning
    <3>7. CASE Resubmit
      BY <3>7 DEF Resubmit
    <3>8. CASE ResubmitFails
      BY <3>8 DEF ResubmitFails
    <3> QED
      BY <2>2, <3>1, <3>2, <3>3, <3>4, <3>5, <3>6, <3>7, <3>8 DEF Ev
  <2>3. CASE Usr
    <3>1. CASE UserWait
      BY <3>1 DEF UserWait
    <3>2. CASE UserExit
      BY <3>2 DEF UserExit
    <3>3. CASE UserTake
      BY <3>3 DEF UserTake
    <3>4. CASE UserCallback
      BY <3>4 DEF UserCallback
    <3> QED
      BY <2>3, <3>1, <3>2, <3>3, <3>4 DEF Usr
  <2>4. CASE SpuriousWakeup
    BY <2>4 DEF SpuriousWakeup
  <2>5. CASE UNCHANGED vars
    BY <2>5 DEF vars
  <2> QED
    BY <2>1, <2>2, <2>3, <2>4, <2>5 DEF Next
<1> QED
  BY <1>1, <1>2, StreamTypeCorrect, PTL DEF Spec

(* After uvc_stream_stop has returned (and before uvc_stream_close frees    *)
(* the handle) no transfer, callback or thread of the stream is left.       *)
THEOREM StreamQuiesced == Spec => []Quiesced
<1>1. (Careful => QuiescedInv) => Quiesced
  BY DEF QuiescedInv, ActiveHaveSlot, Quiesced, InCallback, Stopped
<1> QED
  BY <1>1, QuiescedInvInvariant, PTL

(* No transfer is freed while libusb or the callback still works on it.     *)
THEOREM StreamFreesOnlyInactive == Spec => []FreedOnlyWhenInactive
<1>1. (Careful => QuiescedInv) => FreedOnlyWhenInactive
  BY DEF QuiescedInv, ActiveHaveSlot, FreedOnlyWhenInactive, NeverFreedActive,
         InCallback
<1> QED
  BY <1>1, QuiescedInvInvariant, PTL
-----------------------------------------------------------------------------
(***************************************************************************)
(* The sequence numbers of delivered frames.  The number in the hold       *)
(* buffer is the one before that of the frame being assembled, or comes    *)
(* from a session before: a restart takes seq back and leaves hold_seq.    *)
(***************************************************************************)
SequenceInv == hold_seq >= seq \/ hold_seq = seq - 1

(* No action but a start and a publication touches the two numbers          *)
LEMMA SequenceInvInvariant == Spec => []SequenceInv
<1> USE ConstantsAssumption DEF ConstantsAssumption, SequenceInv
<1>1. Init => SequenceInv
  BY DEF Init
<1>2. TypeOK /\ SequenceInv /\ [Next]_vars => SequenceInv'
  <2> SUFFICES ASSUME TypeOK, SequenceInv, [Next]_vars
               PROVE  SequenceInv'
    OBVIOUS
  <2> USE DEF TypeOK, frameVars
  <2>1. CASE App
    <3>1. ASSUME NEW call \in {"open", "start_streaming"}, Open(call)
          PROVE SequenceInv'
      BY <3>1 DEF Open
    <3>2. CASE StartFails
      BY <3>2 DEF StartFails
    <3>3. ASSUME NEW cb \in {"null", "set"}, StartAlloc(cb)
          PROVE SequenceInv'
      BY <3>3 DEF StartAlloc
    <3>4. CASE \/ SubmitNext \/ SubmitFailsLater \/ SubmitFailsFirst \/ StopBegin
               \/ StopLock \/ StopCancel \/ StopCancelFails \/ StopWait
               \/ StopDrained \/ StopJoin \/ CloseBegin \/ CloseFree
      BY <3>4 DEF SubmitNext, SubmitFailsLater, SubmitFailsFirst, StopBegin,
                  StopLock, StopCancel, StopCancelFails, StopWait, StopDrained,
                  StopJoin, CloseBegin, CloseFree
    <3> QED
      BY <2>1, <3>1, <3>2, <3>3, <3>4 DEF App
  <2>2. CASE Ev
    <3>1. CASE Publish
      BY <3>1 DEF Publish
    <3>2. ASSUME NEW t \in Transfers, NEW st \in {"data", "gone", "retry"},
                 Complete(t, st)
          PROVE SequenceInv'
      BY <3>2 DEF Complete
    <3>3. CASE \/ PayloadsDone \/ NoBuffers \/ DropTransfer \/ ReadRunning
               \/ Resubmit \/ ResubmitFails
      BY <3>3 DEF PayloadsDone, NoBuffers, DropTransfer, ReadRunning, Resubmit,
                  ResubmitFails
    <3> QED
      BY <2>2, <3>1, <3>2, <3>3 DEF Ev
  <2>3. CASE Usr
    BY <2>3 DEF Usr, UserWait, UserExit, UserTake, UserCallback
  <2>4. CASE SpuriousWakeup
    BY <2>4 DEF SpuriousWakeup
  <2>5. CASE UNCHANGED vars
    BY <2>5 DEF vars
  <2> QED
    BY <2>1, <2>2, <2>3, <2>4, <2>5 DEF Next
<1> QED
  BY <1>1, <1>2, StreamTypeCorrect, PTL DEF Spec

(* The frames one user callback receives carry strictly increasing numbers  *)
(* (libuvc.h, uvc_frame.sequence), once those of a session before are gone. *)
THEOREM StreamSequenceIncreases == Spec => SequenceIncreases
<1>1. SequenceInv /\ TypeOK /\ [Next]_vars
        => [(Careful /\ OwnNumbers /\ usrPc = "run" /\ usrPc' = "callback")
                => last_seq' > last_seq]_vars
  <2> SUFFICES ASSUME SequenceInv, TypeOK, Next, OwnNumbers,
                      usrPc = "run", usrPc' = "callback"
               PROVE  last_seq' > last_seq
    BY DEF vars
  <2>1. UserTake
    BY DEF Next, App, Ev, Usr, Open, StartFails, StartAlloc, SubmitNext,
           SubmitFailsLater, SubmitFailsFirst, StopBegin, StopLock, StopCancel,
           StopCancelFails, StopWait, StopDrained, StopJoin, CloseBegin, CloseFree,
           Complete, Publish, PayloadsDone, NoBuffers, DropTransfer, ReadRunning,
           Resubmit, ResubmitFails, UserWait, UserExit, UserCallback,
           SpuriousWakeup, usrVars
  <2> QED
    BY <2>1, ConstantsAssumption
    DEF UserTake, SequenceInv, OwnNumbers, TypeOK, ConstantsAssumption
<1> QED
  BY <1>1, SequenceInvInvariant, StreamTypeCorrect, PTL DEF Spec, SequenceIncreases

-----------------------------------------------------------------------------
(* Setting up a stream.                                                     *)

(* A place is three numbers, and what is found there has its type.          *)
LEMMA PlaceTyped ==
    ASSUME NEW numbers, NEW i, Typed(i, numbers), NEW p \in PlacesIn(i)
    PROVE  /\ p \in Nat \X Nat \X Nat
           /\ p[1] \in DOMAIN i.streams /\ p[1] \in 1 .. Len(i.streams)
           /\ p[2] \in 1 .. Len(i.streams[p[1]].formats)
           /\ p[3] \in 1 .. Len(FormatIn(i, p).frames)
           /\ FormatIn(i, p) \in FormatType /\ FrameIn(i, p) \in FrameType
           /\ NumberIn(i, p) \in numbers
<1>1. \E s \in DOMAIN i.streams : \E f \in DOMAIN i.streams[s].formats :
        \E r \in DOMAIN i.streams[s].formats[f].frames : p = <<s, f, r>>
  BY DEF PlacesIn
<1>a. PICK s \in DOMAIN i.streams : \E f \in DOMAIN i.streams[s].formats :
        \E r \in DOMAIN i.streams[s].formats[f].frames : p = <<s, f, r>>
  BY <1>1
<1>b. PICK f \in DOMAIN i.streams[s].formats :
        \E r \in DOMAIN i.streams[s].formats[f].frames : p = <<s, f, r>>
  BY <1>a
<1>c. PICK r \in DOMAIN i.streams[s].formats[f].frames : p = <<s, f, r>>
  BY <1>b
<1>2. i.streams \in Seq(StreamType(numbers))
  BY DEF Typed
<1>3. s \in 1 .. Len(i.streams) /\ i.streams[s] \in StreamType(numbers)
  BY <1>2
<1>4. i.streams[s].formats \in Seq(FormatType) /\ i.streams[s].number \in numbers
  BY <1>3 DEF StreamType
<1>5. f \in 1 .. Len(i.streams[s].formats) /\ i.streams[s].formats[f] \in FormatType
  BY <1>b, <1>4
<1>6. i.streams[s].formats[f].frames \in Seq(FrameType)
  BY <1>5 DEF FormatType
<1>7. /\ r \in 1 .. Len(i.streams[s].formats[f].frames)
      /\ i.streams[s].formats[f].frames[r] \in FrameType
  BY <1>c, <1>6
<1>8. p[1] = s /\ p[2] = f /\ p[3] = r
  BY <1>c
<1>9. s \in Nat /\ f \in Nat /\ r \in Nat
  BY <1>3, <1>5, <1>7
<1> QED
  BY <1>c, <1>3, <1>4, <1>5, <1>7, <1>8, <1>9 DEF FormatIn, FrameIn, NumberIn

(* The order of the lists is linear.                                        *)
LEMMA BeforeLinear ==
    ASSUME NEW p \in Nat \X Nat \X Nat, NEW q \in Nat \X Nat \X Nat
    PROVE  /\ p = q \/ Before(p, q) \/ Before(q, p)
           /\ ~(Before(p, q) /\ Before(q, p)) /\ ~Before(p, p)
<1>1. PICK a, b, c \in Nat : p = <<a, b, c>>
  OBVIOUS
<1>2. PICK d, e, f \in Nat : q = <<d, e, f>>
  OBVIOUS
<1>3. /\ p[1] = a /\ p[2] = b /\ p[3] = c
      /\ q[1] = d /\ q[2] = e /\ q[3] = f
  BY <1>1, <1>2
<1> QED
  BY <1>1, <1>2, <1>3 DEF Before

(* The search has one result, if it has any.                                *)
LEMMA FirstExists ==
    ASSUME NEW P \in SUBSET (Nat \X Nat \X Nat), P # {}
    PROVE  \E p \in P : /\ FirstOf(P) = {p}
                        /\ \A q \in P : q = p \/ Before(p, q)
<1> DEFINE A == {p[1] : p \in P}
<1>1. \A p \in P : p[1] \in Nat /\ p[2] \in Nat /\ p[3] \in Nat
  OBVIOUS
<1>2. PICK a \in A : \A k \in A : a <= k
  <2>1. A \in SUBSET Nat /\ A # {}
    BY <1>1
  <2> QED
    BY <2>1, MinExists
<1> DEFINE B == {p[2] : p \in {q \in P : q[1] = a}}
<1>3. PICK b \in B : \A k \in B : b <= k
  <2>1. B \in SUBSET Nat /\ B # {}
    BY <1>1, <1>2
  <2> HIDE DEF A, B
  <2> QED
    BY <2>1, MinExists
<1> DEFINE C == {p[3] : p \in {q \in P : q[1] = a /\ q[2] = b}}
<1>4. PICK c \in C : \A k \in C : c <= k
  <2>1. C \in SUBSET Nat /\ C # {}
    BY <1>1, <1>3
  <2> HIDE DEF A, B, C
  <2> QED
    BY <2>1, MinExists
<1>5. PICK p \in P : p[1] = a /\ p[2] = b /\ p[3] = c
  BY <1>4
<1>6. ASSUME NEW q \in P PROVE q = p \/ Before(p, q)
  <2>1. /\ a \in Nat /\ b \in Nat /\ c \in Nat
        /\ q[1] \in Nat /\ q[2] \in Nat /\ q[3] \in Nat
    BY <1>1, <1>5
  <2>2. a <= q[1]
    BY <1>2
  <2>3. q[1] = a => b <= q[2]
    BY <1>3
  <2>4. q[1] = a /\ q[2] = b => c <= q[3]
    BY <1>4
  <2>5. q[1] = a /\ q[2] = b /\ q[3] = c => q = p
    <3>1. q = <<q[1], q[2], q[3]>> /\ p = <<p[1], p[2], p[3]>>
      OBVIOUS
    <3> QED
      BY <1>5, <3>1
  <2> HIDE DEF A, B, C
  <2> QED
    BY <1>5, <2>1, <2>2, <2>3, <2>4, <2>5 DEF Before
<1>7. FirstOf(P) = {p}
  <2>1. p \in FirstOf(P)
    BY <1>6 DEF FirstOf
  <2>2. ASSUME NEW q \in FirstOf(P) PROVE q = p
    <3>1. q \in P /\ (p = q \/ Before(q, p))
      BY <2>2 DEF FirstOf
    <3>2. q \in Nat \X Nat \X Nat /\ p \in Nat \X Nat \X Nat
      BY <3>1
    <3> QED
      BY <3>1, <3>2, <1>6, BeforeLinear
  <2> QED
    BY <2>1, <2>2
<1> QED
  BY <1>6, <1>7

(* A bounded set of numbers that is not empty has a greatest element.       *)
LEMMA MaxExists ==
    ASSUME NEW n \in Nat, NEW T \in SUBSET (1 .. n), T # {}
    PROVE  \E m \in T : \A k \in T : k <= m
<1> DEFINE D == {n - k : k \in T}
<1>1. D \in SUBSET Nat /\ D # {}
  <2>1. \A k \in T : k \in 1 .. n
    OBVIOUS
  <2>2. \A k \in 1 .. n : n - k \in Nat
    OBVIOUS
  <2>3. PICK k \in T : TRUE
    OBVIOUS
  <2>4. n - k \in D
    BY <2>3
  <2>5. \A d \in D : d \in Nat
    BY <2>1, <2>2
  <2> HIDE DEF D
  <2> QED
    BY <2>4, <2>5
<1>2. PICK d \in D : \A e \in D : d <= e
  <2> HIDE DEF D
  <2> QED
    BY <1>1, MinExists
<1>3. PICK m \in T : d = n - m
  BY <1>2
<1>4. ASSUME NEW k \in T PROVE k <= m
  <2>1. n - m <= n - k
    BY <1>2, <1>3
  <2>2. n \in Nat /\ m \in Nat /\ k \in Nat
    OBVIOUS
  <2> HIDE DEF D
  <2> QED
    BY <2>1, <2>2
<1> QED
  BY <1>4

(* Among places there is a last one.                                        *)
LEMMA LastExists ==
    ASSUME NEW numbers, NEW i, Typed(i, numbers),
           NEW P \in SUBSET PlacesIn(i), P # {}
    PROVE  \E p \in P : /\ {q \in P : \A r \in P : r = q \/ Before(r, q)} = {p}
                        /\ \A q \in P : q = p \/ Before(q, p)
<1> DEFINE A == {p[1] : p \in P}
<1>1. \A p \in P : /\ p \in Nat \X Nat \X Nat
                   /\ p[1] \in 1 .. Len(i.streams)
                   /\ p[2] \in 1 .. Len(i.streams[p[1]].formats)
                   /\ p[3] \in 1 .. Len(i.streams[p[1]].formats[p[2]].frames)
                   /\ i.streams[p[1]] \in StreamType(numbers)
                   /\ i.streams[p[1]].formats[p[2]] \in FormatType
  <2> TAKE p \in P
  <2>1. i.streams \in Seq(StreamType(numbers))
    BY DEF Typed
  <2>2. p \in PlacesIn(i)
    OBVIOUS
  <2> QED
    BY <2>1, <2>2, PlaceTyped DEF FormatIn
<1>2. PICK a \in A : \A k \in A : k <= a
  <2>1. A # {} /\ A \in SUBSET (1 .. Len(i.streams))
    BY <1>1
  <2>2. Len(i.streams) \in Nat
    BY DEF Typed
  <2> HIDE DEF A
  <2> QED
    BY <2>1, <2>2, MaxExists
<1> DEFINE B == {p[2] : p \in {q \in P : q[1] = a}}
<1>3. PICK b \in B : \A k \in B : k <= b
  <2>1. B # {} /\ B \in SUBSET (1 .. Len(i.streams[a].formats))
    BY <1>1, <1>2
  <2>2. Len(i.streams[a].formats) \in Nat
    <3>1. i.streams[a] \in StreamType(numbers)
      BY <1>1, <1>2
    <3> QED
      BY <3>1 DEF StreamType
  <2> HIDE DEF A, B
  <2> QED
    BY <2>1, <2>2, MaxExists
<1> DEFINE C == {p[3] : p \in {q \in P : q[1] = a /\ q[2] = b}}
<1>4. PICK c \in C : \A k \in C : k <= c
  <2>1. C # {} /\ C \in SUBSET (1 .. Len(i.streams[a].formats[b].frames))
    BY <1>1, <1>3
  <2>2. Len(i.streams[a].formats[b].frames) \in Nat
    <3>1. i.streams[a].formats[b] \in FormatType
      BY <1>1, <1>3
    <3> QED
      BY <3>1 DEF FormatType
  <2> HIDE DEF A, B, C
  <2> QED
    BY <2>1, <2>2, MaxExists
<1>5. PICK p \in P : p[1] = a /\ p[2] = b /\ p[3] = c
  BY <1>4
<1>6. ASSUME NEW q \in P PROVE q = p \/ Before(q, p)
  <2>0. q \in Nat \X Nat \X Nat /\ p \in Nat \X Nat \X Nat
    BY <1>1
  <2>1. /\ a \in Nat /\ b \in Nat /\ c \in Nat
        /\ q[1] \in Nat /\ q[2] \in Nat /\ q[3] \in Nat
    BY <2>0, <1>5
  <2>2. q[1] <= a
    BY <1>2
  <2>3. q[1] = a => q[2] <= b
    BY <1>3
  <2>4. q[1] = a /\ q[2] = b => q[3] <= c
    BY <1>4
  <2>5. q[1] = a /\ q[2] = b /\ q[3] = c => q = p
    <3>1. q = <<q[1], q[2], q[3]>> /\ p = <<p[1], p[2], p[3]>>
      BY <2>0
    <3> QED
      BY <1>5, <3>1
  <2> HIDE DEF A, B, C
  <2> QED
    BY <1>5, <2>1, <2>2, <2>3, <2>4, <2>5 DEF Before
<1> DEFINE L == {q \in P : \A r \in P : r = q \/ Before(r, q)}
<1>7. L = {p}
  <2>1. p \in L
    BY <1>6
  <2>2. ASSUME NEW q \in L PROVE q = p
    <3>1. q \in P /\ (p = q \/ Before(p, q))
      BY <2>2
    <3>2. q \in Nat \X Nat \X Nat /\ p \in Nat \X Nat \X Nat
      BY <3>1, <1>1
    <3> HIDE DEF L
    <3> QED
      BY <3>1, <3>2, <1>6, BeforeLinear
  <2> QED
    BY <2>1, <2>2
<1> QED
  BY <1>6, <1>7

(* A rate that is not too fast survives its conversion to ticks and back.   *)
LEMMA RateKept ==
    ASSUME NEW t \in Nat, NEW fps \in Nat, fps # 0, fps * fps <= t, NEW i \in Nat,
           fps * i <= t, t < fps * i + fps
    PROVE  i # 0 /\ i * fps <= t /\ t < i * fps + i
<1>1. fps <= i
  <2> SUFFICES ASSUME i + 1 <= fps PROVE FALSE
    OBVIOUS
  <2>1. fps * (i + 1) <= fps * fps
    OBVIOUS
  <2>2. fps * (i + 1) = fps * i + fps
    OBVIOUS
  <2> QED
    BY <2>1, <2>2
<1>2. i * fps = fps * i
  OBVIOUS
<1> QED
  BY <1>1, <1>2

(* A quotient is what its bounds say.                                      *)
LEMMA QuotientIs ==
    ASSUME NEW t \in Nat, NEW d \in Nat, d # 0, NEW q \in Nat, d * q <= t, t < d * q + d
    PROVE  t \div d = q
<1> DEFINE r == t \div d
<1>1. r \in Nat /\ d * r <= t /\ t < d * r + d
  OBVIOUS
<1> HIDE DEF r
<1>2. ~(r < q)
  <2> SUFFICES ASSUME r + 1 <= q PROVE FALSE
    BY <1>1
  <2>1. d * (r + 1) <= d * q
    BY <1>1
  <2>2. d * (r + 1) = d * r + d
    BY <1>1
  <2> QED
    BY <1>1, <2>1, <2>2
<1>3. ~(q < r)
  <2> SUFFICES ASSUME q + 1 <= r PROVE FALSE
    BY <1>1
  <2>1. d * (q + 1) <= d * r
    BY <1>1
  <2>2. d * (q + 1) = d * q + d
    BY <1>1
  <2> QED
    BY <1>1, <2>1, <2>2
<1>4. r = q
  BY <1>1, <1>2, <1>3
<1> QED
  BY <1>4 DEF r

(* An interval that the search accepts has the rate.                        *)
LEMMA IntervalRight ==
    ASSUME NEW frame \in FrameType, NEW fps, Rate(fps), Interval(frame, fps) # 0,
           ~Divides(frame, fps)
    PROVE  /\ Interval(frame, fps) \in Nat
           /\ fps # 0 => Ticks \div Interval(frame, fps) = fps
<1>1. CASE frame.intervals # <<>>
  <2> DEFINE fit == {k \in DOMAIN frame.intervals :
                        fps = 0 \/ Ticks \div frame.intervals[k] = fps}
             k0 == CHOOSE k \in fit : \A j \in fit : k <= j
  <2>1. Interval(frame, fps) = IF fit = {} THEN 0 ELSE frame.intervals[k0]
    BY <1>1 DEF Interval
  <2>2. frame.intervals \in Seq(Nat \ {0})
    BY DEF FrameType
  <2>3. fit \in SUBSET Nat /\ fit # {}
    <3>1. fit # {}
      <4> HIDE DEF fit, k0
      <4> QED
        BY <2>1
    <3>2. DOMAIN frame.intervals \in SUBSET Nat
      BY <2>2
    <3> QED
      BY <3>1, <3>2
  <2>4. k0 \in fit
    <3>1. \E k \in fit : \A j \in fit : k <= j
      <4> HIDE DEF fit
      <4> QED
        BY <2>3, MinExists
    <3> QED
      BY <3>1
  <2>5. Interval(frame, fps) = frame.intervals[k0]
    <3> HIDE DEF fit, k0
    <3> QED
      BY <2>1, <2>3
  <2>6. k0 \in DOMAIN frame.intervals /\ (fps = 0 \/ Ticks \div frame.intervals[k0] = fps)
    <3> HIDE DEF k0
    <3> QED
      BY <2>4
  <2>7. frame.intervals[k0] \in Nat
    <3> HIDE DEF k0
    <3> QED
      BY <2>2, <2>6
  <2> HIDE DEF k0, fit
  <2> QED
    BY <2>5, <2>6, <2>7
<1>2. CASE frame.intervals = <<>>
  <2>1. fps # 0 /\ fps \in Nat /\ fps * fps <= Ticks
    BY <1>2 DEF Divides, Rate
  <2>2. Ticks \in Nat
    BY SMT DEF Ticks
  <2> DEFINE i == Interval(frame, fps)
  <2>3. i = Ticks \div fps
    BY <1>2 DEF Interval
  <2>4. i \in Nat /\ fps * i <= Ticks /\ Ticks < fps * i + fps
    BY <2>1, <2>2, <2>3
  <2> HIDE DEF i
  <2>5. i # 0 /\ i * fps <= Ticks /\ Ticks < i * fps + i
    BY <2>1, <2>2, <2>4, RateKept
  <2>6. Ticks \div i = fps
    BY <2>1, <2>2, <2>4, <2>5, QuotientIs
  <2> QED
    BY <2>4, <2>6 DEF i
<1> QED
  BY <1>1, <1>2

(* A transfer of whole packets holds a frame, or has as many as there may be. *)
LEMMA PacketsEnough ==
    ASSUME NEW bytes \in Nat \ {0}, NEW size \in Nat \ {0}
    PROVE  /\ Packets(bytes, size) \in 1 .. 32
           /\ Packets(bytes, size) * bytes >= size \/ Packets(bytes, size) = 32
<1> DEFINE n == (size + bytes - 1) \div bytes
<1>1. /\ n \in Nat /\ bytes * n <= size + bytes - 1
      /\ size + bytes - 1 < bytes * n + bytes
  OBVIOUS
<1>2. Packets(bytes, size) = IF n > 32 THEN 32 ELSE n
  BY DEF Packets
<1> HIDE DEF n
<1>3. n >= 1
  <2> SUFFICES ASSUME n = 0 PROVE FALSE
    BY <1>1
  <2>1. bytes * n = 0
    OBVIOUS
  <2> QED
    BY <1>1, <2>1
<1>4. n * bytes >= size
  <2>1. n * bytes = bytes * n /\ bytes * n \in Nat
    BY <1>1
  <2> QED
    BY <1>1, <2>1
<1> QED
  BY <1>1, <1>2, <1>3, <1>4

-----------------------------------------------------------------------------
(* An open camera as the code counts on it.                                 *)
Described ==
    /\ camera.payload \in Nat /\ camera.clock \in Nat /\ camera.sized \in BOOLEAN
    /\ Typed(info, Numbers) /\ Distinct(info)
    /\ SizesFound(info, camera.sized) /\ Alternates(info)

(* Places of the open camera.                                              *)
LEMMA PlaceHere ==
    ASSUME Described, NEW p \in Places
    PROVE  /\ p \in Nat \X Nat \X Nat
           /\ p[1] \in DOMAIN info.streams
           /\ FormatAt(p) \in FormatType /\ FrameAt(p) \in FrameType
           /\ NumberAt(p) \in Numbers /\ p[1] \in StreamIfs(NumberAt(p))
<1>1. Typed(info, Numbers) /\ p \in PlacesIn(info)
  BY DEF Described, Places
<1>2. /\ p \in Nat \X Nat \X Nat
      /\ p[1] \in DOMAIN info.streams
      /\ FormatIn(info, p) \in FormatType /\ FrameIn(info, p) \in FrameType
      /\ NumberIn(info, p) \in Numbers
  BY <1>1, PlaceTyped
<1> QED
  BY <1>2 DEF FormatAt, FrameAt, NumberAt, StreamIfs, NumberIn

(* A frame is found by its interface and its indices.                       *)
LEMMA SamePlace ==
    ASSUME Described, NEW p \in Places
    PROVE  FindFrameStream(NumberAt(p), FormatAt(p).index, FrameAt(p).index) = {p}
<1> DEFINE S == {q \in Places : NumberAt(q) = NumberAt(p)
                                /\ HasIndices(q, FormatAt(p).index, FrameAt(p).index)}
<1>1. S = {p}
  <2>1. p \in S
    BY DEF HasIndices
  <2>2. ASSUME NEW q \in S PROVE q = p
    <3>1. q \in PlacesIn(info) /\ p \in PlacesIn(info)
      BY <2>2 DEF Places
    <3>2. NumberIn(info, q) = NumberIn(info, p) /\ SameIndices(info, q, p)
      BY <2>2 DEF HasIndices, SameIndices, NumberAt, FormatAt, FrameAt
    <3> QED
      BY <3>1, <3>2 DEF Described, Distinct
  <2> QED
    BY <2>1, <2>2
<1> QED
  BY <1>1 DEF FindFrameStream, FirstOf

(* uvc_find_frame_desc_stream gives that frame, if it gives any.           *)
LEMMA StreamFrame ==
    ASSUME Described, NEW number, NEW format, NEW frame,
           FindFrameStream(number, format, frame) # {}
    PROVE  \E p \in Places : /\ FindFrameStream(number, format, frame) = {p}
                             /\ NumberAt(p) = number
                             /\ FormatAt(p).index = format /\ FrameAt(p).index = frame
<1>1. PICK p \in FindFrameStream(number, format, frame) : TRUE
  OBVIOUS
<1>2. p \in Places /\ NumberAt(p) = number /\ HasIndices(p, format, frame)
  BY <1>1 DEF FindFrameStream, FirstOf
<1>3. FormatAt(p).index = format /\ FrameAt(p).index = frame
  BY <1>2 DEF HasIndices
<1> QED
  BY <1>2, <1>3, SamePlace

(* uvc_find_frame_desc gives a frame with these indices, if there is one:    *)
(* the first of all interfaces.                                             *)
LEMMA FrameFound ==
    ASSUME Described, NEW p \in Places
    PROVE  \E q \in Places :
             /\ FindFrame(FormatAt(p).index, FrameAt(p).index) = {q}
             /\ SameIndices(info, p, q) /\ (q = p \/ Before(q, p))
<1> DEFINE S == {q \in Places : HasIndices(q, FormatAt(p).index, FrameAt(p).index)}
<1>1. p \in S
  BY DEF HasIndices
<1>2. S \in SUBSET (Nat \X Nat \X Nat)
  BY PlaceHere
<1>3. PICK q \in S : FirstOf(S) = {q} /\ \A r \in S : r = q \/ Before(q, r)
  <2> HIDE DEF S
  <2> QED
    BY <1>1, <1>2, FirstExists
<1>4. q \in Places /\ HasIndices(q, FormatAt(p).index, FrameAt(p).index)
  BY <1>3
<1>5. SameIndices(info, p, q)
  BY <1>4 DEF HasIndices, SameIndices, FormatAt, FrameAt
<1>6. q = p \/ Before(q, p)
  <2> HIDE DEF S
  <2> QED
    BY <1>1, <1>3
<1>7. FindFrame(FormatAt(p).index, FrameAt(p).index) = {q}
  BY <1>3 DEF FindFrame
<1> QED
  BY <1>4, <1>5, <1>6, <1>7

(* uvc_find_frame_desc gives one frame or none.                            *)
LEMMA FrameOrNone ==
    ASSUME Described, NEW format, NEW frame, FindFrame(format, frame) # {}
    PROVE  \E p \in Places : FindFrame(format, frame) = {p}
<1>1. PICK p \in FindFrame(format, frame) : TRUE
  OBVIOUS
<1>2. p \in Places /\ HasIndices(p, format, frame)
  BY <1>1 DEF FindFrame, FirstOf
<1>3. FormatAt(p).index = format /\ FrameAt(p).index = frame
  BY <1>2 DEF HasIndices
<1> QED
  BY <1>2, <1>3, FrameFound

(* What the camera answers about a frame, with any interval.                *)
AnswerType == [format : Nat, frame : Nat, interval : Nat, maxFrame : Nat,
               maxPayload : Nat, clock : Nat]
Tells(a, p) ==
    /\ a.format = FormatAt(p).index /\ a.frame = FrameAt(p).index
    /\ a.maxFrame = IF camera.sized THEN FrameAt(p).bytes ELSE 0
    /\ a.maxPayload = camera.payload
NumberFields(a) == /\ a.format \in Nat /\ a.frame \in Nat /\ a.interval \in Nat
                   /\ a.maxFrame \in Nat /\ a.maxPayload \in Nat /\ a.clock \in Nat

(* So does the answer that the camera gives.                               *)
LEMMA AnswerTells ==
    ASSUME Described, NEW p \in Places
    PROVE  /\ Tells(Answer(p), p) /\ NumberFields(Answer(p))
           /\ Answer(p) \in AnswerType
<1>1. FormatAt(p) \in FormatType /\ FrameAt(p) \in FrameType
  BY PlaceHere
<1>2. FormatAt(p).index \in Nat /\ FrameAt(p).index \in Nat /\ FrameAt(p).bytes \in Nat
  BY <1>1 DEF FormatType, FrameType
<1>3. FrameAt(p).range[1] \in Nat /\ FrameAt(p).intervals \in Seq(Nat \ {0})
  BY <1>1 DEF FrameType
<1>4. FrameAt(p).intervals # <<>> => FrameAt(p).intervals[1] \in Nat
  BY <1>3
<1>5. camera.payload \in Nat /\ camera.clock \in Nat
  BY DEF Described
<1>6. Answer(p) \in AnswerType
  BY <1>2, <1>3, <1>4, <1>5 DEF Answer, AnswerType
<1> QED
  BY <1>6 DEF Answer, Tells, NumberFields, AnswerType

(* Whether or not the camera tells the size of its frames, the caller learns *)
(* it: uvc_query_stream_ctrl looks for it in the descriptors.               *)
LEMMA SizeLearned ==
    ASSUME Described, NEW p \in Places, NEW a, Tells(a, p), NEW c,
           "maxFrame" \in DOMAIN c
    PROVE  Decoded(c, a).maxFrame = FrameAt(p).bytes
<1>1. PICK q \in Places : /\ FindFrame(FormatAt(p).index, FrameAt(p).index) = {q}
                          /\ SameIndices(info, p, q) /\ (q = p \/ Before(q, p))
  BY FrameFound
<1>2. Decoded(c, a).maxFrame = IF a.maxFrame # 0 \/ FindFrame(a.format, a.frame) = {}
                                 THEN a.maxFrame
                               ELSE FrameAt(CHOOSE r \in FindFrame(a.format, a.frame) : TRUE).bytes
  BY DEF Decoded
<1>3. FindFrame(a.format, a.frame) = {q}
  BY <1>1 DEF Tells
<1>4. (CHOOSE r \in {q} : TRUE) = q
  OBVIOUS
<1>5. Decoded(c, a).maxFrame = IF a.maxFrame # 0 THEN a.maxFrame ELSE FrameAt(q).bytes
  BY <1>2, <1>3, <1>4
<1>6. q = p \/ (camera.sized /\ FrameAt(p).bytes # 0) \/ FrameAt(q).bytes = FrameAt(p).bytes
  BY <1>1 DEF Described, SizesFound, FrameAt, Places
<1> QED
  BY <1>5, <1>6 DEF Tells

-----------------------------------------------------------------------------
(* The state that the calls keep.                                           *)
CtrlType == [iface : Numbers, format : Nat, frame : Nat, interval : Nat, maxFrame : Nat,
             maxPayload : Nat, clock : Nat, still : BOOLEAN]

\* a size of 0 is left where no answer came, and then that of a payload is 0
Isochronous == \E s \in DOMAIN info.streams : IsIsochronous(info.streams[s].number)
SizeKnown(c) == Isochronous /\ c.maxFrame = 0 => c.maxPayload = 0

\* what the camera has taken is one of its frames, or nothing
Heard(a) == a = ZeroCtrl \/ \E p \in Places : Tells(a, p) /\ NumberFields(a)

ModeAsAsked(c, ask) ==
    /\ c.maxPayload = camera.payload
    /\ \E p \in FindFrameStream(c.iface, c.format, c.frame) :
          /\ MatchesGuid(ask.format, FormatAt(p).guid)
          /\ FrameAt(p).size = ask.size
          /\ ask.fps # 0 => Ticks \div c.interval = ask.fps
          /\ c.maxFrame = FrameAt(p).bytes

IsStream(s) == s \in [alt : {s.alt}, perPacket : {s.perPacket}, packets : {s.packets},
                      guid : {s.guid}, ctrl : {s.ctrl}, still : {s.still},
                      triggered : {s.triggered}]
Carries(s, n) ==
    /\ s.perPacket >= s.ctrl.maxPayload /\ s.perPacket > 0
    /\ \A a \in DOMAIN Settings(n) :
          LET bytes == PacketBytes(Settings(n)[a], StreamIf(n).endpoint)
          IN  bytes >= s.ctrl.maxPayload => bytes >= s.perPacket
    /\ s.packets * s.perPacket >= s.ctrl.maxFrame \/ s.packets = 32
StreamFits(s, n) ==
    /\ StreamIfs(n) # {}
    /\ IsStream(s) /\ s.packets \in 1 .. 32 /\ s.ctrl.iface = n
    /\ IsIsochronous(n) => Carries(s, n)

NegotiateInv ==
    /\ camera \in Cameras
    /\ claimed \subseteq Numbers /\ ctrl \in CtrlType
    /\ DOMAIN streams = Numbers /\ DOMAIN probe = Numbers
    /\ info = Closed => /\ ctrl = ZeroCtrl /\ asked = NoAsk
                        /\ streams = [n \in Numbers |-> NoStream]
    /\ info # Closed => /\ Described /\ info.ctrlIf \in claimed /\ SizeKnown(ctrl)
                        /\ \A n \in Numbers : Heard(probe[n])
    /\ asked.ret = "ok" /\ asked.clean => ModeAsAsked(ctrl, asked)
    /\ \A n \in Numbers : streams[n] # NoStream =>
          info # Closed /\ n \in claimed /\ StreamFits(streams[n], n)
    /\ VideoSizeRight /\ FaultsExplained

(* It gives what the runs check of a stream that is set up.                *)
LEMMA InvImplies == NegotiateInv => NegotiatedAsAsked /\ StreamsSound
<1> SUFFICES ASSUME NegotiateInv PROVE NegotiatedAsAsked /\ StreamsSound
  OBVIOUS
<1>1. NegotiatedAsAsked
  BY DEF NegotiateInv, ModeAsAsked, NegotiatedAsAsked
<1>2. \A n \in Streaming : /\ n \in Numbers /\ info # Closed /\ n \in claimed
                          /\ StreamFits(streams[n], n)
  BY DEF NegotiateInv, Streaming
<1>3. NegotiateTypes
  BY <1>2 DEF NegotiateInv, NegotiateTypes, CtrlType, Streaming, StreamFits
<1>4. StreamCarriesPayload
  BY <1>2 DEF StreamFits, Carries, StreamCarriesPayload
<1>5. StreamsClaimed
  BY <1>2 DEF NegotiateInv, StreamsClaimed
<1>6. VideoSizeRight /\ FaultsExplained
  BY DEF NegotiateInv
<1> QED
  BY <1>1, <1>3, <1>4, <1>5, <1>6 DEF StreamsSound

(* An answer leaves the caller's structure well formed, with the values that *)
(* came and, where the camera has alternate settings, with a size.          *)
LEMMA DecodedRight ==
    ASSUME Described, NEW c \in CtrlType, NEW a, Heard(a)
    PROVE  LET d == Decoded(c, a)
           IN  /\ d \in CtrlType /\ SizeKnown(d)
               /\ d.iface = c.iface /\ d.still = c.still
               /\ d.format = a.format /\ d.frame = a.frame /\ d.interval = a.interval
               /\ d.maxPayload = a.maxPayload
<1> DEFINE size == IF a.maxFrame # 0 \/ FindFrame(a.format, a.frame) = {} THEN a.maxFrame
                   ELSE FrameAt(CHOOSE p \in FindFrame(a.format, a.frame) : TRUE).bytes
           clock == IF info.bcd >= 272 THEN a.clock ELSE info.clock
           d == [c EXCEPT !.format = a.format, !.frame = a.frame, !.interval = a.interval,
                          !.maxPayload = a.maxPayload, !.clock = clock, !.maxFrame = size]
<1>1. Decoded(c, a) = d
  BY Zenon DEF Decoded
<1>2. NumberFields(a)
  BY DEF Heard, NumberFields, ZeroCtrl
<1>3. clock \in Nat
  BY <1>2 DEF Described, Typed, NumberFields
<1>4. size \in Nat
  <2>1. CASE a.maxFrame # 0 \/ FindFrame(a.format, a.frame) = {}
    BY <1>2, <2>1 DEF NumberFields
  <2>2. CASE ~(a.maxFrame # 0 \/ FindFrame(a.format, a.frame) = {})
    <3>1. PICK p \in Places : FindFrame(a.format, a.frame) = {p}
      BY <2>2, FrameOrNone
    <3>2. (CHOOSE r \in {p} : TRUE) = p
      OBVIOUS
    <3>3. size = FrameAt(p).bytes
      BY <2>2, <3>1, <3>2
    <3>4. FrameAt(p) \in FrameType
      BY PlaceHere
    <3> QED
      BY <3>3, <3>4 DEF FrameType
  <2> QED
    BY <2>1, <2>2
<1> HIDE DEF size, clock
<1>5. /\ d \in CtrlType
      /\ d.iface = c.iface /\ d.still = c.still
      /\ d.format = a.format /\ d.frame = a.frame /\ d.interval = a.interval
      /\ d.maxPayload = a.maxPayload /\ d.maxFrame = size
  BY <1>2, <1>3, <1>4 DEF CtrlType, NumberFields
<1>6. SizeKnown(d)
  <2>1. CASE a = ZeroCtrl
    BY <1>5, <2>1 DEF SizeKnown, ZeroCtrl
  <2>2. CASE \E p \in Places : Tells(a, p) /\ NumberFields(a)
    <3>1. PICK p \in Places : Tells(a, p)
      BY <2>2
    <3>2. "maxFrame" \in DOMAIN c
      BY DEF CtrlType
    <3>3. d.maxFrame = FrameAt(p).bytes
      BY <1>1, <3>1, <3>2, SizeLearned
    <3>4. ASSUME Isochronous PROVE FrameAt(p).bytes # 0
      <4>1. PICK s \in DOMAIN info.streams : IsIsochronous(info.streams[s].number)
        BY <3>4 DEF Isochronous
      <4>2. Alternates(info)
        BY DEF Described
      <4>3. Len(SettingsIn(info, info.streams[s].number)) > 1
        BY <4>1 DEF IsIsochronous, Settings
      <4> QED
        BY <4>2, <4>3 DEF Alternates, Places, FrameAt
    <3> HIDE DEF d
    <3> QED
      BY <3>3, <3>4 DEF SizeKnown
  <2> QED
    BY <2>1, <2>2 DEF Heard
<1> HIDE DEF d
<1> QED
  BY <1>1, <1>5, <1>6

(* What the camera has taken stays one of its frames, and the frame that was *)
(* asked for when its indices were sent.                                    *)
LEMMA TakenHeard ==
    ASSUME Described, DOMAIN probe = Numbers, \A n \in Numbers : Heard(probe[n]),
           NEW c \in CtrlType
    PROVE  /\ DOMAIN Taken(c) = Numbers /\ \A n \in Numbers : Heard(Taken(c)[n])
           /\ \A p \in Places : c.iface = NumberAt(p) /\ c.format = FormatAt(p).index
                                /\ c.frame = FrameAt(p).index =>
                /\ Tells(Taken(c)[c.iface], p)
                /\ Taken(c)[c.iface].interval = c.interval
<1> DEFINE at == FindFrameStream(c.iface, c.format, c.frame)
<1>1. CASE at = {}
  <2>1. Taken(c) = probe
    BY <1>1 DEF Taken
  <2>2. ASSUME NEW p \in Places, c.iface = NumberAt(p), c.format = FormatAt(p).index,
               c.frame = FrameAt(p).index
        PROVE  FALSE
    BY <1>1, <2>2, SamePlace
  <2> QED
    BY <2>1, <2>2
<1>2. CASE at # {}
  <2>1. PICK p \in Places : /\ at = {p} /\ NumberAt(p) = c.iface
                            /\ FormatAt(p).index = c.format /\ FrameAt(p).index = c.frame
    BY <1>2, StreamFrame
  <2> DEFINE a == [Answer(p) EXCEPT !.interval = c.interval]
  <2>2. (CHOOSE q \in {p} : TRUE) = p
    OBVIOUS
  <2>3. Taken(c) = [probe EXCEPT ![c.iface] = a]
    BY <2>1, <2>2, Zenon DEF Taken
  <2>4. c.iface \in Numbers /\ c.interval \in Nat
    BY DEF CtrlType
  <2>5. Answer(p) \in AnswerType /\ Tells(Answer(p), p) /\ NumberFields(Answer(p))
    BY AnswerTells
  <2>6. Tells(a, p) /\ NumberFields(a) /\ a.interval = c.interval
    BY <2>4, <2>5 DEF Tells, NumberFields, AnswerType
  <2>7. Heard(a)
    BY <2>6 DEF Heard
  <2> HIDE DEF a
  <2>8. DOMAIN Taken(c) = Numbers /\ \A n \in Numbers : Heard(Taken(c)[n])
    BY <2>3, <2>4, <2>7
  <2>9. Taken(c)[c.iface] = a
    BY <2>3, <2>4
  <2>10. ASSUME NEW q \in Places, c.iface = NumberAt(q), c.format = FormatAt(q).index,
                c.frame = FrameAt(q).index
         PROVE  q = p
    <3>1. FindFrameStream(c.iface, c.format, c.frame) = {q}
      BY <2>10, SamePlace
    <3> QED
      BY <2>1, <3>1
  <2> QED
    BY <2>6, <2>8, <2>9, <2>10
<1> QED
  BY <1>1, <1>2

(* uvc_probe_stream_ctrl, whatever fails of it.                             *)
LEMMA ProbedRight ==
    ASSUME Described, DOMAIN probe = Numbers, \A n \in Numbers : Heard(probe[n]),
           NEW c \in CtrlType, SizeKnown(c), NEW r \in Probed(c)
    PROVE  /\ r.ctrl \in CtrlType /\ SizeKnown(r.ctrl)
           /\ DOMAIN r.probe = Numbers /\ \A n \in Numbers : Heard(r.probe[n])
           /\ r.clean => r.ctrl = Decoded(c, Taken(c)[c.iface])
<1>1. c.iface \in Numbers
  BY DEF CtrlType
<1>2. /\ DOMAIN Taken(c) = Numbers /\ \A n \in Numbers : Heard(Taken(c)[n])
  BY TakenHeard
<1>3. CASE \E get \in BOOLEAN :
             r = [ctrl |-> IF get THEN Decoded(c, Taken(c)[c.iface]) ELSE c,
                  probe |-> Taken(c), clean |-> get]
  <2>1. PICK get \in BOOLEAN :
             r = [ctrl |-> IF get THEN Decoded(c, Taken(c)[c.iface]) ELSE c,
                  probe |-> Taken(c), clean |-> get]
    BY <1>3
  <2> DEFINE d == Decoded(c, Taken(c)[c.iface])
  <2>2. d \in CtrlType /\ SizeKnown(d)
    BY <1>1, <1>2, DecodedRight
  <2> HIDE DEF d
  <2>3. /\ r.ctrl = IF get THEN d ELSE c
        /\ r.probe = Taken(c) /\ r.clean = get
    BY <2>1 DEF d
  <2> QED
    BY <1>2, <2>2, <2>3 DEF d
<1>4. CASE \E get \in BOOLEAN :
             r = [ctrl |-> IF get THEN Decoded(c, probe[c.iface]) ELSE c,
                  probe |-> probe, clean |-> FALSE]
  <2>1. PICK get \in BOOLEAN :
             r = [ctrl |-> IF get THEN Decoded(c, probe[c.iface]) ELSE c,
                  probe |-> probe, clean |-> FALSE]
    BY <1>4
  <2> DEFINE d == Decoded(c, probe[c.iface])
  <2>2. d \in CtrlType /\ SizeKnown(d)
    BY <1>1, DecodedRight
  <2> HIDE DEF d
  <2>3. /\ r.ctrl = IF get THEN d ELSE c
        /\ r.probe = probe /\ r.clean = FALSE
    BY <2>1 DEF d
  <2> QED
    BY <2>2, <2>3
<1> QED
  BY <1>3, <1>4 DEF Probed

(* A step on an open handle keeps the invariant when what it changes does.  *)
LEMMA OpenStep ==
    ASSUME NegotiateInv, info # Closed, UNCHANGED <<camera, info>>,
           claimed' \subseteq Numbers, info.ctrlIf \in claimed',
           ctrl' \in CtrlType, SizeKnown(ctrl'),
           DOMAIN streams' = Numbers, DOMAIN probe' = Numbers,
           \A n \in Numbers : Heard(probe'[n]),
           asked'.ret = "ok" /\ asked'.clean => ModeAsAsked(ctrl', asked'),
           \A n \in Numbers : streams'[n] # NoStream =>
              n \in claimed' /\ StreamFits(streams'[n], n),
           VideoSizeRight', FaultsExplained'
    PROVE  NegotiateInv'
<1>1. Numbers' = Numbers
  BY DEF Numbers
<1>2. Described' = Described
  BY <1>1 DEF Described
<1>3. CtrlType' = CtrlType
  BY <1>1 DEF CtrlType
<1>4. Places' = Places
  BY DEF Places
<1>5. SizeKnown(ctrl)'
  BY DEF SizeKnown, Isochronous, IsIsochronous, Settings
<1>6. \A n \in Numbers : Heard(probe[n])'
  <2> TAKE n \in Numbers
  <2>1. Heard(probe'[n])
    OBVIOUS
  <2> QED
    BY <1>4, <2>1 DEF Heard, Tells, FormatAt, FrameAt
<1>7. (asked.ret = "ok" /\ asked.clean => ModeAsAsked(ctrl, asked))'
  BY <1>4 DEF ModeAsAsked, FindFrameStream, HasIndices, FormatAt, FrameAt, NumberAt
<1>8. \A n \in Numbers : StreamFits(streams'[n], n) => StreamFits(streams[n], n)'
  <2> SUFFICES ASSUME NEW n \in Numbers, StreamFits(streams'[n], n)
               PROVE  StreamFits(streams[n], n)'
    OBVIOUS
  <2>1. StreamIfs(n)' = StreamIfs(n)
    BY DEF StreamIfs
  <2>2. StreamIf(n)' = StreamIf(n)
    BY <2>1 DEF StreamIf
  <2>3. Settings(n)' = Settings(n) /\ IsIsochronous(n)' = IsIsochronous(n)
    BY DEF Settings, IsIsochronous
  <2>4. IsStream(streams[n])'
    BY DEF StreamFits, IsStream
  <2>5. IsIsochronous(n) => Carries(streams[n], n)'
    <3> SUFFICES ASSUME IsIsochronous(n) PROVE Carries(streams[n], n)'
      OBVIOUS
    <3>1. Carries(streams'[n], n)
      BY DEF StreamFits
    <3> QED
      BY <2>2, <2>3, <3>1 DEF Carries
  <2> QED
    BY <2>1, <2>3, <2>4, <2>5 DEF StreamFits
<1> QED
  BY <1>1, <1>2, <1>3, <1>5, <1>6, <1>7, <1>8 DEF NegotiateInv

(* A step that leaves the handle closed keeps it.                          *)
LEMMA ClosedStep ==
    ASSUME NegotiateInv, camera' = camera, info' = Closed, claimed' \subseteq Numbers,
           ctrl' = ZeroCtrl, asked' = NoAsk, streams' = [n \in Numbers |-> NoStream],
           DOMAIN probe' = Numbers, VideoSizeRight', FaultsExplained'
    PROVE  NegotiateInv'
<1>1. Numbers' = Numbers
  BY DEF Numbers
<1>2. 0 \in Numbers
  BY CamerasAssumption DEF NegotiateInv, Numbers
<1>3. ZeroCtrl \in CtrlType'
  BY <1>1, <1>2 DEF CtrlType, ZeroCtrl
<1>4. asked'.ret # "ok"
  BY DEF NoAsk
<1>5. \A n \in Numbers : streams'[n] = NoStream
  OBVIOUS
<1> QED
  BY <1>1, <1>3, <1>4, <1>5 DEF NegotiateInv

(* Most calls neither populate a frame nor stop the program.                *)
LEMMA Quiet ==
    ASSUME Live, image' = image, fault' = fault
    PROVE  VideoSizeRight' /\ FaultsExplained'
BY DEF Live, VideoSizeRight, FaultsExplained

(* A control interface is not one that streams.                             *)
LEMMA ControlApart ==
    ASSUME Described, NEW number, StreamIfs(number) # {}
    PROVE  number # info.ctrlIf
BY DEF Described, Distinct, StreamIfs

(* Each call keeps it.  uvc_open: the handle starts with what the parser took.*)
LEMMA OpenKeeps == NegotiateInv /\ OpenCamera => NegotiateInv'
<1> SUFFICES ASSUME NegotiateInv, OpenCamera PROVE NegotiateInv'
  OBVIOUS
<1>1. /\ Live /\ info = Closed /\ camera' = camera /\ ctrl' = ctrl /\ streams' = streams
      /\ asked' = asked /\ image' = image /\ fault' = fault
      /\ probe' = [n \in Numbers |-> ZeroCtrl]
  BY DEF OpenCamera
<1>2. ctrl = ZeroCtrl /\ asked = NoAsk /\ streams = [n \in Numbers |-> NoStream]
  BY <1>1 DEF NegotiateInv
<1>3. VideoSizeRight' /\ FaultsExplained'
  BY <1>1, Quiet
<1>4. CASE UNCHANGED <<info, claimed>>
  BY <1>1, <1>2, <1>3, <1>4, ClosedStep DEF NegotiateInv
<1>5. ASSUME NEW second \in {-1, TotalLength(camera.raw)},
             NEW got \in {DeviceInfo(Configs, camera.tis, ConfigLength, second)},
             got.ret = "ok", info' = got, claimed' = {got.ctrlIf}
      PROVE  NegotiateInv'
  <2>1. second # -1
    <3> SUFFICES ASSUME second = -1 PROVE FALSE
      OBVIOUS
    <3>1. Len(Configs) = 1
      BY DEF Configs
    <3>2. ConfigDescriptor(Configs, 0, ConfigLength, second).ret = "io"
      BY <3>1 DEF ConfigDescriptor, ConfigLength
    <3>3. got = [NoInfo EXCEPT !.ret = "io"]
      BY <1>5, <3>2 DEF DeviceInfo, InfoOf
    <3>4. got.ret = "io"
      BY <3>3 DEF NoInfo
    <3> QED
      BY <1>5, <3>4
  <2>2. got = InfoFor(camera)
    BY <1>5, <2>1 DEF InfoFor, Configs
  <2>3. /\ camera.payload \in Nat /\ camera.clock \in Nat /\ camera.sized \in BOOLEAN
        /\ Typed(got, Numbers) /\ Distinct(got)
        /\ SizesFound(got, camera.sized) /\ Alternates(got)
    BY <1>5, <2>2, CamerasAssumption DEF NegotiateInv, Numbers
  <2>4. Numbers' = Numbers
    BY <1>1 DEF Numbers
  <2>5. Described'
    BY <1>1, <1>5, <2>3, <2>4 DEF Described
  <2>6. CtrlType' = CtrlType
    BY <2>4 DEF CtrlType
  <2>7. SizeKnown(ctrl)'
    BY <1>1, <1>2 DEF SizeKnown, ZeroCtrl
  <2>8. \A n \in Numbers : Heard(probe[n])'
    BY <1>1 DEF Heard
  <2>9. got.ctrlIf \in Numbers
    BY <2>3 DEF Typed
  <2>10. \A n \in Numbers : streams'[n] = NoStream
    BY <1>1, <1>2
  <2>11. asked'.ret # "ok"
    BY <1>1, <1>2 DEF NoAsk
  <2>12. info' # Closed
    BY <1>5 DEF Closed
  <2> QED
    BY <1>1, <1>3, <1>5, <2>4, <2>5, <2>6, <2>7, <2>8, <2>9, <2>10, <2>11, <2>12
       DEF NegotiateInv
<1> QED
  BY <1>4, <1>5 DEF OpenCamera

(* uvc_close.                                                              *)
LEMMA CloseKeeps == NegotiateInv /\ Close => NegotiateInv'
<1> SUFFICES ASSUME NegotiateInv, Close PROVE NegotiateInv'
  OBVIOUS
<1>1. VideoSizeRight' /\ FaultsExplained'
  BY Quiet DEF Close, IsOpen
<1> QED
  BY <1>1, ClosedStep DEF Close, NegotiateInv

(* Calls of libusb that read a descriptor.                                 *)
LEMMA ReadKeeps == NegotiateInv /\ ReadDescriptor => NegotiateInv'
<1> SUFFICES ASSUME NegotiateInv, ReadDescriptor PROVE NegotiateInv'
  OBVIOUS
<1>1. /\ Live /\ info = Closed
      /\ UNCHANGED <<camera, info, claimed, ctrl, still, streams, probe, asked, calls,
                     image, fault>>
  BY DEF ReadDescriptor
<1>2. VideoSizeRight' /\ FaultsExplained'
  BY <1>1, Quiet
<1> QED
  BY <1>1, <1>2, ClosedStep DEF NegotiateInv

(* Noting that a still image is wanted leaves the mode.                     *)
LEMMA PointerSet ==
    ASSUME NegotiateInv, info # Closed, ctrl' = [ctrl EXCEPT !.still = TRUE]
    PROVE  /\ ctrl' \in CtrlType /\ SizeKnown(ctrl')
           /\ asked.ret = "ok" /\ asked.clean => ModeAsAsked(ctrl', asked)
<1>1. ctrl \in CtrlType /\ SizeKnown(ctrl)
      /\ (asked.ret = "ok" /\ asked.clean => ModeAsAsked(ctrl, asked))
  BY DEF NegotiateInv
<1>2. /\ ctrl' \in CtrlType /\ ctrl'.iface = ctrl.iface /\ ctrl'.format = ctrl.format
      /\ ctrl'.frame = ctrl.frame /\ ctrl'.interval = ctrl.interval
      /\ ctrl'.maxFrame = ctrl.maxFrame /\ ctrl'.maxPayload = ctrl.maxPayload
  BY <1>1 DEF CtrlType
<1> QED
  BY <1>1, <1>2 DEF SizeKnown, ModeAsAsked

(* The caller sets pStillCtrl.                                             *)
LEMMA PointerKeeps == NegotiateInv /\ SetStillPointer => NegotiateInv'
<1> SUFFICES ASSUME NegotiateInv, SetStillPointer PROVE NegotiateInv'
  OBVIOUS
<1>1. /\ Live /\ info # Closed /\ ctrl' = [ctrl EXCEPT !.still = TRUE]
      /\ UNCHANGED <<camera, info, claimed, streams, probe, asked, image, fault>>
  BY DEF SetStillPointer, IsOpen
<1>2. VideoSizeRight' /\ FaultsExplained'
  BY <1>1, Quiet
<1>3. /\ ctrl' \in CtrlType /\ SizeKnown(ctrl')
      /\ asked.ret = "ok" /\ asked.clean => ModeAsAsked(ctrl', asked)
  BY <1>1, PointerSet
<1> QED
  BY <1>1, <1>2, <1>3, OpenStep DEF NegotiateInv

(* uvc_get_still_ctrl_format_size.                                         *)
LEMMA StillKeeps ==
    ASSUME NegotiateInv, NEW size, GetStillCtrl(size)
    PROVE  NegotiateInv'
<1>1. /\ Live /\ info # Closed /\ ctrl' = [ctrl EXCEPT !.still = TRUE]
      /\ UNCHANGED <<camera, info, claimed, streams, probe, asked, image, fault>>
  BY Zenon DEF GetStillCtrl, IsOpen
<1>2. VideoSizeRight' /\ FaultsExplained'
  BY <1>1, Quiet
<1>3. /\ ctrl' \in CtrlType /\ SizeKnown(ctrl')
      /\ asked.ret = "ok" /\ asked.clean => ModeAsAsked(ctrl', asked)
  BY <1>1, PointerSet
<1> QED
  BY <1>1, <1>2, <1>3, OpenStep DEF NegotiateInv

(* uvc_trigger_still.                                                      *)
LEMMA TriggerKeeps == NegotiateInv /\ TriggerStill => NegotiateInv'
<1> SUFFICES ASSUME NegotiateInv, TriggerStill PROVE NegotiateInv'
  OBVIOUS
<1> DEFINE x == still.iface
<1>1. /\ Live /\ info # Closed /\ x \in Streaming
      /\ streams' = [streams EXCEPT ![x].triggered = TRUE]
      /\ UNCHANGED <<camera, info, claimed, ctrl, probe, asked, image, fault>>
  BY DEF TriggerStill, IsOpen
<1>2. VideoSizeRight' /\ FaultsExplained'
  BY <1>1, Quiet
<1>3. x \in Numbers /\ x \in claimed /\ StreamFits(streams[x], x)
  BY <1>1 DEF NegotiateInv, Streaming
<1> DEFINE s == streams[x]
           u == [s EXCEPT !.triggered = TRUE]
<1>4. streams' = [streams EXCEPT ![x] = u]
  BY <1>1
<1>6. IsStream(u) /\ u.packets = s.packets /\ u.ctrl = s.ctrl /\ u.perPacket = s.perPacket
  <2>1. IsStream(s)
    BY <1>3 DEF StreamFits
  <2> HIDE DEF s
  <2> QED
    BY <2>1 DEF IsStream
<1> HIDE DEF s, u
<1>7. StreamFits(u, x)
  BY <1>3, <1>6 DEF StreamFits, Carries, s
<1> HIDE DEF x
<1>8. \A n \in Numbers : streams'[n] # NoStream =>
         n \in claimed' /\ StreamFits(streams'[n], n)
  BY <1>1, <1>3, <1>4, <1>7 DEF NegotiateInv
<1> QED
  BY <1>1, <1>2, <1>4, <1>8, OpenStep DEF NegotiateInv

(* uvc_stream_close.                                                       *)
LEMMA CloseStreamKeeps ==
    ASSUME NegotiateInv, NEW number \in Numbers, CloseStream(number)
    PROVE  NegotiateInv'
<1>1. /\ Live /\ info # Closed /\ number \in Streaming
      /\ streams' = [streams EXCEPT ![number] = NoStream]
      /\ claimed' \in {claimed, claimed \ {number}}
      /\ UNCHANGED <<camera, info, ctrl, probe, asked, image, fault>>
  BY DEF CloseStream, IsOpen
<1>2. VideoSizeRight' /\ FaultsExplained'
  BY <1>1, Quiet
<1>3. StreamIfs(number) # {} /\ Described
  BY <1>1 DEF NegotiateInv, Streaming, StreamFits
<1>4. info.ctrlIf \in claimed' /\ claimed' \subseteq Numbers
  BY <1>1, <1>3, ControlApart DEF NegotiateInv
<1>5. \A n \in Numbers : streams'[n] # NoStream =>
         n \in claimed' /\ StreamFits(streams'[n], n)
  BY <1>1 DEF NegotiateInv
<1> QED
  BY <1>1, <1>2, <1>4, <1>5, OpenStep DEF NegotiateInv

(* _uvc_populate_frame: frames get the size of the first interface.        *)
LEMMA PopulateKeeps ==
    ASSUME NegotiateInv, NEW number \in Numbers, NEW isStill \in BOOLEAN,
           PopulateFrame(number, isStill)
    PROVE  NegotiateInv'
<1> DEFINE s == streams[number]
           at == StillSizes(number, s.still.frame)
           size == IF ~isStill THEN VideoSize(s.ctrl)
                   ELSE IF at = {} THEN <<0, 0>>
                   ELSE PatternAt(number, CHOOSE p \in at : TRUE)
<1>1. /\ Live /\ info # Closed /\ number \in Streaming
      /\ image' = [iface |-> number, still |-> isStill, size |-> size]
      /\ UNCHANGED <<camera, info, claimed, ctrl, streams, probe, asked, fault>>
  BY Zenon DEF PopulateFrame, IsOpen
<1> HIDE DEF size, at
<1>2. FaultsExplained'
  BY <1>1 DEF Live, FaultsExplained
<1>3. VideoSizeRight'
  <2> SUFFICES ASSUME ~isStill,
                      NumberAt(CHOOSE p \in FindFrame(s.ctrl.format, s.ctrl.frame) : TRUE)
                        = number,
                      NEW p \in FindFrameStream(number, s.ctrl.format, s.ctrl.frame)
               PROVE  size = FrameAt(p).size
    <3>1. image'.iface = number /\ image'.still = isStill /\ image'.size = size
      BY <1>1
    <3>2. s' = s /\ Places' = Places
      BY <1>1 DEF Places
    <3> HIDE DEF s
    <3> QED
      BY <1>1, <3>1, <3>2
         DEF VideoSizeRight, s, FindFrame, FindFrameStream, HasIndices, NumberAt, FormatAt,
             FrameAt
  <2>1. Described
    BY <1>1 DEF NegotiateInv
  <2>2. /\ p \in Places /\ NumberAt(p) = number
        /\ FormatAt(p).index = s.ctrl.format /\ FrameAt(p).index = s.ctrl.frame
    BY DEF FindFrameStream, FirstOf, HasIndices
  <2>3. PICK q \in Places : /\ FindFrame(FormatAt(p).index, FrameAt(p).index) = {q}
                            /\ SameIndices(info, p, q)
    BY <2>1, <2>2, FrameFound
  <2>4. (CHOOSE r \in {q} : TRUE) = q
    OBVIOUS
  <2>5. NumberAt(q) = number
    BY <2>2, <2>3, <2>4
  <2>6. p = q
    BY <2>1, <2>2, <2>3, <2>5 DEF Described, Distinct, Places, NumberAt
  <2>7. size = VideoSize(s.ctrl)
    BY DEF size
  <2> QED
    BY <2>2, <2>3, <2>4, <2>6, <2>7 DEF VideoSize
<1> HIDE DEF s
<1> QED
  BY <1>1, <1>2, <1>3, OpenStep DEF NegotiateInv

-----------------------------------------------------------------------------
(* Negotiating.                                                             *)

(* The greatest values are those of a frame of the interface.               *)
LEMMA MaxHeard ==
    ASSUME Described, NEW p \in Places
    PROVE  Heard(MaxAnswer(NumberAt(p)))
<1> DEFINE of == {q \in Places : NumberAt(q) = NumberAt(p)}
           most == CHOOSE q \in LastOf(of) : TRUE
<1>1. p \in of /\ of \in SUBSET PlacesIn(info) /\ of \in SUBSET Places
  BY DEF Places
<1>2. Typed(info, Numbers)
  BY DEF Described
<1>3. MaxAnswer(NumberAt(p)) = Answer(most)
  BY DEF MaxAnswer
<1> HIDE DEF of
<1>4. LastOf(of) # {}
  BY <1>1, <1>2, LastExists DEF LastOf
<1>5. most \in LastOf(of)
  BY <1>4
<1> HIDE DEF most
<1>6. most \in Places
  BY <1>1, <1>5 DEF LastOf
<1>7. Tells(Answer(most), most) /\ NumberFields(Answer(most))
  BY <1>6, AnswerTells
<1> QED
  BY <1>3, <1>6, <1>7 DEF Heard

(* The frames that were looked at end with the first that has the rate.     *)
LEMMA SearchEnds ==
    ASSUME Described, NEW format, NEW size, NEW fps,
           NEW p \in LastOf(Seen(format, size, fps))
    PROVE  /\ p \in Places /\ MatchesGuid(format, FormatAt(p).guid) /\ FrameAt(p).size = size
           /\ Seen(format, size, fps) \subseteq Places
           /\ Ends(format, size, fps) # {} => p \in Ends(format, size, fps)
<1> DEFINE matching == Matching(format, size)
           ends == Ends(format, size, fps)
           seen == Seen(format, size, fps)
<1>1. matching \subseteq Places /\ ends \subseteq matching
  BY DEF Matching, Ends
<1>2. seen = {q \in matching : \A e \in ends : e = q \/ Before(q, e)}
  BY DEF Seen
<1>3. p \in seen /\ \A q \in seen : q = p \/ Before(q, p)
  BY DEF LastOf
<1>4. MatchesGuid(format, FormatAt(p).guid) /\ FrameAt(p).size = size
  BY <1>2, <1>3 DEF Matching
<1> HIDE DEF matching, ends, seen
<1>5. \A q \in Places : q \in Nat \X Nat \X Nat
  BY PlaceHere
<1>6. ASSUME ends # {} PROVE p \in ends
  <2>1. PICK e \in ends : \A q \in ends : q = e \/ Before(e, q)
    BY <1>1, <1>5, <1>6, FirstExists
  <2>2. e \in seen
    BY <1>1, <1>2, <2>1
  <2>3. e = p \/ Before(e, p)
    BY <1>3, <2>2
  <2>4. e = p \/ Before(p, e)
    BY <1>2, <1>3, <2>1
  <2>5. e = p
    BY <1>1, <1>2, <1>3, <1>5, <2>2, <2>3, <2>4, BeforeLinear
  <2> QED
    BY <2>1, <2>5
<1> QED
  BY <1>1, <1>2, <1>3, <1>4, <1>6 DEF seen, ends

(* A probe that was answered leaves the mode that was asked for.            *)
LEMMA ModeLeft ==
    ASSUME Described, DOMAIN probe = Numbers, \A n \in Numbers : Heard(probe[n]),
           NEW p \in Places, NEW fps, NEW c \in CtrlType, NEW ask,
           c.iface = NumberAt(p), c.format = FormatAt(p).index,
           c.frame = FrameAt(p).index, fps # 0 => Ticks \div c.interval = fps,
           MatchesGuid(ask.format, FormatAt(p).guid), FrameAt(p).size = ask.size,
           ask.fps = fps
    PROVE  ModeAsAsked(Decoded(c, Taken(c)[c.iface]), ask)
<1> DEFINE a == Taken(c)[c.iface]
           d == Decoded(c, a)
<1>1. Tells(a, p) /\ a.interval = c.interval
  BY TakenHeard
<1>2. Heard(a)
  <2>1. c.iface \in Numbers
    BY DEF CtrlType
  <2> QED
    BY <2>1, TakenHeard
<1> HIDE DEF a
<1>3. /\ d.iface = c.iface /\ d.format = a.format /\ d.frame = a.frame
      /\ d.interval = a.interval /\ d.maxPayload = a.maxPayload
  BY <1>2, DecodedRight
<1>4. d.maxFrame = FrameAt(p).bytes
  <2>1. "maxFrame" \in DOMAIN c
    BY DEF CtrlType
  <2> QED
    BY <1>1, <2>1, SizeLearned
<1> HIDE DEF d
<1>5. FindFrameStream(d.iface, d.format, d.frame) = {p}
  <2>1. FindFrameStream(NumberAt(p), FormatAt(p).index, FrameAt(p).index) = {p}
    BY SamePlace
  <2> QED
    BY <1>1, <1>3, <2>1 DEF Tells
<1>6. ModeAsAsked(d, ask)
  <2>1. ask.fps # 0 => Ticks \div d.interval = ask.fps
    BY <1>1, <1>3
  <2> QED
    BY <1>1, <1>3, <1>4, <1>5, <2>1 DEF ModeAsAsked, Tells
<1> QED
  BY <1>6, Zenon DEF d, a

(* The structure before its probe.                                          *)
LEMMA BegunRight ==
    ASSUME NegotiateInv, info # Closed, NEW p \in Places, NEW seen \in SUBSET Places,
           NEW heard \in {{}} \cup {{q} : q \in seen}
    PROVE  LET c == Begun(NumberAt(p), heard)
           IN  c \in CtrlType /\ SizeKnown(c) /\ c.iface = NumberAt(p)
<1> DEFINE here == [ctrl EXCEPT !.iface = NumberAt(p)]
           c == Begun(NumberAt(p), heard)
<1>1. Described /\ ctrl \in CtrlType /\ SizeKnown(ctrl)
  BY DEF NegotiateInv
<1>2. NumberAt(p) \in Numbers
  BY <1>1, PlaceHere
<1>3. here \in CtrlType /\ SizeKnown(here) /\ here.iface = NumberAt(p)
  BY <1>1, <1>2 DEF CtrlType, SizeKnown
<1>4. c = IF heard = {} THEN here
          ELSE Decoded(here, MaxAnswer(NumberAt(CHOOSE q \in heard : TRUE)))
  BY Zenon DEF Begun
<1> HIDE DEF c, here
<1>5. CASE heard = {}
  BY <1>3, <1>4, <1>5 DEF c
<1>6. CASE heard # {}
  <2>1. PICK q \in seen : heard = {q}
    BY <1>6
  <2>2. q \in Places
    OBVIOUS
  <2>3. (CHOOSE x \in {q} : TRUE) = q
    OBVIOUS
  <2>4. c = Decoded(here, MaxAnswer(NumberAt(q)))
    BY <1>4, <1>6, <2>1, <2>3
  <2>5. Heard(MaxAnswer(NumberAt(q)))
    BY <1>1, <2>2, MaxHeard
  <2> QED
    BY <1>1, <1>3, <2>4, <2>5, DecodedRight DEF c
<1> QED
  BY <1>5, <1>6

(* uvc_get_stream_ctrl_format_size, whichever transfers fail.              *)
LEMMA NegotiateKeeps ==
    ASSUME NegotiateInv, NEW format, NEW size, NEW fps, Rate(fps),
           GetStreamCtrl(format, size, fps)
    PROVE  NegotiateInv'
<1> DEFINE seen == Seen(format, size, fps)
           ends == Ends(format, size, fps)
<1>1. Live /\ info # Closed /\ UNCHANGED <<camera, info, streams, image>>
  BY DEF GetStreamCtrl, IsOpen
<1>2. /\ Described /\ info.ctrlIf \in claimed /\ SizeKnown(ctrl) /\ ctrl \in CtrlType
      /\ DOMAIN streams = Numbers
      /\ DOMAIN probe = Numbers /\ \A n \in Numbers : Heard(probe[n])
      /\ claimed \subseteq Numbers
  BY <1>1 DEF NegotiateInv
<1>3. ASSUME fault' = fault PROVE VideoSizeRight' /\ FaultsExplained'
  BY <1>1, <1>3, Quiet
<1>4. ASSUME claimed \subseteq claimed'
      PROVE  \A n \in Numbers : streams'[n] # NoStream =>
                n \in claimed' /\ StreamFits(streams'[n], n)
  BY <1>1, <1>4 DEF NegotiateInv
<1>5. CASE asked' = Invalid /\ UNCHANGED <<claimed, ctrl, probe, fault>>
  <2>1. asked'.ret # "ok"
    BY <1>5 DEF Invalid
  <2> QED
    BY <1>1, <1>2, <1>3, <1>4, <1>5, <2>1, OpenStep
<1>6. ASSUME NEW at \in LastOf(seen), NEW more \in SUBSET {NumberAt(p) : p \in seen},
             NEW heard \in {{}} \cup {{p} : p \in seen}, claimed' = claimed \cup more,
             \/ /\ ends = {}
                /\ ctrl' = Begun(NumberAt(at), heard) /\ asked' = Invalid
                /\ UNCHANGED <<probe, fault>>
             \/ /\ ends # {} /\ Divides(FrameAt(at), fps)
                /\ fault' = "division by zero" /\ UNCHANGED <<ctrl, probe, asked>>
             \/ /\ ends # {} /\ ~Divides(FrameAt(at), fps)
                /\ \E r \in Probed(Mode(Begun(NumberAt(at), heard), at, fps)) :
                      /\ ctrl' = r.ctrl /\ probe' = r.probe
                      /\ asked' = Asked(format, size, fps, r.clean)
                /\ UNCHANGED fault
      PROVE  NegotiateInv'
  <2> DEFINE c == Begun(NumberAt(at), heard)
             m == Mode(c, at, fps)
  <2>1. /\ at \in Places /\ MatchesGuid(format, FormatAt(at).guid)
        /\ FrameAt(at).size = size /\ seen \subseteq Places
        /\ ends # {} => at \in ends
    BY <1>2, SearchEnds
  <2> HIDE DEF seen
  <2>2. /\ NumberAt(at) \in Numbers /\ FormatAt(at) \in FormatType
        /\ FrameAt(at) \in FrameType
    BY <1>2, <2>1, PlaceHere
  <2>3. {NumberAt(p) : p \in seen} \subseteq Numbers
    BY <1>2, <2>1, PlaceHere
  <2>4. claimed' \subseteq Numbers /\ info.ctrlIf \in claimed' /\ claimed \subseteq claimed'
    BY <1>2, <1>6, <2>3
  <2>5. c \in CtrlType /\ SizeKnown(c) /\ c.iface = NumberAt(at)
    BY <1>1, <1>6, <2>1, BegunRight
  <2>6. CASE /\ ctrl' = c /\ asked' = Invalid /\ UNCHANGED <<probe, fault>>
    <3>1. asked'.ret # "ok"
      BY <2>6 DEF Invalid
    <3> HIDE DEF c
    <3> QED
      BY <1>1, <1>2, <1>3, <1>4, <2>4, <2>5, <2>6, <3>1, OpenStep
  <2>7. CASE fault' = "division by zero" /\ UNCHANGED <<ctrl, probe, asked>>
    <3>1. VideoSizeRight' /\ FaultsExplained'
      BY <1>1, <2>7 DEF Live, VideoSizeRight, FaultsExplained
    <3>2. asked'.ret = "ok" /\ asked'.clean => ModeAsAsked(ctrl', asked')
      BY <2>7 DEF NegotiateInv
    <3> QED
      BY <1>1, <1>2, <1>4, <2>4, <2>7, <3>1, <3>2, OpenStep
  <2>8. ASSUME ends # {}, ~Divides(FrameAt(at), fps), NEW r \in Probed(m),
               ctrl' = r.ctrl, probe' = r.probe,
               asked' = Asked(format, size, fps, r.clean), UNCHANGED fault
        PROVE  NegotiateInv'
    <3>1. Interval(FrameAt(at), fps) # 0
      BY <2>1, <2>8 DEF Ends
    <3>2. /\ Interval(FrameAt(at), fps) \in Nat
          /\ fps # 0 => Ticks \div Interval(FrameAt(at), fps) = fps
      BY <2>2, <2>8, <3>1, IntervalRight
    <3>3. FormatAt(at).index \in Nat /\ FrameAt(at).index \in Nat
      BY <2>2 DEF FormatType, FrameType
    <3> HIDE DEF c
    <3>4. /\ m \in CtrlType /\ SizeKnown(m) /\ m.iface = NumberAt(at)
          /\ m.format = FormatAt(at).index /\ m.frame = FrameAt(at).index
          /\ m.interval = Interval(FrameAt(at), fps)
      BY <2>5, <3>2, <3>3 DEF CtrlType, SizeKnown, Mode
    <3> HIDE DEF m, ends
    <3>5. /\ r.ctrl \in CtrlType /\ SizeKnown(r.ctrl)
          /\ DOMAIN r.probe = Numbers /\ \A n \in Numbers : Heard(r.probe[n])
          /\ r.clean => r.ctrl = Decoded(m, Taken(m)[m.iface])
      BY <1>2, <2>8, <3>4, ProbedRight
    <3>6. /\ asked'.format = format /\ asked'.size = size /\ asked'.fps = fps
          /\ asked'.clean = r.clean
      BY <2>8 DEF Asked
    <3>7. ASSUME r.clean PROVE ModeAsAsked(r.ctrl, asked')
      <4>1. ModeAsAsked(Decoded(m, Taken(m)[m.iface]), asked')
        BY <1>2, <2>1, <3>2, <3>4, <3>6, ModeLeft
      <4> QED
        BY <3>5, <3>7, <4>1
    <3>8. asked'.ret = "ok" /\ asked'.clean => ModeAsAsked(ctrl', asked')
      BY <2>8, <3>6, <3>7
    <3> QED
      BY <1>1, <1>2, <1>3, <1>4, <2>4, <2>8, <3>5, <3>8, OpenStep
  <2> QED
    BY <1>6, <2>6, <2>7, <2>8
<1> QED
  BY <1>5, <1>6 DEF GetStreamCtrl

-----------------------------------------------------------------------------
(* Starting.                                                                *)

(* The stream that uvc_stream_start sets up carries what was negotiated.    *)
LEMMA AlternateCarries ==
    ASSUME Described, ctrl \in CtrlType, SizeKnown(ctrl), NEW p \in Places,
           NumberAt(p) = ctrl.iface, IsIsochronous(ctrl.iface),
           NEW alt \in Chosen(ctrl, info.streams[p[1]].endpoint), NEW guid,
           NEW bytes,
           bytes = PacketBytes(Settings(ctrl.iface)[alt], info.streams[p[1]].endpoint)
    PROVE  /\ bytes \in Nat /\ bytes >= ctrl.maxPayload
           /\ bytes # 0 =>
                LET s == StreamOf(ctrl, alt, bytes, Packets(bytes, ctrl.maxFrame), guid)
                IN  s.packets \in 1 .. 32 /\ Carries(s, ctrl.iface)
<1> DEFINE n == ctrl.iface
           address == info.streams[p[1]].endpoint
           B(a) == PacketBytes(Settings(n)[a], address)
<1>1. p[1] \in DOMAIN info.streams /\ p[1] \in StreamIfs(n) /\ info.streams[p[1]].number = n
  BY PlaceHere DEF NumberAt, NumberIn
<1>2. Len(Settings(n)) > 1 /\ SettingsIn(info, info.streams[p[1]].number) = Settings(n)
  BY <1>1 DEF IsIsochronous, Settings
<1>3. /\ DOMAIN Settings(n) = 1 .. Len(Settings(n))
      /\ \A a \in DOMAIN Settings(n) : B(a) \in Nat
      /\ \A a, b \in DOMAIN Settings(n) : a <= b => B(a) <= B(b)
      /\ B(1) = 0
  BY <1>1, <1>2 DEF Described, Alternates
<1>4. StreamIf(n) = info.streams[p[1]]
  <2>1. StreamIfs(n) = {p[1]}
    BY <1>1 DEF Described, Distinct, StreamIfs
  <2>2. info.streams \in Seq(StreamType(Numbers))
    BY DEF Described, Typed
  <2>3. p[1] \in Nat
    BY <1>1, <2>2
  <2>4. (CHOOSE s \in StreamIfs(n) : \A t \in StreamIfs(n) : s <= t) = p[1]
    BY <2>1, <2>3
  <2> QED
    BY <2>4 DEF StreamIf
<1>5. /\ alt \in DOMAIN Settings(n) /\ B(alt) >= ctrl.maxPayload
      /\ \A a \in DOMAIN Settings(n) : B(a) >= ctrl.maxPayload => alt <= a
  BY DEF Chosen
<1>6. ctrl.maxPayload \in Nat /\ ctrl.maxFrame \in Nat
  BY DEF CtrlType
<1>7. bytes = B(alt) /\ bytes \in Nat /\ bytes >= ctrl.maxPayload
  BY <1>3, <1>5
<1> HIDE DEF B
<1>8. ASSUME bytes # 0 PROVE ctrl.maxFrame # 0
  <2> SUFFICES ASSUME ctrl.maxFrame = 0 PROVE FALSE
    OBVIOUS
  <2>1. Isochronous
    BY <1>1 DEF Isochronous
  <2>2. ctrl.maxPayload = 0
    BY <2>1 DEF SizeKnown
  <2>3. Len(Settings(n)) > 1 /\ alt \in 1 .. Len(Settings(n))
    BY <1>2, <1>3, <1>5
  <2>4. 1 \in DOMAIN Settings(n)
    BY <1>2, <1>3, <2>3
  <2>5. alt <= 1
    BY <1>3, <1>5, <2>2, <2>4
  <2>6. alt = 1
    BY <2>3, <2>5
  <2> QED
    BY <1>3, <1>7, <1>8, <2>6
<1>9. ASSUME bytes # 0
      PROVE  LET s == StreamOf(ctrl, alt, bytes, Packets(bytes, ctrl.maxFrame), guid)
             IN  s.packets \in 1 .. 32 /\ Carries(s, n)
  <2> DEFINE s == StreamOf(ctrl, alt, bytes, Packets(bytes, ctrl.maxFrame), guid)
  <2>1. /\ s.perPacket = bytes /\ s.ctrl = ctrl /\ s.packets = Packets(bytes, ctrl.maxFrame)
    BY DEF StreamOf
  <2>2. /\ Packets(bytes, ctrl.maxFrame) \in 1 .. 32
        /\ \/ Packets(bytes, ctrl.maxFrame) * bytes >= ctrl.maxFrame
           \/ Packets(bytes, ctrl.maxFrame) = 32
    BY <1>6, <1>7, <1>8, <1>9, PacketsEnough
  <2>3. ASSUME NEW a \in DOMAIN Settings(n),
               PacketBytes(Settings(n)[a], StreamIf(n).endpoint) >= ctrl.maxPayload
        PROVE  PacketBytes(Settings(n)[a], StreamIf(n).endpoint) >= bytes
    <3>1. B(a) = PacketBytes(Settings(n)[a], StreamIf(n).endpoint)
      BY <1>4 DEF B
    <3>2. alt <= a
      BY <1>5, <2>3, <3>1
    <3>3. B(alt) <= B(a) /\ B(a) \in Nat
      BY <1>3, <1>5, <3>2
    <3> QED
      BY <1>7, <3>1, <3>3
  <2> HIDE DEF s
  <2>4. bytes > 0
    BY <1>7, <1>9
  <2>5. Carries(s, n)
    BY <1>7, <2>1, <2>2, <2>3, <2>4 DEF Carries
  <2> QED
    BY <2>1, <2>2, <2>5 DEF s
<1> QED
  BY <1>7, <1>9

(* uvc_start_streaming.                                                    *)
LEMMA StartKeeps == NegotiateInv /\ StartStreaming => NegotiateInv'
<1> SUFFICES ASSUME NegotiateInv, StartStreaming PROVE NegotiateInv'
  OBVIOUS
<1> DEFINE n == ctrl.iface
<1>1. /\ Live /\ info # Closed
      /\ UNCHANGED <<camera, info, ctrl, probe, asked, image>>
  BY DEF StartStreaming, IsOpen
<1>2. /\ Described /\ info.ctrlIf \in claimed /\ SizeKnown(ctrl) /\ ctrl \in CtrlType
      /\ DOMAIN streams = Numbers
      /\ DOMAIN probe = Numbers /\ \A m \in Numbers : Heard(probe[m])
      /\ claimed \subseteq Numbers /\ n \in Numbers
      /\ asked.ret = "ok" /\ asked.clean => ModeAsAsked(ctrl, asked)
  BY <1>1 DEF NegotiateInv, CtrlType
<1>3. \A m \in Numbers : streams[m] # NoStream => m \in claimed /\ StreamFits(streams[m], m)
  BY DEF NegotiateInv
<1>4. ASSUME claimed' \subseteq Numbers, info.ctrlIf \in claimed', DOMAIN streams' = Numbers,
             \A m \in Numbers : streams'[m] # NoStream =>
                m \in claimed' /\ StreamFits(streams'[m], m),
             VideoSizeRight', FaultsExplained'
      PROVE  NegotiateInv'
  BY <1>1, <1>2, <1>4, OpenStep
<1>5. ASSUME fault' = fault PROVE VideoSizeRight' /\ FaultsExplained'
  BY <1>1, <1>5, Quiet
<1>6. VideoSizeRight'
  BY <1>1 DEF Live, VideoSizeRight
<1>7. CASE UNCHANGED <<streams, fault>> /\ claimed' \in Claims(n)
  BY <1>2, <1>3, <1>4, <1>5, <1>7 DEF Claims
<1>8. CASE UNCHANGED <<streams, fault, claimed>>
  BY <1>2, <1>3, <1>4, <1>5, <1>8
<1>9. CASE /\ ~ctrl.still /\ fault' = "null still control"
           /\ UNCHANGED streams /\ claimed' = claimed \cup {n}
  <2>1. FaultsExplained'
    BY <1>1, <1>9 DEF FaultsExplained
  <2> QED
    BY <1>2, <1>3, <1>4, <1>6, <1>9, <2>1
<1>10. ASSUME n \notin Streaming, StreamIfs(n) # {}, Failed PROVE NegotiateInv'
  <2>1. streams' = streams /\ fault' = fault /\ claimed' = claimed \ {n}
    BY <1>10 DEF Failed
  <2>2. n # info.ctrlIf
    BY <1>2, <1>10, ControlApart
  <2>3. streams[n] = NoStream
    BY <1>2, <1>10 DEF Streaming
  <2> HIDE DEF n
  <2> QED
    BY <1>2, <1>3, <1>4, <1>5, <2>1, <2>2, <2>3
<1>11. ASSUME NEW alt, NEW bytes, NEW packets, NEW guid,
              Started(alt, bytes, packets, guid), StreamIfs(n) # {},
              packets \in 1 .. 32,
              IsIsochronous(n) => Carries(StreamOf(ctrl, alt, bytes, packets, guid), n)
       PROVE  NegotiateInv'
  <2> DEFINE s == StreamOf(ctrl, alt, bytes, packets, guid)
  <2>1. /\ streams' = [streams EXCEPT ![n] = s]
        /\ claimed' = claimed \cup {n} /\ fault' = fault
    BY <1>11 DEF Started
  <2>2. IsStream(s) /\ s.packets = packets /\ s.ctrl = ctrl
    BY DEF StreamOf, IsStream
  <2> HIDE DEF s
  <2>3. StreamFits(s, n)
    BY <1>11, <2>2 DEF StreamFits, s
  <2> HIDE DEF n
  <2>4. \A m \in Numbers : streams'[m] # NoStream =>
           m \in claimed' /\ StreamFits(streams'[m], m)
    BY <1>2, <1>3, <2>1, <2>3
  <2> QED
    BY <1>2, <1>4, <1>5, <2>1, <2>4
<1>12. ASSUME n \notin Streaming, StreamIfs(n) # {},
              NEW p \in FindFrameStream(n, ctrl.format, ctrl.frame), StartWith(p)
       PROVE  NegotiateInv'
  <2> DEFINE guid == FormatAt(p).guid
             address == info.streams[p[1]].endpoint
  <2>1. p \in Places /\ NumberAt(p) = n
    BY DEF FindFrameStream, FirstOf
  <2>2. CASE Failed
    BY <1>10, <1>12, <2>2
  <2>3. CASE ~IsIsochronous(n) /\ Started(0, ctrl.maxPayload, 1, guid)
    BY <1>11, <1>12, <2>3
  <2>4. ASSUME IsIsochronous(n), NEW alt \in Chosen(ctrl, address), NEW bytes,
               bytes = PacketBytes(Settings(n)[alt], address),
               \/ /\ bytes = 0 /\ fault' = "packets of no bytes"
                  /\ claimed' = claimed \cup {n} /\ UNCHANGED streams
               \/ bytes # 0 /\ Failed
               \/ bytes # 0 /\ Started(alt, bytes, Packets(bytes, ctrl.maxFrame), guid)
        PROVE  NegotiateInv'
    <3>1. /\ bytes \in Nat /\ bytes >= ctrl.maxPayload
          /\ bytes # 0 =>
               LET s == StreamOf(ctrl, alt, bytes, Packets(bytes, ctrl.maxFrame), guid)
               IN  s.packets \in 1 .. 32 /\ Carries(s, n)
      BY <1>2, <2>1, <2>4, AlternateCarries
    <3>2. CASE /\ bytes = 0 /\ fault' = "packets of no bytes"
               /\ claimed' = claimed \cup {n} /\ UNCHANGED streams
      <4>a. ctrl.maxPayload \in Nat
        BY <1>2 DEF CtrlType
      <4>b. bytes \in Nat /\ bytes >= ctrl.maxPayload /\ bytes = 0
        BY <3>1, <3>2
      <4>1. ctrl.maxPayload = 0
        BY <4>a, <4>b
      <4>2. FaultsExplained'
        BY <1>1, <1>2, <3>2, <4>1 DEF FaultsExplained, ModeAsAsked
      <4> HIDE DEF n
      <4> QED
        BY <1>2, <1>3, <1>4, <1>6, <3>2, <4>2
    <3>3. CASE bytes # 0 /\ Started(alt, bytes, Packets(bytes, ctrl.maxFrame), guid)
      <4> DEFINE k == Packets(bytes, ctrl.maxFrame)
      <4>1. StreamOf(ctrl, alt, bytes, k, guid).packets = k
        BY DEF StreamOf
      <4> HIDE DEF k, n, guid
      <4>2. k \in 1 .. 32 /\ Carries(StreamOf(ctrl, alt, bytes, k, guid), n)
        BY <3>1, <3>3, <4>1 DEF k
      <4> QED
        BY <1>11, <1>12, <3>3, <4>2 DEF k
    <3> QED
      BY <2>2, <2>4, <3>2, <3>3
  <2> QED
    BY <1>12, <2>2, <2>3, <2>4 DEF StartWith
<1> QED
  BY <1>7, <1>8, <1>9, <1>10, <1>12 DEF StartStreaming

-----------------------------------------------------------------------------
(* So every reachable state has it.                                        *)
LEMMA NegotiateInvariant == NegotiateSpec => []NegotiateInv
<1>1. NegotiateInit => NegotiateInv
  <2> SUFFICES ASSUME NegotiateInit PROVE NegotiateInv
    OBVIOUS
  <2>1. 0 \in Numbers
    BY CamerasAssumption DEF NegotiateInit, Numbers
  <2>2. ZeroCtrl \in CtrlType
    BY <2>1 DEF CtrlType, ZeroCtrl
  <2>3. asked.ret # "ok"
    BY DEF NegotiateInit, NoAsk
  <2>4. \A n \in Numbers : streams[n] = NoStream
    BY DEF NegotiateInit
  <2> QED
    BY <2>2, <2>3, <2>4
       DEF NegotiateInit, NegotiateInv, VideoSizeRight, FaultsExplained
<1>2. NegotiateInv /\ [NegotiateNext]_negotiateVars => NegotiateInv'
  <2> SUFFICES ASSUME NegotiateInv, [NegotiateNext]_negotiateVars PROVE NegotiateInv'
    OBVIOUS
  <2>1. ASSUME NEW a \in Asks, GetStreamCtrl(a[1], a[2], a[3]) PROVE NegotiateInv'
    <3>1. Rate(a[3])
      BY AsksAssumption
    <3> QED
      BY <2>1, <3>1, NegotiateKeeps
  <2>2. CASE UNCHANGED negotiateVars
    <3>1. /\ UNCHANGED <<camera, info, claimed, ctrl, streams, probe, asked, image, fault>>
      BY <2>2 DEF negotiateVars
    <3>2. VideoSizeRight' /\ FaultsExplained'
      BY <3>1 DEF NegotiateInv, VideoSizeRight, FaultsExplained, FindFrame, FindFrameStream,
                  HasIndices, Places, NumberAt, FormatAt, FrameAt
    <3>3. CASE info = Closed
      BY <3>1, <3>2, <3>3, ClosedStep DEF NegotiateInv
    <3>4. CASE info # Closed
      BY <3>1, <3>2, <3>4, OpenStep DEF NegotiateInv
    <3> QED
      BY <3>3, <3>4
  <2> QED
    BY <2>1, <2>2, OpenKeeps, CloseKeeps, ReadKeeps, PointerKeeps, StartKeeps, TriggerKeeps,
       StillKeeps, CloseStreamKeeps, PopulateKeeps DEF NegotiateNext
<1> QED
  BY <1>1, <1>2, PTL DEF NegotiateSpec

(* A negotiation whose probe was answered leaves a mode that the camera    *)
(* describes, with the format, size and rate asked for, and the size of its*)
(* frames although the camera may not tell it: whatever was negotiated,    *)
(* started, stopped or refused before (uvc_get_stream_ctrl_format_size,    *)
(* uvc_probe_stream_ctrl, uvc_query_stream_ctrl).                          *)
THEOREM Negotiated == NegotiateSpec => []NegotiatedAsAsked
BY NegotiateInvariant, InvImplies, PTL

(* A stream that was started holds its interface, runs on the smallest     *)
(* packets that hold the payload, with transfers that hold a frame or 32   *)
(* packets, gives its frames the size committed, and stops the program only*)
(* without a still control or with packets of no bytes (uvc_stream_start,  *)
(* uvc_stream_open_ctrl, _uvc_populate_frame, uvc_release_if).             *)
THEOREM StreamsStartSound == NegotiateSpec => []StreamsSound
BY NegotiateInvariant, InvImplies, PTL


=============================================================================
