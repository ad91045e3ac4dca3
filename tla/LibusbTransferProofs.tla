------------------------- MODULE LibusbTransferProofs -------------------------
(***************************************************************************)
(* Proofs about LibusbTransfer for any number of transfers, any timeouts   *)
(* and any answers of the backend.                                         *)
(***************************************************************************)
EXTENDS LibusbTransfer, ListLemmas, FiniteSetTheorems, TLAPS

-----------------------------------------------------------------------------
(* The inductive invariant *)

Submitters == {"App", "Ev"}

Steps == {"idle", "s_flying", "s_lock", "s_driver", "s_flag", "s_undo", "clear", "ask",
          "unlist", "unflag", "callback", "unref", "scan", "cancel", "mark"}

(* p is in one of the steps with t                                          *)
Doing(p, t, steps) == work[p] = t /\ pc[p] \in steps

(* Which steps a thread can be in, and when it works on a transfer          *)
StepInv ==
    /\ pc["App"] \in {"idle", "s_flying", "s_lock", "s_driver", "s_flag", "s_undo"}
    /\ pc["Ev"] \in {"idle", "s_flying", "s_lock", "s_driver", "s_flag", "s_undo",
                     "clear", "ask", "unlist", "unflag", "callback", "unref"}
    /\ pc["Tm"] \in {"idle", "scan", "cancel", "mark"}
    /\ pc \in [Procs -> Steps]
    /\ \A p \in Submitters : work[p] = None <=> pc[p] = "idle"
    /\ work["Tm"] = None <=> pc["Tm"] \in {"idle", "scan"}
    /\ now \in 0..MaxTime /\ backend \in {"one", "pipe", "fails"}
    /\ status \in {"none", "ended", "cancelled", "timed_out"}
    /\ status = "none" <=> pc["Ev"] = "idle"
    /\ pc["Ev"] = "clear" => status # "timed_out"
    /\ pc["Ev"] = "ask" => status = "cancelled"

(* The two locks say who is in which section                                *)
LockInv ==
    /\ \A p \in Submitters : flying_lock = p <=> pc[p] = "s_lock"
    /\ flying_lock = "Tm" <=> pc["Tm"] # "idle"
    /\ \A p \in Submitters, t \in Transfers :
          lock[t] = p <=> Doing(p, t, {"s_driver", "s_flag"})
    /\ \A t \in Transfers : lock[t] # "Tm"

(* A transfer is submitted by one thread at a time, and only while no       *)
(* submission of it is owed a callback, and completed only while one is; the *)
(* event thread may be ahead of a submission that has not set its flag.     *)
OwedInv ==
    /\ \A p \in Submitters, t \in Transfers :
          /\ Doing(p, t, {"s_flying", "s_lock", "s_driver", "s_undo"}) => owed[t] = 0
          /\ Doing(p, t, {"s_flag"}) => owed[t] = 1
    /\ \A t \in Transfers :
          Doing("Ev", t, {"clear", "ask", "unlist", "unflag", "callback"}) => owed[t] = 1
    /\ work["App"] = work["Ev"] /\ work["App"] # None =>
          pc["App"] = "s_flag" /\ pc["Ev"] \in {"clear", "ask", "unlist", "unflag"}

(* What the lists and flags of a transfer say of the steps it is in         *)
TraceInv ==
    \A t \in Transfers :
        /\ t \in ToSet(flying) <=>
              \/ owed[t] = 1 /\ ~Doing("Ev", t, {"unflag", "callback"})
              \/ \E p \in Submitters : Doing(p, t, {"s_driver", "s_undo"})
        /\ io[t] # "none" <=>
              owed[t] = 1 /\ ~Doing("Ev", t, {"ask", "unlist", "unflag", "callback"})
        /\ overlapped[t] = 1 <=> io[t] # "none"
        /\ Doing("Ev", t, {"clear"}) =>
              io[t] = IF status = "ended" THEN "done" ELSE "aborted"
        /\ in_flight[t] = 1 <=>
              /\ owed[t] = 1 /\ ~Doing("Ev", t, {"callback"})
              /\ \A p \in Submitters : ~Doing(p, t, {"s_flag"})

InFlight == {t \in Transfers : in_flight[t] = 1}

(* One reference for each transfer in flight and one until the end of a     *)
(* callback                                                                 *)
RefInv ==
    /\ IsFiniteSet(InFlight)
    /\ refs = Cardinality(InFlight) +
              (IF pc["Ev"] \in {"idle", "clear", "ask", "unlist", "unflag"} THEN 0 ELSE 1)

Expired(t) == timeout[t] # 0 /\ timeout[t] <= now

(* t was aborted, or is reported so                                         *)
Aborted(t) ==
    \/ io[t] \in {"aborting", "aborted"}
    \/ Doing("Ev", t, {"clear", "ask"}) /\ status = "cancelled"

(* Who is responsible for an abort, and what a status stands on             *)
AbortInv ==
    /\ told \subseteq {t \in Transfers : owed[t] = 1}
    /\ \A t \in Transfers :
          /\ Aborted(t) => t \in told
          /\ timed_out[t] = 1 \/ Doing("Tm", t, {"cancel", "mark"}) => Expired(t)
          /\ Aborted(t) /\ stray = 0 =>
                t \in asked \/ timed_out[t] = 1 \/ Doing("Tm", t, {"mark"})
          /\ Doing("Ev", t, {"unlist", "unflag", "callback"}) =>
                /\ status \in {"cancelled", "timed_out"} => t \in told
                /\ status = "timed_out" => Expired(t)
                /\ status = "cancelled" /\ stray = 0 => t \in asked

IInv == TypeOK /\ StepInv /\ LockInv /\ OwedInv /\ TraceInv /\ RefInv /\ AbortInv

LEMMA IInvInit == Init => IInv
<1> SUFFICES ASSUME Init PROVE IInv
  OBVIOUS
<1>1. ToSet(flying) = {} /\ IsInjective(flying) /\ flying \in Seq(Transfers)
  BY DEF Init, ToSet, IsInjective
<1>2. AllZero \in [Transfers -> {0, 1}] /\ AllZero \in [Transfers -> 0..MaxTime]
  BY ConstantsAssumption DEF ConstantsAssumption, AllZero
<1>3. TypeOK
  BY <1>1, <1>2 DEF Init, TypeOK, Procs
<1>4. StepInv
  BY ConstantsAssumption DEF ConstantsAssumption, Init, StepInv, Procs, Submitters, Steps
<1>5. LockInv
  BY ConstantsAssumption
     DEF ConstantsAssumption, Init, LockInv, Procs, Submitters, Doing
<1>6. OwedInv /\ TraceInv
  BY <1>1 DEF Init, OwedInv, TraceInv, Procs, Submitters, Doing, AllZero
<1>7. RefInv
  <2>1. InFlight = {}
    BY DEF Init, InFlight, AllZero
  <2> QED
    BY <2>1, FS_EmptySet DEF Init, RefInv, Procs
<1>8. AbortInv
  BY DEF Init, AbortInv, Aborted, Doing, Procs, AllZero
<1> QED
  BY <1>3, <1>4, <1>5, <1>6, <1>7, <1>8 DEF IInv

-----------------------------------------------------------------------------
(* Lemmas about the operators of the model *)

(* add_to_flying_list finds a place on the list for any timeout.            *)
LEMMA FlyingInsert ==
    ASSUME flying \in Seq(Transfers), IsInjective(flying), NEW when \in Nat,
           NEW t \in Transfers, t \notin ToSet(flying)
    PROVE  /\ AddToFlying(t, when) \in Seq(Transfers)
           /\ IsInjective(AddToFlying(t, when))
           /\ ToSet(AddToFlying(t, when)) = ToSet(flying) \cup {t}
<1> DEFINE later == {i \in 1..Len(flying) :
                        timeout[flying[i]] = 0 \/ timeout[flying[i]] > when}
           first == CHOOSE j \in later : \A k \in later : j <= k
           i == IF when = 0 \/ later = {} THEN Len(flying) + 1 ELSE first
<1>1. later \in SUBSET Nat /\ later \subseteq 1..Len(flying)
  OBVIOUS
<1>2. AddToFlying(t, when) = InsertAt(flying, i, t)
  BY DEF AddToFlying
<1> HIDE DEF later
<1>3. later # {} => first \in later
  BY <1>1, MinExists
<1>4. i \in 1..(Len(flying) + 1)
  <2>1. Len(flying) \in Nat
    BY LenProperties
  <2> HIDE DEF first
  <2>2. CASE when = 0 \/ later = {}
    BY <2>1, <2>2
  <2>3. CASE ~(when = 0 \/ later = {})
    <3>1. i = first /\ first \in 1..Len(flying)
      BY <1>1, <1>3, <2>3
    <3> QED
      BY <2>1, <3>1
  <2> QED
    BY <2>2, <2>3
<1> HIDE DEF i
<1> QED
  BY <1>2, <1>4, ListInsert

(* list_del takes exactly the transfer off the list.                        *)
LEMMA FlyingRemove ==
    ASSUME flying \in Seq(Transfers), IsInjective(flying), NEW t \in ToSet(flying)
    PROVE  /\ RemoveAt(flying, Position(t)) \in Seq(Transfers)
           /\ IsInjective(RemoveAt(flying, Position(t)))
           /\ ToSet(RemoveAt(flying, Position(t))) = ToSet(flying) \ {t}
<1>1. \E i \in 1..Len(flying) : flying[i] = t
  BY LenProperties DEF ToSet
<1>2. Position(t) \in 1..Len(flying) /\ flying[Position(t)] = t
  BY <1>1 DEF Position
<1> QED
  BY <1>2, ListRemove

(* A cancellation aborts pending requests only, and if it aborts any the    *)
(* backend answers that it succeeded.                                       *)
LEMMA CancelEffect ==
    ASSUME TypeOK, StepInv, NEW t \in Transfers, Cancel(t)
    PROVE  \E hits \in SUBSET Pending :
              /\ io' = [u \in Transfers |-> IF u \in hits THEN "aborting" ELSE io[u]]
              /\ told' = told \cup hits
              /\ stray' = 0 => stray = 0 /\ hits \subseteq {t}
              /\ hits # {} => CancelSucceeds(t)
<1> DEFINE ok == in_flight[t] = 1 /\ cancelling[t] = 0
           hits == IF ok THEN Hits(t) ELSE {}
<1>1. Hits(t) \subseteq Pending
  BY DEF Hits, Pending
<1>2. Hits(t) # {} => BackendCancels(t)
  BY DEF Hits, BackendCancels, StepInv
<1>3. hits \in SUBSET Pending
  BY <1>1
<1>4. hits # {} => CancelSucceeds(t)
  BY <1>2 DEF CancelSucceeds
<1>5. /\ io' = [u \in Transfers |-> IF u \in hits THEN "aborting" ELSE io[u]]
      /\ told' = told \cup hits
      /\ stray' = 0 => stray = 0 /\ hits \subseteq {t}
  BY DEF Cancel
<1> QED
  BY <1>3, <1>4, <1>5

-----------------------------------------------------------------------------
(* Every step preserves the invariant *)

(* libusb_submit_transfer *)

LEMMA AppSubmitStep == ASSUME NEW t \in Transfers, AppSubmit(t), IInv PROVE IInv'
<1> USE DEF AppSubmit, config, locks, flags, timeoutFlags, history, At, Goto, Set,
            Submitters, Procs
<1>0. TypeOK /\ StepInv /\ LockInv /\ OwedInv /\ TraceInv /\ RefInv /\ AbortInv
  BY DEF IInv
<1>1. TypeOK'
  BY <1>0 DEF TypeOK
<1>2. StepInv'
  BY <1>0 DEF TypeOK, StepInv, Steps
<1>3. LockInv'
  BY <1>0 DEF LockInv, Doing
<1>4. OwedInv'
  BY <1>0 DEF TypeOK, OwedInv, Doing
<1>5. TraceInv'
  BY <1>0 DEF TraceInv, Doing
<1>6. RefInv'
  BY <1>0 DEF RefInv, InFlight
<1>7. AbortInv'
  BY <1>0 DEF AbortInv, Doing, Aborted, Expired
<1> QED
  BY <1>1, <1>2, <1>3, <1>4, <1>5, <1>6, <1>7 DEF IInv

LEMMA SubmitFlyingStep ==
    ASSUME NEW p \in Submitters, SubmitFlying(p), IInv
    PROVE  IInv'
<1> USE DEF SubmitFlying, config, flags, timeoutFlags, history, At, Goto, Submitters,
            Procs
<1>0. TypeOK /\ StepInv /\ LockInv /\ OwedInv /\ TraceInv /\ RefInv /\ AbortInv
  BY DEF IInv
<1>1. TypeOK'
  BY <1>0 DEF TypeOK
<1>2. StepInv'
  BY <1>0 DEF StepInv, Steps
<1>3. LockInv'
  BY <1>0, ConstantsAssumption DEF ConstantsAssumption, TypeOK, StepInv, LockInv, Doing
<1>4. OwedInv'
  BY <1>0 DEF OwedInv, Doing
<1>5. TraceInv'
  BY <1>0 DEF TraceInv, Doing
<1>6. RefInv'
  BY <1>0 DEF RefInv, InFlight
<1>7. AbortInv'
  BY <1>0 DEF AbortInv, Doing, Aborted, Expired
<1> QED
  BY <1>1, <1>2, <1>3, <1>4, <1>5, <1>6, <1>7 DEF IInv

LEMMA SubmitLockStep ==
    ASSUME NEW p \in Submitters, NEW after \in Timeouts, now + after <= MaxTime,
           SubmitLock(p, after), IInv
    PROVE  IInv'
<1> USE DEF SubmitLock, config, flags, timeoutFlags, history, At, Goto, Set, SubmitDone,
            ResetFlags, Submitters, Procs
<1>0. TypeOK /\ StepInv /\ LockInv /\ OwedInv /\ TraceInv /\ RefInv /\ AbortInv
  BY DEF IInv
<1> DEFINE t == work[p]
           when == IF after = 0 THEN 0 ELSE now + after
<1>a. /\ pc[p] = "s_lock" /\ t \in Transfers /\ owed[t] = 0 /\ in_flight[t] = 0
      /\ t \notin ToSet(flying) /\ io[t] = "none"
  <2>1. pc[p] = "s_lock" /\ p \in Procs /\ work[p] # None
    BY <1>0 DEF StepInv
  <2>2. t \in Transfers /\ Doing(p, t, {"s_flying", "s_lock", "s_driver", "s_undo"})
    BY <1>0, <2>1 DEF TypeOK, Doing
  <2>3. owed[t] = 0
    BY <1>0, <2>2 DEF OwedInv
  <2>4. in_flight[t] # 1 /\ ~(io[t] # "none")
    BY <1>0, <2>2, <2>3 DEF TraceInv
  <2>5. t \notin ToSet(flying)
    <3>1. ASSUME NEW q \in Submitters PROVE ~Doing(q, t, {"s_driver", "s_undo"})
      BY <1>0, <2>1, <2>2 DEF OwedInv, StepInv, Doing
    <3> QED
      BY <1>0, <2>2, <2>3, <3>1 DEF TraceInv
  <2>6. in_flight[t] \in {0, 1}
    BY <1>0, <2>2 DEF TypeOK
  <2> QED
    BY <2>1, <2>2, <2>3, <2>4, <2>5, <2>6
<1>b. when \in 0..MaxTime
  BY <1>0, ConstantsAssumption DEF ConstantsAssumption, StepInv
<1>c. /\ flying' = AddToFlying(t, when) /\ timeout' = [timeout EXCEPT ![t] = when]
      /\ lock' = [lock EXCEPT ![t] = p] /\ pc' = [pc EXCEPT ![p] = "s_driver"]
      /\ in_flight' = [in_flight EXCEPT ![t] = 0]
      /\ cancelling' = [cancelling EXCEPT ![t] = 0]
      /\ timeout_handled' = [timeout_handled EXCEPT ![t] = 0]
      /\ timed_out' = [timed_out EXCEPT ![t] = 0]
      /\ UNCHANGED work
  BY <1>a DEF SubmitLock, Set, Goto, ResetFlags
<1>d. /\ flying' \in Seq(Transfers) /\ IsInjective(flying')
      /\ ToSet(flying') = ToSet(flying) \cup {t}
  <2> HIDE DEF t, when
  <2>1. when \in Nat
    BY <1>b
  <2> QED
    BY <1>0, <1>a, <1>c, <2>1, FlyingInsert DEF TypeOK
<1>1. TypeOK'
  <2>1. timeout' \in [Transfers -> 0..MaxTime]
    BY <1>0, <1>a, <1>b, <1>c DEF TypeOK
  <2>2. lock' \in [Transfers -> Procs \cup {None}]
    BY <1>0, <1>a, <1>c DEF TypeOK
  <2>3. {in_flight', cancelling', timeout_handled', timed_out'}
           \subseteq [Transfers -> {0, 1}]
    BY <1>0, <1>a, <1>c DEF TypeOK
  <2> QED
    BY <1>0, <1>c, <1>d, <2>1, <2>2, <2>3 DEF TypeOK
<1>2. StepInv'
  BY <1>0 DEF TypeOK, StepInv, Steps
<1>3. LockInv'
  BY <1>0, ConstantsAssumption DEF ConstantsAssumption, TypeOK, StepInv, LockInv, Doing
<1>4. OwedInv'
  <2>1. owed' = owed /\ pc'[p] = "s_driver"
        /\ \A q \in Procs : q # p => pc'[q] = pc[q]
    BY <1>0, <1>a, <1>c DEF StepInv
  <2> HIDE DEF SubmitLock
  <2> QED
    BY <1>0, <1>a, <1>c, <2>1 DEF OwedInv, StepInv, Doing
<1>5. TraceInv'
  <2>1. /\ in_flight' = [in_flight EXCEPT ![t] = 0]
        /\ pc' = [pc EXCEPT ![p] = "s_driver"]
        /\ UNCHANGED <<owed, io, overlapped, work, status>>
    BY <1>a
  <2> HIDE DEF t
  <2>2. work[p] = t
    BY DEF t
  <2>3. \A u \in Transfers, q \in Procs : \A steps :
           Doing(q, u, steps)' <=> work[q] = u /\ pc'[q] \in steps
    BY <2>1 DEF Doing
  <2>4. pc'[p] = "s_driver" /\ \A q \in Procs : q # p => pc'[q] = pc[q]
    BY <1>0, <2>1 DEF StepInv
  <2> SUFFICES ASSUME NEW u \in Transfers PROVE TraceInv!(u)'
    BY DEF TraceInv
  <2> QED
    BY <1>0, <1>a, <1>d, <2>1, <2>2, <2>4 DEF TraceInv, TypeOK, Doing
<1>6. RefInv'
  <2>1. in_flight' = in_flight
    BY <1>0, <1>a, <1>c DEF TypeOK
  <2>2. InFlight' = InFlight
    BY <2>1 DEF InFlight
  <2> QED
    BY <1>0, <1>a, <2>2 DEF RefInv, StepInv
<1>7. AbortInv'
  BY <1>0 DEF TypeOK, StepInv, LockInv, OwedInv, AbortInv, Doing, Aborted, Expired
<1> QED
  BY <1>1, <1>2, <1>3, <1>4, <1>5, <1>6, <1>7 DEF IInv

LEMMA SubmitAcceptedStep ==
    ASSUME NEW p \in Submitters, SubmitAccepted(p), IInv
    PROVE  IInv'
<1> USE DEF SubmitAccepted, config, locks, flags, timeoutFlags, At, Goto, Set,
            Submitters, Procs
<1>0. TypeOK /\ StepInv /\ LockInv /\ OwedInv /\ TraceInv /\ RefInv /\ AbortInv
  BY DEF IInv
<1>1. TypeOK'
  <2>1. work[p] \in Transfers /\ owed[work[p]] = 0
    BY <1>0 DEF TypeOK, StepInv, OwedInv, Doing
  <2> QED
    BY <1>0, <2>1 DEF TypeOK
<1>2. StepInv'
  BY <1>0 DEF StepInv, Steps
<1>3. LockInv'
  BY <1>0 DEF LockInv, Doing
<1>4. OwedInv'
  BY <1>0 DEF TypeOK, StepInv, OwedInv, Doing
<1>5. TraceInv'
  BY <1>0 DEF TypeOK, StepInv, LockInv, OwedInv, TraceInv, Doing
<1>6. RefInv'
  BY <1>0 DEF RefInv, InFlight
<1>7. AbortInv'
  BY <1>0 DEF TypeOK, StepInv, LockInv, OwedInv, AbortInv, Doing, Aborted, Expired
<1> QED
  BY <1>1, <1>2, <1>3, <1>4, <1>5, <1>6, <1>7 DEF IInv

LEMMA SubmitFlagStep == ASSUME NEW p \in Submitters, SubmitFlag(p), IInv PROVE IInv'
<1> USE DEF SubmitFlag, config, timeoutFlags, history, At, Set, SubmitDone, Goto,
            Submitters, Procs
<1>0. TypeOK /\ StepInv /\ LockInv /\ OwedInv /\ TraceInv /\ RefInv /\ AbortInv
  BY DEF IInv
<1>1. TypeOK'
  <2>1. work[p] \in Transfers /\ refs' \in Nat
    BY <1>0 DEF TypeOK, StepInv
  <2>2. work' \in [Procs -> Transfers \cup {None}]
    BY <1>0 DEF TypeOK
  <2> QED
    BY <1>0, <2>1, <2>2 DEF TypeOK
<1>2. StepInv'
  BY <1>0 DEF TypeOK, StepInv, Steps
<1>3. LockInv'
  BY <1>0, ConstantsAssumption DEF ConstantsAssumption, TypeOK, StepInv, LockInv, Doing
<1>4. OwedInv'
  BY <1>0 DEF TypeOK, StepInv, OwedInv, Doing
<1>5. TraceInv'
  BY <1>0 DEF TypeOK, StepInv, LockInv, OwedInv, TraceInv, Doing
<1>6. RefInv'
  <2> DEFINE t == work[p]
  <2>1. t \in Transfers /\ pc[p] = "s_flag" /\ in_flight[t] # 1
    BY <1>0 DEF TypeOK, StepInv, TraceInv, Doing
  <2>2. InFlight' = InFlight \cup {t} /\ t \notin InFlight
    BY <1>0, <2>1 DEF TypeOK, InFlight
  <2> HIDE DEF t
  <2>3. IsFiniteSet(InFlight') /\ Cardinality(InFlight') = Cardinality(InFlight) + 1
    BY <1>0, <2>2, FS_AddElement DEF RefInv
  <2>4. Cardinality(InFlight) \in Nat
    BY <1>0, FS_CardinalityType DEF RefInv
  <2>5. /\ refs' = refs + 1
        /\ pc'["Ev"] = pc["Ev"] \/ (pc["Ev"] = "s_flag" /\ pc'["Ev"] = "unref")
    BY <1>0, <2>1 DEF StepInv
  <2> QED
    BY <1>0, <2>3, <2>4, <2>5 DEF RefInv
<1>7. AbortInv'
  BY <1>0 DEF TypeOK, StepInv, AbortInv, Doing, Aborted, Expired
<1> QED
  BY <1>1, <1>2, <1>3, <1>4, <1>5, <1>6, <1>7 DEF IInv

LEMMA SubmitRejectedStep ==
    ASSUME NEW p \in Submitters, SubmitRejected(p), IInv
    PROVE  IInv'
<1> USE DEF SubmitRejected, config, flags, timeoutFlags, history, At, Goto, Set,
            Submitters, Procs
<1>0. TypeOK /\ StepInv /\ LockInv /\ OwedInv /\ TraceInv /\ RefInv /\ AbortInv
  BY DEF IInv
<1>1. TypeOK'
  BY <1>0 DEF TypeOK
<1>2. StepInv'
  BY <1>0 DEF StepInv, Steps
<1>3. LockInv'
  BY <1>0, ConstantsAssumption DEF ConstantsAssumption, TypeOK, StepInv, LockInv, Doing
<1>4. OwedInv'
  BY <1>0 DEF OwedInv, Doing
<1>5. TraceInv'
  BY <1>0 DEF TraceInv, Doing
<1>6. RefInv'
  BY <1>0 DEF RefInv, InFlight
<1>7. AbortInv'
  BY <1>0 DEF AbortInv, Doing, Aborted, Expired
<1> QED
  BY <1>1, <1>2, <1>3, <1>4, <1>5, <1>6, <1>7 DEF IInv

LEMMA SubmitUndoStep == ASSUME NEW p \in Submitters, SubmitUndo(p), IInv PROVE IInv'
<1> USE DEF SubmitUndo, config, locks, flags, timeoutFlags, history, At, SubmitDone,
            Goto, Set, Submitters, Procs
<1>0. TypeOK /\ StepInv /\ LockInv /\ OwedInv /\ TraceInv /\ RefInv /\ AbortInv
  BY DEF IInv
<1> DEFINE t == work[p]
<1>a. /\ pc[p] = "s_undo" /\ t \in ToSet(flying)
  <2>1. pc[p] = "s_undo" /\ work[p] # None /\ p \in Procs
    BY <1>0 DEF StepInv
  <2>2. t \in Transfers
    BY <1>0, <2>1 DEF TypeOK
  <2> QED
    BY <1>0, <2>1, <2>2 DEF OwedInv, TraceInv, Doing
<1>b. /\ flying' \in Seq(Transfers) /\ IsInjective(flying')
      /\ ToSet(flying') = ToSet(flying) \ {t}
  BY <1>0, <1>a, FlyingRemove DEF TypeOK
<1>1. TypeOK'
  BY <1>0, <1>b DEF TypeOK
<1>2. StepInv'
  BY <1>0 DEF TypeOK, StepInv, Steps
<1>3. LockInv'
  BY <1>0 DEF TypeOK, StepInv, LockInv, Doing
<1>4. OwedInv'
  BY <1>0 DEF TypeOK, StepInv, OwedInv, Doing
<1>5. TraceInv'
  BY <1>0, <1>a, <1>b DEF TypeOK, StepInv, OwedInv, TraceInv, Doing
<1>6. RefInv'
  BY <1>0 DEF TypeOK, StepInv, RefInv, InFlight
<1>7. AbortInv'
  BY <1>0 DEF TypeOK, StepInv, AbortInv, Doing, Aborted, Expired
<1> QED
  BY <1>1, <1>2, <1>3, <1>4, <1>5, <1>6, <1>7 DEF IInv

(* libusb_cancel_transfer and handle_timeouts *)

LEMMA AppCancelStep == ASSUME NEW t \in Transfers, AppCancel(t), IInv PROVE IInv'
<1> USE DEF AppCancel, config, locks, timeoutFlags, At, Cancel, CancelSucceeds, Set,
            Hits, BackendCancels, Pending, Submitters, Procs
<1>0. TypeOK /\ StepInv /\ LockInv /\ OwedInv /\ TraceInv /\ RefInv /\ AbortInv
  BY DEF IInv
<1>1. TypeOK'
  BY <1>0 DEF TypeOK
<1>2. StepInv'
  BY <1>0 DEF StepInv, Steps
<1>3. LockInv'
  BY <1>0 DEF LockInv, Doing
<1>4. OwedInv'
  BY <1>0 DEF OwedInv, Doing
<1>5. TraceInv'
  BY <1>0 DEF TraceInv, Doing
<1>6. RefInv'
  BY <1>0 DEF RefInv, InFlight
<1>7. AbortInv'
  <2>1. PICK hits \in SUBSET Pending :
           /\ io' = [u \in Transfers |-> IF u \in hits THEN "aborting" ELSE io[u]]
           /\ told' = told \cup hits
           /\ stray' = 0 => stray = 0 /\ hits \subseteq {t}
           /\ hits # {} => CancelSucceeds(t)
    BY <1>0, CancelEffect DEF AppCancel
  <2>2. asked' = IF CancelSucceeds(t) THEN asked \cup {t} ELSE asked
    BY DEF AppCancel
  <2>3. \A u \in hits : owed[u] = 1
    BY <1>0 DEF Pending, TraceInv
  <2>4. UNCHANGED <<owed, timed_out, timeout, now, pc, work, status>>
    BY DEF AppCancel, config, timeoutFlags
  <2> HIDE DEF AppCancel, Cancel
  <2>5. \A u \in Transfers : Aborted(u)' => Aborted(u) \/ u \in hits
    BY <2>1, <2>4 DEF Aborted, Doing
  <2>6. told' \subseteq {u \in Transfers : owed'[u] = 1}
    BY <1>0, <2>1, <2>3, <2>4 DEF AbortInv, Pending
  <2>7. \A u \in Transfers : u \in hits /\ stray' = 0 => u \in asked'
    BY <2>1, <2>2
  <2>8. asked \subseteq asked' /\ told \subseteq told' /\ hits \subseteq told'
        /\ (stray' = 0 => stray = 0)
    BY <2>1, <2>2
  <2> QED
    BY <1>0, <2>4, <2>5, <2>6, <2>7, <2>8 DEF AbortInv, Doing, Expired
<1> QED
  BY <1>1, <1>2, <1>3, <1>4, <1>5, <1>6, <1>7 DEF IInv

LEMMA TimeoutsBeginStep == ASSUME TimeoutsBegin, IInv PROVE IInv'
<1> USE DEF TimeoutsBegin, config, flags, timeoutFlags, history, At, Goto, Due,
            Submitters, Procs
<1>0. TypeOK /\ StepInv /\ LockInv /\ OwedInv /\ TraceInv /\ RefInv /\ AbortInv
  BY DEF IInv
<1>1. TypeOK'
  BY <1>0 DEF TypeOK
<1>2. StepInv'
  BY <1>0 DEF StepInv, Steps
<1>3. LockInv'
  BY <1>0, ConstantsAssumption DEF ConstantsAssumption, TypeOK, StepInv, LockInv, Doing
<1>4. OwedInv'
  BY <1>0 DEF OwedInv, Doing
<1>5. TraceInv'
  BY <1>0 DEF TraceInv, Doing
<1>6. RefInv'
  BY <1>0 DEF RefInv, InFlight
<1>7. AbortInv'
  BY <1>0 DEF AbortInv, Doing, Aborted, Expired
<1> QED
  BY <1>1, <1>2, <1>3, <1>4, <1>5, <1>6, <1>7 DEF IInv

LEMMA TimeoutFoundStep ==
    ASSUME NEW t \in Transfers, TimeoutFound(t), IInv
    PROVE  IInv'
<1> USE DEF TimeoutFound, config, locks, flags, history, At, Goto, Set, Due, Submitters,
            Procs
<1>0. TypeOK /\ StepInv /\ LockInv /\ OwedInv /\ TraceInv /\ RefInv /\ AbortInv
  BY DEF IInv
<1>1. TypeOK'
  BY <1>0 DEF TypeOK
<1>2. StepInv'
  BY <1>0, ConstantsAssumption DEF ConstantsAssumption, TypeOK, StepInv, Steps
<1>3. LockInv'
  BY <1>0 DEF LockInv, Doing
<1>4. OwedInv'
  BY <1>0 DEF OwedInv, Doing
<1>5. TraceInv'
  BY <1>0 DEF TraceInv, Doing
<1>6. RefInv'
  BY <1>0 DEF RefInv, InFlight
<1>7. AbortInv'
  BY <1>0 DEF TypeOK, AbortInv, Doing, Aborted, Expired
<1> QED
  BY <1>1, <1>2, <1>3, <1>4, <1>5, <1>6, <1>7 DEF IInv

LEMMA TimeoutCancelStep == ASSUME TimeoutCancel, IInv PROVE IInv'
<1> USE DEF TimeoutCancel, config, locks, timeoutFlags, At, Goto, Set, Cancel,
            CancelSucceeds, Hits, BackendCancels, Pending, Submitters, Procs
<1>0. TypeOK /\ StepInv /\ LockInv /\ OwedInv /\ TraceInv /\ RefInv /\ AbortInv
  BY DEF IInv
<1>1. TypeOK'
  BY <1>0 DEF TypeOK, StepInv, LockInv, OwedInv, TraceInv, RefInv, AbortInv
<1>2. StepInv'
  BY <1>0 DEF TypeOK, StepInv, Steps
<1>3. LockInv'
  BY <1>0 DEF LockInv, Doing
<1>4. OwedInv'
  BY <1>0 DEF OwedInv, Doing
<1>5. TraceInv'
  BY <1>0 DEF TraceInv, Doing
<1>6. RefInv'
  BY <1>0 DEF RefInv, InFlight
<1>7. AbortInv'
  <2> DEFINE t == work["Tm"]
  <2>1. t \in Transfers /\ pc["Tm"] = "cancel"
    BY <1>0 DEF TypeOK, StepInv
  <2>2. PICK hits \in SUBSET Pending :
           /\ io' = [u \in Transfers |-> IF u \in hits THEN "aborting" ELSE io[u]]
           /\ told' = told \cup hits
           /\ stray' = 0 => stray = 0 /\ hits \subseteq {t}
           /\ hits # {} => CancelSucceeds(t)
    BY <1>0, <2>1, CancelEffect DEF TimeoutCancel
  <2>3. CancelSucceeds(t) => work'["Tm"] = t /\ pc'["Tm"] = "mark"
    BY <1>0, <2>1 DEF TimeoutCancel, StepInv
  <2>4. /\ UNCHANGED <<owed, timed_out, timeout, now, status, asked>>
        /\ pc'["Ev"] = pc["Ev"] /\ work'["Ev"] = work["Ev"]
        /\ \A u \in Transfers : Doing("Tm", u, {"cancel", "mark"})' => u = t
    BY <1>0, <2>1 DEF TimeoutCancel, TypeOK, StepInv, Doing
  <2>5. \A u \in hits : owed[u] = 1
    BY <1>0 DEF Pending, TraceInv
  <2>6. Doing("Tm", t, {"cancel", "mark"})
    BY <2>1 DEF Doing
  <2> HIDE DEF TimeoutCancel, Cancel, t
  <2>7. \A u \in Transfers : Aborted(u)' => Aborted(u) \/ u \in hits
    BY <2>2, <2>4 DEF Aborted, Doing
  <2>8. told' \subseteq {u \in Transfers : owed'[u] = 1}
    BY <1>0, <2>2, <2>4, <2>5 DEF AbortInv, Pending
  <2>9. \A u \in Transfers : u \in hits /\ stray' = 0 => Doing("Tm", u, {"mark"})'
    BY <2>2, <2>3 DEF Doing
  <2>10. told \subseteq told' /\ hits \subseteq told' /\ (stray' = 0 => stray = 0)
    BY <2>2
  <2>11. \A u \in Transfers : ~Doing("Tm", u, {"mark"})
    BY <2>1 DEF Doing
  <2> QED
    BY <1>0, <2>4, <2>6, <2>7, <2>8, <2>9, <2>10, <2>11 DEF AbortInv, Doing, Expired
<1> QED
  BY <1>1, <1>2, <1>3, <1>4, <1>5, <1>6, <1>7 DEF IInv

LEMMA TimeoutMarkStep == ASSUME TimeoutMark, IInv PROVE IInv'
<1> USE DEF TimeoutMark, config, locks, flags, history, At, Goto, Set, Submitters, Procs
<1>0. TypeOK /\ StepInv /\ LockInv /\ OwedInv /\ TraceInv /\ RefInv /\ AbortInv
  BY DEF IInv
<1>1. TypeOK'
  BY <1>0 DEF TypeOK, StepInv, LockInv, OwedInv, TraceInv, RefInv, AbortInv
<1>2. StepInv'
  BY <1>0 DEF TypeOK, StepInv, Steps
<1>3. LockInv'
  BY <1>0 DEF LockInv, Doing
<1>4. OwedInv'
  BY <1>0 DEF OwedInv, Doing
<1>5. TraceInv'
  BY <1>0 DEF TraceInv, Doing
<1>6. RefInv'
  BY <1>0 DEF RefInv, InFlight
<1>7. AbortInv'
  BY <1>0, ConstantsAssumption DEF ConstantsAssumption, TypeOK, AbortInv, Doing, Aborted,
                                   Expired
<1> QED
  BY <1>1, <1>2, <1>3, <1>4, <1>5, <1>6, <1>7 DEF IInv

LEMMA TimeoutsEndStep == ASSUME TimeoutsEnd, IInv PROVE IInv'
<1> USE DEF TimeoutsEnd, config, flags, timeoutFlags, history, At, Goto, Due, Submitters,
            Procs
<1>0. TypeOK /\ StepInv /\ LockInv /\ OwedInv /\ TraceInv /\ RefInv /\ AbortInv
  BY DEF IInv
<1>1. TypeOK'
  BY <1>0 DEF TypeOK
<1>2. StepInv'
  BY <1>0 DEF StepInv, Steps
<1>3. LockInv'
  BY <1>0, ConstantsAssumption DEF ConstantsAssumption, TypeOK, StepInv, LockInv, Doing
<1>4. OwedInv'
  BY <1>0 DEF OwedInv, Doing
<1>5. TraceInv'
  BY <1>0 DEF TraceInv, Doing
<1>6. RefInv'
  BY <1>0 DEF RefInv, InFlight
<1>7. AbortInv'
  BY <1>0 DEF AbortInv, Doing, Aborted, Expired
<1> QED
  BY <1>1, <1>2, <1>3, <1>4, <1>5, <1>6, <1>7 DEF IInv

(* Completion by the thread that handles events *)

LEMMA EvFoundStep == ASSUME NEW t \in Transfers, EvFound(t), IInv PROVE IInv'
<1> USE DEF EvFound, config, locks, flags, timeoutFlags, history, At, Goto, Set,
            Submitters, Procs
<1>0. TypeOK /\ StepInv /\ LockInv /\ OwedInv /\ TraceInv /\ RefInv /\ AbortInv
  BY DEF IInv
<1>1. TypeOK'
  BY <1>0 DEF TypeOK
<1>2. StepInv'
  BY <1>0, ConstantsAssumption DEF ConstantsAssumption, TypeOK, StepInv, Steps
<1>3. LockInv'
  BY <1>0 DEF LockInv, Doing
<1>4. OwedInv'
  BY <1>0 DEF TypeOK, StepInv, LockInv, OwedInv, TraceInv, RefInv, AbortInv, Doing
<1>5. TraceInv'
  BY <1>0, ConstantsAssumption DEF ConstantsAssumption, TypeOK, StepInv, TraceInv, Doing
<1>6. RefInv'
  BY <1>0 DEF RefInv, InFlight
<1>7. AbortInv'
  BY <1>0 DEF TypeOK, AbortInv, Doing, Aborted, Expired
<1> QED
  BY <1>1, <1>2, <1>3, <1>4, <1>5, <1>6, <1>7 DEF IInv

LEMMA EvClearStep == ASSUME EvClear, IInv PROVE IInv'
<1> USE DEF EvClear, config, locks, flags, timeoutFlags, history, At, Goto, Set,
            Submitters, Procs
<1>0. TypeOK /\ StepInv /\ LockInv /\ OwedInv /\ TraceInv /\ RefInv /\ AbortInv
  BY DEF IInv
<1>1. TypeOK'
  BY <1>0 DEF TypeOK, StepInv, LockInv, OwedInv, TraceInv, RefInv, AbortInv
<1>2. StepInv'
  BY <1>0 DEF StepInv, Steps
<1>3. LockInv'
  BY <1>0 DEF LockInv, Doing
<1>4. OwedInv'
  BY <1>0 DEF OwedInv, Doing
<1>5. TraceInv'
  BY <1>0 DEF TypeOK, StepInv, TraceInv, Doing
<1>6. RefInv'
  BY <1>0 DEF RefInv, InFlight
<1>7. AbortInv'
  BY <1>0 DEF TypeOK, StepInv, OwedInv, TraceInv, AbortInv, Doing, Aborted, Expired
<1> QED
  BY <1>1, <1>2, <1>3, <1>4, <1>5, <1>6, <1>7 DEF IInv

LEMMA EvAskTimedOutStep == ASSUME EvAskTimedOut, IInv PROVE IInv'
<1> USE DEF EvAskTimedOut, config, locks, flags, timeoutFlags, history, At, Goto,
            Submitters, Procs
<1>0. TypeOK /\ StepInv /\ LockInv /\ OwedInv /\ TraceInv /\ RefInv /\ AbortInv
  BY DEF IInv
<1>1. TypeOK'
  BY <1>0 DEF TypeOK
<1>2. StepInv'
  BY <1>0 DEF StepInv, Steps
<1>3. LockInv'
  BY <1>0 DEF LockInv, Doing
<1>4. OwedInv'
  BY <1>0 DEF OwedInv, Doing
<1>5. TraceInv'
  BY <1>0 DEF TraceInv, Doing
<1>6. RefInv'
  BY <1>0 DEF RefInv, InFlight
<1>7. AbortInv'
  <2> DEFINE t == work["Ev"]
  <2>1. t \in Transfers /\ pc["Ev"] = "ask" /\ status = "cancelled"
    BY <1>0 DEF TypeOK, StepInv
  <2>2. pc["Tm"] = "idle"
    BY <1>0, ConstantsAssumption DEF ConstantsAssumption, LockInv
  <2>3. /\ pc'["Ev"] = "unlist" /\ pc'["Tm"] = "idle"
        /\ status' = IF timed_out[t] = 1 THEN "timed_out" ELSE "cancelled"
        /\ UNCHANGED <<owed, timed_out, timeout, now, work, asked, told, stray, io>>
    BY <1>0, <2>2 DEF StepInv
  <2>4. Aborted(t)
    BY <2>1 DEF Aborted, Doing
  <2>5. t \in told /\ (timed_out[t] = 1 => Expired(t))
        /\ (stray = 0 => t \in asked \/ timed_out[t] = 1)
    BY <1>0, <2>1, <2>2, <2>4 DEF AbortInv, Doing
  <2>6. \A u \in Transfers : Doing("Ev", u, {"unlist", "unflag", "callback"})' => u = t
    BY <2>3 DEF Doing
  <2> HIDE DEF t
  <2>7. \A u \in Transfers : Aborted(u)' => Aborted(u)
    BY <2>3 DEF Aborted, Doing
  <2>8. \A u \in Transfers : ~Doing("Tm", u, {"cancel", "mark"})
                            /\ ~Doing("Tm", u, {"cancel", "mark"})'
    BY <2>2, <2>3 DEF Doing
  <2> QED
    BY <1>0, <2>2, <2>3, <2>5, <2>6, <2>7, <2>8 DEF AbortInv, Doing, Expired
<1> QED
  BY <1>1, <1>2, <1>3, <1>4, <1>5, <1>6, <1>7 DEF IInv

LEMMA EvUnlistStep == ASSUME EvUnlist, IInv PROVE IInv'
<1> USE DEF EvUnlist, config, locks, flags, timeoutFlags, history, At, Goto, Submitters,
            Procs
<1>0. TypeOK /\ StepInv /\ LockInv /\ OwedInv /\ TraceInv /\ RefInv /\ AbortInv
  BY DEF IInv
<1> DEFINE t == work["Ev"]
<1>a. /\ pc["Ev"] = "unlist" /\ t \in ToSet(flying)
  <2>1. pc["Ev"] = "unlist" /\ work["Ev"] # None /\ "Ev" \in Procs
    BY <1>0 DEF StepInv
  <2>2. t \in Transfers
    BY <1>0, <2>1 DEF TypeOK
  <2> QED
    BY <1>0, <2>1, <2>2 DEF OwedInv, TraceInv, Doing
<1>b. /\ flying' \in Seq(Transfers) /\ IsInjective(flying')
      /\ ToSet(flying') = ToSet(flying) \ {t}
  BY <1>0, <1>a, FlyingRemove DEF TypeOK
<1>1. TypeOK'
  BY <1>0, <1>b DEF TypeOK
<1>2. StepInv'
  BY <1>0 DEF StepInv, Steps
<1>3. LockInv'
  BY <1>0 DEF LockInv, Doing
<1>4. OwedInv'
  BY <1>0 DEF OwedInv, Doing
<1>5. TraceInv'
  BY <1>0, <1>a, <1>b DEF TypeOK, StepInv, OwedInv, TraceInv, Doing
<1>6. RefInv'
  BY <1>0 DEF RefInv, InFlight
<1>7. AbortInv'
  BY <1>0 DEF AbortInv, Doing, Aborted, Expired
<1> QED
  BY <1>1, <1>2, <1>3, <1>4, <1>5, <1>6, <1>7 DEF IInv

LEMMA EvUnflagStep == ASSUME EvUnflag, IInv PROVE IInv'
<1> USE DEF EvUnflag, config, locks, timeoutFlags, history, At, Goto, Set, Submitters,
            Procs
<1>0. TypeOK /\ StepInv /\ LockInv /\ OwedInv /\ TraceInv /\ RefInv /\ AbortInv
  BY DEF IInv
<1>1. TypeOK'
  BY <1>0 DEF TypeOK, StepInv, LockInv, OwedInv, TraceInv, RefInv, AbortInv
<1>2. StepInv'
  BY <1>0 DEF StepInv, Steps
<1>3. LockInv'
  BY <1>0 DEF LockInv, Doing
<1>4. OwedInv'
  BY <1>0, ConstantsAssumption DEF ConstantsAssumption, TypeOK, StepInv, LockInv,
                                   OwedInv, Doing
<1>5. TraceInv'
  BY <1>0 DEF TypeOK, StepInv, LockInv, TraceInv, Doing
<1>6. RefInv'
  <2> DEFINE t == work["Ev"]
  <2>1. t \in Transfers /\ owed[t] = 1
    BY <1>0 DEF TypeOK, StepInv, OwedInv, Doing
  <2>2. \A p \in Submitters : ~Doing(p, t, {"s_flag"})
    BY <1>0, <2>1, ConstantsAssumption DEF ConstantsAssumption, LockInv, Doing
  <2>3. in_flight[t] = 1
    BY <1>0, <2>1, <2>2 DEF TraceInv, Doing
  <2>4. InFlight' = InFlight \ {t} /\ t \in InFlight
    BY <1>0, <2>1, <2>3 DEF TypeOK, InFlight
  <2> HIDE DEF t
  <2>5. IsFiniteSet(InFlight') /\ Cardinality(InFlight') = Cardinality(InFlight) - 1
    BY <1>0, <2>4, FS_RemoveElement DEF RefInv
  <2>6. Cardinality(InFlight) \in Nat
    BY <1>0, FS_CardinalityType DEF RefInv
  <2>7. refs' = refs /\ pc["Ev"] = "unflag" /\ pc'["Ev"] = "callback"
    BY <1>0 DEF StepInv
  <2> QED
    BY <1>0, <2>5, <2>6, <2>7 DEF RefInv
<1>7. AbortInv'
  BY <1>0 DEF AbortInv, Doing, Aborted, Expired
<1> QED
  BY <1>1, <1>2, <1>3, <1>4, <1>5, <1>6, <1>7 DEF IInv

LEMMA EvCallbackStep ==
    ASSUME NEW again \in BOOLEAN, EvCallback(again), IInv
    PROVE  IInv'
<1> USE DEF EvCallback, config, locks, flags, timeoutFlags, At, Goto, Set, Submitters,
            Procs
<1>0. TypeOK /\ StepInv /\ LockInv /\ OwedInv /\ TraceInv /\ RefInv /\ AbortInv
  BY DEF IInv
<1>1. TypeOK'
  <2>1. work["Ev"] \in Transfers /\ owed[work["Ev"]] = 1
    BY <1>0 DEF TypeOK, StepInv, OwedInv, Doing
  <2> QED
    BY <1>0, <2>1 DEF TypeOK
<1>2. StepInv'
  BY <1>0 DEF StepInv, Steps
<1>3. LockInv'
  BY <1>0 DEF LockInv, Doing
<1>4. OwedInv'
  BY <1>0 DEF TypeOK, StepInv, OwedInv, Doing
<1>5. TraceInv'
  BY <1>0 DEF TypeOK, StepInv, LockInv, OwedInv, TraceInv, Doing
<1>6. RefInv'
  BY <1>0 DEF RefInv, InFlight
<1>7. AbortInv'
  BY <1>0 DEF TypeOK, StepInv, LockInv, OwedInv, TraceInv, RefInv, AbortInv, Doing,
              Aborted, Expired
<1> QED
  BY <1>1, <1>2, <1>3, <1>4, <1>5, <1>6, <1>7 DEF IInv

LEMMA EvUnrefStep == ASSUME EvUnref, IInv PROVE IInv'
<1> USE DEF EvUnref, config, locks, flags, timeoutFlags, history, At, Goto, Set,
            Submitters, Procs
<1>0. TypeOK /\ StepInv /\ LockInv /\ OwedInv /\ TraceInv /\ RefInv /\ AbortInv
  BY DEF IInv
<1>a. Cardinality(InFlight) \in Nat /\ refs = Cardinality(InFlight) + 1
  BY <1>0, FS_CardinalityType DEF RefInv
<1>1. TypeOK'
  <2>1. refs' \in Nat
    BY <1>a
  <2> QED
    BY <1>0, <2>1 DEF TypeOK
<1>2. StepInv'
  BY <1>0 DEF TypeOK, StepInv, Steps
<1>3. LockInv'
  BY <1>0 DEF LockInv, Doing
<1>4. OwedInv'
  BY <1>0 DEF OwedInv, Doing
<1>5. TraceInv'
  BY <1>0 DEF TraceInv, Doing
<1>6. RefInv'
  <2>1. InFlight' = InFlight /\ pc'["Ev"] = "idle"
    BY <1>0 DEF InFlight, StepInv
  <2> QED
    BY <1>0, <1>a, <2>1 DEF RefInv
<1>7. AbortInv'
  BY <1>0 DEF AbortInv, Doing, Aborted, Expired
<1> QED
  BY <1>1, <1>2, <1>3, <1>4, <1>5, <1>6, <1>7 DEF IInv

(* The driver and the clock *)

LEMMA DriverEndsStep == ASSUME NEW t \in Transfers, DriverEnds(t), IInv PROVE IInv'
<1> USE DEF DriverEnds, config, locks, flags, timeoutFlags, history, Set, Submitters,
            Procs
<1>0. TypeOK /\ StepInv /\ LockInv /\ OwedInv /\ TraceInv /\ RefInv /\ AbortInv
  BY DEF IInv
<1>1. TypeOK'
  BY <1>0 DEF TypeOK
<1>2. StepInv'
  BY <1>0 DEF StepInv, Steps
<1>3. LockInv'
  BY <1>0 DEF LockInv, Doing
<1>4. OwedInv'
  BY <1>0 DEF OwedInv, Doing
<1>5. TraceInv'
  BY <1>0 DEF TypeOK, TraceInv, Doing
<1>6. RefInv'
  BY <1>0 DEF RefInv, InFlight
<1>7. AbortInv'
  BY <1>0 DEF TypeOK, AbortInv, Doing, Aborted, Expired
<1> QED
  BY <1>1, <1>2, <1>3, <1>4, <1>5, <1>6, <1>7 DEF IInv

LEMMA TickStep == ASSUME Tick, IInv PROVE IInv'
<1> USE DEF Tick, config, locks, flags, timeoutFlags, history, Submitters, Procs
<1>0. TypeOK /\ StepInv /\ LockInv /\ OwedInv /\ TraceInv /\ RefInv /\ AbortInv
  BY DEF IInv
<1>1. TypeOK'
  BY <1>0 DEF TypeOK
<1>2. StepInv'
  BY <1>0, ConstantsAssumption DEF ConstantsAssumption, StepInv, Steps
<1>3. LockInv'
  BY <1>0 DEF LockInv, Doing
<1>4. OwedInv'
  BY <1>0 DEF OwedInv, Doing
<1>5. TraceInv'
  BY <1>0 DEF TraceInv, Doing
<1>6. RefInv'
  BY <1>0 DEF RefInv, InFlight
<1>7. AbortInv'
  BY <1>0 DEF TypeOK, StepInv, AbortInv, Doing, Aborted, Expired
<1> QED
  BY <1>1, <1>2, <1>3, <1>4, <1>5, <1>6, <1>7 DEF IInv

-----------------------------------------------------------------------------
(* Theorems *)

LEMMA IInvStep == IInv /\ [Next]_vars => IInv'
<1> SUFFICES ASSUME IInv, [Next]_vars PROVE IInv'
  OBVIOUS
<1>1. ASSUME NEW p \in Submitters, SubmitStep(p) PROVE IInv'
  BY <1>1, SubmitFlyingStep, SubmitLockStep, SubmitAcceptedStep, SubmitFlagStep,
     SubmitRejectedStep, SubmitUndoStep DEF SubmitStep
<1>2. CASE Ev
  <2>1. "Ev" \in Submitters
    BY DEF Submitters
  <2> QED
    BY <1>1, <1>2, <2>1, EvFoundStep, EvClearStep, EvAskTimedOutStep, EvUnlistStep,
       EvUnflagStep, EvUnrefStep, EvCallbackStep DEF Ev
<1>3. CASE Tm
  BY <1>3, TimeoutsBeginStep, TimeoutCancelStep, TimeoutMarkStep, TimeoutsEndStep,
     TimeoutFoundStep DEF Tm
<1>4. ASSUME NEW t \in Transfers, AppSubmit(t) \/ AppCancel(t) \/ DriverEnds(t)
      PROVE  IInv'
  BY <1>4, AppSubmitStep, AppCancelStep, DriverEndsStep
<1>5. CASE Tick
  BY <1>5, TickStep
<1>6. CASE UNCHANGED vars
  BY <1>6 DEF vars, config, locks, flags, timeoutFlags, history, IInv, TypeOK, StepInv,
              LockInv, OwedInv, TraceInv, RefInv, AbortInv, Doing, InFlight, Aborted,
              Expired, Submitters
<1>7. "App" \in Submitters
  BY DEF Submitters
<1> QED
  BY <1>1, <1>2, <1>3, <1>4, <1>5, <1>6, <1>7 DEF Next

(* For any number of transfers, whatever the threads do between the locks of *)
(* a transfer: a transfer that was called back has no trace in libusb, what *)
(* is in flight holds references, and only a transfer that the application  *)
(* cancelled is reported as cancelled, unless a cancellation hit others.    *)
THEOREM TransferFlagsSound == Spec => []FlagsSound
<1>1. IInv => FlightExact
  <2> SUFFICES ASSUME IInv PROVE FlightExact
    OBVIOUS
  <2>0. TypeOK /\ TraceInv /\ RefInv
    BY DEF IInv
  <2>1. ASSUME NEW t \in Transfers, owed[t] = 0, \A p \in Procs : work[p] # t
        PROVE  in_flight[t] = 0 /\ t \notin ToSet(flying) /\ io[t] = "none"
    <3>1. in_flight[t] \in {0, 1} /\ \A p \in Submitters : \A steps : ~Doing(p, t, steps)
      BY <2>0, <2>1 DEF TypeOK, Doing, Procs, Submitters
    <3> QED
      BY <2>0, <2>1, <3>1 DEF TraceInv
  <2>2. Cardinality(InFlight) <= refs
    BY <2>0, FS_CardinalityType DEF RefInv
  <2> QED
    BY <2>1, <2>2 DEF FlightExact, InFlight
<1>2. IInv => CancelledOnRequest
  BY DEF IInv, CancelledOnRequest, AbortInv, StepInv, TypeOK, Doing, At, Procs, Submitters
<1>3. IInv => FlagsSound
  BY <1>1, <1>2 DEF FlagsSound, IInv
<1> QED
  BY <1>3, IInvInit, IInvStep, PTL DEF Spec

-----------------------------------------------------------------------------
(* The refinement of TransferPromise: its variables, as ImplementsPromise   *)
(* maps them                                                                *)

Active == {t \in Transfers : owed[t] = 1}
ActiveExpired == {t \in Transfers : owed[t] = 1 /\ timeout[t] # 0 /\ timeout[t] <= now}
Completing == {"idle", "clear", "ask", "unlist", "unflag", "callback"}
Report == IF pc["Ev"] \in Completing THEN "none" ELSE status

LEMMA PromiseVars ==
    UNCHANGED <<Active, told, ActiveExpired, Report>> => UNCHANGED Promise!vars
  BY DEF Promise!vars, Active, ActiveExpired, Report, Completing

(* The report of the event thread changes only with its steps.              *)
LEMMA SubmitterReports ==
    ASSUME StepInv, NEW p \in Submitters, pc[p] \notin Completing, NEW step,
           step \notin Completing \/ p = "App",
           pc' = [pc EXCEPT ![p] = step], UNCHANGED status
    PROVE  Report' = Report
  BY DEF StepInv, Submitters, Procs, Report, Completing

LEMMA SubmitPromised ==
    ASSUME IInv, NEW p \in Submitters,
           \/ SubmitFlying(p) \/ (\E after \in Timeouts : SubmitLock(p, after))
           \/ SubmitFlag(p) \/ SubmitRejected(p) \/ SubmitUndo(p)
    PROVE  UNCHANGED Promise!vars
<1> USE DEF Submitters, Procs, At, Goto, SubmitDone
<1>0. TypeOK /\ StepInv /\ OwedInv
  BY DEF IInv
<1>1. UNCHANGED <<owed, told, status, now>>
  BY DEF SubmitFlying, SubmitLock, SubmitFlag, SubmitRejected, SubmitUndo, history
<1>2. ActiveExpired' = ActiveExpired
  <2>1. work[p] \in Transfers /\ (At(p, "s_lock") => owed[work[p]] = 0)
    BY <1>0 DEF TypeOK, StepInv, OwedInv, Doing, SubmitFlying, SubmitLock, SubmitFlag,
                SubmitRejected, SubmitUndo
  <2>2. \A t \in Transfers : owed[t] = 1 => timeout'[t] = timeout[t]
    BY <1>0, <2>1 DEF TypeOK, SubmitFlying, SubmitLock, SubmitFlag, SubmitRejected,
                      SubmitUndo, Set
  <2> QED
    BY <1>1, <2>2 DEF ActiveExpired
<1>3. /\ pc[p] \notin Completing
      /\ \E step : (step \notin Completing \/ p = "App") /\ pc' = [pc EXCEPT ![p] = step]
  BY <1>0 DEF Completing, StepInv, SubmitFlying, SubmitLock, SubmitFlag, SubmitRejected,
              SubmitUndo
<1>4. Report' = Report
  BY <1>0, <1>1, <1>3, SubmitterReports
<1> QED
  BY <1>1, <1>2, <1>4, PromiseVars DEF Active

(* The driver takes a request of a transfer that is not active.             *)
LEMMA AcceptPromised ==
    ASSUME IInv, NEW p \in Submitters, SubmitAccepted(p)
    PROVE  Promise!Next
<1>0. TypeOK /\ StepInv /\ OwedInv /\ AbortInv
  BY DEF IInv
<1> PICK t \in Transfers : t = work[p]
  BY <1>0 DEF SubmitAccepted, At, TypeOK, StepInv, Doing, Submitters, Procs
<1>1. owed[t] = 0 /\ pc[p] = "s_driver"
  BY <1>0 DEF SubmitAccepted, At, TypeOK, StepInv, OwedInv, Doing, Submitters, Procs
<1>2. /\ owed' = [owed EXCEPT ![t] = 1] /\ told' = told \ {t}
      /\ pc' = [pc EXCEPT ![p] = "s_flag"] /\ UNCHANGED <<timeout, now, status>>
  BY <1>1 DEF SubmitAccepted, Set, Goto
<1>3. told' = told
  BY <1>0, <1>1, <1>2 DEF AbortInv
<1>4. t \notin Active /\ Active' = Active \cup {t}
  BY <1>0, <1>1, <1>2 DEF Active, TypeOK
<1>5. ActiveExpired' \in {ActiveExpired, ActiveExpired \cup {t}}
  <2>1. \A u \in Transfers : u # t => owed'[u] = owed[u]
    BY <1>0, <1>1, <1>2 DEF TypeOK
  <2>2. t \notin ActiveExpired
    BY <1>1 DEF ActiveExpired
  <2>3. \A u \in Transfers : u # t => (u \in ActiveExpired' <=> u \in ActiveExpired)
    BY <1>2, <2>1 DEF ActiveExpired
  <2>4. ActiveExpired' \subseteq Transfers /\ ActiveExpired \subseteq Transfers
    BY DEF ActiveExpired
  <2>5. CASE t \in ActiveExpired'
    <3>1. ActiveExpired' = ActiveExpired \cup {t}
      BY <1>1, <2>3, <2>4, <2>5
    <3> QED
      BY <3>1
  <2>6. CASE t \notin ActiveExpired'
    <3>1. ActiveExpired' = ActiveExpired
      BY <2>2, <2>3, <2>4, <2>6
    <3> QED
      BY <3>1
  <2> QED
    BY <2>5, <2>6
<1>6. Report' = Report
  <2>1. pc[p] \notin Completing /\ "s_flag" \notin Completing
    BY <1>1 DEF Completing
  <2> QED
    BY <1>0, <1>2, <2>1, SubmitterReports
<1>7. Promise!Accept(t)
  BY <1>3, <1>4, <1>5, <1>6
     DEF Promise!Accept, Active, ActiveExpired, Report, Completing
<1>8. \E u \in Transfers : Promise!Accept(u)
  BY <1>1, <1>7
<1> QED
  BY <1>8 DEF Promise!Next

(* A cancellation and a timeout abort active transfers.                     *)
LEMMA CancelPromised ==
    ASSUME IInv, TimeoutCancel \/ \E t \in Transfers : AppCancel(t)
    PROVE  Promise!Next
<1>0. TypeOK /\ StepInv /\ TraceInv /\ AbortInv
  BY DEF IInv
<1>1. PICK t \in Transfers : Cancel(t)
  BY <1>0 DEF TimeoutCancel, AppCancel, TypeOK, StepInv, At, Procs
<1>2. PICK hits \in SUBSET Pending : told' = told \cup hits
  BY <1>0, <1>1, CancelEffect
<1>3. told' \in SUBSET Active /\ told \subseteq told'
  BY <1>0, <1>2 DEF Pending, TraceInv, AbortInv, Active
<1>4. UNCHANGED <<owed, timeout, now, status>> /\ pc'["Ev"] = pc["Ev"]
  BY <1>0 DEF TimeoutCancel, AppCancel, StepInv, Goto, Procs, config, timeoutFlags
<1>5. UNCHANGED <<Active, ActiveExpired, Report>>
  BY <1>4 DEF Active, ActiveExpired, Report
<1>6. Promise!Abort
  BY <1>3, <1>5 DEF Promise!Abort, Active, ActiveExpired, Report, Completing
<1> QED
  BY <1>6 DEF Promise!Next

(* The callback is told what happened to the transfer.                      *)
LEMMA CallbackPromised ==
    ASSUME IInv, NEW again \in BOOLEAN, EvCallback(again)
    PROVE  Promise!Next
<1>0. TypeOK /\ StepInv /\ OwedInv /\ AbortInv
  BY DEF IInv
<1> PICK t \in Transfers : t = work["Ev"]
  BY <1>0 DEF EvCallback, At, TypeOK, StepInv, Doing, Submitters, Procs
<1>1. /\ pc["Ev"] = "callback" /\ Doing("Ev", t, {"callback"})
      /\ status \in {"ended", "cancelled", "timed_out"}
  BY <1>0 DEF EvCallback, At, TypeOK, StepInv, Doing, Submitters, Procs
<1>2. owed[t] = 1
  BY <1>0, <1>1 DEF OwedInv, Doing
<1>3. /\ owed' = [owed EXCEPT ![t] = 0] /\ told' = told \ {t}
      /\ pc'["Ev"] \in {"s_flying", "unref"} /\ UNCHANGED <<timeout, now, status>>
  BY <1>0, <1>2 DEF EvCallback, Set, Goto, StepInv, Procs
<1>4. /\ status \in {"cancelled", "timed_out"} => t \in told
      /\ status = "timed_out" => Expired(t)
  BY <1>0, <1>1 DEF AbortInv, Doing
<1>5. t \in Active /\ Active' = Active \ {t} /\ ActiveExpired' = ActiveExpired \ {t}
  BY <1>0, <1>1, <1>2, <1>3 DEF Active, ActiveExpired, TypeOK
<1>6. status = "timed_out" => t \in ActiveExpired
  BY <1>1, <1>2, <1>4 DEF ActiveExpired, Expired
<1>7. Report = "none" /\ Report' = status
  BY <1>1, <1>3 DEF Report, Completing
<1> PICK s \in {"ended", "cancelled", "timed_out"} : s = status
  BY <1>1
<1>8. Promise!CallBack(t, s)
  BY <1>3, <1>4, <1>5, <1>6, <1>7
     DEF Promise!CallBack, Active, ActiveExpired, Report, Completing
<1>9. \E u \in Transfers, r \in {"ended", "cancelled", "timed_out"} :
          Promise!CallBack(u, r)
  BY <1>8
<1> QED
  BY <1>9 DEF Promise!Next

LEMMA UnrefPromised == ASSUME IInv, EvUnref PROVE Promise!Next
<1>0. StepInv
  BY DEF IInv
<1>1. UNCHANGED <<owed, told, timeout, now>> /\ pc'["Ev"] = "idle"
  BY <1>0 DEF EvUnref, Goto, StepInv, Procs, history
<1>2. UNCHANGED <<Active, told, ActiveExpired>> /\ Report' = "none"
  BY <1>1 DEF Active, ActiveExpired, Report, Completing
<1>3. Promise!CallBackEnds
  BY <1>2 DEF Promise!CallBackEnds, Active, ActiveExpired, Report, Completing
<1> QED
  BY <1>3 DEF Promise!Next

LEMMA TickPromised == ASSUME IInv, Tick PROVE Promise!Next
<1>0. TypeOK /\ StepInv
  BY DEF IInv
<1>1. now' = now + 1 /\ UNCHANGED <<owed, told, timeout, pc, status>>
  BY DEF Tick, history
<1>2. \A t \in Transfers : timeout[t] <= now => timeout[t] <= now'
  BY <1>0, <1>1 DEF TypeOK, StepInv
<1>3. ActiveExpired' \in SUBSET Active /\ ActiveExpired \subseteq ActiveExpired'
  BY <1>1, <1>2 DEF Active, ActiveExpired
<1>4. UNCHANGED <<Active, told, Report>>
  BY <1>1 DEF Active, Report
<1>5. Promise!Expire
  BY <1>3, <1>4 DEF Promise!Expire, Active, ActiveExpired, Report, Completing
<1> QED
  BY <1>5 DEF Promise!Next

(* The steps that nobody outside libusb sees                                *)
LEMMA InnerPromised ==
    ASSUME IInv,
           \/ EvClear \/ EvAskTimedOut \/ EvUnlist \/ EvUnflag
           \/ TimeoutsBegin \/ TimeoutMark \/ TimeoutsEnd
           \/ \E t \in Transfers : AppSubmit(t) \/ EvFound(t) \/ DriverEnds(t)
                                   \/ TimeoutFound(t)
    PROVE  UNCHANGED Promise!vars
<1> USE DEF EvClear, EvAskTimedOut, EvUnlist, EvUnflag, TimeoutsBegin, TimeoutMark,
            TimeoutsEnd, AppSubmit, EvFound, DriverEnds, TimeoutFound
<1>0. StepInv
  BY DEF IInv
<1>1. UNCHANGED <<owed, told, timeout, now>>
  BY DEF history
<1>2. \/ pc["Ev"] \in Completing /\ pc'["Ev"] \in Completing
      \/ pc'["Ev"] = pc["Ev"] /\ status' = status
  BY <1>0 DEF At, Goto, StepInv, Procs, Completing
<1>3. UNCHANGED <<Active, told, ActiveExpired, Report>>
  BY <1>1, <1>2 DEF Active, ActiveExpired, Report
<1> QED
  BY <1>3, PromiseVars

LEMMA StepPromised == IInv /\ [Next]_vars => [Promise!Next]_(Promise!vars)
<1> SUFFICES ASSUME IInv, [Next]_vars PROVE [Promise!Next]_(Promise!vars)
  OBVIOUS
<1>1. ASSUME NEW p \in Submitters, SubmitStep(p) PROVE [Promise!Next]_(Promise!vars)
  BY <1>1, SubmitPromised, AcceptPromised, ConstantsAssumption
     DEF SubmitStep, ConstantsAssumption
<1>2. CASE Ev
  <2>1. "Ev" \in Submitters
    BY DEF Submitters
  <2> QED
    BY <1>1, <1>2, <2>1, InnerPromised, CallbackPromised, UnrefPromised DEF Ev
<1>3. CASE Tm
  BY <1>3, InnerPromised, CancelPromised DEF Tm
<1>4. ASSUME NEW t \in Transfers, AppSubmit(t) \/ AppCancel(t) \/ DriverEnds(t)
      PROVE  [Promise!Next]_(Promise!vars)
  BY <1>4, InnerPromised, CancelPromised
<1>5. CASE Tick
  BY <1>5, TickPromised
<1>6. CASE UNCHANGED vars
  <2>1. UNCHANGED <<owed, told, timeout, now, pc, status>>
    BY <1>6 DEF vars, history
  <2>2. UNCHANGED <<Active, told, ActiveExpired, Report>>
    BY <2>1 DEF Active, ActiveExpired, Report
  <2> QED
    BY <2>2, PromiseVars
<1>7. "App" \in Submitters
  BY DEF Submitters
<1> QED
  BY <1>1, <1>2, <1>3, <1>4, <1>5, <1>6, <1>7 DEF Next

(* For any number of transfers and any timeouts, libusb_submit_transfer,    *)
(* libusb_cancel_transfer, handle_timeouts and the completion keep what     *)
(* libusb promises: one callback for each accepted submission, reported as  *)
(* timed out or cancelled only with a reason.                               *)
THEOREM TransferImplementsPromise == Spec => ImplementsPromise
<1>1. Init => Promise!Init
  <2> SUFFICES ASSUME Init PROVE Promise!Init
    OBVIOUS
  <2>1. Active = {} /\ ActiveExpired = {} /\ told = {} /\ Report = "none"
    BY DEF Init, AllZero, Active, ActiveExpired, Report, Completing, Procs
  <2> QED
    BY <2>1 DEF Promise!Init, Active, ActiveExpired, Report, Completing
<1> QED
  BY <1>1, IInvInit, IInvStep, StepPromised, PTL DEF Spec, ImplementsPromise, Promise!Spec

=============================================================================
