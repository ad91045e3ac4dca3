------------------------------ MODULE DeviceProofs ------------------------------
(***************************************************************************)
(* Proofs about UvcContext and LibusbDevices: the devices of libuvc, for   *)
(* any devices, handles and references held, and below them the devices of *)
(* libusb, for any threads, device tree and bounds on what happens.        *)
(***************************************************************************)
EXTENDS UvcContext, LibusbDevices, ListLemmas, FiniteSetTheorems, FunctionTheorems,
        SequenceTheorems, TLAPS

-----------------------------------------------------------------------------
(* The list of open devices *)

(* Where a handle of the list stands                                        *)
LEMMA PositionOf ==
    ASSUME open_devices \in Seq(Handles), NEW h \in Opened
    PROVE  Position(h) \in 1..Len(open_devices) /\ open_devices[Position(h)] = h
<1>1. \E i \in 1..Len(open_devices) : open_devices[i] = h
  BY DEF Opened, ToSet
<1> QED
  BY <1>1 DEF Position

-----------------------------------------------------------------------------
(* The inductive invariant *)

(* The list holds a handle once, and the call in progress works on a handle *)
(* of the list.                                                             *)
ListInv ==
    /\ IsInjective(open_devices)
    /\ appPc \in {"stop", "close", "join", "unlink"} => appH \in Opened
    /\ appPc = "walk" => nextH \in Opened \cup {NoHandle}

(* uvc_open starts the event thread for the first device; uvc_close joins   *)
(* it for the last one before the handle leaves the list.  The thread ends   *)
(* only when it has been told to.                                           *)
HandlerInv ==
    /\ appPc \notin {"join", "unlink"} =>
           (handler # "none" <=> own_usb_ctx = 1 /\ open_devices # <<>>)
    /\ appPc = "join" => IsLast(appH) /\ handler # "none"
    /\ appPc = "unlink" => (handler # "none" <=> own_usb_ctx = 1 /\ ~IsLast(appH))
    /\ kill = 0 => handler # "exited"

(* The libusb handle is closed just before its handle leaves the list, and  *)
(* the stream is over before that, unless it is uvc_break that closes it.    *)
StreamInv ==
    /\ usb = Opened \ (IF appPc \in {"join", "unlink"} THEN {appH} ELSE {})
    /\ \A h \in Handles : stream[h] = "stopping" => appPc = "stop" /\ appH = h
    /\ appPc = "close" => stream[appH] = "none" \/ appH \in broken
    /\ StreamsEndWithHandle

(* A walk of uvc_exit that began with at most one device has closed it when *)
(* it gets to the end.                                                      *)
ExitInv ==
    /\ appPc \in {"walk", "exit"} => appCall = "exit"
    /\ appPc # "idle" => ctx = "live"
    /\ appCall = "exit" /\ exitOpen <= 1 =>
           open_devices = IF appPc \in {"walk", "exit"} THEN <<>> ELSE <<appH>>
    /\ appPc = "idle" => appCall = "none"
    /\ ctx = "freed" /\ exitOpen <= 1 => open_devices = <<>>

(* Each open handle counts one reference on its device.                     *)
RefInv == IsFiniteSet(Opened) /\ RefCountExact

IInv == TypeOK /\ ListInv /\ HandlerInv /\ StreamInv /\ ExitInv /\ RefInv

LEMMA IInvInit == Init => IInv
<1> SUFFICES ASSUME Init PROVE IInv
  OBVIOUS
<1>1. Opened = {} /\ IsInjective(open_devices)
  BY DEF Init, Opened, ToSet, IsInjective
<1>2. TypeOK
  <2>1. ref \in [Devices -> Nat] /\ held \in [Devices -> 0..MaxHeld]
    BY ConstantsAssumption DEF ConstantsAssumption, Init
  <2>2. open_devices \in Seq(Handles) /\ exitOpen \in Nat
    BY DEF Init
  <2> QED
    BY <2>1, <2>2 DEF Init, TypeOK
<1>3. ListInv /\ HandlerInv /\ StreamInv /\ ExitInv
  BY <1>1 DEF Init, ListInv, HandlerInv, StreamInv, ExitInv, StreamsEndWithHandle
<1>4. RefInv
  <2>1. \A d \in Devices : {h \in Opened : dev[h] = d} = {}
    BY <1>1
  <2> QED
    BY <1>1, <2>1, FS_EmptySet DEF RefInv, RefCountExact, Init
<1> QED
  BY <1>2, <1>3, <1>4 DEF IInv

(* References change only where the list or the application's do.           *)
LEMMA RefKept == RefInv /\ UNCHANGED <<open_devices, ref, held, dev>> => RefInv'
  BY DEF RefInv, RefCountExact, Opened

(* A reference the application takes or gives back                          *)
LEMMA RefHeld ==
    ASSUME TypeOK, RefInv, UNCHANGED <<open_devices, dev>>, NEW d \in Devices,
           \/ /\ held[d] < MaxHeld
              /\ ref' = [ref EXCEPT ![d] = @ + 1] /\ held' = [held EXCEPT ![d] = @ + 1]
           \/ /\ held[d] > 0
              /\ ref' = [ref EXCEPT ![d] = @ - 1] /\ held' = [held EXCEPT ![d] = @ - 1]
    PROVE  /\ RefInv'
           /\ ref' \in [Devices -> Nat] /\ held' \in [Devices -> 0..MaxHeld]
<1> DEFINE Of(e) == {h \in Opened : dev[h] = e}
<1>1. \A e \in Devices : Cardinality(Of(e)) \in Nat
  BY FS_Subset, FS_CardinalityType DEF RefInv
<1>2. Opened' = Opened
  BY DEF Opened
<1>3. \A e \in Devices : ref[e] = held[e] + Cardinality(Of(e))
  BY DEF RefInv, RefCountExact
<1>4. \A e \in Devices : Of(e)' = Of(e)
  BY <1>2
<1> HIDE DEF Of
<1>5. \A e \in Devices : ref[e] \in Nat /\ held[e] \in 0..MaxHeld /\ MaxHeld \in Nat
  BY ConstantsAssumption DEF ConstantsAssumption, TypeOK
<1>6. ASSUME NEW e \in Devices
      PROVE  /\ ref'[e] = held'[e] + Cardinality(Of(e))
             /\ ref'[e] \in Nat /\ held'[e] \in 0..MaxHeld
  <2> DEFINE c == Cardinality(Of(e))
  <2>1. c \in Nat /\ ref[e] = held[e] + c
    BY <1>1, <1>3
  <2> HIDE DEF c
  <2>2. ref[e] \in Nat /\ held[e] \in 0..MaxHeld /\ MaxHeld \in Nat
    BY <1>5
  <2>3. CASE e # d
    <3>1. ref'[e] = ref[e] /\ held'[e] = held[e]
      BY <2>3 DEF TypeOK
    <3>2. ref'[e] = held'[e] + c /\ ref'[e] \in Nat /\ held'[e] \in 0..MaxHeld
      BY <2>1, <2>2, <3>1
    <3> QED
      BY <3>2 DEF c
  <2>4. CASE e = d
    <3>1. \/ held[e] < MaxHeld /\ ref'[e] = ref[e] + 1 /\ held'[e] = held[e] + 1
          \/ held[e] > 0 /\ ref'[e] = ref[e] - 1 /\ held'[e] = held[e] - 1
      BY <2>4 DEF TypeOK
    <3>2. ref'[e] = held'[e] + c /\ ref'[e] \in Nat /\ held'[e] \in 0..MaxHeld
      BY <2>1, <2>2, <3>1
    <3> QED
      BY <3>2 DEF c
  <2> QED
    BY <2>3, <2>4
<1>7. ref' \in [Devices -> Nat] /\ held' \in [Devices -> 0..MaxHeld]
  <2>1. DOMAIN ref' = Devices /\ DOMAIN held' = Devices
    BY DEF TypeOK
  <2>2. ref' = [e \in Devices |-> ref'[e]] /\ held' = [e \in Devices |-> held'[e]]
    BY DEF TypeOK
  <2> QED
    BY <1>6, <2>1, <2>2
<1>8. RefCountExact'
  BY <1>4, <1>6 DEF RefCountExact, Of
<1> QED
  BY <1>2, <1>7, <1>8 DEF RefInv

(* A handle that enters the list or leaves it moves one reference.          *)
LEMMA RefOpen ==
    ASSUME TypeOK, RefInv, NEW d \in Devices, NEW h \in Handles \ Opened,
           ref' = [ref EXCEPT ![d] = @ + 1], dev' = [dev EXCEPT ![h] = d],
           held' = held, Opened' = Opened \cup {h}
    PROVE  RefInv'
<1> DEFINE Of(e) == {g \in Opened : dev[g] = e}
<1>1. \A e \in Devices : IsFiniteSet(Of(e)) /\ Cardinality(Of(e)) \in Nat
  BY FS_Subset, FS_CardinalityType DEF RefInv
<1>2. \A e \in Devices : Of(e)' = IF e = d THEN Of(e) \cup {h} ELSE Of(e)
  BY DEF TypeOK
<1>3. \A e \in Devices : h \notin Of(e)
  OBVIOUS
<1>4. \A e \in Devices : ref[e] = held[e] + Cardinality(Of(e))
  BY DEF RefInv, RefCountExact
<1> HIDE DEF Of
<1>5. Cardinality(Of(d) \cup {h}) = Cardinality(Of(d)) + 1
  BY <1>1, <1>3, FS_AddElement
<1>6. ASSUME NEW e \in Devices PROVE ref'[e] = held'[e] + Cardinality(Of(e)')
  <2>1. held[e] \in Nat /\ ref[e] \in Nat
    BY ConstantsAssumption DEF ConstantsAssumption, TypeOK
  <2>2. CASE e = d
    <3> DEFINE c == Cardinality(Of(d))
    <3>1. c \in Nat /\ ref[e] = held[e] + c /\ Cardinality(Of(e)') = c + 1
      BY <1>1, <1>2, <1>4, <1>5, <2>2
    <3>2. ref'[e] = ref[e] + 1 /\ held'[e] = held[e]
      BY <2>2 DEF TypeOK
    <3> HIDE DEF c
    <3>3. ref'[e] = held'[e] + (c + 1)
      BY <2>1, <3>1, <3>2
    <3> QED
      BY <3>1, <3>3
  <2>3. CASE e # d
    BY <1>2, <1>4, <2>3 DEF TypeOK
  <2> QED
    BY <2>2, <2>3
<1>7. RefCountExact'
  BY <1>6 DEF RefCountExact, Of
<1>8. IsFiniteSet(Opened')
  BY FS_AddElement DEF RefInv
<1> QED
  BY <1>7, <1>8 DEF RefInv

LEMMA RefFree ==
    ASSUME TypeOK, RefInv, NEW h \in Opened, h \in Handles,
           ref' = [ref EXCEPT ![dev[h]] = @ - 1], UNCHANGED <<held, dev>>,
           Opened' = Opened \ {h}
    PROVE  RefInv' /\ ref' \in [Devices -> Nat]
<1> DEFINE Of(e) == {g \in Opened : dev[g] = e}
           d == dev[h]
<1>1. \A e \in Devices : IsFiniteSet(Of(e)) /\ Cardinality(Of(e)) \in Nat
  BY FS_Subset, FS_CardinalityType DEF RefInv
<1>2. \A e \in Devices : Of(e)' = IF e = d THEN Of(e) \ {h} ELSE Of(e)
  OBVIOUS
<1>3. d \in Devices /\ h \in Of(d)
  BY DEF TypeOK
<1>4. \A e \in Devices : ref[e] = held[e] + Cardinality(Of(e))
  BY DEF RefInv, RefCountExact
<1>5. ref' = [ref EXCEPT ![d] = @ - 1]
  OBVIOUS
<1> HIDE DEF Of, d
<1>6. Cardinality(Of(d) \ {h}) = Cardinality(Of(d)) - 1 /\ Cardinality(Of(d) \ {h}) \in Nat
  BY <1>1, <1>3, FS_RemoveElement, FS_CardinalityType
<1>7. ASSUME NEW e \in Devices
      PROVE  ref'[e] = held'[e] + Cardinality(Of(e)') /\ ref'[e] \in Nat
  <2>1. held[e] \in Nat /\ ref[e] \in Nat
    BY ConstantsAssumption DEF ConstantsAssumption, TypeOK
  <2>2. CASE e = d
    <3> DEFINE c == Cardinality(Of(d) \ {h})
    <3>1. c \in Nat /\ Cardinality(Of(e)') = c /\ ref[e] = held[e] + (c + 1)
      <4>1. Cardinality(Of(d)) \in Nat /\ c = Cardinality(Of(d)) - 1 /\ c \in Nat
        BY <1>1, <1>3, <1>6
      <4> HIDE DEF c
      <4>2. Cardinality(Of(d)) = c + 1
        BY <4>1
      <4>3. Cardinality(Of(e)') = c
        BY <1>2, <2>2 DEF c
      <4> QED
        BY <1>4, <2>2, <4>1, <4>2, <4>3
    <3>2. ref'[e] = ref[e] - 1 /\ held'[e] = held[e]
      BY <1>5, <2>2 DEF TypeOK
    <3> HIDE DEF c
    <3>3. ref'[e] = held'[e] + c /\ ref'[e] \in Nat
      BY <2>1, <3>1, <3>2
    <3> QED
      BY <3>1, <3>3
  <2>3. CASE e # d
    BY <1>2, <1>4, <1>5, <2>1, <2>3 DEF TypeOK
  <2> QED
    BY <2>2, <2>3
<1>8. RefCountExact'
  BY <1>7 DEF RefCountExact, Of
<1>9. IsFiniteSet(Opened')
  BY FS_RemoveElement DEF RefInv
<1>10. ref' \in [Devices -> Nat]
  BY <1>5, <1>7 DEF TypeOK
<1> QED
  BY <1>8, <1>9, <1>10 DEF RefInv

-----------------------------------------------------------------------------
(* Every step preserves it *)

(* Calls that complete at once and leave the list as it is                  *)
LEMMA SimpleCallStep ==
    ASSUME IInv,
           \/ \E own \in {0, 1} : UvcInit(own)
           \/ \E d \in Devices : FindDevice(d) \/ UnrefDevice(d)
           \/ \E h \in Handles : GetDevice(h) \/ StartStream(h)
    PROVE  IInv'
<1> USE DEF IInv
<1>0. Opened' = Opened
  BY DEF Opened, UvcInit, FindDevice, UnrefDevice, GetDevice, StartStream
<1>1. ASSUME NEW own \in {0, 1}, UvcInit(own) PROVE IInv'
  <2> USE <1>0, <1>1 DEF UvcInit, config, refVars, appVars
  <2>1. TypeOK'
    BY DEF TypeOK
  <2>2. ListInv' /\ HandlerInv' /\ StreamInv' /\ ExitInv'
    BY DEF ListInv, HandlerInv, StreamInv, ExitInv, StreamsEndWithHandle
  <2>3. RefInv'
    BY RefKept
  <2> QED
    BY <2>1, <2>2, <2>3
<1>2. ASSUME NEW d \in Devices, FindDevice(d) PROVE IInv'
  <2> USE <1>0, <1>2 DEF FindDevice, config, appVars
  <2>1. held[d] < MaxHeld /\ ref' = [ref EXCEPT ![d] = @ + 1]
        /\ held' = [held EXCEPT ![d] = @ + 1]
    <3>1. ref[d] = held[d] + Cardinality({h \in Opened : dev[h] = d})
      BY DEF RefInv, RefCountExact
    <3>2. Cardinality({h \in Opened : dev[h] = d}) \in Nat
      BY FS_Subset, FS_CardinalityType DEF RefInv
    <3>3. held[d] = 0
      BY <3>1, <3>2, ConstantsAssumption DEF ConstantsAssumption, TypeOK
    <3> QED
      BY <3>3, ConstantsAssumption DEF ConstantsAssumption, TypeOK
  <2>2. RefInv' /\ ref' \in [Devices -> Nat] /\ held' \in [Devices -> 0..MaxHeld]
    BY <2>1, RefHeld
  <2>3. TypeOK'
    BY <2>2 DEF TypeOK
  <2>4. ListInv' /\ HandlerInv' /\ StreamInv' /\ ExitInv'
    BY DEF ListInv, HandlerInv, StreamInv, ExitInv, StreamsEndWithHandle, IsLast
  <2> QED
    BY <2>2, <2>3, <2>4
<1>3. ASSUME NEW d \in Devices, UnrefDevice(d) PROVE IInv'
  <2> USE <1>0, <1>3 DEF UnrefDevice, config, appVars
  <2>1. RefInv' /\ ref' \in [Devices -> Nat] /\ held' \in [Devices -> 0..MaxHeld]
    BY RefHeld
  <2>2. TypeOK'
    BY <2>1 DEF TypeOK
  <2>3. ListInv' /\ HandlerInv' /\ StreamInv' /\ ExitInv'
    BY DEF ListInv, HandlerInv, StreamInv, ExitInv, StreamsEndWithHandle, IsLast
  <2> QED
    BY <2>1, <2>2, <2>3
<1>4. ASSUME NEW h \in Handles, GetDevice(h) PROVE IInv'
  <2> USE <1>0, <1>4 DEF GetDevice, config, appVars
  <2>1. dev[h] \in Devices
    BY DEF TypeOK
  <2>2. RefInv' /\ ref' \in [Devices -> Nat] /\ held' \in [Devices -> 0..MaxHeld]
    BY <2>1, RefHeld
  <2>3. TypeOK'
    BY <2>2 DEF TypeOK
  <2>4. ListInv' /\ HandlerInv' /\ StreamInv' /\ ExitInv'
    BY DEF ListInv, HandlerInv, StreamInv, ExitInv, StreamsEndWithHandle, IsLast
  <2> QED
    BY <2>2, <2>3, <2>4
<1>5. ASSUME NEW h \in Handles, StartStream(h) PROVE IInv'
  <2> USE <1>0, <1>5 DEF StartStream, Ready, config, refVars, appVars
  <2>1. TypeOK'
    BY DEF TypeOK
  <2>2. ListInv' /\ HandlerInv' /\ ExitInv'
    BY DEF ListInv, HandlerInv, ExitInv, IsLast
  <2>3. StreamInv'
    BY DEF StreamInv, StreamsEndWithHandle, TypeOK
  <2>4. RefInv'
    BY RefKept
  <2> QED
    BY <2>1, <2>2, <2>3, <2>4
<1> QED
  BY <1>1, <1>2, <1>3, <1>4, <1>5

(* uvc_open: the device joins the list and the first one gets a thread.     *)
LEMMA OpenStep ==
    ASSUME IInv, NEW h \in Handles, NEW d \in Devices, UvcOpen(h, d)
    PROVE  IInv'
<1> USE DEF IInv
<1>1. /\ open_devices' \in Seq(Handles) /\ open_devices' # <<>>
      /\ IsInjective(open_devices') /\ Opened' = Opened \cup {h}
  BY ListAppend DEF UvcOpen, Opened, TypeOK, ListInv
<1>2. RefInv'
  BY <1>1, RefOpen DEF UvcOpen
<1>3. TypeOK'
  <2>1. ref' \in [Devices -> Nat] /\ dev' \in [Handles -> Devices] /\ usb' \subseteq Handles
    BY DEF UvcOpen, TypeOK
  <2> QED
    BY <1>1, <2>1 DEF UvcOpen, TypeOK, config, appVars
<1>4. ListInv' /\ HandlerInv'
  BY <1>1 DEF UvcOpen, Ready, ListInv, HandlerInv, config, appVars
<1>5. StreamInv'
  BY <1>1 DEF UvcOpen, Ready, StreamInv, StreamsEndWithHandle, config, appVars
<1>6. ExitInv'
  BY DEF UvcOpen, Ready, ExitInv, config, appVars
<1> QED
  BY <1>2, <1>3, <1>4, <1>5, <1>6

(* A call begins to work on an open handle, whose stream it stops first.    *)
LEMMA WorkOnStep ==
    ASSUME IInv, NEW h \in Opened, NEW call \in {"stop", "close", "break", "exit"},
           appPc \in {"idle", "walk"}, ctx = "live",
           WorkOn(h, call),
           UNCHANGED <<ctx, own_usb_ctx, kill, open_devices, refVars, dev, usb, handler>>,
           nextH' \in {nextH, NoHandle},
           exitOpen' \in Nat,
           broken' = IF call = "break" /\ stream[h] = "running" THEN broken \cup {h} ELSE broken,
           (call = "exit" /\ exitOpen' <= 1) => open_devices = <<h>>
    PROVE  IInv'
<1> USE DEF IInv, refVars
<1>1. Opened' = Opened /\ h \in Handles
  <2>1. \A g \in Opened : g \in Handles
    BY DEF Opened, ToSet, TypeOK
  <2> QED
    BY <2>1 DEF Opened
<1>2. TypeOK'
  BY <1>1 DEF TypeOK, WorkOn
<1>3. appPc' \in {"stop", "close"} /\ appH' = h /\ appCall' = call
  BY DEF WorkOn
<1>4. ListInv' /\ HandlerInv'
  BY <1>1, <1>3 DEF ListInv, HandlerInv
<1>5. StreamInv'
  BY <1>1 DEF StreamInv, StreamsEndWithHandle, WorkOn, TypeOK
<1>6. ExitInv'
  BY <1>3 DEF ExitInv
<1>7. RefInv'
  BY RefKept
<1> QED
  BY <1>2, <1>4, <1>5, <1>6, <1>7

(* The calls that begin to work on a handle                                 *)
LEMMA LongCallStep ==
    ASSUME IInv,
           \/ \E h \in Handles : StopStreaming(h) \/ UvcClose(h) \/ UvcBreak(h)
           \/ UvcExit
    PROVE  IInv'
<1> USE DEF Ready, config
<1>1. TypeOK
  BY DEF IInv
<1>2. ASSUME NEW h \in Handles, StopStreaming(h) \/ UvcClose(h) \/ UvcBreak(h)
      PROVE  IInv'
  <2>1. /\ h \in Opened /\ appPc = "idle" /\ ctx = "live" /\ exitOpen' \in Nat
        /\ UNCHANGED nextH
    BY <1>1, <1>2 DEF StopStreaming, UvcClose, UvcBreak, TypeOK
  <2>2. PICK call \in {"stop", "close", "break"} :
           /\ WorkOn(h, call)
           /\ broken' = IF call = "break" /\ stream[h] = "running" THEN broken \cup {h}
                        ELSE broken
    BY <1>2 DEF StopStreaming, UvcClose, UvcBreak
  <2>3. UNCHANGED <<ctx, own_usb_ctx, kill, open_devices, refVars, dev, usb, handler>>
    BY <1>2 DEF StopStreaming, UvcClose, UvcBreak
  <2> QED
    BY <2>1, <2>2, <2>3, WorkOnStep
<1>3. ASSUME UvcExit PROVE IInv'
  <2>1. appPc = "idle" /\ ctx = "live" /\ exitOpen' = Len(open_devices)
        /\ UNCHANGED <<ctx, own_usb_ctx, broken, kill, open_devices, refVars, dev, usb,
                       nextH, handler>>
    BY <1>3 DEF UvcExit
  <2>2. CASE open_devices = <<>>
    <3>1. appCall' = "exit" /\ appPc' = "exit" /\ UNCHANGED <<appH, stream>>
      BY <1>3, <2>2 DEF UvcExit
    <3>2. Opened' = Opened /\ exitOpen' = 0
      BY <2>1, <2>2 DEF Opened
    <3>3. TypeOK'
      BY <1>1, <2>1, <3>1, <3>2 DEF TypeOK, refVars
    <3>4. ListInv' /\ HandlerInv' /\ StreamInv' /\ ExitInv'
      BY <2>1, <2>2, <3>1, <3>2
         DEF IInv, ListInv, HandlerInv, StreamInv, ExitInv, StreamsEndWithHandle
    <3>5. RefInv'
      BY <2>1, RefKept DEF IInv, refVars
    <3> QED
      BY <3>3, <3>4, <3>5 DEF IInv
  <2>3. CASE open_devices # <<>>
    <3>1. Len(open_devices) \in Nat \ {0} /\ DOMAIN open_devices = 1..Len(open_devices)
      BY <1>1, <2>3, EmptySeq, LenProperties DEF TypeOK
    <3>2. Head(open_devices) = open_devices[1]
      OBVIOUS
    <3>3. Head(open_devices) \in Opened
      BY <3>1, <3>2 DEF Opened, ToSet
    <3>4. exitOpen' <= 1 => open_devices = <<Head(open_devices)>>
      BY <1>1, <2>1, <3>1, <3>2 DEF TypeOK
    <3>5. WorkOn(Head(open_devices), "exit")
      BY <1>3, <2>3 DEF UvcExit
    <3>6. exitOpen' \in Nat
      BY <2>1, <3>1
    <3> HIDE DEF Ready
    <3> QED
      BY <2>1, <3>3, <3>4, <3>5, <3>6, WorkOnStep
  <2> QED
    BY <2>2, <2>3
<1> QED
  BY <1>2, <1>3

(* The steps of a call that has begun                                       *)
LEMMA InCallStep == ASSUME IInv, InCall PROVE IInv'
<1> USE DEF IInv
<1>1. ASSUME StreamStopped PROVE IInv'
  <2> USE <1>1 DEF StreamStopped, Return, config, refVars
  <2>1. Opened' = Opened
    BY DEF Opened
  <2>2. TypeOK'
    BY DEF TypeOK
  <2>3. ListInv' /\ HandlerInv' /\ ExitInv'
    BY <2>1 DEF ListInv, HandlerInv, ExitInv
  <2>4. StreamInv'
    BY <2>1 DEF StreamInv, StreamsEndWithHandle
  <2>5. RefInv'
    BY RefKept
  <2> QED
    BY <2>2, <2>3, <2>4, <2>5
<1>2. ASSUME CloseUsb PROVE IInv'
  <2> USE <1>2 DEF CloseUsb, config, refVars
  <2>1. Opened' = Opened /\ appH \in Opened /\ open_devices # <<>>
    BY DEF Opened, ListInv, ToSet
  <2>2. TypeOK'
    BY DEF TypeOK
  <2>3. ListInv' /\ HandlerInv' /\ ExitInv'
    BY <2>1 DEF ListInv, HandlerInv, ExitInv, IsLast
  <2>4. StreamInv'
    BY <2>1 DEF StreamInv, StreamsEndWithHandle
  <2>5. RefInv'
    BY RefKept
  <2> QED
    BY <2>2, <2>3, <2>4, <2>5
<1>3. ASSUME JoinHandler PROVE IInv'
  <2> USE <1>3 DEF JoinHandler, config, refVars
  <2>1. Opened' = Opened
    BY DEF Opened
  <2>2. TypeOK'
    BY DEF TypeOK
  <2>3. ListInv' /\ HandlerInv' /\ ExitInv'
    BY <2>1 DEF ListInv, HandlerInv, ExitInv, IsLast
  <2>4. StreamInv'
    BY <2>1 DEF StreamInv, StreamsEndWithHandle
  <2>5. RefInv'
    BY RefKept
  <2> QED
    BY <2>2, <2>3, <2>4, <2>5
<1>4. ASSUME FreeHandle PROVE IInv'
  <2>1. appH \in Opened /\ open_devices \in Seq(Handles) /\ IsInjective(open_devices)
    BY <1>4 DEF FreeHandle, ListInv, TypeOK
  <2> DEFINE p == Position(appH)
  <2>2. p \in 1..Len(open_devices) /\ open_devices[p] = appH
    BY <2>1, PositionOf
  <2>3. appH \in Handles
    BY <2>1, <2>2
  <2>4. /\ open_devices' \in Seq(Handles) /\ IsInjective(open_devices')
        /\ Len(open_devices') = Len(open_devices) - 1
        /\ Opened' = Opened \ {appH}
    <3>1. open_devices' = RemoveAt(open_devices, p)
      BY <1>4 DEF FreeHandle
    <3> HIDE DEF p
    <3> QED
      BY <2>1, <2>2, <3>1, ListRemove DEF Opened
  <2>5. open_devices' = <<>> <=> open_devices = <<appH>>
    <3>1. ASSUME open_devices' = <<>> PROVE open_devices = <<appH>>
      <4>1. Len(open_devices) = 1
        BY <2>1, <2>4, <3>1
      <4>2. open_devices[1] = appH
        BY <2>2, <4>1
      <4> QED
        BY <2>1, <4>1, <4>2
    <3>2. ASSUME open_devices = <<appH>> PROVE open_devices' = <<>>
      <4>1. Len(open_devices') = 0
        BY <2>4, <3>2
      <4> QED
        BY <2>4, <4>1
    <3> QED
      BY <3>1, <3>2
  <2>6. nextH' \in Handles \cup {NoHandle}
        /\ (appPc' = "walk" => nextH' \in Opened' \cup {NoHandle})
    <3>1. CASE nextH' = NoHandle
      BY <3>1
    <3>2. CASE nextH' = Successor(appH) /\ nextH' # NoHandle
      <4>1. p + 1 \in 1..Len(open_devices) /\ nextH' = open_devices[p + 1]
        BY <2>1, <2>2, <3>2 DEF Successor
      <4>2. nextH' \in Handles
        BY <2>1, <4>1
      <4>3. DOMAIN open_devices = 1..Len(open_devices)
        BY <2>1, LenProperties
      <4>4. nextH' # appH
        BY <2>1, <2>2, <4>1, <4>3 DEF IsInjective
      <4>5. nextH' \in Opened
        BY <4>1, <4>3 DEF Opened, ToSet
      <4> QED
        BY <2>4, <4>2, <4>4, <4>5
    <3>3. CASE appPc' # "walk" /\ nextH' = nextH
      BY <3>3 DEF TypeOK
    <3> QED
      BY <1>4, <3>1, <3>2, <3>3 DEF FreeHandle, Return
  <2>7. RefInv' /\ ref' \in [Devices -> Nat]
    BY <1>4, <2>1, <2>3, <2>4, RefFree DEF FreeHandle
  <2> HIDE DEF p
  <2> USE <1>4 DEF FreeHandle, Return, config
  <2>8. TypeOK'
    BY <2>4, <2>6, <2>7 DEF TypeOK
  <2>9. ListInv'
    BY <2>4, <2>6 DEF ListInv
  <2>10. HandlerInv'
    BY <2>5 DEF HandlerInv, IsLast
  <2>11. StreamInv'
    BY <2>4 DEF StreamInv, StreamsEndWithHandle
  <2>12. ExitInv'
    BY <2>5 DEF ExitInv
  <2> QED
    BY <2>7, <2>8, <2>9, <2>10, <2>11, <2>12
<1>5. ASSUME ExitNext PROVE IInv'
  <2>1. CASE nextH = NoHandle
    <3> USE <1>5, <2>1 DEF ExitNext, config, refVars
    <3>1. Opened' = Opened
      BY DEF Opened
    <3>2. TypeOK'
      BY DEF TypeOK
    <3>3. ListInv' /\ HandlerInv' /\ ExitInv'
      BY <3>1 DEF ListInv, HandlerInv, ExitInv
    <3>4. StreamInv'
      BY <3>1 DEF StreamInv, StreamsEndWithHandle
    <3>5. RefInv'
      BY RefKept
    <3> QED
      BY <3>2, <3>3, <3>4, <3>5
  <2>2. CASE nextH # NoHandle
    <3>1. nextH \in Opened /\ WorkOn(nextH, "exit") /\ appPc = "walk"
      BY <1>5, <2>2 DEF ExitNext, ListInv
    <3>2. ctx = "live" /\ appCall = "exit"
      BY <3>1 DEF ExitInv
    <3>3. exitOpen' \in Nat /\ exitOpen' = exitOpen
      BY <1>5 DEF ExitNext, TypeOK, config
    <3>4. ~(exitOpen <= 1)
      BY <3>1, <3>2 DEF ExitInv, Opened, ToSet
    <3>5. UNCHANGED <<ctx, own_usb_ctx, kill, open_devices, refVars, dev, usb, handler>>
          /\ nextH' = NoHandle /\ broken' = broken
      BY <1>5, <2>2 DEF ExitNext, config
    <3> HIDE DEF IInv
    <3> QED
      BY <3>1, <3>2, <3>3, <3>4, <3>5, WorkOnStep
  <2> QED
    BY <2>1, <2>2
<1>6. ASSUME FreeContext PROVE IInv'
  <2> USE <1>6 DEF FreeContext, Return, config, refVars
  <2>1. Opened' = Opened
    BY DEF Opened
  <2>2. TypeOK'
    BY DEF TypeOK
  <2>3. ListInv' /\ HandlerInv' /\ ExitInv'
    BY <2>1 DEF ListInv, HandlerInv, ExitInv
  <2>4. StreamInv'
    BY <2>1 DEF StreamInv, StreamsEndWithHandle
  <2>5. RefInv'
    BY RefKept
  <2> QED
    BY <2>2, <2>3, <2>4, <2>5
<1> QED
  BY <1>1, <1>2, <1>3, <1>4, <1>5, <1>6 DEF InCall

(* The event thread, and the callbacks that end a stream                    *)
LEMMA HandlerStep == ASSUME IInv, Handler \/ Drain PROVE IInv'
<1> USE DEF IInv, config, refVars, appVars
<1>1. Opened' = Opened
  BY DEF Opened, Handler, HandlerCheck, HandlerReturns, Drain, DrainStream
<1>2. ASSUME Handler PROVE IInv'
  <2> USE <1>2 DEF Handler, HandlerCheck, HandlerReturns
  <2>1. TypeOK'
    BY DEF TypeOK
  <2>2. ListInv' /\ HandlerInv' /\ ExitInv'
    BY <1>1 DEF ListInv, HandlerInv, ExitInv, IsLast
  <2>3. StreamInv'
    BY <1>1 DEF StreamInv, StreamsEndWithHandle
  <2>4. RefInv'
    BY RefKept
  <2> QED
    BY <2>1, <2>2, <2>3, <2>4
<1>3. ASSUME NEW h \in Handles, DrainStream(h) PROVE IInv'
  <2> USE <1>3 DEF DrainStream
  <2>1. TypeOK'
    BY DEF TypeOK
  <2>2. ListInv' /\ HandlerInv' /\ ExitInv'
    BY <1>1 DEF ListInv, HandlerInv, ExitInv, IsLast
  <2>3. StreamInv'
    BY <1>1 DEF StreamInv, StreamsEndWithHandle, TypeOK
  <2>4. RefInv'
    BY RefKept
  <2> QED
    BY <2>1, <2>2, <2>3, <2>4
<1> QED
  BY <1>2, <1>3 DEF Drain

LEMMA IInvStep == ASSUME IInv, [Next]_vars PROVE IInv'
<1>1. CASE UNCHANGED vars
  <2>1. UNCHANGED <<ctx, own_usb_ctx, kill, open_devices, ref, held, dev, usb, stream,
                    appPc, appCall, appH, nextH, exitOpen, broken, handler>>
    BY <1>1 DEF vars, config, refVars, appVars
  <2> QED
    BY <2>1 DEF IInv, TypeOK, ListInv, HandlerInv, StreamInv, ExitInv, RefInv,
                RefCountExact, StreamsEndWithHandle, IsLast, Opened
<1>2. CASE Call
  BY <1>2, SimpleCallStep, OpenStep, LongCallStep DEF Call
<1>3. CASE InCall \/ Handler \/ Drain
  BY <1>3, InCallStep, HandlerStep
<1> QED
  BY <1>1, <1>2, <1>3 DEF Next

-----------------------------------------------------------------------------
(* Theorems *)

(* For any devices and handles: while a device is open in a context of our  *)
(* own there is one thread for its events, which runs unless a close has    *)
(* told the thread of this context to end, between calls none is left       *)
(* without a device, and nothing streams on a closed handle but what        *)
(* uvc_break left running.                                                  *)
THEOREM ContextSafe == Spec => []ContextSound
<1>1. Init => IInv
  BY IInvInit
<1>2. IInv /\ [Next]_vars => IInv'
  BY IInvStep
<1>3. IInv => ContextSound
  BY DEF IInv, ContextSound, HandlerInv, HandlerWithDevices, StreamInv
<1> QED
  BY <1>1, <1>2, <1>3, PTL DEF Spec

(* A device object is freed exactly when neither an open handle nor the     *)
(* application refers to it.                                                *)
THEOREM ReferencesExact == Spec => []RefCountExact
<1>1. Init => IInv
  BY IInvInit
<1>2. IInv /\ [Next]_vars => IInv'
  BY IInvStep
<1>3. IInv => RefCountExact
  BY DEF IInv, RefInv
<1> QED
  BY <1>1, <1>2, <1>3, PTL DEF Spec

(* uvc_exit with at most one device open leaves no device open, no libusb   *)
(* handle and no event thread.                                              *)
THEOREM ExitSafe == Spec => []ExitClosesAll
<1>1. Init => IInv
  BY IInvInit
<1>2. IInv /\ [Next]_vars => IInv'
  BY IInvStep
<1>3. IInv => ExitClosesAll
  <2> SUFFICES ASSUME IInv, ctx = "freed", exitOpen <= 1
               PROVE  open_devices = <<>> /\ usb = {} /\ handler = "none"
    BY DEF ExitClosesAll
  <2>1. appPc = "idle" /\ open_devices = <<>>
    BY DEF IInv, ExitInv
  <2>2. Opened = {}
    BY <2>1 DEF Opened, ToSet
  <2> QED
    BY <2>1, <2>2 DEF IInv, HandlerInv, StreamInv
<1> QED
  BY <1>1, <1>2, <1>3, PTL DEF Spec

-----------------------------------------------------------------------------
(* Counting *)

(* The sum of a function over a finite set is a number that changes by as   *)
(* much as the value in one place.                                          *)
LEMMA TotalType ==
    ASSUME NEW S, IsFiniteSet(S), NEW f \in [S -> Nat]
    PROVE  /\ IsFiniteSet(UNION {{x} \X (1 .. f[x]) : x \in S})
           /\ Total(f) \in Nat
<1> DEFINE of == [x \in S |-> {x} \X (1 .. f[x])]
           sets == {{x} \X (1 .. f[x]) : x \in S}
<1>1. of \in Surjection(S, sets)
  <2>1. of \in [S -> sets]
    OBVIOUS
  <2>2. \A T \in sets : \E x \in S : of[x] = T
    OBVIOUS
  <2> QED
    BY <2>1, <2>2 DEF Surjection
<1>2. IsFiniteSet(sets)
  BY <1>1, FS_Surjection
<1>3. \A T \in sets : IsFiniteSet(T)
  <2>1. SUFFICES ASSUME NEW x \in S PROVE IsFiniteSet({x} \X (1 .. f[x]))
    OBVIOUS
  <2>2. f[x] \in Int /\ 1 \in Int
    OBVIOUS
  <2>3. IsFiniteSet({x}) /\ IsFiniteSet(1 .. f[x])
    BY <2>2, FS_Singleton, FS_Interval
  <2> QED
    BY <2>3, FS_Product
<1>4. IsFiniteSet(UNION sets)
  BY <1>2, <1>3, FS_UNION
<1>5. DOMAIN f = S
  OBVIOUS
<1> QED
  BY <1>4, <1>5, FS_CardinalityType DEF Total

LEMMA TotalSplit ==
    ASSUME NEW S, IsFiniteSet(S), NEW f \in [S -> Nat], NEW t \in S
    PROVE  Total(f) = Total([f EXCEPT ![t] = 0]) + f[t]
<1> DEFINE g == [f EXCEPT ![t] = 0]
           rest == UNION {{x} \X (1 .. g[x]) : x \in S}
           own == {t} \X (1 .. f[t])
<1>0. DOMAIN f = S /\ DOMAIN g = S /\ g \in [S -> Nat] /\ f[t] \in Nat
  OBVIOUS
<1>1. IsFiniteSet(rest)
  BY <1>0, TotalType
<1>2. IsFiniteSet(own) /\ Cardinality(own) = f[t]
  <2>1. IsFiniteSet({t}) /\ Cardinality({t}) = 1
    BY FS_Singleton
  <2>2. 1 \in Int /\ f[t] \in Int
    BY <1>0
  <2>3. IsFiniteSet(1 .. f[t]) /\ Cardinality(1 .. f[t]) = f[t]
    BY <1>0, <2>2, FS_Interval
  <2>4. IsFiniteSet({t} \X (1 .. f[t])) /\ Cardinality({t} \X (1 .. f[t])) = 1 * f[t]
    BY <2>1, <2>3, FS_Product
  <2>5. 1 * f[t] = f[t]
    BY <1>0
  <2> QED
    BY <2>4, <2>5
<1>3. UNION {{x} \X (1 .. f[x]) : x \in S} = rest \cup own
  <2>1. \A x \in S \ {t} : g[x] = f[x]
    OBVIOUS
  <2>2. {t} \X (1 .. g[t]) = {}
    OBVIOUS
  <2>3. ASSUME NEW p \in UNION {{x} \X (1 .. f[x]) : x \in S} PROVE p \in rest \cup own
    <3>1. PICK x \in S : p \in {x} \X (1 .. f[x])
      OBVIOUS
    <3> QED
      BY <2>1, <3>1
  <2>4. ASSUME NEW p \in rest PROVE p \in UNION {{x} \X (1 .. f[x]) : x \in S}
    <3>1. PICK x \in S : p \in {x} \X (1 .. g[x])
      OBVIOUS
    <3> QED
      BY <2>1, <2>2, <3>1
  <2> QED
    BY <2>3, <2>4
<1>4. rest \cap own = {}
  <2>1. SUFFICES ASSUME NEW p, p \in rest, p \in own PROVE FALSE
    OBVIOUS
  <2>2. PICK x \in S : p \in {x} \X (1 .. g[x])
    BY <2>1
  <2>3. x = t
    BY <2>1, <2>2
  <2> QED
    BY <2>2, <2>3
<1>5. Cardinality(rest \cup own) = Cardinality(rest) + Cardinality(own) - Cardinality({})
  BY <1>1, <1>2, <1>4, FS_Union
<1>6. Cardinality({}) = 0 /\ Cardinality(rest) \in Nat
  BY <1>1, FS_EmptySet, FS_CardinalityType
<1>7. Total(f) = Cardinality(rest \cup own) /\ Total(g) = Cardinality(rest)
  BY <1>0, <1>3 DEF Total
<1> HIDE DEF rest, own, g
<1>8. Total(f) = Total(g) + f[t]
  BY <1>0, <1>2, <1>5, <1>6, <1>7
<1> QED
  BY <1>8 DEF g

LEMMA TotalChange ==
    ASSUME NEW S, IsFiniteSet(S), NEW f \in [S -> Nat], NEW g \in [S -> Nat], NEW t \in S,
           \A x \in S \ {t} : f[x] = g[x]
    PROVE  /\ Total(f) \in Nat /\ Total(g) \in Nat
           /\ Total(g) = Total(f) - f[t] + g[t]
           /\ f[t] <= Total(f)
<1>1. [f EXCEPT ![t] = 0] = [g EXCEPT ![t] = 0]
  OBVIOUS
<1>2. /\ Total(f) = Total([f EXCEPT ![t] = 0]) + f[t]
      /\ Total(g) = Total([g EXCEPT ![t] = 0]) + g[t]
  BY TotalSplit
<1>3. [f EXCEPT ![t] = 0] \in [S -> Nat]
  OBVIOUS
<1>4. Total([f EXCEPT ![t] = 0]) \in Nat /\ Total(f) \in Nat /\ Total(g) \in Nat
  BY <1>3, TotalType
<1>5. f[t] \in Nat /\ g[t] \in Nat
  OBVIOUS
<1> QED
  BY <1>1, <1>2, <1>4, <1>5

(* A sum is 0 exactly if all values are.                                    *)
LEMMA TotalZero ==
    ASSUME NEW S, IsFiniteSet(S), NEW f \in [S -> Nat], \A x \in S : f[x] = 0
    PROVE  Total(f) = 0
<1>1. UNION {{x} \X (1 .. f[x]) : x \in S} = {}
  OBVIOUS
<1>2. DOMAIN f = S
  OBVIOUS
<1> QED
  BY <1>1, <1>2, FS_EmptySet DEF Total

LEMMA TotalPositive ==
    ASSUME NEW S, IsFiniteSet(S), NEW f \in [S -> Nat], Total(f) > 0
    PROVE  \E x \in S : f[x] > 0
<1>1. SUFFICES ASSUME \A x \in S : ~(f[x] > 0) PROVE FALSE
  OBVIOUS
<1>2. \A x \in S : f[x] = 0
  BY <1>1
<1>3. Total(f) = 0
  BY <1>2, TotalZero
<1> QED
  BY <1>3

(* The occurrences of an element in a list                                  *)
LEMMA CountType ==
    ASSUME NEW S, NEW s \in Seq(S), NEW x
    PROVE  /\ IsFiniteSet({i \in DOMAIN s : s[i] = x})
           /\ Count(s, x) \in Nat
           /\ Count(s, x) > 0 <=> \E i \in DOMAIN s : s[i] = x
<1> DEFINE at == {i \in DOMAIN s : s[i] = x}
<1>1. DOMAIN s = 1 .. Len(s) /\ Len(s) \in Nat
  OBVIOUS
<1>2. 1 \in Int /\ Len(s) \in Int
  BY <1>1
<1>3. IsFiniteSet(1 .. Len(s))
  BY <1>2, FS_Interval
<1>4. at \in SUBSET (1 .. Len(s))
  BY <1>1
<1>5. IsFiniteSet(at)
  BY <1>3, <1>4, FS_Subset
<1>6. Cardinality(at) \in Nat /\ (Cardinality(at) = 0 <=> at = {})
  BY <1>5, FS_CardinalityType, FS_EmptySet
<1>7. Count(s, x) = Cardinality(at)
  BY DEF Count
<1> HIDE DEF at
<1>8. at # {} <=> \E i \in DOMAIN s : s[i] = x
  BY DEF at
<1> QED
  BY <1>5, <1>6, <1>7, <1>8 DEF at

LEMMA CountEmpty == ASSUME NEW x PROVE Count(<<>>, x) = 0
<1>1. {i \in DOMAIN <<>> : <<>>[i] = x} = {}
  OBVIOUS
<1> QED
  BY <1>1, FS_EmptySet DEF Count

LEMMA CountConcat ==
    ASSUME NEW S, NEW s \in Seq(S), NEW r \in Seq(S), NEW x
    PROVE  Count(s \o r, x) = Count(s, x) + Count(r, x)
<1> DEFINE n == Len(s)
           first == {i \in 1 .. n : s[i] = x}
           last == {i \in 1 .. Len(r) : r[i] = x}
           moved == {i \in (n + 1) .. (n + Len(r)) : r[i - n] = x}
           shift == [i \in last |-> i + n]
<1>1. n \in Nat /\ Len(r) \in Nat /\ DOMAIN s = 1 .. n /\ DOMAIN r = 1 .. Len(r)
  OBVIOUS
<1>2. /\ s \o r \in Seq(S) /\ Len(s \o r) = n + Len(r)
      /\ \A i \in 1 .. (n + Len(r)) : (s \o r)[i] = IF i <= n THEN s[i] ELSE r[i - n]
  BY ConcatProperties
<1>3. DOMAIN (s \o r) = 1 .. (n + Len(r))
  BY <1>2
<1>4. {i \in DOMAIN (s \o r) : (s \o r)[i] = x} = first \cup moved
  <2>1. ASSUME NEW i \in 1 .. (n + Len(r)), (s \o r)[i] = x PROVE i \in first \cup moved
    BY <1>1, <1>2, <2>1
  <2>2. ASSUME NEW i \in first \cup moved
        PROVE  i \in 1 .. (n + Len(r)) /\ (s \o r)[i] = x
    BY <1>1, <1>2
  <2> QED
    BY <1>3, <2>1, <2>2
<1>5. first \cap moved = {}
  BY <1>1
<1>6. IsFiniteSet(first) /\ IsFiniteSet(last)
  BY <1>1, CountType
<1>7. shift \in Bijection(last, moved)
  <2>1. shift \in [last -> moved]
    BY <1>1
  <2>2. \A i, j \in last : shift[i] = shift[j] => i = j
    BY <1>1
  <2>3. \A j \in moved : \E i \in last : shift[i] = j
    <3>1. TAKE j \in moved
    <3>2. j - n \in last /\ (j - n) + n = j
      BY <1>1
    <3> QED
      BY <3>2
  <2> HIDE DEF shift, last, moved
  <2>4. shift \in Injection(last, moved)
    BY <2>1, <2>2 DEF Injection, IsInjective
  <2>5. shift \in Surjection(last, moved)
    BY <2>1, <2>3 DEF Surjection
  <2> QED
    BY <2>4, <2>5 DEF Bijection
<1>8. IsFiniteSet(moved) /\ Cardinality(moved) = Cardinality(last)
  BY <1>6, <1>7, FS_Bijection DEF ExistsBijection
<1> HIDE DEF first, last, moved
<1>9. Cardinality(first \cup moved) = Cardinality(first) + Cardinality(moved) - Cardinality({})
  BY <1>5, <1>6, <1>8, FS_Union
<1>10. /\ Cardinality({}) = 0 /\ Cardinality(first) \in Nat /\ Cardinality(moved) \in Nat
  BY <1>6, <1>8, FS_EmptySet, FS_CardinalityType
<1>11. /\ Count(s \o r, x) = Cardinality(first \cup moved)
       /\ Count(s, x) = Cardinality(first) /\ Count(r, x) = Cardinality(last)
  BY <1>1, <1>4 DEF Count, first, last
<1> QED
  BY <1>8, <1>9, <1>10, <1>11

LEMMA CountOne == ASSUME NEW y, NEW x PROVE Count(<<y>>, x) = IF x = y THEN 1 ELSE 0
<1>1. DOMAIN <<y>> = {1} /\ <<y>>[1] = y
  OBVIOUS
<1>2. CASE x = y
  <2>1. {i \in DOMAIN <<y>> : <<y>>[i] = x} = {1}
    BY <1>1, <1>2
  <2> QED
    BY <1>2, <2>1, FS_Singleton DEF Count
<1>3. CASE x # y
  <2>1. {i \in DOMAIN <<y>> : <<y>>[i] = x} = {}
    BY <1>1, <1>3
  <2> QED
    BY <1>3, <2>1, FS_EmptySet DEF Count
<1> QED
  BY <1>2, <1>3

LEMMA CountAppend ==
    ASSUME NEW S, NEW s \in Seq(S), NEW y \in S, NEW x
    PROVE  Count(Append(s, y), x) = Count(s, x) + IF x = y THEN 1 ELSE 0
<1>1. Append(s, y) = s \o <<y>> /\ <<y>> \in Seq(S)
  OBVIOUS
<1>2. Count(s \o <<y>>, x) = Count(s, x) + Count(<<y>>, x)
  BY <1>1, CountConcat
<1> QED
  BY <1>1, <1>2, CountOne

LEMMA CountTail ==
    ASSUME NEW S, NEW s \in Seq(S), s # <<>>, NEW x
    PROVE  /\ Head(s) \in S /\ Tail(s) \in Seq(S)
           /\ Count(s, x) = (IF x = Head(s) THEN 1 ELSE 0) + Count(Tail(s), x)
<1>1. Head(s) \in S /\ Tail(s) \in Seq(S) /\ <<Head(s)>> \in Seq(S)
  OBVIOUS
<1>2. s = <<Head(s)>> \o Tail(s)
  OBVIOUS
<1>3. Count(<<Head(s)>> \o Tail(s), x) = Count(<<Head(s)>>, x) + Count(Tail(s), x)
  BY <1>1, CountConcat
<1>4. Count(<<Head(s)>>, x) = IF x = Head(s) THEN 1 ELSE 0
  BY CountOne
<1> QED
  BY <1>1, <1>2, <1>3, <1>4

(* A list of devices that is released                                       *)
LEMMA CountUnrefs ==
    ASSUME NEW s \in Seq(Devs), NEW d
    PROVE  /\ Unrefs(s) \in Seq({"unref", "free"} \X Devs)
           /\ Count(Unrefs(s), <<"unref", d>>) = Count(s, d)
           /\ Count(Unrefs(s), <<"free", d>>) = 0
<1> DEFINE r == Unrefs(s)
<1>1. /\ DOMAIN r = DOMAIN s /\ DOMAIN s = 1 .. Len(s) /\ Len(s) \in Nat
      /\ \A i \in DOMAIN s : r[i] = <<"unref", s[i]>> /\ s[i] \in Devs
  BY DEF Unrefs
<1>2. r \in Seq({"unref", "free"} \X Devs)
  <2>1. r = [i \in 1 .. Len(s) |-> r[i]]
    BY <1>1 DEF Unrefs
  <2> HIDE DEF r
  <2>2. \A i \in 1 .. Len(s) : r[i] \in {"unref", "free"} \X Devs
    BY <1>1
  <2> QED
    BY <1>1, <2>1, <2>2, IsASeq
<1> HIDE DEF r
<1>3. {i \in DOMAIN r : r[i] = <<"unref", d>>} = {i \in DOMAIN s : s[i] = d}
  BY <1>1
<1>4. {i \in DOMAIN r : r[i] = <<"free", d>>} = {}
  BY <1>1
<1>5. Count(r, <<"unref", d>>) = Count(s, d) /\ Count(r, <<"free", d>>) = 0
  BY <1>3, <1>4, FS_EmptySet DEF Count
<1> QED
  BY <1>2, <1>5 DEF r


-----------------------------------------------------------------------------
(* The inductive invariant.                                                *)

DeviceFields == {"life", "place", "id", "refs", "listed", "attached", "parent", "bus", "depth",
                 "api", "ready", "ifaces"}
ScanFields == {"pass", "want", "seen", "todo", "parent", "dev", "unref", "found", "ret"}
Tokens == {"unref", "free"} \X Devs

\* The parts of the state that the argument is about have their types.
DeviceTyped(r) ==
    /\ r.life \in {"unused", "live", "gone"}
    /\ r.life = "unused" => r = Unused
    /\ r.life = "live" => /\ r = [x \in DeviceFields |-> r[x]]
                          /\ r.refs \in Nat /\ r.parent \in 0 .. MaxDevs
                          /\ r.listed \in BOOLEAN
ScanTyped(s) ==
    s = NoScan \/ /\ s = [x \in ScanFields |-> s[x]]
                  /\ s.pass \in {"hub", "dev", "hcd", "gen", "ext", "end"}
                  /\ s.parent \in 0 .. MaxDevs /\ s.dev \in {-1} \cup 0 .. MaxDevs
                  /\ s.unref \in Seq(Devs) /\ s.found \in Seq(Devs)
StateTyped ==
    /\ devs = [d \in Devs |-> devs[d]] /\ \A d \in Devs : DeviceTyped(devs[d])
    /\ scan = [t \in Users |-> scan[t]] /\ \A t \in Users : ScanTyped(scan[t])
    /\ work \in [Users -> Seq(Tokens)]
    /\ lists \in [Users -> Seq(Devs)] /\ handles \in [Users -> Seq(Devs)]
    /\ changed \in [Users -> SUBSET {"world", "scan"}]
    /\ lost \in [Devs -> Nat]

\* A thread has one handle; numbers are given in order, so that what took the
\* place of a device that left the list has a greater one.
Ordered ==
    /\ \A t \in Users : Len(handles[t]) <= 1
    /\ \A d, e \in Devs : d < e /\ devs[d].life = "unused" => devs[e].life = "unused"
    /\ \A d \in Devs : Live(d) /\ ~devs[d].listed =>
         \E e \in Devs : d < e /\ devs[e].life # "unused"
    /\ fault # "freed device"
    /\ fault = "removed twice" => \E d \in Devs : Live(d) /\ ~devs[d].listed

\* A count is the number of holders, and a device without any is about to be
\* freed, once.
RefsOf(d) == IF Live(d) THEN devs[d].refs ELSE 0
Frees(d) == Total([t \in Users |-> Count(work[t], <<"free", d>>)])
Due(d) == IF Live(d) /\ devs[d].refs = 0 THEN 1 ELSE 0
Balanced == \A d \in Devs : RefsOf(d) = Holders(d) /\ Frees(d) = Due(d)

\* What a scan has in hand: nothing between two entries.
Overlapped == \E t \in Users : "scan" \in changed[t]
InHand(t, s) ==
    /\ s.dev = -1 => s.parent = 0
    /\ s.dev # -1 => s.todo # <<>> /\ s.ret = "ok" /\ s.pass \in {"hub", "dev", "gen", "ext"}
    /\ s.pass \in {"hub", "dev"} => s.parent = 0
    /\ s.pass = "ext" /\ s.dev # -1 => s.dev = 0 /\ s.parent # 0
    /\ lists[t] = <<>> /\ (s.want # None => handles[t] = <<>>)
    /\ s.pass = "gen" /\ s.parent # 0 =>
         /\ devs[s.parent].api = "hub"
         /\ ~Overlapped => Ancestor(Head(s.todo).place) = s.parent
ScansSound ==
    /\ \A t \in Users : scan[t] # NoScan => InHand(t, scan[t])
    /\ ~Overlapped => \A t, u \in Users : scan[t] # NoScan /\ scan[u] # NoScan => t = u

\* Only hubs have devices below them, and references that nobody releases.
HubsAbove ==
    /\ \A c \in Devs : RefsOf(c) > 0 /\ devs[c].parent # 0 => devs[devs[c].parent].api = "hub"
    /\ ~Overlapped => \A d \in Devs : lost[d] > 0 => devs[d].api = "hub"

HeldInv == StateTyped /\ Ordered /\ (fault = "none" => Balanced /\ ScansSound /\ HubsAbove)

-----------------------------------------------------------------------------
(* References and those who hold them                                       *)

LEMMA DevsFinite == IsFiniteSet(Devs) /\ IsFiniteSet(Users) /\ MaxDevs \in Nat
<1>1. MaxDevs \in Nat /\ MaxDevs \in Int /\ 1 \in Int /\ IsFiniteSet(Users)
  BY PlacesAssumption
<1> QED
  BY <1>1, FS_Interval DEF Devs

LEMMA HeldParts ==
    ASSUME StateTyped, NEW t \in Users, NEW d \in Devs
    PROVE  /\ Count(lists[t], d) \in Nat /\ Count(handles[t], d) \in Nat
           /\ Count(work[t], <<"unref", d>>) \in Nat /\ Count(work[t], <<"free", d>>) \in Nat
           /\ scan[t] # NoScan => /\ Count(scan[t].unref, d) \in Nat
                                  /\ Count(scan[t].found, d) \in Nat
           /\ HeldBy(t, d) \in Nat
<1>1. Count(lists[t], d) \in Nat /\ Count(handles[t], d) \in Nat
  <2>1. lists[t] \in Seq(Devs) /\ handles[t] \in Seq(Devs)
    BY DEF StateTyped
  <2> QED
    BY <2>1, CountType
<1>2. Count(work[t], <<"unref", d>>) \in Nat /\ Count(work[t], <<"free", d>>) \in Nat
  <2>1. work[t] \in Seq(Tokens)
    BY DEF StateTyped
  <2> QED
    BY <2>1, CountType
<1>3. scan[t] # NoScan => Count(scan[t].unref, d) \in Nat /\ Count(scan[t].found, d) \in Nat
  <2>1. scan[t] # NoScan => scan[t].unref \in Seq(Devs) /\ scan[t].found \in Seq(Devs)
    BY DEF StateTyped, ScanTyped
  <2> QED
    BY <2>1, CountType
<1> QED
  BY <1>1, <1>2, <1>3 DEF HeldBy

LEMMA HeldPartsNext ==
    StateTyped' => \A t \in Users, d \in Devs : HeldBy(t, d)' \in Nat
<1> DEFINE Typed == \A t \in Users, d \in Devs : HeldBy(t, d) \in Nat
<1>1. StateTyped => Typed
  BY HeldParts
<1> HIDE DEF Typed
<1>2. StateTyped' => Typed'
  BY <1>1, PTL
<1> QED
  BY <1>2 DEF Typed

LEMMA KidsFinite ==
    ASSUME NEW d \in Devs
    PROVE  IsFiniteSet(Children(d)) /\ Cardinality(Children(d)) \in Nat
<1>1. Children(d) \in SUBSET Devs
  BY DEF Children, Allocated
<1>2. IsFiniteSet(Children(d))
  BY <1>1, DevsFinite, FS_Subset
<1> QED
  BY <1>2, FS_CardinalityType

\* Only thread t does something.
OnlyBy(t) == \A u \in Users \ {t} : /\ scan'[u] = scan[u] /\ work'[u] = work[u]
                                    /\ lists'[u] = lists[u] /\ handles'[u] = handles[u]

LEMMA HolderParts ==
    ASSUME StateTyped, NEW d \in Devs
    PROVE  /\ lost[d] \in Nat /\ Total([u \in Users |-> HeldBy(u, d)]) \in Nat
           /\ Holders(d) \in Nat /\ Cardinality(Children(d)) \in Nat
           /\ Holders(d) = lost[d] + Cardinality(Children(d))
                           + Total([u \in Users |-> HeldBy(u, d)])
           /\ \A t \in Users : lost[d] + Cardinality(Children(d)) + HeldBy(t, d) <= Holders(d)
<1>1. lost[d] \in Nat
  BY DEF StateTyped
<1>2. [u \in Users |-> HeldBy(u, d)] \in [Users -> Nat]
  BY HeldParts
<1>3. Total([u \in Users |-> HeldBy(u, d)]) \in Nat
  BY <1>2, DevsFinite, TotalType
<1>4. ASSUME NEW t \in Users
      PROVE  HeldBy(t, d) <= Total([u \in Users |-> HeldBy(u, d)]) /\ HeldBy(t, d) \in Nat
  <2> DEFINE f == [u \in Users |-> HeldBy(u, d)]
  <2>1. f[t] = HeldBy(t, d) /\ HeldBy(t, d) \in Nat
    BY HeldParts
  <2> HIDE DEF f
  <2>2. f \in [Users -> Nat]
    BY <1>2 DEF f
  <2>3. f[t] <= Total(f)
    BY <2>2, DevsFinite, TotalChange
  <2> QED
    BY <2>1, <2>3 DEF f
<1>5. Holders(d) = lost[d] + Cardinality(Children(d)) + Total([u \in Users |-> HeldBy(u, d)])
  BY DEF Holders
<1> HIDE DEF Total
<1> QED
  BY <1>1, <1>3, <1>4, <1>5, KidsFinite

LEMMA HeldChange ==
    ASSUME StateTyped, StateTyped', NEW t \in Users, OnlyBy(t), NEW d \in Devs
    PROVE  /\ HeldBy(t, d) \in Nat /\ HeldBy(t, d)' \in Nat
           /\ Total([u \in Users |-> HeldBy(u, d)])'
                = Total([u \in Users |-> HeldBy(u, d)]) - HeldBy(t, d) + HeldBy(t, d)'
<1> DEFINE f == [u \in Users |-> HeldBy(u, d)]
           g == [u \in Users |-> HeldBy(u, d)']
<1>1. f \in [Users -> Nat]
  BY HeldParts
<1>2. \A u \in Users : HeldBy(u, d)' \in Nat
  BY HeldPartsNext
<1>3. \A u \in Users \ {t} : f[u] = g[u]
  BY DEF OnlyBy, HeldBy
<1>4. g \in [Users -> Nat]
  BY <1>2
<1>5. f[t] = HeldBy(t, d) /\ g[t] = HeldBy(t, d)'
  OBVIOUS
<1>6. Total([u \in Users |-> HeldBy(u, d)])' = Total(g)
  OBVIOUS
<1> HIDE DEF f, g
<1>7. Total(g) = Total(f) - f[t] + g[t]
  BY <1>1, <1>3, <1>4, DevsFinite, TotalChange
<1> QED
  BY <1>1, <1>4, <1>5, <1>6, <1>7 DEF f

LEMMA HolderPartsNext ==
    StateTyped' => \A d \in Devs :
        /\ lost'[d] \in Nat /\ Holders(d)' \in Nat /\ Cardinality(Children(d))' \in Nat
        /\ Total([u \in Users |-> HeldBy(u, d)])' \in Nat
        /\ Holders(d)' = lost'[d] + Cardinality(Children(d))'
                         + Total([u \in Users |-> HeldBy(u, d)])'
<1> DEFINE Parts == \A d \in Devs :
        /\ lost[d] \in Nat /\ Holders(d) \in Nat /\ Cardinality(Children(d)) \in Nat
        /\ Total([u \in Users |-> HeldBy(u, d)]) \in Nat
        /\ Holders(d) = lost[d] + Cardinality(Children(d))
                        + Total([u \in Users |-> HeldBy(u, d)])
<1>1. StateTyped => Parts
  BY HolderParts
<1> HIDE DEF Parts
<1>2. StateTyped' => Parts'
  BY <1>1, PTL
<1> QED
  BY <1>2 DEF Parts

(* When one thread does something, the holders of a device change by the    *)
(* references lost, the devices below it and what the thread holds.          *)
LEMMA HoldersChange ==
    ASSUME StateTyped, StateTyped', NEW t \in Users, OnlyBy(t), NEW d \in Devs
    PROVE  /\ Holders(d) \in Nat /\ Holders(d)' \in Nat
           /\ lost[d] \in Nat /\ lost'[d] \in Nat
           /\ HeldBy(t, d) \in Nat /\ HeldBy(t, d)' \in Nat
           /\ Cardinality(Children(d)) \in Nat /\ Cardinality(Children(d))' \in Nat
           /\ Holders(d)' = Holders(d) - lost[d] + lost'[d]
                            - Cardinality(Children(d)) + Cardinality(Children(d))'
                            - HeldBy(t, d) + HeldBy(t, d)'
<1> DEFINE now == Total([u \in Users |-> HeldBy(u, d)])
           then == Total([u \in Users |-> HeldBy(u, d)])'
<1>1. /\ lost[d] \in Nat /\ now \in Nat /\ Holders(d) \in Nat
      /\ Cardinality(Children(d)) \in Nat
      /\ Holders(d) = lost[d] + Cardinality(Children(d)) + now
  BY HolderParts
<1>2. /\ lost'[d] \in Nat /\ then \in Nat /\ Holders(d)' \in Nat
      /\ Cardinality(Children(d))' \in Nat
      /\ Holders(d)' = lost'[d] + Cardinality(Children(d))' + then
  BY HolderPartsNext
<1>3. HeldBy(t, d) \in Nat /\ HeldBy(t, d)' \in Nat /\ then = now - HeldBy(t, d) + HeldBy(t, d)'
  BY HeldChange
<1> HIDE DEF now, then
<1> QED
  BY <1>1, <1>2, <1>3

LEMMA FreesChange ==
    ASSUME StateTyped, StateTyped', NEW t \in Users, OnlyBy(t), NEW d \in Devs
    PROVE  /\ Frees(d) \in Nat /\ Frees(d)' \in Nat
           /\ Count(work[t], <<"free", d>>) \in Nat /\ Count(work'[t], <<"free", d>>) \in Nat
           /\ Frees(d)' = Frees(d) - Count(work[t], <<"free", d>>)
                          + Count(work'[t], <<"free", d>>)
           /\ Count(work[t], <<"free", d>>) <= Frees(d)
<1> DEFINE f == [u \in Users |-> Count(work[u], <<"free", d>>)]
           g == [u \in Users |-> Count(work'[u], <<"free", d>>)]
<1>1. f \in [Users -> Nat]
  BY HeldParts
<1>2. g \in [Users -> Nat]
  <2>1. \A u \in Users : work'[u] \in Seq(Tokens)
    BY DEF StateTyped
  <2>2. \A u \in Users : Count(work'[u], <<"free", d>>) \in Nat
    BY <2>1, CountType
  <2> QED
    BY <2>2
<1>3. \A u \in Users \ {t} : f[u] = g[u]
  BY DEF OnlyBy
<1>4. f[t] = Count(work[t], <<"free", d>>) /\ g[t] = Count(work'[t], <<"free", d>>)
  OBVIOUS
<1>5. Frees(d) = Total(f) /\ Frees(d)' = Total(g)
  BY DEF Frees
<1> HIDE DEF f, g
<1>6. /\ Total(f) \in Nat /\ Total(g) \in Nat /\ Total(g) = Total(f) - f[t] + g[t]
      /\ f[t] <= Total(f)
  BY <1>1, <1>2, <1>3, DevsFinite, TotalChange
<1>7. f[t] \in Nat /\ g[t] \in Nat
  BY <1>1, <1>2
<1> QED
  BY <1>4, <1>5, <1>6, <1>7

\* What a thread does to a device leaves the count and the holders even.
Even(t, d) ==
    /\ RefsOf(d)' = RefsOf(d) - lost[d] + lost'[d]
                    - Cardinality(Children(d)) + Cardinality(Children(d))'
                    - HeldBy(t, d) + HeldBy(t, d)'
    /\ Due(d)' = Due(d) - Count(work[t], <<"free", d>>) + Count(work'[t], <<"free", d>>)

LEMMA BalanceKept ==
    ASSUME StateTyped, StateTyped', Balanced, NEW t \in Users, OnlyBy(t),
           \A d \in Devs : Even(t, d)
    PROVE  Balanced'
<1>1. SUFFICES ASSUME NEW d \in Devs
               PROVE  RefsOf(d)' = Holders(d)' /\ Frees(d)' = Due(d)'
  BY DEF Balanced
<1>2. RefsOf(d) = Holders(d) /\ Frees(d) = Due(d) /\ Even(t, d)
  BY DEF Balanced
<1>3. Holders(d)' = Holders(d) - lost[d] + lost'[d]
                    - Cardinality(Children(d)) + Cardinality(Children(d))'
                    - HeldBy(t, d) + HeldBy(t, d)'
  BY HoldersChange
<1>4. Frees(d)' = Frees(d) - Count(work[t], <<"free", d>>) + Count(work'[t], <<"free", d>>)
  BY FreesChange
<1> QED
  BY <1>2, <1>3, <1>4 DEF Even

(* The devices below                                                         *)
IsChild(c, d) == RefsOf(c) > 0 /\ devs[c].parent = d

LEMMA ChildrenAre ==
    ASSUME NEW d
    PROVE  Children(d) = {c \in Devs : IsChild(c, d)}
  BY DEF Children, Allocated, IsChild, RefsOf

LEMMA KidsSame ==
    ASSUME NEW d, \A c \in Devs : IsChild(c, d)' <=> IsChild(c, d)
    PROVE  Children(d)' = Children(d)
<1>1. Children(d) = {c \in Devs : IsChild(c, d)}
  BY ChildrenAre
<1>2. Children(d)' = {c \in Devs : IsChild(c, d)'}
  BY DEF Children, Allocated, IsChild, RefsOf
<1> QED
  BY <1>1, <1>2

LEMMA KidsOne ==
    ASSUME NEW d \in Devs, NEW x \in Devs,
           \A c \in Devs \ {x} : IsChild(c, d)' <=> IsChild(c, d)
    PROVE  Cardinality(Children(d))' = Cardinality(Children(d))
              - (IF IsChild(x, d) THEN 1 ELSE 0) + (IF IsChild(x, d)' THEN 1 ELSE 0)
<1> DEFINE others == {c \in Devs : IsChild(c, d)} \ {x}
<1>1. Children(d) = {c \in Devs : IsChild(c, d)}
  BY ChildrenAre
<1>2. Children(d)' = {c \in Devs : IsChild(c, d)'}
  BY DEF Children, Allocated, IsChild, RefsOf
<1>3. Children(d) = IF IsChild(x, d) THEN others \cup {x} ELSE others
  BY <1>1
<1>4. Children(d)' = IF IsChild(x, d)' THEN others \cup {x} ELSE others
  BY <1>2
<1>5. IsFiniteSet(others) /\ x \notin others
  <2>1. others \in SUBSET Devs
    OBVIOUS
  <2> QED
    BY <2>1, DevsFinite, FS_Subset
<1> HIDE DEF others
<1>6. Cardinality(others) \in Nat /\ Cardinality(others \cup {x}) = Cardinality(others) + 1
  BY <1>5, FS_CardinalityType, FS_AddElement
<1>7. Cardinality(Children(d))' = Cardinality(Children(d)')
  OBVIOUS
<1> QED
  BY <1>3, <1>4, <1>6, <1>7

-----------------------------------------------------------------------------
(* Finding devices                                                           *)

LEMMA FirstIs ==
    ASSUME NEW T \in SUBSET Nat, T # {}
    PROVE  First(T) \in T /\ \A j \in T : First(T) <= j
<1>1. \E m \in T : \A k \in T : m <= k
  BY MinExists
<1> QED
  BY <1>1 DEF First

LEMMA LastExists ==
    ASSUME NEW T \in SUBSET Devs, T # {}
    PROVE  \E m \in T : \A k \in T : k <= m
<1> DEFINE below == {MaxDevs - k : k \in T}
<1>1. MaxDevs \in Nat /\ \A k \in T : k \in Nat /\ k <= MaxDevs
  BY DevsFinite DEF Devs
<1>2. below \in SUBSET Nat /\ below # {}
  BY <1>1
<1>3. PICK b \in below : \A a \in below : b <= a
  BY <1>2, MinExists
<1>4. PICK m \in T : b = MaxDevs - m
  BY <1>3
<1>5. ASSUME NEW k \in T PROVE k <= m
  <2>1. b <= MaxDevs - k
    BY <1>3
  <2> QED
    BY <1>1, <1>4, <2>1
<1> QED
  BY <1>5

LEMMA KnownIs ==
    ASSUME NEW n
    PROVE  /\ Known(n) \in 0 .. MaxDevs
           /\ Known(n) # 0 => /\ Known(n) \in Devs /\ Live(Known(n)) /\ devs[Known(n)].listed
                              /\ devs[Known(n)].place = n
           /\ \A d \in Devs : Live(d) /\ devs[d].listed /\ devs[d].place = n =>
                Known(n) # 0 /\ d <= Known(n)
<1> DEFINE of == {d \in Listed : devs[d].place = n}
<1>1. of \in SUBSET Devs
  BY DEF Listed, Allocated
<1>2. Known(n) = IF of = {} THEN 0 ELSE CHOOSE d \in of : \A e \in of : e <= d
  BY DEF Known
<1>3. \A d \in Devs : d \in of <=> Live(d) /\ devs[d].listed /\ devs[d].place = n
  BY DEF Listed, Allocated
<1>4. MaxDevs \in Nat
  BY DevsFinite
<1> HIDE DEF of
<1>5. CASE of = {}
  BY <1>2, <1>3, <1>4, <1>5
<1>6. CASE of # {}
  <2>1. \E m \in of : \A k \in of : k <= m
    BY <1>1, <1>6, LastExists
  <2>2. Known(n) \in of /\ \A k \in of : k <= Known(n)
    BY <1>2, <1>6, <2>1
  <2>3. Known(n) \in Devs
    BY <1>1, <2>2
  <2>4. Known(n) # 0 /\ Known(n) \in 0 .. MaxDevs
    BY <1>4, <2>3 DEF Devs
  <2> QED
    BY <1>3, <2>2, <2>3, <2>4
<1> QED
  BY <1>5, <1>6

LEMMA AncestorIs ==
    ASSUME NEW n
    PROVE  /\ Ancestor(n) \in 0 .. MaxDevs
           /\ Ancestor(n) # 0 => /\ Ancestor(n) \in Devs /\ Live(Ancestor(n))
                                 /\ devs[Ancestor(n)].listed
<1>1. CASE KnownAbove(n) = {}
  BY <1>1, DevsFinite DEF Ancestor
<1>2. CASE KnownAbove(n) # {}
  <2>1. Ancestor(n) = Known(Climb(n)[First(KnownAbove(n))])
    BY <1>2 DEF Ancestor, KnownAt
  <2> QED
    BY <2>1, KnownIs
<1> QED
  BY <1>1, <1>2

\* The devices in the list are the same, at the same places.
ListedSame == \A d \in Devs : /\ Live(d)' <=> Live(d)
                              /\ Live(d) => /\ devs'[d].place = devs[d].place
                                            /\ devs'[d].listed = devs[d].listed

LEMMA KnownAgain == ASSUME ListedSame, NEW n PROVE Known(n)' = Known(n)
<1> DEFINE of == {d \in Listed : devs[d].place = n}
           next == {d \in Listed : devs[d].place = n}'
<1>1. next = of
  BY DEF ListedSame, Listed, Allocated
<1>2. Known(n) = IF of = {} THEN 0 ELSE CHOOSE d \in of : \A e \in of : e <= d
  BY DEF Known
<1>3. Known(n)' = IF next = {} THEN 0 ELSE CHOOSE d \in next : \A e \in next : e <= d
  BY DEF Known
<1> HIDE DEF of, next
<1> QED
  BY <1>1, <1>2, <1>3

LEMMA AncestorAgain == ASSUME ListedSame, NEW n PROVE Ancestor(n)' = Ancestor(n)
<1>1. \A m : Known(m)' = Known(m)
  BY KnownAgain
<1>2. KnownAbove(n)' = KnownAbove(n)
  BY <1>1 DEF KnownAbove
<1> QED
  BY <1>1, <1>2 DEF Ancestor, KnownAt

(* A device above a place stays the first known when another one is freed.   *)
LEMMA AncestorKept ==
    ASSUME NEW x \in Devs, ~Live(x)',
           \A d \in Devs \ {x} : devs'[d] = devs[d],
           NEW n, Ancestor(n) # 0, Ancestor(n) # x
    PROVE  Ancestor(n)' = Ancestor(n)
<1>1. KnownAbove(n) # {} /\ Ancestor(n) = Known(Climb(n)[First(KnownAbove(n))])
  BY DEF Ancestor, KnownAt
<1>2. PICK i \in 1 .. Len(Order) :
        i = First(KnownAbove(n)) /\ i \in KnownAbove(n) /\ \A j \in KnownAbove(n) : i <= j
  <2>1. KnownAbove(n) \in SUBSET Nat /\ KnownAbove(n) \in SUBSET (1 .. Len(Order))
    BY DEF KnownAbove
  <2> QED
    BY <1>1, <2>1, FirstIs
<1>3. \A m : Known(m) = 0 => Known(m)' = 0
  <2>1. SUFFICES ASSUME NEW m, Known(m) = 0 PROVE Known(m)' = 0
    OBVIOUS
  <2>2. \A d \in Devs : ~(Live(d) /\ devs[d].listed /\ devs[d].place = m)
    BY <2>1, KnownIs
  <2>3. {d \in Listed : devs[d].place = m}' = {}
    BY <2>2 DEF Listed, Allocated, Live
  <2> QED
    BY <2>3 DEF Known
<1>4. \A m : Known(m) # 0 /\ Known(m) # x => Known(m)' = Known(m)
  <2>1. SUFFICES ASSUME NEW m, Known(m) # 0, Known(m) # x PROVE Known(m)' = Known(m)
    OBVIOUS
  <2>2. /\ Known(m) \in Devs /\ Live(Known(m)) /\ devs[Known(m)].listed
        /\ devs[Known(m)].place = m
        /\ \A d \in Devs : Live(d) /\ devs[d].listed /\ devs[d].place = m => d <= Known(m)
    BY <2>1, KnownIs
  <2> DEFINE of == {d \in Listed : devs[d].place = m}'
             k == Known(m)
  <2>3. \A d \in Devs : d \in of <=> Live(d)' /\ devs'[d].listed /\ devs'[d].place = m
    BY DEF Listed, Allocated
  <2>4. of \in SUBSET Devs
    BY DEF Listed, Allocated
  <2>5. Known(m)' = IF of = {} THEN 0 ELSE CHOOSE d \in of : \A e \in of : e <= d
    BY DEF Known
  <2> HIDE DEF of, k
  <2>6. k \in of
    BY <2>1, <2>2, <2>3 DEF Live, k
  <2>7. \A e \in of : e <= k
    <3>1. SUFFICES ASSUME NEW e \in of PROVE e <= k
      OBVIOUS
    <3>2. e \in Devs /\ Live(e)' /\ devs'[e].listed /\ devs'[e].place = m
      BY <2>3, <2>4
    <3>3. e # x
      BY <3>2
    <3> QED
      BY <2>2, <3>2, <3>3 DEF Live, k
  <2>8. \A e \in of : e \in Nat
    BY <2>4 DEF Devs
  <2>9. \A d \in of : (\A e \in of : e <= d) => d = k
    BY <2>6, <2>7, <2>8
  <2> QED
    BY <2>5, <2>6, <2>7, <2>9 DEF k
<1>5. KnownAbove(n)' \in SUBSET KnownAbove(n)
  BY <1>3 DEF KnownAbove
<1>6. Known(Climb(n)[i])' = Ancestor(n)
  BY <1>1, <1>2, <1>4
<1>7. i \in KnownAbove(n)'
  <2>1. Climb(n)[i] # Top
    BY <1>2 DEF KnownAbove
  <2> QED
    BY <1>6, <2>1 DEF KnownAbove
<1>8. First(KnownAbove(n))' = i
  <2> DEFINE levels == KnownAbove(n)'
  <2>1. levels \in SUBSET Nat
    BY DEF KnownAbove
  <2>2. levels \in SUBSET KnownAbove(n)
    BY <1>5
  <2>3. i \in levels
    BY <1>7
  <2>4. First(KnownAbove(n))' = First(levels)
    BY DEF First
  <2> HIDE DEF levels
  <2>5. First(levels) \in levels /\ \A j \in levels : First(levels) <= j
    BY <2>1, <2>3, FirstIs
  <2>6. First(levels) <= i /\ i <= First(levels)
    BY <1>2, <2>2, <2>3, <2>5
  <2>7. First(levels) \in Nat /\ i \in Nat
    BY <2>1, <2>3, <2>5
  <2> QED
    BY <2>4, <2>6, <2>7
<1>9. Ancestor(n)' = Known(Climb(n)[i])'
  <2>1. KnownAbove(n)' # {}
    BY <1>7
  <2> QED
    BY <1>8, <2>1 DEF Ancestor, KnownAt
<1> QED
  BY <1>6, <1>9

-----------------------------------------------------------------------------
(* Changing a device                                                         *)

\* The same device, in the same place of the tree and of the list
Same(x, r) == /\ x.life = r.life
              /\ r.life = "live" => /\ x.place = r.place /\ x.listed = r.listed
                                    /\ x.parent = r.parent /\ x.api = r.api

DeviceMap(all) == all = [c \in Devs |-> all[c]] /\ \A c \in Devs : DeviceTyped(all[c])

LEMMA RefsSet ==
    ASSUME NEW r, DeviceTyped(r), r.life = "live", NEW v \in Nat
    PROVE  /\ DeviceTyped([r EXCEPT !.refs = v]) /\ Same([r EXCEPT !.refs = v], r)
           /\ [r EXCEPT !.refs = v].refs = v
           /\ [r EXCEPT !.refs = v].attached = r.attached
<1> DEFINE x == [r EXCEPT !.refs = v]
<1>1. r = [f \in DeviceFields |-> r[f]] /\ r.parent \in 0 .. MaxDevs /\ r.listed \in BOOLEAN
  BY DEF DeviceTyped
<1>2. /\ x = [f \in DeviceFields |-> x[f]]
      /\ \A f \in DeviceFields : x[f] = IF f = "refs" THEN v ELSE r[f]
  BY <1>1
<1>3. /\ x.life = r.life /\ x.place = r.place /\ x.listed = r.listed /\ x.parent = r.parent
      /\ x.api = r.api /\ x.attached = r.attached /\ x.refs = v
  <2> HIDE DEF x
  <2>1. /\ {"life", "place", "listed", "parent", "api", "attached", "refs"} \in SUBSET DeviceFields
    BY DEF DeviceFields
  <2> QED
    BY <1>2, <2>1
<1> HIDE DEF x
<1>4. DeviceTyped(x) /\ Same(x, r)
  BY <1>1, <1>2, <1>3 DEF DeviceTyped, Same
<1> QED
  BY <1>3, <1>4 DEF x

LEMMA RefIs ==
    ASSUME NEW all, DeviceMap(all), NEW d \in 0 .. MaxDevs, d # 0 => all[d].life = "live"
    PROVE  /\ DeviceMap(Ref(all, d))
           /\ \A c \in Devs : Same(Ref(all, d)[c], all[c])
           /\ \A c \in Devs : all[c].life = "live" =>
                /\ all[c].refs \in Nat
                /\ Ref(all, d)[c].refs = all[c].refs + (IF c = d THEN 1 ELSE 0)
           /\ \A c \in Devs : c # d => Ref(all, d)[c] = all[c]
<1>1. \A c \in Devs : DeviceTyped(all[c]) /\ (all[c].life = "live" => all[c].refs \in Nat)
  BY DEF DeviceMap, DeviceTyped
<1>2. CASE d = 0
  <2>1. Ref(all, d) = all
    BY <1>2 DEF Ref
  <2>2. \A c \in Devs : c # d
    BY <1>2 DEF Devs
  <2>3. \A c \in Devs : Same(all[c], all[c])
    BY DEF Same
  <2> QED
    BY <1>1, <2>1, <2>2, <2>3
<1>3. CASE d # 0
  <2>1. d \in Devs
    BY <1>3, DevsFinite DEF Devs
  <2> DEFINE x == [all[d] EXCEPT !.refs = all[d].refs + 1]
  <2>2. /\ DeviceTyped(x) /\ Same(x, all[d]) /\ x.refs = all[d].refs + 1
    <3>1. DeviceTyped(all[d]) /\ all[d].life = "live" /\ all[d].refs \in Nat /\ all[d].refs + 1 \in Nat
      BY <1>1, <1>3, <2>1
    <3> QED
      BY <3>1, RefsSet
  <2>3. Ref(all, d) = [all EXCEPT ![d] = x]
    BY <1>3 DEF Ref
  <2> HIDE DEF x
  <2>4. Ref(all, d) = [c \in Devs |-> IF c = d THEN x ELSE all[c]]
    BY <2>3 DEF DeviceMap
  <2>5. \A c \in Devs : Ref(all, d)[c] = IF c = d THEN x ELSE all[c]
    BY <2>4
  <2>6. \A c \in Devs : Same(all[c], all[c])
    BY DEF Same
  <2>7. DeviceMap(Ref(all, d))
    <3>1. Ref(all, d) = [c \in Devs |-> Ref(all, d)[c]]
      BY <2>4
    <3> QED
      BY <1>1, <2>2, <2>5, <3>1 DEF DeviceMap
  <2> QED
    BY <1>1, <2>1, <2>2, <2>5, <2>6, <2>7
<1> QED
  BY <1>2, <1>3

\* What a scan holds is the record it was, but for some fields.
LEMMA SkipIs ==
    ASSUME NEW s, ScanTyped(s), s # NoScan
    PROVE  /\ ScanTyped(Skip(s)) /\ Skip(s) # NoScan
           /\ Skip(s).parent = 0 /\ Skip(s).dev = -1 /\ Skip(s).pass = s.pass
           /\ Skip(s).want = s.want /\ Skip(s).unref = s.unref /\ Skip(s).found = s.found
           /\ Skip(s).ret = s.ret /\ Skip(s) = [f \in ScanFields |-> Skip(s)[f]]
<1> DEFINE x == Skip(s)
<1>1. /\ s = [f \in ScanFields |-> s[f]] /\ s.pass \in {"hub", "dev", "hcd", "gen", "ext", "end"}
      /\ s.unref \in Seq(Devs) /\ s.found \in Seq(Devs)
  BY DEF ScanTyped
<1>2. /\ x = [f \in ScanFields |-> x[f]]
      /\ \A f \in ScanFields : x[f] = IF f = "todo" THEN Tail(s.todo)
                                      ELSE IF f = "parent" THEN 0
                                      ELSE IF f = "dev" THEN -1 ELSE s[f]
  BY <1>1 DEF Skip, ScanFields
<1> HIDE DEF x
<1>3. /\ x.parent = 0 /\ x.dev = -1 /\ x.pass = s.pass /\ x.want = s.want /\ x.unref = s.unref
      /\ x.found = s.found /\ x.ret = s.ret
  BY <1>2 DEF ScanFields
<1>4. x # NoScan
  BY <1>1, <1>3 DEF NoScan
<1>5. 0 \in 0 .. MaxDevs
  BY DevsFinite
<1>6. ScanTyped(x)
  BY <1>1, <1>2, <1>3, <1>5 DEF ScanTyped
<1> QED
  BY <1>2, <1>3, <1>4, <1>6 DEF x

-----------------------------------------------------------------------------
(* Whatever is held is alive, as long as nothing went wrong.                 *)

LEMMA HolderLive ==
    ASSUME StateTyped, Balanced, NEW d \in Devs,
           \/ \E t \in Users : HeldBy(t, d) > 0
           \/ lost[d] > 0
           \/ \E c \in Devs : IsChild(c, d)
    PROVE  Live(d) /\ devs[d].refs \in Nat /\ devs[d].refs > 0
<1>1. /\ lost[d] \in Nat /\ Holders(d) \in Nat /\ Cardinality(Children(d)) \in Nat
      /\ Holders(d) = lost[d] + Cardinality(Children(d)) + Total([u \in Users |-> HeldBy(u, d)])
      /\ Total([u \in Users |-> HeldBy(u, d)]) \in Nat
      /\ \A t \in Users : lost[d] + Cardinality(Children(d)) + HeldBy(t, d) <= Holders(d)
      /\ \A t \in Users : HeldBy(t, d) \in Nat
  BY HolderParts, HeldParts
<1>2. (\E c \in Devs : IsChild(c, d)) => Cardinality(Children(d)) > 0
  <2>1. SUFFICES ASSUME NEW c \in Devs, IsChild(c, d) PROVE Cardinality(Children(d)) > 0
    OBVIOUS
  <2>2. Children(d) # {}
    BY <2>1, ChildrenAre
  <2>3. IsFiniteSet(Children(d))
    BY KidsFinite
  <2>4. Cardinality(Children(d)) # 0
    BY <2>2, <2>3, FS_EmptySet
  <2> QED
    BY <1>1, <2>4
<1> DEFINE sum == Total([u \in Users |-> HeldBy(u, d)])
<1> HIDE DEF sum
<1>3. Holders(d) > 0
  <2>1. Holders(d) = lost[d] + Cardinality(Children(d)) + sum /\ sum \in Nat
    BY <1>1 DEF sum
  <2>2. CASE \E t \in Users : HeldBy(t, d) > 0
    <3>1. PICK t \in Users : HeldBy(t, d) > 0
      BY <2>2
    <3> QED
      BY <1>1, <3>1
  <2>3. CASE lost[d] > 0 \/ \E c \in Devs : IsChild(c, d)
    BY <1>1, <1>2, <2>1, <2>3
  <2> QED
    BY <2>2, <2>3
<1>4. RefsOf(d) = Holders(d)
  BY DEF Balanced
<1>5. Live(d) /\ devs[d].refs = Holders(d)
  BY <1>3, <1>4 DEF RefsOf
<1> QED
  BY <1>1, <1>3, <1>5

LEMMA DeviceNumber == ASSUME NEW d \in 0 .. MaxDevs, d # 0 PROVE d \in Devs
  BY DevsFinite DEF Devs

LEMMA RefsNat ==
    ASSUME StateTyped, NEW d \in Devs
    PROVE  /\ RefsOf(d) \in Nat /\ devs[d].life \in {"unused", "live", "gone"}
           /\ Live(d) => devs[d].refs \in Nat /\ RefsOf(d) = devs[d].refs
                         /\ devs[d].parent \in 0 .. MaxDevs /\ devs[d].listed \in BOOLEAN
  BY DEF StateTyped, DeviceTyped, RefsOf, Live

LEMMA RefsNatNext ==
    StateTyped' => \A d \in Devs :
        /\ RefsOf(d)' \in Nat /\ devs'[d].life \in {"unused", "live", "gone"}
        /\ Live(d)' => devs'[d].refs \in Nat /\ RefsOf(d)' = devs'[d].refs
<1> DEFINE Typed == \A d \in Devs :
        /\ RefsOf(d) \in Nat /\ devs[d].life \in {"unused", "live", "gone"}
        /\ Live(d) => devs[d].refs \in Nat /\ RefsOf(d) = devs[d].refs
<1>1. StateTyped => Typed
  BY RefsNat
<1> HIDE DEF Typed
<1>2. StateTyped' => Typed'
  BY <1>1, PTL
<1> QED
  BY <1>2 DEF Typed

LEMMA Counted == ASSUME NEW d, RefsOf(d) > 0 PROVE Live(d)
<1>1. SUFFICES ASSUME ~Live(d) PROVE FALSE
  OBVIOUS
<1>2. RefsOf(d) = 0
  BY <1>1 DEF RefsOf
<1> QED
  BY <1>2

(* What a scan of a thread has in hand is held by it.                        *)
LEMMA InHandHeld ==
    ASSUME StateTyped, NEW t \in Users, scan[t] # NoScan, NEW d \in Devs
    PROVE  /\ HeldBy(t, d) \in Nat
           /\ scan[t].parent = d \/ scan[t].dev = d => HeldBy(t, d) > 0
<1>1. HeldBy(t, d) \in Nat
  BY HeldParts
<1>2. /\ Count(lists[t], d) \in Nat /\ Count(handles[t], d) \in Nat
      /\ Count(work[t], <<"unref", d>>) \in Nat /\ Count(scan[t].unref, d) \in Nat
      /\ Count(scan[t].found, d) \in Nat
  BY HeldParts
<1> QED
  BY <1>1, <1>2 DEF HeldBy

\* A step of thread t that leaves every device in its place; what it counts is
\* what the thread holds afterwards.
Shifted(t) ==
    \A d \in Devs : /\ RefsOf(d)' > 0 <=> RefsOf(d) > 0
                    /\ RefsOf(d)' = RefsOf(d) - HeldBy(t, d) + HeldBy(t, d)'
                    /\ Count(work'[t], <<"free", d>>) = Count(work[t], <<"free", d>>)
Quiet(t) ==
    /\ \A d \in Devs : Same(devs'[d], devs[d])
    /\ lost' = lost /\ (Overlapped => Overlapped') /\ Len(handles'[t]) <= 1
    /\ fault' \in {"none", "found while destroyed", "null ancestor"}
    /\ fault' = "none" =>
         /\ Shifted(t)
         /\ scan'[t] # NoScan => InHand(t, scan[t])'
         /\ scan'[t] # NoScan /\ ~Overlapped' => \A u \in Users \ {t} : scan[u] = NoScan

LEMMA QuietStep ==
    ASSUME HeldInv, fault = "none", NEW t \in Users, OnlyBy(t), StateTyped', Quiet(t)
    PROVE  HeldInv'
<1>1. StateTyped /\ Ordered /\ Balanced /\ ScansSound /\ HubsAbove
  BY DEF HeldInv
<1>0. /\ \A d \in Devs : Same(devs'[d], devs[d])
      /\ lost' = lost /\ (Overlapped => Overlapped') /\ Len(handles'[t]) <= 1
      /\ fault' \in {"none", "found while destroyed", "null ancestor"}
  BY DEF Quiet
<1>2. \A d \in Devs : Live(d)' <=> Live(d)
  BY <1>0 DEF Same, Live
<1>3. Ordered'
  <2>1. \A u \in Users : Len(handles'[u]) <= 1
    BY <1>0, <1>1 DEF Ordered, OnlyBy
  <2>2. \A d \in Devs : devs'[d].life = devs[d].life
    BY <1>0 DEF Same
  <2>3. \A d \in Devs : Live(d)' /\ ~devs'[d].listed => Live(d) /\ ~devs[d].listed
    BY <1>0, <1>2 DEF Same, Live
  <2> QED
    BY <1>0, <1>1, <2>1, <2>2, <2>3 DEF Ordered
<1>4. SUFFICES ASSUME fault' = "none" PROVE Balanced' /\ ScansSound' /\ HubsAbove'
  BY <1>3 DEF HeldInv
<1>41. /\ Shifted(t) /\ (scan'[t] # NoScan => InHand(t, scan[t])')
       /\ scan'[t] # NoScan /\ ~Overlapped' => \A u \in Users \ {t} : scan[u] = NoScan
  BY <1>4 DEF Quiet
<1>5. \A c \in Devs : RefsOf(c) > 0 => Live(c) /\ devs'[c].parent = devs[c].parent
  BY <1>0, Counted DEF Same, Live
<1>6. \A c \in Devs : RefsOf(c)' > 0 => RefsOf(c) > 0
  BY <1>41 DEF Shifted
<1>7. ASSUME NEW d \in Devs PROVE Children(d)' = Children(d)
  <2>1. \A c \in Devs : IsChild(c, d)' <=> IsChild(c, d)
    BY <1>41, <1>5 DEF Shifted, IsChild
  <2> QED
    BY <2>1, KidsSame
<1>8. ASSUME NEW d \in Devs PROVE Even(t, d)
  <2>1. Cardinality(Children(d)) \in Nat /\ Cardinality(Children(d))' = Cardinality(Children(d))
    BY <1>7, KidsFinite
  <2>2. lost[d] \in Nat /\ lost'[d] = lost[d]
    BY <1>0, <1>1 DEF StateTyped
  <2>3. RefsOf(d) \in Nat /\ HeldBy(t, d) \in Nat /\ HeldBy(t, d)' \in Nat
    BY <1>1, RefsNat, HeldParts, HeldPartsNext
  <2>4. RefsOf(d)' = RefsOf(d) - HeldBy(t, d) + HeldBy(t, d)'
    BY <1>41 DEF Shifted
  <2>5. Due(d)' = Due(d)
    <3>1. Live(d) => (devs'[d].refs = 0 <=> devs[d].refs = 0)
      <4>1. RefsOf(d)' \in Nat
        BY RefsNatNext
      <4>2. Live(d) => RefsOf(d) = devs[d].refs /\ RefsOf(d)' = devs'[d].refs
        BY <1>2 DEF RefsOf
      <4>3. RefsOf(d)' > 0 <=> RefsOf(d) > 0
        BY <1>41 DEF Shifted
      <4>4. RefsOf(d)' = 0 <=> RefsOf(d) = 0
        BY <2>3, <4>1, <4>3
      <4> QED
        BY <4>2, <4>4
    <3> QED
      BY <1>2, <3>1 DEF Due
  <2>6. Due(d) \in Nat /\ Count(work[t], <<"free", d>>) \in Nat
    BY <1>1, HeldParts DEF Due
  <2>7. Count(work'[t], <<"free", d>>) = Count(work[t], <<"free", d>>)
    BY <1>41 DEF Shifted
  <2>8. RefsOf(d)' = RefsOf(d) - lost[d] + lost'[d]
                     - Cardinality(Children(d)) + Cardinality(Children(d))'
                     - HeldBy(t, d) + HeldBy(t, d)'
    BY <2>1, <2>2, <2>3, <2>4
  <2>9. Due(d)' = Due(d) - Count(work[t], <<"free", d>>) + Count(work'[t], <<"free", d>>)
    BY <2>5, <2>6, <2>7
  <2> QED
    BY <2>8, <2>9 DEF Even
<1>9. Balanced'
  BY <1>1, <1>8, BalanceKept
<1>10. ListedSame
  BY <1>0, <1>2 DEF Same, ListedSame, Live
<1>11. ASSUME NEW u \in Users, scan'[u] # NoScan PROVE InHand(u, scan[u])'
  <2>1. CASE u = t
    BY <1>41, <1>11, <2>1
  <2>2. CASE u # t
    <3>1. /\ scan'[u] = scan[u] /\ lists'[u] = lists[u] /\ handles'[u] = handles[u]
          /\ InHand(u, scan[u])
      BY <1>1, <1>11, <2>2 DEF OnlyBy, ScansSound
    <3>2. Ancestor(Head(scan[u].todo).place)' = Ancestor(Head(scan[u].todo).place)
      <4>1. \A n : Ancestor(n)' = Ancestor(n)
        BY <1>10, AncestorAgain
      <4> QED
        BY <3>1, <4>1
    <3>3. scan[u].parent # 0 => devs'[scan[u].parent].api = devs[scan[u].parent].api
      <4>1. SUFFICES ASSUME scan[u].parent # 0
                     PROVE  devs'[scan[u].parent].api = devs[scan[u].parent].api
        OBVIOUS
      <4>2. scan[u].parent \in Devs
        <5>1. ScanTyped(scan[u]) /\ scan[u] # NoScan
          BY <1>1, <1>11, <3>1 DEF StateTyped
        <5>2. scan[u].parent \in 0 .. MaxDevs
          BY <5>1 DEF ScanTyped
        <5> QED
          BY <4>1, <5>2, DeviceNumber
      <4>3. HeldBy(u, scan[u].parent) > 0
        BY <1>1, <1>11, <3>1, <4>2, InHandHeld
      <4>4. Live(scan[u].parent)
        BY <1>1, <4>2, <4>3, HolderLive
      <4> QED
        BY <1>0, <4>2, <4>4 DEF Same, Live
    <3> QED
      BY <1>0, <3>1, <3>2, <3>3 DEF InHand
  <2> QED
    BY <2>1, <2>2
<1>12. ScansSound'
  <2>1. ~Overlapped' => \A u, v \in Users : scan'[u] # NoScan /\ scan'[v] # NoScan => u = v
    BY <1>0, <1>1, <1>41 DEF ScansSound, OnlyBy
  <2> QED
    BY <1>11, <2>1 DEF ScansSound
<1>13. HubsAbove'
  <2>1. ASSUME NEW c \in Devs, RefsOf(c)' > 0, devs'[c].parent # 0
        PROVE  devs'[devs'[c].parent].api = "hub"
    <3>1. RefsOf(c) > 0 /\ devs'[c].parent = devs[c].parent /\ Live(c)
      BY <1>5, <1>6, <2>1
    <3>2. devs[c].parent \in Devs /\ devs[devs[c].parent].api = "hub"
      BY <1>1, <2>1, <3>1, RefsNat, DeviceNumber DEF HubsAbove
    <3>3. Live(devs[c].parent)
      <4>1. IsChild(c, devs[c].parent)
        BY <3>1 DEF IsChild
      <4> QED
        BY <1>1, <3>2, <4>1, HolderLive
    <3> QED
      BY <1>0, <3>1, <3>2, <3>3 DEF Same, Live
  <2>2. ASSUME ~Overlapped', NEW d \in Devs, lost'[d] > 0 PROVE devs'[d].api = "hub"
    <3>1. lost[d] > 0 /\ devs[d].api = "hub"
      BY <1>0, <1>1, <2>2 DEF HubsAbove
    <3>2. Live(d)
      BY <1>1, <3>1, HolderLive
    <3> QED
      BY <1>0, <3>1, <3>2 DEF Same, Live
  <2> QED
    BY <2>1, <2>2 DEF HubsAbove
<1> QED
  BY <1>9, <1>12, <1>13

-----------------------------------------------------------------------------
(* The steps of a scan that leave the devices where they are                 *)

ScanHolds(s, d) ==
    IF s = NoScan THEN 0
    ELSE Count(s.unref, d) + Count(s.found, d)
         + (IF s.parent = d THEN 1 ELSE 0) + (IF s.dev = d THEN 1 ELSE 0)

LEMMA HeldIs ==
    ASSUME NEW t, NEW d
    PROVE  /\ HeldBy(t, d) = Count(lists[t], d) + Count(handles[t], d)
                             + Count(work[t], <<"unref", d>>) + ScanHolds(scan[t], d)
           /\ HeldBy(t, d)' = Count(lists'[t], d) + Count(handles'[t], d)
                              + Count(work'[t], <<"unref", d>>) + ScanHolds(scan'[t], d)
  BY DEF HeldBy, ScanHolds

LEMMA ScanHoldsType ==
    ASSUME NEW s, ScanTyped(s), NEW d \in Devs
    PROVE  /\ ScanHolds(s, d) \in Nat
           /\ s # NoScan => Count(s.unref, d) \in Nat /\ Count(s.found, d) \in Nat
<1>1. s # NoScan => s.unref \in Seq(Devs) /\ s.found \in Seq(Devs)
  BY DEF ScanTyped
<1>2. s # NoScan => Count(s.unref, d) \in Nat /\ Count(s.found, d) \in Nat
  BY <1>1, CountType
<1> QED
  BY <1>2 DEF ScanHolds

LEMMA SkipHolds ==
    ASSUME NEW s, ScanTyped(s), s # NoScan, NEW d \in Devs
    PROVE  /\ ScanHolds(s, d) = ScanHolds(Skip(s), d) + (IF s.parent = d THEN 1 ELSE 0)
                                + (IF s.dev = d THEN 1 ELSE 0)
           /\ ScanHolds(Skip(s), d) = Count(s.unref, d) + Count(s.found, d)
           /\ ScanHolds(Skip(s), d) \in Nat
<1>1. /\ Skip(s) # NoScan /\ Skip(s).parent = 0 /\ Skip(s).dev = -1
      /\ Skip(s).unref = s.unref /\ Skip(s).found = s.found
  BY SkipIs
<1>2. d # 0 /\ d # -1
  BY DEF Devs
<1>3. Count(s.unref, d) \in Nat /\ Count(s.found, d) \in Nat
  BY ScanHoldsType
<1> QED
  BY <1>1, <1>2, <1>3 DEF ScanHolds

(* What a thread has in hand between two entries of a pass                   *)
LEMMA BetweenEntries ==
    ASSUME StateTyped, ScansSound, NEW t \in Users, scan[t] # NoScan, NEW s,
           s.dev = -1, s.parent = 0, s.want = scan[t].want, lists[t] = <<>>,
           s.want # None => handles[t] = <<>>
    PROVE  InHand(t, s)
  BY DEF InHand

\* The devices stay as they are.
LEMMA SameDevices ==
    ASSUME StateTyped, UNCHANGED <<devs, lost, changed>>
    PROVE  /\ \A d \in Devs : Same(devs'[d], devs[d])
           /\ \A d \in Devs : RefsOf(d)' = RefsOf(d) /\ RefsOf(d) \in Nat
           /\ Overlapped' <=> Overlapped
           /\ \A d \in Devs : Live(d)' <=> Live(d)
           /\ DeviceMap(devs')
<1>1. DeviceMap(devs')
  BY DEF StateTyped, DeviceMap
<1> QED
  BY <1>1, RefsNat DEF Same, RefsOf, Live, Overlapped

LEMMA ShiftedSame ==
    ASSUME StateTyped, UNCHANGED <<devs, lost, changed>>, NEW t \in Users,
           \A d \in Devs : /\ HeldBy(t, d)' = HeldBy(t, d) /\ HeldBy(t, d) \in Nat
                           /\ Count(work'[t], <<"free", d>>) = Count(work[t], <<"free", d>>)
    PROVE  Shifted(t)
<1>1. ASSUME NEW d \in Devs
      PROVE  /\ RefsOf(d)' > 0 <=> RefsOf(d) > 0
             /\ RefsOf(d)' = RefsOf(d) - HeldBy(t, d) + HeldBy(t, d)'
  <2>1. RefsOf(d)' = RefsOf(d) /\ RefsOf(d) \in Nat
    BY SameDevices
  <2>2. HeldBy(t, d)' = HeldBy(t, d) /\ HeldBy(t, d) \in Nat
    OBVIOUS
  <2> QED
    BY <2>1, <2>2
<1> QED
  BY <1>1 DEF Shifted

LEMMA NextPassStep == ASSUME HeldInv, NEW t \in Users, NextPass(t) PROVE HeldInv'
<1>1. StateTyped /\ Ordered /\ fault = "none" /\ Balanced /\ ScansSound /\ HubsAbove
  BY DEF HeldInv, NextPass, Scanning, Running
<1>2. /\ scan[t] # NoScan /\ scan[t].pass # "end" /\ (scan[t].todo = <<>> \/ scan[t].ret # "ok")
      /\ UNCHANGED <<plugged, plugs, scans, devs, work, lists, handles, changed, lost, fault>>
  BY DEF NextPass, Scanning
<1> DEFINE next == IF scan[t].ret # "ok" THEN "end" ELSE After[scan[t].pass]
           todo == IF next = "gen" THEN Entries("gen", plugged)
                   ELSE IF next = "end" THEN <<>> ELSE Entries(next, scan[t].seen)
<1>3. /\ next \in {"dev", "hcd", "gen", "ext", "end"}
      /\ scan' = [scan EXCEPT ![t].pass = next, ![t].todo = todo]
  <2>1. scan[t].pass \in {"hub", "dev", "hcd", "gen", "ext", "end"}
    BY <1>1, <1>2 DEF StateTyped, ScanTyped
  <2>2. next \in {"dev", "hcd", "gen", "ext", "end"}
    BY <1>2, <2>1 DEF After
  <2>3. scan' = [scan EXCEPT ![t].pass = next, ![t].todo = todo]
    BY DEF NextPass
  <2> QED
    BY <2>2, <2>3
<1> HIDE DEF next, todo
<1>4. ScanTyped(scan[t]) /\ InHand(t, scan[t])
  BY <1>1, <1>2 DEF StateTyped, ScansSound
<1>5. scan[t].dev = -1 /\ scan[t].parent = 0
  BY <1>2, <1>4 DEF InHand
<1> DEFINE s == scan[t]
           x == [s EXCEPT !.pass = next, !.todo = todo]
<1>6. /\ x = [f \in ScanFields |-> x[f]]
      /\ \A f \in ScanFields : x[f] = IF f = "pass" THEN next
                                      ELSE IF f = "todo" THEN todo ELSE s[f]
  <2>1. s = [f \in ScanFields |-> s[f]]
    BY <1>2, <1>4 DEF ScanTyped
  <2> HIDE DEF s
  <2> QED
    BY <2>1 DEF ScanFields
<1>7. scan' = [scan EXCEPT ![t] = x]
  BY <1>3
<1> HIDE DEF x
<1>8. /\ x.pass = next /\ x.parent = 0 /\ x.dev = -1 /\ x.want = s.want /\ x.unref = s.unref
      /\ x.found = s.found /\ x.ret = s.ret
  BY <1>5, <1>6 DEF ScanFields
<1>9. ScanTyped(x) /\ x # NoScan
  <2>1. x # NoScan
    BY <1>3, <1>8 DEF NoScan
  <2> QED
    BY <1>2, <1>3, <1>4, <1>6, <1>8, <2>1, DevsFinite DEF ScanTyped
<1>10. /\ scan' = [u \in Users |-> IF u = t THEN x ELSE scan[u]]
  BY <1>1, <1>7 DEF StateTyped
<1>11. StateTyped'
  BY <1>1, <1>2, <1>9, <1>10 DEF StateTyped, DeviceMap
<1>12. OnlyBy(t)
  BY <1>2, <1>10 DEF OnlyBy
<1>13. ASSUME NEW d \in Devs PROVE HeldBy(t, d)' = HeldBy(t, d) /\ HeldBy(t, d) \in Nat
  <2>1. scan'[t] = x
    BY <1>10
  <2>2. ScanHolds(x, d) = ScanHolds(s, d)
    BY <1>2, <1>5, <1>8, <1>9 DEF ScanHolds
  <2> QED
    BY <1>1, <1>2, <2>1, <2>2, HeldIs, HeldParts
<1>14. Quiet(t)
  <2>1. Len(handles[t]) <= 1
    BY <1>1 DEF Ordered
  <2>2. Shifted(t)
    BY <1>1, <1>2, <1>13, SameDevices DEF Shifted
  <2>3. scan'[t] = x /\ (InHand(t, x) => InHand(t, scan[t])')
    <3>1. scan'[t] = x
      BY <1>10
    <3>2. x.parent = 0
      BY <1>8
    <3> QED
      BY <1>2, <3>1, <3>2 DEF InHand
  <2>4. InHand(t, x)
    BY <1>2, <1>4, <1>8, <1>3 DEF InHand
  <2>5. ~Overlapped' => \A u \in Users \ {t} : scan[u] = NoScan
    BY <1>1, <1>2, SameDevices DEF ScansSound
  <2> QED
    BY <1>1, <1>2, <2>1, <2>2, <2>3, <2>4, <2>5, SameDevices DEF Quiet
<1> QED
  BY <1>1, <1>11, <1>12, <1>14, QuietStep

LEMMA GetDeviceListStep ==
    ASSUME HeldInv, NEW t \in Users, NEW want, GetDeviceList(t, want)
    PROVE  HeldInv'
<1>1. StateTyped /\ Ordered /\ fault = "none" /\ Balanced /\ ScansSound /\ HubsAbove
  BY DEF HeldInv, GetDeviceList, Running
<1>2. /\ scan[t] = NoScan /\ lists[t] = <<>> /\ (want # None => handles[t] = <<>>)
      /\ UNCHANGED <<plugged, plugs, devs, work, lists, handles, lost, fault>>
  BY DEF GetDeviceList
<1> DEFINE x == [pass |-> "hub", want |-> want, seen |-> plugged,
                 todo |-> Entries("hub", plugged), parent |-> 0, dev |-> -1,
                 unref |-> <<>>, found |-> <<>>, ret |-> "ok"]
<1>3. scan' = [scan EXCEPT ![t] = x]
  BY DEF GetDeviceList
<1>4. /\ x.parent = 0 /\ x.dev = -1 /\ x.pass = "hub" /\ x.want = want /\ x.unref = <<>>
      /\ x.found = <<>> /\ x = [f \in ScanFields |-> x[f]]
  BY DEF ScanFields
<1> HIDE DEF x
<1>5. x # NoScan
  BY <1>4 DEF NoScan
<1>6. ScanTyped(x)
  BY <1>4, DevsFinite DEF ScanTyped
<1>7. scan' = [u \in Users |-> IF u = t THEN x ELSE scan[u]]
  BY <1>1, <1>3 DEF StateTyped
<1>8. /\ changed' \in [Users -> SUBSET {"world", "scan"}]
      /\ Overlapped => Overlapped'
      /\ ~Overlapped' => \A u \in Users \ {t} : scan[u] = NoScan
  <2>1. CASE \E u \in Users \ {t} : scan[u] # NoScan
    <3>1. changed' = [u \in Users |-> changed[u] \cup {"scan"}]
      BY <2>1 DEF GetDeviceList
    <3> QED
      BY <1>1, <3>1 DEF StateTyped, Overlapped
  <2>2. CASE ~\E u \in Users \ {t} : scan[u] # NoScan
    <3>1. changed' = [changed EXCEPT ![t] = @ \ {"world"}]
      BY <2>2 DEF GetDeviceList
    <3> QED
      BY <1>1, <2>2, <3>1 DEF StateTyped, Overlapped
  <2> QED
    BY <2>1, <2>2
<1>9. StateTyped'
  BY <1>1, <1>2, <1>6, <1>7, <1>8 DEF StateTyped
<1>10. OnlyBy(t)
  BY <1>2, <1>7 DEF OnlyBy
<1>11. ASSUME NEW d \in Devs PROVE HeldBy(t, d)' = HeldBy(t, d) /\ HeldBy(t, d) \in Nat
  <2>1. scan'[t] = x
    BY <1>7
  <2>2. ScanHolds(x, d) = 0
    <3>1. d # 0 /\ d # -1
      BY DEF Devs
    <3> QED
      BY <1>4, <3>1, CountEmpty DEF ScanHolds
  <2>3. ScanHolds(scan[t], d) = 0
    BY <1>2 DEF ScanHolds
  <2> QED
    BY <1>1, <1>2, <2>1, <2>2, <2>3, HeldIs, HeldParts
<1>12. \A d \in Devs : Same(devs'[d], devs[d]) /\ RefsOf(d)' = RefsOf(d) /\ RefsOf(d) \in Nat
  BY <1>1, <1>2, RefsNat DEF Same, RefsOf, Live
<1>13. Quiet(t)
  <2>1. Len(handles[t]) <= 1
    BY <1>1 DEF Ordered
  <2>2. Shifted(t)
    BY <1>2, <1>11, <1>12 DEF Shifted
  <2>3. InHand(t, scan[t])'
    <3>1. scan'[t] = x
      BY <1>7
    <3> QED
      BY <1>2, <1>4, <3>1 DEF InHand
  <2> QED
    BY <1>1, <1>2, <1>8, <1>12, <2>1, <2>2, <2>3 DEF Quiet
<1> QED
  BY <1>1, <1>9, <1>10, <1>13, QuietStep

LEMMA UntrackStep == ASSUME HeldInv, NEW t \in Users, Untrack(t) PROVE HeldInv'
<1>1. StateTyped /\ Ordered /\ fault = "none" /\ Balanced /\ ScansSound /\ HubsAbove
  BY DEF HeldInv, Untrack, Scanning, Running
<1>2. /\ scan[t] # NoScan /\ work[t] = <<>> /\ scan[t].pass = "end"
      /\ UNCHANGED <<plugged, plugs, scans, devs, lists, handles, changed, lost, fault>>
      /\ work' = [work EXCEPT ![t] = Unrefs(scan[t].unref)]
      /\ scan' = [scan EXCEPT ![t].unref = <<>>]
  BY DEF Untrack, Scanning, Running
<1>3. ScanTyped(scan[t]) /\ InHand(t, scan[t])
  BY <1>1, <1>2 DEF StateTyped, ScansSound
<1> DEFINE s == scan[t]
           x == [s EXCEPT !.unref = <<>>]
<1>4. /\ x = [f \in ScanFields |-> x[f]]
      /\ \A f \in ScanFields : x[f] = IF f = "unref" THEN <<>> ELSE s[f]
  <2>1. s = [f \in ScanFields |-> s[f]]
    BY <1>2, <1>3 DEF ScanTyped
  <2> HIDE DEF s
  <2> QED
    BY <2>1 DEF ScanFields
<1>5. scan' = [u \in Users |-> IF u = t THEN x ELSE scan[u]]
  BY <1>1, <1>2 DEF StateTyped
<1> HIDE DEF x
<1>6. /\ x.pass = "end" /\ x.parent = s.parent /\ x.dev = s.dev /\ x.want = s.want
      /\ x.unref = <<>> /\ x.found = s.found /\ x.ret = s.ret /\ x.todo = s.todo
  BY <1>2, <1>4 DEF ScanFields
<1>7. ScanTyped(x) /\ x # NoScan
  <2>1. x # NoScan
    BY <1>6 DEF NoScan
  <2>2. /\ s.parent \in 0 .. MaxDevs /\ s.dev \in {-1} \cup 0 .. MaxDevs
        /\ s.found \in Seq(Devs)
    BY <1>2, <1>3 DEF ScanTyped
  <2> HIDE DEF s
  <2>3. x.found \in Seq(Devs) /\ x.unref \in Seq(Devs)
    BY <1>6, <2>2
  <2>4. x.pass \in {"hub", "dev", "hcd", "gen", "ext", "end"}
    BY <1>6
  <2>5. x.parent \in 0 .. MaxDevs /\ x.dev \in {-1} \cup 0 .. MaxDevs
    BY <1>6, <2>2
  <2> QED
    BY <1>4, <2>1, <2>3, <2>4, <2>5 DEF ScanTyped
<1>8. s.unref \in Seq(Devs)
  BY <1>2, <1>3 DEF ScanTyped
<1>9. work'[t] = Unrefs(s.unref) /\ Unrefs(s.unref) \in Seq(Tokens)
  BY <1>1, <1>2, <1>8, CountUnrefs DEF StateTyped, Tokens
<1>10. StateTyped'
  BY <1>1, <1>2, <1>5, <1>7, <1>9 DEF StateTyped
<1>11. OnlyBy(t)
  BY <1>1, <1>2, <1>5 DEF OnlyBy, StateTyped
<1>12. ASSUME NEW d \in Devs
       PROVE  /\ HeldBy(t, d)' = HeldBy(t, d) /\ HeldBy(t, d) \in Nat
              /\ Count(work'[t], <<"free", d>>) = Count(work[t], <<"free", d>>)
  <2>1. scan'[t] = x
    BY <1>5
  <2>2. Count(s.unref, d) \in Nat /\ Count(s.found, d) \in Nat
    BY <1>2, <1>3, ScanHoldsType
  <2>3. ScanHolds(s, d) = ScanHolds(x, d) + Count(s.unref, d) /\ ScanHolds(x, d) \in Nat
    BY <1>2, <1>6, <1>7, <2>2, CountEmpty DEF ScanHolds
  <2>4. /\ Count(work'[t], <<"unref", d>>) = Count(s.unref, d)
        /\ Count(work'[t], <<"free", d>>) = 0
    BY <1>8, <1>9, CountUnrefs
  <2>5. Count(work[t], <<"unref", d>>) = 0 /\ Count(work[t], <<"free", d>>) = 0
    BY <1>2, CountEmpty
  <2>6. Count(lists[t], d) \in Nat /\ Count(handles[t], d) \in Nat /\ HeldBy(t, d) \in Nat
    BY <1>1, HeldParts
  <2> QED
    <3>1. /\ HeldBy(t, d) = Count(lists[t], d) + Count(handles[t], d) + 0
                             + (ScanHolds(x, d) + Count(s.unref, d))
          /\ HeldBy(t, d)' = Count(lists[t], d) + Count(handles[t], d) + Count(s.unref, d)
                              + ScanHolds(x, d)
      BY <1>2, <2>1, <2>3, <2>4, <2>5, HeldIs
    <3> QED
      BY <2>2, <2>3, <2>4, <2>5, <2>6, <3>1
<1>13. Quiet(t)
  <2>1. Len(handles[t]) <= 1
    BY <1>1 DEF Ordered
  <2>2. Shifted(t)
    BY <1>1, <1>2, <1>12, ShiftedSame
  <2>3. InHand(t, scan[t])'
    <3>1. scan'[t] = x
      BY <1>5
    <3> QED
      BY <1>2, <1>3, <1>6, <3>1 DEF InHand
  <2>4. ~Overlapped' => \A u \in Users \ {t} : scan[u] = NoScan
    BY <1>1, <1>2, SameDevices DEF ScansSound
  <2> QED
    BY <1>1, <1>2, <2>1, <2>2, <2>3, <2>4, SameDevices DEF Quiet
<1> QED
  BY <1>1, <1>10, <1>11, <1>13, QuietStep

LEMMA CloseStep == ASSUME HeldInv, NEW t \in Users, Close(t) PROVE HeldInv'
<1>1. StateTyped /\ Ordered /\ fault = "none" /\ Balanced /\ ScansSound /\ HubsAbove
  BY DEF HeldInv, Close, Running
<1>2. /\ scan[t] = NoScan /\ work[t] = <<>> /\ handles[t] # <<>>
      /\ UNCHANGED <<plugged, plugs, scans, devs, scan, lists, changed, lost, fault>>
      /\ handles' = [handles EXCEPT ![t] = Tail(@)]
      /\ work' = [work EXCEPT ![t] = <<<<"unref", Head(handles[t])>>>>]
  BY DEF Close, Running
<1>3. handles[t] \in Seq(Devs) /\ Len(handles[t]) <= 1
  BY <1>1 DEF StateTyped, Ordered
<1>4. Head(handles[t]) \in Devs /\ Tail(handles[t]) \in Seq(Devs) /\ Len(Tail(handles[t])) <= 1
  BY <1>2, <1>3
<1>5. /\ handles'[t] = Tail(handles[t]) /\ work'[t] = <<<<"unref", Head(handles[t])>>>>
      /\ work'[t] \in Seq(Tokens)
  BY <1>1, <1>2, <1>4 DEF StateTyped, Tokens
<1>6. StateTyped'
  BY <1>1, <1>2, <1>4, <1>5 DEF StateTyped
<1>7. OnlyBy(t)
  BY <1>1, <1>2 DEF OnlyBy, StateTyped
<1>8. ASSUME NEW d \in Devs
      PROVE  /\ HeldBy(t, d)' = HeldBy(t, d) /\ HeldBy(t, d) \in Nat
             /\ Count(work'[t], <<"free", d>>) = Count(work[t], <<"free", d>>)
  <2>1. /\ Count(handles[t], d) = (IF d = Head(handles[t]) THEN 1 ELSE 0)
                                  + Count(Tail(handles[t]), d)
        /\ Count(Tail(handles[t]), d) \in Nat
    BY <1>2, <1>3, <1>4, CountTail, CountType
  <2>2. /\ Count(work'[t], <<"unref", d>>) = IF d = Head(handles[t]) THEN 1 ELSE 0
        /\ Count(work'[t], <<"free", d>>) = 0
    BY <1>5, CountOne
  <2>3. Count(work[t], <<"unref", d>>) = 0 /\ Count(work[t], <<"free", d>>) = 0
    BY <1>2, CountEmpty
  <2>4. /\ Count(lists[t], d) \in Nat /\ HeldBy(t, d) \in Nat
        /\ ScanHolds(scan[t], d) = 0
    BY <1>1, <1>2, HeldParts DEF ScanHolds
  <2> QED
    <3> DEFINE own == IF d = Head(handles[t]) THEN 1 ELSE 0
    <3>1. /\ HeldBy(t, d) = Count(lists[t], d) + (own + Count(Tail(handles[t]), d)) + 0 + 0
          /\ HeldBy(t, d)' = Count(lists[t], d) + Count(Tail(handles[t]), d) + own + 0
      BY <1>2, <1>5, <2>1, <2>2, <2>3, <2>4, HeldIs
    <3>2. own \in Nat
      OBVIOUS
    <3> HIDE DEF own
    <3> QED
      BY <2>1, <2>2, <2>3, <2>4, <3>1, <3>2
<1>9. Quiet(t)
  <2>1. Shifted(t)
    BY <1>1, <1>2, <1>8, ShiftedSame
  <2> QED
    BY <1>1, <1>2, <1>4, <1>5, <2>1, SameDevices DEF Quiet
<1> QED
  BY <1>1, <1>6, <1>7, <1>9, QuietStep

LEMMA FreeDeviceListStep ==
    ASSUME HeldInv, NEW t \in Users, FreeDeviceList(t)
    PROVE  HeldInv'
<1>1. StateTyped /\ Ordered /\ fault = "none" /\ Balanced /\ ScansSound /\ HubsAbove
  BY DEF HeldInv, FreeDeviceList, Running
<1>2. /\ scan[t] = NoScan /\ work[t] = <<>>
      /\ UNCHANGED <<plugged, plugs, scans, devs, scan, handles, changed, lost, fault>>
      /\ lists' = [lists EXCEPT ![t] = <<>>]
      /\ work' = [work EXCEPT ![t] = Unrefs(lists[t])]
  BY DEF FreeDeviceList, Running
<1>3. lists[t] \in Seq(Devs) /\ Len(handles[t]) <= 1
  BY <1>1 DEF StateTyped, Ordered
<1>4. /\ lists'[t] = <<>> /\ work'[t] = Unrefs(lists[t]) /\ Unrefs(lists[t]) \in Seq(Tokens)
  BY <1>1, <1>2, <1>3, CountUnrefs DEF StateTyped, Tokens
<1>5. StateTyped'
  BY <1>1, <1>2, <1>4 DEF StateTyped
<1>6. OnlyBy(t)
  BY <1>1, <1>2 DEF OnlyBy, StateTyped
<1>7. ASSUME NEW d \in Devs
      PROVE  /\ HeldBy(t, d)' = HeldBy(t, d) /\ HeldBy(t, d) \in Nat
             /\ Count(work'[t], <<"free", d>>) = Count(work[t], <<"free", d>>)
  <2>1. Count(lists'[t], d) = 0
    BY <1>4, CountEmpty
  <2>2. /\ Count(work'[t], <<"unref", d>>) = Count(lists[t], d)
        /\ Count(work'[t], <<"free", d>>) = 0
    BY <1>3, <1>4, CountUnrefs
  <2>3. Count(work[t], <<"unref", d>>) = 0 /\ Count(work[t], <<"free", d>>) = 0
    BY <1>2, CountEmpty
  <2>4. /\ Count(lists[t], d) \in Nat /\ Count(handles[t], d) \in Nat /\ HeldBy(t, d) \in Nat
        /\ ScanHolds(scan[t], d) = 0
    BY <1>1, <1>2, HeldParts DEF ScanHolds
  <2> QED
    BY <1>2, <2>1, <2>2, <2>3, <2>4, HeldIs
<1>8. Quiet(t)
  <2>1. Shifted(t)
    BY <1>1, <1>2, <1>7, ShiftedSame
  <2> QED
    BY <1>1, <1>2, <1>3, <2>1, SameDevices DEF Quiet
<1> QED
  BY <1>1, <1>5, <1>6, <1>8, QuietStep

-----------------------------------------------------------------------------
(* The steps that take references                                            *)

LEMMA Found ==
    ASSUME StateTyped, fault = "none", NEW p \in 0 .. MaxDevs, p # 0 => Live(p),
           NEW d \in 0 .. MaxDevs, d # 0 => Live(d),
           devs' = Ref(Ref(devs, p), d), FoundAtZero({p, d})
    PROVE  /\ DeviceMap(devs') /\ \A c \in Devs : Same(devs'[c], devs[c])
           /\ fault' \in {"none", "found while destroyed"}
           /\ \A c \in Devs : /\ RefsOf(c) \in Nat
                              /\ RefsOf(c)' = RefsOf(c) + (IF c = p THEN 1 ELSE 0)
                                              + (IF c = d THEN 1 ELSE 0)
           /\ fault' = "none" => \A c \in Devs : RefsOf(c)' > 0 <=> RefsOf(c) > 0
<1> DEFINE once == Ref(devs, p)
<1>1. DeviceMap(devs)
  BY DEF StateTyped, DeviceMap
<1>2. p # 0 => devs[p].life = "live"
  BY DEF Live
<1>3. /\ DeviceMap(once) /\ \A c \in Devs : Same(once[c], devs[c])
      /\ \A c \in Devs : devs[c].life = "live" =>
           devs[c].refs \in Nat /\ once[c].refs = devs[c].refs + (IF c = p THEN 1 ELSE 0)
  BY <1>1, <1>2, RefIs
<1> HIDE DEF once
<1>4. d # 0 => once[d].life = "live"
  BY <1>3, DeviceNumber DEF Same, Live
<1>5. devs' = Ref(once, d)
  BY DEF once
<1>6. /\ DeviceMap(devs') /\ \A c \in Devs : Same(devs'[c], once[c])
      /\ \A c \in Devs : once[c].life = "live" =>
           once[c].refs \in Nat /\ devs'[c].refs = once[c].refs + (IF c = d THEN 1 ELSE 0)
  BY <1>3, <1>4, <1>5, RefIs
<1>7. \A c \in Devs : Same(devs'[c], devs[c])
  BY <1>3, <1>6 DEF Same
<1>8. ASSUME NEW c \in Devs
      PROVE  /\ RefsOf(c) \in Nat
             /\ RefsOf(c)' = RefsOf(c) + (IF c = p THEN 1 ELSE 0) + (IF c = d THEN 1 ELSE 0)
  <2>1. RefsOf(c) \in Nat
    BY RefsNat
  <2>2. CASE Live(c)
    <3>1. /\ once[c].life = "live" /\ devs'[c].life = "live" /\ devs[c].life = "live"
      BY <1>3, <1>7, <2>2 DEF Same, Live
    <3>2. RefsOf(c) = devs[c].refs /\ RefsOf(c)' = devs'[c].refs
      BY <3>1 DEF RefsOf, Live
    <3> QED
      BY <1>3, <1>6, <2>1, <3>1, <3>2
  <2>3. CASE ~Live(c)
    <3>1. c # p /\ c # d
      BY <2>3 DEF Devs
    <3>2. ~Live(c)'
      BY <1>7, <2>3 DEF Same, Live
    <3>3. RefsOf(c) = 0 /\ RefsOf(c)' = 0
      BY <2>3, <3>2 DEF RefsOf
    <3> QED
      BY <3>1, <3>3
  <2> QED
    BY <2>1, <2>2, <2>3
<1>9. fault' \in {"none", "found while destroyed"}
  BY DEF FoundAtZero
<1>10. ASSUME fault' = "none", NEW c \in Devs PROVE RefsOf(c)' > 0 <=> RefsOf(c) > 0
  <2>1. c \in {p, d} => Live(c) /\ devs[c].refs # 0
    BY <1>10 DEF FoundAtZero, Devs
  <2>2. c \in {p, d} => RefsOf(c) # 0
    BY <2>1 DEF RefsOf
  <2>3. /\ RefsOf(c) \in Nat
        /\ RefsOf(c)' = RefsOf(c) + (IF c = p THEN 1 ELSE 0) + (IF c = d THEN 1 ELSE 0)
    BY <1>8
  <2>4. CASE c \in {p, d}
    BY <2>2, <2>3, <2>4
  <2>5. CASE c \notin {p, d}
    BY <2>3, <2>5
  <2> QED
    BY <2>4, <2>5
<1> QED
  BY <1>6, <1>7, <1>8, <1>9, <1>10

LEMMA FoundOne ==
    ASSUME StateTyped, fault = "none", NEW d \in 0 .. MaxDevs, d # 0 => Live(d),
           devs' = Ref(devs, d), FoundAtZero({d})
    PROVE  /\ DeviceMap(devs') /\ \A c \in Devs : Same(devs'[c], devs[c])
           /\ fault' \in {"none", "found while destroyed"}
           /\ \A c \in Devs : /\ RefsOf(c) \in Nat
                              /\ RefsOf(c)' = RefsOf(c) + (IF c = d THEN 1 ELSE 0)
           /\ fault' = "none" => \A c \in Devs : RefsOf(c)' > 0 <=> RefsOf(c) > 0
<1>1. devs' = Ref(Ref(devs, d), 0) /\ 0 \in 0 .. MaxDevs
  BY DevsFinite DEF Ref
<1>2. FoundAtZero({d, 0})
  BY DEF FoundAtZero
<1>3. \A c \in Devs : c # 0
  BY DEF Devs
<1>4. /\ DeviceMap(devs') /\ \A c \in Devs : Same(devs'[c], devs[c])
      /\ fault' \in {"none", "found while destroyed"}
      /\ \A c \in Devs : /\ RefsOf(c) \in Nat
                         /\ RefsOf(c)' = RefsOf(c) + (IF c = d THEN 1 ELSE 0)
                                         + (IF c = 0 THEN 1 ELSE 0)
      /\ fault' = "none" => \A c \in Devs : RefsOf(c)' > 0 <=> RefsOf(c) > 0
  BY <1>1, <1>2, Found
<1>5. ASSUME NEW c \in Devs
      PROVE  RefsOf(c) \in Nat /\ RefsOf(c)' = RefsOf(c) + (IF c = d THEN 1 ELSE 0)
  <2>1. /\ RefsOf(c) \in Nat /\ c # 0
        /\ RefsOf(c)' = RefsOf(c) + (IF c = d THEN 1 ELSE 0) + (IF c = 0 THEN 1 ELSE 0)
    BY <1>3, <1>4
  <2> QED
    BY <2>1
<1> QED
  BY <1>4, <1>5

(* A scan goes on to the next entry with what it took to be released.        *)
LEMMA SkipTyped ==
    ASSUME StateTyped, NEW t \in Users, scan[t] # NoScan, DeviceMap(devs'),
           UNCHANGED <<lists, handles, changed, lost>>,
           scan' = [scan EXCEPT ![t] = Skip(scan[t])],
           NEW w \in Seq(Tokens), work' = [work EXCEPT ![t] = w]
    PROVE  /\ StateTyped' /\ OnlyBy(t) /\ work'[t] = w
           /\ scan'[t] = Skip(scan[t]) /\ scan'[t] # NoScan
<1>1. ScanTyped(scan[t])
  BY DEF StateTyped
<1>2. ScanTyped(Skip(scan[t])) /\ Skip(scan[t]) # NoScan
  BY <1>1, SkipIs
<1>3. scan' = [u \in Users |-> IF u = t THEN Skip(scan[t]) ELSE scan[u]]
  BY DEF StateTyped
<1>4. StateTyped'
  BY <1>2, <1>3 DEF StateTyped, DeviceMap
<1> QED
  BY <1>2, <1>3, <1>4 DEF OnlyBy, StateTyped

LEMMA SkipQuiet ==
    ASSUME HeldInv, fault = "none", NEW t \in Users, scan[t] # NoScan,
           UNCHANGED <<lists, handles, changed, lost>>,
           scan' = [scan EXCEPT ![t] = Skip(scan[t])],
           \A d \in Devs : Same(devs'[d], devs[d]),
           fault' \in {"none", "found while destroyed"}, fault' = "none" => Shifted(t)
    PROVE  Quiet(t)
<1>1. StateTyped /\ Ordered /\ Balanced /\ ScansSound
  BY DEF HeldInv
<1>2. ScanTyped(scan[t]) /\ InHand(t, scan[t])
  BY <1>1 DEF StateTyped, ScansSound
<1>3. Overlapped' <=> Overlapped
  BY DEF Overlapped
<1>4. scan'[t] = Skip(scan[t])
  BY <1>1 DEF StateTyped
<1>5. /\ scan'[t].parent = 0 /\ scan'[t].dev = -1 /\ scan'[t].want = scan[t].want
  BY <1>2, <1>4, SkipIs
<1>6. InHand(t, scan[t])'
  BY <1>2, <1>5 DEF InHand
<1>7. ~Overlapped' => \A u \in Users \ {t} : scan[u] = NoScan
  BY <1>1, <1>3 DEF ScansSound
<1>8. Len(handles'[t]) <= 1
  BY <1>1 DEF Ordered
<1> QED
  BY <1>3, <1>6, <1>7, <1>8 DEF Quiet

(* What a thread holds, when an entry is left and one device is to be released. *)
LEMMA SkipHeld ==
    ASSUME StateTyped, NEW t \in Users, scan[t] # NoScan, work[t] = <<>>,
           UNCHANGED <<lists, handles>>, scan'[t] = Skip(scan[t]),
           NEW d \in 0 .. MaxDevs,
           work'[t] = IF d = 0 THEN <<>> ELSE <<<<"unref", d>>>>, NEW c \in Devs
    PROVE  /\ HeldBy(t, c) \in Nat
           /\ HeldBy(t, c)' = HeldBy(t, c) + (IF c = d THEN 1 ELSE 0)
                              - (IF scan[t].parent = c THEN 1 ELSE 0)
                              - (IF scan[t].dev = c THEN 1 ELSE 0)
           /\ Count(work'[t], <<"free", c>>) = Count(work[t], <<"free", c>>)
<1> DEFINE s == scan[t]
<1>1. ScanTyped(s)
  BY DEF StateTyped
<1>2. /\ ScanHolds(s, c) = ScanHolds(Skip(s), c) + (IF s.parent = c THEN 1 ELSE 0)
                           + (IF s.dev = c THEN 1 ELSE 0)
      /\ ScanHolds(Skip(s), c) \in Nat
  BY <1>1, SkipHolds
<1>3. /\ Count(work'[t], <<"unref", c>>) = IF c = d THEN 1 ELSE 0
      /\ Count(work'[t], <<"free", c>>) = 0
  <2>1. CASE d = 0
    BY <2>1, CountEmpty DEF Devs
  <2>2. CASE d # 0
    BY <2>2, CountOne
  <2> QED
    BY <2>1, <2>2
<1>4. Count(work[t], <<"unref", c>>) = 0 /\ Count(work[t], <<"free", c>>) = 0
  BY CountEmpty
<1>5. Count(lists[t], c) \in Nat /\ Count(handles[t], c) \in Nat /\ HeldBy(t, c) \in Nat
  BY HeldParts
<1> DEFINE a == IF c = d THEN 1 ELSE 0
           b == IF s.parent = c THEN 1 ELSE 0
           e == IF s.dev = c THEN 1 ELSE 0
           k == ScanHolds(Skip(s), c)
<1>6. a \in Nat /\ b \in Nat /\ e \in Nat
  OBVIOUS
<1>7. /\ HeldBy(t, c) = Count(lists[t], c) + Count(handles[t], c) + 0 + (k + b + e)
      /\ HeldBy(t, c)' = Count(lists[t], c) + Count(handles[t], c) + a + k
  BY <1>2, <1>3, <1>4, HeldIs
<1>8. k \in Nat
  BY <1>2
<1> HIDE DEF a, b, e, k
<1>9. HeldBy(t, c)' = HeldBy(t, c) + a - b - e
  BY <1>5, <1>6, <1>7, <1>8
<1> QED
  BY <1>3, <1>4, <1>5, <1>9 DEF a, b, e

LEMMA LookUpStep == ASSUME HeldInv, NEW t \in Users, LookUp(t) PROVE HeldInv'
<1>1. StateTyped /\ Ordered /\ fault = "none" /\ Balanced /\ ScansSound /\ HubsAbove
  BY DEF HeldInv, LookUp, Scanning, Running
<1>2. /\ scan[t] # NoScan /\ work[t] = <<>> /\ scan[t].ret = "ok" /\ scan[t].todo # <<>>
      /\ scan[t].dev = -1 /\ scan[t].pass \in {"hub", "dev", "gen", "ext"}
      /\ UNCHANGED <<plugged, plugs, scans, lists, handles, changed, lost>>
  BY DEF LookUp, Scanning, Running
<1>3. ScanTyped(scan[t]) /\ InHand(t, scan[t]) /\ scan[t].parent = 0
  BY <1>1, <1>2 DEF StateTyped, ScansSound, InHand
<1> DEFINE s == scan[t]
           n == Entry(t).place
           p == IF scan[t].pass \in {"gen", "ext"} THEN Ancestor(n) ELSE 0
           d == IF scan[t].pass = "ext" THEN 0 ELSE Known(n)
           leftOut == scan[t].pass = "gen" /\ p # 0 /\ devs[p].api # "hub"
           unlisted == p = 0 /\ \/ scan[t].pass = "ext"
                                \/ scan[t].pass = "gen" /\ (d = 0 \/ Above[n] # Top)
                                \/ scan[t].pass = "gen" /\ d # 0 /\ devs[d].bus = 0
<1>4. /\ p \in 0 .. MaxDevs /\ (p # 0 => Live(p))
      /\ d \in 0 .. MaxDevs /\ (d # 0 => Live(d))
  BY AncestorIs, KnownIs, DevsFinite
<1>5. \/ leftOut /\ devs' = Ref(devs, p) /\ FoundAtZero({p})
                 /\ work' = [work EXCEPT ![t] = <<<<"unref", p>>>>]
                 /\ scan' = [scan EXCEPT ![t] = Skip(@)]
      \/ unlisted /\ devs' = Ref(devs, d) /\ FoundAtZero({d})
                  /\ work' = [work EXCEPT ![t] = IF d = 0 THEN <<>> ELSE <<<<"unref", d>>>>]
                  /\ scan' = [scan EXCEPT ![t] = Skip(@)]
      \/ /\ ~leftOut /\ ~unlisted /\ devs' = Ref(Ref(devs, p), d) /\ FoundAtZero({p, d})
         /\ scan' = [scan EXCEPT ![t].parent = p, ![t].dev = d] /\ UNCHANGED work
  BY DEF LookUp
<1>6. leftOut => p # 0
  OBVIOUS
<1>7. ~leftOut /\ ~unlisted => /\ s.pass = "gen" /\ p # 0 => devs[p].api = "hub"
                               /\ s.pass = "ext" => p # 0 /\ d = 0
                               /\ s.pass \in {"hub", "dev"} => p = 0
                               /\ s.pass = "gen" => p = Ancestor(n)
  OBVIOUS
<1> HIDE DEF p, d, leftOut, unlisted
\* one device found for an entry that is left out
<1>8. ASSUME NEW q \in 0 .. MaxDevs, q # 0 => Live(q), devs' = Ref(devs, q), FoundAtZero({q}),
             work' = [work EXCEPT ![t] = IF q = 0 THEN <<>> ELSE <<<<"unref", q>>>>],
             scan' = [scan EXCEPT ![t] = Skip(@)]
      PROVE  HeldInv'
  <2>1. /\ DeviceMap(devs') /\ \A c \in Devs : Same(devs'[c], devs[c])
        /\ fault' \in {"none", "found while destroyed"}
        /\ \A c \in Devs : /\ RefsOf(c) \in Nat
                           /\ RefsOf(c)' = RefsOf(c) + (IF c = q THEN 1 ELSE 0)
        /\ fault' = "none" => \A c \in Devs : RefsOf(c)' > 0 <=> RefsOf(c) > 0
    BY <1>1, <1>8, FoundOne
  <2> DEFINE w == IF q = 0 THEN <<>> ELSE <<<<"unref", q>>>>
  <2>2. w \in Seq(Tokens)
    BY <1>8, DeviceNumber DEF Tokens
  <2>3. StateTyped' /\ OnlyBy(t) /\ work'[t] = w /\ scan'[t] = Skip(scan[t])
    <3>1. work' = [work EXCEPT ![t] = w] /\ scan' = [scan EXCEPT ![t] = Skip(scan[t])]
      BY <1>8
    <3> HIDE DEF w
    <3> QED
      BY <1>1, <1>2, <2>1, <2>2, <3>1, SkipTyped
  <2>4. ASSUME fault' = "none", NEW c \in Devs
        PROVE  /\ RefsOf(c)' > 0 <=> RefsOf(c) > 0
               /\ RefsOf(c)' = RefsOf(c) - HeldBy(t, c) + HeldBy(t, c)'
               /\ Count(work'[t], <<"free", c>>) = Count(work[t], <<"free", c>>)
    <3>1. /\ HeldBy(t, c) \in Nat
          /\ HeldBy(t, c)' = HeldBy(t, c) + (IF c = q THEN 1 ELSE 0)
                             - (IF scan[t].parent = c THEN 1 ELSE 0)
                             - (IF scan[t].dev = c THEN 1 ELSE 0)
          /\ Count(work'[t], <<"free", c>>) = Count(work[t], <<"free", c>>)
      BY <1>1, <1>2, <1>8, <2>3, SkipHeld
    <3>2. c # 0 /\ c # -1
      BY DEF Devs
    <3>3. HeldBy(t, c)' = HeldBy(t, c) + (IF c = q THEN 1 ELSE 0)
      BY <1>2, <1>3, <3>1, <3>2
    <3>4. RefsOf(c) \in Nat /\ RefsOf(c)' = RefsOf(c) + (IF c = q THEN 1 ELSE 0)
      BY <2>1
    <3>5. RefsOf(c)' = RefsOf(c) - HeldBy(t, c) + HeldBy(t, c)'
      BY <3>1, <3>3, <3>4
    <3> QED
      BY <2>1, <2>4, <3>1, <3>5
  <2>5. Quiet(t)
    <3>1. fault' = "none" => Shifted(t)
      BY <2>4 DEF Shifted
    <3>2. scan' = [scan EXCEPT ![t] = Skip(scan[t])]
      BY <1>8
    <3> QED
      BY <1>1, <1>2, <2>1, <3>1, <3>2, SkipQuiet
  <2> QED
    BY <1>1, <2>3, <2>5, QuietStep
<1>9. CASE leftOut /\ devs' = Ref(devs, p) /\ FoundAtZero({p})
                 /\ work' = [work EXCEPT ![t] = <<<<"unref", p>>>>]
                 /\ scan' = [scan EXCEPT ![t] = Skip(@)]
  BY <1>4, <1>6, <1>8, <1>9
<1>10. CASE unlisted /\ devs' = Ref(devs, d) /\ FoundAtZero({d})
                  /\ work' = [work EXCEPT ![t] = IF d = 0 THEN <<>> ELSE <<<<"unref", d>>>>]
                  /\ scan' = [scan EXCEPT ![t] = Skip(@)]
  BY <1>4, <1>8, <1>10
<1>11. CASE /\ ~leftOut /\ ~unlisted /\ devs' = Ref(Ref(devs, p), d) /\ FoundAtZero({p, d})
            /\ scan' = [scan EXCEPT ![t].parent = p, ![t].dev = d] /\ UNCHANGED work
  <2>1. /\ DeviceMap(devs') /\ \A c \in Devs : Same(devs'[c], devs[c])
        /\ fault' \in {"none", "found while destroyed"}
        /\ \A c \in Devs : /\ RefsOf(c) \in Nat
                           /\ RefsOf(c)' = RefsOf(c) + (IF c = p THEN 1 ELSE 0)
                                           + (IF c = d THEN 1 ELSE 0)
        /\ fault' = "none" => \A c \in Devs : RefsOf(c)' > 0 <=> RefsOf(c) > 0
    BY <1>1, <1>4, <1>11, Found
  <2> DEFINE x == [s EXCEPT !.parent = p, !.dev = d]
  <2>2. /\ x = [f \in ScanFields |-> x[f]]
        /\ \A f \in ScanFields : x[f] = IF f = "parent" THEN p
                                        ELSE IF f = "dev" THEN d ELSE s[f]
    <3>1. s = [f \in ScanFields |-> s[f]]
      BY <1>2, <1>3 DEF ScanTyped
    <3> HIDE DEF s
    <3> QED
      BY <3>1 DEF ScanFields
  <2>3. scan' = [u \in Users |-> IF u = t THEN x ELSE scan[u]]
    BY <1>1, <1>11 DEF StateTyped
  <2> HIDE DEF x
  <2>4. /\ x.pass = s.pass /\ x.parent = p /\ x.dev = d /\ x.want = s.want /\ x.unref = s.unref
        /\ x.found = s.found /\ x.ret = s.ret /\ x.todo = s.todo
    BY <2>2 DEF ScanFields
  <2>5. ScanTyped(x) /\ x # NoScan
    <3>1. x # NoScan
      BY <1>2, <2>4 DEF NoScan
    <3>2. s.found \in Seq(Devs) /\ s.unref \in Seq(Devs)
      BY <1>2, <1>3 DEF ScanTyped
    <3> HIDE DEF s
    <3>3. x.found \in Seq(Devs) /\ x.unref \in Seq(Devs)
      BY <2>4, <3>2
    <3>4. x.pass \in {"hub", "dev", "hcd", "gen", "ext", "end"}
      BY <1>2, <2>4 DEF s
    <3>5. x.parent \in 0 .. MaxDevs /\ x.dev \in {-1} \cup 0 .. MaxDevs
      BY <1>4, <2>4
    <3> QED
      BY <2>2, <3>1, <3>3, <3>4, <3>5 DEF ScanTyped
  <2>6. scan'[t] = x
    BY <2>3
  <2>7. StateTyped'
    BY <1>1, <1>2, <1>11, <2>1, <2>3, <2>5 DEF StateTyped, DeviceMap
  <2>8. OnlyBy(t)
    BY <1>2, <1>11, <2>3 DEF OnlyBy
  <2>9. ASSUME NEW c \in Devs
        PROVE  /\ HeldBy(t, c) \in Nat
               /\ HeldBy(t, c)' = HeldBy(t, c) + (IF c = p THEN 1 ELSE 0)
                                  + (IF c = d THEN 1 ELSE 0)
    <3>1. /\ Count(s.unref, c) \in Nat /\ Count(s.found, c) \in Nat
          /\ Count(lists[t], c) \in Nat /\ Count(handles[t], c) \in Nat
          /\ HeldBy(t, c) \in Nat /\ Count(work[t], <<"unref", c>>) \in Nat
      BY <1>1, <1>2, HeldParts
    <3>2. c # 0 /\ c # -1
      BY DEF Devs
    <3> DEFINE a == IF c = p THEN 1 ELSE 0
               b == IF c = d THEN 1 ELSE 0
               k == Count(s.unref, c) + Count(s.found, c)
    <3>3. ScanHolds(s, c) = k
      BY <1>2, <1>3, <3>1, <3>2 DEF ScanHolds
    <3>4. ScanHolds(x, c) = k + a + b
      BY <2>4, <2>5, <3>1 DEF ScanHolds
    <3>5. a \in Nat /\ b \in Nat /\ k \in Nat
      BY <3>1
    <3> HIDE DEF a, b, k
    <3>6. /\ HeldBy(t, c) = Count(lists[t], c) + Count(handles[t], c)
                            + Count(work[t], <<"unref", c>>) + k
          /\ HeldBy(t, c)' = Count(lists[t], c) + Count(handles[t], c)
                             + Count(work[t], <<"unref", c>>) + (k + a + b)
      BY <1>2, <1>11, <2>6, <3>3, <3>4, HeldIs
    <3>7. HeldBy(t, c)' = HeldBy(t, c) + a + b
      BY <3>1, <3>5, <3>6
    <3> QED
      BY <3>1, <3>7 DEF a, b
  <2>10. ASSUME fault' = "none", NEW c \in Devs
         PROVE  /\ RefsOf(c)' > 0 <=> RefsOf(c) > 0
                /\ RefsOf(c)' = RefsOf(c) - HeldBy(t, c) + HeldBy(t, c)'
                /\ Count(work'[t], <<"free", c>>) = Count(work[t], <<"free", c>>)
    <3>1. /\ RefsOf(c) \in Nat
          /\ RefsOf(c)' = RefsOf(c) + (IF c = p THEN 1 ELSE 0) + (IF c = d THEN 1 ELSE 0)
      BY <2>1
    <3>2. RefsOf(c)' = RefsOf(c) - HeldBy(t, c) + HeldBy(t, c)'
      BY <2>9, <3>1
    <3> QED
      BY <1>11, <2>1, <2>10, <3>2
  <2>11. Quiet(t)
    <3>1. fault' = "none" => Shifted(t)
      BY <2>10 DEF Shifted
    <3>2. Len(handles'[t]) <= 1 /\ (Overlapped' <=> Overlapped)
      BY <1>1, <1>2 DEF Ordered, Overlapped
    <3>3. ~Overlapped' => \A u \in Users \ {t} : scan[u] = NoScan
      BY <1>1, <1>2, <3>2 DEF ScansSound
    <3>4. InHand(t, scan[t])'
      <4>1. ListedSame
        BY <2>1 DEF Same, ListedSame, Live
      <4>3. n = Head(s.todo).place
        BY DEF Entry
      <4>4. p # 0 => devs'[p].api = devs[p].api
        BY <1>4, <2>1, DeviceNumber DEF Same, Live
      <4>5. Ancestor(Head(scan[t].todo).place)' = Ancestor(n)
        <5>1. scan'[t].todo = s.todo
          BY <2>4, <2>6
        <5>2. \A m : Ancestor(m)' = Ancestor(m)
          BY <4>1, AncestorAgain
        <5> QED
          BY <4>3, <5>1, <5>2
      <4>6. /\ scan'[t].pass = s.pass /\ scan'[t].parent = p /\ scan'[t].dev = d
            /\ scan'[t].want = s.want /\ scan'[t].ret = s.ret /\ scan'[t].todo = s.todo
        BY <2>4, <2>6
      <4>7. d # -1
        BY <1>4
      <4>8. lists'[t] = <<>> /\ (s.want # None => handles'[t] = <<>>)
        BY <1>2, <1>3 DEF InHand
      <4>9. s.pass = "gen" /\ p # 0 => devs'[p].api = "hub"
        BY <1>7, <1>11, <4>4
      <4>10. s.pass = "gen" => Ancestor(Head(scan[t].todo).place)' = p
        BY <1>7, <1>11, <4>5
      <4>11. /\ s.pass \in {"hub", "dev"} => p = 0
             /\ s.pass = "ext" => p # 0 /\ d = 0
        BY <1>7, <1>11
      <4> QED
        BY <1>2, <4>6, <4>7, <4>8, <4>9, <4>10, <4>11 DEF InHand
    <3> QED
      BY <1>2, <2>1, <3>1, <3>2, <3>3, <3>4 DEF Quiet
  <2> QED
    BY <1>1, <2>7, <2>8, <2>11, QuietStep
<1> QED
  BY <1>5, <1>9, <1>10, <1>11

KeptFields(x, r) == /\ x.life = r.life /\ x.place = r.place /\ x.listed = r.listed
                    /\ x.parent = r.parent /\ x.api = r.api /\ x.refs = r.refs

LEMMA FieldsSet ==
    ASSUME NEW r, DeviceTyped(r), r.life = "live", NEW x, x = [f \in DeviceFields |-> x[f]],
           KeptFields(x, r)
    PROVE  DeviceTyped(x) /\ Same(x, r) /\ x.refs = r.refs /\ x.life = "live"
<1>1. /\ r.parent \in 0 .. MaxDevs /\ r.listed \in BOOLEAN /\ r.refs \in Nat
  BY DEF DeviceTyped
<1>2. /\ x.life = "live" /\ x.place = r.place /\ x.listed = r.listed
      /\ x.parent = r.parent /\ x.api = r.api /\ x.refs = r.refs
  BY DEF KeptFields
<1> QED
  BY <1>1, <1>2 DEF DeviceTyped, Same

\* next is all, with x for the live device d and what counts of it kept.
OneMark(next, all, d, x) ==
    /\ DeviceMap(all) /\ d \in Devs /\ all[d].life = "live"
    /\ x = [f \in DeviceFields |-> x[f]] /\ KeptFields(x, all[d])
    /\ next = [all EXCEPT ![d] = x]

LEMMA OneMarked ==
    ASSUME NEW next, NEW all, NEW d, NEW x, OneMark(next, all, d, x)
    PROVE  /\ DeviceMap(next)
           /\ \A c \in Devs : /\ Same(next[c], all[c])
                              /\ all[c].life = "live" => next[c].refs = all[c].refs
<1>0. /\ DeviceMap(all) /\ d \in Devs /\ all[d].life = "live"
      /\ x = [f \in DeviceFields |-> x[f]] /\ KeptFields(x, all[d])
      /\ next = [all EXCEPT ![d] = x]
  BY DEF OneMark
<1>1. next = [c \in Devs |-> IF c = d THEN x ELSE all[c]]
  BY <1>0 DEF DeviceMap
<1>2. next = [c \in Devs |-> next[c]] /\ \A c \in Devs : next[c] = IF c = d THEN x ELSE all[c]
  BY <1>1
<1>3. DeviceTyped(x) /\ Same(x, all[d]) /\ x.refs = all[d].refs
  BY <1>0, FieldsSet DEF DeviceMap
<1>4. \A c \in Devs : Same(all[c], all[c])
  BY DEF Same
<1> QED
  BY <1>0, <1>2, <1>3, <1>4 DEF DeviceMap

LEMMA FoundMarked ==
    ASSUME StateTyped, fault = "none", NEW d \in Devs, Live(d),
           devs' = [Ref(devs, d) EXCEPT ![d].bus = 1], FoundAtZero({d})
    PROVE  /\ DeviceMap(devs') /\ \A c \in Devs : Same(devs'[c], devs[c])
           /\ fault' \in {"none", "found while destroyed"}
           /\ \A c \in Devs : /\ RefsOf(c) \in Nat
                              /\ RefsOf(c)' = RefsOf(c) + (IF c = d THEN 1 ELSE 0)
           /\ fault' = "none" => \A c \in Devs : RefsOf(c)' > 0 <=> RefsOf(c) > 0
<1> DEFINE once == Ref(devs, d)
           x == [once[d] EXCEPT !.bus = 1]
<1>1. DeviceMap(devs) /\ devs[d].life = "live" /\ d \in 0 .. MaxDevs
  BY DevsFinite DEF StateTyped, DeviceMap, Live, Devs
<1>2. /\ DeviceMap(once) /\ \A c \in Devs : Same(once[c], devs[c])
      /\ \A c \in Devs : devs[c].life = "live" =>
           devs[c].refs \in Nat /\ once[c].refs = devs[c].refs + (IF c = d THEN 1 ELSE 0)
  BY <1>1, RefIs
<1> HIDE DEF once
<1>3. once[d].life = "live"
  BY <1>1, <1>2 DEF Same
<1>4. /\ x = [f \in DeviceFields |-> x[f]]
      /\ KeptFields(x, once[d])
  <2>1. once[d] = [f \in DeviceFields |-> once[d][f]]
    BY <1>2, <1>3 DEF DeviceMap, DeviceTyped
  <2> QED
    BY <2>1 DEF DeviceFields, KeptFields
<1>5. devs' = [once EXCEPT ![d] = x]
  BY DEF once
<1> HIDE DEF x
<1>6. /\ DeviceMap(devs')
      /\ \A c \in Devs : /\ Same(devs'[c], once[c])
                         /\ once[c].life = "live" => devs'[c].refs = once[c].refs
  <2> DEFINE next == devs'
  <2>1. next = [once EXCEPT ![d] = x]
    BY <1>5
  <2> HIDE DEF next
  <2>2. /\ DeviceMap(next)
        /\ \A c \in Devs : /\ Same(next[c], once[c])
                           /\ once[c].life = "live" => next[c].refs = once[c].refs
    <3>1. OneMark(next, once, d, x)
      BY <1>2, <1>3, <1>4, <2>1 DEF OneMark
    <3> QED
      BY <3>1, OneMarked
  <2> QED
    BY <2>2 DEF next
<1>7. \A c \in Devs : Same(devs'[c], devs[c])
  BY <1>2, <1>6 DEF Same
<1>8. ASSUME NEW c \in Devs
      PROVE  RefsOf(c) \in Nat /\ RefsOf(c)' = RefsOf(c) + (IF c = d THEN 1 ELSE 0)
  <2>1. RefsOf(c) \in Nat
    BY RefsNat
  <2>2. CASE Live(c)
    <3>1. /\ once[c].life = "live" /\ devs'[c].life = "live" /\ devs[c].life = "live"
      BY <1>2, <1>7, <2>2 DEF Same, Live
    <3>2. RefsOf(c) = devs[c].refs /\ RefsOf(c)' = devs'[c].refs
      BY <3>1 DEF RefsOf, Live
    <3> QED
      BY <1>2, <1>6, <2>1, <3>1, <3>2
  <2>3. CASE ~Live(c)
    <3>1. ~Live(c)' /\ c # d
      BY <1>7, <2>3 DEF Same, Live
    <3>2. RefsOf(c) = 0 /\ RefsOf(c)' = 0
      BY <2>3, <3>1 DEF RefsOf
    <3> QED
      BY <3>1, <3>2
  <2> QED
    BY <2>1, <2>2, <2>3
<1>9. fault' \in {"none", "found while destroyed"}
  BY DEF FoundAtZero
<1>10. ASSUME fault' = "none", NEW c \in Devs PROVE RefsOf(c)' > 0 <=> RefsOf(c) > 0
  <2>1. c = d => Live(c) /\ devs[c].refs # 0
    BY <1>10 DEF FoundAtZero, Devs
  <2>2. c = d => RefsOf(c) # 0
    BY <2>1 DEF RefsOf
  <2>3. RefsOf(c) \in Nat /\ RefsOf(c)' = RefsOf(c) + (IF c = d THEN 1 ELSE 0)
    BY <1>8
  <2>4. CASE c = d
    BY <2>2, <2>3, <2>4
  <2>5. CASE c # d
    BY <2>3, <2>5
  <2> QED
    BY <2>4, <2>5
<1> QED
  BY <1>6, <1>7, <1>8, <1>9, <1>10

LEMMA RootHubStep == ASSUME HeldInv, NEW t \in Users, RootHub(t) PROVE HeldInv'
<1>1. StateTyped /\ Ordered /\ fault = "none" /\ Balanced /\ ScansSound /\ HubsAbove
  BY DEF HeldInv, RootHub, Scanning, Running
<1>2. /\ scan[t] # NoScan /\ work[t] = <<>> /\ scan[t].pass = "hcd"
      /\ UNCHANGED <<plugged, plugs, scans, lists, handles, changed, lost>>
  BY DEF RootHub, Scanning, Running
<1>3. ScanTyped(scan[t]) /\ InHand(t, scan[t]) /\ scan[t].parent = 0 /\ scan[t].dev = -1
  BY <1>1, <1>2 DEF StateTyped, ScansSound, InHand
<1> DEFINE d == Known(Entry(t).place)
<1>4. d \in 0 .. MaxDevs /\ (d # 0 => d \in Devs /\ Live(d))
  BY KnownIs
<1>5. \/ /\ scan' = [scan EXCEPT ![t] = [Skip(@) EXCEPT !.ret = "no device"]]
         /\ UNCHANGED <<devs, work, fault>>
      \/ /\ d # 0 /\ devs' = [Ref(devs, d) EXCEPT ![d].bus = 1]
         /\ FoundAtZero({d}) /\ work' = [work EXCEPT ![t] = <<<<"unref", d>>>>]
         /\ scan' = [scan EXCEPT ![t] = Skip(@)]
  BY DEF RootHub
<1> HIDE DEF d
<1>6. CASE /\ scan' = [scan EXCEPT ![t] = [Skip(@) EXCEPT !.ret = "no device"]]
           /\ UNCHANGED <<devs, work, fault>>
  <2> DEFINE x == [Skip(scan[t]) EXCEPT !.ret = "no device"]
             y == Skip(scan[t])
  <2>1. /\ y # NoScan /\ y.parent = 0 /\ y.dev = -1 /\ y.pass = "hcd" /\ y.want = scan[t].want
        /\ y.unref = scan[t].unref /\ y.found = scan[t].found /\ y = [f \in ScanFields |-> y[f]]
        /\ ScanTyped(y)
    BY <1>2, <1>3, SkipIs
  <2> HIDE DEF y
  <2>2. /\ x = [f \in ScanFields |-> x[f]]
        /\ \A f \in ScanFields : x[f] = IF f = "ret" THEN "no device" ELSE y[f]
    <3>1. x = [y EXCEPT !.ret = "no device"]
      BY DEF y
    <3> HIDE DEF x
    <3> QED
      BY <2>1, <3>1 DEF ScanFields
  <2>3. scan' = [u \in Users |-> IF u = t THEN x ELSE scan[u]]
    BY <1>1, <1>6 DEF StateTyped
  <2> HIDE DEF x
  <2>4. /\ x.parent = 0 /\ x.dev = -1 /\ x.pass = "hcd" /\ x.want = scan[t].want
        /\ x.unref = y.unref /\ x.found = y.found
    BY <2>1, <2>2 DEF ScanFields
  <2>5. ScanTyped(x) /\ x # NoScan
    <3>1. x # NoScan
      BY <2>4 DEF NoScan
    <3>2. y.unref \in Seq(Devs) /\ y.found \in Seq(Devs)
      BY <2>1 DEF ScanTyped
    <3>3. x.unref \in Seq(Devs) /\ x.found \in Seq(Devs) /\ 0 \in 0 .. MaxDevs
      BY <2>4, <3>2, DevsFinite
    <3> QED
      BY <2>2, <2>4, <3>1, <3>3 DEF ScanTyped
  <2>6. scan'[t] = x
    BY <2>3
  <2>7. StateTyped'
    BY <1>1, <1>2, <1>6, <2>3, <2>5 DEF StateTyped
  <2>8. OnlyBy(t)
    BY <1>2, <1>6, <2>3 DEF OnlyBy
  <2>9. ASSUME NEW c \in Devs
        PROVE  /\ HeldBy(t, c)' = HeldBy(t, c) /\ HeldBy(t, c) \in Nat
               /\ Count(work'[t], <<"free", c>>) = Count(work[t], <<"free", c>>)
    <3>1. c # 0 /\ c # -1
      BY DEF Devs
    <3>2. ScanHolds(x, c) = ScanHolds(scan[t], c)
      BY <1>2, <1>3, <2>1, <2>4, <2>5, <3>1 DEF ScanHolds
    <3> QED
      BY <1>1, <1>2, <1>6, <2>6, <3>2, HeldIs, HeldParts
  <2>10. Quiet(t)
    <3>1. Shifted(t)
      BY <1>1, <1>2, <1>6, <2>9, ShiftedSame
    <3>2. Len(handles'[t]) <= 1
      BY <1>1, <1>2 DEF Ordered
    <3>3. InHand(t, scan[t])'
      BY <1>2, <1>3, <2>4, <2>6 DEF InHand
    <3>4. ~Overlapped' => \A u \in Users \ {t} : scan[u] = NoScan
      BY <1>1, <1>2, <1>6, SameDevices DEF ScansSound
    <3> QED
      BY <1>1, <1>2, <1>6, <3>1, <3>2, <3>3, <3>4, SameDevices DEF Quiet
  <2> QED
    BY <1>1, <2>7, <2>8, <2>10, QuietStep
<1>7. CASE /\ d # 0 /\ devs' = [Ref(devs, d) EXCEPT ![d].bus = 1]
           /\ FoundAtZero({d}) /\ work' = [work EXCEPT ![t] = <<<<"unref", d>>>>]
           /\ scan' = [scan EXCEPT ![t] = Skip(@)]
  <2>1. /\ DeviceMap(devs') /\ \A c \in Devs : Same(devs'[c], devs[c])
        /\ fault' \in {"none", "found while destroyed"}
        /\ \A c \in Devs : /\ RefsOf(c) \in Nat
                           /\ RefsOf(c)' = RefsOf(c) + (IF c = d THEN 1 ELSE 0)
        /\ fault' = "none" => \A c \in Devs : RefsOf(c)' > 0 <=> RefsOf(c) > 0
    BY <1>1, <1>4, <1>7, FoundMarked
  <2> DEFINE w == <<<<"unref", d>>>>
  <2>2. w \in Seq(Tokens) /\ w = IF d = 0 THEN <<>> ELSE <<<<"unref", d>>>>
    BY <1>4, <1>7 DEF Tokens
  <2>3. StateTyped' /\ OnlyBy(t) /\ work'[t] = w /\ scan'[t] = Skip(scan[t])
    <3>1. work' = [work EXCEPT ![t] = w] /\ scan' = [scan EXCEPT ![t] = Skip(scan[t])]
      BY <1>7
    <3> HIDE DEF w
    <3> QED
      BY <1>1, <1>2, <2>1, <2>2, <3>1, SkipTyped
  <2>4. ASSUME fault' = "none", NEW c \in Devs
        PROVE  /\ RefsOf(c)' > 0 <=> RefsOf(c) > 0
               /\ RefsOf(c)' = RefsOf(c) - HeldBy(t, c) + HeldBy(t, c)'
               /\ Count(work'[t], <<"free", c>>) = Count(work[t], <<"free", c>>)
    <3>1. /\ HeldBy(t, c) \in Nat
          /\ HeldBy(t, c)' = HeldBy(t, c) + (IF c = d THEN 1 ELSE 0)
                             - (IF scan[t].parent = c THEN 1 ELSE 0)
                             - (IF scan[t].dev = c THEN 1 ELSE 0)
          /\ Count(work'[t], <<"free", c>>) = Count(work[t], <<"free", c>>)
      BY <1>1, <1>2, <1>4, <2>2, <2>3, SkipHeld
    <3>2. c # 0 /\ c # -1
      BY DEF Devs
    <3>3. HeldBy(t, c)' = HeldBy(t, c) + (IF c = d THEN 1 ELSE 0)
      BY <1>3, <3>1, <3>2
    <3>4. RefsOf(c) \in Nat /\ RefsOf(c)' = RefsOf(c) + (IF c = d THEN 1 ELSE 0)
      BY <2>1
    <3>5. RefsOf(c)' = RefsOf(c) - HeldBy(t, c) + HeldBy(t, c)'
      BY <3>1, <3>3, <3>4
    <3> QED
      BY <2>1, <2>4, <3>1, <3>5
  <2>5. Quiet(t)
    <3>1. fault' = "none" => Shifted(t)
      BY <2>4 DEF Shifted
    <3>2. scan' = [scan EXCEPT ![t] = Skip(scan[t])]
      BY <1>7
    <3> QED
      BY <1>1, <1>2, <2>1, <3>1, <3>2, SkipQuiet
  <2> QED
    BY <1>1, <2>3, <2>5, QuietStep
<1> QED
  BY <1>5, <1>6, <1>7

LEMMA SetInterfaceStep == ASSUME HeldInv, NEW t \in Users, SetInterface(t) PROVE HeldInv'
<1>1. StateTyped /\ Ordered /\ fault = "none" /\ Balanced /\ ScansSound /\ HubsAbove
  BY DEF HeldInv, SetInterface, Scanning, Running
<1>2. /\ scan[t] # NoScan /\ work[t] = <<>> /\ scan[t].pass = "ext" /\ scan[t].dev # -1
      /\ UNCHANGED <<plugged, plugs, scans, lists, handles, changed, lost>>
  BY DEF SetInterface, Scanning, Running
<1> DEFINE p == scan[t].parent
<1>3. /\ ScanTyped(scan[t]) /\ p # 0 /\ p \in 0 .. MaxDevs /\ scan[t].dev = 0
  <2>1. ScanTyped(scan[t]) /\ InHand(t, scan[t])
    BY <1>1, <1>2 DEF StateTyped, ScansSound
  <2> QED
    BY <1>2, <2>1 DEF ScanTyped, InHand
<1>4. p \in Devs /\ Live(p)
  <2>1. p \in Devs
    BY <1>3, DeviceNumber
  <2>2. HeldBy(t, p) > 0
    BY <1>1, <1>2, <2>1, InHandHeld
  <2> QED
    BY <1>1, <2>1, <2>2, HolderLive
<1>5. /\ devs' = IF devs[p].api = "device"
                   THEN [devs EXCEPT ![p].ifaces = @ \cup {Entry(t).place}] ELSE devs
      /\ work' = [work EXCEPT ![t] = <<<<"unref", p>>>>]
      /\ scan' = [scan EXCEPT ![t] = Skip(@)] /\ fault' = "none"
  BY <1>1, <1>4 DEF SetInterface
<1> HIDE DEF p
<1>6. /\ DeviceMap(devs')
      /\ \A c \in Devs : /\ Same(devs'[c], devs[c])
                         /\ devs[c].life = "live" => devs'[c].refs = devs[c].refs
  <2>1. DeviceMap(devs)
    BY <1>1 DEF StateTyped, DeviceMap
  <2>2. CASE devs[p].api # "device"
    BY <1>5, <2>1, <2>2 DEF Same
  <2>3. CASE devs[p].api = "device"
    <3> DEFINE x == [devs[p] EXCEPT !.ifaces = devs[p].ifaces \cup {Entry(t).place}]
    <3>1. devs[p] = [f \in DeviceFields |-> devs[p][f]] /\ devs[p].life = "live"
      BY <1>4, <2>1 DEF DeviceMap, DeviceTyped, Live
    <3>2. /\ x = [f \in DeviceFields |-> x[f]]
          /\ KeptFields(x, devs[p])
      BY <3>1 DEF DeviceFields, KeptFields
    <3>3. devs' = [devs EXCEPT ![p] = x]
      BY <1>5, <2>3
    <3> DEFINE next == devs'
    <3>4. next = [devs EXCEPT ![p] = x]
      BY <3>3
    <3> HIDE DEF x, next
    <3>5. /\ DeviceMap(next)
          /\ \A c \in Devs : /\ Same(next[c], devs[c])
                             /\ devs[c].life = "live" => next[c].refs = devs[c].refs
      <4>1. OneMark(next, devs, p, x)
        BY <1>4, <2>1, <3>1, <3>2, <3>4 DEF OneMark
      <4> QED
        BY <4>1, OneMarked
    <3> QED
      BY <3>5 DEF next
  <2> QED
    BY <2>2, <2>3
<1>7. ASSUME NEW c \in Devs PROVE RefsOf(c)' = RefsOf(c) /\ RefsOf(c) \in Nat
  <2>1. Live(c)' <=> Live(c)
    BY <1>6 DEF Same, Live
  <2>2. Live(c) => devs'[c].refs = devs[c].refs
    BY <1>6 DEF Live
  <2> QED
    BY <1>1, <2>1, <2>2, RefsNat DEF RefsOf
<1> DEFINE w == <<<<"unref", p>>>>
<1>8. w \in Seq(Tokens) /\ w = IF p = 0 THEN <<>> ELSE <<<<"unref", p>>>>
  BY <1>3, <1>4 DEF Tokens
<1>9. StateTyped' /\ OnlyBy(t) /\ work'[t] = w /\ scan'[t] = Skip(scan[t])
  <2>1. work' = [work EXCEPT ![t] = w] /\ scan' = [scan EXCEPT ![t] = Skip(scan[t])]
    BY <1>5
  <2> HIDE DEF w
  <2> QED
    BY <1>1, <1>2, <1>6, <1>8, <2>1, SkipTyped
<1>10. ASSUME NEW c \in Devs
       PROVE  /\ RefsOf(c)' > 0 <=> RefsOf(c) > 0
              /\ RefsOf(c)' = RefsOf(c) - HeldBy(t, c) + HeldBy(t, c)'
              /\ Count(work'[t], <<"free", c>>) = Count(work[t], <<"free", c>>)
  <2>1. /\ HeldBy(t, c) \in Nat
        /\ HeldBy(t, c)' = HeldBy(t, c) + (IF c = p THEN 1 ELSE 0)
                           - (IF scan[t].parent = c THEN 1 ELSE 0)
                           - (IF scan[t].dev = c THEN 1 ELSE 0)
        /\ Count(work'[t], <<"free", c>>) = Count(work[t], <<"free", c>>)
    BY <1>1, <1>2, <1>3, <1>8, <1>9, SkipHeld
  <2>2. c # 0
    BY DEF Devs
  <2>3. HeldBy(t, c)' = HeldBy(t, c)
    BY <1>3, <2>1, <2>2 DEF p
  <2>4. RefsOf(c)' = RefsOf(c) - HeldBy(t, c) + HeldBy(t, c)'
    BY <1>7, <2>1, <2>3
  <2> QED
    BY <1>7, <2>1, <2>4
<1>11. Quiet(t)
  <2>1. Shifted(t)
    BY <1>10 DEF Shifted
  <2>2. scan' = [scan EXCEPT ![t] = Skip(scan[t])]
    BY <1>5
  <2> QED
    BY <1>1, <1>2, <1>5, <1>6, <2>1, <2>2, SkipQuiet
<1> QED
  BY <1>1, <1>9, <1>11, QuietStep

\* libusb_open of device q, or of none
Opens(t, q) ==
    /\ q \in 0 .. MaxDevs
    /\ q # 0 => Live(q) /\ devs[q].refs # 0 /\ handles[t] = <<>>
    /\ devs' = Ref(devs, q)
    /\ handles' = IF q = 0 THEN handles ELSE [handles EXCEPT ![t] = Append(@, q)]

LEMMA OpensIs ==
    ASSUME StateTyped, Ordered, fault = "none", fault' = "none", NEW t \in Users, NEW q,
           Opens(t, q)
    PROVE  /\ DeviceMap(devs') /\ \A c \in Devs : Same(devs'[c], devs[c])
           /\ handles' \in [Users -> Seq(Devs)] /\ Len(handles'[t]) <= 1
           /\ \A u \in Users \ {t} : handles'[u] = handles[u]
           /\ \A c \in Devs : /\ RefsOf(c)' > 0 <=> RefsOf(c) > 0
                              /\ RefsOf(c) \in Nat /\ Count(handles[t], c) \in Nat
                              /\ RefsOf(c)' = RefsOf(c) - Count(handles[t], c)
                                              + Count(handles'[t], c)
<1>1. q \in 0 .. MaxDevs /\ (q # 0 => Live(q)) /\ devs' = Ref(devs, q)
  BY DEF Opens
<1>2. FoundAtZero({q})
  BY DEF Opens, FoundAtZero
<1>3. /\ DeviceMap(devs') /\ \A c \in Devs : Same(devs'[c], devs[c])
      /\ \A c \in Devs : /\ RefsOf(c) \in Nat
                         /\ RefsOf(c)' = RefsOf(c) + (IF c = q THEN 1 ELSE 0)
      /\ fault' = "none" => \A c \in Devs : RefsOf(c)' > 0 <=> RefsOf(c) > 0
  BY <1>1, <1>2, FoundOne
<1>4. handles[t] \in Seq(Devs) /\ Len(handles[t]) <= 1 /\ handles \in [Users -> Seq(Devs)]
  BY DEF StateTyped, Ordered
<1> SUFFICES /\ handles' \in [Users -> Seq(Devs)] /\ Len(handles'[t]) <= 1
             /\ \A u \in Users \ {t} : handles'[u] = handles[u]
             /\ \A c \in Devs : /\ Count(handles[t], c) \in Nat
                                /\ RefsOf(c)' = RefsOf(c) - Count(handles[t], c)
                                                + Count(handles'[t], c)
  BY <1>3
<1>5. CASE q = 0
  <2>1. handles' = handles
    BY <1>5 DEF Opens
  <2>2. ASSUME NEW c \in Devs
        PROVE  /\ Count(handles[t], c) \in Nat
               /\ RefsOf(c)' = RefsOf(c) - Count(handles[t], c) + Count(handles'[t], c)
    <3>1. Count(handles[t], c) \in Nat /\ Count(handles'[t], c) = Count(handles[t], c)
      BY <2>1, HeldParts
    <3>2. RefsOf(c) \in Nat /\ RefsOf(c)' = RefsOf(c)
      BY <1>3, <1>5 DEF Devs
    <3> QED
      BY <3>1, <3>2
  <2>3. /\ handles' \in [Users -> Seq(Devs)] /\ Len(handles'[t]) <= 1
        /\ \A u \in Users \ {t} : handles'[u] = handles[u]
    BY <1>4, <2>1
  <2> QED
    BY <2>2, <2>3
<1>6. CASE q # 0
  <2>1. q \in Devs /\ handles[t] = <<>> /\ handles' = [handles EXCEPT ![t] = Append(@, q)]
    BY <1>1, <1>6, DeviceNumber DEF Opens
  <2>2. handles'[t] = <<q>> /\ <<q>> \in Seq(Devs) /\ Len(<<q>>) = 1
    BY <1>4, <2>1
  <2>3. handles' \in [Users -> Seq(Devs)] /\ \A u \in Users \ {t} : handles'[u] = handles[u]
    BY <1>4, <2>1, <2>2
  <2>4. ASSUME NEW c \in Devs
        PROVE  /\ Count(handles[t], c) \in Nat
               /\ RefsOf(c)' = RefsOf(c) - Count(handles[t], c) + Count(handles'[t], c)
    <3>1. Count(handles[t], c) = 0 /\ Count(handles'[t], c) = IF c = q THEN 1 ELSE 0
      BY <2>1, <2>2, CountEmpty, CountOne
    <3>2. RefsOf(c) \in Nat /\ RefsOf(c)' = RefsOf(c) + (IF c = q THEN 1 ELSE 0)
      BY <1>3
    <3> DEFINE own == IF c = q THEN 1 ELSE 0
    <3>3. own \in Nat /\ Count(handles'[t], c) = own /\ RefsOf(c)' = RefsOf(c) + own
      BY <3>1, <3>2
    <3> HIDE DEF own
    <3> QED
      BY <3>1, <3>2, <3>3
  <2>5. Len(handles'[t]) <= 1
    BY <2>2
  <2> QED
    BY <2>3, <2>4, <2>5
<1> QED
  BY <1>5, <1>6

LEMMA OpenHandleStep ==
    ASSUME HeldInv, NEW t \in Users, NEW d \in Allocated, Open(t, d)
    PROVE  HeldInv'
<1>1. StateTyped /\ Ordered /\ fault = "none" /\ Balanced /\ ScansSound /\ HubsAbove
  BY DEF HeldInv, Open, Running
<1>2. /\ d \in Devs /\ d \in ToSet(lists[t]) /\ handles[t] = <<>>
      /\ devs' = Ref(devs, d) /\ handles' = [handles EXCEPT ![t] = Append(@, d)]
      /\ UNCHANGED <<plugged, plugs, scans, scan, work, lists, changed, lost, fault>>
  BY DEF Open, Allocated
<1>3. Live(d) /\ devs[d].refs # 0 /\ lists[t] # <<>>
  <2>1. lists[t] \in Seq(Devs) /\ \E i \in DOMAIN lists[t] : lists[t][i] = d
    BY <1>1, <1>2 DEF StateTyped, ToSet
  <2>2. Count(lists[t], d) > 0
    BY <2>1, CountType
  <2>3. /\ Count(lists[t], d) \in Nat /\ Count(handles[t], d) \in Nat
        /\ Count(work[t], <<"unref", d>>) \in Nat /\ ScanHolds(scan[t], d) \in Nat
    BY <1>1, <1>2, HeldParts, ScanHoldsType DEF StateTyped
  <2>4. HeldBy(t, d) > 0
    BY <2>2, <2>3, HeldIs
  <2>5. Live(d) /\ devs[d].refs > 0 /\ devs[d].refs \in Nat
    BY <1>1, <1>2, <2>4, HolderLive
  <2> QED
    BY <2>1, <2>5
<1>4. Opens(t, d)
  <2>1. d # 0 /\ d \in 0 .. MaxDevs
    BY <1>2, DevsFinite DEF Devs
  <2> QED
    BY <1>2, <1>3, <2>1 DEF Opens
<1>5. /\ DeviceMap(devs') /\ \A c \in Devs : Same(devs'[c], devs[c])
      /\ handles' \in [Users -> Seq(Devs)] /\ Len(handles'[t]) <= 1
      /\ \A u \in Users \ {t} : handles'[u] = handles[u]
      /\ \A c \in Devs : /\ RefsOf(c)' > 0 <=> RefsOf(c) > 0
                         /\ RefsOf(c) \in Nat /\ Count(handles[t], c) \in Nat
                         /\ RefsOf(c)' = RefsOf(c) - Count(handles[t], c)
                                         + Count(handles'[t], c)
  BY <1>1, <1>2, <1>4, OpensIs
<1>6. StateTyped' /\ OnlyBy(t)
  BY <1>1, <1>2, <1>5 DEF StateTyped, OnlyBy, DeviceMap
<1>7. scan[t] = NoScan
  BY <1>1, <1>3 DEF ScansSound, InHand
<1>8. ASSUME NEW c \in Devs
      PROVE  RefsOf(c)' = RefsOf(c) - HeldBy(t, c) + HeldBy(t, c)'
  <2> DEFINE k == Count(lists[t], c) + Count(work[t], <<"unref", c>>) + ScanHolds(scan[t], c)
             a == Count(handles[t], c)
             b == Count(handles'[t], c)
  <2>1. /\ Count(lists[t], c) \in Nat /\ a \in Nat
        /\ Count(work[t], <<"unref", c>>) \in Nat /\ ScanHolds(scan[t], c) \in Nat
    BY <1>1, HeldParts, ScanHoldsType DEF StateTyped
  <2>2. b \in Nat
    <3>1. handles'[t] \in Seq(Devs)
      BY <1>5
    <3> QED
      BY <3>1, CountType
  <2> DEFINE l == Count(lists[t], c)
             w == Count(work[t], <<"unref", c>>)
             h == ScanHolds(scan[t], c)
  <2>5. HeldBy(t, c) = l + a + w + h /\ HeldBy(t, c)' = l + b + w + h
    BY <1>2, HeldIs
  <2>6. k = l + w + h /\ l \in Nat /\ w \in Nat /\ h \in Nat /\ a \in Nat
    BY <2>1
  <2> HIDE DEF k, a, b, l, w, h
  <2>3. k \in Nat /\ HeldBy(t, c) = k + a /\ HeldBy(t, c)' = k + b
    BY <2>2, <2>5, <2>6
  <2>4. RefsOf(c) \in Nat /\ RefsOf(c)' = RefsOf(c) - a + b
    BY <1>5 DEF a, b
  <2> QED
    BY <2>2, <2>3, <2>4, <2>6
<1>9. Quiet(t)
  <2>1. Shifted(t)
    BY <1>2, <1>5, <1>8 DEF Shifted
  <2> QED
    BY <1>1, <1>2, <1>5, <1>7, <2>1 DEF Quiet, Overlapped
<1> QED
  BY <1>1, <1>6, <1>9, QuietStep

LEMMA DeliverStep == ASSUME HeldInv, NEW t \in Users, Deliver(t) PROVE HeldInv'
<1>1. StateTyped /\ Ordered /\ fault = "none" /\ Balanced /\ ScansSound /\ HubsAbove
  BY DEF HeldInv, Deliver, Scanning, Running
<1> DEFINE s == scan[t]
           fits == {i \in DOMAIN s.found : devs[s.found[i]].id = s.want}
<1>2. /\ s # NoScan /\ work[t] = <<>> /\ s.pass = "end" /\ s.unref = <<>>
      /\ scan' = [scan EXCEPT ![t] = NoScan]
      /\ UNCHANGED <<plugged, plugs, scans, changed, lost, fault>>
  BY DEF Deliver, Scanning, Running
<1>3. /\ ScanTyped(s) /\ InHand(t, s) /\ s.found \in Seq(Devs)
      /\ s.dev = -1 /\ s.parent = 0 /\ lists[t] = <<>>
  BY <1>1, <1>2 DEF StateTyped, ScansSound, InHand, ScanTyped
<1>4. ASSUME NEW c \in Devs
      PROVE  /\ ScanHolds(s, c) = Count(s.found, c) /\ Count(s.found, c) \in Nat
             /\ Count(lists[t], c) = 0 /\ Count(work[t], <<"unref", c>>) = 0
             /\ Count(work[t], <<"free", c>>) = 0 /\ Count(handles[t], c) \in Nat
  <2>1. c # 0 /\ c # -1
    BY DEF Devs
  <2>2. Count(s.found, c) \in Nat /\ Count(handles[t], c) \in Nat
    BY <1>1, <1>2, HeldParts
  <2>3. Count(s.unref, c) = 0
    BY <1>2, CountEmpty
  <2>4. ScanHolds(s, c) = Count(s.found, c)
    BY <1>2, <1>3, <2>1, <2>2, <2>3 DEF ScanHolds
  <2> QED
    BY <1>2, <1>3, <2>2, <2>4, CountEmpty
<1>5. ASSUME NEW i \in DOMAIN s.found
      PROVE  /\ s.found[i] \in Devs /\ Live(s.found[i]) /\ devs[s.found[i]].refs # 0
  <2>1. s.found[i] \in Devs
    BY <1>3, <1>5
  <2>2. Count(s.found, s.found[i]) > 0
    BY <1>3, <1>5, CountType
  <2>3. HeldBy(t, s.found[i]) > 0
    <3> DEFINE c == s.found[i]
               f == Count(s.found, c)
               a == Count(handles[t], c)
    <3>1. HeldBy(t, c) = 0 + a + 0 + f /\ a \in Nat /\ f \in Nat /\ f > 0
      BY <1>4, <2>1, <2>2, HeldIs
    <3> HIDE DEF c, f, a
    <3>2. HeldBy(t, c) > 0
      BY <3>1
    <3> QED
      BY <3>2 DEF c
  <2>4. /\ Live(s.found[i]) /\ devs[s.found[i]].refs \in Nat /\ devs[s.found[i]].refs > 0
    BY <1>1, <2>1, <2>3, HolderLive
  <2> QED
    BY <2>1, <2>4
<1>6. \/ /\ lists' = [lists EXCEPT ![t] = s.found] /\ UNCHANGED <<devs, work, handles>>
      \/ /\ work' = [work EXCEPT ![t] = Unrefs(s.found)] /\ UNCHANGED lists
         /\ \/ UNCHANGED <<devs, handles>>
            \/ /\ fits # {} /\ s.want # None /\ devs[s.found[First(fits)]].attached
               /\ devs' = Ref(devs, s.found[First(fits)])
               /\ handles' = [handles EXCEPT ![t] = Append(@, s.found[First(fits)])]
  BY DEF Deliver, OpenOf
<1>7. PICK q : Opens(t, q)
  <2>1. CASE UNCHANGED <<devs, handles>>
    <3>1. 0 \in 0 .. MaxDevs
      BY DevsFinite
    <3>2. Opens(t, 0)
      BY <2>1, <3>1 DEF Opens, Ref
    <3> QED
      BY <3>2
  <2>2. CASE /\ fits # {} /\ s.want # None /\ devs[s.found[First(fits)]].attached
             /\ devs' = Ref(devs, s.found[First(fits)])
             /\ handles' = [handles EXCEPT ![t] = Append(@, s.found[First(fits)])]
    <3>1. fits \in SUBSET Nat
      BY <1>3
    <3>2. First(fits) \in fits
      BY <2>2, <3>1, FirstIs
    <3>3. First(fits) \in DOMAIN s.found
      BY <3>2
    <3> DEFINE q == s.found[First(fits)]
    <3>4. q \in Devs /\ Live(q) /\ devs[q].refs # 0
      BY <1>5, <3>3
    <3>5. handles[t] = <<>>
      BY <1>3, <2>2 DEF InHand
    <3>6. devs' = Ref(devs, q) /\ handles' = [handles EXCEPT ![t] = Append(@, q)]
      BY <2>2
    <3> HIDE DEF q
    <3>7. q # 0 /\ q \in 0 .. MaxDevs
      BY <3>4, DevsFinite DEF Devs
    <3>8. Opens(t, q)
      BY <3>4, <3>5, <3>6, <3>7 DEF Opens
    <3> QED
      BY <3>8
  <2> QED
    BY <1>6, <2>1, <2>2
<1>8. /\ DeviceMap(devs') /\ \A c \in Devs : Same(devs'[c], devs[c])
      /\ handles' \in [Users -> Seq(Devs)] /\ Len(handles'[t]) <= 1
      /\ \A u \in Users \ {t} : handles'[u] = handles[u]
      /\ \A c \in Devs : /\ RefsOf(c)' > 0 <=> RefsOf(c) > 0
                         /\ RefsOf(c) \in Nat /\ Count(handles[t], c) \in Nat
                         /\ RefsOf(c)' = RefsOf(c) - Count(handles[t], c)
                                         + Count(handles'[t], c)
  BY <1>1, <1>2, <1>7, OpensIs
<1>9. /\ lists' \in [Users -> Seq(Devs)] /\ work' \in [Users -> Seq(Tokens)]
      /\ \A u \in Users \ {t} : lists'[u] = lists[u] /\ work'[u] = work[u]
      /\ \A c \in Devs : /\ Count(lists'[t], c) + Count(work'[t], <<"unref", c>>)
                              = Count(s.found, c)
                         /\ Count(work'[t], <<"free", c>>) = 0
  <2>1. CASE lists' = [lists EXCEPT ![t] = s.found] /\ UNCHANGED work
    <3>1. lists' \in [Users -> Seq(Devs)] /\ work' \in [Users -> Seq(Tokens)]
      BY <1>1, <1>3, <2>1 DEF StateTyped
    <3>2. lists'[t] = s.found /\ work'[t] = work[t]
      BY <1>1, <2>1 DEF StateTyped
    <3>3. \A u \in Users \ {t} : lists'[u] = lists[u] /\ work'[u] = work[u]
      BY <1>1, <2>1 DEF StateTyped
    <3> QED
      BY <1>4, <3>1, <3>2, <3>3
  <2>2. CASE work' = [work EXCEPT ![t] = Unrefs(s.found)] /\ UNCHANGED lists
    <3>1. Unrefs(s.found) \in Seq(Tokens)
      BY <1>3, CountUnrefs DEF Tokens
    <3>2. /\ lists' \in [Users -> Seq(Devs)] /\ work' \in [Users -> Seq(Tokens)]
          /\ work'[t] = Unrefs(s.found) /\ lists'[t] = lists[t]
          /\ \A u \in Users \ {t} : lists'[u] = lists[u] /\ work'[u] = work[u]
      BY <1>1, <2>2, <3>1 DEF StateTyped
    <3>3. \A c \in Devs : /\ Count(work'[t], <<"unref", c>>) = Count(s.found, c)
                          /\ Count(work'[t], <<"free", c>>) = 0
      BY <1>3, <3>2, CountUnrefs
    <3> QED
      BY <1>4, <3>2, <3>3
  <2> QED
    BY <1>6, <2>1, <2>2
<1>10. /\ scan' = [u \in Users |-> IF u = t THEN NoScan ELSE scan[u]] /\ scan'[t] = NoScan
  BY <1>1, <1>2 DEF StateTyped
<1>11. StateTyped'
  <2>1. ScanTyped(NoScan)
    BY DEF ScanTyped
  <2> QED
    BY <1>1, <1>2, <1>8, <1>9, <1>10, <2>1 DEF StateTyped, DeviceMap
<1>12. OnlyBy(t)
  BY <1>8, <1>9, <1>10 DEF OnlyBy
<1>13. ASSUME NEW c \in Devs
       PROVE  /\ RefsOf(c)' = RefsOf(c) - HeldBy(t, c) + HeldBy(t, c)'
              /\ Count(work'[t], <<"free", c>>) = Count(work[t], <<"free", c>>)
  <2> DEFINE f == Count(s.found, c)
             a == Count(handles[t], c)
             b == Count(handles'[t], c)
             l == Count(lists'[t], c)
             w == Count(work'[t], <<"unref", c>>)
  <2>1. f \in Nat /\ a \in Nat /\ HeldBy(t, c) = 0 + a + 0 + f
    BY <1>4, HeldIs
  <2>2. l \in Nat /\ b \in Nat /\ w \in Nat
    <3>1. lists'[t] \in Seq(Devs) /\ handles'[t] \in Seq(Devs) /\ work'[t] \in Seq(Tokens)
      BY <1>8, <1>9
    <3> QED
      BY <3>1, CountType
  <2>3. HeldBy(t, c)' = l + b + w + 0
    BY <1>10, HeldIs DEF ScanHolds
  <2>4. l + w = f
    BY <1>9
  <2>5. RefsOf(c) \in Nat /\ RefsOf(c)' = RefsOf(c) - a + b
    BY <1>8
  <2>7. Count(work'[t], <<"free", c>>) = Count(work[t], <<"free", c>>)
    BY <1>4, <1>9
  <2> HIDE DEF f, a, b, l, w
  <2>6. HeldBy(t, c) = a + f /\ HeldBy(t, c)' = b + f
    BY <2>1, <2>2, <2>3, <2>4
  <2>8. RefsOf(c)' = RefsOf(c) - HeldBy(t, c) + HeldBy(t, c)'
    BY <2>1, <2>2, <2>5, <2>6
  <2> QED
    BY <2>7, <2>8
<1>14. Quiet(t)
  <2>1. Shifted(t)
    BY <1>8, <1>13 DEF Shifted
  <2> QED
    BY <1>1, <1>2, <1>8, <1>10, <2>1 DEF Quiet, Overlapped
<1> QED
  BY <1>1, <1>11, <1>12, <1>14, QuietStep

-----------------------------------------------------------------------------
(* Releasing and freeing                                                     *)

(* What the devices have in common with those before keeps the invariant.    *)
LEMMA SameKept ==
    ASSUME StateTyped, Ordered, Balanced, ScansSound, HubsAbove, fault = "none",
           UNCHANGED <<scan, lists, handles, changed, lost, fault>>,
           \A c \in Devs : Same(devs'[c], devs[c]),
           \A c \in Devs : RefsOf(c)' > 0 => RefsOf(c) > 0
    PROVE  Ordered' /\ ScansSound' /\ HubsAbove'
<1>1. \A c \in Devs : Live(c)' <=> Live(c)
  BY DEF Same, Live
<1>2. Overlapped' <=> Overlapped
  BY DEF Overlapped
<1>3. Ordered'
  <2>1. \A c \in Devs : devs'[c].life = devs[c].life
    BY DEF Same
  <2>2. \A c \in Devs : Live(c)' /\ ~devs'[c].listed => Live(c) /\ ~devs[c].listed
    BY <1>1 DEF Same, Live
  <2>3. \A c \in Devs : Live(c) /\ ~devs[c].listed => Live(c)' /\ ~devs'[c].listed
    BY <1>1 DEF Same, Live
  <2> QED
    BY <2>1, <2>2, <2>3 DEF Ordered
<1>4. ListedSame
  BY <1>1 DEF Same, ListedSame, Live
<1>5. ASSUME NEW u \in Users, scan'[u] # NoScan PROVE InHand(u, scan[u])'
  <2>1. InHand(u, scan[u]) /\ scan'[u] = scan[u] /\ scan[u] # NoScan
    BY <1>5 DEF ScansSound
  <2>2. Ancestor(Head(scan[u].todo).place)' = Ancestor(Head(scan[u].todo).place)
    <3>1. \A n : Ancestor(n)' = Ancestor(n)
      BY <1>4, AncestorAgain
    <3> QED
      BY <2>1, <3>1
  <2>3. scan[u].parent # 0 => devs'[scan[u].parent].api = devs[scan[u].parent].api
    <3>1. SUFFICES ASSUME scan[u].parent # 0
                   PROVE  devs'[scan[u].parent].api = devs[scan[u].parent].api
      OBVIOUS
    <3>2. scan[u].parent \in Devs
      <4>1. ScanTyped(scan[u])
        BY DEF StateTyped
      <4>2. scan[u].parent \in 0 .. MaxDevs
        BY <2>1, <4>1 DEF ScanTyped
      <4> QED
        BY <3>1, <4>2, DeviceNumber
    <3>3. HeldBy(u, scan[u].parent) > 0
      BY <2>1, <3>2, InHandHeld
    <3>4. Live(scan[u].parent)
      BY <3>2, <3>3, HolderLive
    <3> QED
      BY <3>2, <3>4 DEF Same, Live
  <2> QED
    BY <1>2, <2>1, <2>2, <2>3 DEF InHand
<1>6. ScansSound'
  BY <1>2, <1>5 DEF ScansSound
<1>7. HubsAbove'
  <2>1. ASSUME NEW c \in Devs, RefsOf(c)' > 0, devs'[c].parent # 0
        PROVE  devs'[devs'[c].parent].api = "hub"
    <3>1. RefsOf(c) > 0 /\ Live(c)
      BY <2>1, Counted
    <3>2. devs'[c].parent = devs[c].parent
      BY <3>1 DEF Same, Live
    <3>3. devs[c].parent \in Devs /\ devs[devs[c].parent].api = "hub"
      BY <2>1, <3>1, <3>2, RefsNat, DeviceNumber DEF HubsAbove
    <3>4. IsChild(c, devs[c].parent)
      BY <3>1 DEF IsChild
    <3>5. Live(devs[c].parent)
      BY <3>3, <3>4, HolderLive
    <3> QED
      BY <3>2, <3>3, <3>5 DEF Same, Live
  <2>2. ASSUME ~Overlapped', NEW d \in Devs, lost'[d] > 0 PROVE devs'[d].api = "hub"
    <3>1. lost[d] > 0 /\ devs[d].api = "hub"
      BY <1>2, <2>2 DEF HubsAbove
    <3>2. Live(d)
      BY <3>1, HolderLive
    <3> QED
      BY <3>1, <3>2 DEF Same, Live
  <2> QED
    BY <2>1, <2>2 DEF HubsAbove
<1> QED
  BY <1>3, <1>6, <1>7

LEMMA TokenIs ==
    ASSUME StateTyped, NEW t \in Users, work[t] # <<>>
    PROVE  /\ Head(work[t]) \in Tokens /\ Rest(t) \in Seq(Tokens)
           /\ \A x : Count(work[t], x) = (IF x = Head(work[t]) THEN 1 ELSE 0) + Count(Rest(t), x)
           /\ \A x : Count(Rest(t), x) \in Nat
<1>1. work[t] \in Seq(Tokens)
  BY DEF StateTyped
<1>2. Head(work[t]) \in Tokens /\ Tail(work[t]) \in Seq(Tokens)
  BY <1>1
<1>3. \A x : Count(work[t], x) = (IF x = Head(work[t]) THEN 1 ELSE 0) + Count(Tail(work[t]), x)
  BY <1>1, CountTail
<1>4. \A x : Count(Tail(work[t]), x) \in Nat
  BY <1>2, CountType
<1> QED
  BY <1>2, <1>3, <1>4 DEF Rest

LEMMA TokensJoined ==
    ASSUME NEW a \in Seq(Tokens), NEW b \in Seq(Tokens), NEW x
    PROVE  a \o b \in Seq(Tokens) /\ Count(a \o b, x) = Count(a, x) + Count(b, x)
<1>1. a \o b \in Seq(Tokens)
  OBVIOUS
<1> QED
  BY <1>1, CountConcat

LEMMA UnrefStep == ASSUME HeldInv, NEW t \in Users, Unref(t) PROVE HeldInv'
<1>1. StateTyped /\ Ordered /\ fault = "none" /\ Balanced /\ ScansSound /\ HubsAbove
  BY DEF HeldInv, Unref
<1>2. /\ work[t] # <<>> /\ Head(work[t])[1] = "unref"
      /\ UNCHANGED <<plugged, plugs, scans, scan, lists, handles, changed, lost>>
  BY DEF Unref
<1>3. PICK d \in Devs : Head(work[t]) = <<"unref", d>>
  BY <1>1, <1>2, TokenIs DEF Tokens
<1>4. Live(d) /\ devs[d].refs \in Nat /\ devs[d].refs > 0
  <2>1. Count(work[t], <<"unref", d>>) = 1 + Count(Rest(t), <<"unref", d>>)
    BY <1>1, <1>2, <1>3, TokenIs
  <2> DEFINE w == Count(work[t], <<"unref", d>>)
             a == Count(lists[t], d)
             b == Count(handles[t], d)
             h == ScanHolds(scan[t], d)
  <2>2. w \in Nat /\ w > 0
    BY <1>1, <1>2, <2>1, TokenIs
  <2>3. a \in Nat /\ b \in Nat /\ h \in Nat
    BY <1>1, HeldParts, ScanHoldsType DEF StateTyped
  <2>4. HeldBy(t, d) = a + b + w + h
    BY HeldIs
  <2> HIDE DEF w, a, b, h
  <2>5. HeldBy(t, d) > 0
    BY <2>2, <2>3, <2>4
  <2> QED
    BY <1>1, <2>5, HolderLive
<1> DEFINE x == [devs[d] EXCEPT !.refs = devs[d].refs - 1]
           w == IF devs[d].refs = 1 THEN Destroy(d) \o Rest(t) ELSE Rest(t)
<1>5. /\ devs' = [devs EXCEPT ![d] = x] /\ fault' = "none"
      /\ work' = [work EXCEPT ![t] = w]
  <2>1. Head(work[t])[2] = d
    BY <1>3
  <2>2. /\ fault' = fault /\ devs' = [devs EXCEPT ![d].refs = @ - 1]
        /\ work' = [work EXCEPT ![t] = IF devs[d].refs = 1 THEN Destroy(d) \o Rest(t)
                                      ELSE Rest(t)]
    BY <1>4, <2>1 DEF Unref
  <2> QED
    BY <1>1, <2>2
<1>6. DeviceTyped(x) /\ Same(x, devs[d]) /\ x.refs = devs[d].refs - 1 /\ x.life = "live"
  <2>1. DeviceTyped(devs[d]) /\ devs[d].life = "live" /\ devs[d].refs - 1 \in Nat
    BY <1>1, <1>4 DEF StateTyped, Live
  <2> HIDE DEF x
  <2>2. DeviceTyped(x) /\ Same(x, devs[d]) /\ x.refs = devs[d].refs - 1
    BY <2>1, RefsSet DEF x
  <2> QED
    BY <2>1, <2>2 DEF Same
<1> HIDE DEF x
<1>7. devs' = [c \in Devs |-> IF c = d THEN x ELSE devs[c]]
  BY <1>1, <1>5 DEF StateTyped
<1>8. /\ DeviceMap(devs') /\ \A c \in Devs : Same(devs'[c], devs[c])
  BY <1>1, <1>6, <1>7 DEF DeviceMap, StateTyped, Same
<1>9. ASSUME NEW c \in Devs
      PROVE  /\ RefsOf(c) \in Nat /\ (c = d => RefsOf(c) > 0)
             /\ RefsOf(c)' = RefsOf(c) - (IF c = d THEN 1 ELSE 0)
  <2>1. CASE c = d
    <3>1. RefsOf(c) = devs[d].refs /\ RefsOf(c)' = devs[d].refs - 1
      BY <1>4, <1>6, <1>7, <2>1 DEF RefsOf, Live
    <3> QED
      BY <1>4, <2>1, <3>1
  <2>2. CASE c # d
    <3>1. RefsOf(c)' = RefsOf(c)
      BY <1>7, <2>2 DEF RefsOf, Live
    <3> QED
      BY <1>1, <2>2, <3>1, RefsNat
  <2> QED
    BY <2>1, <2>2
<1> DEFINE p == devs[d].parent
           last == devs[d].refs = 1
<1>10. p \in 0 .. MaxDevs
  BY <1>1, <1>4, RefsNat
<1>11. /\ w \in Seq(Tokens)
       /\ \A c \in Devs :
            /\ Count(w, <<"unref", c>>) = Count(Rest(t), <<"unref", c>>)
                                          + (IF last /\ c = p THEN 1 ELSE 0)
            /\ Count(w, <<"free", c>>) = Count(Rest(t), <<"free", c>>)
                                         + (IF last /\ c = d THEN 1 ELSE 0)
  <2>1. Rest(t) \in Seq(Tokens) /\ \A y : Count(Rest(t), y) \in Nat
    BY <1>1, <1>2, TokenIs
  <2>2. CASE ~last
    BY <2>1, <2>2
  <2>3. CASE last /\ p = 0
    <3> DEFINE one == <<<<"free", d>>>>
    <3>1. w = one \o Rest(t) /\ one \in Seq(Tokens)
      BY <2>3 DEF Destroy, Tokens
    <3> HIDE DEF one, w
    <3>2. w \in Seq(Tokens)
      BY <2>1, <3>1, TokensJoined
    <3>3. \A y : Count(w, y) = Count(one, y) + Count(Rest(t), y)
      BY <2>1, <3>1, TokensJoined
    <3>4. ASSUME NEW c \in Devs
          PROVE  /\ Count(w, <<"unref", c>>) = Count(Rest(t), <<"unref", c>>)
                                               + (IF last /\ c = p THEN 1 ELSE 0)
                 /\ Count(w, <<"free", c>>) = Count(Rest(t), <<"free", c>>)
                                              + (IF last /\ c = d THEN 1 ELSE 0)
      <4>1. /\ Count(one, <<"unref", c>>) = 0
            /\ Count(one, <<"free", c>>) = IF c = d THEN 1 ELSE 0
        BY CountOne DEF one
      <4>2. c # p
        BY <2>3 DEF Devs
      <4> HIDE DEF p
      <4> QED
        BY <2>1, <2>3, <3>3, <4>1, <4>2
    <3> QED
      BY <3>2, <3>4
  <2>4. CASE last /\ p # 0
    <3> DEFINE two == <<<<"unref", p>>, <<"free", d>>>>
               one == <<<<"free", d>>>>
               top == <<<<"unref", p>>>>
    <3>0. p \in Devs
      BY <1>10, <2>4, DeviceNumber
    <3>1. /\ w = two \o Rest(t) /\ two = top \o one /\ top \in Seq(Tokens)
          /\ one \in Seq(Tokens)
      BY <2>4, <3>0 DEF Destroy, Tokens
    <3> HIDE DEF one, top, two, w
    <3>2. two \in Seq(Tokens)
      BY <3>1, TokensJoined
    <3>3. \A y : Count(two, y) = Count(top, y) + Count(one, y)
      BY <3>1, TokensJoined
    <3>6. w \in Seq(Tokens)
      BY <2>1, <3>1, <3>2, TokensJoined
    <3>4. \A y : Count(w, y) = Count(two, y) + Count(Rest(t), y)
      BY <2>1, <3>1, <3>2, TokensJoined
    <3>5. ASSUME NEW c \in Devs
          PROVE  /\ Count(w, <<"unref", c>>) = Count(Rest(t), <<"unref", c>>)
                                               + (IF last /\ c = p THEN 1 ELSE 0)
                 /\ Count(w, <<"free", c>>) = Count(Rest(t), <<"free", c>>)
                                              + (IF last /\ c = d THEN 1 ELSE 0)
      <4>1. /\ Count(one, <<"unref", c>>) = 0
            /\ Count(one, <<"free", c>>) = IF c = d THEN 1 ELSE 0
            /\ Count(top, <<"unref", c>>) = IF c = p THEN 1 ELSE 0
            /\ Count(top, <<"free", c>>) = 0
        BY CountOne DEF one, top
      <4> HIDE DEF p
      <4> QED
        BY <2>1, <2>4, <3>3, <3>4, <4>1
    <3> QED
      BY <3>5, <3>6
  <2> QED
    BY <2>2, <2>3, <2>4
<1> HIDE DEF w
<1>12. work'[t] = w /\ \A u \in Users \ {t} : work'[u] = work[u]
  BY <1>1, <1>5 DEF StateTyped
<1>13. StateTyped' /\ OnlyBy(t)
  BY <1>1, <1>2, <1>5, <1>8, <1>11, <1>12 DEF StateTyped, DeviceMap, OnlyBy
<1>14. ASSUME NEW c \in Devs
       PROVE  /\ HeldBy(t, c) \in Nat /\ Count(work[t], <<"free", c>>) \in Nat
              /\ HeldBy(t, c)' = HeldBy(t, c) - (IF c = d THEN 1 ELSE 0)
                                 + (IF last /\ c = p THEN 1 ELSE 0)
              /\ Count(work'[t], <<"free", c>>) = Count(work[t], <<"free", c>>)
                                                  + (IF last /\ c = d THEN 1 ELSE 0)
  <2>1. /\ Count(work[t], <<"unref", c>>) = (IF c = d THEN 1 ELSE 0)
                                            + Count(Rest(t), <<"unref", c>>)
        /\ Count(work[t], <<"free", c>>) = Count(Rest(t), <<"free", c>>)
        /\ Count(Rest(t), <<"unref", c>>) \in Nat /\ Count(Rest(t), <<"free", c>>) \in Nat
    <3>1. <<"unref", c>> = Head(work[t]) <=> c = d
      BY <1>3
    <3>2. <<"free", c>> # Head(work[t])
      BY <1>3
    <3>3. Count(work[t], <<"free", c>>) = 0 + Count(Rest(t), <<"free", c>>)
      BY <1>1, <1>2, <3>2, TokenIs
    <3>4. Count(Rest(t), <<"free", c>>) \in Nat /\ Count(Rest(t), <<"unref", c>>) \in Nat
      BY <1>1, <1>2, TokenIs
    <3>5. Count(work[t], <<"unref", c>>) = (IF c = d THEN 1 ELSE 0)
                                            + Count(Rest(t), <<"unref", c>>)
      BY <1>1, <1>2, <3>1, TokenIs
    <3> QED
      BY <3>3, <3>4, <3>5
  <2> DEFINE l == Count(lists[t], c)
             b == Count(handles[t], c)
             h == ScanHolds(scan[t], c)
             r == Count(Rest(t), <<"unref", c>>)
             f == Count(Rest(t), <<"free", c>>)
             own == IF c = d THEN 1 ELSE 0
             up == IF last /\ c = p THEN 1 ELSE 0
             end == IF last /\ c = d THEN 1 ELSE 0
  <2>2. HeldBy(t, c) = l + b + (own + r) + h /\ HeldBy(t, c)' = l + b + (r + up) + h
    BY <1>2, <1>11, <1>12, <2>1, HeldIs
  <2>3. Count(work[t], <<"free", c>>) = f /\ Count(work'[t], <<"free", c>>) = f + end
    BY <1>11, <1>12, <2>1
  <2>4. /\ l \in Nat /\ b \in Nat /\ h \in Nat /\ r \in Nat /\ f \in Nat /\ own \in Nat
        /\ up \in Nat /\ end \in Nat
    BY <1>1, <2>1, HeldParts, ScanHoldsType DEF StateTyped
  <2> HIDE DEF l, b, h, r, f, own, up, end
  <2>5. /\ HeldBy(t, c) \in Nat /\ HeldBy(t, c)' = HeldBy(t, c) - own + up
        /\ Count(work[t], <<"free", c>>) \in Nat
        /\ Count(work'[t], <<"free", c>>) = Count(work[t], <<"free", c>>) + end
    BY <2>2, <2>3, <2>4
  <2> QED
    BY <2>5 DEF own, up, end
<1> HIDE DEF p, last
<1>15. ASSUME NEW c \in Devs
       PROVE  /\ Cardinality(Children(c)) \in Nat
              /\ Cardinality(Children(c))' = Cardinality(Children(c))
                                             - (IF last /\ c = p THEN 1 ELSE 0)
  <2>1. \A e \in Devs \ {d} : IsChild(e, c)' <=> IsChild(e, c)
    BY <1>7 DEF IsChild, RefsOf, Live
  <2>2. IsChild(d, c) <=> c = p
    BY <1>9 DEF IsChild, p
  <2>3. IsChild(d, c)' <=> ~last /\ c = p
    <3>1. devs'[d].parent = devs[d].parent
      BY <1>4, <1>8 DEF Same, Live
    <3>2. RefsOf(d)' > 0 <=> ~last
      <4>1. RefsOf(d) = devs[d].refs /\ RefsOf(d)' = RefsOf(d) - 1
        BY <1>4, <1>9 DEF RefsOf
      <4> QED
        BY <1>4, <4>1 DEF last
    <3> QED
      BY <3>1, <3>2 DEF IsChild, p
  <2>4. Cardinality(Children(c))' = Cardinality(Children(c))
              - (IF IsChild(d, c) THEN 1 ELSE 0) + (IF IsChild(d, c)' THEN 1 ELSE 0)
    BY <2>1, KidsOne
  <2>5. Cardinality(Children(c)) \in Nat
    BY KidsFinite
  <2>6. CASE c = p
    BY <2>2, <2>3, <2>4, <2>5, <2>6
  <2>7. CASE c # p
    BY <2>2, <2>3, <2>4, <2>5, <2>7
  <2> QED
    BY <2>5, <2>6, <2>7
<1>16. ASSUME NEW c \in Devs PROVE Even(t, c)
  <2>1. lost[c] \in Nat /\ lost'[c] = lost[c]
    BY <1>1, <1>2 DEF StateTyped
  <2>2. Due(c)' = Due(c) + (IF last /\ c = d THEN 1 ELSE 0) /\ Due(c) \in Nat
    <3>1. CASE c = d
      <4>1. Live(c) /\ Live(c)' /\ devs[c].refs > 0 /\ devs'[c].refs = devs[d].refs - 1
        BY <1>4, <1>6, <1>7, <3>1 DEF Live
      <4> QED
        BY <1>4, <3>1, <4>1 DEF Due, last
    <3>2. CASE c # d
      <4>1. devs'[c] = devs[c]
        BY <1>7, <3>2
      <4> QED
        BY <3>2, <4>1 DEF Due, Live
    <3> QED
      BY <3>1, <3>2
  <2> DEFINE own == IF c = d THEN 1 ELSE 0
             up == IF last /\ c = p THEN 1 ELSE 0
             end == IF last /\ c = d THEN 1 ELSE 0
  <2>3. /\ own \in Nat /\ up \in Nat /\ end \in Nat
        /\ HeldBy(t, c) \in Nat /\ HeldBy(t, c)' = HeldBy(t, c) - own + up
        /\ Count(work[t], <<"free", c>>) \in Nat
        /\ Count(work'[t], <<"free", c>>) = Count(work[t], <<"free", c>>) + end
        /\ RefsOf(c) \in Nat /\ RefsOf(c)' = RefsOf(c) - own
        /\ Cardinality(Children(c)) \in Nat
        /\ Cardinality(Children(c))' = Cardinality(Children(c)) - up
        /\ Due(c)' = Due(c) + end /\ Due(c) \in Nat
    BY <1>9, <1>14, <1>15, <2>2
  <2> HIDE DEF own, up, end
  <2>4. RefsOf(c)' = RefsOf(c) - lost[c] + lost'[c]
                     - Cardinality(Children(c)) + Cardinality(Children(c))'
                     - HeldBy(t, c) + HeldBy(t, c)'
    BY <2>1, <2>3
  <2>5. Due(c)' = Due(c) - Count(work[t], <<"free", c>>) + Count(work'[t], <<"free", c>>)
    BY <2>3
  <2> QED
    BY <2>4, <2>5 DEF Even
<1>17. Balanced'
  BY <1>1, <1>13, <1>16, BalanceKept
<1>18. \A c \in Devs : RefsOf(c)' > 0 => RefsOf(c) > 0
  BY <1>9
<1>19. Ordered' /\ ScansSound' /\ HubsAbove'
  BY <1>1, <1>2, <1>5, <1>8, <1>18, SameKept
<1> QED
  BY <1>13, <1>17, <1>19 DEF HeldInv

LEMMA FreeStep == ASSUME HeldInv, NEW t \in Users, Free(t) PROVE HeldInv'
<1>1. StateTyped /\ Ordered /\ fault = "none" /\ Balanced /\ ScansSound /\ HubsAbove
  BY DEF HeldInv, Free
<1>2. /\ work[t] # <<>> /\ Head(work[t])[1] = "free"
      /\ UNCHANGED <<plugged, plugs, scans, scan, lists, handles, changed, lost>>
  BY DEF Free
<1>3. PICK d \in Devs : Head(work[t]) = <<"free", d>>
  BY <1>1, <1>2, TokenIs DEF Tokens
<1>4. Live(d) /\ devs[d].refs = 0 /\ RefsOf(d) = 0 /\ Due(d) = 1
  <2>1. Count(work[t], <<"free", d>>) = 1 + Count(Rest(t), <<"free", d>>)
    BY <1>1, <1>2, <1>3, TokenIs
  <2>2. Count(Rest(t), <<"free", d>>) \in Nat
    BY <1>1, <1>2, TokenIs
  <2>3. Count(work[t], <<"free", d>>) <= Frees(d) /\ Frees(d) \in Nat
    <3> DEFINE f == [u \in Users |-> Count(work[u], <<"free", d>>)]
    <3>1. f \in [Users -> Nat] /\ f[t] = Count(work[t], <<"free", d>>)
      BY <1>1, HeldParts
    <3>2. Frees(d) = Total(f)
      BY DEF Frees
    <3> HIDE DEF f
    <3>3. f[t] <= Total(f) /\ Total(f) \in Nat
      BY <3>1, DevsFinite, TotalChange
    <3> QED
      BY <3>1, <3>2, <3>3
  <2>4. Due(d) # 0
    BY <1>1, <2>1, <2>2, <2>3 DEF Balanced
  <2> QED
    BY <2>4 DEF Due, RefsOf
<1>5. \/ /\ ~devs[d].listed /\ fault' = "removed twice" /\ UNCHANGED <<devs, work>>
      \/ /\ devs[d].listed /\ fault' = "none" /\ devs' = [devs EXCEPT ![d] = [life |-> "gone"]]
         /\ work' = [work EXCEPT ![t] = Rest(t)]
  <2>1. Head(work[t])[2] = d
    BY <1>3
  <2> QED
    BY <1>1, <1>4, <2>1 DEF Free
<1>6. CASE ~devs[d].listed /\ fault' = "removed twice" /\ UNCHANGED <<devs, work>>
  <2>1. StateTyped'
    BY <1>1, <1>2, <1>6 DEF StateTyped
  <2>2. Ordered'
    BY <1>1, <1>2, <1>4, <1>6 DEF Ordered, Live
  <2> QED
    BY <1>6, <2>1, <2>2 DEF HeldInv
<1>7. CASE /\ devs[d].listed /\ fault' = "none" /\ devs' = [devs EXCEPT ![d] = [life |-> "gone"]]
           /\ work' = [work EXCEPT ![t] = Rest(t)]
  <2> DEFINE x == [life |-> "gone"]
  <2>1. x.life = "gone"
    OBVIOUS
  <2>2. devs' = [c \in Devs |-> IF c = d THEN x ELSE devs[c]]
    BY <1>1, <1>7 DEF StateTyped
  <2> HIDE DEF x
  <2>3. DeviceTyped(x)
    BY <2>1 DEF DeviceTyped
  <2>4. DeviceMap(devs')
    BY <1>1, <2>2, <2>3 DEF DeviceMap, StateTyped
  <2>5. devs'[d].life = "gone" /\ ~Live(d)' /\ \A c \in Devs \ {d} : devs'[c] = devs[c]
    BY <2>1, <2>2 DEF Live
  <2>6. /\ Rest(t) \in Seq(Tokens) /\ work'[t] = Rest(t)
        /\ \A u \in Users \ {t} : work'[u] = work[u]
    BY <1>1, <1>2, <1>7, TokenIs DEF StateTyped
  <2>7. StateTyped' /\ OnlyBy(t)
    BY <1>1, <1>2, <1>7, <2>4, <2>6 DEF StateTyped, DeviceMap, OnlyBy
  <2>8. ASSUME NEW c \in Devs PROVE RefsOf(c)' = RefsOf(c) /\ RefsOf(c) \in Nat
    <3>1. c = d => RefsOf(c)' = 0 /\ RefsOf(c) = 0
      BY <1>4, <2>5 DEF RefsOf
    <3>2. c # d => RefsOf(c)' = RefsOf(c)
      BY <2>5 DEF RefsOf, Live
    <3> QED
      BY <1>1, <3>1, <3>2, RefsNat
  <2>9. ASSUME NEW c \in Devs, RefsOf(c) > 0 PROVE c # d /\ devs'[c] = devs[c]
    BY <1>4, <2>5, <2>9
  <2>10. ASSUME NEW c \in Devs PROVE Even(t, c)
    <3>1. Children(c)' = Children(c) /\ Cardinality(Children(c)) \in Nat
      <4>1. \A e \in Devs : IsChild(e, c)' <=> IsChild(e, c)
        BY <2>8, <2>9 DEF IsChild
      <4> QED
        BY <4>1, KidsSame, KidsFinite
    <3>2. /\ Count(work[t], <<"unref", c>>) = Count(Rest(t), <<"unref", c>>)
          /\ Count(work[t], <<"free", c>>) = (IF c = d THEN 1 ELSE 0)
                                             + Count(Rest(t), <<"free", c>>)
          /\ Count(Rest(t), <<"free", c>>) \in Nat
      <4>1. <<"free", c>> = Head(work[t]) <=> c = d
        BY <1>3
      <4>2. <<"unref", c>> # Head(work[t])
        BY <1>3
      <4>3. Count(Rest(t), <<"free", c>>) \in Nat /\ Count(Rest(t), <<"unref", c>>) \in Nat
        BY <1>1, <1>2, TokenIs
      <4>4. Count(work[t], <<"unref", c>>) = 0 + Count(Rest(t), <<"unref", c>>)
        BY <1>1, <1>2, <4>2, TokenIs
      <4>5. Count(work[t], <<"free", c>>) = (IF c = d THEN 1 ELSE 0)
                                             + Count(Rest(t), <<"free", c>>)
        BY <1>1, <1>2, <4>1, TokenIs
      <4> QED
        BY <4>3, <4>4, <4>5
    <3>3. HeldBy(t, c)' = HeldBy(t, c) /\ HeldBy(t, c) \in Nat
      BY <1>1, <1>2, <2>6, <3>2, HeldIs, HeldParts
    <3>4. Due(c)' = Due(c) - (IF c = d THEN 1 ELSE 0) /\ Due(c) \in Nat
      <4>1. c = d => Due(c)' = 0
        BY <2>5 DEF Due
      <4>2. c # d => Due(c)' = Due(c)
        BY <2>5 DEF Due, Live
      <4>3. Due(c) \in Nat
        BY DEF Due
      <4> QED
        BY <1>4, <4>1, <4>2, <4>3
    <3>5. lost[c] \in Nat /\ lost'[c] = lost[c]
      BY <1>1, <1>2 DEF StateTyped
    <3>6. RefsOf(c)' = RefsOf(c) - lost[c] + lost'[c]
                       - Cardinality(Children(c)) + Cardinality(Children(c))'
                       - HeldBy(t, c) + HeldBy(t, c)'
      <4>1. Cardinality(Children(c))' = Cardinality(Children(c))
        BY <3>1
      <4> QED
        BY <2>8, <3>1, <3>3, <3>5, <4>1
    <3> DEFINE own == IF c = d THEN 1 ELSE 0
    <3>7. /\ own \in Nat /\ Due(c)' = Due(c) - own /\ Due(c) \in Nat
          /\ Count(work[t], <<"free", c>>) = own + Count(work'[t], <<"free", c>>)
          /\ Count(work'[t], <<"free", c>>) \in Nat
      BY <2>6, <3>2, <3>4
    <3> HIDE DEF own
    <3>8. Due(c)' = Due(c) - Count(work[t], <<"free", c>>) + Count(work'[t], <<"free", c>>)
      BY <3>7
    <3> QED
      BY <3>6, <3>8 DEF Even
  <2>11. Balanced'
    BY <1>1, <2>7, <2>10, BalanceKept
  <2>12. Ordered'
    <3>1. devs[d].life = "live"
      BY <1>4 DEF Live
    <3>2. \A c \in Devs : devs'[c].life = "unused" <=> devs[c].life = "unused"
      BY <2>5, <3>1
    <3>3. \A c \in Devs : Live(c)' /\ ~devs'[c].listed => Live(c) /\ ~devs[c].listed
      BY <2>5 DEF Live
    <3> QED
      BY <1>1, <1>2, <1>7, <3>2, <3>3 DEF Ordered
  <2>13. Overlapped' <=> Overlapped
    BY <1>2 DEF Overlapped
  <2>14. ASSUME NEW u \in Users, scan'[u] # NoScan PROVE InHand(u, scan[u])'
    <3>1. InHand(u, scan[u]) /\ scan'[u] = scan[u] /\ scan[u] # NoScan
      BY <1>1, <1>2, <2>14 DEF ScansSound
    <3>2. scan[u].parent # 0 => scan[u].parent \in Devs /\ scan[u].parent # d
      <4>1. SUFFICES ASSUME scan[u].parent # 0
                     PROVE  scan[u].parent \in Devs /\ scan[u].parent # d
        OBVIOUS
      <4>2. scan[u].parent \in Devs
        <5>1. ScanTyped(scan[u])
          BY <1>1 DEF StateTyped
        <5>2. scan[u].parent \in 0 .. MaxDevs
          BY <3>1, <5>1 DEF ScanTyped
        <5> QED
          BY <4>1, <5>2, DeviceNumber
      <4>3. HeldBy(u, scan[u].parent) > 0
        BY <1>1, <3>1, <4>2, InHandHeld
      <4>4. devs[scan[u].parent].refs > 0 /\ devs[scan[u].parent].refs \in Nat
        BY <1>1, <4>2, <4>3, HolderLive
      <4> QED
        BY <1>4, <4>2, <4>4
    <3>3. /\ scan[u].pass = "gen" /\ scan[u].parent # 0 /\ ~Overlapped =>
               Ancestor(Head(scan[u].todo).place)' = scan[u].parent
      <4>1. SUFFICES ASSUME scan[u].pass = "gen", scan[u].parent # 0, ~Overlapped
                     PROVE  Ancestor(Head(scan[u].todo).place)' = scan[u].parent
        OBVIOUS
      <4> DEFINE n == Head(scan[u].todo).place
      <4>2. Ancestor(n) = scan[u].parent
        BY <3>1, <4>1 DEF InHand
      <4>3. n = Head(scan'[u].todo).place
        BY <3>1
      <4> HIDE DEF n
      <4>4. PICK m : m = n
        OBVIOUS
      <4>5. Ancestor(m)' = Ancestor(m)
        BY <2>5, <3>2, <4>1, <4>2, <4>4, AncestorKept
      <4> QED
        BY <3>1, <4>2, <4>3, <4>4, <4>5 DEF n
    <3> QED
      BY <1>2, <2>5, <2>13, <3>1, <3>2, <3>3 DEF InHand
  <2>15. ScansSound'
    BY <1>1, <1>2, <2>13, <2>14 DEF ScansSound
  <2>16. HubsAbove'
    <3>1. ASSUME NEW c \in Devs, RefsOf(c)' > 0, devs'[c].parent # 0
          PROVE  devs'[devs'[c].parent].api = "hub"
      <4>1. RefsOf(c) > 0 /\ devs'[c] = devs[c] /\ Live(c)
        BY <2>8, <2>9, <3>1, Counted
      <4>2. devs[c].parent \in Devs /\ devs[devs[c].parent].api = "hub"
        BY <1>1, <3>1, <4>1, RefsNat, DeviceNumber DEF HubsAbove
      <4>3. IsChild(c, devs[c].parent)
        BY <4>1 DEF IsChild
      <4>4. devs[devs[c].parent].refs > 0
        BY <1>1, <4>2, <4>3, HolderLive
      <4>5. devs[c].parent # d
        BY <1>4, <4>4
      <4> QED
        BY <2>5, <4>1, <4>2, <4>5
    <3>2. ASSUME ~Overlapped', NEW c \in Devs, lost'[c] > 0 PROVE devs'[c].api = "hub"
      <4>1. lost[c] > 0 /\ devs[c].api = "hub"
        BY <1>1, <1>2, <2>13, <3>2 DEF HubsAbove
      <4>2. devs[c].refs > 0
        BY <1>1, <4>1, HolderLive
      <4>3. c # d
        BY <1>4, <4>2
      <4> QED
        BY <2>5, <4>1, <4>3
    <3> QED
      BY <3>1, <3>2 DEF HubsAbove
  <2> QED
    BY <2>7, <2>11, <2>12, <2>15, <2>16 DEF HeldInv
<1> QED
  BY <1>5, <1>6, <1>7

-----------------------------------------------------------------------------
(* Setting a device up                                                       *)

Enters(s) == s.dev = 0 \/ Replaced(s)

LEMMA FreshIs ==
    ASSUME HasFresh
    PROVE  /\ Fresh \in Devs /\ devs[Fresh] = Unused
           /\ \A e \in Devs : devs[e] = Unused => Fresh <= e
<1> DEFINE of == {d \in Devs : devs[d] = Unused}
<1>1. of \in SUBSET Nat /\ of # {}
  BY DEF HasFresh, Devs
<1>2. PICK m \in of : \A k \in of : m <= k
  BY <1>1, MinExists
<1>3. \E d \in Devs : devs[d] = Unused /\ \A e \in Devs : devs[e] = Unused => d <= e
  BY <1>2
<1> QED
  BY <1>3 DEF Fresh

(* The devices after a new one was entered, and the one it takes the place   *)
(* of was left out of the list.                                              *)
LEMMA EnteredIs ==
    ASSUME StateTyped, Ordered, NEW s, s.dev \in 0 .. MaxDevs, s.dev # 0 => Live(s.dev),
           s.dev # 0 => devs[s.dev].refs > 0, Enters(s) => HasFresh
    PROVE  /\ Target(s) \in Devs /\ DeviceMap(Entered(s))
           /\ Entered(s)[Target(s)].life = "live" /\ Entered(s)[Target(s)].refs > 0
           /\ Enters(s) => /\ Target(s) # s.dev /\ devs[Target(s)].life = "unused"
                           /\ Entered(s)[Target(s)].refs = 1
                           /\ Entered(s)[Target(s)].parent = 0
           /\ ~Enters(s) => /\ Target(s) = s.dev
                            /\ Entered(s)[Target(s)] = devs[Target(s)]
           /\ \A c \in Devs \ {Target(s)} :
                /\ Entered(s)[c].life = devs[c].life
                /\ Live(c) => /\ Entered(s)[c].refs = devs[c].refs
                              /\ Entered(s)[c].parent = devs[c].parent
                              /\ Entered(s)[c].api = devs[c].api
           /\ \A c \in Devs : Entered(s)[c].life = "live" /\ ~Entered(s)[c].listed =>
                \E e \in Devs : c < e /\ Entered(s)[e].life # "unused"
           /\ \A c, e \in Devs : c < e /\ Entered(s)[c].life = "unused" =>
                Entered(s)[e].life = "unused"
<1> DEFINE d == Target(s)
           E == Entered(s)
           gone == [devs[s.dev] EXCEPT !.listed = FALSE, !.attached = FALSE]
           new == New(Head(s.todo).place, Head(s.todo).id)
<1>1. /\ Enters(s) => /\ d = Fresh /\ d \in Devs /\ devs[d] = Unused
                      /\ \A e \in Devs : devs[e] = Unused => d <= e
      /\ ~Enters(s) => d = s.dev
  BY FreshIs DEF Enters, Target
<1>2. ~Enters(s) => s.dev \in Devs
  BY DeviceNumber DEF Enters
<1>3. d \in Devs
  BY <1>1, <1>2
<1>4. \A c \in Devs : devs[c].life = "unused" => devs[c] = Unused
  BY DEF StateTyped, DeviceTyped
<1>5. Unused.life = "unused" /\ Unused.life # "live"
  BY DEF Unused
<1>6. Enters(s) => d # s.dev /\ devs[d].life = "unused"
  BY <1>1, <1>5 DEF Live, Devs
<1>7. Replaced(s) => Enters(s) /\ s.dev \in Devs /\ Live(s.dev)
  BY DeviceNumber DEF Enters, Replaced
<1>8. E = [c \in Devs |-> IF c = d /\ c # s.dev THEN new
                          ELSE IF c = s.dev /\ Replaced(s) THEN gone ELSE devs[c]]
  <2>1. \A c \in Devs : c = s.dev => devs[c] = devs[s.dev]
    OBVIOUS
  <2> QED
    BY <2>1 DEF Entered
<1>9. /\ new.life = "live" /\ new.refs = 1 /\ new.parent = 0 /\ new.listed = TRUE
      /\ new = [f \in DeviceFields |-> new[f]]
  BY DEF New, DeviceFields
<1>10. DeviceTyped(new)
  <2> HIDE DEF new
  <2>2. 0 \in 0 .. MaxDevs
    BY DevsFinite
  <2>3. new.parent \in 0 .. MaxDevs
    BY <1>9, <2>2
  <2>4. new.listed \in BOOLEAN
    BY <1>9
  <2>1. new.parent \in 0 .. MaxDevs /\ new.listed \in BOOLEAN /\ new.refs \in Nat
    BY <1>9, <2>3, <2>4
  <2> QED
    BY <1>9, <2>1 DEF DeviceTyped
<1>11. Replaced(s) => /\ gone.life = "live" /\ gone.refs = devs[s.dev].refs
                      /\ gone.parent = devs[s.dev].parent /\ gone.api = devs[s.dev].api
                      /\ DeviceTyped(gone)
  <2>1. SUFFICES ASSUME Replaced(s)
                 PROVE  /\ gone.life = "live" /\ gone.refs = devs[s.dev].refs
                        /\ gone.parent = devs[s.dev].parent /\ gone.api = devs[s.dev].api
                        /\ DeviceTyped(gone)
    OBVIOUS
  <2> DEFINE r == devs[s.dev]
  <2>2. /\ r = [f \in DeviceFields |-> r[f]] /\ r.life = "live" /\ r.refs \in Nat
        /\ r.parent \in 0 .. MaxDevs
    BY <1>7, <2>1 DEF StateTyped, DeviceTyped, Live
  <2>3. gone = [r EXCEPT !.listed = FALSE, !.attached = FALSE]
    OBVIOUS
  <2> HIDE DEF r, gone
  <2>4. /\ gone = [f \in DeviceFields |-> gone[f]]
        /\ \A f \in DeviceFields : gone[f] = IF f \in {"listed", "attached"} THEN FALSE ELSE r[f]
    BY <2>2, <2>3 DEF DeviceFields
  <2>5. /\ gone.life = r.life /\ gone.refs = r.refs /\ gone.parent = r.parent
        /\ gone.api = r.api /\ gone.listed = FALSE
    BY <2>4 DEF DeviceFields
  <2>6. DeviceTyped(gone)
    BY <2>2, <2>4, <2>5 DEF DeviceTyped
  <2> QED
    BY <2>2, <2>5, <2>6 DEF r
<1> HIDE DEF E, d, gone, new
<1>12. /\ E = [c \in Devs |-> E[c]]
       /\ \A c \in Devs : E[c] = IF c = d /\ c # s.dev THEN new
                                 ELSE IF c = s.dev /\ Replaced(s) THEN gone ELSE devs[c]
  BY <1>8
<1>13. DeviceMap(E)
  <2>1. \A c \in Devs : DeviceTyped(devs[c])
    BY DEF StateTyped
  <2>2. \A c \in Devs : DeviceTyped(E[c])
    BY <1>10, <1>11, <1>12, <2>1
  <2> QED
    BY <1>12, <2>2 DEF DeviceMap
<1>14. Enters(s) => E[d] = new
  BY <1>3, <1>6, <1>12
<1>15. ~Enters(s) => E[d] = devs[d] /\ d = s.dev
  BY <1>1, <1>2, <1>7, <1>12
<1>16. E[d].life = "live" /\ E[d].refs > 0
  <2>1. CASE Enters(s)
    BY <1>9, <1>14, <2>1
  <2>2. CASE ~Enters(s)
    BY <1>2, <1>15, <2>2 DEF Live, Devs, Enters
  <2> QED
    BY <2>1, <2>2
<1>17. ASSUME NEW c \in Devs \ {d}
       PROVE  /\ E[c].life = devs[c].life
              /\ Live(c) => /\ E[c].refs = devs[c].refs /\ E[c].parent = devs[c].parent
                            /\ E[c].api = devs[c].api
  <2>1. CASE c = s.dev /\ Replaced(s)
    BY <1>7, <1>11, <1>12, <2>1 DEF Live
  <2>2. CASE ~(c = s.dev /\ Replaced(s))
    BY <1>12, <2>2
  <2> QED
    BY <2>1, <2>2
<1>18. ASSUME NEW c \in Devs, E[c].life = "live", ~E[c].listed
       PROVE  \E e \in Devs : c < e /\ E[e].life # "unused"
  <2>1. CASE c = d /\ Enters(s)
    BY <1>9, <1>14, <1>18, <2>1
  <2>2. CASE c = s.dev /\ Replaced(s)
    <3>1. d \in Devs /\ devs[d].life = "unused" /\ devs[c].life = "live" /\ c # d
      BY <1>6, <1>7, <2>2, <1>3 DEF Live
    <3>2. ~(d < c)
      BY <3>1 DEF Ordered
    <3>3. c < d
      BY <3>1, <3>2 DEF Devs
    <3> QED
      BY <1>3, <1>16, <3>3
  <2>3. CASE ~(c = d /\ Enters(s)) /\ ~(c = s.dev /\ Replaced(s))
    <3>1. E[c] = devs[c]
      BY <1>12, <1>15, <2>3
    <3>2. PICK e \in Devs : c < e /\ devs[e].life # "unused"
      BY <1>18, <3>1 DEF Ordered, Live
    <3>3. E[e].life # "unused"
      BY <1>16, <1>17, <3>2
    <3> QED
      BY <3>2, <3>3
  <2> QED
    BY <2>1, <2>2, <2>3
<1>19. ASSUME NEW c \in Devs, NEW e \in Devs, c < e, E[c].life = "unused"
       PROVE  E[e].life = "unused"
  <2>3. c # d
    BY <1>16, <1>19
  <2>4. devs[c].life = "unused"
    BY <1>17, <1>19, <2>3
  <2>1. c # d /\ devs[c].life = "unused" /\ devs[e].life = "unused"
    BY <1>19, <2>3, <2>4 DEF Ordered
  <2>2. e # d
    <3>1. CASE Enters(s)
      <4>1. d <= c
        BY <1>1, <1>4, <2>1, <3>1
      <4> QED
        BY <1>3, <1>19, <2>1, <4>1 DEF Devs
    <3>2. CASE ~Enters(s)
      BY <1>15, <1>16, <2>1, <3>2
    <3> QED
      BY <3>1, <3>2
  <2> QED
    BY <1>17, <2>1, <2>2
<1>20. Enters(s) => d # s.dev /\ devs[d].life = "unused" /\ E[d].refs = 1 /\ E[d].parent = 0
  BY <1>6, <1>9, <1>14
<1> HIDE DEF Enters
<1> QED
  BY <1>3, <1>13, <1>15, <1>16, <1>17, <1>18, <1>19, <1>20 DEF E, d

(* What came of setting a device up keeps the invariant, when the references *)
(* that changed hands add up.                                                *)
Settled(t, d) ==
    /\ UNCHANGED <<lists, handles, changed>> /\ scan[t] # NoScan /\ InHand(t, scan[t])'
    /\ RefsOf(d)' > 0 /\ (RefsOf(d) > 0 \/ ~Live(d))
    /\ \A c \in Devs : Live(c) => /\ Live(c)'
                                  /\ devs[c].api = "hub" => devs'[c].api = "hub"
    /\ \A c \in Devs \ {d} : /\ Live(c)' => Live(c)
                             /\ RefsOf(c)' > 0 <=> RefsOf(c) > 0
                             /\ Live(c) => devs'[c].parent = devs[c].parent
    /\ \A c \in Devs :
         /\ RefsOf(c)' = RefsOf(c) - lost[c] + lost'[c]
                         - (IF IsChild(d, c) THEN 1 ELSE 0)
                         + (IF devs'[d].parent = c THEN 1 ELSE 0)
                         - HeldBy(t, c) + HeldBy(t, c)'
         /\ Count(work'[t], <<"free", c>>) = Count(work[t], <<"free", c>>)
    /\ devs'[d].parent # 0 => devs'[devs'[d].parent].api = "hub"
    /\ ~Overlapped => \A c \in Devs : lost'[c] # lost[c] => devs'[c].api = "hub"

LEMMA SettledStep ==
    ASSUME StateTyped, Balanced, ScansSound, HubsAbove, NEW t \in Users, StateTyped', OnlyBy(t),
           NEW d \in Devs, Settled(t, d)
    PROVE  Balanced' /\ ScansSound' /\ HubsAbove'
<1>1. Overlapped' <=> Overlapped
  BY DEF Settled, Overlapped
<1>2. ASSUME NEW c \in Devs PROVE Even(t, c)
  <2>1. /\ Cardinality(Children(c)) \in Nat
        /\ Cardinality(Children(c))' = Cardinality(Children(c))
              - (IF IsChild(d, c) THEN 1 ELSE 0) + (IF IsChild(d, c)' THEN 1 ELSE 0)
    <3>1. \A e \in Devs \ {d} : IsChild(e, c)' <=> IsChild(e, c)
      <4>1. SUFFICES ASSUME NEW e \in Devs \ {d} PROVE IsChild(e, c)' <=> IsChild(e, c)
        OBVIOUS
      <4>2. RefsOf(e)' > 0 <=> RefsOf(e) > 0
        BY DEF Settled
      <4>3. RefsOf(e) > 0 => devs'[e].parent = devs[e].parent
        BY Counted DEF Settled
      <4> QED
        BY <4>2, <4>3 DEF IsChild
    <3> QED
      BY <3>1, KidsOne, KidsFinite
  <2>2. IsChild(d, c)' <=> devs'[d].parent = c
    BY DEF Settled, IsChild
  <2> DEFINE old == IF IsChild(d, c) THEN 1 ELSE 0
             new == IF devs'[d].parent = c THEN 1 ELSE 0
             kids == Cardinality(Children(c))
             next == Cardinality(Children(c))'
             h == HeldBy(t, c)
             hn == HeldBy(t, c)'
             r == RefsOf(c)
             rn == RefsOf(c)'
  <2>3. /\ old \in Nat /\ new \in Nat /\ kids \in Nat /\ next = kids - old + new
        /\ rn = r - lost[c] + lost'[c] - old + new - h + hn
    BY <2>1, <2>2 DEF Settled
  <2>4. h \in Nat /\ hn \in Nat /\ r \in Nat /\ lost[c] \in Nat /\ lost'[c] \in Nat
    BY HeldParts, HeldPartsNext, RefsNat DEF StateTyped
  <2> HIDE DEF old, new, kids, next, h, hn, r, rn
  <2>5. rn = r - lost[c] + lost'[c] - kids + next - h + hn
    BY <2>3, <2>4
  <2>6. Due(c)' = Due(c) /\ Due(c) \in Nat
    <3>0. Due(c) \in Nat
      BY DEF Due
    <3>1. RefsOf(c) \in Nat /\ RefsOf(c)' \in Nat
      BY RefsNat, RefsNatNext
    <3>2. /\ Live(c) => RefsOf(c) = devs[c].refs
          /\ Live(c)' => RefsOf(c)' = devs'[c].refs
      BY DEF RefsOf
    <3>3. CASE c = d
      <4>1. RefsOf(c)' > 0 /\ (RefsOf(c) > 0 \/ ~Live(c))
        BY <3>3 DEF Settled
      <4> QED
        BY <3>1, <3>2, <4>1 DEF Due
    <3>4. CASE c # d
      <4>1. (Live(c)' <=> Live(c)) /\ (RefsOf(c)' > 0 <=> RefsOf(c) > 0)
        BY <3>4 DEF Settled
      <4>2. RefsOf(c)' = 0 <=> RefsOf(c) = 0
        BY <3>1, <4>1
      <4> QED
        BY <3>2, <4>1, <4>2 DEF Due
    <3> QED
      BY <3>0, <3>3, <3>4
  <2>7. Count(work'[t], <<"free", c>>) = Count(work[t], <<"free", c>>)
        /\ Count(work[t], <<"free", c>>) \in Nat
    BY HeldParts DEF Settled
  <2>8. Due(c)' = Due(c) - Count(work[t], <<"free", c>>) + Count(work'[t], <<"free", c>>)
    BY <2>6, <2>7
  <2> QED
    BY <2>5, <2>8 DEF Even, r, rn, kids, next, h, hn
<1>3. Balanced'
  BY <1>2, BalanceKept
<1>4. ASSUME NEW u \in Users, scan'[u] # NoScan PROVE InHand(u, scan[u])'
  <2>1. CASE u = t
    BY <2>1 DEF Settled
  <2>2. CASE u # t
    <3>1. /\ scan'[u] = scan[u] /\ scan[u] # NoScan /\ InHand(u, scan[u])
          /\ lists'[u] = lists[u] /\ handles'[u] = handles[u]
      BY <1>4, <2>2 DEF OnlyBy, ScansSound
    <3>2. Overlapped'
      BY <1>1, <2>2, <3>1 DEF ScansSound, Settled
    <3>3. scan[u].parent # 0 /\ devs[scan[u].parent].api = "hub" =>
            devs'[scan[u].parent].api = "hub"
      <4>1. SUFFICES ASSUME scan[u].parent # 0, devs[scan[u].parent].api = "hub"
                     PROVE  devs'[scan[u].parent].api = "hub"
        OBVIOUS
      <4>2. scan[u].parent \in Devs
        <5>1. ScanTyped(scan[u])
          BY DEF StateTyped
        <5>2. scan[u].parent \in 0 .. MaxDevs
          BY <3>1, <5>1 DEF ScanTyped
        <5> QED
          BY <4>1, <5>2, DeviceNumber
      <4>3. HeldBy(u, scan[u].parent) > 0
        BY <3>1, <4>2, InHandHeld
      <4>4. Live(scan[u].parent)
        BY <4>2, <4>3, HolderLive
      <4> QED
        BY <4>1, <4>2, <4>4 DEF Settled
    <3> QED
      BY <3>1, <3>2, <3>3 DEF InHand
  <2> QED
    BY <2>1, <2>2
<1>5. ScansSound'
  <2>1. ~Overlapped' => \A u, v \in Users : scan'[u] # NoScan /\ scan'[v] # NoScan => u = v
    <3>1. SUFFICES ASSUME ~Overlapped', NEW u \in Users, NEW v \in Users, scan'[u] # NoScan,
                          scan'[v] # NoScan
                   PROVE  u = v
      OBVIOUS
    <3>2. scan[t] # NoScan
      BY DEF Settled
    <3>3. scan[u] # NoScan /\ scan[v] # NoScan
      BY <3>1, <3>2 DEF OnlyBy
    <3> QED
      BY <1>1, <3>1, <3>3 DEF ScansSound
  <2> QED
    BY <1>4, <2>1 DEF ScansSound
<1>6. HubsAbove'
  <2>1. ASSUME NEW c \in Devs, RefsOf(c)' > 0, devs'[c].parent # 0
        PROVE  devs'[devs'[c].parent].api = "hub"
    <3>1. CASE c = d
      BY <2>1, <3>1 DEF Settled
    <3>2. CASE c # d
      <4>1. RefsOf(c) > 0
        BY <2>1, <3>2 DEF Settled
      <4>2. Live(c) /\ devs'[c].parent = devs[c].parent
        BY <3>2, <4>1, Counted DEF Settled
      <4>3. devs[c].parent \in Devs /\ devs[devs[c].parent].api = "hub"
        BY <2>1, <4>1, <4>2, RefsNat, DeviceNumber DEF HubsAbove
      <4>4. IsChild(c, devs[c].parent)
        BY <4>1 DEF IsChild
      <4>5. Live(devs[c].parent)
        BY <4>3, <4>4, HolderLive
      <4> QED
        BY <4>2, <4>3, <4>5 DEF Settled
    <3> QED
      BY <3>1, <3>2
  <2>2. ASSUME ~Overlapped', NEW c \in Devs, lost'[c] > 0 PROVE devs'[c].api = "hub"
    <3>1. CASE lost'[c] # lost[c]
      BY <1>1, <2>2, <3>1 DEF Settled
    <3>2. CASE lost'[c] = lost[c]
      <4>1. lost[c] > 0 /\ devs[c].api = "hub"
        BY <1>1, <2>2, <3>2 DEF HubsAbove
      <4>2. Live(c)
        BY <4>1, HolderLive
      <4> QED
        BY <4>1, <4>2 DEF Settled
    <3> QED
      BY <3>1, <3>2
  <2> QED
    BY <2>1, <2>2 DEF HubsAbove
<1> QED
  BY <1>3, <1>5, <1>6

One(b) == IF b THEN 1 ELSE 0

\* Thread t has set up the device of its entry: x is what became of it, a the
\* device that was referenced, left those of which a reference was left, y the
\* scan then, and got says whether the device is one of those it found.
SetUp(t, x, y, a, left, got) ==
    LET s == scan[t]
        d == Target(s)
        r == Entered(s)[d]
    IN  /\ devs' = Ref([Entered(s) EXCEPT ![d] = x], a)
        /\ x = [f \in DeviceFields |-> x[f]]
        /\ x.life = "live" /\ x.refs = r.refs /\ x.listed = r.listed
        /\ r.api = "hub" => x.api = "hub"
        /\ x.parent = r.parent \/ x.parent = s.parent
        /\ a \in 0 .. MaxDevs /\ (a # 0 /\ a # d => Live(a))
        /\ lost' = [c \in Devs |-> IF c \in left THEN lost[c] + 1 ELSE lost[c]]
        /\ scan' = [scan EXCEPT ![t] = y] /\ ScanTyped(y) /\ y # NoScan
        /\ y.dev = -1 /\ y.parent = 0 /\ y.want = s.want /\ y.unref = Append(s.unref, d)
        /\ y.found = IF got THEN Append(s.found, d) ELSE s.found
        /\ work' = [work EXCEPT ![t] = IF Replaced(s) THEN <<<<"unref", s.dev>>>> ELSE <<>>]
        /\ \A c \in Devs : One(c = a) + One(r.parent = c) + One(s.parent = c)
                             = One(c \in left) + One(x.parent = c) + One(got /\ c = d)
        /\ ~Overlapped => \A c \in Devs : c \in left => c = s.parent \/ c = r.parent
        /\ UNCHANGED <<lists, handles, changed>>
        /\ fault' \in {"none", "found while destroyed"}
        /\ fault' = "none" /\ a # 0 /\ a # d => devs[a].refs # 0

\* A thread is at an entry of "hub", "dev" or "gen" with what it found.
AtEntry(t) ==
    /\ scan[t] # NoScan /\ work[t] = <<>> /\ scan[t].pass \in {"hub", "dev", "gen"}
    /\ scan[t].dev # -1 /\ (Enters(scan[t]) => HasFresh)

LEMMA AtEntryIs ==
    ASSUME HeldInv, fault = "none", NEW t \in Users, scan[t] # NoScan, scan[t].dev # -1,
           scan[t].pass \in {"hub", "dev", "gen"}
    PROVE  /\ ScanTyped(scan[t]) /\ InHand(t, scan[t])
           /\ scan[t].unref \in Seq(Devs) /\ scan[t].found \in Seq(Devs)
           /\ scan[t].dev \in 0 .. MaxDevs /\ scan[t].parent \in 0 .. MaxDevs
           /\ scan[t].dev # 0 => Live(scan[t].dev) /\ devs[scan[t].dev].refs > 0
           /\ scan[t].parent # 0 => /\ Live(scan[t].parent) /\ devs[scan[t].parent].refs > 0
                                    /\ devs[scan[t].parent].api = "hub" /\ scan[t].pass = "gen"
<1>1. StateTyped /\ Ordered /\ Balanced /\ ScansSound /\ HubsAbove
  BY DEF HeldInv
<1>2. ScanTyped(scan[t]) /\ InHand(t, scan[t])
  BY <1>1 DEF StateTyped, ScansSound
<1>3. /\ scan[t].dev \in 0 .. MaxDevs /\ scan[t].parent \in 0 .. MaxDevs
      /\ scan[t].unref \in Seq(Devs) /\ scan[t].found \in Seq(Devs)
  BY <1>2 DEF ScanTyped
<1>4. scan[t].dev # 0 => Live(scan[t].dev) /\ devs[scan[t].dev].refs > 0
  <2>1. SUFFICES ASSUME scan[t].dev # 0 PROVE Live(scan[t].dev) /\ devs[scan[t].dev].refs > 0
    OBVIOUS
  <2>2. scan[t].dev \in Devs
    BY <1>3, <2>1, DeviceNumber
  <2>3. HeldBy(t, scan[t].dev) > 0
    BY <1>1, <2>2, InHandHeld
  <2> QED
    BY <1>1, <2>2, <2>3, HolderLive
<1>5. scan[t].parent # 0 => Live(scan[t].parent) /\ devs[scan[t].parent].refs > 0
  <2>1. SUFFICES ASSUME scan[t].parent # 0
                 PROVE  Live(scan[t].parent) /\ devs[scan[t].parent].refs > 0
    OBVIOUS
  <2>2. scan[t].parent \in Devs
    BY <1>3, <2>1, DeviceNumber
  <2>3. HeldBy(t, scan[t].parent) > 0
    BY <1>1, <2>2, InHandHeld
  <2> QED
    BY <1>1, <2>2, <2>3, HolderLive
<1>6. scan[t].parent # 0 => devs[scan[t].parent].api = "hub" /\ scan[t].pass = "gen"
  BY <1>2 DEF InHand
<1> QED
  BY <1>2, <1>3, <1>4, <1>5, <1>6

\* What a thread holds after it set up device d, and has q to release.
Holding(t, d, q, y, got) ==
    /\ scan[t] # NoScan /\ work[t] = <<>> /\ UNCHANGED <<lists, handles>>
    /\ d \in Devs /\ q \in 0 .. MaxDevs /\ got \in BOOLEAN /\ scan'[t] = y /\ y # NoScan
    /\ y.dev = -1 /\ y.parent = 0 /\ y.unref = Append(scan[t].unref, d)
    /\ y.found = IF got THEN Append(scan[t].found, d) ELSE scan[t].found
    /\ work'[t] = IF q = 0 THEN <<>> ELSE <<<<"unref", q>>>>

LEMMA SetUpHeld ==
    ASSUME StateTyped, NEW t \in Users, NEW d, NEW q, NEW y, NEW got, Holding(t, d, q, y, got),
           NEW c \in Devs
    PROVE  /\ HeldBy(t, c) \in Nat
           /\ HeldBy(t, c)' = HeldBy(t, c) - One(scan[t].parent = c) - One(scan[t].dev = c)
                              + One(c = q) + One(c = d) + One(got /\ c = d)
           /\ Count(work'[t], <<"free", c>>) = Count(work[t], <<"free", c>>)
<1> DEFINE s == scan[t]
<1>0. /\ s # NoScan /\ work[t] = <<>> /\ UNCHANGED <<lists, handles>>
      /\ d \in Devs /\ q \in 0 .. MaxDevs /\ got \in BOOLEAN /\ scan'[t] = y /\ y # NoScan
      /\ y.dev = -1 /\ y.parent = 0 /\ y.unref = Append(s.unref, d)
      /\ y.found = (IF got THEN Append(s.found, d) ELSE s.found)
      /\ work'[t] = (IF q = 0 THEN <<>> ELSE <<<<"unref", q>>>>)
  BY DEF Holding
<1>1. ScanTyped(s) /\ s.unref \in Seq(Devs) /\ s.found \in Seq(Devs)
  BY <1>0 DEF StateTyped, ScanTyped
<1>2. c # 0 /\ c # -1
  BY DEF Devs
<1>3. /\ Count(work'[t], <<"unref", c>>) = One(c = q) /\ Count(work'[t], <<"free", c>>) = 0
  <2>1. CASE q = 0
    BY <1>0, <1>2, <2>1, CountEmpty DEF One
  <2>2. CASE q # 0
    BY <1>0, <2>2, CountOne DEF One
  <2> QED
    BY <2>1, <2>2
<1>4. Count(work[t], <<"unref", c>>) = 0 /\ Count(work[t], <<"free", c>>) = 0
  BY <1>0, CountEmpty
<1> DEFINE l == Count(lists[t], c)
           h == Count(handles[t], c)
           u == Count(s.unref, c)
           f == Count(s.found, c)
           a == One(s.parent = c)
           b == One(s.dev = c)
           k == One(c = q)
           m == One(c = d)
           g == One(got /\ c = d)
<1>5. /\ l \in Nat /\ h \in Nat /\ u \in Nat /\ f \in Nat /\ a \in Nat /\ b \in Nat /\ k \in Nat
      /\ m \in Nat /\ g \in Nat
  <2>1. l \in Nat /\ h \in Nat /\ u \in Nat /\ f \in Nat
    BY <1>0, HeldParts
  <2> QED
    BY <2>1 DEF One
<1>6. Count(y.unref, c) = u + m
  BY <1>0, <1>1, CountAppend DEF One
<1>7. Count(y.found, c) = f + g
  <2>0. got \in BOOLEAN
    BY <1>0
  <2>1. CASE got
    BY <1>0, <1>1, <2>1, CountAppend DEF One
  <2>2. CASE ~got
    BY <1>0, <1>5, <2>2 DEF One
  <2> QED
    BY <2>1, <2>2
<1>8. ScanHolds(s, c) = u + f + a + b
  BY <1>0 DEF ScanHolds, One
<1>9. ScanHolds(y, c) = u + m + (f + g) + 0 + 0
  BY <1>0, <1>2, <1>6, <1>7 DEF ScanHolds
<1>10. HeldBy(t, c) = l + h + 0 + (u + f + a + b)
  BY <1>0, <1>4, <1>8, HeldIs
<1>11. HeldBy(t, c)' = l + h + k + (u + m + (f + g) + 0 + 0)
  BY <1>0, <1>3, <1>9, HeldIs
<1> DEFINE now == HeldBy(t, c)
           then == HeldBy(t, c)'
<1>13. now = l + h + 0 + (u + f + a + b)
  BY <1>10
<1>14. then = l + h + k + (u + m + (f + g) + 0 + 0)
  BY <1>11
<1> HIDE DEF l, h, u, f, a, b, k, m, g, now, then, s
<1>15. now \in Nat /\ then = now - a - b + k + m + g
  BY <1>5, <1>13, <1>14
<1>12. HeldBy(t, c) \in Nat /\ HeldBy(t, c)' = HeldBy(t, c) - a - b + k + m + g
  BY <1>15 DEF now, then
<1> QED
  BY <1>3, <1>4, <1>12 DEF a, b, k, m, g, s

LEMMA SetUpDevs ==
    ASSUME HeldInv, fault = "none", NEW t \in Users, AtEntry(t), NEW x, NEW y, NEW a, NEW left,
           NEW got \in BOOLEAN, SetUp(t, x, y, a, left, got), NEW d, d = Target(scan[t])
    PROVE  /\ DeviceMap(devs') /\ d \in Devs
           /\ devs'[d].parent = x.parent
           /\ (Entered(scan[t])[d].api = "hub"
                 => devs'[d].api = "hub")
           /\ RefsOf(d)' > 0
           /\ \A c \in Devs : /\ devs'[c].life = Entered(scan[t])[c].life
                              /\ devs'[c].life = "live" =>
                                    devs'[c].listed = Entered(scan[t])[c].listed
                              /\ RefsOf(c)' = RefsOf(c) + One(c = a)
                                     + One(Enters(scan[t]) /\ c = d)
           /\ \A c \in Devs \ {d} :
                /\ devs'[c].life = devs[c].life
                /\ Live(c) => /\ devs'[c].parent = devs[c].parent
                              /\ devs'[c].api = devs[c].api
<1> DEFINE s == scan[t]
           E == Entered(s)
           once == [E EXCEPT ![d] = x]
<1>0. d = Target(s)
  OBVIOUS
<1>1. StateTyped /\ Ordered /\ scan[t] # NoScan /\ scan[t].dev # -1
      /\ scan[t].pass \in {"hub", "dev", "gen"} /\ (Enters(scan[t]) => HasFresh)
  BY DEF HeldInv, AtEntry
<1>2. /\ s.dev \in 0 .. MaxDevs /\ s.parent \in 0 .. MaxDevs
      /\ (s.dev # 0 => Live(s.dev) /\ devs[s.dev].refs > 0)
      /\ (s.parent # 0 => Live(s.parent) /\ devs[s.parent].refs > 0)
  BY <1>1, AtEntryIs
<1>3. /\ d \in Devs /\ DeviceMap(E) /\ E[d].life = "live" /\ E[d].refs > 0
      /\ Enters(s) => d # s.dev /\ devs[d].life = "unused" /\ E[d].refs = 1 /\ E[d].parent = 0
      /\ ~Enters(s) => d = s.dev /\ E[d] = devs[d]
      /\ \A c \in Devs \ {d} : /\ E[c].life = devs[c].life
                               /\ Live(c) => /\ E[c].refs = devs[c].refs
                                             /\ E[c].parent = devs[c].parent
                                             /\ E[c].api = devs[c].api
  BY <1>0, <1>1, <1>2, EnteredIs
<1>4. /\ devs' = Ref([E EXCEPT ![d] = x], a)
      /\ x = [f \in DeviceFields |-> x[f]]
      /\ x.life = "live" /\ x.refs = E[d].refs /\ x.listed = E[d].listed
      /\ (E[d].api = "hub" => x.api = "hub")
      /\ (x.parent = E[d].parent \/ x.parent = s.parent)
      /\ a \in 0 .. MaxDevs /\ (a # 0 /\ a # d => Live(a))
  BY <1>0 DEF SetUp
<1> HIDE DEF E
<1>5. E = [c \in Devs |-> E[c]] /\ \A c \in Devs : DeviceTyped(E[c])
  BY <1>3 DEF DeviceMap
<1>6. once = [c \in Devs |-> IF c = d THEN x ELSE E[c]]
  BY <1>5
<1> HIDE DEF once
<1>7. \A c \in Devs : once[c] = IF c = d THEN x ELSE E[c]
  BY <1>6
<1>8. DeviceTyped(x)
  <2>1. E[d].refs \in Nat /\ E[d].parent \in 0 .. MaxDevs /\ E[d].listed \in BOOLEAN
    BY <1>3, <1>5 DEF DeviceTyped
  <2>2. x.parent \in 0 .. MaxDevs
    BY <1>2, <1>4, <2>1
  <2> QED
    BY <1>4, <2>1, <2>2 DEF DeviceTyped
<1>9. DeviceMap(once)
  <2>1. once = [c \in Devs |-> once[c]]
    BY <1>6
  <2>2. \A c \in Devs : DeviceTyped(once[c])
    BY <1>5, <1>7, <1>8
  <2> QED
    BY <2>1, <2>2 DEF DeviceMap
<1>10. a # 0 => once[a].life = "live"
  <2>1. SUFFICES ASSUME a # 0 PROVE once[a].life = "live"
    OBVIOUS
  <2>2. a \in Devs
    BY <1>4, <2>1, DeviceNumber
  <2>3. CASE a = d
    BY <1>4, <1>7, <2>2, <2>3
  <2>4. CASE a # d
    BY <1>3, <1>4, <1>7, <2>1, <2>2, <2>4 DEF Live
  <2> QED
    BY <2>3, <2>4
<1>11. devs' = Ref(once, a)
  BY <1>4 DEF once
<1>12. /\ DeviceMap(devs') /\ \A c \in Devs : Same(devs'[c], once[c])
       /\ \A c \in Devs : once[c].life = "live" =>
            once[c].refs \in Nat /\ devs'[c].refs = once[c].refs + (IF c = a THEN 1 ELSE 0)
  <2>1. /\ DeviceMap(Ref(once, a)) /\ \A c \in Devs : Same(Ref(once, a)[c], once[c])
        /\ \A c \in Devs : once[c].life = "live" =>
             /\ once[c].refs \in Nat
             /\ Ref(once, a)[c].refs = once[c].refs + (IF c = a THEN 1 ELSE 0)
    BY <1>4, <1>9, <1>10, RefIs
  <2> QED
    BY <1>11, <2>1
<1>13. ASSUME NEW c \in Devs
       PROVE  /\ devs'[c].life = E[c].life
              /\ (devs'[c].life = "live" => devs'[c].listed = E[c].listed)
  BY <1>3, <1>4, <1>7, <1>12 DEF Same
<1>14. /\ devs'[d].parent = x.parent /\ (E[d].api = "hub" => devs'[d].api = "hub")
  BY <1>3, <1>4, <1>7, <1>12 DEF Same
<1>15. ASSUME NEW c \in Devs \ {d}
       PROVE  /\ devs'[c].life = devs[c].life
              /\ Live(c) => devs'[c].parent = devs[c].parent /\ devs'[c].api = devs[c].api
  <2>1. Same(devs'[c], once[c]) /\ once[c] = E[c] /\ E[c].life = devs[c].life
    BY <1>3, <1>7, <1>12
  <2>2. Live(c) => E[c].parent = devs[c].parent /\ E[c].api = devs[c].api
    BY <1>3
  <2> QED
    BY <2>1, <2>2 DEF Same, Live
<1>16. ASSUME NEW c \in Devs
       PROVE  RefsOf(c)' = RefsOf(c) + One(c = a) + One(Enters(s) /\ c = d)
  <2>0. RefsOf(c) \in Nat
    BY <1>1, RefsNat
  <2>1. CASE c = d
    <3>1. Live(d)' /\ RefsOf(d)' = devs'[d].refs
      BY <1>3, <1>13 DEF Live, RefsOf
    <3>2. /\ E[d].refs \in Nat /\ devs'[d].refs = E[d].refs + One(d = a)
      <4>1. once[d] = x
        BY <1>3, <1>7
      <4> QED
        BY <1>3, <1>4, <1>12, <4>1 DEF One
    <3>3. CASE Enters(s)
      <4>1. RefsOf(d) = 0
        BY <1>3, <3>3 DEF RefsOf, Live
      <4> QED
        BY <1>3, <2>1, <3>1, <3>2, <3>3, <4>1 DEF One
    <3>4. CASE ~Enters(s)
      <4>1. RefsOf(d) = devs[d].refs /\ E[d].refs = devs[d].refs
        BY <1>3, <3>4 DEF RefsOf, Live
      <4> QED
        BY <1>3, <2>1, <3>1, <3>2, <3>4, <4>1 DEF One
    <3> QED
      BY <3>3, <3>4
  <2>2. CASE c # d
    <3>1. CASE Live(c)
      <4>1. once[c] = E[c] /\ E[c].life = "live" /\ E[c].refs = devs[c].refs
        BY <1>3, <1>7, <2>2, <3>1 DEF Live
      <4>2. RefsOf(c) = devs[c].refs /\ RefsOf(c)' = devs'[c].refs
        BY <1>15, <2>2, <3>1 DEF RefsOf, Live
      <4>3. devs'[c].refs = devs[c].refs + One(c = a)
        BY <1>12, <4>1 DEF One
      <4> QED
        BY <2>0, <2>2, <4>2, <4>3 DEF One
    <3>2. CASE ~Live(c)
      <4>1. ~Live(c)' /\ c # a
        BY <1>4, <1>15, <2>2, <3>2 DEF Live, Devs
      <4>2. RefsOf(c) = 0 /\ RefsOf(c)' = 0
        BY <3>2, <4>1 DEF RefsOf
      <4> QED
        BY <2>2, <4>1, <4>2 DEF One
    <3> QED
      BY <3>1, <3>2
  <2> QED
    BY <2>1, <2>2
<1>17. RefsOf(d)' > 0
  <2>1. RefsOf(d) \in Nat /\ (~Enters(s) => RefsOf(d) > 0)
    BY <1>1, <1>2, <1>3, RefsNat DEF RefsOf, Enters, Live
  <2>2. RefsOf(d)' = RefsOf(d) + One(d = a) + One(Enters(s) /\ d = d)
    BY <1>3, <1>16
  <2> QED
    BY <2>1, <2>2 DEF One
<1> QED
  BY <1>3, <1>12, <1>13, <1>14, <1>15, <1>16, <1>17 DEF E

LEMMA SetUpStep ==
    ASSUME HeldInv, fault = "none", NEW t \in Users, AtEntry(t), NEW x, NEW y, NEW a, NEW left,
           NEW got \in BOOLEAN, SetUp(t, x, y, a, left, got)
    PROVE  HeldInv'
<1> DEFINE s == scan[t]
           E == Entered(s)
           q == IF Replaced(s) THEN s.dev ELSE 0
           w == IF Replaced(s) THEN <<<<"unref", s.dev>>>> ELSE <<>>
<1>1. StateTyped /\ Ordered /\ Balanced /\ ScansSound /\ HubsAbove
  BY DEF HeldInv
<1>2. /\ s # NoScan /\ work[t] = <<>> /\ s.pass \in {"hub", "dev", "gen"} /\ s.dev # -1
      /\ (Enters(s) => HasFresh)
  BY DEF AtEntry
<1>3. /\ InHand(t, s) /\ s.unref \in Seq(Devs) /\ s.found \in Seq(Devs)
      /\ s.dev \in 0 .. MaxDevs /\ s.parent \in 0 .. MaxDevs
      /\ (s.dev # 0 => Live(s.dev) /\ devs[s.dev].refs > 0)
      /\ (s.parent # 0 => Live(s.parent) /\ devs[s.parent].refs > 0
                          /\ devs[s.parent].api = "hub" /\ s.pass = "gen")
  BY <1>2, AtEntryIs
<1>4. PICK d : d = Target(s)
  OBVIOUS
<1>5. /\ d \in Devs /\ DeviceMap(E) /\ E[d].life = "live" /\ E[d].refs > 0
      /\ (Enters(s) => d # s.dev /\ devs[d].life = "unused" /\ E[d].refs = 1 /\ E[d].parent = 0)
      /\ (~Enters(s) => d = s.dev /\ E[d] = devs[d])
      /\ \A c \in Devs \ {d} : E[c].life = devs[c].life
      /\ \A c \in Devs : E[c].life = "live" /\ ~E[c].listed =>
           \E e \in Devs : c < e /\ E[e].life # "unused"
      /\ \A c, e \in Devs : c < e /\ E[c].life = "unused" => E[e].life = "unused"
  BY <1>1, <1>2, <1>3, <1>4, EnteredIs
<1>6. /\ DeviceMap(devs')
      /\ devs'[d].parent = x.parent
      /\ (E[d].api = "hub" => devs'[d].api = "hub")
      /\ RefsOf(d)' > 0
      /\ \A c \in Devs : /\ devs'[c].life = E[c].life
                         /\ devs'[c].life = "live" => devs'[c].listed = E[c].listed
                         /\ RefsOf(c)' = RefsOf(c) + One(c = a) + One(Enters(s) /\ c = d)
      /\ \A c \in Devs \ {d} :
           /\ devs'[c].life = devs[c].life
           /\ Live(c) => /\ devs'[c].parent = devs[c].parent
                         /\ devs'[c].api = devs[c].api
  BY <1>4, SetUpDevs
<1>7. /\ lost' = [c \in Devs |-> IF c \in left THEN lost[c] + 1 ELSE lost[c]]
      /\ scan' = [scan EXCEPT ![t] = y] /\ ScanTyped(y) /\ y # NoScan
      /\ y.dev = -1 /\ y.parent = 0 /\ y.want = s.want /\ y.unref = Append(s.unref, d)
      /\ y.found = IF got THEN Append(s.found, d) ELSE s.found
      /\ work' = [work EXCEPT ![t] = w]
      /\ UNCHANGED <<lists, handles, changed>>
      /\ fault' \in {"none", "found while destroyed"}
      /\ (fault' = "none" /\ a # 0 /\ a # d => devs[a].refs # 0)
      /\ a \in 0 .. MaxDevs /\ (a # 0 /\ a # d => Live(a))
  BY <1>4 DEF SetUp
<1>8. /\ \A c \in Devs : One(c = a) + One(E[d].parent = c) + One(s.parent = c)
                           = One(c \in left) + One(x.parent = c) + One(got /\ c = d)
      /\ (~Overlapped => \A c \in Devs : c \in left => c = s.parent \/ c = E[d].parent)
      /\ (x.parent = E[d].parent \/ x.parent = s.parent)
  BY <1>4 DEF SetUp
<1> HIDE DEF E
<1>9. Replaced(s) => s.dev \in Devs
  BY <1>3, DeviceNumber DEF Replaced
<1>10. w \in Seq(Tokens) /\ q \in 0 .. MaxDevs /\ w = (IF q = 0 THEN <<>> ELSE <<<<"unref", q>>>>)
  <2>1. CASE Replaced(s)
    <3>1. s.dev \in Devs /\ s.dev # 0
      BY <1>9, <2>1 DEF Replaced
    <3> QED
      BY <1>3, <2>1, <3>1 DEF Tokens
  <2>2. CASE ~Replaced(s)
    BY <2>2, DevsFinite
  <2> QED
    BY <2>1, <2>2
<1> HIDE DEF w, q
<1>11. work'[t] = w /\ scan'[t] = y
       /\ \A u \in Users \ {t} : work'[u] = work[u] /\ scan'[u] = scan[u]
  BY <1>1, <1>7 DEF StateTyped
<1>12. StateTyped'
  <2>1. /\ devs' = [c \in Devs |-> devs'[c]] /\ \A c \in Devs : DeviceTyped(devs'[c])
    BY <1>6 DEF DeviceMap
  <2>2. /\ scan' = [u \in Users |-> scan'[u]] /\ \A u \in Users : ScanTyped(scan'[u])
    BY <1>1, <1>7, <1>11 DEF StateTyped
  <2>3. work' \in [Users -> Seq(Tokens)]
    BY <1>1, <1>7, <1>10 DEF StateTyped
  <2>4. lost' \in [Devs -> Nat]
    <3>1. \A c \in Devs : lost[c] \in Nat /\ lost[c] + 1 \in Nat
      BY <1>1 DEF StateTyped
    <3> QED
      BY <1>7, <3>1
  <2> QED
    BY <1>1, <1>7, <2>1, <2>2, <2>3, <2>4 DEF StateTyped
<1>13. OnlyBy(t)
  BY <1>7, <1>11 DEF OnlyBy
<1>14. Ordered'
  <2>1. \A c \in Devs : Live(c)' /\ ~devs'[c].listed =>
          \E e \in Devs : c < e /\ devs'[e].life # "unused"
    BY <1>5, <1>6 DEF Live
  <2>2. \A c, e \in Devs : c < e /\ devs'[c].life = "unused" => devs'[e].life = "unused"
    BY <1>5, <1>6
  <2>3. \A u \in Users : Len(handles'[u]) <= 1
    BY <1>1, <1>7 DEF Ordered
  <2> QED
    BY <1>7, <2>1, <2>2, <2>3 DEF Ordered
<1>15. SUFFICES ASSUME fault' = "none" PROVE Balanced' /\ ScansSound' /\ HubsAbove'
  BY <1>12, <1>14 DEF HeldInv
<1>16. RefsOf(d) \in Nat /\ (Enters(s) => ~Live(d) /\ RefsOf(d) = 0)
       /\ (~Enters(s) => Live(d) /\ RefsOf(d) > 0)
  <2>1. Enters(s) => ~Live(d) /\ RefsOf(d) = 0
    BY <1>5 DEF Live, RefsOf
  <2>2. ~Enters(s) => Live(d) /\ RefsOf(d) > 0
    BY <1>3, <1>5 DEF Enters, RefsOf
  <2> QED
    BY <1>1, <1>5, <2>1, <2>2, RefsNat
<1>17. E[d].parent \in 0 .. MaxDevs
  BY <1>5 DEF DeviceMap, DeviceTyped
<1>18. ASSUME NEW c \in Devs PROVE IsChild(d, c) <=> E[d].parent = c
  <2>1. CASE Enters(s)
    BY <1>5, <1>16, <2>1 DEF IsChild, Devs
  <2>2. CASE ~Enters(s)
    BY <1>5, <1>16, <2>2 DEF IsChild
  <2> QED
    BY <2>1, <2>2
<1>19. ASSUME NEW c \in Devs
       PROVE  /\ RefsOf(c)' = RefsOf(c) - lost[c] + lost'[c]
                              - (IF IsChild(d, c) THEN 1 ELSE 0)
                              + (IF devs'[d].parent = c THEN 1 ELSE 0)
                              - HeldBy(t, c) + HeldBy(t, c)'
              /\ Count(work'[t], <<"free", c>>) = Count(work[t], <<"free", c>>)
  <2>1. /\ HeldBy(t, c) \in Nat
        /\ HeldBy(t, c)' = HeldBy(t, c) - One(s.parent = c) - One(s.dev = c)
                           + One(c = q) + One(c = d) + One(got /\ c = d)
        /\ Count(work'[t], <<"free", c>>) = Count(work[t], <<"free", c>>)
    <3>1. work'[t] = IF q = 0 THEN <<>> ELSE <<<<"unref", q>>>>
      BY <1>10, <1>11
    <3>2. Holding(t, d, q, y, got)
      BY <1>2, <1>5, <1>7, <1>10, <1>11, <3>1 DEF Holding
    <3> QED
      BY <1>1, <3>2, SetUpHeld
  <2>2. lost[c] \in Nat /\ lost'[c] = lost[c] + One(c \in left)
    <3>1. lost[c] \in Nat
      BY <1>1 DEF StateTyped
    <3>2. lost'[c] = IF c \in left THEN lost[c] + 1 ELSE lost[c]
      BY <1>7
    <3>3. CASE c \in left
      BY <3>1, <3>2, <3>3 DEF One
    <3>4. CASE c \notin left
      BY <3>1, <3>2, <3>4 DEF One
    <3> QED
      BY <3>3, <3>4
  <2>3. RefsOf(c) \in Nat /\ RefsOf(c)' = RefsOf(c) + One(c = a) + One(Enters(s) /\ c = d)
    BY <1>1, <1>6, RefsNat
  <2>4. /\ (IF IsChild(d, c) THEN 1 ELSE 0) = One(E[d].parent = c)
        /\ (IF devs'[d].parent = c THEN 1 ELSE 0) = One(x.parent = c)
    BY <1>6, <1>18 DEF One
  <2>5. One(Enters(s) /\ c = d) + One(s.dev = c) = One(c = q) + One(c = d)
    <3>1. CASE Enters(s)
      <4>1. c = q <=> s.dev = c
        BY <3>1 DEF q, Enters, Devs
      <4> QED
        BY <3>1, <4>1 DEF One
    <3>2. CASE ~Enters(s)
      <4>1. q = 0 /\ d = s.dev /\ c # 0
        BY <1>5, <3>2 DEF Enters, q, Devs
      <4> QED
        BY <3>2, <4>1 DEF One
    <3> QED
      BY <3>1, <3>2
  <2>6. One(c = a) + One(E[d].parent = c) + One(s.parent = c)
          = One(c \in left) + One(x.parent = c) + One(got /\ c = d)
    BY <1>8
  <2> DEFINE i1 == One(s.parent = c)
             i2 == One(s.dev = c)
             i3 == One(c = q)
             i4 == One(c = d)
             i5 == One(got /\ c = d)
             i6 == One(c \in left)
             i7 == One(c = a)
             i8 == One(Enters(s) /\ c = d)
             i9 == One(E[d].parent = c)
             i0 == One(x.parent = c)
             h == HeldBy(t, c)
             hn == HeldBy(t, c)'
             r == RefsOf(c)
             rn == RefsOf(c)'
             l == lost[c]
             ln == lost'[c]
  <2>7. /\ i1 \in Nat /\ i2 \in Nat /\ i3 \in Nat /\ i4 \in Nat /\ i5 \in Nat /\ i6 \in Nat
        /\ i7 \in Nat /\ i8 \in Nat /\ i9 \in Nat /\ i0 \in Nat
    BY DEF One
  <2>8. /\ h \in Nat /\ r \in Nat /\ l \in Nat /\ hn = h - i1 - i2 + i3 + i4 + i5
        /\ ln = l + i6 /\ rn = r + i7 + i8 /\ i8 + i2 = i3 + i4 /\ i7 + i9 + i1 = i6 + i0 + i5
    BY <2>1, <2>2, <2>3, <2>5, <2>6
  <2> HIDE DEF i1, i2, i3, i4, i5, i6, i7, i8, i9, i0, h, hn, r, rn, l, ln
  <2>9. rn = r - l + ln - i9 + i0 - h + hn
    BY <2>7, <2>8
  <2> QED
    BY <2>1, <2>4, <2>9 DEF i9, i0, h, hn, r, rn, l, ln
<1>20. ASSUME NEW c \in Devs \ {d} PROVE RefsOf(c)' > 0 <=> RefsOf(c) > 0
  <2>1. RefsOf(c) \in Nat /\ RefsOf(c)' = RefsOf(c) + One(c = a) + One(Enters(s) /\ c = d)
    BY <1>1, <1>6, RefsNat
  <2>2. CASE c = a
    <3>1. Live(c) /\ devs[c].refs # 0
      BY <1>7, <1>15, <2>2 DEF Devs
    <3>2. RefsOf(c) # 0
      BY <3>1 DEF RefsOf
    <3> QED
      BY <2>1, <2>2, <3>2 DEF One
  <2>3. CASE c # a
    BY <2>1, <2>3 DEF One
  <2> QED
    BY <2>2, <2>3
<1>21. ASSUME NEW c \in Devs, Live(c)
       PROVE  Live(c)' /\ (devs[c].api = "hub" => devs'[c].api = "hub")
  <2>1. CASE c # d
    BY <1>6, <1>21, <2>1 DEF Live
  <2>2. CASE c = d
    <3>1. ~Enters(s)
      BY <1>16, <1>21, <2>2
    <3> QED
      BY <1>5, <1>6, <2>2, <3>1 DEF Live
  <2> QED
    BY <2>1, <2>2
<1>22. s.parent # 0 => devs'[s.parent].api = "hub"
  BY <1>3, <1>21, DeviceNumber
<1>23. E[d].parent # 0 => E[d].parent \in Devs /\ devs'[E[d].parent].api = "hub"
  <2>1. SUFFICES ASSUME E[d].parent # 0 PROVE E[d].parent \in Devs /\ devs'[E[d].parent].api = "hub"
    OBVIOUS
  <2>2. E[d].parent \in Devs
    BY <1>17, <2>1, DeviceNumber
  <2>3. IsChild(d, E[d].parent)
    BY <1>18, <2>2
  <2>4. Live(E[d].parent)
    BY <1>1, <1>5, <2>2, <2>3, HolderLive
  <2>5. devs[E[d].parent].api = "hub"
    BY <1>1, <1>5, <2>1, <2>3 DEF HubsAbove, IsChild
  <2> QED
    BY <1>21, <2>2, <2>4, <2>5
<1>24. Settled(t, d)
  <2>1. InHand(t, scan[t])'
    BY <1>3, <1>7, <1>11 DEF InHand
  <2>2. \A c \in Devs \ {d} : /\ Live(c)' => Live(c)
                              /\ Live(c) => devs'[c].parent = devs[c].parent
    BY <1>6 DEF Live
  <2>3. devs'[d].parent # 0 => devs'[devs'[d].parent].api = "hub"
    BY <1>6, <1>8, <1>22, <1>23
  <2>4. ASSUME ~Overlapped, NEW c \in Devs, lost'[c] # lost[c] PROVE devs'[c].api = "hub"
    <3>1. c \in left
      BY <1>7, <2>4
    <3>2. c # 0 /\ (c = s.parent \/ c = E[d].parent)
      BY <1>8, <2>4, <3>1 DEF Devs
    <3> QED
      BY <1>22, <1>23, <3>2
  <2> QED
    BY <1>2, <1>6, <1>7, <1>16, <1>19, <1>20, <1>21, <2>1, <2>2, <2>3, <2>4 DEF Settled
<1> QED
  BY <1>1, <1>5, <1>12, <1>13, <1>24, SettledStep

LEMMA SetApi ==
    ASSUME NEW r, DeviceTyped(r), r.life = "live", NEW v, r.api = "hub" => v = "hub"
    PROVE  LET x == [r EXCEPT !.api = v]
           IN  /\ x = [f \in DeviceFields |-> x[f]] /\ x.life = "live" /\ x.refs = r.refs
               /\ x.listed = r.listed /\ (r.api = "hub" => x.api = "hub") /\ x.parent = r.parent
<1> DEFINE x == [r EXCEPT !.api = v]
<1>1. r = [f \in DeviceFields |-> r[f]]
  BY DEF DeviceTyped
<1>2. /\ x = [f \in DeviceFields |-> x[f]]
      /\ \A f \in DeviceFields : x[f] = IF f = "api" THEN v ELSE r[f]
  BY <1>1 DEF DeviceFields
<1> HIDE DEF x
<1>3. /\ x.life = r.life /\ x.refs = r.refs /\ x.listed = r.listed /\ x.api = v
      /\ x.parent = r.parent
  BY <1>2 DEF DeviceFields
<1> QED
  BY <1>2, <1>3 DEF x

\* What init_device makes of a device below p, or of one with none above.
Placed(x, old) == /\ x = [f \in DeviceFields |-> x[f]] /\ x.life = "live" /\ x.refs = old.refs
                  /\ x.listed = old.listed /\ x.api = old.api

\* p is the parent that the scan found, above the first device known above.
Came(r, old, p, above) ==
    /\ Placed(r.dev, old)
    /\ \/ /\ r.ret = "ok" /\ r.dev.parent = old.parent /\ r.left = {p} /\ r.met = {}
       \/ /\ r.ret = "ok" /\ p = 0 /\ r.dev.parent = old.parent /\ r.left = {}
          /\ r.met = {}
       \/ /\ r.ret = "not found" /\ p # 0 /\ above # p
          /\ r.dev.parent = old.parent /\ r.left = {p, above} /\ r.met = {above}
       \/ r.ret = "null ancestor"
       \/ /\ r.ret \in {"ok", "access", "no device"} /\ p # 0
          /\ r.dev.parent = p /\ r.left = {old.parent}

LEMMA Init1Is ==
    ASSUME NEW old, DeviceTyped(old), old.life = "live", NEW p, NEW e
    PROVE  Came(Init1(old, p, e), old, p, Ancestor(e.place))
<1> DEFINE r == Init1(old, p, e)
           n == e.place
           walks == devs[p].bus = 0
           depth == DepthBelow(n, p)
           met == IF walks THEN {KnownAt(n, i) : i \in WayUp(n)} ELSE {}
           placed == [old EXCEPT !.bus = 1, !.parent = p, !.depth = depth]
           ready == [old EXCEPT !.ready = TRUE]
           done == [placed EXCEPT !.ready = TRUE]
<1>1. old = [f \in DeviceFields |-> old[f]]
  BY DEF DeviceTyped
<1>2. Placed(old, old)
  BY <1>1 DEF Placed
<1>3. Placed(ready, old) /\ ready.parent = old.parent
  <2>1. /\ ready = [f \in DeviceFields |-> ready[f]]
        /\ \A f \in DeviceFields : ready[f] = IF f = "ready" THEN TRUE ELSE old[f]
    BY <1>1 DEF DeviceFields
  <2> HIDE DEF ready
  <2> QED
    BY <2>1 DEF Placed, DeviceFields
<1> HIDE DEF depth, met
<1>4. /\ Placed(placed, old) /\ placed.parent = p /\ placed = [f \in DeviceFields |-> placed[f]]
  <2>1. /\ placed = [f \in DeviceFields |-> placed[f]]
        /\ \A f \in DeviceFields : placed[f] = IF f = "bus" THEN 1 ELSE IF f = "parent" THEN p
                                               ELSE IF f = "depth" THEN depth ELSE old[f]
    BY <1>1 DEF DeviceFields
  <2> HIDE DEF placed
  <2> QED
    BY <2>1 DEF Placed, DeviceFields
<1> HIDE DEF placed
<1>5. Placed(done, old) /\ done.parent = p
  <2>1. /\ done = [f \in DeviceFields |-> done[f]]
        /\ \A f \in DeviceFields : done[f] = IF f = "ready" THEN TRUE ELSE placed[f]
    BY <1>4 DEF DeviceFields
  <2> HIDE DEF done
  <2> QED
    BY <1>4, <2>1 DEF Placed, DeviceFields
<1> HIDE DEF done, ready
<1>6. \/ r = Inits("ok", old, {}, {p})
      \/ p = 0 /\ r = Inits("ok", ready, {}, {})
      \/ /\ p # 0 /\ Ancestor(n) # p
         /\ r = Inits("not found", old, {Ancestor(n)}, {p, Ancestor(n)})
      \/ r = Inits("null ancestor", old, {}, {})
      \/ p # 0 /\ r = Inits("access", placed, met, {old.parent})
      \/ p # 0 /\ r = Inits("no device", placed, met, {old.parent})
      \/ p # 0 /\ r = Inits("ok", done, met, {old.parent})
  BY DEF Init1, met, placed, done, ready, depth
<1> HIDE DEF r
<1>7. SUFFICES
        /\ Placed(r.dev, old)
        /\ \/ /\ r.ret = "ok" /\ r.dev.parent = old.parent /\ r.left = {p} /\ r.met = {}
           \/ /\ r.ret = "ok" /\ p = 0 /\ r.dev.parent = old.parent /\ r.left = {}
              /\ r.met = {}
           \/ /\ r.ret = "not found" /\ p # 0 /\ Ancestor(n) # p
              /\ r.dev.parent = old.parent /\ r.left = {p, Ancestor(n)}
              /\ r.met = {Ancestor(n)}
           \/ r.ret = "null ancestor"
           \/ /\ r.ret \in {"ok", "access", "no device"} /\ p # 0
              /\ r.dev.parent = p /\ r.left = {old.parent}
  BY DEF r, Came
<1>8. CASE r = Inits("ok", old, {}, {p})
  BY <1>2, <1>8 DEF Inits
<1>9. CASE p = 0 /\ r = Inits("ok", ready, {}, {})
  BY <1>3, <1>9 DEF Inits
<1>10. CASE /\ p # 0 /\ Ancestor(n) # p
            /\ r = Inits("not found", old, {Ancestor(n)}, {p, Ancestor(n)})
  BY <1>2, <1>10 DEF Inits
<1>11. CASE r = Inits("null ancestor", old, {}, {})
  BY <1>2, <1>11 DEF Inits
<1>12. CASE \/ p # 0 /\ r = Inits("access", placed, met, {old.parent})
            \/ p # 0 /\ r = Inits("no device", placed, met, {old.parent})
            \/ p # 0 /\ r = Inits("ok", done, met, {old.parent})
  <2>1. PICK ret \in {"ok", "access", "no device"}, x \in {placed, done} :
          r = Inits(ret, x, met, {old.parent})
    BY <1>12, Zenon
  <2>4. r.left = {old.parent} /\ r.ret = ret /\ r.dev = x
    BY <2>1 DEF Inits
  <2>2. /\ p # 0 /\ r.left = {old.parent} /\ r.ret \in {"ok", "access", "no device"}
        /\ r.dev = placed \/ r.dev = done
    BY <1>12, <2>4
  <2>3. r.dev.parent = p /\ Placed(r.dev, old)
    BY <1>4, <1>5, <2>2
  <2> QED
    BY <2>2, <2>3
<1> QED
  BY <1>6, <1>8, <1>9, <1>10, <1>11, <1>12

\* A scan that leaves its entry with device d to release, and with it found.
Leaves(s, y, d, got) ==
    /\ ScanTyped(y) /\ y # NoScan /\ y.dev = -1 /\ y.parent = 0 /\ y.want = s.want
    /\ y.unref = Append(s.unref, d)
    /\ y.found = IF got THEN Append(s.found, d) ELSE s.found

LEMMA LeavesIs ==
    ASSUME NEW s, ScanTyped(s), s # NoScan, NEW d \in Devs, NEW got \in BOOLEAN, NEW y,
           y = [f \in ScanFields |-> y[f]],
           \A f \in ScanFields \ {"unref", "found", "ret"} : y[f] = Skip(s)[f],
           y.unref = Append(Skip(s).unref, d),
           y.found = IF got THEN Append(Skip(s).found, d) ELSE Skip(s).found
    PROVE  Leaves(s, y, d, got)
<1> DEFINE k == Skip(s)
<1>1. /\ k # NoScan /\ k.parent = 0 /\ k.dev = -1 /\ k.pass = s.pass /\ k.want = s.want
      /\ k.unref = s.unref /\ k.found = s.found
      /\ ScanTyped(k)
  BY SkipIs
<1>2. /\ k.pass \in {"hub", "dev", "hcd", "gen", "ext", "end"} /\ k.unref \in Seq(Devs)
      /\ k.found \in Seq(Devs)
  BY <1>1 DEF ScanTyped
<1>3. /\ \A f \in ScanFields \ {"unref", "found", "ret"} : y[f] = k[f]
      /\ y.unref = Append(k.unref, d)
      /\ y.found = IF got THEN Append(k.found, d) ELSE k.found
  OBVIOUS
<1> HIDE DEF k
<1>4. y.pass = k.pass /\ y.parent = 0 /\ y.dev = -1 /\ y.want = s.want
  BY <1>1, <1>3 DEF ScanFields
<1>5. Append(k.unref, d) \in Seq(Devs) /\ Append(k.found, d) \in Seq(Devs)
  BY <1>2
<1>6. y.unref \in Seq(Devs) /\ y.found \in Seq(Devs)
  BY <1>2, <1>3, <1>5
<1>7. 0 \in 0 .. MaxDevs
  BY DevsFinite
<1>8. y # NoScan
  <2>1. y.pass # "none" /\ NoScan.pass = "none"
    BY <1>2, <1>4 DEF NoScan
  <2> QED
    BY <2>1
<1>9. ScanTyped(y)
  BY <1>2, <1>4, <1>6, <1>7, <1>8 DEF ScanTyped
<1> QED
  BY <1>1, <1>3, <1>4, <1>8, <1>9 DEF Leaves

LEMMA EntryLeft ==
    ASSUME NEW s, ScanTyped(s), s # NoScan, NEW d \in Devs, NEW got \in BOOLEAN, NEW v,
           NEW y, y = [Skip(s) EXCEPT !.unref = Append(@, d),
                                      !.found = IF got THEN Append(@, d) ELSE @, !.ret = v]
    PROVE  Leaves(s, y, d, got)
<1> DEFINE k == Skip(s)
           found == IF got THEN Append(k.found, d) ELSE k.found
<1>1. k = [f \in ScanFields |-> k[f]]
  BY SkipIs
<1>2. y = [k EXCEPT !.unref = Append(k.unref, d), !.found = found, !.ret = v]
  OBVIOUS
<1> HIDE DEF k, found
<1>3. /\ y = [f \in ScanFields |-> y[f]]
      /\ \A f \in ScanFields : y[f] = IF f = "unref" THEN Append(k.unref, d)
                                      ELSE IF f = "found" THEN found
                                      ELSE IF f = "ret" THEN v ELSE k[f]
  BY <1>1, <1>2 DEF ScanFields
<1>4. /\ \A f \in ScanFields \ {"unref", "found", "ret"} : y[f] = k[f]
      /\ y.unref = Append(k.unref, d) /\ y.found = found
  BY <1>3 DEF ScanFields
<1>5. /\ \A f \in ScanFields \ {"unref", "found", "ret"} : y[f] = Skip(s)[f]
      /\ y.unref = Append(Skip(s).unref, d)
      /\ y.found = IF got THEN Append(Skip(s).found, d) ELSE Skip(s).found
  BY <1>4 DEF k, found
<1>6. y = [f \in ScanFields |-> y[f]]
  BY <1>3
<1>7. CASE got = TRUE
  <2>1. y.found = IF TRUE THEN Append(Skip(s).found, d) ELSE Skip(s).found
    BY <1>5, <1>7
  <2>2. Leaves(s, y, d, TRUE)
    BY <1>5, <1>6, <2>1, LeavesIs
  <2> QED
    BY <1>7, <2>2
<1>8. CASE got = FALSE
  <2>1. y.found = IF FALSE THEN Append(Skip(s).found, d) ELSE Skip(s).found
    BY <1>5, <1>8
  <2>2. Leaves(s, y, d, FALSE)
    BY <1>5, <1>6, <2>1, LeavesIs
  <2> QED
    BY <1>8, <2>2
<1> QED
  BY <1>7, <1>8

LEMMA PathLeft ==
    ASSUME NEW s, ScanTyped(s), s # NoScan, NEW d \in Devs,
           NEW y, y = [Skip(s) EXCEPT !.unref = Append(@, d)]
    PROVE  Leaves(s, y, d, FALSE)
<1> DEFINE k == Skip(s)
<1>1. k = [f \in ScanFields |-> k[f]]
  BY SkipIs
<1>2. y = [k EXCEPT !.unref = Append(k.unref, d)]
  OBVIOUS
<1> HIDE DEF k
<1>3. /\ y = [f \in ScanFields |-> y[f]]
      /\ \A f \in ScanFields : y[f] = IF f = "unref" THEN Append(k.unref, d) ELSE k[f]
  BY <1>1, <1>2 DEF ScanFields
<1>4. /\ \A f \in ScanFields \ {"unref", "found", "ret"} : y[f] = k[f]
      /\ y.unref = Append(k.unref, d) /\ y.found = k.found
  BY <1>3 DEF ScanFields
<1> QED
  BY <1>3, <1>4, LeavesIs DEF k
-----------------------------------------------------------------------------
(* The entries of "hub" and "dev", and those of "gen"                        *)

LEMMA EntryDevice ==
    ASSUME HeldInv, fault = "none", NEW t \in Users, AtEntry(t), NEW d, d = Target(scan[t]),
           NEW r, r = Entered(scan[t])[d]
    PROVE  /\ d \in Devs /\ DeviceTyped(r) /\ r.life = "live"
           /\ DeviceMap(Entered(scan[t]))
           /\ r.parent \in 0 .. MaxDevs
<1> DEFINE s == scan[t]
<1>1. /\ StateTyped /\ Ordered /\ s # NoScan /\ s.dev # -1 /\ s.pass \in {"hub", "dev", "gen"}
      /\ (Enters(s) => HasFresh)
  BY DEF HeldInv, AtEntry
<1>2. /\ s.dev \in 0 .. MaxDevs /\ (s.dev # 0 => Live(s.dev) /\ devs[s.dev].refs > 0)
  BY <1>1, AtEntryIs
<1>3. Target(s) \in Devs /\ DeviceMap(Entered(s)) /\ Entered(s)[Target(s)].life = "live"
  BY <1>1, <1>2, EnteredIs
<1>4. d \in Devs /\ DeviceTyped(r) /\ r.life = "live"
  BY <1>3 DEF DeviceMap
<1> QED
  BY <1>3, <1>4 DEF DeviceTyped

\* What a step at an entry does to the rest
Moves(t) ==
    LET s == scan[t]
    IN  /\ work' = [work EXCEPT ![t] = IF Replaced(s) THEN <<<<"unref", s.dev>>>> ELSE <<>>]
        /\ UNCHANGED <<lists, handles, changed>>

LEMMA PathStep ==
    ASSUME HeldInv, fault = "none", NEW t \in Users, AtEntry(t), scan[t].pass # "gen", Moves(t),
           NEW d, d = Target(scan[t]), SetPath(t, d)
    PROVE  HeldInv'
<1> DEFINE s == scan[t]
           E == Entered(s)
           r == E[d]
           v == IF r.api = "unset" THEN Kind[Entry(t).place] ELSE r.api
           x == [r EXCEPT !.api = v]
           y == [Skip(s) EXCEPT !.unref = Append(@, d)]
<1>1. /\ StateTyped /\ s # NoScan /\ s.dev # -1 /\ s.pass \in {"hub", "dev", "gen"}
  BY DEF HeldInv, AtEntry
<1>2. ScanTyped(s) /\ InHand(t, s) /\ s.parent = 0
  BY <1>1, AtEntryIs
<1>3. /\ d \in Devs /\ DeviceTyped(r) /\ r.life = "live" /\ E = [c \in Devs |-> E[c]]
  BY EntryDevice DEF DeviceMap
<1>4. devs' = [E EXCEPT ![d] = x]
  BY DEF SetPath
<1>5. scan' = [scan EXCEPT ![t] = y] /\ lost' = lost /\ fault' = "none"
  BY DEF SetPath
<1>6. r.api = "hub" => v = "hub"
  OBVIOUS
<1>7. Leaves(s, y, d, FALSE)
  BY <1>1, <1>2, <1>3, PathLeft
<1> HIDE DEF y, v
<1>8. /\ x = [f \in DeviceFields |-> x[f]] /\ x.life = "live" /\ x.refs = r.refs
      /\ x.listed = r.listed /\ (r.api = "hub" => x.api = "hub") /\ x.parent = r.parent
  BY <1>3, <1>6, SetApi
<1> HIDE DEF x, r, E, s
<1>9. Ref([E EXCEPT ![d] = x], 0) = [E EXCEPT ![d] = x]
  BY DEF Ref
<1>10. lost' = [c \in Devs |-> IF c \in {} THEN lost[c] + 1 ELSE lost[c]]
  BY <1>1, <1>5 DEF StateTyped
<1>11. \A c \in Devs : One(c = 0) + One(r.parent = c) + One(s.parent = c)
                        = One(c \in {}) + One(x.parent = c) + One(FALSE /\ c = d)
  BY <1>2, <1>8 DEF One, Devs
<1>12. 0 \in 0 .. MaxDevs
  BY DevsFinite
<1>13. SetUp(t, x, y, 0, {}, FALSE)
  <2>1. /\ devs' = Ref([Entered(scan[t]) EXCEPT ![Target(scan[t])] = x], 0)
        /\ x = [f \in DeviceFields |-> x[f]]
        /\ x.life = "live" /\ x.refs = Entered(scan[t])[Target(scan[t])].refs
        /\ x.listed = Entered(scan[t])[Target(scan[t])].listed
        /\ (Entered(scan[t])[Target(scan[t])].api = "hub" => x.api = "hub")
        /\ x.parent = Entered(scan[t])[Target(scan[t])].parent
    BY <1>4, <1>8, <1>9 DEF r, E, s
  <2>2. \A c \in Devs : One(c = 0) + One(Entered(scan[t])[Target(scan[t])].parent = c)
                             + One(scan[t].parent = c)
                          = One(c \in {}) + One(x.parent = c) + One(FALSE /\ c = Target(scan[t]))
    BY <1>11 DEF r, E, s
  <2>3. /\ scan' = [scan EXCEPT ![t] = y] /\ ScanTyped(y) /\ y # NoScan
        /\ y.dev = -1 /\ y.parent = 0 /\ y.want = scan[t].want
        /\ y.unref = Append(scan[t].unref, Target(scan[t]))
        /\ y.found = IF FALSE THEN Append(scan[t].found, Target(scan[t])) ELSE scan[t].found
    BY <1>5, <1>7 DEF Leaves, s
  <2> QED
    BY <1>5, <1>10, <1>12, <2>1, <2>2, <2>3 DEF SetUp, Moves
<1> QED
  BY <1>13, SetUpStep
LEMMA NotZero == \A c \in Devs : c # 0 /\ c # -1 /\ c \in 0 .. MaxDevs
  BY DevsFinite DEF Devs

(* The references that init_device got pass to those that hold them after    *)
(* it: p is the parent the scan found, q and x the parents of the device d   *)
(* before and after.                                                         *)
Referenced(ret, d, above) ==
    IF ret = "ok" THEN d ELSE IF ret = "not found" THEN above ELSE 0
HandsOn(ret, p, q, x, left, above) ==
    \/ ret = "ok" /\ x = q /\ left = {p}
    \/ ret = "ok" /\ p = 0 /\ x = q /\ left = {}
    \/ ret = "not found" /\ above # p /\ x = q /\ left = {p, above}
    \/ ret \in {"ok", "access", "no device"} /\ x = p /\ left = {q}

LEMMA HandedOn ==
    ASSUME NEW c, c # 0, NEW p, NEW q, NEW x, NEW d, NEW above, NEW left, NEW ret,
           HandsOn(ret, p, q, x, left, above)
    PROVE  One(c = Referenced(ret, d, above)) + One(q = c) + One(p = c)
             = One(c \in left) + One(x = c) + One(ret = "ok" /\ c = d)
<1> DEFINE at == One(c = Referenced(ret, d, above))
           was == One(q = c)
           has == One(p = c)
           gone == One(c \in left)
           now == One(x = c)
           got == One(ret = "ok" /\ c = d)
<1>0. at \in Nat /\ was \in Nat /\ has \in Nat /\ gone \in Nat /\ now \in Nat /\ got \in Nat
  BY DEF One
<1>1. CASE ret = "ok" /\ x = q /\ left = {p}
  <2>1. Referenced(ret, d, above) = d /\ (c \in left <=> p = c)
    BY <1>1 DEF Referenced
  <2>2. at = got /\ gone = has /\ now = was
    BY <1>1, <2>1 DEF One
  <2> HIDE DEF at, was, has, gone, now, got
  <2>3. at + was + has = gone + now + got
    BY <1>0, <2>2
  <2> QED
    BY <2>3 DEF at, was, has, gone, now, got
<1>2. CASE ret = "ok" /\ p = 0 /\ x = q /\ left = {}
  <2>1. Referenced(ret, d, above) = d /\ c \notin left /\ p # c
    BY <1>2 DEF Referenced
  <2>2. at = got /\ gone = 0 /\ has = 0 /\ now = was
    BY <1>2, <2>1 DEF One
  <2> HIDE DEF at, was, has, gone, now, got
  <2>3. at + was + has = gone + now + got
    BY <1>0, <2>2
  <2> QED
    BY <2>3 DEF at, was, has, gone, now, got
<1>3. CASE ret = "not found" /\ above # p /\ x = q /\ left = {p, above}
  <2>1. Referenced(ret, d, above) = above /\ (c \in left <=> p = c \/ above = c) /\ ret # "ok"
    BY <1>3 DEF Referenced
  <2>2. now = was /\ got = 0
    BY <1>3, <2>1 DEF One
  <2>4. gone = at + has
    <3>1. CASE p = c
      <4>1. at = 0 /\ has = 1 /\ gone = 1
        BY <1>3, <2>1, <3>1 DEF One
      <4> QED
        BY <4>1
    <3>2. CASE p # c
      <4>1. has = 0 /\ gone = at
        BY <1>3, <2>1, <3>2 DEF One
      <4> QED
        BY <1>0, <4>1
    <3> QED
      BY <3>1, <3>2
  <2> HIDE DEF at, was, has, gone, now, got
  <2>3. at + was + has = gone + now + got
    BY <1>0, <2>2, <2>4
  <2> QED
    BY <2>3 DEF at, was, has, gone, now, got
<1>4. CASE ret \in {"ok", "access", "no device"} /\ x = p /\ left = {q}
  <2>1. c \in left <=> q = c
    BY <1>4
  <2>2. at = got
    BY <1>4 DEF One, Referenced
  <2>4. gone = was /\ now = has
    BY <1>4, <2>1 DEF One
  <2> HIDE DEF at, was, has, gone, now, got
  <2>3. at + was + has = gone + now + got
    BY <1>0, <2>2, <2>4
  <2> QED
    BY <2>3 DEF at, was, has, gone, now, got
<1> QED
  BY <1>1, <1>2, <1>3, <1>4 DEF HandsOn

\* The step of InitDevice, as far as it is about references.
Inited(t, d, r, above) ==
    LET s == scan[t]
        old == Entered(s)[d]
    IN  /\ Came(r, old, s.parent, above) /\ r.ret # "null ancestor"
        /\ above \in 0 .. MaxDevs /\ (above # 0 => Live(above))
        /\ ~Overlapped /\ s.parent # 0 => above = s.parent
        /\ d = Target(s) /\ d \in Devs
        /\ devs' = Ref([Entered(s) EXCEPT ![d] = r.dev], Referenced(r.ret, d, above))
        /\ lost' = [c \in Devs |-> IF c \in r.left THEN lost[c] + 1 ELSE lost[c]]
        /\ fault' = IF \E c \in r.met \ {0} : devs[c].refs = 0 THEN "found while destroyed"
                    ELSE "none"
        /\ \E y : scan' = [scan EXCEPT ![t] = y] /\ Leaves(s, y, d, r.ret = "ok")
        /\ Moves(t)

LEMMA InitedIs ==
    ASSUME HeldInv, fault = "none", NEW t \in Users, AtEntry(t), scan[t].pass = "gen", Moves(t),
           NEW d, d = Target(scan[t]), InitDevice(t, d),
           NEW r, r = Init1(Entered(scan[t])[d], scan[t].parent, Entry(t)),
           r.ret # "null ancestor"
    PROVE  Inited(t, d, r, Ancestor(Entry(t).place))
<1> DEFINE s == scan[t]
           old == Entered(s)[d]
           got == r.ret = "ok"
           above == Ancestor(Entry(t).place)
           v == IF r.ret \in {"access", "not found"} THEN r.ret ELSE Skip(s).ret
           y == [Skip(s) EXCEPT !.unref = Append(@, d),
                                !.found = IF r.ret = "ok" THEN Append(@, d) ELSE @, !.ret = v]
<1>1. s # NoScan /\ s.dev # -1 /\ s.pass \in {"hub", "dev", "gen"}
  BY DEF AtEntry
<1>2. ScanTyped(s) /\ InHand(t, s)
  BY <1>1, AtEntryIs
<1>3. d \in Devs /\ DeviceTyped(old) /\ old.life = "live"
  BY EntryDevice
<1>4. /\ devs' = Ref([Entered(s) EXCEPT ![d] = r.dev], Referenced(r.ret, d, above))
      /\ lost' = [c \in Devs |-> IF c \in r.left THEN lost[c] + 1 ELSE lost[c]]
      /\ FoundAtZero(r.met)
  BY DEF InitDevice, Referenced
<1>5. scan' = [scan EXCEPT ![t] = y]
  BY DEF InitDevice
<1>6. Leaves(s, y, d, got)
  <2>1. got \in BOOLEAN
    OBVIOUS
  <2> HIDE DEF v
  <2>2. y = [Skip(s) EXCEPT !.unref = Append(@, d),
                            !.found = IF got THEN Append(@, d) ELSE @, !.ret = v]
    OBVIOUS
  <2> HIDE DEF y, got
  <2> QED
    BY <1>1, <1>2, <1>3, <2>1, <2>2, EntryLeft
<1> HIDE DEF y
<1>8. Came(r, old, s.parent, above)
  <2> DEFINE p == s.parent
             e == Entry(t)
  <2>1. r = Init1(old, p, e)
    OBVIOUS
  <2> HIDE DEF old, p, e
  <2>2. Came(Init1(old, p, e), old, p, Ancestor(e.place))
    BY <1>3, Init1Is
  <2> QED
    BY <2>1, <2>2 DEF p, e
<1>9. above \in 0 .. MaxDevs /\ (above # 0 => Live(above))
  BY AncestorIs
<1>10. ~Overlapped /\ s.parent # 0 => above = s.parent
  BY <1>2 DEF InHand, Entry
<1>11. fault' = IF \E c \in r.met \ {0} : devs[c].refs = 0 THEN "found while destroyed" ELSE "none"
  BY <1>4 DEF FoundAtZero
<1>12. \E z : scan' = [scan EXCEPT ![t] = z] /\ Leaves(s, z, d, got)
  BY <1>5, <1>6
<1> QED
  BY <1>3, <1>4, <1>8, <1>9, <1>10, <1>11, <1>12 DEF Inited

LEMMA InitStep ==
    ASSUME HeldInv, fault = "none", NEW t \in Users, AtEntry(t), NEW d, NEW r, NEW above,
           Inited(t, d, r, above)
    PROVE  HeldInv'
<1> DEFINE s == scan[t]
           E == Entered(s)
           old == E[d]
           x == r.dev
           a == Referenced(r.ret, d, above)
<1>1. /\ Came(r, old, s.parent, above) /\ r.ret # "null ancestor"
      /\ above \in 0 .. MaxDevs /\ (above # 0 => Live(above))
      /\ (~Overlapped /\ s.parent # 0 => above = s.parent)
      /\ d = Target(s) /\ d \in Devs
      /\ devs' = Ref([E EXCEPT ![d] = x], a)
      /\ lost' = [c \in Devs |-> IF c \in r.left THEN lost[c] + 1 ELSE lost[c]]
      /\ fault' = (IF \E c \in r.met \ {0} : devs[c].refs = 0 THEN "found while destroyed"
                   ELSE "none")
      /\ Moves(t)
  BY DEF Inited
<1>2. PICK y : scan' = [scan EXCEPT ![t] = y] /\ Leaves(s, y, d, r.ret = "ok")
  BY DEF Inited
<1> HIDE DEF old, x, E, s
<1>3. /\ Placed(x, old)
      /\ HandsOn(r.ret, s.parent, old.parent, x.parent, r.left, above)
      /\ r.ret = "not found" => r.met = {above}
      /\ x.parent = old.parent \/ x.parent = s.parent
      /\ \/ r.left = {s.parent}
         \/ r.left = {}
         \/ r.left = {old.parent}
         \/ r.left = {s.parent, above} /\ s.parent # 0 /\ above # s.parent
  <2> DEFINE p == s.parent
             q == old.parent
  <2> HIDE DEF p, q
  <2>1. /\ Placed(x, old)
        /\ \/ r.ret = "ok" /\ x.parent = q /\ r.left = {p}
           \/ r.ret = "ok" /\ p = 0 /\ x.parent = q /\ r.left = {}
           \/ /\ r.ret = "not found" /\ p # 0 /\ above # p
              /\ x.parent = q /\ r.left = {p, above} /\ r.met = {above}
           \/ /\ r.ret \in {"ok", "access", "no device"} /\ p # 0
              /\ x.parent = p /\ r.left = {q}
    BY <1>1, Zenon DEF Came, x, p, q
  <2>2. HandsOn(r.ret, p, q, x.parent, r.left, above)
    BY <2>1, Zenon DEF HandsOn
  <2>3. r.ret = "not found" => r.met = {above}
    BY <2>1
  <2>4. x.parent = q \/ x.parent = p
    BY <2>1
  <2>5. \/ r.left = {p}
        \/ r.left = {}
        \/ r.left = {q}
        \/ r.left = {p, above} /\ p # 0 /\ above # p
    BY <2>1, Zenon
  <2> QED
    BY <2>1, <2>2, <2>3, <2>4, <2>5, Zenon DEF p, q
<1>4. \A c \in Devs : One(c = a) + One(old.parent = c) + One(s.parent = c)
                        = One(c \in r.left) + One(x.parent = c) + One(r.ret = "ok" /\ c = d)
  <2>1. TAKE c \in Devs
  <2>2. c # 0
    BY NotZero
  <2> DEFINE p == s.parent
             q == old.parent
             z == x.parent
             left == r.left
             ret == r.ret
  <2>3. HandsOn(ret, p, q, z, left, above)
    BY <1>3
  <2> HIDE DEF p, q, z, left, ret
  <2>4. One(c = Referenced(ret, d, above)) + One(q = c) + One(p = c)
          = One(c \in left) + One(z = c) + One(ret = "ok" /\ c = d)
    BY <2>2, <2>3, HandedOn
  <2> QED
    BY <2>4 DEF p, q, z, left, ret
<1>5. ~Overlapped => \A c \in Devs : c \in r.left => c = s.parent \/ c = old.parent
  BY <1>1, <1>3
<1>6. a = d \/ a = 0 \/ (a = above /\ r.ret = "not found")
  BY DEF Referenced
<1> HIDE DEF a
<1>7. a \in 0 .. MaxDevs /\ (a # 0 /\ a # d => Live(a))
  <2>1. d \in 0 .. MaxDevs
    BY <1>1, NotZero
  <2>2. 0 \in 0 .. MaxDevs
    BY DevsFinite
  <2> QED
    BY <1>1, <1>6, <2>1, <2>2
<1>8. /\ fault' \in {"none", "found while destroyed"}
      /\ fault' = "none" /\ a # 0 /\ a # d => devs[a].refs # 0
  <2>1. fault' \in {"none", "found while destroyed"}
    BY <1>1
  <2>2. ASSUME fault' = "none", a # 0, a # d PROVE devs[a].refs # 0
    <3>1. a \in r.met \ {0}
      BY <1>3, <1>6, <2>2
    <3>2. ~ \E c \in r.met \ {0} : devs[c].refs = 0
      BY <1>1, <2>2
    <3> QED
      BY <3>1, <3>2
  <2> QED
    BY <2>1, <2>2
<1> DEFINE got == r.ret = "ok"
<1>9. got \in BOOLEAN
  OBVIOUS
<1>10. SetUp(t, x, y, a, r.left, got)
  <2>0. Placed(x, Entered(scan[t])[Target(scan[t])])
    BY <1>1, <1>3 DEF old, E, s
  <2>1. /\ devs' = Ref([Entered(scan[t]) EXCEPT ![Target(scan[t])] = x], a)
        /\ x = [f \in DeviceFields |-> x[f]]
        /\ x.life = "live" /\ x.refs = Entered(scan[t])[Target(scan[t])].refs
        /\ x.listed = Entered(scan[t])[Target(scan[t])].listed
        /\ (Entered(scan[t])[Target(scan[t])].api = "hub" => x.api = "hub")
    BY <1>1, <2>0 DEF E, s, Placed
  <2>2. \/ x.parent = Entered(scan[t])[Target(scan[t])].parent
        \/ x.parent = scan[t].parent
    BY <1>1, <1>3 DEF old, E, s
  <2>3. \A c \in Devs : One(c = a) + One(Entered(scan[t])[Target(scan[t])].parent = c)
                             + One(scan[t].parent = c)
                          = One(c \in r.left) + One(x.parent = c)
                             + One(got /\ c = Target(scan[t]))
    BY <1>1, <1>4 DEF old, E, s
  <2>4. ~Overlapped => \A c \in Devs : c \in r.left =>
          c = scan[t].parent \/ c = Entered(scan[t])[Target(scan[t])].parent
    BY <1>1, <1>5 DEF old, E, s
  <2>5. /\ scan' = [scan EXCEPT ![t] = y] /\ ScanTyped(y) /\ y # NoScan
        /\ y.dev = -1 /\ y.parent = 0 /\ y.want = scan[t].want
        /\ y.unref = Append(scan[t].unref, Target(scan[t]))
        /\ y.found = IF got THEN Append(scan[t].found, Target(scan[t])) ELSE scan[t].found
    BY <1>1, <1>2 DEF Leaves, s
  <2>6. a \in 0 .. MaxDevs /\ (a # 0 /\ a # Target(scan[t]) => Live(a))
    BY <1>1, <1>7 DEF s
  <2>7. /\ fault' \in {"none", "found while destroyed"}
        /\ fault' = "none" /\ a # 0 /\ a # Target(scan[t]) => devs[a].refs # 0
    BY <1>1, <1>8 DEF s
  <2> QED
    BY <1>1, <2>1, <2>2, <2>3, <2>4, <2>5, <2>6, <2>7 DEF SetUp, Moves
<1> HIDE DEF got
<1> QED
  BY <1>9, <1>10, SetUpStep
\* A step that only stops the program, with something to release perhaps.
LEMMA StopStep ==
    ASSUME HeldInv, NEW w, StateTyped, work' = w, w \in [Users -> Seq(Tokens)],
           UNCHANGED <<devs, scan, lists, handles, changed, lost>>,
           fault' # "none", fault' # "freed device",
           fault' = "removed twice" => \E d \in Devs : Live(d) /\ ~devs[d].listed
    PROVE  HeldInv'
<1>1. Ordered
  BY DEF HeldInv
<1>2. StateTyped'
  BY DEF StateTyped, DeviceTyped, ScanTyped, Unused, NoScan
<1>3. Ordered'
  BY <1>1 DEF Ordered, Live
<1> QED
  BY <1>2, <1>3 DEF HeldInv

LEMMA SetupStep == ASSUME HeldInv, NEW t \in Users, Setup(t) PROVE HeldInv'
<1> DEFINE s == scan[t]
           w == IF Replaced(s) THEN <<<<"unref", s.dev>>>> ELSE <<>>
<1>1. /\ fault = "none" /\ work[t] = <<>> /\ s # NoScan /\ s.dev # -1
      /\ s.pass \in {"hub", "dev", "gen"}
      /\ UNCHANGED <<plugged, plugs, scans, lists, handles, changed>>
  BY DEF Setup, Scanning, Running
<1>2. StateTyped /\ Ordered /\ Balanced /\ ScansSound /\ HubsAbove
  BY <1>1 DEF HeldInv
<1>3. /\ s.dev \in 0 .. MaxDevs /\ s.parent \in 0 .. MaxDevs
      /\ (s.dev # 0 => Live(s.dev)) /\ (s.parent # 0 => Live(s.parent))
  BY <1>1, AtEntryIs
<1>4. \/ /\ Replaced(s) /\ ~devs[s.dev].listed /\ fault' = "removed twice"
         /\ UNCHANGED <<devs, scan, work, lost>>
      \/ /\ s.dev = 0 \/ Replaced(s) => HasFresh
         /\ work' = [work EXCEPT ![t] = w]
         /\ s.pass = "gen" => InitDevice(t, Target(s))
         /\ s.pass # "gen" => SetPath(t, Target(s))
  BY <1>3 DEF Setup
<1>5. Replaced(s) => s.dev \in Devs /\ Live(s.dev)
  BY <1>3, DeviceNumber DEF Replaced
<1>6. CASE /\ Replaced(s) /\ ~devs[s.dev].listed /\ fault' = "removed twice"
           /\ UNCHANGED <<devs, scan, work, lost>>
  <2>1. work' \in [Users -> Seq(Tokens)]
    BY <1>2, <1>6 DEF StateTyped
  <2> HIDE DEF s
  <2>2. \E d \in Devs : Live(d) /\ ~devs[d].listed
    BY <1>5, <1>6
  <2> QED
    BY <1>1, <1>2, <1>6, <2>1, <2>2, StopStep
<1>7. CASE /\ s.dev = 0 \/ Replaced(s) => HasFresh
           /\ work' = [work EXCEPT ![t] = w]
           /\ s.pass = "gen" => InitDevice(t, Target(s))
           /\ s.pass # "gen" => SetPath(t, Target(s))
  <2>1. AtEntry(t)
    BY <1>1, <1>7 DEF AtEntry, Enters
  <2>2. Moves(t)
    BY <1>1, <1>7 DEF Moves
  <2>3. PICK d : d = Target(s)
    OBVIOUS
  <2>4. CASE s.pass # "gen"
    <3>1. SetPath(t, d)
      BY <1>7, <2>3, <2>4
    <3> QED
      BY <1>1, <2>1, <2>2, <2>3, <2>4, <3>1, PathStep
  <2>5. CASE s.pass = "gen"
    <3>1. InitDevice(t, d)
      BY <1>7, <2>3, <2>5
    <3>2. PICK r : r = Init1(Entered(s)[d], s.parent, Entry(t))
      OBVIOUS
    <3>3. CASE r.ret = "null ancestor"
      <4>1. fault' = "null ancestor" /\ UNCHANGED <<devs, scan, lost>>
        BY <3>1, <3>2, <3>3 DEF InitDevice
      <4>2. w \in Seq(Tokens)
        <5>1. CASE Replaced(s)
          <6>1. <<"unref", s.dev>> \in Tokens
            BY <1>5, <5>1 DEF Tokens
          <6> QED
            BY <5>1, <6>1
        <5>2. CASE ~Replaced(s)
          BY <5>2
        <5> QED
          BY <5>1, <5>2
      <4> HIDE DEF w
      <4>3. work' \in [Users -> Seq(Tokens)]
        BY <1>2, <1>7, <4>2 DEF StateTyped
      <4> QED
        BY <1>1, <1>2, <4>1, <4>3, StopStep
    <3>4. CASE r.ret # "null ancestor"
      <4>1. Inited(t, d, r, Ancestor(Entry(t).place))
        BY <1>1, <2>1, <2>2, <2>3, <2>5, <3>1, <3>2, <3>4, InitedIs
      <4> QED
        BY <1>1, <2>1, <4>1, InitStep
    <3> QED
      BY <3>3, <3>4
  <2> QED
    BY <2>4, <2>5
<1> QED
  BY <1>4, <1>6, <1>7
-----------------------------------------------------------------------------
(* The world, and the whole system                                           *)

LEMMA RestStep ==
    ASSUME HeldInv, UNCHANGED <<devs, scan, work, lists, handles, lost, fault>>,
           changed' \in [Users -> SUBSET {"world", "scan"}], Overlapped' <=> Overlapped
    PROVE  HeldInv'
<1>1. StateTyped /\ Ordered
  BY DEF HeldInv
<1>2. StateTyped'
  BY <1>1 DEF StateTyped, DeviceTyped, ScanTyped, Unused, NoScan
<1>3. Ordered'
  BY <1>1 DEF Ordered, Live
<1>4. ASSUME fault = "none" PROVE Balanced' /\ ScansSound' /\ HubsAbove'
  <2>1. Balanced /\ ScansSound /\ HubsAbove
    BY <1>4 DEF HeldInv
  <2>2. \A d \in Devs : RefsOf(d)' = RefsOf(d) /\ Due(d)' = Due(d) /\ (Live(d)' <=> Live(d))
    BY DEF RefsOf, Due, Live
  <2>3. \A t \in Users, d \in Devs : /\ HeldBy(t, d)' = HeldBy(t, d)
                                     /\ Count(work'[t], <<"free", d>>) = Count(work[t], <<"free", d>>)
    BY DEF HeldBy, Count
  <2>4. ASSUME NEW d \in Devs PROVE RefsOf(d)' = Holders(d)' /\ Frees(d)' = Due(d)'
    <3>1. [t \in Users |-> HeldBy(t, d)]' = [t \in Users |-> HeldBy(t, d)]
      BY <2>3
    <3>2. [t \in Users |-> Count(work[t], <<"free", d>>)]'
            = [t \in Users |-> Count(work[t], <<"free", d>>)]
      BY <2>3
    <3>3. Children(d)' = Children(d)
      <4>1. \A c \in Devs : IsChild(c, d)' <=> IsChild(c, d)
        BY <2>2 DEF IsChild
      <4> QED
        BY <4>1, KidsSame
    <3>4. Holders(d)' = Holders(d)
      BY <3>1, <3>3 DEF Holders
    <3>5. Frees(d)' = Frees(d)
      BY <3>2 DEF Frees
    <3> QED
      BY <2>1, <2>2, <3>4, <3>5 DEF Balanced
  <2>5. ASSUME NEW t \in Users, scan'[t] # NoScan PROVE InHand(t, scan[t])'
    <3>1. InHand(t, scan[t])
      BY <2>1, <2>5 DEF ScansSound
    <3>2. ListedSame
      BY DEF ListedSame, Live
    <3>3. Ancestor(Head(scan[t].todo).place)' = Ancestor(Head(scan[t].todo).place)
      BY <3>2, AncestorAgain
    <3> QED
      BY <3>1, <3>3 DEF InHand
  <2>6. ScansSound'
    BY <2>1, <2>5 DEF ScansSound
  <2>7. HubsAbove'
    BY <2>1, <2>2 DEF HubsAbove
  <2>8. Balanced'
    BY <2>4 DEF Balanced
  <2> QED
    BY <2>6, <2>7, <2>8
<1> QED
  BY <1>2, <1>3, <1>4 DEF HeldInv

LEMMA MovedStep == ASSUME HeldInv, Moved PROVE HeldInv'
<1>1. StateTyped
  BY DEF HeldInv
<1>2. changed' = [t \in Users |-> changed[t] \cup {"world"}]
  BY DEF Moved
<1>3. changed' \in [Users -> SUBSET {"world", "scan"}]
  BY <1>1, <1>2 DEF StateTyped
<1>4. Overlapped' <=> Overlapped
  BY <1>2 DEF Overlapped
<1> QED
  BY <1>3, <1>4, RestStep DEF Moved

LEMMA HeldInit == ASSUME DevicesInit PROVE HeldInv
<1>1. /\ devs = [d \in Devs |-> Unused] /\ scan = [t \in Users |-> NoScan]
      /\ work = [t \in Users |-> <<>>] /\ lists = [t \in Users |-> <<>>]
      /\ handles = [t \in Users |-> <<>>] /\ changed = [t \in Users |-> {}]
      /\ lost = [d \in Devs |-> 0] /\ fault = "none"
  BY DEF DevicesInit
<1>2. StateTyped
  <2>1. \A d \in Devs : DeviceTyped(devs[d])
    BY <1>1 DEF DeviceTyped, Unused
  <2>2. \A t \in Users : ScanTyped(scan[t])
    BY <1>1 DEF ScanTyped
  <2> QED
    BY <1>1, <2>1, <2>2 DEF StateTyped
<1>3. \A d \in Devs : devs[d].life = "unused" /\ ~Live(d)
  BY <1>1 DEF Unused, Live
<1>4. Ordered
  BY <1>1, <1>3 DEF Ordered
<1>5. ASSUME NEW d \in Devs PROVE RefsOf(d) = Holders(d) /\ Frees(d) = Due(d)
  <2>1. RefsOf(d) = 0 /\ Due(d) = 0
    BY <1>3 DEF RefsOf, Due
  <2>2. \A t \in Users : HeldBy(t, d) = 0 /\ Count(work[t], <<"free", d>>) = 0
    BY <1>1, CountEmpty DEF HeldBy
  <2>3. /\ [t \in Users |-> HeldBy(t, d)] \in [Users -> Nat]
        /\ [t \in Users |-> Count(work[t], <<"free", d>>)] \in [Users -> Nat]
        /\ \A t \in Users : /\ [u \in Users |-> HeldBy(u, d)][t] = 0
                            /\ [u \in Users |-> Count(work[u], <<"free", d>>)][t] = 0
    BY <2>2
  <2>4. Total([t \in Users |-> HeldBy(t, d)]) = 0
    BY <2>3, DevsFinite, TotalZero
  <2>5. Total([t \in Users |-> Count(work[t], <<"free", d>>)]) = 0
    BY <2>3, DevsFinite, TotalZero
  <2>6. Cardinality(Children(d)) = 0
    <3>1. Children(d) = {}
      BY <1>3 DEF Children, Allocated
    <3> QED
      BY <3>1, FS_EmptySet
  <2>7. Holders(d) = 0 /\ Frees(d) = 0
    BY <1>1, <2>4, <2>5, <2>6 DEF Holders, Frees
  <2> QED
    BY <2>1, <2>7
<1>6. ScansSound
  BY <1>1 DEF ScansSound
<1>7. HubsAbove
  <2>1. \A c \in Devs : RefsOf(c) = 0
    BY <1>3 DEF RefsOf
  <2>2. \A d \in Devs : ~(lost[d] > 0)
    BY <1>1
  <2> QED
    BY <2>1, <2>2 DEF HubsAbove
<1> QED
  BY <1>2, <1>4, <1>5, <1>6, <1>7 DEF HeldInv, Balanced

LEMMA HeldNext == HeldInv /\ [DevicesNext]_deviceVars => HeldInv'
<1> SUFFICES ASSUME HeldInv, [DevicesNext]_deviceVars PROVE HeldInv'
  OBVIOUS
<1>1. ASSUME NEW t \in Users, Unref(t) PROVE HeldInv'
  BY <1>1, UnrefStep
<1>2. ASSUME NEW t \in Users, Free(t) PROVE HeldInv'
  BY <1>2, FreeStep
<1>3. ASSUME NEW t \in Users, NextPass(t) PROVE HeldInv'
  BY <1>3, NextPassStep
<1>4. ASSUME NEW t \in Users, LookUp(t) PROVE HeldInv'
  BY <1>4, LookUpStep
<1>5. ASSUME NEW t \in Users, RootHub(t) PROVE HeldInv'
  BY <1>5, RootHubStep
<1>6. ASSUME NEW t \in Users, Setup(t) PROVE HeldInv'
  BY <1>6, SetupStep
<1>7. ASSUME NEW t \in Users, SetInterface(t) PROVE HeldInv'
  BY <1>7, SetInterfaceStep
<1>8. ASSUME NEW t \in Users, Untrack(t) PROVE HeldInv'
  BY <1>8, UntrackStep
<1>9. ASSUME NEW t \in Users, Deliver(t) PROVE HeldInv'
  BY <1>9, DeliverStep
<1>10. ASSUME NEW t \in Users, Close(t) PROVE HeldInv'
  BY <1>10, CloseStep
<1>11. ASSUME NEW t \in Users, FreeDeviceList(t) PROVE HeldInv'
  BY <1>11, FreeDeviceListStep
<1>12. ASSUME NEW t \in Users, NEW d \in Allocated, Open(t, d) PROVE HeldInv'
  BY <1>12, OpenHandleStep
<1>13. ASSUME NEW t \in Users, NEW want, GetDeviceList(t, want) PROVE HeldInv'
  BY <1>13, GetDeviceListStep
<1>14. ASSUME NEW n \in Places, Unplug(n) PROVE HeldInv'
  BY <1>14, MovedStep DEF Unplug
<1>15. ASSUME NEW n \in Places, NEW id, Plug(n, id) PROVE HeldInv'
  BY <1>15, MovedStep DEF Plug
<1>16. CASE UNCHANGED deviceVars
  <2>1. changed \in [Users -> SUBSET {"world", "scan"}]
    BY DEF HeldInv, StateTyped
  <2>2. UNCHANGED <<devs, scan, work, lists, handles, lost, fault>> /\ changed' = changed
    BY <1>16 DEF deviceVars
  <2>3. Overlapped' <=> Overlapped
    BY <2>2 DEF Overlapped
  <2> QED
    BY <2>1, <2>2, <2>3, RestStep
<1> QED
  BY <1>1, <1>2, <1>3, <1>4, <1>5, <1>6, <1>7, <1>8, <1>9, <1>10, <1>11, <1>12, <1>13, <1>14,
     <1>15, <1>16 DEF DevicesNext

(* HeldInv is an invariant of the scans, opens, closes and releases of any   *)
(* number of threads.                                                        *)
THEOREM DevicesHaveHolders == DevicesSpec => []HeldInv
<1>1. DevicesInit => HeldInv
  BY HeldInit
<1>2. HeldInv /\ [DevicesNext]_deviceVars => HeldInv'
  BY HeldNext
<1> QED
  BY <1>1, <1>2, PTL DEF DevicesSpec

LEMMA NothingIsLeft == ASSUME HeldInv PROVE NothingLeft
<1>1. SUFFICES ASSUME fault = "none", NEW d \in Allocated,
                      \A t \in Users : scan[t] = NoScan /\ work[t] = <<>> /\ lists[t] = <<>>
                                         /\ handles[t] = <<>>
               PROVE  /\ lost[d] > 0 \/ \E c \in Allocated : devs[c].parent = d
                      /\ (\A t \in Users : "scan" \notin changed[t]) => devs[d].api = "hub"
  BY DEF NothingLeft
<1>2. StateTyped /\ Balanced /\ HubsAbove
  BY <1>1 DEF HeldInv
<1>3. d \in Devs /\ Live(d) /\ d # 0
  BY NotZero DEF Allocated
<1>4. \A t \in Users : HeldBy(t, d) = 0 /\ Count(work[t], <<"free", d>>) = 0
  BY <1>1, CountEmpty DEF HeldBy
<1>5. Total([t \in Users |-> HeldBy(t, d)]) = 0 /\ Frees(d) = 0
  <2>1. /\ [t \in Users |-> HeldBy(t, d)] \in [Users -> Nat]
        /\ [t \in Users |-> Count(work[t], <<"free", d>>)] \in [Users -> Nat]
        /\ \A t \in Users : /\ [u \in Users |-> HeldBy(u, d)][t] = 0
                            /\ [u \in Users |-> Count(work[u], <<"free", d>>)][t] = 0
    BY <1>4
  <2>2. Total([t \in Users |-> HeldBy(t, d)]) = 0
    BY <2>1, DevsFinite, TotalZero
  <2>3. Total([t \in Users |-> Count(work[t], <<"free", d>>)]) = 0
    BY <2>1, DevsFinite, TotalZero
  <2> QED
    BY <2>2, <2>3 DEF Frees
<1>6. RefsOf(d) = Holders(d) /\ Due(d) = 0 /\ RefsOf(d) \in Nat
  BY <1>2, <1>3, <1>5, RefsNat DEF Balanced
<1>7. Holders(d) > 0
  <2>1. devs[d].refs # 0 /\ RefsOf(d) = devs[d].refs
    BY <1>3, <1>6 DEF Due, RefsOf
  <2> QED
    BY <1>6, <2>1
<1>8. /\ lost[d] \in Nat /\ Cardinality(Children(d)) \in Nat
      /\ Holders(d) = lost[d] + Cardinality(Children(d)) + 0
  BY <1>2, <1>3, <1>5, HolderParts
<1>9. lost[d] > 0 \/ Cardinality(Children(d)) # 0
  BY <1>7, <1>8
<1>10. CASE lost[d] > 0
  <2>1. (\A t \in Users : "scan" \notin changed[t]) => devs[d].api = "hub"
    BY <1>2, <1>3, <1>10 DEF HubsAbove, Overlapped
  <2> QED
    BY <1>10, <2>1
<1>11. CASE Cardinality(Children(d)) # 0
  <2>1. Children(d) # {}
    BY <1>11, FS_EmptySet
  <2>2. PICK c \in Devs : IsChild(c, d)
    BY <2>1, ChildrenAre
  <2>3. c \in Allocated /\ RefsOf(c) > 0 /\ devs[c].parent = d
    BY <2>2, Counted DEF IsChild, Allocated
  <2>4. devs[d].api = "hub"
    BY <1>2, <1>3, <2>3 DEF HubsAbove
  <2> QED
    BY <2>3, <2>4
<1> QED
  BY <1>9, <1>10, <1>11

LEMMA HeldGives == ASSUME HeldInv PROVE DevicesHeld
<1>1. StateTyped /\ Ordered
  BY DEF HeldInv
<1>2. DevicesTypeOK
  <2>1. \A d \in Devs : devs[d].life \in {"unused", "live", "gone"}
    BY <1>1, RefsNat
  <2>2. \A d \in Allocated : devs[d].parent \in 0 .. MaxDevs /\ devs[d].refs >= 0
    BY <1>1, RefsNat DEF Allocated
  <2>3. \A t \in Users : Len(handles[t]) <= 1 /\ lists[t] \in Seq(Devs)
    BY <1>1 DEF StateTyped, Ordered
  <2> QED
    BY <2>1, <2>2, <2>3 DEF DevicesTypeOK
<1>3. RefsExact
  <2>1. SUFFICES ASSUME fault = "none", NEW d \in Devs
                 PROVE  /\ Live(d) => devs[d].refs = Holders(d)
                        /\ devs[d].life = "gone" => Holders(d) = 0
    BY DEF RefsExact
  <2>2. RefsOf(d) = Holders(d)
    BY <2>1 DEF HeldInv, Balanced
  <2> QED
    BY <2>2 DEF RefsOf, Live
<1>4. NothingLeft
  BY NothingIsLeft
<1>5. FaultsExplained
  BY <1>1 DEF FaultsExplained, Ordered
<1> QED
  BY <1>2, <1>3, <1>4, <1>5 DEF DevicesHeld

(* A device lives as long as somebody holds it and no longer: the counts are *)
(* the references there are, nothing but what was lost and the hubs above it *)
(* stays, and no thread uses a device that was freed.                        *)
THEOREM DevicesAreHeld == DevicesSpec => []DevicesHeld
<1>1. HeldInv => DevicesHeld
  BY HeldGives
<1> QED
  BY <1>1, DevicesHaveHolders, PTL

=================================================================================
