--------------------------- MODULE UvcCaptureProofs ---------------------------
(***************************************************************************)
(* Proofs about UvcCapture, for any modes of the camera, any number of     *)
(* cameras and any sequence of calls, about the conversions of UvcFrame,   *)
(* for images of any size, and about the controls, for any calls, threads, *)
(* registers and values.                                                   *)
(***************************************************************************)
EXTENDS SonixControls, UvcCapture, ListLemmas, SequenceTheorems, TLAPS

(* The capture objects that can exist                                       *)
Objects ==
    [alive : {TRUE}, ctx : {"live", "gone"}, devh : {"null", "open"}, init : BOOLEAN,
     started : BOOLEAN, running : {NoStream} \cup (Formats \X (Nat \X Nat)),
     status : {"ready", "open"}, format : Formats, palette : {"BGR", "GRAY"},
     size : Nat \X Nat, fps : Rates \cup {5}, trigger : {0, 1}]

(* m_bInit says that the camera is open in a context that is there, and a   *)
(* stream runs only then.                                                   *)
Sound(o) ==
    /\ o \in Objects
    /\ o.init => o.devh = "open" /\ o.ctx = "live"
    /\ o.running # NoStream => o.init

ObjInv ==
    /\ obj = Gone \/ Sound(obj)
    /\ obj.alive /\ obj.running # NoStream => obj.running = <<obj.format, obj.size>>

(* What exists covers what the object will give back.                       *)
LeftInv ==
    /\ left \in [contexts : Nat, handles : Nat, refs : Nat]
    /\ left.refs >= left.handles
    /\ obj.alive /\ obj.ctx = "live" =>
           /\ left.contexts > 0
           /\ obj.devh = "open" => left.handles > 0 /\ left.refs > left.handles
    /\ obj.alive /\ obj.ctx = "gone" => ~clean
    /\ clean /\ Cameras = 1 =>
           IF obj.alive THEN obj.init /\ left = [contexts |-> 1, handles |-> 1, refs |-> 2]
           ELSE left = [contexts |-> 0, handles |-> 0, refs |-> 0]

(* The settings stay as they are while a read waits, so what is stored for   *)
(* it has the size that will be announced.                                  *)
ReadInv ==
    /\ pc = "waiting" => obj.alive
    /\ cb # Idle =>
           /\ cb.still \in BOOLEAN /\ (obj.trigger = 1 => cb.still)
           /\ cb.size = IF cb.still THEN StillSize ELSE obj.size
           /\ cb.bytes = BytesOf("YUYV", cb.size)
    /\ held.bytes \in Nat /\ held.still \in BOOLEAN
    /\ pc = "waiting" /\ ~readFrame /\ fault = "none" =>
           held.fresh /\ (held.bytes > Room => held.still)
    /\ buffers = "freed" => /\ pc = "waiting" /\ readFrame
                            /\ obj.palette = "BGR" /\ obj.format # "MJPEG"
    /\ image.copied > image.room => image.still
    /\ image.fresh

CaptureInv == TypeOK /\ ObjInv /\ LeftInv /\ ReadInv /\ FaultsExplained

-----------------------------------------------------------------------------
(* Lemmas about the operations of the object *)

LEMMA TablesOfSizes ==
    /\ Formats = {"MJPEG", "YUYV"}
    /\ \A f \in Formats : /\ DOMAIN Dimensions[f] = 1..4
                          /\ \A i \in 1..4 : Dimensions[f][i] \in Nat \X Nat
<1>1. Formats = {"MJPEG", "YUYV"}
  BY DEF Formats, Dimensions
<1>2. /\ Dimensions["MJPEG"] = << <<640, 480>>, <<320, 240>>, <<800, 600>>, <<1280, 720>> >>
      /\ Dimensions["YUYV"] = << <<1280, 720>>, <<640, 480>>, <<320, 240>>, <<800, 600>> >>
  BY DEF Dimensions
<1>3. ASSUME NEW f \in Formats
      PROVE  /\ DOMAIN Dimensions[f] = 1..4
             /\ \A i \in 1..4 : Dimensions[f][i] \in Nat \X Nat
  <2>1. CASE f = "MJPEG"
    BY <1>2, <2>1
  <2>2. CASE f = "YUYV"
    BY <1>2, <2>2
  <2> QED
    BY <1>1, <2>1, <2>2
<1> QED
  BY <1>1, <1>3

\* AdjustParam changes the size alone, to one of the table.
LEMMA AdjustedIs ==
    ASSUME NEW o, Sound(o), NEW w, NEW h
    PROVE  \E s \in Nat \X Nat : Adjusted(o, w, h) = [o EXCEPT !.size = s]
<1> DEFINE table == Dimensions[o.format]
           fits == {i \in DOMAIN table : table[i][1] = w \/ table[i][2] = h}
<1>1. DOMAIN table = 1..4 /\ \A i \in 1..4 : table[i] \in Nat \X Nat
  BY TablesOfSizes DEF Sound, Objects
<1>2. CASE fits = {}
  <2>1. Adjusted(o, w, h) = o
    BY <1>2 DEF Adjusted
  <2>2. o = [o EXCEPT !.size = o.size] /\ o.size \in Nat \X Nat
    BY DEF Sound, Objects
  <2> QED
    BY <2>1, <2>2
<1>3. CASE fits # {}
  <2>1. \E i \in fits : \A j \in fits : i <= j
    <3>1. fits \subseteq 1..4
      BY <1>1
    <3> HIDE DEF fits
    <3>2. fits \in SUBSET Nat
      BY <3>1
    <3> QED
      BY <1>3, <3>2, MinExists
  <2> DEFINE first == CHOOSE i \in fits : \A j \in fits : i <= j
  <2>2. first \in 1..4
    BY <1>1, <2>1
  <2>3. Adjusted(o, w, h) = [o EXCEPT !.size = table[first]]
    BY <1>3 DEF Adjusted
  <2> QED
    BY <1>1, <2>2, <2>3
<1> QED
  BY <1>2, <1>3

\* closeVideoStream ends the stream and nothing else.
LEMMA StreamClosedIs ==
    ASSUME NEW o, Sound(o)
    PROVE  LET c == StreamClosed(o) IN
           /\ Sound(c) /\ c.running = NoStream
           /\ c.ctx = o.ctx /\ c.devh = o.devh /\ c.init = o.init
           /\ c.format = o.format /\ c.size = o.size /\ c.palette = o.palette
<1>1. CASE o.init /\ o.devh # "null"
  <2>1. StreamClosed(o) = [o EXCEPT !.running = NoStream, !.started = FALSE]
    BY <1>1 DEF StreamClosed
  <2> QED
    BY <2>1 DEF Sound, Objects
<1>2. CASE ~(o.init /\ o.devh # "null")
  <2>1. StreamClosed(o) = o /\ o.running = NoStream
    BY <1>2 DEF StreamClosed, Sound
  <2> QED
    BY <2>1
<1> QED
  BY <1>1, <1>2

\* openVideoStream starts the stream with the settings of the object, leaves
\* the object as it is, or finds that the camera has no such mode.
LEMMA StreamOpenedIs ==
    ASSUME NEW o, Sound(o), o.ctx = "live",
           o.running # NoStream => o.running = <<o.format, o.size>>,
           NEW n \in StreamOpened(o)
    PROVE  /\ Sound(n) /\ n.palette = o.palette /\ n.devh = o.devh
           /\ n.running # NoStream => n.running = <<n.format, n.size>>
           /\ n.ctx = "live" => (o.init => n.init)
           /\ n.ctx = "gone" => n.devh = "open"
           /\ n.started /\ ~o.started => n.init
<1>1. CASE n = o
  BY <1>1
<1>2. CASE n = Rejected(o) /\ o.devh # "null"
  <2>1. n = [o EXCEPT !.ctx = "gone", !.running = NoStream, !.init = FALSE]
    BY <1>2 DEF Rejected
  <2>2. n \in Objects /\ ~n.init /\ n.running = NoStream /\ n.ctx = "gone"
    BY <2>1 DEF Sound, Objects
  <2>3. /\ n.palette = o.palette /\ n.devh = o.devh /\ n.started = o.started
        /\ o.devh = "open"
    BY <1>2, <2>1 DEF Sound, Objects
  <2> QED
    BY <2>2, <2>3 DEF Sound
<1>3. CASE n = Started(o) /\ o.devh # "null"
  BY <1>3 DEF Started, Sound, Objects
<1> QED
  BY <1>1, <1>2, <1>3 DEF StreamOpened

-----------------------------------------------------------------------------
(* The initial state, and one lemma for each kind of call *)

LEMMA PixelsNat == \A s \in Nat \X Nat : Pixels(s) \in Nat
  BY DEF Pixels

LEMMA CaptureInvInit == CaptureInit => CaptureInv
<1> SUFFICES ASSUME CaptureInit PROVE CaptureInv
  OBVIOUS
<1> USE DEF CaptureInit, Gone
<1>1. ~obj.alive /\ fault = "none"
  OBVIOUS
<1>2. TypeOK
  <2>1. left \in [contexts : Int, handles : Int, refs : Int]
    OBVIOUS
  <2>2. opens \in 0..MaxOpens /\ stills \in 0..1
    BY CaptureAssumption DEF CaptureAssumption
  <2> QED
    BY <1>1, <2>1, <2>2 DEF TypeOK
<1>3. ObjInv /\ LeftInv
  BY <1>1 DEF ObjInv, LeftInv
<1>4. ReadInv /\ FaultsExplained
  BY <1>1 DEF ReadInv, FaultsExplained, NoFrame, NoImage
<1> QED
  BY <1>2, <1>3, <1>4 DEF CaptureInv

\* A call that does not touch the frames keeps what is said of them.
LEMMA QuietCall ==
    ASSUME CaptureInv, MayCall, UNCHANGED frameVars, opens' \in 0..MaxOpens,
           stills' \in 0..1, ObjInv', LeftInv', FaultsExplained'
    PROVE  CaptureInv'
<1>1. /\ pc' = "idle" /\ ~readFrame' /\ cb' = Idle /\ buffers' = buffers
      /\ held' = held /\ image' = image /\ buffers # "freed" /\ readFrame' = readFrame
  BY DEF CaptureInv, MayCall, frameVars, TypeOK, ReadInv
<1>2. TypeOK'
  <2>1. left' \in [contexts : Int, handles : Int, refs : Int]
    BY DEF LeftInv
  <2>2. obj'.alive /\ obj'.running # NoStream => obj'.init /\ obj'.ctx = "live"
    BY DEF ObjInv, Sound, Gone
  <2> QED
    BY <1>1, <2>1, <2>2 DEF CaptureInv, TypeOK
<1>3. ReadInv'
  BY <1>1 DEF CaptureInv, ReadInv
<1> QED
  BY <1>2, <1>3 DEF CaptureInv

\* What uvc_exit leaves covers what is there.
LEMMA ExitedIs ==
    ASSUME LeftInv, obj.alive, obj.ctx = "live", obj.devh = "open"
    PROVE  /\ Exited(left, 1) \in [contexts : Nat, handles : Nat, refs : Nat]
           /\ Exited(left, 1).refs >= Exited(left, 1).handles
  BY DEF LeftInv, Exited

LEMMA RestartedStep ==
    ASSUME CaptureInv, MaySet, NEW o, Sound(o), o.ctx = obj.ctx, o.devh = obj.devh,
           o.init = obj.init, o.running = obj.running, Restarted(o)
    PROVE  CaptureInv'
<1>1. PICK n \in StreamOpened(StreamClosed(o)) :
         IF o.ctx = "gone" THEN obj' = o /\ UNCHANGED <<left, clean>>
         ELSE /\ obj' = n
              /\ left' = IF n.ctx = "gone" THEN Exited(left, 1) ELSE left
              /\ clean' = (clean /\ n.ctx = "live")
  BY DEF Restarted
<1>2. /\ fault' = Touched(o) /\ fault = "none" /\ stills' \in 0..1 /\ opens' = opens
      /\ UNCHANGED frameVars /\ MayCall /\ obj.alive
  BY DEF Restarted, Quiet, MaySet, MayCall, Live
<1>3. opens' \in 0..MaxOpens
  BY <1>2 DEF CaptureInv, TypeOK
<1>4. CASE o.ctx = "gone"
  <2>1. obj' = o /\ left' = left /\ clean' = clean /\ ~clean
    BY <1>1, <1>2, <1>4 DEF CaptureInv, LeftInv
  <2>2. ObjInv'
    BY <1>4, <2>1 DEF ObjInv, Sound
  <2>3. LeftInv'
    BY <1>4, <2>1 DEF CaptureInv, LeftInv
  <2>4. FaultsExplained'
    BY <1>2, <1>4, <2>1 DEF Touched, FaultsExplained
  <2> QED
    BY <1>2, <1>3, <2>2, <2>3, <2>4, QuietCall
<1>5. CASE o.ctx # "gone"
  <2>1. o.ctx = "live" /\ obj.ctx = "live"
    BY <1>5 DEF Sound, Objects
  <2>2. /\ Sound(StreamClosed(o)) /\ StreamClosed(o).running = NoStream
        /\ StreamClosed(o).ctx = "live" /\ StreamClosed(o).init = obj.init
        /\ StreamClosed(o).devh = obj.devh
    BY <2>1, StreamClosedIs
  <2>3. /\ Sound(n) /\ n.devh = obj.devh
        /\ n.running # NoStream => n.running = <<n.format, n.size>>
        /\ n.ctx = "live" => (obj.init => n.init)
        /\ n.ctx = "gone" => obj.devh = "open"
    BY <2>2, StreamOpenedIs
  <2>4. /\ obj' = n /\ left' = IF n.ctx = "gone" THEN Exited(left, 1) ELSE left
        /\ clean' = (clean /\ n.ctx = "live")
    BY <1>1, <1>5
  <2>5. ObjInv'
    BY <2>3, <2>4 DEF ObjInv
  <2>6. LeftInv'
    <3>1. CASE n.ctx = "gone"
      BY <1>2, <2>1, <2>3, <2>4, <3>1, ExitedIs DEF CaptureInv, LeftInv
    <3>2. CASE n.ctx = "live"
      <4>1. left' = left /\ (clean' <=> clean) /\ n.alive
        BY <2>3, <2>4, <3>2 DEF CaptureInv, LeftInv, Sound, Objects
      <4> QED
        BY <1>2, <2>1, <2>3, <2>4, <3>2, <4>1 DEF CaptureInv, LeftInv
    <3> QED
      BY <2>3, <3>1, <3>2 DEF Sound, Objects
  <2>7. FaultsExplained'
    BY <1>2, <1>5 DEF Touched, FaultsExplained
  <2> QED
    BY <1>2, <1>3, <2>5, <2>6, <2>7, QuietCall
<1> QED
  BY <1>4, <1>5

LEMMA SettingStep ==
    ASSUME CaptureInv,
           \/ \E w \in Widths : SetWidth(w)
           \/ \E h \in Heights : SetHeight(h)
           \/ \E rate \in Rates : SetFps(rate)
           \/ \E f \in Formats : SetFormat(f)
    PROVE  CaptureInv'
<1>1. MaySet /\ obj.alive /\ Sound(obj)
  <2>1. MaySet /\ obj.alive
    BY DEF SetWidth, SetHeight, SetFps, SetFormat, MaySet
  <2> QED
    BY <2>1 DEF CaptureInv, ObjInv, Gone
<1>2. ASSUME NEW w, NEW h, Restarted(Adjusted(obj, w, h)) PROVE CaptureInv'
  <2>1. PICK s \in Nat \X Nat : Adjusted(obj, w, h) = [obj EXCEPT !.size = s]
    BY <1>1, AdjustedIs
  <2>2. PICK o : o = [obj EXCEPT !.size = s]
    OBVIOUS
  <2>3. /\ Sound(o) /\ o.ctx = obj.ctx /\ o.devh = obj.devh /\ o.init = obj.init
        /\ o.running = obj.running
    BY <1>1, <2>2 DEF Sound, Objects
  <2>4. Restarted(o)
    BY <1>2, <2>1, <2>2
  <2> QED
    BY <1>1, <2>3, <2>4, RestartedStep
<1>3. ASSUME NEW rate \in Rates, Restarted([obj EXCEPT !.fps = rate]) PROVE CaptureInv'
  <2>1. PICK o : o = [obj EXCEPT !.fps = rate]
    OBVIOUS
  <2>2. /\ Sound(o) /\ o.ctx = obj.ctx /\ o.devh = obj.devh /\ o.init = obj.init
        /\ o.running = obj.running
    BY <1>1, <2>1 DEF Sound, Objects
  <2>3. Restarted(o)
    BY <1>3, <2>1
  <2> QED
    BY <1>1, <2>2, <2>3, RestartedStep
<1>4. ASSUME NEW f \in Formats, Restarted([obj EXCEPT !.format = f]) PROVE CaptureInv'
  <2>1. PICK o : o = [obj EXCEPT !.format = f]
    OBVIOUS
  <2>2. /\ Sound(o) /\ o.ctx = obj.ctx /\ o.devh = obj.devh /\ o.init = obj.init
        /\ o.running = obj.running
    BY <1>1, <2>1 DEF Sound, Objects
  <2>3. Restarted(o)
    BY <1>4, <2>1
  <2> QED
    BY <1>1, <2>2, <2>3, RestartedStep
<1>5. CASE \/ \E w \in Widths : SetWidth(w)
           \/ \E h \in Heights : SetHeight(h)
  BY <1>2, <1>5 DEF SetWidth, SetHeight
<1>6. CASE \E rate \in Rates : SetFps(rate)
  BY <1>3, <1>6 DEF SetFps
<1>7. CASE \E f \in Formats : SetFormat(f)
  BY <1>4, <1>7 DEF SetFormat
<1> QED
  BY <1>5, <1>6, <1>7

LEMMA StartStreamStep == ASSUME CaptureInv, StartStream PROVE CaptureInv'
<1>1. /\ MayCall /\ obj.alive /\ Sound(obj) /\ fault = "none" /\ UNCHANGED frameVars
      /\ opens' \in 0..MaxOpens /\ stills' \in 0..1 /\ fault' = Touched(obj)
  BY DEF StartStream, MaySet, MayCall, Live, CaptureInv, ObjInv, Gone, Quiet, TypeOK
<1>2. CASE obj.ctx = "gone"
  <2>1. obj' = obj /\ left' = left /\ clean' = clean
    BY <1>2 DEF StartStream
  <2> QED
    BY <1>1, <1>2, <2>1, QuietCall
    DEF CaptureInv, ObjInv, LeftInv, FaultsExplained, Touched
<1>3. CASE obj.ctx # "gone"
  <2>1. PICK n \in StreamOpened(obj) :
           /\ obj' = n
           /\ left' = IF n.ctx = "gone" THEN Exited(left, 1) ELSE left
           /\ clean' = (clean /\ n.ctx = "live")
    BY <1>3 DEF StartStream
  <2>2. obj.ctx = "live"
    BY <1>1, <1>3 DEF Sound, Objects
  <2>3. /\ Sound(n) /\ n.devh = obj.devh
        /\ n.running # NoStream => n.running = <<n.format, n.size>>
        /\ n.ctx = "live" => (obj.init => n.init)
        /\ n.ctx = "gone" => obj.devh = "open"
    BY <1>1, <2>2, StreamOpenedIs DEF CaptureInv, ObjInv
  <2>4. ObjInv'
    BY <2>1, <2>3 DEF ObjInv
  <2>5. LeftInv'
    <3>1. CASE n.ctx = "gone"
      BY <1>1, <2>1, <2>2, <2>3, <3>1, ExitedIs DEF CaptureInv, LeftInv
    <3>2. CASE n.ctx = "live"
      <4>1. left' = left /\ (clean' <=> clean) /\ n.alive
        BY <2>1, <2>3, <3>2 DEF CaptureInv, LeftInv, Sound, Objects
      <4> QED
        BY <1>1, <2>1, <2>2, <2>3, <3>2, <4>1 DEF CaptureInv, LeftInv
    <3> QED
      BY <2>3, <3>1, <3>2 DEF Sound, Objects
  <2>6. FaultsExplained'
    BY <1>1, <1>3 DEF Touched, FaultsExplained
  <2> QED
    BY <1>1, <2>4, <2>5, <2>6, QuietCall
<1> QED
  BY <1>2, <1>3

\* Calls that leave what exists as it is
LEMMA PlainStep ==
    ASSUME CaptureInv,
           \/ StopStream
           \/ \E p \in {"BGR", "GRAY"} : SetMode(p)
           \/ \E on \in 0..1 : Trigger(on)
           \/ \E p \in DOMAIN getRange, m \in 0..Grid : SetControl(p, m)
           \/ \E n \in Lengths : UpdatePackage(n)
    PROVE  CaptureInv'
<1>1. /\ MayCall /\ obj.alive /\ Sound(obj) /\ fault = "none" /\ UNCHANGED frameVars
      /\ opens' \in 0..MaxOpens
  BY DEF StopStream, SetMode, Trigger, SetControl, UpdatePackage, MaySet, MayCall, Live,
         CaptureInv, ObjInv, Gone, Quiet, TypeOK
<1>2. /\ stills' \in 0..1 /\ left' = left /\ clean' = clean
      /\ fault' \in {fault, Touched(obj)}
  BY DEF StopStream, SetMode, Trigger, SetControl, UpdatePackage, CaptureInv, TypeOK
<1>3. /\ Sound(obj') /\ obj'.ctx = obj.ctx /\ obj'.devh = obj.devh /\ obj'.init = obj.init
      /\ obj'.running # NoStream => obj'.running = <<obj'.format, obj'.size>>
  <2>1. CASE StopStream
    BY <1>1, <2>1, StreamClosedIs DEF StopStream
  <2>2. CASE \E p \in {"BGR", "GRAY"} : SetMode(p)
    BY <1>1, <2>2 DEF SetMode, CaptureInv, ObjInv, Sound, Objects
  <2>3. CASE \E on \in 0..1 : Trigger(on)
    <3>1. PICK on \in {0, 1} : obj' = [obj EXCEPT !.trigger = on]
      BY <2>3 DEF Trigger
    <3> QED
      BY <1>1, <3>1 DEF CaptureInv, ObjInv, Sound, Objects
  <2>4. CASE \/ \E p \in DOMAIN getRange, m \in 0..Grid : SetControl(p, m)
             \/ \E n \in Lengths : UpdatePackage(n)
    BY <1>1, <2>4 DEF SetControl, UpdatePackage, CaptureInv, ObjInv
  <2> QED
    BY <2>1, <2>2, <2>3, <2>4
<1>4. obj'.alive
  BY <1>3 DEF Sound, Objects
<1>5. ObjInv'
  BY <1>3 DEF ObjInv
<1>6. LeftInv'
  BY <1>1, <1>2, <1>3, <1>4 DEF CaptureInv, LeftInv
<1>7. FaultsExplained'
  BY <1>1, <1>2, <1>3 DEF CaptureInv, LeftInv, FaultsExplained, Touched
<1> QED
  BY <1>1, <1>2, <1>5, <1>6, <1>7, QuietCall

\* What the destructor leaves
LEMMA DestroyedIs ==
    ASSUME CaptureInv, obj.alive, Sound(obj)
    PROVE  /\ Destroyed(obj, left) \in [contexts : Nat, handles : Nat, refs : Nat]
           /\ Destroyed(obj, left).refs >= Destroyed(obj, left).handles
           /\ clean /\ Cameras = 1 =>
                 Destroyed(obj, left) = [contexts |-> 0, handles |-> 0, refs |-> 0]
<1>1. CASE obj.init
  <2>1. obj.ctx = "live" /\ obj.devh = "open"
    BY <1>1 DEF Sound
  <2>2. Destroyed(obj, left) = [contexts |-> left.contexts - 1, handles |-> left.handles - 1,
                                refs |-> left.refs - 2]
    BY <1>1 DEF Destroyed, Exited, CaptureInv, LeftInv
  <2>3. /\ left \in [contexts : Nat, handles : Nat, refs : Nat]
        /\ left.contexts > 0 /\ left.handles > 0 /\ left.refs > left.handles
        /\ clean /\ Cameras = 1 => left = [contexts |-> 1, handles |-> 1, refs |-> 2]
    BY <2>1 DEF CaptureInv, LeftInv
  <2>4. /\ left.contexts - 1 \in Nat /\ left.handles - 1 \in Nat /\ left.refs - 2 \in Nat
        /\ left.refs - 2 >= left.handles - 1
        /\ clean /\ Cameras = 1 => /\ left.contexts - 1 = 0 /\ left.handles - 1 = 0
                                  /\ left.refs - 2 = 0
    BY <2>3
  <2> QED
    BY <2>2, <2>4
<1>2. CASE ~obj.init
  BY <1>2 DEF Destroyed, CaptureInv, LeftInv
<1> QED
  BY <1>1, <1>2 DEF Sound, Objects

LEMMA CloseStep == ASSUME CaptureInv, Close PROVE CaptureInv'
<1>1. /\ obj.alive /\ Sound(obj) /\ pc = "idle" /\ ~readFrame /\ cb = Idle /\ fault = "none"
  BY DEF Close, MayCall, Live, CaptureInv, ObjInv, Gone, TypeOK
<1>2. /\ obj' = Gone /\ ~obj'.alive /\ left' = Destroyed(obj, left) /\ clean' = clean
      /\ fault' = "none" /\ pc' = "idle" /\ readFrame' = readFrame /\ cb' = Idle /\ stills' = 0
      /\ opens' = opens /\ buffers' = "null" /\ held' = NoFrame /\ image' = NoImage
  BY <1>1 DEF Close, Gone
<1>3. LeftInv'
  BY <1>1, <1>2, DestroyedIs DEF LeftInv
<1>4. ObjInv' /\ FaultsExplained'
  BY <1>2 DEF ObjInv, FaultsExplained
<1>5. TypeOK'
  BY <1>1, <1>2, <1>3 DEF TypeOK, CaptureInv, LeftInv
<1>6. ReadInv'
  BY <1>1, <1>2 DEF ReadInv, NoFrame, NoImage
<1> QED
  BY <1>3, <1>4, <1>5, <1>6 DEF CaptureInv

LEMMA OpenStep == ASSUME CaptureInv, NEW index \in 0..1, Open(index) PROVE CaptureInv'
<1>0. Cameras \in Nat /\ MaxOpens \in Nat
  BY CaptureAssumption DEF CaptureAssumption
<1>1. /\ MayCall /\ ~obj.alive /\ fault = "none" /\ UNCHANGED frameVars
      /\ opens' \in 0..MaxOpens /\ stills' \in 0..1
  <2>1. MayCall /\ ~obj.alive /\ opens < MaxOpens /\ opens' = opens + 1
    BY DEF Open, Opening
  <2>2. UNCHANGED frameVars /\ stills' = stills
    BY DEF Open
  <2> QED
    BY <1>0, <2>1, <2>2 DEF MayCall, Live, CaptureInv, TypeOK
<1>2. /\ left \in [contexts : Nat, handles : Nat, refs : Nat] /\ left.refs >= left.handles
      /\ clean /\ Cameras = 1 => left = [contexts |-> 0, handles |-> 0, refs |-> 0]
  BY <1>1 DEF CaptureInv, LeftInv
<1>3. /\ Listed \in [contexts : Nat, handles : Nat, refs : Nat]
      /\ Listed.contexts = left.contexts + 1 /\ Listed.handles = left.handles
      /\ Listed.refs = left.refs + Cameras
  <2>1. left.contexts + 1 \in Nat /\ left.refs + Cameras \in Nat
    BY <1>0, <1>2
  <2> QED
    BY <1>2, <2>1 DEF Listed
<1>4. Sound(NewObject)
  BY TablesOfSizes DEF Sound, NewObject, Objects
<1>5. CASE Dropped(NewObject, Listed) /\ clean' = FALSE /\ fault' = fault
  <2>1. obj' = Gone /\ ~obj'.alive /\ left' = Listed
    BY <1>5 DEF Dropped, Destroyed, NewObject, Gone
  <2>2. LeftInv'
    BY <1>0, <1>2, <1>3, <1>5, <2>1 DEF LeftInv
  <2> QED
    BY <1>1, <1>5, <2>1, <2>2, QuietCall DEF ObjInv, FaultsExplained
<1>6. CASE fault' = "no such camera" /\ Kept(NewObject, Listed) /\ clean' = FALSE
  <2>1. obj' = NewObject /\ left' = Listed
    BY <1>6 DEF Kept
  <2>2. LeftInv'
    <3>1. /\ left'.contexts = left.contexts + 1 /\ left'.handles = left.handles
          /\ left'.refs = left.refs + Cameras
          /\ left' \in [contexts : Nat, handles : Nat, refs : Nat]
      BY <1>3, <2>1
    <3>2. obj'.alive /\ obj'.devh = "null" /\ clean' = FALSE
      BY <1>6, <2>1 DEF NewObject
    <3> QED
      BY <1>0, <1>2, <3>1, <3>2 DEF LeftInv
  <2>3. ObjInv'
    BY <1>4, <2>1 DEF ObjInv, NewObject
  <2> QED
    BY <1>1, <1>6, <2>2, <2>3, QuietCall DEF FaultsExplained
<1>7. CASE /\ Dropped([NewObject EXCEPT !.ctx = "gone"], Exited(Listed, 0))
           /\ clean' = FALSE /\ fault' = fault
  <2>1. obj' = Gone /\ ~obj'.alive /\ left' = Exited(Listed, 0)
    BY <1>7 DEF Dropped, Destroyed, NewObject, Gone
  <2>2. LeftInv'
    <3>1. left' = [contexts |-> Listed.contexts - 1, handles |-> Listed.handles - 0,
                   refs |-> Listed.refs - 0]
      BY <2>1 DEF Exited
    <3>2. Listed.contexts - 1 \in Nat /\ Listed.handles - 0 = Listed.handles
          /\ Listed.refs - 0 = Listed.refs /\ Listed.refs >= Listed.handles
      BY <1>0, <1>2, <1>3
    <3>3. left' \in [contexts : Nat, handles : Nat, refs : Nat] /\ left'.refs >= left'.handles
      BY <1>3, <3>1, <3>2
    <3> QED
      BY <1>7, <2>1, <3>3 DEF LeftInv
  <2> QED
    BY <1>1, <1>7, <2>1, <2>2, QuietCall DEF ObjInv, FaultsExplained
<1>8. ASSUME index < Cameras, fault' = fault,
             LET opened == [NewObject EXCEPT !.devh = "open"]
                 held1 == [Listed EXCEPT !.handles = @ + 1, !.refs = @ + 1]
             IN  \E o \in StreamOpened(opened) :
                   IF o.started THEN Kept(o, held1) /\ clean' = clean
                   ELSE /\ Dropped(o, IF o.ctx = "gone" THEN Exited(held1, 1) ELSE held1)
                        /\ clean' = FALSE
      PROVE  CaptureInv'
  <2> DEFINE opened == [NewObject EXCEPT !.devh = "open"]
             held1 == [Listed EXCEPT !.handles = @ + 1, !.refs = @ + 1]
  <2>1. PICK o \in StreamOpened(opened) :
           IF o.started THEN Kept(o, held1) /\ clean' = clean
           ELSE /\ Dropped(o, IF o.ctx = "gone" THEN Exited(held1, 1) ELSE held1)
                /\ clean' = FALSE
    BY <1>8
  <2>2. /\ held1 \in [contexts : Nat, handles : Nat, refs : Nat]
        /\ held1.contexts = left.contexts + 1 /\ held1.handles = left.handles + 1
        /\ held1.refs = left.refs + Cameras + 1
    <3>1. PICK l : l = Listed
      OBVIOUS
    <3>2. l.handles + 1 \in Nat /\ l.refs + 1 \in Nat
      BY <1>3, <3>1
    <3>3. [l EXCEPT !.handles = l.handles + 1, !.refs = l.refs + 1]
            \in [contexts : Nat, handles : Nat, refs : Nat]
      BY <1>3, <3>1, <3>2
    <3>4. held1 = [l EXCEPT !.handles = l.handles + 1, !.refs = l.refs + 1]
      BY <3>1
    <3> QED
      BY <1>0, <1>2, <1>3, <3>1, <3>3, <3>4
  <2>3. /\ Sound(opened) /\ opened.ctx = "live" /\ opened.running = NoStream
        /\ opened.devh = "open" /\ ~opened.started /\ ~opened.init
    <3>1. /\ opened \in Objects /\ ~opened.init /\ opened.running = NoStream
          /\ opened.ctx = "live" /\ opened.devh = "open" /\ ~opened.started
      <4>1. opened = [NewObject EXCEPT !.devh = "open"]
        OBVIOUS
      <4>2. /\ NewObject \in Objects /\ ~NewObject.init /\ NewObject.running = NoStream
            /\ NewObject.ctx = "live" /\ ~NewObject.started
        BY <1>4 DEF Sound, NewObject
      <4> HIDE DEF opened
      <4> QED
        BY <4>1, <4>2 DEF Objects
    <3> QED
      BY <3>1 DEF Sound
  <2>4. /\ Sound(o) /\ o.devh = "open"
        /\ o.running # NoStream => o.running = <<o.format, o.size>>
        /\ o.started => o.init
    BY <2>3, StreamOpenedIs
  <2> HIDE DEF opened, held1
  <2>5. CASE o.started
    <3>1. obj' = o /\ left' = held1 /\ clean' = clean
      BY <2>1, <2>5 DEF Kept
    <3>2. o.init /\ o.ctx = "live" /\ o.alive /\ Cameras > 0
      <4>1. Cameras > 0
        BY <1>0, <1>8
      <4> QED
        BY <2>4, <2>5, <4>1 DEF Sound, Objects
    <3>3. LeftInv'
      BY <1>0, <1>2, <2>2, <2>4, <3>1, <3>2 DEF LeftInv
    <3>4. ObjInv'
      BY <2>4, <3>1 DEF ObjInv
    <3> QED
      BY <1>1, <1>8, <3>3, <3>4, QuietCall DEF FaultsExplained
  <2>6. CASE ~o.started
    <3>1. ~o.init
      <4>1. o = opened \/ o = Rejected(opened) \/ o = Started(opened)
        BY <2>3 DEF StreamOpened
      <4>2. Rejected(opened).init = FALSE /\ Started(opened).started = TRUE
        BY <2>3 DEF Rejected, Started, Sound, Objects
      <4> QED
        BY <2>3, <2>6, <4>1, <4>2
    <3>2. /\ obj' = Gone /\ ~obj'.alive /\ clean' = FALSE
          /\ left' = IF o.ctx = "gone" THEN Exited(held1, 1) ELSE held1
      BY <2>1, <2>6, <3>1 DEF Dropped, Destroyed, Gone
    <3>3. left' \in [contexts : Nat, handles : Nat, refs : Nat] /\ left'.refs >= left'.handles
      <4>1. Exited(held1, 1) = [contexts |-> held1.contexts - 1, handles |-> held1.handles - 1,
                                refs |-> held1.refs - 1]
        BY DEF Exited
      <4>2. /\ held1.contexts - 1 \in Nat /\ held1.handles - 1 \in Nat
            /\ held1.refs - 1 \in Nat /\ held1.refs >= held1.handles
            /\ held1.refs - 1 >= held1.handles - 1
        BY <1>0, <1>2, <2>2
      <4> QED
        BY <2>2, <3>2, <4>1, <4>2
    <3>4. LeftInv'
      BY <3>2, <3>3 DEF LeftInv
    <3> QED
      BY <1>1, <1>8, <3>2, <3>4, QuietCall DEF ObjInv, FaultsExplained
  <2> QED
    BY <2>5, <2>6
<1> QED
  BY <1>5, <1>6, <1>7, <1>8 DEF Open

LEMMA ReadStep == ASSUME CaptureInv, ReadAsk \/ ReadGot PROVE CaptureInv'
<1>1. /\ obj.alive /\ Sound(obj) /\ fault = "none" /\ fault' = fault
      /\ UNCHANGED objectVars /\ cb' = cb /\ buffers' = buffers /\ stills' = stills
  BY DEF ReadAsk, ReadGot, MaySet, MayCall, Live, CaptureInv, ObjInv, Gone, ReadInv
<1>2. ObjInv' /\ LeftInv' /\ FaultsExplained'
  BY <1>1 DEF CaptureInv, ObjInv, LeftInv, FaultsExplained, objectVars
<1>3. Room \in Nat /\ Room' = Room
  <2>1. Announced \in Nat \X Nat
    BY <1>1, CaptureAssumption DEF CaptureAssumption, Announced, Sound, Objects
  <2>2. Announced' = Announced /\ Room' = Room
    BY <1>1 DEF Announced, Room, objectVars
  <2> QED
    BY <2>1, <2>2, PixelsNat DEF Room
<1>4. CASE ReadAsk
  <2>1. /\ pc' = "waiting" /\ readFrame' = TRUE /\ cb = Idle /\ image' = NoImage
        /\ held' = [held EXCEPT !.fresh = FALSE] /\ buffers # "freed"
    BY <1>4 DEF ReadAsk, MaySet, MayCall, CaptureInv, TypeOK, ReadInv
  <2>2. TypeOK'
    BY <1>1, <2>1 DEF CaptureInv, TypeOK, objectVars
  <2>3. ReadInv'
    BY <1>1, <2>1 DEF CaptureInv, ReadInv, objectVars, NoImage
  <2> QED
    BY <1>2, <2>2, <2>3 DEF CaptureInv
<1>5. CASE ReadGot
  <2>1. /\ pc' = "idle" /\ ~readFrame /\ readFrame' = readFrame /\ cb = Idle
        /\ held' = held /\ pc = "waiting" /\ buffers # "freed"
        /\ image' = [fresh |-> held.fresh, still |-> held.still, room |-> Room,
                     copied |-> IF obj.format = "MJPEG" THEN 0 ELSE held.bytes]
    BY <1>5 DEF ReadGot, CaptureInv, TypeOK, ReadInv
  <2>2. TypeOK'
    BY <1>1, <2>1 DEF CaptureInv, TypeOK, objectVars
  <2>3. held.fresh /\ (held.bytes > Room => held.still)
    BY <1>1, <2>1 DEF CaptureInv, ReadInv
  <2>4. image'.fresh /\ (image'.copied > image'.room => image'.still)
    BY <1>3, <2>1, <2>3
  <2>5. ReadInv'
    BY <1>1, <2>1, <2>4 DEF CaptureInv, ReadInv
  <2> QED
    BY <1>2, <2>2, <2>5 DEF CaptureInv
<1> QED
  BY <1>4, <1>5

LEMMA PublishStep == ASSUME CaptureInv, NEW still \in BOOLEAN, Publish(still) PROVE CaptureInv'
<1>1. /\ obj.alive /\ Sound(obj) /\ fault' = fault /\ UNCHANGED objectVars
      /\ buffers' = buffers /\ pc' = pc /\ readFrame' = readFrame /\ held' = held
      /\ image' = image /\ stills' \in 0..1 /\ obj.running # NoStream
  BY DEF Publish, CaptureInv, ObjInv, Gone, TypeOK
<1>2. ObjInv' /\ LeftInv' /\ FaultsExplained'
  BY <1>1 DEF CaptureInv, ObjInv, LeftInv, FaultsExplained, objectVars
<1>3. obj' = obj /\ obj.running[2] = obj.size
  BY <1>1 DEF objectVars, CaptureInv, ObjInv
<1>4. cb' # Idle =>
        /\ readFrame /\ cb'.still = still /\ (obj.trigger = 1 => still)
        /\ cb'.size = IF still THEN StillSize ELSE obj.size
        /\ cb'.bytes = BytesOf("YUYV", cb'.size)
  BY <1>3 DEF Publish, Wanted, FrameOf
<1>5. TypeOK'
  BY <1>1, <1>4 DEF CaptureInv, TypeOK, objectVars
<1>6. ReadInv'
  <2>1. Room' = Room
    BY <1>3 DEF Room, Announced
  <2> QED
    BY <1>1, <1>3, <1>4, <2>1 DEF CaptureInv, ReadInv
<1> QED
  BY <1>2, <1>5, <1>6 DEF CaptureInv

LEMMA StoreStep ==
    ASSUME CaptureInv, Store \/ StoreFails \/ StoreMjpeg PROVE CaptureInv'
<1>1. /\ pc = "waiting" /\ readFrame /\ obj.alive /\ Sound(obj) /\ fault = "none"
      /\ cb # Idle /\ cb' = Idle /\ UNCHANGED objectVars /\ pc' = pc /\ image' = image
      /\ stills' = stills /\ obj' = obj
  <2>1. /\ Live /\ cb # Idle /\ cb' = Idle /\ UNCHANGED objectVars /\ pc' = pc
        /\ image' = image /\ stills' = stills
    BY DEF Store, StoreFails, StoreMjpeg
  <2>2. readFrame /\ pc = "waiting" /\ obj.alive
    BY <2>1 DEF CaptureInv, TypeOK, ReadInv
  <2> QED
    BY <2>1, <2>2 DEF Live, CaptureInv, ObjInv, Gone, objectVars
<1>2. ObjInv' /\ LeftInv'
  BY <1>1 DEF CaptureInv, ObjInv, LeftInv, objectVars
<1>3. Room' = Room
  BY <1>1 DEF Room, Announced
<1>4. FaultsExplained'
  <2>1. CASE Store \/ StoreFails
    <3>1. fault' = FreeFault
      BY <2>1 DEF Store, StoreFails
    <3> QED
      BY <1>1, <3>1 DEF FreeFault, CaptureInv, ReadInv, FaultsExplained
  <2>2. CASE StoreMjpeg
    BY <1>1, <2>2 DEF StoreMjpeg, FaultsExplained
  <2> QED
    BY <2>1, <2>2
<1>5. /\ readFrame' \in BOOLEAN /\ buffers' \in {"null", "live", "freed"}
      /\ buffers' = "freed" => (readFrame' /\ obj.palette = "BGR") \/ buffers = "freed"
  BY <1>1 DEF Store, StoreFails, StoreMjpeg, CaptureInv, TypeOK, Sound, Objects
<1>6. TypeOK'
  BY <1>1, <1>5 DEF CaptureInv, TypeOK, objectVars
<1>7. CASE Store
  <2>1. /\ held' = StoredFrame /\ buffers' = "live" /\ readFrame' = FALSE
    BY <1>7 DEF Store
  <2>2. /\ cb.still \in BOOLEAN /\ (obj.trigger = 1 => cb.still)
        /\ cb.size = IF cb.still THEN StillSize ELSE obj.size
        /\ cb.bytes = BytesOf("YUYV", cb.size)
    BY <1>1 DEF CaptureInv, ReadInv
  <2>3. cb.size \in Nat \X Nat
    BY <1>1, <2>2, CaptureAssumption DEF CaptureAssumption, Sound, Objects
  <2>4. PICK p \in Nat : p = Pixels(cb.size)
    BY <2>3, PixelsNat
  <2>5. cb.bytes = p * 2
    BY <2>2, <2>4 DEF BytesOf, Packed
  <2>6. /\ held'.still = cb.still /\ held'.fresh
        /\ held'.bytes = IF obj.palette = "GRAY" THEN p ELSE p * 2
    BY <2>1, <2>4, <2>5 DEF StoredFrame
  <2>7. ~cb.still => Room = p * IF obj.palette = "GRAY" THEN 1 ELSE 3
    <3>1. ~cb.still => Announced = cb.size
      BY <1>1, <2>2 DEF Announced, Sound, Objects
    <3> QED
      BY <2>4, <3>1 DEF Room
  <2>8. held'.bytes \in Nat /\ (held'.bytes > Room => held'.still)
    BY <2>2, <2>6, <2>7
  <2>9. ReadInv'
    BY <1>1, <1>3, <2>1, <2>2, <2>6, <2>8 DEF CaptureInv, ReadInv
  <2> QED
    BY <1>2, <1>4, <1>6, <2>9 DEF CaptureInv
<1>8. CASE StoreFails
  <2>1. held' = held /\ readFrame' = readFrame
    BY <1>8 DEF StoreFails
  <2>2. buffers' = "freed" => obj.palette = "BGR" /\ obj.format # "MJPEG"
    BY <1>1, <1>8 DEF StoreFails, Sound, Objects
  <2>3. ReadInv'
    BY <1>1, <1>3, <2>1, <2>2 DEF CaptureInv, ReadInv
  <2> QED
    BY <1>2, <1>4, <1>6, <2>3 DEF CaptureInv
<1>9. CASE StoreMjpeg
  <2>1. held' = held /\ fault' # "none" /\ buffers' = buffers /\ obj.format = "MJPEG"
    BY <1>9 DEF StoreMjpeg
  <2>2. ReadInv'
    BY <1>1, <1>3, <2>1 DEF CaptureInv, ReadInv
  <2> QED
    BY <1>2, <1>4, <1>6, <2>2 DEF CaptureInv
<1> QED
  BY <1>7, <1>8, <1>9

-----------------------------------------------------------------------------
(* The theorems *)

LEMMA CaptureStep ==
    ASSUME CaptureInv, [CaptureNext \/ ConvertFirst]_<<captureVars, conversion>>
    PROVE  CaptureInv'
<1>1. CASE \E i \in 0..1 : Open(i)
  BY <1>1, OpenStep
<1>2. CASE Close
  BY <1>2, CloseStep
<1>3. CASE StartStream
  BY <1>3, StartStreamStep
<1>4. CASE \/ \E w \in Widths : SetWidth(w)
           \/ \E h \in Heights : SetHeight(h)
           \/ \E rate \in Rates : SetFps(rate)
           \/ \E f \in Formats : SetFormat(f)
  BY <1>4, SettingStep
<1>5. CASE \/ StopStream
           \/ \E p \in {"BGR", "GRAY"} : SetMode(p)
           \/ \E on \in 0..1 : Trigger(on)
           \/ \E p \in DOMAIN getRange, m \in 0..Grid : SetControl(p, m)
           \/ \E n \in Lengths : UpdatePackage(n)
  BY <1>5, PlainStep
<1>6. CASE ReadAsk \/ ReadGot
  BY <1>6, ReadStep
<1>7. CASE \E still \in BOOLEAN : Publish(still)
  BY <1>7, PublishStep
<1>8. CASE Store \/ StoreFails \/ StoreMjpeg
  BY <1>8, StoreStep
<1>9. CASE ConvertFirst \/ UNCHANGED <<captureVars, conversion>>
  <2>1. /\ obj' = obj /\ left' = left /\ clean' = clean /\ opens' = opens /\ pc' = pc
        /\ readFrame' = readFrame /\ cb' = cb /\ buffers' = buffers /\ held' = held
        /\ image' = image /\ stills' = stills /\ fault' = fault
    BY <1>9 DEF ConvertFirst, captureVars, objectVars, frameVars
  <2>2. Room' = Room
    BY <2>1 DEF Room, Announced
  <2>3. TypeOK'
    BY <2>1 DEF CaptureInv, TypeOK
  <2>4. ObjInv' /\ LeftInv' /\ FaultsExplained'
    BY <2>1 DEF CaptureInv, ObjInv, LeftInv, FaultsExplained
  <2>5. ReadInv'
    BY <2>1, <2>2 DEF CaptureInv, ReadInv
  <2> QED
    BY <2>3, <2>4, <2>5 DEF CaptureInv
<1> QED
  BY <1>1, <1>2, <1>3, <1>4, <1>5, <1>6, <1>7, <1>8, <1>9 DEF CaptureNext

LEMMA CaptureInvariant == CaptureSpec => []CaptureInv
<1>1. CaptureInit => CaptureInv
  BY CaptureInvInit
<1>2. CaptureInv /\ [CaptureNext \/ ConvertFirst]_<<captureVars, conversion>> => CaptureInv'
  BY CaptureStep
<1> QED
  BY <1>1, <1>2, PTL DEF CaptureSpec

\* What the capture object takes from libuvc it gives back once, whatever
\* settings fail in between: the destructor (~UVC4Linux, m_bInit) and the exit
\* of a rejected mode never take a count below what exists, nothing is left
\* behind by a camera that was opened and whose modes were all accepted, and
\* memory that is gone is used only in the known cases.
THEOREM CaptureObjectSound == CaptureSpec => []ObjectSound
<1>1. CaptureInv => ObjectSound
  BY DEF CaptureInv, LeftInv, ObjectSound, ReleasedOnClose, ExitedOnce
<1> QED
  BY <1>1, CaptureInvariant, PTL

\* SgCamera::read returns a frame that came after it asked (m_bReadFrame), and
\* copies no more than get() announced room for, unless it is a still image
\* that came after the trigger had been taken back.
THEOREM CaptureReadFits == CaptureSpec => []ReadFits
<1>1. CaptureInv => ReadFits
  BY DEF CaptureInv, ReadInv, ReadFits
<1> QED
  BY <1>1, CaptureInvariant, PTL

-----------------------------------------------------------------------------
(* Settings arrive as they were asked for: the size and the controls *)

\* In each table the heights differ, so the height alone decides.
LEMMA HeightDecides ==
    ASSUME NEW o, Sound(o), NEW h, NEW i \in 1..4, Dimensions[o.format][i][2] = h
    PROVE  Adjusted(o, 0, h) = [o EXCEPT !.size = Dimensions[o.format][i]]
<1> DEFINE table == Dimensions[o.format]
           fits == {k \in DOMAIN table : table[k][1] = 0 \/ table[k][2] = h}
<1>1. DOMAIN table = 1..4
  BY TablesOfSizes DEF Sound, Objects
<1>2. \A k \in 1..4 : table[k][1] # 0 /\ (table[k][2] = table[i][2] => k = i)
  <2>1. /\ Dimensions["MJPEG"] = << <<640, 480>>, <<320, 240>>, <<800, 600>>, <<1280, 720>> >>
        /\ Dimensions["YUYV"] = << <<1280, 720>>, <<640, 480>>, <<320, 240>>, <<800, 600>> >>
    BY DEF Dimensions
  <2>2. o.format = "MJPEG" \/ o.format = "YUYV"
    BY TablesOfSizes DEF Sound, Objects
  <2>3. i = 1 \/ i = 2 \/ i = 3 \/ i = 4
    OBVIOUS
  <2>4. ASSUME NEW k \in 1..4
        PROVE  table[k][1] # 0 /\ (table[k][2] = table[i][2] => k = i)
    <3>1. k = 1 \/ k = 2 \/ k = 3 \/ k = 4
      OBVIOUS
    <3>2. CASE o.format = "MJPEG"
      BY <2>1, <2>3, <3>1, <3>2
    <3>3. CASE o.format = "YUYV"
      BY <2>1, <2>3, <3>1, <3>3
    <3> QED
      BY <2>2, <3>2, <3>3
  <2> QED
    BY <2>4
<1>3. fits = {i}
  BY <1>1, <1>2
<1>4. (CHOOSE k \in fits : \A j \in fits : k <= j) = i
  BY <1>3
<1> QED
  BY <1>3, <1>4 DEF Adjusted

\* A restart changes neither the size nor the format it was called for.
LEMMA RestartKeeps ==
    ASSUME NEW o, Sound(o), Restarted(o)
    PROVE  obj'.size = o.size /\ obj'.format = o.format
<1>1. PICK n \in StreamOpened(StreamClosed(o)) : obj' = o \/ obj' = n
  BY DEF Restarted
<1>2. PICK c : c = StreamClosed(o)
  OBVIOUS
<1>3. Sound(c) /\ c.size = o.size /\ c.format = o.format
  BY <1>2, StreamClosedIs
<1>4. n \in {c, Rejected(c), Started(c)}
  BY <1>1, <1>2 DEF StreamOpened
<1>5. n.size = c.size /\ n.format = c.format
  BY <1>3, <1>4 DEF Rejected, Started, Sound, Objects
<1> QED
  BY <1>1, <1>3, <1>5

LEMMA SizeStep ==
    ASSUME CaptureInv, SizeAsAsked,
           [CaptureNext \/ ConvertFirst]_<<captureVars, conversion>>
    PROVE  SizeAsAsked'
<1>1. ASSUME NEW f \in Formats, NEW i \in 1..4
      PROVE  Dimensions[f][i][1] # 0 /\ Dimensions[f][i][2] # 0
  <2>1. /\ Dimensions["MJPEG"] = << <<640, 480>>, <<320, 240>>, <<800, 600>>, <<1280, 720>> >>
        /\ Dimensions["YUYV"] = << <<1280, 720>>, <<640, 480>>, <<320, 240>>, <<800, 600>> >>
    BY DEF Dimensions
  <2>2. i = 1 \/ i = 2 \/ i = 3 \/ i = 4
    OBVIOUS
  <2>3. f = "MJPEG" \/ f = "YUYV"
    BY TablesOfSizes
  <2> QED
    BY <2>1, <2>2, <2>3
<1>2. obj'.alive => obj'.format \in Formats
  <2>1. ObjInv'
    BY CaptureStep DEF CaptureInv
  <2>2. obj' = [alive |-> FALSE] \/ obj' \in Objects
    BY <2>1 DEF ObjInv, Sound, Gone
  <2>3. CASE obj' \in Objects
    <3>1. PICK o \in Objects : o = obj'
      BY <2>3
    <3>2. o.format \in Formats
      BY DEF Objects
    <3> QED
      BY <3>1, <3>2
  <2> QED
    BY <2>2, <2>3
<1>3. CASE asked'[2] = 0
  BY <1>1, <1>2, <1>3 DEF SizeAsAsked
<1>4. CASE \E h \in Heights : SetHeight(h)
  <2>1. PICK h \in Heights : SetHeight(h)
    BY <1>4
  <2>2. obj.alive /\ Restarted(Adjusted(obj, 0, h)) /\ asked' = <<asked[1], h>>
    BY <2>1 DEF SetHeight, MaySet
  <2>3. Sound(obj)
    BY <2>2 DEF CaptureInv, ObjInv, Gone
  <2>4. PICK o : o = Adjusted(obj, 0, h)
    OBVIOUS
  <2>5. PICK s \in Nat \X Nat : o = [obj EXCEPT !.size = s]
    BY <2>3, <2>4, AdjustedIs
  <2>6. Sound(o) /\ o.format = obj.format
    BY <2>3, <2>5 DEF Sound, Objects
  <2>7. Restarted(o)
    BY <2>2, <2>4
  <2>8. obj'.size = o.size /\ obj'.format = obj.format
    BY <2>6, <2>7, RestartKeeps
  <2>9. ASSUME NEW i \in 1..4, Dimensions[obj'.format][i] = asked'
        PROVE  obj'.size = asked'
    <3>1. Dimensions[obj.format][i][2] = h
      BY <2>2, <2>8, <2>9
    <3>2. o = [obj EXCEPT !.size = Dimensions[obj.format][i]]
      BY <2>3, <2>4, <3>1, HeightDecides
    <3> QED
      BY <2>3, <2>8, <2>9, <3>2 DEF Sound, Objects
  <2> QED
    BY <2>9 DEF SizeAsAsked
<1>5. CASE UNCHANGED objectVars
  BY <1>5 DEF SizeAsAsked, objectVars
<1>6. \/ asked'[2] = 0
      \/ \E h \in Heights : SetHeight(h)
      \/ UNCHANGED objectVars
  <2>1. CASE UNCHANGED <<captureVars, conversion>> \/ ConvertFirst
    BY <2>1 DEF captureVars, ConvertFirst
  <2>2. CASE CaptureNext
    <3>1. CASE \E i \in 0..1 : Open(i)
      <4>1. asked' = <<0, 0>>
        BY <3>1 DEF Open
      <4> QED
        BY <4>1
    <3>5. CASE Close \/ StartStream \/ StopStream
      <4>1. asked' = <<0, 0>>
        BY <3>5 DEF Close, StartStream, StopStream
      <4> QED
        BY <4>1
    <3>2. CASE \/ \E w \in Widths : SetWidth(w)
               \/ \E rate \in Rates : SetFps(rate)
               \/ \E f \in Formats : SetFormat(f)
               \/ \E p \in {"BGR", "GRAY"} : SetMode(p)
      <4>1. asked' = <<0, 0>> \/ \E w : asked' = <<w, 0>>
        BY <3>2 DEF SetWidth, SetFps, SetFormat, SetMode
      <4> QED
        BY <4>1
    <3>3. CASE \/ \E on \in 0..1 : Trigger(on)
               \/ \E p \in DOMAIN getRange, m \in 0..Grid : SetControl(p, m)
               \/ \E n \in Lengths : UpdatePackage(n)
      BY <3>3 DEF Trigger, SetControl, UpdatePackage
    <3>4. CASE \/ ReadAsk \/ ReadGot
               \/ \E still \in BOOLEAN : Publish(still)
               \/ Store \/ StoreFails \/ StoreMjpeg
      BY <3>4 DEF ReadAsk, ReadGot, Publish, Store, StoreFails, StoreMjpeg
    <3> QED
      BY <2>2, <3>1, <3>2, <3>3, <3>4, <3>5 DEF CaptureNext
  <2> QED
    BY <2>1, <2>2
<1> QED
  BY <1>3, <1>4, <1>5, <1>6

\* Truncation loses less than one.
LEMMA TruncatedNear ==
    ASSUME NEW num \in Int, NEW den \in Nat \ {0}
    PROVE  /\ Truncated(num, den) \in Int
           /\ Truncated(num, den) * den - num < den
           /\ num - Truncated(num, den) * den < den
<1>1. ASSUME NEW n \in Nat
      PROVE  /\ n \div den \in Nat
             /\ (n \div den) * den <= n /\ n < (n \div den) * den + den
  OBVIOUS
<1>2. CASE num >= 0
  <2>1. PICK q \in Nat : q = num \div den
    BY <1>1, <1>2
  <2>2. q * den <= num /\ num < q * den + den /\ q * den \in Int
    BY <1>1, <1>2, <2>1
  <2> QED
    BY <1>2, <2>1, <2>2 DEF Truncated
<1>3. CASE num < 0
  <2>1. PICK q \in Nat : q = (-num) \div den
    BY <1>1, <1>3
  <2>2. q * den <= -num /\ -num < q * den + den /\ q * den \in Int
    BY <1>1, <1>3, <2>1
  <2>3. Truncated(num, den) = -q /\ (-q) * den = -(q * den)
    BY <1>3, <2>1 DEF Truncated
  <2> QED
    BY <2>2, <2>3
<1> QED
  BY <1>2, <1>3

LEMMA TimesMonotone ==
    ASSUME NEW a \in Int, NEW b \in Int, NEW d \in Nat, a <= b
    PROVE  a * d <= b * d
<1>1. PICK k \in Nat : b = a + k
  OBVIOUS
<1>2. b * d = a * d + k * d /\ k * d \in Nat /\ a * d \in Int
  BY <1>1
<1> QED
  BY <1>2

\* A value between two integers is truncated to one between them.
LEMMA TruncatedBetween ==
    ASSUME NEW lo \in Int, NEW hi \in Int, NEW num \in Int, NEW den \in Nat \ {0},
           lo * den <= num, num <= hi * den
    PROVE  lo <= Truncated(num, den) /\ Truncated(num, den) <= hi
<1>1. PICK v \in Int : v = Truncated(num, den)
  BY TruncatedNear
<1>2. v * den - num < den /\ num - v * den < den
  BY <1>1, TruncatedNear
<1>3. v >= lo
  <2> SUFFICES ASSUME v <= lo - 1 PROVE FALSE
    OBVIOUS
  <2>1. v * den <= (lo - 1) * den /\ (lo - 1) * den = lo * den - den
    BY TimesMonotone
  <2> QED
    BY <1>2, <2>1
<1>4. v <= hi
  <2> SUFFICES ASSUME hi + 1 <= v PROVE FALSE
    OBVIOUS
  <2>1. (hi + 1) * den <= v * den /\ (hi + 1) * den = hi * den + den
    BY TimesMonotone
  <2> QED
    BY <1>2, <2>1
<1> QED
  BY <1>1, <1>3, <1>4

\* A fraction of the range of a property is scaled to a value of the range,
\* within a step of what was asked.
LEMMA ScaledRight ==
    ASSUME NEW p \in DOMAIN getRange, NEW m \in 0..Grid
    PROVE  /\ getRange[p][1] <= Scaled(p, m) /\ Scaled(p, m) <= getRange[p][2]
           /\ p # "AUTO_EXPOSURE" =>
                LET off == Answered(p, Scaled(p, m)) * Grid - m * RangeSize(p)
                IN  -Grid < off /\ off < Grid
<1>1. Grid \in Nat \ {0}
  BY CaptureAssumption DEF CaptureAssumption
<1>2. /\ getRange[p][1] \in Int /\ getRange[p][2] \in Int
      /\ getRange[p][1] <= getRange[p][2]
  BY DEF getRange
<1>3. CASE p = "AUTO_EXPOSURE"
  BY <1>3 DEF Scaled, getRange
<1>4. CASE p # "AUTO_EXPOSURE"
  <2>1. PICK lo \in Int, hi \in Int :
           lo = getRange[p][1] /\ hi = getRange[p][2] /\ lo <= hi
    BY <1>2
  <2>2. PICK num \in Int : num = m * (hi - lo) + lo * Grid
    BY <1>1
  <2>3. Scaled(p, m) = Truncated(num, Grid) /\ RangeSize(p) = hi - lo
    BY <1>4, <2>1, <2>2 DEF Scaled, RangeSize
  <2>4. lo * Grid <= num /\ num <= hi * Grid
    <3>1. 0 <= m * (hi - lo)
      BY <1>1, <2>1
    <3>2. m * (hi - lo) <= Grid * (hi - lo)
      BY <1>1, <2>1, TimesMonotone
    <3>3. Grid * (hi - lo) = hi * Grid - lo * Grid
      BY <1>1
    <3> QED
      BY <1>1, <2>2, <3>1, <3>2, <3>3
  <2>5. PICK v \in Int : v = Truncated(num, Grid)
    BY <1>1, TruncatedNear
  <2>6. lo <= v /\ v <= hi
    BY <1>1, <2>4, <2>5, TruncatedBetween
  <2>7. v * Grid - num < Grid /\ num - v * Grid < Grid
    BY <1>1, <2>5, TruncatedNear
  <2>8. Answered(p, v) = v - lo
    BY <1>4, <2>1, <2>6 DEF Answered
  <2>9. (v - lo) * Grid - m * (hi - lo) = v * Grid - num
    BY <1>1, <2>2
  <2> QED
    BY <1>1, <2>1, <2>3, <2>5, <2>6, <2>7, <2>8, <2>9
<1> QED
  BY <1>3, <1>4

LEMMA ControlStep ==
    ASSUME ControlAsAsked, [CaptureNext \/ ConvertFirst]_<<captureVars, conversion>>
    PROVE  ControlAsAsked'
<1>1. CASE last' = last
  BY <1>1 DEF ControlAsAsked, Answered
<1>2. CASE last'.call # "control"
  BY <1>2 DEF ControlAsAsked
<1>3. CASE \E p \in DOMAIN getRange, m \in 0..Grid : SetControl(p, m)
  <2>1. PICK p \in DOMAIN getRange, m \in 0..Grid : SetControl(p, m)
    BY <1>3
  <2>2. \/ last' = Nothing
        \/ last' = [call |-> "control", prop |-> p, asked |-> m, value |-> Scaled(p, m)]
    BY <2>1 DEF SetControl
  <2>3. CASE last' = Nothing
    BY <2>3 DEF ControlAsAsked, Nothing
  <2>4. CASE last' = [call |-> "control", prop |-> p, asked |-> m, value |-> Scaled(p, m)]
    BY <2>4, ScaledRight DEF ControlAsAsked
  <2> QED
    BY <2>2, <2>3, <2>4
<1>4. \/ last' = last \/ last'.call # "control"
      \/ \E p \in DOMAIN getRange, m \in 0..Grid : SetControl(p, m)
  <2>1. CASE UNCHANGED <<captureVars, conversion>> \/ ConvertFirst
    BY <2>1 DEF captureVars, ConvertFirst
  <2>2. CASE \/ \E i \in 0..1 : Open(i)
             \/ Close \/ StartStream \/ StopStream
    <3>1. last' = Nothing
      BY <2>2 DEF Open, Close, StartStream, StopStream
    <3> QED
      BY <3>1 DEF Nothing
  <2>3. CASE \/ \E w \in Widths : SetWidth(w)
             \/ \E h \in Heights : SetHeight(h)
             \/ \E rate \in Rates : SetFps(rate)
             \/ \E f \in Formats : SetFormat(f)
             \/ \E p \in {"BGR", "GRAY"} : SetMode(p)
             \/ \E on \in 0..1 : Trigger(on)
    <3>1. last' = Nothing
      BY <2>3 DEF SetWidth, SetHeight, SetFps, SetFormat, SetMode, Trigger
    <3> QED
      BY <3>1 DEF Nothing
  <2>4. CASE \E n \in Lengths : UpdatePackage(n)
    BY <2>4 DEF UpdatePackage, Nothing
  <2>5. CASE \/ ReadAsk \/ ReadGot
             \/ \E still \in BOOLEAN : Publish(still)
             \/ Store \/ StoreFails \/ StoreMjpeg
    BY <2>5 DEF ReadAsk, ReadGot, Publish, Store, StoreFails, StoreMjpeg
  <2> QED
    BY <2>1, <2>2, <2>3, <2>4, <2>5 DEF CaptureNext
<1> QED
  BY <1>1, <1>2, <1>3, <1>4

-----------------------------------------------------------------------------
(* Updates arrive whole *)

\* The piece that is sent while "rest" bytes are left, and all pieces from there
PieceAt(length, rest) ==
    LET size == IF rest >= Piece THEN Piece ELSE rest
    IN  [from |-> length - rest, size |-> size, end |-> rest - size <= 0]
PiecesFrom(length, rest) ==
    [i \in 1..((rest + 28) \div 29) |-> PieceAt(length, rest - 29 * (i - 1))]

\* One round of the loop sends the first of them.
LEMMA FirstPiece ==
    ASSUME NEW length, NEW rest \in Nat \ {0},
           NEW size, size = IF rest >= Piece THEN Piece ELSE rest
    PROVE  PiecesFrom(length, rest)
             = <<PieceAt(length, rest)>> \o PiecesFrom(length, rest - size)
<1> DEFINE n == (rest - size + 28) \div 29
           S == {PieceAt(length, k) : k \in Int}
           tail == PiecesFrom(length, rest - size)
           whole == PiecesFrom(length, rest)
           first == <<PieceAt(length, rest)>>
<1>1. /\ size \in 1..29 /\ rest - size \in Nat /\ n \in Nat
      /\ (rest + 28) \div 29 = n + 1
      /\ size = 29 \/ n = 0
  BY DEF Piece
<1>2. tail \in Seq(S) /\ Len(tail) = n
  <2>1. tail = [i \in 1..n |-> PieceAt(length, (rest - size) - 29 * (i - 1))]
    BY DEF PiecesFrom
  <2>2. \A i \in 1..n : PieceAt(length, (rest - size) - 29 * (i - 1)) \in S
    BY <1>1
  <2> HIDE DEF S, tail, n
  <2> QED
    BY <1>1, <2>1, <2>2
<1>3. whole \in Seq(S) /\ Len(whole) = n + 1
  <2>1. whole = [i \in 1..(n + 1) |-> PieceAt(length, rest - 29 * (i - 1))]
    BY <1>1 DEF PiecesFrom
  <2>2. \A i \in 1..(n + 1) : PieceAt(length, rest - 29 * (i - 1)) \in S
    BY <1>1
  <2> HIDE DEF S, whole, n
  <2> QED
    BY <1>1, <2>1, <2>2
<1>4. first \in Seq(S) /\ Len(first) = 1 /\ first[1] = PieceAt(length, rest)
  OBVIOUS
<1>5. ASSUME NEW i \in 1..(n + 1) PROVE whole[i] = (first \o tail)[i]
  <2>1. whole[i] = PieceAt(length, rest - 29 * (i - 1))
    BY <1>1, <1>5 DEF PiecesFrom
  <2>2. CASE i = 1
    <3>1. rest - 29 * (i - 1) = rest
      BY <2>2
    <3>2. (first \o tail)[i] = first[1]
      BY <1>2, <1>4, <2>2, ConcatProperties
    <3> QED
      BY <1>4, <2>1, <3>1, <3>2
  <2>3. CASE i # 1
    <3>1. i - 1 \in 1..n /\ size = 29
      BY <1>1, <2>3
    <3>2. (first \o tail)[i] = tail[i - 1]
      BY <1>1, <1>2, <1>4, <2>3, <3>1, ConcatProperties
    <3>3. tail[i - 1] = PieceAt(length, (rest - size) - 29 * ((i - 1) - 1))
      BY <3>1 DEF PiecesFrom
    <3>4. (rest - size) - 29 * ((i - 1) - 1) = rest - 29 * (i - 1)
      BY <1>1, <3>1
    <3> QED
      BY <2>1, <3>2, <3>3, <3>4
  <2> QED
    BY <2>2, <2>3
<1>6. first \o tail \in Seq(S) /\ Len(first \o tail) = n + 1
  BY <1>1, <1>2, <1>4, ConcatProperties
<1> HIDE DEF S, tail, whole, first, n
<1>7. whole = first \o tail
  BY <1>3, <1>5, <1>6, SeqEqual
<1> QED
  BY <1>7 DEF whole, first, tail

\* The loop sends the pieces in closed form: both are functions that satisfy the
\* recursion, and the smallest rest at which they could differ does not exist.
LEMMA PiecesAre == ASSUME NEW length \in Nat PROVE Pieces(length) = PiecesFrom(length, length)
<1> DEFINE Sent(s, rest) ==
               IF rest = 0 THEN <<>>
               ELSE LET size == IF rest >= Piece THEN Piece ELSE rest
                    IN  <<[from |-> length - rest, size |-> size, end |-> rest - size <= 0]>>
                        \o s[rest - size]
           send == CHOOSE s : s = [rest \in 0..length |-> Sent(s, rest)]
           closed == [rest \in 0..length |-> PiecesFrom(length, rest)]
<1>1. Pieces(length) = send[length]
  BY DEF Pieces
<1>2. ASSUME NEW s, NEW rest \in 1..length
      PROVE  /\ Sent(s, rest) = <<PieceAt(length, rest)>>
                                \o s[rest - (IF rest >= Piece THEN Piece ELSE rest)]
             /\ rest - (IF rest >= Piece THEN Piece ELSE rest) \in 0..length
             /\ rest - (IF rest >= Piece THEN Piece ELSE rest) < rest
  BY DEF PieceAt, Piece
<1>3. PiecesFrom(length, 0) = <<>>
  BY DEF PiecesFrom
<1>4. ASSUME NEW rest \in 0..length PROVE PiecesFrom(length, rest) = Sent(closed, rest)
  <2>1. CASE rest = 0
    BY <1>3, <2>1
  <2>2. CASE rest # 0
    <3>1. PICK size : size = IF rest >= Piece THEN Piece ELSE rest
      OBVIOUS
    <3>2. rest \in 1..length /\ rest \in Nat \ {0}
      BY <2>2
    <3>3. Sent(closed, rest) = <<PieceAt(length, rest)>> \o closed[rest - size]
      BY <1>2, <3>1, <3>2
    <3>4. closed[rest - size] = PiecesFrom(length, rest - size)
      BY <1>2, <3>1, <3>2
    <3>5. PiecesFrom(length, rest)
            = <<PieceAt(length, rest)>> \o PiecesFrom(length, rest - size)
      BY <3>1, <3>2, FirstPiece
    <3> HIDE DEF Sent, closed
    <3> QED
      BY <3>3, <3>4, <3>5
  <2> QED
    BY <2>1, <2>2
<1>5. closed = [rest \in 0..length |-> Sent(closed, rest)]
  BY <1>4
<1>6. send = [rest \in 0..length |-> Sent(send, rest)]
  BY <1>5
<1> HIDE DEF send
<1> DEFINE T == {rest \in 0..length : send[rest] # PiecesFrom(length, rest)}
<1>7. T = {}
  <2> SUFFICES ASSUME T # {} PROVE FALSE
    OBVIOUS
  <2>1. PICK r \in T : \A k \in T : r <= k
    <3>1. T \in SUBSET Nat
      OBVIOUS
    <3> QED
      BY <3>1, MinExists
  <2>2. r \in 0..length /\ send[r] = Sent(send, r)
    BY <1>6
  <2>3. CASE r = 0
    BY <1>3, <2>1, <2>2, <2>3
  <2>4. CASE r # 0
    <3>1. PICK size : size = IF r >= Piece THEN Piece ELSE r
      OBVIOUS
    <3>2. r \in 1..length /\ r \in Nat \ {0}
      BY <2>2, <2>4
    <3>3. send[r] = <<PieceAt(length, r)>> \o send[r - size]
      BY <1>2, <2>2, <3>1, <3>2
    <3>4. r - size \in 0..length /\ r - size < r
      BY <1>2, <3>1, <3>2
    <3>5. send[r - size] = PiecesFrom(length, r - size)
      BY <2>1, <3>4
    <3>6. send[r] = PiecesFrom(length, r)
      BY <3>1, <3>2, <3>3, <3>5, FirstPiece
    <3> QED
      BY <2>1, <3>6
  <2> QED
    BY <2>3, <2>4
<1> QED
  BY <1>1, <1>7

LEMMA PieceIs ==
    ASSUME NEW length \in Nat, NEW i \in 1..((length + 28) \div 29)
    PROVE  /\ Pieces(length)[i].from = 29 * (i - 1)
           /\ Pieces(length)[i].size = IF i < (length + 28) \div 29 THEN 29
                                       ELSE length - 29 * (i - 1)
           /\ Pieces(length)[i].end <=>
                 Pieces(length)[i].from + Pieces(length)[i].size = length
           /\ i = (length + 28) \div 29 => Pieces(length)[i].end
<1>1. PICK rest \in Nat : rest = length - 29 * (i - 1)
  OBVIOUS
<1>2. PICK size \in Nat : size = IF rest >= Piece THEN Piece ELSE rest
  BY DEF Piece
<1>3. Pieces(length)[i] = PieceAt(length, rest)
  <2>1. PiecesFrom(length, length)[i] = PieceAt(length, rest)
    BY <1>1 DEF PiecesFrom
  <2> QED
    BY <2>1, PiecesAre
<1>4. /\ PieceAt(length, rest).from = length - rest /\ PieceAt(length, rest).size = size
      /\ PieceAt(length, rest).end <=> rest - size <= 0
  BY <1>2 DEF PieceAt
<1>5. size = (IF i < (length + 28) \div 29 THEN 29 ELSE rest) /\ size <= rest
  BY <1>1, <1>2 DEF Piece
<1> QED
  BY <1>1, <1>3, <1>4, <1>5

LEMMA UpdateStep ==
    ASSUME UpdateWhole, [CaptureNext \/ ConvertFirst]_<<captureVars, conversion>>
    PROVE  UpdateWhole'
<1>1. CASE last' = last
  BY <1>1 DEF UpdateWhole
<1>2. CASE last'.call # "update"
  BY <1>2 DEF UpdateWhole
<1>3. CASE \E length \in Lengths : UpdatePackage(length)
  <2>1. PICK length \in Lengths : UpdatePackage(length)
    BY <1>3
  <2>2. length \in Nat
    BY CaptureAssumption DEF CaptureAssumption
  <2>3. PICK sent \in 0..Len(Pieces(length)) :
           last' = IF obj.ctx = "gone" THEN Nothing
                   ELSE [call |-> "update", length |-> length,
                         sent |-> SubSeq(Pieces(length), 1, sent),
                         whole |-> sent = Len(Pieces(length)), ret |-> length > 0]
    BY <2>1 DEF UpdatePackage
  <2>4. PICK n \in Nat : n = (length + 28) \div 29
    BY <2>2
  <2>5. Pieces(length) = [i \in 1..n |-> PieceAt(length, length - 29 * (i - 1))]
    BY <2>2, <2>4, PiecesAre DEF PiecesFrom
  <2>6. Len(Pieces(length)) = n /\ sent \in 0..n
    BY <2>3, <2>4, <2>5
  <2>7. CASE last' = Nothing
    BY <2>7 DEF UpdateWhole, Nothing
  <2>8. CASE last' = [call |-> "update", length |-> length,
                      sent |-> SubSeq(Pieces(length), 1, sent),
                      whole |-> sent = Len(Pieces(length)), ret |-> length > 0]
    <3>1. /\ last'.length = length /\ last'.sent = SubSeq(Pieces(length), 1, sent)
          /\ last'.whole => sent = n
      BY <2>6, <2>8
    <3>2. DOMAIN last'.sent = 1..sent /\ Len(last'.sent) = sent
      BY <2>6, <3>1
    <3>0. PICK P : P = Pieces(length)
      OBVIOUS
    <3>3. \A i \in 1..sent : last'.sent[i] = P[i]
      BY <2>6, <3>0, <3>1
    <3>6. ASSUME NEW i \in 1..n
          PROVE  /\ P[i].from = 29 * (i - 1) /\ (i < n => P[i].size = 29)
                 /\ P[i].end <=> P[i].from + P[i].size = length
                 /\ i = n => P[i].end
      <4>1. i \in 1..((length + 28) \div 29)
        BY <2>4
      <4> QED
        BY <2>2, <2>4, <3>0, <4>1, PieceIs
    <3>4. ASSUME NEW i \in 1..sent
          PROVE  /\ last'.sent[i].from = IF i = 1 THEN 0
                                         ELSE last'.sent[i - 1].from + last'.sent[i - 1].size
                 /\ last'.sent[i].end <=> last'.sent[i].from + last'.sent[i].size = length
      <4>1. i \in 1..n /\ (i # 1 => i - 1 \in 1..n /\ i - 1 \in 1..sent /\ i - 1 < n)
        BY <2>6
      <4>2. CASE i = 1
        BY <3>3, <3>6, <4>1, <4>2
      <4>3. CASE i # 1
        <5>1. /\ last'.sent[i].from = 29 * (i - 1)
              /\ last'.sent[i].end <=> last'.sent[i].from + last'.sent[i].size = length
          BY <3>3, <3>6, <4>1
        <5>2. PICK j \in 1..n : j = i - 1 /\ j < n
          BY <4>1, <4>3
        <5>3. last'.sent[j].from = 29 * (j - 1) /\ last'.sent[j].size = 29
          BY <3>3, <3>6, <4>1, <4>3, <5>2
        <5> QED
          BY <4>3, <5>1, <5>2, <5>3
      <4> QED
        BY <4>2, <4>3
    <3>5. ASSUME sent = n, length > 0 PROVE last'.sent[sent].end
      <4>1. n \in 1..n
        BY <2>2, <2>4, <3>5
      <4> QED
        BY <3>3, <3>5, <3>6, <4>1
    <3> QED
      BY <3>1, <3>2, <3>4, <3>5 DEF UpdateWhole
  <2> QED
    BY <2>3, <2>7, <2>8
<1>4. \/ last' = last \/ last'.call # "update"
      \/ \E length \in Lengths : UpdatePackage(length)
  <2>1. CASE UNCHANGED <<captureVars, conversion>> \/ ConvertFirst
    BY <2>1 DEF captureVars, ConvertFirst
  <2>2. CASE \/ \E i \in 0..1 : Open(i)
             \/ Close \/ StartStream \/ StopStream
    <3>1. last' = Nothing
      BY <2>2 DEF Open, Close, StartStream, StopStream
    <3> QED
      BY <3>1 DEF Nothing
  <2>3. CASE \/ \E w \in Widths : SetWidth(w)
             \/ \E h \in Heights : SetHeight(h)
             \/ \E rate \in Rates : SetFps(rate)
             \/ \E f \in Formats : SetFormat(f)
             \/ \E p \in {"BGR", "GRAY"} : SetMode(p)
             \/ \E on \in 0..1 : Trigger(on)
    <3>1. last' = Nothing
      BY <2>3 DEF SetWidth, SetHeight, SetFps, SetFormat, SetMode, Trigger
    <3> QED
      BY <3>1 DEF Nothing
  <2>4. CASE \E p \in DOMAIN getRange, m \in 0..Grid : SetControl(p, m)
    BY <2>4 DEF SetControl, Nothing
  <2>5. CASE \/ ReadAsk \/ ReadGot
             \/ \E still \in BOOLEAN : Publish(still)
             \/ Store \/ StoreFails \/ StoreMjpeg
    BY <2>5 DEF ReadAsk, ReadGot, Publish, Store, StoreFails, StoreMjpeg
  <2> QED
    BY <2>1, <2>2, <2>3, <2>4, <2>5 DEF CaptureNext
<1> QED
  BY <1>1, <1>2, <1>3, <1>4

\* Settings arrive as they were asked for: the width and then the height of a
\* size of the table select exactly it (AdjustParam, called once for each), a
\* control is set to a value of its range within a step of what was asked and
\* read back as that (icvSetPropertyCAM_V4L, icvGetPropertyCAM_V4L), and the
\* pieces of an update of any length are the data, whole and in order.
THEOREM CaptureSettingsAsAsked == CaptureSpec => []SettingsAsAsked
<1>1. CaptureInit => SettingsAsAsked
  BY DEF CaptureInit, Gone, Nothing, SettingsAsAsked, SizeAsAsked, ControlAsAsked, UpdateWhole
<1>2. /\ CaptureInv /\ SettingsAsAsked
      /\ [CaptureNext \/ ConvertFirst]_<<captureVars, conversion>>
      => SettingsAsAsked'
  BY SizeStep, ControlStep, UpdateStep DEF SettingsAsAsked
<1> QED
  BY <1>1, <1>2, CaptureInvariant, PTL DEF CaptureSpec

-----------------------------------------------------------------------------
(* Conversions of frames (UvcFrame) *)

\* What the loops put at position k of an image in colour
PixelByte(from, to, k) ==
    LET group == 4 * (k \div 6)
        part == Layout(from)
    IN  Byte(<<group + part.y[1 + ((k \div 3) % 2)], group + part.u, group + part.v>>,
             Order(to)[1 + (k % 3)])

LEMMA LayoutBytes ==
    ASSUME NEW from
    PROVE  /\ Layout(from).u \in 0..3 /\ Layout(from).v \in 0..3
           /\ Layout(from).y[1] \in 0..3 /\ Layout(from).y[2] \in 0..3
  BY DEF Layout

\* Eight pixels are four groups of two, each computed from its own four bytes.
LEMMA EightPixelsPaired ==
    ASSUME NEW from, NEW to, NEW p \in Nat, NEW q \in Nat, NEW j \in 0..23
    PROVE  EightPixels(from, to, p, q)[q + j]
             = TwoPixels(from, to, p + 4 * (j \div 6), q + 6 * (j \div 6))[q + j]
<1>1. EightPixels(from, to, p, q)[q + j] =
        IF j < 12 THEN FourPixels(from, to, p, q)[q + j]
                  ELSE FourPixels(from, to, p + 8, q + 12)[q + j]
  BY DEF EightPixels
<1>2. CASE j \in 0..5
  <2>1. FourPixels(from, to, p, q)[q + j] = TwoPixels(from, to, p, q)[q + j]
    BY <1>2 DEF FourPixels
  <2>2. p + 4 * (j \div 6) = p /\ q + 6 * (j \div 6) = q
    BY <1>2
  <2> QED
    BY <1>1, <1>2, <2>1, <2>2
<1>3. CASE j \in 6..11
  <2>1. FourPixels(from, to, p, q)[q + j] = TwoPixels(from, to, p + 4, q + 6)[q + j]
    BY <1>3 DEF FourPixels
  <2>2. p + 4 * (j \div 6) = p + 4 /\ q + 6 * (j \div 6) = q + 6
    BY <1>3
  <2> QED
    BY <1>1, <1>3, <2>1, <2>2
<1>4. CASE j \in 12..17
  <2>1. FourPixels(from, to, p + 8, q + 12)[q + j] = TwoPixels(from, to, p + 8, q + 12)[q + j]
    BY <1>4 DEF FourPixels
  <2>2. p + 4 * (j \div 6) = p + 8 /\ q + 6 * (j \div 6) = q + 12
    BY <1>4
  <2> QED
    BY <1>1, <1>4, <2>1, <2>2
<1>5. CASE j \in 18..23
  <2>1. FourPixels(from, to, p + 8, q + 12)[q + j]
          = TwoPixels(from, to, p + 8 + 4, q + 12 + 6)[q + j]
    BY <1>5 DEF FourPixels
  <2>2. p + 4 * (j \div 6) = p + 8 + 4 /\ q + 6 * (j \div 6) = q + 12 + 6
    BY <1>5
  <2> QED
    BY <1>1, <1>5, <2>1, <2>2
<1> QED
  BY <1>2, <1>3, <1>4, <1>5

\* The loop of a conversion to colour, whatever the length of the output
LEMMA ColoringAt ==
    ASSUME NEW from, NEW to, NEW bytes \in Nat, NEW k \in 0..(24 * Rounds(bytes) - 1)
    PROVE  Coloring(from, to, bytes)[k] = PixelByte(from, to, k)
<1>1. Rounds(bytes) \in Nat
  BY DEF Rounds
<1>2. PICK a \in Nat, j \in 0..23 : k = 24 * a + j /\ a = k \div 24
  BY <1>1
<1>3. Coloring(from, to, bytes)[k] = EightPixels(from, to, 16 * a, 24 * a)[24 * a + j]
  BY <1>2 DEF Coloring
<1>4. PICK g \in 0..3 : g = j \div 6
  OBVIOUS
<1>5. Coloring(from, to, bytes)[k]
        = TwoPixels(from, to, 16 * a + 4 * g, 24 * a + 6 * g)[24 * a + j]
  <2>1. PICK p \in Nat, q \in Nat : p = 16 * a /\ q = 24 * a
    BY <1>2
  <2>2. EightPixels(from, to, p, q)[q + j] = TwoPixels(from, to, p + 4 * g, q + 6 * g)[q + j]
    <3>1. EightPixels(from, to, p, q)[q + j]
            = TwoPixels(from, to, p + 4 * (j \div 6), q + 6 * (j \div 6))[q + j]
      BY EightPixelsPaired
    <3> QED
      BY <1>4, <3>1
  <2> QED
    BY <1>3, <2>1, <2>2
<1>6. 24 * a + j \in (24 * a + 6 * g)..((24 * a + 6 * g) + 5)
  BY <1>4
<1>7. /\ (24 * a + j) - (24 * a + 6 * g) = j - 6 * g
      /\ (j - 6 * g) \div 3 = (k \div 3) % 2
      /\ (j - 6 * g) % 3 = k % 3
      /\ 16 * a + 4 * g = 4 * (k \div 6)
  BY <1>2, <1>4
<1> QED
  BY <1>5, <1>6, <1>7 DEF TwoPixels, PixelByte

-----------------------------------------------------------------------------
(* What a conversion leaves *)

Frames == [owned : BOOLEAN, data : BOOLEAN, bytes : Nat, size : Nat \X Nat,
           format : Packed \cup Coloured \cup {"MJPEG", "GRAY8", "unknown"}]
Targets == Coloured \cup {"Y", "UV"}
Needed(in, to) == Pixels(in.size) * (IF to \in Coloured THEN 3 ELSE 1)

RightFor(in, to, frame, made) ==
    /\ frame.size = in.size
    /\ frame.bytes >= Needed(in, to)
    /\ \A k \in 0..(Needed(in, to) - 1) : made[k] = Ideal(in, to, k)

InsideFor(in, given, frame, made) ==
    Pixels(in.size) % 8 = 0 /\ given.owned =>
        \A k \in DOMAIN made :
            /\ k \in 0..(frame.bytes - 1)
            /\ \A i \in DOMAIN made[k].from : made[k].from[i] < in.bytes

LEMMA InputsAreFrames ==
    ASSUME NEW in \in Inputs
    PROVE  /\ in \in Frames /\ in.bytes = BytesOf(in.format, in.size)
           /\ Pixels(in.size) \in Nat
           /\ in.format \in Packed \cup Coloured \cup {"MJPEG"}
<1>1. PICK f \in Packed \cup Coloured \cup {"MJPEG"}, s \in Sizes :
         in = [owned |-> TRUE, data |-> TRUE, bytes |-> BytesOf(f, s), size |-> s, format |-> f]
  BY DEF Inputs
<1>2. s \in Nat \X Nat
  BY FrameAssumption DEF FrameAssumption
<1>3. PICK n \in Nat : n = Pixels(s)
  BY <1>2 DEF Pixels
<1>4. BytesOf(f, s) \in Nat
  BY <1>3 DEF BytesOf
<1> QED
  BY <1>1, <1>2, <1>3, <1>4 DEF Frames

LEMMA OutputsAreFrames ==
    ASSUME NEW in \in Inputs, NEW out \in Outputs(in)
    PROVE  out \in Frames
<1>1. PICK n \in Nat : n = Pixels(in.size)
  BY InputsAreFrames
<1>2. BytesOf("RGB", in.size) = 3 * n
  BY <1>1 DEF BytesOf, Packed, Coloured
<1>3. Spare \in Nat
  BY FrameAssumption DEF FrameAssumption
<1>4. n > 0
  <2>1. in.size \in Sizes
    BY DEF Inputs
  <2>2. in.size \in (Nat \ {0}) \X (Nat \ {0})
    BY <2>1, FrameAssumption DEF FrameAssumption
  <2>3. PICK a \in Nat \ {0}, b \in Nat \ {0} : in.size = <<a, b>>
    BY <2>2
  <2>4. a * b > 0
    OBVIOUS
  <2> QED
    BY <1>1, <2>3, <2>4 DEF Pixels
<1>5. PICK m : /\ m \in {0, 5} \cup {3 * n} \cup {3 * n - 1, 3 * n + Spare}
               /\ out = Allocated(m) \/ out = [Allocated(m) EXCEPT !.owned = FALSE]
  BY <1>2 DEF Outputs
<1>6. m \in Nat
  BY <1>1, <1>3, <1>4, <1>5
<1>7. Allocated(m) \in Frames
  BY <1>6 DEF Allocated, Frames
<1>8. CASE out = Allocated(m)
  BY <1>7, <1>8
<1>9. CASE out = [Allocated(m) EXCEPT !.owned = FALSE]
  BY <1>7, <1>9 DEF Frames
<1> QED
  BY <1>5, <1>8, <1>9

\* A buffer that was made sure of is large enough, and the library's own has
\* exactly the size asked for.
LEMMA EnsuredIs ==
    ASSUME NEW out \in Frames, NEW need \in Nat, NEW o \in Ensured(out, need), o.ret = "ok"
    PROVE  /\ o.frame \in Frames /\ o.frame.bytes >= need
           /\ out.owned => o.frame.bytes = need
<1>1. CASE out.owned
  <2>1. PICK f, g : f = [out EXCEPT !.data = TRUE, !.bytes = need]
                    /\ g = [out EXCEPT !.data = FALSE, !.bytes = need]
    OBVIOUS
  <2>2. o = [ret |-> "ok", frame |-> f] \/ o = [ret |-> "no memory", frame |-> g]
    BY <1>1, <2>1 DEF Ensured
  <2>3. o.frame = f
    <3>1. CASE o = [ret |-> "ok", frame |-> f]
      BY <3>1
    <3>2. CASE o = [ret |-> "no memory", frame |-> g]
      <4>1. o.ret = "no memory"
        BY <3>2
      <4> QED
        BY <4>1
    <3> QED
      BY <2>2, <3>1, <3>2
  <2>4. f \in Frames /\ f.bytes = need
    BY <2>1 DEF Frames
  <2> QED
    BY <2>3, <2>4
<1>2. CASE ~out.owned
  <2>1. o = [ret |-> IF out.data /\ out.bytes >= need THEN "ok" ELSE "no memory", frame |-> out]
    BY <1>2 DEF Ensured
  <2> QED
    BY <1>2, <2>1
<1> QED
  BY <1>1, <1>2

LEMMA DescribedIs ==
    ASSUME NEW f \in Frames, NEW in, NEW format
    PROVE  /\ Described(f, in, format).size = in.size
           /\ Described(f, in, format).bytes = f.bytes
  BY DEF Described, Frames

LEMMA OutcomesAre ==
    ASSUME NEW in \in Inputs, NEW out \in Frames, NEW from \in Packed, NEW to \in Targets,
           NEW o \in Outcomes(from, to, in, out), o.ret = "ok"
    PROVE  /\ in.format = from /\ o.frame.size = in.size
           /\ o.frame.bytes \in Nat /\ o.frame.bytes >= Needed(in, to)
           /\ out.owned => o.frame.bytes = Needed(in, to)
           /\ o.image = Written(to, from, o.frame.bytes)
<1>1. in.format = from
  <2> SUFFICES ASSUME in.format # from PROVE FALSE
    OBVIOUS
  <2>1. o = [ret |-> "invalid param", frame |-> out, image |-> <<>>]
    BY DEF Outcomes
  <2> QED
    BY <2>1
<1>2. Needed(in, to) \in Nat
  <2>1. PICK n \in Nat : n = Pixels(in.size)
    BY InputsAreFrames
  <2> QED
    BY <2>1 DEF Needed
<1>3. PICK e \in Ensured(out, Needed(in, to)) :
         o = [ret |-> e.ret,
              frame |-> IF e.ret = "ok"
                          THEN Described(e.frame, in, IF to \in Coloured THEN to ELSE "GRAY8")
                          ELSE e.frame,
              image |-> IF e.ret = "ok" THEN Written(to, from, e.frame.bytes) ELSE <<>>]
  BY <1>1 DEF Outcomes, Needed
<1>4. e.ret = "ok"
  BY <1>3
<1>5. /\ e.frame \in Frames /\ e.frame.bytes >= Needed(in, to)
      /\ out.owned => e.frame.bytes = Needed(in, to)
  BY <1>2, <1>4, EnsuredIs
<1>6. /\ o.frame.size = in.size /\ o.frame.bytes = e.frame.bytes
      /\ o.image = Written(to, from, e.frame.bytes)
  BY <1>3, <1>4, <1>5, DescribedIs
<1> QED
  BY <1>1, <1>5, <1>6 DEF Frames

LEMMA ColouredRight ==
    ASSUME NEW in \in Inputs, NEW out \in Frames, NEW to \in Coloured,
           in.format \in Packed,
           NEW o \in Outcomes(in.format, to, in, out), o.ret = "ok"
    PROVE  RightFor(in, to, o.frame, o.image) /\ InsideFor(in, out, o.frame, o.image)
<1>1. PICK n \in Nat : n = Pixels(in.size)
  BY InputsAreFrames
<1>2. Needed(in, to) = 3 * n /\ in.bytes = 2 * n
  BY <1>1, InputsAreFrames DEF Needed, BytesOf
<1>3. PICK bytes \in Nat :
         /\ bytes = o.frame.bytes /\ o.frame.size = in.size /\ bytes >= 3 * n
         /\ out.owned => bytes = 3 * n
         /\ o.image = Coloring(in.format, to, bytes)
  BY <1>2, OutcomesAre DEF Targets, Written, Coloured
<1>4. Rounds(bytes) \in Nat /\ 24 * Rounds(bytes) >= bytes
  BY DEF Rounds
<1>5. DOMAIN o.image = 0..(24 * Rounds(bytes) - 1)
  BY <1>3 DEF Coloring
<1>6. \A k \in DOMAIN o.image : o.image[k] = PixelByte(in.format, to, k)
  BY <1>3, <1>5, ColoringAt
<1>7. RightFor(in, to, o.frame, o.image)
  <2>1. ASSUME NEW k \in 0..(3 * n - 1) PROVE o.image[k] = Ideal(in, to, k)
    <3>1. k \in DOMAIN o.image
      BY <1>3, <1>4, <1>5
    <3>2. (k \div 3) \div 2 = k \div 6
      OBVIOUS
    <3>3. to # "Y" /\ to # "UV" /\ in.format # to
      BY DEF Coloured, Packed
    <3> QED
      BY <1>6, <3>1, <3>2, <3>3 DEF Ideal, PixelByte
  <2> QED
    BY <1>2, <1>3, <2>1 DEF RightFor
<1>8. InsideFor(in, out, o.frame, o.image)
  <2> SUFFICES ASSUME n % 8 = 0, out.owned, NEW k \in DOMAIN o.image
               PROVE  /\ k \in 0..(o.frame.bytes - 1)
                      /\ \A i \in DOMAIN o.image[k].from : o.image[k].from[i] < in.bytes
    BY <1>1 DEF InsideFor
  <2>1. PICK m \in Nat : n = 8 * m
    <3>1. n = 8 * (n \div 8) /\ n \div 8 \in Nat
      OBVIOUS
    <3> QED
      BY <3>1
  <2>2. bytes = 24 * m /\ Rounds(bytes) = m
    BY <1>3, <2>1 DEF Rounds
  <2>3. k \in 0..(24 * m - 1)
    BY <1>5, <2>2
  <2>4. PICK g \in Nat : g = 4 * (k \div 6) /\ g + 3 < in.bytes
    BY <1>2, <2>1, <2>3
  <2>5. o.image[k].from = <<g + Layout(in.format).y[1 + ((k \div 3) % 2)],
                            g + Layout(in.format).u, g + Layout(in.format).v>>
    <3>1. o.image[k] = PixelByte(in.format, to, k)
      BY <1>6
    <3>2. PixelByte(in.format, to, k).from
            = <<4 * (k \div 6) + Layout(in.format).y[1 + ((k \div 3) % 2)],
                4 * (k \div 6) + Layout(in.format).u, 4 * (k \div 6) + Layout(in.format).v>>
      BY DEF PixelByte, Byte
    <3> QED
      BY <2>4, <3>1, <3>2
  <2>6. 1 + ((k \div 3) % 2) \in {1, 2}
    BY <2>3
  <2>7. PICK y \in 0..3, u \in 0..3, v \in 0..3 :
           /\ y = Layout(in.format).y[1 + ((k \div 3) % 2)]
           /\ u = Layout(in.format).u /\ v = Layout(in.format).v
    BY <2>6, LayoutBytes
  <2>8. o.image[k].from = <<g + y, g + u, g + v>>
    BY <2>5, <2>7
  <2>9. in.bytes \in Nat
    BY <1>2
  <2> QED
    BY <1>3, <2>2, <2>3, <2>4, <2>8, <2>9
<1> QED
  BY <1>7, <1>8

LEMMA GrayRight ==
    ASSUME NEW in \in Inputs, NEW out \in Frames, NEW to \in {"Y", "UV"},
           NEW o \in Outcomes("YUYV", to, in, out), o.ret = "ok"
    PROVE  RightFor(in, to, o.frame, o.image) /\ InsideFor(in, out, o.frame, o.image)
<1>1. PICK n \in Nat : n = Pixels(in.size)
  BY InputsAreFrames
<1>2. to \notin Coloured /\ to \in Targets /\ "YUYV" \in Packed
  BY DEF Coloured, Targets, Packed
<1>3. in.format = "YUYV"
  BY <1>2, OutcomesAre
<1>4. Needed(in, to) = n /\ in.bytes = 2 * n
  BY <1>1, <1>2, <1>3, InputsAreFrames DEF Needed, BytesOf
<1>5. PICK bytes \in Nat :
         /\ bytes = o.frame.bytes /\ o.frame.size = in.size /\ bytes >= n
         /\ out.owned => bytes = n
         /\ o.image = Written(to, "YUYV", bytes)
  BY <1>2, <1>4, OutcomesAre
<1>6. PICK plane \in {0, 1} :
         /\ plane = IF to = "Y" THEN 0 ELSE 1
         /\ o.image = [k \in 0..(bytes - 1) |-> Byte(<<2 * k + plane>>, "same")]
  BY <1>2, <1>5 DEF Written, Graying
<1>7. RightFor(in, to, o.frame, o.image)
  <2>1. ASSUME NEW k \in 0..(n - 1) PROVE o.image[k] = Ideal(in, to, k)
    <3>1. o.image[k] = Byte(<<2 * k + plane>>, "same")
      <4>1. k \in 0..(bytes - 1)
        BY <1>1, <1>5
      <4> QED
        BY <1>6, <4>1
    <3>2. CASE to = "Y"
      BY <1>3, <1>6, <3>1, <3>2 DEF Ideal
    <3>3. CASE to = "UV"
      BY <1>3, <1>6, <3>1, <3>3 DEF Ideal
    <3> QED
      BY <3>2, <3>3
  <2> QED
    BY <1>4, <1>5, <2>1 DEF RightFor
<1>8. InsideFor(in, out, o.frame, o.image)
  <2> SUFFICES ASSUME out.owned, NEW k \in DOMAIN o.image
               PROVE  /\ k \in 0..(o.frame.bytes - 1)
                      /\ \A i \in DOMAIN o.image[k].from : o.image[k].from[i] < in.bytes
    BY DEF InsideFor
  <2>1. k \in 0..(n - 1) /\ bytes = n
    BY <1>5, <1>6
  <2>2. o.image[k].from = <<2 * k + plane>>
    BY <1>6, <2>1 DEF Byte
  <2> QED
    BY <1>4, <1>5, <2>1, <2>2
<1> QED
  BY <1>7, <1>8

LEMMA CopiedRight ==
    ASSUME NEW in \in Inputs, NEW out \in Frames, in.format \in Coloured,
           NEW o \in Duplicated(in, out), o.ret = "ok"
    PROVE  /\ RightFor(in, in.format, o.frame, o.image)
           /\ InsideFor(in, out, o.frame, o.image)
<1>1. PICK n \in Nat : n = Pixels(in.size)
  BY InputsAreFrames
<1>2. Needed(in, in.format) = 3 * n /\ in.bytes = 3 * n
  BY <1>1, InputsAreFrames DEF Needed, BytesOf, Packed, Coloured
<1>3. PICK e \in Ensured(out, in.bytes) :
         o = [ret |-> e.ret,
              frame |-> IF e.ret = "ok" THEN Described(e.frame, in, in.format) ELSE e.frame,
              image |-> [k \in IF e.ret = "ok" THEN 0..(in.bytes - 1) ELSE {} |->
                            Byte(<<k>>, "same")]]
  BY DEF Duplicated
<1>4. e.ret = "ok"
  BY <1>3
<1>5. e.frame \in Frames /\ e.frame.bytes >= 3 * n /\ (out.owned => e.frame.bytes = 3 * n)
  BY <1>2, <1>4, EnsuredIs
<1>6. /\ o.frame.size = in.size /\ o.frame.bytes = e.frame.bytes
      /\ o.image = [k \in 0..(3 * n - 1) |-> Byte(<<k>>, "same")]
  BY <1>2, <1>3, <1>4, <1>5, DescribedIs
<1>7. in.format # "Y" /\ in.format # "UV"
  BY DEF Coloured
<1>8. \A k \in 0..(3 * n - 1) : o.image[k] = Ideal(in, in.format, k)
  BY <1>6, <1>7 DEF Ideal
<1>9. InsideFor(in, out, o.frame, o.image)
  <2> SUFFICES ASSUME out.owned, NEW k \in DOMAIN o.image
               PROVE  /\ k \in 0..(o.frame.bytes - 1)
                      /\ \A i \in DOMAIN o.image[k].from : o.image[k].from[i] < in.bytes
    BY DEF InsideFor
  <2>1. k \in 0..(3 * n - 1) /\ o.image[k].from = <<k>>
    BY <1>6 DEF Byte
  <2> QED
    BY <1>2, <1>5, <1>6, <2>1
<1> QED
  BY <1>2, <1>5, <1>6, <1>8, <1>9 DEF RightFor

LEMMA ConvertRight == ASSUME Convert PROVE ConversionsSound'
<1>0. PICK call \in Calls, in \in Inputs : \E out \in Outputs(in) :
         \E o \in CASE call.call = "convert" -> Outcomes(call.from, call.to, in, out)
                  [] call.call = "any" -> AnyOutcomes(call.to, in, out)
                  [] call.call = "duplicate" -> Duplicated(in, out)
                  [] call.call = "decode" -> Decoded(in, out) :
           conversion' = [call |-> call.call, asked |-> call, in |-> in, given |-> out,
                          ret |-> o.ret, out |-> o.frame, image |-> o.image]
  BY DEF Convert
<1>1. PICK out \in Outputs(in) :
         \E o \in CASE call.call = "convert" -> Outcomes(call.from, call.to, in, out)
                  [] call.call = "any" -> AnyOutcomes(call.to, in, out)
                  [] call.call = "duplicate" -> Duplicated(in, out)
                  [] call.call = "decode" -> Decoded(in, out) :
           conversion' = [call |-> call.call, asked |-> call, in |-> in, given |-> out,
                          ret |-> o.ret, out |-> o.frame, image |-> o.image]
  BY <1>0
<1>6. PICK o \in CASE call.call = "convert" -> Outcomes(call.from, call.to, in, out)
                  [] call.call = "any" -> AnyOutcomes(call.to, in, out)
                  [] call.call = "duplicate" -> Duplicated(in, out)
                  [] call.call = "decode" -> Decoded(in, out) :
         conversion' = [call |-> call.call, asked |-> call, in |-> in, given |-> out,
                        ret |-> o.ret, out |-> o.frame, image |-> o.image]
  BY <1>1
<1>2. out \in Frames
  BY OutputsAreFrames
<1>3. ASSUME o.ret = "ok", call.call \in {"convert", "any"}
      PROVE  RightFor(in, call.to, o.frame, o.image) /\ InsideFor(in, out, o.frame, o.image)
  <2>1. CASE call.call = "convert" /\ call.to \in Coloured
    <3>1. o \in Outcomes(call.from, call.to, in, out)
      BY <1>6, <2>1
    <3>2. call.from \in Packed
      BY <2>1 DEF Calls, Packed
    <3>3. in.format = call.from
      BY <1>2, <1>3, <2>1, <3>1, <3>2, OutcomesAre DEF Targets
    <3> QED
      BY <1>2, <1>3, <2>1, <3>1, <3>2, <3>3, ColouredRight
  <2>2. CASE call.call = "convert" /\ call.to \notin Coloured
    <3>1. o \in Outcomes(call.from, call.to, in, out)
      BY <1>6, <2>2
    <3>2. call.from = "YUYV" /\ call.to \in {"Y", "UV"}
      BY <2>2 DEF Calls
    <3> QED
      BY <1>2, <1>3, <3>1, <3>2, GrayRight
  <2>3. CASE call.call = "any"
    <3>1. o \in AnyOutcomes(call.to, in, out) /\ call.to \in Coloured
      BY <1>6, <2>3 DEF Calls
    <3>2. CASE in.format \in Packed
      <4>1. o \in Outcomes(in.format, call.to, in, out)
        BY <3>1, <3>2 DEF AnyOutcomes
      <4> QED
        BY <1>2, <1>3, <3>1, <3>2, <4>1, ColouredRight
    <3>3. CASE in.format \notin Packed
      <4>1. in.format = call.to /\ o \in Duplicated(in, out)
        <5>1. CASE in.format = call.to
          BY <3>1, <3>3, <5>1 DEF AnyOutcomes
        <5>2. CASE in.format # call.to
          <6>1. o = [ret |-> "not supported", frame |-> out, image |-> <<>>]
            BY <3>1, <3>3, <5>2 DEF AnyOutcomes
          <6> QED
            BY <1>3, <6>1
        <5> QED
          BY <5>1, <5>2
      <4> QED
        BY <1>2, <1>3, <3>1, <4>1, CopiedRight
    <3> QED
      BY <3>2, <3>3
  <2> QED
    BY <1>3, <2>1, <2>2, <2>3
<1>4. ConversionRight'
  BY <1>3, <1>6 DEF ConversionRight, Done, RightFor, Needed
<1>5. ConversionInside'
  BY <1>3, <1>6 DEF ConversionInside, Done, InsideFor
<1> QED
  BY <1>4, <1>5 DEF ConversionsSound

LEMMA ConversionStep ==
    ASSUME ConversionsSound, [CaptureNext \/ ConvertFirst]_<<captureVars, conversion>>
    PROVE  ConversionsSound'
<1>1. CASE conversion' = conversion
  BY <1>1 DEF ConversionsSound, ConversionRight, ConversionInside, Done
<1>2. CASE Convert
  BY <1>2, ConvertRight
<1>3. conversion' = conversion \/ Convert
  <2>1. CASE UNCHANGED <<captureVars, conversion>> \/ ConvertFirst
    BY <2>1 DEF ConvertFirst
  <2>2. CASE \/ \E i \in 0..1 : Open(i)
             \/ Close
    BY <2>2 DEF Open, Close
  <2>3. CASE \/ \E w \in Widths : SetWidth(w)
             \/ \E h \in Heights : SetHeight(h)
             \/ \E rate \in Rates : SetFps(rate)
             \/ \E f \in Formats : SetFormat(f)
    BY <2>3 DEF SetWidth, SetHeight, SetFps, SetFormat, Restarted, Quiet
  <2>4. CASE \/ StartStream \/ StopStream
             \/ \E p \in {"BGR", "GRAY"} : SetMode(p)
             \/ \E on \in 0..1 : Trigger(on)
             \/ \E p \in DOMAIN getRange, m \in 0..Grid : SetControl(p, m)
             \/ \E n \in Lengths : UpdatePackage(n)
    BY <2>4 DEF StartStream, StopStream, SetMode, Trigger, SetControl, UpdatePackage, Quiet
  <2>5. CASE \/ ReadAsk \/ ReadGot
             \/ \E still \in BOOLEAN : Publish(still)
             \/ Store \/ StoreFails \/ StoreMjpeg
    BY <2>5 DEF ReadAsk, ReadGot, Publish, Store, StoreFails, StoreMjpeg
  <2> QED
    BY <2>1, <2>2, <2>3, <2>4, <2>5 DEF CaptureNext
<1> QED
  BY <1>1, <1>2, <1>3

\* Every conversion of frame.c, for images of any size and any kind of output
\* frame: each byte of the output is computed from the two pixels it belongs to,
\* in a buffer that is large enough; and the loops, which work on eight pixels at
\* a time, stay inside both buffers for images of a multiple of eight pixels.
THEOREM FrameConversionsSound == CaptureSpec => []ConversionsSound
<1>1. CaptureInit => ConversionsSound
  BY DEF CaptureInit, NotConverted, ConversionsSound, ConversionRight, ConversionInside, Done
<1>2. /\ ConversionsSound
      /\ [CaptureNext \/ ConvertFirst]_<<captureVars, conversion>>
      => ConversionsSound'
  BY ConversionStep
<1> QED
  BY <1>1, <1>2, PTL DEF CaptureSpec

-----------------------------------------------------------------------------
(* The camera controls (UvcControls): bytes, rows of the table, answers.    *)

(* A field of a control and the bytes of the data it covers                 *)
FieldSizes == {1, 2, 4}
FieldType == [pos : Nat, size : FieldSizes, signed : BOOLEAN]
Covers(f, b) == f.pos < b /\ b <= f.pos + f.size

(* The fields of a control lie side by side and fill its data.              *)
LaidOut(row) ==
    /\ row.length \in Nat \ {0}
    /\ row.fields \in Seq(FieldType)
    /\ \A i \in DOMAIN row.fields : row.fields[i].pos + row.fields[i].size <= row.length
    /\ \A i, j \in DOMAIN row.fields : \A b \in 1 .. row.length :
          Covers(row.fields[i], b) /\ Covers(row.fields[j], b) => i = j
    /\ \A b \in 1 .. row.length : \E i \in DOMAIN row.fields : Covers(row.fields[i], b)

(* The values a field of its size and sign can hold                         *)
Half(f) == IF f.size = 1 THEN 128 ELSE IF f.size = 2 THEN 32768 ELSE 128 * 16777216
Low(f) == IF f.signed THEN 0 - Half(f) ELSE 0
High(f) == IF f.signed THEN Half(f) ELSE 2 * Half(f)
FieldRange(f) == {v \in Int : Low(f) <= v /\ v < High(f)}

(* The lowest byte of a number and what is above it                        *)
LEMMA Digit ==
    ASSUME NEW v \in Int
    PROVE  /\ v \div 256 \in Int /\ v % 256 \in 0 .. 255
           /\ v = 256 * (v \div 256) + (v % 256)
BY SMT

(* Bytes are taken one after the other or at once.                          *)
LEMMA Shifted ==
    ASSUME NEW v \in Int
    PROVE  /\ v \div 65536 = (v \div 256) \div 256
           /\ v \div 16777216 = ((v \div 256) \div 256) \div 256
<1>1. PICK q \in Int : q = v \div 256
  BY Digit
<1>2. PICK r \in Int : r = q \div 256
  BY Digit
<1>3. PICK s \in Int : s = r \div 256
  BY Digit
<1>4. /\ v = 256 * q + (v % 256) /\ v % 256 \in 0 .. 255
      /\ q = 256 * r + (q % 256) /\ q % 256 \in 0 .. 255
      /\ r = 256 * s + (r % 256) /\ r % 256 \in 0 .. 255
  BY <1>1, <1>2, <1>3, Digit
<1>5. 65536 * r <= v /\ v < 65536 * r + 65536
  BY <1>4, SMT
<1>6. 16777216 * s <= v /\ v < 16777216 * s + 16777216
  BY <1>4, SMT
<1>7. PICK x \in Int : x = v \div 65536 /\ 65536 * x <= v /\ v < 65536 * x + 65536
  BY SMT
<1>8. PICK y \in Int : y = v \div 16777216 /\ 16777216 * y <= v /\ v < 16777216 * y + 16777216
  BY SMT
<1>9. x = r
  BY <1>5, <1>7, SMT
<1>10. y = s
  BY <1>6, <1>8, SMT
<1> QED
  BY <1>1, <1>2, <1>3, <1>7, <1>8, <1>9, <1>10

(* A number is its two bytes and what is above them.                        *)
LEMMA TwoBytes ==
    ASSUME NEW v \in Int
    PROVE  /\ v % 256 \in 0 .. 255 /\ (v \div 256) % 256 \in 0 .. 255
           /\ \E rest \in Int : v = (v % 256) + 256 * ((v \div 256) % 256) + 65536 * rest
<1>1. PICK q \in Int : q = v \div 256
  BY Digit
<1>2. PICK r \in Int : r = q \div 256
  BY Digit
<1>3. /\ v = 256 * q + (v % 256) /\ v % 256 \in 0 .. 255
      /\ q = 256 * r + (q % 256) /\ q % 256 \in 0 .. 255
  BY <1>1, <1>2, Digit
<1>4. v = (v % 256) + 256 * (q % 256) + 65536 * r
  BY <1>3, SMT
<1> QED
  BY <1>1, <1>3, <1>4

(* A number is its four bytes and what is above them.                       *)
IsFourBytes(v, rest) ==
    v = (v % 256) + 256 * ((v \div 256) % 256) + 65536 * ((v \div 65536) % 256)
          + 16777216 * ((v \div 16777216) % 256) + 16777216 * (256 * rest)

LEMMA FourBytes ==
    ASSUME NEW v \in Int
    PROVE  /\ v % 256 \in 0 .. 255 /\ (v \div 256) % 256 \in 0 .. 255
           /\ (v \div 65536) % 256 \in 0 .. 255 /\ (v \div 16777216) % 256 \in 0 .. 255
           /\ \E rest \in Int : IsFourBytes(v, rest)
<1>1. PICK q \in Int : q = v \div 256
  BY Digit
<1>2. PICK r \in Int : r = q \div 256
  BY Digit
<1>3. PICK s \in Int : s = r \div 256
  BY Digit
<1>4. PICK u \in Int : u = s \div 256
  BY Digit
<1>5. /\ v = 256 * q + (v % 256) /\ v % 256 \in 0 .. 255
      /\ q = 256 * r + (q % 256) /\ q % 256 \in 0 .. 255
      /\ r = 256 * s + (r % 256) /\ r % 256 \in 0 .. 255
      /\ s = 256 * u + (s % 256) /\ s % 256 \in 0 .. 255
  BY <1>1, <1>2, <1>3, <1>4, Digit
<1>6. v = (v % 256) + 256 * (q % 256) + 65536 * (r % 256) + 16777216 * (s % 256)
            + 16777216 * (256 * u)
  BY <1>5, SMT
<1>7. v \div 65536 = r /\ v \div 16777216 = s
  BY <1>1, <1>2, <1>3, Shifted
<1>8. /\ (v \div 256) % 256 = q % 256 /\ (v \div 65536) % 256 = r % 256
      /\ (v \div 16777216) % 256 = s % 256
  BY <1>1, <1>7
<1>9. IsFourBytes(v, u)
  BY <1>6, <1>8, SMT DEF IsFourBytes
<1> QED
  BY <1>5, <1>8, <1>9

(* The macros of libuvc_internal.h undo each other: every value of a field   *)
(* is read back from the bytes it was written as.                           *)
LEMMA RoundTrip ==
    ASSUME NEW f \in FieldType, NEW v \in FieldRange(f)
    PROVE  /\ FromBytes(ToBytes(v, f.size), f.signed) = v
           /\ ToBytes(v, f.size) \in [1 .. f.size -> 0 .. 255]
<1> DEFINE bytes == ToBytes(v, f.size)
<1>1. /\ v \in Int /\ Low(f) <= v /\ v < High(f)
      /\ f.signed \in BOOLEAN /\ f.size \in FieldSizes
  BY DEF FieldRange, FieldType
<1>2. bytes \in [1 .. f.size -> 0 .. 255]
  <2>1. \A k \in 1 .. f.size : Weights[k] \in {1, 256, 65536, 16777216}
    BY DEF FieldType, FieldSizes, Weights
  <2>2. \A w \in {1, 256, 65536, 16777216} : (v \div w) % 256 \in 0 .. 255
    BY <1>1, SMT
  <2> QED
    BY <2>1, <2>2, SMT DEF ToBytes
<1>3. Len(bytes) = f.size
  BY DEF ToBytes, FieldType, FieldSizes
<1>4. CASE f.size = 1
  <2>1. v = 256 * (v \div 256) + (v % 256) /\ v \div 256 \in Int /\ v % 256 \in 0 .. 255
    BY <1>1, Digit
  <2>2. bytes[1] = v % 256
    BY <1>1, <1>4 DEF ToBytes, Weights
  <2>3. v \in Int /\ (f.signed => -128 <= v /\ v <= 127) /\ (~f.signed => 0 <= v /\ v <= 255)
    BY <1>1, <1>4 DEF Low, High, Half
  <2>4. FromBytes(bytes, f.signed)
          = IF f.signed /\ bytes[1] > 127 THEN bytes[1] - 256 ELSE bytes[1]
    BY <1>3, <1>4 DEF FromBytes
  <2> HIDE DEF bytes
  <2>5. FromBytes(bytes, f.signed) = v
    BY <2>1, <2>2, <2>3, <2>4
  <2> QED
    BY <1>2, <2>5 DEF bytes
<1>5. CASE f.size = 2
  <2> DEFINE low == v % 256
             high == (v \div 256) % 256
  <2>1. low \in 0 .. 255 /\ high \in 0 .. 255
    BY <1>1, TwoBytes
  <2>2. PICK rest \in Int : v = low + 256 * high + 65536 * rest
    BY <1>1, TwoBytes
  <2>3. bytes[1] = low /\ bytes[2] = high
    BY <1>1, <1>5 DEF ToBytes, Weights
  <2> HIDE DEF low, high, bytes
  <2>a. Half(f) = 32768
    BY <1>5 DEF Half
  <2>4. /\ f.signed => 0 - 32768 <= v /\ v < 32768
        /\ ~f.signed => 0 <= v /\ v < 65536
    BY <1>1, <2>a DEF Low, High
  <2>5. FromBytes(bytes, f.signed)
          = low + (IF f.signed /\ high > 127 THEN high - 256 ELSE high) * 256
    BY <1>3, <1>5, <2>3, SMT DEF FromBytes, Weights
  <2>6. FromBytes(bytes, f.signed) = v
    BY <1>1, <2>1, <2>2, <2>4, <2>5, SMT
  <2> QED
    BY <1>2, <2>6 DEF bytes
<1>6. CASE f.size = 4
  <2> DEFINE a == v % 256
             b == (v \div 256) % 256
             c == (v \div 65536) % 256
             d == (v \div 16777216) % 256
  <2>1. a \in 0 .. 255 /\ b \in 0 .. 255 /\ c \in 0 .. 255 /\ d \in 0 .. 255
    BY <1>1, FourBytes
  <2>b. PICK rest \in Int : IsFourBytes(v, rest)
    BY <1>1, FourBytes
  <2>2. v = a + 256 * b + 65536 * c + 16777216 * d + 16777216 * (256 * rest)
    BY <2>b, SMT DEF IsFourBytes
  <2>3. bytes[1] = a /\ bytes[2] = b /\ bytes[3] = c /\ bytes[4] = d
    BY <1>1, <1>6, SMT DEF ToBytes, Weights
  <2> HIDE DEF a, b, c, d, bytes
  <2>a. Half(f) = 128 * 16777216
    BY <1>6, SMT DEF Half
  <2>4. /\ f.signed => 0 - 128 * 16777216 <= v /\ v < 128 * 16777216
        /\ ~f.signed => 0 <= v /\ v < 256 * 16777216
    BY <1>1, <2>a, SMT DEF Low, High
  <2>5. FromBytes(bytes, f.signed)
          = a + b * 256 + c * 65536
              + (IF f.signed /\ d > 127 THEN d - 256 ELSE d) * 16777216
    BY <1>3, <1>6, <2>3, SMT DEF FromBytes, Weights
  <2>6. FromBytes(bytes, f.signed) = v
    BY <1>1, <2>1, <2>2, <2>4, <2>5, SMT
  <2> QED
    BY <1>2, <2>6 DEF bytes
<1> QED
  BY <1>2, <1>4, <1>5, <1>6 DEF FieldType, FieldSizes

(* What the fields of the table are                                         *)
LEMMA Fields ==
    ASSUME NEW p \in Nat
    PROVE  /\ {U8(p), I8(p), U16(p), I16(p), U32(p), I32(p)} \subseteq FieldType
           /\ U8(p).pos = p /\ U8(p).size = 1 /\ I8(p).pos = p /\ I8(p).size = 1
           /\ U16(p).pos = p /\ U16(p).size = 2 /\ I16(p).pos = p /\ I16(p).size = 2
           /\ U32(p).pos = p /\ U32(p).size = 4 /\ I32(p).pos = p /\ I32(p).size = 4
BY DEF U8, I8, U16, I16, U32, I32, Field, FieldType, FieldSizes

(* One field that fills the data                                            *)
LEMMA OneField ==
    ASSUME NEW row, NEW f \in FieldType, f.pos = 0,
           row.length = f.size, row.fields = <<f>>
    PROVE  LaidOut(row)
BY DEF LaidOut, FieldType, FieldSizes, Covers

(* Two fields, one after the other                                          *)
LEMMA TwoFields ==
    ASSUME NEW row, NEW f \in FieldType, NEW g \in FieldType,
           f.pos = 0, g.pos = f.size, row.length = f.size + g.size,
           row.fields = <<f, g>>
    PROVE  LaidOut(row)
BY DEF LaidOut, FieldType, FieldSizes, Covers

(* Fields of one size, one after the other                                  *)
Even(fields, size) == \A i \in DOMAIN fields :
    fields[i].pos = size * (i - 1) /\ fields[i].size = size
Stacked(row, n, size) ==
    /\ row.fields \in Seq(FieldType) /\ Len(row.fields) = n
    /\ row.length = size * n /\ Even(row.fields, size)

LEMMA EvenFields ==
    ASSUME NEW row, NEW n \in Nat \ {0}, NEW size \in {1, 2}, Stacked(row, n, size)
    PROVE  LaidOut(row)
<1> USE DEF Stacked
<1>1. row.length \in Nat \ {0} /\ DOMAIN row.fields = 1 .. n
  OBVIOUS
<1>2. \A i \in 1 .. n : \A b \in 1 .. row.length :
        Covers(row.fields[i], b) <=> size * (i - 1) < b /\ b <= size * i
  BY <1>1 DEF Covers, Even
<1>3. \A b \in 1 .. row.length : \E i \in 1 .. n : Covers(row.fields[i], b)
  <2> SUFFICES ASSUME NEW b \in 1 .. row.length
               PROVE  \E i \in 1 .. n : size * (i - 1) < b /\ b <= size * i
    BY <1>2
  <2>1. CASE size = 1
    BY <2>1
  <2>2. CASE size = 2
    <3>1. (b + 1) \div 2 \in 1 .. n /\ 2 * ((b + 1) \div 2 - 1) < b /\ b <= 2 * ((b + 1) \div 2)
      BY <2>2
    <3> QED
      BY <3>1, <2>2
  <2> QED
    BY <2>1, <2>2
<1>4. \A i, j \in 1 .. n : \A b \in 1 .. row.length :
        Covers(row.fields[i], b) /\ Covers(row.fields[j], b) => i = j
  <2> SUFFICES ASSUME NEW i \in 1 .. n, NEW j \in 1 .. n, NEW b \in 1 .. row.length,
                      size * (i - 1) < b, b <= size * i, size * (j - 1) < b, b <= size * j
               PROVE  i = j
    BY <1>2
  <2>1. CASE size = 1
    BY <1>1, <2>1
  <2>2. CASE size = 2
    BY <1>1, <2>2
  <2> QED
    BY <2>1, <2>2
<1>5. \A i \in 1 .. n : row.fields[i].pos + row.fields[i].size <= row.length
  <2> SUFFICES ASSUME NEW i \in 1 .. n
               PROVE  size * (i - 1) + size <= size * n
    BY <1>1 DEF Even
  <2> QED
    OBVIOUS
<1> QED
  BY <1>1, <1>3, <1>4, <1>5 DEF LaidOut

(* The rows of the table                                                    *)
LEMMA TableIs ==
    /\ Controls = 1 .. 41
    /\ \A c \in Controls : Table[c] \in {
          ScanningMode, AeMode, AePriority, ExposureAbs, ExposureRel,
          FocusAbs, FocusRel, FocusSimpleRange, FocusAuto, IrisAbs, IrisRel,
          ZoomAbs, ZoomRel, PantiltAbs, PantiltRel, RollAbs, RollRel,
          Privacy, DigitalWindow, DigitalRoi, BacklightCompensation,
          Brightness, Contrast, ContrastAuto, Gain, PowerLineFrequency, Hue,
          HueAuto, Saturation, Sharpness, Gamma, WhiteBalanceTemperature,
          WhiteBalanceTemperatureAuto, WhiteBalanceComponent,
          WhiteBalanceComponentAuto, DigitalMultiplier,
          DigitalMultiplierLimit, AnalogVideoStandard, AnalogVideoLockStatus,
          InputSelect, PowerMode}
BY DEF Table, Controls

(* The rows with one field                                                  *)
SingleRows == {
    ScanningMode, AeMode, AePriority, ExposureAbs, ExposureRel, FocusAbs,
    FocusSimpleRange, FocusAuto, IrisAbs, IrisRel, ZoomAbs, RollAbs, Privacy,
    BacklightCompensation, Brightness, Contrast, ContrastAuto, Gain,
    PowerLineFrequency, Hue, HueAuto, Saturation, Sharpness, Gamma,
    WhiteBalanceTemperature, WhiteBalanceTemperatureAuto,
    WhiteBalanceComponentAuto, DigitalMultiplier, DigitalMultiplierLimit,
    AnalogVideoStandard, AnalogVideoLockStatus, InputSelect, PowerMode}

LEMMA SingleRow == \A row \in SingleRows : LaidOut(row)
<1> SUFFICES ASSUME NEW row \in SingleRows PROVE LaidOut(row)
  OBVIOUS
<1>1. \E f \in {U8(0), I8(0), U16(0), I16(0), U32(0)} :
        row.length = f.size /\ row.fields = <<f>> /\ f \in FieldType /\ f.pos = 0
  BY Fields DEF SingleRows, Ctl,
       ScanningMode, AeMode, AePriority, ExposureAbs, ExposureRel, FocusAbs,
       FocusSimpleRange, FocusAuto, IrisAbs, IrisRel, ZoomAbs, RollAbs,
       Privacy, BacklightCompensation, Brightness, Contrast, ContrastAuto,
       Gain, PowerLineFrequency, Hue, HueAuto, Saturation, Sharpness, Gamma,
       WhiteBalanceTemperature, WhiteBalanceTemperatureAuto,
       WhiteBalanceComponentAuto, DigitalMultiplier, DigitalMultiplierLimit,
       AnalogVideoStandard, AnalogVideoLockStatus, InputSelect, PowerMode
<1> QED
  BY <1>1, OneField

(* The rows with several fields                                             *)
LEMMA OtherRows ==
    /\ LaidOut(FocusRel) /\ LaidOut(RollRel) /\ LaidOut(PantiltAbs)
    /\ LaidOut(WhiteBalanceComponent)
    /\ LaidOut(ZoomRel) /\ LaidOut(PantiltRel)
    /\ LaidOut(DigitalWindow) /\ LaidOut(DigitalRoi)
<1>1. LaidOut(FocusRel) /\ LaidOut(RollRel)
  BY Fields, TwoFields, 0 \in Nat, 1 \in Nat DEF FocusRel, RollRel, Ctl
<1>2. LaidOut(PantiltAbs)
  BY Fields, TwoFields, 0 \in Nat, 4 \in Nat DEF PantiltAbs, Ctl
<1>3. LaidOut(WhiteBalanceComponent)
  BY Fields, TwoFields, 0 \in Nat, 2 \in Nat DEF WhiteBalanceComponent, Ctl
<1>4. LaidOut(ZoomRel)
  <2>1. Stacked(ZoomRel, 3, 1)
    BY Fields, 0 \in Nat, 1 \in Nat, 2 \in Nat
       DEF ZoomRel, Ctl, Stacked, Even
  <2> QED
    BY <2>1, EvenFields, 3 \in Nat \ {0}, 1 \in {1, 2}
<1>5. LaidOut(PantiltRel)
  <2>1. Stacked(PantiltRel, 4, 1)
    BY Fields, 0 \in Nat, 1 \in Nat, 2 \in Nat, 3 \in Nat
       DEF PantiltRel, Ctl, Stacked, Even
  <2> QED
    BY <2>1, EvenFields, 4 \in Nat \ {0}, 1 \in {1, 2}
<1>6. LaidOut(DigitalWindow)
  <2>1. Stacked(DigitalWindow, 6, 2)
    BY Fields, 0 \in Nat, 2 \in Nat, 4 \in Nat, 6 \in Nat, 8 \in Nat, 10 \in Nat
       DEF DigitalWindow, Ctl, Stacked, Even
  <2> QED
    BY <2>1, EvenFields, 6 \in Nat \ {0}, 2 \in {1, 2}
<1>7. LaidOut(DigitalRoi)
  <2>1. Stacked(DigitalRoi, 5, 2)
    BY Fields, 0 \in Nat, 2 \in Nat, 4 \in Nat, 6 \in Nat, 8 \in Nat
       DEF DigitalRoi, Ctl, Stacked, Even
  <2> QED
    BY <2>1, EvenFields, 5 \in Nat \ {0}, 2 \in {1, 2}
<1> QED
  BY <1>1, <1>2, <1>3, <1>4, <1>5, <1>6, <1>7

(* Every row is laid out without a gap or an overlap.                       *)
LEMMA TableRows == \A c \in Controls : LaidOut(Table[c])
BY TableIs, SingleRow, OtherRows DEF SingleRows

(* The row that has an address: by entity, then by selector                 *)
Place ==
    [CT |-> <<1, 2, 3, 4, 5, 6, 7, 9, 10, 11, 12, 13, 14, 15, 16, 17, 18, 8, 19, 20>>,
     PU |-> <<21, 22, 23, 25, 26, 27, 29, 30, 31, 32, 33, 34, 35, 36, 37, 28, 38, 39, 24>>,
     SU |-> <<40>>,
     VC |-> <<41>>,
     XU |-> <<0>>]

PlacedAt(row, k) == Place[row.address[1]][row.address[2]] = k

LEMMA AddressPlaces ==
    /\ \A c \in Controls : PlacedAt(Table[c], c)
    /\ Place[XuAddress[1]][XuAddress[2]] = 0
<1>1.
      /\ PlacedAt(ScanningMode, 1) /\ PlacedAt(AeMode, 2)
      /\ PlacedAt(AePriority, 3) /\ PlacedAt(ExposureAbs, 4)
      /\ PlacedAt(ExposureRel, 5) /\ PlacedAt(FocusAbs, 6)
      /\ PlacedAt(FocusRel, 7) /\ PlacedAt(FocusSimpleRange, 8)
      /\ PlacedAt(FocusAuto, 9) /\ PlacedAt(IrisAbs, 10)
      /\ PlacedAt(IrisRel, 11) /\ PlacedAt(ZoomAbs, 12)
      /\ PlacedAt(ZoomRel, 13) /\ PlacedAt(PantiltAbs, 14)
      /\ PlacedAt(PantiltRel, 15) /\ PlacedAt(RollAbs, 16)
      /\ PlacedAt(RollRel, 17) /\ PlacedAt(Privacy, 18)
      /\ PlacedAt(DigitalWindow, 19) /\ PlacedAt(DigitalRoi, 20)
      /\ PlacedAt(BacklightCompensation, 21) /\ PlacedAt(Brightness, 22)
      /\ PlacedAt(Contrast, 23) /\ PlacedAt(ContrastAuto, 24)
      /\ PlacedAt(Gain, 25) /\ PlacedAt(PowerLineFrequency, 26)
      /\ PlacedAt(Hue, 27) /\ PlacedAt(HueAuto, 28)
      /\ PlacedAt(Saturation, 29) /\ PlacedAt(Sharpness, 30)
      /\ PlacedAt(Gamma, 31) /\ PlacedAt(WhiteBalanceTemperature, 32)
      /\ PlacedAt(WhiteBalanceTemperatureAuto, 33) /\ PlacedAt(WhiteBalanceComponent, 34)
      /\ PlacedAt(WhiteBalanceComponentAuto, 35) /\ PlacedAt(DigitalMultiplier, 36)
      /\ PlacedAt(DigitalMultiplierLimit, 37) /\ PlacedAt(AnalogVideoStandard, 38)
      /\ PlacedAt(AnalogVideoLockStatus, 39) /\ PlacedAt(InputSelect, 40)
      /\ PlacedAt(PowerMode, 41)
  BY DEF PlacedAt, Place, Ctl,
         ScanningMode, AeMode, AePriority, ExposureAbs, ExposureRel,
         FocusAbs, FocusRel, FocusSimpleRange, FocusAuto, IrisAbs, IrisRel,
         ZoomAbs, ZoomRel, PantiltAbs, PantiltRel, RollAbs, RollRel, Privacy,
         DigitalWindow, DigitalRoi, BacklightCompensation, Brightness,
         Contrast, ContrastAuto, Gain, PowerLineFrequency, Hue, HueAuto,
         Saturation, Sharpness, Gamma, WhiteBalanceTemperature,
         WhiteBalanceTemperatureAuto, WhiteBalanceComponent,
         WhiteBalanceComponentAuto, DigitalMultiplier,
         DigitalMultiplierLimit, AnalogVideoStandard, AnalogVideoLockStatus,
         InputSelect, PowerMode
<1>2.
      /\ Table[1] = ScanningMode /\ Table[2] = AeMode
      /\ Table[3] = AePriority /\ Table[4] = ExposureAbs
      /\ Table[5] = ExposureRel /\ Table[6] = FocusAbs
      /\ Table[7] = FocusRel /\ Table[8] = FocusSimpleRange
      /\ Table[9] = FocusAuto /\ Table[10] = IrisAbs
      /\ Table[11] = IrisRel /\ Table[12] = ZoomAbs
      /\ Table[13] = ZoomRel /\ Table[14] = PantiltAbs
      /\ Table[15] = PantiltRel /\ Table[16] = RollAbs
      /\ Table[17] = RollRel /\ Table[18] = Privacy
      /\ Table[19] = DigitalWindow /\ Table[20] = DigitalRoi
      /\ Table[21] = BacklightCompensation /\ Table[22] = Brightness
      /\ Table[23] = Contrast /\ Table[24] = ContrastAuto
      /\ Table[25] = Gain /\ Table[26] = PowerLineFrequency
      /\ Table[27] = Hue /\ Table[28] = HueAuto
      /\ Table[29] = Saturation /\ Table[30] = Sharpness
      /\ Table[31] = Gamma /\ Table[32] = WhiteBalanceTemperature
      /\ Table[33] = WhiteBalanceTemperatureAuto /\ Table[34] = WhiteBalanceComponent
      /\ Table[35] = WhiteBalanceComponentAuto /\ Table[36] = DigitalMultiplier
      /\ Table[37] = DigitalMultiplierLimit /\ Table[38] = AnalogVideoStandard
      /\ Table[39] = AnalogVideoLockStatus /\ Table[40] = InputSelect
      /\ Table[41] = PowerMode
  BY DEF Table
<1>3. \A c \in 1 .. 41 : PlacedAt(Table[c], c)
  BY <1>1, <1>2
<1>4. Place[XuAddress[1]][XuAddress[2]] = 0
  BY DEF Place, XuAddress
<1> QED
  BY <1>3, <1>4, TableIs

(* No two controls have the same address, and none that of the extension unit. *)
LEMMA AddressesDiffer ==
    /\ \A c, d \in Controls : Table[c].address = Table[d].address => c = d
    /\ XuAddress \notin Addresses
<1>1. \A c \in Controls : c # 0
  BY TableIs
<1> QED
  BY AddressPlaces, <1>1 DEF Addresses, PlacedAt

-----------------------------------------------------------------------------
(* Values for the fields of a control, one for each                         *)
Fits(c, values) ==
    /\ values = [i \in DOMAIN Table[c].fields |-> values[i]]
    /\ \A i \in DOMAIN Table[c].fields : values[i] \in FieldRange(Table[c].fields[i])

(* The fields lie side by side, so that the byte of each position is the     *)
(* byte of exactly one field.                                               *)

LEMMA PackIs ==
    ASSUME NEW c \in Controls, NEW values, Fits(c, values)
    PROVE  /\ Pack(c, values) \in [1 .. Table[c].length -> 0 .. 255]
           /\ \A i \in DOMAIN Table[c].fields : \A b \in 1 .. Table[c].length :
                Covers(Table[c].fields[i], b) =>
                    Pack(c, values)[b]
                      = ToBytes(values[i], Table[c].fields[i].size)[b - Table[c].fields[i].pos]
<1> DEFINE fields == Table[c].fields
           length == Table[c].length
<1>1. LaidOut(Table[c])
  BY TableRows
<1>2. fields \in Seq(FieldType) /\ length \in Nat
  BY <1>1 DEF LaidOut
<1>3. \A i \in DOMAIN fields : fields[i] \in FieldType
  BY <1>2
<1>4. \A i \in DOMAIN fields : \A b \in 1 .. length :
        /\ b - 1 \in fields[i].pos .. fields[i].pos + fields[i].size - 1
              <=> Covers(fields[i], b)
        /\ Covers(fields[i], b) =>
             ToBytes(values[i], fields[i].size)[b - fields[i].pos] \in 0 .. 255
  <2> SUFFICES ASSUME NEW i \in DOMAIN fields, NEW b \in 1 .. length
               PROVE  /\ b - 1 \in fields[i].pos .. fields[i].pos + fields[i].size - 1
                            <=> Covers(fields[i], b)
                      /\ Covers(fields[i], b) =>
                           ToBytes(values[i], fields[i].size)[b - fields[i].pos] \in 0 .. 255
    OBVIOUS
  <2>1. fields[i] \in FieldType /\ values[i] \in FieldRange(fields[i])
    BY <1>3 DEF Fits
  <2>2. fields[i].pos \in Nat /\ fields[i].size \in Nat
    BY <2>1 DEF FieldType, FieldSizes
  <2>3. ToBytes(values[i], fields[i].size) \in [1 .. fields[i].size -> 0 .. 255]
    BY <2>1, RoundTrip
  <2>4. Covers(fields[i], b) => b - fields[i].pos \in 1 .. fields[i].size
    BY <1>2, <2>2 DEF Covers
  <2> HIDE DEF fields, length
  <2>5. b - 1 \in fields[i].pos .. fields[i].pos + fields[i].size - 1 <=> Covers(fields[i], b)
    BY <1>2, <2>2 DEF Covers
  <2> QED
    BY <2>3, <2>4, <2>5
<1>5. ASSUME NEW b \in 1 .. length
      PROVE  \E i \in DOMAIN fields :
               /\ Covers(fields[i], b)
               /\ \A k \in DOMAIN fields : Covers(fields[k], b) => k = i
               /\ Pack(c, values)[b] = ToBytes(values[i], fields[i].size)[b - fields[i].pos]
  <2> DEFINE i == CHOOSE k \in DOMAIN fields :
                    b - 1 \in fields[k].pos .. fields[k].pos + fields[k].size - 1
  <2>1. i \in DOMAIN fields /\ Covers(fields[i], b)
    BY <1>1, <1>4, <1>5 DEF LaidOut
  <2>2. \A k \in DOMAIN fields : Covers(fields[k], b) => k = i
    BY <1>1, <1>5, <2>1 DEF LaidOut
  <2>3. Pack(c, values)[b] = ToBytes(values[i], fields[i].size)[b - fields[i].pos]
    BY <1>5 DEF Pack
  <2> QED
    BY <2>1, <2>2, <2>3
<1> HIDE DEF fields, length
<1>7. \A b \in 1 .. length : Pack(c, values)[b] \in 0 .. 255
  BY <1>4, <1>5
<1>8. Pack(c, values) \in [1 .. length -> 0 .. 255]
  BY <1>7 DEF Pack, length
<1>9. \A i \in DOMAIN fields : \A b \in 1 .. length : Covers(fields[i], b) =>
        Pack(c, values)[b] = ToBytes(values[i], fields[i].size)[b - fields[i].pos]
  BY <1>5
<1> QED
  BY <1>8, <1>9 DEF fields, length

(* The part of the data a getter reads for a field                          *)
LEMMA PartIs ==
    ASSUME NEW length \in Nat, NEW data \in [1 .. length -> 0 .. 255],
           NEW pos \in Nat, NEW size \in Nat, pos + size <= length
    PROVE  SubSeq(data, pos + 1, pos + size) = [k \in 1 .. size |-> data[k + pos]]
<1> DEFINE part == SubSeq(data, pos + 1, pos + size)
<1>1. \A k \in pos + 1 .. pos + size : data[k] \in 0 .. 255
  OBVIOUS
<1>2. /\ part \in Seq(0 .. 255)
      /\ Len(part) = IF pos + 1 <= pos + size THEN (pos + size) - (pos + 1) + 1 ELSE 0
      /\ \A k \in 1 .. (pos + size) - (pos + 1) + 1 : part[k] = data[(pos + 1) + k - 1]
  BY <1>1, SubSeqProperties, pos + 1 \in Int, pos + size \in Int
<1> HIDE DEF part
<1>3. Len(part) = size /\ \A k \in 1 .. size : part[k] = data[k + pos]
  BY <1>2
<1>4. part = [k \in 1 .. size |-> part[k]]
  BY <1>2, <1>3
<1> QED
  BY <1>3, <1>4 DEF part

(* A getter makes of the data a setter sent the values the setter was given, *)
(* for every control of ctrl-gen.c and every value its fields can take: no   *)
(* field loses a byte or its sign, and none lies over another.              *)
THEOREM ControlsReadBack ==
    ASSUME NEW c \in Controls, NEW values, Fits(c, values)
    PROVE  Unpack(c, Pack(c, values)) = values
<1> DEFINE fields == Table[c].fields
           length == Table[c].length
           data == Pack(c, values)
<1>1. /\ fields \in Seq(FieldType) /\ length \in Nat
      /\ \A i \in DOMAIN fields : fields[i].pos + fields[i].size <= length
  BY TableRows DEF LaidOut
<1>2. \A i \in DOMAIN fields : FromBytes(SubSeq(data, fields[i].pos + 1,
                                  fields[i].pos + fields[i].size), fields[i].signed) = values[i]
  <2> SUFFICES ASSUME NEW i \in DOMAIN fields
               PROVE  FromBytes(SubSeq(data, fields[i].pos + 1,
                                 fields[i].pos + fields[i].size), fields[i].signed) = values[i]
    OBVIOUS
  <2> DEFINE f == fields[i]
             part == SubSeq(data, f.pos + 1, f.pos + f.size)
             bytes == ToBytes(values[i], f.size)
  <2>1. f \in FieldType /\ values[i] \in FieldRange(f)
    BY <1>1 DEF Fits
  <2>2. f.pos \in Nat /\ f.size \in Nat /\ f.pos + f.size <= length
    BY <1>1, <2>1 DEF FieldType, FieldSizes
  <2>3. data \in [1 .. length -> 0 .. 255]
    BY PackIs
  <2>4. \A k \in 1 .. f.size : data[k + f.pos] = bytes[k]
    <3> SUFFICES ASSUME NEW k \in 1 .. f.size PROVE data[k + f.pos] = bytes[k]
      OBVIOUS
    <3>1. k + f.pos \in 1 .. length /\ Covers(f, k + f.pos) /\ (k + f.pos) - f.pos = k
      <4> HIDE DEF f, length
      <4> QED
        BY <1>1, <2>2 DEF Covers
    <3> QED
      BY <3>1, PackIs
  <2>5. bytes = [k \in 1 .. f.size |-> bytes[k]]
    BY DEF ToBytes
  <2>6. part = [k \in 1 .. f.size |-> data[k + f.pos]]
    <3> HIDE DEF f, length, data
    <3> QED
      BY <2>2, <2>3, PartIs
  <2>7. part = bytes
    BY <2>4, <2>5, <2>6
  <2> QED
    BY <2>1, <2>7, RoundTrip
<1> QED
  BY <1>2 DEF Unpack, Fits

(* The values the runs try                                                 *)
LEMMA SampleFits ==
    ASSUME ConstantsAssumption, NEW c \in Controls, NEW p \in 1 .. Patterns
    PROVE  Fits(c, Values(c, p))
<1>1. \A f \in FieldType : \A k \in 1 .. 5 : Samples(f)[k] \in FieldRange(f)
  <2> SUFFICES ASSUME NEW f \in FieldType PROVE \A k \in 1 .. 5 : Samples(f)[k] \in FieldRange(f)
    OBVIOUS
  <2>1. CASE f.size = 1
    BY <2>1, SMT DEF Samples, FieldRange, Low, High, Half, FieldType
  <2>2. CASE f.size = 2
    BY <2>2, SMT DEF Samples, FieldRange, Low, High, Half, FieldType
  <2>3. CASE f.size = 4
    BY <2>3, SMT DEF Samples, FieldRange, Low, High, Half, FieldType
  <2> QED
    BY <2>1, <2>2, <2>3 DEF FieldType, FieldSizes
<1>2. \A i \in DOMAIN Table[c].fields : Table[c].fields[i] \in FieldType /\ i \in Nat
  BY TableRows DEF LaidOut
<1>3. \A i \in Nat : ((p + i) % 5) + 1 \in 1 .. 5
  BY DEF ConstantsAssumption
<1> QED
  BY <1>1, <1>2, <1>3 DEF Fits, Values

-----------------------------------------------------------------------------
(* What each control's data says is among the values its last sets may have *)
(* left, and a thread nobody has disturbed reads where it points the chip.  *)
ControlsInv ==
    /\ AnswersRight
    /\ DOMAIN wire = Addresses \cup {XuAddress}
    /\ DOMAIN written = Controls
    /\ \A c \in Controls : Unpack(c, wire[Table[c].address]) \in written[c]
    /\ \A t \in Threads : t \in alone /\ reading[t] # NoRegister => latch = reading[t]

(* What keeps the types                                                     *)
LEMMA TypesKept ==
    ASSUME family' \in Families,
           \A c \in Controls : wire'[Table[c].address] \in [1 .. Table[c].length -> 0 .. 255],
           sets' \in 0 .. MaxSets, accesses' \in 0 .. MaxAccesses,
           reading' \in [Threads -> Registers \union {NoRegister}]
    PROVE  ControlTypes'
BY DEF ControlTypes

(* The invariant holds at the start,                                       *)
LEMMA ControlsInit == ASSUME ConstantsAssumption, Init PROVE ControlsInv
<1>1. DOMAIN wire = Addresses \cup {XuAddress} /\ DOMAIN written = Controls
  BY DEF Init
<1>2. \A c \in Controls : wire[Table[c].address] = Zeros(Table[c].length)
  <2> SUFFICES ASSUME NEW c \in Controls PROVE wire[Table[c].address] = Zeros(Table[c].length)
    OBVIOUS
  <2>1. Table[c].address \in Addresses /\ Table[c].address # XuAddress
    BY AddressesDiffer DEF Addresses
  <2>2. (CHOOSE d \in Controls : Table[d].address = Table[c].address) = c
    BY AddressesDiffer
  <2> QED
    BY <2>1, <2>2 DEF Init
<1>3. \A c \in Controls : wire[Table[c].address] \in [1 .. Table[c].length -> 0 .. 255]
  <2>1. \A n : Zeros(n) \in [1 .. n -> 0 .. 255]
    BY DEF Zeros
  <2> QED
    BY <1>2, <2>1
<1>4. \A c \in Controls : Unpack(c, wire[Table[c].address]) \in written[c]
  <2>1. written = [c \in Controls |-> {Unpack(c, Zeros(Table[c].length))}]
    BY DEF Init
  <2> QED
    BY <1>2, <2>1
<1>5. ControlTypes
  <2>1. /\ family \in Families /\ sets = 0 /\ accesses = 0
        /\ reading = [t \in Threads |-> NoRegister]
    BY DEF Init
  <2>2. 0 \in 0 .. MaxSets /\ 0 \in 0 .. MaxAccesses
    BY DEF ConstantsAssumption
  <2> QED
    BY <1>3, <2>1, <2>2 DEF ControlTypes
<1>6. ReadBack /\ BytesReal /\ LengthReal /\ AsicReadsAsked
  BY DEF Init, Answer, ReadBack, BytesReal, LengthReal, AsicReadsAsked
<1>7. alone = {}
  BY DEF Init
<1> QED
  BY <1>1, <1>4, <1>5, <1>6, <1>7 DEF ControlsInv, AnswersRight

(* a set puts down what a get will make of the data,                        *)
LEMMA SetStep ==
    ASSUME ConstantsAssumption, ControlsInv, NEW c \in Controls, NEW p \in 1 .. Patterns,
           NEW n \in Counts(c), Set(c, p, n)
    PROVE  ControlsInv'
<1> DEFINE values == Values(c, p)
           here == Table[c].address
<1>1. PICK taken \in BOOLEAN :
        /\ n = Table[c].length => taken
        /\ wire' = [wire EXCEPT ![here] = IF taken THEN Pack(c, values) ELSE @]
  BY DEF Set
<1>2. written' = [written EXCEPT ![c] = IF n = Table[c].length THEN {values} ELSE @ \union {values}]
  BY DEF Set
<1>3. /\ DOMAIN wire' = Addresses \cup {XuAddress} /\ DOMAIN written' = Controls
      /\ here \in DOMAIN wire
  BY <1>1, <1>2 DEF ControlsInv, Addresses
<1>4. ASSUME NEW d \in Controls, d # c
      PROVE  wire'[Table[d].address] = wire[Table[d].address] /\ written'[d] = written[d]
  BY <1>1, <1>2, <1>3, <1>4, AddressesDiffer DEF ControlsInv
<1>5. wire'[here] = IF taken THEN Pack(c, values) ELSE wire[here]
  BY <1>1, <1>3
<1>6. /\ Pack(c, values) \in [1 .. Table[c].length -> 0 .. 255]
      /\ Unpack(c, Pack(c, values)) = values
  BY SampleFits, PackIs, ControlsReadBack
<1>7. /\ values \in written'[c]
      /\ ~taken => Unpack(c, wire[here]) \in written'[c]
  BY <1>1, <1>2 DEF ControlsInv
<1>8. \A d \in Controls : Unpack(d, wire'[Table[d].address]) \in written'[d]
  BY <1>4, <1>5, <1>6, <1>7 DEF ControlsInv
<1>9. \A d \in Controls : wire'[Table[d].address] \in [1 .. Table[d].length -> 0 .. 255]
  <2> SUFFICES ASSUME NEW d \in Controls
               PROVE  wire'[Table[d].address] \in [1 .. Table[d].length -> 0 .. 255]
    OBVIOUS
  <2>1. wire[Table[d].address] \in [1 .. Table[d].length -> 0 .. 255]
    BY DEF ControlsInv, AnswersRight, ControlTypes
  <2>2. CASE d # c
    BY <1>4, <2>1, <2>2
  <2>3. CASE d = c
    BY <1>5, <1>6, <2>1, <2>3
  <2> QED
    BY <2>2, <2>3
<1>10. /\ result' = Answer("set", Status(c, n), None) /\ sets' = sets + 1 /\ sets < MaxSets
       /\ UNCHANGED <<family, asicVars>>
  BY DEF Set
<1>11. ControlTypes'
  <2>1. sets' \in 0 .. MaxSets
    BY <1>10 DEF ControlsInv, AnswersRight, ControlTypes, ConstantsAssumption
  <2> QED
    BY <1>9, <1>10, <2>1, TypesKept DEF ControlsInv, AnswersRight, ControlTypes, asicVars
<1>12. ReadBack' /\ BytesReal' /\ LengthReal' /\ AsicReadsAsked'
  BY <1>10 DEF Answer, ReadBack, BytesReal, LengthReal, AsicReadsAsked
<1> QED
  BY <1>3, <1>8, <1>10, <1>11, <1>12 DEF ControlsInv, AnswersRight, asicVars

(* and a get hands that out.                                                *)
LEMMA GetStep ==
    ASSUME ControlsInv, NEW c \in Controls, NEW n \in Counts(c), Get(c, n)
    PROVE  ControlsInv'
<1>1. UNCHANGED <<family, tableVars, asicVars>>
  BY DEF Get
<1>2. /\ result'.call = "get" /\ result'.control = c
      /\ result'.out = IF n = Table[c].length THEN Unpack(c, wire[Table[c].address]) ELSE None
  BY DEF Get
<1>3. ReadBack'
  BY <1>1, <1>2 DEF ControlsInv, ReadBack, tableVars
<1>4. BytesReal' /\ LengthReal' /\ AsicReadsAsked'
  BY <1>2 DEF BytesReal, LengthReal, AsicReadsAsked
<1>5. ControlTypes'
  BY <1>1 DEF ControlsInv, AnswersRight, ControlTypes, tableVars, asicVars
<1> QED
  BY <1>1, <1>3, <1>4, <1>5 DEF ControlsInv, AnswersRight, tableVars, asicVars

(* A call on the extension unit leaves every control alone.                 *)
LEMMA XuChanged ==
    ASSUME ControlsInv, NEW data, wire' = [wire EXCEPT ![XuAddress] = data]
    PROVE  /\ DOMAIN wire' = DOMAIN wire
           /\ \A c \in Controls : wire'[Table[c].address] = wire[Table[c].address]
BY AddressesDiffer DEF Addresses

(* What the calls on the extension unit change.                             *)
LEMMA XuCall ==
    ASSUME XuNext
    PROVE  /\ UNCHANGED <<family, written, asicVars>>
           /\ sets' = sets \/ (sets' = sets + 1 /\ sets < MaxSets)
           /\ wire' = wire \/ \E data : wire' = [wire EXCEPT ![XuAddress] = data]
           /\ BytesReal' /\ LengthReal'
           /\ result'.call \notin {"get", "asic"}
<1> DEFINE Calm == UNCHANGED <<family, written, asicVars>>
           Counted == sets' = sets \/ (sets' = sets + 1 /\ sets < MaxSets)
           AtXu == wire' = wire \/ \E data : wire' = [wire EXCEPT ![XuAddress] = data]
           Told == BytesReal' /\ LengthReal' /\ result'.call \notin {"get", "asic"}
<1>1. ASSUME NEW l \in 0 .. XuLength, NEW n \in XuCounts(l), GetXuData(l, n)
      PROVE  Calm /\ Counted /\ AtXu /\ Told
  <2>1. Calm /\ sets' = sets /\ wire' = wire
    BY <1>1 DEF GetXuData, tableVars
  <2>2. CASE result'.out = None /\ result'.call = "getxu"
    BY <2>1, <2>2 DEF BytesReal, LengthReal
  <2>3. CASE l # 0 /\ ~(n <= 0)
    <3> DEFINE out == [b \in 1 .. l |-> IF b <= n THEN wire[XuAddress][b] ELSE 0]
    <3>1. l \in Nat /\ n \in 1 .. l
      BY <2>3 DEF XuLength, XuCounts, Pipe
    <3>2. result' = Got("getxu", 0, out, n)
      BY <1>1, <2>3 DEF GetXuData
    <3>3. Len(out) = l
      BY <3>1
    <3>4. /\ \A b \in 1 .. n : out[b] = wire'[XuAddress][b]
          /\ \A b \in n + 1 .. l : out[b] = 0
      BY <2>1, <3>1
    <3> HIDE DEF out
    <3>5. /\ result'.call = "getxu" /\ result'.out = out /\ result'.came = n
      BY <3>2 DEF Got
    <3>6. Told
      BY <3>1, <3>3, <3>4, <3>5 DEF BytesReal, LengthReal
    <3> QED
      BY <2>1, <3>6
  <2>4. CASE l = 0 \/ n <= 0
    BY <1>1, <2>2, <2>4 DEF GetXuData, Answer
  <2> QED
    BY <2>3, <2>4
<1>2. ASSUME NEW l \in 1 .. XuLength, GetXuDataNoMemory(l)
      PROVE  Calm /\ Counted /\ AtXu /\ Told
  BY <1>2 DEF GetXuDataNoMemory, tableVars, Answer, BytesReal, LengthReal
<1>3. ASSUME NEW d \in XuBuffers, NEW n \in XuCounts(Len(d)), SetXuData(d, n)
      PROVE  Calm /\ Counted /\ AtXu /\ Told
  <2>1. Calm /\ Counted /\ result'.call = "setxu"
    BY <1>3 DEF SetXuData, Answer
  <2>2. AtXu
    BY <1>3 DEF SetXuData
  <2> QED
    BY <2>1, <2>2 DEF BytesReal, LengthReal
<1>4. ASSUME NEW l \in 1 .. XuLength, NEW n \in XuCounts(l), GetCtrl(l, n)
      PROVE  Calm /\ Counted /\ AtXu /\ Told
  <2>1. Calm /\ sets' = sets /\ wire' = wire
    BY <1>4 DEF GetCtrl, tableVars
  <2>2. CASE n > 0
    <3> DEFINE out == SubSeq(wire[XuAddress], 1, n)
    <3>1. n \in Nat /\ n >= 1
      BY <2>2 DEF XuLength, XuCounts, Pipe
    <3>2. out = [b \in 1 .. n |-> wire[XuAddress][b]]
      BY <3>1
    <3>3. result' = Got("getctrl", n, out, n)
      BY <1>4, <2>2 DEF GetCtrl
    <3> HIDE DEF out
    <3>4. Len(out) = n /\ \A b \in 1 .. n : out[b] = wire'[XuAddress][b]
      BY <2>1, <3>1, <3>2
    <3>5. result'.call = "getctrl" /\ result'.out = out /\ result'.came = n /\ result'.ret = n
      BY <3>3 DEF Got
    <3>6. Told
      BY <3>1, <3>4, <3>5 DEF BytesReal, LengthReal
    <3> QED
      BY <2>1, <3>6
  <2>3. CASE ~(n > 0)
    <3>1. result'.call = "getctrl" /\ result'.out = None
      BY <1>4, <2>3 DEF GetCtrl, Answer
    <3> QED
      BY <2>1, <3>1 DEF BytesReal, LengthReal
  <2> QED
    BY <2>2, <2>3
<1>5. ASSUME NEW d \in XuBuffers \ {<<>>}, NEW n \in XuCounts(Len(d)), SetCtrl(d, n)
      PROVE  Calm /\ Counted /\ AtXu /\ Told
  <2>1. Calm /\ Counted /\ result'.call = "setctrl"
    BY <1>5 DEF SetCtrl, Answer
  <2>2. AtXu
    BY <1>5 DEF SetCtrl
  <2> QED
    BY <2>1, <2>2 DEF BytesReal, LengthReal
<1>6. ASSUME NEW n \in XuCounts(2), NEW stack \in {0, 255}, GetCtrlLen(n, stack)
      PROVE  Calm /\ Counted /\ AtXu /\ Told
  <2> DEFINE buf == [b \in 1 .. 2 |-> IF b <= n THEN ToBytes(XuLength, 2)[b] ELSE stack]
  <2>1. Calm /\ sets' = sets /\ wire' = wire
    BY <1>6 DEF GetCtrlLen, tableVars
  <2> DEFINE told == FromBytes(buf, FALSE)
  <2>2. result' = Got("getlen", IF n < 0 THEN n ELSE told, None, n)
    BY <1>6 DEF GetCtrlLen
  <2>3. n = 2 => buf = <<2, 0>>
    BY DEF ToBytes, XuLength, Weights
  <2>4. FromBytes(<<2, 0>>, FALSE) = XuLength
    BY DEF FromBytes, XuLength, Weights
  <2>5. n = 2 => told = XuLength
    BY <2>3, <2>4
  <2> HIDE DEF told
  <2>6. Told
    BY <2>2, <2>5 DEF Got, BytesReal, LengthReal
  <2> QED
    BY <2>1, <2>6
<1>7. ASSUME NEW l \in 1 .. 2, NEW n \in {1, Pipe, 0}, NEW stack \in {0, 255},
             GetCtMax(l, n, stack)
      PROVE  Calm /\ Counted /\ AtXu /\ Told
  <2> DEFINE out == [b \in 1 .. l |-> IF b <= n THEN AeMinimum[b] ELSE stack]
  <2>1. Calm /\ sets' = sets /\ wire' = wire
    BY <1>7 DEF GetCtMax, tableVars
  <2>2. CASE n = 1
    <3>1. result' = Got("ctmax", 0, out, 1)
      BY <1>7, <2>2 DEF GetCtMax
    <3>2. Len(out) = l /\ out[1] = AeMinimum[1]
      BY <2>2
    <3> HIDE DEF out
    <3>3. result'.call = "ctmax" /\ result'.out = out /\ result'.came = 1
      BY <3>1 DEF Got
    <3>4. Told
      BY <3>2, <3>3 DEF BytesReal, LengthReal
    <3> QED
      BY <2>1, <3>4
  <2>3. CASE n # 1
    <3>1. result'.call = "ctmax" /\ result'.out = None
      BY <1>7, <2>3 DEF GetCtMax, Answer, Pipe
    <3> QED
      BY <2>1, <3>1 DEF BytesReal, LengthReal
  <2> QED
    BY <2>2, <2>3
<1>8. Calm /\ Counted /\ AtXu /\ Told
  <2> HIDE DEF Calm, Counted, AtXu, Told
  <2> QED
    BY <1>1, <1>2, <1>3, <1>4, <1>5, <1>6, <1>7 DEF XuNext
<1> QED
  BY <1>8

(* They keep the invariant.                                                 *)
LEMMA XuStep == ASSUME ConstantsAssumption, ControlsInv, XuNext PROVE ControlsInv'
<1>1. /\ UNCHANGED <<family, written, asicVars>>
      /\ sets' = sets \/ (sets' = sets + 1 /\ sets < MaxSets)
      /\ wire' = wire \/ \E data : wire' = [wire EXCEPT ![XuAddress] = data]
  BY XuCall
<1>2. /\ DOMAIN wire' = DOMAIN wire
      /\ \A c \in Controls : wire'[Table[c].address] = wire[Table[c].address]
  BY <1>1, XuChanged
<1>3. ControlTypes'
  <2>1. sets' \in 0 .. MaxSets
    BY <1>1 DEF ControlsInv, AnswersRight, ControlTypes, ConstantsAssumption
  <2> QED
    BY <1>1, <1>2, <2>1, TypesKept DEF ControlsInv, AnswersRight, ControlTypes, asicVars
<1>4. ReadBack' /\ AsicReadsAsked' /\ BytesReal' /\ LengthReal'
  BY XuCall DEF ReadBack, AsicReadsAsked
<1> QED
  BY <1>1, <1>2, <1>3, <1>4 DEF ControlsInv, AnswersRight, asicVars

(* What the calls on the chip's registers change.                           *)
LEMMA AsicCall ==
    ASSUME ConstantsAssumption, ControlsInv, NEW t \in Threads,
           \/ \E r \in Registers : AsicPoint(t, r)
           \/ AsicFetch(t)
           \/ AsicReadFails(t)
           \/ \E r \in Registers, v \in {1, 2} : AsicWrite(t, r, v)
    PROVE  /\ UNCHANGED <<family, tableVars>>
           /\ reading' \in [Threads -> Registers \union {NoRegister}]
           /\ accesses' \in 0 .. MaxAccesses
           /\ \A u \in Threads : u \in alone' /\ reading'[u] # NoRegister => latch' = reading'[u]
<1>1. /\ reading \in [Threads -> Registers \union {NoRegister}]
      /\ accesses \in 0 .. MaxAccesses /\ MaxAccesses \in Nat
      /\ \A u \in Threads : u \in alone /\ reading[u] # NoRegister => latch = reading[u]
  BY DEF ControlsInv, AnswersRight, ControlTypes, ConstantsAssumption
<1>2. ASSUME NEW r \in Registers, AsicPoint(t, r)
      PROVE  /\ UNCHANGED <<family, tableVars>>
             /\ reading' = [reading EXCEPT ![t] = r]
             /\ accesses' \in 0 .. MaxAccesses
             /\ \A u \in Threads : u \in alone' => u = t /\ latch' = r
  BY <1>1, <1>2 DEF AsicPoint
<1>3. ASSUME AsicFetch(t) \/ AsicReadFails(t)
      PROVE  /\ UNCHANGED <<family, tableVars>>
             /\ reading' = [reading EXCEPT ![t] = NoRegister]
             /\ UNCHANGED <<accesses, alone, latch>>
  BY <1>3 DEF AsicFetch, AsicReadFails
<1>4. ASSUME NEW r \in Registers, NEW v \in {1, 2}, AsicWrite(t, r, v)
      PROVE  /\ UNCHANGED <<family, tableVars, reading>>
             /\ accesses' \in 0 .. MaxAccesses
             /\ alone' = {}
  BY <1>1, <1>4 DEF AsicWrite
<1>5. CASE \E r \in Registers : AsicPoint(t, r)
  BY <1>1, <1>2, <1>5
<1>6. CASE AsicFetch(t) \/ AsicReadFails(t)
  BY <1>1, <1>3, <1>6
<1>7. CASE \E r \in Registers, v \in {1, 2} : AsicWrite(t, r, v)
  BY <1>1, <1>4, <1>7
<1> QED
  BY <1>5, <1>6, <1>7

(* They keep the invariant: an undisturbed thread reads what it asked for.  *)
LEMMA AsicStep == ASSUME ConstantsAssumption, ControlsInv, AsicNext PROVE ControlsInv'
<1>1. PICK t \in Threads :
        \/ \E r \in Registers : AsicPoint(t, r)
        \/ AsicFetch(t)
        \/ AsicReadFails(t)
        \/ \E r \in Registers, v \in {1, 2} : AsicWrite(t, r, v)
  BY DEF AsicNext
<1>2. /\ UNCHANGED <<family, tableVars>>
      /\ reading' \in [Threads -> Registers \union {NoRegister}]
      /\ accesses' \in 0 .. MaxAccesses
      /\ \A u \in Threads : u \in alone' /\ reading'[u] # NoRegister => latch' = reading'[u]
  BY <1>1, AsicCall
<1>3. ControlTypes'
  BY <1>2, TypesKept DEF ControlsInv, AnswersRight, ControlTypes, tableVars
<1>4. /\ AsicReadsAsked'
      /\ result' = result \/ result'.call \notin {"get", "getxu", "getctrl", "ctmax", "getlen"}
  <2>1. CASE AsicFetch(t)
    <3>1. /\ result'.register = reading[t] /\ result'.out = regs[latch]
          /\ result'.sure = (t \in alone) /\ regs' = regs /\ reading[t] # NoRegister
          /\ result'.call = "asic"
      BY <2>1 DEF AsicFetch
    <3> QED
      BY <3>1 DEF ControlsInv, AsicReadsAsked
  <2>2. CASE AsicReadFails(t) \/ \E r \in Registers, v \in {1, 2} : AsicWrite(t, r, v)
    <3>1. result'.call \in {"asicfail", "asicset"}
      BY <2>2 DEF AsicReadFails, AsicWrite, Answer
    <3> QED
      BY <3>1 DEF AsicReadsAsked
  <2>3. CASE \E r \in Registers : AsicPoint(t, r)
    BY <2>3 DEF AsicPoint, ControlsInv, AnswersRight, AsicReadsAsked
  <2> QED
    BY <1>1, <2>1, <2>2, <2>3
<1>5. ReadBack' /\ BytesReal' /\ LengthReal'
  BY <1>2, <1>4 DEF ControlsInv, AnswersRight, ReadBack, BytesReal, LengthReal, tableVars
<1> QED
  BY <1>2, <1>3, <1>4, <1>5 DEF ControlsInv, AnswersRight, tableVars

(* Every step keeps the invariant.                                          *)
LEMMA ControlsStep ==
    ASSUME ConstantsAssumption, ControlsInv, [Next]_vars
    PROVE  ControlsInv'
<1>1. CASE TableNext
  BY <1>1, SetStep, GetStep DEF TableNext
<1>2. CASE XuNext
  BY <1>2, XuStep
<1>3. CASE AsicNext
  BY <1>3, AsicStep
<1>4. CASE UNCHANGED vars
  BY <1>4 DEF vars, tableVars, asicVars, ControlsInv, AnswersRight, ControlTypes, ReadBack,
     BytesReal, LengthReal, AsicReadsAsked
<1> QED
  BY <1>1, <1>2, <1>3, <1>4 DEF Next

(* The procedures of SonixControls leave the state of UvcControls alone.    *)
LEMMA SonixQuiet ==
    ASSUME [SonixNext]_<<vars, sonixVars>>
    PROVE  [Next]_vars
<1>1. CASE \E text \in Texts : FlashWrite(text)
  BY <1>1 DEF FlashWrite, vars, tableVars
<1>2. CASE \E n \in (0 .. 2 * Page + 1) \union {Sector, Sector + Page} : FlashRead(n)
  BY <1>2 DEF FlashRead, vars, tableVars
<1>3. CASE \E ch \in 0 .. 2, v \in {"off", "dim", "on"} : LedSetValue(ch, v)
  BY <1>3 DEF LedSetValue, vars, tableVars
<1>4. CASE LedInit \/ LedClose
  BY <1>4 DEF LedInit, LedClose, vars, tableVars
<1>5. CASE \E n \in {4, 6, 7, 8} : LedRead(n)
  BY <1>5 DEF LedRead, vars, tableVars
<1>6. CASE FlashAccess \/ I2cAccess \/ I2cTake
  BY <1>6 DEF FlashAccess, I2cAccess, I2cTake, vars, tableVars
<1> QED
  BY <1>1, <1>2, <1>3, <1>4, <1>5, <1>6 DEF SonixNext

(* AnswersRight, for any threads, registers and number of calls: a getter of  *)
(* ctrl-gen.c hands out values the last sets of its control may have left,   *)
(* those with a buffer of the caller's as many bytes of the device as came,  *)
(* uvc_get_ctrl_len the length the device told in two bytes, and             *)
(* uvc_get_xu_asic the register it was asked for unless another thread came  *)
(* between its two transfers.                                               *)
THEOREM ControlAnswersRight == Spec => []AnswersRight
<1>1. Init => ControlsInv
  BY ControlsInit, ConstantsAssumption
<1>2. ControlsInv /\ [Next]_vars => ControlsInv'
  BY ControlsStep, ConstantsAssumption
<1>3. ControlsInv => AnswersRight
  BY DEF ControlsInv
<1> QED
  BY <1>1, <1>2, <1>3, PTL DEF Spec

(* The same while the procedures of capSonixCtrls.cpp run on the same device.  *)
THEOREM SonixAnswersRight == SonixSpec => []AnswersRight
<1>1. SonixInit => ControlsInv
  BY ControlsInit, ConstantsAssumption DEF SonixInit
<1>2. ControlsInv /\ [SonixNext]_<<vars, sonixVars>> => ControlsInv'
  BY ControlsStep, SonixQuiet, ConstantsAssumption
<1>3. ControlsInv => AnswersRight
  BY DEF ControlsInv
<1> QED
  BY <1>1, <1>2, <1>3, PTL DEF SonixSpec

=============================================================================
