----------------------------- MODULE UvcCapture -----------------------------
(***************************************************************************)
(* SgCamera (uvcCamera.cpp) and the capture object UVC4Linux behind it     *)
(* (UVC4Linux.cpp): opening a camera, changing its settings, which         *)
(* restarts the stream, and reading images.  One thread makes the calls;   *)
(* getFrameCallBack runs on the thread of the stream, which UvcStream      *)
(* models: uvc_stop_streaming returns when that thread has ended.  The     *)
(* monitor thread is compiled out, and with it goes Reopen.                *)
(***************************************************************************)
EXTENDS UvcFrame

CONSTANTS Modes,     \* <<format, size, fps>> the camera offers
          Rates,     \* frame rates that are asked for
          StillSize, \* the size of a still image
          Cameras,   \* cameras with the vendor and product id
          Grid,      \* settings are asked for in steps of 1 / Grid
          Lengths,   \* lengths of update packages
          MaxOpens   \* bound on the calls of SgCamera::open

CaptureAssumption ==
    /\ Cameras \in Nat /\ MaxOpens \in Nat /\ Grid \in Nat \ {0}
    /\ StillSize \in Nat \X Nat /\ Lengths \subseteq Nat
ASSUME CaptureAssumption

VARIABLES
  obj,       \* the capture object, or Gone
  left,      \* uvc contexts, handles and device references that exist
  clean,     \* history: no open has failed and no mode was rejected
  opens,     \* calls of SgCamera::open
  pc,        \* the caller: "idle" or "waiting" in grabFrame
  readFrame, \* m_bReadFrame
  cb,        \* the frame getFrameCallBack is storing, or Idle
  stills,    \* still images the camera still has to send (0 or 1)
  buffers,   \* m_buffers: "null", "live" or "freed"
  held,      \* the frame in m_buffers
  image,     \* what the last read copied
  asked,     \* history: the width and then the height that were set
  last,      \* the outcome of the last setProperty of a control
  fault      \* use of memory that is gone, or "none"

objectVars == <<obj, left, clean, opens, asked>>
frameVars == <<pc, readFrame, cb, buffers, held, image>>
captureVars == <<objectVars, frameVars, stills, last, fault>>

Gone == [alive |-> FALSE]
Idle == [size |-> <<0, 0>>, bytes |-> 0, still |-> FALSE]
NoFrame == [size |-> <<0, 0>>, bytes |-> 0, still |-> FALSE, fresh |-> FALSE]
Nothing == [call |-> "none"]
NoImage == [fresh |-> TRUE, still |-> FALSE, copied |-> 0, room |-> 0]
NoStream == "none"

\* The tables of AdjustParam: the sizes of a format, in the order searched
Dimensions ==
    [MJPEG |-> << <<640, 480>>, <<320, 240>>, <<800, 600>>, <<1280, 720>> >>,
     YUYV |-> << <<1280, 720>>, <<640, 480>>, <<320, 240>>, <<800, 600>> >>]
Formats == DOMAIN Dimensions

-----------------------------------------------------------------------------
(* The operations of the object, as functions from objects to objects.     *)

\* UVC4Linux(): with uvc_init
NewObject == [alive |-> TRUE, ctx |-> "live", devh |-> "null", init |-> FALSE,
              started |-> FALSE, running |-> NoStream, status |-> "ready",
              format |-> "YUYV", palette |-> "BGR", size |-> <<640, 480>>, fps |-> 5,
              trigger |-> 0]

\* Mutant: the width and the height must both match
Adjusted_Both(o, w, h) ==
    LET table == Dimensions[o.format]
        fits == {i \in DOMAIN table : table[i] = <<w, h>>}
    IN  IF fits = {} THEN o
        ELSE [o EXCEPT !.size = table[CHOOSE i \in fits : \A j \in fits : i <= j]]
\* AdjustParam: the first size with that width or that height
Adjusted(o, w, h) ==
    LET table == Dimensions[o.format]
        fits == {i \in DOMAIN table : table[i][1] = w \/ table[i][2] = h}
    IN  IF fits = {} THEN o
        ELSE [o EXCEPT !.size = table[CHOOSE i \in fits : \A j \in fits : i <= j]]

\* closeVideoStream
\* Mutant: closing the stream also takes m_bInit back
StreamClosed_Uninit(o) ==
    IF o.init /\ o.devh # "null"
      THEN [o EXCEPT !.running = NoStream, !.started = FALSE, !.init = FALSE] ELSE o
StreamClosed(o) ==
    IF o.init /\ o.devh # "null"
      THEN [o EXCEPT !.running = NoStream, !.started = FALSE] ELSE o

Offered(o) == <<o.format, o.size, o.fps>> \in Modes
Started(o) == [o EXCEPT !.init = TRUE, !.started = TRUE, !.status = "open",
                        !.running = <<o.format, o.size>>]
\* a mode the camera does not offer: uvc_exit, and m_devh is left as it is
Rejected(o) == [o EXCEPT !.ctx = "gone", !.running = NoStream, !.init = FALSE]

\* openVideoStream: every object it may leave; starting the stream may fail
StreamOpened(o) ==
    IF o.devh = "null" THEN {o}
    ELSE IF ~Offered(o) THEN {Rejected(o)}
    ELSE {Started(o), o}

\* what uvc_exit leaves of a context that has some handles open: they are closed
Exited(resources, handles) ==
    [contexts |-> resources.contexts - 1, handles |-> resources.handles - handles,
     refs |-> resources.refs - handles]

\* ~UVC4Linux: what it leaves behind
Destroyed(o, resources) ==
    IF o.init
      THEN Exited([resources EXCEPT !.handles = @ - 1, !.refs = @ - 2], 0)
      ELSE resources

-----------------------------------------------------------------------------
\* A control call changes nothing but its own outcome, and a fault ends the
\* program: nothing is modelled after either.
Live == fault = "none" /\ conversion = NotConverted /\ last = Nothing
MayCall == Live /\ pc = "idle"
Quiet == UNCHANGED <<frameVars, conversion>>

CaptureInit ==
    /\ obj = Gone /\ left = [contexts |-> 0, handles |-> 0, refs |-> 0]
    /\ clean = TRUE /\ opens = 0 /\ pc = "idle" /\ readFrame = FALSE /\ cb = Idle
    /\ stills = 0 /\ buffers = "null" /\ held = NoFrame /\ image = NoImage
    /\ asked = <<0, 0>> /\ last = Nothing /\ fault = "none"
    /\ conversion = NotConverted

\* SgCamera::close, and SgCamera::open of an open camera before it goes on
Close ==
    /\ MayCall /\ obj.alive
    /\ left' = Destroyed(obj, left)
    /\ obj' = Gone /\ stills' = 0 /\ last' = Nothing /\ asked' = <<0, 0>>
    /\ buffers' = "null" /\ held' = NoFrame /\ image' = NoImage
    /\ UNCHANGED <<clean, opens, pc, readFrame, cb, fault, conversion>>

(* SgCamera::open(index) of a closed camera: uvcCreateCameraCapture and     *)
(* UVC4Linux::open.  A failure deletes the new object.                      *)
Opening == MayCall /\ ~obj.alive /\ opens < MaxOpens
Listed == [left EXCEPT !.contexts = @ + 1, !.refs = @ + Cameras]
Kept(o, resources) == obj' = o /\ left' = resources
Dropped(o, resources) == obj' = Gone /\ left' = Destroyed(o, resources)

Open(index) ==
    /\ Opening
    /\ opens' = opens + 1
    /\ \/ /\ Cameras = 0
          /\ Dropped(NewObject, Listed) /\ clean' = FALSE /\ fault' = fault
       \/ /\ index >= Cameras /\ Cameras > 0     \* only a message is printed
          /\ fault' = "no such camera" /\ Kept(NewObject, Listed) /\ clean' = FALSE
       \/ /\ index < Cameras                     \* uvc_open fails
          /\ Dropped([NewObject EXCEPT !.ctx = "gone"], Exited(Listed, 0))
          /\ clean' = FALSE /\ fault' = fault
       \/ /\ index < Cameras
          /\ LET opened == [NewObject EXCEPT !.devh = "open"]
                 held1 == [Listed EXCEPT !.handles = @ + 1, !.refs = @ + 1]
             IN  \E o \in StreamOpened(opened) :
                   IF o.started THEN Kept(o, held1) /\ clean' = clean
                   ELSE /\ Dropped(o, IF o.ctx = "gone" THEN Exited(held1, 1) ELSE held1)
                        /\ clean' = FALSE
          /\ fault' = fault
    /\ last' = Nothing /\ asked' = <<0, 0>>
    /\ UNCHANGED <<stills, frameVars, conversion>>

\* a call that uses m_devh after uvc_exit
Touched(o) == IF o.ctx = "gone" THEN "handle after exit" ELSE fault

\* The stream is closed and opened again with the settings of o
Restarted(o) ==
    /\ \E n \in StreamOpened(StreamClosed(o)) :
         IF o.ctx = "gone" THEN obj' = o /\ UNCHANGED <<left, clean>>
         ELSE /\ obj' = n
              /\ left' = IF n.ctx = "gone" THEN Exited(left, 1) ELSE left
              /\ clean' = (clean /\ n.ctx = "live")
    /\ fault' = Touched(o)
    /\ stills' = 0
    /\ UNCHANGED opens /\ Quiet

MaySet == MayCall /\ obj.alive

\* UVC_CAP_PROP_FRAME_WIDTH and UVC_CAP_PROP_FRAME_HEIGHT
SetWidth(w) ==
    /\ MaySet /\ Restarted(Adjusted(obj, w, 0))
    /\ asked' = <<w, 0>> /\ last' = Nothing
SetHeight(h) ==
    /\ MaySet /\ Restarted(Adjusted(obj, 0, h))
    /\ asked' = <<asked[1], h>> /\ last' = Nothing
SetFps(rate) ==
    /\ MaySet /\ Restarted([obj EXCEPT !.fps = rate])
    /\ asked' = <<0, 0>> /\ last' = Nothing
SetFormat(format) ==
    /\ MaySet /\ Restarted([obj EXCEPT !.format = format])
    /\ asked' = <<0, 0>> /\ last' = Nothing
SetMode(palette) ==
    /\ MaySet
    /\ obj' = [obj EXCEPT !.palette = palette]
    /\ asked' = <<0, 0>> /\ last' = Nothing
    /\ UNCHANGED <<left, clean, opens, stills, fault>> /\ Quiet

\* UVC_CAP_PROP_OPEN_STAT: start or stop the stream, if it is not so already
StartStream ==
    /\ MaySet /\ ~obj.started
    /\ \E n \in StreamOpened(obj) :
         IF obj.ctx = "gone" THEN UNCHANGED <<obj, left, clean>>
         ELSE /\ obj' = n
              /\ left' = IF n.ctx = "gone" THEN Exited(left, 1) ELSE left
              /\ clean' = (clean /\ n.ctx = "live")
    /\ fault' = Touched(obj)
    /\ last' = Nothing /\ asked' = <<0, 0>>
    /\ UNCHANGED <<opens, stills>> /\ Quiet
StopStream ==
    /\ MaySet /\ obj.started
    /\ obj' = StreamClosed(obj)
    /\ stills' = 0 /\ last' = Nothing /\ asked' = <<0, 0>>
    /\ UNCHANGED <<left, clean, opens, fault>> /\ Quiet

\* UVC_CAP_PROP_TRIGGER: uvc_trigger_still may fail; the mark stays set
Trigger(on) ==
    /\ MaySet
    /\ obj' = [obj EXCEPT !.trigger = on]
    /\ stills' \in IF on = 1 /\ obj.running # NoStream THEN {stills, 1} ELSE {stills}
    /\ fault' = IF on = 1 THEN Touched(obj) ELSE fault
    /\ last' = Nothing /\ asked' = <<0, 0>>
    /\ UNCHANGED <<left, clean, opens>> /\ Quiet

-----------------------------------------------------------------------------
(* Controls.  A caller's value is a fraction of the range of the property. *)

getRange ==
    [BRIGHTNESS |-> <<0, 8>>, CONTRAST |-> <<0, 6>>, SATURATION |-> <<0, 6>>,
     HUE |-> <<-40, 40>>, GAIN |-> <<0, 100>>, EXPOSURE |-> <<15, 5000>>,
     FOCUS |-> <<0, 1000>>, AUTOFOCUS |-> <<0, 1>>, AUTO_EXPOSURE |-> <<1, 2>>]
RangeSize(prop) == getRange[prop][2] - getRange[prop][1]

\* a double turned into an integer loses its fraction, towards zero
Truncated(num, den) == IF num >= 0 THEN num \div den ELSE -((-num) \div den)

Scaled(prop, m) ==
    IF prop = "AUTO_EXPOSURE" THEN (IF 2 * m > Grid THEN 2 ELSE 1)
    ELSE Truncated(m * RangeSize(prop) + getRange[prop][1] * Grid, Grid)

\* icvGetPropertyCAM_V4L: the numerator over RangeSize(prop)
Answered(prop, value) ==
    (IF prop \in {"AUTO_EXPOSURE", "EXPOSURE"} /\ value > getRange[prop][2]
       THEN getRange[prop][2] ELSE value) - getRange[prop][1]

SetControl(prop, m) ==
    /\ MaySet
    /\ last' = IF obj.ctx = "gone" THEN Nothing
               ELSE [call |-> "control", prop |-> prop, asked |-> m,
                     value |-> Scaled(prop, m)]
    /\ fault' = Touched(obj) /\ asked' = <<0, 0>>
    /\ UNCHANGED <<obj, left, clean, opens, stills>> /\ Quiet

\* UVC_CAP_PROP_UPDATE_PLG: the data in pieces of 29 bytes, the last marked
Piece == 29
Pieces(length) ==
    LET send[rest \in 0 .. length] ==
          IF rest = 0 THEN <<>>
          ELSE LET size == IF rest >= Piece THEN Piece ELSE rest
               IN  <<[from |-> length - rest, size |-> size, end |-> rest - size <= 0]>>
                   \o send[rest - size]
    IN  send[length]

\* A transfer may fail: the pieces before it have been sent.  The result -1
\* becomes true in UVC4Linux::setProperty.
UpdatePackage(length) ==
    /\ MaySet
    /\ \E sent \in 0 .. Len(Pieces(length)) :
         last' = IF obj.ctx = "gone" THEN Nothing
                 ELSE [call |-> "update", length |-> length,
                       sent |-> SubSeq(Pieces(length), 1, sent),
                       whole |-> sent = Len(Pieces(length)),
                       ret |-> length > 0]
    /\ fault' = Touched(obj) /\ asked' = <<0, 0>>
    /\ UNCHANGED <<obj, left, clean, opens, stills>> /\ Quiet

-----------------------------------------------------------------------------
(* Images.                                                                 *)

\* SgCamera::read, grabFrame: ask for a frame, then poll m_bReadFrame
\* Mutant: the frame that is there already will do
ReadAsk_NoFlag ==
    /\ MaySet
    /\ pc' = "waiting" /\ readFrame' = (buffers = "null")
    /\ image' = NoImage /\ held' = [held EXCEPT !.fresh = FALSE]
    /\ UNCHANGED <<objectVars, cb, buffers, stills, last, fault, conversion>>
ReadAsk ==
    /\ MaySet
    /\ pc' = "waiting" /\ readFrame' = TRUE
    /\ image' = NoImage /\ held' = [held EXCEPT !.fresh = FALSE]
    /\ UNCHANGED <<objectVars, cb, buffers, stills, last, fault, conversion>>

\* what get() answers for the width and height
Announced == IF obj.trigger = 1 THEN StillSize ELSE obj.size
Room == Pixels(Announced) * IF obj.palette = "GRAY" THEN 1 ELSE 3

\* the frame is there: the image is copied, unless the format is MJPEG
ReadGot ==
    /\ Live /\ pc = "waiting" /\ ~readFrame
    /\ pc' = "idle"
    /\ image' = [fresh |-> held.fresh, still |-> held.still, room |-> Room,
                 copied |-> IF obj.format = "MJPEG" THEN 0 ELSE held.bytes]
    /\ UNCHANGED <<objectVars, readFrame, cb, buffers, held, stills, last, fault, conversion>>

\* getFrameCallBack takes the frame only for a read, and while a still image
\* is awaited only a still image
Wanted(still) == readFrame /\ (obj.trigger = 1 => still)

FrameOf(still) ==
    LET size == IF still THEN StillSize ELSE obj.running[2]
    IN  [size |-> size, still |-> still, bytes |-> BytesOf("YUYV", size)]

\* the stream publishes a frame: a video frame, or the still image
Publish(still) ==
    /\ Live /\ obj.alive /\ obj.running # NoStream /\ cb = Idle
    /\ still => stills = 1
    /\ stills' = IF still THEN 0 ELSE stills
    /\ cb' = IF Wanted(still) THEN FrameOf(still) ELSE Idle
    /\ UNCHANGED <<objectVars, pc, readFrame, buffers, held, image, last, fault, conversion>>

\* m_buffers is freed, whatever it points to
FreeFault == IF buffers = "freed" THEN "buffer freed twice" ELSE fault

\* MJPEG: the frame is copied into the buffer that was just freed, or to NULL
StoreMjpeg ==
    /\ Live /\ cb # Idle /\ obj.format = "MJPEG"
    /\ fault' = IF buffers = "null" THEN "null buffer" ELSE "buffer after free"
    /\ cb' = Idle /\ readFrame' = FALSE
    /\ UNCHANGED <<objectVars, pc, buffers, held, image, stills, last, conversion>>

\* YUYV, to grey or as it is: a new frame is allocated and filled
StoredFrame == [size |-> cb.size, still |-> cb.still, fresh |-> TRUE,
                bytes |-> IF obj.palette = "GRAY" THEN Pixels(cb.size) ELSE cb.bytes]
\* Mutant: m_bReadFrame stays set
Store_KeepsFlag ==
    /\ Live /\ cb # Idle /\ obj.format # "MJPEG"
    /\ fault' = FreeFault
    /\ buffers' = "live" /\ held' = StoredFrame
    /\ cb' = Idle
    /\ UNCHANGED <<objectVars, pc, readFrame, image, stills, last, conversion>>
Store ==
    /\ Live /\ cb # Idle /\ obj.format # "MJPEG"
    /\ fault' = FreeFault
    /\ buffers' = "live" /\ held' = StoredFrame
    /\ cb' = Idle /\ readFrame' = FALSE
    /\ UNCHANGED <<objectVars, pc, image, stills, last, conversion>>
\* no memory for the frame, or none for its data: the read waits on
StoreFails ==
    /\ Live /\ cb # Idle /\ obj.format # "MJPEG"
    /\ fault' = FreeFault
    /\ buffers' \in {"null"} \cup IF obj.palette = "GRAY" THEN {} ELSE {"freed"}
    /\ cb' = Idle
    /\ UNCHANGED <<objectVars, pc, readFrame, held, image, stills, last, conversion>>

-----------------------------------------------------------------------------
Widths == {Dimensions[f][i][1] : f \in Formats, i \in 1 .. 4}
Heights == {Dimensions[f][i][2] : f \in Formats, i \in 1 .. 4}

CaptureNext ==
    \/ \E i \in 0 .. 1 : Open(i)
    \/ Close \/ StartStream \/ StopStream
    \/ \E w \in Widths : SetWidth(w)
    \/ \E h \in Heights : SetHeight(h)
    \/ \E rate \in Rates : SetFps(rate)
    \/ \E f \in Formats : SetFormat(f)
    \/ \E p \in {"BGR", "GRAY"} : SetMode(p)
    \/ \E on \in 0 .. 1 : Trigger(on)
    \/ \E p \in DOMAIN getRange, m \in 0 .. Grid : SetControl(p, m)
    \/ \E n \in Lengths : UpdatePackage(n)
    \/ ReadAsk \/ ReadGot
    \/ \E still \in BOOLEAN : Publish(still)
    \/ Store \/ StoreFails \/ StoreMjpeg

\* Converting a frame (UvcFrame) is a call of its own, before any other
ConvertFirst == opens = 0 /\ Convert /\ UNCHANGED captureVars

\* The thread of the stream and the polling reader keep running, the camera
\* sends video frames and the still image it was asked for, and memory is
\* not short for ever.
CaptureSpec ==
    /\ CaptureInit
    /\ [][CaptureNext \/ ConvertFirst]_<<captureVars, conversion>>
    /\ WF_captureVars(ReadGot)
    /\ WF_captureVars(Publish(FALSE)) /\ WF_captureVars(Publish(TRUE))
    /\ WF_captureVars(StoreMjpeg) /\ SF_captureVars(Store)

-----------------------------------------------------------------------------
\* Types, and that a frame is stored only while a stream runs and a read waits.
TypeOK ==
    /\ left \in [contexts : Int, handles : Int, refs : Int]
    /\ opens \in 0 .. MaxOpens /\ stills \in 0 .. 1
    /\ pc \in {"idle", "waiting"} /\ readFrame \in BOOLEAN
    /\ buffers \in {"null", "live", "freed"}
    /\ (readFrame => pc = "waiting")
    /\ (cb # Idle => readFrame /\ obj.running # NoStream)
    /\ (obj.alive /\ obj.running # NoStream => obj.init /\ obj.ctx = "live")

\* ~UVC4Linux after any sequence of settings gives back what the constructor,
\* getCaptureList and uvc_open took, if the camera was opened and no mode was
\* ever rejected (otherwise contexts and references are left: open, line 1217).
ReleasedOnClose ==
    ~obj.alive /\ clean /\ Cameras = 1 =>
        left = [contexts |-> 0, handles |-> 0, refs |-> 0]

\* However settings fail, uvc_exit is called once for each uvc_init: no count
\* falls below what exists (m_bInit guards the destructor).
ExitedOnce == left.contexts >= 0 /\ left.handles >= 0 /\ left.refs >= 0

\* Memory that is gone is used only after a mode was rejected, in MJPEG mode,
\* when memory was short, or for an index with no camera.
FaultsExplained ==
    /\ fault = "handle after exit" => ~clean /\ obj.ctx = "gone"
    /\ fault \in {"null buffer", "buffer after free"} => obj.format = "MJPEG"
    /\ fault = "buffer freed twice" => obj.palette = "BGR"

\* Setting the width and then the height of a supported size selects exactly
\* it, though AdjustParam looks at one of them at a time.
SizeAsAsked ==
    obj.alive /\ (\E i \in 1 .. 4 : Dimensions[obj.format][i] = asked) => obj.size = asked

\* SgCamera::read returns a frame that came after it asked, and copies no more
\* than the size and palette that get() answers give room for, unless a still
\* image came after the trigger had been taken back.
ReadFits ==
    /\ image.fresh
    /\ image.copied > image.room => image.still

\* What a control is set to lies in its range, within a step of what was asked,
\* and is read back as that.
ControlAsAsked ==
    last.call = "control" =>
        LET p == last.prop IN
        /\ getRange[p][1] <= last.value /\ last.value <= getRange[p][2]
        /\ p # "AUTO_EXPOSURE" =>
             LET off == Answered(p, last.value) * Grid - last.asked * RangeSize(p)
             IN  -Grid < off /\ off < Grid

\* The pieces of an update that went through are the data, whole and in order,
\* and the end mark is on the last piece and no other.
UpdateWhole ==
    last.call = "update" =>
        /\ \A i \in DOMAIN last.sent :
              /\ last.sent[i].from = IF i = 1 THEN 0
                                     ELSE last.sent[i - 1].from + last.sent[i - 1].size
              /\ last.sent[i].end <=>
                   last.sent[i].from + last.sent[i].size = last.length
        /\ last.whole /\ last.length > 0 => last.sent[Len(last.sent)].end

\* A read of a running video stream returns, unless memory that is gone is used.
VideoReadReturns ==
    (pc = "waiting" /\ obj.running # NoStream /\ obj.trigger = 0)
        ~> (pc = "idle" \/ fault # "none")

\* What the capture object takes from libuvc it gives back once, and it uses
\* what is gone only in the known cases, whatever settings fail in between.
ObjectSound == TypeOK /\ ReleasedOnClose /\ ExitedOnce /\ FaultsExplained

\* Settings arrive at the camera as they were asked for: the size through two
\* calls, a control through two scalings, an update in pieces.
SettingsAsAsked == SizeAsAsked /\ ControlAsAsked /\ UpdateWhole

=============================================================================
