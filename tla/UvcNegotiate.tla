---------------------------- MODULE UvcNegotiate ----------------------------
(***************************************************************************)
(* Setting up a stream (device.c, stream.c): a camera's descriptors are    *)
(* read and parsed, a format, a size and a rate are negotiated with it,    *)
(* then a still image; the result is committed, an alternate setting and   *)
(* the size of the transfers are chosen, and frames get their size.  Each  *)
(* control transfer may fail.  The camera, external, takes what it         *)
(* describes, and answers with what it took.  UvcStream has what happens   *)
(* on a stream's threads.                                                  *)
(***************************************************************************)
EXTENDS UvcDescriptors

CONSTANTS Cameras,  \* [raw, payload, sized, tis, ...] for each camera
          Asks,     \* <<format, size, fps>> a caller may ask for
          Stills,   \* sizes of still images a caller may ask for
          Texts,    \* strings of a device, as sequences of characters
          MaxCalls  \* bound on negotiations

VARIABLES
  camera,   \* the camera
  info,     \* uvc_device_info_t of the open handle, or Closed
  claimed,  \* the bits of devh->claimed
  ctrl,     \* the caller's uvc_stream_ctrl_t
  still,    \* the caller's uvc_still_ctrl_t
  streams,  \* devh->streams: a function of interface numbers
  probe,    \* what the camera has taken, for each interface
  asked,    \* history: what ctrl was negotiated for
  calls,    \* negotiations so far
  image,    \* the geometry of the frame that was populated last
  answer,   \* result of a call that reads a descriptor
  fault     \* what stopped the program, or "none"

negotiateVars == <<camera, info, claimed, ctrl, still, streams, probe, asked, calls, image,
                   answer, fault>>

Closed == [ret |-> "closed"]
NoStream == [alt |-> -1]
NoAsk == [ret |-> "none"]
NoImage == [iface |-> -1]
NoAnswer == [call |-> "none"]
\* fields as the caller's memset leaves them
ZeroCtrl == [iface |-> 0, format |-> 0, frame |-> 0, interval |-> 0, maxFrame |-> 0,
             maxPayload |-> 0, clock |-> 0, still |-> FALSE]
ZeroStill == [iface |-> 0, format |-> 0, frame |-> 0, bytes |-> 0]

Configs == <<camera.raw>>
\* the configuration of each camera, read whole
Trees == [c \in Cameras |->
            ConfigDescriptor(<<c.raw>>, 0, ConfigLength, TotalLength(c.raw)).config]
Config == Trees[camera]
NumbersOf(c) == {c.raw[i].number : i \in {j \in DOMAIN c.raw : c.raw[j].type = "interface"}}
Numbers == NumbersOf(camera)

-----------------------------------------------------------------------------
(* What a camera describes.                                                *)

\* every <<streaming interface, format, frame>>, in the order of the lists
PlacesIn(i) ==
    UNION {UNION {{<<s, f, r>> : r \in DOMAIN i.streams[s].formats[f].frames}
                    : f \in DOMAIN i.streams[s].formats}
             : s \in DOMAIN i.streams}
Before(a, b) == \/ a[1] < b[1]
                \/ a[1] = b[1] /\ a[2] < b[2]
                \/ a[1] = b[1] /\ a[2] = b[2] /\ a[3] < b[3]
FormatIn(i, p) == i.streams[p[1]].formats[p[2]]
FrameIn(i, p) == FormatIn(i, p).frames[p[3]]
NumberIn(i, p) == i.streams[p[1]].number
SameIndices(i, p, q) == /\ FormatIn(i, p).index = FormatIn(i, q).index
                        /\ FrameIn(i, p).index = FrameIn(i, q).index

\* bytes per packet of the first endpoint that has a companion or the address
\* of the stream; [unused:2 (multiplier-1):3 size:11]
PacketBytes(setting, address) ==
    LET fits == {e \in DOMAIN setting.endpoints :
                   CompanionBytes(setting.endpoints[e]) # 0
                   \/ setting.endpoints[e].address = address}
    IN  IF fits = {} THEN 0
        ELSE LET e == setting.endpoints[CHOOSE i \in fits : \A j \in fits : i <= j]
             IN  IF CompanionBytes(e) # 0 THEN CompanionBytes(e)
                 ELSE (e.packet % 2048) * (((e.packet \div 2048) % 4) + 1)
SettingsIn(i, number) == i.config.interfaces[number + 1]

\* What the code counts on in a camera.  Its lists hold numbers ...
FrameType == [index : Nat, size : Nat \X Nat, intervals : Seq(Nat \ {0}),
              range : Nat \X Nat \X Nat, bytes : Nat]
FormatType == [index : Nat, guid : STRING, frames : Seq(FrameType),
               stills : Seq([endpoint : Nat, patterns : Seq(Nat \X Nat)])]
StreamType(numbers) == [number : numbers, endpoint : Nat, terminal : Nat, method : Nat,
                        formats : Seq(FormatType)]
Typed(i, numbers) == /\ i.bcd \in Nat /\ i.clock \in Nat /\ i.ctrlIf \in numbers
                     /\ i.streams \in Seq(StreamType(numbers))
\* ... each interface has one number, and a frame indices of its own in it ...
Distinct(i) ==
    /\ \A s, t \in DOMAIN i.streams : i.streams[s].number = i.streams[t].number => s = t
    /\ \A s \in DOMAIN i.streams : i.streams[s].number # i.ctrlIf
    /\ \A p, q \in PlacesIn(i) :
          NumberIn(i, p) = NumberIn(i, q) /\ SameIndices(i, p, q) => p = q
\* ... it tells the size of a frame, unless the first frame with the same
\* indices, of any interface, has that size: uvc_find_frame_desc takes that ...
SizesFound(i, sized) ==
    \A p, q \in PlacesIn(i) :
        SameIndices(i, p, q) /\ Before(q, p) =>
            \/ sized /\ FrameIn(i, p).bytes # 0
            \/ FrameIn(i, q).bytes = FrameIn(i, p).bytes
\* ... and an interface with alternate settings has no packets in the first,
\* more in each that follows, and frames of a known size.
Alternates(i) ==
    \A s \in DOMAIN i.streams :
        LET settings == SettingsIn(i, i.streams[s].number)
            Bytes(a) == PacketBytes(settings[a], i.streams[s].endpoint)
        IN  Len(settings) > 1 =>
              /\ DOMAIN settings = 1 .. Len(settings)
              /\ \A a \in DOMAIN settings : Bytes(a) \in Nat
              /\ \A a, b \in DOMAIN settings : a <= b => Bytes(a) <= Bytes(b)
              /\ Bytes(1) = 0
              /\ \A p \in PlacesIn(i) : FrameIn(i, p).bytes # 0

InfoFor(c) == DeviceInfo(<<c.raw>>, c.tis, ConfigLength, TotalLength(c.raw))
ASSUME CamerasAssumption ==
    \A c \in Cameras :
        /\ c.payload \in Nat /\ c.clock \in Nat /\ c.sized \in BOOLEAN
        /\ 0 \in NumbersOf(c)
        /\ LET i == InfoFor(c)
           IN  i.ret = "ok" => /\ Typed(i, NumbersOf(c)) /\ Distinct(i)
                               /\ SizesFound(i, c.sized) /\ Alternates(i)
\* An interval is a number of ticks of 100 ns, which tell rates apart up to
\* the square root of their number.
Ticks == 10000000
Rate(fps) == fps \in Nat /\ fps * fps <= Ticks
ASSUME AsksAssumption == \A a \in Asks : Rate(a[3])

-----------------------------------------------------------------------------
(* Searching the descriptors.                                              *)

\* _get_format_entry: the formats that have a guid, and those that stand for
\* several
Specific == {"YUYV", "UYVY", "GRAY8", "GRAY16", "NV12", "BY8", "BA81", "SGRBG8", "SGBRG8",
             "SRGGB8", "SBGGR8", "MJPEG"}
Uncompressed == {"YUYV", "UYVY", "GRAY8", "GRAY16", "NV12"}
\* _uvc_frame_format_matches_guid
MatchesGuid(format, guid) ==
    guid \in CASE format = "ANY" -> Uncompressed \cup {"MJPEG"}
               [] format = "UNCOMPRESSED" -> Uncompressed
               [] format = "COMPRESSED" -> {"MJPEG"}
               [] OTHER -> {format} \cap Specific

StreamIfs(number) == {s \in DOMAIN info.streams : info.streams[s].number = number}
\* _uvc_get_stream_if
StreamIf(number) ==
    info.streams[CHOOSE s \in StreamIfs(number) : \A t \in StreamIfs(number) : s <= t]

Places == PlacesIn(info)
FormatAt(p) == FormatIn(info, p)
FrameAt(p) == FrameIn(info, p)
NumberAt(p) == NumberIn(info, p)

\* uvc_find_frame_desc and uvc_find_frame_desc_stream: the first frame with
\* these indices, of any streaming interface or of one, as a set
HasIndices(p, format, frame) == FormatAt(p).index = format /\ FrameAt(p).index = frame
FirstOf(places) == {p \in places : \A q \in places : q = p \/ Before(p, q)}
LastOf(places) == {p \in places : \A q \in places : q = p \/ Before(q, p)}
FindFrame(format, frame) == FirstOf({p \in Places : HasIndices(p, format, frame)})
FindFrameStream(number, format, frame) ==
    FirstOf({p \in Places : NumberAt(p) = number /\ HasIndices(p, format, frame)})

-----------------------------------------------------------------------------
(* Control transfers.                                                      *)

Answer(p) == [format |-> FormatAt(p).index, frame |-> FrameAt(p).index,
              interval |-> IF FrameAt(p).intervals = <<>> THEN FrameAt(p).range[1]
                           ELSE FrameAt(p).intervals[1],
              maxFrame |-> IF camera.sized THEN FrameAt(p).bytes ELSE 0,
              maxPayload |-> camera.payload, clock |-> camera.clock]
\* the camera answers a request for the greatest values with its last frame
MaxAnswer(number) ==
    Answer(CHOOSE p \in LastOf({p \in Places : NumberAt(p) = number}) : TRUE)

\* uvc_query_stream_ctrl after a GET: a clock of its own only since version
\* 1.1, and the size of a frame from the descriptors when there is none
\* Mutant: a camera's size of 0 is left
Decoded_NoFix(c, a) ==
    [c EXCEPT !.format = a.format, !.frame = a.frame, !.interval = a.interval,
              !.maxPayload = a.maxPayload,
              !.clock = IF info.bcd >= 272 THEN a.clock ELSE info.clock,
              !.maxFrame = a.maxFrame]
Decoded(c, a) ==
    [c EXCEPT !.format = a.format, !.frame = a.frame, !.interval = a.interval,
              !.maxPayload = a.maxPayload,
              !.clock = IF info.bcd >= 272 THEN a.clock ELSE info.clock,
              !.maxFrame = IF a.maxFrame # 0 \/ FindFrame(a.format, a.frame) = {}
                             THEN a.maxFrame
                           ELSE FrameAt(CHOOSE p \in FindFrame(a.format, a.frame) : TRUE).bytes]

\* What the camera has after a probe with c: c's mode when it describes it
Taken(c) ==
    LET at == FindFrameStream(c.iface, c.format, c.frame)
    IN  IF at = {} THEN probe
        ELSE [probe EXCEPT ![c.iface] =
                [Answer(CHOOSE p \in at : TRUE) EXCEPT !.interval = c.interval]]

\* uvc_probe_stream_ctrl: errors are ignored
Probed(c) ==
    {[ctrl |-> IF get THEN Decoded(c, p[c.iface]) ELSE c, probe |-> p, clean |-> get]
       : get \in BOOLEAN, p \in {Taken(c)}}
    \cup {[ctrl |-> IF get THEN Decoded(c, probe[c.iface]) ELSE c, probe |-> probe,
           clean |-> FALSE] : get \in BOOLEAN}

\* uvc_claim_if: what is claimed afterwards; the driver may refuse
Claims(number) == {claimed, claimed \cup {number}}

-----------------------------------------------------------------------------
\* A frame that was populated or a descriptor that was read changes nothing
\* else, and a fault ends the program: nothing is modelled after them.
Live == fault = "none" /\ answer = NoAnswer /\ image = NoImage
IsOpen == Live /\ info # Closed
Streaming == {n \in Numbers : streams[n] # NoStream}

NegotiateInit ==
    /\ camera \in Cameras
    /\ info = Closed /\ claimed = {} /\ ctrl = ZeroCtrl /\ still = ZeroStill
    /\ streams = [n \in Numbers |-> NoStream] /\ probe = [n \in Numbers |-> ZeroCtrl]
    /\ asked = NoAsk /\ calls = 0 /\ image = NoImage /\ answer = NoAnswer /\ fault = "none"

\* uvc_open, without its event thread (UvcContext): an error of the parser, or
\* of the claim, closes the handle again
OpenCamera ==
    /\ Live /\ info = Closed
    /\ \E second \in {-1, TotalLength(camera.raw)} :
         \E got \in {DeviceInfo(Configs, camera.tis, ConfigLength, second)} :
           \/ /\ got.ret = "ok"
              /\ info' = got /\ claimed' = {got.ctrlIf}
           \/ UNCHANGED <<info, claimed>>
    /\ probe' = [n \in Numbers |-> ZeroCtrl]
    /\ UNCHANGED <<camera, ctrl, still, streams, asked, calls, image, answer, fault>>

\* uvc_get_stream_ctrl_format_size: the first interval of a frame that gives
\* the rate (0: the first), or the interval itself within its range
Interval(frame, fps) ==
    IF frame.intervals # <<>>
      THEN LET fit == {k \in DOMAIN frame.intervals :
                         fps = 0 \/ Ticks \div frame.intervals[k] = fps}
           IN  IF fit = {} THEN 0
               ELSE frame.intervals[CHOOSE k \in fit : \A j \in fit : k <= j]
      ELSE LET i == Ticks \div fps
               offset == i - frame.range[1]
           IN  IF i \in frame.range[1] .. frame.range[2]
                  /\ (offset = 0 \/ offset % frame.range[3] = 0)
                 THEN i ELSE 0
\* it divides by the rate, then by a step that the camera may leave out
Divides(frame, fps) ==
    /\ frame.intervals = <<>>
    /\ \/ fps = 0
       \/ LET i == Ticks \div fps
          IN  frame.range[3] = 0 /\ i # frame.range[1] /\ i \in frame.range[1] .. frame.range[2]
Matching(format, size) ==
    {p \in Places : MatchesGuid(format, FormatAt(p).guid) /\ FrameAt(p).size = size}

\* where the search ends: a frame that has the rate, or that divides by 0;
\* and the frames looked at until then
Ends(format, size, fps) ==
    {p \in Matching(format, size) : Divides(FrameAt(p), fps) \/ Interval(FrameAt(p), fps) # 0}
Seen(format, size, fps) ==
    {p \in Matching(format, size) : \A e \in Ends(format, size, fps) : e = p \/ Before(p, e)}

\* Each of them claims its interface and asks for the greatest values, which
\* came last for the one in heard, if they came.
Begun(number, heard) ==
    LET here == [ctrl EXCEPT !.iface = number]
    IN  IF heard = {} THEN here
        ELSE Decoded(here, MaxAnswer(NumberAt(CHOOSE p \in heard : TRUE)))
Mode(c, p, fps) == [c EXCEPT !.format = FormatAt(p).index, !.frame = FrameAt(p).index,
                             !.interval = Interval(FrameAt(p), fps)]
Asked(format, size, fps, clean) ==
    [ret |-> "ok", format |-> format, size |-> size, fps |-> fps, clean |-> clean]
Invalid == [ret |-> "invalid mode"]

GetStreamCtrl(format, size, fps) ==
    /\ IsOpen /\ calls < MaxCalls /\ calls' = calls + 1
    /\ \/ /\ Seen(format, size, fps) = {}
          /\ asked' = Invalid /\ UNCHANGED <<claimed, ctrl, probe, fault>>
       \/ \E at \in LastOf(Seen(format, size, fps)),
             more \in SUBSET {NumberAt(p) : p \in Seen(format, size, fps)},
             heard \in {{}} \cup {{p} : p \in Seen(format, size, fps)} :
            /\ claimed' = claimed \cup more
            /\ \/ /\ Ends(format, size, fps) = {}
                  /\ ctrl' = Begun(NumberAt(at), heard) /\ asked' = Invalid
                  /\ UNCHANGED <<probe, fault>>
               \/ /\ Ends(format, size, fps) # {} /\ Divides(FrameAt(at), fps)
                  /\ fault' = "division by zero" /\ UNCHANGED <<ctrl, probe, asked>>
               \/ /\ Ends(format, size, fps) # {} /\ ~Divides(FrameAt(at), fps)
                  /\ \E r \in Probed(Mode(Begun(NumberAt(at), heard), at, fps)) :
                        /\ ctrl' = r.ctrl /\ probe' = r.probe
                        /\ asked' = Asked(format, size, fps, r.clean)
                  /\ UNCHANGED fault
    /\ UNCHANGED <<camera, info, still, streams, image, answer>>

-----------------------------------------------------------------------------
(* Still images.                                                           *)

Method2(number) == StreamIfs(number) # {} /\ StreamIf(number).method = 2

\* the first pattern of that size, of a format with that index: its format
\* and its number
StillPlaces(number, format) ==
    {p \in (1 .. 4) \X (1 .. 4) \X (1 .. 4) :
        /\ p[1] \in DOMAIN StreamIf(number).formats
        /\ StreamIf(number).formats[p[1]].index = format
        /\ p[2] \in DOMAIN StreamIf(number).formats[p[1]].stills
        /\ p[3] \in DOMAIN StreamIf(number).formats[p[1]].stills[p[2]].patterns}
PatternAt(number, p) == StreamIf(number).formats[p[1]].stills[p[2]].patterns[p[3]]

\* uvc_get_still_ctrl_format_size and uvc_probe_still_ctrl: only the probes
\* and the commit can fail the call
GetStillCtrl(size) ==
    /\ IsOpen /\ Method2(ctrl.iface) /\ calls < MaxCalls /\ calls' = calls + 1
    /\ LET n == ctrl.iface
           fits == FirstOf({p \in StillPlaces(n, ctrl.format) : PatternAt(n, p) = size})
           described == \E f \in DOMAIN StreamIf(n).formats :
                          StreamIf(n).formats[f].index = ctrl.format
       IN  /\ ctrl' = [ctrl EXCEPT !.still = TRUE]
           /\ still' \in
                IF ~described THEN {still}
                ELSE IF fits = {}   \* the greatest values, if they came
                  THEN {[still EXCEPT !.iface = n],
                        [iface |-> n, format |-> ctrl.format, frame |-> 2, bytes |-> 0]}
                ELSE {[iface |-> n, format |-> ctrl.format,
                       frame |-> (CHOOSE p \in fits : TRUE)[3],
                       bytes |-> size[1] * size[2] * 2]}
    /\ UNCHANGED <<camera, info, claimed, streams, probe, asked, image, answer, fault>>

\* the caller sets the pointer itself, as UVC4Linux::openVideoStream does
SetStillPointer ==
    /\ IsOpen /\ ~ctrl.still
    /\ ctrl' = [ctrl EXCEPT !.still = TRUE]
    /\ UNCHANGED <<camera, info, claimed, still, streams, probe, asked, calls, image, answer, fault>>

\* uvc_trigger_still
TriggerStill ==
    /\ IsOpen /\ still.iface \in Streaming /\ Method2(still.iface)
    /\ streams' = [streams EXCEPT ![still.iface].triggered = TRUE]
    /\ UNCHANGED <<camera, info, claimed, ctrl, still, probe, asked, calls, image, answer, fault>>

-----------------------------------------------------------------------------
(* uvc_start_streaming.                                                    *)

Settings(number) == SettingsIn(info, number)
IsIsochronous(number) == Len(Settings(number)) > 1

\* the first alternate setting whose packets are large enough, and how many
\* packets a transfer has
\* Mutant: the last one
Chosen_LastAlternate(c, address) ==
    LET fits == {a \in DOMAIN Settings(c.iface) :
                   PacketBytes(Settings(c.iface)[a], address) >= c.maxPayload}
    IN  {a \in fits : \A b \in fits : b <= a}
Chosen(c, address) ==
    LET fits == {a \in DOMAIN Settings(c.iface) :
                   PacketBytes(Settings(c.iface)[a], address) >= c.maxPayload}
    IN  {a \in fits : \A b \in fits : a <= b}
Packets(bytes, maxFrame) ==
    LET packets == (maxFrame + bytes - 1) \div bytes IN IF packets > 32 THEN 32 ELSE packets

StreamOf(c, alt, perPacket, packets, guid) ==
    [alt |-> alt, perPacket |-> perPacket, packets |-> packets, guid |-> guid, ctrl |-> c,
     still |-> still, triggered |-> FALSE]

\* what can go wrong gives the interface back
Failed == streams' = streams /\ fault' = fault /\ claimed' = claimed \ {ctrl.iface}
Started(alt, bytes, packets, guid) ==
    /\ streams' = [streams EXCEPT ![ctrl.iface] = StreamOf(ctrl, alt, bytes, packets, guid)]
    /\ claimed' = claimed \cup {ctrl.iface} /\ fault' = fault

\* uvc_stream_start with the frame at p
StartWith(p) ==
    LET guid == FormatAt(p).guid
        address == info.streams[p[1]].endpoint
    IN  \/ guid \notin Specific /\ Failed
        \/ /\ guid \in Specific /\ ~IsIsochronous(ctrl.iface)
           /\ Started(0, ctrl.maxPayload, 1, guid)
        \/ /\ guid \in Specific /\ IsIsochronous(ctrl.iface)
           /\ \/ Chosen(ctrl, address) = {} /\ Failed
              \/ \E alt \in Chosen(ctrl, address) :
                   LET bytes == PacketBytes(Settings(ctrl.iface)[alt], address)
                   IN  \/ /\ bytes = 0 /\ fault' = "packets of no bytes"
                          /\ claimed' = claimed \cup {ctrl.iface} /\ UNCHANGED streams
                       \/ bytes # 0 /\ Failed      \* of libusb_set_interface_alt_setting
                       \/ /\ bytes # 0
                          /\ Started(alt, bytes, Packets(bytes, ctrl.maxFrame), guid)

StartStreaming ==
    /\ IsOpen
    /\ \/ /\ ctrl.iface \in Streaming \/ StreamIfs(ctrl.iface) = {}
          /\ UNCHANGED <<streams, fault, claimed>>      \* busy, invalid param
       \/ /\ ctrl.iface \notin Streaming /\ StreamIfs(ctrl.iface) # {}
          /\ \/ \* the claim or the commit fails
                UNCHANGED <<streams, fault>> /\ claimed' \in Claims(ctrl.iface)
             \/ \* uvc_stream_ctrl copies *pStillCtrl
                /\ ~ctrl.still /\ fault' = "null still control"
                /\ UNCHANGED streams /\ claimed' = claimed \cup {ctrl.iface}
             \/ /\ ctrl.still
                /\ FindFrameStream(ctrl.iface, ctrl.format, ctrl.frame) = {} /\ Failed
             \/ /\ ctrl.still
                /\ \E p \in FindFrameStream(ctrl.iface, ctrl.format, ctrl.frame) : StartWith(p)
    /\ UNCHANGED <<camera, info, ctrl, still, probe, asked, calls, image, answer>>

\* uvc_stream_close: the interface is released; libusb may fail to
CloseStream(number) ==
    /\ IsOpen /\ number \in Streaming
    /\ streams' = [streams EXCEPT ![number] = NoStream]
    /\ claimed' \in {claimed, claimed \ {number}}
    /\ UNCHANGED <<camera, info, ctrl, still, probe, asked, calls, image, answer, fault>>

\* uvc_close: uvc_stop_streaming and the release of the control interface
Close ==
    /\ IsOpen
    /\ info' = Closed /\ claimed' = {} /\ streams' = [n \in Numbers |-> NoStream]
    /\ ctrl' = ZeroCtrl /\ still' = ZeroStill /\ asked' = NoAsk
    /\ UNCHANGED <<camera, probe, calls, image, answer, fault>>

-----------------------------------------------------------------------------
\* _uvc_populate_frame: a video frame has the size that the first interface
\* describes for these indices, a still image that of the first pattern with
\* that number
VideoSize(c) == FrameAt(CHOOSE p \in FindFrame(c.format, c.frame) : TRUE).size
StillSizes(number, index) ==
    FirstOf({p \in (1 .. 4) \X (1 .. 4) \X {index} :
               /\ p[1] \in DOMAIN StreamIf(number).formats
               /\ p[2] \in DOMAIN StreamIf(number).formats[p[1]].stills
               /\ index \in DOMAIN StreamIf(number).formats[p[1]].stills[p[2]].patterns})
PopulateFrame(number, isStill) ==
    /\ IsOpen /\ number \in Streaming /\ (isStill => streams[number].triggered)
    /\ LET s == streams[number]
           at == StillSizes(number, s.still.frame)
       IN  image' = [iface |-> number, still |-> isStill,
                     size |-> IF ~isStill THEN VideoSize(s.ctrl)
                              ELSE IF at = {} THEN <<0, 0>>
                              ELSE PatternAt(number, CHOOSE p \in at : TRUE)]
    /\ UNCHANGED <<camera, info, claimed, ctrl, still, streams, probe, asked, calls, answer, fault>>

-----------------------------------------------------------------------------
\* Calls of libusb that read a descriptor and keep nothing
Readings ==
    {[call |-> "configuration", read |-> n, result |-> ConfigurationOf(camera.raw, n)]
       : n \in 0 .. TotalLength(camera.raw)}
    \cup {[call |-> "by value", value |-> v,
           result |-> ConfigByValue(Configs, v, ConfigLength, TotalLength(camera.raw))]
            : v \in 0 .. 1}
    \cup {[call |-> "bos", read |-> n, result |-> BosOf(camera.bos, n)]
            : n \in 0 .. TotalLength(camera.bos)}
    \cup {[call |-> "string", text |-> text, length |-> length, index |-> index,
           result |-> StringAscii(index, text, read, length)]
            : text \in Texts, length \in 1 .. 4, index \in 0 .. 1, read \in {4, 255}}
ReadDescriptor ==
    /\ Live /\ info = Closed
    /\ answer' \in Readings
    /\ UNCHANGED <<camera, info, claimed, ctrl, still, streams, probe, asked, calls, image, fault>>

NegotiateNext ==
    \/ OpenCamera \/ Close \/ ReadDescriptor \/ SetStillPointer \/ StartStreaming \/ TriggerStill
    \/ \E a \in Asks : GetStreamCtrl(a[1], a[2], a[3])
    \/ \E size \in Stills : GetStillCtrl(size)
    \/ \E n \in Numbers : CloseStream(n)
    \/ \E n \in Numbers, isStill \in BOOLEAN : PopulateFrame(n, isStill)

NegotiateSpec == NegotiateInit /\ [][NegotiateNext]_negotiateVars

-----------------------------------------------------------------------------
\* Types: claimed interfaces and streams are those of the open camera.
NegotiateTypes ==
    /\ claimed \subseteq Numbers /\ ctrl.iface \in Numbers /\ ctrl.still \in BOOLEAN
    /\ \A n \in Numbers : streams[n] # NoStream =>
          /\ info # Closed /\ streams[n].ctrl.iface = n
          /\ streams[n].packets \in 1 .. 32

\* What a descriptor list says, block by block, without libusb's tree: the
\* class blocks after alternate setting 0 of an interface
BlocksOf(number) ==
    LET raw == camera.raw
        at == CHOOSE i \in DOMAIN raw :
                raw[i].type = "interface" /\ raw[i].number = number /\ raw[i].alt = 0
        more == {j \in at + 1 .. Len(raw) : \A i \in at + 1 .. j : raw[i].type \notin Proper}
    IN  SubSeq(raw, at + 1, at + Cardinality(more))
\* <<format index, block>> for each block of these kinds below a format
Below(blocks, subs) ==
    {<<blocks[ij[1]].index, blocks[ij[2]]>> :
       ij \in {ij \in (DOMAIN blocks) \X (DOMAIN blocks) :
                 /\ ij[1] < ij[2] /\ blocks[ij[1]].sub \in FormatSubs
                 /\ blocks[ij[2]].sub \in subs
                 /\ \A k \in ij[1] + 1 .. ij[2] : blocks[k].sub \notin FormatSubs}}

\* An opened camera's lists are its descriptors: each frame and each still
\* image lies below the format it was sent after, with its index and size, in
\* the streaming interface that the header names, whatever descriptors of
\* other kinds stand between (parse_interface, uvc_parse_vs, uvc_parse_vc).
ParsedAsDescribed ==
    info # Closed /\ asked = NoAsk =>      \* info does not change until it is freed
        \A s \in DOMAIN info.streams :
            LET blocks == BlocksOf(info.streams[s].number)
                formats == info.streams[s].formats
            IN  /\ UNION {{<<formats[f].index, r.index, r.size>> : r \in ToSet(formats[f].frames)}
                             : f \in DOMAIN formats}
                     = {<<b[1], b[2].index, b[2].size>> : b \in Below(blocks, FrameSubs)}
                /\ UNION {{<<formats[f].index, r.patterns>> : r \in ToSet(formats[f].stills)}
                             : f \in DOMAIN formats}
                     = {<<b[1], b[2].patterns>> : b \in Below(blocks, {"still_image"})}

Addresses(setting) == [e \in DOMAIN setting.endpoints |-> setting.endpoints[e].address]
Arrived(type, read) ==
    {k \in DOMAIN camera.raw : camera.raw[k].type = type /\ Whole(camera.raw, read, k)}

\* A configuration that came short is read as far as it came, or refused:
\* every interface but the last is as in the whole, the last has no setting
\* or endpoint that the whole has not, and nothing is taken that did not come.
CutIsPrefix ==
    answer.call = "configuration" /\ answer.result.ret = "ok" =>
        LET got == answer.result.config.interfaces
            all == Config.interfaces
            n == Len(got)
        IN  /\ n <= Len(all)
            /\ \A i \in 1 .. n - 1 : got[i] = all[i]
            /\ n > 0 => /\ Len(got[n]) <= Len(all[n])
                        /\ \A a \in DOMAIN got[n] :
                              IsPrefix(Addresses(got[n][a]), Addresses(all[n][a]))
            /\ FoldLeft(LAMBDA sum, settings : sum + Len(settings), 0, got)
                 <= Cardinality(Arrived("interface", answer.read))
            /\ FoldLeft(LAMBDA sum, settings :
                           sum + FoldLeft(LAMBDA t, a : t + Len(a.endpoints), 0, settings),
                        0, got) <= Cardinality(Arrived("endpoint", answer.read))

\* Only the last setting of a short configuration may announce endpoints it
\* does not hold (parse_interface returns before it reads them).
EndpointsThere ==
    answer.call = "configuration" /\ answer.result.ret = "ok" =>
        \A i \in DOMAIN answer.result.config.interfaces :
            LET settings == answer.result.config.interfaces[i]
            IN  \A a \in DOMAIN settings :
                  settings[a].numEndpoints # Len(settings[a].endpoints) =>
                      /\ answer.read < TotalLength(camera.raw)
                      /\ i = Len(answer.result.config.interfaces) /\ a = Len(settings)
                      /\ settings[a].endpoints = <<>>

\* A string is never written past the buffer, its end included, and a BOS
\* read in part gives the capabilities that are whole, no other.
ReadsFit ==
    /\ answer.call = "string" => Len(answer.result.written) <= answer.length
    /\ answer.call = "bos" =>
         answer.result.caps = SelectSeq(SubSeq(camera.bos, 2, 1 + Len(answer.result.caps)),
                                        LAMBDA d : d.type = "capability")

\* A negotiation that succeeded, with every transfer of its probe answered,
\* leaves a mode of the camera with the format, size and rate asked for, and
\* a size of the frame although the camera may not tell it.
NegotiatedAsAsked ==
    asked.ret = "ok" /\ asked.clean =>
        \E p \in FindFrameStream(ctrl.iface, ctrl.format, ctrl.frame) :
            /\ MatchesGuid(asked.format, FormatAt(p).guid)
            /\ FrameAt(p).size = asked.size
            /\ asked.fps # 0 => Ticks \div ctrl.interval = asked.fps
            /\ ctrl.maxFrame = FrameAt(p).bytes

\* An isochronous stream runs on packets that hold the greatest payload, on
\* the smallest such setting, and a transfer holds a frame or 32 packets.
StreamCarriesPayload ==
    \A n \in Streaming : IsIsochronous(n) =>
        LET s == streams[n]
            address == StreamIf(n).endpoint
        IN  /\ s.perPacket >= s.ctrl.maxPayload /\ s.perPacket > 0
            /\ \A a \in DOMAIN Settings(n) :
                  LET bytes == PacketBytes(Settings(n)[a], address)
                  IN  bytes >= s.ctrl.maxPayload => bytes >= s.perPacket
            /\ s.packets * s.perPacket >= s.ctrl.maxFrame \/ s.packets = 32

\* Through failed negotiations, restarts and releases that fail, an open
\* handle keeps its control interface, and each stream its own.
StreamsClaimed ==
    info # Closed => info.ctrlIf \in claimed /\ Streaming \subseteq claimed

\* A video frame has the size that the stream was committed with, unless an
\* earlier streaming interface of the camera uses the same indices.
VideoSizeRight ==
    image # NoImage /\ ~image.still =>
        LET c == streams[image.iface].ctrl
            first == CHOOSE p \in FindFrame(c.format, c.frame) : TRUE
        IN  NumberAt(first) = image.iface =>
                \A p \in FindFrameStream(image.iface, c.format, c.frame) :
                    image.size = FrameAt(p).size

\* What stops the program: a stream that was never told where its still
\* control is, or, dividing by packets of no bytes, a camera that sets no
\* payload size or a negotiation whose transfers failed unnoticed.
FaultsExplained ==
    /\ fault = "null still control" => ~ctrl.still
    /\ fault = "packets of no bytes" =>
          camera.payload = 0 \/ asked.ret # "ok" \/ ~asked.clean

\* What the parsers take from a camera's descriptors, whole or cut short, is
\* what the camera sent (parse_configuration, uvc_parse_vs, parse_bos).
DescriptorsRead == ParsedAsDescribed /\ CutIsPrefix /\ EndpointsThere /\ ReadsFit

\* A stream that was started has its interface, packets for its payloads and
\* the size of its frames, and stops the program in the known cases only.
StreamsSound == /\ NegotiateTypes /\ StreamCarriesPayload /\ StreamsClaimed
                /\ VideoSizeRight /\ FaultsExplained

=============================================================================
