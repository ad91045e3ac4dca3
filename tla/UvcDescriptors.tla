--------------------------- MODULE UvcDescriptors ---------------------------
(***************************************************************************)
(* How libuvc reads a camera's descriptors (device.c): from the tree that  *)
(* libusb made of the configuration (LibusbDescriptors) to the lists of    *)
(* terminals, units, streaming interfaces, formats, frames and still image *)
(* sizes in uvc_device_info_t.                                             *)
(***************************************************************************)
EXTENDS LibusbDescriptors

\* uvc_device_info_t as calloc leaves it
NoInfo == [ret |-> "ok", ctrlIf |-> 0, status |-> 0, bcd |-> 0, clock |-> 0,
           inputs |-> <<>>, units |-> <<>>, selectors |-> <<>>, extensions |-> <<>>,
           streams |-> <<>>, config |-> NoInterfaces]

\* bmControls: the last byte is shifted in first
Controls(bytes) == FoldRight(LAMBDA byte, value : byte + 256 * value, bytes, 0)

-----------------------------------------------------------------------------
(* VideoStreaming blocks.                                                  *)

NoStreamIf(number) == [number |-> number, endpoint |-> 0, terminal |-> 0, method |-> 0,
                       formats |-> <<>>]
FormatSubs == {"format_uncompressed", "format_mjpeg", "format_frame_based"}
FrameSubs == {"frame_uncompressed", "frame_mjpeg", "frame_frame_based"}

\* uvc_parse_vs_format_uncompressed, _frame_format and _mjpeg
FormatOf(b) == [index |-> b.index,
                guid |-> IF b.sub = "format_mjpeg" THEN "MJPEG" ELSE b.guid,
                frames |-> <<>>, stills |-> <<>>]
\* uvc_parse_vs_frame_uncompressed and _frame_frame: a list of intervals, or
\* the least, the greatest and the step; a frame-based format has no size
FrameOf(b) == [index |-> b.index, size |-> b.size, intervals |-> b.intervals,
               range |-> IF b.intervals = <<>> THEN b.range ELSE <<0, 0, 0>>,
               bytes |-> IF b.sub = "frame_frame_based" THEN 0 ELSE b.bytes]
\* uvc_parse_vs_still_image_frame: the patterns are numbered from 1
StillOf(b) == [endpoint |-> b.endpoint, patterns |-> b.patterns]

\* a frame belongs to the format that came last
LastFormat(stream) == Len(stream.formats)

\* uvc_parse_vs
VsBlock(stream, b) ==
    CASE b.sub = "input_header" ->
           [stream EXCEPT !.endpoint = b.endpoint, !.terminal = b.terminal,
                          !.method = b.method]
      [] b.sub \in FormatSubs -> [stream EXCEPT !.formats = Append(@, FormatOf(b))]
      [] b.sub \in FrameSubs ->
           [stream EXCEPT !.formats[LastFormat(stream)].frames = Append(@, FrameOf(b))]
      [] b.sub = "still_image" ->
           [stream EXCEPT !.formats[LastFormat(stream)].stills = Append(@, StillOf(b))]
      [] OTHER -> stream

\* uvc_scan_streaming: the interface is found by its place in the array
ScanStreaming(info, config, idx) ==
    LET setting == config.interfaces[idx + 1][1]
    IN  [info EXCEPT !.streams =
           Append(@, FoldLeft(VsBlock, NoStreamIf(setting.number), setting.extra))]

-----------------------------------------------------------------------------
(* VideoControl blocks.                                                    *)

CameraTerminal == "camera"

\* uvc_parse_vc_header
Header(info, config, b) ==
    LET seen == [info EXCEPT !.bcd = b.bcd,
                             !.clock = IF b.bcd \in {256, 266} THEN b.clock ELSE @]
    IN  IF b.bcd \notin {256, 266, 272} THEN [seen EXCEPT !.ret = "not supported"]
        ELSE FoldLeft(LAMBDA i, idx : ScanStreaming(i, config, idx), seen, b.interfaces)

\* uvc_parse_vc and the parsers of its terminals and units
VcBlock(info, config, b) ==
    IF b.type # "cs" THEN info
    ELSE CASE b.sub = "header" -> Header(info, config, b)
           [] b.sub = "input_terminal" ->
                IF b.kind # CameraTerminal THEN info
                ELSE [info EXCEPT !.inputs =
                        Append(@, [id |-> b.id, controls |-> Controls(b.controls)])]
           [] b.sub = "output_terminal" -> info
           [] b.sub = "selector_unit" ->
                [info EXCEPT !.selectors = Append(@, [id |-> b.id])]
           [] b.sub = "processing_unit" ->
                [info EXCEPT !.units = Append(@, [id |-> b.id, source |-> b.source,
                                                  controls |-> Controls(b.controls)])]
           [] b.sub = "extension_unit" ->
                [info EXCEPT !.extensions =
                   Append(@, [id |-> b.id, guid |-> b.guid, controls |-> Controls(b.controls)])]
           [] OTHER -> [info EXCEPT !.ret = "invalid device"]

\* uvc_scan_control: the first VideoControl interface, by its place; blocks
\* are read until one is refused
VideoControl(config, tis) ==
    {i \in DOMAIN config.interfaces :
        \/ config.interfaces[i][1].class = "video control"
        \/ (tis /\ config.interfaces[i][1].class = "vendor control")}
ScanControl(config, tis) ==
    LET at == VideoControl(config, tis)
    IN  IF at = {} THEN [NoInfo EXCEPT !.ret = "invalid device"]
        ELSE LET first == CHOOSE i \in at : \A j \in at : i <= j
                 setting == config.interfaces[first][1]
                 start == [NoInfo EXCEPT !.ctrlIf = first - 1,
                             !.status = IF setting.numEndpoints = 0 THEN 0
                                        ELSE setting.endpoints[1].address]
                 after[k \in 0 .. Len(setting.extra)] ==
                   IF k = 0 THEN start
                   ELSE IF after[k - 1].ret # "ok" THEN after[k - 1]
                   ELSE VcBlock(after[k - 1], config, setting.extra[k])
             IN  after[Len(setting.extra)]

(* uvc_get_device_info: configuration 0; what it found is freed again on an *)
(* error.                                                                   *)
InfoOf(got, tis) ==
    IF got.ret # "ok" THEN [NoInfo EXCEPT !.ret = "io"]
    ELSE [ScanControl(got.config, tis) EXCEPT !.config = got.config]
DeviceInfo(configs, tis, first, second) ==
    InfoOf(ConfigDescriptor(configs, 0, first, second), tis)

=============================================================================
