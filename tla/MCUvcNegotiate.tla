--------------------------- MODULE MCUvcNegotiate ---------------------------
(* UvcNegotiate for TLC: a camera with isochronous settings, two formats    *)
(* with still images and a range of intervals; one with two bulk streaming  *)
(* interfaces that use the same indices; one of a version that is refused.  *)
EXTENDS UvcNegotiate

Config1(n) == [type |-> "config", len |-> 9, interfaces |-> n, value |-> 1]
Iface(n, a, class, eps) == [type |-> "interface", len |-> 9, number |-> n, alt |-> a,
                            class |-> class, eps |-> eps]
Ep(address, packet) == [type |-> "endpoint", len |-> 7, address |-> address,
                        packet |-> packet]
Companion(bytes) == [type |-> "companion", len |-> 6, bytes |-> bytes]
Association == [type |-> "association", len |-> 8]
Cs(sub, len) == [type |-> "cs", sub |-> sub, len |-> len]
With(a, b) == [f \in DOMAIN a \cup DOMAIN b |-> IF f \in DOMAIN b THEN b[f] ELSE a[f]]

Head1(bcd, ifs) == With(Cs("header", 12 + Len(ifs)),
                        [bcd |-> bcd, clock |-> 15, interfaces |-> ifs])
Terminal(kind) == With(Cs("input_terminal", 18),
                       [kind |-> kind, id |-> 1, controls |-> <<6, 1, 0>>])
Unit == With(Cs("processing_unit", 11), [id |-> 2, source |-> 1, controls |-> <<255, 2>>])
Extension == With(Cs("extension_unit", 27),
                  [id |-> 3, guid |-> "sonix", controls |-> <<7, 0, 1>>])
Selector == With(Cs("selector_unit", 7), [id |-> 4])
Input(endpoint, method) == With(Cs("input_header", 13),
                                [endpoint |-> endpoint, terminal |-> 4, method |-> method])
Format(sub, index, guid) == With(Cs(sub, 27), [index |-> index, guid |-> guid])
Frame(sub, index, size, bytes, intervals, range) ==
    With(Cs(sub, 30), [index |-> index, size |-> size, bytes |-> bytes,
                       intervals |-> intervals, range |-> range])
StillImage(patterns) == With(Cs("still_image", 14), [endpoint |-> 0, patterns |-> patterns])

VGA == <<640, 480>>
HD == <<1280, 720>>
Small == <<320, 240>>

CameraA == <<Config1(2), Association,
    Iface(0, 0, "video control", 1), Head1(256, <<1>>), Terminal("camera"), Unit, Extension,
      Cs("output_terminal", 9), Ep(131, 16),
    Iface(1, 0, "video streaming", 0), Input(129, 2),
      Format("format_uncompressed", 1, "YUYV"),
      Frame("frame_uncompressed", 1, VGA, 614400, <<333333, 2000000>>, <<0, 0, 0>>),
      Frame("frame_uncompressed", 2, Small, 153600, <<>>, <<333333, 2000000, 1666667>>),
      StillImage(<<VGA, HD>>), Cs("colorformat", 6),
      Format("format_mjpeg", 2, "none"),
      Frame("frame_mjpeg", 1, HD, 1843200, <<333333>>, <<0, 0, 0>>),
      Frame("frame_mjpeg", 2, Small, 153600, <<>>, <<333333, 2000000, 0>>),
      StillImage(<<HD, VGA>>),
    Iface(1, 1, "video streaming", 1), Ep(129, 512),
    Iface(1, 2, "video streaming", 1), Ep(129, 5120)>>

CameraB == <<Config1(3),
    Iface(0, 0, "video control", 0), Head1(272, <<1, 2>>), Selector, Terminal("vendor"),
    Iface(1, 0, "video streaming", 1), Input(130, 2),
      Format("format_frame_based", 1, "NV12"),
      Frame("frame_frame_based", 1, HD, 0, <<333333>>, <<0, 0, 0>>),
      Format("format_frame_based", 2, "H264"),
      Frame("frame_frame_based", 1, VGA, 0, <<333333>>, <<0, 0, 0>>), Ep(130, 512),
    Iface(2, 0, "video streaming", 2), Input(132, 0),
      Format("format_uncompressed", 1, "YUYV"),
      Frame("frame_uncompressed", 1, VGA, 614400, <<333333>>, <<0, 0, 0>>),
      Ep(132, 512), Companion(1024), Ep(133, 512)>>

CameraC == <<Config1(1), Iface(0, 0, "video control", 0), Head1(336, <<>>)>>

Bos(n) == <<[type |-> "bos", len |-> 5, caps |-> n], [type |-> "capability", len |-> 7],
            [type |-> "capability", len |-> 10], [type |-> "other", len |-> 4]>>
Of(raw, payload, sized, bos) == [raw |-> raw, payload |-> payload, sized |-> sized,
                                 tis |-> FALSE, clock |-> 27, bos |-> bos]

MCCameras == {Of(CameraA, 600, FALSE, Bos(2)), Of(CameraA, 0, TRUE, Bos(1)),
              Of(CameraB, 3072, TRUE, Bos(3)), Of(CameraC, 512, TRUE, Bos(0))}
MCAsks == {<<"ANY", VGA, 30>>, <<"UNCOMPRESSED", Small, 5>>, <<"COMPRESSED", HD, 30>>,
           <<"NV12", HD, 0>>, <<"YUYV", VGA, 5>>, <<"YUYV", Small, 0>>,
           <<"MJPEG", Small, 10>>}
MCStills == {VGA, HD}
MCTexts == {<<>>, <<65>>, <<66, 300, 67, 68>>}

=============================================================================
