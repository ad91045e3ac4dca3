------------------------------ MODULE UvcFrame ------------------------------
(***************************************************************************)
(* Frames outside a stream (frame.c): their buffers, copies, and the       *)
(* conversions between pixel layouts.  An image is a function from byte    *)
(* positions to what is stored there: an input byte is its own position,   *)
(* a converted byte names the input bytes it is computed from and its      *)
(* colour.  The arithmetic on the values (sat, the coefficients) and the   *)
(* JPEG decoder of frame-mjpeg.c, a library, are abstracted.               *)
(***************************************************************************)
EXTENDS Integers, Sequences, FiniteSets

CONSTANTS Sizes,     \* sizes <<width, height>> of the frames that are converted
          Spare      \* bytes a caller's own buffer may have more than it needs

FrameAssumption == Sizes \subseteq (Nat \ {0}) \X (Nat \ {0}) /\ Spare \in Nat
ASSUME FrameAssumption

VARIABLE conversion  \* the call that was made, with its result

Packed == {"YUYV", "UYVY"}
Coloured == {"RGB", "BGR"}
Pixels(size) == size[1] * size[2]
BytesOf(format, size) ==
    Pixels(size) * (IF format \in Packed THEN 2 ELSE IF format \in Coloured THEN 3 ELSE 1)

-----------------------------------------------------------------------------
(* Buffers.  A frame owns its data (library_owns_data) or its caller does. *)

\* Every outcome of asking for need bytes: realloc may fail, and then the
\* old buffer is lost with the pointer to it.
Ensured(frame, need) ==
    IF frame.owned
      THEN {[ret |-> "ok", frame |-> [frame EXCEPT !.data = TRUE, !.bytes = need]]}
           \cup IF frame.data /\ frame.bytes = need THEN {}
                ELSE {[ret |-> "no memory",
                       frame |-> [frame EXCEPT !.data = FALSE, !.bytes = need]]}
      ELSE {[ret |-> IF frame.data /\ frame.bytes >= need THEN "ok" ELSE "no memory",
             frame |-> frame]}

\* uvc_allocate_frame: a frame of its own with a buffer, or NULL
Allocated(need) == [owned |-> TRUE, data |-> need > 0, bytes |-> need,
                    size |-> <<0, 0>>, format |-> "unknown"]

Described(out, in, format) == [out EXCEPT !.size = in.size, !.format = format]

\* what one byte of an image is computed from
Byte(sources, colour) == [from |-> sources, colour |-> colour]

\* Every outcome of uvc_duplicate_frame, the copy included
Duplicated(in, out) ==
    {[ret |-> o.ret,
      frame |-> IF o.ret = "ok" THEN Described(o.frame, in, in.format) ELSE o.frame,
      image |-> [k \in IF o.ret = "ok" THEN 0 .. in.bytes - 1 ELSE {} |-> Byte(<<k>>, "same")]]
        : o \in Ensured(out, in.bytes)}

-----------------------------------------------------------------------------
(* Conversions: macros for two, four and eight pixels, repeated while the  *)
(* output pointer is before the end of the output buffer.                  *)

\* where a group of two pixels has its parts
Layout(format) ==
    IF format = "YUYV" THEN [y |-> <<0, 2>>, u |-> 1, v |-> 3]
                       ELSE [y |-> <<1, 3>>, u |-> 0, v |-> 2]
Order(format) == IF format = "RGB" THEN <<"r", "g", "b">> ELSE <<"b", "g", "r">>

TwoPixels(from, to, p, q) ==
    LET part == Layout(from)
    IN  [k \in q .. (q + 5) |->
            Byte(<<p + part.y[1 + (k - q) \div 3], p + part.u, p + part.v>>,
                 Order(to)[1 + ((k - q) % 3)])]
FourPixels(from, to, p, q) ==
    [k \in q .. (q + 11) |-> IF k < q + 6 THEN TwoPixels(from, to, p, q)[k]
                                         ELSE TwoPixels(from, to, p + 4, q + 6)[k]]
\* Mutant: the second half is read where the first half ends in the output
EightPixels_OutputStep(from, to, p, q) ==
    [k \in q .. (q + 23) |-> IF k < q + 12 THEN FourPixels(from, to, p, q)[k]
                                          ELSE FourPixels(from, to, p + 12, q + 12)[k]]
EightPixels(from, to, p, q) ==
    [k \in q .. (q + 23) |-> IF k < q + 12 THEN FourPixels(from, to, p, q)[k]
                                          ELSE FourPixels(from, to, p + 8, q + 12)[k]]

Rounds(bytes) == (bytes + 23) \div 24

\* uvc_yuyv2rgb, uvc_yuyv2bgr, uvc_uyvy2rgb, uvc_uyvy2bgr: what is written
Coloring(from, to, bytes) ==
    [k \in 0 .. 24 * Rounds(bytes) - 1 |->
        EightPixels(from, to, 16 * (k \div 24), 24 * (k \div 24))[k]]
\* uvc_yuyv2y and uvc_yuyv2uv: every second byte
Graying(plane, bytes) == [k \in 0 .. bytes - 1 |-> Byte(<<2 * k + plane>>, "same")]

Written(to, from, bytes) ==
    CASE to \in Coloured -> Coloring(from, to, bytes)
      [] to = "Y" -> Graying(0, bytes)
      [] to = "UV" -> Graying(1, bytes)

\* Every outcome of a conversion of a frame of layout from to layout to
Outcomes(from, to, in, out) ==
    IF in.format # from
      THEN {[ret |-> "invalid param", frame |-> out, image |-> <<>>]}
      ELSE {[ret |-> o.ret,
             frame |-> IF o.ret = "ok"
                         THEN Described(o.frame, in,
                                        IF to \in Coloured THEN to ELSE "GRAY8")
                         ELSE o.frame,
             image |-> IF o.ret = "ok" THEN Written(to, from, o.frame.bytes)
                                       ELSE <<>>]
               : o \in Ensured(out, Pixels(in.size) * (IF to \in Coloured THEN 3 ELSE 1))}

\* uvc_any2rgb and uvc_any2bgr
AnyOutcomes(to, in, out) ==
    IF in.format \in Packed THEN Outcomes(in.format, to, in, out)
    ELSE IF in.format = to THEN Duplicated(in, out)
    ELSE {[ret |-> "not supported", frame |-> out, image |-> <<>>]}

\* uvc_mjpeg2rgb: the decoder may give up after the output was described
Decoded(in, out) ==
    IF in.format # "MJPEG"
      THEN {[ret |-> "invalid param", frame |-> out, image |-> <<>>]}
      ELSE {[ret |-> IF o.ret = "ok" THEN r ELSE o.ret, image |-> <<>>,
             frame |-> IF o.ret = "ok" THEN Described(o.frame, in, "RGB") ELSE o.frame]
               : o \in Ensured(out, 3 * Pixels(in.size)), r \in {"ok", "other"}}

-----------------------------------------------------------------------------
NotConverted == [call |-> "none"]
Calls == [call : {"convert"}, from : {"YUYV"}, to : Coloured \cup {"Y", "UV"}]
         \cup [call : {"convert"}, from : {"UYVY"}, to : Coloured]
         \cup [call : {"any"}, to : Coloured] \cup [call : {"duplicate", "decode"}]

\* Frames a caller may hand in: a whole image, and for the output a frame of
\* the library with an older or no buffer, or a buffer of the caller's own
Inputs == {[owned |-> TRUE, data |-> TRUE, bytes |-> BytesOf(f, s), size |-> s, format |-> f]
              : f \in Packed \cup Coloured \cup {"MJPEG"}, s \in Sizes}
Outputs(in) ==
    {Allocated(n) : n \in {0, 5} \cup {BytesOf("RGB", in.size)}}
    \cup {[Allocated(n) EXCEPT !.owned = FALSE]
             : n \in {BytesOf("RGB", in.size) - 1, BytesOf("RGB", in.size) + Spare}}

Convert ==
    /\ conversion = NotConverted
    /\ \E call \in Calls, in \in Inputs : \E out \in Outputs(in) :
         \E o \in CASE call.call = "convert" -> Outcomes(call.from, call.to, in, out)
                    [] call.call = "any" -> AnyOutcomes(call.to, in, out)
                    [] call.call = "duplicate" -> Duplicated(in, out)
                    [] call.call = "decode" -> Decoded(in, out) :
           conversion' = [call |-> call.call, asked |-> call, in |-> in, given |-> out,
                          ret |-> o.ret, out |-> o.frame, image |-> o.image]

Done == conversion.call \in {"convert", "any"} /\ conversion.ret = "ok"

\* What a byte of the output is made of, pixel by pixel
Ideal(in, to, k) ==
    LET pixel == k \div 3
        group == 4 * (pixel \div 2)
        part == Layout(in.format)
    IN  CASE to = "Y" -> Byte(<<2 * k>>, "same")
          [] to = "UV" -> Byte(<<2 * k + 1>>, "same")
          [] in.format = to -> Byte(<<k>>, "same")
          [] OTHER -> Byte(<<group + part.y[1 + (pixel % 2)], group + part.u,
                             group + part.v>>, Order(to)[1 + (k % 3)])

\* A successful conversion (uvc_yuyv2rgb and its like, uvc_any2rgb) leaves
\* every byte of the image computed from the two pixels it belongs to, in a
\* buffer that is large enough, with the size of the input.
ConversionRight ==
    Done =>
        LET to == conversion.asked.to
            need == Pixels(conversion.in.size) * (IF to \in Coloured THEN 3 ELSE 1)
        IN  /\ conversion.out.size = conversion.in.size
            /\ conversion.out.bytes >= need
            /\ \A k \in 0 .. need - 1 : conversion.image[k] = Ideal(conversion.in, to, k)

\* For images of a multiple of eight pixels in a buffer of exactly their size
\* the loops stay inside both buffers (eight pixels are written at a time, and
\* the loops end with the output buffer, whatever the input holds).
ConversionInside ==
    Done /\ Pixels(conversion.in.size) % 8 = 0 /\ conversion.given.owned =>
        \A k \in DOMAIN conversion.image :
            /\ k \in 0 .. conversion.out.bytes - 1
            /\ \A i \in DOMAIN conversion.image[k].from :
                  conversion.image[k].from[i] < conversion.in.bytes

\* Both, for every conversion of frame.c and every kind of output frame
ConversionsSound == ConversionRight /\ ConversionInside

=============================================================================
