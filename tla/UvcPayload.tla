------------------------------ MODULE UvcPayload ------------------------------
(***************************************************************************)
(* How payloads become frames (libuvc_src/stream.c): _uvc_process_payload, *)
(* _uvc_swap_buffers and, on the side of the listener, _uvc_user_caller    *)
(* with _uvc_populate_frame.  The stream is running throughout; starting   *)
(* and stopping it is the subject of UvcStream.                            *)
(*                                                                         *)
(* Image data is the sequence of the chunks copied, a chunk being the pair *)
(* of the camera's frame number and the payload's place in that frame.     *)
(* The event thread takes three kinds of steps, because what it writes     *)
(* outside cb_mutex (flgStillFinish) and inside it (the hold buffer) is    *)
(* seen by the listener at different times.                                *)
(***************************************************************************)
EXTENDS Naturals, Sequences, FiniteSets

CONSTANTS MaxFrames,    \* bound: frames the camera sends
          Packets,      \* payloads per frame
          Styles,       \* how the camera marks its payloads, see Style
          StillStyles,  \* in which styles it sends still images in the stream
          LossyStills   \* may a camera that sends stills lose payloads?

(***************************************************************************)
(* "eof": the last data payload carries the end-of-frame bit; "emptyeof":  *)
(* the bit comes in a payload without data; "isight": a header without     *)
(* data starts the frame, the data payloads have no header.                *)
(***************************************************************************)
Style == {"eof", "emptyeof", "isight"}

ASSUME ConstantsAssumption ==
    /\ MaxFrames \in Nat \ {0}
    /\ Packets \in Nat \ {0, 1}
    /\ Styles \subseteq Style
    /\ StillStyles \subseteq Style \ {"isight"}
    /\ LossyStills \in BOOLEAN

VARIABLES
    style,           \* style of this camera
    lossy,           \* may its payloads be lost or unusable?
    kinds,           \* kinds[n] is "video" or "still": frames sent so far
    metas,           \* frames sent that carry metadata in their header
    next, seen,      \* next payload of the current frame; did a header arrive?
    pc, pkt,         \* event thread: step, payload in hand
    fid, isStill, flgStillFinish, seq, hold_seq,
    outbuf, stillOutBuf, holdbuf,      \* contents up to got_bytes,
                                       \* got_still_bytes and hold_bytes
    meta_outbuf, meta_holdbuf,         \* frames whose metadata they hold
    last_seq,        \* local of _uvc_user_caller
    frame,           \* strmh->frame as the user callback sees it
    capacity,        \* bytes allocated for frame.data
    stillEnds,       \* history: still images ended by an end-of-frame bit
    labelled         \* history: frames delivered with ucImageType = 1

camera   == <<style, lossy, kinds, metas, next, seen>>
work     == <<fid, isStill, seq, outbuf, stillOutBuf, meta_outbuf>>
hold     == <<hold_seq, holdbuf, meta_holdbuf>>
listener == <<last_seq, frame, capacity, labelled>>
vars == <<camera, pc, pkt, work, flgStillFinish, hold, listener, stillEnds>>

Current == Len(kinds)

NoFrame == [data |-> <<>>, ucImageType |-> 0, metadata |-> {}]

(* The payload k of frame n: its header bits and what it carries *)
Payload(n, k) ==
    [header |-> style # "isight" \/ k = 1,
     fid    |-> n % 2,
     still  |-> kinds[n] = "still",
     eof    |-> style # "isight" /\ k = Packets,
     data   |-> \/ style = "eof"
                \/ style = "emptyeof" /\ k < Packets
                \/ style = "isight" /\ k > 1,
     meta   |-> k = 1 /\ n \in metas,
     chunk  |-> <<n, k>>]

NoPayload == [header |-> FALSE, fid |-> 0, still |-> FALSE, eof |-> FALSE,
              data |-> FALSE, meta |-> FALSE, chunk |-> <<0, 0>>]

Init ==
    /\ style \in Styles /\ lossy \in BOOLEAN
    /\ kinds = <<>> /\ metas = {} /\ next = Packets + 1 /\ seen = TRUE
    /\ pc = "idle" /\ pkt = NoPayload
    /\ fid = 0 /\ isStill = 0 /\ flgStillFinish = 0
    /\ seq = 1 /\ hold_seq = 0
    /\ outbuf = <<>> /\ stillOutBuf = <<>> /\ holdbuf = <<>>
    /\ meta_outbuf = {} /\ meta_holdbuf = {}
    /\ last_seq = 0 /\ frame = NoFrame /\ capacity = 0
    /\ stillEnds = 0 /\ labelled = 0

-----------------------------------------------------------------------------
(* The camera and the bus *)

NewFrame(kind, withMeta) ==
    /\ next > Packets
    /\ Current < MaxFrames
    /\ kind = "still" => style \in StillStyles /\ (lossy => LossyStills)
    /\ kinds' = Append(kinds, kind)
    /\ metas' = IF withMeta THEN metas \cup {Current + 1} ELSE metas
    /\ next' = 1 /\ seen' = FALSE
    /\ UNCHANGED <<style, lossy, pc, pkt, work, flgStillFinish, hold, listener, stillEnds>>

(* A payload that is empty, whose header is longer than the payload, whose  *)
(* error bit is set or whose isochronous packet failed is ignored.  At      *)
(* least one header of each frame gets through: the one-bit frame ID cannot *)
(* tell frame n from frame n + 2.                                           *)
LosePayload ==
    /\ lossy
    /\ next <= Packets
    /\ seen \/ (style # "isight" /\ next < Packets)
    /\ next' = next + 1
    /\ UNCHANGED <<style, lossy, kinds, metas, seen, pc, pkt, work, flgStillFinish,
                   hold, listener, stillEnds>>

-----------------------------------------------------------------------------
(* The event thread *)

(* _uvc_process_payload up to the test of the frame ID: the still bit is    *)
(* taken over before the test.                                              *)
ReadHeader ==
    /\ pc = "idle"
    /\ next <= Packets
    /\ LET p == Payload(Current, next)
       IN  /\ pkt' = p
           /\ isStill' = IF p.header /\ p.still THEN 1 ELSE isStill
           /\ pc' = IF p.header /\ fid # p.fid
                                /\ (outbuf # <<>> \/ stillOutBuf # <<>>)
                    THEN "flipped" ELSE "copy"
    /\ next' = next + 1
    /\ seen' = (seen \/ Payload(Current, next).header)
    /\ UNCHANGED <<style, lossy, kinds, metas, fid, seq, outbuf, stillOutBuf,
                   meta_outbuf, flgStillFinish, hold, listener, stillEnds>>

(* Mutant: the byte counters keep their values when the buffers are swapped *)
SwapBuffers_NoReset ==
    /\ holdbuf' = IF isStill = 1 THEN stillOutBuf ELSE outbuf
    /\ hold_seq' = seq
    /\ meta_holdbuf' = meta_outbuf
    /\ seq' = seq + 1
    /\ outbuf' = holdbuf /\ stillOutBuf' = <<>>
    /\ meta_outbuf' = {}
    /\ isStill' = 0

(* _uvc_swap_buffers, under cb_mutex, and the reset after the unlock        *)
SwapBuffers ==
    /\ holdbuf' = IF isStill = 1 THEN stillOutBuf ELSE outbuf
    /\ hold_seq' = seq
    /\ meta_holdbuf' = meta_outbuf
    /\ seq' = seq + 1
    /\ outbuf' = <<>> /\ stillOutBuf' = <<>>
    /\ meta_outbuf' = {}
    /\ isStill' = 0

(* The frame ID flipped while image data sits around: publish it            *)
FlipSwap ==
    /\ pc = "flipped"
    /\ SwapBuffers
    /\ pc' = "copy"
    /\ UNCHANGED <<camera, pkt, fid, flgStillFinish, listener, stillEnds>>

(* The rest of the header, the copy of the data, and the end-of-frame test, *)
(* which is made only for payloads that carry data.  flgStillFinish is set  *)
(* here, outside cb_mutex and before the swap.                              *)
CopyData ==
    /\ pc = "copy"
    /\ fid' = IF pkt.header THEN pkt.fid ELSE fid
    /\ meta_outbuf' = IF pkt.meta THEN meta_outbuf \cup {pkt.chunk[1]}
                      ELSE meta_outbuf
    /\ IF pkt.data /\ isStill = 1
       THEN stillOutBuf' = Append(stillOutBuf, pkt.chunk) /\ UNCHANGED outbuf
       ELSE /\ outbuf' = IF pkt.data THEN Append(outbuf, pkt.chunk) ELSE outbuf
            /\ UNCHANGED stillOutBuf
    /\ IF pkt.data /\ pkt.eof
       THEN /\ pc' = "ended"
            /\ flgStillFinish' = IF isStill = 1 THEN 1 ELSE flgStillFinish
            /\ stillEnds' = stillEnds + isStill
       ELSE pc' = "idle" /\ UNCHANGED <<flgStillFinish, stillEnds>>
    /\ UNCHANGED <<camera, pkt, isStill, seq, hold, listener>>

(* The EOF bit is set, so publish the complete frame *)
EndSwap ==
    /\ pc = "ended"
    /\ SwapBuffers
    /\ pc' = "idle"
    /\ UNCHANGED <<camera, pkt, fid, flgStillFinish, listener, stillEnds>>

Ev == ReadHeader \/ FlipSwap \/ CopyData \/ EndSwap

-----------------------------------------------------------------------------
(* The listener: one turn of _uvc_user_caller with _uvc_populate_frame      *)

(* Mutant: the still flag is left set when a still frame is populated       *)
Populate_KeepsFlag ==
    /\ frame' = [data        |-> holdbuf,
                 ucImageType |-> flgStillFinish,
                 metadata    |-> IF meta_holdbuf # {} THEN meta_holdbuf
                                 ELSE frame.metadata]
    /\ UNCHANGED flgStillFinish
    /\ capacity' = IF Len(frame.data) < Len(holdbuf) THEN Len(holdbuf) ELSE capacity
    /\ labelled' = labelled + flgStillFinish

(* Mutant: the still flag is cleared before it is looked at                 *)
Populate_ClearsFirst ==
    /\ frame' = [data        |-> holdbuf,
                 ucImageType |-> 0,
                 metadata    |-> IF meta_holdbuf # {} THEN meta_holdbuf
                                 ELSE frame.metadata]
    /\ flgStillFinish' = 0
    /\ capacity' = IF Len(frame.data) < Len(holdbuf) THEN Len(holdbuf) ELSE capacity
    /\ UNCHANGED labelled

(* Data, label and, when there is any, metadata of the hold buffers go to   *)
(* the frame; its data buffer grows when the previous data was shorter.     *)
Populate ==
    /\ frame' = [data        |-> holdbuf,
                 ucImageType |-> flgStillFinish,
                 metadata    |-> IF meta_holdbuf # {} THEN meta_holdbuf
                                 ELSE frame.metadata]
    /\ flgStillFinish' = 0
    /\ capacity' = IF Len(frame.data) < Len(holdbuf) THEN Len(holdbuf) ELSE capacity
    /\ labelled' = labelled + flgStillFinish

UserTake ==
    /\ last_seq # hold_seq
    /\ last_seq' = hold_seq
    /\ Populate
    /\ UNCHANGED <<camera, pc, pkt, work, hold, stillEnds>>

-----------------------------------------------------------------------------
Next == \/ \E kind \in {"video", "still"}, withMeta \in BOOLEAN :
               NewFrame(kind, withMeta)
        \/ LosePayload
        \/ Ev
        \/ UserTake

Spec == Init /\ [][Next]_vars

-----------------------------------------------------------------------------
(* Properties *)

Chunks == (1..MaxFrames) \X (1..Packets)

(* Types *)
TypeOK ==
    /\ style \in Style /\ lossy \in BOOLEAN
    /\ kinds \in Seq({"video", "still"}) /\ Current <= MaxFrames
    /\ metas \subseteq 1..MaxFrames
    /\ next \in 1..(Packets + 1) /\ seen \in BOOLEAN
    /\ pc \in {"idle", "flipped", "copy", "ended"}
    /\ fid \in {0, 1} /\ isStill \in {0, 1} /\ flgStillFinish \in {0, 1}
    /\ seq \in Nat \ {0} /\ hold_seq \in 0..(seq - 1) /\ last_seq \in 0..hold_seq
    /\ outbuf \in Seq(Chunks) /\ stillOutBuf \in Seq(Chunks) /\ holdbuf \in Seq(Chunks)
    /\ meta_outbuf \subseteq metas /\ meta_holdbuf \subseteq metas
    /\ frame \in [data : Seq(Chunks), ucImageType : {0, 1}, metadata : SUBSET metas]
    /\ capacity \in Nat /\ stillEnds \in Nat /\ labelled \in Nat

(* The data payloads of a frame are contiguous: all of them but the last    *)
(* ("emptyeof") or the first ("isight").                                    *)
FirstData == IF style = "isight" THEN 2 ELSE 1
LastData  == IF style = "emptyeof" THEN Packets - 1 ELSE Packets

(* The data payloads of frame n, in order: what a complete frame consists of *)
Whole(n) == [i \in 1..(LastData - FirstData + 1) |-> <<n, FirstData + i - 1>>]

OneFrame(c) == /\ c # <<>>
               /\ \A i \in 1..Len(c) : c[i][1] = c[1][1]
               /\ \A i \in 1..(Len(c) - 1) : c[i][2] < c[i + 1][2]

(* A published buffer holds data of one camera frame, in order, and is not  *)
(* empty: nothing left over from another frame, no frame out of nothing.    *)
FrameIntegrity == hold_seq > 0 => OneFrame(holdbuf)

(* When no payload is lost every published buffer is a complete frame.      *)
PublishedComplete ==
    ~lossy /\ hold_seq > 0 => \E n \in 1..Current : holdbuf = Whole(n)

(* frame.data is large enough for what _uvc_populate_frame copies into it,  *)
(* although data_bytes shrinks with a short frame and the buffer does not.  *)
FrameBufferFits == Len(frame.data) <= capacity

(* No more frames are labelled still than still images were completed: a    *)
(* still is never reported twice.                                           *)
StillReportedOnce == labelled + flgStillFinish <= stillEnds

\* What reaches the listener: a published buffer is one frame of the camera, a
\* whole one if nothing was lost, and the caller's buffer has room for it.
FramesRight == TypeOK /\ FrameIntegrity /\ PublishedComplete /\ FrameBufferFits

=============================================================================
