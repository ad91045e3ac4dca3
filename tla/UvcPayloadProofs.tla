--------------------------- MODULE UvcPayloadProofs ---------------------------
(***************************************************************************)
(* Proofs about UvcPayload and UvcPoll: what reaches the listener, for any *)
(* number of frames, any number of payloads in a frame, and a camera of    *)
(* any of the three styles, whether its payloads get lost or not.          *)
(***************************************************************************)
EXTENDS UvcPoll, SequenceTheorems, TLAPS

(***************************************************************************)
(* The hypothesis of the theorem on frames.  A camera that sends still     *)
(* images in its stream ends them with an end-of-frame bit on data, and    *)
(* none of its payloads is lost: _uvc_process_payload takes the still bit  *)
(* over before it tests the frame ID, so a still image that follows an     *)
(* unfinished frame publishes that frame from the wrong buffer.            *)
(***************************************************************************)
StillsEnd == StillStyles \subseteq {"eof"} /\ LossyStills = FALSE

-----------------------------------------------------------------------------
(* The inductive invariant *)

cur == pkt.chunk[1]     \* the frame of the payload in hand, 0 before the first
pos == pkt.chunk[2]     \* and its place in the frame

(* The payload in hand is one that the camera sent, and the next one is of   *)
(* the same frame or starts the next frame: no frame is skipped.             *)
PktInv ==
    /\ cur \in 0..Current
    /\ cur = 0 => pkt = NoPayload /\ pc = "idle"
    /\ Current = 0 => next > Packets
    /\ cur > 0 => pos \in 1..Packets /\ pkt = Payload(cur, pos)
    /\ seen => cur = Current /\ pos < next
    /\ ~seen => Current = cur + 1 /\ next <= Packets
    /\ ~seen /\ style = "isight" => next = 1

(* fid is the frame ID of the payload in hand, once its header is dealt with *)
FidInv ==
    /\ pc \in {"idle", "ended"} \/ ~pkt.header => fid = cur % 2
    /\ pc = "flipped" => pkt.header /\ cur > 1 /\ fid = (cur - 1) % 2

(* Only a camera that ends its frames, and loses nothing, sends stills; the  *)
(* flag is up for the payloads of a still image and for no other.            *)
KindInv ==
    /\ \A n \in 1..Current : kinds[n] = "still" => style = "eof" /\ ~lossy
    /\ isStill = 1 => cur > 0 /\ kinds[cur] = "still" /\ pc # "flipped"
    /\ isStill = 0 /\ cur > 0 /\ kinds[cur] = "still" =>
           pc = "idle" /\ pos = Packets

(* Data is collected in one of the buffers, and the other one is empty.      *)
Filling == IF isStill = 1 THEN stillOutBuf ELSE outbuf
Other   == IF isStill = 1 THEN outbuf ELSE stillOutBuf

(* The payloads b holds are of frame n, in order, none of them after k.      *)
Ordered(b, n, k) ==
    /\ \A i \in 1..Len(b) : b[i][1] = n /\ b[i][2] <= k
    /\ \A i \in 1..(Len(b) - 1) : b[i][2] < b[i + 1][2]

(* The buffer holds data of the frame of the payload in hand, or, before     *)
(* that payload is copied, what came before it.                              *)
BufInv ==
    /\ Other = <<>>
    /\ pc \in {"idle", "ended"} => Ordered(Filling, cur, pos)
    /\ pc = "copy" => Ordered(Filling, cur, pos - 1)
    /\ pc = "flipped" => Ordered(Filling, cur - 1, Packets)
    /\ pc \in {"flipped", "ended"} => Filling # <<>>
    /\ pc = "ended" => style = "eof" /\ pos = Packets

(* b holds every data payload of frame n up to k.                            *)
Holds(b, n, k) ==
    /\ Len(b) = IF k < FirstData THEN 0
                ELSE IF k > LastData THEN LastData - FirstData + 1
                ELSE k - FirstData + 1
    /\ \A i \in 1..Len(b) : b[i] = <<n, FirstData + i - 1>>

(* Nothing is lost: the payloads come one after the other, and all the data  *)
(* before the payload in hand is in the buffer.                              *)
LosslessInv ==
    ~lossy =>
        /\ seen /\ cur > 0 => next = pos + 1
        /\ ~seen => next = 1 /\ (cur = 0 \/ pos = Packets)
        /\ pc = "idle" => IF style = "eof" /\ pos = Packets
                            THEN Filling = <<>> /\ isStill = 0
                          ELSE Holds(Filling, cur, pos)
        /\ pc = "copy" => Holds(Filling, cur, pos - 1)
        /\ pc = "ended" => Holds(Filling, cur, Packets)
        /\ pc = "flipped" => Holds(Filling, cur - 1, Packets) /\ pos = 1 /\ style # "eof"

PayloadInv ==
    /\ TypeOK /\ PktInv /\ FidInv /\ KindInv /\ BufInv /\ LosslessInv
    /\ FrameIntegrity /\ PublishedComplete /\ FrameBufferFits

-----------------------------------------------------------------------------
(* Lemmas about the buffers *)

\* The frame ID of a frame is not that of the frame before it.
LEMMA Parity == \A n \in Nat : n % 2 \in {0, 1} /\ (n + 1) % 2 # n % 2
  OBVIOUS

(* What is appended to a sequence is at its end.                            *)
LEMMA AppendIs ==
    ASSUME NEW S, NEW b \in Seq(S), NEW x \in S
    PROVE  /\ Append(b, x) \in Seq(S)
           /\ Len(Append(b, x)) = Len(b) + 1
           /\ \A i \in 1..(Len(b) + 1) : Append(b, x)[i] = IF i = Len(b) + 1 THEN x ELSE b[i]
           /\ Append(b, x) # <<>>
<1>1. /\ Append(b, x) \in Seq(S) /\ Len(Append(b, x)) = Len(b) + 1
      /\ \A i \in 1..(Len(b) + 1) : Append(b, x)[i] = IF i = Len(b) + 1 THEN x ELSE b[i]
  OBVIOUS
<1>2. Append(b, x) # <<>>
  BY <1>1
<1> QED
  BY <1>1, <1>2

\* memcpy behind the data that is there keeps the data in order.
LEMMA AppendOrdered ==
    ASSUME NEW b \in Seq(Chunks), NEW n, NEW k \in Nat, <<n, k>> \in Chunks,
           Ordered(b, n, k - 1)
    PROVE  Ordered(Append(b, <<n, k>>), n, k)
<1> DEFINE c == Append(b, <<n, k>>)
<1>1. /\ Len(c) = Len(b) + 1 /\ Len(b) \in Nat
      /\ \A i \in 1..(Len(b) + 1) : c[i] = IF i = Len(b) + 1 THEN <<n, k>> ELSE b[i]
  BY AppendIs
<1>2. \A i \in 1..Len(b) : b[i][1] = n /\ b[i][2] \in Nat /\ b[i][2] <= k - 1
  BY ConstantsAssumption DEF ConstantsAssumption, Chunks, Ordered
<1> HIDE DEF c
<1>3. \A i \in 1..Len(c) : c[i][1] = n /\ c[i][2] <= k
  BY <1>1, <1>2
<1>4. ASSUME NEW i \in 1..(Len(c) - 1) PROVE c[i][2] < c[i + 1][2]
  <2>1. i \in 1..Len(b) /\ c[i] = b[i]
    BY <1>1
  <2>2. CASE i = Len(b)
    BY <1>1, <1>2, <2>1, <2>2
  <2>3. CASE i # Len(b)
    <3>1. i + 1 \in 1..Len(b) /\ c[i + 1] = b[i + 1] /\ i \in 1..(Len(b) - 1)
      BY <1>1, <2>1, <2>3
    <3> QED
      BY <2>1, <3>1 DEF Ordered
  <2> QED
    BY <2>2, <2>3
<1>5. Ordered(c, n, k)
  BY <1>3, <1>4 DEF Ordered
<1> QED
  BY <1>5 DEF c

\* Nothing is in order, as far as one likes, and an order extends further on.
LEMMA OrderedWeaken ==
    /\ \A n, k : Ordered(<<>>, n, k)
    /\ \A b \in Seq(Chunks), n \in Nat, j, k \in Int :
          Ordered(b, n, j) /\ j <= k => Ordered(b, n, k)
<1>1. \A n, k : Ordered(<<>>, n, k)
  BY DEF Ordered
<1>2. ASSUME NEW b \in Seq(Chunks), NEW n \in Nat, NEW j \in Int, NEW k \in Int,
             Ordered(b, n, j), j <= k
      PROVE  Ordered(b, n, k)
  <2>1. \A i \in 1..Len(b) : b[i][2] \in Int
    BY ConstantsAssumption DEF ConstantsAssumption, Chunks
  <2> QED
    BY <1>2, <2>1 DEF Ordered
<1> QED
  BY <1>1, <1>2

\* A buffer in order that is not empty is one frame.
LEMMA OrderedIsOneFrame ==
    ASSUME NEW b \in Seq(Chunks), NEW n, NEW k, Ordered(b, n, k), b # <<>>
    PROVE  OneFrame(b)
<1>1. Len(b) \in Nat /\ 1 \in 1..Len(b)
  OBVIOUS
<1> QED
  BY <1>1 DEF Ordered, OneFrame

\* A data payload joins those before it, any other one leaves them as they are.
LEMMA HoldsNext ==
    ASSUME style \in Style, NEW b \in Seq(Chunks), NEW n, NEW k \in 1..Packets,
           <<n, k>> \in Chunks, Holds(b, n, k - 1)
    PROVE  /\ k \in FirstData..LastData => Holds(Append(b, <<n, k>>), n, k)
           /\ k \notin FirstData..LastData => Holds(b, n, k)
<1>1. /\ FirstData \in Nat /\ LastData \in Nat /\ FirstData <= LastData
      /\ LastData <= Packets /\ Len(b) \in Nat
  BY ConstantsAssumption DEF ConstantsAssumption, FirstData, LastData, Style
<1>2. ASSUME k \in FirstData..LastData PROVE Holds(Append(b, <<n, k>>), n, k)
  <2> DEFINE c == Append(b, <<n, k>>)
  <2>1. /\ Len(c) = Len(b) + 1
        /\ \A i \in 1..(Len(b) + 1) : c[i] = IF i = Len(b) + 1 THEN <<n, k>> ELSE b[i]
    BY AppendIs
  <2>2. Len(b) = k - FirstData
    BY <1>1, <1>2 DEF Holds
  <2> HIDE DEF c
  <2>3. Len(c) = k - FirstData + 1 /\ FirstData + Len(c) - 1 = k
    BY <1>1, <2>1, <2>2
  <2>4. ASSUME NEW i \in 1..Len(c) PROVE c[i] = <<n, FirstData + i - 1>>
    <3>1. CASE i = Len(c)
      BY <2>1, <2>3, <3>1
    <3>2. CASE i # Len(c)
      <4>1. i \in 1..Len(b) /\ c[i] = b[i]
        BY <1>1, <2>1, <3>2
      <4> QED
        BY <4>1 DEF Holds
    <3> QED
      BY <3>1, <3>2
  <2>5. ~(k < FirstData) /\ ~(k > LastData)
    BY <1>1, <1>2
  <2>6. Holds(c, n, k)
    BY <2>3, <2>4, <2>5 DEF Holds
  <2> QED
    BY <2>6 DEF c
<1>3. ASSUME k \notin FirstData..LastData PROVE Holds(b, n, k)
  <2>1. CASE k < FirstData
    <3>1. k - 1 < FirstData
      BY <1>1, <2>1
    <3> QED
      BY <2>1, <3>1 DEF Holds
  <2>2. CASE k > LastData
    <3>1. ~(k < FirstData) /\ ~(k - 1 < FirstData) /\ (k - 1 > LastData \/ k - 1 = LastData)
      BY <1>1, <2>2
    <3>2. Len(b) = LastData - FirstData + 1
      BY <1>1, <3>1 DEF Holds
    <3> QED
      BY <2>2, <3>1, <3>2 DEF Holds
  <2> QED
    BY <1>1, <1>3, <2>1, <2>2
<1> QED
  BY <1>2, <1>3

\* A buffer with every data payload up to the last is the whole frame.
LEMMA HoldsWhole ==
    ASSUME style \in Style, NEW b \in Seq(Chunks), NEW n, Holds(b, n, Packets)
    PROVE  b = Whole(n) /\ b # <<>>
<1>1. /\ FirstData \in Nat /\ LastData \in Nat /\ FirstData <= LastData
      /\ (Packets = LastData \/ Packets > LastData) /\ Packets \in Nat
  BY ConstantsAssumption DEF ConstantsAssumption, FirstData, LastData, Style
<1>2. Len(b) = LastData - FirstData + 1
  BY <1>1 DEF Holds
<1>3. /\ b = [i \in 1..Len(b) |-> b[i]]
      /\ \A i \in 1..Len(b) : b[i] = <<n, FirstData + i - 1>>
  BY DEF Holds
<1>4. b # <<>>
  BY <1>1, <1>2
<1> QED
  BY <1>2, <1>3, <1>4 DEF Whole

-----------------------------------------------------------------------------
(* The initial states, and one lemma for each action *)

LEMMA PayloadInvInit == Init => PayloadInv
<1> SUFFICES ASSUME Init PROVE PayloadInv
  OBVIOUS
<1> USE ConstantsAssumption DEF ConstantsAssumption, Init, Current, cur, pos
<1>1. /\ Len(kinds) = 0 /\ \A S : <<>> \in Seq(S)
      /\ pkt = NoPayload /\ cur = 0 /\ pos = 0 /\ pkt.header = FALSE
  BY DEF NoPayload
<1>2. TypeOK
  BY <1>1 DEF TypeOK, NoFrame
<1>3. PktInv /\ FidInv /\ KindInv
  BY <1>1 DEF PktInv, FidInv, KindInv
<1>4. BufInv /\ LosslessInv
  <2>1. FirstData > 0
    BY DEF FirstData
  <2> QED
    BY <1>1, <2>1 DEF BufInv, LosslessInv, Filling, Other, Ordered, Holds
<1>5. FrameIntegrity /\ PublishedComplete /\ FrameBufferFits
  BY <1>1 DEF FrameIntegrity, PublishedComplete, FrameBufferFits, NoFrame
<1> QED
  BY <1>2, <1>3, <1>4, <1>5 DEF PayloadInv

LEMMA NewFrameStep ==
    ASSUME StillsEnd, NEW kind \in {"video", "still"}, NEW m \in BOOLEAN,
           NewFrame(kind, m), PayloadInv
    PROVE  PayloadInv'
<1> USE DEF NewFrame, work, hold, listener, Current
<1>0. /\ TypeOK /\ PktInv /\ FidInv /\ KindInv /\ BufInv /\ LosslessInv
      /\ FrameIntegrity /\ PublishedComplete /\ FrameBufferFits
  BY DEF PayloadInv
<1>a. /\ kinds' \in Seq({"video", "still"}) /\ Len(kinds') = Len(kinds) + 1
      /\ Len(kinds) \in Nat /\ \A n \in 1..Len(kinds) : kinds'[n] = kinds[n]
      /\ kinds'[Len(kinds) + 1] = kind
  BY <1>0 DEF TypeOK
<1>b. /\ seen /\ cur = Current /\ metas \subseteq metas'
      /\ \A n \in 1..Current : n \in metas' <=> n \in metas
  BY <1>0, <1>a, ConstantsAssumption DEF ConstantsAssumption, PktInv, TypeOK
<1>1. TypeOK'
  <2>1. kinds' \in Seq({"video", "still"}) /\ Current' <= MaxFrames
    BY <1>0, <1>a, ConstantsAssumption DEF ConstantsAssumption, TypeOK
  <2>2. metas' \subseteq 1..MaxFrames
    <3>1. Len(kinds) + 1 \in 1..MaxFrames
      BY <1>a, <2>1
    <3>2. metas \subseteq 1..MaxFrames /\ metas' \subseteq metas \cup {Len(kinds) + 1}
      BY <1>0 DEF TypeOK
    <3> QED
      BY <3>1, <3>2
  <2>3. meta_outbuf' \subseteq metas' /\ meta_holdbuf' \subseteq metas'
    BY <1>0, <1>b DEF TypeOK
  <2>4. frame' \in [data : Seq(Chunks), ucImageType : {0, 1}, metadata : SUBSET metas']
    BY <1>0, <1>b DEF TypeOK
  <2>5. /\ style' \in Style /\ lossy' \in BOOLEAN /\ next' \in 1..(Packets + 1)
        /\ seen' \in BOOLEAN /\ pc' \in {"idle", "flipped", "copy", "ended"}
    <3>1. 1 \in 1..(Packets + 1)
      BY ConstantsAssumption DEF ConstantsAssumption
    <3> QED
      BY <1>0, <3>1 DEF TypeOK
  <2>6. /\ fid' \in {0, 1} /\ isStill' \in {0, 1} /\ flgStillFinish' \in {0, 1}
        /\ seq' \in Nat \ {0} /\ hold_seq' \in 0..(seq' - 1) /\ last_seq' \in 0..hold_seq'
        /\ outbuf' \in Seq(Chunks) /\ stillOutBuf' \in Seq(Chunks) /\ holdbuf' \in Seq(Chunks)
        /\ capacity' \in Nat /\ stillEnds' \in Nat /\ labelled' \in Nat
    BY <1>0 DEF TypeOK
  <2> QED
    BY <2>1, <2>2, <2>3, <2>4, <2>5, <2>6 DEF TypeOK
<1>2. PktInv'
  <2>1. cur' = cur /\ pos' = pos /\ Current' = Current + 1 /\ Current \in Nat
    BY <1>a DEF cur, pos
  <2>2. ASSUME cur > 0 PROVE pkt' = Payload(cur, pos)'
    <3>1. cur \in 1..Len(kinds) /\ kinds'[cur] = kinds[cur] /\ (cur \in metas' <=> cur \in metas)
      BY <1>0, <1>a, <1>b, <2>2 DEF PktInv
    <3>2. Payload(cur, pos)' = Payload(cur, pos)
      BY <2>1, <3>1 DEF Payload
    <3> QED
      BY <1>0, <2>2, <3>2 DEF PktInv
  <2> QED
    BY <1>0, <1>b, <2>1, <2>2, ConstantsAssumption DEF ConstantsAssumption, PktInv
<1>3. FidInv'
  BY <1>0 DEF FidInv, cur, pos, Payload, NoPayload
<1>4. KindInv'
  <2>1. cur' = cur /\ pos' = pos /\ Current' = Current + 1 /\ Current \in Nat
    BY <1>a DEF cur, pos
  <2>2. ASSUME NEW n \in 1..Current', kinds'[n] = "still" PROVE style' = "eof" /\ ~lossy'
    <3>1. CASE n = Len(kinds) + 1
      BY <1>0, <1>a, <2>2, <3>1, ConstantsAssumption
      DEF ConstantsAssumption, TypeOK, StillsEnd
    <3>2. CASE n # Len(kinds) + 1
      <4>1. n \in 1..Len(kinds) /\ kinds[n] = "still"
        BY <1>a, <2>1, <2>2, <3>2
      <4> QED
        BY <1>0, <4>1 DEF KindInv
    <3> QED
      BY <3>1, <3>2
  <2>3. cur > 0 => kinds'[cur] = kinds[cur]
    BY <1>a, <1>b
  <2> QED
    BY <1>0, <2>1, <2>2, <2>3 DEF KindInv
<1>5. BufInv'
  BY <1>0 DEF BufInv, cur, pos, Filling, Other, Ordered, Payload
<1>6. LosslessInv'
  <2>1. /\ cur' = cur /\ pos' = pos /\ Filling' = Filling /\ FirstData' = FirstData
        /\ LastData' = LastData
    BY DEF cur, pos, Filling, FirstData, LastData
  <2>2. ~lossy => cur = 0 \/ pos = Packets
    BY <1>0, <1>b, ConstantsAssumption
    DEF ConstantsAssumption, LosslessInv, TypeOK, PktInv
  <2>3. \A b, n, k : Holds(b, n, k)' <=> Holds(b, n, k)
    BY <2>1 DEF Holds
  <2> QED
    BY <1>0, <2>1, <2>2 DEF LosslessInv, Holds
<1>7. FrameIntegrity'
  BY <1>0 DEF FrameIntegrity, OneFrame
<1>8. PublishedComplete'
  BY <1>0 DEF PublishedComplete, Whole, FirstData, LastData
<1>9. FrameBufferFits'
  BY <1>0 DEF FrameBufferFits
<1> QED
  BY <1>1, <1>2, <1>3, <1>4, <1>5, <1>6, <1>7, <1>8, <1>9 DEF PayloadInv

LEMMA LosePayloadStep == ASSUME StillsEnd, LosePayload, PayloadInv PROVE PayloadInv'
<1> USE DEF LosePayload, work, hold, listener, Current
<1>0. /\ TypeOK /\ PktInv /\ FidInv /\ KindInv /\ BufInv /\ LosslessInv
      /\ FrameIntegrity /\ PublishedComplete /\ FrameBufferFits
  BY DEF PayloadInv
<1>1. TypeOK'
  BY <1>0, ConstantsAssumption DEF ConstantsAssumption, TypeOK, Chunks, Style
<1>2. PktInv'
  <2>1. cur' = cur /\ pos' = pos /\ Current' = Current /\ Payload(cur, pos)' = Payload(cur, pos)
    BY DEF cur, pos, Current, Payload
  <2>2. seen' => pos < next'
    <3>1. seen /\ cur > 0 => pos \in Nat /\ pos < next
      BY <1>0 DEF PktInv
    <3>2. seen /\ cur = 0 => FALSE
      BY <1>0, ConstantsAssumption DEF ConstantsAssumption, PktInv, TypeOK
    <3> QED
      BY <1>0, <3>1, <3>2 DEF PktInv, TypeOK
  <2> QED
    BY <1>0, <2>1, <2>2, ConstantsAssumption DEF ConstantsAssumption, PktInv, TypeOK
<1>3. FidInv'
  BY <1>0 DEF FidInv, cur, pos, Payload, NoPayload
<1>4. KindInv'
  BY <1>0 DEF KindInv, cur, pos
<1>5. BufInv'
  BY <1>0 DEF BufInv, cur, pos, Filling, Other, Ordered, Payload
<1>6. LosslessInv'
  BY <1>0 DEF LosslessInv, cur, pos, Filling, Other, Holds, FirstData, LastData, Payload
<1>7. FrameIntegrity'
  BY <1>0 DEF FrameIntegrity, OneFrame
<1>8. PublishedComplete'
  BY <1>0 DEF PublishedComplete, Whole, FirstData, LastData
<1>9. FrameBufferFits'
  BY <1>0 DEF FrameBufferFits
<1> QED
  BY <1>1, <1>2, <1>3, <1>4, <1>5, <1>6, <1>7, <1>8, <1>9 DEF PayloadInv

LEMMA ReadHeaderStep == ASSUME StillsEnd, ReadHeader, PayloadInv PROVE PayloadInv'
<1> USE DEF ReadHeader, hold, listener, Current, Payload
<1>0. /\ TypeOK /\ PktInv /\ FidInv /\ KindInv /\ BufInv /\ LosslessInv
      /\ FrameIntegrity /\ PublishedComplete /\ FrameBufferFits
  BY DEF PayloadInv
<1>a. Current \in Nat \ {0} /\ next \in 1..Packets /\ Current' = Current
  BY <1>0, ConstantsAssumption DEF ConstantsAssumption, TypeOK, PktInv
<1>b. /\ pkt' = Payload(Current, next) /\ cur' = Current /\ pos' = next
      /\ pkt'.header = (style # "isight" \/ next = 1) /\ pkt'.fid = Current % 2
      /\ pkt'.still = (kinds[Current] = "still")
      /\ isStill' = IF pkt'.header /\ kinds[Current] = "still" THEN 1 ELSE isStill
  BY DEF Payload, cur, pos
<1>c. \/ seen /\ cur = Current /\ pos < next /\ cur > 0
      \/ ~seen /\ Current = cur + 1 /\ pkt'.header
  <2>1. CASE seen
    BY <1>0, <1>a, <2>1 DEF PktInv
  <2>2. CASE ~seen
    BY <1>0, <1>b, <2>2 DEF PktInv
  <2> QED
    BY <2>1, <2>2
<1>d. seen'
  BY <1>b, <1>c
<1>e. /\ seen => pc' = "copy"
      /\ ~seen => pc' = IF outbuf # <<>> \/ stillOutBuf # <<>> THEN "flipped" ELSE "copy"
  <2>1. fid = cur % 2 /\ cur \in Nat
    BY <1>0 DEF FidInv, PktInv
  <2> QED
    BY <1>b, <1>c, <2>1, Parity
<1>f. ~lossy /\ style = "eof" /\ ~seen =>
          outbuf = <<>> /\ stillOutBuf = <<>> /\ (cur > 0 => isStill = 0)
  <2>1. cur = 0 => pos = 0
    BY <1>0 DEF PktInv, NoPayload, pos
  <2>2. ~lossy /\ style = "eof" /\ ~seen => Filling = <<>> /\ (cur > 0 => isStill = 0)
    BY <1>0, <2>1, ConstantsAssumption
    DEF ConstantsAssumption, LosslessInv, Holds, FirstData, TypeOK, Filling
  <2> QED
    BY <1>0, <2>2 DEF BufInv, Filling, Other
<1>g. seen => isStill' = isStill
  <2>1. ASSUME seen, kinds[Current] = "still" PROVE isStill = 1
    BY <1>0, <1>a, <1>c, <2>1 DEF KindInv, TypeOK, PktInv
  <2> QED
    BY <1>b, <2>1
<1>h. ~seen /\ pc' = "flipped" => isStill = 0 /\ isStill' = 0 /\ cur > 0
  <2> SUFFICES ASSUME ~seen, pc' = "flipped" PROVE isStill = 0 /\ isStill' = 0 /\ cur > 0
    OBVIOUS
  <2>1. outbuf # <<>> \/ stillOutBuf # <<>>
    BY <1>e
  <2>2. ~(~lossy /\ style = "eof")
    BY <1>f, <2>1
  <2>3. kinds[Current] # "still"
    BY <1>0, <1>a, <2>2 DEF KindInv
  <2>4. isStill = 0
    BY <1>0, <1>a, <2>2 DEF KindInv, TypeOK, PktInv
  <2>5. cur > 0
    <3> SUFFICES ASSUME cur = 0 PROVE FALSE
      BY <1>0 DEF PktInv
    <3>1. Filling \in Seq(Chunks) /\ Filling # <<>> /\ Ordered(Filling, 0, pos)
      BY <1>0, <2>1 DEF BufInv, Filling, Other, TypeOK
    <3>2. 1 \in 1..Len(Filling)
      BY <3>1
    <3>3. Filling[1] \in Chunks /\ Filling[1][1] = 0
      BY <3>1, <3>2 DEF Ordered
    <3> QED
      BY <3>3 DEF Chunks
  <2> QED
    BY <1>b, <2>3, <2>4, <2>5
<1>1. TypeOK'
  BY <1>0, ConstantsAssumption DEF ConstantsAssumption, TypeOK, Chunks, Style
<1>2. PktInv'
  <2>1. pkt' = Payload(cur, pos)'
    BY <1>a, <1>b DEF Payload
  <2>2. next' = next + 1 /\ cur' > 0
    BY <1>a, <1>b
  <2> QED
    BY <1>a, <1>b, <1>d, <2>1, <2>2 DEF PktInv
<1>3. FidInv'
  <2>1. fid' = fid /\ fid = cur % 2 /\ cur \in Nat
    BY <1>0 DEF FidInv, PktInv
  <2>2. pc' \in {"flipped", "copy"}
    BY <1>e
  <2>3. ~pkt'.header => fid' = cur' % 2
    BY <1>b, <1>c, <2>1
  <2>4. ASSUME pc' = "flipped" PROVE pkt'.header /\ cur' > 1 /\ fid' = (cur' - 1) % 2
    BY <1>a, <1>b, <1>c, <1>e, <1>h, <2>1, <2>4
  <2> QED
    BY <2>2, <2>3, <2>4 DEF FidInv
<1>4. KindInv'
  <2>1. \A n \in 1..Current' : kinds'[n] = "still" => style' = "eof" /\ ~lossy'
    BY <1>0, <1>a DEF KindInv
  <2>2. ASSUME isStill' = 1 PROVE cur' > 0 /\ kinds'[cur'] = "still" /\ pc' # "flipped"
    <3>1. pc' # "flipped"
      BY <1>c, <1>e, <1>h, <2>2
    <3>2. CASE kinds[Current] = "still"
      BY <1>a, <1>b, <3>1, <3>2
    <3>3. CASE kinds[Current] # "still"
      <4>1. isStill = 1
        BY <1>b, <2>2, <3>3
      <4>2. style = "eof" /\ ~lossy /\ cur > 0 /\ kinds[cur] = "still"
        BY <1>0, <1>a, <4>1 DEF KindInv, PktInv
      <4> QED
        BY <1>c, <1>f, <3>3, <4>1, <4>2
    <3> QED
      BY <3>2, <3>3
  <2>3. ASSUME isStill' = 0, kinds'[cur'] = "still" PROVE FALSE
    <3>1. kinds[Current] = "still" /\ style = "eof"
      BY <1>0, <1>a, <1>b, <2>3 DEF KindInv
    <3>2. pkt'.header
      BY <1>b, <3>1
    <3>3. isStill' = 1
      BY <1>b, <3>1, <3>2
    <3> QED
      BY <2>3, <3>3
  <2> QED
    BY <2>1, <2>2, <2>3 DEF KindInv
<1>5. BufInv'
  <2>1. CASE seen
    <3>1. Filling' = Filling /\ Other' = Other /\ pc' = "copy" /\ Filling \in Seq(Chunks)
      BY <1>0, <1>e, <1>g, <2>1 DEF Filling, Other, TypeOK
    <3>2. Ordered(Filling, cur, pos) /\ cur = Current /\ pos <= next - 1 /\ pos \in Nat
      BY <1>0, <1>a, <1>c, <2>1 DEF BufInv, PktInv
    <3>3. Ordered(Filling, Current, next - 1)
      BY <1>a, <3>1, <3>2, OrderedWeaken
    <3> QED
      BY <1>0, <1>b, <3>1, <3>3 DEF BufInv, Ordered
  <2>2. CASE ~seen /\ pc' = "copy"
    <3>1. Filling' = <<>> /\ Other' = <<>>
      BY <1>e, <2>2 DEF Filling, Other
    <3> QED
      BY <2>2, <3>1 DEF BufInv, Ordered
  <2>3. CASE ~seen /\ pc' = "flipped"
    <3>1. Filling' = Filling /\ Other' = Other /\ Filling \in Seq(Chunks) /\ Filling # <<>>
      BY <1>0, <1>e, <1>h, <2>3 DEF Filling, Other, TypeOK, BufInv
    <3>2. Ordered(Filling, cur, pos) /\ cur = Current - 1 /\ pos <= Packets /\ pos \in Nat
          /\ Packets \in Nat
      BY <1>0, <1>a, <1>c, <1>h, <2>3, ConstantsAssumption DEF ConstantsAssumption, BufInv, PktInv
    <3>3. Ordered(Filling, Current - 1, Packets)
      BY <1>a, <3>1, <3>2, OrderedWeaken
    <3> QED
      BY <1>0, <1>b, <2>3, <3>1, <3>3 DEF BufInv, Ordered
  <2> QED
    BY <1>e, <2>1, <2>2, <2>3
<1>6. LosslessInv'
  <2> SUFFICES ASSUME ~lossy PROVE LosslessInv'
    BY DEF LosslessInv
  <2>1. next' = pos' + 1 /\ seen' /\ FirstData' = FirstData /\ LastData' = LastData
    BY <1>b, <1>d DEF FirstData, LastData
  <2>2. CASE seen
    <3>1. Filling' = Filling /\ pc' = "copy"
      BY <1>0, <1>e, <1>g, <2>2 DEF Filling
    <3>2. pos = next - 1 /\ pos # Packets /\ Holds(Filling, cur, pos) /\ cur = Current
      BY <1>0, <1>a, <1>c, <2>2 DEF LosslessInv, PktInv
    <3>3. Holds(Filling, Current, next - 1)
      BY <3>2
    <3> QED
      BY <1>b, <2>1, <3>1, <3>3 DEF LosslessInv, Holds
  <2>3. CASE ~seen /\ pc' = "copy"
    <3>1. Filling' = <<>> /\ next = 1
      BY <1>0, <1>e, <2>3 DEF Filling, LosslessInv
    <3>2. FirstData \in {1, 2}
      BY DEF FirstData
    <3> QED
      BY <1>b, <2>1, <2>3, <3>1, <3>2 DEF LosslessInv, Holds
  <2>4. CASE ~seen /\ pc' = "flipped"
    <3>1. Filling' = Filling /\ next = 1 /\ pos = Packets /\ cur = Current - 1
      BY <1>0, <1>a, <1>c, <1>h, <2>4 DEF Filling, LosslessInv, PktInv
    <3>2. style # "eof"
      BY <1>e, <1>f, <2>4
    <3>3. Holds(Filling, Current - 1, Packets)
      BY <1>0, <3>1, <3>2 DEF LosslessInv
    <3> QED
      BY <1>b, <2>1, <2>4, <3>1, <3>2, <3>3 DEF LosslessInv, Holds
  <2> QED
    BY <1>e, <2>2, <2>3, <2>4
<1>7. FrameIntegrity'
  BY <1>0 DEF FrameIntegrity, OneFrame
<1>8. PublishedComplete'
  BY <1>0 DEF PublishedComplete, Whole, FirstData, LastData
<1>9. FrameBufferFits'
  BY <1>0 DEF FrameBufferFits
<1> QED
  BY <1>1, <1>2, <1>3, <1>4, <1>5, <1>6, <1>7, <1>8, <1>9 DEF PayloadInv

LEMMA FlipSwapStep == ASSUME StillsEnd, FlipSwap, PayloadInv PROVE PayloadInv'
<1> USE DEF FlipSwap, camera, listener, SwapBuffers, Current
<1>0. /\ TypeOK /\ PktInv /\ FidInv /\ KindInv /\ BufInv /\ LosslessInv
      /\ FrameIntegrity /\ PublishedComplete /\ FrameBufferFits
  BY DEF PayloadInv
<1>a. holdbuf' = Filling /\ Filling \in Seq(Chunks) /\ Filling # <<>>
  BY <1>0 DEF TypeOK, Filling, BufInv
<1>1. TypeOK'
  BY <1>0 DEF TypeOK, Chunks, Style
<1>2. PktInv'
  BY <1>0 DEF PktInv, cur, pos, Payload, NoPayload
<1>3. FidInv'
  BY <1>0 DEF FidInv, cur, pos, Payload, NoPayload
<1>4. KindInv'
  BY <1>0 DEF TypeOK, KindInv, cur, pos
<1>5. BufInv'
  BY <1>0 DEF BufInv, cur, pos, Filling, Other, Ordered, Payload
<1>6. LosslessInv'
  BY <1>0 DEF LosslessInv, cur, pos, Filling, Other, Holds, FirstData, LastData, Payload
<1>7. FrameIntegrity'
  <2>1. OneFrame(Filling)
    BY <1>0, <1>a, OrderedIsOneFrame DEF BufInv
  <2> QED
    BY <1>a, <2>1 DEF FrameIntegrity, OneFrame
<1>8. PublishedComplete'
  <2>1. ~lossy => Holds(Filling, cur - 1, Packets)
    BY <1>0 DEF LosslessInv
  <2>2. ~lossy => Filling = Whole(cur - 1) /\ cur - 1 \in 1..Current
    BY <1>0, <1>a, <2>1, HoldsWhole DEF TypeOK, PktInv, FidInv, Current
  <2>3. Current' = Current /\ \A n : Whole(n)' = Whole(n)
    BY DEF Current, Whole, FirstData, LastData
  <2> QED
    BY <1>a, <2>2, <2>3 DEF PublishedComplete
<1>9. FrameBufferFits'
  BY <1>0 DEF FrameBufferFits
<1> QED
  BY <1>1, <1>2, <1>3, <1>4, <1>5, <1>6, <1>7, <1>8, <1>9 DEF PayloadInv

LEMMA CopyDataStep == ASSUME StillsEnd, CopyData, PayloadInv PROVE PayloadInv'
<1> USE DEF CopyData, camera, hold, listener, Current
<1>0. /\ TypeOK /\ PktInv /\ FidInv /\ KindInv /\ BufInv /\ LosslessInv
      /\ FrameIntegrity /\ PublishedComplete /\ FrameBufferFits
  BY DEF PayloadInv
<1>a. /\ pkt = Payload(cur, pos) /\ cur \in 1..Current /\ pos \in 1..Packets
      /\ Current \in Nat /\ cur \in 1..MaxFrames /\ Packets \in Nat /\ Packets > 1
  BY <1>0, ConstantsAssumption DEF ConstantsAssumption, TypeOK, PktInv, Current
<1>b. /\ pkt.chunk = <<cur, pos>> /\ pkt.fid = cur % 2 /\ pkt.fid \in {0, 1}
      /\ (pkt.meta => cur \in metas) /\ <<cur, pos>> \in Chunks
      /\ pkt.data <=> pos \in FirstData..LastData
      /\ pkt.data /\ pkt.eof <=> style = "eof" /\ pos = Packets
  <2>1. /\ pkt.chunk = <<cur, pos>> /\ pkt.fid = cur % 2 /\ (pkt.meta => cur \in metas)
        /\ pkt.eof <=> style # "isight" /\ pos = Packets
        /\ pkt.data <=> \/ style = "eof"
                        \/ style = "emptyeof" /\ pos < Packets
                        \/ style = "isight" /\ pos > 1
    BY <1>a DEF Payload
  <2>2. pkt.data <=> pos \in FirstData..LastData
    BY <1>0, <1>a, <2>1 DEF TypeOK, Style, FirstData, LastData
  <2>3. pkt.fid \in {0, 1}
    BY <1>a, <2>1, Parity
  <2>4. <<cur, pos>> \in Chunks
    BY <1>a DEF Chunks
  <2>5. pkt.data /\ pkt.eof <=> style = "eof" /\ pos = Packets
    BY <1>0, <1>a, <2>1 DEF TypeOK, Style
  <2> QED
    BY <2>1, <2>2, <2>3, <2>4, <2>5
<1>c. /\ Filling' = IF pkt.data THEN Append(Filling, <<cur, pos>>) ELSE Filling
      /\ Other' = Other /\ Filling \in Seq(Chunks) /\ cur' = cur /\ pos' = pos
  BY <1>0, <1>b DEF Filling, Other, TypeOK, cur, pos
<1>d. pc' = IF style = "eof" /\ pos = Packets THEN "ended" ELSE "idle"
  BY <1>b
<1>1. TypeOK'
  <2>1. /\ Append(outbuf, <<cur, pos>>) \in Seq(Chunks)
        /\ Append(stillOutBuf, <<cur, pos>>) \in Seq(Chunks)
    BY <1>0, <1>b, AppendIs DEF TypeOK
  <2>2. outbuf' \in Seq(Chunks) /\ stillOutBuf' \in Seq(Chunks)
    BY <1>0, <1>b, <2>1 DEF TypeOK
  <2>3. fid' \in {0, 1} /\ meta_outbuf' \subseteq metas'
    <3>1. fid' \in {0, 1}
      BY <1>0, <1>b DEF TypeOK
    <3>2. meta_outbuf \subseteq metas /\ metas' = metas /\ pkt.chunk[1] = cur
      BY <1>0, <1>b DEF TypeOK
    <3>3. meta_outbuf' \subseteq metas
      BY <1>b, <3>2
    <3> QED
      BY <3>1, <3>2, <3>3
  <2>4. flgStillFinish' \in {0, 1} /\ stillEnds' \in Nat /\ pc' \in {"idle", "ended"}
    BY <1>0 DEF TypeOK
  <2> QED
    BY <1>0, <2>2, <2>3, <2>4 DEF TypeOK, Current
<1>2. PktInv'
  BY <1>0 DEF PktInv, cur, pos, Payload, NoPayload
<1>3. FidInv'
  <2>1. fid' = cur % 2
    BY <1>0, <1>b DEF FidInv
  <2> QED
    BY <1>c, <1>d, <2>1 DEF FidInv
<1>4. KindInv'
  BY <1>0 DEF KindInv, cur, pos
<1>5. BufInv'
  <2>1. Ordered(Filling, cur, pos - 1) /\ Other = <<>>
    BY <1>0 DEF BufInv
  <2>2. Ordered(Append(Filling, <<cur, pos>>), cur, pos) /\ Append(Filling, <<cur, pos>>) # <<>>
    BY <1>a, <1>b, <1>c, <2>1, AppendOrdered, AppendIs
  <2>3. Ordered(Filling, cur, pos)
    <3>1. cur \in Nat /\ pos - 1 \in Int /\ pos \in Int /\ pos - 1 <= pos
      BY <1>a
    <3> QED
      BY <1>c, <2>1, <3>1, OrderedWeaken
  <2>4. Ordered(Filling', cur, pos) /\ (pkt.data => Filling' # <<>>)
    BY <1>c, <2>2, <2>3
  <2>5. pc' = "ended" => pkt.data /\ style = "eof" /\ pos = Packets
    BY <1>b, <1>d
  <2> QED
    BY <1>c, <1>d, <2>1, <2>4, <2>5 DEF BufInv, Ordered
<1>6. LosslessInv'
  <2> SUFFICES ASSUME ~lossy PROVE LosslessInv'
    BY DEF LosslessInv
  <2>1. Holds(Filling, cur, pos - 1)
    BY <1>0 DEF LosslessInv
  <2>2. Holds(Filling', cur, pos)
    BY <1>0, <1>a, <1>b, <1>c, <2>1, HoldsNext DEF TypeOK
  <2>3. FirstData' = FirstData /\ LastData' = LastData
    BY DEF FirstData, LastData
  <2> QED
    BY <1>0, <1>c, <1>d, <2>2, <2>3 DEF LosslessInv, Holds
<1>7. FrameIntegrity'
  BY <1>0 DEF FrameIntegrity, OneFrame
<1>8. PublishedComplete'
  BY <1>0 DEF PublishedComplete, Whole, FirstData, LastData
<1>9. FrameBufferFits'
  BY <1>0 DEF FrameBufferFits
<1> QED
  BY <1>1, <1>2, <1>3, <1>4, <1>5, <1>6, <1>7, <1>8, <1>9 DEF PayloadInv

LEMMA EndSwapStep == ASSUME StillsEnd, EndSwap, PayloadInv PROVE PayloadInv'
<1> USE DEF EndSwap, camera, listener, SwapBuffers, Current
<1>0. /\ TypeOK /\ PktInv /\ FidInv /\ KindInv /\ BufInv /\ LosslessInv
      /\ FrameIntegrity /\ PublishedComplete /\ FrameBufferFits
  BY DEF PayloadInv
<1>a. holdbuf' = Filling /\ Filling \in Seq(Chunks) /\ Filling # <<>>
  BY <1>0 DEF TypeOK, Filling, BufInv
<1>1. TypeOK'
  BY <1>0 DEF TypeOK, Chunks, Style
<1>2. PktInv'
  BY <1>0 DEF PktInv, cur, pos, Payload, NoPayload
<1>3. FidInv'
  BY <1>0 DEF FidInv, cur, pos, Payload, NoPayload
<1>4. KindInv'
  <2>1. cur' = cur /\ pos' = pos /\ isStill' = 0 /\ pc' = "idle" /\ Current' = Current
    BY DEF cur, pos
  <2>2. pos = Packets
    BY <1>0 DEF BufInv
  <2> QED
    BY <1>0, <2>1, <2>2 DEF KindInv
<1>5. BufInv'
  BY <1>0 DEF BufInv, cur, pos, Filling, Other, Ordered, Payload
<1>6. LosslessInv'
  <2>1. Filling' = <<>> /\ isStill' = 0 /\ cur' = cur /\ pos' = pos
    BY DEF Filling, cur, pos
  <2> QED
    BY <1>0, <2>1 DEF LosslessInv, BufInv
<1>7. FrameIntegrity'
  <2>1. OneFrame(Filling)
    BY <1>0, <1>a, OrderedIsOneFrame DEF BufInv
  <2> QED
    BY <1>a, <2>1 DEF FrameIntegrity, OneFrame
<1>8. PublishedComplete'
  <2>1. ~lossy => Holds(Filling, cur, Packets)
    BY <1>0 DEF LosslessInv
  <2>2. ~lossy => Filling = Whole(cur) /\ cur \in 1..Current
    BY <1>0, <1>a, <2>1, HoldsWhole DEF TypeOK, PktInv, FidInv, Current
  <2>3. Current' = Current /\ \A n : Whole(n)' = Whole(n)
    BY DEF Current, Whole, FirstData, LastData
  <2> QED
    BY <1>a, <2>2, <2>3 DEF PublishedComplete
<1>9. FrameBufferFits'
  BY <1>0 DEF FrameBufferFits
<1> QED
  BY <1>1, <1>2, <1>3, <1>4, <1>5, <1>6, <1>7, <1>8, <1>9 DEF PayloadInv

LEMMA UserTakeStep == ASSUME StillsEnd, UserTake, PayloadInv PROVE PayloadInv'
<1> USE DEF UserTake, camera, work, hold, Populate, Current
<1>0. /\ TypeOK /\ PktInv /\ FidInv /\ KindInv /\ BufInv /\ LosslessInv
      /\ FrameIntegrity /\ PublishedComplete /\ FrameBufferFits
  BY DEF PayloadInv
<1>1. TypeOK'
  <2>1. frame' \in [data : Seq(Chunks), ucImageType : {0, 1}, metadata : SUBSET metas']
    BY <1>0 DEF TypeOK
  <2>2. Len(holdbuf) \in Nat /\ capacity' \in Nat /\ labelled' \in Nat /\ last_seq' \in 0..hold_seq'
    BY <1>0 DEF TypeOK
  <2> QED
    BY <1>0, <2>1, <2>2 DEF TypeOK, Current
<1>2. PktInv'
  BY <1>0 DEF PktInv, cur, pos, Payload, NoPayload
<1>3. FidInv'
  BY <1>0 DEF FidInv, cur, pos, Payload, NoPayload
<1>4. KindInv'
  BY <1>0 DEF KindInv, cur, pos
<1>5. BufInv'
  BY <1>0 DEF BufInv, cur, pos, Filling, Other, Ordered, Payload
<1>6. LosslessInv'
  BY <1>0 DEF LosslessInv, cur, pos, Filling, Other, Holds, FirstData, LastData, Payload
<1>7. FrameIntegrity'
  BY <1>0 DEF FrameIntegrity, OneFrame
<1>8. PublishedComplete'
  BY <1>0 DEF PublishedComplete, Whole, FirstData, LastData
<1>9. FrameBufferFits'
  BY <1>0 DEF TypeOK, FrameBufferFits
<1> QED
  BY <1>1, <1>2, <1>3, <1>4, <1>5, <1>6, <1>7, <1>8, <1>9 DEF PayloadInv

LEMMA PayloadInvStep == ASSUME StillsEnd, PayloadInv, [Next]_vars PROVE PayloadInv'
<1>1. ASSUME NEW kind \in {"video", "still"}, NEW m \in BOOLEAN, NewFrame(kind, m)
      PROVE  PayloadInv'
  BY <1>1, NewFrameStep
<1>2. CASE LosePayload
  BY <1>2, LosePayloadStep
<1>3. CASE Ev
  BY <1>3, ReadHeaderStep, FlipSwapStep, CopyDataStep, EndSwapStep DEF Ev
<1>4. CASE UserTake
  BY <1>4, UserTakeStep
<1>5. CASE UNCHANGED vars
  <2>1. TypeOK' /\ PktInv' /\ FidInv' /\ KindInv'
    BY <1>5 DEF PayloadInv, vars, camera, work, hold, listener, TypeOK, PktInv, FidInv,
                KindInv, Current, cur, pos, Payload
  <2>2. BufInv' /\ LosslessInv'
    BY <1>5 DEF PayloadInv, vars, camera, work, hold, listener, BufInv, LosslessInv,
                Filling, Other, cur, pos, Ordered, Holds, FirstData, LastData
  <2>3. FrameIntegrity' /\ PublishedComplete' /\ FrameBufferFits'
    BY <1>5 DEF PayloadInv, vars, camera, work, hold, listener, FrameIntegrity, OneFrame,
                PublishedComplete, Current, Whole, FirstData, LastData, FrameBufferFits
  <2> QED
    BY <2>1, <2>2, <2>3 DEF PayloadInv
<1> QED
  BY <1>1, <1>2, <1>3, <1>4, <1>5 DEF Next

-----------------------------------------------------------------------------
(* The theorems *)

\* (UvcPoll) Whichever way its frames leave, the stream takes steps of UvcPayload:
\* a poll that hands out a frame is a turn of the listener, any other step of
\* the poller leaves the stream as it is.
THEOREM PollKeepsStream == PollSpec => Spec
<1> DEFINE Counts == seq \in Nat /\ hold_seq \in Nat /\ last_seq \in Nat
<1>1. PollInit => Init /\ Counts
  BY DEF PollInit, Init
<1>2. ASSUME Counts, [PollNext]_allVars PROVE [Next]_vars
  <2>1. CASE UNCHANGED allVars
    BY <2>1 DEF allVars
  <2>2. CASE \/ \E kind \in {"video", "still"}, withMeta \in BOOLEAN :
                    NewFrame(kind, withMeta)
             \/ LosePayload \/ ReadHeader \/ CopyData \/ UserTake
    BY <2>2 DEF Next, Ev
  <2>3. CASE Published
    BY <2>3 DEF Published, Next, Ev
  <2>4. ASSUME Leave PROVE UserTake \/ UNCHANGED vars
    <3>1. last_seq < hold_seq => last_seq # hold_seq
      BY <1>2
    <3> QED
      BY <2>4, <3>1 DEF Leave, UserTake
  <2>5. CASE Enter \/ Woken \/ Spurious \/ Expires \/ \E t \in {"now", "none", "limit"} : Call(t)
    BY <2>4, <2>5 DEF Enter, Woken, Spurious, Expires, Call, Next
  <2> QED
    BY <1>2, <2>1, <2>2, <2>3, <2>5 DEF PollNext
<1>3. ASSUME Counts, [Next]_vars PROVE Counts'
  <2>1. CASE \E kind \in {"video", "still"}, withMeta \in BOOLEAN : NewFrame(kind, withMeta)
    BY <1>3, <2>1 DEF NewFrame, work, hold, listener
  <2>2. CASE LosePayload \/ ReadHeader \/ CopyData
    BY <1>3, <2>2 DEF LosePayload, ReadHeader, CopyData, work, hold, listener
  <2>3. CASE FlipSwap \/ EndSwap
    BY <1>3, <2>3 DEF FlipSwap, EndSwap, SwapBuffers, listener
  <2>4. CASE UserTake
    BY <1>3, <2>4 DEF UserTake, work, hold
  <2>5. CASE UNCHANGED vars
    BY <1>3, <2>5 DEF vars, work, hold, listener
  <2> QED
    BY <1>3, <2>1, <2>2, <2>3, <2>4, <2>5 DEF Next, Ev
<1> QED
  BY <1>1, <1>2, <1>3, PTL DEF PollSpec, Spec

\* What reaches the listener, through the callback or a poll: a published buffer
\* is one frame of the camera, a whole one if nothing was lost, and the caller's
\* buffer has room for it.  StillsEnd is needed, see there.
THEOREM PublishedFramesRight == ASSUME StillsEnd PROVE PollSpec => []FramesRight
<1>1. PayloadInv => FramesRight
  BY DEF PayloadInv, FramesRight
<1>2. PayloadInv /\ [Next]_vars => PayloadInv'
  BY PayloadInvStep
<1>3. Spec => []FramesRight
  BY <1>1, <1>2, PayloadInvInit, PTL DEF Spec
<1> QED
  BY <1>3, PollKeepsStream, PTL

\* What counts still images and frames labelled still, for every camera.
LabelInv ==
    /\ isStill \in {0, 1} /\ flgStillFinish \in {0, 1}
    /\ stillEnds \in Nat /\ labelled \in Nat
    /\ StillReportedOnce

\* A still image is never reported twice: the flag goes up with an end-of-frame
\* bit and comes down when a frame is labelled, on two threads without a lock.
THEOREM StillOnce == PollSpec => []StillReportedOnce
<1>1. Init => LabelInv
  BY DEF Init, LabelInv, StillReportedOnce
<1>2. LabelInv /\ [Next]_vars => LabelInv'
  <2> SUFFICES ASSUME LabelInv, [Next]_vars PROVE LabelInv'
    OBVIOUS
  <2> USE DEF LabelInv, StillReportedOnce
  <2>1. ASSUME NEW kind \in {"video", "still"}, NEW m \in BOOLEAN, NewFrame(kind, m)
        PROVE  LabelInv'
    BY <2>1 DEF NewFrame, work, hold, listener
  <2>2. CASE LosePayload
    BY <2>2 DEF LosePayload, work, hold, listener
  <2>3. CASE ReadHeader
    BY <2>3 DEF ReadHeader, hold, listener
  <2>4. CASE FlipSwap \/ EndSwap
    BY <2>4 DEF FlipSwap, EndSwap, SwapBuffers, camera, listener
  <2>5. CASE CopyData
    BY <2>5 DEF CopyData, camera, hold, listener
  <2>6. CASE UserTake
    BY <2>6 DEF UserTake, Populate, camera, work, hold
  <2>7. CASE UNCHANGED vars
    BY <2>7 DEF vars, work, listener
  <2> QED
    BY <2>1, <2>2, <2>3, <2>4, <2>5, <2>6, <2>7 DEF Next, Ev
<1>3. Spec => []StillReportedOnce
  BY <1>1, <1>2, PTL DEF Spec, LabelInv
<1> QED
  BY <1>3, PollKeepsStream, PTL

=============================================================================
