----------------------------- MODULE UvcControls -----------------------------
(***************************************************************************)
(* The camera controls of libuvc: the generated getters and setters of     *)
(* ctrl-gen.c, the generic requests of ctrl.c, and the byte order macros   *)
(* they share.  Every control is a row of a table: the entity and the      *)
(* selector that address it, the length of its data and its fields.        *)
(*                                                                         *)
(* A call is one USB control transfer, atomic at the device, except        *)
(* uvc_get_xu_asic, which first writes the address of a register and then  *)
(* reads the register the device was last pointed to: threads interleave   *)
(* there.  (The register functions are disabled by #if 0, but libuvc.h     *)
(* still declares them and SonixControls builds on them.)  An application  *)
(* exercises one family of calls per behaviour, the families address       *)
(* disjoint state of the device.                                           *)
(***************************************************************************)
EXTENDS Integers, Sequences, FiniteSets, SequencesExt

CONSTANTS Threads,    \* threads of the application
          Patterns,   \* number of sample values tried in a field
          MaxSets,    \* bound on the setter calls of a behaviour
          Registers,  \* addresses of the chip behind the extension unit
          MaxAccesses \* bound on the register accesses of a behaviour

ConstantsAssumption ==
    /\ Patterns \in 1 .. 5
    /\ MaxSets \in Nat
    /\ MaxAccesses \in Nat
    /\ Registers \subseteq Nat
    /\ Registers # {}
ASSUME ConstantsAssumption

-----------------------------------------------------------------------------
(* Bytes and fields.                                                       *)

\* What the byte at each position counts.
Weights == <<1, 256, 65536, 16777216>>

\* INT_TO_DW and SHORT_TO_SW: the low bytes of a value, lowest first.
ToBytes(value, size) == [k \in 1 .. size |-> (value \div Weights[k]) % 256]

\* DW_TO_INT and SW_TO_SHORT, assigned to a signed or an unsigned variable.
FromBytes(bytes, signed) ==
    LET size == Len(bytes)
        last == IF signed /\ bytes[size] > 127 THEN bytes[size] - 256 ELSE bytes[size]
    IN  CASE size = 1 -> last
          [] size = 2 -> bytes[1] + last * Weights[2]
          [] OTHER    -> bytes[1] + bytes[2] * Weights[2] + bytes[3] * Weights[3]
                           + last * Weights[4]

Field(pos, size, signed) == [pos |-> pos, size |-> size, signed |-> signed]
U8(pos)  == Field(pos, 1, FALSE)
I8(pos)  == Field(pos, 1, TRUE)
U16(pos) == Field(pos, 2, FALSE)
I16(pos) == Field(pos, 2, TRUE)
U32(pos) == Field(pos, 4, FALSE)
I32(pos) == Field(pos, 4, TRUE)

Ctl(entity, selector, length, fields) ==
    [address |-> <<entity, selector>>, length |-> length, fields |-> fields]

-----------------------------------------------------------------------------
(* The table: one row per getter and setter of ctrl-gen.c.  CT is the      *)
(* camera terminal, PU the processing unit, SU the selector unit.          *)

ScanningMode == Ctl("CT", 1, 1, <<U8(0)>>)
AeMode == Ctl("CT", 2, 1, <<U8(0)>>)
AePriority == Ctl("CT", 3, 1, <<U8(0)>>)
ExposureAbs == Ctl("CT", 4, 4, <<U32(0)>>)
ExposureRel == Ctl("CT", 5, 1, <<I8(0)>>)
FocusAbs == Ctl("CT", 6, 2, <<U16(0)>>)
FocusRel == Ctl("CT", 7, 2, <<I8(0), U8(1)>>)
FocusSimpleRange == Ctl("CT", 18, 1, <<U8(0)>>)
FocusAuto == Ctl("CT", 8, 1, <<U8(0)>>)
IrisAbs == Ctl("CT", 9, 2, <<U16(0)>>)
IrisRel == Ctl("CT", 10, 1, <<U8(0)>>)
ZoomAbs == Ctl("CT", 11, 2, <<U16(0)>>)
ZoomRel == Ctl("CT", 12, 3, <<I8(0), U8(1), U8(2)>>)
PantiltAbs == Ctl("CT", 13, 8, <<I32(0), I32(4)>>)
PantiltRel == Ctl("CT", 14, 4, <<I8(0), U8(1), I8(2), U8(3)>>)
RollAbs == Ctl("CT", 15, 2, <<I16(0)>>)
RollRel == Ctl("CT", 16, 2, <<I8(0), U8(1)>>)
Privacy == Ctl("CT", 17, 1, <<U8(0)>>)
DigitalWindow == Ctl("CT", 19, 12,
    <<U16(0), U16(2), U16(4), U16(6), U16(8), U16(10)>>)
DigitalRoi == Ctl("CT", 20, 10, <<U16(0), U16(2), U16(4), U16(6), U16(8)>>)
BacklightCompensation == Ctl("PU", 1, 2, <<U16(0)>>)
Brightness == Ctl("PU", 2, 2, <<I16(0)>>)
Contrast == Ctl("PU", 3, 2, <<U16(0)>>)
ContrastAuto == Ctl("PU", 19, 1, <<U8(0)>>)
Gain == Ctl("PU", 4, 2, <<U16(0)>>)
PowerLineFrequency == Ctl("PU", 5, 1, <<U8(0)>>)
Hue == Ctl("PU", 6, 2, <<I16(0)>>)
HueAuto == Ctl("PU", 16, 1, <<U8(0)>>)
Saturation == Ctl("PU", 7, 2, <<U16(0)>>)
Sharpness == Ctl("PU", 8, 2, <<U16(0)>>)
Gamma == Ctl("PU", 9, 2, <<U16(0)>>)
WhiteBalanceTemperature == Ctl("PU", 10, 2, <<U16(0)>>)
WhiteBalanceTemperatureAuto == Ctl("PU", 11, 1, <<U8(0)>>)
WhiteBalanceComponent == Ctl("PU", 12, 4, <<U16(0), U16(2)>>)
WhiteBalanceComponentAuto == Ctl("PU", 13, 1, <<U8(0)>>)
DigitalMultiplier == Ctl("PU", 14, 2, <<U16(0)>>)
DigitalMultiplierLimit == Ctl("PU", 15, 2, <<U16(0)>>)
AnalogVideoStandard == Ctl("PU", 17, 1, <<U8(0)>>)
AnalogVideoLockStatus == Ctl("PU", 18, 1, <<U8(0)>>)
InputSelect == Ctl("SU", 1, 1, <<U8(0)>>)

\* The power mode belongs to the interface itself (ctrl.c).
PowerMode == Ctl("VC", 1, 1, <<U8(0)>>)

Table ==
    <<
      ScanningMode, AeMode, AePriority, ExposureAbs, ExposureRel,
      FocusAbs, FocusRel, FocusSimpleRange, FocusAuto, IrisAbs, IrisRel,
      ZoomAbs, ZoomRel, PantiltAbs, PantiltRel, RollAbs, RollRel, Privacy,
      DigitalWindow, DigitalRoi, BacklightCompensation, Brightness,
      Contrast, ContrastAuto, Gain, PowerLineFrequency, Hue, HueAuto,
      Saturation, Sharpness, Gamma, WhiteBalanceTemperature,
      WhiteBalanceTemperatureAuto, WhiteBalanceComponent,
      WhiteBalanceComponentAuto, DigitalMultiplier,
      DigitalMultiplierLimit, AnalogVideoStandard, AnalogVideoLockStatus,
      InputSelect,
      PowerMode >>
Controls == DOMAIN Table

-----------------------------------------------------------------------------
\* Values of a field tried in calls, and the data of a call.
Samples(f) ==
    LET top == CASE f.size = 1 -> 128
                 [] f.size = 2 -> 32768
                 [] OTHER      -> 1073741824
    IN  IF f.signed THEN <<-1, 1, -top, top - 1, -2>>
        ELSE <<top, 1, top + (top - 1), 0, top - 1>>

Values(c, pattern) ==
    [i \in DOMAIN Table[c].fields |->
        Samples(Table[c].fields[i])[((pattern + i) % 5) + 1]]

\* The body of a setter fills data field by field.
Pack(c, values) ==
    [b \in 1 .. Table[c].length |->
        LET i == CHOOSE k \in DOMAIN Table[c].fields :
                    LET f == Table[c].fields[k]
                    IN  b - 1 \in f.pos .. f.pos + f.size - 1
            f == Table[c].fields[i]
        IN  ToBytes(values[i], f.size)[b - f.pos]]

\* Mutant: every field is taken from the start of the data.
Unpack_SamePosition(c, data) ==
    [i \in DOMAIN Table[c].fields |->
        LET f == Table[c].fields[i]
        IN  FromBytes(SubSeq(data, 1, f.size), f.signed)]

Unpack(c, data) ==
    [i \in DOMAIN Table[c].fields |->
        LET f == Table[c].fields[i]
        IN  FromBytes(SubSeq(data, f.pos + 1, f.pos + f.size), f.signed)]

-----------------------------------------------------------------------------
VARIABLES
    family,  \* the calls this application uses
    wire,    \* per address, the data the device holds
    written, \* history: per control, the values its last sets may have left
    result,  \* what the last call returned: ret and out
    sets,    \* setter calls so far
    regs,    \* registers of the chip behind the extension unit
    latch,   \* the register the chip is pointed to
    reading, \* per thread, the register uvc_get_xu_asic is about to read
    alone,   \* history: threads nobody has disturbed since they pointed
    accesses \* register accesses so far

tableVars == <<wire, written, sets>>
asicVars == <<regs, latch, reading, alone, accesses>>
vars == <<family, wire, written, result, sets, asicVars>>

Families == {"table", "xu", "asic", "sonix"}  \* the last: SonixControls
Pipe == -9                      \* LIBUSB_ERROR_PIPE: the device refused
InvalidParam == -2
NoMem == -11
None == <<>>
NoRegister == -1
XuLength == 2                   \* bytes of the extension unit's control
Addresses == {Table[c].address : c \in Controls}
XuAddress == <<"XU", 1>>
AeMinimum == <<1>>              \* what the device answers to GET_MIN of AE_MODE

Zeros(n) == [b \in 1 .. n |-> 0]
Answer(call, ret, out) == [call |-> call, ret |-> ret, out |-> out]
\* The answer of a getter, with the number of bytes that came (history).
Got(call, ret, out, count) == [call |-> call, ret |-> ret, out |-> out, came |-> count]

\* What the generated functions make of the number of bytes transferred.
Status(c, count) == IF count = Table[c].length THEN 0 ELSE count

\* Transfers that end early report fewer bytes, refused ones an error.
Counts(c) == {Table[c].length, Table[c].length - 1, Pipe}

Init ==
    /\ family \in Families
    /\ wire = [a \in Addresses \union {XuAddress} |->
                IF a = XuAddress THEN Zeros(XuLength)
                ELSE LET c == CHOOSE c \in Controls : Table[c].address = a
                     IN  Zeros(Table[c].length)]
    /\ written = [c \in Controls |-> {Unpack(c, Zeros(Table[c].length))}]
    /\ result = Answer("none", 0, None)
    /\ sets = 0
    /\ regs = [r \in Registers |-> 0]
    /\ latch = CHOOSE r \in Registers : TRUE
    /\ reading = [t \in Threads |-> NoRegister]
    /\ alone = {}
    /\ accesses = 0

\* uvc_set_*: the device has taken the data, or perhaps, when the transfer
\* reports anything but success.
Set(c, pattern, count) ==
    /\ family = "table"
    /\ sets < MaxSets
    /\ LET values == Values(c, pattern)
           whole  == count = Table[c].length
       IN  /\ \E taken \in IF whole THEN {TRUE} ELSE BOOLEAN :
                wire' = [wire EXCEPT ![Table[c].address] =
                            IF taken THEN Pack(c, values) ELSE @]
           /\ written' = [written EXCEPT ![c] =
                         IF whole THEN {values} ELSE @ \union {values}]
    /\ result' = Answer("set", Status(c, count), None)
    /\ sets' = sets + 1
    /\ UNCHANGED <<family, asicVars>>

\* uvc_get_* with UVC_GET_CUR: the outputs are written for a whole reply only.
Get(c, count) ==
    /\ family = "table"
    /\ result' = [call |-> "get", control |-> c, ret |-> Status(c, count),
                  out |-> IF count = Table[c].length
                          THEN Unpack(c, wire[Table[c].address]) ELSE None]
    /\ UNCHANGED <<family, tableVars, asicVars>>

\* uvc_get_xu_data: a cleared buffer, handed out whole whenever at least one
\* byte came.

GetXuData(length, count) ==
    /\ family = "xu"
    /\ result' = IF length = 0 THEN Answer("getxu", InvalidParam, None)
                 ELSE IF count <= 0 THEN Answer("getxu", count, None)
                 ELSE Got("getxu", 0,
                          [b \in 1 .. length |->
                             IF b <= count THEN wire[XuAddress][b] ELSE 0], count)
    /\ UNCHANGED <<family, tableVars, asicVars>>

GetXuDataNoMemory(length) ==
    /\ family = "xu"
    /\ length > 0
    /\ result' = Answer("getxu", NoMem, None)
    /\ UNCHANGED <<family, tableVars, asicVars>>

\* uvc_set_xu_data: any number of bytes taken is reported as success.
SetXuData(data, count) ==
    /\ family = "xu"
    /\ sets < MaxSets
    /\ IF data = <<>>
       THEN /\ result' = Answer("setxu", InvalidParam, None)
            /\ wire' = wire
       ELSE /\ result' = Answer("setxu", IF count > 0 THEN 0 ELSE count, None)
            /\ wire' = [wire EXCEPT ![XuAddress] =
                         [b \in 1 .. XuLength |->
                            IF b <= count THEN data[b] ELSE @[b]]]
    /\ sets' = sets + 1
    /\ UNCHANGED <<family, written, asicVars>>

\* uvc_get_ctrl and uvc_set_ctrl hand the transfer's own result on.
GetCtrl(length, count) ==
    /\ family = "xu"
    /\ result' = IF count > 0
                 THEN Got("getctrl", count, SubSeq(wire[XuAddress], 1, count), count)
                 ELSE Answer("getctrl", count, None)
    /\ UNCHANGED <<family, tableVars, asicVars>>

SetCtrl(data, count) ==
    /\ family = "xu"
    /\ sets < MaxSets
    /\ result' = Answer("setctrl", count, None)
    /\ wire' = [wire EXCEPT ![XuAddress] =
                 [b \in 1 .. XuLength |-> IF b <= count THEN data[b] ELSE @[b]]]
    /\ sets' = sets + 1
    /\ UNCHANGED <<family, written, asicVars>>

\* uvc_get_ctrl_len: a reply of one byte leaves the other byte of the buffer
\* as it was on the stack.
GetCtrlLen(count, stack) ==
    /\ family = "xu"
    /\ LET buf == [b \in 1 .. 2 |-> IF b <= count
                                    THEN ToBytes(XuLength, 2)[b] ELSE stack]
       IN  result' = Got("getlen", IF count < 0 THEN count
                                   ELSE FromBytes(buf, FALSE), None, count)
    /\ UNCHANGED <<family, tableVars, asicVars>>

\* uvc_get_ct_max: asks for the minimum and hands out the stack's bytes after
\* a short reply.
GetCtMax(length, count, stack) ==
    /\ family = "xu"
    /\ result' = IF count <= 0 THEN Answer("ctmax", count, None)
                 ELSE Got("ctmax", 0, [b \in 1 .. length |->
                        IF b <= count THEN AeMinimum[b] ELSE stack], count)
    /\ UNCHANGED <<family, tableVars, asicVars>>

-----------------------------------------------------------------------------
\* uvc_get_xu_asic, first transfer: a dummy write points the chip.

AsicPoint(t, r) ==
    /\ family = "asic"
    /\ accesses < MaxAccesses
    /\ reading[t] = NoRegister
    /\ latch' = r
    /\ reading' = [reading EXCEPT ![t] = r]
    /\ alone' = {t}
    /\ accesses' = accesses + 1
    /\ UNCHANGED <<family, result, regs, tableVars>>

\* Second transfer: the register the chip points to now.
AsicFetch(t) ==
    /\ reading[t] # NoRegister
    /\ result' = [call |-> "asic", thread |-> t, register |-> reading[t],
                  ret |-> 0, out |-> regs[latch], sure |-> t \in alone]
    /\ reading' = [reading EXCEPT ![t] = NoRegister]
    /\ UNCHANGED <<family, tableVars, regs, latch, alone, accesses>>

\* Either transfer of the read fails and its result is returned.
AsicReadFails(t) ==
    /\ family = "asic"
    /\ reading[t] # NoRegister
    /\ result' = Answer("asicfail", Pipe, None)
    /\ reading' = [reading EXCEPT ![t] = NoRegister]
    /\ UNCHANGED <<family, tableVars, regs, latch, alone, accesses>>

\* uvc_set_xu_asic: one transfer carries address and datum.
AsicWrite(t, r, value) ==
    /\ family = "asic"
    /\ accesses < MaxAccesses
    /\ reading[t] = NoRegister
    /\ regs' = [regs EXCEPT ![r] = value]
    /\ latch' = r
    /\ alone' = {}
    /\ result' = Answer("asicset", 0, None)
    /\ accesses' = accesses + 1
    /\ UNCHANGED <<family, reading, tableVars>>

-----------------------------------------------------------------------------
XuBuffers == {<<>>, <<5>>, <<7, 8>>}
XuCounts(length) == (1 .. length) \union {0, Pipe}

TableNext ==
    \/ \E c \in Controls, p \in 1 .. Patterns :
         \E n \in Counts(c) : Set(c, p, n)
    \/ \E c \in Controls : \E n \in Counts(c) : Get(c, n)

XuNext ==
    \/ \E l \in 0 .. XuLength : \E n \in XuCounts(l) : GetXuData(l, n)
    \/ \E l \in 1 .. XuLength : GetXuDataNoMemory(l)
    \/ \E d \in XuBuffers : \E n \in XuCounts(Len(d)) : SetXuData(d, n)
    \/ \E l \in 1 .. XuLength : \E n \in XuCounts(l) : GetCtrl(l, n)
    \/ \E d \in XuBuffers \ {<<>>} : \E n \in XuCounts(Len(d)) : SetCtrl(d, n)
    \/ \E n \in XuCounts(2), stack \in {0, 255} : GetCtrlLen(n, stack)
    \/ \E l \in 1 .. 2, n \in {1, Pipe, 0}, stack \in {0, 255} : GetCtMax(l, n, stack)

AsicNext ==
    \E t \in Threads :
        \/ \E r \in Registers : AsicPoint(t, r)
        \/ AsicFetch(t)
        \/ AsicReadFails(t)
        \/ \E r \in Registers, v \in {1, 2} : AsicWrite(t, r, v)

Next == TableNext \/ XuNext \/ AsicNext

Spec == Init /\ [][Next]_vars

-----------------------------------------------------------------------------
\* Every variable stays in its range: the device's data keeps the length its
\* control has (the getters and setters of ctrl-gen.c name it three times).
ControlTypes ==
    /\ family \in Families
    /\ \A c \in Controls : wire[Table[c].address] \in
            [1 .. Table[c].length -> 0 .. 255]
    /\ sets \in 0 .. MaxSets
    /\ reading \in [Threads -> Registers \union {NoRegister}]
    /\ accesses \in 0 .. MaxAccesses

\* A getter that wrote its outputs wrote the values the last sets of this
\* very control may have left: fields do not overlap, keep their width, sign
\* and order, and no other setter touches them.
ReadBack ==
    result.call = "get" /\ result.out # None =>
        result.out \in written[result.control]

\* What the getters with a buffer of the caller's hand out when they report
\* success: as many bytes of the device as came, each in its place.  A short
\* answer is a success for them too: uvc_get_ctrl tells the number of bytes,
\* uvc_get_xu_data fills up with zeros, and uvc_get_ct_max with whatever is on
\* the stack, without telling.
BytesReal ==
    result.call \in {"getxu", "getctrl", "ctmax"} /\ result.out # None =>
        LET held == IF result.call = "ctmax" THEN AeMinimum ELSE wire[XuAddress]
        IN  /\ result.came \in 1 .. Len(result.out)
            /\ \A b \in 1 .. result.came : result.out[b] = held[b]
            /\ result.call = "getctrl" => result.came = Len(result.out) /\ result.ret = result.came
            /\ result.call = "getxu" =>
                 \A b \in result.came + 1 .. Len(result.out) : result.out[b] = 0

\* uvc_get_ctrl_len returns the length that the device tells in two bytes.  (Of
\* an answer of fewer bytes it takes the rest from the stack and says success.)
LengthReal == result.call = "getlen" /\ result.came = 2 => result.ret = XuLength

\* uvc_get_xu_asic hands out the register it was asked for, unless another
\* thread reached the chip between its two transfers.
AsicReadsAsked ==
    result.call = "asic" /\ result.sure =>
        result.out = regs[result.register]

\* What a getter hands out is what the device holds under that control, that
\* address or that register: all of it for the generated getters, which hand
\* out nothing of a short answer, and as much as came for the others.
AnswersRight == ControlTypes /\ ReadBack /\ BytesReal /\ LengthReal /\ AsicReadsAsked

=============================================================================
