----------------------------- MODULE HidReports -----------------------------
(***************************************************************************)
(* What the HID backend of libusb makes up and converts (windows_winusb.c, *)
(* 2742-3203 and 3732-3768): Windows hides the descriptors of a HID device *)
(* and asks for reports instead of transfers, so the backend invents       *)
(* descriptors from the capabilities the HID driver reports, and wraps     *)
(* transfers in report buffers with one byte for the report ID in front    *)
(* and one byte behind to notice an overflow.                              *)
(* hid is a record of the capabilities; bytes are numbers 0..255.          *)
(***************************************************************************)
EXTENDS LibusbDescriptors

CONSTANTS MaxReportSize,    \* MAX_HID_REPORT_SIZE: 1024 in the code
          Hids,             \* capabilities of HID devices
          Asked,            \* lengths asked for
          Reports           \* reports a device sends or is sent

ASSUME HidAssumption ==
    MaxReportSize \in Nat /\ Asked \subseteq Nat /\ Reports \subseteq Seq(Nat)

VARIABLES request           \* a request to the HID backend and its answer

Byte(n) == n % 256
LowHigh(n) == <<Byte(n), Byte(n \div 256)>>
Shortest(a, b) == IF a <= b THEN a ELSE b
Cut(bytes, size) == SubSeq(bytes, 1, Shortest(size, Len(bytes)))

\* descriptor types and lengths
DtDevice == 1     DtConfig == 2     DtString == 3
DtHid == 33       DtReport == 34    DtPhysical == 35
ConfigSize == 9   InterfaceSize == 9   HidSize == 9   EndpointSize == 7
HidInEndpoint == 129    HidOutEndpoint == 2

-----------------------------------------------------------------------------
(* Descriptors                                                             *)

HidDevice(hid) ==
    <<18, DtDevice>> \o LowHigh(512) \o <<0, 0, 0, 64>> \o LowHigh(hid.vid)
      \o LowHigh(hid.pid) \o LowHigh(256) \o hid.stringIndex \o <<1>>

\* One report of the report descriptor: usage, limits, size of eight bits,
\* count, and the main item
\* Mutant: the count has the ID in it
ReportItems_CountsId(usage, size, main) ==
    IF size = 0 THEN <<>>
    ELSE <<9, usage, 21, 0, 37, 255, 117, 8, 149, Byte(size)>> \o main
ReportItems(usage, size, main) ==
    IF size = 0 THEN <<>>
    ELSE <<9, usage, 21, 0, 37, 255, 117, 8, 149, Byte(Byte(size) - 1)>> \o main
ReportDescriptor(hid) ==
    <<6>> \o LowHigh(hid.usagePage) \o <<9, Byte(hid.usage), 161, 1>>
      \o ReportItems(1, hid.input, <<129, 0>>)
      \o ReportItems(2, hid.output, <<145, 0>>)
      \o ReportItems(3, hid.feature, <<178, 2, 1>>)
      \o <<192>>
\* The first nine bytes of a structure that is not packed: in front of the
\* length, whose high byte is left out, is a byte that was never written
HidDescriptor(hid, unwritten) ==
    <<HidSize, DtHid>> \o LowHigh(272) \o <<0, 1, DtReport, unwritten>>
      \o <<Byte(Len(ReportDescriptor(hid)))>>

EndpointDescriptor(address, size) ==
    [type |-> "endpoint", len |-> EndpointSize, address |-> address, packet |-> size - 1]
\* The configuration, as the sequence of descriptors it consists of
HidConfig(hid) ==
    <<[type |-> "config", len |-> ConfigSize, interfaces |-> 1],
      [type |-> "interface", len |-> InterfaceSize, number |-> 0, alt |-> 0, class |-> 3,
       eps |-> Cardinality({r \in {"input", "output"} : hid[r] > 0})],
      [type |-> "hid", len |-> HidSize]>>
      \o (IF hid.input > 0 THEN <<EndpointDescriptor(HidInEndpoint, hid.input)>> ELSE <<>>)
      \o (IF hid.output > 0 THEN <<EndpointDescriptor(HidOutEndpoint, hid.output)>> ELSE <<>>)

\* _hid_wcslen: up to the end mark or a language code
StringLength(text) ==
    CHOOSE n \in 0 .. Len(text) :
        /\ n = Len(text) \/ text[n + 1] \in {0, 1033}
        /\ \A i \in 1 .. n : text[i] \notin {0, 1033}
Characters(index, text) == IF index = 0 THEN 1 ELSE StringLength(text)
Wide(text) == FlattenSeq([i \in 1 .. Len(text) |-> LowHigh(text[i])])
\* The string at an index: the language, one of the three the device names,
\* or what the driver has at that index
Nothing == <<-1>>
StringAt(hid, index, driver) ==
    LET own == {i \in 1 .. 3 : hid.stringIndex[i] = index}
    IN  IF index = 0 THEN <<1033>>
        ELSE IF own # {} THEN hid.strings[CHOOSE i \in own : \A j \in own : i <= j]
        ELSE driver
Done(data) == [ret |-> "done", data |-> data]
Refused(why) == [ret |-> why, data |-> <<>>]
StringDescriptor(hid, index, driver, size) ==
    LET text == StringAt(hid, index, driver)
        length == 2 + 2 * Characters(index, text)
        total == Shortest(size, length)
    IN  IF size \notin 2 .. 255 THEN Refused("overflow")
        ELSE IF text = Nothing THEN Refused("invalid")
        ELSE Done(<<total, DtString>> \o Cut(Wide(text), total - 2))

\* _hid_get_descriptor.  A configuration is answered as the descriptors of
\* which the first "size" bytes are handed out.
GetDescriptor(hid, type, index, size, driver, unwritten) ==
    CASE type = DtDevice -> Done(Cut(HidDevice(hid), size))
      [] type = DtConfig /\ index = 0 -> Done(HidConfig(hid))
      [] type = DtString -> StringDescriptor(hid, index, driver, size)
      [] type = DtHid /\ index = 0 -> Done(Cut(HidDescriptor(hid, unwritten), size))
      [] type = DtReport /\ index = 0 -> Done(Cut(ReportDescriptor(hid), size))
      [] type \in {DtConfig, DtHid, DtReport} /\ index # 0 -> Refused("invalid")
      [] type = DtPhysical -> IF driver = Nothing THEN Refused("other") ELSE Done(driver)
      [] OTHER -> Refused("unsupported")

-----------------------------------------------------------------------------
(* Reports.  A report on its way to or from the driver is the report ID    *)
(* (0 when the device numbers none) and the data.                          *)

\* The driver: it fills the buffer as far as it goes, and says how many bytes
\* it moved: of GET_REPORT and SET_REPORT without an ID that is only the data
\* ("doesn't include report IDs when not in use", 3073), of ReadFile and
\* WriteFile it is all.
DriverFills(id, report, room) == Cut(<<id>> \o report, room)
DriverCounts(id, bytes, io) == IF io = "control" /\ id = 0 THEN Len(bytes) - 1 ELSE Len(bytes)

\* _hid_get_report and _hid_set_report: the sizes and types they refuse
ReportRefused(direction, type, id, size) ==
    \/ size = 0
    \/ size > (IF direction = "out" /\ id # 0 THEN MaxReportSize + 1 ELSE MaxReportSize)
    \/ type # "feature" /\ type # (IF direction = "in" THEN "input" ELSE "output")

\* _hid_get_report when the driver answers at once.  The answer is one of
\* error, overflow and done, with the bytes for the caller.
GetReportNow(id, report, size) ==
    LET buf == DriverFills(id, report, size + 1)
        read == DriverCounts(id, buf, "control")
        got == SubSeq(IF id = 0 THEN Tail(buf) ELSE buf, 1, Shortest(read, size))
    IN  [ret |-> IF read > size THEN "overflow" ELSE "done", data |-> got]

\* hid_copy_transfer_data: what an answer that came later becomes
\* Mutant: the ID of an unnumbered report is handed on
Copied_KeepsId(buf, ioSize, expected) ==
    [ret |-> IF ioSize > expected THEN "overflow" ELSE "done",
     data |-> SubSeq(buf, 1, Shortest(ioSize, expected))]
Copied(buf, ioSize, expected) ==
    LET size == Shortest(ioSize, expected)
    IN  [ret |-> IF ioSize > expected THEN "overflow" ELSE "done",
         data |-> IF size = 0 THEN <<>>
                  ELSE IF buf[1] = 0 THEN SubSeq(buf, 2, size)
                  ELSE SubSeq(buf, 1, size)]
GetReportLater(id, report, size) ==
    LET buf == DriverFills(id, report, size + 1)
    IN  Copied(buf, DriverCounts(id, buf, "control"), size)

\* _hid_set_report: the buffer the driver gets
SetReportBuffer(id, data) == IF id = 0 THEN <<0>> \o data ELSE data

\* hid_submit_bulk_transfer: the length of the report for a transfer, and what
\* the driver gets or the caller receives
BulkLength(usesIds, length) == IF usesIds THEN length ELSE length + 1
BulkRead(usesIds, id, report, length) ==
    LET expected == BulkLength(usesIds, length)
        buf == DriverFills(id, report, expected + 1)
    IN  Copied(buf, DriverCounts(id, buf, "bulk"), expected)
BulkWriteBuffer(usesIds, data) == IF usesIds THEN data ELSE <<0>> \o data

\* _hid_class_request: which of the two a request is
ClassRequest(direction, recipient, name, type, id, size) ==
    IF \/ recipient \notin {"interface", "device"}
       \/ <<direction, name>> \notin {<<"out", "SET_REPORT">>, <<"in", "GET_REPORT">>}
       \/ ReportRefused(direction, type, id, size)
      THEN "invalid" ELSE name

-----------------------------------------------------------------------------
\* What is asked: a descriptor, a report read (by a control request whose
\* answer comes at once or later, or by an interrupt transfer) or written
NoRequest == [what |-> "none"]
HidInit == request = NoRequest

AskDescriptor ==
    \E hid \in Hids, size \in Asked, index \in 0 .. 4, driver \in {Nothing, <<7, 8>>},
       type \in {DtDevice, DtConfig, DtString, DtHid, DtReport, DtPhysical, 41},
       unwritten \in {0, 255} :
        /\ (type \in {DtString, DtPhysical} \/ (index < 2 /\ driver = Nothing))
        /\ request' = [what |-> "descriptor", hid |-> hid, type |-> type, index |-> index,
                       size |-> size, driver |-> driver,
                       answer |-> GetDescriptor(hid, type, index, size, driver, unwritten)]
AskReport ==
    \E id \in 0 .. 1, report \in Reports, size \in Asked, how \in {"now", "later", "bulk"},
       type \in {"input", "output", "feature"}, recipient \in {"interface", "endpoint"} :
        LET class == ClassRequest("in", recipient, "GET_REPORT", type, id, size)
        IN  request' = [what |-> "read", id |-> id, report |-> report, size |-> size, how |-> how,
                        answer |-> IF how = "bulk" THEN BulkRead(id # 0, id, report, size)
                                   ELSE IF class = "invalid" THEN Refused(class)
                                   ELSE IF how = "now" THEN GetReportNow(id, report, size)
                                   ELSE GetReportLater(id, report, size)]
\* the caller's data begins with the ID when the device numbers its reports
SendReport ==
    \E id \in 0 .. 1, report \in Reports, how \in {"control", "bulk"},
       type \in {"input", "output", "feature"} :
        LET data == IF id = 0 THEN report ELSE <<id>> \o report
            class == ClassRequest("out", "interface", "SET_REPORT", type, id, Len(data))
        IN  request' = [what |-> "write", id |-> id, report |-> report,
                        answer |-> IF how = "bulk" THEN Done(BulkWriteBuffer(id # 0, data))
                                   ELSE IF class = "invalid" THEN Refused(class)
                                   ELSE Done(SetReportBuffer(id, data))]
HidNext == request = NoRequest /\ (AskDescriptor \/ AskReport \/ SendReport)

-----------------------------------------------------------------------------
\* Reads a report descriptor by the rules of the HID specification (external):
\* an item's two low bits tell how many bytes of data it has; the count an
\* input, output or feature item takes is the last one before it.
CountsIn(bytes) ==
    LET size(b) == IF b % 4 = 3 THEN 4 ELSE b % 4
        Starts[i \in 0 .. Len(bytes)] ==      \* where the items after i bytes start
          IF i = Len(bytes) THEN {}
          ELSE {i + 1} \cup Starts[i + 1 + size(bytes[i + 1])]
        Before(k) == CHOOSE c \in Starts[0] :
                       /\ bytes[c] = 149 /\ c < k
                       /\ \A d \in Starts[0] : bytes[d] = 149 /\ d < k => d <= c
        Count(main) == IF \E k \in Starts[0] : bytes[k] = main
                         THEN bytes[Before(CHOOSE k \in Starts[0] : bytes[k] = main) + 1] + 1
                         ELSE 0
    IN  [input |-> Count(129), output |-> Count(145), feature |-> Count(178)]

\* The configuration the backend invents reads, in libusb's own parser, as one
\* interface with an endpoint for each kind of report the device has and the
\* length of its data, and the report descriptor gives back the length of
\* every kind of report up to 256 bytes.
DescriptorsParse ==
    request.what = "descriptor" /\ request.answer.ret = "done" =>
        LET hid == request.hid
            raw == request.answer.data
            Packet(e) == IF e.address = HidInEndpoint THEN hid.input - 1 ELSE hid.output - 1
        IN  /\ request.type = DtConfig =>
                 LET config == ConfigurationOf(raw, TotalLength(raw))
                     setting == config.config.interfaces[1][1]
                 IN  /\ config.ret = "ok" /\ Len(config.config.interfaces) = 1
                     /\ {setting.endpoints[k].address : k \in DOMAIN setting.endpoints}
                          = (IF hid.input > 0 THEN {HidInEndpoint} ELSE {})
                              \cup (IF hid.output > 0 THEN {HidOutEndpoint} ELSE {})
                     /\ \A k \in DOMAIN setting.endpoints :
                           setting.endpoints[k].packet = Packet(setting.endpoints[k])
            /\ request.type = DtReport /\ request.size >= Len(ReportDescriptor(hid)) =>
                 LET counts == CountsIn(raw)
                 IN  \A kind \in {"input", "output", "feature"} :
                       hid[kind] <= 256 => counts[kind] = hid[kind]

\* A string descriptor says its own length, is no longer than asked, and holds
\* the beginning of the text (the whole text if there is room).
StringsWhole ==
    request.what = "descriptor" /\ request.type = DtString /\ request.answer.ret = "done" =>
        LET data == request.answer.data
            text == StringAt(request.hid, request.index, request.driver)
            whole == IF request.index = 0 THEN Wide(text) ELSE Wide(SubSeq(text, 1, StringLength(text)))
        IN  /\ data[1] = Len(data) /\ Len(data) <= request.size
            /\ SubSeq(data, 3, Len(data)) = Cut(whole, request.size - 2)

\* Whoever reads a report gets it from its first byte, with the ID if reports
\* are numbered, as far as asked for; and it is an overflow exactly if a
\* numbered report or one read by an interrupt transfer is longer.  One that
\* GET_REPORT reads without an ID and not at once is exactly one byte short: the
\* length, in which the ID is not counted, is made shorter for it
\* (windows_winusb.c:3073 and 3751-3754).
ReadDelivers ==
    request.what = "read" /\ request.answer.ret # "invalid" =>
        LET whole == IF request.id = 0 THEN request.report ELSE <<request.id>> \o request.report
            short == request.how = "later" /\ request.id = 0
            size == IF short THEN Shortest(request.size, Len(whole)) - 1 ELSE request.size
        IN  /\ request.answer.data = Cut(whole, size)
            /\ request.how = "bulk" \/ request.id # 0 =>
                 (request.answer.ret = "overflow" <=> Len(whole) > request.size)

\* The driver gets every report that is written with the ID in front, which is
\* zero when reports are not numbered, and the data as it was given.
WriteDelivers ==
    request.what = "write" /\ request.answer.ret = "done" =>
        request.answer.data = <<request.id>> \o request.report

\* What the backend makes up is what libusb's own parser and the caller find in it.
InventedRight == DescriptorsParse /\ StringsWhole

\* Whatever is built or taken apart around a report ID is what the caller or the
\* driver is given.
ReportsRight == ReadDelivers /\ WriteDelivers

=============================================================================
