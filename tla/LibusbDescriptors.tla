------------------------- MODULE LibusbDescriptors -------------------------
(***************************************************************************)
(* How libusb reads descriptors (descriptor.c).  What a device sends is a  *)
(* sequence of descriptors, each with its length in bytes and its type; of *)
(* the whole sequence the first "read" bytes have arrived, so that the last *)
(* descriptor may be cut short.  A descriptor shorter than its type allows *)
(* is not sent by a working device and is left out.                        *)
(***************************************************************************)
EXTENDS Integers, Sequences, FiniteSets, SequencesExt

\* Descriptors that end the "extra" ones between them
Proper == {"device", "config", "interface", "endpoint"}

\* lengths in bytes: a header, a configuration or interface, an endpoint
HeaderLength == 2
ConfigLength == 9
InterfaceLength == 9

BytesBefore(raw, k) ==
    LET sum[i \in 0 .. Len(raw)] == IF i = 0 THEN 0 ELSE sum[i - 1] + raw[i].len
    IN  sum[k - 1]
TotalLength(raw) == BytesBefore(raw, Len(raw) + 1)

\* size >= n, where size is what is left of the bytes read at descriptor k
Has(raw, read, k, n) == BytesBefore(raw, k) + n <= read
Whole(raw, read, k) == Has(raw, read, k, raw[k].len)

\* Where skipping over extra descriptors ends: at a proper one, at one that
\* is cut short, or where less than a header is left
StopsAt(raw, read, k) ==
    CHOOSE j \in k .. Len(raw) + 1 :
        /\ ~Has(raw, read, j, HeaderLength) \/ ~Whole(raw, read, j)
           \/ raw[j].type \in Proper
        /\ \A i \in k .. j - 1 : Whole(raw, read, i) /\ raw[i].type \notin Proper
CutAt(raw, read, k) == Has(raw, read, k, HeaderLength) /\ ~Whole(raw, read, k)

-----------------------------------------------------------------------------
\* parse_endpoint: next = k when there is no whole endpoint here
\* Mutant: an endpoint that is cut short is taken
EndpointAt_CutTaken(raw, read, k) ==
    IF ~Has(raw, read, k, HeaderLength) THEN [ret |-> "io", next |-> k]
    ELSE IF raw[k].type # "endpoint" THEN [ret |-> "ok", next |-> k]
    ELSE LET stop == StopsAt(raw, read, k + 1)
         IN  [ret |-> "ok", next |-> stop,
              endpoint |-> [address |-> raw[k].address, packet |-> raw[k].packet,
                            extra |-> <<>>]]
EndpointAt(raw, read, k) ==
    IF ~Has(raw, read, k, HeaderLength) THEN [ret |-> "io", next |-> k]
    ELSE IF raw[k].type # "endpoint" \/ ~Whole(raw, read, k)
      THEN [ret |-> "ok", next |-> k]
    ELSE LET stop == StopsAt(raw, read, k + 1)
         IN  [ret |-> "ok", next |-> stop,
              endpoint |-> [address |-> raw[k].address, packet |-> raw[k].packet,
                            extra |-> IF CutAt(raw, read, stop) THEN <<>>
                                      ELSE SubSeq(raw, k + 1, stop - 1)]]

\* the endpoints of an alternate setting, up to the number it announces
EndpointTaken(s, e) ==
    IF e.ret # "ok" THEN [s EXCEPT !.ret = e.ret]
    ELSE IF e.next = s.next THEN [s EXCEPT !.done = TRUE]
    ELSE [s EXCEPT !.next = e.next, !.list = Append(@, e.endpoint)]
EndpointsAt(raw, read, k, number) ==
    LET after[i \in 0 .. number] ==
          IF i = 0 THEN [ret |-> "ok", next |-> k, list |-> <<>>, done |-> FALSE]
          ELSE LET s == after[i - 1]
               IN  IF s.ret # "ok" \/ s.done THEN s
                   ELSE EndpointTaken(s, EndpointAt(raw, read, s.next))
    IN  after[number]

\* parse_interface: the alternate settings of one interface.  When an extra
\* descriptor is cut short bNumEndpoints stays, without endpoints.
Setting(d, extra, number, endpoints) ==
    [number |-> d.number, alt |-> d.alt, class |-> d.class, extra |-> extra,
     numEndpoints |-> number, endpoints |-> endpoints]
\* what follows is an alternate setting of the same interface
AlternateAt(raw, read, k, number) ==
    /\ Has(raw, read, k, InterfaceLength)
    /\ raw[k].type = "interface" /\ raw[k].number = number
InterfaceAt(raw, read, k) ==
    LET settings[j \in k .. Len(raw) + 1] ==
          IF ~Has(raw, read, j, InterfaceLength) \/ raw[j].type # "interface"
             \/ ~Whole(raw, read, j)
            THEN [ret |-> "ok", next |-> j, list |-> <<>>]
          ELSE LET d == raw[j]
                   stop == StopsAt(raw, read, j + 1)
                   e == EndpointsAt(raw, read, stop, d.eps)
                   this == Setting(d, SubSeq(raw, j + 1, stop - 1), Len(e.list), e.list)
               IN  IF CutAt(raw, read, stop)
                     THEN [ret |-> "ok", next |-> stop, list |-> <<Setting(d, <<>>, d.eps, <<>>)>>]
                   ELSE IF e.ret # "ok" THEN [ret |-> e.ret, next |-> j, list |-> <<>>]
                   ELSE IF AlternateAt(raw, read, e.next, d.number)
                     THEN [settings[e.next] EXCEPT !.list = <<this>> \o @]
                   ELSE [ret |-> "ok", next |-> e.next, list |-> <<this>>]
    IN  settings[k]

\* parse_configuration: the interfaces, as many as are announced and found.
\* An error clears all of them.
NoInterfaces == [interfaces |-> <<>>, extra |-> <<>>]
InterfaceTaken(raw, s, stop, f) ==
    LET t == [s EXCEPT !.config.extra =
                IF @ = <<>> THEN SubSeq(raw, s.next, stop - 1) ELSE @]
    IN  IF f.ret # "ok" THEN [t EXCEPT !.ret = f.ret, !.config = NoInterfaces]
        ELSE IF f.next = stop THEN [t EXCEPT !.done = TRUE]
        ELSE [t EXCEPT !.next = f.next, !.config.interfaces = Append(@, f.list)]
InterfacesFrom(raw, read, s) ==
    LET stop == StopsAt(raw, read, s.next)
    IN  IF CutAt(raw, read, stop) THEN [s EXCEPT !.done = TRUE]
        ELSE InterfaceTaken(raw, s, stop, InterfaceAt(raw, read, stop))
ConfigurationOf(raw, read) ==
    LET after[i \in 0 .. raw[1].interfaces] ==
          IF i = 0 THEN [ret |-> "ok", next |-> 2, config |-> NoInterfaces, done |-> FALSE]
          ELSE LET s == after[i - 1]
               IN  IF s.ret # "ok" \/ s.done THEN s ELSE InterfacesFrom(raw, read, s)
    IN  IF ~Has(raw, read, 1, ConfigLength) \/ ~Whole(raw, read, 1)
          THEN [ret |-> "io", config |-> NoInterfaces]
        ELSE [f \in {"ret", "config"} |-> after[raw[1].interfaces][f]]

(* libusb_get_config_descriptor: the first read is of nine bytes, the second *)
(* of as many as the configuration says it has; either may fail (a number    *)
(* below 0) or bring less.                                                   *)
ConfigDescriptor(configs, index, first, second) ==
    IF index >= Len(configs) THEN [ret |-> "not found", config |-> NoInterfaces]
    ELSE IF first < ConfigLength THEN [ret |-> "io", config |-> NoInterfaces]
    ELSE IF second < 0 THEN [ret |-> "io", config |-> NoInterfaces]
    ELSE ConfigurationOf(configs[index + 1], second)

\* usbi_get_config_index_by_value and libusb_get_config_descriptor_by_value
ConfigByValue(configs, value, first, second) ==
    LET with == {i \in DOMAIN configs : configs[i][1].value = value}
    IN  IF with = {} THEN [ret |-> "not found", config |-> NoInterfaces]
        ELSE ConfigDescriptor(configs, (CHOOSE i \in with : \A j \in with : i <= j) - 1,
                              first, second)

\* libusb_get_ss_endpoint_companion_descriptor: the bytes per interval of the
\* first companion, or 0 when there is none
CompanionBytes(endpoint) ==
    LET at == {i \in DOMAIN endpoint.extra : endpoint.extra[i].type = "companion"}
    IN  IF at = {} THEN 0
        ELSE endpoint.extra[CHOOSE i \in at : \A j \in at : i <= j].bytes

\* parse_bos: the capabilities that are whole, as many as are announced
BosLength == 5
CapabilityLength == 3
BosOf(raw, read) ==
    IF ~Has(raw, read, 1, BosLength) THEN [ret |-> "io", caps |-> <<>>]
    ELSE FoldLeft(LAMBDA s, i :
           IF s.done \/ ~Has(raw, read, i, CapabilityLength) \/ ~Whole(raw, read, i)
              \/ raw[i].type # "capability"
             THEN [s EXCEPT !.done = TRUE]
             ELSE [s EXCEPT !.caps = Append(@, raw[i])],
         [ret |-> "ok", caps |-> <<>>, done |-> FALSE],
         [i \in 1 .. raw[1].caps |-> i + 1])

\* libusb_get_string_descriptor_ascii, once the string has been read: text is
\* a sequence of 16-bit characters, of which "read" bytes of the descriptor
\* came; what is written to a buffer of "length" bytes, its end included
StringAscii(index, text, read, length) ==
    LET bLength == 2 + 2 * Len(text)
        \* one character for each two bytes, while the buffer has room for more
        count == IF length - 1 < 0 THEN 0
                 ELSE IF Len(text) <= length - 1 THEN Len(text) ELSE length - 1
    IN  IF index = 0 THEN [ret |-> "invalid param", written |-> <<>>]
        ELSE IF bLength > read THEN [ret |-> "io", written |-> <<>>]
        ELSE [ret |-> "ok",
              written |-> Append([i \in 1 .. count |->
                                    IF text[i] >= 128 THEN 63 ELSE text[i]], 0)]

=============================================================================
