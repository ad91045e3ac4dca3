-------------------------- MODULE MCWinusbBackend --------------------------
(* Instances of WinusbBackend: a composite device with a WinUSB and a HID  *)
(* interface, a camera with one driver for its two interfaces (control and *)
(* streaming, with an alternate setting for it), and two HID interfaces, a *)
(* keyboard that may not be read among them; and HID capabilities with     *)
(* reports of the lengths at which counts and buffers change.              *)
EXTENDS WinusbBackend

Composite ==
    [composite |-> TRUE, driver |-> <<"winusb", "hid">>, path |-> <<TRUE, TRUE>>,
     restricted |-> {1}, eps |-> <<<<{}, {130}>>, <<{129}>>>>, iso |-> FALSE, cancels |-> TRUE]
OneDriver ==
    [composite |-> FALSE, driver |-> <<"winusb", "winusb">>, path |-> <<TRUE, FALSE>>,
     restricted |-> {}, eps |-> <<<<{131}>>, <<{}, {130}>>>>, iso |-> TRUE, cancels |-> TRUE]
HidOnly ==
    [composite |-> FALSE, driver |-> <<"hid", "hid">>, path |-> <<TRUE, TRUE>>,
     restricted |-> {0}, eps |-> <<<<{2}>>, <<{129}>>>>, iso |-> FALSE, cancels |-> TRUE]
\* interfaces and settings are numbered from 0
FromZero(list) == [i \in 0 .. Len(list) - 1 |-> list[i + 1]]
Numbered(d) == [d EXCEPT !.driver = FromZero(@), !.path = FromZero(@),
                         !.eps = [i \in 0 .. Len(@) - 1 |-> FromZero(@[i + 1])]]
MCDevices == {Numbered(d) : d \in {Composite, OneDriver, HidOnly}}

Hid(input, output, feature) ==
    [vid |-> 1133, pid |-> 2093, usagePage |-> 65280, usage |-> 1, input |-> input,
     output |-> output, feature |-> feature, stringIndex |-> <<1, 2, 0>>,
     strings |-> <<<<65, 66, 0>>, <<67, 1033, 68>>, <<0>>>>]
MCHids == {Hid(i, o, f) : i \in {0, 9, 65, 256, 257}, o \in {0, 5, 256}, f \in {0, 9}}
MCAsked == {0, 1, 2, 3, 4, 5, 9, 100, 256}
MCReports == {<<>>, <<5>>, <<5, 6>>, <<5, 6, 7, 8, 9>>}
MCSymmetry == {[t \in Transfers |-> t], [t \in Transfers |-> CHOOSE u \in Transfers : u # t]}
=============================================================================
