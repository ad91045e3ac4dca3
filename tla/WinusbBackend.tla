--------------------------- MODULE WinusbBackend ---------------------------
(***************************************************************************)
(* A device handle in the WinUSB backend of libusb: which interfaces are   *)
(* claimed, the handles Windows gives for them, the endpoints the backend  *)
(* believes they have, and the way of a transfer to the driver of an       *)
(* interface (windows_winusb.c, with the calls of core.c in front of it).  *)
(* A device is served as a whole by a WinUSB-like driver or by the HID     *)
(* driver, or it is composite and each interface has a driver of its own.  *)
(*                                                                         *)
(* Claiming and releasing hold the handle's lock and are one step; a       *)
(* change of the alternate setting and the submission of a transfer hold   *)
(* none and work in several, with other threads between them.  Each        *)
(* transfer is submitted by one thread at a time, and ended by the event   *)
(* thread; one alternate setting is changed at a time.  All WinUSB-like    *)
(* interfaces of a device have the same driver here.  (The backend is      *)
(* compiled and initialised; libusbi.h:215 selects UsbDk over it.)         *)
(***************************************************************************)
EXTENDS HidReports

CONSTANTS Devices,      \* [composite, driver, path, restricted, eps, iso, cancels]: devices
          Transfers,
          MaxCalls      \* bound on the calls the application makes

\* Interfaces are numbered from 0 and have an alternate setting 0.  One driver
\* for the whole device has all interfaces, a WinUSB-like one through the path
\* of interface 0.
ASSUME HandleAssumption ==
    /\ IsFiniteSet(Transfers) /\ MaxCalls \in Nat \ {0}
    /\ \A d \in Devices :
         /\ d.composite \in BOOLEAN /\ d.iso \in BOOLEAN /\ d.cancels \in BOOLEAN
         /\ DOMAIN d.driver \subseteq Nat /\ 0 \in DOMAIN d.driver
         /\ d.driver \in [DOMAIN d.driver -> {"winusb", "hid", "none"}]
         /\ d.path \in [DOMAIN d.driver -> BOOLEAN]
         /\ \A i \in DOMAIN d.driver :
              /\ DOMAIN d.eps[i] \subseteq Nat /\ 0 \in DOMAIN d.eps[i]
              /\ ~d.composite => d.driver[i] = d.driver[0]
              /\ (~d.composite /\ d.path[i] /\ d.driver[i] = "winusb") => i = 0

VARIABLES device,       \* the device
          opened,       \* the handle is open
          h,            \* what the handle and the device keep about interfaces
          xfer,         \* the transfers
          setter,       \* a call that changes an alternate setting
          cancelEx,     \* CancelIoEx_supported
          calls         \* calls made so far

handleVars == <<device, opened, h, xfer, setter, cancelEx, calls, request>>

Ifaces == DOMAIN device.driver
Endpoints(i) == UNION {device.eps[i][a] : a \in DOMAIN device.eps[i]}
AllEndpoints == UNION {Endpoints(i) : i \in Ifaces}
Driver(i) == device.driver[i]
\* the first of some interfaces, or none
Unknown == -1
FirstOf(S) == IF S = {} THEN Unknown ELSE CHOOSE i \in S : \A j \in S : i <= j

(* h.claimed: claimed_interfaces.  h.file and h.api: dev_handle and         *)
(* api_handle of interface_handle[i]; the flag is INTERFACE_CLAIMED.        *)
(* h.eps: the endpoints of usb_interface[i].  h.autos: autoclaim_count.     *)
(* h.alt is the driver's own: the alternate setting interface i has.        *)
(* The rest is history: files and apis count what Windows has open, lost    *)
(* what nothing refers to any more; by is who claimed, mixed where the      *)
(* count of a transfer stands against the application's claim, found the    *)
(* bulk and isochronous transfers that looked an interface up since it was  *)
(* released, failed that a submission or a claim failed half-way, refused   *)
(* that the last change of the alternate setting did, and crossed that the  *)
(* interface was claimed anew in the middle of one.                         *)
NoHandle ==
    [claimed |-> {}, file |-> [i \in Ifaces |-> "none"], api |-> [i \in Ifaces |-> "none"],
     eps |-> [i \in Ifaces |-> {}], autos |-> [i \in Ifaces |-> 0],
     files |-> [i \in Ifaces |-> 0], apis |-> [i \in Ifaces |-> 0],
     lost |-> [i \in Ifaces |-> 0], alt |-> [i \in Ifaces |-> 0],
     found |-> [i \in Ifaces |-> {}], by |-> [i \in Ifaces |-> "nobody"],
     mixed |-> {}, failed |-> {}, refused |-> {}, crossed |-> {}]
Idle(x) == [x EXCEPT !.st = "idle", !.kind = "none", !.req = "none", !.tries = {},
                     !.iface = Unknown, !.handle = "none", !.ep = Unknown]
NewTransfer == [st |-> "idle", kind |-> "none", req |-> "none", tries |-> {}, iface |-> Unknown,
                handle |-> "none", ep |-> Unknown, num |-> 0, buf |-> FALSE, fds |-> 0, over |-> 0]
NoSetter == [st |-> "none"]

HandleInit ==
    /\ device \in Devices
    /\ opened = FALSE /\ h = NoHandle /\ setter = NoSetter /\ cancelEx = TRUE /\ calls = 0
    /\ xfer = [t \in Transfers |-> NewTransfer]
    /\ HidInit

Call == opened /\ calls < MaxCalls /\ calls' = calls + 1
InFlight(t) == xfer[t].st \in {"flying", "ended"}

-----------------------------------------------------------------------------
(* Opening and closing                                                     *)

HidIfaces == {i \in Ifaces : device.path[i] /\ Driver(i) = "hid"}
WinusbIfaces == {i \in Ifaces : device.path[i] /\ Driver(i) = "winusb"}

\* winusbx_open: a file handle for each interface that has a path
WinusbOpened(s, upTo) ==
    [s EXCEPT !.file = [i \in Ifaces |-> IF i \in upTo THEN "open" ELSE @[i]],
              !.files = [i \in Ifaces |-> IF i \in upTo THEN @[i] + 1 ELSE @[i]]]
\* hid_open: a handle that serves as the interface handle
HidOpened(s, upTo) ==
    [s EXCEPT !.api = [i \in Ifaces |-> IF i \in upTo THEN "valid" ELSE @[i]],
              !.apis = [i \in Ifaces |-> IF i \in upTo THEN @[i] + 1 ELSE @[i]]]
\* composite_open: first the WinUSB-like interfaces, then HID
AllOpened(s) == HidOpened(WinusbOpened(s, WinusbIfaces), HidIfaces)
Open ==
    /\ ~opened /\ calls = 0 /\ request = NoRequest
    /\ opened' = TRUE /\ calls' = 1
    /\ h' = AllOpened(h)
    /\ UNCHANGED <<device, xfer, setter, cancelEx, request>>

\* An interface cannot be opened: the handles before it stay open, and the
\* handle that knows them is freed
OpenFails ==
    /\ ~opened /\ calls = 0 /\ request = NoRequest
    /\ \E i \in WinusbIfaces \cup HidIfaces :
        LET before == {j \in WinusbIfaces : Driver(i) = "hid" \/ j < i}
            hids == {j \in HidIfaces : Driver(i) = "hid" /\ j < i}
            left == HidOpened(WinusbOpened(h, before), hids)
        IN  h' = [h EXCEPT !.files = left.files, !.apis = left.apis,
                           !.lost = [j \in Ifaces |-> left.files[j] + left.apis[j]]]
    /\ calls' = 1
    /\ UNCHANGED <<device, opened, xfer, setter, cancelEx, request>>

\* winusbx_close, hid_close and composite_close: the interface handles that are
\* valid, and the file handles: of a composite device all of them, else that
\* of interface 0
Closed(s) ==
    LET closes(i) == s.file[i] = "open" /\ (device.composite \/ i = 0)
    IN  [s EXCEPT !.apis = [i \in Ifaces |-> IF s.api[i] = "valid" THEN @[i] - 1 ELSE @[i]],
                  !.files = [i \in Ifaces |-> IF closes(i) THEN @[i] - 1 ELSE @[i]]]
Close ==
    /\ Call /\ setter = NoSetter /\ \A t \in Transfers : xfer[t].st = "idle"
    /\ opened' = FALSE
    /\ h' = [Closed(h) EXCEPT !.claimed = {}, !.by = NoHandle.by, !.autos = NoHandle.autos,
                              !.file = NoHandle.file, !.api = NoHandle.api, !.mixed = {},
                              !.found = NoHandle.found]
    /\ UNCHANGED <<device, xfer, setter, cancelEx, request>>

-----------------------------------------------------------------------------
(* Claiming.  Each operator gives the set of ways a call can end, as the   *)
(* value it returns and the state it leaves.                               *)

Ends(r, s) == [ret |-> r, h |-> s]

\* windows_assign_endpoints: the configuration cannot be read, there is no
\* memory (the old list is gone by then), or the endpoints are those of the
\* setting
\* Mutant: the endpoints of the first setting are taken
Assign_FirstSetting(s, i, a) ==
    {Ends("io", [s EXCEPT !.failed = @ \cup {i}]),
     Ends("no memory", [s EXCEPT !.failed = @ \cup {i}, !.eps[i] = {}]),
     Ends("ok", [s EXCEPT !.eps[i] = device.eps[i][0]])}
Assign(s, i, a) ==
    {Ends("io", [s EXCEPT !.failed = @ \cup {i}]),
     Ends("no memory", [s EXCEPT !.failed = @ \cup {i}, !.eps[i] = {}]),
     Ends("ok", [s EXCEPT !.eps[i] = device.eps[i][a]])}

\* A driver handle for interface i, with which the interface has its first
\* setting (external); one that was there is lost
Takes(s, i) == [s EXCEPT !.api[i] = "valid", !.apis[i] = @ + 1, !.alt[i] = 0,
                         !.lost[i] = IF s.api[i] = "valid" THEN @ + 1 ELSE @]
Loses(s, i) == [s EXCEPT !.api[i] = "none",
                         !.lost[i] = IF s.api[i] = "valid" THEN @ + 1 ELSE @]
\* WinUsb_Initialize (with the search for a filter driver when it fails)
Initialized(s, i) ==
    {Ends("ok", Takes(s, i)), Ends("access", Loses(s, i)), Ends("no device", Loses(s, i))}
\* winusbx_claim_interface
WinusbClaim(s, i) ==
    IF device.composite \/ i = 0
      THEN IF s.file[i] # "open" THEN {Ends("not found", s)} ELSE Initialized(s, i)
    ELSE LET first == IF s.api[0] = "valid" THEN {Ends("ok", s)}
                      ELSE {Ends("ok", Takes(s, 0)), Ends("access", s)}
         IN  UNION {IF e.ret # "ok" THEN {e}
                    ELSE {Ends("ok", Takes(e.h, i)), Ends("not found", Loses(e.h, i)),
                          Ends("busy", Loses(e.h, i))} : e \in first}
\* hid_claim_interface: the file handle is used as a flag
HidClaim(s, i) ==
    IF ~device.path[i] THEN {Ends("not found", s)}
    ELSE IF s.file[i] = "flag" THEN {Ends("busy", s)}
    ELSE {Ends("ok", [s EXCEPT !.file[i] = "flag"])}
\* composite_claim_interface asks the driver of the interface
DriverClaim(s, i) == CASE Driver(i) = "winusb" -> WinusbClaim(s, i)
                       [] Driver(i) = "hid" -> HidClaim(s, i)
                       [] OTHER -> {Ends("not supported", s)}
\* winusb_claim_interface
BackendClaim(s, i) ==
    UNION {IF e.ret = "ok" THEN Assign(e.h, i, 0) ELSE {e} :
             e \in DriverClaim([s EXCEPT !.eps[i] = {}], i)}
\* The history of a claim: the application's stands against a count that is
\* not 0, or it does when a transfer claims what it has claimed
Noted(s, i, who) ==
    LET both == IF who = "app" THEN s.autos[i] > 0 ELSE s.by[i] = "app" \/ i \in s.mixed
    IN  [s EXCEPT !.by[i] = IF who = "app" THEN who ELSE IF @ = "nobody" THEN who ELSE @,
                  !.mixed = IF both THEN @ \cup {i} ELSE @ \ {i}]
ChangesSetting(i) == setter.st \in {"drive", "assign"} /\ setter.iface = i
\* libusb_claim_interface, called for the application or for a transfer
ClaimInterface(s, i, who) ==
    IF i \in s.claimed THEN {Ends("ok", Noted(s, i, who))}
    ELSE {IF e.ret = "ok"
            THEN Ends("ok", [Noted(e.h, i, who) EXCEPT
                               !.claimed = @ \cup {i}, !.refused = @ \ {i},
                               !.crossed = IF ChangesSetting(i) THEN @ \cup {i} ELSE @ \ {i}])
          ELSE e : e \in BackendClaim(s, i)}
Claim ==
    /\ Call
    /\ \E i \in Ifaces : \E e \in ClaimInterface(h, i, "app") : h' = e.h
    /\ UNCHANGED <<device, opened, xfer, setter, cancelEx, request>>

\* winusbx_release_interface, hid_release_interface
DriverRelease(s, i) ==
    CASE Driver(i) = "winusb" /\ s.api[i] = "valid" ->
           Ends("ok", [s EXCEPT !.api[i] = "none", !.apis[i] = @ - 1])
      [] Driver(i) = "hid" /\ s.file[i] = "flag" -> Ends("ok", [s EXCEPT !.file[i] = "none"])
      [] OTHER -> Ends("not found", s)
\* libusb_release_interface
ReleaseInterface(s, i) ==
    IF i \notin s.claimed THEN Ends("not found", s)
    ELSE LET e == DriverRelease(s, i)
         IN  IF e.ret # "ok" THEN e
             ELSE Ends("ok", [e.h EXCEPT !.claimed = @ \ {i}, !.by[i] = "nobody",
                                         !.mixed = @ \ {i}, !.found[i] = {}])
\* the application releases what it claimed
Release ==
    /\ Call
    /\ \E i \in Ifaces : h.by[i] = "app" /\ h' = ReleaseInterface(h, i).h
    /\ UNCHANGED <<device, opened, xfer, setter, cancelEx, request>>

-----------------------------------------------------------------------------
(* libusb_set_interface_alt_setting: the test of the claim, then without   *)
(* a lock the backend's forgetting of the endpoints, the driver's change,  *)
(* and the assignment of the new endpoints                                 *)

SetAlternate ==
    /\ Call /\ setter = NoSetter
    /\ \E i \in h.claimed : \E a \in DOMAIN device.eps[i] :
        /\ setter' = [st |-> "forget", iface |-> i, alt |-> a]
    /\ UNCHANGED <<device, opened, h, xfer, cancelEx, request>>
AlternateForget ==
    /\ setter.st = "forget"
    /\ h' = [h EXCEPT !.eps[setter.iface] = {}, !.crossed = @ \ {setter.iface}]
    /\ setter' = [setter EXCEPT !.st = "drive"]
    /\ UNCHANGED <<device, opened, xfer, cancelEx, calls, request>>
\* winusbx_set_interface_altsetting, hid_set_interface_altsetting (only 0)
DriverSetsAlternate(i, a) ==
    CASE Driver(i) = "winusb" -> IF h.api[i] = "valid" THEN {"ok", "io"} ELSE {"not found"}
      [] Driver(i) = "hid" -> IF a = 0 THEN {"ok"} ELSE {"not supported"}
      [] OTHER -> {"not supported"}
AlternateDrive ==
    /\ setter.st = "drive"
    /\ \E r \in DriverSetsAlternate(setter.iface, setter.alt) :
        IF r = "ok" THEN /\ setter' = [setter EXCEPT !.st = "assign"]
                         /\ h' = [h EXCEPT !.alt[setter.iface] = setter.alt]
        ELSE setter' = NoSetter /\ h' = [h EXCEPT !.refused = @ \cup {setter.iface}]
    /\ UNCHANGED <<device, opened, xfer, cancelEx, calls, request>>
AlternateAssign ==
    /\ setter.st = "assign"
    /\ \E e \in Assign(h, setter.iface, setter.alt) :
        h' = [e.h EXCEPT !.refused = IF e.ret = "ok" THEN @ \ {setter.iface}
                                     ELSE @ \cup {setter.iface}]
    /\ setter' = NoSetter
    /\ UNCHANGED <<device, opened, xfer, cancelEx, calls, request>>

-----------------------------------------------------------------------------
(* Submission                                                              *)

\* get_valid_interface and interface_by_endpoint: the first that fits, or none
ValidInterface(s, driver) ==
    FirstOf({i \in Ifaces : /\ s.file[i] # "none" /\ s.api[i] = "valid"
                            /\ Driver(i) = driver})
InterfaceByEndpoint(s, ep) == FirstOf({i \in Ifaces : s.api[i] = "valid" /\ ep \in s.eps[i]})
\* get_interface_by_endpoint: by the configuration
InterfaceOf(ep) == FirstOf({i \in Ifaces : ep \in Endpoints(i)})

\* do_submit_transfer: a descriptor is polled from before the driver is asked,
\* and given up again unless it says ok or overflow
Began(x, kind) == [x EXCEPT !.kind = kind, !.fds = @ + 1]
Refuses(x, r) == IF r = "overflow" THEN [Idle(x) EXCEPT !.over = @ + 1]
                 ELSE [Idle(x) EXCEPT !.fds = @ - 1]

\* composite_submit_control_transfer: the interfaces that are tried, in three
\* passes: the one that is meant, those without restriction, all
Attempts(target) ==
    IF ~device.composite THEN {[pass |-> 2, iface |-> 0]}
    ELSE LET usable == {i \in Ifaces : device.path[i] /\ Driver(i) # "none"}
             tried(pass, S) == {[pass |-> pass, iface |-> i] : i \in usable \cap S}
         IN  tried(0, {target}) \cup tried(1, Ifaces \ device.restricted) \cup tried(2, Ifaces)
Attempt(tries) ==
    LET pass == FirstOf({a.pass : a \in tries})
    IN  [pass |-> pass, iface |-> FirstOf({a.iface : a \in {b \in tries : b.pass = pass}})]

SubmitControl(t) ==
    /\ Call /\ xfer[t].st = "idle"
    /\ \E req \in {"vendor", "set same", "set other", "describe", "report"} :
       \E target \in {Unknown} \cup Ifaces \cup {InterfaceOf(ep) : ep \in AllEndpoints} :
        /\ ~device.composite => target = Unknown
        /\ xfer' = IF Attempts(target) = {} THEN xfer    \* refused
                   ELSE [xfer EXCEPT ![t] = [Began(xfer[t], "control") EXCEPT
                           !.st = "find", !.req = req, !.tries = Attempts(target)]]
    /\ UNCHANGED <<device, opened, h, setter, cancelEx, request>>

\* The start of an attempt: a valid interface of the same driver; the HID
\* backend drops the buffer that an overflow has left
DriverTried(t) == Driver(Attempt(xfer[t].tries).iface)
Find(t) ==
    /\ xfer[t].st = "find"
    /\ LET i == ValidInterface(h, DriverTried(t))
       IN  xfer' = [xfer EXCEPT ![t] = [xfer[t] EXCEPT
                          !.iface = i, !.st = IF i = Unknown THEN "claim" ELSE "drive",
                          !.buf = @ /\ DriverTried(t) # "hid"]]
    /\ UNCHANGED <<device, opened, h, setter, cancelEx, calls, request>>

\* An attempt ends with r: an interface of the last two passes that says
\* anything but "not supported" has the last word; else the next one follows
Attempted(x, r) ==
    LET a == Attempt(x.tries)
    IN  IF x.tries # {a} /\ (r = "not supported" \/ a.pass = 0)
          THEN [x EXCEPT !.st = "find", !.tries = @ \ {a}, !.iface = Unknown, !.handle = "none"]
        ELSE Refuses(x, r)

\* auto_claim: the interfaces of the driver are claimed in turn until one can
\* be, under autoclaim_lock from the first to the last
HasAutoLock(t) == xfer[t].st = "claim" /\ xfer[t].iface # Unknown
AutoLockFree(t) == \A u \in Transfers \ {t} : ~HasAutoLock(u)
Counted(s, i) == [s EXCEPT !.autos[i] = @ + 1]
AutoClaim(t) ==
    /\ xfer[t].st = "claim" /\ AutoLockFree(t)
    /\ LET i == FirstOf({j \in Ifaces : Driver(j) = DriverTried(t) /\ xfer[t].iface < j})
       IN  IF i = Unknown
             THEN /\ xfer' = [xfer EXCEPT ![t] = Attempted(xfer[t], "not found")]
                  /\ UNCHANGED h
           ELSE \E e \in ClaimInterface(h, i, "auto") :
                  /\ h' = IF e.ret = "ok" THEN Counted(e.h, i) ELSE e.h
                  /\ xfer' = [xfer EXCEPT ![t] = [xfer[t] EXCEPT
                                !.iface = i, !.st = IF e.ret = "ok" THEN "drive" ELSE "claim"]]
    /\ UNCHANGED <<device, opened, setter, cancelEx, calls, request>>

\* The driver handle of the interface is read, without a lock: it may be gone
\* since the interface was looked up, and be freed before it is used
TakeHandle(t) ==
    /\ xfer[t].st = "drive"
    /\ xfer' = [xfer EXCEPT ![t].st = "call", ![t].handle = h.api[xfer[t].iface]]
    /\ UNCHANGED <<device, opened, h, setter, cancelEx, calls, request>>

\* The driver's answers: it takes the transfer, has done it at once, or
\* refuses.  (Of a freed handle nothing is known: any of them.)
Answers(r, st, buf) == [ret |-> r, st |-> st, buf |-> buf]
\* winusbx_submit_control_transfer
WinusbControl(handle, req) ==
    CASE req = "set other" -> {Answers("invalid", "idle", FALSE)}
      [] req # "set same" /\ handle # "valid" -> {Answers("io", "idle", FALSE)}
      [] req = "set same" -> {Answers("ok", "ended", FALSE)}
      [] OTHER -> {Answers("ok", "flying", FALSE), Answers("ok", "ended", FALSE),
                   Answers("io", "idle", FALSE)}
\* hid_submit_control_transfer: descriptors and configurations are answered by
\* the backend itself, reports by the driver (their buffer is freed unless it
\* is still in use)
HidControl(req) ==
    CASE req \in {"vendor", "set other"} -> {Answers("not supported", "idle", FALSE)}
      [] req = "set same" -> {Answers("ok", "ended", FALSE)}
      [] req = "describe" -> {Answers("ok", "ended", FALSE), Answers("invalid", "idle", FALSE)}
      [] OTHER -> {Answers("ok", "flying", TRUE), Answers("ok", "ended", FALSE),
                   Answers("io", "idle", FALSE), Answers("overflow", "idle", FALSE)}
\* The interface number is noted when all has gone well; an interface that was
\* claimed for the transfer stays claimed when it has not
Drive(t) ==
    /\ xfer[t].st = "call" /\ xfer[t].kind = "control"
    /\ \E a \in IF Driver(xfer[t].iface) = "hid" THEN HidControl(xfer[t].req)
                ELSE WinusbControl(xfer[t].handle, xfer[t].req) :
        /\ xfer' = [xfer EXCEPT ![t] = IF a.ret = "ok"
                      THEN [Idle(xfer[t]) EXCEPT !.kind = "control", !.st = a.st,
                                                 !.num = xfer[t].iface, !.buf = @ \/ a.buf]
                    ELSE Attempted(xfer[t], a.ret)]
        /\ h' = IF a.ret = "ok" THEN h ELSE [h EXCEPT !.failed = @ \cup {xfer[t].iface}]
    /\ UNCHANGED <<device, opened, setter, cancelEx, calls, request>>

\* A bulk or isochronous transfer: the interface that has the endpoint (a
\* composite device finds the driver in the same way first).  The HID backend
\* drops the buffer that an overflow has left
SubmitPipe(t) ==
    /\ Call /\ xfer[t].st = "idle"
    /\ \E ep \in AllEndpoints, kind \in {"bulk", "iso"} :
        LET i == InterfaceByEndpoint(h, ep)
            drops == kind = "bulk" /\ IF i # Unknown THEN Driver(i) = "hid"
                                      ELSE ~device.composite /\ Driver(0) = "hid"
            x == [Began(xfer[t], kind) EXCEPT !.buf = @ /\ ~drops]
        IN  /\ xfer' = [xfer EXCEPT ![t] =
                          IF i = Unknown THEN Refuses(x, "not found")
                          ELSE [x EXCEPT !.st = "drive", !.iface = i, !.ep = ep]]
            /\ h' = IF i = Unknown THEN h ELSE [h EXCEPT !.found[i] = @ \cup {t}]
    /\ UNCHANGED <<device, opened, setter, cancelEx, request>>

\* winusbx_submit_bulk_transfer, winusbx_submit_iso_transfer (only with the
\* libusbK driver) and hid_submit_bulk_transfer (a read keeps its buffer until
\* its data is copied, a write only while the driver uses it)
WinusbPipe(handle, kind, buf) ==
    IF kind = "iso" /\ ~device.iso THEN {Answers("not supported", "idle", buf)}
    ELSE {Answers("io", "idle", buf)}
           \cup (IF handle # "valid" THEN {}
                 ELSE {Answers("ok", "flying", buf), Answers("ok", "ended", buf)})
HidPipe(kind, ep, buf) ==
    IF kind = "iso" THEN {Answers("not supported", "idle", buf)}
    ELSE {Answers("ok", "flying", TRUE), Answers("io", "idle", FALSE)}
           \cup (IF ep >= 128 THEN {Answers("ok", "ended", TRUE), Answers("overflow", "idle", TRUE)}
                 ELSE {Answers("ok", "ended", FALSE)})
DrivePipe(t) ==
    /\ xfer[t].st = "call" /\ xfer[t].kind \in {"bulk", "iso"}
    /\ LET x == xfer[t]
       IN  /\ \E a \in IF Driver(x.iface) = "hid" THEN HidPipe(x.kind, x.ep, x.buf)
                      ELSE WinusbPipe(x.handle, x.kind, x.buf) :
                xfer' = [xfer EXCEPT ![t] =
                  IF a.ret = "ok" THEN [Idle(x) EXCEPT !.kind = x.kind, !.ep = x.ep, !.st = a.st,
                                                       !.num = x.iface, !.buf = a.buf]
                  ELSE [Refuses(x, a.ret) EXCEPT !.buf = a.buf]]
           /\ h' = [h EXCEPT !.found[x.iface] = @ \ {t}]
    /\ UNCHANGED <<device, opened, setter, cancelEx, calls, request>>

-----------------------------------------------------------------------------
(* Cancelling, ending, resetting                                           *)

Finish(ts) == [u \in Transfers |-> IF u \in ts /\ xfer[u].st = "flying"
                                     THEN [xfer[u] EXCEPT !.st = "ended"] ELSE xfer[u]]
OnPipe(ep) == {u \in Transfers : xfer[u].ep = ep}

\* winusbx_abort_transfers: does CancelIoEx say that it is not supported (as it
\* also does without a valid file handle)
GivesUp(t) == h.file[xfer[t].num] # "open" \/ ~device.cancels
\* A control transfer of a WinUSB-like driver is not cancelled at all; with
\* HID it is CancelIoEx or nothing
Cancel(t) ==
    /\ Call /\ InFlight(t)
    /\ IF Driver(xfer[t].num) = "hid" THEN xfer' = Finish({t}) /\ UNCHANGED cancelEx
       ELSE IF xfer[t].kind = "control" THEN UNCHANGED <<xfer, cancelEx>>
       ELSE IF cancelEx /\ ~GivesUp(t) THEN xfer' = Finish({t}) /\ UNCHANGED cancelEx
       ELSE /\ cancelEx' = FALSE
            /\ xfer' = IF h.api[xfer[t].num] = "valid" THEN Finish(OnPipe(xfer[t].ep)) ELSE xfer
    /\ UNCHANGED <<device, opened, h, setter, request>>

\* the driver is done with a transfer (external)
DriverEnds(t) ==
    /\ xfer[t].st = "flying" /\ xfer' = Finish({t})
    /\ UNCHANGED <<device, opened, h, setter, cancelEx, calls, request>>

\* Mutant: the count is not looked at
AutoRelease_Uncounted(s, i) == ReleaseInterface([s EXCEPT !.autos[i] = 0], i).h
\* auto_release
AutoRelease(s, i) ==
    IF s.autos[i] = 0 THEN s
    ELSE LET counted == [s EXCEPT !.autos[i] = @ - 1]
         IN  IF counted.autos[i] = 0 THEN ReleaseInterface(counted, i).h ELSE counted
\* The event thread: the descriptor leaves the poll set, the data is copied,
\* and winusb_clear_transfer_priv frees the buffers and releases what was
\* claimed for the transfer, under autoclaim_lock
Handle(t) ==
    /\ xfer[t].st = "ended" /\ AutoLockFree(t)
    /\ xfer' = [xfer EXCEPT ![t] = [Idle(xfer[t]) EXCEPT !.fds = @ - 1, !.buf = FALSE]]
    /\ h' = AutoRelease(h, xfer[t].num)
    /\ UNCHANGED <<device, opened, setter, cancelEx, calls, request>>

\* winusbx_reset_device: every pipe that is known is aborted, flushed and reset;
\* hid_reset_device flushes the input queues
Reset ==
    /\ Call
    /\ xfer' = Finish({t \in Transfers :
                  \E i \in Ifaces : /\ h.api[i] = "valid" /\ Driver(i) = "winusb"
                                    /\ xfer[t].ep \in h.eps[i]})
    /\ UNCHANGED <<device, opened, h, setter, cancelEx, request>>
\* winusbx_clear_halt and hid_clear_halt, which flushes what has been received
ClearHalt ==
    /\ Call /\ \E ep \in AllEndpoints : InterfaceByEndpoint(h, ep) # Unknown
    /\ UNCHANGED <<device, opened, h, xfer, setter, cancelEx, request>>

\* A request to the HID backend by itself
AnswerRequest ==
    /\ ~opened /\ calls = 0 /\ HidNext
    /\ UNCHANGED <<device, opened, h, xfer, setter, cancelEx, calls>>

HandleNext ==
    \/ Open \/ OpenFails \/ Close \/ Claim \/ Release \/ Reset \/ ClearHalt
    \/ SetAlternate \/ AlternateForget \/ AlternateDrive \/ AlternateAssign
    \/ \E t \in Transfers : \/ SubmitControl(t) \/ Find(t) \/ AutoClaim(t)
                             \/ SubmitPipe(t) \/ TakeHandle(t) \/ Drive(t) \/ DrivePipe(t)
                             \/ Cancel(t) \/ DriverEnds(t) \/ Handle(t)
    \/ AnswerRequest
HandleSpec == HandleInit /\ [][HandleNext]_handleVars

-----------------------------------------------------------------------------
HandleTypeOK ==
    /\ h.claimed \cup h.mixed \cup h.failed \cup h.refused \cup h.crossed \subseteq Ifaces
    /\ \A i \in Ifaces : h.alt[i] \in DOMAIN device.eps[i] /\ h.found[i] \subseteq Transfers
    /\ h.file \in [Ifaces -> {"none", "open", "flag"}] /\ h.api \in [Ifaces -> {"none", "valid"}]
    /\ h.eps \in [Ifaces -> SUBSET AllEndpoints] /\ h.by \in [Ifaces -> {"nobody", "app", "auto"}]
    /\ {h.autos[i] : i \in Ifaces} \cup {h.files[i] : i \in Ifaces}
         \cup {h.apis[i] : i \in Ifaces} \cup {h.lost[i] : i \in Ifaces} \subseteq Nat
    /\ \A t \in Transfers :
         /\ xfer[t].st \in {"idle", "find", "claim", "drive", "call", "flying", "ended"}
         /\ xfer[t].num \in Ifaces /\ xfer[t].fds \in Nat
    /\ setter.st \in {"none", "forget", "drive", "assign"} /\ calls \in 0 .. MaxCalls

\* An interface that counts as claimed can be used: its driver handle is there,
\* or, for HID, its mark, whatever claims and releases failed or crossed.
ClaimedUsable ==
    \A i \in h.claimed : h.api[i] = "valid" /\ (Driver(i) = "hid" => h.file[i] = "flag")

\* Unless its alternate setting is being changed, a claimed interface is found
\* by the endpoints of the setting that its driver has, or by none when the
\* last change of the setting failed.  (The change holds no lock,
\* windows_winusb.c:1660-1676: an interface that was released and claimed anew
\* in the middle of one, which gives it back its first setting, may have the
\* endpoints of another.)
EndpointsOfSetting ==
    \A i \in h.claimed \ h.crossed : ~ChangesSetting(i) =>
        \/ h.eps[i] = device.eps[i][h.alt[i]]
        \/ i \in h.refused /\ h.eps[i] = {}

\* The descriptors polled for a transfer are one while it is on its way and
\* none otherwise, but for those that an overflow reported at once leaves.
PolledInFlight ==
    \A t \in Transfers :
        xfer[t].fds = xfer[t].over + (IF xfer[t].st = "idle" THEN 0 ELSE 1)

\* While the HID driver works on a transfer its buffer is there, and one that
\* is handed back has left none (but for an overflow reported at once).
HidBufferHeld ==
    \A t \in Transfers :
        /\ xfer[t].st = "flying" /\ Driver(xfer[t].num) = "hid" => xfer[t].buf
        /\ xfer[t].st = "idle" /\ xfer[t].buf => xfer[t].over > 0

\* An interface is counted as claimed for transfers only while one is on its
\* way there, or after a submission to it failed half-way, which leaves it so.
AutoClaimAccounted ==
    \A i \in Ifaces : h.autos[i] > 0 =>
        i \in h.failed \/ \E t \in Transfers :
                            \/ /\ xfer[t].st \in {"drive", "call"} /\ xfer[t].kind = "control"
                               /\ xfer[t].iface = i
                            \/ InFlight(t) /\ xfer[t].num = i

\* Every driver or file handle that Windows has open belongs to an interface of
\* the open handle, or is lost: an open that failed half-way, a claim whose
\* endpoints could not be read, or interface 0 of a device with one driver,
\* which is initialised for another interface and then claimed itself.
HandlesAccounted ==
    \A i \in Ifaces :
        /\ h.files[i] + h.apis[i] = h.lost[i] + (IF h.file[i] = "open" THEN 1 ELSE 0)
                                              + (IF h.api[i] = "valid" THEN 1 ELSE 0)
        /\ h.lost[i] > 0 => i \in h.failed \/ ~opened \/ (~device.composite /\ i = 0)

\* CancelIoEx is given up for good only if the driver does not support it.
\* (Composite devices only: of a device with one driver only interface 0 has
\* the file handle that the cancellation takes, so that the first cancellation
\* on any other interface ends it.)
CancelKept == device.composite /\ device.cancels => cancelEx

\* The end of a transfer releases no interface that the application has claimed,
\* unless the count of the claims for transfers was above 0 at that time (of a
\* transfer still under way, or left by a submission that failed after its
\* claim, windows_winusb.c:2400 and 2421), or a transfer claimed it as well.
OnlyAutoReleased ==
    [][\A i \in h.claimed \ h'.claimed :
         (\E t \in Transfers : Handle(t)) => h.by[i] = "auto" \/ i \in h.mixed]_handleVars

\* A bulk or isochronous transfer is only accepted on an interface that is
\* claimed, or was when the transfer looked it up (nothing keeps it claimed
\* until the driver is called); HID interfaces, which stay open when they are
\* released, and interface 0, through which the others are opened, are the
\* exceptions.
PipesOnClaimed ==
    [][\A t \in Transfers, i \in Ifaces :
         DrivePipe(t) /\ xfer'[t].st # "idle" /\ xfer[t].iface = i =>
           \/ i \in h.claimed \/ i \in h.failed \/ Driver(i) = "hid"
           \/ i = 0 /\ ~device.composite
           \/ t \notin h.found[i]]_handleVars

\* What the handle knows of its interfaces and transfers is what Windows and
\* the drivers have, whatever steps of the threads cross and whatever fails.
HandleSound == /\ HandleTypeOK /\ ClaimedUsable /\ EndpointsOfSetting /\ PolledInFlight
               /\ HidBufferHeld /\ AutoClaimAccounted /\ HandlesAccounted /\ CancelKept

\* Transfers neither take an interface from the application nor use one that
\* nobody has claimed (auto_release, winusbx_submit_bulk_transfer).
ClaimsRespected == OnlyAutoReleased /\ PipesOnClaimed

=============================================================================
