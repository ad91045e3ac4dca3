---------------------------- MODULE LibusbDevices ----------------------------
(***************************************************************************)
(* libusb's devices (core.c) and how the Windows backend enumerates them   *)
(* (windows_winusb.c): the list of known devices of a context, reference   *)
(* counts, libusb_get_device_list with its passes over hubs, devices, host *)
(* controllers and interfaces, open handles, and the destruction of a      *)
(* device whose count falls to 0.  Several threads of the program call in; *)
(* cameras and hubs are plugged and unplugged meanwhile.  A step takes one *)
(* lock of the code.  Allocation failures are left out.  (The WinUSB       *)
(* backend is compiled and initialised; libusbi.h:215 selects UsbDk, see   *)
(* UsbdkBackend, for which core.c does the same.)                          *)
(***************************************************************************)
EXTENDS Naturals, Sequences, FiniteSets, SequencesExt

CONSTANTS Users,     \* threads of the program
          Order,     \* the places of the device tree, as Windows lists them
          Above,     \* the place above each, or Top
          Kind,      \* what may be plugged there: "hub", "device", "interface"
          Names,     \* Names[n]: the instance ids that may turn up at place n
          Top,       \* the host controller
          None,      \* nothing is plugged
          MaxDevs,   \* bound on devices ever allocated
          Asked,     \* the instance ids libusb_open_device_with_vid_pid is called for
          MaxPlugs,  \* bound on changes of what is plugged
          MaxScans,  \* bound on scans
          MaxBoth    \* bound on scans when two threads are busy

Places == ToSet(Order)
Devs == 1 .. MaxDevs

ASSUME PlacesAssumption ==
    /\ Above \in [Places -> Places \cup {Top}] /\ Top \notin Places
    /\ Kind \in [Places -> {"hub", "device", "interface"}]
    /\ IsFiniteSet(Users) /\ MaxDevs \in Nat /\ MaxPlugs \in Nat /\ MaxScans \in Nat /\ MaxBoth \in Nat

VARIABLES
  plugged,  \* the instance id at each place
  plugs,    \* changes so far
  scans,    \* scans so far
  devs,     \* struct libusb_device: a function of the devices ever allocated
  scan,     \* for each thread, its winusb_get_device_list
  work,     \* for each thread, the releases it still has to make, in order
  lists,    \* for each thread, the list libusb_get_device_list gave it
  handles,  \* for each thread, the devices it has open
  changed,  \* history: "world" if something was plugged or unplugged since its last
            \* scan began, "scan" once two threads have scanned at the same time
  lost,     \* history: references nobody will release, for each device
  fault     \* what stopped the program, or "none"

deviceVars == <<plugged, plugs, scans, devs, scan, work, lists, handles, changed, lost, fault>>

Unused == [life |-> "unused"]
NoScan == [pass |-> "none"]
\* the pass after each
After == [hub |-> "dev", dev |-> "hcd", hcd |-> "gen", gen |-> "ext", ext |-> "end"]
\* what each pass lists
In(pass, n) == CASE pass = "hub" -> Kind[n] = "hub"
                 [] pass = "dev" -> Kind[n] = "device"
                 [] pass = "hcd" -> Above[n] = Top
                 [] pass = "ext" -> Kind[n] = "interface"
                 [] OTHER -> TRUE
\* the entries of a pass, with their instance ids when the list was made
Entries(pass, at) ==
    [i \in DOMAIN SelectSeq(Order, LAMBDA n : at[n] # None /\ In(pass, n)) |->
        LET n == SelectSeq(Order, LAMBDA m : at[m] # None /\ In(pass, m))[i]
        IN  [place |-> n, id |-> at[n]]]

First(numbers) == CHOOSE i \in numbers : \A j \in numbers : i <= j

Live(d) == devs[d].life = "live"
Allocated == {d \in Devs : Live(d)}
Listed == {d \in Allocated : devs[d].listed}

-----------------------------------------------------------------------------
(* Finding, referencing and releasing a device.                            *)

\* usbi_get_device_by_session_id: the newest in the list for that place, or 0
\* (list_add puts a device first)
Known(n) ==
    LET of == {d \in Listed : devs[d].place = n}
    IN  IF of = {} THEN 0 ELSE CHOOSE d \in of : \A e \in of : e <= d
\* the places from n up to the controller, level by level
Climb(n) ==
    LET up[i \in 0 .. Len(Order)] ==
          IF i = 0 THEN n ELSE IF up[i - 1] = Top THEN Top ELSE Above[up[i - 1]]
    IN  up
\* get_ancestor: the levels above a place that have a known device, the device
\* there, and the first one, or 0
KnownAbove(n) ==
    LET up == Climb(n) IN {i \in 1 .. Len(Order) : up[i] # Top /\ Known(up[i]) # 0}
KnownAt(n, i) == Known(Climb(n)[i])
Ancestor(n) ==
    LET known == KnownAbove(n) IN IF known = {} THEN 0 ELSE KnownAt(n, First(known))

\* libusb_ref_device: 0 stands for no device
Ref(all, d) == IF d = 0 THEN all ELSE [all EXCEPT ![d].refs = @ + 1]
\* a device that another thread is destroying is found too: it will be freed
FoundAtZero(found) ==
    fault' = IF \E d \in found \ {0} : devs[d].refs = 0 THEN "found while destroyed" ELSE fault

\* usbi_alloc_device and usbi_connect_device
New(n, id) ==
    [life |-> "live", place |-> n, id |-> id, refs |-> 1, listed |-> TRUE, attached |-> TRUE,
     parent |-> 0, bus |-> 0, depth |-> 0, api |-> "unset", ready |-> FALSE, ifaces |-> {}]
Fresh == CHOOSE d \in Devs : devs[d] = Unused /\ \A e \in Devs : devs[e] = Unused => d <= e
HasFresh == \E d \in Devs : devs[d] = Unused

Unrefs(seq) == [i \in DOMAIN seq |-> <<"unref", seq[i]>>]

\* libusb_unref_device: at 0 the parent is released, the device destroyed, and
\* only then taken out of the list and freed
\* Mutant: the parent is not released
Destroy_KeepsParent(d) == <<<<"free", d>>>>
Destroy(d) ==
    IF devs[d].parent = 0 THEN <<<<"free", d>>>>
    ELSE <<<<"unref", devs[d].parent>>, <<"free", d>>>>

Rest(t) == Tail(work[t])
Running(t) == fault = "none" /\ work[t] = <<>>

Unref(t) ==
    /\ fault = "none" /\ work[t] # <<>> /\ Head(work[t])[1] = "unref"
    /\ LET d == Head(work[t])[2] IN
       IF ~Live(d)
         THEN fault' = "freed device" /\ UNCHANGED <<devs, work>>
         ELSE /\ UNCHANGED fault
              /\ devs' = [devs EXCEPT ![d].refs = @ - 1]
              /\ work' = [work EXCEPT ![t] = IF devs[d].refs = 1 THEN Destroy(d) \o Rest(t)
                                             ELSE Rest(t)]
    /\ UNCHANGED <<plugged, plugs, scans, scan, lists, handles, changed, lost>>

\* usbi_disconnect_device and free: list_del follows the pointers that an
\* earlier list_del has cleared
Free(t) ==
    /\ fault = "none" /\ work[t] # <<>> /\ Head(work[t])[1] = "free"
    /\ LET d == Head(work[t])[2] IN
       IF ~Live(d)
         THEN fault' = "freed device" /\ UNCHANGED <<devs, work>>
       ELSE IF ~devs[d].listed
         THEN fault' = "removed twice" /\ UNCHANGED <<devs, work>>
         ELSE /\ UNCHANGED fault
              /\ devs' = [devs EXCEPT ![d] = [life |-> "gone"]]
              /\ work' = [work EXCEPT ![t] = Rest(t)]
    /\ UNCHANGED <<plugged, plugs, scans, scan, lists, handles, changed, lost>>

-----------------------------------------------------------------------------
(* winusb_get_device_list.                                                 *)

\* the threads that scan, or have a list, a device open or releases to make
Busy == {t \in Users : scan[t] # NoScan \/ work[t] # <<>> \/ lists[t] # <<>> \/ handles[t] # <<>>}

\* libusb_get_device_list, or libusb_open_device_with_vid_pid for an id
GetDeviceList(t, want) ==
    /\ Running(t) /\ scan[t] = NoScan /\ lists[t] = <<>>
    /\ want # None => handles[t] = <<>>
    /\ scans < MaxScans /\ scans' = scans + 1
    /\ Busy \subseteq {t} \/ (scans < MaxBoth /\ plugs = 0)
    /\ scan' = [scan EXCEPT ![t] = [pass |-> "hub", want |-> want, seen |-> plugged,
                                    todo |-> Entries("hub", plugged), parent |-> 0, dev |-> -1,
                                    unref |-> <<>>, found |-> <<>>, ret |-> "ok"]]
    /\ changed' = IF \E u \in Users \ {t} : scan[u] # NoScan
                    THEN [u \in Users |-> changed[u] \cup {"scan"}]
                  ELSE [changed EXCEPT ![t] = @ \ {"world"}]
    /\ UNCHANGED <<plugged, plugs, devs, work, lists, handles, lost, fault>>

Scanning(t) == Running(t) /\ scan[t] # NoScan
Entry(t) == Head(scan[t].todo)
Skip(s) == [s EXCEPT !.todo = Tail(@), !.parent = 0, !.dev = -1]

\* The next pass, when this one has no entry left: the devices of "gen" are
\* listed anew, the others when the scan began.  An error ends the scan.
NextPass(t) ==
    /\ Scanning(t) /\ scan[t].pass # "end" /\ (scan[t].todo = <<>> \/ scan[t].ret # "ok")
    /\ LET next == IF scan[t].ret # "ok" THEN "end" ELSE After[scan[t].pass] IN
        scan' = [scan EXCEPT ![t].pass = next,
                                ![t].todo = IF next = "gen" THEN Entries("gen", plugged)
                                            ELSE IF next = "end" THEN <<>>
                                            ELSE Entries(next, scan[t].seen)]
    /\ UNCHANGED <<plugged, plugs, scans, devs, work, lists, handles, changed, lost, fault>>

\* The lookups for an entry: its parent in "gen" and "ext", itself in "hub",
\* "dev" and "gen".  Entries below a composite device are left to "ext", those
\* below nothing known are ignored, a root hub apart.
LookUp(t) ==
    /\ Scanning(t) /\ scan[t].ret = "ok" /\ scan[t].todo # <<>> /\ scan[t].dev = -1
    /\ scan[t].pass \in {"hub", "dev", "gen", "ext"}
    /\ LET n == Entry(t).place
           p == IF scan[t].pass \in {"gen", "ext"} THEN Ancestor(n) ELSE 0
           d == IF scan[t].pass = "ext" THEN 0 ELSE Known(n)
           leftOut == scan[t].pass = "gen" /\ p # 0 /\ devs[p].api # "hub"
           unlisted == p = 0 /\ \/ scan[t].pass = "ext"
                                \/ scan[t].pass = "gen" /\ (d = 0 \/ Above[n] # Top)
                                \/ scan[t].pass = "gen" /\ d # 0 /\ devs[d].bus = 0
       IN  IF leftOut THEN /\ devs' = Ref(devs, p) /\ FoundAtZero({p})
                           /\ work' = [work EXCEPT ![t] = <<<<"unref", p>>>>]
                           /\ scan' = [scan EXCEPT ![t] = Skip(@)]
           ELSE IF unlisted THEN /\ devs' = Ref(devs, d) /\ FoundAtZero({d})
                                 /\ work' = [work EXCEPT ![t] =
                                      IF d = 0 THEN <<>> ELSE <<<<"unref", d>>>>]
                                 /\ scan' = [scan EXCEPT ![t] = Skip(@)]
           ELSE /\ devs' = Ref(Ref(devs, p), d) /\ FoundAtZero({p, d})
                /\ scan' = [scan EXCEPT ![t].parent = p, ![t].dev = d]
                /\ UNCHANGED work
    /\ UNCHANGED <<plugged, plugs, scans, lists, handles, changed, lost>>

\* enumerate_hcd_root_hub: a bus number for the hub below a host controller;
\* without a known device the scan fails
RootHub(t) ==
    /\ Scanning(t) /\ scan[t].ret = "ok" /\ scan[t].todo # <<>> /\ scan[t].pass = "hcd"
    /\ LET d == Known(Entry(t).place) IN
       IF d = 0
         THEN /\ scan' = [scan EXCEPT ![t] = [Skip(@) EXCEPT !.ret = "no device"]]
              /\ UNCHANGED <<devs, work, fault>>
         ELSE /\ devs' = [Ref(devs, d) EXCEPT ![d].bus = 1]
              /\ FoundAtZero({d}) /\ work' = [work EXCEPT ![t] = <<<<"unref", d>>>>]
              /\ scan' = [scan EXCEPT ![t] = Skip(@)]
    /\ UNCHANGED <<plugged, plugs, scans, lists, handles, changed, lost>>

\* The known devices above a place that have a bus number, and how far a device
\* is below the first of them: the parent's depth and 1, or the known devices
\* on the way
BusAbove(n) == {i \in KnownAbove(n) : devs[KnownAt(n, i)].bus # 0}
WayUp(n) == {i \in KnownAbove(n) : i <= First(BusAbove(n))}
DepthBelow(n, p) ==
    IF devs[p].bus # 0 THEN devs[p].depth + 1
    ELSE Cardinality(WayUp(n)) + devs[KnownAt(n, First(BusAbove(n)))].depth

\* init_device for an entry of "gen" and the device dev: what it returns, the
\* device then, the devices that get_ancestor came upon, and those of which
\* nobody keeps the reference afterwards.  The parent's passes to the device,
\* unless that was set up before; the first known ancestor has to be the parent
\* still, and one above it to have a bus number.
Connected(e) == plugged[e.place] = e.id
Inits(ret, dev, met, left) == [ret |-> ret, dev |-> dev, met |-> met, left |-> left]
Init1(dev, p, e) ==
    LET n == e.place
        walks == devs[p].bus = 0
        placed == [dev EXCEPT !.bus = 1, !.parent = p, !.depth = DepthBelow(n, p)]
        met == IF walks THEN {KnownAt(n, i) : i \in WayUp(n)} ELSE {}
    IN  IF dev.ready THEN Inits("ok", dev, {}, {p})
        ELSE IF p = 0 THEN Inits("ok", [dev EXCEPT !.ready = TRUE], {}, {})
        ELSE IF walks /\ Ancestor(n) # p
          THEN Inits("not found", dev, {Ancestor(n)}, {p, Ancestor(n)})
        ELSE IF walks /\ BusAbove(n) = {} THEN Inits("null ancestor", dev, {}, {})
        ELSE IF plugged[devs[p].place] = None THEN Inits("access", placed, met, {dev.parent})
        ELSE IF ~Connected(e) THEN Inits("no device", placed, met, {dev.parent})
        ELSE Inits("ok", [placed EXCEPT !.ready = TRUE], met, {dev.parent})

\* An entry of "hub", "dev" or "gen" with what was found: a device of another
\* instance id is disconnected and released and a new one allocated; the id of
\* a root hub is not looked at in "gen".
\* Mutant: a device of another instance id is taken for the one that is there
Differs_Never(d, e) == FALSE
Differs(d, e) == devs[d].id # e.id

Replaced(s) == /\ s.dev # 0 /\ Live(s.dev) /\ Differs(s.dev, Head(s.todo))
               /\ s.pass = "gen" => s.parent # 0
Target(s) == IF s.dev = 0 \/ Replaced(s) THEN Fresh ELSE s.dev
\* the devices with the new one, and the one it replaces out of the list
Entered(s) ==
    [d \in Devs |->
       IF d = Target(s) /\ d # s.dev THEN New(Head(s.todo).place, Head(s.todo).id)
       ELSE IF d = s.dev /\ Replaced(s)
         THEN [devs[d] EXCEPT !.listed = FALSE, !.attached = FALSE]
       ELSE devs[d]]

\* the path and the interface functions, unless they are set ("hub", "dev")
SetPath(t, d) ==
    /\ devs' = [Entered(scan[t]) EXCEPT ![d].api = IF @ = "unset" THEN Kind[Entry(t).place]
                                                   ELSE @]
    /\ scan' = [scan EXCEPT ![t] = [Skip(scan[t]) EXCEPT !.unref = Append(@, d)]]
    /\ UNCHANGED <<lost, fault>>
\* init_device, and the device in the list of those discovered ("gen")
InitDevice(t, d) ==
    LET r == Init1(Entered(scan[t])[d], scan[t].parent, Entry(t))
    IN  IF r.ret = "null ancestor"
          THEN fault' = "null ancestor" /\ UNCHANGED <<devs, scan, lost>>
        ELSE /\ FoundAtZero(r.met)
             /\ devs' = Ref([Entered(scan[t]) EXCEPT ![d] = r.dev],
                            IF r.ret = "ok" THEN d
                            ELSE IF r.ret = "not found" THEN Ancestor(Entry(t).place) ELSE 0)
             /\ lost' = [c \in Devs |-> IF c \in r.left THEN lost[c] + 1 ELSE lost[c]]
             /\ scan' = [scan EXCEPT ![t] = [Skip(scan[t]) EXCEPT
                   !.unref = Append(@, d),
                   !.found = IF r.ret = "ok" THEN Append(@, d) ELSE @,
                   !.ret = IF r.ret \in {"access", "not found"} THEN r.ret ELSE @]]

Setup(t) ==
    /\ Scanning(t) /\ scan[t].pass \in {"hub", "dev", "gen"} /\ scan[t].dev # -1
    /\ LET s == scan[t] IN
       IF (s.dev # 0 /\ ~Live(s.dev)) \/ (s.parent # 0 /\ ~Live(s.parent))
         THEN fault' = "freed device" /\ UNCHANGED <<devs, scan, work, lost>>
       ELSE IF Replaced(s) /\ ~devs[s.dev].listed
         THEN fault' = "removed twice" /\ UNCHANGED <<devs, scan, work, lost>>
       ELSE /\ s.dev = 0 \/ Replaced(s) => HasFresh
            /\ work' = [work EXCEPT ![t] = IF Replaced(s) THEN <<<<"unref", s.dev>>>> ELSE <<>>]
            /\ IF s.pass = "gen" THEN InitDevice(t, Target(s)) ELSE SetPath(t, Target(s))
    /\ UNCHANGED <<plugged, plugs, scans, lists, handles, changed>>

\* set_composite_interface: the path of one interface of a composite device
SetInterface(t) ==
    /\ Scanning(t) /\ scan[t].pass = "ext" /\ scan[t].dev # -1
    /\ LET p == scan[t].parent IN
       IF ~Live(p)
         THEN fault' = "freed device" /\ UNCHANGED <<devs, scan, work>>
         ELSE /\ devs' = IF devs[p].api = "device"
                           THEN [devs EXCEPT ![p].ifaces = @ \cup {Entry(t).place}] ELSE devs
              /\ work' = [work EXCEPT ![t] = <<<<"unref", p>>>>]
              /\ scan' = [scan EXCEPT ![t] = Skip(@)]
              /\ UNCHANGED fault
    /\ UNCHANGED <<plugged, plugs, scans, lists, handles, changed, lost>>

\* The end of the scan: what it took is released; then what it found becomes
\* the list (which takes over the references), or is released too.
Untrack(t) ==
    /\ Scanning(t) /\ scan[t].pass = "end" /\ scan[t].unref # <<>>
    /\ work' = [work EXCEPT ![t] = Unrefs(scan[t].unref)]
    /\ scan' = [scan EXCEPT ![t].unref = <<>>]
    /\ UNCHANGED <<plugged, plugs, scans, devs, lists, handles, changed, lost, fault>>

\* libusb_open: a reference for the handle, unless the device is detached or
\* the backend cannot open it
OpenOf(t, d) ==
    \/ /\ devs[d].attached
       /\ devs' = Ref(devs, d) /\ handles' = [handles EXCEPT ![t] = Append(@, d)]
    \/ UNCHANGED <<devs, handles>>

Deliver(t) ==
    /\ Scanning(t) /\ scan[t].pass = "end" /\ scan[t].unref = <<>>
    /\ scan' = [scan EXCEPT ![t] = NoScan]
    /\ LET s == scan[t]
           fits == {i \in DOMAIN s.found : devs[s.found[i]].id = s.want}
       IN  IF s.ret # "ok" \/ s.want # None
             THEN /\ work' = [work EXCEPT ![t] = Unrefs(s.found)]
                  /\ UNCHANGED lists
                  /\ IF s.ret = "ok" /\ fits # {} THEN OpenOf(t, s.found[First(fits)])
                     ELSE UNCHANGED <<devs, handles>>
             ELSE /\ lists' = [lists EXCEPT ![t] = s.found]
                  /\ UNCHANGED <<devs, work, handles>>
    /\ UNCHANGED <<plugged, plugs, scans, changed, lost, fault>>

-----------------------------------------------------------------------------
(* The program and the user.                                               *)

Open(t, d) ==
    /\ Running(t) /\ d \in ToSet(lists[t]) /\ handles[t] = <<>>
    /\ devs[d].attached
    /\ devs' = Ref(devs, d) /\ handles' = [handles EXCEPT ![t] = Append(@, d)]
    /\ UNCHANGED <<plugged, plugs, scans, scan, work, lists, changed, lost, fault>>

\* libusb_close
Close(t) ==
    /\ Running(t) /\ handles[t] # <<>> /\ scan[t] = NoScan
    /\ handles' = [handles EXCEPT ![t] = Tail(@)]
    /\ work' = [work EXCEPT ![t] = <<<<"unref", Head(handles[t])>>>>]
    /\ UNCHANGED <<plugged, plugs, scans, devs, scan, lists, changed, lost, fault>>

\* libusb_free_device_list, the devices released with it
FreeDeviceList(t) ==
    /\ Running(t) /\ scan[t] = NoScan /\ lists[t] # <<>>
    /\ lists' = [lists EXCEPT ![t] = <<>>]
    /\ work' = [work EXCEPT ![t] = Unrefs(lists[t])]
    /\ UNCHANGED <<plugged, plugs, scans, devs, scan, handles, changed, lost, fault>>

Below(n) == {m \in Places : \E i \in 1 .. Len(Order) : Climb(m)[i] = n}
Moved == /\ plugs < MaxPlugs /\ plugs' = plugs + 1 /\ fault = "none" /\ Cardinality(Busy) <= 1
         /\ changed' = [t \in Users |-> changed[t] \cup {"world"}]
         /\ UNCHANGED <<scans, devs, scan, work, lists, handles, lost, fault>>
Unplug(n) ==
    /\ plugged[n] # None /\ Above[n] # Top /\ Kind[n] # "interface"
    /\ plugged' = [m \in Places |-> IF m = n \/ m \in Below(n) THEN None ELSE plugged[m]]
    /\ Moved
\* an interface comes with its device
Plug(n, id) ==
    /\ plugged[n] = None /\ Kind[n] # "interface" /\ plugged[Above[n]] # None
    /\ plugged' = [m \in Places |->
                     IF m = n THEN id
                     ELSE IF Above[m] = n /\ Kind[m] = "interface" THEN CHOOSE i \in Names[m] : TRUE
                     ELSE plugged[m]]
    /\ Moved

DevicesInit ==
    /\ plugged = [n \in Places |-> CHOOSE i \in Names[n] : \A j \in Names[n] : i <= j]
    /\ plugs = 0 /\ scans = 0 /\ devs = [d \in Devs |-> Unused] /\ scan = [t \in Users |-> NoScan]
    /\ work = [t \in Users |-> <<>>] /\ lists = [t \in Users |-> <<>>]
    /\ handles = [t \in Users |-> <<>>] /\ changed = [t \in Users |-> {}]
    /\ lost = [d \in Devs |-> 0] /\ fault = "none"

DevicesNext ==
    \/ \E t \in Users :
         \/ Unref(t) \/ Free(t) \/ NextPass(t) \/ LookUp(t) \/ RootHub(t) \/ Setup(t)
         \/ SetInterface(t) \/ Untrack(t) \/ Deliver(t) \/ Close(t) \/ FreeDeviceList(t)
         \/ \E d \in Allocated : Open(t, d)
         \/ \E want \in {None} \cup Asked : GetDeviceList(t, want)
    \/ \E n \in Places : Unplug(n) \/ \E id \in Names[n] : Plug(n, id)

DevicesSpec == DevicesInit /\ [][DevicesNext]_deviceVars

-----------------------------------------------------------------------------
Count(seq, d) == Cardinality({i \in DOMAIN seq : seq[i] = d})
\* who holds a reference to a device: a thread, by its lists, its handles, the
\* releases it has to make and its scan; the devices below; and nobody
HeldBy(t, d) ==
    Count(lists[t], d) + Count(handles[t], d) + Count(work[t], <<"unref", d>>)
    + IF scan[t] = NoScan THEN 0
      ELSE Count(scan[t].unref, d) + Count(scan[t].found, d)
           + (IF scan[t].parent = d THEN 1 ELSE 0) + (IF scan[t].dev = d THEN 1 ELSE 0)
Children(d) == {c \in Allocated : devs[c].parent = d /\ devs[c].refs > 0}
\* the sum of a function's values
Total(f) == Cardinality(UNION {{x} \X (1 .. f[x]) : x \in DOMAIN f})
Holders(d) == lost[d] + Cardinality(Children(d)) + Total([t \in Users |-> HeldBy(t, d)])

\* Types; at most one handle for each thread.
DevicesTypeOK ==
    /\ \A d \in Devs : devs[d].life \in {"unused", "live", "gone"}
    /\ \A d \in Allocated : devs[d].parent \in 0 .. MaxDevs /\ devs[d].refs >= 0
    /\ \A t \in Users : Len(handles[t]) <= 1 /\ lists[t] \in Seq(Devs)

\* Through scans of several threads, failed scans, opens, closes and releases a
\* count is the number of references there are, and a device that was freed is
\* held by nobody, unless a scan found a device that was being destroyed.
RefsExact ==
    fault = "none" =>
        \A d \in Devs : /\ Live(d) => devs[d].refs = Holders(d)
                        /\ devs[d].life = "gone" => Holders(d) = 0

\* When nothing was plugged or unplugged since the scan began, each device of
\* the list is the instance at a place of its own; when no two scans overlapped
\* so far either, every place in use has one, and a camera has its interfaces.
ListRight ==
    \A t \in Users : fault = "none" /\ lists[t] # <<>> /\ "world" \notin changed[t] =>
        LET used == {n \in Places : plugged[n] # None /\ Kind[n] # "interface"}
        IN  /\ \A i, j \in DOMAIN lists[t] :
                 devs[lists[t][i]].place = devs[lists[t][j]].place => i = j
            /\ \A d \in ToSet(lists[t]) : devs[d].place \in used
                                           /\ devs[d].id = plugged[devs[d].place]
            /\ changed[t] = {} =>
                 /\ {devs[d].place : d \in ToSet(lists[t])} = used
                 /\ \A d \in ToSet(lists[t]) : devs[d].api = "device" =>
                      devs[d].ifaces = {n \in Places :
                                          /\ plugged[n] # None /\ Kind[n] = "interface"
                                          /\ Above[n] = devs[d].place}

\* libusb_get_port_numbers: the places from a device up to its root hub
PortNumbers(d) ==
    LET up[i \in 0 .. Len(Order)] ==
          IF i = 0 THEN <<d>>
          ELSE LET s == up[i - 1] IN
               IF devs[s[1]].parent = 0 THEN s ELSE <<devs[s[1]].parent>> \o s
    IN  up[Len(Order)]

\* When no two scans overlapped and nothing moved since, a listed device lies
\* below the devices of the places above it, all of them still there, at the
\* depth that init_device computed, whatever the order in which hubs and cameras
\* were found.
PathRight ==
    \A t \in Users : fault = "none" /\ changed[t] = {} =>
        \A d \in ToSet(lists[t]) :
            LET path == PortNumbers(d) IN
            /\ \A i \in DOMAIN path : Live(path[i])
            /\ \A i \in DOMAIN path : Above[devs[path[i]].place]
                                         = IF i = 1 THEN Top ELSE devs[path[i - 1]].place
            /\ devs[d].depth = Len(path) - 1

\* When nobody has a list, a handle or a scan, only devices whose references were
\* lost stay, and those above them; unless two scans overlapped these are hubs,
\* and no camera is known any more.
NothingLeft ==
    /\ fault = "none"
    /\ \A t \in Users : scan[t] = NoScan /\ work[t] = <<>> /\ lists[t] = <<>>
                        /\ handles[t] = <<>>
    => \A d \in Allocated : /\ lost[d] > 0 \/ \E c \in Allocated : devs[c].parent = d
                            /\ (\A t \in Users : "scan" \notin changed[t]) =>
                                 devs[d].api = "hub"

\* No thread uses a freed device before a scan finds one that is being
\* destroyed, and one leaves the list twice only when another instance took its
\* place.
FaultsExplained ==
    /\ fault # "freed device"
    /\ fault = "removed twice" =>
         \E d, e \in Devs : /\ Live(d) /\ ~devs[d].listed /\ devs[e].life # "unused" /\ d < e

\* A device lives as long as somebody holds it, and no longer (libusb_ref_device,
\* libusb_unref_device, the parents that init_device refers to).
DevicesHeld == DevicesTypeOK /\ RefsExact /\ NothingLeft /\ FaultsExplained

\* No device is deeper than the tree, and init_device finds a bus number above
\* a device unless two scans overlapped (it then goes on with a null pointer).
DepthRight ==
    /\ \A d \in Allocated : devs[d].depth < Cardinality({n \in Places : Kind[n] # "interface"})
    /\ fault = "null ancestor" => \A t \in Users : "scan" \in changed[t]

\* libusb_get_device_list and libusb_get_port_numbers tell what is plugged where.
ListsRight == ListRight /\ PathRight /\ DepthRight

=============================================================================
