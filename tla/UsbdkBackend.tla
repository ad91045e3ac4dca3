---------------------------- MODULE UsbdkBackend ----------------------------
(***************************************************************************)
(* The backend this build of libusb uses (USE_USBDK, libusbi.h:215): the   *)
(* UsbDk helper, which takes a device away from its Windows driver and     *)
(* passes requests to it (windows_usbdk.c), with what windows_nt_common.c  *)
(* does around it: the initialisation shared by all contexts, the session  *)
(* table, and the end of a transfer.                                       *)
(*                                                                         *)
(* An identity stands for a device at a port: the strings by which Windows *)
(* names it.  Initialisation and shutdown hold a semaphore of the process  *)
(* and are one step each; so is an enumeration (one thread enumerates).    *)
(* What breaks memory ends a behaviour, with "fault" saying how.           *)
(***************************************************************************)
EXTENDS SessionTable, SequencesExt

CONSTANTS Contexts, Handles, Transfers,
          NumConfigs,       \* NumConfigs[s]: configurations of the device s
          Plugged,          \* the devices that are there at first
          Endings,          \* results with which the driver ends a transfer by itself
          ListStep,         \* DISCOVERED_DEVICES_SIZE_STEP: 8 in the code
          MaxPlugged,       \* bound on the devices that are there at a time
          MaxDevices,       \* bound on the device structures at a time
          MaxCalls,         \* bound on the calls of the application and the
                            \* times the user plugs
          MaxFailures       \* bound on the calls that fail for want of memory
                            \* or another resource of Windows

VARIABLES inits,        \* init_count
          on,           \* contexts that are initialised
          helper,       \* the functions of the UsbDk helper: none, loaded, or
                        \* unloaded but still referred to
          table,        \* htab_table, or NoTable
          plugged,      \* identities of the devices that are there
          dev,          \* device structures
          list,         \* the list of devices each context's user holds
          handle,       \* the device of each open handle, or 0
          redirected,   \* the redirections UsbDk has
          configs,      \* configuration descriptors the helper has handed out
          xfer,         \* the transfers
          cancelEx,     \* CancelIoEx is there (since Vista)
          calls, fault,
          \* history:
          failures,     \* such failures so far
          stuck,        \* exits that could not take the semaphore
          missing,      \* the helper could not be loaded
          short,        \* memory for a longer list was missing
          twice,        \* identities that were redirected while they were
          leaked        \* strings the table did not free

Results == {"ok", "timeout", "canceled", "aborted", "gone", "stall", "other"}
ASSUME UsbdkAssumption ==
    /\ Plugged \subseteq Strings /\ Endings \subseteq Results \ {"canceled", "aborted"}
    /\ \A s \in Strings : NumConfigs[s] \in Nat \ {0}
    /\ {ListStep, MaxPlugged, MaxDevices} \subseteq Nat \ {0}
    /\ {MaxCalls, MaxFailures} \subseteq Nat
    /\ IsFiniteSet(Contexts) /\ IsFiniteSet(Handles)
    /\ IsFiniteSet(Plugged) /\ Cardinality(Plugged) <= MaxPlugged

shared == <<inits, on, helper, table, stuck, missing, leaked>>
devices == <<dev, list, configs, short>>
vars == <<shared, plugged, devices, handle, redirected, xfer, cancelEx, calls, fault,
          failures, twice>>

NoTable == [entry |-> <<>>, filled |-> -1]
NoDevice == [refs |-> 0, ctx |-> 0, session |-> 0, of |-> 0, redir |-> 0, system |-> 0]
Invalid == -1           \* INVALID_HANDLE_VALUE
NewTransfer == [st |-> "idle", kind |-> "none", h |-> 0, redir |-> 0, system |-> 0,
                arrays |-> FALSE, fds |-> 0, result |-> "none", status |-> "none", said |-> "none"]

Init ==
    /\ inits = 0 /\ on = {} /\ helper = "none" /\ table = NoTable
    /\ plugged = Plugged
    /\ dev = [k \in 1 .. MaxDevices |-> NoDevice] /\ configs = 0
    /\ list = [c \in Contexts |-> <<>>] /\ handle = [h \in Handles |-> 0]
    /\ redirected = {} /\ xfer = [t \in Transfers |-> NewTransfer]
    /\ cancelEx \in BOOLEAN
    /\ calls = 0 /\ fault = "none" /\ failures = 0
    /\ stuck = 0 /\ missing = FALSE /\ short = FALSE /\ twice = {} /\ leaked = {}

Call == fault = "none" /\ calls < MaxCalls /\ calls' = calls + 1
\* a step that fails if "failing" is true
Fails(failing) ==
    /\ failing => failures < MaxFailures
    /\ failures' = IF failing THEN failures + 1 ELSE failures

-----------------------------------------------------------------------------
(* windows_init and windows_exit                                           *)

\* load_usbdk_helper_dll: all functions, or those found before one is missing,
\* which are not reset when the library is unloaded again
Loads == {"loaded", "none", "unloaded"}
\* What the first initialisation does in its order, and how it can end
Begin(last) ==
    \E loads \in Loads :
        IF last = "done"
          THEN /\ inits' = inits + 1 /\ table' = EmptyTable
               /\ helper' = IF loads = "none" THEN helper ELSE loads
               /\ missing' = (loads # "loaded")
               /\ UNCHANGED leaked
        ELSE IF last = "no events"      \* done, and undone by windows_exit
          THEN /\ helper' = IF loads = "none" THEN helper ELSE "unloaded"
               /\ UNCHANGED <<inits, table, missing, leaked>>
        ELSE \* the clock, the table or the WinUSB backend fails: all is undone
             UNCHANGED <<inits, helper, table, missing, leaked>>
\* libusb_init of a context.  A failure is one of the semaphore or of the first
\* initialisation, or one of usbi_io_init, after which windows_exit is called.
LibInit(c) ==
    /\ Call /\ c \notin on
    /\ \E last \in {"done", "fails", "no events"} :
        /\ Fails(last # "done")
        /\ on' = IF last = "done" THEN on \cup {c} ELSE on
        /\ IF inits = 0 THEN Begin(last)
           ELSE /\ inits' = IF last = "done" THEN inits + 1 ELSE inits
                /\ UNCHANGED <<helper, table, missing, leaked>>
    /\ UNCHANGED <<plugged, devices, handle, redirected, xfer, cancelEx, fault, stuck, twice>>

Finishes == inits = 1
\* libusb_exit of a context whose devices are closed and lists freed.  Without
\* the semaphore windows_exit returns and leaves the count as it is.
LibExit(c) ==
    /\ Call /\ c \in on
    /\ list[c] = <<>> /\ \A h \in Handles : handle[h] # 0 => dev[handle[h]].ctx # c
    /\ on' = on \ {c}
    /\ \/ /\ Fails(TRUE) /\ stuck' = stuck + 1
          /\ UNCHANGED <<inits, helper, table, leaked>>
       \/ /\ Fails(FALSE) /\ inits' = inits - 1 /\ UNCHANGED stuck
          /\ IF Finishes
               THEN /\ helper' = IF helper = "loaded" THEN "unloaded" ELSE helper
                    /\ leaked' = leaked \cup Leaked(table)
                    /\ table' = NoTable
             ELSE UNCHANGED <<helper, table, leaked>>
    /\ UNCHANGED <<plugged, devices, handle, redirected, xfer, cancelEx, fault, missing, twice>>

-----------------------------------------------------------------------------
(* Enumeration                                                             *)

\* libusb_ref_device, and libusb_unref_device with usbdk_destroy_device, on a
\* state [dev, configs, ...]
Ref(s, k) == [s EXCEPT !.dev[k].refs = @ + 1]
\* Mutant: the descriptors of the first configuration only are given back
Unref_FirstConfig(s, k) ==
    IF s.dev[k].refs > 1 THEN [s EXCEPT !.dev[k].refs = @ - 1]
    ELSE [s EXCEPT !.dev[k] = NoDevice, !.configs = @ - 1]
Unref(s, k) ==
    IF s.dev[k].refs > 1 THEN [s EXCEPT !.dev[k].refs = @ - 1]
    ELSE [s EXCEPT !.dev[k] = NoDevice, !.configs = @ - NumConfigs[s.dev[k].of]]
\* the loop over a list of devices
UnrefAll(s, ks) ==
    LET after[i \in 0 .. Len(ks)] == IF i = 0 THEN s ELSE Unref(after[i - 1], ks[i])
    IN  after[Len(ks)]

\* usbdk_device_init and usbdk_device_priv_init, and what happens when the
\* helper has no descriptor of the configuration "at": those before are released
Cached(s, id, at) == [s EXCEPT !.configs = (@ + at) - at]
Allocated(s, c, id, session) ==
    LET k == CHOOSE k \in DOMAIN s.dev : /\ s.dev[k].refs = 0
                                         /\ \A j \in 1 .. k - 1 : s.dev[j].refs > 0
    IN  [s EXCEPT !.dev[k] = [NoDevice EXCEPT !.refs = 1, !.ctx = c, !.of = id,
                                              !.session = session],
                  !.configs = @ + NumConfigs[id], !.at = k]
\* discovered_devs_append: takes a reference, or frees the whole list when
\* there is no memory for a longer one
Appended(s, k, memory) ==
    IF memory \/ Len(s.list) % ListStep # 0 \/ s.list = <<>>
      THEN [Ref(s, k) EXCEPT !.list = Append(@, k)]
    ELSE [UnrefAll(s, s.list) EXCEPT !.stopped = TRUE]
\* A reference to the device, known or new, of one identity, at "at", or 0 if
\* there is none; "goes" is what goes wrong
Taken(s, c, id, goes) ==
    LET session == SessionId(s.table, id, goes # "no copy")
        known == {k \in DOMAIN s.dev : /\ s.dev[k].refs > 0 /\ s.dev[k].ctx = c
                                       /\ s.dev[k].session = session.id}
        base == [s EXCEPT !.table = session.table]
    IN  IF known # {} THEN LET k == CHOOSE k \in known : TRUE
                           IN  [Ref(base, k) EXCEPT !.at = k]
        ELSE IF goes = "no device" THEN [base EXCEPT !.at = 0]
        ELSE IF goes = "no configs" THEN [Cached(base, id, NumConfigs[id] - 1) EXCEPT !.at = 0]
        ELSE Allocated(base, c, id, session.id)
\* One device of usbdk_get_device_list
Listed(s, c, id, goes) ==
    LET taken == Taken(s, c, id, goes)
    IN  IF s.stopped THEN s
        ELSE IF taken.at = 0 THEN taken
        ELSE Unref(Appended(taken, taken.at, goes # "no memory"), taken.at)
Goes == {"well", "no copy", "no device", "no configs", "no memory"}
\* usbdk_get_device_list: the devices in the order in which the helper has them;
\* "bad" is the one with which something goes wrong.  A set of one result.
Listing(c, ids, bad, goes) ==
    LET after[i \in 0 .. Len(ids)] ==
          IF i = 0 THEN {[dev |-> dev, configs |-> configs, table |-> table, list |-> <<>>,
                          at |-> 0, stopped |-> FALSE]}
          ELSE {Listed(s, c, ids[i], IF ids[i] = bad THEN goes ELSE "well") : s \in after[i - 1]}
    IN  after[Len(ids)]

\* libusb_get_device_list.  After a failure to append, the list that has been
\* freed is freed once more.
GetDeviceList(c) ==
    /\ Call /\ c \in on /\ list[c] = <<>>
    /\ MaxDevices - Cardinality({k \in DOMAIN dev : dev[k].refs > 0}) >= Cardinality(plugged)
    /\ \/ /\ helper # "loaded" /\ fault' = "no helper"
          /\ UNCHANGED <<devices, table, failures>>
       \/ /\ helper = "loaded"
          /\ \E ids \in SetToSeqs(plugged), bad \in plugged \cup {0}, goes \in Goes :
              /\ (bad = 0) = (goes = "well")
              /\ Fails(bad # 0)
              /\ \E s \in Listing(c, ids, bad, goes) :
                    /\ dev' = s.dev /\ configs' = s.configs /\ table' = s.table
                    /\ list' = [list EXCEPT ![c] = IF s.stopped THEN <<>> ELSE s.list]
                    /\ short' = (short \/ s.stopped)
                    /\ fault' = IF s.stopped THEN "freed twice" ELSE "none"
    /\ UNCHANGED <<inits, on, helper, stuck, missing, leaked, plugged, handle, redirected,
                   xfer, cancelEx, twice>>
FreeDeviceList(c) ==
    /\ fault = "none" /\ list[c] # <<>>
    /\ LET s == UnrefAll([dev |-> dev, configs |-> configs], list[c])
       IN  dev' = s.dev /\ configs' = s.configs
    /\ list' = [list EXCEPT ![c] = <<>>]
    /\ UNCHANGED <<shared, plugged, short, handle, redirected, xfer, cancelEx, calls,
                   fault, failures, twice>>

\* the user puts devices in, pulls them out, or moves them to another port,
\* where they have another identity (external)
Plug ==
    /\ Call
    /\ \E out \in {{}} \cup {{s} : s \in plugged}, in \in {{}} \cup {{s} : s \in Strings \ plugged} :
        /\ out \cup in # {} /\ plugged' = (plugged \ out) \cup in
        /\ Cardinality(plugged') <= MaxPlugged
    /\ UNCHANGED <<shared, devices, handle, redirected, xfer, cancelEx, fault, failures, twice>>

-----------------------------------------------------------------------------
(* Handles                                                                 *)

Live(r) == \E x \in redirected : x.n = r
\* UsbDk takes the device and gives a handle, or refuses (external)
Opened(k, r) == dev' = [dev EXCEPT ![k].refs = @ + 1, ![k].redir = r, ![k].system = r]
\* libusb_open with usbdk_open: the handle the device had is overwritten, with
\* an invalid one if UsbDk refuses
Open(h) ==
    /\ Call /\ handle[h] = 0
    /\ \E c \in on : \E k \in ToSet(list[c]) :
        LET id == dev[k].of
            others == \E g \in Handles : handle[g] = k
        IN  \/ /\ id \in plugged /\ Opened(k, calls')
               /\ redirected' = redirected \cup {[n |-> calls', of |-> id]}
               /\ handle' = [handle EXCEPT ![h] = k]
               /\ twice' = IF others THEN twice \cup {id} ELSE twice
            \/ /\ dev' = [dev EXCEPT ![k].redir = Invalid]
               /\ twice' = IF others THEN twice \cup {id} ELSE twice
               /\ UNCHANGED <<redirected, handle>>
    /\ UNCHANGED <<shared, plugged, list, configs, short, xfer, cancelEx, fault, failures>>

\* The driver is done with the transfers of a redirection that ends
Ended(x, result) == [x EXCEPT !.st = "ended", !.result = result]
Stopped(r) == {x \in redirected : x.n # r}
\* do_close with usbdk_close: transfers on their way are dropped from the list
\* of the flying ones, but their descriptors stay polled
Close(h) ==
    /\ Call /\ handle[h] # 0
    /\ LET k == handle[h]
           s == Unref([dev |-> dev, configs |-> configs], k)
       IN  /\ redirected' = Stopped(dev[k].redir)
           /\ dev' = s.dev /\ configs' = s.configs
           /\ xfer' = [t \in Transfers |->
                 LET x == IF xfer[t].st = "flying" /\ xfer[t].redir = dev[k].redir
                            THEN Ended(xfer[t], "aborted") ELSE xfer[t]
                 IN  IF x.st # "idle" /\ x.h = h THEN [x EXCEPT !.st = "dropped"] ELSE x]
    /\ handle' = [handle EXCEPT ![h] = 0]
    /\ UNCHANGED <<shared, plugged, list, short, cancelEx, fault, failures, twice>>

-----------------------------------------------------------------------------
(* Transfers                                                               *)

\* usbdk_do_control_transfer, usbdk_do_bulk_transfer, usbdk_do_iso_transfer:
\* the helper has done it, does it, or fails (as it must on a handle that is
\* no redirection); isochronous transfers keep two arrays for their packets
Driven(r) == {"fails"} \cup (IF Live(r) THEN {"now", "later"} ELSE {})
GaveUp(x) == [x EXCEPT !.fds = @ - 1]
\* usbdk_do_submit_transfer
Submit(t) ==
    /\ Call /\ xfer[t].st = "idle"
    /\ \E h \in Handles, kind \in {"control", "bulk", "iso"} :
        /\ handle[h] # 0
        /\ LET d == dev[handle[h]]
               polled == [NewTransfer EXCEPT !.fds = xfer[t].fds + 1]
           IN  \E how \in Driven(d.redir) :
                xfer' = [xfer EXCEPT ![t] =
                   IF how = "fails" THEN GaveUp(polled)
                   ELSE [polled EXCEPT !.st = IF how = "now" THEN "ended" ELSE "flying",
                                       !.kind = kind, !.h = h, !.redir = d.redir,
                                       !.system = d.system, !.arrays = (kind = "iso"),
                                       !.result = IF how = "now" THEN "ok" ELSE "none"]]
    /\ UNCHANGED <<shared, plugged, devices, handle, redirected, cancelEx, fault, failures, twice>>

\* Results are the USBD statuses and Windows errors of a transfer
DriverEnds(t) ==
    /\ fault = "none" /\ xfer[t].st = "flying"
    /\ \E r \in Endings :
        xfer' = [xfer EXCEPT ![t] = Ended(@, r)]
    /\ UNCHANGED <<shared, plugged, devices, handle, redirected, cancelEx, calls,
                   fault, failures, twice>>

\* usbdk_abort_transfers: one request by CancelIoEx on the system handle, which
\* fails when the driver has none such; or, before Vista, all of a pipe
Cancels(t) == {t}
Hits(t) == xfer[t].st = "flying" /\ xfer[t].system = dev[handle[xfer[t].h]].system
OnPipe(t) == {u \in Transfers : /\ xfer[u].st = "flying" /\ xfer[u].kind = xfer[t].kind
                                /\ xfer[u].redir = dev[handle[xfer[t].h]].redir}
Said(ts, t, said) ==
    [u \in Transfers |->
       LET x == IF u \in ts THEN Ended(xfer[u], "canceled") ELSE xfer[u]
       IN  IF u = t THEN [x EXCEPT !.said = said] ELSE x]
\* libusb_cancel_transfer with usbdk_cancel_transfer; nothing is done for a
\* control transfer
Cancel(t) ==
    /\ Call /\ xfer[t].st \in {"flying", "ended"} /\ xfer[t].said = "none"
    /\ xfer' = IF xfer[t].kind = "control" THEN Said({}, t, "ok")
               ELSE IF cancelEx
                 THEN IF Hits(t) THEN Said(Cancels(t), t, "ok") ELSE Said({}, t, "no device")
               ELSE IF Live(dev[handle[xfer[t].h]].redir) THEN Said(OnPipe(t), t, "ok")
               ELSE Said({}, t, "no device")
    /\ UNCHANGED <<shared, plugged, devices, handle, redirected, cancelEx, fault, failures, twice>>

\* usbdk_get_overlapped_result with usbdk_translate_usbd_status, and
\* windows_transfer_callback
\* Mutant: a status is only looked at when it is an error of Windows
Status_UsbdIgnored(result) ==
    CASE result \in {"ok", "timeout", "stall", "canceled"} -> "completed"
      [] result = "aborted" -> "cancelled"
      [] result = "gone" -> "no device"
      [] OTHER -> "error"
Status(result) ==
    CASE result = "ok" -> "completed"
      [] result = "timeout" -> "timed out"
      [] result \in {"canceled", "aborted"} -> "cancelled"
      [] result = "gone" -> "no device"
      [] result = "stall" -> "stall"
      [] OTHER -> "error"
\* windows_handle_events of a transfer that is still in the list: the result is
\* read, the descriptor leaves the poll set, the arrays are freed, and the
\* transfer is called back
Handle(t) ==
    /\ fault = "none" /\ xfer[t].st = "ended"
    /\ xfer' = [xfer EXCEPT ![t] = [xfer[t] EXCEPT !.st = "idle", !.fds = xfer[t].fds - 1,
                                                   !.arrays = FALSE,
                                                   !.status = Status(xfer[t].result)]]
    /\ UNCHANGED <<shared, plugged, devices, handle, redirected, cancelEx, calls,
                   fault, failures, twice>>

\* usbdk_set_interface_altsetting, usbdk_clear_halt, usbdk_reset_device: calls
\* of the helper that change nothing here
DeviceCall ==
    /\ fault = "none" /\ \E h \in Handles : handle[h] # 0
    /\ UNCHANGED vars

Next ==
    \/ \E c \in Contexts : LibInit(c) \/ LibExit(c) \/ GetDeviceList(c) \/ FreeDeviceList(c)
    \/ \E h \in Handles : Open(h) \/ Close(h)
    \/ \E t \in Transfers : Submit(t) \/ DriverEnds(t) \/ Cancel(t) \/ Handle(t)
    \/ Plug \/ DeviceCall
Spec == Init /\ [][Next]_vars

-----------------------------------------------------------------------------
TypeOK ==
    /\ inits \in Nat /\ on \subseteq Contexts /\ helper \in Loads
    /\ table # NoTable => table.filled = Cardinality({i \in Entries : table.entry[i].used # 0})
    /\ plugged \subseteq Strings
    /\ \A k \in DOMAIN dev : dev[k].refs \in Nat /\ dev[k].session \in 0 .. HtabSize
    /\ \A c \in Contexts : ToSet(list[c]) \subseteq DOMAIN dev
    /\ \A h \in Handles : handle[h] \in 0 .. MaxDevices
    /\ \A t \in Transfers : /\ xfer[t].st \in {"idle", "flying", "ended", "dropped"}
                             /\ xfer[t].fds \in Nat /\ xfer[t].result \in Results \cup {"none"}
    /\ calls \in 0 .. MaxCalls

Used(k) == dev[k].refs > 0
\* the lists and the handles a device is in
InLists(k) == {p \in Contexts \X (1 .. MaxPlugged) :
                  p[2] \in DOMAIN list[p[1]] /\ list[p[1]][p[2]] = k}
OpenOn(k) == {h \in Handles : handle[h] = k}
\* the descriptors of the devices in use
HandedOut(ds) ==
    LET upTo[k \in 0 .. MaxDevices] ==
          IF k = 0 THEN 0
          ELSE upTo[k - 1] + (IF ds[k].refs > 0 THEN NumConfigs[ds[k].of] ELSE 0)
    IN  upTo[MaxDevices]

\* What all contexts share is there as long as one of them is: it goes with the
\* last exit, and initialisations are counted right whichever of them fail
\* ("Only works if exits and inits are balanced exactly", windows_nt_common.c:710;
\* an exit without the semaphore leaves it for ever).
SharedWhileUsed ==
    /\ inits = Cardinality(on) + stuck
    /\ inits > 0 => table # NoTable /\ (helper = "loaded" \/ missing)

\* The session of a device in use is that of its own identity, and no other
\* device of its context has it, however many identities have been seen: but
\* for session 0, which all share that the table had no room or memory for.
SessionsName ==
    \A k \in DOMAIN dev : Used(k) /\ dev[k].session # 0 =>
        /\ table.entry[dev[k].session].str = dev[k].of
        /\ \A j \in DOMAIN dev \ {k} :
              Used(j) /\ dev[j].ctx = dev[k].ctx => dev[j].session # dev[k].session

\* A device structure has a reference for each list and each handle it is in,
\* and the descriptors the helper handed out are those of the devices in use.
NothingKept ==
    fault = "none" =>
        /\ \A k \in DOMAIN dev :
             dev[k].refs = Cardinality(InLists(k)) + Cardinality(OpenOn(k))
        /\ configs = HandedOut(dev)

\* The only string the table does not free is that of its last entry.
StringsFreed == leaked \subseteq {HtabSize}

\* UsbDk keeps a device from its Windows driver only while a handle is open, and
\* whoever has a handle has a redirection; unless the device was opened twice,
\* because it is the device structure, not the handle, that knows of it.
RedirectedWhileOpen ==
    /\ \A x \in redirected :
          x.of \in twice \/ \E h \in Handles : handle[h] # 0 /\ dev[handle[h]].redir = x.n
    /\ \A h \in Handles : handle[h] # 0 => Live(dev[handle[h]].redir) \/ dev[handle[h]].of \in twice

\* A transfer that is back has no polled descriptor and no packet arrays; one
\* that is not has them, so that its packets' results can be read.  (Those of
\* a transfer whose handle was closed meanwhile remain.)
TransferHolds ==
    \A t \in Transfers :
        /\ xfer[t].fds = IF xfer[t].st = "idle" THEN 0 ELSE 1
        /\ xfer[t].arrays <=> xfer[t].st # "idle" /\ xfer[t].kind = "iso"

\* After a cancellation the driver has done with the transfer, whatever the
\* answer, unless it is a control transfer or the device was opened twice; with
\* CancelIoEx it comes back as cancelled exactly if the answer was success.
CancelEffective ==
    \A t \in Transfers :
        LET x == xfer[t]
        IN  x.said # "none" /\ x.kind # "control" =>
              /\ x.st = "flying" => dev[handle[x.h]].of \in twice
              /\ cancelEx /\ x.st = "idle" => (x.said = "ok" <=> x.status = "cancelled")
                                                \/ x.result = "aborted"

\* The helper is only called when it is there, if it could be loaded at all: no
\* exit of one context takes it from another.
HelperThere == fault = "no helper" => missing

\* What all contexts share lasts as long as they do, and its session numbers
\* tell devices apart (windows_init, windows_exit, htab_hash).
SharedSound == TypeOK /\ SharedWhileUsed /\ HelperThere /\ SessionsName /\ StringsFreed

\* What a handle and a transfer hold in UsbDk they hold while they are in use,
\* and a cancellation tells the truth (usbdk_open, usbdk_cancel_transfer).
TransfersSound == RedirectedWhileOpen /\ TransferHolds /\ CancelEffective

=============================================================================
