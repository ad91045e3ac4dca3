------------------------------ MODULE UvcContext ------------------------------
(***************************************************************************)
(* A uvc_context_t (libuvc_src/init.c, device.c): the devices found, the   *)
(* handles opened, the one thread that handles libusb events for all of    *)
(* them, and the calls that end streams, handles and the context.          *)
(*                                                                         *)
(* Two threads act: the application, which makes one call at a time, and   *)
(* _uvc_handle_events.  A stream is seen from outside here: it drains only *)
(* while some thread handles events (UvcStream says how it drains).        *)
(***************************************************************************)
EXTENDS Naturals, Sequences, FiniteSets, SequencesExt

CONSTANTS Devices,        \* uvc_device_t objects
          Handles,        \* uvc_device_handle_t objects
          NoHandle,       \* NULL
          MaxHeld         \* bound: references the application holds on a device

ASSUME ConstantsAssumption ==
    /\ NoHandle \notin Handles
    /\ MaxHeld \in Nat \ {0}

VARIABLES
    ctx,            \* "none", "live" or "freed"
    own_usb_ctx,    \* 1: the libusb context is the library's own
    kill,           \* ctx->kill_handler_thread
    open_devices,   \* the list ctx->open_devices
    ref,            \* ref[d]: dev->ref, 0 also when d is not allocated
    held,           \* how many of them the application has to give back
    dev,            \* dev[h]: h->dev
    usb,            \* handles whose libusb device handle is open
    stream,         \* stream[h]: "none", "running", or "stopping" while
                    \* uvc_stream_stop waits for the transfers
    appPc, appCall, appH, nextH,   \* application: step, call, its handle, and
                                   \* the handle after it in the list
    exitOpen,       \* history: devices open when uvc_exit was called last
    broken,         \* history: handles that uvc_break closed while they streamed
    handler         \* event thread: "none", "check", "poll" or "exited"

refVars == <<ref, held>>
config == <<own_usb_ctx, exitOpen, broken>>
appVars == <<appPc, appCall, appH, nextH>>
vars == <<ctx, config, kill, open_devices, refVars, dev, usb, stream, appVars,
          handler>>

Opened == ToSet(open_devices)

Init ==
    /\ ctx = "none" /\ own_usb_ctx = 0 /\ kill = 0
    /\ open_devices = <<>>
    /\ ref = [d \in Devices |-> 0] /\ held = [d \in Devices |-> 0]
    /\ dev \in [Handles -> Devices]
    /\ usb = {}
    /\ stream = [h \in Handles |-> "none"]
    /\ appPc = "idle" /\ appCall = "none" /\ appH = NoHandle /\ nextH = NoHandle
    /\ handler = "none" /\ exitOpen = 0 /\ broken = {}

-----------------------------------------------------------------------------
(* Calls that complete in one step *)

Ready == appPc = "idle" /\ ctx = "live"

(* calloc clears kill_handler_thread: a new context starts from zero *)
UvcInit(own) ==
    /\ appPc = "idle" /\ ctx # "live"
    /\ open_devices = <<>>
    /\ ctx' = "live" /\ own_usb_ctx' = own /\ kill' = 0
    /\ exitOpen' = 0
    /\ UNCHANGED <<broken, open_devices, refVars, dev, usb, stream, appVars, handler>>

(* uvc_find_device: of the new objects on the list, the one returned keeps  *)
(* one reference and the others are freed with the list.                    *)
FindDevice(d) ==
    /\ Ready
    /\ ref[d] = 0
    /\ ref' = [ref EXCEPT ![d] = 1] /\ held' = [held EXCEPT ![d] = 1]
    /\ UNCHANGED <<ctx, config, kill, open_devices, dev, usb, stream,
                   appVars, handler>>

(* uvc_get_device on an open handle *)
GetDevice(h) ==
    /\ Ready
    /\ h \in Opened /\ held[dev[h]] < MaxHeld
    /\ ref' = [ref EXCEPT ![dev[h]] = @ + 1]
    /\ held' = [held EXCEPT ![dev[h]] = @ + 1]
    /\ UNCHANGED <<ctx, config, kill, open_devices, dev, usb, stream,
                   appVars, handler>>

(* uvc_unref_device: at zero the object is freed *)
UnrefDevice(d) ==
    /\ Ready
    /\ held[d] > 0
    /\ ref' = [ref EXCEPT ![d] = @ - 1] /\ held' = [held EXCEPT ![d] = @ - 1]
    /\ UNCHANGED <<ctx, config, kill, open_devices, dev, usb, stream,
                   appVars, handler>>

(* Mutant: the handle does not take its own reference on the device *)
UvcOpen_NoRef(h, d) ==
    /\ Ready
    /\ held[d] > 0 /\ h \notin Opened \cup broken
    /\ dev' = [dev EXCEPT ![h] = d]
    /\ usb' = usb \cup {h}
    /\ handler' = IF own_usb_ctx = 1 /\ open_devices = <<>> THEN "check" ELSE handler
    /\ open_devices' = Append(open_devices, h)
    /\ UNCHANGED <<ctx, config, kill, refVars, stream, appVars>>

(* uvc_open.  When one of its calls fails it undoes what it did.  The first *)
(* device starts the event thread; kill_handler_thread is not reset.  (A    *)
(* handle whose stream was left running stays apart, as that stream does.)  *)
UvcOpen(h, d) ==
    /\ Ready
    /\ held[d] > 0 /\ h \notin Opened \cup broken
    /\ ref' = [ref EXCEPT ![d] = @ + 1]
    /\ dev' = [dev EXCEPT ![h] = d]
    /\ usb' = usb \cup {h}
    /\ handler' = IF own_usb_ctx = 1 /\ open_devices = <<>> THEN "check" ELSE handler
    /\ open_devices' = Append(open_devices, h)
    /\ UNCHANGED <<ctx, config, kill, held, stream, appVars>>

(* uvc_start_streaming on an open device *)
StartStream(h) ==
    /\ Ready
    /\ h \in Opened /\ stream[h] = "none"
    /\ stream' = [stream EXCEPT ![h] = "running"]
    /\ UNCHANGED <<ctx, config, kill, open_devices, refVars, dev, usb,
                   appVars, handler>>

-----------------------------------------------------------------------------
(* uvc_stop_streaming, uvc_close, uvc_break and uvc_exit *)

(* h becomes the handle the call works on: its stream is stopped first, if  *)
(* it has one, except by uvc_break.                                         *)
WorkOn(h, call) ==
    /\ appH' = h /\ appCall' = call
    /\ IF stream[h] = "running" /\ call # "break"
       THEN appPc' = "stop" /\ stream' = [stream EXCEPT ![h] = "stopping"]
       ELSE appPc' = "close" /\ UNCHANGED stream

StopStreaming(h) ==
    /\ Ready
    /\ h \in Opened /\ stream[h] = "running"
    /\ WorkOn(h, "stop")
    /\ UNCHANGED <<ctx, config, kill, open_devices, refVars, dev, usb, nextH,
                   handler>>

UvcClose(h) ==
    /\ Ready
    /\ h \in Opened
    /\ WorkOn(h, "close")
    /\ UNCHANGED <<ctx, config, kill, open_devices, refVars, dev, usb, nextH,
                   handler>>

(* uvc_break: a stream that runs is not stopped *)
UvcBreak(h) ==
    /\ Ready
    /\ h \in Opened
    /\ WorkOn(h, "break")
    /\ broken' = IF stream[h] = "running" THEN broken \cup {h} ELSE broken
    /\ UNCHANGED <<ctx, own_usb_ctx, exitOpen, kill, open_devices, refVars, dev, usb,
                   nextH, handler>>

(* Mutant: the context is freed without a walk over the open devices *)
UvcExit_NoWalk ==
    /\ Ready
    /\ exitOpen' = Len(open_devices)
    /\ appCall' = "exit" /\ appPc' = "exit"
    /\ UNCHANGED <<ctx, own_usb_ctx, broken, kill, open_devices, refVars, dev, usb,
                   stream, appH, nextH, handler>>

(* uvc_exit begins its walk over the open devices *)
UvcExit ==
    /\ Ready
    /\ exitOpen' = Len(open_devices)
    /\ IF open_devices = <<>>
       THEN appCall' = "exit" /\ appPc' = "exit" /\ UNCHANGED <<appH, stream>>
       ELSE WorkOn(Head(open_devices), "exit")
    /\ UNCHANGED <<ctx, own_usb_ctx, broken, kill, open_devices, refVars, dev, usb,
                   nextH, handler>>

(* A call returns *)
Return == appPc' = "idle" /\ appCall' = "none" /\ appH' = NoHandle

(* uvc_stream_stop returned because all transfers came back *)
StreamStopped ==
    /\ appPc = "stop"
    /\ stream[appH] = "none"
    /\ IF appCall = "stop" THEN Return ELSE appPc' = "close" /\ UNCHANGED <<appCall, appH>>
    /\ UNCHANGED <<ctx, config, kill, open_devices, refVars, dev, usb, stream, nextH,
                   handler>>

(* Mutant: any device at the head of the list is taken for the last one *)
IsLast_HeadOnly(h) == own_usb_ctx = 1 /\ Head(open_devices) = h

(* The library's own context, and no other device open *)
IsLast(h) == own_usb_ctx = 1 /\ open_devices = <<h>>

(* Mutant: the event thread is told to end after the wait for it *)
CloseUsb_JoinsFirst ==
    /\ appPc = "close"
    /\ usb' = usb \ {appH}
    /\ appPc' = IF IsLast(appH) THEN "join" ELSE "unlink"
    /\ UNCHANGED <<ctx, config, kill, open_devices, refVars, dev, stream, appCall,
                   appH, nextH, handler>>

(* kill_handler_thread = 1 if this is the last device, then libusb_close,   *)
(* which interrupts the event thread and drops transfers still in flight    *)
(* without calling back.                                                    *)
CloseUsb ==
    /\ appPc = "close"
    /\ usb' = usb \ {appH}
    /\ IF IsLast(appH) THEN kill' = 1 /\ appPc' = "join"
                       ELSE appPc' = "unlink" /\ UNCHANGED kill
    /\ UNCHANGED <<ctx, config, open_devices, refVars, dev, stream, appCall,
                   appH, nextH, handler>>

(* pthread_join(ctx->handler_thread) *)
JoinHandler ==
    /\ appPc = "join"
    /\ handler = "exited"
    /\ handler' = "none"
    /\ appPc' = "unlink"
    /\ UNCHANGED <<ctx, config, kill, open_devices, refVars, dev, usb, stream,
                   appCall, appH, nextH>>

Position(h) == CHOOSE i \in 1..Len(open_devices) : open_devices[i] = h

Successor(h) ==
    IF Position(h) < Len(open_devices) THEN open_devices[Position(h) + 1] ELSE NoHandle

(* DL_DELETE, uvc_unref_device, uvc_free_devh.  uvc_exit then reads         *)
(* devh->next of the handle just freed: the memory still holds the          *)
(* successor, or has been used again and holds NULL.                        *)
FreeHandle ==
    /\ appPc = "unlink"
    /\ open_devices' = RemoveAt(open_devices, Position(appH))
    /\ ref' = [ref EXCEPT ![dev[appH]] = @ - 1]
    /\ IF appCall = "exit"
       THEN /\ nextH' \in {Successor(appH), NoHandle} /\ appPc' = "walk"
            /\ UNCHANGED <<appCall, appH>>
       ELSE Return /\ UNCHANGED nextH
    /\ UNCHANGED <<ctx, config, kill, held, dev, usb, stream, handler>>

(* The walk of uvc_exit goes on, or ends *)
ExitNext ==
    /\ appPc = "walk"
    /\ IF nextH = NoHandle
       THEN appPc' = "exit" /\ UNCHANGED <<appCall, appH, stream>>
       ELSE WorkOn(nextH, "exit")
    /\ nextH' = NoHandle
    /\ UNCHANGED <<ctx, config, kill, open_devices, refVars, dev, usb, handler>>

(* libusb_exit if the libusb context is our own; free(ctx) *)
FreeContext ==
    /\ appPc = "exit"
    /\ ctx' = "freed"
    /\ Return
    /\ UNCHANGED <<config, kill, open_devices, refVars, dev, usb, stream, nextH, handler>>

Call == \/ \E own \in {0, 1} : UvcInit(own)
        \/ \E d \in Devices : FindDevice(d) \/ UnrefDevice(d)
        \/ \E h \in Handles, d \in Devices : UvcOpen(h, d)
        \/ \E h \in Handles : \/ GetDevice(h) \/ StartStream(h) \/ StopStreaming(h)
                              \/ UvcClose(h) \/ UvcBreak(h)
        \/ UvcExit

InCall == \/ StreamStopped \/ CloseUsb \/ JoinHandler \/ FreeHandle
          \/ ExitNext \/ FreeContext

-----------------------------------------------------------------------------
(* The event thread: _uvc_handle_events *)

(* while (!ctx->kill_handler_thread) *)
HandlerCheck ==
    /\ handler = "check"
    /\ handler' = IF kill = 1 THEN "exited" ELSE "poll"
    /\ UNCHANGED <<ctx, config, kill, open_devices, refVars, dev, usb, stream,
                   appVars>>

(* libusb_handle_events_completed returns: events were handled, libusb_close *)
(* or libusb_open interrupted it, or its 60 seconds have passed.             *)
HandlerReturns ==
    /\ handler = "poll"
    /\ handler' = "check"
    /\ UNCHANGED <<ctx, config, kill, open_devices, refVars, dev, usb, stream,
                   appVars>>

(* The last transfer of a stopping stream is called back by the thread that *)
(* handles events: ours, or one of the application's for its own context.   *)
DrainStream(h) ==
    /\ handler = "poll" \/ own_usb_ctx = 0
    /\ stream[h] = "stopping" /\ h \in usb
    /\ stream' = [stream EXCEPT ![h] = "none"]
    /\ UNCHANGED <<ctx, config, kill, open_devices, refVars, dev, usb, appVars,
                   handler>>

Handler == HandlerCheck \/ HandlerReturns

Drain == \E h \in Handles : DrainStream(h)

Next == Call \/ InCall \/ Handler \/ Drain

Spec == Init /\ [][Next]_vars

(* A call in progress runs on, and so does the event thread; while it       *)
(* handles events again and again, a cancelled transfer is called back.     *)
CallsFairness == WF_vars(InCall) /\ WF_vars(Handler) /\ SF_vars(Drain)
FairSpec == Spec /\ CallsFairness

-----------------------------------------------------------------------------
(* Properties *)

(* Types *)
TypeOK ==
    /\ ctx \in {"none", "live", "freed"}
    /\ own_usb_ctx \in {0, 1} /\ kill \in {0, 1}
    /\ open_devices \in Seq(Handles)
    /\ ref \in [Devices -> Nat] /\ held \in [Devices -> 0..MaxHeld]
    /\ dev \in [Handles -> Devices] /\ usb \subseteq Handles
    /\ stream \in [Handles -> {"none", "running", "stopping"}]
    /\ appPc \in {"idle", "stop", "close", "join", "unlink", "walk", "exit"}
    /\ appCall \in {"none", "stop", "close", "break", "exit"}
    /\ {appH, nextH} \subseteq Handles \cup {NoHandle}
    /\ handler \in {"none", "check", "poll", "exited"} /\ exitOpen \in Nat
    /\ broken \subseteq Handles

(* Between calls an event thread that is not joined is there exactly while  *)
(* a device is open in a context of our own: none is started twice and none *)
(* outlives its work.  It handles events, and has not ended, as long as no  *)
(* close has told it to end; a context whose last device was closed once    *)
(* keeps that flag, and what is opened after that has a thread that ends.   *)
HandlerWithDevices ==
    (ctx = "live" /\ appPc = "idle") =>
        /\ handler # "none" <=> own_usb_ctx = 1 /\ open_devices # <<>>
        /\ kill = 0 => handler # "exited"

(* A device object lives as long as someone refers to it: each open handle  *)
(* and each reference the application holds counts one.                     *)
RefCountExact ==
    \A d \in Devices :
        ref[d] = held[d] + Cardinality({h \in Opened : dev[h] = d})

(* Nothing streams on a handle that is closed: its transfers and its user   *)
(* thread would go on using freed memory.  The exception is a stream that   *)
(* uvc_break leaves running.                                                *)
StreamsEndWithHandle ==
    \A h \in Handles : stream[h] # "none" => h \in usb \cup broken

(* init.c, uvc_start_handler_thread: called "if no devices are already open *)
(* (and being handled)": while devices are open in a context of our own     *)
(* there is a thread that handles their events.                             *)
OpenDevicesHandled ==
    (ctx = "live" /\ appPc = "idle" /\ own_usb_ctx = 1 /\ open_devices # <<>>) =>
        handler \in {"check", "poll"}

(* uvc_exit: "Closes the UVC context, shutting down any active cameras":    *)
(* no device stays open and no thread is left with the freed context, if    *)
(* at most one device was open.  (The walk over more reads a freed link.)   *)
ExitClosesAll ==
    (ctx = "freed" /\ exitOpen <= 1) =>
        open_devices = <<>> /\ usb = {} /\ handler = "none"

(* Every call returns: the wait of uvc_stream_stop for the transfers and    *)
(* the join of the event thread end.  The exception is the stop of a stream *)
(* in a context whose event thread an earlier close has told to end: the    *)
(* flag stays, and the thread of the next uvc_open obeys it at once.        *)
CallsReturn == (appPc # "idle") ~> (appPc = "idle" \/ (appPc = "stop" /\ kill = 1))

(* While devices are open there is one thread for their events, which runs  *)
(* until a close ends it, and no stream outlives its handle but by uvc_break *)
(* (uvc_open, uvc_close, uvc_exit).                                         *)
ContextSound == TypeOK /\ HandlerWithDevices /\ StreamsEndWithHandle

=============================================================================
