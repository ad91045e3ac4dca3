# A TLA+ model of libUsbCamera

libUsbCamera is a camera library for Windows in three layers: a capture object
with an OpenCV-like interface (`libuvccamera_src`), a modified libuvc
(`libuvc_src`) and libusb (`libusb_src`). This directory holds TLA+ modules for
the three layers, TLC configurations that check them on small instances, and
TLAPS proofs for any number of transfers, threads, devices, handles, frames and
lists, and images of any size.

## Inventory

| Component | State | Operations | What is hard | Module |
|---|---|---|---|---|
| Stream lifecycle, `stream.c` | `running`, `transfers[100]`, `cb_mutex`, `cb_cond`, user thread | open, start, transfer callback, stop, close | three threads, a flag read without its mutex, partial failure of the start, a stop that waits for callbacks | `UvcStream` |
| Payload assembly, `stream.c` | `outbuf`, `stillOutBuf`, `holdbuf`, metadata buffers, `fid`, `isStill`, `flgStillFinish`, `seq` | process payload, swap buffers, populate frame | lost payloads, one-bit frame ID, still images between video frames, a flag outside the lock | `UvcPayload` |
| Polling, `stream.c` | `last_polled_seq` | `uvc_stream_get_frame` | time-outs, shares the mutex and the wake-ups of the stream | `UvcPoll` |
| Context and devices, `init.c`, `device.c` | `open_devices`, `kill_handler_thread`, references | init, find, open, close, break, exit, event thread | last device ends the event thread, order of close steps, list walked while freed | `UvcContext` |
| Negotiation, `stream.c` | `cur_ctrl`, `cur_Stillctrl`, interfaces claimed | probe, commit, still probe, trigger, alternate setting | sequences of control transfers that may fail half-way | `UvcNegotiate` |
| Descriptor parsing, `device.c`, `descriptor.c` | `info` tree, libusb's configuration tree | scan of VideoControl and VideoStreaming interfaces, configurations, BOS, strings | short reads, lists appended to from their end | `UvcDescriptors`, `LibusbDescriptors` |
| Frames, `frame.c`, `frame-mjpeg.c` | a frame's buffer and owner | allocate, duplicate, convert | loops of eight pixels over buffers of any size | `UvcFrame` |
| Controls, `ctrl.c`, `ctrl-gen.c` | the camera's | one or two control transfers each | packed fields, answers shorter than asked, registers read in two transfers | `UvcControls` |
| Sonix controls, `capSonixCtrls.cpp` | flash, LED driver, object's copy of a register | erase, program, read, I2C | page boundaries, command sequences | `SonixControls` |
| Capture object, `UVC4Linux.cpp`, `uvcCamera.cpp` | `m_ctx`, `m_devh`, `m_buffers`, `m_bReadFrame`, `m_ctrl` | open, read, set property, update, close | pointers left after failures, flag shared with the stream's thread, restarts | `UvcCapture` |
| libusb transfers, `io.c` | flying list, state flags, time-outs | submit, cancel, complete, time out | races for one transfer's flags, callback exactly once | `LibusbTransfer`, `TransferPromise` |
| libusb events, `io.c`, `sync.c`, `core.c`, `poll_windows.c` | event lock, waiters, event pipe, polled descriptors, `device_close` | handle events, wait, synchronous transfers, close | wake-ups, closing against a running handler, a list of descriptors used after its lock was released | `LibusbEvents` |
| libusb devices, `core.c`, enumeration in `windows_winusb.c` | device list, reference counts, parents, handles | list, open, close, unref | concurrent scans, destruction while found, references handed on | `LibusbDevices` |
| UsbDk backend, `windows_usbdk.c`, `windows_nt_common.c` | helper, init count, session table, redirections, transfers | init, exit, list, open, submit, cancel, complete | partial failures, a table that fills up, redirection per device | `UsbdkBackend`, `SessionTable` |
| WinUSB and HID backends, `windows_winusb.c` | interface handles, claims, automatic claims, endpoints | claim, release, alternate setting, submit, cancel; HID descriptors and reports | steps without the handle's lock, counts of automatic claims, report IDs | `WinusbBackend`, `HidReports` |
| Hotplug, diagnostics, message tables | – | – | – | – |

libusbi.h:215 defines `USE_USBDK` (and comments `USE_WINUSB` out), so that
`libusb_init` selects the UsbDk backend for every context
(windows_nt_common.c:664-670). The WinUSB and HID backends are compiled and
initialised beside it; their modules describe code that this build does not reach
but that one line switches to.

How the parts interact: the application thread calls the capture object, which calls
libuvc, which calls libusb. The event thread of a uvc context loops in
`libusb_handle_events_completed` and runs `_uvc_stream_callback` for each
transfer that ends; the callback hands frames over through `holdbuf` and
`cb_cond` to the user thread of the stream, which runs the application's
callback (`getFrameCallBack`), or to a thread that polls. The application's stop takes
`cb_mutex`, cancels the transfers and
waits until the callbacks have freed every one of them; its close of the last
device sets a flag for the event thread, closes the libusb handle and joins the
thread.

What makes the components correct: a stream that was stopped leaves nothing
behind, stops end, frames arrive once each and in order, a published buffer is
one camera frame, the event thread exists while it is needed and a device
object as long as somebody uses it; what is negotiated is what was asked for and
what the transfers can carry; below them, that a transfer is called back
exactly once, that no wake-up of an event handler is lost, and that what Windows
hands out is given back.

## Modules

Each module EXTENDS what it stands on: `UvcPoll` > `UvcPayload`; `UvcNegotiate` >
`UvcDescriptors` > `LibusbDescriptors`; `UvcCapture` > `UvcFrame`;
`SonixControls` > `UvcControls`; `WinusbBackend` > `HidReports` >
`LibusbDescriptors`; `UsbdkBackend` > `SessionTable`; `LibusbTransfer` refines
`TransferPromise`. A module `...Proofs` EXTENDS the modules it is about and, where it
needs facts on lists or smallest numbers, `ListLemmas`. Four of them are about more than
the module of their name: `DeviceProofs` about `UvcContext` and `LibusbDevices`,
`LibusbProofs` about `LibusbEvents` and `WinusbBackend` with `HidReports`,
`UvcStreamProofs` about `UvcStream` and `UvcNegotiate`, `UvcCaptureProofs` about
`UvcCapture` and `SonixControls` with `UvcControls`.

### UvcStream, the life of one stream handle

State: `running`, `slot` (the transfers whose array entry is not NULL), `alloc`
(those not freed), `flying` and `cancelling` (libusb's flags), `mutex`, `waiting`
(threads in `pthread_cond_wait`), `seq`, `hold_seq`, and a step for each of the
three threads. `handle` says whether the handle exists and was started; its value
`stillborn` is a history value for "the first submission failed". `faults`, chosen
at the start from `FaultSets`, says what may fail below the library.

| Code | Actions |
|---|---|
| `uvc_stream_open_ctrl`, `uvc_start_streaming` | `Open`, `Return` |
| `uvc_stream_start` | `StartFails`, `StartAlloc`, `SubmitNext`, `SubmitFailsLater`, `SubmitFailsFirst` |
| `uvc_stream_stop` | `StopBegin`, `StopLock`, `StopCancel`, `StopCancelFails`, `StopWait`, `StopDrained`, `StopJoin` |
| `uvc_stream_close` | `CloseBegin`, `CloseFree` |
| `_uvc_stream_callback` | `Complete`, `Publish`, `PayloadsDone`, `NoBuffers`, `DropTransfer`, `ReadRunning`, `Resubmit`, `ResubmitFails` |
| `_uvc_user_caller` | `UserWait`, `UserExit`, `UserTake`, `UserCallback`, and `SpuriousWakeup` for POSIX |

A critical section without a blocking call inside is one action that needs the
mutex to be free. `uvc_stream_stop` holds the mutex over many steps, because it
calls libusb under it. `running` is read and written outside the mutex, so each
access is a step. libusb is modelled by its interface: a transfer in flight ends
with any status, whether it was cancelled or not; submission and cancellation
may fail where `faults` allows it (UsbDk rejects the cancellation of a transfer that
has just ended). The application makes one call
at a time and none from the frame callback, as libuvc.h demands ("You must not
call any uvc_* functions during a callback").

### UvcPayload, from payloads to frames

The camera sends frames as payloads in one of three styles (end flag with data,
end flag in a payload without data, iSight). A buffer is the sequence of the
chunks copied into it, a chunk being the frame number and the payload's place.
The event thread takes three kinds of steps, because what it writes outside the
mutex and what it writes inside are visible at different times: `ReadHeader` up
to the frame ID test, `FlipSwap` and `EndSwap` for the two calls of
`_uvc_swap_buffers`, `CopyData` for the rest. `UserTake` is one turn of the user
thread with `_uvc_populate_frame`. Bytes and buffer sizes, time stamps and the
frame's geometry are left out. `FirstData` and `LastData` are the payloads of a
frame that carry its first and last data in each style, `Whole` the buffer that has
all from one to the other; a payload that is ignored (empty, bogus length,
error bit, failed isochronous packet) is `LosePayload`. One header of each frame
is assumed to get through, because a one-bit frame ID cannot tell a frame from
the one after the next.

### UvcPoll, the two ways out

`UvcPoll` adds to `UvcPayload` who takes the frames. A stream is started with a
callback, then `UserTake` runs, or without one, and a thread polls
(`uvc_stream_get_frame`) with one of three time-outs. `Published` is the event
thread's swap, which needs `cb_mutex` and wakes the poller; `Call`, `Enter`,
`Woken`, `Leave` are the poller's way; `Spurious` is a wake-up for nothing;
`Expires` is the time-out, after which the call returns with the mutex locked
(stream.c:1530-1535). While a thread polls the camera sends at most `PollFrames`
frames.

### UvcContext, devices, handles and the event thread

State: `ctx`, `kill` (`kill_handler_thread`), `open_devices` (a sequence of
handles), `ref` and `held` (references on device objects, all and the
application's), `usb` (handles with an open libusb handle), `stream` of each
handle as seen from outside, a step of the application's call and one of the
event thread. `uvc_close` is the steps `UvcClose`, `StreamStopped`, `CloseUsb`,
`JoinHandler`, `FreeHandle`; `uvc_break` skips the first wait; `uvc_exit` makes
the same steps for each handle it finds and then `FreeContext`. After
`FreeHandle` the walk of `uvc_exit` reads the link of the freed handle: the model
lets it find the old successor or NULL. A stopping stream drains only through a
thread that handles events, and an event thread that has returned because of the flag
stays `exited` until it is joined. `broken` is history: the handles that `uvc_break`
closed while they streamed. A call that fails and undoes what it did
(`uvc_open`) leaves the state as it was and is no action.

### UvcDescriptors and LibusbDescriptors, what a camera says of itself

What a device sends is a sequence of descriptors with lengths and kinds, of which
the first `read` bytes have arrived. `ConfigurationOf` is `parse_configuration`
with `parse_interface` and `parse_endpoint`, written as recursive functions from
position to position, with the early returns that a short descriptor causes; BOS,
superspeed companions, the configuration by value and ASCII strings are further
operators. `DeviceInfo` is `uvc_get_device_info`: it goes through the class blocks
of the tree (`VcBlock`, `VsBlock`) as `uvc_parse_vc` and `uvc_parse_vs` do.

### UvcNegotiate, setting up a stream

State: the parsed camera `info`, interfaces `claimed`, the caller's control block
`ctrl` and still block, the streams of the handle with what they were committed to,
what the camera has taken (`probe`), and history.

| Code | Actions |
|---|---|
| `uvc_open`, `uvc_close`, descriptor requests | `OpenCamera`, `Close`, `ReadDescriptor` |
| `uvc_get_stream_ctrl_format_size`, `uvc_probe_stream_ctrl`, `uvc_query_stream_ctrl` | `GetStreamCtrl`, with `Ends` and `Seen` for the search, `Begun` for what it asks on its way, `Mode`, `Probed` and `Decoded` |
| `uvc_get_still_ctrl_format_size`, `uvc_trigger_still` | `GetStillCtrl`, `SetStillPointer`, `TriggerStill` |
| `uvc_start_streaming`, `uvc_stream_open_ctrl`, `uvc_stream_start` | `StartStreaming`, with `StartWith`, `Chosen` and `Packets` |
| `uvc_stream_close` | `CloseStream` |
| `_uvc_populate_frame` | `PopulateFrame` |

Every control transfer of a call may fail; a call is one action, because nothing
else touches what it changes. The camera is external: it takes what it describes.
`fault` says what would stop the program (a pointer never set, a division by a rate, a
step or a packet size of 0), and ends the behaviour.

`CamerasAssumption` is what the code counts on in a camera, and each part of it is
there because the code fails the caller without it:

- `Typed`: what the parser took are lists of numbers, and no interval in a list is 0
  (the list is one that ends with 0, device.c:1459);
- `Distinct`: a streaming interface has a number of its own, not the control
  interface's, and within it a format and a frame index lead to one frame
  (`_uvc_find_frame_desc_stream_if` takes the first);
- `SizesFound`: where the camera tells no frame size, or the descriptor has none, the
  first frame with the same indices in any interface has the same size, because
  `uvc_query_stream_ctrl` asks `uvc_find_frame_desc`, which does not look at the
  interface (stream.c:266);
- `Alternates`: packet sizes increase from setting to setting, as the comment at
  stream.c:1207 assumes, the first setting has no packets, and frames have a size:
  a size of 0 would give transfers of no packets (stream.c:1240).

A camera without alternate settings is free of the last. `AsksAssumption` bounds rates
by the square root of the ticks in a second (3162): a rate and its interval tell each
other apart up to there, and not all do above (3199 comes back as 3200).

### UvcFrame and UvcCapture, images and the capture object

`UvcFrame` computes conversions byte by byte: an image is a function from
positions to what is stored there, and a converted byte names the input bytes it
comes from. The macros for two, four and eight pixels are functions of the bytes they
write, and the loop that ends with the output is kept; the arithmetic is not.

`UvcCapture` is SgCamera with the UVC4Linux object behind it. State: the object
(`obj`: initialised, context, size, rate, format, palette, what the stream runs
with, trigger), `left` (contexts, handles and references not given back),
`readFrame` (`m_bReadFrame`), `buffers` (`m_buffers`: null, live or freed), the
frame the callback is storing. `Open`, `Close`, the setters and `UpdatePackage` are
whole calls with the restarts they cause; a read is `ReadAsk` and `ReadGot`, and
between them the stream's thread runs `Publish` and `Store`, `StoreFails` or
`StoreMjpeg`. The monitor thread is under `#if 0` and with it `Reopen`. A use of
freed memory ends the behaviour, with `fault` saying which.

### UvcControls and SonixControls, the camera's controls

`UvcControls` has a table with a row for each generated control: address, length,
and the position, width and sign of every field. `Set` and `Get` are the functions
of ctrl-gen.c with `ToBytes` and `FromBytes` for the byte order macros; a control
transfer may fail or answer short. Extension unit data and the generic requests of
ctrl.c are actions of their own, with what they make of a short answer: `uvc_get_ctrl`
hands out the bytes that came and their number, `uvc_get_xu_data` fills up with zeros,
`uvc_get_ct_max` and `uvc_get_ctrl_len` take the rest from the stack, and the last three
say success. A register is read in two steps (`AsicPoint`,
`AsicFetch`) between which other threads come. `SonixControls` writes a procedure of
capSonixCtrls.cpp as the sequence of register accesses it makes and lets the
external chip, flash and LED driver obey them one by one (`FlashAccess`,
`I2cAccess`, `I2cTake`). `spilled` and `hidden` are history: a text longer than the one
sector that is erased has been written, and `CaptureLED::Init` has switched channels
off without telling `m_dValue`.

### LibusbEvents, who handles events in a libusb context

Below the modules above: any thread that waits for a transfer may become the
event handler, one at a time, and the others sleep until it leaves. State:
`events_lock`, `event_handler_active`, `waiters_lock` and its wait set,
`modified` (`USBI_EVENT_POLLFDS_MODIFIED`), `device_close`, the event `pipe`,
the list `ipollfds` and the array `pollfds` the handler copied from it, `open`
descriptors, the `flying` list, what the driver works on (`urb`), and a step for
each thread. Threads are `Users` (libusb_control_transfer and its like),
`EventThread` (`_uvc_handle_events`, whose `completed` is `kill_handler_thread`)
and `Closer` (`libusb_close`, the last one as `uvc_close` makes it).

| Code | Actions |
|---|---|
| `libusb_submit_transfer`, `usbdk_do_submit_transfer` | `Submit`, `SubmitAccepted`, `SubmitRejected`, `SubmitUndone` |
| loops of `sync.c` and `init.c`, `libusb_try_lock_events` | `Loop`, `Try`, `TryLock` |
| `handle_events`, `usbi_poll` | `Locked`, `Poll`, `PollWakes`, `PollTimesOut`, `PipeEvent` |
| `windows_handle_events` | `BackendFound`, `BackendEnds` |
| `libusb_unlock_events` | `Unlock`, `Broadcast` |
| waiting for another handler | `LockWaiters`, `TestActive`, `Sleep`, `WaitTimesOut`, `Woken` |
| `libusb_close`, `uvc_close` | `StartClose`, `CloseSignal`, `CloseLock`, `CloseDone`, `Join` |

A section under `event_data_lock` or `fd_table_lock` is part of one action. The
transfers of a device that is closed are finished before, as libuvc does it. Lists
are sequences, and what poll reports (`revents`) is the set of ready positions of
`pollfds`; the backend takes the first one (`FirstReady`).
`BackendFound` takes the completion of a transfer as one step; what happens
inside it is the subject of `LibusbTransfer`.

### LibusbTransfer and TransferPromise, the transfers of one device

`TransferPromise` is what libusb.h promises: an accepted transfer is called back
once; it is reported as cancelled only if the driver was told to abort it, and as
timed out only if its time-out had passed as well. `LibusbTransfer` is how io.c
and the Windows backend do it, and `ImplementsPromise` says that they do.

State: `flying_lock`, `lock` (one for each transfer), the sorted list `flying`,
`timeout`, the flags `in_flight`, `cancelling`, `timeout_handled`, `timed_out`,
`overlapped` (is `pollable_fd.overlapped` set), `io` (the request in the driver),
`refs` on the device, a clock `now` and a step for each of three threads: `App`
submits and cancels, `Ev` completes transfers and resubmits from the callback, `Tm`
handles time-outs (in the code whoever calls `libusb_handle_events` and finds one
due). History: `owed`, `asked`, `told`, `stray`.

| Code | Actions |
|---|---|
| `libusb_submit_transfer`, `add_to_flying_list`, `usbdk_do_submit_transfer` | `AppSubmit`, `SubmitFlying`, `SubmitLock`, `SubmitAccepted`, `SubmitFlag`, `SubmitRejected`, `SubmitUndo` |
| `libusb_cancel_transfer`, `usbdk_abort_transfers` | `AppCancel`, `Cancel` and `Hits` in it |
| `handle_timeouts`, `handle_timeout` | `TimeoutsBegin`, `TimeoutFound`, `TimeoutCancel`, `TimeoutMark`, `TimeoutsEnd` |
| `windows_handle_events`, `usbdk_clear_transfer_priv` | `EvFound`, `EvClear` |
| `usbi_handle_transfer_cancellation`, `..._completion` | `EvAskTimedOut`, `EvUnlist`, `EvUnflag`, `EvCallback`, `EvUnref` |

A device is a kind for each transfer and a backend: `one` cancels a single request
(CancelIoEx), `pipe` all of the endpoint (AbortPipe), `fails` none. A transfer is
submitted by one thread at a time, so the answer LIBUSB_ERROR_BUSY is modelled but
not met. Statuses other than cancelled and timed out are `ended`, the driver's own
time-out (ERROR_SEM_TIMEOUT) among them.

### LibusbDevices, the devices of a context

State: what is plugged at each place of a device tree, the device structures
(place, references, parent, depth, listed or not), and for each thread its scan, its
list, its handles and the releases it still has to make. A scan goes pass by pass
over hubs, devices and interfaces (`NextPass`, `LookUp`, `RootHub`, `Setup`,
`SetInterface`, `Untrack`, `Deliver`); a step takes one lock of the code, so that two
threads meet between the lookup of a session id and the allocation. `Unref` and
`Free` are the two halves of the last `libusb_unref_device`. `InitDevice` is
init_device with what it returns: a parent without a bus number has to be the first
known device above still (`Ancestor`), and the way up from it to one that has a number
(`WayUp`) gives the depth. Otherwise it fails and keeps two references, or goes on with a
null pointer (`fault`). The enumeration is the one of windows_winusb.c; reference
counts and lists are core.c's and the same for every backend.

### UsbdkBackend and SessionTable, the backend in use

`SessionTable` is the hash table of windows_nt_common.c, open addressing with
double hashing, with `HtabSize` and the hash as constants. `UsbdkBackend` has the
state shared by all contexts (`inits`, `helper`, `table`), device structures with
their session, references, descriptors and redirection, what UsbDk redirects, and
the transfers.

| Code | Actions |
|---|---|
| `windows_init`, `windows_exit`, `usbdk_init` | `LibInit`, `LibExit` |
| `usbdk_get_device_list`, `libusb_free_device_list` | `GetDeviceList` (with `Listing`: `Taken`, `Appended`, `Cached` for each device), `FreeDeviceList` (`UnrefAll`) |
| `libusb_open`, `usbdk_open`, `do_close`, `usbdk_close` | `Open`, `Close` |
| `usbdk_submit_transfer`, `usbdk_cancel_transfer`, completion | `Submit`, `Cancel`, `Handle` with `Status` |
| other requests to the device | `DeviceCall` |

Memory, the helper library, the semaphore, the driver may fail, `MaxFailures` times
in a behaviour, each at each of its calls; a double free or a call through the
missing helper ends it.

### WinusbBackend and HidReports, the backends beside it

State of a handle: interfaces `claimed`, for each interface the file and driver
handles the code keeps and those Windows has given out, the endpoints the backend
believes it has, the count of automatic claims, and `alt`, the setting that the driver
itself has for it (the first one again whenever a driver handle is taken); `xfer` says
how far a transfer is on its way to the driver. Claiming and releasing hold the handle's
lock and are one step. What holds no lock is several, with the other threads in between:
a change of the alternate setting (`AlternateForget`, `AlternateDrive`,
`AlternateAssign`), and a submission, which looks an interface up (`Find`, `AutoClaim`
or `SubmitPipe`), reads its driver handle (`TakeHandle`) and calls the driver with it
(`Drive`, `DrivePipe`). `found` is the history of that: the transfers that found an
interface that has not been released since. The handle of a transfer may be freed by
then; the driver's answer to a freed handle is any answer, and the access to the freed
memory itself is not modelled, nor is that of a reader of an endpoint list that another
thread frees (windows_winusb.c:2366-2370 beside 509-526). A list that could not be
allocated is empty here: whatever its length says, a null pointer is skipped (2366-2367).
One alternate setting is changed at a time.
An automatic claim tries one interface in each step and keeps `autoclaim_lock` from
the first to the last (`HasAutoLock`); the application, which does not take that lock,
may claim and release in between.
`HidReports` has the descriptors the HID backend invents, byte by byte, and where
report IDs and lengths are added and taken off. The HID descriptor is the first nine
bytes of a structure that is not packed (windows_winusb.h:138-146): one byte nobody
has written, and of the length only the low byte. `DescriptorsParse` reads the invented
configuration with `LibusbDescriptors`.

## What is checked

Most properties are conjunctions of named parts, which a counterexample tells apart;
each part has its comment in the module.

| Run | Bounds | Shows |
|---|---|---|
| `stream_life` | 2 transfers, 2 frames, `config` and `submit` failures, or every kind; handles restarted | `TypeOK`, `Quiesced` and `FreedOnlyWhenInactive`: a stopped stream leaves no transfer, callback or thread behind and frees none that is active; `SequenceIncreases`, `FrameDelivered`, `StopReturns` |
| `payload_frames` | 4 frames of up to 3 payloads, all styles; losses, or stills ended by a flag with data; 2 frames while a thread polls | `FramesRight` (`FrameIntegrity`, `PublishedComplete`, `FrameBufferFits`), `StillReportedOnce`, `StillReported`; `PollGetsFrame` and `EventsGoOn` of the polling thread |
| `events_threads` | 1 user, the event thread and a closer with 3 closes, drivers that reject included | `PipeMatchesPending`, `DescriptorsSound` (`PolledOpen`, `NotEarly`), `EventCallsReturn` (`TransferReturns`, `CloseReturns`) |
| `transfer_races` | 2 transfers with and without a time-out, 3 devices, 1 tick of the clock | `FlagsSound` (`FlightExact`, `CancelledOnRequest`), `ImplementsPromise`, `TimeoutEnds` |
| `controls_calls` | every control once with 2 sample values a field, 2 threads with 2 register reads each, extension unit data of every short length; 3 calls to the flash, I2C or LED driver over pages of 4 and sectors of 16 bytes, texts longer than a sector included | `AnswersRight` (`ReadBack`, `BytesReal`, `LengthReal`, `AsicReadsAsked`), `PeripheralsMatch` (`FlashWritten`, `FlashReadsBack`, `LedDriverMatches`) |
| `capture_camera` | 2 opens of one camera, with two sizes, MJPEG, 2 rates and 2 palettes; images of 4 to 16 pixels; controls on a grid of 4; updates of 0 to 59 bytes | `ConversionsSound` (`ConversionRight`, `ConversionInside`), `ObjectSound` (`ReleasedOnClose`, `ExitedOnce`, `FaultsExplained`), `SettingsAsAsked` (`SizeAsAsked`, `ControlAsAsked`, `UpdateWhole`), `ReadFits`, `VideoReadReturns` |
| `uvc_calls` | 2 devices, 3 handles, contexts opened again, `uvc_break` on a device that streams, `uvc_exit` with any number of open devices; or 3 camera descriptions (one told with and without sizes), each read to every length, 3 negotiations, starts and closes | `ContextSound` (`HandlerWithDevices`, `StreamsEndWithHandle`), `RefCountExact`, `ExitClosesAll`, `CallsReturn`; `DescriptorsRead` (`ParsedAsDescribed`, `CutIsPrefix`, `EndpointsThere`, `ReadsFit`), `NegotiatedAsAsked`, `StreamsSound` (`StreamCarriesPayload`, `StreamsClaimed`, `VideoSizeRight`, `FaultsExplained`) |
| `devices_lists` | 2 threads, 3 scans of which 2 may overlap, a camera with an interface on a hub, 2 changes of what is plugged, 7 device structures | `DevicesHeld` (`RefsExact`, `NothingLeft`, `FaultsExplained`), `ListsRight` (`ListRight`, `PathRight`, `DepthRight`) |
| `winusb_handle` | 3 devices of 2 interfaces, 2 transfers, 4 calls; reports of up to 5 bytes, capabilities around 8 and 256 bytes | `HandleSound` (`ClaimedUsable`, `EndpointsOfSetting`, `PolledInFlight`, `HidBufferHeld`, `AutoClaimAccounted`, `HandlesAccounted`, `CancelKept`), `ClaimsRespected` (`OnlyAutoReleased`, `PipesOnClaimed`), `InventedRight` (`DescriptorsParse`, `StringsWhole`), `ReportsRight` (`ReadDelivers`, `WriteDelivers`) |
| `usbdk_device` | 2 contexts, handles and transfers, 4 identities with colliding hashes in a table for 2 of them, 4 device structures, 6 calls, 1 failure | `SharedSound` (`SharedWhileUsed`, `HelperThere`, `SessionsName`, `StringsFreed`), `NothingKept`, `TransfersSound` (`RedirectedWhileOpen`, `TransferHolds`, `CancelEffective`) |

`MCUvcCalls` puts `UvcContext` and `UvcNegotiate` into one run: they share no state, so
one of them moves while the other stays where it starts, and the states of the run are
those of both.

Why the bounds are enough. Two transfers already give one that is being called
back while another is in flight, cancelled or freed, and one that was submitted
while the next was not; the theorems cover more. Two frames show a delivery after a
delivery; four camera frames give every pair of neighbours on both sides of the two
buffers and of the frame ID; a poller needs one frame to have and one to wait for.
Three handles on a list have a first, an inner and a last one. In
`events_threads` a user and the event thread can each be the handler, a waiter or
too late for both, and the closer makes the third contender for the lock. In
`transfer_races` one transfer can be at any place of its life while the other is
cancelled, and one tick makes a time-out pass before, during and after each step.
In `controls_calls` a text ends inside, at and after a page, and base addresses
carry into the next byte; two threads are all that can come between two transfers.
Images of 4, 8, 12 and 16 pixels lie on both sides of the eight pixels a
conversion takes at a time. Negotiations go wrong by what an earlier one left: three
give a failed, a successful and a repeated one. A device needs three generations of a
structure (listed, replaced, listed again) and two threads in one scan each. Four
calls of a WinUSB handle reach every pair of a claim, a change of the setting and
two transfers in flight; six calls of UsbDk are two contexts, a list and two opens,
and what one failure leaves.

`MaxSeq`, `MaxFrames`, `PollFrames`, `MaxHeld`, `MaxCloses`, `MaxSets`,
`MaxAccesses`, `MaxCalls`, `MaxOpens`, `MaxPlugs`, `MaxScans`, `MaxBoth`, `MaxDevs`,
`MaxDevices`, `MaxFailures` bound counters; closes have to be bounded also because a
thread that closes devices without end keeps all others waiting for events
(`libusb_try_lock_events` gives way to it). `MaxReportSize`, `HtabSize`, `Page`,
`Sector`, `Burst`, `Grid`, `Sizes` make small what is large in the code (256-byte
pages, a table of 1021 entries). The proofs below lift the bounds of every module that has
them. Symmetry is used for threads,
contexts, handles and transfers where nothing tells them apart and no liveness is
checked.

### Disagreements

Two runs check what a comment of the code says, one property each, and TLC finds it
violated by what the code does.

- `stream_cancelfault`, `NeverFreedActive` ("It is not legal to free an active
  transfer", io.c:1286): a rejected cancellation makes `uvc_stream_stop` free a transfer
  that is in flight (stream.c:1590). UsbDk answers so for every failure of CancelIoEx
  (windows_usbdk.c:727-731), one that comes too late included.
- `context_reopen`, `OpenDevicesHandled` (a thread is started "if no devices are already
  open (and being handled)", init.c:156): the thread of a device that is opened after the
  last one was closed ends at once, because `kill_handler_thread` stays set.

### Further behaviour

The modules contain the following as well. The properties that the passing runs check
leave these cases out, each by a constant or a condition that its comment states; what
the code does in them is in the model, and no property of a passing run speaks for it.

Streams and frames:

- when the very first submission fails, `uvc_stream_start` returns the error with
  `running` = 1 (stream.c:1315), and the close that `uvc_start_streaming` then
  makes waits for transfers that were never submitted: `StopReturns` is claimed
  for handles that are not `stillborn`;
- a restarted handle delivers the last frame of the session before, numbers then
  start over, and a new frame whose number is that of the last one delivered is passed
  over (stream.c:1161): `SequenceIncreases` and `FrameDelivered` are claimed
  once the numbers are the session's own (`OwnNumbers`);
- with `"nobuf"` in `faults`, a callback without buffers calls itself
  (stream.c:860), frees the transfer and then submits it again; `Careful` excludes
  it, and rejected cancellations, from `Quiesced`;
- a still image after a video frame whose end was lost, or came in a payload
  without data, which the code does not look at (stream.c:830), publishes the
  still buffer in its place, empty (stream.c:787): `LossyStills` and `StillStyles`;
- the still flag is set before the swap and outside the lock (stream.c:832), so a
  video frame taken in between is labelled a still image;
- a poll that times out keeps `cb_mutex` (stream.c:1533); the event thread blocks at
  the next frame: `EventsGoOn` is claimed until then;
- the size of a still image is looked up in the first format that has still sizes
  (stream.c:1409), not in the stream's: `VideoSizeRight` speaks of video frames;
- a rate of 0 divides by zero for a frame with a range of intervals
  (stream.c:520), a range without a step does when the rate is inside it
  (stream.c:526), and a payload size of 0, left by a camera or a negotiation whose
  transfers failed unnoticed, when the stream is started (stream.c:1240).

Context and capture object:

- a device opened after the last one of its context was closed gets an event thread
  that ends at once (`context_reopen`): `HandlerWithDevices` says that there is a thread
  and, only until the flag is set, that it has not ended; stopping such a stream never
  returns, which `CallsReturn` excepts;
- with two or more devices open, `uvc_exit` follows a link in freed memory
  (init.c:141) and may miss the second one; `ExitClosesAll` is claimed only for
  what is left, at most one;
- `uvc_break` ("Kill any stream that's in progress", device.c:1888) looks at no stream
  (1893-1919) and closes the device under one that runs, which `StreamsEndWithHandle`
  excepts (`broken`);
- a mode that is rejected leaves `m_ctx` and `m_devh` as they were after `uvc_exit`
  (UVC4Linux.cpp:1217), and the next setting uses them; an MJPEG frame is
  duplicated into memory just freed (804): `fault` names both, and
  `FaultsExplained` says when they can happen;
- a still image longer than the caller's buffer is copied all the same
  (uvcCamera.cpp:192), which `ReadFits` excepts; a still that is lost keeps video
  frames away for ever, and `VideoReadReturns` is claimed without a trigger.

- a conversion goes on for eight pixels at a time until the output is full
  (frame.c:195): of an image whose size is no multiple of eight it reads and writes
  beyond the end, and `ConversionInside` is claimed for multiples of eight;
- `uvc_exit` closes the handles of its own context only; those of a camera whose stream
  did not start stay for good, which `ReleasedOnClose` leaves out (`clean`).

Controls:

- `uvc_get_ct_max` (ctrl-gen.c:2468) asks for the minimum (GET_MIN), copies as many bytes
  as were asked for from its own array of ten, however few came, and beyond the array if
  more were asked for (the model asks for one or two); `uvc_get_ctrl_len` (ctrl.c:60-74)
  makes a number of two bytes of an answer of one; `uvc_get_xu_data` fills up with zeros. All
  three say success: `BytesReal` and `LengthReal` speak of the bytes that came;
- `XU_SF_Write` erases one sector however long the text is (capSonixCtrls.cpp:629-630):
  `FlashWritten` claims the text within its first sector, and for texts that fit nothing
  changed behind it (`spilled`);
- `CaptureLED::Init` (capSonixCtrls.cpp:827-846) clears the bits of channels that are
  on and leaves their `m_dValue`: `LedDriverMatches` excepts them until they are set
  again (`hidden`).

libusb:

- usbdk_clear_transfer_priv drops the OVERLAPPED of a finished transfer before the
  transfer is marked idle, without its lock (windows_usbdk.c:519; libusbi.h:487
  says the backend "should also take this lock in the handle_events path"). A
  cancellation or a time-out in between calls CancelIoEx without one, which cancels
  every request of the device: `stray` becomes 1 and `CancelledOnRequest` is not
  claimed any more. The promise is kept: the others are called back, once;
- a control transfer is never aborted, although
  its cancellation succeeds; a time-out whose cancellation failed is not tried again
  (TIMEOUT_HANDLED): `TimeoutEnds` excludes both;
- a rejected submission closes its descriptor while the handler may be about to poll an
  array that still has it (windows_usbdk.c:680), and the number may already belong to the
  next transfer when the handler sees it ready or not open: the backend then
  takes that transfer for finished and calls it back early. `PolledOpen` and
  `NotEarly` name the driver that accepts;
- with `MaxWait` smaller than the number of descriptors, the handler sleeps over a
  transfer that is finished (poll_windows.c:157: 64 objects; a stream submits 100
  transfers) until another one, or the 60 s, wakes it;
- a scan can find a device whose last reference was just given back
  (core.c:1148-1175) and use it while it is destroyed: `LibusbDevices` ends there
  with a fault; a parent's reference that a second enumeration takes again is lost
  (`lost`), and hubs stay;
- two scans that overlap may enter a device between a parent and the device that one of
  them initialises: init_device then keeps two references for good (windows_winusb.c:814),
  or finds no device with a bus number above and uses a null pointer (822). `NothingLeft`
  and `DepthRight` say that neither happens to scans one after the other;
- two opens of a device share one redirection (windows_usbdk.c:413), and the close of
  one ends the other's: `twice` in `RedirectedWhileOpen` and `CancelEffective`;
- in the WinUSB backend an interface claimed for one control transfer is released when
  another, which found it claimed, ends first: `auto_claim` is called only when no claimed
  interface was found (2398-2400), and its branch that counts a second transfer "so that
  we can prevent an early release" (605-610) is never reached; a submission that fails
  after its automatic claim leaves the interface claimed and the count at 1 (2400 and
  2421), and if the application claims it then, the end of the next control transfer
  takes it away (617-629): `OnlyAutoReleased` is claimed for interfaces whose count was
  0 when the application claimed them and that no transfer claimed as well (`mixed`,
  which a release clears);
- an interface that is released and claimed anew between the steps of a change of its
  alternate setting (windows_winusb.c:1660-1676) has its first setting again and may get
  the endpoints of the other: `EndpointsOfSetting` leaves it out until the next change
  (`crossed`), and after a change that failed allows that it has none (`refused`);
- a bulk transfer that found its interface may be accepted after another thread released
  it, or use a driver handle that is freed (2546-2559): `PipesOnClaimed` asks that
  it was claimed when it was found;
- a HID descriptor has a byte that was never written and lacks the high byte of its
  length (windows_winusb.c:2909-2930): `DescriptorsParse` does not look at those;
- a report without an ID that GET_REPORT reads later is one byte short: the
  length that Windows gives does not count an ID that is not there (3073), and
  hid_copy_transfer_data takes one off all the same (3751-3754);
  `ReadDelivers` says exactly which byte is missing.

`SequenceIncreases` and `FrameDelivered` are not claimed with
rejected cancellations, because the transfer that stays in flight publishes
into the next session.

Deadlock is checked in `stream_life`. The other configurations switch the check off
because their systems really stop: the camera falls silent after `MaxFrames`,
nothing is left to call after a `uvc_exit` that missed a device, everything is over once
the event thread is joined, the device of a submitted transfer may never answer, the
calls of a bounded run are used up, or a fault ended the program. A stop that waits for
ever is not a deadlock to TLC anyway, because a spurious wake-up is always possible;
the leads-to properties find it.

### Fairness

`UvcStream`: each thread is weakly fair, the application only while it is inside
a call. The event thread is scheduled as long as the device is open, and a
transfer in flight does end: every one is submitted with a time-out of 5 s
(stream.c:1276, 1292), so even one resubmitted just after the cancellation loop
comes back. No fairness is assumed for frames: the stream may publish for ever
without the application stopping it. `UvcPayload` and `UvcPoll`: the threads of the
library run on, the camera need not send anything, the application need not poll, and
nothing relies on a spurious wake-up. `UvcContext`: the call in progress and the event
thread are weakly fair; `Drain` is strongly fair, because the event thread
alternates between checking its flag and handling events, and a cancelled
transfer is reported in one of those turns. `LibusbEvents`: every thread inside a
call is strongly fair, which is what fair mutexes (critical sections of Windows
hand themselves on) give it, the driver finishes what it accepted, and nothing
relies on the 60 s after which waits and polls end by themselves. `LibusbTransfer`:
the threads are strongly fair for the same reason, the event handler takes every
descriptor that is ready before it polls again, whoever handles events looks for a
time-out that is due first (io.c:2335), and a request that the driver was told to
abort ends; one that was not need not. `UvcCapture`: the reader and the stream's
thread run on (weak fairness); `Store` is strongly fair, because a stream delivers frame
after frame and memory is not short for all of them. The other modules state safety
only.

## What is proved

Every theorem rests on the named assumption on the constants of its module
(`ConstantsAssumption`, `TableAssumption`, `UsbdkAssumption`, ...), which TLC
evaluates in the runs, and on the hypothesis in the last column if there is one.

| Theorem | Says | Hypothesis |
|---|---|---|
| **`UvcStreamProofs`**, any number of transfers and frames; any cameras, formats, sizes and rates | | |
| `StreamTypeCorrect` | `Spec => []TypeOK` | |
| `StreamQuiesced` | `Spec => []Quiesced` | where `cancel` and `nobuf` do not fail (`Careful`, in the property) |
| `StreamFreesOnlyInactive` | `Spec => []FreedOnlyWhenInactive` | the same |
| `StreamSequenceIncreases` | `Spec => SequenceIncreases`, restarts included | |
| `Negotiated` | `NegotiateSpec => []NegotiatedAsAsked` of `UvcNegotiate` | cameras and rates as the code counts on them (`CamerasAssumption`, `AsksAssumption`) |
| `StreamsStartSound` | `NegotiateSpec => []StreamsSound` | the same |
| **`UvcPayloadProofs`**, any number of frames and payloads, any style | | |
| `PublishedFramesRight` | `PollSpec => []FramesRight` | `StillsEnd`: still images in the stream end with an end-of-frame bit on data and lose no payload |
| `StillOnce` | `PollSpec => []StillReportedOnce` | |
| `PollKeepsStream` | `PollSpec => Spec`: the polling application does not get in the way of the stream | |
| **`DeviceProofs`**, any devices, handles and references; any tree of places, any number of threads, scans and devices | | |
| `ContextSafe` | `Spec => []ContextSound` | |
| `ReferencesExact` | `Spec => []RefCountExact` | |
| `ExitSafe` | `Spec => []ExitClosesAll` | |
| `DevicesAreHeld` | `DevicesSpec => []DevicesHeld` of `LibusbDevices`, with `DevicesHaveHolders` for the inductive `HeldInv` | |
| **`UvcCaptureProofs`**, any modes, images, grids and lengths; any threads, registers and calls | | |
| `CaptureObjectSound` | `CaptureSpec => []ObjectSound` | |
| `CaptureReadFits` | `CaptureSpec => []ReadFits` | |
| `CaptureSettingsAsAsked` | `CaptureSpec => []SettingsAsAsked` | |
| `FrameConversionsSound` | `CaptureSpec => []ConversionsSound` | |
| `ControlsReadBack` | `Unpack(c, Pack(c, values)) = values` for every control `c` of the table and all values its fields can hold | |
| `ControlAnswersRight` | `Spec => []AnswersRight` of `UvcControls` | |
| `SonixAnswersRight` | `SonixSpec => []AnswersRight` | |
| **`LibusbProofs`**, any number of threads, descriptors and closes; any devices, transfers and calls; reports of any length | | |
| `EventPipeExact` | `Spec => []PipeMatchesPending` | |
| `EventDescriptorsSound` | `Spec => []DescriptorsSound` | |
| `HandlesSound` | `HandleSpec => []HandleSound` of `WinusbBackend` | |
| `ClaimsKept` | `HandleSpec => ClaimsRespected` | |
| `HidReportsRight` | `HandleSpec => []ReportsRight` of `HidReports` | |
| **`LibusbTransferProofs`**, any number of transfers, any time-outs | | |
| `TransferFlagsSound` | `Spec => []FlagsSound` | |
| `TransferImplementsPromise` | `Spec => ImplementsPromise`: the refinement of `TransferPromise` | |
| **`UsbdkBackendProofs`**, any contexts, devices, handles and transfers, a table of any prime size, any hash | | |
| `SearchIsComplete` | the double hashing visits every entry before it is back where it began | |
| `UsbdkSharedSound` | `Spec => []SharedSound` | |
| `UsbdkNothingKept` | `Spec => []NothingKept` | |
| `UsbdkTransfersSound` | `Spec => []TransfersSound` | |

### The stream

`TypeOK` is inductive. `Quiesced` is not: it speaks about the moment after the
stop, and holds because of what the transfers were before. `QuiescedInv` says
where every transfer is: a slot that is set is allocated, one in flight has its
slot, the one being called back has its slot and is not in flight, nothing is in
flight or called back without `running` or a stop in progress, and the user
thread exists only between a start and a join. Each action has one leaf; the
ones that matter are `StartAlloc` (it needs that nothing is left),
`SubmitFailsLater` (it frees only transfers after the current index, none of
which can be in flight) and `StopDrained` (no slot set means none in flight).
`SequenceInv` says that the number in `hold_seq` is the one before `seq` or, after a
restart, an earlier session's, not below it; with the antecedent `OwnNumbers` of the
property it leaves one number that can be handed out, greater than the last.

### Setting up a stream

`NegotiateInv` is the inductive invariant; TLC checked it on the instance of `uvc_calls`
first. `Heard`: what the camera has taken for an interface is one of its frames or
nothing yet, so that an answer, whenever it comes, has that frame's indices and size
(`DecodedRight`, `TakenHeard`). `ModeAsAsked` is the property with one more part, the
camera's payload size, on which `FaultsExplained` rests. `SizeKnown`: where a camera has
alternate settings, the control block has a frame size or a payload size of 0, which
is what the caller's memset leaves before the first answer; a stream started with it
ends up on the first setting. Without it the invariant is not inductive: a stream could
start with transfers of no packets. `StreamFits` says of a stream what `StreamsSound`
does, and that its interface is one the camera describes, so that it is never the
control interface, whose claim a failed start would give back.

The lemmas are about the searches of the code. `FirstExists` and `LastExists`: a search
through the lists ends at one frame (places are ordered by interface, format and
frame). `SamePlace`: the indices of a frame and its interface lead back to it.
`SizeLearned` is the repair of a missing size. `SearchEnds`: the last frame the search
looks at is the one with the rate, if there is one. `IntervalRight`: the interval it
takes has the rate, for which `RateKept` shows that a rate of at most the square root
of the ticks survives the division and its inverse. `PacketsEnough` rounds up, and
`AlternateCarries` puts the choice of the setting together. `Negotiated` takes the
parser's result as it is: that it is what the camera described stays with TLC
(`ParsedAsDescribed`).

### Payloads

`PayloadInv` follows a frame through the two buffers. `PktInv`: no frame is skipped.
`FidInv`: `fid` is the frame ID of the payload in hand, so that a change of it means
the next frame and not the one after. `KindInv`: the still flag is up for the payloads
of a still image and for no other. `BufInv`: one buffer (`Filling`) holds payloads of
one frame in order, and the other one is empty. `LosslessInv`: as long as nothing was
lost it holds all of them. `StillsEnd` is needed, because `_uvc_process_payload` takes
the still bit over before it looks at the frame ID: a still image after a frame that
has not ended publishes that frame from the wrong buffer, which is the case of
`LossyStills` and `StillStyles` above; the configuration checks the theorem's case
and cameras without stills in every style. `StillOnce` needs no hypothesis (`LabelInv`).

### Contexts

The properties of `UvcContext` speak about the moments between calls; `IInv` says
what holds inside them. `ListInv`: the list holds a handle once, so that taking one
node out of it (`ListRemove`) takes exactly that handle out, and the successor that
`uvc_exit` reads from the freed node is open or is none. `HandlerInv`: the event
thread exists exactly while a device is open, up to the join of the last close, after
which it is gone before the handle leaves the list, and it has not ended unless the flag
is set. `StreamInv`: the libusb handles
are those of the list but for the one being closed, whose stream is over or was left
running by `uvc_break`. `ExitInv`
follows the walk of `uvc_exit` with one device to its end. `RefInv` keeps the set of
open handles finite beside the count, so that a handle more or less changes its
cardinality by one (`RefOpen`, `RefFree`); the set of all handles may be infinite.

### The devices of libusb

`HeldInv` is the inductive invariant behind `DevicesHeld`; TLC checked it on the
instance of `devices_lists` before it was proved. A reference is a number in the code,
and nothing says whose it is. `Balanced` does: the count of a device is the number of
its `Holders` - places in lists, handles and lists of releases of all threads, the two
devices a scan has in hand, devices below that are alive, references lost - and there
is one pending `free` for it exactly when the count is 0 and it has not been freed. So
a release never takes a count below 0, and a freed device has no holder left through
which it could be reached (`FaultsExplained`). What a scan has in hand is
`ScansSound`; it needs to know that a parent was a hub when it was looked up, and
`HubsAbove` that hubs are all that devices refer to and, while scans do not overlap,
all whose references get lost. `Ordered` says that devices are allocated in order and
explains a device that leaves the list twice. Holders are counted with `Count` over a
sequence and `Total` over the threads: `CountAppend`, `CountConcat`, `CountTail` and
the like say what an operation does to the first, `TotalAt` what a change in one thread does
to the second, so that a step is an equation between natural numbers for each device. A
step of `InitDevice` changes the holders of up to four devices (the device, its old
parent, its new one and the first ancestor), which may be the same ones.

### Capture object and images

`CaptureInv` relates the object to what exists below it. `Sound` and `ObjInv`:
`m_bInit` means an open camera in a live context, and the stream runs with the size
and format of the object. `LeftInv`: what was not given back covers what the object
will give back, so that no count falls below it; a failed start leaves pointers
behind, and the invariant says after which failures. `ReadInv`: the settings stay as
they are while a read waits. `SettingsAsAsked` is a history of the last call; its
lemmas are about the operators: `HeightDecides` (among the sizes of the table that
have the width, the height picks one), `TruncatedNear`, `TruncatedBetween` and
`ScaledRight` (a fraction that goes to the camera's integers and back lands within a
step), `PiecesAre` (the recursive function that cuts an update into pieces, in closed
form). `FrameConversionsSound` rests on `EightPixelsPaired` (each byte a macro writes
comes from the two pixels of its place), `ColoringAt` (the loop puts the macro's byte
at every position) and `EnsuredIs` (the buffer of the output frame is large enough).

### Controls

The run tries two sample values in each field; the proof takes every value.
`RoundTrip` shows that `FromBytes` undoes `ToBytes` for a field of each width, signed
or not: a number is its bytes and a multiple of what they cannot hold (`TwoBytes`,
`FourBytes`), and the range of the field leaves that multiple one value. `LaidOut` says
that the fields of a row cover each byte of the data once, and `TableRows` goes through
the 41 rows by shape, so that `Pack`, which looks for the field of a byte, finds the
only one (`PackIs`) and `Unpack` reads the same bytes back (`ControlsReadBack`).
`AddressesDiffer` finds the row of each address (`Place`), so a setter touches the data
of its own control alone. The inductive invariant `ControlsInv` adds to `AnswersRight`
what a getter would make of the device's data now, which must be among the values the
last sets of that control may have left even when nobody asks, and that the chip
still points to the register an undisturbed thread is about to read. `ControlTypes`
and the four properties of `AnswersRight` say nothing about the state before the next
call and are not inductive without it. `SonixQuiet` takes all this over to
`SonixSpec`: the procedures do not touch what the getters and setters use.

### Events and transfers of libusb

`EventPipeExact` rests on `CountInv`: `device_close` is 1 between the signal of a
close and its end and 0 otherwise. Without it the invariant is not inductive: a
negative `device_close` would be counted up to an event that is not pending.
`DescriptorInv` adds `LockInv` (who handles events or closes has the event lock, and
nobody else uses what poll found), `FdInv` (descriptors in the list belong to flying
transfers, one each), `ArrayInv` (the array is a copy of the list, and the flag says
when it may be an old one) and `ReadyInv` (while the driver refuses nothing only the
owner of the event lock closes descriptors, so that what was ready stays so).

`LibusbTransfer`'s `IInv` says what each thread may be doing to a transfer: `StepInv`
and `LockInv` (who is in which section), `OwedInv` (one thread submits a transfer at
a time, only while it owes no callback, and completes it only while it does; the event
thread may be ahead of a submission that has not set its flag yet), `TraceInv` (what
the list and the flags say of these steps), `RefInv` (one reference for each transfer
in flight and one more until a callback returns) and `AbortInv` (who asked for an
abort, and what a status stands on). Under it each step maps to a step of
`TransferPromise` or changes none of the mapped variables: `SubmitAccepted` accepts,
`EvCallback` reports, and the status reported is one the promise allows.

### The UsbDk backend

`SearchIsComplete` is the comment "Because size is prime this guarantees to step
through all available indexes" (windows_nt_common.c:235). The steps of a search are
`Main - n * Stride` modulo the size (`VisitedAre`); two of them in the same place would
make the size divide a product of smaller numbers (`PrimeProduct`, a minimal
counterexample). So a search ends at the string or a free entry unless the table is
full, and `SessionIdSound` says what `htab_hash` returns in each case: a table that is
`WellFormed` stays so and keeps the entries it had.

`Sound` is the inductive invariant; TLC checked it on the instance of `usbdk_device`
before it was proved. `TableInv`: the table is well-formed and names the devices in
use. `CountInv`: a device has a reference for each place in a list and each handle, the
descriptors handed out are the sum of the devices' shares, and a device without
references is cleared. `OwnerInv`: devices belong to a context that is initialised and
are in no other's list, without which the last exit could take the table from a device.
`RedirInv`: numbers of redirections are not used twice, and a redirection belongs to
the identity its device has; two handles on a device put it into `twice`. `FlightInv`
and `SaidInv`: a transfer on its way has an open handle and is where its device is, and
what a cancellation was told agrees with the result. An enumeration goes through states
in which the device just found is held by nothing yet; `Between` is what holds of them,
with `own` for that reference, and `ListingEffect` carries it from the first identity
to the last, each of which may fail in every way (`ListedEffect`, `TakenEffect`,
`AllocatedEffect`). References and shares are counted with `RefEffect`, `UnrefEffect`,
`UnrefAllEffect` (the loop over a list in which a device may be more than once),
`PlacesChange` and `OpensChange`.

### The WinUSB backend

`HandleInv` is the inductive invariant; TLC checked it on the instance of
`winusb_handle` first. For each interface (`IfaceGood`) it says what a claimed one has
and who claimed it, what Windows has open
for it (`AccountGood`, which must also say that a count is never below what the handle
refers to, or a close could take it below 0), and which handles its driver can have at
all (`DriverGood`). `DriverGood` is what `CancelKept` needs: a pipe that a composite
device's driver has taken is on an interface with a path, and that has a file handle as
long as the device is open, so that `CancelIoEx` is not given up for lack of one.
`UnclaimedGood` says how an interface that nobody has claimed can still have a driver
handle, and is what `PipesOnClaimed` needs. `XferGood` follows one transfer through its
attempts. `AutosGood` counts: an interface is counted at most as often as there are
transfers that are at its driver or on their way there (`ClaimantsOf`), so that a count
above 0 has such a transfer; `AutosUp`, `AutosDown` and `AutosKeptGood` say what a
step of one transfer does to the two numbers. A bulk or isochronous transfer
between the lookup of its interface and the call of the driver is in `Asking`: it holds
no count. `SettingsInv` is a second invariant on top of
it. `SettingGood` says of an interface that its endpoints and the setting of its driver
agree unless a change is under way, was refused or was crossed by a claim, and what
each step of a change may rely on: after `AlternateForget` the list is empty, after
`AlternateDrive` the driver has the new setting unless the interface was claimed anew.
`FoundGood` says that a transfer that found an interface found it claimed or in one of
the named exceptions, and that this lasts until it is released. `SettingsKept` is what
all steps that touch neither leave alone. The ways a claim can end are gone through
operator by operator (`WinusbClaimGood`, `HidClaimGood`, `AssignGood`,
`ClaimInterfaceGood`); each action then has a lemma that says its next state is good,
and `GoodNext` turns that into the invariant of the next state.

A report is read into a buffer with a byte more or less than was asked for, and moved
by one when it has an ID. `ReportsRight` compares what arrives with what the device
sent byte by byte (`SameSequence`): `Behind` says what is left of a report whose ID is
taken off, `CutAgain` that a part of a part is the part, and `NumberedRead`,
`PlainNow`, `PlainLater` and `PlainBulk` go through the ways a report is read. `RequestAnswered` is
the step that makes a request and answers it; no other step touches it (`ReportsStep`),
so that the property is its own inductive invariant. `HidAssumption` only says that
lengths are natural numbers and reports sequences of them.

### What is only model-checked

- The liveness properties: they need fairness.
- `PeripheralsMatch`, `DescriptorsRead` and `InventedRight`: what they say is mostly
  what functions over the bytes of descriptors and registers compute, several of them
  recursive with data-dependent steps. Recursive functions that go through a sequence
  by one (`Pieces`, `Visited`, `UnrefAll`, `Listing`, `HandedOut`) are proved about by
  a closed form or a smallest counterexample (`MinExists`); the parsers have none, and the induction
  theorems of the library cannot be applied by the provers at hand.
- `ListsRight` of `LibusbDevices`: it is about the order in which the passes go
  through the tree, as `Climb` computes it by recursion.

## Plan

1. `UvcStreamAbs`: an abstract stream (idle, running, stopping) that `UvcStream`
   implements and that `UvcContext` uses; the refinement as a property and a
   theorem.
2. Proofs: `ListsRight` of `LibusbDevices`; `PeripheralsMatch` of `SonixControls`.
3. Allocation failures in `UvcNegotiate` (stream.c:1098) and buffers with sizes in
   `UvcPayload` (stream.c:825).
4. `LibusbTransfer` further: freeing, and the promise stated so that `UvcStream` can
   stand on it.

## Not modelled

- Copies of libusb.h in three directories and the headers of pthreads and libjpeg:
  declarations.
- Hotplug callbacks: libuvc registers none and the backends report no such
  capability; hotplug messages in the event pipe do not occur.
- The monitor thread of the capture object and `Reopen` (`#if 0`), the status
  callbacks of device.c (the transfer is never submitted, line 331). Register access
  in ctrl-gen.c 2260-2387 is modelled although it is under `#if 0`, because
  capSonixCtrls.cpp is written for it; libCamera.cbp builds neither capSonixCtrls.cpp
  nor frame-mjpeg.c.
- `setHidCameraMode`, `getUsbCameraList`, `ComposeSetUserCmd`: sequential and
  without state of the library.
- diag.c, misc.c, strerror.c and the message tables: text.
- The counting of libusb's default context, the timer thread of the Windows clock,
  `calloc` failures of `libusb_get_device_list`.
- Pixel arithmetic, time stamps, the JPEG decoder, Windows drivers and the camera:
  they appear as what they may answer.
