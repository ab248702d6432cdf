# A TLA+ model of the SunBox USB mouse proxy

The firmware under `src/firmware/libraries/USBHostProxy` turns a Teensy 4.1 into
a USB proxy: a mouse is plugged into the board's host port, the board is plugged
into a PC and shows it the mouse's descriptors, and what the mouse reports is
passed on, mixed with input from a serial line. This directory holds TLA+ models
of that firmware, TLC configurations that check them on small instances, and
proofs, checked by TLAPS, of the properties that matter most.

Path names below are relative to `src/firmware/libraries/USBHostProxy`; the
sketch is `examples/SunshineUSBProxy`. The rest of `src/` is the vendored Teensy
core and its libraries.

## 1. The system

### Threads

There is one thread, `loop()` of the sketch, and one interrupt handler that
matters, that of the USB host controller. `loop()` calls, in this order,
`myusb.Task`, `USBDeviceProxy::poll`, `SunBoxUSBMouseDataHandler::check`,
`processPendingButtonChanges`, `SunBoxCommands::check` and
`SunBoxSyntheticHandleOutput::process`. The callbacks of `USBHostDriver`
(`claim`, `disconnect`, `control`, `processInData`) run in the host interrupt
and preempt the loop between any two of its steps. The device controller is
polled, it has no interrupt of its own here. The PC and the mouse are
independent actors behind the two controllers.

### Components

| Component | State it keeps | Operations | Correct when |
|---|---|---|---|
| Control endpoint of the PC-facing side (`src/USBDeviceProxy.cpp`) | device state, control stage, pending SETUP, notify mask, address and configuration | `poll`, `handleUSBInterrupt`, `handleUSBReset`, `pollControlEndpoint`, `handleSetupPacket`, `processControlTransfer`, `sendData`, `receiveData` | the PC gets the answer of its latest request, no other; what is acknowledged was done; every request is answered |
| Descriptor cache (`src/USBDeviceProxy.h`) | one device, configuration and BOS descriptor, ten strings, the identity they belong to | lookup, store, invalidate | only the plugged-in mouse's descriptors, the one asked for, not a truncated one |
| Data endpoints of the PC-facing side (`src/USBDeviceProxy.cpp`) | `endpoints[]`, `endpoint_ready[]`, a buffer and transfer descriptor each | `configureAllEndpoints`, `pollDataEndpoints`, `sendDataOnEndpoint`, `handleClearFeature` | no buffer written while it is sent; never silent for good |
| Mouse report stream (`src/USBHostDriver.cpp`) | the IN pipe, `rx_buffer`, paused and pending flags | `startReading`, `processInData`, `pauseDataTransfers`, `resumeDataTransfers` | never dries up; one transfer per buffer |
| Control transfers to the mouse (`src/USBHostDriver.cpp`) | one `control_setup`, one `control_buffer`, three flags | `controlTransfer`, `control` | a call returns its own answer, and returns |
| Claiming and enumeration data (`src/USBHostDriver.cpp`) | interfaces, endpoints, identity | `claim`, `disconnect`, `parseDescriptors` | callers see one mouse at a time |
| Report path (`SunBoxUSBMouseDataHandler.cpp`, `SunBoxSyntheticHandleOutput.cpp`) | one report slot with a flag, report layout, last buttons, a hand-off state per button | `dataCallback`, `check`, `process`, `processButtonHandoff`, `handleMouseButtonConfigCheck` | reports in order, none twice, the last one always delivered; no button lost or left pressed |
| HID report descriptor parser (`src/HIDMouseDescriptorHandler.cpp`) | field offsets and sizes | `parseDescriptor`, `parseMouseData`, `formatMouseData` | the PC reads from a frame what the mouse's report says |
| Serial commands (`SunBoxCommands.cpp`, `Commands*Interface.cpp`) | one buffer, which protocol is active, one slot of mouse data | `check`, `detectAndRoute`, `routeToLegacy`, `routeToDevtools` | a frame or line is handled as it was sent, whatever else is on the line |
| Persistent settings (`src/SunBoxEEPROM.cpp`, `eeprom.c` of the core) | records in a flash log, an index in RAM | load, save, clear, toggle | the last setting is the one in force, also after a power loss |
| Sketch (`SunshineUSBProxy.ino`, `src/SunBoxStartup.cpp`) | proxy started, endpoint map | `setup`, `loop` | starts once, in the right order |
| Movement shaping, logging (`AntiDetect.cpp`, `Config.cpp`, `src/SunBoxLogger.cpp`) | values and text | | no control state depends on it |

`PROJECT.json` gives each component its status, and lists under `hazards` the
places where this code is hard to test.

### Interactions

* A request of the PC that the proxy does not answer itself blocks the loop in
  `controlTransfer()`, for as long as the mouse takes or until a timeout of 500
  ms. Meanwhile the PC may give up, send another SETUP or reset the bus, and the
  mouse may be unplugged, or swapped: all of it waits in registers and flags
  for the loop to return.
* `SET_CONFIGURATION` pauses the report stream, forwards the request, fetches and
  parses the configuration, configures the endpoints, and resumes the stream.
* `disconnect()` empties the descriptor cache from the interrupt, possibly in the
  middle of a lookup or a store.
* A report goes from the interrupt into one slot, from there through `process()`
  into the endpoint's buffer, and to the PC when it polls. A frame of the serial
  line has a slot of its own; `process()` merges the two.
* A text command writes the EEPROM from the loop, byte by byte; `claim()` reads the
  same record in the host interrupt.

## 2. Modules

| Module | What it is |
|---|---|
| `ControlEndpoint` | endpoint 0 of the PC-facing side, with the PC, the controller's registers and a mouse that answers, now or late, or fails |
| `DescriptorCache` | the cache, `GET_DESCRIPTOR`, and the interrupt that invalidates it |
| `HostStream` | the self-requeueing report transfers, pause and resume |
| `HostControl` | `controlTransfer()` and its callback |
| `ControlCall` | abstract: what a caller of `controlTransfer()` may rely on; `HostControl` implements it |
| `ReportPath` | from the host interrupt through the slot, the loop and the data endpoint to the PC |
| `ReportChannel` | abstract: what the PC may rely on for reports; `ReportPath` implements it |
| `ButtonHandoff` | one button pressed by the user and by the serial line: filter and hand-off |
| `HIDReport` | from the report descriptor to the fields, and from a report to a frame |
| `SerialRouter` | two protocols on one serial line, with the sender and the port's queue |
| `FlashEEPROM` | the flash emulation of the core: a log of words per sector |
| `ConfigStore` | the records of `SunBoxEEPROM` on `FlashEEPROM`, power losses and restarts |
| `ByteStore` | abstract: a store of bytes that a power loss may harm only where it is being rewritten; `ConfigStore` implements it |
| `MouseReportProofs` | the theorems of `HostStream` and `HIDReport`: that the mouse's reports come, and what they say |
| other `*Proofs` | the theorems of the module they are named after |
| `MC*` | the instance TLC checks |

Each module has one action per handler, or one per stretch of a handler between
two points where something else can happen: a blocking call, a wait, or a
register or flag that another actor uses. Definitions keep the names of the code.
`map` in `PROJECT.json` gives the lines of each. An operator marked `(mutant)` is
a plausible bug in the definition that follows it; no specification uses it, the
properties are tested against it.

### ControlEndpoint

The state is the controller's registers (`sts`, `setupstat`, the primed slots
`primeIn` and `primeOut`, `complete`, `stalled`, `devAddr`), the members of
`USBDeviceProxy`, the place `pc` of the loop, the PC's own view (`host`) and the
mouse's (`accepted`, `sent`). A request is a kind, which is what the dispatch in
`handleSetupPacket()` tells apart, and a number. A primed slot knows the request
it was primed for; this is how staleness is stated.

`PollBegin` reads and clears the status register; `HandleInterrupt`,
`HandleReset`, `TakeSetup`, `Flush`, the `Take...` and `...Setup` actions and
`Process` follow `poll()` in order. A forwarded request waits at a place of its
own (`call...`) until an action of the mouse or a timeout returns it, and the
environment goes on meanwhile.

Of `controlTransfer()` itself it is assumed what `ControlCall` promises (and
`HostControl` implements): `pipe` has the call's request, until the mouse carries it out
(`MouseServes`) or it is lost, and `Leftover`, which stands for whatever else is still
there: requests that were given up, and calls the firmware makes on its own account
(`OtherCall`). A request handed over while there is a `Leftover` is `mixed`: a completion
of either ends its call. A call for any other succeeds only when the mouse has carried
it out (`Succeeds`).

What is assumed of the controller: while a SETUP is unread it NAKs endpoint 0 and
keeps the stall bits clear; reading a SETUP, clearing its bit and flushing
endpoint 0 is one step; an address written with the advance bit takes effect at
the next IN acknowledgement; the data stage's descriptor has no interrupt bit, so
its completion may or may not show in the status register; a descriptor primed
over another replaces it.

### DescriptorCache

A descriptor is its owner (the number of the plug), type, index and length in
units, where a whole one has three; a request asks for one unit, three, or more. A slot
of a string has a key, its `index`, apart from what is stored in it: `Holds` looks at
the key, `StoreString` writes it. What a fetch brings (`Received`) need not be what was
asked for: while a transfer that was given up is open (`late`), it may be the data of
that one, of whatever kind it was (`other`), and goes into the cache as the code takes it
for what the request named, cut and checked by whatever its bytes say.
`ForwardMiss`, `Fetched`, `Identify` and `Store` are the steps between which
`Disconnect` and `Claim` can fall. `Models` are VID/PID pairs: two mice may have
the same. `torn` records that a disconnect fell inside `storeDescriptorInCache()`,
the one window the code leaves open. It is assumed that a mouse that answers sends data
of its own: one that completes an IN request without data would get what an earlier
transfer left in the buffer passed on.

### HostStream

`inflight` counts the transfers queued on the IN pipe. `MouseReport` is
`processInData()`. `Pause`, `PauseDone` or `PauseForce`, and `Resume`,
`ResumeCheck`, `ResumeQueue` follow the loop statement by statement; `Claim` and
`Disconnect` come in between. When `disconnect()` hits between the check of
`in_pipe` and its use, the null pointer faults and the fault handler restarts the
processor (`Reboot`).

### HostControl and ControlCall

`queue` holds the transfers of the control pipe. A transfer points to the shared
`control_setup` and `control_buffer`, as it does in the code, and so reads what
they hold when the controller gets to it (`SendSetup`, `Complete`), not what they
held when it was queued. `Control` is the callback, and may come between any two of
`Prepare`, `ResetState`, `CopyData` and `Queue`. `shared` has the requests that were
set up with an earlier transfer still queued, and those transfers' requests; `served`
counts how often the mouse has carried out each.

`ControlCall` is the view of the callers: a request is handed over, the mouse may
carry it out once (`Serve`) or lose it, and the call returns. `Return(ok, data)` with
success is allowed only when the mouse has carried the request out, once, can no longer
do so again, and `data` is its answer (`Own`), unless the request is `mixed` up with
another, to which `HostControl` maps `shared`. `open` is what is on the pipe, with the
request about to be queued. A call that fails promises nothing: its request may still
be carried out.

### ReportPath and ReportChannel

Reports are numbered. A frame has the buttons of one report and the movement of
one; serial input alone makes a frame with the mouse's last buttons and none of
its movement. Of the endpoint there are `known`, `endpoint_ready` and the
controller's `primed` and `complete`. The loop goes through `reset`, `control`,
`data`, `check` and `process`, and through `configure` and `layout` when it blocks.
`parseMouseData()` reads the slot twice, buttons before movement, with the
interrupt free to overwrite it in between and before `reset()`.

`ReportChannel` is the abstract promise: reports may be lost or merged, but
buttons and movement reach the PC in order and no movement twice. Its `Repeat` is
allowed only while `loose`, to which `ReportPath` maps `overlapped`: a
`SET_CONFIGURATION` has rewritten the queue head under a primed frame and set
`endpoint_ready`, and no bus reset has come since.

What is assumed: claiming a mouse takes 100 ms and its first report at least a
microframe more, so the loop sees an unplug before the next claim and a mouse
before its first report, unless it is blocked; the PC stops polling before it
changes the configuration; rewriting a queue head under a primed frame may or may
not cancel it; a fetch of the report descriptor that fails gives the boot layout,
and so does one during which the mouse was swapped; every mouse has an HID
interface and the same endpoint number. The model starts when the loop has just
started the proxy.

### ButtonHandoff

One button, left or right, and the middle one, which opens the exclusion window.
`usbSlot` and `serialSlot` are the two slots `process()` finds, `option` the filter
`disablePassthroughForLMB`. `Frame` is a `process()` that sends: it filters the
mouse's button, then the serial line's, with the same `lastPressTime`, and hands
the results to the state machine of `processButtonHandoff()`, one action per case
(`HandoffIdle` to `HandoffUser`). `Discard` is a `process()` while the PC has not
configured the proxy. A `process()` that finds the endpoint busy changes nothing.
Time is counted in ticks; `millis()` of a moment is kept as an age that stays at
its bound, and the tick counter does not wrap.

### HIDReport

The parser's step is one Input item with what stands before it. `field` is what
the code finds, `layout` what the HID specification says of the same items.
`Report` is `process()` for a report of the mouse alone: extract, pass the first
`PassedButtons` buttons on, format, and write the byte of the buttons again. A report
has a `length` of its own, and `parseMouseData()` extracts nothing from one that is
`Short`. Buttons are neither filtered nor handed over here; `ButtonHandoff` has that. Bits, widths, signs, clamping, and the
16-bit and 8-bit fields of `MouseState` are modelled as they are, with bytes of
`ByteBits` bits.

### SerialRouter

A byte is the item it was sent in, its place, and its kind, which is what the
detection tells apart. `Check` is one call of `check()`: it takes from the port what
fits the buffer and routes it, at most one frame per call. The sender begins
frames and lines, stops in the middle of a line, and is not slowed down by a full
queue. `clean` are the items of which nobody could say that they were unclear
(a line that comes before the last one was handled is not clean, a frame after a
clean frame is), `fate` what became of them.

### FlashEEPROM, ConfigStore and ByteStore

`flash` has the words programmed in each sector, `sector_index` the count in RAM
that says how many of them `eeprom_read_byte()` looks at. `WriteWord` and `CountWord`
are two steps, and so are `EraseSector`, each `RewriteWord` and `RewriteDone`: with
interrupts on in between, a claim reads what is there, and the power may fail.
`ConfigStore` writes records with `PutByte`, in the order of the addresses; `Selected`
is what `claim()` would choose at this moment. A field is one byte, and a magic
number right or not. `Boot` counts the words of each sector again and loads the
debug mode.

`ByteStore` has `bytes` and `frail`, the addresses a power loss would erase.
`ConfigStore` maps `bytes` to what the flash will say after the step that is under
way (`Contents`), and `frail` to the bytes of a sector being rewritten that are not
back yet.

## 3. What is checked

| Run | Instance | Distinct states | Shows |
|---|---|---|---|
| `ControlEndpoint` | 2 SETUPs, 1 bus reset, 1 unplug | 1,170,084 | the properties of endpoint 0 |
| `DescriptorCache` | 2 models, 2 string slots, 3 strings, 2 plugs; symmetric in models and strings | 3,528,593 | the properties of the cache |
| `HostStream` | 4 transfers, 3 plugs, 5 SET_CONFIGURATIONs | 1,351 | the properties of the stream |
| `HostControl` | 4 requests, 2 plugs | 286,673 | the properties of control transfers, and that they implement `ControlCall` |
| `ReportPath` | 2 reports, 2 mice, 1 bus reset, 2 requests | 271,471 | the properties of the path, and that it implements `ReportChannel` |
| `ButtonHandoff` | all 4 options, a gap of 1 or 2 ticks, windows of 1 | 698,152 | the properties of the hand-off |
| `HIDReport` | 3 of 7 Input items, reports of up to 9 bits, bytes of 3, 2 buttons passed on | 491,874 | every report of every such descriptor reaches the PC, up to the named exceptions |
| `SerialRouter` | 3 items, frames of 2 bytes, a buffer of 5, a queue of 4 | 216,858 | the properties of the serial line |
| `ConfigStore` | 3 commands, 2 power losses, sectors of 2 words | 81,486 | the properties of the settings, and that the flash implements `ByteStore` |

The other three runs each check one statement of the repository that the code does
not keep, and end in its counterexample; see section 6.

### Properties

* `NoStaleReply`: whatever the PC can collect on endpoint 0 belongs to its latest
  request, however late a call to the mouse returned.
* `AckMeansAccepted`: an acknowledged forwarded request was carried out, unless it was
  on the control pipe together with another (`mixed`).
* `ConfigurationAgrees`: a PC that lets each reset be handled before it goes on,
  and thinks the device is configured, is right.
* `ForwardedOnce`: no request reaches the mouse twice.
* `RequestAnswered`: every SETUP is answered or refused, unless the PC moves on. The
  named exception, `AnsweredEmpty`, is a string descriptor whose first byte is 0: it is
  cut to nothing, only OUT is primed, and the PC waits for its data stage until it
  sends another SETUP, which is served. Only `EmptyReturned` leads there.
* `StaleOnlyIfTorn`: the cache has nothing of an earlier mouse. `WholeConfigServed`: the
  probe of a configuration is not served for the whole. `HitIsTheOneAsked`: what stands
  under a key is the descriptor the key names, unless it is the data of an earlier
  transfer that completed the fetch (`other`), which no later fetch replaces while the
  mouse stays.
* `StreamAlive`: between SET_CONFIGURATIONs a claimed mouse always has a transfer
  queued. `InFlightBounded`: it has more than one only by timed-out pauses.
  `PauseEnds`: a pause ends, even if the mouse never reports again.
* `AnswerIsOwnUnlessShared`: a call returns the answer to its own request.
  `DataIsOwnUnlessShared`: the mouse takes the data of the request whose SETUP packet it
  got. `ImplementsCall`: the refinement. `CallReturns`: every call returns.
* `BusyUnlessOverlapped`: an endpoint with a frame primed is not ready, so the
  buffer is not written. `EndpointAlive`: a configured endpoint that is not ready
  has something on the way that makes it ready. `OwnReportOwnLayout`: no frame
  carries movement of a mouse that is gone or was parsed with another's layout.
  `ImplementsChannel`: the refinement. `LastReportArrives`: what is in the slot
  reaches the PC or is superseded, so no button stays pressed.

* `NotStuck`: once both slots are empty, the PC sees a button pressed only if the
  user or the serial line holds it. `HandedOver`: a button the user took over stays
  the user's, and is not pressed before the gap has passed. `OnlyDoubleTaps`, an
  action property: under option 3 a slow press is in no frame. `HeldIsSeen`: a user
  who keeps holding a button on a mouse that keeps reporting is seen.
* `FrameMeansReport`: read by the mouse's own descriptor, the frame has the movement,
  clamped to its limits, and the first `PassedButtons` buttons of the report; of a report
  that is cut off, no movement and no buttons. `Supported`, with `Fits`, says which
  descriptors it speaks of.
* `CleanItemsTaken`: an undisturbed frame or line is handled as it was sent, and
  never as a part of another. `OverwrittenOnlyWhenBusy`: a burst of frames
  overwrites no mouse data. `BufferDrains`: nothing stays in the buffer but the
  beginning of a frame.
* `ClaimFollowsConfig`, `DebugModeAgrees`: what was last asked for is in force, in
  RAM and in the EEPROM. `ImplementsByteStore`: the refinement.

Where a property has an exception, a history variable names it and the property
shows that there is no other: `torn`, `mixed`, `forced`, `shared`, `overlapped`, `unseen`,
`given_up` (the endpoint is left without anything to make it ready: CLEAR_FEATURE
flushed a primed frame, or the configuration could not be read after a reset) and
`lost` (a report overwrote the slot between the parse of the buttons and
`reset()`), `lostUsb` and `lostSerial` (what a source last said was discarded: the PC
had not configured the proxy, or the mouse was unplugged), `claimBroken` and
`debugBroken` (the power failed in a command of that record), and `split` (a report
ID after an Input item: the code keeps one report's layout, with the last ID).

### Why the bounds are enough

Every hazard of the list is a meeting of two things: an abandoned request and its
successor, a reset and a request, an unplug and a fetch, an old transfer and a new
one. Two of each, and all their interleavings, reach them; for each property a
plausible bug in a mapped definition is found within these bounds (`mutants` in
`PROJECT.json`). `HostControl` has four requests because a second late completion
needs a third and a fourth to confuse. `HostStream` has five SET_CONFIGURATIONs
so that timed-out pauses exhaust the pool of four. `DescriptorCache` has more
strings than slots. `SerialRouter` has an item before and one after the one that is
looked at, a buffer that holds two frames and a part of a third, and a queue that
overflows before it. `ConfigStore` has sectors of two words, so that every third
write rewrites a sector, five of them so that each group of four bytes has its own, as
with 63, and two power losses, because the second may hit the repair of the first.
`ButtonHandoff` has no bound but the ages. `HIDReport` has bytes of three bits and fields
of one to four, so that fields cross a byte, share one, and fill one; one button more
than are passed on; and three items, which are the buttons, padding or wheel, and the
axes in any order. The proofs remove the bounds for the safety properties.

`CHECK_DEADLOCK FALSE` is given where the bounded instance really can stop: all
requests made, all reports sent, the last mouse unplugged, or the processor
restarted.

### Fairness

* `ControlEndpoint`: weak fairness of the firmware, since `loop()` never stops and
  its calls are bounded by 500 ms timeouts, and of the PC's tokens, which it
  repeats while it waits. None for SETUPs, resets or unplugs.
* `HostStream`: weak fairness of the polling thread. The wait of a pause ends
  after 20 ms. The mouse owes no report.
* `HostControl`: weak fairness of the call; no fairness of the mouse or of the
  controller.
* `ReportPath`: weak fairness of the loop, and of the PC reading the endpoint of a
  device it has configured.
* `SerialRouter`: weak fairness of `check()`, of `process()` and of time.
* `ButtonHandoff`: weak fairness of time; that the mouse keeps reporting is a premise
  of `HeldIsSeen`, because the gap ends only when a frame is made.

## 4. What is proved

`*Proofs.tla` hold for every value of the constants, from the named assumptions
of the modules (natural numbers; at least one SETUP, plug, string slot or mouse; at
least two transfers in the pool; a buffer longer than a frame; a sector with room
for all its bytes; the two records in sectors of their own; distinct marks). `theorems` in `PROJECT.json` lists the results.

* `ControlEndpointProofs`. `TypeInv` is the types with the fact that every request
  in sight is one the PC has made. On it stand four inductive invariants.
  `ReplyInv`: a request the firmware works on is the PC's latest unless a SETUP is
  unread, in which case the coming flush removes what is primed, so nothing stale
  is left when the SETUP has been read (`NoReplyIsStale`). `AckInv`: where the
  loop is tells the kind of its request, and an acknowledgement primed for a forwarded
  request means that the mouse accepted it, or that it was mixed up (`AcksAreHonest`).
  `SentInv`: a request at a place before its call has not been sent
  (`EachRequestForwardedOnce`). `ConfInv`: an unhandled reset means that the PC
  has not configured the device anew, unless it was too quick
  (`HostKnowsConfiguration`).
* `DescriptorCacheProofs`. `StaleInv`: every entry is of the current plug, and so is
  what the fetch buffer holds on its way into the cache (`CacheIsFresh`). `CacheInv`:
  the content of every entry is what its key names and, if it must be whole, whole, or
  it is the data of another transfer; and so is what a fetch holds for the key of the
  request that waits (`ProbeIsNotServed`, `HitIsRight`).
* `MouseReportProofs`, for `HostStream`. `StreamInv` relates the transfers in flight to the two flags
  and to the place of the thread: a queued transfer is missing only while a resume
  is about to queue it.
* `MouseReportProofs`, for `HIDReport`. `HIDTypeInv` is the types and that every place
  is inside the report, which keeps the sums of bits defined (`HIDTypeCorrect`).
  `LayoutInv` has five parts: `FieldsAreMeant`, what the parser has found is what the
  descriptor has, unless an axis is missing; `LayoutApart`, places are inside the part of
  the report parsed so far and do not overlap, unless a second report ID has set the
  counter back; `SizeIsMeant`; `FrameIsFormatted`; and the types of the descriptor's
  fields. With it, `FrameMeansTheReport` is a chain of lemmas on the operators: a value
  read is in the range of its place (`ExtractRange`), clamping keeps it there
  (`ClampHolds`), `MouseState` does not change it (`WrappedSame`), writing it leaves the
  bits of its place and no others (`FormatBits`), and reading them gives it back
  (`ExtractInverse`); the byte of the buttons, written last, has no other field
  (`ButtonsAreMeant`). The recursions behind it, powers of two and sums of bits, are shown
  to have a solution (`RecursionExists`), and their equations by induction: over a *set*
  of numbers (`NatSetInduction`), since the library's theorem takes an operator.
* `HostControlProofs`. `MixInv` and `UnsharedInv`: a queued transfer is alone and has
  `control_setup` and `control_buffer` to itself, or shares them with requests of
  `shared`. `CallInv`: of an unshared request nothing is queued before `Queue`, it alone
  afterwards, and nothing once it has completed (`AnswersAreOwn`, `DataAreOwn`).
  `OrderInv`: requests are queued in their order, each once. `ServedInv`: an unshared one
  that is queued, or still to come, has not been carried out, and one whose success
  `control()` has noted, once. Every step is then a step of `ControlCall` or leaves its
  variables alone (`CallRefinement`).
* `ReportPathProofs`. `EndInv`: ready, primed and completed exclude each other
  (`EndpointStaysAlive`, `BusyWhilePrimed`). `ChanInv`: the slot has the last report
  and the numbers of slot, frame, buffer and PC are ordered; with `EndInv` it is
  inductive, and every step is then a step of `ReportChannel` or leaves its
  variables alone (`ChannelRefinement`). `OwnInv`: while `check()` has seen every mouse
  come and go, the slot and the layout are those of the one plugged in
  (`OwnReports`).

* `ButtonHandoffProofs`. `WordInv` and `OutputInv`: the buttons taken last are what the
  source says, unless discarded or still in the slot, and `lastOutput` is what the
  state of the hand-off makes of them (`NothingStuck`). `HandedInv` relates `handed` to
  the state and the age of the gap (`HandoffHolds`). `SilentInv` and `TapInv`: with the
  serial line silent, `lastPressTime` is `None` only after a press that was not slow
  (`SlowPressHidden`).
* `SerialRouterProofs`. `CleanInv` speaks of `buf \o rx`, which `check()` only moves
  along: items are in order (`OrderInv`), a clean one has all its bytes there or is
  handled (`SizeInv`, `FateInv`), clean frames stand at multiples of the frame length
  (`FrameInv`), and a clean line is alone (`LineInv`). `FramingHolds` follows.
  `SlotInv`: the slot is empty or held when `check()` is called (`NoBurstOverwrites`).
* `ConfigStoreProofs`. `IndexInv` and `RewriteInv`: the index is the length of the log
  except in the step after a word, and a rewritten sector has the words not left.
  `Will(a, v)` says that an address has a value or a pending `put()` will give it one;
  `ClaimInv` and `DebugInv` are the two records in these terms (`ClaimSurvives`,
  `DebugModeSurvives`). The lemmas `WriteEffect`, `SettleEffect`, `LossEffect` and
  `BootEffect` say what each step does to `Contents` and `Frail`, and give `Refinement`.

The invariants are needed because none of the properties is inductive: each
speaks of what the PC or the caller sees, and holds because of where the loop is
when it gets there.

Only model-checked: the liveness properties (`RequestAnswered`, `PauseEnds`,
`CallReturns`, `LastReportArrives`, `BufferDrains`, `HeldIsSeen`), which need fairness
and ENABLED, out of the prover's reach; and the counterexamples of section 6. Every
other property of section 3 is a theorem as well.

One proof changed a property. `FrameMeansReport` was first stated for every axis of at
most 16 bits and every wheel of at most 8, and the proof asked for more: `MouseState` has
a sign, so that an unsigned axis of full width turns negative on its way (TLC shows it
with a wheel of one byte), and a limit that the bits of a field cannot hold is cut off
when it is clamped to. `Fits` names the two exceptions. `PassedButtons` is another: the
loop of `process()` over the button masks ends at 0x10.

## 5. What is not modelled

* Movement: the sum of mouse and serial movement, the sensitivity reduction, the
  movement budget of `AntiDetect`, wheel lock, log text. No control state depends on
  them. In `ReportPath` a report is its number; `ButtonHandoff` has its buttons and
  `HIDReport` its bits.
* What a mouse's data are when they are not what was asked for: in `DescriptorCache` all of
  it is `other`, in `ControlEndpoint` requests that were mixed up have no record.
* Bytes: `parseDescriptors()` and `parseConfigurationDescriptor()`, except for their
  outcome (parsed, failed). Of the report descriptor, the encoding of the items and
  the end of a collection, which drops the usages seen so far. A field is read whole;
  the code stops at its 32nd bit, which only an unsupported descriptor reaches.
* The buttons 4 and 5 go through the filter of `ButtonHandoff` and no hand-off; they are
  not modelled apart.
* OUT data endpoints, which the code configures and never reads, and IN endpoints
  other than the mouse's.
* `setup()`, and errors of the host controller on the periodic pipe. In
  `HostControl` the data and status stages of a transfer are one step, and so is the
  writing of `control_setup`.
* The text commands, except those that write the EEPROM: they print. Of the serial
  frames, what a settings frame sets beyond a button's option.
* The log-channel record of the EEPROM: logging is compiled out (`SUNBOX_LOGGING` is
  0), and nothing calls `writeLogChannels()` or `clearAll()`.
* The vendored USBHost_t36 and Teensy core, except for what the project relies on:
  callbacks come in the interrupt, transfers of a pipe complete in order, removing
  a device frees its transfers without calling back, the pool of transfers is
  finite, a null pointer faults and the fault handler restarts the processor; and for
  `eeprom.c`, which `FlashEEPROM` models whole, down to the programming of a word.
* All else under `src/` is the vendored Teensy core with its libraries, examples, fonts
  and images, no part of this program.

## 6. Where the code and its documents disagree

Each is the counterexample of a run; `findings` in `PROJECT.json` quotes the lines.

| Run | Statement | What the code does |
|---|---|---|
| `ControlEndpointReport` | data is received first, then forwarded | `SET_REPORT` is forwarded in the same `poll()` that primes the receive, with an earlier report's data |
| `DescriptorCacheShort` | only full-length responses are cached | device and string descriptors are cached whatever their length |
| `ButtonHandoffWindow` | side buttons are excluded while the middle button's window lasts | only the first frame of a press is filtered; the next report of the same press passes |

Five more disagreements are seen in the models, each as the named exception of a
property that holds:

* `SET_ADDRESS` acknowledges before it stages the address, though the comment at
  `src/USBDeviceProxy.cpp:645` says that the address takes effect after the status
  stage: a quick PC finishes the status stage first (`StageAddress`).
* A request for more bytes than a descriptor has is answered with as many bytes as it
  asked for, though `usb-proxy-dev-guide.md:78` says that descriptors are passed on
  one to one: `control()` takes the length asked for as the length received
  (`FetchedLength`).
* A pause that times out leaves its transfer queued, and the resume queues a second
  one into the same buffer, though `src/USBHostDriver.cpp:655` says that the wait
  ensures completion (`forced`, in `InFlightBounded`).
* The late completion of a timed-out transfer completes the next request, though the
  log line at `src/USBHostDriver.cpp:615` says that the callback knows its own
  (`shared`, in `AnswerIsOwnUnlessShared`). For the PC this is an acknowledgement of what
  the mouse has not done (`mixed`, in `AckMeansAccepted`), or one descriptor cached and
  served as another (`other`, in `HitIsTheOneAsked`).
* Buttons 6 to 8 never reach the PC, though `MouseState` (`src/HIDMouseDescriptorHandler.h:81`)
  has them and the frame has room: `process()` passes five masks on (`PassedButtons`, in
  `FrameMeansReport`). And a report that is too short gives the PC a frame in which all
  buttons are released, because the result of `parseMouseData()` is not looked at.

## 7. Plan

Done, in this order: `ControlEndpoint` (what the PC sees first, and where most
handlers meet), `DescriptorCache`, `HostStream`, `HostControl` and `ControlCall` (the two
halves of the host driver, which the first two take as an environment), `ReportChannel` and
`ReportPath` (the purpose of the device), `SerialRouter`, `FlashEEPROM`, `ByteStore`
and `ConfigStore`, `ButtonHandoff` and `HIDReport`; all with their proofs.

Left:

1. `ProxySystem`: the sketch's set-up and loop over `ControlEndpoint`'s interface and
   `ControlCall`, in place of what `ControlEndpoint`, `DescriptorCache` and
   `ReportPath` assume of the call.
2. The endpoint mapped once at start-up (`SunshineUSBProxy.ino:159`), stale for a
   mouse with another endpoint number, and the device reference that the claim of a
   second device, behind a hub, overwrites (`src/USBHostDriver.cpp:72`).
3. The sensitivity reduction and its remainders, as functions on small integers.

## Running it

    tlc -workers 2 -config ReportPath.cfg MCReportPath.tla
    tlapm ReportPathProofs.tla

TLC needs up to four minutes for a run; the proofs of `ControlEndpointProofs` are
the longest, those of the other modules take one to two minutes each.
