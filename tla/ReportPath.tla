------------------------------ MODULE ReportPath ------------------------------
(***************************************************************************)
(* The way of a mouse report to the PC: the USB host interrupt puts it     *)
(* into the one slot of SunBoxUSBMouseDataHandler; the loop takes it from  *)
(* there, mixes it with serial input and primes the PC-facing endpoint     *)
(* (SunBoxSyntheticHandleOutput, USBDeviceProxy); the PC reads it.  The    *)
(* same loop serves the bus resets, SET_CONFIGURATIONs and CLEAR_FEATUREs  *)
(* that make and break that endpoint.                                      *)
(*                                                                         *)
(* Reports are numbered, over all mice.  A frame has the buttons of one    *)
(* report and the movement of one; 0 stands for none.                      *)
(***************************************************************************)
EXTENDS Naturals

CONSTANTS MaxReports,   \* how many reports the mice send
          MaxMice,      \* how many mice are plugged in, one after the other
          MaxResets,    \* how often the PC resets the bus
          MaxRequests   \* how many SET_CONFIGURATIONs and CLEAR_FEATUREs it sends

ASSUME PathAssumption ==
  /\ MaxReports \in Nat /\ MaxMice \in Nat \ {0}
  /\ MaxResets \in Nat /\ MaxRequests \in Nat

VARIABLES
  \* the mouse behind USBHostDriver
  plugged,        \* hostDriver.isReady()
  generation,     \* which mouse it is, or was
  since,          \* history: the last report before this mouse's first
  reported,       \* the number of the last report
  \* SunBoxUSBMouseDataHandler
  rawData, dataAvailable,
  detected,       \* the mouse check() saw; 0: deviceReady is false
  layout,         \* whose report descriptor the reports are parsed with; 0: boot protocol
  \* SunBoxSyntheticHandleOutput
  taken,          \* [buttons, move]: the frame being made
  previousUsbState,
  \* USBDeviceProxy
  configured,     \* device_state = STATE_CONFIGURED
  known,          \* endpoints[] has the mouse's endpoint, configured
  endpoint_ready,
  in_buffer,      \* the frame in proxy_in_buffers
  \* the controller and the PC
  primed, complete, reset_pending,
  polling,        \* the PC has configured the device and polls the endpoint
  received,       \* history: the last buttons and movement the PC got
  left,           \* what the bounds still allow: [resets, requests]
  \* histories
  repeats,        \* how many movements the PC got twice
  unseen,         \* a mouse has come or gone within a blocking call, unseen by check()
  overlapped,     \* a SET_CONFIGURATION left a frame primed on a ready endpoint
  given_up,       \* the endpoint was left with nothing to make it ready again
  lost,           \* reports whose buttons were overlooked between parse and reset
  pc              \* where the loop is

mouseVars  == <<plugged, generation, since, reported>>
slotVars   == <<rawData, dataAvailable>>
handlerVars == <<detected, layout, unseen>>
outputVars == <<taken, previousUsbState, in_buffer>>
proxyVars  == <<configured, known, endpoint_ready>>
pcVars     == <<polling, received, repeats>>
vars == <<plugged, generation, since, reported, rawData, dataAvailable, detected, layout,
          taken, previousUsbState, configured, known, endpoint_ready, in_buffer,
          primed, complete, reset_pending, polling, received, left, repeats, unseen,
          overlapped, given_up, lost, pc>>

Frame == [buttons : 0..MaxReports, move : 0..MaxReports]
NoFrame == [buttons |-> 0, move |-> 0]
Boot == 0
\* Inside a control transfer to the mouse, which may last as long as a replug.
Blocked == {"configure", "layout"}
Places == {"reset", "control", "data", "check", "process", "buttons", "move", "clear",
           "copy", "prime"} \cup Blocked

TypeOK ==
  /\ plugged \in BOOLEAN /\ generation \in 1..MaxMice
  /\ since \in 0..MaxReports /\ reported \in 0..MaxReports
  /\ rawData \in 0..MaxReports /\ dataAvailable \in BOOLEAN
  /\ detected \in 0..MaxMice /\ layout \in 0..MaxMice
  /\ taken \in Frame /\ previousUsbState \in 0..MaxReports /\ in_buffer \in Frame
  /\ configured \in BOOLEAN /\ known \in BOOLEAN /\ endpoint_ready \in BOOLEAN
  /\ primed \in BOOLEAN /\ complete \in BOOLEAN /\ reset_pending \in BOOLEAN
  /\ polling \in BOOLEAN /\ received \in Frame
  /\ left \in [resets : 0..MaxResets, requests : 0..MaxRequests]
  /\ repeats \in Nat
  /\ unseen \in BOOLEAN /\ overlapped \in BOOLEAN /\ given_up \in BOOLEAN
  /\ lost \in SUBSET (1..MaxReports) /\ pc \in Places

\* The first mouse is ready, and loop() has just started the proxy.
Init ==
  /\ plugged = TRUE /\ generation = 1 /\ since = 0 /\ reported = 0
  /\ rawData = 0 /\ dataAvailable = FALSE
  /\ detected = 1 /\ layout \in {Boot, 1}
  /\ taken = NoFrame /\ previousUsbState = 0 /\ in_buffer = NoFrame
  /\ configured = FALSE /\ known = FALSE /\ endpoint_ready = FALSE
  /\ primed = FALSE /\ complete = FALSE /\ reset_pending = FALSE
  /\ polling = FALSE /\ received = NoFrame
  /\ left = [resets |-> MaxResets, requests |-> MaxRequests]
  /\ repeats = 0 /\ overlapped = FALSE /\ given_up = FALSE /\ lost = {}
  /\ unseen = FALSE /\ pc = "reset"

-----------------------------------------------------------------------------
(***************************************************************************)
(* The USB host interrupt.  An enumeration takes 100 ms and a first report *)
(* at least a microframe more: the loop, unless it is blocked, has seen    *)
(* the unplug before the next mouse is claimed, and the mouse before it    *)
(* reports.                                                                *)
(***************************************************************************)
Plug ==
  /\ ~plugged /\ generation < MaxMice
  /\ detected = 0 \/ pc \in Blocked
  /\ plugged' = TRUE /\ generation' = generation + 1 /\ since' = reported
  /\ unseen' = (unseen \/ detected # 0)
  /\ UNCHANGED <<reported, slotVars, detected, layout, outputVars, proxyVars, primed, complete,
                 reset_pending, pcVars, left, overlapped, given_up, lost, pc>>

Unplug ==
  /\ plugged /\ plugged' = FALSE
  /\ unseen' = (unseen \/ detected = 0)
  /\ UNCHANGED <<generation, since, reported, slotVars, detected, layout, outputVars, proxyVars,
                 primed, complete, reset_pending, pcVars, left, overlapped, given_up, lost, pc>>

\* (mutant) The slot is one report ahead.
ReportAhead ==
  /\ plugged /\ reported < MaxReports
  /\ detected # 0 \/ pc \in Blocked
  /\ reported' = reported + 1
  /\ rawData' = reported + 2 /\ dataAvailable' = TRUE
  /\ UNCHANGED <<plugged, generation, since, handlerVars, outputVars, proxyVars, primed,
                 complete, reset_pending, pcVars, left, overlapped, given_up, lost, pc>>

\* dataCallback(): overwrites the slot.  Between the parsing of the buttons and
\* the reset of the flag that is too late.
Report ==
  /\ plugged /\ reported < MaxReports
  /\ detected # 0 \/ pc \in Blocked
  /\ reported' = reported + 1
  /\ rawData' = reported + 1 /\ dataAvailable' = TRUE
  /\ lost' = IF pc \in {"move", "clear"} THEN lost \cup {reported + 1} ELSE lost
  /\ UNCHANGED <<plugged, generation, since, handlerVars, outputVars, proxyVars, primed,
                 complete, reset_pending, pcVars, left, overlapped, given_up, pc>>

-----------------------------------------------------------------------------
(***************************************************************************)
(* The PC and the controller.                                              *)
(***************************************************************************)
Again == in_buffer.move > 0 /\ in_buffer.move = received.move

HostReads ==
  /\ polling /\ primed
  /\ primed' = FALSE /\ complete' = TRUE
  /\ received' = [buttons |-> in_buffer.buttons,
                  move |-> IF in_buffer.move > 0 THEN in_buffer.move ELSE received.move]
  /\ repeats' = IF Again THEN repeats + 1 ELSE repeats
  /\ UNCHANGED <<mouseVars, slotVars, handlerVars, outputVars, proxyVars, reset_pending,
                 polling, left, overlapped, given_up, lost, pc>>

HostReset ==
  /\ left.resets > 0 /\ left' = [left EXCEPT !.resets = @ - 1]
  /\ reset_pending' = TRUE /\ polling' = FALSE
  /\ UNCHANGED <<mouseVars, slotVars, handlerVars, outputVars, proxyVars, primed, complete,
                 received, repeats, overlapped, given_up, lost, pc>>

-----------------------------------------------------------------------------
(***************************************************************************)
(* The loop: USBDeviceProxy::poll().                                       *)
(***************************************************************************)
LoopUnchanged == UNCHANGED <<mouseVars, received, repeats>>

NoReset ==
  /\ pc = "reset" /\ ~reset_pending /\ pc' = "control"
  /\ LoopUnchanged
  /\ UNCHANGED <<slotVars, handlerVars, outputVars, proxyVars, primed, complete,
                 reset_pending, polling, left, overlapped, given_up, lost>>

\* handleUSBReset(), as far as data endpoints go.  endpoints[] is kept.
HandleReset ==
  /\ pc = "reset" /\ reset_pending /\ pc' = "control"
  /\ reset_pending' = FALSE /\ complete' = FALSE /\ primed' = FALSE
  /\ configured' = FALSE /\ endpoint_ready' = FALSE /\ overlapped' = FALSE
  /\ LoopUnchanged
  /\ UNCHANGED <<slotVars, handlerVars, outputVars, known, polling, left, given_up, lost>>

ControlUnchanged ==
  LoopUnchanged /\ UNCHANGED <<slotVars, handlerVars, outputVars, complete, reset_pending, lost>>

NoRequest ==
  /\ pc = "control" /\ pc' = "data"
  /\ ControlUnchanged
  /\ UNCHANGED <<proxyVars, primed, polling, left, overlapped, given_up>>

\* handleClearFeature(): the flush takes a primed frame away and leaves
\* endpoint_ready as it was.
ClearFeature ==
  /\ pc = "control" /\ plugged /\ polling /\ left.requests > 0
  /\ pc' = "data" /\ left' = [left EXCEPT !.requests = @ - 1]
  /\ primed' = FALSE
  /\ given_up' = (given_up \/ primed)
  /\ ControlUnchanged /\ UNCHANGED <<proxyVars, polling, overlapped>>

\* The PC stops polling before it changes the configuration.
SetConfiguration ==
  /\ pc = "control" /\ plugged /\ left.requests > 0
  /\ pc' = "configure" /\ left' = [left EXCEPT !.requests = @ - 1]
  /\ polling' = FALSE
  /\ ControlUnchanged /\ UNCHANGED <<proxyVars, primed, overlapped, given_up>>

ConfigureUnchanged == pc = "configure" /\ pc' = "data" /\ ControlUnchanged /\ UNCHANGED left

\* The mouse refused it, or it was SET_CONFIGURATION(0): device_state and the
\* endpoints stay as they are.
ConfigKept ==
  ConfigureUnchanged /\ UNCHANGED <<proxyVars, primed, polling, overlapped, given_up>>

\* parseConfigurationDescriptor() and configureAllEndpoints().  The queue head
\* is rewritten under a frame that may still be primed.
ConfigParsed ==
  /\ ConfigureUnchanged
  /\ configured' = TRUE /\ known' = TRUE /\ endpoint_ready' = TRUE
  /\ primed' \in {primed, FALSE} /\ overlapped' = (overlapped \/ primed')
  /\ given_up' = FALSE
  /\ polling' = ~reset_pending

\* The descriptor could not be fetched: endpoints[] is that of before, with
\* configured set, so configureAllEndpoints() does nothing.
ConfigUnparsed ==
  /\ ConfigureUnchanged
  /\ configured' = TRUE
  /\ given_up' = (given_up \/ ~configured)
  /\ polling' = ~reset_pending
  /\ UNCHANGED <<known, endpoint_ready, primed, overlapped>>

\* (mutant) The completion is cleared and forgotten.
NowReady == endpoint_ready

\* A completed transfer makes its endpoint ready.
Ready == endpoint_ready \/ (complete /\ known)

\* pollDataEndpoints()
PollDataEndpoints ==
  /\ pc = "data" /\ pc' = "check"
  /\ IF configured
     THEN endpoint_ready' = Ready /\ complete' = FALSE
     ELSE UNCHANGED <<endpoint_ready, complete>>
  /\ LoopUnchanged
  /\ UNCHANGED <<slotVars, handlerVars, outputVars, configured, known, primed, reset_pending,
                 polling, left, overlapped, given_up, lost>>

-----------------------------------------------------------------------------
(***************************************************************************)
(* The loop: SunBoxUSBMouseDataHandler::check().                           *)
(***************************************************************************)
CheckUnchanged ==
  /\ LoopUnchanged
  /\ UNCHANGED <<rawData, outputVars, proxyVars, primed, complete, reset_pending, polling,
                 left, overlapped, given_up, lost>>

\* A new mouse: its report descriptor is fetched.
Detect ==
  /\ pc = "check" /\ detected = 0 /\ plugged
  /\ detected' = generation /\ pc' = "layout"
  /\ CheckUnchanged /\ UNCHANGED <<dataAvailable, layout, unseen>>

\* (mutant) The slot is left as it is.
MouseGoneKeepsSlot == detected' = 0 /\ unseen' = FALSE /\ UNCHANGED dataAvailable

\* The device is not ready any more.
MouseGone == detected' = 0 /\ dataAvailable' = FALSE /\ unseen' = FALSE

\* The fetch is over; if it failed, as it does when another mouse has come
\* meanwhile, the boot protocol is assumed.  The second half of check() follows
\* at once.
LayoutDone ==
  /\ pc = "layout" /\ pc' = "process"
  /\ layout' \in IF generation = detected THEN {Boot, detected} ELSE {Boot}
  /\ IF plugged THEN UNCHANGED <<detected, dataAvailable, unseen>> ELSE MouseGone
  /\ CheckUnchanged

CheckGone ==
  /\ pc = "check" /\ detected # 0 /\ ~plugged /\ pc' = "process"
  /\ MouseGone
  /\ CheckUnchanged /\ UNCHANGED layout

NothingNew ==
  /\ pc = "check" /\ (detected # 0) = plugged /\ pc' = "process"
  /\ CheckUnchanged /\ UNCHANGED <<dataAvailable, handlerVars>>

-----------------------------------------------------------------------------
(***************************************************************************)
(* The loop: SunBoxSyntheticHandleOutput::process().  serial: the serial   *)
(* line has input for this frame.                                          *)
(***************************************************************************)
ProcessUnchanged ==
  /\ LoopUnchanged
  /\ UNCHANGED <<rawData, handlerVars, configured, known, complete, reset_pending, polling,
                 left, overlapped, given_up, lost>>

NoInput ==
  /\ pc = "process" /\ pc' = "reset"
  /\ ~dataAvailable
  /\ ProcessUnchanged /\ UNCHANGED <<dataAvailable, outputVars, endpoint_ready, primed>>

\* The PC has not configured the device: what there is, is dropped.
Discard ==
  /\ pc = "process" /\ pc' = "reset"
  /\ dataAvailable /\ ~configured
  /\ dataAvailable' = FALSE
  /\ ProcessUnchanged /\ UNCHANGED <<outputVars, endpoint_ready, primed>>

\* (mutant) A frame is made although the endpoint is busy.
MayMakeFrameBusy == configured

MayMakeFrame == configured /\ known /\ endpoint_ready

\* (mutant) What a busy endpoint cannot take is dropped.
WaitDrops ==
  /\ pc = "process" /\ pc' = "reset"
  /\ configured /\ ~MayMakeFrame
  /\ dataAvailable' = FALSE
  /\ ProcessUnchanged /\ UNCHANGED <<outputVars, endpoint_ready, primed>>

\* The endpoint is busy: the input waits.
Wait ==
  /\ pc = "process" /\ pc' = "reset"
  /\ configured /\ ~MayMakeFrame
  /\ ProcessUnchanged /\ UNCHANGED <<dataAvailable, outputVars, endpoint_ready, primed>>

TakeReport ==
  /\ pc = "process" /\ pc' = "buttons"
  /\ dataAvailable /\ MayMakeFrame
  /\ ProcessUnchanged /\ UNCHANGED <<dataAvailable, outputVars, endpoint_ready, primed>>

\* Serial input alone: the buttons the mouse had last, and none of its movement.
TakeSerial ==
  /\ pc = "process" /\ pc' = "copy"
  /\ ~dataAvailable /\ MayMakeFrame
  /\ taken' = [buttons |-> previousUsbState, move |-> 0]
  /\ ProcessUnchanged
  /\ UNCHANGED <<dataAvailable, previousUsbState, in_buffer, endpoint_ready, primed>>

\* parseMouseData(), with the slot open to the interrupt; then reset().
ParseButtons ==
  /\ pc = "buttons" /\ pc' = "move"
  /\ taken' = [buttons |-> rawData, move |-> 0]
  /\ ProcessUnchanged
  /\ UNCHANGED <<dataAvailable, previousUsbState, in_buffer, endpoint_ready, primed>>

ParseMove ==
  /\ pc = "move" /\ pc' = "clear"
  /\ taken' = [taken EXCEPT !.move = rawData]
  /\ ProcessUnchanged
  /\ UNCHANGED <<dataAvailable, previousUsbState, in_buffer, endpoint_ready, primed>>

\* (mutant) The flag is not reset.
ResetNothing == UNCHANGED dataAvailable

ResetFlag == dataAvailable' = FALSE

Reset ==
  /\ pc = "clear" /\ pc' = "copy"
  /\ ResetFlag
  /\ ProcessUnchanged /\ UNCHANGED <<outputVars, endpoint_ready, primed>>

\* sendDataOnEndpoint(): the copy into the buffer, then the prime.
Copy ==
  /\ pc = "copy" /\ pc' = "prime"
  /\ in_buffer' = taken
  /\ ProcessUnchanged
  /\ UNCHANGED <<dataAvailable, taken, previousUsbState, endpoint_ready, primed>>

Prime ==
  /\ pc = "prime" /\ pc' = "reset"
  /\ primed' = TRUE /\ endpoint_ready' = FALSE
  /\ previousUsbState' = taken.buttons
  /\ ProcessUnchanged /\ UNCHANGED <<dataAvailable, taken, in_buffer>>

-----------------------------------------------------------------------------
Environment == Plug \/ Unplug \/ Report \/ HostReads \/ HostReset
Poll == \/ NoReset \/ HandleReset \/ NoRequest \/ ClearFeature \/ SetConfiguration
        \/ ConfigKept \/ ConfigParsed \/ ConfigUnparsed \/ PollDataEndpoints
Check == Detect \/ LayoutDone \/ CheckGone \/ NothingNew
Process == \/ NoInput \/ Discard \/ Wait \/ TakeReport \/ TakeSerial
           \/ ParseButtons \/ ParseMove \/ Reset \/ Copy \/ Prime
Loop == Poll \/ Check \/ Process
Next == Environment \/ Loop

Spec == Init /\ [][Next]_vars

\* The loop never stops, its calls to the mouse time out; the PC polls the
\* endpoint of a device it has configured.
FairSpec == Spec /\ WF_vars(Loop) /\ WF_vars(HostReads)

-----------------------------------------------------------------------------
(***************************************************************************)
(* Properties.                                                             *)
(***************************************************************************)
\* The reports are carried by a ReportChannel: in order, and no movement twice,
\* however the interrupt, the loop and the PC interleave.  A SET_CONFIGURATION
\* that leaves a frame primed loosens it until the next bus reset.
Channel == INSTANCE ReportChannel WITH loose <- overlapped
ImplementsChannel == Channel!Spec

\* The comment at USBDeviceProxy.cpp line 1317, busy until complete, holds unless
\* a SET_CONFIGURATION has left a frame primed: nothing is written into a buffer
\* the controller may still be sending.
BusyUnlessOverlapped == primed /\ ~overlapped => ~endpoint_ready

\* A configured endpoint that is not ready has something on the way that will
\* make it ready, unless CLEAR_FEATURE took it away or the configuration could
\* not be read: no other order of resets, configurations, completions and frames
\* silences the mouse.
EndpointAlive == configured /\ ~endpoint_ready => primed \/ complete \/ given_up

\* No frame carries movement of a mouse that is gone, and no report is parsed
\* with the layout of another mouse, unless a mouse came or went unseen by check(),
\* within one blocking call.
OwnReportOwnLayout ==
  ~unseen =>
    /\ pc \in {"move", "clear"} => layout \in {Boot, generation}
    /\ pc \in {"clear", "copy"} /\ taken.move > 0 => taken.move > since

\* The state the mouse reported last reaches the PC, so no button stays pressed:
\* a report is delivered or superseded, unless it falls between the parse of the
\* one before it and reset(), or the endpoint goes away.
Live == configured /\ polling /\ plugged /\ ~given_up
LastReportArrives ==
  \A n \in 1..MaxReports :
    (dataAvailable /\ rawData = n /\ Live) ~> (received.buttons >= n \/ n \in lost \/ ~Live)
=============================================================================
