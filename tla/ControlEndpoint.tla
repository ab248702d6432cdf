--------------------------- MODULE ControlEndpoint ---------------------------
(***************************************************************************)
(* Endpoint 0 of the PC-facing side: USBDeviceProxy::poll() and everything *)
(* it calls for control transfers.  Three parties act on it:               *)
(*                                                                         *)
(*   - the PC (the USB host), which may abandon a request for a new SETUP  *)
(*     or a bus reset at any moment, and collects or delivers the data and *)
(*     status stages by itself as soon as the controller is primed;        *)
(*   - the firmware, one thread, which polls the controller's registers    *)
(*     and blocks in USBHostDriver::controlTransfer() while the mouse      *)
(*     answers a forwarded request;                                        *)
(*   - the mouse, which carries out what is on its control pipe, also a    *)
(*     request that the firmware has given up, or loses it, or is          *)
(*     unplugged.                                                          *)
(*                                                                         *)
(* The PC and the mouse go on while the firmware is blocked: a SETUP or a  *)
(* bus reset may be waiting when the call returns.  One action is one      *)
(* register-level handler, up to the next blocking call.  Of the call      *)
(* itself, controlTransfer(), it is assumed what ControlCall promises of   *)
(* it, which HostControl implements.                                       *)
(***************************************************************************)
EXTENDS Naturals, FiniteSets

CONSTANTS MaxSetups,   \* how many SETUP packets the PC sends
          MaxResets,   \* how many times the PC resets the bus
          MaxUnplugs   \* how many times the mouse is unplugged

ASSUME BoundsAssumption ==
  /\ MaxSetups \in Nat \ {0}
  /\ MaxResets \in Nat
  /\ MaxUnplugs \in Nat

(***************************************************************************)
(* Requests.  A request is what the proxy's dispatch can tell apart, with  *)
(* the number of the SETUP that carried it (a history number: no code      *)
(* reads it).                                                              *)
(***************************************************************************)
Kinds == {"GetDescriptor",  \* standard IN request whose answer may be cached
          "GetOther",       \* any other IN request with a data stage
          "NoData",         \* forwarded request with wLength = 0
          "SetConfig", "SetAddress",
          "SetIdle", "ClearHalt",      \* acknowledged locally
          "Qualifier", "OutData",      \* refused locally
          "SetReport"}                 \* HID SET_REPORT with wLength > 0

ValuesOf(k) == CASE k = "SetConfig"  -> {0, 1}
                 [] k = "SetAddress" -> {1}
                 [] OTHER            -> {0}

NoRequest == [id |-> 0, kind |-> "none", val |-> 0]
Request == [id : 1..MaxSetups, kind : Kinds, val : {0, 1}] \cup {NoRequest}

\* A primed transfer descriptor: what it does and the request it is for.
Slot == [what : {"none", "data", "ack"}, for : Request]
NoSlot == [what |-> "none", for |-> NoRequest]

\* Requests on the control pipe that no SETUP waits for any more, or ever did: the code
\* reads descriptors on its own account too.
Leftover == 0

\* The kinds whose acknowledgement stands for the mouse having done them.
AckedAfterForward == {"NoData", "SetConfig"}

VARIABLES
  \* the PC
  host,        \* [req, phase, addr, conf, late]: its view of the device
  \* registers of the USB device controller
  sts,         \* USB1_USBSTS: SUBSET {"UI", "URI"}
  setupstat,   \* USB1_ENDPTSETUPSTAT: an unread SETUP is in the queue head
  primeIn,     \* what is primed on endpoint 0 IN
  primeOut,    \* what is primed on endpoint 0 OUT
  complete,    \* USB1_ENDPTCOMPLETE, endpoint 0 bits
  stalled,     \* USB1_ENDPTCTRL0 stall bits
  devAddr,     \* [addr, staged]: USB1_DEVICEADDR and its holding register
  \* members of USBDeviceProxy
  device_state, device_address, configuration_value,
  control_stage, notify,
  pending_setup, pending_setup_saved, pending_has_data,
  setup_data_buffer,   \* the id of the request whose report data it holds
  \* the firmware thread
  pc, seen,
  \* the mouse behind USBHostDriver
  ready,       \* hostDriver->isReady()
  pipe,        \* what it may still carry out: the id of the call's request, Leftover
  mixed,       \* history: ids of the requests that came upon a Leftover
  accepted,    \* history: ids of the other requests that it carried out during their call
  sent,        \* [id -> how often it was forwarded]
  sentReport,  \* id of the data forwarded with the last SET_REPORT
  left         \* what the bounds still allow: [resets, unplugs]

hostVars  == <<host, left>>
regVars   == <<sts, setupstat, primeIn, primeOut, complete, stalled, devAddr>>
stateVars == <<device_state, device_address, configuration_value>>
stageVars == <<control_stage, notify, pending_setup, pending_setup_saved,
               pending_has_data>>
mouseVars == <<ready, pipe, accepted, mixed, sent, sentReport>>
vars == <<host, left, sts, setupstat, primeIn, primeOut, complete, stalled,
          devAddr, device_state, device_address, configuration_value,
          control_stage, notify, pending_setup, pending_setup_saved,
          pending_has_data, setup_data_buffer, pc, seen,
          ready, pipe, accepted, mixed, sent, sentReport>>

DeviceStates == {"ATTACHED", "DEFAULT", "ADDRESS", "CONFIGURED"}
Stages == {"IDLE", "SETUP", "DATA_IN", "DATA_OUT", "STATUS_OUT"}
Phases == {"none", "dataIn", "dataOut", "statusIn", "statusOut", "done", "stalled"}
Waiting == {"dataIn", "dataOut", "statusIn", "statusOut"}
\* Where the firmware thread is; the last six are inside a blocking call.
Calls == {"callConfig", "callParse", "callGet", "callNoData",
          "throttleReport", "callReport"}
Places == {"top", "irq", "reset", "setup", "address", "complete", "process"} \cup Calls

HostOK == host \in [req : Request, phase : Phases, addr : {0, 1}, conf : BOOLEAN,
                    late : BOOLEAN]
LeftOK == left \in [resets : 0..MaxResets, unplugs : 0..MaxUnplugs]
SlotsOK == primeIn \in Slot /\ primeOut \in Slot
RegsOK ==
  /\ sts \in SUBSET {"UI", "URI"}
  /\ setupstat \in BOOLEAN
  /\ complete \in SUBSET {"IN", "OUT"}
  /\ stalled \in BOOLEAN
DevAddrOK == devAddr \in [addr : {0, 1}, staged : {0, 1}]
StateOK ==
  /\ device_state \in DeviceStates
  /\ device_address \in {0, 1}
  /\ configuration_value \in {0, 1}
StageOK ==
  /\ control_stage \in Stages
  /\ notify \in SUBSET {"IN", "OUT"}
  /\ pending_setup \in Request /\ pending_setup_saved \in Request
  /\ pending_has_data \in BOOLEAN
  /\ setup_data_buffer \in 0..MaxSetups
  /\ pc \in Places
  /\ seen \in SUBSET {"UI", "URI"}
MouseOK ==
  /\ ready \in BOOLEAN
  /\ pipe \in SUBSET (0..MaxSetups) /\ mixed \in SUBSET (1..MaxSetups)
  /\ accepted \in SUBSET (1..MaxSetups)
  /\ sent \in [1..MaxSetups -> Nat]
  /\ sentReport \in 0..MaxSetups

VarsOK == /\ HostOK /\ LeftOK /\ SlotsOK /\ RegsOK /\ DevAddrOK
          /\ StateOK /\ StageOK /\ MouseOK

\* And the firmware calls the mouse for a request only.
TypeOK == VarsOK /\ (pc \in Calls => pending_setup.id # 0)

Init ==
  /\ host = [req |-> NoRequest, phase |-> "none", addr |-> 0, conf |-> FALSE,
             late |-> FALSE]
  /\ left = [resets |-> MaxResets, unplugs |-> MaxUnplugs]
  /\ sts = {} /\ setupstat = FALSE
  /\ primeIn = NoSlot /\ primeOut = NoSlot
  /\ complete = {} /\ stalled = FALSE
  /\ devAddr = [addr |-> 0, staged |-> 0]
  /\ device_state = "ATTACHED" /\ device_address = 0 /\ configuration_value = 0
  /\ control_stage = "IDLE" /\ notify = {}
  /\ pending_setup = NoRequest /\ pending_setup_saved = NoRequest
  /\ pending_has_data = FALSE /\ setup_data_buffer = 0
  /\ pc = "top" /\ seen = {}
  /\ ready = TRUE
  /\ pipe = {} /\ accepted = {} /\ mixed = {} /\ sent = [i \in 1..MaxSetups |-> 0] /\ sentReport = 0

-----------------------------------------------------------------------------
(***************************************************************************)
(* The PC and the controller hardware.  A SETUP is always accepted: it     *)
(* overwrites the queue head, clears a STALL and cancels a staged address. *)
(* While it is unread the controller answers neither IN nor OUT tokens.    *)
(***************************************************************************)
FirstPhase(k) == CASE k \in {"GetDescriptor", "GetOther", "Qualifier"} -> "dataIn"
                   [] k \in {"SetReport", "OutData"}                   -> "dataOut"
                   [] OTHER                                            -> "statusIn"

\* A bus reset the firmware has not handled yet.
ResetPending == "URI" \in sts \cup seen

\* The controller hears only tokens sent to its address.
Heard == host.addr = devAddr.addr

\* host.late: the PC sent a SETUP before the firmware had handled the last
\* bus reset, so the reset handler may undo what that SETUP started.
HostSetup(k, v) ==
  /\ host.req.id < MaxSetups /\ Heard
  /\ k = "SetAddress" => ~host.conf
  /\ host' = [host EXCEPT !.req = [id |-> host.req.id + 1, kind |-> k, val |-> v],
                          !.phase = FirstPhase(k),
                          !.late = @ \/ ResetPending]
  /\ setupstat' = TRUE
  /\ sts' = sts \cup {"UI"}
  /\ stalled' = FALSE
  /\ devAddr' = [devAddr EXCEPT !.staged = 0]
  /\ UNCHANGED <<left, primeIn, primeOut, complete, stateVars, stageVars,
                 setup_data_buffer, pc, seen, mouseVars>>

HostReset ==
  /\ left.resets > 0
  /\ left' = [left EXCEPT !.resets = @ - 1]
  /\ host' = [host EXCEPT !.phase = "none", !.addr = 0, !.conf = FALSE,
                          !.late = FALSE]
  /\ sts' = sts \cup {"URI"}
  /\ devAddr' = [addr |-> 0, staged |-> 0]
  /\ UNCHANGED <<setupstat, primeIn, primeOut, complete, stalled, stateVars,
                 stageVars, setup_data_buffer, pc, seen, mouseVars>>

\* The PC reads the data stage of an IN request.  The data descriptor has no
\* interrupt-on-complete bit, and sendData() clears the completion bits after
\* it primed the data: either trace of the completion may be missing.
HostReadsData ==
  /\ host.phase = "dataIn" /\ Heard /\ ~setupstat /\ ~stalled
  /\ primeIn.what # "none"
  /\ host' = [host EXCEPT !.phase = "statusOut"]
  /\ primeIn' = NoSlot
  /\ complete' \in {complete, complete \cup {"IN"}}
  /\ sts' \in {sts, sts \cup {"UI"}}
  /\ UNCHANGED <<left, setupstat, primeOut, stalled, devAddr, stateVars,
                 stageVars, setup_data_buffer, pc, seen, mouseVars>>

\* The PC closes an IN request with a zero-length OUT packet.
HostSendsStatus ==
  /\ host.phase = "statusOut" /\ Heard /\ ~setupstat /\ ~stalled
  /\ primeOut.what # "none"
  /\ host' = [host EXCEPT !.phase = "done"]
  /\ primeOut' = NoSlot
  /\ complete' = complete \cup {"OUT"}
  /\ sts' = sts \cup {"UI"}
  /\ UNCHANGED <<left, setupstat, primeIn, stalled, devAddr, stateVars,
                 stageVars, setup_data_buffer, pc, seen, mouseVars>>

\* The PC delivers report data into setup_data_buffer (the same descriptor,
\* the same missing traces).
HostSendsReport ==
  /\ host.phase = "dataOut" /\ Heard /\ ~setupstat /\ ~stalled
  /\ primeOut.what = "data"
  /\ host' = [host EXCEPT !.phase = "statusIn"]
  /\ setup_data_buffer' = host.req.id
  /\ primeOut' = NoSlot
  /\ complete' \in {complete, complete \cup {"OUT"}}
  /\ sts' \in {sts, sts \cup {"UI"}}
  /\ UNCHANGED <<left, setupstat, primeIn, stalled, devAddr, stateVars,
                 stageVars, pc, seen, mouseVars>>

\* The PC collects the zero-length acknowledgement of an OUT or no-data
\* request; a staged address takes effect with it.
HostReadsAck ==
  /\ host.phase = "statusIn" /\ Heard /\ ~setupstat /\ ~stalled
  /\ primeIn.what # "none"
  /\ host' = [host EXCEPT !.phase = "done",
                          !.addr = IF host.req.kind = "SetAddress" THEN host.req.val ELSE @,
                          !.conf = IF host.req.kind = "SetConfig" THEN host.req.val > 0 ELSE @]
  /\ devAddr' = [addr |-> IF devAddr.staged > 0 THEN devAddr.staged ELSE devAddr.addr,
                 staged |-> 0]
  /\ primeIn' = NoSlot
  /\ complete' = complete \cup {"IN"}
  /\ sts' = sts \cup {"UI"}
  /\ UNCHANGED <<left, setupstat, primeOut, stalled, stateVars, stageVars,
                 setup_data_buffer, pc, seen, mouseVars>>

HostSeesStall ==
  /\ host.phase \in Waiting /\ Heard /\ ~setupstat /\ stalled
  /\ host' = [host EXCEPT !.phase = "stalled"]
  /\ UNCHANGED <<left, regVars, stateVars, stageVars, setup_data_buffer, pc, seen,
                 mouseVars>>

\* The transfers on the pipe are freed.
Unplug ==
  /\ ready /\ left.unplugs > 0
  /\ left' = [left EXCEPT !.unplugs = @ - 1]
  /\ ready' = FALSE /\ pipe' = {}
  /\ UNCHANGED <<host, regVars, stateVars, stageVars, setup_data_buffer, pc, seen,
                 accepted, mixed, sent, sentReport>>

Plug ==
  /\ ~ready
  /\ ready' = TRUE
  /\ UNCHANGED <<hostVars, regVars, stateVars, stageVars, setup_data_buffer, pc, seen,
                 pipe, accepted, mixed, sent, sentReport>>

NotFirmware == UNCHANGED <<hostVars, regVars, stateVars, stageVars, setup_data_buffer, pc, seen,
                           ready, mixed, sent, sentReport>>

\* The mouse carries out the request of the call, which is alone on the pipe.
MouseServes(r) ==
  /\ r \in pipe \ (mixed \cup {Leftover})
  /\ pipe' = pipe \ {r}
  /\ accepted' = accepted \cup {r}
  /\ NotFirmware

\* It stalls the requests, or the controller gives them up, or it carries out leftovers and
\* those that came upon them, one for the other: of these no record is kept.
MouseLoses ==
  /\ pipe # {} /\ pipe' \in SUBSET pipe
  /\ UNCHANGED accepted /\ NotFirmware

-----------------------------------------------------------------------------
(***************************************************************************)
(* The three ways the firmware answers on endpoint 0.                      *)
(***************************************************************************)
\* receiveData(NULL, 0): acknowledge with a zero-length IN packet.
PrimeAck(r) ==
  /\ primeIn' = [what |-> "ack", for |-> r]
  /\ complete' = {}
  /\ notify' = {"IN"}

\* sendData(): prime the data stage and the zero-length OUT that closes it.
PrimeData(r) ==
  /\ primeIn' = [what |-> "data", for |-> r]
  /\ primeOut' = [what |-> "ack", for |-> r]
  /\ complete' = {}
  /\ notify' = {"OUT"}

\* (mutant) A failed call is not answered.
NoStall == UNCHANGED stalled

\* sendData() with no bytes: only the OUT that closes a data stage is primed.
PrimeClose(r) ==
  /\ primeOut' = [what |-> "ack", for |-> r]
  /\ complete' = {}
  /\ notify' = {"OUT"}
  /\ UNCHANGED primeIn

\* USB1_ENDPTCTRL0 = 0x00010001.  The controller keeps the bits clear while
\* a SETUP is unread.
Stall == stalled' = ~setupstat
-----------------------------------------------------------------------------
(***************************************************************************)
(* The firmware thread.  poll(): read and clear the status register, serve *)
(* what was read, then every SETUP, then the completions, then the control *)
(* transfer that is in progress.                                           *)
(***************************************************************************)
AfterIrq == IF "URI" \in seen THEN "reset" ELSE "setup"

PollBegin ==
  /\ pc = "top"
  /\ seen' = sts /\ sts' = {}
  /\ pc' = IF "UI" \in sts THEN "irq" ELSE IF "URI" \in sts THEN "reset" ELSE "setup"
  /\ UNCHANGED <<hostVars, setupstat, primeIn, primeOut, complete, stalled, devAddr,
                 stateVars, stageVars, setup_data_buffer, mouseVars>>

\* handleUSBInterrupt().  When the data stage has been read, the code primes
\* an acknowledgement on IN (not OUT), which also replaces the notify mask.
HandleInterrupt ==
  /\ pc = "irq" /\ pc' = AfterIrq /\ seen' = seen \ {"UI"}
  /\ LET dataRead == control_stage = "DATA_IN" /\ "IN" \in complete
         mask     == IF dataRead THEN {"IN"} ELSE notify
         over     == complete \cap mask # {}
     IN /\ primeIn' = IF dataRead THEN [what |-> "ack", for |-> pending_setup] ELSE primeIn
        /\ notify' = IF over THEN {} ELSE mask
        /\ control_stage' = IF over /\ (dataRead \/ control_stage = "STATUS_OUT")
                            THEN "IDLE" ELSE control_stage
  /\ complete' = {}
  /\ UNCHANGED <<hostVars, sts, setupstat, primeOut, stalled, devAddr, stateVars,
                 pending_setup, pending_setup_saved, pending_has_data,
                 setup_data_buffer, mouseVars>>

\* handleUSBReset().  Clearing ENDPTSETUPSTAT drops a SETUP nobody has read.
HandleReset ==
  /\ pc = "reset" /\ pc' = "setup" /\ seen' = {}
  /\ setupstat' = FALSE /\ complete' = {} /\ notify' = {}
  /\ primeIn' = NoSlot /\ primeOut' = NoSlot
  /\ devAddr' = [addr |-> 0, staged |-> 0]
  /\ device_address' = 0 /\ device_state' = "DEFAULT" /\ configuration_value' = 0
  /\ control_stage' = "IDLE"
  /\ UNCHANGED <<hostVars, sts, stalled, pending_setup, pending_setup_saved,
                 pending_has_data, setup_data_buffer, mouseVars>>

(***************************************************************************)
(* pollControlEndpoint() with an unread SETUP: read the queue head, flush  *)
(* both directions, forget the mask and the stage; then handleSetupPacket()*)
(* branches on the request.  Each branch below is TakeSetup and one case.  *)
(***************************************************************************)
\* (mutant) The dispatch reads the previous request.
TakeSetupStale ==
  /\ pc = "setup" /\ setupstat
  /\ setupstat' = FALSE
  /\ UNCHANGED <<hostVars, sts, pending_setup, setup_data_buffer, seen, ready, accepted>>

TakeSetup ==
  /\ pc = "setup" /\ setupstat
  /\ setupstat' = FALSE
  /\ pending_setup' = host.req
  /\ UNCHANGED <<hostVars, sts, setup_data_buffer, seen, ready, accepted>>

\* (mutant) The new SETUP does not cancel what is primed.
FlushNothing == notify' = {} /\ UNCHANGED <<primeIn, primeOut, complete>>

Flush == primeIn' = NoSlot /\ primeOut' = NoSlot /\ notify' = {} /\ UNCHANGED complete

NotSaved == UNCHANGED <<pending_setup_saved, pending_has_data>>
NotSent  == UNCHANGED <<pipe, mixed, sent, sentReport>>

\* No device, the Device Qualifier filter, an OUT request with data that is
\* not SET_REPORT.
RefuseSetup ==
  /\ TakeSetup
  /\ ~ready \/ host.req.kind \in {"Qualifier", "OutData"}
  /\ Flush /\ stalled' = TRUE
  /\ control_stage' = "IDLE" /\ pc' = "setup"
  /\ NotSaved /\ NotSent /\ UNCHANGED <<devAddr, stateVars>>

\* (mutant) CLEAR_FEATURE is acknowledged for endpoint 0 and the device too.
AckedLocallyWide == {"SetIdle", "ClearHalt", "NoData"}

\* SET_IDLE and CLEAR_FEATURE(ENDPOINT_HALT) of a data endpoint.
AckedLocally == {"SetIdle", "ClearHalt"}

AckSetup ==
  /\ TakeSetup /\ ready
  /\ host.req.kind \in AckedLocally
  /\ PrimeAck(host.req) /\ primeOut' = NoSlot
  /\ control_stage' = "IDLE" /\ pc' = "setup"
  /\ NotSaved /\ NotSent /\ UNCHANGED <<stalled, devAddr, stateVars>>

\* handleSetAddress(): the acknowledgement is primed first; the address is
\* written to the holding register after it.
TakeSetAddress ==
  /\ TakeSetup /\ ready
  /\ host.req.kind = "SetAddress"
  /\ PrimeAck(host.req) /\ primeOut' = NoSlot
  /\ control_stage' = "IDLE" /\ pc' = "address"
  /\ NotSaved /\ NotSent /\ UNCHANGED <<stalled, devAddr, stateVars>>

StageAddress ==
  /\ pc = "address" /\ pc' = "setup"
  /\ devAddr' = [devAddr EXCEPT !.staged = pending_setup.val]
  /\ device_address' = pending_setup.val /\ device_state' = "ADDRESS"
  /\ UNCHANGED <<hostVars, sts, setupstat, primeIn, primeOut, complete, stalled,
                 configuration_value, stageVars, setup_data_buffer, seen, mouseVars>>

\* SET_REPORT with data: receiveData(setup_data_buffer, wLength) primes the
\* data stage and the acknowledgement together.
TakeSetReport ==
  /\ TakeSetup /\ ready
  /\ host.req.kind = "SetReport"
  /\ pending_setup_saved' = host.req /\ pending_has_data' = TRUE
  /\ PrimeAck(host.req) /\ primeOut' = [what |-> "data", for |-> host.req]
  /\ control_stage' = "DATA_OUT" /\ pc' = "setup"
  /\ NotSent /\ UNCHANGED <<stalled, devAddr, stateVars>>

\* A descriptor served by tryServeCachedDescriptor().  Whether the cache holds
\* it is left open here: module DescriptorCache models the cache.
ServeCached ==
  /\ TakeSetup /\ ready
  /\ host.req.kind = "GetDescriptor"
  /\ PrimeData(host.req)
  /\ control_stage' = "DATA_IN" /\ pc' = "setup"
  /\ NotSaved /\ NotSent /\ UNCHANGED <<stalled, devAddr, stateVars>>

\* History: request id has been forwarded once more.
Count(id) == sent' = [i \in 1..MaxSetups |-> sent[i] + (IF i = id THEN 1 ELSE 0)]

\* controlTransfer() queues a request.  Transfers of earlier requests, given up by a
\* timeout, may still be on the pipe: they share control_setup and control_buffer with it,
\* and the completion of one of them completes this call.
Hand(id) ==
  /\ pipe' = pipe \cup {id}
  /\ mixed' = IF pipe = {} THEN mixed ELSE mixed \cup {id}

\* A call ends, but what it queued may still be there.
LeaveCall(id) ==
  /\ pipe' = IF id \in pipe THEN (pipe \ {id}) \cup {Leftover} ELSE pipe
  /\ UNCHANGED mixed

\* The request goes to the mouse: the firmware enters controlTransfer().
CallFor(k) == CASE k = "SetConfig" -> "callConfig"
                [] k = "NoData"    -> "callNoData"
                [] OTHER           -> "callGet"

Forward ==
  /\ TakeSetup /\ ready
  /\ host.req.kind \in {"SetConfig", "NoData", "GetDescriptor", "GetOther"} \ AckedLocally
  /\ Flush
  /\ control_stage' = IF host.req.kind = "SetConfig" THEN "IDLE" ELSE "SETUP"
  /\ pc' = CallFor(host.req.kind)
  /\ Hand(host.req.id) /\ Count(host.req.id)
  /\ NotSaved /\ UNCHANGED <<stalled, devAddr, stateVars, sentReport>>

(***************************************************************************)
(* controlTransfer() returns.  A request whose call failed may have been   *)
(* carried out all the same, or be carried out later.                      *)
(***************************************************************************)
\* Success: the request is done, and off the pipe, unless it was mixed up.
Succeeds(id) ==
  /\ id \notin mixed => id \in accepted /\ id \notin pipe
  /\ LeaveCall(id)

CallUnchanged == UNCHANGED <<hostVars, sts, setupstat, devAddr, device_address,
                   pending_setup, pending_setup_saved, setup_data_buffer, seen, ready, accepted,
                   sent, sentReport>>

\* The STALL that follows every failed call.
CallFails ==
  /\ pc \in {"callConfig", "callGet", "callNoData", "callReport"}
  /\ Stall
  /\ control_stage' = "IDLE"
  /\ pc' = IF pc = "callReport" THEN "process" ELSE "setup"
  /\ pending_has_data' = (pending_has_data /\ pc # "callReport")
  /\ LeaveCall(IF pc = "callReport" THEN pending_setup_saved.id ELSE pending_setup.id)
  /\ CallUnchanged
  /\ UNCHANGED <<primeIn, primeOut, complete, notify, device_state, configuration_value>>

ConfigForwarded ==
  /\ pc = "callConfig"
  /\ Succeeds(pending_setup.id)
  /\ configuration_value' = pending_setup.val
  /\ control_stage' = "IDLE"
  /\ \/ /\ pending_setup.val > 0
        /\ pc' = "callParse"
        /\ UNCHANGED <<primeIn, complete, notify>>
     \/ /\ pending_setup.val = 0
        /\ PrimeAck(pending_setup)
        /\ pc' = "setup"
  /\ CallUnchanged
  /\ UNCHANGED <<primeOut, stalled, device_state, pending_has_data>>

\* parseConfigurationDescriptor() fetches the descriptor with a call of its
\* own; SET_CONFIGURATION is acknowledged whether or not that call succeeds.
ConfigAcked ==
  /\ pc = "callParse" /\ pc' = "setup"
  /\ pipe' \in {pipe, pipe \cup {Leftover}}
  /\ PrimeAck(pending_setup)
  /\ control_stage' = "IDLE"
  /\ CallUnchanged
  /\ UNCHANGED <<primeOut, stalled, configuration_value, pending_has_data, mixed>>

\* (mutant) A failed parse leaves device_state alone.
ConfigParsedOrNot == ConfigAcked /\ device_state' \in {device_state, "CONFIGURED"}

ConfigParsed == ConfigAcked /\ device_state' = "CONFIGURED"

DataReturned ==
  /\ pc = "callGet" /\ pc' = "setup"
  /\ Succeeds(pending_setup.id)
  /\ PrimeData(pending_setup)
  /\ control_stage' = "DATA_IN"
  /\ CallUnchanged
  /\ UNCHANGED <<stalled, device_state, configuration_value, pending_has_data>>

\* A string is cut to the length its first byte gives, even to nothing: the
\* data stage is then announced (DATA_IN) but never primed.
EmptyReturned ==
  /\ pc = "callGet" /\ pc' = "setup"
  /\ pending_setup.kind = "GetDescriptor"
  /\ Succeeds(pending_setup.id)
  /\ PrimeClose(pending_setup)
  /\ control_stage' = "DATA_IN"
  /\ CallUnchanged
  /\ UNCHANGED <<stalled, device_state, configuration_value, pending_has_data>>

NoDataReturned ==
  /\ pc = "callNoData" /\ pc' = "setup"
  /\ Succeeds(pending_setup.id)
  /\ PrimeAck(pending_setup)
  /\ control_stage' = "IDLE"
  /\ CallUnchanged
  /\ UNCHANGED <<primeOut, stalled, device_state, configuration_value, pending_has_data>>

\* (mutant) The forwarding path returns without leaving the data stage.
ReportStays == UNCHANGED <<control_stage, pending_has_data>>

ReportDone == control_stage' = "IDLE" /\ pending_has_data' = FALSE

\* sendZLP() after a forwarded SET_REPORT primes OUT.
ReportReturned ==
  /\ pc = "callReport" /\ pc' = "process"
  /\ Succeeds(pending_setup_saved.id)
  /\ PrimeClose(pending_setup_saved)
  /\ ReportDone
  /\ CallUnchanged
  /\ UNCHANGED <<stalled, device_state, configuration_value>>

(***************************************************************************)
(* The rest of poll(): no SETUP is left; endpoint 0 completions; the       *)
(* control transfer in progress.                                           *)
(***************************************************************************)
SetupsDone ==
  /\ pc = "setup" /\ ~setupstat /\ pc' = "complete"
  /\ UNCHANGED <<hostVars, regVars, stateVars, stageVars, setup_data_buffer, seen, mouseVars>>

CompletionUnchanged == UNCHANGED <<hostVars, sts, setupstat, primeOut, stalled, devAddr,
   stateVars, pending_setup, pending_setup_saved, pending_has_data, setup_data_buffer,
   seen, mouseVars>>

NothingCompleted ==
  /\ pc = "complete" /\ complete = {} /\ pc' = "process"
  /\ CompletionUnchanged /\ UNCHANGED <<primeIn, complete, notify, control_stage>>

\* A completion in the data stage of a SET_REPORT starts the forwarding.
ReportCompleted ==
  /\ pc = "complete" /\ complete # {} /\ complete' = {}
  /\ control_stage = "DATA_OUT"
  /\ pc' = IF pending_has_data THEN "throttleReport" ELSE "process"
  /\ CompletionUnchanged /\ UNCHANGED <<primeIn, notify, control_stage>>

DataCompleted ==
  /\ pc = "complete" /\ "IN" \in complete /\ control_stage = "DATA_IN"
  /\ control_stage' = "STATUS_OUT" /\ PrimeAck(pending_setup) /\ pc' = "process"
  /\ CompletionUnchanged

OtherCompleted ==
  /\ pc = "complete" /\ complete # {} /\ complete' = {} /\ pc' = "process"
  /\ control_stage # "DATA_OUT" /\ ~(control_stage = "DATA_IN" /\ "IN" \in complete)
  /\ control_stage' = IF control_stage = "STATUS_OUT" THEN "IDLE" ELSE control_stage
  /\ CompletionUnchanged /\ UNCHANGED <<primeIn, notify>>

\* processControlTransfer() as poll() calls it: a SET_REPORT in its data stage
\* is forwarded, whether or not its data has arrived.
Process ==
  /\ pc = "process"
  /\ pc' = IF control_stage = "DATA_OUT" /\ pending_has_data THEN "throttleReport" ELSE "top"
  /\ UNCHANGED <<hostVars, regVars, stateVars, stageVars, setup_data_buffer, seen, mouseVars>>

\* controlTransfer() for a SET_REPORT: the gap since the last transfer, then
\* the copy out of setup_data_buffer.
ReportQueued ==
  /\ pc = "throttleReport" /\ pc' = "callReport"
  /\ sentReport' = setup_data_buffer
  /\ Hand(pending_setup_saved.id) /\ Count(pending_setup_saved.id)
  /\ UNCHANGED <<hostVars, regVars, stateVars, stageVars, setup_data_buffer, seen,
                 ready, accepted>>

\* Between two polls the HID handler reads the report descriptor with a call of its own.
OtherCall ==
  /\ pc = "top" /\ ready
  /\ pipe' = pipe \cup {Leftover}
  /\ UNCHANGED accepted /\ NotFirmware

-----------------------------------------------------------------------------
HostSends == \E k \in Kinds : \E v \in ValuesOf(k) : HostSetup(k, v)
HostTokens == HostReadsData \/ HostSendsStatus \/ HostSendsReport \/ HostReadsAck \/ HostSeesStall
MouseActs == MouseLoses \/ \E r \in 1..MaxSetups : MouseServes(r)
Environment == HostSends \/ HostReset \/ HostTokens \/ Unplug \/ Plug \/ MouseActs \/ OtherCall

\* pollControlEndpoint() with an unread SETUP.
HandleSetupPacket == \/ RefuseSetup \/ AckSetup \/ TakeSetAddress \/ TakeSetReport
                     \/ ServeCached \/ Forward
CallReturns == \/ CallFails \/ ConfigForwarded \/ ConfigParsed \/ DataReturned
               \/ EmptyReturned \/ NoDataReturned \/ ReportReturned
PollCompletions == NothingCompleted \/ ReportCompleted \/ DataCompleted \/ OtherCompleted

Firmware == \/ PollBegin \/ HandleInterrupt \/ HandleReset
            \/ HandleSetupPacket \/ StageAddress \/ CallReturns
            \/ SetupsDone \/ PollCompletions \/ Process \/ ReportQueued

Next == Environment \/ Firmware

Spec == Init /\ [][Next]_vars

\* The loop never stops polling and every call returns within its timeout;
\* the PC keeps retrying the tokens of the request it waits for.
FairSpec == Spec /\ WF_vars(Firmware) /\ WF_vars(HostTokens)
-----------------------------------------------------------------------------
(***************************************************************************)
(* Properties.                                                             *)
(***************************************************************************)
\* Whatever the PC can collect on endpoint 0 belongs to its latest request:
\* however late controlTransfer() returns, and whatever was primed for a
\* request the PC gave up (line 273 flushes it; a STALL dies with the SETUP).
NoStaleReply ==
  ~setupstat => /\ primeIn.what # "none" => primeIn.for = host.req
                /\ primeOut.what # "none" => primeOut.for = host.req
                /\ stalled => pending_setup = host.req

\* An acknowledged SET_CONFIGURATION or other forwarded request without data
\* has been carried out by the mouse: the proxy never acknowledges a request
\* of these kinds on its own account.  The exception is named: the request was on
\* the control pipe together with another, say the one it repeats, and a completion
\* of either may have ended its call.
AckMeansAccepted ==
  host.phase = "done" /\ host.req.kind \in AckedAfterForward => host.req.id \in accepted \cup mixed

\* A PC that lets the proxy see each bus reset before it goes on, and believes
\* the device configured, is right.
ConfigurationAgrees == host.conf /\ ~host.late => device_state = "CONFIGURED"

\* No request reaches the mouse twice, although poll() can start the same
\* SET_REPORT from pollControlEndpoint() and from processControlTransfer().
ForwardedOnce == \A i \in 1..MaxSetups : sent[i] <= 1

\* The data stage of a string that was cut to nothing: only OUT is primed.
AnsweredEmpty ==
  /\ control_stage = "DATA_IN" /\ host.phase = "dataIn"
  /\ primeIn = NoSlot /\ primeOut = [what |-> "ack", for |-> host.req]

\* A SETUP the PC sends is never lost to the polling loop: unless the PC moves
\* on, or sent it before a reset was handled, it is answered or refused.
\* SET_REPORT is left out: see ReportCarriesItsData.  The named exception is a
\* string cut to nothing, and it ends with the PC's next SETUP.
RequestAnswered ==
  \A i \in 1..MaxSetups :
    (host.req.id = i /\ host.phase \in Waiting /\ host.req.kind # "SetReport")
      ~> (host.req.id # i \/ host.phase \notin Waiting \/ host.late \/ AnsweredEmpty)

\* The comment at line 600: data is received from the PC first, then forwarded.
ReportCarriesItsData == pc = "callReport" => sentReport = pending_setup_saved.id
=============================================================================
