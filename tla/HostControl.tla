----------------------------- MODULE HostControl -----------------------------
(***************************************************************************)
(* USBHostDriver::controlTransfer(): the polling thread queues a request   *)
(* on the mouse's control pipe and waits for control(), which the USB host *)
(* interrupt calls when a transfer of the driver completes.                *)
(*                                                                         *)
(* There is one control_setup and one control_buffer.  A queued transfer   *)
(* points to both, also after the caller has given up waiting for it, and  *)
(* the controller and the mouse go on with it.  Contents are abstracted to *)
(* the number of the request they belong to.                               *)
(***************************************************************************)
EXTENDS Naturals, Sequences

CONSTANTS MaxRequests,  \* how many control transfers the proxy asks for
          MaxPlugs      \* how often a mouse is plugged in

ASSUME ControlAssumption == MaxRequests \in Nat /\ MaxPlugs \in Nat

Requests == 1..MaxRequests
None == 0   \* no request

VARIABLES
  device,          \* a mouse is claimed
  plugs,
  queue,           \* the transfers on the control pipe, the oldest first
  control_setup,   \* whose SETUP packet is in control_setup
  control_buffer,  \* whose data is in control_buffer
  control_pending, control_complete, control_success,
  pc,              \* the polling thread, in controlTransfer()
  req,             \* its request: [id, in]
  result,          \* what the last call returned: [id, in, ok, data]
  taken,           \* history: the last OUT data the mouse took: [setup, data]
  shared,          \* history: the requests that were queued while another was, and that other
  served           \* history: how often the mouse has carried out each request

flags == <<control_pending, control_complete, control_success>>
vars == <<device, plugs, queue, control_setup, control_buffer, flags, pc, req, result, taken,
          shared, served>>

\* The call's request is in control_setup, and not queued yet.
Unqueued == {"reset", "copy", "queue"}

\* setup: whose SETUP packet the mouse has seen.
Transfer == [id : Requests, in : BOOLEAN, setup : 0..MaxRequests]

TypeOK ==
  /\ device \in BOOLEAN /\ plugs \in 0..MaxPlugs
  /\ queue \in Seq(Transfer)
  /\ control_setup \in 0..MaxRequests /\ control_buffer \in 0..MaxRequests
  /\ control_pending \in BOOLEAN /\ control_complete \in BOOLEAN /\ control_success \in BOOLEAN
  /\ pc \in {"idle", "prepare", "wait", "return", "fault"} \cup Unqueued
  /\ pc # "reset" => ~(control_pending /\ control_complete)
  /\ req \in [id : 0..MaxRequests, in : BOOLEAN]
  /\ result \in [id : 0..MaxRequests, in : BOOLEAN, ok : BOOLEAN, data : 0..MaxRequests]
  /\ taken \in [setup : 0..MaxRequests, data : 0..MaxRequests]
  /\ shared \subseteq Requests /\ served \in [Requests -> Nat]

NoResult == [id |-> None, in |-> FALSE, ok |-> FALSE, data |-> None]

Init ==
  /\ device = FALSE /\ plugs = 0 /\ queue = << >>
  /\ control_setup = None /\ control_buffer = None
  /\ control_pending = FALSE /\ control_complete = FALSE /\ control_success = FALSE
  /\ pc = "idle" /\ req = [id |-> None, in |-> FALSE]
  /\ result = NoResult
  /\ taken = [setup |-> None, data |-> None]
  /\ shared = {} /\ served = [r \in Requests |-> 0]

-----------------------------------------------------------------------------
(***************************************************************************)
(* The controller, the mouse and the USB host interrupt.                   *)
(***************************************************************************)
\* (mutant) The request stays pending after its completion.
ControlStays(ok) ==
  IF control_pending
  THEN UNCHANGED control_pending /\ control_complete' = TRUE /\ control_success' = ok
  ELSE UNCHANGED flags

\* control(): a transfer of the driver has completed.  All of them use
\* control_buffer, so any of them completes the request that is pending.
Control(ok) ==
  IF control_pending
  THEN control_pending' = FALSE /\ control_complete' = TRUE /\ control_success' = ok
  ELSE UNCHANGED flags

\* The SETUP stage of the oldest transfer.
SendSetup ==
  /\ queue # << >> /\ Head(queue).setup = None /\ pc # "fault"
  /\ queue' = [queue EXCEPT ![1].setup = control_setup]
  /\ UNCHANGED <<device, plugs, control_setup, control_buffer, flags, pc, req, result,
                 taken, shared, served>>

\* Its data and status stages, as one step.  The status byte of the token may show an error
\* all the same (ok = FALSE); control() takes a lone Ping bit for none.
Complete(ok) ==
  /\ queue # << >> /\ pc # "fault"
  /\ LET t == Head(queue)
     IN /\ t.setup # None
        /\ control_buffer' = IF t.in THEN t.setup ELSE control_buffer
        /\ taken' = IF t.in THEN taken
                    ELSE [setup |-> t.setup, data |-> control_buffer]
        /\ served' = [served EXCEPT ![t.setup] = @ + 1]
  /\ queue' = Tail(queue)
  /\ Control(ok)
  /\ UNCHANGED <<device, plugs, control_setup, pc, req, result, shared>>

\* The mouse stalls it: the pipe halts, and followup_Error() fails all that is
\* queued on it.
StallAll ==
  /\ queue # << >> /\ Head(queue).setup # None /\ pc # "fault"
  /\ queue' = << >>
  /\ Control(FALSE)
  /\ UNCHANGED <<device, plugs, control_setup, control_buffer, pc, req, result,
                 taken, shared, served>>

\* claim(): the 100 ms of an enumeration fit into the wait for a transfer, and
\* between two calls.
Claim ==
  /\ ~device /\ plugs < MaxPlugs /\ pc \in {"idle", "wait"}
  /\ device' = TRUE /\ plugs' = plugs + 1
  /\ UNCHANGED <<queue, control_setup, control_buffer, flags, pc, req, result,
                 taken, shared, served>>

\* disconnect(); disconnect_Device() then frees what is queued, and no callback
\* is made.
Disconnect ==
  /\ device /\ pc # "fault"
  /\ device' = FALSE /\ queue' = << >>
  /\ UNCHANGED <<plugs, control_setup, control_buffer, flags, pc, req, result,
                 taken, shared, served>>

-----------------------------------------------------------------------------
(***************************************************************************)
(* The polling thread.                                                     *)
(***************************************************************************)
Return(ok, data) ==
  /\ pc' = "idle"
  /\ result' = [id |-> req.id, in |-> req.in, ok |-> ok, data |-> data]

\* The guard, and the throttle.
Begin(in) ==
  /\ pc = "idle" /\ device /\ req.id < MaxRequests
  /\ pc' = "prepare"
  /\ req' = [id |-> req.id + 1, in |-> in]
  /\ UNCHANGED <<device, plugs, queue, control_setup, control_buffer, flags, result,
                 taken, shared, served>>

Queued == {queue[i].id : i \in 1..Len(queue)}

\* The requests that share control_setup and control_buffer from now on.
Meets == IF queue = << >> THEN {} ELSE Queued \cup {req.id}

\* control_setup, and control_pending.  Transfers that are still queued share it, and
\* control_buffer, from now on; and one that completes now completes this request, or is
\* forgotten by the next step.
Prepare ==
  /\ pc = "prepare" /\ pc' = "reset"
  /\ control_setup' = req.id /\ control_pending' = TRUE
  /\ shared' = shared \cup Meets
  /\ UNCHANGED <<device, plugs, queue, control_buffer, control_complete, control_success, req,
                 result, taken, served>>

\* (mutant) control_complete is not reset.
ResetStaleState ==
  /\ pc = "reset" /\ pc' = IF req.in THEN "queue" ELSE "copy"
  /\ UNCHANGED <<device, plugs, queue, control_setup, control_buffer, flags, req, result,
                 taken, shared, served>>

ResetState ==
  /\ pc = "reset" /\ pc' = IF req.in THEN "queue" ELSE "copy"
  /\ control_complete' = FALSE /\ control_success' = FALSE
  /\ UNCHANGED <<device, plugs, queue, control_setup, control_buffer, control_pending, req,
                 result, taken, shared, served>>

\* (mutant) The data of an OUT request is not copied.
CopyNothing ==
  /\ pc = "copy" /\ pc' = "queue"
  /\ UNCHANGED <<device, plugs, queue, control_setup, control_buffer, flags, req, result,
                 taken, shared, served>>

\* The data of an OUT request.
CopyData ==
  /\ pc = "copy" /\ pc' = "queue"
  /\ control_buffer' = req.id
  /\ UNCHANGED <<device, plugs, queue, control_setup, flags, req, result, taken, shared, served>>

\* queue_Control_Transfer().  If the mouse has left since Begin the null pointer
\* faults.
Queue ==
  /\ pc = "queue"
  /\ IF device
     THEN /\ pc' = "wait"
          /\ queue' = Append(queue, [id |-> req.id, in |-> req.in, setup |-> None])
     ELSE pc' = "fault" /\ UNCHANGED queue
  /\ UNCHANGED <<device, plugs, control_setup, control_buffer, flags, req, result,
                 taken, shared, served>>

\* It finds no free Transfer_t.  control_pending stays set.
QueueFails ==
  /\ pc = "queue" /\ device
  /\ Return(FALSE, None)
  /\ UNCHANGED <<device, plugs, queue, control_setup, control_buffer, flags, req,
                 taken, shared, served>>

Completed ==
  /\ pc = "wait" /\ control_complete
  /\ pc' = "return"
  /\ UNCHANGED <<device, plugs, queue, control_setup, control_buffer, flags, req, result,
                 taken, shared, served>>

\* (mutant) No timeout.
TimeoutNever == FALSE /\ UNCHANGED vars

\* (mutant) A timeout of an OUT request passes for success.
TimeoutSucceeds ==
  /\ pc = "wait" /\ ~control_complete
  /\ control_pending' = FALSE
  /\ Return(~req.in, None)
  /\ UNCHANGED <<device, plugs, queue, control_setup, control_buffer, control_complete,
                 control_success, req, taken, shared, served>>

Timeout ==
  /\ pc = "wait" /\ ~control_complete
  /\ control_pending' = FALSE
  /\ Return(FALSE, None)
  /\ UNCHANGED <<device, plugs, queue, control_setup, control_buffer, control_complete,
                 control_success, req, taken, shared, served>>

\* The answer of an IN request is copied from control_buffer.
Answer ==
  /\ pc = "return"
  /\ Return(control_success, IF control_success /\ req.in THEN control_buffer ELSE None)
  /\ UNCHANGED <<device, plugs, queue, control_setup, control_buffer, flags, req,
                 taken, shared, served>>

\* The fault handler resets the processor.
Reboot ==
  /\ pc = "fault" /\ pc' = "idle"
  /\ device' = FALSE /\ queue' = << >>
  /\ control_setup' = None /\ control_buffer' = None
  /\ control_pending' = FALSE /\ control_complete' = FALSE /\ control_success' = FALSE
  /\ result' = NoResult
  /\ UNCHANGED <<plugs, req, taken, shared, served>>

-----------------------------------------------------------------------------
Mouse == SendSetup \/ (\E ok \in BOOLEAN : Complete(ok)) \/ StallAll \/ Claim \/ Disconnect
Call == Prepare \/ ResetState \/ CopyData \/ Queue \/ QueueFails \/ Completed \/ Timeout \/ Answer \/ Reboot
Next == Mouse \/ (\E in \in BOOLEAN : Begin(in)) \/ Call

Spec == Init /\ [][Next]_vars

\* The wait is bounded by a timeout; the mouse owes nothing.
FairSpec == Spec /\ WF_vars(Call)

-----------------------------------------------------------------------------
(***************************************************************************)
(* Properties.                                                             *)
(***************************************************************************)
\* What a call returns is its own: a successful IN request has the data the mouse
\* sent for it, unless an earlier transfer was still queued when it began.
AnswerIsOwnUnlessShared ==
  result.ok /\ result.in /\ result.id \notin shared => result.data = result.id

\* The mouse takes the data of the OUT request whose SETUP packet it got, unless
\* that request's transfer shared control_buffer with another's.
DataIsOwnUnlessShared == taken.setup \notin shared => taken.data = taken.setup

\* To its caller controlTransfer() is ControlCall: a call that returns success was
\* carried out by the mouse once, is not carried out again by a transfer that is left
\* behind, and returns its own answer, unless its request was shared with another.
Contract ==
  INSTANCE ControlCall WITH
    phase <- CASE pc = "idle" -> "idle" [] pc = "prepare" -> "begun" [] OTHER -> "handed",
    last <- req.id, reading <- req.in,
    open <- Queued \cup (IF pc \in Unqueued THEN {req.id} ELSE {}),
    mixed <- shared
ImplementsCall == Contract!Spec

\* Every call returns, whatever the mouse does.
CallReturns == pc # "idle" ~> pc = "idle"
=============================================================================
