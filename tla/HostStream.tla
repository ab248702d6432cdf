----------------------------- MODULE HostStream -----------------------------
(***************************************************************************)
(* The stream of mouse reports in USBHostDriver: interrupt IN transfers    *)
(* into rx_buffer that requeue themselves from their completion callback,  *)
(* stopped by pauseDataTransfers() and restarted by resumeDataTransfers()  *)
(* around a SET_CONFIGURATION.                                             *)
(*                                                                         *)
(* The callbacks (claim, disconnect, processInData) run in the USB host    *)
(* interrupt and preempt the polling thread between any two of its steps.  *)
(* What a report says is left out.                                         *)
(***************************************************************************)
EXTENDS Naturals

CONSTANTS Transfers,   \* the Transfer_t's the data pipe can hold at once
          MaxPlugs,    \* how often a mouse is plugged in
          MaxConfigs   \* how many SET_CONFIGURATIONs the PC sends

ASSUME StreamAssumption ==
  /\ Transfers \in Nat /\ Transfers >= 2
  /\ MaxPlugs \in Nat /\ MaxConfigs \in Nat

VARIABLES
  device_ready, in_pipe,   \* a mouse is claimed; it has an IN pipe
  data_transfers_paused, pending_in_transfer,
  inflight,  \* how many transfers are queued on in_pipe
  pc,        \* the polling thread, in handleSetupPacket()
  forced,    \* history: how often a pause on this pipe ended by its timeout
  plugs, configs

pipeVars == <<device_ready, in_pipe, pending_in_transfer, inflight, forced>>
vars == <<device_ready, in_pipe, data_transfers_paused, pending_in_transfer, inflight,
          pc, forced, plugs, configs>>

TypeOK ==
  /\ device_ready \in BOOLEAN /\ in_pipe \in BOOLEAN
  /\ data_transfers_paused \in BOOLEAN /\ pending_in_transfer \in BOOLEAN
  /\ inflight \in 0..Transfers
  /\ pc \in {"idle", "pause", "wait", "configure", "check", "queue", "fault"}
  /\ forced \in 0..MaxConfigs /\ plugs \in 0..MaxPlugs /\ configs \in 0..MaxConfigs

Init ==
  /\ device_ready = FALSE /\ in_pipe = FALSE
  /\ data_transfers_paused = FALSE /\ pending_in_transfer = FALSE
  /\ inflight = 0 /\ pc = "idle" /\ forced = 0
  /\ plugs = 0 /\ configs = 0

-----------------------------------------------------------------------------
(***************************************************************************)
(* Queueing.                                                               *)
(***************************************************************************)
\* queue_Data_Transfer(): one more transfer, unless the pool is empty; its
\* callers do not look at the result.  The transfer whose callback this is
\* (done = 1) is freed only when the callback has returned.
QueueDataTransfer(done) == inflight' = (IF inflight < Transfers THEN inflight + 1 ELSE inflight) - done

\* (mutant) Start reading without looking at pending_in_transfer.
MayQueueAnyway == in_pipe /\ device_ready

\* The condition under which resumeDataTransfers() restarts the stream.
MayQueue == in_pipe /\ device_ready /\ ~pending_in_transfer

-----------------------------------------------------------------------------
(***************************************************************************)
(* The USB host interrupt.                                                 *)
(***************************************************************************)
\* claim(): pipe tells whether claimEndpoints() created the IN pipe;
\* startReading() queues the first transfer.  A mouse is enumerated for at least
\* 100 ms (debounce, port reset), so none is claimed within the 20 ms of a pause
\* or between two statements of a resume that saw the last one leave.
Claim(pipe) ==
  /\ ~device_ready /\ pc \in {"idle", "configure"} /\ plugs < MaxPlugs
  /\ plugs' = plugs + 1
  /\ device_ready' = TRUE /\ in_pipe' = pipe
  /\ IF pipe /\ ~data_transfers_paused /\ ~pending_in_transfer
     THEN pending_in_transfer' = TRUE /\ QueueDataTransfer(0)
     ELSE UNCHANGED <<pending_in_transfer, inflight>>
  /\ UNCHANGED <<data_transfers_paused, pc, forced, configs>>

\* disconnect(); disconnect_Device() then deletes the pipes and what they hold.
Disconnect ==
  /\ device_ready /\ pc # "fault"
  /\ device_ready' = FALSE /\ in_pipe' = FALSE
  /\ data_transfers_paused' = FALSE /\ pending_in_transfer' = FALSE
  /\ inflight' = 0 /\ forced' = 0
  /\ UNCHANGED <<pc, plugs, configs>>

Requeue == in_pipe /\ ~data_transfers_paused /\ device_ready

\* processInData(): the mouse has sent a report.
MouseReport ==
  /\ inflight > 0 /\ pc # "fault"
  /\ pending_in_transfer' = Requeue
  /\ IF Requeue THEN QueueDataTransfer(1) ELSE inflight' = inflight - 1
  /\ UNCHANGED <<device_ready, in_pipe, data_transfers_paused, pc, forced, plugs, configs>>

-----------------------------------------------------------------------------
(***************************************************************************)
(* The polling thread: a SET_CONFIGURATION.                                *)
(***************************************************************************)
SetConfiguration ==
  /\ pc = "idle" /\ device_ready /\ configs < MaxConfigs
  /\ pc' = "pause" /\ configs' = configs + 1
  /\ UNCHANGED <<pipeVars, data_transfers_paused, plugs>>

\* pauseDataTransfers(), up to the wait for the transfer in flight.
Pause ==
  /\ pc = "pause"
  /\ data_transfers_paused' = TRUE
  /\ pc' = IF pending_in_transfer /\ ~data_transfers_paused THEN "wait" ELSE "configure"
  /\ UNCHANGED <<pipeVars, plugs, configs>>

\* The transfer completed, or its mouse left.
PauseDone ==
  /\ pc = "wait" /\ ~pending_in_transfer
  /\ pc' = "configure"
  /\ UNCHANGED <<pipeVars, data_transfers_paused, plugs, configs>>

\* (mutant) There is no end to the wait.
PauseForceNever == FALSE /\ UNCHANGED vars

\* (mutant) The timeout is noticed and the wait goes on.
PauseForceAgain ==
  /\ pc = "wait" /\ pending_in_transfer
  /\ forced' = forced + 1
  /\ UNCHANGED <<device_ready, in_pipe, pending_in_transfer, data_transfers_paused,
                 inflight, plugs, configs, pc>>

\* It did not within 20 ms: the flag is cleared, the transfer stays queued.
PauseForce ==
  /\ pc = "wait" /\ pending_in_transfer
  /\ pending_in_transfer' = FALSE /\ forced' = forced + 1
  /\ pc' = "configure"
  /\ UNCHANGED <<device_ready, in_pipe, data_transfers_paused, inflight, plugs, configs>>

\* controlTransfer() and the configuration of the endpoints are over, whatever
\* came of them; resumeDataTransfers() begins.
Resume ==
  /\ pc = "configure"
  /\ data_transfers_paused' = FALSE /\ pc' = "check"
  /\ UNCHANGED <<pipeVars, plugs, configs>>

ResumeCheck ==
  /\ pc = "check"
  /\ pc' = IF MayQueue THEN "queue" ELSE "idle"
  /\ UNCHANGED <<pipeVars, data_transfers_paused, plugs, configs>>

\* (mutant) Only the flag is set.
ResumeQueueFlag ==
  /\ pc = "queue" /\ pc' = "idle"
  /\ pending_in_transfer' = TRUE
  /\ UNCHANGED <<device_ready, in_pipe, data_transfers_paused, inflight, forced, plugs, configs>>

\* The transfer is queued on the pipe that was there when ResumeCheck looked; a
\* disconnect in between has made it a null pointer, whose use faults.
ResumeQueue ==
  /\ pc = "queue"
  /\ pending_in_transfer' = TRUE
  /\ IF in_pipe THEN QueueDataTransfer(0) /\ pc' = "idle"
                ELSE UNCHANGED inflight /\ pc' = "fault"
  /\ UNCHANGED <<device_ready, in_pipe, data_transfers_paused, forced, plugs, configs>>

\* The fault handler resets the processor.
Reboot ==
  /\ pc = "fault" /\ pc' = "idle"
  /\ device_ready' = FALSE /\ in_pipe' = FALSE
  /\ data_transfers_paused' = FALSE /\ pending_in_transfer' = FALSE
  /\ inflight' = 0 /\ forced' = 0
  /\ UNCHANGED <<plugs, configs>>

-----------------------------------------------------------------------------
Interrupt == (\E pipe \in BOOLEAN : Claim(pipe)) \/ Disconnect \/ MouseReport
Poll == Pause \/ PauseDone \/ PauseForce \/ Resume \/ ResumeCheck \/ ResumeQueue \/ Reboot
Next == Interrupt \/ SetConfiguration \/ Poll

Spec == Init /\ [][Next]_vars

\* Every loop of the polling thread is bounded by a timeout.  The mouse owes no
\* report and the PC no request.
FairSpec == Spec /\ WF_vars(Poll)

-----------------------------------------------------------------------------
(***************************************************************************)
(* Properties.                                                             *)
(***************************************************************************)
\* The stream never dries up: whenever no SET_CONFIGURATION is being served, a
\* claimed mouse with an IN pipe has a transfer queued, whatever interleaving of
\* reports, unplugs, replugs, timed-out pauses and failed allocations came before.
StreamAlive == pc = "idle" /\ device_ready /\ in_pipe => inflight >= 1

\* A SET_CONFIGURATION adds a transfer to the pipe only if its pause timed out:
\* this is how slowly the pool of Transfer_t's drains.
InFlightBounded == inflight <= 1 + forced

\* A pause always ends, even if the mouse never reports again.
PauseEnds == data_transfers_paused ~> ~data_transfers_paused
=============================================================================
