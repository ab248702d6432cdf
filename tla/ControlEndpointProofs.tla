----------------------- MODULE ControlEndpointProofs -----------------------
(***************************************************************************)
(* Proofs about ControlEndpoint, for every number of SETUPs, resets and    *)
(* unpluggings.                                                            *)
(***************************************************************************)
EXTENDS ControlEndpoint, TLAPS

-----------------------------------------------------------------------------
\* What a request is made of, and that a new one is one.
LEMMA RequestFacts ==
  /\ NoRequest \in Request
  /\ \A r \in Request : r.id \in Nat /\ r.id <= MaxSetups /\ r.val \in {0, 1}
  /\ \A r \in Request : r.kind \in Kinds => r.id \in 1..MaxSetups
  /\ \A r \in Request : r.id # 0 => r.id \in 1..MaxSetups
  /\ \A i \in 1..MaxSetups, k \in Kinds : \A v \in ValuesOf(k) :
       [id |-> i, kind |-> k, val |-> v] \in Request
  BY BoundsAssumption DEF Request, NoRequest, ValuesOf, Kinds

\* Every slot the firmware primes is one.
LEMMA SlotFacts ==
  /\ NoSlot \in Slot
  /\ \A r \in Request : [what |-> "ack", for |-> r] \in Slot /\ [what |-> "data", for |-> r] \in Slot
  /\ \A s \in Slot : s.for \in Request
  BY RequestFacts DEF Slot, NoSlot

-----------------------------------------------------------------------------
\* A request that is unread, that a call is about, or whose report is awaited
\* is one the PC sent.
RequestsReal ==
  /\ setupstat => host.req.id # 0
  /\ pc \in Calls \cup {"address"} \/ control_stage # "IDLE" => pending_setup.id # 0
  /\ control_stage = "DATA_OUT" => pending_setup_saved.id # 0
  /\ pc \in {"throttleReport", "callReport"} => control_stage = "DATA_OUT"

TypeInv == VarsOK /\ RequestsReal

\* What is on the mouse's control pipe, and what was mixed up there, are requests.
PipeOK == pipe \in SUBSET (0..MaxSetups) /\ mixed \in SUBSET (1..MaxSetups)

LEMMA HandOK ==
  ASSUME PipeOK, NEW id \in 1..MaxSetups, Hand(id)
  PROVE  PipeOK'
  BY BoundsAssumption DEF PipeOK, Hand

LEMMA LeaveOK ==
  ASSUME PipeOK, NEW id, LeaveCall(id)
  PROVE  PipeOK'
<1>1. 0 \in 0..MaxSetups
  BY BoundsAssumption
<1>2. CASE id \in pipe
  BY <1>1, <1>2 DEF PipeOK, LeaveCall, Leftover
<1>3. CASE id \notin pipe
  BY <1>3 DEF PipeOK, LeaveCall
<1> QED
  BY <1>2, <1>3

\* The type invariant with the facts that make it inductive.
THEOREM TypeInvariant == Spec => []TypeInv
<1> USE BoundsAssumption
<1>1. Init => TypeInv
  <2> SUFFICES ASSUME Init PROVE TypeInv
    OBVIOUS
  <2>1. HostOK /\ LeftOK
    BY RequestFacts DEF Init, HostOK, LeftOK, Phases
  <2>2. SlotsOK /\ RegsOK /\ DevAddrOK
    BY SlotFacts DEF Init, SlotsOK, RegsOK, DevAddrOK
  <2>3. StateOK
    BY DEF Init, StateOK, DeviceStates
  <2>6. StageOK
    <3>1. control_stage \in Stages /\ pc \in Places
      BY DEF Init, Stages, Places
    <3>2. setup_data_buffer \in 0..MaxSetups
      BY DEF Init
    <3> QED
      BY <3>1, <3>2, RequestFacts DEF Init, StageOK
  <2>4. MouseOK
    BY DEF Init, MouseOK
  <2>5. RequestsReal
    BY DEF Init, RequestsReal, Calls
  <2> QED
    BY <2>1, <2>2, <2>3, <2>4, <2>5, <2>6 DEF TypeInv, VarsOK
<1>2. TypeInv /\ [Next]_vars => TypeInv'
  <2> SUFFICES ASSUME TypeInv, [Next]_vars PROVE TypeInv'
    OBVIOUS
  <2> USE DEF TypeInv, VarsOK
  <2>h. host.req \in Request /\ host.req.id \in 0..MaxSetups /\ host.req.val \in {0, 1}
    BY RequestFacts DEF HostOK
  <2>p. /\ pending_setup \in Request /\ pending_setup_saved \in Request
        /\ pending_setup.id \in 0..MaxSetups /\ pending_setup.val \in {0, 1}
        /\ pending_setup_saved.id \in 0..MaxSetups /\ setup_data_buffer \in 0..MaxSetups
    BY RequestFacts DEF StageOK
  <2>1. ASSUME NEW k \in Kinds, NEW v \in ValuesOf(k), HostSetup(k, v) PROVE TypeInv'
    <3>1. HostOK'
      <4>1. [id |-> host.req.id + 1, kind |-> k, val |-> v] \in Request
        BY <2>1, <2>h, RequestFacts DEF HostSetup
      <4>2. FirstPhase(k) \in Phases
        BY DEF FirstPhase, Phases
      <4>3. (host.late \/ ResetPending) \in BOOLEAN
        OBVIOUS
      <4> QED
        BY <2>1, <4>1, <4>2, <4>3 DEF HostSetup, HostOK
    <3>2. RegsOK'
      BY <2>1, <2>h, <2>p DEF HostSetup, RegsOK
    <3>3. DevAddrOK'
      BY <2>1, <2>h, <2>p, RequestFacts DEF HostSetup, DevAddrOK
    <3>4. RequestsReal'
      BY <2>1, RequestFacts DEF HostSetup, RequestsReal, HostOK, StageOK, Calls, hostVars,
         regVars, stageVars
    <3> QED
      BY <2>1, <3>1, <3>2, <3>3, <3>4 DEF HostSetup, LeftOK, SlotsOK, StateOK, StageOK,
         MouseOK, hostVars, regVars, stateVars, stageVars, mouseVars
  <2>2. CASE HostReset
    <3>1. HostOK'
      BY <2>2, <2>h, <2>p, RequestFacts DEF HostReset, HostOK, Phases
    <3>2. LeftOK'
      BY <2>2, <2>h, <2>p DEF HostReset, LeftOK
    <3>3. RegsOK'
      BY <2>2, <2>h, <2>p DEF HostReset, RegsOK
    <3>4. DevAddrOK'
      BY <2>2, <2>h, <2>p, RequestFacts DEF HostReset, DevAddrOK
    <3>5. RequestsReal'
      BY <2>2, RequestFacts DEF HostReset, RequestsReal, HostOK, StageOK, Calls, hostVars,
         regVars, stageVars
    <3> QED
      BY <2>2, <3>1, <3>2, <3>3, <3>4, <3>5 DEF HostReset, SlotsOK, StateOK, StageOK,
         MouseOK, hostVars, regVars, stateVars, stageVars, mouseVars
  <2>3. CASE HostReadsData
    <3>1. HostOK'
      BY <2>3, <2>h, <2>p, RequestFacts DEF HostReadsData, HostOK, Phases
    <3>2. SlotsOK'
      BY <2>3, <2>h, <2>p, SlotFacts, RequestFacts DEF HostReadsData, SlotsOK
    <3>3. RegsOK'
      BY <2>3, <2>h, <2>p DEF HostReadsData, RegsOK
    <3>4. RequestsReal'
      BY <2>3, RequestFacts DEF HostReadsData, RequestsReal, HostOK, StageOK, Calls,
         hostVars, regVars, stageVars
    <3> QED
      BY <2>3, <3>1, <3>2, <3>3, <3>4 DEF HostReadsData, LeftOK, DevAddrOK, StateOK,
         StageOK, MouseOK, hostVars, regVars, stateVars, stageVars, mouseVars
  <2>4. CASE HostSendsStatus
    <3>1. HostOK'
      BY <2>4, <2>h, <2>p, RequestFacts DEF HostSendsStatus, HostOK, Phases
    <3>2. SlotsOK'
      BY <2>4, <2>h, <2>p, SlotFacts, RequestFacts DEF HostSendsStatus, SlotsOK
    <3>3. RegsOK'
      BY <2>4, <2>h, <2>p DEF HostSendsStatus, RegsOK
    <3>4. RequestsReal'
      BY <2>4, RequestFacts DEF HostSendsStatus, RequestsReal, HostOK, StageOK, Calls,
         hostVars, regVars, stageVars
    <3> QED
      BY <2>4, <3>1, <3>2, <3>3, <3>4 DEF HostSendsStatus, LeftOK, DevAddrOK, StateOK,
         StageOK, MouseOK, hostVars, regVars, stateVars, stageVars, mouseVars
  <2>5. CASE HostSendsReport
    <3>1. HostOK'
      BY <2>5, <2>h, <2>p, RequestFacts DEF HostSendsReport, HostOK, Phases
    <3>2. SlotsOK'
      BY <2>5, <2>h, <2>p, SlotFacts, RequestFacts DEF HostSendsReport, SlotsOK
    <3>3. RegsOK'
      BY <2>5, <2>h, <2>p DEF HostSendsReport, RegsOK
    <3>4. StageOK'
      BY <2>5, <2>h, <2>p, RequestFacts DEF HostSendsReport, StageOK, Stages, Places, Calls,
         stateVars, stageVars, mouseVars
    <3>5. RequestsReal'
      BY <2>5, RequestFacts DEF HostSendsReport, RequestsReal, HostOK, StageOK, Calls,
         hostVars, regVars, stageVars
    <3> QED
      BY <2>5, <3>1, <3>2, <3>3, <3>4, <3>5 DEF HostSendsReport, LeftOK, DevAddrOK, StateOK,
         MouseOK, hostVars, regVars, stateVars, stageVars, mouseVars
  <2>6. CASE HostReadsAck
    <3>1. HostOK'
      <4> DEFINE addr == IF host.req.kind = "SetAddress" THEN host.req.val ELSE host.addr
                 conf == IF host.req.kind = "SetConfig" THEN host.req.val > 0 ELSE host.conf
      <4>1. addr \in {0, 1}
        BY <2>h DEF HostOK
      <4>3. conf \in BOOLEAN
        <5>1. (host.req.val > 0) \in BOOLEAN
          OBVIOUS
        <5>2. host.conf \in BOOLEAN
          BY DEF HostOK
        <5> QED
          BY <5>1, <5>2, Zenon
      <4>2. host' = [host EXCEPT !.phase = "done", !.addr = addr, !.conf = conf]
        BY <2>6 DEF HostReadsAck, HostOK
      <4> HIDE DEF addr, conf
      <4> QED
        BY <4>1, <4>2, <4>3 DEF HostOK, Phases
    <3>2. SlotsOK'
      BY <2>6, <2>h, <2>p, SlotFacts, RequestFacts DEF HostReadsAck, SlotsOK
    <3>3. RegsOK'
      BY <2>6, <2>h, <2>p DEF HostReadsAck, RegsOK
    <3>4. DevAddrOK'
      BY <2>6, <2>h, <2>p, RequestFacts DEF HostReadsAck, DevAddrOK
    <3>5. RequestsReal'
      BY <2>6, RequestFacts DEF HostReadsAck, RequestsReal, HostOK, StageOK, Calls,
         hostVars, regVars, stageVars
    <3> QED
      BY <2>6, <3>1, <3>2, <3>3, <3>4, <3>5 DEF HostReadsAck, LeftOK, StateOK, StageOK,
         MouseOK, hostVars, regVars, stateVars, stageVars, mouseVars
  <2>7. CASE HostSeesStall
    <3>1. HostOK'
      BY <2>7, <2>h, <2>p, RequestFacts DEF HostSeesStall, HostOK, Phases
    <3>2. RequestsReal'
      BY <2>7, RequestFacts DEF HostSeesStall, RequestsReal, HostOK, StageOK, Calls,
         hostVars, regVars, stageVars
    <3> QED
      BY <2>7, <3>1, <3>2 DEF HostSeesStall, LeftOK, SlotsOK, RegsOK, DevAddrOK, StateOK,
         StageOK, MouseOK, hostVars, regVars, stateVars, stageVars, mouseVars
  <2>8. CASE Unplug
    <3>1. LeftOK'
      BY <2>8, <2>h, <2>p DEF Unplug, LeftOK
    <3>2. MouseOK'
      BY <2>8, <2>h, <2>p, RequestFacts DEF Unplug, MouseOK
    <3>3. RequestsReal'
      BY <2>8, RequestFacts DEF Unplug, RequestsReal, HostOK, StageOK, Calls, hostVars,
         regVars, stageVars
    <3> QED
      BY <2>8, <3>1, <3>2, <3>3 DEF Unplug, HostOK, SlotsOK, RegsOK, DevAddrOK, StateOK,
         StageOK, hostVars, regVars, stateVars, stageVars, mouseVars
  <2>9. CASE Plug
    <3>1. MouseOK'
      BY <2>9, <2>h, <2>p, RequestFacts DEF Plug, MouseOK
    <3>2. RequestsReal'
      BY <2>9, RequestFacts DEF Plug, RequestsReal, HostOK, StageOK, Calls, hostVars,
         regVars, stageVars
    <3> QED
      BY <2>9, <3>1, <3>2 DEF Plug, HostOK, LeftOK, SlotsOK, RegsOK, DevAddrOK, StateOK,
         StageOK, hostVars, regVars, stateVars, stageVars, mouseVars
  <2>10. CASE PollBegin
    <3>1. RegsOK'
      BY <2>10, <2>h, <2>p DEF PollBegin, RegsOK
    <3>2. StageOK'
      BY <2>10, <2>h, <2>p, RequestFacts DEF PollBegin, StageOK, Stages, Places, Calls,
         hostVars, stateVars, stageVars, mouseVars, RegsOK
    <3>3. RequestsReal'
      BY <2>10, RequestFacts DEF PollBegin, RequestsReal, HostOK, StageOK, Calls, hostVars,
         regVars, stageVars
    <3> QED
      BY <2>10, <3>1, <3>2, <3>3 DEF PollBegin, HostOK, LeftOK, SlotsOK, DevAddrOK, StateOK,
         MouseOK, hostVars, regVars, stateVars, stageVars, mouseVars
  <2>11. CASE HandleInterrupt
    <3>1. SlotsOK'
      BY <2>11, <2>h, <2>p, SlotFacts, RequestFacts DEF HandleInterrupt, AfterIrq, SlotsOK
    <3>2. RegsOK'
      BY <2>11, <2>h, <2>p DEF HandleInterrupt, AfterIrq, RegsOK
    <3>3. StageOK'
      BY <2>11, <2>h, <2>p, RequestFacts DEF HandleInterrupt, AfterIrq, StageOK, Stages,
         Places, Calls, hostVars, stateVars, mouseVars
    <3>4. RequestsReal'
      BY <2>11, RequestFacts DEF HandleInterrupt, AfterIrq, RequestsReal, HostOK, StageOK,
         Calls, hostVars, regVars, stageVars
    <3> QED
      BY <2>11, <3>1, <3>2, <3>3, <3>4 DEF HandleInterrupt, AfterIrq, HostOK, LeftOK,
         DevAddrOK, StateOK, MouseOK, hostVars, regVars, stateVars, stageVars, mouseVars
  <2>12. CASE HandleReset
    <3>1. SlotsOK'
      BY <2>12, <2>h, <2>p, SlotFacts, RequestFacts DEF HandleReset, SlotsOK
    <3>2. RegsOK'
      BY <2>12, <2>h, <2>p DEF HandleReset, RegsOK
    <3>3. DevAddrOK'
      BY <2>12, <2>h, <2>p, RequestFacts DEF HandleReset, DevAddrOK
    <3>4. StateOK'
      BY <2>12, <2>h, <2>p, RequestFacts DEF HandleReset, StateOK, DeviceStates
    <3>5. StageOK'
      BY <2>12, <2>h, <2>p, RequestFacts DEF HandleReset, StageOK, Stages, Places, Calls,
         hostVars, mouseVars
    <3>6. RequestsReal'
      BY <2>12, RequestFacts DEF HandleReset, RequestsReal, HostOK, StageOK, Calls,
         hostVars, regVars, stageVars
    <3> QED
      BY <2>12, <3>1, <3>2, <3>3, <3>4, <3>5, <3>6 DEF HandleReset, HostOK, LeftOK, MouseOK,
         hostVars, regVars, stateVars, stageVars, mouseVars
  <2>13. CASE RefuseSetup
    <3>1. SlotsOK'
      BY <2>13, <2>h, <2>p, SlotFacts, RequestFacts DEF RefuseSetup, TakeSetup, Flush,
         NotSaved, NotSent, SlotsOK
    <3>2. RegsOK'
      BY <2>13, <2>h, <2>p DEF RefuseSetup, TakeSetup, Flush, NotSaved, NotSent, RegsOK
    <3>3. StageOK'
      BY <2>13, <2>h, <2>p, RequestFacts DEF RefuseSetup, TakeSetup, Flush, NotSaved,
         NotSent, StageOK, Stages, Places, Calls, hostVars, stateVars
    <3>4. RequestsReal'
      BY <2>13, RequestFacts DEF RefuseSetup, TakeSetup, Flush, NotSaved, NotSent,
         RequestsReal, HostOK, StageOK, Calls, hostVars, regVars, stageVars
    <3> QED
      BY <2>13, <3>1, <3>2, <3>3, <3>4 DEF RefuseSetup, TakeSetup, Flush, NotSaved, NotSent,
         HostOK, LeftOK, DevAddrOK, StateOK, MouseOK, hostVars, regVars, stateVars,
         stageVars, mouseVars
  <2>14. CASE AckSetup
    <3>1. SlotsOK'
      BY <2>14, <2>h, <2>p, SlotFacts, RequestFacts DEF AckSetup, TakeSetup, PrimeAck,
         NotSaved, NotSent, AckedLocally, SlotsOK
    <3>2. RegsOK'
      BY <2>14, <2>h, <2>p DEF AckSetup, TakeSetup, PrimeAck, NotSaved, NotSent,
         AckedLocally, RegsOK
    <3>3. StageOK'
      BY <2>14, <2>h, <2>p, RequestFacts DEF AckSetup, TakeSetup, PrimeAck, NotSaved,
         NotSent, AckedLocally, StageOK, Stages, Places, Calls, hostVars, stateVars
    <3>4. RequestsReal'
      BY <2>14, RequestFacts DEF AckSetup, TakeSetup, PrimeAck, NotSaved, NotSent,
         AckedLocally, RequestsReal, HostOK, StageOK, Calls, hostVars, regVars, stageVars
    <3> QED
      BY <2>14, <3>1, <3>2, <3>3, <3>4 DEF AckSetup, TakeSetup, PrimeAck, NotSaved, NotSent,
         AckedLocally, HostOK, LeftOK, DevAddrOK, StateOK, MouseOK, hostVars, regVars,
         stateVars, stageVars, mouseVars
  <2>15. CASE TakeSetAddress
    <3>1. SlotsOK'
      BY <2>15, <2>h, <2>p, SlotFacts, RequestFacts DEF TakeSetAddress, TakeSetup, PrimeAck,
         NotSaved, NotSent, SlotsOK
    <3>2. RegsOK'
      BY <2>15, <2>h, <2>p DEF TakeSetAddress, TakeSetup, PrimeAck, NotSaved, NotSent,
         RegsOK
    <3>3. StageOK'
      BY <2>15, <2>h, <2>p, RequestFacts DEF TakeSetAddress, TakeSetup, PrimeAck, NotSaved,
         NotSent, StageOK, Stages, Places, Calls, hostVars, stateVars
    <3>4. RequestsReal'
      BY <2>15, RequestFacts DEF TakeSetAddress, TakeSetup, PrimeAck, NotSaved, NotSent,
         RequestsReal, HostOK, StageOK, Calls, hostVars, regVars, stageVars
    <3> QED
      BY <2>15, <3>1, <3>2, <3>3, <3>4 DEF TakeSetAddress, TakeSetup, PrimeAck, NotSaved,
         NotSent, HostOK, LeftOK, DevAddrOK, StateOK, MouseOK, hostVars, regVars, stateVars,
         stageVars, mouseVars
  <2>16. CASE TakeSetReport
    <3>1. SlotsOK'
      BY <2>16, <2>h, <2>p, SlotFacts, RequestFacts DEF TakeSetReport, TakeSetup, PrimeAck,
         NotSent, SlotsOK
    <3>2. RegsOK'
      BY <2>16, <2>h, <2>p DEF TakeSetReport, TakeSetup, PrimeAck, NotSent, RegsOK
    <3>3. StageOK'
      BY <2>16, <2>h, <2>p, RequestFacts DEF TakeSetReport, TakeSetup, PrimeAck, NotSent,
         StageOK, Stages, Places, Calls, hostVars, stateVars
    <3>4. RequestsReal'
      BY <2>16, RequestFacts DEF TakeSetReport, TakeSetup, PrimeAck, NotSent, RequestsReal,
         HostOK, StageOK, Calls, hostVars, regVars, stageVars
    <3> QED
      BY <2>16, <3>1, <3>2, <3>3, <3>4 DEF TakeSetReport, TakeSetup, PrimeAck, NotSent,
         HostOK, LeftOK, DevAddrOK, StateOK, MouseOK, hostVars, regVars, stateVars,
         stageVars, mouseVars
  <2>17. CASE ServeCached
    <3>1. SlotsOK'
      BY <2>17, <2>h, <2>p, SlotFacts, RequestFacts DEF ServeCached, TakeSetup, PrimeData,
         NotSaved, NotSent, SlotsOK
    <3>2. RegsOK'
      BY <2>17, <2>h, <2>p DEF ServeCached, TakeSetup, PrimeData, NotSaved, NotSent, RegsOK
    <3>3. StageOK'
      BY <2>17, <2>h, <2>p, RequestFacts DEF ServeCached, TakeSetup, PrimeData, NotSaved,
         NotSent, StageOK, Stages, Places, Calls, hostVars, stateVars
    <3>4. RequestsReal'
      BY <2>17, RequestFacts DEF ServeCached, TakeSetup, PrimeData, NotSaved, NotSent,
         RequestsReal, HostOK, StageOK, Calls, hostVars, regVars, stageVars
    <3> QED
      BY <2>17, <3>1, <3>2, <3>3, <3>4 DEF ServeCached, TakeSetup, PrimeData, NotSaved,
         NotSent, HostOK, LeftOK, DevAddrOK, StateOK, MouseOK, hostVars, regVars, stateVars,
         stageVars, mouseVars
  <2>18. CASE Forward
    <3>1. SlotsOK'
      BY <2>18, <2>h, <2>p, SlotFacts, RequestFacts DEF Forward, TakeSetup, Flush, NotSaved,
         CallFor, AckedLocally, Count, Hand, SlotsOK
    <3>2. RegsOK'
      BY <2>18, <2>h, <2>p DEF Forward, TakeSetup, Flush, NotSaved, CallFor, AckedLocally,
         Count, Hand, RegsOK
    <3>3. StageOK'
      BY <2>18, <2>h, <2>p, RequestFacts DEF Forward, TakeSetup, Flush, NotSaved, CallFor,
         AckedLocally, Count, Hand, StageOK, Stages, Places, Calls, hostVars, stateVars
    <3>4. MouseOK'
      <4>1. Hand(host.req.id) /\ host.req.id \in 1..MaxSetups
        BY <2>18, <2>p, <2>h DEF Forward, TakeSetup, RequestsReal
      <4>2. PipeOK'
        BY <2>p, <4>1, HandOK DEF MouseOK, PipeOK
      <4> QED
        BY <2>18, <4>1, <4>2 DEF Forward, TakeSetup, Count, PipeOK, MouseOK
    <3>5. RequestsReal'
      BY <2>18, RequestFacts DEF Forward, TakeSetup, Flush, NotSaved, CallFor, AckedLocally,
         Count, Hand, RequestsReal, HostOK, StageOK, Calls, hostVars, regVars, stageVars
    <3> QED
      BY <2>18, <3>1, <3>2, <3>3, <3>4, <3>5 DEF Forward, TakeSetup, Flush, NotSaved,
         CallFor, AckedLocally, Count, Hand, HostOK, LeftOK, DevAddrOK, StateOK, hostVars,
         regVars, stateVars, stageVars, mouseVars
  <2>19. CASE StageAddress
    <3>1. DevAddrOK'
      BY <2>19, <2>h, <2>p, RequestFacts DEF StageAddress, DevAddrOK
    <3>2. StateOK'
      BY <2>19, <2>h, <2>p, RequestFacts DEF StageAddress, StateOK, DeviceStates
    <3>3. StageOK'
      BY <2>19, <2>h, <2>p, RequestFacts DEF StageAddress, StageOK, Stages, Places, Calls,
         hostVars, stageVars, mouseVars
    <3>4. RequestsReal'
      BY <2>19, RequestFacts DEF StageAddress, RequestsReal, HostOK, StageOK, Calls,
         hostVars, regVars, stageVars
    <3> QED
      BY <2>19, <3>1, <3>2, <3>3, <3>4 DEF StageAddress, HostOK, LeftOK, SlotsOK, RegsOK,
         MouseOK, hostVars, regVars, stateVars, stageVars, mouseVars
  <2>20. CASE CallFails
    <3>1. RegsOK'
      BY <2>20, <2>h, <2>p DEF CallFails, Stall, Succeeds, LeaveCall, CallUnchanged, RegsOK
    <3>2. StageOK'
      BY <2>20, <2>h, <2>p, RequestFacts DEF CallFails, Stall, Succeeds, LeaveCall, CallUnchanged,
         StageOK, Stages, Places, Calls
    <3>3. MouseOK'
      <4>1. \E id : LeaveCall(id)
        BY <2>20, <2>p, <2>h DEF CallFails
      <4>2. PipeOK'
        BY <2>p, <4>1, LeaveOK DEF MouseOK, PipeOK
      <4> QED
        BY <2>20, <4>1, <4>2 DEF CallFails, CallUnchanged, PipeOK, MouseOK
    <3>4. RequestsReal'
      BY <2>20, RequestFacts DEF CallFails, Stall, Succeeds, LeaveCall, CallUnchanged,
        RequestsReal, HostOK, StageOK, Calls, hostVars, regVars, stageVars
    <3> QED
      BY <2>20, <3>1, <3>2, <3>3, <3>4 DEF CallFails, Stall, Succeeds, LeaveCall, CallUnchanged,
         HostOK, LeftOK, SlotsOK, DevAddrOK, StateOK, hostVars, regVars, stateVars,
         stageVars, mouseVars
  <2>21. CASE ConfigForwarded
    <3>1. SlotsOK'
      BY <2>21, <2>h, <2>p, SlotFacts, RequestFacts DEF ConfigForwarded, Succeeds, LeaveCall, PrimeAck,
         CallUnchanged, SlotsOK
    <3>2. RegsOK'
      BY <2>21, <2>h, <2>p DEF ConfigForwarded, Succeeds, LeaveCall, PrimeAck, CallUnchanged,
        RegsOK
    <3>3. StateOK'
      BY <2>21, <2>h, <2>p, RequestFacts DEF ConfigForwarded, Succeeds, LeaveCall, PrimeAck,
         CallUnchanged, StateOK, DeviceStates
    <3>4. StageOK'
      BY <2>21, <2>h, <2>p, RequestFacts DEF ConfigForwarded, Succeeds, LeaveCall, PrimeAck,
         CallUnchanged, StageOK, Stages, Places, Calls
    <3>5. MouseOK'
      <4>1. LeaveCall(pending_setup.id)
        BY <2>21, <2>p, <2>h DEF ConfigForwarded, Succeeds
      <4>2. PipeOK'
        BY <2>p, <4>1, LeaveOK DEF MouseOK, PipeOK
      <4> QED
        BY <2>21, <4>1, <4>2 DEF ConfigForwarded, CallUnchanged, PipeOK, MouseOK
    <3>6. RequestsReal'
      BY <2>21, RequestFacts DEF ConfigForwarded, Succeeds, LeaveCall, PrimeAck, CallUnchanged,
         RequestsReal, HostOK, StageOK, Calls, hostVars, regVars, stageVars
    <3> QED
      BY <2>21, <3>1, <3>2, <3>3, <3>4, <3>5, <3>6 DEF ConfigForwarded, Succeeds, LeaveCall, PrimeAck,
         CallUnchanged, HostOK, LeftOK, DevAddrOK, hostVars, regVars, stateVars,
         stageVars, mouseVars
  <2>22. CASE ConfigParsed
    <3>1. SlotsOK'
      BY <2>22, <2>h, <2>p, SlotFacts, RequestFacts DEF ConfigParsed, ConfigAcked, PrimeAck,
         CallUnchanged, SlotsOK
    <3>2. RegsOK'
      BY <2>22, <2>h, <2>p DEF ConfigParsed, ConfigAcked, PrimeAck, CallUnchanged,
        RegsOK
    <3>3. StateOK'
      BY <2>22, <2>h, <2>p, RequestFacts DEF ConfigParsed, ConfigAcked, PrimeAck,
         CallUnchanged, StateOK, DeviceStates
    <3>4. StageOK'
      BY <2>22, <2>h, <2>p, RequestFacts DEF ConfigParsed, ConfigAcked, PrimeAck,
         CallUnchanged, StageOK, Stages, Places, Calls
    <3>5. RequestsReal'
      BY <2>22, RequestFacts DEF ConfigParsed, ConfigAcked, PrimeAck, CallUnchanged,
         RequestsReal, HostOK, StageOK, Calls, hostVars, regVars, stageVars
    <3>6. MouseOK'
      BY <2>22 DEF ConfigParsed, ConfigAcked, Leftover, CallUnchanged, MouseOK
    <3> QED
      BY <2>22, <3>1, <3>2, <3>3, <3>4, <3>5, <3>6 DEF ConfigParsed, ConfigAcked, PrimeAck,
         CallUnchanged, HostOK, LeftOK, DevAddrOK, hostVars
  <2>23. CASE DataReturned
    <3>1. SlotsOK'
      BY <2>23, <2>h, <2>p, SlotFacts, RequestFacts DEF DataReturned, Succeeds, LeaveCall, PrimeData,
         CallUnchanged, SlotsOK
    <3>2. RegsOK'
      BY <2>23, <2>h, <2>p DEF DataReturned, Succeeds, LeaveCall, PrimeData, CallUnchanged,
        RegsOK
    <3>3. StageOK'
      BY <2>23, <2>h, <2>p, RequestFacts DEF DataReturned, Succeeds, LeaveCall, PrimeData,
         CallUnchanged, StageOK, Stages, Places, Calls
    <3>4. MouseOK'
      <4>1. LeaveCall(pending_setup.id)
        BY <2>23, <2>p, <2>h DEF DataReturned, Succeeds
      <4>2. PipeOK'
        BY <2>p, <4>1, LeaveOK DEF MouseOK, PipeOK
      <4> QED
        BY <2>23, <4>1, <4>2 DEF DataReturned, CallUnchanged, PipeOK, MouseOK
    <3>5. RequestsReal'
      BY <2>23, RequestFacts DEF DataReturned, Succeeds, LeaveCall, PrimeData, CallUnchanged,
        RequestsReal, HostOK, StageOK, Calls, hostVars, regVars, stageVars
    <3> QED
      BY <2>23, <3>1, <3>2, <3>3, <3>4, <3>5 DEF DataReturned, Succeeds, LeaveCall, PrimeData,
         CallUnchanged, HostOK, LeftOK, DevAddrOK, StateOK, hostVars, regVars,
         stateVars, stageVars, mouseVars
  <2>24. CASE NoDataReturned
    <3>1. SlotsOK'
      BY <2>24, <2>h, <2>p, SlotFacts, RequestFacts DEF NoDataReturned, Succeeds, LeaveCall, PrimeAck,
         CallUnchanged, SlotsOK
    <3>2. RegsOK'
      BY <2>24, <2>h, <2>p DEF NoDataReturned, Succeeds, LeaveCall, PrimeAck, CallUnchanged,
        RegsOK
    <3>3. StageOK'
      BY <2>24, <2>h, <2>p, RequestFacts DEF NoDataReturned, Succeeds, LeaveCall, PrimeAck,
         CallUnchanged, StageOK, Stages, Places, Calls
    <3>4. MouseOK'
      <4>1. LeaveCall(pending_setup.id)
        BY <2>24, <2>p, <2>h DEF NoDataReturned, Succeeds
      <4>2. PipeOK'
        BY <2>p, <4>1, LeaveOK DEF MouseOK, PipeOK
      <4> QED
        BY <2>24, <4>1, <4>2 DEF NoDataReturned, CallUnchanged, PipeOK, MouseOK
    <3>5. RequestsReal'
      BY <2>24, RequestFacts DEF NoDataReturned, Succeeds, LeaveCall, PrimeAck, CallUnchanged,
        RequestsReal, HostOK, StageOK, Calls, hostVars, regVars, stageVars
    <3> QED
      BY <2>24, <3>1, <3>2, <3>3, <3>4, <3>5 DEF NoDataReturned, Succeeds, LeaveCall, PrimeAck,
         CallUnchanged, HostOK, LeftOK, DevAddrOK, StateOK, hostVars, regVars,
         stateVars, stageVars, mouseVars
  <2>25. CASE ReportReturned
    <3>1. SlotsOK'
      BY <2>25, <2>h, <2>p, SlotFacts, RequestFacts DEF ReportReturned, Succeeds, LeaveCall,
         PrimeClose, ReportDone, CallUnchanged, SlotsOK
    <3>2. RegsOK'
      BY <2>25, <2>h, <2>p DEF ReportReturned, Succeeds, LeaveCall, PrimeClose, ReportDone, CallUnchanged,
         RegsOK
    <3>3. StageOK'
      BY <2>25, <2>h, <2>p, RequestFacts DEF ReportReturned, Succeeds, LeaveCall, PrimeClose,
         ReportDone, CallUnchanged, StageOK, Stages, Places, Calls
    <3>4. MouseOK'
      <4>1. LeaveCall(pending_setup_saved.id)
        BY <2>25, <2>p, <2>h DEF ReportReturned, Succeeds
      <4>2. PipeOK'
        BY <2>p, <4>1, LeaveOK DEF MouseOK, PipeOK
      <4> QED
        BY <2>25, <4>1, <4>2 DEF ReportReturned, CallUnchanged, PipeOK, MouseOK
    <3>5. RequestsReal'
      BY <2>25, RequestFacts DEF ReportReturned, Succeeds, LeaveCall, PrimeClose, ReportDone,
         CallUnchanged, RequestsReal, HostOK, StageOK, Calls, hostVars, regVars, stageVars
    <3> QED
      BY <2>25, <3>1, <3>2, <3>3, <3>4, <3>5 DEF ReportReturned, Succeeds, LeaveCall, PrimeClose,
         ReportDone, CallUnchanged, HostOK, LeftOK, DevAddrOK, StateOK, hostVars, regVars,
         stateVars, stageVars, mouseVars
  <2>26. CASE SetupsDone
    <3>1. StageOK'
      BY <2>26, <2>h, <2>p, RequestFacts DEF SetupsDone, StageOK, Stages, Places, Calls,
         hostVars, regVars, stateVars, stageVars, mouseVars
    <3>2. RequestsReal'
      BY <2>26, RequestFacts DEF SetupsDone, RequestsReal, HostOK, StageOK, Calls, hostVars,
         regVars, stageVars
    <3> QED
      BY <2>26, <3>1, <3>2 DEF SetupsDone, HostOK, LeftOK, SlotsOK, RegsOK, DevAddrOK,
         StateOK, MouseOK, hostVars, regVars, stateVars, stageVars, mouseVars
  <2>27. CASE NothingCompleted
    <3>1. StageOK'
      BY <2>27, <2>h, <2>p, RequestFacts DEF NothingCompleted, CompletionUnchanged, StageOK,
         Stages, Places, Calls
    <3>2. RequestsReal'
      BY <2>27, RequestFacts DEF NothingCompleted, CompletionUnchanged, RequestsReal,
         HostOK, StageOK, Calls, hostVars, regVars, stageVars
    <3> QED
      BY <2>27, <3>1, <3>2 DEF NothingCompleted, CompletionUnchanged, HostOK, LeftOK,
         SlotsOK, RegsOK, DevAddrOK, StateOK, MouseOK, hostVars, regVars, stateVars,
         stageVars, mouseVars
  <2>28. CASE ReportCompleted
    <3>1. RegsOK'
      BY <2>28, <2>h, <2>p DEF ReportCompleted, CompletionUnchanged, RegsOK
    <3>2. StageOK'
      BY <2>28, <2>h, <2>p, RequestFacts DEF ReportCompleted, CompletionUnchanged, StageOK,
         Stages, Places, Calls
    <3>3. RequestsReal'
      BY <2>28, RequestFacts DEF ReportCompleted, CompletionUnchanged, RequestsReal, HostOK,
         StageOK, Calls, hostVars, regVars, stageVars
    <3> QED
      BY <2>28, <3>1, <3>2, <3>3 DEF ReportCompleted, CompletionUnchanged, HostOK, LeftOK,
         SlotsOK, DevAddrOK, StateOK, MouseOK, hostVars, regVars, stateVars, stageVars,
         mouseVars
  <2>29. CASE DataCompleted
    <3>1. SlotsOK'
      BY <2>29, <2>h, <2>p, SlotFacts, RequestFacts DEF DataCompleted, CompletionUnchanged,
         PrimeAck, SlotsOK
    <3>2. RegsOK'
      BY <2>29, <2>h, <2>p DEF DataCompleted, CompletionUnchanged, PrimeAck, RegsOK
    <3>3. StageOK'
      BY <2>29, <2>h, <2>p, RequestFacts DEF DataCompleted, CompletionUnchanged, PrimeAck,
         StageOK, Stages, Places, Calls
    <3>4. RequestsReal'
      BY <2>29, RequestFacts DEF DataCompleted, CompletionUnchanged, PrimeAck, RequestsReal,
         HostOK, StageOK, Calls, hostVars, regVars, stageVars
    <3> QED
      BY <2>29, <3>1, <3>2, <3>3, <3>4 DEF DataCompleted, CompletionUnchanged, PrimeAck,
         HostOK, LeftOK, DevAddrOK, StateOK, MouseOK, hostVars, regVars, stateVars,
         stageVars, mouseVars
  <2>30. CASE OtherCompleted
    <3>1. RegsOK'
      BY <2>30, <2>h, <2>p DEF OtherCompleted, CompletionUnchanged, RegsOK
    <3>2. StageOK'
      BY <2>30, <2>h, <2>p, RequestFacts DEF OtherCompleted, CompletionUnchanged, StageOK,
         Stages, Places, Calls
    <3>3. RequestsReal'
      BY <2>30, RequestFacts DEF OtherCompleted, CompletionUnchanged, RequestsReal, HostOK,
         StageOK, Calls, hostVars, regVars, stageVars
    <3> QED
      BY <2>30, <3>1, <3>2, <3>3 DEF OtherCompleted, CompletionUnchanged, HostOK, LeftOK,
         SlotsOK, DevAddrOK, StateOK, MouseOK, hostVars, regVars, stateVars, stageVars,
         mouseVars
  <2>31. CASE Process
    <3>1. StageOK'
      BY <2>31, <2>h, <2>p, RequestFacts DEF Process, StageOK, Stages, Places, Calls,
         hostVars, regVars, stateVars, stageVars, mouseVars
    <3>2. RequestsReal'
      BY <2>31, RequestFacts DEF Process, RequestsReal, HostOK, StageOK, Calls, hostVars,
         regVars, stageVars
    <3> QED
      BY <2>31, <3>1, <3>2 DEF Process, HostOK, LeftOK, SlotsOK, RegsOK, DevAddrOK, StateOK,
         MouseOK, hostVars, regVars, stateVars, stageVars, mouseVars
  <2>32. CASE ReportQueued
    <3>1. StageOK'
      BY <2>32, <2>h, <2>p, RequestFacts DEF ReportQueued, Count, Hand, StageOK, Stages, Places,
         Calls, hostVars, regVars, stateVars, stageVars
    <3>2. MouseOK'
      <4>1. Hand(pending_setup_saved.id) /\ pending_setup_saved.id \in 1..MaxSetups
        BY <2>32, <2>p, <2>h DEF ReportQueued, RequestsReal, Calls
      <4>2. PipeOK'
        BY <2>p, <4>1, HandOK DEF MouseOK, PipeOK
      <4> QED
        BY <2>32, <2>p, <4>1, <4>2 DEF ReportQueued, Count, PipeOK, MouseOK
    <3>3. RequestsReal'
      BY <2>32, RequestFacts DEF ReportQueued, Count, Hand, RequestsReal, HostOK, StageOK, Calls,
         hostVars, regVars, stageVars
    <3> QED
      BY <2>32, <3>1, <3>2, <3>3 DEF ReportQueued, Count, Hand, HostOK, LeftOK, SlotsOK, RegsOK,
         DevAddrOK, StateOK, hostVars, regVars, stateVars, stageVars, mouseVars
  <2>33. CASE UNCHANGED vars
    BY <2>33 DEF vars, RequestsReal, HostOK, LeftOK, SlotsOK, RegsOK, DevAddrOK, StateOK, StageOK, MouseOK
  <2>34. CASE EmptyReturned
    <3>1. SlotsOK'
      BY <2>34, <2>h, <2>p, SlotFacts, RequestFacts DEF EmptyReturned, Succeeds, LeaveCall, PrimeClose,
         CallUnchanged, SlotsOK
    <3>2. RegsOK'
      BY <2>34, <2>h, <2>p DEF EmptyReturned, Succeeds, LeaveCall, PrimeClose, CallUnchanged,
        RegsOK
    <3>3. StageOK'
      BY <2>34, <2>h, <2>p, RequestFacts DEF EmptyReturned, Succeeds, LeaveCall, PrimeClose,
         CallUnchanged, StageOK, Stages, Places, Calls
    <3>4. MouseOK'
      <4>1. LeaveCall(pending_setup.id)
        BY <2>34, <2>p, <2>h DEF EmptyReturned, Succeeds
      <4>2. PipeOK'
        BY <2>p, <4>1, LeaveOK DEF MouseOK, PipeOK
      <4> QED
        BY <2>34, <4>1, <4>2 DEF EmptyReturned, CallUnchanged, PipeOK, MouseOK
    <3>5. RequestsReal'
      BY <2>34, RequestFacts DEF EmptyReturned, Succeeds, LeaveCall, PrimeClose, CallUnchanged,
        RequestsReal, HostOK, StageOK, Calls, hostVars, regVars, stageVars
    <3> QED
      BY <2>34, <3>1, <3>2, <3>3, <3>4, <3>5 DEF EmptyReturned, Succeeds, LeaveCall, PrimeClose,
         CallUnchanged, HostOK, LeftOK, DevAddrOK, StateOK, hostVars, regVars,
         stateVars, stageVars, mouseVars
  <2>35. ASSUME NEW r \in 1..MaxSetups, MouseServes(r) PROVE TypeInv'
    <3>1. MouseOK'
      BY <2>35 DEF MouseServes, NotFirmware, MouseOK
    <3> QED
      BY <2>35, <3>1 DEF MouseServes, NotFirmware, RequestsReal, HostOK, LeftOK, SlotsOK, RegsOK,
         DevAddrOK, StateOK, StageOK, hostVars, regVars, stateVars, stageVars
  <2>36. CASE MouseLoses
    <3>1. MouseOK'
      BY <2>36 DEF MouseLoses, NotFirmware, MouseOK
    <3> QED
      BY <2>36, <3>1 DEF MouseLoses, NotFirmware, RequestsReal, HostOK, LeftOK, SlotsOK, RegsOK,
         DevAddrOK, StateOK, StageOK, hostVars, regVars, stateVars, stageVars
  <2>37. CASE OtherCall
    <3>1. MouseOK'
      BY <2>37 DEF OtherCall, Leftover, NotFirmware, MouseOK
    <3> QED
      BY <2>37, <3>1 DEF OtherCall, NotFirmware, RequestsReal, HostOK, LeftOK, SlotsOK, RegsOK,
         DevAddrOK, StateOK, StageOK, hostVars, regVars, stateVars, stageVars
  <2> QED
    BY <2>1, <2>2, <2>3, <2>4, <2>5, <2>6, <2>7, <2>8, <2>9, <2>10, <2>11, <2>12, <2>13,
       <2>14, <2>15, <2>16, <2>17, <2>18, <2>19, <2>20, <2>21, <2>22, <2>23, <2>24, <2>25,
       <2>26, <2>27, <2>28, <2>29, <2>30, <2>31, <2>32, <2>33, <2>34, <2>35, <2>36, <2>37 DEF Next,
            Environment, MouseActs,
       HostSends, HostTokens, Firmware, HandleSetupPacket, CallReturns, PollCompletions
<1>3. QED
  BY <1>1, <1>2, PTL DEF Spec

\* Every variable keeps its type: requests and slots stay within the SETUPs
\* the PC has sent, and the stage and the place in poll() stay within the enum.
THEOREM TypeCorrect == Spec => []TypeOK
<1>1. TypeInv => TypeOK
  BY DEF TypeInv, TypeOK, RequestsReal
<1>2. QED
  BY <1>1, TypeInvariant, PTL

-----------------------------------------------------------------------------
\* The request the firmware is working on is the PC's latest, unless a newer
\* one is waiting to be read.
PendingIsCurrent ==
  ~setupstat /\ (control_stage # "IDLE" \/ pc \in Calls \cup {"address"})
    => pending_setup = host.req

\* A SET_REPORT in its data stage is the one that was saved.
ReportIsSaved ==
  /\ pc \in {"throttleReport", "callReport"} => control_stage = "DATA_OUT"
  /\ control_stage = "DATA_OUT" => pending_setup_saved = pending_setup

\* A STALL belongs to the request it was set for.
StallIsCurrent == stalled => ~setupstat /\ pending_setup = host.req

ReplyInv == PendingIsCurrent /\ ReportIsSaved /\ StallIsCurrent /\ NoStaleReply

-----------------------------------------------------------------------------
\* The three invariants that make NoStaleReply inductive, and it.
THEOREM ReplyInvariant == Spec => []ReplyInv
<1>1. Init => ReplyInv
  BY DEF Init, ReplyInv, PendingIsCurrent, ReportIsSaved, StallIsCurrent, NoStaleReply, Calls,
     NoSlot, NoRequest
<1>2. TypeInv /\ ReplyInv /\ [Next]_vars => ReplyInv'
  <2> SUFFICES ASSUME TypeInv, ReplyInv, [Next]_vars PROVE ReplyInv'
    OBVIOUS
  <2> USE DEF ReplyInv
  <2>r. DOMAIN host = {"req", "phase", "addr", "conf", "late"} /\ setupstat \in BOOLEAN
    BY DEF TypeInv, VarsOK, HostOK, RegsOK
  <2>1. ASSUME NEW k \in Kinds, NEW v \in ValuesOf(k), HostSetup(k, v) PROVE ReplyInv'
    <3>1. PendingIsCurrent'
      BY <2>1, <2>r DEF HostSetup, PendingIsCurrent, Calls, stateVars, stageVars, mouseVars
    <3>2. StallIsCurrent'
      BY <2>1, <2>r DEF HostSetup, StallIsCurrent, PendingIsCurrent, Calls, stateVars,
         stageVars, mouseVars
    <3>3. NoStaleReply'
      BY <2>1, <2>r DEF HostSetup, NoStaleReply, PendingIsCurrent, ReportIsSaved,
         StallIsCurrent, Calls, NoSlot, stateVars, stageVars, mouseVars
    <3> QED
      BY <2>1, <3>1, <3>2, <3>3 DEF ReplyInv, HostSetup, ReportIsSaved, stateVars,
         stageVars, mouseVars
  <2>2. CASE HostReset
    <3>1. PendingIsCurrent'
      BY <2>2, <2>r DEF HostReset, PendingIsCurrent, Calls, stateVars, stageVars, mouseVars
    <3>2. StallIsCurrent'
      BY <2>2, <2>r DEF HostReset, StallIsCurrent, PendingIsCurrent, Calls, stateVars,
         stageVars, mouseVars
    <3>3. NoStaleReply'
      BY <2>2, <2>r DEF HostReset, NoStaleReply, PendingIsCurrent, ReportIsSaved,
         StallIsCurrent, Calls, NoSlot, stateVars, stageVars, mouseVars
    <3> QED
      BY <2>2, <3>1, <3>2, <3>3 DEF ReplyInv, HostReset, ReportIsSaved, stateVars,
         stageVars, mouseVars
  <2>3. CASE HostReadsData
    <3>1. PendingIsCurrent'
      BY <2>3, <2>r DEF HostReadsData, PendingIsCurrent, Calls, stateVars, stageVars,
         mouseVars
    <3>2. StallIsCurrent'
      BY <2>3, <2>r DEF HostReadsData, StallIsCurrent, PendingIsCurrent, Calls, stateVars,
         stageVars, mouseVars
    <3>3. NoStaleReply'
      BY <2>3, <2>r DEF HostReadsData, NoStaleReply, PendingIsCurrent, ReportIsSaved,
         StallIsCurrent, Calls, NoSlot, stateVars, stageVars, mouseVars
    <3> QED
      BY <2>3, <3>1, <3>2, <3>3 DEF ReplyInv, HostReadsData, ReportIsSaved, stateVars,
         stageVars, mouseVars
  <2>4. CASE HostSendsStatus
    <3>1. PendingIsCurrent'
      BY <2>4, <2>r DEF HostSendsStatus, PendingIsCurrent, Calls, stateVars, stageVars,
         mouseVars
    <3>2. StallIsCurrent'
      BY <2>4, <2>r DEF HostSendsStatus, StallIsCurrent, PendingIsCurrent, Calls, stateVars,
         stageVars, mouseVars
    <3>3. NoStaleReply'
      BY <2>4, <2>r DEF HostSendsStatus, NoStaleReply, PendingIsCurrent, ReportIsSaved,
         StallIsCurrent, Calls, NoSlot, stateVars, stageVars, mouseVars
    <3> QED
      BY <2>4, <3>1, <3>2, <3>3 DEF ReplyInv, HostSendsStatus, ReportIsSaved, stateVars,
         stageVars, mouseVars
  <2>5. CASE HostSendsReport
    <3>1. PendingIsCurrent'
      BY <2>5, <2>r DEF HostSendsReport, PendingIsCurrent, Calls, stateVars, stageVars,
         mouseVars
    <3>2. StallIsCurrent'
      BY <2>5, <2>r DEF HostSendsReport, StallIsCurrent, PendingIsCurrent, Calls, stateVars,
         stageVars, mouseVars
    <3>3. NoStaleReply'
      BY <2>5, <2>r DEF HostSendsReport, NoStaleReply, PendingIsCurrent, ReportIsSaved,
         StallIsCurrent, Calls, NoSlot, stateVars, stageVars, mouseVars
    <3> QED
      BY <2>5, <3>1, <3>2, <3>3 DEF ReplyInv, HostSendsReport, ReportIsSaved, stateVars,
         stageVars, mouseVars
  <2>6. CASE HostReadsAck
    <3>1. PendingIsCurrent'
      BY <2>6, <2>r DEF HostReadsAck, PendingIsCurrent, Calls, stateVars, stageVars,
         mouseVars
    <3>2. StallIsCurrent'
      BY <2>6, <2>r DEF HostReadsAck, StallIsCurrent, PendingIsCurrent, Calls, stateVars,
         stageVars, mouseVars
    <3>3. NoStaleReply'
      BY <2>6, <2>r DEF HostReadsAck, NoStaleReply, PendingIsCurrent, ReportIsSaved,
         StallIsCurrent, Calls, NoSlot, stateVars, stageVars, mouseVars
    <3> QED
      BY <2>6, <3>1, <3>2, <3>3 DEF ReplyInv, HostReadsAck, ReportIsSaved, stateVars,
         stageVars, mouseVars
  <2>7. CASE HostSeesStall
    <3>1. PendingIsCurrent'
      BY <2>7, <2>r DEF HostSeesStall, PendingIsCurrent, Calls, regVars, stateVars,
         stageVars, mouseVars
    <3>2. StallIsCurrent'
      BY <2>7, <2>r DEF HostSeesStall, StallIsCurrent, PendingIsCurrent, Calls, regVars,
         stateVars, stageVars, mouseVars
    <3>3. NoStaleReply'
      BY <2>7, <2>r DEF HostSeesStall, NoStaleReply, PendingIsCurrent, ReportIsSaved,
         StallIsCurrent, Calls, NoSlot, regVars, stateVars, stageVars, mouseVars
    <3> QED
      BY <2>7, <3>1, <3>2, <3>3 DEF ReplyInv, HostSeesStall, ReportIsSaved, regVars,
         stateVars, stageVars, mouseVars
  <2>8. CASE Unplug
    BY <2>8 DEF Unplug, ReplyInv, PendingIsCurrent, ReportIsSaved, StallIsCurrent,
       NoStaleReply, regVars, stateVars, stageVars
  <2>9. CASE Plug
    BY <2>9 DEF Plug, ReplyInv, PendingIsCurrent, ReportIsSaved, StallIsCurrent,
       NoStaleReply, hostVars, regVars, stateVars, stageVars
  <2>10. CASE PollBegin
    <3>1. PendingIsCurrent'
      BY <2>10, <2>r DEF PollBegin, PendingIsCurrent, Calls, hostVars, stateVars, stageVars,
         mouseVars
    <3>2. ReportIsSaved'
      BY <2>10, <2>r DEF PollBegin, ReportIsSaved, hostVars, stateVars, stageVars, mouseVars
    <3> QED
      BY <2>10, <3>1, <3>2 DEF ReplyInv, PollBegin, StallIsCurrent, NoStaleReply, hostVars,
         stateVars, stageVars, mouseVars
  <2>11. CASE HandleInterrupt
    <3>1. PendingIsCurrent'
      BY <2>11, <2>r DEF HandleInterrupt, AfterIrq, PendingIsCurrent, Calls, hostVars,
         stateVars, mouseVars
    <3>2. ReportIsSaved'
      BY <2>11, <2>r DEF HandleInterrupt, AfterIrq, ReportIsSaved, hostVars, stateVars,
         mouseVars
    <3>3. NoStaleReply'
      BY <2>11, <2>r DEF HandleInterrupt, AfterIrq, NoStaleReply, PendingIsCurrent,
         ReportIsSaved, StallIsCurrent, Calls, NoSlot, hostVars, stateVars, mouseVars
    <3> QED
      BY <2>11, <3>1, <3>2, <3>3 DEF ReplyInv, HandleInterrupt, AfterIrq, StallIsCurrent,
         hostVars, stateVars, mouseVars
  <2>12. CASE HandleReset
    <3>1. PendingIsCurrent'
      BY <2>12, <2>r DEF HandleReset, PendingIsCurrent, Calls, hostVars, mouseVars
    <3>2. ReportIsSaved'
      BY <2>12, <2>r DEF HandleReset, ReportIsSaved, hostVars, mouseVars
    <3>3. StallIsCurrent'
      BY <2>12, <2>r DEF HandleReset, StallIsCurrent, PendingIsCurrent, Calls, hostVars,
         mouseVars
    <3>4. NoStaleReply'
      BY <2>12, <2>r DEF HandleReset, NoStaleReply, PendingIsCurrent, ReportIsSaved,
         StallIsCurrent, Calls, NoSlot, hostVars, mouseVars
    <3> QED
      BY <2>12, <3>1, <3>2, <3>3, <3>4 DEF ReplyInv
  <2>13. CASE RefuseSetup
    <3>1. PendingIsCurrent'
      BY <2>13, <2>r DEF RefuseSetup, TakeSetup, Flush, NotSaved, NotSent, PendingIsCurrent,
         Calls, hostVars, stateVars
    <3>2. ReportIsSaved'
      BY <2>13, <2>r DEF RefuseSetup, TakeSetup, Flush, NotSaved, NotSent, ReportIsSaved,
         hostVars, stateVars
    <3>3. StallIsCurrent'
      BY <2>13, <2>r DEF RefuseSetup, TakeSetup, Flush, NotSaved, NotSent, StallIsCurrent,
         PendingIsCurrent, Calls, hostVars, stateVars
    <3>4. NoStaleReply'
      BY <2>13, <2>r DEF RefuseSetup, TakeSetup, Flush, NotSaved, NotSent, NoStaleReply,
         PendingIsCurrent, ReportIsSaved, StallIsCurrent, Calls, NoSlot, hostVars, stateVars
    <3> QED
      BY <2>13, <3>1, <3>2, <3>3, <3>4 DEF ReplyInv
  <2>14. CASE AckSetup
    <3>1. PendingIsCurrent'
      BY <2>14, <2>r DEF AckSetup, TakeSetup, PrimeAck, NotSaved, NotSent, AckedLocally,
         PendingIsCurrent, Calls, hostVars, stateVars
    <3>2. ReportIsSaved'
      BY <2>14, <2>r DEF AckSetup, TakeSetup, PrimeAck, NotSaved, NotSent, AckedLocally,
         ReportIsSaved, hostVars, stateVars
    <3>3. StallIsCurrent'
      BY <2>14, <2>r DEF AckSetup, TakeSetup, PrimeAck, NotSaved, NotSent, AckedLocally,
         StallIsCurrent, PendingIsCurrent, Calls, hostVars, stateVars
    <3>4. NoStaleReply'
      BY <2>14, <2>r DEF AckSetup, TakeSetup, PrimeAck, NotSaved, NotSent, AckedLocally,
         NoStaleReply, PendingIsCurrent, ReportIsSaved, StallIsCurrent, Calls, NoSlot,
         hostVars, stateVars
    <3> QED
      BY <2>14, <3>1, <3>2, <3>3, <3>4 DEF ReplyInv
  <2>15. CASE TakeSetAddress
    <3>1. PendingIsCurrent'
      BY <2>15, <2>r DEF TakeSetAddress, TakeSetup, PrimeAck, NotSaved, NotSent,
         PendingIsCurrent, Calls, hostVars, stateVars
    <3>2. ReportIsSaved'
      BY <2>15, <2>r DEF TakeSetAddress, TakeSetup, PrimeAck, NotSaved, NotSent,
         ReportIsSaved, hostVars, stateVars
    <3>3. StallIsCurrent'
      BY <2>15, <2>r DEF TakeSetAddress, TakeSetup, PrimeAck, NotSaved, NotSent,
         StallIsCurrent, PendingIsCurrent, Calls, hostVars, stateVars
    <3>4. NoStaleReply'
      BY <2>15, <2>r DEF TakeSetAddress, TakeSetup, PrimeAck, NotSaved, NotSent,
         NoStaleReply, PendingIsCurrent, ReportIsSaved, StallIsCurrent, Calls, NoSlot,
         hostVars, stateVars
    <3> QED
      BY <2>15, <3>1, <3>2, <3>3, <3>4 DEF ReplyInv
  <2>16. CASE TakeSetReport
    <3>1. PendingIsCurrent'
      BY <2>16, <2>r DEF TakeSetReport, TakeSetup, PrimeAck, NotSent, PendingIsCurrent,
         Calls, hostVars, stateVars
    <3>2. ReportIsSaved'
      BY <2>16, <2>r DEF TakeSetReport, TakeSetup, PrimeAck, NotSent, ReportIsSaved,
         hostVars, stateVars
    <3>3. StallIsCurrent'
      BY <2>16, <2>r DEF TakeSetReport, TakeSetup, PrimeAck, NotSent, StallIsCurrent,
         PendingIsCurrent, Calls, hostVars, stateVars
    <3>4. NoStaleReply'
      BY <2>16, <2>r DEF TakeSetReport, TakeSetup, PrimeAck, NotSent, NoStaleReply,
         PendingIsCurrent, ReportIsSaved, StallIsCurrent, Calls, NoSlot, hostVars, stateVars
    <3> QED
      BY <2>16, <3>1, <3>2, <3>3, <3>4 DEF ReplyInv
  <2>17. CASE ServeCached
    <3>1. PendingIsCurrent'
      BY <2>17, <2>r DEF ServeCached, TakeSetup, PrimeData, NotSaved, NotSent,
         PendingIsCurrent, Calls, hostVars, stateVars
    <3>2. ReportIsSaved'
      BY <2>17, <2>r DEF ServeCached, TakeSetup, PrimeData, NotSaved, NotSent,
         ReportIsSaved, hostVars, stateVars
    <3>3. StallIsCurrent'
      BY <2>17, <2>r DEF ServeCached, TakeSetup, PrimeData, NotSaved, NotSent,
         StallIsCurrent, PendingIsCurrent, Calls, hostVars, stateVars
    <3>4. NoStaleReply'
      BY <2>17, <2>r DEF ServeCached, TakeSetup, PrimeData, NotSaved, NotSent, NoStaleReply,
         PendingIsCurrent, ReportIsSaved, StallIsCurrent, Calls, NoSlot, hostVars, stateVars
    <3> QED
      BY <2>17, <3>1, <3>2, <3>3, <3>4 DEF ReplyInv
  <2>18. CASE Forward
    <3>1. PendingIsCurrent'
      BY <2>18, <2>r DEF Forward, TakeSetup, Flush, NotSaved, CallFor, AckedLocally, Count,
         PendingIsCurrent, Calls, hostVars, stateVars
    <3>2. ReportIsSaved'
      BY <2>18, <2>r DEF Forward, TakeSetup, Flush, NotSaved, CallFor, AckedLocally, Count,
         ReportIsSaved, hostVars, stateVars
    <3>3. StallIsCurrent'
      BY <2>18, <2>r DEF Forward, TakeSetup, Flush, NotSaved, CallFor, AckedLocally, Count,
         StallIsCurrent, PendingIsCurrent, Calls, hostVars, stateVars
    <3>4. NoStaleReply'
      BY <2>18, <2>r DEF Forward, TakeSetup, Flush, NotSaved, CallFor, AckedLocally, Count,
         NoStaleReply, PendingIsCurrent, ReportIsSaved, StallIsCurrent, Calls, NoSlot,
         hostVars, stateVars
    <3> QED
      BY <2>18, <3>1, <3>2, <3>3, <3>4 DEF ReplyInv
  <2>19. CASE StageAddress
    <3>1. PendingIsCurrent'
      BY <2>19, <2>r DEF StageAddress, PendingIsCurrent, Calls, hostVars, stageVars,
         mouseVars
    <3>2. ReportIsSaved'
      BY <2>19, <2>r DEF StageAddress, ReportIsSaved, hostVars, stageVars, mouseVars
    <3> QED
      BY <2>19, <3>1, <3>2 DEF ReplyInv, StageAddress, StallIsCurrent, NoStaleReply,
         hostVars, stageVars, mouseVars
  <2>20. CASE CallFails
    <3>1. PendingIsCurrent'
      BY <2>20, <2>r DEF CallFails, Stall, Succeeds, LeaveCall, CallUnchanged,
        PendingIsCurrent, Calls, hostVars
    <3>2. ReportIsSaved'
      BY <2>20, <2>r DEF CallFails, Stall, Succeeds, LeaveCall, CallUnchanged, ReportIsSaved,
         hostVars
    <3>3. StallIsCurrent'
      BY <2>20, <2>r DEF CallFails, Stall, Succeeds, LeaveCall, CallUnchanged, StallIsCurrent,
         PendingIsCurrent, Calls, hostVars
    <3>4. NoStaleReply'
      BY <2>20, <2>r DEF CallFails, Stall, Succeeds, LeaveCall, CallUnchanged, NoStaleReply,
         PendingIsCurrent, ReportIsSaved, StallIsCurrent, Calls, NoSlot, hostVars
    <3> QED
      BY <2>20, <3>1, <3>2, <3>3, <3>4 DEF ReplyInv
  <2>21. CASE ConfigForwarded
    <3>1. PendingIsCurrent'
      BY <2>21, <2>r DEF ConfigForwarded, Succeeds, LeaveCall, PrimeAck, CallUnchanged,
        PendingIsCurrent, Calls, hostVars
    <3>2. ReportIsSaved'
      BY <2>21, <2>r DEF ConfigForwarded, Succeeds, LeaveCall, PrimeAck, CallUnchanged,
        ReportIsSaved, hostVars
    <3>3. NoStaleReply'
      BY <2>21, <2>r DEF ConfigForwarded, Succeeds, LeaveCall, PrimeAck, CallUnchanged,
        NoStaleReply, PendingIsCurrent, ReportIsSaved, StallIsCurrent, Calls, NoSlot,
         hostVars
    <3> QED
      BY <2>21, <3>1, <3>2, <3>3 DEF ReplyInv, ConfigForwarded, Succeeds, LeaveCall, PrimeAck,
         CallUnchanged, StallIsCurrent, hostVars
  <2>22. CASE ConfigParsed
    <3>1. PendingIsCurrent'
      BY <2>22, <2>r DEF ConfigParsed, ConfigAcked, PrimeAck, CallUnchanged,
        PendingIsCurrent, Calls, hostVars
    <3>2. ReportIsSaved'
      BY <2>22, <2>r DEF ConfigParsed, ConfigAcked, PrimeAck, CallUnchanged,
        ReportIsSaved, hostVars
    <3>3. NoStaleReply'
      BY <2>22, <2>r DEF ConfigParsed, ConfigAcked, PrimeAck, CallUnchanged,
        NoStaleReply, PendingIsCurrent, ReportIsSaved, StallIsCurrent, Calls, NoSlot,
         hostVars
    <3> QED
      BY <2>22, <3>1, <3>2, <3>3 DEF ReplyInv, ConfigParsed, ConfigAcked, PrimeAck,
         CallUnchanged, StallIsCurrent, hostVars
  <2>23. CASE DataReturned
    <3>1. PendingIsCurrent'
      BY <2>23, <2>r DEF DataReturned, Succeeds, LeaveCall, PrimeData, CallUnchanged,
        PendingIsCurrent, Calls, hostVars
    <3>2. ReportIsSaved'
      BY <2>23, <2>r DEF DataReturned, Succeeds, LeaveCall, PrimeData, CallUnchanged,
        ReportIsSaved, hostVars
    <3>3. NoStaleReply'
      BY <2>23, <2>r DEF DataReturned, Succeeds, LeaveCall, PrimeData, CallUnchanged,
        NoStaleReply, PendingIsCurrent, ReportIsSaved, StallIsCurrent, Calls, NoSlot,
         hostVars
    <3> QED
      BY <2>23, <3>1, <3>2, <3>3 DEF ReplyInv, DataReturned, Succeeds, LeaveCall, PrimeData,
         CallUnchanged, StallIsCurrent, hostVars
  <2>24. CASE NoDataReturned
    <3>1. PendingIsCurrent'
      BY <2>24, <2>r DEF NoDataReturned, Succeeds, LeaveCall, PrimeAck, CallUnchanged,
        PendingIsCurrent, Calls, hostVars
    <3>2. ReportIsSaved'
      BY <2>24, <2>r DEF NoDataReturned, Succeeds, LeaveCall, PrimeAck, CallUnchanged,
        ReportIsSaved, hostVars
    <3>3. NoStaleReply'
      BY <2>24, <2>r DEF NoDataReturned, Succeeds, LeaveCall, PrimeAck, CallUnchanged,
        NoStaleReply, PendingIsCurrent, ReportIsSaved, StallIsCurrent, Calls, NoSlot,
         hostVars
    <3> QED
      BY <2>24, <3>1, <3>2, <3>3 DEF ReplyInv, NoDataReturned, Succeeds, LeaveCall, PrimeAck,
         CallUnchanged, StallIsCurrent, hostVars
  <2>25. CASE ReportReturned
    <3>1. PendingIsCurrent'
      BY <2>25, <2>r DEF ReportReturned, Succeeds, LeaveCall, PrimeClose, ReportDone, CallUnchanged,
         PendingIsCurrent, Calls, hostVars
    <3>2. ReportIsSaved'
      BY <2>25, <2>r DEF ReportReturned, Succeeds, LeaveCall, PrimeClose, ReportDone, CallUnchanged,
         ReportIsSaved, hostVars
    <3>3. NoStaleReply'
      BY <2>25, <2>r DEF ReportReturned, Succeeds, LeaveCall, PrimeClose, ReportDone, CallUnchanged,
         NoStaleReply, PendingIsCurrent, ReportIsSaved, StallIsCurrent, Calls, NoSlot,
         hostVars
    <3> QED
      BY <2>25, <3>1, <3>2, <3>3 DEF ReplyInv, ReportReturned, Succeeds, LeaveCall, PrimeClose,
         ReportDone, CallUnchanged, StallIsCurrent, hostVars
  <2>26. CASE SetupsDone
    <3>1. PendingIsCurrent'
      BY <2>26, <2>r DEF SetupsDone, PendingIsCurrent, Calls, hostVars, regVars, stateVars,
         stageVars, mouseVars
    <3>2. ReportIsSaved'
      BY <2>26, <2>r DEF SetupsDone, ReportIsSaved, hostVars, regVars, stateVars, stageVars,
         mouseVars
    <3> QED
      BY <2>26, <3>1, <3>2 DEF ReplyInv, SetupsDone, StallIsCurrent, NoStaleReply, hostVars,
         regVars, stateVars, stageVars, mouseVars
  <2>27. CASE NothingCompleted
    <3>1. PendingIsCurrent'
      BY <2>27, <2>r DEF NothingCompleted, CompletionUnchanged, PendingIsCurrent, Calls,
         hostVars, stateVars, mouseVars
    <3>2. ReportIsSaved'
      BY <2>27, <2>r DEF NothingCompleted, CompletionUnchanged, ReportIsSaved, hostVars,
         stateVars, mouseVars
    <3> QED
      BY <2>27, <3>1, <3>2 DEF ReplyInv, NothingCompleted, CompletionUnchanged,
         StallIsCurrent, NoStaleReply, hostVars, stateVars, mouseVars
  <2>28. CASE ReportCompleted
    <3>1. PendingIsCurrent'
      BY <2>28, <2>r DEF ReportCompleted, CompletionUnchanged, PendingIsCurrent, Calls,
         hostVars, stateVars, mouseVars
    <3>2. ReportIsSaved'
      BY <2>28, <2>r DEF ReportCompleted, CompletionUnchanged, ReportIsSaved, hostVars,
         stateVars, mouseVars
    <3> QED
      BY <2>28, <3>1, <3>2 DEF ReplyInv, ReportCompleted, CompletionUnchanged,
         StallIsCurrent, NoStaleReply, hostVars, stateVars, mouseVars
  <2>29. CASE DataCompleted
    <3>1. PendingIsCurrent'
      BY <2>29, <2>r DEF DataCompleted, CompletionUnchanged, PrimeAck, PendingIsCurrent,
         Calls, hostVars, stateVars, mouseVars
    <3>2. ReportIsSaved'
      BY <2>29, <2>r DEF DataCompleted, CompletionUnchanged, PrimeAck, ReportIsSaved,
         hostVars, stateVars, mouseVars
    <3>3. NoStaleReply'
      BY <2>29, <2>r DEF DataCompleted, CompletionUnchanged, PrimeAck, NoStaleReply,
         PendingIsCurrent, ReportIsSaved, StallIsCurrent, Calls, NoSlot, hostVars,
         stateVars, mouseVars
    <3> QED
      BY <2>29, <3>1, <3>2, <3>3 DEF ReplyInv, DataCompleted, CompletionUnchanged, PrimeAck,
         StallIsCurrent, hostVars, stateVars, mouseVars
  <2>30. CASE OtherCompleted
    <3>1. PendingIsCurrent'
      BY <2>30, <2>r DEF OtherCompleted, CompletionUnchanged, PendingIsCurrent, Calls,
         hostVars, stateVars, mouseVars
    <3>2. ReportIsSaved'
      BY <2>30, <2>r DEF OtherCompleted, CompletionUnchanged, ReportIsSaved, hostVars,
         stateVars, mouseVars
    <3> QED
      BY <2>30, <3>1, <3>2 DEF ReplyInv, OtherCompleted, CompletionUnchanged,
         StallIsCurrent, NoStaleReply, hostVars, stateVars, mouseVars
  <2>31. CASE Process
    <3>1. PendingIsCurrent'
      BY <2>31, <2>r DEF Process, PendingIsCurrent, Calls, hostVars, regVars, stateVars,
         stageVars, mouseVars
    <3>2. ReportIsSaved'
      BY <2>31, <2>r DEF Process, ReportIsSaved, hostVars, regVars, stateVars, stageVars,
         mouseVars
    <3> QED
      BY <2>31, <3>1, <3>2 DEF ReplyInv, Process, StallIsCurrent, NoStaleReply, hostVars,
         regVars, stateVars, stageVars, mouseVars
  <2>32. CASE ReportQueued
    <3>1. PendingIsCurrent'
      BY <2>32, <2>r DEF ReportQueued, Count, Hand, PendingIsCurrent, Calls, hostVars, regVars,
         stateVars, stageVars
    <3>2. ReportIsSaved'
      BY <2>32, <2>r DEF ReportQueued, Count, Hand, ReportIsSaved, hostVars, regVars, stateVars,
         stageVars
    <3> QED
      BY <2>32, <3>1, <3>2 DEF ReplyInv, ReportQueued, Count, Hand, StallIsCurrent, NoStaleReply,
         hostVars, regVars, stateVars, stageVars
  <2>33. CASE UNCHANGED vars
    BY <2>33 DEF vars, ReplyInv, PendingIsCurrent, ReportIsSaved, StallIsCurrent, NoStaleReply
  <2>34. CASE EmptyReturned
    <3>1. PendingIsCurrent'
      BY <2>34, <2>r DEF EmptyReturned, Succeeds, LeaveCall, PrimeClose, CallUnchanged,
        PendingIsCurrent, Calls, hostVars
    <3>2. ReportIsSaved'
      BY <2>34, <2>r DEF EmptyReturned, Succeeds, LeaveCall, PrimeClose, CallUnchanged,
        ReportIsSaved, hostVars
    <3>3. NoStaleReply'
      BY <2>34, <2>r DEF EmptyReturned, Succeeds, LeaveCall, PrimeClose, CallUnchanged,
        NoStaleReply, PendingIsCurrent, ReportIsSaved, StallIsCurrent, Calls, NoSlot,
         hostVars
    <3> QED
      BY <2>34, <3>1, <3>2, <3>3 DEF ReplyInv, EmptyReturned, Succeeds, LeaveCall, PrimeClose,
         CallUnchanged, StallIsCurrent, hostVars
  <2>35. ASSUME NEW r \in 1..MaxSetups, MouseServes(r) PROVE ReplyInv'
    BY <2>35 DEF MouseServes, NotFirmware, PendingIsCurrent, ReportIsSaved, StallIsCurrent,
         NoStaleReply, hostVars, regVars,
       stateVars, stageVars
  <2>36. CASE MouseLoses
    BY <2>36 DEF MouseLoses, NotFirmware, PendingIsCurrent, ReportIsSaved, StallIsCurrent,
         NoStaleReply, hostVars, regVars,
       stateVars, stageVars
  <2>37. CASE OtherCall
    BY <2>37 DEF OtherCall, NotFirmware, PendingIsCurrent, ReportIsSaved, StallIsCurrent, NoStaleReply,
         hostVars, regVars,
       stateVars, stageVars
  <2> QED
    BY <2>1, <2>2, <2>3, <2>4, <2>5, <2>6, <2>7, <2>8, <2>9, <2>10, <2>11, <2>12, <2>13,
       <2>14, <2>15, <2>16, <2>17, <2>18, <2>19, <2>20, <2>21, <2>22, <2>23, <2>24, <2>25,
       <2>26, <2>27, <2>28, <2>29, <2>30, <2>31, <2>32, <2>33, <2>34, <2>35, <2>36, <2>37 DEF Next,
            Environment, MouseActs,
       HostSends, HostTokens, Firmware, HandleSetupPacket, CallReturns, PollCompletions
<1>3. QED
  BY <1>1, <1>2, TypeInvariant, PTL DEF Spec

\* Whatever the PC can collect on endpoint 0 answers its latest request, for
\* any number of abandoned requests, resets and late calls.
THEOREM NoReplyIsStale == Spec => []NoStaleReply
<1>1. ReplyInv => NoStaleReply
  BY DEF ReplyInv
<1>2. QED
  BY <1>1, ReplyInvariant, PTL

-----------------------------------------------------------------------------
\* What each place in the firmware knows about the request it works on.
PlaceKnowsKind ==
  /\ pc = "callConfig" => pending_setup.kind = "SetConfig"
  /\ pc = "callParse"  => pending_setup.kind = "SetConfig" /\ pending_setup.id \in accepted \cup mixed
  /\ pc = "callNoData" => pending_setup.kind = "NoData"
  /\ pc = "callGet"    => pending_setup.kind \in {"GetDescriptor", "GetOther"}
  /\ pc = "address"    => pending_setup.kind = "SetAddress"
  /\ control_stage = "DATA_IN" => pending_setup.kind \in {"GetDescriptor", "GetOther"}

\* The phases of the PC follow the direction of its request.
PhaseFitsKind ==
  host.phase \in {"dataIn", "statusOut", "dataOut"}
    => host.req.kind \notin AckedAfterForward

\* What is primed to acknowledge such a request is primed after the mouse did it.
PrimeMeansAccepted ==
  ~setupstat /\ host.req.kind \in AckedAfterForward /\ primeIn.what # "none"
    => host.req.id \in accepted \cup mixed

AckInv == PlaceKnowsKind /\ PhaseFitsKind /\ PrimeMeansAccepted /\ AckMeansAccepted

\* AckMeansAccepted with what makes it inductive.
THEOREM AckInvariant == Spec => []AckInv
<1>1. Init => AckInv
  BY BoundsAssumption DEF Init, AckInv, PlaceKnowsKind, PhaseFitsKind, PrimeMeansAccepted,
       AckMeansAccepted, NoRequest, NoSlot, AckedAfterForward
<1>2. TypeInv /\ ReplyInv /\ AckInv /\ [Next]_vars => AckInv'
  <2> SUFFICES ASSUME TypeInv, ReplyInv, AckInv, [Next]_vars PROVE AckInv'
    OBVIOUS
  <2> USE DEF AckInv
  <2>r. /\ DOMAIN host = {"req", "phase", "addr", "conf", "late"} /\ setupstat \in BOOLEAN
        /\ host.conf \in BOOLEAN /\ host.late \in BOOLEAN
    BY DEF TypeInv, VarsOK, HostOK, RegsOK
  <2>q. /\ PendingIsCurrent /\ ReportIsSaved /\ NoStaleReply
        /\ RequestsReal
    BY DEF ReplyInv, TypeInv
  <2>1. ASSUME NEW k \in Kinds, NEW v \in ValuesOf(k), HostSetup(k, v) PROVE AckInv'
    <3>1. PhaseFitsKind'
      BY <2>1, <2>r, <2>q DEF HostSetup, PhaseFitsKind, AckedAfterForward, FirstPhase,
         stateVars, stageVars, mouseVars
    <3>2. PrimeMeansAccepted'
      BY <2>1, <2>r, <2>q DEF HostSetup, PrimeMeansAccepted, PendingIsCurrent,
         PlaceKnowsKind, AckedAfterForward, NoSlot, Calls, AckedLocally, stateVars,
         stageVars, mouseVars
    <3>3. AckMeansAccepted'
      BY <2>1, <2>r, <2>q DEF HostSetup, AckMeansAccepted, PrimeMeansAccepted,
         PhaseFitsKind, AckedAfterForward, FirstPhase, AckedLocally, stateVars, stageVars,
         mouseVars
    <3> QED
      BY <2>1, <3>1, <3>2, <3>3 DEF AckInv, HostSetup, PlaceKnowsKind, stateVars, stageVars,
         mouseVars
  <2>2. CASE HostReset
    <3>1. PhaseFitsKind'
      BY <2>2, <2>r, <2>q DEF HostReset, PhaseFitsKind, AckedAfterForward, FirstPhase,
         stateVars, stageVars, mouseVars
    <3>2. PrimeMeansAccepted'
      BY <2>2, <2>r, <2>q DEF HostReset, PrimeMeansAccepted, PendingIsCurrent,
         PlaceKnowsKind, AckedAfterForward, NoSlot, Calls, AckedLocally, stateVars,
         stageVars, mouseVars
    <3>3. AckMeansAccepted'
      BY <2>2, <2>r, <2>q DEF HostReset, AckMeansAccepted, PrimeMeansAccepted,
         PhaseFitsKind, AckedAfterForward, FirstPhase, AckedLocally, stateVars, stageVars,
         mouseVars
    <3> QED
      BY <2>2, <3>1, <3>2, <3>3 DEF AckInv, HostReset, PlaceKnowsKind, stateVars, stageVars,
         mouseVars
  <2>3. CASE HostReadsData
    <3>1. PhaseFitsKind'
      BY <2>3, <2>r, <2>q DEF HostReadsData, PhaseFitsKind, AckedAfterForward, FirstPhase,
         stateVars, stageVars, mouseVars
    <3>2. PrimeMeansAccepted'
      BY <2>3, <2>r, <2>q DEF HostReadsData, PrimeMeansAccepted, PendingIsCurrent,
         PlaceKnowsKind, AckedAfterForward, NoSlot, Calls, AckedLocally, stateVars,
         stageVars, mouseVars
    <3>3. AckMeansAccepted'
      BY <2>3, <2>r, <2>q DEF HostReadsData, AckMeansAccepted, PrimeMeansAccepted,
         PhaseFitsKind, AckedAfterForward, FirstPhase, AckedLocally, stateVars, stageVars,
         mouseVars
    <3> QED
      BY <2>3, <3>1, <3>2, <3>3 DEF AckInv, HostReadsData, PlaceKnowsKind, stateVars,
         stageVars, mouseVars
  <2>4. CASE HostSendsStatus
    <3>1. PhaseFitsKind'
      BY <2>4, <2>r, <2>q DEF HostSendsStatus, PhaseFitsKind, AckedAfterForward, FirstPhase,
         stateVars, stageVars, mouseVars
    <3>2. PrimeMeansAccepted'
      BY <2>4, <2>r, <2>q DEF HostSendsStatus, PrimeMeansAccepted, PendingIsCurrent,
         PlaceKnowsKind, AckedAfterForward, NoSlot, Calls, AckedLocally, stateVars,
         stageVars, mouseVars
    <3>3. AckMeansAccepted'
      BY <2>4, <2>r, <2>q DEF HostSendsStatus, AckMeansAccepted, PrimeMeansAccepted,
         PhaseFitsKind, AckedAfterForward, FirstPhase, AckedLocally, stateVars, stageVars,
         mouseVars
    <3> QED
      BY <2>4, <3>1, <3>2, <3>3 DEF AckInv, HostSendsStatus, PlaceKnowsKind, stateVars,
         stageVars, mouseVars
  <2>5. CASE HostSendsReport
    <3>1. PhaseFitsKind'
      BY <2>5, <2>r, <2>q DEF HostSendsReport, PhaseFitsKind, AckedAfterForward, FirstPhase,
         stateVars, stageVars, mouseVars
    <3>2. PrimeMeansAccepted'
      BY <2>5, <2>r, <2>q DEF HostSendsReport, PrimeMeansAccepted, PendingIsCurrent,
         PlaceKnowsKind, AckedAfterForward, NoSlot, Calls, AckedLocally, stateVars,
         stageVars, mouseVars
    <3>3. AckMeansAccepted'
      BY <2>5, <2>r, <2>q DEF HostSendsReport, AckMeansAccepted, PrimeMeansAccepted,
         PhaseFitsKind, AckedAfterForward, FirstPhase, AckedLocally, stateVars, stageVars,
         mouseVars
    <3> QED
      BY <2>5, <3>1, <3>2, <3>3 DEF AckInv, HostSendsReport, PlaceKnowsKind, stateVars,
         stageVars, mouseVars
  <2>6. CASE HostReadsAck
    <3>1. PhaseFitsKind'
      BY <2>6, <2>r, <2>q DEF HostReadsAck, PhaseFitsKind, AckedAfterForward, FirstPhase,
         stateVars, stageVars, mouseVars
    <3>2. PrimeMeansAccepted'
      BY <2>6, <2>r, <2>q DEF HostReadsAck, PrimeMeansAccepted, PendingIsCurrent,
         PlaceKnowsKind, AckedAfterForward, NoSlot, Calls, AckedLocally, stateVars,
         stageVars, mouseVars
    <3>3. AckMeansAccepted'
      BY <2>6, <2>r, <2>q DEF HostReadsAck, AckMeansAccepted, PrimeMeansAccepted,
         PhaseFitsKind, AckedAfterForward, FirstPhase, AckedLocally, stateVars, stageVars,
         mouseVars
    <3> QED
      BY <2>6, <3>1, <3>2, <3>3 DEF AckInv, HostReadsAck, PlaceKnowsKind, stateVars,
         stageVars, mouseVars
  <2>7. CASE HostSeesStall
    <3>1. PhaseFitsKind'
      BY <2>7, <2>r, <2>q DEF HostSeesStall, PhaseFitsKind, AckedAfterForward, FirstPhase,
         regVars, stateVars, stageVars, mouseVars
    <3>2. PrimeMeansAccepted'
      BY <2>7, <2>r, <2>q DEF HostSeesStall, PrimeMeansAccepted, PendingIsCurrent,
         PlaceKnowsKind, AckedAfterForward, NoSlot, Calls, AckedLocally, regVars, stateVars,
         stageVars, mouseVars
    <3>3. AckMeansAccepted'
      BY <2>7, <2>r, <2>q DEF HostSeesStall, AckMeansAccepted, PrimeMeansAccepted,
         PhaseFitsKind, AckedAfterForward, FirstPhase, AckedLocally, regVars, stateVars,
         stageVars, mouseVars
    <3> QED
      BY <2>7, <3>1, <3>2, <3>3 DEF AckInv, HostSeesStall, PlaceKnowsKind, regVars,
         stateVars, stageVars, mouseVars
  <2>8. CASE Unplug
    BY <2>8 DEF Unplug, AckInv, PlaceKnowsKind, PhaseFitsKind, PrimeMeansAccepted,
       AckMeansAccepted, regVars, stateVars, stageVars
  <2>9. CASE Plug
    BY <2>9 DEF Plug, AckInv, PlaceKnowsKind, PhaseFitsKind, PrimeMeansAccepted,
       AckMeansAccepted, hostVars, regVars, stateVars, stageVars
  <2>10. CASE PollBegin
    <3>1. PlaceKnowsKind'
      BY <2>10, <2>r, <2>q DEF PollBegin, PlaceKnowsKind, RequestsReal, PendingIsCurrent,
         AckedAfterForward, hostVars, stateVars, stageVars, mouseVars
    <3> QED
      BY <2>10, <3>1 DEF AckInv, PollBegin, PhaseFitsKind, PrimeMeansAccepted,
         AckMeansAccepted, hostVars, stateVars, stageVars, mouseVars
  <2>11. CASE HandleInterrupt
    <3>1. PlaceKnowsKind'
      BY <2>11, <2>r, <2>q DEF HandleInterrupt, AfterIrq, PlaceKnowsKind, RequestsReal,
         PendingIsCurrent, AckedAfterForward, hostVars, stateVars, mouseVars
    <3>2. PrimeMeansAccepted'
      BY <2>11, <2>r, <2>q DEF HandleInterrupt, AfterIrq, PrimeMeansAccepted,
         PendingIsCurrent, PlaceKnowsKind, AckedAfterForward, NoSlot, Calls, AckedLocally,
         hostVars, stateVars, mouseVars
    <3> QED
      BY <2>11, <3>1, <3>2 DEF AckInv, HandleInterrupt, AfterIrq, PhaseFitsKind,
         AckMeansAccepted, hostVars, stateVars, mouseVars
  <2>12. CASE HandleReset
    <3>1. PlaceKnowsKind'
      BY <2>12, <2>r, <2>q DEF HandleReset, PlaceKnowsKind, RequestsReal, PendingIsCurrent,
         AckedAfterForward, hostVars, mouseVars
    <3>2. PrimeMeansAccepted'
      BY <2>12, <2>r, <2>q DEF HandleReset, PrimeMeansAccepted, PendingIsCurrent,
         PlaceKnowsKind, AckedAfterForward, NoSlot, Calls, AckedLocally, hostVars, mouseVars
    <3> QED
      BY <2>12, <3>1, <3>2 DEF AckInv, HandleReset, PhaseFitsKind, AckMeansAccepted,
         hostVars, mouseVars
  <2>13. CASE RefuseSetup
    <3>1. PlaceKnowsKind'
      BY <2>13, <2>r, <2>q DEF RefuseSetup, TakeSetup, Flush, NotSaved, NotSent,
         PlaceKnowsKind, RequestsReal, PendingIsCurrent, AckedAfterForward, hostVars,
         stateVars
    <3>2. PrimeMeansAccepted'
      BY <2>13, <2>r, <2>q DEF RefuseSetup, TakeSetup, Flush, NotSaved, NotSent,
         PrimeMeansAccepted, PendingIsCurrent, PlaceKnowsKind, AckedAfterForward, NoSlot,
         Calls, AckedLocally, hostVars, stateVars
    <3> QED
      BY <2>13, <3>1, <3>2 DEF AckInv, RefuseSetup, TakeSetup, Flush, NotSaved, NotSent,
         PhaseFitsKind, AckMeansAccepted, hostVars, stateVars
  <2>14. CASE AckSetup
    <3>1. PlaceKnowsKind'
      BY <2>14, <2>r, <2>q DEF AckSetup, TakeSetup, PrimeAck, NotSaved, NotSent,
         AckedLocally, PlaceKnowsKind, RequestsReal, PendingIsCurrent, AckedAfterForward,
         hostVars, stateVars
    <3>2. PrimeMeansAccepted'
      BY <2>14, <2>r, <2>q DEF AckSetup, TakeSetup, PrimeAck, NotSaved, NotSent,
         AckedLocally, PrimeMeansAccepted, PendingIsCurrent, PlaceKnowsKind,
         AckedAfterForward, NoSlot, Calls, AckedLocally, hostVars, stateVars
    <3> QED
      BY <2>14, <3>1, <3>2 DEF AckInv, AckSetup, TakeSetup, PrimeAck, NotSaved, NotSent,
         AckedLocally, PhaseFitsKind, AckMeansAccepted, hostVars, stateVars
  <2>15. CASE TakeSetAddress
    <3>1. PlaceKnowsKind'
      BY <2>15, <2>r, <2>q DEF TakeSetAddress, TakeSetup, PrimeAck, NotSaved, NotSent,
         PlaceKnowsKind, RequestsReal, PendingIsCurrent, AckedAfterForward, hostVars,
         stateVars
    <3>2. PrimeMeansAccepted'
      BY <2>15, <2>r, <2>q DEF TakeSetAddress, TakeSetup, PrimeAck, NotSaved, NotSent,
         PrimeMeansAccepted, PendingIsCurrent, PlaceKnowsKind, AckedAfterForward, NoSlot,
         Calls, AckedLocally, hostVars, stateVars
    <3> QED
      BY <2>15, <3>1, <3>2 DEF AckInv, TakeSetAddress, TakeSetup, PrimeAck, NotSaved,
         NotSent, PhaseFitsKind, AckMeansAccepted, hostVars, stateVars
  <2>16. CASE TakeSetReport
    <3>1. PlaceKnowsKind'
      BY <2>16, <2>r, <2>q DEF TakeSetReport, TakeSetup, PrimeAck, NotSent, PlaceKnowsKind,
         RequestsReal, PendingIsCurrent, AckedAfterForward, hostVars, stateVars
    <3>2. PrimeMeansAccepted'
      BY <2>16, <2>r, <2>q DEF TakeSetReport, TakeSetup, PrimeAck, NotSent,
         PrimeMeansAccepted, PendingIsCurrent, PlaceKnowsKind, AckedAfterForward, NoSlot,
         Calls, AckedLocally, hostVars, stateVars
    <3> QED
      BY <2>16, <3>1, <3>2 DEF AckInv, TakeSetReport, TakeSetup, PrimeAck, NotSent,
         PhaseFitsKind, AckMeansAccepted, hostVars, stateVars
  <2>17. CASE ServeCached
    <3>1. PlaceKnowsKind'
      BY <2>17, <2>r, <2>q DEF ServeCached, TakeSetup, PrimeData, NotSaved, NotSent,
         PlaceKnowsKind, RequestsReal, PendingIsCurrent, AckedAfterForward, hostVars,
         stateVars
    <3>2. PrimeMeansAccepted'
      BY <2>17, <2>r, <2>q DEF ServeCached, TakeSetup, PrimeData, NotSaved, NotSent,
         PrimeMeansAccepted, PendingIsCurrent, PlaceKnowsKind, AckedAfterForward, NoSlot,
         Calls, AckedLocally, hostVars, stateVars
    <3> QED
      BY <2>17, <3>1, <3>2 DEF AckInv, ServeCached, TakeSetup, PrimeData, NotSaved, NotSent,
         PhaseFitsKind, AckMeansAccepted, hostVars, stateVars
  <2>18. CASE Forward
    <3>1. PlaceKnowsKind'
      BY <2>18, <2>r, <2>q DEF Forward, TakeSetup, Flush, NotSaved, CallFor, AckedLocally,
         Count, Hand, PlaceKnowsKind, RequestsReal, PendingIsCurrent, AckedAfterForward, hostVars,
         stateVars
    <3>2. PrimeMeansAccepted'
      BY <2>18, <2>r, <2>q DEF Forward, TakeSetup, Flush, NotSaved, CallFor, AckedLocally,
         Count, Hand, PrimeMeansAccepted, PendingIsCurrent, PlaceKnowsKind, AckedAfterForward,
         NoSlot, Calls, AckedLocally, hostVars, stateVars
    <3> QED
      BY <2>18, <3>1, <3>2 DEF AckInv, Forward, TakeSetup, Flush, NotSaved, CallFor,
         AckedLocally, Count, Hand, PhaseFitsKind, AckMeansAccepted, hostVars, stateVars
  <2>19. CASE StageAddress
    <3>1. PlaceKnowsKind'
      BY <2>19, <2>r, <2>q DEF StageAddress, PlaceKnowsKind, RequestsReal, PendingIsCurrent,
         AckedAfterForward, hostVars, stageVars, mouseVars
    <3> QED
      BY <2>19, <3>1 DEF AckInv, StageAddress, PhaseFitsKind, PrimeMeansAccepted,
         AckMeansAccepted, hostVars, stageVars, mouseVars
  <2>20. CASE CallFails
    <3>1. PlaceKnowsKind'
      BY <2>20, <2>r, <2>q DEF CallFails, Stall, Succeeds, LeaveCall, CallUnchanged,
        PlaceKnowsKind, RequestsReal, PendingIsCurrent, AckedAfterForward, hostVars
    <3>2. PrimeMeansAccepted'
      BY <2>20, <2>r, <2>q DEF CallFails, Stall, Succeeds, LeaveCall, CallUnchanged,
        PrimeMeansAccepted, PendingIsCurrent, PlaceKnowsKind, AckedAfterForward, NoSlot,
         Calls, AckedLocally, hostVars
    <3>3. AckMeansAccepted'
      BY <2>20, <2>r, <2>q DEF CallFails, Stall, Succeeds, LeaveCall, CallUnchanged,
        AckMeansAccepted, PrimeMeansAccepted, PhaseFitsKind, AckedAfterForward, FirstPhase,
         AckedLocally, hostVars
    <3> QED
      BY <2>20, <3>1, <3>2, <3>3 DEF AckInv, CallFails, Stall, Succeeds, LeaveCall, CallUnchanged,
         PhaseFitsKind, hostVars
  <2>21. CASE ConfigForwarded
    <3>1. PlaceKnowsKind'
      BY <2>21, <2>r, <2>q DEF ConfigForwarded, Succeeds, LeaveCall, PrimeAck, CallUnchanged,
        PlaceKnowsKind, RequestsReal, PendingIsCurrent, AckedAfterForward, hostVars
    <3>2. PrimeMeansAccepted'
      BY <2>21, <2>r, <2>q DEF ConfigForwarded, Succeeds, LeaveCall, PrimeAck, CallUnchanged,
        PrimeMeansAccepted, PendingIsCurrent, PlaceKnowsKind, AckedAfterForward, NoSlot,
         Calls, AckedLocally, hostVars
    <3>3. AckMeansAccepted'
      BY <2>21, <2>r, <2>q DEF ConfigForwarded, Succeeds, LeaveCall, PrimeAck, CallUnchanged,
        AckMeansAccepted, PrimeMeansAccepted, PhaseFitsKind, AckedAfterForward, FirstPhase,
         AckedLocally, hostVars
    <3> QED
      BY <2>21, <3>1, <3>2, <3>3 DEF AckInv, ConfigForwarded, Succeeds, LeaveCall, PrimeAck,
         CallUnchanged, PhaseFitsKind, hostVars
  <2>22. CASE ConfigParsed
    <3>1. PlaceKnowsKind'
      BY <2>22, <2>r, <2>q DEF ConfigParsed, ConfigAcked, PrimeAck, CallUnchanged,
        PlaceKnowsKind, RequestsReal, PendingIsCurrent, AckedAfterForward, hostVars
    <3>2. PrimeMeansAccepted'
      BY <2>22, <2>r, <2>q DEF ConfigParsed, ConfigAcked, PrimeAck, CallUnchanged,
        PrimeMeansAccepted, PendingIsCurrent, PlaceKnowsKind, AckedAfterForward, NoSlot,
         Calls, AckedLocally, hostVars
    <3> QED
      BY <2>22, <3>1, <3>2 DEF AckInv, ConfigParsed, ConfigAcked, PrimeAck, CallUnchanged,
         PhaseFitsKind, AckMeansAccepted, hostVars
  <2>23. CASE DataReturned
    <3>1. PlaceKnowsKind'
      BY <2>23, <2>r, <2>q DEF DataReturned, Succeeds, LeaveCall, PrimeData, CallUnchanged,
        PlaceKnowsKind, RequestsReal, PendingIsCurrent, AckedAfterForward, hostVars
    <3>2. PrimeMeansAccepted'
      BY <2>23, <2>r, <2>q DEF DataReturned, Succeeds, LeaveCall, PrimeData, CallUnchanged,
        PrimeMeansAccepted, PendingIsCurrent, PlaceKnowsKind, AckedAfterForward, NoSlot,
         Calls, AckedLocally, hostVars
    <3>3. AckMeansAccepted'
      BY <2>23, <2>r, <2>q DEF DataReturned, Succeeds, LeaveCall, PrimeData, CallUnchanged,
        AckMeansAccepted, PrimeMeansAccepted, PhaseFitsKind, AckedAfterForward, FirstPhase,
         AckedLocally, hostVars
    <3> QED
      BY <2>23, <3>1, <3>2, <3>3 DEF AckInv, DataReturned, Succeeds, LeaveCall, PrimeData,
         CallUnchanged, PhaseFitsKind, hostVars
  <2>24. CASE NoDataReturned
    <3>1. PlaceKnowsKind'
      BY <2>24, <2>r, <2>q DEF NoDataReturned, Succeeds, LeaveCall, PrimeAck, CallUnchanged,
        PlaceKnowsKind, RequestsReal, PendingIsCurrent, AckedAfterForward, hostVars
    <3>2. PrimeMeansAccepted'
      BY <2>24, <2>r, <2>q DEF NoDataReturned, Succeeds, LeaveCall, PrimeAck, CallUnchanged,
        PrimeMeansAccepted, PendingIsCurrent, PlaceKnowsKind, AckedAfterForward, NoSlot,
         Calls, AckedLocally, hostVars
    <3>3. AckMeansAccepted'
      BY <2>24, <2>r, <2>q DEF NoDataReturned, Succeeds, LeaveCall, PrimeAck, CallUnchanged,
        AckMeansAccepted, PrimeMeansAccepted, PhaseFitsKind, AckedAfterForward, FirstPhase,
         AckedLocally, hostVars
    <3> QED
      BY <2>24, <3>1, <3>2, <3>3 DEF AckInv, NoDataReturned, Succeeds, LeaveCall, PrimeAck,
         CallUnchanged, PhaseFitsKind, hostVars
  <2>25. CASE ReportReturned
    <3>1. PlaceKnowsKind'
      BY <2>25, <2>r, <2>q DEF ReportReturned, Succeeds, LeaveCall, PrimeClose, ReportDone, CallUnchanged,
         PlaceKnowsKind, RequestsReal, PendingIsCurrent, AckedAfterForward, hostVars
    <3>2. PrimeMeansAccepted'
      BY <2>25, <2>r, <2>q DEF ReportReturned, Succeeds, LeaveCall, PrimeClose, ReportDone, CallUnchanged,
         PrimeMeansAccepted, PendingIsCurrent, PlaceKnowsKind, AckedAfterForward, NoSlot,
         Calls, AckedLocally, hostVars
    <3>3. AckMeansAccepted'
      BY <2>25, <2>r, <2>q DEF ReportReturned, Succeeds, LeaveCall, PrimeClose, ReportDone, CallUnchanged,
         AckMeansAccepted, PrimeMeansAccepted, PhaseFitsKind, AckedAfterForward, FirstPhase,
         AckedLocally, hostVars
    <3> QED
      BY <2>25, <3>1, <3>2, <3>3 DEF AckInv, ReportReturned, Succeeds, LeaveCall, PrimeClose,
         ReportDone, CallUnchanged, PhaseFitsKind, hostVars
  <2>26. CASE SetupsDone
    <3>1. PlaceKnowsKind'
      BY <2>26, <2>r, <2>q DEF SetupsDone, PlaceKnowsKind, RequestsReal, PendingIsCurrent,
         AckedAfterForward, hostVars, regVars, stateVars, stageVars, mouseVars
    <3> QED
      BY <2>26, <3>1 DEF AckInv, SetupsDone, PhaseFitsKind, PrimeMeansAccepted,
         AckMeansAccepted, hostVars, regVars, stateVars, stageVars, mouseVars
  <2>27. CASE NothingCompleted
    <3>1. PlaceKnowsKind'
      BY <2>27, <2>r, <2>q DEF NothingCompleted, CompletionUnchanged, PlaceKnowsKind,
         RequestsReal, PendingIsCurrent, AckedAfterForward, hostVars, stateVars, mouseVars
    <3> QED
      BY <2>27, <3>1 DEF AckInv, NothingCompleted, CompletionUnchanged, PhaseFitsKind,
         PrimeMeansAccepted, AckMeansAccepted, hostVars, stateVars, mouseVars
  <2>28. CASE ReportCompleted
    <3>1. PlaceKnowsKind'
      BY <2>28, <2>r, <2>q DEF ReportCompleted, CompletionUnchanged, PlaceKnowsKind,
         RequestsReal, PendingIsCurrent, AckedAfterForward, hostVars, stateVars, mouseVars
    <3> QED
      BY <2>28, <3>1 DEF AckInv, ReportCompleted, CompletionUnchanged, PhaseFitsKind,
         PrimeMeansAccepted, AckMeansAccepted, hostVars, stateVars, mouseVars
  <2>29. CASE DataCompleted
    <3>1. PlaceKnowsKind'
      BY <2>29, <2>r, <2>q DEF DataCompleted, CompletionUnchanged, PrimeAck, PlaceKnowsKind,
         RequestsReal, PendingIsCurrent, AckedAfterForward, hostVars, stateVars, mouseVars
    <3>2. PrimeMeansAccepted'
      BY <2>29, <2>r, <2>q DEF DataCompleted, CompletionUnchanged, PrimeAck,
         PrimeMeansAccepted, PendingIsCurrent, PlaceKnowsKind, AckedAfterForward, NoSlot,
         Calls, AckedLocally, hostVars, stateVars, mouseVars
    <3> QED
      BY <2>29, <3>1, <3>2 DEF AckInv, DataCompleted, CompletionUnchanged, PrimeAck,
         PhaseFitsKind, AckMeansAccepted, hostVars, stateVars, mouseVars
  <2>30. CASE OtherCompleted
    <3>1. PlaceKnowsKind'
      BY <2>30, <2>r, <2>q DEF OtherCompleted, CompletionUnchanged, PlaceKnowsKind,
         RequestsReal, PendingIsCurrent, AckedAfterForward, hostVars, stateVars, mouseVars
    <3> QED
      BY <2>30, <3>1 DEF AckInv, OtherCompleted, CompletionUnchanged, PhaseFitsKind,
         PrimeMeansAccepted, AckMeansAccepted, hostVars, stateVars, mouseVars
  <2>31. CASE Process
    <3>1. PlaceKnowsKind'
      BY <2>31, <2>r, <2>q DEF Process, PlaceKnowsKind, RequestsReal, PendingIsCurrent,
         AckedAfterForward, hostVars, regVars, stateVars, stageVars, mouseVars
    <3> QED
      BY <2>31, <3>1 DEF AckInv, Process, PhaseFitsKind, PrimeMeansAccepted,
         AckMeansAccepted, hostVars, regVars, stateVars, stageVars, mouseVars
  <2>32. CASE ReportQueued
    <3>1. PlaceKnowsKind'
      BY <2>32, <2>r, <2>q DEF ReportQueued, Count, Hand, PlaceKnowsKind, RequestsReal,
         PendingIsCurrent, AckedAfterForward, hostVars, regVars, stateVars, stageVars
    <3> QED
      BY <2>32, <3>1 DEF AckInv, ReportQueued, Count, Hand, PhaseFitsKind, PrimeMeansAccepted,
         AckMeansAccepted, hostVars, regVars, stateVars, stageVars
  <2>33. CASE UNCHANGED vars
    BY <2>33 DEF vars, AckInv, PlaceKnowsKind, PhaseFitsKind, PrimeMeansAccepted, AckMeansAccepted
  <2>34. CASE EmptyReturned
    <3>1. PlaceKnowsKind'
      BY <2>34, <2>r, <2>q DEF EmptyReturned, Succeeds, LeaveCall, PrimeClose, CallUnchanged,
        PlaceKnowsKind, RequestsReal, PendingIsCurrent, AckedAfterForward, hostVars
    <3>2. PrimeMeansAccepted'
      BY <2>34, <2>r, <2>q DEF EmptyReturned, Succeeds, LeaveCall, PrimeClose, CallUnchanged,
        PrimeMeansAccepted, PendingIsCurrent, PlaceKnowsKind, AckedAfterForward, NoSlot,
         Calls, AckedLocally, hostVars
    <3>3. AckMeansAccepted'
      BY <2>34, <2>r, <2>q DEF EmptyReturned, Succeeds, LeaveCall, PrimeClose, CallUnchanged,
        AckMeansAccepted, PrimeMeansAccepted, PhaseFitsKind, AckedAfterForward, FirstPhase,
         AckedLocally, hostVars
    <3> QED
      BY <2>34, <3>1, <3>2, <3>3 DEF AckInv, EmptyReturned, Succeeds, LeaveCall, PrimeClose,
         CallUnchanged, PhaseFitsKind, hostVars
  <2>35. ASSUME NEW r \in 1..MaxSetups, MouseServes(r) PROVE AckInv'
    BY <2>35 DEF MouseServes, NotFirmware, PlaceKnowsKind, PhaseFitsKind, PrimeMeansAccepted,
         AckMeansAccepted, hostVars, regVars,
       stateVars, stageVars
  <2>36. CASE MouseLoses
    BY <2>36 DEF MouseLoses, NotFirmware, PlaceKnowsKind, PhaseFitsKind, PrimeMeansAccepted,
         AckMeansAccepted, hostVars, regVars,
       stateVars, stageVars
  <2>37. CASE OtherCall
    BY <2>37 DEF OtherCall, NotFirmware, PlaceKnowsKind, PhaseFitsKind, PrimeMeansAccepted,
         AckMeansAccepted, hostVars, regVars,
       stateVars, stageVars
  <2> QED
    BY <2>1, <2>2, <2>3, <2>4, <2>5, <2>6, <2>7, <2>8, <2>9, <2>10, <2>11, <2>12, <2>13,
       <2>14, <2>15, <2>16, <2>17, <2>18, <2>19, <2>20, <2>21, <2>22, <2>23, <2>24, <2>25,
       <2>26, <2>27, <2>28, <2>29, <2>30, <2>31, <2>32, <2>33, <2>34, <2>35, <2>36, <2>37 DEF Next,
            Environment, MouseActs,
       HostSends, HostTokens, Firmware, HandleSetupPacket, CallReturns, PollCompletions
<1>3. QED
  BY <1>1, <1>2, TypeInvariant, ReplyInvariant, PTL DEF Spec

\* An acknowledged SET_CONFIGURATION, or other forwarded request without data,
\* has been carried out by the mouse.
THEOREM AcksAreHonest == Spec => []AckMeansAccepted
<1>1. AckInv => AckMeansAccepted
  BY DEF AckInv
<1>2. QED
  BY <1>1, AckInvariant, PTL

-----------------------------------------------------------------------------
\* No request has been forwarded before it was read; a SET_REPORT in its data
\* stage has not been forwarded yet.
NotYetSent ==
  /\ \A i \in 1..MaxSetups : i > host.req.id => sent[i] = 0
  /\ setupstat => host.req.id \in 1..MaxSetups /\ sent[host.req.id] = 0
  /\ setupstat => pending_setup.id < host.req.id /\ pending_setup_saved.id < host.req.id
  /\ pending_setup.id <= host.req.id /\ pending_setup_saved.id <= host.req.id
  /\ control_stage = "DATA_OUT" => pending_setup_saved.id \in 1..MaxSetups
  /\ control_stage = "DATA_OUT" /\ pc # "callReport" => sent[pending_setup_saved.id] = 0

SentInv == NotYetSent /\ ForwardedOnce

\* ForwardedOnce with what makes it inductive.
THEOREM SentInvariant == Spec => []SentInv
<1>1. Init => SentInv
  BY BoundsAssumption DEF Init, SentInv, NotYetSent, ForwardedOnce, NoRequest
<1>2. TypeInv /\ ReplyInv /\ SentInv /\ [Next]_vars => SentInv'
  <2> SUFFICES ASSUME TypeInv, ReplyInv, SentInv, [Next]_vars PROVE SentInv'
    OBVIOUS
  <2> USE DEF SentInv
  <2>r. /\ DOMAIN host = {"req", "phase", "addr", "conf", "late"} /\ setupstat \in BOOLEAN
        /\ host.conf \in BOOLEAN /\ host.late \in BOOLEAN
    BY DEF TypeInv, VarsOK, HostOK, RegsOK
  <2>q. /\ PendingIsCurrent /\ ReportIsSaved /\ NoStaleReply
        /\ RequestsReal
    BY DEF ReplyInv, TypeInv
  <2>s. /\ host.req.id \in 0..MaxSetups /\ pending_setup.id \in 0..MaxSetups
        /\ pending_setup_saved.id \in 0..MaxSetups /\ MaxSetups \in Nat
        /\ sent \in [1..MaxSetups -> Nat]
    BY BoundsAssumption, RequestFacts DEF TypeInv, VarsOK, HostOK, StageOK, MouseOK
  <2>1. ASSUME NEW k \in Kinds, NEW v \in ValuesOf(k), HostSetup(k, v) PROVE SentInv'
    <3>1. NotYetSent'
      BY <2>1, <2>r, <2>q, <2>s DEF HostSetup, NotYetSent, RequestsReal, PendingIsCurrent,
         ReportIsSaved, Calls, stateVars, stageVars, mouseVars
    <3> QED
      BY <2>1, <3>1 DEF SentInv, HostSetup, ForwardedOnce, stateVars, stageVars, mouseVars
  <2>2. CASE HostReset
    <3>1. NotYetSent'
      BY <2>2, <2>r, <2>q, <2>s DEF HostReset, NotYetSent, RequestsReal, PendingIsCurrent,
         ReportIsSaved, Calls, stateVars, stageVars, mouseVars
    <3> QED
      BY <2>2, <3>1 DEF SentInv, HostReset, ForwardedOnce, stateVars, stageVars, mouseVars
  <2>3. CASE HostReadsData
    <3>1. NotYetSent'
      BY <2>3, <2>r, <2>q, <2>s DEF HostReadsData, NotYetSent, RequestsReal,
         PendingIsCurrent, ReportIsSaved, Calls, stateVars, stageVars, mouseVars
    <3> QED
      BY <2>3, <3>1 DEF SentInv, HostReadsData, ForwardedOnce, stateVars, stageVars,
         mouseVars
  <2>4. CASE HostSendsStatus
    <3>1. NotYetSent'
      BY <2>4, <2>r, <2>q, <2>s DEF HostSendsStatus, NotYetSent, RequestsReal,
         PendingIsCurrent, ReportIsSaved, Calls, stateVars, stageVars, mouseVars
    <3> QED
      BY <2>4, <3>1 DEF SentInv, HostSendsStatus, ForwardedOnce, stateVars, stageVars,
         mouseVars
  <2>5. CASE HostSendsReport
    <3>1. NotYetSent'
      BY <2>5, <2>r, <2>q, <2>s DEF HostSendsReport, NotYetSent, RequestsReal,
         PendingIsCurrent, ReportIsSaved, Calls, stateVars, stageVars, mouseVars
    <3> QED
      BY <2>5, <3>1 DEF SentInv, HostSendsReport, ForwardedOnce, stateVars, stageVars,
         mouseVars
  <2>6. CASE HostReadsAck
    <3>1. NotYetSent'
      BY <2>6, <2>r, <2>q, <2>s DEF HostReadsAck, NotYetSent, RequestsReal,
         PendingIsCurrent, ReportIsSaved, Calls, stateVars, stageVars, mouseVars
    <3> QED
      BY <2>6, <3>1 DEF SentInv, HostReadsAck, ForwardedOnce, stateVars, stageVars,
         mouseVars
  <2>7. CASE HostSeesStall
    <3>1. NotYetSent'
      BY <2>7, <2>r, <2>q, <2>s DEF HostSeesStall, NotYetSent, RequestsReal,
         PendingIsCurrent, ReportIsSaved, Calls, regVars, stateVars, stageVars, mouseVars
    <3> QED
      BY <2>7, <3>1 DEF SentInv, HostSeesStall, ForwardedOnce, regVars, stateVars,
         stageVars, mouseVars
  <2>8. CASE Unplug
    BY <2>8 DEF Unplug, SentInv, NotYetSent, ForwardedOnce, regVars, stateVars, stageVars
  <2>9. CASE Plug
    BY <2>9 DEF Plug, SentInv, NotYetSent, ForwardedOnce, hostVars, regVars, stateVars,
       stageVars
  <2>10. CASE PollBegin
    <3>1. NotYetSent'
      BY <2>10, <2>r, <2>q, <2>s DEF PollBegin, NotYetSent, RequestsReal, PendingIsCurrent,
         ReportIsSaved, Calls, hostVars, stateVars, stageVars, mouseVars
    <3> QED
      BY <2>10, <3>1 DEF SentInv, PollBegin, ForwardedOnce, hostVars, stateVars, stageVars,
         mouseVars
  <2>11. CASE HandleInterrupt
    <3>1. NotYetSent'
      BY <2>11, <2>r, <2>q, <2>s DEF HandleInterrupt, AfterIrq, NotYetSent, RequestsReal,
         PendingIsCurrent, ReportIsSaved, Calls, hostVars, stateVars, mouseVars
    <3> QED
      BY <2>11, <3>1 DEF SentInv, HandleInterrupt, AfterIrq, ForwardedOnce, hostVars,
         stateVars, mouseVars
  <2>12. CASE HandleReset
    <3>1. NotYetSent'
      BY <2>12, <2>r, <2>q, <2>s DEF HandleReset, NotYetSent, RequestsReal,
         PendingIsCurrent, ReportIsSaved, Calls, hostVars, mouseVars
    <3> QED
      BY <2>12, <3>1 DEF SentInv, HandleReset, ForwardedOnce, hostVars, mouseVars
  <2>13. CASE RefuseSetup
    <3>1. NotYetSent'
      BY <2>13, <2>r, <2>q, <2>s DEF RefuseSetup, TakeSetup, Flush, NotSaved, NotSent,
         NotYetSent, RequestsReal, PendingIsCurrent, ReportIsSaved, Calls, hostVars,
         stateVars
    <3> QED
      BY <2>13, <3>1 DEF SentInv, RefuseSetup, TakeSetup, Flush, NotSaved, NotSent,
         ForwardedOnce, hostVars, stateVars
  <2>14. CASE AckSetup
    <3>1. NotYetSent'
      BY <2>14, <2>r, <2>q, <2>s DEF AckSetup, TakeSetup, PrimeAck, NotSaved, NotSent,
         AckedLocally, NotYetSent, RequestsReal, PendingIsCurrent, ReportIsSaved, Calls,
         hostVars, stateVars
    <3> QED
      BY <2>14, <3>1 DEF SentInv, AckSetup, TakeSetup, PrimeAck, NotSaved, NotSent,
         AckedLocally, ForwardedOnce, hostVars, stateVars
  <2>15. CASE TakeSetAddress
    <3>1. NotYetSent'
      BY <2>15, <2>r, <2>q, <2>s DEF TakeSetAddress, TakeSetup, PrimeAck, NotSaved, NotSent,
         NotYetSent, RequestsReal, PendingIsCurrent, ReportIsSaved, Calls, hostVars,
         stateVars
    <3> QED
      BY <2>15, <3>1 DEF SentInv, TakeSetAddress, TakeSetup, PrimeAck, NotSaved, NotSent,
         ForwardedOnce, hostVars, stateVars
  <2>16. CASE TakeSetReport
    <3>1. NotYetSent'
      BY <2>16, <2>r, <2>q, <2>s DEF TakeSetReport, TakeSetup, PrimeAck, NotSent,
         NotYetSent, RequestsReal, PendingIsCurrent, ReportIsSaved, Calls, hostVars,
         stateVars
    <3> QED
      BY <2>16, <3>1 DEF SentInv, TakeSetReport, TakeSetup, PrimeAck, NotSent,
         ForwardedOnce, hostVars, stateVars
  <2>17. CASE ServeCached
    <3>1. NotYetSent'
      BY <2>17, <2>r, <2>q, <2>s DEF ServeCached, TakeSetup, PrimeData, NotSaved, NotSent,
         NotYetSent, RequestsReal, PendingIsCurrent, ReportIsSaved, Calls, hostVars,
         stateVars
    <3> QED
      BY <2>17, <3>1 DEF SentInv, ServeCached, TakeSetup, PrimeData, NotSaved, NotSent,
         ForwardedOnce, hostVars, stateVars
  <2>18. CASE Forward
    <3>1. NotYetSent'
      <4>1. \A i \in 1..MaxSetups : i # host.req.id => sent'[i] = sent[i]
        BY <2>18, <2>s DEF Forward, Count
      <4>2. /\ host' = host /\ setupstat' = FALSE /\ pending_setup' = host.req
            /\ pending_setup_saved' = pending_setup_saved
        BY <2>18 DEF Forward, TakeSetup, NotSaved, hostVars
      <4>3. control_stage' # "DATA_OUT"
        BY <2>18 DEF Forward
      <4> QED
        BY <4>1, <4>2, <4>3, <2>s DEF NotYetSent
    <3>2. ForwardedOnce'
      BY <2>18, <2>r, <2>q, <2>s DEF Forward, TakeSetup, Flush, NotSaved, CallFor,
         AckedLocally, Count, Hand, ForwardedOnce, NotYetSent, RequestsReal, ReportIsSaved,
         hostVars, stateVars
    <3> QED
      BY <2>18, <3>1, <3>2 DEF SentInv
  <2>19. CASE StageAddress
    <3>1. NotYetSent'
      BY <2>19, <2>r, <2>q, <2>s DEF StageAddress, NotYetSent, RequestsReal,
         PendingIsCurrent, ReportIsSaved, Calls, hostVars, stageVars, mouseVars
    <3> QED
      BY <2>19, <3>1 DEF SentInv, StageAddress, ForwardedOnce, hostVars, stageVars,
         mouseVars
  <2>20. CASE CallFails
    <3>1. NotYetSent'
      BY <2>20, <2>r, <2>q, <2>s DEF CallFails, Stall, Succeeds, LeaveCall, CallUnchanged,
        NotYetSent, RequestsReal, PendingIsCurrent, ReportIsSaved, Calls, hostVars
    <3> QED
      BY <2>20, <3>1 DEF SentInv, CallFails, Stall, Succeeds, LeaveCall, CallUnchanged,
        ForwardedOnce, hostVars
  <2>21. CASE ConfigForwarded
    <3>1. NotYetSent'
      BY <2>21, <2>r, <2>q, <2>s DEF ConfigForwarded, Succeeds, LeaveCall, PrimeAck, CallUnchanged,
         NotYetSent, RequestsReal, PendingIsCurrent, ReportIsSaved, Calls, hostVars
    <3> QED
      BY <2>21, <3>1 DEF SentInv, ConfigForwarded, Succeeds, LeaveCall, PrimeAck, CallUnchanged,
         ForwardedOnce, hostVars
  <2>22. CASE ConfigParsed
    <3>1. NotYetSent'
      BY <2>22, <2>r, <2>q, <2>s DEF ConfigParsed, ConfigAcked, PrimeAck, CallUnchanged,
         NotYetSent, RequestsReal, PendingIsCurrent, ReportIsSaved, Calls, hostVars
    <3> QED
      BY <2>22, <3>1 DEF SentInv, ConfigParsed, ConfigAcked, PrimeAck, CallUnchanged,
         ForwardedOnce, hostVars
  <2>23. CASE DataReturned
    <3>1. NotYetSent'
      BY <2>23, <2>r, <2>q, <2>s DEF DataReturned, Succeeds, LeaveCall, PrimeData, CallUnchanged,
         NotYetSent, RequestsReal, PendingIsCurrent, ReportIsSaved, Calls, hostVars
    <3> QED
      BY <2>23, <3>1 DEF SentInv, DataReturned, Succeeds, LeaveCall, PrimeData, CallUnchanged,
        ForwardedOnce, hostVars
  <2>24. CASE NoDataReturned
    <3>1. NotYetSent'
      BY <2>24, <2>r, <2>q, <2>s DEF NoDataReturned, Succeeds, LeaveCall, PrimeAck, CallUnchanged,
         NotYetSent, RequestsReal, PendingIsCurrent, ReportIsSaved, Calls, hostVars
    <3> QED
      BY <2>24, <3>1 DEF SentInv, NoDataReturned, Succeeds, LeaveCall, PrimeAck, CallUnchanged,
         ForwardedOnce, hostVars
  <2>25. CASE ReportReturned
    <3>1. NotYetSent'
      BY <2>25, <2>r, <2>q, <2>s DEF ReportReturned, Succeeds, LeaveCall, PrimeClose, ReportDone,
         CallUnchanged, NotYetSent, RequestsReal, PendingIsCurrent, ReportIsSaved, Calls, hostVars
    <3> QED
      BY <2>25, <3>1 DEF SentInv, ReportReturned, Succeeds, LeaveCall, PrimeClose, ReportDone,
         CallUnchanged, ForwardedOnce, hostVars
  <2>26. CASE SetupsDone
    <3>1. NotYetSent'
      BY <2>26, <2>r, <2>q, <2>s DEF SetupsDone, NotYetSent, RequestsReal, PendingIsCurrent,
         ReportIsSaved, Calls, hostVars, regVars, stateVars, stageVars, mouseVars
    <3> QED
      BY <2>26, <3>1 DEF SentInv, SetupsDone, ForwardedOnce, hostVars, regVars, stateVars,
         stageVars, mouseVars
  <2>27. CASE NothingCompleted
    <3>1. NotYetSent'
      BY <2>27, <2>r, <2>q, <2>s DEF NothingCompleted, CompletionUnchanged, NotYetSent,
         RequestsReal, PendingIsCurrent, ReportIsSaved, Calls, hostVars, stateVars,
         mouseVars
    <3> QED
      BY <2>27, <3>1 DEF SentInv, NothingCompleted, CompletionUnchanged, ForwardedOnce,
         hostVars, stateVars, mouseVars
  <2>28. CASE ReportCompleted
    <3>1. NotYetSent'
      BY <2>28, <2>r, <2>q, <2>s DEF ReportCompleted, CompletionUnchanged, NotYetSent,
         RequestsReal, PendingIsCurrent, ReportIsSaved, Calls, hostVars, stateVars,
         mouseVars
    <3> QED
      BY <2>28, <3>1 DEF SentInv, ReportCompleted, CompletionUnchanged, ForwardedOnce,
         hostVars, stateVars, mouseVars
  <2>29. CASE DataCompleted
    <3>1. NotYetSent'
      BY <2>29, <2>r, <2>q, <2>s DEF DataCompleted, CompletionUnchanged, PrimeAck,
         NotYetSent, RequestsReal, PendingIsCurrent, ReportIsSaved, Calls, hostVars,
         stateVars, mouseVars
    <3> QED
      BY <2>29, <3>1 DEF SentInv, DataCompleted, CompletionUnchanged, PrimeAck,
         ForwardedOnce, hostVars, stateVars, mouseVars
  <2>30. CASE OtherCompleted
    <3>1. NotYetSent'
      BY <2>30, <2>r, <2>q, <2>s DEF OtherCompleted, CompletionUnchanged, NotYetSent,
         RequestsReal, PendingIsCurrent, ReportIsSaved, Calls, hostVars, stateVars,
         mouseVars
    <3> QED
      BY <2>30, <3>1 DEF SentInv, OtherCompleted, CompletionUnchanged, ForwardedOnce,
         hostVars, stateVars, mouseVars
  <2>31. CASE Process
    <3>1. NotYetSent'
      BY <2>31, <2>r, <2>q, <2>s DEF Process, NotYetSent, RequestsReal, PendingIsCurrent,
         ReportIsSaved, Calls, hostVars, regVars, stateVars, stageVars, mouseVars
    <3> QED
      BY <2>31, <3>1 DEF SentInv, Process, ForwardedOnce, hostVars, regVars, stateVars,
         stageVars, mouseVars
  <2>32. CASE ReportQueued
    <3>1. NotYetSent'
      BY <2>32, <2>r, <2>q, <2>s DEF ReportQueued, Count, Hand, NotYetSent, RequestsReal,
         PendingIsCurrent, ReportIsSaved, Calls, hostVars, regVars, stateVars, stageVars
    <3>2. ForwardedOnce'
      BY <2>32, <2>r, <2>q, <2>s DEF ReportQueued, Count, Hand, ForwardedOnce, NotYetSent,
         RequestsReal, ReportIsSaved, hostVars, regVars, stateVars, stageVars
    <3> QED
      BY <2>32, <3>1, <3>2 DEF SentInv
  <2>33. CASE UNCHANGED vars
    BY <2>33 DEF vars, SentInv, NotYetSent, ForwardedOnce
  <2>34. CASE EmptyReturned
    <3>1. NotYetSent'
      BY <2>34, <2>r, <2>q, <2>s DEF EmptyReturned, Succeeds, LeaveCall, PrimeClose, CallUnchanged,
         NotYetSent, RequestsReal, PendingIsCurrent, ReportIsSaved, Calls, hostVars
    <3> QED
      BY <2>34, <3>1 DEF SentInv, EmptyReturned, Succeeds, LeaveCall, PrimeClose, CallUnchanged,
        ForwardedOnce, hostVars
  <2>35. ASSUME NEW r \in 1..MaxSetups, MouseServes(r) PROVE SentInv'
    BY <2>35 DEF MouseServes, NotFirmware, NotYetSent, ForwardedOnce, hostVars, regVars,
       stateVars, stageVars
  <2>36. CASE MouseLoses
    BY <2>36 DEF MouseLoses, NotFirmware, NotYetSent, ForwardedOnce, hostVars, regVars,
       stateVars, stageVars
  <2>37. CASE OtherCall
    BY <2>37 DEF OtherCall, NotFirmware, NotYetSent, ForwardedOnce, hostVars, regVars,
       stateVars, stageVars
  <2> QED
    BY <2>1, <2>2, <2>3, <2>4, <2>5, <2>6, <2>7, <2>8, <2>9, <2>10, <2>11, <2>12, <2>13,
       <2>14, <2>15, <2>16, <2>17, <2>18, <2>19, <2>20, <2>21, <2>22, <2>23, <2>24, <2>25,
       <2>26, <2>27, <2>28, <2>29, <2>30, <2>31, <2>32, <2>33, <2>34, <2>35, <2>36, <2>37 DEF Next,
            Environment, MouseActs,
       HostSends, HostTokens, Firmware, HandleSetupPacket, CallReturns, PollCompletions
<1>3. QED
  BY <1>1, <1>2, TypeInvariant, ReplyInvariant, PTL DEF Spec

\* No request reaches the mouse twice.
THEOREM EachRequestForwardedOnce == Spec => []ForwardedOnce
<1>1. SentInv => ForwardedOnce
  BY DEF SentInv
<1>2. QED
  BY <1>1, SentInvariant, PTL

-----------------------------------------------------------------------------
\* Until a bus reset is handled the PC has no request and no configuration.
ResetMeansFresh ==
  /\ ResetPending /\ ~host.late => host.phase = "none" /\ ~host.conf
  /\ pc = "reset" => "URI" \in seen

\* The PC sends SET_ADDRESS only to a device it has not configured.
AddressMeansUnconfigured ==
  /\ host.req.kind = "SetAddress" => ~host.conf
  /\ pc = "address" => ~host.conf

\* The acknowledgement of SET_CONFIGURATION is primed in the CONFIGURED state.
PrimeMeansConfigured ==
  /\ host.req.kind = "SetConfig" /\ host.req.val > 0 /\ host.phase = "statusIn"
  /\ ~setupstat /\ primeIn.what # "none" /\ ~host.late
  => device_state = "CONFIGURED"

ConfInv == /\ ResetMeansFresh /\ AddressMeansUnconfigured /\ PrimeMeansConfigured
           /\ ConfigurationAgrees

\* ConfigurationAgrees with what makes it inductive.
THEOREM ConfInvariant == Spec => []ConfInv
<1>1. Init => ConfInv
  BY BoundsAssumption DEF Init, ConfInv, ResetMeansFresh, ResetPending, AddressMeansUnconfigured,
       PrimeMeansConfigured, ConfigurationAgrees, NoRequest, NoSlot
<1>2. TypeInv /\ ReplyInv /\ AckInv /\ ConfInv /\ [Next]_vars => ConfInv'
  <2> SUFFICES ASSUME TypeInv, ReplyInv, AckInv, ConfInv, [Next]_vars PROVE ConfInv'
    OBVIOUS
  <2> USE DEF ConfInv
  <2>r. /\ DOMAIN host = {"req", "phase", "addr", "conf", "late"} /\ setupstat \in BOOLEAN
        /\ host.conf \in BOOLEAN /\ host.late \in BOOLEAN
    BY DEF TypeInv, VarsOK, HostOK, RegsOK
  <2>q. /\ PendingIsCurrent /\ ReportIsSaved /\ NoStaleReply
        /\ RequestsReal
    BY DEF ReplyInv, TypeInv
  <2>s. PlaceKnowsKind /\ PhaseFitsKind
    BY DEF AckInv
  <2>1. ASSUME NEW k \in Kinds, NEW v \in ValuesOf(k), HostSetup(k, v) PROVE ConfInv'
    <3>1. ResetMeansFresh'
      BY <2>1, <2>r, <2>q, <2>s DEF HostSetup, ResetMeansFresh, ResetPending, Waiting,
         AfterIrq, stateVars, stageVars, mouseVars
    <3>2. AddressMeansUnconfigured'
      BY <2>1, <2>r, <2>q, <2>s DEF HostSetup, AddressMeansUnconfigured, PendingIsCurrent,
         PlaceKnowsKind, CallFor, stateVars, stageVars, mouseVars
    <3>3. PrimeMeansConfigured'
      BY <2>1, <2>r, <2>q, <2>s DEF HostSetup, PrimeMeansConfigured, PendingIsCurrent,
         PlaceKnowsKind, PhaseFitsKind, AckedAfterForward, FirstPhase, NoSlot, Calls,
         AckedLocally, stateVars, stageVars, mouseVars
    <3>4. ConfigurationAgrees'
      BY <2>1, <2>r, <2>q, <2>s DEF HostSetup, ConfigurationAgrees, PrimeMeansConfigured,
         ResetMeansFresh, ResetPending, AddressMeansUnconfigured, stateVars, stageVars,
         mouseVars
    <3> QED
      BY <2>1, <3>1, <3>2, <3>3, <3>4 DEF ConfInv
  <2>2. CASE HostReset
    <3>1. ResetMeansFresh'
      BY <2>2, <2>r, <2>q, <2>s DEF HostReset, ResetMeansFresh, ResetPending, Waiting,
         AfterIrq, stateVars, stageVars, mouseVars
    <3>2. AddressMeansUnconfigured'
      BY <2>2, <2>r, <2>q, <2>s DEF HostReset, AddressMeansUnconfigured, PendingIsCurrent,
         PlaceKnowsKind, CallFor, stateVars, stageVars, mouseVars
    <3>3. PrimeMeansConfigured'
      BY <2>2, <2>r, <2>q, <2>s DEF HostReset, PrimeMeansConfigured, PendingIsCurrent,
         PlaceKnowsKind, PhaseFitsKind, AckedAfterForward, FirstPhase, NoSlot, Calls,
         AckedLocally, stateVars, stageVars, mouseVars
    <3>4. ConfigurationAgrees'
      BY <2>2, <2>r, <2>q, <2>s DEF HostReset, ConfigurationAgrees, PrimeMeansConfigured,
         ResetMeansFresh, ResetPending, AddressMeansUnconfigured, stateVars, stageVars,
         mouseVars
    <3> QED
      BY <2>2, <3>1, <3>2, <3>3, <3>4 DEF ConfInv
  <2>3. CASE HostReadsData
    <3>1. ResetMeansFresh'
      BY <2>3, <2>r, <2>q, <2>s DEF HostReadsData, ResetMeansFresh, ResetPending, Waiting,
         AfterIrq, stateVars, stageVars, mouseVars
    <3>2. AddressMeansUnconfigured'
      BY <2>3, <2>r, <2>q, <2>s DEF HostReadsData, AddressMeansUnconfigured,
         PendingIsCurrent, PlaceKnowsKind, CallFor, stateVars, stageVars, mouseVars
    <3>3. PrimeMeansConfigured'
      BY <2>3, <2>r, <2>q, <2>s DEF HostReadsData, PrimeMeansConfigured, PendingIsCurrent,
         PlaceKnowsKind, PhaseFitsKind, AckedAfterForward, FirstPhase, NoSlot, Calls,
         AckedLocally, stateVars, stageVars, mouseVars
    <3>4. ConfigurationAgrees'
      BY <2>3, <2>r, <2>q, <2>s DEF HostReadsData, ConfigurationAgrees,
         PrimeMeansConfigured, ResetMeansFresh, ResetPending, AddressMeansUnconfigured,
         stateVars, stageVars, mouseVars
    <3> QED
      BY <2>3, <3>1, <3>2, <3>3, <3>4 DEF ConfInv
  <2>4. CASE HostSendsStatus
    <3>1. ResetMeansFresh'
      BY <2>4, <2>r, <2>q, <2>s DEF HostSendsStatus, ResetMeansFresh, ResetPending, Waiting,
         AfterIrq, stateVars, stageVars, mouseVars
    <3>2. AddressMeansUnconfigured'
      BY <2>4, <2>r, <2>q, <2>s DEF HostSendsStatus, AddressMeansUnconfigured,
         PendingIsCurrent, PlaceKnowsKind, CallFor, stateVars, stageVars, mouseVars
    <3>3. PrimeMeansConfigured'
      BY <2>4, <2>r, <2>q, <2>s DEF HostSendsStatus, PrimeMeansConfigured, PendingIsCurrent,
         PlaceKnowsKind, PhaseFitsKind, AckedAfterForward, FirstPhase, NoSlot, Calls,
         AckedLocally, stateVars, stageVars, mouseVars
    <3>4. ConfigurationAgrees'
      BY <2>4, <2>r, <2>q, <2>s DEF HostSendsStatus, ConfigurationAgrees,
         PrimeMeansConfigured, ResetMeansFresh, ResetPending, AddressMeansUnconfigured,
         stateVars, stageVars, mouseVars
    <3> QED
      BY <2>4, <3>1, <3>2, <3>3, <3>4 DEF ConfInv
  <2>5. CASE HostSendsReport
    <3>1. ResetMeansFresh'
      BY <2>5, <2>r, <2>q, <2>s DEF HostSendsReport, ResetMeansFresh, ResetPending, Waiting,
         AfterIrq, stateVars, stageVars, mouseVars
    <3>2. AddressMeansUnconfigured'
      BY <2>5, <2>r, <2>q, <2>s DEF HostSendsReport, AddressMeansUnconfigured,
         PendingIsCurrent, PlaceKnowsKind, CallFor, stateVars, stageVars, mouseVars
    <3>3. PrimeMeansConfigured'
      BY <2>5, <2>r, <2>q, <2>s DEF HostSendsReport, PrimeMeansConfigured, PendingIsCurrent,
         PlaceKnowsKind, PhaseFitsKind, AckedAfterForward, FirstPhase, NoSlot, Calls,
         AckedLocally, stateVars, stageVars, mouseVars
    <3>4. ConfigurationAgrees'
      BY <2>5, <2>r, <2>q, <2>s DEF HostSendsReport, ConfigurationAgrees,
         PrimeMeansConfigured, ResetMeansFresh, ResetPending, AddressMeansUnconfigured,
         stateVars, stageVars, mouseVars
    <3> QED
      BY <2>5, <3>1, <3>2, <3>3, <3>4 DEF ConfInv
  <2>6. CASE HostReadsAck
    <3>1. ResetMeansFresh'
      BY <2>6, <2>r, <2>q, <2>s DEF HostReadsAck, ResetMeansFresh, ResetPending, Waiting,
         AfterIrq, stateVars, stageVars, mouseVars
    <3>2. AddressMeansUnconfigured'
      BY <2>6, <2>r, <2>q, <2>s DEF HostReadsAck, AddressMeansUnconfigured,
         PendingIsCurrent, PlaceKnowsKind, CallFor, stateVars, stageVars, mouseVars
    <3>3. PrimeMeansConfigured'
      BY <2>6, <2>r, <2>q, <2>s DEF HostReadsAck, PrimeMeansConfigured, PendingIsCurrent,
         PlaceKnowsKind, PhaseFitsKind, AckedAfterForward, FirstPhase, NoSlot, Calls,
         AckedLocally, stateVars, stageVars, mouseVars
    <3>4. ConfigurationAgrees'
      BY <2>6, <2>r, <2>q, <2>s DEF HostReadsAck, ConfigurationAgrees, PrimeMeansConfigured,
         ResetMeansFresh, ResetPending, AddressMeansUnconfigured, stateVars, stageVars,
         mouseVars
    <3> QED
      BY <2>6, <3>1, <3>2, <3>3, <3>4 DEF ConfInv
  <2>7. CASE HostSeesStall
    <3>1. ResetMeansFresh'
      BY <2>7, <2>r, <2>q, <2>s DEF HostSeesStall, ResetMeansFresh, ResetPending, Waiting,
         AfterIrq, regVars, stateVars, stageVars, mouseVars
    <3>2. AddressMeansUnconfigured'
      BY <2>7, <2>r, <2>q, <2>s DEF HostSeesStall, AddressMeansUnconfigured,
         PendingIsCurrent, PlaceKnowsKind, CallFor, regVars, stateVars, stageVars, mouseVars
    <3>3. PrimeMeansConfigured'
      BY <2>7, <2>r, <2>q, <2>s DEF HostSeesStall, PrimeMeansConfigured, PendingIsCurrent,
         PlaceKnowsKind, PhaseFitsKind, AckedAfterForward, FirstPhase, NoSlot, Calls,
         AckedLocally, regVars, stateVars, stageVars, mouseVars
    <3>4. ConfigurationAgrees'
      BY <2>7, <2>r, <2>q, <2>s DEF HostSeesStall, ConfigurationAgrees,
         PrimeMeansConfigured, ResetMeansFresh, ResetPending, AddressMeansUnconfigured,
         regVars, stateVars, stageVars, mouseVars
    <3> QED
      BY <2>7, <3>1, <3>2, <3>3, <3>4 DEF ConfInv
  <2>8. CASE Unplug
    BY <2>8 DEF Unplug, ConfInv, ResetMeansFresh, ResetPending, AddressMeansUnconfigured,
       PrimeMeansConfigured, ConfigurationAgrees, regVars, stateVars, stageVars
  <2>9. CASE Plug
    BY <2>9 DEF Plug, ConfInv, ResetMeansFresh, ResetPending, AddressMeansUnconfigured,
       PrimeMeansConfigured, ConfigurationAgrees, hostVars, regVars, stateVars, stageVars
  <2>10. CASE PollBegin
    <3>1. ResetMeansFresh'
      BY <2>10, <2>r, <2>q, <2>s DEF PollBegin, ResetMeansFresh, ResetPending, Waiting,
         AfterIrq, hostVars, stateVars, stageVars, mouseVars
    <3>2. AddressMeansUnconfigured'
      BY <2>10, <2>r, <2>q, <2>s DEF PollBegin, AddressMeansUnconfigured, PendingIsCurrent,
         PlaceKnowsKind, CallFor, hostVars, stateVars, stageVars, mouseVars
    <3> QED
      BY <2>10, <3>1, <3>2 DEF ConfInv, PollBegin, PrimeMeansConfigured,
         ConfigurationAgrees, hostVars, stateVars, stageVars, mouseVars
  <2>11. CASE HandleInterrupt
    <3>1. ResetMeansFresh'
      BY <2>11, <2>r, <2>q, <2>s DEF HandleInterrupt, AfterIrq, ResetMeansFresh,
         ResetPending, Waiting, AfterIrq, hostVars, stateVars, mouseVars
    <3>2. AddressMeansUnconfigured'
      BY <2>11, <2>r, <2>q, <2>s DEF HandleInterrupt, AfterIrq, AddressMeansUnconfigured,
         PendingIsCurrent, PlaceKnowsKind, CallFor, hostVars, stateVars, mouseVars
    <3>3. PrimeMeansConfigured'
      BY <2>11, <2>r, <2>q, <2>s DEF HandleInterrupt, AfterIrq, PrimeMeansConfigured,
         PendingIsCurrent, PlaceKnowsKind, PhaseFitsKind, AckedAfterForward, FirstPhase,
         NoSlot, Calls, AckedLocally, hostVars, stateVars, mouseVars
    <3> QED
      BY <2>11, <3>1, <3>2, <3>3 DEF ConfInv, HandleInterrupt, AfterIrq,
         ConfigurationAgrees, hostVars, stateVars, mouseVars
  <2>12. CASE HandleReset
    <3>1. ResetMeansFresh'
      BY <2>12, <2>r, <2>q, <2>s DEF HandleReset, ResetMeansFresh, ResetPending, Waiting,
         AfterIrq, hostVars, mouseVars
    <3>2. AddressMeansUnconfigured'
      BY <2>12, <2>r, <2>q, <2>s DEF HandleReset, AddressMeansUnconfigured,
         PendingIsCurrent, PlaceKnowsKind, CallFor, hostVars, mouseVars
    <3>3. PrimeMeansConfigured'
      BY <2>12, <2>r, <2>q, <2>s DEF HandleReset, PrimeMeansConfigured, PendingIsCurrent,
         PlaceKnowsKind, PhaseFitsKind, AckedAfterForward, FirstPhase, NoSlot, Calls,
         AckedLocally, hostVars, mouseVars
    <3>4. ConfigurationAgrees'
      BY <2>12, <2>r, <2>q, <2>s DEF HandleReset, ConfigurationAgrees, PrimeMeansConfigured,
         ResetMeansFresh, ResetPending, AddressMeansUnconfigured, hostVars, mouseVars
    <3> QED
      BY <2>12, <3>1, <3>2, <3>3, <3>4 DEF ConfInv
  <2>13. CASE RefuseSetup
    <3>1. ResetMeansFresh'
      BY <2>13, <2>r, <2>q, <2>s DEF RefuseSetup, TakeSetup, Flush, NotSaved, NotSent,
         ResetMeansFresh, ResetPending, Waiting, AfterIrq, hostVars, stateVars
    <3>2. AddressMeansUnconfigured'
      BY <2>13, <2>r, <2>q, <2>s DEF RefuseSetup, TakeSetup, Flush, NotSaved, NotSent,
         AddressMeansUnconfigured, PendingIsCurrent, PlaceKnowsKind, CallFor, hostVars,
         stateVars
    <3>3. PrimeMeansConfigured'
      BY <2>13, <2>r, <2>q, <2>s DEF RefuseSetup, TakeSetup, Flush, NotSaved, NotSent,
         PrimeMeansConfigured, PendingIsCurrent, PlaceKnowsKind, PhaseFitsKind,
         AckedAfterForward, FirstPhase, NoSlot, Calls, AckedLocally, hostVars, stateVars
    <3> QED
      BY <2>13, <3>1, <3>2, <3>3 DEF ConfInv, RefuseSetup, TakeSetup, Flush, NotSaved,
         NotSent, ConfigurationAgrees, hostVars, stateVars
  <2>14. CASE AckSetup
    <3>1. ResetMeansFresh'
      BY <2>14, <2>r, <2>q, <2>s DEF AckSetup, TakeSetup, PrimeAck, NotSaved, NotSent,
         AckedLocally, ResetMeansFresh, ResetPending, Waiting, AfterIrq, hostVars, stateVars
    <3>2. AddressMeansUnconfigured'
      BY <2>14, <2>r, <2>q, <2>s DEF AckSetup, TakeSetup, PrimeAck, NotSaved, NotSent,
         AckedLocally, AddressMeansUnconfigured, PendingIsCurrent, PlaceKnowsKind, CallFor,
         hostVars, stateVars
    <3>3. PrimeMeansConfigured'
      BY <2>14, <2>r, <2>q, <2>s DEF AckSetup, TakeSetup, PrimeAck, NotSaved, NotSent,
         AckedLocally, PrimeMeansConfigured, PendingIsCurrent, PlaceKnowsKind,
         PhaseFitsKind, AckedAfterForward, FirstPhase, NoSlot, Calls, AckedLocally,
         hostVars, stateVars
    <3> QED
      BY <2>14, <3>1, <3>2, <3>3 DEF ConfInv, AckSetup, TakeSetup, PrimeAck, NotSaved,
         NotSent, AckedLocally, ConfigurationAgrees, hostVars, stateVars
  <2>15. CASE TakeSetAddress
    <3>1. ResetMeansFresh'
      BY <2>15, <2>r, <2>q, <2>s DEF TakeSetAddress, TakeSetup, PrimeAck, NotSaved, NotSent,
         ResetMeansFresh, ResetPending, Waiting, AfterIrq, hostVars, stateVars
    <3>2. AddressMeansUnconfigured'
      BY <2>15, <2>r, <2>q, <2>s DEF TakeSetAddress, TakeSetup, PrimeAck, NotSaved, NotSent,
         AddressMeansUnconfigured, PendingIsCurrent, PlaceKnowsKind, CallFor, hostVars,
         stateVars
    <3>3. PrimeMeansConfigured'
      BY <2>15, <2>r, <2>q, <2>s DEF TakeSetAddress, TakeSetup, PrimeAck, NotSaved, NotSent,
         PrimeMeansConfigured, PendingIsCurrent, PlaceKnowsKind, PhaseFitsKind,
         AckedAfterForward, FirstPhase, NoSlot, Calls, AckedLocally, hostVars, stateVars
    <3> QED
      BY <2>15, <3>1, <3>2, <3>3 DEF ConfInv, TakeSetAddress, TakeSetup, PrimeAck, NotSaved,
         NotSent, ConfigurationAgrees, hostVars, stateVars
  <2>16. CASE TakeSetReport
    <3>1. ResetMeansFresh'
      BY <2>16, <2>r, <2>q, <2>s DEF TakeSetReport, TakeSetup, PrimeAck, NotSent,
         ResetMeansFresh, ResetPending, Waiting, AfterIrq, hostVars, stateVars
    <3>2. AddressMeansUnconfigured'
      BY <2>16, <2>r, <2>q, <2>s DEF TakeSetReport, TakeSetup, PrimeAck, NotSent,
         AddressMeansUnconfigured, PendingIsCurrent, PlaceKnowsKind, CallFor, hostVars,
         stateVars
    <3>3. PrimeMeansConfigured'
      BY <2>16, <2>r, <2>q, <2>s DEF TakeSetReport, TakeSetup, PrimeAck, NotSent,
         PrimeMeansConfigured, PendingIsCurrent, PlaceKnowsKind, PhaseFitsKind,
         AckedAfterForward, FirstPhase, NoSlot, Calls, AckedLocally, hostVars, stateVars
    <3> QED
      BY <2>16, <3>1, <3>2, <3>3 DEF ConfInv, TakeSetReport, TakeSetup, PrimeAck, NotSent,
         ConfigurationAgrees, hostVars, stateVars
  <2>17. CASE ServeCached
    <3>1. ResetMeansFresh'
      BY <2>17, <2>r, <2>q, <2>s DEF ServeCached, TakeSetup, PrimeData, NotSaved, NotSent,
         ResetMeansFresh, ResetPending, Waiting, AfterIrq, hostVars, stateVars
    <3>2. AddressMeansUnconfigured'
      BY <2>17, <2>r, <2>q, <2>s DEF ServeCached, TakeSetup, PrimeData, NotSaved, NotSent,
         AddressMeansUnconfigured, PendingIsCurrent, PlaceKnowsKind, CallFor, hostVars,
         stateVars
    <3>3. PrimeMeansConfigured'
      BY <2>17, <2>r, <2>q, <2>s DEF ServeCached, TakeSetup, PrimeData, NotSaved, NotSent,
         PrimeMeansConfigured, PendingIsCurrent, PlaceKnowsKind, PhaseFitsKind,
         AckedAfterForward, FirstPhase, NoSlot, Calls, AckedLocally, hostVars, stateVars
    <3> QED
      BY <2>17, <3>1, <3>2, <3>3 DEF ConfInv, ServeCached, TakeSetup, PrimeData, NotSaved,
         NotSent, ConfigurationAgrees, hostVars, stateVars
  <2>18. CASE Forward
    <3>1. ResetMeansFresh'
      BY <2>18, <2>r, <2>q, <2>s DEF Forward, TakeSetup, Flush, NotSaved, CallFor,
         AckedLocally, Count, Hand, ResetMeansFresh, ResetPending, Waiting, AfterIrq, hostVars,
         stateVars
    <3>2. AddressMeansUnconfigured'
      BY <2>18, <2>r, <2>q, <2>s DEF Forward, TakeSetup, Flush, NotSaved, CallFor,
         AckedLocally, Count, Hand, AddressMeansUnconfigured, PendingIsCurrent, PlaceKnowsKind,
         CallFor, hostVars, stateVars
    <3>3. PrimeMeansConfigured'
      BY <2>18, <2>r, <2>q, <2>s DEF Forward, TakeSetup, Flush, NotSaved, CallFor,
         AckedLocally, Count, Hand, PrimeMeansConfigured, PendingIsCurrent, PlaceKnowsKind,
         PhaseFitsKind, AckedAfterForward, FirstPhase, NoSlot, Calls, AckedLocally,
         hostVars, stateVars
    <3> QED
      BY <2>18, <3>1, <3>2, <3>3 DEF ConfInv, Forward, TakeSetup, Flush, NotSaved, CallFor,
         AckedLocally, Count, Hand, ConfigurationAgrees, hostVars, stateVars
  <2>19. CASE StageAddress
    <3>1. ResetMeansFresh'
      BY <2>19, <2>r, <2>q, <2>s DEF StageAddress, ResetMeansFresh, ResetPending, Waiting,
         AfterIrq, hostVars, stageVars, mouseVars
    <3>2. AddressMeansUnconfigured'
      BY <2>19, <2>r, <2>q, <2>s DEF StageAddress, AddressMeansUnconfigured,
         PendingIsCurrent, PlaceKnowsKind, CallFor, hostVars, stageVars, mouseVars
    <3>3. PrimeMeansConfigured'
      BY <2>19, <2>r, <2>q, <2>s DEF StageAddress, PrimeMeansConfigured, PendingIsCurrent,
         PlaceKnowsKind, PhaseFitsKind, AckedAfterForward, FirstPhase, NoSlot, Calls,
         AckedLocally, hostVars, stageVars, mouseVars
    <3>4. ConfigurationAgrees'
      BY <2>19, <2>r, <2>q, <2>s DEF StageAddress, ConfigurationAgrees,
         PrimeMeansConfigured, ResetMeansFresh, ResetPending, AddressMeansUnconfigured,
         hostVars, stageVars, mouseVars
    <3> QED
      BY <2>19, <3>1, <3>2, <3>3, <3>4 DEF ConfInv
  <2>20. CASE CallFails
    <3>1. ResetMeansFresh'
      BY <2>20, <2>r, <2>q, <2>s DEF CallFails, Stall, Succeeds, LeaveCall, CallUnchanged,
        ResetMeansFresh, ResetPending, Waiting, AfterIrq, hostVars
    <3>2. AddressMeansUnconfigured'
      BY <2>20, <2>r, <2>q, <2>s DEF CallFails, Stall, Succeeds, LeaveCall, CallUnchanged,
        AddressMeansUnconfigured, PendingIsCurrent, PlaceKnowsKind, CallFor, hostVars
    <3> QED
      BY <2>20, <3>1, <3>2 DEF ConfInv, CallFails, Stall, Succeeds, LeaveCall, CallUnchanged,
        PrimeMeansConfigured, ConfigurationAgrees, hostVars
  <2>21. CASE ConfigForwarded
    <3>1. ResetMeansFresh'
      BY <2>21, <2>r, <2>q, <2>s DEF ConfigForwarded, Succeeds, LeaveCall, PrimeAck, CallUnchanged,
         ResetMeansFresh, ResetPending, Waiting, AfterIrq, hostVars
    <3>2. AddressMeansUnconfigured'
      BY <2>21, <2>r, <2>q, <2>s DEF ConfigForwarded, Succeeds, LeaveCall, PrimeAck, CallUnchanged,
         AddressMeansUnconfigured, PendingIsCurrent, PlaceKnowsKind, CallFor,
         hostVars
    <3>3. PrimeMeansConfigured'
      BY <2>21, <2>r, <2>q, <2>s DEF ConfigForwarded, Succeeds, LeaveCall, PrimeAck, CallUnchanged,
         PrimeMeansConfigured, PendingIsCurrent, PlaceKnowsKind, PhaseFitsKind,
         AckedAfterForward, FirstPhase, NoSlot, Calls, AckedLocally, hostVars
    <3> QED
      BY <2>21, <3>1, <3>2, <3>3 DEF ConfInv, ConfigForwarded, Succeeds, LeaveCall, PrimeAck,
         CallUnchanged, ConfigurationAgrees, hostVars
  <2>22. CASE ConfigParsed
    <3>1. ResetMeansFresh'
      BY <2>22, <2>r, <2>q, <2>s DEF ConfigParsed, ConfigAcked, PrimeAck, CallUnchanged,
         ResetMeansFresh, ResetPending, Waiting, AfterIrq, hostVars
    <3>2. AddressMeansUnconfigured'
      BY <2>22, <2>r, <2>q, <2>s DEF ConfigParsed, ConfigAcked, PrimeAck, CallUnchanged,
         AddressMeansUnconfigured, PendingIsCurrent, PlaceKnowsKind, CallFor,
         hostVars
    <3>3. PrimeMeansConfigured'
      BY <2>22, <2>r, <2>q, <2>s DEF ConfigParsed, ConfigAcked, PrimeAck, CallUnchanged,
         PrimeMeansConfigured, PendingIsCurrent, PlaceKnowsKind, PhaseFitsKind,
         AckedAfterForward, FirstPhase, NoSlot, Calls, AckedLocally, hostVars
    <3>4. ConfigurationAgrees'
      BY <2>22, <2>r, <2>q, <2>s DEF ConfigParsed, ConfigAcked, PrimeAck, CallUnchanged,
         ConfigurationAgrees, PrimeMeansConfigured, ResetMeansFresh, ResetPending,
         AddressMeansUnconfigured, hostVars
    <3> QED
      BY <2>22, <3>1, <3>2, <3>3, <3>4 DEF ConfInv
  <2>23. CASE DataReturned
    <3>1. ResetMeansFresh'
      BY <2>23, <2>r, <2>q, <2>s DEF DataReturned, Succeeds, LeaveCall, PrimeData, CallUnchanged,
         ResetMeansFresh, ResetPending, Waiting, AfterIrq, hostVars
    <3>2. AddressMeansUnconfigured'
      BY <2>23, <2>r, <2>q, <2>s DEF DataReturned, Succeeds, LeaveCall, PrimeData, CallUnchanged,
         AddressMeansUnconfigured, PendingIsCurrent, PlaceKnowsKind, CallFor,
         hostVars
    <3>3. PrimeMeansConfigured'
      BY <2>23, <2>r, <2>q, <2>s DEF DataReturned, Succeeds, LeaveCall, PrimeData, CallUnchanged,
         PrimeMeansConfigured, PendingIsCurrent, PlaceKnowsKind, PhaseFitsKind,
         AckedAfterForward, FirstPhase, NoSlot, Calls, AckedLocally, hostVars
    <3> QED
      BY <2>23, <3>1, <3>2, <3>3 DEF ConfInv, DataReturned, Succeeds, LeaveCall, PrimeData,
         CallUnchanged, ConfigurationAgrees, hostVars
  <2>24. CASE NoDataReturned
    <3>1. ResetMeansFresh'
      BY <2>24, <2>r, <2>q, <2>s DEF NoDataReturned, Succeeds, LeaveCall, PrimeAck, CallUnchanged,
         ResetMeansFresh, ResetPending, Waiting, AfterIrq, hostVars
    <3>2. AddressMeansUnconfigured'
      BY <2>24, <2>r, <2>q, <2>s DEF NoDataReturned, Succeeds, LeaveCall, PrimeAck, CallUnchanged,
         AddressMeansUnconfigured, PendingIsCurrent, PlaceKnowsKind, CallFor,
         hostVars
    <3>3. PrimeMeansConfigured'
      BY <2>24, <2>r, <2>q, <2>s DEF NoDataReturned, Succeeds, LeaveCall, PrimeAck, CallUnchanged,
         PrimeMeansConfigured, PendingIsCurrent, PlaceKnowsKind, PhaseFitsKind,
         AckedAfterForward, FirstPhase, NoSlot, Calls, AckedLocally, hostVars
    <3> QED
      BY <2>24, <3>1, <3>2, <3>3 DEF ConfInv, NoDataReturned, Succeeds, LeaveCall, PrimeAck,
         CallUnchanged, ConfigurationAgrees, hostVars
  <2>25. CASE ReportReturned
    <3>1. ResetMeansFresh'
      BY <2>25, <2>r, <2>q, <2>s DEF ReportReturned, Succeeds, LeaveCall, PrimeClose, ReportDone,
         CallUnchanged, ResetMeansFresh, ResetPending, Waiting, AfterIrq, hostVars
    <3>2. AddressMeansUnconfigured'
      BY <2>25, <2>r, <2>q, <2>s DEF ReportReturned, Succeeds, LeaveCall, PrimeClose, ReportDone,
         CallUnchanged, AddressMeansUnconfigured, PendingIsCurrent, PlaceKnowsKind, CallFor,
         hostVars
    <3> QED
      BY <2>25, <3>1, <3>2 DEF ConfInv, ReportReturned, Succeeds, LeaveCall, PrimeClose, ReportDone,
         CallUnchanged, PrimeMeansConfigured, ConfigurationAgrees, hostVars
  <2>26. CASE SetupsDone
    <3>1. ResetMeansFresh'
      BY <2>26, <2>r, <2>q, <2>s DEF SetupsDone, ResetMeansFresh, ResetPending, Waiting,
         AfterIrq, hostVars, regVars, stateVars, stageVars, mouseVars
    <3>2. AddressMeansUnconfigured'
      BY <2>26, <2>r, <2>q, <2>s DEF SetupsDone, AddressMeansUnconfigured, PendingIsCurrent,
         PlaceKnowsKind, CallFor, hostVars, regVars, stateVars, stageVars, mouseVars
    <3> QED
      BY <2>26, <3>1, <3>2 DEF ConfInv, SetupsDone, PrimeMeansConfigured,
         ConfigurationAgrees, hostVars, regVars, stateVars, stageVars, mouseVars
  <2>27. CASE NothingCompleted
    <3>1. ResetMeansFresh'
      BY <2>27, <2>r, <2>q, <2>s DEF NothingCompleted, CompletionUnchanged, ResetMeansFresh,
         ResetPending, Waiting, AfterIrq, hostVars, stateVars, mouseVars
    <3>2. AddressMeansUnconfigured'
      BY <2>27, <2>r, <2>q, <2>s DEF NothingCompleted, CompletionUnchanged,
         AddressMeansUnconfigured, PendingIsCurrent, PlaceKnowsKind, CallFor, hostVars,
         stateVars, mouseVars
    <3> QED
      BY <2>27, <3>1, <3>2 DEF ConfInv, NothingCompleted, CompletionUnchanged,
         PrimeMeansConfigured, ConfigurationAgrees, hostVars, stateVars, mouseVars
  <2>28. CASE ReportCompleted
    <3>1. ResetMeansFresh'
      BY <2>28, <2>r, <2>q, <2>s DEF ReportCompleted, CompletionUnchanged, ResetMeansFresh,
         ResetPending, Waiting, AfterIrq, hostVars, stateVars, mouseVars
    <3>2. AddressMeansUnconfigured'
      BY <2>28, <2>r, <2>q, <2>s DEF ReportCompleted, CompletionUnchanged,
         AddressMeansUnconfigured, PendingIsCurrent, PlaceKnowsKind, CallFor, hostVars,
         stateVars, mouseVars
    <3> QED
      BY <2>28, <3>1, <3>2 DEF ConfInv, ReportCompleted, CompletionUnchanged,
         PrimeMeansConfigured, ConfigurationAgrees, hostVars, stateVars, mouseVars
  <2>29. CASE DataCompleted
    <3>1. ResetMeansFresh'
      BY <2>29, <2>r, <2>q, <2>s DEF DataCompleted, CompletionUnchanged, PrimeAck,
         ResetMeansFresh, ResetPending, Waiting, AfterIrq, hostVars, stateVars, mouseVars
    <3>2. AddressMeansUnconfigured'
      BY <2>29, <2>r, <2>q, <2>s DEF DataCompleted, CompletionUnchanged, PrimeAck,
         AddressMeansUnconfigured, PendingIsCurrent, PlaceKnowsKind, CallFor, hostVars,
         stateVars, mouseVars
    <3>3. PrimeMeansConfigured'
      BY <2>29, <2>r, <2>q, <2>s DEF DataCompleted, CompletionUnchanged, PrimeAck,
         PrimeMeansConfigured, PendingIsCurrent, PlaceKnowsKind, PhaseFitsKind,
         AckedAfterForward, FirstPhase, NoSlot, Calls, AckedLocally, hostVars, stateVars,
         mouseVars
    <3> QED
      BY <2>29, <3>1, <3>2, <3>3 DEF ConfInv, DataCompleted, CompletionUnchanged, PrimeAck,
         ConfigurationAgrees, hostVars, stateVars, mouseVars
  <2>30. CASE OtherCompleted
    <3>1. ResetMeansFresh'
      BY <2>30, <2>r, <2>q, <2>s DEF OtherCompleted, CompletionUnchanged, ResetMeansFresh,
         ResetPending, Waiting, AfterIrq, hostVars, stateVars, mouseVars
    <3>2. AddressMeansUnconfigured'
      BY <2>30, <2>r, <2>q, <2>s DEF OtherCompleted, CompletionUnchanged,
         AddressMeansUnconfigured, PendingIsCurrent, PlaceKnowsKind, CallFor, hostVars,
         stateVars, mouseVars
    <3> QED
      BY <2>30, <3>1, <3>2 DEF ConfInv, OtherCompleted, CompletionUnchanged,
         PrimeMeansConfigured, ConfigurationAgrees, hostVars, stateVars, mouseVars
  <2>31. CASE Process
    <3>1. ResetMeansFresh'
      BY <2>31, <2>r, <2>q, <2>s DEF Process, ResetMeansFresh, ResetPending, Waiting,
         AfterIrq, hostVars, regVars, stateVars, stageVars, mouseVars
    <3>2. AddressMeansUnconfigured'
      BY <2>31, <2>r, <2>q, <2>s DEF Process, AddressMeansUnconfigured, PendingIsCurrent,
         PlaceKnowsKind, CallFor, hostVars, regVars, stateVars, stageVars, mouseVars
    <3> QED
      BY <2>31, <3>1, <3>2 DEF ConfInv, Process, PrimeMeansConfigured, ConfigurationAgrees,
         hostVars, regVars, stateVars, stageVars, mouseVars
  <2>32. CASE ReportQueued
    <3>1. ResetMeansFresh'
      BY <2>32, <2>r, <2>q, <2>s DEF ReportQueued, Count, Hand, ResetMeansFresh, ResetPending,
         Waiting, AfterIrq, hostVars, regVars, stateVars, stageVars
    <3>2. AddressMeansUnconfigured'
      BY <2>32, <2>r, <2>q, <2>s DEF ReportQueued, Count, Hand, AddressMeansUnconfigured,
         PendingIsCurrent, PlaceKnowsKind, CallFor, hostVars, regVars, stateVars, stageVars
    <3> QED
      BY <2>32, <3>1, <3>2 DEF ConfInv, ReportQueued, Count, Hand, PrimeMeansConfigured,
         ConfigurationAgrees, hostVars, regVars, stateVars, stageVars
  <2>33. CASE UNCHANGED vars
    BY <2>33 DEF vars, ConfInv, ResetMeansFresh, ResetPending, AddressMeansUnconfigured,
         PrimeMeansConfigured, ConfigurationAgrees
  <2>34. CASE EmptyReturned
    <3>1. ResetMeansFresh'
      BY <2>34, <2>r, <2>q, <2>s DEF EmptyReturned, Succeeds, LeaveCall, PrimeClose, CallUnchanged,
         ResetMeansFresh, ResetPending, Waiting, AfterIrq, hostVars
    <3>2. AddressMeansUnconfigured'
      BY <2>34, <2>r, <2>q, <2>s DEF EmptyReturned, Succeeds, LeaveCall, PrimeClose, CallUnchanged,
         AddressMeansUnconfigured, PendingIsCurrent, PlaceKnowsKind, CallFor,
         hostVars
    <3>3. PrimeMeansConfigured'
      BY <2>34, <2>r, <2>q, <2>s DEF EmptyReturned, Succeeds, LeaveCall, PrimeClose, CallUnchanged,
         PrimeMeansConfigured, PendingIsCurrent, PlaceKnowsKind, PhaseFitsKind,
         AckedAfterForward, FirstPhase, NoSlot, Calls, AckedLocally, hostVars
    <3> QED
      BY <2>34, <3>1, <3>2, <3>3 DEF ConfInv, EmptyReturned, Succeeds, LeaveCall, PrimeClose,
         CallUnchanged, ConfigurationAgrees, hostVars
  <2>35. ASSUME NEW r \in 1..MaxSetups, MouseServes(r) PROVE ConfInv'
    BY <2>35 DEF MouseServes, NotFirmware, ConfInv, ResetMeansFresh, ResetPending, AddressMeansUnconfigured,
       PrimeMeansConfigured, ConfigurationAgrees, hostVars, regVars,
       stateVars, stageVars
  <2>36. CASE MouseLoses
    BY <2>36 DEF MouseLoses, NotFirmware, ConfInv, ResetMeansFresh, ResetPending, AddressMeansUnconfigured,
       PrimeMeansConfigured, ConfigurationAgrees, hostVars, regVars,
       stateVars, stageVars
  <2>37. CASE OtherCall
    BY <2>37 DEF OtherCall, NotFirmware, ConfInv, ResetMeansFresh, ResetPending, AddressMeansUnconfigured,
       PrimeMeansConfigured, ConfigurationAgrees, hostVars, regVars,
       stateVars, stageVars
  <2> QED
    BY <2>1, <2>2, <2>3, <2>4, <2>5, <2>6, <2>7, <2>8, <2>9, <2>10, <2>11, <2>12, <2>13,
       <2>14, <2>15, <2>16, <2>17, <2>18, <2>19, <2>20, <2>21, <2>22, <2>23, <2>24, <2>25,
       <2>26, <2>27, <2>28, <2>29, <2>30, <2>31, <2>32, <2>33, <2>34, <2>35, <2>36, <2>37 DEF Next,
            Environment, MouseActs,
       HostSends, HostTokens, Firmware, HandleSetupPacket, CallReturns, PollCompletions
<1>3. QED
  BY <1>1, <1>2, TypeInvariant, ReplyInvariant, AckInvariant, PTL DEF Spec

\* A PC that believes the device configured is right, as long as it waited for
\* each bus reset to be handled.
THEOREM HostKnowsConfiguration == Spec => []ConfigurationAgrees
<1>1. ConfInv => ConfigurationAgrees
  BY DEF ConfInv
<1>2. QED
  BY <1>1, ConfInvariant, PTL
=============================================================================
