--------------------------- MODULE ReportPathProofs ---------------------------
(***************************************************************************)
(* Proofs about ReportPath, for any number of reports, mice, bus resets    *)
(* and requests.                                                           *)
(***************************************************************************)
EXTENDS ReportPath, TLAPS

\* Type correctness is inductive by itself.
LEMMA TypeStep == TypeOK /\ [Next]_vars => TypeOK'
<1> USE PathAssumption DEF TypeOK, Frame, Places, Blocked, Boot,
            mouseVars, slotVars, handlerVars, outputVars, proxyVars, pcVars
<1> SUFFICES ASSUME TypeOK, [Next]_vars PROVE TypeOK'
  OBVIOUS
<1>1. CASE Plug
  BY <1>1 DEF Plug
<1>2. CASE Unplug
  <2>1. plugged' \in BOOLEAN
    BY <1>2 DEF Unplug
  <2>2. unseen' \in BOOLEAN
    BY <1>2, Zenon DEF Unplug
  <2> QED
    BY <1>2, <2>1, <2>2 DEF Unplug
<1>3. CASE Report
  BY <1>3 DEF Report
<1>4. CASE HostReads
  <2>1. primed' \in BOOLEAN /\ complete' \in BOOLEAN
    BY <1>4 DEF HostReads, Again
  <2>2. received' \in Frame
    BY <1>4 DEF HostReads, Again
  <2>3. repeats' \in Nat
    BY <1>4 DEF HostReads, Again
  <2> QED
    BY <1>4, <2>1, <2>2, <2>3 DEF HostReads, Again
<1>5. CASE HostReset
  <2>1. reset_pending' \in BOOLEAN /\ polling' \in BOOLEAN
    BY <1>5 DEF HostReset
  <2>2. left' \in [resets : 0..MaxResets, requests : 0..MaxRequests]
    BY <1>5 DEF HostReset
  <2> QED
    BY <1>5, <2>1, <2>2 DEF HostReset
<1>6. CASE NoReset
  BY <1>6 DEF NoReset, LoopUnchanged
<1>7. CASE HandleReset
  BY <1>7 DEF HandleReset, LoopUnchanged
<1>8. CASE NoRequest
  BY <1>8 DEF NoRequest, ControlUnchanged, LoopUnchanged
<1>9. CASE ClearFeature
  <2>1. primed' \in BOOLEAN
    BY <1>9 DEF ClearFeature, ControlUnchanged, LoopUnchanged
  <2>2. given_up' \in BOOLEAN
    BY <1>9, Zenon DEF ClearFeature, ControlUnchanged, LoopUnchanged
  <2>3. left' \in [resets : 0..MaxResets, requests : 0..MaxRequests]
    BY <1>9 DEF ClearFeature, ControlUnchanged, LoopUnchanged
  <2> QED
    BY <1>9, <2>1, <2>2, <2>3 DEF ClearFeature, ControlUnchanged, LoopUnchanged
<1>10. CASE SetConfiguration
  <2>1. polling' \in BOOLEAN
    BY <1>10 DEF SetConfiguration, ControlUnchanged, LoopUnchanged
  <2>2. left' \in [resets : 0..MaxResets, requests : 0..MaxRequests]
    BY <1>10 DEF SetConfiguration, ControlUnchanged, LoopUnchanged
  <2> QED
    BY <1>10, <2>1, <2>2 DEF SetConfiguration, ControlUnchanged, LoopUnchanged
<1>11. CASE ConfigKept
  BY <1>11 DEF ConfigKept, ConfigureUnchanged, ControlUnchanged, LoopUnchanged
<1>12. CASE ConfigParsed
  BY <1>12 DEF ConfigParsed, ConfigureUnchanged, ControlUnchanged, LoopUnchanged
<1>13. CASE ConfigUnparsed
  BY <1>13 DEF ConfigUnparsed, ConfigureUnchanged, ControlUnchanged, LoopUnchanged
<1>14. CASE PollDataEndpoints
  <2>1. complete' \in BOOLEAN
    BY <1>14 DEF PollDataEndpoints, LoopUnchanged, Ready
  <2>2. endpoint_ready' \in BOOLEAN
    BY <1>14, Zenon DEF PollDataEndpoints, LoopUnchanged, Ready
  <2> QED
    BY <1>14, <2>1, <2>2 DEF PollDataEndpoints, LoopUnchanged, Ready
<1>15. CASE Detect
  BY <1>15 DEF Detect, CheckUnchanged, LoopUnchanged
<1>16. CASE LayoutDone
  <2>1. layout' \in 0..MaxMice
    BY <1>16 DEF LayoutDone, CheckUnchanged, LoopUnchanged, MouseGone
  <2>2. detected' \in 0..MaxMice
    BY <1>16 DEF LayoutDone, CheckUnchanged, LoopUnchanged, MouseGone
  <2>3. dataAvailable' \in BOOLEAN /\ unseen' \in BOOLEAN
    BY <1>16 DEF LayoutDone, CheckUnchanged, LoopUnchanged, MouseGone
  <2> QED
    BY <1>16, <2>1, <2>2, <2>3 DEF LayoutDone, CheckUnchanged, LoopUnchanged, MouseGone
<1>17. CASE CheckGone
  <2>1. detected' \in 0..MaxMice
    BY <1>17 DEF CheckGone, CheckUnchanged, LoopUnchanged, MouseGone
  <2>2. dataAvailable' \in BOOLEAN /\ unseen' \in BOOLEAN
    BY <1>17 DEF CheckGone, CheckUnchanged, LoopUnchanged, MouseGone
  <2> QED
    BY <1>17, <2>1, <2>2 DEF CheckGone, CheckUnchanged, LoopUnchanged, MouseGone
<1>18. CASE NothingNew
  BY <1>18 DEF NothingNew, CheckUnchanged, LoopUnchanged
<1>19. CASE NoInput
  BY <1>19 DEF NoInput, ProcessUnchanged, LoopUnchanged
<1>20. CASE Discard
  BY <1>20 DEF Discard, ProcessUnchanged, LoopUnchanged
<1>21. CASE Wait
  BY <1>21 DEF Wait, ProcessUnchanged, LoopUnchanged, MayMakeFrame
<1>22. CASE TakeReport
  BY <1>22 DEF TakeReport, ProcessUnchanged, LoopUnchanged, MayMakeFrame
<1>23. CASE TakeSerial
  BY <1>23 DEF TakeSerial, ProcessUnchanged, LoopUnchanged, MayMakeFrame
<1>24. CASE ParseButtons
  BY <1>24 DEF ParseButtons, ProcessUnchanged, LoopUnchanged
<1>25. CASE ParseMove
  BY <1>25 DEF ParseMove, ProcessUnchanged, LoopUnchanged
<1>26. CASE Reset
  <2>1. dataAvailable' \in BOOLEAN
    BY <1>26 DEF Reset, ProcessUnchanged, LoopUnchanged, ResetFlag
  <2> QED
    BY <1>26, <2>1 DEF Reset, ProcessUnchanged, LoopUnchanged, ResetFlag
<1>27. CASE Copy
  BY <1>27 DEF Copy, ProcessUnchanged, LoopUnchanged
<1>28. CASE Prime
  BY <1>28 DEF Prime, ProcessUnchanged, LoopUnchanged
<1>29. CASE UNCHANGED vars
  BY <1>29 DEF vars
<1> QED
  BY <1>1, <1>2, <1>3, <1>4, <1>5, <1>6, <1>7, <1>8, <1>9, <1>10, <1>11, <1>12, <1>13,
     <1>14, <1>15, <1>16, <1>17, <1>18, <1>19, <1>20, <1>21, <1>22, <1>23, <1>24, <1>25,
     <1>26, <1>27, <1>28, <1>29
  DEF Next, Environment, Loop, Poll, Check, Process

(***************************************************************************)
(* The endpoint.                                                           *)
(***************************************************************************)
\* A device that is not configured has nothing on its endpoint.
OffInv == ~configured => ~endpoint_ready /\ ~primed /\ ~complete

\* Only an endpoint that has been found is used.
KnownInv == endpoint_ready \/ primed \/ complete => known

\* A frame is made for an endpoint that is ready, until it is primed.
MakingInv == pc \in {"buttons", "move", "clear", "copy", "prime"} => endpoint_ready

\* Ready, primed and completed exclude each other, except for a completion that
\* a SET_CONFIGURATION has overtaken, until the end of that poll.
OneOfThree ==
  ~overlapped => /\ primed => ~endpoint_ready /\ ~complete
                 /\ complete /\ endpoint_ready => pc = "data"

EndInv == OffInv /\ KnownInv /\ MakingInv /\ OneOfThree /\ EndpointAlive

\* The endpoint's invariant is inductive.
LEMMA EndStep == TypeOK /\ EndInv /\ [Next]_vars => EndInv'
<1> USE DEF TypeOK, Places, Blocked, EndInv, OffInv, KnownInv, MakingInv, OneOfThree, EndpointAlive,
            mouseVars, slotVars, handlerVars, outputVars, proxyVars, pcVars
<1> SUFFICES ASSUME TypeOK, EndInv, [Next]_vars PROVE EndInv'
  OBVIOUS
<1>1. CASE Plug
  BY <1>1 DEF Plug
<1>2. CASE Unplug
  BY <1>2 DEF Unplug
<1>3. CASE Report
  BY <1>3 DEF Report
<1>4. CASE HostReads
  BY <1>4 DEF HostReads, Again
<1>5. CASE HostReset
  BY <1>5 DEF HostReset
<1>6. CASE NoReset
  BY <1>6 DEF NoReset, LoopUnchanged
<1>7. CASE HandleReset
  BY <1>7 DEF HandleReset, LoopUnchanged
<1>8. CASE NoRequest
  BY <1>8 DEF NoRequest, ControlUnchanged, LoopUnchanged
<1>9. CASE ClearFeature
  BY <1>9 DEF ClearFeature, ControlUnchanged, LoopUnchanged
<1>10. CASE SetConfiguration
  BY <1>10 DEF SetConfiguration, ControlUnchanged, LoopUnchanged
<1>11. CASE ConfigKept
  BY <1>11 DEF ConfigKept, ConfigureUnchanged, ControlUnchanged, LoopUnchanged
<1>12. CASE ConfigParsed
  BY <1>12 DEF ConfigParsed, ConfigureUnchanged, ControlUnchanged, LoopUnchanged
<1>13. CASE ConfigUnparsed
  BY <1>13 DEF ConfigUnparsed, ConfigureUnchanged, ControlUnchanged, LoopUnchanged
<1>14. CASE PollDataEndpoints
  BY <1>14 DEF PollDataEndpoints, LoopUnchanged, Ready
<1>15. CASE Detect
  BY <1>15 DEF Detect, CheckUnchanged, LoopUnchanged
<1>16. CASE LayoutDone
  BY <1>16 DEF LayoutDone, CheckUnchanged, LoopUnchanged, MouseGone
<1>17. CASE CheckGone
  BY <1>17 DEF CheckGone, CheckUnchanged, LoopUnchanged, MouseGone
<1>18. CASE NothingNew
  BY <1>18 DEF NothingNew, CheckUnchanged, LoopUnchanged
<1>19. CASE NoInput
  BY <1>19 DEF NoInput, ProcessUnchanged, LoopUnchanged
<1>20. CASE Discard
  BY <1>20 DEF Discard, ProcessUnchanged, LoopUnchanged
<1>21. CASE Wait
  BY <1>21 DEF Wait, ProcessUnchanged, LoopUnchanged, MayMakeFrame
<1>22. CASE TakeReport
  BY <1>22 DEF TakeReport, ProcessUnchanged, LoopUnchanged, MayMakeFrame
<1>23. CASE TakeSerial
  BY <1>23 DEF TakeSerial, ProcessUnchanged, LoopUnchanged, MayMakeFrame
<1>24. CASE ParseButtons
  BY <1>24 DEF ParseButtons, ProcessUnchanged, LoopUnchanged
<1>25. CASE ParseMove
  BY <1>25 DEF ParseMove, ProcessUnchanged, LoopUnchanged
<1>26. CASE Reset
  BY <1>26 DEF Reset, ProcessUnchanged, LoopUnchanged, ResetFlag
<1>27. CASE Copy
  BY <1>27 DEF Copy, ProcessUnchanged, LoopUnchanged
<1>28. CASE Prime
  BY <1>28 DEF Prime, ProcessUnchanged, LoopUnchanged
<1>29. CASE UNCHANGED vars
  BY <1>29 DEF vars
<1> QED
  BY <1>1, <1>2, <1>3, <1>4, <1>5, <1>6, <1>7, <1>8, <1>9, <1>10, <1>11, <1>12, <1>13,
     <1>14, <1>15, <1>16, <1>17, <1>18, <1>19, <1>20, <1>21, <1>22, <1>23, <1>24, <1>25,
     <1>26, <1>27, <1>28, <1>29
  DEF Next, Environment, Loop, Poll, Check, Process

(***************************************************************************)
(* The channel.                                                            *)
(***************************************************************************)
\* The slot has the last report.
SlotInv == rawData = reported

\* Buttons travel in order.
ButtonsInv ==
  /\ received.buttons <= in_buffer.buttons /\ in_buffer.buttons <= taken.buttons
  /\ taken.buttons <= reported
  /\ IF pc \in {"move", "clear", "copy", "prime"} THEN previousUsbState <= taken.buttons
                                                 ELSE previousUsbState = taken.buttons

\* What waits in the slot is newer than what has left it.
NewInv ==
  /\ pc \in {"buttons", "move"} => dataAvailable
  /\ dataAvailable => reported > in_buffer.move /\ reported > received.move
  /\ dataAvailable /\ pc = "copy" => reported > taken.move

\* The movement of the frame being made is newer than any before it.
TakenInv ==
  /\ taken.move <= reported
  /\ pc \in {"clear", "copy"} /\ taken.move > 0
       => taken.move > in_buffer.move /\ taken.move > received.move /\ taken.buttons <= taken.move

\* The frame in the endpoint's buffer: it has been delivered only if the buffer
\* was written under a primed transfer.
BufferInv ==
  /\ in_buffer.move <= reported /\ received.move <= reported
  /\ in_buffer.move > 0 => /\ in_buffer.move >= received.move
                           /\ in_buffer.buttons <= in_buffer.move
                           /\ in_buffer.move = received.move => in_buffer.buttons = received.buttons
  /\ ~overlapped /\ (primed \/ pc = "prime") /\ in_buffer.move > 0 => in_buffer.move > received.move

ChanInv == SlotInv /\ ButtonsInv /\ NewInv /\ TakenInv /\ BufferInv

\* The channel's invariant is inductive, given the endpoint's.
LEMMA ChanStep == TypeOK /\ EndInv /\ ChanInv /\ [Next]_vars => ChanInv'
<1> USE PathAssumption DEF TypeOK, Frame, Places, Blocked, ChanInv, SlotInv,
            ButtonsInv, NewInv, TakenInv, BufferInv,
            mouseVars, slotVars, handlerVars, outputVars, proxyVars, pcVars
<1> SUFFICES ASSUME TypeOK, EndInv, ChanInv, [Next]_vars PROVE ChanInv'
  OBVIOUS
<1>0. /\ pc \in {"buttons", "move", "clear", "copy", "prime"} => endpoint_ready
      /\ ~overlapped /\ primed => ~endpoint_ready
  BY DEF EndInv, MakingInv, OneOfThree
<1>1. CASE Plug
  BY <1>1, <1>0 DEF Plug
<1>2. CASE Unplug
  BY <1>2, <1>0 DEF Unplug
<1>3. CASE Report
  BY <1>3, <1>0 DEF Report
<1>4. CASE HostReads
  BY <1>4, <1>0 DEF HostReads, Again
<1>5. CASE HostReset
  BY <1>5, <1>0 DEF HostReset
<1>6. CASE NoReset
  BY <1>6, <1>0 DEF NoReset, LoopUnchanged
<1>7. CASE HandleReset
  BY <1>7, <1>0 DEF HandleReset, LoopUnchanged
<1>8. CASE NoRequest
  BY <1>8, <1>0 DEF NoRequest, ControlUnchanged, LoopUnchanged
<1>9. CASE ClearFeature
  BY <1>9, <1>0 DEF ClearFeature, ControlUnchanged, LoopUnchanged
<1>10. CASE SetConfiguration
  BY <1>10, <1>0 DEF SetConfiguration, ControlUnchanged, LoopUnchanged
<1>11. CASE ConfigKept
  BY <1>11, <1>0 DEF ConfigKept, ConfigureUnchanged, ControlUnchanged, LoopUnchanged
<1>12. CASE ConfigParsed
  BY <1>12, <1>0 DEF ConfigParsed, ConfigureUnchanged, ControlUnchanged, LoopUnchanged
<1>13. CASE ConfigUnparsed
  BY <1>13, <1>0 DEF ConfigUnparsed, ConfigureUnchanged, ControlUnchanged, LoopUnchanged
<1>14. CASE PollDataEndpoints
  BY <1>14, <1>0 DEF PollDataEndpoints, LoopUnchanged, Ready
<1>15. CASE Detect
  BY <1>15, <1>0 DEF Detect, CheckUnchanged, LoopUnchanged
<1>16. CASE LayoutDone
  BY <1>16, <1>0 DEF LayoutDone, CheckUnchanged, LoopUnchanged, MouseGone
<1>17. CASE CheckGone
  BY <1>17, <1>0 DEF CheckGone, CheckUnchanged, LoopUnchanged, MouseGone
<1>18. CASE NothingNew
  BY <1>18, <1>0 DEF NothingNew, CheckUnchanged, LoopUnchanged
<1>19. CASE NoInput
  BY <1>19, <1>0 DEF NoInput, ProcessUnchanged, LoopUnchanged
<1>20. CASE Discard
  BY <1>20, <1>0 DEF Discard, ProcessUnchanged, LoopUnchanged
<1>21. CASE Wait
  BY <1>21, <1>0 DEF Wait, ProcessUnchanged, LoopUnchanged, MayMakeFrame
<1>22. CASE TakeReport
  BY <1>22, <1>0 DEF TakeReport, ProcessUnchanged, LoopUnchanged, MayMakeFrame
<1>23. CASE TakeSerial
  BY <1>23, <1>0 DEF TakeSerial, ProcessUnchanged, LoopUnchanged, MayMakeFrame
<1>24. CASE ParseButtons
  BY <1>24, <1>0 DEF ParseButtons, ProcessUnchanged, LoopUnchanged
<1>25. CASE ParseMove
  BY <1>25, <1>0 DEF ParseMove, ProcessUnchanged, LoopUnchanged
<1>26. CASE Reset
  BY <1>26, <1>0 DEF Reset, ProcessUnchanged, LoopUnchanged, ResetFlag
<1>27. CASE Copy
  BY <1>27, <1>0 DEF Copy, ProcessUnchanged, LoopUnchanged
<1>28. CASE Prime
  BY <1>28, <1>0 DEF Prime, ProcessUnchanged, LoopUnchanged
<1>29. CASE UNCHANGED vars
  BY <1>29 DEF vars
<1> QED
  BY <1>1, <1>2, <1>3, <1>4, <1>5, <1>6, <1>7, <1>8, <1>9, <1>10, <1>11, <1>12, <1>13,
     <1>14, <1>15, <1>16, <1>17, <1>18, <1>19, <1>20, <1>21, <1>22, <1>23, <1>24, <1>25,
     <1>26, <1>27, <1>28, <1>29
  DEF Next, Environment, Loop, Poll, Check, Process

(***************************************************************************)
(* Whose report, whose layout.                                             *)
(***************************************************************************)
\* What holds while check() has seen every mouse come and go.
SeenInv ==
  ~unseen =>
    /\ detected # 0 => detected = generation
    /\ detected # 0 /\ pc # "layout" => layout \in {Boot, generation}
    /\ detected = 0 /\ dataAvailable => plugged /\ pc \in {"configure", "data", "check"}
    /\ dataAvailable => rawData > since
    /\ pc \in {"buttons", "move", "clear"} \/ (pc = "copy" /\ taken.move > 0) => detected # 0
    /\ pc \in {"clear", "copy"} /\ taken.move > 0 => taken.move > since

OwnInv == SeenInv /\ since <= reported /\ (pc = "layout" => detected # 0)

\* It is inductive, given that the slot has the last report.
LEMMA OwnStep == TypeOK /\ ChanInv /\ OwnInv /\ [Next]_vars => OwnInv'
<1> USE PathAssumption DEF TypeOK, Frame, Places, Blocked, Boot, OwnInv, SeenInv,
            mouseVars, slotVars, handlerVars, outputVars, proxyVars, pcVars
<1> SUFFICES ASSUME TypeOK, ChanInv, OwnInv, [Next]_vars PROVE OwnInv'
  OBVIOUS
<1>0. rawData = reported /\ (pc \in {"buttons", "move"} => dataAvailable)
  BY DEF ChanInv, SlotInv, NewInv
<1>1. CASE Plug
  <2>1. CASE unseen'
    BY <1>1, <1>0, <2>1 DEF Plug
  <2>2. CASE ~unseen'
    <3>1. detected = 0 /\ ~unseen
      BY <1>1, <2>2, Zenon DEF Plug
    <3>2. ~dataAvailable
      BY <1>1, <3>1 DEF Plug
    <3> QED
      BY <1>1, <1>0, <3>1, <3>2 DEF Plug
  <2> QED
    BY <2>1, <2>2
<1>2. CASE Unplug
  BY <1>2, <1>0 DEF Unplug
<1>3. CASE Report
  BY <1>3, <1>0 DEF Report
<1>4. CASE HostReads
  BY <1>4, <1>0 DEF HostReads, Again
<1>5. CASE HostReset
  BY <1>5, <1>0 DEF HostReset
<1>6. CASE NoReset
  BY <1>6, <1>0 DEF NoReset, LoopUnchanged
<1>7. CASE HandleReset
  BY <1>7, <1>0 DEF HandleReset, LoopUnchanged
<1>8. CASE NoRequest
  BY <1>8, <1>0 DEF NoRequest, ControlUnchanged, LoopUnchanged
<1>9. CASE ClearFeature
  BY <1>9, <1>0 DEF ClearFeature, ControlUnchanged, LoopUnchanged
<1>10. CASE SetConfiguration
  BY <1>10, <1>0 DEF SetConfiguration, ControlUnchanged, LoopUnchanged
<1>11. CASE ConfigKept
  BY <1>11, <1>0 DEF ConfigKept, ConfigureUnchanged, ControlUnchanged, LoopUnchanged
<1>12. CASE ConfigParsed
  BY <1>12, <1>0 DEF ConfigParsed, ConfigureUnchanged, ControlUnchanged, LoopUnchanged
<1>13. CASE ConfigUnparsed
  BY <1>13, <1>0 DEF ConfigUnparsed, ConfigureUnchanged, ControlUnchanged, LoopUnchanged
<1>14. CASE PollDataEndpoints
  BY <1>14, <1>0 DEF PollDataEndpoints, LoopUnchanged, Ready
<1>15. CASE Detect
  BY <1>15, <1>0 DEF Detect, CheckUnchanged, LoopUnchanged
<1>16. CASE LayoutDone
  BY <1>16, <1>0 DEF LayoutDone, CheckUnchanged, LoopUnchanged, MouseGone
<1>17. CASE CheckGone
  BY <1>17, <1>0 DEF CheckGone, CheckUnchanged, LoopUnchanged, MouseGone
<1>18. CASE NothingNew
  BY <1>18, <1>0 DEF NothingNew, CheckUnchanged, LoopUnchanged
<1>19. CASE NoInput
  BY <1>19, <1>0 DEF NoInput, ProcessUnchanged, LoopUnchanged
<1>20. CASE Discard
  BY <1>20, <1>0 DEF Discard, ProcessUnchanged, LoopUnchanged
<1>21. CASE Wait
  BY <1>21, <1>0 DEF Wait, ProcessUnchanged, LoopUnchanged, MayMakeFrame
<1>22. CASE TakeReport
  BY <1>22, <1>0 DEF TakeReport, ProcessUnchanged, LoopUnchanged, MayMakeFrame
<1>23. CASE TakeSerial
  BY <1>23, <1>0 DEF TakeSerial, ProcessUnchanged, LoopUnchanged, MayMakeFrame
<1>24. CASE ParseButtons
  BY <1>24, <1>0 DEF ParseButtons, ProcessUnchanged, LoopUnchanged
<1>25. CASE ParseMove
  BY <1>25, <1>0 DEF ParseMove, ProcessUnchanged, LoopUnchanged
<1>26. CASE Reset
  BY <1>26, <1>0 DEF Reset, ProcessUnchanged, LoopUnchanged, ResetFlag
<1>27. CASE Copy
  BY <1>27, <1>0 DEF Copy, ProcessUnchanged, LoopUnchanged
<1>28. CASE Prime
  BY <1>28, <1>0 DEF Prime, ProcessUnchanged, LoopUnchanged
<1>29. CASE UNCHANGED vars
  BY <1>29 DEF vars
<1> QED
  BY <1>1, <1>2, <1>3, <1>4, <1>5, <1>6, <1>7, <1>8, <1>9, <1>10, <1>11, <1>12, <1>13,
     <1>14, <1>15, <1>16, <1>17, <1>18, <1>19, <1>20, <1>21, <1>22, <1>23, <1>24, <1>25,
     <1>26, <1>27, <1>28, <1>29
  DEF Next, Environment, Loop, Poll, Check, Process

(***************************************************************************)
(* The theorems.                                                           *)
(***************************************************************************)
\* The invariants hold at the start.
LEMMA Start == Init => TypeOK /\ EndInv /\ ChanInv /\ OwnInv
<1> SUFFICES ASSUME Init PROVE TypeOK /\ EndInv /\ ChanInv /\ OwnInv
  OBVIOUS
<1>1. TypeOK
  <2>1. /\ 1 \in 1..MaxMice /\ 1 \in 0..MaxMice /\ 0 \in 0..MaxReports /\ 0 \in Nat
        /\ layout \in 0..MaxMice
    BY PathAssumption DEF Init, Boot
  <2>2. NoFrame \in Frame
    BY <2>1 DEF NoFrame, Frame
  <2>3. left \in [resets : 0..MaxResets, requests : 0..MaxRequests]
    BY PathAssumption DEF Init
  <2>4. pc \in Places /\ lost \in SUBSET (1..MaxReports)
    BY DEF Init, Places
  <2> QED
    <3>1. /\ plugged \in BOOLEAN /\ generation \in 1..MaxMice
          /\ since \in 0..MaxReports /\ reported \in 0..MaxReports
          /\ rawData \in 0..MaxReports /\ dataAvailable \in BOOLEAN
          /\ detected \in 0..MaxMice
      BY <2>1 DEF Init
    <3>2. /\ taken \in Frame /\ previousUsbState \in 0..MaxReports
          /\ in_buffer \in Frame /\ received \in Frame /\ repeats \in Nat
      BY <2>1, <2>2 DEF Init
    <3> QED
      BY <2>1, <2>3, <2>4, <3>1, <3>2 DEF Init, TypeOK
<1>2. EndInv
  BY DEF Init, EndInv, OffInv, KnownInv, MakingInv, OneOfThree, EndpointAlive
<1>3. ChanInv
  BY PathAssumption
  DEF Init, NoFrame, ChanInv, SlotInv, ButtonsInv, NewInv, TakenInv, BufferInv
<1>4. OwnInv
  BY PathAssumption DEF Init, NoFrame, Boot, OwnInv, SeenInv
<1> QED
  BY <1>1, <1>2, <1>3, <1>4

\* Every variable keeps to its type: the report, the frame and the layout that
\* the loop and the interrupt handle are ones that exist.
THEOREM TypeCorrect == Spec => []TypeOK
<1>1. Init => TypeOK
  BY Start
<1>2. TypeOK /\ [Next]_vars => TypeOK'
  BY TypeStep
<1> QED
  BY <1>1, <1>2, PTL DEF Spec

\* The endpoint's invariant in every state.
LEMMA EndAlways == Spec => []EndInv
<1>1. Init => EndInv
  BY Start
<1>2. TypeOK /\ EndInv /\ [Next]_vars => EndInv'
  BY EndStep
<1> QED
  BY <1>1, <1>2, TypeCorrect, PTL DEF Spec

\* A configured endpoint that is not ready has a transfer primed or completed,
\* unless CLEAR_FEATURE flushed it or its configuration could not be read.
THEOREM EndpointStaysAlive == Spec => []EndpointAlive
<1>1. EndInv => EndpointAlive
  BY DEF EndInv
<1> QED
  BY <1>1, EndAlways, PTL

\* endpoint_ready stays clear as long as a frame is primed, unless a
\* SET_CONFIGURATION came over the frame.
THEOREM BusyWhilePrimed == Spec => []BusyUnlessOverlapped
<1>1. EndInv => BusyUnlessOverlapped
  BY DEF EndInv, OneOfThree, BusyUnlessOverlapped
<1> QED
  BY <1>1, EndAlways, PTL

\* The channel's invariant in every state.
LEMMA ChanAlways == Spec => []ChanInv
<1>1. Init => ChanInv
  BY Start
<1>2. TypeOK /\ EndInv /\ ChanInv /\ [Next]_vars => ChanInv'
  BY ChanStep
<1> QED
  BY <1>1, <1>2, TypeCorrect, EndAlways, PTL DEF Spec

\* No frame has movement of a mouse that is gone and no report is parsed with
\* another mouse's layout, as long as check() has seen every mouse come and go.
THEOREM OwnReports == Spec => []OwnReportOwnLayout
<1>1. Init => OwnInv
  BY Start
<1>2. TypeOK /\ ChanInv /\ OwnInv /\ [Next]_vars => OwnInv'
  BY OwnStep
<1>3. OwnInv => OwnReportOwnLayout
  BY DEF OwnInv, SeenInv, OwnReportOwnLayout, Boot
<1> QED
  BY <1>1, <1>2, <1>3, TypeCorrect, ChanAlways, PTL DEF Spec

\* What the PC reads is a delivery, a delivery of buttons alone, or a repetition.
LEMMA ReadIsDelivery ==
  TypeOK /\ ChanInv /\ HostReads
    => Channel!Deliver \/ Channel!DeliverButtons \/ Channel!Repeat
<1> SUFFICES ASSUME TypeOK, ChanInv, HostReads
             PROVE Channel!Deliver \/ Channel!DeliverButtons \/ Channel!Repeat
  OBVIOUS
<1> DEFINE b == in_buffer.buttons
           m == in_buffer.move
<1>1. /\ received \in Frame /\ in_buffer \in Frame /\ reported \in Nat
      /\ received.buttons <= b /\ b <= reported
  BY PathAssumption DEF TypeOK, Frame, ChanInv, ButtonsInv
<1>2. /\ primed /\ UNCHANGED <<reported, overlapped>>
      /\ received' = [buttons |-> b, move |-> IF m > 0 THEN m ELSE received.move]
      /\ repeats' = IF Again THEN repeats + 1 ELSE repeats
  BY DEF HostReads, mouseVars
<1>3. /\ m <= reported
      /\ m > 0 => /\ m >= received.move /\ b <= m
                  /\ m = received.move => b = received.buttons
      /\ ~overlapped /\ primed /\ m > 0 => m > received.move
  BY DEF ChanInv, BufferInv
<1>4. CASE Again
  <2>1. m > 0 /\ m = received.move /\ b = received.buttons
    BY <1>1, <1>3, <1>4 DEF Again, Frame
  <2>2. received' = received
    BY <1>1, <1>2, <2>1 DEF Frame
  <2>3. overlapped
    BY <1>1, <1>2, <1>3, <2>1 DEF Frame
  <2> QED
    BY <1>2, <1>4, <2>2, <2>3 DEF Channel!Repeat
<1>5. CASE ~Again /\ m > 0
  <2>1. m > received.move
    BY <1>1, <1>3, <1>5 DEF Again, Frame
  <2>2. received' = [buttons |-> b, move |-> m]
    BY <1>2, <1>5
  <2>3. b \in received.buttons..reported /\ m \in (received.move + 1)..reported /\ b <= m
    BY <1>1, <1>3, <1>5, <2>1 DEF Frame
  <2> QED
    BY <1>2, <1>5, <2>2, <2>3 DEF Channel!Deliver
<1>6. CASE ~Again /\ ~(m > 0)
  <2>1. received' = [received EXCEPT !.buttons = b]
    BY <1>1, <1>2, <1>6 DEF Frame
  <2>2. b \in received.buttons..reported
    BY <1>1 DEF Frame
  <2> QED
    BY <1>2, <1>6, <2>1, <2>2 DEF Channel!DeliverButtons
<1> QED
  BY <1>4, <1>5, <1>6 DEF Again

\* Every step of the path is a step of the channel or leaves it as it is.
LEMMA ChannelStep ==
  TypeOK /\ ChanInv /\ [Next]_vars => [Channel!Next]_(Channel!vars)
<1> SUFFICES ASSUME TypeOK, ChanInv, [Next]_vars PROVE Channel!Next \/ UNCHANGED Channel!vars
  OBVIOUS
<1> USE DEF Channel!vars, mouseVars
<1>1. CASE Report
  BY <1>1 DEF Report, Channel!Next, Channel!Report, pcVars
<1>2. CASE HostReads
  BY <1>2, ReadIsDelivery DEF Channel!Next
<1>3. CASE Plug \/ Unplug \/ HostReset
  BY <1>3 DEF Plug, Unplug, HostReset, pcVars
<1>4. CASE HandleReset
  BY <1>4 DEF HandleReset, LoopUnchanged, Channel!Next, Channel!Reconfigure
<1>5. CASE ConfigParsed
  <2>1. overlapped' \in BOOLEAN
    BY <1>5, Zenon DEF ConfigParsed
  <2>2. UNCHANGED <<reported, received, repeats>>
    BY <1>5 DEF ConfigParsed, ConfigureUnchanged, ControlUnchanged, LoopUnchanged
  <2> QED
    BY <2>1, <2>2 DEF Channel!Next, Channel!Reconfigure
<1>6. CASE \/ NoReset \/ NoRequest \/ ClearFeature \/ SetConfiguration
           \/ ConfigKept \/ ConfigUnparsed \/ PollDataEndpoints
  BY <1>6
  DEF NoReset, NoRequest, ClearFeature, SetConfiguration, ConfigKept, ConfigUnparsed,
      PollDataEndpoints, ConfigureUnchanged, ControlUnchanged, LoopUnchanged
<1>7. CASE Check
  BY <1>7 DEF Check, Detect, LayoutDone, CheckGone, NothingNew, CheckUnchanged, LoopUnchanged
<1>8. CASE Process
  BY <1>8
  DEF Process, NoInput, Discard, Wait, TakeReport, TakeSerial, ParseButtons, ParseMove, Reset,
      Copy, Prime, ProcessUnchanged, LoopUnchanged
<1>9. CASE UNCHANGED vars
  BY <1>9 DEF vars
<1> QED
  BY <1>1, <1>2, <1>3, <1>4, <1>5, <1>6, <1>7, <1>8, <1>9 DEF Next, Environment, Loop, Poll

\* The path of the reports implements the channel: reports are delivered in
\* order, and a movement twice only after a SET_CONFIGURATION over a primed frame.
THEOREM ChannelRefinement == Spec => ImplementsChannel
<1>1. Init => Channel!Init
  BY DEF Init, NoFrame, Channel!Init
<1>2. TypeOK /\ ChanInv /\ [Next]_vars => [Channel!Next]_(Channel!vars)
  BY ChannelStep
<1> QED
  BY <1>1, <1>2, TypeCorrect, ChanAlways, PTL DEF Spec, ImplementsChannel, Channel!Spec
=============================================================================
