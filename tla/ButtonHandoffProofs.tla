-------------------------- MODULE ButtonHandoffProofs --------------------------
(***************************************************************************)
(* Proofs about ButtonHandoff, for every set of options and every length   *)
(* of the gap, of the double tap and of the middle button's window.        *)
(***************************************************************************)
EXTENDS ButtonHandoff, TLAPS

\* What a source says is what it said last, and what the filter lets pass is said.
LEMMA ButtonFacts ==
  ASSUME TypeOK
  PROVE  /\ UsbButtons \in Report /\ SerialButtons \in BOOLEAN
         /\ usbHeld \in BOOLEAN /\ (usbHeld => UsbButtons.button)
         /\ synHeld \in BOOLEAN /\ (synHeld => SerialButtons)
<1>1. UsbButtons \in Report
  BY DEF TypeOK, UsbButtons
<1>2. SerialButtons \in BOOLEAN
  BY DEF TypeOK, SerialButtons
<1>3. UsbButtons.button \in BOOLEAN
  BY <1>1 DEF Report
<1>4. usbHeld \in BOOLEAN /\ (usbHeld => UsbButtons.button)
  BY <1>3 DEF usbHeld, Passes
<1>5. synHeld \in BOOLEAN /\ (synHeld => SerialButtons)
  BY <1>2 DEF synHeld, Passes
<1> QED
  BY <1>1, <1>2, <1>4, <1>5

LEMMA LastPressType ==
  ASSUME NEW now, NEW previous, NEW last \in AgeUpTo(DoubleTap) \cup {None}
  PROVE  LastPress(now, previous, last) \in AgeUpTo(DoubleTap) \cup {None}
<1>1. 0 \in AgeUpTo(DoubleTap)
  BY HandoffAssumption DEF AgeUpTo
<1> QED
  BY <1>1 DEF LastPress

LEMMA OlderFacts ==
  ASSUME NEW bound \in Nat, NEW age \in AgeUpTo(bound)
  PROVE  /\ Older(age, bound) \in AgeUpTo(bound) /\ age <= Older(age, bound)
         /\ \A younger \in AgeUpTo(bound) :
              younger <= age => Older(younger, bound) <= Older(age, bound)
  BY DEF AgeUpTo, Older

\* What the hand-off does in a frame.
LEMMA HandoffFacts ==
  ASSUME TypeOK, ProcessButtonHandoff
  PROVE  /\ handoff' \in {"idle", "hold", "release", "user"} /\ lastOutput' \in BOOLEAN
         /\ gapAge' \in AgeUpTo(GapMax) /\ gapDurationMs' \in GapMin..GapMax
<1> USE HandoffAssumption
<1>1. usbHeld \in BOOLEAN /\ synHeld \in BOOLEAN
  BY ButtonFacts
<1>2. 0 \in AgeUpTo(GapMax)
  BY DEF AgeUpTo
<1>3. CASE HandoffIdle
  BY <1>1, <1>3 DEF HandoffIdle, TypeOK
<1>4. CASE HandoffHold
  BY <1>1, <1>4 DEF HandoffHold, TypeOK
<1>5. CASE HandoffBegin
  BY <1>2, <1>5 DEF HandoffBegin, TypeOK
<1>6. CASE HandoffRelease
  <2>1. lastOutput' \in BOOLEAN
    BY <1>1, <1>6, Zenon DEF HandoffRelease
  <2> QED
    BY <2>1, <1>6 DEF HandoffRelease, TypeOK
<1>7. CASE HandoffUser
  BY <1>1, <1>7 DEF HandoffUser, TypeOK
<1> QED
  BY <1>3, <1>4, <1>5, <1>6, <1>7 DEF ProcessButtonHandoff

-----------------------------------------------------------------------------
\* Every variable has its type, in every state.
THEOREM TypeCorrect == Spec => []TypeOK
<1> USE HandoffAssumption
<1>1. Init => TypeOK
  <2> SUFFICES ASSUME Init PROVE TypeOK
    OBVIOUS
  <2>1. gapAge \in AgeUpTo(GapMax) /\ gapDurationMs \in GapMin..GapMax
    BY DEF Init, AgeUpTo
  <2>2. exclusionAge \in AgeUpTo(Exclusion) /\ changeAge \in AgeUpTo(DoubleTap)
    BY DEF Init, AgeUpTo
  <2>3. finger \in Report /\ previousUsbState \in Report
    BY DEF Init, Up, Report
  <2> QED
    BY <2>1, <2>2, <2>3 DEF Init, TypeOK
<1>2. TypeOK /\ [Next]_vars => TypeOK'
  <2> SUFFICES ASSUME TypeOK, [Next]_vars PROVE TypeOK'
    OBVIOUS
  <2> USE DEF inputVars, buttonVars, handoffVars, historyVars
  <2>1. CASE MouseReport
    BY <2>1 DEF MouseReport, TypeOK
  <2>2. CASE Unplug
    BY <2>2 DEF Unplug, TypeOK, Up, Report
  <2>3. CASE SerialFrame
    <3>1. changeAge' \in AgeUpTo(DoubleTap)
      BY <2>3 DEF SerialFrame, AgeUpTo
    <3> QED
      BY <2>3, <3>1 DEF SerialFrame, TypeOK
  <2>4. CASE SetOption
    BY <2>4 DEF SetOption, TypeOK
  <2>5. CASE Tick
    <3>1. gapAge' \in AgeUpTo(GapMax) /\ exclusionAge' \in AgeUpTo(Exclusion)
      BY <2>5, OlderFacts DEF Tick, TypeOK
    <3>2. lastPressTime' \in AgeUpTo(DoubleTap) \cup {None}
      BY <2>5, OlderFacts DEF Tick, TypeOK
    <3>3. changeAge' \in AgeUpTo(DoubleTap)
      <4>1. 0 \in AgeUpTo(DoubleTap)
        BY DEF AgeUpTo
      <4> QED
        BY <2>5, <4>1, OlderFacts DEF Tick, TypeOK
    <3> QED
      BY <2>5, <3>1, <3>2, <3>3 DEF Tick, TypeOK
  <2>6. CASE Frame
    <3>1. UsbButtons \in Report /\ SerialButtons \in BOOLEAN
      BY ButtonFacts
    <3>2. /\ handoff' \in {"idle", "hold", "release", "user"} /\ lastOutput' \in BOOLEAN
          /\ gapAge' \in AgeUpTo(GapMax) /\ gapDurationMs' \in GapMin..GapMax
      BY <2>6, HandoffFacts DEF Frame
    <3>3. 0 \in AgeUpTo(Exclusion) /\ 0 \in AgeUpTo(DoubleTap)
      BY DEF AgeUpTo
    <3>4. exclusionAge' \in AgeUpTo(Exclusion) /\ changeAge' \in AgeUpTo(DoubleTap)
      BY <2>6, <3>3 DEF Frame, ExclusionAge, TypeOK
    <3>5. lastPressTime' \in AgeUpTo(DoubleTap) \cup {None}
      BY <2>6, LastPressType DEF Frame, LastPressUsb, TypeOK
    <3>6. handed' \in BOOLEAN /\ lostUsb' \in BOOLEAN /\ lostSerial' \in BOOLEAN
      BY <2>6, ButtonFacts DEF Frame, TypeOK, usbEdge
    <3>7. press' \in {"slow", "window", "free", "shared"}
      BY <2>6 DEF Frame, TypeOK
    <3> QED
      BY <2>6, <3>1, <3>2, <3>4, <3>5, <3>6, <3>7 DEF Frame, TypeOK
  <2>7. CASE Discard
    BY <2>7 DEF Discard, TypeOK
  <2>8. CASE UNCHANGED vars
    BY <2>8 DEF vars, TypeOK
  <2> QED
    BY <2>1, <2>2, <2>3, <2>4, <2>5, <2>6, <2>7, <2>8 DEF Next
<1> QED
  BY <1>1, <1>2, PTL DEF Spec

-----------------------------------------------------------------------------
(***************************************************************************)
(* No button stays pressed by itself.                                      *)
(***************************************************************************)
\* What waits in a slot, and what was taken from it last, is the last word of its
\* source, unless that word was discarded.
WordInv ==
  /\ usbSlot # None => usbSlot = finger
  /\ usbSlot = None /\ ~lostUsb => previousUsbState = finger
  /\ serialSlot # None => serialSlot = wish
  /\ serialSlot = None /\ ~lostSerial => previousSerialState = wish

\* The PC sees the button held only if the mouse or the line last held it.
OutputInv == lastOutput => previousUsbState.button \/ previousSerialState

THEOREM NothingStuck == Spec => []NotStuck
<1> USE DEF inputVars, buttonVars, handoffVars, historyVars
<1>1. Init => WordInv /\ OutputInv
  BY DEF Init, WordInv, OutputInv
<1>2. TypeOK /\ WordInv /\ OutputInv /\ [Next]_vars => WordInv' /\ OutputInv'
  <2> SUFFICES ASSUME TypeOK, WordInv, OutputInv, [Next]_vars PROVE WordInv' /\ OutputInv'
    OBVIOUS
  <2> USE HandoffAssumption
  <2>1. CASE MouseReport
    <3>1. usbSlot' = finger' /\ usbSlot' # None
      BY <2>1 DEF MouseReport, Report
    <3> QED
      BY <2>1, <3>1 DEF MouseReport, WordInv, OutputInv
  <2>2. CASE Unplug
    BY <2>2 DEF Unplug, WordInv, OutputInv
  <2>3. CASE SerialFrame
    BY <2>3 DEF SerialFrame, WordInv, OutputInv
  <2>4. CASE SetOption \/ Tick
    BY <2>4 DEF SetOption, Tick, WordInv, OutputInv
  <2>5. CASE Frame
    <3>1. /\ usbHeld \in BOOLEAN /\ (usbHeld => UsbButtons.button)
          /\ synHeld \in BOOLEAN /\ (synHeld => SerialButtons)
      BY ButtonFacts
    <3>2. lastOutput' => usbHeld \/ synHeld
      BY <2>5, <3>1, Zenon DEF Frame, ProcessButtonHandoff, HandoffIdle, HandoffHold,
         HandoffBegin, HandoffRelease, HandoffUser
    <3>3. OutputInv'
      BY <2>5, <3>1, <3>2 DEF Frame, OutputInv
    <3>4. WordInv'
      BY <2>5 DEF Frame, WordInv, UsbButtons, SerialButtons, TypeOK
    <3> QED
      BY <3>3, <3>4
  <2>6. CASE Discard
    BY <2>6 DEF Discard, WordInv, OutputInv, TypeOK
  <2>7. CASE UNCHANGED vars
    BY <2>7 DEF vars, WordInv, OutputInv
  <2> QED
    BY <2>1, <2>2, <2>3, <2>4, <2>5, <2>6, <2>7 DEF Next
<1>3. WordInv /\ OutputInv => NotStuck
  BY DEF WordInv, OutputInv, NotStuck
<1> QED
  BY <1>1, <1>2, <1>3, TypeCorrect, PTL DEF Spec

-----------------------------------------------------------------------------
(***************************************************************************)
(* The hand-off.                                                           *)
(***************************************************************************)
\* A button that was handed over is in its gap, when nothing is pressed, or the
\* user's, when the gap has passed and only the mouse presses it.
HandedInv ==
  /\ handed => handoff \in {"release", "user"}
  /\ handoff = "release" => ~lastOutput
  /\ handoff = "user" => gapAge >= GapMin
  /\ handoff = "user" => (lastOutput => previousUsbState.button)

THEOREM HandoffHolds == Spec => []HandedOver
<1> USE DEF inputVars, buttonVars, handoffVars, historyVars
<1>1. Init => HandedInv
  BY DEF Init, HandedInv
<1>2. TypeOK /\ HandedInv /\ [Next]_vars => HandedInv'
  <2> SUFFICES ASSUME TypeOK, HandedInv, [Next]_vars PROVE HandedInv'
    OBVIOUS
  <2> USE HandoffAssumption
  <2>1. CASE MouseReport \/ Unplug \/ SerialFrame \/ SetOption \/ Discard
    BY <2>1 DEF MouseReport, Unplug, SerialFrame, SetOption, Discard, HandedInv
  <2>2. CASE Tick
    <3>1. handoff = "user" => gapAge' >= GapMin
      BY <2>2, OlderFacts DEF Tick, HandedInv, TypeOK, AgeUpTo
    <3> QED
      BY <2>2, <3>1 DEF Tick, HandedInv
  <2>3. CASE Frame
    <3>1. /\ usbHeld \in BOOLEAN /\ (usbHeld => UsbButtons.button)
          /\ synHeld \in BOOLEAN /\ (synHeld => SerialButtons)
      BY ButtonFacts
    <3>2. CASE HandoffIdle
      BY <2>3, <3>1, <3>2 DEF Frame, HandoffIdle, HandedInv
    <3>3. CASE HandoffHold
      BY <2>3, <3>1, <3>3 DEF Frame, HandoffHold, HandedInv
    <3>4. CASE HandoffBegin
      BY <2>3, <3>1, <3>4 DEF Frame, HandoffBegin, HandedInv
    <3>5. CASE HandoffRelease
      <4>1. handoff' = "user" => gapAge' >= GapMin
        BY <3>5 DEF HandoffRelease, TypeOK, AgeUpTo
      <4>2. /\ handoff' \in {"release", "user"}
            /\ handoff' = "release" => ~lastOutput'
            /\ lastOutput' => UsbButtons.button
        BY <3>5, <3>1, Zenon DEF HandoffRelease
      <4> QED
        BY <2>3, <4>1, <4>2 DEF Frame, HandedInv
    <3>6. CASE HandoffUser
      BY <2>3, <3>1, <3>6 DEF Frame, HandoffUser, HandedInv
    <3> QED
      BY <2>3, <3>2, <3>3, <3>4, <3>5, <3>6 DEF Frame, ProcessButtonHandoff
  <2>4. CASE UNCHANGED vars
    BY <2>4 DEF vars, HandedInv
  <2> QED
    BY <2>1, <2>2, <2>3, <2>4 DEF Next
<1>3. HandedInv => HandedOver
  BY DEF HandedInv, HandedOver
<1> QED
  BY <1>1, <1>2, <1>3, TypeCorrect, PTL DEF Spec

-----------------------------------------------------------------------------
(***************************************************************************)
(* Double taps.                                                            *)
(***************************************************************************)
\* While the serial line is silent, no hand-off begins.
SilentInv ==
  press # "shared" => /\ serialSlot = None /\ previousSerialState = FALSE
                      /\ handoff = "idle"

\* While the serial line is silent, lastPressTime is no later than the last change
\* of the mouse's button, and a press that came too late keeps it.
TapInv ==
  press # "shared" =>
    /\ lastPressTime # None => changeAge <= lastPressTime
    /\ press = "slow" /\ previousUsbState.button => lastPressTime # None

\* In a frame while the serial line is silent, the button is the mouse's, filtered.
LEMMA SilentFrame ==
  ASSUME TypeOK, SilentInv, press # "shared", Frame
  PROVE  /\ handoff' = "idle" /\ lastOutput' = usbHeld
         /\ lastPressTime' = LastPressUsb
         /\ serialSlot' = None /\ previousSerialState' = FALSE
<1> USE HandoffAssumption
<1>1. SerialButtons = FALSE /\ previousSerialState = FALSE /\ handoff = "idle"
  BY DEF SilentInv, SerialButtons
<1>2. synHeld = FALSE
  BY <1>1 DEF synHeld, Passes
<1>3. usbHeld \in BOOLEAN
  BY ButtonFacts
<1>4. HandoffIdle
  BY <1>1 DEF Frame, ProcessButtonHandoff, HandoffHold, HandoffBegin, HandoffRelease, HandoffUser
<1>5. handoff' = "idle" /\ lastOutput' = usbHeld
  BY <1>2, <1>3, <1>4 DEF HandoffIdle
<1>6. lastPressTime' = LastPressUsb
  BY <1>1 DEF Frame, LastPress
<1> QED
  BY <1>1, <1>5, <1>6 DEF Frame

\* A tap came no later than the double-tap time after the last change.
LEMMA TapFacts ==
  ASSUME TypeOK, TapInv, press # "shared", Tapped(lastPressTime)
  PROVE  changeAge <= DoubleTap
<1> USE HandoffAssumption
<1>1. lastPressTime # None /\ lastPressTime <= DoubleTap
  BY DEF Tapped
<1>2. lastPressTime \in Nat /\ changeAge \in Nat
  BY <1>1 DEF TypeOK, AgeUpTo
<1>3. changeAge <= lastPressTime
  BY <1>1 DEF TapInv
<1> QED
  BY <1>1, <1>2, <1>3

\* What a frame does to the press, while the serial line is silent.
LEMMA TapFrame ==
  ASSUME TypeOK, SilentInv, TapInv, press # "shared", Frame
  PROVE  /\ press' # "shared"
         /\ lastPressTime' # None => changeAge' <= lastPressTime'
         /\ press' = "slow" /\ UsbButtons.button => lastPressTime' # None
         /\ option = 3 /\ press' = "slow" => ~usbHeld
<1> USE HandoffAssumption
<1> DEFINE now == UsbButtons.button
           previous == previousUsbState.button
<1>1. now \in BOOLEAN /\ previous \in BOOLEAN
  BY ButtonFacts DEF Report, TypeOK
<1>2. lastPressTime' = LastPress(now, previous, lastPressTime)
  BY SilentFrame DEF LastPressUsb
<1>3. changeAge' = IF now # previous THEN 0 ELSE changeAge
  BY DEF Frame
<1>4. press' = IF ~now \/ previous THEN press
               ELSE IF option = 3 /\ changeAge > DoubleTap THEN "slow"
               ELSE IF option = 2 /\ ExclusionAge <= Exclusion THEN "window" ELSE "free"
  BY DEF Frame
<1>5. 0 # None /\ changeAge \in Nat
  BY DEF TypeOK, AgeUpTo
<1>6. usbHeld => now
  BY ButtonFacts
<1>7. press' # "shared"
  BY <1>1, <1>4
<1>8. CASE now /\ ~previous /\ option = 3 /\ ~Tapped(lastPressTime)
  <2>1. lastPressTime' = 0 /\ changeAge' = 0
    BY <1>1, <1>2, <1>3, <1>8 DEF LastPress
  <2>2. ~usbHeld
    BY <1>8 DEF usbHeld, Passes
  <2> QED
    BY <1>5, <1>7, <2>1, <2>2
<1>9. CASE now /\ ~previous /\ option = 3 /\ Tapped(lastPressTime)
  <2>1. lastPressTime' = None
    BY <1>1, <1>2, <1>9 DEF LastPress
  <2>2. ~(changeAge > DoubleTap)
    BY <1>9, <1>5, TapFacts
  <2>3. press' # "slow"
    BY <1>1, <1>4, <1>9, <2>2
  <2> QED
    BY <1>7, <2>1, <2>3
<1>10. CASE now /\ ~previous /\ option # 3
  <2>1. lastPressTime' = lastPressTime /\ changeAge' = 0
    BY <1>1, <1>2, <1>3, <1>10 DEF LastPress
  <2>2. press' # "slow"
    BY <1>1, <1>4, <1>10
  <2>3. lastPressTime # None => 0 <= lastPressTime
    BY DEF TypeOK, AgeUpTo
  <2> QED
    BY <1>7, <1>10, <2>1, <2>2, <2>3
<1>11. CASE now /\ previous
  <2>1. lastPressTime' = lastPressTime /\ changeAge' = changeAge /\ press' = press
    BY <1>1, <1>2, <1>3, <1>4, <1>11 DEF LastPress
  <2>2. usbHeld /\ option = 3 => lastPressTime = None
    BY <1>11 DEF usbHeld, Passes
  <2> QED
    BY <1>7, <1>11, <2>1, <2>2 DEF TapInv
<1>12. CASE ~now /\ previous
  <2>1. lastPressTime' = 0 /\ changeAge' = 0
    BY <1>1, <1>2, <1>3, <1>12 DEF LastPress
  <2> QED
    BY <1>5, <1>6, <1>7, <1>12, <2>1
<1>13. CASE ~now /\ ~previous
  <2>1. lastPressTime' = lastPressTime /\ changeAge' = changeAge
    BY <1>1, <1>2, <1>3, <1>13 DEF LastPress
  <2> QED
    BY <1>6, <1>7, <1>13, <2>1 DEF TapInv
<1> QED
  BY <1>1, <1>8, <1>9, <1>10, <1>11, <1>12, <1>13

\* Under option 3 a press that came too late for a double tap is never shown.
THEOREM SlowPressHidden == Spec => OnlyDoubleTaps
<1> USE DEF inputVars, buttonVars, handoffVars, historyVars
<1> USE HandoffAssumption
<1>1. Init => SilentInv /\ TapInv
  BY DEF Init, SilentInv, TapInv
<1>2. TypeOK /\ SilentInv /\ TapInv /\ [Next]_vars => SilentInv' /\ TapInv'
  <2> SUFFICES ASSUME TypeOK, SilentInv, TapInv, [Next]_vars PROVE SilentInv' /\ TapInv'
    OBVIOUS
  <2>1. CASE MouseReport \/ Unplug \/ SetOption \/ Discard
    BY <2>1 DEF MouseReport, Unplug, SetOption, Discard, SilentInv, TapInv
  <2>2. CASE SerialFrame
    BY <2>2 DEF SerialFrame, SilentInv, TapInv
  <2>3. CASE Tick
    <3>1. SilentInv'
      BY <2>3 DEF Tick, SilentInv
    <3>2. press' = press /\ previousUsbState' = previousUsbState
      BY <2>3 DEF Tick
    <3>3. CASE press # "shared" /\ lastPressTime # None
      <4>1. lastPressTime \in AgeUpTo(DoubleTap) /\ changeAge \in AgeUpTo(DoubleTap)
        BY <3>3 DEF TypeOK
      <4>2. changeAge <= lastPressTime
        BY <3>3 DEF TapInv
      <4>3. /\ lastPressTime' = Older(lastPressTime, DoubleTap)
            /\ changeAge' = Older(changeAge, DoubleTap)
        BY <2>3, <3>3 DEF Tick
      <4>4. changeAge' <= lastPressTime'
        BY <4>1, <4>2, <4>3, OlderFacts
      <4>5. lastPressTime' # None
        BY <4>1, <4>3 DEF Older, AgeUpTo
      <4> QED
        BY <3>1, <3>2, <4>4, <4>5 DEF TapInv
    <3>4. CASE press # "shared" /\ lastPressTime = None
      BY <2>3, <3>1, <3>2, <3>4 DEF Tick, TapInv
    <3>5. CASE press = "shared"
      BY <3>1, <3>2, <3>5 DEF TapInv
    <3> QED
      BY <3>1, <3>3, <3>4, <3>5
  <2>4. CASE Frame
    <3>1. CASE press = "shared"
      <4>1. press' = "shared"
        BY <2>4, <3>1 DEF Frame
      <4> QED
        BY <4>1 DEF SilentInv, TapInv
    <3>2. CASE press # "shared"
      <4>1. previousUsbState' = UsbButtons
        BY <2>4 DEF Frame
      <4> QED
        BY <2>4, <3>2, <4>1, SilentFrame, TapFrame DEF SilentInv, TapInv
    <3> QED
      BY <3>1, <3>2
  <2>5. CASE UNCHANGED vars
    BY <2>5 DEF vars, SilentInv, TapInv
  <2> QED
    BY <2>1, <2>2, <2>3, <2>4, <2>5 DEF Next
<1>3. TypeOK /\ SilentInv /\ TapInv
        => (Frame /\ option = 3 /\ lastOutput' => press' # "slow")
  <2> SUFFICES ASSUME TypeOK, SilentInv, TapInv, Frame, option = 3, lastOutput', press' = "slow"
               PROVE FALSE
    OBVIOUS
  <2>1. press # "shared"
    BY DEF Frame
  <2> QED
    BY <2>1, SilentFrame, TapFrame
<1> QED
  BY <1>1, <1>2, <1>3, TypeCorrect, PTL DEF Spec, OnlyDoubleTaps
=============================================================================
