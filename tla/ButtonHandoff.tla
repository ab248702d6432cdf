---------------------------- MODULE ButtonHandoff ----------------------------
(***************************************************************************)
(* SunBoxSyntheticHandleOutput: one mouse button that the user and the     *)
(* serial line both press, the left or the right one.  Reports of the      *)
(* mouse and frames of the serial line wait in a slot each; process(),     *)
(* called once per loop, filters the button by the option that is set,     *)
(* hands it over from the serial line to the user after a gap, and sends   *)
(* the PC a frame.  Whether the PC has configured the proxy, and whether   *)
(* the endpoint is ready, process() asks at each call: it may be either.   *)
(*                                                                         *)
(* Time is counted in ticks of any length, from 0 at the start.  An age    *)
(* that is no longer told apart stays at its bound.                        *)
(***************************************************************************)
EXTENDS Naturals

CONSTANTS Options,    \* values of the option disablePassthroughForLMB or ..RMB
          GapMin,     \* HANDOFF_GAP_MIN_MS, in ticks
          GapMax,     \* HANDOFF_GAP_MAX_MS
          DoubleTap,  \* BUTTON_DOUBLE_TAP_TO_PASSTHROUGH_DURATION_MS
          Exclusion,  \* BUTTON_EXCLUSION_DURATION_MS
          None        \* no data in a slot; 0 in lastPressTime

ASSUME HandoffAssumption ==
  /\ Options \subseteq 0..3 /\ 0 \in Options
  /\ GapMin \in Nat /\ GapMax \in Nat /\ GapMin <= GapMax
  /\ DoubleTap \in Nat /\ Exclusion \in Nat
  /\ None \notin [button : BOOLEAN, middle : BOOLEAN] /\ None \notin BOOLEAN /\ None \notin Nat

Report == [button : BOOLEAN, middle : BOOLEAN]
Up == [button |-> FALSE, middle |-> FALSE]

VARIABLES
  finger,         \* what the user holds
  wish,           \* what the serial line last asked for
  usbSlot,        \* rawData of SunBoxUSBMouseDataHandler
  serialSlot,     \* mouseButtons of CommandsSunBoxInterface
  option,         \* disablePassthroughForLMB
  previousUsbState, previousSerialState,  \* of the button, before the filter
  handoff,        \* .state: "idle", "hold", "release" or "user"
  gapAge,         \* since releaseStartMs
  gapDurationMs,
  exclusionAge,   \* since activationTimestamp4MouseButtonExclusion
  lastPressTime,  \* its age, or None
  lastOutput,     \* the button in the last frame sent
  lostUsb, lostSerial,  \* history: what the mouse or the line last said was discarded
  handed,         \* history: the user took the button over, and since then it
                  \* has been held, filtered, in every frame
  changeAge,      \* history: since the mouse's button last changed, as taken
  press           \* history: the mouse's last press came "slow" under option 3, in the
                  \* "window" of the middle button under option 2, or "free"; "shared"
                  \* when the serial line has sent a frame

inputVars   == <<finger, wish, usbSlot, serialSlot>>
buttonVars  == <<previousUsbState, previousSerialState, lastPressTime, exclusionAge>>
handoffVars == <<handoff, gapDurationMs, lastOutput>>
historyVars == <<lostUsb, lostSerial, handed, changeAge, press>>
vars == <<inputVars, option, buttonVars, handoffVars, gapAge, historyVars>>

AgeUpTo(bound) == 0..(bound + 1)
Older(age, bound) == IF age <= bound THEN age + 1 ELSE age

TypeOK ==
  /\ finger \in Report /\ wish \in BOOLEAN
  /\ usbSlot \in Report \cup {None} /\ serialSlot \in BOOLEAN \cup {None}
  /\ option \in Options
  /\ previousUsbState \in Report /\ previousSerialState \in BOOLEAN
  /\ handoff \in {"idle", "hold", "release", "user"}
  /\ gapAge \in AgeUpTo(GapMax) /\ gapDurationMs \in GapMin..GapMax
  /\ exclusionAge \in AgeUpTo(Exclusion) /\ lastPressTime \in AgeUpTo(DoubleTap) \cup {None}
  /\ lastOutput \in BOOLEAN
  /\ lostUsb \in BOOLEAN /\ lostSerial \in BOOLEAN /\ handed \in BOOLEAN
  /\ changeAge \in AgeUpTo(DoubleTap)
  /\ press \in {"slow", "window", "free", "shared"}

Init ==
  /\ finger = Up /\ wish = FALSE /\ usbSlot = None /\ serialSlot = None /\ option = 0
  /\ previousUsbState = Up /\ previousSerialState = FALSE
  /\ handoff = "idle" /\ gapAge = GapMax + 1 /\ gapDurationMs = GapMin
  /\ exclusionAge = 0 /\ lastPressTime = None /\ lastOutput = FALSE
  /\ lostUsb = FALSE /\ lostSerial = FALSE /\ handed = FALSE
  /\ changeAge = DoubleTap + 1 /\ press = "free"

-----------------------------------------------------------------------------
\* The mouse reports: a finger, or the mouse itself, has moved.
MouseReport ==
  /\ finger' \in Report /\ usbSlot' = finger'
  /\ UNCHANGED <<wish, serialSlot, option, buttonVars, handoffVars, gapAge, historyVars>>

\* Another mouse: check() empties the slot; the buttons taken so far stay.
Unplug ==
  /\ finger' = Up /\ usbSlot' = None /\ lostUsb' = TRUE
  /\ UNCHANGED <<wish, serialSlot, option, buttonVars, handoffVars, gapAge, lostSerial, handed,
                 changeAge, press>>

SerialFrame ==
  /\ wish' \in BOOLEAN /\ serialSlot' = wish'
  /\ press' = "shared" /\ changeAge' = 0
  /\ UNCHANGED <<finger, usbSlot, option, buttonVars, handoffVars, gapAge, lostUsb, lostSerial,
                 handed>>

\* updateSettings()
SetOption ==
  /\ option' \in Options
  /\ UNCHANGED <<inputVars, buttonVars, handoffVars, gapAge, historyVars>>

Tick ==
  /\ gapAge' = Older(gapAge, GapMax)
  /\ exclusionAge' = Older(exclusionAge, Exclusion)
  /\ lastPressTime' = IF lastPressTime = None THEN None ELSE Older(lastPressTime, DoubleTap)
  /\ changeAge' = IF press = "shared" THEN 0 ELSE Older(changeAge, DoubleTap)
  /\ UNCHANGED <<inputVars, option, previousUsbState, previousSerialState,
                 handoffVars, lostUsb, lostSerial, handed, press>>

-----------------------------------------------------------------------------
\* What a source says in this loop, and what it said before.
UsbButtons == IF usbSlot # None THEN usbSlot ELSE previousUsbState
SerialButtons == IF serialSlot # None THEN serialSlot ELSE previousSerialState

ExclusionAge == IF UsbButtons.middle THEN 0 ELSE exclusionAge
shouldExcludeButton(now, previous) == now /\ ~previous /\ ExclusionAge <= Exclusion

\* handleMouseButtonConfigCheck(): whether the button passes, and lastPressTime.
Tapped(last) == last # None /\ last <= DoubleTap
\* (mutant) The second report of a press passes.
PassesWhenHeld(now, previous, last) ==
  /\ now /\ option # 1
  /\ option \in {2, 3} => ~shouldExcludeButton(now, previous)
  /\ option = 3 => previous \/ Tapped(last)
Passes(now, previous, last) ==
  /\ now /\ option # 1
  /\ option \in {2, 3} => ~shouldExcludeButton(now, previous)
  /\ option = 3 => IF previous THEN last = None ELSE Tapped(last)
LastPress(now, previous, last) ==
  IF now THEN IF option = 3 /\ ~previous THEN IF Tapped(last) THEN None ELSE 0 ELSE last
  ELSE IF previous THEN 0 ELSE last

\* The mouse first, then the serial line, with the same lastPressTime.
LastPressUsb == LastPress(UsbButtons.button, previousUsbState.button, lastPressTime)
usbHeld == Passes(UsbButtons.button, previousUsbState.button, lastPressTime)
synHeld == Passes(SerialButtons, previousSerialState, LastPressUsb)
usbEdge == usbHeld /\ ~previousUsbState.button

\* processButtonHandoff()
HandoffIdle ==
  /\ handoff = "idle" /\ lastOutput' = (synHeld \/ usbHeld)
  /\ handoff' = IF synHeld /\ ~usbHeld THEN "hold" ELSE "idle"
  /\ UNCHANGED <<gapAge, gapDurationMs>>

\* (mutant) The serial line's release is not looked for.
HoldOnly ==
  /\ handoff = "hold" /\ ~(synHeld /\ usbEdge)
  /\ handoff' = "hold" /\ lastOutput' = TRUE
  /\ UNCHANGED <<gapAge, gapDurationMs>>

HandoffHold ==
  /\ handoff = "hold" /\ ~(synHeld /\ usbEdge)
  /\ handoff' = IF synHeld THEN "hold" ELSE "idle"
  /\ lastOutput' = (synHeld \/ usbHeld)
  /\ UNCHANGED <<gapAge, gapDurationMs>>

\* (mutant) A bound of random() too many.
BeginLong ==
  /\ handoff = "hold" /\ synHeld /\ usbEdge
  /\ handoff' = "release" /\ lastOutput' = FALSE
  /\ gapAge' = 0 /\ gapDurationMs' \in GapMin..(GapMax + 1)

HandoffBegin ==
  /\ handoff = "hold" /\ synHeld /\ usbEdge
  /\ handoff' = "release" /\ lastOutput' = FALSE
  /\ gapAge' = 0 /\ gapDurationMs' \in GapMin..GapMax

\* (mutant) Every frame starts the gap anew.
ReleaseRestarts ==
  /\ handoff = "release"
  /\ handoff' = IF gapAge >= gapDurationMs THEN "user" ELSE "release"
  /\ lastOutput' = (gapAge >= gapDurationMs /\ usbHeld)
  /\ gapAge' = 0 /\ UNCHANGED gapDurationMs

HandoffRelease ==
  /\ handoff = "release"
  /\ handoff' = IF gapAge >= gapDurationMs THEN "user" ELSE "release"
  /\ lastOutput' = (gapAge >= gapDurationMs /\ usbHeld)
  /\ UNCHANGED <<gapAge, gapDurationMs>>

\* (mutant) The user's release gives the button back to the serial line.
UserLetsGo ==
  /\ handoff = "user" /\ lastOutput' = usbHeld
  /\ handoff' = IF ~usbHeld THEN "idle" ELSE "user"
  /\ UNCHANGED <<gapAge, gapDurationMs>>

HandoffUser ==
  /\ handoff = "user" /\ lastOutput' = usbHeld
  /\ handoff' = IF ~synHeld /\ ~usbHeld THEN "idle" ELSE "user"
  /\ UNCHANGED <<gapAge, gapDurationMs>>

ProcessButtonHandoff ==
  HandoffIdle \/ HandoffHold \/ HandoffBegin \/ HandoffRelease \/ HandoffUser

HasData == usbSlot # None \/ serialSlot # None

\* process() with the proxy configured and the endpoint ready.
Frame ==
  /\ HasData
  /\ ProcessButtonHandoff
  /\ usbSlot' = None /\ serialSlot' = None
  /\ previousUsbState' = UsbButtons /\ previousSerialState' = SerialButtons
  /\ exclusionAge' = ExclusionAge
  /\ lastPressTime' = LastPress(SerialButtons, previousSerialState, LastPressUsb)
  /\ lostUsb' = (lostUsb /\ usbSlot = None) /\ lostSerial' = (lostSerial /\ serialSlot = None)
  /\ handed' = IF handoff = "hold" THEN synHeld /\ usbEdge
               ELSE handed /\ (synHeld \/ usbHeld)
  /\ changeAge' = IF UsbButtons.button # previousUsbState.button THEN 0 ELSE changeAge
  /\ press' = IF press = "shared" \/ ~UsbButtons.button \/ previousUsbState.button THEN press
              ELSE IF option = 3 /\ changeAge > DoubleTap THEN "slow"
              ELSE IF option = 2 /\ ExclusionAge <= Exclusion THEN "window" ELSE "free"
  /\ UNCHANGED <<finger, wish, option>>

\* process() while the PC has not configured the proxy: both slots are emptied.
Discard ==
  /\ HasData
  /\ usbSlot' = None /\ serialSlot' = None
  /\ lostUsb' = (lostUsb \/ usbSlot # None) /\ lostSerial' = (lostSerial \/ serialSlot # None)
  /\ UNCHANGED <<finger, wish, option, buttonVars, handoffVars, gapAge, handed, changeAge, press>>

Next ==
  \/ MouseReport \/ Unplug \/ SerialFrame \/ SetOption \/ Tick
  \/ Frame \/ Discard

\* Time passes.
Spec == Init /\ [][Next]_vars /\ WF_vars(Tick)

-----------------------------------------------------------------------------
\* No button stays pressed by itself: once both slots are empty, and unless the
\* last word of a source was discarded, the PC sees the button held only if the
\* user or the serial line holds it, whatever the options were on the way.
NotStuck ==
  usbSlot = None /\ serialSlot = None /\ ~lostUsb /\ ~lostSerial /\ lastOutput =>
    finger.button \/ wish

\* When the user has pressed a button that the serial line held, it is the user's:
\* until a frame finds neither holding it, the PC sees it pressed only while
\* the mouse holds it, and not before the least gap has passed.
HandedOver == handed /\ lastOutput => previousUsbState.button /\ gapAge >= GapMin

\* Under option 3, with the serial line silent, no frame shows the button pressed
\* if the press came later than the double-tap time after the mouse's button changed,
\* also after other options, however long it is held.
OnlyDoubleTaps ==
  [][Frame /\ option = 3 /\ lastOutput' => press' # "slow"]_vars

\* A user who keeps holding the button, on a mouse that keeps reporting, is seen:
\* the hand-off ends, whatever the serial line does, if nothing is filtered.
TakenReport == Frame /\ usbSlot # None
HeldIsSeen ==
  <>[](finger.button /\ option = 0) /\ []<><<TakenReport>>_vars => <>[]lastOutput

\* Config.h: the time in which side buttons "will be ... excluded ... from being
\* passed to the PC when MMB is clicked": a press in it is not passed.  Violated:
\* only the first frame of the press is filtered.
MiddleExcludes ==
  [][Frame /\ option = 2 /\ press' = "window" => ~lastOutput']_vars
=============================================================================
