---------------------------- MODULE ReportChannel ----------------------------
(***************************************************************************)
(* What the proxy promises for the mouse's reports: a channel to the PC    *)
(* that may lose reports and may merge two of them, but keeps their order  *)
(* and delivers no movement twice.  Only after a SET_CONFIGURATION has     *)
(* reset an endpoint with a frame on it may that frame be repeated.        *)
(*                                                                         *)
(* Reports are numbered; a frame the PC receives has the buttons of one    *)
(* report and the movement of that or a later one, or none.                *)
(***************************************************************************)
EXTENDS Naturals

VARIABLES
  reported,  \* the number of the mouse's last report
  received,  \* [buttons, move]: the reports whose buttons and movement came last
  repeats,   \* how many movements the PC got twice
  loose      \* frames may be repeated

vars == <<reported, received, repeats, loose>>

Init ==
  /\ reported = 0 /\ received = [buttons |-> 0, move |-> 0]
  /\ repeats = 0 /\ loose = FALSE

Report == reported' = reported + 1 /\ UNCHANGED <<received, repeats, loose>>

\* A frame with movement.
Deliver ==
  /\ \E b \in received.buttons..reported : \E m \in (received.move + 1)..reported :
       b <= m /\ received' = [buttons |-> b, move |-> m]
  /\ UNCHANGED <<reported, repeats, loose>>

\* A frame of the serial line alone: the buttons of the mouse, no movement.
DeliverButtons ==
  /\ \E b \in received.buttons..reported : received' = [received EXCEPT !.buttons = b]
  /\ UNCHANGED <<reported, repeats, loose>>

Repeat == loose /\ repeats' = repeats + 1 /\ UNCHANGED <<reported, received, loose>>

Reconfigure == loose' \in BOOLEAN /\ UNCHANGED <<reported, received, repeats>>

Next == Report \/ Deliver \/ DeliverButtons \/ Repeat \/ Reconfigure

Spec == Init /\ [][Next]_vars
=============================================================================
