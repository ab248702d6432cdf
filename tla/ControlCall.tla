----------------------------- MODULE ControlCall -----------------------------
(***************************************************************************)
(* What a caller of controlTransfer() may rely on.  A call returns once,   *)
(* and if it returns success, the mouse has carried its request out, once, *)
(* has nothing of it left to do, and its answer is the call's result.      *)
(*                                                                         *)
(* The exception is named: a request that was handed over while the mouse  *)
(* still had an earlier one is mixed up with it from then on.  Of such     *)
(* requests nothing is promised but that the mouse gets no others for      *)
(* them.                                                                   *)
(***************************************************************************)
EXTENDS Naturals

CONSTANT MaxRequests  \* how many calls are made

VARIABLES
  phase,   \* of the call: "idle", "begun" or "handed" to the mouse
  last,    \* the number of its request
  reading, \* it is an IN request
  open,    \* the requests that the mouse may still carry out
  mixed,   \* those that were open together with another
  served,  \* how often the mouse has carried out each
  result   \* what the last call returned

callVars == <<phase, last, reading, open, mixed, served, result>>

NoResult == [id |-> 0, in |-> FALSE, ok |-> FALSE, data |-> 0]

Init ==
  /\ phase = "idle" /\ last = 0 /\ reading = FALSE
  /\ open = {} /\ mixed = {} /\ served = [r \in 1..MaxRequests |-> 0]
  /\ result = NoResult

Begin ==
  /\ phase = "idle" /\ phase' = "begun"
  /\ last' = last + 1 /\ reading' \in BOOLEAN
  /\ UNCHANGED <<open, mixed, served, result>>

Hand ==
  /\ phase = "begun" /\ phase' = "handed"
  /\ open' = open \cup {last}
  /\ mixed' = IF open = {} THEN mixed ELSE mixed \cup open \cup {last}
  /\ UNCHANGED <<last, reading, served, result>>

\* The mouse carries out a request; of two that are mixed up, one for the other.
Serve(r, s) ==
  /\ r \in open /\ (s = r \/ {r, s} \subseteq mixed)
  /\ open' = open \ {r}
  /\ served' = [served EXCEPT ![s] = @ + 1]
  /\ UNCHANGED <<phase, last, reading, mixed, result>>

\* It refuses them, or is gone.
Lose ==
  /\ open' \in SUBSET open
  /\ UNCHANGED <<phase, last, reading, mixed, served, result>>

Own(data) == last \notin open /\ served[last] = 1 /\ (reading => data = last)

Return(ok, data) ==
  /\ phase = "handed" /\ phase' = "idle"
  /\ ok /\ last \notin mixed => Own(data)
  /\ open' \in {open, open \ {last}}
  /\ result' = [id |-> last, in |-> reading, ok |-> ok, data |-> data]
  /\ UNCHANGED <<last, reading, mixed, served>>

\* The processor restarts.
Restart ==
  /\ phase = "handed" /\ phase' = "idle"
  /\ open' = {} /\ result' = NoResult
  /\ UNCHANGED <<last, reading, mixed, served>>

Next ==
  \/ Begin \/ Hand \/ Lose \/ Restart
  \/ \E r, s \in 1..MaxRequests : Serve(r, s)
  \/ \E ok \in BOOLEAN, data \in 0..MaxRequests : Return(ok, data)

Spec == Init /\ [][Next]_callVars
=============================================================================
