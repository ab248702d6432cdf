----------------------------- MODULE MCHIDReport -----------------------------
(***************************************************************************)
(* The instance of HIDReport that TLC checks: bytes of three bits, fields  *)
(* of one to four, alone and together.                                     *)
(***************************************************************************)
EXTENDS HIDReport

Item(page, usages, size, count, lo, hi) ==
  [page |-> page, usages |-> usages, size |-> size, count |-> count,
   logical_min |-> lo, logical_max |-> hi]

MCInputs ==
  { Item("button", <<"other">>, 1, 3, 0, 1), Item("other", << >>, 1, 1, 0, 1),
    Item("desktop", <<"X", "Y">>, 2, 2, -1, 1), Item("desktop", <<"X">>, 4, 1, 0, 15),
    Item("desktop", <<"Y">>, 1, 1, 0, 1), Item("desktop", <<"Wheel">>, 2, 1, -2, 1),
    Item("desktop", <<"X", "Y", "Wheel">>, 1, 3, 0, 1) }
=============================================================================
