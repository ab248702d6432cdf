------------------------------ MODULE ByteStore ------------------------------
(***************************************************************************)
(* What the EEPROM library promises: a byte keeps the value last written   *)
(* to it.  A power loss may erase bytes only while they are frail, and the *)
(* only bytes that become frail are those a write has just found in need   *)
(* of moving.                                                              *)
(***************************************************************************)
CONSTANTS Addresses,  \* of the EEPROM
          Values,     \* of a byte
          Erased      \* the value of a byte never written

VARIABLES
  bytes,  \* the value of each address
  frail   \* the addresses a power loss would erase now

vars == <<bytes, frail>>

Init == bytes = [a \in Addresses |-> Erased] /\ frail = {}

Write ==
  /\ frail = {}
  /\ \E a \in Addresses : \E v \in Values : bytes' = [bytes EXCEPT ![a] = v]
  /\ frail' \in SUBSET Addresses

Secure == frail' \in SUBSET frail /\ bytes' = bytes

PowerLoss ==
  /\ bytes' = [a \in Addresses |-> IF a \in frail THEN Erased ELSE bytes[a]]
  /\ frail' = {}

Next == Write \/ Secure \/ PowerLoss

Spec == Init /\ [][Next]_vars
=============================================================================
