---------------------------- MODULE MCConfigStore ----------------------------
(***************************************************************************)
(* The instance of ConfigStore that TLC checks.  Five sectors place the    *)
(* fields as 63 do: each group of four bytes has a sector of its own.      *)
(***************************************************************************)
EXTENDS ConfigStore, TLC

MCAddresses == {magic, vid, interface_num, endpoint_addr, debug_magic, debug_flag}
MCSymmetry == Permutations(Models) \cup Permutations(Interfaces)
MCValues == Models \cup Interfaces \cup Endpoints \cup Marks
=============================================================================
