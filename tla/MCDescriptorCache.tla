------------------------- MODULE MCDescriptorCache -------------------------
(***************************************************************************)
(* The instance of DescriptorCache that TLC checks.  Mice of one model are *)
(* like those of another, and so are the keys of strings.                  *)
(***************************************************************************)
EXTENDS DescriptorCache, TLC

Symmetry == Permutations(Models) \cup Permutations(StringIndexes)
=============================================================================
