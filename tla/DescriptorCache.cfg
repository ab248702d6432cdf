SPECIFICATION Spec
CONSTANTS
  Models = {m1, m2}
  StringSlots = 2
  StringIndexes = {s1, s2, s3}
  MaxPlugs = 2
SYMMETRY Symmetry
INVARIANTS
  TypeOK
  StaleOnlyIfTorn
  WholeConfigServed
  HitIsTheOneAsked
