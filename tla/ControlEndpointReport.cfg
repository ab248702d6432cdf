SPECIFICATION Spec
CONSTANTS
  MaxSetups = 2
  MaxResets = 0
  MaxUnplugs = 0
INVARIANTS
  ReportCarriesItsData
