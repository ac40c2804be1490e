CONSTANTS
  Nodes <- MCNodes
  Slots = 2
  Catalog <- MCCatalog
  Host = "none"
  UseSql = FALSE
  PerCheckCap = TRUE
  Grades = {"fail"}
  Partners <- MCPartners
  Inventories <- MCInventories
  Running <- MCRunning
  NoInventory = NoInventory
  NoReport = NoReport
SPECIFICATION Spec
CHECK_DEADLOCK FALSE
INVARIANTS TypeOK ReportIsWhole NoSharedConnection NoUnearnedAllClear PairGradedAlike
PROPERTIES SweepEnds
