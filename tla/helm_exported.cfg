SPECIFICATION Spec
CONSTANTS
  Namespaces = {"app", "other"}
  Home = "app"
  Release = "app"
  Specs <- AllSpecs
  InitialSpecs <- OneForeign
  Exports <- AllExports
  Versions = {1}
  Kinds = {"helm", "unlabelled"}
  CreatedAs <- FirstAtOnce
  MaxEdits = 1
  MaxLag = 1
  MaxBehind = 1
  MaxFaults = 0
INVARIANT ExportedNoticed
CHECK_DEADLOCK FALSE
