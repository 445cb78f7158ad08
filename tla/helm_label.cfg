SPECIFICATION Spec
CONSTANTS
  Namespaces = {"shop", "other"}
  Home = "shop"
  Release = "app"
  Specs <- AllSpecs
  InitialSpecs <- OneForeign
  Exports <- AllExports
  Versions = {1}
  Kinds = {"helm", "unlabelled"}
  CreatedAs <- FirstAtOnce
  MaxEdits = 0
  MaxLag = 1
  MaxBehind = 1
  MaxFaults = 0
INVARIANT CreatedNoticed
CHECK_DEADLOCK FALSE
