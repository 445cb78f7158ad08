SPECIFICATION Spec
CONSTANTS
  Namespaces = {"app", "other"}
  Home = "app"
  Release = "app"
  Specs <- AllSpecs
  InitialSpecs <- OneForeign
  Exports <- AllExports
  Versions = {1}
  Kinds = {"helm", "unlabelled"}
  CreatedAs <- Later
  MaxEdits = 0
  MaxLag = 1
  MaxBehind = 1
  MaxFaults = 0
INVARIANT ReleaseNoticed
CHECK_DEADLOCK FALSE
