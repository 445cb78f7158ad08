SPECIFICATION Spec
CONSTANTS
  Namespaces = {"app", "other"}
  Home = "app"
  Release = "app"
  Specs <- AllSpecs
  InitialSpecs <- Both
  Exports <- AllExports
  Versions = {1, 2}
  Kinds = {"helm", "unlabelled"}
  CreatedAs <- FirstAtOnce
  MaxEdits = 1
  MaxLag = 1
  MaxBehind = 1
  MaxFaults = 1
INVARIANT ExportedOnly
INVARIANT LabelConverged
INVARIANT CreatedNoticed
PROPERTY NeverBackwards
CHECK_DEADLOCK FALSE
