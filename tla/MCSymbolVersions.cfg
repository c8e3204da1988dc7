SPECIFICATION Spec
CONSTANTS
  Files <- MCFiles
  NameSets <- MCNameSets
  Renames <- MCRenames
  TooNew <- MCTooNew
  Libs = {"libc", "libm"}
  Libcs = {"libc"}
  MaxActions = 3
INVARIANT Bindings
INVARIANT ImageAgrees
INVARIANT NothingUnused
INVARIANT FeaturesRequired
INVARIANT TargetMet
INVARIANT InsideAllocation
