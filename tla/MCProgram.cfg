SPECIFICATION Spec
CONSTANTS
  None = None
  first = first
  second = second
  Procs <- MCProcs
  Paths <- MCPaths
  Dash = "-"
  Empties = {"empty:x86_64"}
  CanTmp = {"a", "b"}
  CommandLines <- MCCommandLines
  Flags = {"x", "y"}
  Interps = {"x", "y", "ld"}
  Originals <- MCImages
  Empty <- MCEmpty
  MaxRounds = 2
INVARIANT TargetWhole
INVARIANT FlagsMeant
INVARIANT PrintsMeant
