SPECIFICATION Spec
CONSTANTS
  None = None
  RenameTable <- MCRenameTable
  Nums <- MCNums
  MaxRenames = 5
  Code <- MCCode
  Inputs <- MCInputs
  MaxRounds = 2
INVARIANT LimitExact
INVARIANT SymbolsMeant
INVARIANT CodeMeant
INVARIANT HooksMeant
INVARIANT FramesAgree
