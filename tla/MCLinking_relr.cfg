SPECIFICATION Spec
CONSTANTS
  None = None
  RenameTable <- MCRenameTable
  Nums <- MCNums
  MaxRenames = 5
  Code <- MCCode
  Inputs <- MCInputs
  MaxRounds = 2
INVARIANT RelrMeant
