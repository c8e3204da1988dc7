SPECIFICATION Spec
CONSTANTS
  Holders = {h1, h2}
  chA = chA
  chB = chB
  Chars = {chA, chB}
  NUL = NUL
  None = None
  Strings <- MCStrings
  Originals <- AdjacentFiles
  DenseLimit = 4
  RefWidth = 64
  Size = 6
  MaxAdd = 4
INVARIANT StringsKept
CONSTRAINT Bounded
