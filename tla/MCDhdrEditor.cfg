SPECIFICATION Spec
CONSTANTS
  Names = {"libc", "libm", "lib", "bin"}
  Libraries = {"libc", "libm"}
  Lists <- MCLists
  Bits = {"ORIGIN", "SYMBOLIC"}
  Arrays <- MCArrays
  MaxOriginal = 2
  MaxEntries = 3
PROPERTIES  FlagsExact
CONSTRAINT Bounded
CHECK_DEADLOCK FALSE
