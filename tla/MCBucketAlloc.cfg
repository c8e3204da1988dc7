SPECIFICATION MCSpec
CONSTANTS
  Alignments = {1, 4}
  Sizes = {1, 2, 3, 5}
  PageSize = 8
  MaxPage = 16
  MaxExcess = 24
  Files <- MCFiles
  Requests <- MCRequests
  MaxBucket = 5
  MaxInUse = 4
  MaxGiven = 2
INVARIANTS GivenDisjoint GivenMapped ImagesDisjoint SegmentsLoadable NativePhdrsEnsured
PROPERTIES RoomGrows
CHECK_DEADLOCK FALSE
