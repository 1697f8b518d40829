\* The calls are bounded: the program may stop.
SPECIFICATION Spec
CHECK_DEADLOCK FALSE
CONSTANTS
  MaxPages = 14
  Rooms = {"ok"}
  Keys <- MCKeys
  Vals <- MCVals
  Chunks <- MCChunks
  NoVal = "none"
  MaxHeight = 10
  Programs <- MCDuplicate
INVARIANT UniqueKeys
