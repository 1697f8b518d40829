\* The calls are bounded: the program may stop.
SPECIFICATION FairSpec
CHECK_DEADLOCK FALSE
CONSTANTS
  MaxPages = 14
  Rooms = {"ok", "no_extent", "no_block"}
  Keys <- MCKeys
  Vals <- MCVals
  Chunks <- MCChunks
  NoVal = "none"
  MaxHeight = 7
  Programs <- MCMap
PROPERTIES ImplementsMap CallsReturn
