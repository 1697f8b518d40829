\* The calls are bounded: the program may stop.
SPECIFICATION CursorSpec
CHECK_DEADLOCK FALSE
CONSTANTS
  MaxPages = 14
  Rooms = {"ok"}
  Keys <- MCKeys
  Vals <- MCVals
  Chunks <- MCChunks
  NoVal = "none"
  MaxHeight = 7
  Programs <- MCPrograms
INVARIANTS TypeOK KeyOrder Balanced Occupancy DescentReady PagesDisjoint PagesAccounted
           YieldsKeptPairs YieldsInOrder
