\* A new file whose header was never written cannot be opened again: the
\* system may really stop there.
SPECIFICATION Spec
CHECK_DEADLOCK FALSE
CONSTANTS
  MaxPages = 5
  MaxCrashes = 1
  Words <- MCWords
  Rooms <- MCAllRooms
INVARIANTS TypeOK FreeListOK NoDoubleAllocation NoLeak OwnedReadable
PROPERTY PagesIntact
