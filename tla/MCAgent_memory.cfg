SPECIFICATION Spec
CONSTANTS
  SessionIds = {"s1", "s2"}
  PageIds = {"p1", "p2", "p3"}
  MaxPages = 2
  MaxMemory = 4
  Texts = {0, 2}
  Timeout = 1
  Places = {"x"}
  MaxHistory = 1
  Urls = {"home", "item", "cart"}
  Address <- AddressDef
  MaxRedirects = 2
  NewPages <- NewPagesDef
  ResourceLists <- ResourceListsDef
  MaxVisits = 3
  MaxStores = 3
  Plans <- PlansDef
INVARIANTS
  MemoryLimited
CHECK_DEADLOCK FALSE
