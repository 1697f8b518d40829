SPECIFICATION Spec
CONSTANTS
  Base = 4
  InitCap = 12
  MaxCap = 26
  GrowSize = 7
  PageWords = 4
  TrimThreshold = 8
  TrimChunk = 4
  Growths = {"in_place", "refused"}
  Threads = {1, 2}
  MmapThreshold = 9
  SmallThreshold = 3
  SlotSizes <- MCSlots
  SlotsPerSlab = 2
  MaxSlabs = 1
  MaxMaps = 1
  SizeLimit = 32
  Programs <- MCCold
INVARIANTS MutualExclusion
