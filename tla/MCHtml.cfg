SPECIFICATION Spec
CONSTANTS
  MaxTokens = 30
  MaxEdits = 2
  Queries <- QueriesDef
  Inputs <- InputsDef
  Observers <- ObserversDef
  Targets <- TargetsDef
  AttrNames <- AttrNamesDef
  AttrValues <- AttrValuesDef
  Classes <- ClassesDef
  NewData <- NewDataDef
  NewTexts <- NewTextsDef
INVARIANTS
  Selected
  TokensRead
  
  TreeOK
  
  HistoryKept
PROPERTIES
  Terminates
CHECK_DEADLOCK FALSE
