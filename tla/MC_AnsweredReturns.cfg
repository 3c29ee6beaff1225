SPECIFICATION ClientServerSpec
CONSTANTS
  g1 = g1
  Reader = rd
  ClientGoroutines <- TwoGoroutines
  Configs <- CombinedConfig
  MaxSent = 2
  MaxNotes = 1
PROPERTIES AnsweredReturns
CHECK_DEADLOCK FALSE
