SPECIFICATION Spec
CONSTANTS
  MinInt <- MCMinInt
  MaxInt = 8
  Scale = 10
  GramSize = 2
  MaxFanin = 2
  Catalog0 <- MCTables
  Scripts <- MCScripts
  Databases <- MCDatabases
  Execs <- MCExecs
INVARIANTS AnswerIsCorrect EveryPassAnswers  EffectIsCorrect CacheIsCurrent
CHECK_DEADLOCK FALSE
