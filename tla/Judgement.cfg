CONSTANTS
  Null = Null
  HistoryWindow = 3
  MinHistory = 2
  WarningRowChange = 25
  CriticalRowChange = 50
  WarningNullIncrease = 10
  CriticalNullIncrease = 25
  WarningNumericFactor = 2
  CriticalNumericFactor = 10
  WarningCategoryTvd = 20
  CriticalCategoryTvd = 60
  MaterialFrequency = 10
  ExpectedRefresh = 60
  UniqueKeys <- TheKeys
  DataRules <- TheRules
  Datasets <- TheDatasets
  ScanLimit = 5
SPECIFICATION Spec
INVARIANTS
  AlarmPersists
  ShortOutageForgiven
