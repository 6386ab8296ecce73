SPECIFICATION TasksSpec
CONSTANTS
  Tables = {"global", "feeder", "morse", "di"}
  Global = "global"
  Desc <- MCDesc
  MaxTables = 3
  None = None
INVARIANTS TasksKept TextsRight
PROPERTIES TablesRight TasksFollow
CHECK_DEADLOCK FALSE
