SPECIFICATION MSpec
CONSTANTS
  Addr = {0, 1, 2, 3, 4, 5, 6, 7, 8, 9}
  Start <- MCStart
  Size <- MCSize
  MaxSize = 4
  ReadOnly = {6, 7, 8, 9}
  Credential = {0, 1, 2, 3, 8, 9}
  Permitted = TRUE
  Text = {4, 5}
  Symbols = {1}
  Lowest <- MCLowest
  Highest <- MCHighest
  Base = 2
  None = None
  Memory <- MCMemory
  Requests <- MCRequests
  MaxRequests = 3
  Tables = {"global", "coils"}
  Global = "global"
  Desc <- MCDesc
  MaxTables = 3
  Order <- MCOrder
  FirstCoil = 20
  NumCoils = 9
  Pdus <- MCPdus
  MaxRegs = 5
  MaxReadCoils = 9
  MaxWriteCoils = 9
  Words16 = 32
INVARIANTS OwnBytes FreshBytes StoredRight ReadRight
PROPERTIES ReadOnlyKept WritesImplementRegsSet
CHECK_DEADLOCK FALSE
