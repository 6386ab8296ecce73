SPECIFICATION Spec
CONSTANTS
  Table = {0, 1}
  Reg = {"reset_num", "flash_write_number", "user"}
  Cell = {1, 2, 3, 4}
  TableOf <- MCTableOf
  RegOf <- MCRegOf
  Default <- MCDefault
  Task = {lwip, user}
  Lwip = lwip
  NoTask = NoTask
  Writable = {"user"}
  ResetCell = 1
  FlashWrites = 2
  Val = {0, 1}
  Factory <- MCFactoryFresh
  FlashWriteMax = 1
  MaxWrites = 2
  MaxCommands = 2
  MaxCuts = 0
  MaxFaults = 0
INVARIANTS NoLostSave MirrorFollows RestartAfterSave
CHECK_DEADLOCK FALSE
