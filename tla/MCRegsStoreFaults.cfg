SPECIFICATION Spec
CONSTANTS
  Table = {0, 1}
  Reg = {"reset_num", "flash_write_number", "user"}
  Cell = {1, 2, 3, 4}
  TableOf <- MCTableOf
  RegOf <- MCRegOf
  Default <- MCDefault
  Task = {lwip, user}
  Lwip = lwip
  NoTask = NoTask
  Writable = {"user"}
  ResetCell = 1
  FlashWrites = 2
  Val = {0, 1}
  Factory <- MCFactory
  FlashWriteMax = 1
  MaxWrites = 1
  MaxCommands = 1
  MaxCuts = 1
  MaxFaults = 1
INVARIANTS MirrorSealed SettingsSurviveReset
PROPERTIES SettingsKept
CHECK_DEADLOCK FALSE
