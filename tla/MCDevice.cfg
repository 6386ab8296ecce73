SPECIFICATION Spec
CONSTANTS
  Settings = {"off", "client", "both"}
  FastMax = 1
  SlowPeriod = 2
  StopTime = 1
  LiveMod = 4
  MaxStations = 1
  MaxNotified = 2
  Sizes = {0, 2, 3}
  PartSize = 2
  MaxUploads = 3
INVARIANTS TransfersWhole
PROPERTIES ServicesAnswer TextsKept
CHECK_DEADLOCK FALSE
