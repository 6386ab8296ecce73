SPECIFICATION Spec
CONSTANTS
  Clients <- CbClients
  Req <- CbReq
  Files <- WebFiles
  Chunks <- WebChunks
  DefaultsOf <- WebDefaults
  QueueLen = 2
  Permissions <- CbPermissions
  JsonFile = "json"
  None = "none"
  PoolSizes <- CbPoolSizes
  MaxRetries = 2
INVARIANTS AnswerRight
PROPERTIES ConnectionsRight WritesOne ConnectionsEnd
CHECK_DEADLOCK FALSE
