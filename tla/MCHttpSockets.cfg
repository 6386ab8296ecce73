SPECIFICATION Spec
CONSTANTS
  Clients = {"c1", "c2"}
  Req <- MCReq
  Files <- MCFiles
  Chunks <- MCChunks
  DefaultsOf <- MCDefaults
  Permissions <- MCPermissions
  QueueLen = 2
  JsonFile = "json"
  None = "none"
  Workers = {"w1", "w2"}
  MaxConns = 2
  Quit = "quit"
  MaxWaits = 2
  MaxStopWaits = 1
INVARIANTS SocketsCounted
PROPERTIES AnswersOwn EveryClientClosed
CHECK_DEADLOCK FALSE
