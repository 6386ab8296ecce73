SPECIFICATION Spec
CONSTANTS
  Replies <- MCReplies
  Invalid = 99
  PollTimeout = 3
  ClientTables <- MCTables
  Lens <- MCLens
  MaxSpaces = 4
  Slave = 3
  Ids = {3, 4}
  Ips = {ip1, ip2}
  NoIp = none
  MaxSlaves = 2
  IdSpace = 2
  MaxErrors = 1
  MaxOwn = 1
  PoolSz = 3
  Addrs = {1, 2}
  SpaceLens = {1, 2}
  Commands = {3}
  AllCmd = 255
INVARIANTS AnswersRight ResultRight
PROPERTIES PoolApart LinksRecover
CHECK_DEADLOCK FALSE
