\* Two sockets of each page at once, the log viewer rendered twice; three
\* requests, one of them for two pools, with room for one; two alerts.
SPECIFICATION ServicesSpec
CONSTANTS
  f1 = f1
  f2 = f2
  l1 = l1
  l2 = l2
  Feeds = {f1, f2}
  Logs = {l1, l2}
  NoSocket = NoSocket
  MaxLoads = 2
  k1 = k1
  k2 = k2
  g1 = g1
  g2 = g2
  g3 = g3
  Request = {g1, g2, g3}
  Key = {k1, k2}
  KeysOf <- MCKeysOf
  MaxPools = 1
  MaxConns = 1
  Sweeper = Sweeper
  Closer = Closer
  Nobody = Nobody
  Alert = {"disk_usage", "backup_age"}
  Cooldowns = {0, 3}
  MaxAge = 3
  MaxHistory = 2
INVARIANTS
  ServicesTypeOK
  SocketsExplained
  PoolsExplained
  AlertsExplained
PROPERTIES
  KeepsTrying
  RequestsEnd
CHECK_DEADLOCK FALSE
