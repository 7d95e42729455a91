SPECIFICATION MCSpec
CONSTANTS
  Queues = {1, 2, 3, 48, 254, 255}
  Margin = 4
  U64 = 1048576
  U32 = 4096
  bytesPerSecPerMbit = 25
  Iface = {eth0, eth1}
  NoIface = NoIface
  Metric = {0, 1}
  NoMetric = NoMetric
  MaxLines = 3
  Email = {alice, bob}
  Caller = {c1, c2}
  NoEmail = NoEmail
  IdleTimeout = 2
  LockDelay = 1
  OldAge = 5
  Unseen = Unseen
INVARIANTS
  MarkFitsLayout MarksRunThroughAll SplitIsExact PerUserRateIsKept
  RouteTypeOK BestSoFar LowestMetricWins UsersTypeOK RecentUsersListed
PROPERTY OnlyRecentUsersKept
CHECK_DEADLOCK FALSE
