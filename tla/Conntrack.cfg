SPECIFICATION CtSpec
CONSTANTS
  Caller = {c1, c2}
  Addr = {a1, a2, b1}
  V4 = {a1, a2}
  Moving = {a2}
  AnyAddr = AnyAddr
  Dst = {AnyAddr, a2}
  Sock = {s1, s2, s3}
  PoolSize = 1
  None = None
INVARIANTS CtTypeOK SocketsAccounted NoLateReplies
PROPERTY SetMarkSound
