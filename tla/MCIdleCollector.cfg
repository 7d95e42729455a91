SPECIFICATION MCSpec
CONSTANTS
  Mark = {m1}
  UserMark = {m1}
  Rate = {r1}
  NoRate = NoRate
  Proc = {collector, client}
  Nobody = Nobody
  Collector = collector
  Idle = 3
  MaxBytes = 3
INVARIANT GcTypeOK
PROPERTIES OnlyIdleDeleted IdleTimeKept
