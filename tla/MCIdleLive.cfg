SPECIFICATION MCLiveSpec
CONSTANTS
  Mark = {m1, m2}
  UserMark = {m1, m2}
  Rate = {r1}
  NoRate = NoRate
  Proc = {collector, client}
  Nobody = Nobody
  Collector = collector
  Idle = 2
  MaxBytes = 0
PROPERTY IdleCollected
