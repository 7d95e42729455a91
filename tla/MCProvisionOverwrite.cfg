SPECIFICATION Spec
CONSTANTS
  Mark <- OneMark
  UserMark <- OneMark
  Rate = {r1, r2}
  NoRate = NoRate
  Proc = {worker, client}
  Nobody = Nobody
  Hook = {h1}
  Worker = worker
  QueueSize = 1
  NoMark = NoMark
PROPERTIES SetOnlyWithoutRate
