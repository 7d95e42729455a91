SPECIFICATION HookSpec
CONSTANTS
  Mark <- MCMark
  UserMark <- MCMark
  Rate = {r1}
  NoRate = NoRate
  Proc = {worker, client}
  Nobody = Nobody
  Hook = {h1, h2}
  Worker = worker
  QueueSize = 1
  NoMark = NoMark
INVARIANTS ProvisionTypeOK QueuedIsWaiting WaitsOnce
PROPERTIES WebhookCompletes EventuallyProvisioned
