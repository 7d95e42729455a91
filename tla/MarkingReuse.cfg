SPECIFICATION MarkingSpec
CONSTANTS
  User = {u, v}
  Nobody = Nobody
  Hook = {h1, h2}
  Ttl = {2}
  MaxDelay = 1
  MaxAge = 5
  Never = Never
PROPERTY KeepsOwnMark
