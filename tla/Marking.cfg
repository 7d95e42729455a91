SPECIFICATION MarkingSpec
CONSTANTS
  User = {u, v}
  Nobody = Nobody
  Hook = {h1, h2}
  Ttl = {0, 2}
  MaxDelay = 1
  MaxAge = 5
  Never = Never
INVARIANT MarkingTypeOK
PROPERTIES SkipIsRecent SweptInTime EventuallyMarked
