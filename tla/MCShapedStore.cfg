SPECIFICATION StoreSpec
CONSTANTS
  Mark <- MCMark
  UserMark <- MCUserMark
  Rate = {r1, r2}
  NoRate = NoRate
  Proc = {p1, p2}
  Nobody = Nobody
INVARIANTS TypeOK ListedIsEnforced StoreInv
PROPERTIES OtherClassesUntouched ImplementsLimitTable
