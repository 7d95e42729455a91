SPECIFICATION Spec
CONSTANT MaxTx = 2
INVARIANT SetupComplete
