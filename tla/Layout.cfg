SPECIFICATION Spec
CONSTANT MaxTx = 3
INVARIANTS LayoutTypeOK SetupSound NoConflict
PROPERTY ClassesSurvive
