CONSTANTS
  None = None
  Junk = Junk
  Names = {dev, prod}
  Terminals = {t1, t2}
  Recipes <- AllRecipes
  Edits = {e1, e2}
  MaxInterrupts = 1
CHECK_DEADLOCK FALSE
SYMMETRY MCSymmetry
CONSTRAINT MCBound
SPECIFICATION Spec
INVARIANTS TypeOK
PROPERTIES CopiesAreWhole CiphertextSurvives OwnEnvKept EditsSurviveEditing
           CleanLeavesNothing
