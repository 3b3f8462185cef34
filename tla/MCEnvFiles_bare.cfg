CONSTANTS
  None = None
  Junk = Junk
  Names = {dev}
  Terminals = {t1}
  Recipes <- AllRecipes
  Edits = {e1}
  MaxInterrupts = 0
CHECK_DEADLOCK FALSE
SYMMETRY MCSymmetry
SPECIFICATION Spec
INVARIANTS HandedOnWhole
