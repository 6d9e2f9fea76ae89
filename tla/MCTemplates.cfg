CONSTANTS
  Requests = {a, b}
  Recipes = {q}
  Base = Base
  MaxSlot = 3
  Nil = Nil
  MaxPid = 4
  MaxFaults = 1
SPECIFICATION Spec
SYMMETRY Symmetry
CHECK_DEADLOCK FALSE
INVARIANTS FailedForkMeansDead KeptUntilRebuild RightRecipe
PROPERTIES ExpiresLeafFirst
