CONSTANTS
  Requests = {a, b}
  Recipes = {}
  Base = Base
  MaxSlot = 2
  Nil = Nil
  MaxPid = 3
  MaxFaults = 1
SPECIFICATION FairSpec
CHECK_DEADLOCK FALSE
PROPERTIES  NoStrays
