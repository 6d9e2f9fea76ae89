\* Two guest threads, two descriptor numbers, a clone of a clone.  No symmetry: liveness.
CONSTANTS
  t1 = t1 t2 = t2 f1 = f1 f2 = f2 k1 = k1
  None = None
  Threads = {t1, t2}
  Fds = {f1, f2}
  Tasks = {k1}
  MaxGeneration = 2
SPECIFICATION FairSpec
CHECK_DEADLOCK FALSE
INVARIANTS  LostTaskStops
PROPERTIES SleepersWake FreezeEnds
