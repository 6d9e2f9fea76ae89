\* serve: three servers, one starting or stopping at a time; any of them killed.
\* run: two triggers, two clones each; the fourth fork finds no process left.
\* request: the code's ten and thirty seconds; at most one line between two renewals.
CONSTANTS
  s1 = s1 s2 = s2 s3 = s3
  None = None
  Servers = {s1, s2, s3}
  Overlapping = FALSE
  c1 = c1 c2 = c2 c3 = c3
  Clones = {c1, c2, c3}
  Count = 2
  MaxTriggers = 2
  Interval = 10
  Lease = 30
  MaxLines = 1
SPECIFICATION MCSpec
CHECK_DEADLOCK FALSE
INVARIANTS  StatusOfAllClones 
PROPERTIES  RunEnds 
