\* Two threads of one process and one of another; cleans and crashes.
CONSTANTS
  p1 = p1
  p2 = p2
  p3 = p3
  Loaders = {p1, p2, p3}
  Process <- Together
  Nil = Nil
  Absent = Absent
  Stale = Stale
CHECK_DEADLOCK FALSE
SPECIFICATION Spec
INVARIANTS CompiledOnce WholeArtifact HolderWorks
