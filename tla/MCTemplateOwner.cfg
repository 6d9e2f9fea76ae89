CONSTANTS
  Clones = {c1, c2, c3}
  NoClone = NoClone
  TTL = 2
  MaxPending = 2
  ChannelCapacity = 1
SPECIFICATION FairSpec
INVARIANTS ChildrenCounted
PROPERTIES KeepsPromise  ForkAnswered
