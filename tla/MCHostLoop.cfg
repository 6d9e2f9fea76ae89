CONSTANTS
  Hosts = {b, c}
  Base = b
  None = None
  Manifests = {{"prepare", "probe", "initializer"}, {}}
CHECK_DEADLOCK FALSE
SPECIFICATION FairSpec
INVARIANTS ExactlyOneReply
PROPERTIES HostEnds WaitsEnd
