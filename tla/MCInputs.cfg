\* Recipes: a file under the root, one outside it and a device; one path that any owner
\* relinks; room for three bytes, requests of up to three files.  Packages: four in two
\* directories, two changes to the links.  ByteStrings: all that the loop tells apart.
CONSTANTS
  p = p inside = inside beyond = beyond device = device
  None = None
  Paths = {p}
  Inodes = {inside, beyond, device}
  Rooted = {inside, device}
  Irregular = {device}
  Texts <- MCTexts
  MaxLen = 3
  MaxFiles = 3
  one = one copy = copy two = two broken = broken Missing = Missing
  Package = {one, copy, two, broken}
  Key <- MCKey
  WellFormed = {one, copy, two, broken}
  Prepares <- MCPrepares
  Runs <- MCRuns
  Plain = {"main", "data"}
  Leads <- MCLeads
  Children <- MCChildren
  Flags <- MCFlags
  Environment <- MCEnvironment
  Home <- MCHome
  SYSTEM_DEFAULTS <- MCSystem
  MaxChanges = 2
  Chars = {9, 53, 70, 92, 97, 120}
  Bytes = {0, 9, 53, 92, 120, 175}
  MaxChars = 4
  Shown = 2
SPECIFICATION MCSpec
SYMMETRY Copies
CHECK_DEADLOCK FALSE
INVARIANTS FromRootsOnly JoinedWithinLimit RunsWhatWasNamed FirstFoundServes ByteStringsAgree
