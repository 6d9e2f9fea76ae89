\* Every memory of up to four pages, with any overlays.
CONSTANTS
  MaxPages = 4
  Huge = 2
  Ends = 5
  Contents = {"data", "zero", "swapped"}
  Overlays <- MCOverlays
SPECIFICATION Spec
CHECK_DEADLOCK FALSE
INVARIANTS GuestCannotTell ReleasesExactly
