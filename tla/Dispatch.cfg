SPECIFICATION Spec
CONSTANTS
  fast = fast
  slow = slow
  None = None
  visitor = visitor
  Requests = {r1, r2, visitor}
  Providers = {fast, slow}
  Asks <- MCAsks
  ConfigAt <- MCConfigAt
  Digits = {"v1", "v2", "bad1"}
  Safe = {"v1", "v2"}
  MAX_TRACKED_VERSIONS = 2
SYMMETRY RequestSymmetry
INVARIANTS OneLogLine BooksAgree ReportedOnce
\* The server exits.
CHECK_DEADLOCK FALSE
