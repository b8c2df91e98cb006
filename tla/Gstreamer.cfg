SPECIFICATION Spec
CONSTANTS
  Pids <- MCPids
  None = None
  Overlap = TRUE
INVARIANTS TypeOK PidFileNamesStream
PROPERTY StreamComesBack
