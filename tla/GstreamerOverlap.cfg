SPECIFICATION Spec
CONSTANTS
  Pids <- MCPids
  None = None
  Overlap = TRUE
INVARIANT StopFindsStream
