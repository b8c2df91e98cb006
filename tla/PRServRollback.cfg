SPECIFICATION Spec
CONSTANTS
  Clients <- MCClients
  Packages <- MCPackages
  Checksums <- MCChecksums
  Imports <- MCImports
  Null = Null
  MaxTries = 1
  MaxCalls = 4
  MaxTroubles = 0
INVARIANT NeverDecremented
