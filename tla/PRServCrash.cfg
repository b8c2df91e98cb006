SPECIFICATION Spec
CONSTANTS
  Clients <- MCClients
  Packages <- MCPackages
  Checksums <- MCChecksums
  Imports <- MCImports
  Null = Null
  MaxTries = 1
  MaxCalls = 3
  MaxTroubles = 1
INVARIANT NeverDecremented
