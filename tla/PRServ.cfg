SPECIFICATION Spec
CONSTANTS
  Clients <- MCClients
  Packages <- MCPackages
  Checksums <- MCChecksums
  Imports <- MCImports
  Null = Null
  MaxTries = 1
  MaxCalls = 3
  MaxTroubles = 1
INVARIANTS TypeOK AnswersDoNotGoBack OneChecksumPerPR GivenIsKept CommittedIsKept
PROPERTY CallEnds
