SPECIFICATION Spec
CONSTANTS
  PwmThreads = {}
  Buttons <- MCButtons
  MaxPosts = 2
  MaxInFlight = 2
  Faults <- MCFaults
INVARIANTS TypeOK CarRunsWholeCommands WheelsFollowOneCommand
PROPERTIES CarObeysPage CarStopsWithoutServer
