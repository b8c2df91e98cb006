SPECIFICATION Spec
CONSTANTS
  PwmThreads = {}
  Answers <- AnswersSerial
  Signals = {"SIGTERM", "SIGKILL"}
INVARIANTS TypeOK OutputsFollowLastCommand RestIsDark
PROPERTY FollowsServer
