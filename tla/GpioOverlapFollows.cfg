SPECIFICATION Spec
CONSTANTS
  PwmThreads = {"left1"}
  Answers <- AnswersOverlap
  Signals = {}
PROPERTY WritesFollowServer
