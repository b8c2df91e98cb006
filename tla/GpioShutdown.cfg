SPECIFICATION Spec
CONSTANTS
  PwmThreads = {}
  Answers <- AnswersOverlap
  Signals = {"SIGTERM"}
PROPERTY ShutdownEnds
