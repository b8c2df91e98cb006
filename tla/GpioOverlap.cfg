SPECIFICATION Spec
CONSTANTS
  PwmThreads = {"left1"}
  Answers <- AnswersOverlap
  Signals = {"SIGKILL"}
INVARIANT OutputsFollowLastCommand
PROPERTIES FollowsServerInOrder FailsafeStopsIfLoopsRun
