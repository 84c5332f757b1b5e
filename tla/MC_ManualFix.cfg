\* Finding: a manual fix made while the side-effects run.
SPECIFICATION Spec
CONSTANTS
  Workers = {w1}
  Instances = {i1}
  Transitions <- ApproveOnly
  States <- ProcessStates
  Sources <- McSources
  InProgress <- McInProgress
  Target <- McTarget
  FailedState <- McFailedState
  Timed = {"approve"}
  Queue <- McQueue
  Serves <- BothQueues
  ExternalStates = {"draft"}
  InitialState = "draft"
  NoState = NoState
  NoWorker = NoWorker
  NoRow = NoRow
  MaxErrors = 2
  MaxRows = 1
  MaxKills = 1
PROPERTY
  ManualFixNeverOverwritten
CHECK_DEADLOCK FALSE
