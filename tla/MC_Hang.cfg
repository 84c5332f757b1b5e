\* Finding: an attempt that hangs and keeps its connection.
SPECIFICATION HangSpec
CONSTANTS
  Workers = {w1, w2}
  Instances = {i1}
  Transitions <- ApproveOnly
  States <- ProcessStates
  Sources <- McSources
  InProgress <- McInProgress
  Target <- McTarget
  FailedState <- McFailedState
  Timed = {"approve"}
  Queue <- McQueue
  Serves <- BothQueues
  ExternalStates = {}
  InitialState = "draft"
  NoState = NoState
  NoWorker = NoWorker
  NoRow = NoRow
  MaxErrors = 2
  MaxRows = 1
  MaxKills = 1
PROPERTY
  HungAttemptIsAbandoned
CHECK_DEADLOCK FALSE
