\* Two fair workers, every kind of transition and an operator, against
\* DurableWork.
SPECIFICATION FairSpec
CONSTANTS
  Workers = {w1, w2}
  Instances = {i1}
  Transitions <- AllTransitions
  States <- ProcessStates
  Sources <- McSources
  InProgress <- McInProgress
  Target <- McTarget
  FailedState <- McFailedState
  Timed = {"approve"}
  Queue <- McQueue
  Serves <- BothQueues
  ExternalStates = {"draft", "approved"}
  InitialState = "draft"
  NoState = NoState
  NoWorker = NoWorker
  NoRow = NoRow
  MaxErrors = 2
  MaxRows = 1
  MaxKills = 1
PROPERTIES
  KeepsPromise
  EveryRowCompletes
  FixBeforeAttemptWins
CHECK_DEADLOCK FALSE
