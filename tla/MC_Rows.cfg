\* Two workers and two instances: races on claims, locks, deaths and nets.
SPECIFICATION Spec
CONSTANTS
  Workers = {w1, w2}
  Instances = {i1, i2}
  Transitions <- ApproveOnly
  States <- ProcessStates
  Sources <- McSources
  InProgress <- McInProgress
  Target <- McTarget
  FailedState <- McFailedState
  Timed = {"approve"}
  Queue <- McQueue
  Serves <- BothQueues
  ExternalStates = {}
  InitialState = "draft"
  NoState = NoState
  NoWorker = NoWorker
  NoRow = NoRow
  MaxErrors = 2
  MaxRows = 2
  MaxKills = 1
SYMMETRY ActorSymmetry
INVARIANTS
  TypeOK
  RowLockGuardsAttempt
  ErrorsBounded
  HooksRunOnce
  ParkedIsExplained
  PendingRowOwnsState
PROPERTIES
  CompletedIsFinal
  WatchdogChargesAbandonedOnly
  WorkersOwnColumn
CHECK_DEADLOCK FALSE
