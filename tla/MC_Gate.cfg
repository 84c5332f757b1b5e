SPECIFICATION FairSpec
CONSTANTS
  Callers = {c1, c2, c3}
  Transitions <- McTransitions
  Kind <- McKind
  States <- McStates
  Sources <- McSources
  InProgress <- MarkedExport
  Target <- McTarget
  FailedState <- McFailedState
  InitialState = "draft"
  InAtomic <- AllButExport
  DeferUnlock = TRUE
  RunsOutliveLock = FALSE
  NoState = NoState
  NoTransition = NoTransition
  NoCaller = NoCaller
INVARIANTS TypeOK OneRacerWins RunKeepsSource LockIsAccountedFor NobodyWaits
PROPERTIES RowOwnsField EnqueueFromSource ColumnIsOwned LockIsReleased
