SPECIFICATION Spec
CONSTANTS
  Callers = {c1, c2}
  Transitions <- McTransitions
  Kind <- McKind
  States <- McStates
  Sources <- McSources
  InProgress <- MarkedExport
  Target <- McTarget
  FailedState <- McFailedState
  InitialState = "draft"
  InAtomic <- McTransitions
  DeferUnlock = TRUE
  RunsOutliveLock = FALSE
  NoState = NoState
  NoTransition = NoTransition
  NoCaller = NoCaller
INVARIANT OneRacerWins
