SPECIFICATION Spec
CONSTANTS
  Callers = {c1, c2}
  Transitions <- McTransitions
  Kind <- McKind
  States <- McStates
  Sources <- McSources
  InProgress <- UnmarkedExport
  Target <- McTarget
  FailedState <- McFailedState
  InitialState = "draft"
  InAtomic = {}
  DeferUnlock = FALSE
  RunsOutliveLock = FALSE
  NoState = NoState
  NoTransition = NoTransition
  NoCaller = NoCaller
INVARIANT RunKeepsSource
