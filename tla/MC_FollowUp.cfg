SPECIFICATION Spec
CONSTANTS
  Classes <- McClasses
  Transitions <- McTransitions
  Actions = {"open", "send", "archive"}
  Name <- McName
  Background <- McBackground
  FollowUp <- McFollowUp
  Conditional = {"gmail", "dummy"}
  Versions <- McVersions
  Bound <- McBound
  Entries <- McEntries
  Importable <- McImportable
  Nested <- McNested
  Declared <- McDeclared
  NoClass = NoClass
  NoTransition = NoTransition
  NoAction = NoAction
PROPERTIES RestoresWhatWasEnqueued
