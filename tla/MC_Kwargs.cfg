SPECIFICATION Spec
CONSTANTS
  Values <- McValues
  Height <- McHeight
  Calls <- McCalls
  NonString <- McNonString
  KeyText <- McKeyText
  IsoText <- McIsoText
  BadKeys <- McBadKeys
  Versions <- McVersions
  Knows <- McKnows
  Users <- McUsers
INVARIANTS NothingUnstorable RoundTrip LossIsKnown NeverMisread
CHECK_DEADLOCK FALSE
