\* Every path of up to three segments typed, every link and form followed.
CONSTANTS
  Segment <- AnySegment
  Typed <- ShortPaths
  StorageName <- Storages
  FileName <- Files
  Link <- Spelt
  Inert <- WithScheme
  Location <- Spelt
  Malformed <- StrayPercent
SPECIFICATION Spec
INVARIANTS
  TypeOK
  GoalReached
  AtMostTwoHops
PROPERTIES
  ScriptsNotRedirected
