\* A storage registered under a name of the route table.
CONSTANTS
  Segment <- AnySegment
  Typed <- JustRegister
  StorageName <- AllStorages
  FileName <- Files
  Link <- Spelt
  Inert <- WithScheme
  Location <- Spelt
  Malformed <- StrayPercent
SPECIFICATION Spec
INVARIANT RegisteredIsReachable
