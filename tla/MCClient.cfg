SPECIFICATION Spec
CHECK_DEADLOCK FALSE
CONSTANTS
  h1 = h1
  h2 = h2
  h3 = h3
  Thread = {main, caster}
  Host = {h1, h2, h3}
  Up = {h1, h2}
  Known <- MCKnown
  MaxSockets = 6
INVARIANTS
  TypeOK
  DeliveredOnceUnlessOverlapped
  HostsStuckOnlyByOverlap
  DiesOnlyByOverlap
PROPERTIES
  BroadcastsEnd
