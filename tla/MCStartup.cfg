SPECIFICATION Spec
CHECK_DEADLOCK FALSE
SYMMETRY Symmetry
CONSTRAINT Small
CONSTANTS
  Node = {n1, n2}
  Server = {s}
  Domain = {10}
  Service = {2}
  Protocol = {0}
  Port = {70105}
  Threads = {2}
  Backlog = {5}
  MaxBoots = 4
  MaxFills = 1
INVARIANTS
  
  WholeLoadsAgree
  
PROPERTIES
  ImplementsWriteOnce
  TornStaysOut
