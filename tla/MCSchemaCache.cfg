CONSTANTS
  Handler = {h1, h2, h3}
  TTL = 2
  Delay = 1
  MaxClock = 5
  MaxPuts = 2
  MaxRestarts = 1
SPECIFICATION Spec
SYMMETRY Symmetry
INVARIANTS
  TypeOK
  BoundedStaleness
  UnvalidatedForCause
  CompiledSound
CHECK_DEADLOCK FALSE
