SPECIFICATION Spec
CONSTANTS
  c1 = c1
  c2 = c2
  Clients <- MCClients
  MaxCalls = 2
  MaxReboots = 2
SYMMETRY ClientSymmetry
\* The clients have made all their calls.
CHECK_DEADLOCK FALSE
INVARIANTS
  TypeOK
  OkMeansSetUp
  PersistedIsInForce
  RefusalTouchesNothing
