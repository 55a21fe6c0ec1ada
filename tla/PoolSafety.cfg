SPECIFICATION Spec
CONSTANTS
  Threads = {w1,w2,w3,w4}
  Conns = {c1,c2}
  Spares = {e1,e2,e3,e4}
  NoConn = NoConn
  MaxEmergency = 1
SYMMETRY Symmetry
CHECK_DEADLOCK FALSE
INVARIANTS
  TypeOK
  ExclusiveUse
  PoolIsWhole
  EmergencyInUse
  ActiveCounts
PROPERTIES
  ImplementsContract
