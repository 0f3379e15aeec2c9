SPECIFICATION Spec
CONSTANTS
  Callers = {c1, c2}
  Nobody = Nobody
INVARIANTS NoOrphan DestroyOnce GaugeExact
PROPERTIES SessionsGo
CHECK_DEADLOCK FALSE
