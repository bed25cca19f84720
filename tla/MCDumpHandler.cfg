\* Two connections and two RPCs, each of the service or to another one.
SPECIFICATION Spec
SYMMETRY Symmetric
CHECK_DEADLOCK FALSE
CONSTANTS
    Conns = {n1, n2}
    Calls = {c1, c2}
    MaxTime = 3
    None = None
INVARIANTS
    PanicsOnlyUnconnected
    LogIsTrue
