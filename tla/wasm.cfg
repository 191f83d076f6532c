SPECIFICATION Spec
CONSTANTS
    Tunnels = {t1, t2}
    U16 = 16
    U32 = 64
    Params <- CallerParams
    Lengths = {0, 1, 3, 9}
    MinScratch = 2
    DrainMax = 2
    MaxEvents = 3
    MaxCreates = 2
SYMMETRY Alike
INVARIANTS EachEventOnce HeapSafe NumbersCrossIntact
CHECK_DEADLOCK FALSE
