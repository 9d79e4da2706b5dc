\* A state lives one tick on a clock of three. No symmetry, because of the
\* liveness property.
CONSTANTS
    Servers = {v1, v2}
    Signing = {v1}
    States = {t1}
    Callbacks = {r1, r2}
    Lifetime = 1
    MaxVisits = 3
    MaxNow = 3
SPECIFICATION Spec
INVARIANTS TypeOK MemoryStateSpentOnce NoLateSignIn RefusalExplained
PROPERTY AbandonedStatesLeave
\* The clock and the callbacks are used up.
CHECK_DEADLOCK FALSE
