\* A lock lasts two ticks of a clock of three, so locks expire while requests
\* are in flight; the threshold is 2 so that races around it are short.
CONSTANTS
    Users = {u1}
    Logins = {l1, l2}
    Editors = {e1}
    MaxFailedAttempts = 2
    LockoutDuration = 2
    MissCap = 4
    MaxNow = 3
SYMMETRY LoginSymmetry
SPECIFICATION Spec
INVARIANTS TypeOK LockMatchesCounter MissesCounted
PROPERTY LockLiftedOnlyByStaleRead
