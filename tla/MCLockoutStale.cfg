\* One login and one profile update of the same account are enough.
CONSTANTS
    Users = {u1}
    Logins = {l1}
    Editors = {e1}
    MaxFailedAttempts = 2
    LockoutDuration = 2
    MissCap = 4
    MaxNow = 3
SPECIFICATION Spec
INVARIANT LockAfterMaxFailedAttempts
