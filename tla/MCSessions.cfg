\* A session lives two ticks and an access token one, on a clock of three, so
\* a session can expire or end while its access token is valid and after.
CONSTANTS
    Users = {u1}
    Sids = {s1, s2}
    Requests = {r1, r2}
    RoleSets <- TwoRoleSets
    AccessTTL = 1
    RefreshTTL = 2
    MaxNow = 3
SYMMETRY IdSymmetry
SPECIFICATION Spec
INVARIANTS TypeOK AccessEndsWithSession TokenCarriesTrueRoles
PROPERTY EndedIsFinal
\* The account may be deleted and the bounds used up: an idle server then has
\* nothing left to do.
CHECK_DEADLOCK FALSE
