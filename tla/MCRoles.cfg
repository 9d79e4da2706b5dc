\* One user, three role ids and two names, two calls at a time.
CONSTANTS
    Users = {u1}
    RoleIds = {i1, i2, i3}
    Names = {n1, n2}
    Requests = {r1, r2}
SPECIFICATION Spec
SYMMETRY Symm
INVARIANT TypeOK
INVARIANT AssignmentsLive
PROPERTY ReplacementOffOnlyByRace
CHECK_DEADLOCK FALSE
