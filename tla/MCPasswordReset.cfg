\* Two links, two sessions; a link lives one tick of a clock of one.
CONSTANTS
    Users = {u1}
    Tokens = {t1, t2}
    Sids = {s1, s2}
    Requests = {r1, r2, r3}
    TokenTTL = 1
    MaxVersion = 2
    MaxNow = 1
SYMMETRY IdSymmetry
SPECIFICATION Spec
INVARIANTS TypeOK ResetEndsOldSessions RetiredLinksDead
\* Tokens, sessions and versions are finite supplies that get used up.
CHECK_DEADLOCK FALSE
