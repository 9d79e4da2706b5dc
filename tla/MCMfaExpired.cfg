CONSTANTS
    Users = {u1}
    Tokens = {t1, t2}
    Sids = {s1}
    Setups = {g1}
    Requests = {r1}
    TokenTTL = 1
    MaxNow = 1
SPECIFICATION Spec
INVARIANT ExpiredChallengeDoesNotBlock
CHECK_DEADLOCK FALSE
