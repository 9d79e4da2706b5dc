\* Two challenges, two sessions and two setups of one account, two requests
\* at a time; a challenge lives one tick of a clock of one.
CONSTANTS
    Users = {u1}
    Tokens = {t1, t2}
    Sids = {s1, s2}
    Setups = {g1, g2}
    Requests = {r1, r2}
    TokenTTL = 1
    MaxNow = 1
SYMMETRY IdSymmetry
SPECIFICATION Spec
INVARIANTS TypeOK ChallengeOpensOneSession SecondFactorNeeded MfaClaimHonest FactorConsistent
\* Challenges, sessions and setups are finite supplies that get used up.
CHECK_DEADLOCK FALSE
