\* Two requests of one browser at a time, two sessions.
CONSTANTS
    Sids = {s1, s2}
    Requests = {r1, r2}
SPECIFICATION Spec
INVARIANT TypeOK
PROPERTY StaysSignedIn
PROPERTY DrainEnds
