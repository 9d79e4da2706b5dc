\* A link lives one tick of a clock of one.
CONSTANTS
    Users = {u1}
    Emails = {e1, e2, e3}
    Taken = {e3}
    Tokens = {t1, t2, t3}
    Requests = {r1, r2}
    TokenTTL = 1
    MaxNow = 1
SYMMETRY IdSymmetry
SPECIFICATION Spec
INVARIANTS TypeOK VerifiedByClick
PROPERTIES ImplementsOneTimeLink VerificationLostOnlyToUpdate
\* Tokens are a finite supply: when all are used up the model stops.
CHECK_DEADLOCK FALSE
