\* Three accounts over two addresses, two people at Google, two requests.
CONSTANTS
    Users = {u1, u2, u3}
    Emails = {e1, e2}
    Subjects = {s1, s2}
    Requests = {r1, r2}
SYMMETRY Symmetry
SPECIFICATION Spec
INVARIANTS TypeOK AWayIn SignsInWhereLinked
    LinkedByVerifiedAddress DeletionIsComplete
PROPERTY ImplementsDirectory
