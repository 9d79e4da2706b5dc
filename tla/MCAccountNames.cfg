\* Two accounts, two requests at a time, three names any of which may be used
\* as an address or as a username.
CONSTANTS
    Address = address
    Spaced = spaced
    Other = other
    Users = {u1, u2}
    Requests = {r1, r2}
    Names <- AllNames
    Addresses <- TwoAddresses
    Trimmed <- TrimmedName
SPECIFICATION Spec
SYMMETRY Symm
INVARIANT TypeOK
INVARIANT ConfirmedByItsOwner
INVARIANT TwinsOnlyVerbatim
CHECK_DEADLOCK FALSE
