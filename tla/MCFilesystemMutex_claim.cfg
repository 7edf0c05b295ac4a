SPECIFICATION Spec
CONSTANTS
    a = a
    b = b
    c = c
    Nobody = Nobody
    Proc <- Three
    MayDie <- OneDies
    DieInClaim = TRUE
    Survivors = 2
INVARIANT ClaimSerializes
CHECK_DEADLOCK FALSE
