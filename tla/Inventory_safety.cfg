SPECIFICATION Spec
CONSTANTS
    id1 = id1
    address1 = address1
    address2 = address2
    key1 = key1
    None = None
    c1 = c1
    c2 = c2
    Ids <- MCIds
    Identities <- MCIdentities
    IdOf <- MCIdOf
    Queries <- MCIdQueries
    Calls <- MCCalls
    MaxCopies = 2
    TornWrites = FALSE
SYMMETRY MCSymmetry
INVARIANT TypeOK
INVARIANT CandidateNotRejected
INVARIANT RejectionHolds
INVARIANT FileIsCurrent
PROPERTY NoIdentitySwap
