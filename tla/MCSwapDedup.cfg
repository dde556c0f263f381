SPECIFICATION DedupSpec
CONSTANTS
    m1 = m1
    m2 = m2
    c1 = c1
    c2 = c2
    h1 = h1
    NoMatch = NoMatch
    Matches <- MCMatches
    Contracts <- MCContracts
    Hashes <- MCHashes
    HashOf <- MCHashOf
    MaxCrashes = 1
    MaxWaiters = 2
SYMMETRY MCSymmetry
CONSTRAINT FewWaiters
INVARIANTS
    NothingServesTwo
CHECK_DEADLOCK FALSE
