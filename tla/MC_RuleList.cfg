CONSTANTS
    h1 = h1
    h2 = h2
    r1 = r1
    r2 = r2
    Hosts <- MCHosts
    Readers <- MCReaders
    RuleTexts <- MCRuleTexts
    Miss = Miss
    CacheSize = 1
    MaxRefreshes = 3
SPECIFICATION Spec
SYMMETRY MCSymmetry
INVARIANTS
    TypeOK
    NoStaleResult
PROPERTIES
    CacheKeptUntilSwap
