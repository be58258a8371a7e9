\* Two overlapping runs of one half, a pool with one wallet, three movements
\* or edits, an operator who resolves what is open.
SPECIFICATION FairSpec
CONSTANTS
    Scanners = {s1, s2}
    Scheduled = {s1}
    Operators = {op}
    Wallets = {va}
    PoolLedger = poolLedger
    PoolSum = poolSum
    NoCheck = NoCheck
    AMOUNT = 1
    MAX_MOVES = 3
    MAX_ERRORS = 1
INVARIANT OneOpenException
PROPERTY VerdictsAreTrue
PROPERTY TruthInTheEnd
