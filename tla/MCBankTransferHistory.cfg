\* One transfer, one pass at a time; the history row of a settled transfer.
SPECIFICATION FairSpec
CONSTANTS
    Instructions = {t1}
    Users = {ada}
    Keys = {k1}
    Amounts = {100}
    Passes = {p1}
    FEE = 10
    FREE_PER_DAY = 0
    DAILY_LIMIT = 300
    OPENING = 300
PROPERTY HistoryCatchesUp
