\* One transfer, two overlapping recovery passes; fairness of the job.
SPECIFICATION FairSpec
CONSTANTS
    Instructions = {t1}
    Users = {ada}
    Keys = {k1}
    Amounts = {100}
    Passes = {p1, p2}
    FEE = 10
    FREE_PER_DAY = 0
    DAILY_LIMIT = 300
    OPENING = 300
PROPERTY NothingStaysPending
PROPERTY DealtWithGetsSettled
