\* Two payments, two requests at a time, the bank's retries, one call of the partner.
SPECIFICATION FairSpec
CONSTANTS
    References = {d1, d2}
    Accounts = {va}
    Amounts = {1, 2}
    Nowhere = nowhere
    ExpectedAmounts = {100}
    NotSet = NotSet
    Handlers = {h1, h2}
    Operators = {}
    Orders = {c1}
    Spendings = {}
CHECK_DEADLOCK FALSE
PROPERTY EveryNoticeAnswered
