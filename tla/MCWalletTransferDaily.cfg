\* Two transfers of one customer who may send 100 a day.
SPECIFICATION Spec
CONSTANTS
    Calls = {c1, c2}
    Customers = {ada}
    Partners = {shop}
    Keys = {k1}
    Nowhere = nowhere
    NoKey = NoKey
    Amounts = {60}
    DAILY_LIMIT = 100
    OPENING = 200
INVARIANT DailyLimitKept
