\* One payment to an account that may not be handed out, or not exist.
SPECIFICATION Spec
CONSTANTS
    References = {d1}
    Accounts = {va}
    Amounts = {1, 2}
    Nowhere = nowhere
    ExpectedAmounts = {100}
    NotSet = NotSet
    Handlers = {h1}
    Operators = {op1}
    Orders = {c1}
    Spendings = {s1}
CHECK_DEADLOCK FALSE
INVARIANT AnsweredIsRecorded
