\* Two payments, two requests at a time, two calls of the partner, two
\* operators and a payout, all on one account.
SPECIFICATION Spec
CONSTANTS
    References = {d1, d2}
    Accounts = {va}
    Amounts = {1, 2}
    Nowhere = nowhere
    ExpectedAmounts = {100}
    NotSet = NotSet
    Handlers = {h1, h2}
    Operators = {op1, op2}
    Orders = {c1, c2}
    Spendings = {s1}
SYMMETRY Symmetry
CHECK_DEADLOCK FALSE
INVARIANT TypeOK
INVARIANT OneCreditPerOpening
INVARIANT BooksAgree
PROPERTY KeepsPromise
