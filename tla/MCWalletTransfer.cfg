\* Two calls among two customers and a partner's account; either may pay the
\* other, with one key, two or none.
SPECIFICATION Spec
CONSTANTS
    Calls = {c1, c2}
    Customers = {ada, bola}
    Partners = {shop}
    Keys = {k1}
    Nowhere = nowhere
    NoKey = NoKey
    Amounts = {60, 100}
    DAILY_LIMIT = 1000
    OPENING = 100
SYMMETRY Symmetry
INVARIANT TypeOK
INVARIANT BooksAgree
INVARIANT OneTransferPerKey
INVARIANT AnswersAreTrue
