\* One instruction, two overlapping runs of the refund loop and one of the
\* payout loop; fairness of the job.
SPECIFICATION FairSpec
CONSTANTS
    Instructions = {o1}
    Pools = {swiftpay}
    Keys = {k1}
    Amounts = {100}
    PayoutLoops = {lp1}
    RefundLoops = {lr1, lr2}
    OPENING = 150
PROPERTY NothingStaysPending
