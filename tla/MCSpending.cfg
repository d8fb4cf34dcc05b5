CONSTANTS
    o = o
    c = c
    a = a
    w1 = w1
    f = f
    x = x
    ZeroAddress = ZeroAddress
    NoHash = NoHash
    NoId = NoId
    NoApproval = NoApproval
    NoFrame = NoFrame
    Guard = Guard
    Account = {o, c}
    Contract = {c}
    Agent = {a}
    Wallet = {w1}
    GuardAddress = {Guard}
    MaxBalance = 2
    Consent <- MCConsent
    Guardian = {}
    MaxVersion = 1
    Target = {c, w1}
    Selector = {f, x}
    WalletExecute = x
    Salt = {1}
    Terms <- MCTerms
    MaxTime = 1
    DayLength = 1
    SeqSpan = 3
    MaxExecutions = 2
    Submission <- MCSubmission
SPECIFICATION Spec
INVARIANTS TypeOK DailyCap LedgerExact OnePayoutPerCall LargePaymentsApproved
PROPERTY KeepsPromise
