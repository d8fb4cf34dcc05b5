CONSTANTS
    o = o
    c = c
    a = a
    w1 = w1
    f = f
    x = x
    ZeroAddress = ZeroAddress
    NoHash = NoHash
    NoId = NoId
    NoApproval = NoApproval
    NoFrame = NoFrame
    Guard = Guard
    Account = {o, c}
    Contract = {c}
    Agent = {a}
    Wallet = {w1}
    GuardAddress = {Guard}
    MaxBalance = 0
    Guardian = {o, c}
    MaxVersion = 2
    Target = {c}
    Selector = {f}
    WalletExecute = x
    Salt = {1}
    Terms <- MCTerms
    MaxTime = 1
    DayLength = 1
    SeqSpan = 3
    MaxExecutions = 4
    Submission <- MCSubmission
    Consent <- MCConsent
SPECIFICATION Spec
INVARIANTS NoReplay NonceOfItsEpoch NoncesMatchLog AuthorityOfThisEpoch
PROPERTIES KeepsPromise CommittedEpochsMoveForward
