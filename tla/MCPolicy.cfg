CONSTANTS
    o1 = o1
    o2 = o2
    a1 = a1
    t1 = t1
    f = f
    ZeroAddress = ZeroAddress
    NoHash = NoHash
    NoId = NoId
    Account = {o1, o2}
    Agent = {a1}
    Target = {t1}
    Selector = {f}
    Salt = {1, 2}
    Terms <- MCTerms
    MaxTime = 3
SPECIFICATION PolicySpec
INVARIANTS PolicyTypeOK HashCommitsToTerms ActivePolicyIsUsable
