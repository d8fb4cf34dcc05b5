CONSTANTS
    o1 = o1
    o2 = o2
    a1 = a1
    a2 = a2
    w1 = w1
    w2 = w2
    guard = guard
    ZeroAddress = ZeroAddress
    Account <- MCAccount
    Agent = {a1, a2}
    Wallet = {w1, w2}
    GuardAddress <- MCGuardAddress
    MaxBalance = 1
    Consent <- MCConsent
    Guardian = {o2}
    MaxVersion = 2
SPECIFICATION CustodySpec
INVARIANTS CustodyTypeOK AuthorityOfThisEpoch CanonicalWallet
PROPERTIES EpochsMoveForward HandoffKeepsCustody
SYMMETRY MCSymmetry
