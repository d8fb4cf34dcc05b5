SPECIFICATION Spec
CONSTANTS
    Text <- ThisText
    Name <- ThisName
    getAddress <- ThisGetAddress
    BigInt <- ThisBigInt
    toString <- ThisToString
    getBytes <- ThisGetBytes
    Word = {"hash"}
    MaxUint = 3
    Throws = Throws
    Thrown = Thrown
    NotFinite = NotFinite
    MaxUint256 = 3
    Definition <- ThisDefinition
    Body <- ThisBody
    ChainId = 1
    verifyingContract = "g"
    Answers <- ThisAnswers
    View <- ChainView
    Data <- Calldata
INVARIANTS PreparedIntentVerifies ResolvedAsRequested ClearIsUnanimous GrantsAreReviewed
