SPECIFICATION Spec
CONSTANTS
    Script = {"deploy"}
    Key = {k1, k2}
    GivenAgent = k1
    Shipped = shipped
    None = None
    MaxContracts = 13
INVARIANT NoUnboundWalletIsLeft
