SPECIFICATION Spec
CONSTANTS
    Script = {"deploy", "demo"}
    Key = {k1, k2}
    GivenAgent = k1
    Shipped = shipped
    None = None
    MaxContracts = 13
INVARIANTS RecordedIsWhole RecordedCanSign
