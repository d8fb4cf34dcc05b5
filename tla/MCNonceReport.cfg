SPECIFICATION Spec
CONSTANTS
    agent1 = agent1
    policy1 = policy1
    ping = ping
    pong = pong
    tampered = tampered
    blocked = blocked
    Agent = {agent1}
    Policy = {policy1}
    Capped = {policy1}
    Limit <- ThisLimit
    Nonce = {0, 1, 2}
    Value = {0, 1}
    Day = {0, 1}
    Thrown = Thrown
    NotFinite = NotFinite
    MaxUint256 = 1
    Connection = {"c1", "c2"}
    Service = {"executor", "preflight", "demoGuard", "demoSigner", "risk"}
    Provider = {"onchain"}
    Answer <- ThisAnswer
    Route <- ThisRoute
    Intent <- ThisIntent
    Body <- ThisBody
    Permitted = {ping, pong}
    DemoAgent = agent1
    DemoPolicy = policy1
    DemoCall = ping
    TamperedCall = tampered
    BlockedCall = blocked
    NoIntent = NoIntent
    MaxSent = 2
INVARIANT NonceUnchangedByAttack
