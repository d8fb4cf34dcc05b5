------------------------------ MODULE MCClient ------------------------------
(***************************************************************************)
(* SDK clients of one agent and connections to one server.                 *)
(***************************************************************************)
EXTENDS GuardedClient, TLC

CONSTANTS agent1, policy1, ping, pong, tampered, blocked

ThisLimit == [p \in Policy |-> 0]

ThisRoute == [c \in Connection |-> {}]

ThisCallOf == [k \in Client |-> IF k = "k1" THEN ping ELSE pong]

ThisAnswer ==
    {Thrown, [status |-> "CLEAR", score |-> 10, confidence |-> 95, degraded |-> FALSE]}

=============================================================================
