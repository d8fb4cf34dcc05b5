------------------------------- MODULE MCApi -------------------------------
(***************************************************************************)
(* Two connections, one for /v1/agent/execute and one for all other        *)
(* routes; one agent.  Bodies carry a signed intent, or its signature and  *)
(* other calldata; the demo routes use the same nonces.                    *)
(***************************************************************************)
EXTENDS GuardedApi, TLC

CONSTANTS agent1, policy1, ping, pong, tampered, blocked

ThisLimit == [p \in Policy |-> 1]

Terms(v, n, call) ==
    [agent |-> agent1, policy |-> policy1, value |-> v, nonce |-> n, call |-> call]

ThisRoute == "c1" :> {"execute"} @@ "c2" :> DOMAIN handlerOf \ {"execute"}

ThisIntent == {Terms(1, 0, pong), Terms(1, 0, tampered)}

ThisBody ==
    {[intent |-> i, signed |-> IF i.call = tampered THEN Terms(1, 0, pong) ELSE i] :
         i \in ThisIntent}

ThisAnswer ==
    {Thrown} \cup
    {[status |-> s, score |-> 10, confidence |-> 95, degraded |-> FALSE] : s \in {"CLEAR", "BLOCK"}}
=============================================================================
