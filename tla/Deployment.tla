----------------------------- MODULE Deployment -----------------------------
(***************************************************************************)
(* scripts/deploy.ts and scripts/deploy-agent-demo.ts, one awaited         *)
(* transaction after the other, and what api/server.ts makes of the files  *)
(* that they leave.                                                        *)
(*                                                                         *)
(* A script may end after every step: a transaction fails, the node cannot *)
(* be reached or the process is killed, then perhaps with a transaction on *)
(* its way that is mined all the same.  It is run again from the start.    *)
(***************************************************************************)
EXTENDS Integers, Sequences

CONSTANTS
    Script,         \* the scripts that are run: "deploy", "demo"
    Key,            \* agents whose keys are made by createRandom or given
    GivenAgent,     \* the agent of CWF_AGENT_PRIVATE_KEY, or None
    Shipped,        \* the agent of the record that the repository comes with
    None,
    MaxContracts    \* bound on the contracts deployed

ASSUME DeploymentAssumption ==
    /\ Script \subseteq {"deploy", "demo"}
    /\ None \notin Key /\ Shipped \notin Key \cup {None}
    /\ GivenAgent \in Key \cup {None}
    /\ MaxContracts \in Nat

VARIABLES
    contracts,      \* all contracts, by address
    running,        \* the running script, what it awaits, what it has got
    files           \* benchmark/agent-demo.json, deployments.json, .env

vars == <<contracts, running, files>>

-----------------------------------------------------------------------------
Nothing == [registry |-> 0, policyRegistry |-> 0, guard |-> 0, wallet |-> 0, agent |-> None]

core == <<"registry", "policyRegistry", "guard">>

deploy ==
    core \o (IF GivenAgent = None THEN <<>> ELSE <<"register", "wallet", "bind">>)
         \o <<"record">>

\* Two bugs that demo does not have: recording what is going to be, and the key of
\* the agent last.
demoRecordedFirst ==
    <<"key">> \o core \o <<"wallet", "record", "register", "bind", "policy">>

demoKeyLast ==
    core \o <<"wallet", "register", "bind", "policy", "record", "key">>

demo == <<"key">> \o core \o <<"wallet", "register", "bind", "policy", "record">>

stepsOf(script) == IF script = "demo" THEN demo ELSE deploy

Ended == [script |-> None, at |-> 0, got |-> Nothing]

Step == stepsOf(running.script)[running.at]
Runs == running.script # None
Does(steps) == Runs /\ Step \in steps

Proceed(got) ==
    running' = IF running.at < Len(stepsOf(running.script))
               THEN [running EXCEPT !.at = @ + 1, !.got = got]
               ELSE Ended

\* deploy-agent-demo.ts does nothing while there is a record.
Start(script) ==
    /\ ~Runs
    /\ script = "demo" => files.demo = None
    /\ running' = [script |-> script, at |-> 1,
                   got |-> [Nothing EXCEPT !.agent =
                               IF script = "deploy" THEN GivenAgent ELSE None]]
    /\ UNCHANGED <<contracts, files>>

\* The key in .env is used, or a new one appended to it.
MakeKey ==
    /\ Does({"key"})
    /\ \E agent \in IF files.env = None THEN Key ELSE {files.env} :
          /\ files' = [files EXCEPT !.env = agent]
          /\ Proceed([running.got EXCEPT !.agent = agent])
    /\ UNCHANGED contracts

-----------------------------------------------------------------------------
Deployed == {"registry", "policyRegistry", "guard", "wallet"}
Calls == {"register", "bind", "policy"}

\* A contract with what its constructor was given and what it keeps.
NewContract(kind) ==
    [kind |-> kind, built |-> running.got, agents |-> {}, bound |-> 0]

Effect ==
    LET got == running.got
    IN  CASE Step \in Deployed -> Append(contracts, NewContract(Step))
          [] Step = "register" -> [contracts EXCEPT ![got.registry].agents = @ \cup {got.agent}]
          [] Step = "bind" -> [contracts EXCEPT ![got.registry].bound = got.wallet]
          [] Step = "policy" -> [contracts EXCEPT ![got.policyRegistry].agents =
                                                      @ \cup {got.agent}]

HasRoom == Step \in Deployed => Len(contracts) < MaxContracts

\* The transaction is mined, and the script has seen it.
Transact ==
    /\ Does(Deployed \cup Calls) /\ HasRoom
    /\ contracts' = Effect
    /\ Proceed(IF Step \in Deployed
               THEN [running.got EXCEPT ![Step] = Len(contracts) + 1] ELSE running.got)
    /\ UNCHANGED files

\* The script has ended when its transaction is mined.
TransactUnseen ==
    /\ Does(Deployed \cup Calls) /\ HasRoom
    /\ contracts' = Effect
    /\ running' = Ended
    /\ UNCHANGED files

End ==
    /\ Runs
    /\ running' = Ended
    /\ UNCHANGED <<contracts, files>>

\* The record of this network in deployments.json, or the demo's own.  writeFileSync
\* empties the file and then writes it; the script is not ended in between here.
Record ==
    /\ Does({"record"})
    /\ files' = IF running.script = "demo" THEN [files EXCEPT !.demo = running.got]
                ELSE [files EXCEPT !.deployments = running.got]
    /\ Proceed(running.got)
    /\ UNCHANGED contracts

\* The operator makes room for another demo.
RemoveRecord ==
    /\ ~Runs
    /\ files.demo # None
    /\ files' = [files EXCEPT !.demo = None]
    /\ UNCHANGED <<contracts, running>>

-----------------------------------------------------------------------------
(***************************************************************************)
(* api/server.ts, started with these files.                                *)
(***************************************************************************)
serverStarts ==
    /\ files.demo # None
    /\ files.env # None => files.env = files.demo.agent

\* The parts of CwfApiContext it configures (Service in GuardedApi).
Configured(hasRelayerKey) ==
    {"risk"}
    \cup (IF hasRelayerKey THEN {"executor", "preflight", "demoGuard"} ELSE {})
    \cup (IF files.env # None THEN {"demoSigner"} ELSE {})

-----------------------------------------------------------------------------
\* The repository comes with a record of a complete demo, and without its key.
shippedRecord ==
    [registry |-> 1, policyRegistry |-> 2, guard |-> 3, wallet |-> 4, agent |-> Shipped]

ShippedContract(kind, built, agents, bound) ==
    [kind |-> kind, built |-> built, agents |-> agents, bound |-> bound]

shippedContracts ==
    LET before(fields) == [f \in DOMAIN Nothing |->
                              IF f \in fields \cup {"agent"} THEN shippedRecord[f] ELSE 0]
    IN  <<ShippedContract("registry", before({}), {Shipped}, 4),
          ShippedContract("policyRegistry", before({"registry"}), {Shipped}, 0),
          ShippedContract("guard", before({"registry", "policyRegistry"}), {}, 0),
          ShippedContract("wallet", before({"registry", "policyRegistry", "guard"}), {}, 0)>>

Init ==
    /\ contracts = shippedContracts
    /\ running = Ended
    /\ files = [demo |-> shippedRecord, deployments |-> None, env |-> None]

Next ==
    \/ \E script \in Script : Start(script)
    \/ MakeKey \/ Transact \/ TransactUnseen \/ Record
    \/ End
    \/ RemoveRecord

Spec == Init /\ [][Next]_vars

-----------------------------------------------------------------------------
\* A guard over these registries, and the wallet under this guard for its agent,
\* registered and bound in this registry.
IsWhole(record) ==
    /\ \A f \in Deployed \ {"wallet"} : contracts[record[f]].kind = f
    /\ contracts[record.guard].built.registry = record.registry
    /\ contracts[record.guard].built.policyRegistry = record.policyRegistry
    /\ record.agent # None =>
          /\ contracts[record.wallet].kind = "wallet"
          /\ contracts[record.wallet].built.guard = record.guard
          /\ contracts[record.wallet].built.agent = record.agent
          /\ record.agent \in contracts[record.registry].agents
          /\ contracts[record.registry].bound = record.wallet

\* deploy.ts:120, "single source of truth for what is actually deployed where": a
\* record that exists names one whole deployment, whenever a script ended before
\* and whatever it left behind; the demo's agent has its policy there, too.
RecordedIsWhole ==
    /\ files.deployments # None => IsWhole(files.deployments)
    /\ files.demo # None =>
          /\ IsWhole(files.demo)
          /\ files.demo.agent \in contracts[files.demo.policyRegistry].agents

\* The key of a recorded agent is never lost: the server starts with every record
\* there is, and can sign for the agent of every record the script has made.
RecordedCanSign ==
    files.demo # None =>
        /\ serverStarts
        /\ files.demo.agent # Shipped => "demoSigner" \in Configured(TRUE)

\* deploy.ts:46-49: the wallet "is deployed and atomically bound", "rather than
\* creating a misleading unbound example wallet".  Between two transactions a
\* script may end.
NoUnboundWalletIsLeft ==
    ~Runs => \A w \in DOMAIN contracts : contracts[w].kind = "wallet" =>
                 \E r \in DOMAIN contracts : contracts[r].bound = w
=============================================================================
