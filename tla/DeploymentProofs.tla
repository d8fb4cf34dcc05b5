-------------------------- MODULE DeploymentProofs --------------------------
(***************************************************************************)
(* What a record of deploy.ts or deploy-agent-demo.ts is good for, for     *)
(* every number of keys, runs, interruptions and contracts.                *)
(***************************************************************************)
EXTENDS Deployment, TLAPS

USE DeploymentAssumption

(***************************************************************************)
(* The inductive invariant.  A step the running script is past has         *)
(* happened: a contract it deployed is there, built from what the script   *)
(* had got before, and a call it made has left its mark.                   *)
(***************************************************************************)
Past(step) == \E n \in 1..(running.at - 1) : stepsOf(running.script)[n] = step

Got ==
    [registry : Nat, policyRegistry : Nat, guard : Nat, wallet : Nat,
     agent : Key \cup {None, Shipped}]

ContractRecord ==
    [kind : Deployed, built : Got, agents : SUBSET (Key \cup {None, Shipped}), bound : Nat]

DeploymentTypeOK ==
    /\ contracts \in Seq(ContractRecord)
    /\ running \in [script : {"deploy", "demo", None}, at : Nat, got : Got]
    /\ files \in [demo : Got \cup {None}, deployments : Got \cup {None}, env : Key \cup {None}]
    /\ Runs => running.at \in 1..Len(stepsOf(running.script))

\* The contract at this address is there and of this kind.
IsA(kind, address) ==
    address \in DOMAIN contracts /\ contracts[address].kind = kind

GuardIsBuilt(record) ==
    /\ contracts[record.guard].built.registry = record.registry
    /\ contracts[record.guard].built.policyRegistry = record.policyRegistry

WalletIsBuilt(record) ==
    /\ contracts[record.wallet].built.guard = record.guard
    /\ contracts[record.wallet].built.agent = record.agent

\* What a step that deploys or calls has left of it.
Done(step, record) ==
    /\ step \in Deployed => IsA(step, record[step])
    /\ step = "guard" => GuardIsBuilt(record)
    /\ step = "wallet" => WalletIsBuilt(record)
    /\ step \in {"register", "bind"} => IsA("registry", record.registry)
    /\ step = "policy" => IsA("policyRegistry", record.policyRegistry)
    /\ step = "register" => record.agent \in contracts[record.registry].agents
    /\ step = "bind" => contracts[record.registry].bound = record.wallet
    /\ step = "policy" => record.agent \in contracts[record.policyRegistry].agents

Complete(record) ==
    /\ \A step \in {"registry", "policyRegistry", "guard"} : Done(step, record)
    /\ record.agent # None =>
           \A step \in {"wallet", "register", "bind"} : Done(step, record)

\* The agent the running script works for.
AgentIsKnown ==
    /\ running.script = "deploy" => running.got.agent = GivenAgent
    /\ Past("key") => running.got.agent = files.env /\ files.env # None

InProgress ==
    Runs =>
        /\ \A step \in Deployed \cup Calls : Past(step) => Done(step, running.got)
        /\ AgentIsKnown
        /\ running.script = "demo" => files.demo = None

\* A script never touches the registry of a record that is there already.
RegistryIsNew ==
    Runs /\ Past("registry") =>
        \A record \in {files.demo, files.deployments} \ {None} :
            record.registry # running.got.registry

RecordsComplete ==
    /\ \A record \in {files.demo, files.deployments} \ {None} : Complete(record)
    /\ files.demo # None => Done("policy", files.demo)

\* Nobody has the shipped record's key, and no other is made while it is there.
KeyIsKept ==
    files.demo # None =>
        IF files.demo.agent = Shipped THEN files.env = None
        ELSE files.env # None /\ files.env = files.demo.agent

DeploymentInv ==
    DeploymentTypeOK /\ InProgress /\ RegistryIsNew /\ RecordsComplete /\ KeyIsKept

-----------------------------------------------------------------------------
(* deploy-agent-demo.ts, step by step.                                     *)
LEMMA DemoSteps ==
    /\ Len(demo) = 9
    /\ demo[1] = "key" /\ demo[2] = "registry" /\ demo[3] = "policyRegistry"
    /\ demo[4] = "guard" /\ demo[5] = "wallet" /\ demo[6] = "register"
    /\ demo[7] = "bind" /\ demo[8] = "policy" /\ demo[9] = "record"
BY DEF demo, core

(* deploy.ts, step by step: without an agent it makes no wallet.           *)
LEMMA DeploySteps ==
    /\ Len(deploy) = IF GivenAgent = None THEN 4 ELSE 7
    /\ deploy[1] = "registry" /\ deploy[2] = "policyRegistry" /\ deploy[3] = "guard"
    /\ GivenAgent = None => deploy[4] = "record"
    /\ GivenAgent # None =>
           /\ deploy[4] = "register" /\ deploy[5] = "wallet" /\ deploy[6] = "bind"
           /\ deploy[7] = "record"
BY DEF deploy, core

(* Each step comes once and after the steps whose results it uses, so what *)
(* a past step has used is past, too; the record comes last, after         *)
(* everything it records.                                                  *)
LEMMA StepOrder ==
    ASSUME Runs, running.script \in {"deploy", "demo"},
           running.at \in 1..Len(stepsOf(running.script))
    PROVE  /\ ~Past(Step)
           /\ Step \in Deployed \cup Calls \cup {"key", "record"}
           /\ Step \in {"guard", "register", "bind", "record"} => Past("registry")
           /\ Step \in {"guard", "policy", "record"} => Past("policyRegistry")
           /\ Step \in {"wallet", "record"} => Past("guard")
           /\ Step = "bind" => Past("wallet") /\ Past("register")
           /\ running.script = "demo" /\ Step # "key" => Past("key")
           /\ Step = "record" /\ (running.script = "demo" \/ GivenAgent # None) =>
                  Past("wallet") /\ Past("register") /\ Past("bind")
           /\ Step = "record" /\ running.script = "demo" => Past("policy")
           /\ Past("guard") => Past("registry") /\ Past("policyRegistry")
           /\ Past("wallet") => Past("guard")
           /\ Past("register") => Past("registry")
           /\ Past("bind") => Past("registry") /\ Past("wallet")
           /\ Past("policy") => Past("policyRegistry")
           /\ Step = "key" => running.script = "demo" /\ running.at = 1
           /\ (Step = "record") <=> (running.at = Len(stepsOf(running.script)))
<1>1. CASE running.script = "demo"
  <2>1. stepsOf(running.script) = demo
    BY <1>1 DEF stepsOf
  <2>2. running.at \in 1..9
    BY <2>1, DemoSteps
  <2>3. ASSUME NEW n \in 1..9 PROVE Past(demo[n]) <=> n < running.at
    <3>1. ASSUME NEW m \in 1..9, demo[m] = demo[n] PROVE m = n
      BY <3>1, DemoSteps
    <3> QED BY <2>1, <2>2, <3>1, DemoSteps DEF Past
  <2>4. ASSUME NEW n \in 1..9, demo[n] = Step PROVE n = running.at
    BY <2>1, <2>2, <2>4, DemoSteps DEF Step
  <2>5. ~Past(Step)
    BY <2>1, <2>2, <2>4, DemoSteps DEF Past
  <2>6. \/ running.at = 1 /\ Step = "key"
        \/ running.at = 2 /\ Step = "registry"
        \/ running.at = 3 /\ Step = "policyRegistry"
        \/ running.at = 4 /\ Step = "guard"
        \/ running.at = 5 /\ Step = "wallet"
        \/ running.at = 6 /\ Step = "register"
        \/ running.at = 7 /\ Step = "bind"
        \/ running.at = 8 /\ Step = "policy"
        \/ running.at = 9 /\ Step = "record"
    BY <2>1, <2>2, DemoSteps DEF Step
  <2>7. /\ Past("key") <=> 1 < running.at
        /\ Past("registry") <=> 2 < running.at
        /\ Past("policyRegistry") <=> 3 < running.at
        /\ Past("guard") <=> 4 < running.at
        /\ Past("wallet") <=> 5 < running.at
        /\ Past("register") <=> 6 < running.at
        /\ Past("bind") <=> 7 < running.at
        /\ Past("policy") <=> 8 < running.at
    BY <2>2, <2>3, DemoSteps
  <2>8. /\ Step \in {"guard", "register", "bind", "record"} => Past("registry")
        /\ Step \in {"guard", "policy", "record"} => Past("policyRegistry")
        /\ Step \in {"wallet", "record"} => Past("guard")
        /\ Step = "bind" => Past("wallet") /\ Past("register")
    BY <2>6, <2>7
  <2>9. /\ running.script = "demo" /\ Step # "key" => Past("key")
        /\ Step = "record" /\ (running.script = "demo" \/ GivenAgent # None) =>
               Past("wallet") /\ Past("register") /\ Past("bind")
        /\ Step = "record" /\ running.script = "demo" => Past("policy")
    BY <1>1, <2>6, <2>7
  <2>10. /\ Step \in Deployed \cup Calls \cup {"key", "record"}
         /\ Step = "key" => running.script = "demo" /\ running.at = 1
         /\ (Step = "record") <=> (running.at = Len(stepsOf(running.script)))
    BY <1>1, <2>1, <2>6, DemoSteps DEF Deployed, Calls
  <2>11. /\ Past("guard") => Past("registry") /\ Past("policyRegistry")
         /\ Past("wallet") => Past("guard")
         /\ Past("register") => Past("registry")
         /\ Past("bind") => Past("registry") /\ Past("wallet")
         /\ Past("policy") => Past("policyRegistry")
    BY <2>2, <2>7
  <2> QED BY <2>5, <2>8, <2>9, <2>10, <2>11
<1>2. CASE running.script = "deploy"
  <2>1. stepsOf(running.script) = deploy
    BY <1>2 DEF stepsOf
  <2>2. running.at \in 1..Len(deploy)
    BY <2>1
  <2>3. ASSUME NEW n \in 1..Len(deploy) PROVE Past(deploy[n]) <=> n < running.at
    <3>1. ASSUME NEW m \in 1..Len(deploy), deploy[m] = deploy[n] PROVE m = n
      BY <3>1, DeploySteps
    <3> QED BY <2>1, <2>2, <3>1, DeploySteps DEF Past
  <2>4. ASSUME NEW n \in 1..Len(deploy), deploy[n] = Step PROVE n = running.at
    BY <2>1, <2>2, <2>4, DeploySteps DEF Step
  <2>5. ~Past(Step)
    BY <2>1, <2>2, <2>4, DeploySteps DEF Past
  <2>6. \/ running.at = 1 /\ Step = "registry"
        \/ running.at = 2 /\ Step = "policyRegistry"
        \/ running.at = 3 /\ Step = "guard"
        \/ GivenAgent = None /\ running.at = 4 /\ Step = "record"
        \/ GivenAgent # None /\ running.at = 4 /\ Step = "register"
        \/ GivenAgent # None /\ running.at = 5 /\ Step = "wallet"
        \/ GivenAgent # None /\ running.at = 6 /\ Step = "bind"
        \/ GivenAgent # None /\ running.at = 7 /\ Step = "record"
    BY <2>1, <2>2, DeploySteps DEF Step
  <2>7. /\ Past("registry") <=> 1 < running.at
        /\ Past("policyRegistry") <=> 2 < running.at
        /\ Past("guard") <=> 3 < running.at
        /\ GivenAgent # None =>
               /\ Past("register") <=> 4 < running.at
               /\ Past("wallet") <=> 5 < running.at
               /\ Past("bind") <=> 6 < running.at
    BY <2>2, <2>3, DeploySteps
  <2>12. /\ ~Past("policy")
         /\ GivenAgent = None => ~Past("register") /\ ~Past("wallet") /\ ~Past("bind")
    BY <2>1, <2>2, DeploySteps DEF Past
  <2>8. /\ Step \in {"guard", "register", "bind", "record"} => Past("registry")
        /\ Step \in {"guard", "policy", "record"} => Past("policyRegistry")
        /\ Step \in {"wallet", "record"} => Past("guard")
        /\ Step = "bind" => Past("wallet") /\ Past("register")
    BY <2>6, <2>7
  <2>9. /\ running.script = "demo" /\ Step # "key" => Past("key")
        /\ Step = "record" /\ (running.script = "demo" \/ GivenAgent # None) =>
               Past("wallet") /\ Past("register") /\ Past("bind")
        /\ Step = "record" /\ running.script = "demo" => Past("policy")
    BY <1>2, <2>6, <2>7
  <2>10. /\ Step \in Deployed \cup Calls \cup {"key", "record"}
         /\ Step = "key" => running.script = "demo" /\ running.at = 1
         /\ (Step = "record") <=> (running.at = Len(stepsOf(running.script)))
    BY <1>2, <2>1, <2>6, DeploySteps DEF Deployed, Calls
  <2>11. /\ Past("guard") => Past("registry") /\ Past("policyRegistry")
         /\ Past("wallet") => Past("guard")
         /\ Past("register") => Past("registry")
         /\ Past("bind") => Past("registry") /\ Past("wallet")
         /\ Past("policy") => Past("policyRegistry")
    BY <2>2, <2>7, <2>12
  <2> QED BY <2>5, <2>8, <2>9, <2>10, <2>11
<1> QED BY <1>1, <1>2

(* Proceed ends the script after its record, and goes on after every other *)
(* step, which is then past.                                               *)
LEMMA ProceedAdvances ==
    ASSUME Runs, running.script \in {"deploy", "demo"}, running.at \in Nat,
           running.at \in 1..Len(stepsOf(running.script)),
           running \in [script : {"deploy", "demo", None}, at : Nat, got : Got],
           NEW got \in Got, Proceed(got)
    PROVE  /\ Step = "record" => running' = Ended
           /\ Step # "record" =>
                  /\ running' \in [script : {"deploy", "demo", None}, at : Nat, got : Got]
                  /\ running'.script = running.script
                  /\ running'.at \in 1..Len(stepsOf(running.script))
                  /\ running'.got = got
                  /\ \A step : Past(step)' <=> Past(step) \/ step = Step
<1>1. (Step = "record") <=> (running.at = Len(stepsOf(running.script)))
  BY StepOrder
<1>2. Len(stepsOf(running.script)) \in Nat
  BY DemoSteps, DeploySteps DEF stepsOf
<1>3. CASE Step = "record"
  BY <1>1, <1>2, <1>3 DEF Proceed
<1>4. CASE Step # "record"
  <2>1. running.at < Len(stepsOf(running.script))
    BY <1>1, <1>2, <1>4
  <2>2. running' = [running EXCEPT !.at = @ + 1, !.got = got]
    BY <2>1 DEF Proceed
  <2>3. /\ running' \in [script : {"deploy", "demo", None}, at : Nat, got : Got]
        /\ running'.script = running.script
        /\ running'.at = running.at + 1
        /\ running'.got = got
    <3>1. running = [script |-> running.script, at |-> running.at, got |-> running.got]
      OBVIOUS
    <3>2. running' = [script |-> running.script, at |-> running.at + 1, got |-> got]
      BY <2>2, <3>1
    <3> QED BY <3>2
  <2>4. ASSUME NEW step PROVE Past(step)' <=> Past(step) \/ step = Step
    <3>1. \A n : n \in 1..(running'.at - 1) <=> n \in 1..(running.at - 1) \/ n = running.at
      BY <2>3
    <3> QED BY <2>3, <3>1 DEF Past, Step
  <2> QED BY <1>2, <1>4, <2>1, <2>3, <2>4
<1> QED BY <1>3, <1>4

(* A script that has ended is typed, and says nothing of what is recorded. *)
LEMMA EndedIsTyped ==
    ASSUME running' = Ended
    PROVE  /\ running' \in [script : {"deploy", "demo", None}, at : Nat, got : Got]
           /\ ~Runs'
BY DEF Ended, Nothing, Runs, Got

-----------------------------------------------------------------------------
(* The step uses what is there.                                            *)
LEMMA StepUsesContracts ==
    ASSUME DeploymentInv, Runs
    PROVE  /\ running.script \in {"deploy", "demo"}
           /\ Step \in {"register", "bind"} => IsA("registry", running.got.registry)
           /\ Step = "policy" => IsA("policyRegistry", running.got.policyRegistry)
<1>1. running.script \in {"deploy", "demo"}
  BY DEF DeploymentInv, DeploymentTypeOK, Runs
<1>2. /\ Step \in {"register", "bind"} => Past("registry")
      /\ Step = "policy" => Past("policyRegistry")
  BY <1>1, StepOrder DEF DeploymentInv, DeploymentTypeOK
<1>3. /\ Past("registry") => Done("registry", running.got)
      /\ Past("policyRegistry") => Done("policyRegistry", running.got)
  BY DEF DeploymentInv, InProgress, Deployed
<1>4. /\ Past("registry") => IsA("registry", running.got.registry)
      /\ Past("policyRegistry") => IsA("policyRegistry", running.got.policyRegistry)
  BY <1>3 DEF Done, Deployed
<1> QED BY <1>1, <1>2, <1>4

(* A transaction deploys a contract after all others, or leaves a mark on  *)
(* one of them.                                                            *)
LEMMA EffectOfStep ==
    ASSUME DeploymentInv, Does(Deployed \cup Calls), contracts' = Effect
    PROVE  /\ contracts' \in Seq(ContractRecord)
           /\ Len(contracts') = IF Step \in Deployed THEN Len(contracts) + 1
                                ELSE Len(contracts)
           /\ \A a \in DOMAIN contracts :
                  /\ contracts'[a].kind = contracts[a].kind
                  /\ contracts'[a].built = contracts[a].built
                  /\ contracts[a].agents \subseteq contracts'[a].agents
                  /\ Step # "bind" \/ a # running.got.registry =>
                         contracts'[a].bound = contracts[a].bound
           /\ Step \in Deployed => contracts'[Len(contracts) + 1] = NewContract(Step)
           /\ Step = "register" =>
                  running.got.agent \in contracts'[running.got.registry].agents
           /\ Step = "bind" =>
                  contracts'[running.got.registry].bound = running.got.wallet
           /\ Step = "policy" =>
                  running.got.agent \in contracts'[running.got.policyRegistry].agents
<1> DEFINE got == running.got
<1>1. /\ contracts \in Seq(ContractRecord) /\ got \in Got
      /\ running.script \in {"deploy", "demo"}
  BY StepUsesContracts DEF DeploymentInv, DeploymentTypeOK, Does
<1>2. \A a \in DOMAIN contracts : contracts[a] \in ContractRecord
  BY <1>1
<1>3. CASE Step \in Deployed
  <2>1. contracts' = Append(contracts, NewContract(Step))
    BY <1>3 DEF Effect, Deployed
  <2>2. NewContract(Step) \in ContractRecord
    BY <1>1, <1>3 DEF NewContract, ContractRecord
  <2>3. /\ contracts' \in Seq(ContractRecord) /\ Len(contracts') = Len(contracts) + 1
        /\ \A a \in DOMAIN contracts : contracts'[a] = contracts[a]
        /\ contracts'[Len(contracts) + 1] = NewContract(Step)
    BY <1>1, <2>1, <2>2
  <2> QED BY <1>3, <2>3 DEF Deployed
<1>4. CASE Step = "register"
  <2>1. contracts' = [contracts EXCEPT ![got.registry].agents = @ \cup {got.agent}]
    BY <1>4 DEF Effect, Deployed
  <2>2. got.registry \in DOMAIN contracts /\ contracts[got.registry] \in ContractRecord
    BY <1>2, <1>4, StepUsesContracts DEF IsA, Does
  <2>3. [contracts[got.registry] EXCEPT !.agents = @ \cup {got.agent}] \in ContractRecord
    BY <1>1, <2>2 DEF ContractRecord, Got
  <2>4. contracts' \in Seq(ContractRecord) /\ Len(contracts') = Len(contracts)
    BY <1>1, <2>1, <2>2, <2>3
  <2> HIDE DEF got
  <2>5. \A a \in DOMAIN contracts :
            /\ contracts'[a].kind = contracts[a].kind
            /\ contracts'[a].built = contracts[a].built
            /\ contracts[a].agents \subseteq contracts'[a].agents
            /\ contracts'[a].bound = contracts[a].bound
    BY <1>2, <2>1 DEF ContractRecord
  <2>6. got.agent \in contracts'[got.registry].agents
    BY <2>1, <2>2 DEF ContractRecord
  <2> QED BY <1>4, <2>4, <2>5, <2>6 DEF Deployed, got
<1>5. CASE Step = "policy"
  <2>1. contracts' = [contracts EXCEPT ![got.policyRegistry].agents = @ \cup {got.agent}]
    BY <1>5 DEF Effect, Deployed
  <2>2. /\ got.policyRegistry \in DOMAIN contracts
        /\ contracts[got.policyRegistry] \in ContractRecord
    BY <1>2, <1>5, StepUsesContracts DEF IsA, Does
  <2>3. [contracts[got.policyRegistry] EXCEPT !.agents = @ \cup {got.agent}]
            \in ContractRecord
    BY <1>1, <2>2 DEF ContractRecord, Got
  <2>4. contracts' \in Seq(ContractRecord) /\ Len(contracts') = Len(contracts)
    BY <1>1, <2>1, <2>2, <2>3
  <2> HIDE DEF got
  <2>5. \A a \in DOMAIN contracts :
            /\ contracts'[a].kind = contracts[a].kind
            /\ contracts'[a].built = contracts[a].built
            /\ contracts[a].agents \subseteq contracts'[a].agents
            /\ contracts'[a].bound = contracts[a].bound
    BY <1>2, <2>1 DEF ContractRecord
  <2>6. got.agent \in contracts'[got.policyRegistry].agents
    BY <2>1, <2>2 DEF ContractRecord
  <2> QED BY <1>5, <2>4, <2>5, <2>6 DEF Deployed, got
<1>6. CASE Step = "bind"
  <2>1. contracts' = [contracts EXCEPT ![got.registry].bound = got.wallet]
    BY <1>6 DEF Effect, Deployed
  <2>2. got.registry \in DOMAIN contracts /\ contracts[got.registry] \in ContractRecord
    BY <1>2, <1>6, StepUsesContracts DEF IsA, Does
  <2>3. [contracts[got.registry] EXCEPT !.bound = got.wallet] \in ContractRecord
    BY <1>1, <2>2 DEF ContractRecord, Got
  <2>4. contracts' \in Seq(ContractRecord) /\ Len(contracts') = Len(contracts)
    BY <1>1, <2>1, <2>2, <2>3
  <2> HIDE DEF got
  <2>5. \A a \in DOMAIN contracts :
            /\ contracts'[a].kind = contracts[a].kind
            /\ contracts'[a].built = contracts[a].built
            /\ contracts[a].agents \subseteq contracts'[a].agents
            /\ a # got.registry => contracts'[a].bound = contracts[a].bound
    BY <1>2, <2>1 DEF ContractRecord
  <2>6. contracts'[got.registry].bound = got.wallet
    BY <2>1, <2>2 DEF ContractRecord
  <2> QED BY <1>6, <2>4, <2>5, <2>6 DEF Deployed, got
<1> QED BY <1>3, <1>4, <1>5, <1>6 DEF Does, Calls

(* What a step has left is not undone by another's transaction: only bind, *)
(* of the script's own registry, overwrites anything.                      *)
LEMMA DoneStays ==
    ASSUME DeploymentInv, Does(Deployed \cup Calls), contracts' = Effect,
           NEW step \in Deployed \cup Calls, NEW record, Done(step, record),
           Step = "bind" /\ step = "bind" => record.registry # running.got.registry
    PROVE  Done(step, record)'
<1>1. \A a \in DOMAIN contracts :
          /\ a \in DOMAIN contracts'
          /\ contracts'[a].kind = contracts[a].kind
          /\ contracts'[a].built = contracts[a].built
          /\ contracts[a].agents \subseteq contracts'[a].agents
          /\ Step # "bind" \/ a # running.got.registry =>
                 contracts'[a].bound = contracts[a].bound
  <2>1. /\ contracts \in Seq(ContractRecord) /\ contracts' \in Seq(ContractRecord)
        /\ Len(contracts') = IF Step \in Deployed THEN Len(contracts) + 1 ELSE Len(contracts)
    BY EffectOfStep DEF DeploymentInv, DeploymentTypeOK
  <2>2. DOMAIN contracts \subseteq DOMAIN contracts'
    BY <2>1
  <2> QED BY <2>2, EffectOfStep
<1>2. ASSUME NEW kind, NEW a, IsA(kind, a) PROVE IsA(kind, a)'
  BY <1>1, <1>2 DEF IsA
<1>3. CASE step \in Deployed
  BY <1>1, <1>2, <1>3 DEF Done, Deployed, GuardIsBuilt, WalletIsBuilt, IsA
<1>4. CASE step = "register"
  BY <1>1, <1>2, <1>4 DEF Done, Deployed, IsA
<1>5. CASE step = "bind"
  BY <1>1, <1>2, <1>5 DEF Done, Deployed, IsA
<1>6. CASE step = "policy"
  BY <1>1, <1>2, <1>6 DEF Done, Deployed, IsA
<1> QED BY <1>3, <1>4, <1>5, <1>6 DEF Calls

(* A transaction leaves every record complete.                             *)
LEMMA EffectKeepsRecords ==
    ASSUME DeploymentInv, Does(Deployed \cup Calls), contracts' = Effect, UNCHANGED files
    PROVE  RecordsComplete' /\ KeyIsKept'
<1>1. KeyIsKept'
  BY DEF DeploymentInv, KeyIsKept
<1>2. Step = "bind" => Past("registry")
  BY StepOrder, StepUsesContracts DEF DeploymentInv, DeploymentTypeOK, Does
<1>3. ASSUME NEW record \in {files.demo, files.deployments} \ {None}, NEW step \in Deployed \cup Calls,
             Done(step, record)
      PROVE  Done(step, record)'
  BY <1>2, <1>3, DoneStays DEF DeploymentInv, RegistryIsNew, Does
<1>4. ASSUME NEW record \in {files.demo, files.deployments} \ {None} PROVE Complete(record)'
  <2>1. Complete(record)
    BY DEF DeploymentInv, RecordsComplete
  <2> QED BY <1>3, <2>1 DEF Complete, Deployed, Calls
<1>5. files.demo # None => Done("policy", files.demo)'
  BY <1>3 DEF DeploymentInv, RecordsComplete, Calls
<1> QED BY <1>1, <1>4, <1>5 DEF RecordsComplete

(* What the step itself leaves: the contract at the address it has got, or *)
(* the mark of its call.                                                   *)
LEMMA StepIsDone ==
    ASSUME DeploymentInv, Does(Deployed \cup Calls), contracts' = Effect,
           NEW doing, doing = Step, NEW had, had = running.got, NEW got,
           got = IF doing \in Deployed
                 THEN [had EXCEPT ![doing] = Len(contracts) + 1] ELSE had
    PROVE  /\ got \in Got
           /\ Done(doing, got)'
           /\ \A step \in Deployed \cup Calls : Past(step) => Done(step, got)'
           /\ got.agent = had.agent
<1>1. /\ had \in Got /\ contracts \in Seq(ContractRecord)
      /\ running.script \in {"deploy", "demo"} /\ doing \in Deployed \cup Calls
  BY StepUsesContracts DEF DeploymentInv, DeploymentTypeOK, Does
<1>2. got \in Got /\ got.agent = had.agent
  <2>1. Len(contracts) + 1 \in Nat
    BY <1>1
  <2> QED BY <1>1, <2>1 DEF Got, Deployed
<1>3. \A step \in Deployed \cup Calls : Past(step) => Done(step, had)
  BY DEF DeploymentInv, InProgress, Does
<1>4. ASSUME NEW step \in Deployed \cup Calls, Past(step)
      PROVE  /\ step # doing
             /\ step = "guard" => doing # "registry" /\ doing # "policyRegistry"
             /\ step = "wallet" => doing # "guard"
             /\ step \in {"register", "bind"} => doing # "registry"
             /\ step = "bind" => doing # "wallet"
             /\ step = "policy" => doing # "policyRegistry"
  BY <1>1, <1>4, StepOrder DEF DeploymentInv, DeploymentTypeOK, Does
<1>5. \A f \in {"registry", "policyRegistry", "guard", "wallet", "agent"} :
          f # doing \/ doing \notin Deployed => got[f] = had[f]
  BY <1>1 DEF Got, Deployed
<1>6. ASSUME NEW step \in Deployed \cup Calls, Past(step) PROVE Done(step, got)'
  <2>1. Done(step, had)'
    <3>1. ~(Step = "bind" /\ step = "bind")
      BY <1>4, <1>6
    <3> QED BY <1>3, <1>6, <3>1, DoneStays
  <2>2. /\ step \in Deployed => got[step] = had[step]
        /\ step = "guard" => /\ got.registry = had.registry
                             /\ got.policyRegistry = had.policyRegistry
        /\ step = "wallet" => got.guard = had.guard
        /\ step \in {"register", "bind"} => got.registry = had.registry
        /\ step = "bind" => got.wallet = had.wallet
        /\ step = "policy" => got.policyRegistry = had.policyRegistry
    BY <1>4, <1>5, <1>6 DEF Deployed
  <2> QED BY <1>2, <2>1, <2>2
          DEF Done, Deployed, Calls, IsA, GuardIsBuilt, WalletIsBuilt
<1>7. Done(doing, got)'
  <2>1. CASE doing \in Deployed
    <3>1. /\ got[doing] = Len(contracts) + 1
          /\ contracts' \in Seq(ContractRecord) /\ Len(contracts') = Len(contracts) + 1
          /\ contracts'[Len(contracts) + 1] = NewContract(doing)
      BY <1>1, <2>1, EffectOfStep DEF Got, Deployed
    <3>2. Len(contracts) + 1 \in DOMAIN contracts'
      BY <1>1, <3>1
    <3>3. /\ got[doing] \in DOMAIN contracts'
          /\ contracts'[got[doing]].kind = doing
          /\ contracts'[got[doing]].built = had
      BY <3>1, <3>2 DEF NewContract
    <3>4. CASE doing = "guard"
      BY <1>5, <3>3, <3>4 DEF Done, Deployed, GuardIsBuilt, IsA
    <3>5. CASE doing = "wallet"
      BY <1>5, <3>3, <3>5 DEF Done, Deployed, WalletIsBuilt, IsA
    <3>6. CASE doing \in {"registry", "policyRegistry"}
      BY <3>3, <3>6 DEF Done, Deployed, IsA
    <3> QED BY <2>1, <3>4, <3>5, <3>6 DEF Deployed
  <2>2. CASE doing \notin Deployed
    <3>1. got = had
      BY <2>2
    <3>2. /\ contracts' \in Seq(ContractRecord) /\ Len(contracts') = Len(contracts)
          /\ \A a \in DOMAIN contracts : contracts'[a].kind = contracts[a].kind
          /\ doing = "register" => had.agent \in contracts'[had.registry].agents
          /\ doing = "bind" => contracts'[had.registry].bound = had.wallet
          /\ doing = "policy" => had.agent \in contracts'[had.policyRegistry].agents
      BY <2>2, EffectOfStep
    <3>3. DOMAIN contracts' = DOMAIN contracts
      BY <1>1, <3>2
    <3>4. /\ doing \in {"register", "bind"} => IsA("registry", had.registry)
          /\ doing = "policy" => IsA("policyRegistry", had.policyRegistry)
      BY StepUsesContracts DEF Does
    <3>5. /\ doing \in {"register", "bind"} => IsA("registry", had.registry)'
          /\ doing = "policy" => IsA("policyRegistry", had.policyRegistry)'
      BY <3>2, <3>3, <3>4 DEF IsA
    <3> QED BY <1>1, <2>2, <3>1, <3>2, <3>5 DEF Done, Deployed, Calls
  <2> QED BY <2>1, <2>2
<1> QED BY <1>2, <1>6, <1>7

(* A script that runs on, its step past.                                   *)
LEMMA TransactKeepsInv ==
    ASSUME DeploymentInv, Transact
    PROVE  DeploymentInv'
<1>1. /\ Runs /\ Does(Deployed \cup Calls) /\ contracts' = Effect /\ UNCHANGED files
      /\ running.script \in {"deploy", "demo"} /\ Step # "record" /\ Step # "key"
      /\ DeploymentTypeOK /\ running.at \in 1..Len(stepsOf(running.script))
  BY StepUsesContracts DEF Transact, Does, Deployed, Calls, DeploymentInv, DeploymentTypeOK
<1> DEFINE got == IF Step \in Deployed
                  THEN [running.got EXCEPT ![Step] = Len(contracts) + 1] ELSE running.got
<1>2. PICK doing, had, after : doing = Step /\ had = running.got /\ after = got
  OBVIOUS
<1>3. /\ after \in Got /\ Done(doing, after)' /\ after.agent = had.agent
      /\ \A step \in Deployed \cup Calls : Past(step) => Done(step, after)'
  BY <1>1, <1>2, StepIsDone
<1>4. Proceed(after)
  BY <1>2 DEF Transact
<1> HIDE DEF got
<1>5. /\ running' \in [script : {"deploy", "demo", None}, at : Nat, got : Got]
      /\ running'.script = running.script
      /\ running'.at \in 1..Len(stepsOf(running.script))
      /\ running'.got = after
      /\ \A step : Past(step)' <=> Past(step) \/ step = doing
  BY <1>1, <1>2, <1>3, <1>4, ProceedAdvances DEF DeploymentTypeOK
<1>6. DeploymentTypeOK'
  BY <1>1, <1>5, EffectOfStep DEF DeploymentTypeOK, Runs
<1>7. InProgress'
  <2>1. \A step \in Deployed \cup Calls : Past(step)' => Done(step, after)'
    BY <1>3, <1>5
  <2>2. AgentIsKnown'
    BY <1>1, <1>2, <1>3, <1>5 DEF DeploymentInv, InProgress, AgentIsKnown
  <2>3. running'.script = "demo" => files'.demo = None
    BY <1>1, <1>5 DEF DeploymentInv, InProgress
  <2> QED BY <1>5, <2>1, <2>2, <2>3 DEF InProgress
<1>8. RegistryIsNew'
  <2> SUFFICES ASSUME Past("registry")',
                      NEW record \in {files.demo, files.deployments} \ {None}
               PROVE  record.registry # after.registry
    BY <1>1, <1>5 DEF RegistryIsNew
  <2>1. CASE doing = "registry"
    <3>1. after.registry = Len(contracts) + 1
      BY <1>1, <1>2, <2>1 DEF got, Deployed, DeploymentTypeOK, Got
    <3>2. IsA("registry", record.registry)
      BY DEF DeploymentInv, RecordsComplete, Complete, Done, Deployed
    <3> QED BY <1>1, <3>1, <3>2 DEF IsA, DeploymentTypeOK
  <2>2. CASE doing # "registry"
    <3>1. Past("registry")
      BY <1>5, <2>2
    <3>2. after.registry = had.registry
      BY <1>1, <1>2, <2>2 DEF got, Deployed, DeploymentTypeOK, Got
    <3> QED BY <1>1, <1>2, <3>1, <3>2 DEF DeploymentInv, RegistryIsNew
  <2> QED BY <2>1, <2>2
<1>9. RecordsComplete' /\ KeyIsKept'
  BY <1>1, EffectKeepsRecords
<1> QED BY <1>6, <1>7, <1>8, <1>9 DEF DeploymentInv

(* A step that leaves the contracts alone leaves alone what was done.      *)
LEMMA DoneUnchanged ==
    ASSUME UNCHANGED contracts, NEW step, NEW record
    PROVE  /\ Done(step, record)' <=> Done(step, record)
           /\ Complete(record)' <=> Complete(record)
BY DEF Done, Complete, IsA, GuardIsBuilt, WalletIsBuilt

(* Where no script runs, nothing is in progress.                           *)
LEMMA NothingInProgress ==
    ASSUME ~Runs'
    PROVE  InProgress' /\ RegistryIsNew'
BY DEF InProgress, RegistryIsNew

(* The demo makes its key before anything else, while there is no record   *)
(* of another.                                                             *)
LEMMA MakeKeyKeepsInv ==
    ASSUME DeploymentInv, MakeKey
    PROVE  DeploymentInv'
<1>1. /\ Runs /\ Step = "key" /\ DeploymentTypeOK /\ UNCHANGED contracts
      /\ running.at \in 1..Len(stepsOf(running.script))
  BY DEF MakeKey, Does, DeploymentInv, DeploymentTypeOK
<1>2. /\ running.script \in {"deploy", "demo"} /\ running.script = "demo" /\ running.at = 1
      /\ files.demo = None
  BY <1>1, StepUsesContracts, StepOrder DEF DeploymentInv, InProgress
<1>3. PICK agent \in IF files.env = None THEN Key ELSE {files.env} :
          /\ files' = [files EXCEPT !.env = agent]
          /\ Proceed([running.got EXCEPT !.agent = agent])
  BY DEF MakeKey
<1>4. agent \in Key /\ agent # None
  BY <1>1, <1>3 DEF DeploymentTypeOK
<1> DEFINE got == [running.got EXCEPT !.agent = agent]
<1>5. got \in Got /\ got.agent = agent
  BY <1>1, <1>4 DEF Got, DeploymentTypeOK
<1>6. /\ files'.env = agent /\ files'.demo = files.demo
      /\ files'.deployments = files.deployments
      /\ files' \in [demo : Got \cup {None}, deployments : Got \cup {None}, env : Key \cup {None}]
  BY <1>1, <1>3, <1>4 DEF DeploymentTypeOK
<1> HIDE DEF got
<1>7. /\ running' \in [script : {"deploy", "demo", None}, at : Nat, got : Got]
      /\ running'.script = running.script
      /\ running'.at \in 1..Len(stepsOf(running.script))
      /\ running'.got = got
      /\ \A step : Past(step)' <=> Past(step) \/ step = Step
  BY <1>1, <1>2, <1>3, <1>5, ProceedAdvances DEF DeploymentTypeOK, got
<1>8. \A step : Past(step)' <=> step = "key"
  <2>1. \A n : n \notin 1..(running.at - 1)
    BY <1>2
  <2>2. \A step : ~Past(step)
    BY <2>1 DEF Past
  <2> QED BY <1>1, <1>7, <2>2
<1>9. DeploymentTypeOK'
  BY <1>1, <1>6, <1>7 DEF DeploymentTypeOK
<1>10. InProgress' /\ RegistryIsNew'
  BY <1>2, <1>4, <1>5, <1>6, <1>7, <1>8
     DEF InProgress, RegistryIsNew, AgentIsKnown, Deployed, Calls
<1>11. RecordsComplete' /\ KeyIsKept'
  BY <1>1, <1>2, <1>6, DoneUnchanged DEF DeploymentInv, RecordsComplete, KeyIsKept
<1> QED BY <1>9, <1>10, <1>11 DEF DeploymentInv

(* The record is the last step: everything in it has been done.            *)
LEMMA RecordKeepsInv ==
    ASSUME DeploymentInv, Record
    PROVE  DeploymentInv'
<1>1. /\ Runs /\ Step = "record" /\ DeploymentTypeOK /\ UNCHANGED contracts
      /\ running.at \in 1..Len(stepsOf(running.script))
      /\ running.got \in Got
  BY DEF Record, Does, DeploymentInv, DeploymentTypeOK
<1>2. running.script \in {"deploy", "demo"} /\ Proceed(running.got)
  BY <1>1, StepUsesContracts DEF Record
<1>3. running' = Ended
  BY <1>1, <1>2, ProceedAdvances DEF DeploymentTypeOK
<1>4. /\ running' \in [script : {"deploy", "demo", None}, at : Nat, got : Got] /\ ~Runs'
      /\ InProgress' /\ RegistryIsNew'
  BY <1>3, EndedIsTyped, NothingInProgress
<1>5. PICK got : got = running.got
  OBVIOUS
<1>6. CASE running.script = "demo"
  <2>1. /\ files' = [files EXCEPT !.demo = got] /\ files'.demo = got
        /\ files'.deployments = files.deployments /\ files'.env = files.env
        /\ files' \in [demo : Got \cup {None}, deployments : Got \cup {None},
                       env : Key \cup {None}]
    BY <1>1, <1>5, <1>6 DEF Record, DeploymentTypeOK
  <2>2. \A step \in Deployed \cup Calls : Past(step)
    BY <1>1, <1>2, <1>6, StepOrder DEF Deployed, Calls
  <2>3. \A step \in Deployed \cup Calls : Done(step, got)
    BY <1>1, <1>5, <2>2 DEF DeploymentInv, InProgress
  <2>4. Complete(got) /\ Done("policy", got)
    BY <2>3 DEF Complete, Deployed, Calls
  <2>5. got.agent = files.env /\ files.env # None
    BY <1>1, <1>2, <1>5, <1>6, StepOrder DEF DeploymentInv, InProgress, AgentIsKnown
  <2>6. RecordsComplete'
    BY <1>1, <2>1, <2>4, DoneUnchanged DEF DeploymentInv, RecordsComplete
  <2>7. KeyIsKept'
    BY <1>1, <2>1, <2>5 DEF KeyIsKept, DeploymentTypeOK
  <2> QED BY <1>1, <1>4, <2>1, <2>6, <2>7 DEF DeploymentInv, DeploymentTypeOK
<1>7. CASE running.script = "deploy"
  <2>1. /\ files' = [files EXCEPT !.deployments = got] /\ files'.demo = files.demo
        /\ files'.deployments = got /\ files'.env = files.env
        /\ files' \in [demo : Got \cup {None}, deployments : Got \cup {None},
                       env : Key \cup {None}]
    BY <1>1, <1>5, <1>7 DEF Record, DeploymentTypeOK
  <2>2. /\ Past("registry") /\ Past("policyRegistry") /\ Past("guard")
        /\ GivenAgent # None => Past("wallet") /\ Past("register") /\ Past("bind")
    BY <1>1, <1>2, StepOrder
  <2>3. got.agent = GivenAgent
    BY <1>1, <1>5, <1>7 DEF DeploymentInv, InProgress, AgentIsKnown
  <2>4. Complete(got)
    BY <1>1, <1>5, <2>2, <2>3 DEF DeploymentInv, InProgress, Complete, Deployed, Calls
  <2>5. RecordsComplete'
    BY <1>1, <2>1, <2>4, DoneUnchanged DEF DeploymentInv, RecordsComplete
  <2>6. KeyIsKept'
    BY <2>1 DEF DeploymentInv, KeyIsKept
  <2> QED BY <1>1, <1>4, <2>1, <2>5, <2>6 DEF DeploymentInv, DeploymentTypeOK
<1> QED BY <1>2, <1>6, <1>7

-----------------------------------------------------------------------------
(***************************************************************************)
(* Every state of the scripts: what the running one is past has been done, *)
(* and what the records name is complete, whenever which script ended and  *)
(* whatever transaction came in late.                                      *)
(***************************************************************************)
THEOREM DeploymentIsSafe == Spec => []DeploymentInv
<1>1. Init => DeploymentInv
  <2> SUFFICES ASSUME Init PROVE DeploymentInv
    OBVIOUS
  <2>1. ~Runs /\ running \in [script : {"deploy", "demo", None}, at : Nat, got : Got]
    BY DEF Init, Ended, Nothing, Runs, Got
  <2>2. shippedRecord \in Got
    BY DEF shippedRecord, Got
  <2>3. /\ contracts \in Seq(ContractRecord) /\ DOMAIN contracts = 1..4
        /\ \A a \in 1..4 : contracts[a] = shippedContracts[a]
    <3>1. DOMAIN Nothing = {"registry", "policyRegistry", "guard", "wallet", "agent"}
      BY DEF Nothing
    <3>2. ASSUME NEW fields \in SUBSET {"registry", "policyRegistry", "guard"}
          PROVE  [f \in DOMAIN Nothing |->
                     IF f \in fields \cup {"agent"} THEN shippedRecord[f] ELSE 0] \in Got
      BY <3>1, <2>2 DEF Got
    <3>3. ASSUME NEW kind \in Deployed, NEW built \in Got,
                 NEW ids \in SUBSET {Shipped}, NEW bound \in Nat
          PROVE  ShippedContract(kind, built, ids, bound) \in ContractRecord
      BY DEF ShippedContract, ContractRecord
    <3> DEFINE before(fields) == [f \in DOMAIN Nothing |->
                   IF f \in fields \cup {"agent"} THEN shippedRecord[f] ELSE 0]
               c1 == ShippedContract("registry", before({}), {Shipped}, 4)
               c2 == ShippedContract("policyRegistry", before({"registry"}), {Shipped}, 0)
               c3 == ShippedContract("guard", before({"registry", "policyRegistry"}), {}, 0)
               c4 == ShippedContract("wallet",
                                     before({"registry", "policyRegistry", "guard"}), {}, 0)
    <3>4. contracts = <<c1, c2, c3, c4>>
      BY DEF Init, shippedContracts
    <3>5. \A fields \in SUBSET {"registry", "policyRegistry", "guard"} : before(fields) \in Got
      BY <3>2
    <3> HIDE DEF before
    <3>6. /\ c1 \in ContractRecord /\ c2 \in ContractRecord
          /\ c3 \in ContractRecord /\ c4 \in ContractRecord
      BY <3>3, <3>5 DEF Deployed
    <3> HIDE DEF c1, c2, c3, c4
    <3>7. contracts \in Seq(ContractRecord) /\ DOMAIN contracts = 1..4
      BY <3>4, <3>6
    <3> QED BY <3>7 DEF Init
  <2>4. Complete(shippedRecord) /\ Done("policy", shippedRecord)
    BY <2>3 DEF Complete, Done, IsA, GuardIsBuilt, WalletIsBuilt, shippedRecord,
                shippedContracts, ShippedContract, Deployed, Nothing
  <2>5. DeploymentTypeOK
    BY <2>1, <2>2, <2>3 DEF Init, DeploymentTypeOK
  <2>6. RecordsComplete /\ KeyIsKept
    BY <2>4 DEF Init, RecordsComplete, KeyIsKept, shippedRecord
  <2> QED BY <2>1, <2>5, <2>6 DEF DeploymentInv, InProgress, RegistryIsNew
<1>2. DeploymentInv /\ [Next]_vars => DeploymentInv'
  <2> SUFFICES ASSUME DeploymentInv, [Next]_vars PROVE DeploymentInv'
    OBVIOUS
  <2>0. DeploymentTypeOK
    BY DEF DeploymentInv
  <2>1. ASSUME NEW script \in Script, Start(script) PROVE DeploymentInv'
    <3>1. /\ script \in {"deploy", "demo"} /\ UNCHANGED <<contracts, files>>
          /\ running'.script = script /\ running'.at = 1
          /\ running'.got.agent = IF script = "deploy" THEN GivenAgent ELSE None
          /\ running' \in [script : {"deploy", "demo", None}, at : Nat, got : Got]
          /\ script = "demo" => files.demo = None
      BY <2>1 DEF Start, Nothing, Got
    <3>2. 1 \in 1..Len(stepsOf(script))
      <4>1. Len(demo) \in {4, 7, 9} /\ Len(deploy) \in {4, 7, 9}
        BY DemoSteps, DeploySteps
      <4> QED BY SMTT(30), <4>1 DEF stepsOf
    <3>3. \A step : ~Past(step)'
      BY <3>1 DEF Past
    <3>4. InProgress' /\ RegistryIsNew'
      BY <3>1, <3>3 DEF InProgress, RegistryIsNew, AgentIsKnown
    <3>5. RecordsComplete' /\ KeyIsKept'
      BY <3>1, DoneUnchanged DEF DeploymentInv, RecordsComplete, KeyIsKept
    <3> QED BY <2>0, <3>1, <3>2, <3>4, <3>5 DEF DeploymentInv, DeploymentTypeOK
  <2>2. CASE TransactUnseen
    <3>1. /\ Does(Deployed \cup Calls) /\ contracts' = Effect /\ UNCHANGED files
          /\ running' = Ended
      BY <2>2 DEF TransactUnseen
    <3>2. RecordsComplete' /\ KeyIsKept' /\ contracts' \in Seq(ContractRecord)
      BY <3>1, EffectKeepsRecords, EffectOfStep
    <3> QED BY <2>0, <3>1, <3>2, EndedIsTyped, NothingInProgress
            DEF DeploymentInv, DeploymentTypeOK
  <2>3. CASE End \/ RemoveRecord \/ UNCHANGED vars
    <3>1. CASE End
      <4>1. UNCHANGED <<contracts, files>> /\ running' = Ended
        BY <3>1 DEF End
      <4>2. RecordsComplete' /\ KeyIsKept'
        BY <4>1, DoneUnchanged DEF DeploymentInv, RecordsComplete, KeyIsKept
      <4> QED BY <2>0, <4>1, <4>2, EndedIsTyped, NothingInProgress
              DEF DeploymentInv, DeploymentTypeOK
    <3>2. CASE RemoveRecord
      <4>1. /\ UNCHANGED <<contracts, running>> /\ ~Runs
            /\ files'.demo = None /\ files'.deployments = files.deployments
            /\ files' \in [demo : Got \cup {None}, deployments : Got \cup {None},
                           env : Key \cup {None}]
        BY <2>0, <3>2 DEF RemoveRecord, DeploymentTypeOK
      <4>2. RecordsComplete' /\ KeyIsKept'
        BY <4>1, DoneUnchanged DEF DeploymentInv, RecordsComplete, KeyIsKept
      <4>3. ~Runs'
        BY <4>1 DEF Runs
      <4> QED BY <2>0, <4>1, <4>2, <4>3, NothingInProgress DEF DeploymentInv, DeploymentTypeOK
    <3>3. CASE UNCHANGED vars
      <4>1. UNCHANGED contracts /\ UNCHANGED running /\ UNCHANGED files
        BY <3>3 DEF vars
      <4>2. RecordsComplete' /\ KeyIsKept'
        BY <4>1, DoneUnchanged DEF DeploymentInv, RecordsComplete, KeyIsKept
      <4>3. InProgress' /\ RegistryIsNew'
        BY <4>1, DoneUnchanged
           DEF DeploymentInv, InProgress, RegistryIsNew, AgentIsKnown, Past, Runs
      <4> QED BY <2>0, <4>1, <4>2, <4>3 DEF DeploymentInv, DeploymentTypeOK, Runs
    <3> QED BY <2>3, <3>1, <3>2, <3>3
  <2> QED BY <2>1, <2>2, <2>3, TransactKeepsInv, MakeKeyKeepsInv, RecordKeepsInv DEF Next
<1> QED BY <1>1, <1>2, PTL DEF Spec

(***************************************************************************)
(* deploy.ts and deploy-agent-demo.ts: every record there is names one     *)
(* whole deployment, at every moment and after every interruption.         *)
(***************************************************************************)
THEOREM RecordsAreWhole == Spec => []RecordedIsWhole
<1>1. DeploymentInv => RecordedIsWhole
  <2>1. ASSUME NEW record, Complete(record) PROVE IsWhole(record)
    BY <2>1 DEF Complete, Done, IsWhole, IsA, GuardIsBuilt, WalletIsBuilt, Deployed
  <2>2. ASSUME DeploymentInv
        PROVE  /\ files.deployments # None => Complete(files.deployments)
               /\ files.demo # None => Complete(files.demo) /\ Done("policy", files.demo)
    BY <2>2 DEF DeploymentInv, RecordsComplete
  <2>3. ASSUME NEW record, Done("policy", record)
        PROVE  record.agent \in contracts[record.policyRegistry].agents
    BY <2>3 DEF Done
  <2> QED BY <2>1, <2>2, <2>3 DEF RecordedIsWhole
<1> QED BY <1>1, DeploymentIsSafe, PTL

(***************************************************************************)
(* server.ts on what deploy-agent-demo.ts leaves: it starts with every     *)
(* record there is and can sign for every agent a script has recorded.     *)
(***************************************************************************)
THEOREM RecordsCanBeSigned == Spec => []RecordedCanSign
<1>1. DeploymentInv => RecordedCanSign
  BY DEF DeploymentInv, KeyIsKept, RecordedCanSign, serverStarts, Configured
<1> QED BY <1>1, DeploymentIsSafe, PTL
=============================================================================
