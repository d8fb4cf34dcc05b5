# Agent Guardian in TLA+

A formal model of Agent Guardian: the contracts that decide what an autonomous
agent can do with its owner's funds, and the HTTP API, SDK, intent runtime, risk
engine and deployment scripts around them. It is checked with TLC on small
instances and, in large part, proved with TLAPS for instances of any size. The
modules are translated from the source; where a comment or a document says
something else, the code is what is modelled.

## The system

An *owner* puts funds into a wallet contract and lets an *agent*, an address with
a key (or a contract), move them within *policies*. Four contracts enforce that;
an HTTP API, an SDK and a risk engine off the chain decide which signed intents a
relayer submits.

| Part | State | Operations | Interacts with |
| --- | --- | --- | --- |
| `AgentSmartWallet.sol` | owner, immutable agent and guard, balance, lock | deploy, receive, transferOwnership, recoverNative, recoverERC20, execute | called by Guard and owner; calls the target |
| `AgentRegistry.sol` | per agent: owner, active, guardian, wallet, ownership version | register, deactivate, reactivate, transferAgentOwnership, bindWallet, setRecoveryGuardian, executeRecovery | reads wallets; read by the Guard |
| `PolicyRegistry.sol` | mandates, hash and identifier tables, authorized calls | createPolicy, revokePolicy, reactivatePolicy, checkAuthorization | read by the Guard |
| `AgentExecutionGuard.sol` | nonces, pause flags, daily spend | four execute entry points, pauseAgent, unpauseAgent | calls the three others and the target |
| `api/app.ts`, `api/server.ts`, `runtime/executor.ts` | none of its own, but requests suspended at awaits, and transactions sent | ten routes: assess, prepare, preflight, execute and the demos | risk providers, static calls and transactions to the Guard |
| `sdk/index.ts`, `scripts/agent-sdk-demo.ts` | where a call of guardedExecute stands | prepare, sign, preflight, execute | the API |
| `runtime/intent.ts`, `tool-request.ts` | the server's tool map | resolve, canonicalize, typed data, digest, serialize | API, SDK, the Guard's digest |
| `runtime/risk/*` | none | assess, aggregate, inspect calldata | chain RPC |
| `scripts/deploy.ts`, `deploy-agent-demo.ts` | `.env`, `deployments.json`, `agent-demo.json` | deploy, register, bind, create policy, record | chain; files read by `api/server.ts` |

What is hard about it:

* **Other people's code in the middle.** An execution hands control to its target
  after the writes and before the event. The target may own the agent, the wallet
  and the policy, and may call everything the Guard's lock does not refuse.
* **All or nothing.** A failed target takes back nonce, charge and whatever it did
  itself.
* **A handoff in two transactions.** Wallet and registry have an owner each; the
  wallet moves first, nothing forces the second step, and the wallet's owner can
  move again alone.
* **Epochs.** The high 64 bits of a nonce are the registry's ownership version.
  Intents, approvals, activity, guardians and policies were all made in some epoch
  and are used in a possibly later one.
* **Lazy days.** The daily bucket is reset by the first execution of a UTC day.
* **Slots that are never cleared.** Authorizations of a policy are only ever added.
* **Requests suspended at awaits.** A handler reads a body, asks risk providers,
  calls statically, submits, waits. Between any two of these, other requests, other
  relayers and owners change the nonce, the spending and the account nonce it relies
  on.
* **Outcomes nobody hears of.** A transaction is broadcast and the node's answer is
  lost; the receipt is lost; the server ends; the client gave up and comes again.
* **One intent, three hashes.** The server hashes numbers, the client hashes the
  texts of the typed data, the Guard hashes the arguments that came back as text.
* **Scripts that break off** between two transactions and are run again.

What makes each part correct:

* *Registry and wallets*: authority ends with its epoch, epochs never come back, a
  bound wallet is its agent's own, a handoff moves both owners.
* *Policies*: a hash means one set of terms for ever; an accepted policy is usable.
* *Guard*: no replay, no nonce lost to a failure, one payout per call; under a policy
  that is *bounded*, which means that it authorizes no call of `execute` on a wallet,
  limits per day and approvals above the threshold cover everything wallets pay,
  whatever targets do and whatever other policies allow. All of them together: a
  payment is one atomic step of a *spending mandate*.
* *Risk*: CLEAR needs every provider; a failure never improves a verdict.
* *Intents*: what is signed is what is asked for and what the Guard verifies.
* *API*: what is sent was vetted; ALLOW means paid, BLOCK means never sent.
* *SDK*: a call that is repeated pays once, and every call settles.
* *Deployment*: a record names one whole deployment whose key is not lost.

## Modules

```
Addresses                 accounts, agents, address(0)
 +- AgentSmartWallet      the wallets
 |   +- AgentRegistry     composed with the wallets: CustodySpec
 +- PolicyRegistry        by itself: PolicySpec
RegistryProofs            about both registries and the wallets
AgentExecutionGuard       composes all of them: Spec
 +- GuardProofs           (and RegistryProofs)
SpendingMandate           the abstract promise of the contracts: MandateSpec
 +- GuardImplementation   AgentExecutionGuard implements it (refinement mapping)
     +- GuardImplementationProofs   (and GuardProofs)

RiskAssessment            pure: providers' answers, aggregation, calldata rules
 +- RiskProofs
Intents                   pure: texts, tools, typed data, digests
 +- IntentDesk            composed with RiskAssessment: one request after the other
     +- DeskProofs        (and RiskProofs)
GuardedApi                SpendingMandate and RiskAssessment under concurrent requests
 +- ApiProofs             (and RiskProofs)
 +- GuardedClient         the SDK on top: SdkSpec
     +- ClientProofs      (and ApiProofs)
Deployment                the scripts and the files they leave
 +- DeploymentProofs

MCCustody MCPolicy MCSpending MCHandoff MCRuntime MCApi MCClient MCDeployment
                          instances for TLC
```

The two halves meet in `SpendingMandate`: the contracts are shown to implement it,
and the API is composed with it in place of the contracts. So a property of the API
holds over what targets, reentrant calls and reverts make of nonces and payments,
without them in its state space. The mandate promises a daily limit to the policies in
`Capped` only; the contracts' instance of it puts the bounded ones there. No property
of the API rests on the limit.

**AgentSmartWallet.** `wallets` maps each wallet address to storage and native
balance; the agent is zero exactly where there is no code (the constructor refuses
zero). One operator per function. `recoverNative`, and `execute` when the guard is
an ordinary account, are one step: they write nothing after their outward call, so
what the recipient does in that call has the effect of calls made after it, and
`locked` only ever forbids some of them. `Pay` moves value, to another wallet too,
or to the paying wallet itself.

**AgentRegistry.** `agents` holds `struct Agent` without `metadataHash` and
`registeredAt`, which nothing reads. `Consent` is the set of pairs for which the
agent has signed a registration; anybody may submit it. `activatedIn` and
`guardianFrom` are history: the epoch in which an owner last made the agent active
and last named the guardian; no guard reads them. The version's checked increment
(`+= 1` on a uint64) is the conjunct `ownershipVersion(a) < MaxVersion`: at the top
the call reverts. `bindWallet` accepts any contract that answers `agent()` and
`owner()` as it should at that moment; the model binds `AgentSmartWallet`s, whose agent
is immutable and whose owner only its owner changes.

**PolicyRegistry.** keccak256 is injective: an identifier is `<<owner, salt>>`, a
hash the record of identifier and terms. `CreatePolicy` adds the authorizations to
what the slots hold, as the loops do, so that "they are exactly the terms" is
something to show. `checkAuthorization` is the conjunction of the Guard's six
requirements on its answers.

**AgentExecutionGuard.** A submission is a signed intent, with an approval and a
path. `Begin` is `_execute` to the point where the target's code runs: every check
in `Admissible`, the charge, the nonce, the payment, the wallet's lock; `frame`
remembers the intent and the storage the transaction started from. While `frame` is
set, the accounts with code (`Contract`; if the target has code) may make any call of
`WalletCall`, `RegistryCall`, `PolicyCall`, `PauseCall`, but not `Begin`
(`nonReentrant`). `Return` opens the lock and logs; `Revert` restores all the
storage of the four contracts. Blocks end between transactions only. A refused call
changes nothing and is no step, so the order of the checks, which shows only in the
error, is not kept. `executed` is the event log with the circumstances of each
execution; `paidOut`, what wallets paid per policy and UTC day, is history.

The target of a call may be a wallet. Called by the agent's wallet, another wallet
answers its views and takes transfers, and refuses the rest (`ReadsOnly`). Called by the
Guard itself, on the path without wallet, it executes what calldata says, if the Guard
is its execution guard (`Forwards`): `inner` is that calldata, and `Payer`, `Callee` and
`Outlay` say which wallet then pays whom how much. The intent's value is 0 there, so
that the policy's `maxTxValue`, `dailyLimit` and `approvalThreshold` are compared with
0 and not with the outlay. A policy does this only if its owner has put `execute` on a
wallet among its calls; `createPolicy` refuses just the zero address as a target. The
properties about limits are therefore stated of what wallets *paid*, for policies that
are `Bounded`, in a system in which others are not; `PaidWithinMaxTxValue`, which makes
no such difference, fails, and is one of the findings. Owners are accounts: neither the
Guard nor a wallet owns an agent or a wallet, and no wallet is the execution guard of
another.

**SpendingMandate.** Per agent the next free nonce, the list of payments, per policy
and day the sum moved. Three steps: a payment, which is within the day's limit if its
policy is `Capped`, a handoff that skips nonces, a new day. **GuardImplementation** maps the contracts to it. Between the halves of an
execution the world outside still sees the storage the transaction started from, so
the free nonces are computed from that *committed* storage; the step that is a
payment is `Return`, and `Begin`, `Revert` and all other calls are handoffs or
stutter.

**RiskAssessment.** The functions of `runtime/risk` as operators. An answer is a
status, a score and a confidence that may be no finite number or out of range, a
degraded flag, or `Thrown`. Calldata is what `inspectCalldataRisk` distinguishes; an
inspection throws in the middle if the spender is no address ethers accepts.

**Intents.** Everything arrives as text. `getAddress`, `BigInt`, `toString` and
`getBytes` are partial functions, undefined where ethers or JavaScript throw, with
their laws as `TextAssumption`; digests are injective. A tool name is a sequence of
the parts between its colons, so that the key `tool:action` is a concatenation and
different tools can have the same key, as in `createCwfApiHandler`. **IntentDesk**
runs a request through parsing, resolution, typed data, the SDK's signing and
serialisation, the parsing of the execute route and the Guard's digest, and asks the
risk providers.

**GuardedApi.** A handler is the list of its awaits, each with what is answered if it
fails; one step is one settled await with everything up to the next, because Node
runs a handler without interruption in between. `exchange` holds per connection the
request, where it is suspended and what it has found out (risk answers, the intent
called statically, nonces read, its transaction). `sent` holds the relayer's
transactions, each with what was known of it when it was sent: history that no guard
reads. `Submit` may be refused, go well, or broadcast and lose its answer. `Mine`
lets the chain decide in any order: mined, reverted, or replaced by another
transaction of the same key. `WaitFails` is a receipt that is lost. `Elsewhere` is
any step of the mandate by others. `Crash` forgets all requests and no transaction.
One mandate stands behind all routes. In the server the demo routes use the Guard of
`agent-demo.json` (`api/server.ts:38`), the others that of `CWF_GUARD_ADDRESS` or of the
benchmark's file (lines 14 and 27); these are different contracts unless the operator
makes them one. No property compares what two routes read or pay, and with one contract
the routes can disturb each other more than with two.

**GuardedClient.** `guardedExecute` step by step over connections of the API:
prepare, sign, preflight, execute, return or throw; `GiveUp` abandons a request the
server goes on with; `Retry` is the caller's, with the same tool request. `Tamper` is
the last part of `agent-sdk-demo.ts`. (Its preflight of the changed intent is refused
for two reasons: the signature, and the nonce, which the execution before it has
used up.)

**Deployment.** Both scripts as lists of awaited transactions. `TransactUnseen` is a
transaction mined after its script ended. Contracts remember the addresses their
constructors got, the registry whom it registered and bound. `serverStarts` and
`Configured` are what `api/server.ts` makes of the files. `Record` writes at once;
`writeFileSync` empties the file first, and a script that is killed right there leaves
an empty or cut-off record. Every reader of it (the next run, `api/server.ts:35`) then
stops in `JSON.parse` until somebody removes the file.

Which operator stands for which lines is the `map` of `PROJECT.json`.

## Runs

| Run | What it asks | Instance |
| --- | --- | --- |
| custody | registry and wallets alone: the four custody properties | 2 owners, 2 agents, 2 wallets (symmetric), versions 0 to 2, balance 0 to 1 |
| policy | policy registry alone | 2 owners, 2 salts, 8 argument lists, time 0 to 3 |
| spending | limits, accounting, payouts, approvals; do the contracts implement the mandate when value moves? | 1 agent, 1 wallet, an account and a contract that gets every payment and may be the first or the second owner, per owner a bounded policy and one that authorizes `execute` on the wallet, 2 ownership epochs, 2 days, values 0 to 2, 2 executions: 98,528 states |
| handoff | nonces and epochs; does an epoch ever come back? do the contracts implement the mandate? | 1 agent going between an account and a contract that is also the target, versions 0 to 2, 3 nonces per epoch, 4 executions |
| runtime | is what is signed what was asked for and what verifies? what does risk clear? | 3 tools of which two share a key, addresses in two spellings, amounts from blank to too large, 2 providers with every answer, all calldata and node views: 38,996 states |
| api | is what is sent vetted, ALLOW paid, BLOCK unsent? | 2 connections, one for execute and one for all other routes, nonces 0 to 1, days 0 to 1, values 0 to 1 under a limit of 1, 2 transactions: 503,772 states |
| sdk | once-only payment, what clients are told, liveness | 1 client with 2 tries, 2 connections, nonces 0 to 2, 2 transactions: 59,529 states |
| deployment | what do broken-off and repeated deployments leave? | both scripts, 2 keys, the shipped 4 contracts and 9 more: 158,208 states |
| policy_revival | is a policy ever used in two epochs? (the documents say no) | as handoff |
| wallet_call | does a wallet ever pay more than a policy's `maxTxValue`? (a comment says that the Guard authorized every value) | as spending, unbounded policies only, 1 epoch, 1 execution |
| nonce_report | is the nonce unchanged between the security demo's two readings? (the README says so) | as api, nonces 0 to 2 |
| unbound_wallet | is a wallet ever left unbound? (a comment says never) | as deployment |

The properties:

* `AuthorityOfThisEpoch` — an active agent was activated, and a guardian named, in
  the present epoch. Every path to a new epoch has to clear both, and no later call
  of the old owner or guardian may set them.
* `CanonicalWallet` — a bound wallet is deployed, belongs to its agent, and is bound
  to no other.
* `EpochsMoveForward` — owner and version change together, by one; a binding stays.
* `HandoffKeepsCustody` — the step to a new epoch leaves the wallet with the new
  owner; afterwards only the wallet's own step can part them. It can: the wallet's owner
  may call `transferOwnership` without the registry, so that "can never diverge after
  this function returns" (`AgentRegistry.sol:176-178`) is true of the function and not
  of what follows it. The Guard compares the two owners at every execution.
* `HashCommitsToTerms`, `ActivePolicyIsUsable` — a resolved hash leads to exactly the
  terms under it; an active policy inside its window authorizes some call, of real
  value if it is a native transfer. (`createPolicy` refuses native targets with
  `maxTxValue` 0. It does not refuse them with `dailyLimit` 0, which makes the
  transfer just as impossible; the check it makes is the one the property is about.)
* `DailyCap`, `LedgerExact` — per bounded policy and UTC day wallets paid at most the
  limit; buckets are exactly what they paid.
* `LargePaymentsApproved` — every execution is under a policy of the agent's owner; and
  where wallets paid more than the threshold under a bounded policy's hash, there is an
  approval by that owner, as of the epoch in which the execution started: in the run the
  first owner's approvals are still around when the second owner has the agent.
* `OnePayoutPerCall` — during a call the wallet that pays, the agent's or one that
  calldata names, is short of one amount at most.
* `NoReplay`, `NonceOfItsEpoch`, `NoncesMatchLog` — nonces strictly increase per agent,
  belong to the epoch of their execution, and none of the present epoch is used up
  without an entry in the log.
* `CommittedEpochsMoveForward` — between transactions an agent's version never falls,
  its owner changes only together with it, and its wallet stays, although a revert sets
  the registry back; `committedAgents` is the registry as it would stand if the running
  execution failed.
* `KeepsPromise` — the specification of the mandate, under the refinement mapping: in
  `handoff` for nonces and epochs, in `spending` for payments of value and limits.
* `ResolvedAsRequested` — a prepared intent is that of the very tool and action asked
  for, in every field: agent, wallet, target, calldata, policy hash, and the numbers the
  texts stood for; and the message to sign and the digest are of this intent. The key of
  the tool map does not ensure this; `resolveToolRequest` does.
* `PreparedIntentVerifies` — what the client signs, what the server told as digest and
  what the Guard hashes of the arguments are the same, in whatever spelling the fields
  were given; and a prepared intent is never refused on its way back.
* `ClearIsUnanimous` — CLEAR needs a provider and a usable, undegraded CLEAR of all.
* `GrantsAreReviewed` — an unlimited approval is never CLEAR, though `getAddress` may
  throw in the middle of finding it.
* `SubmittedWasVetted` — each transaction sent was called statically as it was sent
  and as it was signed, after every provider gave a usable clear answer.
* `AllowIsPaid` — an answer that reports an execution is about one mined transaction
  and one payment of that very intent, which no other answer reports.
* `BlockMeansUnsent` — BLOCK from any route but demo/execute: nothing was sent.
* `PaidOncePerRequest` — for one tool request at most one transaction is mined.
* `ReturnedAllowIsPaid`, `BlockedAtOnceIsUnsent` — the same two seen by the caller of
  guardedExecute. The second is about a first call whose request no other client has
  made, too (`Unshared`): a repeated one may be refused because the call before it,
  given up, was executed after all, and one of two clients that ask for the same call
  under the same nonce because the other's was. That is how the code is, and a caller
  who reads BLOCK after a retry must not conclude that nothing was paid. The run has
  one client and its repeated calls, for which `Unshared` is no restriction.
* `CallsSettle`, `RequestsSettle` — liveness: no client and no request waits for ever.
* `RecordedIsWhole`, `RecordedCanSign` — a record in a file names a guard over its
  registries and a wallet under this guard, bound and registered for the agent, whose
  key is in `.env`; the server starts with it.

The bounds, and why they are enough to make the interesting cases happen:
`MaxVersion` 2 gives two handoffs, hence a round trip A, B, A, and the refused third
one; in `spending` it is 1, which gives an earlier and a later owner, each with policies
and approvals. `SeqSpan` 3 stands for 2^192: two usable nonces and the one that is
refused, and `handoff` can exhaust an epoch and go on in the next. `DayLength` 1 and
`MaxTime` 1 make two days, so that a bucket is full on one and empty on the next; with
two executions both can fall on one day, or one on each. Values 0 to 2 with limit 2 and
threshold 1 make one execution that needs approval and pairs that hit the limit or
exceed it. The unbounded policy's limits are 0 while its calls pay 2. `MaxBalance` 2 lets a second payout be possible if
something allowed it, and lets a wallet be too poor. `MaxExecutions` bounds the log;
it stops new executions, not other calls.

Off the chain: two connections are enough for every interleaving of two requests; in
`api` one may execute again and again while the other runs any other route, also
through a crash. `MaxSent` 2 lets two requests race for one nonce, both after a good
preflight; a limit of 1 on each of two days lets a payment exceed it and become
possible again. Two nonces let one be used up; `nonce_report` and `sdk` have a third,
to move on between two readings, or for a handoff between two tries. In `runtime` two
providers tell "all" from "any", numbers up to 3 stand for 256 bits, and -1 and 4 lie
outside. `MaxContracts` 13 is the shipped demo, two whole deployments and one contract
of one that broke off; `End` and `TransactUnseen` can break off any of them anywhere.

**Fairness.** Nothing in the contracts acts by itself, and no owner, agent or relayer
has to submit anything: the contracts have no fairness and no liveness property. The
server has: `SdkFairness` is weak fairness of each client's reaction to an answer
(a resolved promise), of each served await (Node settles bodies and sockets, ethers
settles calls of the node; both have timeouts, after which the await has failed) and
of each broadcast transaction's fate (the chain mines it, or its account nonce goes to
another). Nothing has to fail, to be given up or to be tried again. `tx.wait()` has no
timeout: that `RequestsSettle` holds rests on ethers noticing a replaced transaction,
and its mutant, which polls for the receipt of its own hash, waits for ever.

Deadlock is checked in every run.

Four runs find what documents of the repository deny (`findings` in `PROJECT.json`):

* `docs/threat-model.md:206-210` calls the policies of a former owner permanently
  unusable. The Guard compares owners, not epochs, so they work again when the agent
  returns to that owner.
* `AgentSmartWallet.sol:64-67` says that the Guard has authorized the `value` a wallet
  pays before it ever calls the wallet. Where a policy authorizes `execute` on a wallet
  as a function call, the Guard's call at `AgentExecutionGuard.sol:366` makes the wallet
  pay what calldata says, and no limit of the policy was compared with it.
* `README.md:186` says the demo verifies that the Guardian nonce is unchanged after the
  tampered attempt. `api/app.ts:315` reports the comparison and answers ok either way;
  somebody else's execution in between makes the nonces differ.
* `scripts/deploy.ts:44-49` calls deployment and binding of the wallet atomic. They are
  two transactions (lines 90-100), and a script that ends in between leaves a wallet
  that nobody has bound. It is not recorded, so `RecordedIsWhole` holds.

## What is proved

`tlapm` checks every theorem below for any sets of accounts, agents, wallets, targets,
policies, submissions, texts, tools, providers, connections and clients, and any
bounds, from the named assumptions on the constants: address sets that should be
disjoint are, the empty markers are none of the values they stand next to, numbers are
numbers, and the functions of ethers and JavaScript obey `TextAssumption`.

| Theorem | States | Argument |
| --- | --- | --- |
| `CustodyTypes` | `CustodySpec => []CustodyTypeOK` | inductive by itself; `PayType` for the balances |
| `AuthorityEndsWithEpoch` | `[]AuthorityOfThisEpoch` | inductive with the types |
| `WalletIsCanonical` | `[]CanonicalWallet` | agent of a wallet with code never changes (`WalletAgentStays`) |
| `EpochsOnlyForward`, `HandoffsKeepCustody` | the two action properties | step lemma `RegistryStepEpoch` |
| `PolicyTypes`, `HashesCommit`, `PoliciesAreUsable` | `PolicySpec => []` the three policy properties | `PolicyInv`: the terms under a known hash are well formed, and a free identifier's slots are empty |
| `GuardTypes` | `Spec => []TypeOK` | the storage in `frame.saved` is typed, which carries `Revert` |
| `NoReplayEver` | `[]NoReplay` | `NonceInv`: every logged nonce is below the *committed* counter, and during an execution the live counters differ from the saved ones by the one nonce consumed |
| `SpendingIsAccounted`, `DailyCapHolds`, `LedgerIsExact` | `[]SpendInv`, `[]DailyCap`, `[]LedgerExact`, for bounded policies beside unbounded ones | see below |
| `LargePaymentsAreApproved` | `[]LargePaymentsApproved` | `ApprovalInv` says of a running execution what the property says of a logged one |
| `OnePayout` | `[]OnePayoutPerCall` | `PayoutInv`: the paying wallet has code and is locked; `LockedWalletKeeps` |
| `AuthorityUnderExecution`, `CanonicalUnderExecution`, `PoliciesUnderExecution` | `Spec => []` the registries' invariants, under the Guard | each holds of the storage an execution falls back to as well; see below |
| `ContractsKeepPromise` | `Spec => KeepsPromise` | every step maps to a step of the mandate or none; see below |
| `NoncesStayInEpoch`, `UsedNoncesAreLogged` | `[]NonceOfItsEpoch`, `[]NoncesMatchLog` | `LogInv`; see below |
| `CommittedEpochsOnlyForward` | `Spec => CommittedEpochsMoveForward` | `AheadInv`: what a running execution has made of a record may follow the record its failure would bring back (`MayFollow`, which composes) |
| `ClearNeedsAll`, `AssessmentsAreUnanimous`, `UnlimitedGrantsAreReviewed` | `assessRisk` and `[]` the two risk properties | what is stored is what `assessRisk` made of the answers |
| `RequestsResolve`, `SignaturesVerify` | `[]ResolvedAsRequested`, `[]PreparedIntentVerifies` | `FlowInv`; see below |
| `TypeCorrect`, `OnlyVettedIsSent`, `AllowMeansPaid`, `BlockedIsUnsent` | `[]` the four API properties | `ApiInv`; see below |
| `RepeatedCallsPayOnce`, `ClientsAreGuarded` | `SdkSpec => []PaidOncePerRequest`, and the API's promises under `SdkSpec` | `SdkInv`; see below |
| `ReturnedAllowMeansPaid`, `BlockedAtOnceSentNothing` | `SdkSpec => []ReturnedAllowIsPaid`, `[]BlockedAtOnceIsUnsent` | `LinkInv`; see below |
| `SdkIsAClient` | `SdkSpec => Spec` of an API that is open to every body | step by step, with `SdkInv` for what a posted body is |
| `DeploymentIsSafe`, `RecordsAreWhole`, `RecordsCanBeSigned` | `Spec => []DeploymentInv`, `[]RecordedIsWhole`, `[]RecordedCanSign` | see below |

`DailyCap` is not inductive. It speaks of `paidOut`, which an execution changes when
it returns, and of the limit under the hash, while the Guard compares a bucket with
the limit of a stored mandate when the execution begins; and a failed execution puts
back a storage of earlier. `SpendInv` therefore says more: between executions a bucket's
day is not in the future, and a bounded policy's bucket equals what wallets paid for it
on that day, with nothing paid on later ones (`Ledger`); during an execution the live
buckets are the saved ones with the intent's value added, within the limit, and under a
bounded policy that value is the outlay (`Charging`). Then `Begin` establishes the last
part, `Return` turns it into the first ones for the new totals, `Revert` falls back to
the saved ones, and the calls in between touch no bucket. Two lemmas carry `Begin`:
`AdmissibleMeans` reads owner, limit and threshold of the stored mandate off the hash,
from `CommitmentInv` (below); `BoundedPaysValue` shows that an admissible call under a
bounded policy does not make a wallet execute calldata, since what is authorized is what
the terms under the hash say. So the restriction to bounded policies is a statement about
terms that anybody can read, and not an assumption about what targets do.

The refinement needs, besides `SpendInv`, that free nonces never come back: `EpochInv`
says that only registered agents have left version 0 (so registering takes no version
back), that versions only grow while a target runs, and that a running execution
carries the nonce that was free when it began. `Return` is then a payment: its outlay
fits the day's total by `SpendInv` if the policy is bounded, its nonce is the mandate's free one, and the
counter behind it, in whatever epoch the target has left the agent, is higher.

For the last two nonce properties a counter must never reach the base of the next
epoch, or a handoff would find nonces used up that no execution used. `LogInv` has this
for the committed counters and for the nonce in use (whose sequence is not all ones,
or `Begin` would have refused), and that every nonce a committed counter has passed in
its epoch is in the log. An epoch that begins, begins beyond every counter.

The registries' own invariants are proved twice: under `CustodySpec` and `PolicySpec`,
where accounts call them in any order, and under the composed `Spec`, where a target
calls them in the middle of an execution that may then fail. `Revert` brings back a
storage of earlier, so that an invariant of the live storage alone is not inductive:
`AuthorityInv`, `CanonicalInv` and `CommitmentInv` state it of `frame.saved` too, by an
instance of the registry's module over the saved storage. The calls in between are
covered by the step lemmas of `RegistryProofs`; what is new is that `Begin` and
`Return`, which pay, leave every wallet its agent (`ExecutionKeepsAgents`).

`FlowInv` says that behind every prepared, posted and submitted request there is one
signable intent of which everything stored there was made. Then the three hashes agree
because numbers survive text (`BigInt[toString[n]] = n`), checksummed addresses are
fixed points, and `resolveToolRequest` checked what the Guard's encoding needs.

`ApiInv` says that how far a handler has come tells what it has found out: past the
second await of a route that sends, all providers have cleared; past the third, the
intent was called statically; past the fourth it has a transaction, past the fifth
that transaction is mined; no two requests have the same transaction; every mined one
has its payment. The lemmas `OrderOfRoutes` and `RolesOfAwaits` read this order off
the ten handlers, and one lemma per action (`AskRiskOK`, `SubmitOK`, `MineOK`, ...)
shows that it is kept; `Crash` keeps it because it forgets only requests.

`PaidOncePerRequest` follows from `MinedOnce`: mined transactions of one agent have
nonces of their own, all below the free one. So repeating is safe because the nonce is
part of the tool request, and not because of anything the server remembers.

For the other two, what a caller reads from a result has to be tied to the request on
its connection and to the transactions behind it. `LinkInv` does so:

* `BodiesOK`: what a handler serves and reports is what was posted (a handler answers
  ok or ALLOW only after it has read the body: `UnreadIsRefused`);
* `Apart`: no two clients are on one connection, though abandoned requests may live on
  others;
* `StateOK`, `WaitingOK`: the prepared intent a client signs is the one it asked for,
  and its connection has its request, on the route of its stage, or has been lost; the
  tampered body is not what was signed, so its preflight is never answered ALLOW;
* `PaidFor`: after ALLOW one of the transactions for the request is mined, by what
  `ApiInv` says of an execute that answers ALLOW;
* `Origins`: nothing is served or sent that no client asked for;
* `OnceOK`: as long as a client is in its first call and no other client has the same
  request, only its own connection serves that request, and nothing has been sent for it
  but the one transaction of its execute. This is what fails after a retry.

TLC found, before the proof, that the property itself does not hold for two clients with
the same call and the same nonce; hence `Unshared`.

`SdkIsAClient` closes the stack. The contracts implement the mandate
(`ContractsKeepPromise`), the API's steps are composed with the mandate's, and the SDK
over the API is one of the clients that the API's theorems are about.

`DeploymentInv` says that a step which the running script is past has left its mark
(`Done`): a contract of the right kind at the noted address, built from the addresses
noted before it, a registration, a binding. A record is written in the last step, so it
is complete; and it stays so because a script runs over registries of its own
(`RegistryIsNew`), so that no later `bind` can rebind what a record names. `KeyIsKept`
is the part about `.env`: the demo makes a key only while there is no record of it.

Only model-checked: `CallsSettle` and `RequestsSettle`, since liveness under fairness is
out of the prover's reach, as is ENABLED. Every safety property and every action
property of a passing run is a theorem. What a recursive definition computes for every input
cannot be proved here: of `assessRisk` the status is, its mean confidence is not.

## What is not modelled

* Contracts other than `AgentSmartWallet` as bound wallets; wallets or Guards that own
  agents or wallets, and a wallet as another wallet's execution guard.
* A contract agent or owner whose ERC-1271 answer changes: a signature is a fact here,
  so that refusals are missing and acceptances are not.
* A kill in the middle of writing a record file, and two Guards behind one server; both
  described above, with the modules.
* `recoverERC20` and token balances: they are storage of the token.
* Gas. A transaction that runs out of it changes nothing, like any refused call.
* Width of value fields. `value <= maxTxValue`, a uint128, precedes the narrowing cast
  at `AgentExecutionGuard.sol:273`, and the sum is compared with a uint128 limit before
  the overflow check at line 328, which therefore never fires.
* `executeWithApproval` with an approval: on that path a value above zero is refused,
  and a threshold is never below zero, so the approval is never looked at.
* The pause flag belongs to the agent and not to an epoch: it stays over a handoff.
  That is what the code does and what the model does; no property is about it.
* demo/execute has one try around everything and answers BLOCK when only its receipt
  was lost. The model does the same; `BlockMeansUnsent` leaves the route out.
* Signals, texts of reasons, the mean confidence's rounding, `/health`, the benchmark
  route and static files: nothing is decided by them. A body that is too long is an
  error whose answer nobody receives.
* Signing keys and the strength of hashes: digests are injective, a signature is what
  was signed.
* Contract interfaces and test doubles (declarations, and targets that the model's
  targets include), demos and benchmarks (straight-line scripts on a chain of their
  own), the dashboard (a display).

## Plan

Done: the contracts, alone and composed, the mandate and the refinement, risk, intents,
API, SDK and deployment, with the theorems above. What would come next:

1. Contracts that only look like wallets behind `bindWallet`, whose agent and owner
   change between the Guard's checks and its call; contract signers that change their
   mind; ownership held by wallets and Guards.
2. What becomes of `HandoffKeepsCustody` under the composed `Spec`: a target that gets
   the agent in an execution may pass the wallet on before the execution ends, so that
   between transactions only a weaker statement can hold.

## Running it

```
for m in Custody Policy Spending Handoff Runtime Api Client Deployment; do
    tlc -workers 2 -config MC$m.cfg MC$m
done
tlc -workers 2 -config MCPolicyRevival.cfg MCHandoff          (finds a violation)
tlc -workers 2 -config MCWalletCall.cfg MCSpending            (finds a violation)
tlc -workers 2 -config MCNonceReport.cfg MCApi                (finds a violation)
tlc -workers 2 -config MCUnboundWallet.cfg MCDeployment       (finds a violation)
for m in Registry Guard GuardImplementation Risk Desk Api Client Deployment; do
    tlapm ${m}Proofs.tla
done
```
