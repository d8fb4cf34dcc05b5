------------------------ MODULE AgentExecutionGuard ------------------------
(***************************************************************************)
(* contracts/AgentExecutionGuard.sol composed with the two registries and  *)
(* the wallets it calls.                                                   *)
(*                                                                         *)
(* An execution has two halves with somebody else's code between them.     *)
(* Begin makes every check, charges the policy, consumes the nonce, draws  *)
(* the value from the wallet and calls the target.  While the target runs, *)
(* contracts may call every operation of every contract, except that the   *)
(* Guard's reentrancy lock refuses a second execution.  Then the call      *)
(* returns and the execution is logged, or it fails and the transaction    *)
(* takes back all that was done since Begin.                               *)
(*                                                                         *)
(* A refused call changes nothing and is not a step.  The operations are   *)
(* called with msg.value 0; line 245 refuses every other call.             *)
(*                                                                         *)
(* The target of a function call may be a wallet.  Called by another       *)
(* wallet it answers its views and refuses the rest.  Called by the Guard  *)
(* itself (line 366), which may be its execution guard, it also executes   *)
(* the call that it finds in the calldata.  Owners are accounts: neither   *)
(* Guards nor wallets own anything, and no wallet guards another.          *)
(***************************************************************************)
EXTENDS AgentRegistry, PolicyRegistry, Sequences

CONSTANTS
    Guard,          \* this contract's address
    Contract,       \* the accounts with code: a call to one runs it
    Submission,     \* the calls of the four entry points that callers make
    WalletExecute,  \* the selector of AgentSmartWallet.execute
    NoApproval,     \* the empty approval signature of execute
    NoFrame,        \* no execution is in progress
    SeqSpan,        \* nonces in one ownership epoch: 2^192
    DayLength,      \* 1 days
    MaxExecutions   \* bound on the length of the log

Day == 0..MaxTime

Approval == [signer : Account, deadline : Nat]

(***************************************************************************)
(* A submission is a signed intent, the owner's approval if there is one,  *)
(* and the path: executeFromWallet and executeWithApprovalFromWallet draw  *)
(* on the wallet, execute and executeWithApproval call the target.         *)
(* signer is the key that signed exactly these fields of the intent.       *)
(* inner is what calldata with the selector WalletExecute asks a wallet to *)
(* call; its own calldata is taken to suit the callee.                     *)
(***************************************************************************)
SubmissionType ==
    [agent : Agent, wallet : Wallet, target : Target, kind : CallKind, value : Nat,
     nonce : Nat, deadline : Nat, policyHash : PolicyHash, signer : Agent \cup Account,
     approval : Approval \cup {NoApproval}, fromWallet : BOOLEAN,
     inner : [to : Target, amount : Nat]]

(***************************************************************************)
(* The storage of the four contracts, and what an execution in progress    *)
(* keeps: its intent and the storage its transaction started from.         *)
(***************************************************************************)
StorageType ==
    [wallets : [Wallet -> WalletRecord], agents : [Agent -> AgentRecord],
     mandates : [PolicyId -> Mandate],
     policyHashOf : [PolicyId -> PolicyHash \cup {NoHash}],
     policyIdOfHash : [PolicyHash -> PolicyId \cup {NoId}],
     authorizedCalls : [PolicyId -> SUBSET (Target \X Selector)],
     authorizedNative : [PolicyId -> SUBSET Target],
     storedNonce : [Agent -> Nat], pausedAgents : [Agent -> BOOLEAN],
     dailySpend : [PolicyHash -> [day : Nat, spent : Nat]]]

Frame == [intent : Submission, saved : StorageType]

ASSUME GuardAssumption ==
    /\ Guard \in GuardAddress \ Account
    /\ Contract \subseteq Account
    /\ Submission \subseteq SubmissionType
    /\ WalletExecute \notin {NativeTransfer, Malformed}
    /\ NoApproval \notin Approval
    /\ NoFrame \notin Frame
    /\ SeqSpan \in Nat \ {0}
    /\ DayLength \in Nat \ {0}
    /\ MaxExecutions \in Nat

VARIABLES
    storedNonce,    \* _nextNonce
    pausedAgents,
    dailySpend,     \* per policy hash, the last day of spending and its total
    frame,          \* the execution in progress, with the state to fall back to
    executed,       \* the IntentExecuted events, with the circumstances of each
    paidOut         \* history: what wallets paid, per policy and UTC day

guardVars == <<storedNonce, pausedAgents, dailySpend>>
logVars == <<executed, paidOut>>
vars == <<now, wallets, agents, policyVars, guardVars, frame, logVars>>

Storage ==
    [wallets |-> wallets, agents |-> agents, mandates |-> mandates,
     policyHashOf |-> policyHashOf, policyIdOfHash |-> policyIdOfHash,
     authorizedCalls |-> authorizedCalls, authorizedNative |-> authorizedNative,
     storedNonce |-> storedNonce, pausedAgents |-> pausedAgents,
     dailySpend |-> dailySpend]

-----------------------------------------------------------------------------
\* A bug that nextNonce does not have: the epoch's base alone, no counter.
nextNonceOfEpoch(a) == ownershipVersion(a) * SeqSpan

\* The stored counter, moved up to the base of the present ownership epoch.
nextNonce(a) ==
    LET epochBase == ownershipVersion(a) * SeqSpan
    IN  IF storedNonce[a] >= epochBase THEN storedNonce[a] ELSE epochBase

\* A bug that SequenceExhausted does not have: the counter runs into the epoch.
NeverExhausted(nonce) == FALSE

\* The low 192 bits are all ones: nonce + 1 would carry into the epoch.
SequenceExhausted(nonce) == nonce % SeqSpan = SeqSpan - 1

today == now \div DayLength

spentToday(h) == IF dailySpend[h].day = today THEN dailySpend[h].spent ELSE 0

AgentMayExecute(i) ==
    /\ ~pausedAgents[i.agent]
    /\ now <= i.deadline
    /\ isActiveAgent(i.agent)

PolicyAllows(i) ==
    checkAuthorization(i.policyHash, i.agent, ownerOf(i.agent), i.target, i.kind, i.value)

\* A bug that WithinDailyLimit does not have: each call is measured alone.
WithinDailyLimitAlone(i) == i.value <= mandateOf(i.policyHash).dailyLimit

\* dailyLimit is a uint128, so the sum's overflow check at line 328 cannot fail.
WithinDailyLimit(i) ==
    spentToday(i.policyHash) + i.value <= mandateOf(i.policyHash).dailyLimit

\* A bug that Approved does not have: who signed the approval is not checked.
ApprovedByAnyone(i) ==
    i.value > mandateOf(i.policyHash).approvalThreshold => i.approval # NoApproval

\* Above the threshold the agent's present owner must have approved in time.
Approved(i) ==
    i.value > mandateOf(i.policyHash).approvalThreshold =>
        /\ i.approval # NoApproval
        /\ i.approval.deadline <= i.deadline
        /\ now <= i.approval.deadline
        /\ i.approval.signer = ownerOf(i.agent)

\* The wallet is the agent's canonical one, held by the agent's own owner.
CanonicalCustody(i) ==
    /\ walletOf(i.agent) = i.wallet
    /\ HasCode(i.wallet)
    /\ wallets[i.wallet].agent = i.agent
    /\ wallets[i.wallet].owner = ownerOf(i.agent)
    /\ i.fromWallet => wallets[i.wallet].executionGuard = Guard

-----------------------------------------------------------------------------
\* The Guard itself calls a wallet, which executes what the calldata says.
Forwards(i) == ~i.fromWallet /\ i.target \in Wallet /\ i.kind = WalletExecute

\* Some wallet pays for the call: which, to whom, and how much.
Draws(i) == i.fromWallet \/ Forwards(i)
Payer(i) == IF i.fromWallet THEN i.wallet ELSE i.target
Callee(i) == IF Forwards(i) THEN i.inner.to ELSE i.target
Outlay(i) == IF Forwards(i) THEN i.inner.amount ELSE i.value

\* A function call of a wallet to a wallet reads one of its views, for nothing.
ReadsOnly(i) ==
    i.fromWallet /\ i.target \in Wallet /\ i.kind # NativeTransfer /\ HasCode(i.target)
        => i.kind # WalletExecute /\ i.value = 0

\* A bug that CallStarts does not have: nobody asks whether the wallet paid.
CallStartsUnpaid(i) == i.fromWallet \/ i.value = 0

\* The outward call can start: only a wallet has value to pay with, and the one
\* that pays takes the Guard for its guard.
CallStarts(i) ==
    /\ i.fromWallet \/ i.value = 0
    /\ ReadsOnly(i)
    /\ Draws(i) => CanExecute(Guard, Payer(i), Callee(i), Outlay(i))

\* Everything _execute checks before it writes, and the exhausted sequence after.
Admissible(i) ==
    /\ AgentMayExecute(i)
    /\ PolicyAllows(i)
    /\ i.nonce = nextNonce(i.agent)
    /\ WithinDailyLimit(i)
    /\ Approved(i)
    /\ i.signer = i.agent
    /\ CanonicalCustody(i)
    /\ ~SequenceExhausted(i.nonce)
    /\ CallStarts(i)

\* The execution up to the target's code, which runs between this and Return.
Begin(i) ==
    /\ frame = NoFrame
    /\ Len(executed) < MaxExecutions
    /\ Admissible(i)
    /\ dailySpend' = [dailySpend EXCEPT ![i.policyHash] =
                         [day |-> today, spent |-> spentToday(i.policyHash) + i.value]]
    /\ storedNonce' = [storedNonce EXCEPT ![i.agent] = i.nonce + 1]
    /\ wallets' = IF Draws(i)
                  THEN [Pay(Payer(i), Callee(i), Outlay(i)) EXCEPT ![Payer(i)].locked = TRUE]
                  ELSE wallets
    /\ frame' = [intent |-> i, saved |-> Storage]
    /\ UNCHANGED <<now, agents, policyVars, pausedAgents, logVars>>

\* What IntentExecuted says, and history: the value, what was paid, the day, and
\* the owner and the epoch under which the checks were made.
Event(i) ==
    LET record == frame.saved.agents[i.agent]
    IN  [agent |-> i.agent, nonce |-> i.nonce, policyHash |-> i.policyHash,
         value |-> i.value, paid |-> Outlay(i), day |-> today,
         owner |-> record.owner, epoch |-> record.ownershipVersion, approval |-> i.approval]

\* The target returned: the wallet's lock opens and the execution is logged.
Return ==
    LET i == frame.intent IN
    /\ frame # NoFrame
    /\ executed' = Append(executed, Event(i))
    /\ paidOut' = [paidOut EXCEPT ![i.policyHash][today] = @ + Outlay(i)]
    /\ wallets' = IF Draws(i) THEN [wallets EXCEPT ![Payer(i)].locked = FALSE]
                              ELSE wallets
    /\ frame' = NoFrame
    /\ UNCHANGED <<now, agents, policyVars, guardVars>>

\* A bug that RestoreGuard does not have: the charge of a failed call stays.
RestoreNonceOnly ==
    /\ storedNonce' = frame.saved.storedNonce
    /\ pausedAgents' = frame.saved.pausedAgents
    /\ UNCHANGED dailySpend

\* A bug that RestoreGuard does not have: a failed call has used up its nonce.
RestoreSpendOnly ==
    /\ dailySpend' = frame.saved.dailySpend
    /\ pausedAgents' = frame.saved.pausedAgents
    /\ UNCHANGED storedNonce

RestoreGuard ==
    /\ storedNonce' = frame.saved.storedNonce
    /\ pausedAgents' = frame.saved.pausedAgents
    /\ dailySpend' = frame.saved.dailySpend

RestoreOthers ==
    /\ wallets' = frame.saved.wallets
    /\ agents' = frame.saved.agents
    /\ mandates' = frame.saved.mandates
    /\ policyHashOf' = frame.saved.policyHashOf
    /\ policyIdOfHash' = frame.saved.policyIdOfHash
    /\ authorizedCalls' = frame.saved.authorizedCalls
    /\ authorizedNative' = frame.saved.authorizedNative

\* A target with code failed: ExecutionFailed takes back the whole call.
Revert ==
    /\ frame # NoFrame
    /\ Callee(frame.intent) \in Contract
    /\ RestoreGuard
    /\ RestoreOthers
    /\ frame' = NoFrame
    /\ UNCHANGED <<now, logVars>>

\* pauseAgent and unpauseAgent ask for the registry's owner and nothing else.
SetPaused(sender, a, paused) ==
    /\ ownerOf(a) = sender
    /\ pausedAgents' = [pausedAgents EXCEPT ![a] = paused]
    /\ UNCHANGED <<now, wallets, agents, policyVars, storedNonce, dailySpend, frame, logVars>>

PauseAgent(sender, a) == SetPaused(sender, a, TRUE)
UnpauseAgent(sender, a) == SetPaused(sender, a, FALSE)

-----------------------------------------------------------------------------
\* Who can call: while an execution waits for a target, contracts it reaches.
Sender ==
    IF frame = NoFrame THEN Account
    ELSE IF Callee(frame.intent) \in Contract THEN Contract ELSE {}

Init ==
    /\ now = 0
    /\ WalletInit
    /\ RegistryInit
    /\ PolicyInit
    /\ storedNonce = [a \in Agent |-> 0]
    /\ pausedAgents = [a \in Agent |-> FALSE]
    /\ dailySpend = [h \in PolicyHash |-> [day |-> 0, spent |-> 0]]
    /\ frame = NoFrame
    /\ executed = <<>>
    /\ paidOut = [h \in PolicyHash |-> [d \in Day |-> 0]]

Execution == (\E i \in Submission : Begin(i)) \/ Return \/ Revert

WalletCall(sender) ==
    /\ sender \in Sender
    /\ WalletStep(sender)
    /\ UNCHANGED <<now, agents, policyVars, guardVars, frame, logVars>>

RegistryCall(sender) ==
    /\ sender \in Sender
    /\ RegistryStep(sender)
    /\ UNCHANGED <<now, wallets, policyVars, guardVars, frame, logVars>>

PolicyCall(sender) ==
    /\ sender \in Sender
    /\ PolicyStep(sender)
    /\ UNCHANGED <<now, wallets, agents, guardVars, frame, logVars>>

PauseCall(sender) ==
    /\ sender \in Sender
    /\ \E a \in Agent : PauseAgent(sender, a) \/ UnpauseAgent(sender, a)

\* Blocks end between transactions.
NextBlock ==
    /\ frame = NoFrame
    /\ Tick
    /\ UNCHANGED <<wallets, agents, policyVars, guardVars, frame, logVars>>

Next ==
    \/ Execution
    \/ \E sender \in Account : \/ WalletCall(sender)
                               \/ RegistryCall(sender)
                               \/ PolicyCall(sender)
                               \/ PauseCall(sender)
    \/ NextBlock

Spec == Init /\ [][Next]_vars

-----------------------------------------------------------------------------
EventType ==
    [agent : Agent, nonce : Nat, policyHash : PolicyHash, value : Nat, paid : Nat,
     day : Nat, owner : Address, epoch : 0..MaxVersion, approval : Approval \cup {NoApproval}]

(***************************************************************************)
(* The storage of the four contracts holds values of its types, so does    *)
(* the state an execution falls back to, and the logged executions.        *)
(***************************************************************************)
TypeOK ==
    /\ now \in 0..MaxTime
    /\ Storage \in StorageType
    /\ frame \in Frame \cup {NoFrame}
    /\ executed \in Seq(EventType)
    /\ paidOut \in [PolicyHash -> [Day -> Nat]]

(***************************************************************************)
(* No replay: an agent's executions carry strictly increasing nonces, so   *)
(* no signed intent is executed twice, whatever the handoffs in between    *)
(* (nextNonce, lines 90-94; _execute, lines 262-264 and 336).              *)
(***************************************************************************)
NoReplay ==
    \A j, k \in DOMAIN executed :
        j < k /\ executed[j].agent = executed[k].agent
            => executed[j].nonce < executed[k].nonce

(***************************************************************************)
(* An execution's nonce belongs to the ownership epoch it was checked in:  *)
(* the sequence of one epoch never runs into the next one's nonces         *)
(* (lines 29-33 and 333-335).                                              *)
(***************************************************************************)
NonceOfItsEpoch ==
    \A k \in DOMAIN executed : executed[k].nonce \div SeqSpan = executed[k].epoch

(***************************************************************************)
(* A nonce is used up by a successful execution and by nothing else:       *)
(* between executions, the nonces of the present epoch below the next one  *)
(* are those in the log (lines 336 and 368, the revert of a failed call).  *)
(***************************************************************************)
NoncesMatchLog ==
    frame = NoFrame => \A a \in Agent :
        {executed[k].nonce : k \in {j \in DOMAIN executed :
            executed[j].agent = a /\ executed[j].epoch = ownershipVersion(a)}}
        = (ownershipVersion(a) * SeqSpan)..(nextNonce(a) - 1)

\* The registry as it would stand if the execution in progress failed.
committedAgents == IF frame = NoFrame THEN agents ELSE frame.saved.agents

\* Of an agent's records, the one that stands now may follow the one that stood.
MayFollow(was, stands) ==
    was.owner # ZeroAddress =>
        /\ stands.owner # ZeroAddress
        /\ stands.ownershipVersion >= was.ownershipVersion
        /\ stands.owner # was.owner => stands.ownershipVersion > was.ownershipVersion
        /\ was.wallet # ZeroAddress => stands.wallet = was.wallet

(***************************************************************************)
(* For everybody outside of a transaction epochs only move forward, and a  *)
(* new owner means a new epoch: not even a target that hands its agent to  *)
(* others and back, in an execution that then fails or not, makes an old   *)
(* epoch, with its signed intents, the present one again                   *)
(* (AgentRegistry.sol, lines 169-195; the Guard's nextNonce, lines 90-94). *)
(***************************************************************************)
CommittedEpochsMoveForward ==
    [][\A a \in Agent : MayFollow(committedAgents[a], committedAgents'[a])]_vars

\* The policy authorizes no call by which a wallet executes calldata, so that its
\* limits are those of all its payments.  createPolicy asks for no such thing.
Bounded(h) == \A w \in Wallet : <<w, WalletExecute>> \notin h.terms.calls

(***************************************************************************)
(* The daily limit: what a bounded policy's executions made wallets pay on *)
(* one UTC day is within the limit its hash commits to, whatever other     *)
(* policies pay (lines 269-276).                                           *)
(***************************************************************************)
DailyCap ==
    \A h \in PolicyHash : Bounded(h) => \A d \in Day : paidOut[h][d] <= h.terms.dailyLimit

(***************************************************************************)
(* Exact accounting: between executions the bucket of a bounded policy     *)
(* holds what wallets paid for it on the bucket's day, and they paid       *)
(* nothing on a later day (lines 269-272, 332 and 368).                    *)
(***************************************************************************)
LedgerExact ==
    frame = NoFrame => \A h \in PolicyHash : Bounded(h) =>
        /\ paidOut[h][dailySpend[h].day] = dailySpend[h].spent
        /\ \A d \in Day : d > dailySpend[h].day => paidOut[h][d] = 0

(***************************************************************************)
(* While a wallet pays for an execution, it pays one amount and nothing    *)
(* else, whatever the callee and the wallet's owner do before the call     *)
(* returns, and also where calldata named wallet and amount                *)
(* (AgentSmartWallet.sol, lines 56-96).                                    *)
(***************************************************************************)
OnePayoutPerCall ==
    frame # NoFrame /\ Draws(frame.intent) =>
        LET w == Payer(frame.intent) IN
        wallets[w].balance >= frame.saved.wallets[w].balance - Outlay(frame.intent)

(***************************************************************************)
(* A payment above the approval threshold of a bounded policy was approved *)
(* by the account that owned agent and policy when the execution started,  *)
(* not by an earlier or a later owner (lines 278-300).                     *)
(***************************************************************************)
LargePaymentsApproved ==
    \A k \in DOMAIN executed :
        LET e == executed[k] IN
        /\ e.owner = e.policyHash.id[1]
        /\ Bounded(e.policyHash) /\ e.paid > e.policyHash.terms.approvalThreshold
               => e.approval # NoApproval /\ e.approval.signer = e.owner

(***************************************************************************)
(* What AgentSmartWallet.sol:64-67 says of the value a wallet pays: the    *)
(* Guard has authorized it before, which includes the policy's maxTxValue  *)
(* (line 259 of the Guard).  It is true of bounded policies.               *)
(***************************************************************************)
PaidWithinMaxTxValue ==
    \A k \in DOMAIN executed : executed[k].paid <= executed[k].policyHash.terms.maxTxValue

(***************************************************************************)
(* What docs/threat-model.md:206-210 says of a handoff: the policies of    *)
(* the old owner never serve again, so that all executions under a policy  *)
(* belong to one ownership epoch.                                          *)
(***************************************************************************)
PolicyServesOneEpoch ==
    \A j, k \in DOMAIN executed :
        executed[j].policyHash = executed[k].policyHash
            => executed[j].epoch = executed[k].epoch
=============================================================================
