--------------------------- MODULE AgentRegistry ---------------------------
(***************************************************************************)
(* contracts/AgentRegistry.sol: who owns an agent, whether it is active,   *)
(* its canonical wallet, its recovery guardian and its ownership epoch.    *)
(*                                                                         *)
(* The registry reads the wallets and never writes them: handing an agent  *)
(* over takes two transactions to two contracts, custody first.            *)
(***************************************************************************)
EXTENDS AgentSmartWallet

CONSTANTS
    Consent,       \* pairs <<agent, owner>>: registrations the agents signed
    Guardian,      \* addresses owners name as recovery guardians
    MaxVersion     \* largest value of the uint64 ownershipVersion

ASSUME RegistryAssumption ==
    /\ Consent \subseteq Agent \X Account
    /\ Guardian \subseteq Account
    /\ MaxVersion \in Nat

VARIABLE agents    \* AgentRegistry._agents

(***************************************************************************)
(* The fields of struct Agent but metadataHash and registeredAt, which     *)
(* nothing reads.  activatedIn and guardianFrom are history: the epoch in  *)
(* which an owner last made the agent active and last named its guardian.  *)
(***************************************************************************)
AgentRecord ==
    [owner            : Address,
     active           : BOOLEAN,
     recoveryAgent    : Address,
     wallet           : Wallet \cup {ZeroAddress},
     ownershipVersion : 0..MaxVersion,
     activatedIn      : 0..MaxVersion,
     guardianFrom     : 0..MaxVersion]

Unregistered ==
    [owner |-> ZeroAddress, active |-> FALSE, recoveryAgent |-> ZeroAddress,
     wallet |-> ZeroAddress, ownershipVersion |-> 0,
     activatedIn |-> 0, guardianFrom |-> 0]

ownerOf(a) == agents[a].owner
isActiveAgent(a) == agents[a].active
walletOf(a) == agents[a].wallet
ownershipVersion(a) == agents[a].ownershipVersion

\* The two checks every owner operation starts with.
OnlyOwner(sender, a) == ownerOf(a) # ZeroAddress /\ ownerOf(a) = sender

-----------------------------------------------------------------------------
\* A bug that Register does not have: an inactive agent counts as unregistered.
RegisterWhenInactive(a, o) ==
    /\ o # ZeroAddress
    /\ ~isActiveAgent(a)
    /\ <<a, o>> \in Consent
    /\ agents' = [agents EXCEPT ![a] =
                     [Unregistered EXCEPT !.owner = o, !.active = TRUE]]

\* Anybody submits the agent's signature over (agent, owner), once ever.
Register(a, o) ==
    /\ o # ZeroAddress
    /\ ownerOf(a) = ZeroAddress
    /\ <<a, o>> \in Consent
    /\ agents' = [agents EXCEPT ![a] =
                     [Unregistered EXCEPT !.owner = o, !.active = TRUE]]

Deactivate(sender, a) ==
    /\ OnlyOwner(sender, a)
    /\ isActiveAgent(a)
    /\ agents' = [agents EXCEPT ![a].active = FALSE]

Reactivate(sender, a) ==
    /\ OnlyOwner(sender, a)
    /\ ~isActiveAgent(a)
    /\ agents' = [agents EXCEPT ![a].active = TRUE,
                                ![a].activatedIn = ownershipVersion(a)]

\* A bug that CustodyMoved does not have: custody is not looked at.
CustodyIgnored(a, newOwner) == TRUE

\* A bound wallet must already belong to the new owner.
CustodyMoved(a, newOwner) ==
    walletOf(a) # ZeroAddress => wallets[walletOf(a)].owner = newOwner

\* A bug that HandedOver does not have: the guardian stays.
HandedOverWithGuardian(record, newOwner) ==
    [record EXCEPT !.owner = newOwner, !.active = FALSE, !.ownershipVersion = @ + 1]

\* A handoff ends the authority of the old owner's epoch: activity and guardian.
HandedOver(record, newOwner) ==
    [record EXCEPT !.owner = newOwner, !.active = FALSE,
                   !.ownershipVersion = @ + 1, !.recoveryAgent = ZeroAddress]

\* A bug that TransferAgentOwnership does not have: the version outgrows uint64.
TransferUnbounded(sender, a, newOwner) ==
    /\ OnlyOwner(sender, a)
    /\ newOwner \notin {ZeroAddress, ownerOf(a)}
    /\ CustodyMoved(a, newOwner)
    /\ agents' = [agents EXCEPT ![a] = HandedOver(@, newOwner)]

\* ownershipVersion += 1 is checked arithmetic: at the top the call reverts.
TransferAgentOwnership(sender, a, newOwner) ==
    /\ OnlyOwner(sender, a)
    /\ newOwner \notin {ZeroAddress, ownerOf(a)}
    /\ CustodyMoved(a, newOwner)
    /\ ownershipVersion(a) < MaxVersion
    /\ agents' = [agents EXCEPT ![a] = HandedOver(@, newOwner)]

\* A bug that BindWallet does not have: the wallet's own agent is not compared.
BindAnyWallet(sender, a, w) ==
    /\ OnlyOwner(sender, a)
    /\ walletOf(a) = ZeroAddress
    /\ HasCode(w)
    /\ wallets[w].owner = sender
    /\ agents' = [agents EXCEPT ![a].wallet = w]

\* The owner binds a wallet of this agent that it also owns, once.  The code asks
\* any contract for agent() and owner(), whose answers may change later; the model
\* has the contracts that are AgentSmartWallets.
BindWallet(sender, a, w) ==
    /\ OnlyOwner(sender, a)
    /\ walletOf(a) = ZeroAddress
    /\ HasCode(w)
    /\ wallets[w].agent = a
    /\ wallets[w].owner = sender
    /\ agents' = [agents EXCEPT ![a].wallet = w]

SetRecoveryGuardian(sender, a, guardian) ==
    /\ OnlyOwner(sender, a)
    /\ guardian # ZeroAddress
    /\ agents' = [agents EXCEPT ![a].recoveryAgent = guardian,
                                ![a].guardianFrom = ownershipVersion(a)]

\* The guardian disables the agent, active or not; ownership stays.
ExecuteRecovery(sender, a) ==
    /\ ownerOf(a) # ZeroAddress
    /\ agents[a].recoveryAgent = sender
    /\ agents' = [agents EXCEPT ![a].active = FALSE]

-----------------------------------------------------------------------------
RegistryInit == agents = [a \in Agent |-> Unregistered]

RegistryStep(sender) ==
    \E a \in Agent :
        \/ \E o \in Address : Register(a, o)
        \/ Deactivate(sender, a)
        \/ Reactivate(sender, a)
        \/ \E newOwner \in Address : TransferAgentOwnership(sender, a, newOwner)
        \/ \E w \in Wallet : BindWallet(sender, a, w)
        \/ \E guardian \in Guardian : SetRecoveryGuardian(sender, a, guardian)
        \/ ExecuteRecovery(sender, a)

RegistryTypeOK == agents \in [Agent -> AgentRecord]

-----------------------------------------------------------------------------
\* The registry and the wallets by themselves.
custodyVars == <<wallets, agents>>

CustodyInit == WalletInit /\ RegistryInit

CustodyNext ==
    \E sender \in Account :
        \/ WalletStep(sender) /\ UNCHANGED agents
        \/ RegistryStep(sender) /\ UNCHANGED wallets

CustodySpec == CustodyInit /\ [][CustodyNext]_custodyVars

-----------------------------------------------------------------------------
(***************************************************************************)
(* The storage of both contracts holds values of its types; in particular  *)
(* the version never leaves uint64.                                        *)
(***************************************************************************)
CustodyTypeOK == WalletTypeOK /\ RegistryTypeOK

(***************************************************************************)
(* Authority never survives a handoff: an active agent was activated, and  *)
(* a guardian was named, by the owner of the present epoch                 *)
(* (transferAgentOwnership, lines 186-197, against every other operation). *)
(***************************************************************************)
AuthorityOfThisEpoch ==
    \A a \in Agent :
        /\ isActiveAgent(a) => agents[a].activatedIn = ownershipVersion(a)
        /\ agents[a].recoveryAgent # ZeroAddress
               => agents[a].guardianFrom = ownershipVersion(a)

(***************************************************************************)
(* The wallet bound to an agent is a deployed wallet of that agent, so no  *)
(* two agents ever draw on one wallet (bindWallet, lines 224-240).         *)
(***************************************************************************)
CanonicalWallet ==
    /\ \A a \in Agent : walletOf(a) # ZeroAddress
           => HasCode(walletOf(a)) /\ wallets[walletOf(a)].agent = a
    /\ \A a, b \in Agent : walletOf(a) = walletOf(b) /\ walletOf(a) # ZeroAddress
           => a = b

(***************************************************************************)
(* An epoch never comes back: the owner of a registered agent changes      *)
(* exactly when its version grows by one, the version never falls, and a   *)
(* binding once made stays (register, lines 118-141, is once ever).        *)
(***************************************************************************)
EpochsMoveForward ==
    [][\A a \in Agent : ownerOf(a) # ZeroAddress =>
          /\ ownershipVersion(a)' = ownershipVersion(a)
                 + (IF ownerOf(a)' = ownerOf(a) THEN 0 ELSE 1)
          /\ walletOf(a) # ZeroAddress => walletOf(a)' = walletOf(a)]_custodyVars

\* Registry owner and wallet owner of an agent with a bound wallet agree.
CustodyAgrees(a) ==
    walletOf(a) # ZeroAddress => wallets[walletOf(a)].owner = ownerOf(a)

(***************************************************************************)
(* A handoff never splits control: the registry's step to a new epoch      *)
(* leaves the wallet with the agent's new owner, and while the epoch lasts *)
(* only the wallet's own step can separate them again                      *)
(* (transferAgentOwnership, lines 179-184).                                *)
(***************************************************************************)
HandoffKeepsCustody ==
    [][\A a \in Agent :
          /\ ownershipVersion(a)' # ownershipVersion(a) => CustodyAgrees(a)'
          /\ CustodyAgrees(a) /\ ~CustodyAgrees(a)' => UNCHANGED agents]_custodyVars
=============================================================================
