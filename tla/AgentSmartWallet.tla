-------------------------- MODULE AgentSmartWallet --------------------------
(***************************************************************************)
(* contracts/AgentSmartWallet.sol: the custody wallets of agents.          *)
(*                                                                         *)
(* A wallet belongs to one agent and one execution guard for ever; its     *)
(* owner can change, in one step and without the registry's knowledge.     *)
(* Every operation takes the caller (msg.sender) as its first parameter.   *)
(*                                                                         *)
(* recoverNative ends in an external call and writes no storage after it,  *)
(* so whatever the recipient does in that call has the effect of calls     *)
(* made after it: the operation is one step.  recoverERC20 changes the     *)
(* token's storage and none of the wallet's, and is left out.              *)
(***************************************************************************)
EXTENDS Addresses

CONSTANTS
    Wallet,        \* addresses at which wallets get deployed
    GuardAddress,  \* addresses a wallet may be given as its execution guard
    MaxBalance     \* bound on the native balance of a wallet

ASSUME WalletAssumption ==
    /\ ZeroAddress \notin Wallet \cup GuardAddress
    /\ Wallet \cap (Account \cup GuardAddress) = {}
    /\ MaxBalance \in Nat

VARIABLE wallets   \* the wallet contracts' storage and native balance

WalletRecord ==
    [owner          : Address,
     agent          : AgentAddress,
     executionGuard : GuardAddress \cup {ZeroAddress},
     balance        : 0..MaxBalance,
     locked         : BOOLEAN]     \* ReentrancyGuard's status

Undeployed ==
    [owner |-> ZeroAddress, agent |-> ZeroAddress,
     executionGuard |-> ZeroAddress, balance |-> 0, locked |-> FALSE]

\* The constructor's zero checks make the immutable agent tell code from none.
HasCode(w) == wallets[w].agent # ZeroAddress

-----------------------------------------------------------------------------
\* A transfer of native value out of wallet w; the recipient may be a wallet.
Pay(w, to, amount) ==
    LET debited == [wallets EXCEPT ![w].balance = @ - amount]
    IN  IF to \in Wallet
        THEN [debited EXCEPT ![to].balance = @ + amount]
        ELSE debited

\* The transfer succeeds: the balance covers it and the recipient takes it.  A
\* guard has no receive function; MaxBalance bounds the model.
CanPay(w, to, amount) ==
    /\ amount <= wallets[w].balance
    /\ to \notin GuardAddress \ Account
    /\ to \in Wallet \ {w} => wallets[to].balance + amount <= MaxBalance

\* Anybody deploys a wallet, for any owner, guard and agent, at an address that
\* may have been sent native value before.
Deploy(w, initialOwner, initialGuard, initialAgent) ==
    /\ ~HasCode(w)
    /\ ZeroAddress \notin {initialOwner, initialGuard, initialAgent}
    /\ wallets' = [wallets EXCEPT ![w] =
          [owner |-> initialOwner, agent |-> initialAgent,
           executionGuard |-> initialGuard, balance |-> wallets[w].balance,
           locked |-> FALSE]]

\* Anybody funds a wallet, or the address it will have.
Receive(w, amount) ==
    /\ wallets[w].balance + amount <= MaxBalance
    /\ wallets' = [wallets EXCEPT ![w].balance = @ + amount]

\* transferOwnership has no reentrancy lock and takes effect at once.
TransferWalletOwnership(sender, w, newOwner) ==
    /\ HasCode(w)
    /\ sender = wallets[w].owner
    /\ newOwner # ZeroAddress
    /\ wallets' = [wallets EXCEPT ![w].owner = newOwner]

\* A bug that RecoverNative does not have: no nonReentrant modifier.
RecoverNativeUnlocked(sender, w, to, amount) ==
    /\ HasCode(w)
    /\ sender = wallets[w].owner
    /\ to # ZeroAddress
    /\ CanPay(w, to, amount)
    /\ wallets' = Pay(w, to, amount)

\* The owner takes native value out, outside any policy.
RecoverNative(sender, w, to, amount) ==
    /\ HasCode(w)
    /\ sender = wallets[w].owner
    /\ ~wallets[w].locked
    /\ to # ZeroAddress
    /\ CanPay(w, to, amount)
    /\ wallets' = Pay(w, to, amount)

\* What execute requires of its caller and of the wallet.
CanExecute(sender, w, to, amount) ==
    /\ HasCode(w)
    /\ sender = wallets[w].executionGuard
    /\ ~wallets[w].locked
    /\ to # ZeroAddress
    /\ CanPay(w, to, amount)

\* execute, called by a guard that is an ordinary account: a whole call, since
\* nothing is written after the outward call.  AgentExecutionGuard splits it.
Execute(sender, w, to, amount) ==
    /\ CanExecute(sender, w, to, amount)
    /\ wallets' = Pay(w, to, amount)

-----------------------------------------------------------------------------
WalletInit == wallets = [w \in Wallet |-> Undeployed]

WalletStep(sender) ==
    \E w \in Wallet :
        \/ \E o \in Address, g \in GuardAddress, a \in Agent : Deploy(w, o, g, a)
        \/ \E amount \in 1..MaxBalance : Receive(w, amount)
        \/ \E newOwner \in Address : TransferWalletOwnership(sender, w, newOwner)
        \/ \E to \in Account \cup Wallet, amount \in 1..MaxBalance :
              \/ RecoverNative(sender, w, to, amount)
              \/ Execute(sender, w, to, amount)

WalletTypeOK == wallets \in [Wallet -> WalletRecord]
=============================================================================
