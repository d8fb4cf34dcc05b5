-------------------------- MODULE SpendingMandate --------------------------
(***************************************************************************)
(* What Guard, registries and wallets together promise whoever relies on   *)
(* them, without saying how: payments happen one at a time and at once,    *)
(* each uses up its agent's next free nonce and all lower ones, and what a *)
(* policy with a bound pays on one day stays within its daily limit.       *)
(*                                                                         *)
(* There is no target, no reentrancy, no failed call and no bucket here.   *)
(* GuardImplementation shows that the contracts keep the promise, and      *)
(* GuardedApi is composed with the promise instead of the contracts.       *)
(***************************************************************************)
EXTENDS Integers, Sequences

CONSTANTS
    Agent,
    Policy,
    Capped,     \* the policies whose limits bind
    Limit,      \* per policy, what it may pay on one day
    Nonce,      \* numbers of payments
    Value,      \* amounts of payments
    Day

VARIABLES
    nextFree,   \* per agent, the nonce its next payment has to carry
    payments,   \* all payments, in order
    moved,      \* per policy and day, the sum of its payments
    day         \* the present UTC day

mandateVars == <<nextFree, payments, moved, day>>

Affordable(p, v) == p \in Capped => moved[p][day] + v <= Limit[p]

\* Nonces are used up, never given back.
NoncesGrow ==
    /\ nextFree' \in [Agent -> Nonce]
    /\ \A b \in Agent : nextFree'[b] >= nextFree[b]

\* A payment.  Its target may have used the call to open new nonce epochs.
Settle(b, p, v) ==
    /\ Affordable(p, v)
    /\ payments' = Append(payments, [agent |-> b, nonce |-> nextFree[b],
                                     policy |-> p, value |-> v, day |-> day])
    /\ moved' = [moved EXCEPT ![p][day] = @ + v]
    /\ NoncesGrow
    /\ nextFree'[b] > nextFree[b]
    /\ UNCHANGED day

\* A handoff of an agent skips the nonces of the epoch that ends.
NewEpoch ==
    /\ NoncesGrow
    /\ UNCHANGED <<payments, moved, day>>

NextDay ==
    /\ day' \in Day
    /\ day' > day
    /\ UNCHANGED <<nextFree, payments, moved>>

MandateInit ==
    /\ nextFree = [b \in Agent |-> 0]
    /\ payments = <<>>
    /\ moved = [p \in Policy |-> [d \in Day |-> 0]]
    /\ day = 0

SomePayment == \E b \in Agent, p \in Policy, v \in Value : Settle(b, p, v)

MandateNext == SomePayment \/ NewEpoch \/ NextDay

MandateSpec == MandateInit /\ [][MandateNext]_mandateVars
=============================================================================
