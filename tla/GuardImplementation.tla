------------------------ MODULE GuardImplementation ------------------------
(***************************************************************************)
(* The execution guard keeps the promise of SpendingMandate.               *)
(*                                                                         *)
(* An execution is a transaction: between its two halves the world outside *)
(* still sees the storage it started from, which a failed call restores.   *)
(* So the free nonces are those of the committed storage, and the step     *)
(* that is a payment is Return.                                            *)
(***************************************************************************)
EXTENDS AgentExecutionGuard

NonceInEpoch(stored, version) ==
    IF stored >= version * SeqSpan THEN stored ELSE version * SeqSpan

\* nextNonce as a call between transactions reads it.
CommittedNextNonce ==
    [b \in Agent |->
        IF frame = NoFrame
        THEN NonceInEpoch(storedNonce[b], ownershipVersion(b))
        ELSE NonceInEpoch(frame.saved.storedNonce[b], frame.saved.agents[b].ownershipVersion)]

\* A logged execution as a payment.
PaymentOf(e) ==
    [agent |-> e.agent, nonce |-> e.nonce, policy |-> e.policyHash,
     value |-> e.paid, day |-> e.day]

Payments == [k \in 1..Len(executed) |-> PaymentOf(executed[k])]

Promise == INSTANCE SpendingMandate WITH
    Policy <- PolicyHash,
    Capped <- {h \in PolicyHash : Bounded(h)},
    Limit <- [h \in PolicyHash |-> h.terms.dailyLimit],
    Nonce <- Nat,
    Value <- {Outlay(i) : i \in Submission},
    nextFree <- CommittedNextNonce,
    payments <- Payments,
    moved <- paidOut,
    day <- today

(***************************************************************************)
(* Whatever targets do in the middle of an execution, and however it ends, *)
(* the contracts behave like the mandate: every execution is one payment   *)
(* under its own nonce, within the limit of the day if its policy is       *)
(* bounded, a failed one is nothing at all, and no nonce comes back        *)
(* (AgentExecutionGuard.sol, lines 90-94 and 239-375).                     *)
(***************************************************************************)
KeepsPromise == Promise!MandateSpec
=============================================================================
