----------------------------- MODULE MCSpending -----------------------------
(* One agent spending over two days and two ownership epochs, under a       *)
(* policy that is bounded and under one that has its own wallet for target. *)
(* The contract c gets every payment.  It may be the first or the second    *)
(* owner of agent and wallet, and acts as such while an execution runs.     *)
EXTENDS GuardImplementation

CONSTANTS o, c, a, w1, f, x

MCConsent == {<<a, o>>, <<a, c>>}

TermsOf(limit, calls, natives) ==
    [agent |-> a, maxTxValue |-> limit, dailyLimit |-> limit, approvalThreshold |-> 1,
     validFrom |-> 0, validUntil |-> MaxTime, calls |-> calls,
     nativeTransferTargets |-> natives]

BoundedTerms == {TermsOf(2, {<<c, f>>}, {c})}

UnboundedTerms == {TermsOf(0, {<<w1, x>>}, {})}

MCTerms == BoundedTerms \cup UnboundedTerms

Nonces == {v * SeqSpan + n : v \in 0..MaxVersion, n \in 0..(SeqSpan - 2)}

Inert == [to |-> c, amount |-> 0]

Intent(h, target, kind, value, nonce, deadline, approval, fromWallet, inner) ==
    [agent |-> a, wallet |-> w1, target |-> target, kind |-> kind, value |-> value,
     nonce |-> nonce, deadline |-> deadline, policyHash |-> h, signer |-> a,
     approval |-> approval, fromWallet |-> fromWallet, inner |-> inner]

Under(terms) == {h \in PolicyHash : h.terms \in terms}

\* Native transfers of one unit, and of two units with the approval of o or c.
Transfers ==
    {Intent(h, c, NativeTransfer, IF s = NoApproval THEN 1 ELSE 2, n, MaxTime, s, TRUE, Inert) :
        h \in Under(BoundedTerms), n \in Nonces,
        s \in {NoApproval} \cup [signer : Account, deadline : {0}]}

\* Function calls without the wallet.
FunctionCalls ==
    {Intent(h, c, f, 0, n, 0, NoApproval, FALSE, Inert) :
        h \in Under(BoundedTerms), n \in Nonces}

\* Calls to the wallet itself, which tell it to pay two units.
WalletCalls ==
    {Intent(h, w1, x, 0, n, MaxTime, NoApproval, FALSE, [to |-> c, amount |-> 2]) :
        h \in Under(UnboundedTerms), n \in Nonces}

MCSubmission == Transfers \cup FunctionCalls \cup WalletCalls
=============================================================================
