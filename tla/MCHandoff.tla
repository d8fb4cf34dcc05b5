----------------------------- MODULE MCHandoff -----------------------------
(* Function calls while the agent goes from the key pair o to the contract  *)
(* c and back, with three nonces to an ownership epoch, the last of them    *)
(* never usable.  c is also the target: it can hand the agent over, or      *)
(* disable it, in the middle of an execution.                               *)
EXTENDS GuardImplementation

CONSTANTS o, c, a, w1, f, x

MCConsent == {<<a, o>>}

MCTerms ==
    {[agent |-> a, maxTxValue |-> 0, dailyLimit |-> 0, approvalThreshold |-> 0,
      validFrom |-> 0, validUntil |-> 1,
      calls |-> {<<c, f>>}, nativeTransferTargets |-> {}]}

MCSubmission ==
    [agent : {a}, wallet : {w1}, target : {c}, kind : {f}, value : {0},
     nonce : 0..((MaxVersion + 1) * SeqSpan), deadline : {1}, policyHash : PolicyHash,
     signer : {a}, approval : {NoApproval}, fromWallet : BOOLEAN,
     inner : {[to |-> c, amount |-> 0]}]
=============================================================================
