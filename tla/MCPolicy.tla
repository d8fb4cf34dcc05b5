------------------------------ MODULE MCPolicy ------------------------------
(* Two owners with two salts each, and argument lists of createPolicy of    *)
(* which most are refused.                                                  *)
EXTENDS PolicyRegistry

CONSTANTS o1, o2, a1, t1, f

MCTerms ==
    LET base == [agent |-> a1, maxTxValue |-> 1, dailyLimit |-> 1,
                 approvalThreshold |-> 0, validFrom |-> 1, validUntil |-> 2,
                 calls |-> {<<t1, f>>}, nativeTransferTargets |-> {}]
    IN  {base,
         [base EXCEPT !.calls = {}, !.nativeTransferTargets = {t1}],
         [base EXCEPT !.maxTxValue = 0],
         [base EXCEPT !.maxTxValue = 0, !.nativeTransferTargets = {t1}],
         [base EXCEPT !.calls = {}],
         [base EXCEPT !.calls = {<<ZeroAddress, f>>}],
         [base EXCEPT !.validUntil = 1],
         [base EXCEPT !.agent = ZeroAddress]}
=============================================================================
