----------------------------- MODULE MCCustody -----------------------------
(* Two owners, two agents and two wallets, each of which may be deployed    *)
(* with the ordinary account o2 as its execution guard.                     *)
EXTENDS AgentRegistry, TLC
CONSTANTS o1, o2, a1, a2, w1, w2, guard

MCAccount == {o1, o2}
MCGuardAddress == {guard, o2}
MCConsent == {<<a1, o1>>, <<a2, o1>>}

\* The wallets are interchangeable: no constant names one of them.
MCSymmetry == Permutations({w1, w2})
=============================================================================
