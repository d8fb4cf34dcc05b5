----------------------------- MODULE RiskProofs -----------------------------
(***************************************************************************)
(* What a clear assessment tells about the answers it was made of.         *)
(***************************************************************************)
EXTENDS RiskAssessment, TLAPS

(***************************************************************************)
(* runtime/risk/aggregate.ts, assessRisk: CLEAR means that nothing blocked *)
(* deterministically, that somebody was asked, and that every answer is    *)
(* usable, undegraded and clear; a provider that failed is never clear.    *)
(***************************************************************************)
THEOREM ClearNeedsAll ==
    ASSUME NEW answers, NEW block \in BOOLEAN,
           \A p \in DOMAIN answers : answers[p] \in ProviderAnswer,
           assessRisk(answers, block).status = "CLEAR"
    PROVE  /\ ~block
           /\ DOMAIN answers # {}
           /\ \A p \in DOMAIN answers :
                 /\ Usable(answers[p])
                 /\ answers[p].status = "CLEAR" /\ ~answers[p].degraded
<1> DEFINE results == [p \in DOMAIN answers |-> safeAssess(answers[p])]
<1>1. ~block
    BY DEF assessRisk, Certain
<1>2. DOMAIN answers # {}
    BY <1>1 DEF assessRisk, Unavailable
<1>3. Combined(results) = "CLEAR"
    BY <1>1, <1>2 DEF assessRisk
<1>4. ASSUME NEW p \in DOMAIN answers
      PROVE  /\ Usable(answers[p])
             /\ answers[p].status = "CLEAR" /\ ~answers[p].degraded
    <2>1. results[p].status # "BLOCK" /\ results[p].status # "REVIEW" /\ ~results[p].degraded
        BY <1>3 DEF Combined
    <2>2. results[p] = safeAssess(answers[p])
        OBVIOUS
    <2>3. Usable(answers[p])
        BY <2>1, <2>2 DEF safeAssess, Unavailable
    <2>4. safeAssess(answers[p]) = [answers[p] EXCEPT !.score = Clamped(@)]
        BY <2>3 DEF safeAssess
    <2>5. answers[p] \in [status : RiskStatus, score : Int \cup {NotFinite},
                          confidence : Int \cup {NotFinite}, degraded : BOOLEAN]
        BY <2>3 DEF ProviderAnswer, Usable
    <2>6. safeAssess(answers[p]).status = answers[p].status
          /\ safeAssess(answers[p]).degraded = answers[p].degraded
        BY <2>4, <2>5
    <2>7. answers[p].status \in {"CLEAR", "REVIEW", "BLOCK"}
        BY <2>5 DEF RiskStatus
    <2> QED
        BY <2>1, <2>2, <2>3, <2>6, <2>7
<1> QED
    BY <1>1, <1>2, <1>4
=============================================================================
