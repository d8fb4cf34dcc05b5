--------------------------- MODULE RiskAssessment ---------------------------
(***************************************************************************)
(* runtime/risk: what the risk providers say of an intent and what the API *)
(* makes of it.  Every function here is pure; a provider that throws, or   *)
(* rejects, is the answer Thrown.                                          *)
(*                                                                         *)
(* Confidences are percentages.  Signals are the evidence shown to people; *)
(* only the severities that decide a status are kept.                      *)
(***************************************************************************)
EXTENDS Integers, FiniteSets, FiniteSetsExt

CONSTANTS
    Thrown,         \* the answer of a provider whose promise was rejected
    NotFinite       \* NaN and the infinities, which JavaScript calls numbers

ASSUME RiskAssumption == NotFinite \notin Int

RiskStatus == {"CLEAR", "REVIEW", "BLOCK"}

\* What a provider may return: the type says number, not finite, not in range.
ProviderAnswer ==
    [status : RiskStatus, score : Int \cup {NotFinite},
     confidence : Int \cup {NotFinite}, degraded : BOOLEAN] \cup {Thrown}

Unavailable == [status |-> "REVIEW", score |-> 50, confidence |-> 0, degraded |-> TRUE]

Clamped(score) == IF score < 0 THEN 0 ELSE IF score > 100 THEN 100 ELSE score

Usable(answer) ==
    /\ answer # Thrown
    /\ answer.score # NotFinite
    /\ answer.confidence # NotFinite
    /\ answer.confidence \in 0..100

safeAssess(answer) ==
    IF Usable(answer) THEN [answer EXCEPT !.score = Clamped(@)] ELSE Unavailable

Certain(status, score) ==
    [status |-> status, score |-> score, confidence |-> 100, degraded |-> FALSE]

\* A bug that Combined does not have: it asks for one clear answer.
CombinedByAny(results) ==
    IF \E p \in DOMAIN results : results[p].status = "BLOCK" THEN "BLOCK"
    ELSE IF \E p \in DOMAIN results : results[p].status = "CLEAR" THEN "CLEAR"
    ELSE "REVIEW"

Combined(results) ==
    IF \E p \in DOMAIN results : results[p].status = "BLOCK" THEN "BLOCK"
    ELSE IF \E p \in DOMAIN results : results[p].status = "REVIEW" \/ results[p].degraded
         THEN "REVIEW"
    ELSE "CLEAR"

\* answers maps every configured provider to its answer.
assessRisk(answers, deterministicBlock) ==
    LET results == [p \in DOMAIN answers |-> safeAssess(answers[p])]
    IN  IF deterministicBlock THEN Certain("BLOCK", 100)
        ELSE IF DOMAIN answers = {} THEN Unavailable
        ELSE [status |-> Combined(results),
              score |-> Max({results[p].score : p \in DOMAIN results}),
              confidence |-> MapThenSumSet(LAMBDA p : results[p].confidence, DOMAIN results)
                                 \div Cardinality(DOMAIN results),
              degraded |-> \E p \in DOMAIN results : results[p].degraded]

-----------------------------------------------------------------------------
(***************************************************************************)
(* Calldata as inspectCalldataRisk sees it: hex or not, its first four     *)
(* bytes if it has them, whether exactly two words follow, the second of   *)
(* them, and whether the first is an address getAddress accepts (a mixed   *)
(* case that is no checksum is refused).                                   *)
(***************************************************************************)
CONSTANT MaxUint256

Calldata ==
    [hex : BOOLEAN, selector : {"none", "approve", "setApprovalForAll", "other"},
     twoWords : BOOLEAN, amount : 0..MaxUint256, spenderIsAddress : BOOLEAN]

Sensitive == {"approve", "setApprovalForAll"}

\* The well-formed calls that hand somebody else an unlimited authority.
Grants(data) ==
    \/ data.selector = "approve" /\ data.amount = MaxUint256
    \/ data.selector = "setApprovalForAll" /\ data.amount # 0

\* A bug that HighCalldataRisk does not have: operators of NFTs are forgotten.
HighTokenRisk(data) ==
    \/ ~data.hex \/ data.selector = "none"
    \/ data.selector = "approve" /\ (~data.twoWords \/ Grants(data))

\* inspectCalldataRisk returns a signal, and every signal it returns is HIGH.
HighCalldataRisk(data) ==
    \/ ~data.hex \/ data.selector = "none"
    \/ data.selector \in Sensitive /\ ~data.twoWords
    \/ Grants(data)

\* ... or throws on the way to it.
InspectionThrows(data) ==
    /\ data.hex /\ data.twoWords
    /\ Grants(data)
    /\ ~data.spenderIsAddress

\* What the RPC shows of a target: reachable, its chain, code, the call's fate.
ChainView ==
    [up : BOOLEAN, sameChain : BOOLEAN, targetIsAddress : BOOLEAN,
     hasCode : BOOLEAN, callSucceeds : BOOLEAN]

Observed(status, score, confidence) ==
    [status |-> status, score |-> score, confidence |-> confidence, degraded |-> FALSE]

\* OnChainRiskProvider.assess
assessOnChain(view, data) ==
    LET simulationOk == view.hasCode /\ view.callSucceeds
    IN  IF ~view.targetIsAddress \/ ~view.up THEN Thrown
        ELSE IF ~view.sameChain THEN Certain("BLOCK", 100)
        ELSE IF InspectionThrows(data) THEN Thrown
        ELSE IF HighCalldataRisk(data) THEN Observed("REVIEW", 85, 90)
        ELSE IF simulationOk THEN Observed("CLEAR", 10, 95)
        ELSE Observed("REVIEW", IF view.hasCode THEN 70 ELSE 55, 80)
=============================================================================
