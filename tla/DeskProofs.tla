----------------------------- MODULE DeskProofs -----------------------------
(***************************************************************************)
(* The desk's promises about risk, for any providers, answers, nodes and   *)
(* calldata, and about signatures, for any texts, tools and bodies.        *)
(***************************************************************************)
EXTENDS IntentDesk, RiskProofs

(***************************************************************************)
(* The server's provider, runtime/risk/onchain.ts: its answer is a         *)
(* ProviderAnswer, and a clear one only for calldata without high risk.    *)
(***************************************************************************)
LEMMA OnChainAnswers ==
    ASSUME NEW view, NEW data
    PROVE  /\ assessOnChain(view, data) \in ProviderAnswer
           /\ assessOnChain(view, data) = Thrown
              \/ assessOnChain(view, data).status # "CLEAR"
              \/ ~HighCalldataRisk(data)
<1>1. /\ Certain("BLOCK", 100) \in ProviderAnswer
      /\ Certain("BLOCK", 100).status # "CLEAR"
    BY DEF Certain, ProviderAnswer, RiskStatus
<1>2. ASSUME NEW status \in RiskStatus, NEW score \in Int, NEW confidence \in Int
      PROVE  /\ Observed(status, score, confidence) \in ProviderAnswer
             /\ Observed(status, score, confidence).status = status
    BY DEF Observed, ProviderAnswer
<1>3. Thrown \in ProviderAnswer
    BY DEF ProviderAnswer
<1>4. /\ Observed("REVIEW", 85, 90) \in ProviderAnswer
      /\ Observed("REVIEW", 85, 90).status = "REVIEW"
    BY <1>2 DEF RiskStatus
<1>5. Observed("CLEAR", 10, 95) \in ProviderAnswer
    BY <1>2 DEF RiskStatus
<1>6. ASSUME NEW score \in Int
      PROVE  /\ Observed("REVIEW", score, 80) \in ProviderAnswer
             /\ Observed("REVIEW", score, 80).status = "REVIEW"
    BY <1>2 DEF RiskStatus
<1>7. (IF view.hasCode THEN 70 ELSE 55) \in Int
    OBVIOUS
<1> DEFINE other == Observed("REVIEW", IF view.hasCode THEN 70 ELSE 55, 80)
<1>8. other \in ProviderAnswer /\ other.status = "REVIEW"
    BY <1>6, <1>7
<1> HIDE DEF other
<1>9. assessOnChain(view, data) =
          IF ~view.targetIsAddress \/ ~view.up THEN Thrown
          ELSE IF ~view.sameChain THEN Certain("BLOCK", 100)
          ELSE IF InspectionThrows(data) THEN Thrown
          ELSE IF HighCalldataRisk(data) THEN Observed("REVIEW", 85, 90)
          ELSE IF view.hasCode /\ view.callSucceeds THEN Observed("CLEAR", 10, 95)
          ELSE other
    BY DEF assessOnChain, other
<1> QED
    BY <1>1, <1>3, <1>4, <1>5, <1>8, <1>9

(***************************************************************************)
(* What is assessed or inspected is what the answer was made of.           *)
(***************************************************************************)
DeskInv ==
    /\ desk.at = "assessed" =>
           /\ desk.answers \in Answers /\ desk.block \in BOOLEAN
           /\ desk.result = assessRisk(desk.answers, desk.block)
    /\ desk.at = "inspected" =>
           \E view \in View :
               desk.result = assessRisk([p \in {"onchain"} |-> assessOnChain(view, desk.data)],
                                        FALSE)

LEMMA DeskInvInit == Init => DeskInv
BY DEF Init, DeskInv

LEMMA DeskInvStep == DeskInv /\ [Next]_vars => DeskInv'
<1> SUFFICES ASSUME DeskInv, [Next]_vars
             PROVE  DeskInv'
    OBVIOUS
<1>1. ASSUME desk' = desk
      PROVE  DeskInv'
    BY <1>1 DEF DeskInv
<1>2. ASSUME desk'.at \notin {"assessed", "inspected"}
      PROVE  DeskInv'
    BY <1>2 DEF DeskInv
<1>3. ASSUME NEW definition \in Definition, Register(definition)
      PROVE  DeskInv'
    BY <1>1, <1>3 DEF Register
<1>4. ASSUME NEW body \in Body, Prepare(body)
      PROVE  DeskInv'
    <2>1. desk'.at \in {"answered", "prepared"}
        BY <1>4 DEF Prepare, Answer
    <2> QED
        BY <1>2, <2>1
<1>5. ASSUME SignAndPost
      PROVE  DeskInv'
    <2>1. desk'.at = "posted"
        BY <1>5 DEF SignAndPost
    <2> QED
        BY <1>2, <2>1
<1>6. ASSUME Submit
      PROVE  DeskInv'
    <2>1. desk'.at \in {"refused", "submitted"}
        BY <1>6 DEF Submit
    <2> QED
        BY <1>2, <2>1
<1>7. ASSUME NEW answers \in Answers, NEW block \in BOOLEAN, Assess(answers, block)
      PROVE  DeskInv'
    <2>1. /\ desk'.at = "assessed" /\ desk'.answers = answers /\ desk'.block = block
          /\ desk'.result = assessRisk(answers, block)
        BY <1>7 DEF Assess
    <2> QED
        BY <2>1 DEF DeskInv
<1>8. ASSUME NEW view \in View, NEW data \in Data, Inspect(view, data)
      PROVE  DeskInv'
    <2>1. /\ desk'.at = "inspected" /\ desk'.data = data
          /\ desk'.result =
                 assessRisk([p \in {"onchain"} |-> assessOnChain(view, data)], FALSE)
        BY <1>8 DEF Inspect
    <2> QED
        BY <2>1 DEF DeskInv
<1>9. ASSUME Finish
      PROVE  DeskInv'
    BY <1>2, <1>9 DEF Finish
<1> QED
    BY <1>1, <1>3, <1>4, <1>5, <1>6, <1>7, <1>8, <1>9 DEF Next, vars

(***************************************************************************)
(* api/app.ts, /v1/risk/assess: a clear assessment is the unanimous one of *)
(* at least one provider, and no deterministic block is overridden.        *)
(***************************************************************************)
THEOREM AssessmentsAreUnanimous == Spec => []ClearIsUnanimous
<1>1. DeskInv => ClearIsUnanimous
    <2> SUFFICES ASSUME DeskInv, desk.at = "assessed", desk.result.status = "CLEAR"
                 PROVE  /\ ~desk.block
                        /\ DOMAIN desk.answers # {}
                        /\ \A p \in DOMAIN desk.answers :
                              /\ Usable(desk.answers[p])
                              /\ desk.answers[p].status = "CLEAR"
                              /\ ~desk.answers[p].degraded
        BY DEF ClearIsUnanimous
    <2>1. /\ desk.answers \in Answers /\ desk.block \in BOOLEAN
          /\ assessRisk(desk.answers, desk.block).status = "CLEAR"
        BY DEF DeskInv
    <2>2. \A p \in DOMAIN desk.answers : desk.answers[p] \in ProviderAnswer
        BY <2>1, DeskAssumption
    <2> QED
        BY <2>1, <2>2, ClearNeedsAll
<1> QED
    BY <1>1, DeskInvInit, DeskInvStep, PTL DEF Spec

(***************************************************************************)
(* runtime/risk/calldata.ts and onchain.ts: an unlimited authority is      *)
(* never cleared, whatever the node shows of the target.                   *)
(***************************************************************************)
THEOREM UnlimitedGrantsAreReviewed == Spec => []GrantsAreReviewed
<1>1. DeskInv => GrantsAreReviewed
    <2> SUFFICES ASSUME DeskInv, desk.at = "inspected", Grants(desk.data),
                        desk.result.status = "CLEAR"
                 PROVE  FALSE
        BY DEF GrantsAreReviewed
    <2>1. PICK view \in View :
              desk.result = assessRisk([p \in {"onchain"} |-> assessOnChain(view, desk.data)],
                                       FALSE)
        BY DEF DeskInv
    <2> DEFINE answer == assessOnChain(view, desk.data)
               answers == [p \in {"onchain"} |-> answer]
    <2>2. answer \in ProviderAnswer /\ HighCalldataRisk(desk.data)
        BY OnChainAnswers DEF HighCalldataRisk
    <2>3. answer = Thrown \/ answer.status # "CLEAR"
        BY <2>2, OnChainAnswers
    <2> HIDE DEF answer
    <2>4. \A p \in DOMAIN answers : answers[p] \in ProviderAnswer
        BY <2>2
    <2>5. assessRisk(answers, FALSE).status = "CLEAR"
        BY <2>1 DEF answer
    <2>6. \A p \in DOMAIN answers : Usable(answers[p]) /\ answers[p].status = "CLEAR"
        BY <2>4, <2>5, ClearNeedsAll
    <2> QED
        BY <2>3, <2>6 DEF Usable
<1> QED
    BY <1>1, DeskInvInit, DeskInvStep, PTL DEF Spec

-----------------------------------------------------------------------------
(***************************************************************************)
(* An intent that resolveToolRequest returned and whose digest was told.   *)
(***************************************************************************)
Signable(i) ==
    /\ i \in [IntentFields -> Text \cup Int]
    /\ \A f \in IntentFields \ Amounts : i[f] \in Text
    /\ \A f \in Amounts : i[f] \in DOMAIN toString /\ i[f] \in 0..MaxUint
    /\ Canonical(i)

(***************************************************************************)
(* sdk/index.ts, serializeIntent, and api/app.ts, asExecutionIntent: what  *)
(* is sent back as text is read as the same intent, and can be encoded.    *)
(***************************************************************************)
LEMMA SentBackUnchanged ==
    ASSUME NEW i, Signable(i)
    PROVE  LET back == asExecutionIntent(sdkSerializeIntent(serializeIntent(i)))
           IN  back = i /\ back # Throws /\ Encodable(back)
<1> DEFINE body == sdkSerializeIntent(serializeIntent(i))
<1>1. \A f \in IntentFields :
          body[f] = IF f \in Amounts THEN toString[i[f]] ELSE i[f]
    BY DEF sdkSerializeIntent, serializeIntent, AsText, IntentFields, Amounts
<1>2. DOMAIN body = IntentFields
    BY DEF sdkSerializeIntent
<1> HIDE DEF body
<1>3. \A f \in Amounts : body[f] \in DOMAIN BigInt /\ BigInt[body[f]] = i[f]
    BY <1>1, TextAssumption DEF Signable, IntentFields
<1>4. HasTexts(body, IntentFields) /\ Readable(body)
    BY <1>1, <1>2, <1>3, TextAssumption DEF HasTexts, Readable, Signable
<1>5. asExecutionIntent(body) = [f \in IntentFields |-> Read(body)[f]]
    BY <1>4 DEF asExecutionIntent
<1>6. \A f \in IntentFields : Read(body)[f] = i[f]
    BY <1>1, <1>2, <1>3 DEF Read
<1>7. asExecutionIntent(body) = i
    BY <1>5, <1>6 DEF Signable
<1>8. i # Throws
    BY TextAssumption DEF Signable
<1>9. Encodable(i)
    BY DEF Signable, Encodable, Canonical
<1> QED
    BY <1>7, <1>8, <1>9 DEF body

(***************************************************************************)
(* api/app.ts, the message of the typed data: read by the client, it has   *)
(* the fields that the Guard hashes.                                       *)
(***************************************************************************)
LEMMA MessageOfIntent ==
    ASSUME NEW i, Signable(i)
    PROVE  Read(typedIntentMessage(i)) =
               [agent |-> i.agent, wallet |-> i.wallet, target |-> i.target,
                value |-> i.value, calldataHash |-> keccak256(i.data), nonce |-> i.nonce,
                deadline |-> i.deadline, policyHash |-> i.policyHash]
<1>1. \A f \in Amounts : BigInt[toString[i[f]]] = i[f]
    BY TextAssumption DEF Signable
<1>2. \A f \in IntentFields :
          AsText(i)[f] = IF f \in Amounts THEN toString[i[f]] ELSE i[f]
    BY DEF AsText
<1>3. /\ AsText(i).agent = i.agent /\ AsText(i).wallet = i.wallet
      /\ AsText(i).target = i.target /\ AsText(i).policyHash = i.policyHash
      /\ BigInt[AsText(i).value] = i.value /\ BigInt[AsText(i).nonce] = i.nonce
      /\ BigInt[AsText(i).deadline] = i.deadline
    BY <1>1, <1>2 DEF IntentFields, Amounts
<1> QED
    BY <1>3 DEF Read, typedIntentMessage, Amounts

(***************************************************************************)
(* intent.ts, intentDigest, and AgentExecutionGuard.sol, hashIntent: the   *)
(* server's digest, the client's signature and the Guard's hash agree.     *)
(***************************************************************************)
LEMMA ThreeHashesAgree ==
    ASSUME NEW i, Signable(i), isAddress(verifyingContract)
    PROVE  LET signed == signTypedData(buildIntentDomain(ChainId, verifyingContract),
                                       typedIntentMessage(i))
           IN  /\ signed = guardDigest(i, ChainId, getAddress[verifyingContract])
               /\ canonicalizeIntent(i) # Throws =>
                      signed = intentDigest(i, ChainId, verifyingContract)
<1> DEFINE domain == buildIntentDomain(ChainId, verifyingContract)
           message == [agent |-> i.agent, wallet |-> i.wallet, target |-> i.target,
                       value |-> i.value, calldataHash |-> keccak256(i.data),
                       nonce |-> i.nonce, deadline |-> i.deadline,
                       policyHash |-> i.policyHash]
<1>1. signTypedData(domain, typedIntentMessage(i)) = TypedHash(domain, message)
    BY MessageOfIntent DEF signTypedData
<1>2. \A a \in DOMAIN getAddress :
          getAddress[a] \in DOMAIN getAddress /\ getAddress[getAddress[a]] = getAddress[a]
    <2> SUFFICES ASSUME NEW a \in DOMAIN getAddress
                 PROVE  /\ getAddress[a] \in DOMAIN getAddress
                        /\ getAddress[getAddress[a]] = getAddress[a]
        OBVIOUS
    <2> DEFINE b == getAddress[a]
    <2>1. b \in Range(getAddress)
        BY DEF Range
    <2> HIDE DEF b
    <2>2. b \in DOMAIN getAddress /\ getAddress[b] = b
        BY <2>1, TextAssumption
    <2> QED
        BY <2>2 DEF b
<1>3. buildIntentDomain(ChainId, getAddress[verifyingContract]) = domain
    BY <1>2 DEF buildIntentDomain, isAddress
<1>4. guardDigest(i, ChainId, getAddress[verifyingContract]) = TypedHash(domain, message)
    BY <1>3 DEF guardDigest
<1>5. /\ i.agent \in DOMAIN getAddress /\ i.wallet \in DOMAIN getAddress
      /\ i.target \in DOMAIN getAddress
    BY DEF Signable, Canonical, isAddress
<1> DEFINE canonical == canonicalizeIntent(i)
<1>6. canonical = [agent |-> getAddress[i.agent], wallet |-> getAddress[i.wallet],
                   target |-> getAddress[i.target], value |-> i.value,
                   calldataHash |-> keccak256(i.data), nonce |-> i.nonce,
                   deadline |-> i.deadline, policyHash |-> i.policyHash]
    BY DEF canonicalizeIntent, Signable
<1>7. TypedHash(domain, canonical) = TypedHash(domain, message)
    <2> HIDE DEF canonical
    <2>1. /\ getAddress[canonical.agent] = getAddress[message.agent]
          /\ getAddress[canonical.wallet] = getAddress[message.wallet]
          /\ getAddress[canonical.target] = getAddress[message.target]
        BY <1>2, <1>5, <1>6
    <2>2. /\ canonical.value = message.value /\ canonical.nonce = message.nonce
          /\ canonical.deadline = message.deadline
          /\ canonical.calldataHash = message.calldataHash
          /\ canonical.policyHash = message.policyHash
        BY <1>6
    <2>3. \A f \in Amounts : canonical[f] = message[f]
        BY <2>2 DEF Amounts
    <2> HIDE DEF message
    <2> QED
        BY <2>1, <2>2, <2>3 DEF TypedHash
<1>8. canonical # Throws =>
          intentDigest(i, ChainId, verifyingContract) = TypedHash(domain, canonical)
    BY DEF intentDigest
<1> QED
    BY <1>1, <1>4, <1>7, <1>8

-----------------------------------------------------------------------------
Signed(i) ==
    signTypedData(buildIntentDomain(ChainId, verifyingContract), typedIntentMessage(i))

(***************************************************************************)
(* Behind every prepared, posted or submitted request there is one intent, *)
(* and what is held of it was computed from it.                            *)
(***************************************************************************)
Behind(i) ==
    /\ Signable(i)
    /\ canonicalizeIntent(i) # Throws
    /\ desk.at = "prepared" =>
           /\ desk.intent = serializeIntent(i)
           /\ desk.digest = intentDigest(i, ChainId, verifyingContract)
           /\ desk.domain = buildIntentDomain(ChainId, verifyingContract)
           /\ desk.message = typedIntentMessage(i)
    /\ desk.at = "posted" =>
           /\ desk.body = sdkSerializeIntent(serializeIntent(i))
           /\ desk.digest = intentDigest(i, ChainId, verifyingContract)
           /\ desk.signature = Signed(i)
    /\ desk.at = "submitted" =>
           /\ desk.intent = i
           /\ desk.told = intentDigest(i, ChainId, verifyingContract)
           /\ desk.signature = Signed(i)

FlowInv ==
    /\ \A key \in DOMAIN tools : tools[key] \in Definition
    /\ desk.at # "refused"
    /\ desk.at \in {"prepared", "posted", "submitted"} => \E i : Behind(i)
    /\ ResolvedAsRequested

(***************************************************************************)
(* tool-request.ts, resolveToolRequest: what it returns is made of the     *)
(* definition and the request, which are of one tool and action.           *)
(***************************************************************************)
LEMMA Resolved ==
    ASSUME NEW body, NEW d \in Definition, asToolRequest(body) # Throws,
           resolveToolRequest(d, asToolRequest(body)) # Throws
    PROVE  LET request == Read(Whole(body))
               i == intentOf(d, request)
           IN  /\ asToolRequest(body) = request
               /\ resolveToolRequest(d, request) = i
               /\ request.tool = d.tool /\ request.action = d.action
               /\ Canonical(i)
               /\ HasTexts(Whole(body), {"agent", "wallet", "policyHash"} \cup Amounts)
               /\ {"tool", "action", "args"} \subseteq DOMAIN body
               /\ Readable(Whole(body))
<1>1. asToolRequest(body) = Read(Whole(body))
    BY DEF asToolRequest
<1>2. /\ HasTexts(Whole(body), {"agent", "wallet", "policyHash"} \cup Amounts)
      /\ {"tool", "action", "args"} \subseteq DOMAIN body
      /\ Readable(Whole(body))
    BY DEF asToolRequest
<1>3. resolveToolRequest(d, Read(Whole(body))) # Throws
    BY <1>1
<1> QED
    BY <1>1, <1>2, <1>3 DEF resolveToolRequest

LEMMA ResolvedIsSignable ==
    ASSUME NEW body, NEW d \in Definition, asToolRequest(body) # Throws,
           resolveToolRequest(d, asToolRequest(body)) # Throws,
           intentDigest(resolveToolRequest(d, asToolRequest(body)), ChainId,
                        verifyingContract) # Throws
    PROVE  LET i == intentOf(d, Read(Whole(body)))
           IN  Signable(i) /\ canonicalizeIntent(i) # Throws
<1> DEFINE whole == Whole(body)
           request == Read(whole)
           i == intentOf(d, request)
<1>1. /\ Canonical(i)
      /\ HasTexts(whole, {"agent", "wallet", "policyHash"} \cup Amounts)
      /\ Readable(whole)
      /\ intentDigest(i, ChainId, verifyingContract) # Throws
    BY Resolved
<1> HIDE DEF whole
<1>2. canonicalizeIntent(i) # Throws
    BY <1>1 DEF intentDigest
<1>3. \A f \in Amounts : canonicalizeIntent(i)[f] \in 0..MaxUint
    BY <1>1, <1>2 DEF intentDigest, TypedHash
<1>4. /\ canonicalizeIntent(i).value = i.value /\ canonicalizeIntent(i).nonce = i.nonce
      /\ canonicalizeIntent(i).deadline = i.deadline
    BY <1>1 DEF canonicalizeIntent
<1>5. \A f \in Amounts : i[f] \in 0..MaxUint
    BY <1>3, <1>4 DEF Amounts
<1>6. \A f \in Amounts : f \in DOMAIN whole /\ request[f] \in Range(BigInt)
    BY <1>1 DEF HasTexts, Readable, Read, Range
<1>7. \A f \in Amounts : i[f] = request[f]
    BY DEF intentOf, Amounts
<1>8. \A f \in Amounts : i[f] \in DOMAIN toString
    BY <1>6, <1>7, TextAssumption
<1>9. /\ i.agent = whole.agent /\ i.wallet = whole.wallet
      /\ i.policyHash = whole.policyHash /\ i.target = d.target
    BY <1>1 DEF intentOf, HasTexts, Read, Amounts
<1>10. d.target \in Text
    BY DeskAssumption, TextAssumption
<1>11. i.data \in Text
    BY <1>1, TextAssumption DEF Canonical
<1>12. /\ i.agent \in Text /\ i.wallet \in Text /\ i.target \in Text
       /\ i.policyHash \in Text
    BY <1>1, <1>9, <1>10 DEF HasTexts
<1>13. i = [f \in IntentFields |-> i[f]]
    BY DEF intentOf, IntentFields, Amounts
<1> HIDE DEF i
<1>14. \A f \in IntentFields \ Amounts : i[f] \in Text
    BY <1>11, <1>12 DEF IntentFields, Amounts
<1>15. \A f \in IntentFields : i[f] \in Text \cup Int
    <2>1. \A f \in Amounts : i[f] \in Int
        BY <1>5
    <2> QED
        BY <2>1, <1>14
<1>16. i \in [IntentFields -> Text \cup Int]
    BY <1>13, <1>15
<1> QED
    BY <1>1, <1>2, <1>5, <1>8, <1>14, <1>16 DEF Signable, i, whole

LEMMA FlowInvInit == Init => FlowInv
BY DEF Init, FlowInv, ResolvedAsRequested

LEMMA PrepareKeepsFlow ==
    ASSUME NEW body \in Body, Prepare(body), FlowInv
    PROVE  FlowInv'
<1>1. /\ tools' = tools
      /\ \A key \in DOMAIN tools' : tools'[key] \in Definition
    BY DEF Prepare, FlowInv
<1>2. CASE desk'.at = "answered"
    BY <1>1, <1>2 DEF FlowInv, ResolvedAsRequested
<1>3. CASE desk'.at # "answered"
    <2> DEFINE asked == asToolRequest(body)
               key == keyOf(asked.tool, asked.action)
               request == Read(Whole(body))
    <2>1. /\ asked # Throws
          /\ tools[key] \in Definition
          /\ resolveToolRequest(tools[key], asked) # Throws
          /\ intentDigest(resolveToolRequest(tools[key], asked), ChainId,
                          verifyingContract) # Throws
          /\ desk' = [at |-> "prepared", body |-> body,
                      intent |-> serializeIntent(resolveToolRequest(tools[key], asked)),
                      digest |-> intentDigest(resolveToolRequest(tools[key], asked), ChainId,
                                              verifyingContract),
                      domain |-> buildIntentDomain(ChainId, verifyingContract),
                      message |-> typedIntentMessage(resolveToolRequest(tools[key], asked))]
        BY <1>3 DEF Prepare, Answer, FlowInv
    <2> PICK d \in Definition : d = tools[key]
        BY <2>1
    <2> DEFINE i == intentOf(d, request)
    <2>2. /\ asked = request
          /\ resolveToolRequest(d, asked) = i
          /\ request.tool = d.tool /\ request.action = d.action
          /\ HasTexts(Whole(body), {"agent", "wallet", "policyHash"} \cup Amounts)
          /\ {"tool", "action", "args"} \subseteq DOMAIN body
        BY <2>1, Resolved
    <2>3. Signable(i) /\ canonicalizeIntent(i) # Throws
        BY <2>1, ResolvedIsSignable
    <2>4. /\ desk'.at = "prepared" /\ desk'.body = body
          /\ desk'.intent = serializeIntent(i)
          /\ desk'.digest = intentDigest(i, ChainId, verifyingContract)
          /\ desk'.domain = buildIntentDomain(ChainId, verifyingContract)
          /\ desk'.message = typedIntentMessage(i)
        BY <2>1, <2>2
    <2>5. Behind(i)'
        BY <2>3, <2>4 DEF Behind
    <2>6. ResolvedAsRequested'
        <3>1. /\ body.tool = d.tool /\ body.action = d.action
              /\ i.data = d.encodes[body.args] /\ i.target = d.target
            BY <2>2 DEF Read, Whole, intentOf, Amounts
        <3>2. /\ i.agent = body.agent /\ i.wallet = body.wallet
              /\ i.policyHash = body.policyHash
            BY <2>2 DEF Read, Whole, intentOf, Amounts, HasTexts
        <3>3. /\ i.nonce = BigInt[body.nonce] /\ i.deadline = BigInt[body.deadline]
              /\ i.value = IF "value" \in DOMAIN body THEN BigInt[body.value] ELSE 0
            <4>1. /\ i.value = BigInt[Whole(body).value]
                  /\ i.nonce = BigInt[Whole(body).nonce]
                  /\ i.deadline = BigInt[Whole(body).deadline]
                BY <2>2 DEF Read, intentOf, Amounts, HasTexts
            <4>2. /\ Whole(body).value = IF "value" \in DOMAIN body THEN body.value ELSE "0"
                  /\ Whole(body).nonce = body.nonce
                  /\ Whole(body).deadline = body.deadline
                BY <2>2 DEF Whole, HasTexts, Amounts
            <4> QED
                BY <4>1, <4>2, TextAssumption
        <3> HIDE DEF i
        <3>4. Read(typedIntentMessage(i)) = Asked(body, d)
            BY <2>3, <3>1, <3>2, <3>3, MessageOfIntent DEF Asked
        <3>5. intentDigest(i, ChainId, verifyingContract) =
                  TypedHash(buildIntentDomain(ChainId, verifyingContract), Asked(body, d))
            BY <2>3, <3>4, ThreeHashesAgree, DeskAssumption DEF signTypedData
        <3>6. \A f \in DOMAIN typedIntentMessage(i) :
                  serializeIntent(i)[f] = typedIntentMessage(i)[f]
            BY DEF typedIntentMessage, serializeIntent, AsText, IntentFields, Amounts
        <3>7. serializeIntent(i).data = i.data
            BY DEF serializeIntent, AsText, IntentFields, Amounts
        <3> QED
            BY <2>4, <3>1, <3>4, <3>5, <3>6, <3>7 DEF ResolvedAsRequested
    <2> QED
        BY <1>1, <2>4, <2>5, <2>6 DEF FlowInv
<1> QED
    BY <1>2, <1>3

LEMMA FlowInvStep == FlowInv /\ [Next]_vars => FlowInv'
<1> SUFFICES ASSUME FlowInv, [Next]_vars
             PROVE  FlowInv'
    OBVIOUS
<1> USE DEF FlowInv, ResolvedAsRequested
<1>1. ASSUME desk' = desk, \A key \in DOMAIN tools' : tools'[key] \in Definition
      PROVE  FlowInv'
    BY <1>1 DEF Behind
<1>2. ASSUME desk'.at \in {"idle", "answered", "assessed", "inspected"}, tools' = tools
      PROVE  FlowInv'
    BY <1>2
<1>3. ASSUME NEW definition \in Definition, Register(definition)
      PROVE  FlowInv'
    BY <1>1, <1>3 DEF Register
<1>4. ASSUME NEW body \in Body, Prepare(body)
      PROVE  FlowInv'
    BY <1>4, PrepareKeepsFlow
<1>5. ASSUME SignAndPost
      PROVE  FlowInv'
    <2>1. PICK i : Behind(i)
        BY <1>5 DEF SignAndPost
    <2>2. /\ desk'.at = "posted" /\ tools' = tools
          /\ desk'.body = sdkSerializeIntent(desk.intent)
          /\ desk'.digest = desk.digest
          /\ desk'.signature = signTypedData(desk.domain, desk.message)
        BY <1>5 DEF SignAndPost
    <2>3. Behind(i)'
        BY <1>5, <2>1, <2>2 DEF Behind, Signed, SignAndPost
    <2> QED
        BY <2>2, <2>3
<1>6. ASSUME Submit
      PROVE  FlowInv'
    <2>1. PICK i : Behind(i)
        BY <1>6 DEF Submit
    <2>2. /\ Signable(i)
          /\ desk.body = sdkSerializeIntent(serializeIntent(i))
        BY <1>6, <2>1 DEF Behind, Submit
    <2>3. /\ asExecutionIntent(desk.body) = i /\ i # Throws /\ Encodable(i)
        BY <2>2, SentBackUnchanged
    <2>4. /\ desk' = [at |-> "submitted", intent |-> i, told |-> desk.digest,
                      signature |-> desk.signature]
          /\ tools' = tools
        BY <1>6, <2>3 DEF Submit
    <2>5. Behind(i)'
        BY <1>6, <2>1, <2>4 DEF Behind, Submit
    <2> QED
        BY <2>4, <2>5
<1>7. ASSUME NEW answers \in Answers, NEW block \in BOOLEAN, Assess(answers, block)
      PROVE  FlowInv'
    BY <1>2, <1>7 DEF Assess
<1>8. ASSUME NEW view \in View, NEW data \in Data, Inspect(view, data)
      PROVE  FlowInv'
    BY <1>2, <1>8 DEF Inspect
<1>9. ASSUME Finish
      PROVE  FlowInv'
    BY <1>2, <1>9 DEF Finish
<1>10. CASE UNCHANGED vars
    BY <1>1, <1>10 DEF vars
<1> QED
    BY <1>3, <1>4, <1>5, <1>6, <1>7, <1>8, <1>9, <1>10 DEF Next

(***************************************************************************)
(* tool-request.ts, resolveToolRequest, and intent.ts: intent, message and *)
(* digest of a prepared request are what was asked in every field, for the *)
(* tool and action that were named, although two tools may have the same   *)
(* key and a later one may have taken the entry.                           *)
(***************************************************************************)
THEOREM RequestsResolve == Spec => []ResolvedAsRequested
<1>1. FlowInv => ResolvedAsRequested
    BY DEF FlowInv
<1> QED
    BY <1>1, FlowInvInit, FlowInvStep, PTL DEF Spec

(***************************************************************************)
(* sdk/index.ts, runtime/intent.ts and api/app.ts, from prepare to the     *)
(* call of the Guard: what was prepared is accepted again, and the digest  *)
(* told, the signature and the Guard's hash of its arguments are one.      *)
(***************************************************************************)
THEOREM SignaturesVerify == Spec => []PreparedIntentVerifies
<1>1. FlowInv => PreparedIntentVerifies
    <2>1. SUFFICES ASSUME FlowInv, desk.at = "submitted"
                   PROVE  /\ desk.signature = guardDigest(desk.intent, ChainId,
                                                          getAddress[verifyingContract])
                          /\ desk.signature = desk.told
        BY DEF PreparedIntentVerifies, FlowInv
    <2>2. PICK i : Behind(i)
        BY <2>1 DEF FlowInv
    <2>3. /\ Signable(i) /\ canonicalizeIntent(i) # Throws
          /\ desk.intent = i /\ desk.signature = Signed(i)
          /\ desk.told = intentDigest(i, ChainId, verifyingContract)
        BY <2>1, <2>2 DEF Behind
    <2> QED
        BY <2>3, ThreeHashesAgree, DeskAssumption DEF Signed
<1> QED
    BY <1>1, FlowInvInit, FlowInvStep, PTL DEF Spec
=============================================================================
