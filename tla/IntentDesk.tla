----------------------------- MODULE IntentDesk -----------------------------
(***************************************************************************)
(* One request after the other at the desk where api/app.ts prepares       *)
(* intents, and what the risk providers make of it: the composition of the *)
(* pure parts of runtime/ with the SDK's way of signing and sending back.  *)
(*                                                                         *)
(* No request waits here for another (GuardedApi has their interleavings), *)
(* but any spelling of any field may come, and the tool map is filled      *)
(* entry by entry.                                                         *)
(***************************************************************************)
EXTENDS Intents, RiskAssessment

CONSTANTS
    Definition,         \* the tools that may be defined
    Body,               \* the bodies posted to /v1/agent/prepare
    ChainId,
    verifyingContract,  \* the Guard's address, as the server is configured with it
    Answers,            \* answers of all providers to one question
    View,               \* what the node may show of a target
    Data                \* kinds of calldata

ASSUME DeskAssumption ==
    /\ MaxUint = MaxUint256
    /\ isAddress(verifyingContract)
    /\ View \subseteq ChainView /\ Data \subseteq Calldata
    /\ Throws \notin Definition
    /\ \A definition \in Definition : definition.target \in Range(getAddress)
    /\ \A answers \in Answers : \A p \in DOMAIN answers : answers[p] \in ProviderAnswer

VARIABLES
    tools,      \* CwfApiContext.tools: keys to definitions, a later entry wins
    desk        \* the last request and what has become of it

vars == <<tools, desk>>

Register(definition) ==
    /\ desk.at = "idle"
    /\ tools' = [key \in DOMAIN tools \cup {keyOf(definition.tool, definition.action)} |->
                     IF key = keyOf(definition.tool, definition.action) THEN definition
                     ELSE tools[key]]
    /\ UNCHANGED desk

Answer(status) == desk' = [at |-> "answered", status |-> status]

\* /v1/agent/prepare
Prepare(body) ==
    LET request == asToolRequest(body)
        key == keyOf(request.tool, request.action)
        intent == resolveToolRequest(tools[key], request)
        digest == intentDigest(intent, ChainId, verifyingContract)
    IN  /\ desk.at = "idle"
        /\ IF request = Throws THEN Answer(400)
           ELSE IF key \notin DOMAIN tools THEN Answer(404)
           ELSE IF intent = Throws THEN Answer(400)
           ELSE IF digest = Throws THEN Answer(400)
           ELSE desk' = [at |-> "prepared", body |-> body,
                         intent |-> serializeIntent(intent), digest |-> digest,
                         domain |-> buildIntentDomain(ChainId, verifyingContract),
                         message |-> typedIntentMessage(intent)]
        /\ UNCHANGED tools

\* prepareAndSign, and the body of the request that follows.
SignAndPost ==
    /\ desk.at = "prepared"
    /\ desk' = [at |-> "posted", body |-> sdkSerializeIntent(desk.intent),
                digest |-> desk.digest,
                signature |-> signTypedData(desk.domain, desk.message)]
    /\ UNCHANGED tools

\* /v1/agent/execute up to the call of the Guard.
Submit ==
    LET intent == asExecutionIntent(desk.body)
    IN  /\ desk.at = "posted"
        /\ IF intent = Throws \/ ~Encodable(intent) THEN desk' = [at |-> "refused"]
           ELSE desk' = [at |-> "submitted", intent |-> intent, told |-> desk.digest,
                         signature |-> desk.signature]
        /\ UNCHANGED tools

\* /v1/risk/assess
Assess(answers, deterministicBlock) ==
    /\ desk.at = "idle"
    /\ desk' = [at |-> "assessed", answers |-> answers, block |-> deterministicBlock,
                result |-> assessRisk(answers, deterministicBlock)]
    /\ UNCHANGED tools

\* The one provider that the server is configured with.
Inspect(view, data) ==
    /\ desk.at = "idle"
    /\ desk' = [at |-> "inspected", data |-> data,
                result |-> assessRisk([p \in {"onchain"} |-> assessOnChain(view, data)], FALSE)]
    /\ UNCHANGED tools

\* The handler returns.
Finish ==
    /\ desk.at \notin {"idle", "prepared", "posted"}
    /\ desk' = [at |-> "idle"]
    /\ UNCHANGED tools

Init ==
    /\ tools = <<>>
    /\ desk = [at |-> "idle"]

Next ==
    \/ \E definition \in Definition : Register(definition)
    \/ \E body \in Body : Prepare(body)
    \/ SignAndPost
    \/ Submit
    \/ \E answers \in Answers, block \in BOOLEAN : Assess(answers, block)
    \/ \E view \in View, data \in Data : Inspect(view, data)
    \/ Finish

Spec == Init /\ [][Next]_vars

-----------------------------------------------------------------------------
\* What the client signed is what the Guard will hash of the arguments it gets,
\* and what the server told as digest: three compositions of the same intent, from
\* text, from numbers and from text read again, in whatever spelling it was given.
\* And what was prepared is never refused on its way back.
PreparedIntentVerifies ==
    /\ desk.at # "refused"
    /\ desk.at = "submitted" =>
        /\ desk.signature = guardDigest(desk.intent, ChainId, getAddress[verifyingContract])
        /\ desk.signature = desk.told

\* What a request asks of a tool, field by field; a value left out is zero.
Asked(body, d) ==
    [agent |-> body.agent, wallet |-> body.wallet, target |-> d.target,
     value |-> IF "value" \in DOMAIN body THEN BigInt[body.value] ELSE 0,
     calldataHash |-> keccak256(d.encodes[body.args]), nonce |-> BigInt[body.nonce],
     deadline |-> BigInt[body.deadline], policyHash |-> body.policyHash]

\* The intent that is returned, the message the client will sign, and the digest it
\* is told are all what was asked of the very tool and action that were named, in
\* every field, although another tool may have the same key or have taken the entry
\* since, and whatever the spelling.
ResolvedAsRequested ==
    desk.at = "prepared" =>
        \E d \in Definition :
            /\ <<d.tool, d.action>> = <<desk.body.tool, desk.body.action>>
            /\ desk.intent.data = d.encodes[desk.body.args]
            /\ \A f \in DOMAIN desk.message : desk.intent[f] = desk.message[f]
            /\ Read(desk.message) = Asked(desk.body, d)
            /\ desk.digest = TypedHash(desk.domain, Asked(desk.body, d))

\* README.md, "Fail-closed by default": CLEAR needs at least one provider and a
\* usable, undegraded CLEAR of every one; nothing overrides a deterministic block.
ClearIsUnanimous ==
    desk.at = "assessed" /\ desk.result.status = "CLEAR" =>
        /\ ~desk.block
        /\ DOMAIN desk.answers # {}
        /\ \A p \in DOMAIN desk.answers :
              /\ Usable(desk.answers[p])
              /\ desk.answers[p].status = "CLEAR" /\ ~desk.answers[p].degraded

\* Calldata that gives an unlimited authority away is never cleared by the
\* server's provider, whatever the node shows and even if inspecting it throws.
GrantsAreReviewed ==
    desk.at = "inspected" /\ desk.data.hex /\ desk.data.twoWords /\ Grants(desk.data) =>
        desk.result.status # "CLEAR"
=============================================================================
