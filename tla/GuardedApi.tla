----------------------------- MODULE GuardedApi -----------------------------
(***************************************************************************)
(* api/app.ts, api/server.ts and runtime/executor.ts: requests to the HTTP *)
(* API, each suspended at its awaits while others go on, over the promise  *)
(* that the contracts keep (SpendingMandate).                              *)
(*                                                                         *)
(* A handler is the list of its awaits.  Between two of them it runs       *)
(* without interruption, so one step is one settled await and everything   *)
(* up to the next.  Transactions wait in a pool of their own; the server   *)
(* may crash and forget all requests, the pool and the chain do not.       *)
(***************************************************************************)
EXTENDS RiskAssessment, SpendingMandate

CONSTANTS
    Connection,     \* open HTTP connections; one request at a time on each
    Service,        \* the optional parts of CwfApiContext that are configured
    Provider,       \* the risk providers, if "risk" is configured
    Answer,         \* what a provider may answer
    Route,          \* per connection, the routes that its client uses
    Intent,         \* intents: agent, policy, value, nonce and call
    Body,           \* requests that clients send: an intent and a signed intent
    Permitted,      \* calls the policies allow
    DemoAgent, DemoPolicy, DemoCall, TamperedCall, BlockedCall,
    NoIntent,       \* a request that has no intent yet
    MaxSent         \* bound on the transactions the relayer sends

\* value is what the intent makes a wallet pay.
IntentType ==
    [agent : Agent, policy : Policy, value : Value, nonce : Nonce,
     call : Permitted \cup {TamperedCall, BlockedCall}]

ASSUME ApiAssumption ==
    /\ Intent \subseteq IntentType
    /\ Body \subseteq [intent : Intent, signed : Intent]
    /\ Answer \subseteq ProviderAnswer
    /\ NoIntent \notin Intent
    /\ Nonce \subseteq Nat /\ 0 \in Nonce
    /\ DemoAgent \in Agent /\ DemoPolicy \in Policy /\ 0 \in Value
    /\ DemoCall \in Permitted /\ {TamperedCall, BlockedCall} \cap Permitted = {}
    /\ MaxSent \in Nat

VARIABLES
    exchange,       \* per connection, the request being served or answered
    sent            \* the relayer's transactions, with what was known of each

apiVars == <<exchange, sent>>
vars == <<mandateVars, apiVars>>

-----------------------------------------------------------------------------
(***************************************************************************)
(* The handlers.  An await says what it waits for and what is answered if  *)
(* it fails; "goOn" marks the failures a handler takes as its result.      *)
(* needs are the configured parts without which it answers without; gate:  *)
(* a verdict other than CLEAR is answered with BLOCK at once.  Risk never  *)
(* fails: safeAssess turns every failure of a provider into an answer.     *)
(***************************************************************************)
Await(what, onFailure) == [for |-> what, fails |-> onFailure]

Handler(needs, without, gate, awaits, done) ==
    [needs |-> needs, without |-> without, gate |-> gate, awaits |-> awaits, done |-> done]

riskAssess == Handler({}, "error", FALSE,
    <<Await("body", "error"), Await("risk", "never")>>, "ok")

prepare == Handler({}, "error", FALSE,
    <<Await("body", "error"), Await("risk", "never")>>, "ok")

preflight == Handler({"preflight"}, "unavailable", TRUE,
    <<Await("body", "error"), Await("risk", "never"), Await("staticCall", "BLOCK")>>,
    "ALLOW")

\* A bug that execute does not have: it trusts that the client ran preflight.
executeAtOnce == Handler({"executor", "preflight"}, "unavailable", TRUE,
    <<Await("body", "error"), Await("risk", "never"),
      Await("submit", "error"), Await("wait", "error")>>, "ALLOW")

\* A bug that execute does not have: one try around preflight and execution.
executeInOneTry == Handler({"executor", "preflight"}, "unavailable", TRUE,
    <<Await("body", "error"), Await("risk", "never"), Await("staticCall", "BLOCK"),
      Await("submit", "BLOCK"), Await("wait", "BLOCK")>>, "ALLOW")

\* A bug that execute does not have: it answers with the hash at once.
executeUnmined == Handler({"executor", "preflight"}, "unavailable", TRUE,
    <<Await("body", "error"), Await("risk", "never"), Await("staticCall", "BLOCK"),
      Await("submit", "error")>>, "ALLOW")

execute == Handler({"executor", "preflight"}, "unavailable", TRUE,
    <<Await("body", "error"), Await("risk", "never"), Await("staticCall", "BLOCK"),
      Await("submit", "error"), Await("wait", "error")>>, "ALLOW")

agentDemo == Handler({"demoGuard"}, "error", FALSE,
    <<Await("nonce", "error"), Await("risk", "never")>>, "ready")

demoExecute == Handler({"demoGuard", "demoSigner"}, "error", TRUE,
    <<Await("nonce", "error"), Await("risk", "never"), Await("staticCall", "BLOCK"),
      Await("submit", "BLOCK"), Await("wait", "BLOCK")>>, "ALLOW")

securityDemo == Handler({"demoGuard", "demoSigner"}, "error", TRUE,
    <<Await("nonce", "error"), Await("risk", "never"), Await("staticCall", "error"),
      Await("submit", "error"), Await("wait", "error"), Await("nonce", "error"),
      Await("attack", "goOn"), Await("nonce", "error")>>, "ALLOW_THEN_BLOCK")

tamperTest == Handler({"demoGuard", "demoSigner"}, "error", FALSE,
    <<Await("nonce", "error"), Await("attack", "goOn")>>, "BLOCK")

blockTest == Handler({"demoGuard", "demoSigner"}, "error", FALSE,
    <<Await("nonce", "error"), Await("attack", "goOn"), Await("risk", "never")>>, "BLOCK")

riskDemo == Handler({}, "error", FALSE, <<Await("risk", "never")>>, "ok")

handlerOf ==
    [riskAssess |-> riskAssess, prepare |-> prepare, preflight |-> preflight,
     execute |-> execute, agentDemo |-> agentDemo, demoExecute |-> demoExecute,
     securityDemo |-> securityDemo, tamperTest |-> tamperTest,
     blockTest |-> blockTest, riskDemo |-> riskDemo]

ASSUME RouteAssumption == \A c \in Connection : Route[c] \subseteq DOMAIN handlerOf

\* Where a missing risk configuration means that nobody is asked.
RiskIsOptional == {"prepare", "preflight", "execute"}

-----------------------------------------------------------------------------
NoRequest ==
    [route |-> "none", at |-> 0, intent |-> NoIntent, signed |-> NoIntent,
     answers |-> <<>>, checked |-> NoIntent, nonces |-> <<>>, tx |-> 0, answer |-> "none"]

Serving(c) == exchange[c].route # "none" /\ exchange[c].answer = "none"

\* The await at which the request on a connection is suspended.
Pending(c) == handlerOf[exchange[c].route].awaits[exchange[c].at]
Awaits(c, what) == Serving(c) /\ Pending(c).for = what

Becomes(c, e) == exchange' = [exchange EXCEPT ![c] = e]

\* send, and the return after it: what the handler knew is forgotten.
Answered(e, answer) == [NoRequest EXCEPT !.route = e.route, !.tx = e.tx, !.answer = answer]
Reply(c, answer) == Becomes(c, Answered(exchange[c], answer))

\* The await went well: to the next one, or to the answer at the end, which
\* tells the intent and the nonces that were read.
Proceed(c, e) ==
    LET handler == handlerOf[e.route]
        report == [Answered(e, handler.done) EXCEPT !.intent = e.intent, !.nonces = e.nonces]
    IN  Becomes(c, IF e.at < Len(handler.awaits) THEN [e EXCEPT !.at = @ + 1] ELSE report)

Fails(c) == Reply(c, Pending(c).fails)

\* A bug that Acceptable does not have: a nonce that was used before.
AcceptableAgain(intent, signed) ==
    /\ signed = intent
    /\ intent.call \in Permitted
    /\ Affordable(intent.policy, intent.value)

\* What the Guard's checks come to for an intent and what was really signed.
Acceptable(intent, signed) ==
    /\ signed = intent
    /\ intent.call \in Permitted
    /\ intent.nonce = nextFree[intent.agent]
    /\ Affordable(intent.policy, intent.value)

-----------------------------------------------------------------------------
Open(c, route) ==
    LET handler == handlerOf[route]
        e == [NoRequest EXCEPT !.route = route, !.at = 1]
    IN  /\ ~Serving(c)
        /\ Becomes(c, IF handler.needs \subseteq Service THEN e
                      ELSE Answered(e, handler.without))
        /\ UNCHANGED <<mandateVars, sent>>

\* readJson and the parsing of the body.
ReadBody(c, body) ==
    /\ Awaits(c, "body")
    /\ Proceed(c, [exchange[c] EXCEPT !.intent = body.intent, !.signed = body.signed])
    /\ UNCHANGED <<mandateVars, sent>>

\* Too long, no JSON, broken off, a field missing or not to be parsed.
BodyFails(c) ==
    /\ Awaits(c, "body")
    /\ Fails(c)
    /\ UNCHANGED <<mandateVars, sent>>

ToolMissing(c) ==
    /\ Awaits(c, "body")
    /\ exchange[c].route = "prepare"
    /\ Reply(c, "notFound")
    /\ UNCHANGED <<mandateVars, sent>>

\* The demo's intents, made and signed on the server for the nonce just read.
DemoIntent(call, nonce) ==
    [agent |-> DemoAgent, policy |-> DemoPolicy, value |-> 0, nonce |-> nonce, call |-> call]

DemoCallOf(e) ==
    CASE e.route = "blockTest" -> BlockedCall
      [] e.route = "tamperTest" \/ (e.route = "securityDemo" /\ e.nonces # <<>>)
             -> TamperedCall
      [] OTHER -> DemoCall

\* A bug that nextNonce does not have: the nonce after the next.
nextNonceAfter(agent) == nextFree[agent] + 1

\* What the Guard's nextNonce returns.  There is one Guard for all routes: the demo
\* routes ask demoState.guard, and the others the Guard of CWF_GUARD_ADDRESS or of
\* the benchmark, which are different contracts unless the operator makes them one.
nextNonce(agent) == nextFree[agent]

ReadNonce(c) ==
    LET e == exchange[c]
        nonce == nextNonce(DemoAgent)
        intent == DemoIntent(DemoCallOf(e), nonce)
        signed == IF intent.call = TamperedCall THEN DemoIntent(DemoCall, nonce) ELSE intent
        read == [e EXCEPT !.nonces = Append(@, nonce)]
    IN  /\ Awaits(c, "nonce")
        /\ Proceed(c, IF Len(e.nonces) = 2 THEN read
                      ELSE [read EXCEPT !.intent = intent, !.signed = signed])
        /\ UNCHANGED <<mandateVars, sent>>

NonceFails(c) ==
    /\ Awaits(c, "nonce")
    /\ Fails(c)
    /\ UNCHANGED <<mandateVars, sent>>

Stops(handler, verdict) == handler.gate /\ verdict # "CLEAR"

\* Promise.all over the providers settles once, whoever of them fails.  For
\* agent/demo this is the last await, and the verdict the answer.
AskRisk(c) ==
    LET e == exchange[c]
        handler == handlerOf[e.route]
        asked == IF "risk" \in Service THEN [Provider -> Answer] ELSE {<<>>}
    IN  /\ Awaits(c, "risk")
        /\ \E answers \in asked :
              LET verdict == IF "risk" \notin Service /\ e.route \in RiskIsOptional
                             THEN "CLEAR" ELSE assessRisk(answers, FALSE).status
              IN  CASE Stops(handler, verdict) -> Reply(c, "BLOCK")
                    [] e.route = "agentDemo" ->
                           Reply(c, IF verdict = "CLEAR" THEN "READY" ELSE "BLOCK")
                    [] OTHER -> Proceed(c, [e EXCEPT !.answers =
                                                IF handler.gate THEN answers ELSE @])
        /\ UNCHANGED <<mandateVars, sent>>

\* executeFromWallet.staticCall; whatever else goes wrong counts as a refusal.
StaticCall(c) ==
    LET e == exchange[c]
    IN  /\ Awaits(c, "staticCall")
        /\ \/ /\ Acceptable(e.intent, e.signed)
              /\ Proceed(c, [e EXCEPT !.checked = e.intent])
           \/ Fails(c)
        /\ UNCHANGED <<mandateVars, sent>>

\* The demos' static call of an intent that has to be refused.
Attack(c) ==
    LET e == exchange[c]
    IN  /\ Awaits(c, "attack")
        /\ \/ /\ Acceptable(e.intent, e.signed)
              /\ Reply(c, "unexpected")
           \/ Proceed(c, e)
        /\ UNCHANGED <<mandateVars, sent>>

\* Refused by the node; broadcast; or broadcast while the answer is lost.
Submit(c) ==
    LET e == exchange[c]
        aware == [e EXCEPT !.tx = Len(sent) + 1]
    IN  /\ Awaits(c, "submit")
        /\ \/ Fails(c) /\ UNCHANGED sent
           \/ /\ Len(sent) < MaxSent
              /\ sent' = Append(sent, [intent |-> e.intent, signed |-> e.signed,
                                       answers |-> e.answers, checked |-> e.checked,
                                       outcome |-> "pending", payment |-> 0])
              /\ Proceed(c, aware) \/ Becomes(c, Answered(aware, Pending(c).fails))
        /\ UNCHANGED mandateVars

\* The wait of a handler ends with one of the outcomes that it takes notice of.
WaitFor(c, outcomes) ==
    LET e == exchange[c]
        outcome == sent[e.tx].outcome
    IN  /\ Awaits(c, "wait")
        /\ outcome \in outcomes
        /\ IF outcome = "mined" THEN Proceed(c, e) ELSE Fails(c)
        /\ UNCHANGED <<mandateVars, sent>>

\* A bug that Wait does not have: it polls for the receipt of its hash.
WaitForReceipt(c) == WaitFor(c, {"mined", "reverted"})

\* tx.wait() also notices that another transaction took the account's nonce.
Wait(c) == WaitFor(c, {"mined", "reverted", "replaced"})

\* The connection to the node breaks while a handler waits for its receipt.
WaitFails(c) ==
    /\ Awaits(c, "wait")
    /\ Fails(c)
    /\ UNCHANGED <<mandateVars, sent>>

-----------------------------------------------------------------------------
(***************************************************************************)
(* What goes on outside of the server.                                     *)
(***************************************************************************)

\* The chain decides about a transaction, in any order.  It may revert for
\* reasons of the target, the gas or the deadline, too, and the account's nonce
\* may go to another transaction of the same key.
Mine(k) ==
    LET t == sent[k]
    IN  /\ t.outcome = "pending"
        /\ \/ /\ Acceptable(t.intent, t.signed)
              /\ Settle(t.intent.agent, t.intent.policy, t.intent.value)
              /\ sent' = [sent EXCEPT ![k].outcome = "mined",
                                      ![k].payment = Len(payments) + 1]
           \/ /\ \E outcome \in {"reverted", "replaced"} :
                     sent' = [sent EXCEPT ![k].outcome = outcome]
              /\ UNCHANGED mandateVars
        /\ UNCHANGED exchange

\* The Guard is open to everybody: other relayers, owners, other policies.
Elsewhere == MandateNext /\ UNCHANGED apiVars

\* The process ends and is started again.
Crash ==
    /\ exchange' = [c \in Connection |-> NoRequest]
    /\ UNCHANGED <<mandateVars, sent>>

-----------------------------------------------------------------------------
ApiInit ==
    /\ exchange = [c \in Connection |-> NoRequest]
    /\ sent = <<>>

Init == MandateInit /\ ApiInit

\* What a suspended request may go on with, each settled by server or node.
Serve(c) ==
    \/ BodyFails(c) \/ ToolMissing(c)
    \/ ReadNonce(c) \/ NonceFails(c)
    \/ AskRisk(c)
    \/ StaticCall(c) \/ Attack(c)
    \/ Submit(c)
    \/ Wait(c)

Step(c) == Serve(c) \/ \E body \in Body : ReadBody(c, body)

Next ==
    \/ \E c \in Connection : \E route \in Route[c] : Open(c, route)
    \/ \E c \in Connection : Step(c) \/ WaitFails(c)
    \/ \E k \in DOMAIN sent : Mine(k)
    \/ Elsewhere
    \/ Crash

Spec == Init /\ [][Next]_vars

-----------------------------------------------------------------------------
Request ==
    [route : DOMAIN handlerOf, at : 0..8, intent : IntentType \cup {NoIntent},
     signed : IntentType \cup {NoIntent}, answers : [Provider -> Answer] \cup {<<>>},
     checked : IntentType \cup {NoIntent}, nonces : Seq(Nonce), tx : 0..MaxSent,
     answer : {"none", "ok", "error", "unavailable", "notFound", "READY", "ready",
               "ALLOW", "BLOCK", "ALLOW_THEN_BLOCK", "unexpected"}]

Transaction ==
    [intent : IntentType, signed : IntentType,
     answers : [Provider -> Answer] \cup {<<>>}, checked : IntentType \cup {NoIntent},
     outcome : {"pending", "mined", "reverted", "replaced"}, payment : Nat]

\* What CwfApiContext, the requests and the transactions hold, and that a handler
\* refers to a transaction that exists.
ApiTypeOK ==
    /\ exchange \in [Connection -> Request \cup {NoRequest}]
    /\ sent \in Seq(Transaction) /\ Len(sent) <= MaxSent
    /\ \A c \in Connection : exchange[c].tx <= Len(sent)
    /\ \A c \in Connection : Awaits(c, "wait") => exchange[c].tx # 0

\* THREAT_MODEL.md I17, "the API is fail-closed": whatever the relayer sends, it
\* has called statically as it was sent and as it was signed, after every
\* provider gave a usable, undegraded, clear answer about it.
SubmittedWasVetted ==
    \A k \in DOMAIN sent :
        LET t == sent[k]
        IN  /\ t.checked = t.intent /\ t.signed = t.intent
            /\ t.intent.call \in Permitted
            /\ "risk" \in Service =>
                   /\ Provider # {} /\ DOMAIN t.answers = Provider
                   /\ \A p \in Provider :
                          /\ Usable(t.answers[p])
                          /\ t.answers[p].status = "CLEAR" /\ ~t.answers[p].degraded

\* The answers that report an execution.
ReportsPayment(e) ==
    e.answer = "ALLOW_THEN_BLOCK" \/ (e.answer = "ALLOW" /\ e.route # "preflight")

\* Answering ALLOW to an execution means that the very intent was paid, by a
\* payment and a transaction that no other answer reports, although everything
\* checked before the submission may have changed until it was mined.
AllowIsPaid ==
    \A c \in Connection :
        LET e == exchange[c]
            t == sent[e.tx]
            paid == payments[t.payment]
        IN  ReportsPayment(e) =>
                /\ e.tx # 0 /\ t.outcome = "mined"
                /\ <<paid.agent, paid.nonce, paid.policy, paid.value>> =
                      <<t.intent.agent, t.intent.nonce, t.intent.policy, t.intent.value>>
                /\ e.route = "execute" => t.intent = e.intent
                /\ \A d \in Connection \ {c} : exchange[d].tx # e.tx

\* BLOCK from anything but demo/execute means that the relayer sent nothing and
\* never will: a failure after the submission is answered as an error.
BlockMeansUnsent ==
    \A c \in Connection :
        exchange[c].answer = "BLOCK" /\ exchange[c].route # "demoExecute" =>
            exchange[c].tx = 0

\* README.md:186, of the security demo: "the Guardian nonce remained unchanged
\* after the blocked tampered attempt".  Read twice, around a call of its own, it
\* need not be.
NonceUnchangedByAttack ==
    \A c \in Connection :
        exchange[c].answer = "ALLOW_THEN_BLOCK" =>
            exchange[c].nonces[3] = exchange[c].nonces[2]
=============================================================================
