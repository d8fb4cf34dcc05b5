----------------------------- MODULE ApiProofs -----------------------------
(***************************************************************************)
(* What the API promises of its answers, for any number of connections,    *)
(* routes, providers, intents and transactions.                            *)
(***************************************************************************)
EXTENDS GuardedApi, RiskProofs

Senders == {"execute", "demoExecute", "securityDemo"}

AnswerKind == {"none", "ok", "error", "unavailable", "notFound", "READY", "ready",
               "ALLOW", "BLOCK", "ALLOW_THEN_BLOCK", "unexpected"}

Settled == {"body", "nonce", "staticCall", "submit", "wait"}

(***************************************************************************)
(* What all handlers of api/app.ts have in common: those that send ask for *)
(* risk, call statically, submit and wait as their second to fifth await,  *)
(* gated; no failure is an ALLOW.                                          *)
(***************************************************************************)
OrderOfAwaits(r) ==
    LET h == handlerOf[r]
    IN  /\ Len(h.awaits) \in 1..8
        /\ r \in Senders => h.gate /\ Len(h.awaits) >= 5
        /\ r = "execute" => Len(h.awaits) = 5
        /\ h.without \in {"error", "unavailable"}
        /\ h.done \in AnswerKind \ {"none"}
        /\ h.done = "ALLOW_THEN_BLOCK" => r \in Senders
        /\ h.done = "ALLOW" => r \in Senders \cup {"preflight"}
        /\ h.done = "BLOCK" => r \notin Senders

RoleOfAwait(r, n) ==
    LET a == handlerOf[r].awaits[n]
    IN  /\ a.for \in Settled => a.fails \in {"error", "BLOCK"}
        /\ a.for \in {"nonce", "wait", "submit"} /\ r # "demoExecute" => a.fails = "error"
        /\ a.for = "body" => n = 1
        /\ a.for = "submit" => r \in Senders /\ n = 4
        /\ a.for = "wait" => r \in Senders /\ n = 5
        /\ r \in Senders =>
               /\ a.for = "nonce" => n \notin 2..5 /\ r # "execute"
               /\ a.for = "risk" => n = 2
               /\ a.for = "staticCall" => n = 3
               /\ a.for = "attack" => n = 7 /\ r # "execute"

LEMMA OrderOfRoutes ==
    \A r \in DOMAIN handlerOf : OrderOfAwaits(r) /\ r # "none"
<1> USE DEF OrderOfAwaits, Senders, AnswerKind, Handler, Await
<1>1. OrderOfAwaits("riskAssess")
    <2>1. handlerOf["riskAssess"] = riskAssess
        BY DEF handlerOf
    <2> QED
        BY <2>1 DEF riskAssess
<1>2. OrderOfAwaits("prepare")
    <2>1. handlerOf["prepare"] = prepare
        BY DEF handlerOf
    <2> QED
        BY <2>1 DEF prepare
<1>3. OrderOfAwaits("preflight")
    <2>1. handlerOf["preflight"] = preflight
        BY DEF handlerOf
    <2> QED
        BY <2>1 DEF preflight
<1>4. OrderOfAwaits("execute")
    <2>1. handlerOf["execute"] = execute
        BY DEF handlerOf
    <2> QED
        BY <2>1 DEF execute
<1>5. OrderOfAwaits("agentDemo")
    <2>1. handlerOf["agentDemo"] = agentDemo
        BY DEF handlerOf
    <2> QED
        BY <2>1 DEF agentDemo
<1>6. OrderOfAwaits("demoExecute")
    <2>1. handlerOf["demoExecute"] = demoExecute
        BY DEF handlerOf
    <2> QED
        BY <2>1 DEF demoExecute
<1>7. OrderOfAwaits("securityDemo")
    <2>1. handlerOf["securityDemo"] = securityDemo
        BY DEF handlerOf
    <2> QED
        BY <2>1 DEF securityDemo
<1>8. OrderOfAwaits("tamperTest")
    <2>1. handlerOf["tamperTest"] = tamperTest
        BY DEF handlerOf
    <2> QED
        BY <2>1 DEF tamperTest
<1>9. OrderOfAwaits("blockTest")
    <2>1. handlerOf["blockTest"] = blockTest
        BY DEF handlerOf
    <2> QED
        BY <2>1 DEF blockTest
<1>10. OrderOfAwaits("riskDemo")
    <2>1. handlerOf["riskDemo"] = riskDemo
        BY DEF handlerOf
    <2> QED
        BY <2>1 DEF riskDemo
<1>11. DOMAIN handlerOf = {"riskAssess", "prepare", "preflight", "execute", "agentDemo",
                           "demoExecute", "securityDemo", "tamperTest", "blockTest", "riskDemo"}
    BY DEF handlerOf
<1> HIDE DEF OrderOfAwaits, Senders, AnswerKind, Handler, Await
<1> QED
    BY <1>1, <1>2, <1>3, <1>4, <1>5, <1>6, <1>7, <1>8, <1>9, <1>10, <1>11

LEMMA RolesOfAwaits ==
    \A r \in DOMAIN handlerOf : \A n \in 1..Len(handlerOf[r].awaits) : RoleOfAwait(r, n)
<1> DEFINE Roles(r) == \A n \in 1..Len(handlerOf[r].awaits) : RoleOfAwait(r, n)
<1> USE DEF RoleOfAwait, Senders, Settled, Handler, Await
<1>1. Roles("riskAssess")
    <2>1. handlerOf["riskAssess"] = riskAssess
        BY DEF handlerOf
    <2> QED
        BY <2>1 DEF riskAssess
<1>2. Roles("prepare")
    <2>1. handlerOf["prepare"] = prepare
        BY DEF handlerOf
    <2> QED
        BY <2>1 DEF prepare
<1>3. Roles("preflight")
    <2>1. handlerOf["preflight"] = preflight
        BY DEF handlerOf
    <2> QED
        BY <2>1 DEF preflight
<1>4. Roles("execute")
    <2>1. handlerOf["execute"] = execute
        BY DEF handlerOf
    <2> QED
        BY <2>1 DEF execute
<1>5. Roles("agentDemo")
    <2>1. handlerOf["agentDemo"] = agentDemo
        BY DEF handlerOf
    <2> QED
        BY <2>1 DEF agentDemo
<1>6. Roles("demoExecute")
    <2>1. handlerOf["demoExecute"] = demoExecute
        BY DEF handlerOf
    <2> QED
        BY <2>1 DEF demoExecute
<1>7. Roles("securityDemo")
    <2>1. handlerOf["securityDemo"] = securityDemo
        BY DEF handlerOf
    <2> QED
        BY <2>1 DEF securityDemo
<1>8. Roles("tamperTest")
    <2>1. handlerOf["tamperTest"] = tamperTest
        BY DEF handlerOf
    <2> QED
        BY <2>1 DEF tamperTest
<1>9. Roles("blockTest")
    <2>1. handlerOf["blockTest"] = blockTest
        BY DEF handlerOf
    <2> QED
        BY <2>1 DEF blockTest
<1>10. Roles("riskDemo")
    <2>1. handlerOf["riskDemo"] = riskDemo
        BY DEF handlerOf
    <2> QED
        BY <2>1 DEF riskDemo
<1>11. DOMAIN handlerOf = {"riskAssess", "prepare", "preflight", "execute", "agentDemo",
                           "demoExecute", "securityDemo", "tamperTest", "blockTest", "riskDemo"}
    BY DEF handlerOf
<1> HIDE DEF RoleOfAwait, Senders, Settled, Handler, Await, Roles
<1>12. \A r \in DOMAIN handlerOf : Roles(r)
    BY <1>1, <1>2, <1>3, <1>4, <1>5, <1>6, <1>7, <1>8, <1>9, <1>10, <1>11
<1> QED
    BY <1>12 DEF Roles

-----------------------------------------------------------------------------
(***************************************************************************)
(* The inductive invariant.  SlotOK(e, txs) is what holds of the request e *)
(* on a connection when txs have been sent: how far it has come tells what *)
(* was found out about it.                                                 *)
(***************************************************************************)
Req ==
    [route : DOMAIN handlerOf \cup {"none"}, at : 0..8, intent : IntentType \cup {NoIntent},
     signed : IntentType \cup {NoIntent}, answers : [Provider -> Answer] \cup {<<>>},
     checked : IntentType \cup {NoIntent}, nonces : Seq(Nonce), tx : 0..MaxSent,
     answer : AnswerKind]

Payment == [agent : Agent, nonce : Nonce, policy : Policy, value : Value,
            day : Day \cup {0}]

Cleared(answers) ==
    "risk" \in Service =>
        /\ Provider # {} /\ DOMAIN answers = Provider
        /\ \A p \in Provider :
               /\ Usable(answers[p])
               /\ answers[p].status = "CLEAR" /\ ~answers[p].degraded

Checked(e) ==
    e.checked = e.intent /\ e.signed = e.intent /\ e.intent.call \in Permitted

Typed(e) == e.intent \in IntentType /\ e.signed \in IntentType

Live(e) == e.route # "none" /\ e.answer = "none"

Mined(e, txs) == e.tx # 0 /\ txs[e.tx].outcome = "mined"

Progress(e, txs) ==
    /\ e.at \in 1..Len(handlerOf[e.route].awaits)
    /\ e.at = 1 => e.nonces = <<>>
    /\ e.route \in Senders =>
           /\ e.at \in 2..4 => Typed(e)
           /\ e.at \in 3..4 => Cleared(e.answers)
           /\ e.at = 4 => Checked(e)
           /\ e.at <= 4 => e.tx = 0
           /\ e.at >= 5 => e.tx # 0
           /\ e.at >= 6 => txs[e.tx].outcome = "mined"
    /\ e.route = "execute" /\ e.at = 5 => txs[e.tx].intent = e.intent

SlotOK(e, txs) ==
    /\ e \in Req
    /\ e.route = "none" => e = NoRequest
    /\ e.tx <= Len(txs)
    /\ e.route \notin Senders => e.tx = 0
    /\ Live(e) => Progress(e, txs)
    /\ ReportsPayment(e) => Mined(e, txs)
    /\ e.route = "execute" /\ ReportsPayment(e) => txs[e.tx].intent = e.intent
    /\ e.answer = "BLOCK" /\ e.route # "demoExecute" => e.tx = 0

Vetted(t) ==
    /\ t.checked = t.intent /\ t.signed = t.intent
    /\ t.intent.call \in Permitted
    /\ Cleared(t.answers)

PaidAs(t, pays) ==
    t.outcome = "mined" =>
        /\ t.payment \in DOMAIN pays
        /\ LET paid == pays[t.payment]
           IN  <<paid.agent, paid.nonce, paid.policy, paid.value>> =
                   <<t.intent.agent, t.intent.nonce, t.intent.policy, t.intent.value>>

Ledger ==
    /\ nextFree \in [Agent -> Nonce]
    /\ payments \in Seq(Payment)
    /\ day \in Day \cup {0}

ApiInv ==
    /\ Ledger
    /\ exchange \in [Connection -> Req]
    /\ sent \in Seq(Transaction) /\ Len(sent) <= MaxSent
    /\ \A c \in Connection : SlotOK(exchange[c], sent)
    /\ \A c, d \in Connection : c # d /\ exchange[c].tx # 0 => exchange[c].tx # exchange[d].tx
    /\ \A k \in DOMAIN sent : Vetted(sent[k]) /\ PaidAs(sent[k], payments)

LEMMA NoRequestOK ==
    ASSUME NEW txs \in Seq(Transaction)
    PROVE  SlotOK(NoRequest, txs)
BY ApiAssumption, OrderOfRoutes
   DEF SlotOK, NoRequest, Req, Live, ReportsPayment, AnswerKind, Senders

LEMMA ApiInvInit == Init => ApiInv
<1> SUFFICES ASSUME Init
             PROVE  ApiInv
    OBVIOUS
<1>1. Ledger
    BY ApiAssumption DEF Init, MandateInit, Ledger
<1>2. sent = <<>> /\ sent \in Seq(Transaction) /\ Len(sent) <= MaxSent
    BY ApiAssumption DEF Init, ApiInit
<1>3. SlotOK(NoRequest, sent) /\ NoRequest \in Req /\ NoRequest.tx = 0
    BY <1>2, NoRequestOK DEF SlotOK, NoRequest
<1> QED
    BY <1>1, <1>2, <1>3 DEF Init, ApiInit, ApiInv

(***************************************************************************)
(* send: answered with anything but an ALLOW, and with BLOCK only if       *)
(* nothing was sent.                                                       *)
(***************************************************************************)
LEMMA AnsweredOK ==
    ASSUME NEW txs \in Seq(Transaction), NEW e \in Req, e.route # "none",
           e.tx <= Len(txs), e.route \notin Senders => e.tx = 0,
           NEW answer \in AnswerKind \ {"none", "ALLOW", "ALLOW_THEN_BLOCK"},
           answer = "BLOCK" /\ e.route # "demoExecute" => e.tx = 0
    PROVE  SlotOK(Answered(e, answer), txs) /\ Answered(e, answer).tx = e.tx
<1> DEFINE a == Answered(e, answer)
<1>1. NoRequest \in Req
    BY NoRequestOK DEF SlotOK
<1>2. a \in Req
    BY <1>1 DEF Req, Answered
<1>3. a.route = e.route /\ a.tx = e.tx /\ a.answer = answer
    BY <1>1 DEF Req, Answered
<1> HIDE DEF a
<1> QED
    BY <1>2, <1>3 DEF SlotOK, Live, ReportsPayment, a

(***************************************************************************)
(* A settled await: what the next one, or the answer, may rely on.         *)
(***************************************************************************)
Ready(e, txs) ==
    /\ e \in Req /\ e.route \in DOMAIN handlerOf /\ e.answer = "none"
    /\ e.at \in 1..Len(handlerOf[e.route].awaits)
    /\ e.tx <= Len(txs)
    /\ e.route \notin Senders => e.tx = 0
    /\ e.route \in Senders =>
           /\ e.at \in 1..3 => Typed(e)
           /\ e.at \in 2..3 => Cleared(e.answers)
           /\ e.at = 3 => Checked(e)
           /\ e.at <= 3 => e.tx = 0
           /\ e.at >= 4 => e.tx # 0
           /\ e.at >= 5 => txs[e.tx].outcome = "mined"
    /\ e.route = "execute" /\ e.at >= 4 => txs[e.tx].intent = e.intent

LEMMA Position ==
    ASSUME NEW last \in 1..8, NEW n \in 1..last
    PROVE  n \in 1..8 /\ (n < last => n \in 1..7 /\ n + 1 \in 1..last /\ n + 1 \in 1..8)
OBVIOUS

Advanced(e) ==
    LET handler == handlerOf[e.route]
        report == [Answered(e, handler.done) EXCEPT !.intent = e.intent, !.nonces = e.nonces]
    IN  IF e.at < Len(handler.awaits) THEN [e EXCEPT !.at = @ + 1] ELSE report

LEMMA AdvancedOK ==
    ASSUME NEW txs \in Seq(Transaction), NEW e, Ready(e, txs)
    PROVE  SlotOK(Advanced(e), txs) /\ Advanced(e).tx = e.tx
<1> DEFINE handler == handlerOf[e.route]
           last == Len(handler.awaits)
<1>1. /\ OrderOfAwaits(e.route) /\ e.route # "none" /\ e \in Req
    BY OrderOfRoutes DEF Ready
<1>2. CASE e.at < last
    <2> DEFINE f == [e EXCEPT !.at = @ + 1]
    <2>1. Advanced(e) = f
        BY <1>2 DEF Advanced
    <2>2. e.at \in 1..7 /\ e.at + 1 \in 1..last /\ e.at + 1 \in 1..8
        <3>1. last \in 1..8 /\ e.at \in 1..last
            BY <1>1 DEF Ready, OrderOfAwaits
        <3> HIDE DEF last
        <3> QED
            BY <1>2, <3>1, Position
    <2>3. f \in Req
        <3>1. PICK m \in 0..8 : m = e.at + 1
            BY <2>2
        <3>2. f = [e EXCEPT !.at = m]
            BY <3>1
        <3> HIDE DEF f
        <3> QED
            BY <1>1, <3>2 DEF Req
    <2>4. /\ f.route = e.route /\ f.intent = e.intent /\ f.signed = e.signed
          /\ f.answers = e.answers /\ f.checked = e.checked /\ f.tx = e.tx
          /\ f.answer = "none" /\ f.at = e.at + 1
        BY <1>1, <2>2 DEF Req, Ready
    <2> HIDE DEF f
    <2>5. Progress(f, txs)
        <3>1. f.at \in 1..Len(handlerOf[f.route].awaits)
            BY <2>2, <2>4
        <3>4. f.at # 1
            BY <2>2, <2>4
        <3>2. f.route = "execute" /\ f.at = 5 => txs[f.tx].intent = f.intent
            BY <2>2, <2>4 DEF Ready
        <3>3. ASSUME f.route \in Senders
              PROVE  /\ f.at \in 2..4 => Typed(f)
                     /\ f.at \in 3..4 => Cleared(f.answers)
                     /\ f.at = 4 => Checked(f)
                     /\ f.at <= 4 => f.tx = 0
                     /\ f.at >= 5 => f.tx # 0
                     /\ f.at >= 6 => txs[f.tx].outcome = "mined"
            BY <2>2, <2>4, <3>3 DEF Ready, Typed, Checked
        <3> QED
            BY <3>1, <3>2, <3>3, <3>4 DEF Progress
    <2>6. ~ReportsPayment(f)
        BY <2>4 DEF ReportsPayment
    <2>7. SlotOK(f, txs)
        BY <1>1, <2>3, <2>4, <2>5, <2>6 DEF SlotOK, Ready
    <2> QED
        BY <2>1, <2>4, <2>7
<1>3. CASE ~(e.at < last)
    <2> DEFINE a == Answered(e, handler.done)
               f == [a EXCEPT !.intent = e.intent, !.nonces = e.nonces]
    <2>1. Advanced(e) = f
        BY <1>3 DEF Advanced
    <2>2. handler.done \in AnswerKind \ {"none"} /\ NoRequest \in Req
        BY <1>1, NoRequestOK DEF OrderOfAwaits, SlotOK
    <2>3. a \in Req /\ a.route = e.route /\ a.tx = e.tx /\ a.answer = handler.done
        BY <1>1, <2>2 DEF Answered, Req
    <2> HIDE DEF a
    <2>4. /\ f \in Req /\ f.route = e.route /\ f.tx = e.tx /\ f.answer = handler.done
          /\ f.intent = e.intent
        BY <1>1, <2>3 DEF Req
    <2> HIDE DEF f
    <2>5. e.at = last /\ last \in 1..8
        BY <1>1, <1>3 DEF Ready, OrderOfAwaits
    <2>6. e.route \in Senders => e.tx # 0 /\ txs[e.tx].outcome = "mined"
        BY <1>1, <2>5 DEF Ready, OrderOfAwaits
    <2>7. ReportsPayment(f) => Mined(f, txs)
        BY <1>1, <2>4, <2>6 DEF ReportsPayment, Mined, OrderOfAwaits
    <2>8. ASSUME e.route = "execute"
          PROVE  txs[f.tx].intent = f.intent
        <3>1. e.at = 5
            BY <1>1, <2>5, <2>8 DEF OrderOfAwaits
        <3> QED
            BY <2>4, <2>8, <3>1 DEF Ready
    <2>9. f.answer # "none" /\ (f.answer = "BLOCK" => f.tx = 0)
        BY <1>1, <2>2, <2>4 DEF OrderOfAwaits, Ready
    <2>10. SlotOK(f, txs)
        BY <1>1, <2>4, <2>7, <2>8, <2>9 DEF SlotOK, Ready, Live
    <2> QED
        BY <2>1, <2>4, <2>10
<1> QED
    BY <1>2, <1>3

(***************************************************************************)
(* A step that replaces one request, and sends nothing.                    *)
(***************************************************************************)
LEMMA ReplacedOK ==
    ASSUME ApiInv, NEW c \in Connection, NEW e,
           exchange' = [exchange EXCEPT ![c] = e], UNCHANGED <<mandateVars, sent>>,
           SlotOK(e, sent), e.tx \in {0, exchange[c].tx}
    PROVE  ApiInv'
<1>1. /\ sent' = sent /\ nextFree' = nextFree /\ payments' = payments /\ day' = day
    BY DEF mandateVars
<1>2. e \in Req
    BY DEF SlotOK
<1>3. /\ exchange' \in [Connection -> Req]
      /\ exchange'[c] = e
      /\ \A d \in Connection \ {c} : exchange'[d] = exchange[d]
    BY <1>2 DEF ApiInv
<1>4. \A d \in Connection : SlotOK(exchange'[d], sent')
    BY <1>1, <1>3 DEF ApiInv
<1>5. \A a, b \in Connection :
          a # b /\ exchange'[a].tx # 0 => exchange'[a].tx # exchange'[b].tx
    BY <1>3 DEF ApiInv
<1>6. Ledger'
    BY <1>1 DEF Ledger, ApiInv
<1> QED
    BY <1>1, <1>3, <1>4, <1>5, <1>6 DEF ApiInv

(***************************************************************************)
(* The request at an await.                                                *)
(***************************************************************************)
LEMMA AtAwait ==
    ASSUME ApiInv, NEW c \in Connection, NEW what, Awaits(c, what)
    PROVE  LET e == exchange[c]
           IN  /\ e \in Req /\ e.route \in DOMAIN handlerOf /\ e.answer = "none"
               /\ e.route # "none" /\ e.at \in 1..Len(handlerOf[e.route].awaits)
               /\ e.at \in 1..8
               /\ handlerOf[e.route].awaits[e.at] = Pending(c)
               /\ Pending(c).for = what
               /\ OrderOfAwaits(e.route) /\ RoleOfAwait(e.route, e.at)
               /\ SlotOK(e, sent) /\ Progress(e, sent)
               /\ sent \in Seq(Transaction) /\ e.tx <= Len(sent)
               /\ e.route \notin Senders => e.tx = 0
<1> DEFINE e == exchange[c]
<1>1. e \in Req /\ SlotOK(e, sent) /\ sent \in Seq(Transaction)
    BY DEF ApiInv
<1>2. e.route # "none" /\ e.answer = "none" /\ Pending(c).for = what
    BY DEF Awaits, Serving
<1>3. Progress(e, sent) /\ e.tx <= Len(sent) /\ (e.route \notin Senders => e.tx = 0)
    BY <1>1, <1>2 DEF SlotOK, Live
<1>4. e.route \in DOMAIN handlerOf
    BY <1>1, <1>2 DEF Req
<1>5. e.at \in 1..Len(handlerOf[e.route].awaits)
    BY <1>3 DEF Progress
<1>6. OrderOfAwaits(e.route) /\ RoleOfAwait(e.route, e.at)
    BY <1>4, <1>5, OrderOfRoutes, RolesOfAwaits
<1>7. e.at \in 1..8
    <2> DEFINE last == Len(handlerOf[e.route].awaits)
    <2>1. last \in 1..8 /\ e.at \in 1..last
        BY <1>5, <1>6 DEF OrderOfAwaits
    <2> HIDE DEF last
    <2> QED
        BY <2>1, Position
<1> QED
    BY <1>1, <1>2, <1>3, <1>4, <1>5, <1>6, <1>7 DEF Pending

LEMMA RoleAtAwait ==
    ASSUME ApiInv, NEW c \in Connection, NEW what, Awaits(c, what)
    PROVE  LET e == exchange[c]
               fails == Pending(c).fails
           IN  /\ what \in Settled => fails \in {"error", "BLOCK"}
               /\ what \in {"nonce", "wait", "submit"} /\ e.route # "demoExecute" =>
                      fails = "error"
               /\ what = "body" => e.at = 1
               /\ what = "submit" => e.route \in Senders /\ e.at = 4
               /\ what = "wait" => e.route \in Senders /\ e.at = 5
               /\ e.route \in Senders =>
                      /\ what = "nonce" => e.at \notin 2..5 /\ e.route # "execute"
                      /\ what = "risk" => e.at = 2
                      /\ what = "staticCall" => e.at = 3
                      /\ what = "attack" => e.at = 7 /\ e.route # "execute"
<1> DEFINE e == exchange[c]
           a == handlerOf[e.route].awaits[e.at]
<1>1. a = Pending(c) /\ Pending(c).for = what
    BY AtAwait
<1>2. RoleOfAwait(e.route, e.at)
    BY AtAwait
<1> QED
    BY <1>1, <1>2 DEF RoleOfAwait

LEMMA ReplyOK ==
    ASSUME ApiInv, NEW c \in Connection, exchange[c].route # "none",
           NEW answer \in AnswerKind \ {"none", "ALLOW", "ALLOW_THEN_BLOCK"},
           answer = "BLOCK" /\ exchange[c].route # "demoExecute" => exchange[c].tx = 0,
           Reply(c, answer), UNCHANGED <<mandateVars, sent>>
    PROVE  ApiInv'
<1>1. /\ exchange[c] \in Req /\ sent \in Seq(Transaction)
      /\ exchange[c].tx <= Len(sent)
      /\ exchange[c].route \notin Senders => exchange[c].tx = 0
    BY DEF ApiInv, SlotOK
<1> DEFINE a == Answered(exchange[c], answer)
<1>2. SlotOK(a, sent) /\ a.tx = exchange[c].tx
    BY <1>1, AnsweredOK
<1>3. exchange' = [exchange EXCEPT ![c] = a]
    BY DEF Reply, Becomes
<1> HIDE DEF a
<1> QED
    BY <1>2, <1>3, ReplacedOK

LEMMA FailsOK ==
    ASSUME ApiInv, NEW c \in Connection, NEW what \in Settled, Awaits(c, what),
           Fails(c), UNCHANGED <<mandateVars, sent>>
    PROVE  ApiInv'
<1>1. /\ Pending(c).fails \in {"error", "BLOCK"}
      /\ Pending(c).fails = "BLOCK" /\ exchange[c].route # "demoExecute" =>
             exchange[c].tx = 0
      /\ exchange[c].route # "none"
    <2>1. Progress(exchange[c], sent) /\ exchange[c].route # "none"
          /\ (exchange[c].route \notin Senders => exchange[c].tx = 0)
        BY AtAwait
    <2>2. /\ Pending(c).fails \in {"error", "BLOCK"}
          /\ what \in {"nonce", "submit", "wait"} /\ exchange[c].route # "demoExecute" =>
                 Pending(c).fails = "error"
          /\ what = "body" => exchange[c].at = 1
          /\ exchange[c].route \in Senders /\ what = "staticCall" => exchange[c].at = 3
        BY RoleAtAwait
    <2> QED
        BY <2>1, <2>2 DEF Settled, Progress
<1> QED
    BY <1>1, ReplyOK DEF Fails, AnswerKind

LEMMA ProceedOK ==
    ASSUME ApiInv, NEW c \in Connection, NEW e, Ready(e, sent), Proceed(c, e),
           e.tx = exchange[c].tx, UNCHANGED <<mandateVars, sent>>
    PROVE  ApiInv'
<1> DEFINE f == Advanced(e)
<1>1. exchange' = [exchange EXCEPT ![c] = f]
    BY DEF Proceed, Becomes, Advanced
<1>2. SlotOK(f, sent) /\ f.tx = e.tx
    BY AdvancedOK DEF ApiInv
<1> HIDE DEF f
<1> QED
    BY <1>1, <1>2, ReplacedOK

-----------------------------------------------------------------------------
(***************************************************************************)
(* One lemma per action of a handler.                                      *)
(***************************************************************************)
LEMMA OpenOK ==
    ASSUME ApiInv, NEW c \in Connection, NEW route \in DOMAIN handlerOf, Open(c, route)
    PROVE  ApiInv'
<1> DEFINE handler == handlerOf[route]
           e == [NoRequest EXCEPT !.route = route, !.at = 1]
<1>1. /\ route \in DOMAIN handlerOf /\ sent \in Seq(Transaction) /\ NoRequest \in Req
      /\ NoRequest.tx = 0 /\ NoRequest.answer = "none" /\ NoRequest.nonces = <<>>
    BY NoRequestOK DEF ApiInv, SlotOK, NoRequest
<1>2. OrderOfAwaits(route) /\ route # "none"
    BY <1>1, OrderOfRoutes
<1>3. e \in Req /\ e.route = route /\ e.at = 1 /\ e.tx = 0 /\ e.answer = "none"
      /\ e.nonces = <<>>
    <2>1. PICK e1 : e1 = [NoRequest EXCEPT !.route = route]
        OBVIOUS
    <2>2. PICK m \in 0..8 : m = 1
        OBVIOUS
    <2>3. PICK e2 : e2 = [e1 EXCEPT !.at = m]
        OBVIOUS
    <2>4. e1 \in Req /\ e1.route = route /\ e1.tx = 0 /\ e1.answer = "none"
          /\ e1.nonces = <<>>
        BY <1>1, <2>1 DEF Req
    <2>5. e2 \in Req /\ e2.route = route /\ e2.at = 1 /\ e2.tx = 0 /\ e2.answer = "none"
          /\ e2.nonces = <<>>
        BY <2>2, <2>3, <2>4 DEF Req
    <2>6. e = e2
        BY <2>1, <2>2, <2>3
    <2> QED
        BY <2>5, <2>6
<1>4. exchange' = [exchange EXCEPT ![c] = IF handler.needs \subseteq Service THEN e
                                          ELSE Answered(e, handler.without)]
      /\ UNCHANGED <<mandateVars, sent>>
    BY DEF Open, Becomes
<1> HIDE DEF e
<1>5. CASE handler.needs \subseteq Service
    <2>1. 1 \in 1..Len(handlerOf[route].awaits)
        <3> DEFINE last == Len(handlerOf[route].awaits)
        <3>1. last \in 1..8
            BY <1>2 DEF OrderOfAwaits
        <3> HIDE DEF last
        <3>2. 1 \in 1..last
            BY <3>1
        <3> QED
            BY <3>2 DEF last
    <2>2. Progress(e, sent)
        BY <1>3, <2>1 DEF Progress
    <2>3. SlotOK(e, sent)
        BY <1>1, <1>2, <1>3, <2>2 DEF SlotOK, ReportsPayment
    <2> QED
        BY <1>3, <1>4, <1>5, <2>3, ReplacedOK
<1>6. CASE ~(handler.needs \subseteq Service)
    <2> DEFINE a == Answered(e, handler.without)
    <2>1. handler.without \in {"error", "unavailable"}
        BY <1>2 DEF OrderOfAwaits
    <2>2. SlotOK(a, sent) /\ a.tx = e.tx
        BY <1>1, <1>2, <1>3, <2>1, AnsweredOK DEF AnswerKind
    <2> HIDE DEF a
    <2> QED
        BY <1>3, <1>4, <1>6, <2>2, ReplacedOK DEF a
<1> QED
    BY <1>5, <1>6

LEMMA ReadBodyOK ==
    ASSUME ApiInv, NEW c \in Connection, NEW body,
           body.intent \in IntentType, body.signed \in IntentType, ReadBody(c, body)
    PROVE  ApiInv'
<1> DEFINE e == exchange[c]
           f == [e EXCEPT !.intent = body.intent, !.signed = body.signed]
<1>1. /\ e \in Req /\ e.route \in DOMAIN handlerOf /\ e.answer = "none"
      /\ e.at \in 1..Len(handlerOf[e.route].awaits) /\ e.at = 1
      /\ e.tx = 0 /\ e.tx <= Len(sent)
    <2>1. Awaits(c, "body")
        BY DEF ReadBody
    <2>2. /\ e \in Req /\ e.route \in DOMAIN handlerOf /\ e.answer = "none"
          /\ e.at \in 1..Len(handlerOf[e.route].awaits)
          /\ RoleOfAwait(e.route, e.at) /\ Progress(e, sent)
          /\ handlerOf[e.route].awaits[e.at].for = "body"
          /\ e.tx <= Len(sent) /\ (e.route \notin Senders => e.tx = 0)
        BY <2>1, AtAwait
    <2>3. e.at = 1
        BY <2>2 DEF RoleOfAwait
    <2> QED
        BY <2>2, <2>3 DEF Progress
<1>2. /\ f \in Req /\ f.route = e.route /\ f.answer = "none" /\ f.at = e.at
      /\ f.tx = e.tx /\ f.intent = body.intent /\ f.signed = body.signed
    BY <1>1 DEF Req
<1>3. Proceed(c, f) /\ UNCHANGED <<mandateVars, sent>>
    BY DEF ReadBody
<1> HIDE DEF f
<1>4. Ready(f, sent)
    BY <1>1, <1>2 DEF Ready, Typed
<1> QED
    BY <1>2, <1>3, <1>4, ProceedOK

LEMMA ReadNonceOK ==
    ASSUME ApiInv, NEW c \in Connection, ReadNonce(c)
    PROVE  ApiInv'
<1> DEFINE e == exchange[c]
           nonce == nextNonce(DemoAgent)
           intent == DemoIntent(DemoCallOf(e), nonce)
           signed == IF intent.call = TamperedCall THEN DemoIntent(DemoCall, nonce)
                     ELSE intent
           read == [e EXCEPT !.nonces = Append(@, nonce)]
           made == [read EXCEPT !.intent = intent, !.signed = signed]
           f == IF Len(e.nonces) = 2 THEN read ELSE made
<1>1. /\ e \in Req /\ e.route \in DOMAIN handlerOf /\ e.answer = "none"
      /\ e.at \in 1..Len(handlerOf[e.route].awaits) /\ e.at \in 1..8
      /\ RoleOfAwait(e.route, e.at) /\ Progress(e, sent)
      /\ handlerOf[e.route].awaits[e.at].for = "nonce"
      /\ e.tx <= Len(sent) /\ (e.route \notin Senders => e.tx = 0)
    BY AtAwait DEF ReadNonce
<1>2. nonce \in Nonce
    BY ApiAssumption DEF nextNonce, ApiInv, Ledger
<1>3. DemoCallOf(e) \in Permitted \cup {TamperedCall, BlockedCall}
    BY ApiAssumption DEF DemoCallOf
<1>4. intent \in IntentType /\ DemoIntent(DemoCall, nonce) \in IntentType
    BY <1>2, <1>3, ApiAssumption DEF DemoIntent, IntentType
<1>5. signed \in IntentType
    BY <1>4
<1> HIDE DEF nonce, intent, signed
<1>6. Append(e.nonces, nonce) \in Seq(Nonce)
    BY <1>1, <1>2 DEF Req
<1>7. /\ read \in Req /\ read.route = e.route /\ read.answer = "none" /\ read.at = e.at
      /\ read.tx = e.tx
    BY <1>1, <1>6 DEF Req
<1> HIDE DEF read
<1>8. /\ made \in Req /\ made.route = e.route /\ made.answer = "none" /\ made.at = e.at
      /\ made.tx = e.tx /\ made.intent = intent /\ made.signed = signed
    BY <1>4, <1>5, <1>7 DEF Req
<1>9. Proceed(c, f) /\ UNCHANGED <<mandateVars, sent>>
    BY DEF ReadNonce, nonce, intent, signed, read
<1> HIDE DEF made
<1>10. e.route \in Senders => (e.at = 1 \/ e.at \in 6..8) /\ e.route # "execute"
    BY <1>1 DEF RoleOfAwait
<1>11. /\ e.at = 1 => e.nonces = <<>>
       /\ e.route \in Senders /\ e.at = 1 => e.tx = 0
       /\ e.route \in Senders /\ e.at \in 6..8 =>
              e.tx # 0 /\ sent[e.tx].outcome = "mined"
       /\ e.route = "execute" => e.route \in Senders
    BY <1>1 DEF Progress, Senders
<1>12. e.at = 1 => Len(e.nonces) # 2
    BY <1>11
<1> HIDE DEF e
<1>13. ASSUME e.at # 1
       PROVE  Ready(read, sent)
    BY <1>1, <1>7, <1>10, <1>11, <1>13 DEF Ready
<1>14. Ready(made, sent)
    <2>1. made.route \in Senders =>
              /\ made.at \in 1..3 => Typed(made)
              /\ made.at \in 2..3 => Cleared(made.answers)
              /\ made.at = 3 => Checked(made)
              /\ made.at <= 3 => made.tx = 0
              /\ made.at >= 4 => made.tx # 0
              /\ made.at >= 5 => sent[made.tx].outcome = "mined"
        BY <1>1, <1>4, <1>5, <1>8, <1>10, <1>11 DEF Typed
    <2> QED
        BY <1>1, <1>8, <1>10, <1>11, <2>1 DEF Ready
<1>15. Ready(f, sent) /\ f.tx = e.tx
    BY <1>7, <1>8, <1>12, <1>13, <1>14
<1> HIDE DEF f
<1> QED
    BY <1>9, <1>15, ProceedOK DEF f, e

(***************************************************************************)
(* assessRisk at the gate of a sender: going on means that every provider  *)
(* that is configured gave a usable, undegraded, clear answer.             *)
(***************************************************************************)
LEMMA GateClears ==
    ASSUME NEW answers \in IF "risk" \in Service THEN [Provider -> Answer] ELSE {<<>>},
           "risk" \in Service => assessRisk(answers, FALSE).status = "CLEAR"
    PROVE  Cleared(answers)
<1> SUFFICES ASSUME "risk" \in Service
             PROVE  /\ Provider # {} /\ DOMAIN answers = Provider
                    /\ \A p \in Provider :
                           /\ Usable(answers[p])
                           /\ answers[p].status = "CLEAR" /\ ~answers[p].degraded
    BY DEF Cleared
<1>1. answers \in [Provider -> Answer] /\ assessRisk(answers, FALSE).status = "CLEAR"
    OBVIOUS
<1>2. \A p \in DOMAIN answers : answers[p] \in ProviderAnswer
    BY <1>1, ApiAssumption
<1> QED
    BY <1>1, <1>2, ClearNeedsAll

LEMMA AskRiskOK ==
    ASSUME ApiInv, NEW c \in Connection, AskRisk(c)
    PROVE  ApiInv'
<1> DEFINE e == exchange[c]
           handler == handlerOf[e.route]
           asked == IF "risk" \in Service THEN [Provider -> Answer] ELSE {<<>>}
           verdict(answers) == IF "risk" \notin Service /\ e.route \in RiskIsOptional
                               THEN "CLEAR" ELSE assessRisk(answers, FALSE).status
           shown(answers) == IF handler.gate THEN answers ELSE e.answers
           f(answers) == [e EXCEPT !.answers = shown(answers)]
<1>1. /\ e \in Req /\ e.route \in DOMAIN handlerOf /\ e.answer = "none"
      /\ e.at \in 1..Len(handlerOf[e.route].awaits) /\ e.at \in 1..8
      /\ e.route # "none"
      /\ OrderOfAwaits(e.route) /\ RoleOfAwait(e.route, e.at) /\ Progress(e, sent)
      /\ handlerOf[e.route].awaits[e.at].for = "risk"
      /\ e.tx <= Len(sent) /\ (e.route \notin Senders => e.tx = 0)
    <2>1. Awaits(c, "risk")
        BY DEF AskRisk
    <2> QED
        BY <2>1, AtAwait
<1>2. e.route \in Senders => e.at = 2 /\ handler.gate
    BY <1>1 DEF RoleOfAwait, OrderOfAwaits
<1>3. e.tx = 0 /\ e.tx = exchange[c].tx
    BY <1>1, <1>2 DEF Progress
<1>4. UNCHANGED <<mandateVars, sent>>
    BY DEF AskRisk
<1>5. PICK answers \in asked :
          CASE Stops(handler, verdict(answers)) -> Reply(c, "BLOCK")
            [] e.route = "agentDemo" ->
                   Reply(c, IF verdict(answers) = "CLEAR" THEN "READY" ELSE "BLOCK")
            [] OTHER -> Proceed(c, f(answers))
    BY DEF AskRisk
<1> DEFINE g == f(answers)
           word == IF verdict(answers) = "CLEAR" THEN "READY" ELSE "BLOCK"
<1>6. \/ Reply(c, "BLOCK")
      \/ Reply(c, word)
      \/ ~Stops(handler, verdict(answers)) /\ Proceed(c, g)
    BY <1>5
<1>7. CASE Reply(c, "BLOCK")
    BY <1>1, <1>3, <1>4, <1>7, ReplyOK DEF AnswerKind
<1>8. CASE Reply(c, word)
    <2>1. word \in AnswerKind \ {"none", "ALLOW", "ALLOW_THEN_BLOCK"}
        BY DEF AnswerKind
    <2> HIDE DEF word
    <2> QED
        BY <1>1, <1>3, <1>4, <1>8, <2>1, ReplyOK
<1>9. CASE ~Stops(handler, verdict(answers)) /\ Proceed(c, g)
    <2>1. shown(answers) \in [Provider -> Answer] \cup {<<>>}
        BY <1>1 DEF Req
    <2>2. e.route \in Senders => Cleared(answers) /\ shown(answers) = answers
        <3> SUFFICES ASSUME e.route \in Senders
                     PROVE  Cleared(answers) /\ shown(answers) = answers
            OBVIOUS
        <3>1. "risk" \in Service => assessRisk(answers, FALSE).status = "CLEAR"
            BY <1>2, <1>9 DEF Stops
        <3> QED
            BY <1>2, <3>1, GateClears
    <2> HIDE DEF shown
    <2>3. /\ g \in Req /\ g.route = e.route /\ g.answer = "none" /\ g.at = e.at
          /\ g.tx = e.tx /\ g.intent = e.intent /\ g.signed = e.signed
          /\ g.answers = shown(answers)
        BY <1>1, <2>1 DEF Req
    <2>4. Proceed(c, g)
        BY <1>9
    <2> HIDE DEF g
    <2>5. e.route \in Senders => Typed(g)
        BY <1>1, <1>2, <2>3 DEF Progress, Typed
    <2>6. e.route = "execute" => e.route \in Senders
        BY DEF Senders
    <2> HIDE DEF e
    <2>7. Ready(g, sent)
        BY <1>1, <1>2, <1>3, <2>2, <2>3, <2>5, <2>6 DEF Ready
    <2> QED
        BY <1>3, <1>4, <2>3, <2>4, <2>7, ProceedOK
<1> QED
    BY <1>6, <1>7, <1>8, <1>9

LEMMA StaticCallOK ==
    ASSUME ApiInv, NEW c \in Connection, StaticCall(c)
    PROVE  ApiInv'
<1> DEFINE e == exchange[c]
           f == [e EXCEPT !.checked = e.intent]
<1>1. Awaits(c, "staticCall") /\ UNCHANGED <<mandateVars, sent>>
    BY DEF StaticCall
<1>2. CASE Fails(c)
    BY <1>1, <1>2, FailsOK DEF Settled
<1>3. CASE Acceptable(e.intent, e.signed) /\ Proceed(c, f)
    <2>1. /\ e \in Req /\ e.route \in DOMAIN handlerOf /\ e.answer = "none"
          /\ e.at \in 1..Len(handlerOf[e.route].awaits) /\ e.at \in 1..8
          /\ RoleOfAwait(e.route, e.at) /\ Progress(e, sent)
          /\ handlerOf[e.route].awaits[e.at].for = "staticCall"
          /\ e.tx <= Len(sent) /\ (e.route \notin Senders => e.tx = 0)
        BY <1>1, AtAwait
    <2>2. e.route \in Senders => e.at = 3
        BY <2>1 DEF RoleOfAwait
    <2>3. e.tx = 0 /\ (e.route = "execute" => e.route \in Senders)
        BY <2>1, <2>2 DEF Progress, Senders
    <2>4. /\ f \in Req /\ f.route = e.route /\ f.answer = "none" /\ f.at = e.at
          /\ f.tx = e.tx /\ f.intent = e.intent /\ f.signed = e.signed
          /\ f.answers = e.answers /\ f.checked = e.intent
        BY <2>1 DEF Req
    <2>5. e.route \in Senders => Typed(f) /\ Cleared(f.answers)
        BY <2>1, <2>2, <2>4 DEF Progress, Typed
    <2>6. Checked(f)
        BY <1>3, <2>4 DEF Acceptable, Checked
    <2>7. Proceed(c, f) /\ f.tx = exchange[c].tx
        BY <1>3, <2>4
    <2> HIDE DEF f, e
    <2>8. Ready(f, sent)
        BY <2>1, <2>2, <2>3, <2>4, <2>5, <2>6 DEF Ready
    <2> QED
        BY <1>1, <2>7, <2>8, ProceedOK
<1> QED
    BY <1>2, <1>3 DEF StaticCall

LEMMA AttackOK ==
    ASSUME ApiInv, NEW c \in Connection, Attack(c)
    PROVE  ApiInv'
<1> DEFINE e == exchange[c]
<1>1. Awaits(c, "attack") /\ UNCHANGED <<mandateVars, sent>>
    BY DEF Attack
<1>2. /\ e \in Req /\ e.route \in DOMAIN handlerOf /\ e.answer = "none"
      /\ e.route # "none"
      /\ e.at \in 1..Len(handlerOf[e.route].awaits) /\ e.at \in 1..8
      /\ RoleOfAwait(e.route, e.at) /\ Progress(e, sent)
      /\ handlerOf[e.route].awaits[e.at].for = "attack"
      /\ e.tx <= Len(sent) /\ (e.route \notin Senders => e.tx = 0)
    BY <1>1, AtAwait
<1>3. CASE Reply(c, "unexpected")
    BY <1>1, <1>2, <1>3, ReplyOK DEF AnswerKind
<1>4. CASE Proceed(c, e)
    <2>1. /\ e.route \in Senders => e.at = 7 /\ e.route # "execute"
          /\ e.route = "execute" => e.route \in Senders
        BY <1>2 DEF RoleOfAwait, Senders
    <2>2. e.route \in Senders => e.tx # 0 /\ sent[e.tx].outcome = "mined"
        BY <1>2, <2>1 DEF Progress
    <2>3. e.tx = exchange[c].tx
        OBVIOUS
    <2> HIDE DEF e
    <2>4. Ready(e, sent)
        BY <1>2, <2>1, <2>2 DEF Ready
    <2> QED
        BY <1>1, <1>4, <2>3, <2>4, ProceedOK
<1> QED
    BY <1>3, <1>4 DEF Attack

LEMMA WaitOK ==
    ASSUME ApiInv, NEW c \in Connection, Wait(c) \/ WaitFails(c)
    PROVE  ApiInv'
<1> DEFINE e == exchange[c]
<1>1. Awaits(c, "wait") /\ UNCHANGED <<mandateVars, sent>>
    BY DEF Wait, WaitFor, WaitFails
<1>2. CASE Fails(c)
    BY <1>1, <1>2, FailsOK DEF Settled
<1>3. CASE sent[e.tx].outcome = "mined" /\ Proceed(c, e)
    <2>1. /\ e \in Req /\ e.route \in DOMAIN handlerOf /\ e.answer = "none"
          /\ e.at \in 1..Len(handlerOf[e.route].awaits)
          /\ RoleOfAwait(e.route, e.at) /\ Progress(e, sent)
          /\ handlerOf[e.route].awaits[e.at].for = "wait"
          /\ e.tx <= Len(sent)
        BY <1>1, AtAwait
    <2>2. e.route \in Senders /\ e.at = 5
        BY <2>1 DEF RoleOfAwait
    <2>3. e.tx # 0 /\ (e.route = "execute" => sent[e.tx].intent = e.intent)
        BY <2>1, <2>2 DEF Progress
    <2>4. e.tx = exchange[c].tx
        OBVIOUS
    <2> HIDE DEF e
    <2>5. Ready(e, sent)
        BY <1>3, <2>1, <2>2, <2>3 DEF Ready
    <2> QED
        BY <1>1, <1>3, <2>4, <2>5, ProceedOK
<1> QED
    BY <1>2, <1>3 DEF Wait, WaitFor, WaitFails

(***************************************************************************)
(* executor.ts: what is sent is what was checked.                          *)
(***************************************************************************)
LEMMA SubmitOK ==
    ASSUME ApiInv, NEW c \in Connection, Submit(c)
    PROVE  ApiInv'
<1> DEFINE e == exchange[c]
           aware == [e EXCEPT !.tx = Len(sent) + 1]
           t == [intent |-> e.intent, signed |-> e.signed, answers |-> e.answers,
                 checked |-> e.checked, outcome |-> "pending", payment |-> 0]
<1>1. Awaits(c, "submit") /\ UNCHANGED mandateVars
    BY DEF Submit
<1>2. CASE Fails(c) /\ UNCHANGED sent
    BY <1>1, <1>2, FailsOK DEF Settled
<1>3. CASE /\ Len(sent) < MaxSent
           /\ sent' = Append(sent, t)
           /\ Proceed(c, aware) \/ Becomes(c, Answered(aware, Pending(c).fails))
    <2>1. /\ e \in Req /\ e.route \in DOMAIN handlerOf /\ e.answer = "none"
          /\ e.route # "none"
          /\ e.at \in 1..Len(handlerOf[e.route].awaits)
          /\ RoleOfAwait(e.route, e.at) /\ Progress(e, sent)
          /\ handlerOf[e.route].awaits[e.at] = Pending(c)
          /\ Pending(c).for = "submit"
          /\ SlotOK(e, sent) /\ sent \in Seq(Transaction)
        BY <1>1, AtAwait
    <2>2. /\ e.route \in Senders /\ e.at = 4
          /\ Pending(c).fails \in {"error", "BLOCK"}
          /\ e.route # "demoExecute" => Pending(c).fails = "error"
        BY <2>1 DEF RoleOfAwait, Settled
    <2>3. Typed(e) /\ Cleared(e.answers) /\ Checked(e)
        BY <2>1, <2>2 DEF Progress
    <2>4. t \in Transaction /\ t.intent = e.intent /\ Vetted(t) /\ t.outcome = "pending"
        BY <2>1, <2>3 DEF Transaction, Typed, Checked, Vetted, Req
    <2> HIDE DEF t
    <2> DEFINE new == Len(sent) + 1
    <2>5. /\ sent' \in Seq(Transaction) /\ Len(sent') = new
          /\ Len(sent) \in Nat /\ new \in 1..MaxSent
          /\ sent'[new] = t
          /\ \A k \in 1..Len(sent) : sent'[k] = sent[k]
          /\ DOMAIN sent' = 1..new /\ DOMAIN sent = 1..Len(sent)
        BY <1>3, <2>1, <2>4, ApiAssumption
    <2>6. PICK n \in 1..MaxSent : n = new
        BY <2>5
    <2>7. PICK f : f = [e EXCEPT !.tx = n]
        OBVIOUS
    <2>8. f = aware
        BY <2>6, <2>7
    <2>9. /\ f \in Req /\ f.route = e.route /\ f.answer = "none" /\ f.at = e.at
          /\ f.tx = n /\ f.intent = e.intent /\ f.signed = e.signed
          /\ f.answers = e.answers /\ f.checked = e.checked
        <3>1. e \in Req /\ e.answer = "none"
            BY <2>1
        <3>2. n \in 0..MaxSent
            BY <2>6
        <3> HIDE DEF e
        <3>3. f \in Req
            BY <2>7, <3>1, <3>2 DEF Req
        <3>4. f.tx = n
            BY <2>7, <3>1 DEF Req
        <3> QED
            BY <2>7, <3>1, <3>3, <3>4 DEF Req
    <2>10. \E g : Becomes(c, g) /\ SlotOK(g, sent') /\ g.tx = n
        <3>1. CASE Proceed(c, aware)
            <4>1. Typed(f) /\ Cleared(f.answers)
                BY <2>3, <2>9 DEF Typed
            <4>2. sent'[f.tx].intent = f.intent
                BY <2>4, <2>5, <2>6, <2>9
            <4> HIDE DEF e, new
            <4>3. Ready(f, sent')
                BY <2>1, <2>2, <2>5, <2>6, <2>9, <4>1, <4>2 DEF Ready
            <4>4. SlotOK(Advanced(f), sent') /\ Advanced(f).tx = n
                BY <2>5, <2>9, <4>3, AdvancedOK
            <4>5. Becomes(c, Advanced(f))
                BY <2>8, <3>1 DEF Proceed, Advanced
            <4> QED
                BY <4>4, <4>5
        <3>2. CASE Becomes(c, Answered(aware, Pending(c).fails))
            <4>1. Pending(c).fails \in AnswerKind \ {"none", "ALLOW", "ALLOW_THEN_BLOCK"}
                BY <2>2 DEF AnswerKind
            <4>2. f.tx <= Len(sent') /\ f.route \in Senders /\ f.route # "none"
                  /\ ~(Pending(c).fails = "BLOCK" /\ f.route # "demoExecute")
                BY <2>1, <2>2, <2>5, <2>6, <2>9
            <4>3. SlotOK(Answered(f, Pending(c).fails), sent')
                  /\ Answered(f, Pending(c).fails).tx = f.tx
                BY <2>5, <2>9, <4>1, <4>2, AnsweredOK
            <4>4. Becomes(c, Answered(f, Pending(c).fails))
                BY <2>8, <3>2
            <4> QED
                BY <2>9, <4>3, <4>4
        <3> QED
            BY <1>3, <3>1, <3>2
    <2>11. PICK g : Becomes(c, g) /\ SlotOK(g, sent') /\ g.tx = n
        BY <2>10
    <2>12. /\ exchange' \in [Connection -> Req]
           /\ exchange'[c] = g
           /\ \A d \in Connection \ {c} : exchange'[d] = exchange[d]
        BY <2>11 DEF ApiInv, Becomes, SlotOK
    <2>13. ASSUME NEW d \in Connection \ {c}
           PROVE  SlotOK(exchange[d], sent') /\ exchange[d].tx # n
        <3> DEFINE h == exchange[d]
        <3>1. SlotOK(h, sent) /\ h \in Req
            BY DEF ApiInv
        <3>2. h.tx \in Nat /\ h.tx <= Len(sent)
            BY <3>1 DEF SlotOK, Req
        <3> HIDE DEF h, new
        <3>3. h.tx <= Len(sent') /\ (h.tx # 0 => sent'[h.tx] = sent[h.tx]) /\ h.tx # n
            BY <2>5, <2>6, <3>2 DEF new
        <3>4. Progress(h, sent) /\ Live(h) => Progress(h, sent')
            BY <3>3 DEF Progress, Senders
        <3>5. ReportsPayment(h) => Mined(h, sent')
            BY <3>1, <3>3 DEF SlotOK, Mined
        <3>6. h.route = "execute" /\ ReportsPayment(h) => sent'[h.tx].intent = h.intent
            BY <3>1, <3>3 DEF SlotOK, ReportsPayment, Mined
        <3> QED
            BY <3>1, <3>3, <3>4, <3>5, <3>6 DEF SlotOK, h
    <2>14. \A d \in Connection : SlotOK(exchange'[d], sent')
        BY <2>11, <2>12, <2>13
    <2>15. \A a, b \in Connection :
               a # b /\ exchange'[a].tx # 0 => exchange'[a].tx # exchange'[b].tx
        BY <2>11, <2>12, <2>13 DEF ApiInv
    <2>16. /\ nextFree' = nextFree /\ payments' = payments /\ day' = day
        BY <1>1 DEF mandateVars
    <2>17. Ledger'
        BY <2>16 DEF Ledger, ApiInv
    <2>18. \A k \in DOMAIN sent' : Vetted(sent'[k]) /\ PaidAs(sent'[k], payments')
        <3>1. ASSUME NEW k \in 1..Len(sent)
              PROVE  Vetted(sent'[k]) /\ PaidAs(sent'[k], payments')
            BY <2>5, <2>16 DEF ApiInv
        <3>2. Vetted(sent'[new]) /\ PaidAs(sent'[new], payments')
            BY <2>4, <2>5 DEF PaidAs
        <3>3. \A k \in 1..new : k = new \/ k \in 1..Len(sent)
            BY <2>5
        <3> QED
            BY <2>5, <3>1, <3>2, <3>3
    <2>19. Len(sent') <= MaxSent
        BY <2>5
    <2> HIDE DEF new
    <2> QED
        BY <2>5, <2>12, <2>14, <2>15, <2>17, <2>18, <2>19 DEF ApiInv
<1> QED
    BY <1>2, <1>3 DEF Submit

(***************************************************************************)
(* The chain decides: what an answer refers to as mined stays mined, and   *)
(* what is newly mined is paid as it was intended.                         *)
(***************************************************************************)
LEMMA SlotKept ==
    ASSUME NEW e, NEW txs, NEW later, SlotOK(e, txs), Len(later) = Len(txs),
           e.tx # 0 =>
               /\ later[e.tx].intent = txs[e.tx].intent
               /\ txs[e.tx].outcome = "mined" => later[e.tx].outcome = "mined"
    PROVE  SlotOK(e, later)
<1>1. ASSUME Live(e)
      PROVE  Progress(e, later)
    <2>1. Progress(e, txs)
        BY <1>1 DEF SlotOK
    <2>2. e.route \in Senders => /\ e.at >= 5 => e.tx # 0
                                 /\ e.at >= 6 => later[e.tx].outcome = "mined"
        BY <2>1 DEF Progress
    <2>3. e.route = "execute" /\ e.at = 5 => later[e.tx].intent = e.intent
        BY <2>1 DEF Progress, Senders
    <2> QED
        BY <2>1, <2>2, <2>3 DEF Progress
<1>2. ReportsPayment(e) => Mined(e, later)
    BY DEF SlotOK, Mined
<1>3. e.route = "execute" /\ ReportsPayment(e) => later[e.tx].intent = e.intent
    BY DEF SlotOK, ReportsPayment, Mined
<1> QED
    BY <1>1, <1>2, <1>3 DEF SlotOK

(***************************************************************************)
(* The mandate's payments, settled or not, in the ledger of the server.    *)
(***************************************************************************)
LEMMA SettleKeepsLedger ==
    ASSUME Ledger, NEW b \in Agent, NEW p \in Policy, NEW v \in Value, Settle(b, p, v)
    PROVE  /\ Ledger'
           /\ Len(payments') = Len(payments) + 1
           /\ \A k \in DOMAIN payments : k \in DOMAIN payments' /\ payments'[k] = payments[k]
           /\ Len(payments) + 1 \in DOMAIN payments'
           /\ payments'[Len(payments) + 1] =
                  [agent |-> b, nonce |-> nextFree[b], policy |-> p, value |-> v, day |-> day]
<1> DEFINE pay == [agent |-> b, nonce |-> nextFree[b], policy |-> p, value |-> v,
                   day |-> day]
<1>1. pay \in Payment
    BY DEF Ledger, Payment
<1>2. payments' = Append(payments, pay) /\ payments \in Seq(Payment)
      /\ nextFree' \in [Agent -> Nonce] /\ day' = day
    BY DEF Settle, NoncesGrow, Ledger
<1> HIDE DEF pay
<1>3. /\ payments' \in Seq(Payment) /\ Len(payments') = Len(payments) + 1
      /\ \A k \in DOMAIN payments : k \in DOMAIN payments' /\ payments'[k] = payments[k]
      /\ Len(payments) + 1 \in DOMAIN payments'
      /\ payments'[Len(payments) + 1] = pay
    BY <1>1, <1>2
<1> QED
    BY <1>2, <1>3 DEF Ledger, pay

LEMMA MineOK ==
    ASSUME ApiInv, NEW k \in DOMAIN sent, Mine(k)
    PROVE  ApiInv'
<1> DEFINE t == sent[k]
<1>1. /\ t \in Transaction /\ sent \in Seq(Transaction) /\ t.outcome = "pending"
      /\ exchange' = exchange /\ Ledger /\ k \in 1..Len(sent)
      /\ Vetted(t)
    BY DEF Mine, ApiInv
<1>2. ASSUME NEW u \in Transaction, sent' = [sent EXCEPT ![k] = u],
             u.intent = t.intent, Vetted(u), PaidAs(u, payments'), Ledger',
             \A j \in DOMAIN payments : j \in DOMAIN payments' /\ payments'[j] = payments[j]
      PROVE  ApiInv'
    <2>1. /\ sent' \in Seq(Transaction) /\ Len(sent') = Len(sent)
          /\ DOMAIN sent' = DOMAIN sent
          /\ sent'[k] = u /\ \A j \in DOMAIN sent \ {k} : sent'[j] = sent[j]
        BY <1>1, <1>2
    <2>2. \A j \in DOMAIN sent' : Vetted(sent'[j]) /\ PaidAs(sent'[j], payments')
        <3>1. ASSUME NEW j \in DOMAIN sent \ {k}
              PROVE  Vetted(sent'[j]) /\ PaidAs(sent'[j], payments')
            BY <1>2, <2>1 DEF ApiInv, PaidAs
        <3> QED
            BY <1>2, <2>1, <3>1
    <2>3. ASSUME NEW c \in Connection
          PROVE  SlotOK(exchange[c], sent')
        <3> DEFINE e == exchange[c]
        <3>1. SlotOK(e, sent) /\ e.tx \in Nat /\ e.tx <= Len(sent)
            BY DEF ApiInv, SlotOK, Req
        <3> HIDE DEF e
        <3>2. e.tx # 0 => e.tx \in DOMAIN sent
            BY <1>1, <3>1
        <3>3. e.tx # 0 => /\ sent'[e.tx].intent = sent[e.tx].intent
                          /\ sent[e.tx].outcome = "mined" => sent'[e.tx].outcome = "mined"
            BY <1>1, <1>2, <2>1, <3>2
        <3> QED
            BY <2>1, <3>1, <3>3, SlotKept DEF e
    <2> QED
        BY <1>1, <1>2, <2>1, <2>2, <2>3 DEF ApiInv
<1>3. CASE /\ Acceptable(t.intent, t.signed)
           /\ Settle(t.intent.agent, t.intent.policy, t.intent.value)
           /\ sent' = [sent EXCEPT ![k].outcome = "mined", ![k].payment = Len(payments) + 1]
    <2> DEFINE u == [t EXCEPT !.outcome = "mined", !.payment = Len(payments) + 1]
    <2>1. sent' = [sent EXCEPT ![k] = u]
        BY <1>1, <1>3
    <2>2. t.intent.agent \in Agent /\ t.intent.policy \in Policy /\ t.intent.value \in Value
        BY <1>1 DEF Transaction, IntentType
    <2>3. /\ Ledger'
          /\ \A j \in DOMAIN payments : j \in DOMAIN payments' /\ payments'[j] = payments[j]
          /\ Len(payments) + 1 \in DOMAIN payments'
          /\ payments'[Len(payments) + 1] =
                 [agent |-> t.intent.agent, nonce |-> nextFree[t.intent.agent],
                  policy |-> t.intent.policy, value |-> t.intent.value, day |-> day]
        BY <1>1, <1>3, <2>2, SettleKeepsLedger
    <2>4. PICK n \in Nat : n = Len(payments) + 1
        BY <1>1 DEF Ledger
    <2>5. /\ u \in Transaction /\ u.intent = t.intent /\ u.payment = n
          /\ u.checked = t.checked /\ u.signed = t.signed /\ u.answers = t.answers
        BY <1>1, <2>4 DEF Transaction
    <2> HIDE DEF u
    <2>6. Vetted(u)
        BY <1>1, <2>5 DEF Vetted
    <2>7. PaidAs(u, payments')
        BY <1>3, <2>3, <2>4, <2>5 DEF PaidAs, Acceptable
    <2> HIDE DEF t
    <2> QED
        BY <1>2, <2>1, <2>3, <2>5, <2>6, <2>7
<1>4. CASE /\ \E outcome \in {"reverted", "replaced"} :
                  sent' = [sent EXCEPT ![k].outcome = outcome]
           /\ UNCHANGED mandateVars
    <2>1. PICK outcome \in {"reverted", "replaced"} :
              sent' = [sent EXCEPT ![k].outcome = outcome]
        BY <1>4
    <2> DEFINE u == [t EXCEPT !.outcome = outcome]
    <2>2. sent' = [sent EXCEPT ![k] = u]
        BY <1>1, <2>1
    <2>3. /\ u \in Transaction /\ u.intent = t.intent /\ u.outcome # "mined"
          /\ u.checked = t.checked /\ u.signed = t.signed /\ u.answers = t.answers
        BY <1>1 DEF Transaction
    <2> HIDE DEF u
    <2>4. Vetted(u) /\ PaidAs(u, payments')
        BY <1>1, <2>3 DEF Vetted, PaidAs
    <2>5. nextFree' = nextFree /\ payments' = payments /\ day' = day
        BY <1>4 DEF mandateVars
    <2>6. Ledger'
        BY <1>1, <2>5 DEF Ledger
    <2> HIDE DEF t
    <2> QED
        BY <1>2, <2>2, <2>3, <2>4, <2>5, <2>6
<1> QED
    BY <1>3, <1>4 DEF Mine

LEMMA ElsewhereOK ==
    ASSUME ApiInv, Elsewhere
    PROVE  ApiInv'
<1>1. exchange' = exchange /\ sent' = sent /\ Ledger
    BY DEF Elsewhere, apiVars, ApiInv
<1>2. /\ Ledger'
      /\ \A j \in DOMAIN payments : j \in DOMAIN payments' /\ payments'[j] = payments[j]
    <2>1. CASE SomePayment
        BY <1>1, <2>1, SettleKeepsLedger DEF SomePayment
    <2>2. CASE NewEpoch
        BY <1>1, <2>2 DEF NewEpoch, NoncesGrow, Ledger
    <2>3. CASE NextDay
        BY <1>1, <2>3 DEF NextDay, Ledger
    <2> QED
        BY <2>1, <2>2, <2>3 DEF Elsewhere, MandateNext
<1>3. \A k \in DOMAIN sent' : Vetted(sent'[k]) /\ PaidAs(sent'[k], payments')
    BY <1>1, <1>2 DEF ApiInv, PaidAs
<1> QED
    BY <1>1, <1>2, <1>3 DEF ApiInv

LEMMA CrashOK ==
    ASSUME ApiInv, Crash
    PROVE  ApiInv'
<1>1. /\ sent' = sent /\ nextFree' = nextFree /\ payments' = payments /\ day' = day
      /\ exchange' = [c \in Connection |-> NoRequest]
    BY DEF Crash, mandateVars
<1>2. SlotOK(NoRequest, sent) /\ NoRequest \in Req /\ NoRequest.tx = 0
    BY NoRequestOK DEF ApiInv, SlotOK, NoRequest
<1>3. Ledger'
    BY <1>1 DEF Ledger, ApiInv
<1> QED
    BY <1>1, <1>2, <1>3 DEF ApiInv

LEMMA ServeOK ==
    ASSUME ApiInv, NEW c \in Connection, Serve(c)
    PROVE  ApiInv'
<1>1. CASE BodyFails(c)
    BY <1>1, FailsOK DEF BodyFails, Settled
<1>2. CASE ToolMissing(c)
    <2>1. exchange[c].route # "none"
        BY <1>2, AtAwait DEF ToolMissing
    <2> QED
        BY <1>2, <2>1, ReplyOK DEF ToolMissing, AnswerKind
<1>3. CASE ReadNonce(c)
    BY <1>3, ReadNonceOK
<1>4. CASE NonceFails(c)
    BY <1>4, FailsOK DEF NonceFails, Settled
<1>5. CASE AskRisk(c)
    BY <1>5, AskRiskOK
<1>6. CASE StaticCall(c)
    BY <1>6, StaticCallOK
<1>7. CASE Attack(c)
    BY <1>7, AttackOK
<1>8. CASE Submit(c)
    BY <1>8, SubmitOK
<1>9. CASE Wait(c)
    BY <1>9, WaitOK
<1> QED
    BY <1>1, <1>2, <1>3, <1>4, <1>5, <1>6, <1>7, <1>8, <1>9 DEF Serve

LEMMA ApiInvStep == ApiInv /\ [Next]_vars => ApiInv'
<1> SUFFICES ASSUME ApiInv, [Next]_vars
             PROVE  ApiInv'
    OBVIOUS
<1>1. ASSUME NEW c \in Connection, NEW route \in Route[c], Open(c, route)
      PROVE  ApiInv'
    BY <1>1, OpenOK, RouteAssumption
<1>2. ASSUME NEW c \in Connection, NEW body \in Body, ReadBody(c, body)
      PROVE  ApiInv'
    BY <1>2, ReadBodyOK, ApiAssumption
<1>3. ASSUME NEW c \in Connection, Serve(c)
      PROVE  ApiInv'
    BY <1>3, ServeOK
<1>4. ASSUME NEW c \in Connection, WaitFails(c)
      PROVE  ApiInv'
    BY <1>4, WaitOK
<1>5. ASSUME NEW k \in DOMAIN sent, Mine(k)
      PROVE  ApiInv'
    BY <1>5, MineOK
<1>6. ASSUME Elsewhere
      PROVE  ApiInv'
    BY <1>6, ElsewhereOK
<1>7. ASSUME Crash
      PROVE  ApiInv'
    BY <1>7, CrashOK
<1>8. CASE UNCHANGED vars
    BY <1>8 DEF vars, mandateVars, apiVars, ApiInv, Ledger
<1> QED
    BY <1>1, <1>2, <1>3, <1>4, <1>5, <1>6, <1>7, <1>8 DEF Next, Step

(***************************************************************************)
(* api/app.ts: how far a handler has come tells what it has found out, and *)
(* every transaction of the relayer was vetted, whatever else goes on.     *)
(***************************************************************************)
THEOREM ApiInvariance == Spec => []ApiInv
BY ApiInvInit, ApiInvStep, PTL DEF Spec

-----------------------------------------------------------------------------
(***************************************************************************)
(* api/app.ts and executor.ts: the state of the server is what its types   *)
(* say, and a handler waits only for a transaction that it has sent.       *)
(***************************************************************************)
THEOREM TypeCorrect == Spec => []ApiTypeOK
<1>1. ApiInv => ApiTypeOK
    <2> SUFFICES ASSUME ApiInv
                 PROVE  ApiTypeOK
        OBVIOUS
    <2>1. ASSUME NEW c \in Connection
          PROVE  /\ exchange[c] \in Request \cup {NoRequest}
                 /\ exchange[c].tx <= Len(sent)
                 /\ Awaits(c, "wait") => exchange[c].tx # 0
        <3>1. SlotOK(exchange[c], sent)
            BY DEF ApiInv
        <3>2. CASE exchange[c].route = "none"
            BY <3>1, <3>2 DEF SlotOK, Awaits, Serving
        <3>3. CASE exchange[c].route # "none"
            <4>1. exchange[c] \in Request
                BY <3>1, <3>3 DEF SlotOK, Req, Request, AnswerKind
            <4>2. ASSUME Awaits(c, "wait")
                  PROVE  exchange[c].tx # 0
                <5>1. exchange[c].route \in Senders /\ exchange[c].at = 5
                      /\ Progress(exchange[c], sent)
                    BY <4>2, AtAwait, RoleAtAwait
                <5> QED
                    BY <5>1 DEF Progress
            <4> QED
                BY <3>1, <4>1, <4>2 DEF SlotOK
        <3> QED
            BY <3>2, <3>3
    <2>2. exchange \in [Connection -> Request \cup {NoRequest}]
        BY <2>1 DEF ApiInv
    <2> QED
        BY <2>1, <2>2 DEF ApiTypeOK, ApiInv
<1> QED
    BY <1>1, ApiInvariance, PTL

(***************************************************************************)
(* THREAT_MODEL.md I17, "the API is fail-closed": the relayer sends only   *)
(* what it called statically as it is sent and as it was signed, after     *)
(* every provider gave a clear answer about it.                            *)
(***************************************************************************)
THEOREM OnlyVettedIsSent == Spec => []SubmittedWasVetted
<1>1. ApiInv => SubmittedWasVetted
    BY DEF ApiInv, Vetted, Cleared, SubmittedWasVetted
<1> QED
    BY <1>1, ApiInvariance, PTL

(***************************************************************************)
(* What the invariant says of the answers that report an execution.        *)
(***************************************************************************)
LEMMA AllowFromInv == ApiInv => AllowIsPaid
<1> SUFFICES ASSUME ApiInv, NEW c \in Connection, ReportsPayment(exchange[c])
             PROVE  LET e == exchange[c]
                        t == sent[e.tx]
                        paid == payments[t.payment]
                    IN  /\ e.tx # 0 /\ t.outcome = "mined"
                        /\ <<paid.agent, paid.nonce, paid.policy, paid.value>> =
                              <<t.intent.agent, t.intent.nonce, t.intent.policy,
                                t.intent.value>>
                        /\ e.route = "execute" => t.intent = e.intent
                        /\ \A d \in Connection \ {c} : exchange[d].tx # e.tx
    BY DEF AllowIsPaid
<1> DEFINE e == exchange[c]
<1>1. SlotOK(e, sent) /\ e.tx \in Nat
    BY DEF ApiInv, SlotOK, Req
<1>2. e.tx # 0 /\ sent[e.tx].outcome = "mined" /\ e.tx <= Len(sent)
    BY <1>1 DEF SlotOK, Mined
<1>3. e.route = "execute" => sent[e.tx].intent = e.intent
    BY <1>1 DEF SlotOK
<1>4. \A d \in Connection \ {c} : exchange[d].tx # e.tx
    BY <1>2 DEF ApiInv
<1> HIDE DEF e
<1>5. e.tx \in DOMAIN sent
    BY <1>1, <1>2 DEF ApiInv
<1>6. PaidAs(sent[e.tx], payments)
    BY <1>5 DEF ApiInv
<1> QED
    BY <1>2, <1>3, <1>4, <1>6 DEF PaidAs, e

(***************************************************************************)
(* api/app.ts, execute and the demos: ALLOW reports a payment of the very  *)
(* intent, by a transaction that no other request reports.                 *)
(***************************************************************************)
THEOREM AllowMeansPaid == Spec => []AllowIsPaid
BY AllowFromInv, ApiInvariance, PTL

(***************************************************************************)
(* api/app.ts: BLOCK is never the answer to a request that has sent a      *)
(* transaction; demo/execute is the one exception.                         *)
(***************************************************************************)
THEOREM BlockedIsUnsent == Spec => []BlockMeansUnsent
<1>1. ApiInv => BlockMeansUnsent
    BY DEF ApiInv, SlotOK, BlockMeansUnsent
<1> QED
    BY <1>1, ApiInvariance, PTL
=============================================================================
