---------------------------- MODULE ClientProofs ----------------------------
(***************************************************************************)
(* What the SDK's clients can rely on, for any number of them, of          *)
(* connections and of repeated calls.                                      *)
(***************************************************************************)
EXTENDS GuardedClient, ApiProofs

SdkRoutes == {"prepare", "preflight", "execute"}

(***************************************************************************)
(* Mined transactions of one agent have nonces of their own, all of them   *)
(* used up.                                                                *)
(***************************************************************************)
MinedOnce ==
    /\ \A k \in DOMAIN sent :
          sent[k].outcome = "mined" =>
              sent[k].intent.nonce < nextFree[sent[k].intent.agent]
    /\ \A k, j \in DOMAIN sent :
          /\ sent[k].outcome = "mined" /\ sent[j].outcome = "mined"
          /\ sent[k].intent.agent = sent[j].intent.agent
          /\ sent[k].intent.nonce = sent[j].intent.nonce
          => k = j

LEMMA NoncesAreInts ==
    /\ Nonce \subseteq Int
    /\ \A f \in [Agent -> Nonce] : \A b \in Agent : f[b] \in Int
<1>1. Nonce \subseteq Int
    <2>1. Nonce \subseteq Nat
        BY ApiAssumption
    <2> QED
        BY <2>1
<1> QED
    BY <1>1

LEMMA SentTyped ==
    ASSUME ApiInv, NEW k \in DOMAIN sent
    PROVE  /\ sent[k] \in Transaction
           /\ sent[k].intent.agent \in Agent /\ sent[k].intent.nonce \in Int
           /\ sent[k].intent.policy \in Policy /\ sent[k].intent.value \in Value
           /\ nextFree[sent[k].intent.agent] \in Int
<1>1. sent[k] \in Transaction
    BY DEF ApiInv
<1>2. sent[k].intent \in IntentType
    BY <1>1 DEF Transaction
<1>3. /\ sent[k].intent.agent \in Agent /\ sent[k].intent.nonce \in Nonce
      /\ sent[k].intent.policy \in Policy /\ sent[k].intent.value \in Value
    BY <1>2 DEF IntentType
<1>4. nextFree \in [Agent -> Nonce]
    BY DEF ApiInv, Ledger
<1> QED
    BY <1>1, <1>3, <1>4, NoncesAreInts

LEMMA NoncesGrowKeepMined ==
    ASSUME ApiInv, MinedOnce, NoncesGrow, sent' = sent
    PROVE  MinedOnce'
<1>1. ASSUME NEW k \in DOMAIN sent, sent[k].outcome = "mined"
      PROVE  sent[k].intent.nonce < nextFree'[sent[k].intent.agent]
    <2>1. /\ sent[k].intent.agent \in Agent /\ sent[k].intent.nonce \in Int
          /\ nextFree[sent[k].intent.agent] \in Int
        BY SentTyped
    <2>2. nextFree'[sent[k].intent.agent] \in Int
        BY <2>1, NoncesAreInts DEF NoncesGrow
    <2>3. nextFree'[sent[k].intent.agent] >= nextFree[sent[k].intent.agent]
        BY <2>1 DEF NoncesGrow
    <2>4. sent[k].intent.nonce < nextFree[sent[k].intent.agent]
        BY <1>1 DEF MinedOnce
    <2> QED
        BY <2>1, <2>2, <2>3, <2>4
<1> QED
    BY <1>1 DEF MinedOnce

LEMMA ElsewhereKeepsMined ==
    ASSUME ApiInv, MinedOnce, Elsewhere
    PROVE  MinedOnce'
<1>1. sent' = sent
    BY DEF Elsewhere, apiVars
<1>2. NoncesGrow \/ nextFree' = nextFree
    BY DEF Elsewhere, MandateNext, SomePayment, Settle, NewEpoch, NextDay
<1>3. CASE nextFree' = nextFree
    BY <1>1, <1>3 DEF MinedOnce
<1> QED
    BY <1>1, <1>2, <1>3, NoncesGrowKeepMined

(***************************************************************************)
(* AgentExecutionGuard.sol, as the mandate has it: a mined transaction had *)
(* the next free nonce, which it used up.                                  *)
(***************************************************************************)
LEMMA MineKeepsMined ==
    ASSUME ApiInv, MinedOnce, NEW k \in DOMAIN sent, Mine(k)
    PROVE  MinedOnce'
<1> DEFINE t == sent[k]
<1>1. sent \in Seq(Transaction) /\ t \in Transaction /\ t.outcome = "pending"
    BY DEF Mine, ApiInv
<1>2. CASE /\ Acceptable(t.intent, t.signed)
           /\ Settle(t.intent.agent, t.intent.policy, t.intent.value)
           /\ sent' = [sent EXCEPT ![k].outcome = "mined", ![k].payment = Len(payments) + 1]
    <2>1. /\ DOMAIN sent' = DOMAIN sent
          /\ sent'[k].outcome = "mined" /\ sent'[k].intent = t.intent
          /\ \A j \in DOMAIN sent \ {k} : sent'[j] = sent[j]
        <3>1. sent' = [sent EXCEPT ![k] = [t EXCEPT !.outcome = "mined",
                                                   !.payment = Len(payments) + 1]]
            BY <1>1, <1>2
        <3> QED
            BY <1>1, <3>1 DEF Transaction
    <2>2. /\ t.intent.nonce = nextFree[t.intent.agent]
          /\ nextFree'[t.intent.agent] > nextFree[t.intent.agent]
          /\ NoncesGrow
        BY <1>2 DEF Acceptable, Settle
    <2>3. ASSUME NEW j \in DOMAIN sent
          PROVE  /\ sent[j].intent.agent \in Agent /\ sent[j].intent.nonce \in Int
                 /\ nextFree[sent[j].intent.agent] \in Int
                 /\ nextFree'[sent[j].intent.agent] \in Int
                 /\ nextFree'[sent[j].intent.agent] >= nextFree[sent[j].intent.agent]
        BY <2>2, SentTyped, NoncesAreInts DEF NoncesGrow
    <2>4. ASSUME NEW j \in DOMAIN sent \ {k}, sent[j].outcome = "mined"
          PROVE  /\ sent[j].intent.nonce < nextFree'[sent[j].intent.agent]
                 /\ ~(/\ sent[j].intent.agent = t.intent.agent
                      /\ sent[j].intent.nonce = t.intent.nonce)
        <3>1. sent[j].intent.nonce < nextFree[sent[j].intent.agent]
            BY <2>4 DEF MinedOnce
        <3> QED
            BY <2>2, <2>3, <3>1
    <2>5. t.intent.nonce < nextFree'[t.intent.agent]
        BY <2>2, <2>3
    <2>6. \A j \in DOMAIN sent : sent'[j].intent = sent[j].intent
        BY <2>1
    <2>7. \A j \in DOMAIN sent' :
              sent'[j].outcome = "mined" =>
                  sent'[j].intent.nonce < nextFree'[sent'[j].intent.agent]
        BY <2>1, <2>4, <2>5, <2>6
    <2>8. ASSUME NEW i \in DOMAIN sent', NEW j \in DOMAIN sent',
                 sent'[i].outcome = "mined", sent'[j].outcome = "mined",
                 sent'[i].intent.agent = sent'[j].intent.agent,
                 sent'[i].intent.nonce = sent'[j].intent.nonce
          PROVE  i = j
        <3>1. CASE i = k
            BY <2>1, <2>4, <2>6, <2>8, <3>1
        <3>2. CASE j = k
            BY <2>1, <2>4, <2>6, <2>8, <3>2
        <3>3. CASE i # k /\ j # k
            BY <2>1, <2>8, <3>3 DEF MinedOnce
        <3> QED
            BY <3>1, <3>2, <3>3
    <2> QED
        BY <2>7, <2>8 DEF MinedOnce
<1>3. CASE /\ \E outcome \in {"reverted", "replaced"} :
                  sent' = [sent EXCEPT ![k].outcome = outcome]
           /\ UNCHANGED mandateVars
    <2>1. PICK outcome \in {"reverted", "replaced"} :
              sent' = [sent EXCEPT ![k].outcome = outcome]
        BY <1>3
    <2>2. sent' = [sent EXCEPT ![k] = [t EXCEPT !.outcome = outcome]]
        BY <1>1, <2>1
    <2>3. /\ DOMAIN sent' = DOMAIN sent
          /\ sent'[k].outcome # "mined"
          /\ \A j \in DOMAIN sent \ {k} : sent'[j] = sent[j]
        BY <1>1, <2>2 DEF Transaction
    <2>4. nextFree' = nextFree
        BY <1>3 DEF mandateVars
    <2> HIDE DEF t
    <2> QED
        BY <2>3, <2>4 DEF MinedOnce
<1> QED
    BY <1>2, <1>3 DEF Mine

(***************************************************************************)
(* A handler mines nothing.                                                *)
(***************************************************************************)
LEMMA HandlersKeepMined ==
    ASSUME ApiInv, MinedOnce, UNCHANGED mandateVars,
           sent' = sent \/ \E t : t.outcome = "pending" /\ sent' = Append(sent, t)
    PROVE  MinedOnce'
<1>1. nextFree' = nextFree
    BY DEF mandateVars
<1>2. CASE sent' = sent
    BY <1>1, <1>2 DEF MinedOnce
<1>3. CASE \E t : t.outcome = "pending" /\ sent' = Append(sent, t)
    <2>1. PICK t : t.outcome = "pending" /\ sent' = Append(sent, t)
        BY <1>3
    <2>2. /\ sent \in Seq(Transaction)
          /\ \A k \in DOMAIN sent' :
                \/ k \in DOMAIN sent /\ sent'[k] = sent[k]
                \/ sent'[k] = t
        BY <2>1 DEF ApiInv
    <2>3. \A k \in DOMAIN sent' : sent'[k].outcome = "mined" =>
              k \in DOMAIN sent /\ sent'[k] = sent[k]
        BY <2>1, <2>2
    <2> QED
        BY <1>1, <2>3 DEF MinedOnce
<1> QED
    BY <1>2, <1>3

-----------------------------------------------------------------------------
(***************************************************************************)
(* One served await of a handler: what it replaces the request with.       *)
(***************************************************************************)
Known == {"none", "ok", "ALLOW"}

\* The request that follows e has its route, its intent as far as it is told, and
\* while it is served its signature.
Follows(f, e) ==
    /\ f.route = e.route
    /\ e.answer = "none"
    /\ f.answer \in Known => f.intent = e.intent
    /\ f.answer = "none" => f.signed = e.signed

LEMMA NoRequestIsReq == NoRequest \in Req
<1>1. <<>> \in Seq(Transaction)
    OBVIOUS
<1> QED
    BY <1>1, NoRequestOK DEF SlotOK

LEMMA AnsweredFollows ==
    ASSUME NEW e, NEW answer \in AnswerKind \ Known, e.answer = "none",
           e.route \in DOMAIN handlerOf, e.tx \in 0..MaxSent
    PROVE  Follows(Answered(e, answer), e) /\ Answered(e, answer).tx = e.tx
<1>1. NoRequest \in Req
    BY NoRequestIsReq
<1>2. /\ Answered(e, answer).route = e.route /\ Answered(e, answer).answer = answer
      /\ Answered(e, answer).tx = e.tx
    BY <1>1 DEF Answered, Req
<1> QED
    BY <1>2 DEF Follows, Known

LEMMA AdvancedFollows ==
    ASSUME NEW e \in Req, e.answer = "none", e.route \in DOMAIN handlerOf
    PROVE  Follows(Advanced(e), e) /\ Advanced(e).tx = e.tx
<1> DEFINE handler == handlerOf[e.route]
           f == [e EXCEPT !.at = @ + 1]
           a == Answered(e, handler.done)
           g == [a EXCEPT !.intent = e.intent, !.nonces = e.nonces]
<1>1. f.route = e.route /\ f.intent = e.intent /\ f.signed = e.signed /\ f.tx = e.tx
    BY DEF Req
<1>2. NoRequest \in Req /\ handler.done \in AnswerKind \ {"none"}
    BY NoRequestIsReq, OrderOfRoutes DEF OrderOfAwaits
<1>3. a \in Req /\ a.route = e.route /\ a.answer # "none" /\ a.tx = e.tx
    BY <1>2 DEF Answered, Req
<1> HIDE DEF a
<1>4. g.route = e.route /\ g.intent = e.intent /\ g.answer # "none" /\ g.tx = e.tx
    BY <1>3 DEF Req
<1>5. Advanced(e) = f \/ Advanced(e) = g
    BY DEF Advanced, a
<1> HIDE DEF f, g
<1> QED
    BY <1>1, <1>4, <1>5 DEF Follows

(***************************************************************************)
(* The routes of the SDK read a body first, and no nonce.                  *)
(***************************************************************************)
LEMMA SdkHandlers ==
    \A r \in SdkRoutes :
        /\ r \in DOMAIN handlerOf
        /\ \A n \in 1..Len(handlerOf[r].awaits) :
              /\ handlerOf[r].awaits[n].for \notin {"nonce", "attack"}
              /\ n = 1 <=> handlerOf[r].awaits[n].for = "body"
<1> DEFINE Reads(r) ==
        \A n \in 1..Len(handlerOf[r].awaits) :
            /\ handlerOf[r].awaits[n].for \notin {"nonce", "attack"}
            /\ n = 1 <=> handlerOf[r].awaits[n].for = "body"
<1>1. SdkRoutes \subseteq DOMAIN handlerOf
    BY DEF SdkRoutes, handlerOf
<1>2. Reads("prepare")
    <2>1. handlerOf["prepare"] = prepare
        BY DEF handlerOf
    <2> QED
        BY <2>1 DEF prepare, Handler, Await
<1>3. Reads("preflight")
    <2>1. handlerOf["preflight"] = preflight
        BY DEF handlerOf
    <2> QED
        BY <2>1 DEF preflight, Handler, Await
<1>4. Reads("execute")
    <2>1. handlerOf["execute"] = execute
        BY DEF handlerOf
    <2> QED
        BY <2>1 DEF execute, Handler, Await
<1> HIDE DEF Reads
<1>5. \A r \in SdkRoutes : Reads(r)
    BY <1>2, <1>3, <1>4 DEF SdkRoutes
<1> QED
    BY <1>1, <1>5 DEF Reads

(***************************************************************************)
(* Every step of a handler replaces its own request by one that follows,   *)
(* moves no money, and has nothing mined; a transaction it sends carries   *)
(* the request's intent.                                                   *)
(***************************************************************************)
Sends(t, e) ==
    /\ t.outcome = "pending" /\ t.intent = e.intent
    /\ e.route \in Senders /\ e.at = 4

ServedBy(c, f) ==
    /\ exchange' = [exchange EXCEPT ![c] = f] /\ Follows(f, exchange[c])
    /\ \/ sent' = sent /\ f.tx = exchange[c].tx
       \/ /\ \E t : Sends(t, exchange[c]) /\ sent' = Append(sent, t)
          /\ f.tx = Len(sent) + 1

Served(c) == UNCHANGED mandateVars /\ \E f : ServedBy(c, f)

LEMMA ReplyServed ==
    ASSUME ApiInv, NEW c \in Connection, Serving(c), NEW answer \in AnswerKind \ Known,
           Reply(c, answer), UNCHANGED <<mandateVars, sent>>
    PROVE  Served(c)
<1> DEFINE e == exchange[c]
<1>1. e \in Req /\ e.answer = "none" /\ e.route # "none"
    BY DEF ApiInv, Serving
<1>2. e.route \in DOMAIN handlerOf /\ e.tx \in 0..MaxSent
    BY <1>1 DEF Req
<1>3. Follows(Answered(e, answer), e) /\ Answered(e, answer).tx = e.tx
    BY <1>1, <1>2, AnsweredFollows
<1> QED
    BY <1>3 DEF Reply, Becomes, Served, ServedBy

LEMMA FailsServed ==
    ASSUME ApiInv, NEW c \in Connection, NEW what \in Settled, Awaits(c, what),
           Fails(c), UNCHANGED <<mandateVars, sent>>
    PROVE  Served(c)
<1>1. Pending(c).fails \in {"error", "BLOCK"}
    BY RoleAtAwait
<1>2. Serving(c) /\ Pending(c).fails \in AnswerKind \ Known
    BY <1>1 DEF Awaits, AnswerKind, Known
<1> QED
    BY <1>2, ReplyServed DEF Fails

LEMMA ProceedServed ==
    ASSUME ApiInv, NEW c \in Connection, Serving(c), NEW e \in Req, Proceed(c, e),
           e.route = exchange[c].route, e.answer = "none", e.intent = exchange[c].intent,
           e.signed = exchange[c].signed, e.tx = exchange[c].tx,
           UNCHANGED <<mandateVars, sent>>
    PROVE  Served(c)
<1>1. e.route \in DOMAIN handlerOf
    BY DEF Serving, Req
<1>2. Follows(Advanced(e), e) /\ Advanced(e).tx = e.tx
    BY <1>1, AdvancedFollows
<1>3. Follows(Advanced(e), exchange[c])
    BY <1>2 DEF Follows, Serving
<1>4. exchange' = [exchange EXCEPT ![c] = Advanced(e)]
    BY DEF Proceed, Becomes, Advanced
<1> QED
    BY <1>2, <1>3, <1>4 DEF Served, ServedBy

LEMMA AskRiskServed ==
    ASSUME ApiInv, NEW c \in Connection, AskRisk(c)
    PROVE  Served(c)
<1> DEFINE e == exchange[c]
           gated == handlerOf[e.route].gate
           asked == IF "risk" \in Service THEN [Provider -> Answer] ELSE {<<>>}
           shown(answers) == IF gated THEN answers ELSE e.answers
           f(answers) == [e EXCEPT !.answers = shown(answers)]
<1>1. /\ e \in Req /\ e.answer = "none" /\ Serving(c)
      /\ UNCHANGED <<mandateVars, sent>>
    BY DEF ApiInv, AskRisk, Awaits, Serving
<1>2. \E answers \in asked :
          Reply(c, "BLOCK") \/ Reply(c, "READY") \/ Proceed(c, f(answers))
    <2>1. PICK answers \in asked :
              LET verdict == IF "risk" \notin Service /\ e.route \in RiskIsOptional
                             THEN "CLEAR" ELSE assessRisk(answers, FALSE).status
              IN  CASE Stops(handlerOf[e.route], verdict) -> Reply(c, "BLOCK")
                    [] e.route = "agentDemo" ->
                           Reply(c, IF verdict = "CLEAR" THEN "READY" ELSE "BLOCK")
                    [] OTHER -> Proceed(c, f(answers))
        BY DEF AskRisk
    <2> QED
        BY <2>1
<1>3. PICK answers \in asked :
          Reply(c, "BLOCK") \/ Reply(c, "READY") \/ Proceed(c, f(answers))
    BY <1>2
<1>4. CASE Reply(c, "BLOCK") \/ Reply(c, "READY")
    BY <1>1, <1>4, ReplyServed DEF AnswerKind, Known
<1>5. CASE Proceed(c, f(answers))
    <2> DEFINE g == f(answers)
    <2>1. shown(answers) \in [Provider -> Answer] \cup {<<>>}
        BY <1>1 DEF Req
    <2> HIDE DEF shown
    <2>2. /\ g \in Req /\ g.route = e.route /\ g.answer = "none" /\ g.intent = e.intent
          /\ g.signed = e.signed /\ g.tx = e.tx
        BY <1>1, <2>1 DEF Req
    <2>3. Proceed(c, g)
        BY <1>5
    <2> HIDE DEF g
    <2> QED
        BY <1>1, <2>2, <2>3, ProceedServed
<1> QED
    BY <1>3, <1>4, <1>5

LEMMA StaticCallServed ==
    ASSUME ApiInv, NEW c \in Connection, StaticCall(c)
    PROVE  Served(c)
<1> DEFINE e == exchange[c]
           f == [e EXCEPT !.checked = e.intent]
<1>1. /\ e \in Req /\ e.answer = "none" /\ Serving(c) /\ Awaits(c, "staticCall")
      /\ UNCHANGED <<mandateVars, sent>>
    BY DEF ApiInv, StaticCall, Awaits, Serving
<1>2. /\ f \in Req /\ f.route = e.route /\ f.answer = "none" /\ f.intent = e.intent
      /\ f.signed = e.signed /\ f.tx = e.tx
    BY <1>1 DEF Req
<1>3. Fails(c) \/ Proceed(c, f)
    BY DEF StaticCall
<1> HIDE DEF f
<1> QED
    BY <1>1, <1>2, <1>3, FailsServed, ProceedServed DEF Settled

LEMMA WaitServed ==
    ASSUME ApiInv, NEW c \in Connection, Wait(c) \/ WaitFails(c)
    PROVE  Served(c)
<1>1. /\ exchange[c] \in Req /\ exchange[c].answer = "none" /\ Serving(c)
      /\ Awaits(c, "wait") /\ UNCHANGED <<mandateVars, sent>>
    BY DEF ApiInv, Wait, WaitFor, WaitFails, Awaits, Serving
<1>2. Fails(c) \/ Proceed(c, exchange[c])
    BY DEF Wait, WaitFor, WaitFails
<1> QED
    BY <1>1, <1>2, FailsServed, ProceedServed DEF Settled

LEMMA SubmitServed ==
    ASSUME ApiInv, NEW c \in Connection, Submit(c)
    PROVE  Served(c)
<1> DEFINE e == exchange[c]
           aware == [e EXCEPT !.tx = Len(sent) + 1]
           t == [intent |-> e.intent, signed |-> e.signed, answers |-> e.answers,
                 checked |-> e.checked, outcome |-> "pending", payment |-> 0]
<1>1. /\ e \in Req /\ e.answer = "none" /\ e.route # "none" /\ Serving(c)
      /\ Awaits(c, "submit") /\ UNCHANGED mandateVars
    BY DEF ApiInv, Submit, Awaits, Serving
<1>2. CASE Fails(c) /\ UNCHANGED sent
    BY <1>1, <1>2, FailsServed DEF Settled
<1>3. CASE /\ Len(sent) < MaxSent
           /\ sent' = Append(sent, t)
           /\ Proceed(c, aware) \/ Becomes(c, Answered(aware, Pending(c).fails))
    <2>1. PICK n \in 0..MaxSent : n = Len(sent) + 1
        BY <1>3, ApiAssumption DEF ApiInv
    <2>2. PICK f : f = [e EXCEPT !.tx = n]
        OBVIOUS
    <2>3. f = aware
        BY <2>1, <2>2
    <2>4. f \in Req
        BY <1>1, <2>2 DEF Req
    <2>5. /\ f.route = e.route /\ f.answer = "none" /\ f.intent = e.intent
          /\ f.signed = e.signed /\ f.tx = Len(sent) + 1
        BY <1>1, <2>1, <2>2 DEF Req
    <2>6. f.route \in DOMAIN handlerOf /\ f.tx \in 0..MaxSent
        BY <1>1, <2>4, <2>5 DEF Req
    <2>7. Pending(c).fails \in AnswerKind \ Known
        <3>1. Pending(c).fails \in {"error", "BLOCK"}
            BY <1>1, RoleAtAwait DEF Settled
        <3> QED
            BY <3>1 DEF AnswerKind, Known
    <2>8. /\ Follows(Advanced(f), f) /\ Follows(Answered(f, Pending(c).fails), f)
          /\ Advanced(f).tx = f.tx /\ Answered(f, Pending(c).fails).tx = f.tx
        BY <2>4, <2>5, <2>6, <2>7, AdvancedFollows, AnsweredFollows
    <2>9. Becomes(c, Advanced(f)) \/ Becomes(c, Answered(f, Pending(c).fails))
        BY <1>3, <2>3 DEF Proceed, Advanced
    <2>10. PICK g : exchange' = [exchange EXCEPT ![c] = g] /\ Follows(g, f) /\ g.tx = f.tx
        BY <2>8, <2>9 DEF Becomes
    <2>11. Follows(g, e)
        BY <1>1, <2>5, <2>10 DEF Follows
    <2>12. e.route \in Senders /\ e.at = 4
        BY <1>1, RoleAtAwait
    <2>13. Sends(t, e)
        BY <2>12 DEF Sends
    <2> HIDE DEF t
    <2>14. ServedBy(c, g)
        BY <1>3, <2>5, <2>10, <2>11, <2>13 DEF ServedBy
    <2> QED
        BY <1>1, <2>14 DEF Served
<1> QED
    BY <1>2, <1>3 DEF Submit

LEMMA ServeIsServed ==
    ASSUME ApiInv, NEW c \in Connection, exchange[c].route \in SdkRoutes,
           Serve(c) \/ WaitFails(c)
    PROVE  Served(c)
<1>1. ASSUME NEW what \in {"nonce", "attack"}, Awaits(c, what)
      PROVE  FALSE
    BY <1>1, AtAwait, SdkHandlers
<1>2. CASE BodyFails(c)
    BY <1>2, FailsServed DEF BodyFails, Settled
<1>3. CASE ToolMissing(c)
    BY <1>3, ReplyServed DEF ToolMissing, Awaits, AnswerKind, Known
<1>4. CASE ReadNonce(c) \/ NonceFails(c) \/ Attack(c)
    BY <1>1, <1>4 DEF ReadNonce, NonceFails, Attack
<1> QED
    BY <1>2, <1>3, <1>4, AskRiskServed, StaticCallServed, SubmitServed, WaitServed DEF Serve

-----------------------------------------------------------------------------
(***************************************************************************)
(* The inductive invariant of clients, API and mandate: besides what the   *)
(* API keeps, whatever a client has sent, or is told, is a typed intent.   *)
(***************************************************************************)
Posted == [intent : IntentType, signed : IntentType]

Stage == {"idle", "prepare", "preflight", "execute", "tamper", "threw", "returned",
          "demonstrated"}

ClientState ==
    [stage : Stage, on : Connection \cup {Nowhere}, request : IntentType \cup {NoIntent},
     prepared : IntentType \cup {NoIntent}, tries : Nat, result : AnswerKind]

Told(e) ==
    e.route # "none" /\ e.answer \in Known /\ (e.answer = "none" => e.at # 1) =>
        e.intent \in IntentType

ClientOK(s) ==
    /\ s \in ClientState
    /\ s.stage # "idle" => s.request \in IntentType
    /\ s.stage \in {"prepare", "preflight", "execute", "tamper", "returned"} =>
           s.on \in Connection
    /\ s.stage \in {"preflight", "execute", "tamper", "returned"} =>
           s.prepared \in IntentType

SlotsOK ==
    \A c \in Connection :
        /\ exchange[c].route \in SdkRoutes \cup {"none"}
        /\ Serving(c) => posted[c] \in Posted
        /\ Told(exchange[c])

SdkInv ==
    /\ ApiInv /\ MinedOnce
    /\ SlotsOK
    /\ posted \in [Connection -> Posted \cup {NoIntent}]
    /\ client \in [Client -> ClientState]
    /\ \A k \in Client : ClientOK(client[k])

LEMMA SdkInvInit == SdkInit => SdkInv
<1> SUFFICES ASSUME SdkInit
             PROVE  SdkInv
    OBVIOUS
<1>1. ApiInv
    BY ApiInvInit DEF SdkInit
<1>2. sent = <<>> /\ exchange = [c \in Connection |-> NoRequest]
    BY DEF SdkInit, Init, ApiInit
<1>3. MinedOnce
    BY <1>2 DEF MinedOnce
<1>4. SlotsOK
    BY <1>2 DEF SlotsOK, Serving, Told, NoRequest
<1>5. Idle \in ClientState /\ Idle.stage = "idle"
    BY DEF Idle, ClientState, Stage, AnswerKind
<1>6. ClientOK(Idle)
    BY <1>5 DEF ClientOK
<1> QED
    BY <1>1, <1>3, <1>4, <1>5, <1>6 DEF SdkInv, SdkInit

(***************************************************************************)
(* Handlers go on: no client is concerned, and nothing new is served.      *)
(***************************************************************************)
LEMMA ServedKeepsSlots ==
    ASSUME SdkInv, NEW c \in Connection, Served(c), exchange[c].at # 1,
           exchange[c].route # "none", UNCHANGED sdkVars
    PROVE  SlotsOK'
<1>1. PICK f : exchange' = [exchange EXCEPT ![c] = f] /\ Follows(f, exchange[c])
    BY DEF Served, ServedBy
<1>2. /\ exchange'[c] = f
      /\ \A d \in Connection \ {c} : exchange'[d] = exchange[d]
      /\ posted' = posted
    BY <1>1 DEF SdkInv, ApiInv, sdkVars
<1>3. /\ f.route \in SdkRoutes \cup {"none"}
      /\ posted[c] \in Posted
      /\ exchange[c].intent \in IntentType
    BY <1>1 DEF SdkInv, SlotsOK, Follows, Serving, Told, Known
<1>4. Told(f)
    BY <1>1, <1>3 DEF Follows, Told
<1> QED
    BY <1>2, <1>3, <1>4 DEF SdkInv, SlotsOK, Serving

(***************************************************************************)
(* app.ts, readJson: what is answered before the body is read is a failure.*)
(***************************************************************************)
LEMMA UnreadIsRefused ==
    ASSUME ApiInv, NEW c \in Connection, Serve(c) \/ WaitFails(c),
           exchange[c].route \in SdkRoutes, exchange[c].at = 1
    PROVE  exchange'[c].answer \in {"error", "BLOCK", "notFound"}
<1> DEFINE e == exchange[c]
<1>1. ASSUME NEW what, Awaits(c, what)
      PROVE  what = "body"
    BY <1>1, AtAwait, SdkHandlers
<1>2. BodyFails(c) \/ ToolMissing(c)
    BY <1>1 DEF Serve, ReadNonce, NonceFails, AskRisk, StaticCall, Attack,
                Submit, Wait, WaitFor, WaitFails
<1>3. Awaits(c, "body") /\ NoRequest \in Req
    BY <1>2, NoRequestIsReq DEF BodyFails, ToolMissing
<1>4. Pending(c).fails \in {"error", "BLOCK"}
    BY <1>3, RoleAtAwait DEF Settled
<1>5. PICK a \in {"error", "BLOCK", "notFound"} : exchange'[c] = Answered(e, a)
    BY <1>2, <1>4 DEF BodyFails, ToolMissing, Fails, Reply, Becomes, ApiInv
<1> QED
    BY <1>3, <1>5 DEF Answered, Req

LEMMA ServeKeepsSdk ==
    ASSUME SdkInv, NEW c \in Connection, Serve(c) \/ WaitFails(c), UNCHANGED sdkVars
    PROVE  SdkInv'
<1> DEFINE e == exchange[c]
<1>1. ApiInv /\ MinedOnce
    BY DEF SdkInv
<1>2. ApiInv'
    BY <1>1, ServeOK, WaitOK
<1>3. Serving(c)
    BY DEF Serve, BodyFails, ToolMissing, ReadNonce, NonceFails, AskRisk, StaticCall, Attack,
           Submit, Wait, WaitFor, WaitFails, Awaits
<1>4. e.route \in SdkRoutes /\ e.answer = "none" /\ e.route # "none"
    BY <1>3 DEF SdkInv, SlotsOK, Serving
<1>5. Served(c)
    BY <1>1, <1>4, ServeIsServed
<1>6. MinedOnce'
    BY <1>1, <1>5, HandlersKeepMined DEF Served, ServedBy, Sends
<1>7. SlotsOK'
    <2>1. CASE e.at # 1
        BY <1>4, <1>5, <2>1, ServedKeepsSlots
    <2>2. CASE e.at = 1
        <3>1. PICK f : exchange' = [exchange EXCEPT ![c] = f] /\ Follows(f, e)
            BY <1>5 DEF Served, ServedBy
        <3>2. /\ exchange'[c] = f
              /\ \A d \in Connection \ {c} : exchange'[d] = exchange[d]
              /\ posted' = posted
            BY <1>1, <3>1 DEF ApiInv, sdkVars
        <3>4. f.answer \in {"error", "BLOCK", "notFound"}
            BY <1>1, <1>4, <2>2, <3>2, UnreadIsRefused
        <3>5. Told(f) /\ f.route \in SdkRoutes
            BY <1>4, <3>1, <3>4 DEF Told, Known, Follows
        <3> QED
            BY <3>2, <3>4, <3>5 DEF SdkInv, SlotsOK, Serving
    <2> QED
        BY <2>1, <2>2
<1> QED
    BY <1>2, <1>6, <1>7 DEF SdkInv, sdkVars

LEMMA ReadBodyKeepsSdk ==
    ASSUME SdkInv, NEW c \in Connection, ReadBody(c, posted[c]), UNCHANGED sdkVars
    PROVE  SdkInv'
<1> DEFINE e == exchange[c]
           body == posted[c]
           f == [e EXCEPT !.intent = body.intent, !.signed = body.signed]
<1>1. ApiInv /\ MinedOnce /\ Serving(c) /\ e \in Req
    BY DEF SdkInv, ReadBody, Awaits, ApiInv
<1>2. body \in Posted
    BY <1>1 DEF SdkInv, SlotsOK
<1>3. body.intent \in IntentType /\ body.signed \in IntentType
    BY <1>2 DEF Posted
<1> HIDE DEF body
<1>4. ApiInv'
    BY <1>1, <1>3, ReadBodyOK DEF body
<1>5. f \in Req /\ f.route = e.route /\ f.answer = e.answer /\ f.intent = body.intent
    BY <1>1, <1>3 DEF Req
<1>6. Proceed(c, f) /\ UNCHANGED <<mandateVars, sent>>
    BY DEF ReadBody, body
<1> HIDE DEF f
<1>7. e.answer = "none" /\ e.route \in DOMAIN handlerOf
    BY <1>1 DEF Serving, Req
<1>8. Follows(Advanced(f), f)
    BY <1>5, <1>7, AdvancedFollows
<1>9. exchange' = [exchange EXCEPT ![c] = Advanced(f)] /\ posted' = posted
    BY <1>6 DEF Proceed, Becomes, Advanced, sdkVars
<1>10. Told(Advanced(f)) /\ Advanced(f).route = e.route
    BY <1>3, <1>5, <1>8 DEF Follows, Told
<1>11. SlotsOK'
    BY <1>1, <1>2, <1>9, <1>10 DEF SdkInv, ApiInv, SlotsOK, Serving, body
<1>12. MinedOnce'
    BY <1>1, <1>6, HandlersKeepMined
<1> QED
    BY <1>4, <1>11, <1>12 DEF SdkInv, sdkVars

(***************************************************************************)
(* post, of a request on a route of the SDK.                               *)
(***************************************************************************)
LEMMA PostKeepsSdk ==
    ASSUME SdkInv, NEW k \in Client, NEW c \in Connection, NEW route \in SdkRoutes,
           NEW stage \in {"prepare", "preflight", "execute", "tamper"},
           NEW intent \in IntentType, NEW signed \in IntentType, NEW tries \in Nat,
           Post(k, c, route, stage, intent, signed, tries),
           stage # "prepare" => client[k].request \in IntentType,
           stage \in {"execute", "tamper"} => client[k].prepared \in IntentType
    PROVE  SdkInv'
<1> DEFINE handler == handlerOf[route]
           e == [NoRequest EXCEPT !.route = route, !.at = 1]
           s == client[k]
           request == IF stage = "prepare" THEN intent ELSE s.request
           prepared == IF stage = "preflight" THEN intent ELSE s.prepared
           r == [s EXCEPT !.stage = stage, !.on = c, !.tries = tries,
                          !.request = request, !.prepared = prepared]
<1>1. ApiInv /\ MinedOnce /\ Open(c, route) /\ route \in DOMAIN handlerOf
    BY SdkHandlers DEF SdkInv, Post
<1>2. ApiInv' /\ UNCHANGED <<mandateVars, sent>>
    BY <1>1, OpenOK DEF Open
<1>3. MinedOnce'
    BY <1>1, <1>2, HandlersKeepMined
<1>4. PICK f : /\ exchange' = [exchange EXCEPT ![c] = f] /\ f.route = route
               /\ f.answer \in Known => f.answer = "none" /\ f.at = 1
    <2>1. handler.without \in {"error", "unavailable"}
        BY <1>1, OrderOfRoutes DEF OrderOfAwaits
    <2>2. NoRequest \in Req /\ NoRequest.answer = "none"
        BY NoRequestIsReq DEF NoRequest
    <2>3. e.route = route /\ e.at = 1 /\ e.answer = "none"
        BY <2>2 DEF Req
    <2>4. /\ Answered(e, handler.without).route = route
          /\ Answered(e, handler.without).answer = handler.without
        BY <2>2, <2>3 DEF Answered, Req
    <2>5. exchange' = [exchange EXCEPT ![c] = e]
          \/ exchange' = [exchange EXCEPT ![c] = Answered(e, handler.without)]
        BY <1>1 DEF Open, Becomes
    <2> HIDE DEF e
    <2> QED
        BY <2>1, <2>3, <2>4, <2>5 DEF Known
<1>5. /\ posted' = [posted EXCEPT ![c] = [intent |-> intent, signed |-> signed]]
      /\ [intent |-> intent, signed |-> signed] \in Posted
    BY DEF Post, Posted
<1>6. SlotsOK'
    BY <1>1, <1>4, <1>5 DEF SdkInv, ApiInv, SlotsOK, Serving, Told, Known
<1>7. s \in ClientState
    BY DEF SdkInv
<1>8. client' = [client EXCEPT ![k] = r]
    BY <1>7 DEF Post, ClientState, SdkInv
<1>9. request \in IntentType /\ prepared \in IntentType \cup {NoIntent}
      /\ (stage # "prepare" => prepared \in IntentType) /\ stage \in Stage
    BY <1>7 DEF ClientState, Stage
<1> HIDE DEF request, prepared, s
<1>10. /\ r \in ClientState /\ r.stage = stage /\ r.on = c /\ r.request = request
       /\ r.prepared = prepared
    BY <1>7, <1>9 DEF ClientState
<1> HIDE DEF r
<1>11. ClientOK(r)
    BY <1>9, <1>10 DEF ClientOK
<1> QED
    BY <1>2, <1>3, <1>5, <1>6, <1>8, <1>10, <1>11 DEF SdkInv

(***************************************************************************)
(* A client's own step: nothing but where it stands changes.               *)
(***************************************************************************)
LEMMA StandsKeepsSdk ==
    ASSUME SdkInv, NEW k \in Client, NEW r, ClientOK(r),
           client' = [client EXCEPT ![k] = r], UNCHANGED <<vars, posted>>
    PROVE  SdkInv'
<1>1. /\ ApiInv' /\ MinedOnce' /\ SlotsOK' /\ posted' = posted
    BY DEF SdkInv, vars, mandateVars, apiVars, ApiInv, Ledger, MinedOnce, SlotsOK, Serving
<1>2. r \in ClientState
    BY DEF ClientOK
<1> QED
    BY <1>1, <1>2 DEF SdkInv

LEMMA ThrowKeepsSdk ==
    ASSUME SdkInv, NEW k \in Client, Waits(k), Throw(k), UNCHANGED <<vars, posted>>
    PROVE  SdkInv'
<1> DEFINE s == client[k]
           r == [s EXCEPT !.stage = "threw", !.on = Nowhere]
<1>1. ClientOK(s)
    BY DEF SdkInv
<1>2. s.request \in IntentType
    BY <1>1 DEF ClientOK, Waits
<1>3. r \in ClientState /\ r.stage = "threw" /\ r.request = s.request
    BY <1>1 DEF ClientOK, ClientState, Stage
<1>4. ClientOK(r)
    BY <1>2, <1>3 DEF ClientOK
<1>5. client' = [client EXCEPT ![k] = r]
    BY DEF Throw
<1> HIDE DEF r
<1> QED
    BY <1>4, <1>5, StandsKeepsSdk

LEMMA EndKeepsSdk ==
    ASSUME SdkInv, NEW k \in Client, NEW stage \in {"returned", "demonstrated"},
           client[k].stage \in {"preflight", "execute", "tamper"},
           AnswerTo(k) \in {"ALLOW", "BLOCK"},
           client' = [client EXCEPT ![k].stage = stage, ![k].result = AnswerTo(k)],
           UNCHANGED <<vars, posted>>
    PROVE  SdkInv'
<1> DEFINE s == client[k]
           r == [s EXCEPT !.stage = stage, !.result = AnswerTo(k)]
<1>1. ClientOK(s)
    BY DEF SdkInv
<1>2. /\ s.request \in IntentType /\ s.on \in Connection /\ s.prepared \in IntentType
    BY <1>1 DEF ClientOK
<1>3. AnswerTo(k) \in AnswerKind
    BY DEF AnswerKind
<1> HIDE DEF AnswerTo
<1>4. /\ r \in ClientState /\ r.stage = stage /\ r.request = s.request /\ r.on = s.on
      /\ r.prepared = s.prepared
    BY <1>1, <1>3 DEF ClientOK, ClientState, Stage
<1>5. client' = [client EXCEPT ![k] = r]
    OBVIOUS
<1> HIDE DEF r
<1>6. ClientOK(r)
    BY <1>2, <1>4 DEF ClientOK
<1> QED
    BY <1>5, <1>6, StandsKeepsSdk

LEMMA ReactKeepsSdk ==
    ASSUME SdkInv, NEW k \in Client, React(k)
    PROVE  SdkInv'
<1>1. ClientOK(client[k]) /\ client[k].tries \in Nat
    BY DEF SdkInv, ClientOK, ClientState
<1>2. CASE Preflight(k)
    <2> DEFINE c == client[k].on
               prepared == exchange[c].intent
    <2>1. client[k].stage = "prepare" /\ exchange[c].answer = "ok"
        BY <1>2 DEF Preflight, HasAnswer, AnswerTo
    <2>2. c \in Connection /\ client[k].request \in IntentType
        BY <1>1, <2>1 DEF ClientOK
    <2>3. exchange[c].route # "none"
        BY <2>1, <2>2 DEF SdkInv, ApiInv, SlotOK, NoRequest
    <2>4. prepared \in IntentType
        BY <2>1, <2>2, <2>3 DEF SdkInv, SlotsOK, Told, Known
    <2>5. Post(k, c, "preflight", "preflight", prepared, prepared, client[k].tries)
        BY <1>2 DEF Preflight
    <2> HIDE DEF c, prepared
    <2> QED
        BY <1>1, <2>2, <2>4, <2>5, PostKeepsSdk DEF SdkRoutes
<1>3. CASE Execute(k)
    <2> DEFINE c == client[k].on
               prepared == client[k].prepared
    <2>1. client[k].stage = "preflight"
        BY <1>3 DEF Execute, HasAnswer
    <2>2. c \in Connection /\ client[k].request \in IntentType /\ prepared \in IntentType
        BY <1>1, <2>1 DEF ClientOK
    <2>3. Post(k, c, "execute", "execute", prepared, prepared, client[k].tries)
        BY <1>3 DEF Execute
    <2> HIDE DEF c
    <2> QED
        BY <1>1, <2>2, <2>3, PostKeepsSdk DEF SdkRoutes
<1>4. CASE Return(k)
    BY <1>4, EndKeepsSdk DEF Return, HasAnswer
<1>5. CASE Refused(k)
    BY <1>5, ThrowKeepsSdk DEF Refused
<1>6. CASE Tamper(k)
    <2> DEFINE c == client[k].on
               prepared == client[k].prepared
               other == [prepared EXCEPT !.call = TamperedCall]
    <2>1. client[k].stage = "returned"
        BY <1>6 DEF Tamper
    <2>2. c \in Connection /\ client[k].request \in IntentType /\ prepared \in IntentType
        BY <1>1, <2>1 DEF ClientOK
    <2>3. other \in IntentType
        BY <2>2 DEF IntentType
    <2>4. Post(k, c, "preflight", "tamper", other, prepared, client[k].tries)
        BY <1>6 DEF Tamper
    <2> HIDE DEF c, other
    <2> QED
        BY <1>1, <2>2, <2>3, <2>4, PostKeepsSdk DEF SdkRoutes
<1>7. CASE TamperAnswered(k)
    BY <1>7, EndKeepsSdk DEF TamperAnswered, HasAnswer
<1> QED
    BY <1>2, <1>3, <1>4, <1>5, <1>6, <1>7 DEF React

LEMMA StartKeepsSdk ==
    ASSUME SdkInv, NEW k \in Client, NEW c \in Connection, Start(k, c) \/ Retry(k, c)
    PROVE  SdkInv'
<1>1. ClientOK(client[k]) /\ client[k].tries \in Nat
    BY DEF SdkInv, ClientOK, ClientState
<1>2. CASE Start(k, c)
    <2> DEFINE request == DemoIntent(CallOf[k], nextNonce(DemoAgent))
    <2>1. nextNonce(DemoAgent) \in Nonce
        BY ApiAssumption DEF nextNonce, SdkInv, ApiInv, Ledger
    <2>2. CallOf[k] \in Permitted
        BY ClientAssumption
    <2>3. request \in IntentType
        BY <2>1, <2>2, ApiAssumption DEF DemoIntent, IntentType
    <2>4. Post(k, c, "prepare", "prepare", request, request, 1)
        BY <1>2 DEF Start
    <2> HIDE DEF request
    <2> QED
        BY <2>3, <2>4, PostKeepsSdk DEF SdkRoutes
<1>3. CASE Retry(k, c)
    <2>1. client[k].request \in IntentType /\ client[k].tries + 1 \in Nat
        BY <1>1, <1>3 DEF ClientOK, Retry
    <2>2. Post(k, c, "prepare", "prepare", client[k].request, client[k].request,
               client[k].tries + 1)
        BY <1>3 DEF Retry
    <2> QED
        BY <2>1, <2>2, PostKeepsSdk DEF SdkRoutes
<1> QED
    BY <1>2, <1>3

LEMMA SdkInvStep == SdkInv /\ [SdkNext]_allVars => SdkInv'
<1> SUFFICES ASSUME SdkInv, [SdkNext]_allVars
             PROVE  SdkInv'
    OBVIOUS
<1>1. ASSUME NEW k \in Client, NEW c \in Connection, Start(k, c) \/ Retry(k, c)
      PROVE  SdkInv'
    BY <1>1, StartKeepsSdk
<1>2. ASSUME NEW k \in Client, React(k)
      PROVE  SdkInv'
    BY <1>2, ReactKeepsSdk
<1>3. ASSUME NEW k \in Client, GiveUp(k)
      PROVE  SdkInv'
    BY <1>3, ThrowKeepsSdk DEF GiveUp
<1>4. ASSUME NEW c \in Connection, ServeClient(c)
      PROVE  SdkInv'
    BY <1>4, ServeKeepsSdk, ReadBodyKeepsSdk DEF ServeClient
<1>5. ASSUME NEW c \in Connection, WaitFails(c), UNCHANGED sdkVars
      PROVE  SdkInv'
    BY <1>5, ServeKeepsSdk
<1>6. ASSUME exchange' = exchange, UNCHANGED sdkVars, ApiInv', MinedOnce'
      PROVE  SdkInv'
    BY <1>6 DEF SdkInv, SlotsOK, Serving, sdkVars
<1>7. ASSUME NEW k \in 1..MaxSent, MineSent(k)
      PROVE  SdkInv'
    <2>1. k \in DOMAIN sent /\ Mine(k) /\ UNCHANGED sdkVars /\ exchange' = exchange
        BY <1>7 DEF MineSent, Mine
    <2> QED
        BY <1>6, <2>1, MineOK, MineKeepsMined DEF SdkInv
<1>8. ASSUME Elsewhere, UNCHANGED sdkVars
      PROVE  SdkInv'
    <2>1. exchange' = exchange
        BY <1>8 DEF Elsewhere, apiVars
    <2> QED
        BY <1>6, <1>8, <2>1, ElsewhereOK, ElsewhereKeepsMined DEF SdkInv
<1>9. ASSUME Crash, UNCHANGED sdkVars
      PROVE  SdkInv'
    <2>1. ApiInv' /\ MinedOnce'
        BY <1>9, CrashOK, HandlersKeepMined DEF SdkInv, Crash
    <2>2. exchange' = [c \in Connection |-> NoRequest]
        BY <1>9 DEF Crash
    <2>3. SlotsOK'
        BY <2>2 DEF SlotsOK, Serving, Told, NoRequest
    <2> QED
        BY <1>9, <2>1, <2>3 DEF SdkInv, sdkVars
<1>10. CASE UNCHANGED allVars
    BY <1>10 DEF allVars, vars, mandateVars, apiVars, sdkVars, SdkInv, ApiInv, Ledger,
                 MinedOnce, SlotsOK, Serving
<1> QED
    BY <1>1, <1>2, <1>3, <1>4, <1>5, <1>7, <1>8, <1>9, <1>10 DEF SdkNext

-----------------------------------------------------------------------------
(***************************************************************************)
(* The links between a client, the request it waits for, and what was sent *)
(* for it.                                                                 *)
(***************************************************************************)
RouteOf(stage) == IF stage = "tamper" THEN "preflight" ELSE stage

\* The intent in the body that the client waits for, signed as it was asked for.
Asked(s) == IF s.stage = "tamper" THEN [s.request EXCEPT !.call = TamperedCall] ELSE s.request

\* A handler serves, and reports, what was in the body.
BodyOK(e, body) ==
    /\ e.route # "none" /\ e.answer = "none" /\ e.at # 1 =>
           e.intent = body.intent /\ e.signed = body.signed
    /\ e.answer \in {"ok", "ALLOW"} => e.intent = body.intent

BodiesOK == \A c \in Connection : BodyOK(exchange[c], posted[c])

\* Each client has its connection for itself.
Apart ==
    \A k, l \in Client : k # l /\ client[k].on # Nowhere => client[k].on # client[l].on

StateOK(s) ==
    /\ s.stage = "idle" => s.on = Nowhere
    /\ s.stage # "idle" => s.tries # 0 /\ s.request.call \in Permitted
    /\ s.stage \in {"preflight", "execute", "tamper", "returned"} => s.prepared = s.request
    /\ s.stage = "demonstrated" => s.result = "BLOCK"

WaitingOK(k) ==
    Waits(k) =>
        /\ exchange[client[k].on].route \in {RouteOf(client[k].stage), "none"}
        /\ posted[client[k].on] = [intent |-> Asked(client[k]), signed |-> client[k].request]
        /\ client[k].stage = "tamper" => exchange[client[k].on].answer # "ALLOW"

PaidFor(k) ==
    client[k].stage \in {"returned", "tamper"} /\ client[k].result = "ALLOW" =>
        \E t \in For(k) : sent[t].outcome = "mined"

Asker(intent) == \E k \in Client : client[k].stage # "idle" /\ client[k].request = intent

\* Nothing is on its way, or sent, that no client asked for.
Origins ==
    /\ \A c \in Connection : Serving(c) =>
           Asker(posted[c].intent) \/ posted[c].intent.call = TamperedCall
    /\ \A t \in DOMAIN sent : Asker(sent[t].intent)

\* What was asked for once, by one client, is served on its connection only, and
\* sent from there only.
OnceOK(k) ==
    Unshared(k) /\ client[k].tries = 1 =>
        /\ client[k].stage \in {"prepare", "preflight", "execute"} =>
               \A c \in Connection :
                   Serving(c) /\ posted[c].intent = client[k].request => c = client[k].on
        /\ client[k].stage \in {"prepare", "preflight"} => For(k) = {}
        /\ client[k].stage = "execute" /\ exchange[client[k].on].route = "execute" =>
               For(k) \subseteq {exchange[client[k].on].tx}
        /\ client[k].stage = "returned" /\ client[k].result = "BLOCK" =>
               /\ For(k) = {}
               /\ \A c \in Connection :
                      Serving(c) => posted[c].intent # client[k].request

ClientsOK == \A k \in Client : StateOK(client[k]) /\ WaitingOK(k) /\ PaidFor(k) /\ OnceOK(k)

LinkInv == BodiesOK /\ Apart /\ Origins /\ ClientsOK

-----------------------------------------------------------------------------
(***************************************************************************)
(* What comes of a transaction: what was sent stays sent, what was mined   *)
(* stays mined.                                                            *)
(***************************************************************************)
LEMMA SentStays ==
    ASSUME UNCHANGED client, DOMAIN sent' = DOMAIN sent,
           \A t \in DOMAIN sent :
               /\ sent'[t].intent = sent[t].intent
               /\ sent[t].outcome = "mined" => sent'[t].outcome = "mined",
           NEW k \in Client
    PROVE  For(k)' = For(k) /\ (PaidFor(k) => PaidFor(k)')
BY DEF For, PaidFor

(***************************************************************************)
(* preflight.ts: the last await is the static call, and an intent that is  *)
(* not the signed one does not pass it.                                    *)
(***************************************************************************)
LEMMA PreflightHandler ==
    /\ Len(handlerOf["preflight"].awaits) = 3
    /\ \A n \in 1..3 : handlerOf["preflight"].awaits[n].for = "risk" => n = 2
<1>1. handlerOf["preflight"] = preflight
    BY DEF handlerOf
<1> QED
    BY <1>1 DEF preflight, Handler, Await

LEMMA PreflightRefuses ==
    ASSUME ApiInv, NEW c \in Connection, Serve(c) \/ WaitFails(c),
           exchange[c].route = "preflight", exchange[c].signed # exchange[c].intent
    PROVE  exchange'[c].answer # "ALLOW"
<1> DEFINE e == exchange[c]
<1>1. /\ e \in Req /\ NoRequest \in Req /\ exchange \in [Connection -> Req]
    BY NoRequestIsReq DEF ApiInv
<1>2. ASSUME NEW a \in AnswerKind \ {"ALLOW"}, Reply(c, a)
      PROVE  exchange'[c].answer # "ALLOW"
    <2>1. exchange'[c] = Answered(e, a)
        BY <1>1, <1>2 DEF Reply, Becomes
    <2>2. Answered(e, a).answer = a
        BY <1>1 DEF Answered, Req
    <2> QED
        BY <2>1, <2>2
<1>3. ASSUME NEW what \in Settled, Awaits(c, what), Fails(c)
      PROVE  exchange'[c].answer # "ALLOW"
    <2>1. Pending(c).fails \in {"error", "BLOCK"}
        BY <1>3, RoleAtAwait
    <2> QED
        BY <1>2, <1>3, <2>1 DEF Fails, AnswerKind
<1>4. ASSUME NEW what \in {"nonce", "attack", "submit", "wait"}, Awaits(c, what)
      PROVE  FALSE
    <2>1. what \notin {"nonce", "attack"}
        BY <1>4, AtAwait, SdkHandlers DEF SdkRoutes
    <2>2. what \notin {"submit", "wait"}
        BY <1>4, RoleAtAwait DEF Senders
    <2> QED
        BY <1>4, <2>1, <2>2
<1>5. CASE AskRisk(c)
    <2> DEFINE asked == IF "risk" \in Service THEN [Provider -> Answer] ELSE {<<>>}
               shown(answers) == IF handlerOf[e.route].gate THEN answers ELSE e.answers
               f(answers) == [e EXCEPT !.answers = shown(answers)]
    <2>1. PICK answers \in asked :
              LET verdict == IF "risk" \notin Service /\ e.route \in RiskIsOptional
                             THEN "CLEAR" ELSE assessRisk(answers, FALSE).status
              IN  CASE Stops(handlerOf[e.route], verdict) -> Reply(c, "BLOCK")
                    [] e.route = "agentDemo" ->
                           Reply(c, IF verdict = "CLEAR" THEN "READY" ELSE "BLOCK")
                    [] OTHER -> Proceed(c, f(answers))
        BY <1>5 DEF AskRisk
    <2>2. Reply(c, "BLOCK") \/ Reply(c, "READY") \/ Proceed(c, f(answers))
        BY <2>1
    <2>3. e.at = 2 /\ e.answer = "none"
        <3>1. Awaits(c, "risk")
            BY <1>5 DEF AskRisk
        <3>2. /\ e.answer = "none" /\ e.at \in 1..3
              /\ handlerOf["preflight"].awaits[e.at].for = "risk"
            BY <3>1, AtAwait, PreflightHandler
        <3> QED
            BY <3>2, PreflightHandler
    <2>4. CASE Proceed(c, f(answers))
        <3> DEFINE g == f(answers)
        <3>1. g.at = 2 /\ g.answer = "none" /\ g.route = "preflight"
            BY <1>1, <2>3 DEF Req
        <3>2. exchange'[c] = Advanced(g)
            BY <1>1, <2>4 DEF Proceed, Becomes, Advanced
        <3> HIDE DEF g
        <3>3. Advanced(g) = [g EXCEPT !.at = @ + 1]
            BY <3>1, PreflightHandler DEF Advanced
        <3>4. [g EXCEPT !.at = @ + 1].answer = g.answer
            BY <1>1, <2>3, <3>1 DEF g, Req
        <3> QED
            BY <3>1, <3>2, <3>3, <3>4
    <2> QED
        BY <1>2, <2>2, <2>4 DEF AnswerKind
<1>6. CASE StaticCall(c)
    <2>1. Awaits(c, "staticCall") /\ Fails(c)
        BY <1>6 DEF StaticCall, Acceptable
    <2> QED
        BY <1>3, <2>1 DEF Settled
<1>7. CASE BodyFails(c)
    BY <1>3, <1>7 DEF BodyFails, Settled
<1>8. CASE ToolMissing(c)
    BY <1>2, <1>8 DEF ToolMissing, AnswerKind
<1> QED
    BY <1>4, <1>5, <1>6, <1>7, <1>8
       DEF Serve, ReadNonce, NonceFails, Attack, Submit, Wait, WaitFor, WaitFails

(***************************************************************************)
(* A request goes on while no client moves.                                *)
(***************************************************************************)
\* e is followed by f, and what was sent is what the body asked for.
GoesOn(c, f) ==
    /\ Serving(c)
    /\ exchange' = [exchange EXCEPT ![c] = f]
    /\ f.route = exchange[c].route
    /\ BodyOK(f, posted[c])
    /\ \A k \in Client : client[k].stage = "tamper" /\ client[k].on = c => f.answer # "ALLOW"
    /\ \/ sent' = sent /\ f.tx = exchange[c].tx
       \/ /\ \E t : /\ t.outcome = "pending" /\ t.intent = posted[c].intent
                    /\ sent' = Append(sent, t)
          /\ posted[c].intent.call \in Permitted
          /\ f.tx = Len(sent) + 1
          /\ exchange[c].route = "execute" /\ exchange[c].tx = 0

LEMMA GoesOnKeepsLinks ==
    ASSUME SdkInv, LinkInv, NEW c \in Connection, NEW f, GoesOn(c, f), UNCHANGED sdkVars
    PROVE  LinkInv'
<1>1. /\ client' = client /\ posted' = posted
      /\ exchange'[c] = f /\ exchange[c].answer = "none" /\ exchange[c].route # "none"
      /\ \A d \in Connection : d # c => exchange'[d] = exchange[d]
      /\ sent \in Seq(Transaction)
    BY DEF GoesOn, sdkVars, SdkInv, ApiInv, Serving
<1>2. ASSUME NEW d \in Connection, Serving(d)' PROVE Serving(d)
    BY <1>1, <1>2 DEF Serving
<1>3. BodiesOK'
    BY <1>1 DEF LinkInv, BodiesOK, GoesOn
<1>4. Apart'
    BY <1>1 DEF LinkInv, Apart
<1>5. /\ \A intent : Asker(intent)' <=> Asker(intent)
      /\ \A k \in Client : Unshared(k)' <=> Unshared(k)
    BY <1>1 DEF Asker, Unshared
<1>6. \/ sent' = sent
      \/ \E t : /\ t.outcome = "pending" /\ t.intent = posted[c].intent
                /\ sent' = Append(sent, t)
    BY DEF GoesOn
<1>7. /\ DOMAIN sent \subseteq DOMAIN sent'
      /\ \A t \in DOMAIN sent : sent'[t] = sent[t]
      /\ \A t \in DOMAIN sent' \ DOMAIN sent :
             t = Len(sent) + 1 /\ sent' # sent /\ sent'[t].intent = posted[c].intent
    BY <1>1, <1>6
<1>8. Origins'
    <2>1. ASSUME NEW d \in Connection, Serving(d)'
          PROVE  Asker(posted[d].intent) \/ posted[d].intent.call = TamperedCall
        BY <1>2, <2>1 DEF LinkInv, Origins
    <2>2. ASSUME NEW t \in DOMAIN sent' PROVE Asker(sent'[t].intent)
        <3>1. CASE t \in DOMAIN sent
            BY <1>7, <3>1 DEF LinkInv, Origins
        <3>2. CASE t \notin DOMAIN sent
            BY <1>7, <2>2, <3>2, ApiAssumption DEF LinkInv, Origins, GoesOn
        <3> QED
            BY <3>1, <3>2
    <2> QED
        BY <1>1, <1>5, <2>1, <2>2 DEF Origins
<1>9. ASSUME NEW k \in Client PROVE StateOK(client[k])' /\ PaidFor(k)'
    BY <1>1, <1>7 DEF LinkInv, ClientsOK, PaidFor, For, StateOK
<1>10. ASSUME NEW k \in Client PROVE WaitingOK(k)'
    BY <1>1 DEF LinkInv, ClientsOK, WaitingOK, GoesOn, Waits, SdkInv, ClientOK
<1>11. ASSUME NEW k \in Client PROVE OnceOK(k)'
    <2> DEFINE s == client[k]
    <2> SUFFICES ASSUME Unshared(k), s.tries = 1,
                        s.stage \in {"prepare", "preflight", "execute"}
                        \/ (s.stage = "returned" /\ s.result = "BLOCK")
                 PROVE  OnceOK(k)'
        BY <1>1, <1>5 DEF OnceOK
    <2>1. OnceOK(k) /\ WaitingOK(k) /\ ClientOK(s)
        BY DEF LinkInv, ClientsOK, SdkInv
    <2>2. CASE sent' # sent /\ posted[c].intent = s.request
        <3>1. c = s.on /\ s.stage \in {"prepare", "preflight", "execute"}
            BY <2>1, <2>2 DEF OnceOK, GoesOn
        <3>2. exchange[c].route = "execute" /\ exchange[c].tx = 0 /\ f.tx = Len(sent) + 1
            BY <2>2 DEF GoesOn
        <3>3. s.stage = "execute"
            BY <1>1, <2>1, <3>1, <3>2 DEF WaitingOK, Waits, RouteOf
        <3>4. For(k) \subseteq {0}
            BY <2>1, <3>1, <3>2, <3>3 DEF OnceOK
        <3>5. For(k)' \subseteq {0, f.tx} /\ For(k)' \subseteq DOMAIN sent'
            BY <1>1, <1>7, <3>2, <3>4 DEF For
        <3>6. 0 \notin DOMAIN sent'
            BY <1>1, <1>6
        <3>7. For(k)' \subseteq {exchange'[s.on].tx}
            BY <1>1, <3>1, <3>5, <3>6
        <3> QED
            BY <1>1, <1>2, <2>1, <3>3, <3>7 DEF OnceOK
    <2>3. CASE ~(sent' # sent /\ posted[c].intent = s.request)
        <3>1. For(k)' = For(k)
            BY <1>1, <1>7, <2>3 DEF For
        <3>2. ASSUME s.stage = "execute", exchange'[s.on].route = "execute"
              PROVE  For(k)' \subseteq {exchange'[s.on].tx}
            <4>1. exchange[s.on].route = "execute" /\ s.on \in Connection
                BY <1>1, <2>1, <3>2 DEF GoesOn, ClientOK
            <4>2. For(k) \subseteq {exchange[s.on].tx}
                BY <2>1, <3>2, <4>1 DEF OnceOK
            <4>3. CASE s.on # c
                BY <1>1, <3>1, <4>1, <4>2, <4>3
            <4>4. CASE s.on = c /\ sent' = sent
                <5>1. f.tx = exchange[c].tx
                    <6>1. \A t : sent' # Append(sent, t)
                        BY <1>1, <4>4
                    <6> QED
                        BY <6>1 DEF GoesOn
                <5> QED
                    BY <1>1, <3>1, <4>2, <4>4, <5>1
            <4>5. CASE s.on = c /\ sent' # sent
                BY <1>1, <2>1, <2>3, <3>2, <4>5 DEF WaitingOK, Waits, Asked
            <4> QED
                BY <4>3, <4>4, <4>5
        <3> QED
            BY <1>1, <1>2, <2>1, <3>1, <3>2 DEF OnceOK
    <2> QED
        BY <2>2, <2>3
<1> QED
    BY <1>3, <1>4, <1>8, <1>9, <1>10, <1>11 DEF LinkInv, ClientsOK

LEMMA ServeKeepsLinks ==
    ASSUME SdkInv, LinkInv, NEW c \in Connection, Serve(c) \/ WaitFails(c), UNCHANGED sdkVars
    PROVE  LinkInv'
<1> DEFINE e == exchange[c]
<1>1. ApiInv /\ Serving(c) /\ e.answer = "none" /\ e.route # "none"
    BY DEF SdkInv, Serving, Serve, BodyFails, ToolMissing, ReadNonce, NonceFails, AskRisk,
           StaticCall, Attack, Submit, Wait, WaitFor, WaitFails, Awaits
<1>2. e.route \in SdkRoutes
    BY <1>1 DEF SdkInv, SlotsOK
<1>3. PICK f : ServedBy(c, f)
    BY <1>1, <1>2, ServeIsServed DEF Served
<1>4. /\ f = exchange'[c] /\ Follows(f, e) /\ f.route = e.route
      /\ exchange' = [exchange EXCEPT ![c] = f]
      /\ BodyOK(e, posted[c])
    BY <1>1, <1>3 DEF ServedBy, ApiInv, Follows, LinkInv, BodiesOK
<1>5. BodyOK(f, posted[c])
    <2>1. CASE e.at # 1
        BY <1>1, <1>4, <2>1 DEF BodyOK, Follows, Known
    <2>2. CASE e.at = 1
        <3>1. f.answer \notin {"none", "ok", "ALLOW"}
            BY <1>1, <1>2, <1>4, <2>2, UnreadIsRefused
        <3> QED
            BY <3>1 DEF BodyOK
    <2> QED
        BY <2>1, <2>2
<1>6. ASSUME NEW k \in Client, client[k].stage = "tamper", client[k].on = c
      PROVE  f.answer # "ALLOW"
    <2>1. /\ WaitingOK(k) /\ StateOK(client[k]) /\ ClientOK(client[k])
          /\ client[k].request.call \in Permitted
        BY <1>6 DEF LinkInv, ClientsOK, StateOK, SdkInv
    <2>2. /\ e.route = "preflight"
          /\ posted[c].intent = [client[k].request EXCEPT !.call = TamperedCall]
          /\ posted[c].signed = client[k].request
        BY <1>1, <1>6, <2>1 DEF WaitingOK, Waits, RouteOf, Asked
    <2>3. client[k].request \in IntentType
        BY <1>6, <2>1 DEF ClientOK
    <2>4. posted[c].intent.call = TamperedCall
        BY <2>2, <2>3 DEF IntentType
    <2>5. posted[c].intent # posted[c].signed
        BY <2>1, <2>2, <2>4, ApiAssumption
    <2>6. CASE e.at # 1
        <3>1. e.signed # e.intent
            BY <1>1, <1>4, <2>5, <2>6 DEF BodyOK
        <3> QED
            BY <1>1, <1>4, <2>2, <3>1, PreflightRefuses
    <2>7. CASE e.at = 1
        BY <1>1, <1>2, <1>4, <2>7, UnreadIsRefused
    <2> QED
        BY <2>6, <2>7
<1>7. CASE sent' = sent /\ f.tx = e.tx
    BY <1>1, <1>4, <1>5, <1>6, <1>7, GoesOnKeepsLinks DEF GoesOn
<1>8. CASE /\ \E t : Sends(t, e) /\ sent' = Append(sent, t)
           /\ f.tx = Len(sent) + 1
    <2>1. PICK t : Sends(t, e) /\ sent' = Append(sent, t)
        BY <1>8
    <2>2. /\ t.outcome = "pending" /\ t.intent = e.intent
          /\ e.route = "execute" /\ e.at = 4
        BY <1>2, <2>1 DEF Sends, SdkRoutes, Senders
    <2>3. SlotOK(e, sent) /\ Live(e)
        BY <1>1 DEF ApiInv, Live
    <2>4. e.tx = 0 /\ Checked(e)
        BY <2>2, <2>3 DEF SlotOK, Progress, Senders
    <2>5. posted[c].intent = e.intent /\ e.intent.call \in Permitted
        BY <1>1, <1>4, <2>2, <2>4 DEF BodyOK, Checked
    <2> QED
        BY <1>1, <1>4, <1>5, <1>6, <1>8, <2>1, <2>2, <2>4, <2>5, GoesOnKeepsLinks DEF GoesOn
<1> QED
    BY <1>3, <1>7, <1>8 DEF ServedBy

LEMMA ReadBodyKeepsLinks ==
    ASSUME SdkInv, LinkInv, NEW c \in Connection, ReadBody(c, posted[c]), UNCHANGED sdkVars
    PROVE  LinkInv'
<1> DEFINE e == exchange[c]
           body == posted[c]
           f == [e EXCEPT !.intent = body.intent, !.signed = body.signed]
<1>1. ApiInv /\ Serving(c) /\ e \in Req /\ Awaits(c, "body")
    BY DEF SdkInv, ReadBody, Awaits, ApiInv
<1>2. body \in Posted /\ e.route \in SdkRoutes
    BY <1>1 DEF SdkInv, SlotsOK, Serving
<1>3. body.intent \in IntentType /\ body.signed \in IntentType
    BY <1>2 DEF Posted
<1>4. e.at = 1 /\ e.route \in DOMAIN handlerOf /\ e.answer = "none"
    BY <1>1, AtAwait, RoleAtAwait
<1> HIDE DEF body
<1>5. /\ f \in Req /\ f.route = e.route /\ f.answer = "none" /\ f.intent = body.intent
      /\ f.signed = body.signed /\ f.tx = e.tx
    BY <1>1, <1>3, <1>4 DEF Req
<1>6. Proceed(c, f) /\ UNCHANGED <<mandateVars, sent>>
    BY DEF ReadBody, body
<1> HIDE DEF f
<1>7. Follows(Advanced(f), f) /\ Advanced(f).tx = f.tx
    BY <1>4, <1>5, AdvancedFollows
<1>8. exchange' = [exchange EXCEPT ![c] = Advanced(f)]
    BY <1>6 DEF Proceed, Becomes, Advanced
<1>9. BodyOK(Advanced(f), posted[c])
    BY <1>5, <1>7 DEF BodyOK, Follows, Known, body
<1>10. Advanced(f).answer # "ALLOW"
    <2>1. Len(handlerOf[e.route].awaits) > 1
        <3>1. CASE e.route = "prepare"
            <4>1. handlerOf["prepare"] = prepare
                BY DEF handlerOf
            <4> HIDE DEF e
            <4> QED
                BY <3>1, <4>1 DEF prepare, Handler, Await
        <3>2. CASE e.route = "preflight"
            <4>1. Len(handlerOf["preflight"].awaits) = 3
                BY PreflightHandler
            <4> HIDE DEF e
            <4> QED
                BY <3>2, <4>1
        <3>3. CASE e.route = "execute"
            <4>1. Len(handlerOf["execute"].awaits) = 5
                BY <1>4, <3>3, OrderOfRoutes DEF OrderOfAwaits
            <4> HIDE DEF e
            <4> QED
                BY <3>3, <4>1
        <3> QED
            BY <1>2, <3>1, <3>2, <3>3 DEF SdkRoutes
    <2>4. f.at = e.at
        BY <1>1 DEF f, Req
    <2>5. Advanced(f) = [f EXCEPT !.at = @ + 1]
        BY <1>4, <1>5, <2>1, <2>4 DEF Advanced
    <2>6. [f EXCEPT !.at = @ + 1].answer = f.answer
        BY <1>5 DEF Req
    <2> QED
        BY <1>5, <2>5, <2>6
<1> QED
    BY <1>1, <1>5, <1>6, <1>7, <1>8, <1>9, <1>10, GoesOnKeepsLinks DEF GoesOn, Follows

(***************************************************************************)
(* The chain, the rest of the world and a crash of the server move no      *)
(* client, and bring nothing onto a connection.                            *)
(***************************************************************************)
LEMMA WorldKeepsLinks ==
    ASSUME SdkInv, LinkInv, UNCHANGED sdkVars,
           exchange' = exchange \/ exchange' = [c \in Connection |-> NoRequest],
           DOMAIN sent' = DOMAIN sent,
           \A t \in DOMAIN sent :
               /\ sent'[t].intent = sent[t].intent
               /\ sent[t].outcome = "mined" => sent'[t].outcome = "mined"
    PROVE  LinkInv'
<1>1. client' = client /\ posted' = posted
    BY DEF sdkVars
<1>2. NoRequest.route = "none" /\ NoRequest.answer = "none"
    BY DEF NoRequest
<1>3. ASSUME NEW c \in Connection
      PROVE  exchange'[c] = exchange[c] \/ exchange'[c] = NoRequest
    OBVIOUS
<1>4. ASSUME NEW c \in Connection, Serving(c)' PROVE Serving(c)
    BY <1>2, <1>3, <1>4 DEF Serving
<1>5. BodiesOK'
    BY <1>1, <1>2, <1>3 DEF LinkInv, BodiesOK, BodyOK
<1>6. Apart' /\ Origins'
    <2>1. \A intent : Asker(intent)' <=> Asker(intent)
        BY <1>1 DEF Asker
    <2>2. Apart'
        BY <1>1 DEF LinkInv, Apart
    <2>3. ASSUME NEW c \in Connection, Serving(c)'
          PROVE  Asker(posted[c].intent) \/ posted[c].intent.call = TamperedCall
        BY <1>4, <2>3 DEF LinkInv, Origins
    <2>4. \A t \in DOMAIN sent' : Asker(sent'[t].intent)
        BY DEF LinkInv, Origins
    <2> QED
        BY <1>1, <2>1, <2>2, <2>3, <2>4 DEF Origins
<1>7. ASSUME NEW k \in Client
      PROVE  StateOK(client[k])' /\ WaitingOK(k)' /\ PaidFor(k)' /\ OnceOK(k)'
    <2>1. /\ StateOK(client[k]) /\ WaitingOK(k) /\ PaidFor(k) /\ OnceOK(k)
          /\ ClientOK(client[k])
        BY DEF LinkInv, ClientsOK, SdkInv
    <2>2. For(k)' = For(k) /\ PaidFor(k)'
        BY <1>1, <2>1, SentStays
    <2>3. Waits(k) => client[k].on \in Connection
        BY <2>1 DEF Waits, ClientOK
    <2>4. StateOK(client[k])'
        BY <1>1, <2>1 DEF StateOK
    <2>5. WaitingOK(k)'
        BY <1>1, <1>2, <1>3, <2>1, <2>3 DEF WaitingOK, Waits
    <2>6. Unshared(k)' <=> Unshared(k)
        BY <1>1 DEF Unshared
    <2>7. OnceOK(k)'
        BY <1>1, <1>2, <1>3, <1>4, <2>1, <2>2, <2>3, <2>6 DEF OnceOK, Waits
    <2> QED
        BY <2>2, <2>4, <2>5, <2>7
<1> QED
    BY <1>5, <1>6, <1>7 DEF LinkInv, ClientsOK

LEMMA MineKeepsLinks ==
    ASSUME SdkInv, LinkInv, NEW n \in DOMAIN sent, Mine(n), UNCHANGED sdkVars
    PROVE  LinkInv'
<1> DEFINE t == sent[n]
<1>1. sent \in Seq(Transaction) /\ t \in Transaction /\ t.outcome = "pending"
    BY DEF Mine, SdkInv, ApiInv
<1>2. exchange' = exchange
    BY DEF Mine
<1>3. PICK u : sent' = [sent EXCEPT ![n] = u] /\ u.intent = t.intent
    <2>1. CASE sent' = [sent EXCEPT ![n].outcome = "mined", ![n].payment = Len(payments) + 1]
        <3> DEFINE v == [t EXCEPT !.outcome = "mined", !.payment = Len(payments) + 1]
        <3>1. sent' = [sent EXCEPT ![n] = v]
            BY <1>1, <2>1
        <3>2. v.intent = t.intent
            BY <1>1 DEF Transaction
        <3> HIDE DEF v
        <3> QED
            BY <3>1, <3>2
    <2>2. ASSUME NEW outcome, sent' = [sent EXCEPT ![n].outcome = outcome]
          PROVE  \E u : sent' = [sent EXCEPT ![n] = u] /\ u.intent = t.intent
        <3> DEFINE v == [t EXCEPT !.outcome = outcome]
        <3>1. sent' = [sent EXCEPT ![n] = v]
            BY <1>1, <2>2
        <3>2. v.intent = t.intent
            BY <1>1 DEF Transaction
        <3> HIDE DEF v
        <3> QED
            BY <3>1, <3>2
    <2> QED
        BY <2>1, <2>2 DEF Mine
<1>4. /\ DOMAIN sent' = DOMAIN sent
      /\ \A k \in DOMAIN sent : k # n => sent'[k] = sent[k]
      /\ sent'[n] = u
    BY <1>1, <1>3
<1>5. \A k \in DOMAIN sent :
          /\ sent'[k].intent = sent[k].intent
          /\ sent[k].outcome = "mined" => sent'[k].outcome = "mined"
    BY <1>1, <1>3, <1>4
<1> QED
    BY <1>2, <1>4, <1>5, WorldKeepsLinks


-----------------------------------------------------------------------------
(***************************************************************************)
(* sdk/index.ts, post: what it changes.                                    *)
(***************************************************************************)
Made(k, c, route, stage, intent, signed, tries) ==
    /\ ~Serving(c) /\ UNCHANGED <<mandateVars, sent>>
    /\ exchange'[c].route = route
    /\ exchange'[c].answer \in Known => exchange'[c].answer = "none" /\ exchange'[c].at = 1
    /\ \A d \in Connection : d # c => exchange'[d] = exchange[d]
    /\ posted'[c] = [intent |-> intent, signed |-> signed]
    /\ \A d \in Connection : d # c => posted'[d] = posted[d]
    /\ client'[k].stage = stage /\ client'[k].on = c /\ client'[k].tries = tries
    /\ client'[k].request = IF stage = "prepare" THEN intent ELSE client[k].request
    /\ client'[k].prepared = IF stage = "preflight" THEN intent ELSE client[k].prepared
    /\ client'[k].result = client[k].result
    /\ \A l \in Client : l # k => client'[l] = client[l]

LEMMA PostMakes ==
    ASSUME SdkInv, NEW k \in Client, NEW c \in Connection, NEW route \in SdkRoutes,
           NEW stage, NEW intent, NEW signed, NEW tries,
           Post(k, c, route, stage, intent, signed, tries)
    PROVE  Made(k, c, route, stage, intent, signed, tries)
<1> DEFINE handler == handlerOf[route]
           e == [NoRequest EXCEPT !.route = route, !.at = 1]
           s == client[k]
           request == IF stage = "prepare" THEN intent ELSE s.request
           prepared == IF stage = "preflight" THEN intent ELSE s.prepared
           r == [s EXCEPT !.stage = stage, !.on = c, !.tries = tries,
                          !.request = request, !.prepared = prepared]
<1>1. /\ ApiInv /\ Open(c, route) /\ route \in DOMAIN handlerOf
      /\ exchange \in [Connection -> Req]
    BY SdkHandlers DEF SdkInv, Post, ApiInv
<1>2. /\ exchange'[c].route = route
      /\ exchange'[c].answer \in Known => exchange'[c].answer = "none" /\ exchange'[c].at = 1
      /\ \A d \in Connection : d # c => exchange'[d] = exchange[d]
    <2>1. handler.without \in {"error", "unavailable"}
        BY <1>1, OrderOfRoutes DEF OrderOfAwaits
    <2>2. NoRequest \in Req /\ NoRequest.answer = "none"
        BY NoRequestIsReq DEF NoRequest
    <2>3. e.route = route /\ e.at = 1 /\ e.answer = "none"
        BY <2>2 DEF Req
    <2>4. /\ Answered(e, handler.without).route = route
          /\ Answered(e, handler.without).answer = handler.without
        BY <2>2, <2>3 DEF Answered, Req
    <2>5. exchange' = [exchange EXCEPT ![c] = e]
          \/ exchange' = [exchange EXCEPT ![c] = Answered(e, handler.without)]
        BY <1>1 DEF Open, Becomes
    <2> HIDE DEF e
    <2> QED
        BY <1>1, <2>1, <2>3, <2>4, <2>5 DEF Known
<1>3. /\ posted'[c] = [intent |-> intent, signed |-> signed]
      /\ \A d \in Connection : d # c => posted'[d] = posted[d]
    BY DEF Post, SdkInv
<1>4. s \in ClientState /\ client \in [Client -> ClientState]
    BY DEF SdkInv
<1>5. client' = [client EXCEPT ![k] = r]
    BY <1>4 DEF Post, ClientState
<1> HIDE DEF request, prepared, s
<1>6. /\ r.stage = stage /\ r.on = c /\ r.tries = tries /\ r.request = request
      /\ r.prepared = prepared /\ r.result = s.result
    BY <1>4 DEF ClientState
<1> HIDE DEF r
<1>7. /\ client'[k] = r
      /\ \A l \in Client : l # k => client'[l] = client[l]
    BY <1>4, <1>5
<1>8. ~Serving(c) /\ UNCHANGED <<mandateVars, sent>>
    BY <1>1 DEF Open
<1> QED
    BY <1>2, <1>3, <1>6, <1>7, <1>8 DEF Made, request, prepared, s

(***************************************************************************)
(* What a client posts for its own request, on a connection of its own.    *)
(***************************************************************************)
LEMMA PostKeepsLinks ==
    ASSUME SdkInv, LinkInv, NEW k \in Client, NEW c \in Connection,
           NEW stage \in {"prepare", "preflight", "execute", "tamper"},
           NEW intent, NEW signed, NEW tries \in Nat \ {0},
           Made(k, c, RouteOf(stage), stage, intent, signed, tries),
           \A l \in Client : l # k => client[l].on # c,
           client[k].stage # "idle" => client'[k].request = client[k].request,
           intent = Asked(client'[k]), signed = client'[k].request,
           client'[k].request \in IntentType, client'[k].request.call \in Permitted,
           stage # "prepare" => client'[k].prepared = client'[k].request,
           stage = "tamper" => PaidFor(k) /\ client[k].stage = "returned",
           client'[k].tries = 1 /\ Unshared(k)' =>
               /\ stage # "tamper" =>
                      /\ For(k)' = {}
                      /\ \A d \in Connection :
                             d # c => ~(Serving(d) /\ posted[d].intent = client'[k].request)
    PROVE  LinkInv'
<1> DEFINE AskerNext(other) ==
        \E l \in Client : client'[l].stage # "idle" /\ client'[l].request = other
<1>1. /\ ~Serving(c) /\ sent' = sent
      /\ exchange'[c].route = RouteOf(stage)
      /\ exchange'[c].answer \in Known => exchange'[c].answer = "none" /\ exchange'[c].at = 1
      /\ \A d \in Connection : d # c => exchange'[d] = exchange[d] /\ posted'[d] = posted[d]
      /\ posted'[c] = [intent |-> intent, signed |-> signed]
      /\ client'[k].stage = stage /\ client'[k].on = c
      /\ client'[k].result = client[k].result
      /\ \A l \in Client : l # k => client'[l] = client[l]
    BY DEF Made
<1>2. c # Nowhere
    BY ClientAssumption
<1>3. BodiesOK'
    BY <1>1 DEF LinkInv, BodiesOK, BodyOK, Known
<1>4. Apart'
    BY <1>1 DEF LinkInv, Apart
<1>5. ASSUME NEW other, Asker(other) PROVE AskerNext(other)
    BY <1>1, <1>5 DEF Asker
<1>6. AskerNext(client'[k].request)
    BY <1>1
<1>7. intent = client'[k].request \/ intent.call = TamperedCall
    BY DEF Asked, IntentType
<1>8. Origins'
    <2>1. ASSUME NEW d \in Connection, Serving(d)'
          PROVE  AskerNext(posted'[d].intent) \/ posted'[d].intent.call = TamperedCall
        <3>1. CASE d = c
            BY <1>1, <1>6, <1>7, <3>1
        <3>2. CASE d # c
            BY <1>1, <1>5, <2>1, <3>2 DEF LinkInv, Origins, Serving
        <3> QED
            BY <3>1, <3>2
    <2>2. ASSUME NEW t \in DOMAIN sent' PROVE AskerNext(sent'[t].intent)
        BY <1>1, <1>5, <2>2 DEF LinkInv, Origins
    <2> QED
        BY <2>1, <2>2 DEF Origins, Asker
<1>9. StateOK(client'[k]) /\ WaitingOK(k)' /\ PaidFor(k)'
    <2>1. StateOK(client'[k])
        BY <1>1 DEF StateOK, Made
    <2>2. WaitingOK(k)'
        BY <1>1 DEF WaitingOK, Waits, Known
    <2>3. PaidFor(k)'
        BY <1>1 DEF PaidFor, For
    <2> QED
        BY <2>1, <2>2, <2>3
<1>10. OnceOK(k)'
    <2> SUFFICES ASSUME Unshared(k)', client'[k].tries = 1
                 PROVE  OnceOK(k)'
        BY DEF OnceOK
    <2>1. CASE stage = "tamper"
        BY <1>1, <2>1 DEF OnceOK
    <2>2. CASE stage # "tamper"
        <3>1. For(k)' = {}
            BY <2>2
        <3>2. \A d \in Connection :
                  Serving(d)' /\ posted'[d].intent = client'[k].request => d = c
            BY <1>1, <2>2 DEF Serving
        <3> QED
            BY <1>1, <3>1, <3>2 DEF OnceOK
    <2> QED
        BY <2>1, <2>2
<1>11. ASSUME NEW l \in Client, l # k
       PROVE  StateOK(client'[l]) /\ WaitingOK(l)' /\ PaidFor(l)' /\ OnceOK(l)'
    <2>1. /\ StateOK(client[l]) /\ WaitingOK(l) /\ PaidFor(l) /\ OnceOK(l)
          /\ ClientOK(client[l]) /\ client'[l] = client[l] /\ client[l].on # c
        BY <1>1, <1>11 DEF LinkInv, ClientsOK, SdkInv
    <2>2. For(l)' = For(l)
        BY <1>1, <2>1 DEF For
    <2>3. Waits(l) => client[l].on \in Connection
        BY <2>1 DEF Waits, ClientOK
    <2>4. WaitingOK(l)'
        BY <1>1, <2>1, <2>3 DEF WaitingOK, Waits
    <2>5. PaidFor(l)'
        BY <1>1, <2>1, <2>2 DEF PaidFor
    <2>6. OnceOK(l)'
        <3> SUFFICES ASSUME Unshared(l)', client[l].tries = 1, client[l].stage # "idle"
                     PROVE  OnceOK(l)'
            BY <2>1 DEF OnceOK
        <3>1. Unshared(l)
            <4>1. ASSUME NEW j \in Client \ {l}, client[j].stage # "idle"
                  PROVE  client[j].request # client[l].request
                <5>1. client'[j].stage # "idle" /\ client'[j].request = client[j].request
                    BY <1>1, <4>1
                <5> QED
                    BY <2>1, <5>1 DEF Unshared
            <4> QED
                BY <4>1 DEF Unshared
        <3>2. client'[k].request # client[l].request
            BY <1>1, <1>11, <2>1 DEF Unshared
        <3>3. intent # client[l].request
            BY <1>7, <2>1, <3>2, ApiAssumption DEF StateOK
        <3>4. \A d \in Connection :
                  Serving(d)' /\ posted'[d].intent = client[l].request =>
                      Serving(d) /\ posted[d].intent = client[l].request
            BY <1>1, <3>3 DEF Serving
        <3>5. Waits(l) => exchange'[client[l].on] = exchange[client[l].on]
            BY <1>1, <2>1, <2>3
        <3> QED
            BY <2>1, <2>2, <3>1, <3>4, <3>5 DEF OnceOK, Waits
    <2> QED
        BY <2>1, <2>4, <2>5, <2>6
<1>12. ClientsOK'
    BY <1>9, <1>10, <1>11 DEF ClientsOK
<1> QED
    BY <1>3, <1>4, <1>8, <1>12 DEF LinkInv

(***************************************************************************)
(* sdk/index.ts, guardedExecute: the four requests of one run.             *)
(***************************************************************************)
LEMMA PostsKeepLinks ==
    ASSUME SdkInv, LinkInv, NEW k \in Client,
           Preflight(k) \/ Execute(k) \/ Tamper(k)
    PROVE  LinkInv'
<1> DEFINE s == client[k]
           c == s.on
<1>1. /\ ClientOK(s) /\ StateOK(s) /\ WaitingOK(k) /\ PaidFor(k) /\ OnceOK(k)
      /\ s.stage \in {"prepare", "preflight", "returned"}
    BY DEF SdkInv, LinkInv, ClientsOK, Preflight, Execute, Tamper, HasAnswer
<1>2. /\ c \in Connection /\ s.request \in IntentType /\ s.request.call \in Permitted
      /\ s.tries \in Nat \ {0}
    BY <1>1 DEF ClientOK, StateOK, ClientState
<1>3. \A l \in Client : l # k => client[l].on # c
    BY <1>2, ClientAssumption DEF LinkInv, Apart
<1> HIDE DEF c
<1>4. ASSUME NEW route, NEW stage, NEW intent, NEW signed, NEW tries,
             Made(k, c, route, stage, intent, signed, tries),
             Unshared(k)'
      PROVE  Unshared(k) \/ client'[k].request # s.request
    <2>1. \A l \in Client \ {k} : client'[l] = client[l]
        BY <1>4 DEF Made
    <2> QED
        BY <1>4, <2>1 DEF Unshared
<1>5. CASE Preflight(k)
    <2> DEFINE prepared == exchange[c].intent
    <2>1. s.stage = "prepare" /\ exchange[c].answer = "ok"
        BY <1>5 DEF Preflight, HasAnswer, AnswerTo, c
    <2>2. prepared = posted[c].intent
        BY <1>2, <2>1 DEF LinkInv, BodiesOK, BodyOK
    <2>3. prepared = s.request
        BY <1>1, <2>1, <2>2 DEF WaitingOK, Waits, Asked, c
    <2>4. Post(k, c, "preflight", "preflight", s.request, s.request, s.tries)
        BY <1>5, <2>3 DEF Preflight, c
    <2>5. Made(k, c, "preflight", "preflight", s.request, s.request, s.tries)
        BY <1>2, <2>4, PostMakes DEF SdkRoutes
    <2>6. /\ client'[k].stage = "preflight" /\ client'[k].request = s.request
          /\ client'[k].prepared = s.request /\ client'[k].tries = s.tries /\ sent' = sent
        BY <2>5 DEF Made
    <2>7. ASSUME s.tries = 1, Unshared(k)'
          PROVE  /\ For(k)' = {}
                 /\ \A d \in Connection :
                        d # c => ~(Serving(d) /\ posted[d].intent = s.request)
        <3>1. Unshared(k)
            BY <1>4, <2>5, <2>6, <2>7
        <3>2. For(k)' = For(k)
            BY <2>6 DEF For
        <3> QED
            BY <1>1, <2>1, <2>7, <3>1, <3>2 DEF OnceOK, c
    <2>8. Asked(client'[k]) = s.request
        BY <2>6 DEF Asked
    <2> QED
        BY <1>2, <1>3, <2>5, <2>6, <2>7, <2>8, PostKeepsLinks DEF RouteOf
<1>6. CASE Execute(k)
    <2>1. s.stage = "preflight" /\ s.prepared = s.request
        BY <1>1, <1>6 DEF Execute, HasAnswer, StateOK
    <2>2. Post(k, c, "execute", "execute", s.request, s.request, s.tries)
        BY <1>6, <2>1 DEF Execute, c
    <2>3. Made(k, c, "execute", "execute", s.request, s.request, s.tries)
        BY <1>2, <2>2, PostMakes DEF SdkRoutes
    <2>4. /\ client'[k].stage = "execute" /\ client'[k].request = s.request
          /\ client'[k].prepared = s.request /\ client'[k].tries = s.tries /\ sent' = sent
        BY <2>1, <2>3 DEF Made
    <2>5. ASSUME s.tries = 1, Unshared(k)'
          PROVE  /\ For(k)' = {}
                 /\ \A d \in Connection :
                        d # c => ~(Serving(d) /\ posted[d].intent = s.request)
        <3>1. Unshared(k)
            BY <1>4, <2>3, <2>4, <2>5
        <3>2. For(k)' = For(k)
            BY <2>4 DEF For
        <3> QED
            BY <1>1, <2>1, <2>5, <3>1, <3>2 DEF OnceOK, c
    <2>6. Asked(client'[k]) = s.request
        BY <2>4 DEF Asked
    <2> QED
        BY <1>2, <1>3, <2>3, <2>4, <2>5, <2>6, PostKeepsLinks DEF RouteOf
<1>7. CASE Tamper(k)
    <2> DEFINE other == [s.request EXCEPT !.call = TamperedCall]
    <2>1. s.stage = "returned" /\ s.prepared = s.request
        BY <1>1, <1>7 DEF Tamper, StateOK
    <2>2. Post(k, c, "preflight", "tamper", other, s.request, s.tries)
        BY <1>7, <2>1 DEF Tamper, c
    <2> HIDE DEF other
    <2>3. Made(k, c, "preflight", "tamper", other, s.request, s.tries)
        BY <1>2, <2>2, PostMakes DEF SdkRoutes
    <2>4. /\ client'[k].stage = "tamper" /\ client'[k].request = s.request
          /\ client'[k].prepared = s.request /\ client'[k].tries = s.tries
        BY <2>1, <2>3 DEF Made
    <2>5. Asked(client'[k]) = other
        BY <2>4 DEF Asked, other
    <2> QED
        BY <1>1, <1>2, <1>3, <2>1, <2>3, <2>4, <2>5, PostKeepsLinks DEF RouteOf
<1> QED
    BY <1>5, <1>6, <1>7

LEMMA StartsKeepLinks ==
    ASSUME SdkInv, LinkInv, NEW k \in Client, NEW c \in Connection,
           Start(k, c) \/ Retry(k, c)
    PROVE  LinkInv'
<1> DEFINE s == client[k]
<1>1. ClientOK(s) /\ StateOK(s)
    BY DEF SdkInv, LinkInv, ClientsOK
<1>2. \A l \in Client : client[l].on # c
    BY DEF Start, Retry, Unused
<1>3. CASE Start(k, c)
    <2> DEFINE request == DemoIntent(CallOf[k], nextNonce(DemoAgent))
    <2>1. nextNonce(DemoAgent) \in Nonce
        BY ApiAssumption DEF nextNonce, SdkInv, ApiInv, Ledger
    <2>2. CallOf[k] \in Permitted
        BY ClientAssumption
    <2>3. request \in IntentType /\ request.call \in Permitted
        BY <2>1, <2>2, ApiAssumption DEF DemoIntent, IntentType
    <2>4. s.stage = "idle" /\ Post(k, c, "prepare", "prepare", request, request, 1)
        BY <1>3 DEF Start
    <2> HIDE DEF request
    <2>5. Made(k, c, "prepare", "prepare", request, request, 1)
        BY <2>4, PostMakes DEF SdkRoutes
    <2>6. /\ client'[k].stage = "prepare" /\ client'[k].request = request
          /\ client'[k].tries = 1 /\ sent' = sent
          /\ \A l \in Client : l # k => client'[l] = client[l]
        BY <2>5 DEF Made
    <2>7. ASSUME Unshared(k)'
          PROVE  /\ For(k)' = {}
                 /\ \A d \in Connection :
                        d # c => ~(Serving(d) /\ posted[d].intent = request)
        <3>1. ~Asker(request)
            BY <2>4, <2>6, <2>7 DEF Asker, Unshared
        <3>2. request.call # TamperedCall
            BY <2>3, ApiAssumption
        <3> QED
            BY <2>6, <3>1, <3>2 DEF LinkInv, Origins, For
    <2>8. Asked(client'[k]) = request
        BY <2>6 DEF Asked
    <2> QED
        BY <1>2, <2>3, <2>4, <2>5, <2>6, <2>7, <2>8, PostKeepsLinks DEF RouteOf
<1>4. CASE Retry(k, c)
    <2>1. /\ s.stage = "threw" /\ s.request \in IntentType /\ s.request.call \in Permitted
          /\ s.tries \in Nat \ {0}
        BY <1>1, <1>4 DEF Retry, ClientOK, ClientState, StateOK
    <2>2. Post(k, c, "prepare", "prepare", s.request, s.request, s.tries + 1)
        BY <1>4 DEF Retry
    <2>3. Made(k, c, "prepare", "prepare", s.request, s.request, s.tries + 1)
        BY <2>2, PostMakes DEF SdkRoutes
    <2>4. /\ client'[k].stage = "prepare" /\ client'[k].request = s.request
          /\ client'[k].tries = s.tries + 1
        BY <2>3 DEF Made
    <2>5. client'[k].tries # 1 /\ s.tries + 1 \in Nat \ {0}
        BY <2>1, <2>4
    <2>6. Asked(client'[k]) = s.request
        BY <2>4 DEF Asked
    <2> QED
        BY <1>2, <2>1, <2>3, <2>4, <2>5, <2>6, PostKeepsLinks DEF RouteOf
<1> QED
    BY <1>3, <1>4

(***************************************************************************)
(* A client's own step, from s to r: everything else stays.                *)
(***************************************************************************)
LEMMA StandsKeepsLinks ==
    ASSUME SdkInv, LinkInv, NEW k \in Client, client[k].stage # "idle", NEW r,
           client' = [client EXCEPT ![k] = r], UNCHANGED <<vars, posted>>,
           r.request = client[k].request, r.on \in {client[k].on, Nowhere},
           r.stage \in {"threw", "returned", "demonstrated"}, r.tries = client[k].tries,
           r.stage = "returned" => r.prepared = r.request,
           r.stage = "demonstrated" => r.result = "BLOCK",
           r.stage = "returned" /\ r.result = "ALLOW" =>
               \E t \in For(k) : sent[t].outcome = "mined",
           r.stage = "returned" /\ r.result = "BLOCK" /\ r.tries = 1 /\ Unshared(k) =>
               /\ For(k) = {}
               /\ \A c \in Connection : Serving(c) => posted[c].intent # client[k].request
    PROVE  LinkInv'
<1>1. /\ client'[k] = r /\ \A l \in Client : l # k => client'[l] = client[l]
      /\ exchange' = exchange /\ sent' = sent /\ posted' = posted
    BY DEF SdkInv, vars, apiVars
<1>2. BodiesOK'
    BY <1>1 DEF LinkInv, BodiesOK
<1>3. Apart'
    BY <1>1 DEF LinkInv, Apart
<1>4. \A other : Asker(other) => Asker(other)'
    BY <1>1 DEF Asker
<1>5. Origins'
    BY <1>1, <1>4 DEF LinkInv, Origins, Serving
<1>6. \A l \in Client : For(l)' = For(l)
    BY <1>1 DEF For
<1>7. ASSUME NEW l \in Client, Unshared(l)' PROVE Unshared(l)
    BY <1>1, <1>7 DEF Unshared
<1>8. /\ StateOK(r) /\ WaitingOK(k)' /\ PaidFor(k)' /\ OnceOK(k)'
    <2>1. StateOK(r)
        BY DEF LinkInv, ClientsOK, StateOK
    <2>2. WaitingOK(k)'
        BY <1>1 DEF WaitingOK, Waits
    <2>3. PaidFor(k)'
        BY <1>1, <1>6 DEF PaidFor
    <2>4. OnceOK(k)'
        BY <1>1, <1>6, <1>7 DEF OnceOK, Serving
    <2> QED
        BY <2>1, <2>2, <2>3, <2>4
<1>9. ASSUME NEW l \in Client, l # k
      PROVE  StateOK(client'[l]) /\ WaitingOK(l)' /\ PaidFor(l)' /\ OnceOK(l)'
    <2>1. /\ StateOK(client[l]) /\ WaitingOK(l) /\ PaidFor(l) /\ OnceOK(l)
          /\ client'[l] = client[l]
        BY <1>1, <1>9 DEF LinkInv, ClientsOK
    <2>2. WaitingOK(l)' /\ PaidFor(l)'
        BY <1>1, <1>6, <2>1 DEF WaitingOK, Waits, PaidFor
    <2>3. OnceOK(l)'
        BY <1>1, <1>6, <1>7, <1>9, <2>1 DEF OnceOK, Serving
    <2> QED
        BY <2>1, <2>2, <2>3
<1>10. ClientsOK'
    BY <1>1, <1>8, <1>9 DEF ClientsOK
<1> QED
    BY <1>2, <1>3, <1>5, <1>10 DEF LinkInv

LEMMA ThrowKeepsLinks ==
    ASSUME SdkInv, LinkInv, NEW k \in Client, Waits(k), Throw(k), UNCHANGED <<vars, posted>>
    PROVE  LinkInv'
<1> DEFINE s == client[k]
           r == [s EXCEPT !.stage = "threw", !.on = Nowhere]
<1>1. s \in ClientState /\ s.stage # "idle"
    BY DEF SdkInv, ClientOK, Waits
<1>2. /\ r.stage = "threw" /\ r.on = Nowhere /\ r.request = s.request /\ r.tries = s.tries
    BY <1>1 DEF ClientState
<1>3. client' = [client EXCEPT ![k] = r]
    BY DEF Throw
<1> HIDE DEF r
<1> QED
    BY <1>1, <1>2, <1>3, StandsKeepsLinks

LEMMA EndKeepsLinks ==
    ASSUME SdkInv, LinkInv, NEW k \in Client, Return(k) \/ TamperAnswered(k)
    PROVE  LinkInv'
<1> DEFINE s == client[k]
           e == exchange[s.on]
           stage == IF s.stage = "tamper" THEN "demonstrated" ELSE "returned"
           r == [s EXCEPT !.stage = stage, !.result = e.answer]
<1>1. /\ s.stage \in {"preflight", "execute", "tamper"} /\ e.answer \in {"ALLOW", "BLOCK"}
      /\ s.stage = "preflight" => e.answer = "BLOCK"
      /\ client' = [client EXCEPT ![k] = r] /\ UNCHANGED <<vars, posted>>
    BY DEF Return, TamperAnswered, HasAnswer, AnswerTo
<1>2. /\ ClientOK(s) /\ StateOK(s) /\ WaitingOK(k) /\ OnceOK(k) /\ Waits(k)
      /\ s.on \in Connection
    BY <1>1 DEF SdkInv, LinkInv, ClientsOK, Waits, ClientOK
<1>3. s \in ClientState /\ s.stage # "idle" /\ s.prepared = s.request
    BY <1>1, <1>2 DEF ClientOK, StateOK
<1>4. /\ r.stage = stage /\ r.result = e.answer /\ r.on = s.on /\ r.request = s.request
      /\ r.prepared = s.prepared /\ r.tries = s.tries
    BY <1>3 DEF ClientState
<1>5. /\ SlotOK(e, sent) /\ sent \in Seq(Transaction) /\ BodyOK(e, posted[s.on])
      /\ e \in Req
    BY <1>2 DEF SdkInv, ApiInv, LinkInv, BodiesOK
<1>6. e.route = RouteOf(s.stage)
    BY <1>1, <1>2, <1>5 DEF WaitingOK, SlotOK, NoRequest
<1>7. ~Serving(s.on)
    BY <1>1 DEF Serving
<1> HIDE DEF e, r
<1>8. stage = "demonstrated" => e.answer = "BLOCK"
    BY <1>1, <1>2 DEF WaitingOK, e
<1>9. ASSUME stage = "returned", e.answer = "ALLOW"
      PROVE  \E t \in For(k) : sent[t].outcome = "mined"
    <2>1. s.stage = "execute" /\ e.route = "execute"
        BY <1>1, <1>6, <1>9 DEF RouteOf
    <2>2. /\ e.tx # 0 /\ sent[e.tx].outcome = "mined" /\ e.tx <= Len(sent)
          /\ sent[e.tx].intent = e.intent
        BY <1>5, <1>9, <2>1 DEF SlotOK, ReportsPayment, Mined
    <2>3. e.tx \in DOMAIN sent
        BY <1>5, <2>2 DEF Req
    <2>4. e.intent = s.request
        BY <1>2, <1>5, <1>9, <2>1 DEF BodyOK, WaitingOK, Asked
    <2> QED
        BY <2>2, <2>3, <2>4 DEF For
<1>10. ASSUME stage = "returned", e.answer = "BLOCK", s.tries = 1, Unshared(k)
       PROVE  /\ For(k) = {}
              /\ \A c \in Connection : Serving(c) => posted[c].intent # s.request
    <2>1. s.stage \in {"preflight", "execute"} /\ e.route = s.stage
        BY <1>1, <1>6, <1>10 DEF RouteOf
    <2>2. For(k) = {}
        <3>1. CASE s.stage = "preflight"
            BY <1>2, <1>10, <3>1 DEF OnceOK
        <3>2. CASE s.stage = "execute"
            <4>1. e.tx = 0
                BY <1>5, <1>10, <2>1, <3>2 DEF SlotOK
            <4>2. For(k) \subseteq {0}
                BY <1>2, <1>10, <2>1, <3>2, <4>1 DEF OnceOK, e
            <4>3. 0 \notin For(k)
                BY <1>5 DEF For
            <4> QED
                BY <4>2, <4>3
        <3> QED
            BY <2>1, <3>1, <3>2
    <2>3. \A c \in Connection : Serving(c) => posted[c].intent # s.request
        BY <1>2, <1>7, <1>10, <2>1 DEF OnceOK
    <2> QED
        BY <2>2, <2>3
<1>11. stage \in {"returned", "demonstrated"}
    OBVIOUS
<1> HIDE DEF stage
<1> QED
    BY <1>1, <1>3, <1>4, <1>8, <1>9, <1>10, <1>11, StandsKeepsLinks

-----------------------------------------------------------------------------
LEMMA LinkInvInit == SdkInit => LinkInv
<1> SUFFICES ASSUME SdkInit
             PROVE  LinkInv
    OBVIOUS
<1>1. /\ sent = <<>> /\ exchange = [c \in Connection |-> NoRequest]
      /\ \A k \in Client : client[k] = Idle
    BY DEF SdkInit, Init, ApiInit
<1>2. Idle.stage = "idle" /\ Idle.on = Nowhere
    BY DEF Idle
<1>3. BodiesOK
    BY <1>1 DEF BodiesOK, BodyOK, NoRequest
<1>4. Apart
    BY <1>1, <1>2 DEF Apart
<1>5. Origins
    BY <1>1 DEF Origins, Serving, NoRequest
<1>6. ClientsOK
    BY <1>1, <1>2 DEF ClientsOK, StateOK, WaitingOK, Waits, PaidFor, OnceOK
<1> QED
    BY <1>3, <1>4, <1>5, <1>6 DEF LinkInv

LEMMA LinkInvStep == SdkInv /\ LinkInv /\ [SdkNext]_allVars => LinkInv'
<1> SUFFICES ASSUME SdkInv, LinkInv, [SdkNext]_allVars
             PROVE  LinkInv'
    OBVIOUS
<1>1. ASSUME NEW k \in Client, NEW c \in Connection, Start(k, c) \/ Retry(k, c)
      PROVE  LinkInv'
    BY <1>1, StartsKeepLinks
<1>2. ASSUME NEW k \in Client, React(k)
      PROVE  LinkInv'
    BY <1>2, PostsKeepLinks, EndKeepsLinks, ThrowKeepsLinks DEF React, Refused
<1>3. ASSUME NEW k \in Client, GiveUp(k)
      PROVE  LinkInv'
    BY <1>3, ThrowKeepsLinks DEF GiveUp
<1>4. ASSUME NEW c \in Connection, ServeClient(c)
      PROVE  LinkInv'
    BY <1>4, ServeKeepsLinks, ReadBodyKeepsLinks DEF ServeClient
<1>5. ASSUME NEW c \in Connection, WaitFails(c), UNCHANGED sdkVars
      PROVE  LinkInv'
    BY <1>5, ServeKeepsLinks
<1>6. ASSUME NEW n \in 1..MaxSent, MineSent(n)
      PROVE  LinkInv'
    BY <1>6, MineKeepsLinks DEF MineSent
<1>7. ASSUME Elsewhere, UNCHANGED sdkVars
      PROVE  LinkInv'
    BY <1>7, WorldKeepsLinks DEF Elsewhere, apiVars
<1>8. ASSUME Crash, UNCHANGED sdkVars
      PROVE  LinkInv'
    BY <1>8, WorldKeepsLinks DEF Crash
<1>9. CASE UNCHANGED allVars
    BY <1>9, WorldKeepsLinks DEF allVars, vars, apiVars, sdkVars
<1> QED
    BY <1>1, <1>2, <1>3, <1>4, <1>5, <1>6, <1>7, <1>8, <1>9 DEF SdkNext

(***************************************************************************)
(* sdk/index.ts, guardedExecute: the ALLOW that it returns is one for what *)
(* its caller asked for, and that has been paid; and the signature on it   *)
(* allows nothing else.                                                    *)
(***************************************************************************)
THEOREM ReturnedAllowMeansPaid == SdkSpec => []ReturnedAllowIsPaid
<1>1. LinkInv => ReturnedAllowIsPaid
    BY DEF LinkInv, ClientsOK, PaidFor, StateOK, ReturnedAllowIsPaid
<1> QED
    BY <1>1, SdkInvInit, SdkInvStep, LinkInvInit, LinkInvStep, PTL DEF SdkSpec

(***************************************************************************)
(* sdk/index.ts, guardedExecute: a first call that returns BLOCK has sent  *)
(* nothing, and nothing is left on its way that could.                     *)
(***************************************************************************)
THEOREM BlockedAtOnceSentNothing == SdkSpec => []BlockedAtOnceIsUnsent
<1>1. LinkInv => BlockedAtOnceIsUnsent
    BY DEF LinkInv, ClientsOK, OnceOK, BlockedAtOnceIsUnsent
<1> QED
    BY <1>1, SdkInvInit, SdkInvStep, LinkInvInit, LinkInvStep, PTL DEF SdkSpec
(***************************************************************************)
(* sdk/index.ts, prepareAndSign and guardedExecute, called again and again *)
(* over api/app.ts: what was asked for is paid at most once, however often *)
(* it is sent and however long an abandoned request lives on.              *)
(***************************************************************************)
THEOREM RepeatedCallsPayOnce == SdkSpec => []PaidOncePerRequest
<1>1. SdkInv => PaidOncePerRequest
    BY DEF SdkInv, MinedOnce, PaidOncePerRequest, For
<1> QED
    BY <1>1, SdkInvInit, SdkInvStep, PTL DEF SdkSpec

(***************************************************************************)
(* api/app.ts behind the SDK: what is sent for its clients was vetted, and *)
(* ALLOW tells them of a payment that no other request reports.            *)
(***************************************************************************)
THEOREM ClientsAreGuarded ==
    SdkSpec => [](SubmittedWasVetted /\ AllowIsPaid /\ BlockMeansUnsent)
<1>1. SdkInv => SubmittedWasVetted /\ AllowIsPaid /\ BlockMeansUnsent
    BY AllowFromInv DEF SdkInv, ApiInv, SlotOK, Vetted, Cleared, SubmittedWasVetted,
                        BlockMeansUnsent
<1> QED
    BY <1>1, SdkInvInit, SdkInvStep, PTL DEF SdkSpec

-----------------------------------------------------------------------------
(***************************************************************************)
(* sdk/index.ts over api/app.ts: an SDK client is one of the clients that  *)
(* an API open to every body on its routes has to expect, so that the SDK, *)
(* its repeated calls and its given-up waits, adds no behaviour of server  *)
(* and chain.                                                              *)
(***************************************************************************)
THEOREM SdkIsAClient ==
    ASSUME \A c \in Connection : SdkRoutes \subseteq Route[c],
           Body = [intent : IntentType, signed : IntentType]
    PROVE  SdkSpec => Spec
<1>1. SdkInit => Init
    BY DEF SdkInit
<1>2. SdkInv /\ [SdkNext]_allVars => [Next]_vars
    <2> SUFFICES ASSUME SdkInv, SdkNext
                 PROVE  Next \/ UNCHANGED vars
        BY DEF allVars
    <2>1. ASSUME NEW k \in Client, NEW c \in Connection, NEW route \in SdkRoutes,
                 NEW stage, NEW intent, NEW signed, NEW tries,
                 Post(k, c, route, stage, intent, signed, tries)
          PROVE  Next
        BY <2>1 DEF Post, Next
    <2>2. ASSUME NEW k \in Client, NEW c \in Connection, Start(k, c) \/ Retry(k, c)
          PROVE  Next
        BY <2>1, <2>2 DEF Start, Retry, SdkRoutes
    <2>3. ASSUME NEW k \in Client, Preflight(k) \/ Execute(k) \/ Tamper(k)
          PROVE  Next
        <3>1. client[k].on \in Connection
            BY <2>3 DEF Preflight, Execute, Tamper, HasAnswer, SdkInv, ClientOK
        <3> QED
            BY <2>1, <2>3, <3>1 DEF Preflight, Execute, Tamper, SdkRoutes
    <2>4. ASSUME NEW k \in Client, React(k) \/ GiveUp(k)
          PROVE  Next \/ UNCHANGED vars
        BY <2>3, <2>4 DEF React, GiveUp, Return, Refused, TamperAnswered
    <2>5. ASSUME NEW c \in Connection, ServeClient(c)
          PROVE  Next
        <3>1. CASE Serve(c)
            BY <3>1 DEF Next, Step
        <3>2. CASE ReadBody(c, posted[c])
            <4>1. Serving(c)
                BY <3>2 DEF ReadBody, Awaits
            <4>2. posted[c] \in Body
                BY <4>1 DEF SdkInv, SlotsOK, Posted
            <4> QED
                BY <3>2, <4>2 DEF Next, Step
        <3> QED
            BY <2>5, <3>1, <3>2 DEF ServeClient
    <2>6. ASSUME NEW n \in 1..MaxSent, MineSent(n)
          PROVE  Next
        BY <2>6 DEF MineSent, Next
    <2> QED
        BY <2>2, <2>4, <2>5, <2>6 DEF SdkNext, Next
<1> QED
    BY <1>1, <1>2, SdkInvInit, SdkInvStep, PTL DEF SdkSpec, Spec
=============================================================================
