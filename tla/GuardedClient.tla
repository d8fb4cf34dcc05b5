--------------------------- MODULE GuardedClient ---------------------------
(***************************************************************************)
(* sdk/index.ts, composed with the API: guardedExecute prepares, signs,    *)
(* preflights and executes, one HTTP request after the other, as           *)
(* scripts/agent-sdk-demo.ts uses it.                                      *)
(*                                                                         *)
(* A client that stops waiting does not stop the server: its request goes  *)
(* on.  The SDK never tries again by itself; a caller may, with the same   *)
(* tool request.                                                           *)
(***************************************************************************)
EXTENDS GuardedApi

CONSTANTS
    Client,     \* processes that use the SDK, all for DemoAgent
    CallOf,     \* per client, the call that its tool request resolves to
    Nowhere,    \* no connection
    MaxTries    \* bound on how often a caller runs guardedExecute

ASSUME ClientAssumption ==
    /\ CallOf \in [Client -> Permitted]
    /\ Nowhere \notin Connection
    /\ MaxTries \in Nat

VARIABLES
    client,     \* per client, where its guardedExecute stands
    posted      \* per connection, the body sent last

sdkVars == <<client, posted>>
allVars == <<vars, sdkVars>>

Idle == [stage |-> "idle", on |-> Nowhere, request |-> NoIntent, prepared |-> NoIntent,
         tries |-> 0, result |-> "none"]

Waits(k) == client[k].stage \in {"prepare", "preflight", "execute", "tamper"}

Unused(c) == ~Serving(c) /\ \A k \in Client : client[k].on # c

\* post: the request is on its way on a connection, the client awaits its answer.
Post(k, c, route, stage, intent, signed, tries) ==
    /\ Open(c, route)
    /\ posted' = [posted EXCEPT ![c] = [intent |-> intent, signed |-> signed]]
    /\ client' = [client EXCEPT ![k].stage = stage, ![k].on = c, ![k].tries = tries,
                                ![k].request = IF stage = "prepare" THEN intent ELSE @,
                                ![k].prepared = IF stage = "preflight" THEN intent ELSE @]

\* agent-sdk-demo: the nonce is read, the tool request made.
Start(k, c) ==
    LET request == DemoIntent(CallOf[k], nextNonce(DemoAgent))
    IN  /\ client[k].stage = "idle"
        /\ Unused(c)
        /\ Post(k, c, "prepare", "prepare", request, request, 1)

\* The caller does not know how far the failed call came.
Retry(k, c) ==
    /\ client[k].stage = "threw"
    /\ client[k].tries < MaxTries
    /\ Unused(c)
    /\ Post(k, c, "prepare", "prepare", client[k].request, client[k].request,
            client[k].tries + 1)

HasAnswer(k, stage) == client[k].stage = stage /\ exchange[client[k].on].answer # "none"
AnswerTo(k) == exchange[client[k].on].answer

\* The prepared intent is signed and sent for preflight.
Preflight(k) ==
    LET prepared == exchange[client[k].on].intent
    IN  /\ HasAnswer(k, "prepare") /\ AnswerTo(k) = "ok"
        /\ Post(k, client[k].on, "preflight", "preflight", prepared, prepared,
                client[k].tries)

Execute(k) ==
    /\ HasAnswer(k, "preflight") /\ AnswerTo(k) = "ALLOW"
    /\ Post(k, client[k].on, "execute", "execute", client[k].prepared, client[k].prepared,
            client[k].tries)

\* guardedExecute returns: with the preflight's refusal, or the execution's answer.
Return(k) ==
    /\ \/ HasAnswer(k, "preflight") /\ AnswerTo(k) = "BLOCK"
       \/ HasAnswer(k, "execute") /\ AnswerTo(k) \in {"ALLOW", "BLOCK"}
    /\ client' = [client EXCEPT ![k].stage = "returned", ![k].result = AnswerTo(k)]
    /\ UNCHANGED <<vars, posted>>

Throw(k) == client' = [client EXCEPT ![k].stage = "threw", ![k].on = Nowhere]

\* A bug that Refused does not have: only a status is a failure.
RefusedByStatus(k) ==
    /\ Waits(k)
    /\ AnswerTo(k) \in {"error", "unavailable", "notFound", "unexpected"}
    /\ Throw(k)
    /\ UNCHANGED <<vars, posted>>

\* The status is not 2xx, or the connection is gone with the server.
Refused(k) ==
    /\ Waits(k)
    /\ \/ AnswerTo(k) \in {"error", "unavailable", "notFound", "unexpected"}
       \/ exchange[client[k].on].route = "none"
    /\ Throw(k)
    /\ UNCHANGED <<vars, posted>>

\* fetch gives up, or its connection breaks, while the server goes on.
GiveUp(k) ==
    /\ Waits(k)
    /\ Throw(k)
    /\ UNCHANGED <<vars, posted>>

\* agent-sdk-demo: the executed intent with other calldata, under its old signature.
Tamper(k) ==
    LET prepared == client[k].prepared
    IN  /\ client[k].stage = "returned" /\ client[k].result = "ALLOW"
        /\ Post(k, client[k].on, "preflight", "tamper",
                [prepared EXCEPT !.call = TamperedCall], prepared, client[k].tries)

TamperAnswered(k) ==
    /\ HasAnswer(k, "tamper") /\ AnswerTo(k) \in {"ALLOW", "BLOCK"}
    /\ client' = [client EXCEPT ![k].stage = "demonstrated", ![k].result = AnswerTo(k)]
    /\ UNCHANGED <<vars, posted>>

-----------------------------------------------------------------------------
SdkInit ==
    /\ Init
    /\ client = [k \in Client |-> Idle]
    /\ posted = [c \in Connection |-> NoIntent]

\* What follows an answer.
React(k) ==
    \/ Preflight(k) \/ Execute(k) \/ Return(k) \/ Refused(k) \/ Tamper(k)
    \/ TamperAnswered(k)

\* One await of the handler on a connection, reading what was posted there.
ServeClient(c) == (Serve(c) \/ ReadBody(c, posted[c])) /\ UNCHANGED sdkVars

MineSent(k) == k \in DOMAIN sent /\ Mine(k) /\ UNCHANGED sdkVars

SdkNext ==
    \/ \E k \in Client, c \in Connection : Start(k, c) \/ Retry(k, c)
    \/ \E k \in Client : React(k) \/ GiveUp(k)
    \/ \E c \in Connection : ServeClient(c)
    \/ \E c \in Connection : WaitFails(c) /\ UNCHANGED sdkVars
    \/ \E k \in 1..MaxSent : MineSent(k)
    \/ Elsewhere /\ UNCHANGED sdkVars
    \/ Crash /\ UNCHANGED sdkVars

\* Clients react to answers; bodies and calls of the node settle, both have timeouts;
\* the chain includes, reverts or replaces every transaction.  Nothing has to fail,
\* to be tried again or to be given up.
SdkFairness ==
    /\ \A k \in Client : WF_allVars(React(k))
    /\ \A c \in Connection : WF_allVars(ServeClient(c))
    /\ \A k \in 1..MaxSent : WF_allVars(MineSent(k))

SdkSpec == SdkInit /\ [][SdkNext]_allVars /\ SdkFairness

-----------------------------------------------------------------------------
\* The transactions that carry what a client asked for.
For(k) == {t \in DOMAIN sent : sent[t].intent = client[k].request}

\* However often a caller repeats a call that failed without telling how far it
\* came, and however long an abandoned request lives on: what was asked for is
\* paid at most once.
PaidOncePerRequest ==
    \A k \in Client : \A s, t \in For(k) :
        sent[s].outcome = "mined" /\ sent[t].outcome = "mined" => s = t

\* guardedExecute returns ALLOW only if what was asked for has been paid, and then
\* a demo that changes it gets no second one allowed under the old signature.
ReturnedAllowIsPaid ==
    \A k \in Client :
        /\ client[k].stage \in {"returned", "tamper"} /\ client[k].result = "ALLOW" =>
               \E t \in For(k) : sent[t].outcome = "mined"
        /\ client[k].stage = "demonstrated" => client[k].result = "BLOCK"

\* No other client asked for the very same, with the same nonce.
Unshared(k) ==
    \A l \in Client \ {k} :
        client[l].stage # "idle" => client[l].request # client[k].request

\* README.md:55: guardedExecute "stops before execution when Guardian returns
\* BLOCK".  A first call that returns BLOCK has sent nothing.  (A repeated one may
\* be refused because the call before it was executed after all, and one that asks
\* for the same as another client because that one's was.)
BlockedAtOnceIsUnsent ==
    \A k \in Client :
        /\ client[k].stage = "returned" /\ client[k].result = "BLOCK"
        /\ client[k].tries = 1 /\ Unshared(k)
        => For(k) = {}

\* Every call returns or throws: no client waits for ever.
CallsSettle == \A k \in Client : Waits(k) ~> ~Waits(k)

\* Every request is answered or lost with the server, its client waiting or not.
RequestsSettle == \A c \in Connection : Serving(c) ~> ~Serving(c)
=============================================================================
