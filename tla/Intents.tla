------------------------------ MODULE Intents ------------------------------
(***************************************************************************)
(* runtime/intent.ts, runtime/tool-request.ts and the parsing of bodies in *)
(* api/app.ts: how a tool request becomes an intent, how an intent is      *)
(* signed as typed data, sent back as JSON and read again.                 *)
(*                                                                         *)
(* Everything arrives as text.  What ethers and JavaScript make of a text  *)
(* is given by the functions below: where one is not defined, they throw.  *)
(* Names are split at their colons, so that the key "tool:action" of the   *)
(* tool map is the concatenation of the two names.                         *)
(***************************************************************************)
EXTENDS Integers, Sequences, Functions

CONSTANTS
    Text,           \* the strings that a body may hold
    Name,           \* names of tools and actions
    getAddress,     \* ethers: an address in any spelling, to its checksummed spelling
    BigInt,         \* JavaScript: decimal or hex digits, spaces, or nothing, to a number
    toString,       \* JavaScript: a number to its decimal digits
    getBytes,       \* ethers: hex digits of whole bytes, to the bytes
    Word,           \* what isHexString(_, 32) accepts
    MaxUint,        \* 2^256 - 1
    Throws          \* the result of what threw

Amounts == {"value", "nonce", "deadline"}
IntentFields == {"agent", "wallet", "target", "data", "policyHash"} \cup Amounts

ASSUME TextAssumption ==
    /\ DOMAIN getAddress \cup DOMAIN BigInt \cup DOMAIN getBytes \subseteq Text
    /\ Range(getAddress) \subseteq DOMAIN getAddress
    /\ \A a \in Range(getAddress) : getAddress[a] = a
    /\ Range(BigInt) \subseteq DOMAIN toString
    /\ \A n \in DOMAIN toString : toString[n] \in DOMAIN BigInt /\ BigInt[toString[n]] = n
    /\ Word \subseteq DOMAIN getBytes
    /\ {"", "0"} \subseteq DOMAIN BigInt /\ BigInt[""] = 0 /\ BigInt["0"] = 0
    /\ MaxUint \in Nat
    /\ Throws \notin Text /\ Throws \notin [IntentFields -> Text \cup Int]

isAddress(text) == text \in DOMAIN getAddress

\* No two byte strings that occur have the same hash.
keccak256(text) == getBytes[text]

-----------------------------------------------------------------------------
(***************************************************************************)
(* Bodies: functions on the fields they have.                              *)
(***************************************************************************)
HasTexts(body, fields) ==
    fields \subseteq DOMAIN body /\ \A f \in fields : body[f] \in Text

\* BigInt(...) of the amounts, in whatever spelling they came.
Readable(body) == \A f \in Amounts : body[f] \in DOMAIN BigInt
Read(body) == [f \in DOMAIN body |-> IF f \in Amounts THEN BigInt[body[f]] ELSE body[f]]

\* ?? "0", for a value left out.
Whole(body) ==
    [f \in DOMAIN body \cup {"value"} |-> IF f \in DOMAIN body THEN body[f] ELSE "0"]

asToolRequest(body) ==
    LET whole == Whole(body)
    IN  IF /\ HasTexts(whole, {"agent", "wallet", "policyHash"} \cup Amounts)
           /\ {"tool", "action", "args"} \subseteq DOMAIN body
           /\ {body.tool, body.action} \subseteq Name /\ body.args \in Seq(Text)
           /\ Readable(whole)
        THEN Read(whole)
        ELSE Throws

asExecutionIntent(body) ==
    IF HasTexts(body, IntentFields) /\ Readable(body)
    THEN [f \in IntentFields |-> Read(body)[f]]
    ELSE Throws

\* The checks of executeIntent, and the encoding of its call by ethers.
Encodable(intent) ==
    /\ isAddress(intent.agent) /\ isAddress(intent.wallet) /\ isAddress(intent.target)
    /\ intent.data \in DOMAIN getBytes /\ intent.policyHash \in Word
    /\ \A f \in Amounts : intent[f] \in 0..MaxUint

-----------------------------------------------------------------------------
(***************************************************************************)
(* Tools.                                                                  *)
(***************************************************************************)

\* encodes is what the interface's encodeFunctionData makes of the arguments.
defineContractTool(tool, action, target, encodes) ==
    IF <<>> \notin {tool, action} /\ isAddress(target)
    THEN [tool |-> tool, action |-> action, target |-> getAddress[target],
          encodes |-> encodes]
    ELSE Throws

keyOf(tool, action) == tool \o action

NotNegative(terms) == \A f \in Amounts : terms[f] >= 0

\* The checks of canonicalizeIntent; half a byte passes isHexString, but not the
\* hashing after it.
Canonical(intent) ==
    /\ isAddress(intent.agent) /\ isAddress(intent.wallet) /\ isAddress(intent.target)
    /\ intent.data \in DOMAIN getBytes
    /\ intent.policyHash \in Word
    /\ NotNegative(intent)

intentOf(definition, request) ==
    [agent |-> request.agent, wallet |-> request.wallet, target |-> definition.target,
     value |-> request.value, data |-> definition.encodes[request.args],
     nonce |-> request.nonce, deadline |-> request.deadline,
     policyHash |-> request.policyHash]

\* A bug that resolveToolRequest does not have: it trusts the key.
resolveByKey(definition, request) ==
    IF /\ NotNegative(request)
       /\ request.args \in DOMAIN definition.encodes
       /\ Canonical(intentOf(definition, request))
    THEN intentOf(definition, request)
    ELSE Throws

resolveToolRequest(definition, request) ==
    IF /\ request.tool = definition.tool /\ request.action = definition.action
       /\ NotNegative(request)
       /\ request.args \in DOMAIN definition.encodes
       /\ Canonical(intentOf(definition, request))
    THEN intentOf(definition, request)
    ELSE Throws

-----------------------------------------------------------------------------
(***************************************************************************)
(* Typed data.                                                             *)
(***************************************************************************)
canonicalizeIntent(intent) ==
    IF Canonical(intent)
    THEN [agent |-> getAddress[intent.agent], wallet |-> getAddress[intent.wallet],
          target |-> getAddress[intent.target], value |-> intent.value,
          calldataHash |-> keccak256(intent.data), nonce |-> intent.nonce,
          deadline |-> intent.deadline, policyHash |-> intent.policyHash]
    ELSE Throws

buildIntentDomain(chainId, verifyingContract) ==
    IF isAddress(verifyingContract)
    THEN [chainId |-> chainId, verifyingContract |-> getAddress[verifyingContract]]
    ELSE Throws

\* What ethers' encoder, and the Guard, hash: addresses in any spelling, unsigned
\* numbers of 256 bits, the bytes of a word.
TypedHash(domain, message) ==
    IF domain # Throws /\ \A f \in Amounts : message[f] \in 0..MaxUint
    THEN <<domain, [agent |-> getAddress[message.agent], wallet |-> getAddress[message.wallet],
                    target |-> getAddress[message.target], value |-> message.value,
                    calldataHash |-> message.calldataHash, nonce |-> message.nonce,
                    deadline |-> message.deadline, policyHash |-> getBytes[message.policyHash]]>>
    ELSE Throws

intentDigest(intent, chainId, verifyingContract) ==
    IF canonicalizeIntent(intent) # Throws
    THEN TypedHash(buildIntentDomain(chainId, verifyingContract), canonicalizeIntent(intent))
    ELSE Throws

\* The Guard's digest of the arguments of executeFromWallet.
guardDigest(intent, chainId, guard) ==
    TypedHash(buildIntentDomain(chainId, guard),
              [agent |-> intent.agent, wallet |-> intent.wallet, target |-> intent.target,
               value |-> intent.value, calldataHash |-> keccak256(intent.data),
               nonce |-> intent.nonce, deadline |-> intent.deadline,
               policyHash |-> intent.policyHash])

AsText(intent) ==
    [f \in IntentFields |-> IF f \in Amounts THEN toString[intent[f]] ELSE intent[f]]

serializeIntent(intent) ==
    [f \in IntentFields \cup {"calldataHash"} |->
        IF f = "calldataHash" THEN keccak256(intent.data) ELSE AsText(intent)[f]]

\* A bug that typedIntentMessage does not have: two fields of one type swapped.
typedMessageSwapped(intent) ==
    LET text == AsText(intent)
    IN  [agent |-> text.agent, wallet |-> text.target, target |-> text.wallet,
         value |-> text.value, calldataHash |-> keccak256(intent.data),
         nonce |-> text.nonce, deadline |-> text.deadline, policyHash |-> text.policyHash]

\* The message of the typed data that prepare and agent/demo answer with.
typedIntentMessage(intent) ==
    LET text == AsText(intent)
    IN  [agent |-> text.agent, wallet |-> text.wallet, target |-> text.target,
         value |-> text.value, calldataHash |-> keccak256(intent.data),
         nonce |-> text.nonce, deadline |-> text.deadline, policyHash |-> text.policyHash]

\* signTypedData of a message as it came in JSON: a signature is what was signed.
signTypedData(domain, message) == TypedHash(domain, Read(message))

\* The SDK sends the prepared intent back: without hash, amounts once more as text.
sdkSerializeIntent(prepared) == [f \in IntentFields |-> prepared[f]]
=============================================================================
