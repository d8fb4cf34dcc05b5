--------------------------- MODULE PolicyRegistry ---------------------------
(***************************************************************************)
(* contracts/PolicyRegistry.sol: immutable spending policies.              *)
(*                                                                         *)
(* keccak256 is taken to be injective: a policy's identifier is the pair   *)
(* <<owner, salt>> and its hash the pair of identifier and terms.  The     *)
(* two authorization arrays of createPolicy are sets, since duplicates     *)
(* have no effect and order shows in the hash alone.                       *)
(*                                                                         *)
(* Anybody creates policies for any agent; whether the creator owns the    *)
(* agent is asked at execution.                                            *)
(***************************************************************************)
EXTENDS Addresses

CONSTANTS
    Target,        \* addresses calls are made to
    Selector,      \* function selectors
    Salt,          \* salts of policies
    Terms,         \* the argument lists of createPolicy that callers use
    NoHash,        \* policyHashOf of an identifier without policy
    NoId,          \* policyIdOfHash of an unknown hash
    MaxTime        \* bound on block.timestamp

NativeTransfer == "NativeTransfer"
Malformed == "Malformed"

\* What the Guard makes of calldata: empty, a selector, or one to three bytes.
CallKind == {NativeTransfer, Malformed} \cup Selector

TermsType ==
    [agent : AgentAddress, maxTxValue : Nat, dailyLimit : Nat,
     approvalThreshold : Nat, validFrom : Nat, validUntil : Nat,
     calls : SUBSET ((Target \cup {ZeroAddress}) \X Selector),
     nativeTransferTargets : SUBSET (Target \cup {ZeroAddress})]

PolicyId == Account \X Salt
PolicyHash == [id : PolicyId, terms : Terms]

ASSUME PolicyAssumption ==
    /\ ZeroAddress \notin Target
    /\ {NativeTransfer, Malformed} \cap Selector = {}
    /\ Terms \subseteq TermsType
    /\ MaxTime \in Nat
    /\ NoHash \notin PolicyHash
    /\ NoId \notin PolicyId

VARIABLES
    now,                  \* block.timestamp
    mandates,             \* _mandates
    policyHashOf,
    policyIdOfHash,
    authorizedCalls,      \* _authorizedCalls: per policy, pairs <<target, selector>>
    authorizedNative      \* _authorizedNativeTransfer: per policy, targets

policyVars ==
    <<mandates, policyHashOf, policyIdOfHash, authorizedCalls, authorizedNative>>

Mandate ==
    [owner : Address, agent : AgentAddress, active : BOOLEAN,
     maxTxValue : Nat, dailyLimit : Nat, approvalThreshold : Nat,
     validFrom : Nat, validUntil : Nat]

NoMandate ==
    [owner |-> ZeroAddress, agent |-> ZeroAddress, active |-> FALSE,
     maxTxValue |-> 0, dailyLimit |-> 0, approvalThreshold |-> 0,
     validFrom |-> 0, validUntil |-> 0]

policyOwner(id) == mandates[id].owner

-----------------------------------------------------------------------------
\* A bug that IdIsFree does not have: a revoked policy frees its identifier.
IdIsFreeWhenRevoked(id) == ~mandates[id].active

IdIsFree(id) == policyOwner(id) = ZeroAddress

\* A bug that WellFormed does not have: the targets are not looked at.
WellFormedAnyTarget(t) ==
    /\ t.agent # ZeroAddress
    /\ t.validUntil > t.validFrom
    /\ t.calls # {} \/ t.nativeTransferTargets # {}
    /\ t.nativeTransferTargets # {} => t.maxTxValue > 0

\* A bug that WellFormed does not have: an empty authorization is accepted.
WellFormedOrEmpty(t) ==
    /\ t.agent # ZeroAddress
    /\ t.validUntil > t.validFrom
    /\ t.nativeTransferTargets # {} => t.maxTxValue > 0
    /\ ZeroAddress \notin t.nativeTransferTargets \cup {c[1] : c \in t.calls}

\* The checks of createPolicy on its arguments, those inside the loops too.
WellFormed(t) ==
    /\ t.agent # ZeroAddress
    /\ t.validUntil > t.validFrom
    /\ t.calls # {} \/ t.nativeTransferTargets # {}
    /\ t.nativeTransferTargets # {} => t.maxTxValue > 0
    /\ ZeroAddress \notin t.nativeTransferTargets \cup {c[1] : c \in t.calls}

\* The authorizations are added to what the storage slots of the id hold.
CreatePolicy(sender, salt, t) ==
    LET id == <<sender, salt>>
        hash == [id |-> id, terms |-> t]
    IN  /\ IdIsFree(id)
        /\ WellFormed(t)
        /\ authorizedCalls' = [authorizedCalls EXCEPT ![id] = @ \cup t.calls]
        /\ authorizedNative' =
              [authorizedNative EXCEPT ![id] = @ \cup t.nativeTransferTargets]
        /\ mandates' = [mandates EXCEPT ![id] =
              [owner |-> sender, agent |-> t.agent, active |-> TRUE,
               maxTxValue |-> t.maxTxValue, dailyLimit |-> t.dailyLimit,
               approvalThreshold |-> t.approvalThreshold,
               validFrom |-> t.validFrom, validUntil |-> t.validUntil]]
        /\ policyHashOf' = [policyHashOf EXCEPT ![id] = hash]
        /\ policyIdOfHash' = [policyIdOfHash EXCEPT ![hash] = id]

\* revokePolicy and reactivatePolicy: the owner flips the one mutable field.
SetPolicyActive(sender, id, active) ==
    /\ policyOwner(id) # ZeroAddress
    /\ policyOwner(id) = sender
    /\ mandates[id].active # active
    /\ mandates' = [mandates EXCEPT ![id].active = active]
    /\ UNCHANGED <<policyHashOf, policyIdOfHash, authorizedCalls, authorizedNative>>

RevokePolicy(sender, id) == SetPolicyActive(sender, id, FALSE)
ReactivatePolicy(sender, id) == SetPolicyActive(sender, id, TRUE)

withinWindow(m) == m.validFrom <= now /\ now <= m.validUntil

\* getMandate(policyIdOfHash(hash)): all zero for an unknown hash.
mandateOf(hash) ==
    IF policyIdOfHash[hash] = NoId THEN NoMandate ELSE mandates[policyIdOfHash[hash]]

callAllowed(hash, target, kind) ==
    LET id == policyIdOfHash[hash]
    IN  /\ id # NoId
        /\ \/ kind = NativeTransfer /\ target \in authorizedNative[id]
           \/ kind \in Selector /\ <<target, kind>> \in authorizedCalls[id]

\* What the Guard requires of checkAuthorization's six answers.
checkAuthorization(hash, agent, owner, target, kind, value) ==
    LET m == mandateOf(hash)
    IN  /\ m.agent = agent
        /\ m.owner = owner
        /\ m.active
        /\ withinWindow(m)
        /\ value <= m.maxTxValue
        /\ callAllowed(hash, target, kind)

Tick == now < MaxTime /\ now' = now + 1

-----------------------------------------------------------------------------
PolicyInit ==
    /\ mandates = [id \in PolicyId |-> NoMandate]
    /\ policyHashOf = [id \in PolicyId |-> NoHash]
    /\ policyIdOfHash = [h \in PolicyHash |-> NoId]
    /\ authorizedCalls = [id \in PolicyId |-> {}]
    /\ authorizedNative = [id \in PolicyId |-> {}]

PolicyStep(sender) ==
    \/ \E salt \in Salt, t \in Terms : CreatePolicy(sender, salt, t)
    \/ \E id \in PolicyId : RevokePolicy(sender, id) \/ ReactivatePolicy(sender, id)

PolicyNext ==
    \/ \E sender \in Account : PolicyStep(sender) /\ UNCHANGED now
    \/ Tick /\ UNCHANGED policyVars

PolicySpecInit == PolicyInit /\ now = 0

PolicySpec == PolicySpecInit /\ [][PolicyNext]_<<now, policyVars>>

-----------------------------------------------------------------------------
(***************************************************************************)
(* The storage of the registry holds values of its types.                  *)
(***************************************************************************)
PolicyTypeOK ==
    /\ now \in 0..MaxTime
    /\ mandates \in [PolicyId -> Mandate]
    /\ policyHashOf \in [PolicyId -> PolicyHash \cup {NoHash}]
    /\ policyIdOfHash \in [PolicyHash -> PolicyId \cup {NoId}]
    /\ authorizedCalls \in [PolicyId -> SUBSET (Target \X Selector)]
    /\ authorizedNative \in [PolicyId -> SUBSET Target]

\* What the mandate and the authorizations of a hash would be if it says all.
Committed(h) ==
    LET m == mandates[h.id] IN
    /\ policyHashOf[h.id] = h
    /\ m = [owner |-> h.id[1], agent |-> h.terms.agent, active |-> m.active,
            maxTxValue |-> h.terms.maxTxValue, dailyLimit |-> h.terms.dailyLimit,
            approvalThreshold |-> h.terms.approvalThreshold,
            validFrom |-> h.terms.validFrom, validUntil |-> h.terms.validUntil]
    /\ authorizedCalls[h.id] = h.terms.calls
    /\ authorizedNative[h.id] = h.terms.nativeTransferTargets

(***************************************************************************)
(* A hash in a signed intent means one thing for ever: every hash the      *)
(* registry resolves leads to the policy it was computed from, whose       *)
(* stored mandate and authorizations, accumulated in slots that are never  *)
(* cleared, are exactly the terms under the hash; and no authorization is  *)
(* stored for an id without policy (createPolicy, lines 176-229).          *)
(***************************************************************************)
HashCommitsToTerms ==
    /\ \A h \in PolicyHash : policyIdOfHash[h] # NoId =>
           policyIdOfHash[h] = h.id /\ Committed(h)
    /\ \A id \in PolicyId :
           IF policyHashOf[id] = NoHash
           THEN mandates[id] = NoMandate /\ authorizedCalls[id] = {}
                    /\ authorizedNative[id] = {}
           ELSE policyIdOfHash[policyHashOf[id]] = id

\* Some call under the policy would be authorized at this moment.
Usable(h) ==
    \E target \in Target, kind \in CallKind :
        /\ checkAuthorization(h, h.terms.agent, h.id[1], target, kind, 0)
        /\ kind = NativeTransfer =>
               checkAuthorization(h, h.terms.agent, h.id[1], target, kind, 1)

(***************************************************************************)
(* createPolicy turns down misconfigurations (lines 155-157, 179-190): an  *)
(* active policy authorizes some call, a native transfer of real value if  *)
(* that is the call, at both ends of its validity window and in between.   *)
(***************************************************************************)
ActivePolicyIsUsable ==
    \A h \in PolicyHash :
        LET m == mandateOf(h) IN
        m.active /\ now \in m.validFrom..m.validUntil => Usable(h)
=============================================================================
