--------------------------- MODULE RegistryProofs ---------------------------
(***************************************************************************)
(* Theorems about the two registries by themselves, the policy registry    *)
(* and the agent registry with the wallets, for any accounts, agents,      *)
(* wallets, targets, policies and bounds.                                  *)
(***************************************************************************)
EXTENDS AgentRegistry, PolicyRegistry, TLAPS

-----------------------------------------------------------------------------
(* An operation on policies keeps the types of the policy registry.        *)
LEMMA PolicyStepType ==
    ASSUME mandates \in [PolicyId -> Mandate],
           policyHashOf \in [PolicyId -> PolicyHash \cup {NoHash}],
           policyIdOfHash \in [PolicyHash -> PolicyId \cup {NoId}],
           authorizedCalls \in [PolicyId -> SUBSET (Target \X Selector)],
           authorizedNative \in [PolicyId -> SUBSET Target],
           NEW sender \in Account, PolicyStep(sender)
    PROVE  /\ mandates' \in [PolicyId -> Mandate]
           /\ policyHashOf' \in [PolicyId -> PolicyHash \cup {NoHash}]
           /\ policyIdOfHash' \in [PolicyHash -> PolicyId \cup {NoId}]
           /\ authorizedCalls' \in [PolicyId -> SUBSET (Target \X Selector)]
           /\ authorizedNative' \in [PolicyId -> SUBSET Target]
<1>1. ASSUME NEW salt \in Salt, NEW t \in Terms, CreatePolicy(sender, salt, t)
      PROVE  /\ mandates' \in [PolicyId -> Mandate]
             /\ policyHashOf' \in [PolicyId -> PolicyHash \cup {NoHash}]
             /\ policyIdOfHash' \in [PolicyHash -> PolicyId \cup {NoId}]
             /\ authorizedCalls' \in [PolicyId -> SUBSET (Target \X Selector)]
             /\ authorizedNative' \in [PolicyId -> SUBSET Target]
  <2> DEFINE id == <<sender, salt>>
             hash == [id |-> id, terms |-> t]
  <2>1. id \in PolicyId /\ hash \in PolicyHash
    BY DEF PolicyId, PolicyHash
  <2>2. t \in TermsType /\ WellFormed(t)
    BY <1>1, PolicyAssumption DEF CreatePolicy
  <2>3. t.nativeTransferTargets \subseteq Target
    BY <2>2 DEF TermsType, WellFormed
  <2>4. t.calls \subseteq Target \X Selector
    <3>1. SUFFICES ASSUME NEW call \in t.calls PROVE call \in Target \X Selector
      OBVIOUS
    <3>2. call \in (Target \cup {ZeroAddress}) \X Selector
      BY <2>2 DEF TermsType
    <3>3. call[1] # ZeroAddress
      BY <2>2 DEF WellFormed
    <3> QED BY <3>2, <3>3
  <2>5. mandates' \in [PolicyId -> Mandate]
    BY <1>1, <2>1, <2>2 DEF CreatePolicy, Mandate, TermsType, Address, AgentAddress
  <2>6. /\ policyHashOf' \in [PolicyId -> PolicyHash \cup {NoHash}]
        /\ policyIdOfHash' \in [PolicyHash -> PolicyId \cup {NoId}]
    <3> HIDE DEF id, hash
    <3>1. /\ policyHashOf' = [policyHashOf EXCEPT ![id] = hash]
          /\ policyIdOfHash' = [policyIdOfHash EXCEPT ![hash] = id]
      BY <1>1 DEF CreatePolicy, id, hash
    <3> QED BY <2>1, <3>1
  <2>7. /\ authorizedCalls' \in [PolicyId -> SUBSET (Target \X Selector)]
        /\ authorizedNative' \in [PolicyId -> SUBSET Target]
    <3> HIDE DEF id, hash
    <3>1. /\ authorizedCalls' = [authorizedCalls EXCEPT ![id] = @ \cup t.calls]
          /\ authorizedNative' =
                [authorizedNative EXCEPT ![id] = @ \cup t.nativeTransferTargets]
      BY <1>1 DEF CreatePolicy, id, hash
    <3> QED BY <2>1, <2>3, <2>4, <3>1
  <2> QED BY <2>5, <2>6, <2>7
<1>2. ASSUME NEW id \in PolicyId, NEW active \in BOOLEAN,
             SetPolicyActive(sender, id, active)
      PROVE  /\ mandates' \in [PolicyId -> Mandate]
             /\ UNCHANGED <<policyHashOf, policyIdOfHash, authorizedCalls, authorizedNative>>
  BY <1>2 DEF SetPolicyActive, Mandate
<1> QED BY <1>1, <1>2 DEF PolicyStep, RevokePolicy, ReactivatePolicy

(* The initial storage of the registry is typed.                           *)
LEMMA PolicyInitType == PolicySpecInit => PolicyTypeOK
<1> SUFFICES ASSUME PolicySpecInit PROVE PolicyTypeOK
  OBVIOUS
<1>1. NoMandate \in Mandate
  BY DEF NoMandate, Mandate, Address, AgentAddress
<1>2. now \in 0..MaxTime
  BY PolicyAssumption DEF PolicySpecInit
<1> QED BY <1>1, <1>2 DEF PolicySpecInit, PolicyInit, PolicyTypeOK

(* Every step of the registry by itself keeps the types.                   *)
LEMMA PolicyNextType ==
    ASSUME PolicyTypeOK, [PolicyNext]_<<now, policyVars>>
    PROVE  PolicyTypeOK'
<1>1. ASSUME NEW sender \in Account, PolicyStep(sender), UNCHANGED now
      PROVE  PolicyTypeOK'
  BY <1>1, PolicyStepType DEF PolicyTypeOK
<1>2. CASE Tick /\ UNCHANGED policyVars
  BY <1>2, PolicyAssumption DEF Tick, policyVars, PolicyTypeOK
<1>3. CASE UNCHANGED <<now, policyVars>>
  BY <1>3 DEF policyVars, PolicyTypeOK
<1> QED BY <1>1, <1>2, <1>3 DEF PolicyNext

(* The registry's storage holds values of its types (PolicyRegistry.sol).  *)
THEOREM PolicyTypes == PolicySpec => []PolicyTypeOK
BY PolicyInitType, PolicyNextType, PTL DEF PolicySpec

-----------------------------------------------------------------------------
(***************************************************************************)
(* The two properties in one inductive invariant: besides what a hash      *)
(* commits to, the terms under a known hash have passed createPolicy.      *)
(***************************************************************************)
PolicyInv ==
    /\ HashCommitsToTerms
    /\ \A h \in PolicyHash : policyIdOfHash[h] # NoId => WellFormed(h.terms)

\* The mandate createPolicy stores for a sender and terms.
MandateOfTerms(sender, t, active) ==
    [owner |-> sender, agent |-> t.agent, active |-> active,
     maxTxValue |-> t.maxTxValue, dailyLimit |-> t.dailyLimit,
     approvalThreshold |-> t.approvalThreshold,
     validFrom |-> t.validFrom, validUntil |-> t.validUntil]

(* What the fields of a policy's hash are.                                 *)
LEMMA HashFields ==
    ASSUME NEW h \in PolicyHash
    PROVE  /\ h.id \in PolicyId /\ h.id[1] \in Account
           /\ h.terms \in Terms /\ h.terms \in TermsType
           /\ h # NoHash
BY PolicyAssumption DEF PolicyHash, PolicyId

(* The stored mandate of a known hash has an owner, so its id is not free. *)
LEMMA FreeIdIsEmpty ==
    ASSUME PolicyTypeOK, PolicyInv, NEW id \in PolicyId, policyOwner(id) = ZeroAddress
    PROVE  /\ policyHashOf[id] = NoHash
           /\ authorizedCalls[id] = {} /\ authorizedNative[id] = {}
           /\ \A h \in PolicyHash : policyIdOfHash[h] # NoId => h.id # id
<1>1. ASSUME NEW h \in PolicyHash, policyIdOfHash[h] # NoId
      PROVE  policyOwner(h.id) = h.id[1] /\ h.id[1] # ZeroAddress
  <2>1. Committed(h)
    BY <1>1 DEF PolicyInv, HashCommitsToTerms
  <2> QED BY <2>1, HashFields, ZeroAddressAssumption DEF Committed, policyOwner
<1>2. policyHashOf[id] = NoHash
  <2> SUFFICES ASSUME policyHashOf[id] # NoHash PROVE FALSE
    OBVIOUS
  <2>1. policyHashOf[id] \in PolicyHash
    BY DEF PolicyTypeOK
  <2>2. policyIdOfHash[policyHashOf[id]] = id /\ id # NoId
    BY PolicyAssumption DEF PolicyInv, HashCommitsToTerms
  <2>3. policyHashOf[id].id = id
    BY <2>1, <2>2 DEF PolicyInv, HashCommitsToTerms
  <2> QED BY <1>1, <2>1, <2>2, <2>3
<1>3. authorizedCalls[id] = {} /\ authorizedNative[id] = {}
  BY <1>2 DEF PolicyInv, HashCommitsToTerms
<1> QED BY <1>1, <1>2, <1>3

(* A new policy takes a free id, so nothing that was known changes.        *)
LEMMA CreateKeepsHashes ==
    ASSUME PolicyTypeOK, PolicyInv, NEW sender \in Account, NEW salt \in Salt,
           NEW t \in Terms, CreatePolicy(sender, salt, t)
    PROVE  PolicyInv'
<1> DEFINE id == <<sender, salt>>
           hash == [id |-> id, terms |-> t]
<1>1. id \in PolicyId /\ hash \in PolicyHash
      /\ hash.id = id /\ hash.terms = t /\ id[1] = sender
  BY DEF PolicyId, PolicyHash
<1>2. /\ policyOwner(id) = ZeroAddress
      /\ WellFormed(t)
      /\ authorizedCalls' = [authorizedCalls EXCEPT ![id] = @ \cup t.calls]
      /\ authorizedNative' = [authorizedNative EXCEPT ![id] = @ \cup t.nativeTransferTargets]
      /\ mandates' = [mandates EXCEPT ![id] = MandateOfTerms(sender, t, TRUE)]
      /\ policyHashOf' = [policyHashOf EXCEPT ![id] = hash]
      /\ policyIdOfHash' = [policyIdOfHash EXCEPT ![hash] = id]
  BY DEF CreatePolicy, IdIsFree, MandateOfTerms
<1> HIDE DEF id, hash
<1>3. /\ policyHashOf[id] = NoHash
      /\ authorizedCalls[id] = {} /\ authorizedNative[id] = {}
      /\ \A h \in PolicyHash : policyIdOfHash[h] # NoId => h.id # id
  BY <1>1, <1>2, FreeIdIsEmpty
<1>4. id # NoId /\ hash # NoHash
  BY <1>1, PolicyAssumption
<1>5. /\ mandates'[id] = MandateOfTerms(sender, t, TRUE)
      /\ policyHashOf'[id] = hash /\ policyIdOfHash'[hash] = id
      /\ authorizedCalls'[id] = t.calls
      /\ authorizedNative'[id] = t.nativeTransferTargets
  BY <1>1, <1>2, <1>3 DEF PolicyTypeOK
<1>6. \A j \in PolicyId : j # id =>
          /\ mandates'[j] = mandates[j] /\ policyHashOf'[j] = policyHashOf[j]
          /\ authorizedCalls'[j] = authorizedCalls[j]
          /\ authorizedNative'[j] = authorizedNative[j]
  BY <1>1, <1>2 DEF PolicyTypeOK
<1>7. \A h \in PolicyHash : h # hash => policyIdOfHash'[h] = policyIdOfHash[h]
  BY <1>1, <1>2 DEF PolicyTypeOK
<1>8. ASSUME NEW h \in PolicyHash, policyIdOfHash'[h] # NoId
      PROVE  policyIdOfHash'[h] = h.id /\ Committed(h)' /\ WellFormed(h.terms)
  <2>1. CASE h = hash
    <3>1. mandates'[id].active = TRUE
      BY <1>5 DEF MandateOfTerms
    <3> QED BY <1>1, <1>2, <1>5, <2>1, <3>1 DEF Committed, MandateOfTerms
  <2>2. CASE h # hash
    <3>1. policyIdOfHash[h] # NoId /\ policyIdOfHash'[h] = policyIdOfHash[h]
      BY <1>7, <1>8, <2>2
    <3>2. h.id \in PolicyId /\ h.id # id
      BY <1>3, <3>1, HashFields
    <3>3. policyIdOfHash[h] = h.id /\ Committed(h) /\ WellFormed(h.terms)
      BY <3>1 DEF PolicyInv, HashCommitsToTerms
    <3>4. Committed(h)'
      BY <1>6, <3>2, <3>3 DEF Committed
    <3> QED BY <3>1, <3>3, <3>4
  <2> QED BY <2>1, <2>2
<1>9. ASSUME NEW j \in PolicyId
      PROVE  IF policyHashOf'[j] = NoHash
             THEN mandates'[j] = NoMandate /\ authorizedCalls'[j] = {}
                      /\ authorizedNative'[j] = {}
             ELSE policyIdOfHash'[policyHashOf'[j]] = j
  <2>1. CASE j = id
    BY <1>4, <1>5, <2>1
  <2>2. CASE j # id /\ policyHashOf[j] = NoHash
    BY <1>6, <2>2 DEF PolicyInv, HashCommitsToTerms
  <2>3. CASE j # id /\ policyHashOf[j] # NoHash
    <3>1. policyHashOf[j] \in PolicyHash /\ policyIdOfHash[policyHashOf[j]] = j
      BY <2>3 DEF PolicyTypeOK, PolicyInv, HashCommitsToTerms
    <3>2. policyHashOf[j] # hash
      <4>1. j # NoId
        BY PolicyAssumption
      <4> QED BY <1>1, <1>3, <2>3, <3>1, <4>1
    <3> QED BY <1>6, <1>7, <2>3, <3>1, <3>2
  <2> QED BY <2>1, <2>2, <2>3
<1> QED BY <1>8, <1>9 DEF PolicyInv, HashCommitsToTerms

(* Revoking and reactivating touch the one field no hash is made from.     *)
LEMMA FlagKeepsHashes ==
    ASSUME PolicyTypeOK, PolicyInv, NEW sender \in Account, NEW id \in PolicyId,
           NEW active \in BOOLEAN, SetPolicyActive(sender, id, active)
    PROVE  PolicyInv'
<1>1. /\ policyOwner(id) # ZeroAddress
      /\ mandates' = [mandates EXCEPT ![id].active = active]
      /\ UNCHANGED <<policyHashOf, policyIdOfHash, authorizedCalls, authorizedNative>>
  BY DEF SetPolicyActive
<1>2. ASSUME NEW h \in PolicyHash, policyIdOfHash[h] # NoId
      PROVE  Committed(h)'
  <2>1. Committed(h) /\ h.id \in PolicyId
    BY <1>2, HashFields DEF PolicyInv, HashCommitsToTerms
  <2>2. CASE h.id # id
    <3>1. mandates'[h.id] = mandates[h.id]
      BY <1>1, <2>1, <2>2 DEF PolicyTypeOK
    <3> QED BY <1>1, <2>1, <3>1 DEF Committed
  <2>3. CASE h.id = id
    <3>1. mandates[id] = MandateOfTerms(h.id[1], h.terms, mandates[id].active)
      BY <2>1, <2>3 DEF Committed, MandateOfTerms
    <3>2. mandates'[id] = [mandates[id] EXCEPT !.active = active]
      BY <1>1, <2>1 DEF PolicyTypeOK
    <3>3. mandates'[id] = MandateOfTerms(h.id[1], h.terms, active)
      BY <3>1, <3>2 DEF MandateOfTerms
    <3>4. mandates'[id].active = active
      BY <3>3 DEF MandateOfTerms
    <3> QED BY <1>1, <2>1, <2>3, <3>3, <3>4 DEF Committed, MandateOfTerms
  <2> QED BY <2>2, <2>3
<1>3. ASSUME NEW j \in PolicyId, policyHashOf[j] = NoHash
      PROVE  mandates'[j] = NoMandate
  <2>1. mandates[j] = NoMandate
    BY <1>3 DEF PolicyInv, HashCommitsToTerms
  <2>2. j # id
    BY <1>1, <2>1 DEF policyOwner, NoMandate
  <2> QED BY <1>1, <2>1, <2>2 DEF PolicyTypeOK
<1> QED BY <1>1, <1>2, <1>3 DEF PolicyInv, HashCommitsToTerms

(* Nothing is known at the start.                                          *)
LEMMA PolicyInvInit == PolicySpecInit => PolicyInv
<1> SUFFICES ASSUME PolicySpecInit PROVE PolicyInv
  OBVIOUS
<1>1. \A h \in PolicyHash : policyIdOfHash[h] = NoId
  BY DEF PolicySpecInit, PolicyInit
<1>2. \A id \in PolicyId :
          /\ policyHashOf[id] = NoHash /\ mandates[id] = NoMandate
          /\ authorizedCalls[id] = {} /\ authorizedNative[id] = {}
  BY DEF PolicySpecInit, PolicyInit
<1> QED BY <1>1, <1>2 DEF PolicyInv, HashCommitsToTerms

(* Every operation on policies keeps what the hashes say.                  *)
LEMMA PolicyStepKeepsHashes ==
    ASSUME PolicyTypeOK, PolicyInv, NEW sender \in Account, PolicyStep(sender)
    PROVE  PolicyInv'
BY CreateKeepsHashes, FlagKeepsHashes DEF PolicyStep, RevokePolicy, ReactivatePolicy

(* What the registry's hashes say, in every state it reaches by itself.    *)
THEOREM PoliciesAreCommitted == PolicySpec => []PolicyInv
<1>1. PolicyTypeOK /\ PolicyInv /\ [PolicyNext]_<<now, policyVars>> => PolicyInv'
  <2> SUFFICES ASSUME PolicyTypeOK, PolicyInv, [PolicyNext]_<<now, policyVars>>
               PROVE  PolicyInv'
    OBVIOUS
  <2>1. CASE UNCHANGED policyVars
    BY <2>1 DEF policyVars, PolicyInv, HashCommitsToTerms, Committed
  <2> QED BY <2>1, PolicyStepKeepsHashes DEF PolicyNext
<1> QED BY <1>1, PolicyInvInit, PolicyTypes, PTL DEF PolicySpec

(***************************************************************************)
(* A hash in a signed intent means one thing for ever: the mandate and the *)
(* authorizations it resolves to are the terms it was made from, though    *)
(* the slots they accumulate in are never cleared (createPolicy).          *)
(***************************************************************************)
THEOREM HashesCommit == PolicySpec => []HashCommitsToTerms
BY PoliciesAreCommitted, PTL DEF PolicyInv

-----------------------------------------------------------------------------
(* A policy that was accepted, in its window and active, authorizes a call. *)
LEMMA CommittedIsUsable == PolicyTypeOK /\ PolicyInv => ActivePolicyIsUsable
<1> SUFFICES ASSUME PolicyTypeOK, PolicyInv, NEW h \in PolicyHash,
                    mandateOf(h).active,
                    now \in mandateOf(h).validFrom..mandateOf(h).validUntil
             PROVE  Usable(h)
  BY DEF ActivePolicyIsUsable
<1>1. policyIdOfHash[h] # NoId
  BY DEF mandateOf, NoMandate
<1>2. policyIdOfHash[h] = h.id /\ Committed(h) /\ WellFormed(h.terms)
  BY <1>1 DEF PolicyInv, HashCommitsToTerms
<1>3. h.terms \in TermsType /\ h.id \in PolicyId
  BY HashFields
<1>4. mandateOf(h) = MandateOfTerms(h.id[1], h.terms, mandateOf(h).active)
  BY <1>1, <1>2 DEF mandateOf, Committed, MandateOfTerms
<1>5. ASSUME NEW target, NEW kind, NEW value \in Nat,
             callAllowed(h, target, kind), value <= h.terms.maxTxValue
      PROVE  checkAuthorization(h, h.terms.agent, h.id[1], target, kind, value)
  <2>1. now \in Nat /\ mandateOf(h).validFrom \in Nat /\ mandateOf(h).validUntil \in Nat
    BY <1>3, <1>4, PolicyAssumption DEF MandateOfTerms, TermsType, PolicyTypeOK
  <2>2. withinWindow(mandateOf(h))
    BY <2>1 DEF withinWindow
  <2> QED BY <1>4, <1>5, <2>2 DEF checkAuthorization, MandateOfTerms
<1>6. h.terms.maxTxValue \in Nat
  BY <1>3 DEF TermsType
<1>7. CASE h.terms.calls # {}
  <2>1. PICK c \in h.terms.calls : TRUE
    BY <1>7
  <2>2. c \in (Target \cup {ZeroAddress}) \X Selector /\ c[1] # ZeroAddress
    BY <1>2, <1>3 DEF TermsType, WellFormed
  <2>3. c[1] \in Target /\ c[2] \in Selector /\ c = <<c[1], c[2]>>
    BY <2>2
  <2>4. c[2] # NativeTransfer /\ c[2] \in CallKind
    BY <2>3, PolicyAssumption DEF CallKind
  <2>5. callAllowed(h, c[1], c[2])
    BY <1>1, <1>2, <2>1, <2>3 DEF callAllowed, Committed
  <2>6. checkAuthorization(h, h.terms.agent, h.id[1], c[1], c[2], 0)
    BY <1>5, <1>6, <2>5
  <2> QED BY <2>3, <2>4, <2>6 DEF Usable
<1>8. CASE h.terms.nativeTransferTargets # {}
  <2>1. PICK target \in h.terms.nativeTransferTargets : TRUE
    BY <1>8
  <2>2. target \in Target /\ NativeTransfer \in CallKind
    BY <1>2, <1>3 DEF TermsType, WellFormed, CallKind
  <2>3. callAllowed(h, target, NativeTransfer)
    BY <1>1, <1>2, <2>1 DEF callAllowed, Committed
  <2>4. 1 <= h.terms.maxTxValue
    BY <1>2, <1>6, <1>8 DEF WellFormed
  <2>5. /\ checkAuthorization(h, h.terms.agent, h.id[1], target, NativeTransfer, 0)
        /\ checkAuthorization(h, h.terms.agent, h.id[1], target, NativeTransfer, 1)
    BY <1>5, <1>6, <2>3, <2>4
  <2> QED BY <2>2, <2>5 DEF Usable
<1> QED BY <1>2, <1>7, <1>8 DEF WellFormed

(***************************************************************************)
(* createPolicy turns down misconfigurations: an active policy authorizes  *)
(* a call, one of real value if it is a native transfer, all through its   *)
(* validity window (lines 155-157, 179-190).                               *)
(***************************************************************************)
THEOREM PoliciesAreUsable == PolicySpec => []ActivePolicyIsUsable
BY PolicyTypes, PoliciesAreCommitted, CommittedIsUsable, PTL

-----------------------------------------------------------------------------

USE ZeroAddressAssumption, WalletAssumption, RegistryAssumption

-----------------------------------------------------------------------------
(* Every value a wallet pays leaves both balances in range.                *)
LEMMA PayType ==
    ASSUME WalletTypeOK,
           NEW w \in Wallet, NEW to,
           NEW amount \in Nat, CanPay(w, to, amount)
    PROVE  Pay(w, to, amount) \in [Wallet -> WalletRecord]
<1> DEFINE debited == [wallets EXCEPT ![w].balance = @ - amount]
<1>1. debited \in [Wallet -> WalletRecord]
  BY DEF WalletTypeOK, WalletRecord, CanPay
<1>2. CASE to \in Wallet
  <2>1. debited[to].balance + amount \in 0..MaxBalance
    BY <1>2 DEF WalletTypeOK, WalletRecord, CanPay
  <2>2. [debited EXCEPT ![to].balance = @ + amount] \in [Wallet -> WalletRecord]
    BY <1>1, <1>2, <2>1 DEF WalletRecord
  <2> QED BY <1>2, <2>2 DEF Pay
<1>3. CASE to \notin Wallet
  BY <1>1, <1>3 DEF Pay
<1> QED BY <1>2, <1>3

(* A wallet operation keeps the types of the wallets' storage.             *)
LEMMA WalletStepType ==
    ASSUME WalletTypeOK, NEW sender \in Account, WalletStep(sender)
    PROVE  WalletTypeOK'
<1>1. PICK w \in Wallet :
        \/ \E o \in Address, g \in GuardAddress, a \in Agent : Deploy(w, o, g, a)
        \/ \E amount \in 1..MaxBalance : Receive(w, amount)
        \/ \E newOwner \in Address : TransferWalletOwnership(sender, w, newOwner)
        \/ \E to \in Account \cup Wallet, amount \in 1..MaxBalance :
              \/ RecoverNative(sender, w, to, amount)
              \/ Execute(sender, w, to, amount)
  BY DEF WalletStep
<1>2. ASSUME NEW o \in Address, NEW g \in GuardAddress, NEW a \in Agent,
             Deploy(w, o, g, a)
      PROVE  WalletTypeOK'
  BY <1>2 DEF Deploy, WalletTypeOK, WalletRecord, AgentAddress
<1>3. ASSUME NEW amount \in 1..MaxBalance, Receive(w, amount)
      PROVE  WalletTypeOK'
  <2>1. wallets[w].balance + amount \in 0..MaxBalance
    BY <1>3 DEF Receive, WalletTypeOK, WalletRecord
  <2> QED BY <1>3, <2>1 DEF Receive, WalletTypeOK, WalletRecord
<1>4. ASSUME NEW newOwner \in Address, TransferWalletOwnership(sender, w, newOwner)
      PROVE  WalletTypeOK'
  BY <1>4 DEF TransferWalletOwnership, WalletTypeOK, WalletRecord
<1>5. ASSUME NEW to \in Account \cup Wallet, NEW amount \in 1..MaxBalance,
             RecoverNative(sender, w, to, amount) \/ Execute(sender, w, to, amount)
      PROVE  WalletTypeOK'
  <2>1. CanPay(w, to, amount) /\ wallets' = Pay(w, to, amount)
    BY <1>5 DEF RecoverNative, Execute, CanExecute
  <2> QED BY <2>1, PayType DEF WalletTypeOK
<1> QED BY <1>1, <1>2, <1>3, <1>4, <1>5

(* A wallet's agent, once there, stays: code is never removed or replaced. *)
LEMMA WalletAgentStays ==
    ASSUME WalletTypeOK, NEW sender \in Account, WalletStep(sender),
           NEW v \in Wallet, HasCode(v)
    PROVE  HasCode(v)' /\ wallets'[v].agent = wallets[v].agent
<1>1. PICK w \in Wallet :
        \/ \E o \in Address, g \in GuardAddress, a \in Agent : Deploy(w, o, g, a)
        \/ \E amount \in 1..MaxBalance : Receive(w, amount)
        \/ \E newOwner \in Address : TransferWalletOwnership(sender, w, newOwner)
        \/ \E to \in Account \cup Wallet, amount \in 1..MaxBalance :
              \/ RecoverNative(sender, w, to, amount)
              \/ Execute(sender, w, to, amount)
  BY DEF WalletStep
<1>2. CASE \E o \in Address, g \in GuardAddress, a \in Agent : Deploy(w, o, g, a)
  BY <1>2 DEF Deploy, HasCode, WalletTypeOK, WalletRecord
<1>3. CASE \E amount \in 1..MaxBalance : Receive(w, amount)
  BY <1>3 DEF Receive, HasCode, WalletTypeOK, WalletRecord
<1>4. CASE \E newOwner \in Address : TransferWalletOwnership(sender, w, newOwner)
  BY <1>4 DEF TransferWalletOwnership, HasCode, WalletTypeOK, WalletRecord
<1>5. ASSUME NEW to \in Account \cup Wallet, NEW amount \in 1..MaxBalance,
             RecoverNative(sender, w, to, amount) \/ Execute(sender, w, to, amount)
      PROVE  wallets'[v].agent = wallets[v].agent
  BY <1>5 DEF RecoverNative, Execute, Pay, WalletTypeOK, WalletRecord
<1> QED BY <1>1, <1>2, <1>3, <1>4, <1>5 DEF HasCode

(* A registry operation keeps the types of the registry's storage.         *)
LEMMA RegistryStepType ==
    ASSUME RegistryTypeOK, NEW sender \in Account, RegistryStep(sender)
    PROVE  RegistryTypeOK'
<1>1. PICK a \in Agent :
        \/ \E o \in Address : Register(a, o)
        \/ Deactivate(sender, a)
        \/ Reactivate(sender, a)
        \/ \E newOwner \in Address : TransferAgentOwnership(sender, a, newOwner)
        \/ \E w \in Wallet : BindWallet(sender, a, w)
        \/ \E guardian \in Guardian : SetRecoveryGuardian(sender, a, guardian)
        \/ ExecuteRecovery(sender, a)
  BY DEF RegistryStep
<1> DEFINE r == agents[a]
<1>2. /\ agents \in [Agent -> AgentRecord]
      /\ r \in AgentRecord
      /\ r.ownershipVersion \in 0..MaxVersion
  BY DEF RegistryTypeOK, AgentRecord
<1>3. SUFFICES ASSUME NEW n, n \in AgentRecord, agents' = [agents EXCEPT ![a] = n]
               PROVE  RegistryTypeOK'
  <2>1. SUFFICES \E n \in AgentRecord : agents' = [agents EXCEPT ![a] = n]
    OBVIOUS
  <2>2. ASSUME NEW o \in Address, Register(a, o)
        PROVE  \E n \in AgentRecord : agents' = [agents EXCEPT ![a] = n]
    <3> DEFINE n == [Unregistered EXCEPT !.owner = o, !.active = TRUE]
    <3>1. n \in AgentRecord
      <4>1. 0 \in 0..MaxVersion
        BY RegistryAssumption
      <4> QED BY <4>1 DEF Unregistered, AgentRecord, Address, AgentAddress
    <3> QED BY <2>2, <3>1 DEF Register
  <2>3. CASE Deactivate(sender, a)
    <3>1. [r EXCEPT !.active = FALSE] \in AgentRecord
      BY <1>2 DEF AgentRecord
    <3> QED BY <1>2, <2>3, <3>1 DEF Deactivate
  <2>4. CASE Reactivate(sender, a)
    <3>1. [r EXCEPT !.active = TRUE, !.activatedIn = r.ownershipVersion] \in AgentRecord
      BY <1>2 DEF AgentRecord
    <3> QED BY <1>2, <2>4, <3>1 DEF Reactivate, ownershipVersion
  <2>5. ASSUME NEW newOwner \in Address, TransferAgentOwnership(sender, a, newOwner)
        PROVE  \E n \in AgentRecord : agents' = [agents EXCEPT ![a] = n]
    <3>1. r.ownershipVersion + 1 \in 0..MaxVersion
      BY <1>2, <2>5 DEF TransferAgentOwnership, ownershipVersion
    <3>2. HandedOver(r, newOwner) \in AgentRecord
      BY <1>2, <3>1 DEF AgentRecord, HandedOver, Address, AgentAddress
    <3> QED BY <1>2, <2>5, <3>2 DEF TransferAgentOwnership
  <2>6. ASSUME NEW w \in Wallet, BindWallet(sender, a, w)
        PROVE  \E n \in AgentRecord : agents' = [agents EXCEPT ![a] = n]
    <3>1. [r EXCEPT !.wallet = w] \in AgentRecord
      BY <1>2 DEF AgentRecord
    <3> QED BY <1>2, <2>6, <3>1 DEF BindWallet
  <2>7. ASSUME NEW guardian \in Guardian, SetRecoveryGuardian(sender, a, guardian)
        PROVE  \E n \in AgentRecord : agents' = [agents EXCEPT ![a] = n]
    <3>1. [r EXCEPT !.recoveryAgent = guardian, !.guardianFrom = r.ownershipVersion]
             \in AgentRecord
      BY <1>2 DEF AgentRecord, Address, AgentAddress
    <3> QED BY <1>2, <2>7, <3>1 DEF SetRecoveryGuardian, ownershipVersion
  <2>8. CASE ExecuteRecovery(sender, a)
    <3>1. [r EXCEPT !.active = FALSE] \in AgentRecord
      BY <1>2 DEF AgentRecord
    <3> QED BY <1>2, <2>8, <3>1 DEF ExecuteRecovery
  <2> QED BY <1>1, <2>2, <2>3, <2>4, <2>5, <2>6, <2>7, <2>8
<1> QED BY <1>2, <1>3 DEF RegistryTypeOK

(* A registry operation leaves authority with the present epoch.           *)
LEMMA RegistryStepAuthority ==
    ASSUME RegistryTypeOK, AuthorityOfThisEpoch,
           NEW sender \in Account, RegistryStep(sender)
    PROVE  AuthorityOfThisEpoch'
<1>1. PICK a \in Agent :
        \/ \E o \in Address : Register(a, o)
        \/ Deactivate(sender, a)
        \/ Reactivate(sender, a)
        \/ \E newOwner \in Address : TransferAgentOwnership(sender, a, newOwner)
        \/ \E w \in Wallet : BindWallet(sender, a, w)
        \/ \E guardian \in Guardian : SetRecoveryGuardian(sender, a, guardian)
        \/ ExecuteRecovery(sender, a)
  BY DEF RegistryStep
<1> USE DEF RegistryTypeOK, AgentRecord, AuthorityOfThisEpoch, isActiveAgent,
            ownershipVersion
<1>2. CASE \E o \in Address : Register(a, o)
  BY <1>2 DEF Register, Unregistered
<1>3. CASE Deactivate(sender, a)
  BY <1>3 DEF Deactivate
<1>4. CASE Reactivate(sender, a)
  BY <1>4 DEF Reactivate
<1>5. CASE \E newOwner \in Address : TransferAgentOwnership(sender, a, newOwner)
  BY <1>5 DEF TransferAgentOwnership, HandedOver
<1>6. CASE \E w \in Wallet : BindWallet(sender, a, w)
  BY <1>6 DEF BindWallet
<1>7. CASE \E guardian \in Guardian : SetRecoveryGuardian(sender, a, guardian)
  BY <1>7 DEF SetRecoveryGuardian
<1>8. CASE ExecuteRecovery(sender, a)
  BY <1>8 DEF ExecuteRecovery
<1> QED BY <1>1, <1>2, <1>3, <1>4, <1>5, <1>6, <1>7, <1>8
-----------------------------------------------------------------------------
(* The storage of the registry and of the wallets always has its types;    *)
(* the version of an agent stays in uint64.                                *)
THEOREM CustodyTypes == CustodySpec => []CustodyTypeOK
<1>1. CustodyInit => CustodyTypeOK
  <2>1. ASSUME WalletInit PROVE WalletTypeOK
    BY <2>1 DEF WalletInit, WalletTypeOK, WalletRecord, Undeployed, Address, AgentAddress
  <2>2. ASSUME RegistryInit PROVE RegistryTypeOK
    <3>1. 0 \in 0..MaxVersion
      BY RegistryAssumption
    <3>2. Unregistered \in AgentRecord
      BY <3>1 DEF AgentRecord, Unregistered, Address, AgentAddress
    <3> QED BY <2>2, <3>2 DEF RegistryInit, RegistryTypeOK
  <2> QED BY <2>1, <2>2 DEF CustodyInit, CustodyTypeOK
<1>2. CustodyTypeOK /\ [CustodyNext]_custodyVars => CustodyTypeOK'
  <2> SUFFICES ASSUME CustodyTypeOK, [CustodyNext]_custodyVars PROVE CustodyTypeOK'
    OBVIOUS
  <2> USE DEF CustodyTypeOK
  <2>1. ASSUME NEW sender \in Account, WalletStep(sender), UNCHANGED agents
        PROVE  CustodyTypeOK'
    BY <2>1, WalletStepType DEF RegistryTypeOK
  <2>2. ASSUME NEW sender \in Account, RegistryStep(sender), UNCHANGED wallets
        PROVE  CustodyTypeOK'
    BY <2>2, RegistryStepType DEF WalletTypeOK
  <2>3. CASE UNCHANGED custodyVars
    BY <2>3 DEF custodyVars, WalletTypeOK, RegistryTypeOK
  <2> QED BY <2>1, <2>2, <2>3 DEF CustodyNext
<1> QED BY <1>1, <1>2, PTL DEF CustodySpec

(* An active agent was activated, and its guardian named, by the owner of  *)
(* the present epoch: no authority outlives a handoff.                     *)
THEOREM AuthorityEndsWithEpoch == CustodySpec => []AuthorityOfThisEpoch
<1>1. CustodyInit => AuthorityOfThisEpoch
  BY DEF CustodyInit, RegistryInit, Unregistered, AuthorityOfThisEpoch, isActiveAgent
<1>2. CustodyTypeOK /\ AuthorityOfThisEpoch /\ [CustodyNext]_custodyVars
          => AuthorityOfThisEpoch'
  <2> SUFFICES ASSUME CustodyTypeOK, AuthorityOfThisEpoch, [CustodyNext]_custodyVars
               PROVE  AuthorityOfThisEpoch'
    OBVIOUS
  <2>1. CASE UNCHANGED agents
    BY <2>1 DEF AuthorityOfThisEpoch, isActiveAgent, ownershipVersion
  <2>2. ASSUME NEW sender \in Account, RegistryStep(sender)
        PROVE  AuthorityOfThisEpoch'
    BY <2>2, RegistryStepAuthority DEF CustodyTypeOK
  <2> QED BY <2>1, <2>2 DEF CustodyNext, custodyVars
<1> QED BY <1>1, <1>2, CustodyTypes, PTL DEF CustodySpec

(* What makes CanonicalWallet inductive: only the first half of it, from   *)
(* which the second follows, since a wallet has one agent.                 *)
BoundToAgent(a) ==
    walletOf(a) # ZeroAddress => HasCode(walletOf(a)) /\ wallets[walletOf(a)].agent = a

LEMMA BoundIsCanonical == (\A a \in Agent : BoundToAgent(a)) => CanonicalWallet
BY DEF CanonicalWallet, BoundToAgent

(* A step that takes the code of no wallet leaves bound wallets bound.     *)
LEMMA WalletsKeepBound ==
    ASSUME RegistryTypeOK, NEW a \in Agent, BoundToAgent(a), UNCHANGED agents,
           \A v \in Wallet : HasCode(v) => wallets'[v].agent = wallets[v].agent
    PROVE  BoundToAgent(a)'
<1>1. walletOf(a)' = walletOf(a) /\ walletOf(a) \in Wallet \cup {ZeroAddress}
  BY DEF walletOf, RegistryTypeOK, AgentRecord
<1> QED BY <1>1 DEF BoundToAgent, HasCode

(* The registry binds an agent's own wallets, and never rebinds one.       *)
LEMMA RegistryKeepsBound ==
    ASSUME CustodyTypeOK, NEW a \in Agent, BoundToAgent(a),
           NEW sender \in Account, RegistryStep(sender), UNCHANGED wallets
    PROVE  BoundToAgent(a)'
<1>1. PICK b \in Agent :
        \/ \E o \in Address : Register(b, o)
        \/ Deactivate(sender, b)
        \/ Reactivate(sender, b)
        \/ \E newOwner \in Address : TransferAgentOwnership(sender, b, newOwner)
        \/ \E w \in Wallet : BindWallet(sender, b, w)
        \/ \E guardian \in Guardian : SetRecoveryGuardian(sender, b, guardian)
        \/ ExecuteRecovery(sender, b)
  BY DEF RegistryStep
<1> USE DEF CustodyTypeOK, RegistryTypeOK, AgentRecord, walletOf
<1>2. ASSUME NEW w \in Wallet, BindWallet(sender, b, w)
      PROVE  \/ walletOf(a)' = walletOf(a)
             \/ walletOf(a)' = w /\ HasCode(w) /\ wallets[w].agent = a
  BY <1>2 DEF BindWallet
<1>3. ASSUME NEW o \in Address, Register(b, o)
      PROVE  walletOf(a)' = walletOf(a) \/ walletOf(a)' = ZeroAddress
  BY <1>3 DEF Register, Unregistered
<1>4. ASSUME Deactivate(sender, b) \/ Reactivate(sender, b) \/ ExecuteRecovery(sender, b)
      PROVE  walletOf(a)' = walletOf(a)
  BY <1>4 DEF Deactivate, Reactivate, ExecuteRecovery
<1>5. ASSUME NEW newOwner \in Address, TransferAgentOwnership(sender, b, newOwner)
      PROVE  walletOf(a)' = walletOf(a)
  BY <1>5 DEF TransferAgentOwnership, HandedOver
<1>6. ASSUME NEW guardian \in Guardian, SetRecoveryGuardian(sender, b, guardian)
      PROVE  walletOf(a)' = walletOf(a)
  BY <1>6 DEF SetRecoveryGuardian
<1>7. \/ walletOf(a)' \in {walletOf(a), ZeroAddress}
      \/ HasCode(walletOf(a)') /\ wallets[walletOf(a)'].agent = a
  BY <1>1, <1>2, <1>3, <1>4, <1>5, <1>6
<1> QED BY <1>7 DEF HasCode, BoundToAgent

(* A bound wallet is a deployed wallet of its agent, and of no other one   *)
(* (bindWallet): no two agents ever draw on one wallet.                    *)
THEOREM WalletIsCanonical == CustodySpec => []CanonicalWallet
<1> DEFINE Bound == \A a \in Agent : BoundToAgent(a)
<1>1. CustodyInit => Bound
  BY DEF CustodyInit, RegistryInit, Unregistered, walletOf, BoundToAgent
<1>2. CustodyTypeOK /\ Bound /\ [CustodyNext]_custodyVars => Bound'
  <2> SUFFICES ASSUME CustodyTypeOK, Bound, [CustodyNext]_custodyVars, NEW a \in Agent
               PROVE  BoundToAgent(a)'
    OBVIOUS
  <2>1. ASSUME NEW sender \in Account, WalletStep(sender), UNCHANGED agents
        PROVE  BoundToAgent(a)'
    BY <2>1, WalletAgentStays, WalletsKeepBound DEF CustodyTypeOK
  <2>2. ASSUME NEW sender \in Account, RegistryStep(sender), UNCHANGED wallets
        PROVE  BoundToAgent(a)'
    BY <2>2, RegistryKeepsBound
  <2>3. CASE UNCHANGED custodyVars
    BY <2>3 DEF custodyVars, walletOf, HasCode, BoundToAgent
  <2> QED BY <2>1, <2>2, <2>3 DEF CustodyNext
<1> QED BY <1>1, <1>2, CustodyTypes, BoundIsCanonical, PTL DEF CustodySpec

(* What a registry operation does to one agent's owner, version and wallet *)
(* once the agent is registered.                                           *)
LEMMA RegistryStepEpoch ==
    ASSUME RegistryTypeOK, NEW sender \in Account, RegistryStep(sender),
           NEW a \in Agent, UNCHANGED wallets
    PROVE  \/ /\ ownerOf(a)' = ownerOf(a)
              /\ ownershipVersion(a)' = ownershipVersion(a)
              /\ \/ walletOf(a)' = walletOf(a)
                 \/ walletOf(a) = ZeroAddress /\ CustodyAgrees(a)'
           \/ /\ ownerOf(a) = ZeroAddress
              /\ ownershipVersion(a)' = 0
              /\ walletOf(a)' = ZeroAddress
           \/ /\ ownerOf(a)' # ownerOf(a)
              /\ ownershipVersion(a)' = ownershipVersion(a) + 1
              /\ walletOf(a)' = walletOf(a)
              /\ CustodyMoved(a, ownerOf(a)')
<1> DEFINE Same == /\ ownerOf(a)' = ownerOf(a)
                   /\ ownershipVersion(a)' = ownershipVersion(a)
           Kept == Same /\ walletOf(a)' = walletOf(a)
           Bound == Same /\ walletOf(a) = ZeroAddress /\ CustodyAgrees(a)'
           Created == /\ ownerOf(a) = ZeroAddress
                      /\ ownershipVersion(a)' = 0
                      /\ walletOf(a)' = ZeroAddress
           Handed == /\ ownerOf(a)' # ownerOf(a)
                     /\ ownershipVersion(a)' = ownershipVersion(a) + 1
                     /\ walletOf(a)' = walletOf(a)
                     /\ CustodyMoved(a, ownerOf(a)')
<1>1. PICK b \in Agent :
        \/ \E o \in Address : Register(b, o)
        \/ Deactivate(sender, b)
        \/ Reactivate(sender, b)
        \/ \E newOwner \in Address : TransferAgentOwnership(sender, b, newOwner)
        \/ \E w \in Wallet : BindWallet(sender, b, w)
        \/ \E guardian \in Guardian : SetRecoveryGuardian(sender, b, guardian)
        \/ ExecuteRecovery(sender, b)
  BY DEF RegistryStep
<1>2. SUFFICES Kept \/ Bound \/ Created \/ Handed
  OBVIOUS
<1>3. ASSUME NEW o \in Address, Register(b, o) PROVE Kept \/ Created
  BY <1>3 DEF Register, Unregistered, RegistryTypeOK, AgentRecord, walletOf, ownerOf,
     ownershipVersion
<1> USE DEF RegistryTypeOK, AgentRecord, walletOf, ownerOf, ownershipVersion
<1>4. ASSUME Deactivate(sender, b) \/ Reactivate(sender, b) \/ ExecuteRecovery(sender, b)
      PROVE  Kept
  BY <1>4 DEF Deactivate, Reactivate, ExecuteRecovery
<1>5. ASSUME NEW newOwner \in Address, TransferAgentOwnership(sender, b, newOwner)
      PROVE  Kept \/ Handed
  BY <1>5 DEF TransferAgentOwnership, HandedOver
<1>6. ASSUME NEW w \in Wallet, BindWallet(sender, b, w) PROVE Kept \/ Bound
  BY <1>6 DEF BindWallet, OnlyOwner, CustodyAgrees
<1>7. ASSUME NEW guardian \in Guardian, SetRecoveryGuardian(sender, b, guardian)
      PROVE  Kept
  BY <1>7 DEF SetRecoveryGuardian
<1> HIDE DEF Kept, Bound, Created, Handed
<1> QED BY <1>1, <1>3, <1>4, <1>5, <1>6, <1>7

(* Ownership, version and wallet of a registered agent change only forward.*)
THEOREM EpochsOnlyForward == CustodySpec => EpochsMoveForward
<1> DEFINE Step(a) ==
      ownerOf(a) # ZeroAddress =>
          /\ ownershipVersion(a)' = ownershipVersion(a)
                 + (IF ownerOf(a)' = ownerOf(a) THEN 0 ELSE 1)
          /\ walletOf(a) # ZeroAddress => walletOf(a)' = walletOf(a)
<1>1. CustodyTypeOK /\ [CustodyNext]_custodyVars => [\A a \in Agent : Step(a)]_custodyVars
  <2> SUFFICES ASSUME CustodyTypeOK, CustodyNext, NEW a \in Agent PROVE Step(a)
    OBVIOUS
  <2>1. ownershipVersion(a) \in Nat
    BY RegistryAssumption DEF CustodyTypeOK, RegistryTypeOK, AgentRecord, ownershipVersion
  <2>2. CASE UNCHANGED agents
    BY <2>1, <2>2 DEF ownerOf, ownershipVersion, walletOf
  <2>3. ASSUME NEW sender \in Account, RegistryStep(sender), UNCHANGED wallets
        PROVE  Step(a)
    BY <2>1, <2>3, RegistryStepEpoch DEF CustodyTypeOK
  <2> QED BY <2>2, <2>3 DEF CustodyNext
<1> QED BY <1>1, CustodyTypes, PTL DEF CustodySpec, EpochsMoveForward

(* A handoff leaves the wallet with the new owner, and only the wallet's   *)
(* own steps take the two owners apart.                                    *)
THEOREM HandoffsKeepCustody == CustodySpec => HandoffKeepsCustody
<1> DEFINE Step(a) ==
      /\ ownershipVersion(a)' # ownershipVersion(a) => CustodyAgrees(a)'
      /\ CustodyAgrees(a) /\ ~CustodyAgrees(a)' => UNCHANGED agents
<1>1. CustodyTypeOK /\ [CustodyNext]_custodyVars => [\A a \in Agent : Step(a)]_custodyVars
  <2> SUFFICES ASSUME CustodyTypeOK, CustodyNext, NEW a \in Agent PROVE Step(a)
    OBVIOUS
  <2>1. CASE UNCHANGED agents
    BY <2>1 DEF ownershipVersion
  <2>2. ASSUME NEW sender \in Account, RegistryStep(sender), UNCHANGED wallets
        PROVE  Step(a)
    <3> USE DEF CustodyAgrees, CustodyMoved
    <3>1. CASE /\ ownerOf(a)' = ownerOf(a)
               /\ ownershipVersion(a)' = ownershipVersion(a)
               /\ walletOf(a)' = walletOf(a)
      BY <2>2, <3>1
    <3>2. CASE ownershipVersion(a)' = ownershipVersion(a) /\ CustodyAgrees(a)'
      BY <3>2
    <3>3. CASE walletOf(a)' = ZeroAddress
      BY <3>3
    <3>4. CASE walletOf(a)' = walletOf(a) /\ CustodyMoved(a, ownerOf(a)')
      BY <2>2, <3>4
    <3> QED BY <2>2, <3>1, <3>2, <3>3, <3>4, RegistryStepEpoch DEF CustodyTypeOK
  <2> QED BY <2>1, <2>2 DEF CustodyNext
<1> QED BY <1>1, CustodyTypes, PTL DEF CustodySpec, HandoffKeepsCustody
=============================================================================
