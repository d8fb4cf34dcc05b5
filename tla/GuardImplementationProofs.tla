--------------------- MODULE GuardImplementationProofs ---------------------
(***************************************************************************)
(* The contracts implement the mandate: initial states map to initial      *)
(* states, and every step maps to a step of the mandate or to none.  With  *)
(* the epoch facts that takes, the nonces' two other properties follow:    *)
(* they stay in their epoch, and those used up are those in the log.       *)
(***************************************************************************)
EXTENDS GuardImplementation, GuardProofs

-----------------------------------------------------------------------------
(***************************************************************************)
(* What the mapping needs of the epochs: only registered agents have left  *)
(* version 0, so that registering an agent never takes its version back;   *)
(* while a target runs, versions only grow; and the execution in progress  *)
(* carries the nonce that was free when it began and has used it up.       *)
(***************************************************************************)
FreshAgents(records) ==
    \A b \in Agent : records[b].owner = ZeroAddress => records[b].ownershipVersion = 0

EpochInv ==
    /\ FreshAgents(agents)
    /\ frame # NoFrame =>
           /\ FreshAgents(frame.saved.agents)
           /\ \A b \in Agent :
                  frame.saved.agents[b].ownershipVersion <= ownershipVersion(b)
           /\ frame.intent.nonce = CommittedNextNonce[frame.intent.agent]
           /\ storedNonce = [frame.saved.storedNonce EXCEPT
                                ![frame.intent.agent] = frame.intent.nonce + 1]

(* Versions of both storages are numbers.                                  *)
LEMMA VersionsTyped ==
    ASSUME TypeOK, NEW b \in Agent
    PROVE  /\ ownershipVersion(b) \in Nat
           /\ storedNonce[b] \in Nat
           /\ frame # NoFrame => /\ frame.saved.agents[b].ownershipVersion \in Nat
                                 /\ frame.saved.storedNonce[b] \in Nat
<1>1. \A v \in 0..MaxVersion : v \in Nat
  BY RegistryAssumption
<1>2. ownershipVersion(b) \in Nat /\ storedNonce[b] \in Nat
  BY <1>1, StorageTyped DEF TypeOK, RegistryTypeOK, AgentRecord, ownershipVersion
<1>3. ASSUME frame # NoFrame
      PROVE  /\ frame.saved.agents[b].ownershipVersion \in Nat
             /\ frame.saved.storedNonce[b] \in Nat
  <2>1. frame.saved \in StorageType
    BY <1>3, FrameTyped
  <2>2. /\ frame.saved.agents \in [Agent -> AgentRecord]
        /\ frame.saved.storedNonce \in [Agent -> Nat]
    BY <2>1 DEF StorageType
  <2>3. frame.saved.agents[b] \in AgentRecord
    BY <2>2
  <2> QED BY <1>1, <2>2, <2>3 DEF AgentRecord
<1> QED BY <1>2, <1>3

(* The free nonce is a number that grows with the counter and the epoch.   *)
LEMMA NonceInEpochGrows ==
    ASSUME NEW s \in Nat, NEW t \in Nat, NEW v \in Nat, NEW w \in Nat, s <= t, v <= w
    PROVE  /\ NonceInEpoch(s, v) \in Nat
           /\ NonceInEpoch(s, v) >= s
           /\ NonceInEpoch(s, v) <= NonceInEpoch(t, w)
<1>1. v * SeqSpan \in Nat /\ w * SeqSpan \in Nat
  BY GuardAssumption
<1>2. v * SeqSpan <= w * SeqSpan
  <2>1. PICK u \in Nat : u = SeqSpan
    BY GuardAssumption
  <2>2. PICK x \in Nat : w = v + x
    <3>1. w - v \in Nat /\ w = v + (w - v)
      OBVIOUS
    <3> QED BY <3>1
  <2>3. w * u = v * u + x * u /\ x * u \in Nat /\ v * u \in Nat
    BY <2>2
  <2> QED BY <2>1, <2>3
<1> QED BY <1>1, <1>2 DEF NonceInEpoch

(* A registry operation never takes a version back.                        *)
LEMMA RegistryStepFresh ==
    ASSUME RegistryTypeOK, FreshAgents(agents), NEW sender \in Account,
           RegistryStep(sender), UNCHANGED wallets
    PROVE  /\ FreshAgents(agents)'
           /\ \A b \in Agent : ownershipVersion(b) <= ownershipVersion(b)'
<1> SUFFICES ASSUME NEW b \in Agent
             PROVE  /\ ownershipVersion(b) <= ownershipVersion(b)'
                    /\ ownerOf(b)' = ZeroAddress => ownershipVersion(b)' = 0
  BY DEF FreshAgents, ownerOf, ownershipVersion
<1>1. ownershipVersion(b) \in Nat
  BY RegistryAssumption DEF RegistryTypeOK, AgentRecord, ownershipVersion
<1>2. ownerOf(b) = ZeroAddress => ownershipVersion(b) = 0
  BY DEF FreshAgents, ownerOf, ownershipVersion
<1>3. ownerOf(b)' = ZeroAddress => ownerOf(b) = ZeroAddress
  <2>1. PICK x \in Agent :
          \/ \E o \in Address : Register(x, o)
          \/ Deactivate(sender, x)
          \/ Reactivate(sender, x)
          \/ \E newOwner \in Address : TransferAgentOwnership(sender, x, newOwner)
          \/ \E w \in Wallet : BindWallet(sender, x, w)
          \/ \E guardian \in Guardian : SetRecoveryGuardian(sender, x, guardian)
          \/ ExecuteRecovery(sender, x)
    BY DEF RegistryStep
  <2> USE DEF RegistryTypeOK, AgentRecord, ownerOf
  <2>2. ASSUME NEW o \in Address, Register(x, o)
        PROVE  ownerOf(b)' \in {ownerOf(b), o} /\ o # ZeroAddress
    BY <2>2 DEF Register, Unregistered
  <2>3. ASSUME NEW newOwner \in Address, TransferAgentOwnership(sender, x, newOwner)
        PROVE  ownerOf(b)' \in {ownerOf(b), newOwner} /\ newOwner # ZeroAddress
    BY <2>3 DEF TransferAgentOwnership, HandedOver
  <2>4. ASSUME \/ Deactivate(sender, x) \/ Reactivate(sender, x)
               \/ ExecuteRecovery(sender, x)
        PROVE  ownerOf(b)' = ownerOf(b)
    BY <2>4 DEF Deactivate, Reactivate, ExecuteRecovery
  <2>5. ASSUME NEW w \in Wallet, BindWallet(sender, x, w)
        PROVE  ownerOf(b)' = ownerOf(b)
    BY <2>5 DEF BindWallet
  <2>6. ASSUME NEW guardian \in Guardian, SetRecoveryGuardian(sender, x, guardian)
        PROVE  ownerOf(b)' = ownerOf(b)
    BY <2>6 DEF SetRecoveryGuardian
  <2> HIDE DEF RegistryTypeOK, AgentRecord, ownerOf
  <2> QED BY <2>1, <2>2, <2>3, <2>4, <2>5, <2>6
<1>4. \/ ownershipVersion(b)' = ownershipVersion(b)
      \/ ownerOf(b) = ZeroAddress /\ ownershipVersion(b)' = 0
      \/ /\ ownerOf(b)' # ownerOf(b)
         /\ ownershipVersion(b)' = ownershipVersion(b) + 1
         /\ ownerOf(b)' # ZeroAddress
  <2>1. ASSUME ownerOf(b)' # ownerOf(b), ownershipVersion(b)' = ownershipVersion(b) + 1
        PROVE  ownerOf(b)' # ZeroAddress
    BY <1>3, <2>1
  <2> QED BY <2>1, RegistryStepEpoch
<1> QED BY <1>1, <1>2, <1>3, <1>4

-----------------------------------------------------------------------------
(* A first half takes the free nonce and leaves it as the committed one.   *)
LEMMA EpochBegin ==
    ASSUME TypeOK, EpochInv, NEW i \in Submission, Begin(i)
    PROVE  /\ EpochInv'
           /\ UNCHANGED CommittedNextNonce
<1>1. /\ frame = NoFrame /\ frame' # NoFrame /\ frame'.intent = i
      /\ frame'.saved.agents = agents
      /\ frame'.saved.storedNonce = storedNonce
  BY BeginFrame DEF Storage
<1>2. UNCHANGED agents
  BY DEF Begin
<1>3. UNCHANGED CommittedNextNonce
  BY <1>1 DEF CommittedNextNonce, ownershipVersion
<1>4. i.nonce = CommittedNextNonce[i.agent]
  <2>1. i.agent \in Agent
    BY SubmissionTyped
  <2> QED BY <1>1, <2>1 DEF Begin, Admissible, nextNonce, CommittedNextNonce, NonceInEpoch
<1>5. storedNonce' = [storedNonce EXCEPT ![i.agent] = i.nonce + 1]
  BY BeginNonce
<1>6. \A b \in Agent : ownershipVersion(b)' = agents[b].ownershipVersion
  BY <1>2 DEF ownershipVersion
<1>7. \A b \in Agent : agents[b].ownershipVersion <= agents[b].ownershipVersion
  BY VersionsTyped DEF ownershipVersion
<1> QED BY <1>1, <1>2, <1>3, <1>4, <1>5, <1>6, <1>7 DEF EpochInv, FreshAgents

(* A failed execution leaves the committed nonces where they were.         *)
LEMMA EpochRevert ==
    ASSUME TypeOK, EpochInv, Revert
    PROVE  /\ EpochInv'
           /\ UNCHANGED CommittedNextNonce
<1>1. /\ frame # NoFrame /\ frame' = NoFrame
      /\ storedNonce' = frame.saved.storedNonce
      /\ agents' = frame.saved.agents
  BY DEF Revert, RestoreGuard, RestoreOthers
<1>2. UNCHANGED CommittedNextNonce
  BY <1>1 DEF CommittedNextNonce, ownershipVersion
<1> QED BY <1>1, <1>2 DEF EpochInv, FreshAgents

(* Other calls raise committed nonces or, during an execution, do nothing. *)
LEMMA EpochCall ==
    ASSUME TypeOK, EpochInv, NEW sender \in Account,
           \/ WalletCall(sender) \/ RegistryCall(sender)
           \/ PolicyCall(sender) \/ PauseCall(sender)
    PROVE  /\ EpochInv'
           /\ CommittedNextNonce' \in [Agent -> Nat]
           /\ \A b \in Agent : CommittedNextNonce'[b] >= CommittedNextNonce[b]
<1>1. UNCHANGED <<frame, storedNonce>>
  BY CallLeavesGuard
<1>2. /\ FreshAgents(agents)'
      /\ \A b \in Agent : ownershipVersion(b) <= ownershipVersion(b)'
  <2>1. CASE RegistryCall(sender)
    BY <2>1, RegistryStepFresh, StorageTyped DEF RegistryCall, TypeOK, EpochInv
  <2>2. CASE UNCHANGED agents
    <3>1. \A b \in Agent : ownershipVersion(b) <= ownershipVersion(b)
      BY VersionsTyped
    <3> QED BY <2>2, <3>1 DEF EpochInv, FreshAgents, ownershipVersion
  <2> QED BY <2>1, <2>2 DEF WalletCall, PolicyCall, PauseCall, PauseAgent,
          UnpauseAgent, SetPaused
<1>t. \A b \in Agent : ownershipVersion(b)' \in Nat
  <2>1. TypeOK'
    BY CallType
  <2>2. agents' \in [Agent -> AgentRecord]
    BY <2>1 DEF TypeOK, Storage, StorageType
  <2> QED BY <2>2, RegistryAssumption DEF AgentRecord, ownershipVersion
<1>3. ASSUME NEW b \in Agent
      PROVE  /\ CommittedNextNonce'[b] \in Nat
             /\ CommittedNextNonce'[b] >= CommittedNextNonce[b]
  <2>1. /\ ownershipVersion(b) \in Nat /\ ownershipVersion(b)' \in Nat
        /\ storedNonce[b] \in Nat
    BY <1>t, VersionsTyped
  <2>2. CASE frame = NoFrame
    <3>1. /\ CommittedNextNonce[b] = NonceInEpoch(storedNonce[b], ownershipVersion(b))
          /\ CommittedNextNonce'[b] = NonceInEpoch(storedNonce[b], ownershipVersion(b)')
      BY <1>1, <2>2 DEF CommittedNextNonce
    <3>2. storedNonce[b] <= storedNonce[b]
      BY <2>1
    <3>3. /\ NonceInEpoch(storedNonce[b], ownershipVersion(b)) \in Nat
          /\ NonceInEpoch(storedNonce[b], ownershipVersion(b)') \in Nat
          /\ NonceInEpoch(storedNonce[b], ownershipVersion(b))
               <= NonceInEpoch(storedNonce[b], ownershipVersion(b)')
      <4>1. ownershipVersion(b) <= ownershipVersion(b)'
        BY <1>2
      <4>2. ownershipVersion(b)' <= ownershipVersion(b)'
        BY <2>1
      <4> HIDE DEF NonceInEpoch
      <4> QED BY <2>1, <3>2, <4>1, <4>2, NonceInEpochGrows
    <3> QED BY <3>1, <3>3
  <2>3. CASE frame # NoFrame
    <3>1. /\ frame.saved.agents[b].ownershipVersion \in Nat
          /\ frame.saved.storedNonce[b] \in Nat
      BY <2>3, VersionsTyped
    <3> DEFINE n == NonceInEpoch(frame.saved.storedNonce[b],
                                 frame.saved.agents[b].ownershipVersion)
    <3>2. n \in Nat
      BY <3>1, GuardAssumption DEF NonceInEpoch
    <3>3. CommittedNextNonce[b] = n /\ CommittedNextNonce'[b] = n
      BY <1>1, <2>3 DEF CommittedNextNonce
    <3> QED BY <3>2, <3>3
  <2> QED BY <2>2, <2>3
<1>4. CommittedNextNonce' \in [Agent -> Nat]
  BY <1>3 DEF CommittedNextNonce
<1>5. EpochInv'
  <2> SUFFICES ASSUME frame # NoFrame
               PROVE  /\ \A b \in Agent :
                             frame.saved.agents[b].ownershipVersion <= ownershipVersion(b)'
                      /\ frame.intent.nonce = CommittedNextNonce'[frame.intent.agent]
    BY <1>1, <1>2 DEF EpochInv, FreshAgents
  <2>1. ASSUME NEW b \in Agent
        PROVE  frame.saved.agents[b].ownershipVersion <= ownershipVersion(b)'
    <3>1. /\ frame.saved.agents[b].ownershipVersion \in Nat
          /\ ownershipVersion(b) \in Nat /\ ownershipVersion(b)' \in Nat
      BY <1>t, VersionsTyped
    <3>2. /\ frame.saved.agents[b].ownershipVersion <= ownershipVersion(b)
          /\ ownershipVersion(b) <= ownershipVersion(b)'
      BY <1>2 DEF EpochInv
    <3> QED BY <3>1, <3>2
  <2>2. CommittedNextNonce' = CommittedNextNonce
    BY <1>1 DEF CommittedNextNonce
  <2> QED BY <2>1, <2>2 DEF EpochInv
<1> QED BY <1>3, <1>4, <1>5

-----------------------------------------------------------------------------
(* The second half of an execution is a payment of the mandate.            *)
LEMMA ReturnSettles ==
    ASSUME TypeOK, EpochInv, SpendInv, Return
    PROVE  /\ EpochInv'
           /\ Promise!Settle(frame.intent.agent, frame.intent.policyHash,
                             Outlay(frame.intent))
<1>1. /\ frame # NoFrame /\ frame' = NoFrame
      /\ executed' = Append(executed, Event(frame.intent))
      /\ paidOut' = [paidOut EXCEPT ![frame.intent.policyHash][today] =
                                        @ + Outlay(frame.intent)]
      /\ UNCHANGED <<now, agents, storedNonce>>
  BY DEF Return, guardVars
<1>i. PICK i \in Submission : i = frame.intent
  BY <1>1, FrameTyped
<1>b. PICK b \in Agent : b = i.agent
  BY SubmissionTyped
<1>h. PICK h \in PolicyHash : h = i.policyHash
  BY SubmissionTyped
<1>2. i.nonce \in Nat /\ i.value \in Nat /\ Outlay(i) \in Nat
  BY SubmissionTyped
<1>3. EpochInv'
  BY <1>1 DEF EpochInv, FreshAgents
<1>4. /\ frame.saved.storedNonce \in [Agent -> Nat]
      /\ storedNonce = [frame.saved.storedNonce EXCEPT ![b] = i.nonce + 1]
      /\ CommittedNextNonce[b] = i.nonce
  BY <1>1, <1>i, <1>b, FrameTyped DEF EpochInv, StorageType
<1>5. ASSUME NEW x \in Agent
      PROVE  /\ CommittedNextNonce'[x] \in Nat
             /\ CommittedNextNonce'[x] >= CommittedNextNonce[x]
  <2>1. /\ CommittedNextNonce[x] = NonceInEpoch(frame.saved.storedNonce[x],
                                                frame.saved.agents[x].ownershipVersion)
        /\ CommittedNextNonce'[x] = NonceInEpoch(storedNonce[x], ownershipVersion(x))
    BY <1>1 DEF CommittedNextNonce, ownershipVersion
  <2>2. /\ ownershipVersion(x) \in Nat /\ storedNonce[x] \in Nat
        /\ frame.saved.agents[x].ownershipVersion \in Nat
        /\ frame.saved.storedNonce[x] \in Nat
    BY <1>1, VersionsTyped
  <2>3. frame.saved.agents[x].ownershipVersion <= ownershipVersion(x)
    BY <1>1 DEF EpochInv
  <2>4. frame.saved.storedNonce[x] <= storedNonce[x]
    <3>1. CASE x = b
      <4>1. frame.saved.storedNonce[b] <= i.nonce
        <5>1. NonceInEpoch(frame.saved.storedNonce[b],
                           frame.saved.agents[b].ownershipVersion) = i.nonce
          BY <1>4, <2>1, <3>1
        <5>2. /\ frame.saved.storedNonce[b] <= frame.saved.storedNonce[b]
              /\ frame.saved.agents[b].ownershipVersion
                    <= frame.saved.agents[b].ownershipVersion
          BY <2>2, <3>1
        <5> HIDE DEF NonceInEpoch
        <5>3. NonceInEpoch(frame.saved.storedNonce[b],
                           frame.saved.agents[b].ownershipVersion)
                 >= frame.saved.storedNonce[b]
          BY <2>2, <3>1, <5>2, NonceInEpochGrows
        <5> QED BY <1>2, <2>2, <3>1, <5>1, <5>3
      <4> QED BY <1>2, <1>4, <2>2, <3>1, <4>1
    <3>2. CASE x # b
      BY <1>4, <2>2, <3>2
    <3> QED BY <3>1, <3>2
  <2>5. /\ NonceInEpoch(storedNonce[x], ownershipVersion(x)) \in Nat
        /\ NonceInEpoch(frame.saved.storedNonce[x],
                        frame.saved.agents[x].ownershipVersion) \in Nat
        /\ NonceInEpoch(frame.saved.storedNonce[x],
                        frame.saved.agents[x].ownershipVersion)
             <= NonceInEpoch(storedNonce[x], ownershipVersion(x))
    <3>1. /\ storedNonce[x] <= storedNonce[x]
          /\ ownershipVersion(x) <= ownershipVersion(x)
      BY <2>2
    <3> HIDE DEF NonceInEpoch
    <3> QED BY <2>2, <2>3, <2>4, <3>1, NonceInEpochGrows
  <2> QED BY <2>1, <2>5
<1>6. CommittedNextNonce'[b] > CommittedNextNonce[b]
  <2>1. CommittedNextNonce'[b] = NonceInEpoch(storedNonce[b], ownershipVersion(b))
    BY <1>1 DEF CommittedNextNonce, ownershipVersion
  <2>2. storedNonce[b] = i.nonce + 1 /\ ownershipVersion(b) \in Nat
    BY <1>4, VersionsTyped
  <2>3. storedNonce[b] \in Nat /\ ownershipVersion(b) * SeqSpan \in Nat
    BY <1>2, <2>2, GuardAssumption
  <2>4. NonceInEpoch(storedNonce[b], ownershipVersion(b)) >= storedNonce[b]
    BY <2>3 DEF NonceInEpoch
  <2>5. NonceInEpoch(storedNonce[b], ownershipVersion(b)) \in Nat
    BY <2>3 DEF NonceInEpoch
  <2> QED BY <1>2, <1>4, <2>1, <2>2, <2>4, <2>5
<1>7. CommittedNextNonce' \in [Agent -> Nat]
  BY <1>5 DEF CommittedNextNonce
<1>8. ASSUME Bounded(h) PROVE paidOut[h][today] + Outlay(i) <= h.terms.dailyLimit
  <2> DEFINE bucket == frame.saved.dailySpend[h]
             before == IF bucket.day = today THEN bucket.spent ELSE 0
  <2>1. before + i.value <= h.terms.dailyLimit /\ Outlay(i) = i.value
    BY <1>1, <1>8, <1>i, <1>h DEF SpendInv, Charging
  <2>2. /\ bucket \in [day : Nat, spent : Nat]
        /\ today \in Day
        /\ paidOut[h] \in [Day -> Nat]
    BY <1>1, <1>h, FrameTyped, TodayIsADay DEF StorageType, TypeOK
  <2>3. /\ bucket.day <= today
        /\ paidOut[h][bucket.day] = bucket.spent
        /\ \A d \in Day : d > bucket.day => paidOut[h][d] = 0
    BY <1>1, <1>8 DEF SpendInv, Ledger, CommittedSpend
  <2>4. bucket.day \in Nat /\ today \in Nat
    BY <2>2 DEF Day
  <2> HIDE DEF bucket
  <2>5. paidOut[h][today] = before
    <3>1. CASE bucket.day = today
      BY <2>3, <3>1
    <3>2. CASE bucket.day # today
      BY <2>2, <2>3, <2>4, <3>2
    <3> QED BY <3>1, <3>2
  <2> QED BY <2>1, <2>5
<1>9. Payments' = Append(Payments, [agent |-> b, nonce |-> CommittedNextNonce[b],
                                    policy |-> h, value |-> Outlay(i), day |-> today])
  <2> DEFINE p == [agent |-> b, nonce |-> CommittedNextNonce[b],
                   policy |-> h, value |-> Outlay(i), day |-> today]
  <2>1. PaymentOf(Event(i)) = p
    BY <1>4, <1>b, <1>h DEF PaymentOf, Event
  <2>2. /\ Len(executed') = Len(executed) + 1
        /\ Len(executed) \in Nat
        /\ \A k \in 1..Len(executed) : executed'[k] = executed[k]
        /\ executed'[Len(executed) + 1] = Event(i)
    BY <1>1, <1>i DEF TypeOK
  <2>3. /\ Len(Payments) = Len(executed)
        /\ Append(Payments, p) =
              [k \in 1..(Len(executed) + 1) |->
                  IF k = Len(executed) + 1 THEN p ELSE Payments[k]]
    <3>1. Len(Payments) = Len(executed)
      BY <2>2 DEF Payments
    <3> QED BY <3>1
  <2>4. Payments' = [k \in 1..(Len(executed) + 1) |-> PaymentOf(executed'[k])]
    BY <2>2 DEF Payments
  <2> HIDE DEF p
  <2>5. \A k \in 1..(Len(executed) + 1) :
           PaymentOf(executed'[k]) = IF k = Len(executed) + 1 THEN p ELSE Payments[k]
    <3> SUFFICES ASSUME NEW k \in 1..(Len(executed) + 1)
                 PROVE  PaymentOf(executed'[k])
                           = IF k = Len(executed) + 1 THEN p ELSE Payments[k]
      OBVIOUS
    <3>1. CASE k = Len(executed) + 1
      BY <2>1, <2>2, <3>1
    <3>2. CASE k # Len(executed) + 1
      <4>1. k \in 1..Len(executed)
        BY <2>2, <3>2
      <4>2. executed'[k] = executed[k] /\ Payments[k] = PaymentOf(executed[k])
        BY <2>2, <4>1 DEF Payments
      <4> QED BY <3>2, <4>2
    <3> QED BY <3>1, <3>2
  <2> QED BY <2>3, <2>4, <2>5 DEF p
<1>10. today' = today
  BY <1>1 DEF today
<1>11. [g \in PolicyHash |-> g.terms.dailyLimit][h] = h.terms.dailyLimit
  OBVIOUS
<1>a. h \in {g \in PolicyHash : Bounded(g)} => Bounded(h)
  OBVIOUS
<1>s. paidOut' = [paidOut EXCEPT ![h][today] = @ + Outlay(i)]
  BY <1>1, <1>i, <1>h
<1> HIDE DEF CommittedNextNonce, Payments
<1>12. Promise!Settle(b, h, Outlay(i))
  BY <1>a, <1>s, <1>5, <1>6, <1>7, <1>8, <1>9, <1>10, <1>11
     DEF Promise!Settle, Promise!Affordable, Promise!NoncesGrow
<1> QED BY <1>3, <1>i, <1>b, <1>h, <1>12

(* Every step of the contracts is a step of the mandate, or none.          *)
LEMMA StepsKeepPromise ==
    ASSUME TypeOK, TypeOK', SpendInv, EpochInv, [Next]_vars
    PROVE  /\ EpochInv'
           /\ [Promise!MandateNext]_(Promise!mandateVars)
<1> DEFINE Quiet == UNCHANGED <<CommittedNextNonce, Payments, paidOut, today>>
<1>q. ASSUME Quiet PROVE [Promise!MandateNext]_(Promise!mandateVars)
  BY <1>q DEF Promise!mandateVars
<1>1. ASSUME NEW i \in Submission, Begin(i) PROVE EpochInv' /\ Quiet
  BY <1>1, EpochBegin, BeginFrame DEF Payments, today
<1>2. CASE Return
  <2>1. frame.intent \in Submission
    BY <1>2, FrameTyped DEF Return
  <2>2. /\ frame.intent.agent \in Agent
        /\ frame.intent.policyHash \in PolicyHash
        /\ Outlay(frame.intent) \in {Outlay(i) : i \in Submission}
    BY <2>1, SubmissionTyped
  <2> QED BY <1>2, <2>2, ReturnSettles DEF Promise!MandateNext, Promise!SomePayment
<1>3. CASE Revert
  BY <1>3, EpochRevert DEF Revert, logVars, Payments, today, Promise!mandateVars
<1>4. ASSUME NEW sender \in Account,
             \/ WalletCall(sender) \/ RegistryCall(sender)
             \/ PolicyCall(sender) \/ PauseCall(sender)
      PROVE  EpochInv' /\ [Promise!MandateNext]_(Promise!mandateVars)
  <2>1. UNCHANGED <<Payments, paidOut, today>>
    BY <1>4, CallLeavesGuard DEF Payments, today
  <2>2. /\ EpochInv'
        /\ CommittedNextNonce' \in [Agent -> Nat]
        /\ \A b \in Agent : CommittedNextNonce'[b] >= CommittedNextNonce[b]
    BY <1>4, EpochCall
  <2>3. Promise!NewEpoch
    BY <2>1, <2>2 DEF Promise!NewEpoch, Promise!NoncesGrow
  <2> QED BY <2>2, <2>3 DEF Promise!MandateNext
<1>5. CASE NextBlock
  <2>1. /\ frame = NoFrame /\ now' = now + 1
        /\ UNCHANGED <<frame, agents, storedNonce, executed, paidOut>>
    BY <1>5 DEF NextBlock, Tick, guardVars, logVars
  <2>2. UNCHANGED <<CommittedNextNonce, Payments, paidOut>>
    BY <2>1 DEF CommittedNextNonce, Payments, ownershipVersion
  <2>3. EpochInv'
    BY <2>1 DEF EpochInv, FreshAgents
  <2>4. /\ now \in Nat /\ now + 1 \in Nat
        /\ now' \in 0..MaxTime
    BY <2>1, PolicyAssumption DEF TypeOK
  <2>5. today \in Nat /\ today' \in Nat /\ today <= today'
    BY <2>1, <2>4, DayMonotone DEF today
  <2>6. today' \in Day
    <3>1. now + 1 \in 0..MaxTime /\ MaxTime \in Nat
      BY <2>1, <2>4, PolicyAssumption
    <3>2. (now + 1) \div DayLength \in Nat /\ (now + 1) \div DayLength <= now + 1
      BY <2>4, DayMonotone
    <3> QED BY <2>1, <3>1, <3>2 DEF today, Day
  <2>7. CASE today' = today
    BY <1>q, <2>2, <2>3, <2>7
  <2>8. CASE today' # today
    BY <2>2, <2>3, <2>5, <2>6, <2>8 DEF Promise!MandateNext, Promise!NextDay
  <2> QED BY <2>7, <2>8
<1>6. CASE UNCHANGED vars
  <2>1. UNCHANGED <<now, frame, agents, storedNonce, executed, paidOut>>
    BY <1>6 DEF vars, guardVars, logVars
  <2>2. Quiet
    BY <2>1 DEF CommittedNextNonce, Payments, ownershipVersion, today
  <2>3. EpochInv'
    BY <2>1, <2>2 DEF EpochInv, FreshAgents, ownershipVersion
  <2> QED BY <1>q, <2>2, <2>3
<1> HIDE DEF Quiet
<1> QED BY <1>q, <1>1, <1>2, <1>3, <1>4, <1>5, <1>6 DEF Next, Execution

(* Versions and the nonce in use are as EpochInv says, in every execution. *)
THEOREM EpochsAreCounted == Spec => []EpochInv
<1>1. Init => EpochInv
  BY DEF Init, RegistryInit, Unregistered, EpochInv, FreshAgents
<1>2. TypeOK /\ TypeOK' /\ SpendInv /\ EpochInv /\ [Next]_vars => EpochInv'
  BY StepsKeepPromise
<1> QED BY <1>1, <1>2, GuardTypes, SpendingIsAccounted, PTL DEF Spec

(* Executions through any targets and failures are payments of the mandate *)
(* and nothing else: the contracts implement SpendingMandate.              *)
THEOREM ContractsKeepPromise == Spec => KeepsPromise
<1>1. Init => Promise!MandateInit
  <2> SUFFICES ASSUME Init PROVE Promise!MandateInit
    OBVIOUS
  <2>1. CommittedNextNonce = [b \in Agent |-> 0]
    BY GuardAssumption DEF Init, RegistryInit, Unregistered, CommittedNextNonce,
       NonceInEpoch, ownershipVersion
  <2>2. Payments = <<>>
    BY DEF Init, Payments
  <2>3. today = 0
    BY GuardAssumption DEF Init, today
  <2> QED BY <2>1, <2>2, <2>3 DEF Init, Promise!MandateInit
<1>2. TypeOK /\ TypeOK' /\ SpendInv /\ EpochInv /\ [Next]_vars
         => [Promise!MandateNext]_(Promise!mandateVars)
  BY StepsKeepPromise
<1> QED BY <1>1, <1>2, GuardTypes, SpendingIsAccounted, EpochsAreCounted, PTL
        DEF Spec, KeepsPromise, Promise!MandateSpec

-----------------------------------------------------------------------------
(***************************************************************************)
(* Nonces and the log.  Neither NonceOfItsEpoch nor NoncesMatchLog is      *)
(* inductive: a counter must never reach the next epoch's base, or a       *)
(* handoff would find nonces used up that no execution used; and while a   *)
(* target runs it is the storage to fall back to that the log agrees with. *)
(***************************************************************************)
EpochBase(v) == v * SeqSpan

CommittedVersion(b) ==
    IF frame = NoFrame THEN ownershipVersion(b) ELSE frame.saved.agents[b].ownershipVersion

\* The execution logged at k is one of an epoch that has begun.
LoggedInEpoch(k) ==
    LET e == executed[k] IN
    /\ EpochBase(e.epoch) <= e.nonce /\ e.nonce < EpochBase(e.epoch + 1)
    /\ e.epoch <= CommittedVersion(e.agent)

\* The committed counter of b is within its epoch, and what it passed is logged.
CounterMatchesLog(b) ==
    /\ CommittedNonce[b] < EpochBase(CommittedVersion(b) + 1)
    /\ \A n \in Nat :
           EpochBase(CommittedVersion(b)) <= n /\ n < CommittedNonce[b] =>
               \E k \in DOMAIN executed :
                   /\ executed[k].agent = b /\ executed[k].nonce = n
                   /\ executed[k].epoch = CommittedVersion(b)

\* A nonce in use leaves room in its epoch for the counter behind it.
NonceWithinEpoch ==
    frame # NoFrame =>
        frame.intent.nonce + 1 < EpochBase(CommittedVersion(frame.intent.agent) + 1)

LogInv ==
    /\ \A k \in DOMAIN executed : LoggedInEpoch(k)
    /\ \A b \in Agent : CounterMatchesLog(b)
    /\ NonceWithinEpoch

(* The epochs' bases are numbers, one span apart.                          *)
LEMMA BasesGrow ==
    ASSUME NEW v \in Nat, NEW w \in Nat
    PROVE  /\ EpochBase(v) \in Nat
           /\ EpochBase(v + 1) = EpochBase(v) + SeqSpan
           /\ v <= w => EpochBase(v) <= EpochBase(w)
           /\ v < w => EpochBase(v + 1) <= EpochBase(w)
<1>1. PICK u \in Nat : u = SeqSpan
  BY GuardAssumption
<1>2. \A x \in Nat : x * u \in Nat /\ (x + 1) * u = x * u + u
  BY <1>1
<1>3. ASSUME NEW x \in Nat, NEW y \in Nat, x <= y
      PROVE  x * u <= y * u
  <2>1. PICK z \in Nat : y = x + z
    <3>1. y - x \in Nat /\ y = x + (y - x)
      BY <1>3
    <3> QED BY <3>1
  <2>2. y * u = x * u + z * u /\ z * u \in Nat /\ x * u \in Nat
    BY <2>1
  <2> QED BY <2>2
<1>4. v < w => v + 1 <= w /\ v + 1 \in Nat
  OBVIOUS
<1> QED BY <1>1, <1>2, <1>3, <1>4 DEF EpochBase

(* A number of an epoch has the epoch as its quotient.                     *)
LEMMA QuotientIsEpoch ==
    ASSUME NEW n \in Nat, NEW v \in Nat, EpochBase(v) <= n, n < EpochBase(v + 1)
    PROVE  /\ n \div SeqSpan = v
           /\ n % SeqSpan = n - EpochBase(v)
<1>1. PICK u \in Nat : u = SeqSpan /\ u > 0
  BY GuardAssumption
<1>2. PICK r \in Nat : n = v * u + r /\ r < u
  <2>1. v * u <= n /\ n < v * u + u /\ v * u \in Nat
    BY <1>1 DEF EpochBase
  <2>2. n - v * u \in Nat /\ n - v * u < u /\ n = v * u + (n - v * u)
    BY <2>1
  <2> QED BY <2>2
<1>3. n \div u = v /\ n % u = r
  <2>1. PICK q \in Nat, s \in Nat : q = n \div u /\ s = n % u
    BY <1>1
  <2>2. n = q * u + s /\ s < u
    BY <1>1, <2>1
  <2>3. q <= v
    <3> SUFFICES ASSUME v + 1 <= q PROVE FALSE
      BY <2>1
    <3>1. PICK z \in Nat : q = v + 1 + z
      <4>1. q - (v + 1) \in Nat /\ q = v + 1 + (q - (v + 1))
        BY <2>1
      <4> QED BY <4>1
    <3>2. q * u = v * u + u + z * u /\ z * u \in Nat /\ v * u \in Nat
      BY <3>1
    <3> QED BY <1>2, <2>2, <3>2
  <2>4. v <= q
    <3> SUFFICES ASSUME q + 1 <= v PROVE FALSE
      BY <2>1
    <3>1. PICK z \in Nat : v = q + 1 + z
      <4>1. v - (q + 1) \in Nat /\ v = q + 1 + (v - (q + 1))
        BY <2>1
      <4> QED BY <4>1
    <3>2. v * u = q * u + u + z * u /\ z * u \in Nat /\ q * u \in Nat
      BY <3>1
    <3> QED BY <1>2, <2>2, <3>2
  <2>5. q = v
    BY <2>3, <2>4
  <2> QED BY <1>2, <2>1, <2>2, <2>5
<1> QED BY <1>1, <1>2, <1>3 DEF EpochBase

(* What the log and the committed counters are made of.                    *)
LEMMA CommittedTyped ==
    ASSUME TypeOK
    PROVE  /\ \A b \in Agent : CommittedVersion(b) \in Nat /\ CommittedNonce[b] \in Nat
           /\ \A k \in DOMAIN executed : /\ executed[k].agent \in Agent
                                         /\ executed[k].nonce \in Nat
                                         /\ executed[k].epoch \in Nat
<1>1. ASSUME NEW k \in DOMAIN executed
      PROVE  /\ executed[k].agent \in Agent /\ executed[k].nonce \in Nat
             /\ executed[k].epoch \in Nat
  <2>1. executed[k] \in EventType
    BY DEF TypeOK
  <2> QED BY <2>1, RegistryAssumption DEF EventType
<1> QED BY <1>1, VersionsTyped DEF CommittedVersion, CommittedNonce

(* A step that logs nothing and moves no committed counter keeps the log   *)
(* in order: an epoch that begins, begins beyond every counter.            *)
LEMMA NewEpochKeepsLog ==
    ASSUME TypeOK, LogInv, UNCHANGED <<executed, CommittedNonce>>,
           \A b \in Agent : /\ CommittedVersion(b)' \in Nat
                            /\ CommittedVersion(b) <= CommittedVersion(b)'
    PROVE  /\ \A k \in DOMAIN executed' : LoggedInEpoch(k)'
           /\ \A b \in Agent : CounterMatchesLog(b)'
<1>1. ASSUME NEW k \in DOMAIN executed
      PROVE  LoggedInEpoch(k)'
  <2>1. LoggedInEpoch(k)
    BY DEF LogInv
  <2>2. PICK b \in Agent : b = executed[k].agent
    BY CommittedTyped
  <2>3. executed[k].epoch <= CommittedVersion(b)'
    <3>1. executed[k].epoch <= CommittedVersion(b)
      BY <2>1, <2>2 DEF LoggedInEpoch
    <3> QED BY <2>2, <3>1, CommittedTyped
  <2> QED BY <2>1, <2>2, <2>3 DEF LoggedInEpoch
<1>2. ASSUME NEW b \in Agent
      PROVE  CounterMatchesLog(b)'
  <2>1. PICK v \in Nat : v = CommittedVersion(b)
    BY CommittedTyped
  <2>2. PICK w \in Nat : w = CommittedVersion(b)'
    OBVIOUS
  <2>3. PICK c \in Nat : c = CommittedNonce[b]
    BY CommittedTyped
  <2>4. CounterMatchesLog(b) /\ c < EpochBase(v + 1)
    BY <2>1, <2>3 DEF LogInv, CounterMatchesLog
  <2>5. v <= w
    BY <2>1, <2>2
  <2>6. c < EpochBase(w + 1)
    BY <2>4, <2>5, BasesGrow
  <2>7. CASE v = w
    BY <2>1, <2>2, <2>4, <2>7 DEF CounterMatchesLog
  <2>8. CASE v < w
    <3>1. c < EpochBase(w) /\ EpochBase(w) \in Nat
      BY <2>4, <2>8, BasesGrow
    <3>2. \A n \in Nat : ~(EpochBase(w) <= n /\ n < c)
      BY <3>1
    <3> QED BY <2>2, <2>3, <2>6, <3>2 DEF CounterMatchesLog
  <2> QED BY <2>5, <2>7, <2>8
<1> QED BY <1>1, <1>2

(* A first half takes a nonce of the present epoch, and never its last.    *)
LEMMA LogBegin ==
    ASSUME TypeOK, LogInv, NEW i \in Submission, Begin(i)
    PROVE  LogInv'
<1>1. /\ frame = NoFrame /\ frame' # NoFrame /\ frame'.intent = i
      /\ frame'.saved.agents = agents /\ frame'.saved.storedNonce = storedNonce
      /\ UNCHANGED executed
  BY BeginFrame DEF Storage
<1>2. /\ UNCHANGED CommittedNonce
      /\ \A b \in Agent : CommittedVersion(b)' = CommittedVersion(b)
  BY <1>1 DEF CommittedNonce, CommittedVersion, ownershipVersion
<1>3. PICK b \in Agent : b = i.agent
  BY SubmissionTyped
<1>4. PICK v \in Nat : v = CommittedVersion(b)
  BY CommittedTyped
<1>5. PICK m \in Nat : m = i.nonce
  BY SubmissionTyped
<1>6. EpochBase(v) <= m /\ m < EpochBase(v + 1)
  <2>1. m = IF storedNonce[b] >= EpochBase(v) THEN storedNonce[b] ELSE EpochBase(v)
    BY <1>1, <1>3, <1>4, <1>5
       DEF Begin, Admissible, nextNonce, CommittedVersion, EpochBase
  <2>2. storedNonce[b] \in Nat /\ storedNonce[b] < EpochBase(v + 1)
    <3>1. CommittedNonce[b] \in Nat /\ CommittedNonce[b] < EpochBase(v + 1)
      BY <1>4, CommittedTyped DEF LogInv, CounterMatchesLog
    <3> QED BY <1>1, <3>1 DEF CommittedNonce
  <2>3. EpochBase(v) \in Nat /\ EpochBase(v) < EpochBase(v + 1)
    BY BasesGrow, GuardAssumption
  <2> QED BY <2>1, <2>2, <2>3
<1>7. m + 1 < EpochBase(v + 1)
  <2>1. m % SeqSpan # SeqSpan - 1
    BY <1>5 DEF Begin, Admissible, SequenceExhausted
  <2>2. m - EpochBase(v) # SeqSpan - 1
    BY <1>6, <2>1, QuotientIsEpoch
  <2> QED BY <1>6, <2>2, BasesGrow, GuardAssumption
<1>8. \A x \in Agent : /\ CommittedVersion(x)' \in Nat
                       /\ CommittedVersion(x) <= CommittedVersion(x)'
  <2>1. \A x \in Agent : CommittedVersion(x) \in Nat
    BY CommittedTyped
  <2> QED BY <1>2, <2>1
<1>9. NonceWithinEpoch'
  <2>1. frame'.saved.agents[b].ownershipVersion = v
    BY <1>1, <1>4 DEF CommittedVersion, ownershipVersion
  <2> QED BY <1>1, <1>3, <1>5, <1>7, <2>1 DEF NonceWithinEpoch, CommittedVersion
<1>10. /\ \A k \in DOMAIN executed' : LoggedInEpoch(k)'
       /\ \A x \in Agent : CounterMatchesLog(x)'
  BY <1>1, <1>2, <1>8, NewEpochKeepsLog
<1> QED BY <1>9, <1>10 DEF LogInv

(* Going back to the committed storage changes neither counters nor log.   *)
LEMMA LogRevert ==
    ASSUME TypeOK, LogInv, Revert
    PROVE  LogInv'
<1>1. /\ frame # NoFrame /\ frame' = NoFrame
      /\ storedNonce' = frame.saved.storedNonce
      /\ agents' = frame.saved.agents
      /\ UNCHANGED executed
  BY DEF Revert, RestoreGuard, RestoreOthers, logVars
<1>2. /\ UNCHANGED CommittedNonce
      /\ \A b \in Agent : CommittedVersion(b)' = CommittedVersion(b)
  BY <1>1 DEF CommittedNonce, CommittedVersion, ownershipVersion
<1>3. \A b \in Agent : /\ CommittedVersion(b)' \in Nat
                       /\ CommittedVersion(b) <= CommittedVersion(b)'
  <2>1. \A b \in Agent : CommittedVersion(b) \in Nat
    BY CommittedTyped
  <2> QED BY <1>2, <2>1
<1>4. /\ \A k \in DOMAIN executed' : LoggedInEpoch(k)'
      /\ \A b \in Agent : CounterMatchesLog(b)'
  BY <1>1, <1>2, <1>3, NewEpochKeepsLog
<1> QED BY <1>1, <1>4 DEF LogInv, NonceWithinEpoch

(* Steps around an execution only ever begin epochs.                       *)
LEMMA LogQuiet ==
    ASSUME TypeOK, TypeOK', LogInv, EpochInv,
           UNCHANGED <<frame, executed, storedNonce>>,
           \A b \in Agent : ownershipVersion(b) <= ownershipVersion(b)'
    PROVE  LogInv'
<1>1. UNCHANGED CommittedNonce
  BY DEF CommittedNonce
<1>2. \A b \in Agent : ownershipVersion(b)' \in Nat
  <2>1. agents' \in [Agent -> AgentRecord]
    BY DEF TypeOK, Storage, StorageType
  <2> QED BY <2>1, RegistryAssumption DEF AgentRecord, ownershipVersion
<1>3. \A b \in Agent : /\ CommittedVersion(b)' \in Nat
                       /\ CommittedVersion(b) <= CommittedVersion(b)'
                       /\ frame # NoFrame => CommittedVersion(b)' = CommittedVersion(b)
  <2> SUFFICES ASSUME NEW b \in Agent
               PROVE  /\ CommittedVersion(b)' \in Nat
                      /\ CommittedVersion(b) <= CommittedVersion(b)'
                      /\ frame # NoFrame => CommittedVersion(b)' = CommittedVersion(b)
    OBVIOUS
  <2>1. CASE frame = NoFrame
    BY <1>2, <2>1 DEF CommittedVersion
  <2>2. CASE frame # NoFrame
    <3>1. CommittedVersion(b)' = CommittedVersion(b)
      BY <2>2 DEF CommittedVersion
    <3>2. PICK v \in Nat : v = CommittedVersion(b)
      BY CommittedTyped
    <3> QED BY <3>1, <3>2
  <2> QED BY <2>1, <2>2
<1>4. /\ \A k \in DOMAIN executed' : LoggedInEpoch(k)'
      /\ \A b \in Agent : CounterMatchesLog(b)'
  BY <1>1, <1>3, NewEpochKeepsLog
<1>5. NonceWithinEpoch'
  <2> SUFFICES ASSUME frame # NoFrame PROVE NonceWithinEpoch'
    BY DEF NonceWithinEpoch
  <2>1. CommittedVersion(frame.intent.agent)' = CommittedVersion(frame.intent.agent)
    BY DEF CommittedVersion
  <2> QED BY <2>1 DEF LogInv, NonceWithinEpoch
<1> QED BY <1>4, <1>5 DEF LogInv

(* An execution that returns logs the next nonce of the epoch it was       *)
(* checked in, also if its target has handed the agent on in between.      *)
LEMMA LogReturn ==
    ASSUME TypeOK, NonceInv, EpochInv, LogInv, Return
    PROVE  LogInv'
<1>1. /\ frame # NoFrame /\ frame' = NoFrame
      /\ executed' = Append(executed, Event(frame.intent))
      /\ UNCHANGED <<agents, storedNonce>>
  BY DEF Return, guardVars
<1>i. PICK i \in Submission : i = frame.intent
  BY <1>1, FrameTyped
<1>a. PICK a \in Agent : a = i.agent
  BY SubmissionTyped
<1>m. PICK m \in Nat : m = i.nonce
  BY SubmissionTyped
<1>v. PICK v \in Nat : v = CommittedVersion(a)
  BY CommittedTyped
<1>c. PICK c \in Nat : c = CommittedNonce[a]
  BY CommittedTyped
<1>2. /\ Event(i).agent = a /\ Event(i).nonce = m /\ Event(i).epoch = v
  BY <1>1, <1>i, <1>a, <1>m, <1>v DEF Event, CommittedVersion
<1>3. /\ Len(executed) \in Nat /\ DOMAIN executed = 1..Len(executed)
      /\ DOMAIN executed' = 1..(Len(executed) + 1)
      /\ \A k \in DOMAIN executed : executed'[k] = executed[k]
      /\ executed'[Len(executed) + 1] = Event(i)
  BY <1>1, <1>i DEF TypeOK
<1>4. /\ CommittedNonce = frame.saved.storedNonce
      /\ CommittedNonce \in [Agent -> Nat]
      /\ CommittedNonce' = [CommittedNonce EXCEPT ![a] = m + 1]
  <2>1. frame.saved.storedNonce \in [Agent -> Nat]
    BY <1>1, FrameTyped DEF StorageType
  <2> QED BY <1>1, <1>i, <1>a, <1>m, <2>1 DEF CommittedNonce, EpochInv
<1>5. m = IF c >= EpochBase(v) THEN c ELSE EpochBase(v)
  BY <1>1, <1>i, <1>a, <1>m, <1>v, <1>c
     DEF EpochInv, CommittedNextNonce, NonceInEpoch, CommittedNonce, CommittedVersion,
         EpochBase
<1>6. m + 1 < EpochBase(v + 1)
  BY <1>1, <1>i, <1>a, <1>m, <1>v DEF LogInv, NonceWithinEpoch
<1>7. \A b \in Agent : /\ CommittedVersion(b)' \in Nat
                       /\ CommittedVersion(b) <= CommittedVersion(b)'
  <2>1. \A b \in Agent : /\ CommittedVersion(b)' = ownershipVersion(b)
                         /\ CommittedVersion(b) = frame.saved.agents[b].ownershipVersion
    BY <1>1 DEF CommittedVersion, ownershipVersion
  <2>2. \A b \in Agent : frame.saved.agents[b].ownershipVersion <= ownershipVersion(b)
    BY <1>1 DEF EpochInv
  <2> QED BY <2>1, <2>2, VersionsTyped
<1>8. ASSUME NEW k \in DOMAIN executed'
      PROVE  LoggedInEpoch(k)'
  <2>1. CASE k \in DOMAIN executed
    <3>1. LoggedInEpoch(k) /\ executed'[k] = executed[k]
      BY <1>3, <2>1 DEF LogInv
    <3>2. PICK b \in Agent : b = executed[k].agent
      BY <2>1, CommittedTyped
    <3>3. executed[k].epoch <= CommittedVersion(b)'
      <4>1. executed[k].epoch <= CommittedVersion(b)
        BY <3>1, <3>2 DEF LoggedInEpoch
      <4> QED BY <1>7, <2>1, <4>1, CommittedTyped
    <3> QED BY <3>1, <3>2, <3>3 DEF LoggedInEpoch
  <2>2. CASE k = Len(executed) + 1
    <3>1. executed'[k] = Event(i)
      BY <1>3, <2>2
    <3>2. v <= CommittedVersion(a)'
      BY <1>7, <1>v
    <3>3. EpochBase(v) <= m /\ m < EpochBase(v + 1)
      BY <1>5, <1>6, BasesGrow
    <3> QED BY <1>2, <3>1, <3>2, <3>3 DEF LoggedInEpoch
  <2> QED BY <1>3, <2>1, <2>2
<1>9. ASSUME NEW b \in Agent
      PROVE  CounterMatchesLog(b)'
  <2>u. PICK u \in Nat : u = CommittedVersion(b)
    BY CommittedTyped
  <2>w. PICK w \in Nat : w = CommittedVersion(b)'
    BY <1>7
  <2>d. PICK d \in Nat : d = CommittedNonce[b]
    BY CommittedTyped
  <2>e. PICK e \in Nat : e = CommittedNonce'[b]
    BY <1>4
  <2>1. u <= w
    BY <1>7, <2>u, <2>w
  <2>2. e < EpochBase(u + 1)
    <3>1. CASE b = a
      BY <1>4, <1>6, <1>v, <2>u, <2>e, <3>1
    <3>2. CASE b # a
      <4>1. e = d
        BY <1>4, <2>d, <2>e, <3>2
      <4> QED BY <2>u, <2>d, <4>1 DEF LogInv, CounterMatchesLog
    <3> QED BY <3>1, <3>2
  <2>3. e < EpochBase(w + 1)
    BY <2>1, <2>2, BasesGrow
  <2>4. ASSUME NEW n \in Nat, EpochBase(w) <= n, n < e
        PROVE  \E k \in DOMAIN executed' :
                   /\ executed'[k].agent = b /\ executed'[k].nonce = n
                   /\ executed'[k].epoch = w
    <3>1. u = w
      <4>1. CASE u < w
        <5>1. e < EpochBase(w) /\ EpochBase(w) \in Nat
          BY <2>2, <4>1, BasesGrow
        <5> QED BY <2>4, <5>1
      <4> QED BY <2>1, <4>1
    <3>2. CASE n < d
      <4>1. PICK k \in DOMAIN executed : /\ executed[k].agent = b /\ executed[k].nonce = n
                                         /\ executed[k].epoch = u
        <5>1. CounterMatchesLog(b)
          BY DEF LogInv
        <5>2. EpochBase(u) <= n
          BY <2>4, <3>1
        <5> QED BY <2>u, <2>d, <3>2, <5>1, <5>2 DEF CounterMatchesLog
      <4>2. k \in DOMAIN executed' /\ executed'[k] = executed[k]
        BY <1>3
      <4> QED BY <3>1, <4>1, <4>2
    <3>3. CASE ~(n < d)
      <4>1. b = a
        BY <1>4, <2>d, <2>e, <2>4, <3>3
      <4>2. d = c /\ e = m + 1 /\ u = v
        BY <1>4, <1>v, <1>c, <2>u, <2>d, <2>e, <4>1
      <4>3. n = m
        BY SMTT(30), <1>5, <2>4, <3>1, <3>3, <4>2, BasesGrow
      <4>4. Len(executed) + 1 \in DOMAIN executed'
        BY <1>3
      <4> QED BY <1>2, <1>3, <3>1, <4>1, <4>2, <4>3, <4>4
    <3> QED BY <3>2, <3>3
  <2> QED BY <2>w, <2>e, <2>3, <2>4 DEF CounterMatchesLog
<1> QED BY <1>1, <1>8, <1>9 DEF LogInv, NonceWithinEpoch

(* Log and committed counters agree through handoffs, nested calls and     *)
(* failed executions.                                                      *)
THEOREM LogIsCounted == Spec => []LogInv
<1>1. Init => LogInv
  <2> SUFFICES ASSUME Init PROVE LogInv
    OBVIOUS
  <2>1. executed = <<>> /\ frame = NoFrame
    BY DEF Init
  <2>2. \A b \in Agent : CommittedVersion(b) = 0 /\ CommittedNonce[b] = 0
    BY <2>1 DEF Init, RegistryInit, Unregistered, CommittedVersion, CommittedNonce,
       ownershipVersion
  <2>3. 0 < EpochBase(0 + 1)
    BY GuardAssumption DEF EpochBase
  <2>4. \A n \in Nat : ~(n < 0)
    OBVIOUS
  <2> QED BY <2>1, <2>2, <2>3, <2>4 DEF LogInv, CounterMatchesLog, NonceWithinEpoch
<1>2. TypeOK /\ TypeOK' /\ NonceInv /\ EpochInv /\ LogInv /\ [Next]_vars => LogInv'
  <2> SUFFICES ASSUME TypeOK, TypeOK', NonceInv, EpochInv, LogInv, [Next]_vars
               PROVE  LogInv'
    OBVIOUS
  <2>1. ASSUME NEW i \in Submission, Begin(i) PROVE LogInv'
    BY <2>1, LogBegin
  <2>2. CASE Return
    BY <2>2, LogReturn
  <2>3. CASE Revert
    BY <2>3, LogRevert
  <2>4. CASE UNCHANGED <<frame, executed, storedNonce, agents>>
    <3>1. \A b \in Agent : ownershipVersion(b) <= ownershipVersion(b)'
      BY <2>4, VersionsTyped DEF ownershipVersion
    <3> QED BY <2>4, <3>1, LogQuiet
  <2>5. ASSUME NEW sender \in Account, RegistryCall(sender)
        PROVE  LogInv'
    <3>1. \A b \in Agent : ownershipVersion(b) <= ownershipVersion(b)'
      BY <2>5, RegistryStepFresh, StorageTyped DEF RegistryCall, TypeOK, EpochInv
    <3> QED BY <2>5, <3>1, CallLeavesGuard, LogQuiet
  <2>6. ASSUME NEW sender \in Account,
               WalletCall(sender) \/ PolicyCall(sender) \/ PauseCall(sender)
        PROVE  UNCHANGED <<frame, executed, storedNonce, agents>>
    BY <2>6, CallLeavesGuard DEF WalletCall, PolicyCall, PauseCall, PauseAgent,
       UnpauseAgent, SetPaused
  <2>7. NextBlock \/ UNCHANGED vars => UNCHANGED <<frame, executed, storedNonce, agents>>
    BY DEF NextBlock, vars, guardVars, logVars
  <2> QED BY <2>1, <2>2, <2>3, <2>4, <2>5, <2>6, <2>7 DEF Next, Execution
<1> QED BY <1>1, <1>2, GuardTypes, NoncesAreCounted, EpochsAreCounted, PTL DEF Spec

(***************************************************************************)
(* The sequence of one ownership epoch never runs into the next one's      *)
(* nonces: the last nonce of an epoch is refused (lines 29-33, 333-335).   *)
(***************************************************************************)
THEOREM NoncesStayInEpoch == Spec => []NonceOfItsEpoch
<1>1. TypeOK /\ LogInv => NonceOfItsEpoch
  <2> SUFFICES ASSUME TypeOK, LogInv, NEW k \in DOMAIN executed
               PROVE  executed[k].nonce \div SeqSpan = executed[k].epoch
    BY DEF NonceOfItsEpoch
  <2>1. /\ EpochBase(executed[k].epoch) <= executed[k].nonce
        /\ executed[k].nonce < EpochBase(executed[k].epoch + 1)
    BY DEF LogInv, LoggedInEpoch
  <2> QED BY <2>1, CommittedTyped, QuotientIsEpoch
<1> QED BY <1>1, GuardTypes, LogIsCounted, PTL

(***************************************************************************)
(* A nonce is used up by a successful execution and by nothing else: the   *)
(* nonces of the present epoch that nextNonce has passed are those in the  *)
(* log (lines 336 and 368).                                                *)
(***************************************************************************)
THEOREM UsedNoncesAreLogged == Spec => []NoncesMatchLog
<1>1. TypeOK /\ NonceInv /\ LogInv => NoncesMatchLog
  <2> SUFFICES ASSUME TypeOK, NonceInv, LogInv, frame = NoFrame, NEW a \in Agent
               PROVE  {executed[k].nonce : k \in {j \in DOMAIN executed :
                           executed[j].agent = a /\ executed[j].epoch = ownershipVersion(a)}}
                      = (ownershipVersion(a) * SeqSpan)..(nextNonce(a) - 1)
    BY DEF NoncesMatchLog
  <2>v. PICK v \in Nat : v = ownershipVersion(a)
    BY VersionsTyped
  <2>s. PICK s \in Nat : s = storedNonce[a]
    BY VersionsTyped
  <2>1. CommittedVersion(a) = v /\ CommittedNonce = storedNonce /\ CommittedNonce[a] = s
    BY <2>v, <2>s DEF CommittedVersion, CommittedNonce
  <2>2. EpochBase(v) \in Nat /\ EpochBase(v) = v * SeqSpan
    BY BasesGrow DEF EpochBase
  <2>3. nextNonce(a) = IF s >= EpochBase(v) THEN s ELSE EpochBase(v)
    BY <2>v, <2>s, <2>2 DEF nextNonce
  <2>4. ASSUME NEW k \in DOMAIN executed, executed[k].agent = a, executed[k].epoch = v
        PROVE  executed[k].nonce \in EpochBase(v)..(nextNonce(a) - 1)
    <3>1. EpochBase(v) <= executed[k].nonce /\ executed[k].nonce < s
      BY <2>1, <2>4 DEF LogInv, LoggedInEpoch, NonceInv
    <3>2. executed[k].nonce \in Nat
      BY CommittedTyped
    <3> QED BY <2>2, <2>3, <3>1, <3>2
  <2>5. ASSUME NEW n \in EpochBase(v)..(nextNonce(a) - 1)
        PROVE  \E k \in DOMAIN executed : /\ executed[k].agent = a /\ executed[k].nonce = n
                                          /\ executed[k].epoch = v
    <3>1. n \in Nat /\ EpochBase(v) <= n /\ n < s
      BY <2>2, <2>3
    <3> QED BY <2>1, <3>1 DEF LogInv, CounterMatchesLog
  <2> QED BY <2>v, <2>2, <2>4, <2>5
<1> QED BY <1>1, GuardTypes, NoncesAreCounted, LogIsCounted, PTL

-----------------------------------------------------------------------------
(***************************************************************************)
(* The registry's records that an execution has made follow the ones that  *)
(* its failure would bring back.                                           *)
(***************************************************************************)
AheadInv ==
    frame # NoFrame =>
        \A b \in Agent : MayFollow(frame.saved.agents[b], agents[b])

LEMMA MayFollowItself ==
    ASSUME NEW r, r.ownershipVersion \in Nat
    PROVE  MayFollow(r, r)
BY DEF MayFollow

LEMMA MayFollowOn ==
    ASSUME NEW r, NEW s, NEW t, MayFollow(r, s), MayFollow(s, t),
           r.ownershipVersion \in Nat, s.ownershipVersion \in Nat, t.ownershipVersion \in Nat
    PROVE  MayFollow(r, t)
BY DEF MayFollow

(* A call of the registry, as AgentRegistry.sol has it.                    *)
LEMMA RegistryStepFollows ==
    ASSUME RegistryTypeOK, FreshAgents(agents), NEW sender \in Account,
           RegistryStep(sender), UNCHANGED wallets, NEW b \in Agent
    PROVE  MayFollow(agents[b], agents'[b])
<1>1. /\ ownershipVersion(b) \in Nat
      /\ FreshAgents(agents)'
  BY RegistryAssumption, RegistryStepFresh
     DEF RegistryTypeOK, AgentRecord, ownershipVersion
<1> USE DEF ownerOf, ownershipVersion, walletOf, MayFollow
<1>2. CASE /\ ownerOf(b)' = ownerOf(b)
           /\ ownershipVersion(b)' = ownershipVersion(b)
           /\ \/ walletOf(b)' = walletOf(b)
              \/ walletOf(b) = ZeroAddress
  BY <1>1, <1>2
<1>3. CASE ownerOf(b) = ZeroAddress
  BY <1>3
<1>4. CASE /\ ownershipVersion(b)' = ownershipVersion(b) + 1
           /\ walletOf(b)' = walletOf(b)
  <2>1. agents'[b].owner # ZeroAddress
    BY <1>1, <1>4 DEF FreshAgents
  <2> QED BY <1>1, <1>4, <2>1
<1> QED BY <1>2, <1>3, <1>4, RegistryStepEpoch

LEMMA RecordsTyped ==
    ASSUME TypeOK, NEW b \in Agent
    PROVE  /\ agents[b] \in AgentRecord /\ agents[b].ownershipVersion \in Nat
           /\ committedAgents[b] \in AgentRecord
           /\ committedAgents[b].ownershipVersion \in Nat
<1>1. agents \in [Agent -> AgentRecord]
  BY StorageTyped DEF TypeOK, RegistryTypeOK
<1>2. committedAgents \in [Agent -> AgentRecord]
  BY <1>1, FrameTyped DEF committedAgents, StorageType
<1> QED BY <1>1, <1>2, RegistryAssumption DEF AgentRecord

(* What a step makes of the live records and of the committed ones.        *)
LEMMA StepsFollow ==
    ASSUME TypeOK, TypeOK', EpochInv, AheadInv, [Next]_vars
    PROVE  /\ AheadInv'
           /\ \A b \in Agent : MayFollow(committedAgents[b], committedAgents'[b])
<1> DEFINE Followed == \A b \in Agent : MayFollow(committedAgents[b], committedAgents'[b])
<1>t. \A b \in Agent : /\ MayFollow(agents[b], agents[b])
                       /\ MayFollow(committedAgents[b], committedAgents[b])
  BY RecordsTyped, MayFollowItself
<1>n. \A b \in Agent : agents'[b].ownershipVersion \in Nat
  <2>1. agents' \in [Agent -> AgentRecord]
    BY DEF TypeOK, Storage, StorageType
  <2> QED BY <2>1, RegistryAssumption DEF AgentRecord
<1>1. ASSUME NEW i \in Submission, Begin(i) PROVE AheadInv' /\ Followed
  <2>1. /\ frame = NoFrame /\ frame' # NoFrame /\ agents' = agents
        /\ frame'.saved.agents = agents
    BY <1>1, BeginFrame DEF Begin, Storage
  <2>2. UNCHANGED committedAgents
    BY <2>1 DEF committedAgents
  <2> QED BY <1>t, <2>1, <2>2 DEF AheadInv
<1>2. CASE Return
  <2>1. /\ frame # NoFrame /\ frame' = NoFrame /\ agents' = agents
    BY <1>2 DEF Return
  <2>2. /\ committedAgents = frame.saved.agents
        /\ committedAgents' = agents
    BY <2>1 DEF committedAgents
  <2> QED BY <2>1, <2>2 DEF AheadInv
<1>3. CASE Revert
  <2>1. /\ frame # NoFrame /\ frame' = NoFrame /\ agents' = frame.saved.agents
    BY <1>3 DEF Revert, RestoreOthers
  <2>2. UNCHANGED committedAgents
    BY <2>1 DEF committedAgents
  <2> QED BY <1>t, <2>1, <2>2 DEF AheadInv
<1>4. ASSUME frame' = frame, \A b \in Agent : MayFollow(agents[b], agents'[b])
      PROVE  AheadInv' /\ Followed
  <2>1. CASE frame = NoFrame
    BY <1>4, <2>1 DEF AheadInv, committedAgents
  <2>2. CASE frame # NoFrame
    <3>1. UNCHANGED committedAgents /\ committedAgents = frame.saved.agents
      BY <1>4, <2>2 DEF committedAgents
    <3>2. ASSUME NEW b \in Agent PROVE MayFollow(frame.saved.agents[b], agents'[b])
      <4>1. MayFollow(frame.saved.agents[b], agents[b])
        BY <2>2 DEF AheadInv
      <4>2. /\ agents[b].ownershipVersion \in Nat
            /\ frame.saved.agents[b].ownershipVersion \in Nat
        BY <3>1, RecordsTyped
      <4>3. agents'[b].ownershipVersion \in Nat
        BY <1>n
      <4> QED BY <1>4, <4>1, <4>2, <4>3, MayFollowOn
    <3> QED BY <1>t, <1>4, <3>1, <3>2 DEF AheadInv
  <2> QED BY <2>1, <2>2
<1>5. ASSUME NEW sender \in Account,
             \/ WalletCall(sender) \/ RegistryCall(sender)
             \/ PolicyCall(sender) \/ PauseCall(sender)
      PROVE  AheadInv' /\ Followed
  <2>1. frame' = frame
    BY <1>5, CallLeavesGuard
  <2>2. CASE UNCHANGED agents
    BY <1>t, <1>4, <2>1, <2>2
  <2>3. CASE RegistryStep(sender) /\ UNCHANGED wallets
    <3>1. RegistryTypeOK /\ FreshAgents(agents)
      BY StorageTyped DEF TypeOK, EpochInv
    <3> QED BY <1>4, <2>1, <2>3, <3>1, RegistryStepFollows
  <2> QED BY <1>5, <2>2, <2>3, CallsOfRegistry
<1>6. CASE NextBlock \/ UNCHANGED vars
  BY <1>t, <1>4, <1>6 DEF NextBlock, vars
<1> QED BY <1>1, <1>2, <1>3, <1>5, <1>6 DEF Next, Execution

(***************************************************************************)
(* AgentRegistry.sol under the guard: seen from outside of transactions    *)
(* the epochs of an agent only move forward, whatever targets do with it   *)
(* in executions that succeed or fail.                                     *)
(***************************************************************************)
THEOREM CommittedEpochsOnlyForward == Spec => CommittedEpochsMoveForward
<1> DEFINE Step == \A a \in Agent : MayFollow(committedAgents[a], committedAgents'[a])
<1>1. Init => AheadInv
  BY DEF Init, AheadInv
<1>2. TypeOK /\ TypeOK' /\ EpochInv /\ AheadInv /\ [Next]_vars => AheadInv' /\ [Step]_vars
  BY StepsFollow
<1> QED BY <1>1, <1>2, GuardTypes, EpochsAreCounted, PTL
           DEF Spec, CommittedEpochsMoveForward
=============================================================================
