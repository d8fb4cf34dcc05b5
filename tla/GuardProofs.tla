---------------------------- MODULE GuardProofs ----------------------------
(***************************************************************************)
(* Theorems about the execution guard composed with the registries and the *)
(* wallets, for any accounts, agents, policies, submissions and bounds.    *)
(***************************************************************************)
EXTENDS AgentExecutionGuard, RegistryProofs

USE PolicyAssumption, GuardAssumption

-----------------------------------------------------------------------------
(* The types of the storage, one component at a time.                      *)
LEMMA StorageTyped ==
    Storage \in StorageType <=>
        /\ WalletTypeOK
        /\ RegistryTypeOK
        /\ mandates \in [PolicyId -> Mandate]
        /\ policyHashOf \in [PolicyId -> PolicyHash \cup {NoHash}]
        /\ policyIdOfHash \in [PolicyHash -> PolicyId \cup {NoId}]
        /\ authorizedCalls \in [PolicyId -> SUBSET (Target \X Selector)]
        /\ authorizedNative \in [PolicyId -> SUBSET Target]
        /\ storedNonce \in [Agent -> Nat]
        /\ pausedAgents \in [Agent -> BOOLEAN]
        /\ dailySpend \in [PolicyHash -> [day : Nat, spent : Nat]]
BY DEF Storage, StorageType, WalletTypeOK, RegistryTypeOK

(* The same of the storage after a step.                                   *)
LEMMA StorageTypedNext ==
    ASSUME WalletTypeOK', RegistryTypeOK',
           mandates' \in [PolicyId -> Mandate],
           policyHashOf' \in [PolicyId -> PolicyHash \cup {NoHash}],
           policyIdOfHash' \in [PolicyHash -> PolicyId \cup {NoId}],
           authorizedCalls' \in [PolicyId -> SUBSET (Target \X Selector)],
           authorizedNative' \in [PolicyId -> SUBSET Target],
           storedNonce' \in [Agent -> Nat],
           pausedAgents' \in [Agent -> BOOLEAN],
           dailySpend' \in [PolicyHash -> [day : Nat, spent : Nat]]
    PROVE  Storage' \in StorageType
BY DEF Storage, StorageType, WalletTypeOK, RegistryTypeOK

(* Quotient facts: a later moment is not on an earlier day.                *)
LEMMA DayMonotone ==
    ASSUME NEW s \in Nat, NEW t \in Nat, s <= t
    PROVE  /\ s \div DayLength \in Nat
           /\ s \div DayLength <= s
           /\ s \div DayLength <= t \div DayLength
<1> DEFINE q(n) == n \div DayLength
<1>1. DayLength \in Nat /\ DayLength > 0
  BY GuardAssumption
<1>2. \A n \in Nat : q(n) \in Nat /\ q(n) * DayLength <= n /\ n < (q(n) + 1) * DayLength
  BY <1>1
<1> HIDE DEF q
<1>3. q(s) \in Nat /\ q(t) \in Nat
  BY <1>2
<1>4. q(s) <= s
  <2>1. q(s) <= q(s) * DayLength
    BY <1>1, <1>3
  <2> QED BY <1>1, <1>2, <1>3, <2>1
<1>5. q(s) <= q(t)
  <2>1. SUFFICES ASSUME q(t) + 1 <= q(s) PROVE FALSE
    BY <1>3
  <2>2. (q(t) + 1) * DayLength <= q(s) * DayLength
    BY <1>1, <1>3, <2>1
  <2>3. q(s) * DayLength \in Nat /\ (q(t) + 1) * DayLength \in Nat
    BY <1>1, <1>3
  <2> QED BY <1>2, <2>2, <2>3
<1> QED BY <1>3, <1>4, <1>5 DEF q

(* The present day is one of the model's days.                             *)
LEMMA TodayIsADay ==
    ASSUME now \in 0..MaxTime
    PROVE  today \in Day
<1>1. now \in Nat /\ MaxTime \in Nat
  BY PolicyAssumption
<1>2. today \in Nat /\ today <= now
  BY <1>1, DayMonotone DEF today
<1> QED BY <1>1, <1>2 DEF Day

-----------------------------------------------------------------------------
(* An intent is well typed, and so is what it has somebody pay.            *)
LEMMA SubmissionTyped ==
    ASSUME NEW i \in Submission
    PROVE  /\ i.agent \in Agent /\ i.wallet \in Wallet /\ i.policyHash \in PolicyHash
           /\ i.value \in Nat /\ i.nonce \in Nat
           /\ i.approval \in Approval \cup {NoApproval}
           /\ Outlay(i) \in Nat
           /\ Draws(i) => Payer(i) \in Wallet
<1>1. i \in SubmissionType
  BY GuardAssumption
<1>2. i.value \in Nat /\ i.inner.amount \in Nat
  BY <1>1 DEF SubmissionType
<1>3. Outlay(i) \in Nat
  BY <1>2 DEF Outlay
<1>4. i.wallet \in Wallet
  BY <1>1 DEF SubmissionType
<1>5. Draws(i) => Payer(i) \in Wallet
  BY <1>4 DEF Draws, Forwards, Payer
<1> QED BY <1>1, <1>3, <1>5 DEF SubmissionType

(* The first half of an execution keeps the types.                         *)
LEMMA BeginType ==
    ASSUME TypeOK, NEW i \in Submission, Begin(i)
    PROVE  TypeOK'
<1>1. i \in SubmissionType
  BY GuardAssumption
<1>2. /\ i.agent \in Agent /\ i.wallet \in Wallet /\ i.policyHash \in PolicyHash
      /\ i.value \in Nat /\ i.nonce \in Nat
  BY <1>1 DEF SubmissionType
<1>3. today \in Nat
  BY TodayIsADay DEF TypeOK, Day
<1>4. spentToday(i.policyHash) \in Nat
  BY <1>2, StorageTyped DEF TypeOK, spentToday
<1>5. dailySpend' \in [PolicyHash -> [day : Nat, spent : Nat]]
  <2> DEFINE bucket == [day |-> today, spent |-> spentToday(i.policyHash) + i.value]
  <2>1. bucket \in [day : Nat, spent : Nat]
    BY <1>2, <1>3, <1>4
  <2>2. dailySpend' = [dailySpend EXCEPT ![i.policyHash] = bucket]
    BY DEF Begin
  <2> HIDE DEF bucket
  <2> QED BY <2>1, <2>2, StorageTyped DEF TypeOK
<1>6. storedNonce' \in [Agent -> Nat]
  BY SMTT(30), <1>2, StorageTyped DEF TypeOK, Begin
<1>7. WalletTypeOK'
  <2>1. CASE Draws(i)
    <3>1. CanPay(Payer(i), Callee(i), Outlay(i))
      BY <2>1 DEF Begin, Admissible, CallStarts, CanExecute
    <3>2. Pay(Payer(i), Callee(i), Outlay(i)) \in [Wallet -> WalletRecord]
      BY <2>1, <3>1, PayType, StorageTyped, SubmissionTyped DEF TypeOK
    <3>3. wallets' = [Pay(Payer(i), Callee(i), Outlay(i)) EXCEPT ![Payer(i)].locked = TRUE]
      BY <2>1 DEF Begin
    <3>4. Payer(i) \in Wallet
      BY <2>1, SubmissionTyped
    <3> QED BY ZenonT(60), <3>2, <3>3, <3>4 DEF WalletTypeOK, WalletRecord
  <2>2. CASE ~Draws(i)
    BY <2>2, StorageTyped DEF Begin, TypeOK, WalletTypeOK
  <2> QED BY <2>1, <2>2
<1>8. Storage' \in StorageType
  <2>1. UNCHANGED <<agents, policyVars, pausedAgents>>
    BY DEF Begin
  <2> QED BY <1>5, <1>6, <1>7, <2>1, StorageTyped, StorageTypedNext
          DEF TypeOK, policyVars, RegistryTypeOK
<1>9. frame' \in Frame
  BY DEF TypeOK, Begin, Frame
<1> QED BY <1>8, <1>9 DEF TypeOK, Begin, logVars

(* The second half of an execution keeps the types.                        *)
LEMMA ReturnType ==
    ASSUME TypeOK, Return
    PROVE  TypeOK'
<1> DEFINE i == frame.intent
<1>1. frame \in Frame /\ i \in Submission /\ frame.saved \in StorageType
  BY DEF TypeOK, Return, Frame
<1>2. i \in SubmissionType
  BY <1>1, GuardAssumption
<1>3. /\ i.agent \in Agent /\ i.wallet \in Wallet /\ i.policyHash \in PolicyHash
      /\ i.value \in Nat /\ i.nonce \in Nat /\ i.approval \in Approval \cup {NoApproval}
  BY <1>2 DEF SubmissionType
<1>p. Outlay(i) \in Nat /\ (Draws(i) => Payer(i) \in Wallet)
  BY <1>1, SubmissionTyped
<1>4. today \in Day /\ today \in Nat
  BY TodayIsADay DEF TypeOK, Day
<1>5. Event(i) \in EventType
  <2>1. frame.saved.agents[i.agent] \in AgentRecord
    BY <1>1, <1>3 DEF StorageType
  <2> QED BY <1>3, <1>4, <1>p, <2>1 DEF Event, EventType, AgentRecord
<1>6. executed' \in Seq(EventType)
  BY <1>5 DEF TypeOK, Return
<1>7. paidOut' \in [PolicyHash -> [Day -> Nat]]
  <2> DEFINE h == i.policyHash
             row == [paidOut[h] EXCEPT ![today] = @ + Outlay(i)]
  <2>1. paidOut \in [PolicyHash -> [Day -> Nat]]
    BY DEF TypeOK
  <2>2. paidOut' = [paidOut EXCEPT ![h] = row]
    BY DEF Return
  <2>3. paidOut[h] \in [Day -> Nat]
    BY <1>3, <2>1
  <2>4. row \in [Day -> Nat]
    <3>1. paidOut[h][today] + Outlay(i) \in Nat
      BY <1>4, <1>p, <2>3
    <3> QED BY <2>3, <3>1
  <2> HIDE DEF row
  <2> QED BY <2>1, <2>2, <2>4
<1>8. WalletTypeOK'
  <2>1. WalletTypeOK
    BY StorageTyped DEF TypeOK
  <2>2. \/ wallets' = wallets
        \/ Draws(i) /\ wallets' = [wallets EXCEPT ![Payer(i)].locked = FALSE]
    BY DEF Return
  <2>3. ASSUME NEW w \in Wallet, wallets' = [wallets EXCEPT ![w].locked = FALSE]
        PROVE  WalletTypeOK'
    <3>1. [wallets[w] EXCEPT !.locked = FALSE] \in WalletRecord
      BY <2>1 DEF WalletTypeOK, WalletRecord
    <3> QED BY <2>1, <2>3, <3>1 DEF WalletTypeOK
  <2> QED BY <1>p, <2>1, <2>2, <2>3 DEF WalletTypeOK
<1>9. Storage' \in StorageType
  BY <1>8, StorageTyped, StorageTypedNext
     DEF TypeOK, Return, policyVars, guardVars, RegistryTypeOK
<1> QED BY <1>6, <1>7, <1>9 DEF TypeOK, Return

(* A failed call falls back to storage of the same types.                  *)
LEMMA RevertType ==
    ASSUME TypeOK, Revert
    PROVE  TypeOK'
<1>1. frame.saved \in StorageType
  BY DEF TypeOK, Revert, Frame
<1>2. Storage' = frame.saved
  BY <1>1 DEF Storage, StorageType, Revert, RestoreGuard, RestoreOthers
<1> QED BY <1>1, <1>2 DEF TypeOK, Revert, logVars

(* Every call outside an execution's two halves keeps the types.           *)
LEMMA CallType ==
    ASSUME TypeOK, NEW sender \in Account,
           \/ WalletCall(sender) \/ RegistryCall(sender)
           \/ PolicyCall(sender) \/ PauseCall(sender)
    PROVE  TypeOK'
<1>1. UNCHANGED <<now, frame, logVars>>
  BY DEF WalletCall, RegistryCall, PolicyCall, PauseCall, PauseAgent, UnpauseAgent,
     SetPaused
<1>2. SUFFICES Storage' \in StorageType
  BY <1>1 DEF TypeOK, logVars
<1>3. CASE WalletCall(sender)
  BY <1>3, WalletStepType, StorageTyped, StorageTypedNext
     DEF TypeOK, WalletCall, policyVars, guardVars, RegistryTypeOK
<1>4. CASE RegistryCall(sender)
  BY <1>4, RegistryStepType, StorageTyped, StorageTypedNext
     DEF TypeOK, RegistryCall, policyVars, guardVars, WalletTypeOK
<1>5. CASE PolicyCall(sender)
  <2>1. UNCHANGED <<wallets, agents, guardVars>> /\ PolicyStep(sender)
    BY <1>5 DEF PolicyCall
  <2>2. WalletTypeOK' /\ RegistryTypeOK'
    BY <2>1, StorageTyped DEF TypeOK, WalletTypeOK, RegistryTypeOK
  <2> QED BY <2>1, <2>2, PolicyStepType, StorageTyped, StorageTypedNext
          DEF TypeOK, guardVars
<1>6. CASE PauseCall(sender)
  <2>1. PICK a \in Agent, paused \in BOOLEAN : SetPaused(sender, a, paused)
    BY <1>6 DEF PauseCall, PauseAgent, UnpauseAgent
  <2>2. pausedAgents' \in [Agent -> BOOLEAN]
    BY <2>1, StorageTyped DEF TypeOK, SetPaused
  <2>3. WalletTypeOK' /\ RegistryTypeOK'
    BY <2>1, StorageTyped DEF TypeOK, SetPaused, WalletTypeOK, RegistryTypeOK
  <2> QED BY <2>1, <2>2, <2>3, StorageTyped, StorageTypedNext
          DEF TypeOK, SetPaused, policyVars
<1> QED BY <1>3, <1>4, <1>5, <1>6

(* The storage of the four contracts, the state an execution falls back to *)
(* and the log always hold values of their types.                          *)
THEOREM GuardTypes == Spec => []TypeOK
<1>1. Init => TypeOK
  <2> SUFFICES ASSUME Init PROVE TypeOK
    OBVIOUS
  <2>1. 0 \in 0..MaxVersion /\ 0 \in 0..MaxBalance /\ 0 \in 0..MaxTime
    BY RegistryAssumption, WalletAssumption, PolicyAssumption
  <2>2. WalletTypeOK
    BY <2>1 DEF Init, WalletInit, WalletTypeOK, WalletRecord, Undeployed, Address, AgentAddress
  <2>3. RegistryTypeOK
    BY <2>1 DEF Init, RegistryInit, RegistryTypeOK, AgentRecord, Unregistered, Address, AgentAddress
  <2>4. /\ mandates \in [PolicyId -> Mandate]
        /\ policyHashOf \in [PolicyId -> PolicyHash \cup {NoHash}]
        /\ policyIdOfHash \in [PolicyHash -> PolicyId \cup {NoId}]
        /\ authorizedCalls \in [PolicyId -> SUBSET (Target \X Selector)]
        /\ authorizedNative \in [PolicyId -> SUBSET Target]
    <3>1. NoMandate \in Mandate
      BY DEF NoMandate, Mandate, Address, AgentAddress
    <3> QED BY <3>1 DEF Init, PolicyInit
  <2>5. /\ storedNonce \in [Agent -> Nat]
        /\ pausedAgents \in [Agent -> BOOLEAN]
        /\ dailySpend \in [PolicyHash -> [day : Nat, spent : Nat]]
    BY DEF Init
  <2>6. executed \in Seq(EventType) /\ paidOut \in [PolicyHash -> [Day -> Nat]]
    BY DEF Init
  <2> QED BY <2>1, <2>2, <2>3, <2>4, <2>5, <2>6, StorageTyped DEF TypeOK, Init
<1>2. TypeOK /\ [Next]_vars => TypeOK'
  <2> SUFFICES ASSUME TypeOK, [Next]_vars PROVE TypeOK'
    OBVIOUS
  <2>1. ASSUME NEW i \in Submission, Begin(i) PROVE TypeOK'
    BY <2>1, BeginType
  <2>2. CASE Return
    BY <2>2, ReturnType
  <2>3. CASE Revert
    BY <2>3, RevertType
  <2>4. ASSUME NEW sender \in Account,
               \/ WalletCall(sender) \/ RegistryCall(sender)
               \/ PolicyCall(sender) \/ PauseCall(sender)
        PROVE  TypeOK'
    BY <2>4, CallType
  <2>5. CASE NextBlock
    <3>1. now' \in 0..MaxTime
      BY <2>5, PolicyAssumption DEF NextBlock, Tick, TypeOK
    <3>2. Storage' = Storage
      BY <2>5 DEF NextBlock, Storage, policyVars, guardVars
    <3> QED BY <2>5, <3>1, <3>2 DEF NextBlock, TypeOK, logVars
  <2>6. CASE UNCHANGED vars
    <3>1. Storage' = Storage
      BY <2>6 DEF vars, Storage, policyVars, guardVars
    <3> QED BY <2>6, <3>1 DEF vars, TypeOK, logVars
  <2> QED BY <2>1, <2>2, <2>3, <2>4, <2>5, <2>6 DEF Next, Execution
<1> QED BY <1>1, <1>2, PTL DEF Spec

-----------------------------------------------------------------------------
(***************************************************************************)
(* No replay.  NoReplay is not inductive: it says nothing of the counters  *)
(* the next execution's nonce comes from.  NonceInv adds that every logged *)
(* nonce is below the counter the transaction in progress started from,    *)
(* and that an execution in progress has moved that counter past its own.  *)
(***************************************************************************)
CommittedNonce == IF frame = NoFrame THEN storedNonce ELSE frame.saved.storedNonce

NonceInv ==
    /\ \A k \in DOMAIN executed :
           executed[k].nonce < CommittedNonce[executed[k].agent]
    /\ frame # NoFrame =>
           LET i == frame.intent IN
           /\ frame.saved.storedNonce[i.agent] <= i.nonce
           /\ storedNonce = [frame.saved.storedNonce EXCEPT ![i.agent] = i.nonce + 1]
    /\ NoReplay

(* The frame of a running execution is not the absence of one.             *)
LEMMA FrameIsNotNoFrame == NoFrame \notin Frame
BY GuardAssumption

(* The calls around an execution touch neither counters nor buckets.       *)
LEMMA CallLeavesGuard ==
    ASSUME NEW sender \in Account,
           \/ WalletCall(sender) \/ RegistryCall(sender)
           \/ PolicyCall(sender) \/ PauseCall(sender)
    PROVE  UNCHANGED <<now, frame, executed, paidOut, storedNonce, dailySpend>>
BY DEF WalletCall, RegistryCall, PolicyCall, PauseCall, PauseAgent, UnpauseAgent,
   SetPaused, logVars, guardVars

(* What the invariants use of an execution in progress.                    *)
LEMMA FrameTyped ==
    ASSUME TypeOK, frame # NoFrame
    PROVE  /\ frame.intent \in Submission
           /\ frame.saved \in StorageType
BY DEF TypeOK, Frame

(* A first half takes the storage it found as the one to fall back to.     *)
LEMMA BeginFrame ==
    ASSUME TypeOK, NEW i \in Submission, Begin(i)
    PROVE  /\ frame = NoFrame
           /\ frame' # NoFrame
           /\ frame'.intent = i
           /\ frame'.saved = Storage
           /\ UNCHANGED <<now, executed, paidOut>>
<1>1. frame' = [intent |-> i, saved |-> Storage]
  BY DEF Begin
<1>2. frame' \in Frame
  BY <1>1 DEF TypeOK, Frame
<1> QED BY <1>1, <1>2, FrameIsNotNoFrame DEF Begin, logVars

(* The counter an execution starts from is not above its nonce.            *)
LEMMA BeginNonce ==
    ASSUME TypeOK, NEW i \in Submission, Begin(i)
    PROVE  /\ storedNonce[i.agent] <= i.nonce
           /\ storedNonce' = [storedNonce EXCEPT ![i.agent] = i.nonce + 1]
<1>1. storedNonce[i.agent] \in Nat /\ ownershipVersion(i.agent) \in Nat
  BY SubmissionTyped, StorageTyped, RegistryAssumption
     DEF TypeOK, RegistryTypeOK, AgentRecord, ownershipVersion
<1>2. ownershipVersion(i.agent) * SeqSpan \in Nat
  BY <1>1, GuardAssumption
<1>3. i.nonce = nextNonce(i.agent)
  BY DEF Begin, Admissible
<1> QED BY <1>1, <1>2, <1>3 DEF nextNonce, Begin

LEMMA NonceBegin ==
    ASSUME TypeOK, NonceInv, NEW i \in Submission, Begin(i)
    PROVE  NonceInv'
<1>1. frame'.saved.storedNonce = storedNonce
  BY BeginFrame DEF Storage
<1>2. CommittedNonce' = CommittedNonce
  BY <1>1, BeginFrame DEF CommittedNonce
<1> QED BY <1>1, <1>2, BeginFrame, BeginNonce DEF NonceInv, NoReplay

LEMMA NonceReturn ==
    ASSUME TypeOK, NonceInv, Return
    PROVE  NonceInv'
<1> DEFINE i == frame.intent
           base == frame.saved.storedNonce
<1>1. /\ frame # NoFrame /\ frame' = NoFrame
      /\ executed' = Append(executed, Event(i))
      /\ UNCHANGED storedNonce
  BY DEF Return, guardVars
<1>2. /\ i.agent \in Agent /\ i.nonce \in Nat
      /\ base \in [Agent -> Nat]
  BY <1>1, FrameTyped, SubmissionTyped DEF StorageType
<1>3. Event(i).agent = i.agent /\ Event(i).nonce = i.nonce
  BY DEF Event
<1>4. CommittedNonce = base /\ CommittedNonce' = storedNonce
  BY <1>1 DEF CommittedNonce
<1>5. base[i.agent] <= i.nonce /\ storedNonce = [base EXCEPT ![i.agent] = i.nonce + 1]
  BY <1>1 DEF NonceInv
<1>6. \A a \in Agent : base[a] <= storedNonce[a]
  BY <1>2, <1>5
<1>7. \A k \in DOMAIN executed :
         /\ executed[k].agent \in Agent
         /\ executed[k].nonce \in Nat
         /\ executed[k].nonce < base[executed[k].agent]
  <2> SUFFICES ASSUME NEW k \in DOMAIN executed
               PROVE  /\ executed[k].agent \in Agent
                      /\ executed[k].nonce \in Nat
                      /\ executed[k].nonce < base[executed[k].agent]
    OBVIOUS
  <2>1. executed[k] \in EventType
    BY DEF TypeOK
  <2> QED BY <1>4, <2>1 DEF NonceInv, EventType
<1> HIDE DEF i, base
<1>8. /\ Len(executed) \in Nat /\ DOMAIN executed = 1..Len(executed)
      /\ DOMAIN executed' = 1..(Len(executed) + 1)
      /\ \A k \in DOMAIN executed : executed'[k] = executed[k]
      /\ executed'[Len(executed) + 1] = Event(i)
  BY <1>1 DEF TypeOK
<1>9. storedNonce[i.agent] = i.nonce + 1
  BY <1>2, <1>5
<1>10. \A k \in DOMAIN executed' :
          executed'[k].nonce < storedNonce[executed'[k].agent]
  <2> SUFFICES ASSUME NEW k \in DOMAIN executed'
               PROVE  executed'[k].nonce < storedNonce[executed'[k].agent]
    OBVIOUS
  <2>1. CASE k \in DOMAIN executed
    <3>1. executed[k].nonce < base[executed[k].agent]
      BY <1>7, <2>1
    <3>2. base[executed[k].agent] <= storedNonce[executed[k].agent]
      BY <1>6, <1>7, <2>1
    <3>3. storedNonce[executed[k].agent] \in Nat /\ base[executed[k].agent] \in Nat
      BY <1>2, <1>7, <2>1, StorageTyped DEF TypeOK
    <3> QED BY <1>7, <1>8, <2>1, <3>1, <3>2, <3>3
  <2>2. CASE k = Len(executed) + 1
    BY <1>2, <1>3, <1>8, <1>9, <2>2
  <2> QED BY <1>8, <2>1, <2>2
<1>11. NoReplay'
  <2> SUFFICES ASSUME NEW j \in DOMAIN executed', NEW k \in DOMAIN executed',
                      j < k, executed'[j].agent = executed'[k].agent
               PROVE  executed'[j].nonce < executed'[k].nonce
    BY DEF NoReplay
  <2>1. j \in DOMAIN executed
    BY <1>8
  <2>2. CASE k \in DOMAIN executed
    BY <1>8, <2>1, <2>2 DEF NonceInv, NoReplay
  <2>3. CASE k = Len(executed) + 1
    <3>1. executed[j].agent = i.agent
      BY <1>3, <1>8, <2>1, <2>3
    <3>2. executed[j].nonce < base[i.agent]
      BY <1>7, <2>1, <3>1
    <3>3. executed[j].nonce < i.nonce
      BY <1>2, <1>5, <1>7, <2>1, <3>2
    <3> QED BY <1>3, <1>8, <2>1, <2>3, <3>3
  <2> QED BY <1>8, <2>2, <2>3
<1> QED BY <1>1, <1>4, <1>10, <1>11 DEF NonceInv

LEMMA NonceRevert ==
    ASSUME TypeOK, NonceInv, Revert
    PROVE  NonceInv'
<1>1. /\ frame # NoFrame /\ frame' = NoFrame
      /\ storedNonce' = frame.saved.storedNonce
      /\ UNCHANGED executed
  BY DEF Revert, RestoreGuard, logVars
<1>2. CommittedNonce' = CommittedNonce
  BY <1>1 DEF CommittedNonce
<1> QED BY <1>1, <1>2 DEF NonceInv, NoReplay

(* Every logged nonce is behind the committed counter, in every execution. *)
THEOREM NoncesAreCounted == Spec => []NonceInv
<1>1. Init => NonceInv
  BY DEF Init, NonceInv, NoReplay
<1>2. TypeOK /\ NonceInv /\ [Next]_vars => NonceInv'
  <2> SUFFICES ASSUME TypeOK, NonceInv, [Next]_vars PROVE NonceInv'
    OBVIOUS
  <2>1. ASSUME NEW i \in Submission, Begin(i) PROVE NonceInv'
    BY <2>1, NonceBegin
  <2>2. CASE Return
    BY <2>2, NonceReturn
  <2>3. CASE Revert
    BY <2>3, NonceRevert
  <2>4. CASE UNCHANGED <<frame, executed, storedNonce>>
    BY <2>4 DEF NonceInv, NoReplay, CommittedNonce
  <2>5. ASSUME NEW sender \in Account,
               \/ WalletCall(sender) \/ RegistryCall(sender)
               \/ PolicyCall(sender) \/ PauseCall(sender)
        PROVE  UNCHANGED <<frame, executed, storedNonce>>
    BY <2>5, CallLeavesGuard
  <2>6. NextBlock \/ UNCHANGED vars => UNCHANGED <<frame, executed, storedNonce>>
    BY DEF NextBlock, vars, guardVars, logVars
  <2> QED BY <2>1, <2>2, <2>3, <2>4, <2>5, <2>6 DEF Next, Execution
<1> QED BY <1>1, <1>2, GuardTypes, PTL DEF Spec

(* No agent's nonce is executed twice, through any number of handoffs,     *)
(* nested calls and failed executions.                                     *)
THEOREM NoReplayEver == Spec => []NoReplay
BY NoncesAreCounted, PTL DEF NonceInv

-----------------------------------------------------------------------------
(***************************************************************************)
(* What the registries and the wallets guarantee by themselves, they still *)
(* guarantee when targets call them in the middle of an execution and when *)
(* a failed execution takes everything back: the storage to fall back to   *)
(* has the same properties as the storage it replaces.                     *)
(***************************************************************************)
Saved == INSTANCE AgentRegistry WITH
    wallets <- frame.saved.wallets,
    agents <- frame.saved.agents

SavedPolicies == INSTANCE PolicyRegistry WITH
    mandates <- frame.saved.mandates,
    policyHashOf <- frame.saved.policyHashOf,
    policyIdOfHash <- frame.saved.policyIdOfHash,
    authorizedCalls <- frame.saved.authorizedCalls,
    authorizedNative <- frame.saved.authorizedNative

AuthorityInv ==
    /\ AuthorityOfThisEpoch
    /\ frame # NoFrame => Saved!AuthorityOfThisEpoch

CanonicalInv ==
    /\ CanonicalWallet
    /\ frame # NoFrame => Saved!CanonicalWallet

CommitmentInv ==
    /\ PolicyInv
    /\ frame # NoFrame =>
           /\ SavedPolicies!HashCommitsToTerms
           /\ \A h \in PolicyHash :
                  frame.saved.policyIdOfHash[h] # NoId => WellFormed(h.terms)

(* A first half and a second half leave every wallet its agent.            *)
LEMMA ExecutionKeepsAgents ==
    ASSUME TypeOK, \/ \E i \in Submission : Begin(i)
                   \/ Return
    PROVE  \A v \in Wallet : wallets'[v].agent = wallets[v].agent
<1>1. wallets \in [Wallet -> WalletRecord]
  BY StorageTyped DEF TypeOK, WalletTypeOK
<1>2. ASSUME NEW i \in Submission, Begin(i)
      PROVE  \A v \in Wallet : wallets'[v].agent = wallets[v].agent
  <2> SUFFICES ASSUME Draws(i)
               PROVE  \A v \in Wallet : wallets'[v].agent = wallets[v].agent
    BY <1>2 DEF Begin
  <2> DEFINE w == Payer(i)
             paid == Pay(w, Callee(i), Outlay(i))
  <2>1. w \in Wallet
    BY SubmissionTyped
  <2>2. DOMAIN paid = Wallet /\ \A v \in Wallet : paid[v].agent = wallets[v].agent
    <3> DEFINE debited == [wallets EXCEPT ![w].balance = @ - Outlay(i)]
    <3>1. DOMAIN debited = Wallet /\ \A v \in Wallet : debited[v].agent = wallets[v].agent
      BY <1>1, <2>1 DEF WalletRecord
    <3>2. CASE Callee(i) \in Wallet
      BY <1>1, <2>1, <3>1, <3>2 DEF Pay, WalletRecord
    <3>3. CASE Callee(i) \notin Wallet
      BY <3>1, <3>3 DEF Pay
    <3> QED BY <3>2, <3>3
  <2>3. wallets' = [paid EXCEPT ![w].locked = TRUE]
    BY <1>2 DEF Begin
  <2> HIDE DEF paid
  <2> QED BY <2>1, <2>2, <2>3
<1>3. CASE Return
  BY <1>1, <1>3, FrameTyped, SubmissionTyped DEF Return, WalletRecord
<1> QED BY <1>2, <1>3

(* Which of the steps touch what the two invariants speak of.              *)
LEMMA CallsOfRegistry ==
    ASSUME NEW sender \in Account,
           \/ WalletCall(sender) \/ RegistryCall(sender)
           \/ PolicyCall(sender) \/ PauseCall(sender)
    PROVE  /\ UNCHANGED frame
           /\ \/ WalletStep(sender) /\ UNCHANGED <<agents, policyVars>>
              \/ RegistryStep(sender) /\ UNCHANGED <<wallets, policyVars>>
              \/ PolicyStep(sender) /\ UNCHANGED <<wallets, agents, now>>
              \/ UNCHANGED <<wallets, agents, policyVars>>
BY DEF WalletCall, RegistryCall, PolicyCall, PauseCall, PauseAgent, UnpauseAgent, SetPaused

(***************************************************************************)
(* AgentRegistry.sol under the guard: no activity and no guardian outlives *)
(* a handoff, also when a target hands its own agent over in the middle of *)
(* an execution and the execution then fails.                              *)
(***************************************************************************)
THEOREM AuthorityUnderExecution == Spec => []AuthorityOfThisEpoch
<1> USE DEF isActiveAgent, ownershipVersion, Saved!isActiveAgent, Saved!ownershipVersion
<1>1. Init => AuthorityInv
  BY DEF Init, RegistryInit, Unregistered, AuthorityInv, AuthorityOfThisEpoch
<1>2. TypeOK /\ AuthorityInv /\ [Next]_vars => AuthorityInv'
  <2> SUFFICES ASSUME TypeOK, AuthorityInv, [Next]_vars PROVE AuthorityInv'
    OBVIOUS
  <2>1. ASSUME NEW i \in Submission, Begin(i) PROVE AuthorityInv'
    <3>1. UNCHANGED agents /\ frame'.saved.agents = agents
      BY <2>1, BeginFrame DEF Begin, Storage
    <3> QED BY <3>1 DEF AuthorityInv, AuthorityOfThisEpoch, Saved!AuthorityOfThisEpoch
  <2>2. CASE Return
    BY <2>2 DEF Return, AuthorityInv, AuthorityOfThisEpoch
  <2>3. CASE Revert
    <3>1. /\ frame # NoFrame /\ frame' = NoFrame
          /\ agents' = frame.saved.agents
      BY <2>3 DEF Revert, RestoreOthers
    <3> QED BY <3>1 DEF AuthorityInv, AuthorityOfThisEpoch, Saved!AuthorityOfThisEpoch
  <2>4. ASSUME AuthorityOfThisEpoch', UNCHANGED frame PROVE AuthorityInv'
    BY <2>4 DEF AuthorityInv, Saved!AuthorityOfThisEpoch
  <2>5. ASSUME UNCHANGED agents PROVE AuthorityOfThisEpoch'
    BY <2>5 DEF AuthorityInv, AuthorityOfThisEpoch
  <2>6. ASSUME NEW sender \in Account,
               \/ WalletCall(sender) \/ RegistryCall(sender)
               \/ PolicyCall(sender) \/ PauseCall(sender)
        PROVE  AuthorityInv'
    <3>1. ASSUME RegistryStep(sender) PROVE AuthorityOfThisEpoch'
      BY <3>1, RegistryStepAuthority, StorageTyped DEF TypeOK, AuthorityInv
    <3> QED BY <2>4, <2>5, <2>6, <3>1, CallsOfRegistry
  <2>7. CASE NextBlock \/ UNCHANGED vars
    BY <2>4, <2>5, <2>7 DEF NextBlock, vars
  <2> QED BY <2>1, <2>2, <2>3, <2>6, <2>7 DEF Next, Execution
<1> QED BY <1>1, <1>2, GuardTypes, PTL DEF Spec, AuthorityInv

(***************************************************************************)
(* AgentSmartWallet.sol and AgentRegistry.sol under the guard: the wallet  *)
(* an execution draws on is a deployed one of that very agent and bound to *)
(* no other agent.                                                         *)
(***************************************************************************)
THEOREM CanonicalUnderExecution == Spec => []CanonicalWallet
<1> DEFINE Bound == \A a \in Agent : BoundToAgent(a)
<1>0. Bound <=> CanonicalWallet
  BY DEF BoundToAgent, CanonicalWallet
<1>1. Init => CanonicalInv
  BY DEF Init, RegistryInit, Unregistered, CanonicalInv, CanonicalWallet, walletOf
<1>2. TypeOK /\ CanonicalInv /\ [Next]_vars => CanonicalInv'
  <2> SUFFICES ASSUME TypeOK, CanonicalInv, [Next]_vars PROVE CanonicalInv'
    OBVIOUS
  <2> USE DEF walletOf, HasCode, Saved!walletOf, Saved!HasCode
  <2>0. CustodyTypeOK /\ Bound
    BY <1>0, StorageTyped DEF TypeOK, CustodyTypeOK, CanonicalInv
  <2>1. ASSUME UNCHANGED agents,
               \A v \in Wallet : HasCode(v) => wallets'[v].agent = wallets[v].agent
        PROVE  CanonicalWallet'
    <3>1. ASSUME NEW a \in Agent PROVE BoundToAgent(a)'
      BY <2>0, <2>1, WalletsKeepBound DEF CustodyTypeOK
    <3> QED BY <3>1 DEF BoundToAgent, CanonicalWallet
  <2>2. ASSUME NEW i \in Submission, Begin(i) PROVE CanonicalInv'
    <3>1. UNCHANGED agents /\ frame'.saved.agents = agents /\ frame'.saved.wallets = wallets
      BY <2>2, BeginFrame DEF Begin, Storage
    <3>2. CanonicalWallet'
      BY <2>1, <2>2, <3>1, ExecutionKeepsAgents
    <3> QED BY <3>1, <3>2 DEF CanonicalInv, CanonicalWallet, Saved!CanonicalWallet
  <2>3. CASE Return
    <3>1. UNCHANGED agents /\ frame' = NoFrame
      BY <2>3 DEF Return
    <3> QED BY <2>1, <2>3, <3>1, ExecutionKeepsAgents DEF CanonicalInv
  <2>4. CASE Revert
    <3>1. /\ frame # NoFrame /\ frame' = NoFrame
          /\ agents' = frame.saved.agents /\ wallets' = frame.saved.wallets
      BY <2>4 DEF Revert, RestoreOthers
    <3> QED BY <3>1 DEF CanonicalInv, CanonicalWallet, Saved!CanonicalWallet
  <2>5. ASSUME CanonicalWallet', UNCHANGED frame PROVE CanonicalInv'
    BY <2>5 DEF CanonicalInv, Saved!CanonicalWallet
  <2>6. ASSUME NEW sender \in Account,
               \/ WalletCall(sender) \/ RegistryCall(sender)
               \/ PolicyCall(sender) \/ PauseCall(sender)
        PROVE  CanonicalInv'
    <3>1. ASSUME WalletStep(sender), UNCHANGED agents PROVE CanonicalWallet'
      BY <2>0, <2>1, <3>1, WalletAgentStays DEF CustodyTypeOK
    <3>2. ASSUME RegistryStep(sender), UNCHANGED wallets PROVE CanonicalWallet'
      <4>1. ASSUME NEW a \in Agent PROVE BoundToAgent(a)'
        BY <2>0, <3>2, RegistryKeepsBound
      <4> QED BY <4>1 DEF BoundToAgent, CanonicalWallet
    <3>3. ASSUME UNCHANGED <<wallets, agents>> PROVE CanonicalWallet'
      BY <2>1, <3>3
    <3> QED BY <2>5, <2>6, <3>1, <3>2, <3>3, CallsOfRegistry
  <2>7. CASE NextBlock \/ UNCHANGED vars
    BY <2>1, <2>5, <2>7 DEF NextBlock, vars
  <2> QED BY <2>2, <2>3, <2>4, <2>6, <2>7 DEF Next, Execution
<1> QED BY <1>1, <1>2, GuardTypes, PTL DEF Spec, CanonicalInv

(***************************************************************************)
(* PolicyRegistry.sol under the guard: the hash in a signed intent leads   *)
(* to the terms it was made from in every execution, whatever policies the *)
(* targets create, and whatever a failed execution takes back.             *)
(***************************************************************************)
THEOREM CommitmentUnderExecution == Spec => []CommitmentInv
<1>1. Init => CommitmentInv
  <2> SUFFICES ASSUME Init PROVE CommitmentInv
    OBVIOUS
  <2>1. PolicySpecInit /\ frame = NoFrame
    BY DEF Init, PolicySpecInit
  <2> QED BY <2>1, PolicyInvInit DEF CommitmentInv
<1>2. TypeOK /\ CommitmentInv /\ [Next]_vars => CommitmentInv'
  <2> SUFFICES ASSUME TypeOK, CommitmentInv, [Next]_vars PROVE CommitmentInv'
    OBVIOUS
  <2> USE DEF PolicyInv, HashCommitsToTerms, Committed, SavedPolicies!HashCommitsToTerms,
              SavedPolicies!Committed
  <2>0. /\ SavedPolicies!PolicyHash = PolicyHash
        /\ SavedPolicies!PolicyId = PolicyId
        /\ SavedPolicies!NoMandate = NoMandate
    BY DEF PolicyHash, PolicyId, NoMandate, SavedPolicies!PolicyHash, SavedPolicies!PolicyId,
           SavedPolicies!NoMandate
  <2>1. ASSUME NEW i \in Submission, Begin(i) PROVE CommitmentInv'
    <3>1. /\ UNCHANGED policyVars
          /\ frame'.saved.mandates = mandates
          /\ frame'.saved.policyHashOf = policyHashOf
          /\ frame'.saved.policyIdOfHash = policyIdOfHash
          /\ frame'.saved.authorizedCalls = authorizedCalls
          /\ frame'.saved.authorizedNative = authorizedNative
      BY <2>1, BeginFrame DEF Begin, Storage
    <3>2. PolicyInv'
      BY <3>1 DEF CommitmentInv, policyVars
    <3>3. ASSUME NEW h \in PolicyHash, frame'.saved.policyIdOfHash[h] # NoId
          PROVE  /\ frame'.saved.policyIdOfHash[h] = h.id
                 /\ SavedPolicies!Committed(h)'
                 /\ WellFormed(h.terms)
      BY <3>1, <3>3 DEF CommitmentInv
    <3>4. ASSUME NEW id \in PolicyId
          PROVE  IF frame'.saved.policyHashOf[id] = NoHash
                 THEN /\ frame'.saved.mandates[id] = NoMandate
                      /\ frame'.saved.authorizedCalls[id] = {}
                      /\ frame'.saved.authorizedNative[id] = {}
                 ELSE frame'.saved.policyIdOfHash[frame'.saved.policyHashOf[id]] = id
      BY <3>1 DEF CommitmentInv
    <3>5. SavedPolicies!HashCommitsToTerms'
      <4> HIDE DEF SavedPolicies!Committed
      <4> QED BY <2>0, <3>3, <3>4
    <3> HIDE DEF PolicyInv, SavedPolicies!HashCommitsToTerms
    <3> QED BY <3>2, <3>3, <3>5 DEF CommitmentInv
  <2>2. CASE Return
    BY <2>2 DEF Return, CommitmentInv, policyVars
  <2>3. CASE Revert
    <3>1. /\ frame # NoFrame /\ frame' = NoFrame /\ RestoreOthers
      BY <2>3 DEF Revert
    <3>2. ASSUME NEW h \in PolicyHash, policyIdOfHash'[h] # NoId
          PROVE  policyIdOfHash'[h] = h.id /\ Committed(h)' /\ WellFormed(h.terms)
      BY <2>0, <3>1, <3>2 DEF CommitmentInv, RestoreOthers
    <3>3. ASSUME NEW id \in PolicyId
          PROVE  IF policyHashOf'[id] = NoHash
                 THEN mandates'[id] = NoMandate /\ authorizedCalls'[id] = {}
                          /\ authorizedNative'[id] = {}
                 ELSE policyIdOfHash'[policyHashOf'[id]] = id
      BY <2>0, <3>1 DEF CommitmentInv, RestoreOthers
    <3>4. PolicyInv'
      <4> HIDE DEF Committed
      <4> QED BY <3>2, <3>3
    <3> QED BY <3>1, <3>4 DEF CommitmentInv
  <2>4. ASSUME PolicyInv', UNCHANGED frame PROVE CommitmentInv'
    BY <2>4 DEF CommitmentInv
  <2>5. ASSUME UNCHANGED policyVars PROVE PolicyInv'
    BY <2>5 DEF CommitmentInv, policyVars
  <2>6. ASSUME NEW sender \in Account,
               \/ WalletCall(sender) \/ RegistryCall(sender)
               \/ PolicyCall(sender) \/ PauseCall(sender)
        PROVE  CommitmentInv'
    <3>1. PolicyTypeOK /\ PolicyInv
      BY StorageTyped DEF TypeOK, PolicyTypeOK, CommitmentInv
    <3> HIDE DEF PolicyInv, HashCommitsToTerms, Committed,
                 SavedPolicies!HashCommitsToTerms, SavedPolicies!Committed
    <3>2. ASSUME PolicyStep(sender) PROVE PolicyInv'
      BY <3>1, <3>2, PolicyStepKeepsHashes
    <3> QED BY <2>4, <2>5, <2>6, <3>2, CallsOfRegistry
  <2>7. CASE NextBlock \/ UNCHANGED vars
    BY <2>4, <2>5, <2>7 DEF NextBlock, vars
  <2> QED BY <2>1, <2>2, <2>3, <2>6, <2>7 DEF Next, Execution
<1> QED BY <1>1, <1>2, GuardTypes, PTL DEF Spec

(***************************************************************************)
(* createPolicy and checkAuthorization under the guard: hashes mean their  *)
(* terms, and active policies are usable, in the middle of executions too. *)
(***************************************************************************)
THEOREM PoliciesUnderExecution == Spec => [](HashCommitsToTerms /\ ActivePolicyIsUsable)
<1>1. TypeOK => PolicyTypeOK
  BY StorageTyped DEF TypeOK, PolicyTypeOK
<1>2. CommitmentInv => PolicyInv
  BY DEF CommitmentInv
<1>3. PolicyInv => HashCommitsToTerms
  BY DEF PolicyInv
<1> QED BY <1>1, <1>2, <1>3, CommittedIsUsable, CommitmentUnderExecution, GuardTypes, PTL

-----------------------------------------------------------------------------
(***************************************************************************)
(* The daily limit.  The Guard compares a bucket with the limit of a       *)
(* stored mandate; the property speaks of what wallets paid and of the     *)
(* limit under the hash.  The policy registry's invariant ties mandate and *)
(* authorizations to the hash; Ledger ties bucket and payments together    *)
(* between executions; Charging says what an execution in progress has     *)
(* done to the bucket, that the limit allows it, and that the wallet pays  *)
(* what the bucket was charged, if the policy is bounded.                  *)
(***************************************************************************)
CommittedSpend == IF frame = NoFrame THEN dailySpend ELSE frame.saved.dailySpend

Ledger(h) ==
    /\ CommittedSpend[h].day <= today
    /\ Bounded(h) =>
           /\ paidOut[h][CommittedSpend[h].day] = CommittedSpend[h].spent
           /\ \A d \in Day : d > CommittedSpend[h].day => paidOut[h][d] = 0

Charging ==
    LET i == frame.intent
        bucket == frame.saved.dailySpend[i.policyHash]
        before == IF bucket.day = today THEN bucket.spent ELSE 0
    IN  /\ dailySpend = [frame.saved.dailySpend EXCEPT ![i.policyHash] =
                            [day |-> today, spent |-> before + i.value]]
        /\ before + i.value <= i.policyHash.terms.dailyLimit
        /\ Bounded(i.policyHash) => Outlay(i) = i.value

SpendInv ==
    /\ \A h \in PolicyHash : Ledger(h)
    /\ frame # NoFrame => Charging
    /\ DailyCap

(* The mandate and the calls an admissible intent is measured by are those *)
(* of its hash.                                                            *)
LEMMA AdmissibleMeans ==
    ASSUME TypeOK, CommitmentInv, NEW i \in Submission, Admissible(i)
    PROVE  /\ mandateOf(i.policyHash).owner = i.policyHash.id[1]
           /\ mandateOf(i.policyHash).owner = ownerOf(i.agent)
           /\ mandateOf(i.policyHash).dailyLimit = i.policyHash.terms.dailyLimit
           /\ mandateOf(i.policyHash).approvalThreshold
                = i.policyHash.terms.approvalThreshold
           /\ i.kind \in Selector => <<i.target, i.kind>> \in i.policyHash.terms.calls
           /\ i.kind = NativeTransfer \/ i.kind \in Selector
<1>h. PICK h \in PolicyHash : h = i.policyHash
  BY SubmissionTyped
<1>1. checkAuthorization(h, i.agent, ownerOf(i.agent), i.target, i.kind, i.value)
  BY <1>h DEF Admissible, PolicyAllows
<1>2. policyIdOfHash[h] # NoId
  BY <1>1 DEF checkAuthorization, callAllowed
<1>3. policyIdOfHash[h] = h.id /\ Committed(h)
  BY <1>2 DEF CommitmentInv, PolicyInv, HashCommitsToTerms
<1>4. mandateOf(h) = mandates[h.id]
  BY <1>2, <1>3 DEF mandateOf
<1>5. /\ mandates[h.id].owner = h.id[1]
      /\ mandates[h.id].dailyLimit = h.terms.dailyLimit
      /\ mandates[h.id].approvalThreshold = h.terms.approvalThreshold
      /\ authorizedCalls[h.id] = h.terms.calls
  BY <1>3 DEF Committed
<1>6. /\ i.kind = NativeTransfer \/ (i.kind \in Selector
                                     /\ <<i.target, i.kind>> \in authorizedCalls[h.id])
      /\ mandateOf(h).owner = ownerOf(i.agent)
  BY <1>1, <1>3 DEF checkAuthorization, callAllowed
<1>7. NativeTransfer \notin Selector
  BY PolicyAssumption
<1> QED BY <1>h, <1>4, <1>5, <1>6, <1>7

(* Under a bounded policy a wallet pays the value that the Guard checked.  *)
LEMMA BoundedPaysValue ==
    ASSUME TypeOK, CommitmentInv, NEW i \in Submission, Admissible(i), Bounded(i.policyHash)
    PROVE  Outlay(i) = i.value
<1> SUFFICES ASSUME Forwards(i) PROVE FALSE
  BY DEF Outlay
<1>1. i.target \in Wallet /\ i.kind = WalletExecute
  BY DEF Forwards
<1>2. <<i.target, WalletExecute>> \in i.policyHash.terms.calls
  BY <1>1, AdmissibleMeans, GuardAssumption
<1> QED BY <1>1, <1>2 DEF Bounded

LEMMA SpendBegin ==
    ASSUME TypeOK, CommitmentInv, SpendInv, NEW i \in Submission, Begin(i)
    PROVE  SpendInv'
<1>1. /\ frame = NoFrame /\ frame' # NoFrame /\ frame'.intent = i
      /\ frame'.saved.dailySpend = dailySpend
      /\ UNCHANGED <<now, paidOut, today>>
  BY BeginFrame DEF Storage, today
<1>2. CommittedSpend' = CommittedSpend
  BY <1>1 DEF CommittedSpend
<1>3. \A h \in PolicyHash : Ledger(h)'
  BY <1>1, <1>2 DEF SpendInv, Ledger
<1>4. Charging'
  <2>1. Admissible(i)
    BY DEF Begin
  <2>2. mandateOf(i.policyHash).dailyLimit = i.policyHash.terms.dailyLimit
    BY <2>1, AdmissibleMeans
  <2>3. spentToday(i.policyHash) + i.value <= i.policyHash.terms.dailyLimit
    BY <2>1, <2>2 DEF Admissible, WithinDailyLimit
  <2>4. dailySpend' = [dailySpend EXCEPT ![i.policyHash] =
                          [day |-> today, spent |-> spentToday(i.policyHash) + i.value]]
    BY DEF Begin
  <2>5. Bounded(i.policyHash) => Outlay(i) = i.value
    BY <2>1, BoundedPaysValue
  <2> QED BY <1>1, <2>3, <2>4, <2>5 DEF Charging, spentToday
<1> QED BY <1>1, <1>3, <1>4 DEF SpendInv, DailyCap

LEMMA SpendReturn ==
    ASSUME TypeOK, SpendInv, Return
    PROVE  SpendInv'
<1>h. PICK h \in PolicyHash : h = frame.intent.policyHash
  BY FrameTyped, SubmissionTyped DEF Return
<1>v. PICK v \in Nat : v = frame.intent.value
  BY FrameTyped, SubmissionTyped DEF Return
<1>p. PICK p \in Nat : p = Outlay(frame.intent)
  BY FrameTyped, SubmissionTyped DEF Return
<1> DEFINE bucket == frame.saved.dailySpend[h]
           before == IF bucket.day = today THEN bucket.spent ELSE 0
<1>1. /\ frame # NoFrame /\ frame' = NoFrame
      /\ paidOut' = [paidOut EXCEPT ![h][today] = @ + p]
      /\ UNCHANGED <<now, today, dailySpend>>
  BY <1>h, <1>p DEF Return, guardVars, today
<1>2. frame.saved.dailySpend \in [PolicyHash -> [day : Nat, spent : Nat]]
  BY <1>1, FrameTyped DEF StorageType
<1>3. today \in Day /\ today \in Nat /\ paidOut \in [PolicyHash -> [Day -> Nat]]
  BY TodayIsADay DEF TypeOK, Day
<1>4. /\ dailySpend = [frame.saved.dailySpend EXCEPT ![h] =
                          [day |-> today, spent |-> before + v]]
      /\ before + v <= h.terms.dailyLimit
      /\ Bounded(h) => p = v
  BY <1>1, <1>h, <1>v, <1>p DEF SpendInv, Charging
<1>5. CommittedSpend = frame.saved.dailySpend /\ CommittedSpend' = dailySpend
  BY <1>1 DEF CommittedSpend
<1>6. bucket \in [day : Nat, spent : Nat] /\ Ledger(h)
  BY <1>2 DEF SpendInv
<1>7. ASSUME Bounded(h) PROVE paidOut[h][today] = before
  <2>1. CASE bucket.day = today
    BY <1>5, <1>6, <1>7, <2>1 DEF Ledger
  <2>2. CASE bucket.day # today
    <3>1. today > bucket.day
      BY <1>3, <1>5, <1>6, <2>2 DEF Ledger
    <3> QED BY <1>3, <1>5, <1>6, <1>7, <2>2, <3>1 DEF Ledger
  <2> QED BY <2>1, <2>2
<1>8. /\ paidOut'[h][today] = paidOut[h][today] + p
      /\ \A d \in Day : d # today => paidOut'[h][d] = paidOut[h][d]
      /\ \A g \in PolicyHash : g # h => paidOut'[g] = paidOut[g]
  BY <1>1, <1>3
<1>9. dailySpend[h].day = today /\ dailySpend[h].spent = before + v
  BY <1>2, <1>4
<1>10. Ledger(h)'
  <2>1. ASSUME Bounded(h)
        PROVE  /\ paidOut'[h][today] = before + v
               /\ \A d \in Day : d > today => paidOut'[h][d] = 0
    <3>1. paidOut'[h][today] = before + v
      BY <1>4, <1>7, <1>8, <2>1
    <3>2. ASSUME NEW d \in Day, d > today PROVE paidOut'[h][d] = 0
      <4>1. d > bucket.day
        BY <1>3, <1>5, <1>6, <3>2 DEF Ledger, Day
      <4>2. paidOut[h][d] = 0
        BY <1>5, <1>6, <2>1, <4>1 DEF Ledger
      <4> QED BY <1>3, <1>8, <3>2, <4>2 DEF Day
    <3> QED BY <3>1, <3>2
  <2>2. CommittedSpend'[h].day = today' /\ CommittedSpend'[h].spent = before + v
    BY <1>1, <1>5, <1>9
  <2>3. today' <= today'
    BY <1>1, <1>3
  <2> HIDE DEF before
  <2> QED BY <1>1, <2>1, <2>2, <2>3 DEF Ledger
<1>11. ASSUME NEW g \in PolicyHash, g # h PROVE Ledger(g)'
  <2>1. dailySpend[g] = frame.saved.dailySpend[g]
    BY <1>2, <1>4, <1>11
  <2>2. Ledger(g)
    BY DEF SpendInv
  <2>3. paidOut'[g] = paidOut[g]
    BY <1>8, <1>11
  <2> QED BY <1>1, <1>5, <2>1, <2>2, <2>3 DEF Ledger
<1>12. DailyCap'
  <2> SUFFICES ASSUME NEW g \in PolicyHash, Bounded(g), NEW d \in Day
               PROVE  paidOut'[g][d] <= g.terms.dailyLimit
    BY DEF DailyCap, Bounded
  <2>1. paidOut[g][d] <= g.terms.dailyLimit
    BY DEF SpendInv, DailyCap
  <2>2. CASE g = h /\ d = today
    BY <1>4, <1>7, <1>8, <2>2
  <2>3. CASE ~(g = h /\ d = today)
    BY <1>8, <2>1, <2>3
  <2> QED BY <2>2, <2>3
<1> QED BY <1>1, <1>10, <1>11, <1>12 DEF SpendInv

LEMMA SpendRevert ==
    ASSUME TypeOK, SpendInv, Revert
    PROVE  SpendInv'
<1>1. /\ frame # NoFrame /\ frame' = NoFrame
      /\ dailySpend' = frame.saved.dailySpend
      /\ UNCHANGED <<now, paidOut, today>>
  BY DEF Revert, RestoreGuard, logVars, today
<1>2. CommittedSpend' = CommittedSpend
  BY <1>1 DEF CommittedSpend
<1> QED BY <1>1, <1>2 DEF SpendInv, Ledger, DailyCap

LEMMA SpendNextBlock ==
    ASSUME TypeOK, SpendInv, NextBlock
    PROVE  SpendInv'
<1>1. /\ frame = NoFrame /\ now' = now + 1
      /\ UNCHANGED <<frame, paidOut, dailySpend>>
  BY DEF NextBlock, Tick, guardVars, logVars
<1>2. now \in Nat /\ now + 1 \in Nat
  BY PolicyAssumption DEF TypeOK
<1>3. today \in Nat /\ today' \in Nat /\ today <= today'
  BY <1>1, <1>2, DayMonotone DEF today
<1>4. UNCHANGED CommittedSpend
  BY <1>1 DEF CommittedSpend
<1>5. ASSUME NEW h \in PolicyHash PROVE Ledger(h)'
  <2>1. CommittedSpend[h].day \in Nat
    BY <1>1, StorageTyped DEF CommittedSpend, TypeOK
  <2>2. Ledger(h)
    BY DEF SpendInv
  <2> QED BY <1>1, <1>3, <1>4, <2>1, <2>2 DEF Ledger
<1> QED BY <1>1, <1>5 DEF SpendInv, DailyCap

(* The inductive invariant of the daily limit holds.                       *)
THEOREM SpendingIsAccounted == Spec => []SpendInv
<1>1. Init => SpendInv
  <2> SUFFICES ASSUME Init PROVE SpendInv
    OBVIOUS
  <2>1. frame = NoFrame /\ now = 0
    BY DEF Init
  <2>3. today \in Nat /\ 0 \in Day
    BY <2>1, TodayIsADay, PolicyAssumption DEF Day
  <2>4. ASSUME NEW h \in PolicyHash PROVE Ledger(h)
    BY <2>1, <2>3 DEF Init, Ledger, CommittedSpend
  <2>5. ASSUME NEW h \in PolicyHash, NEW d \in Day
        PROVE  paidOut[h][d] <= h.terms.dailyLimit
    <3>1. h.terms.dailyLimit \in Nat
      BY PolicyAssumption DEF PolicyHash, TermsType
    <3> QED BY <3>1 DEF Init
  <2> QED BY <2>1, <2>4, <2>5 DEF SpendInv, DailyCap
<1>2. TypeOK /\ CommitmentInv /\ SpendInv /\ [Next]_vars => SpendInv'
  <2> SUFFICES ASSUME TypeOK, CommitmentInv, SpendInv, [Next]_vars PROVE SpendInv'
    OBVIOUS
  <2>1. ASSUME NEW i \in Submission, Begin(i) PROVE SpendInv'
    BY <2>1, SpendBegin
  <2>2. CASE Return
    BY <2>2, SpendReturn
  <2>3. CASE Revert
    BY <2>3, SpendRevert
  <2>4. CASE NextBlock
    BY <2>4, SpendNextBlock
  <2>5. ASSUME UNCHANGED <<now, frame, paidOut, dailySpend>> PROVE SpendInv'
    <3>1. UNCHANGED <<today, CommittedSpend>>
      BY <2>5 DEF today, CommittedSpend
    <3> QED BY <2>5, <3>1 DEF SpendInv, Ledger, Charging, DailyCap
  <2>6. ASSUME NEW sender \in Account,
               \/ WalletCall(sender) \/ RegistryCall(sender)
               \/ PolicyCall(sender) \/ PauseCall(sender)
        PROVE  UNCHANGED <<now, frame, paidOut, dailySpend>>
    BY <2>6, CallLeavesGuard
  <2>7. UNCHANGED vars => UNCHANGED <<now, frame, paidOut, dailySpend>>
    BY DEF vars, guardVars, logVars
  <2> QED BY <2>1, <2>2, <2>3, <2>4, <2>5, <2>6, <2>7 DEF Next, Execution
<1> QED BY <1>1, <1>2, GuardTypes, CommitmentUnderExecution, PTL DEF Spec

(* No bounded policy has wallets pay more on a day than its hash allows.   *)
THEOREM DailyCapHolds == Spec => []DailyCap
BY SpendingIsAccounted, PTL DEF SpendInv

(* Between executions its bucket holds exactly what wallets paid for it.   *)
THEOREM LedgerIsExact == Spec => []LedgerExact
<1>1. SpendInv => LedgerExact
  BY DEF SpendInv, LedgerExact, Ledger, CommittedSpend
<1> QED BY <1>1, SpendingIsAccounted, PTL

-----------------------------------------------------------------------------
(***************************************************************************)
(* Approvals.  The log speaks of the owner in the storage the transaction  *)
(* started from, so the invariant says of an execution in progress what    *)
(* LargePaymentsApproved says of a logged one.                             *)
(***************************************************************************)
ApprovalInv ==
    /\ frame # NoFrame =>
           LET i == frame.intent
               owner == frame.saved.agents[i.agent].owner
           IN  /\ owner = i.policyHash.id[1]
               /\ Bounded(i.policyHash) /\ Outlay(i) > i.policyHash.terms.approvalThreshold
                      => i.approval # NoApproval /\ i.approval.signer = owner
    /\ LargePaymentsApproved

LEMMA ApprovalBegin ==
    ASSUME TypeOK, CommitmentInv, ApprovalInv, NEW i \in Submission, Begin(i)
    PROVE  ApprovalInv'
<1>1. /\ frame'.intent = i
      /\ frame'.saved.agents = agents
      /\ UNCHANGED executed
  BY BeginFrame DEF Storage
<1>2. Admissible(i)
  BY DEF Begin
<1>3. /\ agents[i.agent].owner = i.policyHash.id[1]
      /\ mandateOf(i.policyHash).approvalThreshold = i.policyHash.terms.approvalThreshold
  BY <1>2, AdmissibleMeans DEF ownerOf
<1>4. i.value > i.policyHash.terms.approvalThreshold
         => i.approval # NoApproval /\ i.approval.signer = agents[i.agent].owner
  BY <1>2, <1>3 DEF Admissible, Approved, ownerOf
<1>5. Bounded(i.policyHash) => Outlay(i) = i.value
  BY <1>2, BoundedPaysValue
<1> QED BY <1>1, <1>3, <1>4, <1>5 DEF ApprovalInv, LargePaymentsApproved

LEMMA ApprovalReturn ==
    ASSUME TypeOK, ApprovalInv, Return
    PROVE  ApprovalInv'
<1> DEFINE e == Event(frame.intent)
<1>1. /\ frame # NoFrame /\ frame' = NoFrame
      /\ executed' = Append(executed, e)
  BY DEF Return
<1>2. /\ e.owner = e.policyHash.id[1]
      /\ Bounded(e.policyHash) /\ e.paid > e.policyHash.terms.approvalThreshold
             => e.approval # NoApproval /\ e.approval.signer = e.owner
  BY <1>1 DEF ApprovalInv, Event
<1> HIDE DEF e
<1>3. /\ DOMAIN executed' = 1..(Len(executed) + 1)
      /\ DOMAIN executed = 1..Len(executed)
      /\ \A k \in DOMAIN executed : executed'[k] = executed[k]
      /\ executed'[Len(executed) + 1] = e
  BY <1>1 DEF TypeOK
<1>4. Len(executed) \in Nat
  BY DEF TypeOK
<1>5. \A k \in DOMAIN executed' : k \in DOMAIN executed \/ k = Len(executed) + 1
  BY <1>3, <1>4
<1> QED BY <1>1, <1>2, <1>3, <1>5 DEF ApprovalInv, LargePaymentsApproved

(* No payment of a bounded policy above its threshold without the owner's  *)
(* approval, whatever the callee does to the agent's ownership meanwhile.  *)
THEOREM LargePaymentsAreApproved == Spec => []LargePaymentsApproved
<1>1. Init => ApprovalInv
  BY DEF Init, ApprovalInv, LargePaymentsApproved
<1>2. TypeOK /\ CommitmentInv /\ ApprovalInv /\ [Next]_vars => ApprovalInv'
  <2> SUFFICES ASSUME TypeOK, CommitmentInv, ApprovalInv, [Next]_vars PROVE ApprovalInv'
    OBVIOUS
  <2>1. ASSUME NEW i \in Submission, Begin(i) PROVE ApprovalInv'
    BY <2>1, ApprovalBegin
  <2>2. CASE Return
    BY <2>2, ApprovalReturn
  <2>3. CASE Revert
    BY <2>3 DEF Revert, logVars, ApprovalInv, LargePaymentsApproved
  <2>4. CASE UNCHANGED <<frame, executed>>
    BY <2>4 DEF ApprovalInv, LargePaymentsApproved
  <2>5. ASSUME NEW sender \in Account,
               \/ WalletCall(sender) \/ RegistryCall(sender)
               \/ PolicyCall(sender) \/ PauseCall(sender)
        PROVE  UNCHANGED <<frame, executed>>
    BY <2>5, CallLeavesGuard
  <2>6. NextBlock \/ UNCHANGED vars => UNCHANGED <<frame, executed>>
    BY DEF NextBlock, vars, logVars
  <2> QED BY <2>1, <2>2, <2>3, <2>4, <2>5, <2>6 DEF Next, Execution
<1>3. ApprovalInv => LargePaymentsApproved
  BY DEF ApprovalInv
<1> QED BY <1>1, <1>2, <1>3, GuardTypes, CommitmentUnderExecution, PTL DEF Spec

-----------------------------------------------------------------------------
(***************************************************************************)
(* One payout per call.  A wallet that pays for an execution keeps its     *)
(* lock shut and its code in place until the call returns, and so neither  *)
(* its owner nor a guard takes a second amount out of it.                  *)
(***************************************************************************)
PayoutInv ==
    frame # NoFrame /\ Draws(frame.intent) =>
        LET w == Payer(frame.intent) IN
        /\ HasCode(w)
        /\ wallets[w].locked
        /\ wallets[w].balance >= frame.saved.wallets[w].balance - Outlay(frame.intent)

LEMMA PayoutBegin ==
    ASSUME TypeOK, NEW i \in Submission, Begin(i)
    PROVE  PayoutInv'
<1> SUFFICES ASSUME Draws(i) PROVE PayoutInv'
  BY BeginFrame DEF PayoutInv
<1>w. PICK w \in Wallet : w = Payer(i)
  BY SubmissionTyped
<1>v. PICK v \in Nat : v = Outlay(i)
  BY SubmissionTyped
<1>1. WalletTypeOK
  BY StorageTyped DEF TypeOK
<1>2. /\ frame'.intent = i
      /\ frame'.saved.wallets = wallets
  BY BeginFrame DEF Storage
<1>3. HasCode(w) /\ CanPay(w, Callee(i), v)
  BY <1>w, <1>v DEF Begin, Admissible, CallStarts, CanExecute
<1>4. wallets' = [Pay(w, Callee(i), v) EXCEPT ![w].locked = TRUE]
  BY <1>w, <1>v DEF Begin
<1>5. Pay(w, Callee(i), v) \in [Wallet -> WalletRecord]
  BY <1>1, <1>3, PayType
<1>6. /\ Pay(w, Callee(i), v)[w].agent = wallets[w].agent
      /\ Pay(w, Callee(i), v)[w].balance >= wallets[w].balance - v
  <2>1. wallets[w].balance \in Nat /\ wallets[w] \in WalletRecord
    BY <1>1, WalletAssumption DEF WalletTypeOK, WalletRecord
  <2> DEFINE debited == [wallets EXCEPT ![w].balance = @ - v]
  <2>2. /\ debited[w].agent = wallets[w].agent
        /\ debited[w].balance = wallets[w].balance - v
        /\ DOMAIN debited = Wallet
        /\ DOMAIN debited[w] = DOMAIN wallets[w]
    BY <1>1 DEF WalletTypeOK, WalletRecord
  <2>3. debited[w].balance \in Int
    BY <2>1, <2>2
  <2>4. DOMAIN debited[w] = {"owner", "agent", "executionGuard", "balance", "locked"}
    BY <2>1, <2>2 DEF WalletRecord
  <2> HIDE DEF debited
  <2>5. CASE Callee(i) = w
    <3>1. Pay(w, w, v) = [debited EXCEPT ![w].balance = @ + v]
      BY DEF Pay, debited
    <3>2. /\ [debited EXCEPT ![w].balance = @ + v][w].agent = debited[w].agent
          /\ [debited EXCEPT ![w].balance = @ + v][w].balance = debited[w].balance + v
      BY <2>2, <2>4
    <3> QED BY <2>1, <2>2, <2>5, <3>1, <3>2
  <2>6. CASE Callee(i) # w
    <3>1. Pay(w, Callee(i), v) = IF Callee(i) \in Wallet
             THEN [debited EXCEPT ![Callee(i)].balance = @ + v] ELSE debited
      BY DEF Pay, debited
    <3>2. Pay(w, Callee(i), v)[w] = debited[w]
      BY <2>2, <2>6, <3>1
    <3> QED BY <2>1, <2>2, <2>3, <3>2
  <2> QED BY <2>5, <2>6
<1>7. /\ wallets'[w].agent = wallets[w].agent
      /\ wallets'[w].balance >= wallets[w].balance - v
      /\ wallets'[w].locked
  BY <1>4, <1>5, <1>6 DEF WalletRecord
<1> QED BY <1>w, <1>v, <1>2, <1>3, <1>7 DEF PayoutInv, HasCode

(* A wallet with code and with its lock shut loses nothing in any call.    *)
LEMMA LockedWalletKeeps ==
    ASSUME WalletTypeOK, NEW sender \in Account, WalletStep(sender),
           NEW w \in Wallet, HasCode(w), wallets[w].locked
    PROVE  /\ HasCode(w)'
           /\ wallets'[w].locked
           /\ wallets'[w].balance >= wallets[w].balance
<1>1. PICK x \in Wallet :
        \/ \E o \in Address, g \in GuardAddress, a \in Agent : Deploy(x, o, g, a)
        \/ \E amount \in 1..MaxBalance : Receive(x, amount)
        \/ \E newOwner \in Address : TransferWalletOwnership(sender, x, newOwner)
        \/ \E to \in Account \cup Wallet, amount \in 1..MaxBalance :
              \/ RecoverNative(sender, x, to, amount)
              \/ Execute(sender, x, to, amount)
  BY DEF WalletStep
<1>2. /\ wallets \in [Wallet -> WalletRecord]
      /\ DOMAIN wallets[w] = {"owner", "agent", "executionGuard", "balance", "locked"}
      /\ wallets[w].balance \in Nat
  BY WalletAssumption DEF WalletTypeOK, WalletRecord
<1>n. \A amount \in 1..MaxBalance : amount \in Nat
  BY WalletAssumption
<1> DEFINE Keeps == /\ wallets'[w].agent = wallets[w].agent
                    /\ wallets'[w].locked = wallets[w].locked
                    /\ wallets[w].balance <= wallets'[w].balance
<1>b. wallets[w].balance <= wallets[w].balance
  BY <1>2
<1>c. ASSUME wallets'[w] = wallets[w] PROVE Keeps
  BY <1>b, <1>c, Zenon
<1>d. ASSUME NEW amount \in Nat, wallets'[w] = [wallets[w] EXCEPT !.balance = @ + amount]
      PROVE  Keeps
  <2>1. wallets'[w].balance = wallets[w].balance + amount
    BY <1>2, <1>d
  <2>2. wallets[w].balance <= wallets'[w].balance
    BY <1>2, <2>1
  <2>3. /\ wallets'[w].agent = wallets[w].agent
        /\ wallets'[w].locked = wallets[w].locked
    BY <1>2, <1>d, Zenon
  <2> QED BY <2>2, <2>3
<1>3. ASSUME NEW o \in Address, NEW g \in GuardAddress, NEW a \in Agent,
             Deploy(x, o, g, a)
      PROVE  Keeps
  <2>1. wallets'[w] = wallets[w]
    BY <1>2, <1>3 DEF Deploy
  <2> QED BY <1>c, <2>1
<1>4. ASSUME NEW amount \in 1..MaxBalance, Receive(x, amount)
      PROVE  Keeps
  <2>1. wallets' = [wallets EXCEPT ![x].balance = @ + amount]
    BY <1>4 DEF Receive
  <2>2. CASE x = w
    <3>1. wallets'[w] = [wallets[w] EXCEPT !.balance = @ + amount]
      BY <1>2, <2>1, <2>2
    <3> QED BY <1>d, <1>n, <3>1
  <2>3. CASE x # w
    <3>1. wallets'[w] = wallets[w]
      BY <1>2, <2>1, <2>3
    <3> QED BY <1>c, <3>1
  <2> QED BY <2>2, <2>3
<1>5. ASSUME NEW newOwner \in Address, TransferWalletOwnership(sender, x, newOwner)
      PROVE  Keeps
  <2>1. wallets'[w] = wallets[w] \/ wallets'[w] = [wallets[w] EXCEPT !.owner = newOwner]
    BY <1>2, <1>5 DEF TransferWalletOwnership
  <2>2. CASE wallets'[w] = [wallets[w] EXCEPT !.owner = newOwner]
    <3>1. /\ wallets'[w].agent = wallets[w].agent
          /\ wallets'[w].locked = wallets[w].locked
          /\ wallets'[w].balance = wallets[w].balance
      BY <1>2, <2>2, Zenon
    <3> QED BY <1>b, <3>1, Zenon
  <2> QED BY <1>c, <2>1, <2>2
<1>6. ASSUME NEW to \in Account \cup Wallet, NEW amount \in 1..MaxBalance,
             RecoverNative(sender, x, to, amount) \/ Execute(sender, x, to, amount)
      PROVE  Keeps
  <2>1. x # w /\ wallets' = Pay(x, to, amount)
    BY <1>6 DEF RecoverNative, Execute, CanExecute
  <2> DEFINE debited == [wallets EXCEPT ![x].balance = @ - amount]
  <2>2. debited[w] = wallets[w] /\ DOMAIN debited = Wallet
    BY <1>2, <2>1
  <2> HIDE DEF debited
  <2>3. wallets' = IF to \in Wallet THEN [debited EXCEPT ![to].balance = @ + amount]
                                    ELSE debited
    BY <2>1 DEF Pay, debited
  <2>4. CASE to = w
    <3>1. wallets'[w] = [wallets[w] EXCEPT !.balance = @ + amount]
      BY <2>2, <2>3, <2>4
    <3> QED BY <1>d, <1>n, <3>1
  <2>5. CASE to # w
    <3>1. wallets'[w] = wallets[w]
      BY <2>2, <2>3, <2>5
    <3> QED BY <1>c, <3>1
  <2> QED BY <2>4, <2>5
<1> HIDE DEF Keeps
<1>7. Keeps
  BY <1>1, <1>3, <1>4, <1>5, <1>6
<1> QED BY <1>7 DEF Keeps, HasCode

(* Whatever happens before the call returns, the paying wallet is short of *)
(* the intent's value and of nothing else.                                 *)
THEOREM OnePayout == Spec => []OnePayoutPerCall
<1>1. Init => PayoutInv
  BY DEF Init, PayoutInv
<1>2. TypeOK /\ PayoutInv /\ [Next]_vars => PayoutInv'
  <2> SUFFICES ASSUME TypeOK, PayoutInv, [Next]_vars PROVE PayoutInv'
    OBVIOUS
  <2>1. ASSUME NEW i \in Submission, Begin(i) PROVE PayoutInv'
    BY <2>1, PayoutBegin
  <2>2. CASE frame' = NoFrame
    BY <2>2 DEF PayoutInv
  <2>3. CASE UNCHANGED <<frame, wallets>>
    BY <2>3 DEF PayoutInv, HasCode
  <2>4. ASSUME NEW sender \in Account, WalletCall(sender) PROVE PayoutInv'
    <3> SUFFICES ASSUME frame # NoFrame, Draws(frame.intent) PROVE PayoutInv'
      BY <2>4 DEF WalletCall, PayoutInv
    <3>1. PICK w \in Wallet : w = Payer(frame.intent)
      BY FrameTyped, SubmissionTyped
    <3>2. PICK floor \in Int :
             floor = frame.saved.wallets[w].balance - Outlay(frame.intent)
      <4>1. frame.saved.wallets[w].balance \in Int
        BY FrameTyped, WalletAssumption DEF StorageType, WalletRecord
      <4>2. Outlay(frame.intent) \in Nat
        BY FrameTyped, SubmissionTyped
      <4> QED BY <4>1, <4>2
    <3>3. HasCode(w) /\ wallets[w].locked /\ wallets[w].balance >= floor
      BY <3>1, <3>2 DEF PayoutInv
    <3>4. WalletTypeOK /\ WalletTypeOK' /\ WalletStep(sender) /\ UNCHANGED frame
      BY <2>4, StorageTyped, WalletStepType DEF TypeOK, WalletCall
    <3>5. /\ HasCode(w)' /\ wallets'[w].locked
          /\ wallets'[w].balance >= wallets[w].balance
      BY <3>3, <3>4, LockedWalletKeeps
    <3>6. wallets'[w].balance >= floor
      <4>1. wallets[w].balance \in Int /\ wallets'[w].balance \in Int
        BY <3>4, WalletAssumption DEF WalletTypeOK, WalletRecord
      <4> QED BY <3>3, <3>5, <4>1
    <3> QED BY <3>1, <3>2, <3>4, <3>5, <3>6 DEF PayoutInv, HasCode
  <2>5. ASSUME NEW sender \in Account,
               RegistryCall(sender) \/ PolicyCall(sender) \/ PauseCall(sender)
        PROVE  UNCHANGED <<frame, wallets>>
    BY <2>5 DEF RegistryCall, PolicyCall, PauseCall, PauseAgent, UnpauseAgent, SetPaused
  <2>6. NextBlock \/ UNCHANGED vars => UNCHANGED <<frame, wallets>>
    BY DEF NextBlock, vars
  <2>7. Return \/ Revert => frame' = NoFrame
    BY DEF Return, Revert
  <2> QED BY <2>1, <2>2, <2>3, <2>4, <2>5, <2>6, <2>7 DEF Next, Execution
<1>3. PayoutInv => OnePayoutPerCall
  BY DEF PayoutInv, OnePayoutPerCall
<1> QED BY <1>1, <1>2, <1>3, GuardTypes, PTL DEF Spec

=============================================================================
