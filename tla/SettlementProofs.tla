--------------------------- MODULE SettlementProofs ---------------------------
(***************************************************************************)
(* For any intents, actions, accounts, amounts, delay and nesting: a bounty*)
(* is paid once, an attestation settles once, a dead intent settles        *)
(* nothing, the veto window is kept, no refund beats an approval and the   *)
(* contracts are solvent.                                                  *)
(*                                                                         *)
(* A call into Hook that reverts restores saved storage, so what is proved *)
(* of the storage is proved of every saved one (Sound), and each saved one *)
(* is an earlier stage of those above it and of the present one (Precedes):*)
(* what a revert takes back can only be what was done inside the call.     *)
(***************************************************************************)
EXTENDS Settlement, SequenceTheorems, FiniteSetTheorems, TLAPS

Calls == [caller: Addresses \cup {NoAccount}, data: Calldata \cup {""}, value: Nat]
BountyRecord == [funder: Callers \cup {NoAccount}, amount: Nat, claimed: BOOLEAN]
AuditRecord == [funded: Nat, claims: Nat, refunds: Nat, paid: Nat, uses: Nat]
Storage == [intents: [Intents -> GateIntents], settled: [Pairs -> BOOLEAN],
            deposits: [Pairs -> Nat], executed: [Pairs -> BOOLEAN],
            bounties: [Pairs -> BountyRecord], consumed: [Pairs -> BOOLEAN],
            lastCall: Calls, eth: [Addresses -> Nat], audit: [Pairs -> AuditRecord]]

Typed == SettlementTypeOK /\ lastCall \in Calls /\ stack \in Seq(Storage)

-----------------------------------------------------------------------------
(* Types. *)

LEMMA SavedType == SettlementTypeOK /\ lastCall \in Calls => Saved \in Storage
BY DEF SettlementTypeOK, GateTypeOK, Saved, Storage, BountyRecord, AuditRecord

\* A call into Hook adds a frame, its end removes the last one.
LEMMA PushFrame ==
    ASSUME NEW S, NEW s \in Seq(S), NEW f \in S
    PROVE  /\ Append(s, f) \in Seq(S) /\ Len(Append(s, f)) = Len(s) + 1
           /\ \A n \in 1..Len(s) : Append(s, f)[n] = s[n]
           /\ Append(s, f)[Len(s) + 1] = f
OBVIOUS

LEMMA PopFrame ==
    ASSUME NEW S, NEW s \in Seq(S), s # <<>>
    PROVE  /\ Front(s) \in Seq(S) /\ Len(Front(s)) = Len(s) - 1
           /\ \A n \in 1..(Len(s) - 1) : Front(s)[n] = s[n]
           /\ Last(s) \in S /\ Last(s) = s[Len(s)] /\ Len(s) \in Nat \ {0}
<1>1. Len(s) \in Nat \ {0}
  OBVIOUS
<1>2. \A n \in 1..(Len(s) - 1) : s[n] \in S
  BY <1>1
<1>3. /\ SubSeq(s, 1, Len(s) - 1) \in Seq(S)
      /\ Len(SubSeq(s, 1, Len(s) - 1)) = IF 1 <= Len(s) - 1 THEN Len(s) - 1 - 1 + 1 ELSE 0
      /\ \A n \in 1..(Len(s) - 1 - 1 + 1) : SubSeq(s, 1, Len(s) - 1)[n] = s[1 + n - 1]
  BY <1>1, <1>2, SubSeqProperties
<1>4. Front(s) = SubSeq(s, 1, Len(s) - 1) /\ Last(s) = s[Len(s)]
  BY DEF Front, Last
<1>5. Len(Front(s)) = Len(s) - 1
  <2>1. \A n \in Nat \ {0} : (IF 1 <= n - 1 THEN n - 1 - 1 + 1 ELSE 0) = n - 1
    OBVIOUS
  <2> QED
    BY <1>1, <1>3, <1>4, <2>1, Zenon
<1>6. ASSUME NEW n \in 1..(Len(s) - 1) PROVE Front(s)[n] = s[n]
  <2>1. n \in 1..(Len(s) - 1 - 1 + 1) /\ 1 + n - 1 = n
    BY <1>1
  <2> QED
    BY <1>3, <1>4, <2>1
<1>7. Len(s) \in 1..Len(s)
  BY <1>1
<1> QED
  BY <1>1, <1>3, <1>4, <1>5, <1>6, <1>7

LEMMA RoomForOne == \A m, d \in Nat : m < d => m + 1 <= d
OBVIOUS

LEMMA TransferType ==
    ASSUME eth \in [Addresses -> Nat], NEW from \in Addresses, NEW to \in Addresses,
           NEW value \in Nat, Transfer(from, to, value)
    PROVE  eth' \in [Addresses -> Nat]
BY DEF Transfer

LEMMA CallOutType ==
    ASSUME Typed, NEW from \in Addresses, NEW to, NEW data \in Calldata \cup {""},
           NEW value \in Nat, CallOut(from, to, data, value)
    PROVE  lastCall' \in Calls /\ stack' \in Seq(Storage) /\ Len(stack') <= MaxDepth
<1>1. Saved \in Storage /\ MaxDepth \in Nat
  BY SavedType, SettlementAssumption DEF Typed
<1>2. Len(Append(stack, Saved)) = Len(stack) + 1 /\ Append(stack, Saved) \in Seq(Storage)
  BY <1>1, PushFrame DEF Typed
<1>3. [caller |-> from, data |-> data, value |-> value] \in Calls
  BY DEF Calls
<1>4. lastCall' = lastCall \/ lastCall' = [caller |-> from, data |-> data, value |-> value]
  BY DEF CallOut
<1>5. stack' = stack \/ (Len(stack) < MaxDepth /\ stack' = Append(stack, Saved))
  BY DEF CallOut
<1>6. stack \in Seq(Storage) /\ Len(stack) <= MaxDepth /\ lastCall \in Calls
  BY DEF Typed, SettlementTypeOK
<1>7. Len(stack) \in Nat
  BY <1>6, LenProperties
<1>8. stack' \in Seq(Storage) /\ Len(stack') <= MaxDepth
  <2>1. CASE stack' = stack
    BY <1>6, <2>1
  <2>2. CASE Len(stack) < MaxDepth /\ stack' = Append(stack, Saved)
    <3>1. Len(stack) + 1 <= MaxDepth
      <4>1. Len(stack) < MaxDepth /\ MaxDepth \in Nat
        BY <1>1, <2>2
      <4> QED
        BY <1>7, <4>1, RoomForOne, Zenon
    <3> QED
      BY <1>2, <2>2, <3>1
  <2> QED
    BY <1>5, <2>1, <2>2
<1> QED
  BY <1>3, <1>4, <1>6, <1>8

\* The records of the books as the calls change them.
LEMMA RecordChanges ==
    ASSUME NEW r \in AuditRecord, NEW b \in BountyRecord, NEW n \in Nat, NEW f \in Callers
    PROVE  /\ [r EXCEPT !.uses = @ + 1] \in AuditRecord
           /\ [r EXCEPT !.uses = 0] \in AuditRecord
           /\ [r EXCEPT !.funded = @ + n] \in AuditRecord
           /\ [r EXCEPT !.claims = @ + 1, !.paid = @ + n] \in AuditRecord
           /\ [r EXCEPT !.refunds = @ + 1, !.paid = @ + n] \in AuditRecord
           /\ [b EXCEPT !.funder = f, !.amount = @ + n] \in BountyRecord
           /\ [b EXCEPT !.claimed = TRUE, !.amount = 0] \in BountyRecord
<1>1. /\ r.uses + 1 \in Nat /\ r.funded + n \in Nat /\ r.claims + 1 \in Nat
      /\ r.refunds + 1 \in Nat /\ r.paid + n \in Nat /\ b.amount + n \in Nat
  BY DEF AuditRecord, BountyRecord
<1> QED
  BY <1>1 DEF AuditRecord, BountyRecord

LEMMA AuditType ==
    ASSUME Typed, NEW k \in Pairs, NEW r \in AuditRecord, audit' = [audit EXCEPT ![k] = r]
    PROVE  audit' \in [Pairs -> AuditRecord]
BY DEF Typed, SettlementTypeOK, AuditRecord

LEMMA InitType == SettlementInit => Typed
<1> SUFFICES ASSUME SettlementInit PROVE Typed
  OBVIOUS
<1>1. GateTypeOK
  <2>1. /\ [principal |-> NoAccount, expiresAt |-> 0, status |-> "NONE"] \in GateIntents
        /\ [verdict |-> "NONE", timestamp |-> 0, settlementBinding |-> NoBinding] \in GateVerifications
    BY GateAssumption DEF GateIntents, GateVerifications, Times, Statuses, Verdicts
  <2>2. 0 \in Times
    BY GateAssumption DEF Times
  <2> QED
    BY <2>1, <2>2 DEF SettlementInit, GateInit, GateTypeOK
<1>2. eth \in [Addresses -> Nat] /\ lastCall \in Calls
  BY SettlementAssumption DEF SettlementInit, Calls
<1>3. stack \in Seq(Storage) /\ Len(stack) <= MaxDepth
  <2>1. stack = <<>> /\ <<>> \in Seq(Storage) /\ Len(<<>>) = 0
    BY EmptySeq DEF SettlementInit
  <2>2. MaxDepth >= 0
    BY SettlementAssumption
  <2> QED
    BY <2>1, <2>2
<1> QED
  BY <1>1, <1>2, <1>3 DEF SettlementInit, Typed, SettlementTypeOK

LEMMA RegistryType ==
    ASSUME Typed, NEW i \in Intents,
           \/ RegistryTick \/ RegistryInvalidate(i)
           \/ \E p \in Principals, e \in Expiries : RegistryRegister(i, p, e)
           \/ \E a \in Actions, v \in Verdicts, b \in Bindings : RegistryAttest(i, a, v, b)
    PROVE  Typed'
<1> USE DEF Typed, SettlementTypeOK, GateTypeOK, contractVars
<1>1. CASE RegistryTick
  BY <1>1, GateAssumption DEF RegistryTick, Tick, Times
<1>2. CASE RegistryInvalidate(i)
  <2>1. intents' \in [Intents -> GateIntents]
    BY <1>2 DEF RegistryInvalidate, Invalidate, GateIntents, Statuses
  <2> QED
    BY <1>2, <2>1 DEF RegistryInvalidate, Invalidate
<1>3. ASSUME NEW p \in Principals, NEW e \in Expiries, RegistryRegister(i, p, e) PROVE Typed'
  <2>1. [principal |-> p, expiresAt |-> e, status |-> "ACTIVE"] \in GateIntents
    BY GateAssumption DEF GateIntents, Statuses, Times, Expiries
  <2>2. intents' \in [Intents -> GateIntents]
    BY <1>3, <2>1 DEF RegistryRegister, Register
  <2> QED
    BY <1>3, <2>2 DEF RegistryRegister, Register
<1>4. ASSUME NEW a \in Actions, NEW v \in Verdicts, NEW b \in Bindings,
             RegistryAttest(i, a, v, b)
      PROVE  Typed'
  <2>1. [verdict |-> v, timestamp |-> now, settlementBinding |-> b] \in GateVerifications
    BY DEF GateVerifications
  <2>2. verifications' \in [Intents -> [Actions -> GateVerifications]]
    BY <1>4, <2>1 DEF RegistryAttest, Attest
  <2>3. audit' \in [Pairs -> AuditRecord]
    <3>1. <<i, a>> \in Pairs
      BY DEF Pairs
    <3>2. [audit[<<i, a>>] EXCEPT !.uses = 0] \in AuditRecord
      BY <3>1 DEF AuditRecord
    <3> QED
      BY <1>4, <3>1, <3>2, AuditType DEF RegistryAttest
  <2> QED
    BY <1>4, <2>2, <2>3 DEF RegistryAttest, Attest, AuditRecord
<1> QED
  BY <1>1, <1>2, <1>3, <1>4

LEMMA SettleType ==
    ASSUME Typed, NEW i \in Intents, NEW a \in Actions, NEW sender \in Callers,
           \/ Accept(sender, i, a)
           \/ \E value \in Amounts : \/ Deposit(sender, i, a, value)
                                     \/ Fund(sender, i, a, value)
    PROVE  Typed'
<1> USE DEF Typed, SettlementTypeOK
<1> DEFINE k == <<i, a>>
<1>1. sender \in Addresses /\ Vault \in Addresses /\ Bounty \in Addresses /\ k \in Pairs
  BY DEF Addresses, Pairs
<1>0. bounties[k] \in BountyRecord /\ audit[k] \in AuditRecord
  BY <1>1 DEF BountyRecord, AuditRecord
<1>2. CASE Accept(sender, i, a)
  BY <1>2 DEF Accept, GateTypeOK, gateVars
<1>3. ASSUME NEW value \in Amounts, Deposit(sender, i, a, value) PROVE Typed'
  <2>1. value \in Nat
    BY SettlementAssumption
  <2>2. eth' \in [Addresses -> Nat]
    BY <1>1, <1>3, <2>1, TransferType DEF Deposit
  <2>3. settled' \in [Pairs -> BOOLEAN] /\ deposits' \in [Pairs -> Nat]
    BY <1>1, <1>3, <2>1 DEF Deposit
  <2>4. audit' \in [Pairs -> AuditRecord]
    <3>1. [audit[k] EXCEPT !.uses = @ + 1] \in AuditRecord
      BY <1>0, RecordChanges
    <3> QED
      BY <1>1, <1>3, <3>1, AuditType DEF Deposit
  <2> QED
    BY <1>3, <2>2, <2>3, <2>4 DEF Deposit, GateTypeOK, gateVars, AuditRecord
<1>4. ASSUME NEW value \in Amounts, Fund(sender, i, a, value) PROVE Typed'
  <2>1. value \in Nat
    BY SettlementAssumption
  <2>2. eth' \in [Addresses -> Nat]
    BY <1>1, <1>4, <2>1, TransferType DEF Fund
  <2>3. bounties' \in [Pairs -> BountyRecord]
    <3>1. [bounties[k] EXCEPT !.funder = sender, !.amount = @ + value] \in BountyRecord
      BY <1>0, <2>1, RecordChanges
    <3> QED
      BY <1>1, <1>4, <3>1 DEF Fund, BountyRecord
  <2>4. audit' \in [Pairs -> AuditRecord]
    <3>1. [audit[k] EXCEPT !.funded = @ + value] \in AuditRecord
      BY <1>0, <2>1, RecordChanges
    <3> QED
      BY <1>1, <1>4, <3>1, AuditType DEF Fund
  <2> QED
    BY <1>4, <2>2, <2>3, <2>4 DEF Fund, GateTypeOK, gateVars, AuditRecord, BountyRecord
<1> QED
  BY <1>2, <1>3, <1>4

LEMMA CallType ==
    ASSUME Typed, NEW i \in Intents, NEW a \in Actions, NEW sender \in Callers,
           \/ Refund(sender, i, a)
           \/ \E to \in Callers \cup {Target} : Claim(sender, i, a, to)
           \/ \E value \in Amounts, target \in Callers \cup {Target}, data \in Calldata :
                 Execute(sender, i, a, target, data, value)
    PROVE  Typed'
<1> DEFINE k == <<i, a>>
<1>1. k \in Pairs /\ sender \in Addresses /\ Executor \in Addresses /\ Bounty \in Addresses
  BY DEF Addresses, Pairs
<1>2. bounties[k] \in BountyRecord /\ audit[k] \in AuditRecord
  BY <1>1 DEF Typed, SettlementTypeOK, BountyRecord, AuditRecord
<1>7. bounties[k].amount \in Nat
  BY <1>2 DEF BountyRecord
<1>3. ASSUME NEW to \in Callers \cup {Target}, PayOut(k, to),
             audit' \in [Pairs -> AuditRecord]
      PROVE  Typed'
  <2>1. bounties[k].amount \in Nat /\ to \in Addresses
    BY <1>2 DEF BountyRecord, Addresses
  <2>2. eth' \in [Addresses -> Nat]
    BY <1>1, <1>3, <2>1, TransferType DEF PayOut, Typed, SettlementTypeOK
  <2>3. lastCall' \in Calls /\ stack' \in Seq(Storage) /\ Len(stack') <= MaxDepth
    BY <1>1, <1>3, <2>1, CallOutType DEF PayOut
  <2>4. bounties' \in [Pairs -> BountyRecord]
    <3>1. [bounties[k] EXCEPT !.claimed = TRUE, !.amount = 0] \in BountyRecord
      BY <1>2, <1>7, RecordChanges
    <3> QED
      BY <1>1, <1>3, <3>1 DEF PayOut, BountyRecord, Typed, SettlementTypeOK
  <2> QED
    BY <1>3, <2>2, <2>3, <2>4
       DEF PayOut, Typed, SettlementTypeOK, GateTypeOK, gateVars, AuditRecord, BountyRecord
<1>4. ASSUME NEW to \in Callers \cup {Target}, Claim(sender, i, a, to) PROVE Typed'
  <2>1. audit' \in [Pairs -> AuditRecord]
    <3>1. [audit[k] EXCEPT !.claims = @ + 1, !.paid = @ + bounties[k].amount] \in AuditRecord
      BY <1>2, <1>7, RecordChanges
    <3> QED
      BY <1>1, <1>4, <3>1, AuditType DEF Claim
  <2> QED
    BY <1>3, <1>4, <2>1 DEF Claim
<1>5. CASE Refund(sender, i, a)
  <2>1. audit' \in [Pairs -> AuditRecord]
    <3>1. [audit[k] EXCEPT !.refunds = @ + 1, !.paid = @ + bounties[k].amount] \in AuditRecord
      BY <1>2, <1>7, RecordChanges
    <3> QED
      BY <1>1, <1>5, <3>1, AuditType DEF Refund
  <2>2. bounties[k].funder = sender /\ PayOut(k, bounties[k].funder)
    BY <1>5 DEF Refund
  <2> QED
    BY <1>3, <2>1, <2>2
<1>6. ASSUME NEW value \in Amounts, NEW target \in Callers \cup {Target}, NEW data \in Calldata,
             Execute(sender, i, a, target, data, value)
      PROVE  Typed'
  <2>1. value \in Nat /\ target \in Addresses
    BY SettlementAssumption DEF Addresses
  <2>2. eth' \in [Addresses -> Nat]
    BY <1>1, <1>6, <2>1, TransferType DEF Execute, Typed, SettlementTypeOK
  <2>3. lastCall' \in Calls /\ stack' \in Seq(Storage) /\ Len(stack') <= MaxDepth
    BY <1>1, <1>6, <2>1, CallOutType DEF Execute
  <2>4. executed' \in [Pairs -> BOOLEAN]
    BY <1>6 DEF Execute, Typed, SettlementTypeOK
  <2>5. audit' \in [Pairs -> AuditRecord]
    <3>1. [audit[k] EXCEPT !.uses = @ + 1] \in AuditRecord
      BY <1>2, RecordChanges
    <3> QED
      BY <1>1, <1>6, <3>1, AuditType DEF Execute
  <2> QED
    BY <1>6, <2>2, <2>3, <2>4, <2>5
       DEF Execute, Typed, SettlementTypeOK, GateTypeOK, gateVars, AuditRecord, BountyRecord
<1> QED
  BY <1>4, <1>5, <1>6

LEMMA HookType ==
    ASSUME Typed, HookReturns \/ HookReverts
    PROVE  Typed'
<1>1. /\ stack # <<>> /\ stack \in Seq(Storage) /\ stack' = Front(stack)
      /\ Len(stack) <= MaxDepth /\ MaxDepth \in Nat
  BY SettlementAssumption DEF HookReturns, HookReverts, Typed, SettlementTypeOK
<1>2. /\ stack' \in Seq(Storage) /\ Len(stack') = Len(stack) - 1
      /\ Last(stack) \in Storage /\ Len(stack) \in Nat \ {0}
  BY <1>1, PopFrame
<1>3. stack' \in Seq(Storage) /\ Len(stack') <= MaxDepth
  BY <1>1, <1>2
<1>4. CASE HookReturns
  BY <1>3, <1>4 DEF HookReturns, Typed, SettlementTypeOK, GateTypeOK, gateVars, contractVars
<1>5. CASE HookReverts
  BY <1>2, <1>3, <1>5
     DEF HookReverts, Typed, SettlementTypeOK, GateTypeOK, Storage, BountyRecord, AuditRecord
<1> QED
  BY <1>4, <1>5

LEMMA NextType == Typed /\ [SettlementNext]_settlementVars => Typed'
<1> SUFFICES ASSUME Typed, [SettlementNext]_settlementVars PROVE Typed'
  OBVIOUS
<1>1. CASE UNCHANGED settlementVars
  BY <1>1 DEF settlementVars, contractVars, Typed, SettlementTypeOK, GateTypeOK
<1>2. CASE RegistryTick
  BY <1>2, GateAssumption
     DEF RegistryTick, Tick, Typed, SettlementTypeOK, GateTypeOK, Times, contractVars
<1>3. CASE HookReturns \/ HookReverts
  BY <1>3, HookType
<1>4. ASSUME NEW i \in Intents,
             \/ RegistryInvalidate(i)
             \/ \E p \in Principals, e \in Expiries : RegistryRegister(i, p, e)
             \/ \E a \in Actions, v \in Verdicts, b \in Bindings : RegistryAttest(i, a, v, b)
      PROVE  Typed'
  BY <1>4, RegistryType
<1>5. ASSUME NEW i \in Intents, NEW a \in Actions, NEW sender \in Callers,
             \/ \E value \in Amounts :
                   \/ Deposit(sender, i, a, value) \/ Fund(sender, i, a, value)
                   \/ \E target \in Callers \cup {Target}, data \in Calldata :
                         Execute(sender, i, a, target, data, value)
             \/ Accept(sender, i, a) \/ Refund(sender, i, a)
             \/ \E to \in Callers \cup {Target} : Claim(sender, i, a, to)
      PROVE  Typed'
  BY <1>5, SettleType, CallType
<1> QED
  BY <1>1, <1>2, <1>3, <1>4, <1>5 DEF SettlementNext

\* Whatever calls Hook makes and however they end, the contracts' storage, the
\* native balances (never negative) and the saved storages keep their types.
THEOREM SettlementTypeCorrect == SettlementSpec => []SettlementTypeOK
<1>1. Typed => SettlementTypeOK
  BY DEF Typed
<1> QED
  BY <1>1, InitType, NextType, PTL DEF SettlementSpec

-----------------------------------------------------------------------------
(* What holds of every saved storage. *)

Paid(s) ==
    \A k \in Pairs :
        /\ s.audit[k].claims + s.audit[k].refunds <= 1
        /\ s.audit[k].funded = s.audit[k].paid + s.bounties[k].amount
        /\ s.bounties[k].claimed <=> s.audit[k].claims + s.audit[k].refunds = 1

\* What settled on the last attestation is the contract it is bound to.
BoundTo(s, ver, i, a) ==
    \/ /\ s.settled[<<i, a>>]
       /\ \E v \in Amounts : ver[i][a].settlementBinding = VaultBinding(i, a, v)
    \/ /\ s.executed[<<i, a>>]
       /\ \E t \in Callers \cup {Target}, d \in Calldata, v \in Amounts :
             ver[i][a].settlementBinding = ExecutorBinding(i, a, t, d, v)

Once(s, ver) ==
    \A i \in Intents, a \in Actions :
        /\ s.audit[<<i, a>>].uses <= 1
        /\ s.audit[<<i, a>>].uses = 1 => BoundTo(s, ver, i, a)

Sound(s, ver) == Paid(s) /\ Once(s, ver)

DeadAt(s, i, time) ==
    \/ s.intents[i].status = "INVALIDATED"
    \/ s.intents[i].status = "ACTIVE" /\ time > s.intents[i].expiresAt

\* From s to t only calls were made, at one time.
Precedes(s, t, time) ==
    /\ \A i \in Intents : DeadAt(s, i, time) <=> DeadAt(t, i, time)
    /\ \A k \in Pairs :
          /\ s.executed[k] => t.executed[k]
          /\ s.audit[k].refunds <= t.audit[k].refunds
          /\ DeadAt(s, k[1], time) =>
                /\ t.settled[k] = s.settled[k]
                /\ t.executed[k] = s.executed[k]
                /\ t.consumed[k] = s.consumed[k]
                /\ t.audit[k].claims = s.audit[k].claims

FramesSound ==
    /\ \A n \in 1..Len(stack) : Sound(stack[n], verifications) /\ Precedes(stack[n], Saved, now)
    /\ \A m, n \in 1..Len(stack) : m <= n => Precedes(stack[m], stack[n], now)

SettlementIInv == Typed /\ Sound(Saved, verifications) /\ FramesSound

LEMMA BindingsDiffer ==
    \A i, a, v, j, b, t, d, w : VaultBinding(i, a, v) # ExecutorBinding(j, b, t, d, w)
BY DEF VaultBinding, ExecutorBinding

LEMMA ApprovedNotDead ==
    ASSUME Typed, NEW i \in Intents, NEW a \in Actions, IsApproved(i, a)
    PROVE  ~DeadAt(Saved, i, now)
<1>1. now \in Int /\ intents[i].expiresAt \in Int
  BY GateAssumption DEF Typed, SettlementTypeOK, GateTypeOK, GateIntents, Times
<1> QED
  BY <1>1 DEF IsApproved, Live, DeadAt, Saved

LEMMA PrecedesReflexive ==
    ASSUME NEW s \in Storage, NEW time PROVE Precedes(s, s, time)
<1>1. \A k \in Pairs : s.audit[k].refunds \in Int
  BY DEF Storage, AuditRecord
<1> QED
  BY <1>1 DEF Precedes

LEMMA PrecedesTransitive ==
    ASSUME NEW s \in Storage, NEW t \in Storage, NEW u \in Storage, NEW time,
           Precedes(s, t, time), Precedes(t, u, time)
    PROVE  Precedes(s, u, time)
<1>1. \A k \in Pairs : /\ s.audit[k].refunds \in Int /\ t.audit[k].refunds \in Int
                       /\ u.audit[k].refunds \in Int /\ k[1] \in Intents
  BY DEF Storage, AuditRecord, Pairs
<1> QED
  BY <1>1 DEF Precedes

-----------------------------------------------------------------------------
(* The calls. *)

\* What a call settles or refunds, it may.
Justified ==
    \A i \in Intents, a \in Actions :
        /\ executed'[<<i, a>>] /\ ~executed[<<i, a>>] =>
              IsApproved(i, a) /\ now >= verifications[i][a].timestamp + ChallengeDelay
        /\ audit'[<<i, a>>].refunds > audit[<<i, a>>].refunds => ~IsApproved(i, a)

\* What a call does to the storage and the stack.
Called == /\ Justified
          /\ now' = now /\ verifications' = verifications
          /\ Sound(Saved', verifications) /\ Precedes(Saved, Saved', now)
          /\ stack' = stack \/ stack' = Append(stack, Saved)

LEMMA SettleOnce ==
    ASSUME Typed, Once(Saved, verifications), NEW i \in Intents, NEW a \in Actions,
           audit' = [audit EXCEPT ![<<i, a>>].uses = @ + 1],
           UNCHANGED verifications,
           \/ /\ UNCHANGED executed /\ ~settled[<<i, a>>]
              /\ settled' = [settled EXCEPT ![<<i, a>>] = TRUE]
              /\ \E v \in Amounts : verifications[i][a].settlementBinding = VaultBinding(i, a, v)
           \/ /\ UNCHANGED settled /\ ~executed[<<i, a>>]
              /\ executed' = [executed EXCEPT ![<<i, a>>] = TRUE]
              /\ \E t \in Callers \cup {Target}, d \in Calldata, v \in Amounts :
                    verifications[i][a].settlementBinding = ExecutorBinding(i, a, t, d, v)
    PROVE  Once(Saved', verifications)
<1> DEFINE k == <<i, a>>
<1>1. k \in Pairs /\ audit[k].uses \in Nat
  BY DEF Pairs, Typed, SettlementTypeOK
<1>2. audit[k].uses = 0
  <2>1. audit[k].uses # 1
    BY BindingsDiffer DEF Once, BoundTo, Saved
  <2> QED
    BY <1>1, <2>1 DEF Once, Saved
<1>3. audit'[k].uses = 1 /\ BoundTo(Saved', verifications, i, a)
  <2>1. audit'[k] = [audit[k] EXCEPT !.uses = @ + 1] /\ audit[k] \in AuditRecord
    BY <1>1 DEF Typed, SettlementTypeOK, AuditRecord
  <2>2. audit'[k].uses = 1
    BY <1>2, <2>1 DEF AuditRecord
  <2>3. \/ /\ settled'[k]
           /\ \E v \in Amounts : verifications[i][a].settlementBinding = VaultBinding(i, a, v)
        \/ /\ executed'[k]
           /\ \E t \in Callers \cup {Target}, d \in Calldata, v \in Amounts :
                 verifications[i][a].settlementBinding = ExecutorBinding(i, a, t, d, v)
    BY <1>1 DEF Typed, SettlementTypeOK
  <2> QED
    BY <2>2, <2>3 DEF BoundTo, Saved
<1>4. ASSUME NEW j \in Intents, NEW b \in Actions, <<j, b>> # k
      PROVE  /\ audit'[<<j, b>>].uses <= 1
             /\ audit'[<<j, b>>].uses = 1 => BoundTo(Saved', verifications, j, b)
  <2>1. <<j, b>> \in Pairs
    BY DEF Pairs
  <2>2. /\ audit'[<<j, b>>] = audit[<<j, b>>]
        /\ settled'[<<j, b>>] = settled[<<j, b>>] /\ executed'[<<j, b>>] = executed[<<j, b>>]
    BY <1>4, <2>1 DEF Typed, SettlementTypeOK
  <2> QED
    BY <2>2 DEF Once, BoundTo, Saved
<1>5. ASSUME NEW j \in Intents, NEW b \in Actions
      PROVE  /\ audit'[<<j, b>>].uses <= 1
             /\ audit'[<<j, b>>].uses = 1 => BoundTo(Saved', verifications, j, b)
  BY <1>3, <1>4
<1> QED
  BY <1>5 DEF Once, Saved

LEMMA PaidKept ==
    ASSUME Paid(Saved), UNCHANGED bounties,
           \A j \in Pairs : /\ audit'[j].claims = audit[j].claims
                            /\ audit'[j].refunds = audit[j].refunds
                            /\ audit'[j].funded = audit[j].funded
                            /\ audit'[j].paid = audit[j].paid
    PROVE  Paid(Saved')
BY DEF Paid, Saved

LEMMA OnceKept ==
    ASSUME Once(Saved, verifications), UNCHANGED <<settled, executed>>,
           \A j \in Intents, b \in Actions : audit'[<<j, b>>].uses = audit[<<j, b>>].uses
    PROVE  Once(Saved', verifications)
<1>1. ASSUME NEW j \in Intents, NEW b \in Actions
      PROVE  /\ audit'[<<j, b>>].uses <= 1
             /\ audit'[<<j, b>>].uses = 1 => BoundTo(Saved', verifications, j, b)
  <2>1. /\ audit[<<j, b>>].uses <= 1
        /\ audit[<<j, b>>].uses = 1 => BoundTo(Saved, verifications, j, b)
    BY DEF Once, Saved
  <2>2. BoundTo(Saved, verifications, j, b) => BoundTo(Saved', verifications, j, b)
    BY DEF BoundTo, Saved
  <2> QED
    BY <2>1, <2>2, Zenon
<1> QED
  BY <1>1 DEF Once, Saved

LEMMA NothingToJustify ==
    ASSUME Typed, UNCHANGED executed, \A j \in Pairs : audit'[j].refunds = audit[j].refunds
    PROVE  Justified
<1>1. \A j \in Pairs : ~(audit'[j].refunds > audit[j].refunds)
  BY DEF Typed, SettlementTypeOK
<1> QED
  BY <1>1 DEF Justified, Pairs

LEMMA UseChanges ==
    ASSUME Typed, NEW k \in Pairs, NEW n \in Nat,
           audit' = [audit EXCEPT ![k] = [audit[k] EXCEPT !.uses = n]]
    PROVE  \A j \in Pairs : /\ audit'[j].claims = audit[j].claims
                            /\ audit'[j].refunds = audit[j].refunds
                            /\ audit'[j].funded = audit[j].funded
                            /\ audit'[j].paid = audit[j].paid
                            /\ j # k => audit'[j].uses = audit[j].uses
                            /\ audit'[k].uses = n
<1>1. audit \in [Pairs -> AuditRecord] /\ audit[k] \in AuditRecord
  BY DEF Typed, SettlementTypeOK, AuditRecord
<1>2. \A j \in Pairs : j # k => audit'[j] = audit[j]
  BY <1>1
<1>3. audit'[k] = [audit[k] EXCEPT !.uses = n]
  BY <1>1
<1> QED
  BY <1>1, <1>2, <1>3 DEF AuditRecord

\* A call on a live intent may change what is kept of its own pair.
LEMMA CallPrecedes ==
    ASSUME Typed, UNCHANGED <<now, intents>>, NEW k \in Pairs, ~DeadAt(Saved, k[1], now),
           \A j \in Pairs : /\ executed[j] => executed'[j]
                            /\ audit[j].refunds <= audit'[j].refunds
                            /\ j # k => /\ settled'[j] = settled[j] /\ executed'[j] = executed[j]
                                        /\ consumed'[j] = consumed[j]
                                        /\ audit'[j].claims = audit[j].claims
    PROVE  Precedes(Saved, Saved', now)
BY DEF Precedes, DeadAt, Saved

\* Settling calls: the vault, the executor, the credential.
LEMMA DepositCalled ==
    ASSUME Typed, Sound(Saved, verifications), NEW i \in Intents, NEW a \in Actions,
           NEW sender \in Callers, NEW value \in Amounts, Deposit(sender, i, a, value)
    PROVE  Called
<1> DEFINE k == <<i, a>>
<1>1. k \in Pairs /\ ~DeadAt(Saved, i, now)
  BY ApprovedNotDead DEF Pairs, Deposit, CanDeposit
<1>2. Once(Saved', verifications)
  BY SettleOnce DEF Deposit, CanDeposit, Sound, gateVars
<1>3. audit[k].uses \in Nat /\ audit[k].uses + 1 \in Nat
  BY <1>1 DEF Typed, SettlementTypeOK
<1>4. \A j \in Pairs : /\ audit'[j].claims = audit[j].claims /\ audit'[j].funded = audit[j].funded
                       /\ audit'[j].refunds = audit[j].refunds /\ audit'[j].paid = audit[j].paid
                       /\ audit[j].refunds \in Nat
  BY <1>1, <1>3, UseChanges DEF Deposit, Typed, SettlementTypeOK
<1>5. Paid(Saved')
  BY <1>4, PaidKept DEF Deposit, Sound
<1>6. \A j \in Pairs : /\ executed[j] => executed'[j]
                       /\ j # k => settled'[j] = settled[j] /\ executed'[j] = executed[j]
  BY <1>1 DEF Deposit, Typed, SettlementTypeOK
<1>7. Precedes(Saved, Saved', now)
  <2>1. k[1] = i /\ UNCHANGED <<now, intents, consumed>>
    BY DEF Deposit, gateVars
  <2> QED
    BY <1>1, <1>4, <1>6, <2>1, CallPrecedes
<1>8. Justified
  BY <1>4, NothingToJustify DEF Deposit
<1> QED
  BY <1>2, <1>5, <1>7, <1>8 DEF Called, Sound, Deposit, gateVars

LEMMA ExecuteCalled ==
    ASSUME Typed, Sound(Saved, verifications), NEW i \in Intents, NEW a \in Actions,
           NEW sender \in Callers, NEW value \in Amounts, NEW target \in Callers \cup {Target},
           NEW data \in Calldata, Execute(sender, i, a, target, data, value)
    PROVE  Called
<1> DEFINE k == <<i, a>>
<1>1. k \in Pairs /\ ~DeadAt(Saved, i, now)
  BY ApprovedNotDead DEF Pairs, Execute, CanExecute
<1>2. Once(Saved', verifications)
  BY SettleOnce DEF Execute, CanExecute, Sound, gateVars
<1>3. audit[k].uses \in Nat /\ audit[k].uses + 1 \in Nat
  BY <1>1 DEF Typed, SettlementTypeOK
<1>4. \A j \in Pairs : /\ audit'[j].claims = audit[j].claims /\ audit'[j].funded = audit[j].funded
                       /\ audit'[j].refunds = audit[j].refunds /\ audit'[j].paid = audit[j].paid
                       /\ audit[j].refunds \in Nat
  BY <1>1, <1>3, UseChanges DEF Execute, Typed, SettlementTypeOK
<1>5. Paid(Saved')
  BY <1>4, PaidKept DEF Execute, Sound
<1>6. \A j \in Pairs : /\ executed[j] => executed'[j]
                       /\ j # k => settled'[j] = settled[j] /\ executed'[j] = executed[j]
  BY <1>1 DEF Execute, Typed, SettlementTypeOK
<1>7. Precedes(Saved, Saved', now)
  <2>1. k[1] = i /\ UNCHANGED <<now, intents, consumed>>
    BY DEF Execute, gateVars
  <2> QED
    BY <1>1, <1>4, <1>6, <2>1, CallPrecedes
<1>8. stack' = stack \/ stack' = Append(stack, Saved)
  BY DEF Execute, CallOut
<1>9. ASSUME NEW j \in Intents, NEW b \in Actions
      PROVE  /\ executed'[<<j, b>>] /\ ~executed[<<j, b>>] => j = i /\ b = a
             /\ ~(audit'[<<j, b>>].refunds > audit[<<j, b>>].refunds)
  <2>1. <<j, b>> \in Pairs
    BY DEF Pairs
  <2>2. ~(audit'[<<j, b>>].refunds > audit[<<j, b>>].refunds)
    BY <1>4, <2>1
  <2>3. <<j, b>> # k => executed'[<<j, b>>] = executed[<<j, b>>]
    BY <1>6, <2>1
  <2> QED
    BY <2>2, <2>3
<1>10. Justified
  BY <1>9 DEF Justified, Execute, CanExecute
<1> QED
  BY <1>2, <1>5, <1>7, <1>8, <1>10 DEF Called, Sound, Execute, gateVars

LEMMA AcceptCalled ==
    ASSUME Typed, Sound(Saved, verifications), NEW i \in Intents, NEW a \in Actions,
           NEW sender \in Callers, Accept(sender, i, a)
    PROVE  Called
<1> DEFINE k == <<i, a>>
<1>1. k \in Pairs /\ ~DeadAt(Saved, i, now)
  BY ApprovedNotDead DEF Pairs, Accept, CanAccept
<1>2. Sound(Saved', verifications)
  BY DEF Accept, Sound, Once, BoundTo, Paid, Saved
<1>3. Precedes(Saved, Saved', now)
  <2>1. k[1] = i /\ UNCHANGED <<now, intents, settled, executed, audit>>
    BY DEF Accept, gateVars
  <2>2. \A j \in Pairs : audit[j].refunds \in Nat /\ (j # k => consumed'[j] = consumed[j])
    BY <1>1 DEF Accept, Typed, SettlementTypeOK
  <2>3. \A n \in Nat : n <= n
    OBVIOUS
  <2> QED
    BY <1>1, <2>1, <2>2, <2>3, CallPrecedes
<1>4. Justified
  BY NothingToJustify DEF Accept
<1> QED
  BY <1>2, <1>3, <1>4 DEF Called, Accept, gateVars

\* Calls of the bounty contract.
LEMMA FundCalled ==
    ASSUME Typed, Sound(Saved, verifications), NEW i \in Intents, NEW a \in Actions,
           NEW sender \in Callers, NEW value \in Amounts, Fund(sender, i, a, value)
    PROVE  Called
<1> DEFINE k == <<i, a>>
<1>1. k \in Pairs /\ value \in Nat /\ bounties[k] \in BountyRecord /\ audit[k] \in AuditRecord
  BY SettlementAssumption DEF Pairs, Typed, SettlementTypeOK, BountyRecord, AuditRecord
<1>2. /\ bounties' = [bounties EXCEPT ![k] = [bounties[k] EXCEPT !.funder = sender, !.amount = @ + value]]
      /\ audit' = [audit EXCEPT ![k] = [audit[k] EXCEPT !.funded = @ + value]]
  BY DEF Fund
<1>3. /\ bounties'[k] = [bounties[k] EXCEPT !.funder = sender, !.amount = @ + value]
      /\ audit'[k] = [audit[k] EXCEPT !.funded = @ + value]
      /\ \A j \in Pairs : j # k => bounties'[j] = bounties[j] /\ audit'[j] = audit[j]
  BY <1>1, <1>2 DEF Typed, SettlementTypeOK
<1>4. /\ audit'[k].funded = audit[k].funded + value /\ bounties'[k].amount = bounties[k].amount + value
      /\ bounties'[k].claimed = bounties[k].claimed /\ audit'[k].paid = audit[k].paid
      /\ \A j \in Pairs : /\ audit'[j].claims = audit[j].claims
                           /\ audit'[j].refunds = audit[j].refunds
                           /\ audit'[j].uses = audit[j].uses
  BY <1>1, <1>3 DEF BountyRecord, AuditRecord
<1>5. Paid(Saved')
  <2>3. audit[k].funded \in Nat /\ audit[k].paid \in Nat /\ bounties[k].amount \in Nat
    BY <1>1 DEF BountyRecord, AuditRecord
  <2>1. audit[k].funded = audit[k].paid + bounties[k].amount
    BY <1>1 DEF Sound, Paid, Saved
  <2>2. audit'[k].funded = audit'[k].paid + bounties'[k].amount
    BY <1>1, <1>4, <2>1, <2>3
  <2>4. ASSUME NEW j \in Pairs
        PROVE  /\ audit'[j].claims + audit'[j].refunds <= 1
               /\ audit'[j].funded = audit'[j].paid + bounties'[j].amount
               /\ bounties'[j].claimed <=> audit'[j].claims + audit'[j].refunds = 1
    <3>1. /\ audit[j].claims + audit[j].refunds <= 1
          /\ audit[j].funded = audit[j].paid + bounties[j].amount
          /\ bounties[j].claimed <=> audit[j].claims + audit[j].refunds = 1
      BY DEF Sound, Paid, Saved
    <3>2. /\ bounties'[j].claimed = bounties[j].claimed
          /\ audit'[j].claims = audit[j].claims /\ audit'[j].refunds = audit[j].refunds
      BY <1>3, <1>4
    <3>3. audit'[j].funded = audit'[j].paid + bounties'[j].amount
      BY <1>3, <2>2, <3>1
    <3> QED
      BY <3>1, <3>2, <3>3, Zenon
  <2> QED
    BY <2>4 DEF Paid, Saved
<1>6. Once(Saved', verifications)
  <2>1. \A j \in Intents, b \in Actions : audit'[<<j, b>>].uses = audit[<<j, b>>].uses
    BY <1>4 DEF Pairs
  <2>2. UNCHANGED <<settled, executed>>
    BY DEF Fund
  <2> QED
    BY <2>1, <2>2, OnceKept DEF Sound
<1>7. Precedes(Saved, Saved', now)
  BY <1>4, PrecedesReflexive, SavedType DEF Fund, Precedes, Saved, DeadAt, Typed, gateVars
<1>8. Justified
  BY <1>4, NothingToJustify DEF Fund
<1> QED
  BY <1>5, <1>6, <1>7, <1>8 DEF Called, Sound, Fund, gateVars

\* A bounty that is paid out was open, so nobody had been paid from it.
LEMMA PayOutSound ==
    ASSUME Typed, Sound(Saved, verifications), NEW k \in Pairs, NEW to, PayOut(k, to),
           ~bounties[k].claimed, NEW r \in AuditRecord, audit' = [audit EXCEPT ![k] = r],
           \/ r = [audit[k] EXCEPT !.claims = @ + 1, !.paid = @ + bounties[k].amount]
           \/ r = [audit[k] EXCEPT !.refunds = @ + 1, !.paid = @ + bounties[k].amount]
    PROVE  /\ Sound(Saved', verifications)
           /\ \A j \in Pairs : /\ audit[j].refunds <= audit'[j].refunds
                               /\ j # k => audit'[j] = audit[j]
<1> DEFINE b == [bounties[k] EXCEPT !.claimed = TRUE, !.amount = 0]
<1>1. /\ bounties[k] \in BountyRecord /\ \A j \in Pairs : audit[j] \in AuditRecord
      /\ audit \in [Pairs -> AuditRecord] /\ bounties \in [Pairs -> BountyRecord]
  BY DEF Typed, SettlementTypeOK, BountyRecord, AuditRecord
<1>2. /\ bounties'[k] = b /\ audit'[k] = r
      /\ \A j \in Pairs : j # k => bounties'[j] = bounties[j] /\ audit'[j] = audit[j]
  BY <1>1 DEF PayOut
<1>3. /\ audit[k].claims \in Nat /\ audit[k].refunds \in Nat /\ audit[k].paid \in Nat
      /\ bounties[k].amount \in Nat /\ b.claimed = TRUE /\ b.amount = 0
  BY <1>1 DEF AuditRecord, BountyRecord
<1>4. /\ audit[k].claims + audit[k].refunds <= 1 /\ audit[k].claims + audit[k].refunds # 1
      /\ audit[k].funded = audit[k].paid + bounties[k].amount
  BY DEF Sound, Paid, Saved
<1>5. audit[k].claims = 0 /\ audit[k].refunds = 0
  BY <1>3, <1>4
<1>6. /\ r.claims + r.refunds = 1 /\ r.refunds \in {0, 1} /\ r.uses = audit[k].uses
      /\ r.funded = audit[k].funded /\ r.paid = audit[k].paid + bounties[k].amount
  <2>1. audit[k] \in AuditRecord
    BY <1>1
  <2>2. CASE r = [audit[k] EXCEPT !.claims = @ + 1, !.paid = @ + bounties[k].amount]
    <3>1. r.claims = audit[k].claims + 1 /\ r.refunds = audit[k].refunds /\ r.uses = audit[k].uses
      BY <2>1, <2>2 DEF AuditRecord
    <3>2. r.funded = audit[k].funded /\ r.paid = audit[k].paid + bounties[k].amount
      BY <2>1, <2>2 DEF AuditRecord
    <3> QED
      BY <1>5, <3>1, <3>2
  <2>3. CASE r = [audit[k] EXCEPT !.refunds = @ + 1, !.paid = @ + bounties[k].amount]
    <3>1. r.claims = audit[k].claims /\ r.refunds = audit[k].refunds + 1 /\ r.uses = audit[k].uses
      BY <2>1, <2>3 DEF AuditRecord
    <3>2. r.funded = audit[k].funded /\ r.paid = audit[k].paid + bounties[k].amount
      BY <2>1, <2>3 DEF AuditRecord
    <3> QED
      BY <1>5, <3>1, <3>2
  <2> QED
    BY <2>2, <2>3
<1>7. r.funded = r.paid + 0
  BY <1>3, <1>4, <1>6
<1>8. Paid(Saved')
  <2>1. ASSUME NEW j \in Pairs
        PROVE  /\ audit'[j].claims + audit'[j].refunds <= 1
               /\ audit'[j].funded = audit'[j].paid + bounties'[j].amount
               /\ bounties'[j].claimed <=> audit'[j].claims + audit'[j].refunds = 1
    <3>1. CASE j = k
      <4>1. audit'[j] = r /\ bounties'[j].claimed = TRUE /\ bounties'[j].amount = 0
        BY <1>2, <1>3, <3>1
      <4>2. 1 <= 1
        OBVIOUS
      <4> QED
        BY <1>6, <1>7, <4>1, <4>2, Zenon
    <3>2. CASE j # k
      <4>1. /\ audit[j].claims + audit[j].refunds <= 1
            /\ audit[j].funded = audit[j].paid + bounties[j].amount
            /\ bounties[j].claimed <=> audit[j].claims + audit[j].refunds = 1
        BY DEF Sound, Paid, Saved
      <4> QED
        BY <1>2, <3>2, <4>1, Zenon
    <3> QED
      BY <3>1, <3>2
  <2> QED
    BY <2>1 DEF Paid, Saved
<1>9. Once(Saved', verifications)
  <2>1. UNCHANGED <<settled, executed>>
    BY DEF PayOut
  <2>2. \A j \in Intents, c \in Actions : audit'[<<j, c>>].uses = audit[<<j, c>>].uses
    BY <1>2, <1>6 DEF Pairs
  <2> QED
    BY <2>1, <2>2, OnceKept DEF Sound
<1>10. ASSUME NEW j \in Pairs PROVE audit[j].refunds <= audit'[j].refunds
  <2>1. CASE j = k
    BY <1>2, <1>5, <1>6, <2>1
  <2>2. CASE j # k
    BY <1>1, <1>2, <2>2 DEF AuditRecord
  <2> QED
    BY <2>1, <2>2
<1> QED
  BY <1>2, <1>8, <1>9, <1>10 DEF Sound

LEMMA ClaimCalled ==
    ASSUME Typed, Sound(Saved, verifications), NEW i \in Intents, NEW a \in Actions,
           NEW sender \in Callers, NEW to \in Callers \cup {Target}, Claim(sender, i, a, to)
    PROVE  Called
<1> DEFINE k == <<i, a>>
           r == [audit[k] EXCEPT !.claims = @ + 1, !.paid = @ + bounties[k].amount]
<1>1. k \in Pairs /\ ~DeadAt(Saved, i, now)
  BY ApprovedNotDead DEF Pairs, Claim
<1>2. r \in AuditRecord
  <2>1. audit[k] \in AuditRecord /\ bounties[k] \in BountyRecord /\ bounties[k].amount \in Nat
    BY <1>1 DEF Typed, SettlementTypeOK, BountyRecord, AuditRecord
  <2> QED
    BY <2>1, RecordChanges
<1>3. PayOut(k, to) /\ ~bounties[k].claimed /\ audit' = [audit EXCEPT ![k] = r]
  BY DEF Claim
<1>4. /\ Sound(Saved', verifications)
      /\ \A j \in Pairs : /\ audit[j].refunds <= audit'[j].refunds
                          /\ j # k => audit'[j] = audit[j]
  BY <1>1, <1>2, <1>3, PayOutSound
<1>5. Precedes(Saved, Saved', now)
  <2>1. k[1] = i /\ UNCHANGED <<now, intents, settled, executed, consumed>>
    BY <1>3 DEF PayOut, gateVars
  <2> QED
    BY <1>1, <1>4, <2>1, CallPrecedes
<1>6. stack' = stack \/ stack' = Append(stack, Saved)
  BY <1>3 DEF PayOut, CallOut
<1>7. Justified
  <2>1. audit[k] \in AuditRecord
    BY <1>1 DEF Typed, SettlementTypeOK, AuditRecord
  <2>2. audit'[k].refunds = audit[k].refunds
    BY <1>1, <1>3, <2>1 DEF AuditRecord, Typed, SettlementTypeOK
  <2>3. UNCHANGED executed /\ \A j \in Pairs : audit'[j].refunds = audit[j].refunds
    BY <1>3, <1>4, <2>2 DEF PayOut
  <2> QED
    BY <2>3, NothingToJustify
<1> QED
  BY <1>3, <1>4, <1>5, <1>6, <1>7 DEF Called, PayOut, gateVars

LEMMA RefundCalled ==
    ASSUME Typed, Sound(Saved, verifications), NEW i \in Intents, NEW a \in Actions,
           NEW sender \in Callers, Refund(sender, i, a)
    PROVE  Called
<1> DEFINE k == <<i, a>>
           r == [audit[k] EXCEPT !.refunds = @ + 1, !.paid = @ + bounties[k].amount]
<1>1. /\ k \in Pairs /\ audit[k] \in AuditRecord
      /\ bounties[k] \in BountyRecord /\ bounties[k].amount \in Nat
  BY DEF Pairs, Typed, SettlementTypeOK, BountyRecord, AuditRecord
<1>2. r \in AuditRecord
  BY <1>1, RecordChanges
<1>3. PayOut(k, bounties[k].funder) /\ ~bounties[k].claimed /\ audit' = [audit EXCEPT ![k] = r]
  BY DEF Refund
<1>4. /\ Sound(Saved', verifications)
      /\ \A j \in Pairs : /\ audit[j].refunds <= audit'[j].refunds
                          /\ j # k => audit'[j] = audit[j]
  BY <1>1, <1>2, <1>3, PayOutSound
<1>5. audit'[k].claims = audit[k].claims
  BY <1>1, <1>3 DEF AuditRecord, Typed, SettlementTypeOK
<1>6. Precedes(Saved, Saved', now)
  <2>1. UNCHANGED <<now, intents, settled, executed, consumed>>
    BY <1>3 DEF PayOut, gateVars
  <2>2. \A j \in Pairs : audit'[j].claims = audit[j].claims
    BY <1>4, <1>5
  <2> QED
    BY <1>4, <2>1, <2>2 DEF Precedes, DeadAt, Saved
<1>7. stack' = stack \/ stack' = Append(stack, Saved)
  BY <1>3 DEF PayOut, CallOut
<1>8. ~IsApproved(i, a) /\ UNCHANGED executed
  BY DEF Refund, PayOut, Refundable, IsApproved, Live
<1>9. ASSUME NEW j \in Intents, NEW b \in Actions
      PROVE  audit'[<<j, b>>].refunds > audit[<<j, b>>].refunds => j = i /\ b = a
  <2>1. <<j, b>> \in Pairs
    BY DEF Pairs
  <2>2. audit[<<j, b>>].refunds \in Nat
    BY <2>1 DEF Typed, SettlementTypeOK
  <2>3. <<j, b>> # k => ~(audit'[<<j, b>>].refunds > audit[<<j, b>>].refunds)
    BY <1>4, <2>1, <2>2
  <2> QED
    BY <2>3
<1>10. Justified
  BY <1>8, <1>9 DEF Justified
<1> QED
  BY <1>3, <1>4, <1>6, <1>7, <1>10 DEF Called, PayOut, gateVars

LEMMA RegisterCalled ==
    ASSUME Typed, Sound(Saved, verifications), NEW i \in Intents, NEW p \in Principals,
           NEW e \in Expiries, RegistryRegister(i, p, e)
    PROVE  Called
<1>1. /\ UNCHANGED <<now, verifications, contractVars, stack>>
      /\ intents' = [intents EXCEPT ![i] = [principal |-> p, expiresAt |-> e, status |-> "ACTIVE"]]
      /\ intents[i].status = "NONE" /\ e > now
  BY DEF RegistryRegister, Register
<1>2. now \in Int /\ e \in Int /\ intents \in [Intents -> GateIntents]
  BY GateAssumption DEF Typed, SettlementTypeOK, GateTypeOK, Times, Expiries
<1>3. ASSUME NEW j \in Intents PROVE DeadAt(Saved, j, now) <=> DeadAt(Saved', j, now)
  <2>1. CASE j = i
    BY <1>1, <1>2, <2>1 DEF DeadAt, Saved
  <2>2. CASE j # i
    BY <1>1, <1>2, <2>2 DEF DeadAt, Saved
  <2> QED
    BY <2>1, <2>2
<1>4. \A k \in Pairs : audit[k].refunds <= audit[k].refunds
  BY DEF Typed, SettlementTypeOK
<1>5. Precedes(Saved, Saved', now)
  BY <1>1, <1>3, <1>4 DEF Precedes, Saved, contractVars
<1>6. Sound(Saved', verifications)
  BY <1>1 DEF Sound, Paid, Once, BoundTo, Saved, contractVars
<1>7. Justified
  BY <1>1, NothingToJustify DEF contractVars
<1> QED
  BY <1>1, <1>5, <1>6, <1>7 DEF Called

\* Steps nobody can take inside a call.
Alone ==
    /\ stack = <<>> /\ stack' = <<>> /\ Sound(Saved', verifications')
    /\ UNCHANGED <<settled, executed, consumed>>
    /\ \A j \in Pairs : audit'[j].claims = audit[j].claims /\ audit'[j].refunds = audit[j].refunds

LEMMA AttestAlone ==
    ASSUME Typed, Sound(Saved, verifications), NEW i \in Intents, NEW a \in Actions,
           NEW v \in Verdicts, NEW b \in Bindings, RegistryAttest(i, a, v, b)
    PROVE  Alone
<1> DEFINE k == <<i, a>>
<1>1. k \in Pairs /\ 0 \in Nat /\ audit' = [audit EXCEPT ![k] = [audit[k] EXCEPT !.uses = 0]]
  BY DEF Pairs, RegistryAttest
<1> HIDE DEF k
<1>2. \A j \in Pairs : /\ audit'[j].claims = audit[j].claims
                       /\ audit'[j].refunds = audit[j].refunds
                       /\ audit'[j].funded = audit[j].funded
                       /\ audit'[j].paid = audit[j].paid
                       /\ j # k => audit'[j].uses = audit[j].uses
                       /\ audit'[k].uses = 0
  BY <1>1, UseChanges
<1> USE DEF k
<1>3. Paid(Saved')
  BY <1>2, PaidKept DEF RegistryAttest, Sound
<1>4. ASSUME NEW j \in Intents, NEW c \in Actions
      PROVE  /\ audit'[<<j, c>>].uses <= 1
             /\ audit'[<<j, c>>].uses = 1 => BoundTo(Saved', verifications', j, c)
  <2>1. CASE <<j, c>> = k
    BY <1>1, <1>2, <2>1
  <2>2. CASE <<j, c>> # k
    <3>1. verifications'[j][c] = verifications[j][c]
      BY <2>2 DEF RegistryAttest, Attest, Typed, SettlementTypeOK, GateTypeOK
    <3>2. /\ audit[<<j, c>>].uses <= 1
          /\ audit[<<j, c>>].uses = 1 => BoundTo(Saved, verifications, j, c)
      BY DEF Sound, Once, Saved
    <3>3. BoundTo(Saved, verifications, j, c) => BoundTo(Saved', verifications', j, c)
      BY <3>1 DEF BoundTo, Saved, RegistryAttest
    <3>4. audit'[<<j, c>>].uses = audit[<<j, c>>].uses
      BY <1>2, <2>2 DEF Pairs
    <3> QED
      BY <3>2, <3>3, <3>4, Zenon
  <2> QED
    BY <2>1, <2>2
<1> QED
  BY <1>2, <1>3, <1>4 DEF Alone, Sound, Once, Saved, RegistryAttest

LEMMA OtherAlone ==
    ASSUME Sound(Saved, verifications),
           RegistryTick \/ \E i \in Intents : RegistryInvalidate(i)
    PROVE  Alone
BY DEF Alone, RegistryTick, Tick, RegistryInvalidate, Invalidate, contractVars,
       Sound, Paid, Once, BoundTo, Saved

\* Every step calls, is taken alone or ends a call into Hook.
LEMMA StepKinds ==
    ASSUME Typed, Sound(Saved, verifications), SettlementNext
    PROVE  Called \/ Alone \/ HookReturns \/ HookReverts
<1>1. ASSUME NEW i \in Intents, NEW p \in Principals, NEW e \in Expiries, RegistryRegister(i, p, e)
      PROVE  Called
  BY <1>1, RegisterCalled
<1>2. ASSUME NEW i \in Intents, NEW a \in Actions, NEW v \in Verdicts, NEW b \in Bindings,
             RegistryAttest(i, a, v, b)
      PROVE  Alone
  BY <1>2, AttestAlone
<1>3. ASSUME RegistryTick \/ \E i \in Intents : RegistryInvalidate(i) PROVE Alone
  BY <1>3, OtherAlone
<1>4. ASSUME NEW i \in Intents, NEW a \in Actions, NEW sender \in Callers,
             \/ \E value \in Amounts : Deposit(sender, i, a, value) \/ Fund(sender, i, a, value)
             \/ Accept(sender, i, a)
      PROVE  Called
  BY <1>4, DepositCalled, FundCalled, AcceptCalled
<1>5. ASSUME NEW i \in Intents, NEW a \in Actions, NEW sender \in Callers,
             \/ \E value \in Amounts, target \in Callers \cup {Target}, data \in Calldata :
                   Execute(sender, i, a, target, data, value)
             \/ \E to \in Callers \cup {Target} : Claim(sender, i, a, to)
             \/ Refund(sender, i, a)
      PROVE  Called
  BY <1>5, ExecuteCalled, ClaimCalled, RefundCalled
<1> QED
  BY <1>1, <1>2, <1>3, <1>4, <1>5 DEF SettlementNext

-----------------------------------------------------------------------------
(* The invariant. *)

LEMMA InitSound == SettlementInit => SettlementIInv
<1> SUFFICES ASSUME SettlementInit PROVE SettlementIInv
  OBVIOUS
<1>1. Len(stack) = 0
  BY EmptySeq DEF SettlementInit
<1>4. \A k \in Pairs : /\ audit[k].claims = 0 /\ audit[k].refunds = 0 /\ audit[k].funded = 0
                       /\ audit[k].paid = 0 /\ audit[k].uses = 0
                       /\ bounties[k].amount = 0 /\ bounties[k].claimed = FALSE
  BY DEF SettlementInit
<1>5. 0 + 0 = 0 /\ 0 <= 1 /\ 0 # 1
  OBVIOUS
<1>2. Paid(Saved)
  BY <1>4, <1>5, Zenon DEF Paid, Saved
<1>3. Once(Saved, verifications)
  BY <1>4, <1>5 DEF Once, Saved, Pairs
<1> QED
  BY <1>1, <1>2, <1>3, InitType DEF SettlementIInv, FramesSound, Sound

LEMMA CalledFrames ==
    ASSUME SettlementIInv, Called, Typed'
    PROVE  FramesSound'
<1>1. /\ Saved \in Storage /\ Saved' \in Storage /\ stack \in Seq(Storage)
      /\ Precedes(Saved, Saved', now) /\ Len(stack) \in Nat
      /\ now' = now /\ verifications' = verifications
  <2>1. Saved \in Storage /\ Saved' \in Storage /\ stack \in Seq(Storage)
    <3>1. Saved' \in Storage
      BY DEF Typed, SettlementTypeOK, GateTypeOK, Saved, Storage, BountyRecord, AuditRecord
    <3> QED
      BY <3>1, SavedType DEF SettlementIInv, Typed
  <2> QED
    BY <2>1, LenProperties DEF Called
<1>2. ASSUME NEW n \in 1..Len(stack)
      PROVE  Sound(stack[n], verifications) /\ Precedes(stack[n], Saved', now)
  <2>1. stack[n] \in Storage
    BY <1>1, ElementOfSeq
  <2>2. Sound(stack[n], verifications) /\ Precedes(stack[n], Saved, now)
    BY DEF SettlementIInv, FramesSound
  <2> QED
    BY <1>1, <2>1, <2>2, PrecedesTransitive
<1>3. CASE stack' = stack
  BY <1>1, <1>2, <1>3 DEF FramesSound, SettlementIInv
<1>4. CASE stack' = Append(stack, Saved)
  <2>1. /\ Len(stack') = Len(stack) + 1 /\ stack'[Len(stack) + 1] = Saved
        /\ \A n \in 1..Len(stack) : stack'[n] = stack[n]
    BY <1>1, <1>4, PushFrame
  <2>2. ASSUME NEW n \in 1..Len(stack')
        PROVE  Sound(stack'[n], verifications) /\ Precedes(stack'[n], Saved', now)
    <3>1. CASE n \in 1..Len(stack)
      BY <1>2, <2>1, <3>1
    <3>2. CASE n = Len(stack) + 1
      BY <1>1, <2>1, <3>2 DEF SettlementIInv
    <3> QED
      BY <1>1, <2>1, <3>1, <3>2
  <2>3. ASSUME NEW m \in 1..Len(stack'), NEW n \in 1..Len(stack'), m <= n
        PROVE  Precedes(stack'[m], stack'[n], now)
    <3>1. CASE n \in 1..Len(stack)
      <4>1. m \in 1..Len(stack)
        BY <1>1, <2>3, <3>1
      <4> QED
        BY <2>1, <2>3, <3>1, <4>1 DEF SettlementIInv, FramesSound
    <3>2. CASE n = Len(stack) + 1 /\ m \in 1..Len(stack)
      BY <2>1, <3>2 DEF SettlementIInv, FramesSound
    <3>3. CASE n = Len(stack) + 1 /\ m = Len(stack) + 1
      BY <1>1, <2>1, <3>3, PrecedesReflexive
    <3> QED
      BY <1>1, <2>1, <3>1, <3>2, <3>3
  <2> QED
    BY <1>1, <2>2, <2>3 DEF FramesSound
<1> QED
  BY <1>3, <1>4 DEF Called

LEMMA HookFrames ==
    ASSUME SettlementIInv, HookReturns \/ HookReverts
    PROVE  FramesSound' /\ Sound(Saved', verifications') /\ Precedes(Saved', Saved, now)
<1>1. /\ stack \in Seq(Storage) /\ stack # <<>> /\ stack' = Front(stack)
      /\ now' = now /\ verifications' = verifications /\ Typed
  BY DEF SettlementIInv, Typed, HookReturns, HookReverts, gateVars
<1>2. /\ Len(stack') = Len(stack) - 1 /\ Len(stack) \in Nat \ {0}
      /\ \A n \in 1..(Len(stack) - 1) : stack'[n] = stack[n]
      /\ Last(stack) = stack[Len(stack)] /\ Last(stack) \in Storage
  BY <1>1, PopFrame
<1>3. Saved' = Saved \/ Saved' = Last(stack)
  <2>1. CASE HookReturns
    BY <2>1 DEF HookReturns, Saved, gateVars, contractVars
  <2>2. CASE HookReverts
    BY <1>2, <2>2 DEF HookReverts, Saved, Storage
  <2> QED
    BY <2>1, <2>2
<1>4. \A n \in 1..(Len(stack) - 1) : n \in 1..Len(stack) /\ n <= Len(stack) /\ Len(stack) \in 1..Len(stack)
  BY <1>2
<1>5. ASSUME NEW n \in 1..Len(stack')
      PROVE  Sound(stack'[n], verifications) /\ Precedes(stack'[n], Saved', now)
  <2>1. n \in 1..(Len(stack) - 1)
    BY <1>2
  <2>2. Sound(stack[n], verifications) /\ Precedes(stack[n], Saved, now)
    BY <1>4, <2>1 DEF SettlementIInv, FramesSound
  <2>3. Precedes(stack[n], Last(stack), now)
    BY <1>2, <1>4, <2>1 DEF SettlementIInv, FramesSound
  <2> QED
    BY <1>2, <1>3, <2>1, <2>2, <2>3
<1>6. ASSUME NEW m \in 1..Len(stack'), NEW n \in 1..Len(stack'), m <= n
      PROVE  Precedes(stack'[m], stack'[n], now)
  <2>1. m \in 1..(Len(stack) - 1) /\ n \in 1..(Len(stack) - 1)
    BY <1>2
  <2> QED
    BY <1>2, <1>4, <1>6, <2>1 DEF SettlementIInv, FramesSound
<1>7. Sound(Saved', verifications') /\ Precedes(Saved', Saved, now)
  <2>1. Len(stack) \in 1..Len(stack)
    BY <1>2
  <2>2. Sound(Last(stack), verifications) /\ Precedes(Last(stack), Saved, now)
    BY <1>2, <2>1 DEF SettlementIInv, FramesSound
  <2>3. Sound(Saved, verifications) /\ Precedes(Saved, Saved, now)
    BY <1>1, SavedType, PrecedesReflexive DEF SettlementIInv, Typed
  <2> QED
    BY <1>1, <1>3, <2>2, <2>3
<1> QED
  BY <1>1, <1>5, <1>6, <1>7 DEF FramesSound

LEMMA NextSound == SettlementIInv /\ [SettlementNext]_settlementVars => SettlementIInv'
<1> SUFFICES ASSUME SettlementIInv, [SettlementNext]_settlementVars PROVE SettlementIInv'
  OBVIOUS
<1>1. Typed /\ Sound(Saved, verifications) /\ Typed'
  BY NextType DEF SettlementIInv
<1>2. CASE Called
  BY <1>1, <1>2, CalledFrames DEF SettlementIInv, Called
<1>3. CASE Alone
  <2>1. Len(<<>>) = 0
    BY EmptySeq
  <2> QED
    BY <1>1, <1>3, <2>1 DEF SettlementIInv, FramesSound, Alone
<1>4. CASE HookReturns \/ HookReverts
  BY <1>1, <1>4, HookFrames DEF SettlementIInv
<1>5. CASE UNCHANGED settlementVars
  <2>1. Saved' = Saved /\ UNCHANGED <<now, verifications, stack>>
    BY <1>5 DEF Saved, settlementVars, contractVars
  <2> QED
    BY <1>1, <2>1 DEF SettlementIInv, FramesSound
<1> QED
  BY <1>1, <1>2, <1>3, <1>4, <1>5, StepKinds

\* In every reachable state, inside calls too, the storage and every saved
\* storage are sound, and each saved one precedes those above it.
LEMMA SettlementInvariant == SettlementSpec => []SettlementIInv
BY InitSound, NextSound, PTL DEF SettlementSpec

\* A bounty is paid once, to claim or refund (IntentBounty.claim, refund),
\* even to a payee that reenters or reverts.
THEOREM BountyIsPaidOnce == SettlementSpec => []BountyPaidOnce
<1>1. SettlementIInv => BountyPaidOnce
  BY DEF SettlementIInv, Sound, Paid, Saved, BountyPaidOnce
<1> QED
  BY <1>1, SettlementInvariant, PTL

\* One attestation settles once, in the vault (DemoVault.deposit) or by the
\* executor (IntentExecutor.execute): its binding fits one of them, and each
\* settles an action once.  A new attestation starts a new count, and the
\* consumer is not counted.
THEOREM AttestationSettlesOnce == SettlementSpec => []OneSettlementPerAttestation
<1>1. SettlementIInv => OneSettlementPerAttestation
  BY DEF SettlementIInv, Sound, Once, Saved, OneSettlementPerAttestation, Pairs
<1> QED
  BY <1>1, SettlementInvariant, PTL

\* No call settles on a dead intent, and a revert undoes nothing that was
\* settled on an intent which is dead by then.
THEOREM DeadIntentsSettleNothing == SettlementSpec => DeadSettlesNothing
<1>1. ASSUME SettlementIInv, [SettlementNext]_settlementVars, NEW k \in Pairs, Dead(k[1])
      PROVE  /\ settled'[k] = settled[k] /\ executed'[k] = executed[k]
             /\ consumed'[k] = consumed[k] /\ audit'[k].claims = audit[k].claims
  <2>1. k[1] \in Intents /\ DeadAt(Saved, k[1], now) /\ Typed /\ Sound(Saved, verifications)
    BY <1>1 DEF Pairs, Dead, DeadAt, Saved, SettlementIInv
  <2>2. CASE Called
    BY <2>1, <2>2 DEF Called, Precedes, Saved
  <2>3. CASE HookReturns \/ HookReverts
    <3>1. Precedes(Saved', Saved, now)
      BY <1>1, <2>3, HookFrames
    <3>2. DeadAt(Saved', k[1], now)
      BY <2>1, <3>1 DEF Precedes
    <3> QED
      BY <3>1, <3>2 DEF Precedes, Saved
  <2>4. CASE Alone
    BY <2>4 DEF Alone
  <2>5. CASE UNCHANGED settlementVars
    BY <2>5 DEF settlementVars, contractVars
  <2> QED
    BY <1>1, <2>1, <2>2, <2>3, <2>4, <2>5, StepKinds
<1>2. SettlementIInv /\ [SettlementNext]_settlementVars
        => [ \A k \in Pairs : Dead(k[1]) =>
              /\ settled'[k] = settled[k]
              /\ executed'[k] = executed[k]
              /\ consumed'[k] = consumed[k]
              /\ audit'[k].claims = audit[k].claims ]_settlementVars
  BY <1>1
<1> QED
  BY <1>2, SettlementInvariant, PTL DEF SettlementSpec, DeadSettlesNothing

\* What becomes executed or refunded does so by a call that may do it, not by
\* the end of one.
LEMMA StepJustified ==
    ASSUME SettlementIInv, [SettlementNext]_settlementVars
    PROVE  Justified
<1>1. Typed /\ Sound(Saved, verifications)
  BY DEF SettlementIInv
<1>2. CASE Called
  BY <1>2 DEF Called
<1>3. CASE HookReturns \/ HookReverts
  <2>1. Precedes(Saved', Saved, now) /\ Typed'
    BY <1>1, <1>3, HookFrames, HookType
  <2>2. \A j \in Pairs : /\ executed'[j] => executed[j]
                         /\ audit'[j].refunds <= audit[j].refunds
                         /\ audit'[j].refunds \in Nat /\ audit[j].refunds \in Nat
    BY <1>1, <2>1 DEF Precedes, Saved, Typed, SettlementTypeOK
  <2>3. \A j \in Pairs : ~(audit'[j].refunds > audit[j].refunds)
    BY <2>2
  <2> QED
    BY <2>2, <2>3 DEF Justified, Pairs
<1>4. CASE Alone
  BY <1>1, <1>4, NothingToJustify DEF Alone
<1>5. CASE UNCHANGED settlementVars
  BY <1>1, <1>5, NothingToJustify DEF settlementVars, contractVars
<1> QED
  BY <1>1, <1>2, <1>3, <1>4, <1>5, StepKinds

\* IntentExecutor.execute keeps the principal's veto window, whatever calls and
\* reverts go on inside a call into Hook.
THEOREM VetoWindowKept == SettlementSpec => VetoWindow
<1>1. ASSUME SettlementIInv, [SettlementNext]_settlementVars, NEW i \in Intents, NEW a \in Actions,
             executed'[<<i, a>>], ~executed[<<i, a>>]
      PROVE  IsApproved(i, a) /\ now - verifications[i][a].timestamp >= ChallengeDelay
  <2>1. IsApproved(i, a) /\ now >= verifications[i][a].timestamp + ChallengeDelay
    BY <1>1, StepJustified DEF Justified
  <2>2. now \in Int /\ verifications[i][a].timestamp \in Int /\ ChallengeDelay \in Int
    BY <1>1, GateAssumption, SettlementAssumption
       DEF SettlementIInv, Typed, SettlementTypeOK, GateTypeOK, GateVerifications, Times
  <2> QED
    BY <2>1, <2>2
<1>2. SettlementIInv /\ [SettlementNext]_settlementVars
        => [ \A i \in Intents, a \in Actions :
              executed'[<<i, a>>] /\ ~executed[<<i, a>>] =>
                  /\ IsApproved(i, a)
                  /\ now - verifications[i][a].timestamp >= ChallengeDelay ]_settlementVars
  BY <1>1
<1> QED
  BY <1>2, SettlementInvariant, PTL DEF SettlementSpec, VetoWindow

\* IntentBounty.refund is never taken while the action stands approved.
THEOREM RefundsWaitForApproval == SettlementSpec => RefundNeverBeatsApproval
<1>1. SettlementIInv /\ [SettlementNext]_settlementVars
        => [ \A i \in Intents, a \in Actions :
              audit'[<<i, a>>].refunds > audit[<<i, a>>].refunds => ~IsApproved(i, a) ]_settlementVars
  BY StepJustified DEF Justified
<1> QED
  BY <1>1, SettlementInvariant, PTL DEF SettlementSpec, RefundNeverBeatsApproval

-----------------------------------------------------------------------------
(* Sums.                                                                   *)

\* The units of one argument are as many as its value.
LEMMA OwnUnits ==
    ASSUME NEW x, NEW n \in Nat
    PROVE  IsFiniteSet({x} \X (1..n)) /\ Cardinality({x} \X (1..n)) = n
<1> DEFINE h == [m \in 1..n |-> <<x, m>>]
<1>1. IsFiniteSet(1..n) /\ Cardinality(1..n) = n
  BY FS_Interval
<1>2. h \in Bijection(1..n, {x} \X (1..n))
  BY DEF Bijection, Injection, Surjection, IsInjective
<1> QED
  BY <1>1, <1>2, FS_Bijection DEF ExistsBijection

LEMMA DisjointUnion ==
    ASSUME NEW S, NEW T, IsFiniteSet(S), IsFiniteSet(T), S \cap T = {}
    PROVE  IsFiniteSet(S \cup T) /\ Cardinality(S \cup T) = Cardinality(S) + Cardinality(T)
<1>1. Cardinality(S) \in Nat /\ Cardinality(T) \in Nat /\ Cardinality(S \cap T) = 0
  BY FS_CardinalityType, FS_EmptySet
<1>2. IsFiniteSet(S \cup T) /\ Cardinality(S \cup T) = Cardinality(S) + Cardinality(T) - Cardinality(S \cap T)
  BY FS_Union, Zenon
<1> QED
  BY <1>1, <1>2

\* Changing one value changes the total by the difference.
LEMMA TotalChanges ==
    ASSUME NEW f, f \in [DOMAIN f -> Nat], NEW x \in DOMAIN f, NEW c \in Nat, IsFiniteSet(Units(f))
    PROVE  /\ IsFiniteSet(Units([f EXCEPT ![x] = c])) /\ Total([f EXCEPT ![x] = c]) \in Nat /\ Total(f) \in Nat
           /\ Total([f EXCEPT ![x] = c]) + f[x] = Total(f) + c
<1> DEFINE S    == DOMAIN f
           g    == [f EXCEPT ![x] = c]
           old  == {x} \X (1..f[x])
           new  == {x} \X (1..c)
           rest == Units(f) \ old
<1>1. IsFiniteSet(old) /\ Cardinality(old) = f[x] /\ IsFiniteSet(new) /\ Cardinality(new) = c
  BY OwnUnits
<1>2. IsFiniteSet(rest) /\ Cardinality(rest) \in Nat
  BY FS_Subset, FS_CardinalityType
<1>3. Units(f) = rest \cup old /\ rest \cap old = {}
  BY DEF Units
<1>4. Units(g) = rest \cup new /\ rest \cap new = {}
  <2>1. \A y \in S : g[y] = IF y = x THEN c ELSE f[y]
    OBVIOUS
  <2>2. \A p : p \in Units(f) <=> \E y \in S : \E m \in 1..f[y] : p = <<y, m>>
    BY DEF Units
  <2>3. \A p : p \in Units(g) <=> \E y \in S : \E m \in 1..g[y] : p = <<y, m>>
    BY DEF Units
  <2>4. \A p : p \in rest <=> \E y \in S : y # x /\ \E m \in 1..f[y] : p = <<y, m>>
    BY <2>2
  <2> HIDE DEF g, rest
  <2>5. \A p : p \in Units(g) <=> p \in rest \/ p \in new
    BY <2>1, <2>3, <2>4
  <2>6. rest \cap new = {}
    BY <2>4
  <2>7. Units(g) = rest \cup new
    <3> HIDE DEF new
    <3> QED
      BY <2>5
  <2> QED
    BY <2>6, <2>7 DEF g, rest
<1> HIDE DEF g, old, new, rest
<1>5. Cardinality(Units(f)) = Cardinality(rest) + f[x]
  BY <1>1, <1>2, <1>3, DisjointUnion, Zenon
<1>6. IsFiniteSet(Units(g)) /\ Cardinality(Units(g)) = Cardinality(rest) + c
  BY <1>1, <1>2, <1>4, DisjointUnion
<1> QED
  BY <1>2, <1>5, <1>6 DEF Total, g

\* Nothing adds up to nothing.
LEMMA TotalOfNothing ==
    ASSUME NEW S, NEW f, f = [x \in S |-> 0]
    PROVE  IsFiniteSet(Units(f)) /\ Total(f) = 0
<1>1. Units(f) = {}
  BY DEF Units
<1> QED
  BY <1>1, FS_EmptySet DEF Total

-----------------------------------------------------------------------------
(* The contracts hold what their books say, and did so when a frame was    *)
(* saved, which a revert brings back.                                      *)

Open(s) == [k \in Pairs |-> s.bounties[k].amount]

Covered(s) ==
    /\ IsFiniteSet(Units(Open(s))) /\ IsFiniteSet(Units(s.deposits))
    /\ s.eth[Bounty] = Total(Open(s)) /\ s.eth[Vault] = Total(s.deposits) /\ s.eth[Executor] = 0

SolventIInv == Typed /\ Covered(Saved) /\ \A n \in 1..Len(stack) : Covered(stack[n])

LEMMA InitSolvent == SettlementInit => SolventIInv
<1> SUFFICES ASSUME SettlementInit PROVE SolventIInv
  OBVIOUS
<1>1. /\ Saved.deposits = [k \in Pairs |-> 0] /\ Open(Saved) = [k \in Pairs |-> 0]
      /\ Saved.eth = [x \in Addresses |-> IF x \in Callers THEN Wealth ELSE 0] /\ stack = <<>>
  BY DEF SettlementInit, Saved, Open
<1>2. {Bounty, Vault, Executor} \subseteq Addresses /\ {Bounty, Vault, Executor} \cap Callers = {}
  BY SettlementAssumption DEF Addresses
<1>3. Saved.eth[Bounty] = 0 /\ Saved.eth[Vault] = 0 /\ Saved.eth[Executor] = 0
  BY <1>1, <1>2
<1>4. Covered(Saved)
  BY <1>1, <1>3, TotalOfNothing DEF Covered
<1> QED
  BY <1>1, <1>4, InitType DEF SolventIInv

\* Who pays and who receives.
LEMMA TransferAt ==
    ASSUME Typed, NEW from \in Addresses, NEW to \in Addresses, from # to, NEW value \in Nat, Transfer(from, to, value)
    PROVE  /\ eth'[from] = eth[from] - value /\ eth'[to] = eth[to] + value
           /\ \A x \in Addresses : x # from /\ x # to => eth'[x] = eth[x]
           /\ \A x \in Addresses : eth[x] \in Nat
<1>1. eth \in [Addresses -> Nat]
  BY DEF Typed, SettlementTypeOK
<1>2. eth' = [x \in Addresses |-> eth[x] - (IF x = from THEN value ELSE 0) + (IF x = to THEN value ELSE 0)]
  BY DEF Transfer
<1> QED
  BY <1>1, <1>2

\* Three different contracts, none of them a caller or the target.
LEMMA Apart ==
    /\ Bounty \in Addresses /\ Vault \in Addresses /\ Executor \in Addresses
    /\ Bounty # Vault /\ Bounty # Executor /\ Vault # Executor
    /\ \A x \in Callers \cup {Target} : x \in Addresses /\ x # Bounty /\ x # Vault /\ x # Executor
BY SettlementAssumption DEF Addresses

LEMMA SumsOfBooks ==
    ASSUME SolventIInv
    PROVE  /\ deposits \in [DOMAIN deposits -> Nat] /\ DOMAIN deposits = Pairs /\ Saved.deposits = deposits
           /\ Open(Saved) \in [DOMAIN Open(Saved) -> Nat] /\ DOMAIN Open(Saved) = Pairs
           /\ \A k \in Pairs : Open(Saved)[k] = bounties[k].amount /\ bounties[k] \in BountyRecord
           /\ IsFiniteSet(Units(deposits)) /\ IsFiniteSet(Units(Open(Saved)))
           /\ eth[Bounty] = Total(Open(Saved)) /\ eth[Vault] = Total(deposits) /\ eth[Executor] = 0
<1>1. deposits \in [Pairs -> Nat] /\ bounties \in [Pairs -> BountyRecord]
  BY DEF SolventIInv, Typed, SettlementTypeOK, BountyRecord
<1>2. Saved.deposits = deposits /\ Saved.eth = eth /\ Saved.bounties = bounties
  BY DEF Saved
<1>3. \A k \in Pairs : bounties[k] \in BountyRecord /\ bounties[k].amount \in Nat
  BY <1>1 DEF BountyRecord
<1>4. Open(Saved) = [k \in Pairs |-> bounties[k].amount]
  BY <1>2 DEF Open
<1> QED
  BY <1>1, <1>2, <1>3, <1>4 DEF SolventIInv, Covered

\* The books after a step.
LEMMA CoveredAfter ==
    ASSUME NEW d, deposits' = d, IsFiniteSet(Units(d)), eth'[Vault] = Total(d),
           NEW o, Open(Saved)' = o, IsFiniteSet(Units(o)), eth'[Bounty] = Total(o),
           eth'[Executor] = 0
    PROVE  Covered(Saved)'
<1>1. Saved'.deposits = deposits' /\ Saved'.eth = eth'
  BY DEF Saved
<1> QED
  BY <1>1 DEF Covered

LEMMA OpenAfter ==
    ASSUME SolventIInv, NEW k \in Pairs, NEW r \in BountyRecord, bounties' = [bounties EXCEPT ![k] = r]
    PROVE  Open(Saved)' = [Open(Saved) EXCEPT ![k] = r.amount]
<1>1. Saved.bounties = bounties /\ Saved'.bounties = bounties' /\ bounties \in [Pairs -> BountyRecord]
  BY DEF Saved, SolventIInv, Typed, SettlementTypeOK, BountyRecord
<1> QED
  BY <1>1 DEF Open

LEMMA OpenStays == UNCHANGED bounties => Open(Saved)' = Open(Saved)
BY DEF Open, Saved

LEMMA DepositSolvent ==
    ASSUME SolventIInv, NEW sender \in Callers, NEW i \in Intents, NEW a \in Actions, NEW value \in Amounts,
           Deposit(sender, i, a, value)
    PROVE  Covered(Saved)' /\ UNCHANGED stack
<1> DEFINE k == <<i, a>>
           d == [deposits EXCEPT ![k] = deposits[k] + value]
<1>1. k \in Pairs /\ value \in Nat /\ deposits[k] \in Nat
  BY SettlementAssumption DEF Pairs, SolventIInv, Typed, SettlementTypeOK
<1>2. deposits' = d /\ Transfer(sender, Vault, value) /\ UNCHANGED <<bounties, stack>>
  BY DEF Deposit
<1>3. /\ eth'[Vault] = eth[Vault] + value /\ eth'[Bounty] = eth[Bounty] /\ eth'[Executor] = eth[Executor]
      /\ eth[Vault] \in Nat
  BY <1>1, <1>2, TransferAt, Apart DEF SolventIInv
<1>4. IsFiniteSet(Units(d)) /\ Total(d) \in Nat /\ Total(deposits) \in Nat
      /\ Total(d) + deposits[k] = Total(deposits) + (deposits[k] + value)
  <2>1. deposits \in [DOMAIN deposits -> Nat] /\ k \in DOMAIN deposits /\ IsFiniteSet(Units(deposits))
    BY <1>1, SumsOfBooks
  <2>2. deposits[k] + value \in Nat
    BY <1>1
  <2> HIDE DEF k
  <2> QED
    BY <2>1, <2>2, TotalChanges
<1> HIDE DEF d, k
<1>5. eth'[Vault] = Total(d)
  BY <1>1, <1>3, <1>4, SumsOfBooks
<1>6. Open(Saved)' = Open(Saved)
  BY <1>2, OpenStays
<1> QED
  BY <1>2, <1>3, <1>4, <1>5, <1>6, SumsOfBooks, CoveredAfter

LEMMA FundSolvent ==
    ASSUME SolventIInv, NEW sender \in Callers, NEW i \in Intents, NEW a \in Actions, NEW value \in Amounts,
           Fund(sender, i, a, value)
    PROVE  Covered(Saved)' /\ UNCHANGED stack
<1> DEFINE k == <<i, a>>
           c == bounties[k].amount + value
           r == [bounties[k] EXCEPT !.funder = sender, !.amount = @ + value]
           o == [Open(Saved) EXCEPT ![k] = c]
<1>1. k \in Pairs /\ value \in Nat /\ bounties[k] \in BountyRecord
  BY SumsOfBooks, SettlementAssumption DEF Pairs
<1>2. c \in Nat /\ r \in BountyRecord /\ r.amount = c /\ bounties[k].amount \in Nat
  <2>1. bounties[k].amount \in Nat /\ c \in Nat
    BY <1>1 DEF BountyRecord
  <2>2. r = [bounties[k] EXCEPT !.funder = sender, !.amount = c]
    OBVIOUS
  <2> HIDE DEF c, k
  <2> QED
    BY <1>1, <2>1, <2>2 DEF BountyRecord
<1>3. bounties' = [bounties EXCEPT ![k] = r] /\ Transfer(sender, Bounty, value) /\ UNCHANGED <<deposits, stack>>
  BY DEF Fund
<1>4. /\ eth'[Bounty] = eth[Bounty] + value /\ eth'[Vault] = eth[Vault] /\ eth'[Executor] = eth[Executor]
      /\ eth[Bounty] \in Nat
  BY <1>1, <1>3, TransferAt, Apart DEF SolventIInv
<1>5. IsFiniteSet(Units(o)) /\ Total(o) \in Nat /\ Total(Open(Saved)) \in Nat
      /\ Total(o) + Open(Saved)[k] = Total(Open(Saved)) + c
  <2>1. /\ Open(Saved) \in [DOMAIN Open(Saved) -> Nat] /\ k \in DOMAIN Open(Saved)
        /\ IsFiniteSet(Units(Open(Saved)))
    BY <1>1, SumsOfBooks
  <2> HIDE DEF k, c
  <2> QED
    BY <1>2, <2>1, TotalChanges
<1>6. Open(Saved)' = o
  BY <1>1, <1>2, <1>3, OpenAfter
<1>7. Open(Saved)[k] = bounties[k].amount
  BY <1>1, SumsOfBooks
<1>8. eth'[Bounty] = Total(o)
  <2> HIDE DEF k, o, r
  <2> QED
    BY <1>1, <1>2, <1>4, <1>5, <1>7, SumsOfBooks
<1> HIDE DEF o
<1> QED
  BY <1>3, <1>4, <1>5, <1>6, <1>8, SumsOfBooks, CoveredAfter

LEMMA PayOutSolvent ==
    ASSUME SolventIInv, NEW k \in Pairs, NEW to \in Callers \cup {Target}, PayOut(k, to)
    PROVE  Covered(Saved)' /\ (stack' = stack \/ stack' = Append(stack, Saved))
<1> DEFINE r == [bounties[k] EXCEPT !.claimed = TRUE, !.amount = 0]
           o == [Open(Saved) EXCEPT ![k] = 0]
<1>1. bounties[k] \in BountyRecord /\ bounties[k].amount \in Nat
  BY SumsOfBooks DEF BountyRecord
<1>2. r \in BountyRecord /\ r.amount = 0
  BY <1>1 DEF BountyRecord
<1>3. bounties' = [bounties EXCEPT ![k] = r] /\ Transfer(Bounty, to, bounties[k].amount) /\ UNCHANGED deposits
  BY DEF PayOut
<1>4. stack' = stack \/ stack' = Append(stack, Saved)
  BY DEF PayOut, CallOut
<1>5. /\ eth'[Bounty] = eth[Bounty] - bounties[k].amount /\ eth'[Vault] = eth[Vault] /\ eth'[Executor] = eth[Executor]
      /\ eth[Bounty] \in Nat
  BY <1>1, <1>3, TransferAt, Apart DEF SolventIInv
<1>6. IsFiniteSet(Units(o)) /\ Total(o) \in Nat /\ Total(Open(Saved)) \in Nat
      /\ Total(o) + Open(Saved)[k] = Total(Open(Saved)) + 0
  <2>1. /\ Open(Saved) \in [DOMAIN Open(Saved) -> Nat] /\ k \in DOMAIN Open(Saved)
        /\ IsFiniteSet(Units(Open(Saved))) /\ 0 \in Nat
    BY SumsOfBooks
  <2> QED
    BY <2>1, TotalChanges
<1>7. Open(Saved)' = o
  BY <1>2, <1>3, OpenAfter
<1>8. Open(Saved)[k] = bounties[k].amount
  BY SumsOfBooks
<1>9. eth'[Bounty] = Total(o)
  <2> HIDE DEF o, r
  <2> QED
    BY <1>1, <1>5, <1>6, <1>8, SumsOfBooks
<1> HIDE DEF o
<1> QED
  BY <1>3, <1>4, <1>5, <1>6, <1>7, <1>9, SumsOfBooks, CoveredAfter

LEMMA ExecuteSolvent ==
    ASSUME SolventIInv, NEW sender \in Callers, NEW i \in Intents, NEW a \in Actions, NEW value \in Amounts,
           NEW target \in Callers \cup {Target}, NEW data \in Calldata, Execute(sender, i, a, target, data, value)
    PROVE  Covered(Saved)' /\ (stack' = stack \/ stack' = Append(stack, Saved))
<1>1. value \in Nat /\ Transfer(sender, target, value) /\ UNCHANGED <<deposits, bounties>>
  BY SettlementAssumption DEF Execute
<1>2. stack' = stack \/ stack' = Append(stack, Saved)
  BY DEF Execute, CallOut
<1>3. \A x \in {Bounty, Vault, Executor} : eth'[x] = eth[x]
  BY <1>1, Apart DEF SolventIInv, Typed, SettlementTypeOK, Transfer
<1>4. Open(Saved)' = Open(Saved)
  BY <1>1, OpenStays
<1> QED
  BY <1>1, <1>2, <1>3, <1>4, SumsOfBooks, CoveredAfter

\* A step that moves no money.
LEMMA BooksStay ==
    ASSUME SolventIInv, UNCHANGED <<deposits, bounties, eth, stack>>
    PROVE  Covered(Saved)' /\ UNCHANGED stack
BY OpenStays, SumsOfBooks, CoveredAfter

\* A call into Hook starts, or none does.
LEMMA FramesStayCovered ==
    ASSUME SolventIInv, stack' = stack \/ stack' = Append(stack, Saved)
    PROVE  \A n \in 1..Len(stack') : Covered(stack'[n])
<1>1. stack \in Seq(Storage) /\ Saved \in Storage /\ Covered(Saved) /\ \A n \in 1..Len(stack) : Covered(stack[n])
  BY SavedType DEF SolventIInv, Typed
<1>2. CASE stack' = stack
  BY <1>1, <1>2
<1>3. CASE stack' = Append(stack, Saved)
  <2>1. Len(stack) \in Nat /\ Len(stack') = Len(stack) + 1 /\ stack'[Len(stack) + 1] = Saved
        /\ \A n \in 1..Len(stack) : stack'[n] = stack[n]
    BY <1>1, <1>3, PushFrame
  <2> QED
    BY <1>1, <2>1
<1> QED
  BY <1>2, <1>3

LEMMA HookSolvent ==
    ASSUME SolventIInv, HookReturns \/ HookReverts
    PROVE  Covered(Saved)' /\ \A n \in 1..Len(stack') : Covered(stack'[n])
<1>1. stack # <<>> /\ stack' = Front(stack) /\ stack \in Seq(Storage)
  BY DEF HookReturns, HookReverts, SolventIInv, Typed
<1>2. /\ Len(stack) \in Nat \ {0} /\ Last(stack) \in Storage /\ Last(stack) = stack[Len(stack)]
      /\ Len(stack') = Len(stack) - 1 /\ \A n \in 1..(Len(stack) - 1) : stack'[n] = stack[n]
  BY <1>1, PopFrame
<1>3. Covered(Last(stack)) /\ \A n \in 1..Len(stack') : Covered(stack'[n])
  BY <1>2 DEF SolventIInv
<1>4. CASE HookReturns
  <2>1. UNCHANGED <<deposits, bounties, eth>>
    BY <1>4 DEF HookReturns, contractVars
  <2> QED
    BY <1>3, <2>1, OpenStays, SumsOfBooks, CoveredAfter
<1>5. CASE HookReverts
  <2>1. deposits' = Last(stack).deposits /\ bounties' = Last(stack).bounties /\ eth' = Last(stack).eth
    BY <1>5 DEF HookReverts
  <2>2. Open(Saved)' = Open(Last(stack))
    BY <2>1 DEF Open, Saved
  <2> QED
    BY <1>3, <2>1, <2>2, CoveredAfter DEF Covered
<1> QED
  BY <1>3, <1>4, <1>5

LEMMA StepSolvent ==
    ASSUME SolventIInv, [SettlementNext]_settlementVars, ~HookReturns, ~HookReverts
    PROVE  Covered(Saved)' /\ (stack' = stack \/ stack' = Append(stack, Saved))
<1>1. ASSUME RegistryTick \/ UNCHANGED settlementVars
             \/ \E i \in Intents :
                  \/ \E p \in Principals, e \in Expiries : RegistryRegister(i, p, e)
                  \/ RegistryInvalidate(i)
                  \/ \E a \in Actions, v \in Verdicts, b \in Bindings : RegistryAttest(i, a, v, b)
                  \/ \E a \in Actions, sender \in Callers : Accept(sender, i, a)
      PROVE  UNCHANGED <<deposits, bounties, eth, stack>>
  BY <1>1 DEF RegistryTick, RegistryRegister, RegistryInvalidate, RegistryAttest, Accept, settlementVars, contractVars
<1>2. ASSUME NEW i \in Intents, NEW a \in Actions, NEW sender \in Callers, NEW to \in Callers \cup {Target},
             Claim(sender, i, a, to)
      PROVE  \E k \in Pairs, x \in Callers \cup {Target} : PayOut(k, x)
  BY <1>2 DEF Claim, Pairs
<1>3. ASSUME NEW i \in Intents, NEW a \in Actions, NEW sender \in Callers, Refund(sender, i, a)
      PROVE  \E k \in Pairs, x \in Callers \cup {Target} : PayOut(k, x)
  BY <1>3 DEF Refund, Pairs
<1> QED
  BY <1>1, <1>2, <1>3, BooksStay, DepositSolvent, FundSolvent, ExecuteSolvent, PayOutSolvent DEF SettlementNext

LEMMA NextSolvent == SolventIInv /\ [SettlementNext]_settlementVars => SolventIInv'
<1> SUFFICES ASSUME SolventIInv, [SettlementNext]_settlementVars PROVE SolventIInv'
  OBVIOUS
<1>1. Typed'
  BY NextType DEF SolventIInv
<1>2. Covered(Saved)' /\ \A n \in 1..Len(stack') : Covered(stack'[n])
  BY HookSolvent, StepSolvent, FramesStayCovered
<1> QED
  BY <1>1, <1>2 DEF SolventIInv, Covered, Open

\* Every contract holds exactly what its books say, in every state and so also
\* while Hook runs inside a payment: the bounty contract the open bounties, the
\* vault the deposits, the executor nothing.
THEOREM ContractsAreSolvent == SettlementSpec => []Solvent
<1>1. SolventIInv => Solvent
  <2> SUFFICES ASSUME SolventIInv PROVE Solvent
    OBVIOUS
  <2>1. Open(Saved) = [k \in Pairs |-> bounties[k].amount]
    BY DEF Open, Saved
  <2> QED
    BY <2>1, SumsOfBooks DEF Solvent
<1> QED
  BY <1>1, InitSolvent, NextSolvent, PTL DEF SettlementSpec
=============================================================================
