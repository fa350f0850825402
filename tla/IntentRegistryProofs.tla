------------------------ MODULE IntentRegistryProofs ------------------------
(***************************************************************************)
(* Proofs about IntentRegistry, for every value of its constants.          *)
(***************************************************************************)
EXTENDS IntentRegistry, FiniteSetTheorems, TLAPS

\* A recovered signer in Accounts made the signature over exactly that digest.
LEMMA RecoverIsSigner ==
    ASSUME NEW sig, NEW d, Recover(sig, d) # NoAccount
    PROVE  sig.digest = d /\ sig.signer = Recover(sig, d)
BY DEF Recover

\* The inputs of both signed calls are well formed.
LEMMA InputTypes ==
    /\ \A d \in IntentDigests : d \in IntentStruct
    /\ \A s \in PrincipalSigs : s \in [signer: Accounts, digest: IntentStruct]
    /\ \A d \in VerificationDigests : d \in VerificationStruct
    /\ \A s \in OracleSigs : s \in [signer: Accounts, digest: VerificationStruct]
BY RegistryAssumption

\* The constructor sets up a well-typed registry (IntentRegistry.sol, the
\* constructor and the default values of the mappings).
LEMMA InitType == Init => TypeOK
BY RegistryAssumption DEF Init, TypeOK, Times, Statuses, Verdicts, IntentRecord,
   Verification, EmptyIntent, EmptyVerification

\* Every call leaves the registry well typed.
LEMMA NextType == TypeOK /\ [Next]_vars => TypeOK'
<1> SUFFICES ASSUME TypeOK, [Next]_vars PROVE TypeOK'
  OBVIOUS
<1> USE DEF TypeOK
<1>1. ASSUME NEW d \in IntentDigests, NEW sig \in PrincipalSigs, RegisterIntent(d, sig)
      PROVE TypeOK'
  <2>1. d \in IntentStruct
    BY InputTypes
  <2>2. [principal |-> d.principal, agentId |-> d.agentId,
         expiresAt |-> d.expiresAt, status |-> "ACTIVE"] \in IntentRecord
    BY <2>1 DEF IntentStruct, IntentRecord, Statuses
  <2>3. intents' \in [Intents -> IntentRecord]
    BY <1>1, <2>1, <2>2 DEF RegisterIntent, IntentStruct
  <2>4. principalNonce' \in [Accounts -> Nat]
    BY <1>1, <2>1 DEF RegisterIntent, CanRegister, IntentStruct
  <2> QED
    BY <1>1, <2>3, <2>4 DEF RegisterIntent
<1>2. ASSUME NEW sender \in Accounts, NEW d \in VerificationDigests, NEW sig \in OracleSigs,
             RecordVerification(sender, d, sig)
      PROVE TypeOK'
  <2>1. d \in VerificationStruct
    BY InputTypes
  <2>2. [verdict |-> d.verdict, timestamp |-> now,
         settlementBinding |-> d.settlementBinding] \in Verification
    BY <2>1 DEF VerificationStruct, Verification
  <2>3. verifications' \in [Intents -> [Actions -> Verification]]
    BY <1>2, <2>1, <2>2 DEF RecordVerification, VerificationStruct
  <2>4. intentNonce' \in [Intents -> Nat]
    BY <1>2, <2>1 DEF RecordVerification, VerificationStruct
  <2> QED
    BY <1>2, <2>3, <2>4 DEF RecordVerification
<1>3. ASSUME NEW sender \in Accounts, NEW i \in Intents, InvalidateIntent(sender, i)
      PROVE TypeOK'
  BY <1>3 DEF InvalidateIntent, IntentRecord, Statuses
<1>4. ASSUME NEW sender \in Accounts, NEW r \in Roles, NEW account \in RoleAccounts,
             GrantRole(sender, r, account) \/ RevokeRole(sender, r, account)
      PROVE TypeOK'
  BY <1>4 DEF GrantRole, RevokeRole
<1>5. CASE Tick
  BY <1>5, RegistryAssumption DEF Tick, Times
<1>6. CASE UNCHANGED vars
  BY <1>6 DEF vars
<1> QED
  BY <1>1, <1>2, <1>3, <1>4, <1>5, <1>6 DEF Next

\* Every reachable state of the registry is well typed.
THEOREM TypeCorrect == Spec => []TypeOK
BY InitType, NextType, PTL DEF Spec

-----------------------------------------------------------------------------

\* In the initial state nobody has registered anything.
LEMMA InitInv == Init => IInv
<1> SUFFICES ASSUME Init PROVE IInv
  OBVIOUS
<1>1. TypeOK
  BY InitType
<1>2. UnregisteredIsEmpty /\ RegisteredAsSigned /\ VerdictAttested
  BY DEF Init, UnregisteredIsEmpty, RegisteredAsSigned, VerdictAttested, EmptyIntent
<1>3. ASSUME NEW p \in Accounts PROVE principalNonce[p] = Cardinality(RegisteredBy(p))
  <2>1. RegisteredBy(p) = {}
    BY RegistryAssumption DEF Init, RegisteredBy, EmptyIntent
  <2> QED
    BY <2>1, FS_EmptySet DEF Init
<1> QED
  BY <1>1, <1>2, <1>3 DEF IInv, NonceCountsRegistrations

\* registerIntent keeps the invariant: the fresh record is covered by the
\* signature just checked and counted by the nonce just spent.
LEMMA RegisterIntentInv ==
    ASSUME IInv, TypeOK', NEW d \in IntentDigests, NEW sig \in PrincipalSigs,
           RegisterIntent(d, sig)
    PROVE  IInv'
<1> DEFINE i == d.intentHash
           p == d.principal
<1>1. /\ d \in IntentStruct /\ i \in Intents /\ p \in Accounts /\ d.nonce \in Nat
      /\ sig \in [signer: Accounts, digest: IntentStruct]
  BY InputTypes DEF IntentStruct, RegisterIntent, CanRegister
<1>2. sig.digest = d /\ sig.signer = p
  BY RecoverIsSigner DEF RegisterIntent, CanRegister
<1>3. /\ intents[i] = EmptyIntent
      /\ verifications[i] = [a \in Actions |-> EmptyVerification]
      /\ principalNonce[p] = d.nonce
  BY <1>1 DEF RegisterIntent, CanRegister, IInv, UnregisteredIsEmpty
<1>4. /\ intents' = [intents EXCEPT ![i] = [principal |-> p, agentId |-> d.agentId,
                                           expiresAt |-> d.expiresAt, status |-> "ACTIVE"]]
      /\ principalNonce' = [principalNonce EXCEPT ![p] = d.nonce + 1]
      /\ verifications' = verifications /\ intentNonce' = intentNonce
  BY DEF RegisterIntent
<1> HIDE DEF i, p
<1>5. UnregisteredIsEmpty'
  BY <1>1, <1>4 DEF IInv, TypeOK, UnregisteredIsEmpty
<1>6. SignedAs(i, sig)'
  BY <1>1, <1>2, <1>4 DEF i, p, IInv, TypeOK, SignedAs
<1>9. ASSUME NEW j \in Intents, j # i, NEW s \in PrincipalSigs, SignedAs(j, s) PROVE SignedAs(j, s)'
  <2>1. s.signer \in Accounts /\ s.digest.nonce \in Nat
    BY InputTypes DEF IntentStruct
  <2>2. s.digest.nonce < principalNonce'[s.signer]
    BY <1>1, <1>3, <1>4, <1>9, <2>1 DEF IInv, TypeOK, SignedAs
  <2> QED
    BY <1>1, <1>4, <1>9, <2>2 DEF IInv, TypeOK, SignedAs
<1>10. \A j \in Intents : j # i => intents'[j] = intents[j]
  BY <1>1, <1>4 DEF IInv, TypeOK
<1>11. \A j \in Intents : intents'[j].status # "NONE" => \E s \in PrincipalSigs : SignedAs(j, s)'
  BY <1>6, <1>9, <1>10 DEF IInv, RegisteredAsSigned
<1>12. ASSUME NEW j \in Intents, j # i, intents[j].status # "NONE", intents'[i].principal = intents'[j].principal
       PROVE  \E s \in PrincipalSigs : SignedAs(j, s)' /\ s.digest.nonce # sig.digest.nonce
  <2>1. PICK s \in PrincipalSigs : SignedAs(j, s)
    BY <1>12 DEF IInv, RegisteredAsSigned
  <2>2. s.signer = p
    BY <1>1, <1>4, <1>10, <1>12, <2>1 DEF IInv, TypeOK, SignedAs
  <2>3. s.digest.nonce \in Nat /\ s.digest.nonce < d.nonce
    BY <1>3, <2>1, <2>2, InputTypes DEF SignedAs, IntentStruct
  <2> QED
    BY <1>1, <1>2, <1>9, <1>12, <2>1, <2>3
<1>13. ASSUME NEW j \in Intents, NEW k \in Intents, j # k, intents'[j].principal = intents'[k].principal,
              intents'[j].status # "NONE", intents'[k].status # "NONE"
       PROVE  \E s, t \in PrincipalSigs : SignedAs(j, s)' /\ SignedAs(k, t)' /\ s.digest.nonce # t.digest.nonce
  <2>1. CASE j = i
    BY <1>6, <1>10, <1>12, <1>13, <2>1
  <2>2. CASE k = i
    BY <1>6, <1>10, <1>12, <1>13, <2>2
  <2>3. CASE j # i /\ k # i
    <3>1. PICK s \in PrincipalSigs, t \in PrincipalSigs :
            SignedAs(j, s) /\ SignedAs(k, t) /\ s.digest.nonce # t.digest.nonce
      BY <1>10, <1>13, <2>3 DEF IInv, RegisteredAsSigned
    <3> QED
      BY <1>9, <2>3, <3>1
  <2> QED
    BY <2>1, <2>2, <2>3
<1>14. RegisteredAsSigned'
  BY <1>11, <1>13 DEF RegisteredAsSigned
<1>7. NonceCountsRegistrations'
  <2> SUFFICES ASSUME NEW q \in Accounts
               PROVE  principalNonce'[q] = Cardinality(RegisteredBy(q)')
    BY DEF NonceCountsRegistrations
  <2>1. RegisteredBy(q) \subseteq Intents /\ IsFiniteSet(RegisteredBy(q))
    BY RegistryAssumption, FS_Subset DEF RegisteredBy
  <2>2. principalNonce[q] = Cardinality(RegisteredBy(q))
    BY DEF IInv, NonceCountsRegistrations
  <2>3. CASE q = p
    <3>1. RegisteredBy(q)' = RegisteredBy(q) \cup {i}
      BY <1>1, <1>4, <2>3 DEF RegisteredBy, IInv, TypeOK
    <3>2. i \notin RegisteredBy(q)
      BY <1>3, RegistryAssumption DEF RegisteredBy, EmptyIntent
    <3>3. Cardinality(RegisteredBy(q) \cup {i}) = Cardinality(RegisteredBy(q)) + 1
      BY <2>1, <3>2, FS_AddElement
    <3> QED
      BY <1>1, <1>3, <1>4, <2>2, <2>3, <3>1, <3>3 DEF IInv, TypeOK
  <2>4. CASE q # p
    <3>1. RegisteredBy(q)' = RegisteredBy(q)
      BY <1>1, <1>3, <1>4, <2>4, RegistryAssumption
         DEF RegisteredBy, IInv, TypeOK, EmptyIntent
    <3> QED
      BY <1>1, <1>4, <2>2, <2>4, <3>1 DEF IInv, TypeOK
  <2> QED
    BY <2>3, <2>4
<1>8. VerdictAttested'
  BY <1>1, <1>3, <1>4 DEF IInv, TypeOK, VerdictAttested
<1> QED
  BY <1>5, <1>7, <1>8, <1>14 DEF IInv

\* recordVerification keeps the invariant: the verdict written is the one in
\* the attestation just checked, whose nonce is spent.
LEMMA RecordVerificationInv ==
    ASSUME IInv, TypeOK', NEW sender \in Accounts, NEW d \in VerificationDigests,
           NEW sig \in OracleSigs, RecordVerification(sender, d, sig)
    PROVE  IInv'
<1> DEFINE i == d.intentId
           a == d.actionHash
<1>1. /\ d \in VerificationStruct /\ i \in Intents /\ a \in Actions /\ d.nonce \in Nat
      /\ sig \in [signer: Accounts, digest: VerificationStruct]
  BY InputTypes DEF VerificationStruct
<1>2. sig.digest = d
  BY RecoverIsSigner, RegistryAssumption
     DEF RecordVerification, CanRecord, IInv, TypeOK, Roles
<1>3. /\ intents[i].status = "ACTIVE" /\ intents[i].agentId = d.agentId
      /\ now <= intents[i].expiresAt /\ now <= d.expiry
      /\ d.intentHash = i /\ d.nonce = intentNonce[i]
  BY DEF RecordVerification, CanRecord
<1>4. /\ intentNonce' = [intentNonce EXCEPT ![i] = d.nonce + 1]
      /\ verifications' = [verifications EXCEPT ![i][a] =
            [verdict |-> d.verdict, timestamp |-> now,
             settlementBinding |-> d.settlementBinding]]
      /\ intents' = intents /\ principalNonce' = principalNonce
  BY DEF RecordVerification
<1>5. UnregisteredIsEmpty'
  BY <1>1, <1>3, <1>4 DEF i, a, IInv, TypeOK, UnregisteredIsEmpty
<1>6. RegisteredAsSigned' /\ NonceCountsRegistrations'
  BY <1>4 DEF IInv, RegisteredAsSigned, SignedAs, NonceCountsRegistrations, RegisteredBy
<1>7. VerdictAttested'
  <2> SUFFICES ASSUME NEW j \in Intents, NEW b \in Actions,
                      verifications'[j][b] # EmptyVerification
               PROVE  \E s \in OracleSigs :
                        /\ s.digest.intentId = j /\ s.digest.intentHash = j
                        /\ s.digest.agentId = intents'[j].agentId
                        /\ s.digest.actionHash = b
                        /\ s.digest.verdict = verifications'[j][b].verdict
                        /\ s.digest.settlementBinding = verifications'[j][b].settlementBinding
                        /\ s.digest.nonce < intentNonce'[j]
                        /\ verifications'[j][b].timestamp <= s.digest.expiry
                        /\ verifications'[j][b].timestamp <= intents'[j].expiresAt
    BY DEF VerdictAttested
  <2>1. CASE j = i /\ b = a
    <3>1. verifications'[j][b] = [verdict |-> d.verdict, timestamp |-> now,
                                 settlementBinding |-> d.settlementBinding]
      BY <1>1, <1>4, <2>1 DEF IInv, TypeOK
    <3>2. d.nonce < intentNonce'[j]
      BY <1>1, <1>4, <2>1 DEF IInv, TypeOK
    <3> QED
      BY <1>2, <1>3, <1>4, <2>1, <3>1, <3>2
  <2>2. CASE ~(j = i /\ b = a)
    <3>1. verifications'[j][b] = verifications[j][b]
      BY <1>1, <1>4, <2>2 DEF IInv, TypeOK
    <3>2. PICK s \in OracleSigs :
            /\ s.digest.intentId = j /\ s.digest.intentHash = j
            /\ s.digest.agentId = intents[j].agentId
            /\ s.digest.actionHash = b
            /\ s.digest.verdict = verifications[j][b].verdict
            /\ s.digest.settlementBinding = verifications[j][b].settlementBinding
            /\ s.digest.nonce < intentNonce[j]
            /\ verifications[j][b].timestamp <= s.digest.expiry
            /\ verifications[j][b].timestamp <= intents[j].expiresAt
      BY <3>1 DEF IInv, VerdictAttested
    <3>3. s.digest.nonce \in Nat
      BY InputTypes DEF VerificationStruct
    <3>4. s.digest.nonce < intentNonce'[j]
      BY <1>1, <1>3, <1>4, <3>2, <3>3 DEF IInv, TypeOK
    <3> QED
      BY <1>4, <3>1, <3>2, <3>4
  <2> QED
    BY <2>1, <2>2
<1> QED
  BY <1>5, <1>6, <1>7 DEF IInv

\* invalidateIntent keeps the invariant: only a registered status moves.
LEMMA InvalidateIntentInv ==
    ASSUME IInv, TypeOK', NEW sender \in Accounts, NEW i \in Intents,
           InvalidateIntent(sender, i)
    PROVE  IInv'
<1>1. /\ intents[i].status # "NONE"
      /\ intents' = [intents EXCEPT ![i].status = "INVALIDATED"]
      /\ verifications' = verifications
      /\ principalNonce' = principalNonce /\ intentNonce' = intentNonce
  BY DEF InvalidateIntent
<1>2. \A j \in Intents :
        /\ intents'[j].principal = intents[j].principal
        /\ intents'[j].agentId = intents[j].agentId
        /\ intents'[j].expiresAt = intents[j].expiresAt
        /\ (intents'[j].status = "NONE") <=> (intents[j].status = "NONE")
        /\ intents'[j].status = "NONE" => intents'[j] = intents[j]
  BY <1>1 DEF IInv, TypeOK, IntentRecord
<1>3. UnregisteredIsEmpty'
  BY <1>1, <1>2 DEF IInv, UnregisteredIsEmpty
<1>4. RegisteredAsSigned'
  BY <1>1, <1>2 DEF IInv, RegisteredAsSigned, SignedAs
<1>5. \A p \in Accounts : RegisteredBy(p)' = RegisteredBy(p)
  BY <1>2 DEF RegisteredBy
<1>6. NonceCountsRegistrations'
  BY <1>1, <1>5 DEF IInv, NonceCountsRegistrations
<1>7. VerdictAttested'
  BY <1>1, <1>2 DEF IInv, VerdictAttested
<1> QED
  BY <1>3, <1>4, <1>6, <1>7 DEF IInv

\* Role changes and the passing of time touch nothing the invariant reads.
LEMMA OtherStepsInv ==
    ASSUME IInv, TypeOK',
           UNCHANGED <<intents, verifications, principalNonce, intentNonce>>
    PROVE  IInv'
BY DEF IInv, UnregisteredIsEmpty, RegisteredAsSigned, SignedAs, NonceCountsRegistrations,
   RegisteredBy, VerdictAttested

\* The invariant is inductive.
LEMMA NextInv == IInv /\ [Next]_vars => IInv'
<1> SUFFICES ASSUME IInv, [Next]_vars PROVE IInv'
  OBVIOUS
<1>1. TypeOK'
  BY NextType DEF IInv
<1>2. ASSUME NEW d \in IntentDigests, NEW sig \in PrincipalSigs, RegisterIntent(d, sig)
      PROVE IInv'
  BY <1>1, <1>2, RegisterIntentInv
<1>3. ASSUME NEW sender \in Accounts, NEW d \in VerificationDigests, NEW sig \in OracleSigs,
             RecordVerification(sender, d, sig)
      PROVE IInv'
  BY <1>1, <1>3, RecordVerificationInv
<1>4. ASSUME NEW sender \in Accounts, NEW i \in Intents, InvalidateIntent(sender, i)
      PROVE IInv'
  BY <1>1, <1>4, InvalidateIntentInv
<1>5. ASSUME NEW sender \in Accounts, NEW r \in Roles, NEW account \in RoleAccounts,
             GrantRole(sender, r, account) \/ RevokeRole(sender, r, account)
      PROVE IInv'
  BY <1>1, <1>5, OtherStepsInv DEF GrantRole, RevokeRole
<1>6. CASE Tick
  BY <1>1, <1>6, OtherStepsInv DEF Tick
<1>7. CASE UNCHANGED vars
  BY <1>1, <1>7, OtherStepsInv DEF vars
<1> QED
  BY <1>2, <1>3, <1>4, <1>5, <1>6, <1>7 DEF Next

LEMMA Invariant == Spec => []IInv
BY InitInv, NextInv, PTL DEF Spec

\* A registered intent is always one its principal signed, with a spent nonce,
\* and no two of a principal were registered on one nonce (registerIntent).
THEOREM SignedRegistrations == Spec => []RegisteredAsSigned
<1>1. IInv => RegisteredAsSigned
  BY DEF IInv
<1> QED
  BY <1>1, Invariant, PTL

\* A principal's nonce always counts the intents it registered.
THEOREM NonceIsCount == Spec => []NonceCountsRegistrations
<1>1. IInv => NonceCountsRegistrations
  BY DEF IInv
<1> QED
  BY <1>1, Invariant, PTL

\* A recorded verdict is always one an oracle signed for that very intent.
THEOREM AttestedVerdicts == Spec => []VerdictAttested
<1>1. IInv => VerdictAttested
  BY DEF IInv
<1> QED
  BY <1>1, Invariant, PTL

-----------------------------------------------------------------------------

\* Which call changes what: verifications only in recordVerification.
LEMMA VerificationChange ==
    ASSUME [Next]_vars, verifications' # verifications
    PROVE  \E sender \in Accounts, d \in VerificationDigests, sig \in OracleSigs :
              RecordVerification(sender, d, sig)
BY DEF Next, vars, RegisterIntent, InvalidateIntent, GrantRole, RevokeRole, Tick

\* An attestation is spent by the one call that uses it.
THEOREM NoAttestationReplay == Spec => AttestationsSpentOnce
<1>1. ASSUME TypeOK, [Next]_vars, verifications' # verifications
      PROVE  \E sig \in OracleSigs :
                LET i == sig.digest.intentId  a == sig.digest.actionHash IN
                /\ sig.signer \in roles["VERIFIER"]
                /\ sig.digest.nonce = intentNonce[i]
                /\ intentNonce' = [intentNonce EXCEPT ![i] = @ + 1]
                /\ \A j \in Intents, b \in Actions :
                      verifications'[j][b] # verifications[j][b] => j = i /\ b = a
  <2>1. PICK sender \in Accounts, d \in VerificationDigests, sig \in OracleSigs :
           RecordVerification(sender, d, sig)
    BY <1>1, VerificationChange
  <2>2. d \in VerificationStruct
    BY InputTypes
  <2>3. sig.digest = d /\ sig.signer \in roles["VERIFIER"]
    BY <1>1, <2>1, RecoverIsSigner, RegistryAssumption
       DEF RecordVerification, CanRecord, TypeOK, Roles
  <2>4. /\ d.nonce = intentNonce[d.intentId]
        /\ intentNonce' = [intentNonce EXCEPT ![d.intentId] = @ + 1]
    BY <2>1 DEF RecordVerification, CanRecord
  <2>5. \A j \in Intents, b \in Actions :
           verifications'[j][b] # verifications[j][b] => j = d.intentId /\ b = d.actionHash
    BY <1>1, <2>1, <2>2 DEF RecordVerification, TypeOK, VerificationStruct
  <2> QED
    BY <2>3, <2>4, <2>5
<1>2. TypeOK /\ [Next]_vars => [ verifications' # verifications =>
        \E sig \in OracleSigs :
            LET i == sig.digest.intentId  a == sig.digest.actionHash IN
            /\ sig.signer \in roles["VERIFIER"]
            /\ sig.digest.nonce = intentNonce[i]
            /\ intentNonce' = [intentNonce EXCEPT ![i] = @ + 1]
            /\ \A j \in Intents, b \in Actions :
                  verifications'[j][b] # verifications[j][b] => j = i /\ b = a ]_vars
  BY <1>1
<1> QED
  BY <1>2, TypeCorrect, PTL DEF Spec, AttestationsSpentOnce

-----------------------------------------------------------------------------
(* The registry implements the gate its consumers are built on. *)

\* The registry's initial state is the gate's.
LEMMA InitImplements == Init => Gate!GateInit
BY DEF Init, Gate!GateInit, EmptyIntent, EmptyVerification

\* Every call of the registry is a step of the gate, or changes only roles
\* and is a stuttering step of it.
LEMMA NextImplements == TypeOK /\ [Next]_vars => [Gate!GateNext]_(Gate!gateVars)
<1> SUFFICES ASSUME TypeOK, [Next]_vars
             PROVE  Gate!GateNext \/ UNCHANGED Gate!gateVars
  OBVIOUS
<1>1. ASSUME NEW d \in IntentDigests, NEW sig \in PrincipalSigs, RegisterIntent(d, sig)
      PROVE  Gate!GateNext
  <2>1. d.intentHash \in Intents /\ d.principal \in Accounts /\ d.expiresAt \in Times
    BY <1>1, InputTypes DEF IntentStruct, RegisterIntent, CanRegister
  <2>2. Gate!Register(d.intentHash, d.principal, d.expiresAt)
    BY <1>1, <2>1 DEF TypeOK, RegisterIntent, CanRegister, Gate!Register
  <2> QED
    BY <2>1, <2>2 DEF Gate!GateNext, Gate!Times, Times
<1>2. ASSUME NEW sender \in Accounts, NEW d \in VerificationDigests, NEW sig \in OracleSigs,
             RecordVerification(sender, d, sig)
      PROVE  Gate!GateNext
  <2>1. /\ d.intentId \in Intents /\ d.actionHash \in Actions
        /\ d.verdict \in Verdicts /\ d.settlementBinding \in Bindings
    BY InputTypes DEF VerificationStruct
  <2>2. Gate!Attest(d.intentId, d.actionHash, d.verdict, d.settlementBinding)
    BY <1>2, <2>1 DEF RecordVerification, CanRecord, Gate!Attest, Gate!Live
  <2> QED
    BY <2>1, <2>2 DEF Gate!GateNext, Gate!Verdicts, Verdicts
<1>3. ASSUME NEW sender \in Accounts, NEW i \in Intents, InvalidateIntent(sender, i)
      PROVE  Gate!GateNext
  <2>1. Gate!Invalidate(i)
    BY <1>3 DEF TypeOK, IntentRecord, InvalidateIntent, Gate!Invalidate
  <2> QED
    BY <2>1 DEF Gate!GateNext
<1>4. ASSUME NEW sender \in Accounts, NEW r \in Roles, NEW account \in RoleAccounts,
             GrantRole(sender, r, account) \/ RevokeRole(sender, r, account)
      PROVE  UNCHANGED Gate!gateVars
  BY <1>4 DEF GrantRole, RevokeRole, Gate!gateVars
<1>5. CASE Tick
  BY <1>5 DEF Tick, Gate!Tick, Gate!GateNext
<1>6. CASE UNCHANGED vars
  BY <1>6 DEF vars, Gate!gateVars
<1> QED
  BY <1>1, <1>2, <1>3, <1>4, <1>5, <1>6 DEF Next

\* The signed, role-guarded registry implements the approval gate.
THEOREM RegistryImplementsGate == Spec => ImplementsGate
BY InitImplements, NextImplements, TypeCorrect, PTL
   DEF Spec, ImplementsGate, Gate!GateSpec

\* Once invalidated or expired, an intent stays dead and unapprovable.
LEMMA DeadStep ==
    ASSUME TypeOK, [Next]_vars, NEW i \in Intents, Gate!Dead(i)
    PROVE  /\ Gate!Dead(i)'
           /\ verifications'[i] = verifications[i]
           /\ \A a \in Actions : ~Gate!IsApproved(i, a)'
<1>1. /\ intents[i].status # "NONE"
      /\ intents[i].status = "INVALIDATED" \/ now > intents[i].expiresAt
  BY DEF Gate!Dead
<1>2. now' >= now
  <2>1. now' = now \/ now' = now + 1
    BY DEF Next, vars, RegisterIntent, RecordVerification, InvalidateIntent, GrantRole,
       RevokeRole, Tick
  <2>2. now \in Int
    BY RegistryAssumption DEF TypeOK, Times
  <2> QED
    BY <2>1, <2>2
<1>3. /\ intents'[i].expiresAt = intents[i].expiresAt
      /\ intents'[i].status = intents[i].status \/ intents'[i].status = "INVALIDATED"
  <2>1. ASSUME NEW d \in IntentDigests, NEW sig \in PrincipalSigs, RegisterIntent(d, sig)
        PROVE  intents'[i] = intents[i]
    BY <1>1, <2>1 DEF RegisterIntent, CanRegister, TypeOK
  <2>2. ASSUME NEW sender \in Accounts, NEW j \in Intents, InvalidateIntent(sender, j)
        PROVE  /\ intents'[i].expiresAt = intents[i].expiresAt
               /\ \/ intents'[i].status = intents[i].status
                  \/ intents'[i].status = "INVALIDATED"
    BY <2>2 DEF InvalidateIntent, TypeOK, IntentRecord
  <2> QED
    BY <2>1, <2>2 DEF Next, vars, RecordVerification, GrantRole, RevokeRole, Tick
<1>4. verifications'[i] = verifications[i]
  <2>1. ASSUME NEW sender \in Accounts, NEW d \in VerificationDigests, NEW sig \in OracleSigs,
               RecordVerification(sender, d, sig)
        PROVE  verifications'[i] = verifications[i]
    <3>1. d.intentId # i
      BY <1>1, <2>1, InputTypes
         DEF RecordVerification, CanRecord, TypeOK, IntentRecord, Times, VerificationStruct
    <3> QED
      BY <2>1, <3>1 DEF RecordVerification, TypeOK
  <2> QED
    BY <2>1, VerificationChange
<1>5. now \in Int /\ now' \in Int /\ intents[i].expiresAt \in Int
  BY NextType DEF TypeOK, IntentRecord, Times
<1> QED
  BY <1>1, <1>2, <1>3, <1>4, <1>5 DEF Gate!Dead, Gate!IsApproved, Gate!Live

\* No sequence of registry calls revives a dead intent or its approvals.
THEOREM NoRevival == Spec => DeadStaysDead
<1>1. TypeOK /\ [Next]_vars => [ \A i \in Intents : Gate!Dead(i) =>
          /\ Gate!Dead(i)'
          /\ verifications'[i] = verifications[i]
          /\ \A a \in Actions : ~Gate!IsApproved(i, a)' ]_vars
  BY DeadStep
<1> QED
  BY <1>1, TypeCorrect, PTL DEF Spec, DeadStaysDead

\* Nothing is recorded under an id that is not registered, in any call order.
THEOREM NothingUnregistered == Spec => []UnregisteredIsEmpty
<1>1. IInv => UnregisteredIsEmpty
  BY DEF IInv
<1> QED
  BY <1>1, Invariant, PTL

\* A call changes at most the status of an intent that is registered.
LEMMA RecordStep ==
    ASSUME TypeOK, [Next]_vars, NEW i \in Intents, intents[i].status # "NONE"
    PROVE  \E s \in {"ACTIVE", "INVALIDATED"} :
              intents'[i] = [intents[i] EXCEPT !.status = s]
<1>1. intents[i] \in IntentRecord /\ intents[i].status \in {"ACTIVE", "INVALIDATED"}
  BY DEF TypeOK, IntentRecord, Statuses
<1>2. intents[i] = [intents[i] EXCEPT !.status = intents[i].status]
  BY <1>1 DEF IntentRecord
<1>3. ASSUME NEW d \in IntentDigests, NEW sig \in PrincipalSigs, RegisterIntent(d, sig)
      PROVE  intents'[i] = intents[i]
  BY <1>3 DEF RegisterIntent, CanRegister, TypeOK
<1>4. ASSUME NEW sender \in Accounts, NEW j \in Intents, InvalidateIntent(sender, j)
      PROVE  \/ intents'[i] = intents[i]
             \/ intents'[i] = [intents[i] EXCEPT !.status = "INVALIDATED"]
  BY <1>4 DEF InvalidateIntent, TypeOK
<1>5. \/ intents'[i] = intents[i]
      \/ intents'[i] = [intents[i] EXCEPT !.status = "INVALIDATED"]
  BY <1>3, <1>4 DEF Next, vars, RecordVerification, GrantRole, RevokeRole, Tick
<1> QED
  BY <1>1, <1>2, <1>5

\* No registry call ever changes a registered intent's principal, agent or
\* expiry, or takes it back to NONE.
THEOREM RecordsNeverChange == Spec => RecordFixed
<1>1. TypeOK /\ [Next]_vars => [ \A i \in Intents : intents[i].status # "NONE" =>
          \E s \in {"ACTIVE", "INVALIDATED"} :
              intents'[i] = [intents[i] EXCEPT !.status = s] ]_vars
  BY RecordStep
<1> QED
  BY <1>1, TypeCorrect, PTL DEF Spec, RecordFixed
=============================================================================
