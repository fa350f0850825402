--------------------------- MODULE IntentRegistry ---------------------------
(***************************************************************************)
(* packages/contracts/contracts/IntentRegistry.sol: the EIP-712 intent and *)
(* verification registry.  A principal signs an intent once; anyone may    *)
(* submit it.  An oracle holding VERIFIER_ROLE signs a verification; a     *)
(* holder of VERIFIER_ROLE submits it.  One nonce per principal and one    *)
(* per intent make each signature usable once.                             *)
(*                                                                         *)
(* A signature is a pair (signer, digest).  The signatures that are ever   *)
(* made are the constants PrincipalSigs and OracleSigs: they are made off  *)
(* chain, cost nothing and may be submitted by anyone at any time, so a    *)
(* contract cannot tell when one was made and fewer signatures only allow  *)
(* fewer behaviours.  createdAt, evidenceRoot and the two basis-point      *)
(* scores are stored by the contract and never read by it: they are left   *)
(* out.                                                                    *)
(***************************************************************************)
EXTENDS Integers, FiniteSets

CONSTANTS
    Intents, Agents, Actions, Bindings, Accounts,
    NoAccount, NoAgent, NoBinding,
    Admin, Oracle,      \* the constructor's arguments
    RoleAccounts,       \* bound: the accounts roles are ever granted to
    IntentDigests,      \* bound: registerIntent's arguments (record, nonce)
    PrincipalSigs,      \* signatures over intents that exist
    VerificationDigests,\* bound: recordVerification's arguments
    OracleSigs,         \* signatures over verifications that exist
    MaxTime

Times == 0..MaxTime
Statuses == {"NONE", "ACTIVE", "INVALIDATED"}
Verdicts == {"NONE", "APPROVE", "REJECT", "CHALLENGE"}
Roles == {"DEFAULT_ADMIN", "VERIFIER"}

\* What a principal signs: INTENT_TYPEHASH over the record and the nonce.
IntentStruct == [intentHash: Intents, principal: Accounts \cup {NoAccount},
                 agentId: Agents, expiresAt: Times, nonce: Nat]

\* What an oracle signs: VERIFICATION_TYPEHASH over every field of the call.
VerificationStruct == [intentId: Intents, intentHash: Intents, agentId: Agents,
                       actionHash: Actions, verdict: Verdicts, nonce: Nat,
                       expiry: Times, settlementBinding: Bindings]

ASSUME RegistryAssumption ==
    /\ MaxTime \in Nat
    /\ IsFiniteSet(Intents)
    /\ NoAccount \notin Accounts /\ NoAgent \notin Agents /\ NoBinding \notin Bindings
    /\ {Admin, Oracle} \subseteq RoleAccounts
    /\ RoleAccounts \subseteq Accounts
    /\ IntentDigests \subseteq IntentStruct
    /\ PrincipalSigs \subseteq [signer: Accounts, digest: IntentStruct]
    /\ VerificationDigests \subseteq VerificationStruct
    /\ OracleSigs \subseteq [signer: Accounts, digest: VerificationStruct]

VARIABLES
    now,            \* block.timestamp
    intents,        \* intentId -> IntentRecord
    verifications,  \* intentId -> actionHash -> Verification
    principalNonce, \* principal -> next nonce
    intentNonce,    \* intentId -> next nonce
    roles           \* AccessControl: role -> members

vars == <<now, intents, verifications, principalNonce, intentNonce, roles>>

IntentRecord == [principal: Accounts \cup {NoAccount}, agentId: Agents \cup {NoAgent},
                 expiresAt: Times, status: Statuses]
Verification == [verdict: Verdicts, timestamp: Times,
                 settlementBinding: Bindings \cup {NoBinding}]

TypeOK ==
    /\ now \in Times
    /\ intents \in [Intents -> IntentRecord]
    /\ verifications \in [Intents -> [Actions -> Verification]]
    /\ principalNonce \in [Accounts -> Nat]
    /\ intentNonce \in [Intents -> Nat]
    /\ roles \in [Roles -> SUBSET RoleAccounts]

EmptyIntent == [principal |-> NoAccount, agentId |-> NoAgent,
                expiresAt |-> 0, status |-> "NONE"]
EmptyVerification == [verdict |-> "NONE", timestamp |-> 0,
                      settlementBinding |-> NoBinding]

Init ==
    /\ now = 0
    /\ intents = [i \in Intents |-> EmptyIntent]
    /\ verifications = [i \in Intents |-> [a \in Actions |-> EmptyVerification]]
    /\ principalNonce = [p \in Accounts |-> 0]
    /\ intentNonce = [i \in Intents |-> 0]
    /\ roles = [r \in Roles |-> IF r = "VERIFIER" THEN {Oracle} ELSE {Admin}]

\* ECDSA.recover: over another digest than the signed one it yields an
\* address nobody holds, or reverts.
Recover(sig, digest) == IF sig.digest = digest THEN sig.signer ELSE NoAccount

-----------------------------------------------------------------------------

\* Faulty variants of the two checks and of a call, for mutation runs.
CanRegisterAnyNonce(d, sig) ==
    /\ intents[d.intentHash].status = "NONE" /\ d.principal # NoAccount
    /\ d.expiresAt > now /\ Recover(sig, d) = d.principal

RecordableBut(sender, d, sig) ==
    /\ sender \in roles["VERIFIER"] /\ Recover(sig, d) \in roles["VERIFIER"]
    /\ intents[d.intentId].status = "ACTIVE" /\ now <= d.expiry
    /\ d.intentHash = d.intentId

CanRecordOtherAgent(sender, d, sig) ==
    /\ RecordableBut(sender, d, sig) /\ d.nonce = intentNonce[d.intentId]
    /\ now <= intents[d.intentId].expiresAt

CanRecordAnyNonce(sender, d, sig) ==
    /\ RecordableBut(sender, d, sig) /\ d.agentId = intents[d.intentId].agentId
    /\ now <= intents[d.intentId].expiresAt

CanRecordExpired(sender, d, sig) ==
    /\ RecordableBut(sender, d, sig) /\ d.agentId = intents[d.intentId].agentId
    /\ d.nonce = intentNonce[d.intentId]

InvalidateUnregistered(sender, i) ==
    /\ sender = intents[i].principal \/ sender \in roles["DEFAULT_ADMIN"]
    /\ intents' = [intents EXCEPT ![i].status = "INVALIDATED"]
    /\ UNCHANGED <<now, verifications, principalNonce, intentNonce, roles>>

\* registerIntent's checks, in the order of the code.
CanRegister(d, sig) ==
    /\ intents[d.intentHash].status = "NONE"
    /\ d.principal # NoAccount
    /\ d.expiresAt > now
    /\ d.nonce = principalNonce[d.principal]
    /\ Recover(sig, d) = d.principal

RegisterIntent(d, sig) ==
    /\ CanRegister(d, sig)
    /\ principalNonce' = [principalNonce EXCEPT ![d.principal] = d.nonce + 1]
    /\ intents' = [intents EXCEPT ![d.intentHash] =
          [principal |-> d.principal, agentId |-> d.agentId,
           expiresAt |-> d.expiresAt, status |-> "ACTIVE"]]
    /\ UNCHANGED <<now, verifications, intentNonce, roles>>

\* recordVerification's checks, in the order of the code.
CanRecord(sender, d, sig) ==
    /\ sender \in roles["VERIFIER"]
    /\ intents[d.intentId].status = "ACTIVE"
    /\ now <= intents[d.intentId].expiresAt
    /\ now <= d.expiry
    /\ d.nonce = intentNonce[d.intentId]
    /\ d.intentHash = d.intentId
    /\ d.agentId = intents[d.intentId].agentId
    /\ Recover(sig, d) \in roles["VERIFIER"]

RecordVerification(sender, d, sig) ==
    /\ CanRecord(sender, d, sig)
    /\ intentNonce' = [intentNonce EXCEPT ![d.intentId] = d.nonce + 1]
    /\ verifications' = [verifications EXCEPT ![d.intentId][d.actionHash] =
          [verdict |-> d.verdict, timestamp |-> now,
           settlementBinding |-> d.settlementBinding]]
    /\ UNCHANGED <<now, intents, principalNonce, roles>>

\* The principal or an admin, at any time after registration: an expired or
\* already invalidated intent may be invalidated too.
InvalidateIntent(sender, i) ==
    /\ intents[i].status # "NONE"
    /\ sender = intents[i].principal \/ sender \in roles["DEFAULT_ADMIN"]
    /\ intents' = [intents EXCEPT ![i].status = "INVALIDATED"]
    /\ UNCHANGED <<now, verifications, principalNonce, intentNonce, roles>>

\* OpenZeppelin AccessControl, whose role admin is DEFAULT_ADMIN_ROLE.
GrantRole(sender, r, account) ==
    /\ sender \in roles["DEFAULT_ADMIN"]
    /\ roles' = [roles EXCEPT ![r] = @ \cup {account}]
    /\ UNCHANGED <<now, intents, verifications, principalNonce, intentNonce>>

\* revokeRole by an admin, or renounceRole by the member itself.
RevokeRole(sender, r, account) ==
    /\ sender \in roles["DEFAULT_ADMIN"] \/ sender = account
    /\ roles' = [roles EXCEPT ![r] = @ \ {account}]
    /\ UNCHANGED <<now, intents, verifications, principalNonce, intentNonce>>

Tick ==
    /\ now < MaxTime
    /\ now' = now + 1
    /\ UNCHANGED <<intents, verifications, principalNonce, intentNonce, roles>>

Next ==
    \/ \E d \in IntentDigests, sig \in PrincipalSigs : RegisterIntent(d, sig)
    \/ \E sender \in Accounts, d \in VerificationDigests, sig \in OracleSigs :
          RecordVerification(sender, d, sig)
    \/ \E sender \in Accounts, i \in Intents : InvalidateIntent(sender, i)
    \/ \E sender \in Accounts, r \in Roles, account \in RoleAccounts :
          GrantRole(sender, r, account) \/ RevokeRole(sender, r, account)
    \/ Tick

Spec == Init /\ [][Next]_vars

-----------------------------------------------------------------------------

\* What the settling contracts see of the registry.
Gate == INSTANCE ApprovalGate WITH
    Principals <- Accounts,
    intents <- [i \in Intents |-> [principal |-> intents[i].principal,
                                   expiresAt |-> intents[i].expiresAt,
                                   status |-> intents[i].status]]

\* The registry keeps the promise its consumers rely on: whatever roles,
\* nonces and signatures do, statuses, expiries and verdicts move only as
\* ApprovalGate says.
ImplementsGate == Gate!GateSpec

\* Nothing is ever recorded under an intent that is not registered, and a
\* registered one never returns to that state with its record half there.
UnregisteredIsEmpty ==
    \A i \in Intents : intents[i].status = "NONE" =>
        /\ intents[i] = EmptyIntent
        /\ verifications[i] = [a \in Actions |-> EmptyVerification]

\* sig is a signature of its principal for intent i as it is stored, at a
\* nonce that is spent.
SignedAs(i, sig) ==
    /\ sig.signer = intents[i].principal
    /\ sig.digest.principal = sig.signer
    /\ sig.digest.intentHash = i
    /\ sig.digest.agentId = intents[i].agentId
    /\ sig.digest.expiresAt = intents[i].expiresAt
    /\ sig.digest.nonce < principalNonce[sig.signer]

\* A registered intent is exactly one its principal signed, and no two intents
\* of a principal were registered on signatures of one nonce, in whatever
\* order they were signed and sent (registerIntent's signature and nonce
\* checks).
RegisteredAsSigned ==
    /\ \A i \in Intents : intents[i].status # "NONE" => \E sig \in PrincipalSigs : SignedAs(i, sig)
    /\ \A i, j \in Intents :
          /\ i # j /\ intents[i].principal = intents[j].principal
          /\ intents[i].status # "NONE" /\ intents[j].status # "NONE"
          => \E s, t \in PrincipalSigs : SignedAs(i, s) /\ SignedAs(j, t) /\ s.digest.nonce # t.digest.nonce

\* A principal's nonce counts the intents it has registered.
RegisteredBy(p) == {i \in Intents : intents[i].principal = p}

NonceCountsRegistrations ==
    \A p \in Accounts : principalNonce[p] = Cardinality(RegisteredBy(p))

\* A recorded verdict is one an oracle signed for this intent, its agent and
\* this action, with a nonce that is spent, and it was recorded before the
\* attestation and the intent expired (recordVerification's checks).
VerdictAttested ==
    \A i \in Intents, a \in Actions : verifications[i][a] # EmptyVerification =>
        \E sig \in OracleSigs :
            /\ sig.digest.intentId = i /\ sig.digest.intentHash = i
            /\ sig.digest.agentId = intents[i].agentId
            /\ sig.digest.actionHash = a
            /\ sig.digest.verdict = verifications[i][a].verdict
            /\ sig.digest.settlementBinding = verifications[i][a].settlementBinding
            /\ sig.digest.nonce < intentNonce[i]
            /\ verifications[i][a].timestamp <= sig.digest.expiry
            /\ verifications[i][a].timestamp <= intents[i].expiresAt

\* The inductive invariant of the proofs.
IInv ==
    /\ TypeOK
    /\ UnregisteredIsEmpty
    /\ RegisteredAsSigned
    /\ NonceCountsRegistrations
    /\ VerdictAttested

\* No attestation is used twice: a step that changes a verification spends the
\* intent's current nonce on a signature that carries it, made by an account
\* that holds VERIFIER_ROLE in that very block, and changes no other
\* verification of any intent.
AttestationsSpentOnce ==
    [][ verifications' # verifications =>
        \E sig \in OracleSigs :
            LET i == sig.digest.intentId  a == sig.digest.actionHash IN
            /\ sig.signer \in roles["VERIFIER"]
            /\ sig.digest.nonce = intentNonce[i]
            /\ intentNonce' = [intentNonce EXCEPT ![i] = @ + 1]
            /\ \A j \in Intents, b \in Actions :
                  verifications'[j][b] # verifications[j][b] => j = i /\ b = a ]_vars

\* An intent that was invalidated or has expired never comes back: it stays
\* dead, its verifications are frozen, and none of its actions is approved.
DeadStaysDead ==
    [][ \A i \in Intents : Gate!Dead(i) =>
          /\ Gate!Dead(i)'
          /\ verifications'[i] = verifications[i]
          /\ \A a \in Actions : ~Gate!IsApproved(i, a)' ]_vars

\* Once registered, an intent's principal, agent and expiry are fixed for good.
RecordFixed ==
    [][ \A i \in Intents : intents[i].status # "NONE" =>
          \E s \in {"ACTIVE", "INVALIDATED"} :
              intents'[i] = [intents[i] EXCEPT !.status = s] ]_vars

=============================================================================
