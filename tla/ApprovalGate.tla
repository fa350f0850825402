---------------------------- MODULE ApprovalGate ----------------------------
(***************************************************************************)
(* What IntentRegistry promises to the contracts that read it, without the *)
(* signatures, nonces and roles by which it keeps the promise.  A settling *)
(* contract sees an intent's status and expiry (getIntent), the last       *)
(* verification of an action (getVerification, getSettlementBinding) and   *)
(* isApproved.  IntentRegistry implements this module (Gate!GateSpec       *)
(* there), and Settlement composes the settling contracts with it.         *)
(***************************************************************************)
EXTENDS Integers

CONSTANTS
    Intents,        \* intent ids (an id is the hash of the envelope)
    Actions,        \* action hashes
    Bindings,       \* settlement bindings (hashes) an oracle may attest
    Principals,     \* addresses that register intents
    NoAccount,      \* address(0)
    NoBinding,      \* bytes32(0)
    MaxTime         \* bound: the clock stops here

Times == 0..MaxTime
Statuses == {"NONE", "ACTIVE", "INVALIDATED"}
Verdicts == {"NONE", "APPROVE", "REJECT", "CHALLENGE"}

ASSUME GateAssumption ==
    /\ MaxTime \in Nat
    /\ NoAccount \notin Principals
    /\ NoBinding \notin Bindings

VARIABLES
    now,            \* block.timestamp
    intents,        \* IntentRegistry.intents: principal, expiresAt, status
    verifications   \* IntentRegistry.verifications[intentId][actionHash]

gateVars == <<now, intents, verifications>>

GateIntents == [principal: Principals \cup {NoAccount},
                expiresAt: Times, status: Statuses]
GateVerifications == [verdict: Verdicts, timestamp: Times,
                      settlementBinding: Bindings \cup {NoBinding}]

GateTypeOK ==
    /\ now \in Times
    /\ intents \in [Intents -> GateIntents]
    /\ verifications \in [Intents -> [Actions -> GateVerifications]]

GateInit ==
    /\ now = 0
    /\ intents = [i \in Intents |->
          [principal |-> NoAccount, expiresAt |-> 0, status |-> "NONE"]]
    /\ verifications = [i \in Intents |-> [a \in Actions |->
          [verdict |-> "NONE", timestamp |-> 0, settlementBinding |-> NoBinding]]]

\* The intent can still be verified and settled against.
Live(i) == intents[i].status = "ACTIVE" /\ now <= intents[i].expiresAt

\* The intent can never be verified or settled against again.
Dead(i) == \/ intents[i].status = "INVALIDATED"
           \/ intents[i].status = "ACTIVE" /\ now > intents[i].expiresAt

IsApproved(i, a) == Live(i) /\ verifications[i][a].verdict = "APPROVE"

-----------------------------------------------------------------------------

Tick ==
    /\ now < MaxTime
    /\ now' = now + 1
    /\ UNCHANGED <<intents, verifications>>

Register(i, p, expiresAt) ==
    /\ intents[i].status = "NONE"
    /\ expiresAt > now
    /\ intents' = [intents EXCEPT ![i] =
          [principal |-> p, expiresAt |-> expiresAt, status |-> "ACTIVE"]]
    /\ UNCHANGED <<now, verifications>>

Attest(i, a, verdict, binding) ==
    /\ Live(i)
    /\ verifications' = [verifications EXCEPT ![i][a] =
          [verdict |-> verdict, timestamp |-> now, settlementBinding |-> binding]]
    /\ UNCHANGED <<now, intents>>

Invalidate(i) ==
    /\ intents[i].status # "NONE"
    /\ intents' = [intents EXCEPT ![i].status = "INVALIDATED"]
    /\ UNCHANGED <<now, verifications>>

GateNext ==
    \/ Tick
    \/ \E i \in Intents :
        \/ \E p \in Principals, e \in Times : Register(i, p, e)
        \/ \E a \in Actions, v \in Verdicts, b \in Bindings \cup {NoBinding} :
              Attest(i, a, v, b)
        \/ Invalidate(i)

GateSpec == GateInit /\ [][GateNext]_gateVars

=============================================================================
