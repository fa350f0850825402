----------------------------- MODULE Settlement -----------------------------
(***************************************************************************)
(* The contracts that act on an approval, composed with what IntentRegistry*)
(* promises them (ApprovalGate): DemoVault, IntentExecutor with its callee *)
(* SettlementTarget, IntentBounty and CertificateConsumer, and the native  *)
(* coin they hold.                                                         *)
(*                                                                         *)
(* A transaction is one step unless it calls a contract somebody else      *)
(* wrote, Hook: then the call is a frame on the stack, Hook may call any   *)
(* contract from inside it, and the frame ends by Hook returning or        *)
(* reverting.  A revert restores the storage saved when the frame began.   *)
(* A transaction that reverts on its own changes nothing and is no step.   *)
(***************************************************************************)
EXTENDS ApprovalGate, SequencesExt

CONSTANTS
    Users,          \* externally owned accounts
    Hook,           \* an arbitrary contract: may reenter, may refuse a payment
    Vault, Executor, Bounty, Target,    \* the deployed contracts
    Calldata,       \* payloads of IntentExecutor.execute; "" is the empty one
    Amounts,        \* bound: the values sent with a call
    Wealth,         \* bound: what each user and Hook own at first
    ChallengeDelay, \* IntentExecutor.challengeDelay
    MaxDepth        \* bound: nested calls into Hook

Callers == Users \cup {Hook}
Addresses == Callers \cup {Vault, Executor, Bounty, Target}
Pairs == Intents \X Actions
Expiries == 0..(MaxTime - 1)    \* bound: the clock outlives every intent

ASSUME SettlementAssumption ==
    /\ NoAccount \notin Addresses
    /\ Hook \notin Users
    /\ {Vault, Executor, Bounty, Target} \cap Callers = {}
    /\ Vault # Executor /\ Vault # Bounty /\ Vault # Target
    /\ Executor # Bounty /\ Executor # Target /\ Bounty # Target
    /\ Amounts \subseteq Nat /\ ChallengeDelay \in Nat /\ MaxDepth \in Nat
    /\ Wealth \in Nat

VARIABLES
    settled,        \* DemoVault.settled
    deposits,       \* DemoVault.deposits
    executed,       \* IntentExecutor.executed
    bounties,       \* IntentBounty.bounties
    consumed,       \* CertificateConsumer.consumed
    lastCall,       \* SettlementTarget's lastCaller, lastData, lastValue
    eth,            \* native balances
    audit,          \* history, per pair: the events Funded, Claimed, Refunded,
                    \* and how often value settled since the last attestation
    stack           \* unfinished calls into Hook, each with the saved storage

contractVars == <<settled, deposits, executed, bounties, consumed, lastCall, eth, audit>>
settlementVars == <<now, intents, verifications, contractVars, stack>>

\* keccak256(abi.encode(...)) of distinct values is distinct.
VaultBinding(i, a, value) == <<i, a, value>>
ExecutorBinding(i, a, target, data, value) == <<i, a, target, data, value>>

SettlementTypeOK ==
    /\ GateTypeOK
    /\ settled \in [Pairs -> BOOLEAN]
    /\ deposits \in [Pairs -> Nat]
    /\ executed \in [Pairs -> BOOLEAN]
    /\ bounties \in [Pairs -> [funder: Callers \cup {NoAccount}, amount: Nat, claimed: BOOLEAN]]
    /\ consumed \in [Pairs -> BOOLEAN]
    /\ eth \in [Addresses -> Nat]
    /\ audit \in [Pairs -> [funded: Nat, claims: Nat, refunds: Nat, paid: Nat, uses: Nat]]
    /\ Len(stack) <= MaxDepth

SettlementInit ==
    /\ GateInit
    /\ settled = [k \in Pairs |-> FALSE]
    /\ deposits = [k \in Pairs |-> 0]
    /\ executed = [k \in Pairs |-> FALSE]
    /\ bounties = [k \in Pairs |-> [funder |-> NoAccount, amount |-> 0, claimed |-> FALSE]]
    /\ consumed = [k \in Pairs |-> FALSE]
    /\ lastCall = [caller |-> NoAccount, data |-> "", value |-> 0]
    /\ eth = [x \in Addresses |-> IF x \in Callers THEN Wealth ELSE 0]
    /\ audit = [k \in Pairs |->
          [funded |-> 0, claims |-> 0, refunds |-> 0, paid |-> 0, uses |-> 0]]
    /\ stack = <<>>

-----------------------------------------------------------------------------
(* Transactions and calls. *)

\* Inside a call only the called contract acts; otherwise anybody may.
MayCall(sender) == stack = <<>> \/ sender = Hook

Transfer(from, to, value) ==
    /\ value <= eth[from]
    /\ eth' = [x \in Addresses |-> eth[x] - (IF x = from THEN value ELSE 0)
                                          + (IF x = to THEN value ELSE 0)]

Saved == [intents |-> intents, settled |-> settled, deposits |-> deposits,
          executed |-> executed, bounties |-> bounties, consumed |-> consumed,
          lastCall |-> lastCall, eth |-> eth, audit |-> audit]

\* A call from a contract to an address: a user just receives the value,
\* SettlementTarget records the call (receive and ping are payable, it has no
\* other entry point), Hook runs.  The other contracts refuse a plain call;
\* bound: execute's calldata never names one of their entry points.  address(0)
\* is no address here, so the checks against it (ZeroTarget, ZeroBeneficiary)
\* always pass.
CallOut(from, to, data, value) ==
    /\ \/ to \in Users /\ UNCHANGED <<lastCall, stack>>
       \/ /\ to = Target /\ UNCHANGED stack
          /\ lastCall' = [caller |-> from, data |-> data, value |-> value]
       \/ /\ to = Hook /\ UNCHANGED lastCall
          /\ Len(stack) < MaxDepth
          /\ stack' = Append(stack, Saved)

HookReturns ==
    /\ stack # <<>>
    /\ stack' = Front(stack)
    /\ UNCHANGED <<gateVars, contractVars>>

\* CallFailed, "claim failed" or "refund failed": the whole call is undone.
HookReverts ==
    /\ stack # <<>>
    /\ LET s == Last(stack) IN
          /\ intents' = s.intents /\ settled' = s.settled /\ deposits' = s.deposits
          /\ executed' = s.executed /\ bounties' = s.bounties
          /\ consumed' = s.consumed /\ lastCall' = s.lastCall /\ eth' = s.eth
          /\ audit' = s.audit
    /\ stack' = Front(stack)
    /\ UNCHANGED <<now, verifications>>

-----------------------------------------------------------------------------
(* The registry: registration is open to anybody who holds the principal's *)
(* signature; the rest needs an account no contract of somebody else has.  *)

RegistryTick == stack = <<>> /\ Tick /\ UNCHANGED <<contractVars, stack>>

RegistryRegister(i, p, expiresAt) ==
    Register(i, p, expiresAt) /\ UNCHANGED <<contractVars, stack>>

RegistryAttest(i, a, verdict, binding) ==
    /\ stack = <<>>
    /\ Attest(i, a, verdict, binding)
    /\ audit' = [audit EXCEPT ![<<i, a>>].uses = 0]
    /\ UNCHANGED <<settled, deposits, executed, bounties, consumed, lastCall, eth, stack>>

RegistryInvalidate(i) ==
    stack = <<>> /\ Invalidate(i) /\ UNCHANGED <<contractVars, stack>>

-----------------------------------------------------------------------------
(* DemoVault, IntentExecutor, CertificateConsumer. *)

\* Faulty variants, for mutation runs: no delay, no binding, no status check.
CanExecuteAtOnce(i, a, target, data, value) ==
    /\ IsApproved(i, a) /\ ~executed[<<i, a>>]
    /\ verifications[i][a].settlementBinding = ExecutorBinding(i, a, target, data, value)

CanExecuteUnbound(i, a, target, data, value) ==
    /\ IsApproved(i, a) /\ ~executed[<<i, a>>]
    /\ now >= verifications[i][a].timestamp + ChallengeDelay

CanAcceptVerdict(i, a) ==
    verifications[i][a].verdict = "APPROVE" /\ ~consumed[<<i, a>>]

CanDeposit(i, a, value) ==
    /\ IsApproved(i, a)
    /\ verifications[i][a].settlementBinding = VaultBinding(i, a, value)
    /\ ~settled[<<i, a>>]

Deposit(sender, i, a, value) ==
    LET k == <<i, a>> IN
    /\ MayCall(sender)
    /\ CanDeposit(i, a, value)
    /\ settled' = [settled EXCEPT ![k] = TRUE]
    /\ deposits' = [deposits EXCEPT ![k] = @ + value]
    /\ Transfer(sender, Vault, value)
    /\ audit' = [audit EXCEPT ![k].uses = @ + 1]
    /\ UNCHANGED <<gateVars, executed, bounties, consumed, lastCall, stack>>

CanExecute(i, a, target, data, value) ==
    /\ IsApproved(i, a)
    /\ ~executed[<<i, a>>]
    /\ now >= verifications[i][a].timestamp + ChallengeDelay
    /\ verifications[i][a].settlementBinding = ExecutorBinding(i, a, target, data, value)

\* executed is set before the call, so the callee cannot execute again.
Execute(sender, i, a, target, data, value) ==
    LET k == <<i, a>> IN
    /\ MayCall(sender)
    /\ CanExecute(i, a, target, data, value)
    /\ executed' = [executed EXCEPT ![k] = TRUE]
    /\ Transfer(sender, target, value)
    /\ CallOut(Executor, target, data, value)
    /\ audit' = [audit EXCEPT ![k].uses = @ + 1]
    /\ UNCHANGED <<gateVars, settled, deposits, bounties, consumed>>

CanAccept(i, a) == IsApproved(i, a) /\ ~consumed[<<i, a>>]

Accept(sender, i, a) ==
    /\ MayCall(sender)
    /\ CanAccept(i, a)
    /\ consumed' = [consumed EXCEPT ![<<i, a>>] = TRUE]
    /\ UNCHANGED <<gateVars, settled, deposits, executed, bounties, lastCall, eth, audit, stack>>

-----------------------------------------------------------------------------
(* IntentBounty. *)

Fund(sender, i, a, value) ==
    LET k == <<i, a>> IN
    /\ MayCall(sender)
    /\ value > 0
    /\ ~bounties[k].claimed
    /\ bounties[k].funder \in {NoAccount, sender}
    /\ bounties' = [bounties EXCEPT ![k].funder = sender, ![k].amount = @ + value]
    /\ Transfer(sender, Bounty, value)
    /\ audit' = [audit EXCEPT ![k].funded = @ + value]
    /\ UNCHANGED <<gateVars, settled, deposits, executed, consumed, lastCall, stack>>

\* A faulty variant, for mutation runs: the bounty is not closed before the
\* payee is called.
PayOutOpen(k, to) ==
    LET amount == bounties[k].amount IN
    /\ bounties' = [bounties EXCEPT ![k].claimed = (to # Hook),
                                   ![k].amount = IF to = Hook THEN @ ELSE 0]
    /\ Transfer(Bounty, to, amount) /\ CallOut(Bounty, to, "", amount)
    /\ UNCHANGED <<gateVars, settled, deposits, executed, consumed>>

\* What claim and refund do once their checks pass: close the bounty, then pay.
PayOut(k, to) ==
    LET amount == bounties[k].amount IN
    /\ bounties' = [bounties EXCEPT ![k].claimed = TRUE, ![k].amount = 0]
    /\ Transfer(Bounty, to, amount)
    /\ CallOut(Bounty, to, "", amount)
    /\ UNCHANGED <<gateVars, settled, deposits, executed, consumed>>

\* Anybody may claim an approved bounty, for any beneficiary.
Claim(sender, i, a, beneficiary) ==
    LET k == <<i, a>> IN
    /\ MayCall(sender)
    /\ bounties[k].amount # 0
    /\ ~bounties[k].claimed
    /\ IsApproved(i, a)
    /\ PayOut(k, beneficiary)
    /\ audit' = [audit EXCEPT ![k].claims = @ + 1, ![k].paid = @ + bounties[k].amount]

\* Faulty variants, for mutation runs.
RefundableIfExpired(i, a) == now >= intents[i].expiresAt
RefundableIfInvalidated(i, a) == intents[i].status = "INVALIDATED"

\* An intent that is not registered has expiresAt 0 and counts as invalidated.
Refundable(i, a) ==
    \/ intents[i].status \in {"INVALIDATED", "NONE"}
    \/ now > intents[i].expiresAt /\ ~IsApproved(i, a)

Refund(sender, i, a) ==
    LET k == <<i, a>> IN
    /\ MayCall(sender)
    /\ bounties[k].amount # 0
    /\ ~bounties[k].claimed
    /\ sender = bounties[k].funder
    /\ Refundable(i, a)
    /\ PayOut(k, bounties[k].funder)
    /\ audit' = [audit EXCEPT ![k].refunds = @ + 1, ![k].paid = @ + bounties[k].amount]

-----------------------------------------------------------------------------

SettlementNext ==
    \/ RegistryTick
    \/ \E i \in Intents :
        \/ \E p \in Principals, e \in Expiries : RegistryRegister(i, p, e)
        \/ RegistryInvalidate(i)
        \/ \E a \in Actions :
            \/ \E v \in Verdicts, b \in Bindings : RegistryAttest(i, a, v, b)
            \/ \E sender \in Callers :
                \/ \E value \in Amounts :
                    \/ Deposit(sender, i, a, value)
                    \/ Fund(sender, i, a, value)
                    \/ \E target \in Callers \cup {Target}, data \in Calldata :
                          Execute(sender, i, a, target, data, value)
                \/ Accept(sender, i, a)
                \/ \E to \in Callers \cup {Target} : Claim(sender, i, a, to)
                \/ Refund(sender, i, a)
    \/ HookReturns
    \/ HookReverts

SettlementSpec == SettlementInit /\ [][SettlementNext]_settlementVars

\* Blocks keep coming whatever is in them, a user that keeps asking for its
\* refund is included sooner or later, and the outermost call ends, as its gas
\* does: all may be disabled again and again while a call into Hook is open,
\* hence strong fairness.
SettlementFairness ==
    /\ SF_settlementVars(RegistryTick)
    /\ SF_settlementVars(Len(stack) = 1 /\ (HookReturns \/ HookReverts))
    /\ \A u \in Users, i \in Intents, a \in Actions : SF_settlementVars(Refund(u, i, a))

FairSettlementSpec == SettlementSpec /\ SettlementFairness

-----------------------------------------------------------------------------

\* The sum of the values of f, counted: one pair for every unit.
Units(f) == UNION {{x} \X (1..f[x]) : x \in DOMAIN f}
Total(f) == Cardinality(Units(f))

\* Every contract holds exactly what its books say, in every state and so also
\* while Hook runs inside a payment: the bounty contract the open bounties,
\* the vault the deposits, the executor nothing.
Solvent ==
    /\ eth[Bounty] = Total([k \in Pairs |-> bounties[k].amount])
    /\ eth[Vault] = Total(deposits)
    /\ eth[Executor] = 0

\* A bounty is paid out at most once, to claim or refund and never both, even
\* if the payee reenters; what was funded is what was paid plus what is open.
BountyPaidOnce ==
    \A k \in Pairs :
        /\ audit[k].claims + audit[k].refunds <= 1
        /\ audit[k].funded = audit[k].paid + bounties[k].amount
        /\ bounties[k].claimed <=> audit[k].claims + audit[k].refunds = 1

\* One attestation settles at most once, in the vault or through the executor
\* and never in both ("One verify = one binding (vault or executor)").  The
\* count restarts at an attestation; the consumer moves no value and is not
\* counted.
OneSettlementPerAttestation ==
    \A k \in Pairs : audit[k].uses <= 1

\* While an intent is dead (invalidated, or past its expiry) nothing settles
\* on it: no deposit, no execution, no credential, no claim, not from inside
\* an open call either.
DeadSettlesNothing ==
    [][ \A k \in Pairs : Dead(k[1]) =>
          /\ settled'[k] = settled[k]
          /\ executed'[k] = executed[k]
          /\ consumed'[k] = consumed[k]
          /\ audit'[k].claims = audit[k].claims ]_settlementVars

\* The executor honours the principal's veto window: what it executes stood
\* attested, unrevoked and unreplaced, for the whole challenge delay.
VetoWindow ==
    [][ \A i \in Intents, a \in Actions :
          executed'[<<i, a>>] /\ ~executed[<<i, a>>] =>
              /\ IsApproved(i, a)
              /\ now - verifications[i][a].timestamp >= ChallengeDelay ]_settlementVars

\* A refund is never taken while the work stands approved: the funder cannot
\* race the beneficiary of an approved action.
RefundNeverBeatsApproval ==
    [][ \A i \in Intents, a \in Actions :
          audit'[<<i, a>>].refunds > audit[<<i, a>>].refunds => ~IsApproved(i, a) ]_settlementVars

\* No bounty is stuck: a user's bounty is in the end claimed or refunded.
BountyDrains ==
    \A u \in Users, k \in Pairs :
        bounties[k].funder = u /\ bounties[k].amount > 0 ~> bounties[k].amount = 0
=============================================================================
