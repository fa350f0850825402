# INTENTOS in TLA+

INTENTOS lets a principal sign an *intent*, has an agent's *action* verified
against it, and settles value only if an oracle attested `APPROVE` on chain.
These modules model the contracts, the API, the verifier and the pages that
lead to a settlement, check them with TLC on small instances, and prove the
registry, the credit meter, the settling contracts, the verification pipeline,
the API's other services, the verifier and the pages for every value of their constants.

## 1. The system

| Part | State | Operations | Interacts with |
|---|---|---|---|
| `IntentRegistry.sol` | intents, verifications, principal and intent nonces, roles | registerIntent, recordVerification, invalidateIntent, role calls | read by every settling contract and by the API; written by principals and the API's oracle key |
| `DemoVault.sol` | settled, deposits | deposit | reads the registry |
| `IntentExecutor.sol`, `SettlementTarget.sol` | executed; last call | execute; receive, ping | reads the registry, calls any target |
| `IntentBounty.sol` | bounties | fund, claim, refund | reads the registry, pays by a call |
| `CertificateConsumer.sol` | consumed | accept | reads the registry |
| `VerificationMeter.sol` | credits, price | deposit, withdraw, debit, setPrice | debited by the API, pays by a call |
| `IntentosAgenticId*.sol` | tokens, metadata, authorizations | mint, transfer, clone, authorizeUsage | calls the receiver; proofs signed by the API |
| API pipeline (`pipeline.ts`) | the Verification, CertificateRow, LogEvent and ExecutionBatch tables | runVerification and the functions it awaits | verifier, 0G Storage, meter, registry |
| API routes (`app.ts`) | the same tables, the Intent table | compile, verify (human, a2a, step), settle, attest, proof, reputation, envelope, ready, log, agentic | pipeline, zerog clients |
| Rate limiter (`rate-limit.ts`) | a window per client | a hook before the paid routes, a sweep | the routes |
| zerog clients | TEE registry cache | waitForReceipt, storage, router | 0G Chain, Storage, Router |
| Verifier (`orchestrate`, `compiler`, `layer3`, `verdict`), rules engine, agent clamp | none | compileIntent, proposeAction, verifyAction | 0G Router |
| Web pages (`Studio`, `Playbook`, `Market`, proof page, `useReady`) | a session's state hooks | compile, register, propose or offer, verify, replan, settle, fund, claim | API, wallet, contracts |

What is hard here: settling contracts read a registry that changes under them
(re-attestation, invalidation, expiry) and call contracts that may reenter; the
API's handlers interleave at every `await` while they hold chain state, credits
and rows they read earlier; transactions land after their sender gave up on
them; the process may die between charging a payer and attesting; several
handlers rewrite one certificate row and one log; caches and probes answer out
of order; a page's handlers overlap, outlive an account change and write what
they return into whatever session the page holds by then; and what a language
model answers is anything. `PROJECT.json` lists these hazards line by line with
the properties that watch them.

What makes each part correct:

* registry: what is stored was signed, each signature works once, a dead intent
  stays dead;
* settlement: contracts hold what their books say, one attestation settles at
  most once, nothing settles on a dead intent, bounties are paid once and never
  stuck, the veto window is honoured;
* meter and tokens: solvent, every account's book balances; a token is minted
  with its metadata or not at all, and its metadata changes by the oracle's proof;
* pipeline: only a paid and stored verification is attested, only the registered
  principal pays, an `ok` answer is true, certificates do not mix two verifies,
  every request is answered;
* batch log: append-only, and batch ids point to batches that hold their events;
* compile, proof page: what a row, a root, a settlement or a feedback says is so;
* rate limit, TEE cache, readiness: the answer is within its stated age or bound;
* verifier: whatever the models answer, an approved action obeys the limits of the
  sentence that the model did not soften or replace;
* pages: what settles was charged to its own intent's principal, a nonce gives
  one intent and a verify settles once, however sessions overlap and whatever is
  retried; steps in order, money is locked only for what was approved.

## 2. Modules

| Module | Models | Lines of |
|---|---|---|
| `ApprovalGate` | abstract: what the registry promises its readers (status, expiry, last verification) | `IntentRegistry.sol` |
| `IntentRegistry` | the registry with signatures, nonces and roles; `ImplementsGate` is its refinement of `ApprovalGate` | `IntentRegistry.sol` |
| `Settlement` | the vault, executor, bounty, consumer and target over `ApprovalGate`, with native balances, an arbitrary contract `Hook` and a call stack | the five contracts |
| `VerificationMeter` | the meter with the same kind of call stack | `VerificationMeter.sol` |
| `AgenticId` | tokens whose mint calls its receiver, proofs of the oracle | `IntentosAgenticIdV2.sol`, `app.ts` |
| `BatchLog` | `flushBatchLog` and the log tables | `pipeline.ts` |
| `VerifyPipeline` | `runVerification` and `POST /settle` as concurrent handlers, over `ApprovalGate` and `BatchLog` | `pipeline.ts`, `app.ts`, `chain.ts` |
| `ProofRecords` | the rows and the certificate of one action, and the page that shows them | `app.ts`, `CertificatePage.tsx` |
| `Envelopes` | `POST /compile` from nonce to row, the copy in 0G Storage, registration, `GET /envelope` | `app.ts`, `storage.ts` |
| `RateLimit`, `TeeRegistryCache` | fixed windows and their sweep; the cached TEE listing | `rate-limit.ts`, `router.ts` |
| `Readiness` | `GET /ready`, `useReady`, and what a verify needs | `app.ts`, `useReady.ts` |
| `Verifier` | compiler merge, rules, Layer 3, verdict and the agent's clamp, as operators and a session over them | `packages/verifier`, `rules-engine`, `agent-sdk` |
| `Playbook`, `Studio`, `Market` | the pages' handlers, with the API, registry, vault and bounty as far as they depend on them | `Playbook.tsx`, `Studio.tsx`, `Market.tsx`, `app.ts` |
| `*Proofs` | theorems about the module they are named after, or about the sum of that name (`MCContracts`, `MCServices`, `MCPages`) | |
| `MC*` | instances | |

How state and actions correspond to the code:

* **IntentRegistry.** One variable per mapping, one action per external
  function; a guard conjunct per `revert`, in the code's order. A signature is
  a pair of signer and digest; recovering over another digest gives nobody.
  The sets of signatures ever made are constants: signing happens off chain,
  and the contract cannot tell when.
* **Settlement.** A transaction is one action. A call to `Hook` pushes the
  storage as it was before the transaction; while it is open only `Hook` acts,
  through any entry point; `HookReturns` pops the frame and `HookReverts` puts
  the saved storage back, which is what `CallFailed` and the failed `require`s
  do to the whole call. `audit` is history: it counts what the events report.
* **VerificationMeter.** The same, with `book` summing the events. The admin
  and the settler are single accounts that are not `Hook`, so role changes are
  left out.
* **AgenticId.** `SafeMint` to `Hook` leaves a frame; URI and hash are written
  when it returns. A proof carries what the oracle signed over; the proof
  request reads URI and hash in two steps, as the route does.
* **BatchLog.** Every `await` of `flushBatchLog` ends a step. `FlushAborts` is a
  failing upload or query, or a crash.
* **VerifyPipeline.** `pc[r]` names the await the handler of request `r` is at;
  a step is the code up to the next one. `job[r]` holds the handler's locals
  and the columns of its Verification row that matter here. A transaction is
  `pending` once sent and lands, or not, in a step of its own (`LandDebit`,
  `LandAttest`), with the contract's checks made then; the sender may give up
  waiting at any time. `writeContract` estimates gas, so it throws if the call
  would revert at that moment. `POST /attest` is the action `ChainAttest`, which
  spends the intent's nonce with somebody else's evidence root. `Crash` ends
  every open handler and keeps the tables, storage and chain.
* **ProofRecords.** The tables around one action with several verifies, of
  which some failed and left a row: every route looks up the first.
* **Envelopes.** An envelope is a record of what the properties tell apart; its
  hash is itself without its integrity field. `StoreLands` is the storage
  network taking a copy in, whether or not anybody still waits.
* **RateLimit, TeeRegistryCache.** Time passes in `Tick`. `served` (when each client got
  through), `uncapped` and `lastTrue` are history. A fetch reads the listing when it is served and
  is stamped when it arrives.
* **Readiness.** `holds` is the world, which changes between the checks of one
  probe; several probes may be under way. `held` is history.
* **Verifier.** An optional value is a set of at most one element. What a model
  answers is any member of a constant set, malformed members included. The
  regular expressions are abstracted to what they read in a sentence.
* **Playbook, Studio, Market.** A press starts a call that keeps what it read; its
  return writes the page's hooks. Transactions may land after the page gave up,
  and the wallet's account changes at any time. `Studio` disables its buttons by
  one `busy`, which "Replan" ignores; a verify answered with an error may have its
  attestation land later, and its charge stays; `Playbook` and `Market` by the label of the
  handler last started, so any two handlers can be under way. In `Market` any
  account may claim, for itself, as `IntentBounty` allows.

Composition. `Settlement` and `VerifyPipeline` extend `ApprovalGate`, and
`VerifyPipeline` extends `BatchLog`: they share its state. The rest meet only
through the registry and the tables, which their modules carry as far as needed.
Faulty variants of definitions, kept for mutation, sit next to the definitions
they replace.

## 3. Runs

| Run | cfg | Shows |
|---|---|---|
| registry | `MCIntentRegistry` | two competing intents, replayed and misdirected signatures, role changes: the safety, the action properties and the refinement of the registry |
| settlement_calls | `MCSettlement` | one pair, all contracts, reentrancy two deep, a delay of 2 in 3 time units |
| settlement_bounties | `MCBounties` | two bounties in one escrow, reentered from each other: paid once, and in the end claimed or refunded |
| two_verifies | `MCVerifyPipeline` | two verifies of one action at one nonce, while others attest |
| verify_and_settle | `MCCertificates` | two verifies and a settlement report on one certificate |
| verifier | `MCVerifier` | every compile, propose, replan and verify over the sets of texts, drafts and proposals |
| contracts | `MCContracts` | the meter with a withdrawer, the tokens with a receiver, that reenters or refuses |
| services | `MCServices` | overlapping and aborted flushes; the limiter's windows; overtaking cache refreshes; two compiles and a restart; two verifies, a settlement and a proof page |
| pages | `MCPages` | the Studio, the Playbook, the Market, a readiness probe in a changing world |
| liveness | `MCLiveness` | every verify and compile ends, the page comes to agree with the world; with two wallets, the principal pays |
| unbillable, envelope_matches | `MCUnbillable`, `MCEnvelopeMatches` | expected violations, section 6 |

`contracts`, `services`, `pages` and `liveness` are sums: a variable chosen in
the initial state (`contract`, `service`, `mounted`, `part`) says which component
a behaviour exercises, and the others stay at rest. These components share no
state and do not call each other, so an interleaving of two of them shows
nothing that the two alone do not; what does interact (the pipeline with the
gate and the log, the contracts with each other) is composed, not summed. The
initial states of the components at rest are cut to one. A module used that way
states what its constants must be in a definition (`RateConstants` and the
like), which the MC module assumes.

Some properties conjoin what belongs to one promise: `RowsAreTrue` (an intent on
chain has its row, a root in a row can be fetched, a fetched copy is the
intent's but for its status), `ProofPageTrue` (what was settled or rated is
shown; a shown transaction attested what is shown), `PlaybookInOrder` (a settled
step 2 follows an approved step 1 of its intent; step 2 waits for the chain),
`RegisteredAsSigned` (what is stored was signed with a spent nonce; a principal's
nonce registers one intent), `SessionsKeptApart` (what settled was charged to its
own intent's principal; of the intents compiled at one nonce one is registered),
`ApprovedObeysStated` (a stated limit, the risk class and the kinds of action
included, is kept where it is hard and stated in the envelope; of a softened one
Layer 3 keeps leverage, the currency and the kind of action).

What `ApprovedObeysStated` leaves out, since the code does: a limit the model
softened, beyond what Layer 3 keeps; a limit whose value the merge takes from the
model (`Replaced`: of a complete item the risk class and the action list, since only
numbers and currency are put back, `compiler.ts:77-88`; of an incomplete one the values it does carry); and a stated
amount of zero. Section 6 has what follows from them.

`OneSettlementPerAttestation` counts the vault and the executor, which move value
by a binding; a new attestation starts a new count, and the consumer, which
moves none, is not counted. `ReadyIsServable` says only that each required check
was true when it was read: an answer of several moments is what the code gives,
and no property rules it out (`PageFollows` says that it does not last).

Bounds, and why they are enough:

* `MaxTime` stops the clock. Registry 3, settlement 2 or 3: an intent can be
  registered, attested, still be live at its expiry, then be past it, with time
  left; the executor's delay can elapse before or after expiry. In `Settlement`
  intents expire before the clock stops (`Expiries`), or a refund could not
  become possible. Services 6: three windows of the limiter, or a cache lifetime
  of 2 with fetches of 1, twice over.
* The registry's digests are chosen so that each check of both functions
  decides something (see `MCIntentRegistry`): competing intents at one nonce,
  two principals for one hash, a foreign signature, two attestations at one
  nonce, wrong intentHash, wrong agentId, an oracle without the role.
* `MaxDepth` 2 nests a call of `Hook` inside another, the least depth at which
  reentry changes what an outer frame finds. Execution targets are users,
  `Hook` and `SettlementTarget`: calldata that names another settling
  contract's entry point is out of bounds.
* `Amounts`, `Wealth`, `MaxDeposits` and `InitialCredits` are 0 to 3: one unit
  is enough to pay twice or once too often. `MaxTokens` 2 lets a mint be
  reentered by another, `MaxProofs` 1 lets one proof be used again.
* Two requests on one intent and one action are the closest two handlers can
  come: they share the nonce, the credits, the certificate and the log.
  `AttestationTTL` 0 lets an attestation expire while it is pending; in
  `verify_and_settle` it is 1, so that both can land. `MaxDirect` bounds
  `POST /attest`. Credits are prepaid only (`InitialCredits`): a later deposit
  would only accept more debits. `FlushThreshold` 2 instead of 3 keeps the
  number of requests at two; `MaxBatches` stops forced flushes, not the ones
  requests make; `verify_and_settle` keeps 3, so that no flush interferes.
* `Limit` 2 and `WindowMs` 2 put requests before, at and after the end of a
  window; `MaxCount` 5 is above twice the limit. `Restarts` 1: a second restart
  finds what the first left.
* `MCVerifier` takes one item of the model's answer off the rail at a time
  (missing, zero, larger, soft, unnamed) per constraint type, and proposals that
  break one or more limits; scores on both sides of the threshold of 75.
* Pages: `MaxIntents` 2 and two accounts for answers that return into another
  session; `MaxPresses` 7 is a whole session with a replan, `MarketPresses` 6 one
  from a requirement to a claim; `MaxSwitches` 3 is away, back and away, and
  `MarketSwitches` 2 one change after the wallet is connected; `MaxCalls` 2 lets
  any two handlers overlap, with any number of late transactions. The accounts
  are symmetric: no page tells one from another but by comparing them, and the
  run has no liveness property. `MaxDefects` 2 and `MaxDown` 1 bound how far a
  configuration and the world are from complete.

Deadlock checking is off where the instance really stops: the clock bound is
reached, every one-shot contract is used, all requests are answered, all presses
are made. The registry's, the verifier's and the contracts' runs check it.

Fairness.

* `SettlementFairness`: blocks keep coming; a funder who keeps asking for its
  refund is included; and the outermost open call ends, with success or a
  revert, because a transaction has a gas limit. All three are strong: an open
  call into `Hook` disables the others for a while, again and again.
* `LivenessSpec`: the event loop goes on with each verify and each compile
  (weak fairness of their steps, `FairPipelineSpec` and `FairEnvelopesSpec`);
  every wait has a deadline, in the code or, for the Router's listing
  (`router.ts`), only in the runtime's fetch. Nothing is assumed of the chain or of
  the storage network: the mutants that wait without a deadline are stuck.
* For the page, `setInterval` polls and each fetch ends (weak fairness of both);
  nothing is assumed of the order of the answers.

Every property has a mutant in `PROJECT.json`: a definition with a plausible
bug (a dropped check, a reset field, a swapped order) under which TLC finds the
property violated by the same cfg.

## 4. Proofs

Each proof module shows one inductive invariant, and the theorems follow from it.

`IntentRegistryProofs`, from `RegistryAssumption` (finitely many intents,
distinct null values, signatures by accounts), for any accounts, roles, digests
and signatures: `TypeCorrect`, `SignedRegistrations`, `NonceIsCount`,
`AttestedVerdicts`, `NothingUnregistered`; the action properties
`NoAttestationReplay`, `NoRevival`, `RecordsNeverChange`; and
`RegistryImplementsGate`, the refinement, one step of `ApprovalGate` or a
stutter per action. `IInv` is the conjunction of the invariants: without
`UnregisteredIsEmpty` a registration could overwrite a principal that already
counts towards its nonce, and verdicts recorded under an earlier agent could
survive it. A nonce that has registered an intent is below its principal's
present one, at which the next is signed: hence one intent per nonce in
`SignedRegistrations`. Finiteness of `Intents` is needed for cardinalities.

`ContractsProofs`, over both contracts of `MCContracts`, for any accounts,
amounts, tokens and nesting: `ContractsTypeCorrect`, `MeterCanPay`,
`CreditsAccounted`, `TokensAreComplete`, `MetadataNeedsProof`. None of the
invariants is inductive alone, since a revert restores a frame's saved storage.

* `MeterIInv`: every open frame was balanced and covered when it was saved.
  `Total` counts the pairs of a unit and its account (`Units`), because what a fold computes
  cannot be proved here. `TotalChanges` says that changing one value changes
  the total by the difference; that `Units` is finite is part of the invariant,
  so the accounts need not be.
* `AgenticIInv`: the tokens that exist are 1..n (`NoGaps`), and a frame's storage
  is complete but for the tokens of the frames below it, which exist in it
  (`StoreSound`). Without the last, a call that returns could write the metadata
  of a token that an inner revert had taken away.

`SettlementProofs`, for any intents, actions, accounts, delays and nesting:
`SettlementTypeCorrect`, `BountyIsPaidOnce`, `AttestationSettlesOnce`,
`DeadIntentsSettleNothing`, `VetoWindowKept`, `RefundsWaitForApproval`,
`ContractsAreSolvent`.
`AttestationSettlesOnce` bounds the vault and the executor together; the count
restarts at an attestation and leaves out the consumer.
`SettlementIInv` says of the storage that bounties are paid as booked and that
what settled on the last attestation is the contract it is bound to
(`Sound`), and says the same of every saved frame (`FramesSound`): a revert
brings one back. Frames precede each other and the present (`Precedes`): an
execution flag stays set, and a dead intent settles nothing, from a frame to the
next, so a revert can neither undo time nor revive an intent. `SolventIInv` says
of the storage and of every saved frame that the contracts hold what their books
say (`Covered`).

`BatchLogProofs`, for any requests and flushers: `BatchTypeCorrect`,
`BatchesHoldTheirEvents`, `LogIsAppendOnly`. `BatchIInv` adds that a flush past
its batch's creation refers to a batch of exactly its pending events.

`VerifyPipelineProofs`, for any number of concurrent verifies and settlement
reports: `PipelineTypeCorrect`, `AttestationsAreBacked`, `PrincipalsPay`,
`AnswersAreTrue`, `NoncesAreUsedOnce`, `CertificatesAreConsistent`.
`PipelineIInv` says of a handler what it has done by the await it is at
(`ByNow`), what a sent transaction and an answer imply (`ByTx`), and of the
chain and the tables that what they show of a request is so (`OfAll`), the
certificates in a settlement's hand included: it writes back what it read.

`PagesProofs`, under `PagesAssumption`, for any accounts, plans, presses, account
switches and probes: `PagesTypeCorrect`, `SessionsStayApart`,
`ActionsSettleOnce`, `PlaybookKeepsOrder`, `FundsFollowApproval`,
`ReadyAnswersAreTrue`. `PagesIInv` says that
the page that is mounted satisfies its own invariant and the others rest.

* `StudioIInv`: a handler acts on what it read when it was pressed, which the
  page may no longer hold, so calls are not tied to the page. It says what each
  call carries (`Carries`: its intent has a row, its plan and the action it
  settles exist), and of the chain that a contract settles only actions bound to
  it, and only charged ones (`AttestedChain`, `Outstanding` for the attestation
  still to land), that a charge names the owner of its intent, and that an
  intent registered lies below its owner's nonce (`RegisterChain`), so that the
  next one at that nonce is refused.
* `PlaybookIInv`: a stamp may arrive in another session, so each handler and
  each stamp carries its own evidence: an approved and anchored step 1 is
  among the verifications on chain (`First`), a step 2 with a verdict belongs to
  an intent whose allocate step is (`Second`), and a verify of step 2 past the
  API's check has a predecessor of its own intent. Those facts last because
  nothing granted is taken back (`Lasts`).
* `MarketIInv`: a fund or a claim under way, or late, carries an action a verify
  answered `APPROVE` of (`MkCarries`), whatever the page shows by then; so does
  the stamp that unlocks the buttons (`MkStamped`). Approvals are history and only
  grow, and an approved action's intent is registered.
* `ReadinessIInv`: a probe whose answer is still "ready" carries, for each check
  behind it, the facts that check saw among those held since it began
  (`ShownBy`); the checks run one after the other, so they need not have held
  together, and the property does not say so.

`VerifierProofs`, under `VerifierAssumption`, for any sentences, drafts,
proposals and scores: `ApprovalsObey`, `ListsAgree`, `ReplansPass`. The lemmas
follow a constraint from the sentence through the merge (`SoundMerged`,
`StatedKept`) to the envelope (`EnvelopeSound`) and the verdict; `ClampFits` and
`ClampPasses` show that a clamped action satisfies what the clamp covers.
`VerifierIInv` ties the verdict and the action to the stage that made them. The
proof of `ListsAgree` failed at first, on an empty list of names: the schema
refuses one (`constraints.ts:20`, `:41`, `:54`), the model kept it, and
`Acceptable` now refuses it too.

The type invariants of the registry, of `Settlement` and of the pipeline are
proved and not run again; a mistake in them would show as a failing proof.

`ServicesProofs`, under `ServicesAssumption`, for any clients, limits, windows,
lifetimes, fetches, compiles, restarts, verifies and views:
`ServicesTypeCorrect`, `TwiceTheLimitAtMost`, `AttestationsWereListed`,
`IntentRowsAreTrue`, `ProofPagesAreTrue`. The sum is proved as it is run:
`ServicesIInv` says that the service exercised satisfies its own invariant.

* `RateIInv`: the requests a client got through since its window opened are the
  last ones it got through, as many as the window counts and no more than the
  limit; the ones before came before the window. Hence the request that comes
  twice the limit after another is separated from it by a whole window. This
  needs the times themselves, so `served` is a sequence per client.
* `TeeIInv`: what a fetch holds was listed no earlier than the fetch began, and
  the cache no earlier than its stamp less one fetch.
* `EnvelopesIInv`: each await of a compile carries what it has done (its nonce,
  its hash, its upload), so that a row written after a timeout still has a root
  only if storage took the copy in; nonces are counts of the rows registered,
  which needs `Compiles` finite.
* `RecordsIInv`: every verify that began has one row and rows are never taken
  away, so the first row a page finds stays the first.

Only model-checked: the liveness properties, and the runs that expect a
violation. Liveness under fairness is out of the provers' reach.

## 5. Not modelled, and the plan

In order:

1. Role changes of the meter; calldata that reenters the settling contracts
   from the executor.
2. The session `WalletProvider` builds from what the browser's wallets announce.

Left out for good: rendering and landing pages, the operator's console,
deployment and provisioning scripts, generated configuration, read-only routes
and transport code without state, the zod schemas (data validation). Also
abstracted: scores (a set of values about the threshold), evidence contents,
explorer links, gas but for its limit, log wording. The pipeline is modelled in
its deployed configuration (registry, meter, oracle and deployer keys set);
`Readiness` has the others, but a verify under them is a refusal of the route.

## 6. Findings

* **unbillable.** `pipeline.ts:386-388` wants an unbillable request "refused up
  front rather than after we have spent on it". The pre-check looks at the
  intent's status and principal only. Credits are read in `debitMeter`, after
  Layer 2 and the storage upload, so a payer without credits is refused after
  both. `UnbillableRefusedUpFront` is violated.
* **envelope_matches.** `threat-model.md:77` says that `GET /envelope/:intentId`
  "re-hashes the blob against `intentHash`". The hash is taken while the status
  is `DRAFT` and the copy is uploaded as `ACTIVE`, so the answer says
  `matches: false` of an untouched copy of every intent without a challenge.
  `StoredEnvelopeMatches` is violated.

### Further disagreements

Each row states, of the module named, one property in the repository's words, and
its cfg makes TLC show a behaviour of the code that breaks it; a cfg with two rows
is run with `-continue`. They are kept for whoever changes that code.

| cfg (module) | Property, and who states it | What the code does |
|---|---|---|
| `MCCertificateEarly` (`MCVerifyPipeline`) | `CertificateAfterVerify`, `app.ts:989` | the certificate is created before the attestation, and a verify that then fails or dies leaves it behind |
| `MCReplanInside` (`MCVerifier`) | `ReplanStaysInside`, `README.md:49` | the clamp does not cover an allowlist or a hard yield |
| `MCStatedQuantity` (`MCVerifier`) | `StatedQuantityWins`, `compiler.ts:77` | a zero the model supplies counts as supplied, and wins |
| `MCTransfersGated` (`AgenticId`) | `TransfersAreGated`, `IntentosAgenticIdV2.sol:10` | the inherited ERC-721 transfers need no proof |
| `MCRoutesCapped` (`RateLimit`) | `EveryPaidRouteCapped`, `README.md:134` | two capped paths are none of the routes', and three routes that spend are not capped |
| `MCTeeUnreachable` (`TeeRegistryCache`) | `UnreachableIsUnattested`, `router.ts:47` | after a failed refresh the old cached answer is used |
| `MCWrongChainLive` (`Readiness`) | `LiveIsOnTargetChain`, `useReady.ts:9-11` | a chain id that could not be fetched counts as the right one |
| `MCRecordsStated` (`ProofRecords`) | `ProofIsAnchored`, `threat-model.md:27` | the proof page shows the action's first row, which may be a failed verify's |
| `MCRecordsStated` (`ProofRecords`) | `StampCanSettle`, `CertificatePage.tsx:155` | the page shows the verdict recorded before its attestation, which may have failed |
| `MCPlaybookStated` (`Playbook`) | `StepsInOrder`, `README.md:219` | `/verify/step` takes any approved action of the intent as the predecessor, one of a plain verify included |
| `MCPlaybookStated` (`Playbook`) | `Step1WaitsForRegister`, `Playbook.tsx:76` | a register that returns after another compile unlocks that one's step 1 |
| `MCEscrowFunded` (`Market`) | `EscrowIsFunded`, `Market.tsx:103` | a new offer and its verify leave the bounty's transaction of the last one, so the page says "The escrow is funded" of an offer nobody funded, and offers to claim it |
| `MCSessionAccount` (`Studio`) | `SessionIsOfAccount`, `Studio.tsx:124` | a disconnect, then another account, is not seen as a switch |
| `MCSettledApproved` (`Studio`) | `SettledIsApproved`, `Studio.tsx:1021` | from a revert's receipt until its cause is looked up, the page says settled |
| `MCStampOfPlan` (`Studio`) | `StampIsOfPlan`, `Studio.tsx:391` | a verify that returns after a replan or an account change stamps a plan it did not see |
| `MCRetryCanWork` (`Studio`) | `RetryCanWork`, `receipt.ts:21` | a registration that landed late makes every retry revert |

Seen while modelling, with no promise in the repository to hold the code to:
saving `verifyTxHash` writes the payload built before the attestation, so a
`settleTxHash` (or another verify's newer payload) saved in between is lost
(`pipeline.ts:488`, `app.ts:972`); a verify that fails after its debit is
charged again when retried. The merge puts back only the sentence's numbers and
currency over a complete item of the model (`compiler.ts:77-88`): a sentence that
says low risk, answered by a model with a complete hard risk class HIGH and a risk
profile HIGH, becomes an envelope that allows HIGH, and the same goes for the list
of actions. `compiler.ts:77` speaks of quantities alone. The deposit of the playbook looks at step 2 only
(`Playbook.tsx:311`), whose answer may arrive after an account change cleared
step 1, where the guide (`Playbook.tsx:75`) has it wait for both. The claim of the
Market pays the connected account (`Market.tsx:288`), which its guide calls Agent B
(`:103`). And `architecture.md:52` lets a provider address count
as TEE evidence when the Router omits the flag; `router.ts` records it only.
