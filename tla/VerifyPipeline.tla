--------------------------- MODULE VerifyPipeline ---------------------------
(***************************************************************************)
(* apps/api/src/pipeline.ts, runVerification: what POST /verify, /verify/  *)
(* a2a and /verify/step do, from the billing pre-check to the answer, as   *)
(* concurrent handlers of one process.  Each step is the code between two  *)
(* awaits, so chain state and table rows may change between what a handler *)
(* reads and what it does with it.  The chain is ApprovalGate plus the     *)
(* registry's attestation nonces and the meter's credits; a transaction is *)
(* sent, lands or not at any later time, and its sender may stop waiting   *)
(* for the receipt first.  The process may die at any await.               *)
(*                                                                         *)
(* The configuration modelled is the deployed one: registry, meter, oracle *)
(* and deployer keys are set.                                              *)
(***************************************************************************)
EXTENDS ApprovalGate, BatchLog

CONSTANTS
    IntentOf,       \* the intent a request verifies against
    Binding,        \* the settlement binding the oracle attests
    Decisions,      \* bound: the verdicts verifyAction may return
    Price,          \* VerificationMeter.priceWei
    InitialCredits, \* bound: prepaid credits of each principal
    AttestationTTL, \* an attestation expires this long after it is signed
    Settlers,       \* POST /settle handlers
    SettledAction,  \* the action they report a settlement of
    MaxDirect       \* bound: attestations of an intent before POST /attest stops

NoRequest == "none"

ASSUME PipelineAssumption ==
    /\ IntentOf \in [Requests -> Intents]
    /\ ActionOf \in [Requests -> Actions]
    /\ NoRequest \notin Requests /\ Binding \in Bindings
    /\ Decisions \subseteq Verdicts
    /\ Price \in Nat \ {0} /\ InitialCredits \in Nat /\ AttestationTTL \in Nat
    /\ SettledAction \in Actions /\ MaxDirect \in Nat

VARIABLES
    pc,             \* per request: the await its handler is at
    answer,         \* per request: the response
    job,            \* per request: what it holds and has written
    debitTx,        \* per request: its debit transaction
    attestTx,       \* per request: its recordVerification transaction
    credits,        \* VerificationMeter.credits
    intentNonce,    \* IntentRegistry.intentNonce
    evidenceRoot,   \* whose evidence a recorded verification commits to
    certs,          \* CertificateRow by actionHash
    settle          \* per /settle handler: where it is, and what it read

apiVars == <<pc, answer, job, certs, settle>>
chainVars == <<now, intents, verifications, credits, intentNonce, evidenceRoot>>
txVars == <<debitTx, attestTx>>
worldVars == <<chainVars, txVars, batchVars>>
pipelineVars == <<apiVars, worldVars>>

Steps == {"precheck", "layer2", "upload", "bill", "credits", "debit", "debitWait",
          "record", "certFind", "certUpdate", "certCreate", "certFill", "nonce",
          "attest", "attestWait", "saveRow", "saveCert", "log", "flush", "done"}
TxStates == {"none", "pending", "success", "reverted"}
Answers == {"none", "ok", "attest_failed", "intent_not_registered", "payer_not_principal",
            "tee_required", "storage_upload_timeout", "meter_unpaid",
            "meter_debit_failed", "error", "crashed"}

\* stored: the evidence bundle is in storage.  nonce, expiry: of the signed
\* attestation.  attested: the attest block ended well.  verifyTx: set in the
\* Verification row.
Job == [payer: Principals, verdict: Decisions \cup {"NONE"}, stored: BOOLEAN,
        nonce: Nat, expiry: Nat, attested: BOOLEAN, verifyTx: BOOLEAN]
NewJob(payer) ==
    [payer |-> payer, verdict |-> "NONE", stored |-> FALSE, nonce |-> 0, expiry |-> 0,
     attested |-> FALSE, verifyTx |-> FALSE]

\* A certificate's payload: whose verdict and evidence it shows, and whether
\* it carries verifyTxHash and settleTxHash.
Certificate == [exists: BOOLEAN, by: Requests \cup {NoRequest},
                verified: BOOLEAN, settled: BOOLEAN]
NoCert == [exists |-> FALSE, by |-> NoRequest, verified |-> FALSE, settled |-> FALSE]
Payload(r, isVerified) ==
    [exists |-> TRUE, by |-> r, verified |-> isVerified, settled |-> FALSE]

PipelineTypeOK ==
    /\ GateTypeOK /\ BatchTypeOK
    /\ pc \in [Requests -> Steps]
    /\ answer \in [Requests -> Answers]
    /\ job \in [Requests -> Job]
    /\ debitTx \in [Requests -> TxStates] /\ attestTx \in [Requests -> TxStates]
    /\ credits \in [Principals -> Nat]
    /\ intentNonce \in [Intents -> Nat]
    /\ evidenceRoot \in [Intents -> [Actions -> Requests \cup {NoRequest}]]
    /\ certs \in [Actions -> Certificate]
    /\ settle \in [Settlers -> [at: {"row", "read", "write", "done"}, cert: Certificate]]

PipelineInit ==
    /\ GateInit /\ BatchInit
    /\ pc = [r \in Requests |-> "precheck"]
    /\ answer = [r \in Requests |-> "none"]
    /\ \E payer \in [Requests -> Principals] :
          job = [r \in Requests |-> NewJob(payer[r])]
    /\ debitTx = [r \in Requests |-> "none"]
    /\ attestTx = [r \in Requests |-> "none"]
    /\ credits = [p \in Principals |-> InitialCredits]
    /\ intentNonce = [i \in Intents |-> 0]
    /\ evidenceRoot = [i \in Intents |-> [a \in Actions |-> NoRequest]]
    /\ certs = [a \in Actions |-> NoCert]
    /\ settle = [s \in Settlers |-> [at |-> "row", cert |-> NoCert]]

\* A step of a handler that only moves it on, or only answers.
OnlyMoves == UNCHANGED <<job, certs, settle, worldVars>>

-----------------------------------------------------------------------------
(* The chain. *)

OffChain == UNCHANGED <<apiVars, txVars, batchVars>>

ChainTick == Tick /\ OffChain /\ UNCHANGED <<credits, intentNonce, evidenceRoot>>

ChainRegister(i, p, e) ==
    /\ Register(i, p, e)
    /\ OffChain /\ UNCHANGED <<credits, intentNonce, evidenceRoot>>

ChainInvalidate(i) ==
    /\ intents[i].status = "ACTIVE"
    /\ Invalidate(i)
    /\ OffChain /\ UNCHANGED <<credits, intentNonce, evidenceRoot>>

\* VerificationMeter.withdraw, here of everything.
ChainWithdraw(p) ==
    /\ credits[p] > 0
    /\ credits' = [credits EXCEPT ![p] = 0]
    /\ OffChain /\ UNCHANGED <<gateVars, intentNonce, evidenceRoot>>

\* POST /attest: the oracle attests a verdict and an evidence root it is
\* given; between its nonce read and its landing anything else may happen.
ChainAttest(i, a, v) ==
    /\ intentNonce[i] < MaxDirect
    /\ Attest(i, a, v, Binding)
    /\ intentNonce' = [intentNonce EXCEPT ![i] = @ + 1]
    /\ evidenceRoot' = [evidenceRoot EXCEPT ![i][a] = NoRequest]
    /\ OffChain /\ UNCHANGED credits

\* Faulty variants of what the contracts accept, for mutation runs: the nonce,
\* or the credits, are not checked.
DebitableUnpaid(r) == TRUE
RecordableAnyNonce(r) == Live(IntentOf[r]) /\ now <= job[r].expiry

\* VerificationMeter.debit and IntentRegistry.recordVerification would accept
\* the request's transaction now.
Debitable(r) == credits[job[r].payer] >= Price
Recordable(r) ==
    /\ Live(IntentOf[r])
    /\ now <= job[r].expiry
    /\ job[r].nonce = intentNonce[IntentOf[r]]

LandDebit(r) ==
    /\ debitTx[r] = "pending"
    /\ \/ /\ Debitable(r)
          /\ debitTx' = [debitTx EXCEPT ![r] = "success"]
          /\ credits' = [credits EXCEPT ![job[r].payer] = @ - Price]
       \/ /\ ~Debitable(r)
          /\ debitTx' = [debitTx EXCEPT ![r] = "reverted"]
          /\ UNCHANGED credits
    /\ UNCHANGED <<gateVars, intentNonce, evidenceRoot, attestTx, apiVars, batchVars>>

LandAttest(r) ==
    LET i == IntentOf[r]  a == ActionOf[r] IN
    /\ attestTx[r] = "pending"
    /\ \/ /\ Recordable(r)
          /\ attestTx' = [attestTx EXCEPT ![r] = "success"]
          /\ Attest(i, a, job[r].verdict, Binding)
          /\ intentNonce' = [intentNonce EXCEPT ![i] = @ + 1]
          /\ evidenceRoot' = [evidenceRoot EXCEPT ![i][a] = r]
       \/ /\ ~Recordable(r)
          /\ attestTx' = [attestTx EXCEPT ![r] = "reverted"]
          /\ UNCHANGED <<gateVars, intentNonce, evidenceRoot>>
    /\ UNCHANGED <<credits, debitTx, apiVars, batchVars>>

-----------------------------------------------------------------------------
(* runVerification, await by await. *)

Goto(r, from, to) ==
    /\ pc[r] = from
    /\ pc' = [pc EXCEPT ![r] = to]
    /\ UNCHANGED answer

Answer(r, from, a) ==
    /\ pc[r] = from
    /\ pc' = [pc EXCEPT ![r] = "done"]
    /\ answer' = [answer EXCEPT ![r] = a]

\* A faulty variant, for mutation runs: whoever is named as payer is charged.
PayerCheckStatusOnly(r) ==
    IF intents[IntentOf[r]].status # "ACTIVE" THEN "intent_not_registered" ELSE "ok"

\* assertPayerIsRegisteredPrincipal: the status and the principal, not the expiry
PayerCheck(r) ==
    LET rec == intents[IntentOf[r]] IN
    IF rec.status # "ACTIVE" THEN "intent_not_registered"
    ELSE IF rec.principal # job[r].payer THEN "payer_not_principal" ELSE "ok"

\* The payer check at step `from`; its refusals are answers, and so is a
\* failing read.
CheckPayer(r, from, to) ==
    /\ \/ PayerCheck(r) = "ok" /\ Goto(r, from, to)
       \/ PayerCheck(r) # "ok" /\ Answer(r, from, PayerCheck(r))
       \/ Answer(r, from, "error")
    /\ OnlyMoves

Precheck(r) == CheckPayer(r, "precheck", "layer2")

\* verifyAction and assertTeeAttested
Layer2(r) ==
    /\ \/ /\ \E v \in Decisions : job' = [job EXCEPT ![r].verdict = v]
          /\ Goto(r, "layer2", "upload")
       \/ /\ \E a \in {"tee_required", "error"} : Answer(r, "layer2", a)
          /\ UNCHANGED job
    /\ UNCHANGED <<certs, settle, worldVars>>

\* The mandatory evidence upload and its deadline; then prisma.intent.upsert.
\* After a timeout the upload goes on without the request.
Upload(r) ==
    /\ \/ Goto(r, "upload", "bill") /\ job' = [job EXCEPT ![r].stored = TRUE]
       \/ /\ \E a \in {"storage_upload_timeout", "error"} : Answer(r, "upload", a)
          /\ \E b \in BOOLEAN : job' = [job EXCEPT ![r].stored = b]
    /\ UNCHANGED <<certs, settle, worldVars>>

\* debitMeter: the payer check again, the credits, the transaction, the receipt
Bill(r) == CheckPayer(r, "bill", "credits")

ReadCredits(r) ==
    /\ \/ credits[job[r].payer] >= Price /\ Goto(r, "credits", "debit")
       \/ credits[job[r].payer] < Price /\ Answer(r, "credits", "meter_unpaid")
       \/ Answer(r, "credits", "error")
    /\ OnlyMoves

\* writeContract estimates gas first, so it throws if the call would revert
\* now; an RPC failure throws too, before or after the transaction is out.
SendDebit(r) ==
    /\ \/ /\ Debitable(r)
          /\ Goto(r, "debit", "debitWait") \/ Answer(r, "debit", "error")
          /\ debitTx' = [debitTx EXCEPT ![r] = "pending"]
       \/ Answer(r, "debit", "error") /\ UNCHANGED debitTx
    /\ UNCHANGED <<job, certs, settle, attestTx, chainVars, batchVars>>

\* Faulty variants of AwaitDebit, for mutation runs: any receipt will do, and
\* the receipt is awaited without a deadline.
AwaitDebitAnyReceipt(r) ==
    /\ \/ debitTx[r] \in {"success", "reverted"} /\ Goto(r, "debitWait", "record")
       \/ Answer(r, "debitWait", "error")
    /\ OnlyMoves

AwaitDebitForever(r) ==
    /\ \/ debitTx[r] = "success" /\ Goto(r, "debitWait", "record")
       \/ debitTx[r] = "reverted" /\ Answer(r, "debitWait", "meter_debit_failed")
    /\ OnlyMoves

\* waitForReceipt: the receipt, or its 180 s are over whatever becomes of the
\* transaction
AwaitDebit(r) ==
    /\ \/ debitTx[r] = "success" /\ Goto(r, "debitWait", "record")
       \/ debitTx[r] = "reverted" /\ Answer(r, "debitWait", "meter_debit_failed")
       \/ Answer(r, "debitWait", "error")
    /\ OnlyMoves

Record(r) ==
    /\ Goto(r, "record", "certFind")
    /\ CreateRow(r)
    /\ UNCHANGED <<job, certs, settle, txVars, chainVars>>

\* A query of the database outside the attest block fails: the handler throws.
QueryFails(r) ==
    /\ \E at \in {"record", "certFind", "certUpdate", "certCreate", "certFill", "log"} :
          Answer(r, at, "error")
    /\ OnlyMoves

-----------------------------------------------------------------------------
(* upsertCertificate *)

CertFind(r) ==
    /\ \/ certs[ActionOf[r]].exists /\ Goto(r, "certFind", "certUpdate")
       \/ ~certs[ActionOf[r]].exists /\ Goto(r, "certFind", "certCreate")
    /\ OnlyMoves

PutCert(a, c) == certs' = [certs EXCEPT ![a] = c]

\* The payload is this request's, without transactions of an earlier one.
CertUpdate(r) ==
    /\ \/ Goto(r, "certUpdate", "nonce")
       \/ Goto(r, "certFill", "nonce")
    /\ PutCert(ActionOf[r], Payload(r, FALSE))
    /\ UNCHANGED <<job, settle, worldVars>>

\* actionHash is unique: the create fails if another request came first.
CertCreate(r) ==
    /\ \/ /\ ~certs[ActionOf[r]].exists
          /\ Goto(r, "certCreate", "certFill")
          /\ PutCert(ActionOf[r], [NoCert EXCEPT !.exists = TRUE])
       \/ /\ certs[ActionOf[r]].exists
          /\ Answer(r, "certCreate", "error")
          /\ UNCHANGED certs
    /\ UNCHANGED <<job, settle, worldVars>>

-----------------------------------------------------------------------------
(* The attest block: recordAttestation, and what a success saves. *)

ReadNonce(r) ==
    /\ Goto(r, "nonce", "attest")
    /\ job' = [job EXCEPT ![r].nonce = intentNonce[IntentOf[r]],
                          ![r].expiry = now + AttestationTTL]
    /\ UNCHANGED <<certs, settle, worldVars>>

SendAttest(r) ==
    /\ Recordable(r)
    /\ Goto(r, "attest", "attestWait") \/ Goto(r, "attest", "log")
    /\ attestTx' = [attestTx EXCEPT ![r] = "pending"]
    /\ UNCHANGED <<job, certs, settle, debitTx, chainVars, batchVars>>

\* A faulty variant, for mutation runs: any receipt counts as success.
AwaitAttestAnyReceipt(r) ==
    /\ attestTx[r] \in {"success", "reverted"} /\ Goto(r, "attestWait", "saveRow")
    /\ OnlyMoves

AwaitAttest(r) ==
    /\ attestTx[r] = "success" /\ Goto(r, "attestWait", "saveRow")
    /\ OnlyMoves

\* The nonce cannot be read, the call would revert or reverts, its receipt does
\* not come in time, a save fails: the block ends and the request goes on.
AttestFails(r) ==
    /\ \E at \in {"nonce", "attest", "attestWait", "saveRow", "saveCert"} : Goto(r, at, "log")
    /\ OnlyMoves

SaveRow(r) ==
    /\ Goto(r, "saveRow", "saveCert")
    /\ job' = [job EXCEPT ![r].verifyTx = TRUE]
    /\ UNCHANGED <<certs, settle, worldVars>>

\* A faulty variant, for mutation runs: verifyTxHash is added to whatever
\* payload the row has by now.
SaveCertInPlace(r) ==
    /\ Goto(r, "saveCert", "log")
    /\ PutCert(ActionOf[r], [certs[ActionOf[r]] EXCEPT !.verified = TRUE])
    /\ job' = [job EXCEPT ![r].attested = TRUE]
    /\ UNCHANGED <<settle, worldVars>>

\* The payload upsertCertificate returned, and verifyTxHash
SaveCert(r) ==
    /\ Goto(r, "saveCert", "log")
    /\ PutCert(ActionOf[r], Payload(r, TRUE))
    /\ job' = [job EXCEPT ![r].attested = TRUE]
    /\ UNCHANGED <<settle, worldVars>>

-----------------------------------------------------------------------------
(* The log, and the answer. *)

Log(r) ==
    /\ Goto(r, "log", "flush")
    /\ LogEvent(r)
    /\ UNCHANGED <<job, certs, settle, txVars, chainVars>>

\* flushBatchLog(false); if it throws, so does the handler.
Flush(r) ==
    /\ pc[r] = "flush"
    /\ \/ /\ FlushBegin(r) \/ FlushCreate(r) \/ FlushEvents(r) \/ FlushRows(r)
          /\ UNCHANGED <<pc, answer>>
       \/ FlushAborts(r) /\ Answer(r, "flush", "error")
    /\ UNCHANGED <<job, certs, settle, txVars, chainVars>>

Reply(r) ==
    /\ flush[r].at = "idle"
    /\ Answer(r, "flush", IF job[r].attested THEN "ok" ELSE "attest_failed")
    /\ OnlyMoves

RequestStep(r) ==
    \/ Precheck(r) \/ Layer2(r) \/ Upload(r) \/ Bill(r) \/ ReadCredits(r)
    \/ SendDebit(r) \/ AwaitDebit(r) \/ Record(r) \/ QueryFails(r)
    \/ CertFind(r) \/ CertUpdate(r) \/ CertCreate(r)
    \/ ReadNonce(r) \/ SendAttest(r) \/ AwaitAttest(r) \/ AttestFails(r)
    \/ SaveRow(r) \/ SaveCert(r) \/ Log(r) \/ Flush(r) \/ Reply(r)

-----------------------------------------------------------------------------
(* POST /settle: marks a row of the action, in a column these handlers never *)
(* read (left out), and the action's certificate.                           *)

settleQuiet == <<pc, answer, job, worldVars>>
SettleGoto(s, from, to, cert) ==
    /\ settle[s].at = from
    /\ settle' = [settle EXCEPT ![s] = [at |-> to, cert |-> cert]]

\* findFirst and its update; a row is never deleted
SettleRow(s) ==
    /\ \E r \in Requests : rows[r] # NoRow /\ ActionOf[r] = SettledAction
    /\ SettleGoto(s, "row", "read", NoCert)
    /\ UNCHANGED <<certs, settleQuiet>>

SettleRead(s) ==
    /\ \/ certs[SettledAction].exists /\ SettleGoto(s, "read", "write", certs[SettledAction])
       \/ ~certs[SettledAction].exists /\ SettleGoto(s, "read", "done", NoCert)
    /\ UNCHANGED <<certs, settleQuiet>>

SettleWrite(s) ==
    /\ SettleGoto(s, "write", "done", NoCert)
    /\ PutCert(SettledAction, [settle[s].cert EXCEPT !.settled = TRUE])
    /\ UNCHANGED settleQuiet

SettleStep(s) == SettleRow(s) \/ SettleRead(s) \/ SettleWrite(s)

\* The process dies and restarts: no open handler goes on.  What is sent,
\* stored and saved stays.
Crash ==
    LET open == {r \in Requests : pc[r] \notin {"precheck", "done"}} IN
    /\ open # {} \/ \E s \in Settlers : settle[s].at \in {"read", "write"}
    /\ pc' = [r \in Requests |-> IF r \in open THEN "done" ELSE pc[r]]
    /\ answer' = [r \in Requests |-> IF r \in open THEN "crashed" ELSE answer[r]]
    /\ flush' = [p \in Procs |-> Idle]
    /\ settle' = [s \in Settlers |-> IF settle[s].at = "row" THEN settle[s]
                                     ELSE [at |-> "done", cert |-> NoCert]]
    /\ UNCHANGED <<job, certs, chainVars, txVars, rows, log, batches>>

PipelineNext ==
    \/ ChainTick
    \/ \E i \in Intents :
        \/ \E p \in Principals, e \in Times : ChainRegister(i, p, e)
        \/ ChainInvalidate(i)
        \/ \E a \in Actions, v \in Decisions : ChainAttest(i, a, v)
    \/ \E p \in Principals : ChainWithdraw(p)
    \/ \E r \in Requests : LandDebit(r) \/ LandAttest(r) \/ RequestStep(r)
    \/ \E s \in Settlers : SettleStep(s)
    \/ Crash

PipelineSpec == PipelineInit /\ [][PipelineNext]_pipelineVars

\* The event loop goes on with every open handler: each await ends, with an
\* answer, an error or its deadline.  Nothing is assumed of the chain.
FairPipelineSpec ==
    /\ PipelineSpec
    /\ \A r \in Requests : WF_pipelineVars(RequestStep(r))
-----------------------------------------------------------------------------

\* An attestation is sent, and lands, only for a request that was paid for and
\* whose evidence, row and certificate exist, whatever crashed, timed out or
\* overlapped; and the evidence root on chain is that of such a request.
AttestationBacked ==
    \A r \in Requests :
        \/ attestTx[r] \in {"pending", "success"}
        \/ evidenceRoot[IntentOf[r]][ActionOf[r]] = r
        => /\ debitTx[r] = "success" /\ job[r].stored
           /\ rows[r] # NoRow /\ certs[ActionOf[r]].exists

\* Only the principal that registered the intent pays for its verification.
ChargedIsPrincipal ==
    \A r \in Requests :
        debitTx[r] = "success" => intents[IntentOf[r]].principal = job[r].payer

\* An answer that reports an attestation is true: it landed, and the row, the
\* log and the storage have it.
OkMeansAttested ==
    \A r \in Requests : answer[r] = "ok" =>
        /\ attestTx[r] = "success"
        /\ job[r].verifyTx /\ job[r].stored
        /\ \E e \in DOMAIN log : log[e].by = r

\* Requests that sign for one intent at the same nonce cannot both land.
OneNonceOneAttestation ==
    \A r, q \in Requests :
        /\ r # q /\ IntentOf[r] = IntentOf[q]
        /\ attestTx[r] = "success" /\ attestTx[q] = "success"
        => job[r].nonce # job[q].nonce

\* A certificate with a verify transaction shows the verdict and the evidence
\* which that transaction attested, also when requests and settlements of one
\* action overwrite each other's certificate.
CertConsistent ==
    \A a \in Actions : certs[a].verified =>
        /\ certs[a].by # NoRequest
        /\ attestTx[certs[a].by] = "success" /\ ActionOf[certs[a].by] = a

\* Every verify is answered or dies with the process; no wait is endless.
EveryRequestAnswered == \A r \in Requests : <>(pc[r] = "done")

\* pipeline.ts:386-388: "an unbillable request must be refused up front rather
\* than after we have spent on it".  A request refused for want of credits has
\* caused no upload.
UnbillableRefusedUpFront ==
    \A r \in Requests : answer[r] = "meter_unpaid" => ~job[r].stored

\* app.ts:989: "Certificates only exist after a verify completes."  An action
\* has a certificate only if a verify of it completed, or is still running.
CertificateAfterVerify ==
    \A a \in Actions : certs[a].exists =>
        \E r \in Requests :
            /\ ActionOf[r] = a
            /\ pc[r] # "done" \/ answer[r] \in {"ok", "attest_failed"}
=============================================================================
