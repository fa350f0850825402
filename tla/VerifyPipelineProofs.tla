-------------------------- MODULE VerifyPipelineProofs --------------------------
(***************************************************************************)
(* For any requests, intents, actions, principals, prices and credits, any *)
(* number of concurrent verifies, settlements, crashes, lost and late      *)
(* transactions: what VerifyPipeline's handlers attest was paid for by the *)
(* principal and backed by evidence, what they answer is true, no nonce is *)
(* attested twice and no certificate shows an attestation that is another's*)
(*                                                                         *)
(* A handler acts on what it saw before its awaits.  The invariant says of *)
(* each await what has been done by then and is still so (RequestIInv):    *)
(* nothing it rests on is ever taken back by the others (Kept).            *)
(***************************************************************************)
EXTENDS VerifyPipeline, BatchLogProofs

PipelineTyped == PipelineTypeOK /\ BatchIInv

-----------------------------------------------------------------------------
(* Types. *)

LEMMA Constants ==
    /\ \A r \in Requests : IntentOf[r] \in Intents /\ ActionOf[r] \in Actions /\ r \in Procs
    /\ Decisions \subseteq Verdicts /\ Price \in Nat /\ AttestationTTL \in Nat
    /\ Binding \in Bindings /\ NoRequest \notin Requests
BY PipelineAssumption DEF Procs

\* BatchTypeOK is part of PipelineTypeOK and follows from BatchIInv.
LEMMA PipelineTypes ==
    ASSUME PipelineTyped
    PROVE  /\ now \in Nat /\ \A r \in Requests : job[r] \in Job /\ job[r].payer \in Principals
           /\ \A r \in Requests : credits[job[r].payer] \in Nat /\ intentNonce[IntentOf[r]] \in Nat
BY GateAssumption, Constants DEF PipelineTyped, PipelineTypeOK, GateTypeOK, Times, Job

LEMMA PipelineInitTyped == PipelineInit => PipelineTyped
<1> SUFFICES ASSUME PipelineInit PROVE PipelineTyped
  OBVIOUS
<1>1. GateTypeOK
  <2>1. /\ [principal |-> NoAccount, expiresAt |-> 0, status |-> "NONE"] \in GateIntents
        /\ [verdict |-> "NONE", timestamp |-> 0, settlementBinding |-> NoBinding] \in GateVerifications
    BY GateAssumption DEF GateIntents, GateVerifications, Times, Statuses, Verdicts
  <2>2. 0 \in Times
    BY GateAssumption DEF Times
  <2> QED
    BY <2>1, <2>2 DEF PipelineInit, GateInit, GateTypeOK
<1>2. BatchIInv
  BY BatchInitIInv DEF PipelineInit
<1>3. job \in [Requests -> Job]
  <2>1. PICK payer \in [Requests -> Principals] : job = [r \in Requests |-> NewJob(payer[r])]
    BY DEF PipelineInit
  <2>2. \A p \in Principals : NewJob(p) \in Job
    BY DEF NewJob, Job
  <2> QED
    BY <2>1, <2>2
<1>4. NoCert \in Certificate
  BY DEF NoCert, Certificate
<1>5. credits \in [Principals -> Nat] /\ intentNonce \in [Intents -> Nat]
  BY PipelineAssumption DEF PipelineInit
<1>6. settle \in [Settlers -> [at: {"row", "read", "write", "done"}, cert: Certificate]]
  BY <1>4 DEF PipelineInit
<1> QED
  BY <1>1, <1>2, <1>3, <1>4, <1>5, <1>6
     DEF PipelineInit, PipelineTyped, PipelineTypeOK, BatchIInv, Steps, Answers, TxStates

\* A step of a handler leaves it at a step of the program, with an answer.
LEMMA GotoType ==
    ASSUME PipelineTyped, NEW r \in Requests, NEW from, NEW to \in Steps, Goto(r, from, to)
    PROVE  pc' \in [Requests -> Steps] /\ answer' \in [Requests -> Answers]
BY DEF Goto, PipelineTyped, PipelineTypeOK

LEMMA AnswerType ==
    ASSUME PipelineTyped, NEW r \in Requests, NEW from, NEW a \in Answers, Answer(r, from, a)
    PROVE  pc' \in [Requests -> Steps] /\ answer' \in [Requests -> Answers]
BY DEF Answer, PipelineTyped, PipelineTypeOK, Steps

\* The handlers' own variables and what they hold.
HandlersTyped ==
    /\ pc \in [Requests -> Steps] /\ answer \in [Requests -> Answers]
    /\ job \in [Requests -> Job] /\ certs \in [Actions -> Certificate]
    /\ settle \in [Settlers -> [at: {"row", "read", "write", "done"}, cert: Certificate]]

ChainTyped ==
    /\ GateTypeOK /\ credits \in [Principals -> Nat] /\ intentNonce \in [Intents -> Nat]
    /\ evidenceRoot \in [Intents -> [Actions -> Requests \cup {NoRequest}]]
    /\ debitTx \in [Requests -> TxStates] /\ attestTx \in [Requests -> TxStates]

LEMMA TypedParts == PipelineTyped <=> HandlersTyped /\ ChainTyped /\ BatchIInv
BY DEF PipelineTyped, PipelineTypeOK, HandlersTyped, ChainTyped, BatchIInv

LEMMA TypedPartsNext == PipelineTyped' <=> HandlersTyped' /\ ChainTyped' /\ BatchIInv'
BY DEF PipelineTyped, PipelineTypeOK, HandlersTyped, ChainTyped, BatchIInv

LEMMA BatchStays ==
    ASSUME BatchIInv, UNCHANGED batchVars
    PROVE  BatchIInv'
BY DEF batchVars, BatchIInv, BatchTyped, BatchTypeOK, BatchHoldsItsEvents, FlushHoldsItsEvents

\* Chain transactions.
LEMMA AttestType ==
    ASSUME ChainTyped, NEW i \in Intents, NEW a \in Actions, NEW v \in Verdicts, Attest(i, a, v, Binding)
    PROVE  GateTypeOK'
<1>1. [verdict |-> v, timestamp |-> now, settlementBinding |-> Binding] \in GateVerifications
  BY Constants DEF GateVerifications, ChainTyped, GateTypeOK
<1> QED
  BY <1>1 DEF Attest, ChainTyped, GateTypeOK

LEMMA ChainType ==
    ASSUME PipelineTyped,
           \/ ChainTick
           \/ \E i \in Intents : \/ \E p \in Principals, e \in Times : ChainRegister(i, p, e)
                                 \/ ChainInvalidate(i)
                                 \/ \E a \in Actions, v \in Decisions : ChainAttest(i, a, v)
           \/ \E p \in Principals : ChainWithdraw(p)
    PROVE  ChainTyped'
<1> USE DEF ChainTyped, OffChain, txVars
<1>0. ChainTyped
  BY TypedParts
<1>1. CASE ChainTick
  BY <1>0, <1>1, GateAssumption DEF ChainTick, Tick, GateTypeOK, Times
<1>2. ASSUME NEW i \in Intents, NEW p \in Principals, NEW e \in Times, ChainRegister(i, p, e)
      PROVE  ChainTyped'
  <2>1. [principal |-> p, expiresAt |-> e, status |-> "ACTIVE"] \in GateIntents
    BY DEF GateIntents, Statuses
  <2> QED
    BY <1>0, <1>2, <2>1 DEF ChainRegister, Register, GateTypeOK
<1>3. ASSUME NEW i \in Intents, ChainInvalidate(i) PROVE ChainTyped'
  <2>1. [intents[i] EXCEPT !.status = "INVALIDATED"] \in GateIntents
    BY <1>0 DEF GateIntents, Statuses, GateTypeOK
  <2> QED
    BY <1>0, <1>3, <2>1 DEF ChainInvalidate, Invalidate, GateTypeOK
<1>4. ASSUME NEW i \in Intents, NEW a \in Actions, NEW v \in Decisions, ChainAttest(i, a, v)
      PROVE  ChainTyped'
  <2>1. GateTypeOK'
    BY <1>0, <1>4, Constants, AttestType DEF ChainAttest
  <2>2. /\ intentNonce' \in [Intents -> Nat]
        /\ evidenceRoot' \in [Intents -> [Actions -> Requests \cup {NoRequest}]]
    BY <1>0, <1>4 DEF ChainAttest
  <2> QED
    BY <1>0, <1>4, <2>1, <2>2 DEF ChainAttest
<1>5. ASSUME NEW p \in Principals, ChainWithdraw(p) PROVE ChainTyped'
  BY <1>0, <1>5 DEF ChainWithdraw, gateVars, GateTypeOK
<1> QED
  BY <1>1, <1>2, <1>3, <1>4, <1>5

LEMMA LandType ==
    ASSUME PipelineTyped, NEW r \in Requests, LandDebit(r) \/ LandAttest(r)
    PROVE  ChainTyped'
<1> USE DEF ChainTyped
<1>0. ChainTyped /\ job[r].payer \in Principals /\ credits[job[r].payer] \in Nat /\ job[r] \in Job
  BY TypedParts, PipelineTypes
<1>1. CASE LandDebit(r)
  <2>1. debitTx' \in [Requests -> TxStates]
    BY <1>0, <1>1 DEF LandDebit, TxStates
  <2>2. credits' \in [Principals -> Nat]
    <3>1. CASE UNCHANGED credits
      BY <1>0, <3>1
    <3>2. CASE Debitable(r) /\ credits' = [credits EXCEPT ![job[r].payer] = @ - Price]
      <4>1. credits[job[r].payer] - Price \in Nat
        BY <1>0, <3>2, Constants DEF Debitable
      <4> QED
        BY <1>0, <3>2, <4>1
    <3> QED
      BY <1>1, <3>1, <3>2 DEF LandDebit
  <2> QED
    BY <1>0, <1>1, <2>1, <2>2 DEF LandDebit, gateVars, GateTypeOK
<1>2. CASE LandAttest(r)
  <2>1. attestTx' \in [Requests -> TxStates] /\ UNCHANGED <<credits, debitTx>>
    BY <1>0, <1>2 DEF LandAttest, TxStates
  <2>2. CASE UNCHANGED <<gateVars, intentNonce, evidenceRoot>>
    BY <1>0, <2>1, <2>2 DEF gateVars, GateTypeOK
  <2>3. CASE /\ Attest(IntentOf[r], ActionOf[r], job[r].verdict, Binding)
             /\ intentNonce' = [intentNonce EXCEPT ![IntentOf[r]] = @ + 1]
             /\ evidenceRoot' = [evidenceRoot EXCEPT ![IntentOf[r]][ActionOf[r]] = r]
    <3>1. job[r].verdict \in Verdicts
      BY <1>0, Constants DEF Job, Verdicts
    <3>2. GateTypeOK'
      BY <1>0, <2>3, <3>1, Constants, AttestType
    <3>3. /\ intentNonce' \in [Intents -> Nat]
          /\ evidenceRoot' \in [Intents -> [Actions -> Requests \cup {NoRequest}]]
      BY <1>0, <2>3, Constants
    <3> QED
      BY <1>0, <2>1, <3>2, <3>3
  <2> QED
    BY <1>2, <2>2, <2>3 DEF LandAttest
<1> QED
  BY <1>1, <1>2

\* A step of a handler, and of the tables it writes.
LEMMA StepTyped ==
    ASSUME PipelineTyped, pc' \in [Requests -> Steps], answer' \in [Requests -> Answers],
           job' \in [Requests -> Job], certs' \in [Actions -> Certificate],
           debitTx' \in [Requests -> TxStates], attestTx' \in [Requests -> TxStates],
           UNCHANGED <<settle, chainVars>>, BatchIInv'
    PROVE  PipelineTyped'
<1>1. HandlersTyped /\ ChainTyped
  BY TypedParts
<1>2. HandlersTyped'
  BY <1>1 DEF HandlersTyped
<1>3. ChainTyped'
  BY <1>1 DEF ChainTyped, GateTypeOK, chainVars
<1> QED
  BY <1>2, <1>3, TypedPartsNext

LEMMA OnlyMovesTyped ==
    ASSUME PipelineTyped, pc' \in [Requests -> Steps], answer' \in [Requests -> Answers], OnlyMoves
    PROVE  PipelineTyped'
<1>1. HandlersTyped /\ ChainTyped /\ BatchIInv /\ UNCHANGED batchVars
  BY TypedParts DEF OnlyMoves, worldVars
<1> QED
  BY <1>1, BatchStays, StepTyped DEF OnlyMoves, worldVars, txVars, HandlersTyped, ChainTyped

\* What a handler notes of its own request.
LEMMA JobType ==
    ASSUME NEW j \in Job, NEW v \in Decisions \cup {"NONE"}, NEW b \in BOOLEAN,
           NEW n \in Nat, NEW e \in Nat
    PROVE  /\ [j EXCEPT !.verdict = v] \in Job /\ [j EXCEPT !.stored = b] \in Job
           /\ [j EXCEPT !.nonce = n, !.expiry = e] \in Job
           /\ [j EXCEPT !.verifyTx = b] \in Job /\ [j EXCEPT !.attested = b] \in Job
BY DEF Job

LEMMA CertType ==
    /\ NoCert \in Certificate /\ [NoCert EXCEPT !.exists = TRUE] \in Certificate
    /\ \A r \in Requests, b \in BOOLEAN : Payload(r, b) \in Certificate
    /\ \A c \in Certificate : [c EXCEPT !.settled = TRUE] \in Certificate
BY DEF NoCert, Certificate, Payload

\* A step that writes its job or a certificate, and nothing else.
LEMMA NotesTyped ==
    ASSUME PipelineTyped, pc' \in [Requests -> Steps], answer' \in [Requests -> Answers],
           job' \in [Requests -> Job], certs' \in [Actions -> Certificate],
           UNCHANGED <<settle, worldVars>>
    PROVE  PipelineTyped'
<1>1. ChainTyped /\ BatchIInv /\ UNCHANGED batchVars
  BY TypedParts DEF worldVars
<1> QED
  BY <1>1, BatchStays, StepTyped DEF worldVars, txVars, ChainTyped

LEMMA TableTyped ==
    ASSUME PipelineTyped, pc' \in [Requests -> Steps], answer' \in [Requests -> Answers],
           UNCHANGED <<job, certs, settle, txVars, chainVars>>, BatchIInv'
    PROVE  PipelineTyped'
<1>1. HandlersTyped /\ ChainTyped
  BY TypedParts
<1> QED
  BY <1>1, StepTyped DEF txVars, HandlersTyped, ChainTyped

LEMMA TxTyped ==
    ASSUME PipelineTyped, pc' \in [Requests -> Steps], answer' \in [Requests -> Answers],
           debitTx' \in [Requests -> TxStates], attestTx' \in [Requests -> TxStates],
           UNCHANGED <<job, certs, settle, chainVars, batchVars>>
    PROVE  PipelineTyped'
<1>1. HandlersTyped /\ BatchIInv
  BY TypedParts
<1> QED
  BY <1>1, BatchStays, StepTyped DEF HandlersTyped

LEMMA RequestType ==
    ASSUME PipelineTyped, NEW r \in Requests, RequestStep(r)
    PROVE  PipelineTyped'
<1> DEFINE Moved == pc' \in [Requests -> Steps] /\ answer' \in [Requests -> Answers]
<1>1. ASSUME NEW from, NEW to \in Steps, Goto(r, from, to) PROVE Moved
  BY <1>1, GotoType
<1>2. ASSUME NEW from, NEW a \in Answers, Answer(r, from, a) PROVE Moved
  BY <1>2, AnswerType
<1>3. ASSUME OnlyMoves, Moved PROVE PipelineTyped'
  BY <1>3, OnlyMovesTyped
<1>t. HandlersTyped /\ ChainTyped /\ BatchIInv /\ job[r] \in Job /\ r \in Procs
  BY TypedParts, PipelineTypes, Constants
<1>s. "upload" \in Steps /\ "done" \in Steps /\ "certFind" \in Steps /\ "nonce" \in Steps
      /\ "attest" \in Steps /\ "log" \in Steps /\ "flush" \in Steps /\ "saveCert" \in Steps
      /\ "bill" \in Steps /\ "debitWait" \in Steps /\ "attestWait" \in Steps
      /\ "certFill" \in Steps
  BY DEF Steps
<1>4. ASSUME NEW from, NEW to \in Steps, CheckPayer(r, from, to) PROVE PipelineTyped'
  <2>1. PayerCheck(r) \in Answers /\ "error" \in Answers
    BY DEF PayerCheck, Answers
  <2>2. Moved
    BY <1>1, <1>2, <1>4, <2>1 DEF CheckPayer
  <2> QED
    BY <1>3, <1>4, <2>2 DEF CheckPayer
<1>5. CASE Precheck(r) \/ Bill(r)
  BY <1>4, <1>5 DEF Precheck, Bill, Steps
<1>6. CASE ReadCredits(r) \/ AwaitDebit(r) \/ QueryFails(r) \/ CertFind(r)
           \/ AwaitAttest(r) \/ AttestFails(r) \/ Reply(r)
  <2>1. Moved
    <3>1. CASE ReadCredits(r)
      BY <1>1, <1>2, <3>1 DEF ReadCredits, Steps, Answers
    <3>2. CASE AwaitDebit(r)
      BY <1>1, <1>2, <3>2 DEF AwaitDebit, Steps, Answers
    <3>3. CASE QueryFails(r)
      BY <1>2, <3>3 DEF QueryFails, Answers
    <3>4. CASE CertFind(r)
      BY <1>1, <3>4 DEF CertFind, Steps
    <3>5. CASE AwaitAttest(r) \/ AttestFails(r)
      BY <1>1, <3>5 DEF AwaitAttest, AttestFails, Steps
    <3>6. CASE Reply(r)
      <4>1. (IF job[r].attested THEN "ok" ELSE "attest_failed") \in Answers
        BY DEF Answers
      <4> QED
        BY <1>2, <3>6, <4>1 DEF Reply
    <3> QED
      BY <1>6, <3>1, <3>2, <3>3, <3>4, <3>5, <3>6
  <2>2. OnlyMoves
    BY <1>6 DEF ReadCredits, AwaitDebit, QueryFails, CertFind, AwaitAttest, AttestFails, Reply
  <2> QED
    BY <1>3, <2>1, <2>2
<1>7. CASE Layer2(r)
  <2>1. Moved
    BY <1>1, <1>2, <1>7, <1>s DEF Layer2, Answers
  <2>2. job' \in [Requests -> Job]
    <3>1. CASE UNCHANGED job
      BY <1>t, <3>1 DEF HandlersTyped
    <3>2. ASSUME NEW v \in Decisions, job' = [job EXCEPT ![r].verdict = v]
          PROVE  job' \in [Requests -> Job]
      <4>1. [job[r] EXCEPT !.verdict = v] \in Job
        BY <1>t DEF Job
      <4> QED
        BY <1>t, <3>2, <4>1 DEF HandlersTyped
    <3> QED
      BY <1>7, <3>1, <3>2 DEF Layer2
  <2> QED
    BY <1>7, <1>t, <2>1, <2>2, NotesTyped DEF Layer2, HandlersTyped
<1>8. CASE Upload(r)
  <2>1. Moved
    BY <1>1, <1>2, <1>8, <1>s DEF Upload, Answers
  <2>2. job' \in [Requests -> Job]
    BY <1>8, <1>t, JobType DEF Upload, HandlersTyped
  <2> QED
    BY <1>8, <1>t, <2>1, <2>2, NotesTyped DEF Upload, HandlersTyped
<1>9. CASE SendDebit(r)
  <2>1. Moved
    BY <1>1, <1>2, <1>9, <1>s DEF SendDebit, Answers
  <2>2. debitTx' \in [Requests -> TxStates]
    BY <1>9, <1>t DEF SendDebit, TxStates, ChainTyped
  <2> QED
    BY <1>9, <1>t, <2>1, <2>2, TxTyped DEF SendDebit, ChainTyped
<1>10. CASE Record(r)
  <2>1. Moved
    BY <1>1, <1>10, <1>s DEF Record
  <2>2. BatchIInv'
    BY <1>10, <1>t, CreateRowIInv DEF Record
  <2> QED
    BY <1>10, <2>1, <2>2, TableTyped DEF Record
<1>11. CASE CertUpdate(r)
  <2>1. Moved
    BY <1>1, <1>11, <1>s DEF CertUpdate
  <2>2. certs' \in [Actions -> Certificate]
    BY <1>11, <1>t, CertType, Constants DEF CertUpdate, PutCert, HandlersTyped
  <2> QED
    BY <1>11, <1>t, <2>1, <2>2, NotesTyped DEF CertUpdate, HandlersTyped
<1>12. CASE CertCreate(r)
  <2>1. Moved
    BY <1>1, <1>2, <1>12, <1>s DEF CertCreate, Answers
  <2>2. certs' \in [Actions -> Certificate]
    BY <1>12, <1>t, CertType, Constants DEF CertCreate, PutCert, HandlersTyped
  <2> QED
    BY <1>12, <1>t, <2>1, <2>2, NotesTyped DEF CertCreate, HandlersTyped
<1>13. CASE ReadNonce(r)
  <2>1. Moved
    BY <1>1, <1>13, <1>s DEF ReadNonce
  <2>2. intentNonce[IntentOf[r]] \in Nat /\ now + AttestationTTL \in Nat
    BY PipelineTypes, Constants
  <2>3. [job[r] EXCEPT !.nonce = intentNonce[IntentOf[r]], !.expiry = now + AttestationTTL] \in Job
    BY <1>t, <2>2, JobType
  <2>4. job' = [job EXCEPT ![r] = [job[r] EXCEPT !.nonce = intentNonce[IntentOf[r]],
                                                 !.expiry = now + AttestationTTL]]
    BY <1>13, <1>t DEF ReadNonce, HandlersTyped, Job
  <2>5. job' \in [Requests -> Job]
    BY <1>t, <2>3, <2>4, Zenon DEF HandlersTyped
  <2> QED
    BY <1>13, <1>t, <2>1, <2>5, NotesTyped DEF ReadNonce, HandlersTyped
<1>14. CASE SendAttest(r)
  <2>1. Moved
    BY <1>1, <1>14, <1>s DEF SendAttest
  <2>2. attestTx' \in [Requests -> TxStates]
    BY <1>14, <1>t DEF SendAttest, TxStates, ChainTyped
  <2> QED
    BY <1>14, <1>t, <2>1, <2>2, TxTyped DEF SendAttest, ChainTyped
<1>15. CASE SaveRow(r)
  <2>1. Moved
    BY <1>1, <1>15, <1>s DEF SaveRow
  <2>2. job' \in [Requests -> Job]
    BY <1>15, <1>t, JobType DEF SaveRow, HandlersTyped
  <2> QED
    BY <1>15, <1>t, <2>1, <2>2, NotesTyped DEF SaveRow, HandlersTyped
<1>16. CASE SaveCert(r)
  <2>1. Moved
    BY <1>1, <1>16, <1>s DEF SaveCert
  <2>2. job' \in [Requests -> Job]
    BY <1>16, <1>t, JobType DEF SaveCert, HandlersTyped
  <2>3. certs' \in [Actions -> Certificate]
    BY <1>16, <1>t, CertType, Constants DEF SaveCert, PutCert, HandlersTyped
  <2> QED
    BY <1>16, <1>t, <2>1, <2>2, <2>3, NotesTyped DEF SaveCert, HandlersTyped
<1>17. CASE Log(r)
  <2>1. Moved
    BY <1>1, <1>17, <1>s DEF Log
  <2>2. BatchIInv'
    BY <1>17, <1>t, LogEventIInv DEF Log
  <2> QED
    BY <1>17, <2>1, <2>2, TableTyped DEF Log
<1>18. CASE Flush(r)
  <2>1. Moved
    BY <1>2, <1>18, <1>t DEF Flush, Answers, HandlersTyped
  <2>2. BatchIInv'
    BY <1>18, <1>t, FlushBeginIInv, FlushCreateIInv, FlushEventsIInv, FlushRowsIInv,
       FlushAbortsIInv DEF Flush
  <2> QED
    BY <1>18, <2>1, <2>2, TableTyped DEF Flush
<1> QED
  BY <1>5, <1>6, <1>7, <1>8, <1>9, <1>10, <1>11, <1>12, <1>13, <1>14, <1>15, <1>16, <1>17, <1>18
     DEF RequestStep

LEMMA SettleType ==
    ASSUME PipelineTyped, NEW s \in Settlers, SettleStep(s)
    PROVE  PipelineTyped'
<1>1. HandlersTyped /\ ChainTyped /\ BatchIInv /\ SettledAction \in Actions
  BY TypedParts, PipelineAssumption
<1>2. settle[s].cert \in Certificate /\ certs[SettledAction] \in Certificate
  BY <1>1 DEF HandlersTyped
<1>3. /\ settle' \in [Settlers -> [at: {"row", "read", "write", "done"}, cert: Certificate]]
      /\ certs' \in [Actions -> Certificate]
  <2>1. ASSUME NEW from, NEW to \in {"row", "read", "write", "done"}, NEW c \in Certificate,
               SettleGoto(s, from, to, c)
        PROVE  settle' \in [Settlers -> [at: {"row", "read", "write", "done"}, cert: Certificate]]
    BY <1>1, <2>1 DEF SettleGoto, HandlersTyped
  <2>2. CASE SettleRow(s)
    BY <1>1, <2>1, <2>2, CertType DEF SettleRow, HandlersTyped
  <2>3. CASE SettleRead(s)
    BY <1>1, <1>2, <2>1, <2>3, CertType DEF SettleRead, HandlersTyped
  <2>4. CASE SettleWrite(s)
    <3>1. [settle[s].cert EXCEPT !.settled = TRUE] \in Certificate
      BY <1>2, CertType
    <3> QED
      BY <1>1, <2>1, <2>4, <3>1, CertType DEF SettleWrite, PutCert, HandlersTyped
  <2> QED
    BY <2>2, <2>3, <2>4 DEF SettleStep
<1>4. UNCHANGED <<pc, answer, job, worldVars>>
  BY DEF SettleStep, SettleRow, SettleRead, SettleWrite, settleQuiet
<1>5. HandlersTyped'
  BY <1>1, <1>3, <1>4 DEF HandlersTyped
<1>6. ChainTyped'
  BY <1>1, <1>4 DEF ChainTyped, GateTypeOK, worldVars, chainVars, txVars
<1>7. BatchIInv'
  BY <1>1, <1>4, BatchStays DEF worldVars
<1> QED
  BY <1>5, <1>6, <1>7, TypedPartsNext

LEMMA CrashType ==
    ASSUME PipelineTyped, Crash
    PROVE  PipelineTyped'
<1>1. HandlersTyped /\ ChainTyped /\ BatchIInv
  BY TypedParts
<1>2. HandlersTyped'
  <2>1. pc' \in [Requests -> Steps] /\ answer' \in [Requests -> Answers]
    BY <1>1 DEF Crash, HandlersTyped, Steps, Answers
  <2>2. settle' \in [Settlers -> [at: {"row", "read", "write", "done"}, cert: Certificate]]
    BY <1>1, CertType DEF Crash, HandlersTyped
  <2> QED
    BY <1>1, <2>1, <2>2 DEF Crash, HandlersTyped
<1>3. ChainTyped'
  BY <1>1 DEF Crash, ChainTyped, GateTypeOK, chainVars, txVars
<1>4. BatchIInv'
  <2>1. UNCHANGED <<rows, log, batches>> /\ flush' = [p \in Procs |-> Idle]
    BY DEF Crash
  <2>2. 0 \in 0..Len(batches)
    BY <1>1, Domains DEF BatchIInv
  <2> QED
    BY <1>1, <2>1, <2>2, IdleType
       DEF BatchIInv, BatchTyped, BatchTypeOK, BatchHoldsItsEvents, FlushHoldsItsEvents
<1> QED
  BY <1>2, <1>3, <1>4, TypedPartsNext

ChainStep ==
    \/ ChainTick
    \/ \E i \in Intents :
        \/ \E p \in Principals, e \in Times : ChainRegister(i, p, e)
        \/ ChainInvalidate(i)
        \/ \E a \in Actions, v \in Decisions : ChainAttest(i, a, v)
    \/ \E p \in Principals : ChainWithdraw(p)

Lands == \E r \in Requests : LandDebit(r) \/ LandAttest(r)

LEMMA ChainQuiet ==
    ASSUME ChainStep
    PROVE  UNCHANGED <<apiVars, txVars, batchVars>>
BY DEF ChainStep, ChainTick, ChainRegister, ChainInvalidate, ChainAttest, ChainWithdraw, OffChain

LEMMA NextCases ==
    PipelineNext <=> \/ ChainStep \/ Lands \/ Crash
                     \/ \E r \in Requests : RequestStep(r)
                     \/ \E s \in Settlers : SettleStep(s)
BY DEF PipelineNext, ChainStep, Lands

LEMMA NextTyped ==
    ASSUME PipelineTyped, PipelineNext
    PROVE  PipelineTyped'
<1>1. ASSUME ChainTyped', UNCHANGED <<apiVars, batchVars>> PROVE PipelineTyped'
  <2>1. HandlersTyped /\ BatchIInv
    BY TypedParts
  <2> QED
    BY <1>1, <2>1, BatchStays, TypedPartsNext DEF HandlersTyped, apiVars
<1>2. CASE ChainStep
  BY <1>1, <1>2, ChainType, ChainQuiet DEF ChainStep
<1>3. CASE Lands
  BY <1>1, <1>3, LandType DEF Lands, LandDebit, LandAttest
<1>4. ASSUME NEW r \in Requests, RequestStep(r) PROVE PipelineTyped'
  BY <1>4, RequestType
<1> QED
  BY <1>2, <1>3, <1>4, SettleType, CrashType, NextCases

-----------------------------------------------------------------------------
(* The invariant: what has been done by each await, and is still so.       *)

AfterCert == {"certUpdate", "certFill", "nonce", "attest", "attestWait", "saveRow", "saveCert",
              "log", "flush"}
AfterRecord == {"certFind", "certCreate"} \cup AfterCert
AfterBill == {"record"} \cup AfterRecord
AfterUpload == {"bill", "credits", "debit", "debitWait"} \cup AfterBill
MaybeSent == {"attestWait", "saveRow", "saveCert", "log", "flush", "done"}

Known(r) == /\ intents[IntentOf[r]].status # "NONE"
            /\ intents[IntentOf[r]].principal = job[r].payer
Backed(r) == /\ debitTx[r] = "success" /\ job[r].stored
             /\ rows[r] # NoRow /\ certs[ActionOf[r]].exists
Logged(r) == \E e \in DOMAIN log : log[e].by = r

\* By the await the handler is at.
ByNow(r) ==
    /\ pc[r] \in AfterUpload => job[r].stored
    /\ pc[r] \in AfterBill => debitTx[r] = "success"
    /\ pc[r] \in AfterRecord => rows[r] # NoRow
    /\ pc[r] \in AfterCert => certs[ActionOf[r]].exists
    /\ pc[r] \in {"credits", "debit"} => Known(r)
    /\ pc[r] \notin MaybeSent => attestTx[r] = "none"
    /\ pc[r] \in {"saveRow", "saveCert"} => attestTx[r] = "success"
    /\ pc[r] = "saveCert" => job[r].verifyTx
    /\ pc[r] = "flush" => Logged(r)

\* By the transactions sent and the answer given.
ByTx(r) ==
    /\ debitTx[r] # "none" => Known(r)
    /\ attestTx[r] # "none" => Backed(r)
    /\ attestTx[r] = "success" => job[r].nonce < intentNonce[IntentOf[r]]
    /\ job[r].attested => attestTx[r] = "success" /\ job[r].verifyTx
    /\ answer[r] = "ok" => job[r].attested /\ Logged(r)

CertSound(c, a) ==
    c.verified => c.by \in Requests /\ attestTx[c.by] = "success" /\ ActionOf[c.by] = a

\* What the chain and the tables say of requests.
OfAll ==
    /\ \A i \in Intents, a \in Actions :
          evidenceRoot[i][a] # NoRequest => attestTx[evidenceRoot[i][a]] = "success"
    /\ \A a \in Actions : CertSound(certs[a], a)
    /\ \A s \in Settlers : /\ CertSound(settle[s].cert, SettledAction)
                           /\ settle[s].at = "write" => certs[SettledAction].exists
                                                        /\ settle[s].cert.exists
    /\ OneNonceOneAttestation

PipelineIInv == PipelineTyped /\ OfAll /\ \A r \in Requests : ByNow(r) /\ ByTx(r)

\* Nothing a handler rests on is taken back.
Kept ==
    /\ \A q \in Requests : /\ rows[q] # NoRow => rows'[q] # NoRow
                           /\ attestTx[q] = "success" => attestTx'[q] = "success"
    /\ \A a \in Actions : certs[a].exists => certs'[a].exists
    /\ \A i \in Intents :
          /\ intents[i].status # "NONE" => intents'[i].status # "NONE"
                                           /\ intents'[i].principal = intents[i].principal
          /\ intentNonce[i] <= intentNonce'[i]
    /\ \A e \in DOMAIN log : e \in DOMAIN log' /\ log'[e].by = log[e].by

Same(r) ==
    UNCHANGED <<pc[r], answer[r], job[r], debitTx[r], attestTx[r]>>

LEMMA LessKept == \A a, b, c \in Nat : a < b /\ b <= c => a < c
OBVIOUS

LEMMA LoggedKept ==
    ASSUME Kept, NEW r, Logged(r)
    PROVE  Logged(r)'
BY DEF Kept, Logged

LEMMA Framed ==
    ASSUME PipelineTyped, PipelineTyped', Kept, NEW r \in Requests, Same(r), ByNow(r), ByTx(r)
    PROVE  ByNow(r)' /\ ByTx(r)'
<1>0. IntentOf[r] \in Intents /\ ActionOf[r] \in Actions
  BY Constants
<1>1. Known(r) => Known(r)'
  BY <1>0 DEF Known, Kept, Same
<1>2. Backed(r) => Backed(r)'
  BY <1>0 DEF Backed, Kept, Same
<1>3. Logged(r) => Logged(r)'
  BY LoggedKept
<1>4. ByNow(r)'
  BY <1>0, <1>1, <1>3 DEF ByNow, Same, Kept
<1>5. job[r].nonce < intentNonce[IntentOf[r]] => (job[r].nonce < intentNonce[IntentOf[r]])'
  <2>1. /\ job[r].nonce \in Nat /\ intentNonce[IntentOf[r]] \in Nat
        /\ intentNonce'[IntentOf[r]] \in Nat
    BY <1>0, TypedParts, TypedPartsNext DEF HandlersTyped, ChainTyped, Job
  <2>2. job[r].nonce < intentNonce[IntentOf[r]] => job[r].nonce < intentNonce'[IntentOf[r]]
    BY <1>0, <2>1, LessKept DEF Kept
  <2> QED
    BY <2>2 DEF Same
<1>6. ByTx(r)'
  BY <1>1, <1>2, <1>3, <1>5 DEF ByTx, Same
<1> QED
  BY <1>4, <1>6

LEMMA GotoMoves ==
    ASSUME PipelineTyped, NEW r \in Requests, NEW from, NEW to, Goto(r, from, to)
    PROVE  /\ pc[r] = from /\ pc'[r] = to /\ answer'[r] = answer[r]
           /\ \A q \in Requests : q # r => pc'[q] = pc[q] /\ answer'[q] = answer[q]
BY DEF Goto, PipelineTyped, PipelineTypeOK

LEMMA AnswerMoves ==
    ASSUME PipelineTyped, NEW r \in Requests, NEW from, NEW a, Answer(r, from, a)
    PROVE  /\ pc[r] = from /\ pc'[r] = "done" /\ answer'[r] = a
           /\ \A q \in Requests : q # r => pc'[q] = pc[q] /\ answer'[q] = answer[q]
BY DEF Answer, PipelineTyped, PipelineTypeOK

\* A step of a handler touches its own request only.
Own(r) == \A q \in Requests : q # r => Same(q)

LEMMA OwnStep ==
    ASSUME PipelineTyped, NEW r \in Requests, RequestStep(r)
    PROVE  Own(r)
<1>1. /\ \A q \in Requests : q # r => pc'[q] = pc[q] /\ answer'[q] = answer[q]
      /\ \A q \in Requests : q # r => job'[q] = job[q]
      /\ \A q \in Requests : q # r => debitTx'[q] = debitTx[q] /\ attestTx'[q] = attestTx[q]
  <2> USE DEF Goto, Answer, OnlyMoves, worldVars, txVars, CheckPayer
  <2>t. /\ pc \in [Requests -> Steps] /\ answer \in [Requests -> Answers]
        /\ job \in [Requests -> Job] /\ debitTx \in [Requests -> TxStates]
        /\ attestTx \in [Requests -> TxStates]
    BY DEF PipelineTyped, PipelineTypeOK
  <2>1. CASE \/ Precheck(r) \/ Bill(r) \/ ReadCredits(r) \/ AwaitDebit(r) \/ QueryFails(r)
             \/ CertFind(r) \/ AwaitAttest(r) \/ AttestFails(r) \/ Reply(r)
    BY <2>t, <2>1 DEF Precheck, Bill, ReadCredits, AwaitDebit, QueryFails, CertFind,
                      AwaitAttest, AttestFails, Reply
  <2>2. CASE Layer2(r) \/ Upload(r) \/ ReadNonce(r) \/ SaveRow(r) \/ SaveCert(r)
    BY <2>t, <2>2 DEF Layer2, Upload, ReadNonce, SaveRow, SaveCert
  <2>3. CASE SendDebit(r) \/ SendAttest(r)
    BY <2>t, <2>3 DEF SendDebit, SendAttest
  <2>4. CASE Record(r) \/ CertUpdate(r) \/ CertCreate(r) \/ Log(r) \/ Flush(r)
    BY <2>t, <2>4 DEF Record, CertUpdate, CertCreate, Log, Flush
  <2> QED
    BY <2>1, <2>2, <2>3, <2>4 DEF RequestStep
<1> QED
  BY <1>1 DEF Own, Same

\* A handler lands nothing on chain and deletes nothing from the tables.
LEMMA RequestKept ==
    ASSUME PipelineTyped, NEW r \in Requests, RequestStep(r), pc[r] # "attest" \/ attestTx[r] = "none"
    PROVE  Kept /\ UNCHANGED <<chainVars, settle>>
<1>t. /\ rows \in [Requests -> Nat \cup {NoRow}] /\ certs \in [Actions -> Certificate]
      /\ attestTx \in [Requests -> TxStates] /\ BatchIInv /\ intentNonce \in [Intents -> Nat]
      /\ r \in Procs /\ ActionOf[r] \in Actions
  BY Constants DEF PipelineTyped, PipelineTypeOK, BatchIInv, BatchTyped
<1>1. UNCHANGED <<chainVars, settle>>
  BY DEF RequestStep, OnlyMoves, worldVars, CheckPayer, Precheck, Bill, ReadCredits, AwaitDebit,
         QueryFails, CertFind, AwaitAttest, AttestFails, Reply, Layer2, Upload, ReadNonce, SaveRow,
         SaveCert, SendDebit, SendAttest, Record, CertUpdate, CertCreate, Log, Flush
<1>2. \A i \in Intents : intentNonce[i] <= intentNonce[i]
  BY <1>t
<1>3. ASSUME \A a \in Actions : certs[a].exists => certs'[a].exists,
             \A q \in Requests : attestTx[q] = "success" => attestTx'[q] = "success",
             \A q \in Requests : rows[q] # NoRow => rows'[q] # NoRow,
             \A e \in DOMAIN log : e \in DOMAIN log' /\ log'[e].by = log[e].by
      PROVE  Kept
  BY <1>1, <1>2, <1>3 DEF Kept, chainVars
<1>4. CASE UNCHANGED <<rows, log, attestTx, certs>>
  <2>1. UNCHANGED rows /\ UNCHANGED log /\ UNCHANGED attestTx /\ UNCHANGED certs
    BY <1>4
  <2>2. \A e \in DOMAIN log : e \in DOMAIN log' /\ log'[e].by = log[e].by
    BY <2>1
  <2>3. /\ \A a \in Actions : certs[a].exists => certs'[a].exists
        /\ \A q \in Requests : attestTx[q] = "success" => attestTx'[q] = "success"
        /\ \A q \in Requests : rows[q] # NoRow => rows'[q] # NoRow
    BY <2>1
  <2> QED
    BY <1>1, <1>3, <2>2, <2>3
<1>5. CASE SendDebit(r)
  BY <1>4, <1>5 DEF SendDebit, batchVars
<1>6. CASE SendAttest(r)
  <2>1. \A q \in Requests : attestTx[q] = "success" => attestTx'[q] = "success"
    BY <1>6, <1>t DEF SendAttest, Goto
  <2> QED
    BY <1>3, <1>6, <2>1 DEF SendAttest, batchVars
<1>7. CASE CertUpdate(r) \/ CertCreate(r) \/ SaveCert(r)
  <2>1. \A a \in Actions : certs[a].exists => certs'[a].exists
    BY <1>7, <1>t DEF CertUpdate, CertCreate, SaveCert, PutCert, Payload, NoCert
  <2> QED
    BY <1>3, <1>7, <2>1 DEF CertUpdate, CertCreate, SaveCert, worldVars, txVars, batchVars
<1>8. CASE Record(r)
  <2>1. \A q \in Requests : rows[q] # NoRow => rows'[q] # NoRow
    BY <1>8, <1>t DEF Record, CreateRow, NoBatch, NoRow
  <2> QED
    BY <1>3, <1>8, <2>1 DEF Record, CreateRow, txVars
<1>9. CASE Log(r)
  <2> DEFINE ev == [by |-> r, batch |-> NoBatch]
  <2>1. log \in Seq(Events) /\ ev \in Events
    BY <1>t DEF BatchIInv, BatchTyped, Events, NoBatch
  <2>2. log' = Append(log, ev)
    BY <1>9 DEF Log, LogEvent
  <2> HIDE DEF ev
  <2>3. /\ DOMAIN log = 1..Len(log) /\ Len(log) \in Nat /\ DOMAIN log' = 1..(Len(log) + 1)
        /\ \A n \in 1..Len(log) : log'[n] = log[n]
    BY <2>1, <2>2, AppendOne
  <2>4. \A e \in DOMAIN log : e \in DOMAIN log' /\ log'[e].by = log[e].by
    BY <2>3
  <2> QED
    BY <1>3, <1>9, <2>4 DEF Log, LogEvent, txVars
<1>10. CASE Flush(r)
  <2>1. \A e \in DOMAIN log : e \in DOMAIN log' /\ log'[e].by = log[e].by
    <3>1. CASE UNCHANGED log
      BY <3>1
    <3>2. CASE FlushEvents(r)
      <4>1. \A e \in DOMAIN log : log[e] \in Events
        BY <1>t, Domains DEF BatchIInv
      <4> QED
        BY <3>2, <4>1 DEF FlushEvents, Events
    <3> QED
      BY <1>10, <3>1, <3>2 DEF Flush, FlushBegin, FlushCreate, FlushRows, FlushAborts
  <2>2. \A q \in Requests : rows[q] # NoRow => rows'[q] # NoRow
    <3>1. CASE UNCHANGED rows
      BY <3>1
    <3>2. CASE FlushRows(r)
      <4>1. flush[r].batch \in Nat /\ \A n \in Nat : n # NoRow
        BY <1>t DEF BatchIInv, BatchTyped, Flushes, NoRow
      <4> QED
        BY <3>2, <4>1 DEF FlushRows
    <3> QED
      BY <1>10, <3>1, <3>2 DEF Flush, FlushBegin, FlushCreate, FlushEvents, FlushAborts
  <2> QED
    BY <1>3, <1>10, <2>1, <2>2 DEF Flush, txVars
<1>11. CASE \/ Precheck(r) \/ Bill(r) \/ ReadCredits(r) \/ AwaitDebit(r) \/ QueryFails(r)
            \/ CertFind(r) \/ AwaitAttest(r) \/ AttestFails(r) \/ Reply(r)
            \/ Layer2(r) \/ Upload(r) \/ ReadNonce(r) \/ SaveRow(r)
  BY <1>4, <1>11 DEF Precheck, Bill, ReadCredits, AwaitDebit, QueryFails, CertFind,
         AwaitAttest, AttestFails, Reply, Layer2, Upload, ReadNonce, SaveRow,
         CheckPayer, OnlyMoves, worldVars, txVars, batchVars
<1> QED
  BY <1>5, <1>6, <1>7, <1>8, <1>9, <1>10, <1>11 DEF RequestStep

\* What a step of r leaves true by the transactions, if it sends none.
LEMMA TxKept ==
    ASSUME PipelineTyped, PipelineTyped', Kept, NEW r \in Requests, ByTx(r),
           UNCHANGED <<debitTx[r], attestTx[r], chainVars>>, job'[r].payer = job[r].payer,
           attestTx[r] # "none" => job'[r] = job[r],
           attestTx[r] # "success" => job'[r].attested = job[r].attested,
           answer'[r] # "ok" \/ answer'[r] = answer[r]
    PROVE  ByTx(r)'
<1>0. IntentOf[r] \in Intents /\ ActionOf[r] \in Actions
  BY Constants
<1>1. Known(r) => Known(r)'
  BY DEF Known, chainVars
<1>2. Backed(r) /\ attestTx[r] # "none" => Backed(r)'
  BY <1>0 DEF Backed, Kept
<1>3. Logged(r) => Logged(r)'
  BY LoggedKept
<1> QED
  BY <1>1, <1>2, <1>3 DEF ByTx, chainVars

LEMMA OnlyMovesKept ==
    ASSUME PipelineTyped, PipelineTyped', Kept, NEW r \in Requests, ByTx(r), OnlyMoves,
           answer'[r] # "ok" \/ answer'[r] = answer[r]
    PROVE  ByTx(r)' /\ (Known(r) => Known(r)') /\ (Logged(r) => Logged(r)')
           /\ UNCHANGED <<rows, certs, job, debitTx, attestTx>>
<1>1. UNCHANGED <<rows, certs, job, debitTx, attestTx, chainVars>>
  BY DEF OnlyMoves, worldVars, txVars, batchVars
<1>2. UNCHANGED <<debitTx[r], attestTx[r], chainVars, job[r]>>
  BY <1>1
<1>3. ByTx(r)'
  BY <1>2, TxKept
<1> QED
  BY <1>1, <1>3, LoggedKept DEF Known, chainVars

\* Done, a handler rests on nothing but what it sent and said.
LEMMA DoneByNow ==
    ASSUME NEW r, pc[r] = "done"
    PROVE  ByNow(r)
BY DEF ByNow, AfterUpload, AfterBill, AfterRecord, AfterCert, MaybeSent

LEMMA DoneByNowNext ==
    ASSUME NEW r, pc'[r] = "done"
    PROVE  ByNow(r)'
BY DEF ByNow, AfterUpload, AfterBill, AfterRecord, AfterCert, MaybeSent

LEMMA QuietByNow ==
    ASSUME PipelineTyped, PipelineTyped', Kept, NEW r \in Requests, ByNow(r), ByTx(r),
           \/ Precheck(r) \/ Bill(r) \/ ReadCredits(r) \/ AwaitDebit(r) \/ QueryFails(r)
           \/ CertFind(r) \/ AwaitAttest(r) \/ AttestFails(r)
    PROVE  ByNow(r)' /\ ByTx(r)'
<1> USE DEF ByNow, AfterUpload, AfterBill, AfterRecord, AfterCert, MaybeSent
<1>1. /\ OnlyMoves
      /\ \/ \E from, to : Goto(r, from, to)
         \/ \E from, a : Answer(r, from, a) /\ a # "ok"
  BY DEF Precheck, Bill, ReadCredits, AwaitDebit, QueryFails, CertFind, AwaitAttest, AttestFails, CheckPayer
<1>2. answer'[r] # "ok" \/ answer'[r] = answer[r]
  BY <1>1, GotoMoves, AnswerMoves
<1>3. /\ ByTx(r)' /\ (Known(r) => Known(r)') /\ (Logged(r) => Logged(r)')
      /\ UNCHANGED <<rows, certs, job, debitTx, attestTx>>
  BY <1>1, <1>2, OnlyMovesKept
<1>4. ASSUME NEW from, NEW a, Answer(r, from, a) PROVE ByNow(r)'
  BY <1>4, AnswerMoves, DoneByNowNext
<1>5. ASSUME NEW from, NEW to, Goto(r, from, to)
      PROVE  pc[r] = from /\ pc'[r] = to
  BY <1>5, GotoMoves
<1>6. CASE Precheck(r)
  BY <1>3, <1>4, <1>5, <1>6 DEF Precheck, CheckPayer
<1>7. CASE Bill(r)
  <2>1. PayerCheck(r) = "ok" => Known(r)
    BY DEF PayerCheck, Known
  <2> QED
    BY <1>3, <1>4, <1>5, <1>7, <2>1 DEF Bill, CheckPayer
<1>8. CASE ReadCredits(r)
  BY <1>3, <1>4, <1>5, <1>8 DEF ReadCredits
<1>9. CASE AwaitDebit(r)
  BY <1>3, <1>4, <1>5, <1>9 DEF AwaitDebit
<1>10. CASE QueryFails(r)
  BY <1>3, <1>4, <1>10 DEF QueryFails
<1>11. CASE CertFind(r)
  BY <1>3, <1>5, <1>11 DEF CertFind
<1>12. CASE AwaitAttest(r)
  BY <1>3, <1>5, <1>12 DEF AwaitAttest
<1>13. CASE AttestFails(r)
  <2>1. PICK at \in {"nonce", "attest", "attestWait", "saveRow", "saveCert"} : Goto(r, at, "log")
    BY <1>13 DEF AttestFails
  <2>2. pc[r] = at /\ pc'[r] = "log"
    BY <1>5, <2>1
  <2> QED
    BY <1>3, <2>2
<1> QED
  BY <1>6, <1>7, <1>8, <1>9, <1>10, <1>11, <1>12, <1>13, <1>3

\* The fields a step notes, and the ones it leaves.
LEMMA JobFields ==
    ASSUME NEW j \in Job, NEW v, NEW b, NEW n, NEW e
    PROVE  /\ [j EXCEPT !.verdict = v].payer = j.payer /\ [j EXCEPT !.verdict = v].attested = j.attested
           /\ [j EXCEPT !.verdict = v].stored = j.stored
           /\ [j EXCEPT !.stored = b].payer = j.payer /\ [j EXCEPT !.stored = b].attested = j.attested
           /\ [j EXCEPT !.stored = b].stored = b
           /\ [j EXCEPT !.nonce = n, !.expiry = e].payer = j.payer
           /\ [j EXCEPT !.nonce = n, !.expiry = e].attested = j.attested
           /\ [j EXCEPT !.nonce = n, !.expiry = e].stored = j.stored
           /\ [j EXCEPT !.verifyTx = b].payer = j.payer /\ [j EXCEPT !.verifyTx = b].attested = j.attested
           /\ [j EXCEPT !.verifyTx = b].stored = j.stored /\ [j EXCEPT !.verifyTx = b].verifyTx = b
           /\ [j EXCEPT !.verifyTx = b].nonce = j.nonce
           /\ [j EXCEPT !.attested = b].payer = j.payer /\ [j EXCEPT !.attested = b].attested = b
           /\ [j EXCEPT !.attested = b].stored = j.stored
           /\ [j EXCEPT !.attested = b].verifyTx = j.verifyTx
           /\ [j EXCEPT !.attested = b].nonce = j.nonce
BY DEF Job

\* A handler that has sent no attestation notes something and moves on.
LEMMA NoteByNow ==
    ASSUME PipelineTyped, PipelineTyped', Kept, NEW r \in Requests, ByNow(r), ByTx(r),
           Layer2(r) \/ Upload(r) \/ ReadNonce(r)
    PROVE  ByNow(r)' /\ ByTx(r)'
<1> USE DEF ByNow, AfterUpload, AfterBill, AfterRecord, AfterCert, MaybeSent
<1>t. job \in [Requests -> Job] /\ job[r] \in Job /\ ActionOf[r] \in Actions
  BY Constants DEF PipelineTyped, PipelineTypeOK
<1>0. pc[r] \in {"layer2", "upload", "nonce"}
  BY GotoMoves, AnswerMoves DEF Layer2, Upload, ReadNonce
<1>1. attestTx[r] = "none"
  BY <1>0
<1>2. UNCHANGED <<rows, certs, debitTx, attestTx, chainVars>>
  <2>1. UNCHANGED <<certs, worldVars>>
    BY DEF Layer2, Upload, ReadNonce
  <2> QED
    BY <2>1 DEF worldVars, txVars, batchVars
<1>3. /\ job'[r].payer = job[r].payer /\ job'[r].attested = job[r].attested
      /\ pc[r] # "upload" => job'[r].stored = job[r].stored
  <2>1. CASE Layer2(r)
    <3>1. CASE UNCHANGED job
      BY <3>1
    <3>2. ASSUME NEW v \in Decisions, job' = [job EXCEPT ![r].verdict = v]
          PROVE  /\ job'[r].payer = job[r].payer /\ job'[r].attested = job[r].attested
                 /\ job'[r].stored = job[r].stored
      <4>1. job'[r] = [job[r] EXCEPT !.verdict = v]
        BY <1>t, <3>2
      <4> QED
        BY <1>t, <4>1 DEF Job
    <3> QED
      BY <2>1, <3>1, <3>2 DEF Layer2
  <2>2. CASE Upload(r)
    <3>1. pc[r] = "upload"
      BY <2>2, GotoMoves, AnswerMoves DEF Upload
    <3>2. \E b \in BOOLEAN : job'[r] = [job[r] EXCEPT !.stored = b]
      BY <1>t, <2>2 DEF Upload
    <3> QED
      BY <1>t, <3>1, <3>2, JobFields
  <2>3. CASE ReadNonce(r)
    <3>1. job'[r] = [job[r] EXCEPT !.nonce = intentNonce[IntentOf[r]], !.expiry = now + AttestationTTL]
      BY <1>t, <2>3 DEF ReadNonce, Job
    <3> QED
      BY <1>t, <3>1, JobFields
  <2> QED
    BY <2>1, <2>2, <2>3
<1>4. answer'[r] # "ok" \/ answer'[r] = answer[r]
  BY GotoMoves, AnswerMoves DEF Layer2, Upload, ReadNonce
<1>5. ByTx(r)'
  <2>1. UNCHANGED <<debitTx[r], attestTx[r], chainVars>>
    BY <1>2
  <2> QED
    BY <1>1, <1>3, <1>4, <2>1, TxKept
<1>6. ByNow(r)'
  <2>1. CASE pc'[r] = "done"
    BY <2>1, DoneByNowNext
  <2>2. CASE Layer2(r) /\ pc'[r] # "done"
    <3>1. pc'[r] = "upload"
      BY <2>2, GotoMoves, AnswerMoves DEF Layer2
    <3> QED
      BY <1>1, <1>2, <3>1
  <2>3. CASE Upload(r) /\ pc'[r] # "done"
    <3>1. pc'[r] = "bill" /\ job' = [job EXCEPT ![r].stored = TRUE]
      BY <2>3, GotoMoves, AnswerMoves DEF Upload
    <3>2. job'[r].stored
      BY <1>t, <3>1, JobFields
    <3> QED
      BY <1>1, <1>2, <3>1, <3>2
  <2>4. CASE ReadNonce(r)
    <3>1. pc[r] = "nonce" /\ pc'[r] = "attest"
      BY <2>4, GotoMoves DEF ReadNonce
    <3> QED
      BY <1>1, <1>2, <1>3, <3>1
  <2> QED
    BY <2>1, <2>2, <2>3, <2>4
<1> QED
  BY <1>5, <1>6

LEMMA SaveByNow ==
    ASSUME PipelineTyped, PipelineTyped', Kept, NEW r \in Requests, ByNow(r), ByTx(r),
           SaveRow(r) \/ SaveCert(r)
    PROVE  ByNow(r)' /\ ByTx(r)'
<1> USE DEF ByNow, AfterUpload, AfterBill, AfterRecord, AfterCert, MaybeSent
<1>t. job \in [Requests -> Job] /\ job[r] \in Job /\ ActionOf[r] \in Actions
  BY Constants DEF PipelineTyped, PipelineTypeOK
<1>0. /\ pc[r] \in {"saveRow", "saveCert"} /\ answer'[r] = answer[r]
      /\ attestTx[r] = "success" /\ job[r].stored /\ rows[r] # NoRow /\ debitTx[r] = "success"
      /\ certs[ActionOf[r]].exists
  BY GotoMoves DEF SaveRow, SaveCert
<1>1. UNCHANGED <<rows, debitTx, attestTx, chainVars>>
  BY DEF SaveRow, SaveCert, worldVars, txVars, batchVars
<1>2. Logged(r) => Logged(r)'
  BY LoggedKept
<1>3. certs'[ActionOf[r]].exists
  BY <1>0, <1>t DEF Kept
<1>4. CASE SaveRow(r)
  <2>1. /\ pc'[r] = "saveCert" /\ job'[r].verifyTx /\ job'[r].stored = job[r].stored
        /\ job'[r].payer = job[r].payer /\ job'[r].attested = job[r].attested /\ job'[r].nonce = job[r].nonce
    BY <1>4, <1>t, GotoMoves, JobFields DEF SaveRow
  <2> QED
    BY <1>0, <1>1, <1>2, <1>3, <2>1 DEF ByTx, Known, Backed, chainVars
<1>5. CASE SaveCert(r)
  <2>1. /\ pc[r] = "saveCert" /\ pc'[r] = "log" /\ job'[r].verifyTx = job[r].verifyTx
        /\ job'[r].stored = job[r].stored /\ job'[r].payer = job[r].payer /\ job'[r].attested
        /\ job'[r].nonce = job[r].nonce
    BY <1>5, <1>t, GotoMoves, JobFields DEF SaveCert
  <2> QED
    BY <1>0, <1>1, <1>2, <1>3, <2>1 DEF ByTx, Known, Backed, chainVars
<1> QED
  BY <1>4, <1>5

LEMMA SendByNow ==
    ASSUME PipelineTyped, PipelineTyped', Kept, NEW r \in Requests, ByNow(r), ByTx(r),
           SendDebit(r) \/ SendAttest(r)
    PROVE  ByNow(r)' /\ ByTx(r)'
<1> USE DEF ByNow, AfterUpload, AfterBill, AfterRecord, AfterCert, MaybeSent
<1>t. debitTx \in [Requests -> TxStates] /\ attestTx \in [Requests -> TxStates]
  BY DEF PipelineTyped, PipelineTypeOK
<1>1. UNCHANGED <<job, certs, rows, log, chainVars>>
  BY DEF SendDebit, SendAttest, batchVars
<1>2. (Logged(r) => Logged(r)') /\ (Known(r) => Known(r)')
  BY <1>1, LoggedKept DEF Known, chainVars
<1>3. CASE SendDebit(r)
  <2>1. /\ pc[r] = "debit" /\ pc'[r] \in {"debitWait", "done"} /\ UNCHANGED attestTx
        /\ answer'[r] # "ok" \/ answer'[r] = answer[r]
        /\ debitTx'[r] = debitTx[r] \/ debitTx'[r] = "pending"
        /\ pc'[r] = "debitWait" => job[r].stored
    BY <1>3, <1>t, GotoMoves, AnswerMoves DEF SendDebit
  <2> QED
    BY <1>1, <1>2, <2>1 DEF ByTx, chainVars
<1>4. CASE SendAttest(r)
  <2>1. /\ pc[r] = "attest" /\ pc'[r] \in {"attestWait", "log"} /\ UNCHANGED debitTx
        /\ answer'[r] = answer[r] /\ attestTx'[r] = "pending"
    BY <1>4, <1>t, GotoMoves DEF SendAttest
  <2>2. attestTx[r] = "none" /\ Backed(r) /\ debitTx'[r] = debitTx[r]
    BY <2>1 DEF Backed
  <2> QED
    BY <1>1, <1>2, <2>1, <2>2 DEF ByTx, Backed, chainVars
<1> QED
  BY <1>3, <1>4

LEMMA TableByNow ==
    ASSUME PipelineTyped, PipelineTyped', Kept, NEW r \in Requests, ByNow(r), ByTx(r),
           Record(r) \/ CertUpdate(r) \/ CertCreate(r) \/ Log(r) \/ Flush(r) \/ Reply(r)
    PROVE  ByNow(r)' /\ ByTx(r)'
<1> USE DEF ByNow, AfterUpload, AfterBill, AfterRecord, AfterCert, MaybeSent
<1>t. /\ certs \in [Actions -> Certificate] /\ rows \in [Requests -> Nat \cup {NoRow}]
      /\ ActionOf[r] \in Actions /\ answer \in [Requests -> Answers] /\ BatchIInv
  BY Constants DEF PipelineTyped, PipelineTypeOK, BatchIInv, BatchTyped
<1>1. UNCHANGED <<job, debitTx, attestTx, chainVars>>
  BY DEF Record, CertUpdate, CertCreate, Log, Flush, Reply, OnlyMoves, worldVars, txVars
<1>2. (Logged(r) => Logged(r)') /\ (Known(r) => Known(r)')
  BY <1>1, LoggedKept DEF Known, chainVars
<1>3. ASSUME answer'[r] # "ok" \/ answer'[r] = answer[r] PROVE ByTx(r)'
  <2>1. UNCHANGED <<debitTx[r], attestTx[r], chainVars>> /\ UNCHANGED job[r]
    BY <1>1
  <2> QED
    BY <1>3, <2>1, TxKept
<1>4. CASE Record(r)
  <2>1. pc[r] = "record" /\ pc'[r] = "certFind" /\ answer'[r] = answer[r] /\ rows'[r] # NoRow
    BY <1>4, <1>t, GotoMoves DEF Record, CreateRow, NoRow, NoBatch
  <2> QED
    BY <1>1, <1>3, <2>1
<1>5. CASE CertUpdate(r)
  <2>1. /\ pc[r] \in {"certUpdate", "certFill"} /\ pc'[r] = "nonce" /\ answer'[r] = answer[r]
        /\ certs'[ActionOf[r]].exists /\ UNCHANGED rows
    BY <1>5, <1>t, GotoMoves DEF CertUpdate, PutCert, Payload, worldVars, batchVars
  <2> QED
    BY <1>1, <1>3, <2>1
<1>6. CASE CertCreate(r)
  <2>1. /\ pc[r] = "certCreate" /\ UNCHANGED rows
        /\ \/ pc'[r] = "certFill" /\ answer'[r] = answer[r] /\ certs'[ActionOf[r]].exists
           \/ pc'[r] = "done" /\ answer'[r] # "ok"
    BY <1>6, <1>t, GotoMoves, AnswerMoves DEF CertCreate, PutCert, NoCert, worldVars, batchVars
  <2> QED
    BY <1>1, <1>3, <2>1
<1>7. CASE Log(r)
  <2> DEFINE ev == [by |-> r, batch |-> NoBatch]
  <2>1. pc[r] = "log" /\ pc'[r] = "flush" /\ answer'[r] = answer[r] /\ UNCHANGED <<rows, certs>>
    BY <1>7, GotoMoves DEF Log, LogEvent
  <2>2. log \in Seq(Events) /\ ev \in Events /\ log' = Append(log, ev) /\ ev.by = r
    BY <1>7, <1>t DEF BatchIInv, BatchTyped, Events, NoBatch, Log, LogEvent
  <2> HIDE DEF ev
  <2>3. /\ DOMAIN log' = 1..(Len(log) + 1) /\ log'[Len(log) + 1] = ev /\ Len(log) \in Nat
    BY <2>2, AppendOne
  <2>4. Logged(r)'
    BY <2>2, <2>3 DEF Logged
  <2> QED
    BY <1>1, <1>3, <2>1, <2>4
<1>8. CASE Flush(r)
  <2>1. CASE UNCHANGED <<pc, answer>>
    <3>1. UNCHANGED certs /\ pc'[r] = pc[r] /\ answer'[r] = answer[r] /\ pc[r] = "flush"
      BY <1>8, <2>1 DEF Flush
    <3>2. rows'[r] # NoRow
      BY <3>1 DEF Kept
    <3> QED
      BY <1>1, <1>2, <1>3, <3>1, <3>2
  <2>2. CASE Answer(r, "flush", "error")
    BY <1>3, <2>2, AnswerMoves, DoneByNowNext
  <2> QED
    BY <1>8, <2>1, <2>2 DEF Flush
<1>9. CASE Reply(r)
  <2>1. /\ pc[r] = "flush" /\ pc'[r] = "done"
        /\ answer'[r] = "ok" => job[r].attested
    BY <1>9, AnswerMoves DEF Reply
  <2>2. Logged(r) /\ UNCHANGED <<rows, certs>>
    BY <1>9, <2>1 DEF Reply, OnlyMoves, worldVars, batchVars
  <2>3. ByTx(r)'
    BY <1>1, <1>2, <2>1, <2>2 DEF ByTx, Backed, chainVars
  <2> QED
    BY <2>1, <2>3, DoneByNowNext
<1> QED
  BY <1>4, <1>5, <1>6, <1>7, <1>8, <1>9

LEMMA OwnByNow ==
    ASSUME PipelineTyped, PipelineTyped', Kept, NEW r \in Requests, ByNow(r), ByTx(r), RequestStep(r)
    PROVE  ByNow(r)' /\ ByTx(r)'
BY QuietByNow, NoteByNow, SaveByNow, SendByNow, TableByNow DEF RequestStep

\* No transaction lands, and no certificate shows one that has not.
LEMMA OfAllKept ==
    ASSUME PipelineTyped, OfAll, Kept, UNCHANGED evidenceRoot,
           \A a \in Actions : CertSound(certs[a], a)',
           \A s \in Settlers : /\ CertSound(settle[s].cert, SettledAction)'
                               /\ settle'[s].at = "write" => certs'[SettledAction].exists
                                                             /\ settle'[s].cert.exists,
           \A q \in Requests : attestTx'[q] = "success" =>
                                  attestTx[q] = "success" /\ job'[q].nonce = job[q].nonce
    PROVE  OfAll'
<1>1. ASSUME NEW i \in Intents, NEW a \in Actions, evidenceRoot'[i][a] # NoRequest
      PROVE  attestTx'[evidenceRoot'[i][a]] = "success"
  <2>1. attestTx[evidenceRoot[i][a]] = "success"
    BY <1>1 DEF OfAll
  <2>2. evidenceRoot[i][a] \in Requests
    BY <1>1 DEF PipelineTyped, PipelineTypeOK
  <2> QED
    BY <2>1, <2>2 DEF Kept
<1>2. OneNonceOneAttestation'
  BY DEF OfAll, OneNonceOneAttestation
<1> QED
  BY <1>1, <1>2 DEF OfAll

LEMMA RequestStepIInv ==
    ASSUME PipelineIInv, NEW r \in Requests, RequestStep(r)
    PROVE  PipelineIInv'
<1>1. PipelineTyped /\ PipelineTyped' /\ OfAll /\ ByNow(r) /\ ByTx(r) /\ ActionOf[r] \in Actions
  BY RequestType, Constants DEF PipelineIInv
<1>2. pc[r] # "attest" \/ attestTx[r] = "none"
  BY <1>1 DEF ByNow, MaybeSent
<1>3. Kept /\ UNCHANGED <<chainVars, settle>> /\ Own(r)
  BY <1>1, <1>2, RequestKept, OwnStep
<1>4. \A q \in Requests : (ByNow(q) /\ ByTx(q))'
  <2>1. ByNow(r)' /\ ByTx(r)'
    BY <1>1, <1>3, OwnByNow
  <2>2. ASSUME NEW q \in Requests, q # r PROVE ByNow(q)' /\ ByTx(q)'
    BY <1>1, <1>3, <2>2, Framed DEF Own, PipelineIInv
  <2> QED
    BY <2>1, <2>2
<1>5. \A q \in Requests : attestTx'[q] = "success" =>
                             attestTx[q] = "success" /\ job'[q].nonce = job[q].nonce
  <2>1. attestTx'[r] = "success" => attestTx[r] = "success" /\ job'[r].nonce = job[r].nonce
    <3>t. /\ attestTx \in [Requests -> TxStates] /\ job \in [Requests -> Job] /\ job[r] \in Job
      BY <1>1 DEF PipelineTyped, PipelineTypeOK
    <3>1. CASE SendAttest(r)
      BY <3>1, <3>t DEF SendAttest
    <3>2. CASE Layer2(r) \/ Upload(r) \/ ReadNonce(r)
      <4>1. UNCHANGED attestTx /\ attestTx[r] = "none"
        BY <1>1, <3>2, GotoMoves, AnswerMoves
           DEF Layer2, Upload, ReadNonce, worldVars, txVars, ByNow, MaybeSent
      <4> QED
        BY <4>1
    <3>3. CASE SaveRow(r) \/ SaveCert(r)
      <4>1. UNCHANGED attestTx
        BY <3>3 DEF SaveRow, SaveCert, worldVars, txVars
      <4>2. job'[r] = [job[r] EXCEPT !.verifyTx = TRUE] \/ job'[r] = [job[r] EXCEPT !.attested = TRUE]
        BY <3>3, <3>t DEF SaveRow, SaveCert
      <4>3. job'[r].nonce = job[r].nonce
        BY <3>t, <4>2 DEF Job
      <4> QED
        BY <4>1, <4>3
    <3>4. CASE UNCHANGED <<job, attestTx>>
      BY <3>4
    <3>5. CASE \/ Precheck(r) \/ Bill(r) \/ ReadCredits(r) \/ AwaitDebit(r) \/ QueryFails(r)
               \/ CertFind(r) \/ AwaitAttest(r) \/ AttestFails(r) \/ Reply(r) \/ SendDebit(r)
               \/ Record(r) \/ CertUpdate(r) \/ CertCreate(r) \/ Log(r) \/ Flush(r)
      <4>1. UNCHANGED <<job, attestTx>>
        BY <3>5 DEF Precheck, Bill, ReadCredits, AwaitDebit, QueryFails, CertFind, AwaitAttest,
                    AttestFails, Reply, SendDebit, Record, CertUpdate, CertCreate, Log, Flush,
                    CheckPayer, OnlyMoves, worldVars, txVars
      <4> QED
        BY <3>4, <4>1
    <3> QED
      BY <3>1, <3>2, <3>3, <3>5 DEF RequestStep
  <2> QED
    BY <1>3, <2>1 DEF Own, Same
<1>6. \A a \in Actions : CertSound(certs[a], a)'
  <2>t. certs \in [Actions -> Certificate]
    BY <1>1 DEF PipelineTyped, PipelineTypeOK
  <2>0. ASSUME NEW a \in Actions, certs'[a] = certs[a] PROVE CertSound(certs[a], a)'
    BY <1>1, <1>3, <2>0 DEF OfAll, CertSound, Kept
  <2>1. CASE SaveCert(r)
    <3>1. attestTx[r] = "success" /\ UNCHANGED attestTx /\ certs' = [certs EXCEPT ![ActionOf[r]] = Payload(r, TRUE)]
      BY <1>1, <2>1, GotoMoves DEF SaveCert, ByNow, PutCert, worldVars, txVars
    <3> QED
      BY <1>1, <2>t, <2>0, <3>1 DEF CertSound, Payload
  <2>2. CASE CertUpdate(r) \/ CertCreate(r)
    <3>1. \A a \in Actions : certs'[a] = certs[a] \/ ~certs'[a].verified
      BY <1>1, <2>t, <2>2 DEF CertUpdate, CertCreate, PutCert, Payload, NoCert
    <3> QED
      BY <2>0, <3>1 DEF CertSound
  <2>3. CASE UNCHANGED certs
    BY <2>0, <2>3
  <2>4. SaveCert(r) \/ CertUpdate(r) \/ CertCreate(r) \/ UNCHANGED certs
    BY DEF RequestStep, OnlyMoves, CheckPayer, Precheck, Bill, ReadCredits, AwaitDebit,
           QueryFails, CertFind, AwaitAttest, AttestFails, Reply, Layer2, Upload, ReadNonce, SaveRow,
           SendDebit, SendAttest, Record, Log, Flush
  <2> QED
    BY <2>1, <2>2, <2>3, <2>4
<1>7. \A s \in Settlers : /\ CertSound(settle[s].cert, SettledAction)'
                          /\ settle'[s].at = "write" => certs'[SettledAction].exists
                                                        /\ settle'[s].cert.exists
  BY <1>1, <1>3, PipelineAssumption DEF OfAll, CertSound, Kept
<1>8. OfAll'
  BY <1>1, <1>3, <1>5, <1>6, <1>7, OfAllKept DEF chainVars
<1> QED
  BY <1>1, <1>4, <1>8 DEF PipelineIInv

\* Landing a debit.
LEMMA LandDebitIInv ==
    ASSUME PipelineIInv, NEW r \in Requests, LandDebit(r)
    PROVE  PipelineIInv'
<1>1. PipelineTyped /\ PipelineTyped' /\ OfAll
  BY NextTyped, NextCases DEF PipelineIInv, Lands
<1>2. /\ UNCHANGED <<pc, answer, job, certs, settle, attestTx, intents, intentNonce, evidenceRoot>>
      /\ UNCHANGED <<rows, log>> /\ debitTx[r] = "pending"
      /\ \A q \in Requests : q # r => debitTx'[q] = debitTx[q]
  BY <1>1 DEF LandDebit, apiVars, batchVars, gateVars, PipelineTyped, PipelineTypeOK
<1>3. Kept
  <2>1. \A i \in Intents : intentNonce[i] <= intentNonce[i]
    BY <1>1 DEF PipelineTyped, PipelineTypeOK
  <2>2. UNCHANGED rows /\ UNCHANGED log /\ UNCHANGED attestTx /\ UNCHANGED certs
        /\ UNCHANGED intents /\ UNCHANGED intentNonce
    BY <1>2
  <2>3. \A e \in DOMAIN log : e \in DOMAIN log' /\ log'[e].by = log[e].by
    BY <2>2
  <2> QED
    BY <2>1, <2>2, <2>3 DEF Kept
<1>4. ASSUME NEW q \in Requests PROVE (ByNow(q) /\ ByTx(q))'
  <2>1. ByNow(q) /\ ByTx(q)
    BY DEF PipelineIInv
  <2>2. CASE q # r
    <3>1. Same(q)
      BY <1>2, <2>2 DEF Same
    <3> QED
      BY <1>1, <1>3, <2>1, <3>1, Framed
  <2>3. CASE q = r
    <3>1. /\ pc[r] \notin AfterBill /\ attestTx[r] = "none" /\ Known(r)
      BY <1>2, <2>1, <2>3 DEF ByNow, ByTx, Backed
    <3>2. Known(r)' /\ (Logged(r) => Logged(r)')
      BY <1>2, <1>3, <3>1, LoggedKept DEF Known
    <3>3. ByTx(r)'
      BY <1>2, <2>1, <2>3, <3>1, <3>2 DEF ByTx
    <3>4. ByNow(r)'
      BY <1>2, <2>1, <2>3, <3>1, <3>2 DEF ByNow, AfterBill, AfterRecord
    <3> QED
      BY <2>3, <3>3, <3>4
  <2> QED
    BY <2>2, <2>3
<1>5. OfAll'
  <2>1. /\ \A a \in Actions : CertSound(certs[a], a)'
        /\ \A s \in Settlers : /\ CertSound(settle[s].cert, SettledAction)'
                               /\ settle'[s].at = "write" => certs'[SettledAction].exists
                                                             /\ settle'[s].cert.exists
    BY <1>1, <1>2 DEF OfAll, CertSound
  <2>2. \A q \in Requests : attestTx'[q] = "success" =>
                               attestTx[q] = "success" /\ job'[q].nonce = job[q].nonce
    BY <1>2
  <2> QED
    BY <1>1, <1>2, <1>3, <2>1, <2>2, OfAllKept
<1> QED
  BY <1>1, <1>4, <1>5 DEF PipelineIInv

\* Landing an attestation: the nonce it carries is the next one, so no other
\* landed at it.
LEMMA LandAttestIInv ==
    ASSUME PipelineIInv, NEW r \in Requests, LandAttest(r)
    PROVE  PipelineIInv'
<1> DEFINE i == IntentOf[r]
           a == ActionOf[r]
<1>1. /\ PipelineTyped /\ PipelineTyped' /\ OfAll /\ i \in Intents /\ a \in Actions
      /\ job[r] \in Job /\ intentNonce \in [Intents -> Nat] /\ attestTx \in [Requests -> TxStates]
      /\ evidenceRoot \in [Intents -> [Actions -> Requests \cup {NoRequest}]]
  BY NextTyped, NextCases, Constants DEF PipelineIInv, Lands, PipelineTyped, PipelineTypeOK
<1>2. /\ UNCHANGED <<pc, answer, job, certs, settle, debitTx, intents, rows, log>>
      /\ attestTx[r] = "pending"
      /\ \A q \in Requests : q # r => attestTx'[q] = attestTx[q]
  BY <1>1 DEF LandAttest, apiVars, batchVars, gateVars, Attest
<1>3. \/ /\ attestTx'[r] = "success" /\ job[r].nonce = intentNonce[i]
         /\ intentNonce' = [intentNonce EXCEPT ![i] = @ + 1]
         /\ evidenceRoot' = [evidenceRoot EXCEPT ![i][a] = r]
      \/ /\ attestTx'[r] = "reverted"
         /\ UNCHANGED <<intentNonce, evidenceRoot>>
  BY <1>1 DEF LandAttest, Recordable
<1>4. Kept
  <2>1. \A j \in Intents : intentNonce[j] <= intentNonce'[j]
    <3>1. \A n \in Nat : n <= n /\ n <= n + 1
      OBVIOUS
    <3>2. \A j \in Intents : intentNonce'[j] = intentNonce[j] \/ intentNonce'[j] = intentNonce[j] + 1
      BY <1>1, <1>3
    <3> QED
      BY <1>1, <3>1, <3>2
  <2>2. UNCHANGED rows /\ UNCHANGED log /\ UNCHANGED certs /\ UNCHANGED intents
    BY <1>2
  <2>3. \A e \in DOMAIN log : e \in DOMAIN log' /\ log'[e].by = log[e].by
    BY <2>2
  <2>4. \A q \in Requests : attestTx[q] = "success" => attestTx'[q] = "success"
    BY <1>2
  <2> QED
    BY <2>1, <2>2, <2>3, <2>4 DEF Kept
<1>5. ASSUME NEW q \in Requests PROVE (ByNow(q) /\ ByTx(q))'
  <2>1. ByNow(q) /\ ByTx(q)
    BY DEF PipelineIInv
  <2>2. CASE q # r
    <3>1. Same(q)
      BY <1>2, <2>2 DEF Same
    <3> QED
      BY <1>1, <1>4, <2>1, <3>1, Framed
  <2>3. CASE q = r
    <3>1. /\ pc[r] \in MaybeSent /\ pc[r] \notin {"saveRow", "saveCert"} /\ Backed(r) /\ ~job[r].attested
      BY <1>2, <2>1, <2>3 DEF ByNow, ByTx
    <3>2. Backed(r)' /\ (Logged(r) => Logged(r)') /\ (Known(r) => Known(r)')
      BY <1>2, <1>4, <3>1, LoggedKept DEF Backed, Known
    <3>3. attestTx'[r] = "success" => job'[r].nonce < intentNonce'[i]
      <4>1. \A n \in Nat : n < n + 1
        OBVIOUS
      <4>2. attestTx'[r] = "success" => intentNonce'[i] = job'[r].nonce + 1 /\ job'[r].nonce \in Nat
        BY <1>1, <1>2, <1>3
      <4> QED
        BY <4>1, <4>2
    <3>4. ByTx(r)'
      BY <1>2, <2>1, <2>3, <3>1, <3>2, <3>3 DEF ByTx
    <3>5. ByNow(r)'
      BY <1>2, <2>1, <2>3, <3>1, <3>2 DEF ByNow, MaybeSent
    <3> QED
      BY <2>3, <3>4, <3>5
  <2> QED
    BY <2>2, <2>3
<1>6. OfAll'
  <2>1. ASSUME NEW j \in Intents, NEW b \in Actions, evidenceRoot'[j][b] # NoRequest
        PROVE  attestTx'[evidenceRoot'[j][b]] = "success"
    <3>1. CASE evidenceRoot'[j][b] = evidenceRoot[j][b]
      <4>1. attestTx[evidenceRoot[j][b]] = "success" /\ evidenceRoot[j][b] \in Requests
        BY <1>1, <2>1, <3>1 DEF OfAll
      <4> QED
        BY <3>1, <4>1, <1>4 DEF Kept
    <3>2. CASE evidenceRoot'[j][b] # evidenceRoot[j][b]
      BY <1>1, <1>3, <3>2
    <3> QED
      BY <3>1, <3>2
  <2>2. /\ \A b \in Actions : CertSound(certs[b], b)'
        /\ \A s \in Settlers : /\ CertSound(settle[s].cert, SettledAction)'
                               /\ settle'[s].at = "write" => certs'[SettledAction].exists
                                                             /\ settle'[s].cert.exists
    BY <1>1, <1>2, <1>4 DEF OfAll, CertSound, Kept
  <2>3. OneNonceOneAttestation'
    <3>1. ASSUME NEW p \in Requests, NEW q \in Requests, p # q, IntentOf[p] = IntentOf[q],
                 attestTx'[p] = "success", attestTx'[q] = "success"
          PROVE  job'[p].nonce # job'[q].nonce
      <4>1. \A n, k \in Nat : n < k => n # k
        OBVIOUS
      <4>2. ASSUME NEW o \in Requests, o # r, IntentOf[o] = i, attestTx'[o] = "success"
            PROVE  job[o].nonce < intentNonce[i] /\ job[o].nonce \in Nat /\ intentNonce[i] \in Nat
        <5>1. attestTx[o] = "success" /\ ByTx(o) /\ job[o] \in Job
          BY <1>1, <1>2, <4>2, PipelineTypes DEF PipelineIInv
        <5> QED
          BY <1>1, <4>2, <5>1 DEF ByTx, Job
      <4>3. CASE p = r \/ q = r
        BY <1>2, <1>3, <3>1, <4>1, <4>2, <4>3
      <4>4. CASE p # r /\ q # r
        BY <1>1, <1>2, <3>1, <4>4 DEF OfAll, OneNonceOneAttestation
      <4> QED
        BY <4>3, <4>4
    <3> QED
      BY <3>1 DEF OneNonceOneAttestation
  <2> QED
    BY <2>1, <2>2, <2>3 DEF OfAll
<1> QED
  BY <1>1, <1>5, <1>6 DEF PipelineIInv

\* The chain without the requests' transactions: an intent is registered once,
\* a nonce only grows, and POST /attest replaces evidence roots by its own.
LEMMA ChainKept ==
    ASSUME PipelineTyped, ChainStep
    PROVE  /\ \A i \in Intents :
                 /\ intents[i].status # "NONE" => intents'[i].status # "NONE"
                                                  /\ intents'[i].principal = intents[i].principal
                 /\ intentNonce[i] <= intentNonce'[i]
           /\ \A i \in Intents, a \in Actions :
                 evidenceRoot'[i][a] = evidenceRoot[i][a] \/ evidenceRoot'[i][a] = NoRequest
<1> DEFINE P == /\ \A i \in Intents :
                      /\ intents[i].status # "NONE" => intents'[i].status # "NONE"
                                                       /\ intents'[i].principal = intents[i].principal
                      /\ intentNonce[i] <= intentNonce'[i]
                /\ \A i \in Intents, a \in Actions :
                      evidenceRoot'[i][a] = evidenceRoot[i][a] \/ evidenceRoot'[i][a] = NoRequest
<1>t. /\ intents \in [Intents -> GateIntents] /\ intentNonce \in [Intents -> Nat]
      /\ evidenceRoot \in [Intents -> [Actions -> Requests \cup {NoRequest}]]
      /\ \A n \in Nat : n <= n /\ n <= n + 1
  BY DEF PipelineTyped, PipelineTypeOK, GateTypeOK
<1>1. CASE ChainTick \/ \E p \in Principals : ChainWithdraw(p)
  BY <1>1, <1>t DEF ChainTick, Tick, ChainWithdraw, gateVars
<1>2. ASSUME NEW i \in Intents, NEW p \in Principals, NEW e \in Times, ChainRegister(i, p, e) PROVE P
  BY <1>2, <1>t DEF ChainRegister, Register
<1>3. ASSUME NEW i \in Intents, ChainInvalidate(i) PROVE P
  BY <1>3, <1>t DEF ChainInvalidate, Invalidate, GateIntents
<1>4. ASSUME NEW i \in Intents, NEW a \in Actions, NEW v \in Decisions, ChainAttest(i, a, v) PROVE P
  <2>1. UNCHANGED intents /\ \A j \in Intents : intentNonce'[j] = intentNonce[j]
                                                \/ intentNonce'[j] = intentNonce[j] + 1
    BY <1>4, <1>t DEF ChainAttest, Attest
  <2>2. \A j \in Intents, b \in Actions :
           evidenceRoot'[j][b] = evidenceRoot[j][b] \/ evidenceRoot'[j][b] = NoRequest
    BY <1>4, <1>t DEF ChainAttest
  <2> QED
    BY <1>t, <2>1, <2>2
<1> QED
  BY <1>1, <1>2, <1>3, <1>4 DEF ChainStep

LEMMA ChainStepIInv ==
    ASSUME PipelineIInv, ChainStep
    PROVE  PipelineIInv'
<1>1. /\ PipelineTyped /\ PipelineTyped' /\ OfAll
  BY NextTyped, NextCases DEF PipelineIInv
<1>2. UNCHANGED <<pc, answer, job, certs, settle, debitTx, attestTx, rows, log>>
  BY ChainQuiet DEF apiVars, txVars, batchVars
<1>3. Kept
  <2>1. UNCHANGED rows /\ UNCHANGED log /\ UNCHANGED certs /\ UNCHANGED attestTx
    BY <1>2
  <2>2. \A e \in DOMAIN log : e \in DOMAIN log' /\ log'[e].by = log[e].by
    BY <2>1
  <2> QED
    BY <1>1, <2>1, <2>2, ChainKept DEF Kept
<1>4. \A q \in Requests : (ByNow(q) /\ ByTx(q))'
  <2>1. \A q \in Requests : Same(q)
    BY <1>2 DEF Same
  <2> QED
    BY <1>1, <1>3, <2>1, Framed DEF PipelineIInv
<1>5. OfAll'
  <2>1. ASSUME NEW i \in Intents, NEW a \in Actions, evidenceRoot'[i][a] # NoRequest
        PROVE  attestTx'[evidenceRoot'[i][a]] = "success"
    <3>1. evidenceRoot'[i][a] = evidenceRoot[i][a]
      BY <1>1, <2>1, ChainKept
    <3> QED
      BY <1>1, <1>2, <2>1, <3>1 DEF OfAll
  <2> QED
    BY <1>1, <1>2, <2>1 DEF OfAll, CertSound, OneNonceOneAttestation
<1> QED
  BY <1>1, <1>4, <1>5 DEF PipelineIInv

LEMMA SettleStepIInv ==
    ASSUME PipelineIInv, NEW s \in Settlers, SettleStep(s)
    PROVE  PipelineIInv'
<1>1. /\ PipelineTyped /\ PipelineTyped' /\ OfAll /\ SettledAction \in Actions
      /\ certs \in [Actions -> Certificate] /\ certs[SettledAction] \in Certificate
      /\ settle \in [Settlers -> [at: {"row", "read", "write", "done"}, cert: Certificate]]
      /\ settle[s].cert \in Certificate
  BY SettleType, PipelineAssumption DEF PipelineIInv, PipelineTyped, PipelineTypeOK
<1>2. UNCHANGED <<pc, answer, job, debitTx, attestTx, rows, log, intents, intentNonce, evidenceRoot>>
  BY DEF SettleStep, SettleRow, SettleRead, SettleWrite, settleQuiet, worldVars, chainVars, txVars, batchVars
<1>3. /\ \A a \in Actions : certs[a].exists => certs'[a].exists
      /\ \A a \in Actions : CertSound(certs'[a], a)
      /\ \A t \in Settlers : /\ CertSound(settle'[t].cert, SettledAction)
                             /\ settle'[t].at = "write" => certs'[SettledAction].exists
                                                           /\ settle'[t].cert.exists
  <2>0. CertSound(NoCert, SettledAction)
    BY DEF CertSound, NoCert
  <2>1. CASE SettleRow(s)
    BY <1>1, <2>0, <2>1 DEF SettleRow, SettleGoto, OfAll
  <2>2. CASE SettleRead(s)
    BY <1>1, <2>0, <2>2 DEF SettleRead, SettleGoto, OfAll
  <2>3. CASE SettleWrite(s)
    <3>1. /\ settle[s].cert.exists
          /\ CertSound(settle[s].cert, SettledAction)
          /\ settle' = [settle EXCEPT ![s] = [at |-> "done", cert |-> NoCert]]
          /\ certs' = [certs EXCEPT ![SettledAction] = [settle[s].cert EXCEPT !.settled = TRUE]]
      BY <1>1, <2>3 DEF SettleWrite, SettleGoto, PutCert, OfAll
    <3>2. LET c == [settle[s].cert EXCEPT !.settled = TRUE] IN
             c.exists /\ CertSound(c, SettledAction)
      BY <1>1, <3>1 DEF CertSound, Certificate
    <3> HIDE DEF CertSound
    <3> QED
      BY <1>1, <2>0, <3>1, <3>2 DEF OfAll
  <2> QED
    BY <2>1, <2>2, <2>3 DEF SettleStep
<1>4. Kept
  <2>1. \A i \in Intents : intentNonce[i] <= intentNonce[i]
    BY <1>1 DEF PipelineTyped, PipelineTypeOK
  <2>2. UNCHANGED rows /\ UNCHANGED log /\ UNCHANGED attestTx /\ UNCHANGED intents /\ UNCHANGED intentNonce
    BY <1>2
  <2>3. \A e \in DOMAIN log : e \in DOMAIN log' /\ log'[e].by = log[e].by
    BY <2>2
  <2> QED
    BY <1>3, <2>1, <2>2, <2>3 DEF Kept
<1>5. \A q \in Requests : (ByNow(q) /\ ByTx(q))'
  <2>1. \A q \in Requests : Same(q)
    BY <1>2 DEF Same
  <2> QED
    BY <1>1, <1>4, <2>1, Framed DEF PipelineIInv
<1>6. OfAll'
  <2>1. /\ \A a \in Actions : CertSound(certs[a], a)'
        /\ \A t \in Settlers : /\ CertSound(settle[t].cert, SettledAction)'
                               /\ settle'[t].at = "write" => certs'[SettledAction].exists
                                                             /\ settle'[t].cert.exists
    BY <1>2, <1>3 DEF CertSound
  <2>2. \A q \in Requests : attestTx'[q] = "success" =>
                               attestTx[q] = "success" /\ job'[q].nonce = job[q].nonce
    BY <1>2
  <2> QED
    BY <1>1, <1>2, <1>4, <2>1, <2>2, OfAllKept
<1> QED
  BY <1>1, <1>5, <1>6 DEF PipelineIInv

\* A crash moves handlers to "done": what they sent and saved stays.
LEMMA CrashIInv ==
    ASSUME PipelineIInv, Crash
    PROVE  PipelineIInv'
<1>1. PipelineTyped /\ PipelineTyped' /\ OfAll
  BY CrashType DEF PipelineIInv
<1>2. UNCHANGED <<job, certs, debitTx, attestTx, rows, log, intents, intentNonce, evidenceRoot>>
  BY DEF Crash, chainVars, txVars
<1>3. Kept
  <2>1. \A i \in Intents : intentNonce[i] <= intentNonce[i]
    BY <1>1 DEF PipelineTyped, PipelineTypeOK
  <2>2. /\ UNCHANGED rows /\ UNCHANGED log /\ UNCHANGED attestTx /\ UNCHANGED intents
        /\ UNCHANGED intentNonce /\ UNCHANGED certs
    BY <1>2
  <2>3. \A e \in DOMAIN log : e \in DOMAIN log' /\ log'[e].by = log[e].by
    BY <2>2
  <2> QED
    BY <2>1, <2>2, <2>3 DEF Kept
<1>4. ASSUME NEW q \in Requests PROVE (ByNow(q) /\ ByTx(q))'
  <2>1. ByNow(q) /\ ByTx(q)
    BY DEF PipelineIInv
  <2>2. CASE pc'[q] = pc[q] /\ answer'[q] = answer[q]
    <3>1. Same(q)
      BY <1>2, <2>2 DEF Same
    <3> QED
      BY <1>1, <1>3, <2>1, <3>1, Framed
  <2>3. CASE pc'[q] = "done" /\ answer'[q] = "crashed"
    <3>1. (Known(q) => Known(q)') /\ (Backed(q) => Backed(q)')
      BY <1>2 DEF Known, Backed
    <3>2. ByTx(q)'
      BY <1>2, <2>1, <2>3, <3>1 DEF ByTx
    <3> QED
      BY <2>3, <3>2, DoneByNowNext
  <2> QED
    BY <2>2, <2>3 DEF Crash
<1>5. OfAll'
  <2>1. \A s \in Settlers : /\ settle'[s].cert = settle[s].cert \/ settle'[s].cert = NoCert
                            /\ settle'[s].at # "write"
    BY DEF Crash
  <2>2. \A s \in Settlers : CertSound(settle[s].cert, SettledAction)'
    BY <1>1, <1>2, <2>1 DEF OfAll, CertSound, NoCert
  <2>3. /\ \A a \in Actions : CertSound(certs[a], a)'
    BY <1>1, <1>2 DEF OfAll, CertSound
  <2>4. \A q \in Requests : attestTx'[q] = "success" =>
                               attestTx[q] = "success" /\ job'[q].nonce = job[q].nonce
    BY <1>2
  <2> QED
    BY <1>1, <1>2, <1>3, <2>1, <2>2, <2>3, <2>4, OfAllKept
<1> QED
  BY <1>1, <1>4, <1>5 DEF PipelineIInv

LEMMA PipelineInitIInv == PipelineInit => PipelineIInv
<1> SUFFICES ASSUME PipelineInit PROVE PipelineIInv
  OBVIOUS
<1>1. PipelineTyped
  BY PipelineInitTyped
<1>2. ASSUME NEW r \in Requests PROVE ByNow(r) /\ ByTx(r)
  <2>1. PICK payer \in [Requests -> Principals] : job = [q \in Requests |-> NewJob(payer[q])]
    BY DEF PipelineInit
  <2>2. /\ pc[r] = "precheck" /\ answer[r] = "none" /\ debitTx[r] = "none" /\ attestTx[r] = "none"
        /\ ~job[r].attested
    BY <2>1 DEF PipelineInit, NewJob
  <2>3. ByNow(r)
    BY <2>2 DEF ByNow, AfterUpload, AfterBill, AfterRecord, AfterCert, MaybeSent
  <2> QED
    BY <2>2, <2>3 DEF ByTx
<1>3. OfAll
  <2>1. \A i \in Intents, a \in Actions : evidenceRoot[i][a] = NoRequest
    BY DEF PipelineInit
  <2>2. \A a \in Actions : ~certs[a].verified
    BY DEF PipelineInit, NoCert
  <2>3. \A s \in Settlers : settle[s].at # "write" /\ ~settle[s].cert.verified
    BY DEF PipelineInit, NoCert
  <2>4. \A r \in Requests : attestTx[r] # "success"
    BY DEF PipelineInit
  <2> QED
    BY <2>1, <2>2, <2>3, <2>4 DEF OfAll, CertSound, OneNonceOneAttestation
<1> QED
  BY <1>1, <1>2, <1>3 DEF PipelineIInv

LEMMA PipelineStutter ==
    ASSUME PipelineIInv, UNCHANGED pipelineVars
    PROVE  PipelineIInv'
<1>1. /\ UNCHANGED <<pc, answer, job, certs, settle, debitTx, attestTx, rows, log, batches, flush>>
      /\ UNCHANGED <<now, intents, verifications, credits, intentNonce, evidenceRoot>>
  BY DEF pipelineVars, apiVars, worldVars, chainVars, txVars, batchVars
<1>2. PipelineTyped'
  <2>1. BatchIInv'
    BY <1>1, BatchStays DEF batchVars, PipelineIInv, PipelineTyped
  <2>2. UNCHANGED <<settle, chainVars>>
    BY <1>1 DEF chainVars
  <2> QED
    BY <1>1, <2>1, <2>2, StepTyped, TypedParts DEF PipelineIInv, HandlersTyped, ChainTyped
<1>3. \A q \in Requests : (ByNow(q) /\ ByTx(q))'
  BY <1>1 DEF PipelineIInv, ByNow, ByTx, Known, Backed, Logged
<1>4. OfAll'
  BY <1>1 DEF PipelineIInv, OfAll, CertSound, OneNonceOneAttestation
<1> QED
  BY <1>2, <1>3, <1>4 DEF PipelineIInv

LEMMA PipelineInvariant == PipelineSpec => []PipelineIInv
<1>1. ASSUME PipelineIInv, PipelineNext PROVE PipelineIInv'
  <2>1. CASE Lands
    BY <1>1, <2>1, LandDebitIInv, LandAttestIInv DEF Lands
  <2> QED
    BY <1>1, <2>1, ChainStepIInv, RequestStepIInv, SettleStepIInv, CrashIInv, NextCases
<1>2. PipelineIInv /\ [PipelineNext]_pipelineVars => PipelineIInv'
  BY <1>1, PipelineStutter
<1> QED
  BY <1>2, PipelineInitIInv, PTL DEF PipelineSpec

-----------------------------------------------------------------------------

\* What runVerification, its transactions and its tables hold is well-typed.
THEOREM PipelineTypeCorrect == PipelineSpec => []PipelineTypeOK
<1>1. PipelineIInv => PipelineTypeOK
  BY DEF PipelineIInv, PipelineTyped
<1> QED
  BY <1>1, PipelineInvariant, PTL

\* pipeline.ts: recordAttestation sends, and the registry accepts, only what
\* was paid for and whose evidence, row and certificate exist.
THEOREM AttestationsAreBacked == PipelineSpec => []AttestationBacked
<1>1. ASSUME PipelineIInv PROVE AttestationBacked
  <2>1. ASSUME NEW r \in Requests, attestTx[r] # "none" PROVE Backed(r)
    BY <1>1, <2>1 DEF PipelineIInv, ByTx
  <2>2. ASSUME NEW r \in Requests, evidenceRoot[IntentOf[r]][ActionOf[r]] = r
        PROVE  attestTx[r] = "success"
    <3>1. IntentOf[r] \in Intents /\ ActionOf[r] \in Actions /\ r # NoRequest
      BY Constants
    <3> QED
      BY <1>1, <2>2, <3>1 DEF PipelineIInv, OfAll
  <2> QED
    BY <2>1, <2>2 DEF AttestationBacked, Backed
<1> QED
  BY <1>1, PipelineInvariant, PTL

\* assertPayerIsRegisteredPrincipal and debitMeter: whoever paid registered
\* the intent, though the check is awaited long before the debit lands.
THEOREM PrincipalsPay == PipelineSpec => []ChargedIsPrincipal
<1>1. PipelineIInv => ChargedIsPrincipal
  BY DEF PipelineIInv, ByTx, Known, ChargedIsPrincipal
<1> QED
  BY <1>1, PipelineInvariant, PTL

\* runVerification: an answer that reports an attestation is true.
THEOREM AnswersAreTrue == PipelineSpec => []OkMeansAttested
<1>1. PipelineIInv => OkMeansAttested
  BY DEF PipelineIInv, ByTx, Backed, Logged, OkMeansAttested
<1> QED
  BY <1>1, PipelineInvariant, PTL

\* recordAttestation and IntentRegistry.intentNonce: of the requests that sign
\* at one nonce of an intent, one lands.
THEOREM NoncesAreUsedOnce == PipelineSpec => []OneNonceOneAttestation
<1>1. PipelineIInv => OneNonceOneAttestation
  BY DEF PipelineIInv, OfAll
<1> QED
  BY <1>1, PipelineInvariant, PTL

\* upsertCertificate, the attest block and POST /settle: however they overwrite
\* each other's payload, a shown transaction is that of the shown verdict.
THEOREM CertificatesAreConsistent == PipelineSpec => []CertConsistent
<1>1. ASSUME PipelineIInv PROVE CertConsistent
  <2>1. \A a \in Actions : certs[a].verified =>
           certs[a].by \in Requests /\ attestTx[certs[a].by] = "success" /\ ActionOf[certs[a].by] = a
    BY <1>1 DEF PipelineIInv, OfAll, CertSound
  <2> QED
    BY <2>1, Constants DEF CertConsistent
<1> QED
  BY <1>1, PipelineInvariant, PTL
=============================================================================
