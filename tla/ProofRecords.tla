----------------------------- MODULE ProofRecords -----------------------------
(***************************************************************************)
(* What the server records of one action, and what /proof/:hash shows: the *)
(* Verification rows and the certificate that verifies of the action write, *)
(* POST /settle, POST /reputation, GET /proof and GET /certificate, and the *)
(* page that loads both and lets its visitor give feedback.  A failed      *)
(* attestation leaves its row behind, and the verify is run again, so an   *)
(* action has several rows.  VerifyPipeline has the rest of a verify, and  *)
(* the writes of its certificate one by one.                               *)
(***************************************************************************)
EXTENDS Naturals, Sequences, SequencesExt

CONSTANTS Verifies,  \* verify requests of the action
          Settlers,  \* POST /settle callers
          Viewers,   \* proof pages
          Decisions  \* bound: the verdicts a verify may reach

VARIABLES
    rows,      \* Verification rows of the action, in the order of their ids' insertion
    cert,      \* the action's CertificateRow
    verify,    \* per verify request: where it is, its verdict and its transaction
    anchored,  \* the verification the registry holds for the action
    settle,    \* per POST /settle: where it is, and the payload it read
    page       \* per page: what it loaded and the feedback it sent

recordVars == <<rows, cert, verify, anchored, settle, page>>

None == "none"
(* What the constants must be. *)
RecordsConstants == Decisions \subseteq {"APPROVE", "REJECT", "CHALLENGE"}
TxStates == {"none", "pending", "success", "reverted"}
NoCert == [exists |-> FALSE, by |-> None, verifyTx |-> FALSE, settleTx |-> FALSE]
NoProof == [by |-> None, verifyTx |-> FALSE, settleTx |-> FALSE, reputationTx |-> FALSE]
Closed == [at |-> "closed", proof |-> NoProof, cert |-> NoCert, settled |-> FALSE, rated |-> FALSE, feedback |-> "none"]

RecordsInit ==
    /\ rows = <<>> /\ cert = NoCert /\ anchored = None
    /\ verify = [v \in Verifies |-> [at |-> "start", verdict |-> None, tx |-> "none"]]
    /\ settle = [s \in Settlers |-> [at |-> "row", cert |-> NoCert]]
    /\ page = [p \in Viewers |-> Closed]

(* A faulty variant, for mutation runs: the newest row. *)
FindFirstLatest == Len(rows)
(* prisma.verification.findFirst by actionHash, in the order of the table. *)
FindFirst == 1
RowOf(v) == CHOOSE k \in DOMAIN rows : rows[k].by = v

-----------------------------------------------------------------------------
(* runVerification, from its row on. *)

Moves(v, from, to) == verify[v].at = from /\ verify' = [verify EXCEPT ![v].at = to]

CreateRow(v) ==
    /\ verify[v].at = "start"
    /\ \E verdict \in Decisions : verify' = [verify EXCEPT ![v].at = "cert", ![v].verdict = verdict]
    /\ rows' = Append(rows, [NoProof EXCEPT !.by = v])
    /\ UNCHANGED <<cert, anchored, settle, page>>

UpsertCertificate(v) ==
    /\ Moves(v, "cert", "attest")
    /\ cert' = [NoCert EXCEPT !.exists = TRUE, !.by = v]
    /\ UNCHANGED <<rows, anchored, settle, page>>

SendAttest(v) ==
    /\ verify[v].at = "attest"
    /\ verify' = [verify EXCEPT ![v].at = "wait", ![v].tx = "pending"]
    /\ UNCHANGED <<rows, cert, anchored, settle, page>>

(* The registry takes the attestation or refuses it, at any later time. *)
AttestLands(v) ==
    /\ verify[v].tx = "pending"
    /\ \/ verify' = [verify EXCEPT ![v].tx = "success"] /\ anchored' = v
       \/ verify' = [verify EXCEPT ![v].tx = "reverted"] /\ UNCHANGED anchored
    /\ UNCHANGED <<rows, cert, settle, page>>

SaveVerifyTx(v) ==
    /\ verify[v].tx = "success" /\ Moves(v, "wait", "save")
    /\ rows' = [rows EXCEPT ![RowOf(v)].verifyTx = TRUE]
    /\ UNCHANGED <<cert, anchored, settle, page>>

(* The payload of its own upsert, with the transaction. *)
SaveCertificate(v) ==
    /\ Moves(v, "save", "done")
    /\ cert' = [exists |-> TRUE, by |-> v, verifyTx |-> TRUE, settleTx |-> FALSE]
    /\ UNCHANGED <<rows, anchored, settle, page>>

(* The attestation cannot be sent, reverts, is not seen in time, or a save
   fails: the verify answers without it. *)
AttestFails(v) ==
    /\ \E at \in {"attest", "wait", "save"} : Moves(v, at, "done")
    /\ UNCHANGED <<rows, cert, anchored, settle, page>>

-----------------------------------------------------------------------------
(* POST /settle and POST /reputation. *)

SettleRow(s) ==
    /\ settle[s].at = "row" /\ rows # <<>>
    /\ rows' = [rows EXCEPT ![FindFirst].settleTx = TRUE]
    /\ settle' = [settle EXCEPT ![s].at = "read"]
    /\ UNCHANGED <<cert, verify, anchored, page>>

SettleRead(s) ==
    /\ settle[s].at = "read"
    /\ settle' = [settle EXCEPT ![s] = IF cert.exists THEN [at |-> "write", cert |-> cert]
                                       ELSE [at |-> "done", cert |-> NoCert]]
    /\ UNCHANGED <<rows, cert, verify, anchored, page>>

SettleWrite(s) ==
    /\ settle[s].at = "write"
    /\ cert' = [settle[s].cert EXCEPT !.settleTx = TRUE]
    /\ settle' = [settle EXCEPT ![s] = [at |-> "done", cert |-> NoCert]]
    /\ UNCHANGED <<rows, verify, anchored, page>>

Settled == \E s \in Settlers : settle[s].at = "done"
Rated == \E p \in Viewers : page[p].feedback = "recorded"

-----------------------------------------------------------------------------
(* The proof page. *)

OnPage == UNCHANGED <<rows, cert, verify, anchored, settle>>

Open(p) ==
    /\ page[p].at \in {"closed", "shown"}
    /\ page' = [page EXCEPT ![p] = [Closed EXCEPT !.at = "loading", !.settled = Settled, !.rated = Rated]]
    /\ OnPage

(* GET /proof/:actionHash *)
LoadProof(p) ==
    /\ page[p].at \in {"loading", "certLoaded"} /\ rows # <<>>
    /\ page' = [page EXCEPT ![p].proof = rows[FindFirst],
                            ![p].at = IF page[p].at = "loading" THEN "proofLoaded" ELSE "shown"]
    /\ OnPage

(* GET /certificate/action/:actionHash; a certificate that is not there, or
   not filled in yet, shows nothing *)
LoadCertificate(p) ==
    /\ page[p].at \in {"loading", "proofLoaded"}
    /\ page' = [page EXCEPT ![p].cert = cert,
                            ![p].at = IF page[p].at = "loading" THEN "certLoaded" ELSE "shown"]
    /\ OnPage

NotFound(p) == page[p].at \in {"loading", "certLoaded"} /\ rows = <<>> /\ page' = [page EXCEPT ![p] = Closed] /\ OnPage

GiveFeedback(p) ==
    /\ page[p].at = "shown" /\ page[p].feedback = "none"
    /\ page' = [page EXCEPT ![p].feedback = "pending"]
    /\ OnPage

FeedbackLands(p) ==
    /\ page[p].feedback = "pending"
    /\ \E tx \in {"success", "reverted"} : page' = [page EXCEPT ![p].feedback = tx]
    /\ OnPage

(* The receipt is a success, and the server is told; it may not hear. *)
RecordReputation(p) ==
    /\ page[p].feedback = "success"
    /\ \/ /\ page' = [page EXCEPT ![p].feedback = "recorded"]
          /\ rows' = [rows EXCEPT ![FindFirst].reputationTx = TRUE]
       \/ page' = [page EXCEPT ![p].feedback = "unrecorded"] /\ UNCHANGED rows
    /\ UNCHANGED <<cert, verify, anchored, settle>>

RecordsNext ==
    \/ \E v \in Verifies :
        \/ CreateRow(v) \/ UpsertCertificate(v) \/ SendAttest(v) \/ AttestLands(v)
        \/ SaveVerifyTx(v) \/ SaveCertificate(v) \/ AttestFails(v)
    \/ \E s \in Settlers : SettleRow(s) \/ SettleRead(s) \/ SettleWrite(s)
    \/ \E p \in Viewers :
        \/ Open(p) \/ LoadProof(p) \/ LoadCertificate(p) \/ NotFound(p)
        \/ GiveFeedback(p) \/ FeedbackLands(p) \/ RecordReputation(p)
RecordsSpec == RecordsInit /\ [][RecordsNext]_recordVars

-----------------------------------------------------------------------------
Shown(p) == page[p].at = "shown"
ShownVerdict(p) == verify[IF page[p].cert.exists THEN page[p].cert.by ELSE page[p].proof.by].verdict

(* Types; every verify that got so far has one row. *)
RecordsTypeOK ==
    /\ IsInjective([k \in DOMAIN rows |-> rows[k].by])
    /\ \A v \in Verifies : /\ verify[v].at \in {"start", "cert", "attest", "wait", "save", "done"}
                           /\ verify[v].tx \in TxStates /\ verify[v].verdict \in Decisions \cup {None}
                           /\ (verify[v].at # "start" <=> \E k \in DOMAIN rows : rows[k].by = v)
    /\ cert.by \in Verifies \cup {None} /\ anchored \in Verifies \cup {None}
    /\ \A s \in Settlers : settle[s].at \in {"row", "read", "write", "done"}
    /\ \A p \in Viewers : page[p].at \in {"closed", "loading", "proofLoaded", "certLoaded", "shown"}

RecordedIsShown ==
    \A p \in Viewers : Shown(p) =>
        /\ page[p].settled => page[p].proof.settleTx
        /\ page[p].rated => page[p].proof.reputationTx
ShownTxAttests ==
    \A p \in Viewers : Shown(p) =>
        /\ page[p].proof.verifyTx => verify[page[p].proof.by].tx = "success"
        /\ page[p].cert.verifyTx => verify[page[p].cert.by].tx = "success"

(* A proof page shows what happened.  A settlement or feedback the server has
   answered for is on every page opened afterwards, though verifies of the
   same action overwrite the certificate the settlement was written into; and
   an attestation transaction that a page shows attested the evidence it
   shows, also when a settlement wrote the certificate back late. *)
ProofPageTrue == RecordedIsShown /\ ShownTxAttests

(* Stated by docs/threat-model.md:27: the evidence root is anchored on chain
   and the proof page compares it.  The evidence a page shows of an action
   with an attestation is the attested one. *)
Idle == \A v \in Verifies : verify[v].at \in {"start", "done"} /\ verify[v].tx # "pending"
ProofIsAnchored ==
    \A p \in Viewers : Shown(p) /\ Idle /\ anchored # None => verify[page[p].proof.by].tx = "success"

(* Stated by the page (CertificatePage.tsx:155) of a certificate that says
   APPROVE: this stamp can settle. *)
StampCanSettle ==
    \A p \in Viewers : Shown(p) /\ Idle /\ ShownVerdict(p) = "APPROVE" =>
        anchored # None /\ verify[anchored].verdict = "APPROVE"
=============================================================================
