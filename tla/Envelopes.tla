------------------------------- MODULE Envelopes -------------------------------
(***************************************************************************)
(* POST /compile from the nonce it reads to the row it saves, the copy of  *)
(* the envelope it uploads to 0G Storage, the registration the client then *)
(* signs, and GET /envelope, which fetches the copy and hashes it again.   *)
(* Compiles run side by side, the upload outlives the wait for it, and the *)
(* server may restart between any two steps.                               *)
(*                                                                         *)
(* An envelope is a record of what the properties tell apart: the compile  *)
(* it comes from (its uuid and its terms), its nonce, whether it has the   *)
(* playbook's steps, and its status.  hashCanonical is free of collisions: *)
(* the hash of an envelope is the envelope, without its integrity field.   *)
(***************************************************************************)
EXTENDS Naturals, FiniteSets

CONSTANTS Compiles,    \* compile requests
          Principals,  \* wallets
          Readers,     \* GET /envelope callers
          Restarts,    \* bound: restarts of the server
          None

VARIABLES
    compile,     \* per request: where it is, what it has in hand
    rows,        \* per request: the Intent row it saved
    uploading,   \* envelopes the storage network is still taking in
    storage,     \* envelopes it holds; the root of an upload is the envelope
    nonces,      \* principalNonce of IntentRegistry
    registered,  \* intent hashes the registry holds
    fetch,       \* per caller: where it is, and the answer
    restarts

envelopeVars == <<compile, rows, uploading, storage, nonces, registered, fetch, restarts>>

(* What the constants must be. *)
Envelopes == [of : Compiles, nonce : 0 .. Cardinality(Compiles), steps : BOOLEAN, status : {"DRAFT", "ACTIVE"}]
EnvelopesConstants == IsFiniteSet(Compiles) /\ None \notin Envelopes /\ Restarts \in Nat
NoRow == [exists |-> FALSE, hash |-> None, root |-> None]
Fresh(p) == [at |-> "start", principal |-> p, playbook |-> FALSE, nonce |-> 0, envelope |-> None, hash |-> None, root |-> None]
NoFetch == [at |-> "start", row |-> NoRow, payload |-> None]

EnvelopesInit ==
    /\ compile \in [Compiles -> {Fresh(p) : p \in Principals}]
    /\ rows = [c \in Compiles |-> NoRow]
    /\ uploading = {} /\ storage = {} /\ registered = {}
    /\ nonces = [p \in Principals |-> 0]
    /\ fetch = [r \in Readers |-> NoFetch]
    /\ restarts = 0

-----------------------------------------------------------------------------
(* POST /compile *)

Running(c) == compile[c].at \in {"model", "pin", "uploading", "save"}
Goes(c, to) == compile' = [compile EXCEPT ![c].at = to]

ReadNonce(c) ==
    /\ compile[c].at = "start"
    /\ \E playbook \in BOOLEAN :
        compile' = [compile EXCEPT ![c].at = "model", ![c].playbook = playbook, ![c].nonce = nonces[compile[c].principal]]
    /\ UNCHANGED <<rows, uploading, storage, nonces, registered, fetch, restarts>>

(* The model answers.  The hash is taken of the draft, and the envelope then
   gets its status. *)
CompileIntent(c) ==
    /\ compile[c].at = "model"
    /\ \E challenge \in BOOLEAN :
        LET draft == [of |-> c, nonce |-> compile[c].nonce, steps |-> compile[c].playbook, status |-> "DRAFT"]
        IN  compile' = [compile EXCEPT ![c].at = "pin", ![c].hash = draft,
                                       ![c].envelope = [draft EXCEPT !.status = IF challenge THEN "DRAFT" ELSE "ACTIVE"]]
    /\ UNCHANGED <<rows, uploading, storage, nonces, registered, fetch, restarts>>

(* uploadJson of the envelope as it now is; the network may refuse the
   transaction, or take the data in later. *)
Upload(c) ==
    /\ compile[c].at = "pin"
    /\ Goes(c, "uploading")
    /\ \/ uploading' = uploading \cup {compile[c].envelope}
       \/ UNCHANGED uploading
    /\ UNCHANGED <<rows, storage, nonces, registered, fetch, restarts>>

UploadAnswers(c) ==
    /\ compile[c].at = "uploading" /\ compile[c].envelope \in storage
    /\ compile' = [compile EXCEPT ![c].at = "save", ![c].root = compile[c].envelope]
    /\ UNCHANGED <<rows, uploading, storage, nonces, registered, fetch, restarts>>

(* A faulty variant, for mutation runs: the compile waits as long as the
   network does. *)
WaitForStorage(c) == FALSE

(* The upload throws, or its time is up: only a warning. *)
UploadFails(c) ==
    /\ compile[c].at = "uploading"
    /\ Goes(c, "save")
    /\ UNCHANGED <<rows, uploading, storage, nonces, registered, fetch, restarts>>

(* A faulty variant, for mutation runs: without a copy, no row. *)
SaveUploaded(c) ==
    /\ compile[c].at = "save"
    /\ Goes(c, "answered")
    /\ rows' = IF compile[c].root = None THEN rows
               ELSE [rows EXCEPT ![c] = [exists |-> TRUE, hash |-> compile[c].hash, root |-> compile[c].root]]
    /\ UNCHANGED <<uploading, storage, nonces, registered, fetch, restarts>>

SaveIntent(c) ==
    /\ compile[c].at = "save"
    /\ Goes(c, "answered")
    /\ rows' = [rows EXCEPT ![c] = [exists |-> TRUE, hash |-> compile[c].hash, root |-> compile[c].root]]
    /\ UNCHANGED <<uploading, storage, nonces, registered, fetch, restarts>>

(* A request that is refused, or that any of its calls fails. *)
CompileFails(c) ==
    /\ compile[c].at \in {"start", "model", "save"}
    /\ Goes(c, "failed")
    /\ UNCHANGED <<rows, uploading, storage, nonces, registered, fetch, restarts>>

Restart ==
    /\ restarts < Restarts /\ restarts' = restarts + 1
    /\ compile' = [c \in Compiles |-> IF Running(c) THEN [compile[c] EXCEPT !.at = "failed"] ELSE compile[c]]
    /\ fetch' = [r \in Readers |-> IF fetch[r].at = "download" THEN [NoFetch EXCEPT !.at = "failed"] ELSE fetch[r]]
    /\ UNCHANGED <<rows, uploading, storage, nonces, registered>>

-----------------------------------------------------------------------------
(* The storage network and the registry. *)

StoreLands(e) ==
    /\ e \in uploading
    /\ uploading' = uploading \ {e} /\ storage' = storage \cup {e}
    /\ UNCHANGED <<compile, rows, nonces, registered, fetch, restarts>>

(* The client signs the payload it was answered, and the registry takes it at
   the principal's nonce. *)
Register(c) ==
    /\ compile[c].at = "answered"
    /\ compile[c].hash \notin registered /\ compile[c].envelope.nonce = nonces[compile[c].principal]
    /\ registered' = registered \cup {compile[c].hash}
    /\ nonces' = [nonces EXCEPT ![compile[c].principal] = @ + 1]
    /\ UNCHANGED <<compile, rows, uploading, storage, fetch, restarts>>

-----------------------------------------------------------------------------
(* GET /envelope/:intentId *)

ReadRow(r) ==
    /\ fetch[r].at = "start"
    /\ \E c \in Compiles : fetch' = [fetch EXCEPT ![r] =
            IF rows[c].root = None THEN [NoFetch EXCEPT !.at = "missing"] ELSE [at |-> "download", row |-> rows[c], payload |-> None]]
    /\ UNCHANGED <<compile, rows, uploading, storage, nonces, registered, restarts>>

Download(r) ==
    /\ fetch[r].at = "download" /\ fetch[r].row.root \in storage
    /\ fetch' = [fetch EXCEPT ![r].at = "answered", ![r].payload = fetch[r].row.root]
    /\ UNCHANGED <<compile, rows, uploading, storage, nonces, registered, restarts>>

DownloadFails(r) ==
    /\ fetch[r].at = "download"
    /\ fetch' = [fetch EXCEPT ![r] = [NoFetch EXCEPT !.at = "failed"]]
    /\ UNCHANGED <<compile, rows, uploading, storage, nonces, registered, restarts>>

Matches(r) == fetch[r].payload = fetch[r].row.hash

Handles(c) == ReadNonce(c) \/ CompileIntent(c) \/ Upload(c) \/ UploadAnswers(c) \/ UploadFails(c) \/ SaveIntent(c) \/ CompileFails(c)
EnvelopesNext ==
    \/ \E c \in Compiles : Handles(c) \/ Register(c)
    \/ \E e \in uploading : StoreLands(e)
    \/ \E r \in Readers : ReadRow(r) \/ Download(r) \/ DownloadFails(r)
    \/ Restart
EnvelopesSpec == EnvelopesInit /\ [][EnvelopesNext]_envelopeVars
(* The server takes a request's next step; the storage network owes nothing. *)
FairEnvelopesSpec == EnvelopesSpec /\ \A c \in Compiles : WF_envelopeVars(Running(c) /\ Handles(c))

-----------------------------------------------------------------------------
EnvelopesTypeOK ==
    /\ \A c \in Compiles :
        /\ compile[c].at \in {"start", "model", "pin", "uploading", "save", "answered", "failed"}
        /\ compile[c].principal \in Principals
        /\ {compile[c].envelope, compile[c].hash, compile[c].root, rows[c].hash, rows[c].root} \subseteq Envelopes \cup {None}
        /\ compile[c].root # None => compile[c].root = compile[c].envelope
    /\ uploading \subseteq Envelopes /\ storage \subseteq Envelopes /\ registered \subseteq Envelopes
    /\ \A p \in Principals : nonces[p] = Cardinality({c \in Compiles : compile[c].principal = p /\ compile[c].hash \in registered})
    /\ restarts \in 0 .. Restarts

RegisteredIsRecorded ==
    \A c \in Compiles : compile[c].hash \in registered => rows[c].exists /\ rows[c].hash = compile[c].hash

RootIsStored == \A c \in Compiles : rows[c].root # None => rows[c].root \in storage

(* Only the status may be another. *)
FetchedIsOfIntent ==
    \A r \in Readers : fetch[r].at = "answered" => [fetch[r].payload EXCEPT !.status = "DRAFT"] = fetch[r].row.hash

(* What the table says is so.  An intent on chain has its row, under the hash
   it has on chain, through restarts and failed uploads, as verify and settle
   look it up; a root in a row is the root of a copy that can be fetched,
   though the wait for its upload may have been given up; and a copy that is
   fetched is of the row's intent. *)
RowsAreTrue == RegisteredIsRecorded /\ RootIsStored /\ FetchedIsOfIntent

(* Compile does not hang on a storage node that lags (app.ts:85). *)
CompileEnds == \A c \in Compiles : Running(c) ~> compile[c].at \in {"answered", "failed"}

(* Stated by docs/architecture.md:54 and docs/threat-model.md:77: the copy is
   re-hashed against intentHash.  A copy that nobody altered matches. *)
StoredEnvelopeMatches == \A r \in Readers : fetch[r].at = "answered" => Matches(r)
=============================================================================
