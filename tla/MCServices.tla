----------------------------- MODULE MCServices -----------------------------
(***************************************************************************)
(* The parts of the API that work beside a verify: the batched log, the    *)
(* rate limiter, the TEE registry cache, the envelopes POST /compile saves *)
(* and the records a proof page shows.  They share no state, so a          *)
(* behaviour exercises one of them, which service names, and leaves the    *)
(* others at rest.                                                         *)
(***************************************************************************)
EXTENDS BatchLog, TLC

CONSTANTS
    r1, r2,                               \* requests of BatchLog
    Ips, ExemptIps, Limit, WindowMs, MaxCount,
    Calls, Ttl, MaxFetch, MaxTime,
    Compiles, Principals, Readers, Restarts, Absent,
    Verifies, Settlers, Viewers, Decisions

MCActionOf == (r1 :> "a1") @@ (r2 :> "a2")

VARIABLES
    service,
    now, windows, sweepAt, served, uncapped,
    teeNow, listed, lastTrue, cache, call,
    compile, intentRows, uploading, storage, nonces, registered, fetch, restarts,
    proofRows, cert, verify, anchored, settle, page

rateVars == <<now, windows, sweepAt, served, uncapped>>
teeVars == <<teeNow, listed, lastTrue, cache, call>>
envelopeVars == <<compile, intentRows, uploading, storage, nonces, registered, fetch, restarts>>
recordVars == <<proofRows, cert, verify, anchored, settle, page>>

Rate == INSTANCE RateLimit
Tee == INSTANCE TeeRegistryCache WITH now <- teeNow
Compiled == INSTANCE Envelopes WITH rows <- intentRows, None <- Absent
Records == INSTANCE ProofRecords WITH rows <- proofRows

ASSUME ServicesAssumption ==
    /\ Rate!RateConstants /\ Tee!TeeConstants
    /\ Compiled!EnvelopesConstants /\ Records!RecordsConstants

servicesVars ==
    <<service, batchVars, rateVars, teeVars, envelopeVars, recordVars>>

(* Only the service exercised starts in more than one state. *)
ServicesInit ==
    /\ service \in {"log", "rate", "tee", "compile", "proof"}
    /\ BatchInit /\ Rate!RateInit /\ Tee!TeeInit /\ Compiled!EnvelopesInit /\ Records!RecordsInit
    /\ service # "tee" => listed
    /\ service # "compile" => compile = [c \in Compiles |-> Compiled!Fresh(CHOOSE p \in Principals : TRUE)]

LogStep == service = "log" /\ BatchNext /\ UNCHANGED <<rateVars, teeVars, envelopeVars, recordVars>>
RateStep == service = "rate" /\ Rate!RateNext /\ UNCHANGED <<batchVars, teeVars, envelopeVars, recordVars>>
TeeStep == service = "tee" /\ Tee!TeeNext /\ UNCHANGED <<batchVars, rateVars, envelopeVars, recordVars>>
CompileStep == service = "compile" /\ Compiled!EnvelopesNext /\ UNCHANGED <<batchVars, rateVars, teeVars, recordVars>>
ProofStep == service = "proof" /\ Records!RecordsNext /\ UNCHANGED <<batchVars, rateVars, teeVars, envelopeVars>>

ServicesNext == UNCHANGED service /\ (LogStep \/ RateStep \/ TeeStep \/ CompileStep \/ ProofStep)
ServicesSpec == ServicesInit /\ [][ServicesNext]_servicesVars

(* Types of the service exercised. *)
ServicesTypeOK ==
    CASE service = "log" -> BatchTypeOK
      [] service = "rate" -> Rate!RateTypeOK
      [] service = "tee" -> Tee!TeeTypeOK
      [] service = "compile" -> Compiled!EnvelopesTypeOK
      [] service = "proof" -> Records!RecordsTypeOK

(* Of rate-limit.ts:42-86: see RateLimit. *)
AtMostTwiceTheLimit == service = "rate" => Rate!AtMostTwiceTheLimit

(* Of router.ts:31-51: see TeeRegistryCache. *)
AttestedWasListed == service = "tee" => Tee!AttestedWasListed

(* Of app.ts:600-735, POST /compile, and GET /envelope: see Envelopes. *)
RowsAreTrue == service = "compile" => Compiled!RowsAreTrue

(* Of app.ts:959-1010 and the proof page: see ProofRecords. *)
ProofPageTrue == service = "proof" => Records!ProofPageTrue
=============================================================================
