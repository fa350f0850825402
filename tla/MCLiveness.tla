----------------------------- MODULE MCLiveness -----------------------------
(***************************************************************************)
(* What must end: a verify, a compile, and the disagreement of the page    *)
(* with the server's readiness.  They share no state, so a behaviour       *)
(* exercises one of them, which part names, under the fairness its module  *)
(* assumes.                                                                *)
(***************************************************************************)
EXTENDS MCVerifyPipeline

CONSTANTS Compiles, Readers, Restarts, None,
          Probes, Fallible, MaxDown, MaxDefects

VARIABLES
    part,
    compile, intentRows, uploading, storage, nonces, registered, fetch, restarts,
    cfg, holds, probe, held, page

envelopeVars == <<compile, intentRows, uploading, storage, nonces, registered, fetch, restarts>>
readinessVars == <<cfg, holds, probe, held, page>>
livenessVars == <<part, pipelineVars, envelopeVars, readinessVars>>

Compiled == INSTANCE Envelopes WITH rows <- intentRows
Ready == INSTANCE Readiness

ASSUME LivenessAssumption == Compiled!EnvelopesConstants /\ Ready!ReadinessConstants

LivenessInit ==
    /\ part \in {"verify", "compile", "ready"}
    /\ PipelineInit /\ Compiled!EnvelopesInit /\ Ready!ReadinessInit
    /\ part # "verify" => job = [r \in Requests |-> NewJob(CHOOSE p \in Principals : TRUE)]
    /\ part # "compile" => compile = [c \in Compiles |-> Compiled!Fresh(CHOOSE p \in Principals : TRUE)]

Verifies == part = "verify" /\ UNCHANGED <<part, envelopeVars, readinessVars>>
CompilesOne == part = "compile" /\ UNCHANGED <<part, pipelineVars, readinessVars>>
Polls == part = "ready" /\ UNCHANGED <<part, pipelineVars, envelopeVars>>

LivenessNext ==
    \/ Verifies /\ PipelineNext
    \/ CompilesOne /\ Compiled!EnvelopesNext
    \/ Polls /\ Ready!ReadinessNext
LivenessFairness ==
    /\ \A r \in Requests : WF_livenessVars(Verifies /\ RequestStep(r))
    /\ \A c \in Compiles : WF_livenessVars(CompilesOne /\ Compiled!Running(c) /\ Compiled!Handles(c))
    /\ \A s \in Probes : /\ WF_livenessVars(Polls /\ Ready!Poll(s))
                        /\ WF_livenessVars(Polls /\ Ready!ProbeStep(s))
LivenessSpec == LivenessInit /\ [][LivenessNext]_livenessVars /\ LivenessFairness

(* Of runVerification: see VerifyPipeline. *)
VerifyEnds == part = "verify" => EveryRequestAnswered

(* Of POST /compile and the deadline of its upload: see Envelopes. *)
CompileEnds == Compiled!CompileEnds

(* Of useReady, which polls GET /ready: see Readiness. *)
PageFollows == part = "ready" => Ready!PageFollows
=============================================================================
