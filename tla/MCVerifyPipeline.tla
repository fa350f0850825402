-------------------------- MODULE MCVerifyPipeline --------------------------
(* All verifies are of one action of one intent. *)
EXTENDS VerifyPipeline

CONSTANTS i1, a1

MCIntentOf == [r \in Requests |-> i1]
MCActionOf == [r \in Requests |-> a1]
=============================================================================
