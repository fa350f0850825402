----------------------------- MODULE MCContracts -----------------------------
(***************************************************************************)
(* The two contracts that stand by themselves: VerificationMeter and       *)
(* IntentosAgenticIdV2.  Neither calls the other and they share no storage, *)
(* so a behaviour exercises one of them, which contract names, and leaves  *)
(* the other at rest.                                                      *)
(***************************************************************************)
EXTENDS VerificationMeter

CONSTANTS Nobody, Datas, MaxTokens, MaxProofs

VARIABLES contract, owner, metadata, authorized, minting, proofs, request

idVars == <<owner, metadata, authorized, minting, proofs, request>>

Agentic == INSTANCE AgenticId WITH stack <- minting

ASSUME ContractsAssumption == Agentic!AgenticConstants

ContractsInit == contract \in {"meter", "agentic"} /\ MeterInit /\ Agentic!AgenticInit
ContractsNext ==
    /\ UNCHANGED contract
    /\ \/ contract = "meter" /\ MeterNext /\ UNCHANGED idVars
       \/ contract = "agentic" /\ Agentic!AgenticNext /\ UNCHANGED meterVars
ContractsSpec == ContractsInit /\ [][ContractsNext]_<<contract, meterVars, idVars>>

(* Types of both contracts. *)
ContractsTypeOK == MeterTypeOK /\ Agentic!AgenticTypeOK

(* Of IntentosAgenticIdV2.sol:45-53 and 81-98: see AgenticId. *)
MintedComplete == Agentic!MintedComplete

(* Of IntentosAgenticIdV2.sol:61-79: see AgenticId. *)
MetadataMovesByProof == Agentic!MetadataMovesByProof
=============================================================================
