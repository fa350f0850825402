---------------------------- MODULE MCSettlement ----------------------------
(***************************************************************************)
(* Small instances of Settlement: one intent, one or two actions, one user *)
(* and the arbitrary contract.  MCBindings holds a vault binding and the   *)
(* executor bindings of a call to Hook and of a call to SettlementTarget;  *)
(* PlainBindings holds one opaque hash no contract accepts, for the runs   *)
(* that are about bounties only.                                           *)
(***************************************************************************)
EXTENDS Settlement

CONSTANTS opaque

MCBindings == UNION {{VaultBinding(i, a, 1), ExecutorBinding(i, a, Hook, "", 1),
                      ExecutorBinding(i, a, Target, "ping", 0)} : i \in Intents, a \in Actions}
PlainBindings == {opaque}
MCCalldata == {"", "ping"}
PlainCalldata == {""}
=============================================================================
