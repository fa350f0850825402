------------------------------ MODULE Readiness ------------------------------
(***************************************************************************)
(* GET /ready, the hook useReady that polls it, and what POST /verify needs *)
(* of the same configuration.  A probe reads the world check by check, each *)
(* behind an await, while the world changes; the page has several probes    *)
(* under way and shows the answer that arrived last.  held is history: the  *)
(* facts that held at some moment of a probe.                               *)
(***************************************************************************)
EXTENDS Naturals, Sequences, FiniteSets

CONSTANTS
    Probes,     \* GET /ready requests that may be under way
    Fallible,   \* facts that come and go
    MaxDown,    \* bound: how many of them fail at once
    MaxDefects  \* bound: how far a configuration is from a complete one

(* What may change while the server runs: the Router answers and lists the
   model, which is TEE-attested; the balances and roles of the server's keys;
   the RPC node and the API can be reached. *)
Facts == {"router", "tee", "oracle_funded", "oracle_role", "deployer_funded", "meter_settler", "rpc", "api"}

(* A private key may be absent or of the wrong length; an address may be
   unset, or without code on this chain. *)
Keys == {"good", "short", "unset"}
Addresses == {"live", "dead", "unset"}
Complete ==
    [routerKey |-> TRUE, storageUpload |-> TRUE, agentId |-> TRUE, deployerKey |-> "good", oracleKey |-> "good",
     registry |-> "live", vault |-> "live", meter |-> "live", consumer |-> "live", agenticId |-> "live",
     executor |-> "live", chain |-> "target"]
Configs ==
    {c \in [routerKey : BOOLEAN, storageUpload : BOOLEAN, agentId : BOOLEAN, deployerKey : Keys, oracleKey : Keys,
            registry : Addresses, vault : Addresses, meter : Addresses, consumer : Addresses,
            agenticId : Addresses, executor : Addresses, chain : {"target", "other"}] :
        Cardinality({f \in DOMAIN c : c[f] # Complete[f]}) <= MaxDefects}

(* What the constants must be. *)
ReadinessConstants == Fallible \subseteq Facts /\ MaxDown \in Nat /\ MaxDefects \in Nat

VARIABLES cfg, holds, probe, held, page

readinessVars == <<cfg, holds, probe, held, page>>

(* The checks that read the world, in the order they are awaited; executor
   stands for the four addresses of wave6. *)
CheckOrder == <<"models", "registry", "vault", "oracle_funded", "oracle_role", "deployer_funded",
                "meter", "meter_settler", "consumer", "agentic_id", "executor">>
Idle == [at |-> 0, ok |-> FALSE]

ReadinessInit ==
    /\ cfg \in Configs
    /\ holds = Facts
    /\ probe = [s \in Probes |-> Idle] /\ held = [s \in Probes |-> {}]
    /\ page = [ready |-> "unknown", meta |-> "unknown", asked |-> FALSE]

(* Facts come and go.  With no fact fallible the world stands still. *)
WorldChanges ==
    /\ \E f \in Fallible : holds' = IF f \in holds THEN holds \ {f} ELSE holds \cup {f}
    /\ Cardinality(Facts \ holds') <= MaxDown
    /\ held' = [s \in Probes |-> IF probe[s].at = 0 THEN {} ELSE held[s] \cup holds']
    /\ UNCHANGED <<cfg, probe, page>>

-----------------------------------------------------------------------------
(* The server. *)

(* A faulty variant, for mutation runs: any key will do. *)
KeyReadyIfSet(key) == key # "unset"

(* The checks that need no await. *)
KeyReady(key) == key = "good"
ConfigChecks ==
    /\ cfg.routerKey /\ cfg.storageUpload /\ cfg.agentId
    /\ KeyReady(cfg.deployerKey) /\ KeyReady(cfg.oracleKey)
    /\ cfg.registry # "unset" /\ cfg.vault # "unset"

BytecodeLive(address) == address = "live" /\ "rpc" \in holds
ReadsTrue(fact) == {"rpc", fact} \subseteq holds
(* An optional address is required to have code once it is set. *)
Optional(address) == address = "unset" \/ BytecodeLive(address)

(* The required checks that depend on the world, as they would be now; a key
   of the wrong length makes the check that uses it throw. *)
Checks ==
    [models          |-> cfg.routerKey => {"router", "tee"} \subseteq holds,
     registry        |-> cfg.registry # "unset" => BytecodeLive(cfg.registry),
     vault           |-> cfg.vault # "unset" => BytecodeLive(cfg.vault),
     oracle_funded   |-> cfg.oracleKey = "good" => ReadsTrue("oracle_funded"),
     oracle_role     |-> cfg.oracleKey = "good" /\ cfg.registry # "unset" =>
                           cfg.registry = "live" /\ ReadsTrue("oracle_role"),
     deployer_funded |-> cfg.deployerKey = "good" => ReadsTrue("deployer_funded"),
     meter           |-> Optional(cfg.meter),
     meter_settler   |-> cfg.meter = "live" /\ cfg.deployerKey # "unset" =>
                           cfg.deployerKey = "good" /\ ReadsTrue("meter_settler"),
     consumer        |-> Optional(cfg.consumer),
     agentic_id      |-> Optional(cfg.agenticId),
     executor        |-> Optional(cfg.executor)]

Check(s) ==
    LET k == probe[s].at IN
    /\ k \in DOMAIN CheckOrder
    /\ probe' = [probe EXCEPT ![s] = [at |-> k + 1, ok |-> @.ok /\ Checks[CheckOrder[k]]]]
    /\ UNCHANGED <<cfg, holds, held, page>>

-----------------------------------------------------------------------------
(* The page. *)

(* A faulty variant, for mutation runs: a page that is ready stops asking. *)
PollUntilReady(s) ==
    /\ probe[s].at = 0 /\ page.ready # "yes"
    /\ probe' = [probe EXCEPT ![s] = [at |-> 1, ok |-> ConfigChecks]]
    /\ held' = [held EXCEPT ![s] = holds]
    /\ UNCHANGED <<cfg, holds, page>>

(* The interval fires, whether or not an earlier probe has been answered. *)
Poll(s) ==
    /\ probe[s].at = 0
    /\ probe' = [probe EXCEPT ![s] = [at |-> 1, ok |-> ConfigChecks]]
    /\ held' = [held EXCEPT ![s] = holds]
    /\ UNCHANGED <<cfg, holds, page>>

Show(s, ready) ==
    /\ page' = [page EXCEPT !.ready = ready]
    /\ probe' = [probe EXCEPT ![s] = Idle] /\ held' = [held EXCEPT ![s] = {}]
    /\ UNCHANGED <<cfg, holds>>

Answered(s) ==
    /\ probe[s].at = Len(CheckOrder) + 1 /\ "api" \in holds
    /\ Show(s, IF probe[s].ok THEN "yes" ELSE "no")

(* The server's own deadlines add up to less than the page's, so only an API
   that cannot be reached fails a probe. *)
Fails(s) == probe[s].at > 0 /\ "api" \notin holds /\ Show(s, "unknown")

(* GET /meta is asked once, when the page is mounted. *)
AskMeta ==
    /\ ~page.asked
    /\ \/ "api" \in holds /\ page' = [page EXCEPT !.asked = TRUE, !.meta = cfg.chain]
       \/ "api" \notin holds /\ page' = [page EXCEPT !.asked = TRUE]
    /\ UNCHANGED <<cfg, holds, probe, held>>

ProbeStep(s) == Check(s) \/ Answered(s) \/ Fails(s)
ReadinessNext == WorldChanges \/ AskMeta \/ \E s \in Probes : Poll(s) \/ ProbeStep(s)
ReadinessSpec == ReadinessInit /\ [][ReadinessNext]_readinessVars

(* The interval keeps firing and a handler's awaits end; the world owes
   nothing. *)
FairReadinessSpec ==
    ReadinessSpec /\ \A s \in Probes : WF_readinessVars(Poll(s)) /\ WF_readinessVars(ProbeStep(s))

-----------------------------------------------------------------------------
ChainMismatch == page.meta = "other"
PageLive == page.ready = "yes" /\ ~ChainMismatch

(* What runVerifyRoute and runVerification ask of the configuration, and the
   facts that an attested verify needs. *)
VerifyConfigured ==
    /\ cfg.routerKey /\ cfg.storageUpload /\ cfg.deployerKey = "good" /\ cfg.oracleKey = "good"
    /\ cfg.registry = "live" /\ cfg.meter # "dead"
VerifyNeeds ==
    {"router", "tee", "rpc", "oracle_funded", "oracle_role", "deployer_funded"}
      \cup IF cfg.meter = "unset" THEN {} ELSE {"meter_settler"}

(* Types. *)
ReadinessTypeOK ==
    /\ cfg \in Configs /\ holds \subseteq Facts
    /\ \A s \in Probes : /\ probe[s].at \in 0..(Len(CheckOrder) + 1) /\ probe[s].ok \in BOOLEAN
                         /\ held[s] \subseteq Facts /\ (probe[s].at = 0 => held[s] = {})
    /\ page \in [ready : {"unknown", "yes", "no"}, meta : {"unknown", "target", "other"}, asked : BOOLEAN]

(* A probe that answers ready speaks of a configuration no verify is refused
   for, and everything an attested verify needs held at some moment while it
   ran, in whatever order the world changed meanwhile. *)
ReadyIsServable ==
    \A s \in Probes : probe[s].at > Len(CheckOrder) /\ probe[s].ok => VerifyConfigured /\ VerifyNeeds \subseteq held[s]

(* Once the world stays good, or one need stays unmet, what the page shows
   comes to agree with it, though older answers may arrive after newer ones. *)
AllChecksPass == ConfigChecks /\ \A c \in DOMAIN Checks : Checks[c]
PageFollows ==
    /\ <>[]("api" \in holds /\ AllChecksPass) => <>[](page.ready = "yes")
    /\ \A f \in Facts : <>[](f \in (VerifyNeeds \cup {"api"}) \ holds) => <>[](page.ready # "yes")

(* Stated by the comment at useReady.ts:9-11: an unknown probe result must not
   count as live.  A page is live only for an API known to serve its chain. *)
LiveIsOnTargetChain == PageLive => cfg.chain = "target" \/ ~page.asked
=============================================================================
