--------------------------------- MODULE Studio ---------------------------------
(***************************************************************************)
(* The Studio page from compile to settlement, with the API's verify, the  *)
(* registry, DemoVault and IntentExecutor as far as the page depends on    *)
(* them.  Every button waits while a handler is busy, but "Replan": it can *)
(* be pressed during any other, and whichever returns first makes the page *)
(* idle.  Handlers keep what they read when pressed, transactions may land *)
(* after the page has given up on them, and the wallet may change account. *)
(* A button is there when its stage is unlocked or a handler that returned *)
(* late put the page on it; the stage itself is left out, and so is the    *)
(* meter, whose refusal is the server's.                                   *)
(***************************************************************************)
EXTENDS Naturals, Sequences, FiniteSets

CONSTANTS Accounts,    \* wallet accounts
          Plans,       \* plans an agent may propose
          MaxIntents,  \* bound: compiles
          MaxPresses,  \* bound: handlers started
          MaxSwitches, \* bound: changes of the wallet's account
          None

VARIABLES
    address,   \* the wallet's account, or None
    switches,  \* changes of it
    page,      \* the state hooks of the page
    busy,      \* a handler's label is shown
    presses,   \* handlers started
    calls,     \* handlers that have not returned
    late,      \* transactions and verifies whose handler gave up waiting
    owner,     \* principal and nonce of each intent that was compiled
    anchored,  \* intents the registry holds
    verdicts,  \* the registry's verdict and binding per action
    settled,   \* actions settled, by the contract that settled them
    billed     \* the verifies charged: payer and action

studioVars == <<address, switches, page, busy, presses, calls, late, owner, anchored, verdicts, settled, billed>>
chainVars == <<owner, anchored, verdicts, settled, billed>>

ASSUME StudioAssumption == {MaxIntents, MaxPresses, MaxSwitches} \subseteq Nat

Contracts == {"vault", "executor"}
Intents == 1 .. MaxIntents
(* What an actionHash stands for.  With the executor bound, the settlement is
   part of the action. *)
Actions == [intent : Intents, plan : Plans, settlement : Contracts]
Verdicts == {"APPROVE", "REJECT"}
Unverified == [verdict |-> "NONE", binds |-> "vault"]
NoVerify == [action |-> None, verdict |-> "NONE", binds |-> "vault", ok |-> FALSE]
Empty == [compile |-> 0, registerTx |-> FALSE, action |-> None, verify |-> NoVerify,
          settleTx |-> FALSE, settleErr |-> FALSE, error |-> "none"]

StudioInit ==
    /\ address = None /\ switches = 0 /\ page = Empty /\ busy = FALSE /\ presses = 0
    /\ calls = {} /\ late = {} /\ owner = <<>> /\ anchored = {}
    /\ verdicts = [a \in Actions |-> Unverified] /\ settled = [c \in Contracts |-> {}] /\ billed = {}

-----------------------------------------------------------------------------
(* The account effect: only a change between two accounts clears the page. *)
SetAddress(a) ==
    /\ a # address /\ address' = a
    /\ switches < MaxSwitches /\ switches' = switches + 1
    /\ page' = IF None \in {a, address} THEN page ELSE Empty
    /\ UNCHANGED <<busy, presses, calls, late>> /\ UNCHANGED chainVars

(* run *)
Start(call) ==
    /\ address # None /\ presses < MaxPresses /\ presses' = presses + 1
    /\ calls' = calls \cup {call} /\ busy' = TRUE /\ page' = [page EXCEPT !.error = "none"]
    /\ UNCHANGED <<address, switches, late>> /\ UNCHANGED chainVars

Call(kind) == [kind |-> kind, by |-> address, intent |-> page.compile, plan |-> page.action, verify |-> page.verify,
               binds |-> "vault", at |-> "sent"]

PressCompile == ~busy /\ Start(Call("compile"))
PressRegister == ~busy /\ page.compile # 0 /\ ~page.registerTx /\ Start(Call("register"))
(* A plan or a verdict that came after a new compile put the page past its
   registration. *)
PressPropose ==
    /\ ~busy /\ page.compile # 0
    /\ page.registerTx \/ page.action # None \/ page.verify.action # None
    /\ Start(Call("propose"))
PressVerify ==
    /\ ~busy /\ page.registerTx /\ page.compile # 0 /\ page.action # None
    /\ \E c \in Contracts : Start([Call("verify") EXCEPT !.binds = c])

ShowsSettled == page.settleTx /\ ~page.settleErr
OnProof(verdicts_) == page.verify.verdict \in verdicts_ /\ ~ShowsSettled

PressReplan == OnProof({"REJECT"}) /\ page.compile # 0 /\ Start(Call("propose"))
(* Deposit, and the two demonstrations of a revert. *)
PressSettle == ~busy /\ OnProof(Verdicts) /\ Start([Call("settle") EXCEPT !.binds = "vault"])
PressExecute == ~busy /\ OnProof({"APPROVE"}) /\ page.verify.binds = "executor" /\ Start([Call("settle") EXCEPT !.binds = "executor"])

Becomes(k, at) == calls' = (calls \ {k}) \cup {[k EXCEPT !.at = at]} /\ UNCHANGED <<address, switches, busy, presses>>
Returns(k) == calls' = calls \ {k} /\ busy' = FALSE /\ UNCHANGED <<address, switches, presses>>

-----------------------------------------------------------------------------
(* The chain and the API. *)

Nonce(p) == Cardinality({i \in anchored : owner[i].principal = p})

(* registerIntent: the principal's own signature at its nonce, once. *)
Registers(k) == k.by = owner[k.intent].principal /\ k.intent \notin anchored /\ owner[k.intent].nonce = Nonce(k.by)

(* deposit and execute: approved, bound to the contract called, and not
   settled there yet. *)
Settles(k) ==
    LET a == k.verify.action IN
    /\ a.intent \in anchored /\ verdicts[a] = [verdict |-> "APPROVE", binds |-> k.binds]
    /\ a \notin settled[k.binds]

Mined(k) ==
    \/ /\ k.kind = "register" /\ Registers(k) /\ anchored' = anchored \cup {k.intent}
       /\ UNCHANGED <<owner, verdicts, settled, billed>>
    \/ /\ k.kind = "settle" /\ Settles(k) /\ settled' = [settled EXCEPT ![k.binds] = @ \cup {k.verify.action}]
       /\ UNCHANGED <<owner, anchored, verdicts, billed>>
Refused(k) == (k.kind = "register" /\ ~Registers(k)) \/ (k.kind = "settle" /\ ~Settles(k))

(* A faulty variant, for mutation runs: the settlement stays out of the hash. *)
SettlementOutside(k) == [intent |-> k.intent, plan |-> k.plan, settlement |-> "vault"]
ActionOf(k) == [intent |-> k.intent, plan |-> k.plan, settlement |-> k.binds]

(* A faulty variant, for mutation runs: whoever pays, pays. *)
AnyPayer(k) == k.intent \in anchored
PayerIsPrincipal(k) == k.intent \in anchored /\ k.by = owner[k.intent].principal

(* POST /verify: the debit, then a verdict, which is recorded on chain or not. *)
Attested(k, verdict) == verdicts' = [verdicts EXCEPT ![ActionOf(k)] = [verdict |-> verdict, binds |-> k.binds]]
Verified(k, verdict, ok) ==
    /\ k.kind = "verify" /\ PayerIsPrincipal(k)
    /\ billed' = billed \cup {[by |-> k.by, action |-> ActionOf(k)]}
    /\ IF ok THEN Attested(k, verdict) ELSE UNCHANGED verdicts
    /\ UNCHANGED <<owner, anchored, settled>>

TxLands(k) ==
    /\ k.at = "sent"
    /\ \/ Mined(k) /\ Becomes(k, "success")
       \/ Refused(k) /\ Becomes(k, "reverted") /\ UNCHANGED chainVars
    /\ UNCHANGED <<page, late>>

(* What was sent goes on without its handler: a transaction, a verify, and
   the attestation of a verify that was answered without it. *)
LateLands(k) ==
    /\ late' = late \ {k}
    /\ \/ Mined(k)
       \/ k.at = "sent" /\ \E verdict \in Verdicts, ok \in BOOLEAN : Verified(k, verdict, ok)
       \/ k.at = "attesting" /\ Attested(k, k.verify.verdict) /\ UNCHANGED <<owner, anchored, settled, billed>>
    /\ UNCHANGED <<address, switches, page, busy, presses, calls>>

-----------------------------------------------------------------------------
(* The handlers return. *)

CompileReturns(k) ==
    /\ k.kind = "compile" /\ Len(owner) < MaxIntents
    /\ owner' = Append(owner, [principal |-> k.by, nonce |-> Nonce(k.by)])
    /\ page' = [Empty EXCEPT !.compile = Len(owner'), !.error = page.error]
    /\ Returns(k) /\ UNCHANGED <<late, anchored, verdicts, settled, billed>>

(* A faulty variant, for mutation runs: the page stays busy. *)
RegisterKeepsBusy(k) ==
    /\ k.kind = "register" /\ k.at \in {"success", "reverted"}
    /\ page' = [page EXCEPT !.registerTx = @ \/ k.at = "success"]
    /\ calls' = calls \ {k}
    /\ UNCHANGED <<address, switches, busy, presses, late>> /\ UNCHANGED chainVars

RegisterReturns(k) ==
    /\ k.kind = "register" /\ k.at \in {"success", "reverted"}
    /\ page' = [page EXCEPT !.registerTx = @ \/ k.at = "success"]
    /\ Returns(k) /\ UNCHANGED late /\ UNCHANGED chainVars

ProposeReturns(k) ==
    /\ k.kind = "propose"
    /\ \E plan \in Plans :
        page' = [page EXCEPT !.action = plan, !.verify = NoVerify, !.settleTx = FALSE, !.settleErr = FALSE]
    /\ Returns(k) /\ UNCHANGED late /\ UNCHANGED chainVars

VerifyReturns(k) ==
    /\ k.kind = "verify"
    /\ \E verdict \in Verdicts, ok \in BOOLEAN :
        LET answer == [action |-> ActionOf(k), verdict |-> verdict, binds |-> k.binds, ok |-> ok] IN
        /\ Verified(k, verdict, ok)
        /\ page' = [page EXCEPT !.verify = answer, !.settleTx = FALSE, !.settleErr = FALSE]
        /\ late' = IF ok THEN late ELSE late \cup {[k EXCEPT !.verify = answer, !.at = "attesting"]}
    /\ Returns(k)

SettleReturns(k) ==
    /\ k.kind = "settle" /\ k.at = "success"
    /\ page' = [page EXCEPT !.settleTx = TRUE, !.settleErr = FALSE]
    /\ Returns(k) /\ UNCHANGED late /\ UNCHANGED chainVars

(* A receipt that reverted: the transaction is shown, its cause is looked up,
   and then the error is. *)
ShowReverted(k) ==
    /\ k.kind = "settle" /\ k.at = "reverted"
    /\ page' = [page EXCEPT !.settleTx = TRUE]
    /\ Becomes(k, "simulating") /\ UNCHANGED late /\ UNCHANGED chainVars
Explained(k) ==
    /\ k.kind = "settle" /\ k.at = "simulating"
    /\ page' = [page EXCEPT !.settleErr = TRUE]
    /\ Returns(k) /\ UNCHANGED late /\ UNCHANGED chainVars

(* The call fails or is cancelled before it reaches anyone, or its time is up
   and the page says to try again: waitForReceipt, or the API client's abort. *)
GivesUp(k) ==
    /\ k.at = "sent"
    /\ \/ UNCHANGED late /\ page' = [page EXCEPT !.settleErr = @ \/ k.kind = "settle"]
       \/ /\ k.kind \in {"register", "settle", "verify"} /\ late' = late \cup {k}
          /\ page' = [page EXCEPT !.settleErr = @ \/ k.kind = "settle", !.error = k.kind]
    /\ Returns(k) /\ UNCHANGED chainVars

StudioNext ==
    \/ \E a \in Accounts \cup {None} : SetAddress(a)
    \/ PressCompile \/ PressRegister \/ PressPropose \/ PressVerify \/ PressReplan \/ PressSettle \/ PressExecute
    \/ \E k \in calls :
        \/ TxLands(k) \/ CompileReturns(k) \/ RegisterReturns(k) \/ ProposeReturns(k) \/ VerifyReturns(k)
        \/ SettleReturns(k) \/ ShowReverted(k) \/ Explained(k) \/ GivesUp(k)
    \/ \E k \in late : LateLands(k)
StudioSpec == StudioInit /\ [][StudioNext]_studioVars

-----------------------------------------------------------------------------
StudioTypeOK ==
    /\ address \in Accounts \cup {None} /\ switches \in 0 .. MaxSwitches /\ presses \in 0 .. MaxPresses
    /\ page.compile \in 0 .. Len(owner) /\ Len(owner) <= MaxIntents /\ page.action \in Plans \cup {None}
    /\ page.error \in {"none", "register", "settle", "verify"}
    /\ anchored \subseteq 1 .. Len(owner)
    /\ \A a \in Actions : verdicts[a].verdict # "NONE" => a.intent \in anchored
    /\ \A c \in Contracts : settled[c] \subseteq Actions
    /\ (calls = {}) => ~busy

(* An account may find itself in the session of another one, a plan may come
   for an envelope that was replaced, a verify or a deposit may land after the
   page gave up: what settles was verified at the cost of its own intent's
   principal. *)
SettledWasBilled ==
    \A c \in Contracts, a \in Actions :
        a \in settled[c] => [by |-> owner[a.intent].principal, action |-> a] \in billed

(* The page says to try again after a registration it did not see, and one may
   compile anew at the nonce still unspent: both may land late, one does. *)
OneIntentPerNonce == \A i, j \in anchored : owner[i] = owner[j] => i = j

(* Sessions that overlap, lose their account or are retried do not mix on
   chain, whatever the page shows (Studio.onRegister, onVerify, onSettle). *)
SessionsKeptApart == SettledWasBilled /\ OneIntentPerNonce

(* One verify, one binding: an action that is verified again for the other
   contract is not settled by both. *)
SettledOnce == settled["vault"] \cap settled["executor"] = {}

(* Stated by the page (Studio.tsx:124): a session cannot survive an account
   switch, its envelope is signed for one principal. *)
SessionIsOfAccount == address # None /\ page.compile # 0 => owner[page.compile].principal = address

(* Stated by the page (Studio.tsx:1021) once it says settled: the deposit
   matched an APPROVE attestation. *)
SettledIsApproved == ShowsSettled => page.verify.verdict \in {"APPROVE", "NONE"}

(* Stated by the page (Studio.tsx:391): after a replan one must verify again,
   a new plan is not a pass.  The stamp is of the plan shown. *)
StampIsOfPlan == page.verify.action # None => page.verify.action.plan = page.action

(* Stated by lib/receipt.ts:21 of a transaction not seen in time: wait a few
   seconds, then retry.  The registration that is to be retried can succeed. *)
RetryCanWork == page.error = "register" /\ page.compile # 0 => page.compile \notin anchored
=============================================================================
