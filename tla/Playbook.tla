-------------------------------- MODULE Playbook --------------------------------
(***************************************************************************)
(* The two-step playbook: the page, the API's /verify/step, the registry   *)
(* and DemoVault.  A handler of the page keeps what it read when its       *)
(* button was pressed, and sets the page's state when its calls return,    *)
(* whatever the page holds by then; only the button whose label busy names *)
(* is disabled meanwhile.  The wallet may change its account at any time.  *)
(*                                                                         *)
(* An action is its step and its plan: a second proposal may repeat the    *)
(* first, and has its hash then.                                           *)
(***************************************************************************)
EXTENDS Naturals, Sequences, FiniteSets

CONSTANTS Accounts,    \* wallet accounts
          Plans,       \* plans an agent may propose
          MaxIntents,  \* bound: compiles
          MaxCalls,    \* bound: handlers of the page running at a time
          MaxPresses,  \* bound: handlers started
          SdkCalls,    \* bound: verifies by a client other than the page
          None

VARIABLES
    address,   \* the wallet's account, or None
    page,      \* the state hooks of the page
    busy,      \* the label of the handler last started
    presses,   \* handlers started
    calls,     \* the page's handlers that have not returned
    owner,     \* principal and nonce of each intent that was compiled, in order
    status,    \* the registry's status of each intent
    verdicts,  \* the registry's verdict per action: [intent, step, plan]
    granted,   \* history: actions whose APPROVE was recorded
    deposits,  \* actions the vault settled
    sdk        \* verifies other clients made

playbookVars == <<address, page, busy, presses, calls, owner, status, verdicts, granted, deposits, sdk>>

(* What the constants must be. *)
PlaybookConstants == {MaxIntents, MaxCalls, MaxPresses, SdkCalls} \subseteq Nat

Steps == {"allocate", "settle"}
Intents == 1 .. MaxIntents
Actions == [intent : Intents, step : Steps \cup {"plain"}, plan : Plans]
NoStep == [action |-> None, verdict |-> "NONE", ok |-> FALSE]
Empty == [compile |-> 0, registerTx |-> FALSE, step1 |-> NoStep, step2 |-> NoStep, settleTx |-> FALSE]

PlaybookInit ==
    /\ address = None /\ page = Empty /\ busy = "idle" /\ presses = 0 /\ calls = {}
    /\ owner = <<>> /\ status = [i \in Intents |-> "none"] /\ verdicts = [a \in Actions |-> "NONE"]
    /\ granted = {} /\ deposits = {} /\ sdk = 0

(* A faulty variant, for mutation runs: the stamp without its attestation. *)
StampApproves == page.step1.verdict = "APPROVE"
Step1Approved == page.step1.verdict = "APPROVE" /\ page.step1.ok
Step2Approved == page.step2.verdict = "APPROVE"

(* IntentRegistry.isApproved *)
IsApproved(a) == status[a.intent] = "active" /\ verdicts[a] = "APPROVE"

OnChain == UNCHANGED <<owner, status, verdicts, granted, deposits, sdk>>

(* principalNonce *)
Nonce(p) == Cardinality({i \in DOMAIN owner : owner[i].principal = p /\ status[i] # "none"})

-----------------------------------------------------------------------------
(* The wallet: a change from one account to another clears the page, a
   disconnect does not, nor does the connection after it. *)
SetAddress(a) ==
    /\ a # address /\ address' = a
    /\ page' = IF None \in {a, address} THEN page ELSE Empty
    /\ UNCHANGED <<busy, presses, calls>> /\ OnChain

(* run: a button starts a handler.  label is what its loading tests for. *)
Press(label, call) ==
    /\ address # None /\ Cardinality(calls) < MaxCalls /\ presses < MaxPresses
    /\ calls' = calls \cup {call} /\ busy' = label /\ presses' = presses + 1
    /\ UNCHANGED <<address, page>> /\ OnChain

Call(kind, action, prev) == [kind |-> kind, by |-> address, intent |-> page.compile, action |-> action, prev |-> prev,
                             at |-> "sent", result |-> NoStep]

PressCompile == busy \notin {"compile", "sign"} /\ Press("compile", Call("compile", None, None))
PressRegister == page.compile # 0 /\ busy # "sign" /\ Press("sign", Call("register", None, None))

(* The agent's proposal, bound to the step. *)
PressVerify(step) ==
    /\ page.compile # 0
    /\ \/ step = "allocate" /\ page.registerTx
       \/ step = "settle" /\ Step1Approved
    /\ busy # step
    /\ \E plan \in Plans : Press(step, Call("verify", [intent |-> page.compile, step |-> step, plan |-> plan],
                                       IF step = "settle" THEN page.step1.action ELSE None))
PressDeposit == Step2Approved /\ busy # "deposit" /\ Press("deposit", Call("deposit", page.step2.action, None))

Returns(k) == calls' = calls \ {k} /\ busy' = "idle" /\ UNCHANGED presses
Becomes(k, new) == calls' = (calls \ {k}) \cup {new} /\ UNCHANGED <<busy, presses>>

(* Any handler may fail, or be refused by a service or the wallet. *)
CallFails(k) == Returns(k) /\ UNCHANGED <<address, page>> /\ OnChain

-----------------------------------------------------------------------------
(* The handlers. *)

CompileReturns(k) ==
    /\ k.kind = "compile" /\ Len(owner) < MaxIntents
    /\ owner' = Append(owner, [principal |-> k.by, nonce |-> Nonce(k.by)])
    /\ page' = [Empty EXCEPT !.compile = Len(owner')]
    /\ Returns(k) /\ UNCHANGED <<address, status, verdicts, granted, deposits, sdk>>

(* The registry checks the signature of the intent's principal and its nonce. *)
RegisterReturns(k) ==
    /\ k.kind = "register" /\ k.by = owner[k.intent].principal /\ status[k.intent] = "none" /\ owner[k.intent].nonce = Nonce(k.by)
    /\ status' = [status EXCEPT ![k.intent] = "active"]
    /\ page' = [page EXCEPT !.registerTx = TRUE]
    /\ Returns(k) /\ UNCHANGED <<address, owner, verdicts, granted, deposits, sdk>>

(* /verify/step: a predecessor's hash, approved under this intent. *)
PredecessorApproved(intent, step, prev) ==
    step = "settle" => prev # None /\ prev.intent = intent /\ IsApproved(prev)

StepChecked(k) ==
    /\ k.kind = "verify" /\ k.at = "sent"
    /\ PredecessorApproved(k.action.intent, k.action.step, k.prev)
    /\ Becomes(k, [k EXCEPT !.at = "checked"])
    /\ UNCHANGED <<address, page>> /\ OnChain

(* runVerification: the payer is the registered principal, the layers reach a
   verdict, and its attestation is recorded or not. *)
Verified(a, by, verdict, ok) ==
    /\ status[a.intent] = "active" /\ by = owner[a.intent].principal
    /\ verdicts' = IF ok THEN [verdicts EXCEPT ![a] = verdict] ELSE verdicts
    /\ granted' = IF ok /\ verdict = "APPROVE" THEN granted \cup {a} ELSE granted

StepVerified(k) ==
    /\ k.kind = "verify" /\ k.at = "checked"
    /\ \E verdict \in {"APPROVE", "REJECT"}, ok \in BOOLEAN :
        /\ Verified(k.action, k.by, verdict, ok)
        /\ Becomes(k, [k EXCEPT !.at = "answered", !.result = [action |-> k.action, verdict |-> verdict, ok |-> ok]])
    /\ UNCHANGED <<address, page, owner, status, deposits, sdk>>

StepReturns(k) ==
    /\ k.kind = "verify" /\ k.at = "answered"
    /\ page' = IF k.action.step = "allocate" THEN [page EXCEPT !.step1 = k.result] ELSE [page EXCEPT !.step2 = k.result]
    /\ Returns(k) /\ UNCHANGED address /\ OnChain

(* DemoVault.deposit *)
DepositReturns(k) ==
    /\ k.kind = "deposit" /\ IsApproved(k.action) /\ k.action \notin deposits
    /\ deposits' = deposits \cup {k.action}
    /\ page' = [page EXCEPT !.settleTx = TRUE]
    /\ Returns(k) /\ UNCHANGED <<address, owner, status, verdicts, granted, sdk>>

-----------------------------------------------------------------------------
(* Others. *)

(* The principal invalidates an intent, or its time is up. *)
Deactivate(i) ==
    /\ status[i] = "active" /\ status' = [status EXCEPT ![i] = "ended"]
    /\ UNCHANGED <<address, page, busy, presses, calls, owner, verdicts, granted, deposits, sdk>>

(* A client of the API, with the principal as payer: POST /verify, or
   /verify/step with whatever approved hash it has, also that of a plain
   verify's action. *)
SdkVerify ==
    /\ sdk < SdkCalls /\ sdk' = sdk + 1
    /\ \E a \in Actions : /\ status[a.intent] = "active"
                          /\ a.step = "settle" => \E prev \in Actions : PredecessorApproved(a.intent, a.step, prev)
                          /\ Verified(a, owner[a.intent].principal, "APPROVE", TRUE)
    /\ UNCHANGED <<address, page, busy, presses, calls, owner, status, deposits>>

PlaybookNext ==
    \/ \E a \in Accounts \cup {None} : SetAddress(a)
    \/ PressCompile \/ PressRegister \/ PressDeposit \/ \E s \in Steps : PressVerify(s)
    \/ \E k \in calls : \/ CompileReturns(k) \/ RegisterReturns(k) \/ StepChecked(k) \/ StepVerified(k)
                        \/ StepReturns(k) \/ DepositReturns(k) \/ CallFails(k)
    \/ \E i \in Intents : Deactivate(i)
    \/ SdkVerify
PlaybookSpec == PlaybookInit /\ [][PlaybookNext]_playbookVars

-----------------------------------------------------------------------------
PlaybookTypeOK ==
    /\ address \in Accounts \cup {None} /\ sdk \in 0 .. SdkCalls
    /\ busy \in {"idle", "compile", "sign", "deposit"} \cup Steps
    /\ page.compile \in 0 .. Len(owner) /\ Len(owner) <= MaxIntents
    /\ Cardinality(calls) <= MaxCalls
    /\ \A k \in calls : k.by \in Accounts /\ k.intent \in 0 .. Len(owner)
    /\ \A i \in Intents : status[i] # "none" => i <= Len(owner)
    /\ \A a \in Actions : verdicts[a] # "NONE" => status[a.intent] # "none"
    /\ \A a \in Actions : verdicts[a] = "APPROVE" => a \in granted
    /\ deposits \subseteq granted /\ granted \subseteq Actions

SettleFollowsAllocate ==
    \A a \in deposits : a.step = "settle" /\ \E g \in granted : g.intent = a.intent /\ g.step = "allocate"
Step2WaitsForChain == Step1Approved => page.step1.action \in granted

(* The order of the steps holds where the page is used: what it settled is a
   settle step whose intent had its allocate step approved, whichever intent
   the page's answers were for when they arrived and whoever else verifies;
   and step 2 is locked until the APPROVE of step 1 is on chain
   (docs/judge-guide.md:30). *)
PlaybookInOrder == SettleFollowsAllocate /\ Step2WaitsForChain

(* Stated by README.md:219 of /verify/step: step N only if 1..N-1 are
   approved. *)
StepsInOrder ==
    \A a \in granted : a.step = "settle" => \E g \in granted : g.intent = a.intent /\ g.step = "allocate"

(* Stated by the page (Playbook.tsx:76): step 1 stays locked until the
   registration of its intent lands. *)
Step1WaitsForRegister == page.registerTx /\ page.compile # 0 => status[page.compile] # "none"
=============================================================================
