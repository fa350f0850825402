--------------------------------- MODULE Market ---------------------------------
(***************************************************************************)
(* The Market page from agent A's requirement to agent B's bounty, with    *)
(* /agent/offer, /verify/a2a, the registry and IntentBounty as far as the  *)
(* page depends on them.  A button is locked by what it needs and by its   *)
(* own handler's label, which the next press replaces: so any two handlers *)
(* can be under way, each with what it read when it was pressed.  The page *)
(* is taken to be live; error texts, and the mode an offer is labelled     *)
(* with, are left out, and so are refunds and expiry, for which the page   *)
(* has no button.                                                          *)
(***************************************************************************)
EXTENDS Naturals, Sequences, FiniteSets

CONSTANTS Accounts,    \* wallet accounts
          Plans,       \* what agent B may offer
          MaxIntents,  \* bound: compiles
          MaxPresses,  \* bound: handlers started
          MaxCalls,    \* bound: handlers under way
          MaxSwitches, \* bound: changes of the wallet's account
          None

VARIABLES
    address,   \* the wallet's account, or None
    switches,  \* changes of it
    page,      \* the state hooks of the page
    busy,      \* the label shown
    presses,   \* handlers started
    calls,     \* handlers that have not returned
    late,      \* transactions and verifies whose handler gave up waiting
    owner,     \* principal and nonce of each intent that was compiled
    anchored,  \* intents the registry holds
    verdicts,  \* the registry's verdict of each action
    approved,  \* history: actions a verify answered APPROVE of
    bounties   \* IntentBounty.bounties, amounts in the page's 0.0001 0G

marketVars == <<address, switches, page, busy, presses, calls, late, owner, anchored, verdicts, approved, bounties>>
chainVars == <<owner, anchored, verdicts, approved, bounties>>

MarketConstants == {MaxIntents, MaxPresses, MaxCalls, MaxSwitches} \subseteq Nat

Intents == 1 .. MaxIntents
(* What bounties and verdicts are kept by: an intentId and an actionHash. *)
Actions == [intent : Intents, plan : Plans]
Labels == {"compile", "register", "greedy", "replan", "verify", "fund", "claim"}
NoVerify == [action |-> None, verdict |-> "NONE"]
Empty == [compile |-> 0, registerTx |-> FALSE, action |-> None, verify |-> NoVerify,
          bountyTx |-> FALSE, claimTx |-> FALSE]

MarketInit ==
    /\ address = None /\ switches = 0 /\ page = Empty /\ busy = "none" /\ presses = 0
    /\ calls = {} /\ late = {} /\ owner = <<>> /\ anchored = {} /\ approved = {}
    /\ verdicts = [a \in Actions |-> "NONE"]
    /\ bounties = [a \in Actions |-> [funder |-> None, amount |-> 0, claimed |-> FALSE]]

-----------------------------------------------------------------------------
(* What the page shows. *)

Shows(verdict) == page.verify.verdict = verdict

(* marketGuide: the first thing that is missing. *)
Guide ==
    CASE address = None -> "connect"
      [] address # None /\ page.compile = 0 -> "compile"
      [] address # None /\ page.compile # 0 /\ ~page.registerTx -> "register"
      [] OTHER ->
         CASE page.action = None -> "greedy"
           [] page.action # None /\ Shows("NONE") -> "verify"
           [] page.action # None /\ Shows("REJECT") -> "replan"
           [] page.action # None /\ Shows("APPROVE") ->
                IF ~page.bountyTx THEN "fund" ELSE IF ~page.claimTx THEN "claim" ELSE "done"

(* The account effect: only a change between two accounts clears the page. *)
SetAddress(a) ==
    /\ a # address /\ address' = a
    /\ switches < MaxSwitches /\ switches' = switches + 1
    /\ page' = IF None \in {a, address} THEN page ELSE Empty
    /\ UNCHANGED <<busy, presses, calls, late>> /\ UNCHANGED chainVars

(* run: the label is shown until any handler returns. *)
Start(kind) ==
    /\ busy # kind /\ presses < MaxPresses /\ Cardinality(calls) < MaxCalls
    /\ presses' = presses + 1 /\ busy' = kind
    /\ calls' = calls \cup {[id |-> presses, kind |-> kind, by |-> address, intent |-> page.compile,
                             plan |-> page.action, verify |-> page.verify, at |-> "sent"]}
    /\ UNCHANGED <<address, switches, page, late>> /\ UNCHANGED chainVars

(* The buttons; without a wallet all but an offer end in an error at once. *)
PressCompile == address # None /\ Start("compile")
PressRegister == address # None /\ page.compile # 0 /\ Start("register")
PressOffer == page.registerTx /\ page.compile # 0 /\ \E mode \in {"greedy", "replan"} : Start(mode)
PressVerify == address # None /\ page.action # None /\ page.compile # 0 /\ Start("verify")

\* A faulty variant, for mutation runs: any stamp unlocks the bounty.
PressFundStamped == address # None /\ page.verify.action # None /\ Start("fund")

PressFund == address # None /\ Shows("APPROVE") /\ Start("fund")
PressClaim == address # None /\ page.bountyTx /\ Shows("APPROVE") /\ Start("claim")

Becomes(k, at) == calls' = (calls \ {k}) \cup {[k EXCEPT !.at = at]} /\ UNCHANGED <<address, switches, busy, presses>>
Returns(k) == calls' = calls \ {k} /\ busy' = "none" /\ UNCHANGED <<address, switches, presses>>

-----------------------------------------------------------------------------
(* The chain and the API. *)

Nonce(p) == Cardinality({i \in anchored : owner[i].principal = p})

(* registerIntent, IntentBounty.fund and .claim; any account may claim an
   approved bounty, for itself. *)
Registers(k) == k.by = owner[k.intent].principal /\ k.intent \notin anchored /\ owner[k.intent].nonce = Nonce(k.by)
Funds(k) == ~bounties[k.verify.action].claimed /\ bounties[k.verify.action].funder \in {None, k.by}
Claims(k) == bounties[k.verify.action].amount > 0 /\ verdicts[k.verify.action] = "APPROVE"

Mined(k) ==
    \/ /\ k.kind = "register" /\ Registers(k) /\ anchored' = anchored \cup {k.intent}
       /\ UNCHANGED <<owner, verdicts, approved, bounties>>
    \/ /\ k.kind = "fund" /\ Funds(k)
       /\ bounties' = [bounties EXCEPT ![k.verify.action].funder = k.by, ![k.verify.action].amount = @ + 1]
       /\ UNCHANGED <<owner, anchored, verdicts, approved>>
    \/ /\ k.kind = "claim" /\ Claims(k)
       /\ bounties' = [bounties EXCEPT ![k.verify.action].claimed = TRUE, ![k.verify.action].amount = 0]
       /\ UNCHANGED <<owner, anchored, verdicts, approved>>
Refused(k) ==
    \/ k.kind = "register" /\ ~Registers(k)
    \/ k.kind = "fund" /\ ~Funds(k)
    \/ k.kind = "claim" /\ ~Claims(k)

ActionOf(k) == [intent |-> k.intent, plan |-> k.plan]

(* POST /verify/a2a: for the principal of a registered intent, a verdict,
   which is recorded on chain or not.  REJECT stands for any but APPROVE. *)
Verified(k, verdict, ok) ==
    /\ k.kind = "verify" /\ k.intent \in anchored /\ k.by = owner[k.intent].principal
    /\ verdicts' = IF ok THEN [verdicts EXCEPT ![ActionOf(k)] = verdict] ELSE verdicts
    /\ approved' = IF verdict = "APPROVE" THEN approved \cup {ActionOf(k)} ELSE approved
    /\ UNCHANGED <<owner, anchored, bounties>>

TxLands(k) ==
    /\ k.at = "sent"
    /\ \/ Mined(k) /\ Becomes(k, "success")
       \/ Refused(k) /\ Becomes(k, "reverted") /\ UNCHANGED chainVars
    /\ UNCHANGED <<page, late>>

(* What was sent goes on without its handler. *)
LateLands(k) ==
    /\ late' = late \ {k}
    /\ Mined(k) \/ \E verdict \in {"APPROVE", "REJECT"}, ok \in BOOLEAN : Verified(k, verdict, ok)
    /\ UNCHANGED <<address, switches, page, busy, presses, calls>>

-----------------------------------------------------------------------------
(* The handlers return. *)

CompileReturns(k) ==
    /\ k.kind = "compile" /\ Len(owner) < MaxIntents
    /\ owner' = Append(owner, [principal |-> k.by, nonce |-> Nonce(k.by)])
    /\ page' = [Empty EXCEPT !.compile = Len(owner')]
    /\ Returns(k) /\ UNCHANGED <<late, anchored, verdicts, approved, bounties>>

(* POST /agent/offer: whatever the model answers. *)
OfferReturns(k) ==
    /\ k.kind \in {"greedy", "replan"}
    /\ \E plan \in Plans : page' = [page EXCEPT !.action = plan, !.verify = NoVerify]
    /\ Returns(k) /\ UNCHANGED late /\ UNCHANGED chainVars

VerifyReturns(k) ==
    /\ k.kind = "verify"
    /\ \E verdict \in {"APPROVE", "REJECT"}, ok \in BOOLEAN :
        /\ Verified(k, verdict, ok)
        /\ page' = [page EXCEPT !.verify = [action |-> ActionOf(k), verdict |-> verdict]]
    /\ Returns(k) /\ UNCHANGED late

(* A receipt that reverted is an error; one that did not is shown. *)
ReceiptReturns(k) ==
    /\ k.at \in {"success", "reverted"}
    /\ page' = IF k.at = "reverted" THEN page
               ELSE [page EXCEPT !.registerTx = @ \/ k.kind = "register",
                                 !.bountyTx = @ \/ k.kind = "fund", !.claimTx = @ \/ k.kind = "claim"]
    /\ Returns(k) /\ UNCHANGED late /\ UNCHANGED chainVars

(* The call fails or is cancelled before it reaches anyone, or its time is up. *)
GivesUp(k) ==
    /\ k.at = "sent" /\ UNCHANGED page
    /\ late' = late \/ (k.kind \in {"register", "verify", "fund", "claim"} /\ late' = late \cup {k})
    /\ Returns(k) /\ UNCHANGED chainVars

MarketNext ==
    \/ \E a \in Accounts \cup {None} : SetAddress(a)
    \/ PressCompile \/ PressRegister \/ PressOffer \/ PressVerify \/ PressFund \/ PressClaim
    \/ \E k \in calls :
        \/ TxLands(k) \/ CompileReturns(k) \/ OfferReturns(k) \/ VerifyReturns(k)
        \/ ReceiptReturns(k) \/ GivesUp(k)
    \/ \E k \in late : LateLands(k)
MarketSpec == MarketInit /\ [][MarketNext]_marketVars

-----------------------------------------------------------------------------
MarketTypeOK ==
    /\ address \in Accounts \cup {None} /\ switches \in 0 .. MaxSwitches /\ presses \in 0 .. MaxPresses
    /\ busy \in Labels \cup {"none"} /\ (calls = {} => busy = "none")
    /\ page.compile \in 0 .. Len(owner) /\ Len(owner) <= MaxIntents /\ page.action \in Plans \cup {None}
    /\ anchored \subseteq 1 .. Len(owner)
    /\ \A a \in Actions : verdicts[a] # "NONE" => a.intent \in anchored
    /\ \A a \in Actions : bounties[a].claimed => bounties[a].amount = 0

(* Fund and claim stay locked until the stamp is APPROVE (Market.tsx:79, 302):
   whichever handlers overlap, whatever account the wallet has by then and
   however late a transaction lands, money is locked only for an action of a
   registered intent that a verify answered APPROVE of. *)
FundsWereApproved ==
    \A a \in Actions : bounties[a].funder # None => a \in approved /\ a.intent \in anchored

(* Stated by the page (Market.tsx:103) as it points to "Claim": the escrow is
   funded, of the offer it shows. *)
EscrowIsFunded == Guide = "claim" => bounties[page.verify.action].funder # None
=============================================================================
