------------------------------- MODULE MCPages -------------------------------
(***************************************************************************)
(* The web client: the Studio, the Playbook and the Market page, and the   *)
(* readiness probe every page polls.  One page is mounted at a time and    *)
(* each has its own state hooks, so a behaviour exercises one of them,     *)
(* which mounted names, and leaves the others at rest.                     *)
(***************************************************************************)
EXTENDS Studio, TLC

CONSTANTS MaxCalls, PlaybookPresses, SdkCalls,
          MarketPresses, MarketSwitches,
          Probes, Fallible, MaxDown, MaxDefects

VARIABLES
    mounted,
    pbAddress, pbPage, pbBusy, pbPresses, pbCalls, pbOwner, status, pbVerdicts, granted, deposits, sdk,
    mkAddress, mkSwitches, mkPage, mkBusy, mkPresses, mkCalls, mkLate, mkOwner, mkAnchored, mkVerdicts, approved, bounties,
    cfg, holds, probe, held, readyPage

playbookVars == <<pbAddress, pbPage, pbBusy, pbPresses, pbCalls, pbOwner, status, pbVerdicts, granted, deposits, sdk>>
marketVars == <<mkAddress, mkSwitches, mkPage, mkBusy, mkPresses, mkCalls, mkLate, mkOwner, mkAnchored, mkVerdicts,
                approved, bounties>>
readinessVars == <<cfg, holds, probe, held, readyPage>>

Steps == INSTANCE Playbook WITH
    MaxPresses <- PlaybookPresses, address <- pbAddress, page <- pbPage, busy <- pbBusy,
    presses <- pbPresses, calls <- pbCalls, owner <- pbOwner, verdicts <- pbVerdicts
Trade == INSTANCE Market WITH
    MaxPresses <- MarketPresses, MaxSwitches <- MarketSwitches, address <- mkAddress, switches <- mkSwitches,
    page <- mkPage, busy <- mkBusy, presses <- mkPresses, calls <- mkCalls, late <- mkLate, owner <- mkOwner,
    anchored <- mkAnchored, verdicts <- mkVerdicts
Ready == INSTANCE Readiness WITH page <- readyPage

ASSUME PagesAssumption == Steps!PlaybookConstants /\ Trade!MarketConstants /\ Ready!ReadinessConstants

pagesVars == <<mounted, studioVars, playbookVars, marketVars, readinessVars>>

(* Only the readiness probe has more than one configuration to start from. *)
PagesInit ==
    /\ mounted \in {"studio", "playbook", "market", "readiness"}
    /\ StudioInit /\ Steps!PlaybookInit /\ Trade!MarketInit /\ Ready!ReadinessInit
    /\ mounted # "readiness" => cfg = Ready!Complete

StudioStep == mounted = "studio" /\ StudioNext /\ UNCHANGED <<playbookVars, marketVars, readinessVars>>
PlaybookStep == mounted = "playbook" /\ Steps!PlaybookNext /\ UNCHANGED <<studioVars, marketVars, readinessVars>>
MarketStep == mounted = "market" /\ Trade!MarketNext /\ UNCHANGED <<studioVars, playbookVars, readinessVars>>
ReadinessStep == mounted = "readiness" /\ Ready!ReadinessNext /\ UNCHANGED <<studioVars, playbookVars, marketVars>>

PagesNext == UNCHANGED mounted /\ (StudioStep \/ PlaybookStep \/ MarketStep \/ ReadinessStep)
PagesSpec == PagesInit /\ [][PagesNext]_pagesVars

(* No page tells one account from another but by what it did. *)
AccountSymmetry == Permutations(Accounts)

(* Types of the page exercised. *)
PagesTypeOK ==
    CASE mounted = "studio" -> StudioTypeOK
      [] mounted = "playbook" -> Steps!PlaybookTypeOK
      [] mounted = "market" -> Trade!MarketTypeOK
      [] mounted = "readiness" -> Ready!ReadinessTypeOK

(* Of Playbook.tsx and POST /verify/step: see Playbook. *)
PlaybookInOrder == mounted = "playbook" => Steps!PlaybookInOrder

(* Of Market.tsx, /verify/a2a and IntentBounty: see Market. *)
FundsWereApproved == mounted = "market" => Trade!FundsWereApproved

(* Of GET /ready: see Readiness. *)
ReadyIsServable == mounted = "readiness" => Ready!ReadyIsServable
=============================================================================
