----------------------------- MODULE MCVerifier -----------------------------
(***************************************************************************)
(* Small sets of sentences, model drafts and proposals for Verifier.       *)
(***************************************************************************)
EXTENDS Verifier

Plain == [capital |-> {2}, currency |-> "USDC", days |-> {1}, noLeverage |-> TRUE, audited |-> TRUE,
          risk |-> {1}, yield |-> {}, verb |-> "invest", vague |-> FALSE]
MCTexts == {Plain,
            [Plain EXCEPT !.verb = "buy", !.risk = {}, !.days = {}, !.yield = {1}],
            [Plain EXCEPT !.capital = {}, !.noLeverage = FALSE, !.audited = FALSE, !.risk = {3}]}

Whole == [named |-> TRUE, severity |-> {"hard"}, amount |-> {3}, names |-> {}]
Bare == [named |-> FALSE, severity |-> {"hard"}, amount |-> {}, names |-> {}]
MCItems(t) ==
  LET names == CASE t = "max_capital" -> {<<"ETH">>}
                 [] t = "allowed_actions" -> {<<"lend", "deposit">>}
                 [] t = "counterparty_allowlist" -> {<<"alice">>}
                 [] OTHER -> {}
      full == [Whole EXCEPT !.names = names]
  IN {full, [full EXCEPT !.severity = {"soft"}], [full EXCEPT !.amount = {0}], [full EXCEPT !.names = {<<>>}],
      Bare, [Bare EXCEPT !.severity = {"soft"}], [Bare EXCEPT !.amount = {0}]}

NoItems == [t \in {} |-> Whole]
Silent == [hard |-> NoItems, soft |-> NoItems, allowed |-> <<>>, maxRisk |-> {}, valid |-> TRUE]
MCDrafts ==
  {Silent, [Silent EXCEPT !.allowed = <<"lend">>, !.maxRisk = {3}], [Silent EXCEPT !.valid = FALSE]}
  \cup {[Silent EXCEPT !.hard = [t \in {"max_risk_class"} |-> i], !.maxRisk = {3}] : i \in MCItems("max_risk_class")}
  \cup {[Silent EXCEPT !.hard = [t \in {u} |-> i]] : <<u, i>> \in UNION {{u} \X MCItems(u) : u \in Types}}
  \cup {[Silent EXCEPT !.soft = [t \in {u} |-> i]] :
          <<u, i>> \in UNION {{u} \X {[Whole EXCEPT !.names = {<<"ETH">>}], Bare} : u \in {"max_capital", "preferred_yield"}}}

Modest == [type |-> "deposit", capital |-> 2, currency |-> "USDC", asset |-> {}, days |-> {}, leverage |-> FALSE,
           audited |-> TRUE, risk |-> 1, counterparty |-> {"alice"}, apy |-> {3}, planCapital |-> {}, planDays |-> {}]
MCProposals ==
  {[Modest EXCEPT !.leverage = l, !.audited = u, !.risk = r, !.days = d, !.capital = c] :
     l \in BOOLEAN, u \in BOOLEAN, r \in {1, 3}, d \in {{}, {2}}, c \in {2, 3}}
  \cup {[Modest EXCEPT !.currency = "ETH"], [Modest EXCEPT !.type = "lend"], [Modest EXCEPT !.counterparty = {}],
        [Modest EXCEPT !.apy = {0}], [Modest EXCEPT !.planCapital = {3}], [Modest EXCEPT !.type = "purchase"]}
MCScores == {74, 100}
=============================================================================
