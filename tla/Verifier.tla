------------------------------ MODULE Verifier ------------------------------
(***************************************************************************)
(* From a sentence to a verdict: the intent compiler, the reference agent  *)
(* with its replan clamp, the Layer 1 rules, Layer 3 consistency and the   *)
(* verdict.  What a language model answers is any member of Drafts,        *)
(* Proposals and Scores.  An optional value is a set of at most one        *)
(* element; amounts of money, days, risk classes (1..3) and yields are     *)
(* integers; names stands for a currency, a list of actions or of          *)
(* counterparties.  The compiler keeps one constraint per type, so a list  *)
(* of constraints is a function from the types it has.                     *)
(***************************************************************************)
EXTENDS Integers, Sequences, FiniteSets, Functions

CONSTANTS Texts,      \* what a user may state
          Drafts,     \* the envelopes the compiler model may answer
          Proposals,  \* the well-formed actions the agent model may answer
          Scores      \* the percentages the Layer 2 model may answer

VARIABLES stage,    \* how far the session is
          said,     \* the text last compiled
          draft,    \* the model's part of the compiled envelope
          mode,     \* "greedy" or "replan"
          action,   \* the proposed action
          verdict,  \* the last verdict
          answer    \* whether the last request was served

verifierVars == <<stage, said, draft, mode, action, verdict, answer>>

Types == {"max_capital", "max_duration", "no_leverage", "audited_contract_only",
          "allowed_actions", "max_risk_class", "counterparty_allowlist", "preferred_yield"}

(* What a constraint of type t must carry besides its severity and label. *)
NeedsAmount(t) == t \in {"max_capital", "max_duration", "max_risk_class", "preferred_yield"}
NeedsNames(t) == t \in {"max_capital", "allowed_actions", "counterparty_allowlist"}

Hard(amount, names) == [severity |-> "hard", amount |-> amount, names |-> names]
Value(option, default) == IF option = {} THEN default ELSE CHOOSE x \in option : TRUE
Upto(n, m) == IF n > m THEN m ELSE n

-----------------------------------------------------------------------------
(* compileDeterministic: what the regular expressions read in the text. *)

Ambiguous(text) == text.vague \/ (text.capital = {} /\ text.verb \in {"buy", "invest"})
IsPurchase(text) == text.verb \in {"buy", "purchase"}
TextActions(text) == IF IsPurchase(text) THEN <<"purchase">> ELSE <<"deposit", "withdraw", "claim">>

Stated(text) ==
  {t \in Types : \/ t = "max_capital" /\ text.capital # {}
                 \/ t = "max_duration" /\ text.days # {}
                 \/ t = "no_leverage" /\ text.noLeverage
                 \/ t = "audited_contract_only" /\ text.audited
                 \/ t = "max_risk_class" /\ text.risk # {}
                 \/ t = "allowed_actions" /\ ~IsPurchase(text)}

StatedConstraint(text, t) ==
  CASE t = "max_capital" -> Hard(Value(text.capital, 0), <<text.currency>>)
    [] t = "max_duration" -> Hard(Value(text.days, 0), <<>>)
    [] t = "max_risk_class" -> Hard(Value(text.risk, 0), <<>>)
    [] t = "allowed_actions" -> Hard(0, TextActions(text))
    [] OTHER -> Hard(0, <<>>)

StatedHard(text) == [t \in Stated(text) |-> StatedConstraint(text, t)]
StatedSoft(text) ==
  [t \in {u \in {"preferred_yield"} : text.yield # {}} |->
     [severity |-> "soft", amount |-> Value(text.yield, 0), names |-> <<>>]]

\* Faulty variants, for mutation runs: the model's quantities kept; the
\* model's action list kept.
PreferModelQuantities(t, c, det) == c
ReconcileToFallback(hard, fallback) == fallback

(* mergeCompiledConstraints: the model's constraints over the stated ones.
   An item is complete when ConstraintSchema accepts it as it is; one that
   is not is filled from the stated constraint of its type. *)
Acceptable(t, i) == /\ t = "max_duration" => 0 \notin i.amount
                    /\ t = "max_risk_class" => i.amount \subseteq 1..3
                    /\ NeedsNames(t) => <<>> \notin i.names
Complete(t, i) == /\ i.named /\ i.severity # {} /\ Acceptable(t, i)
                  /\ NeedsAmount(t) => i.amount # {}
                  /\ NeedsNames(t) => i.names # {}

Filled(i, c) == [severity |-> Value(i.severity, c.severity),
                 amount |-> Value(i.amount, c.amount), names |-> Value(i.names, c.names)]

PreferDeterministicQuantities(t, c, det) ==
  [c EXCEPT !.amount = IF \/ t \in {"max_capital", "max_duration"} /\ det.amount > 0
                          \/ t = "preferred_yield" THEN det.amount ELSE @,
            !.names = IF t = "max_capital" THEN det.names ELSE @]

MergedConstraint(t, items, det) ==
  IF t \notin DOMAIN items \/ ~Acceptable(t, items[t]) THEN det[t]
  ELSE IF ~Complete(t, items[t]) THEN Filled(items[t], det[t])
  ELSE IF t \notin DOMAIN det THEN Filled(items[t], Hard(0, <<>>))
  ELSE PreferDeterministicQuantities(t, Filled(items[t], det[t]), det[t])

Merged(items, det) ==
  [t \in DOMAIN det \cup {u \in DOMAIN items : Complete(u, items[u])} |->
     MergedConstraint(t, items, det)]

ReconcileAllowedActions(hard, fallback) ==
  IF "allowed_actions" \in DOMAIN hard THEN hard["allowed_actions"].names ELSE fallback

(* compileIntent: the envelope the user is asked to sign. *)
Envelope(text, d) ==
  LET hard == Merged(d.hard, StatedHard(text)) IN
  [hard |-> hard, soft |-> Merged(d.soft, StatedSoft(text)),
   allowed |-> ReconcileAllowedActions(hard, IF d.allowed # <<>> THEN d.allowed ELSE TextActions(text)),
   maxRisk |-> Value(d.maxRisk, IF text.risk = {1} THEN 1 ELSE 2)]

envelope == Envelope(said, draft)

-----------------------------------------------------------------------------
(* evaluateConstraint and evaluateRules: Layer 1. *)

Fails(t, c, a) ==
  \/ t = "max_capital" /\ (Head(c.names) \notin {a.currency} \cup a.asset \/ a.capital > c.amount)
  \/ t = "max_duration" /\ \E d \in a.days : d > c.amount
  \/ t = "no_leverage" /\ a.leverage
  \/ t = "audited_contract_only" /\ ~a.audited
  \/ t = "allowed_actions" /\ a.type \notin Range(c.names)
  \/ t = "max_risk_class" /\ a.risk > c.amount
  \/ t = "counterparty_allowlist" /\ a.counterparty \cap Range(c.names) = {}
  \/ t = "preferred_yield" /\ \E y \in a.apy : y < c.amount

NoHardFail(constraints, a) ==
  \A t \in DOMAIN constraints : constraints[t].severity = "hard" => ~Fails(t, constraints[t], a)

HardConstraintsSatisfied(e, a) ==
  /\ NoHardFail(e.hard, a) /\ NoHardFail(e.soft, a)
  /\ e.allowed # <<>> /\ "allowed_actions" \notin DOMAIN e.hard => a.type \in Range(e.allowed)
  /\ "max_risk_class" \notin DOMAIN e.hard => a.risk <= e.maxRisk

\* A faulty variant, for mutation runs: the clamp caps amounts only.
ClampedAmountOnly(e, a) ==
  [a EXCEPT !.capital = IF "max_capital" \in DOMAIN e.hard THEN Upto(@, e.hard["max_capital"].amount) ELSE @]

(* evaluateConsistency: Layer 3, the fields on which plan, action and
   intent disagree. *)
DriftedFields(e, a) ==
  {f \in {"amount", "duration", "asset", "leverage", "risk", "actionClass"} :
     \/ f = "amount" /\ \E p \in a.planCapital : p # a.capital
     \/ f = "duration" /\ \E p \in a.planDays : {p} # a.days
     \/ f = "asset" /\ "max_capital" \in DOMAIN e.hard /\ Head(e.hard["max_capital"].names) # a.currency
     \/ f = "leverage" /\ "no_leverage" \in DOMAIN e.hard /\ a.leverage
     \/ f = "risk" /\ a.risk > e.maxRisk
     \/ f = "actionClass" /\ a.type \notin Range(e.allowed)}

(* decideVerdict, with the alignment and confidence Layer 2 answers. *)
Verdict(e, a, unresolved, layer2) ==
  LET drift == DriftedFields(e, a)
      alignment == Upto(layer2.alignment, 100 - 20 * Cardinality(drift)) IN
  IF ~HardConstraintsSatisfied(e, a) THEN "REJECT"
  ELSE IF unresolved \/ drift # {} \/ alignment < 75 \/ layer2.confidence < 70 THEN "CHALLENGE"
  ELSE "APPROVE"

(* clampReplanToEnvelope: the caps a replan may not leave to the model. *)
Clamped(e, a) ==
  LET has(t) == t \in DOMAIN e.hard
      cap(t) == e.hard[t].amount
      risk == IF has("max_risk_class") THEN Upto(a.risk, cap("max_risk_class")) ELSE a.risk
      listed == IF has("allowed_actions") THEN e.hard["allowed_actions"].names ELSE e.allowed IN
  [a EXCEPT
     !.capital = IF has("max_capital") THEN Upto(@, cap("max_capital")) ELSE @,
     !.currency = IF has("max_capital") THEN Head(e.hard["max_capital"].names) ELSE @,
     !.days = IF has("max_duration") /\ (@ = {} \/ \E d \in @ : d > cap("max_duration"))
              THEN {cap("max_duration")} ELSE @,
     !.leverage = @ /\ ~has("no_leverage"),
     !.audited = @ \/ has("audited_contract_only"),
     !.type = IF listed = <<>> \/ @ \in Range(listed) THEN @ ELSE Head(listed),
     !.risk = Upto(risk, e.maxRisk)]

-----------------------------------------------------------------------------
VerifierInit ==
  /\ stage = "empty" /\ mode = "greedy" /\ verdict = "NONE" /\ answer = "ok"
  /\ said = CHOOSE t \in Texts : TRUE
  /\ draft = CHOOSE d \in Drafts : TRUE
  /\ action = CHOOSE p \in Proposals : TRUE

(* compileIntent; a draft the envelope schema refuses is not served. *)
Compile ==
  \E t \in Texts, d \in Drafts :
    /\ d.valid
    /\ said' = t /\ draft' = d /\ stage' = "compiled" /\ verdict' = "NONE" /\ answer' = "ok"
    /\ UNCHANGED <<mode, action>>

(* proposeAction: the first answer the schema accepts, of the completion
   and its one repair; replan clamps it. *)
Propose ==
  \E m \in {"greedy", "replan"}, p \in Proposals :
    /\ stage # "empty"
    /\ mode' = m /\ action' = IF m = "replan" THEN Clamped(envelope, p) ELSE p
    /\ stage' = "proposed" /\ verdict' = "NONE" /\ answer' = "ok"
    /\ UNCHANGED <<said, draft>>

(* verifyAction: unresolved terms count only if the client sends its text. *)
Verify ==
  \E sourceText \in BOOLEAN, alignment \in Scores, confidence \in Scores :
    /\ stage \in {"proposed", "verified"}
    /\ verdict' = Verdict(envelope, action, sourceText /\ Ambiguous(said),
                          [alignment |-> alignment, confidence |-> confidence])
    /\ stage' = "verified" /\ answer' = "ok"
    /\ UNCHANGED <<said, draft, mode, action>>

(* No key, an unreachable model, an answer that is not JSON, an invalid
   draft, a second unusable proposal: refused, with nothing guessed. *)
FailClosed == answer' = "refused" /\ UNCHANGED <<stage, said, draft, mode, action, verdict>>

VerifierNext == Compile \/ Propose \/ Verify \/ FailClosed
VerifierSpec == VerifierInit /\ [][VerifierNext]_verifierVars

-----------------------------------------------------------------------------
AtMostOne(option) == \A x, y \in option : x = y
Names == Seq(STRING)
Item == [named : BOOLEAN, severity : SUBSET {"hard", "soft"}, amount : SUBSET Nat, names : SUBSET Names]
IsItems(f) == f = [t \in DOMAIN f |-> f[t]] /\ DOMAIN f \subseteq Types /\ \A t \in DOMAIN f : f[t] \in Item
TextType == [capital : SUBSET Nat, currency : STRING, days : SUBSET (Nat \ {0}), noLeverage : BOOLEAN,
             audited : BOOLEAN, risk : SUBSET {1, 3}, yield : SUBSET Nat,
             verb : {"buy", "purchase", "invest", "other"}, vague : BOOLEAN]
ActionType == [type : STRING, capital : Nat, currency : STRING, asset : SUBSET STRING, days : SUBSET Nat,
               leverage : BOOLEAN, audited : BOOLEAN, risk : 1..3, counterparty : SUBSET STRING,
               apy : SUBSET Nat, planCapital : SUBSET Nat, planDays : SUBSET Nat]

ASSUME VerifierAssumption ==
  /\ Texts # {} /\ Drafts # {} /\ Proposals # {}
  /\ \A t \in Texts : t \in TextType /\ AtMostOne(t.capital) /\ AtMostOne(t.days) /\ AtMostOne(t.risk)
  /\ \A d \in Drafts : /\ IsItems(d.hard) /\ IsItems(d.soft) /\ d.allowed \in Names
                       /\ d.maxRisk \subseteq 1..3 /\ d.valid \in BOOLEAN
  /\ \A p \in Proposals : p \in ActionType
  /\ Scores \subseteq 0..100

(* What the user stated about constraint t, read from the text itself. *)
Keeps(t, text, a) ==
  /\ t = "max_capital" => \A k \in text.capital :
        k > 0 => a.capital <= k /\ text.currency \in {a.currency} \cup a.asset
  /\ t = "max_duration" => \A d \in text.days, n \in a.days : n <= d
  /\ t = "no_leverage" => ~a.leverage
  /\ t = "audited_contract_only" => a.audited
  /\ t = "max_risk_class" => \A r \in text.risk : a.risk <= r
  /\ t = "allowed_actions" => a.type \in Range(TextActions(text))

(* The merge keeps the model's own value of t in place of the stated one:
   of a complete item a risk class or an action list (only money, its
   currency and days are put back), of an incomplete one whatever of the
   value it does carry. *)
Replaced(t) ==
  /\ t \in DOMAIN draft.hard /\ Acceptable(t, draft.hard[t])
  /\ IF Complete(t, draft.hard[t]) THEN t \in {"max_risk_class", "allowed_actions"}
     ELSE \/ NeedsAmount(t) /\ draft.hard[t].amount # {}
          \/ NeedsNames(t) /\ draft.hard[t].names # {}

ObeysStated ==
  \A t \in Stated(said) : ~Replaced(t) /\ envelope.hard[t].severity = "hard" => Keeps(t, said, action)
SoftenedStillChecked ==
  /\ said.noLeverage => ~action.leverage
  /\ said.capital # {} /\ ~Replaced("max_capital") => action.currency = said.currency
  /\ "allowed_actions" \in Stated(said) /\ ~Replaced("allowed_actions") => action.type \in Range(TextActions(said))
  /\ said.risk = {1} /\ draft.maxRisk = {} => action.risk <= 1

(* Whatever the compiler model, the agent model and Layer 2 answer, an
   approved action obeys each limit the user's own sentence states, money
   and its currency, days, leverage, audit, risk class and kind of action,
   that the model left hard and did not replace by a value of its own.  And
   Layer 3 backs what the model did soften: never leverage, another
   currency or another kind of action than stated; and never more than LOW
   risk where the sentence says so and the model names no risk profile, even
   if it replaced the limit.  A stated amount of zero is not promised. *)
ApprovedObeysStated == verdict = "APPROVE" => ObeysStated /\ SoftenedStillChecked

(* The two action lists of an envelope are reconciled: an action that
   satisfies the enforced one never drifts on its class, so Layer 1 and
   Layer 3 cannot contradict each other. *)
ActionListsAgree ==
  stage # "empty" /\ HardConstraintsSatisfied(envelope, action)
    /\ ("allowed_actions" \in DOMAIN envelope.hard => envelope.hard["allowed_actions"].severity = "hard")
      => "actionClass" \notin DriftedFields(envelope, action)

(* What the clamp does not cover: an allowlist or a hard yield, and limits
   the model put into the soft list as hard. *)
Clampable(e) ==
  /\ {"counterparty_allowlist", "preferred_yield"} \cap {t \in DOMAIN e.hard : e.hard[t].severity = "hard"} = {}
  /\ \A t \in DOMAIN e.soft : e.soft[t].severity = "soft"

(* A replan against a clampable envelope is never rejected, whatever the
   agent model proposed. *)
ReplanNotRejected ==
  stage \in {"proposed", "verified"} /\ mode = "replan" /\ Clampable(envelope) => verdict # "REJECT"
    /\ HardConstraintsSatisfied(envelope, action)

(* Stated by README.md:49 (a replan stays inside the envelope): no exception
   for constraints the clamp does not cover. *)
ReplanStaysInside ==
  stage \in {"proposed", "verified"} /\ mode = "replan" => NoHardFail(envelope.hard, action)

(* Stated by compiler.ts:77: quantities read in the text win when the model
   omits or zeros them. *)
StatedQuantityWins ==
  stage # "empty" =>
    \A t \in Stated(said) \cap {"max_capital", "max_duration"} :
      (t \in DOMAIN draft.hard => draft.hard[t].amount \in {{}, {0}})
        => envelope.hard[t].amount = StatedConstraint(said, t).amount
=============================================================================
