----------------------------- MODULE VerifierProofs -----------------------------
(***************************************************************************)
(* For any sentences, drafts, proposals and scores the models may answer:  *)
(* an approved action obeys what the sentence states, but for what the     *)
(* model softened or replaced; the two action lists of an envelope agree;  *)
(* and a clamped replan is not rejected.                                   *)
(*                                                                         *)
(* The lemmas say what the merge makes of the model's answer (SoundHard,   *)
(* StatedKept) and the clamp of a proposal (ClampFits); the invariant only *)
(* ties the verdict and the action to the envelope they were made under.   *)
(***************************************************************************)
EXTENDS Verifier, SequenceTheorems, TLAPS

\* What may be relied on of a list, and of a constraint of type t.
Listed(s) == s # <<>> => Head(s) \in Range(s)
Sound(t, c) ==
    /\ c.amount \in Nat /\ Listed(c.names)
    /\ NeedsNames(t) => c.names # <<>>

-----------------------------------------------------------------------------
(* Options and lists.                                                      *)

LEMMA ValueIn ==
    ASSUME NEW S, NEW option \in SUBSET S, NEW default, option = {} => default \in S
    PROVE  Value(option, default) \in S
BY DEF Value

LEMMA ValueNamed ==
    ASSUME NEW option, AtMostOne(option), NEW x \in option, NEW default
    PROVE  Value(option, default) = x
BY DEF Value, AtMostOne

LEMMA NamesListed ==
    ASSUME NEW s \in Names
    PROVE  Listed(s)
<1> SUFFICES ASSUME s # <<>> PROVE Head(s) \in Range(s)
  BY DEF Listed
<1>1. Len(s) \in Nat /\ DOMAIN s = 1 .. Len(s) /\ Len(s) > 0 /\ Head(s) = s[1]
  BY EmptySeq, LenProperties, HeadTailProperties DEF Names
<1> QED
  BY <1>1 DEF Range

LEMMA TuplesListed ==
    ASSUME NEW x, NEW y, NEW z
    PROVE  Listed(<<x>>) /\ Listed(<<x, y, z>>) /\ Listed(<<>>) /\ <<x>> # <<>> /\ <<x, y, z>> # <<>>
BY DEF Listed, Range

LEMMA UptoBounds ==
    ASSUME NEW n \in Nat, NEW m \in Nat
    PROVE  Upto(n, m) \in Nat /\ Upto(n, m) <= m /\ Upto(n, m) <= n
BY DEF Upto

-----------------------------------------------------------------------------
(* compileDeterministic and mergeCompiledConstraints.                      *)

LEMMA TextTypes ==
    ASSUME NEW text \in Texts
    PROVE  /\ text.capital \subseteq Nat /\ text.days \subseteq Nat \ {0} /\ text.risk \subseteq Nat /\ text.risk \subseteq {1, 3}
           /\ text.currency \in STRING /\ AtMostOne(text.capital) /\ AtMostOne(text.days)
           /\ AtMostOne(text.risk)
BY VerifierAssumption DEF VerifierAssumption, TextType

LEMMA TextActionsType ==
    ASSUME NEW text
    PROVE  Listed(TextActions(text)) /\ TextActions(text) # <<>>
BY TuplesListed DEF TextActions

LEMMA StatedSound ==
    ASSUME NEW text \in Texts, NEW t \in Stated(text)
    PROVE  Sound(t, StatedConstraint(text, t))
<1>1. Listed(<<text.currency>>) /\ <<text.currency>> # <<>> /\ Listed(<<>>)
  BY TuplesListed
<1>2. Value(text.capital, 0) \in Nat /\ Value(text.days, 0) \in Nat /\ Value(text.risk, 0) \in Nat
  BY TextTypes, ValueIn
<1>3. Listed(TextActions(text)) /\ TextActions(text) # <<>>
  BY TextActionsType
<1>4. \A n, s : Hard(n, s).amount = n /\ Hard(n, s).names = s
  BY DEF Hard
<1>5. t # "counterparty_allowlist"
  BY DEF Stated
<1>6. CASE t = "max_capital"
  BY <1>1, <1>2, <1>4, <1>6 DEF Sound, StatedConstraint
<1>7. CASE t = "max_duration"
  BY <1>1, <1>2, <1>4, <1>7 DEF Sound, StatedConstraint, NeedsNames
<1>8. CASE t = "max_risk_class"
  BY <1>1, <1>2, <1>4, <1>8 DEF Sound, StatedConstraint, NeedsNames
<1>9. CASE t = "allowed_actions"
  BY <1>1, <1>3, <1>4, <1>9 DEF Sound, StatedConstraint
<1>10. CASE t \notin {"max_capital", "max_duration", "max_risk_class", "allowed_actions"}
  <2>1. StatedConstraint(text, t) = Hard(0, <<>>)
    BY <1>10 DEF StatedConstraint
  <2> QED
    BY <1>1, <1>4, <1>5, <1>10, <2>1 DEF Sound, NeedsNames
<1> QED
  BY <1>6, <1>7, <1>8, <1>9, <1>10

LEMMA FilledSound ==
    ASSUME NEW t, NEW i \in Item, NEW c, c.amount \in Nat, Listed(c.names),
           Acceptable(t, i), NeedsNames(t) => i.names # {} \/ c.names # <<>>
    PROVE  Sound(t, Filled(i, c))
<1>1. i.amount \subseteq Nat /\ i.names \subseteq Names
  BY DEF Item
<1>2. Value(i.amount, c.amount) \in Nat
  BY <1>1, ValueIn
<1>4. Listed(Value(i.names, c.names))
  <2>1. CASE i.names = {}
    BY <2>1 DEF Value
  <2>2. CASE i.names # {}
    <3>1. Value(i.names, c.names) \in Names
      BY <1>1, <2>2, ValueIn
    <3> QED
      BY <3>1, NamesListed
  <2> QED
    BY <2>1, <2>2
<1>3. NeedsNames(t) => Value(i.names, c.names) # <<>>
  BY DEF Value, Acceptable
<1> QED
  BY <1>2, <1>3, <1>4 DEF Sound, Filled

\* Whatever the model answers, a constraint of the envelope carries an amount
\* and a list, and the list is not empty where the type needs one.
LEMMA SoundMerged ==
    ASSUME NEW text \in Texts, NEW items, IsItems(items),
           NEW t \in DOMAIN Merged(items, StatedHard(text))
    PROVE  Sound(t, Merged(items, StatedHard(text))[t])
<1> DEFINE det == StatedHard(text)
           i == items[t]
<1>1. DOMAIN det = Stated(text) /\ (t \in DOMAIN det => Sound(t, det[t]))
  BY StatedSound DEF StatedHard
<1>2. t \in DOMAIN det \/ (t \in DOMAIN items /\ Complete(t, i))
  BY DEF Merged
<1>3. Merged(items, det)[t] = MergedConstraint(t, items, det)
  BY DEF Merged
<1>4. t \in DOMAIN items => i \in Item
  BY DEF IsItems
<1> HIDE DEF det
<1>5. CASE t \notin DOMAIN items \/ ~Acceptable(t, i)
  <2>1. t \in DOMAIN det
    BY <1>2, <1>5 DEF Complete
  <2> QED
    BY <1>1, <1>3, <1>5, <2>1 DEF MergedConstraint, det
<1>6. CASE t \in DOMAIN items /\ Acceptable(t, i) /\ ~Complete(t, i)
  <2>1. Sound(t, det[t])
    BY <1>1, <1>2, <1>6
  <2>2. Sound(t, Filled(i, det[t]))
    BY <1>4, <1>6, <2>1, FilledSound DEF Sound
  <2> QED
    BY <1>3, <1>6, <2>2 DEF MergedConstraint, det
<1>7. CASE t \in DOMAIN items /\ Acceptable(t, i) /\ Complete(t, i) /\ t \notin DOMAIN det
  <2>1. Hard(0, <<>>).amount \in Nat /\ Listed(Hard(0, <<>>).names)
    BY TuplesListed DEF Hard
  <2>2. Sound(t, Filled(i, Hard(0, <<>>)))
    BY <1>4, <1>7, <2>1, FilledSound DEF Complete
  <2> QED
    BY <1>3, <1>7, <2>2 DEF MergedConstraint, det
<1>8. CASE t \in DOMAIN items /\ Acceptable(t, i) /\ Complete(t, i) /\ t \in DOMAIN det
  <2> DEFINE c == Filled(i, det[t])
             m == PreferDeterministicQuantities(t, c, det[t])
  <2>1. Sound(t, det[t]) /\ Sound(t, c)
    BY <1>1, <1>4, <1>8, FilledSound DEF Sound
  <2>2. /\ m.amount \in {c.amount, det[t].amount}
        /\ m.names = IF t = "max_capital" THEN det[t].names ELSE c.names
    BY DEF PreferDeterministicQuantities, Filled
  <2>3. Sound(t, m)
    BY <2>1, <2>2 DEF Sound
  <2> QED
    BY <1>3, <1>8, <2>3 DEF MergedConstraint, det
<1> QED
  BY <1>5, <1>6, <1>7, <1>8 DEF det

\* What the sentence states stays in the envelope, unless the merge puts a
\* value of the model's in its place (Replaced, of any draft).
ReplacedIn(d, t) ==
    /\ t \in DOMAIN d.hard /\ Acceptable(t, d.hard[t])
    /\ IF Complete(t, d.hard[t]) THEN t \in {"max_risk_class", "allowed_actions"}
       ELSE \/ NeedsAmount(t) /\ d.hard[t].amount # {}
            \/ NeedsNames(t) /\ d.hard[t].names # {}

LEMMA StatedKept ==
    ASSUME NEW text \in Texts, NEW d \in Drafts, NEW t \in Stated(text), ~ReplacedIn(d, t)
    PROVE  LET c == Envelope(text, d).hard[t]
               s == StatedConstraint(text, t) IN
           /\ t \in DOMAIN Envelope(text, d).hard
           /\ t \in {"max_capital", "allowed_actions"} => c.names = s.names
           /\ t = "max_risk_class" => c.amount = s.amount
           /\ t \in {"max_capital", "max_duration"} /\ s.amount > 0 => c.amount = s.amount
<1> DEFINE det == StatedHard(text)
           items == d.hard
           i == items[t]
           s == StatedConstraint(text, t)
           c == Merged(items, det)[t]
<1>1. Envelope(text, d).hard = Merged(items, det)
  BY DEF Envelope
<1>2. t \in DOMAIN det /\ det[t] = s
  BY DEF StatedHard
<1>3. t \in DOMAIN Merged(items, det) /\ c = MergedConstraint(t, items, det)
  BY <1>2 DEF Merged
<1> HIDE DEF det, s
<1>4. CASE t \notin DOMAIN items \/ ~Acceptable(t, i)
  BY <1>1, <1>2, <1>3, <1>4 DEF MergedConstraint, s
<1>5. CASE t \in DOMAIN items /\ Acceptable(t, i) /\ ~Complete(t, i)
  <2>1. c = Filled(i, s)
    BY <1>2, <1>3, <1>5 DEF MergedConstraint
  <2>2. (NeedsAmount(t) => i.amount = {}) /\ (NeedsNames(t) => i.names = {})
    BY <1>5 DEF ReplacedIn
  <2>3. (NeedsAmount(t) => c.amount = s.amount) /\ (NeedsNames(t) => c.names = s.names)
    BY <2>1, <2>2 DEF Filled, Value
  <2> QED
    BY <1>1, <1>3, <2>3 DEF s, NeedsAmount, NeedsNames
<1>6. CASE t \in DOMAIN items /\ Acceptable(t, i) /\ Complete(t, i)
  <2>1. c = PreferDeterministicQuantities(t, Filled(i, s), s)
    BY <1>2, <1>3, <1>6 DEF MergedConstraint
  <2>2. /\ t = "max_capital" => c.names = s.names
        /\ t \in {"max_capital", "max_duration"} /\ s.amount > 0 => c.amount = s.amount
    BY <2>1 DEF PreferDeterministicQuantities, Filled
  <2>3. t \notin {"max_risk_class", "allowed_actions"}
    BY <1>6 DEF ReplacedIn
  <2> QED
    BY <1>1, <1>3, <2>2, <2>3 DEF s
<1> QED
  BY <1>4, <1>5, <1>6

LEMMA EnvelopeSound ==
    ASSUME NEW text \in Texts, NEW d \in Drafts
    PROVE  LET e == Envelope(text, d) IN
           /\ DOMAIN e.hard \subseteq Types /\ \A t \in DOMAIN e.hard : Sound(t, e.hard[t])
           /\ DOMAIN e.soft \subseteq Types
           /\ Listed(e.allowed) /\ e.allowed # <<>> /\ e.maxRisk \in 1 .. 3
           /\ "allowed_actions" \in DOMAIN e.hard => e.allowed = e.hard["allowed_actions"].names
<1> DEFINE e == Envelope(text, d)
           det == StatedHard(text)
<1>1. IsItems(d.hard) /\ IsItems(d.soft) /\ d.allowed \in Names /\ d.maxRisk \subseteq 1 .. 3
  BY VerifierAssumption DEF VerifierAssumption
<1>2. e.hard = Merged(d.hard, det) /\ e.soft = Merged(d.soft, StatedSoft(text))
  BY DEF Envelope
<1>3. DOMAIN e.hard \subseteq Types
  <2>1. DOMAIN det \subseteq Types
    BY DEF StatedHard, Stated
  <2> QED
    BY <1>1, <1>2, <2>1 DEF Merged, IsItems
<1>4. DOMAIN e.soft \subseteq Types
  <2>1. DOMAIN StatedSoft(text) \subseteq Types
    BY DEF StatedSoft, Types
  <2> QED
    BY <1>1, <1>2, <2>1 DEF Merged, IsItems
<1>5. \A t \in DOMAIN e.hard : Sound(t, e.hard[t])
  BY <1>1, <1>2, SoundMerged
<1>6. e.maxRisk \in 1 .. 3
  <2>1. e.maxRisk = Value(d.maxRisk, IF text.risk = {1} THEN 1 ELSE 2)
    BY DEF Envelope
  <2>2. d.maxRisk \in SUBSET (1 .. 3) /\ (IF text.risk = {1} THEN 1 ELSE 2) \in 1 .. 3
    BY <1>1
  <2>3. Value(d.maxRisk, IF text.risk = {1} THEN 1 ELSE 2) \in 1 .. 3
    BY <2>2, ValueIn
  <2> QED
    BY <2>1, <2>3
<1>7. e.allowed = IF "allowed_actions" \in DOMAIN e.hard THEN e.hard["allowed_actions"].names
                  ELSE IF d.allowed # <<>> THEN d.allowed ELSE TextActions(text)
  BY DEF Envelope, ReconcileAllowedActions
<1>8. Listed(e.allowed) /\ e.allowed # <<>>
  BY <1>1, <1>5, <1>7, TextActionsType, NamesListed DEF Sound, NeedsNames
<1> QED
  BY <1>3, <1>4, <1>5, <1>6, <1>7, <1>8

-----------------------------------------------------------------------------
(* clampReplanToEnvelope.                                                  *)

\* What a clamped proposal satisfies of a sound envelope.
LEMMA ClampFits ==
    ASSUME NEW text \in Texts, NEW d \in Drafts, NEW p \in ActionType
    PROVE  LET e == Envelope(text, d)
               a == Clamped(e, p) IN
           /\ a.capital \in Nat /\ a.days \subseteq Nat /\ a.risk \in Nat /\ a.risk <= e.maxRisk
           /\ "max_capital" \in DOMAIN e.hard =>
                a.currency = Head(e.hard["max_capital"].names) /\ a.capital <= e.hard["max_capital"].amount
           /\ "max_duration" \in DOMAIN e.hard => \A n \in a.days : n <= e.hard["max_duration"].amount
           /\ "no_leverage" \in DOMAIN e.hard => ~a.leverage
           /\ "audited_contract_only" \in DOMAIN e.hard => a.audited
           /\ "max_risk_class" \in DOMAIN e.hard => a.risk <= e.hard["max_risk_class"].amount
           /\ a.type \in Range(e.allowed)
<1> DEFINE e == Envelope(text, d)
           a == Clamped(e, p)
           has(t) == t \in DOMAIN e.hard
           cap(t) == e.hard[t].amount
           risk == IF has("max_risk_class") THEN Upto(p.risk, cap("max_risk_class")) ELSE p.risk
           listed == IF has("allowed_actions") THEN e.hard["allowed_actions"].names ELSE e.allowed
<1>1. /\ \A t \in DOMAIN e.hard : Sound(t, e.hard[t])
      /\ Listed(e.allowed) /\ e.allowed # <<>> /\ e.maxRisk \in 1 .. 3
      /\ has("allowed_actions") => e.allowed = e.hard["allowed_actions"].names
  BY EnvelopeSound
<1>2. \A t \in DOMAIN e.hard : cap(t) \in Nat
  BY <1>1 DEF Sound
<1> HIDE DEF e
<1>3. /\ a.capital = IF has("max_capital") THEN Upto(p.capital, cap("max_capital")) ELSE p.capital
      /\ a.currency = IF has("max_capital") THEN Head(e.hard["max_capital"].names) ELSE p.currency
      /\ a.days = IF has("max_duration") /\ (p.days = {} \/ \E n \in p.days : n > cap("max_duration"))
                  THEN {cap("max_duration")} ELSE p.days
      /\ a.type = IF listed = <<>> \/ p.type \in Range(listed) THEN p.type ELSE Head(listed)
      /\ a.risk = Upto(risk, e.maxRisk)
  BY DEF Clamped, ActionType
<1>4. a.leverage = (p.leverage /\ ~has("no_leverage")) /\ a.audited = (p.audited \/ has("audited_contract_only"))
  BY DEF Clamped, ActionType
<1>5. p.capital \in Nat /\ p.days \subseteq Nat /\ p.risk \in Nat /\ p.leverage \in BOOLEAN /\ p.audited \in BOOLEAN
  BY DEF ActionType
<1> HIDE DEF a
<1>6. a.capital \in Nat /\ (has("max_capital") => a.capital <= cap("max_capital"))
  BY <1>2, <1>3, <1>5, UptoBounds
<1>7. a.days \subseteq Nat /\ (has("max_duration") => \A n \in a.days : n <= cap("max_duration"))
  <2>1. CASE has("max_duration")
    <3>1. cap("max_duration") \in Nat
      BY <1>2, <2>1
    <3>2. CASE p.days = {} \/ \E n \in p.days : n > cap("max_duration")
      BY <1>3, <2>1, <3>1, <3>2
    <3>3. CASE ~(p.days = {} \/ \E n \in p.days : n > cap("max_duration"))
      BY <1>3, <1>5, <2>1, <3>1, <3>3
    <3> QED
      BY <3>2, <3>3
  <2>2. CASE ~has("max_duration")
    BY <1>3, <1>5, <2>2
  <2> QED
    BY <2>1, <2>2
<1>8. a.risk \in Nat /\ a.risk <= e.maxRisk /\ (has("max_risk_class") => a.risk <= cap("max_risk_class"))
  <2>1. risk \in Nat /\ (has("max_risk_class") => risk <= cap("max_risk_class"))
    BY <1>2, <1>5, UptoBounds
  <2>2. e.maxRisk \in Nat
    BY <1>1
  <2> HIDE DEF risk
  <2>3. a.risk \in Nat /\ a.risk <= e.maxRisk /\ a.risk <= risk
    BY <1>3, <2>1, <2>2, UptoBounds
  <2>4. has("max_risk_class") => cap("max_risk_class") \in Nat
    BY <1>2
  <2> QED
    BY <2>1, <2>3, <2>4
<1>9. a.type \in Range(e.allowed)
  <2>1. listed = e.allowed
    BY <1>1
  <2> HIDE DEF listed
  <2> QED
    BY <1>1, <1>3, <2>1 DEF Listed
<1>10. (has("no_leverage") => ~a.leverage) /\ (has("audited_contract_only") => a.audited)
  BY <1>4, <1>5
<1> QED
  BY <1>3, <1>6, <1>7, <1>8, <1>9, <1>10 DEF e, a

\* A clamped proposal passes Layer 1 of a clampable envelope.
LEMMA ClampPasses ==
    ASSUME NEW text \in Texts, NEW d \in Drafts, NEW p \in Proposals, Clampable(Envelope(text, d))
    PROVE  HardConstraintsSatisfied(Envelope(text, d), Clamped(Envelope(text, d), p))
<1> DEFINE e == Envelope(text, d)
           a == Clamped(e, p)
<1>1. p \in ActionType
  BY VerifierAssumption DEF VerifierAssumption
<1>2. /\ DOMAIN e.hard \subseteq Types /\ \A t \in DOMAIN e.hard : Sound(t, e.hard[t])
      /\ Listed(e.allowed) /\ e.allowed # <<>> /\ e.maxRisk \in 1 .. 3
      /\ "allowed_actions" \in DOMAIN e.hard => e.allowed = e.hard["allowed_actions"].names
  BY EnvelopeSound
<1>3. /\ a.capital \in Nat /\ a.days \subseteq Nat /\ a.risk \in Nat /\ a.risk <= e.maxRisk
      /\ "max_capital" \in DOMAIN e.hard =>
           a.currency = Head(e.hard["max_capital"].names) /\ a.capital <= e.hard["max_capital"].amount
      /\ "max_duration" \in DOMAIN e.hard => \A n \in a.days : n <= e.hard["max_duration"].amount
      /\ "no_leverage" \in DOMAIN e.hard => ~a.leverage
      /\ "audited_contract_only" \in DOMAIN e.hard => a.audited
      /\ "max_risk_class" \in DOMAIN e.hard => a.risk <= e.hard["max_risk_class"].amount
      /\ a.type \in Range(e.allowed)
  BY <1>1, ClampFits
<1>4. Clampable(e)
  OBVIOUS
<1> HIDE DEF e, a
<1>5. ASSUME NEW t \in DOMAIN e.hard, e.hard[t].severity = "hard" PROVE ~Fails(t, e.hard[t], a)
  <2> DEFINE c == e.hard[t]
  <2>1. c.amount \in Nat
    BY <1>2, <1>5 DEF Sound
  <2>2. t \notin {"counterparty_allowlist", "preferred_yield"}
    BY <1>4, <1>5 DEF Clampable
  <2>3. t = "max_capital" => Head(c.names) \in {a.currency} \cup a.asset /\ ~(a.capital > c.amount)
    BY <1>3, <2>1
  <2>4. t = "max_duration" => ~\E n \in a.days : n > c.amount
    BY <1>3, <2>1
  <2>5. t = "max_risk_class" => ~(a.risk > c.amount)
    BY <1>3, <2>1
  <2>6. t = "allowed_actions" => a.type \in Range(c.names)
    BY <1>2, <1>3
  <2>7. (t = "no_leverage" => ~a.leverage) /\ (t = "audited_contract_only" => a.audited)
    BY <1>3
  <2> QED
    BY <2>2, <2>3, <2>4, <2>5, <2>6, <2>7 DEF Fails
<1>6. NoHardFail(e.hard, a)
  BY <1>5 DEF NoHardFail
<1>7. NoHardFail(e.soft, a)
  BY <1>4 DEF NoHardFail, Clampable
<1>8. HardConstraintsSatisfied(e, a)
  BY <1>3, <1>6, <1>7 DEF HardConstraintsSatisfied
<1> QED
  BY <1>8 DEF e, a

-----------------------------------------------------------------------------
(* Sessions.                                                               *)

ActionSound == action.capital \in Nat /\ action.days \subseteq Nat /\ action.risk \in Nat

\* The verdict speaks of the envelope and the action the session holds.
VerdictSound ==
    /\ verdict = "APPROVE" => /\ HardConstraintsSatisfied(envelope, action)
                              /\ DriftedFields(envelope, action) = {}
    /\ verdict = "REJECT" => ~HardConstraintsSatisfied(envelope, action)
Replanned ==
    stage \in {"proposed", "verified"} /\ mode = "replan" => \E p \in Proposals : action = Clamped(envelope, p)
VerifierIInv == said \in Texts /\ draft \in Drafts /\ ActionSound /\ VerdictSound /\ Replanned

LEMMA VerifierInitIInv == VerifierInit => VerifierIInv
<1> SUFFICES ASSUME VerifierInit PROVE VerifierIInv
  OBVIOUS
<1>1. said \in Texts /\ draft \in Drafts /\ action \in Proposals
  BY VerifierAssumption DEF VerifierAssumption, VerifierInit
<1>2. action \in ActionType
  BY <1>1, VerifierAssumption DEF VerifierAssumption
<1>3. ActionSound
  BY <1>2 DEF ActionSound, ActionType
<1> QED
  BY <1>1, <1>3 DEF VerifierInit, VerifierIInv, VerdictSound, Replanned

LEMMA ProposeIInv == VerifierIInv /\ Propose => VerifierIInv'
<1> SUFFICES ASSUME VerifierIInv, Propose PROVE VerifierIInv'
  OBVIOUS
<1>1. PICK m \in {"greedy", "replan"}, p \in Proposals :
        mode' = m /\ action' = IF m = "replan" THEN Clamped(envelope, p) ELSE p
  BY DEF Propose
<1>2. UNCHANGED <<said, draft>> /\ verdict' = "NONE" /\ said \in Texts /\ draft \in Drafts
  BY DEF Propose, VerifierIInv
<1>3. envelope' = envelope
  BY <1>2 DEF envelope
<1>4. p \in ActionType
  BY VerifierAssumption DEF VerifierAssumption
<1>5. /\ Clamped(envelope, p).capital \in Nat /\ Clamped(envelope, p).days \subseteq Nat
      /\ Clamped(envelope, p).risk \in Nat
  BY <1>2, <1>4, ClampFits DEF envelope
<1>6. p.capital \in Nat /\ p.days \subseteq Nat /\ p.risk \in Nat
  BY <1>4 DEF ActionType
<1>7. ActionSound'
  BY <1>1, <1>5, <1>6 DEF ActionSound
<1>8. Replanned'
  BY <1>1, <1>3 DEF Replanned
<1>9. VerdictSound'
  BY <1>2 DEF VerdictSound
<1> QED
  BY <1>2, <1>7, <1>8, <1>9 DEF VerifierIInv

LEMMA VerifyIInv == VerifierIInv /\ Verify => VerifierIInv'
<1> SUFFICES ASSUME VerifierIInv, Verify PROVE VerifierIInv'
  OBVIOUS
<1>1. UNCHANGED <<said, draft, mode, action>> /\ stage \in {"proposed", "verified"}
  BY DEF Verify
<1>2. envelope' = envelope
  BY <1>1 DEF envelope
<1>3. PICK u, l : verdict' = Verdict(envelope, action, u, l)
  BY DEF Verify
<1>4. /\ verdict' = "APPROVE" => HardConstraintsSatisfied(envelope, action) /\ DriftedFields(envelope, action) = {}
      /\ verdict' = "REJECT" => ~HardConstraintsSatisfied(envelope, action)
  BY <1>3 DEF Verdict
<1>5. VerdictSound'
  BY <1>1, <1>2, <1>4 DEF VerdictSound
<1>6. Replanned'
  BY <1>1, <1>2 DEF Replanned, VerifierIInv
<1> QED
  BY <1>1, <1>5, <1>6 DEF VerifierIInv, ActionSound

LEMMA VerifierNextIInv == VerifierIInv /\ [VerifierNext]_verifierVars => VerifierIInv'
<1> SUFFICES ASSUME VerifierIInv, [VerifierNext]_verifierVars PROVE VerifierIInv'
  OBVIOUS
<1>1. CASE Compile
  BY <1>1 DEF Compile, VerifierIInv, ActionSound, VerdictSound, Replanned
<1>2. CASE Propose
  BY <1>2, ProposeIInv
<1>3. CASE Verify
  BY <1>3, VerifyIInv
<1>4. CASE FailClosed \/ UNCHANGED verifierVars
  BY <1>4 DEF FailClosed, verifierVars, VerifierIInv, ActionSound, VerdictSound, Replanned, envelope
<1> QED
  BY <1>1, <1>2, <1>3, <1>4 DEF VerifierNext

LEMMA VerifierInvariant == VerifierSpec => []VerifierIInv
BY VerifierInitIInv, VerifierNextIInv, PTL DEF VerifierSpec

-----------------------------------------------------------------------------
(* What an approval shows of the sentence.                                 *)

LEMMA ApprovedKeeps ==
    ASSUME VerifierIInv, verdict = "APPROVE", NEW t \in Stated(said), ~Replaced(t), envelope.hard[t].severity = "hard"
    PROVE  Keeps(t, said, action)
<1> DEFINE c == envelope.hard[t]
           s == StatedConstraint(said, t)
<1>1. /\ said \in Texts /\ draft \in Drafts
      /\ action.capital \in Nat /\ action.days \subseteq Nat /\ action.risk \in Nat
  BY DEF VerifierIInv, ActionSound
<1>2. /\ t \in DOMAIN envelope.hard
      /\ t \in {"max_capital", "allowed_actions"} => c.names = s.names
      /\ t = "max_risk_class" => c.amount = s.amount
      /\ t \in {"max_capital", "max_duration"} /\ s.amount > 0 => c.amount = s.amount
  BY <1>1, StatedKept DEF envelope, Replaced, ReplacedIn
<1>3. ~Fails(t, c, action)
  BY <1>2 DEF VerifierIInv, VerdictSound, HardConstraintsSatisfied, NoHardFail
<1> HIDE DEF c
<1>4. CASE t = "max_capital"
  <2> SUFFICES ASSUME NEW k \in said.capital, k > 0
               PROVE  action.capital <= k /\ said.currency \in {action.currency} \cup action.asset
    BY <1>4 DEF Keeps
  <2>1. k \in Nat /\ Value(said.capital, 0) = k
    BY <1>1, TextTypes, ValueNamed
  <2>2. s.amount = k /\ s.names = <<said.currency>>
    BY <1>4, <2>1 DEF StatedConstraint, Hard
  <2>3. c.amount = k /\ Head(c.names) = said.currency
    BY <1>2, <1>4, <2>2
  <2> QED
    BY <1>1, <1>3, <1>4, <2>1, <2>3 DEF Fails
<1>5. CASE t = "max_duration"
  <2> SUFFICES ASSUME NEW d \in said.days, NEW n \in action.days
               PROVE  n <= d
    BY <1>5 DEF Keeps
  <2>1. d \in Nat /\ d > 0 /\ Value(said.days, 0) = d
    BY <1>1, TextTypes, ValueNamed
  <2>2. s.amount = d
    BY <1>5, <2>1 DEF StatedConstraint, Hard
  <2>3. c.amount = d
    BY <1>2, <1>5, <2>1, <2>2
  <2> QED
    BY <1>1, <1>3, <1>5, <2>1, <2>3 DEF Fails
<1>6. CASE t = "max_risk_class"
  <2> SUFFICES ASSUME NEW r \in said.risk PROVE action.risk <= r
    BY <1>6 DEF Keeps
  <2>1. r \in Nat /\ Value(said.risk, 0) = r
    BY <1>1, TextTypes, ValueNamed
  <2>2. c.amount = r
    BY <1>2, <1>6, <2>1 DEF StatedConstraint, Hard
  <2> QED
    BY <1>1, <1>3, <1>6, <2>1, <2>2 DEF Fails
<1>7. CASE t = "allowed_actions"
  <2>1. c.names = TextActions(said)
    BY <1>2, <1>7 DEF StatedConstraint, Hard
  <2> QED
    BY <1>3, <1>7, <2>1 DEF Fails, Keeps
<1>8. CASE t \notin {"max_capital", "max_duration", "max_risk_class", "allowed_actions"}
  BY <1>3, <1>8 DEF Fails, Keeps
<1> QED
  BY <1>4, <1>5, <1>6, <1>7, <1>8

LEMMA ApprovedUndrifted ==
    ASSUME VerifierIInv, verdict = "APPROVE"
    PROVE  SoftenedStillChecked
<1>1. said \in Texts /\ draft \in Drafts /\ action.risk \in Nat /\ DriftedFields(envelope, action) = {}
  BY DEF VerifierIInv, VerdictSound, ActionSound
<1>2. ASSUME said.noLeverage PROVE ~action.leverage
  <2>1. "no_leverage" \in Stated(said)
    BY <1>2 DEF Stated, Types
  <2>2. "no_leverage" \in DOMAIN envelope.hard
    BY <2>1 DEF envelope, Envelope, Merged, StatedHard
  <2> QED
    BY <1>1, <2>2 DEF DriftedFields
<1>3. ASSUME said.capital # {}, ~Replaced("max_capital") PROVE action.currency = said.currency
  <2>1. "max_capital" \in Stated(said)
    BY <1>3 DEF Stated, Types
  <2>2. /\ "max_capital" \in DOMAIN envelope.hard
        /\ envelope.hard["max_capital"].names = StatedConstraint(said, "max_capital").names
    BY <1>1, <1>3, <2>1, StatedKept DEF envelope, Replaced, ReplacedIn
  <2>3. StatedConstraint(said, "max_capital").names = <<said.currency>>
    BY DEF StatedConstraint, Hard
  <2>4. Head(envelope.hard["max_capital"].names) = action.currency
    BY <1>1, <2>2 DEF DriftedFields
  <2> QED
    BY <2>2, <2>3, <2>4
<1>4. ASSUME "allowed_actions" \in Stated(said), ~Replaced("allowed_actions")
      PROVE  action.type \in Range(TextActions(said))
  <2>1. /\ "allowed_actions" \in DOMAIN envelope.hard
        /\ envelope.hard["allowed_actions"].names = StatedConstraint(said, "allowed_actions").names
    BY <1>1, <1>4, StatedKept DEF envelope, Replaced, ReplacedIn
  <2>2. StatedConstraint(said, "allowed_actions").names = TextActions(said)
    BY DEF StatedConstraint, Hard
  <2>3. envelope.allowed = TextActions(said)
    BY <1>1, <2>1, <2>2, EnvelopeSound DEF envelope
  <2> QED
    BY <1>1, <2>3 DEF DriftedFields
<1>5. ASSUME said.risk = {1}, draft.maxRisk = {} PROVE action.risk <= 1
  <2>1. envelope.maxRisk = 1
    BY <1>5 DEF envelope, Envelope, Value
  <2> QED
    BY <1>1, <2>1 DEF DriftedFields
<1> QED
  BY <1>2, <1>3, <1>4, <1>5 DEF SoftenedStillChecked

\* compiler.ts, rules-engine, layer3.ts and verdict.ts: for any sentences,
\* drafts, proposals and scores, an approved action obeys each limit the
\* sentence states that the model neither softened nor replaced by a value of
\* its own; and what Layer 3 backs of the softened ones (leverage, currency,
\* kind of action, and LOW risk where the model names no risk profile).
THEOREM ApprovalsObey == VerifierSpec => []ApprovedObeysStated
<1>1. VerifierIInv => ApprovedObeysStated
  BY ApprovedKeeps, ApprovedUndrifted DEF ApprovedObeysStated, ObeysStated
<1> QED
  BY <1>1, VerifierInvariant, PTL

\* reconcileAllowedActions: the envelope's two copies of the action list
\* agree, whichever list won the merge: what the enforced one allows, Layer 3
\* never calls a drift of the action's class.
THEOREM ListsAgree == VerifierSpec => []ActionListsAgree
<1>1. VerifierIInv => ActionListsAgree
  <2> SUFFICES ASSUME VerifierIInv, HardConstraintsSatisfied(envelope, action),
                      "allowed_actions" \in DOMAIN envelope.hard => envelope.hard["allowed_actions"].severity = "hard"
               PROVE  "actionClass" \notin DriftedFields(envelope, action)
    BY DEF ActionListsAgree
  <2>1. said \in Texts /\ draft \in Drafts
    BY DEF VerifierIInv
  <2>2. /\ envelope.allowed # <<>>
        /\ "allowed_actions" \in DOMAIN envelope.hard => envelope.allowed = envelope.hard["allowed_actions"].names
    BY <2>1, EnvelopeSound DEF envelope
  <2>3. action.type \in Range(envelope.allowed)
    BY <2>2 DEF HardConstraintsSatisfied, NoHardFail, Fails
  <2> QED
    BY <2>3 DEF DriftedFields
<1> QED
  BY <1>1, VerifierInvariant, PTL

\* clampReplanToEnvelope: against an envelope the clamp covers, a replan
\* satisfies Layer 1 and is not rejected, whatever the agent model proposed.
THEOREM ReplansPass == VerifierSpec => []ReplanNotRejected
<1>1. VerifierIInv => ReplanNotRejected
  <2> SUFFICES ASSUME VerifierIInv, stage \in {"proposed", "verified"}, mode = "replan", Clampable(envelope)
               PROVE  verdict # "REJECT" /\ HardConstraintsSatisfied(envelope, action)
    BY DEF ReplanNotRejected
  <2>1. PICK p \in Proposals : action = Clamped(envelope, p)
    BY DEF VerifierIInv, Replanned
  <2>2. HardConstraintsSatisfied(envelope, action)
    BY <2>1, ClampPasses DEF envelope, VerifierIInv
  <2> QED
    BY <2>2 DEF VerifierIInv, VerdictSound
<1> QED
  BY <1>1, VerifierInvariant, PTL
=============================================================================
