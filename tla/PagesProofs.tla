------------------------------- MODULE PagesProofs -------------------------------
(***************************************************************************)
(* For any accounts, plans, presses, account switches, late transactions,  *)
(* configurations and changes of the world, of the page that is mounted:   *)
(* the Studio's sessions do not mix, and an action settles by one contract *)
(* only; the playbook settles in order; the market locks money for         *)
(* approved actions only; and a probe that answers ready speaks of a       *)
(* server that can serve a verify.                                         *)
(*                                                                         *)
(* The handlers of a page act on what they read when pressed, which the    *)
(* page may no longer hold.  The invariants are therefore of what a        *)
(* handler, a stamp and a probe carry with them, not of the page.          *)
(***************************************************************************)
EXTENDS MCPages, SequenceTheorems, FiniteSetTheorems, TLAPS

-----------------------------------------------------------------------------
(* The Studio.  What a handler carries (Carries) is an intent, a plan, an  *)
(* action that exist and keep existing.                                    *)

Owners == [principal : Accounts, nonce : Nat]
Stamps == [action : Actions \cup {None}, verdict : Verdicts \cup {"NONE"}, binds : Contracts, ok : BOOLEAN]
Pages == [compile : Nat, registerTx : BOOLEAN, action : Plans \cup {None}, verify : Stamps,
          settleTx : BOOLEAN, settleErr : BOOLEAN, error : {"none", "register", "settle", "verify"}]
Kinds == {"compile", "register", "propose", "verify", "settle"}
Calls == [kind : Kinds, by : Accounts, intent : Nat, plan : Plans \cup {None}, verify : Stamps,
          binds : Contracts, at : {"sent", "success", "reverted", "simulating", "attesting"}]

Stamped(v) == v \in Stamps /\ (v.verdict # "NONE" => v.action \in Actions)

Carries(k) ==
    /\ k \in Calls
    /\ k.kind \in {"register", "verify"} => k.intent \in 1 .. Len(owner)
    /\ k.kind = "verify" => k.plan \in Plans
    /\ k.kind = "settle" => k.verify.action \in Actions

\* The page and its handlers.
PageSound ==
    /\ address \in Accounts \cup {None} /\ switches \in 0 .. MaxSwitches /\ presses \in 0 .. MaxPresses
    /\ busy \in BOOLEAN /\ ((calls = {}) => ~busy)
    /\ page \in Pages /\ page.compile \in 0 .. Len(owner) /\ Stamped(page.verify)
    /\ \A k \in calls \cup late : Carries(k)

\* The chain and the API's charges: the intent's principal was charged for a.
Charged(a) == [by |-> owner[a.intent].principal, action |-> a] \in billed

ChainSound ==
    /\ owner \in Seq(Owners) /\ Len(owner) <= MaxIntents
    /\ anchored \subseteq 1 .. Len(owner)
    /\ verdicts \in [Actions -> [verdict : Verdicts \cup {"NONE"}, binds : Contracts]]
    /\ \A a \in Actions : verdicts[a].verdict # "NONE" =>
          a.intent \in anchored /\ verdicts[a].binds = a.settlement /\ Charged(a)
    /\ settled \in [Contracts -> SUBSET Actions]
    /\ \A c \in Contracts : \A a \in settled[c] : a.settlement = c /\ a.intent \in anchored /\ Charged(a)
    /\ \A i \in anchored : owner[i].nonce < Nonce(owner[i].principal)
    /\ OneIntentPerNonce

\* Attestations a verify was answered without.
Outstanding ==
    \A k \in late : k.at = "attesting" =>
        k.kind = "verify" /\ k.verify.verdict \in Verdicts /\ k.intent \in anchored /\ Charged(ActionOf(k))

StudioIInv == PageSound /\ ChainSound /\ Outstanding

-----------------------------------------------------------------------------

LEMMA Constants == MaxIntents \in Nat /\ MaxPresses \in Nat /\ MaxSwitches \in Nat
BY StudioAssumption

LEMMA AppendOwner ==
    ASSUME NEW s \in Seq(Owners), NEW e \in Owners
    PROVE  /\ Append(s, e) \in Seq(Owners) /\ Len(Append(s, e)) = Len(s) + 1 /\ Len(s) \in Nat
           /\ \A n \in 1 .. Len(s) : Append(s, e)[n] = s[n]
OBVIOUS

LEMMA EmptyTypes == NoVerify \in Stamps /\ Stamped(NoVerify) /\ Empty \in Pages /\ Empty.compile = 0
                    /\ Empty.verify = NoVerify
BY DEF NoVerify, Stamps, Stamped, Empty, Pages, Contracts

LEMMA StudioInitIInv == StudioInit => StudioIInv
<1> SUFFICES ASSUME StudioInit PROVE StudioIInv
  OBVIOUS
<1>1. owner \in Seq(Owners) /\ Len(owner) = 0
  BY EmptySeq DEF StudioInit
<1>2. PageSound
  <2>1. 0 \in 0 .. MaxSwitches /\ 0 \in 0 .. MaxPresses /\ 0 \in 0 .. Len(owner)
    BY <1>1, Constants
  <2>2. page \in Pages /\ page.compile = 0 /\ Stamped(page.verify)
    BY EmptyTypes DEF StudioInit
  <2>3. \A k \in calls \cup late : Carries(k)
    BY DEF StudioInit
  <2> QED
    BY <2>1, <2>2, <2>3 DEF StudioInit, PageSound
<1>3. Unverified \in [verdict : Verdicts \cup {"NONE"}, binds : Contracts] /\ Unverified.verdict = "NONE"
  BY DEF Unverified, Verdicts, Contracts
<1>4. ChainSound
  <2>1. Len(owner) <= MaxIntents
    BY <1>1, Constants
  <2>2. /\ verdicts \in [Actions -> [verdict : Verdicts \cup {"NONE"}, binds : Contracts]]
        /\ \A a \in Actions : verdicts[a].verdict = "NONE"
    BY <1>3 DEF StudioInit
  <2>3. settled \in [Contracts -> SUBSET Actions] /\ \A c \in Contracts : settled[c] = {}
    BY DEF StudioInit
  <2> QED
    BY <1>1, <2>1, <2>2, <2>3 DEF StudioInit, ChainSound, OneIntentPerNonce
<1> QED
  BY <1>2, <1>4 DEF StudioIInv, Outstanding, StudioInit

LEMMA NonceType ==
    ASSUME StudioIInv, NEW p
    PROVE  Nonce(p) \in Nat
<1>1. Len(owner) \in Nat /\ anchored \subseteq 1 .. Len(owner)
  BY LenProperties DEF StudioIInv, ChainSound
<1>2. IsFiniteSet(1 .. Len(owner))
  BY <1>1, FS_Interval
<1>3. IsFiniteSet({i \in anchored : owner[i].principal = p})
  BY <1>1, <1>2, FS_Subset
<1> QED
  BY <1>3, FS_CardinalityType DEF Nonce

\* What handlers carry stays true while owners are only added.
LEMMA CarriesKept ==
    ASSUME NEW k, Carries(k), Len(owner) \in Nat, Len(owner') \in Nat, Len(owner) <= Len(owner')
    PROVE  Carries(k)'
BY DEF Carries

LEMMA PageStays ==
    ASSUME PageSound, UNCHANGED owner, page' \in Pages, page'.compile \in 0 .. Len(owner), Stamped(page'.verify),
           address' \in Accounts \cup {None}, switches' \in 0 .. MaxSwitches, presses' \in 0 .. MaxPresses,
           busy' \in BOOLEAN, (calls' = {}) => ~busy', \A k \in calls' \cup late' : Carries(k)
    PROVE  PageSound'
BY DEF PageSound, Carries, Stamped

LEMMA ChainStays == ASSUME ChainSound, UNCHANGED chainVars PROVE ChainSound'
BY DEF ChainSound, chainVars, Charged, Nonce, OneIntentPerNonce

\* What was charged stays charged, and attestations in flight stay backed.
LEMMA OutstandingStays ==
    ASSUME StudioIInv, NEW k, k.at # "attesting", late' \subseteq late \cup {k},
           anchored \subseteq anchored', billed \subseteq billed', \A n \in 1 .. Len(owner) : owner'[n] = owner[n]
    PROVE  Outstanding'
<1> SUFFICES ASSUME NEW q \in late', q.at = "attesting"
             PROVE  q.kind = "verify" /\ q.verify.verdict \in Verdicts /\ q.intent \in anchored' /\ Charged(ActionOf(q))'
  BY DEF Outstanding
<1>1. q \in late /\ q.kind = "verify" /\ q.verify.verdict \in Verdicts /\ q.intent \in anchored /\ Charged(ActionOf(q))
  BY DEF StudioIInv, Outstanding
<1>2. ActionOf(q).intent = q.intent /\ q.intent \in 1 .. Len(owner)
  BY <1>1 DEF ActionOf, StudioIInv, ChainSound
<1> QED
  BY <1>1, <1>2 DEF Charged, ActionOf

LEMMA NothingOutstanding == ASSUME StudioIInv, UNCHANGED chainVars, late' \subseteq late PROVE Outstanding'
BY DEF StudioIInv, Outstanding, chainVars, Charged, ActionOf

\* A nonce counts the intents registered, and so does not move with others.
LEMMA NonceKept ==
    ASSUME StudioIInv, UNCHANGED anchored, \A n \in 1 .. Len(owner) : owner'[n] = owner[n]
    PROVE  \A p : Nonce(p)' = Nonce(p)
<1>1. anchored \subseteq 1 .. Len(owner)
  BY DEF StudioIInv, ChainSound
<1>2. \A p : {i \in anchored' : owner'[i].principal = p} = {i \in anchored : owner[i].principal = p}
  BY <1>1
<1> QED
  BY <1>2 DEF Nonce

LEMMA NonceSpent ==
    ASSUME StudioIInv, NEW n \in 1 .. Len(owner), n \notin anchored, anchored' = anchored \cup {n}, UNCHANGED owner
    PROVE  \A p : Nonce(p)' = IF p = owner[n].principal THEN Nonce(p) + 1 ELSE Nonce(p)
<1> SUFFICES ASSUME NEW p PROVE Nonce(p)' = IF p = owner[n].principal THEN Nonce(p) + 1 ELSE Nonce(p)
  OBVIOUS
<1> DEFINE of == {i \in anchored : owner[i].principal = p}
<1>1. Len(owner) \in Nat /\ anchored \subseteq 1 .. Len(owner)
  BY LenProperties DEF StudioIInv, ChainSound
<1>2. IsFiniteSet(1 .. Len(owner))
  BY <1>1, FS_Interval
<1>3. IsFiniteSet(of)
  BY <1>1, <1>2, FS_Subset
<1>4. Nonce(p) = Cardinality(of) /\ Nonce(p)' = Cardinality({i \in anchored' : owner[i].principal = p})
  BY DEF Nonce
<1>5. CASE p = owner[n].principal
  <2>1. {i \in anchored' : owner[i].principal = p} = of \cup {n} /\ n \notin of
    BY <1>5
  <2>2. Cardinality(of \cup {n}) = Cardinality(of) + 1
    BY <1>3, <2>1, FS_AddElement
  <2> QED
    BY <1>4, <1>5, <2>1, <2>2
<1>6. CASE p # owner[n].principal
  <2>1. {i \in anchored' : owner[i].principal = p} = of
    BY <1>6
  <2> QED
    BY <1>4, <1>6, <2>1
<1> QED
  BY <1>5, <1>6

-----------------------------------------------------------------------------
(* The wallet and the buttons. *)

LEMMA SetAddressIInv ==
    ASSUME StudioIInv, NEW a \in Accounts \cup {None}, SetAddress(a)
    PROVE  StudioIInv'
<1>1. PageSound /\ ChainSound /\ UNCHANGED owner /\ UNCHANGED chainVars /\ Len(owner) \in Nat
  BY LenProperties DEF StudioIInv, SetAddress, chainVars, ChainSound
<1>2. switches' \in 0 .. MaxSwitches
  BY <1>1, Constants DEF SetAddress, PageSound
<1>3. page' \in Pages /\ page'.compile \in 0 .. Len(owner) /\ Stamped(page'.verify)
  BY <1>1, EmptyTypes DEF SetAddress, PageSound
<1>4. PageSound'
  BY <1>1, <1>2, <1>3, PageStays DEF SetAddress, PageSound
<1> QED
  BY <1>1, <1>4, ChainStays, NothingOutstanding DEF StudioIInv, SetAddress

LEMMA StartIInv ==
    ASSUME StudioIInv, NEW call, Carries(call), Start(call)
    PROVE  StudioIInv'
<1>1. PageSound /\ ChainSound /\ UNCHANGED owner /\ UNCHANGED chainVars
  BY DEF StudioIInv, Start, chainVars
<1>2. presses' \in 0 .. MaxPresses
  BY <1>1, Constants DEF Start, PageSound
<1>3. page' \in Pages /\ page'.compile \in 0 .. Len(owner) /\ Stamped(page'.verify)
  BY <1>1 DEF Start, PageSound, Pages
<1>4. calls' # {} /\ \A k \in calls' \cup late' : Carries(k)
  BY <1>1 DEF Start, PageSound
<1>5. PageSound'
  BY <1>1, <1>2, <1>3, <1>4, PageStays DEF Start, PageSound
<1> QED
  BY <1>1, <1>5, ChainStays, NothingOutstanding DEF StudioIInv, Start

LEMMA CallType ==
    ASSUME PageSound, address # None, NEW kind \in Kinds
    PROVE  /\ Call(kind) \in Calls /\ Call(kind).kind = kind /\ Call(kind).intent = page.compile
           /\ Call(kind).plan = page.action /\ Call(kind).verify = page.verify
BY DEF PageSound, Call, Calls, Pages, Contracts

LEMMA Binds ==
    ASSUME NEW k \in Calls, NEW c \in Contracts
    PROVE  /\ [k EXCEPT !.binds = c] \in Calls /\ [k EXCEPT !.binds = c].kind = k.kind
           /\ [k EXCEPT !.binds = c].intent = k.intent /\ [k EXCEPT !.binds = c].plan = k.plan
           /\ [k EXCEPT !.binds = c].verify = k.verify
BY DEF Calls

LEMMA PressIInv ==
    ASSUME StudioIInv,
           PressCompile \/ PressRegister \/ PressPropose \/ PressVerify \/ PressReplan \/ PressSettle \/ PressExecute
    PROVE  StudioIInv'
<1>1. PageSound /\ Len(owner) \in Nat
  BY LenProperties DEF StudioIInv, ChainSound
<1>2. /\ Stamped(page.verify) /\ page.action \in Plans \cup {None}
      /\ page.compile \in 0 .. Len(owner) /\ (page.compile # 0 => page.compile \in 1 .. Len(owner))
  BY <1>1 DEF PageSound, Pages
<1>3. ASSUME NEW kind \in Kinds, Start(Call(kind)) PROVE Call(kind) \in Calls
  BY <1>1, <1>3, CallType DEF Start
<1>4. CASE PressCompile
  <2>1. Carries(Call("compile"))
    BY <1>1, <1>4, CallType DEF PressCompile, Start, Carries, Kinds
  <2> QED
    BY <1>4, <2>1, StartIInv DEF PressCompile
<1>5. CASE PressRegister
  <2>1. Carries(Call("register"))
    BY <1>1, <1>2, <1>5, CallType DEF PressRegister, Start, Carries, Kinds
  <2> QED
    BY <1>5, <2>1, StartIInv DEF PressRegister
<1>6. CASE PressPropose \/ PressReplan
  <2>1. Carries(Call("propose"))
    BY <1>1, <1>6, CallType DEF PressPropose, PressReplan, Start, Carries, Kinds
  <2> QED
    BY <1>6, <2>1, StartIInv DEF PressPropose, PressReplan
<1>7. CASE PressVerify
  <2>1. PICK c \in Contracts : Start([Call("verify") EXCEPT !.binds = c])
    BY <1>7 DEF PressVerify
  <2>2. /\ Call("verify") \in Calls /\ Call("verify").kind = "verify"
        /\ Call("verify").intent = page.compile /\ Call("verify").plan = page.action
    BY <1>1, <2>1, CallType DEF Start, Kinds
  <2>3. page.compile \in 1 .. Len(owner) /\ page.action \in Plans
    BY <1>2, <1>7 DEF PressVerify
  <2>4. Carries([Call("verify") EXCEPT !.binds = c])
    BY <2>2, <2>3, Binds DEF Carries
  <2> QED
    BY <2>1, <2>4, StartIInv
<1>8. CASE PressSettle \/ PressExecute
  <2>1. PICK c \in Contracts : Start([Call("settle") EXCEPT !.binds = c])
    BY <1>8 DEF PressSettle, PressExecute, Contracts
  <2>2. Call("settle") \in Calls /\ Call("settle").kind = "settle" /\ Call("settle").verify = page.verify
    BY <1>1, <2>1, CallType DEF Start, Kinds
  <2>3. page.verify.action \in Actions
    BY <1>2, <1>8 DEF PressSettle, PressExecute, OnProof, Stamped, Verdicts
  <2>4. Carries([Call("settle") EXCEPT !.binds = c])
    BY <2>1, <2>2, <2>3, Binds DEF Carries
  <2> QED
    BY <2>1, <2>4, StartIInv
<1> QED
  BY <1>4, <1>5, <1>6, <1>7, <1>8

-----------------------------------------------------------------------------
(* The chain and the API. *)

LEMMA RegisterChain ==
    ASSUME StudioIInv, NEW k, Carries(k), k.kind = "register", Registers(k), anchored' = anchored \cup {k.intent},
           UNCHANGED <<owner, verdicts, settled, billed>>
    PROVE  ChainSound'
<1> DEFINE n == k.intent
<1>1. /\ n \in 1 .. Len(owner) /\ n \notin anchored /\ k.by = owner[n].principal /\ owner[n].nonce = Nonce(k.by)
      /\ anchored \subseteq 1 .. Len(owner)
  BY DEF Carries, Registers, StudioIInv, ChainSound
<1>2. \A i \in 1 .. Len(owner) : owner[i].nonce \in Nat
  <2>1. owner \in Seq(Owners)
    BY DEF StudioIInv, ChainSound
  <2>2. \A i \in 1 .. Len(owner) : owner[i] \in Owners
    BY <2>1, ElementOfSeq
  <2> QED
    BY <2>2 DEF Owners
<1>3. \A p : Nonce(p) \in Nat
  BY NonceType
<1>4. \A p : Nonce(p)' = IF p = owner[n].principal THEN Nonce(p) + 1 ELSE Nonce(p)
  BY <1>1, NonceSpent
<1>5. \A i \in anchored : owner[i].nonce < Nonce(owner[i].principal)
  BY DEF StudioIInv, ChainSound
<1>6. ASSUME NEW i \in anchored' PROVE owner[i].nonce < Nonce(owner[i].principal)'
  <2>1. CASE i = n
    BY <1>1, <1>3, <1>4, <2>1
  <2>2. CASE i # n
    <3>1. i \in anchored /\ owner[i].nonce \in Nat
      BY <1>1, <1>2, <2>2
    <3> QED
      BY <1>3, <1>4, <1>5, <3>1
  <2> QED
    BY <2>1, <2>2
<1>7. OneIntentPerNonce'
  <2>1. ASSUME NEW i \in anchored, owner[i] = owner[n] PROVE FALSE
    <3>1. owner[i].nonce < Nonce(owner[i].principal) /\ owner[i].nonce = Nonce(owner[i].principal)
      BY <1>1, <1>5, <2>1
    <3> QED
      BY <1>3, <3>1
  <2>2. \A i, j \in anchored : owner[i] = owner[j] => i = j
    BY DEF StudioIInv, ChainSound, OneIntentPerNonce
  <2> QED
    BY <2>1, <2>2 DEF OneIntentPerNonce
<1> QED
  BY <1>1, <1>6, <1>7 DEF StudioIInv, ChainSound, Charged

LEMMA MinedChain ==
    ASSUME StudioIInv, NEW k, Carries(k), Mined(k)
    PROVE  ChainSound' /\ UNCHANGED <<owner, billed>> /\ anchored \subseteq anchored'
<1>1. CASE /\ k.kind = "register" /\ Registers(k) /\ anchored' = anchored \cup {k.intent}
           /\ UNCHANGED <<owner, verdicts, settled, billed>>
  BY <1>1, RegisterChain
<1>2. CASE /\ k.kind = "settle" /\ Settles(k) /\ settled' = [settled EXCEPT ![k.binds] = @ \cup {k.verify.action}]
           /\ UNCHANGED <<owner, anchored, verdicts, billed>>
  <2> DEFINE a == k.verify.action
  <2>1. a \in Actions /\ k.binds \in Contracts
    BY <1>2 DEF Carries, Calls
  <2>2. verdicts[a].verdict = "APPROVE" /\ verdicts[a].binds = k.binds
    BY <1>2 DEF Settles
  <2>3. a.settlement = k.binds /\ a.intent \in anchored /\ Charged(a)
    BY <2>1, <2>2 DEF StudioIInv, ChainSound
  <2>4. /\ settled' \in [Contracts -> SUBSET Actions]
        /\ \A c \in Contracts : settled'[c] \subseteq settled[c] \cup (IF c = k.binds THEN {a} ELSE {})
    BY <1>2, <2>1 DEF StudioIInv, ChainSound
  <2>5. \A c \in Contracts : \A x \in settled'[c] : x.settlement = c /\ x.intent \in anchored /\ Charged(x)
    BY <2>3, <2>4 DEF StudioIInv, ChainSound
  <2>6. \A p : Nonce(p)' = Nonce(p)
    BY <1>2, NonceKept
  <2>7. (\A i \in anchored : owner[i].nonce < Nonce(owner[i].principal))'
    BY <1>2, <2>6 DEF StudioIInv, ChainSound
  <2>8. OneIntentPerNonce'
    BY <1>2 DEF StudioIInv, ChainSound, OneIntentPerNonce
  <2>9. \A x : Charged(x)' <=> Charged(x)
    BY <1>2 DEF Charged
  <2> QED
    BY <1>2, <2>4, <2>5, <2>7, <2>8, <2>9 DEF StudioIInv, ChainSound
<1> QED
  BY <1>1, <1>2 DEF Mined

LEMMA ActionOfType ==
    ASSUME StudioIInv, NEW k, Carries(k), k.kind = "verify"
    PROVE  ActionOf(k) \in Actions /\ ActionOf(k).intent = k.intent /\ ActionOf(k).settlement = k.binds
<1>1. k.intent \in 1 .. Len(owner) /\ k.plan \in Plans /\ k.binds \in Contracts
  BY DEF Carries, Calls
<1>2. Len(owner) \in Nat /\ Len(owner) <= MaxIntents
  BY LenProperties DEF StudioIInv, ChainSound
<1>3. k.intent \in Intents
  BY <1>1, <1>2, Constants DEF Intents
<1> QED
  BY <1>1, <1>3 DEF ActionOf, Actions

\* A verdict on an action of an anchored intent whose principal was charged.
LEMMA AttestedChain ==
    ASSUME StudioIInv, NEW k, Carries(k), k.kind = "verify", k.intent \in anchored, NEW verdict \in Verdicts,
           Attested(k, verdict) \/ UNCHANGED verdicts, UNCHANGED <<owner, anchored, settled>>,
           billed \subseteq billed', Charged(ActionOf(k))'
    PROVE  ChainSound'
<1> DEFINE a == ActionOf(k)
           v == [verdict |-> verdict, binds |-> k.binds]
<1>1. a \in Actions /\ a.intent = k.intent /\ a.settlement = k.binds
  BY ActionOfType
<1>2. v \in [verdict : Verdicts \cup {"NONE"}, binds : Contracts] /\ v.binds = k.binds
  BY DEF Carries, Calls
<1>3. /\ verdicts' \in [Actions -> [verdict : Verdicts \cup {"NONE"}, binds : Contracts]]
      /\ \A x \in Actions : verdicts'[x] = verdicts[x] \/ (x = a /\ verdicts'[x] = v)
  <2>1. verdicts \in [Actions -> [verdict : Verdicts \cup {"NONE"}, binds : Contracts]]
    BY DEF StudioIInv, ChainSound
  <2>2. CASE verdicts' = [verdicts EXCEPT ![a] = v]
    BY <1>1, <1>2, <2>1, <2>2
  <2>3. CASE verdicts' = verdicts
    BY <2>1, <2>3
  <2> QED
    BY <2>2, <2>3 DEF Attested
<1>4. \A x : Charged(x) => Charged(x)'
  BY DEF Charged
<1>5. \A x \in Actions : verdicts'[x].verdict # "NONE" =>
        x.intent \in anchored /\ verdicts'[x].binds = x.settlement /\ Charged(x)'
  <2>1. Charged(a)'
    OBVIOUS
  <2> HIDE DEF a, v
  <2> QED
    BY <1>1, <1>2, <1>3, <1>4, <2>1 DEF StudioIInv, ChainSound
<1>6. \A c \in Contracts : \A x \in settled[c] : x.settlement = c /\ x.intent \in anchored /\ Charged(x)'
  BY <1>4 DEF StudioIInv, ChainSound
<1>7. \A p : Nonce(p)' = Nonce(p)
  BY NonceKept
<1>8. (\A i \in anchored : owner[i].nonce < Nonce(owner[i].principal))' /\ OneIntentPerNonce'
  BY <1>7 DEF StudioIInv, ChainSound, OneIntentPerNonce
<1> QED
  BY <1>3, <1>5, <1>6, <1>8 DEF StudioIInv, ChainSound

LEMMA VerifiedChain ==
    ASSUME StudioIInv, NEW k, Carries(k), NEW verdict \in Verdicts, NEW ok \in BOOLEAN, Verified(k, verdict, ok)
    PROVE  /\ ChainSound' /\ UNCHANGED <<owner, anchored>> /\ billed \subseteq billed'
           /\ k.intent \in anchored /\ Charged(ActionOf(k))'
<1>1. k.kind = "verify" /\ k.intent \in anchored /\ k.by = owner[k.intent].principal
  BY DEF Verified, PayerIsPrincipal
<1>2. /\ UNCHANGED <<owner, anchored, settled>> /\ billed' = billed \cup {[by |-> k.by, action |-> ActionOf(k)]}
      /\ Attested(k, verdict) \/ UNCHANGED verdicts
  BY DEF Verified
<1>3. Charged(ActionOf(k))'
  BY <1>1, <1>2 DEF Charged, ActionOf
<1>4. ChainSound'
  BY <1>1, <1>2, <1>3, AttestedChain
<1> QED
  BY <1>1, <1>2, <1>3, <1>4

LEMMA BecomesType ==
    ASSUME NEW k, Carries(k), NEW at \in {"success", "reverted", "simulating"}
    PROVE  Carries([k EXCEPT !.at = at])
<1>1. k \in Calls
  BY DEF Carries
<1>2. /\ [k EXCEPT !.at = at] \in Calls /\ [k EXCEPT !.at = at].kind = k.kind /\ [k EXCEPT !.at = at].intent = k.intent
      /\ [k EXCEPT !.at = at].plan = k.plan /\ [k EXCEPT !.at = at].verify = k.verify
  BY <1>1 DEF Calls
<1> QED
  BY <1>2 DEF Carries

\* A handler goes on: the page keeps its session and changes in what it shows.
LEMMA BecomesIInv ==
    ASSUME StudioIInv, NEW k \in calls, NEW at \in {"success", "reverted", "simulating"}, Becomes(k, at),
           UNCHANGED <<late, owner>>, page' \in Pages, page'.compile = page.compile, page'.verify = page.verify,
           ChainSound', anchored \subseteq anchored', billed \subseteq billed'
    PROVE  StudioIInv'
<1>1. PageSound /\ Carries(k)
  BY DEF StudioIInv, PageSound
<1>2. Carries([k EXCEPT !.at = at])
  BY <1>1, BecomesType
<1>3. /\ calls' = (calls \ {k}) \cup {[k EXCEPT !.at = at]}
      /\ UNCHANGED <<address, switches, busy, presses>>
  BY DEF Becomes
<1>4. calls' # {} /\ \A q \in calls' \cup late' : Carries(q)
  BY <1>1, <1>2, <1>3 DEF PageSound
<1>5. /\ page'.compile \in 0 .. Len(owner) /\ Stamped(page'.verify)
      /\ address' \in Accounts \cup {None} /\ switches' \in 0 .. MaxSwitches /\ presses' \in 0 .. MaxPresses
      /\ busy' \in BOOLEAN
  BY <1>1, <1>3 DEF PageSound
<1>6. PageSound'
  BY <1>1, <1>4, <1>5, PageStays
<1>7. Outstanding'
  BY DEF StudioIInv, ChainSound, Outstanding, Charged, ActionOf
<1> QED
  BY <1>6, <1>7 DEF StudioIInv

LEMMA TxLandsIInv ==
    ASSUME StudioIInv, NEW k \in calls, TxLands(k)
    PROVE  StudioIInv'
<1>1. PageSound /\ ChainSound /\ Carries(k) /\ page \in Pages
  BY DEF StudioIInv, PageSound
<1>2. CASE Mined(k) /\ Becomes(k, "success")
  BY <1>1, <1>2, MinedChain, BecomesIInv DEF TxLands
<1>3. CASE Becomes(k, "reverted") /\ UNCHANGED chainVars
  <2>1. ChainSound' /\ UNCHANGED <<owner, anchored, billed>>
    BY <1>1, <1>3, ChainStays DEF chainVars
  <2> QED
    BY <1>1, <1>3, <2>1, BecomesIInv DEF TxLands
<1> QED
  BY <1>2, <1>3 DEF TxLands

LEMMA LateLandsIInv ==
    ASSUME StudioIInv, NEW k \in late, LateLands(k)
    PROVE  StudioIInv'
<1>1. PageSound /\ Carries(k)
  BY DEF StudioIInv, PageSound
<1>2. ChainSound' /\ UNCHANGED owner /\ anchored \subseteq anchored' /\ billed \subseteq billed'
  <2>1. CASE Mined(k) \/ \E verdict \in Verdicts, ok \in BOOLEAN : Verified(k, verdict, ok)
    BY <1>1, <2>1, MinedChain, VerifiedChain
  <2>2. CASE k.at = "attesting" /\ Attested(k, k.verify.verdict) /\ UNCHANGED <<owner, anchored, settled, billed>>
    <3>1. k.kind = "verify" /\ k.verify.verdict \in Verdicts /\ k.intent \in anchored /\ Charged(ActionOf(k))
      BY <2>2 DEF StudioIInv, Outstanding
    <3>2. Charged(ActionOf(k))'
      BY <2>2, <3>1 DEF Charged, ActionOf
    <3>3. ChainSound'
      BY <1>1, <2>2, <3>1, <3>2, AttestedChain
    <3> QED
      BY <2>2, <3>3
  <2> QED
    BY <2>1, <2>2 DEF LateLands
<1>3. late' = late \ {k} /\ UNCHANGED <<address, switches, page, busy, presses, calls>>
  BY DEF LateLands
<1>4. PageSound'
  BY <1>1, <1>2, <1>3, PageStays DEF PageSound
<1>5. Outstanding'
  BY <1>2, <1>3 DEF StudioIInv, Outstanding, Charged, ActionOf
<1> QED
  BY <1>2, <1>4, <1>5 DEF StudioIInv

-----------------------------------------------------------------------------
(* The handlers return. *)

\* One that leaves the table of intents alone.
LEMMA ReturnsIInv ==
    ASSUME StudioIInv, NEW k \in calls, Returns(k), UNCHANGED owner,
           NEW q, Carries(q), late' \in {late, late \cup {q}},
           page' \in Pages, page'.compile \in 0 .. Len(owner), Stamped(page'.verify), ChainSound', Outstanding'
    PROVE  StudioIInv'
<1>1. PageSound /\ Carries(k)
  BY DEF StudioIInv, PageSound
<1>2. calls' = calls \ {k} /\ busy' = FALSE /\ UNCHANGED <<address, switches, presses>>
  BY DEF Returns
<1>3. \A x \in calls' \cup late' : Carries(x)
  BY <1>1, <1>2 DEF PageSound
<1>4. PageSound'
  BY <1>1, <1>2, <1>3, PageStays DEF PageSound
<1> QED
  BY <1>4 DEF StudioIInv

LEMMA CompileReturnsIInv ==
    ASSUME StudioIInv, NEW k \in calls, CompileReturns(k)
    PROVE  StudioIInv'
<1> DEFINE o == [principal |-> k.by, nonce |-> Nonce(k.by)]
<1>1. PageSound /\ ChainSound /\ Carries(k)
  BY DEF StudioIInv, PageSound
<1>2. o \in Owners
  BY <1>1, NonceType DEF Owners, Carries, Calls
<1>3. /\ owner \in Seq(Owners) /\ owner' = Append(owner, o)
      /\ UNCHANGED <<late, anchored, verdicts, settled, billed>> /\ Len(owner) < MaxIntents
  BY <1>1 DEF CompileReturns, ChainSound
<1>4. /\ owner' \in Seq(Owners) /\ Len(owner') = Len(owner) + 1 /\ Len(owner) \in Nat
      /\ \A n \in 1 .. Len(owner) : owner'[n] = owner[n]
  BY <1>2, <1>3, AppendOwner
<1>5. 1 .. Len(owner) \subseteq 1 .. Len(owner') /\ Len(owner') <= MaxIntents /\ Len(owner') \in Nat
  BY <1>3, <1>4, Constants
<1>6. ChainSound'
  <2>1. \A i \in anchored : i \in 1 .. Len(owner) /\ owner'[i] = owner[i]
    BY <1>1, <1>4 DEF ChainSound
  <2>3. \A a : a.intent \in anchored /\ Charged(a) => Charged(a)'
    BY <1>3, <2>1 DEF Charged
  <2>4. \A p : Nonce(p)' = Nonce(p)
    BY <1>3, <1>4, NonceKept
  <2>5. (\A i \in anchored : owner[i].nonce < Nonce(owner[i].principal))' /\ OneIntentPerNonce'
    BY <1>1, <1>3, <2>1, <2>4 DEF ChainSound, OneIntentPerNonce
  <2>2. anchored \subseteq 1 .. Len(owner')
    BY <1>1, <1>5 DEF ChainSound
  <2> QED
    BY <1>1, <1>3, <1>4, <1>5, <2>2, <2>3, <2>5 DEF ChainSound
<1>7. /\ calls' = calls \ {k} /\ busy' = FALSE /\ UNCHANGED <<address, switches, presses>>
      /\ page' = [Empty EXCEPT !.compile = Len(owner'), !.error = page.error]
  BY DEF CompileReturns, Returns
<1>8. page' \in Pages /\ page'.compile = Len(owner') /\ page'.verify = NoVerify
  BY <1>1, <1>5, <1>7, EmptyTypes DEF PageSound, Pages
<1>9. \A q \in calls' \cup late' : Carries(q)'
  <2>1. \A q \in calls' \cup late' : Carries(q)
    BY <1>1, <1>3, <1>7 DEF PageSound
  <2>2. \A q : Carries(q) => Carries(q)'
    BY <1>4, <1>5 DEF Carries
  <2> QED
    BY <2>1, <2>2
<1>10. PageSound'
  <2>1. Stamped(page.verify)'
    BY <1>8, EmptyTypes DEF Stamped
  <2>2. (page.compile \in 0 .. Len(owner))'
    BY <1>5, <1>8
  <2>3. address \in Accounts \cup {None} /\ switches \in 0 .. MaxSwitches /\ presses \in 0 .. MaxPresses
    BY <1>1 DEF PageSound
  <2> QED
    BY <1>7, <1>8, <1>9, <2>1, <2>2, <2>3 DEF PageSound
<1>11. Outstanding'
  <2>1. \A i \in anchored : owner'[i] = owner[i]
    BY <1>1, <1>4 DEF ChainSound
  <2> QED
    BY <1>3, <2>1 DEF StudioIInv, Outstanding, Charged, ActionOf
<1> QED
  BY <1>6, <1>10, <1>11 DEF StudioIInv

LEMMA VerifyReturnsIInv ==
    ASSUME StudioIInv, NEW k \in calls, VerifyReturns(k)
    PROVE  StudioIInv'
<1>1. PageSound /\ Carries(k) /\ page \in Pages
  BY DEF StudioIInv, PageSound
<1> DEFINE answer(verdict, ok) == [action |-> ActionOf(k), verdict |-> verdict, binds |-> k.binds, ok |-> ok]
<1>2. PICK verdict \in Verdicts, ok \in BOOLEAN :
        /\ Verified(k, verdict, ok)
        /\ page' = [page EXCEPT !.verify = answer(verdict, ok), !.settleTx = FALSE, !.settleErr = FALSE]
        /\ late' = IF ok THEN late ELSE late \cup {[k EXCEPT !.verify = answer(verdict, ok), !.at = "attesting"]}
  BY DEF VerifyReturns
<1> DEFINE v == answer(verdict, ok)
           q == [k EXCEPT !.verify = v, !.at = "attesting"]
<1>3. /\ ChainSound' /\ UNCHANGED <<owner, anchored>> /\ billed \subseteq billed'
      /\ k.intent \in anchored /\ Charged(ActionOf(k))'
  BY <1>1, <1>2, VerifiedChain
<1>4. v \in Stamps /\ Stamped(v) /\ v.verdict = verdict
  <2>1. ActionOf(k) \in Actions /\ k.binds \in Contracts
    BY <1>1, ActionOfType DEF VerifyReturns, Carries, Calls
  <2> QED
    BY <2>1 DEF Stamps, Stamped
<1>5. page' \in Pages /\ page'.compile = page.compile /\ page'.verify = v
  BY <1>1, <1>2, <1>4 DEF Pages
<1>6. Returns(k) /\ k.kind = "verify" /\ late' \in {late, late \cup {q}}
  BY <1>2 DEF VerifyReturns
<1>7. page'.compile \in 0 .. Len(owner)
  BY <1>1, <1>5 DEF PageSound
<1> HIDE DEF answer, v
<1>8. /\ q \in Calls /\ q.kind = k.kind /\ q.intent = k.intent /\ q.plan = k.plan /\ q.binds = k.binds /\ q.verify = v
      /\ q.at = "attesting"
  BY <1>1, <1>4 DEF Carries, Calls
<1>9. Carries(q) /\ ActionOf(q) = ActionOf(k)
  BY <1>1, <1>6, <1>8 DEF Carries, ActionOf
<1> HIDE DEF q
<1>10. Outstanding'
  <2> SUFFICES ASSUME NEW x \in late', x.at = "attesting"
               PROVE  x.kind = "verify" /\ x.verify.verdict \in Verdicts /\ x.intent \in anchored' /\ Charged(ActionOf(x))'
    BY DEF Outstanding
  <2>1. CASE x \in late
    BY <1>3, <2>1 DEF StudioIInv, Outstanding, Charged, ActionOf
  <2>2. CASE x = q
    <3>1. Charged(ActionOf(x))'
      BY <1>3, <1>9, <2>2 DEF Charged, ActionOf
    <3> QED
      BY <1>3, <1>4, <1>6, <1>8, <2>2, <3>1
  <2> QED
    BY <1>6, <2>1, <2>2
<1> QED
  BY <1>3, <1>4, <1>5, <1>6, <1>7, <1>9, <1>10, ReturnsIInv

\* The handlers that change nothing outside the page.
LEMMA PageReturnsIInv ==
    ASSUME StudioIInv, NEW k \in calls,
           RegisterReturns(k) \/ ProposeReturns(k) \/ SettleReturns(k) \/ Explained(k) \/ GivesUp(k)
    PROVE  StudioIInv'
<1>1. PageSound /\ ChainSound /\ Carries(k) /\ page \in Pages
  BY DEF StudioIInv, PageSound
<1>2. /\ page' \in Pages /\ page'.compile = page.compile
      /\ page'.verify = page.verify \/ page'.verify = NoVerify
  <2>1. CASE RegisterReturns(k)
    BY <1>1, <2>1 DEF RegisterReturns, Pages
  <2>2. CASE ProposeReturns(k)
    BY <1>1, <2>2, EmptyTypes DEF ProposeReturns, Pages
  <2>3. CASE SettleReturns(k)
    BY <1>1, <2>3 DEF SettleReturns, Pages
  <2>4. CASE Explained(k)
    BY <1>1, <2>4 DEF Explained, Pages
  <2>5. CASE GivesUp(k)
    BY <1>1, <2>5 DEF GivesUp, Pages
  <2> QED
    BY <2>1, <2>2, <2>3, <2>4, <2>5
<1>3. /\ Returns(k) /\ UNCHANGED chainVars /\ late' \in {late, late \cup {k}}
      /\ late' = late \/ k.at = "sent"
  BY DEF RegisterReturns, ProposeReturns, SettleReturns, Explained, GivesUp
<1>4. ChainSound' /\ UNCHANGED <<owner, anchored, billed>>
  BY <1>1, <1>3, ChainStays DEF chainVars
<1>6. Outstanding'
  <2>1. CASE late' = late
    BY <1>3, <2>1, NothingOutstanding
  <2>2. CASE k.at = "sent"
    BY <1>3, <1>4, <2>2, OutstandingStays
  <2> QED
    BY <1>3, <2>1, <2>2
<1>5. page'.compile \in 0 .. Len(owner) /\ Stamped(page'.verify)
  BY <1>1, <1>2, EmptyTypes DEF PageSound
<1> QED
  BY <1>1, <1>2, <1>3, <1>4, <1>5, <1>6, ReturnsIInv

LEMMA ShowRevertedIInv ==
    ASSUME StudioIInv, NEW k \in calls, ShowReverted(k)
    PROVE  StudioIInv'
<1>1. PageSound /\ ChainSound /\ page \in Pages
  BY DEF StudioIInv, PageSound
<1>2. page' \in Pages /\ page'.compile = page.compile /\ page'.verify = page.verify
  BY <1>1 DEF ShowReverted, Pages
<1>3. Becomes(k, "simulating") /\ UNCHANGED late /\ UNCHANGED chainVars
  BY DEF ShowReverted
<1>4. ChainSound' /\ UNCHANGED <<owner, anchored, billed>>
  BY <1>1, <1>3, ChainStays DEF chainVars
<1> QED
  BY <1>2, <1>3, <1>4, BecomesIInv

-----------------------------------------------------------------------------

LEMMA StudioNextIInv == StudioIInv /\ [StudioNext]_studioVars => StudioIInv'
<1> SUFFICES ASSUME StudioIInv, [StudioNext]_studioVars PROVE StudioIInv'
  OBVIOUS
<1>1. ASSUME NEW a \in Accounts \cup {None}, SetAddress(a) PROVE StudioIInv'
  BY <1>1, SetAddressIInv
<1>2. CASE PressCompile \/ PressRegister \/ PressPropose \/ PressVerify \/ PressReplan \/ PressSettle \/ PressExecute
  BY <1>2, PressIInv
<1>3. ASSUME NEW k \in calls,
             \/ TxLands(k) \/ CompileReturns(k) \/ RegisterReturns(k) \/ ProposeReturns(k) \/ VerifyReturns(k)
             \/ SettleReturns(k) \/ ShowReverted(k) \/ Explained(k) \/ GivesUp(k)
      PROVE  StudioIInv'
  BY <1>3, TxLandsIInv, CompileReturnsIInv, VerifyReturnsIInv, PageReturnsIInv, ShowRevertedIInv
<1>4. ASSUME NEW k \in late, LateLands(k) PROVE StudioIInv'
  BY <1>4, LateLandsIInv
<1>5. CASE UNCHANGED studioVars
  <2>1. UNCHANGED chainVars /\ UNCHANGED late
    BY <1>5 DEF studioVars, chainVars
  <2>2. PageSound'
    BY <1>5 DEF studioVars, StudioIInv, PageSound, Carries, Stamped
  <2> QED
    BY <2>1, <2>2, ChainStays, NothingOutstanding DEF StudioIInv
<1> QED
  BY <1>1, <1>2, <1>3, <1>4, <1>5 DEF StudioNext

-----------------------------------------------------------------------------
(* The playbook.  The page's stamps may be of another session by the time  *)
(* they arrive: each handler and each stamp carries its own evidence       *)
(* (CallSound, PbFirst, PbSecond).                                         *)

LEMMA SameCardinality == \A S : Steps!Cardinality(S) = Cardinality(S)
BY DEF Steps!Cardinality, Cardinality, Steps!IsFiniteSet, IsFiniteSet

PbStamps == [action : Steps!Actions \cup {None}, verdict : {"NONE", "APPROVE", "REJECT"}, ok : BOOLEAN]
PbPages == [compile : Nat, registerTx : BOOLEAN, step1 : PbStamps, step2 : PbStamps, settleTx : BOOLEAN]
PbCalls == [kind : {"compile", "register", "verify", "deposit"}, by : Accounts, intent : Nat,
          action : Steps!Actions \cup {None}, prev : Steps!Actions \cup {None},
          at : {"sent", "checked", "answered"}, result : PbStamps]
PbOwners == [principal : Accounts, nonce : Nat]

Allocated(i) == \E g \in granted : g.intent = i /\ g.step = "allocate"

\* A stamp of step 1, and one of step 2.
PbFirst(s) ==
    /\ s \in PbStamps
    /\ s.verdict # "NONE" => s.action \in Steps!Actions /\ s.action.step = "allocate"
    /\ s.verdict = "APPROVE" /\ s.ok => s.action \in granted
PbSecond(s) ==
    /\ s \in PbStamps
    /\ s.verdict # "NONE" => s.action \in Steps!Actions /\ s.action.step = "settle" /\ Allocated(s.action.intent)

VerifySound(k) ==
    /\ k.action \in Steps!Actions /\ k.action.step \in Steps!Steps
    /\ k.action.step = "settle" => k.prev \in granted /\ k.prev.step = "allocate"
    /\ k.action.step = "settle" /\ k.at # "sent" => k.prev.intent = k.action.intent
    /\ k.at = "answered" => IF k.action.step = "allocate" THEN PbFirst(k.result) ELSE PbSecond(k.result)
DepositSound(k) == k.action \in Steps!Actions /\ k.action.step = "settle" /\ Allocated(k.action.intent)
CallSound(k) ==
    /\ k \in PbCalls
    /\ k.kind = "verify" => VerifySound(k)
    /\ k.kind = "deposit" => DepositSound(k)

PbPageSound ==
    /\ pbPage \in PbPages /\ pbPage.compile \in 0 .. Len(pbOwner)
    /\ PbFirst(pbPage.step1) /\ PbSecond(pbPage.step2)

TablesSound ==
    /\ pbAddress \in Accounts \cup {None}
    /\ pbOwner \in Seq(PbOwners) /\ Len(pbOwner) <= MaxIntents
    /\ granted \subseteq Steps!Actions

PlaybookIInv ==
    /\ TablesSound /\ PbPageSound /\ Steps!SettleFollowsAllocate
    /\ \A k \in pbCalls : CallSound(k)

-----------------------------------------------------------------------------

LEMMA PbEmptyTypes ==
    /\ Steps!NoStep \in PbStamps /\ Steps!NoStep.verdict = "NONE"
    /\ Steps!Empty \in PbPages /\ Steps!Empty.compile = 0 /\ Steps!Empty.step1 = Steps!NoStep /\ Steps!Empty.step2 = Steps!NoStep
BY DEF Steps!NoStep, PbStamps, Steps!Empty, PbPages

LEMMA NoStepSound == PbFirst(Steps!NoStep) /\ PbSecond(Steps!NoStep)
BY PbEmptyTypes DEF PbFirst, PbSecond

LEMMA PlaybookInitIInv == ASSUME Steps!PlaybookConstants, Steps!PlaybookInit PROVE PlaybookIInv
<1>1. pbOwner \in Seq(PbOwners) /\ Len(pbOwner) = 0 /\ MaxIntents \in Nat
  BY EmptySeq DEF Steps!PlaybookInit, Steps!PlaybookConstants
<1>2. TablesSound
  BY <1>1 DEF Steps!PlaybookInit, TablesSound
<1>3. PbPageSound
  BY <1>1, PbEmptyTypes, NoStepSound DEF Steps!PlaybookInit, PbPageSound
<1> QED
  BY <1>2, <1>3 DEF Steps!PlaybookInit, PlaybookIInv, Steps!SettleFollowsAllocate

\* Nothing granted is taken back, so what a stamp and a handler carry lasts.
LEMMA PbLasts ==
    ASSUME granted \subseteq granted'
    PROVE  /\ \A s : (PbFirst(s) => PbFirst(s)') /\ (PbSecond(s) => PbSecond(s)')
           /\ \A k : CallSound(k) => CallSound(k)'
<1>1. \A i : Allocated(i) => Allocated(i)'
  BY DEF Allocated
<1>2. \A s : (PbFirst(s) => PbFirst(s)') /\ (PbSecond(s) => PbSecond(s)')
  BY <1>1 DEF PbFirst, PbSecond
<1> QED
  BY <1>1, <1>2 DEF CallSound, VerifySound, DepositSound

\* A step that grants nothing and leaves the owners and the deposits alone.
LEMMA PbStays ==
    ASSUME PlaybookIInv, granted \subseteq granted', granted' \subseteq Steps!Actions, UNCHANGED <<pbOwner, deposits>>,
           pbAddress' \in Accounts \cup {None},
           pbPage' \in PbPages, pbPage'.compile \in 0 .. Len(pbOwner), PbFirst(pbPage'.step1), PbSecond(pbPage'.step2),
           \A k \in pbCalls' : k \in pbCalls \/ CallSound(k)'
    PROVE  PlaybookIInv'
<1>1. TablesSound'
  BY DEF PlaybookIInv, TablesSound
<1>2. PbPageSound'
  BY PbLasts DEF PbPageSound
<1>3. Steps!SettleFollowsAllocate'
  BY DEF PlaybookIInv, Steps!SettleFollowsAllocate
<1>4. \A k \in pbCalls' : CallSound(k)'
  BY PbLasts DEF PlaybookIInv
<1> QED
  BY <1>1, <1>2, <1>3, <1>4 DEF PlaybookIInv

-----------------------------------------------------------------------------
(* The wallet and the buttons. *)

LEMMA PbSetAddressIInv ==
    ASSUME PlaybookIInv, NEW a \in Accounts \cup {None}, Steps!SetAddress(a)
    PROVE  PlaybookIInv'
<1>1. TablesSound /\ PbPageSound
  BY DEF PlaybookIInv
<1>2. pbPage' \in PbPages /\ pbPage'.compile \in 0 .. Len(pbOwner) /\ PbFirst(pbPage'.step1) /\ PbSecond(pbPage'.step2)
  BY <1>1, PbEmptyTypes, NoStepSound DEF Steps!SetAddress, PbPageSound, TablesSound
<1> QED
  BY <1>1, <1>2, PbStays DEF Steps!SetAddress, Steps!OnChain, TablesSound

LEMMA PbPressIInv ==
    ASSUME PlaybookIInv, NEW label, NEW call, CallSound(call), Steps!Press(label, call)
    PROVE  PlaybookIInv'
<1>1. TablesSound /\ PbPageSound
  BY DEF PlaybookIInv
<1>2. UNCHANGED <<pbAddress, pbPage, pbOwner, granted, deposits>> /\ pbCalls' = pbCalls \cup {call}
  BY DEF Steps!Press, Steps!OnChain
<1>3. CallSound(call)'
  BY <1>2, PbLasts
<1> QED
  BY <1>1, <1>2, <1>3, PbStays DEF TablesSound, PbPageSound

LEMMA PbCallType ==
    ASSUME PlaybookIInv, pbAddress # None, NEW kind \in {"compile", "register", "verify", "deposit"},
           NEW action \in Steps!Actions \cup {None}, NEW prev \in Steps!Actions \cup {None}
    PROVE  /\ Steps!Call(kind, action, prev) \in PbCalls /\ Steps!Call(kind, action, prev).kind = kind
           /\ Steps!Call(kind, action, prev).action = action /\ Steps!Call(kind, action, prev).prev = prev
           /\ Steps!Call(kind, action, prev).at = "sent"
<1>1. pbAddress \in Accounts /\ pbPage.compile \in Nat
  BY DEF PlaybookIInv, TablesSound, PbPageSound, PbPages
<1> QED
  BY <1>1, PbEmptyTypes DEF Steps!Call, PbCalls

LEMMA ButtonIInv ==
    ASSUME PlaybookIInv, Steps!PressCompile \/ Steps!PressRegister \/ Steps!PressDeposit
    PROVE  PlaybookIInv'
<1>1. pbAddress # None
  BY DEF Steps!PressCompile, Steps!PressRegister, Steps!PressDeposit, Steps!Press
<1>2. CASE Steps!PressCompile
  <2>1. CallSound(Steps!Call("compile", None, None))
    BY <1>1, PbCallType DEF CallSound
  <2> QED
    BY <1>2, <2>1, PbPressIInv DEF Steps!PressCompile
<1>3. CASE Steps!PressRegister
  <2>1. CallSound(Steps!Call("register", None, None))
    BY <1>1, PbCallType DEF CallSound
  <2> QED
    BY <1>3, <2>1, PbPressIInv DEF Steps!PressRegister
<1>4. CASE Steps!PressDeposit
  <2> DEFINE a == pbPage.step2.action
  <2>1. a \in Steps!Actions /\ a.step = "settle" /\ Allocated(a.intent)
    BY <1>4 DEF Steps!PressDeposit, Steps!Step2Approved, PlaybookIInv, PbPageSound, PbSecond
  <2>2. CallSound(Steps!Call("deposit", a, None))
    BY <1>1, <2>1, PbCallType DEF CallSound, DepositSound
  <2> QED
    BY <1>4, <2>2, PbPressIInv DEF Steps!PressDeposit
<1> QED
  BY <1>2, <1>3, <1>4

LEMMA PressVerifyIInv ==
    ASSUME Steps!PlaybookConstants, PlaybookIInv, NEW step \in Steps!Steps, Steps!PressVerify(step)
    PROVE  PlaybookIInv'
<1> DEFINE act(plan) == [intent |-> pbPage.compile, step |-> step, plan |-> plan]
           prev == IF step = "settle" THEN pbPage.step1.action ELSE None
<1>1. PICK plan \in Plans : Steps!Press(step, Steps!Call("verify", act(plan), prev))
  BY DEF Steps!PressVerify
<1>2. pbPage.compile \in Steps!Intents
  <2>1. Len(pbOwner) \in Nat /\ Len(pbOwner) <= MaxIntents /\ MaxIntents \in Nat
    BY LenProperties DEF PlaybookIInv, TablesSound, Steps!PlaybookConstants
  <2> QED
    BY <2>1 DEF Steps!PressVerify, PlaybookIInv, PbPageSound, Steps!Intents
<1>3. act(plan) \in Steps!Actions /\ act(plan).step = step
  BY <1>2 DEF Steps!Actions
<1>4. step = "settle" => prev \in granted /\ prev \in Steps!Actions /\ prev.step = "allocate"
  BY DEF Steps!PressVerify, Steps!Step1Approved, PlaybookIInv, PbPageSound, PbFirst
<1>5. pbAddress # None /\ prev \in Steps!Actions \cup {None}
  BY <1>1, <1>4 DEF Steps!Press
<1> DEFINE k == Steps!Call("verify", act(plan), prev)
<1>6. k \in PbCalls /\ k.kind = "verify" /\ k.action = act(plan) /\ k.prev = prev /\ k.at = "sent"
  BY <1>3, <1>5, PbCallType
<1> HIDE DEF k, act, prev
<1>7. CallSound(k)
  BY <1>3, <1>4, <1>6 DEF CallSound, VerifySound
<1> QED
  BY <1>1, <1>7, PbPressIInv DEF k

-----------------------------------------------------------------------------
(* The handlers. *)

LEMMA PbNonceType ==
    ASSUME PlaybookIInv, NEW p
    PROVE  Steps!Nonce(p) \in Nat
<1>1. DOMAIN pbOwner = 1 .. Len(pbOwner) /\ Len(pbOwner) \in Nat
  BY LenProperties DEF PlaybookIInv, TablesSound
<1>2. IsFiniteSet({i \in DOMAIN pbOwner : pbOwner[i].principal = p /\ status[i] # "none"})
  <2>1. IsFiniteSet(DOMAIN pbOwner)
    BY <1>1, FS_Interval
  <2>2. {i \in DOMAIN pbOwner : pbOwner[i].principal = p /\ status[i] # "none"} \subseteq DOMAIN pbOwner
    OBVIOUS
  <2> QED
    BY <2>1, <2>2, FS_Subset
<1> QED
  BY <1>2, FS_CardinalityType, SameCardinality DEF Steps!Nonce

LEMMA PbCompileReturnsIInv ==
    ASSUME Steps!PlaybookConstants, PlaybookIInv, NEW k \in pbCalls, Steps!CompileReturns(k)
    PROVE  PlaybookIInv'
<1> DEFINE o == [principal |-> k.by, nonce |-> Steps!Nonce(k.by)]
<1>1. TablesSound /\ PbPageSound /\ k \in PbCalls /\ MaxIntents \in Nat
  BY DEF PlaybookIInv, CallSound, Steps!PlaybookConstants
<1>2. o \in PbOwners
  BY <1>1, PbNonceType DEF PbOwners, PbCalls
<1>3. /\ pbOwner' = Append(pbOwner, o) /\ Len(pbOwner) < MaxIntents /\ pbOwner \in Seq(PbOwners)
      /\ pbPage' = [Steps!Empty EXCEPT !.compile = Len(pbOwner')]
      /\ pbCalls' = pbCalls \ {k} /\ UNCHANGED <<pbAddress, granted, deposits>>
  BY <1>1 DEF Steps!CompileReturns, Steps!Returns, TablesSound
<1>4. pbOwner' \in Seq(PbOwners) /\ Len(pbOwner') = Len(pbOwner) + 1 /\ Len(pbOwner) \in Nat
  BY <1>2, <1>3
<1>5. TablesSound'
  BY <1>1, <1>3, <1>4 DEF TablesSound
<1>6. PbPageSound'
  <2>1. pbPage' \in PbPages /\ pbPage'.compile = Len(pbOwner') /\ pbPage'.step1 = Steps!NoStep /\ pbPage'.step2 = Steps!NoStep
    BY <1>3, <1>4, PbEmptyTypes DEF PbPages
  <2>2. PbFirst(Steps!NoStep)' /\ PbSecond(Steps!NoStep)'
    BY PbEmptyTypes DEF PbFirst, PbSecond
  <2>3. PbFirst(pbPage.step1)' /\ PbSecond(pbPage.step2)'
    BY <2>1, <2>2 DEF PbFirst, PbSecond
  <2> QED
    BY <1>4, <2>1, <2>3 DEF PbPageSound
<1>7. \A q \in pbCalls' : CallSound(q)'
  BY <1>3, PbLasts DEF PlaybookIInv
<1>8. Steps!SettleFollowsAllocate'
  BY <1>3 DEF PlaybookIInv, Steps!SettleFollowsAllocate
<1> QED
  BY <1>5, <1>6, <1>7, <1>8 DEF PlaybookIInv

LEMMA StepCheckedIInv ==
    ASSUME PlaybookIInv, NEW k \in pbCalls, Steps!StepChecked(k)
    PROVE  PlaybookIInv'
<1> DEFINE c == [k EXCEPT !.at = "checked"]
<1>1. k \in PbCalls /\ CallSound(k) /\ VerifySound(k) /\ TablesSound /\ PbPageSound
  BY DEF PlaybookIInv, CallSound, Steps!StepChecked
<1>2. c \in PbCalls /\ c.kind = "verify" /\ c.action = k.action /\ c.prev = k.prev /\ c.at = "checked"
  BY <1>1 DEF Steps!StepChecked, PbCalls
<1>3. UNCHANGED <<pbAddress, pbPage, pbOwner, granted, deposits>> /\ pbCalls' = (pbCalls \ {k}) \cup {c}
  BY DEF Steps!StepChecked, Steps!OnChain, Steps!Becomes
<1>4. k.action.step = "settle" => k.prev.intent = k.action.intent
  BY DEF Steps!StepChecked, Steps!PredecessorApproved
<1> HIDE DEF c
<1>5. CallSound(c)
  BY <1>1, <1>2, <1>4 DEF CallSound, VerifySound
<1>6. CallSound(c)'
  BY <1>3, <1>5, PbLasts
<1> QED
  BY <1>1, <1>3, <1>6, PbStays DEF TablesSound, PbPageSound

LEMMA StepVerifiedIInv ==
    ASSUME PlaybookIInv, NEW k \in pbCalls, Steps!StepVerified(k)
    PROVE  PlaybookIInv'
<1>1. k \in PbCalls /\ CallSound(k) /\ VerifySound(k) /\ TablesSound /\ PbPageSound /\ k.at = "checked"
  BY DEF PlaybookIInv, CallSound, Steps!StepVerified
<1>2. PICK verdict \in {"APPROVE", "REJECT"}, ok \in BOOLEAN :
        /\ Steps!Verified(k.action, k.by, verdict, ok)
        /\ Steps!Becomes(k, [k EXCEPT !.at = "answered", !.result = [action |-> k.action, verdict |-> verdict, ok |-> ok]])
  BY DEF Steps!StepVerified
<1> DEFINE r == [action |-> k.action, verdict |-> verdict, ok |-> ok]
           c == [k EXCEPT !.at = "answered", !.result = r]
<1>3. r \in PbStamps /\ r.action = k.action /\ r.verdict = verdict /\ r.ok = ok
  BY <1>1 DEF VerifySound, PbStamps
<1>4. /\ c \in PbCalls /\ c.kind = "verify" /\ c.action = k.action /\ c.prev = k.prev /\ c.at = "answered" /\ c.result = r
  BY <1>1, <1>3 DEF Steps!StepVerified, PbCalls
<1>5. /\ UNCHANGED <<pbAddress, pbPage, pbOwner, deposits>> /\ pbCalls' = (pbCalls \ {k}) \cup {c}
      /\ granted' = IF ok /\ verdict = "APPROVE" THEN granted \cup {k.action} ELSE granted
  BY <1>2 DEF Steps!StepVerified, Steps!Becomes, Steps!Verified
<1>6. granted \subseteq granted' /\ granted' \subseteq Steps!Actions
  BY <1>1, <1>5 DEF TablesSound, VerifySound
<1> HIDE DEF r, c
<1>7. CASE k.action.step = "allocate"
  <2>1. PbFirst(r)'
    BY <1>1, <1>3, <1>5, <1>7 DEF PbFirst, VerifySound
  <2> QED
    <3>1. CallSound(c)'
      BY <1>1, <1>4, <1>7, <2>1 DEF CallSound, VerifySound
    <3> QED
      BY <1>1, <1>5, <1>6, <3>1, PbStays DEF TablesSound, PbPageSound
<1>8. CASE k.action.step = "settle"
  <2>1. k.prev \in granted' /\ k.prev.step = "allocate" /\ k.prev.intent = k.action.intent
    BY <1>1, <1>6, <1>8 DEF VerifySound
  <2>2. PbSecond(r)'
    BY <1>1, <1>3, <1>8, <2>1 DEF PbSecond, VerifySound, Allocated
  <2>3. CallSound(c)'
    BY <1>1, <1>4, <1>8, <2>1, <2>2 DEF CallSound, VerifySound
  <2> QED
    BY <1>1, <1>5, <1>6, <2>3, PbStays DEF TablesSound, PbPageSound
<1> QED
  BY <1>1, <1>7, <1>8 DEF VerifySound, Steps!Steps

LEMMA StepReturnsIInv ==
    ASSUME PlaybookIInv, NEW k \in pbCalls, Steps!StepReturns(k)
    PROVE  PlaybookIInv'
<1>1. VerifySound(k) /\ TablesSound /\ PbPageSound /\ k.at = "answered" /\ pbPage \in PbPages
  BY DEF PlaybookIInv, CallSound, Steps!StepReturns, PbPageSound
<1>2. UNCHANGED <<pbAddress, pbOwner, granted, deposits>> /\ pbCalls' = pbCalls \ {k}
  BY DEF Steps!StepReturns, Steps!OnChain, Steps!Returns
<1>3. CASE k.action.step = "allocate"
  <2>1. PbFirst(k.result) /\ k.result \in PbStamps /\ pbPage' = [pbPage EXCEPT !.step1 = k.result]
    BY <1>1, <1>3 DEF VerifySound, PbFirst, Steps!StepReturns
  <2>2. pbPage' \in PbPages /\ pbPage'.compile = pbPage.compile /\ pbPage'.step1 = k.result /\ pbPage'.step2 = pbPage.step2
    BY <1>1, <2>1 DEF PbPages
  <2> QED
    BY <1>1, <1>2, <2>1, <2>2, PbStays DEF TablesSound, PbPageSound
<1>4. CASE k.action.step # "allocate"
  <2>1. PbSecond(k.result) /\ k.result \in PbStamps /\ pbPage' = [pbPage EXCEPT !.step2 = k.result]
    BY <1>1, <1>4 DEF VerifySound, PbSecond, Steps!StepReturns
  <2>2. pbPage' \in PbPages /\ pbPage'.compile = pbPage.compile /\ pbPage'.step2 = k.result /\ pbPage'.step1 = pbPage.step1
    BY <1>1, <2>1 DEF PbPages
  <2> QED
    BY <1>1, <1>2, <2>1, <2>2, PbStays DEF TablesSound, PbPageSound
<1> QED
  BY <1>3, <1>4

LEMMA DepositReturnsIInv ==
    ASSUME PlaybookIInv, NEW k \in pbCalls, Steps!DepositReturns(k)
    PROVE  PlaybookIInv'
<1>1. DepositSound(k) /\ TablesSound /\ PbPageSound /\ pbPage \in PbPages
  BY DEF PlaybookIInv, CallSound, Steps!DepositReturns, PbPageSound
<1>2. /\ UNCHANGED <<pbAddress, pbOwner, granted>> /\ pbCalls' = pbCalls \ {k}
      /\ deposits' = deposits \cup {k.action} /\ pbPage' = [pbPage EXCEPT !.settleTx = TRUE]
  BY DEF Steps!DepositReturns, Steps!Returns
<1>3. pbPage' \in PbPages /\ pbPage'.compile = pbPage.compile /\ pbPage'.step1 = pbPage.step1 /\ pbPage'.step2 = pbPage.step2
  BY <1>1, <1>2 DEF PbPages
<1>4. PbPageSound'
  BY <1>1, <1>2, <1>3, PbLasts DEF PbPageSound
<1>5. TablesSound'
  BY <1>1, <1>2 DEF TablesSound
<1>6. Steps!SettleFollowsAllocate'
  BY <1>1, <1>2 DEF PlaybookIInv, Steps!SettleFollowsAllocate, DepositSound, Allocated
<1>7. \A q \in pbCalls' : CallSound(q)'
  BY <1>2, PbLasts DEF PlaybookIInv
<1> QED
  BY <1>4, <1>5, <1>6, <1>7 DEF PlaybookIInv

\* A registration, a failing call, and an intent that ends.
LEMMA RestIInv ==
    ASSUME PlaybookIInv,
           \/ \E k \in pbCalls : Steps!RegisterReturns(k) \/ Steps!CallFails(k)
           \/ \E i \in Steps!Intents : Steps!Deactivate(i)
    PROVE  PlaybookIInv'
<1>1. TablesSound /\ PbPageSound /\ pbPage \in PbPages
  BY DEF PlaybookIInv, PbPageSound
<1>2. UNCHANGED <<pbAddress, pbOwner, granted, deposits>> /\ pbCalls' \subseteq pbCalls
  BY DEF Steps!RegisterReturns, Steps!CallFails, Steps!Deactivate, Steps!Returns, Steps!OnChain
<1>3. pbPage' \in PbPages /\ pbPage'.compile = pbPage.compile /\ pbPage'.step1 = pbPage.step1 /\ pbPage'.step2 = pbPage.step2
  <2>1. pbPage' = [pbPage EXCEPT !.registerTx = TRUE] \/ pbPage' = pbPage
    BY DEF Steps!RegisterReturns, Steps!CallFails, Steps!Deactivate
  <2> QED
    BY <1>1, <2>1 DEF PbPages
<1> QED
  BY <1>1, <1>2, <1>3, PbStays DEF TablesSound, PbPageSound

LEMMA SdkVerifyIInv ==
    ASSUME PlaybookIInv, Steps!SdkVerify
    PROVE  PlaybookIInv'
<1>1. TablesSound /\ PbPageSound
  BY DEF PlaybookIInv
<1>2. UNCHANGED <<pbAddress, pbPage, pbCalls, pbOwner, deposits>>
  BY DEF Steps!SdkVerify
<1>3. granted \subseteq granted' /\ granted' \subseteq Steps!Actions
  BY <1>1 DEF Steps!SdkVerify, Steps!Verified, TablesSound
<1> QED
  BY <1>1, <1>2, <1>3, PbStays DEF TablesSound, PbPageSound

-----------------------------------------------------------------------------

LEMMA PlaybookNextIInv == ASSUME Steps!PlaybookConstants, PlaybookIInv, [Steps!PlaybookNext]_playbookVars PROVE PlaybookIInv'
<1>1. ASSUME NEW a \in Accounts \cup {None}, Steps!SetAddress(a) PROVE PlaybookIInv'
  BY <1>1, PbSetAddressIInv
<1>2. CASE Steps!PressCompile \/ Steps!PressRegister \/ Steps!PressDeposit
  BY <1>2, ButtonIInv
<1>3. ASSUME NEW s \in Steps!Steps, Steps!PressVerify(s) PROVE PlaybookIInv'
  BY <1>3, PressVerifyIInv
<1>4. ASSUME NEW k \in pbCalls, Steps!CompileReturns(k) \/ Steps!StepChecked(k) \/ Steps!StepVerified(k) \/ Steps!StepReturns(k) \/ Steps!DepositReturns(k)
      PROVE  PlaybookIInv'
  BY <1>4, PbCompileReturnsIInv, StepCheckedIInv, StepVerifiedIInv, StepReturnsIInv, DepositReturnsIInv
<1>5. CASE (\E k \in pbCalls : Steps!RegisterReturns(k) \/ Steps!CallFails(k)) \/ \E i \in Steps!Intents : Steps!Deactivate(i)
  BY <1>5, RestIInv
<1>6. CASE Steps!SdkVerify
  BY <1>6, SdkVerifyIInv
<1>7. CASE UNCHANGED playbookVars
  <2>1. TablesSound /\ PbPageSound /\ UNCHANGED <<pbAddress, pbPage, pbCalls, pbOwner, granted, deposits>>
    BY <1>7 DEF playbookVars, PlaybookIInv
  <2> QED
    BY <2>1, PbStays DEF TablesSound, PbPageSound
<1> QED
  BY <1>1, <1>2, <1>3, <1>4, <1>5, <1>6, <1>7 DEF Steps!PlaybookNext

-----------------------------------------------------------------------------
(* The types of the playbook, part by part.                                *)

CallsBounded ==
    /\ IsFiniteSet(pbCalls) /\ Cardinality(pbCalls) <= MaxCalls
    /\ pbBusy \in {"idle", "compile", "sign", "deposit"} \cup Steps!Steps /\ sdk \in 0 .. SdkCalls
CallsOfIntents == \A k \in pbCalls : k.intent \in 0 .. Len(pbOwner)
RegistrySound ==
    /\ status \in [Steps!Intents -> {"none", "active", "ended"}]
    /\ pbVerdicts \in [Steps!Actions -> {"NONE", "APPROVE", "REJECT"}]
    /\ \A i \in Steps!Intents : status[i] # "none" => i <= Len(pbOwner)
    /\ \A a \in Steps!Actions : pbVerdicts[a] # "NONE" => status[a.intent] # "none"
    /\ \A a \in Steps!Actions : pbVerdicts[a] = "APPROVE" => a \in granted
    /\ deposits \subseteq granted
PlaybookTypes == PlaybookIInv /\ CallsBounded /\ CallsOfIntents /\ RegistrySound

LEMMA PlaybookTypesInit == ASSUME Steps!PlaybookConstants, Steps!PlaybookInit PROVE PlaybookTypes
<1>1. CallsBounded
  BY FS_EmptySet DEF Steps!PlaybookInit, Steps!PlaybookConstants, CallsBounded
<1>2. CallsOfIntents
  BY DEF Steps!PlaybookInit, CallsOfIntents
<1>3. RegistrySound
  BY DEF Steps!PlaybookInit, RegistrySound, Steps!Actions
<1> QED
  BY <1>1, <1>2, <1>3, PlaybookInitIInv DEF PlaybookTypes

LEMMA AddOne ==
    ASSUME NEW S, IsFiniteSet(S), NEW x
    PROVE  IsFiniteSet(S \cup {x}) /\ Cardinality(S \cup {x}) <= Cardinality(S) + 1 /\ Cardinality(S \cup {x}) \in Nat
<1>1. IsFiniteSet(S \cup {x}) /\ (Cardinality(S \cup {x}) = Cardinality(S) \/ Cardinality(S \cup {x}) = Cardinality(S) + 1)
  BY FS_AddElement
<1>2. Cardinality(S) \in Nat /\ Cardinality(S \cup {x}) \in Nat
  BY <1>1, FS_CardinalityType
<1> QED
  BY <1>1, <1>2

LEMMA FewerCalls ==
    ASSUME CallsBounded, Steps!PlaybookConstants, NEW S, S \subseteq pbCalls
    PROVE  IsFiniteSet(S) /\ Cardinality(S) <= MaxCalls
<1>1. IsFiniteSet(S) /\ Cardinality(S) <= Cardinality(pbCalls)
  BY FS_Subset DEF CallsBounded
<1>2. Cardinality(S) \in Nat /\ Cardinality(pbCalls) \in Nat /\ MaxCalls \in Nat
  BY <1>1, FS_CardinalityType DEF CallsBounded, Steps!PlaybookConstants
<1> QED
  BY <1>1, <1>2 DEF CallsBounded

LEMMA CallsBoundedNext ==
    ASSUME Steps!PlaybookConstants, CallsBounded, [Steps!PlaybookNext]_playbookVars
    PROVE  CallsBounded'
<1>0. MaxCalls \in Nat /\ SdkCalls \in Nat /\ IsFiniteSet(pbCalls) /\ Cardinality(pbCalls) \in Nat
  BY FS_CardinalityType DEF CallsBounded, Steps!PlaybookConstants
<1>1. ASSUME NEW label \in {"compile", "sign", "deposit"} \cup Steps!Steps, NEW call, Steps!Press(label, call) PROVE CallsBounded'
  <2>1. pbCalls' = pbCalls \cup {call} /\ Steps!Cardinality(pbCalls) < MaxCalls /\ pbBusy' = label /\ sdk' = sdk
    BY <1>1 DEF Steps!Press, Steps!OnChain
  <2>2. IsFiniteSet(pbCalls') /\ Cardinality(pbCalls') <= Cardinality(pbCalls) + 1 /\ Cardinality(pbCalls') \in Nat
    BY <1>0, <2>1, AddOne
  <2>3. Cardinality(pbCalls) < MaxCalls
    BY <2>1, SameCardinality
  <2> QED
    BY <1>0, <2>1, <2>2, <2>3 DEF CallsBounded
<1>2. ASSUME NEW k \in pbCalls, Steps!Returns(k), sdk' = sdk PROVE CallsBounded'
  <2>1. pbCalls' = pbCalls \ {k} /\ pbBusy' = "idle"
    BY <1>2 DEF Steps!Returns
  <2>2. IsFiniteSet(pbCalls') /\ Cardinality(pbCalls') <= MaxCalls
    BY <2>1, FewerCalls
  <2> QED
    BY <1>2, <2>1, <2>2 DEF CallsBounded
<1>3. ASSUME NEW k \in pbCalls, NEW new, Steps!Becomes(k, new), sdk' = sdk PROVE CallsBounded'
  <2> DEFINE rest == pbCalls \ {k}
  <2>1. pbCalls' = rest \cup {new} /\ pbBusy' = pbBusy
    BY <1>3 DEF Steps!Becomes
  <2>2. IsFiniteSet(rest) /\ Cardinality(rest) = Cardinality(pbCalls) - 1
    BY <1>0, FS_RemoveElement
  <2> HIDE DEF rest
  <2>3. IsFiniteSet(pbCalls') /\ Cardinality(pbCalls') <= Cardinality(rest) + 1 /\ Cardinality(pbCalls') \in Nat
    BY <2>1, <2>2, AddOne
  <2>4. Cardinality(pbCalls') <= MaxCalls
    BY <1>0, <2>2, <2>3 DEF CallsBounded
  <2> QED
    BY <1>3, <2>1, <2>3, <2>4 DEF CallsBounded
<1>4. CASE \/ \E a \in Accounts \cup {None} : Steps!SetAddress(a)
           \/ \E i \in Steps!Intents : Steps!Deactivate(i)
           \/ UNCHANGED playbookVars
  BY <1>4 DEF Steps!SetAddress, Steps!Deactivate, Steps!OnChain, playbookVars, CallsBounded
<1>5. CASE Steps!SdkVerify
  BY <1>0, <1>5 DEF Steps!SdkVerify, CallsBounded
<1>6. CASE Steps!PressCompile \/ Steps!PressRegister \/ Steps!PressDeposit \/ \E s \in Steps!Steps : Steps!PressVerify(s)
  BY <1>1, <1>6 DEF Steps!PressCompile, Steps!PressRegister, Steps!PressDeposit, Steps!PressVerify
<1>7. ASSUME NEW k \in pbCalls,
             Steps!CompileReturns(k) \/ Steps!RegisterReturns(k) \/ Steps!StepReturns(k) \/ Steps!DepositReturns(k) \/ Steps!CallFails(k)
      PROVE  CallsBounded'
  BY <1>2, <1>7 DEF Steps!CompileReturns, Steps!RegisterReturns, Steps!StepReturns, Steps!DepositReturns, Steps!CallFails, Steps!OnChain
<1>8. ASSUME NEW k \in pbCalls, Steps!StepChecked(k) \/ Steps!StepVerified(k) PROVE CallsBounded'
  BY <1>3, <1>8 DEF Steps!StepChecked, Steps!StepVerified, Steps!OnChain
<1> QED
  BY <1>4, <1>5, <1>6, <1>7, <1>8 DEF Steps!PlaybookNext

LEMMA CallsOfIntentsNext ==
    ASSUME Steps!PlaybookConstants, PlaybookIInv, CallsOfIntents, [Steps!PlaybookNext]_playbookVars
    PROVE  CallsOfIntents'
<1>0. Len(pbOwner) \in Nat /\ pbPage.compile \in 0 .. Len(pbOwner)
  BY LenProperties DEF PlaybookIInv, TablesSound, PbPageSound
<1>1. ASSUME UNCHANGED pbOwner,
             \A q \in pbCalls' : q \in pbCalls \/ q.intent = pbPage.compile \/ \E k \in pbCalls : q.intent = k.intent
      PROVE  CallsOfIntents'
  BY <1>0, <1>1 DEF CallsOfIntents
<1>2. ASSUME NEW label, NEW kind, NEW action, NEW prev, Steps!Press(label, Steps!Call(kind, action, prev)) PROVE CallsOfIntents'
  <2>1. pbCalls' = pbCalls \cup {Steps!Call(kind, action, prev)} /\ UNCHANGED pbOwner
    BY <1>2 DEF Steps!Press, Steps!OnChain
  <2>2. Steps!Call(kind, action, prev).intent = pbPage.compile
    BY DEF Steps!Call
  <2> QED
    BY <1>1, <2>1, <2>2
<1>3. CASE Steps!PressCompile \/ Steps!PressRegister \/ Steps!PressDeposit \/ \E s \in Steps!Steps : Steps!PressVerify(s)
  BY <1>2, <1>3 DEF Steps!PressCompile, Steps!PressRegister, Steps!PressDeposit, Steps!PressVerify
<1>4. ASSUME NEW k \in pbCalls, Steps!CompileReturns(k) PROVE CallsOfIntents'
  <2>1. Len(pbOwner') = Len(pbOwner) + 1 /\ pbCalls' \subseteq pbCalls
    BY <1>4 DEF Steps!CompileReturns, Steps!Returns, PlaybookIInv, TablesSound
  <2> QED
    BY <1>0, <2>1 DEF CallsOfIntents
<1>5. CASE \/ \E a \in Accounts \cup {None} : Steps!SetAddress(a)
           \/ \E i \in Steps!Intents : Steps!Deactivate(i)
           \/ Steps!SdkVerify \/ UNCHANGED playbookVars
           \/ \E k \in pbCalls : Steps!RegisterReturns(k) \/ Steps!StepReturns(k) \/ Steps!DepositReturns(k) \/ Steps!CallFails(k)
  <2>1. UNCHANGED pbOwner /\ pbCalls' \subseteq pbCalls
    BY <1>5 DEF Steps!SetAddress, Steps!Deactivate, Steps!SdkVerify, Steps!OnChain, playbookVars, Steps!Returns,
                Steps!RegisterReturns, Steps!StepReturns, Steps!DepositReturns, Steps!CallFails
  <2> QED
    BY <1>1, <2>1
<1>6. ASSUME NEW k \in pbCalls, Steps!StepChecked(k) \/ Steps!StepVerified(k) PROVE CallsOfIntents'
  <2>1. k \in PbCalls /\ UNCHANGED pbOwner
    BY <1>6 DEF PlaybookIInv, CallSound, Steps!StepChecked, Steps!StepVerified, Steps!OnChain
  <2>2. PICK new : pbCalls' = (pbCalls \ {k}) \cup {new} /\ new.intent = k.intent
    <3>1. CASE Steps!StepChecked(k)
      <4> DEFINE n == [k EXCEPT !.at = "checked"]
      <4>1. pbCalls' = (pbCalls \ {k}) \cup {n} /\ n.intent = k.intent
        BY <2>1, <3>1 DEF Steps!StepChecked, Steps!Becomes, PbCalls
      <4> QED
        BY <4>1
    <3>2. CASE Steps!StepVerified(k)
      <4>1. PICK r : pbCalls' = (pbCalls \ {k}) \cup {[k EXCEPT !.at = "answered", !.result = r]}
        BY <3>2 DEF Steps!StepVerified, Steps!Becomes
      <4> DEFINE n == [k EXCEPT !.at = "answered", !.result = r]
      <4>2. n.intent = k.intent
        BY <2>1 DEF PbCalls
      <4> QED
        BY <4>1, <4>2
    <3> QED
      BY <1>6, <3>1, <3>2
  <2> QED
    BY <1>1, <2>1, <2>2
<1> QED
  BY <1>3, <1>4, <1>5, <1>6 DEF Steps!PlaybookNext

\* An attestation: the verdicts stay within what was granted.
LEMMA VerifiedSound ==
    ASSUME RegistrySound, NEW a \in Steps!Actions, NEW by, NEW verdict \in {"APPROVE", "REJECT"}, NEW ok \in BOOLEAN,
           Steps!Verified(a, by, verdict, ok), UNCHANGED <<status, deposits, pbOwner>>
    PROVE  RegistrySound'
<1>1. a.intent \in Steps!Intents
  BY DEF Steps!Actions
<1>2. /\ status[a.intent] = "active"
      /\ pbVerdicts' = IF ok THEN [pbVerdicts EXCEPT ![a] = verdict] ELSE pbVerdicts
      /\ granted' = IF ok /\ verdict = "APPROVE" THEN granted \cup {a} ELSE granted
  BY DEF Steps!Verified
<1>3. pbVerdicts \in [Steps!Actions -> {"NONE", "APPROVE", "REJECT"}] /\ pbVerdicts' \in [Steps!Actions -> {"NONE", "APPROVE", "REJECT"}]
  BY <1>2 DEF RegistrySound
<1>4. \A b \in Steps!Actions : pbVerdicts'[b] = pbVerdicts[b] \/ (b = a /\ ok /\ pbVerdicts'[b] = verdict)
  BY <1>2, <1>3
<1>5. \A b \in Steps!Actions : pbVerdicts'[b] # "NONE" => status'[b.intent] # "none"
  BY <1>2, <1>4 DEF RegistrySound
<1>6. \A b \in Steps!Actions : pbVerdicts'[b] = "APPROVE" => b \in granted'
  BY <1>2, <1>4 DEF RegistrySound
<1>7. deposits' \subseteq granted'
  BY <1>2 DEF RegistrySound
<1> QED
  BY <1>3, <1>5, <1>6, <1>7 DEF RegistrySound

LEMMA RegistrySoundNext ==
    ASSUME Steps!PlaybookConstants, PlaybookIInv, CallsOfIntents, RegistrySound, [Steps!PlaybookNext]_playbookVars
    PROVE  RegistrySound'
<1>0. Len(pbOwner) \in Nat /\ MaxIntents \in Nat
  BY LenProperties DEF PlaybookIInv, TablesSound, Steps!PlaybookConstants
<1>1. ASSUME UNCHANGED <<status, pbVerdicts, granted, deposits>>, Len(pbOwner') \in Nat, Len(pbOwner) <= Len(pbOwner') PROVE RegistrySound'
  <2>1. \A i \in Steps!Intents : status'[i] # "none" => i <= Len(pbOwner')
    BY <1>0, <1>1 DEF RegistrySound, Steps!Intents
  <2> QED
    BY <1>1, <2>1 DEF RegistrySound
<1>2. CASE \/ \E a \in Accounts \cup {None} : Steps!SetAddress(a)
           \/ Steps!PressCompile \/ Steps!PressRegister \/ Steps!PressDeposit \/ (\E s \in Steps!Steps : Steps!PressVerify(s))
           \/ \E k \in pbCalls : Steps!StepReturns(k) \/ Steps!CallFails(k) \/ Steps!StepChecked(k)
           \/ UNCHANGED playbookVars
  <2>1. UNCHANGED <<status, pbVerdicts, granted, deposits, pbOwner>>
    BY <1>2 DEF Steps!SetAddress, Steps!PressCompile, Steps!PressRegister, Steps!PressDeposit, Steps!PressVerify, Steps!Press,
                Steps!StepReturns, Steps!CallFails, Steps!StepChecked, Steps!OnChain, playbookVars
  <2> QED
    BY <1>0, <1>1, <2>1
<1>3. ASSUME NEW k \in pbCalls, Steps!CompileReturns(k) PROVE RegistrySound'
  <2>1. Len(pbOwner') = Len(pbOwner) + 1 /\ UNCHANGED <<status, pbVerdicts, granted, deposits>>
    BY <1>3 DEF Steps!CompileReturns, PlaybookIInv, TablesSound
  <2> QED
    BY <1>0, <1>1, <2>1
<1>4. ASSUME NEW i, i \in 0 .. Len(pbOwner), NEW s \in {"active", "ended"}, status' = [status EXCEPT ![i] = s],
             UNCHANGED <<pbOwner, pbVerdicts, granted, deposits>>
      PROVE  RegistrySound'
  <2>1. status' \in [Steps!Intents -> {"none", "active", "ended"}]
    BY <1>4 DEF RegistrySound
  <2>2. \A j \in Steps!Intents : status'[j] = status[j] \/ (j = i /\ status'[j] = s)
    BY <1>4 DEF RegistrySound
  <2>3. \A j \in Steps!Intents : status'[j] # "none" => j <= Len(pbOwner)
    BY <1>0, <1>4, <2>2 DEF RegistrySound
  <2>4. \A a \in Steps!Actions : a.intent \in Steps!Intents
    BY DEF Steps!Actions
  <2> QED
    BY <1>4, <2>1, <2>2, <2>3, <2>4 DEF RegistrySound
<1>5. ASSUME NEW k \in pbCalls, Steps!RegisterReturns(k) PROVE RegistrySound'
  BY <1>4, <1>5 DEF Steps!RegisterReturns, CallsOfIntents
<1>6. ASSUME NEW i \in Steps!Intents, Steps!Deactivate(i) PROVE RegistrySound'
  <2>1. i \in 0 .. Len(pbOwner)
    BY <1>0, <1>6 DEF Steps!Deactivate, RegistrySound, Steps!Intents
  <2> QED
    BY <1>4, <1>6, <2>1 DEF Steps!Deactivate
<1>7. ASSUME NEW k \in pbCalls, Steps!StepVerified(k) PROVE RegistrySound'
  <2>1. k.action \in Steps!Actions
    BY <1>7 DEF PlaybookIInv, CallSound, VerifySound, Steps!StepVerified
  <2>2. PICK verdict \in {"APPROVE", "REJECT"}, ok \in BOOLEAN : Steps!Verified(k.action, k.by, verdict, ok)
    BY <1>7 DEF Steps!StepVerified
  <2> QED
    BY <1>7, <2>1, <2>2, VerifiedSound DEF Steps!StepVerified
<1>8. CASE Steps!SdkVerify
  <2>1. PICK a \in Steps!Actions : Steps!Verified(a, pbOwner[a.intent].principal, "APPROVE", TRUE)
    BY <1>8 DEF Steps!SdkVerify
  <2> QED
    BY <1>8, <2>1, VerifiedSound DEF Steps!SdkVerify
<1>9. ASSUME NEW k \in pbCalls, Steps!DepositReturns(k) PROVE RegistrySound'
  <2>1. k.action \in Steps!Actions
    BY <1>9 DEF PlaybookIInv, CallSound, DepositSound, Steps!DepositReturns
  <2>2. k.action \in granted /\ deposits' = deposits \cup {k.action} /\ UNCHANGED <<status, pbVerdicts, granted, pbOwner>>
    BY <1>9, <2>1 DEF Steps!DepositReturns, Steps!IsApproved, RegistrySound
  <2> QED
    BY <2>2 DEF RegistrySound
<1> QED
  BY <1>2, <1>3, <1>5, <1>6, <1>7, <1>8, <1>9 DEF Steps!PlaybookNext

LEMMA PlaybookTypesNext ==
    ASSUME Steps!PlaybookConstants, PlaybookTypes, [Steps!PlaybookNext]_playbookVars
    PROVE  PlaybookTypes'
<1>1. PlaybookIInv /\ CallsBounded /\ CallsOfIntents /\ RegistrySound
  BY DEF PlaybookTypes
<1>2. PlaybookIInv'
  BY <1>1, PlaybookNextIInv
<1>3. CallsBounded'
  BY <1>1, CallsBoundedNext
<1>4. CallsOfIntents'
  BY <1>1, CallsOfIntentsNext
<1>5. RegistrySound'
  BY <1>1, RegistrySoundNext
<1> QED
  BY <1>2, <1>3, <1>4, <1>5 DEF PlaybookTypes

LEMMA PlaybookTypesTypeOK == PlaybookTypes => Steps!PlaybookTypeOK
BY SameCardinality DEF PlaybookTypes, PlaybookIInv, TablesSound, PbPageSound, CallSound, PbCalls, CallsBounded, CallsOfIntents,
       RegistrySound, Steps!PlaybookTypeOK

-----------------------------------------------------------------------------
(* The Market page.  A press of "Fund" reads a stamp that may be cleared    *)
(* before the transaction lands: the approval is a fact of the action the   *)
(* handler carries.  Approvals and intents are only ever added.             *)

MkOwners == [principal : Accounts, nonce : Nat]
MkStamps == [action : Trade!Actions \cup {None}, verdict : {"NONE", "APPROVE", "REJECT"}]
MkPages == [compile : Nat, registerTx : BOOLEAN, action : Plans \cup {None}, verify : MkStamps,
            bountyTx : BOOLEAN, claimTx : BOOLEAN]
MkCalls == [id : Nat, kind : Trade!Labels, by : Accounts \cup {None}, intent : Nat, plan : Plans \cup {None},
            verify : MkStamps, at : {"sent", "success", "reverted"}]

MkStamped(v) == v.verdict = "APPROVE" => v.action \in approved

MkCarries(k) ==
    /\ k \in MkCalls
    /\ k.kind \notin {"greedy", "replan"} => k.by \in Accounts
    /\ k.kind \in {"register", "verify"} => k.intent \in 1 .. Len(mkOwner)
    /\ k.kind = "verify" => k.plan \in Plans
    /\ k.kind \in {"fund", "claim"} => k.verify.action \in approved

MkPageSound ==
    /\ mkAddress \in Accounts \cup {None} /\ mkSwitches \in 0 .. MarketSwitches /\ mkPresses \in 0 .. MarketPresses
    /\ mkBusy \in Trade!Labels \cup {"none"} /\ ((mkCalls = {}) => mkBusy = "none")
    /\ mkPage \in MkPages /\ mkPage.compile \in 0 .. Len(mkOwner) /\ MkStamped(mkPage.verify)
    /\ \A k \in mkCalls \cup mkLate : MkCarries(k)

MkChainSound ==
    /\ mkOwner \in Seq(MkOwners) /\ Len(mkOwner) <= MaxIntents
    /\ mkAnchored \subseteq 1 .. Len(mkOwner)
    /\ mkVerdicts \in [Trade!Actions -> {"NONE", "APPROVE", "REJECT"}]
    /\ \A a \in Trade!Actions : mkVerdicts[a] # "NONE" => a.intent \in mkAnchored
    /\ approved \subseteq Trade!Actions /\ \A a \in approved : a.intent \in mkAnchored
    /\ bounties \in [Trade!Actions -> [funder : Accounts \cup {None}, amount : Nat, claimed : BOOLEAN]]
    /\ \A a \in Trade!Actions : bounties[a].funder # None => a \in approved
    /\ \A a \in Trade!Actions : bounties[a].claimed => bounties[a].amount = 0

MarketIInv == MkPageSound /\ MkChainSound

LEMMA MarketBounds == MaxIntents \in Nat /\ MarketPresses \in Nat /\ MarketSwitches \in Nat
BY PagesAssumption DEF Trade!MarketConstants

LEMMA MkAppendOwner ==
    ASSUME NEW s \in Seq(MkOwners), NEW e \in MkOwners
    PROVE  Append(s, e) \in Seq(MkOwners) /\ Len(Append(s, e)) = Len(s) + 1 /\ Len(s) \in Nat
OBVIOUS

LEMMA MkEmptyTypes == Trade!Empty \in MkPages /\ Trade!NoVerify \in MkStamps /\ Trade!NoVerify.verdict = "NONE"
                      /\ Trade!Empty.verify = Trade!NoVerify /\ Trade!Empty.compile = 0
BY DEF Trade!Empty, MkPages, Trade!NoVerify, MkStamps

LEMMA MarketInitIInv == Trade!MarketInit => MarketIInv
<1> SUFFICES ASSUME Trade!MarketInit PROVE MarketIInv
  OBVIOUS
<1>1. mkOwner \in Seq(MkOwners) /\ Len(mkOwner) = 0
  BY EmptySeq DEF Trade!MarketInit
<1>2. MkPageSound
  <2>1. 0 \in 0 .. MarketSwitches /\ 0 \in 0 .. MarketPresses /\ 0 \in 0 .. Len(mkOwner)
    BY <1>1, MarketBounds
  <2>2. mkPage \in MkPages /\ mkPage.compile = 0 /\ MkStamped(mkPage.verify)
    BY MkEmptyTypes DEF Trade!MarketInit, MkStamped
  <2> QED
    BY <2>1, <2>2 DEF Trade!MarketInit, MkPageSound
<1>3. MkChainSound
  <2>1. Len(mkOwner) <= MaxIntents
    BY <1>1, MarketBounds
  <2>2. /\ bounties \in [Trade!Actions -> [funder : Accounts \cup {None}, amount : Nat, claimed : BOOLEAN]]
        /\ \A a \in Trade!Actions : bounties[a].funder = None /\ ~bounties[a].claimed
    BY DEF Trade!MarketInit
  <2>3. mkVerdicts \in [Trade!Actions -> {"NONE", "APPROVE", "REJECT"}] /\ \A a \in Trade!Actions : mkVerdicts[a] = "NONE"
    BY DEF Trade!MarketInit
  <2> QED
    BY <1>1, <2>1, <2>2, <2>3 DEF Trade!MarketInit, MkChainSound
<1> QED
  BY <1>2, <1>3 DEF MarketIInv

LEMMA MkCardinality == \A S : Trade!Cardinality(S) = Cardinality(S)
BY DEF Trade!Cardinality, Cardinality, Trade!IsFiniteSet, IsFiniteSet

LEMMA MkNonceType == ASSUME MarketIInv, NEW p PROVE Trade!Nonce(p) \in Nat
<1>1. Len(mkOwner) \in Nat /\ mkAnchored \subseteq 1 .. Len(mkOwner)
  BY LenProperties DEF MarketIInv, MkChainSound
<1>2. IsFiniteSet(1 .. Len(mkOwner))
  BY <1>1, FS_Interval
<1>3. IsFiniteSet({i \in mkAnchored : mkOwner[i].principal = p})
  BY <1>1, <1>2, FS_Subset
<1> QED
  BY <1>3, FS_CardinalityType, MkCardinality DEF Trade!Nonce

\* A step that only adds intents and approvals keeps what handlers carry.
LEMMA MkPageNext ==
    ASSUME MkPageSound, Len(mkOwner) \in Nat, Len(mkOwner') \in Nat, Len(mkOwner) <= Len(mkOwner'),
           approved \subseteq approved', mkPage' \in MkPages, mkPage'.compile \in 0 .. Len(mkOwner'),
           (mkPage'.verify.verdict = "APPROVE" => mkPage'.verify.action \in approved'),
           mkAddress' \in Accounts \cup {None}, mkSwitches' \in 0 .. MarketSwitches,
           mkPresses' \in 0 .. MarketPresses, mkBusy' \in Trade!Labels \cup {"none"},
           (mkCalls' = {}) => mkBusy' = "none", \A k \in mkCalls' \cup mkLate' : MkCarries(k)
    PROVE  MkPageSound'
<1>1. \A k : MkCarries(k) => MkCarries(k)'
  BY DEF MkCarries
<1> QED
  BY <1>1 DEF MkPageSound, MkStamped

LEMMA MkChainStays ==
    ASSUME MkChainSound, UNCHANGED Trade!chainVars
    PROVE  MkChainSound' /\ UNCHANGED <<mkOwner, approved>>
BY DEF MkChainSound, Trade!chainVars

-----------------------------------------------------------------------------
(* The wallet and the buttons. *)

LEMMA MkSetAddressIInv ==
    ASSUME MarketIInv, NEW a \in Accounts \cup {None}, Trade!SetAddress(a)
    PROVE  MarketIInv'
<1>1. MkPageSound /\ MkChainSound /\ Len(mkOwner) \in Nat /\ UNCHANGED Trade!chainVars
  BY LenProperties DEF MarketIInv, MkChainSound, Trade!SetAddress
<1>2. MkChainSound' /\ UNCHANGED <<mkOwner, approved>>
  BY <1>1, MkChainStays
<1>3. mkSwitches' \in 0 .. MarketSwitches
  BY <1>1, MarketBounds DEF Trade!SetAddress, MkPageSound
<1>4. /\ mkPage' \in MkPages /\ mkPage'.compile \in 0 .. Len(mkOwner)
      /\ mkPage'.verify.verdict = "APPROVE" => mkPage'.verify.action \in approved
  BY <1>1, MkEmptyTypes DEF Trade!SetAddress, MkPageSound, MkStamped
<1>5. MkPageSound'
  BY <1>1, <1>2, <1>3, <1>4, MkPageNext DEF Trade!SetAddress, MkPageSound
<1> QED
  BY <1>2, <1>5 DEF MarketIInv

LEMMA MkStartIInv ==
    ASSUME MarketIInv, NEW kind \in Trade!Labels, Trade!Start(kind),
           kind \notin {"greedy", "replan"} => mkAddress # None,
           kind \in {"register", "verify"} => mkPage.compile # 0,
           kind = "verify" => mkPage.action # None,
           kind \in {"fund", "claim"} => mkPage.verify.verdict = "APPROVE"
    PROVE  MarketIInv'
<1> DEFINE k == [id |-> mkPresses, kind |-> kind, by |-> mkAddress, intent |-> mkPage.compile,
                 plan |-> mkPage.action, verify |-> mkPage.verify, at |-> "sent"]
<1>1. MkPageSound /\ MkChainSound /\ Len(mkOwner) \in Nat /\ UNCHANGED Trade!chainVars
  BY LenProperties DEF MarketIInv, MkChainSound, Trade!Start
<1>2. MkChainSound' /\ UNCHANGED <<mkOwner, approved>>
  BY <1>1, MkChainStays
<1>3. /\ mkPresses' \in 0 .. MarketPresses /\ mkPresses \in Nat
      /\ mkCalls' = mkCalls \cup {k} /\ mkBusy' = kind /\ UNCHANGED <<mkAddress, mkSwitches, mkPage, mkLate>>
  BY <1>1, MarketBounds DEF Trade!Start, MkPageSound
<1>4. /\ mkPage.compile \in 0 .. Len(mkOwner) /\ mkPage.compile \in Nat /\ mkPage.action \in Plans \cup {None}
      /\ mkPage.verify \in MkStamps /\ MkStamped(mkPage.verify) /\ mkAddress \in Accounts \cup {None}
  BY <1>1 DEF MkPageSound, MkPages
<1>5. MkCarries(k)
  <2>1. /\ k \in MkCalls /\ k.kind = kind /\ k.by = mkAddress /\ k.intent = mkPage.compile
        /\ k.plan = mkPage.action /\ k.verify = mkPage.verify
    BY <1>3, <1>4 DEF MkCalls
  <2> HIDE DEF k
  <2> QED
    BY <1>1, <1>4, <2>1 DEF MkCarries, MkStamped
<1> HIDE DEF k
<1>6. mkCalls' # {} /\ \A q \in mkCalls' \cup mkLate' : MkCarries(q)
  BY <1>1, <1>3, <1>5 DEF MkPageSound
<1>7. MkPageSound'
  BY <1>1, <1>2, <1>3, <1>4, <1>6, MkPageNext DEF MkPageSound, MkStamped
<1> QED
  BY <1>2, <1>7 DEF MarketIInv

LEMMA MkPressIInv ==
    ASSUME MarketIInv,
           \/ Trade!PressCompile \/ Trade!PressRegister \/ Trade!PressOffer
           \/ Trade!PressVerify \/ Trade!PressFund \/ Trade!PressClaim
    PROVE  MarketIInv'
<1>1. CASE Trade!PressCompile
  BY <1>1, MkStartIInv DEF Trade!PressCompile, Trade!Labels
<1>2. CASE Trade!PressRegister
  BY <1>2, MkStartIInv DEF Trade!PressRegister, Trade!Labels
<1>3. CASE Trade!PressOffer
  BY <1>3, MkStartIInv DEF Trade!PressOffer, Trade!Labels
<1>4. CASE Trade!PressVerify
  BY <1>4, MkStartIInv DEF Trade!PressVerify, Trade!Labels
<1>5. CASE Trade!PressFund
  BY <1>5, MkStartIInv DEF Trade!PressFund, Trade!Labels, Trade!Shows
<1>6. CASE Trade!PressClaim
  BY <1>6, MkStartIInv DEF Trade!PressClaim, Trade!Labels, Trade!Shows
<1> QED
  BY <1>1, <1>2, <1>3, <1>4, <1>5, <1>6

-----------------------------------------------------------------------------
(* The chain and the API. *)

LEMMA MkMinedChain ==
    ASSUME MarketIInv, NEW k, MkCarries(k), Trade!Mined(k)
    PROVE  MkChainSound' /\ UNCHANGED <<mkOwner, approved>>
<1> DEFINE a == k.verify.action
<1>1. MkChainSound
  BY DEF MarketIInv
<1>2. CASE k.kind = "register" /\ mkAnchored' = mkAnchored \cup {k.intent}
           /\ UNCHANGED <<mkOwner, mkVerdicts, approved, bounties>>
  BY <1>1, <1>2 DEF MkChainSound, MkCarries
<1>3. CASE /\ k.kind = "fund" /\ Trade!Funds(k)
           /\ bounties' = [bounties EXCEPT ![k.verify.action].funder = k.by, ![k.verify.action].amount = @ + 1]
           /\ UNCHANGED <<mkOwner, mkAnchored, mkVerdicts, approved>>
  <2>1. a \in approved /\ a \in Trade!Actions /\ k.by \in Accounts /\ ~bounties[a].claimed
    BY <1>1, <1>3 DEF MkCarries, MkChainSound, Trade!Funds
  <2>2. /\ bounties' \in [Trade!Actions -> [funder : Accounts \cup {None}, amount : Nat, claimed : BOOLEAN]]
        /\ \A x \in Trade!Actions : x # a => bounties'[x] = bounties[x]
        /\ bounties'[a].claimed = bounties[a].claimed
    BY <1>1, <1>3, <2>1 DEF MkChainSound
  <2> QED
    BY <1>1, <1>3, <2>1, <2>2 DEF MkChainSound
<1>4. CASE /\ k.kind = "claim" /\ Trade!Claims(k)
           /\ bounties' = [bounties EXCEPT ![k.verify.action].claimed = TRUE, ![k.verify.action].amount = 0]
           /\ UNCHANGED <<mkOwner, mkAnchored, mkVerdicts, approved>>
  <2>1. a \in approved /\ a \in Trade!Actions
    BY <1>1, <1>4 DEF MkCarries, MkChainSound
  <2>2. /\ bounties' \in [Trade!Actions -> [funder : Accounts \cup {None}, amount : Nat, claimed : BOOLEAN]]
        /\ \A x \in Trade!Actions : x # a => bounties'[x] = bounties[x]
        /\ bounties'[a].amount = 0
    BY <1>1, <1>4, <2>1 DEF MkChainSound
  <2> QED
    BY <1>1, <1>4, <2>1, <2>2 DEF MkChainSound
<1> QED
  BY <1>2, <1>3, <1>4 DEF Trade!Mined

LEMMA MkVerifiedChain ==
    ASSUME MarketIInv, NEW k, MkCarries(k), NEW verdict \in {"APPROVE", "REJECT"}, NEW ok \in BOOLEAN,
           Trade!Verified(k, verdict, ok)
    PROVE  /\ MkChainSound' /\ UNCHANGED mkOwner /\ approved \subseteq approved'
           /\ Trade!ActionOf(k) \in Trade!Actions /\ (verdict = "APPROVE" => Trade!ActionOf(k) \in approved')
<1> DEFINE a == Trade!ActionOf(k)
<1>1. MkChainSound /\ Len(mkOwner) \in Nat
  BY LenProperties DEF MarketIInv, MkChainSound
<1>2. k.intent \in 1 .. Len(mkOwner) /\ k.plan \in Plans /\ k.intent \in mkAnchored
  BY DEF Trade!Verified, MkCarries
<1>3. a \in Trade!Actions /\ a.intent = k.intent
  BY <1>1, <1>2, MarketBounds DEF Trade!ActionOf, Trade!Actions, Trade!Intents, MkChainSound
<1>4. /\ approved' = approved \/ approved' = approved \cup {a}
      /\ verdict = "APPROVE" => approved' = approved \cup {a}
      /\ UNCHANGED <<mkOwner, mkAnchored, bounties>>
      /\ mkVerdicts' = mkVerdicts \/ mkVerdicts' = [mkVerdicts EXCEPT ![a] = verdict]
  BY DEF Trade!Verified
<1> HIDE DEF a
<1>5. /\ mkVerdicts' \in [Trade!Actions -> {"NONE", "APPROVE", "REJECT"}]
      /\ \A x \in Trade!Actions : x # a => mkVerdicts'[x] = mkVerdicts[x]
  BY <1>1, <1>3, <1>4 DEF MkChainSound
<1>6. MkChainSound'
  BY <1>1, <1>2, <1>3, <1>4, <1>5 DEF MkChainSound
<1> QED
  BY <1>3, <1>4, <1>6 DEF a

LEMMA MkBecomesIInv ==
    ASSUME MarketIInv, NEW k \in mkCalls, NEW at \in {"success", "reverted"}, Trade!Becomes(k, at),
           UNCHANGED <<mkPage, mkLate, mkOwner, approved>>, MkChainSound'
    PROVE  MarketIInv'
<1> DEFINE n == [k EXCEPT !.at = at]
<1>1. MkPageSound /\ MkCarries(k) /\ Len(mkOwner) \in Nat
  BY LenProperties DEF MarketIInv, MkPageSound, MkChainSound
<1>2. MkCarries(n)
  <2>1. /\ n \in MkCalls /\ n.kind = k.kind /\ n.by = k.by /\ n.intent = k.intent /\ n.plan = k.plan
        /\ n.verify = k.verify
    BY <1>1 DEF MkCarries, MkCalls
  <2> HIDE DEF n
  <2> QED
    BY <1>1, <2>1 DEF MkCarries
<1>3. mkCalls' = (mkCalls \ {k}) \cup {n} /\ UNCHANGED <<mkAddress, mkSwitches, mkBusy, mkPresses>>
  BY DEF Trade!Becomes
<1> HIDE DEF n
<1>4. mkCalls' # {} /\ \A q \in mkCalls' \cup mkLate' : MkCarries(q)
  BY <1>1, <1>2, <1>3 DEF MkPageSound
<1>5. MkPageSound'
  BY <1>1, <1>3, <1>4, MkPageNext DEF MkPageSound, MkStamped
<1> QED
  BY <1>5 DEF MarketIInv

LEMMA MkTxLandsIInv == ASSUME MarketIInv, NEW k \in mkCalls, Trade!TxLands(k) PROVE MarketIInv'
<1>1. MkChainSound /\ MkCarries(k) /\ UNCHANGED <<mkPage, mkLate>>
  BY DEF MarketIInv, MkPageSound, Trade!TxLands
<1>2. CASE Trade!Mined(k) /\ Trade!Becomes(k, "success")
  BY <1>1, <1>2, MkMinedChain, MkBecomesIInv
<1>3. CASE Trade!Becomes(k, "reverted") /\ UNCHANGED Trade!chainVars
  BY <1>1, <1>3, MkChainStays, MkBecomesIInv
<1> QED
  BY <1>2, <1>3 DEF Trade!TxLands

LEMMA MkLateLandsIInv == ASSUME MarketIInv, NEW k \in mkLate, Trade!LateLands(k) PROVE MarketIInv'
<1>1. MkPageSound /\ MkCarries(k) /\ Len(mkOwner) \in Nat
  BY LenProperties DEF MarketIInv, MkPageSound, MkChainSound
<1>2. MkChainSound' /\ UNCHANGED mkOwner /\ approved \subseteq approved'
  BY <1>1, MkMinedChain, MkVerifiedChain DEF Trade!LateLands
<1>3. mkLate' = mkLate \ {k} /\ UNCHANGED <<mkAddress, mkSwitches, mkPage, mkBusy, mkPresses, mkCalls>>
  BY DEF Trade!LateLands
<1>4. MkPageSound'
  BY <1>1, <1>2, <1>3, MkPageNext DEF MkPageSound, MkStamped
<1> QED
  BY <1>2, <1>4 DEF MarketIInv

-----------------------------------------------------------------------------
(* The handlers return. *)

LEMMA MkReturnsIInv ==
    ASSUME MarketIInv, NEW k \in mkCalls, Trade!Returns(k), mkLate' \in {mkLate, mkLate \cup {k}},
           Len(mkOwner') \in Nat, Len(mkOwner) <= Len(mkOwner'), approved \subseteq approved',
           mkPage' \in MkPages, mkPage'.compile \in 0 .. Len(mkOwner'),
           (mkPage'.verify.verdict = "APPROVE" => mkPage'.verify.action \in approved'), MkChainSound'
    PROVE  MarketIInv'
<1>1. MkPageSound /\ MkCarries(k) /\ Len(mkOwner) \in Nat
  BY LenProperties DEF MarketIInv, MkPageSound, MkChainSound
<1>2. mkCalls' = mkCalls \ {k} /\ mkBusy' = "none" /\ UNCHANGED <<mkAddress, mkSwitches, mkPresses>>
  BY DEF Trade!Returns
<1>3. \A q \in mkCalls' \cup mkLate' : MkCarries(q)
  BY <1>1, <1>2 DEF MkPageSound
<1>4. MkPageSound'
  BY <1>1, <1>2, <1>3, MkPageNext DEF MkPageSound
<1> QED
  BY <1>4 DEF MarketIInv

LEMMA MkCompileReturnsIInv == ASSUME MarketIInv, NEW k \in mkCalls, Trade!CompileReturns(k) PROVE MarketIInv'
<1> DEFINE o == [principal |-> k.by, nonce |-> Trade!Nonce(k.by)]
<1>1. MkPageSound /\ MkChainSound /\ MkCarries(k)
  BY DEF MarketIInv, MkPageSound
<1>2. o \in MkOwners
  BY <1>1, MkNonceType DEF MkOwners, MkCarries, Trade!CompileReturns
<1>3. /\ mkOwner \in Seq(MkOwners) /\ mkOwner' = Append(mkOwner, o) /\ Len(mkOwner) < MaxIntents
      /\ UNCHANGED <<mkLate, mkAnchored, mkVerdicts, approved, bounties>>
      /\ mkPage' = [Trade!Empty EXCEPT !.compile = Len(mkOwner')] /\ Trade!Returns(k)
  BY <1>1 DEF Trade!CompileReturns, MkChainSound
<1> HIDE DEF o
<1>4. mkOwner' \in Seq(MkOwners) /\ Len(mkOwner') = Len(mkOwner) + 1 /\ Len(mkOwner) \in Nat
  BY <1>2, <1>3, MkAppendOwner
<1>5. 1 .. Len(mkOwner) \subseteq 1 .. Len(mkOwner') /\ Len(mkOwner') <= MaxIntents /\ Len(mkOwner') \in Nat
      /\ Len(mkOwner) <= Len(mkOwner') /\ Len(mkOwner') \in 0 .. Len(mkOwner')
  BY <1>3, <1>4, MarketBounds
<1>6. MkChainSound'
  BY <1>1, <1>3, <1>4, <1>5 DEF MkChainSound
<1>7. mkPage' \in MkPages /\ mkPage'.compile = Len(mkOwner') /\ mkPage'.verify = Trade!NoVerify
  BY <1>3, <1>5, MkEmptyTypes DEF MkPages
<1>8. mkPage'.verify.verdict = "APPROVE" => mkPage'.verify.action \in approved'
  BY <1>7, MkEmptyTypes
<1> QED
  BY <1>3, <1>5, <1>6, <1>7, <1>8, MkReturnsIInv

LEMMA MkVerifyReturnsIInv == ASSUME MarketIInv, NEW k \in mkCalls, Trade!VerifyReturns(k) PROVE MarketIInv'
<1>1. MkPageSound /\ MkCarries(k) /\ Len(mkOwner) \in Nat /\ mkPage \in MkPages
  BY LenProperties DEF MarketIInv, MkPageSound, MkChainSound
<1>2. PICK verdict \in {"APPROVE", "REJECT"}, ok \in BOOLEAN :
        /\ Trade!Verified(k, verdict, ok)
        /\ mkPage' = [mkPage EXCEPT !.verify = [action |-> Trade!ActionOf(k), verdict |-> verdict]]
  BY DEF Trade!VerifyReturns
<1>3. /\ MkChainSound' /\ UNCHANGED mkOwner /\ approved \subseteq approved'
      /\ Trade!ActionOf(k) \in Trade!Actions /\ (verdict = "APPROVE" => Trade!ActionOf(k) \in approved')
  BY <1>1, <1>2, MkVerifiedChain
<1> DEFINE v == [action |-> Trade!ActionOf(k), verdict |-> verdict]
<1>4. v \in MkStamps /\ (v.verdict = "APPROVE" => v.action \in approved')
  BY <1>3 DEF MkStamps
<1>5. mkPage' \in MkPages /\ mkPage'.compile = mkPage.compile /\ mkPage'.verify = v
  BY <1>1, <1>2, <1>4 DEF MkPages
<1> HIDE DEF v
<1>6. mkPage'.compile \in 0 .. Len(mkOwner') /\ Len(mkOwner') \in Nat /\ Len(mkOwner) <= Len(mkOwner')
  BY <1>1, <1>3, <1>5 DEF MkPageSound
<1>7. Trade!Returns(k) /\ UNCHANGED mkLate
  BY DEF Trade!VerifyReturns
<1> QED
  BY <1>3, <1>4, <1>5, <1>6, <1>7, MkReturnsIInv

\* The handlers that change nothing outside the page.
LEMMA MkPageReturnsIInv ==
    ASSUME MarketIInv, NEW k \in mkCalls, Trade!OfferReturns(k) \/ Trade!ReceiptReturns(k) \/ Trade!GivesUp(k)
    PROVE  MarketIInv'
<1>1. MkPageSound /\ MkChainSound /\ mkPage \in MkPages /\ Len(mkOwner) \in Nat
  BY LenProperties DEF MarketIInv, MkPageSound, MkChainSound
<1>2. /\ mkPage' \in MkPages /\ mkPage'.compile = mkPage.compile
      /\ mkPage'.verify = mkPage.verify \/ mkPage'.verify = Trade!NoVerify
  <2>1. CASE Trade!OfferReturns(k)
    BY <1>1, <2>1, MkEmptyTypes DEF Trade!OfferReturns, MkPages
  <2>2. CASE Trade!ReceiptReturns(k)
    <3>1. CASE k.at = "reverted"
      BY <1>1, <2>2, <3>1 DEF Trade!ReceiptReturns
    <3>2. CASE k.at # "reverted"
      <4>1. mkPage' = [mkPage EXCEPT !.registerTx = @ \/ k.kind = "register",
                                     !.bountyTx = @ \/ k.kind = "fund", !.claimTx = @ \/ k.kind = "claim"]
        BY <2>2, <3>2 DEF Trade!ReceiptReturns
      <4> QED
        BY <1>1, <4>1 DEF MkPages
    <3> QED
      BY <3>1, <3>2
  <2>3. CASE Trade!GivesUp(k)
    BY <1>1, <2>3 DEF Trade!GivesUp
  <2> QED
    BY <2>1, <2>2, <2>3
<1>3. Trade!Returns(k) /\ UNCHANGED Trade!chainVars /\ mkLate' \in {mkLate, mkLate \cup {k}}
  BY DEF Trade!OfferReturns, Trade!ReceiptReturns, Trade!GivesUp
<1>4. MkChainSound' /\ UNCHANGED <<mkOwner, approved>>
  BY <1>1, <1>3, MkChainStays
<1>5. mkPage'.compile \in 0 .. Len(mkOwner') /\ (mkPage'.verify.verdict = "APPROVE" => mkPage'.verify.action \in approved')
  BY <1>1, <1>2, <1>4, MkEmptyTypes DEF MkPageSound, MkStamped
<1>6. Len(mkOwner') \in Nat /\ Len(mkOwner) <= Len(mkOwner') /\ approved \subseteq approved'
  BY <1>1, <1>4
<1> QED
  BY <1>2, <1>3, <1>4, <1>5, <1>6, MkReturnsIInv

LEMMA MarketNextIInv == MarketIInv /\ [Trade!MarketNext]_marketVars => MarketIInv'
<1> SUFFICES ASSUME MarketIInv, [Trade!MarketNext]_marketVars PROVE MarketIInv'
  OBVIOUS
<1>1. ASSUME NEW a \in Accounts \cup {None}, Trade!SetAddress(a) PROVE MarketIInv'
  BY <1>1, MkSetAddressIInv
<1>2. CASE \/ Trade!PressCompile \/ Trade!PressRegister \/ Trade!PressOffer
           \/ Trade!PressVerify \/ Trade!PressFund \/ Trade!PressClaim
  BY <1>2, MkPressIInv
<1>3. ASSUME NEW k \in mkCalls,
             \/ Trade!TxLands(k) \/ Trade!CompileReturns(k) \/ Trade!OfferReturns(k) \/ Trade!VerifyReturns(k)
             \/ Trade!ReceiptReturns(k) \/ Trade!GivesUp(k)
      PROVE  MarketIInv'
  BY <1>3, MkTxLandsIInv, MkCompileReturnsIInv, MkVerifyReturnsIInv, MkPageReturnsIInv
<1>4. ASSUME NEW k \in mkLate, Trade!LateLands(k) PROVE MarketIInv'
  BY <1>4, MkLateLandsIInv
<1>5. CASE UNCHANGED marketVars
  BY <1>5 DEF marketVars, MarketIInv, MkPageSound, MkChainSound, MkCarries, MkStamped
<1> QED
  BY <1>1, <1>2, <1>3, <1>4, <1>5 DEF Trade!MarketNext

-----------------------------------------------------------------------------
(* The probe.  A probe that is still ok has, for each check behind it, the *)
(* facts that check saw among those that held since it began.              *)

Probed == [at : 0 .. Len(Ready!CheckOrder) + 1, ok : BOOLEAN]
ReadyPages == [ready : {"unknown", "yes", "no"}, meta : {"unknown", "target", "other"}, asked : BOOLEAN]

\* What a check that passed shows of the configuration and of a set of facts.
Shown(check, facts) ==
    /\ check = "models" => (cfg.routerKey => {"router", "tee"} \subseteq facts)
    /\ check = "registry" => (cfg.registry # "unset" => cfg.registry = "live" /\ "rpc" \in facts)
    /\ check = "oracle_funded" => (cfg.oracleKey = "good" => "oracle_funded" \in facts)
    /\ check = "oracle_role" => (cfg.oracleKey = "good" /\ cfg.registry # "unset" => "oracle_role" \in facts)
    /\ check = "deployer_funded" => (cfg.deployerKey = "good" => "deployer_funded" \in facts)
    /\ check = "meter" => cfg.meter # "dead"
    /\ check = "meter_settler" => (cfg.meter = "live" /\ cfg.deployerKey # "unset" => "meter_settler" \in facts)

ShownBy(p, facts) ==
    /\ Ready!ConfigChecks
    /\ \A k \in 1 .. Len(Ready!CheckOrder) : k < p.at => Shown(Ready!CheckOrder[k], facts)
ProbeSound(p, facts) ==
    /\ p \in Probed /\ facts \subseteq Ready!Facts
    /\ p.at = 0 => facts = {}
    /\ p.at > 0 => holds \subseteq facts
    /\ p.at > 0 /\ p.ok => ShownBy(p, facts)

ReadinessIInv ==
    /\ cfg \in Ready!Configs /\ holds \subseteq Ready!Facts /\ readyPage \in ReadyPages
    /\ probe \in [Probes -> Probed] /\ held \in [Probes -> SUBSET Ready!Facts]
    /\ \A s \in Probes : ProbeSound(probe[s], held[s])

-----------------------------------------------------------------------------

LEMMA OrderLength == Len(Ready!CheckOrder) = 11
BY DEF Ready!CheckOrder

LEMMA CheckShows ==
    ASSUME NEW check, Ready!Checks[check], NEW facts, holds \subseteq facts
    PROVE  Shown(check, facts)
<1>1. CASE check = "models"
  <2>1. Ready!Checks[check] = (cfg.routerKey => {"router", "tee"} \subseteq holds)
    BY <1>1 DEF Ready!Checks
  <2> QED
    BY <1>1, <2>1 DEF Shown
<1>2. CASE check = "registry"
  <2>1. Ready!Checks[check] = (cfg.registry # "unset" => Ready!BytecodeLive(cfg.registry))
    BY <1>2 DEF Ready!Checks
  <2> QED
    BY <1>2, <2>1 DEF Shown, Ready!BytecodeLive
<1>3. CASE check = "oracle_funded"
  <2>1. Ready!Checks[check] = (cfg.oracleKey = "good" => Ready!ReadsTrue("oracle_funded"))
    BY <1>3 DEF Ready!Checks
  <2> QED
    BY <1>3, <2>1 DEF Shown, Ready!ReadsTrue
<1>4. CASE check = "oracle_role"
  <2>1. Ready!Checks[check] = (cfg.oracleKey = "good" /\ cfg.registry # "unset" =>
                                 cfg.registry = "live" /\ Ready!ReadsTrue("oracle_role"))
    BY <1>4 DEF Ready!Checks
  <2> QED
    BY <1>4, <2>1 DEF Shown, Ready!ReadsTrue
<1>5. CASE check = "deployer_funded"
  <2>1. Ready!Checks[check] = (cfg.deployerKey = "good" => Ready!ReadsTrue("deployer_funded"))
    BY <1>5 DEF Ready!Checks
  <2> QED
    BY <1>5, <2>1 DEF Shown, Ready!ReadsTrue
<1>6. CASE check = "meter"
  <2>1. Ready!Checks[check] = Ready!Optional(cfg.meter)
    BY <1>6 DEF Ready!Checks
  <2> QED
    BY <1>6, <2>1 DEF Shown, Ready!Optional, Ready!BytecodeLive
<1>7. CASE check = "meter_settler"
  <2>1. Ready!Checks[check] = (cfg.meter = "live" /\ cfg.deployerKey # "unset" =>
                                 cfg.deployerKey = "good" /\ Ready!ReadsTrue("meter_settler"))
    BY <1>7 DEF Ready!Checks
  <2> QED
    BY <1>7, <2>1 DEF Shown, Ready!ReadsTrue
<1>8. CASE check \notin {"models", "registry", "oracle_funded", "oracle_role", "deployer_funded", "meter", "meter_settler"}
  BY <1>8 DEF Shown
<1> QED
  BY <1>1, <1>2, <1>3, <1>4, <1>5, <1>6, <1>7, <1>8

\* More facts, or a checked configuration that stays, show no less.
LEMMA ShownGrows ==
    ASSUME NEW p, NEW facts, NEW more, facts \subseteq more, ShownBy(p, facts)
    PROVE  ShownBy(p, more)
<1>1. \A check : Shown(check, facts) => Shown(check, more)
  BY DEF Shown
<1> QED
  BY <1>1 DEF ShownBy

LEMMA ShownStays ==
    ASSUME UNCHANGED cfg, NEW p, NEW facts, ShownBy(p, facts)
    PROVE  ShownBy(p, facts)'
<1>1. \A check : Shown(check, facts) => Shown(check, facts)'
  BY DEF Shown
<1>2. Ready!ConfigChecks'
  BY DEF ShownBy, Ready!ConfigChecks
<1> QED
  BY <1>1, <1>2 DEF ShownBy

LEMMA ReadinessInitIInv == Ready!ReadinessInit => ReadinessIInv
<1> SUFFICES ASSUME Ready!ReadinessInit PROVE ReadinessIInv
  OBVIOUS
<1>1. Ready!Idle \in Probed /\ Ready!Idle.at = 0
  BY OrderLength DEF Ready!Idle, Probed
<1>2. ProbeSound(Ready!Idle, {})
  BY <1>1 DEF ProbeSound
<1>3. probe = [s \in Probes |-> Ready!Idle] /\ held = [s \in Probes |-> {}] /\ readyPage \in ReadyPages
      /\ cfg \in Ready!Configs /\ holds \subseteq Ready!Facts
  BY DEF Ready!ReadinessInit, ReadyPages
<1> QED
  BY <1>1, <1>2, <1>3 DEF ReadinessIInv

\* A probe that nothing touches, in a world that stands still.
LEMMA ProbeStays ==
    ASSUME UNCHANGED <<cfg, holds>>, NEW p, NEW facts, ProbeSound(p, facts)
    PROVE  ProbeSound(p, facts)'
BY ShownStays DEF ProbeSound

LEMMA WorldChangesIInv ==
    ASSUME ReadinessIInv, Ready!WorldChanges
    PROVE  ReadinessIInv'
<1>1. UNCHANGED <<cfg, probe, readyPage>> /\ holds' \subseteq Ready!Facts
      /\ held' = [s \in Probes |-> IF probe[s].at = 0 THEN {} ELSE held[s] \cup holds']
  BY PagesAssumption DEF Ready!WorldChanges, ReadinessIInv, Ready!ReadinessConstants
<1>2. ASSUME NEW s \in Probes PROVE ProbeSound(probe[s], held[s])' /\ held'[s] \in SUBSET Ready!Facts
  <2>1. ProbeSound(probe[s], held[s]) /\ probe[s] \in Probed
    BY DEF ReadinessIInv
  <2>2. probe[s].at \in Nat
    BY <2>1, OrderLength DEF Probed
  <2>3. CASE probe[s].at = 0
    <3>1. held'[s] = {}
      BY <1>1, <2>3
    <3> QED
      BY <1>1, <2>1, <2>3, <3>1 DEF ProbeSound
  <2>4. CASE probe[s].at > 0
    <3> DEFINE facts == held[s] \cup holds'
    <3>1. held'[s] = facts /\ facts \subseteq Ready!Facts
      BY <1>1, <2>1, <2>4 DEF ProbeSound
    <3>2. probe[s].ok => ShownBy(probe[s], facts)
      BY <2>1, <2>4, ShownGrows DEF ProbeSound
    <3>3. probe[s].ok => ShownBy(probe[s], held[s])'
      BY <1>1, <3>1, <3>2, ShownStays
    <3> QED
      BY <1>1, <2>1, <2>4, <3>1, <3>3 DEF ProbeSound
  <2> QED
    BY <2>2, <2>3, <2>4
<1> QED
  BY <1>1, <1>2 DEF ReadinessIInv

\* A step of probe s alone.
LEMMA ProbeStepIInv ==
    ASSUME ReadinessIInv, UNCHANGED <<cfg, holds>>, readyPage' \in ReadyPages,
           NEW s \in Probes, NEW p, NEW facts, ProbeSound(p, facts),
           probe' = [probe EXCEPT ![s] = p], held' = [held EXCEPT ![s] = facts]
    PROVE  ReadinessIInv'
<1>1. probe' \in [Probes -> Probed] /\ held' \in [Probes -> SUBSET Ready!Facts]
  BY DEF ReadinessIInv, ProbeSound
<1>2. ASSUME NEW r \in Probes PROVE ProbeSound(probe'[r], held'[r])
  BY DEF ReadinessIInv
<1>3. \A r \in Probes : ProbeSound(probe[r], held[r])'
  BY <1>2, ProbeStays
<1> QED
  BY <1>1, <1>3 DEF ReadinessIInv

LEMMA PollIInv ==
    ASSUME ReadinessIInv, NEW s \in Probes, Ready!Poll(s)
    PROVE  ReadinessIInv'
<1> DEFINE p == [at |-> 1, ok |-> Ready!ConfigChecks]
<1>1. Ready!ConfigChecks \in BOOLEAN
  BY DEF Ready!ConfigChecks
<1>2. p \in Probed /\ p.at = 1 /\ p.ok = Ready!ConfigChecks
  BY <1>1, OrderLength DEF Probed
<1>3. UNCHANGED <<cfg, holds, readyPage>> /\ probe' = [probe EXCEPT ![s] = p] /\ held' = [held EXCEPT ![s] = holds]
  BY DEF Ready!Poll
<1> HIDE DEF p
<1>4. ProbeSound(p, holds)
  <2>1. p.ok => ShownBy(p, holds)
    BY <1>2 DEF ShownBy
  <2> QED
    BY <1>2, <2>1 DEF ProbeSound, ReadinessIInv
<1> QED
  BY <1>3, <1>4, ProbeStepIInv DEF ReadinessIInv

LEMMA CheckIInv ==
    ASSUME ReadinessIInv, NEW s \in Probes, Ready!Check(s)
    PROVE  ReadinessIInv'
<1> DEFINE k == probe[s].at
           passed == Ready!Checks[Ready!CheckOrder[k]]
           ok == probe[s].ok /\ passed
           p == [at |-> k + 1, ok |-> ok]
<1>1. ProbeSound(probe[s], held[s]) /\ probe[s] \in Probed /\ held \in [Probes -> SUBSET Ready!Facts]
  BY DEF ReadinessIInv
<1>2. k \in 1 .. Len(Ready!CheckOrder) /\ Len(Ready!CheckOrder) = 11
  BY OrderLength DEF Ready!Check, Ready!CheckOrder
<1>3. UNCHANGED <<cfg, holds, readyPage, held>> /\ probe' = [probe EXCEPT ![s] = p]
  BY <1>1 DEF Ready!Check, ReadinessIInv
<1>4. held' = [held EXCEPT ![s] = held[s]]
  <2>1. held = [held EXCEPT ![s] = held[s]]
    BY <1>1
  <2> QED
    BY <1>3, <2>1
<1>5. p.at = k + 1 /\ p \in Probed /\ (p.ok => probe[s].ok /\ passed)
  <2>1. ok \in BOOLEAN /\ (ok => probe[s].ok /\ passed)
    OBVIOUS
  <2> HIDE DEF ok
  <2> QED
    BY <1>2, <2>1 DEF Probed
<1>6. holds \subseteq held[s] /\ held[s] \subseteq Ready!Facts
  BY <1>1, <1>2 DEF ProbeSound
<1>7. p.ok => Shown(Ready!CheckOrder[k], held[s])
  BY <1>5, <1>6, CheckShows
<1>8. p.ok => ShownBy(probe[s], held[s])
  BY <1>1, <1>2, <1>5 DEF ProbeSound
<1>9. p.ok => ShownBy(p, held[s])
  <2> HIDE DEF p
  <2>1. \A n \in 1 .. Len(Ready!CheckOrder) : n < p.at => n = k \/ n < k
    BY <1>2, <1>5
  <2> QED
    BY <1>7, <1>8, <2>1 DEF ShownBy
<1> HIDE DEF p
<1>10. ProbeSound(p, held[s])
  BY <1>2, <1>5, <1>6, <1>9 DEF ProbeSound
<1> QED
  BY <1>3, <1>4, <1>10, ProbeStepIInv DEF ReadinessIInv

LEMMA ShowIInv ==
    ASSUME ReadinessIInv, NEW s \in Probes, NEW ready \in {"unknown", "yes", "no"}, Ready!Show(s, ready)
    PROVE  ReadinessIInv'
<1>1. Ready!Idle \in Probed /\ Ready!Idle.at = 0
  BY OrderLength DEF Ready!Idle, Probed
<1>2. ProbeSound(Ready!Idle, {})
  BY <1>1 DEF ProbeSound
<1>3. readyPage' \in ReadyPages
  BY DEF Ready!Show, ReadyPages, ReadinessIInv
<1> QED
  BY <1>2, <1>3, ProbeStepIInv DEF Ready!Show

LEMMA ReadinessNextIInv == ReadinessIInv /\ [Ready!ReadinessNext]_readinessVars => ReadinessIInv'
<1> SUFFICES ASSUME ReadinessIInv, [Ready!ReadinessNext]_readinessVars PROVE ReadinessIInv'
  OBVIOUS
<1>1. CASE Ready!WorldChanges
  BY <1>1, WorldChangesIInv
<1>2. ASSUME NEW s \in Probes, Ready!Poll(s) PROVE ReadinessIInv'
  BY <1>2, PollIInv
<1>3. ASSUME NEW s \in Probes, Ready!ProbeStep(s) PROVE ReadinessIInv'
  <2>1. CASE Ready!Check(s)
    BY <2>1, CheckIInv
  <2>2. CASE Ready!Answered(s)
    BY <2>2, ShowIInv DEF Ready!Answered
  <2>3. CASE Ready!Fails(s)
    BY <2>3, ShowIInv DEF Ready!Fails
  <2> QED
    BY <1>3, <2>1, <2>2, <2>3 DEF Ready!ProbeStep
<1>4. CASE Ready!AskMeta \/ UNCHANGED readinessVars
  <2>1. UNCHANGED <<cfg, holds, probe, held>>
    BY <1>4 DEF Ready!AskMeta, readinessVars
  <2>2. readyPage' \in ReadyPages
    BY <1>4 DEF Ready!AskMeta, readinessVars, ReadinessIInv, ReadyPages, Ready!Configs
  <2>3. \A r \in Probes : ProbeSound(probe[r], held[r])'
    BY <2>1, ProbeStays DEF ReadinessIInv
  <2> QED
    BY <2>1, <2>2, <2>3 DEF ReadinessIInv
<1> QED
  BY <1>1, <1>2, <1>3, <1>4 DEF Ready!ReadinessNext

LEMMA ReadyShows == ReadinessIInv => Ready!ReadyIsServable
<1> SUFFICES ASSUME ReadinessIInv, NEW s \in Probes, probe[s].at > Len(Ready!CheckOrder), probe[s].ok
             PROVE  Ready!VerifyConfigured /\ Ready!VerifyNeeds \subseteq held[s]
  BY DEF Ready!ReadyIsServable
<1> DEFINE facts == held[s]
<1>0. ProbeSound(probe[s], facts) /\ probe[s].at \in Nat
  BY OrderLength DEF ReadinessIInv, Probed
<1>1. ShownBy(probe[s], facts)
  BY <1>0, OrderLength DEF ProbeSound
<1>2. \A k \in 1 .. 11 : Shown(Ready!CheckOrder[k], facts)
  BY <1>0, <1>1, OrderLength DEF ShownBy
<1> HIDE DEF facts
<1>3. /\ Shown("models", facts) /\ Shown("registry", facts) /\ Shown("oracle_funded", facts)
      /\ Shown("oracle_role", facts) /\ Shown("deployer_funded", facts)
      /\ Shown("meter", facts) /\ Shown("meter_settler", facts)
  <2>1. /\ Ready!CheckOrder[1] = "models" /\ Ready!CheckOrder[2] = "registry"
        /\ Ready!CheckOrder[4] = "oracle_funded" /\ Ready!CheckOrder[5] = "oracle_role"
        /\ Ready!CheckOrder[6] = "deployer_funded" /\ Ready!CheckOrder[7] = "meter"
        /\ Ready!CheckOrder[8] = "meter_settler"
    BY DEF Ready!CheckOrder
  <2> QED
    BY <1>2, <2>1
<1>4. /\ cfg.routerKey /\ cfg.storageUpload /\ cfg.deployerKey = "good" /\ cfg.oracleKey = "good"
      /\ cfg.registry # "unset"
  BY <1>1 DEF ShownBy, Ready!ConfigChecks, Ready!KeyReady
<1>5. cfg.meter \in {"live", "unset"}
  <2>1. cfg.meter \in {"live", "dead", "unset"}
    BY DEF ReadinessIInv, Ready!Configs, Ready!Addresses
  <2> QED
    BY <1>3, <2>1 DEF Shown
<1>6. Ready!VerifyConfigured
  BY <1>3, <1>4, <1>5 DEF Shown, Ready!VerifyConfigured
<1>7. {"router", "tee", "rpc", "oracle_funded", "oracle_role", "deployer_funded"} \subseteq facts
  BY <1>3, <1>4 DEF Shown
<1>8. cfg.meter # "unset" => "meter_settler" \in facts
  BY <1>3, <1>4, <1>5 DEF Shown
<1> QED
  BY <1>6, <1>7, <1>8 DEF facts, Ready!VerifyNeeds

-----------------------------------------------------------------------------
(* Whichever page is mounted, the others rest. *)

Mounted == mounted \in {"studio", "playbook", "market", "readiness"}
PagesIInv == StudioIInv /\ PlaybookTypes /\ MarketIInv /\ ReadinessIInv

LEMMA PagesInitIInv == PagesInit => PagesIInv
BY StudioInitIInv, PlaybookTypesInit, MarketInitIInv, ReadinessInitIInv, PagesAssumption DEF PagesInit, PagesIInv

LEMMA PagesNextIInv == PagesIInv /\ [PagesNext]_pagesVars => PagesIInv'
<1> SUFFICES ASSUME PagesIInv, [PagesNext]_pagesVars PROVE PagesIInv'
  OBVIOUS
<1>1. [StudioNext]_studioVars
  BY DEF PagesNext, StudioStep, PlaybookStep, MarketStep, ReadinessStep, pagesVars
<1>2. [Steps!PlaybookNext]_playbookVars
  BY DEF PagesNext, StudioStep, PlaybookStep, MarketStep, ReadinessStep, pagesVars
<1>3. [Ready!ReadinessNext]_readinessVars
  BY DEF PagesNext, StudioStep, PlaybookStep, MarketStep, ReadinessStep, pagesVars
<1>4. [Trade!MarketNext]_marketVars
  BY DEF PagesNext, StudioStep, PlaybookStep, MarketStep, ReadinessStep, pagesVars
<1> QED
  BY <1>1, <1>2, <1>3, <1>4, StudioNextIInv, PlaybookTypesNext, MarketNextIInv, ReadinessNextIInv, PagesAssumption
     DEF PagesIInv

LEMMA PagesInvariant == PagesSpec => []PagesIInv
BY PagesInitIInv, PagesNextIInv, PTL DEF PagesSpec

LEMMA StudioInvariant == StudioSpec => []StudioIInv
BY StudioInitIInv, StudioNextIInv, PTL DEF StudioSpec

\* Of the web client: types of the page that is mounted, of its handlers and
\* of what they rest on.
THEOREM PagesTypeCorrect == PagesSpec => []PagesTypeOK
<1>1. PagesIInv => StudioTypeOK
  BY DEF PagesIInv, StudioIInv, PageSound, ChainSound, StudioTypeOK, Pages
<1>2. MarketIInv => Trade!MarketTypeOK
  BY DEF MarketIInv, MkPageSound, MkChainSound, MkPages, Trade!MarketTypeOK
<1>3. ReadinessIInv => Ready!ReadinessTypeOK
  BY DEF ReadinessIInv, ProbeSound, Probed, ReadyPages, Ready!ReadinessTypeOK
<1>4. PagesIInv /\ Mounted => PagesTypeOK
  BY <1>1, <1>2, <1>3, PlaybookTypesTypeOK DEF PagesIInv, PagesTypeOK, Mounted
<1>5. PagesInit => Mounted
  BY DEF PagesInit, Mounted
<1>6. Mounted /\ [PagesNext]_pagesVars => Mounted'
  BY DEF PagesNext, Mounted, pagesVars
<1> QED
  BY <1>4, <1>5, <1>6, PagesInvariant, PTL DEF PagesSpec

\* Studio.tsx, POST /verify and registerIntent: whichever account finds itself
\* in which session, and however late a verify, a registration or a deposit
\* lands, what settles was verified at the cost of its intent's principal, and
\* of two intents compiled at one nonce one at most is registered.
THEOREM SessionsStayApart == (StudioSpec => []SessionsKeptApart) /\ (PagesSpec => []SessionsKeptApart)
<1>1. StudioIInv => SessionsKeptApart
  BY DEF StudioIInv, ChainSound, SessionsKeptApart, SettledWasBilled, Charged
<1>2. PagesIInv => StudioIInv
  BY DEF PagesIInv
<1> QED
  BY <1>1, <1>2, StudioInvariant, PagesInvariant, PTL

\* Studio.tsx and the settling contracts: no action is settled by the vault
\* and by the executor, because the settlement is part of the action.
THEOREM ActionsSettleOnce == (StudioSpec => []SettledOnce) /\ (PagesSpec => []SettledOnce)
<1>1. StudioIInv => SettledOnce
  BY DEF StudioIInv, ChainSound, SettledOnce, Contracts
<1>2. PagesIInv => StudioIInv
  BY DEF PagesIInv
<1> QED
  BY <1>1, <1>2, StudioInvariant, PagesInvariant, PTL

\* Playbook.tsx and POST /verify/step: what the page settles is a settle step
\* of an intent whose allocate step was approved, and step 2 is locked until
\* the approval of step 1 is on chain, whatever session answers arrive in.
THEOREM PlaybookKeepsOrder == PagesSpec => []PlaybookInOrder
<1>1. PlaybookIInv => Steps!PlaybookInOrder
  BY DEF PlaybookIInv, PbPageSound, PbFirst, Steps!PlaybookInOrder, Steps!Step2WaitsForChain, Steps!Step1Approved
<1>2. PagesIInv => PlaybookInOrder
  BY <1>1 DEF PagesIInv, PlaybookTypes, PlaybookInOrder
<1> QED
  BY <1>2, PagesInvariant, PTL

\* Market.tsx, POST /verify/a2a and IntentBounty.sol: money is locked only for
\* an action of a registered intent that a verify answered APPROVE of, whatever
\* handlers overlap and however late a fund lands.
THEOREM FundsFollowApproval == PagesSpec => []FundsWereApproved
<1>1. PagesIInv => FundsWereApproved
  BY DEF PagesIInv, MarketIInv, MkChainSound, FundsWereApproved, Trade!FundsWereApproved
<1> QED
  BY <1>1, PagesInvariant, PTL

\* GET /ready (app.ts) and POST /verify: a probe that answers ready speaks of a
\* configuration no verify is refused for, and every fact a verify needs held
\* at some moment while it ran, however the world changed between its checks.
THEOREM ReadyAnswersAreTrue == PagesSpec => []ReadyIsServable
<1>1. PagesIInv => ReadyIsServable
  BY ReadyShows DEF PagesIInv, ReadyIsServable
<1> QED
  BY <1>1, PagesInvariant, PTL
=============================================================================
