--------------------------- MODULE ContractsProofs ---------------------------
(***************************************************************************)
(* The two contracts of MCContracts, for any accounts, amounts, prices,    *)
(* data, tokens and nesting of calls: VerificationMeter accounts for every *)
(* credit and can pay it, and an Agentic ID token has its metadata.  A     *)
(* refused call restores saved storage, so each invariant also says that   *)
(* every open frame was sound when it was saved.                           *)
(***************************************************************************)
EXTENDS MCContracts, SequenceTheorems, FiniteSetTheorems, TLAPS

-----------------------------------------------------------------------------
(* A call into Hook adds a frame, its end takes the last one away.         *)

LEMMA PopFrame ==
    ASSUME NEW T, NEW s \in Seq(T), s # <<>>
    PROVE  /\ Len(s) \in Nat \ {0} /\ Last(s) \in T /\ Last(s) = s[Len(s)]
           /\ Front(s) \in Seq(T) /\ Len(Front(s)) = Len(s) - 1
           /\ \A k \in 1..(Len(s) - 1) : Front(s)[k] = s[k]
<1>1. Len(s) \in Nat \ {0}
  OBVIOUS
<1>2. /\ Front(s) \in Seq(T) /\ Len(Front(s)) = Len(s) - 1
      /\ \A k \in 1..(Len(s) - 1) : Front(s)[k] = s[k]
  <2>1. \A k \in 1..(Len(s) - 1) : s[k] \in T
    BY <1>1
  <2>2. /\ SubSeq(s, 1, Len(s) - 1) \in Seq(T)
        /\ Len(SubSeq(s, 1, Len(s) - 1)) =
              IF 1 <= Len(s) - 1 THEN Len(s) - 1 - 1 + 1 ELSE 0
        /\ \A k \in 1..(Len(s) - 1 - 1 + 1) :
              SubSeq(s, 1, Len(s) - 1)[k] = s[1 + k - 1]
    BY <1>1, <2>1, SubSeqProperties
  <2>3. Front(s) = SubSeq(s, 1, Len(s) - 1)
    BY DEF Front
  <2>4. Len(Front(s)) = Len(s) - 1
    <3>1. Len(Front(s)) = IF 1 <= Len(s) - 1 THEN Len(s) - 1 - 1 + 1 ELSE 0
      BY <2>2, <2>3
    <3>2. \A n \in Nat \ {0} : (IF 1 <= n - 1 THEN n - 1 - 1 + 1 ELSE 0) = n - 1
      OBVIOUS
    <3> QED
      BY <1>1, <3>1, <3>2, Zenon
  <2>5. ASSUME NEW k \in 1..(Len(s) - 1) PROVE Front(s)[k] = s[k]
    <3>1. k \in 1..(Len(s) - 1 - 1 + 1) /\ 1 + k - 1 = k
      BY <1>1
    <3> QED
      BY <2>2, <2>3, <3>1
  <2> QED
    BY <2>2, <2>3, <2>4, <2>5
<1>3. Last(s) = s[Len(s)] /\ Len(s) \in 1..Len(s)
  BY <1>1 DEF Last
<1> QED
  BY <1>1, <1>2, <1>3

-----------------------------------------------------------------------------
(* Sums.                                                                   *)

\* The units of one argument are as many as its value.
LEMMA OwnUnits ==
    ASSUME NEW x, NEW n \in Nat
    PROVE  IsFiniteSet({x} \X (1..n)) /\ Cardinality({x} \X (1..n)) = n
<1> DEFINE h == [m \in 1..n |-> <<x, m>>]
<1>1. IsFiniteSet(1..n) /\ Cardinality(1..n) = n
  BY FS_Interval
<1>2. h \in Bijection(1..n, {x} \X (1..n))
  BY DEF Bijection, Injection, Surjection, IsInjective
<1> QED
  BY <1>1, <1>2, FS_Bijection DEF ExistsBijection

LEMMA DisjointUnion ==
    ASSUME NEW S, NEW T, IsFiniteSet(S), IsFiniteSet(T), S \cap T = {}
    PROVE  IsFiniteSet(S \cup T) /\ Cardinality(S \cup T) = Cardinality(S) + Cardinality(T)
<1>1. Cardinality(S) \in Nat /\ Cardinality(T) \in Nat /\ Cardinality(S \cap T) = 0
  BY FS_CardinalityType, FS_EmptySet
<1>2. IsFiniteSet(S \cup T) /\ Cardinality(S \cup T) = Cardinality(S) + Cardinality(T) - Cardinality(S \cap T)
  BY FS_Union, Zenon
<1> QED
  BY <1>1, <1>2

\* Changing one value changes the total by the difference.
LEMMA TotalChanges ==
    ASSUME NEW f, f \in [DOMAIN f -> Nat], NEW x \in DOMAIN f, NEW c \in Nat, IsFiniteSet(Units(f))
    PROVE  /\ IsFiniteSet(Units([f EXCEPT ![x] = c])) /\ Total([f EXCEPT ![x] = c]) \in Nat /\ Total(f) \in Nat
           /\ Total([f EXCEPT ![x] = c]) + f[x] = Total(f) + c
<1> DEFINE S    == DOMAIN f
           g    == [f EXCEPT ![x] = c]
           old  == {x} \X (1..f[x])
           new  == {x} \X (1..c)
           rest == Units(f) \ old
<1>1. IsFiniteSet(old) /\ Cardinality(old) = f[x] /\ IsFiniteSet(new) /\ Cardinality(new) = c
  BY OwnUnits
<1>2. IsFiniteSet(rest) /\ Cardinality(rest) \in Nat
  BY FS_Subset, FS_CardinalityType
<1>3. Units(f) = rest \cup old /\ rest \cap old = {}
  BY DEF Units
<1>4. Units(g) = rest \cup new /\ rest \cap new = {}
  <2>1. \A y \in S : g[y] = IF y = x THEN c ELSE f[y]
    OBVIOUS
  <2>2. \A p : p \in Units(f) <=> \E y \in S : \E m \in 1..f[y] : p = <<y, m>>
    BY DEF Units
  <2>3. \A p : p \in Units(g) <=> \E y \in S : \E m \in 1..g[y] : p = <<y, m>>
    BY DEF Units
  <2>4. \A p : p \in rest <=> \E y \in S : y # x /\ \E m \in 1..f[y] : p = <<y, m>>
    BY <2>2
  <2> HIDE DEF g, rest
  <2>5. \A p : p \in Units(g) <=> p \in rest \/ p \in new
    BY <2>1, <2>3, <2>4
  <2>6. rest \cap new = {}
    BY <2>4
  <2>7. Units(g) = rest \cup new
    <3> HIDE DEF new
    <3> QED
      BY <2>5
  <2> QED
    BY <2>6, <2>7 DEF g, rest
<1> HIDE DEF g, old, new, rest
<1>5. Cardinality(Units(f)) = Cardinality(rest) + f[x]
  BY <1>1, <1>2, <1>3, DisjointUnion, Zenon
<1>6. IsFiniteSet(Units(g)) /\ Cardinality(Units(g)) = Cardinality(rest) + c
  BY <1>1, <1>2, <1>4, DisjointUnion
<1> QED
  BY <1>2, <1>5, <1>6 DEF Total, g

\* Nothing adds up to nothing.
LEMMA TotalOfNothing ==
    ASSUME NEW S, NEW f, f = [x \in S |-> 0]
    PROVE  IsFiniteSet(Units(f)) /\ Total(f) = 0
<1>1. Units(f) = {}
  BY DEF Units
<1> QED
  BY <1>1, FS_EmptySet DEF Total

-----------------------------------------------------------------------------
(* VerificationMeter.                                                      *)

Balanced(c, b) == \A x \in Accounts :
    b[x].deposited = c[x] + b[x].withdrawn + b[x].debited

Debits(b) == [x \in Accounts |-> b[x].debited]

Covered(h, c, b) ==
    /\ IsFiniteSet(Units(c)) /\ IsFiniteSet(Units(Debits(b)))
    /\ h = Total(c) + Total(Debits(b))

Sound(h, c, b) == Balanced(c, b) /\ Covered(h, c, b)

FramesSound ==
    \A k \in 1..Len(stack) : Sound(stack[k].held, stack[k].credits, stack[k].book)

MeterIInv == MeterTypeOK /\ Sound(held, credits, book) /\ FramesSound

LEMMA MeterInitIInv == MeterInit => MeterIInv
<1> SUFFICES ASSUME MeterInit PROVE MeterIInv
  OBVIOUS
<1>1. MeterTypeOK /\ Balanced(credits, book) /\ FramesSound
  BY MeterAssumption DEF MeterInit, MeterTypeOK, Balanced, FramesSound, Entry, Frame
<1>2. credits = [x \in Accounts |-> 0] /\ Debits(book) = [x \in Accounts |-> 0] /\ held = 0
  BY DEF MeterInit, Debits
<1>3. Covered(held, credits, book)
  BY <1>2, TotalOfNothing DEF Covered
<1> QED
  BY <1>1, <1>3 DEF MeterIInv, Sound

\* A call changes one account's credits and one account's events, and the
\* contract's balance by as much.
LEMMA ChangeAccount ==
    ASSUME NEW h \in Int, NEW C \in [Accounts -> Nat], NEW B \in [Accounts -> Entry], Sound(h, C, B),
           NEW x \in Accounts, NEW c \in Nat, NEW e \in Entry,
           e.deposited = c + e.withdrawn + e.debited
    PROVE  /\ [C EXCEPT ![x] = c] \in [Accounts -> Nat]
           /\ [B EXCEPT ![x] = e] \in [Accounts -> Entry]
           /\ Sound(h + (c - C[x]) + (e.debited - B[x].debited), [C EXCEPT ![x] = c], [B EXCEPT ![x] = e])
<1> DEFINE D == [C EXCEPT ![x] = c]
           E == [B EXCEPT ![x] = e]
<1>1. D \in [Accounts -> Nat] /\ E \in [Accounts -> Entry] /\ Balanced(D, E)
  BY DEF Balanced, Sound
<1>2. Debits(B) \in [Accounts -> Nat] /\ e.debited \in Nat /\ C[x] \in Nat /\ Debits(B)[x] = B[x].debited
  BY DEF Debits, Entry
<1>3. Debits(E) = [Debits(B) EXCEPT ![x] = e.debited]
  BY DEF Debits
<1>4. /\ IsFiniteSet(Units(D)) /\ Total(D) \in Nat /\ Total(C) \in Nat
      /\ Total(D) + C[x] = Total(C) + c
  <2>1. IsFiniteSet(Units(C)) /\ C \in [DOMAIN C -> Nat] /\ x \in DOMAIN C
    BY DEF Sound, Covered
  <2> QED
    BY <2>1, TotalChanges
<1>5. /\ IsFiniteSet(Units(Debits(E))) /\ Total(Debits(E)) \in Nat /\ Total(Debits(B)) \in Nat
      /\ Total(Debits(E)) + Debits(B)[x] = Total(Debits(B)) + e.debited
  <2>1. IsFiniteSet(Units(Debits(B))) /\ Debits(B) \in [DOMAIN Debits(B) -> Nat] /\ x \in DOMAIN Debits(B)
    BY <1>2 DEF Sound, Covered
  <2> DEFINE F == [Debits(B) EXCEPT ![x] = e.debited]
  <2>2. /\ IsFiniteSet(Units(F)) /\ Total(F) \in Nat /\ Total(Debits(B)) \in Nat
        /\ Total(F) + Debits(B)[x] = Total(Debits(B)) + e.debited
    BY <1>2, <2>1, TotalChanges
  <2> QED
    BY <1>3, <2>2, Zenon
<1>6. h = Total(C) + Total(Debits(B))
  BY DEF Sound, Covered
<1> HIDE DEF D, E
<1>7. h + (c - C[x]) + (e.debited - B[x].debited) = Total(D) + Total(Debits(E))
  BY <1>2, <1>4, <1>5, <1>6
<1> QED
  BY <1>1, <1>4, <1>5, <1>7 DEF Sound, Covered, D, E

LEMMA BalancedAt ==
    ASSUME MeterIInv, NEW x \in Accounts
    PROVE  /\ credits[x] \in Nat /\ book[x] \in Entry
           /\ book[x].deposited \in Nat /\ book[x].withdrawn \in Nat /\ book[x].debited \in Nat
           /\ book[x].deposited = credits[x] + book[x].withdrawn + book[x].debited
BY DEF MeterIInv, MeterTypeOK, Sound, Balanced, Entry

\* A step that changes account x alone, to credits c and events e.
LEMMA AccountStep ==
    ASSUME MeterIInv, NEW x \in Accounts, NEW c \in Nat, NEW e \in Entry,
           e.deposited = c + e.withdrawn + e.debited,
           credits' = [credits EXCEPT ![x] = c], book' = [book EXCEPT ![x] = e],
           held' = held + (c - credits[x]) + (e.debited - book[x].debited)
    PROVE  /\ credits' \in [Accounts -> Nat] /\ book' \in [Accounts -> Entry] /\ held' \in Int
           /\ Sound(held', credits', book')
<1>1. /\ held \in Int /\ credits \in [Accounts -> Nat] /\ book \in [Accounts -> Entry]
      /\ Sound(held, credits, book)
  BY DEF MeterIInv, MeterTypeOK
<1>2. c \in Int /\ credits[x] \in Int /\ e.debited \in Int /\ book[x].debited \in Int
  BY BalancedAt DEF Entry
<1>3. /\ credits' \in [Accounts -> Nat] /\ book' \in [Accounts -> Entry]
      /\ Sound(held + (c - credits[x]) + (e.debited - book[x].debited), credits', book')
  BY <1>1, ChangeAccount
<1> QED
  BY <1>1, <1>2, <1>3

LEMMA DepositIInv ==
    ASSUME MeterIInv, NEW x \in Accounts, NEW amount \in Amounts, Deposit(x, amount)
    PROVE  MeterIInv'
<1> DEFINE c == credits[x] + amount
           e == [book[x] EXCEPT !.deposited = @ + amount]
<1>1. amount \in Nat /\ held \in Int
  BY MeterAssumption DEF MeterIInv, MeterTypeOK
<1>2. c \in Nat /\ e \in Entry /\ e.deposited = c + e.withdrawn + e.debited /\ e.debited = book[x].debited
  BY <1>1, BalancedAt DEF Entry
<1>3. credits' = [credits EXCEPT ![x] = c] /\ book' = [book EXCEPT ![x] = e] /\ UNCHANGED <<priceWei, stack>>
  BY DEF Deposit
<1>4. held' = held + (c - credits[x]) + (e.debited - book[x].debited)
  BY <1>1, <1>2, BalancedAt DEF Deposit
<1>5. /\ credits' \in [Accounts -> Nat] /\ book' \in [Accounts -> Entry] /\ held' \in Int
      /\ Sound(held', credits', book')
  BY <1>2, <1>3, <1>4, AccountStep
<1> QED
  BY <1>3, <1>5 DEF MeterIInv, MeterTypeOK, FramesSound, Sound, Balanced, Covered

LEMMA WithdrawIInv ==
    ASSUME MeterIInv, NEW x \in Accounts, NEW amount \in Amounts, Withdraw(x, amount)
    PROVE  MeterIInv'
<1> DEFINE c == credits[x] - amount
           e == [book[x] EXCEPT !.withdrawn = @ + amount]
           saved == [credits |-> credits, held |-> held, book |-> book]
<1>1. amount \in Nat /\ held \in Int /\ credits[x] >= amount
  BY MeterAssumption DEF MeterIInv, MeterTypeOK, Withdraw, CanWithdraw
<1>2. c \in Nat /\ e \in Entry /\ e.deposited = c + e.withdrawn + e.debited /\ e.debited = book[x].debited
  BY <1>1, BalancedAt DEF Entry
<1>3. credits' = [credits EXCEPT ![x] = c] /\ book' = [book EXCEPT ![x] = e] /\ UNCHANGED priceWei
  BY DEF Withdraw
<1>4. held' = held + (c - credits[x]) + (e.debited - book[x].debited)
  BY <1>1, <1>2, BalancedAt DEF Withdraw
<1>5. /\ credits' \in [Accounts -> Nat] /\ book' \in [Accounts -> Entry] /\ held' \in Int
      /\ Sound(held', credits', book')
  BY <1>2, <1>3, <1>4, AccountStep
<1>6. /\ stack' \in Seq(Frame)
      /\ \A k \in 1..Len(stack') : Sound(stack'[k].held, stack'[k].credits, stack'[k].book)
  <2>1. CASE UNCHANGED stack
    BY <2>1 DEF MeterIInv, MeterTypeOK, FramesSound
  <2>2. CASE stack' = Append(stack, saved)
    <3>1. saved \in Frame /\ stack \in Seq(Frame) /\ Sound(saved.held, saved.credits, saved.book)
      BY DEF MeterIInv, MeterTypeOK, Frame
    <3>2. Len(stack) \in Nat /\ Len(stack') = Len(stack) + 1 /\ stack' \in Seq(Frame)
      BY <2>2, <3>1
    <3>3. stack'[Len(stack) + 1] = saved /\ \A k \in 1..Len(stack) : stack'[k] = stack[k]
      BY <2>2, <3>1
    <3> HIDE DEF saved
    <3> QED
      BY <3>1, <3>2, <3>3 DEF MeterIInv, FramesSound
  <2> QED
    BY <2>1, <2>2 DEF Withdraw
<1> QED
  BY <1>3, <1>5, <1>6 DEF MeterIInv, MeterTypeOK, FramesSound, Sound, Balanced, Covered

LEMMA DebitIInv ==
    ASSUME MeterIInv, NEW x \in Accounts, NEW amount \in Amounts, Debit(x, amount)
    PROVE  MeterIInv'
<1> DEFINE c == credits[x] - amount
           e == [book[x] EXCEPT !.debited = @ + amount]
<1>1. amount \in Nat /\ held \in Int /\ credits[x] >= amount
  BY MeterAssumption DEF MeterIInv, MeterTypeOK, Debit, CanWithdraw
<1>2. c \in Nat /\ e \in Entry /\ e.deposited = c + e.withdrawn + e.debited /\ e.debited = book[x].debited + amount
  BY <1>1, BalancedAt DEF Entry
<1>3. credits' = [credits EXCEPT ![x] = c] /\ book' = [book EXCEPT ![x] = e] /\ UNCHANGED <<priceWei, stack>>
  BY DEF Debit
<1>4. held' = held + (c - credits[x]) + (e.debited - book[x].debited)
  <2>1. held' = held /\ credits[x] \in Nat /\ book[x].debited \in Nat
    BY BalancedAt DEF Debit
  <2> QED
    BY <1>1, <1>2, <2>1
<1>5. /\ credits' \in [Accounts -> Nat] /\ book' \in [Accounts -> Entry] /\ held' \in Int
      /\ Sound(held', credits', book')
  BY <1>2, <1>3, <1>4, AccountStep
<1> QED
  BY <1>3, <1>5 DEF MeterIInv, MeterTypeOK, FramesSound, Sound, Balanced, Covered

LEMMA HookIInv ==
    ASSUME MeterIInv, HookReturns \/ HookReverts
    PROVE  MeterIInv'
<1>1. stack # <<>> /\ stack' = Front(stack) /\ priceWei' = priceWei /\ stack \in Seq(Frame)
  BY DEF HookReturns, HookReverts, MeterIInv, MeterTypeOK
<1>2. /\ Len(stack) \in Nat \ {0} /\ Last(stack) \in Frame /\ Last(stack) = stack[Len(stack)]
      /\ stack' \in Seq(Frame) /\ Len(stack') = Len(stack) - 1
      /\ \A k \in 1..(Len(stack) - 1) : stack'[k] = stack[k]
  BY <1>1, PopFrame
<1>3. /\ \A k \in 1..Len(stack') : Sound(stack'[k].held, stack'[k].credits, stack'[k].book)
      /\ Sound(Last(stack).held, Last(stack).credits, Last(stack).book)
  BY <1>2 DEF MeterIInv, FramesSound
<1>4. /\ credits' \in [Accounts -> Nat] /\ held' \in Int /\ book' \in [Accounts -> Entry]
      /\ Sound(held', credits', book')
  BY <1>2, <1>3 DEF HookReturns, HookReverts, MeterIInv, MeterTypeOK, Frame
<1> QED
  BY <1>1, <1>2, <1>3, <1>4 DEF MeterIInv, MeterTypeOK, FramesSound, Sound, Balanced, Covered

LEMMA MeterStays == ASSUME MeterIInv, UNCHANGED meterVars PROVE MeterIInv'
BY DEF meterVars, MeterIInv, MeterTypeOK, FramesSound, Sound, Balanced, Covered

LEMMA MeterNextIInv == ASSUME MeterIInv, MeterNext PROVE MeterIInv'
<1>1. ASSUME NEW next \in Prices, SetPrice(next) PROVE MeterIInv'
  BY <1>1 DEF SetPrice, MeterIInv, MeterTypeOK, FramesSound, Sound, Balanced, Covered
<1> QED
  BY <1>1, DepositIInv, WithdrawIInv, DebitIInv, HookIInv DEF MeterNext

-----------------------------------------------------------------------------
(* IntentosAgenticIdV2.                                                    *)

LEMMA SameFront == \A s : Agentic!Front(s) = Front(s) /\ Agentic!Last(s) = Last(s)
BY DEF Agentic!Front, Agentic!Last, Front, Last

LEMMA SameCounting == \A S : Agentic!Cardinality(S) = Cardinality(S)
BY DEF Agentic!Cardinality, Cardinality, Agentic!IsFiniteSet, IsFiniteSet

Owners == [Agentic!Tokens -> Accounts \cup {Nobody}]

\* The tokens that exist are 1..n, and next is the one minted next.
Numbered(o, n) == n \in 0..MaxTokens /\ \A t \in Agentic!Tokens : o[t] # Nobody <=> t <= n
NoGaps(o) == \E n \in Nat : Numbered(o, n)

\* The tokens of the first n calls of s: their metadata is still to come.
Begun(s, n) == {s[k].token : k \in 1..n}

\* Storage in a call that mints the tokens of busy.
StoreSound(o, m, busy) ==
    /\ NoGaps(o)
    /\ \A t \in Agentic!Tokens : t \in busy => o[t] # Nobody
    /\ \A t \in Agentic!Tokens : t \notin busy => (o[t] # Nobody <=> m[t].uri # "none")

FrameSound(f, busy) ==
    /\ f.data.uri # "none"
    /\ StoreSound(f.owner, f.metadata, busy)

CallsSound(s) == \A k \in 1..Len(s) : FrameSound(s[k], Begun(s, k - 1))

Requests == [stage : {"uri", "hash", "sign"}, kind : {"transfer", "clone"}, token : Agentic!Tokens,
             from : Accounts, to : Accounts, uri : Datas \cup {"none"}, hash : Datas \cup {"none"}]

AgenticIInv ==
    /\ owner \in Owners /\ metadata \in [Agentic!Tokens -> Agentic!Metadata]
    /\ authorized \in [Agentic!Tokens -> SUBSET Accounts]
    /\ proofs \subseteq Agentic!Proof
    /\ request \in Requests \/ request = [stage |-> "idle"]
    /\ minting \in Seq(Agentic!Frame) /\ CallsSound(minting)
    /\ StoreSound(owner, metadata, Begun(minting, Len(minting)))

\* What the constants give.
LEMMA Given ==
    /\ Hook \in Accounts /\ Nobody \notin Accounts /\ "none" \notin Datas
    /\ MaxTokens \in Nat /\ Agentic!Tokens = 1..MaxTokens /\ Agentic!NoData = "none"
BY ContractsAssumption DEF Agentic!AgenticConstants, Agentic!Tokens, Agentic!NoData

\* Tokens numbered without gaps: the next one is one more than there are.
LEMMA NextNumber ==
    ASSUME NEW n, Numbered(owner, n)
    PROVE  n \in 0..MaxTokens /\ Agentic!NextTokenId = n + 1
<1>1. n \in 0..MaxTokens /\ n \in Nat /\ MaxTokens \in Nat
  BY Given DEF Numbered
<1>2. {t \in Agentic!Tokens : Agentic!Exists(t)} = 1..n
  BY <1>1, Given DEF Agentic!Exists, Numbered
<1>3. Cardinality(1..n) = n
  BY <1>1, FS_Interval
<1> QED
  BY <1>1, <1>2, <1>3, SameCounting DEF Agentic!NextTokenId

\* A token minted takes the next number.
LEMMA MintKeeps ==
    ASSUME NEW o \in Owners, NEW m \in [Agentic!Tokens -> Agentic!Metadata], NEW busy, StoreSound(o, m, busy),
           NEW n, Numbered(o, n), n + 1 \in Agentic!Tokens, NEW to \in Accounts, NEW d, d.uri # "none"
    PROVE  /\ o[n + 1] = Nobody
           /\ StoreSound([o EXCEPT ![n + 1] = to], [m EXCEPT ![n + 1] = d], busy)
           /\ StoreSound([o EXCEPT ![n + 1] = to], m, busy \cup {n + 1})
<1> DEFINE q == [o EXCEPT ![n + 1] = to]
<1>1. n \in Nat /\ n + 1 \in 0..MaxTokens /\ o[n + 1] = Nobody /\ to # Nobody
  BY Given DEF Numbered, Owners
<1>2. Numbered(q, n + 1)
  BY <1>1, Given DEF Numbered, Owners
<1>3. NoGaps(q)
  BY <1>1, <1>2 DEF NoGaps
<1>4. n + 1 \notin busy
  BY <1>1 DEF StoreSound
<1>5. \A t \in Agentic!Tokens : q[t] = IF t = n + 1 THEN to ELSE o[t]
  BY DEF Owners
<1>6. \A t \in Agentic!Tokens : [m EXCEPT ![n + 1] = d][t] = IF t = n + 1 THEN d ELSE m[t]
  OBVIOUS
<1> HIDE DEF q
<1>7. StoreSound(q, [m EXCEPT ![n + 1] = d], busy)
  BY <1>1, <1>3, <1>4, <1>5, <1>6 DEF StoreSound
<1>8. StoreSound(q, m, busy \cup {n + 1})
  BY <1>1, <1>3, <1>5 DEF StoreSound
<1> QED
  BY <1>1, <1>7, <1>8 DEF q

LEMMA PushCall ==
    ASSUME NEW s \in Seq(Agentic!Frame), CallsSound(s), NEW f \in Agentic!Frame, FrameSound(f, Begun(s, Len(s)))
    PROVE  /\ Append(s, f) \in Seq(Agentic!Frame) /\ CallsSound(Append(s, f)) /\ Len(Append(s, f)) = Len(s) + 1
           /\ Begun(Append(s, f), Len(s) + 1) = Begun(s, Len(s)) \cup {f.token}
<1> DEFINE u == Append(s, f)
<1>1. u \in Seq(Agentic!Frame) /\ Len(u) = Len(s) + 1 /\ Len(s) \in Nat
  OBVIOUS
<1>2. u[Len(s) + 1] = f /\ \A k \in 1..Len(s) : u[k] = s[k]
  OBVIOUS
<1> HIDE DEF u
<1>3. \A n \in 0..Len(s) : Begun(u, n) = Begun(s, n)
  BY <1>1, <1>2 DEF Begun
<1>4. ASSUME NEW k \in 1..Len(u) PROVE FrameSound(u[k], Begun(u, k - 1))
  <2>1. CASE k \in 1..Len(s)
    <3>1. k - 1 \in 0..Len(s)
      BY <1>1, <2>1
    <3> QED
      BY <1>2, <1>3, <2>1, <3>1 DEF CallsSound
  <2>2. CASE k = Len(s) + 1
    <3>1. k - 1 = Len(s) /\ Len(s) \in 0..Len(s)
      BY <1>1, <2>2
    <3> QED
      BY <1>2, <1>3, <2>2, <3>1
  <2> QED
    BY <1>1, <2>1, <2>2
<1>5. Begun(u, Len(s) + 1) = Begun(s, Len(s)) \cup {f.token}
  <2>1. 1..(Len(s) + 1) = (1..Len(s)) \cup {Len(s) + 1}
    BY <1>1
  <2> QED
    BY <1>2, <2>1 DEF Begun
<1> QED
  BY <1>1, <1>4, <1>5 DEF CallsSound, u

LEMMA PopCall ==
    ASSUME NEW s \in Seq(Agentic!Frame), CallsSound(s), s # <<>>
    PROVE  /\ Front(s) \in Seq(Agentic!Frame) /\ CallsSound(Front(s))
           /\ Last(s) \in Agentic!Frame /\ FrameSound(Last(s), Begun(Front(s), Len(Front(s))))
           /\ Begun(s, Len(s)) = Begun(Front(s), Len(Front(s))) \cup {Last(s).token}
<1>1. /\ Len(s) \in Nat \ {0} /\ Last(s) \in Agentic!Frame /\ Last(s) = s[Len(s)]
      /\ Front(s) \in Seq(Agentic!Frame) /\ Len(Front(s)) = Len(s) - 1
      /\ \A k \in 1..(Len(s) - 1) : Front(s)[k] = s[k]
  BY PopFrame
<1>2. \A n \in 0..(Len(s) - 1) : Begun(Front(s), n) = Begun(s, n)
  BY <1>1 DEF Begun
<1>3. CallsSound(Front(s))
  <2> SUFFICES ASSUME NEW k \in 1..(Len(s) - 1) PROVE FrameSound(Front(s)[k], Begun(Front(s), k - 1))
    BY <1>1 DEF CallsSound
  <2>1. k \in 1..Len(s) /\ k - 1 \in 0..(Len(s) - 1)
    BY <1>1
  <2> QED
    BY <1>1, <1>2, <2>1 DEF CallsSound
<1>4. Len(s) - 1 \in 0..(Len(s) - 1) /\ Len(s) \in 1..Len(s)
  BY <1>1
<1>5. FrameSound(Last(s), Begun(Front(s), Len(Front(s))))
  BY <1>1, <1>2, <1>4 DEF CallsSound
<1>6. Begun(s, Len(s)) = Begun(s, Len(s) - 1) \cup {Last(s).token}
  <2>1. 1..Len(s) = (1..(Len(s) - 1)) \cup {Len(s)}
    BY <1>1
  <2> QED
    BY <1>1, <2>1 DEF Begun
<1> QED
  BY <1>1, <1>2, <1>3, <1>4, <1>5, <1>6

LEMMA AgenticInitIInv == Agentic!AgenticInit => AgenticIInv
<1> SUFFICES ASSUME Agentic!AgenticInit PROVE AgenticIInv
  OBVIOUS
<1>1. /\ owner = [t \in Agentic!Tokens |-> Nobody] /\ metadata = [t \in Agentic!Tokens |-> Agentic!Unset]
      /\ authorized = [t \in Agentic!Tokens |-> {}] /\ minting = <<>> /\ proofs = {} /\ request = [stage |-> "idle"]
  BY DEF Agentic!AgenticInit, Agentic!Idle
<1>2. Numbered(owner, 0) /\ 0 \in Nat
  BY <1>1, Given DEF Numbered
<1>3. Agentic!Unset \in Agentic!Metadata /\ Agentic!Unset.uri = "none"
  BY Given DEF Agentic!Unset, Agentic!Metadata
<1>4. Len(minting) = 0 /\ minting \in Seq(Agentic!Frame) /\ CallsSound(minting)
  BY <1>1 DEF CallsSound
<1>5. NoGaps(owner)
  BY <1>2 DEF NoGaps
<1>6. Begun(minting, Len(minting)) = {}
  BY <1>4 DEF Begun
<1>7. StoreSound(owner, metadata, Begun(minting, Len(minting)))
  BY <1>1, <1>3, <1>5, <1>6 DEF StoreSound
<1>8. owner \in Owners /\ metadata \in [Agentic!Tokens -> Agentic!Metadata]
      /\ authorized \in [Agentic!Tokens -> SUBSET Accounts]
  BY <1>1, <1>3 DEF Owners
<1> QED
  BY <1>1, <1>4, <1>7, <1>8 DEF AgenticIInv

\* A token minted or cloned, to an account or to Hook.
LEMMA SafeMintIInv ==
    ASSUME AgenticIInv, NEW to \in Accounts, NEW d \in Agentic!Metadata, d.uri # "none",
           Agentic!NextTokenId \in Agentic!Tokens, Agentic!SafeMint(to, Agentic!NextTokenId, d),
           UNCHANGED <<proofs, request>>
    PROVE  AgenticIInv'
<1> DEFINE t    == Agentic!NextTokenId
           busy == Begun(minting, Len(minting))
           f    == [token |-> t, data |-> d, owner |-> owner, metadata |-> metadata, authorized |-> authorized]
<1>0. /\ owner \in Owners /\ metadata \in [Agentic!Tokens -> Agentic!Metadata]
      /\ authorized \in [Agentic!Tokens -> SUBSET Accounts]
      /\ minting \in Seq(Agentic!Frame) /\ CallsSound(minting) /\ StoreSound(owner, metadata, busy)
  BY DEF AgenticIInv
<1>1. PICK n \in Nat : Numbered(owner, n)
  BY <1>0 DEF StoreSound, NoGaps
<1>2. t = n + 1
  BY <1>1, NextNumber
<1> HIDE DEF t
<1>3. t \in Agentic!Tokens /\ Agentic!SafeMint(to, t, d)
  BY DEF t
<1>4. /\ StoreSound([owner EXCEPT ![t] = to], [metadata EXCEPT ![t] = d], busy)
      /\ StoreSound([owner EXCEPT ![t] = to], metadata, busy \cup {t})
  BY <1>0, <1>1, <1>2, <1>3, MintKeeps
<1>5. owner' = [owner EXCEPT ![t] = to] /\ owner' \in Owners /\ UNCHANGED authorized
  BY <1>0, <1>3 DEF Agentic!SafeMint, Owners
<1>6. CASE to = Hook
  <2>1. minting' = Append(minting, f) /\ UNCHANGED metadata
    BY <1>3, <1>6 DEF Agentic!SafeMint
  <2>2. f \in Agentic!Frame
    BY <1>0, <1>3 DEF Agentic!Frame, Owners
  <2>3. FrameSound(f, busy) /\ f.token = t
    BY <1>0 DEF FrameSound
  <2> HIDE DEF f
  <2>4. /\ minting' \in Seq(Agentic!Frame) /\ CallsSound(minting') /\ Len(minting') = Len(minting) + 1
        /\ Begun(minting', Len(minting) + 1) = busy \cup {f.token}
    BY <1>0, <2>1, <2>2, <2>3, PushCall
  <2>5. StoreSound(owner', metadata', Begun(minting', Len(minting')))
    BY <1>4, <1>5, <2>1, <2>3, <2>4
  <2> QED
    BY <1>0, <1>5, <2>1, <2>4, <2>5 DEF AgenticIInv
<1>7. CASE to # Hook
  <2>1. metadata' = [metadata EXCEPT ![t] = d] /\ UNCHANGED minting
    BY <1>3, <1>7 DEF Agentic!SafeMint
  <2>2. metadata' \in [Agentic!Tokens -> Agentic!Metadata]
    BY <1>0, <2>1
  <2>3. StoreSound(owner', metadata', Begun(minting', Len(minting')))
    BY <1>4, <1>5, <2>1
  <2> QED
    BY <1>0, <1>5, <2>1, <2>2, <2>3 DEF AgenticIInv
<1> QED
  BY <1>6, <1>7

LEMMA MintIInv == ASSUME AgenticIInv, Agentic!Mint PROVE AgenticIInv'
<1>1. PICK to \in Accounts, d \in Datas :
        /\ Agentic!NextTokenId \in Agentic!Tokens /\ Agentic!SafeMint(to, Agentic!NextTokenId, [uri |-> d, hash |-> d])
        /\ UNCHANGED <<proofs, request>>
  BY DEF Agentic!Mint
<1>2. [uri |-> d, hash |-> d] \in Agentic!Metadata /\ [uri |-> d, hash |-> d].uri # "none"
  BY Given DEF Agentic!Metadata
<1> QED
  BY <1>1, <1>2, SafeMintIInv

LEMMA CloneIInv == ASSUME AgenticIInv, Agentic!Clone PROVE AgenticIInv'
<1>1. PICK to \in Accounts, p \in proofs :
        /\ Agentic!NextTokenId \in Agentic!Tokens
        /\ Agentic!SafeMint(to, Agentic!NextTokenId, [uri |-> p.uri, hash |-> p.hash])
        /\ UNCHANGED <<proofs, request>>
  BY DEF Agentic!Clone
<1>2. p \in Agentic!Proof
  BY <1>1 DEF AgenticIInv
<1>3. [uri |-> p.uri, hash |-> p.hash] \in Agentic!Metadata /\ [uri |-> p.uri, hash |-> p.hash].uri # "none"
  BY <1>2, Given DEF Agentic!Metadata, Agentic!Proof
<1> QED
  BY <1>1, <1>3, SafeMintIInv

\* A token that exists moves or gets new data.
LEMMA MoveIInv ==
    ASSUME AgenticIInv, NEW t \in Agentic!Tokens, Agentic!Exists(t), NEW to \in Accounts,
           owner' = [owner EXCEPT ![t] = to], metadata' \in [Agentic!Tokens -> Agentic!Metadata],
           \A u \in Agentic!Tokens : metadata'[u] = metadata[u] \/ (u = t /\ metadata'[u].uri # "none"),
           UNCHANGED <<authorized, minting, proofs, request>>
    PROVE  AgenticIInv'
<1> DEFINE busy == Begun(minting, Len(minting))
<1>0. owner \in Owners /\ StoreSound(owner, metadata, busy)
  BY DEF AgenticIInv
<1>1. owner' \in Owners
  BY <1>0 DEF Owners
<1>2. \A u \in Agentic!Tokens : owner'[u] # Nobody <=> owner[u] # Nobody
  BY <1>0, Given DEF Owners, Agentic!Exists
<1>3. PICK n \in Nat : Numbered(owner, n)
  BY <1>0 DEF StoreSound, NoGaps
<1>4. Numbered(owner', n)
  BY <1>2, <1>3 DEF Numbered
<1>5. NoGaps(owner')
  BY <1>4 DEF NoGaps
<1>6. StoreSound(owner', metadata', busy)
  BY <1>0, <1>2, <1>5 DEF StoreSound, Agentic!Exists
<1> QED
  BY <1>1, <1>6 DEF AgenticIInv, CallsSound

LEMMA TransferIInv ==
    ASSUME AgenticIInv, Agentic!TransferWithProof \/ Agentic!TransferFrom
    PROVE  AgenticIInv'
<1>0. metadata \in [Agentic!Tokens -> Agentic!Metadata]
  BY DEF AgenticIInv
<1>1. CASE Agentic!TransferWithProof
  <2>1. PICK t \in Agentic!Tokens, to \in Accounts, p \in proofs :
          /\ Agentic!Exists(t) /\ owner' = [owner EXCEPT ![t] = to]
          /\ metadata' = [metadata EXCEPT ![t] = [uri |-> p.uri, hash |-> p.hash]]
          /\ UNCHANGED <<authorized, minting, proofs, request>>
    BY <1>1 DEF Agentic!TransferWithProof
  <2>2. [uri |-> p.uri, hash |-> p.hash] \in Agentic!Metadata /\ [uri |-> p.uri, hash |-> p.hash].uri # "none"
    BY <2>1, Given DEF Agentic!Metadata, Agentic!Proof, AgenticIInv
  <2>3. /\ metadata' \in [Agentic!Tokens -> Agentic!Metadata]
        /\ \A u \in Agentic!Tokens : metadata'[u] = metadata[u] \/ (u = t /\ metadata'[u].uri # "none")
    <3> DEFINE d == [uri |-> p.uri, hash |-> p.hash]
    <3>1. metadata' = [metadata EXCEPT ![t] = d] /\ d \in Agentic!Metadata /\ d.uri # "none"
      BY <2>1, <2>2
    <3> HIDE DEF d
    <3> QED
      BY <1>0, <3>1
  <2> QED
    BY <2>1, <2>3, MoveIInv
<1>2. CASE Agentic!TransferFrom
  <2>1. PICK t \in Agentic!Tokens, to \in Accounts :
          /\ Agentic!Exists(t) /\ owner' = [owner EXCEPT ![t] = to]
          /\ UNCHANGED <<metadata, authorized, minting, proofs, request>>
    BY <1>2 DEF Agentic!TransferFrom
  <2>2. /\ metadata' \in [Agentic!Tokens -> Agentic!Metadata]
        /\ \A u \in Agentic!Tokens : metadata'[u] = metadata[u] \/ (u = t /\ metadata'[u].uri # "none")
    BY <1>0, <2>1
  <2> QED
    BY <2>1, <2>2, MoveIInv
<1> QED
  BY <1>1, <1>2

LEMMA CallEndsIInv ==
    ASSUME AgenticIInv, Agentic!HookReturns \/ Agentic!HookReverts
    PROVE  AgenticIInv'
<1> DEFINE f    == Last(minting)
           rest == Front(minting)
           busy == Begun(rest, Len(rest))
<1>0. /\ owner \in Owners /\ metadata \in [Agentic!Tokens -> Agentic!Metadata]
      /\ authorized \in [Agentic!Tokens -> SUBSET Accounts]
      /\ minting \in Seq(Agentic!Frame) /\ CallsSound(minting)
      /\ StoreSound(owner, metadata, Begun(minting, Len(minting)))
  BY DEF AgenticIInv
<1>1. minting # <<>> /\ minting' = rest /\ UNCHANGED <<proofs, request>>
  BY SameFront DEF Agentic!HookReturns, Agentic!HookReverts
<1>2. /\ rest \in Seq(Agentic!Frame) /\ CallsSound(rest) /\ f \in Agentic!Frame /\ FrameSound(f, busy)
      /\ Begun(minting, Len(minting)) = busy \cup {f.token}
  BY <1>0, <1>1, PopCall
<1>3. CASE Agentic!HookReturns
  <2>1. UNCHANGED <<owner, authorized>> /\ metadata' = [metadata EXCEPT ![f.token] = f.data]
    BY <1>3, SameFront DEF Agentic!HookReturns
  <2> HIDE DEF f, rest, busy
  <2>2. f.token \in Agentic!Tokens /\ f.data \in Agentic!Metadata /\ f.data.uri # "none"
    BY <1>2 DEF Agentic!Frame, FrameSound
  <2>3. metadata' \in [Agentic!Tokens -> Agentic!Metadata]
    BY <1>0, <2>1, <2>2
  <2>4. \A t \in Agentic!Tokens : metadata'[t] = IF t = f.token THEN f.data ELSE metadata[t]
    BY <1>0, <2>1
  <2>5. StoreSound(owner, metadata', busy)
    BY <1>0, <1>2, <2>2, <2>4 DEF StoreSound
  <2> QED
    BY <1>0, <1>1, <1>2, <2>1, <2>3, <2>5 DEF AgenticIInv, busy
<1>4. CASE Agentic!HookReverts
  <2>1. owner' = f.owner /\ metadata' = f.metadata /\ authorized' = f.authorized
    BY <1>4, SameFront DEF Agentic!HookReverts
  <2> HIDE DEF f, rest, busy
  <2>2. /\ owner' \in Owners /\ metadata' \in [Agentic!Tokens -> Agentic!Metadata]
        /\ authorized' \in [Agentic!Tokens -> SUBSET Accounts]
    BY <1>2, <2>1 DEF Agentic!Frame, Owners
  <2>3. StoreSound(owner', metadata', busy)
    BY <1>2, <2>1 DEF FrameSound
  <2> QED
    BY <1>0, <1>1, <1>2, <2>2, <2>3 DEF AgenticIInv, busy
<1> QED
  BY <1>3, <1>4

LEMMA AuthorizeIInv == ASSUME AgenticIInv, Agentic!AuthorizeUsage PROVE AgenticIInv'
<1>1. PICK t \in Agentic!Tokens, executor \in Accounts, grant \in BOOLEAN :
        authorized' = [authorized EXCEPT ![t] = IF grant THEN @ \cup {executor} ELSE @ \ {executor}]
  BY DEF Agentic!AuthorizeUsage
<1>2. UNCHANGED <<owner, metadata, minting, proofs, request>>
  BY DEF Agentic!AuthorizeUsage
<1>3. authorized' \in [Agentic!Tokens -> SUBSET Accounts]
  BY <1>1 DEF AgenticIInv
<1> QED
  BY <1>2, <1>3 DEF AgenticIInv, CallsSound

\* The route asks, reads and signs.
LEMMA ProofIInv ==
    ASSUME AgenticIInv, Agentic!AskProof \/ Agentic!ReadUri \/ Agentic!ReadHash \/ Agentic!SignProof
    PROVE  AgenticIInv'
<1> DEFINE Fine == (request' \in Requests \/ request' = [stage |-> "idle"]) /\ proofs' \subseteq Agentic!Proof
<1>0. UNCHANGED <<owner, metadata, authorized, minting>>
  BY DEF Agentic!AskProof, Agentic!ReadUri, Agentic!ReadHash, Agentic!SignProof, Agentic!tokenVars
<1>1. /\ request \in Requests \/ request = [stage |-> "idle"]
      /\ proofs \subseteq Agentic!Proof /\ metadata \in [Agentic!Tokens -> Agentic!Metadata]
  BY DEF AgenticIInv
<1>2. ASSUME Agentic!AskProof PROVE Fine
  BY <1>1, <1>2, Given DEF Agentic!AskProof, Requests
<1>3. ASSUME Agentic!ReadUri PROVE Fine
  <2>1. request \in Requests
    BY <1>1, <1>3 DEF Agentic!ReadUri
  <2>2. metadata[request.token].uri \in Datas \cup {"none"}
    BY <1>1, <2>1, Given DEF Requests, Agentic!Metadata
  <2> QED
    BY <1>1, <1>3, <2>1, <2>2 DEF Agentic!ReadUri, Requests, Agentic!Idle
<1>4. ASSUME Agentic!ReadHash PROVE Fine
  <2>1. request \in Requests
    BY <1>1, <1>4 DEF Agentic!ReadHash
  <2>2. metadata[request.token].hash \in Datas \cup {"none"}
    BY <1>1, <2>1, Given DEF Requests, Agentic!Metadata
  <2> QED
    BY <1>1, <1>4, <2>1, <2>2 DEF Agentic!ReadHash, Requests
<1>5. ASSUME Agentic!SignProof PROVE Fine
  <2>1. request \in Requests
    BY <1>1, <1>5 DEF Agentic!SignProof
  <2> QED
    BY <1>1, <1>5, <2>1, Given DEF Agentic!SignProof, Requests, Agentic!Idle, Agentic!Proof
<1>6. Fine
  BY <1>2, <1>3, <1>4, <1>5
<1> QED
  BY <1>0, <1>6 DEF AgenticIInv, CallsSound

LEMMA AgenticStays == ASSUME AgenticIInv, UNCHANGED idVars PROVE AgenticIInv'
BY DEF idVars, AgenticIInv, CallsSound

LEMMA AgenticNextIInv == ASSUME AgenticIInv, Agentic!AgenticNext PROVE AgenticIInv'
BY MintIInv, CloneIInv, TransferIInv, CallEndsIInv, AuthorizeIInv, ProofIInv
   DEF Agentic!AgenticNext, Agentic!TokenNext

-----------------------------------------------------------------------------
(* The two together, and the theorems.                                     *)

ContractsIInv == MeterIInv /\ AgenticIInv

LEMMA ContractsInvariant == ContractsSpec => []ContractsIInv
<1>1. ContractsInit => ContractsIInv
  BY MeterInitIInv, AgenticInitIInv DEF ContractsInit, ContractsIInv
<1>2. ContractsIInv /\ [ContractsNext]_<<contract, meterVars, idVars>> => ContractsIInv'
  BY MeterNextIInv, MeterStays, AgenticNextIInv, AgenticStays DEF ContractsIInv, ContractsNext
<1> QED
  BY <1>1, <1>2, PTL DEF ContractsSpec

\* Types of both contracts: no debit, withdrawal or undone payment makes a
\* credit negative, and tokens are numbered without gaps through nested mints,
\* clones and their reverts.
THEOREM ContractsTypeCorrect == ContractsSpec => []ContractsTypeOK
<1>1. ContractsIInv => ContractsTypeOK
  <2> SUFFICES ASSUME ContractsIInv PROVE MeterTypeOK /\ Agentic!AgenticTypeOK
    BY DEF ContractsTypeOK
  <2>1. AgenticIInv /\ MeterTypeOK
    BY DEF ContractsIInv, MeterIInv
  <2>2. PICK n \in Nat : Numbered(owner, n)
    BY <2>1 DEF AgenticIInv, StoreSound, NoGaps
  <2>3. \A t \in Agentic!Tokens : Agentic!Exists(t) <=> t < Agentic!NextTokenId
    <3>1. n \in Nat /\ Agentic!NextTokenId = n + 1
      BY <2>2, NextNumber
    <3>2. \A t \in Agentic!Tokens : t \in Nat /\ (Agentic!Exists(t) <=> t <= n)
      BY <2>2, Given DEF Numbered, Agentic!Exists
    <3> QED
      BY <3>1, <3>2
  <2>4. \A i \in 1..Len(minting) : minting[i] \in Agentic!Frame
    BY <2>1 DEF AgenticIInv
  <2> QED
    BY <2>1, <2>3, <2>4 DEF Agentic!AgenticTypeOK, AgenticIInv, Owners
<1> QED
  BY <1>1, ContractsInvariant, PTL

\* The meter holds every credit and all that was ever debited, in every state
\* and so while it pays out, however deep withdraw is reentered and whatever
\* payments are undone.
THEOREM MeterCanPay == ContractsSpec => []MeterSolvent
<1>1. ContractsIInv => MeterSolvent
  BY DEF ContractsIInv, MeterIInv, Sound, Covered, Debits, MeterSolvent
<1> QED
  BY <1>1, ContractsInvariant, PTL

\* An account's deposits are its credits, its withdrawals and its debits,
\* however deep withdraw is reentered and whatever payments are undone.
THEOREM CreditsAccounted == ContractsSpec => []AccountBalanced
<1>1. ContractsIInv => AccountBalanced
  BY DEF ContractsIInv, MeterIInv, Sound, Balanced, AccountBalanced
<1> QED
  BY <1>1, ContractsInvariant, PTL

\* Outside a minting call a token has its metadata exactly if it exists,
\* however mints, clones and transfers nest and revert in each other.
THEOREM TokensAreComplete == ContractsSpec => []MintedComplete
<1>1. ContractsIInv => MintedComplete
  <2> SUFFICES ASSUME ContractsIInv, NEW t \in Agentic!Tokens, ~Agentic!Minting(t)
               PROVE  Agentic!Exists(t) <=> metadata[t].uri # Agentic!NoData
    BY DEF MintedComplete, Agentic!MintedComplete
  <2>1. t \notin Begun(minting, Len(minting))
    BY DEF Begun, Agentic!Minting
  <2> QED
    BY <2>1, Given DEF ContractsIInv, AgenticIInv, StoreSound, Agentic!Exists
<1> QED
  BY <1>1, ContractsInvariant, PTL

\* Until a call ends, the metadata of a token that exists changes only by a
\* proof that names it, its holder, its receiver and the new data.
THEOREM MetadataNeedsProof == ContractsSpec => MetadataMovesByProof
<1> DEFINE Moves == \A t \in Agentic!Tokens :
              Len(minting') >= Len(minting) /\ Agentic!Exists(t) /\ metadata'[t] # metadata[t] =>
                \E p \in proofs : /\ p.token = t /\ p.from = owner[t] /\ p.to = owner'[t]
                                  /\ metadata'[t] = [uri |-> p.uri, hash |-> p.hash]
<1>1. ContractsIInv /\ [ContractsNext]_<<contract, meterVars, idVars>> => [Moves]_Agentic!agenticVars
  <2> SUFFICES ASSUME ContractsIInv, Agentic!AgenticNext,
                      NEW t \in Agentic!Tokens, Len(minting') >= Len(minting), Agentic!Exists(t), metadata'[t] # metadata[t]
               PROVE  \E p \in proofs : /\ p.token = t /\ p.from = owner[t] /\ p.to = owner'[t]
                                        /\ metadata'[t] = [uri |-> p.uri, hash |-> p.hash]
    BY DEF ContractsNext, idVars, Agentic!agenticVars
  <2>0. /\ owner \in Owners /\ metadata \in [Agentic!Tokens -> Agentic!Metadata]
        /\ minting \in Seq(Agentic!Frame) /\ NoGaps(owner)
    BY DEF ContractsIInv, AgenticIInv, StoreSound
  <2>1. Agentic!NextTokenId # t
    <3>1. PICK n \in Nat : Numbered(owner, n)
      BY <2>0 DEF NoGaps
    <3> QED
      BY <3>1, NextNumber, Given DEF Numbered, Agentic!Exists
  <2>2. ASSUME NEW to, NEW d, Agentic!SafeMint(to, Agentic!NextTokenId, d) PROVE FALSE
    BY <2>0, <2>1, <2>2 DEF Agentic!SafeMint
  <2>3. CASE Agentic!TransferWithProof
    <3>1. PICK u \in Agentic!Tokens, to \in Accounts, p \in proofs :
            /\ Agentic!Verifies(p, "transfer", u, owner[u], to) /\ owner' = [owner EXCEPT ![u] = to]
            /\ metadata' = [metadata EXCEPT ![u] = [uri |-> p.uri, hash |-> p.hash]]
      BY <2>3 DEF Agentic!TransferWithProof
    <3>2. u = t /\ owner'[t] = to /\ metadata'[t] = [uri |-> p.uri, hash |-> p.hash]
      BY <2>0, <3>1 DEF Owners
    <3> QED
      BY <3>1, <3>2 DEF Agentic!Verifies
  <2>4. ASSUME Agentic!HookReturns \/ Agentic!HookReverts PROVE FALSE
    <3>1. minting # <<>> /\ minting' = Front(minting)
      BY <2>4, SameFront DEF Agentic!HookReturns, Agentic!HookReverts
    <3>2. Len(minting) \in Nat \ {0} /\ Len(minting') = Len(minting) - 1
      BY <2>0, <3>1, PopFrame
    <3> QED
      BY <3>2
  <2>5. CASE Agentic!AuthorizeUsage \/ Agentic!TransferFrom \/ Agentic!AskProof \/ Agentic!ReadUri
               \/ Agentic!ReadHash \/ Agentic!SignProof
    BY <2>5 DEF Agentic!AuthorizeUsage, Agentic!TransferFrom, Agentic!AskProof, Agentic!ReadUri,
                Agentic!ReadHash, Agentic!SignProof, Agentic!tokenVars
  <2> QED
    BY <2>2, <2>3, <2>4, <2>5 DEF Agentic!AgenticNext, Agentic!TokenNext, Agentic!Mint, Agentic!Clone
<1> QED
  BY <1>1, ContractsInvariant, PTL DEF ContractsSpec, MetadataMovesByProof, Agentic!MetadataMovesByProof
=============================================================================
