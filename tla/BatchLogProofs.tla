----------------------------- MODULE BatchLogProofs -----------------------------
(***************************************************************************)
(* For any requests, flushers, actions and threshold: however the flushes  *)
(* of the batch log overlap and wherever they die, an event or a row only  *)
(* points to a batch that was stored with it, and the log is append-only.  *)
(* A flush that has created its batch still holds exactly its events: the  *)
(* invariant that carries what one await read to what a later one writes.  *)
(***************************************************************************)
EXTENDS BatchLog, SequenceTheorems, TLAPS

Events == [by: Requests, batch: Nat]
Flushes == [at: {"idle", "begin", "upload", "events", "rows"}, pending: SUBSET Nat, batch: Nat]

BatchTyped ==
    /\ rows \in [Requests -> Nat \cup {NoRow}]
    /\ log \in Seq(Events)
    /\ batches \in Seq(SUBSET Nat)
    /\ flush \in [Procs -> Flushes]

FlushHoldsItsEvents ==
    \A p \in Procs : flush[p].at \in {"events", "rows"} =>
        flush[p].batch \in 1..Len(batches) /\ batches[flush[p].batch] = flush[p].pending

BatchIInv == BatchTyped /\ BatchTypeOK /\ BatchHoldsItsEvents /\ FlushHoldsItsEvents

-----------------------------------------------------------------------------

LEMMA AppendOne ==
    ASSUME NEW S, NEW s \in Seq(S), NEW e \in S
    PROVE  /\ Append(s, e) \in Seq(S) /\ Len(Append(s, e)) = Len(s) + 1 /\ Len(s) \in Nat
           /\ DOMAIN s = 1..Len(s) /\ DOMAIN Append(s, e) = 1..(Len(s) + 1)
           /\ \A n \in 1..Len(s) : Append(s, e)[n] = s[n]
           /\ Append(s, e)[Len(s) + 1] = e
OBVIOUS

LEMMA Domains ==
    ASSUME BatchTyped
    PROVE  /\ DOMAIN log = 1..Len(log) /\ DOMAIN batches = 1..Len(batches)
           /\ Len(log) \in Nat /\ Len(batches) \in Nat
           /\ \A e \in DOMAIN log : log[e] \in Events
BY LenProperties, ElementOfSeq DEF BatchTyped

LEMMA IdleType == Idle \in Flushes /\ Idle.at = "idle" /\ Idle.pending = {} /\ Idle.batch = 0
BY DEF Idle, Flushes, NoBatch

LEMMA FlushRecord ==
    ASSUME NEW g \in Flushes, NEW at \in {"idle", "begin", "upload", "events", "rows"}
    PROVE  /\ [g EXCEPT !.at = at] \in Flushes /\ [g EXCEPT !.at = at].at = at
           /\ [g EXCEPT !.at = at].pending = g.pending /\ [g EXCEPT !.at = at].batch = g.batch
BY DEF Flushes

LEMMA CreatedRecord ==
    ASSUME NEW g \in Flushes, NEW n \in Nat
    PROVE  /\ [g EXCEPT !.at = "events", !.batch = n] \in Flushes
           /\ [g EXCEPT !.at = "events", !.batch = n].at = "events"
           /\ [g EXCEPT !.at = "events", !.batch = n].pending = g.pending
           /\ [g EXCEPT !.at = "events", !.batch = n].batch = n
BY DEF Flushes

LEMMA BatchInitIInv == BatchInit => BatchIInv
<1> SUFFICES ASSUME BatchInit PROVE BatchIInv
  OBVIOUS
<1>1. log \in Seq(Events) /\ batches \in Seq(SUBSET Nat) /\ Len(batches) = 0 /\ DOMAIN log = {} /\ DOMAIN batches = {}
  BY EmptySeq DEF BatchInit
<1>2. BatchTyped
  BY <1>1, IdleType DEF BatchInit, BatchTyped
<1> QED
  BY <1>1, <1>2, IdleType
     DEF BatchInit, BatchIInv, BatchTypeOK, BatchHoldsItsEvents, FlushHoldsItsEvents, NoRow

\* A flush changes only where it is.
LEMMA FlushMoves ==
    ASSUME BatchIInv, UNCHANGED <<rows, log, batches>>, NEW p \in Procs, NEW f \in Flushes,
           flush' = [flush EXCEPT ![p] = f],
           f.pending \subseteq DOMAIN log, f.batch \in 0..Len(batches),
           f.at \in {"events", "rows"} =>
              f.batch \in 1..Len(batches) /\ batches[f.batch] = f.pending
    PROVE  BatchIInv'
<1>1. flush' \in [Procs -> Flushes] /\ flush'[p] = f /\ \A q \in Procs : q # p => flush'[q] = flush[q]
  BY DEF BatchIInv, BatchTyped
<1>2. BatchTyped' /\ BatchHoldsItsEvents'
  BY <1>1 DEF BatchIInv, BatchTyped, BatchHoldsItsEvents
<1>3. f.at \in {"idle", "begin", "upload", "events", "rows"}
  BY DEF Flushes
<1>4. BatchTypeOK'
  BY <1>1, <1>3 DEF BatchIInv, BatchTypeOK
<1>5. FlushHoldsItsEvents'
  BY <1>1 DEF BatchIInv, FlushHoldsItsEvents
<1> QED
  BY <1>2, <1>4, <1>5 DEF BatchIInv

LEMMA CreateRowIInv ==
    ASSUME BatchIInv, NEW r \in Requests, CreateRow(r)
    PROVE  BatchIInv'
<1>1. rows' \in [Requests -> Nat \cup {NoRow}] /\ rows'[r] = NoBatch /\ \A q \in Requests : q # r => rows'[q] = rows[q]
  BY DEF CreateRow, BatchIInv, BatchTyped, NoBatch
<1>2. Len(batches) \in Nat
  BY Domains DEF BatchIInv
<1>3. BatchTypeOK'
  BY <1>1, <1>2 DEF CreateRow, BatchIInv, BatchTypeOK, NoBatch
<1>4. BatchHoldsItsEvents'
  BY <1>1 DEF CreateRow, BatchIInv, BatchHoldsItsEvents
<1> QED
  BY <1>1, <1>3, <1>4 DEF CreateRow, BatchIInv, BatchTyped, FlushHoldsItsEvents

LEMMA LogEventIInv ==
    ASSUME BatchIInv, NEW r \in Requests, LogEvent(r)
    PROVE  BatchIInv'
<1> DEFINE ev == [by |-> r, batch |-> NoBatch]
           f == [flush[r] EXCEPT !.at = "begin"]
<1>1. ev \in Events /\ r \in Procs /\ flush[r] \in Flushes /\ log \in Seq(Events)
  BY DEF Events, Procs, NoBatch, BatchIInv, BatchTyped
<1>2. /\ log' \in Seq(Events) /\ Len(log) \in Nat
      /\ DOMAIN log = 1..Len(log) /\ DOMAIN log' = 1..(Len(log) + 1)
      /\ \A e \in 1..Len(log) : log'[e] = log[e]
      /\ log'[Len(log) + 1] = ev
  BY <1>1, AppendOne DEF LogEvent
<1>3. DOMAIN log \subseteq DOMAIN log' /\ \A e \in DOMAIN log' : e \in DOMAIN log \/ e = Len(log) + 1
  BY <1>2
<1>4. f \in Flushes /\ f.at = "begin" /\ f.pending = flush[r].pending /\ f.batch = flush[r].batch
  BY <1>1 DEF Flushes
<1>5. flush' \in [Procs -> Flushes] /\ flush'[r] = f /\ \A q \in Procs : q # r => flush'[q] = flush[q]
  BY <1>1, <1>4 DEF LogEvent, BatchIInv, BatchTyped
<1>6. UNCHANGED <<rows, batches>> /\ Len(batches) \in Nat
  BY Domains DEF LogEvent, BatchIInv
<1>7. BatchTyped'
  BY <1>2, <1>5, <1>6 DEF BatchIInv, BatchTyped
<1>8. BatchTypeOK'
  <2>1. \A e \in DOMAIN log' : log'[e].by \in Requests /\ log'[e].batch \in 0..Len(batches)
    BY <1>2, <1>3, <1>6 DEF BatchIInv, BatchTypeOK, NoBatch
  <2>2. \A b \in DOMAIN batches : batches[b] \subseteq DOMAIN log'
    BY <1>3 DEF BatchIInv, BatchTypeOK
  <2>3. \A q \in Procs : /\ flush'[q].at \in {"idle", "begin", "upload", "events", "rows"}
                         /\ flush'[q].pending \subseteq DOMAIN log'
                         /\ flush'[q].batch \in 0..Len(batches)
    <3>1. ASSUME NEW q \in Procs
          PROVE  /\ flush[q].at \in {"idle", "begin", "upload", "events", "rows"}
                 /\ flush[q].pending \subseteq DOMAIN log' /\ flush[q].batch \in 0..Len(batches)
      BY <1>3 DEF BatchIInv, BatchTypeOK
    <3>2. /\ f.at \in {"idle", "begin", "upload", "events", "rows"}
          /\ f.pending \subseteq DOMAIN log' /\ f.batch \in 0..Len(batches)
      BY <1>1, <1>4, <3>1
    <3> QED
      BY <1>5, <3>1, <3>2
  <2> QED
    BY <1>6, <2>1, <2>2, <2>3 DEF BatchIInv, BatchTypeOK
<1>9. BatchHoldsItsEvents'
  <2>1. \A e \in DOMAIN log' : log'[e].batch # NoBatch => e \in batches[log'[e].batch]
    BY <1>2, <1>3 DEF BatchIInv, BatchHoldsItsEvents
  <2>2. ASSUME NEW q \in Requests, rows[q] \notin {NoRow, NoBatch}
        PROVE  \E e \in batches[rows[q]] : ActionOf[log'[e].by] = ActionOf[q]
    <3>1. rows[q] \in 1..Len(batches)
      BY <1>6, <2>2 DEF BatchIInv, BatchTypeOK, NoBatch
    <3>2. PICK e \in batches[rows[q]] : ActionOf[log[e].by] = ActionOf[q]
      BY <2>2 DEF BatchIInv, BatchHoldsItsEvents
    <3>3. e \in DOMAIN log
      BY <3>1, Domains DEF BatchIInv, BatchTypeOK
    <3> QED
      BY <1>2, <3>2, <3>3
  <2> QED
    BY <1>6, <2>1, <2>2 DEF BatchHoldsItsEvents
<1>10. FlushHoldsItsEvents'
  BY <1>4, <1>5, <1>6 DEF BatchIInv, FlushHoldsItsEvents
<1> QED
  BY <1>7, <1>8, <1>9, <1>10 DEF BatchIInv

LEMMA FlushBeginIInv ==
    ASSUME BatchIInv, NEW p \in Procs, FlushBegin(p)
    PROVE  BatchIInv'
<1> DEFINE f == [Idle EXCEPT !.at = "upload", !.pending = Pending]
<1>1. Pending \subseteq DOMAIN log /\ Pending \subseteq Nat /\ Len(batches) \in Nat
  BY Domains DEF Pending, BatchIInv
<1>2. f \in Flushes /\ f.at = "upload" /\ f.pending = Pending /\ f.batch = 0
  BY <1>1 DEF Idle, Flushes, NoBatch
<1>3. 0 \in 0..Len(batches)
  BY <1>1
<1>4. CASE flush' = [flush EXCEPT ![p] = f]
  BY <1>1, <1>2, <1>3, <1>4, FlushMoves DEF FlushBegin
<1>5. CASE flush' = [flush EXCEPT ![p] = Idle]
  BY <1>3, <1>5, IdleType, FlushMoves DEF FlushBegin
<1> QED
  BY <1>4, <1>5 DEF FlushBegin

LEMMA FlushAbortsIInv ==
    ASSUME BatchIInv, NEW p \in Procs, FlushAborts(p)
    PROVE  BatchIInv'
<1>1. 0 \in 0..Len(batches)
  BY Domains DEF BatchIInv
<1> QED
  BY <1>1, IdleType, FlushMoves DEF FlushAborts

LEMMA FlushCreateIInv ==
    ASSUME BatchIInv, NEW p \in Procs, FlushCreate(p)
    PROVE  BatchIInv'
<1> DEFINE n == Len(batches) + 1
           f == [flush[p] EXCEPT !.at = "events", !.batch = n]
<1>1. flush[p] \in Flushes /\ batches \in Seq(SUBSET Nat) /\ flush[p].pending \in SUBSET Nat
  BY DEF BatchIInv, BatchTyped, Flushes
<1>2. /\ batches' \in Seq(SUBSET Nat) /\ Len(batches) \in Nat /\ Len(batches') = n
      /\ DOMAIN batches = 1..Len(batches) /\ DOMAIN batches' = 1..n
      /\ \A b \in 1..Len(batches) : batches'[b] = batches[b]
      /\ batches'[n] = flush[p].pending
  BY <1>1, AppendOne, LenProperties DEF FlushCreate
<1>3. f \in Flushes /\ f.at = "events" /\ f.pending = flush[p].pending /\ f.batch = n
  <2>1. n \in Nat
    BY <1>2
  <2> HIDE DEF n
  <2> QED
    BY <1>1, <2>1, CreatedRecord
<1>4. flush' \in [Procs -> Flushes] /\ flush'[p] = f /\ \A q \in Procs : q # p => flush'[q] = flush[q]
  BY <1>3 DEF FlushCreate, BatchIInv, BatchTyped
<1>5. UNCHANGED <<rows, log>>
  BY DEF FlushCreate
<1>6. /\ n \in 1..n /\ n \in 0..n /\ 0..Len(batches) \subseteq 0..n /\ 1..Len(batches) \subseteq 1..n
      /\ \A b \in 1..n : b \in 1..Len(batches) \/ b = n
  BY <1>2
<1>7. BatchTyped'
  BY <1>2, <1>4, <1>5 DEF BatchIInv, BatchTyped
<1>8. BatchTypeOK'
  <2>1. \A r \in Requests : rows[r] \in 0..n \cup {NoRow}
    BY <1>6 DEF BatchIInv, BatchTypeOK
  <2>2. \A e \in DOMAIN log : log[e].by \in Requests /\ log[e].batch \in 0..n
    BY <1>6 DEF BatchIInv, BatchTypeOK
  <2>3. \A b \in DOMAIN batches' : batches'[b] \subseteq DOMAIN log
    BY <1>2, <1>6 DEF BatchIInv, BatchTypeOK
  <2>4. \A q \in Procs : /\ flush'[q].at \in {"idle", "begin", "upload", "events", "rows"}
                         /\ flush'[q].pending \subseteq DOMAIN log
                         /\ flush'[q].batch \in 0..n
    <3>1. ASSUME NEW q \in Procs
          PROVE  /\ flush[q].at \in {"idle", "begin", "upload", "events", "rows"}
                 /\ flush[q].pending \subseteq DOMAIN log /\ flush[q].batch \in 0..n
      BY <1>6 DEF BatchIInv, BatchTypeOK
    <3>2. /\ f.at \in {"idle", "begin", "upload", "events", "rows"}
          /\ f.pending \subseteq DOMAIN log /\ f.batch \in 0..n
      BY <1>3, <1>6, <3>1
    <3> QED
      BY <1>4, <3>1, <3>2
  <2> QED
    BY <1>2, <1>5, <2>1, <2>2, <2>3, <2>4 DEF BatchTypeOK
<1>9. BatchHoldsItsEvents'
  <2>1. ASSUME NEW e \in DOMAIN log, log[e].batch # NoBatch PROVE e \in batches'[log[e].batch]
    <3>1. log[e].batch \in 1..Len(batches)
      BY <1>2, <2>1 DEF BatchIInv, BatchTypeOK, NoBatch
    <3> QED
      BY <1>2, <2>1, <3>1 DEF BatchIInv, BatchHoldsItsEvents
  <2>2. ASSUME NEW r \in Requests, rows[r] \notin {NoRow, NoBatch}
        PROVE  \E e \in batches'[rows[r]] : ActionOf[log[e].by] = ActionOf[r]
    <3>1. rows[r] \in 1..Len(batches)
      BY <1>2, <2>2 DEF BatchIInv, BatchTypeOK, NoBatch
    <3> QED
      BY <1>2, <2>2, <3>1 DEF BatchIInv, BatchHoldsItsEvents
  <2> QED
    BY <1>5, <2>1, <2>2 DEF BatchHoldsItsEvents
<1>10. FlushHoldsItsEvents'
  <2>1. ASSUME NEW q \in Procs, q # p, flush[q].at \in {"events", "rows"}
        PROVE  flush[q].batch \in 1..n /\ batches'[flush[q].batch] = flush[q].pending
    BY <1>2, <1>6, <2>1 DEF BatchIInv, FlushHoldsItsEvents
  <2>2. f.batch \in 1..n /\ batches'[f.batch] = f.pending
    BY <1>2, <1>3, <1>6
  <2> QED
    BY <1>2, <1>4, <2>1, <2>2 DEF FlushHoldsItsEvents
<1> QED
  BY <1>7, <1>8, <1>9, <1>10 DEF BatchIInv

LEMMA FlushEventsIInv ==
    ASSUME BatchIInv, NEW p \in Procs, FlushEvents(p)
    PROVE  BatchIInv'
<1> DEFINE f == [flush[p] EXCEPT !.at = "rows"]
           b == flush[p].batch
<1>1. /\ flush[p] \in Flushes /\ flush[p].at = "events" /\ b \in 1..Len(batches)
      /\ batches[b] = flush[p].pending /\ flush[p].pending \subseteq DOMAIN log
  BY DEF BatchIInv, BatchTyped, BatchTypeOK, FlushHoldsItsEvents, FlushEvents
<1>2. f \in Flushes /\ f.at = "rows" /\ f.pending = flush[p].pending /\ f.batch = b
  <2>1. b \in Nat /\ "rows" \in {"idle", "begin", "upload", "events", "rows"}
    BY <1>1 DEF Flushes
  <2> QED
    BY <1>1, <2>1, FlushRecord
<1>3. flush' \in [Procs -> Flushes] /\ flush'[p] = f /\ \A q \in Procs : q # p => flush'[q] = flush[q]
  BY <1>2 DEF FlushEvents, BatchIInv, BatchTyped
<1>4. /\ DOMAIN log = 1..Len(log) /\ Len(log) \in Nat /\ Len(batches) \in Nat
      /\ \A e \in DOMAIN log : log[e] \in Events
  BY Domains DEF BatchIInv
<1>5. /\ DOMAIN log' = DOMAIN log /\ UNCHANGED <<rows, batches>>
      /\ \A e \in DOMAIN log : log'[e] = IF e \in flush[p].pending
                                         THEN [log[e] EXCEPT !.batch = b] ELSE log[e]
  BY DEF FlushEvents
<1>6. ASSUME NEW e \in DOMAIN log
      PROVE  /\ log'[e] \in Events /\ log'[e].by = log[e].by
             /\ log'[e].batch = IF e \in flush[p].pending THEN b ELSE log[e].batch
  BY <1>1, <1>4, <1>5 DEF Events
<1>7. log' \in Seq(Events)
  <2>1. log' = [e \in 1..Len(log) |-> log'[e]]
    BY <1>4 DEF FlushEvents
  <2>2. log' \in [1..Len(log) -> Events]
    BY <1>4, <1>6, <2>1
  <2> QED
    BY <1>4, <2>2, SeqDef
<1>8. BatchTyped'
  BY <1>3, <1>5, <1>7 DEF BatchIInv, BatchTyped
<1>9. BatchTypeOK'
  <2>1. ASSUME NEW e \in DOMAIN log
        PROVE  log'[e].by \in Requests /\ log'[e].batch \in 0..Len(batches)
    <3>1. log[e].by \in Requests /\ log[e].batch \in 0..Len(batches) /\ b \in 0..Len(batches)
      BY <1>1, <1>4 DEF BatchIInv, BatchTypeOK
    <3> QED
      BY <1>6, <3>1
  <2>2. ASSUME NEW q \in Procs
        PROVE  /\ flush'[q].at \in {"idle", "begin", "upload", "events", "rows"}
               /\ flush'[q].pending \subseteq DOMAIN log /\ flush'[q].batch \in 0..Len(batches)
    <3>1. CASE q = p
      <4>1. b \in 0..Len(batches) /\ "rows" \in {"idle", "begin", "upload", "events", "rows"}
        BY <1>1, <1>4
      <4> QED
        BY <1>1, <1>2, <1>3, <3>1, <4>1
    <3>2. CASE q # p
      BY <1>3, <3>2 DEF BatchIInv, BatchTypeOK
    <3> QED
      BY <3>1, <3>2
  <2> QED
    BY <1>5, <2>1, <2>2 DEF BatchIInv, BatchTypeOK
<1>10. BatchHoldsItsEvents'
  <2>1. ASSUME NEW e \in DOMAIN log, log'[e].batch # NoBatch PROVE e \in batches[log'[e].batch]
    BY <1>1, <1>6, <2>1 DEF BatchIInv, BatchHoldsItsEvents
  <2>2. ASSUME NEW r \in Requests, rows[r] \notin {NoRow, NoBatch}
        PROVE  \E e \in batches[rows[r]] : ActionOf[log'[e].by] = ActionOf[r]
    <3>1. rows[r] \in 1..Len(batches)
      BY <1>4, <2>2 DEF BatchIInv, BatchTypeOK, NoBatch
    <3>2. PICK e \in batches[rows[r]] : ActionOf[log[e].by] = ActionOf[r]
      BY <2>2 DEF BatchIInv, BatchHoldsItsEvents
    <3>3. e \in DOMAIN log
      BY <3>1, Domains DEF BatchIInv, BatchTypeOK
    <3> QED
      BY <1>6, <3>2, <3>3
  <2> QED
    BY <1>5, <2>1, <2>2 DEF BatchHoldsItsEvents
<1>11. FlushHoldsItsEvents'
  <2>1. ASSUME NEW q \in Procs, flush'[q].at \in {"events", "rows"}
        PROVE  flush'[q].batch \in 1..Len(batches) /\ batches[flush'[q].batch] = flush'[q].pending
    <3>1. CASE q = p
      BY <1>1, <1>2, <1>3, <3>1
    <3>2. CASE q # p
      BY <1>3, <2>1, <3>2 DEF BatchIInv, FlushHoldsItsEvents
    <3> QED
      BY <3>1, <3>2
  <2> QED
    BY <1>5, <2>1 DEF FlushHoldsItsEvents
<1> QED
  BY <1>8, <1>9, <1>10, <1>11 DEF BatchIInv

LEMMA FlushRowsIInv ==
    ASSUME BatchIInv, NEW p \in Procs, FlushRows(p)
    PROVE  BatchIInv'
<1> DEFINE b == flush[p].batch
           actions == {ActionOf[log[e].by] : e \in flush[p].pending}
<1>1. /\ b \in 1..Len(batches) /\ batches[b] = flush[p].pending /\ Len(batches) \in Nat
      /\ flush[p].at = "rows" /\ UNCHANGED <<log, batches>>
  BY Domains DEF BatchIInv, FlushHoldsItsEvents, FlushRows
<1>2. /\ b \in Nat /\ b \in 0..Len(batches)
  BY <1>1
<1>3. rows' = [r \in Requests |-> IF rows[r] # NoRow /\ ActionOf[r] \in actions THEN b ELSE rows[r]]
  BY DEF FlushRows
<1>4. flush' \in [Procs -> Flushes] /\ flush'[p] = Idle /\ \A q \in Procs : q # p => flush'[q] = flush[q]
  BY IdleType DEF FlushRows, BatchIInv, BatchTyped
<1>5. BatchTyped'
  BY <1>1, <1>2, <1>3, <1>4 DEF BatchIInv, BatchTyped
<1>6. BatchTypeOK'
  <2>1. 0 \in 0..Len(batches)
    BY <1>1
  <2>2. ASSUME NEW q \in Procs
        PROVE  /\ flush'[q].at \in {"idle", "begin", "upload", "events", "rows"}
               /\ flush'[q].pending \subseteq DOMAIN log /\ flush'[q].batch \in 0..Len(batches)
    BY <1>4, <2>1, IdleType DEF BatchIInv, BatchTypeOK
  <2>3. \A r \in Requests : rows'[r] \in 0..Len(batches) \cup {NoRow}
    BY <1>2, <1>3 DEF BatchIInv, BatchTypeOK
  <2> QED
    BY <1>1, <2>2, <2>3 DEF BatchIInv, BatchTypeOK
<1>7. BatchHoldsItsEvents'
  <2>1. ASSUME NEW r \in Requests, rows'[r] \notin {NoRow, NoBatch}
        PROVE  \E e \in batches[rows'[r]] : ActionOf[log[e].by] = ActionOf[r]
    <3>1. CASE rows[r] # NoRow /\ ActionOf[r] \in actions
      <4>1. rows'[r] = b
        BY <1>3, <3>1
      <4>2. PICK e \in flush[p].pending : ActionOf[r] = ActionOf[log[e].by]
        BY <3>1
      <4> QED
        BY <1>1, <4>1, <4>2
    <3>2. CASE ~(rows[r] # NoRow /\ ActionOf[r] \in actions)
      BY <1>3, <2>1, <3>2 DEF BatchIInv, BatchHoldsItsEvents
    <3> QED
      BY <3>1, <3>2
  <2> QED
    BY <1>1, <2>1 DEF BatchIInv, BatchHoldsItsEvents
<1>8. FlushHoldsItsEvents'
  BY <1>1, <1>4, IdleType DEF BatchIInv, FlushHoldsItsEvents
<1> QED
  BY <1>5, <1>6, <1>7, <1>8 DEF BatchIInv

-----------------------------------------------------------------------------

LEMMA BatchNextIInv == BatchIInv /\ [BatchNext]_batchVars => BatchIInv'
<1> SUFFICES ASSUME BatchIInv, [BatchNext]_batchVars PROVE BatchIInv'
  OBVIOUS
<1>1. ASSUME NEW r \in Requests, CreateRow(r) \/ LogEvent(r) PROVE BatchIInv'
  BY <1>1, CreateRowIInv, LogEventIInv
<1>2. ASSUME NEW p \in Procs, FlushBegin(p) PROVE BatchIInv'
  BY <1>2, FlushBeginIInv
<1>3. ASSUME NEW p \in Procs, FlushStep(p) PROVE BatchIInv'
  BY <1>3, FlushCreateIInv, FlushEventsIInv, FlushRowsIInv, FlushAbortsIInv DEF FlushStep
<1>4. CASE UNCHANGED batchVars
  BY <1>4 DEF batchVars, BatchIInv, BatchTyped, BatchTypeOK, BatchHoldsItsEvents, FlushHoldsItsEvents
<1> QED
  BY <1>1, <1>2, <1>3, <1>4 DEF BatchNext, ForcedFlush, Procs

LEMMA BatchInvariant == BatchSpec => []BatchIInv
BY BatchInitIInv, BatchNextIInv, PTL DEF BatchSpec

\* Batch numbers and event ids always refer to what exists.
THEOREM BatchTypeCorrect == BatchSpec => []BatchTypeOK
<1>1. BatchIInv => BatchTypeOK
  BY DEF BatchIInv
<1> QED
  BY <1>1, BatchInvariant, PTL

\* flushBatchLog: an event and a row only ever point to a batch uploaded with
\* the event, or with one of the row's action, in it.
THEOREM BatchesHoldTheirEvents == BatchSpec => []BatchHoldsItsEvents
<1>1. BatchIInv => BatchHoldsItsEvents
  BY DEF BatchIInv
<1> QED
  BY <1>1, BatchInvariant, PTL

\* No step of any flush removes or alters an event, unbatches one or changes
\* an uploaded batch.
THEOREM LogIsAppendOnly == BatchSpec => AppendOnly
<1> DEFINE Grows == /\ Len(log') >= Len(log) /\ Len(batches') >= Len(batches)
                    /\ \A e \in DOMAIN log : /\ log'[e].by = log[e].by
                                             /\ log[e].batch # NoBatch => log'[e].batch # NoBatch
                    /\ \A b \in DOMAIN batches : batches'[b] = batches[b]
<1>1. ASSUME BatchIInv, BatchNext PROVE Grows
  <2>1. /\ DOMAIN log = 1..Len(log) /\ Len(log) \in Nat /\ Len(batches) \in Nat
        /\ DOMAIN batches = 1..Len(batches) /\ log \in Seq(Events) /\ batches \in Seq(SUBSET Nat)
        /\ \A e \in DOMAIN log : log[e] \in Events
    BY <1>1, Domains DEF BatchIInv, BatchTyped
  <2>2. CASE UNCHANGED <<log, batches>>
    BY <2>1, <2>2
  <2>3. ASSUME NEW r \in Requests, LogEvent(r) PROVE Grows
    <3>1. [by |-> r, batch |-> NoBatch] \in Events
      BY DEF Events, NoBatch
    <3>2. /\ Len(log') = Len(log) + 1 /\ \A e \in 1..Len(log) : log'[e] = log[e]
          /\ UNCHANGED batches
      BY <2>1, <2>3, <3>1, AppendOne DEF LogEvent
    <3> QED
      BY <2>1, <3>2
  <2>4. ASSUME NEW p \in Procs, FlushCreate(p) PROVE Grows
    <3>1. flush[p].pending \in SUBSET Nat
      BY <1>1 DEF BatchIInv, BatchTyped, Flushes
    <3>2. /\ Len(batches') = Len(batches) + 1 /\ \A b \in 1..Len(batches) : batches'[b] = batches[b]
          /\ UNCHANGED log
      BY <2>1, <2>4, <3>1, AppendOne DEF FlushCreate
    <3> QED
      BY <2>1, <3>2
  <2>5. ASSUME NEW p \in Procs, FlushEvents(p) PROVE Grows
    <3>1. BatchIInv' /\ UNCHANGED batches /\ DOMAIN log' = DOMAIN log
      BY <1>1, <2>5, FlushEventsIInv DEF FlushEvents
    <3>2. DOMAIN log' = 1..Len(log') /\ Len(log') \in Nat
      BY <3>1, LenProperties DEF BatchIInv, BatchTyped
    <3>3. Len(log') = Len(log)
      BY <2>1, <3>1, <3>2
    <3>4. flush[p].batch # NoBatch
      BY <1>1, <2>1, <2>5 DEF FlushEvents, BatchIInv, FlushHoldsItsEvents, NoBatch
    <3>5. \A e \in DOMAIN log : /\ log'[e].by = log[e].by
                                /\ log[e].batch # NoBatch => log'[e].batch # NoBatch
      BY <2>1, <2>5, <3>4 DEF FlushEvents, Events
    <3> QED
      BY <2>1, <3>1, <3>3, <3>5
  <2> QED
    BY <1>1, <2>2, <2>3, <2>4, <2>5
       DEF BatchNext, CreateRow, FlushBegin, ForcedFlush, FlushStep, FlushRows, FlushAborts
<1>2. BatchIInv /\ [BatchNext]_batchVars => [Grows]_batchVars
  BY <1>1
<1> QED
  BY <1>2, BatchInvariant, PTL DEF BatchSpec, AppendOnly
=============================================================================
