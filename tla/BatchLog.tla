------------------------------ MODULE BatchLog ------------------------------
(***************************************************************************)
(* apps/api/src/pipeline.ts, flushBatchLog, and the tables it works on:    *)
(* every verify appends a LogEvent and then tries to flush; POST /log/flush*)
(* flushes by force.  A flush reads the pending events, uploads them to    *)
(* storage, creates the batch row and marks events and verification rows,  *)
(* each step behind an await, so flushes of concurrent requests interleave *)
(* and a crash may leave one half done.                                    *)
(***************************************************************************)
EXTENDS Integers, Sequences, FiniteSets

CONSTANTS
    Requests,       \* verify requests; each creates one row and one event
    ActionOf,       \* the action a request verifies (its actionHash)
    Flushers,       \* POST /log/flush callers
    FlushThreshold, \* 3 in the code
    MaxBatches      \* bound: no flush is forced once so many batches exist

ASSUME BatchAssumption ==
    /\ Requests \cap Flushers = {}
    /\ FlushThreshold \in Nat /\ MaxBatches \in Nat

Procs == Requests \cup Flushers
NoBatch == 0    \* batchId null
NoRow == -1     \* the request has no Verification row

VARIABLES
    rows,           \* Verification.batchId by request, or NoRow
    log,            \* LogEvent rows: the request and batchId
    batches,        \* ExecutionBatch rows: the ids of the events in eventsJson
    flush           \* per caller: where its flush is, and what it read

batchVars == <<rows, log, batches, flush>>

Idle == [at |-> "idle", pending |-> {}, batch |-> NoBatch]
Pending == {e \in DOMAIN log : log[e].batch = NoBatch}

BatchTypeOK ==
    /\ \A r \in Requests : rows[r] \in 0..Len(batches) \cup {NoRow}
    /\ \A e \in DOMAIN log : log[e].by \in Requests /\ log[e].batch \in 0..Len(batches)
    /\ \A b \in DOMAIN batches : batches[b] \subseteq DOMAIN log
    /\ \A p \in Procs :
          /\ flush[p].at \in {"idle", "begin", "upload", "events", "rows"}
          /\ flush[p].pending \subseteq DOMAIN log
          /\ flush[p].batch \in 0..Len(batches)

BatchInit ==
    /\ rows = [r \in Requests |-> NoRow]
    /\ log = <<>>
    /\ batches = <<>>
    /\ flush = [p \in Procs |-> Idle]

-----------------------------------------------------------------------------

\* prisma.verification.create
CreateRow(r) ==
    /\ rows[r] = NoRow
    /\ rows' = [rows EXCEPT ![r] = NoBatch]
    /\ UNCHANGED <<log, batches, flush>>

\* prisma.logEvent.create; the verify then awaits flushBatchLog(false)
LogEvent(r) ==
    /\ log' = Append(log, [by |-> r, batch |-> NoBatch])
    /\ flush' = [flush EXCEPT ![r].at = "begin"]
    /\ UNCHANGED <<rows, batches>>

\* findMany and the early returns: nothing pending, or too little and not forced.
FlushBegin(p) ==
    LET force == p \in Flushers IN
    /\ flush[p].at = IF force THEN "idle" ELSE "begin"
    /\ IF Pending # {} /\ (force \/ Cardinality(Pending) >= FlushThreshold)
       THEN flush' = [flush EXCEPT ![p] = [Idle EXCEPT !.at = "upload", !.pending = Pending]]
       ELSE flush' = [flush EXCEPT ![p] = Idle]
    /\ UNCHANGED <<rows, log, batches>>

\* uploadJson succeeds, then executionBatch.create; nothing is read in between
FlushCreate(p) ==
    /\ flush[p].at = "upload"
    /\ batches' = Append(batches, flush[p].pending)
    /\ flush' = [flush EXCEPT ![p].at = "events", ![p].batch = Len(batches) + 1]
    /\ UNCHANGED <<rows, log>>

\* A faulty variant, for mutation runs: every unbatched event is marked.
FlushEventsAllPending(p) ==
    /\ flush[p].at = "events"
    /\ log' = [e \in DOMAIN log |-> IF log[e].batch = NoBatch
                                    THEN [log[e] EXCEPT !.batch = flush[p].batch] ELSE log[e]]
    /\ flush' = [flush EXCEPT ![p].at = "rows"]
    /\ UNCHANGED <<rows, batches>>

\* logEvent.updateMany, by the ids read at the start
FlushEvents(p) ==
    /\ flush[p].at = "events"
    /\ log' = [e \in DOMAIN log |-> IF e \in flush[p].pending
                                    THEN [log[e] EXCEPT !.batch = flush[p].batch] ELSE log[e]]
    /\ flush' = [flush EXCEPT ![p].at = "rows"]
    /\ UNCHANGED <<rows, batches>>

\* verification.updateMany, by actionHash: every row of those actions
FlushRows(p) ==
    /\ flush[p].at = "rows"
    /\ LET actions == {ActionOf[log[e].by] : e \in flush[p].pending} IN
          rows' = [r \in Requests |-> IF rows[r] # NoRow /\ ActionOf[r] \in actions
                                      THEN flush[p].batch ELSE rows[r]]
    /\ flush' = [flush EXCEPT ![p] = Idle]
    /\ UNCHANGED <<log, batches>>

\* The upload fails, or the process dies: the rest of the flush never happens.
FlushAborts(p) ==
    /\ flush[p].at # "idle"
    /\ flush' = [flush EXCEPT ![p] = Idle]
    /\ UNCHANGED <<rows, log, batches>>

FlushStep(p) ==
    FlushCreate(p) \/ FlushEvents(p) \/ FlushRows(p) \/ FlushAborts(p)

ForcedFlush(p) == Len(batches) < MaxBatches /\ FlushBegin(p)

BatchNext ==
    \/ \E r \in Requests :
          \/ CreateRow(r)
          \/ /\ rows[r] # NoRow /\ \A e \in DOMAIN log : log[e].by # r
             /\ LogEvent(r)
          \/ FlushBegin(r)
    \/ \E p \in Flushers : ForcedFlush(p)
    \/ \E p \in Procs : FlushStep(p)

BatchSpec == BatchInit /\ [][BatchNext]_batchVars

-----------------------------------------------------------------------------

\* Whatever flushes overlap or die half way, the batch an event points to was
\* uploaded with that event in it, and the batch a verification row points to
\* with some event of the row's action.
BatchHoldsItsEvents ==
    /\ \A e \in DOMAIN log : log[e].batch # NoBatch => e \in batches[log[e].batch]
    /\ \A r \in Requests : rows[r] \notin {NoRow, NoBatch} =>
          \E e \in batches[rows[r]] : ActionOf[log[e].by] = ActionOf[r]

\* The log is append-only: events are never removed or altered, a batched
\* event never becomes unbatched, and an uploaded batch never changes.
AppendOnly ==
    [][ /\ Len(log') >= Len(log) /\ Len(batches') >= Len(batches)
        /\ \A e \in DOMAIN log : /\ log'[e].by = log[e].by
                                 /\ log[e].batch # NoBatch => log'[e].batch # NoBatch
        /\ \A b \in DOMAIN batches : batches'[b] = batches[b] ]_batchVars
=============================================================================
