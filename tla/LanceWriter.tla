---------------------------- MODULE LanceWriter -----------------------------
(***************************************************************************)
(* The batching writer in front of the LanceDB table                       *)
(* (internal/lance/writer.go) as the embed job drives it                   *)
(* (internal/meta/job.go, Run): its workers call Upsert, a ticker flushes  *)
(* partial batches, and when the workers are done Run flushes once more    *)
(* and closes the writer.                                                  *)
(*                                                                         *)
(* A row is named by its track: a run claims a track at most once.  The    *)
(* order of rows in a batch does not matter, so batches are sets; pending  *)
(* and waiters are appended to and taken together, so one set stands for   *)
(* both.  A round trip with the helper happens under ioMu and is one step; *)
(* which flusher gets ioMu first is open.                                  *)
(***************************************************************************)
EXTENDS Naturals, FiniteSets

CONSTANTS
  Tracks,     \* the tracks the job claims
  Workers,    \* the embed workers
  Ticker,     \* the goroutine that flushes every 400 ms
  Driver,     \* the goroutine of Run itself
  NoTrack,    \* a worker is between tracks
  BatchSize,  \* Writer.batchSize
  CloseEarly  \* TRUE: the owner may close the writer while workers use it

ASSUME ProcAssumption ==
  /\ Ticker # Driver
  /\ Ticker \notin Workers
  /\ Driver \notin Workers
ASSUME TrackAssumption == NoTrack \notin Tracks
ASSUME BatchAssumption == BatchSize \in Nat \ {0} /\ CloseEarly \in BOOLEAN

Procs == Workers \cup {Ticker, Driver}

VARIABLES
  pending,    \* rows waiting for a batch, with their waiters
  closed,     \* Writer.closed
  batch,      \* the rows each process has taken and not yet settled
  outcome,    \* what the helper told each process in io
  done,       \* what the done channel of each track's upsert holds
  helper,     \* the Python process: "up" or "down"
  table,      \* the tracks with a row in the LanceDB table
  pc,         \* where each process stands
  job,        \* the track each worker is storing
  result,     \* what the upsert of each track returned
  cancelled   \* the job's context is cancelled

writerVars == <<pending, closed, batch, done>>
vars == <<writerVars, outcome, helper, table, pc, job, result, cancelled>>

Init ==
  /\ pending = {} /\ closed = FALSE
  /\ batch = [p \in Procs |-> {}]
  /\ outcome = [p \in Procs |-> "none"]
  /\ done = [t \in Tracks |-> "empty"]
  /\ helper = "up" /\ table = {}
  /\ pc = [p \in Procs |-> IF p = Driver THEN "feeding" ELSE "idle"]
  /\ job = [w \in Workers |-> NoTrack]
  /\ result = [t \in Tracks |-> "none"]
  /\ cancelled = FALSE

\* The tracks no upsert has been called for.
Unclaimed ==
  {t \in Tracks : result[t] = "none" /\ \A w \in Workers : job[w] # t}

-----------------------------------------------------------------------------
\* Upsert returns r for the track of worker w.
Return(w, r) ==
  /\ result' = [result EXCEPT ![job[w]] = r]
  /\ job' = [job EXCEPT ![w] = NoTrack]
  /\ pc' = [pc EXCEPT ![w] = "idle"]

\* Upsert, up to the release of mu: the row is queued with its waiter.
Upsert(w, t) ==
  /\ pc[w] = "idle" /\ pc[Driver] = "feeding" /\ t \in Unclaimed
  /\ ~cancelled /\ ~closed
  /\ pending' = pending \cup {t}
  /\ job' = [job EXCEPT ![w] = t]
  /\ pc' = [pc EXCEPT ![w] = IF Cardinality(pending') >= BatchSize
                             THEN "flush" ELSE "wait"]
  /\ UNCHANGED <<outcome, closed, batch, done, helper, table, result, cancelled>>

\* Upsert of a cancelled job or on a closed writer.
UpsertRefused(w, t) ==
  /\ pc[w] = "idle" /\ pc[Driver] = "feeding" /\ t \in Unclaimed
  /\ cancelled \/ closed
  /\ result' = [result EXCEPT ![t] = "error"]
  /\ UNCHANGED <<outcome, writerVars, helper, table, pc, job, cancelled>>

\* Mutant: the error of a cancelled context is swallowed.
UpsertReturnSwallows(w) ==
  /\ pc[w] = "wait"
  /\ \/ done[job[w]] # "empty" /\ Return(w, done[job[w]])
     \/ cancelled /\ Return(w, "ok")
  /\ UNCHANGED <<outcome, writerVars, helper, table, cancelled>>

\* Upsert's last select: the flush answered, or the job was cancelled.
UpsertReturn(w) ==
  /\ pc[w] = "wait"
  /\ \/ done[job[w]] # "empty" /\ Return(w, done[job[w]])
     \/ cancelled /\ Return(w, "error")
  /\ UNCHANGED <<outcome, writerVars, helper, table, cancelled>>

\* Mutant: the ticker leaves a partial batch to the next Upsert.
TickWhenFull ==
  /\ pc[Ticker] = "idle" /\ pc[Driver] # "end"
  /\ ~cancelled /\ Cardinality(pending) >= BatchSize
  /\ pc' = [pc EXCEPT ![Ticker] = "flush"]
  /\ UNCHANGED <<outcome, writerVars, helper, table, job, result, cancelled>>

\* The ticker calls Flush with the job's context.  It is told to stop before the
\* last flush, but its select may still choose a tick that is ready.
Tick ==
  /\ pc[Ticker] = "idle" /\ pc[Driver] # "end"
  /\ ~cancelled
  /\ pc' = [pc EXCEPT ![Ticker] = "flush"]
  /\ UNCHANGED <<outcome, writerVars, helper, table, job, result, cancelled>>

-----------------------------------------------------------------------------
(***************************************************************************)
(* flush(ctx).  Where it returns to: an Upsert that filled the batch waits *)
(* for its own answer unless the flush failed; Run goes on to Close, and   *)
(* Close on to the shutdown of the helper.                                 *)
(***************************************************************************)
UsesContext(p) == p # Driver  \* Run's last flush and Close: Background

FlushReturns(p, err) ==
  IF p \in Workers
  THEN IF err
       THEN Return(p, IF done'[job[p]] = "empty" THEN "error"
                      ELSE done'[job[p]])
       ELSE /\ pc' = [pc EXCEPT ![p] = "wait"]
            /\ UNCHANGED <<job, result>>
  ELSE /\ pc' = [pc EXCEPT ![p] = IF p = Ticker THEN "idle"
                                  ELSE IF closed THEN "shutdown" ELSE "close"]
       /\ UNCHANGED <<job, result>>

\* The waiters of a batch get the same answer; their channels are buffered.
Signal(p, answer) ==
  /\ done' = [t \in Tracks |-> IF t \in batch[p] THEN answer ELSE done[t]]
  /\ batch' = [batch EXCEPT ![p] = {}]

\* Nothing to do: closed, or no row is pending.
FlushNothing(p) ==
  /\ pc[p] = "flush" /\ (closed \/ pending = {})
  /\ UNCHANGED <<outcome, writerVars, helper, table, cancelled>>
  /\ FlushReturns(p, FALSE)

FlushTake(p) ==
  /\ pc[p] = "flush" /\ ~closed /\ pending # {}
  /\ batch' = [batch EXCEPT ![p] = pending]
  /\ pending' = {}
  /\ pc' = [pc EXCEPT ![p] = "taken"]
  /\ UNCHANGED <<outcome, closed, done, helper, table, job, result, cancelled>>

\* The context is tested once, before the helper is asked.
FlushGo(p) ==
  /\ pc[p] = "taken" /\ ~(cancelled /\ UsesContext(p))
  /\ pc' = [pc EXCEPT ![p] = "io"]
  /\ UNCHANGED <<outcome, writerVars, helper, table, job, result, cancelled>>

FlushCancelled(p) ==
  /\ pc[p] = "taken" /\ cancelled /\ UsesContext(p)
  /\ Signal(p, "error")
  /\ FlushReturns(p, TRUE)
  /\ UNCHANGED <<outcome, pending, closed, helper, table, cancelled>>

\* Mutant: the "ok" field of the answer is not tested.
FlushAnswerUntested(p, answer) ==
  /\ pc[p] = "io" /\ helper = "up"
  /\ table' = IF answer = "ok" THEN table \cup batch[p] ELSE table
  /\ outcome' = [outcome EXCEPT ![p] = "ok"]
  /\ pc' = [pc EXCEPT ![p] = "answered"]
  /\ UNCHANGED <<writerVars, helper, job, result, cancelled>>

\* The helper answers: it stored the batch, or it refused it.
FlushAnswer(p, answer) ==
  /\ pc[p] = "io" /\ helper = "up"
  /\ table' = IF answer = "ok" THEN table \cup batch[p] ELSE table
  /\ outcome' = [outcome EXCEPT ![p] = answer]
  /\ pc' = [pc EXCEPT ![p] = "answered"]
  /\ UNCHANGED <<writerVars, helper, job, result, cancelled>>

\* The helper is gone, or goes while it works on the batch.
FlushBroken(p) ==
  /\ pc[p] = "io"
  /\ helper' = "down"
  /\ table' \in {table} \cup (IF helper = "up" THEN {table \cup batch[p]} ELSE {})
  /\ outcome' = [outcome EXCEPT ![p] = "error"]
  /\ pc' = [pc EXCEPT ![p] = "answered"]
  /\ UNCHANGED <<writerVars, job, result, cancelled>>

\* flush tells the waiters of its batch, and returns.
FlushSettle(p) ==
  /\ pc[p] = "answered"
  /\ Signal(p, outcome[p])
  /\ FlushReturns(p, outcome[p] = "error")
  /\ outcome' = [outcome EXCEPT ![p] = "none"]
  /\ UNCHANGED <<pending, closed, helper, table, cancelled>>

FlushStep(p) ==
  \/ FlushNothing(p)
  \/ FlushTake(p)
  \/ FlushGo(p)
  \/ FlushCancelled(p)
  \/ \E answer \in {"ok", "error"} : FlushAnswer(p, answer)
  \/ FlushBroken(p)
  \/ FlushSettle(p)

-----------------------------------------------------------------------------
\* The job channel is closed and empty: every track was claimed, or Run is to stop.
CloseJobs ==
  /\ pc[Driver] = "feeding"
  /\ pc' = [pc EXCEPT ![Driver] = "drained"]
  /\ UNCHANGED <<outcome, writerVars, helper, table, job, result, cancelled>>

\* Mutant: Run does not flush again once its workers are done.
LastFlushForgotten ==
  /\ pc[Driver] = "drained" /\ \A w \in Workers : pc[w] = "idle"
  /\ pc' = [pc EXCEPT ![Driver] = "close"]
  /\ UNCHANGED <<outcome, writerVars, helper, table, job, result, cancelled>>

\* wg.Wait, close(flushStop), Flush(context.Background()).
LastFlush ==
  /\ pc[Driver] = "drained" /\ \A w \in Workers : pc[w] = "idle"
  /\ pc' = [pc EXCEPT ![Driver] = "flush"]
  /\ UNCHANGED <<outcome, writerVars, helper, table, job, result, cancelled>>

\* Close, up to its call of flush.
CloseBegin ==
  /\ \/ pc[Driver] = "close"
     \/ CloseEarly /\ pc[Driver] \in {"feeding", "drained"}
  /\ closed' = TRUE
  /\ pc' = [pc EXCEPT ![Driver] = "flush"]
  /\ UNCHANGED <<outcome, pending, batch, done, helper, table, job, result, cancelled>>

\* Close asks the helper to shut down, waits, and kills it if it must.
Shutdown ==
  /\ pc[Driver] = "shutdown"
  /\ helper' = "down"
  /\ pc' = [pc EXCEPT ![Driver] = "end"]
  /\ UNCHANGED <<outcome, writerVars, table, job, result, cancelled>>

\* The user stops the job, or the server shuts down.
Cancel ==
  /\ ~cancelled /\ pc[Driver] # "end"
  /\ cancelled' = TRUE
  /\ UNCHANGED <<outcome, writerVars, helper, table, pc, job, result>>

WorkerStep(w) ==
  \/ \E t \in Tracks : Upsert(w, t) \/ UpsertRefused(w, t)
  \/ UpsertReturn(w)

DriverStep == CloseJobs \/ LastFlush \/ CloseBegin \/ Shutdown

Next ==
  \/ \E w \in Workers : WorkerStep(w)
  \/ Tick
  \/ \E p \in Procs : FlushStep(p)
  \/ DriverStep
  \/ Cancel

Spec == Init /\ [][Next]_vars

(***************************************************************************)
(* Goroutines that can run do run, the ticker fires again and again, and   *)
(* the helper answers or dies.  Nothing forces a worker to take another    *)
(* track, the job to end or a user to cancel it.                           *)
(***************************************************************************)
Fairness ==
  /\ \A w \in Workers : WF_vars(UpsertReturn(w))
  /\ WF_vars(Tick /\ pc[Driver] \in {"feeding", "drained"})
  /\ \A p \in Procs : WF_vars(FlushStep(p))

FairSpec == Spec /\ Fairness

-----------------------------------------------------------------------------
(***************************************************************************)
(* Types of the writer, of its callers and of the job that owns it.        *)
(***************************************************************************)
TypeOK ==
  /\ pending \subseteq Tracks
  /\ closed \in BOOLEAN
  /\ batch \in [Procs -> SUBSET Tracks]
  /\ outcome \in [Procs -> {"none", "ok", "error"}]
  /\ done \in [Tracks -> {"empty", "ok", "error"}]
  /\ helper \in {"up", "down"}
  /\ table \subseteq Tracks
  /\ pc \in [Procs -> {"idle", "flush", "wait", "taken", "io", "answered", "feeding",
                       "drained", "close", "shutdown", "end"}]
  /\ job \in [Workers -> Tracks \cup {NoTrack}]
  /\ result \in [Tracks -> {"none", "ok", "error"}]
  /\ cancelled \in BOOLEAN

(***************************************************************************)
(* Upsert never reports success for a row that is not in the table:        *)
(* MarkVectorReady, which follows, would make the track count as embedded  *)
(* while the neighbour search can not find it.                             *)
(***************************************************************************)
AckedIsStored == \A t \in Tracks : result[t] = "ok" => t \in table

(***************************************************************************)
(* The writer keeps the contract the embed job relies on, with every flush *)
(* that reaches the table as one Store.                                    *)
(***************************************************************************)
Contract == INSTANCE UpsertContract WITH
  asked  <- Tracks \ Unclaimed,
  stored <- table,
  answer <- result

KeepsContract == Contract!Spec

(***************************************************************************)
(* Every Upsert returns, also one whose batch never fills up: the ticker   *)
(* of Run flushes it, or the cancelled context frees it.                   *)
(***************************************************************************)
EveryUpsertReturns == \A w \in Workers : pc[w] # "idle" ~> pc[w] = "idle"

(***************************************************************************)
(* writer.go:227: Close flushes remaining rows and stops the helper.  Run  *)
(* makes it true by a flush of its own before it closes the writer.        *)
(***************************************************************************)
CloseFlushes == pc[Driver] = "end" => pending = {}

=============================================================================
