------------------------------ MODULE EmbedJob ------------------------------
(***************************************************************************)
(* One acoustic embed job after another over the track_vectors table       *)
(* (internal/meta/job.go, internal/db/vectors.go): Run claims pending      *)
(* tracks in waves, its workers extract, store and mark them, and stops,   *)
(* cancellations, failures, restarts of the process, edited files and      *)
(* changed settings get in between.                                        *)
(*                                                                         *)
(* A file, and what is computed from it, is named by its version: a        *)
(* counter that stands for file_mtime and for the content at that time.    *)
(* The extractors of a track are one; the first that runs sets the oldest  *)
(* content the vector holds.                                               *)
(* extractor_set and model_versions are one number, the settings the       *)
(* process was started with.  The Lance writer is taken at its contract    *)
(* (UpsertContract).  Left out: sampling (sample_mode is "all"), missing   *)
(* tracks, progress counters, and database errors other than the one that  *)
(* interrupts a claim.                                                     *)
(***************************************************************************)
EXTENDS Naturals, FiniteSets

CONSTANTS
  Tracks,      \* the catalogued tracks
  Workers,     \* the embed workers
  NoTrack,     \* a worker is between tracks
  ClaimBatch,  \* claimBatch, 8 or more in the code: wave and channel size
  Edited,      \* the tracks whose files are edited (bound)
  MaxVersion,  \* file versions explored (bound)
  MaxConf,     \* settings explored (bound)
  Reverts      \* TRUE: the settings may go back to earlier ones

ASSUME TrackAssumption == NoTrack \notin Tracks
ASSUME BatchAssumption == ClaimBatch \in Nat \ {0}
ASSUME VersionAssumption ==
  /\ Edited \subseteq Tracks
  /\ MaxVersion \in Nat \ {0} /\ MaxConf \in Nat \ {0}
  /\ Reverts \in BOOLEAN

Versions == 1..MaxVersion
Confs    == 1..MaxConf

VARIABLES
  disk,       \* the version of each audio file
  mtime,      \* tracks.file_mtime: the version the last scan saw
  conf,       \* the settings of this process
  status,     \* track_vectors.status, "none" without a row
  rowConf,    \* extractor_set, model_versions
  rowMtime,   \* audio_mtime_at_run, 0 for NULL
  vec,        \* the version embedding_blob was computed from, 0 for NULL
  lance,      \* the version the LanceDB row was computed from
  phase,      \* where Run stands
  wave,       \* claimed, not yet sent to the workers
  jobs,       \* the channel the workers read
  pc,         \* where each worker stands
  job,        \* the track of each worker
  brief,      \* the file_mtime each worker read
  content,    \* the version each worker extracted
  cancelled,  \* the context of the run
  file        \* the job control file: "none", "running", "stop"

rowVars  == <<status, rowConf, rowMtime, vec>>
fileVars == <<disk, mtime, conf>>
workVars == <<pc, job, brief, content>>
feedVars == <<phase, wave, jobs>>
vars == <<fileVars, rowVars, lance, feedVars, workVars, cancelled, file>>

Init ==
  /\ disk = [t \in Tracks |-> 1] /\ mtime = disk /\ conf = 1
  /\ status = [t \in Tracks |-> "none"]
  /\ rowConf = [t \in Tracks |-> 1]
  /\ rowMtime = [t \in Tracks |-> 0]
  /\ vec = [t \in Tracks |-> 0] /\ lance = [t \in Tracks |-> 0]
  /\ phase = "idle" /\ wave = {} /\ jobs = {}
  /\ pc = [w \in Workers |-> "idle"]
  /\ job = [w \in Workers |-> NoTrack]
  /\ brief = [w \in Workers |-> 0] /\ content = [w \in Workers |-> 0]
  /\ cancelled = FALSE /\ file = "none"

\* What the feeder and the workers test between tracks.
StopSeen == cancelled \/ file = "stop"

\* The rows of S that are in state "from" go to state "to".
Move(S, from, to) ==
  status' = [t \in Tracks |-> IF t \in S /\ status[t] = from THEN to
                              ELSE status[t]]

\* The condition of MarkStaleByConfig, without the status.
Drifted(t) == rowConf[t] # conf \/ rowMtime[t] = 0 \/ rowMtime[t] # mtime[t]

-----------------------------------------------------------------------------
\* Controller.Start: a run begins.
Start ==
  /\ phase = "idle"
  /\ phase' = "reset"
  /\ cancelled' = FALSE /\ file' = "running"
  /\ UNCHANGED <<fileVars, rowVars, lance, wave, jobs, workVars>>

\* ResetStuckProcessing: no row of an earlier run stays in processing.
Reset ==
  /\ phase = "reset"
  /\ Move(Tracks, "processing", "pending")
  /\ phase' = "ensure"
  /\ UNCHANGED <<fileVars, rowConf, rowMtime, vec, lance, wave, jobs, workVars,
                 cancelled, file>>

\* EnsureVectorRows: a pending row for each track without one.
EnsureRows ==
  /\ Move(Tracks, "none", "pending")
  /\ rowConf' = [t \in Tracks |-> IF status[t] = "none" THEN conf ELSE rowConf[t]]
  /\ UNCHANGED <<fileVars, rowMtime, vec, lance, wave, jobs, workVars,
                 cancelled, file>>

Ensure == phase = "ensure" /\ phase' = "stale" /\ EnsureRows

\* StartIfIncomplete does so before it knows whether to start a run; by then a
\* run may have begun.
EnsureEarly == UNCHANGED phase /\ EnsureRows

\* MarkStaleByConfig, first statement.
MarkStale ==
  /\ phase = "stale"
  /\ status' = [t \in Tracks |-> IF status[t] \in {"ready", "error"} /\ Drifted(t)
                                 THEN "stale" ELSE status[t]]
  /\ phase' = "requeue"
  /\ UNCHANGED <<fileVars, rowConf, rowMtime, vec, lance, wave, jobs, workVars,
                 cancelled, file>>

\* MarkStaleByConfig, second statement.
Requeue ==
  /\ phase = "requeue"
  /\ Move(Tracks, "stale", "pending")
  /\ phase' = "begin"
  /\ UNCHANGED <<fileVars, rowConf, rowMtime, vec, lance, wave, jobs, workVars,
                 cancelled, file>>

\* The helpers start and the run is recorded; a stop request in the control
\* file that came before this point is overwritten.
Begin ==
  /\ phase = "begin"
  /\ phase' = "feed" /\ file' = "running"
  /\ UNCHANGED <<fileVars, rowVars, lance, wave, jobs, workVars, cancelled>>

\* The ML pool or the Lance writer does not start: Run returns its error.
BeginFails ==
  /\ phase = "begin"
  /\ phase' = "idle" /\ file' = "none"
  /\ UNCHANGED <<fileVars, rowVars, lance, wave, jobs, workVars, cancelled>>

-----------------------------------------------------------------------------
Pending == {t \in Tracks : status[t] = "pending"}

\* ClaimVectorWork selects as many pending tracks as the batch takes.
Claimable ==
  {S \in SUBSET Pending :
     Cardinality(S) = IF Cardinality(Pending) < ClaimBatch
                      THEN Cardinality(Pending) ELSE ClaimBatch}

Claim(S) ==
  /\ phase = "feed" /\ wave = {} /\ ~StopSeen
  /\ S \in Claimable /\ S # {}
  /\ Move(S, "pending", "processing")
  /\ wave' = S
  /\ UNCHANGED <<fileVars, rowConf, rowMtime, vec, lance, phase, jobs, workVars,
                 cancelled, file>>

\* An UPDATE of the claim fails: the feeder drops the tracks claimed so far.
ClaimFails(S) ==
  /\ phase = "feed" /\ wave = {} /\ ~StopSeen
  /\ \E T \in Claimable : S \subseteq T /\ S # T
  /\ Move(S, "pending", "processing")
  /\ phase' = "drain"
  /\ UNCHANGED <<fileVars, rowConf, rowMtime, vec, lance, wave, jobs, workVars,
                 cancelled, file>>

\* Mutant: the feeder keeps the track it has sent.
FeedSendTwice(t) ==
  /\ phase = "feed" /\ t \in wave /\ Cardinality(jobs) < ClaimBatch
  /\ t \notin jobs
  /\ jobs' = jobs \cup {t}
  /\ UNCHANGED <<status, wave, phase>>
  /\ UNCHANGED <<fileVars, rowConf, rowMtime, vec, lance, workVars, cancelled,
                 file>>

\* The feeder sends a track, then looks for a stop request.
FeedSend(t) ==
  /\ phase = "feed" /\ t \in wave /\ Cardinality(jobs) < ClaimBatch
  /\ jobs' = jobs \cup {t}
  /\ IF file = "stop"
     THEN /\ Move(wave \ {t}, "processing", "pending")
          /\ wave' = {} /\ phase' = "drain"
     ELSE /\ wave' = wave \ {t}
          /\ UNCHANGED <<status, phase>>
  /\ UNCHANGED <<fileVars, rowConf, rowMtime, vec, lance, workVars, cancelled,
                 file>>

\* ... or its select sees the cancelled context first.
FeedCancelled ==
  /\ phase = "feed" /\ wave # {} /\ cancelled
  /\ Move(wave, "processing", "pending")
  /\ wave' = {} /\ phase' = "drain"
  /\ UNCHANGED <<fileVars, rowConf, rowMtime, vec, lance, jobs, workVars,
                 cancelled, file>>

\* The feeder closes the channel: a stop, or nothing is left to claim.
FeedEnd ==
  /\ phase = "feed" /\ wave = {} /\ (StopSeen \/ Pending = {})
  /\ phase' = "drain"
  /\ UNCHANGED <<fileVars, rowVars, lance, wave, jobs, workVars, cancelled, file>>

\* Mutant: Run does not wait for its workers.
FinishEarly ==
  /\ phase = "drain" /\ jobs = {}
  /\ IF StopSeen THEN Move(Tracks, "processing", "pending") ELSE UNCHANGED status
  /\ phase' = "idle" /\ file' = "none"
  /\ UNCHANGED <<fileVars, rowConf, rowMtime, vec, lance, wave, jobs, workVars,
                 cancelled>>

\* The workers are done: Run ends, and resets the rows if it was stopped.
Finish ==
  /\ phase = "drain" /\ jobs = {} /\ \A w \in Workers : pc[w] = "idle"
  /\ IF StopSeen THEN Move(Tracks, "processing", "pending") ELSE UNCHANGED status
  /\ phase' = "idle" /\ file' = "none"
  /\ UNCHANGED <<fileVars, rowConf, rowMtime, vec, lance, wave, jobs, workVars,
                 cancelled>>

-----------------------------------------------------------------------------
\* A worker takes a track; after a stop it only releases it.
Take(w, t) ==
  /\ pc[w] = "idle" /\ t \in jobs
  /\ jobs' = jobs \ {t}
  /\ IF StopSeen
     THEN /\ Move({t}, "processing", "pending")
          /\ UNCHANGED <<pc, job>>
     ELSE /\ pc' = [pc EXCEPT ![w] = "brief"]
          /\ job' = [job EXCEPT ![w] = t]
          /\ UNCHANGED status
  /\ UNCHANGED <<fileVars, rowConf, rowMtime, vec, lance, phase, wave, brief,
                 content, cancelled, file>>

\* processTrack: GetTrackEmbedBrief.
Brief(w) ==
  /\ pc[w] = "brief"
  /\ brief' = [brief EXCEPT ![w] = mtime[job[w]]]
  /\ pc' = [pc EXCEPT ![w] = "extract"]
  /\ UNCHANGED <<fileVars, rowVars, lance, feedVars, job, content, cancelled, file>>

\* The file is decoded and the extractors run over it.
Extract(w) ==
  /\ pc[w] = "extract" /\ ~cancelled
  /\ content' = [content EXCEPT ![w] = disk[job[w]]]
  /\ pc' = [pc EXCEPT ![w] = "store"]
  /\ UNCHANGED <<fileVars, rowVars, lance, feedVars, job, brief, cancelled, file>>

\* An extractor fails.
ExtractFails(w) ==
  /\ pc[w] = "extract"
  /\ pc' = [pc EXCEPT ![w] = "fail"]
  /\ UNCHANGED <<fileVars, rowVars, lance, feedVars, job, brief, content,
                 cancelled, file>>

\* Before an extractor the context is tested: the track is released, and the
\* context's error returned.
ExtractCancelled(w) ==
  /\ pc[w] = "extract" /\ cancelled
  /\ Move({job[w]}, "processing", "pending")
  /\ pc' = [pc EXCEPT ![w] = "fail"]
  /\ UNCHANGED <<fileVars, rowConf, rowMtime, vec, lance, feedVars, job, brief,
                 content, cancelled, file>>

\* Mutant: the error of the upsert is not tested.
StoreUntested(w) ==
  /\ pc[w] = "store"
  /\ \/ lance' = [lance EXCEPT ![job[w]] = content[w]]
     \/ UNCHANGED lance
  /\ pc' = [pc EXCEPT ![w] = "ready"]
  /\ UNCHANGED <<fileVars, rowVars, feedVars, job, brief, content, cancelled, file>>

\* The upsert: success means stored, an error means anything.
Store(w) ==
  /\ pc[w] = "store"
  /\ \/ /\ lance' = [lance EXCEPT ![job[w]] = content[w]]
        /\ pc' = [pc EXCEPT ![w] = "ready"]
     \/ /\ lance' = [lance EXCEPT ![job[w]] = content[w]] \/ UNCHANGED lance
        /\ pc' = [pc EXCEPT ![w] = "fail"]
  /\ UNCHANGED <<fileVars, rowVars, feedVars, job, brief, content, cancelled, file>>

\* The worker is done with its track.
Done(w) ==
  /\ pc' = [pc EXCEPT ![w] = "idle"]
  /\ job' = [job EXCEPT ![w] = NoTrack]
  /\ brief' = [brief EXCEPT ![w] = 0]
  /\ content' = [content EXCEPT ![w] = 0]
  /\ UNCHANGED <<fileVars, lance, feedVars, cancelled, file>>

\* Mutant: the file's mtime is looked up when the vector is stored.
ReadyNow(w) ==
  /\ pc[w] = "ready"
  /\ status' = [status EXCEPT ![job[w]] = "ready"]
  /\ rowConf' = [rowConf EXCEPT ![job[w]] = conf]
  /\ rowMtime' = [rowMtime EXCEPT ![job[w]] = mtime[job[w]]]
  /\ vec' = [vec EXCEPT ![job[w]] = content[w]]
  /\ Done(w)

\* MarkVectorReady.
Ready(w) ==
  /\ pc[w] = "ready"
  /\ status' = [status EXCEPT ![job[w]] = "ready"]
  /\ rowConf' = [rowConf EXCEPT ![job[w]] = conf]
  /\ rowMtime' = [rowMtime EXCEPT ![job[w]] = brief[w]]
  /\ vec' = [vec EXCEPT ![job[w]] = content[w]]
  /\ Done(w)

\* Mutant: a failed track is queued again.
FailRetries(w) ==
  /\ pc[w] = "fail"
  /\ status' = [status EXCEPT ![job[w]] = "pending"]
  /\ UNCHANGED <<rowConf, rowMtime, vec>>
  /\ Done(w)

\* Mutant: a failed track records the run like one that succeeded.
FailRecords(w) ==
  /\ pc[w] = "fail"
  /\ status' = [status EXCEPT ![job[w]] = "error"]
  /\ rowConf' = [rowConf EXCEPT ![job[w]] = conf]
  /\ rowMtime' = [rowMtime EXCEPT ![job[w]] = brief[w]]
  /\ UNCHANGED vec
  /\ Done(w)

\* MarkVectorError.
Fail(w) ==
  /\ pc[w] = "fail"
  /\ status' = [status EXCEPT ![job[w]] = "error"]
  /\ UNCHANGED <<rowConf, rowMtime, vec>>
  /\ Done(w)

-----------------------------------------------------------------------------
\* Controller.Stop: the control file, and the context of a running job.
Stop ==
  /\ file' = "stop"
  /\ cancelled' = (cancelled \/ phase # "idle")
  /\ UNCHANGED <<fileVars, rowVars, lance, feedVars, workVars>>

\* "latenttone embed --stop" only writes the control file.
StopFile ==
  /\ file' = "stop"
  /\ UNCHANGED <<fileVars, rowVars, lance, feedVars, workVars, cancelled>>

\* A file is edited; the scan records what it finds.
Edit(t, v) ==
  /\ v > disk[t]
  /\ disk' = [disk EXCEPT ![t] = v]
  /\ UNCHANGED <<mtime, conf, rowVars, lance, feedVars, workVars, cancelled, file>>

Scan(t) ==
  /\ mtime' = [mtime EXCEPT ![t] = disk[t]]
  /\ UNCHANGED <<disk, conf, rowVars, lance, feedVars, workVars, cancelled, file>>

\* The process ends wherever it is, and starts again with settings c.
Restart(c) ==
  /\ c < conf => Reverts
  /\ conf' = c
  /\ phase' = "idle" /\ wave' = {} /\ jobs' = {}
  /\ pc' = [w \in Workers |-> "idle"]
  /\ job' = [w \in Workers |-> NoTrack]
  /\ brief' = [w \in Workers |-> 0] /\ content' = [w \in Workers |-> 0]
  /\ cancelled' = FALSE
  /\ UNCHANGED <<disk, mtime, rowVars, lance, file>>

RunStep ==
  \/ Reset \/ Ensure \/ MarkStale \/ Requeue \/ Begin \/ BeginFails
  \/ \E S \in SUBSET Tracks : Claim(S) \/ ClaimFails(S)
  \/ \E t \in Tracks : FeedSend(t)
  \/ FeedCancelled \/ FeedEnd \/ Finish

WorkerStep(w) ==
  \/ \E t \in Tracks : Take(w, t)
  \/ Brief(w) \/ Extract(w) \/ ExtractFails(w) \/ ExtractCancelled(w)
  \/ Store(w) \/ Ready(w) \/ Fail(w)

Next ==
  \/ Start \/ EnsureEarly
  \/ RunStep
  \/ \E w \in Workers : WorkerStep(w)
  \/ Stop \/ StopFile
  \/ \E t \in Edited : Scan(t) \/ \E v \in Versions : Edit(t, v)
  \/ \E c \in Confs : Restart(c)

Spec == Init /\ [][Next]_vars

(***************************************************************************)
(* Goroutines that can run do run, and each extraction and each upsert     *)
(* returns.  Nothing forces a job to be started, stopped or restarted.     *)
(***************************************************************************)
Fairness == WF_vars(RunStep) /\ \A w \in Workers : WF_vars(WorkerStep(w))

FairSpec == Spec /\ Fairness

-----------------------------------------------------------------------------
Statuses == {"none", "pending", "processing", "ready", "error", "stale"}

Active == {w \in Workers : pc[w] # "idle"}

(***************************************************************************)
(* Types; a worker with a track has read its brief and its content by the  *)
(* time it uses them.                                                      *)
(***************************************************************************)
TypeOK ==
  /\ disk \in [Tracks -> Versions] /\ mtime \in [Tracks -> Versions]
  /\ conf \in Confs
  /\ status \in [Tracks -> Statuses]
  /\ rowConf \in [Tracks -> Confs]
  /\ rowMtime \in [Tracks -> 0..MaxVersion]
  /\ vec \in [Tracks -> 0..MaxVersion] /\ lance \in [Tracks -> 0..MaxVersion]
  /\ phase \in {"idle", "reset", "ensure", "stale", "requeue", "begin", "feed",
                "drain"}
  /\ wave \subseteq Tracks /\ jobs \subseteq Tracks
  /\ pc \in [Workers -> {"idle", "brief", "extract", "store", "ready", "fail"}]
  /\ job \in [Workers -> Tracks \cup {NoTrack}]
  /\ brief \in [Workers -> 0..MaxVersion]
  /\ content \in [Workers -> 0..MaxVersion]
  /\ cancelled \in BOOLEAN /\ file \in {"none", "running", "stop"}
  /\ \A w \in Workers :
       /\ pc[w] = "idle" <=> job[w] = NoTrack
       /\ pc[w] \in {"store", "ready"} => brief[w] > 0 /\ content[w] > 0

(***************************************************************************)
(* A claimed track has one owner: the feeder, the channel or one worker.   *)
(* Two workers would overwrite each other's result, an error a success.    *)
(***************************************************************************)
OneOwner ==
  /\ wave \cap jobs = {}
  /\ \A w \in Active : job[w] \notin wave \cup jobs
  /\ \A w1, w2 \in Active : job[w1] = job[w2] => w1 = w2

(***************************************************************************)
(* A track that counts as embedded is in the LanceDB table, with the same  *)
(* vector as in the catalog (processTrack stores before it marks).         *)
(***************************************************************************)
ReadyIsStored ==
  \A t \in Tracks : status[t] = "ready" => vec[t] # 0 /\ lance[t] = vec[t]

(***************************************************************************)
(* A file that changes while it is embedded does not keep its old vector:  *)
(* if the recorded mtime is that of the file, so is the vector.  Otherwise *)
(* the next scan shows the drift to MarkStaleByConfig.  It holds because   *)
(* processTrack reads the mtime before the file.                           *)
(***************************************************************************)
DriftIsSeen ==
  \A t \in Tracks : status[t] = "ready" /\ rowMtime[t] = disk[t] => vec[t] = disk[t]

(***************************************************************************)
(* migrate_sqlite.go:393: tracks in error catch up when the embed service  *)
(* runs.  A run requeues an error only if the row drifted, so every error  *)
(* must have drifted; it does, as long as the settings never return to     *)
(* what an earlier success recorded.                                       *)
(***************************************************************************)
ErrorsRetried == \A t \in Tracks : status[t] = "error" => Drifted(t)

(***************************************************************************)
(* vectors.go:52: ResetStuckProcessing moves abandoned rows.  A row that a *)
(* worker of the running job still holds is never taken away from it.      *)
(***************************************************************************)
ResetsAbandoned ==
  [][\A w \in Active : status[job[w]] = "processing" /\ status'[job[w]] = "pending"
       => cancelled /\ pc[w] = "extract"]_vars

(***************************************************************************)
(* Every run ends: it settles what it claims, and claims nothing twice.    *)
(***************************************************************************)
RunEnds == phase # "idle" ~> phase = "idle"

=============================================================================
