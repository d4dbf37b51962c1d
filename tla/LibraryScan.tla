---------------------------- MODULE LibraryScan ----------------------------
(***************************************************************************)
(* The library scan and the watcher over the track catalog                 *)
(* (internal/scan/scan.go, watcher.go, internal/db/catalog.go): a full     *)
(* scan walks the library, sends what changed through its workers and its  *)
(* one writer, and marks missing what it did not see, while files come,    *)
(* change and go and the watcher catalogues single paths.                  *)
(*                                                                         *)
(* A version of a file stands for its mtime, size and content.  Which      *)
(* worker takes a file does not matter, so the pipeline is kept per file,  *)
(* as if there were a worker for each.  Left out: covers, ffprobe, and the *)
(* two seconds the watcher waits before it scans a path.                   *)
(***************************************************************************)
EXTENDS Naturals, Sequences, FiniteSets

CONSTANTS
  Files,        \* the audio paths of the library, on disk or not
  NoFile,       \* the watcher is between paths
  BatchSize,    \* writeBatchSize, 64 in the code
  MaxChanges,   \* changes of files explored (bound)
  MaxFaults     \* failures of operations and restarts explored (bound)

ASSUME FileAssumption == NoFile \notin Files /\ IsFiniteSet(Files)
ASSUME BatchSizeAssumption == BatchSize \in Nat \ {0}
ASSUME ScanBoundAssumption == MaxChanges \in Nat /\ MaxFaults \in Nat

VARIABLES
  disk,       \* the version of each file, 0 if it is not there
  latest,     \* the newest version each file has had
  rowMtime,   \* tracks.file_mtime and file_size: a version, 0 without a row
  rowTags,    \* the version title, artist, ... were read from, 0: from the path
  missing,    \* tracks.missing_at is set
  phase,      \* where the full scan stands
  known,      \* the catalogued version of each file that is not missing
  stage,      \* where each file is in the scan
  inMtime,    \* the version its worker found
  inTags,     \* the version its worker read the tags of
  seen,       \* what the scan has seen
  toMark,     \* what the scan is about to mark missing
  events,     \* file system events the watcher has not handled
  debounce,   \* paths the watcher will scan
  wpc,        \* where the watcher stands in ScanPath
  wfile, wMtime, wTags,   \* its path and what it read
  disturbed,  \* history: files that changed, failed, or that the watcher
              \* handled, since the scan began
  changes, faults   \* counters behind the bounds

diskVars  == <<disk, latest>>
rowVars   == <<rowMtime, rowTags, missing>>
pipeVars  == <<known, stage, inMtime, inTags>>
watchVars == <<events, debounce, wpc, wfile, wMtime, wTags>>
counters  == <<changes, faults>>
vars == <<diskVars, rowVars, phase, pipeVars, seen, toMark, watchVars,
          disturbed, counters>>

\* A library as an earlier scan left it, or a new one.
Init ==
  /\ disk \in [Files -> {0, 1}] /\ latest = disk
  /\ rowMtime = disk /\ rowTags = disk
  /\ missing = [f \in Files |-> FALSE]
  /\ phase = "idle" /\ known = [f \in Files |-> 0]
  /\ stage = [f \in Files |-> "out"]
  /\ inMtime = known /\ inTags = known
  /\ seen = {} /\ toMark = {}
  /\ events = <<>> /\ debounce = {}
  /\ wpc = "idle" /\ wfile = NoFile /\ wMtime = 0 /\ wTags = 0
  /\ disturbed = {}
  /\ changes = 0 /\ faults = 0

\* TrackUnchanged: the row of f is that of version v, and not missing.
Unchanged(f, v) == rowMtime[f] = v /\ ~missing[f]

\* UpsertTracks: one transaction for the files of S; each is back if it was missing.
Upsert(S, mtime, tags) ==
  /\ rowMtime' = [f \in Files |-> IF f \in S THEN mtime[f] ELSE rowMtime[f]]
  /\ rowTags' = [f \in Files |-> IF f \in S THEN tags[f] ELSE rowTags[f]]
  /\ missing' = [f \in Files |-> missing[f] /\ f \notin S]

Disturb(S) == disturbed' = IF phase = "idle" THEN {} ELSE disturbed \cup S

Fault == faults < MaxFaults /\ faults' = faults + 1 /\ UNCHANGED changes

\* An operation on the files of S fails.
Fail(S) == Fault /\ Disturb(S)

-----------------------------------------------------------------------------
(***************************************************************************)
(* FullOpts.                                                               *)
(***************************************************************************)
\* Mutant: the tracks are listed without missing_at.
StartKnowsMissing(force) ==
  /\ phase = "idle"
  /\ phase' = "walk"
  /\ known' = [f \in Files |-> IF force THEN 0 ELSE rowMtime[f]]
  /\ stage' = [f \in Files |-> "ahead"]
  /\ seen' = {}
  /\ disturbed' = {wfile} \ {NoFile}
  /\ UNCHANGED <<diskVars, rowVars, inMtime, inTags, toMark, watchVars, counters>>

\* The scan claims "running" and lists the tracks, unless it is forced.
Start(force) ==
  /\ phase = "idle"
  /\ phase' = "walk"
  /\ known' = [f \in Files |-> IF force \/ missing[f] THEN 0 ELSE rowMtime[f]]
  /\ stage' = [f \in Files |-> "ahead"]
  /\ seen' = {}
  /\ disturbed' = {wfile} \ {NoFile}
  /\ UNCHANGED <<diskVars, rowVars, inMtime, inTags, toMark, watchVars, counters>>

\* Mutant: a file the last scan knew is not looked at again.
VisitTrusting(f) ==
  /\ phase = "walk" /\ stage[f] = "ahead"
  /\ IF disk[f] # 0 /\ known[f] # 0
     THEN /\ seen' = seen \cup {f}
          /\ stage' = [stage EXCEPT ![f] = "out"]
     ELSE /\ stage' = [stage EXCEPT ![f] = IF disk[f] = 0 THEN "out" ELSE "job"]
          /\ UNCHANGED seen
  /\ UNCHANGED <<diskVars, rowVars, phase, known, inMtime, inTags, toMark,
                 watchVars, disturbed, counters>>

\* The walk comes to f, if it is there: seen if unchanged, else a job.
Visit(f) ==
  /\ phase = "walk" /\ stage[f] = "ahead"
  /\ IF disk[f] # 0 /\ known[f] = disk[f]
     THEN /\ seen' = seen \cup {f}
          /\ stage' = [stage EXCEPT ![f] = "out"]
     ELSE /\ stage' = [stage EXCEPT ![f] = IF disk[f] = 0 THEN "out" ELSE "job"]
          /\ UNCHANGED seen
  /\ UNCHANGED <<diskVars, rowVars, phase, known, inMtime, inTags, toMark,
                 watchVars, disturbed, counters>>

\* The walk cannot read f, or the directories above the files of S.
VisitFails(S) ==
  /\ phase = "walk" /\ S # {} /\ \A f \in S : stage[f] = "ahead"
  /\ stage' = [f \in Files |-> IF f \in S THEN "out" ELSE stage[f]]
  /\ Fail(S)
  /\ UNCHANGED <<diskVars, rowVars, phase, known, inMtime, inTags, seen, toMark,
                 watchVars>>

\* A worker takes f: Extract looks up its mtime, and gives up if it is gone.
Stat(f) ==
  /\ stage[f] = "job"
  /\ stage' = [stage EXCEPT ![f] = IF disk[f] = 0 THEN "out" ELSE "read"]
  /\ inMtime' = [inMtime EXCEPT ![f] = disk[f]]
  /\ UNCHANGED <<diskVars, rowVars, phase, known, inTags, seen, toMark,
                 watchVars, disturbed, counters>>

\* Extract reads the tags; without them the path stands in.
Read(f) ==
  /\ stage[f] = "read"
  /\ stage' = [stage EXCEPT ![f] = "write"]
  /\ inTags' = [inTags EXCEPT ![f] = disk[f]]
  /\ UNCHANGED <<diskVars, rowVars, phase, known, inMtime, seen, toMark,
                 watchVars, disturbed, counters>>

Writes == {f \in Files : stage[f] = "write"}

\* A full batch; or the rest, once walk and workers are done.
Batches ==
  {S \in SUBSET Writes :
     \/ Cardinality(S) = BatchSize
     \/ S = Writes /\ \A f \in Files \ Writes : stage[f] = "out"}

\* The writer is done with the inputs of S.
Leave(S) ==
  /\ stage' = [f \in Files |-> IF f \in S THEN "out" ELSE stage[f]]
  /\ inMtime' = [f \in Files |-> IF f \in S THEN 0 ELSE inMtime[f]]
  /\ inTags' = [f \in Files |-> IF f \in S THEN 0 ELSE inTags[f]]

\* Mutant: the mtime is looked up when the tags are written.
FlushRestats(S) ==
  /\ S # {} /\ S \in Batches
  /\ Upsert(S, disk, inTags)
  /\ seen' = seen \cup S
  /\ Leave(S)
  /\ UNCHANGED <<diskVars, phase, known, toMark, watchVars, disturbed, counters>>

\* The writer's flush of a batch.
Flush(S) ==
  /\ S # {} /\ S \in Batches
  /\ Upsert(S, inMtime, inTags)
  /\ seen' = seen \cup S
  /\ Leave(S)
  /\ UNCHANGED <<diskVars, phase, known, toMark, watchVars, disturbed, counters>>

\* Some of its files fail; if the transaction does, all of them.
FlushFails(S, T) ==
  /\ S \in Batches /\ T \subseteq S /\ T # {}
  /\ Upsert(S \ T, inMtime, inTags)
  /\ seen' = seen \cup (S \ T)
  /\ Leave(S)
  /\ Fail(T)
  /\ UNCHANGED <<diskVars, phase, known, toMark, watchVars>>

Catalogued == {f \in Files : rowMtime[f] # 0 /\ ~missing[f]}

\* MarkMissingExcept, its query.
Select ==
  /\ phase = "walk" /\ \A f \in Files : stage[f] = "out"
  /\ phase' = "mark"
  /\ toMark' = Catalogued \ seen
  /\ UNCHANGED <<diskVars, rowVars, pipeVars, seen, watchVars, disturbed, counters>>

\* MarkMissingExcept, one of its updates.
Mark(f) ==
  /\ phase = "mark" /\ f \in toMark
  /\ missing' = [missing EXCEPT ![f] = TRUE]
  /\ toMark' = toMark \ {f}
  /\ UNCHANGED <<diskVars, rowMtime, rowTags, phase, pipeVars, seen, watchVars,
                 disturbed, counters>>

\* FullOpts returns; its local variables are gone.
Return ==
  /\ phase' = "idle" /\ toMark' = {} /\ seen' = {} /\ disturbed' = {}
  /\ stage' = [f \in Files |-> "out"]
  /\ known' = [f \in Files |-> 0]
  /\ inMtime' = known' /\ inTags' = known'

Finish ==
  /\ phase = "mark" /\ toMark = {}
  /\ Return
  /\ UNCHANGED <<diskVars, rowVars, watchVars, counters>>

\* An update fails: the scan returns its error.
MarkFails ==
  /\ phase = "mark" /\ toMark # {}
  /\ Fault
  /\ Return
  /\ UNCHANGED <<diskVars, rowVars, watchVars>>

-----------------------------------------------------------------------------
(***************************************************************************)
(* Watch.                                                                  *)
(***************************************************************************)
Event == Head(events)

\* A file is written: its path waits for the ticker.
WatchWrite ==
  /\ wpc = "idle" /\ events # <<>> /\ Event.op = "write"
  /\ debounce' = debounce \cup {Event.file}
  /\ events' = Tail(events)
  /\ UNCHANGED <<diskVars, rowVars, phase, pipeVars, seen, toMark, wpc, wfile,
                 wMtime, wTags, disturbed, counters>>

\* A file is gone: MarkPathMissing.
WatchRemove ==
  /\ wpc = "idle" /\ events # <<>> /\ Event.op = "remove"
  /\ missing' = [missing EXCEPT ![Event.file] = @ \/ rowMtime[Event.file] # 0]
  /\ debounce' = debounce \ {Event.file}
  /\ events' = Tail(events)
  /\ Disturb({Event.file})
  /\ UNCHANGED <<diskVars, rowMtime, rowTags, phase, pipeVars, seen, toMark, wpc,
                 wfile, wMtime, wTags, counters>>

\* The ticker: ScanPath looks up the mtime, and gives up if the file is gone.
WatchStat(f) ==
  /\ wpc = "idle" /\ f \in debounce
  /\ debounce' = debounce \ {f}
  /\ IF disk[f] = 0
     THEN UNCHANGED <<wpc, wfile, wMtime, disturbed>>
     ELSE /\ wpc' = "check" /\ wfile' = f /\ wMtime' = disk[f]
          /\ Disturb({f})
  /\ UNCHANGED <<diskVars, rowVars, phase, pipeVars, seen, toMark, events, wTags,
                 counters>>

WatchIdle == wpc' = "idle" /\ wfile' = NoFile /\ wMtime' = 0 /\ wTags' = 0

\* TrackUnchanged decides whether the path is read.
WatchCheck ==
  /\ wpc = "check"
  /\ IF Unchanged(wfile, wMtime)
     THEN WatchIdle
     ELSE wpc' = "extract" /\ UNCHANGED <<wfile, wMtime, wTags>>
  /\ UNCHANGED <<diskVars, rowVars, phase, pipeVars, seen, toMark, events,
                 debounce, disturbed, counters>>

\* Extract looks up the mtime once more.
WatchExtract ==
  /\ wpc = "extract"
  /\ IF disk[wfile] = 0
     THEN WatchIdle
     ELSE wpc' = "read" /\ wMtime' = disk[wfile] /\ UNCHANGED <<wfile, wTags>>
  /\ UNCHANGED <<diskVars, rowVars, phase, pipeVars, seen, toMark, events,
                 debounce, disturbed, counters>>

WatchRead ==
  /\ wpc = "read"
  /\ wpc' = "upsert" /\ wTags' = disk[wfile]
  /\ UNCHANGED <<diskVars, rowVars, phase, pipeVars, seen, toMark, events,
                 debounce, wfile, wMtime, disturbed, counters>>

WatchUpsert ==
  /\ wpc = "upsert"
  /\ Upsert({wfile}, [f \in Files |-> wMtime], [f \in Files |-> wTags])
  /\ WatchIdle
  /\ UNCHANGED <<diskVars, phase, pipeVars, seen, toMark, events, debounce,
                 disturbed, counters>>

\* The upsert, or a query before it, fails.
WatchFails ==
  /\ wpc \in {"check", "upsert"}
  /\ WatchIdle
  /\ Fail({wfile})
  /\ UNCHANGED <<diskVars, rowVars, phase, pipeVars, seen, toMark, events, debounce>>

-----------------------------------------------------------------------------
\* A file comes, is edited, goes or comes back as it was; the watcher hears of
\* it, or not (a directory not watched yet, events dropped, no watcher).
Change(f, v, heard) ==
  /\ changes < MaxChanges /\ changes' = changes + 1
  /\ v \in {0, latest[f], latest[f] + 1} /\ v # disk[f]
  /\ disk' = [disk EXCEPT ![f] = v]
  /\ latest' = [latest EXCEPT ![f] = IF v = 0 THEN @ ELSE v]
  /\ events' = IF heard
               THEN Append(events, [file |-> f,
                                    op |-> IF v = 0 THEN "remove" ELSE "write"])
               ELSE events
  /\ Disturb({f})
  /\ UNCHANGED <<rowVars, phase, pipeVars, seen, toMark, debounce, wpc, wfile,
                 wMtime, wTags, faults>>

\* The process ends wherever it is and starts again.
Restart ==
  /\ Fault
  /\ Return
  /\ events' = <<>> /\ debounce' = {} /\ WatchIdle
  /\ UNCHANGED <<diskVars, rowVars>>

ScanStep ==
  \/ \E f \in Files : Visit(f) \/ Stat(f) \/ Read(f) \/ Mark(f)
  \/ \E S \in SUBSET Files :
       Flush(S) \/ VisitFails(S) \/ \E T \in SUBSET S : FlushFails(S, T)
  \/ Select \/ MarkFails \/ Finish

WatchStep ==
  \/ WatchWrite \/ WatchRemove
  \/ \E f \in Files : WatchStat(f)
  \/ WatchCheck \/ WatchExtract \/ WatchRead \/ WatchUpsert \/ WatchFails

Next ==
  \/ \E force \in BOOLEAN : Start(force)
  \/ ScanStep
  \/ WatchStep
  \/ \E f \in Files, heard \in BOOLEAN :
       \E v \in {0, latest[f], latest[f] + 1} : Change(f, v, heard)
  \/ Restart

Spec == Init /\ [][Next]_vars

(***************************************************************************)
(* A scan that runs goes on, the watcher handles what it heard of, and     *)
(* while the schedule is enabled there is always another periodic scan.    *)
(***************************************************************************)
Fairness ==
  /\ WF_vars(Start(FALSE)) /\ WF_vars(ScanStep) /\ WF_vars(WatchStep)

FairSpec == Spec /\ Fairness

-----------------------------------------------------------------------------
FileEvents == [file : Files, op : {"write", "remove"}]

TypeOK ==
  /\ disk \in [Files -> Nat] /\ latest \in [Files -> Nat]
  /\ rowMtime \in [Files -> Nat] /\ rowTags \in [Files -> Nat]
  /\ missing \in [Files -> BOOLEAN]
  /\ phase \in {"idle", "walk", "mark"}
  /\ known \in [Files -> Nat]
  /\ stage \in [Files -> {"out", "ahead", "job", "read", "write"}]
  /\ inMtime \in [Files -> Nat] /\ inTags \in [Files -> Nat]
  /\ seen \subseteq Files /\ toMark \subseteq Files
  /\ events \in Seq(FileEvents)
  /\ debounce \subseteq Files
  /\ wpc \in {"idle", "check", "extract", "read", "upsert"}
  /\ wfile \in Files \cup {NoFile} /\ wMtime \in Nat /\ wTags \in Nat
  /\ disturbed \subseteq Files
  /\ changes \in 0..MaxChanges /\ faults \in 0..MaxFaults
  /\ wpc = "idle" <=> wfile = NoFile
  /\ phase # "walk" => \A f \in Files : stage[f] = "out"
  /\ phase = "idle" => disturbed = {}
  /\ phase # "mark" => toMark = {}

\* The catalog has f as it is on disk.
Synced(f) == IF disk[f] = 0 THEN f \notin Catalogued ELSE Unchanged(f, disk[f])

(***************************************************************************)
(* A full scan that ends leaves every file in sync that did not change,    *)
(* fail or pass through the watcher's hands while it ran: whatever else    *)
(* happened, none of those is left missing, stale or listed but gone.      *)
(***************************************************************************)
ScanReconciles ==
  [][Finish => \A f \in Files \ disturbed : Synced(f)]_vars

(***************************************************************************)
(* watcher.go:20: a periodic scan remains the source of truth if the       *)
(* watcher misses events.  When files stop changing and nothing fails any  *)
(* more, the catalog agrees with the disk, for good.                       *)
(***************************************************************************)
Reconciles == <>[](\A f \in Files : Synced(f))

(***************************************************************************)
(* A catalogued track shows the tags of the version its row claims to be,  *)
(* or of its path: an edit between stat and read is noticed later, because *)
(* the row then has the older mtime.                                       *)
(***************************************************************************)
TagsAreFresh ==
  \A f \in Files : Unchanged(f, disk[f]) => rowTags[f] \in {0, disk[f]}

=============================================================================
