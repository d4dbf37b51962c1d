-------------------------- MODULE EmbedJob_proofs --------------------------
(***************************************************************************)
(* Proofs about EmbedJob, for any tracks, workers, wave size, versions and *)
(* settings: type correctness, that a claimed track has one owner and is   *)
(* not taken away from it, that a ready track is stored, and that an       *)
(* edited file and a failed track are seen by the next run.                *)
(***************************************************************************)
EXTENDS EmbedJob, TLAPS

(***************************************************************************)
(* The inductive invariant.  Its parts: a worker has read the mtime before *)
(* it extracts; who owns a track finds it in processing, except that a     *)
(* cancelled worker has released it, and then nothing is claimed any more; *)
(* what was read earlier is not newer than what was read later; what a     *)
(* worker is about to mark is stored; a row that is not ready has drifted. *)
(***************************************************************************)
BriefInv ==
  \A w \in Workers :
    /\ pc[w] \in {"extract", "store", "ready"} => brief[w] > 0
    /\ pc[w] \in {"store", "ready"} => content[w] > 0

OwnInv ==
  /\ OneOwner
  /\ phase \notin {"feed", "drain"} => wave = {} /\ jobs = {} /\ Active = {}
  /\ phase = "drain" => wave = {}
  /\ \A t \in wave \cup jobs : status[t] = "processing"
  /\ \A w \in Active :
       \/ status[job[w]] = "processing"
       \/ status[job[w]] = "pending" /\ pc[w] = "fail" /\ cancelled

VersionInv ==
  /\ \A t \in Tracks :
       mtime[t] <= disk[t] /\ rowMtime[t] <= mtime[t]
       /\ rowMtime[t] <= vec[t] /\ vec[t] <= disk[t]
  /\ \A w \in Workers :
       /\ pc[w] \in {"extract", "store", "ready"} => brief[w] <= mtime[job[w]]
       /\ pc[w] \in {"store", "ready"} =>
            brief[w] <= content[w] /\ content[w] <= disk[job[w]]

StoredInv ==
  /\ ReadyIsStored
  /\ \A w \in Workers : pc[w] = "ready" => lance[job[w]] = content[w]

ConfInv ==
  \A t \in Tracks :
    /\ rowConf[t] <= conf
    /\ status[t] = "none" => rowMtime[t] = 0
    /\ status[t] \in {"pending", "processing", "stale", "error"} => Drifted(t)

Inv == TypeOK /\ BriefInv /\ OwnInv /\ VersionInv /\ StoredInv

-----------------------------------------------------------------------------
LEMMA InitInv == Init => Inv /\ ConfInv
<1> SUFFICES ASSUME Init PROVE Inv /\ ConfInv
  OBVIOUS
<1> USE TrackAssumption, BatchAssumption, VersionAssumption DEF Init
<1>1. TypeOK
  <2>1. 1 \in Versions /\ 1 \in Confs /\ 0 \in 0..MaxVersion
    BY DEF Versions, Confs
  <2>2. status \in [Tracks -> Statuses]
    BY DEF Statuses
  <2>3. \A w \in Workers : pc[w] = "idle" /\ job[w] = NoTrack
    OBVIOUS
  <2> QED BY <2>1, <2>2, <2>3 DEF TypeOK
<1>2. BriefInv
  BY DEF BriefInv
<1>3. OwnInv
  BY DEF OwnInv, OneOwner, Active
<1>4. VersionInv
  BY DEF VersionInv
<1>5. StoredInv
  BY DEF StoredInv, ReadyIsStored
<1>6. ConfInv
  BY DEF ConfInv, Drifted
<1> QED BY <1>1, <1>2, <1>3, <1>4, <1>5, <1>6 DEF Inv

(***************************************************************************)
(* Every step keeps the types and what a worker has read by when.          *)
(***************************************************************************)
LEMMA TypeStep == TypeOK /\ BriefInv /\ [Next]_vars => TypeOK' /\ BriefInv'
<1> SUFFICES ASSUME TypeOK, BriefInv, [Next]_vars PROVE TypeOK' /\ BriefInv'
  OBVIOUS
<1> USE TrackAssumption, VersionAssumption
    DEF TypeOK, BriefInv, Versions, Confs, Statuses
<1>1. CASE Start
  BY <1>1 DEF Start, rowVars, fileVars, workVars
<1>2. CASE Reset
  BY <1>2 DEF Reset, Move, fileVars, workVars
<1>3. CASE Ensure
  BY <1>3 DEF Ensure, EnsureRows, Move, fileVars, workVars
<1>4. CASE EnsureEarly
  BY <1>4 DEF EnsureEarly, EnsureRows, Move, fileVars, workVars
<1>5. CASE MarkStale
  BY <1>5 DEF MarkStale, fileVars, workVars
<1>6. CASE Requeue
  BY <1>6 DEF Requeue, Move, fileVars, workVars
<1>7. CASE Begin \/ BeginFails
  BY <1>7 DEF Begin, BeginFails, rowVars, fileVars, workVars
<1>8. ASSUME NEW S \in SUBSET Tracks, Claim(S) \/ ClaimFails(S)
      PROVE TypeOK' /\ BriefInv'
  BY <1>8 DEF Claim, ClaimFails, Move, fileVars, workVars
<1>9. ASSUME NEW t \in Tracks, FeedSend(t)
      PROVE TypeOK' /\ BriefInv'
  BY <1>9 DEF FeedSend, Move, fileVars, workVars
<1>10. CASE FeedCancelled
  BY <1>10 DEF FeedCancelled, Move, fileVars, workVars
<1>11. CASE FeedEnd
  BY <1>11 DEF FeedEnd, rowVars, fileVars, workVars
<1>12. CASE Finish
  BY <1>12 DEF Finish, Move, fileVars, workVars
<1>13. ASSUME NEW w \in Workers, NEW t \in Tracks, Take(w, t)
       PROVE TypeOK' /\ BriefInv'
  BY <1>13 DEF Take, Move, fileVars
<1>14. ASSUME NEW w \in Workers, Brief(w)
       PROVE TypeOK' /\ BriefInv'
  BY <1>14 DEF Brief, rowVars, fileVars, feedVars
<1>15. ASSUME NEW w \in Workers, Extract(w)
       PROVE TypeOK' /\ BriefInv'
  BY <1>15 DEF Extract, rowVars, fileVars, feedVars
<1>16. ASSUME NEW w \in Workers, ExtractFails(w) \/ ExtractCancelled(w)
       PROVE TypeOK' /\ BriefInv'
  BY <1>16 DEF ExtractFails, ExtractCancelled, Move, rowVars, fileVars, feedVars
<1>17. ASSUME NEW w \in Workers, Store(w)
       PROVE TypeOK' /\ BriefInv'
  BY <1>17 DEF Store, rowVars, fileVars, feedVars
<1>18. ASSUME NEW w \in Workers, Ready(w)
       PROVE TypeOK' /\ BriefInv'
  BY <1>18 DEF Ready, Done, fileVars, feedVars
<1>19. ASSUME NEW w \in Workers, Fail(w)
       PROVE TypeOK' /\ BriefInv'
  BY <1>19 DEF Fail, Done, fileVars, feedVars
<1>20. CASE Stop \/ StopFile
  BY <1>20 DEF Stop, StopFile, rowVars, fileVars, feedVars, workVars
<1>21. ASSUME NEW t \in Tracks, Scan(t) \/ \E v \in Versions : Edit(t, v)
       PROVE TypeOK' /\ BriefInv'
  BY <1>21 DEF Scan, Edit, rowVars, feedVars, workVars
<1>22. ASSUME NEW c \in Confs, Restart(c)
       PROVE TypeOK' /\ BriefInv'
  <2>1. /\ conf' = c /\ phase' = "idle" /\ wave' = {} /\ jobs' = {}
        /\ pc' = [w \in Workers |-> "idle"] /\ job' = [w \in Workers |-> NoTrack]
        /\ brief' = [w \in Workers |-> 0] /\ content' = [w \in Workers |-> 0]
        /\ cancelled' = FALSE
        /\ UNCHANGED <<disk, mtime, status, rowConf, rowMtime, vec, lance, file>>
    BY <1>22 DEF Restart, rowVars
  <2>2. \A w \in Workers : pc'[w] = "idle" /\ job'[w] = NoTrack
    BY <2>1
  <2>3. brief' \in [Workers -> 0..MaxVersion] /\ content' \in [Workers -> 0..MaxVersion]
    BY <2>1
  <2> QED BY <2>1, <2>2, <2>3
<1>23. CASE UNCHANGED vars
  BY <1>23 DEF vars, rowVars, fileVars, feedVars, workVars
<1> QED
  BY <1>1, <1>2, <1>3, <1>4, <1>5, <1>6, <1>7, <1>8, <1>9, <1>10, <1>11, <1>12,
     <1>13, <1>14, <1>15, <1>16, <1>17, <1>18, <1>19, <1>20, <1>21, <1>22, <1>23
  DEF Next, RunStep, WorkerStep

(***************************************************************************)
(* Every step keeps ownership in order.  Before a run feeds its workers    *)
(* nobody owns anything; afterwards a track changes hands one at a time.   *)
(***************************************************************************)
LEMMA OwnStep == TypeOK /\ OwnInv /\ [Next]_vars => OwnInv'
<1> SUFFICES ASSUME TypeOK, OwnInv, [Next]_vars PROVE OwnInv'
  OBVIOUS
<1> USE DEF OwnInv, OneOwner, Active
<1>0. /\ wave \subseteq Tracks /\ jobs \subseteq Tracks
      /\ status \in [Tracks -> Statuses]
      /\ job \in [Workers -> Tracks \cup {NoTrack}]
      /\ pc \in [Workers -> {"idle", "brief", "extract", "store", "ready", "fail"}]
      /\ \A w \in Workers : pc[w] # "idle" => job[w] \in Tracks
      /\ cancelled \in BOOLEAN
  BY DEF TypeOK
<1>1. CASE Start \/ Begin \/ BeginFails
  BY <1>1 DEF Start, Begin, BeginFails, rowVars, workVars
<1>2. CASE Reset \/ Ensure \/ MarkStale \/ Requeue
  BY <1>2 DEF Reset, Ensure, EnsureRows, MarkStale, Requeue, workVars
<1>3. CASE EnsureEarly
  <2>1. UNCHANGED <<phase, wave, jobs, workVars, cancelled>>
    BY <1>3 DEF EnsureEarly, EnsureRows
  <2>2. \A t \in Tracks : status[t] # "none" => status'[t] = status[t]
    BY <1>3 DEF EnsureEarly, EnsureRows, Move
  <2> QED BY <1>0, <2>1, <2>2 DEF workVars
<1>4. ASSUME NEW S \in SUBSET Tracks, Claim(S)
      PROVE OwnInv'
  <2>1. /\ phase = "feed" /\ wave = {} /\ ~cancelled /\ wave' = S
        /\ UNCHANGED <<phase, jobs, workVars, cancelled>>
    BY <1>4 DEF Claim, StopSeen
  <2>2. \A t \in S : status[t] = "pending" /\ status'[t] = "processing"
    BY <1>4 DEF Claim, Claimable, Pending, Move
  <2>3. \A t \in Tracks \ S : status'[t] = status[t]
    BY <1>4 DEF Claim, Move
  <2>4. \A w \in Active : status[job[w]] = "processing" /\ job[w] \notin S
    BY <1>0, <2>1, <2>2
  <2> QED BY <1>0, <2>1, <2>2, <2>3, <2>4 DEF workVars
<1>5. ASSUME NEW S \in SUBSET Tracks, ClaimFails(S)
      PROVE OwnInv'
  <2>1. /\ phase = "feed" /\ phase' = "drain" /\ wave = {}
        /\ UNCHANGED <<wave, jobs, workVars, cancelled>>
    BY <1>5 DEF ClaimFails
  <2>2. \A t \in Tracks : status[t] # "pending" => status'[t] = status[t]
    BY <1>0, <1>5 DEF ClaimFails, Move
  <2>3. \A w \in Active : status[job[w]] = "processing" \/ cancelled
    BY <1>0
  <2>4. ~cancelled
    BY <1>5 DEF ClaimFails, StopSeen
  <2> QED BY <1>0, <2>1, <2>2, <2>3, <2>4 DEF workVars
<1>6. ASSUME NEW t \in Tracks, FeedSend(t)
      PROVE OwnInv'
  <2>1. /\ phase = "feed" /\ t \in wave /\ jobs' = jobs \cup {t}
        /\ UNCHANGED <<workVars, cancelled>>
        /\ phase' \in {"feed", "drain"}
        /\ phase' = "drain" => wave' = {}
        /\ wave' \subseteq wave \ {t}
    BY <1>6 DEF FeedSend
  <2>2. \A u \in Tracks : u \notin wave \ {t} => status'[u] = status[u]
    BY <1>0, <1>6 DEF FeedSend, Move
  <2>3. \A u \in wave' : status'[u] = status[u]
    BY <1>0, <1>6 DEF FeedSend
  <2> QED BY <1>0, <2>1, <2>2, <2>3 DEF workVars
<1>7. CASE FeedCancelled
  <2>1. /\ phase = "feed" /\ phase' = "drain" /\ wave' = {}
        /\ UNCHANGED <<jobs, workVars, cancelled>>
    BY <1>7 DEF FeedCancelled
  <2>2. \A u \in Tracks : u \notin wave => status'[u] = status[u]
    BY <1>0, <1>7 DEF FeedCancelled, Move
  <2> QED BY <1>0, <2>1, <2>2 DEF workVars
<1>8. CASE FeedEnd
  BY <1>8 DEF FeedEnd, rowVars, workVars
<1>9. CASE Finish
  BY <1>9 DEF Finish, workVars
<1>10. ASSUME NEW w \in Workers, NEW t \in Tracks, Take(w, t)
       PROVE OwnInv'
  <2>1. /\ t \in jobs /\ jobs' = jobs \ {t} /\ pc[w] = "idle"
        /\ UNCHANGED <<phase, wave, cancelled>>
        /\ phase \in {"feed", "drain"}
    BY <1>10 DEF Take
  <2>2. CASE StopSeen
    <3>1. UNCHANGED <<pc, job>>
      BY <1>10, <2>2 DEF Take
    <3>2. \A u \in Tracks : u # t => status'[u] = status[u]
      BY <1>0, <1>10, <2>2 DEF Take, Move
    <3> QED BY <1>0, <2>1, <3>1, <3>2
  <2>3. CASE ~StopSeen
    <3>1. /\ pc' = [pc EXCEPT ![w] = "brief"]
          /\ job' = [job EXCEPT ![w] = t]
          /\ UNCHANGED status
      BY <1>10, <2>3 DEF Take
    <3> QED BY <1>0, <2>1, <3>1
  <2> QED BY <2>2, <2>3
<1>11. ASSUME NEW w \in Workers,
              Brief(w) \/ Extract(w) \/ ExtractFails(w) \/ Store(w)
       PROVE OwnInv'
  <2>1. /\ pc[w] \in {"brief", "extract", "store"}
        /\ \E s \in {"extract", "store", "ready", "fail"} : pc' = [pc EXCEPT ![w] = s]
        /\ UNCHANGED <<job, status, phase, wave, jobs, cancelled>>
    BY <1>11 DEF Brief, Extract, ExtractFails, Store, rowVars, feedVars
  <2> QED BY <1>0, <2>1
<1>12. ASSUME NEW w \in Workers, ExtractCancelled(w)
       PROVE OwnInv'
  <2>1. /\ pc[w] = "extract" /\ pc' = [pc EXCEPT ![w] = "fail"] /\ cancelled
        /\ UNCHANGED <<job, phase, wave, jobs, cancelled>>
    BY <1>12 DEF ExtractCancelled, feedVars
  <2>2. \A u \in Tracks : u # job[w] => status'[u] = status[u]
    BY <1>0, <1>12 DEF ExtractCancelled, Move
  <2>3. status[job[w]] = "processing" /\ status'[job[w]] = "pending"
    BY <1>0, <2>1, <1>12 DEF ExtractCancelled, Move
  <2> QED BY <1>0, <2>1, <2>2, <2>3
<1>13. ASSUME NEW w \in Workers, Ready(w) \/ Fail(w)
       PROVE OwnInv'
  <2>1. /\ pc[w] \in {"ready", "fail"}
        /\ pc' = [pc EXCEPT ![w] = "idle"] /\ job' = [job EXCEPT ![w] = NoTrack]
        /\ UNCHANGED <<phase, wave, jobs, cancelled>>
    BY <1>13 DEF Ready, Fail, Done, feedVars
  <2>2. \A u \in Tracks : u # job[w] => status'[u] = status[u]
    BY <1>0, <1>13 DEF Ready, Fail
  <2> QED BY <1>0, <2>1, <2>2
<1>14. CASE Stop \/ StopFile
  BY <1>0, <1>14 DEF Stop, StopFile, rowVars, feedVars, workVars
<1>15. ASSUME NEW t \in Tracks, Scan(t) \/ \E v \in Versions : Edit(t, v)
       PROVE OwnInv'
  BY <1>15 DEF Scan, Edit, rowVars, feedVars, workVars
<1>16. ASSUME NEW c \in Confs, Restart(c)
       PROVE OwnInv'
  <2>1. /\ phase' = "idle" /\ wave' = {} /\ jobs' = {}
        /\ \A w \in Workers : pc'[w] = "idle"
    BY <1>16 DEF Restart
  <2> QED BY <2>1
<1>17. CASE UNCHANGED vars
  BY <1>17 DEF vars, rowVars, feedVars, workVars
<1> QED
  BY <1>1, <1>2, <1>3, <1>4, <1>5, <1>6, <1>7, <1>8, <1>9, <1>10, <1>11, <1>12,
     <1>13, <1>14, <1>15, <1>16, <1>17, VersionAssumption
  DEF Next, RunStep, WorkerStep

(***************************************************************************)
(* Every step keeps the order in which versions are read: the scan sees no *)
(* version newer than the file, the worker reads the mtime before it reads *)
(* the file, and files only move on.                                       *)
(***************************************************************************)
LEMMA VersionStep ==
  TypeOK /\ OwnInv /\ VersionInv /\ [Next]_vars => VersionInv'
<1> SUFFICES ASSUME TypeOK, OwnInv, VersionInv, [Next]_vars PROVE VersionInv'
  OBVIOUS
<1> USE DEF VersionInv
<1>0. /\ disk \in [Tracks -> Nat] /\ mtime \in [Tracks -> Nat]
      /\ rowMtime \in [Tracks -> Nat] /\ vec \in [Tracks -> Nat]
      /\ brief \in [Workers -> Nat] /\ content \in [Workers -> Nat]
      /\ job \in [Workers -> Tracks \cup {NoTrack}]
      /\ pc \in [Workers -> {"idle", "brief", "extract", "store", "ready", "fail"}]
      /\ \A w \in Workers : pc[w] # "idle" => job[w] \in Tracks
  BY VersionAssumption DEF TypeOK, Versions
<1>1. CASE Start \/ Begin \/ BeginFails
  BY <1>1 DEF Start, Begin, BeginFails, rowVars, fileVars, workVars
<1>2. CASE Reset \/ Ensure \/ EnsureEarly \/ MarkStale \/ Requeue
  BY <1>2 DEF Reset, Ensure, EnsureEarly, EnsureRows, MarkStale, Requeue,
              fileVars, workVars
<1>3. ASSUME NEW S \in SUBSET Tracks, Claim(S) \/ ClaimFails(S)
      PROVE VersionInv'
  BY <1>3 DEF Claim, ClaimFails, fileVars, workVars
<1>4. ASSUME NEW t \in Tracks, FeedSend(t)
      PROVE VersionInv'
  BY <1>4 DEF FeedSend, fileVars, workVars
<1>5. CASE FeedCancelled \/ FeedEnd \/ Finish
  BY <1>5 DEF FeedCancelled, FeedEnd, Finish, rowVars, fileVars, workVars
<1>6. ASSUME NEW w \in Workers, NEW t \in Tracks, Take(w, t)
      PROVE VersionInv'
  BY <1>0, <1>6 DEF Take, fileVars
<1>7. ASSUME NEW w \in Workers, Brief(w)
      PROVE VersionInv'
  BY <1>0, <1>7 DEF Brief, rowVars, fileVars, feedVars
<1>8. ASSUME NEW w \in Workers, Extract(w)
      PROVE VersionInv'
  BY <1>0, <1>8 DEF Extract, rowVars, fileVars, feedVars
<1>9. ASSUME NEW w \in Workers, ExtractFails(w) \/ ExtractCancelled(w) \/ Store(w)
      PROVE VersionInv'
  BY <1>0, <1>9 DEF ExtractFails, ExtractCancelled, Store, rowVars, fileVars,
                    feedVars
<1>10. ASSUME NEW w \in Workers, Ready(w)
       PROVE VersionInv'
  BY <1>0, <1>10 DEF Ready, Done, fileVars
<1>11. ASSUME NEW w \in Workers, Fail(w)
       PROVE VersionInv'
  BY <1>0, <1>11 DEF Fail, Done, fileVars
<1>12. CASE Stop \/ StopFile
  BY <1>12 DEF Stop, StopFile, rowVars, fileVars, workVars
<1>13. ASSUME NEW t \in Tracks, Scan(t)
       PROVE VersionInv'
  BY <1>0, <1>13 DEF Scan, rowVars, workVars
<1>14. ASSUME NEW t \in Tracks, NEW v \in Versions, Edit(t, v)
       PROVE VersionInv'
  <2>1. v \in Nat
    BY VersionAssumption DEF Versions
  <2>2. \A u \in Tracks : disk'[u] \in Nat /\ disk[u] <= disk'[u]
    BY <1>0, <1>14, <2>1 DEF Edit
  <2>3. UNCHANGED <<mtime, rowMtime, vec, workVars>>
    BY <1>14 DEF Edit, rowVars
  <2> QED BY <1>0, <2>2, <2>3 DEF workVars
<1>15. ASSUME NEW c \in Confs, Restart(c)
       PROVE VersionInv'
  <2>1. UNCHANGED <<disk, mtime, rowMtime, vec>>
    BY <1>15 DEF Restart, rowVars
  <2>2. \A w \in Workers : pc'[w] = "idle"
    BY <1>15 DEF Restart
  <2> QED BY <2>1, <2>2
<1>16. CASE UNCHANGED vars
  BY <1>16 DEF vars, rowVars, fileVars, workVars
<1> QED
  BY <1>1, <1>2, <1>3, <1>4, <1>5, <1>6, <1>7, <1>8, <1>9, <1>10, <1>11, <1>12,
     <1>13, <1>14, <1>15, <1>16, VersionAssumption
  DEF Next, RunStep, WorkerStep

(***************************************************************************)
(* Every step keeps ready tracks stored: the Lance row of a track is only  *)
(* written by its owner, and while it has one the track is not ready.      *)
(***************************************************************************)
LEMMA StoredStep ==
  TypeOK /\ BriefInv /\ OwnInv /\ StoredInv /\ [Next]_vars => StoredInv'
<1> SUFFICES ASSUME TypeOK, BriefInv, OwnInv, StoredInv, [Next]_vars
             PROVE StoredInv'
  OBVIOUS
<1> USE DEF StoredInv, ReadyIsStored
<1>0. /\ status \in [Tracks -> Statuses]
      /\ vec \in [Tracks -> Nat] /\ lance \in [Tracks -> Nat]
      /\ content \in [Workers -> Nat]
      /\ job \in [Workers -> Tracks \cup {NoTrack}]
      /\ pc \in [Workers -> {"idle", "brief", "extract", "store", "ready", "fail"}]
      /\ \A w \in Workers : pc[w] # "idle" => job[w] \in Tracks
  BY VersionAssumption DEF TypeOK
<1>1. CASE Start \/ Begin \/ BeginFails
  BY <1>1 DEF Start, Begin, BeginFails, rowVars, workVars
<1>2. CASE Reset \/ Ensure \/ EnsureEarly \/ MarkStale \/ Requeue
  BY <1>2 DEF Reset, Ensure, EnsureEarly, EnsureRows, MarkStale, Requeue, Move,
              workVars
<1>3. ASSUME NEW S \in SUBSET Tracks, Claim(S) \/ ClaimFails(S)
      PROVE StoredInv'
  BY <1>3 DEF Claim, ClaimFails, Move, workVars
<1>4. ASSUME NEW t \in Tracks, FeedSend(t)
      PROVE StoredInv'
  BY <1>4 DEF FeedSend, Move, workVars
<1>5. CASE FeedCancelled \/ FeedEnd \/ Finish
  BY <1>5 DEF FeedCancelled, FeedEnd, Finish, Move, rowVars, workVars
<1>6. ASSUME NEW w \in Workers, NEW t \in Tracks, Take(w, t)
      PROVE StoredInv'
  BY <1>0, <1>6 DEF Take, Move
<1>7. ASSUME NEW w \in Workers,
             Brief(w) \/ Extract(w) \/ ExtractFails(w) \/ ExtractCancelled(w)
      PROVE StoredInv'
  BY <1>0, <1>7 DEF Brief, Extract, ExtractFails, ExtractCancelled, Move, rowVars
<1>8. ASSUME NEW w \in Workers, Store(w)
      PROVE StoredInv'
  <2>1. /\ pc[w] = "store" /\ UNCHANGED <<status, vec, job, content>>
        /\ \/ /\ pc' = [pc EXCEPT ![w] = "ready"]
              /\ lance' = [lance EXCEPT ![job[w]] = content[w]]
           \/ pc' = [pc EXCEPT ![w] = "fail"]
        /\ \A t \in Tracks : t # job[w] => lance'[t] = lance[t]
    BY <1>0, <1>8 DEF Store, rowVars
  <2>2. status[job[w]] = "processing" /\ job[w] \in Tracks
    BY <1>0, <2>1 DEF OwnInv, Active
  <2>3. \A u \in Workers : pc[u] = "ready" => job[u] # job[w]
    BY <1>0, <2>1 DEF OwnInv, OneOwner, Active
  <2> QED BY <1>0, <2>1, <2>2, <2>3
<1>9. ASSUME NEW w \in Workers, Ready(w)
      PROVE StoredInv'
  <2>1. lance[job[w]] = content[w] /\ content[w] > 0 /\ job[w] \in Tracks
    BY <1>0, <1>9 DEF Ready, BriefInv
  <2>2. /\ status' = [status EXCEPT ![job[w]] = "ready"]
        /\ vec' = [vec EXCEPT ![job[w]] = content[w]]
        /\ pc' = [pc EXCEPT ![w] = "idle"] /\ job' = [job EXCEPT ![w] = NoTrack]
        /\ content' = [content EXCEPT ![w] = 0] /\ UNCHANGED lance
    BY <1>9 DEF Ready, Done
  <2> QED BY <1>0, <2>1, <2>2
<1>10. ASSUME NEW w \in Workers, Fail(w)
       PROVE StoredInv'
  BY <1>0, <1>10 DEF Fail, Done
<1>11. CASE Stop \/ StopFile
  BY <1>11 DEF Stop, StopFile, rowVars, workVars
<1>12. ASSUME NEW t \in Tracks, Scan(t) \/ \E v \in Versions : Edit(t, v)
       PROVE StoredInv'
  BY <1>12 DEF Scan, Edit, rowVars, workVars
<1>13. ASSUME NEW c \in Confs, Restart(c)
       PROVE StoredInv'
  BY <1>13 DEF Restart, rowVars
<1>14. CASE UNCHANGED vars
  BY <1>14 DEF vars, rowVars, workVars
<1> QED
  BY <1>1, <1>2, <1>3, <1>4, <1>5, <1>6, <1>7, <1>8, <1>9, <1>10, <1>11, <1>12,
     <1>13, <1>14, VersionAssumption
  DEF Next, RunStep, WorkerStep

(***************************************************************************)
(* As long as the settings only move on, a row that has drifted stays so   *)
(* until a success records what it was computed from.                      *)
(***************************************************************************)
LEMMA DriftStep ==
  ASSUME TypeOK, OwnInv, VersionInv, ConfInv, ~Reverts, [Next]_vars
  PROVE  ConfInv'
<1> USE DEF ConfInv, Drifted
<1>0. /\ mtime \in [Tracks -> Nat] /\ rowMtime \in [Tracks -> Nat]
      /\ conf \in Nat /\ rowConf \in [Tracks -> Nat]
      /\ status \in [Tracks -> Statuses]
      /\ job \in [Workers -> Tracks \cup {NoTrack}]
      /\ \A w \in Workers : pc[w] # "idle" => job[w] \in Tracks
      /\ \A t \in Tracks : rowMtime[t] <= mtime[t]
  BY VersionAssumption DEF TypeOK, Versions, Confs, VersionInv
<1>1. CASE Start \/ Begin \/ BeginFails
  BY <1>1 DEF Start, Begin, BeginFails, rowVars, fileVars
<1>2. CASE Reset \/ Requeue
  BY <1>0, <1>2 DEF Reset, Requeue, Move, fileVars
<1>3. CASE Ensure \/ EnsureEarly
  BY <1>0, <1>3 DEF Ensure, EnsureEarly, EnsureRows, Move, fileVars
<1>4. CASE MarkStale
  BY <1>0, <1>4 DEF MarkStale, fileVars
<1>5. ASSUME NEW S \in SUBSET Tracks, Claim(S) \/ ClaimFails(S)
      PROVE ConfInv'
  BY <1>0, <1>5 DEF Claim, ClaimFails, Move, fileVars
<1>6. ASSUME NEW t \in Tracks, FeedSend(t)
      PROVE ConfInv'
  BY <1>0, <1>6 DEF FeedSend, Move, fileVars
<1>7. CASE FeedCancelled \/ FeedEnd \/ Finish
  BY <1>0, <1>7 DEF FeedCancelled, FeedEnd, Finish, Move, rowVars, fileVars
<1>8. ASSUME NEW w \in Workers, NEW t \in Tracks, Take(w, t)
      PROVE ConfInv'
  BY <1>0, <1>8 DEF Take, Move, fileVars
<1>9. ASSUME NEW w \in Workers,
             Brief(w) \/ Extract(w) \/ ExtractFails(w) \/ Store(w)
      PROVE ConfInv'
  BY <1>9 DEF Brief, Extract, ExtractFails, Store, rowVars, fileVars
<1>10. ASSUME NEW w \in Workers, ExtractCancelled(w)
       PROVE ConfInv'
  BY <1>0, <1>10 DEF ExtractCancelled, Move, fileVars
<1>11. ASSUME NEW w \in Workers, Ready(w)
       PROVE ConfInv'
  BY <1>0, <1>11 DEF Ready, Done, fileVars
<1>12. ASSUME NEW w \in Workers, Fail(w)
       PROVE ConfInv'
  <2>1. /\ status[job[w]] \in {"processing", "pending"} /\ job[w] \in Tracks
        /\ status' = [status EXCEPT ![job[w]] = "error"]
        /\ UNCHANGED <<rowConf, rowMtime, conf, mtime>>
    BY <1>0, <1>12 DEF Fail, Done, fileVars, OwnInv, Active
  <2> QED BY <1>0, <2>1
<1>13. CASE Stop \/ StopFile
  BY <1>13 DEF Stop, StopFile, rowVars, fileVars
<1>14. ASSUME NEW t \in Tracks, Scan(t)
       PROVE ConfInv'
  <2>1. disk[t] \in Nat /\ mtime[t] <= disk[t]
    BY VersionAssumption DEF TypeOK, Versions, VersionInv
  <2> QED BY <1>0, <1>14, <2>1 DEF Scan, rowVars
<1>15. ASSUME NEW t \in Tracks, NEW v \in Versions, Edit(t, v)
       PROVE ConfInv'
  BY <1>15 DEF Edit, rowVars
<1>16. ASSUME NEW c \in Confs, Restart(c)
       PROVE ConfInv'
  <2>1. c \in Nat /\ conf <= c /\ conf' = c /\ UNCHANGED <<rowVars, mtime>>
    BY <1>0, <1>16, VersionAssumption DEF Restart, Confs
  <2> QED BY <1>0, <2>1 DEF rowVars
<1>17. CASE UNCHANGED vars
  BY <1>17 DEF vars, rowVars, fileVars
<1> QED
  BY <1>1, <1>2, <1>3, <1>4, <1>5, <1>6, <1>7, <1>8, <1>9, <1>10, <1>11, <1>12,
     <1>13, <1>14, <1>15, <1>16, <1>17, VersionAssumption
  DEF Next, RunStep, WorkerStep

(***************************************************************************)
(* What moves a row from processing to pending does not touch a row that   *)
(* a worker holds, but for that worker's own cancellation.                 *)
(***************************************************************************)
LEMMA ResetStep ==
  ASSUME TypeOK, OwnInv, [Next]_vars,
         NEW w \in Active,
         status[job[w]] = "processing", status'[job[w]] = "pending"
  PROVE  cancelled /\ pc[w] = "extract"
<1>0. /\ status \in [Tracks -> Statuses]
      /\ pc[w] # "idle" /\ w \in Workers /\ job[w] \in Tracks
      /\ job[w] \notin wave \cup jobs
      /\ phase \in {"feed", "drain"}
  BY DEF TypeOK, OwnInv, OneOwner, Active
<1>1. CASE \/ Start \/ EnsureEarly \/ Stop \/ StopFile \/ UNCHANGED vars
           \/ \E t \in Tracks : Scan(t) \/ \E v \in Versions : Edit(t, v)
           \/ \E c \in Confs : Restart(c)
  BY <1>0, <1>1 DEF Start, EnsureEarly, EnsureRows, Move, Stop, StopFile, Scan,
                    Edit, Restart, rowVars, vars
<1>2. CASE Reset \/ Ensure \/ MarkStale \/ Requeue \/ Begin \/ BeginFails
  BY <1>0, <1>2 DEF Reset, Ensure, MarkStale, Requeue, Begin, BeginFails
<1>3. CASE \E S \in SUBSET Tracks : Claim(S) \/ ClaimFails(S)
  BY <1>0, <1>3 DEF Claim, ClaimFails, Move
<1>4. CASE (\E t \in Tracks : FeedSend(t)) \/ FeedCancelled \/ FeedEnd \/ Finish
  BY <1>0, <1>4 DEF FeedSend, FeedCancelled, FeedEnd, Finish, Move, rowVars
<1>5. CASE \E v \in Workers, t \in Tracks : Take(v, t)
  BY <1>0, <1>5 DEF Take, Move
<1>6. CASE \E v \in Workers : \/ Brief(v) \/ Extract(v) \/ ExtractFails(v)
                             \/ Store(v) \/ Ready(v) \/ Fail(v)
  BY <1>0, <1>6 DEF Brief, Extract, ExtractFails, Store, Ready, Fail, rowVars
<1>7. ASSUME NEW v \in Workers, ExtractCancelled(v)
      PROVE  cancelled /\ pc[w] = "extract"
  <2>1. cancelled /\ pc[v] = "extract" /\ v \in Active
    BY <1>7 DEF ExtractCancelled, Active
  <2>2. job[v] = job[w]
    BY <1>0, <1>7 DEF ExtractCancelled, Move
  <2> QED BY <2>1, <2>2 DEF OwnInv, OneOwner
<1> QED
  BY <1>1, <1>2, <1>3, <1>4, <1>5, <1>6, <1>7, VersionAssumption
  DEF Next, RunStep, WorkerStep

-----------------------------------------------------------------------------
LEMMA Invariance == Spec => []Inv
<1>1. Init => Inv
  BY InitInv
<1>2. Inv /\ [Next]_vars => Inv'
  BY TypeStep, OwnStep, VersionStep, StoredStep DEF Inv
<1> QED BY <1>1, <1>2, PTL DEF Spec

(***************************************************************************)
(* Types, for any number of tracks, workers, versions and settings.        *)
(***************************************************************************)
THEOREM JobTypeCorrect == Spec => []TypeOK
<1>1. Inv => TypeOK
  BY DEF Inv
<1> QED BY <1>1, Invariance, PTL

(***************************************************************************)
(* No two workers ever hold the same track, nor a worker and the feeder,   *)
(* whatever stops, failed claims and restarts come (job.go 437-508).       *)
(***************************************************************************)
THEOREM ClaimsAreExclusive == Spec => []OneOwner
<1>1. Inv => OneOwner
  BY DEF Inv, OwnInv
<1> QED BY <1>1, Invariance, PTL

(***************************************************************************)
(* processTrack stores before it marks: a track that counts as embedded    *)
(* is in the LanceDB table, at whatever step the process was killed.       *)
(***************************************************************************)
THEOREM EmbeddedIsStored == Spec => []ReadyIsStored
<1>1. Inv => ReadyIsStored
  BY DEF Inv, StoredInv
<1> QED BY <1>1, Invariance, PTL

(***************************************************************************)
(* processTrack reads the mtime before the file: a vector of an older      *)
(* content never carries the mtime of the present file.                    *)
(***************************************************************************)
THEOREM EditsAreSeen == Spec => []DriftIsSeen
<1>1. Inv => DriftIsSeen
  <2> SUFFICES ASSUME Inv, NEW t \in Tracks, rowMtime[t] = disk[t]
               PROVE  vec[t] = disk[t]
    BY DEF DriftIsSeen
  <2>1. vec[t] \in Nat /\ disk[t] \in Nat
    BY VersionAssumption DEF Inv, TypeOK, Versions
  <2> QED BY <2>1 DEF Inv, VersionInv
<1> QED BY <1>1, Invariance, PTL

(***************************************************************************)
(* As long as the settings do not go back, MarkStaleByConfig finds every   *)
(* failed track, so the next run works on it again.                        *)
(***************************************************************************)
THEOREM FailedIsRetried == ASSUME ~Reverts PROVE Spec => []ErrorsRetried
<1>1. Init => Inv /\ ConfInv
  BY InitInv
<1>2. Inv /\ ConfInv /\ [Next]_vars => (Inv /\ ConfInv)'
  BY TypeStep, OwnStep, VersionStep, StoredStep, DriftStep DEF Inv
<1>3. Inv /\ ConfInv => ErrorsRetried
  BY DEF ConfInv, ErrorsRetried
<1> QED BY <1>1, <1>2, <1>3, PTL DEF Spec

(***************************************************************************)
(* ResetStuckProcessing and the releases only return abandoned rows.       *)
(***************************************************************************)
THEOREM HeldIsNotReset == Spec => ResetsAbandoned
<1>1. Inv /\ [Next]_vars =>
        [\A w \in Active : status[job[w]] = "processing" /\ status'[job[w]] = "pending"
           => cancelled /\ pc[w] = "extract"]_vars
  BY ResetStep DEF Inv
<1> QED BY <1>1, Invariance, PTL DEF Spec, ResetsAbandoned

=============================================================================
