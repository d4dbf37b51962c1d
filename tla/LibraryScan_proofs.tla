------------------------ MODULE LibraryScan_proofs ------------------------
(***************************************************************************)
(* Proofs about LibraryScan, for any set of files and any batch size: type *)
(* correctness, that a scan that ends has reconciled what nobody else      *)
(* touched, and that a row never claims a version newer than its tags.     *)
(***************************************************************************)
EXTENDS LibraryScan, TLAPS

(***************************************************************************)
(* What a running scan knows of a file that nobody else touched: the       *)
(* watcher does not hold it; until the scan has dealt with it, it has not  *)
(* been seen and its row is as it was listed; what a worker found is what  *)
(* is there; once dealt with, it is either gone and unseen or seen and in  *)
(* sync; and it is only marked if it is gone.                              *)
(***************************************************************************)
FileInv(f) ==
  /\ f # wfile
  /\ stage[f] # "out" => f \notin seen
  /\ stage[f] # "out" /\ known[f] # 0 => Unchanged(f, known[f])
  /\ stage[f] \in {"job", "read", "write"} => disk[f] # 0
  /\ stage[f] \in {"read", "write"} => inMtime[f] = disk[f]
  /\ stage[f] = "out" => IF disk[f] = 0 THEN f \notin seen
                         ELSE f \in seen /\ Unchanged(f, disk[f])
  /\ phase = "mark" => IF f \in toMark THEN disk[f] = 0 ELSE Synced(f)

ScanInv == phase # "idle" => \A f \in Files \ disturbed : FileInv(f)

(***************************************************************************)
(* Versions only grow, and an mtime is looked up before the tags are read. *)
(***************************************************************************)
Tagged(m, t, l) == m <= l /\ t <= l /\ (t = 0 \/ m <= t)

FileTags(f) ==
  /\ disk[f] \in {0, latest[f]}
  /\ Tagged(rowMtime[f], rowTags[f], latest[f])
  /\ rowMtime[f] = 0 => rowTags[f] = 0
  /\ stage[f] = "read" => inMtime[f] # 0 /\ inMtime[f] <= latest[f]
  /\ stage[f] = "write" =>
       inMtime[f] # 0 /\ Tagged(inMtime[f], inTags[f], latest[f])

WatchTags ==
  /\ wpc = "read" => wMtime # 0 /\ wMtime <= latest[wfile]
  /\ wpc = "upsert" => wMtime # 0 /\ Tagged(wMtime, wTags, latest[wfile])

TagInv == (\A f \in Files : FileTags(f)) /\ WatchTags

Inv == TypeOK /\ ScanInv /\ TagInv

-----------------------------------------------------------------------------
LEMMA InitInv == Init => Inv
<1> SUFFICES ASSUME Init PROVE Inv
  OBVIOUS
<1> USE FileAssumption, ScanBoundAssumption DEF Init
<1>1. disk \in [Files -> Nat] /\ \A f \in Files : disk[f] \in {0, 1}
  OBVIOUS
<1>2. TypeOK
  BY <1>1 DEF TypeOK
<1>3. ScanInv
  BY DEF ScanInv
<1>4. TagInv
  BY <1>1 DEF TagInv, FileTags, WatchTags, Tagged
<1> QED BY <1>2, <1>3, <1>4 DEF Inv

LEMMA EventFacts ==
  ASSUME TypeOK, events # <<>>
  PROVE  Event.file \in Files /\ Tail(events) \in Seq(FileEvents)
<1>1. Event \in FileEvents /\ Tail(events) \in Seq(FileEvents)
  BY DEF TypeOK, Event
<1> QED BY <1>1 DEF FileEvents

(***************************************************************************)
(* Every step keeps the types.                                             *)
(***************************************************************************)
LEMMA TypeStep == TypeOK /\ [Next]_vars => TypeOK'
<1> SUFFICES ASSUME TypeOK, [Next]_vars PROVE TypeOK'
  OBVIOUS
<1> USE FileAssumption, ScanBoundAssumption DEF TypeOK
<1>1. ASSUME NEW force \in BOOLEAN, Start(force)
      PROVE TypeOK'
  BY <1>1 DEF Start, diskVars, rowVars, watchVars, counters
<1>2. ASSUME NEW f \in Files, Visit(f)
      PROVE TypeOK'
  BY <1>2 DEF Visit, diskVars, rowVars, watchVars, counters
<1>3. ASSUME NEW S \in SUBSET Files, VisitFails(S)
      PROVE TypeOK'
  BY <1>3 DEF VisitFails, Fail, Fault, Disturb, diskVars, rowVars, watchVars
<1>4. ASSUME NEW f \in Files, Stat(f)
      PROVE TypeOK'
  BY <1>4 DEF Stat, diskVars, rowVars, watchVars, counters
<1>5. ASSUME NEW f \in Files, Read(f)
      PROVE TypeOK'
  BY <1>5 DEF Read, diskVars, rowVars, watchVars, counters
<1>6. ASSUME NEW S \in SUBSET Files, Flush(S)
      PROVE TypeOK'
  BY <1>6 DEF Flush, Batches, Upsert, Leave, diskVars, watchVars, counters
<1>7. ASSUME NEW S \in SUBSET Files, NEW T \in SUBSET S, FlushFails(S, T)
      PROVE TypeOK'
  <2>1. /\ S \ T \subseteq Files /\ T \subseteq Files
        /\ \A f \in S : stage[f] = "write"
        /\ S # {}
    BY <1>7 DEF FlushFails, Batches, Writes
  <2>2. /\ rowMtime' \in [Files -> Nat] /\ rowTags' \in [Files -> Nat]
        /\ missing' \in [Files -> BOOLEAN]
    BY <1>7 DEF FlushFails, Upsert
  <2>3. /\ stage' \in [Files -> {"out", "ahead", "job", "read", "write"}]
        /\ inMtime' \in [Files -> Nat] /\ inTags' \in [Files -> Nat]
        /\ seen' \subseteq Files
    BY <1>7, <2>1 DEF FlushFails, Leave
  <2>4. /\ faults' \in 0..MaxFaults /\ disturbed' \subseteq Files
        /\ phase = "walk" /\ UNCHANGED <<phase, changes>>
    BY <1>7, <2>1 DEF FlushFails, Fail, Fault, Disturb
  <2> QED
    BY <1>7, <2>2, <2>3, <2>4 DEF FlushFails, diskVars, watchVars
<1>8. CASE Select
  BY <1>8 DEF Select, Catalogued, diskVars, rowVars, pipeVars, watchVars, counters
<1>9. ASSUME NEW f \in Files, Mark(f)
      PROVE TypeOK'
  BY <1>9 DEF Mark, diskVars, pipeVars, watchVars, counters
<1>10. CASE Finish
  BY <1>10 DEF Finish, Return, diskVars, rowVars, watchVars, counters
<1>11. CASE MarkFails
  BY <1>11 DEF MarkFails, Fault, Return, diskVars, rowVars, watchVars
<1>12. CASE WatchWrite
  <2>1. Event.file \in Files /\ events' \in Seq(FileEvents)
    BY <1>12, EventFacts DEF WatchWrite, Event
  <2> QED
    BY <1>12, <2>1 DEF WatchWrite, diskVars, rowVars, pipeVars, counters
<1>13. CASE WatchRemove
  <2>1. Event.file \in Files /\ events' \in Seq(FileEvents)
    BY <1>13, EventFacts DEF WatchRemove, Event
  <2>2. missing' \in [Files -> BOOLEAN]
    BY <1>13, <2>1 DEF WatchRemove
  <2>3. disturbed' \subseteq Files /\ (phase = "idle" => disturbed' = {})
    BY <1>13, <2>1 DEF WatchRemove, Disturb
  <2> QED
    BY <1>13, <2>1, <2>2, <2>3 DEF WatchRemove, diskVars, pipeVars, counters
<1>14. ASSUME NEW f \in Files, WatchStat(f)
       PROVE TypeOK'
  BY <1>14 DEF WatchStat, Disturb, diskVars, rowVars, pipeVars, counters
<1>15. CASE WatchCheck \/ WatchExtract \/ WatchRead
  <2>1. UNCHANGED <<diskVars, rowVars, phase, pipeVars, seen, toMark, events,
                    debounce, disturbed, counters>>
    BY <1>15 DEF WatchCheck, WatchExtract, WatchRead
  <2>2. wfile \in Files /\ disk[wfile] \in Nat
    BY <1>15 DEF WatchCheck, WatchExtract, WatchRead
  <2>3. /\ wpc' \in {"idle", "check", "extract", "read", "upsert"}
        /\ wfile' \in Files \cup {NoFile} /\ wMtime' \in Nat /\ wTags' \in Nat
        /\ wpc' = "idle" <=> wfile' = NoFile
    <3>1. CASE WatchCheck
      BY <2>2, <3>1 DEF WatchCheck, WatchIdle
    <3>2. CASE WatchExtract
      BY <2>2, <3>2 DEF WatchExtract, WatchIdle
    <3>3. CASE WatchRead
      BY <2>2, <3>3 DEF WatchRead
    <3> QED BY <1>15, <3>1, <3>2, <3>3
  <2> QED BY <2>1, <2>3 DEF diskVars, rowVars, pipeVars, counters
<1>16. CASE WatchUpsert
  BY <1>16 DEF WatchUpsert, Upsert, WatchIdle, diskVars, pipeVars, counters
<1>17. CASE WatchFails
  BY <1>17 DEF WatchFails, WatchIdle, Fail, Fault, Disturb, diskVars, rowVars, pipeVars
<1>18. ASSUME NEW f \in Files, NEW heard \in BOOLEAN,
              NEW v \in {0, latest[f], latest[f] + 1}, Change(f, v, heard)
       PROVE TypeOK'
  <2>1. v \in Nat
    OBVIOUS
  <2>2. events' \in Seq(FileEvents)
    <3> DEFINE e == [file |-> f, op |-> IF v = 0 THEN "remove" ELSE "write"]
    <3>1. e \in FileEvents
      BY DEF FileEvents
    <3>2. events' = IF heard THEN Append(events, e) ELSE events
      BY <1>18 DEF Change
    <3> HIDE DEF e
    <3> QED BY <3>1, <3>2
  <2>3. disk' \in [Files -> Nat] /\ latest' \in [Files -> Nat]
    BY <1>18, <2>1 DEF Change
  <2>4. disturbed' \subseteq Files /\ (phase = "idle" => disturbed' = {})
    BY <1>18 DEF Change, Disturb
  <2> QED BY <1>18, <2>2, <2>3, <2>4 DEF Change, rowVars, pipeVars
<1>19. CASE Restart
  BY <1>19 DEF Restart, Fault, Return, WatchIdle, diskVars, rowVars
<1>20. CASE UNCHANGED vars
  BY <1>20 DEF vars, diskVars, rowVars, pipeVars, watchVars, counters
<1> QED
  BY <1>1, <1>2, <1>3, <1>4, <1>5, <1>6, <1>7, <1>8, <1>9, <1>10, <1>11, <1>12,
     <1>13, <1>14, <1>15, <1>16, <1>17, <1>18, <1>19, <1>20
  DEF Next, ScanStep, WatchStep

-----------------------------------------------------------------------------
LEMMA SyncedFacts ==
  ASSUME NEW f \in Files
  PROVE  Synced(f) <=> IF disk[f] = 0 THEN rowMtime[f] = 0 \/ missing[f]
                       ELSE rowMtime[f] = disk[f] /\ ~missing[f]
BY DEF Synced, Catalogued, Unchanged

(***************************************************************************)
(* Every step of the scan keeps what it knows of an undisturbed file; the  *)
(* steps of others leave such a file alone.                                *)
(***************************************************************************)
LEMMA ScanInvStep == TypeOK /\ ScanInv /\ [Next]_vars => ScanInv'
<1> SUFFICES ASSUME TypeOK, ScanInv, [Next]_vars, phase' # "idle",
                    NEW g \in Files, g \notin disturbed'
             PROVE  FileInv(g)'
  BY DEF ScanInv
<1> DEFINE Row == rowMtime[g] = rowMtime[g]' /\ missing[g] = missing[g]'
           Pipe == /\ known[g]' = known[g] /\ stage[g]' = stage[g]
                   /\ inMtime[g]' = inMtime[g]
                   /\ (g \in seen' <=> g \in seen)
           Later == phase # "idle" /\ g \notin disturbed
<1>1. Later => FileInv(g)
  BY DEF ScanInv
<1>2. ASSUME Later, Row, Pipe, phase' = phase, disk[g]' = disk[g],
             g \in toMark' <=> g \in toMark, g # wfile'
      PROVE  FileInv(g)'
  <2> QED BY <1>1, <1>2, SyncedFacts DEF FileInv, Unchanged, Synced, Catalogued
<1>3. ASSUME NEW force \in BOOLEAN, Start(force)
      PROVE  FileInv(g)'
  <2>1. g # wfile'
    BY <1>3, FileAssumption DEF Start, watchVars
  <2>2. /\ stage[g]' = "ahead" /\ g \notin seen' /\ phase' = "walk"
        /\ known[g]' = IF force \/ missing[g] THEN 0 ELSE rowMtime[g]
        /\ Row
    BY <1>3 DEF Start, rowVars
  <2> QED BY <2>1, <2>2 DEF FileInv, Unchanged
<1>4. ASSUME NEW f \in Files, Visit(f)
      PROVE  FileInv(g)'
  <2>1. /\ Later /\ Row /\ known' = known /\ inMtime' = inMtime
        /\ UNCHANGED <<phase, disk, toMark, wfile>> /\ phase = "walk"
    BY <1>4 DEF Visit, diskVars, rowVars, watchVars
  <2>2. CASE f # g
    <3>1. Pipe
      BY <1>4, <2>1, <2>2 DEF Visit, TypeOK
    <3> QED BY <2>1, <3>1, <1>2, <1>1 DEF FileInv
  <2>3. CASE f = g
    <3>1. /\ stage[g] = "ahead" /\ stage'[g] \in {"out", "job"}
          /\ stage'[g] = "job" => disk[g] # 0 /\ (g \in seen' <=> g \in seen)
          /\ stage'[g] = "out" /\ disk[g] # 0 =>
               known[g] = disk[g] /\ g \in seen'
          /\ disk[g] = 0 => (g \in seen' <=> g \in seen)
      BY <1>4, <2>3 DEF Visit, TypeOK
    <3> QED BY <1>1, <2>1, <3>1 DEF FileInv, Unchanged
  <2> QED BY <2>2, <2>3
<1>5. ASSUME NEW S \in SUBSET Files, VisitFails(S)
      PROVE  FileInv(g)'
  <2>1. g \notin S /\ Later
    BY <1>5 DEF VisitFails, Fail, Fault, Disturb
  <2>2. /\ Row /\ Pipe
        /\ UNCHANGED <<phase, disk, toMark, wfile>>
    BY <1>5, <2>1 DEF VisitFails, diskVars, rowVars, watchVars
  <2> QED BY <1>1, <1>2, <2>1, <2>2 DEF FileInv
<1>6. ASSUME NEW f \in Files, Stat(f) \/ Read(f)
      PROVE  FileInv(g)'
  <2>1. /\ Later /\ Row /\ known' = known /\ seen' = seen
        /\ UNCHANGED <<phase, disk, toMark, wfile>> /\ phase = "walk"
    BY <1>6 DEF Stat, Read, diskVars, rowVars, watchVars, TypeOK
  <2>2. CASE f # g
    <3>1. Pipe
      BY <1>6, <2>1, <2>2 DEF Stat, Read, TypeOK
    <3> QED BY <2>1, <3>1, <1>2, <1>1 DEF FileInv
  <2>3. CASE f = g /\ Stat(f)
    <3>1. /\ stage[g] = "job" /\ inMtime'[g] = disk[g]
          /\ stage'[g] = IF disk[g] = 0 THEN "out" ELSE "read"
      BY <2>3 DEF Stat, TypeOK
    <3> QED BY <1>1, <2>1, <3>1 DEF FileInv, Unchanged
  <2>4. CASE f = g /\ Read(f)
    <3>1. stage[g] = "read" /\ stage'[g] = "write" /\ inMtime' = inMtime
      BY <2>4 DEF Read, TypeOK
    <3> QED BY <1>1, <2>1, <3>1 DEF FileInv, Unchanged
  <2> QED BY <1>6, <2>2, <2>3, <2>4
<1>7. ASSUME NEW S \in SUBSET Files, NEW T \in SUBSET S,
             S \in Batches, S # {}, Upsert(S \ T, inMtime, inTags),
             seen' = seen \cup (S \ T), Leave(S),
             UNCHANGED <<phase, disk, known, toMark, wfile>>,
             Later, g \notin T
      PROVE  FileInv(g)'
  <2>1. \A f \in S : stage[f] = "write"
    BY <1>7 DEF Batches, Writes
  <2>2. phase = "walk"
    BY <1>7, <2>1 DEF TypeOK
  <2>3. CASE g \in S
    <3>1. /\ stage[g] = "write" /\ stage'[g] = "out" /\ g \in seen'
          /\ rowMtime'[g] = inMtime[g] /\ ~missing'[g]
      BY <1>7, <2>1, <2>3 DEF Upsert, Leave
    <3> QED BY <1>1, <1>7, <2>2, <3>1 DEF FileInv, Unchanged
  <2>4. CASE g \notin S
    <3>1. Row /\ Pipe
      BY <1>7, <2>4 DEF Upsert, Leave, TypeOK
    <3> QED BY <1>1, <1>2, <1>7, <3>1 DEF FileInv
  <2> QED BY <2>3, <2>4
<1>8. ASSUME NEW S \in SUBSET Files, Flush(S)
      PROVE  FileInv(g)'
  <2>1. S \ {} = S /\ {} \in SUBSET S
    OBVIOUS
  <2>2. /\ Later /\ UNCHANGED <<phase, disk, known, toMark, wfile>>
        /\ S \in Batches /\ S # {} /\ Leave(S)
        /\ Upsert(S \ {}, inMtime, inTags) /\ seen' = seen \cup (S \ {})
    BY <1>8, <2>1 DEF Flush, diskVars, watchVars
  <2> HIDE DEF Later
  <2> QED BY <2>1, <2>2, <1>7
<1>9. ASSUME NEW S \in SUBSET Files, NEW T \in SUBSET S, FlushFails(S, T)
      PROVE  FileInv(g)'
  <2>1. S # {} /\ g \notin T /\ Later
    BY <1>9 DEF FlushFails, Fail, Disturb
  <2>2. /\ UNCHANGED <<phase, disk, known, toMark, wfile>>
        /\ S \in Batches /\ Leave(S)
        /\ Upsert(S \ T, inMtime, inTags) /\ seen' = seen \cup (S \ T)
    BY <1>9 DEF FlushFails, diskVars, watchVars
  <2> HIDE DEF Later
  <2> QED BY <2>1, <2>2, <1>7
<1>10. CASE Select
  <2>1. /\ Later /\ Row /\ Pipe /\ UNCHANGED <<disk, wfile>>
        /\ phase' = "mark" /\ stage[g] = "out"
        /\ g \in toMark' <=> g \in Catalogued \ seen
    BY <1>10 DEF Select, diskVars, rowVars, pipeVars, watchVars
  <2> QED BY <1>1, <2>1 DEF FileInv, Synced, Catalogued, Unchanged
<1>11. ASSUME NEW f \in Files, Mark(f)
       PROVE  FileInv(g)'
  <2>1. /\ Later /\ Pipe /\ UNCHANGED <<disk, wfile, phase, rowMtime>>
        /\ phase = "mark" /\ stage[g] = "out"
    BY <1>11 DEF Mark, diskVars, pipeVars, watchVars, TypeOK
  <2>2. CASE f # g
    <3>1. Row /\ (g \in toMark' <=> g \in toMark)
      BY <1>11, <2>2 DEF Mark, TypeOK
    <3> QED BY <1>1, <1>2, <2>1, <3>1 DEF FileInv
  <2>3. CASE f = g
    <3>1. g \in toMark /\ g \notin toMark' /\ missing'[g]
      BY <1>11, <2>3 DEF Mark, TypeOK
    <3> QED BY <1>1, <2>1, <3>1 DEF FileInv, Synced, Catalogued, Unchanged
  <2> QED BY <2>2, <2>3
<1>12. CASE Finish \/ MarkFails \/ Restart
  BY <1>12 DEF Finish, MarkFails, Restart, Return
<1>13. CASE WatchWrite \/ WatchCheck \/ WatchExtract \/ WatchRead
  <2>1. /\ Later /\ Row /\ Pipe /\ wfile' \in {wfile, NoFile}
        /\ UNCHANGED <<disk, phase, toMark>>
    BY <1>13 DEF WatchWrite, WatchCheck, WatchExtract, WatchRead, WatchIdle,
                 diskVars, rowVars, pipeVars
  <2> QED BY <1>1, <1>2, <2>1, FileAssumption DEF FileInv
<1>14. CASE WatchRemove
  <2>1. g # Event.file /\ Later
    BY <1>14 DEF WatchRemove, Disturb
  <2>2. /\ Row /\ Pipe /\ UNCHANGED <<disk, phase, toMark, wfile>>
    BY <1>14, <2>1 DEF WatchRemove, diskVars, pipeVars, TypeOK
  <2> QED BY <1>1, <1>2, <2>1, <2>2 DEF FileInv
<1>15. ASSUME NEW f \in Files, WatchStat(f)
       PROVE  FileInv(g)'
  <2>1. /\ Later /\ Row /\ Pipe /\ g # wfile'
        /\ UNCHANGED <<disk, phase, toMark>>
    <3>1. phase # "idle"
      BY <1>15 DEF WatchStat
    <3>2. g \notin disturbed /\ g # wfile'
      BY <1>1, <1>15, <3>1 DEF WatchStat, Disturb, FileInv
    <3> QED BY <1>15, <3>1, <3>2 DEF WatchStat, diskVars, rowVars, pipeVars
  <2> QED BY <1>2, <2>1
<1>16. CASE WatchUpsert \/ WatchFails
  <2>1. Later /\ Pipe /\ wfile' = NoFile /\ UNCHANGED <<disk, phase, toMark>>
    BY <1>16 DEF WatchUpsert, WatchFails, WatchIdle, Fail, Disturb, diskVars,
                 pipeVars
  <2>2. g # wfile
    BY <1>1, <2>1 DEF FileInv
  <2>3. Row
    <3>1. CASE WatchUpsert
      <4>1. /\ rowMtime'[g] = rowMtime[g]
            /\ missing'[g] = (missing[g] /\ g \notin {wfile})
        BY <2>2, <3>1 DEF WatchUpsert, Upsert
      <4>2. missing[g] \in BOOLEAN
        BY DEF TypeOK
      <4> QED BY <2>2, <4>1, <4>2
    <3>2. CASE WatchFails
      BY <3>2 DEF WatchFails, rowVars
    <3> QED BY <1>16, <3>1, <3>2
  <2> QED BY <1>2, <2>1, <2>3, FileAssumption
<1>17. ASSUME NEW f \in Files, NEW heard \in BOOLEAN,
              NEW v \in {0, latest[f], latest[f] + 1}, Change(f, v, heard)
       PROVE  FileInv(g)'
  <2>1. g # f /\ Later
    BY <1>17 DEF Change, Disturb
  <2>2. /\ Row /\ Pipe /\ disk'[g] = disk[g]
        /\ UNCHANGED <<phase, toMark, wfile>>
    BY <1>17, <2>1 DEF Change, rowVars, pipeVars, TypeOK
  <2> QED BY <1>1, <1>2, <2>1, <2>2 DEF FileInv
<1>18. CASE UNCHANGED vars
  <2>1. /\ Later /\ Row /\ Pipe /\ UNCHANGED <<disk, phase, toMark, wfile>>
    BY <1>18 DEF vars, diskVars, rowVars, pipeVars, watchVars
  <2> QED BY <1>1, <1>2, <2>1 DEF FileInv
<1> QED
  BY <1>3, <1>4, <1>5, <1>6, <1>8, <1>9, <1>10, <1>11, <1>12, <1>13, <1>14,
     <1>15, <1>16, <1>17, <1>18
  DEF Next, ScanStep, WatchStep

(***************************************************************************)
(* Every step keeps mtimes behind tags and tags behind the latest version. *)
(***************************************************************************)
LEMMA TagInvStep == TypeOK /\ TagInv /\ [Next]_vars => TagInv'
<1> SUFFICES ASSUME TypeOK, TagInv, [Next]_vars PROVE TagInv'
  OBVIOUS
<1>a. \A f \in Files :
        /\ disk[f] \in Nat /\ latest[f] \in Nat /\ rowMtime[f] \in Nat
        /\ rowTags[f] \in Nat /\ inMtime[f] \in Nat /\ inTags[f] \in Nat
  BY DEF TypeOK
<1>b. wMtime \in Nat /\ wTags \in Nat
  BY DEF TypeOK
<1>1. ASSUME UNCHANGED <<disk, latest>>,
             UNCHANGED <<rowMtime, rowTags>>,
             \A f \in Files : stage'[f] \in {"read", "write"} =>
               stage'[f] = stage[f] /\ inMtime'[f] = inMtime[f] /\ inTags'[f] = inTags[f]
      PROVE  (\A f \in Files : FileTags(f))'
  BY <1>1 DEF TagInv, FileTags
<1>2. ASSUME latest' = latest, UNCHANGED <<wpc, wfile, wMtime, wTags>>
      PROVE  WatchTags'
  BY <1>2 DEF TagInv, WatchTags
<1>3. ASSUME NEW f \in Files, Stat(f)
      PROVE  TagInv'
  <2>1. WatchTags'
    BY <1>2, <1>3 DEF Stat, diskVars, watchVars
  <2>2. ASSUME NEW g \in Files PROVE FileTags(g)'
    <3>1. /\ UNCHANGED <<disk, latest, rowMtime, rowTags, inTags>>
          /\ g # f => inMtime'[g] = inMtime[g] /\ stage'[g] = stage[g]
          /\ g = f => /\ inMtime'[g] = disk[g]
                      /\ stage'[g] = IF disk[g] = 0 THEN "out" ELSE "read"
      BY <1>3 DEF Stat, diskVars, rowVars, TypeOK
    <3> QED BY <1>a, <2>2, <3>1 DEF FileTags, TagInv
  <2> QED BY <2>1, <2>2 DEF TagInv
<1>4. ASSUME NEW f \in Files, Read(f)
      PROVE  TagInv'
  <2>1. WatchTags'
    BY <1>2, <1>4 DEF Read, diskVars, watchVars
  <2>2. ASSUME NEW g \in Files PROVE FileTags(g)'
    <3>1. /\ UNCHANGED <<disk, latest, rowMtime, rowTags, inMtime>>
          /\ g # f => inTags'[g] = inTags[g] /\ stage'[g] = stage[g]
          /\ g = f => /\ inTags'[g] = disk[g]
                      /\ stage[g] = "read" /\ stage'[g] = "write"
      BY <1>4 DEF Read, diskVars, rowVars, TypeOK
    <3> QED BY <1>a, <2>2, <3>1 DEF FileTags, TagInv, Tagged
  <2> QED BY <2>1, <2>2 DEF TagInv
<1>5. ASSUME NEW S, S \subseteq Files, \A f \in S : stage[f] = "write",
             NEW T, T \subseteq S, Upsert(T, inMtime, inTags), Leave(S),
             UNCHANGED <<disk, latest, wpc, wfile, wMtime, wTags>>
      PROVE  TagInv'
  <2>1. WatchTags'
    BY <1>2, <1>5
  <2>2. ASSUME NEW g \in Files PROVE FileTags(g)'
    <3>1. /\ g \in T => rowMtime'[g] = inMtime[g] /\ rowTags'[g] = inTags[g]
          /\ g \notin T => rowMtime'[g] = rowMtime[g] /\ rowTags'[g] = rowTags[g]
      BY <1>5 DEF Upsert
    <3>2. /\ g \in S => stage'[g] = "out"
          /\ g \notin S => /\ inMtime'[g] = inMtime[g] /\ inTags'[g] = inTags[g]
                          /\ stage'[g] = stage[g]
      BY <1>5 DEF Leave
    <3> QED BY <1>a, <1>5, <2>2, <3>1, <3>2 DEF FileTags, TagInv
  <2> QED BY <2>1, <2>2 DEF TagInv
<1>6. ASSUME NEW S \in SUBSET Files, Flush(S)
      PROVE  TagInv'
  <2>1. \A f \in S : stage[f] = "write"
    BY <1>6 DEF Flush, Batches, Writes
  <2>2. /\ Upsert(S, inMtime, inTags) /\ Leave(S)
        /\ UNCHANGED <<disk, latest, wpc, wfile, wMtime, wTags>>
    BY <1>6 DEF Flush, diskVars, watchVars
  <2> QED BY <1>5, <2>1, <2>2
<1>7. ASSUME NEW S \in SUBSET Files, NEW T \in SUBSET S, FlushFails(S, T)
      PROVE  TagInv'
  <2>1. \A f \in S : stage[f] = "write"
    BY <1>7 DEF FlushFails, Batches, Writes
  <2>2. /\ Upsert(S \ T, inMtime, inTags) /\ Leave(S) /\ S \ T \subseteq S
        /\ UNCHANGED <<disk, latest, wpc, wfile, wMtime, wTags>>
    BY <1>7 DEF FlushFails, diskVars, watchVars
  <2> QED BY <1>5, <2>1, <2>2
<1>8. CASE \/ \E force \in BOOLEAN : Start(force)
           \/ \E f \in Files : Visit(f) \/ Mark(f)
           \/ \E S \in SUBSET Files : VisitFails(S)
           \/ Select \/ Finish \/ MarkFails
  <2>1. /\ UNCHANGED <<disk, latest, rowMtime, rowTags>>
        /\ UNCHANGED <<wpc, wfile, wMtime, wTags>>
        /\ \A f \in Files : stage'[f] \in {"read", "write"} =>
             stage'[f] = stage[f] /\ inMtime'[f] = inMtime[f] /\ inTags'[f] = inTags[f]
    BY <1>8 DEF Start, Visit, Mark, VisitFails, Select, Finish, MarkFails, Return,
                diskVars, rowVars, pipeVars, watchVars, TypeOK
  <2>2. (\A f \in Files : FileTags(f))' /\ WatchTags'
    BY <1>1, <1>2, <2>1
  <2> QED BY <2>2 DEF TagInv
<1>9. CASE \/ WatchWrite \/ WatchRemove \/ WatchCheck \/ WatchExtract
           \/ WatchRead \/ WatchFails \/ Restart \/ UNCHANGED vars
           \/ \E f \in Files : WatchStat(f)
  <2>1. /\ UNCHANGED <<disk, latest, rowMtime, rowTags>>
        /\ \A f \in Files : stage'[f] \in {"read", "write"} =>
             stage'[f] = stage[f] /\ inMtime'[f] = inMtime[f] /\ inTags'[f] = inTags[f]
    BY <1>9 DEF WatchWrite, WatchRemove, WatchCheck, WatchExtract, WatchRead,
                WatchFails, Restart, Return, WatchStat, vars, diskVars, rowVars,
                pipeVars
  <2>2. WatchTags'
    <3>1. CASE WatchExtract
      <4>1. /\ wfile \in Files /\ latest' = latest
            /\ \/ wpc' = "idle"
               \/ /\ wpc' = "read" /\ wfile' = wfile
                  /\ wMtime' = disk[wfile] /\ disk[wfile] # 0
        BY <3>1 DEF WatchExtract, WatchIdle, diskVars, TypeOK
      <4> QED BY <1>a, <4>1 DEF FileTags, WatchTags, TagInv
    <3>2. CASE WatchRead
      <4>1. /\ wfile \in Files /\ latest' = latest /\ wpc = "read"
            /\ wpc' = "upsert" /\ wfile' = wfile /\ wMtime' = wMtime
            /\ wTags' = disk[wfile]
        BY <3>2 DEF WatchRead, diskVars, TypeOK
      <4> QED BY <1>a, <1>b, <4>1 DEF FileTags, WatchTags, TagInv, Tagged
    <3>3. CASE WatchCheck \/ WatchFails \/ Restart \/ \E f \in Files : WatchStat(f)
      <4>1. \/ wpc' \in {"idle", "check", "extract"}
            \/ UNCHANGED <<latest, wpc, wfile, wMtime, wTags>>
        BY <3>3 DEF WatchCheck, WatchFails, Restart, WatchStat, WatchIdle, diskVars
      <4>2. CASE wpc' \in {"idle", "check", "extract"}
        BY <4>2 DEF WatchTags
      <4> QED BY <1>2, <4>1, <4>2
    <3>4. CASE WatchWrite \/ WatchRemove \/ UNCHANGED vars
      BY <1>2, <3>4 DEF WatchWrite, WatchRemove, vars, diskVars, watchVars
    <3> QED BY <1>9, <3>1, <3>2, <3>3, <3>4
  <2>3. (\A f \in Files : FileTags(f))'
    BY <1>1, <2>1
  <2> QED BY <2>2, <2>3 DEF TagInv
<1>10. CASE WatchUpsert
  <2>1. /\ UNCHANGED <<disk, latest, stage, inMtime, inTags>> /\ wpc = "upsert"
        /\ wpc' = "idle"
    BY <1>10 DEF WatchUpsert, WatchIdle, diskVars, pipeVars
  <2>2. ASSUME NEW g \in Files PROVE FileTags(g)'
    <3>1. IF g = wfile THEN rowMtime'[g] = wMtime /\ rowTags'[g] = wTags
                       ELSE rowMtime'[g] = rowMtime[g] /\ rowTags'[g] = rowTags[g]
      BY <1>10 DEF WatchUpsert, Upsert
    <3> QED BY <1>a, <1>b, <2>1, <2>2, <3>1 DEF FileTags, WatchTags, TagInv
  <2> QED BY <2>1, <2>2 DEF TagInv, WatchTags
<1>11. ASSUME NEW f \in Files, NEW heard \in BOOLEAN,
              NEW v \in {0, latest[f], latest[f] + 1}, Change(f, v, heard)
       PROVE  TagInv'
  <2>1. /\ UNCHANGED <<rowMtime, rowTags, stage, inMtime, inTags>>
        /\ UNCHANGED <<wpc, wfile, wMtime, wTags>>
    BY <1>11 DEF Change, rowVars, pipeVars
  <2>2. \A g \in Files : /\ latest[g] <= latest'[g] /\ latest'[g] \in Nat
                         /\ disk'[g] \in {0, latest'[g]}
    <3> SUFFICES ASSUME NEW g \in Files
                 PROVE  /\ latest[g] <= latest'[g] /\ latest'[g] \in Nat
                        /\ disk'[g] \in {0, latest'[g]}
      OBVIOUS
    <3>1. /\ disk' = [disk EXCEPT ![f] = v]
          /\ latest' = [latest EXCEPT ![f] = IF v = 0 THEN @ ELSE v]
      BY <1>11 DEF Change
    <3>2. CASE g = f
      <4>1. disk'[g] = v /\ latest'[g] = IF v = 0 THEN latest[g] ELSE v
        BY <3>1, <3>2 DEF TypeOK
      <4> QED BY <1>a, <3>2, <4>1
    <3>3. CASE g # f
      <4>1. disk'[g] = disk[g] /\ latest'[g] = latest[g]
        BY <3>1, <3>3 DEF TypeOK
      <4> QED BY <1>a, <4>1 DEF TagInv, FileTags
    <3> QED BY <3>2, <3>3
  <2>3. ASSUME NEW g \in Files PROVE FileTags(g)'
    BY <1>a, <2>1, <2>2, <2>3 DEF FileTags, TagInv, Tagged
  <2>4. WatchTags'
    <3>1. wpc \in {"read", "upsert"} => wfile \in Files
      BY DEF TypeOK
    <3> QED BY <1>a, <1>b, <2>1, <2>2, <3>1 DEF WatchTags, TagInv, Tagged
  <2> QED BY <2>3, <2>4 DEF TagInv
<1> QED
  BY <1>3, <1>4, <1>6, <1>7, <1>8, <1>9, <1>10, <1>11 DEF Next, ScanStep, WatchStep

LEMMA Invariance == Spec => []Inv
<1>1. Inv /\ [Next]_vars => Inv'
  BY TypeStep, ScanInvStep, TagInvStep DEF Inv
<1> QED BY InitInv, <1>1, PTL DEF Spec

-----------------------------------------------------------------------------
(***************************************************************************)
(* Scan, watcher and catalog keep their types for any library, any batch   *)
(* size and any number of changes and faults.                    *)
(***************************************************************************)
THEOREM ScanTypeCorrect == Spec => []TypeOK
<1>1. Inv => TypeOK
  BY DEF Inv
<1> QED BY <1>1, Invariance, PTL

(***************************************************************************)
(* Extract looks up the mtime before it reads the tags: whichever of scan  *)
(* and watcher wrote the row last, it shows the tags of the version it     *)
(* claims, or the path's.                                                  *)
(***************************************************************************)
THEOREM TagsStayFresh == Spec => []TagsAreFresh
<1>1. Inv => TagsAreFresh
  <2> SUFFICES ASSUME Inv, NEW f \in Files, rowMtime[f] = disk[f]
               PROVE  rowTags[f] \in {0, disk[f]}
    BY DEF TagsAreFresh, Unchanged
  <2>1. /\ disk[f] \in Nat /\ latest[f] \in Nat /\ rowTags[f] \in Nat
        /\ disk[f] \in {0, latest[f]}
        /\ Tagged(rowMtime[f], rowTags[f], latest[f])
        /\ rowMtime[f] = 0 => rowTags[f] = 0
    BY DEF Inv, TypeOK, TagInv, FileTags
  <2> QED BY <2>1 DEF Tagged
<1> QED BY <1>1, Invariance, PTL

(***************************************************************************)
(* FullOpts leaves in sync every file nobody else touched, in whatever     *)
(* order walk, workers and writer got to it.                               *)
(***************************************************************************)
THEOREM ScanLeavesInSync == Spec => ScanReconciles
<1>1. Inv /\ [Next]_vars =>
        [Finish => \A f \in Files \ disturbed : Synced(f)]_vars
  <2> SUFFICES ASSUME Inv, Finish, NEW f \in Files \ disturbed
               PROVE  Synced(f)
    OBVIOUS
  <2> QED BY DEF Inv, ScanInv, FileInv, Finish
<1> QED BY <1>1, Invariance, PTL DEF Spec, ScanReconciles

=============================================================================
