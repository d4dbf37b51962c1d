------------------------- MODULE LanceWriter_proofs -------------------------
(***************************************************************************)
(* Proofs about LanceWriter, for any set of tracks and workers, any batch  *)
(* size and any moment of closing: type correctness, that an acknowledged  *)
(* row is stored, and that the writer keeps UpsertContract.                *)
(***************************************************************************)
EXTENDS LanceWriter, TLAPS

(***************************************************************************)
(* The inductive invariant.  A busy worker is the only one that stores its *)
(* track and has not returned it yet; what has been taken over has been    *)
(* asked for; an answer "ok", on its way or delivered, means stored.       *)
(***************************************************************************)
JobInv ==
  \A w \in Workers :
    /\ pc[w] # "idle" <=> job[w] # NoTrack
    /\ job[w] # NoTrack => result[job[w]] = "none"
    /\ \A v \in Workers : job[v] = job[w] /\ v # w => job[w] = NoTrack

Asked == Tracks \ Unclaimed

TakenInv ==
  /\ pending \subseteq Asked
  /\ \A p \in Procs : batch[p] \subseteq Asked

AnswerInv ==
  /\ \A p \in Procs : outcome[p] # "none" <=> pc[p] = "answered"
  /\ \A p \in Procs : outcome[p] = "ok" => batch[p] \subseteq table
  /\ \A t \in Tracks : done[t] = "ok" => t \in table
  /\ \A t \in Tracks : result[t] = "ok" => t \in table

Inv == TypeOK /\ JobInv /\ TakenInv /\ AnswerInv

(***************************************************************************)
(* An Upsert that returns frees its worker; its track stays asked for.     *)
(***************************************************************************)
LEMMA ReturnJob ==
  ASSUME TypeOK, JobInv,
         NEW w \in Workers, NEW r \in {"ok", "error"},
         pc[w] # "idle", Return(w, r)
  PROVE  /\ JobInv'
         /\ Asked' = Asked
         /\ job' \in [Workers -> Tracks \cup {NoTrack}]
         /\ result' \in [Tracks -> {"none", "ok", "error"}]
         /\ pc' = [pc EXCEPT ![w] = "idle"]
         /\ \A t \in Tracks : result'[t] = "ok" => result[t] = "ok" \/ t = job[w]
<1> USE ProcAssumption, TrackAssumption DEF Procs
<1>1. /\ pc \in [Procs -> {"idle", "flush", "wait", "taken", "io", "answered",
                           "feeding", "drained", "close", "shutdown", "end"}]
      /\ job \in [Workers -> Tracks \cup {NoTrack}]
      /\ result \in [Tracks -> {"none", "ok", "error"}]
  BY DEF TypeOK
<1>2. job[w] \in Tracks /\ result[job[w]] = "none"
  BY <1>1 DEF JobInv
<1>3. /\ job' \in [Workers -> Tracks \cup {NoTrack}]
      /\ result' \in [Tracks -> {"none", "ok", "error"}]
      /\ pc' = [pc EXCEPT ![w] = "idle"]
      /\ \A t \in Tracks : result'[t] = "ok" => result[t] = "ok" \/ t = job[w]
  BY <1>1, <1>2 DEF Return
<1>4. JobInv'
  <2> SUFFICES ASSUME NEW v \in Workers
               PROVE  /\ pc'[v] # "idle" <=> job'[v] # NoTrack
                      /\ job'[v] # NoTrack => result'[job'[v]] = "none"
                      /\ \A u \in Workers :
                           job'[u] = job'[v] /\ u # v => job'[v] = NoTrack
    BY DEF JobInv
  <2>1. CASE v = w
    BY <2>1, <1>1, <1>2 DEF Return
  <2>2. CASE v # w
    <3>1. job'[v] = job[v] /\ pc'[v] = pc[v]
      BY <2>2, <1>1 DEF Return
    <3>2. job[v] # job[w]
      BY <2>2, <1>2 DEF JobInv
    <3>3. job'[v] # NoTrack => result'[job'[v]] = "none"
      BY <3>1, <3>2, <1>1, <1>2 DEF Return, JobInv
    <3>4. \A u \in Workers : job'[u] = job'[v] /\ u # v => job'[v] = NoTrack
      BY <3>1, <1>1 DEF Return, JobInv
    <3> QED BY <3>1, <3>3, <3>4 DEF JobInv
  <2> QED BY <2>1, <2>2
<1>5. Asked' = Asked
  <2> SUFFICES ASSUME NEW t \in Tracks
               PROVE  t \in Unclaimed' <=> t \in Unclaimed
    BY DEF Asked, Unclaimed
  <2>1. CASE t = job[w]
    BY <2>1, <1>1, <1>2 DEF Return, Unclaimed
  <2>2. CASE t # job[w]
    BY <2>2, <1>1, <1>2 DEF Return, Unclaimed
  <2> QED BY <2>1, <2>2
<1> QED BY <1>3, <1>4, <1>5

(***************************************************************************)
(* Wherever flush returns to, the workers stay in order, and an Upsert     *)
(* that returns reports success only if its own waiter was told so.        *)
(***************************************************************************)
LEMMA FlushReturnsJob ==
  ASSUME TypeOK, JobInv,
         NEW p \in Procs, NEW err \in BOOLEAN,
         done' \in [Tracks -> {"empty", "ok", "error"}],
         pc[p] \in {"flush", "taken", "answered"}, FlushReturns(p, err)
  PROVE  /\ JobInv'
         /\ Asked' = Asked
         /\ job' \in [Workers -> Tracks \cup {NoTrack}]
         /\ result' \in [Tracks -> {"none", "ok", "error"}]
         /\ \E s \in {"idle", "wait", "close", "shutdown"} :
              pc' = [pc EXCEPT ![p] = s]
         /\ \A t \in Tracks :
              result'[t] = "ok" => result[t] = "ok" \/ done'[t] = "ok"
<1> USE ProcAssumption, TrackAssumption DEF Procs
<1>1. /\ pc \in [Procs -> {"idle", "flush", "wait", "taken", "io", "answered",
                           "feeding", "drained", "close", "shutdown", "end"}]
      /\ job \in [Workers -> Tracks \cup {NoTrack}]
      /\ result \in [Tracks -> {"none", "ok", "error"}]
  BY DEF TypeOK
<1>2. CASE p \in Workers /\ err
  <2> DEFINE r == IF done'[job[p]] = "empty" THEN "error" ELSE done'[job[p]]
  <2>1. job[p] \in Tracks
    BY <1>1, <1>2 DEF JobInv
  <2>2. Return(p, r) /\ r \in {"ok", "error"}
    BY <1>2, <2>1 DEF FlushReturns
  <2>3. r = "ok" => done'[job[p]] = "ok"
    OBVIOUS
  <2>4. \A t \in Tracks :
          result'[t] = "ok" => result[t] = "ok" \/ done'[t] = "ok"
    BY <2>1, <2>2, <2>3, <1>1 DEF Return
  <2> HIDE DEF r
  <2>5. /\ JobInv'
        /\ Asked' = Asked
        /\ job' \in [Workers -> Tracks \cup {NoTrack}]
        /\ result' \in [Tracks -> {"none", "ok", "error"}]
        /\ pc' = [pc EXCEPT ![p] = "idle"]
    BY <2>2, <1>2, ReturnJob
  <2> QED BY <2>4, <2>5
<1>3. CASE p \in Workers /\ ~err
  <2>1. pc' = [pc EXCEPT ![p] = "wait"] /\ UNCHANGED <<job, result>>
    BY <1>3 DEF FlushReturns
  <2>2. JobInv'
    BY <2>1, <1>1, <1>3 DEF JobInv
  <2>3. Asked' = Asked
    BY <2>1 DEF Asked, Unclaimed
  <2> QED BY <2>1, <2>2, <2>3, <1>1
<1>4. CASE p \notin Workers
  <2>1. /\ \E s \in {"idle", "wait", "close", "shutdown"} :
             pc' = [pc EXCEPT ![p] = s]
        /\ UNCHANGED <<job, result>>
    BY <1>4 DEF FlushReturns
  <2>2. \A w \in Workers : pc'[w] = pc[w]
    BY <2>1, <1>1, <1>4
  <2>3. JobInv'
    BY <2>1, <2>2 DEF JobInv
  <2>4. Asked' = Asked
    BY <2>1 DEF Asked, Unclaimed
  <2> QED BY <2>1, <2>3, <2>4, <1>1
<1> QED BY <1>2, <1>3, <1>4

Maps == [Contract!Next]_(Contract!vars)

(***************************************************************************)
(* A step that touches neither the table, nor the results, nor the jobs    *)
(* keeps what was asked for and is a stutter of the contract.              *)
(***************************************************************************)
LEMMA QuietMaps ==
  ASSUME UNCHANGED <<table, result, job>>
  PROVE  Maps /\ Asked' = Asked
BY DEF Maps, Contract!vars, Asked, Unclaimed

(***************************************************************************)
(* In the initial state nothing is asked for, stored or answered.          *)
(***************************************************************************)
LEMMA InitInv == Init => Inv /\ Contract!Init
<1> SUFFICES ASSUME Init PROVE Inv /\ Contract!Init
  OBVIOUS
<1> USE ProcAssumption, TrackAssumption DEF Procs, Init
<1>1. TypeOK
  BY DEF TypeOK
<1>2. JobInv
  BY DEF JobInv
<1>3. TakenInv
  BY DEF TakenInv
<1>4. AnswerInv
  BY DEF AnswerInv
<1>5. Unclaimed = Tracks
  BY DEF Unclaimed
<1>6. Contract!Init
  BY <1>5 DEF Contract!Init
<1> QED BY <1>1, <1>2, <1>3, <1>4, <1>6 DEF Inv

(***************************************************************************)
(* Calling Upsert is Ask, being refused is Refuse, and returning is Answer.*)
(***************************************************************************)
LEMMA UpsertKeeps ==
  ASSUME Inv, NEW w \in Workers, NEW t \in Tracks, Upsert(w, t)
  PROVE  Inv' /\ Maps
<1> USE ProcAssumption, TrackAssumption DEF Procs
<1>1. TypeOK /\ JobInv /\ TakenInv /\ AnswerInv
  BY DEF Inv
<1>2. PICK s \in {"flush", "wait"} : pc' = [pc EXCEPT ![w] = s]
  BY DEF Upsert
<1>3. TypeOK'
  BY <1>1, <1>2 DEF TypeOK, Upsert
<1>4. JobInv'
  BY <1>1, <1>2 DEF JobInv, TypeOK, Upsert, Unclaimed
<1>5. Asked' = Asked \cup {t} /\ t \notin Asked
  BY <1>1 DEF Asked, Unclaimed, Upsert, TypeOK, JobInv
<1>6. TakenInv'
  BY <1>1, <1>5 DEF TakenInv, Upsert
<1>7. AnswerInv'
  BY <1>1, <1>2 DEF AnswerInv, Upsert, TypeOK
<1>8. Contract!Ask(t)
  BY <1>5 DEF Contract!Ask, Upsert, Asked
<1>9. Maps
  BY <1>8 DEF Maps, Contract!Next
<1> QED BY <1>3, <1>4, <1>6, <1>7, <1>9 DEF Inv

(***************************************************************************)
(* An Upsert refused because the job is cancelled or the writer closed.    *)
(***************************************************************************)
LEMMA RefusedKeeps ==
  ASSUME Inv, NEW w \in Workers, NEW t \in Tracks, UpsertRefused(w, t)
  PROVE  Inv' /\ Maps
<1> USE ProcAssumption, TrackAssumption DEF Procs
<1>1. TypeOK /\ JobInv /\ TakenInv /\ AnswerInv
  BY DEF Inv
<1>2. TypeOK'
  BY <1>1 DEF TypeOK, UpsertRefused, writerVars
<1>3. JobInv'
  BY <1>1 DEF JobInv, TypeOK, UpsertRefused, Unclaimed
<1>4. Asked' = Asked \cup {t} /\ t \notin Asked
  BY <1>1 DEF Asked, Unclaimed, UpsertRefused, TypeOK, JobInv
<1>5. TakenInv'
  BY <1>1, <1>4 DEF TakenInv, UpsertRefused, writerVars
<1>6. AnswerInv'
  BY <1>1 DEF AnswerInv, UpsertRefused, TypeOK, writerVars
<1>7. Contract!Refuse(t)
  BY <1>4 DEF Contract!Refuse, UpsertRefused, Asked
<1>8. Maps
  BY <1>7 DEF Maps, Contract!Next
<1> QED BY <1>2, <1>3, <1>5, <1>6, <1>8 DEF Inv

(***************************************************************************)
(* An Upsert whose answer arrived, or whose context was cancelled.         *)
(***************************************************************************)
LEMMA ReturnKeeps ==
  ASSUME Inv, NEW w \in Workers, UpsertReturn(w)
  PROVE  Inv' /\ Maps
<1> USE ProcAssumption, TrackAssumption DEF Procs
<1>1. TypeOK /\ JobInv /\ TakenInv /\ AnswerInv
  BY DEF Inv
<1>2. job[w] \in Tracks /\ result[job[w]] = "none" /\ pc[w] = "wait"
  BY <1>1 DEF UpsertReturn, JobInv, TypeOK
<1>3. PICK r \in {"ok", "error"} :
        Return(w, r) /\ (r = "ok" => done[job[w]] = "ok")
  BY <1>1, <1>2 DEF UpsertReturn, TypeOK
<1>4. UNCHANGED <<outcome, pending, closed, batch, done, helper, table, cancelled>>
  BY DEF UpsertReturn, writerVars
<1>5. /\ JobInv'
      /\ Asked' = Asked
      /\ job' \in [Workers -> Tracks \cup {NoTrack}]
      /\ result' \in [Tracks -> {"none", "ok", "error"}]
      /\ pc' = [pc EXCEPT ![w] = "idle"]
  BY <1>1, <1>2, <1>3, ReturnJob
<1>6. TypeOK'
  BY <1>1, <1>4, <1>5 DEF TypeOK
<1>7. TakenInv'
  BY <1>1, <1>4, <1>5 DEF TakenInv
<1>8. AnswerInv'
  BY <1>1, <1>2, <1>3, <1>4, <1>5 DEF AnswerInv, Return, TypeOK
<1>9. Contract!Answer(job[w], "ok") \/ Contract!Answer(job[w], "error")
  BY <1>1, <1>2, <1>3, <1>4, <1>5
     DEF Contract!Answer, Return, Asked, Unclaimed, AnswerInv
<1>10. Maps
  BY <1>2, <1>9 DEF Maps, Contract!Next
<1> QED BY <1>5, <1>6, <1>7, <1>8, <1>10 DEF Inv

(***************************************************************************)
(* Telling the waiters of a batch and returning from flush: an Answer when *)
(* the flush was an Upsert's own and failed, a stutter otherwise.          *)
(***************************************************************************)
LEMMA SettleKeeps ==
  ASSUME Inv, NEW p \in Procs, NEW a \in {"ok", "error"},
         a = "ok" => batch[p] \subseteq table,
         pc[p] \in {"taken", "answered"},
         outcome' = [outcome EXCEPT ![p] = "none"],
         Signal(p, a), FlushReturns(p, a = "error"),
         UNCHANGED <<pending, closed, helper, table, cancelled>>
  PROVE  Inv' /\ Maps
<1> USE ProcAssumption, TrackAssumption DEF Procs
<1>1. TypeOK /\ JobInv /\ TakenInv /\ AnswerInv
  BY DEF Inv
<1>2. /\ done' \in [Tracks -> {"empty", "ok", "error"}]
      /\ batch' = [batch EXCEPT ![p] = {}]
      /\ \A t \in Tracks : done'[t] = "ok" => t \in table
  BY <1>1 DEF Signal, TypeOK, AnswerInv
<1>3. /\ JobInv'
      /\ Asked' = Asked
      /\ job' \in [Workers -> Tracks \cup {NoTrack}]
      /\ result' \in [Tracks -> {"none", "ok", "error"}]
      /\ \E s \in {"idle", "wait", "close", "shutdown"} :
           pc' = [pc EXCEPT ![p] = s]
      /\ \A t \in Tracks :
           result'[t] = "ok" => result[t] = "ok" \/ done'[t] = "ok"
  <2>1. (a = "error") \in BOOLEAN /\ pc[p] \in {"flush", "taken", "answered"}
    OBVIOUS
  <2> QED BY <2>1, <1>1, <1>2, FlushReturnsJob
<1>4. PICK s \in {"idle", "wait", "close", "shutdown"} :
        pc' = [pc EXCEPT ![p] = s]
  BY <1>3
<1>5. TypeOK'
  BY <1>1, <1>2, <1>3, <1>4 DEF TypeOK
<1>6. TakenInv'
  BY <1>1, <1>2, <1>3 DEF TakenInv, TypeOK
<1>7. AnswerInv'
  <2>1. \A q \in Procs :
          outcome'[q] = "ok" => batch'[q] \subseteq table'
    BY <1>1, <1>2, <1>4 DEF AnswerInv, TypeOK
  <2>2. \A q \in Procs : outcome'[q] # "none" <=> pc'[q] = "answered"
    BY <1>1, <1>4 DEF AnswerInv, TypeOK
  <2>3. /\ \A t \in Tracks : done'[t] = "ok" => t \in table'
        /\ \A t \in Tracks : result'[t] = "ok" => t \in table'
    BY <1>1, <1>2, <1>3 DEF AnswerInv
  <2> QED BY <2>1, <2>2, <2>3 DEF AnswerInv
<1>8. Maps
  <2>1. CASE UNCHANGED <<job, result>>
    BY <2>1, QuietMaps
  <2>2. CASE ~UNCHANGED <<job, result>>
    <3>1. p \in Workers /\ a = "error"
      BY <2>2 DEF FlushReturns
    <3> DEFINE r == IF done'[job[p]] = "empty" THEN "error" ELSE done'[job[p]]
    <3>2. job[p] \in Tracks /\ result[job[p]] = "none"
      BY <1>1, <3>1 DEF JobInv, TypeOK
    <3>3. /\ r \in {"ok", "error"} /\ (r = "ok" => job[p] \in table)
          /\ result' = [result EXCEPT ![job[p]] = r]
      BY <1>2, <3>1, <3>2 DEF FlushReturns, Return
    <3> HIDE DEF r
    <3>4. job[p] \in Asked
      BY <3>1, <3>2 DEF Asked, Unclaimed
    <3>5. Contract!Answer(job[p], r)
      BY <1>3, <3>2, <3>3, <3>4 DEF Contract!Answer, Asked
    <3> QED BY <3>2, <3>3, <3>5 DEF Maps, Contract!Next
  <2> QED BY <2>1, <2>2
<1> QED BY <1>3, <1>5, <1>6, <1>7, <1>8 DEF Inv

(***************************************************************************)
(* A flush up to the moment it asks the helper.                            *)
(***************************************************************************)
LEMMA FlushBeginKeeps ==
  ASSUME Inv, NEW p \in Procs,
         FlushNothing(p) \/ FlushTake(p) \/ FlushGo(p)
  PROVE  Inv' /\ Maps
<1> USE ProcAssumption, TrackAssumption DEF Procs
<1>1. TypeOK /\ JobInv /\ TakenInv /\ AnswerInv
  BY DEF Inv
<1>2. CASE FlushNothing(p)
  <2>1. UNCHANGED <<outcome, pending, closed, batch, done, helper, table, cancelled>>
    BY <1>2 DEF FlushNothing, writerVars
  <2>2. pc[p] = "flush" /\ FlushReturns(p, FALSE)
    BY <1>2 DEF FlushNothing
  <2>3. /\ JobInv'
        /\ \E s \in {"idle", "wait", "close", "shutdown"} :
             pc' = [pc EXCEPT ![p] = s]
    <3>1. done' \in [Tracks -> {"empty", "ok", "error"}]
      BY <2>1, <1>1 DEF TypeOK
    <3>2. FALSE \in BOOLEAN /\ pc[p] \in {"flush", "taken", "answered"}
      BY <2>2
    <3> QED BY <3>1, <3>2, <2>2, <1>1, FlushReturnsJob
  <2>4. UNCHANGED <<job, result>>
    BY <2>2 DEF FlushReturns
  <2>5. Maps /\ Asked' = Asked
    BY <2>1, <2>4, QuietMaps
  <2>6. TypeOK'
    BY <2>1, <2>3, <2>4, <1>1 DEF TypeOK
  <2>7. TakenInv'
    BY <2>1, <2>5, <1>1 DEF TakenInv
  <2>8. AnswerInv'
    BY <2>1, <2>2, <2>3, <2>4, <1>1 DEF AnswerInv, TypeOK
  <2> QED BY <2>3, <2>5, <2>6, <2>7, <2>8 DEF Inv
<1>3. CASE FlushTake(p)
  <2>1. Maps /\ Asked' = Asked
    BY <1>3, QuietMaps DEF FlushTake
  <2>2. TypeOK'
    BY <1>1, <1>3 DEF TypeOK, FlushTake
  <2>3. JobInv'
    BY <1>1, <1>3 DEF JobInv, FlushTake, TypeOK
  <2>4. TakenInv'
    BY <1>1, <1>3, <2>1 DEF TakenInv, FlushTake, TypeOK
  <2>5. AnswerInv'
    BY <1>1, <1>3 DEF AnswerInv, FlushTake, TypeOK
  <2> QED BY <2>1, <2>2, <2>3, <2>4, <2>5 DEF Inv
<1>4. CASE FlushGo(p)
  <2>1. Maps /\ Asked' = Asked
    BY <1>4, QuietMaps DEF FlushGo
  <2>2. TypeOK'
    BY <1>1, <1>4 DEF TypeOK, FlushGo, writerVars
  <2>3. JobInv'
    BY <1>1, <1>4 DEF JobInv, FlushGo, TypeOK
  <2>4. TakenInv'
    BY <1>1, <1>4, <2>1 DEF TakenInv, FlushGo, writerVars
  <2>5. AnswerInv'
    BY <1>1, <1>4 DEF AnswerInv, FlushGo, TypeOK, writerVars
  <2> QED BY <2>1, <2>2, <2>3, <2>4, <2>5 DEF Inv
<1> QED BY <1>2, <1>3, <1>4

(***************************************************************************)
(* The round trip with the helper: what it newly stores is one Store of    *)
(* rows that were asked for.                                               *)
(***************************************************************************)
LEMMA RoundTripKeeps ==
  ASSUME Inv, NEW p \in Procs,
         (\E a \in {"ok", "error"} : FlushAnswer(p, a)) \/ FlushBroken(p)
  PROVE  Inv' /\ Maps
<1> USE ProcAssumption, TrackAssumption DEF Procs
<1>1. TypeOK /\ JobInv /\ TakenInv /\ AnswerInv
  BY DEF Inv
<1>2. /\ pc[p] = "io" /\ pc' = [pc EXCEPT ![p] = "answered"]
      /\ UNCHANGED <<pending, closed, batch, done, job, result, cancelled>>
      /\ helper' \in {"up", "down"}
  BY <1>1 DEF FlushAnswer, FlushBroken, writerVars, TypeOK
<1>3. PICK a \in {"ok", "error"} :
        /\ outcome' = [outcome EXCEPT ![p] = a]
        /\ a = "ok" => table' = table \cup batch[p]
        /\ table' = table \/ table' = table \cup batch[p]
  BY DEF FlushAnswer, FlushBroken
<1>4. Asked' = Asked
  BY <1>2 DEF Asked, Unclaimed
<1>5. TypeOK'
  BY <1>1, <1>2, <1>3 DEF TypeOK
<1>6. JobInv'
  BY <1>1, <1>2 DEF JobInv, TypeOK
<1>7. TakenInv'
  BY <1>1, <1>2, <1>4 DEF TakenInv
<1>8. AnswerInv'
  BY <1>1, <1>2, <1>3 DEF AnswerInv, TypeOK
<1>9. Maps
  <2>1. CASE table' = table
    BY <2>1, <1>2, QuietMaps
  <2>2. CASE table' # table
    <3> DEFINE S == batch[p] \ table
    <3>1. S # {} /\ table' = table \cup S
      BY <2>2, <1>3
    <3>2. S \subseteq Asked /\ S \in SUBSET Tracks
      BY <1>1 DEF TakenInv, TypeOK
    <3>3. Contract!Store(S)
      BY <3>1, <3>2, <1>2, <1>4 DEF Contract!Store, Asked
    <3> QED BY <3>2, <3>3 DEF Maps, Contract!Next
  <2> QED BY <2>1, <2>2
<1> QED BY <1>5, <1>6, <1>7, <1>8, <1>9 DEF Inv

(***************************************************************************)
(* The ticker's call, the owner's steps and a cancellation.                *)
(***************************************************************************)
LEMMA OwnerKeeps ==
  ASSUME Inv, Tick \/ DriverStep \/ Cancel
  PROVE  Inv' /\ Maps
<1> USE ProcAssumption, TrackAssumption DEF Procs
<1>1. TypeOK /\ JobInv /\ TakenInv /\ AnswerInv
  BY DEF Inv
<1>2. /\ UNCHANGED <<pending, batch, done, outcome, table, job, result>>
      /\ closed' \in BOOLEAN /\ helper' \in {"up", "down"}
      /\ cancelled' \in BOOLEAN
  BY <1>1 DEF Tick, DriverStep, CloseJobs, LastFlush, CloseBegin, Shutdown,
              Cancel, writerVars, TypeOK
<1>3. \/ pc' = pc
      \/ \E p \in {Ticker, Driver}, s \in {"flush", "drained", "end"} :
           pc[p] # "answered" /\ pc' = [pc EXCEPT ![p] = s]
  BY DEF Tick, DriverStep, CloseJobs, LastFlush, CloseBegin, Shutdown, Cancel
<1>4. Maps /\ Asked' = Asked
  BY <1>2, QuietMaps
<1>5. TypeOK'
  BY <1>1, <1>2, <1>3 DEF TypeOK
<1>6. \A w \in Workers : pc'[w] = pc[w]
  BY <1>1, <1>3 DEF TypeOK
<1>7. JobInv'
  BY <1>1, <1>2, <1>6 DEF JobInv
<1>8. TakenInv'
  BY <1>1, <1>2, <1>4 DEF TakenInv
<1>9. \A p \in Procs : pc'[p] = "answered" <=> pc[p] = "answered"
  BY <1>1, <1>3 DEF TypeOK
<1>10. AnswerInv'
  BY <1>1, <1>2, <1>9 DEF AnswerInv
<1> QED BY <1>4, <1>5, <1>7, <1>8, <1>10 DEF Inv

(***************************************************************************)
(* Every step keeps the invariant and is a step of the contract.           *)
(***************************************************************************)
LEMMA InvStep == Inv /\ [Next]_vars => Inv' /\ Maps
<1> SUFFICES ASSUME Inv, [Next]_vars PROVE Inv' /\ Maps
  OBVIOUS
<1>1. ASSUME NEW w \in Workers, WorkerStep(w) PROVE Inv' /\ Maps
  BY <1>1, UpsertKeeps, RefusedKeeps, ReturnKeeps DEF WorkerStep
<1>2. ASSUME NEW p \in Procs, FlushStep(p) PROVE Inv' /\ Maps
  <2>1. CASE FlushNothing(p) \/ FlushTake(p) \/ FlushGo(p)
    BY <2>1, FlushBeginKeeps
  <2>2. CASE (\E a \in {"ok", "error"} : FlushAnswer(p, a)) \/ FlushBroken(p)
    BY <2>2, RoundTripKeeps
  <2>3. CASE FlushCancelled(p)
    <3>1. /\ pc[p] = "taken" /\ Signal(p, "error")
          /\ FlushReturns(p, "error" = "error")
          /\ UNCHANGED <<outcome, pending, closed, helper, table, cancelled>>
      BY <2>3 DEF FlushCancelled
    <3>2. outcome' = [outcome EXCEPT ![p] = "none"]
      BY <3>1 DEF Inv, AnswerInv, TypeOK
    <3> QED BY <3>1, <3>2, SettleKeeps
  <2>4. CASE FlushSettle(p)
    <3>1. /\ outcome[p] \in {"ok", "error"}
          /\ outcome[p] = "ok" => batch[p] \subseteq table
      BY <2>4 DEF FlushSettle, Inv, AnswerInv, TypeOK
    <3> QED BY <2>4, <3>1, SettleKeeps DEF FlushSettle
  <2> QED BY <1>2, <2>1, <2>2, <2>3, <2>4 DEF FlushStep
<1>3. CASE UNCHANGED vars
  <2>1. Inv'
    BY <1>3 DEF vars, writerVars, Inv, TypeOK, JobInv, TakenInv, AnswerInv,
                Asked, Unclaimed
  <2> QED BY <1>3, <2>1, QuietMaps DEF vars
<1> QED BY <1>1, <1>2, <1>3, OwnerKeeps DEF Next

(***************************************************************************)
(* Type correctness of the writer and of the job around it.                *)
(***************************************************************************)
THEOREM WriterTypeCorrect == Spec => []TypeOK
<1>1. Inv => TypeOK
  BY DEF Inv
<1> QED BY <1>1, InitInv, InvStep, PTL DEF Spec

(***************************************************************************)
(* An Upsert that reported success has its row in the table, whatever the  *)
(* helper did, whoever flushed and whenever the writer was closed.         *)
(***************************************************************************)
THEOREM AcknowledgedIsStored == Spec => []AckedIsStored
<1>1. Inv => AckedIsStored
  BY DEF Inv, AnswerInv, AckedIsStored
<1> QED BY <1>1, InitInv, InvStep, PTL DEF Spec

(***************************************************************************)
(* The batching writer implements the contract its callers rely on.        *)
(***************************************************************************)
THEOREM WriterKeepsContract == Spec => KeepsContract
<1>1. Inv /\ [Next]_vars => [Contract!Next]_(Contract!vars)
  BY InvStep DEF Maps
<1> QED BY <1>1, InitInv, InvStep, PTL DEF Spec, KeepsContract, Contract!Spec

-----------------------------------------------------------------------------
(***************************************************************************)
(* From Run's last flush on, no row is pending once that flush has taken   *)
(* what there was, nor when the writer is closed: upserts are called only  *)
(* while the jobs are fed and the writer is open.                          *)
(***************************************************************************)
DrainedInv ==
  closed \/ pc[Driver] \in {"taken", "io", "answered", "close", "shutdown", "end"}
    => pending = {}

\* A step that leaves the writer open, or closed, and Run where it is.
LEMMA DrainedKept ==
  ASSUME DrainedInv, closed' = closed, pc'[Driver] = pc[Driver],
         pending' = pending \/ pending' = {}
  PROVE  DrainedInv'
BY DEF DrainedInv

LEMMA DrainedFlush ==
  ASSUME TypeOK, DrainedInv, NEW p \in Procs, FlushStep(p)
  PROVE  DrainedInv'
<1> USE ProcAssumption, TrackAssumption DEF Procs
<1>1. /\ closed' = closed
      /\ pending' = pending \/ (pending' = {} /\ FlushTake(p))
  BY DEF FlushStep, FlushNothing, FlushTake, FlushGo, FlushCancelled, FlushAnswer,
         FlushBroken, FlushSettle, writerVars
<1>2. CASE p # Driver
  <2>1. pc'[Driver] = pc[Driver]
    BY <1>2 DEF FlushStep, FlushNothing, FlushTake, FlushGo, FlushCancelled, FlushAnswer,
                FlushBroken, FlushSettle, FlushReturns, Return, TypeOK
  <2> QED BY <1>1, <2>1, DrainedKept
<1>3. CASE p = Driver
  <2>1. CASE FlushTake(p)
    BY <2>1 DEF FlushTake, DrainedInv
  <2>2. CASE FlushNothing(p)
    <3>1. pending = {}
      BY <2>2 DEF FlushNothing, DrainedInv
    <3> QED BY <2>2, <3>1 DEF FlushNothing, writerVars, DrainedInv
  <2>3. CASE ~FlushTake(p) /\ ~FlushNothing(p)
    <3>1. pc[Driver] \in {"taken", "io", "answered"} /\ pending' = pending
      BY <1>1, <1>3, <2>3
         DEF FlushStep, FlushGo, FlushCancelled, FlushAnswer, FlushBroken, FlushSettle
    <3> QED BY <3>1 DEF DrainedInv
  <2> QED BY <2>1, <2>2, <2>3
<1> QED BY <1>2, <1>3

LEMMA DrainedStep ==
  ASSUME ~CloseEarly, TypeOK, DrainedInv, [Next]_vars
  PROVE  DrainedInv'
<1> USE ProcAssumption, TrackAssumption DEF Procs
<1>1. ASSUME NEW w \in Workers, WorkerStep(w) PROVE DrainedInv'
  <2>1. /\ pc'[Driver] = pc[Driver] /\ closed' = closed
        /\ pending' = pending \/ (~closed /\ pc[Driver] = "feeding")
    BY <1>1 DEF WorkerStep, Upsert, UpsertRefused, UpsertReturn, Return, writerVars, TypeOK
  <2> QED BY <2>1 DEF DrainedInv
<1>2. ASSUME NEW p \in Procs, FlushStep(p) PROVE DrainedInv'
  BY <1>2, DrainedFlush
<1>3. CASE Tick \/ Cancel \/ UNCHANGED vars
  <2>1. pc'[Driver] = pc[Driver] /\ closed' = closed /\ pending' = pending
    BY <1>3 DEF Tick, Cancel, writerVars, vars, TypeOK
  <2> QED BY <2>1, DrainedKept
<1>4. CASE CloseJobs \/ LastFlush
  <2>1. pc'[Driver] \in {"drained", "flush"} /\ closed' = closed /\ pending' = pending
    BY <1>4 DEF CloseJobs, LastFlush, writerVars, TypeOK
  <2> QED BY <2>1 DEF DrainedInv
<1>5. CASE CloseBegin \/ Shutdown
  <2>1. pc[Driver] \in {"close", "shutdown"} /\ pending' = pending
    BY <1>5 DEF CloseBegin, Shutdown, writerVars
  <2> QED BY <2>1 DEF DrainedInv
<1> QED BY <1>1, <1>2, <1>3, <1>4, <1>5 DEF Next, DriverStep

(***************************************************************************)
(* When the job has closed its writer no row is left behind: Run flushes   *)
(* once more before it calls Close, which itself flushes nothing, and the  *)
(* writer's owner does not close it while its workers run.                 *)
(***************************************************************************)
THEOREM ClosedIsFlushed ==
  ASSUME ~CloseEarly
  PROVE  Spec => []CloseFlushes
<1>1. Init => DrainedInv
  BY ProcAssumption DEF Init, DrainedInv, Procs
<1>2. TypeOK /\ DrainedInv /\ [Next]_vars => DrainedInv'
  BY DrainedStep
<1>3. DrainedInv => CloseFlushes
  BY DEF DrainedInv, CloseFlushes
<1> QED BY <1>1, <1>2, <1>3, WriterTypeCorrect, PTL DEF Spec

=============================================================================
