-------------------------- MODULE SessionRegistry --------------------------
(***************************************************************************)
(* The registry of listening sessions (internal/session/worker.go and      *)
(* reclaim.go): the Live objects in memory, the rows of                    *)
(* listening_sessions that outlive them, the requests that create, load,   *)
(* use and stop sessions, and the reclaim of what nobody uses any more.    *)
(*                                                                         *)
(* Of a session only its status counts here, "active" standing for         *)
(* "created" and "playing"; SessionQueue has the rest.  Instead of a clock *)
(* there are ages, which stop growing once they are beyond the idle TTL.   *)
(* Errors of the database are left out.                                    *)
(***************************************************************************)
EXTENDS Naturals, FiniteSets

CONSTANTS
  Sessions,       \* the opaque ids a create may draw
  Users, Owner,   \* the user each session would belong to
  MaxCallers,     \* requests under way at once (bound)
  NoSession,
  TTL,            \* IdleTTL, in ticks
  MaxPerUser, MaxConcurrent,
  MaxLives,       \* Live objects of one session at once (bound)
  MaxRequests, MaxRestarts   \* requests and restarts explored (bounds)

SessionsFit ==
  /\ IsFiniteSet(Sessions) /\ NoSession \notin Sessions
  /\ Owner \in [Sessions -> Users]

CapsFit ==
  /\ TTL \in Nat /\ MaxPerUser \in Nat \ {0} /\ MaxConcurrent \in Nat \ {0}
  /\ MaxCallers \in Nat /\ MaxLives \in Nat \ {0} /\ MaxRequests \in Nat /\ MaxRestarts \in Nat

ASSUME RegistryAssumption == SessionsFit /\ CapsFit

\* Requests under way; and the goroutine of web.go that reclaims every five minutes.
Callers == 1..MaxCallers
Reaper == 0
Procs == Callers \cup {Reaper}
Slots == 1..MaxLives
Lives == Sessions \X Slots

VARIABLES
  rowStat, rowAge,   \* status of each row, and the time since its updated_at
  stat, age,         \* Status of each Live, and the time since LastActive
  inMap,             \* Worker.sessions: which Live of a session is in it, or 0
  pc,                \* where each goroutine stands
  at,                \* the session its request is about
  op,                \* what the request is for
  todo,              \* the Lives it holds
  ids,               \* the rows it has selected for eviction
  room,              \* how many of them it needs to stop
  found,             \* the status of the row it has read
  scope,             \* whose sessions it evicts
  alone,             \* history: creates no other request has overlapped
  requests, restarts   \* how many of each so far

rowVars  == <<rowStat, rowAge>>
liveVars == <<stat, age, inMap>>
counters == <<alone, requests, restarts>>
procVars == <<pc, at, op, todo, ids, room, found, scope>>
vars == <<rowVars, liveVars, procVars, counters>>

Init ==
  /\ rowStat = [s \in Sessions |-> "none"] /\ rowAge = [s \in Sessions |-> 0]
  /\ stat = [l \in Lives |-> "none"] /\ age = [l \in Lives |-> 0]
  /\ inMap = [s \in Sessions |-> 0]
  /\ pc = [p \in Procs |-> "idle"] /\ at = [p \in Procs |-> NoSession]
  /\ op = [p \in Procs |-> "none"] /\ todo = [p \in Procs |-> {}]
  /\ ids = [p \in Procs |-> {}] /\ room = [p \in Procs |-> 0]
  /\ found = [p \in Procs |-> "none"]
  /\ scope = [p \in Procs |-> "user"]
  /\ alone = {} /\ requests = 0 /\ restarts = 0

Registered == {l \in Lives : inMap[l[1]] = l[2]}
Active == {l \in Registered : stat[l] = "active"}
ActiveRows(u) == {s \in Sessions : Owner[s] = u /\ rowStat[s] = "active"}

\* UpdateListeningSessionState
Write(s, status) ==
  /\ rowStat' = [rowStat EXCEPT ![s] = status]
  /\ rowAge' = [rowAge EXCEPT ![s] = 0]

Goto(p, next) == pc' = [pc EXCEPT ![p] = next]

\* p leaves l with a status; l is garbage unless it is in the map or held.  The
\* age of a Live that is stopped and not held, or neither in the map nor on its
\* way there, is never looked at, and kept 0.
Held(p, l) == \E q \in Procs \ {p} : l \in todo[q]

Leave(p, l, status) ==
  LET mapped == inMap[l[1]] = l[2]
  IN  /\ stat' = [stat EXCEPT ![l] = IF mapped \/ Held(p, l) THEN status ELSE "none"]
      /\ age' = [age EXCEPT ![l] = IF mapped /\ (status = "active" \/ Held(p, l))
                                   THEN @ ELSE 0]

\* Stop: status and row in one section of live.mu.
StopLive(p, l) == Leave(p, l, "stopped") /\ Write(l[1], "stopped")

\* The request of p is answered.
Return(p) ==
  /\ pc' = [pc EXCEPT ![p] = "idle"] /\ at' = [at EXCEPT ![p] = NoSession]
  /\ op' = [op EXCEPT ![p] = "none"] /\ todo' = [todo EXCEPT ![p] = {}]
  /\ ids' = [ids EXCEPT ![p] = {}] /\ room' = [room EXCEPT ![p] = 0]
  /\ found' = [found EXCEPT ![p] = "none"]
  /\ scope' = [scope EXCEPT ![p] = "user"]
  /\ alone' = alone \ {p}

-----------------------------------------------------------------------------
(***************************************************************************)
(* ReclaimIdle, by the reaper (and, the same way, by the listing handlers) *)
(* and by every create.                                                    *)
(***************************************************************************)
\* The idle sessions of the map.
Collect(p) ==
  /\ todo' = [todo EXCEPT ![p] = {l \in Active : age[l] > TTL}]
  /\ Goto(p, "stop")

Reap ==
  /\ pc[Reaper] = "idle"
  /\ Collect(Reaper)
  /\ UNCHANGED <<rowVars, liveVars, at, op, ids, room, found, scope, counters>>

StopIdle(p, l) ==
  /\ pc[p] = "stop" /\ l \in todo[p]
  /\ StopLive(p, l)
  /\ todo' = [todo EXCEPT ![p] = @ \ {l}]
  /\ UNCHANGED <<inMap, pc, at, op, ids, room, found, scope, counters>>

\* Mutant: only what is in memory is reclaimed.
StopStaleSkipped(p) ==
  /\ pc[p] = "stop" /\ todo[p] = {}
  /\ Goto(p, IF p = Reaper THEN "idle" ELSE "count")
  /\ UNCHANGED <<rowVars, liveVars, at, op, todo, ids, room, found, scope, counters>>

\* StopStaleListeningSessions
StopStale(p) ==
  /\ pc[p] = "stop" /\ todo[p] = {}
  /\ LET stale == {s \in Sessions : rowStat[s] = "active" /\ rowAge[s] > TTL}
     IN  /\ rowStat' = [s \in Sessions |-> IF s \in stale THEN "stopped" ELSE rowStat[s]]
         /\ rowAge' = [s \in Sessions |-> IF s \in stale THEN 0 ELSE rowAge[s]]
  /\ Goto(p, IF p = Reaper THEN "idle" ELSE "count")
  /\ UNCHANGED <<liveVars, at, op, todo, ids, room, found, scope, counters>>

-----------------------------------------------------------------------------
(***************************************************************************)
(* Create and CreateAlbum, with ensureCapacity.                            *)
(***************************************************************************)
\* A request arrives, in the first place free.  History: requests that overlap
\* are not alone.
Arrive(p) ==
  /\ p \in Callers /\ pc[p] = "idle" /\ \A q \in 1..(p - 1) : pc[q] # "idle"
  /\ requests < MaxRequests /\ requests' = requests + 1
  /\ alone' = IF op'[p] = "create" /\ \A q \in Callers : pc[q] = "idle" THEN {p} ELSE {}

Create(p, s) ==
  /\ rowStat[s] = "none" /\ \A q \in Callers : at[q] # s
  /\ at' = [at EXCEPT ![p] = s] /\ op' = [op EXCEPT ![p] = "create"]
  /\ Collect(p)
  /\ Arrive(p)
  /\ UNCHANGED <<rowVars, liveVars, ids, room, found, scope, restarts>>

\* The sessions p counts and evicts: its user's, then all.
Counted(p) ==
  {l \in Active : scope[p] = "user" => Owner[l[1]] = Owner[at[p]]}

Cap(p) == IF scope[p] = "user" THEN MaxPerUser ELSE MaxConcurrent

\* countActiveUser, countActiveGlobal
Count(p) ==
  /\ pc[p] = "count"
  /\ Goto(p, IF Cardinality(Counted(p)) >= Cap(p) THEN "pick"
             ELSE IF scope[p] = "user" THEN "rows" ELSE "insert")
  /\ UNCHANGED <<rowVars, liveVars, at, op, todo, ids, room, found, scope, counters>>

\* stopOldest chooses; with nothing left to stop the loop ends.
Pick(p) ==
  /\ pc[p] = "pick"
  /\ \/ \E l \in Counted(p) :
          /\ \A m \in Counted(p) : age[m] <= age[l]
          /\ todo' = [todo EXCEPT ![p] = {l}]
          /\ Goto(p, "evict")
     \/ /\ Counted(p) = {}
        /\ Goto(p, IF scope[p] = "user" THEN "rows" ELSE "insert")
        /\ UNCHANGED todo
  /\ UNCHANGED <<rowVars, liveVars, at, op, ids, room, found, scope, counters>>

Evict(p) ==
  /\ pc[p] = "evict"
  /\ \E l \in todo[p] : StopLive(p, l)
  /\ todo' = [todo EXCEPT ![p] = {}]
  /\ Goto(p, "count")
  /\ UNCHANGED <<inMap, at, op, ids, room, found, scope, counters>>

\* Mutant: one row too few makes room.
CountRowsShort(p) ==
  /\ pc[p] = "rows"
  /\ LET n == Cardinality(ActiveRows(Owner[at[p]]))
     IN  IF n > MaxPerUser
         THEN /\ room' = [room EXCEPT ![p] = n - MaxPerUser]
              /\ Goto(p, "select")
              /\ UNCHANGED scope
         ELSE /\ scope' = [scope EXCEPT ![p] = "all"]
              /\ Goto(p, "count")
              /\ UNCHANGED room
  /\ UNCHANGED <<rowVars, liveVars, at, op, todo, ids, found, counters>>

\* CountActiveListeningSessionsForUser
CountRows(p) ==
  /\ pc[p] = "rows"
  /\ LET n == Cardinality(ActiveRows(Owner[at[p]]))
     IN  IF n >= MaxPerUser
         THEN /\ room' = [room EXCEPT ![p] = n - MaxPerUser + 1]
              /\ Goto(p, "select")
              /\ UNCHANGED scope
         ELSE /\ scope' = [scope EXCEPT ![p] = "all"]
              /\ Goto(p, "count")
              /\ UNCHANGED room
  /\ UNCHANGED <<rowVars, liveVars, at, op, todo, ids, found, counters>>

\* StopOldestActiveListeningSessions, its query: by updated_at
SelectRows(p) ==
  /\ pc[p] = "select"
  /\ LET rows == ActiveRows(Owner[at[p]])
     IN  \E S \in SUBSET rows :
           /\ \/ Cardinality(S) = room[p]
              \/ S = rows /\ Cardinality(S) < room[p]
           /\ \A s \in S, t \in rows \ S : rowAge[t] <= rowAge[s]
           /\ ids' = [ids EXCEPT ![p] = S]
  /\ room' = [room EXCEPT ![p] = 0]
  /\ Goto(p, "stopRows")
  /\ UNCHANGED <<rowVars, liveVars, at, op, todo, found, scope, counters>>

\* ... and its updates.
EvictRow(p, s) ==
  /\ pc[p] = "stopRows" /\ s \in ids[p]
  /\ IF rowStat[s] = "active" THEN Write(s, "stopped") ELSE UNCHANGED rowVars
  /\ ids' = [ids EXCEPT ![p] = @ \ {s}]
  /\ UNCHANGED <<liveVars, pc, at, op, todo, room, found, scope, counters>>

RowsEvicted(p) ==
  /\ pc[p] = "stopRows" /\ ids[p] = {}
  /\ scope' = [scope EXCEPT ![p] = "all"]
  /\ Goto(p, "count")
  /\ UNCHANGED <<rowVars, liveVars, at, op, todo, ids, room, found, counters>>

\* The slot a new Live of s takes.
Free(s) == {k \in Slots : /\ stat[<<s, k>>] = "none"
                           /\ \A j \in 1..(k - 1) : stat[<<s, j>>] # "none"}

\* CreateListeningSession, and the new Live.
Insert(p) ==
  /\ pc[p] = "insert"
  /\ Write(at[p], "active")
  /\ \E k \in Free(at[p]) :
       /\ stat' = [stat EXCEPT ![<<at[p], k>>] = "active"]
       /\ age' = [age EXCEPT ![<<at[p], k>>] = 0]
       /\ todo' = [todo EXCEPT ![p] = {<<at[p], k>>}]
  /\ Goto(p, "persist")
  /\ UNCHANGED <<inMap, at, op, ids, room, found, scope, counters>>

\* persist, after the queue has been filled
Persist(p) ==
  /\ pc[p] = "persist"
  /\ Write(at[p], "active")
  /\ Goto(p, "register")
  /\ UNCHANGED <<liveVars, at, op, todo, ids, room, found, scope, counters>>

\* Live l enters the map with a status; what was there is garbage unless held.
Enter(l, status) ==
  LET s == l[1]
      gone(m) == m = <<s, inMap[s]>> /\ \A q \in Procs : m \notin todo[q]
  IN  /\ inMap' = [inMap EXCEPT ![s] = l[2]]
      /\ stat' = [m \in Lives |-> IF m = l THEN status
                                 ELSE IF gone(m) THEN "none" ELSE stat[m]]
      /\ age' = [m \in Lives |-> IF m # l /\ m = <<s, inMap[s]>> THEN 0 ELSE age[m]]

Register(p) ==
  /\ pc[p] = "register"
  /\ \E l \in todo[p] : Enter(l, stat[l])
  /\ Return(p)
  /\ UNCHANGED <<rowVars, requests, restarts>>

-----------------------------------------------------------------------------
(***************************************************************************)
(* The other handlers: get the session, then poll it, stop it or act on it *)
(* (feedback, back, inject, remove, reorder), and what an act starts.      *)
(***************************************************************************)
\* get finds the Live in the map, and touches it, or has to load the session.
Lookup(p, s) ==
  LET l == <<s, inMap[s]>>
  IN  IF inMap[s] # 0
      THEN /\ age' = [age EXCEPT ![l] = 0]
           /\ todo' = [todo EXCEPT ![p] = {l}]
           /\ Goto(p, "use")
      ELSE Goto(p, "load") /\ UNCHANGED <<age, todo>>

Request(p, s, what) ==
  /\ rowStat[s] # "none"
  /\ at' = [at EXCEPT ![p] = s] /\ op' = [op EXCEPT ![p] = what]
  /\ Lookup(p, s)
  /\ Arrive(p)
  /\ UNCHANGED <<rowVars, stat, inMap, ids, room, found, scope, restarts>>

\* get reads the row; a stale one is not resurrected.
Load(p) ==
  /\ pc[p] = "load"
  /\ LET s == at[p]
     IN  IF rowStat[s] = "active" /\ rowAge[s] > TTL
         THEN Goto(p, "loadStale") /\ UNCHANGED found
         ELSE Goto(p, "admit") /\ found' = [found EXCEPT ![p] = rowStat[s]]
  /\ UNCHANGED <<rowVars, liveVars, at, op, todo, ids, room, scope, counters>>

\* The row is stopped, and so is the Live, which stays out of the map.
LoadStale(p) ==
  /\ pc[p] = "loadStale"
  /\ Write(at[p], "stopped")
  /\ \E k \in Free(at[p]) :
       /\ stat' = [stat EXCEPT ![<<at[p], k>>] = "stopped"]
       /\ todo' = [todo EXCEPT ![p] = {<<at[p], k>>}]
  /\ Goto(p, "use")
  /\ UNCHANGED <<age, inMap, at, op, ids, room, found, scope, counters>>

\* The Live made from the row goes into the map, whatever is there by now.
Admit(p) ==
  /\ pc[p] = "admit"
  /\ \E k \in Free(at[p]) :
       /\ Enter(<<at[p], k>>, found[p])
       /\ todo' = [todo EXCEPT ![p] = {<<at[p], k>>}]
  /\ found' = [found EXCEPT ![p] = "none"]
  /\ Goto(p, "use")
  /\ UNCHANGED <<rowVars, at, op, ids, room, scope, counters>>

Poll(p, l) ==
  /\ op[p] = "poll"
  /\ Leave(p, l, stat[l])
  /\ Return(p)
  /\ UNCHANGED rowVars

Stop(p, l) ==
  /\ op[p] = "stop"
  /\ StopLive(p, l)
  /\ Return(p)

\* An act is refused, or persists a session that goes on, ends, or starts anew.
Act(p, l) ==
  /\ op[p] = "act"
  /\ \/ /\ Leave(p, l, stat[l])
        /\ Return(p)
        /\ UNCHANGED rowVars
     \/ \E status \in {"active", "stopped"} :
          /\ stat' = [stat EXCEPT ![l] = status]
          /\ Write(l[1], status)
          /\ Goto(p, "refill")
          /\ UNCHANGED <<age, at, op, todo, ids, room, found, scope, alone>>

Use(p) ==
  /\ pc[p] = "use"
  /\ \E l \in todo[p] : Poll(p, l) \/ Stop(p, l) \/ Act(p, l)
  /\ UNCHANGED <<inMap, requests, restarts>>

\* scheduleQueueRefill persists once more, if it did anything.
Refill(p) ==
  /\ pc[p] = "refill"
  /\ \E l \in todo[p] :
       /\ \/ stat[l] = "active" /\ Write(l[1], "active")
          \/ UNCHANGED rowVars
       /\ Leave(p, l, stat[l])
  /\ Return(p)
  /\ UNCHANGED <<inMap, requests, restarts>>

-----------------------------------------------------------------------------
\* Time passes.  The age of a stopped row is never looked at, nor that of a Live
\* as above.
Ages(l) ==
  \/ l \in Active
  \/ \E q \in Procs : /\ l \in todo[q]
                      /\ inMap[l[1]] = l[2] \/ pc[q] \in {"persist", "register"}

Older(a) == IF a > TTL THEN a ELSE a + 1

Tick ==
  /\ rowAge' = [s \in Sessions |-> IF rowStat[s] = "active" THEN Older(rowAge[s])
                                   ELSE 0]
  /\ age' = [l \in Lives |-> IF Ages(l) THEN Older(age[l]) ELSE 0]
  /\ UNCHANGED <<rowStat, stat, inMap, procVars, counters>>

\* The process is killed and starts again: only the rows remain.
Restart ==
  /\ restarts < MaxRestarts /\ restarts' = restarts + 1
  /\ stat' = [l \in Lives |-> "none"] /\ age' = [l \in Lives |-> 0]
  /\ inMap' = [s \in Sessions |-> 0]
  /\ pc' = [p \in Procs |-> "idle"] /\ at' = [p \in Procs |-> NoSession]
  /\ op' = [p \in Procs |-> "none"] /\ todo' = [p \in Procs |-> {}]
  /\ ids' = [p \in Procs |-> {}] /\ room' = [p \in Procs |-> 0]
  /\ found' = [p \in Procs |-> "none"]
  /\ scope' = [p \in Procs |-> "user"]
  /\ alone' = {}
  /\ UNCHANGED <<rowVars, requests>>

Reclaim(p) == (\E l \in todo[p] : StopIdle(p, l)) \/ StopStale(p)

CreateStep(p) ==
  \/ Count(p) \/ Pick(p) \/ Evict(p)
  \/ CountRows(p) \/ SelectRows(p) \/ RowsEvicted(p)
  \/ \E s \in ids[p] : EvictRow(p, s)
  \/ Insert(p) \/ Persist(p) \/ Register(p)

UseStep(p) ==
  Load(p) \/ LoadStale(p) \/ Admit(p) \/ Use(p) \/ Refill(p)

Step(p) == Reclaim(p) \/ CreateStep(p) \/ UseStep(p)

Next ==
  \/ Reap
  \/ \E p \in Procs : Step(p)
  \/ \E p \in Callers, s \in Sessions :
       Create(p, s) \/ \E what \in {"poll", "stop", "act"} : Request(p, s, what)
  \/ Tick
  \/ Restart

Spec == Init /\ [][Next]_vars

(***************************************************************************)
(* The reaper's ticker fires, requests that run go on, and time passes.    *)
(***************************************************************************)
Fairness ==
  WF_vars(Reap) /\ WF_vars(Tick) /\ \A p \in Procs : WF_vars(Step(p))

FairSpec == Spec /\ Fairness

-----------------------------------------------------------------------------
Statuses == {"none", "active", "stopped"}

TypeOK ==
  /\ rowStat \in [Sessions -> Statuses] /\ rowAge \in [Sessions -> 0..(TTL + 1)]
  /\ stat \in [Lives -> Statuses] /\ age \in [Lives -> 0..(TTL + 1)]
  /\ inMap \in [Sessions -> {0} \cup Slots]
  /\ pc \in [Procs -> {"idle", "stop", "count", "pick", "evict", "rows",
                       "select", "stopRows", "insert", "persist", "register",
                       "load", "loadStale", "admit", "use", "refill"}]
  /\ at \in [Procs -> Sessions \cup {NoSession}]
  /\ op \in [Procs -> {"none", "create", "poll", "stop", "act"}]
  /\ todo \in [Procs -> SUBSET Lives] /\ ids \in [Procs -> SUBSET Sessions]
  /\ room \in [Procs -> Nat] /\ found \in [Procs -> Statuses]
  /\ scope \in [Procs -> {"user", "all"}]
  /\ alone \subseteq Callers /\ requests \in 0..MaxRequests /\ restarts \in 0..MaxRestarts
  /\ \A l \in Registered : stat[l] # "none" /\ rowStat[l[1]] # "none"
  /\ \A p \in Procs : \A l \in todo[p] : stat[l] # "none"

(***************************************************************************)
(* ensureCapacity: a create that no other request overlaps leaves its user *)
(* within the cap, in memory and in the rows a restart goes by, and all    *)
(* users together within the global one.                                   *)
(***************************************************************************)
WithinCaps(u) ==
  /\ Cardinality({l \in Active : Owner[l[1]] = u}) <= MaxPerUser
  /\ Cardinality(ActiveRows(u)) <= MaxPerUser
  /\ Cardinality(Active) <= MaxConcurrent

CapsHold ==
  [][\A p \in Callers, u \in Users :
       Register(p) /\ p \in alone /\ u = Owner[at[p]] => WithinCaps(u)']_vars

(***************************************************************************)
(* A session no request is about any more is stopped in the end, in its    *)
(* row and in memory, through whatever creates, loads, orphaned objects    *)
(* and restarts it has been.                                               *)
(***************************************************************************)
Used(s) == \E p \in Callers : at[p] = s

Dead(s) == rowStat[s] # "active" /\ \A l \in Active : l[1] # s

AbandonedStops == \A s \in Sessions : (<>[]~Used(s)) => <>[]Dead(s)

=============================================================================
