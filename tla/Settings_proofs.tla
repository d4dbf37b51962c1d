---------------------------- MODULE Settings_proofs ----------------------------
(***************************************************************************)
(* Proofs about Settings: for any records, sessions and number of requests *)
(* in flight, stopping one session ends no other, and a preference record  *)
(* with nothing in flight about it is shown as it is stored.  Neither is   *)
(* inductive: the first rests on what the player refers to while a Stop of *)
(* its session is in flight, the second on there being one request about a *)
(* record, whose answer is what is stored.                                 *)
(***************************************************************************)
EXTENDS Settings, TLAPS

\* The fields of a call.
IsCall(c) ==
    c = [op |-> c.op, get |-> c.get, at |-> c.at, arg |-> c.arg, val |-> c.val,
         own |-> c.own, here |-> c.here]

CallInv ==
    /\ call = [i \in Slots |-> call[i]]
    /\ \A i \in Slots : IsCall(call[i])
    /\ \A i \in Slots : call[i].own \in BOOLEAN
    /\ \A i \in Slots : call[i].at = "read" => call[i].get = "patch"

StopOf(i) ==
    /\ call[i].get \in {"stop", "quit"} => call[i].arg \in asked \cup caught
    /\ call[i].own =>
        /\ i \in OpSlots /\ call[i].op = "sessions" /\ call[i].get = "stop"
        /\ live \in {None} \cup asked \cup caught

\* Whatever a stop is about to end was asked for, and so is what the player has
\* while a Stop of its own session is in flight.
StopInv ==
    /\ active \subseteq Sessions
    /\ ref \in {None, live}
    /\ \A i \in Slots : StopOf(i)

\* A record no request of which overlapped another has one in flight or none,
\* and the answer is what is stored.
RecordInv(k) ==
    /\ \A i, j \in Slots : call[i].op = k /\ call[j].op = k => i = j
    /\ \A i \in Slots : call[i].op = k =>
        /\ call[i].here /\ call[i].get \in {"prefs", "patch"}
        /\ call[i].at = "told" => call[i].val = saved[k]
    /\ Pending(k) \/ shown[k] \in {None, saved[k]}

SavedInv ==
    /\ saved = [k \in Kinds |-> saved[k]] /\ shown = [k \in Kinds |-> shown[k]]
    /\ \A k \in Loaded \ doubt : RecordInv(k)

-----------------------------------------------------------------------------
(* Calls.                                                                  *)

\* A new call, and the idle slot.
LEMMA CallFacts ==
    /\ \A op, get, arg :
        /\ IsCall(Call(op, get, arg))
        /\ Call(op, get, arg).op = op /\ Call(op, get, arg).get = get
        /\ Call(op, get, arg).arg = arg /\ Call(op, get, arg).at = "asked"
        /\ Call(op, get, arg).own = FALSE /\ Call(op, get, arg).here = TRUE
    /\ IsCall(Idle) /\ Idle.op = None /\ Idle.get = "none" /\ Idle.at = "idle"
    /\ Idle.own = FALSE
<1>1. \A op, get, arg :
        /\ IsCall(Call(op, get, arg))
        /\ Call(op, get, arg).op = op /\ Call(op, get, arg).get = get
        /\ Call(op, get, arg).arg = arg /\ Call(op, get, arg).at = "asked"
        /\ Call(op, get, arg).own = FALSE /\ Call(op, get, arg).here = TRUE
  BY DEF Call, IsCall
<1>2. IsCall(Idle) /\ Idle.op = None /\ Idle.get = "none" /\ Idle.at = "idle" /\ Idle.own = FALSE
  BY DEF IsCall, Idle
<1> QED
  BY <1>1, <1>2

\* What Mounted has in each slot.
LEMMA MountedFacts ==
    /\ Mounted = [i \in Slots |-> Mounted[i]]
    /\ \A i \in Slots :
        /\ i \in LoadSlots => Mounted[i] = Call(i[1], "prefs", None)
        /\ i \notin LoadSlots => Mounted[i] = Idle
  BY DEF Mounted

\* The sorts of slots are disjoint, and each record has one load.
LEMMA SlotFacts ==
    /\ \A i \in OpSlots \cup PollSlots : i \in Slots /\ i \notin LoadSlots
    /\ \A i \in OpSlots : i \notin PollSlots
    /\ \A i, j \in LoadSlots : i[1] = j[1] => i = j
    /\ \A i \in LoadSlots : i \in Slots /\ i[1] \in Loaded
    /\ \A k \in Loaded : <<k, 0>> \in LoadSlots /\ <<k, 0>>[1] = k
    /\ \A i \in Slots : i \in OpSlots \/ i \in PollSlots \/ i \in LoadSlots
<1>1. \A i \in OpSlots \cup PollSlots : i[2] \in Nat \ {0}
  BY BoundsAssumption DEF OpSlots, PollSlots
<1>2. \A i \in LoadSlots : i[2] = 0 /\ i[1] \in Loaded /\ i = <<i[1], 0>>
  BY DEF LoadSlots
<1>3. \A i \in OpSlots : i \notin PollSlots
  BY DEF OpSlots, PollSlots
<1> QED
  BY <1>1, <1>2, <1>3 DEF Slots, LoadSlots

\* The names of the records are no other operation's, nor the idle slot's.
LEMMA RecordNames ==
    \A k \in Loaded :
        /\ k \in Kinds /\ k # "schedule" /\ k # None
        /\ k \notin Polls \cup {"scan", "embed-start", "embed-stop", "end-station",
                             "password", "sessions"}
  BY KindsAssumption, SessionsAssumption DEF Loaded, Polls

\* d is the call c whose request has come to at, with val.
Moved(d, c, at, val) ==
    /\ IsCall(d) /\ d.op = c.op /\ d.get = c.get /\ d.arg = c.arg
    /\ d.own = c.own /\ d.here = c.here
    /\ d.at = at /\ d.val = val

\* The request of call i comes to at, with val; or slot i takes the call c.
Moves(i, at, val) ==
    /\ Moved(call'[i], call[i], at, val)
    /\ \A j \in Slots \ {i} : call'[j] = call[j]
    /\ call' = [j \in Slots |-> call'[j]]

Puts(i, c) ==
    /\ call'[i] = c
    /\ \A j \in Slots \ {i} : call'[j] = call[j]
    /\ call' = [j \in Slots |-> call'[j]]

LEMMA MovesFacts ==
    ASSUME CallInv, NEW i \in Slots, NEW at, NEW val,
           \/ call' = [call EXCEPT ![i].at = at, ![i].val = val]
           \/ call' = [call EXCEPT ![i].at = at] /\ val = call[i].val
    PROVE  Moves(i, at, val)
<1>1. IsCall(call[i])
  BY DEF CallInv
<1>3. Moved(call'[i], call[i], at, val)
  <2>1. ASSUME call' = [call EXCEPT ![i].at = at], val = call[i].val
        PROVE  Moved(call'[i], call[i], at, val)
    <3>1. call'[i] = [call[i] EXCEPT !.at = at]
      BY <2>1 DEF CallInv
    <3> QED
      BY <1>1, <2>1, <3>1 DEF Moved, IsCall
  <2>2. ASSUME call' = [call EXCEPT ![i].at = at, ![i].val = val]
        PROVE  Moved(call'[i], call[i], at, val)
    <3> DEFINE mid == [call EXCEPT ![i].at = at]
    <3>1. mid[i] = [call[i] EXCEPT !.at = at] /\ mid = [j \in Slots |-> mid[j]]
      BY DEF CallInv
    <3>2. Moved(mid[i], call[i], at, call[i].val)
      BY <1>1, <3>1 DEF Moved, IsCall
    <3>3. call' = [mid EXCEPT ![i].val = val]
      BY <2>2
    <3> HIDE DEF mid
    <3>4. call'[i] = [mid[i] EXCEPT !.val = val]
      BY <3>1, <3>3
    <3> QED
      BY <3>2, <3>4 DEF Moved, IsCall
  <2> QED
    BY <2>1, <2>2
<1>4. (\A j \in Slots \ {i} : call'[j] = call[j]) /\ call' = [j \in Slots |-> call'[j]]
  BY DEF CallInv
<1> QED
  BY <1>3, <1>4 DEF Moves

LEMMA PutsFacts ==
    ASSUME CallInv, NEW i \in Slots, NEW c, call' = [call EXCEPT ![i] = c]
    PROVE  Puts(i, c)
  BY DEF CallInv, Puts

\* What keeps CallInv.
LEMMA MovesKept ==
    ASSUME CallInv, NEW i \in Slots, NEW at, NEW val, Moves(i, at, val),
           at = "read" => call[i].get = "patch"
    PROVE  CallInv'
  BY DEF Moves, Moved, CallInv

LEMMA PutsKept ==
    ASSUME CallInv, NEW i \in Slots, NEW c, Puts(i, c),
           IsCall(c), c.own \in BOOLEAN, c.at # "read"
    PROVE  CallInv'
  BY DEF Puts, CallInv

-----------------------------------------------------------------------------
(* What each step does to the calls.                                       *)

\* The call a user's operation starts.
Starts(c) ==
    \E i \in OpSlots : call[i] = Idle /\ Puts(i, c)

LEMMA BeginFacts ==
    ASSUME CallInv, NEW c, Begin(c)
    PROVE  Starts(c)
  BY SlotFacts, PutsFacts DEF Begin, Free, Starts

\* c is the next request of an answered call, about what it asks now.
NextOf(c, i, get, arg) ==
    /\ IsCall(c) /\ c.op = call[i].op /\ c.get = get /\ c.at = "asked"
    /\ c.arg = arg /\ c.own = FALSE /\ c.here = call[i].here

\* An answered call goes on with another request, or its slot is idle.
LEMMA ContinuesFacts ==
    ASSUME CallInv, NEW i \in Slots, NEW get, NEW arg, Continues(i, get, arg)
    PROVE  \E c : Puts(i, c) /\ NextOf(c, i, get, arg)
<1> DEFINE b == Call(call[i].op, get, arg)
           c == [b EXCEPT !.here = call[i].here]
<1>1. call' = [call EXCEPT ![i] = c]
  BY DEF Continues, CallInv
<1>2. NextOf(c, i, get, arg)
  <2>1. /\ IsCall(b) /\ b.op = call[i].op /\ b.get = get /\ b.at = "asked"
        /\ b.arg = arg /\ b.own = FALSE
    BY CallFacts
  <2> HIDE DEF b
  <2> QED
    BY <2>1 DEF IsCall, NextOf
<1> HIDE DEF c
<1> QED
  BY <1>1, <1>2, PutsFacts

LEMMA EndsFacts ==
    ASSUME CallInv, NEW i \in Slots, Ends(i)
    PROVE  Puts(i, Idle)
  BY PutsFacts DEF Ends

\* The calls that operations start.
LEMMA StopCallFacts ==
    ASSUME NEW id
    PROVE  LET c == [Call("sessions", "stop", id) EXCEPT !.own = Own(id)] IN
           /\ IsCall(c) /\ c.op = "sessions" /\ c.get = "stop" /\ c.at = "asked"
           /\ c.arg = id /\ c.own = (live = id) /\ c.here
<1> DEFINE b == Call("sessions", "stop", id)
           c == [b EXCEPT !.own = Own(id)]
<1>1. /\ IsCall(b) /\ b.op = "sessions" /\ b.get = "stop" /\ b.at = "asked"
      /\ b.arg = id /\ b.here
  BY CallFacts
<1>2. c = [b EXCEPT !.own = (live = id)]
  BY DEF Own
<1> HIDE DEF b
<1>3. /\ IsCall(c) /\ c.op = "sessions" /\ c.get = "stop" /\ c.at = "asked"
      /\ c.arg = id /\ c.own = (live = id) /\ c.here
  BY <1>1, <1>2 DEF IsCall
<1> QED
  BY <1>3 DEF b

\* The page is left and comes back: its loads start again, operations go on.
LEMMA RemountFacts ==
    ASSUME CallInv, Remount
    PROVE  /\ call' = [i \in Slots |-> call'[i]]
           /\ \A i \in Slots :
                \/ /\ i \in OpSlots
                   /\ IsCall(call'[i]) /\ call'[i].op = call[i].op /\ call'[i].get = call[i].get
                   /\ call'[i].at = call[i].at /\ call'[i].arg = call[i].arg
                   /\ call'[i].own = call[i].own
                \/ call'[i] = Idle
                \/ i \in LoadSlots /\ call'[i] = Call(i[1], "prefs", None)
<1>1. call' = [i \in Slots |-> call'[i]]
  BY DEF Remount
<1>2. ASSUME NEW i \in Slots, i \in OpSlots, call[i] # Idle
      PROVE  /\ IsCall(call'[i]) /\ call'[i].op = call[i].op /\ call'[i].get = call[i].get
             /\ call'[i].at = call[i].at /\ call'[i].arg = call[i].arg
             /\ call'[i].own = call[i].own
  <2>1. call'[i] = [call[i] EXCEPT !.here = FALSE] /\ IsCall(call[i])
    BY <1>2 DEF Remount, CallInv
  <2> QED
    BY <2>1 DEF IsCall
<1>3. ASSUME NEW i \in Slots, ~(i \in OpSlots /\ call[i] # Idle)
      PROVE  call'[i] = Idle \/ (i \in LoadSlots /\ call'[i] = Call(i[1], "prefs", None))
  BY <1>3, MountedFacts DEF Remount
<1> QED
  BY <1>1, <1>2, <1>3

TellsStored(i, val) ==
    IF WriteRow(i) THEN saved' = [saved EXCEPT ![call[i].op] = val]
    ELSE /\ call[i].get # "patch"
         /\ call[i].get = "prefs" => val = saved[call[i].op]

\* What the server, or a loss, does to a call: its request moves on.  What a read
\* or a save is told is what is stored.
LEMMA ServedFacts ==
    ASSUME CallInv, NEW i \in Slots, Serve(i) \/ Lose(i)
    PROVE  \E at, val :
            /\ Moves(i, at, val)
            /\ at = "read" => call[i].get = "patch"
            /\ at = "told" => TellsStored(i, val)
            /\ WriteRow(i) => at = "told"
<1>1. CASE ServeGet(i)
  <2> DEFINE v == CASE call[i].get = "status" -> [running |-> running, saved |-> saved]
                    [] call[i].get = "list" -> active
                    [] call[i].get = "prefs" -> saved[call[i].op]
  <2>1. call' = [call EXCEPT ![i].at = "told", ![i].val = v]
    BY <1>1 DEF ServeGet
  <2>2. call[i].get = "prefs" => v = saved[call[i].op]
    OBVIOUS
  <2>3. call[i].at = "asked" /\ call[i].get \in {"status", "list", "prefs"}
    BY <1>1 DEF ServeGet
  <2> HIDE DEF v
  <2>4. Moves(i, "told", v)
    BY <2>1, MovesFacts
  <2> QED
    BY <2>2, <2>3, <2>4 DEF WriteRow, TellsStored
<1>2. CASE ReadRow(i)
  <2>1. Moves(i, "read", saved[call[i].op]) /\ call[i].get = "patch" /\ call[i].at = "asked"
    BY <1>2, MovesFacts DEF ReadRow
  <2> QED
    BY <2>1 DEF WriteRow
<1>3. CASE WriteRow(i)
  <2>1. PICK row : /\ saved' = [saved EXCEPT ![call[i].op] = row]
                   /\ call' = [call EXCEPT ![i].at = "told", ![i].val = row]
    BY <1>3 DEF WriteRow
  <2>2. Moves(i, "told", row)
    BY <2>1, MovesFacts
  <2> QED
    BY <1>3, <2>1, <2>2 DEF TellsStored
<1>4. CASE ServeJob(i) \/ ServeStop(i) \/ ServePassword(i)
  <2>1. /\ call[i].get \in {"start", "halt", "stop", "quit", "password"} /\ call[i].at = "asked"
        /\ \E at \in {"told", "lost"} : call' = [call EXCEPT ![i].at = at]
    BY <1>4 DEF ServeJob, ServeStop, ServePassword
  <2>2. PICK at \in {"told", "lost"} : Moves(i, at, call[i].val)
    BY <2>1, MovesFacts
  <2> QED
    BY <2>1, <2>2 DEF WriteRow, TellsStored
<1>5. CASE Lose(i)
  <2>1. Moves(i, "lost", None) /\ call[i].at \in {"asked", "told"}
    BY <1>5, MovesFacts DEF Lose
  <2> QED
    BY <2>1 DEF WriteRow
<1> QED
  BY <1>1, <1>2, <1>3, <1>4, <1>5 DEF Serve

LEMMA CallStep == CallInv /\ [Next]_vars => CallInv'
<1> SUFFICES ASSUME CallInv, [Next]_vars PROVE CallInv'
  OBVIOUS
<1>1. ASSUME call' = call PROVE CallInv'
  BY <1>1 DEF CallInv
<1>2. ASSUME NEW c, Begin(c), IsCall(c), c.own \in BOOLEAN, c.at = "asked" PROVE CallInv'
  <2>1. PICK i \in OpSlots : Puts(i, c)
    BY <1>2, BeginFacts DEF Starts
  <2>2. i \in Slots /\ c.at # "read"
    BY <1>2, SlotFacts
  <2> QED
    BY <1>2, <2>1, <2>2, PutsKept
<1>3. ASSUME NEW op, NEW get, NEW arg, Begin(Call(op, get, arg)) PROVE CallInv'
  <2> DEFINE c == Call(op, get, arg)
  <2>1. IsCall(c) /\ c.own = FALSE /\ c.at = "asked" /\ Begin(c)
    BY <1>3, CallFacts
  <2> HIDE DEF c
  <2> QED
    BY <1>2, <2>1
<1>4. CASE UNCHANGED vars
  BY <1>1, <1>4 DEF vars
<1>5. CASE \/ startScan \/ startEmbed \/ stopEmbed \/ changePassword \/ endStation
           \/ \E k \in Kinds : Patch(k)
  BY <1>3, <1>5 DEF startScan, startEmbed, stopEmbed, changePassword, endStation, Patch
<1>6. CASE stopListeningSession
  <2>1. PICK id \in list : Begin([Call("sessions", "stop", id) EXCEPT !.own = Own(id)])
    BY <1>6 DEF stopListeningSession
  <2> DEFINE c == [Call("sessions", "stop", id) EXCEPT !.own = Own(id)]
  <2>2. IsCall(c) /\ c.own = (live = id) /\ c.at = "asked" /\ Begin(c)
    BY <2>1, StopCallFacts
  <2> HIDE DEF c
  <2> QED
    BY <1>2, <2>2
<1>7. CASE startRadio \/ JobStarts \/ JobEnds \/ EndsElsewhere
  BY <1>1, <1>7 DEF startRadio, JobStarts, JobEnds, EndsElsewhere
<1>8. CASE Remount
  <2>1. ASSUME NEW i \in Slots
        PROVE  /\ IsCall(call'[i]) /\ call'[i].own \in BOOLEAN
               /\ call'[i].at = "read" => call'[i].get = "patch"
    <3>1. CASE /\ IsCall(call'[i]) /\ call'[i].op = call[i].op /\ call'[i].get = call[i].get
               /\ call'[i].at = call[i].at /\ call'[i].arg = call[i].arg
               /\ call'[i].own = call[i].own
      BY <3>1 DEF CallInv
    <3>2. CASE call'[i] = Idle
      BY <3>2, CallFacts
    <3>3. CASE call'[i] = Call(i[1], "prefs", None)
      <4> DEFINE c == Call(i[1], "prefs", None)
      <4>1. IsCall(c) /\ c.own = FALSE /\ c.at = "asked" /\ call'[i] = c
        BY <3>3, CallFacts
      <4> HIDE DEF c
      <4> QED
        BY <4>1
    <3> QED
      BY <1>8, <3>1, <3>2, <3>3, RemountFacts
  <2>2. call' = [i \in Slots |-> call'[i]]
    BY <1>8, RemountFacts
  <2> QED
    BY <2>1, <2>2 DEF CallInv
<1>9. ASSUME NEW i \in Slots, Serve(i) \/ Lose(i) PROVE CallInv'
  <2>1. PICK at, val : Moves(i, at, val) /\ (at = "read" => call[i].get = "patch")
    BY <1>9, ServedFacts
  <2> QED
    BY <2>1, MovesKept
<1>10. ASSUME NEW i \in Slots, Answer(i) PROVE CallInv'
  <2>1. ASSUME NEW get, NEW arg, Continues(i, get, arg) PROVE CallInv'
    <3>1. PICK c : Puts(i, c) /\ NextOf(c, i, get, arg)
      BY <2>1, ContinuesFacts
    <3>2. IsCall(c) /\ c.own = FALSE /\ c.at = "asked"
      BY <3>1 DEF NextOf
    <3> QED
      BY <3>1, <3>2, PutsKept
  <2>2. ASSUME Ends(i) PROVE CallInv'
    <3>1. Puts(i, Idle) /\ IsCall(Idle) /\ Idle.own = FALSE /\ Idle.at = "idle"
      BY <2>2, EndsFacts, CallFacts
    <3> QED
      BY <3>1, PutsKept
  <2> QED
    BY <1>10, <2>1, <2>2 DEF Answer, Got, Patched, JobAnswered, PasswordAnswered, StopAnswered,
                             QuitAnswered
<1>11. ASSUME NEW poll \in Polls, Poll(poll) PROVE CallInv'
  <2>1. PICK i \in PollSlots :
            call' = [call EXCEPT ![i] = Call(poll, IF poll = "refresh" THEN "status" ELSE "list", None)]
    BY <1>11 DEF Poll
  <2> DEFINE c == Call(poll, IF poll = "refresh" THEN "status" ELSE "list", None)
  <2>2. IsCall(c) /\ c.own = FALSE /\ c.at = "asked"
    BY CallFacts
  <2>3. call' = [call EXCEPT ![i] = c] /\ i \in Slots
    BY <2>1, SlotFacts
  <2> HIDE DEF c
  <2> QED
    BY <2>2, <2>3, PutsFacts, PutsKept
<1> QED
  BY <1>4, <1>5, <1>6, <1>7, <1>8, <1>9, <1>10, <1>11 DEF Next, Acts

-----------------------------------------------------------------------------
(* Stopping sessions.                                                      *)

Grows == asked \subseteq asked' /\ caught \subseteq caught'

\* A call that keeps what it asks for, and one that asks for nothing.
LEMMA StopKept ==
    ASSUME NEW i \in Slots, StopOf(i), Grows, live' \in {live, None},
           call'[i].op = call[i].op, call'[i].get = call[i].get,
           call'[i].arg = call[i].arg, call'[i].own = call[i].own
    PROVE  StopOf(i)'
  BY DEF StopOf, Grows

LEMMA StopPut ==
    ASSUME NEW i \in Slots, call'[i].own = FALSE,
           call'[i].get \in {"stop", "quit"} => call'[i].arg \in asked' \cup caught'
    PROVE  StopOf(i)'
  BY DEF StopOf

\* One slot takes a call; the others keep theirs.
LEMMA StopPuts ==
    ASSUME StopInv, NEW i \in Slots, NEW c, Puts(i, c), Grows, live' \in {live, None},
           c.own = FALSE, c.get \in {"stop", "quit"} => c.arg \in asked' \cup caught'
    PROVE  \A j \in Slots : StopOf(j)'
<1>1. StopOf(i)'
  BY StopPut DEF Puts
<1>2. ASSUME NEW j \in Slots \ {i} PROVE StopOf(j)'
  BY StopKept DEF StopInv, Puts
<1> QED
  BY <1>1, <1>2

LEMMA StopStep ==
    CallInv /\ StopInv /\ [Next]_vars => StopInv' /\ active \ active' \subseteq asked' \cup caught'
<1> DEFINE Goal == StopInv' /\ active \ active' \subseteq asked' \cup caught'
<1> SUFFICES ASSUME CallInv, StopInv, [Next]_vars PROVE Goal
  OBVIOUS
<1>0. Current \in {ref, live} /\ (Current = None => live = None)
  BY DEF Current, StopInv
<1>1. ASSUME call' = call, live' \in {live, None}, ref' \in {None, live'}, Grows,
             active' \subseteq active, active \ active' \subseteq asked'
      PROVE  Goal
  <2>1. \A i \in Slots : StopOf(i)'
    BY <1>1, StopKept DEF StopInv
  <2> QED
    BY <1>1, <2>1 DEF StopInv
<1>2. ASSUME NEW c, Begin(c), UNCHANGED player, UNCHANGED active, Grows, c.own = FALSE,
             c.get \in {"stop", "quit"} => c.arg \in asked' \cup caught'
      PROVE  Goal
  <2>1. PICK i \in Slots : Puts(i, c)
    BY <1>2, BeginFacts, SlotFacts DEF Starts
  <2>2. live' = live /\ ref' = ref /\ active' = active
    BY <1>2 DEF player
  <2>3. \A j \in Slots : StopOf(j)'
    BY <1>2, <2>1, <2>2, StopPuts
  <2> QED
    BY <2>2, <2>3 DEF StopInv
<1>3. ASSUME NEW op, NEW get, NEW arg, Begin(Call(op, get, arg)), Grows,
             get \in {"stop", "quit"} => arg \in asked' \cup caught'
      PROVE  Goal
  <2> DEFINE c == Call(op, get, arg)
  <2>1. c.own = FALSE /\ c.get = get /\ c.arg = arg /\ Begin(c)
    BY <1>3, CallFacts
  <2>2. UNCHANGED player /\ UNCHANGED active
    BY <2>1 DEF Begin, server, player
  <2> HIDE DEF c
  <2> QED
    BY <1>2, <1>3, <2>1, <2>2
<1>4. CASE UNCHANGED vars
  BY <1>1, <1>4 DEF vars, server, player, history, Grows, StopInv
<1>5. CASE startScan \/ startEmbed \/ stopEmbed \/ changePassword
  BY <1>3, <1>5 DEF startScan, startEmbed, stopEmbed, changePassword, history, Grows
<1>6. ASSUME NEW k \in Kinds, Patch(k) PROVE Goal
  BY <1>3, <1>6 DEF Patch, Grows
<1>7. CASE endStation
  BY <1>3, <1>7 DEF endStation, Grows
<1>8. CASE stopListeningSession
  <2>1. PICK id \in list : /\ Begin([Call("sessions", "stop", id) EXCEPT !.own = Own(id)])
                           /\ asked' = asked \cup {id} /\ UNCHANGED caught
    BY <1>8 DEF stopListeningSession
  <2> DEFINE c == [Call("sessions", "stop", id) EXCEPT !.own = Own(id)]
  <2>2. /\ c.op = "sessions" /\ c.get = "stop" /\ c.arg = id /\ c.own = (live = id)
        /\ Begin(c)
    BY <2>1, StopCallFacts
  <2> HIDE DEF c
  <2>3. live' = live /\ ref' = ref /\ active' = active
    BY <2>2 DEF Begin, player, server
  <2>4. PICK i \in OpSlots : Puts(i, c)
    BY <2>2, BeginFacts DEF Starts
  <2>5. StopOf(i)'
    BY <2>1, <2>2, <2>3, <2>4 DEF StopOf, Puts
  <2>6. ASSUME NEW j \in Slots \ {i} PROVE StopOf(j)'
    BY <2>1, <2>3, <2>4, StopKept DEF StopInv, Puts, Grows
  <2> QED
    BY <2>3, <2>4, <2>5, <2>6 DEF StopInv
<1>9. CASE startRadio
  <2>1. PICK s \in Sessions : /\ active' = (active \ {ref}) \cup {s}
                              /\ ref' = s /\ live' = s /\ asked' = asked \cup ({ref} \ {None})
                              /\ caught' = IF \E i \in OpSlots : call[i].op = "sessions" /\ call[i].own
                                           THEN caught \cup {s} ELSE caught
                              /\ call' = call
    BY <1>9 DEF startRadio
  <2>2. Grows
    BY <2>1 DEF Grows
  <2>3. ASSUME NEW i \in Slots PROVE StopOf(i)'
    <3>1. CASE call[i].own
      <4>1. i \in OpSlots /\ call[i].op = "sessions"
        BY <3>1 DEF StopInv, StopOf
      <4>2. s \in caught'
        BY <2>1, <3>1, <4>1
      <4> QED
        BY <2>1, <2>2, <4>2 DEF StopInv, StopOf, Grows
    <3>2. CASE ~call[i].own
      BY <2>1, <2>2, <3>2 DEF StopInv, StopOf, Grows
    <3> QED
      BY <3>1, <3>2
  <2>4. None \notin active
    BY SessionsAssumption DEF StopInv
  <2> QED
    BY <2>1, <2>3, <2>4 DEF StopInv
<1>10. CASE JobStarts \/ JobEnds \/ EndsElsewhere
  BY <1>1, <1>10 DEF JobStarts, JobEnds, EndsElsewhere, player, history, Grows, StopInv
<1>11. CASE Remount
  <2>1. live' = live /\ ref' = ref /\ active' = active /\ Grows
    BY <1>11 DEF Remount, player, server, Grows
  <2>2. ASSUME NEW i \in Slots PROVE StopOf(i)'
    <3>1. CASE /\ IsCall(call'[i]) /\ call'[i].op = call[i].op /\ call'[i].get = call[i].get
               /\ call'[i].at = call[i].at /\ call'[i].arg = call[i].arg
               /\ call'[i].own = call[i].own
      BY <2>1, <3>1, StopKept DEF StopInv
    <3>2. CASE call'[i] = Idle
      BY <3>2, CallFacts, StopPut
    <3>3. CASE call'[i] = Call(i[1], "prefs", None)
      <4> DEFINE c == Call(i[1], "prefs", None)
      <4>1. c.own = FALSE /\ c.get = "prefs" /\ call'[i] = c
        BY <3>3, CallFacts
      <4> HIDE DEF c
      <4> QED
        BY <4>1, StopPut
    <3> QED
      BY <1>11, <3>1, <3>2, <3>3, RemountFacts
  <2> QED
    BY <2>1, <2>2 DEF StopInv
<1>12. ASSUME NEW i \in Slots, Serve(i) \/ Lose(i) PROVE Goal
  <2>1. PICK at, val : Moves(i, at, val)
    BY <1>12, ServedFacts
  <2>2. live' = live /\ ref' = ref /\ Grows
    BY <1>12 DEF Serve, Lose, ServeGet, ReadRow, WriteRow, ServeJob, ServeStop, ServePassword,
                 player, history, Grows
  <2>3. active' = active \/ (call[i].get \in {"stop", "quit"} /\ active' = active \ {call[i].arg})
    BY <1>12 DEF Serve, Lose, ServeGet, ReadRow, WriteRow, ServeJob, ServeStop, ServePassword,
                 server
  <2>4. ASSUME NEW j \in Slots PROVE StopOf(j)'
    BY <2>1, <2>2, StopKept DEF StopInv, Moves, Moved
  <2>5. active' \subseteq active /\ active \ active' \subseteq asked' \cup caught'
    BY <2>2, <2>3 DEF StopInv, StopOf, Grows
  <2> QED
    BY <2>2, <2>4, <2>5 DEF StopInv
<1>13. ASSUME NEW i \in Slots, Answer(i) PROVE Goal
  <2>1. ASSUME NEW get, NEW arg, Continues(i, get, arg), Grows, live' \in {live, None},
               get \in {"stop", "quit"} => arg \in asked' \cup caught'
        PROVE  \A j \in Slots : StopOf(j)'
    <3>1. PICK c : Puts(i, c) /\ NextOf(c, i, get, arg)
      BY <2>1, ContinuesFacts
    <3>2. c.own = FALSE /\ c.get = get /\ c.arg = arg
      BY <3>1 DEF NextOf
    <3> QED
      BY <2>1, <3>1, <3>2, StopPuts
  <2>2. ASSUME Ends(i), Grows, live' \in {live, None} PROVE \A j \in Slots : StopOf(j)'
    <3>1. Puts(i, Idle) /\ Idle.own = FALSE /\ Idle.get = "none"
      BY <2>2, EndsFacts, CallFacts
    <3> QED
      BY <2>2, <3>1, StopPuts
  <2>3. Grows /\ live' \in {live, None} /\ ref' \in {None, live'} /\ active' = active
    BY <1>13 DEF Answer, Got, Patched, JobAnswered, PasswordAnswered, StopAnswered, QuitAnswered,
                 server, player, history, Grows, StopInv
  <2>4. ASSUME call[i].own, Current # None PROVE Current \in asked' \cup caught'
    BY <1>0, <2>3, <2>4 DEF StopInv, StopOf, Grows
  <2>5. \A j \in Slots : StopOf(j)'
    BY <1>13, <2>1, <2>2, <2>3, <2>4
    DEF Answer, Got, Patched, JobAnswered, PasswordAnswered, StopAnswered, QuitAnswered
  <2> QED
    BY <2>3, <2>5 DEF StopInv
<1>14. ASSUME NEW poll \in Polls, Poll(poll) PROVE Goal
  <2> DEFINE c == Call(poll, IF poll = "refresh" THEN "status" ELSE "list", None)
  <2>1. c.own = FALSE /\ c.get \notin {"stop", "quit"}
    BY CallFacts
  <2>2. PICK i \in PollSlots : call' = [call EXCEPT ![i] = c]
    BY <1>14 DEF Poll
  <2> HIDE DEF c
  <2>3. i \in Slots /\ Puts(i, c)
    BY <2>2, PutsFacts, SlotFacts
  <2>4. live' = live /\ ref' = ref /\ Grows /\ active' = active
    BY <1>14 DEF Poll, server, player, history, Grows
  <2>5. \A j \in Slots : StopOf(j)'
    BY <2>1, <2>3, <2>4, StopPuts
  <2> QED
    BY <2>4, <2>5 DEF StopInv
<1> HIDE DEF Goal
<1> QED
  BY <1>4, <1>5, <1>6, <1>7, <1>8, <1>9, <1>10, <1>11, <1>12, <1>13, <1>14 DEF Next, Acts

-----------------------------------------------------------------------------
(* Preference records.                                                     *)

\* A step about other records, or about none.
LEMMA RecordSame ==
    ASSUME NEW k, RecordInv(k), call' = call, saved'[k] = saved[k], shown'[k] = shown[k]
    PROVE  RecordInv(k)'
  BY DEF RecordInv, Pending

LEMMA RecordElsewhere ==
    ASSUME NEW k, RecordInv(k), NEW i \in Slots, NEW c, Puts(i, c), call[i].op # k, c.op # k,
           saved'[k] = saved[k], shown'[k] = shown[k]
    PROVE  RecordInv(k)'
<1>1. \A j \in Slots : call'[j].op = k <=> call[j].op = k
  BY DEF Puts
<1>2. \A j \in Slots : call[j].op = k => call'[j] = call[j]
  BY DEF Puts
<1> QED
  BY <1>1, <1>2 DEF RecordInv, Pending

\* The only request about a record is answered: its slot is free again, or
\* takes the next request about it.
LEMMA RecordEnds ==
    ASSUME NEW k, RecordInv(k), k # None, NEW i \in Slots, Puts(i, Idle), call[i].op = k,
           shown'[k] = saved'[k]
    PROVE  RecordInv(k)'
<1>1. \A j \in Slots : call'[j].op # k
  BY CallFacts DEF Puts, RecordInv
<1> QED
  BY <1>1 DEF RecordInv, Pending

LEMMA RecordContinues ==
    ASSUME NEW k, RecordInv(k), NEW i \in Slots, NEW c, Puts(i, c),
           call[i].op = k \/ ~Pending(k),
           c.op = k, c.here, c.get \in {"prefs", "patch"}, c.at = "asked"
    PROVE  RecordInv(k)'
<1>1. \A j \in Slots : call'[j].op = k => j = i
  BY DEF Puts, RecordInv, Pending
<1>2. call'[i] = c
  BY DEF Puts
<1> QED
  BY <1>1, <1>2 DEF RecordInv, Pending

\* What the page shows of the other records.
LEMMA ShowsElsewhere ==
    ASSUME NEW k \in Loaded, NEW i \in Slots, Shows(i), call[i].op # k,
           shown = [l \in Kinds |-> shown[l]],
           call[i].get \in {"status", "list", "prefs", "patch"}
    PROVE  shown'[k] = shown[k] /\ shown' = [l \in Kinds |-> shown'[l]]
  BY RecordNames DEF Shows

LEMMA ShowsRecord ==
    ASSUME NEW k \in Loaded, NEW i \in Slots, Shows(i), call[i].op = k, RecordInv(k),
           shown = [l \in Kinds |-> shown[l]]
    PROVE  /\ shown' = [l \in Kinds |-> shown'[l]]
           /\ call[i].at = "told" => shown'[k] = saved[k]
<1>1. call[i].here /\ call[i].get \in {"prefs", "patch"}
      /\ (call[i].at = "told" => call[i].val = saved[k])
  BY DEF RecordInv
<1> QED
  BY <1>1, RecordNames DEF Shows

LEMMA RecordStep == CallInv /\ SavedInv /\ [Next]_vars => SavedInv'
<1> SUFFICES ASSUME CallInv, SavedInv, [Next]_vars PROVE SavedInv'
  OBVIOUS
<1>0. /\ saved = [k \in Kinds |-> saved[k]] /\ shown = [k \in Kinds |-> shown[k]]
      /\ \A k \in Loaded \ doubt : RecordInv(k)
      /\ \A k \in Loaded : k \in Kinds /\ k # None
  BY RecordNames DEF SavedInv
<1>1. ASSUME call' = call, UNCHANGED <<saved, shown>>, doubt \subseteq doubt'
      PROVE  SavedInv'
  BY <1>0, <1>1, RecordSame DEF SavedInv
<1>2. ASSUME NEW c, Begin(c), UNCHANGED doubt, c.op \notin Loaded
      PROVE  SavedInv'
  <2>1. PICK i \in OpSlots : call[i] = Idle /\ Puts(i, c)
    BY <1>2, BeginFacts DEF Starts
  <2>2. i \in Slots /\ saved' = saved /\ shown' = shown
    BY <1>2, SlotFacts DEF Begin, server
  <2>3. ASSUME NEW k \in Loaded \ doubt PROVE RecordInv(k)'
    <3>1. call[i].op # k /\ c.op # k
      BY <1>0, <1>2, <2>1, CallFacts
    <3> QED
      BY <1>0, <2>1, <2>2, <3>1, RecordElsewhere
  <2> QED
    BY <1>0, <1>2, <2>2, <2>3 DEF SavedInv
<1>3. ASSUME NEW op, NEW get, NEW arg, Begin(Call(op, get, arg)), UNCHANGED doubt, op \notin Loaded
      PROVE  SavedInv'
  <2> DEFINE c == Call(op, get, arg)
  <2>1. c.op = op /\ Begin(c)
    BY <1>3, CallFacts
  <2> HIDE DEF c
  <2> QED
    BY <1>2, <1>3, <2>1
<1>4. CASE UNCHANGED vars
  BY <1>1, <1>4 DEF vars, server, page, history
<1>5. CASE startScan \/ startEmbed \/ stopEmbed \/ changePassword \/ endStation
  BY <1>3, <1>5, RecordNames DEF startScan, startEmbed, stopEmbed, changePassword, endStation, history
<1>6. ASSUME NEW k \in Kinds, Patch(k) PROVE SavedInv'
  <2>1. PICK f \in Fields : /\ Begin(Call(k, "patch", [field |-> f, on |-> f \notin shown[k]]))
                            /\ doubt' = IF Pending(k) THEN doubt \cup {k} ELSE doubt
    BY <1>6 DEF Patch
  <2> DEFINE c == Call(k, "patch", [field |-> f, on |-> f \notin shown[k]])
  <2>2. c.op = k /\ c.get = "patch" /\ c.at = "asked" /\ c.here = TRUE /\ Begin(c)
    BY <2>1, CallFacts
  <2> HIDE DEF c
  <2>3. PICK i \in OpSlots : call[i] = Idle /\ Puts(i, c)
    BY <2>2, BeginFacts DEF Starts
  <2>4. i \in Slots /\ saved' = saved /\ shown' = shown
    BY <2>2, SlotFacts DEF Begin, server
  <2>5. ASSUME NEW l \in Loaded \ doubt' PROVE RecordInv(l)'
    <3>1. l \notin doubt /\ RecordInv(l) /\ call[i].op # l
      BY <1>0, <2>1, <2>3, CallFacts
    <3>2. CASE l = k
      BY <2>1, <2>2, <2>3, <2>4, <3>1, <3>2, RecordContinues
    <3>3. CASE l # k
      BY <2>2, <2>3, <2>4, <3>1, <3>3, RecordElsewhere
    <3> QED
      BY <3>2, <3>3
  <2> QED
    BY <1>0, <2>4, <2>5 DEF SavedInv
<1>7. CASE stopListeningSession
  <2>1. PICK id \in list : /\ Begin([Call("sessions", "stop", id) EXCEPT !.own = Own(id)])
                           /\ UNCHANGED doubt
    BY <1>7 DEF stopListeningSession
  <2> DEFINE c == [Call("sessions", "stop", id) EXCEPT !.own = Own(id)]
  <2>2. c.op = "sessions" /\ Begin(c)
    BY <2>1, StopCallFacts
  <2> HIDE DEF c
  <2> QED
    BY <1>2, <2>1, <2>2, RecordNames
<1>8. CASE startRadio \/ JobStarts \/ JobEnds \/ EndsElsewhere
  BY <1>1, <1>8 DEF startRadio, JobStarts, JobEnds, EndsElsewhere, page, history
<1>9. CASE Remount
  <2>1. /\ saved' = saved /\ shown' = [k \in Kinds |-> None]
        /\ doubt' = {k \in Kinds : \E i \in OpSlots : call[i].op = k}
    BY <1>9 DEF Remount, server
  <2>2. ASSUME NEW k \in Loaded \ doubt', NEW i \in Slots, call'[i].op = k
        PROVE  /\ i \in LoadSlots /\ i[1] = k
               /\ call'[i].here /\ call'[i].get = "prefs" /\ call'[i].at = "asked"
    <3>1. CASE i \in OpSlots /\ call'[i].op = call[i].op
      BY <1>0, <2>1, <2>2, <3>1
    <3>2. CASE call'[i] = Idle
      BY <1>0, <2>2, <3>2, CallFacts
    <3>3. CASE i \in LoadSlots /\ call'[i] = Call(i[1], "prefs", None)
      <4> DEFINE c == Call(i[1], "prefs", None)
      <4>1. c.op = i[1] /\ c.here = TRUE /\ c.get = "prefs" /\ c.at = "asked" /\ call'[i] = c
        BY <3>3, CallFacts
      <4> HIDE DEF c
      <4> QED
        BY <2>2, <3>3, <4>1
    <3> QED
      BY <1>9, <3>1, <3>2, <3>3, RemountFacts
  <2>3. ASSUME NEW k \in Loaded \ doubt' PROVE RecordInv(k)'
    <3>1. shown'[k] = None
      BY <1>0, <2>1
    <3>2. \A i, j \in Slots : call'[i].op = k /\ call'[j].op = k => i = j
      BY <2>2, SlotFacts
    <3>3. \A i \in Slots : call'[i].op = k => /\ call'[i].here /\ call'[i].get \in {"prefs", "patch"}
                                              /\ call'[i].at # "told"
      BY <2>2
    <3> QED
      BY <3>1, <3>2, <3>3 DEF RecordInv
  <2> QED
    BY <1>0, <2>1, <2>3 DEF SavedInv
<1>10. ASSUME NEW i \in Slots, Serve(i) \/ Lose(i) PROVE SavedInv'
  <2>1. PICK at, val : /\ Moves(i, at, val)
                       /\ at = "read" => call[i].get = "patch"
                       /\ at = "told" => TellsStored(i, val)
                       /\ WriteRow(i) => at = "told"
    BY <1>10, ServedFacts
  <2>2. shown' = shown /\ doubt' = doubt /\ (WriteRow(i) \/ saved' = saved)
    BY <1>10 DEF Serve, Lose, ServeGet, ReadRow, WriteRow, ServeJob, ServeStop, ServePassword,
                 server, page, history
  <2>3. saved' = [k \in Kinds |-> saved'[k]]
        /\ \A k \in Kinds : k # call[i].op => saved'[k] = saved[k]
    BY <1>0, <2>1, <2>2 DEF TellsStored
  <2>4. ASSUME NEW k \in Loaded \ doubt PROVE RecordInv(k)'
    <3>1. RecordInv(k) /\ k \in Kinds
      BY <1>0
    <3>2. /\ \A j \in Slots : call'[j].op = call[j].op /\ call'[j].get = call[j].get
                              /\ call'[j].here = call[j].here
          /\ \A j \in Slots \ {i} : call'[j] = call[j]
          /\ call'[i].at = at /\ call'[i].val = val
      BY <2>1 DEF Moves, Moved
    <3>3. CASE call[i].op = k
      <4>1. call[i].get \in {"prefs", "patch"} /\ \A j \in Slots : call[j].op = k => j = i
        BY <3>1, <3>3 DEF RecordInv
      <4>2. at = "told" => val = saved'[k]
        BY <1>0, <2>1, <2>2, <3>1, <3>3, <4>1 DEF TellsStored
      <4>3. Pending(k)'
        BY <3>2, <3>3 DEF Pending
      <4> QED
        BY <3>1, <3>2, <3>3, <4>1, <4>2, <4>3 DEF RecordInv
    <3>4. CASE call[i].op # k
      BY <2>2, <2>3, <3>1, <3>2, <3>4 DEF RecordInv, Pending
    <3> QED
      BY <3>3, <3>4
  <2> QED
    BY <1>0, <2>2, <2>3, <2>4 DEF SavedInv
<1>11. ASSUME NEW i \in Slots, Answer(i) PROVE SavedInv'
  <2>1. saved' = saved /\ doubt \subseteq doubt'
    BY <1>11 DEF Answer, Got, Patched, JobAnswered, PasswordAnswered, StopAnswered, QuitAnswered,
                 server, history
  <2>2. PICK c : Puts(i, c) /\ \/ c = Idle /\ Ends(i)
                               \/ c.op = call[i].op /\ \E get, arg : Continues(i, get, arg)
    <3>1. Ends(i) \/ \E get, arg : Continues(i, get, arg)
      BY <1>11 DEF Answer, Got, Patched, JobAnswered, PasswordAnswered, StopAnswered, QuitAnswered
    <3>2. CASE Ends(i)
      BY <3>2, EndsFacts
    <3>3. ASSUME NEW get, NEW arg, Continues(i, get, arg)
          PROVE  \E c : Puts(i, c) /\ c.op = call[i].op
      BY <3>3, ContinuesFacts DEF NextOf
    <3> QED
      BY <3>1, <3>2, <3>3
  <2>3. \/ shown' = shown
        \/ Shows(i) /\ call[i].get \in {"status", "list", "prefs", "patch"}
    BY <1>11 DEF Answer, Got, Patched, JobAnswered, PasswordAnswered, StopAnswered, QuitAnswered
  <2>4. ASSUME NEW k \in Loaded \ doubt' PROVE RecordInv(k)' /\ shown' = [l \in Kinds |-> shown'[l]]
    <3>1. RecordInv(k) /\ k # None
      BY <1>0, <2>1
    <3>2. CASE call[i].op # k
      <4>1. shown'[k] = shown[k] /\ shown' = [l \in Kinds |-> shown'[l]]
        BY <1>0, <2>3, <3>2, ShowsElsewhere
      <4>2. c.op # k
        BY <2>2, <3>1, <3>2, CallFacts
      <4> QED
        BY <2>1, <2>2, <3>1, <3>2, <4>1, <4>2, RecordElsewhere
    <3>3. CASE call[i].op = k
      <4>1. call[i].here /\ call[i].get \in {"prefs", "patch"}
        BY <3>1, <3>3 DEF RecordInv
      <4>2. Got(i) \/ Patched(i)
        BY <1>11, <4>1 DEF Answer, JobAnswered, PasswordAnswered, StopAnswered, QuitAnswered
      <4>3. Shows(i)
        BY <4>2 DEF Got, Patched
      <4>4. shown' = [l \in Kinds |-> shown'[l]] /\ (call[i].at = "told" => shown'[k] = saved[k])
        BY <1>0, <3>1, <3>3, <4>3, ShowsRecord
      <4>5. CASE call[i].at = "told" /\ Ends(i)
        BY <2>1, <3>1, <3>3, <4>4, <4>5, EndsFacts, RecordEnds
      <4>6. CASE Continues(i, "prefs", None)
        <5>1. PICK d : Puts(i, d) /\ NextOf(d, i, "prefs", None)
          BY <4>6, ContinuesFacts
        <5>2. d.op = k /\ d.here /\ d.get = "prefs" /\ d.at = "asked"
          BY <3>3, <4>1, <5>1 DEF NextOf
        <5>3. RecordInv(k)'
          BY <3>1, <3>3, <5>1, <5>2, RecordContinues
        <5> QED
          BY <4>4, <5>3
      <4>7. \/ call[i].at = "told" /\ Ends(i)
            \/ Continues(i, "prefs", None)
        BY <1>0, <3>3, <4>2 DEF Got, Patched, Answered
      <4> QED
        BY <4>4, <4>5, <4>6, <4>7
    <3> QED
      BY <3>2, <3>3
  <2>5. shown' = [l \in Kinds |-> shown'[l]]
    BY <1>0, <2>3 DEF Shows
  <2> QED
    BY <1>0, <2>1, <2>4, <2>5 DEF SavedInv
<1>12. ASSUME NEW poll \in Polls, Poll(poll) PROVE SavedInv'
  <2> DEFINE c == Call(poll, IF poll = "refresh" THEN "status" ELSE "list", None)
  <2>1. c.op = poll
    BY CallFacts
  <2>2. PICK i \in PollSlots : call' = [call EXCEPT ![i] = c] /\ call[i] = Idle
    BY <1>12 DEF Poll, Free
  <2> HIDE DEF c
  <2>3. i \in Slots /\ Puts(i, c)
    BY <2>2, PutsFacts, SlotFacts
  <2>4. saved' = saved /\ shown' = shown /\ doubt' = doubt
    BY <1>12 DEF Poll, server, page, history
  <2>5. ASSUME NEW k \in Loaded \ doubt PROVE RecordInv(k)'
    <3>1. call[i].op # k /\ c.op # k
      BY <1>0, <2>1, <2>2, CallFacts, RecordNames
    <3> QED
      BY <1>0, <2>3, <2>4, <3>1, RecordElsewhere
  <2> QED
    BY <1>0, <2>4, <2>5 DEF SavedInv
<1> QED
  BY <1>4, <1>5, <1>6, <1>7, <1>8, <1>9, <1>10, <1>11, <1>12 DEF Next, Acts

-----------------------------------------------------------------------------
(* The theorems.                                                           *)

LEMMA Inductive == Spec => [](CallInv /\ StopInv /\ SavedInv)
<1>1. Init => CallInv /\ StopInv /\ SavedInv
  <2> SUFFICES ASSUME Init PROVE CallInv /\ StopInv /\ SavedInv
    OBVIOUS
  <2>1. /\ call = Mounted /\ active = Sessions \ Later /\ live = Playing /\ ref = Playing
        /\ saved = [k \in Kinds |-> {}] /\ shown = [k \in Kinds |-> None]
    BY DEF Init
  <2>2. ASSUME NEW i \in Slots
        PROVE  /\ IsCall(call[i]) /\ call[i].own = FALSE /\ call[i].at # "read"
               /\ call[i].get \notin {"stop", "quit"}
               /\ \A k \in Loaded : call[i].op = k =>
                    /\ i \in LoadSlots /\ i[1] = k
                    /\ call[i].here /\ call[i].get = "prefs" /\ call[i].at = "asked"
    <3>1. CASE i \in LoadSlots
      <4> DEFINE c == Call(i[1], "prefs", None)
      <4>1. /\ IsCall(c) /\ c.op = i[1] /\ c.own = FALSE /\ c.here = TRUE
            /\ c.get = "prefs" /\ c.at = "asked" /\ call[i] = c
        BY <2>1, <3>1, CallFacts, MountedFacts
      <4> HIDE DEF c
      <4> QED
        BY <3>1, <4>1
    <3>2. CASE i \notin LoadSlots
      BY <2>1, <3>2, CallFacts, MountedFacts, RecordNames
    <3> QED
      BY <3>1, <3>2
  <2>3. CallInv
    BY <2>1, <2>2, MountedFacts DEF CallInv
  <2>4. StopInv
    BY <2>1, <2>2 DEF StopInv, StopOf
  <2>5. ASSUME NEW k \in Loaded PROVE RecordInv(k)
    <3>1. shown[k] = None
      BY <2>1, RecordNames
    <3>2. \A i, j \in Slots : call[i].op = k /\ call[j].op = k => i = j
      <4>1. \A i \in Slots : call[i].op = k => i \in LoadSlots /\ i[1] = k
        BY <2>2
      <4> QED
        BY <4>1, SlotFacts
    <3>3. \A i \in Slots : call[i].op = k => /\ call[i].here /\ call[i].get \in {"prefs", "patch"}
                                             /\ call[i].at # "told"
      BY <2>2
    <3> QED
      BY <3>1, <3>2, <3>3 DEF RecordInv
  <2> QED
    BY <2>1, <2>3, <2>4, <2>5 DEF SavedInv
<1>2. CallInv /\ StopInv /\ SavedInv /\ [Next]_vars => (CallInv /\ StopInv /\ SavedInv)'
  BY CallStep, StopStep, RecordStep
<1> QED
  BY <1>1, <1>2, PTL DEF Spec

\* A preference record with nothing in flight about it is shown as it is
\* stored, whatever was lost, unless requests about it overlapped or its reload
\* failed too (savePlaybackPrefs, saveStreamPrefs and their catch).
THEOREM RecordsAreShown == Spec => []ShownIsSaved
<1>1. SavedInv => ShownIsSaved
  BY DEF SavedInv, RecordInv, ShownIsSaved
<1> QED
  BY <1>1, Inductive, PTL

\* A Stop in the list ends no session but the one asked for, and a station
\* started while it is in flight (stopListeningSession and the player's stop).
THEOREM StopsAreAsked == Spec => StopsOnlyAsked
<1>1. CallInv /\ StopInv /\ [Next]_vars => [active \ active' \subseteq asked' \cup caught']_vars
  BY StopStep
<1> QED
  BY <1>1, Inductive, PTL DEF Spec, StopsOnlyAsked

=============================================================================
