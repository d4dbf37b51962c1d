------------------------------ MODULE Settings ------------------------------
(***************************************************************************)
(* The Settings page of the web UI (src/web/src/pages/SettingsPage.tsx):   *)
(* a status poll every 2.5 s and a session poll every 8 s that may overlap *)
(* and answer in any order, operations that run beside them and share one  *)
(* busy flag, and the server they talk to.  The user is an administrator,  *)
(* who sees every control.                                                 *)
(*                                                                         *)
(* A call is an operation or a poll suspended at a request.  A preference  *)
(* record is the set of its fields that are on, whatever their type.  The  *)
(* player (PlayerContext.tsx) appears by the session it refers to; its own *)
(* requests are modelled in Player.                                        *)
(***************************************************************************)
EXTENDS Integers, FiniteSets

CONSTANTS
    Kinds,        \* records that are edited: "radio", "stream", "schedule"
    Fields,       \* the fields of each
    Sessions,     \* listening sessions, of any user
    Playing,      \* the one the player has when the page opens
    Later,        \* those that do not exist yet then
    None,         \* no session, or nothing received yet
    MaxOps,       \* bound: operations in flight
    MaxPolls,     \* bound: polls in flight
    MaxActs,      \* bound: acts of the user and changes made elsewhere
    MaxFailures   \* bound: lost requests and answers

ASSUME KindsAssumption == Kinds \subseteq {"radio", "stream", "schedule"}
ASSUME SessionsAssumption == None \notin Sessions \cup Kinds /\ Playing \in Sessions \ Later
ASSUME BoundsAssumption ==
    {MaxOps, MaxPolls, MaxActs, MaxFailures} \subseteq Nat

VARIABLES
    running,   \* server: the jobs that run
    saved,     \* server: each preference record
    active,    \* server: the sessions that are not stopped
    seen,      \* page: scan.running and embed.running
    shown,     \* page: each preference record
    list,      \* page: listeningSessions
    busy,      \* page: the operation the controls wait for
    ref,       \* player: sessionIdRef
    live,      \* player: the id of the status, unless it is stopped
    call,      \* operations and polls in flight
    asked,     \* history: sessions somebody asked to end
    caught,    \* history: sessions started while the Stop of another is in flight
    doubt,     \* history: kinds whose requests overlapped or whose reload failed
    acts, failures

server == <<running, saved, active>>
page == <<seen, shown, list, busy>>
player == <<ref, live>>
history == <<asked, caught, doubt>>
vars == <<server, page, player, call, history, acts, failures>>

Jobs == {"scan", "embed"}
Ops == Kinds \cup {"scan", "embed-start", "embed-stop", "end-station", "password", "sessions"}
Polls == {"refresh", "loadListeningSessions"}
Loaded == Kinds \ {"schedule"}   \* records with a load of their own

\* Operations run in numbered slots, and so do polls; loads run beside them.
OpSlots == {"op"} \X (1 .. MaxOps)
PollSlots == {"poll"} \X (1 .. MaxPolls)
LoadSlots == Loaded \X {0}
Slots == OpSlots \cup PollSlots \cup LoadSlots

Call(op, get, arg) ==
    [op |-> op, get |-> get, at |-> "asked", arg |-> arg, val |-> None,
     own |-> FALSE, here |-> TRUE]

Idle ==
    [op |-> None, get |-> "none", at |-> "idle", arg |-> None, val |-> None,
     own |-> FALSE, here |-> TRUE]

\* at: where the request is; own: the session to stop is the player's;
\* here: the page that sent it is still mounted.
TypeOK ==
    /\ running \in SUBSET Jobs
    /\ saved \in [Kinds -> SUBSET Fields]
    /\ active \in SUBSET Sessions /\ list \in SUBSET Sessions
    /\ seen \in (SUBSET Jobs) \cup {None}
    /\ shown \in [Kinds -> (SUBSET Fields) \cup {None}]
    /\ busy \in Ops \cup {"none"}
    /\ {ref, live} \subseteq Sessions \cup {None}
    /\ DOMAIN call = Slots
    /\ \A i \in Slots :
        /\ call[i].op \in Ops \cup Polls \cup {None}
        /\ call[i].get \in {"none", "status", "list", "prefs", "patch", "start", "halt",
                            "stop", "quit", "password"}
        /\ call[i].at \in {"idle", "asked", "read", "told", "lost"}
        /\ call[i].at = "idle" <=> call[i] = Idle
    /\ asked \cup caught \subseteq Sessions /\ doubt \subseteq Kinds
    /\ acts \in 0 .. MaxActs /\ failures \in 0 .. MaxFailures

\* The lowest free slot of a sort takes the next call.
Free(i) == call[i] = Idle /\ \A j \in Slots : j[1] = i[1] /\ j[2] < i[2] => call[j] # Idle

\* A request about the record k is in flight.
Pending(k) == \E i \in Slots : call[i].op = k

Act == acts < MaxActs /\ acts' = acts + 1

-----------------------------------------------------------------------------
(* Mounting the page: it loads the preference records (the schedule comes  *)
(* with the status poll) and polls from then on.                           *)

Mounted == [i \in Slots |-> IF i \in LoadSlots THEN Call(i[1], "prefs", None) ELSE Idle]

Init ==
    /\ running = {} /\ saved = [k \in Kinds |-> {}]
    /\ active = Sessions \ Later /\ live = Playing /\ ref = Playing
    /\ seen = None /\ shown = [k \in Kinds |-> None] /\ list = {} /\ busy = "none"
    /\ call = Mounted
    /\ asked = {} /\ caught = {} /\ doubt = {}
    /\ acts = 0 /\ failures = 0

\* The user leaves the page and comes back: its state is new, the answers of
\* its polls and loads go nowhere, and its operations go on without it.
Remount ==
    /\ Act
    /\ seen' = None /\ shown' = [k \in Kinds |-> None] /\ list' = {} /\ busy' = "none"
    /\ call' = [i \in Slots |->
                  IF i \in OpSlots /\ call[i] # Idle THEN [call[i] EXCEPT !.here = FALSE]
                  ELSE Mounted[i]]
    /\ doubt' = {k \in Kinds : \E i \in OpSlots : call[i].op = k}
    /\ UNCHANGED <<server, player, asked, caught, failures>>

-----------------------------------------------------------------------------
(* The server.                                                             *)

Job(op) == IF op = "scan" THEN "scan" ELSE "embed"

\* A GET answers with what is stored.  The three reads of refresh are one
\* step: nothing below relates the jobs to the schedule.
ServeGet(i) ==
    /\ call[i].at = "asked" /\ call[i].get \in {"status", "list", "prefs"}
    /\ call' = [call EXCEPT ![i].at = "told", ![i].val =
                  CASE call[i].get = "status" -> [running |-> running, saved |-> saved]
                    [] call[i].get = "list" -> active
                    [] call[i].get = "prefs" -> saved[call[i].op]]
    /\ UNCHANGED <<server, page, player, history, acts, failures>>

\* A PATCH reads the row, ...
ReadRow(i) ==
    /\ call[i].at = "asked" /\ call[i].get = "patch"
    /\ call' = [call EXCEPT ![i].at = "read", ![i].val = saved[call[i].op]]
    /\ UNCHANGED <<server, page, player, history, acts, failures>>

\* ... changes one field of what it read, writes the row back and answers.
WriteRow(i) ==
    LET row == IF call[i].arg.on THEN call[i].val \cup {call[i].arg.field}
               ELSE call[i].val \ {call[i].arg.field}
    IN  /\ call[i].at = "read"
        /\ saved' = [saved EXCEPT ![call[i].op] = row]
        /\ call' = [call EXCEPT ![i].at = "told", ![i].val = row]
        /\ UNCHANGED <<running, active, page, player, history, acts, failures>>

\* A start is refused while the job runs; a stop only asks the job to end.
ServeJob(i) ==
    /\ call[i].at = "asked" /\ call[i].get \in {"start", "halt"}
    /\ \/ /\ call[i].get = "start" /\ Job(call[i].op) \in running
          /\ call' = [call EXCEPT ![i].at = "lost"]
          /\ UNCHANGED running
       \/ /\ call[i].get = "start" => Job(call[i].op) \notin running
          /\ call' = [call EXCEPT ![i].at = "told"]
          /\ running' = IF call[i].get = "start" THEN running \cup {Job(call[i].op)} ELSE running
    /\ UNCHANGED <<saved, active, page, player, history, acts, failures>>

ServeStop(i) ==
    /\ call[i].at = "asked" /\ call[i].get \in {"stop", "quit"}
    /\ active' = active \ {call[i].arg}
    /\ call' = [call EXCEPT ![i].at = "told"]
    /\ UNCHANGED <<running, saved, page, player, history, acts, failures>>

\* The current password may be wrong.
ServePassword(i) ==
    /\ call[i].at = "asked" /\ call[i].get = "password"
    /\ \E at \in {"told", "lost"} : call' = [call EXCEPT ![i].at = at]
    /\ UNCHANGED <<server, page, player, history, acts, failures>>

Serve(i) ==
    ServeGet(i) \/ ReadRow(i) \/ WriteRow(i) \/ ServeJob(i) \/ ServeStop(i) \/ ServePassword(i)

\* A request or its answer is lost.
Lose(i) ==
    /\ failures < MaxFailures /\ failures' = failures + 1
    /\ call[i].at \in {"asked", "told"}
    /\ call' = [call EXCEPT ![i].at = "lost", ![i].val = None]
    /\ UNCHANGED <<server, page, player, history, acts>>

\* Jobs start by the schedule and end on their own; sessions end elsewhere.
JobStarts == \E j \in Jobs \ running :
    Act /\ running' = running \cup {j}
    /\ UNCHANGED <<saved, active, page, player, call, history, failures>>

JobEnds == \E j \in running :
    /\ running' = running \ {j}
    /\ UNCHANGED <<saved, active, page, player, call, history, acts, failures>>

EndsElsewhere == \E s \in active :
    /\ Act
    /\ active' = active \ {s} /\ asked' = asked \cup {s}
    /\ UNCHANGED <<running, saved, page, player, call, caught, doubt, failures>>

-----------------------------------------------------------------------------
(* Acts of the user.  Every operation sets busy for itself and clears it   *)
(* for all when it ends.                                                   *)

Begin(c) ==
    /\ Act
    /\ \E i \in OpSlots : Free(i) /\ call' = [call EXCEPT ![i] = c]
    /\ busy' = c.op
    /\ UNCHANGED <<server, seen, shown, list, player, failures>>

SaysRunning(j) == seen # None /\ j \in seen

\* The controls that are enabled: those of jobs and of the schedule wait for
\* every operation, the others for their own.
CanStart(j) == busy = "none" /\ ~SaysRunning(j)
CanStopEmbed == busy = "none" /\ SaysRunning("embed")
CanReschedule == busy = "none" /\ shown["schedule"] # None
CanEdit(k) == shown[k] # None /\ busy # k
CanStop(id) == id \in list /\ busy # "sessions"
CanEndStation == live # None /\ busy # "end-station"
CanChangePassword == busy # "password"

startScan ==
    /\ CanStart("scan")
    /\ Begin(Call("scan", "start", None))
    /\ UNCHANGED history

startEmbed ==
    /\ CanStart("embed")
    /\ Begin(Call("embed-start", "start", None))
    /\ UNCHANGED history

stopEmbed ==
    /\ CanStopEmbed
    /\ Begin(Call("embed-stop", "halt", None))
    /\ UNCHANGED history

\* The controls of a record show it, and change one field to what it is not.
Patch(k) == \E f \in Fields :
    /\ IF k = "schedule" THEN CanReschedule ELSE CanEdit(k)
    /\ Begin(Call(k, "patch", [field |-> f, on |-> f \notin shown[k]]))
    /\ doubt' = IF Pending(k) THEN doubt \cup {k} ELSE doubt
    /\ UNCHANGED <<asked, caught>>

changePassword ==
    /\ CanChangePassword
    /\ Begin(Call("password", "password", None))
    /\ UNCHANGED history

\* Mutant: any Stop is taken for the player's session.
AnyIsOwn(id) == TRUE

\* The handler belongs to a render: it compares with the status of the click.
Own(id) == live = id

stopListeningSession == \E id \in list :
    /\ CanStop(id)
    /\ Begin([Call("sessions", "stop", id) EXCEPT !.own = Own(id)])
    /\ asked' = asked \cup {id}
    /\ UNCHANGED <<caught, doubt>>

\* What the player's stop() ends: the session of the moment it is called.
Current == IF ref # None THEN ref ELSE live

endStation ==
    /\ CanEndStation
    /\ Begin(Call("end-station", "quit", Current))
    /\ asked' = asked \cup {Current}
    /\ UNCHANGED <<caught, doubt>>

\* The search box starts another station from any page (startRadio in
\* PlayerContext.tsx, here in one step): it ends the session of ref first.
startRadio == \E s \in Sessions \ (active \cup asked) :
    /\ Act
    /\ active' = (active \ {ref}) \cup {s}
    /\ ref' = s /\ live' = s
    /\ asked' = asked \cup ({ref} \ {None})
    /\ caught' = IF \E i \in OpSlots : call[i].op = "sessions" /\ call[i].own
                 THEN caught \cup {s} ELSE caught
    /\ UNCHANGED <<running, saved, page, call, doubt, failures>>

Acts ==
    \/ startScan \/ startEmbed \/ stopEmbed \/ changePassword
    \/ stopListeningSession \/ endStation \/ startRadio \/ Remount
    \/ \E k \in Kinds : Patch(k)

-----------------------------------------------------------------------------
(* Answers.  An operation goes on with another request or ends.            *)

Continues(i, get, arg) ==
    /\ call' = [call EXCEPT ![i] = [Call(@.op, get, arg) EXCEPT !.here = call[i].here]]
    /\ UNCHANGED busy

Ends(i) ==
    /\ call' = [call EXCEPT ![i] = Idle]
    /\ busy' = IF i \in OpSlots /\ call[i].here THEN "none" ELSE busy

\* refresh and loadListeningSessions, as a poll or at the end of an operation.
Shows(i) ==
    LET c == call[i] IN
    IF c.at = "lost" \/ ~c.here THEN UNCHANGED <<seen, shown, list>>
    ELSE CASE c.get = "status" ->
                  /\ seen' = c.val.running
                  /\ shown' = IF "schedule" \in Kinds
                              THEN [shown EXCEPT !["schedule"] = c.val.saved["schedule"]]
                              ELSE shown
                  /\ UNCHANGED list
           [] c.get = "list" -> list' = c.val /\ UNCHANGED <<seen, shown>>
           [] c.get \in {"prefs", "patch"} ->
                  shown' = [shown EXCEPT ![c.op] = c.val] /\ UNCHANGED <<seen, list>>

Answered(i) == call[i].at \in {"told", "lost"}

\* A poll, a load, and the last request of an operation.
Got(i) ==
    /\ Answered(i) /\ call[i].get \in {"status", "list", "prefs"}
    /\ Shows(i) /\ Ends(i)
    /\ doubt' = IF call[i].at = "lost" /\ call[i].op \in Kinds THEN doubt \cup {call[i].op} ELSE doubt
    /\ UNCHANGED <<server, player, asked, caught, acts, failures>>

\* Mutant: a save that fails does not load what is stored.
PatchedNoReload(i) ==
    /\ Answered(i) /\ call[i].get = "patch"
    /\ Shows(i) /\ Ends(i)
    /\ UNCHANGED <<server, player, history, acts, failures>>

\* A save that fails loads the record again, except the schedule.
Patched(i) ==
    /\ Answered(i) /\ call[i].get = "patch"
    /\ Shows(i)
    /\ IF call[i].at = "lost" /\ call[i].op \in Loaded
       THEN Continues(i, "prefs", None) ELSE Ends(i)
    /\ UNCHANGED <<server, player, history, acts, failures>>

\* A job was started or asked to stop: show it.
JobAnswered(i) ==
    /\ Answered(i) /\ call[i].get \in {"start", "halt"}
    /\ IF call[i].at = "told" THEN Continues(i, "status", None) ELSE Ends(i)
    /\ UNCHANGED <<server, seen, shown, list, player, history, acts, failures>>

PasswordAnswered(i) ==
    /\ Answered(i) /\ call[i].get = "password"
    /\ Ends(i)
    /\ UNCHANGED <<server, seen, shown, list, player, history, acts, failures>>

\* The session is stopped; if it was the player's, so does the player.
StopAnswered(i) ==
    /\ Answered(i) /\ call[i].get = "stop"
    /\ IF call[i].at = "lost" THEN Ends(i)
       ELSE IF call[i].own /\ Current # None THEN Continues(i, "quit", Current)
       ELSE Continues(i, "list", None)
    /\ UNCHANGED <<server, seen, shown, list, player, history, acts, failures>>

\* The player's stop() forgets its session whatever the answer, and shows it
\* stopped if there is one.
QuitAnswered(i) ==
    /\ Answered(i) /\ call[i].get = "quit"
    /\ ref' = None
    /\ live' = IF call[i].at = "told" THEN None ELSE live
    /\ IF call[i].at = "told" /\ call[i].op = "sessions"
       THEN Continues(i, "list", None) ELSE Ends(i)
    /\ UNCHANGED <<server, seen, shown, list, history, acts, failures>>

Answer(i) ==
    Got(i) \/ Patched(i) \/ JobAnswered(i) \/ PasswordAnswered(i)
    \/ StopAnswered(i) \/ QuitAnswered(i)

\* Mutant: the status is polled only while a job is seen to run.
PollWhileRunning(poll) == \E i \in PollSlots :
    /\ Free(i)
    /\ poll = "refresh" => seen = None \/ seen # {}
    /\ call' = [call EXCEPT ![i] = Call(poll, IF poll = "refresh" THEN "status" ELSE "list", None)]
    /\ UNCHANGED <<server, page, player, history, acts, failures>>

\* The two timers fire whether or not the last poll was answered.
Poll(poll) == \E i \in PollSlots :
    /\ Free(i)
    /\ call' = [call EXCEPT ![i] = Call(poll, IF poll = "refresh" THEN "status" ELSE "list", None)]
    /\ UNCHANGED <<server, page, player, history, acts, failures>>

Next ==
    \/ Acts
    \/ JobStarts \/ JobEnds \/ EndsElsewhere
    \/ \E i \in Slots : Serve(i) \/ Lose(i) \/ Answer(i)
    \/ \E poll \in Polls : Poll(poll)

\* Requests are served or given up, their answers handled, each timer fires
\* again and again (strongly fair: the slots are shared, the timers are not)
\* and jobs come to an end.  Nobody has to act.
Fairness ==
    /\ \A i \in Slots : WF_vars(Serve(i)) /\ WF_vars(Answer(i))
    /\ \A poll \in Polls : SF_vars(Poll(poll))
    /\ WF_vars(JobEnds)

Spec == Init /\ [][Next]_vars /\ Fairness

-----------------------------------------------------------------------------
(* Properties.                                                             *)

\* With nothing in flight about it, a preference record is shown as it is
\* stored, even after a save whose answer was lost, unless two requests about
\* it overlapped, which the shared busy flag allows, or the reload failed too.
ShownIsSaved == \A k \in Loaded :
    shown[k] = None \/ Pending(k) \/ k \in doubt \/ shown[k] = saved[k]

\* Stopping one session ends no other, except a station started while the Stop
\* of the one before is in flight: stop() ends whatever the player plays then.
StopsOnlyAsked == [][active \ active' \subseteq asked' \cup caught']_vars

\* The page comes to show the jobs, the schedule and the sessions as they are,
\* and to enable its controls, however polls and operations interleave.
Settles == <>[](/\ busy = "none"
                /\ seen = running /\ list = active
                /\ "schedule" \in Kinds => shown["schedule"] = saved["schedule"])

=============================================================================
