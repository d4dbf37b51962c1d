-------------------------------- MODULE Player --------------------------------
(***************************************************************************)
(* The player of the web client (src/web/src/player/PlayerContext.tsx) and *)
(* the sessions it drives: the requests of the page, the answers they get  *)
(* in any order, the two-second poll, the optimistic step to the next      *)
(* track and the marker that keeps polls from undoing it.                  *)
(*                                                                         *)
(* A request is a record in call: it is sent, the server acts and answers  *)
(* with the status of its session, and the page takes the answer (or the   *)
(* failure) at some later time.  The server's part is what session/        *)
(* worker.go does to one session, without the refill's choice of tracks    *)
(* (SessionQueue has it); the engine's part is what AudioEngine promises:  *)
(* attach() of a track makes it the attached one and plays it.             *)
(***************************************************************************)
EXTENDS Integers, QueueOps

CONSTANTS
    NTracks,      \* the catalog is 1 .. NTracks; a refill goes round it
    Seeds,        \* bound: the tracks a listener starts from
    MaxSessions,  \* bound: sessions ever created
    MaxQueue,     \* bound: tracks a session queues
    MaxCalls,     \* bound: requests in flight, polls included
    MaxPolls,     \* bound: polls in flight
    MaxActs,      \* bound: what the user does, and tracks that end
    MaxFailures   \* bound: requests or answers lost

ASSUME TracksAssumption == NTracks \in Nat \ {0}
ASSUME SeedsAssumption == Seeds \subseteq 1 .. NTracks
ASSUME BoundsAssumption ==
    /\ MaxSessions \in Nat /\ MaxQueue \in Nat \ {0} /\ MaxCalls \in Nat
    /\ MaxPolls \in Nat /\ MaxActs \in Nat /\ MaxFailures \in Nat

VARIABLES
    sess,       \* the server: sessions, in the order they were created
    call,       \* requests in flight
    ref,        \* sessionIdRef: the session requests go to, 0 for null
    saved,      \* sessionStorage's lt_listen_session, 0 for none
    view,       \* the status the page shows
    marker,     \* skipAdvanceRef: an advance from one track to another
    advancing,  \* advancingRef
    att,        \* the engine's attached track, 0 for none
    sounding,   \* the element is not paused
    shows,      \* the chrome shows playing (paused is false)
    user,       \* somebody is logged in
    seen,       \* history: <<session, track>>, what the page showed of or for a session
    settled,    \* history: the marker is of an answer, not of an optimistic step
    acts, failures

page == <<ref, saved, view, marker, advancing, user>>
engine == <<att, sounding, shows, seen>>
vars == <<sess, call, page, engine, settled, acts, failures>>

Tracks == 1 .. NTracks
Sids == 1 .. MaxSessions
Slots == 1 .. MaxCalls
Queues == UNION {[1 .. n -> Tracks] : n \in 0 .. MaxQueue}

\* What the page knows of a session (SessionStatus), and what the server has.
View == [id : 0 .. MaxSessions, state : {"none", "live", "stopped"},
         now : 0 .. NTracks, queue : Queues]
Session == [state : {"live", "stopped"}, now : Tracks, queue : Queues,
            hist : {<<>>} \cup {<<t>> : t \in Tracks}]

Kinds == {"poll", "skip", "complete", "like", "recover", "retire", "create", "resume",
          "stop", "back", "inject", "remove", "keep", "rejoin", "find"}

\* target: the track a request names (the seed, for what starts a session);
\* ends: it is the engine's own advance, which holds advancingRef.
Call == [kind : Kinds \cup {"idle"}, stage : {"sent", "answered", "refused", "failed"},
         sid : 0 .. MaxSessions, target : 0 .. NTracks, ends : BOOLEAN, ans : View]

NoView == [id |-> 0, state |-> "none", now |-> 0, queue |-> <<>>]
NoMark == [from |-> 0, to |-> 0]

\* A request as it is sent, to a session or to none (0).
Request(kind, sid, target) ==
    [kind |-> kind, stage |-> "sent", sid |-> sid, target |-> target, ends |-> FALSE,
     ans |-> NoView]

Idle == Request("idle", 0, 0)

TypeOK ==
    /\ Len(sess) <= MaxSessions /\ \A n \in DOMAIN sess : sess[n] \in Session
    /\ DOMAIN call = Slots /\ \A i \in Slots : call[i] \in Call
    /\ ref \in 0 .. Len(sess) /\ saved \in 0 .. Len(sess)
    /\ view \in View /\ view.id <= Len(sess)
    /\ marker \in [from : 0 .. NTracks, to : 0 .. NTracks]
    /\ att \in 0 .. NTracks
    /\ \A h \in seen : h \in Sids \X Tracks
    /\ {advancing, sounding, shows, user, settled}
        \subseteq BOOLEAN
    /\ acts \in 0 .. MaxActs /\ failures \in 0 .. MaxFailures

Init ==
    /\ sess = <<>>
    /\ call = [i \in Slots |-> Idle]
    /\ ref = 0 /\ saved = 0
    /\ view = NoView
    /\ marker = NoMark
    /\ advancing = FALSE /\ sounding = FALSE /\ shows = FALSE
    /\ user = TRUE
    /\ att = 0
    /\ seen = {}
    /\ settled = FALSE
    /\ acts = 0 /\ failures = 0

-----------------------------------------------------------------------------
(* The server.                                                             *)

\* The refill's choice, which SessionQueue has: round the catalog.
After(t) == (t % NTracks) + 1

Capped(q) == Take(q, MaxQueue)

Status(sid, s) == [id |-> sid, state |-> s.state, now |-> s.now, queue |-> s.queue]

\* advanceLocked with nothing queued: a radio refills at once, unless it is
\* stopped; otherwise the session ends.
Exhausted(s) ==
    {[s EXCEPT !.state = "stopped", !.queue = <<>>]}
        \cup IF s.state = "stopped" THEN {}
             ELSE {[state |-> "live", now |-> After(s.now), queue |-> <<>>, hist |-> <<s.now>>]}

\* Mutant: feedback about another track than the one playing advances too.
ReportedWhatever(s, t) ==
    LET q == Without(s.queue, t)
    IN  IF q # <<>>
        THEN {[state |-> "live", now |-> Head(q), queue |-> Tail(q), hist |-> <<s.now>>]}
        ELSE Exhausted(s)

\* A report that names no track is about the one that plays.
Named(s, t) == IF t = 0 THEN s.now ELSE t

\* ApplyFeedback for skip and complete: only a report about the track playing
\* advances, and it does so even if the session is stopped.
Reported(s, t) ==
    LET q == Without(s.queue, t)
    IN  IF t # s.now THEN {[s EXCEPT !.queue = q]}
        ELSE IF q # <<>>
        THEN {[state |-> "live", now |-> Head(q), queue |-> Tail(q), hist |-> <<s.now>>]}
        ELSE Exhausted(s)

\* Back: the previous track plays, the current one heads the queue.
WentBack(s) ==
    [state |-> "live", now |-> s.hist[1], queue |-> Capped(<<s.now>> \o Without(s.queue, s.now)),
     hist |-> <<>>]

Injected(s, t) == [s EXCEPT !.queue = Capped(<<t>> \o Without(s.queue, t))]

\* The server acts on request i: its session becomes s and the answer is its
\* status.
Answers(i, s) ==
    /\ sess' = [sess EXCEPT ![call[i].sid] = s]
    /\ call' = [call EXCEPT ![i].stage = "answered", ![i].ans = Status(call[i].sid, s)]
    /\ UNCHANGED <<page, engine, settled, acts, failures>>

Refuses(i) ==
    /\ call' = [call EXCEPT ![i].stage = "refused"]
    /\ UNCHANGED <<sess, page, engine, settled, acts, failures>>

Sent(i, kinds) == call[i].kind \in kinds /\ call[i].stage = "sent"

ServeGet(i) ==
    /\ Sent(i, {"poll", "recover", "resume", "keep", "rejoin"})
    /\ Answers(i, sess[call[i].sid])

ServeFeedback(i) ==
    /\ Sent(i, {"skip", "complete"})
    /\ LET s == sess[call[i].sid]
           t == Named(s, call[i].target) IN
        \/ \E r \in Reported(s, t) : Answers(i, r)
        \/ s.state = "stopped" /\ s.now = t /\ s.queue = <<>> /\ Refuses(i)

\* A like of the playing track replaces the queue, later (Refill).
ServeLike(i) == Sent(i, {"like"}) /\ Answers(i, sess[call[i].sid])

ServeStop(i) ==
    /\ Sent(i, {"stop", "retire"})
    /\ Answers(i, [sess[call[i].sid] EXCEPT !.state = "stopped"])

ServeBack(i) ==
    /\ Sent(i, {"back"})
    /\ LET s == sess[call[i].sid] IN
        IF s.state = "stopped" \/ s.hist = <<>> THEN Refuses(i) ELSE Answers(i, WentBack(s))

ServeInject(i) ==
    /\ Sent(i, {"inject"})
    /\ LET s == sess[call[i].sid] IN
        \/ s.state = "live" /\ s.now # call[i].target /\ Answers(i, Injected(s, call[i].target))
        \/ Refuses(i)   \* stopped, playing already, or skipped before

ServeRemove(i) ==
    /\ Sent(i, {"remove"})
    /\ LET s == sess[call[i].sid]
           t == call[i].target IN
        IF s.state = "stopped" \/ \A k \in DOMAIN s.queue : s.queue[k] # t THEN Refuses(i)
        ELSE Answers(i, [s EXCEPT !.queue = Without(s.queue, t)])

ServeCreate(i) ==
    /\ Sent(i, {"create"})
    /\ Len(sess) < MaxSessions
    /\ LET t == call[i].target
           s == [state |-> "live", now |-> t, queue |-> <<After(t)>>, hist |-> <<>>] IN
        /\ sess' = Append(sess, s)
        /\ call' = [call EXCEPT ![i].stage = "answered", ![i].ans = Status(Len(sess) + 1, s)]
    /\ UNCHANGED <<page, engine, settled, acts, failures>>

\* listStations, then getSession of the first live one.
ServeFind(i) ==
    /\ Sent(i, {"find"})
    /\ LET lives == {n \in DOMAIN sess : sess[n].state = "live"} IN
        \E ans \in IF lives = {} THEN {NoView}
                   ELSE {Status(n, sess[n]) : n \in {l \in lives : \A m \in lives : m <= l}} :
            call' = [call EXCEPT ![i].stage = "answered", ![i].ans = ans]
    /\ UNCHANGED <<sess, page, engine, settled, acts, failures>>

\* The queue is topped up in the background.
Refill(n) ==
    /\ sess[n].state = "live" /\ Len(sess[n].queue) < MaxQueue
    /\ LET last == IF sess[n].queue = <<>> THEN sess[n].now
                   ELSE sess[n].queue[Len(sess[n].queue)] IN
        /\ After(last) # sess[n].now
        /\ sess' = [sess EXCEPT ![n].queue = Append(@, After(last))]
    /\ UNCHANGED <<call, page, engine, settled, acts, failures>>

\* Another tab, another device's settings page or the idle reclaim stops it.
StoppedElsewhere(n) ==
    /\ sess[n].state = "live"
    /\ failures < MaxFailures /\ failures' = failures + 1
    /\ sess' = [sess EXCEPT ![n].state = "stopped"]
    /\ UNCHANGED <<call, page, engine, settled, acts>>

\* The request is lost on its way, or its answer is.
Lose(i) ==
    /\ call[i].kind # "idle" /\ call[i].stage \in {"sent", "answered"}
    /\ failures < MaxFailures /\ failures' = failures + 1
    /\ call' = [call EXCEPT ![i].stage = "failed", ![i].ans = NoView]
    /\ UNCHANGED <<sess, page, engine, settled, acts>>

Serve(i) ==
    \/ ServeGet(i) \/ ServeFeedback(i) \/ ServeLike(i) \/ ServeStop(i) \/ ServeBack(i)
    \/ ServeInject(i) \/ ServeRemove(i) \/ ServeCreate(i) \/ ServeFind(i)

-----------------------------------------------------------------------------
(* What the page does with a status.                                       *)

\* The lowest free slot takes the next request.
Free(i) == call[i].kind = "idle" /\ \A j \in Slots : j < i => call[j].kind # "idle"

\* The request is over; what is in flight otherwise.
Over(i) == [call EXCEPT ![i] = Idle]

\* The poll's effect depends on the id and the state shown: its polls are
\* cancelled when either changes.
Polling(v, c) ==
    IF v.id = view.id /\ v.state = view.state THEN c
    ELSE [i \in Slots |-> IF c[i].kind = "poll" THEN Idle ELSE c[i]]

\* engine.attach(t) for a track that is not attached.
Attaches(t) ==
    /\ att' = t
    /\ sounding' = TRUE

NotAttached == UNCHANGED <<att, sounding>>

\* Mutant: the attach effect does not depend on the track.
EffectMissesTrack(v) ==
    /\ v.state = "live"
    /\ v.id # view.id \/ v.state # view.state
    /\ v.now # att

\* The attach effect runs for a live status whose id, state or track changed,
\* and leaves an engine alone that has the track already.
MustAttach(v) ==
    /\ v.state = "live"
    /\ v.id # view.id \/ v.state # view.state \/ v.now # view.now
    /\ v.now # att

\* Showing v while requests go to session r.
Sees(v, r) == seen' = seen \cup (({v.id, r} \ {0}) \X ({v.now} \ {0}))

\* setStatus(v) when requests go to session r: the effects cancel polls and
\* attach the track.  The element's play and pause events set what the chrome
\* shows.
SetStatus(v, r, c) ==
    /\ view' = v
    /\ call' = Polling(v, c)
    /\ Sees(v, r)
    /\ IF MustAttach(v) THEN Attaches(v.now) ELSE NotAttached

\* The session the page's requests go to.
Id == IF ref # 0 THEN ref ELSE view.id

Acts == user /\ acts < MaxActs /\ acts' = acts + 1

\* The answer's status replaces the view.
Shown(i, r) ==
    /\ SetStatus(call[i].ans, r, Over(i))
    /\ shows' = (shows \/ MustAttach(call[i].ans))

Answered(i, kinds) == call[i].kind \in kinds /\ call[i].stage = "answered"
Failed(i, kinds) == call[i].kind \in kinds /\ call[i].stage \in {"refused", "failed"}

\* skipAdvanceRef is set, by an answer or before one, or cleared.
Marks(m, answer) == marker' = m /\ settled' = answer

Budgets == <<acts, failures>>

-----------------------------------------------------------------------------
(* Feedback: skip, the natural end, like.                                  *)

\* feedback() for an advance: the page steps to the head of its queue before
\* it asks, if it knows one.
Advance(kind, ends, ended) ==
    /\ Id # 0
    /\ \E i \in Slots :
        /\ Free(i)
        /\ call' = [call EXCEPT ![i] = [Request(kind, Id, view.now) EXCEPT !.ends = ends]]
    /\ IF view.queue # <<>>
       THEN LET t == Head(view.queue) IN
            /\ view' = [view EXCEPT !.now = t, !.queue = Tail(@)]
            /\ Marks([from |-> view.now, to |-> t], FALSE)
            /\ Attaches(t)
            /\ Sees(view', ref)
            /\ shows' = TRUE
       ELSE /\ Marks([from |-> view.now, to |-> 0], FALSE)
            /\ sounding' = (sounding /\ ~ended) /\ shows' = (shows /\ ~ended)
            /\ UNCHANGED <<view, att, seen>>
    /\ UNCHANGED <<sess, ref, saved, user>>

\* The skip button, the dislike button, the media keys' next.
Skip ==
    /\ Acts /\ Advance("skip", FALSE, FALSE)
    /\ UNCHANGED <<advancing, failures>>

\* The last half second of a track whose successor is warm.
NearEnd ==
    /\ Acts /\ ~advancing /\ sounding /\ view.state = "live" /\ view.queue # <<>>
    /\ advancing' = TRUE
    /\ Advance("complete", TRUE, FALSE)
    /\ UNCHANGED failures

\* The element's ended event.
Ended ==
    /\ Acts /\ sounding
    /\ IF ~advancing /\ view.state = "live"
       THEN advancing' = TRUE /\ Advance("complete", TRUE, TRUE)
       ELSE /\ sounding' = FALSE /\ shows' = FALSE
            /\ UNCHANGED <<sess, call, page, settled, att, seen>>
    /\ UNCHANGED failures

\* The server's status replaces the optimistic one; a track that is not
\* attached is attached, live session or not.
FeedbackAnswered(i) ==
    /\ Answered(i, {"skip", "complete"})
    /\ LET v == call[i].ans IN
        /\ view' = v
        /\ call' = Polling(v, Over(i))
        /\ Sees(v, ref)
        /\ Marks([from |-> call[i].target, to |-> v.now], TRUE)
        /\ IF v.now # att THEN Attaches(v.now) /\ shows' = TRUE
                          ELSE NotAttached /\ UNCHANGED shows
    /\ advancing' = (advancing /\ ~call[i].ends)
    /\ UNCHANGED <<sess, ref, saved, user, Budgets>>

\* Mutant: a failed advance leaves the marker.
FailedMarked(i) ==
    /\ Failed(i, {"skip", "complete", "like"})
    /\ call' = [call EXCEPT ![i] = [Request("recover", call[i].sid, 0) EXCEPT !.ends = call[i].ends]]
    /\ UNCHANGED <<marker, sess, ref, saved, view, advancing, user, engine, settled, Budgets>>

\* The marker goes, the error is and the session is fetched afresh.
FeedbackFailed(i) ==
    /\ Failed(i, {"skip", "complete", "like"})
    /\ Marks(NoMark, FALSE)
    /\ call' = [call EXCEPT ![i] = [Request("recover", call[i].sid, 0) EXCEPT !.ends = call[i].ends]]
    /\ UNCHANGED <<sess, ref, saved, view, advancing, user, engine, Budgets>>

\* Mutant: the flag is not reset when the fetch afresh is over.
RecoveredDeaf(i) ==
    /\ \/ Answered(i, {"recover"}) /\ Shown(i, ref)
       \/ Failed(i, {"recover"}) /\ call' = Over(i) /\ UNCHANGED <<view, engine>>
    /\ UNCHANGED <<sess, ref, saved, marker, advancing, user, settled, Budgets>>

Recovered(i) ==
    /\ \/ Answered(i, {"recover"}) /\ Shown(i, ref)
       \/ Failed(i, {"recover"}) /\ call' = Over(i) /\ UNCHANGED <<view, engine>>
    /\ advancing' = (advancing /\ ~call[i].ends)
    /\ UNCHANGED <<sess, ref, saved, marker, user, settled, Budgets>>

-----------------------------------------------------------------------------
(* The poll.                                                               *)

Poll ==
    /\ view.state = "live"
    /\ Cardinality({i \in Slots : call[i].kind = "poll"}) < MaxPolls
    /\ \E i \in Slots : Free(i) /\ call' = [call EXCEPT ![i] = Request("poll", view.id, 0)]
    /\ UNCHANGED <<sess, page, engine, settled, Budgets>>

\* A snapshot of the track being left is not shown.
Ignored(v) == marker # NoMark /\ v.now = marker.from

PollIgnored(i) ==
    /\ Answered(i, {"poll"}) /\ Ignored(call[i].ans)
    /\ call' = Over(i)
    /\ UNCHANGED <<sess, page, engine, settled, Budgets>>

PollShown(i) ==
    /\ Answered(i, {"poll"}) /\ ~Ignored(call[i].ans)
    /\ Shown(i, ref)
    /\ IF marker.to # 0 /\ call[i].ans.now = marker.to THEN Marks(NoMark, FALSE)
                                                       ELSE UNCHANGED <<marker, settled>>
    /\ UNCHANGED <<sess, ref, saved, advancing, user, Budgets>>

\* A failed poll, or a failed edit of the queue, changes nothing here.
Dropped(i) ==
    /\ Failed(i, {"poll", "inject", "remove"})
    /\ call' = Over(i)
    /\ UNCHANGED <<sess, page, engine, settled, Budgets>>

-----------------------------------------------------------------------------
(* Starting, resuming and ending a session.                                *)

\* Bound: every start under way finds a free session.
Room ==
    Len(sess) + Cardinality({i \in Slots : call[i].kind \in {"retire", "create", "resume"}})
        < MaxSessions

\* startRadio up to its first await: the session of this page is stopped first.
StartRequest(seed) ==
    IF ref # 0 THEN Request("retire", ref, seed) ELSE Request("create", 0, seed)

Asks(r) ==
    /\ user
    /\ \E i \in Slots : Free(i) /\ call' = [call EXCEPT ![i] = r]
    /\ UNCHANGED <<sess, ref, saved, view, marker, advancing, user, engine, settled, failures>>

Start(seed) == Room /\ Acts /\ Asks(StartRequest(seed))

\* The old session is stopped, or could not be: the new one is asked for.
Retired(i) ==
    /\ Answered(i, {"retire"}) \/ Failed(i, {"retire"})
    /\ call' = [call EXCEPT ![i] = Request("create", 0, call[i].target)]
    /\ UNCHANGED <<sess, page, engine, settled, Budgets>>

\* The page adopts a session: a new one, or a live one it resumes.
Adopts(i) ==
    /\ Answered(i, {"create"}) \/ (Answered(i, {"resume"}) /\ call[i].ans.state = "live")
    /\ ref' = call[i].ans.id /\ saved' = call[i].ans.id
    /\ SetStatus(call[i].ans, call[i].ans.id, Over(i))
    /\ shows' = TRUE
    /\ UNCHANGED <<sess, marker, advancing, user, settled, Budgets>>

StartFailed(i) ==
    /\ Failed(i, {"create"})
    /\ call' = Over(i)
    /\ UNCHANGED <<sess, ref, saved, view, marker, advancing, user, engine, settled, Budgets>>

\* resumeStation: a station listed as live is fetched first.
Resume(n) == Room /\ Acts /\ Asks(Request("resume", n, sess[n].now))

\* It is not live after all: a new one starts from its track.
ResumedAnew(i) ==
    /\ Failed(i, {"resume"}) \/ (Answered(i, {"resume"}) /\ call[i].ans.state # "live")
    /\ call' = [call EXCEPT ![i] = StartRequest(call[i].target)]
    /\ UNCHANGED <<sess, ref, saved, view, marker, advancing, user, engine, settled, Budgets>>

Stop == Id # 0 /\ Acts /\ Asks(Request("stop", Id, 0))

\* stop() after its await, whatever came of it.
Stopped(i) ==
    /\ Answered(i, {"stop"}) \/ Failed(i, {"stop"})
    /\ LET v == IF call[i].stage = "answered" THEN call[i].ans ELSE view IN
        /\ view' = v /\ call' = Polling(v, Over(i))
        /\ Sees(v, 0)
    /\ ref' = 0 /\ saved' = 0
    /\ sounding' = FALSE /\ shows' = FALSE
    /\ UNCHANGED <<sess, marker, advancing, user, att, settled, Budgets>>

-----------------------------------------------------------------------------
(* Back, and edits of the queue.                                           *)

GoBack == Id # 0 /\ view.state = "live" /\ Acts /\ Asks(Request("back", Id, 0))

BackAnswered(i) ==
    /\ Answered(i, {"back"})
    /\ Shown(i, ref)
    /\ UNCHANGED <<sess, ref, saved, marker, advancing, user, settled, Budgets>>

\* Nothing to go back to (409): the track restarts; another error is only told.
BackFailed(i) ==
    /\ Failed(i, {"back"})
    /\ call' = Over(i)
    /\ \/ /\ call[i].stage = "refused" /\ att # 0
          /\ sounding' = TRUE /\ shows' = TRUE
       \/ UNCHANGED <<sounding, shows>>
    /\ UNCHANGED <<sess, ref, saved, view, marker, advancing, user, att, seen, settled, Budgets>>

Like == Id # 0 /\ view.now # 0 /\ Acts /\ Asks(Request("like", Id, view.now))

PlayNext(t) ==
    IF Id = 0 \/ view.state = "stopped" THEN Start(t) ELSE Acts /\ Asks(Request("inject", Id, t))

RemoveFromQueue(t) ==
    /\ Id # 0 /\ view.state # "stopped"
    /\ \E k \in DOMAIN view.queue : view.queue[k] = t
    /\ Acts /\ Asks(Request("remove", Id, t))

\* The answers of like, inject and remove.
Edited(i) ==
    /\ Answered(i, {"like", "inject", "remove"})
    /\ Shown(i, ref)
    /\ UNCHANGED <<sess, ref, saved, marker, advancing, user, settled, Budgets>>

Toggle ==
    /\ Acts /\ att # 0
    /\ sounding' = ~sounding /\ shows' = ~sounding
    /\ UNCHANGED <<sess, call, page, att, seen, settled, failures>>

-----------------------------------------------------------------------------
(* The page is loaded again; the user logs out and in.                     *)

Hydrating == {"keep", "rejoin", "find"}

\* The page starts over with what sessionStorage has.
Reload ==
    /\ Acts
    /\ ref' = 0 /\ view' = NoView /\ marker' = NoMark /\ advancing' = FALSE
    /\ att' = 0 /\ sounding' = FALSE /\ shows' = FALSE
    /\ call' = [i \in Slots |->
                    IF i # 1 THEN Idle
                    ELSE IF saved # 0 THEN Request("rejoin", saved, 0) ELSE Request("find", 0, 0)]
    /\ settled' = FALSE
    /\ UNCHANGED <<sess, saved, user, seen, failures>>

Logout ==
    /\ Acts
    /\ user' = FALSE
    /\ ref' = 0 /\ saved' = 0 /\ view' = NoView
    /\ sounding' = FALSE /\ shows' = FALSE
    /\ call' = Polling(NoView, [i \in Slots |->
                                    IF call[i].kind \in Hydrating THEN Idle ELSE call[i]])
    /\ UNCHANGED <<sess, marker, advancing, att, seen, settled, failures>>

Login ==
    /\ ~user
    /\ user' = TRUE
    /\ \E i \in Slots :
        /\ Free(i)
        /\ call' = [call EXCEPT ![i] = IF ref # 0 THEN Request("keep", ref, 0)
                                       ELSE Request("find", 0, 0)]
    /\ UNCHANGED <<sess, ref, saved, view, marker, advancing, engine, settled, Budgets>>

\* The hydrating effect: the page's own or saved session if it is live ...
Rejoined(i) ==
    /\ Answered(i, {"keep", "rejoin"}) /\ call[i].ans.state = "live"
    /\ ref' = IF call[i].kind = "rejoin" THEN call[i].ans.id ELSE ref
    /\ Shown(i, ref')
    /\ UNCHANGED <<sess, saved, marker, advancing, user, settled, Budgets>>

\* ... or else another live one ...
NotRejoined(i) ==
    /\ \/ Failed(i, {"keep", "rejoin"})
       \/ Answered(i, {"keep", "rejoin"}) /\ call[i].ans.state # "live"
    /\ saved' = 0
    /\ ref' = IF call[i].kind = "keep" THEN 0 ELSE ref
    /\ call' = [call EXCEPT ![i] = Request("find", 0, 0)]
    /\ UNCHANGED <<sess, view, marker, advancing, user, engine, settled, Budgets>>

\* ... or none.
Found(i) ==
    /\ Answered(i, {"find"}) \/ Failed(i, {"find"})
    /\ IF call[i].ans.state = "live"
       THEN /\ ref' = call[i].ans.id /\ saved' = call[i].ans.id
            /\ Shown(i, ref')
       ELSE call' = Over(i) /\ UNCHANGED <<ref, saved, view, engine>>
    /\ UNCHANGED <<sess, marker, advancing, user, settled, Budgets>>

-----------------------------------------------------------------------------
\* The page takes an answer, or a failure.
Callback(i) ==
    \/ FeedbackAnswered(i) \/ FeedbackFailed(i) \/ Recovered(i)
    \/ PollIgnored(i) \/ PollShown(i) \/ Dropped(i)
    \/ Retired(i) \/ Adopts(i) \/ StartFailed(i) \/ ResumedAnew(i) \/ Stopped(i)
    \/ BackAnswered(i) \/ BackFailed(i) \/ Edited(i)
    \/ Rejoined(i) \/ NotRejoined(i) \/ Found(i)

User ==
    \/ Skip \/ Like \/ GoBack \/ Stop \/ Toggle
    \/ \E t \in Seeds \cup {view.now} : t # 0 /\ (Start(t) \/ PlayNext(t))
    \/ \E t \in Tracks : RemoveFromQueue(t)
    \/ \E n \in DOMAIN sess : Resume(n)
    \/ Reload \/ Logout \/ Login

Next ==
    \/ User \/ NearEnd \/ Ended \/ Poll
    \/ \E i \in Slots : Serve(i) \/ Callback(i) \/ Lose(i)
    \/ \E n \in DOMAIN sess : Refill(n) \/ StoppedElsewhere(n)

\* The server answers what reaches it, the page runs its callbacks, and the
\* interval fires.
Fairness ==
    /\ \A i \in Slots : WF_vars(Serve(i)) /\ WF_vars(Callback(i))
    /\ WF_vars(Poll)

Spec == Init /\ [][Next]_vars /\ Fairness

-----------------------------------------------------------------------------
(* What the player promises.                                               *)

\* What a live session's page shows as playing is what the engine has.
ViewIsAttached == view.state = "live" => att = view.now

\* The server moves on only from a track the page has shown, of that session or
\* while its requests went there: a report that is doubled, late or about another
\* track skips nothing.
NothingSkippedUnseen ==
    [][\A n \in DOMAIN sess :
        sess'[n].now # sess[n].now /\ sess'[n].hist # <<>> => <<n, sess[n].now>> \in seen]_vars

\* The flag that makes the page deaf to the end of a track is set only while
\* the report of an earlier end is under way, however that one fares.
DeafOnlyInFlight == advancing => \E i \in Slots : call[i].ends

\* Once the user leaves it alone the page shows the session as it is, whatever
\* was lost or answered out of order, unless the marker of an advance that was
\* answered names the track the session is at (and the poll is ignored).
Frozen == settled /\ Ignored(Status(view.id, sess[view.id]))
Converges == <>[](view.state = "live" => view = Status(view.id, sess[view.id]) \/ Frozen)

\* The chrome shows playing only when there is sound.
ShowsSound == shows => sounding
==============================================================================
