---------------------------- MODULE SessionQueue ----------------------------
(***************************************************************************)
(* One live listening session of the session worker: its queue, the client *)
(* calls that change it, the refill goroutines those calls start, and the  *)
(* listening_sessions row it is persisted to                               *)
(* (internal/session/worker.go).                                           *)
(*                                                                         *)
(* Live.mu is released around catalog lookups and around the neighbour     *)
(* search, so a feedback call, a Back call and a refill are several        *)
(* critical sections each; every action below is one such section, and     *)
(* the sections of different calls and refills interleave freely.          *)
(*                                                                         *)
(* Left out: artists, scores and affinities (they only weigh which tracks  *)
(* a refill picks; here it may pick any it is allowed to), the seed track  *)
(* (it only steers the same choice), last_feedback and playback_events     *)
(* (written, never read back by the worker), and database errors other     *)
(* than the two that fillQueueFrom handles.                                *)
(***************************************************************************)
EXTENDS QueueOps

CONSTANTS
  Catalog,      \* the tracks that are not missing, a sequence in id order
  Seed,         \* the track the session is created from
  Kinds,        \* the kinds of session explored: "radio", "album"
  AlbumQueue,   \* the rest of the album an album session is created from
  Signals,      \* the feedback signals clients send
  Callers,      \* client requests that can be in progress at once
  Fillers,      \* refill goroutines that can exist at once (bound)
  NoFiller,     \* no refill has taken a generation yet
  NoTrack,      \* the track id 0
  Prefetch,     \* Worker.QueuePrefetch, default 12
  MinAuto,      \* floor of the refill watermark, 3 in the code
  Slack,        \* extra tracks the catalog fallback lists, 5 in the code
  HistoryCap,   \* maxSessionHistory, 40 in the code
  CadenceMin,   \* affinity.BridgeCadenceMin, 5 in the code
  CadenceMax,   \* affinity.BridgeCadenceMax, 7 in the code
  RadioBridge,  \* the user's radio_bridge preference
  Embedded,     \* TRUE: the neighbour search may find candidates
  QueriesFail,  \* TRUE: the two catalog queries of a refill may fail
  QuietClient,  \* TRUE: clients wait for the refills of their last call
  MaxCalls,     \* client calls explored (bound)
  MaxRestarts   \* server restarts explored (bound)

Tracks == Range(Catalog)
Procs == Callers \cup Fillers

ASSUME CatalogAssumption ==
  /\ Catalog \in Seq(Tracks)
  /\ IsDuplicateFree(Catalog)
  /\ Seed \in Tracks
  /\ NoTrack \notin Tracks
ASSUME KindAssumption ==
  /\ Kinds \subseteq {"radio", "album"}
  /\ AlbumQueue \in Seq(Tracks)
  /\ IsDuplicateFree(AlbumQueue)    \* "duplicates already filtered by the caller"
ASSUME ProcAssumption ==
  /\ Signals \subseteq {"like", "dislike", "clear", "skip", "complete", "ban"}
  /\ Callers \cap Fillers = {}
  /\ NoFiller \notin Fillers
ASSUME LimitAssumption ==
  /\ Prefetch \in Nat \ {0}
  /\ MinAuto \in Nat
  /\ Slack \in Nat
  /\ HistoryCap \in Nat \ {0}
  /\ CadenceMin \in Nat \ {0}
  /\ CadenceMax \in Nat
  /\ CadenceMin <= CadenceMax
  /\ RadioBridge => CadenceMin > 1  \* else Create could queue a bridge
  /\ RadioBridge \in BOOLEAN
  /\ Embedded \in BOOLEAN
  /\ QueriesFail \in BOOLEAN
  /\ QuietClient \in BOOLEAN
  /\ MaxCalls \in Nat
  /\ MaxRestarts \in Nat

VARIABLES
  status, now, queue, pinned, sources, recent, history,   \* Live
  since, interval, bridgeQueued,                          \* Live: bridge cadence
  kind,          \* Live.Kind, which nothing changes
  latest,        \* the refill that incremented Live.refillGen last
  skips,         \* track_skips rows that apply to this session
  row,           \* the listening_sessions row
  pc, call,      \* where each client call stands and its local variables
  fill, anchor,  \* the local variables of fillQueueFrom, and seedOverride
  calls, restarts

liveVars   == <<status, now, queue, pinned, sources, recent, history>>
bridgeVars == <<since, interval, bridgeQueued>>
procVars   == <<pc, call, fill, anchor>>
budgetVars == <<calls, restarts>>
vars == <<kind, liveVars, bridgeVars, latest, skips, row, procVars, budgetVars>>

AllSignals   == {"like", "dislike", "clear", "skip", "complete", "ban"}
DropSignals  == {"dislike", "skip", "complete", "ban"}  \* filterOut, advance
SkipSignals  == {"dislike", "skip", "ban"}              \* AddSkip
TopUpSignals == {"dislike", "ban"}                      \* refill if not playing
SourceTags   == {"none", "user_pin", "radio_bridge", "album"}

Min(a, b) == IF a < b THEN a ELSE b

\* The watermark under which scheduleQueueRefill tops the queue up.
Watermark == IF Prefetch \div 2 < MinAuto THEN MinAuto ELSE Prefetch \div 2

\* splitQueue: by id, so every occurrence of a pinned id counts as a pin.
Pins == Only(queue, pinned)
AutoPart == Only(queue, Tracks \ pinned)

NoCall == [sig |-> "none", track |-> NoTrack, next |-> NoTrack, src |-> "none"]
NoFill == [exclude |-> {}, need |-> 0, since |-> 0, due |-> FALSE]
NoSources == [t \in Tracks |-> "none"]

Idle == \A p \in Procs : pc[p] = "idle"

\* A client may start a call; a quiet client only once everything settled.
MayCall == calls < MaxCalls /\ (QuietClient => Idle)

\* persist: the row takes the values the live session has after this step.
Persist == row' = [status |-> status', now |-> now', queue |-> queue']

\* scheduleQueueRefill(seed): a goroutine f starts; the callers in done return.
Spawn(done, seed) ==
  \E f \in Fillers :
    /\ pc[f] = "idle"
    /\ pc' = [p \in Procs |-> IF p = f THEN "gate"
                              ELSE IF p \in done THEN "idle" ELSE pc[p]]
    /\ anchor' = [anchor EXCEPT ![f] = seed]

-----------------------------------------------------------------------------
(***************************************************************************)
(* Create / CreateAlbum: the state a session has when it is published.  A  *)
(* radio session has been filled once, by a refill nothing raced with, for *)
(* a user without library-wide bans.                                       *)
(***************************************************************************)
\* ListTrackIDsNotMissing(need + 5): the first ids, those of S among them.
Listed(need, S) == Only(Take(Catalog, need + Slack), S)

InitQueue ==
  IF kind = "album" THEN {AlbumQueue}
  ELSE (IF Embedded
        THEN {q \in UNION {[1..n -> Tracks \ {Seed}] : n \in 0..Prefetch} :
                IsDuplicateFree(q)}
        ELSE {Take(Listed(Prefetch, Tracks \ {Seed}), Prefetch)})
       \cup (IF QueriesFail THEN {<<>>} ELSE {})

Init ==
  /\ kind \in Kinds
  /\ queue \in InitQueue
  /\ status = "playing" /\ now = Seed
  /\ pinned = IF kind = "album" THEN Range(AlbumQueue) ELSE {}
  /\ sources = [t \in Tracks |-> IF t \in pinned THEN "album" ELSE "none"]
  /\ recent = {Seed} /\ history = <<>>
  /\ since = 1
  /\ interval \in {0} \cup (IF kind = "radio" /\ Embedded
                           THEN CadenceMin..CadenceMax ELSE {})
  /\ bridgeQueued = FALSE
  /\ latest = NoFiller
  /\ skips = {}
  /\ row = [status |-> "playing", now |-> Seed, queue |-> queue]
  /\ pc = [p \in Procs |-> "idle"]
  /\ call = [c \in Callers |-> NoCall]
  /\ fill = [p \in Procs |-> NoFill]
  /\ anchor = [f \in Fillers |-> NoTrack]
  /\ calls = 0 /\ restarts = 0

-----------------------------------------------------------------------------
(***************************************************************************)
(* ApplyFeedback, up to where it takes live.mu: the skip is stored.  The   *)
(* client names any track: what it believes is playing, a queued track or  *)
(* one from its history.                                                   *)
(***************************************************************************)
FeedbackBegin(c, sig, t) ==
  /\ MayCall /\ pc[c] = "idle"
  /\ skips' = IF sig \in SkipSignals THEN skips \cup {t} ELSE skips
  /\ call' = [call EXCEPT ![c] = [NoCall EXCEPT !.sig = sig, !.track = t]]
  /\ pc' = [pc EXCEPT ![c] = "feedback"]
  /\ calls' = calls + 1
  /\ UNCHANGED <<liveVars, bridgeVars, latest, row, fill, anchor, restarts>>

(***************************************************************************)
(* advanceLocked with the queue q: out of tracks the session stops,        *)
(* otherwise the head of q starts and live.mu is released for the catalog  *)
(* lookup.                                                                 *)
(***************************************************************************)
StopAtEnd(c) ==
  /\ status' = "stopped"
  /\ queue' = <<>>
  /\ UNCHANGED <<now, pinned, sources, recent, history>>
  /\ Persist
  /\ pc' = [pc EXCEPT ![c] = "idle"]
  /\ call' = [call EXCEPT ![c] = NoCall]

\* Mutant: the track that ended is not recorded in Recent.
PopNextForgets(c, q) ==
  /\ now' = Head(q)
  /\ queue' = Tail(q)
  /\ pinned' = pinned \ {Head(q)}
  /\ sources' = [sources EXCEPT ![Head(q)] = "none"]
  /\ history' = PushCapped(history, now, HistoryCap)
  /\ status' = "playing"
  /\ pc' = [pc EXCEPT ![c] = "started"]
  /\ call' = [call EXCEPT ![c].next = Head(q), ![c].src = sources[Head(q)]]
  /\ UNCHANGED <<recent, row>>

PopNext(c, q) ==
  /\ now' = Head(q)
  /\ queue' = Tail(q)
  /\ pinned' = pinned \ {Head(q)}
  /\ sources' = [sources EXCEPT ![Head(q)] = "none"]
  /\ recent' = recent \cup {now}
  /\ history' = PushCapped(history, now, HistoryCap)
  /\ status' = "playing"
  /\ pc' = [pc EXCEPT ![c] = "started"]
  /\ call' = [call EXCEPT ![c].next = Head(q), ![c].src = sources[Head(q)]]
  /\ UNCHANGED row

AdvanceFrom(c, q) ==
  /\ \/ q = <<>> /\ StopAtEnd(c)
     \/ q # <<>> /\ PopNext(c, q)
  /\ UNCHANGED <<bridgeVars, latest, skips, fill, anchor, budgetVars>>

\* Mutant: the track that ended is not compared with the playing one.
FeedbackAdvanceAny(c) ==
  LET q == Without(queue, call[c].track) IN
  /\ pc[c] = "feedback" /\ call[c].sig \in DropSignals
  /\ q # <<>> \/ kind = "album"
  /\ AdvanceFrom(c, q)

\* Feedback that ends the playing track, and the queue can serve the next.
FeedbackAdvance(c) ==
  LET q == Without(queue, call[c].track) IN
  /\ pc[c] = "feedback" /\ call[c].sig \in DropSignals /\ call[c].track = now
  /\ q # <<>> \/ kind = "album"
  /\ AdvanceFrom(c, q)

\* ... and the queue is empty: live.mu is released for a refill first.
FeedbackAdvanceEmpty(c) ==
  LET q == Without(queue, call[c].track) IN
  /\ pc[c] = "feedback" /\ call[c].sig \in DropSignals /\ call[c].track = now
  /\ q = <<>> /\ kind # "album"
  /\ queue' = q
  /\ pc' = [pc EXCEPT ![c] = "snapshot"]
  /\ UNCHANGED <<status, now, pinned, sources, recent, history, bridgeVars,
                 latest, skips, row, call, fill, anchor, budgetVars>>

\* Any other feedback: at most a queue edit, persisted, then a refill.
FeedbackOther(c) ==
  LET sig == call[c].sig
      t   == call[c].track
  IN
  /\ pc[c] = "feedback" /\ ~(sig \in DropSignals /\ t = now)
  /\ queue' = IF sig \in DropSignals THEN Without(queue, t) ELSE queue
  /\ UNCHANGED <<status, now, pinned, sources, recent, history>>
  /\ Persist
  /\ \/ /\ sig = "like" /\ t = now
        /\ Spawn({c}, t)
     \/ /\ sig \in TopUpSignals
        /\ Spawn({c}, NoTrack)
     \/ /\ ~(sig = "like" /\ t = now) /\ sig \notin TopUpSignals
        /\ pc' = [pc EXCEPT ![c] = "idle"]
        /\ UNCHANGED anchor
  /\ call' = [call EXCEPT ![c] = NoCall]
  /\ UNCHANGED <<bridgeVars, latest, skips, fill, budgetVars>>

\* Mutant: the status is not tested again after the refill.
AdvanceResumeUnchecked(c) == pc[c] = "resume" /\ AdvanceFrom(c, queue)

\* advanceLocked after its own refill: now-playing is not compared again.
AdvanceResume(c) ==
  /\ pc[c] = "resume"
  /\ \/ /\ status = "stopped"
        /\ pc' = [pc EXCEPT ![c] = "idle"]
        /\ call' = [call EXCEPT ![c] = NoCall]
        /\ UNCHANGED <<liveVars, bridgeVars, latest, skips, row, fill, anchor,
                       budgetVars>>
     \/ status # "stopped" /\ AdvanceFrom(c, queue)

\* applyTrackStarted for a track that came from src.
ApplyTrackStarted(src) ==
  IF src = "radio_bridge"
  THEN /\ bridgeQueued' = FALSE
       /\ since' = 0
       /\ interval' \in CadenceMin..CadenceMax
  ELSE /\ since' = IF src = "user_pin" THEN since ELSE Min(since + 1, CadenceMax)
       /\ UNCHANGED <<interval, bridgeQueued>>

\* Mutant: the start of a track is left for the refill to persist.
TrackStartedUnsaved(c) ==
  /\ pc[c] = "started"
  /\ call' = [call EXCEPT ![c] = NoCall]
  /\ UNCHANGED <<liveVars, latest, skips, row, fill, budgetVars>>
  /\ \/ /\ status = "stopped" \/ now # call[c].next
        /\ pc' = [pc EXCEPT ![c] = "idle"]
        /\ UNCHANGED <<bridgeVars, anchor>>
     \/ /\ status # "stopped" /\ now = call[c].next
        /\ ApplyTrackStarted(call[c].src)
        /\ Spawn({c}, NoTrack)

(***************************************************************************)
(* advanceLocked / Back with live.mu taken again after the catalog lookup: *)
(* unless the session was stopped or moved on meanwhile, commit the start  *)
(* of the track and schedule a refill.  After an overtaken advance         *)
(* ApplyFeedback still persists; an overtaken Back returns at once.        *)
(***************************************************************************)
TrackStarted(c) ==
  /\ pc[c] = "started"
  /\ call' = [call EXCEPT ![c] = NoCall]
  /\ UNCHANGED <<liveVars, latest, skips, fill, budgetVars>>
  /\ \/ /\ status = "stopped" \/ (now # call[c].next /\ call[c].sig = "back")
        /\ pc' = [pc EXCEPT ![c] = "idle"]
        /\ UNCHANGED <<bridgeVars, row, anchor>>
     \/ /\ status # "stopped" /\ now # call[c].next /\ call[c].sig # "back"
        /\ Persist
        /\ pc' = [pc EXCEPT ![c] = "idle"]
        /\ UNCHANGED <<bridgeVars, anchor>>
     \/ /\ status # "stopped" /\ now = call[c].next
        /\ ApplyTrackStarted(call[c].src)
        /\ Persist
        /\ Spawn({c}, NoTrack)

\* Back: the last track of the history plays again, the current one is next.
Back(c) ==
  /\ MayCall /\ pc[c] = "idle"
  /\ status # "stopped" /\ history # <<>>
  /\ now' = history[Len(history)]
  /\ history' = SubSeq(history, 1, Len(history) - 1)
  /\ queue' = <<now>> \o Without(queue, now)
  /\ pinned' = pinned \ {now}
  /\ status' = "playing"
  /\ call' = [call EXCEPT ![c] =
                [NoCall EXCEPT !.sig = "back", !.next = history[Len(history)]]]
  /\ pc' = [pc EXCEPT ![c] = "started"]
  /\ calls' = calls + 1
  /\ UNCHANGED <<sources, recent, bridgeVars, latest, skips, row, fill, anchor,
                 restarts>>

(***************************************************************************)
(* InjectQueue, RemoveFromQueue and ReorderQueue hold live.mu throughout,  *)
(* catalog and skip lookups included: one action each.                     *)
(***************************************************************************)
\* A queue edit: refused once stopped, persisted, then a refill.
EditQueue ==
  /\ MayCall /\ status # "stopped"
  /\ UNCHANGED <<status, now, recent, history, bridgeVars, latest, call, fill,
                 restarts>>
  /\ Persist
  /\ Spawn({}, NoTrack)
  /\ calls' = calls + 1

\* Mutant: an injected track keeps its old place in the queue as well.
InjectQueueTwice(t, position) ==
  /\ t # now /\ t \notin skips
  /\ queue' = IF position = "next" THEN <<t>> \o queue ELSE queue \o <<t>>
  /\ pinned' = pinned \cup {t}
  /\ sources' = [sources EXCEPT ![t] = "user_pin"]
  /\ UNCHANGED skips
  /\ EditQueue

InjectQueue(t, position) ==
  LET q    == Without(queue, t)
      pins == Only(q, pinned)
      auto == Only(q, Tracks \ pinned)
  IN
  /\ t # now /\ t \notin skips
  /\ queue' = (IF position = "next" THEN <<t>> \o pins ELSE Append(pins, t))
                 \o auto
  /\ pinned' = pinned \cup {t}
  /\ sources' = [sources EXCEPT ![t] = "user_pin"]
  /\ UNCHANGED skips
  /\ EditQueue

RemoveFromQueue(t) ==
  /\ t \in Range(queue)
  /\ queue' = Without(queue, t)
  /\ pinned' = pinned \ {t}
  /\ sources' = [sources EXCEPT ![t] = "none"]
  /\ skips' = skips \cup {t}
  /\ EditQueue

\* The known ids of the request, each once, in the order of the request.
Orders == UNION {{s \in [1..n -> Range(queue)] : IsDuplicateFree(s)} :
                   n \in 1..Len(queue)}

ReorderQueue(ordered) ==
  /\ queue' = ordered \o Only(AutoPart, Tracks \ Range(ordered))
  /\ pinned' = pinned \cup Range(ordered)
  /\ sources' = [t \in Tracks |->
                   IF t \in Range(ordered) /\ sources[t] = "none"
                   THEN "user_pin" ELSE sources[t]]
  /\ UNCHANGED skips
  /\ EditQueue

\* Stop, also the way reclaim.go ends a session; nothing waits for it.
Stop ==
  /\ status' = "stopped"
  /\ UNCHANGED <<now, queue, pinned, sources, recent, history>>
  /\ Persist
  /\ UNCHANGED <<bridgeVars, latest, skips, procVars, budgetVars>>

(***************************************************************************)
(* The server process restarts: every call and refill is gone, and the     *)
(* next request loads the session from its row (get).  Pins, sources,      *)
(* history and the list of played tracks were only in memory.              *)
(***************************************************************************)
Restart ==
  /\ restarts < MaxRestarts
  /\ restarts' = restarts + 1
  /\ status' = row.status /\ now' = row.now /\ queue' = row.queue
  /\ pinned' = {} /\ sources' = NoSources
  /\ recent' = {} /\ history' = <<>>
  /\ since' = 0 /\ interval' = 0 /\ bridgeQueued' = FALSE
  /\ latest' = NoFiller
  /\ pc' = [p \in Procs |-> "idle"]
  /\ call' = [c \in Callers |-> NoCall]
  /\ fill' = [p \in Procs |-> NoFill]
  /\ anchor' = [f \in Fillers |-> NoTrack]
  /\ UNCHANGED <<skips, row, calls>>

-----------------------------------------------------------------------------
\* Mutant: a like drops the whole queue, not only its automatic part.
RefillGateClears(f) ==
  LET skip == \/ status = "stopped" \/ kind = "album"
              \/ anchor[f] = NoTrack /\ Len(AutoPart) >= Watermark
  IN
  /\ pc[f] = "gate"
  /\ pc' = [pc EXCEPT ![f] = IF skip THEN "idle" ELSE "snapshot"]
  /\ anchor' = [anchor EXCEPT ![f] = NoTrack]
  /\ latest' = IF skip THEN latest ELSE f
  /\ queue' = IF skip \/ anchor[f] = NoTrack THEN queue ELSE <<>>
  /\ UNCHANGED <<status, now, pinned, sources, recent, history, bridgeVars,
                 skips, row, call, fill, budgetVars>>

(***************************************************************************)
(* scheduleQueueRefill: the goroutine's first critical section.  A top-up  *)
(* (no anchor) is skipped above the watermark; a like (anchor = the liked  *)
(* track) drops the automatic part of the queue.  Live.refillGen is a      *)
(* counter that is only compared for equality with the value this refill   *)
(* gave it: latest is the refill that incremented it last.                 *)
(***************************************************************************)
RefillGate(f) ==
  LET skip == \/ status = "stopped" \/ kind = "album"
              \/ anchor[f] = NoTrack /\ Len(AutoPart) >= Watermark
  IN
  /\ pc[f] = "gate"
  /\ pc' = [pc EXCEPT ![f] = IF skip THEN "idle" ELSE "snapshot"]
  /\ anchor' = [anchor EXCEPT ![f] = NoTrack]
  /\ latest' = IF skip THEN latest ELSE f
  /\ queue' = IF skip \/ anchor[f] = NoTrack THEN queue ELSE Pins
  /\ UNCHANGED <<status, now, pinned, sources, recent, history, bridgeVars,
                 skips, row, call, fill, budgetVars>>

\* fillQueueFrom, under live.mu: what this fill believes about the session.
FillSnapshot(p) ==
  /\ pc[p] = "snapshot"
  /\ fill' = [fill EXCEPT ![p] =
                [exclude |-> recent \cup Range(queue) \cup {now},
                 need    |-> IF Len(AutoPart) < Prefetch
                             THEN Prefetch - Len(AutoPart) ELSE 0,
                 since   |-> since,
                 due     |-> FALSE]]
  /\ pc' = [pc EXCEPT ![p] = "skips"]
  /\ UNCHANGED <<liveVars, bridgeVars, latest, skips, row, call, anchor,
                 budgetVars>>

\* Where fillQueueFrom returns to: the advance, or the refill goroutine.
FillReturn(p, next) ==
  /\ pc' = [pc EXCEPT ![p] = IF p \in Callers THEN "resume" ELSE next]
  /\ fill' = [fill EXCEPT ![p] = NoFill]

\* Mutant: the skipped tracks are not excluded from the search.
FillSkipsIgnored(p) ==
  /\ pc[p] = "skips"
  /\ pc' = [pc EXCEPT ![p] = "candidates"]
  /\ UNCHANGED <<liveVars, bridgeVars, latest, skips, row, call, fill, anchor,
                 budgetVars>>

\* ListSkippedTrackIDs, without live.mu; its failure ends the fill.
FillSkips(p) ==
  /\ pc[p] = "skips"
  /\ \/ /\ fill' = [fill EXCEPT ![p].exclude = @ \cup skips]
        /\ pc' = [pc EXCEPT ![p] = "candidates"]
     \/ QueriesFail /\ FillReturn(p, "idle")
  /\ UNCHANGED <<liveVars, bridgeVars, latest, skips, row, call, anchor,
                 budgetVars>>

\* The commit of a fill: the pins of now, then an automatic part.
CommitAuto(auto) ==
  /\ queue' = Pins \o auto
  /\ UNCHANGED <<status, now, pinned, recent, history, latest, skips, row,
                 call, anchor, budgetVars>>

\* The automatic queue was long enough at the snapshot: truncate, no more.
FillEnough(p) ==
  /\ pc[p] = "candidates" /\ fill[p].need = 0
  /\ CommitAuto(Take(AutoPart, Prefetch))
  /\ FillReturn(p, "persist")
  /\ UNCHANGED <<sources, bridgeVars>>

(***************************************************************************)
(* No neighbours (error, or the anchor has no vector): the first need +    *)
(* Slack tracks of the catalog in id order, those not excluded, appended   *)
(* until the automatic queue is long enough -- tested after each append.   *)
(***************************************************************************)
FallbackTracks(p) ==
  Listed(fill[p].need, Tracks \ (fill[p].exclude \cup Range(AutoPart)))

FillFallback(p) ==
  LET room == IF Len(AutoPart) < Prefetch THEN Prefetch - Len(AutoPart) ELSE 1
  IN
  /\ pc[p] = "candidates" /\ fill[p].need > 0
  /\ \/ CommitAuto(AutoPart \o Take(FallbackTracks(p), room))
     \/ QueriesFail /\ CommitAuto(AutoPart)
  /\ FillReturn(p, "persist")
  /\ UNCHANGED <<sources, bridgeVars>>

\* Mutant: a second bridge is selected while one is queued.
FillCandidatesAgain(p) ==
  /\ pc[p] = "candidates" /\ fill[p].need > 0 /\ Embedded
  /\ interval' \in (IF interval = 0 THEN CadenceMin..CadenceMax ELSE {interval})
  /\ fill' = [fill EXCEPT ![p].due = RadioBridge /\ fill[p].since >= interval']
  /\ pc' = [pc EXCEPT ![p] = "commit"]
  /\ UNCHANGED <<liveVars, since, bridgeQueued, latest, skips, row, call, anchor,
                 budgetVars>>

\* Neighbours found: under live.mu again to read the bridge cadence.
FillCandidates(p) ==
  /\ pc[p] = "candidates" /\ fill[p].need > 0 /\ Embedded
  /\ interval' \in (IF interval = 0 THEN CadenceMin..CadenceMax ELSE {interval})
  /\ fill' = [fill EXCEPT ![p].due =
                RadioBridge /\ ~bridgeQueued /\ fill[p].since >= interval']
  /\ pc' = [pc EXCEPT ![p] = "commit"]
  /\ UNCHANGED <<liveVars, since, bridgeQueued, latest, skips, row, call, anchor,
                 budgetVars>>

\* What SelectDiversified may return: it never sees an excluded track.
Picks(p) ==
  UNION {{s \in [1..n -> Tracks \ fill[p].exclude] : IsDuplicateFree(s)} :
           n \in 0..fill[p].need}

\* The picks not queued meanwhile are appended; a due bridge comes first.
FillCommit(p, picks, bridged) ==
  LET fresh  == Only(picks, Tracks \ Range(AutoPart))
      bridge == bridged /\ picks[1] \notin Range(AutoPart)
  IN
  /\ pc[p] = "commit"
  /\ bridged => fill[p].due /\ picks # <<>>
  /\ CommitAuto(Take(AutoPart \o fresh, Prefetch))
  /\ sources' = IF bridge THEN [sources EXCEPT ![picks[1]] = "radio_bridge"]
                ELSE sources
  /\ bridgeQueued' = (bridgeQueued \/ bridge)
  /\ FillReturn(p, "persist")
  /\ UNCHANGED <<since, interval>>

\* scheduleQueueRefill: only the newest refill of a running session persists.
RefillPersist(f) ==
  /\ pc[f] = "persist"
  /\ UNCHANGED <<liveVars, bridgeVars, latest, skips, call, fill, anchor,
                 budgetVars>>
  /\ IF status # "stopped" /\ latest = f THEN Persist ELSE UNCHANGED row
  /\ pc' = [pc EXCEPT ![f] = "idle"]

-----------------------------------------------------------------------------
CallerStep(c) ==
  \/ \E sig \in Signals, t \in Tracks : FeedbackBegin(c, sig, t)
  \/ FeedbackAdvance(c)
  \/ FeedbackAdvanceEmpty(c)
  \/ FeedbackOther(c)
  \/ AdvanceResume(c)
  \/ TrackStarted(c)
  \/ Back(c)

QueueEdit ==
  \/ \E t \in Tracks, position \in {"next", "end"} : InjectQueue(t, position)
  \/ \E t \in Tracks : RemoveFromQueue(t)
  \/ \E ordered \in Orders : ReorderQueue(ordered)

FillStep(p) ==
  \/ FillSnapshot(p)
  \/ FillSkips(p)
  \/ FillEnough(p)
  \/ FillFallback(p)
  \/ FillCandidates(p)
  \/ \E picks \in Picks(p), bridged \in BOOLEAN : FillCommit(p, picks, bridged)

RefillStep(f) == RefillGate(f) \/ RefillPersist(f)

Step ==
  \/ \E c \in Callers : CallerStep(c)
  \/ QueueEdit
  \/ Stop
  \/ Restart
  \/ \E p \in Procs : FillStep(p)
  \/ \E f \in Fillers : RefillStep(f)

Next == Step /\ UNCHANGED kind

Spec == Init /\ [][Next]_vars

-----------------------------------------------------------------------------
PCs == {"idle", "feedback", "started", "resume", "gate", "persist",
        "snapshot", "skips", "candidates", "commit"}

CallType == [sig   : AllSignals \cup {"none", "back"},
             track : Tracks \cup {NoTrack},
             next  : Tracks \cup {NoTrack},
             src   : SourceTags]
FillType == [exclude : SUBSET Tracks, need : 0..Prefetch,
             since : 0..CadenceMax, due : BOOLEAN]

LiveTypeOK ==
  /\ status \in {"playing", "stopped"}
  /\ now \in Tracks
  /\ queue \in Seq(Tracks)
  /\ pinned \subseteq Tracks
  /\ sources \in [Tracks -> SourceTags]
  /\ recent \subseteq Tracks
  /\ history \in Seq(Tracks) /\ Len(history) <= HistoryCap
BridgeTypeOK ==
  /\ since \in 0..CadenceMax
  /\ interval \in 0..CadenceMax
  /\ bridgeQueued \in BOOLEAN
RowTypeOK ==
  row \in [status : {"playing", "stopped"}, now : Tracks, queue : Seq(Tracks)]
ProcTypeOK ==
  /\ pc \in [Procs -> PCs]
  /\ call \in [Callers -> CallType]
  /\ fill \in [Procs -> FillType]
  /\ anchor \in [Fillers -> Tracks \cup {NoTrack}]

(***************************************************************************)
(* Type correctness of the session, its row and every call and refill, and *)
(* the bound on the history Back can walk through.                         *)
(***************************************************************************)
TypeOK ==
  /\ LiveTypeOK
  /\ BridgeTypeOK
  /\ RowTypeOK
  /\ ProcTypeOK
  /\ latest \in Fillers \cup {NoFiller}
  /\ skips \subseteq Tracks
  /\ calls \in 0..MaxCalls
  /\ restarts \in 0..MaxRestarts

(***************************************************************************)
(* The row may lag behind the session only while the call that started the *)
(* playing track is about to commit it: whenever no call is between        *)
(* picking a track and committing it, a restart resumes exactly the track  *)
(* and the status the listener has (advanceLocked, Back, Stop, persist).   *)
(***************************************************************************)
Owes(c) == pc[c] = "started" /\ call[c].next = now

RowMatchesSession ==
  (\A c \in Callers : ~Owes(c)) => row.status = status /\ row.now = now

(***************************************************************************)
(* Once a session is stopped, nothing that was under way when it stopped   *)
(* (a refill, a Back, an advance in its unlocked window) and no queue edit *)
(* sets it playing again or moves it to another track: advanceLocked and   *)
(* Back test the status after every unlock.  What remains is a feedback    *)
(* call whose queue edit comes after the stop and that names the playing   *)
(* track, and a restart, which reloads the row.                            *)
(***************************************************************************)
StopHoldsInFlight ==
  [][status = "stopped" /\ (status' # "stopped" \/ now' # now)
       => \/ restarts' # restarts
          \/ \E c \in Callers : pc[c] = "feedback" /\ call[c].track = now]_vars

(***************************************************************************)
(* Every track the listener can go Back to has been recorded as played, so *)
(* no refill started from now on offers it as a new track (the snapshot of *)
(* fillQueueFrom excludes Recent, advanceLocked and Back maintain both).   *)
(***************************************************************************)
HistoryIsPlayed == Range(history) \subseteq recent

(***************************************************************************)
(* A settled session has no track twice in its queue (refill, inject,      *)
(* reorder, back each remove or exclude what is queued).                   *)
(***************************************************************************)
NoTrackQueuedTwice == Idle => IsDuplicateFree(queue)

(***************************************************************************)
(* A settled session does not offer a track the listener skipped, disliked,*)
(* banned or removed, unless it was played before and Back returned it to  *)
(* the queue (ListSkippedTrackIDs in fillQueueFrom and InjectQueue).       *)
(***************************************************************************)
SkippedStaysOut == Idle => Range(queue) \cap skips \subseteq recent

(***************************************************************************)
(* Radio Bridge: at most one queued or remembered track carries the bridge *)
(* tag, and only while the session knows a bridge is on its way            *)
(* (BridgeQueued, Sources).                                                *)
(***************************************************************************)
BridgeTracks == {t \in Tracks : sources[t] = "radio_bridge"}

SingleBridge ==
  /\ \A t, u \in BridgeTracks : t = u
  /\ BridgeTracks # {} => bridgeQueued \/ \E c \in Callers : pc[c] = "started"

(***************************************************************************)
(* A track the listener pinned stays queued until it plays, a client call  *)
(* edits the queue, or feedback names it: no refill loses it, however old  *)
(* the snapshot it searched with, because the pins are read again at the   *)
(* commit (fillQueueFrom) and only the automatic part is truncated.        *)
(***************************************************************************)
PinsSurvive ==
  [][\A t \in pinned \cap Range(queue) :
       \/ t \in Range(queue') \/ t = now'
       \/ calls' # calls \/ restarts' # restarts
       \/ \E c \in Callers : pc[c] = "feedback" /\ call[c].track = t]_vars

(***************************************************************************)
(* The playing track ends only by a call that still names it: of two       *)
(* reports that the same track ended (two tabs, a retried request) the     *)
(* second finds another track playing and advances nothing.  Kept by an    *)
(* album session; a radio session whose queue is empty releases live.mu    *)
(* for a refill and does not compare again (AdvanceResume).                *)
(***************************************************************************)
OneAdvancePerEnd ==
  [][kind = "album" /\ now' # now =>
       \/ calls' # calls \/ restarts' # restarts
       \/ \E c \in Callers : /\ pc[c] = "feedback" /\ pc'[c] = "started"
                            /\ call[c].track = now]_vars

=============================================================================
