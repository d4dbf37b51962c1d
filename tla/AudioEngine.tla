----------------------------- MODULE AudioEngine -----------------------------
(***************************************************************************)
(* The audio engine of the web player (src/web/src/player/audioEngine.ts): *)
(* one <audio> element, a gain node behind it, a standby element that      *)
(* warms the next track, and the asynchronous bodies of attach(),          *)
(* promotePrefetch() and safePlay() that interleave on them.               *)
(*                                                                         *)
(* A call is one body suspended at an await.  The code compares a counter, *)
(* playEpoch, with the value a body read when it started; the model keeps  *)
(* the outcome in the call (live: playEpoch has not moved), so the counter *)
(* needs no bound.  attachSeq, the second counter, moves only in attach(), *)
(* which moves playEpoch as well, so a body it makes stale is not live.    *)
(* A track stands for its progressive URL, which the server derives from   *)
(* the track alone; "hls" for the session's HLS playlist.                  *)
(***************************************************************************)
EXTENDS Integers, FiniteSets

CONSTANTS
    Tracks,       \* the catalog tracks a page may ask for
    MaxCalls,     \* bound: bodies suspended at the same time
    MaxRequests,  \* bound: calls of the engine's methods by the player
    MaxVolume     \* volume is 0..MaxVolume (0 .. 1 in the code)

ASSUME CallsAssumption == MaxCalls \in Nat \ {0}
ASSUME RequestsAssumption == MaxRequests \in Nat
ASSUME VolumeAssumption == MaxVolume \in Nat \ {0}
ASSUME TracksAssumption == Tracks \cap {"hls", "none"} = {}

VARIABLES
    src,       \* what the element has loaded: a track, "hls" or "none"
    net,       \* "loading", "ready" (HAVE_CURRENT_DATA) or "failed" (audio.error)
    paused,    \* audio.paused
    key,       \* attachedTrackId and lastKey: a track, "hls" or "none"
    standby,   \* the standby element: its track or "none", and whether it is ready
    call,      \* the bodies in flight
    listener,  \* the error listener of the current load, if it would still act
    hls,       \* the Hls.js instance: none, loading, cold (its epoch is over), parsed
    level,     \* output gain: "set" (the volume), "silent" or the fade "floor"
    graph,     \* connected: the Web Audio graph exists
    muted, volume, preMuteVolume,
    support,   \* what the browser can do with HLS
    asked,     \* history: the track of the latest attach
    told,      \* history: the track of the latest error reported for a load
    want,      \* history: "attach", "played", "resume" or "pause"
    crossed,   \* history: a request met a promotion of something else
    reqs       \* requests made so far

player == <<src, net, paused, key, standby, call, listener, hls>>
sound == <<level, graph, muted, volume, preMuteVolume>>
history == <<asked, told, want, crossed, reqs>>
vars == <<player, sound, support, history>>

Slots == 1 .. MaxCalls
Media == Tracks \cup {"hls", "none"}
Waiting == {"promote", "native"}   \* suspended in waitCanPlay

\* for: what it loads or reports an error for, "none" without an error handler.
Call == [stage : {"idle", "resume", "play", "fade"} \cup Waiting,
         fade : BOOLEAN, live : BOOLEAN, for : Media]

Idle == [stage |-> "idle", fade |-> FALSE, live |-> FALSE, for |-> "none"]

NoStandby == [track |-> "none", ready |-> FALSE]
NoListener == [for |-> "none", force |-> FALSE]

TypeOK ==
    /\ src \in Media /\ key \in Media /\ asked \in Media /\ told \in Media
    /\ net \in {"loading", "ready", "failed"}
    /\ paused \in BOOLEAN /\ graph \in BOOLEAN /\ muted \in BOOLEAN /\ crossed \in BOOLEAN
    /\ standby \in [track : Tracks \cup {"none"}, ready : BOOLEAN]
    /\ call \in [Slots -> Call]
    /\ listener \in [for : Tracks \cup {"none"}, force : BOOLEAN]
    /\ hls \in {"none", "loading", "cold", "parsed"}
    /\ level \in {"set", "silent", "floor"}
    /\ volume \in 0 .. MaxVolume
    /\ preMuteVolume \in 1 .. MaxVolume
    /\ support \in {"mse", "native", "none"}
    /\ want \in {"attach", "played", "resume", "pause"}
    /\ reqs \in 0 .. MaxRequests

Init ==
    /\ src = "none" /\ key = "none" /\ asked = "none" /\ told = "none"
    /\ net = "loading"
    /\ paused = TRUE /\ graph = FALSE /\ muted = FALSE /\ crossed = FALSE
    /\ standby = NoStandby
    /\ call = [i \in Slots |-> Idle]
    /\ listener = NoListener
    /\ hls = "none"
    /\ level = "set"
    /\ volume = MaxVolume /\ preMuteVolume = MaxVolume
    /\ support \in {"mse", "native", "none"}
    /\ want = "pause"
    /\ reqs = 0

-----------------------------------------------------------------------------
(* What the bodies share.                                                  *)

\* applyGain: the mute switch or the volume, never the fade floor.
Applied == IF muted THEN "silent" ELSE "set"

\* The output may be faded: there is a graph to fade with, and it is not muted.
Fades(c) == c.fade /\ graph /\ ~muted

\* The lowest free slot takes a new body.
Free(i) == call[i].stage = "idle" /\ \A j \in Slots : j < i => call[j].stage # "idle"

\* A body about to await ctx.resume(): safePlay reads playEpoch here.
Started(fade, t) == [stage |-> "resume", fade |-> fade, live |-> TRUE, for |-> t]

\* softFadeIn, until its ramp ends: it looks at no epoch.
FadingIn == [stage |-> "fade", fade |-> TRUE, live |-> FALSE, for |-> "none"]

\* A body suspended in waitCanPlay: it reads playEpoch only when it wakes.
Suspended(stage, t) == [stage |-> stage, fade |-> FALSE, live |-> FALSE, for |-> t]

\* Mutant: the epoch does not move.
OutdatedNothing == call

\* invalidatePlay: ++playEpoch.  A body that is not live reports nothing.
Outdated ==
    [i \in Slots |->
        IF call[i].stage \in Waiting THEN call[i]
        ELSE [stage |-> call[i].stage, fade |-> call[i].fade, live |-> FALSE, for |-> "none"]]

\* invalidatePlay also disarms the error listener and the manifest handler,
\* which compare their epoch.
Cold == IF hls = "loading" THEN "cold" ELSE hls

\* A promotion (or a native HLS attach) of something other than t waits.
Meets(t) == \E i \in Slots : call[i].stage \in Waiting /\ call[i].for # t

Healthy(t) == t \in Tracks /\ key = t /\ net # "failed"
PrefetchReady(t) == t \in Tracks /\ standby.track = t /\ standby.ready

Request == reqs < MaxRequests /\ reqs' = reqs + 1

-----------------------------------------------------------------------------
(* Loading a track.                                                        *)

\* The synchronous part of attach() for a progressive URL: the element is
\* silenced and reloaded, the gain snapped, the error listener armed and
\* safePlay started, with a fade if another track was audible.
Load(t, force) ==
    \E i \in Slots :
        \E fade \in IF paused \/ src = "none" THEN {FALSE}
                    ELSE IF net = "ready" THEN {TRUE} ELSE BOOLEAN :
            /\ Free(i)
            /\ call' = [Outdated EXCEPT ![i] = Started(fade, t)]
            /\ src' = t /\ net' = "loading" /\ paused' = TRUE /\ key' = t
            /\ hls' = "none"
            /\ listener' = [for |-> t, force |-> force]
            /\ graph' = TRUE /\ level' = Applied
            /\ UNCHANGED standby

\* promotePrefetch up to its await: the warmed URL goes onto the element, the
\* engine's label and the standby stay as they are until the element can play.
Promote(t) ==
    \E i \in Slots :
        /\ Free(i)
        /\ call' = [Outdated EXCEPT ![i] = Suspended("promote", t)]
        /\ src' = t /\ net' = "loading" /\ paused' = TRUE
        /\ hls' = "none"
        /\ listener' = NoListener
        /\ UNCHANGED <<key, standby, graph, level>>

\* What a request does to the history: a promotion of another track that is
\* still waiting is crossed; a load that meets none starts afresh.
Asks(t) ==
    /\ Request
    /\ asked' = t
    /\ crossed' = (crossed \/ Meets(t))
    /\ UNCHANGED <<muted, volume, preMuteVolume, support>>

AsksAfresh(t) ==
    /\ Request
    /\ asked' = t
    /\ told' = "none"
    /\ want' = "attach"
    /\ crossed' = Meets(t)
    /\ UNCHANGED <<muted, volume, preMuteVolume, support>>

\* attach(): the track is attached and not in error, or has the same key as an
\* attached one in error; all it may need is play().
AttachAgain(t) ==
    /\ Asks(t)
    /\ want' = IF want \in {"attach", "played"} THEN want ELSE "resume"
    /\ IF paused
       THEN \E i \in Slots :
                /\ Free(i)
                /\ call' = [call EXCEPT ![i] = Started(FALSE, t)]
                /\ level' = Applied
       ELSE UNCHANGED <<call, level>>
    /\ UNCHANGED <<src, net, paused, key, standby, listener, hls, graph, told>>

AttachHealthy(t) == Healthy(t) /\ AttachAgain(t)

AttachSame(t) ==
    /\ ~Healthy(t) /\ ~PrefetchReady(t) /\ key = t
    /\ AttachAgain(t)

AttachPromote(t) ==
    /\ ~Healthy(t) /\ PrefetchReady(t)
    /\ AsksAfresh(t)
    /\ Promote(t)

AttachLoad(t, force) ==
    /\ ~Healthy(t) /\ ~PrefetchReady(t)
    /\ key # t \/ force
    /\ AsksAfresh(t)
    /\ Load(t, force)

Report(t) == told' = t

\* attach() of a session that has no progressive URL (no track playing).
AttachHls ==
    /\ key # "hls"
    /\ Request
    /\ asked' = "hls" /\ want' = "attach" /\ crossed' = Meets("hls")
    /\ key' = "hls" /\ paused' = TRUE /\ listener' = NoListener
    /\ graph' = TRUE /\ level' = Applied
    /\ \/ /\ support = "mse"
          /\ src' = "hls" /\ net' = "loading" /\ hls' = "loading"
          /\ call' = Outdated /\ told' = "none"
       \/ /\ support = "native"
          /\ src' = "hls" /\ net' = "loading" /\ hls' = "none"
          /\ \E i \in Slots :
                Free(i) /\ call' = [Outdated EXCEPT ![i] = Suspended("native", "hls")]
          /\ told' = "none"
       \/ /\ support = "none"
          /\ hls' = "none" /\ call' = Outdated /\ Report("hls")
          /\ UNCHANGED <<src, net>>
    /\ UNCHANGED <<standby, muted, volume, preMuteVolume, support>>

\* The same playlist again: only play() if it is paused.
AttachHlsAgain == key = "hls" /\ AttachAgain("hls")

\* prefetchProgressive: the standby is pointed at the next track.
Prefetch(t) ==
    /\ standby.track # t
    /\ Request
    /\ standby' = [track |-> t, ready |-> FALSE]
    /\ UNCHANGED <<src, net, paused, key, call, listener, hls, sound, support,
                   asked, told, want, crossed>>

-----------------------------------------------------------------------------
(* Transport and volume.                                                   *)

\* Mutant: pause() pauses the element without invalidating what is in flight.
PauseElementOnly ==
    /\ Request
    /\ paused' = TRUE
    /\ want' = "pause"
    /\ crossed' = (crossed \/ Meets("none"))
    /\ UNCHANGED <<src, net, key, standby, call, listener, hls, sound, support, asked, told>>

Pause ==
    /\ Request
    /\ call' = Outdated
    /\ paused' = TRUE
    /\ listener' = NoListener
    /\ hls' = Cold
    /\ want' = "pause"
    /\ crossed' = (crossed \/ Meets("none"))
    /\ UNCHANGED <<src, net, key, standby, sound, support, asked, told>>

\* The player's stop() and its logout: pause() and destroyHls().
Quit ==
    /\ Request
    /\ call' = Outdated
    /\ paused' = TRUE
    /\ listener' = NoListener
    /\ hls' = "none"
    /\ src' = IF hls # "none" THEN "none" ELSE src
    /\ want' = "pause"
    /\ crossed' = (crossed \/ Meets("none"))
    /\ UNCHANGED <<net, key, standby, sound, support, asked, told>>

\* play() and restartFromStart(): safePlay without an error handler.
Play ==
    /\ Request
    /\ \E i \in Slots :
        /\ Free(i)
        /\ call' = [call EXCEPT ![i] = Started(FALSE, "none")]
    /\ graph' = TRUE
    /\ want' = "resume"
    /\ UNCHANGED <<src, net, paused, key, standby, listener, hls, level,
                   muted, volume, preMuteVolume, support, asked, told, crossed>>

\* togglePlayPause.
Toggle == IF paused THEN Play ELSE Pause

SetVolume(v) ==
    /\ Request
    /\ volume' = v
    /\ muted' = (v = 0)
    /\ preMuteVolume' = IF v > 0 THEN v ELSE preMuteVolume
    /\ level' = Applied'
    /\ UNCHANGED <<player, graph, support, asked, told, want, crossed>>

ToggleMute ==
    /\ Request
    /\ muted' = ~muted
    /\ volume' = IF muted THEN preMuteVolume ELSE volume
    /\ preMuteVolume' = IF ~muted /\ volume > 0 THEN volume ELSE preMuteVolume
    /\ level' = Applied'
    /\ UNCHANGED <<player, graph, support, asked, told, want, crossed>>

-----------------------------------------------------------------------------
(* safePlay, from one await to the next.                                   *)

End(i) == call' = [call EXCEPT ![i] = Idle]

\* The error reaches the body's onError, if it has one.
Tells(i) == IF call[i].for # "none" THEN Report(call[i].for) ELSE UNCHANGED told

\* ctx.resume() is done and the epoch is still the call's: go down to the fade
\* floor or restore the gain, then call play().
Resumed(i) ==
    /\ call[i].stage = "resume" /\ call[i].live
    /\ level' = IF Fades(call[i]) THEN "floor" ELSE Applied
    /\ paused' = FALSE
    /\ call' = [call EXCEPT ![i].stage = "play"]
    /\ UNCHANGED <<src, net, key, standby, listener, hls, graph, muted, volume,
                   preMuteVolume, support, history>>

\* ... or the browser refuses play() (no user gesture yet).
Blocked(i) ==
    /\ call[i].stage = "resume" /\ call[i].live
    /\ level' = Applied
    /\ Tells(i)
    /\ End(i)
    /\ UNCHANGED <<src, net, paused, key, standby, listener, hls, graph, muted, volume,
                   preMuteVolume, support, asked, want, crossed, reqs>>

\* Mutant: an overtaken body returns without applyGain.
OvertakenAtFloor(i) ==
    /\ call[i].stage \in {"resume", "play"} /\ ~call[i].live
    /\ End(i)
    /\ UNCHANGED <<src, net, paused, key, standby, listener, hls, sound, support, history>>

\* The epoch has moved: the gain is restored and the body is over, after
\* ctx.resume() or after the AbortError of its play().
Overtaken(i) ==
    /\ call[i].stage \in {"resume", "play"} /\ ~call[i].live
    /\ level' = Applied
    /\ End(i)
    /\ UNCHANGED <<src, net, paused, key, standby, listener, hls, graph, muted, volume,
                   preMuteVolume, support, history>>

\* play() is fulfilled: fade in from the floor, or restore the gain.
Played(i) ==
    /\ call[i].stage = "play" /\ call[i].live
    /\ ~paused /\ net = "ready"
    /\ want' = IF want = "attach" THEN "played" ELSE want
    /\ IF Fades(call[i])
       THEN /\ level' = "floor"
            /\ call' = [call EXCEPT ![i] = FadingIn]
       ELSE level' = Applied /\ End(i)
    /\ UNCHANGED <<src, net, paused, key, standby, listener, hls, graph, muted, volume,
                   preMuteVolume, support, asked, told, crossed, reqs>>

\* Mutant: a rejected play() is swallowed like an AbortError.
RejectedInSilence(i) ==
    /\ call[i].stage = "play" /\ call[i].live
    /\ net = "failed" \/ src = "none"
    /\ level' = Applied
    /\ End(i)
    /\ UNCHANGED <<src, net, paused, key, standby, listener, hls, graph, muted, volume,
                   preMuteVolume, support, history>>

\* play() is rejected because the media could not be loaded, or there is none.
Rejected(i) ==
    /\ call[i].stage = "play" /\ call[i].live
    /\ net = "failed" \/ src = "none"
    /\ level' = Applied
    /\ Tells(i)
    /\ End(i)
    /\ UNCHANGED <<src, net, paused, key, standby, listener, hls, graph, muted, volume,
                   preMuteVolume, support, asked, want, crossed, reqs>>

\* The ramp is over: softFadeIn locks the final level.
Faded(i) ==
    /\ call[i].stage = "fade"
    /\ level' = Applied
    /\ End(i)
    /\ UNCHANGED <<src, net, paused, key, standby, listener, hls, graph, muted, volume,
                   preMuteVolume, support, history>>

\* Mutant: the promotion does not move the engine's label to its track.
PromotedUnlabelled(i) ==
    /\ call[i].stage = "promote"
    /\ standby' = NoStandby
    /\ call' = [call EXCEPT ![i] = Started(FALSE, call[i].for)]
    /\ graph' = TRUE
    /\ UNCHANGED <<src, net, paused, key, listener, hls, level, muted, volume,
                   preMuteVolume, support, history>>

\* promotePrefetch after waitCanPlay (canplay, an error, or 800 ms): label,
\* standby and a play() of the epoch it finds.
Promoted(i) ==
    /\ call[i].stage = "promote"
    /\ key' = call[i].for
    /\ standby' = NoStandby
    /\ call' = [call EXCEPT ![i] = Started(FALSE, call[i].for)]
    /\ graph' = TRUE
    /\ UNCHANGED <<src, net, paused, listener, hls, level, muted, volume,
                   preMuteVolume, support, history>>

\* attachHls after waitCanPlay, where the browser plays HLS itself.
NativeReady(i) ==
    /\ call[i].stage = "native"
    /\ call' = [call EXCEPT ![i] = Started(TRUE, "hls")]
    /\ UNCHANGED <<src, net, paused, key, standby, listener, hls, sound, support, history>>

-----------------------------------------------------------------------------
(* The browser: the network answers, the media ends.                       *)

Loads ==
    /\ src # "none" /\ net = "loading"
    /\ net' = "ready"
    /\ UNCHANGED <<src, paused, key, standby, call, listener, hls, sound, support, history>>

\* The stream fails.  The error listener of the current load tries once more,
\* then reports; one whose epoch is over ignores the event.
Fails ==
    /\ src \in Tracks /\ net # "failed"
    /\ UNCHANGED <<muted, volume, preMuteVolume, support, asked, want, crossed, reqs>>
    /\ \/ /\ listener = NoListener
          /\ net' = "failed"
          /\ UNCHANGED <<src, paused, key, standby, call, listener, hls, level, graph, told>>
       \/ /\ listener # NoListener /\ listener.force
          /\ net' = "failed"
          /\ listener' = NoListener
          /\ level' = Applied
          /\ Report(listener.for)
          /\ UNCHANGED <<src, paused, key, standby, call, hls, graph>>
       \/ /\ listener # NoListener /\ ~listener.force
          /\ IF PrefetchReady(listener.for) THEN Promote(listener.for)
                                            ELSE Load(listener.for, TRUE)
          /\ UNCHANGED told

\* MANIFEST_PARSED: play, unless the epoch has moved.
ManifestParsed ==
    /\ hls \in {"loading", "cold"}
    /\ hls' = "parsed"
    /\ IF hls = "loading"
       THEN \E i \in Slots :
                Free(i) /\ call' = [call EXCEPT ![i] = Started(TRUE, "hls")]
       ELSE UNCHANGED call
    /\ UNCHANGED <<src, net, paused, key, standby, listener, sound, support, history>>

\* A fatal HLS error: it is reported (the branch that would fall back to the
\* progressive URL asks for a lastKey that ends in "|hls", which none does).
HlsFails ==
    /\ src = "hls" /\ net # "failed"
    /\ net' = "failed"
    /\ IF hls # "none" THEN Report("hls") ELSE UNCHANGED told
    /\ UNCHANGED <<src, paused, key, standby, call, listener, hls, sound, support,
                   asked, want, crossed, reqs>>

StandbyLoads ==
    /\ standby.track # "none" /\ ~standby.ready
    /\ standby' = [standby EXCEPT !.ready = TRUE]
    /\ UNCHANGED <<src, net, paused, key, call, listener, hls, sound, support, history>>

\* The media plays to its end: the element pauses itself, and the player's
\* ended handler makes the next request.
Ends ==
    /\ ~paused /\ net = "ready" /\ src # "none"
    /\ \A i \in Slots : call[i].stage # "play"
    /\ paused' = TRUE
    /\ UNCHANGED <<src, net, key, standby, call, listener, hls, sound, support, history>>

-----------------------------------------------------------------------------
Step(i) ==
    \/ Resumed(i) \/ Blocked(i) \/ Overtaken(i) \/ Played(i) \/ Rejected(i) \/ Faded(i)
    \/ Promoted(i) \/ NativeReady(i)

Browser == Loads \/ Fails \/ ManifestParsed \/ HlsFails \/ StandbyLoads \/ Ends

Player ==
    \/ \E t \in Tracks :
        \/ AttachHealthy(t) \/ AttachSame(t) \/ AttachPromote(t)
        \/ \E force \in BOOLEAN : AttachLoad(t, force)
        \/ Prefetch(t)
    \/ AttachHls \/ AttachHlsAgain
    \/ Pause \/ Quit \/ Play \/ Toggle
    \/ \E v \in 0 .. MaxVolume : SetVolume(v)
    \/ ToggleMute

Next == Player \/ Browser \/ \E i \in Slots : Step(i)

\* The microtasks and timers of a body run, and the browser answers a load.
Fairness ==
    /\ \A i \in Slots : WF_vars(Step(i))
    /\ WF_vars(Loads \/ Fails \/ HlsFails)
    /\ WF_vars(ManifestParsed)

Spec == Init /\ [][Next]_vars /\ Fairness

-----------------------------------------------------------------------------
(* What the engine promises.                                               *)

\* The output is at the volume, or silent when muted, unless a fade-in is under
\* way: whatever overtakes a fade (another attach, a pause, a failed play(), a
\* mute in its middle), nothing leaves the gain at the floor of a ramp, where
\* the next track would be inaudible.
GainFollows ==
    level # Applied =>
        /\ level = "floor"
        /\ \E i \in Slots : call[i].stage \in {"play", "fade"} /\ call[i].fade

\* A pause is not undone by what was in flight when it was pressed: no play(),
\* manifest or retry of an earlier request starts the element again.  (One that
\* meets a promotion in its wait is; see crossed.)
PauseSticks == want = "pause" /\ ~crossed => paused

\* What the element has is what was last asked for, and is what the engine
\* answers to isAttachedToTrack(), once no promotion is in its wait, unless
\* one was crossed.
LabelIsTrue ==
    ~crossed /\ (\A i \in Slots : call[i].stage \notin Waiting) =>
        /\ key \in Tracks => src = key
        /\ asked \in Tracks => key = asked

\* An error is reported for the track that was asked for last, never for one a
\* later request has replaced while its play() or its stream was failing.
ErrorsAreCurrent == told # "none" /\ ~crossed => told = asked

\* A load is never lost in silence: the track that was asked for plays, or its
\* failure is reported, or another request takes its place.
PlaysOrTells ==
    \A t \in Tracks :
        asked = t /\ want = "attach" /\ ~crossed
            ~> want # "attach" \/ told = t \/ asked # t \/ crossed

=============================================================================
