-------------------------- MODULE AudioEngine_proofs --------------------------
(***************************************************************************)
(* Proofs about AudioEngine: for any tracks, any number of bodies in       *)
(* flight and any requests, its four safety invariants hold.  None but     *)
(* GainFollows is inductive: that a pause sticks rests on nothing live or  *)
(* waiting being left behind by it, and that label and error are right     *)
(* rests on what a waiting promotion, the listener and the Hls.js instance *)
(* are for.  Both hold as long as no request has crossed a promotion.      *)
(***************************************************************************)
EXTENDS AudioEngine, TLAPS

\* What waits is what it was made for.
WaitInv ==
    \A i \in Slots :
        /\ call[i].stage = "promote" => call[i].for \in Tracks
        /\ call[i].stage = "native" => call[i].for = "hls" /\ support = "native"

ListenerInv == listener # NoListener => listener.for \in Tracks

\* A pause leaves nothing behind that could start the element.
PauseInv ==
    want = "pause" /\ ~crossed =>
        /\ paused /\ listener = NoListener /\ hls # "loading"
        /\ \A i \in Slots : ~call[i].live /\ call[i].stage \notin Waiting

NobodyWaits == \A i \in Slots : call[i].stage \notin Waiting

\* What waits is for the track asked for, and so is the label otherwise.
LabelInv ==
    /\ \A i \in Slots : call[i].stage \in Waiting => call[i].for = asked /\ src = asked
    /\ \A i \in Slots : call[i].stage = "native" => key = "hls"
    /\ NobodyWaits => key = asked /\ (key \in Tracks \cup {"none"} => src = key)

\* What may report an error, or has, does so for the track asked for.
ErrorInv ==
    /\ hls # "none" => key = "hls" /\ \A i \in Slots : call[i].stage # "promote"
    /\ listener # NoListener => listener.for = asked
    /\ told # "none" => told = asked
    /\ \A i \in Slots :
        call[i].stage \in {"resume", "play"} /\ call[i].live /\ call[i].for # "none"
            => call[i].for = asked

IInv ==
    /\ TypeOK /\ GainFollows /\ WaitInv /\ ListenerInv /\ PauseInv
    /\ ~crossed => LabelInv /\ ErrorInv

-----------------------------------------------------------------------------
(* Types.                                                                  *)

\* What invalidatePlay does to the bodies in flight: those that wait are left
\* alone, the others are no longer live and report nothing.
LEMMA OutdatedFacts ==
    ASSUME TypeOK
    PROVE  /\ Outdated \in [Slots -> Call]
           /\ \A i \in Slots :
                /\ Outdated[i].stage = call[i].stage
                /\ Outdated[i].fade = call[i].fade
                /\ call[i].stage \in Waiting => Outdated[i] = call[i]
                /\ call[i].stage \notin Waiting =>
                        ~Outdated[i].live /\ Outdated[i].for = "none"
<1>1. \A i \in Slots : call[i] \in Call
  BY DEF TypeOK
<1> QED
  BY <1>1 DEF Outdated, Call, Media

\* The three ways a body starts, and the idle slot, are calls.
LEMMA CallTypes ==
    /\ Idle \in Call
    /\ FadingIn \in Call
    /\ \A fade \in BOOLEAN, t \in Media : Started(fade, t) \in Call
    /\ \A stage \in Waiting, t \in Media : Suspended(stage, t) \in Call
    /\ \A t \in Tracks : t \in Media
    /\ "hls" \in Media /\ "none" \in Media
  BY DEF Idle, FadingIn, Call, Started, Suspended, Waiting, Media

\* Loading keeps the types.
LEMMA LoadType ==
    ASSUME TypeOK, NEW t \in Tracks, NEW force \in BOOLEAN, Load(t, force)
    PROVE  /\ src' \in Media /\ key' \in Media /\ net' \in {"loading", "ready", "failed"}
           /\ paused' \in BOOLEAN /\ graph' \in BOOLEAN
           /\ standby' \in [track : Tracks \cup {"none"}, ready : BOOLEAN]
           /\ call' \in [Slots -> Call]
           /\ listener' \in [for : Tracks \cup {"none"}, force : BOOLEAN]
           /\ hls' \in {"none", "loading", "cold", "parsed"}
           /\ level' \in {"set", "silent", "floor"}
<1>1. PICK i \in Slots, fade \in BOOLEAN : call' = [Outdated EXCEPT ![i] = Started(fade, t)]
  BY DEF Load
<1>2. call' \in [Slots -> Call]
  BY <1>1, OutdatedFacts, CallTypes
<1> QED
  BY <1>2 DEF Load, TypeOK, Media, Applied

LEMMA PromoteType ==
    ASSUME TypeOK, NEW t \in Tracks, Promote(t)
    PROVE  /\ src' \in Media /\ key' \in Media /\ net' \in {"loading", "ready", "failed"}
           /\ paused' \in BOOLEAN /\ graph' \in BOOLEAN
           /\ standby' \in [track : Tracks \cup {"none"}, ready : BOOLEAN]
           /\ call' \in [Slots -> Call]
           /\ listener' \in [for : Tracks \cup {"none"}, force : BOOLEAN]
           /\ hls' \in {"none", "loading", "cold", "parsed"}
           /\ level' \in {"set", "silent", "floor"}
<1>1. PICK i \in Slots : call' = [Outdated EXCEPT ![i] = Suspended("promote", t)]
  BY DEF Promote
<1>2. call' \in [Slots -> Call]
  BY <1>1, OutdatedFacts, CallTypes DEF Waiting
<1> QED
  BY <1>2 DEF Promote, TypeOK, Media, NoListener

LEMMA AgainType ==
    ASSUME TypeOK, NEW t \in Tracks \cup {"hls"}, AttachAgain(t)
    PROVE  TypeOK'
<1>1. CASE paused
  <2>1. PICK i \in Slots : call' = [call EXCEPT ![i] = Started(FALSE, t)]
    BY <1>1 DEF AttachAgain
  <2>2. Started(FALSE, t) \in Call
    BY CallTypes
  <2>3. call' \in [Slots -> Call]
    BY <2>1, <2>2 DEF TypeOK
  <2>4. /\ UNCHANGED <<src, net, paused, key, standby, listener, hls, graph, told>>
        /\ UNCHANGED <<muted, volume, preMuteVolume, support>>
        /\ asked' = t /\ level' = Applied
    BY <1>1 DEF AttachAgain, Asks
  <2>5. want' \in {want, "resume"} /\ crossed' \in BOOLEAN /\ reqs' \in 0 .. MaxRequests
    BY RequestsAssumption DEF AttachAgain, Asks, Request, Meets, TypeOK
  <2> QED
    BY <2>3, <2>4, <2>5 DEF TypeOK, Media, Applied
<1>2. CASE ~paused
  BY <1>2, RequestsAssumption DEF AttachAgain, Asks, Request, Meets, TypeOK, Media
<1> QED
  BY <1>1, <1>2

LEMMA TypeInit == Init => TypeOK
<1> SUFFICES ASSUME Init PROVE TypeOK
  OBVIOUS
<1>1. call \in [Slots -> Call]
  BY CallTypes DEF Init
<1>2. volume \in 0 .. MaxVolume /\ preMuteVolume \in 1 .. MaxVolume /\ reqs \in 0 .. MaxRequests
  BY VolumeAssumption, RequestsAssumption DEF Init
<1> QED
  BY <1>1, <1>2 DEF Init, TypeOK, NoStandby, NoListener, Media

LEMMA TypeStep == TypeOK /\ [Next]_vars => TypeOK'
<1> SUFFICES ASSUME TypeOK, [Next]_vars PROVE TypeOK'
  OBVIOUS
<1>1. CASE UNCHANGED vars
  BY <1>1 DEF TypeOK, vars, player, sound, history
<1>2. ASSUME NEW t \in Tracks, AttachHealthy(t) \/ AttachSame(t) PROVE TypeOK'
  BY <1>2, AgainType DEF AttachHealthy, AttachSame
<1>3. ASSUME NEW t \in Tracks, AttachPromote(t) PROVE TypeOK'
  <2>1. Promote(t) /\ AsksAfresh(t)
    BY <1>3 DEF AttachPromote
  <2> QED
    BY <2>1, PromoteType, RequestsAssumption DEF AsksAfresh, Request, Meets, TypeOK, Media
<1>4. ASSUME NEW t \in Tracks, NEW force \in BOOLEAN, AttachLoad(t, force) PROVE TypeOK'
  <2>1. Load(t, force) /\ AsksAfresh(t)
    BY <1>4 DEF AttachLoad
  <2> QED
    BY <2>1, LoadType, RequestsAssumption DEF AsksAfresh, Request, Meets, TypeOK, Media
<1>5. ASSUME NEW t \in Tracks, Prefetch(t) PROVE TypeOK'
  BY <1>5, RequestsAssumption DEF Prefetch, Request, TypeOK, sound
<1>6. CASE AttachHls
  <2>1. call' \in [Slots -> Call]
    BY <1>6, OutdatedFacts, CallTypes DEF AttachHls, Waiting
  <2> QED
    BY <1>6, <2>1, RequestsAssumption DEF AttachHls, Request, Report, Meets, TypeOK, Media, NoListener, Applied
<1>7. CASE AttachHlsAgain
  BY <1>7, AgainType DEF AttachHlsAgain
<1>8. CASE Pause
  BY <1>8, OutdatedFacts, RequestsAssumption DEF Pause, Request, Meets, Cold, TypeOK, NoListener, sound
<1>9. CASE Quit
  BY <1>9, OutdatedFacts, RequestsAssumption DEF Quit, Request, Meets, TypeOK, NoListener, sound, Media
<1>10. CASE Play
  <2>1. call' \in [Slots -> Call]
    BY <1>10, CallTypes DEF Play, TypeOK
  <2>2. /\ graph' = TRUE /\ want' = "resume" /\ reqs' \in 0 .. MaxRequests
        /\ UNCHANGED <<src, net, paused, key, standby, listener, hls, level,
                       muted, volume, preMuteVolume, support, asked, told, crossed>>
    BY <1>10, RequestsAssumption DEF Play, Request, TypeOK
  <2> QED
    BY <2>1, <2>2 DEF TypeOK
<1>11. ASSUME NEW v \in 0 .. MaxVolume, SetVolume(v) PROVE TypeOK'
  BY <1>11, RequestsAssumption, VolumeAssumption DEF SetVolume, Request, TypeOK, Applied, player
<1>12. CASE ToggleMute
  BY <1>12, RequestsAssumption, VolumeAssumption DEF ToggleMute, Request, TypeOK, Applied, player
<1>13. CASE Loads \/ StandbyLoads \/ Ends \/ HlsFails
  <2>1. CASE Loads
    BY <2>1 DEF Loads, TypeOK, sound, history
  <2>4. CASE Ends
    BY <2>4 DEF Ends, TypeOK, sound, history
  <2>2. CASE StandbyLoads
    <3>1. standby' \in [track : Tracks \cup {"none"}, ready : BOOLEAN]
      BY <2>2 DEF StandbyLoads, TypeOK
    <3> QED
      BY <2>2, <3>1 DEF StandbyLoads, TypeOK, sound, history
  <2>3. CASE HlsFails
    BY <2>3 DEF HlsFails, Report, TypeOK, Media, sound
  <2> QED
    BY <1>13, <2>1, <2>2, <2>3, <2>4
<1>14. CASE Fails
  <2>1. listener # NoListener => listener.for \in Tracks \cup {"none"}
    BY DEF TypeOK
  <2>2. CASE listener = NoListener \/ listener.force
    <3>1. /\ listener' = listener \/ listener' = NoListener
          /\ net' = "failed" /\ level' \in {level, Applied} /\ told' \in {told, listener.for}
          /\ UNCHANGED <<src, paused, key, standby, call, hls, graph, muted, volume,
                         preMuteVolume, support, asked, want, crossed, reqs>>
      BY <1>14, <2>2 DEF Fails, Report
    <3>2. level' \in {"set", "silent", "floor"} /\ told' \in Media
      BY <3>1 DEF TypeOK, Applied, Media
    <3>3. listener' \in [for : Tracks \cup {"none"}, force : BOOLEAN]
      <4>1. NoListener \in [for : Tracks \cup {"none"}, force : BOOLEAN]
        BY DEF NoListener
      <4> QED
        BY <3>1, <4>1 DEF TypeOK
    <3> QED
      BY <3>1, <3>2, <3>3 DEF TypeOK
  <2>3. CASE listener # NoListener /\ ~listener.force /\ listener.for \in Tracks
    <3>1. Promote(listener.for) \/ Load(listener.for, TRUE)
      BY <1>14, <2>3 DEF Fails
    <3> QED
      BY <1>14, <2>3, <3>1, PromoteType, LoadType DEF Fails, TypeOK
  <2> QED
    BY <2>1, <2>2, <2>3 DEF TypeOK, NoListener
<1>15. CASE ManifestParsed
  <2>1. call' \in [Slots -> Call]
    BY <1>15, CallTypes DEF ManifestParsed, TypeOK
  <2> QED
    BY <1>15, <2>1 DEF ManifestParsed, TypeOK, sound, history
<1>16. ASSUME NEW i \in Slots, Step(i) PROVE TypeOK'
  <2>1. call[i] \in Call /\ call[i].for \in Media
    BY DEF TypeOK, Call
  <2>2. CASE Resumed(i)
    <3>1. call' \in [Slots -> Call]
      BY <2>1, <2>2 DEF Resumed, TypeOK, Call
    <3>2. /\ paused' \in BOOLEAN
          /\ UNCHANGED <<src, net, key, standby, listener, hls, graph, muted, volume,
                         preMuteVolume, support, asked, told, want, crossed, reqs>>
      BY <2>2 DEF Resumed, history
    <3>3. level' \in {"set", "silent", "floor"}
      BY <2>2 DEF Resumed, Applied
    <3> QED
      BY <3>1, <3>2, <3>3 DEF TypeOK
  <2>3. CASE Blocked(i) \/ Overtaken(i) \/ Rejected(i) \/ Faded(i)
    <3>1. call' \in [Slots -> Call]
      BY <2>3, CallTypes DEF Blocked, Overtaken, Rejected, Faded, End, TypeOK
    <3> QED
      BY <2>1, <2>3, <3>1 DEF Blocked, Overtaken, Rejected, Faded, Tells, Report, TypeOK,
                              Applied, history
  <2>4. CASE Played(i)
    <3>1. call' \in [Slots -> Call]
      BY <2>4, CallTypes DEF Played, End, TypeOK
    <3> QED
      BY <2>4, <3>1 DEF Played, TypeOK, Applied
  <2>5. CASE Promoted(i) \/ NativeReady(i)
    <3>1. call' \in [Slots -> Call]
      BY <2>1, <2>5, CallTypes DEF Promoted, NativeReady, TypeOK
    <3>2. CASE Promoted(i)
      <4>1. /\ key' = call[i].for /\ standby' = NoStandby /\ graph' = TRUE
            /\ UNCHANGED <<src, net, paused, listener, hls, level, muted, volume,
                           preMuteVolume, support, asked, told, want, crossed, reqs>>
        BY <3>2 DEF Promoted, history
      <4> QED
        BY <2>1, <3>1, <4>1 DEF TypeOK, NoStandby
    <3>3. CASE NativeReady(i)
      <4>1. UNCHANGED <<src, net, paused, key, standby, listener, hls, sound, support, history>>
        BY <3>3 DEF NativeReady
      <4> QED
        BY <3>1, <4>1 DEF TypeOK, sound, history
    <3> QED
      BY <2>5, <3>2, <3>3
  <2> QED
    BY <1>16, <2>2, <2>3, <2>4, <2>5 DEF Step
<1> QED
  BY <1>1, <1>2, <1>3, <1>4, <1>5, <1>6, <1>7, <1>8, <1>9, <1>10, <1>11, <1>12, <1>13,
     <1>14, <1>15, <1>16 DEF Next, Player, Browser, Toggle

-----------------------------------------------------------------------------
(* The gain.                                                               *)

\* A step that touches neither level nor mute, and no body in its fade.
LEMMA GainKept ==
    ASSUME GainFollows, level' = level, muted' = muted,
           \A j \in Slots : call[j].stage \in {"play", "fade"} =>
                call'[j].stage = call[j].stage /\ call'[j].fade = call[j].fade
    PROVE  GainFollows'
  BY DEF GainFollows, Applied

\* A body put in the slot of another: the other slots are f's.
LEMMA PutFacts ==
    ASSUME NEW f \in [Slots -> Call], NEW i \in Slots, NEW c, call' = [f EXCEPT ![i] = c]
    PROVE  call'[i] = c /\ \A j \in Slots \ {i} : call'[j] = f[j]
  OBVIOUS

LEMMA GainStep == TypeOK /\ GainFollows /\ [Next]_vars => GainFollows'
<1> SUFFICES ASSUME TypeOK, GainFollows, [Next]_vars PROVE GainFollows'
  OBVIOUS
<1>0. ASSUME NEW i \in Slots, NEW c, call[i].stage = "idle", level' = level, muted' = muted,
             call' = [call EXCEPT ![i] = c] \/ call' = [Outdated EXCEPT ![i] = c]
      PROVE  GainFollows'
  <2>1. \A j \in Slots : call[j].stage \in {"play", "fade"} =>
            call'[j].stage = call[j].stage /\ call'[j].fade = call[j].fade
    BY <1>0, OutdatedFacts, PutFacts DEF TypeOK
  <2> QED
    BY <1>0, <2>1, GainKept
<1>1. ASSUME call' = call, level' = level, muted' = muted PROVE GainFollows'
  BY <1>1, GainKept
<1>2. ASSUME level' = Applied, muted' = muted PROVE GainFollows'
  BY <1>2 DEF GainFollows, Applied
<1>3. CASE UNCHANGED vars
  BY <1>1, <1>3 DEF vars, player, sound
<1>4. ASSUME NEW t, AttachAgain(t) PROVE GainFollows'
  <2>1. CASE paused
    BY <1>2, <1>4, <2>1 DEF AttachAgain, Asks
  <2>2. CASE ~paused
    BY <1>1, <1>4, <2>2 DEF AttachAgain, Asks
  <2> QED
    BY <2>1, <2>2
<1>5. ASSUME NEW t, Promote(t), muted' = muted PROVE GainFollows'
  BY <1>0, <1>5 DEF Promote, Free
<1>6. ASSUME NEW t, NEW force, Load(t, force), muted' = muted PROVE GainFollows'
  BY <1>2, <1>6 DEF Load
<1>7. ASSUME NEW t \in Tracks,
             \/ AttachHealthy(t) \/ AttachSame(t) \/ AttachPromote(t)
             \/ \E force \in BOOLEAN : AttachLoad(t, force)
      PROVE  GainFollows'
  BY <1>4, <1>5, <1>6, <1>7 DEF AttachHealthy, AttachSame, AttachPromote, AttachLoad, AsksAfresh
<1>8. ASSUME NEW t \in Tracks, Prefetch(t) PROVE GainFollows'
  BY <1>1, <1>8 DEF Prefetch, sound
<1>9. CASE AttachHls
  BY <1>2, <1>9 DEF AttachHls
<1>10. CASE AttachHlsAgain
  BY <1>4, <1>10 DEF AttachHlsAgain
<1>11. CASE Pause \/ Quit
  BY <1>11, OutdatedFacts, GainKept DEF Pause, Quit, sound
<1>12. CASE Play
  BY <1>0, <1>12 DEF Play, Free
<1>13. CASE ToggleMute \/ \E v \in 0 .. MaxVolume : SetVolume(v)
  BY <1>13 DEF ToggleMute, SetVolume, GainFollows, Applied
<1>14. CASE Loads \/ StandbyLoads \/ Ends \/ HlsFails
  BY <1>1, <1>14 DEF Loads, StandbyLoads, Ends, HlsFails, sound
<1>15. CASE Fails
  BY <1>1, <1>2, <1>5, <1>6, <1>15 DEF Fails
<1>16. CASE ManifestParsed
  BY <1>0, <1>1, <1>16 DEF ManifestParsed, Free, sound
<1>17. ASSUME NEW i \in Slots, Step(i) PROVE GainFollows'
  <2>1. CASE Resumed(i)
    <3>1. CASE ~Fades(call[i])
      BY <1>2, <2>1, <3>1 DEF Resumed
    <3>2. CASE Fades(call[i])
      <4>1. call'[i].stage = "play" /\ call'[i].fade = call[i].fade /\ level' = "floor"
        BY <2>1, <3>2 DEF Resumed, TypeOK, Call
      <4> QED
        BY <3>2, <4>1 DEF GainFollows, Fades
    <3> QED
      BY <3>1, <3>2
  <2>2. CASE Blocked(i) \/ Overtaken(i) \/ Rejected(i) \/ Faded(i)
    BY <1>2, <2>2 DEF Blocked, Overtaken, Rejected, Faded
  <2>3. CASE Played(i)
    <3>1. CASE ~Fades(call[i])
      BY <1>2, <2>3, <3>1 DEF Played
    <3>2. CASE Fades(call[i])
      <4>1. call'[i] = FadingIn /\ level' = "floor"
        BY <2>3, <3>2 DEF Played, TypeOK
      <4> QED
        BY <4>1 DEF GainFollows, FadingIn
    <3> QED
      BY <3>1, <3>2
  <2>4. CASE Promoted(i) \/ NativeReady(i)
    <3>1. \A j \in Slots \ {i} : call'[j] = call[j]
      BY <2>4 DEF Promoted, NativeReady, TypeOK
    <3>2. call[i].stage \notin {"play", "fade"} /\ level' = level /\ muted' = muted
      BY <2>4 DEF Promoted, NativeReady, sound
    <3> QED
      BY <3>1, <3>2, GainKept
  <2> QED
    BY <1>17, <2>1, <2>2, <2>3, <2>4 DEF Step
<1> QED
  BY <1>3, <1>7, <1>8, <1>9, <1>10, <1>11, <1>12, <1>13, <1>14, <1>15, <1>16, <1>17
     DEF Next, Player, Browser, Toggle

-----------------------------------------------------------------------------
(* What waits, and what listens.                                           *)

\* Started and fading bodies, and idle slots, do not wait.
LEMMA NotWaiting ==
    /\ Idle.stage \notin Waiting /\ FadingIn.stage \notin Waiting
    /\ \A fade, t : Started(fade, t).stage \notin Waiting
  BY DEF Idle, FadingIn, Started, Waiting

\* A step after which only what waited before waits.
LEMMA WaitKept ==
    ASSUME WaitInv, support' = support,
           \A j \in Slots : call'[j].stage \in Waiting => call'[j] = call[j]
    PROVE  WaitInv'
  BY DEF WaitInv, Waiting

LEMMA WaitStep == TypeOK /\ WaitInv /\ ListenerInv /\ [Next]_vars => WaitInv' /\ ListenerInv'
<1> SUFFICES ASSUME TypeOK, WaitInv, ListenerInv, [Next]_vars PROVE WaitInv' /\ ListenerInv'
  OBVIOUS
<1>1. ASSUME call' = call, support' = support PROVE WaitInv'
  BY <1>1, WaitKept
<1>2. ASSUME call' = Outdated, support' = support PROVE WaitInv'
  BY <1>2, OutdatedFacts, WaitKept
<1>3. ASSUME NEW i \in Slots, NEW c, c.stage \notin Waiting, support' = support,
             call' = [call EXCEPT ![i] = c] \/ call' = [Outdated EXCEPT ![i] = c]
      PROVE  WaitInv'
  <2>1. \A j \in Slots : call'[j].stage \in Waiting => call'[j] = call[j]
    BY <1>3, OutdatedFacts, PutFacts DEF TypeOK
  <2> QED
    BY <1>3, <2>1, WaitKept
<1>4. ASSUME listener' = listener \/ listener' = NoListener PROVE ListenerInv'
  BY <1>4 DEF ListenerInv
<1>5. CASE UNCHANGED vars
  BY <1>1, <1>4, <1>5 DEF vars, player
<1>6. ASSUME NEW t, AttachAgain(t) PROVE WaitInv' /\ ListenerInv'
  <2>1. CASE paused
    BY <1>3, <1>4, <1>6, <2>1, NotWaiting DEF AttachAgain, Asks
  <2>2. CASE ~paused
    BY <1>1, <1>4, <1>6, <2>2 DEF AttachAgain, Asks
  <2> QED
    BY <2>1, <2>2
<1>7. ASSUME NEW t \in Tracks, Promote(t), support' = support PROVE WaitInv' /\ ListenerInv'
  <2>1. PICK i \in Slots : call' = [Outdated EXCEPT ![i] = Suspended("promote", t)]
    BY <1>7 DEF Promote
  <2>2. call'[i] = Suspended("promote", t) /\ \A j \in Slots \ {i} : call'[j] = Outdated[j]
    BY <2>1, OutdatedFacts, PutFacts
  <2>3. \A j \in Slots \ {i} :
            /\ call'[j].stage = "promote" => call'[j].for \in Tracks
            /\ call'[j].stage = "native" => call'[j].for = "hls" /\ support = "native"
    BY <2>2, OutdatedFacts DEF WaitInv, Waiting
  <2> QED
    BY <1>4, <1>7, <2>2, <2>3 DEF WaitInv, Suspended, Promote
<1>8. ASSUME NEW t \in Tracks, NEW force, Load(t, force), support' = support
      PROVE  WaitInv' /\ ListenerInv'
  <2>1. WaitInv'
    BY <1>3, <1>8, NotWaiting DEF Load
  <2>2. listener'.for = t
    BY <1>8 DEF Load
  <2> QED
    BY <2>1, <2>2 DEF ListenerInv
<1>9. ASSUME NEW t \in Tracks,
             \/ AttachHealthy(t) \/ AttachSame(t) \/ AttachPromote(t)
             \/ \E force \in BOOLEAN : AttachLoad(t, force)
      PROVE  WaitInv' /\ ListenerInv'
  BY <1>6, <1>7, <1>8, <1>9 DEF AttachHealthy, AttachSame, AttachPromote, AttachLoad, AsksAfresh
<1>10. ASSUME NEW t \in Tracks, Prefetch(t) PROVE WaitInv' /\ ListenerInv'
  BY <1>1, <1>4, <1>10 DEF Prefetch
<1>11. CASE AttachHls
  <2>1. listener' = NoListener /\ support' = support
    BY <1>11 DEF AttachHls
  <2>2. CASE support # "native"
    BY <1>2, <1>4, <1>11, <2>1, <2>2 DEF AttachHls
  <2>3. CASE support = "native"
    <3>1. PICK i \in Slots : call' = [Outdated EXCEPT ![i] = Suspended("native", "hls")]
      BY <1>11, <2>3 DEF AttachHls
    <3>2. call'[i] = Suspended("native", "hls") /\ \A j \in Slots \ {i} : call'[j] = Outdated[j]
      BY <3>1, OutdatedFacts, PutFacts
    <3>3. \A j \in Slots \ {i} :
              /\ call'[j].stage = "promote" => call'[j].for \in Tracks
              /\ call'[j].stage = "native" => call'[j].for = "hls" /\ support = "native"
      BY <3>2, OutdatedFacts DEF WaitInv, Waiting
    <3> QED
      BY <1>4, <2>1, <2>3, <3>2, <3>3 DEF WaitInv, Suspended
  <2> QED
    BY <2>2, <2>3
<1>12. CASE AttachHlsAgain
  BY <1>6, <1>12 DEF AttachHlsAgain
<1>13. CASE Pause \/ Quit
  BY <1>2, <1>4, <1>13 DEF Pause, Quit
<1>14. CASE Play
  BY <1>3, <1>4, <1>14, NotWaiting DEF Play
<1>15. CASE ToggleMute \/ \E v \in 0 .. MaxVolume : SetVolume(v)
  BY <1>1, <1>4, <1>15 DEF ToggleMute, SetVolume, player
<1>16. CASE Loads \/ StandbyLoads \/ Ends \/ HlsFails
  BY <1>1, <1>4, <1>16 DEF Loads, StandbyLoads, Ends, HlsFails
<1>17. CASE Fails
  <2>1. CASE listener = NoListener \/ listener.force
    BY <1>1, <1>4, <1>17, <2>1 DEF Fails
  <2>2. CASE listener # NoListener /\ ~listener.force
    BY <1>7, <1>8, <1>17, <2>2 DEF Fails, ListenerInv
  <2> QED
    BY <2>1, <2>2
<1>18. CASE ManifestParsed
  BY <1>1, <1>3, <1>4, <1>18, NotWaiting DEF ManifestParsed
<1>19. ASSUME NEW i \in Slots, Step(i) PROVE WaitInv' /\ ListenerInv'
  <2>1. listener' = listener /\ support' = support
    BY <1>19 DEF Step, Resumed, Blocked, Overtaken, Played, Rejected, Faded, Promoted, NativeReady
  <2>2. \A j \in Slots : call'[j].stage \in Waiting => call'[j] = call[j]
    <3>1. CASE Resumed(i)
      BY <3>1 DEF Resumed, Waiting, TypeOK, Call
    <3>2. CASE ~Resumed(i)
      <4>1. \E c : c.stage \notin Waiting /\ call' = [call EXCEPT ![i] = c]
        BY <1>19, <3>2, NotWaiting DEF Step, Blocked, Overtaken, Played, Rejected, Faded,
                                       Promoted, NativeReady, End
      <4> QED
        BY <4>1, PutFacts DEF TypeOK
    <3> QED
      BY <3>1, <3>2
  <2> QED
    BY <1>4, <2>1, <2>2, WaitKept
<1> QED
  BY <1>5, <1>9, <1>10, <1>11, <1>12, <1>13, <1>14, <1>15, <1>16, <1>17, <1>18, <1>19
     DEF Next, Player, Browser, Toggle

-----------------------------------------------------------------------------
(* A pause sticks.                                                         *)

\* A request for t that no waiting body crosses finds only bodies for t waiting;
\* one for no track finds none.
LEMMA MeetsFacts ==
    ASSUME TypeOK, WaitInv, NEW t, ~Meets(t)
    PROVE  /\ \A i \in Slots : call[i].stage \in Waiting => call[i].for = t
           /\ t = "none" => NobodyWaits
           /\ t \in Tracks => \A i \in Slots : call[i].stage # "native"
           /\ t = "hls" => \A i \in Slots : call[i].stage # "promote"
<1>1. \A i \in Slots : call[i].stage \in Waiting => call[i].for = t
  BY DEF Meets
<1>2. "hls" \notin Tracks /\ "none" \notin Tracks
  BY TracksAssumption
<1> QED
  BY <1>1, <1>2 DEF WaitInv, NobodyWaits, Waiting

LEMMA PauseStep == TypeOK /\ WaitInv /\ PauseInv /\ [Next]_vars => PauseInv'
<1> SUFFICES ASSUME TypeOK, WaitInv, PauseInv, [Next]_vars, want' = "pause", ~crossed'
             PROVE  /\ paused' /\ listener' = NoListener /\ hls' # "loading"
                    /\ \A i \in Slots : ~call'[i].live /\ call'[i].stage \notin Waiting
  BY DEF PauseInv
<1> DEFINE Quiet == /\ paused /\ listener = NoListener /\ hls # "loading"
                   /\ \A i \in Slots : ~call[i].live /\ call[i].stage \notin Waiting
<1>1. want = "pause" /\ ~crossed => Quiet
  BY DEF PauseInv
<1>2. CASE UNCHANGED vars
  BY <1>1, <1>2 DEF vars, player, history
<1>3. ASSUME NEW t \in Tracks,
             \/ AttachHealthy(t) \/ AttachSame(t) \/ AttachPromote(t)
             \/ \E force \in BOOLEAN : AttachLoad(t, force)
      PROVE  FALSE
  BY <1>3 DEF AttachHealthy, AttachSame, AttachPromote, AttachLoad, AttachAgain, AsksAfresh
<1>4. CASE AttachHls \/ AttachHlsAgain
  BY <1>4 DEF AttachHls, AttachHlsAgain, AttachAgain
<1>5. ASSUME NEW t \in Tracks, Prefetch(t) PROVE Quiet'
  BY <1>1, <1>5 DEF Prefetch
<1>6. CASE Pause \/ Quit
  <2>1. ~Meets("none")
    BY <1>6 DEF Pause, Quit
  <2>2. NobodyWaits
    BY <2>1, MeetsFacts
  <2>3. call' = Outdated /\ paused' = TRUE /\ listener' = NoListener /\ hls' # "loading"
    BY <1>6 DEF Pause, Quit, Cold
  <2> QED
    BY <2>2, <2>3, OutdatedFacts DEF NobodyWaits
<1>7. CASE Play
  BY <1>7 DEF Play
<1>8. CASE ToggleMute \/ \E v \in 0 .. MaxVolume : SetVolume(v)
  BY <1>1, <1>8 DEF ToggleMute, SetVolume, player
<1>9. CASE Loads \/ StandbyLoads \/ Ends \/ HlsFails
  BY <1>1, <1>9 DEF Loads, StandbyLoads, Ends, HlsFails, history
<1>10. CASE Fails
  <2>1. want = "pause" /\ ~crossed
    BY <1>10 DEF Fails
  <2> QED
    BY <1>1, <1>10, <2>1 DEF Fails
<1>11. CASE ManifestParsed
  BY <1>1, <1>11 DEF ManifestParsed, history
<1>12. ASSUME NEW i \in Slots, Step(i) PROVE Quiet'
  <2>1. want = "pause" /\ ~crossed
    <3>1. CASE Played(i)
      BY <3>1 DEF Played
    <3>2. CASE ~Played(i)
      <4>1. want' = want
        BY <1>12, <3>2 DEF Step, Resumed, Blocked, Overtaken, Rejected, Faded, Promoted,
                           NativeReady, history
      <4>2. crossed' = crossed
        BY <1>12, <3>2 DEF Step, Resumed, Blocked, Overtaken, Rejected, Faded, Promoted,
                           NativeReady, history
      <4> QED
        BY <4>1, <4>2 DEF TypeOK
    <3> QED
      BY <3>1, <3>2
  <2>2. ~call[i].live /\ call[i].stage \notin Waiting
    BY <1>1, <2>1
  <2>3. Overtaken(i) \/ Faded(i)
    BY <1>12, <2>2 DEF Step, Resumed, Blocked, Played, Rejected, Promoted, NativeReady, Waiting
  <2>4. /\ call' = [call EXCEPT ![i] = Idle]
        /\ UNCHANGED <<paused, listener, hls>>
    BY <2>3 DEF Overtaken, Faded, End
  <2>5. ~Idle.live
    BY DEF Idle
  <2> QED
    BY <1>1, <2>1, <2>4, <2>5, NotWaiting, PutFacts DEF TypeOK
<1> QED
  BY <1>2, <1>3, <1>4, <1>5, <1>6, <1>7, <1>8, <1>9, <1>10, <1>11, <1>12
     DEF Next, Player, Browser, Toggle

-----------------------------------------------------------------------------
(* Labels and errors.                                                      *)

\* A step that starts or ends a body of the track asked for, and changes neither
\* the label nor what may report.
LEMMA CurrentKept ==
    ASSUME LabelInv, ErrorInv, UNCHANGED <<src, key, asked>>,
           hls' = hls \/ hls' = "none" \/ hls # "none",
           listener' = listener \/ listener' = NoListener,
           told' = told \/ told' = "none" \/ told' = asked,
           NobodyWaits' => NobodyWaits,
           \A j \in Slots :
                /\ call'[j].stage \in Waiting => call'[j] = call[j]
                /\ \/ call'[j].stage \notin {"resume", "play"}
                   \/ ~call'[j].live
                   \/ call'[j].for \in {"none", asked}
                   \/ call'[j] = call[j]
    PROVE  LabelInv' /\ ErrorInv'
<1>1. \A j \in Slots : call'[j].stage \in {"promote", "native"} => call'[j] = call[j]
  BY DEF Waiting
<1>2. LabelInv'
  BY <1>1 DEF LabelInv
<1>3. ErrorInv'
  BY <1>1 DEF ErrorInv
<1> QED
  BY <1>2, <1>3

\* Promoting the track asked for, with nothing waiting for another.
LEMMA PromoteCurrent ==
    ASSUME TypeOK, NEW t \in Tracks, Promote(t), asked' = t,
           told' = "none" \/ told' = t,
           \A i \in Slots : call[i].stage \in Waiting => call[i].for = t,
           \A i \in Slots : call[i].stage = "native" => FALSE
    PROVE  LabelInv' /\ ErrorInv'
<1>1. PICK i \in Slots : call' = [Outdated EXCEPT ![i] = Suspended("promote", t)]
  BY DEF Promote
<1>2. call'[i] = Suspended("promote", t) /\ \A j \in Slots \ {i} : call'[j] = Outdated[j]
  BY <1>1, OutdatedFacts, PutFacts
<1>3. /\ call'[i].stage = "promote" /\ call'[i].for = t
      /\ \A j \in Slots \ {i} :
            /\ call'[j].stage = call[j].stage
            /\ call'[j].stage \in Waiting => call'[j].for = t
            /\ call'[j].stage \notin Waiting => call'[j].for = "none"
  BY <1>2, OutdatedFacts DEF Suspended
<1>4. src' = t /\ hls' = "none" /\ listener' = NoListener
  BY DEF Promote
<1>5. LabelInv'
  BY <1>3, <1>4 DEF LabelInv, NobodyWaits, Waiting
<1>6. ErrorInv'
  BY <1>3, <1>4 DEF ErrorInv, Waiting
<1> QED
  BY <1>5, <1>6

\* Loading the track asked for, with nothing waiting for another.
LEMMA LoadCurrent ==
    ASSUME TypeOK, NEW t \in Tracks, NEW force, Load(t, force), asked' = t,
           told' = "none" \/ told' = t,
           \A i \in Slots : call[i].stage \in Waiting => call[i].for = t,
           \A i \in Slots : call[i].stage = "native" => FALSE
    PROVE  LabelInv' /\ ErrorInv'
<1>1. PICK i \in Slots, fade \in BOOLEAN : call' = [Outdated EXCEPT ![i] = Started(fade, t)]
  BY DEF Load
<1>2. call'[i] = Started(fade, t) /\ \A j \in Slots \ {i} : call'[j] = Outdated[j]
  BY <1>1, OutdatedFacts, PutFacts
<1>3. /\ call'[i].stage = "resume" /\ call'[i].for = t
      /\ \A j \in Slots \ {i} :
            /\ call'[j].stage = call[j].stage
            /\ call'[j].stage \in Waiting => call'[j].for = t
            /\ call'[j].stage \notin Waiting => call'[j].for = "none"
  BY <1>2, OutdatedFacts DEF Started
<1>4. src' = t /\ key' = t /\ hls' = "none" /\ listener'.for = t
  BY DEF Load
<1>5. LabelInv'
  BY <1>3, <1>4 DEF LabelInv, NobodyWaits, Waiting
<1>6. ErrorInv'
  BY <1>3, <1>4 DEF ErrorInv, Waiting
<1> QED
  BY <1>5, <1>6

\* While a waiting body or the label is for t, t is the track asked for.
LEMMA AskedIsKey ==
    ASSUME LabelInv, NEW t, key = t, \A i \in Slots : call[i].stage \in Waiting => call[i].for = t
    PROVE  asked = t
  BY DEF LabelInv, NobodyWaits

\* The same track attached again: at most another play().
LEMMA AgainCurrent ==
    ASSUME TypeOK, WaitInv, LabelInv, ErrorInv, NEW t, key = t, ~Meets(t), AttachAgain(t)
    PROVE  LabelInv' /\ ErrorInv'
<1>1. asked = t
  BY AskedIsKey, MeetsFacts
<1>2. UNCHANGED <<src, key, listener, hls, told>> /\ asked' = asked
  BY <1>1 DEF AttachAgain, Asks
<1>3. CASE paused
  <2>1. PICK i \in Slots : Free(i) /\ call' = [call EXCEPT ![i] = Started(FALSE, t)]
    BY <1>3 DEF AttachAgain
  <2>2. /\ call'[i] = Started(FALSE, t) /\ call[i].stage = "idle"
        /\ \A j \in Slots \ {i} : call'[j] = call[j]
    BY <2>1, PutFacts DEF TypeOK, Free
  <2>3. /\ call'[i].for = asked /\ call'[i].stage \notin Waiting
        /\ NobodyWaits' => NobodyWaits
    BY <1>1, <2>2 DEF Started, NobodyWaits, Waiting
  <2> QED
    BY <1>2, <2>2, <2>3, CurrentKept
<1>4. CASE ~paused
  <2>1. call' = call
    BY <1>4 DEF AttachAgain
  <2> QED
    BY <1>2, <2>1, CurrentKept DEF NobodyWaits
<1> QED
  BY <1>3, <1>4

LEMMA CurrentStep ==
    TypeOK /\ WaitInv /\ ListenerInv /\ (~crossed => LabelInv /\ ErrorInv) /\ [Next]_vars
        => (~crossed => LabelInv /\ ErrorInv)'
<1> SUFFICES ASSUME TypeOK, WaitInv, ListenerInv, ~crossed => LabelInv /\ ErrorInv,
                    [Next]_vars, ~crossed'
             PROVE  LabelInv' /\ ErrorInv'
  OBVIOUS
<1>0. "hls" \notin Tracks /\ "none" \notin Tracks
  BY TracksAssumption
<1>1. ASSUME UNCHANGED <<src, key, call, listener, asked, told>>, ~crossed,
             hls' = hls \/ hls # "none"
      PROVE  LabelInv' /\ ErrorInv'
  BY <1>1, CurrentKept DEF NobodyWaits
<1>2. CASE UNCHANGED vars
  BY <1>1, <1>2 DEF vars, player, history
<1>3. ASSUME NEW t \in Tracks, AttachHealthy(t) \/ AttachSame(t)
      PROVE  LabelInv' /\ ErrorInv'
  <2>1. AttachAgain(t) /\ key = t
    BY <1>3 DEF AttachHealthy, AttachSame, Healthy
  <2>2. ~crossed /\ ~Meets(t)
    BY <2>1 DEF AttachAgain, Asks
  <2> QED
    BY <2>1, <2>2, AgainCurrent
<1>4. ASSUME NEW t \in Tracks, AttachPromote(t) PROVE LabelInv' /\ ErrorInv'
  <2>1. ~Meets(t) /\ asked' = t /\ told' = "none" /\ Promote(t)
    BY <1>4 DEF AttachPromote, AsksAfresh
  <2> QED
    BY <2>1, MeetsFacts, PromoteCurrent
<1>5. ASSUME NEW t \in Tracks, NEW force \in BOOLEAN, AttachLoad(t, force)
      PROVE  LabelInv' /\ ErrorInv'
  <2>1. ~Meets(t) /\ asked' = t /\ told' = "none" /\ Load(t, force)
    BY <1>5 DEF AttachLoad, AsksAfresh
  <2> QED
    BY <2>1, MeetsFacts, LoadCurrent
<1>6. ASSUME NEW t \in Tracks, Prefetch(t) PROVE LabelInv' /\ ErrorInv'
  BY <1>1, <1>6 DEF Prefetch
<1>7. CASE AttachHls
  <2>1. ~Meets("hls") /\ asked' = "hls" /\ key' = "hls" /\ listener' = NoListener
    BY <1>7 DEF AttachHls
  <2>2. \A j \in Slots :
            /\ call[j].stage # "promote"
            /\ call[j].stage \in Waiting => call[j].for = "hls"
    BY <2>1, MeetsFacts
  <2>3. CASE support = "native"
    <3>1. PICK i \in Slots : call' = [Outdated EXCEPT ![i] = Suspended("native", "hls")]
      BY <1>7, <2>3 DEF AttachHls
    <3>2. call'[i] = Suspended("native", "hls") /\ \A j \in Slots \ {i} : call'[j] = Outdated[j]
      BY <3>1, OutdatedFacts, PutFacts
    <3>3. src' = "hls" /\ told' = "none" /\ hls' = "none"
      BY <1>7, <2>3 DEF AttachHls
    <3>4. /\ call'[i].stage = "native" /\ call'[i].for = "hls"
          /\ \A j \in Slots \ {i} :
                /\ call'[j].stage \in Waiting => call'[j].for = "hls"
                /\ call'[j].stage \notin Waiting => call'[j].for = "none"
      <4>1. \A j \in Slots : Outdated[j].stage \in Waiting => Outdated[j].for = "hls"
        BY <2>2, OutdatedFacts
      <4>2. \A j \in Slots : Outdated[j].stage \notin Waiting => Outdated[j].for = "none"
        BY OutdatedFacts
      <4> QED
        BY <3>2, <4>1, <4>2 DEF Suspended
    <3>5. LabelInv'
      BY <2>1, <3>3, <3>4 DEF LabelInv, NobodyWaits, Waiting
    <3>6. ErrorInv'
      BY <2>1, <3>3, <3>4 DEF ErrorInv, Waiting
    <3> QED
      BY <3>5, <3>6
  <2>4. CASE support # "native"
    <3>1. NobodyWaits /\ call' = Outdated /\ told' \in {"none", "hls"}
      <4>1. NobodyWaits
        BY <2>2, <2>4 DEF WaitInv, NobodyWaits, Waiting
      <4>2. call' = Outdated /\ told' \in {"none", "hls"}
        BY <1>7, <2>4 DEF AttachHls, Report
      <4> QED
        BY <4>1, <4>2
    <3>2. \A j \in Slots : call'[j].stage \notin Waiting /\ call'[j].for = "none"
      BY <3>1, OutdatedFacts DEF NobodyWaits
    <3>3. LabelInv'
      BY <1>0, <2>1, <3>2 DEF LabelInv, Waiting
    <3>4. ErrorInv'
      BY <2>1, <3>1, <3>2 DEF ErrorInv, Waiting
    <3> QED
      BY <3>3, <3>4
  <2> QED
    BY <2>3, <2>4
<1>8. CASE AttachHlsAgain
  <2>1. AttachAgain("hls") /\ key = "hls" /\ ~crossed /\ ~Meets("hls")
    BY <1>8 DEF AttachHlsAgain, AttachAgain, Asks
  <2> QED
    BY <2>1, AgainCurrent
<1>9. CASE Pause \/ Quit
  <2>1. ~crossed /\ ~Meets("none")
    BY <1>9 DEF Pause, Quit
  <2>2. NobodyWaits
    BY <2>1, MeetsFacts
  <2>3. \A j \in Slots : call'[j].stage \notin Waiting /\ call'[j].for = "none"
    BY <1>9, <2>2, OutdatedFacts DEF Pause, Quit, NobodyWaits
  <2>4. /\ UNCHANGED <<key, asked, told>> /\ listener' = NoListener
        /\ hls' # "none" => hls # "none"
        /\ src' = src \/ hls # "none"
    BY <1>9 DEF Pause, Quit, Cold
  <2>5. LabelInv /\ ErrorInv
    BY <2>1
  <2>6. LabelInv'
    BY <1>0, <2>2, <2>3, <2>4, <2>5 DEF LabelInv, ErrorInv, Waiting
  <2>7. ErrorInv'
    BY <2>3, <2>4, <2>5 DEF ErrorInv, Waiting
  <2> QED
    BY <2>6, <2>7
<1>10. CASE Play
  <2>1. PICK i \in Slots : Free(i) /\ call' = [call EXCEPT ![i] = Started(FALSE, "none")]
    BY <1>10 DEF Play
  <2>2. /\ call'[i] = Started(FALSE, "none") /\ call[i].stage = "idle"
        /\ \A j \in Slots \ {i} : call'[j] = call[j]
    BY <2>1, PutFacts DEF TypeOK, Free
  <2>3. /\ call'[i].for = "none" /\ call'[i].stage \notin Waiting
        /\ NobodyWaits' => NobodyWaits
    BY <2>2 DEF Started, NobodyWaits, Waiting
  <2>4. UNCHANGED <<src, key, asked, hls, listener, told, crossed>>
    BY <1>10 DEF Play
  <2> QED
    BY <2>2, <2>3, <2>4, CurrentKept
<1>11. CASE ToggleMute \/ \E v \in 0 .. MaxVolume : SetVolume(v)
  BY <1>1, <1>11 DEF ToggleMute, SetVolume, player
<1>12. CASE Loads \/ StandbyLoads \/ Ends
  BY <1>1, <1>12 DEF Loads, StandbyLoads, Ends, history
<1>13. hls # "none" /\ ~crossed => asked = "hls"
  <2> SUFFICES ASSUME hls # "none", LabelInv, ErrorInv PROVE asked = "hls"
    OBVIOUS
  <2>1. key = "hls" /\ \A i \in Slots : call[i].stage \in Waiting => call[i].for = "hls"
    BY DEF ErrorInv, WaitInv, Waiting
  <2> QED
    BY <2>1, AskedIsKey
<1>14. CASE HlsFails
  <2>1. /\ UNCHANGED <<src, key, call, listener, hls, asked, crossed>>
        /\ told' = told \/ told' = asked
    BY <1>13, <1>14 DEF HlsFails, Report
  <2> QED
    BY <2>1, CurrentKept DEF NobodyWaits
<1>15. CASE ManifestParsed
  <2>1. UNCHANGED <<src, key, listener, asked, told, crossed>> /\ hls # "none"
    BY <1>15 DEF ManifestParsed, history
  <2>2. CASE hls = "loading"
    <3>1. PICK i \in Slots : Free(i) /\ call' = [call EXCEPT ![i] = Started(TRUE, "hls")]
      BY <1>15, <2>2 DEF ManifestParsed
    <3>2. /\ call'[i] = Started(TRUE, "hls") /\ call[i].stage = "idle"
          /\ \A j \in Slots \ {i} : call'[j] = call[j]
      BY <3>1, PutFacts DEF TypeOK, Free
    <3>3. /\ call'[i].for = asked /\ call'[i].stage \notin Waiting
          /\ NobodyWaits' => NobodyWaits
      BY <1>13, <2>1, <3>2 DEF Started, NobodyWaits, Waiting
    <3> QED
      BY <2>1, <3>2, <3>3, CurrentKept
  <2>3. CASE hls # "loading"
    BY <1>1, <1>15, <2>1, <2>3 DEF ManifestParsed
  <2> QED
    BY <2>2, <2>3
<1>16. CASE Fails
  <2>1. ~crossed /\ asked' = asked
    BY <1>16 DEF Fails
  <2>2. CASE listener = NoListener
    BY <1>1, <1>16, <2>1, <2>2 DEF Fails
  <2>3. CASE listener # NoListener /\ listener.force
    <3>1. /\ UNCHANGED <<src, key, call, hls>> /\ listener' = NoListener
          /\ told' = listener.for
      BY <1>16, <2>3 DEF Fails, Report
    <3>2. listener.for = asked
      BY <2>1, <2>3 DEF ErrorInv
    <3> QED
      BY <2>1, <3>1, <3>2, CurrentKept DEF NobodyWaits
  <2>4. CASE listener # NoListener /\ ~listener.force
    <3>1. /\ listener.for = asked /\ asked \in Tracks /\ told' = told
          /\ told = "none" \/ told = asked
      BY <1>16, <2>1, <2>4 DEF Fails, ErrorInv, ListenerInv
    <3>2. \A i \in Slots : call[i].stage \in Waiting => call[i].for = asked
      BY <2>1 DEF LabelInv
    <3>3. \A i \in Slots : call[i].stage = "native" => FALSE
      BY <1>0, <3>1, <3>2 DEF WaitInv, Waiting
    <3>4. Promote(asked) \/ Load(asked, TRUE)
      BY <1>16, <2>4, <3>1 DEF Fails
    <3> QED
      BY <2>1, <3>1, <3>2, <3>3, <3>4, PromoteCurrent, LoadCurrent
  <2> QED
    BY <2>2, <2>3, <2>4
<1>17. ASSUME NEW i \in Slots, Step(i) PROVE LabelInv' /\ ErrorInv'
  <2>1. asked' = asked /\ listener' = listener /\ hls' = hls
    BY <1>17 DEF Step, Resumed, Blocked, Overtaken, Played, Rejected, Faded, Promoted,
                 NativeReady, history
  <2>2. crossed' = crossed /\ src' = src
    BY <1>17 DEF Step, Resumed, Blocked, Overtaken, Played, Rejected, Faded, Promoted,
                 NativeReady, history
  <2>3. LabelInv /\ ErrorInv
    BY <2>2
  <2>4. CASE Resumed(i)
    <3>1. /\ call'[i] = [call[i] EXCEPT !.stage = "play"]
          /\ \A j \in Slots \ {i} : call'[j] = call[j]
      BY <2>4 DEF Resumed, TypeOK
    <3>2. call'[i].stage = "play" /\ call'[i].live /\ call'[i].for = call[i].for
      BY <2>4, <3>1 DEF Resumed, TypeOK, Call
    <3>3. call'[i].for \in {"none", asked} /\ call'[i].stage \notin Waiting
      BY <2>3, <2>4, <3>2 DEF Resumed, ErrorInv, Waiting
    <3>4. NobodyWaits' => NobodyWaits
      BY <2>4, <3>1 DEF Resumed, NobodyWaits, Waiting
    <3>5. UNCHANGED <<key, told>>
      BY <2>4 DEF Resumed, history
    <3> QED
      BY <2>1, <2>2, <2>3, <3>1, <3>3, <3>4, <3>5, CurrentKept
  <2>5. CASE Blocked(i) \/ Overtaken(i) \/ Rejected(i) \/ Faded(i) \/ Played(i)
    <3>1. PICK c \in {Idle, FadingIn} : call' = [call EXCEPT ![i] = c]
      BY <2>5 DEF Blocked, Overtaken, Rejected, Faded, Played, End
    <3>2. /\ call'[i] = c /\ \A j \in Slots \ {i} : call'[j] = call[j]
          /\ c.stage \notin Waiting \cup {"resume", "play"}
      BY <3>1, PutFacts DEF TypeOK, Idle, FadingIn, Waiting
    <3>3. key' = key /\ (told' = told \/ told' = asked)
      <4>1. CASE Blocked(i) \/ Rejected(i)
        BY <2>3, <4>1 DEF Blocked, Rejected, Tells, Report, ErrorInv
      <4>2. CASE Overtaken(i) \/ Faded(i) \/ Played(i)
        BY <4>2 DEF Overtaken, Faded, Played, history
      <4> QED
        BY <2>5, <4>1, <4>2
    <3>4. NobodyWaits' => NobodyWaits
      <4>1. call[i].stage \notin Waiting
        BY <2>5 DEF Blocked, Overtaken, Rejected, Faded, Played, Waiting
      <4> QED
        BY <3>2, <4>1 DEF NobodyWaits
    <3> QED
      BY <2>1, <2>2, <2>3, <3>2, <3>3, <3>4, CurrentKept
  <2>6. CASE Promoted(i)
    <3>1. call[i].stage \in Waiting /\ call[i].for = asked /\ src = asked /\ asked \in Tracks
      BY <2>3, <2>6 DEF Promoted, LabelInv, WaitInv, Waiting
    <3>2. key' = asked /\ told' = told
      BY <2>6, <3>1 DEF Promoted, history
    <3>3. hls = "none"
      BY <2>3, <2>6 DEF Promoted, ErrorInv
    <3>4. /\ call'[i] = Started(FALSE, asked)
          /\ \A j \in Slots \ {i} : call'[j] = call[j]
      BY <2>6, <3>1 DEF Promoted, TypeOK
    <3>5. call'[i].stage = "resume" /\ call'[i].for = asked
      BY <3>4 DEF Started
    <3>6. \A j \in Slots : call'[j].stage # "native"
      BY <1>0, <2>3, <3>1, <3>4, <3>5 DEF LabelInv, WaitInv, Waiting
    <3>7. LabelInv'
      BY <2>1, <2>2, <2>3, <3>1, <3>2, <3>4, <3>5, <3>6 DEF LabelInv, Waiting
    <3>8. ErrorInv'
      BY <2>1, <2>3, <3>2, <3>3, <3>4, <3>5 DEF ErrorInv
    <3> QED
      BY <3>7, <3>8
  <2>7. CASE NativeReady(i)
    <3>1. key = "hls" /\ asked = "hls"
      BY <2>3, <2>7 DEF NativeReady, LabelInv, WaitInv, Waiting
    <3>2. UNCHANGED <<key, told>>
      BY <2>7 DEF NativeReady, history
    <3>3. /\ call'[i] = Started(TRUE, "hls")
          /\ \A j \in Slots \ {i} : call'[j] = call[j]
      BY <2>7 DEF NativeReady, TypeOK
    <3>4. call'[i].stage = "resume" /\ call'[i].for = "hls"
      BY <3>3 DEF Started
    <3>5. LabelInv'
      BY <1>0, <2>1, <2>2, <2>3, <3>1, <3>2, <3>3, <3>4 DEF LabelInv, Waiting
    <3>6. ErrorInv'
      BY <2>1, <2>3, <3>1, <3>2, <3>3, <3>4 DEF ErrorInv
    <3> QED
      BY <3>5, <3>6
  <2> QED
    BY <1>17, <2>4, <2>5, <2>6, <2>7 DEF Step
<1> QED
  BY <1>2, <1>3, <1>4, <1>5, <1>6, <1>7, <1>8, <1>9, <1>10, <1>11, <1>12, <1>14, <1>15,
     <1>16, <1>17 DEF Next, Player, Browser, Toggle

-----------------------------------------------------------------------------
(* The theorems.                                                           *)

LEMMA Inductive == Spec => []IInv
<1>1. Init => IInv
  <2>1. Init => GainFollows
    BY DEF Init, GainFollows, Applied
  <2>2. Init => WaitInv /\ ListenerInv /\ PauseInv /\ LabelInv /\ ErrorInv
    BY DEF Init, WaitInv, ListenerInv, PauseInv, LabelInv, ErrorInv, NobodyWaits, Idle, Waiting
  <2> QED
    BY <2>1, <2>2, TypeInit DEF IInv
<1>2. IInv /\ [Next]_vars => IInv'
  BY TypeStep, GainStep, WaitStep, PauseStep, CurrentStep DEF IInv
<1> QED
  BY <1>1, <1>2, PTL DEF Spec

\* The element, the bodies in flight and the mixer keep the shapes audioEngine.ts
\* gives them; the volume stays in range and preMuteVolume above zero.
THEOREM TypeCorrect == Spec => []TypeOK
<1>1. IInv => TypeOK
  BY DEF IInv
<1> QED
  BY <1>1, Inductive, PTL

\* Nothing leaves the gain at the floor of a ramp: it is at the volume, or silent
\* when muted, unless a body is fading in (audioEngine.ts, applyGain and softFadeIn).
THEOREM GainIsRight == Spec => []GainFollows
<1>1. IInv => GainFollows
  BY DEF IInv
<1> QED
  BY <1>1, Inductive, PTL

\* A pause is not undone by what was in flight when it was pressed
\* (audioEngine.ts, invalidatePlay), unless it met a promotion in its wait.
THEOREM PausesStick == Spec => []PauseSticks
<1>1. IInv => PauseSticks
  BY DEF IInv, PauseInv, PauseSticks
<1> QED
  BY <1>1, Inductive, PTL

\* Once no promotion is in its wait, what the element has is what was last asked
\* for, and what isAttachedToTrack() answers for (audioEngine.ts, promotePrefetch),
\* unless a request crossed a promotion.
THEOREM LabelsAreTrue == Spec => []LabelIsTrue
<1>1. IInv => LabelIsTrue
  BY DEF IInv, LabelInv, LabelIsTrue, NobodyWaits
<1> QED
  BY <1>1, Inductive, PTL

\* An error is reported for the track that was asked for last (audioEngine.ts,
\* playEpoch in safePlay and in the error listener), unless a request crossed a
\* promotion.
THEOREM ErrorsAreOfTheCurrent == Spec => []ErrorsAreCurrent
<1>1. IInv => ErrorsAreCurrent
  BY DEF IInv, ErrorInv, ErrorsAreCurrent
<1> QED
  BY <1>1, Inductive, PTL

=============================================================================
