---------------------------- MODULE Player_proofs ----------------------------
(***************************************************************************)
(* Proofs about Player: for any catalog, number of sessions, requests in   *)
(* flight, acts and failures, the engine has the track a live page shows,  *)
(* the page is deaf to the end of a track only while a report of an        *)
(* earlier one is out, and the server passes over no track unseen.         *)
(***************************************************************************)
EXTENDS Player, SequenceTheorems, FiniteSetTheorems, WellFoundedInduction, TLAPS

-----------------------------------------------------------------------------
(* The queue without a track is a queue (SessionQueue_proofs says more of  *)
(* it; a module about another component cannot be extended here).          *)

\* A nonempty set of natural numbers has a least element.
LEMMA LeastNat ==
  ASSUME NEW M \in SUBSET Nat, M # {}
  PROVE  \E m \in M : \A k \in M : m <= k
<1>1. PICK m \in M : \A k \in M : <<k, m>> \notin OpToRel(<, Nat)
  BY WFMin, NatLessThanWellFounded, M \subseteq Nat
<1>2. ASSUME NEW k \in M PROVE m <= k
  <2>1. k \in Nat /\ m \in Nat
    OBVIOUS
  <2>2. ~(k < m)
    <3>1. SUFFICES ASSUME k < m PROVE FALSE
      OBVIOUS
    <3>2. <<k, m>> \in Nat \X Nat /\ <<k, m>>[1] < <<k, m>>[2]
      BY <2>1, <3>1
    <3>3. <<k, m>> \in OpToRel(<, Nat)
      BY <3>2, Zenon DEF OpToRel
    <3> QED BY <3>3, <1>1
  <2> QED BY <2>1, <2>2
<1> QED BY <1>2

\* A set of positions of a sequence is finite and no larger than the sequence.
LEMMA PositionsFinite ==
  ASSUME NEW n \in Nat, NEW I \in SUBSET (1..n)
  PROVE  IsFiniteSet(I) /\ Cardinality(I) \in 0..n
<1>1. IsFiniteSet(1..n) /\ Cardinality(1..n) = n
  BY FS_Interval
<1>2. IsFiniteSet(I) /\ Cardinality(I) <= n
  BY <1>1, FS_Subset
<1> QED BY <1>2, FS_CardinalityType

\* Every k up to the size of a set of positions has a k-th smallest member: the
\* first position with k members up to it.
LEMMA NthExists ==
  ASSUME NEW n \in Nat, NEW I \in SUBSET (1..n), NEW k \in 1..Cardinality(I)
  PROVE  Nth(I, k) \in I
<1> DEFINE UpTo(m) == {j \in I : j <= m}
           M == {m \in 0..n : Cardinality(UpTo(m)) >= k}
<1>1. \A m \in 0..n : IsFiniteSet(UpTo(m)) /\ Cardinality(UpTo(m)) \in Nat
  BY PositionsFinite, FS_Subset, FS_CardinalityType
<1>0. I \subseteq Int /\ \A j \in I : 1 <= j /\ j <= n
  OBVIOUS
<1>2. UpTo(n) = I /\ UpTo(0) = {}
  <2>1. \A j \in I : j <= n /\ ~(j <= 0)
    BY <1>0
  <2> QED BY <2>1
<1>3. Cardinality(I) \in Nat /\ k \in Nat /\ k >= 1 /\ k <= Cardinality(I)
  BY PositionsFinite
<1>4. \E m \in 0..n : /\ Cardinality(UpTo(m)) >= k
                      /\ \A i \in 0..n : Cardinality(UpTo(i)) >= k => m <= i
  <2>1. n \in M
    BY <1>2, <1>3
  <2>2. M \in SUBSET Nat /\ M # {}
    BY <2>1
  <2>3. \E m \in M : \A i \in M : m <= i
    <3> HIDE DEF M
    <3> QED BY <2>2, LeastNat
  <2> HIDE DEF UpTo
  <2> QED BY <2>3
<1>5. PICK m \in 0..n : /\ Cardinality(UpTo(m)) >= k
                        /\ \A i \in 0..n : Cardinality(UpTo(i)) >= k => m <= i
  BY <1>4
<1>6. m \in Int /\ m # 0 /\ m - 1 \in 0..n
  <2>1. Cardinality(UpTo(0)) = 0
    BY <1>2, FS_EmptySet
  <2> HIDE DEF UpTo
  <2> QED BY <2>1, <1>3, <1>5
<1>7. UpTo(m) = UpTo(m - 1) \cup ({m} \cap I) /\ m \notin UpTo(m - 1)
  <2>1. \A j \in I : j <= m <=> j <= m - 1 \/ j = m
    BY <1>0, <1>6
  <2>2. ~(m <= m - 1)
    BY <1>6
  <2> QED BY <2>1, <2>2
<1>8. Cardinality(UpTo(m)) \in Nat /\ Cardinality(UpTo(m - 1)) \in Nat
  <2> HIDE DEF UpTo
  <2> QED BY <1>1, <1>5, <1>6
<1>9. Cardinality(UpTo(m - 1)) < k
  <2> HIDE DEF UpTo
  <2>1. ~(Cardinality(UpTo(m - 1)) >= k)
    BY <1>5, <1>6
  <2> QED BY <2>1, <1>8, <1>3
<1>10. m \in I
  <2>1. SUFFICES ASSUME m \notin I PROVE FALSE
    OBVIOUS
  <2> HIDE DEF UpTo
  <2>2. UpTo(m) = UpTo(m - 1)
    BY <2>1, <1>7
  <2> QED BY <2>2, <1>3, <1>5, <1>8, <1>9
<1>11. Cardinality(UpTo(m)) = k
  <2> HIDE DEF UpTo
  <2>1. UpTo(m) = UpTo(m - 1) \cup {m}
    BY <1>7, <1>10
  <2>2. Cardinality(UpTo(m)) = Cardinality(UpTo(m - 1)) + 1
    BY <2>1, <1>1, <1>6, <1>7, FS_AddElement
  <2> QED BY <2>2, <1>3, <1>5, <1>8, <1>9
<1> QED BY <1>10, <1>11 DEF Nth

LEMMA WithoutType ==
    ASSUME NEW T, NEW s \in Seq(T), NEW t
    PROVE  Without(s, t) \in Seq(T)
<1> DEFINE S == Range(s) \ {t}
           I == Positions(s, S)
           c == Cardinality(I)
<1>1. Len(s) \in Nat /\ s \in [1..Len(s) -> T]
  BY LenProperties
<1>2. I \in SUBSET (1..Len(s))
  BY DEF Positions
<1>3. c \in 0..Len(s)
  BY <1>1, <1>2, PositionsFinite
<1>4. \A k \in 1..c : Nth(I, k) \in 1..Len(s)
  BY <1>1, <1>2, NthExists
<1>5. Without(s, t) = [k \in 1..c |-> s[Nth(I, k)]]
  BY DEF Without, Only
<1> HIDE DEF I, c
<1>6. Without(s, t) \in [1..c -> T]
  BY <1>1, <1>4, <1>5
<1> QED
  BY <1>3, <1>6

LEMMA CappedType ==
    ASSUME NEW T, NEW s \in Seq(T)
    PROVE  Capped(s) \in Seq(T)
<1> DEFINE m == IF Len(s) < MaxQueue THEN Len(s) ELSE MaxQueue
<1>1. Len(s) \in Nat /\ m \in Nat /\ m <= Len(s) /\ \A i \in 1..Len(s) : s[i] \in T
  BY LenProperties, BoundsAssumption
<1>2. Capped(s) = SubSeq(s, 1, m)
  BY DEF Capped, Take
<1> HIDE DEF m
<1> QED
  BY <1>1, <1>2, SubSeqProperties

-----------------------------------------------------------------------------
(* The invariant.                                                          *)

Sessions == [state : {"live", "stopped"}, now : Tracks, queue : Seq(Tracks), hist : Seq(Tracks)]

\* The statuses of the first n sessions.
Statuses(n) == [id : 1 .. n, state : {"live", "stopped"}, now : Tracks, queue : Seq(Tracks)]

\* What a request is about when there are n sessions: one of them, and for a
\* report a track the page has shown of it.
CallOf(c, n, shown) ==
    /\ c = [kind |-> c.kind, stage |-> c.stage, sid |-> c.sid, target |-> c.target,
            ends |-> c.ends, ans |-> c.ans]
    /\ c.kind \notin {"idle", "create", "find"} => c.sid \in 1 .. n
    /\ c.kind \in {"create", "retire", "resume", "inject", "skip", "complete"} => c.target \in Tracks
    /\ c.kind \in {"skip", "complete"} => <<c.sid, c.target>> \in shown
    /\ c.ends \in BOOLEAN /\ (c.ends => c.kind \in {"complete", "recover"})
    /\ c.ans = NoView \/ c.ans \in Statuses(n)
    /\ c.stage = "answered" /\ c.kind # "find" => c.ans \in Statuses(n)
    /\ c.stage = "answered" /\ c.kind = "stop" => c.ans.state = "stopped"

Calls(calls, n, shown) ==
    calls = [i \in Slots |-> calls[i]] /\ \A i \in Slots : CallOf(calls[i], n, shown)

SessInv == sess \in Seq(Sessions)

\* A page that has a session shows a status, and has shown it for that session.
PageInv ==
    /\ ref \in 0 .. Len(sess) /\ saved \in 0 .. Len(sess)
    /\ view = NoView \/ view \in Statuses(Len(sess))
    /\ ref # 0 => view # NoView
    /\ view # NoView => \A r \in {view.id, ref} \ {0} : <<r, view.now>> \in seen

EndsOut(calls) == \E i \in Slots : calls[i].ends

IInv ==
    /\ SessInv /\ Calls(call, Len(sess), seen) /\ PageInv
    /\ advancing => EndsOut(call)
    /\ ViewIsAttached

-----------------------------------------------------------------------------
(* The server keeps its sessions.                                          *)

LEMMA AfterType == \A t \in Tracks : After(t) \in Tracks
  BY TracksAssumption DEF After, Tracks

LEMMA ReportedType ==
    ASSUME NEW s \in Sessions, NEW t, NEW r \in Reported(s, t)
    PROVE  r \in Sessions /\ (t # s.now => r.now = s.now)
<1> DEFINE q == Without(s.queue, t)
<1>1. q \in Seq(Tracks)
  BY WithoutType DEF Sessions
<1>2. s.now \in Tracks /\ s.hist \in Seq(Tracks) /\ <<s.now>> \in Seq(Tracks)
      /\ s = [state |-> s.state, now |-> s.now, queue |-> s.queue, hist |-> s.hist]
      /\ s.state \in {"live", "stopped"}
  BY DEF Sessions
<1>3. CASE t # s.now
  <2>1. r = [s EXCEPT !.queue = q]
    BY <1>3 DEF Reported
  <2> HIDE DEF q
  <2> QED
    BY <1>1, <1>2, <2>1 DEF Sessions
<1>4. CASE t = s.now /\ q # <<>>
  <2>1. r = [state |-> "live", now |-> Head(q), queue |-> Tail(q), hist |-> <<s.now>>]
    BY <1>4 DEF Reported
  <2> HIDE DEF q
  <2>2. Head(q) \in Tracks /\ Tail(q) \in Seq(Tracks)
    BY <1>1, <1>4, HeadTailProperties
  <2> QED
    BY <1>2, <1>4, <2>1, <2>2 DEF Sessions
<1>5. CASE t = s.now /\ q = <<>>
  <2>1. r \in Exhausted(s)
    BY <1>5 DEF Reported
  <2>2. \/ r = [s EXCEPT !.state = "stopped", !.queue = <<>>]
        \/ r = [state |-> "live", now |-> After(s.now), queue |-> <<>>, hist |-> <<s.now>>]
    BY <2>1 DEF Exhausted
  <2>3. After(s.now) \in Tracks /\ <<>> \in Seq(Tracks)
    BY <1>2, AfterType
  <2>4. CASE r = [s EXCEPT !.state = "stopped", !.queue = <<>>]
    <3>1. r = [state |-> "stopped", now |-> s.now, queue |-> <<>>, hist |-> s.hist]
      BY <1>2, <2>4
    <3>2. r \in Sessions
      BY <1>2, <2>3, <3>1 DEF Sessions
    <3> QED
      BY <1>5, <3>2
  <2>5. CASE r = [state |-> "live", now |-> After(s.now), queue |-> <<>>, hist |-> <<s.now>>]
    <3>1. r \in Sessions
      BY <1>2, <2>3, <2>5 DEF Sessions
    <3> QED
      BY <1>5, <3>1
  <2> QED
    BY <2>2, <2>4, <2>5
<1> QED
  BY <1>3, <1>4, <1>5

LEMMA EditedType ==
    ASSUME NEW s \in Sessions, NEW t
    PROVE  /\ [s EXCEPT !.state = "stopped"] \in Sessions
           /\ [s EXCEPT !.queue = Without(s.queue, t)] \in Sessions
           /\ t \in Tracks => Injected(s, t) \in Sessions
           /\ s.hist # <<>> => WentBack(s) \in Sessions
<1>1. /\ s.now \in Tracks /\ s.hist \in Seq(Tracks) /\ s.queue \in Seq(Tracks)
      /\ s = [state |-> s.state, now |-> s.now, queue |-> s.queue, hist |-> s.hist]
      /\ s.state \in {"live", "stopped"}
  BY DEF Sessions
<1>2. /\ Without(s.queue, t) \in Seq(Tracks) /\ Without(s.queue, s.now) \in Seq(Tracks)
  BY <1>1, WithoutType
<1>3. t \in Tracks => Injected(s, t) \in Sessions
  <2> SUFFICES ASSUME t \in Tracks PROVE Injected(s, t) \in Sessions
    OBVIOUS
  <2>1. <<t>> \o Without(s.queue, t) \in Seq(Tracks)
    BY <1>2, ConcatProperties
  <2>2. Capped(<<t>> \o Without(s.queue, t)) \in Seq(Tracks)
    BY <2>1, CappedType
  <2> QED
    BY <1>1, <2>2 DEF Injected, Sessions
<1>4. s.hist # <<>> => WentBack(s) \in Sessions
  <2> SUFFICES ASSUME s.hist # <<>> PROVE WentBack(s) \in Sessions
    OBVIOUS
  <2>1. <<s.now>> \o Without(s.queue, s.now) \in Seq(Tracks)
    BY <1>1, <1>2, ConcatProperties
  <2>2. Capped(<<s.now>> \o Without(s.queue, s.now)) \in Seq(Tracks)
    BY <2>1, CappedType
  <2>3. s.hist[1] \in Tracks /\ <<>> \in Seq(Tracks)
    BY <1>1
  <2> QED
    BY <1>1, <2>2, <2>3 DEF WentBack, Sessions
<1> QED
  BY <1>1, <1>2, <1>3, <1>4 DEF Sessions

-----------------------------------------------------------------------------
(* Requests in flight.                                                     *)

\* More sessions, and more tracks shown, leave a request what it was.
LEMMA CallsGrow ==
    ASSUME NEW calls, NEW n \in Nat, NEW m \in Nat, n <= m, NEW shown, NEW more, shown \subseteq more,
           Calls(calls, n, shown)
    PROVE  Calls(calls, m, more)
<1>1. 1 .. n \subseteq 1 .. m /\ Statuses(n) \subseteq Statuses(m)
  BY DEF Statuses
<1>2. ASSUME NEW i \in Slots PROVE CallOf(calls[i], m, more)
  <2>1. CallOf(calls[i], n, shown)
    BY DEF Calls
  <2> HIDE DEF Statuses
  <2> QED
    BY <1>1, <2>1 DEF CallOf
<1> QED
  BY <1>2 DEF Calls

\* One request takes the place of another.
LEMMA Puts ==
    ASSUME NEW calls, NEW n, NEW shown, Calls(calls, n, shown),
           NEW i \in Slots, NEW r, CallOf(r, n, shown), NEW c, c = [calls EXCEPT ![i] = r]
    PROVE  /\ Calls(c, n, shown)
           /\ r.ends => EndsOut(c)
           /\ EndsOut(calls) /\ ~calls[i].ends => EndsOut(c)
<1>1. /\ calls = [j \in Slots |-> calls[j]] /\ \A j \in Slots : CallOf(calls[j], n, shown)
  BY DEF Calls
<1>2. /\ c = [j \in Slots |-> c[j]] /\ c[i] = r /\ \A j \in Slots \ {i} : c[j] = calls[j]
  BY <1>1
<1>3. Calls(c, n, shown)
  BY <1>1, <1>2 DEF Calls
<1>4. r.ends => EndsOut(c)
  BY <1>2 DEF EndsOut
<1>5. EndsOut(calls) /\ ~calls[i].ends => EndsOut(c)
  BY <1>2 DEF EndsOut
<1> QED
  BY <1>3, <1>4, <1>5

\* A request as it is sent.
LEMMA RequestOf ==
    ASSUME NEW n, NEW shown, NEW kind, NEW sid, NEW target,
           kind \notin {"idle", "create", "find"} => sid \in 1 .. n,
           kind \in {"create", "retire", "resume", "inject", "skip", "complete"} => target \in Tracks,
           kind \in {"skip", "complete"} => <<sid, target>> \in shown
    PROVE  CallOf(Request(kind, sid, target), n, shown) /\ ~Request(kind, sid, target).ends
<1> HIDE DEF NoView
<1>1. Request(kind, sid, target) =
        [kind |-> kind, stage |-> "sent", sid |-> sid, target |-> target, ends |-> FALSE,
         ans |-> NoView]
  BY DEF Request
<1> QED
  BY <1>1 DEF CallOf

\* A request that holds advancingRef.
LEMMA EndingOf ==
    ASSUME NEW n, NEW shown, NEW kind \in {"skip", "complete", "recover"}, NEW sid, NEW target,
           NEW e \in BOOLEAN, e => kind # "skip", sid \in 1 .. n,
           kind # "recover" => target \in Tracks /\ <<sid, target>> \in shown
    PROVE  LET r == [Request(kind, sid, target) EXCEPT !.ends = e] IN
           CallOf(r, n, shown) /\ r.ends = e
<1> HIDE DEF NoView
<1>1. Request(kind, sid, target) =
        [kind |-> kind, stage |-> "sent", sid |-> sid, target |-> target, ends |-> FALSE,
         ans |-> NoView]
  BY DEF Request
<1>2. [Request(kind, sid, target) EXCEPT !.ends = e] =
        [kind |-> kind, stage |-> "sent", sid |-> sid, target |-> target, ends |-> e,
         ans |-> NoView]
  BY <1>1
<1> QED
  BY <1>2 DEF CallOf

LEMMA IdleOf ==
    ASSUME NEW n, NEW shown
    PROVE  CallOf(Idle, n, shown) /\ ~Idle.ends
<1> HIDE DEF NoView
<1> QED
  BY DEF CallOf, Idle, Request

\* A request is over.
LEMMA OverOf ==
    ASSUME NEW n, NEW shown, Calls(call, n, shown), NEW i \in Slots
    PROVE  /\ Calls(Over(i), n, shown)
           /\ EndsOut(call) /\ ~call[i].ends => EndsOut(Over(i))
  BY IdleOf, Puts DEF Over

\* The cancelled polls hold no flag.
LEMMA PollingOf ==
    ASSUME NEW v, NEW c, NEW n, NEW shown, Calls(c, n, shown)
    PROVE  /\ Calls(Polling(v, c), n, shown)
           /\ EndsOut(c) => EndsOut(Polling(v, c))
<1> DEFINE d == [i \in Slots |-> IF c[i].kind = "poll" THEN Idle ELSE c[i]]
<1>1. Polling(v, c) = c \/ Polling(v, c) = d
  BY DEF Polling
<1>2. \A i \in Slots : CallOf(c[i], n, shown)
  BY DEF Calls
<1>3. Calls(d, n, shown)
  BY <1>2, IdleOf DEF Calls
<1>4. EndsOut(c) => EndsOut(d)
  <2> SUFFICES ASSUME EndsOut(c) PROVE EndsOut(d)
    OBVIOUS
  <2>1. PICK i \in Slots : c[i].ends
    BY DEF EndsOut
  <2>2. c[i].kind # "poll"
    BY <1>2, <2>1 DEF CallOf
  <2>3. d[i] = c[i]
    BY <2>2
  <2> QED
    BY <2>1, <2>3 DEF EndsOut
<1> HIDE DEF d
<1> QED
  BY <1>1, <1>3, <1>4

\* The server, or the network, moves a request on: only its stage and its
\* answer change.
LEMMA MovesOn ==
    ASSUME NEW n, NEW shown, Calls(call, n, shown), NEW i \in Slots, NEW g, NEW a,
           a = NoView \/ a \in Statuses(n),
           g = "answered" /\ call[i].kind # "find" => a \in Statuses(n),
           g = "answered" /\ call[i].kind = "stop" => a.state = "stopped",
           NEW c, c = [call EXCEPT ![i].stage = g, ![i].ans = a]
    PROVE  Calls(c, n, shown) /\ (EndsOut(call) => EndsOut(c))
<1>1. CallOf(call[i], n, shown) /\ call = [j \in Slots |-> call[j]]
  BY DEF Calls
<1> DEFINE r == [kind |-> call[i].kind, stage |-> g, sid |-> call[i].sid,
                 target |-> call[i].target, ends |-> call[i].ends, ans |-> a]
<1> HIDE DEF NoView, Statuses
<1>2. CallOf(r, n, shown)
  BY <1>1 DEF CallOf
<1>3. c = [call EXCEPT ![i] = r]
  <2>1. call[i] = [kind |-> call[i].kind, stage |-> call[i].stage, sid |-> call[i].sid,
                   target |-> call[i].target, ends |-> call[i].ends, ans |-> call[i].ans]
    BY <1>1 DEF CallOf
  <2> DEFINE u == [call[i] EXCEPT !.stage = g]
  <2>2. u = [kind |-> call[i].kind, stage |-> g, sid |-> call[i].sid,
             target |-> call[i].target, ends |-> call[i].ends, ans |-> call[i].ans]
    BY <2>1
  <2>3. c = [call EXCEPT ![i] = [u EXCEPT !.ans = a]]
    BY <1>1
  <2> HIDE DEF u
  <2>4. [u EXCEPT !.ans = a] = r
    BY <2>2
  <2> QED
    BY <2>3, <2>4
<1>4. r.ends = call[i].ends
  OBVIOUS
<1> HIDE DEF r
<1>5. Calls(c, n, shown) /\ (r.ends => EndsOut(c))
      /\ (EndsOut(call) /\ ~call[i].ends => EndsOut(c))
  BY <1>2, <1>3, Puts
<1> QED
  BY <1>4, <1>5

\* ... or only the stage.
LEMMA RefusedOf ==
    ASSUME NEW n, NEW shown, Calls(call, n, shown), NEW i \in Slots
    PROVE  LET c == [call EXCEPT ![i].stage = "refused"] IN
           Calls(c, n, shown) /\ (EndsOut(call) => EndsOut(c))
<1>1. CallOf(call[i], n, shown) /\ call = [j \in Slots |-> call[j]]
  BY DEF Calls
<1> DEFINE c == [call EXCEPT ![i].stage = "refused"]
<1>2. c = [call EXCEPT ![i].stage = "refused", ![i].ans = call[i].ans]
  BY <1>1 DEF CallOf
<1>3. call[i].ans = NoView \/ call[i].ans \in Statuses(n)
  BY <1>1 DEF CallOf
<1> HIDE DEF c, NoView, Statuses
<1>4. Calls(c, n, shown) /\ (EndsOut(call) => EndsOut(c))
  BY <1>2, <1>3, MovesOn
<1> QED
  BY <1>4 DEF c

-----------------------------------------------------------------------------
(* What every step amounts to.                                             *)

LEMMA Facts ==
    ASSUME IInv
    PROVE  /\ Len(sess) \in Nat /\ DOMAIN sess = 1 .. Len(sess)
           /\ \A n \in 1 .. Len(sess) : sess[n] \in Sessions
           /\ Calls(call, Len(sess), seen)
           /\ \A i \in Slots : CallOf(call[i], Len(sess), seen)
<1>1. Len(sess) \in Nat /\ DOMAIN sess = 1 .. Len(sess) /\ sess \in Seq(Sessions)
  BY LenProperties DEF IInv, SessInv
<1>2. \A n \in 1 .. Len(sess) : sess[n] \in Sessions
  BY <1>1, ElementOfSeq
<1> QED
  BY <1>1, <1>2 DEF IInv, Calls

\* A step that shows nothing: the page may give its session up.
LEMMA QuietStep ==
    ASSUME IInv, UNCHANGED <<view, att, seen>>,
           sess' \in Seq(Sessions), Len(sess') >= Len(sess),
           ref' \in {ref, 0}, saved' \in {saved, 0},
           Calls(call', Len(sess'), seen), advancing' => EndsOut(call')
    PROVE  IInv'
<1>1. Len(sess) \in Nat /\ Len(sess') \in Nat
  BY Facts, LenProperties
<1>2. Statuses(Len(sess)) \subseteq Statuses(Len(sess'))
  BY <1>1 DEF Statuses
<1>3. PageInv'
  <2> HIDE DEF Statuses, NoView
  <2>1. /\ ref \in 0 .. Len(sess) /\ saved \in 0 .. Len(sess)
        /\ view = NoView \/ view \in Statuses(Len(sess))
        /\ ref # 0 => view # NoView
        /\ view # NoView => \A r \in {view.id, ref} \ {0} : <<r, view.now>> \in seen
    BY DEF IInv, PageInv
  <2>2. ref' \in 0 .. Len(sess') /\ saved' \in 0 .. Len(sess')
    BY <1>1, <2>1
  <2>3. view' = NoView \/ view' \in Statuses(Len(sess'))
    BY <1>2, <2>1
  <2>4. /\ ref' # 0 => view' # NoView
        /\ view' # NoView => \A r \in {view'.id, ref'} \ {0} : <<r, view'.now>> \in seen'
    BY <2>1
  <2> QED
    BY <2>2, <2>3, <2>4 DEF PageInv, NoView
<1>4. ViewIsAttached'
  BY DEF IInv, ViewIsAttached
<1> QED
  BY <1>3, <1>4 DEF IInv, SessInv

\* A step after which the page shows a status while its requests go to ref'.
LEMMA ShowStep ==
    ASSUME IInv, sess' = sess, view' \in Statuses(Len(sess)),
           ref' \in 0 .. Len(sess), saved' \in 0 .. Len(sess), Sees(view', ref'),
           Calls(call', Len(sess), seen), advancing' => EndsOut(call'),
           view'.state = "live" => att' = view'.now
    PROVE  IInv'
<1>1. seen \subseteq seen' /\ \A r \in {view'.id, ref'} \ {0} : <<r, view'.now>> \in seen'
  <2>1. view'.now \in Tracks /\ view'.now # 0
    BY DEF Statuses, Tracks
  <2>2. seen' = seen \cup (({view'.id, ref'} \ {0}) \X ({view'.now} \ {0}))
    BY DEF Sees
  <2> QED
    BY <2>1, <2>2
<1>2. view' # NoView
  BY DEF Statuses, NoView
<1>3. PageInv'
  BY <1>1, <1>2 DEF PageInv
<1>4. Calls(call', Len(sess'), seen')
  BY <1>1, Facts, CallsGrow
<1> QED
  BY <1>3, <1>4 DEF IInv, SessInv, ViewIsAttached

-----------------------------------------------------------------------------
(* The server's steps.                                                     *)

LEMMA AnswersKeeps ==
    ASSUME IInv, NEW i \in Slots, call[i].kind \notin {"idle", "create", "find"},
           NEW s \in Sessions, call[i].kind = "stop" => s.state = "stopped", Answers(i, s)
    PROVE  IInv'
<1> DEFINE n == call[i].sid
<1>1. n \in 1 .. Len(sess) /\ Len(sess) \in Nat
  BY Facts DEF CallOf
<1>2. sess' = [sess EXCEPT ![n] = s] /\ UNCHANGED <<page, engine>>
      /\ call' = [call EXCEPT ![i].stage = "answered", ![i].ans = Status(n, s)]
  BY DEF Answers
<1>3. sess \in Seq(Sessions)
  BY DEF IInv, SessInv
<1> HIDE DEF n
<1>4. sess' \in Seq(Sessions) /\ Len(sess') = Len(sess)
  BY <1>1, <1>2, <1>3, ExceptSeq
<1>5. Status(n, s) \in Statuses(Len(sess)) /\ Status(n, s).state = s.state
  BY <1>1 DEF Status, Statuses, Sessions
<1>6. Calls(call', Len(sess), seen) /\ (EndsOut(call) => EndsOut(call'))
  <2> DEFINE a == Status(n, s)
             k == Len(sess)
  <2>1. Calls(call, k, seen)
    BY Facts
  <2>2. a \in Statuses(k) /\ (call[i].kind = "stop" => a.state = "stopped")
    BY <1>5
  <2>3. call' = [call EXCEPT ![i].stage = "answered", ![i].ans = a]
    BY <1>2
  <2> HIDE DEF a, k
  <2>4. Calls(call', k, seen) /\ (EndsOut(call) => EndsOut(call'))
    BY <2>1, <2>2, <2>3, MovesOn
  <2> QED
    BY <2>4 DEF k
<1>7. advancing => EndsOut(call)
  BY DEF IInv
<1> QED
  BY <1>1, <1>2, <1>4, <1>6, <1>7, QuietStep DEF page, engine

LEMMA ServeKeeps ==
    ASSUME IInv, NEW i \in Slots, Serve(i)
    PROVE  IInv'
<1> DEFINE s == sess[call[i].sid]
<1>1. /\ Len(sess) \in Nat /\ DOMAIN sess = 1 .. Len(sess)
      /\ \A n \in 1 .. Len(sess) : sess[n] \in Sessions
      /\ Calls(call, Len(sess), seen) /\ CallOf(call[i], Len(sess), seen)
      /\ sess \in Seq(Sessions)
  BY Facts DEF IInv, SessInv
<1>2. advancing => EndsOut(call)
  BY DEF IInv
<1>3. call[i].kind \notin {"idle", "create", "find"} => s \in Sessions
  BY <1>1 DEF CallOf
<1>4. ASSUME Refuses(i) PROVE IInv'
  <2>1. call' = [call EXCEPT ![i].stage = "refused"] /\ UNCHANGED <<sess, page, engine>>
    BY <1>4 DEF Refuses
  <2>2. Calls(call', Len(sess), seen) /\ (EndsOut(call) => EndsOut(call'))
    BY <2>1, <1>1, RefusedOf
  <2> QED
    BY <2>1, <2>2, <1>1, <1>2, QuietStep DEF page, engine
<1> HIDE DEF s
<1>5. CASE ServeGet(i) \/ ServeLike(i)
  <2>1. Answers(i, s) /\ call[i].kind \notin {"idle", "create", "find", "stop"}
    BY <1>5 DEF ServeGet, ServeLike, Sent, s
  <2> QED
    BY <2>1, <1>3, AnswersKeeps
<1>6. CASE ServeFeedback(i)
  <2> DEFINE t == Named(s, call[i].target)
  <2>1. call[i].kind \in {"skip", "complete"}
        /\ ((\E r \in Reported(s, t) : Answers(i, r)) \/ Refuses(i))
    BY <1>6 DEF ServeFeedback, Sent, s
  <2> HIDE DEF t
  <2>2. ASSUME NEW r \in Reported(s, t), Answers(i, r) PROVE IInv'
    <3>1. r \in Sessions
      BY <2>1, <1>3, ReportedType
    <3> QED
      BY <2>1, <2>2, <3>1, AnswersKeeps
  <2> QED
    BY <2>1, <2>2, <1>4
<1>7. CASE ServeStop(i)
  <2>1. Answers(i, [s EXCEPT !.state = "stopped"]) /\ call[i].kind \in {"stop", "retire"}
    BY <1>7 DEF ServeStop, Sent, s
  <2>2. [s EXCEPT !.state = "stopped"] \in Sessions /\ [s EXCEPT !.state = "stopped"].state = "stopped"
    BY <2>1, <1>3, EditedType DEF Sessions
  <2> DEFINE r == [s EXCEPT !.state = "stopped"]
  <2>3. r \in Sessions /\ r.state = "stopped" /\ Answers(i, r)
    BY <2>1, <2>2
  <2> HIDE DEF r
  <2> QED
    BY <2>1, <2>3, AnswersKeeps
<1>8. CASE ServeBack(i)
  <2>1. call[i].kind = "back" /\ (Refuses(i) \/ (s.hist # <<>> /\ Answers(i, WentBack(s))))
    BY <1>8 DEF ServeBack, Sent, s
  <2>2. ASSUME s.hist # <<>>, Answers(i, WentBack(s)) PROVE IInv'
    <3>1. WentBack(s) \in Sessions
      BY <2>1, <2>2, <1>3, EditedType
    <3> QED
      BY <2>1, <2>2, <3>1, AnswersKeeps
  <2> QED
    BY <2>1, <2>2, <1>4
<1>9. CASE ServeInject(i)
  <2> DEFINE r == Injected(s, call[i].target)
  <2>1. call[i].kind = "inject" /\ (Refuses(i) \/ Answers(i, r))
    BY <1>9 DEF ServeInject, Sent, s
  <2>2. ASSUME Answers(i, r) PROVE IInv'
    <3>1. call[i].target \in Tracks
      BY <2>1, <1>1 DEF CallOf
    <3>2. r \in Sessions
      BY <2>1, <3>1, <1>3, EditedType
    <3> HIDE DEF r
    <3> QED
      BY <2>1, <2>2, <3>2, AnswersKeeps
  <2> QED
    BY <2>1, <2>2, <1>4
<1>10. CASE ServeRemove(i)
  <2> DEFINE r == [s EXCEPT !.queue = Without(s.queue, call[i].target)]
  <2>1. call[i].kind = "remove" /\ (Refuses(i) \/ Answers(i, r))
    BY <1>10 DEF ServeRemove, Sent, s
  <2>2. ASSUME Answers(i, r) PROVE IInv'
    <3>1. r \in Sessions
      BY <2>1, <1>3, EditedType
    <3> HIDE DEF r
    <3> QED
      BY <2>1, <2>2, <3>1, AnswersKeeps
  <2> QED
    BY <2>1, <2>2, <1>4
<1>11. CASE ServeCreate(i)
  <2> DEFINE t == call[i].target
             c == [state |-> "live", now |-> t, queue |-> <<After(t)>>, hist |-> <<>>]
             a == Status(Len(sess) + 1, c)
  <2>1. /\ call[i].kind = "create" /\ sess' = Append(sess, c) /\ UNCHANGED <<page, engine>>
        /\ call' = [call EXCEPT ![i].stage = "answered", ![i].ans = a]
    BY <1>11 DEF ServeCreate, Sent
  <2>2. t \in Tracks
    BY <2>1, <1>1 DEF CallOf
  <2>3. After(t) \in Tracks
    BY <2>2, AfterType
  <2>4. c \in Sessions
    BY <2>2, <2>3 DEF Sessions
  <2>5. a \in Statuses(Len(sess) + 1)
    BY <2>2, <2>3, <1>1 DEF Status, Statuses
  <2> HIDE DEF c
  <2>6. sess' \in Seq(Sessions) /\ Len(sess') = Len(sess) + 1
    BY <2>1, <2>4, <1>1, AppendProperties
  <2> DEFINE k == Len(sess) + 1
  <2>7. Calls(call, k, seen)
    <3>1. Len(sess) \in Nat /\ k \in Nat /\ Len(sess) <= k /\ seen \subseteq seen
      BY <1>1
    <3> HIDE DEF k
    <3> QED
      BY <3>1, <1>1, CallsGrow
  <2> HIDE DEF a
  <2>8. a \in Statuses(k)
    BY <2>5
  <2>9. Len(sess') = k /\ Len(sess') >= Len(sess)
    BY <2>6, <1>1
  <2> HIDE DEF k
  <2>10. Calls(call', k, seen) /\ (EndsOut(call) => EndsOut(call'))
    BY <2>1, <2>7, <2>8, MovesOn
  <2>11. Calls(call', Len(sess'), seen) /\ (advancing' => EndsOut(call'))
    BY <2>1, <2>9, <2>10, <1>2 DEF page
  <2> QED
    BY <2>1, <2>6, <2>9, <2>11, QuietStep DEF page, engine
<1>12. CASE ServeFind(i)
  <2> DEFINE lives == {n \in DOMAIN sess : sess[n].state = "live"}
             last == {l \in lives : \A m \in lives : m <= l}
  <2>1. /\ call[i].kind = "find" /\ UNCHANGED <<sess, page, engine>>
        /\ \E ans \in IF lives = {} THEN {NoView} ELSE {Status(n, sess[n]) : n \in last} :
             call' = [call EXCEPT ![i].stage = "answered", ![i].ans = ans]
    BY <1>12 DEF ServeFind, Sent
  <2>2. PICK ans \in IF lives = {} THEN {NoView} ELSE {Status(n, sess[n]) : n \in last} :
          call' = [call EXCEPT ![i].stage = "answered", ![i].ans = ans]
    BY <2>1
  <2>3. ans = NoView \/ ans \in Statuses(Len(sess))
    <3>1. ASSUME NEW n \in last PROVE Status(n, sess[n]) \in Statuses(Len(sess))
      <4>1. n \in 1 .. Len(sess) /\ sess[n] \in Sessions
        BY <3>1, <1>1
      <4> QED
        BY <4>1 DEF Status, Statuses, Sessions
    <3>2. ans = NoView \/ \E n \in last : ans = Status(n, sess[n])
      BY <2>2
    <3> HIDE DEF last
    <3> QED
      BY <3>1, <3>2
  <2> HIDE DEF lives, last
  <2>4. Calls(call', Len(sess), seen) /\ (EndsOut(call) => EndsOut(call'))
    BY <2>1, <2>2, <2>3, <1>1, MovesOn
  <2> QED
    BY <2>1, <2>4, <1>1, <1>2, QuietStep DEF page, engine
<1> QED
  BY <1>5, <1>6, <1>7, <1>8, <1>9, <1>10, <1>11, <1>12 DEF Serve

\* What happens to a session behind the page's back.
LEMMA SessionsKeep ==
    ASSUME IInv, NEW n \in DOMAIN sess, Refill(n) \/ StoppedElsewhere(n)
    PROVE  IInv'
<1>1. /\ Len(sess) \in Nat /\ n \in 1 .. Len(sess) /\ sess[n] \in Sessions
      /\ Calls(call, Len(sess), seen) /\ sess \in Seq(Sessions)
      /\ (advancing => EndsOut(call))
  BY Facts DEF IInv, SessInv
<1>2. UNCHANGED <<call, page, engine>>
  BY DEF Refill, StoppedElsewhere
<1>3. \E s \in Sessions : sess' = [sess EXCEPT ![n] = s]
  <2>1. CASE Refill(n)
    <3> DEFINE q == sess[n].queue
               last == IF q = <<>> THEN sess[n].now ELSE q[Len(q)]
               s == [sess[n] EXCEPT !.queue = Append(q, After(last))]
    <3>1. q \in Seq(Tracks) /\ sess[n].now \in Tracks
      BY <1>1 DEF Sessions
    <3>2. last \in Tracks
      <4> HIDE DEF q
      <4>1. q # <<>> => Len(q) \in 1 .. Len(q)
        BY <3>1, LenProperties, EmptySeq
      <4> QED
        BY <3>1, <4>1, ElementOfSeq
    <3>3. sess' = [sess EXCEPT ![n] = s]
      BY <2>1, <1>1 DEF Refill
    <3> HIDE DEF last, q
    <3>4. Append(q, After(last)) \in Seq(Tracks)
      BY <3>1, <3>2, AfterType, AppendProperties
    <3>5. s \in Sessions
      BY <1>1, <3>4 DEF Sessions
    <3> QED
      BY <3>3, <3>5
  <2>2. CASE StoppedElsewhere(n)
    <3>1. sess' = [sess EXCEPT ![n] = [sess[n] EXCEPT !.state = "stopped"]]
      BY <2>2, <1>1 DEF StoppedElsewhere
    <3>2. [sess[n] EXCEPT !.state = "stopped"] \in Sessions
      BY <1>1, EditedType
    <3> QED
      BY <3>1, <3>2
  <2> QED
    BY <2>1, <2>2
<1>4. sess' \in Seq(Sessions) /\ Len(sess') = Len(sess)
  BY <1>1, <1>3, ExceptSeq
<1> QED
  BY <1>1, <1>2, <1>4, QuietStep DEF page, engine

\* A loss leaves the request, and what it holds, until the page takes it.
LEMMA LoseKeeps ==
    ASSUME IInv, NEW i \in Slots, Lose(i)
    PROVE  IInv'
<1>1. /\ Len(sess) \in Nat /\ Calls(call, Len(sess), seen) /\ sess \in Seq(Sessions)
      /\ (advancing => EndsOut(call))
  BY Facts DEF IInv, SessInv
<1>2. /\ call' = [call EXCEPT ![i].stage = "failed", ![i].ans = NoView]
      /\ UNCHANGED <<sess, page, engine>>
  BY DEF Lose
<1> HIDE DEF NoView
<1>3. Calls(call', Len(sess), seen) /\ (EndsOut(call) => EndsOut(call'))
  BY <1>1, <1>2, MovesOn
<1> QED
  BY <1>1, <1>2, <1>3, QuietStep DEF page, engine

-----------------------------------------------------------------------------
(* The page's steps.                                                       *)

\* The session requests go to is one the page shows a track for.
LEMMA IdFacts ==
    ASSUME IInv, Id # 0
    PROVE  /\ Id \in 1 .. Len(sess) /\ view \in Statuses(Len(sess)) /\ view # NoView
           /\ view.now \in Tracks /\ <<Id, view.now>> \in seen
<1>1. /\ ref \in 0 .. Len(sess) /\ (view = NoView \/ view \in Statuses(Len(sess)))
      /\ ref # 0 => view # NoView
      /\ view # NoView => \A r \in {view.id, ref} \ {0} : <<r, view.now>> \in seen
  BY DEF IInv, PageInv
<1>2. Id \in {ref, view.id} /\ (Id = 0 \/ Id = ref \/ ref = 0)
  BY DEF Id
<1>3. view # NoView
  BY <1>1, <1>2 DEF Id, NoView
<1>4. view \in Statuses(Len(sess)) /\ view.id \in 1 .. Len(sess) /\ view.now \in Tracks
  BY <1>1, <1>3 DEF Statuses
<1>5. Id \in 1 .. Len(sess)
  BY <1>1, <1>2, <1>4, Facts
<1> QED
  BY <1>1, <1>2, <1>3, <1>4, <1>5

\* A request takes a slot, or the place of the request it follows.
LEMMA SendsQuietly ==
    ASSUME IInv, NEW i \in Slots, NEW r, CallOf(r, Len(sess), seen),
           call' = [call EXCEPT ![i] = r], UNCHANGED <<sess, view, att, seen>>,
           ref' \in {ref, 0}, saved' \in {saved, 0},
           advancing' => r.ends \/ (advancing /\ ~call[i].ends)
    PROVE  IInv'
<1>1. /\ Len(sess) \in Nat /\ Calls(call, Len(sess), seen) /\ sess \in Seq(Sessions)
      /\ (advancing => EndsOut(call))
  BY Facts DEF IInv, SessInv
<1>2. /\ Calls(call', Len(sess), seen) /\ (r.ends => EndsOut(call'))
      /\ EndsOut(call) /\ ~call[i].ends => EndsOut(call')
  BY <1>1, Puts
<1> QED
  BY <1>1, <1>2, QuietStep

\* ... a free slot holds no flag.
LEMMA AsksKeeps ==
    ASSUME IInv, NEW r, CallOf(r, Len(sess), seen), Asks(r)
    PROVE  IInv'
<1>1. PICK i \in Slots : Free(i) /\ call' = [call EXCEPT ![i] = r]
  BY DEF Asks
<1>2. UNCHANGED <<sess, ref, saved, view, advancing, engine>>
  BY DEF Asks
<1>3. ~call[i].ends
  BY <1>1, Facts DEF Free, CallOf
<1> QED
  BY <1>1, <1>2, <1>3, SendsQuietly DEF engine

\* A request is over and nothing else.
LEMMA OverKeeps ==
    ASSUME IInv, NEW i \in Slots, call' = Over(i), UNCHANGED <<sess, view, att, seen, ref, saved>>,
           advancing' => advancing /\ ~call[i].ends
    PROVE  IInv'
  BY IdleOf, SendsQuietly DEF Over

\* setStatus with the answer of a request that is over.
LEMMA StatusKeeps ==
    ASSUME IInv, NEW i \in Slots, NEW v \in Statuses(Len(sess)), NEW r \in 0 .. Len(sess),
           SetStatus(v, r, Over(i)), ref' = r, saved' \in 0 .. Len(sess), sess' = sess,
           advancing' => advancing /\ ~call[i].ends
    PROVE  IInv'
<1>1. /\ Calls(call, Len(sess), seen) /\ (advancing => EndsOut(call)) /\ ViewIsAttached
  BY DEF IInv
<1>2. view' = v /\ call' = Polling(v, Over(i)) /\ Sees(v, r)
      /\ IF MustAttach(v) THEN Attaches(v.now) ELSE NotAttached
  BY DEF SetStatus
<1>3. /\ Calls(call', Len(sess), seen)
      /\ EndsOut(call) /\ ~call[i].ends => EndsOut(call')
  BY <1>1, <1>2, OverOf, PollingOf
<1>4. Sees(view', ref')
  BY <1>2 DEF Sees
<1>5. v.state = "live" => att' = v.now
  BY <1>1, <1>2 DEF MustAttach, Attaches, NotAttached, ViewIsAttached
<1> QED
  BY <1>1, <1>2, <1>3, <1>4, <1>5, ShowStep

LEMMA ShownKeeps ==
    ASSUME IInv, NEW i \in Slots, call[i].ans \in Statuses(Len(sess)), NEW r \in 0 .. Len(sess),
           Shown(i, r), ref' = r, saved' \in 0 .. Len(sess), sess' = sess,
           advancing' => advancing /\ ~call[i].ends
    PROVE  IInv'
  BY StatusKeeps DEF Shown

\* feedback() for an advance.
LEMMA AdvanceKeeps ==
    ASSUME IInv, NEW kind \in {"skip", "complete"}, NEW ends \in BOOLEAN, ends => kind # "skip",
           NEW ended, Advance(kind, ends, ended), advancing' => ends \/ advancing
    PROVE  IInv'
<1>1. PICK i \in Slots :
        /\ Free(i)
        /\ call' = [call EXCEPT ![i] = [Request(kind, Id, view.now) EXCEPT !.ends = ends]]
  BY DEF Advance
<1>2. Id # 0 /\ UNCHANGED <<sess, ref, saved>>
  BY DEF Advance
<1>3. /\ Id \in 1 .. Len(sess) /\ view \in Statuses(Len(sess)) /\ view.now \in Tracks
      /\ <<Id, view.now>> \in seen
  BY <1>2, IdFacts
<1> DEFINE r == [Request(kind, Id, view.now) EXCEPT !.ends = ends]
<1>4. CallOf(r, Len(sess), seen) /\ r.ends = ends
  BY <1>3, EndingOf
<1>5. ~call[i].ends
  BY <1>1, Facts DEF Free, CallOf
<1>6. call' = [call EXCEPT ![i] = r]
  BY <1>1
<1> HIDE DEF r
<1>7. CASE view.queue # <<>>
  <2> DEFINE t == Head(view.queue)
  <2>1. /\ view' = [view EXCEPT !.now = t, !.queue = Tail(view.queue)]
        /\ att' = t /\ Sees(view', ref)
    BY <1>7 DEF Advance, Attaches
  <2>2. /\ view = [id |-> view.id, state |-> view.state, now |-> view.now, queue |-> view.queue]
        /\ view.id \in 1 .. Len(sess) /\ view.state \in {"live", "stopped"}
        /\ view.queue \in Seq(Tracks)
    BY <1>3 DEF Statuses
  <2>3. t \in Tracks /\ Tail(view.queue) \in Seq(Tracks)
    BY <1>7, <2>2, HeadTailProperties
  <2>4. view' = [id |-> view.id, state |-> view.state, now |-> t, queue |-> Tail(view.queue)]
    BY <2>1, <2>2
  <2>5. view' \in Statuses(Len(sess)) /\ view'.now = t
    BY <2>2, <2>3, <2>4 DEF Statuses
  <2>6. Calls(call', Len(sess), seen) /\ (advancing' => EndsOut(call'))
    BY <1>4, <1>5, <1>6, Puts DEF IInv
  <2>7. ref' \in 0 .. Len(sess) /\ saved' \in 0 .. Len(sess)
    BY <1>2 DEF IInv, PageInv
  <2>8. Sees(view', ref')
    BY <1>2, <2>1 DEF Sees
  <2> QED
    BY <1>2, <2>1, <2>5, <2>6, <2>7, <2>8, ShowStep
<1>8. CASE view.queue = <<>>
  <2>1. UNCHANGED <<view, att, seen>>
    BY <1>8 DEF Advance
  <2> QED
    BY <1>2, <1>4, <1>5, <1>6, <2>1, SendsQuietly
<1> QED
  BY <1>7, <1>8

\* What a start asks for first.
LEMMA StartRequestOf ==
    ASSUME IInv, NEW seed \in Tracks
    PROVE  CallOf(StartRequest(seed), Len(sess), seen)
<1>1. ref \in 0 .. Len(sess) /\ Len(sess) \in Nat
  BY Facts DEF IInv, PageInv
<1>2. CASE ref # 0
  <2>1. ref \in 1 .. Len(sess)
    BY <1>1, <1>2
  <2>2. CallOf(Request("retire", ref, seed), Len(sess), seen)
    BY <2>1, RequestOf
  <2> QED
    BY <1>2, <2>2 DEF StartRequest
<1>3. CASE ref = 0
  <2>1. CallOf(Request("create", 0, seed), Len(sess), seen)
    BY RequestOf
  <2> QED
    BY <1>3, <2>1 DEF StartRequest
<1> QED
  BY <1>2, <1>3

LEMMA CallbackKeeps ==
    ASSUME IInv, NEW i \in Slots, Callback(i)
    PROVE  IInv'
<1>1. /\ Len(sess) \in Nat /\ CallOf(call[i], Len(sess), seen) /\ Calls(call, Len(sess), seen)
      /\ ref \in 0 .. Len(sess) /\ saved \in 0 .. Len(sess)
      /\ (view = NoView \/ view \in Statuses(Len(sess)))
      /\ (advancing => EndsOut(call)) /\ ViewIsAttached
  BY Facts DEF IInv, PageInv
<1> DEFINE a == call[i].ans
<1>2. ASSUME call[i].stage = "answered", call[i].kind # "find" PROVE a \in Statuses(Len(sess))
  BY <1>1, <1>2 DEF CallOf
<1>3. call[i].kind \notin {"complete", "recover"} => ~call[i].ends
  BY <1>1 DEF CallOf
<1>4. a \in Statuses(Len(sess)) => a.id \in 0 .. Len(sess)
  BY <1>1 DEF Statuses
<1> HIDE DEF a
<1>5. CASE FeedbackAnswered(i)
  <2>1. /\ Answered(i, {"skip", "complete"})
        /\ view' = a /\ call' = Polling(a, Over(i)) /\ Sees(a, ref)
        /\ a.now # att => att' = a.now
        /\ a.now = att => att' = att
        /\ advancing' = (advancing /\ ~call[i].ends)
        /\ UNCHANGED <<sess, ref, saved>>
    BY <1>5 DEF FeedbackAnswered, Attaches, NotAttached, a
  <2>2. a \in Statuses(Len(sess))
    BY <1>2, <2>1 DEF Answered
  <2>3. Calls(call', Len(sess), seen) /\ (advancing' => EndsOut(call'))
    BY <1>1, <2>1, OverOf, PollingOf
  <2>4. Sees(view', ref') /\ att' = view'.now
    BY <2>1 DEF Sees
  <2> QED
    BY <1>1, <2>1, <2>2, <2>3, <2>4, ShowStep
<1>6. CASE FeedbackFailed(i)
  <2> DEFINE r == [Request("recover", call[i].sid, 0) EXCEPT !.ends = call[i].ends]
  <2>1. Failed(i, {"skip", "complete", "like"}) /\ call' = [call EXCEPT ![i] = r]
        /\ UNCHANGED <<sess, ref, saved, view, advancing, engine>>
    BY <1>6 DEF FeedbackFailed
  <2>2. call[i].sid \in 1 .. Len(sess)
    BY <1>1, <2>1 DEF CallOf, Failed
  <2>3. CASE call[i].ends
    <3>1. CallOf(r, Len(sess), seen) /\ r.ends
      BY <2>2, <2>3, EndingOf
    <3> HIDE DEF r
    <3> QED
      BY <2>1, <3>1, SendsQuietly DEF engine
  <2>4. CASE ~call[i].ends
    <3>1. call[i].ends \in BOOLEAN
      BY <1>1, <2>4 DEF CallOf
    <3>2. CallOf(r, Len(sess), seen)
      BY <2>2, <2>4, <3>1, EndingOf
    <3> HIDE DEF r
    <3> QED
      BY <2>1, <2>4, <3>2, SendsQuietly DEF engine
  <2> QED
    BY <2>3, <2>4
<1>7. CASE Recovered(i)
  <2>1. /\ advancing' = (advancing /\ ~call[i].ends) /\ UNCHANGED <<sess, ref, saved>>
        /\ \/ Answered(i, {"recover"}) /\ Shown(i, ref)
           \/ call' = Over(i) /\ UNCHANGED <<view, engine>>
    BY <1>7 DEF Recovered
  <2>2. CASE Answered(i, {"recover"}) /\ Shown(i, ref)
    BY <1>1, <1>2, <2>1, <2>2, ShownKeeps DEF Answered, a
  <2>3. CASE call' = Over(i) /\ UNCHANGED <<view, engine>>
    BY <2>1, <2>3, OverKeeps DEF engine
  <2> QED
    BY <2>1, <2>2, <2>3
<1>8. CASE PollIgnored(i) \/ Dropped(i)
  <2>1. call[i].kind \in {"poll", "inject", "remove"} /\ call' = Over(i)
        /\ UNCHANGED <<sess, page, engine>>
    BY <1>8 DEF PollIgnored, Dropped, Answered, Failed
  <2> QED
    BY <1>3, <2>1, OverKeeps DEF page, engine
<1>9. CASE PollShown(i) \/ BackAnswered(i) \/ Edited(i)
  <2>1. /\ call[i].kind \in {"poll", "back", "like", "inject", "remove"}
        /\ call[i].stage = "answered"
        /\ Shown(i, ref) /\ UNCHANGED <<sess, ref, saved, advancing>>
    BY <1>9 DEF PollShown, BackAnswered, Edited, Answered
  <2> QED
    BY <1>1, <1>2, <1>3, <2>1, ShownKeeps DEF a
<1>10. CASE Retired(i)
  <2> DEFINE r == Request("create", 0, call[i].target)
  <2>1. /\ call[i].kind = "retire" /\ call' = [call EXCEPT ![i] = r]
        /\ UNCHANGED <<sess, page, engine>>
    BY <1>10 DEF Retired, Answered, Failed
  <2>2. call[i].target \in Tracks
    BY <1>1, <2>1 DEF CallOf
  <2>3. CallOf(r, Len(sess), seen)
    BY <2>2, RequestOf
  <2> HIDE DEF r
  <2> QED
    BY <1>3, <2>1, <2>3, SendsQuietly DEF page, engine
<1>11. CASE Adopts(i)
  <2>1. /\ call[i].kind \in {"create", "resume"} /\ call[i].stage = "answered"
        /\ ref' = a.id /\ saved' = a.id
        /\ SetStatus(a, a.id, Over(i))
        /\ UNCHANGED <<sess, advancing>>
    BY <1>11 DEF Adopts, Answered, a
  <2>2. a \in Statuses(Len(sess)) /\ a.id \in 0 .. Len(sess)
    BY <1>2, <1>4, <2>1
  <2> QED
    BY <1>3, <2>1, <2>2, StatusKeeps
<1>12. CASE StartFailed(i)
  <2>1. call[i].kind = "create" /\ call' = Over(i)
        /\ UNCHANGED <<sess, ref, saved, view, advancing, engine>>
    BY <1>12 DEF StartFailed, Failed
  <2> QED
    BY <1>3, <2>1, OverKeeps DEF engine
<1>13. CASE ResumedAnew(i)
  <2> DEFINE r == StartRequest(call[i].target)
  <2>1. /\ call[i].kind = "resume" /\ call' = [call EXCEPT ![i] = r]
        /\ UNCHANGED <<sess, ref, saved, view, advancing, engine>>
    BY <1>13 DEF ResumedAnew, Answered, Failed
  <2>2. call[i].target \in Tracks
    BY <1>1, <2>1 DEF CallOf
  <2>3. CallOf(r, Len(sess), seen)
    BY <2>2, StartRequestOf
  <2> HIDE DEF r
  <2> QED
    BY <1>3, <2>1, <2>3, SendsQuietly DEF engine
<1>14. CASE Stopped(i)
  <2> DEFINE v == IF call[i].stage = "answered" THEN a ELSE view
  <2>1. /\ call[i].kind = "stop" /\ view' = v /\ call' = Polling(v, Over(i)) /\ Sees(v, 0)
        /\ ref' = 0 /\ saved' = 0 /\ UNCHANGED <<sess, advancing, att>>
    BY <1>14 DEF Stopped, Answered, Failed, a
  <2>2. call[i].stage = "answered" => a \in Statuses(Len(sess)) /\ a.state = "stopped"
    BY <1>1, <2>1 DEF CallOf, a
  <2>3. v = view \/ (v \in Statuses(Len(sess)) /\ v.state # "live")
    BY <2>2
  <2> HIDE DEF v
  <2>4. Calls(call', Len(sess), seen) /\ (advancing' => EndsOut(call'))
    BY <1>1, <1>3, <2>1, OverOf, PollingOf
  <2>5. CASE v \in Statuses(Len(sess))
    <3>1. Sees(view', ref')
      BY <2>1 DEF Sees
    <3>2. view'.state = "live" => att' = view'.now
      BY <1>1, <2>1, <2>3 DEF ViewIsAttached
    <3> QED
      BY <1>1, <2>1, <2>4, <2>5, <3>1, <3>2, ShowStep
  <2>6. CASE v = NoView /\ view = NoView
    <3>1. UNCHANGED <<view, att, seen>>
      BY <2>1, <2>6 DEF Sees, NoView
    <3>2. sess' \in Seq(Sessions) /\ Len(sess') >= Len(sess)
      BY <1>1, <2>1 DEF IInv, SessInv
    <3> QED
      BY <2>1, <2>4, <3>1, <3>2, QuietStep
  <2> QED
    BY <1>1, <2>3, <2>5, <2>6
<1>15. CASE BackFailed(i)
  <2>1. call[i].kind = "back" /\ call' = Over(i)
        /\ UNCHANGED <<sess, ref, saved, view, advancing, att, seen>>
    BY <1>15 DEF BackFailed, Failed
  <2> QED
    BY <1>3, <2>1, OverKeeps
<1>16. CASE Rejoined(i)
  <2>1. /\ call[i].kind \in {"keep", "rejoin"} /\ call[i].stage = "answered"
        /\ ref' \in {a.id, ref} /\ Shown(i, ref') /\ UNCHANGED <<sess, saved, advancing>>
    BY <1>16 DEF Rejoined, Answered, a
  <2>2. a \in Statuses(Len(sess)) /\ ref' \in 0 .. Len(sess)
    BY <1>1, <1>2, <1>4, <2>1
  <2> QED
    BY <1>1, <1>3, <2>1, <2>2, ShownKeeps DEF a
<1>17. CASE NotRejoined(i)
  <2> DEFINE r == Request("find", 0, 0)
  <2>1. /\ call[i].kind \in {"keep", "rejoin"} /\ call' = [call EXCEPT ![i] = r]
        /\ saved' = 0 /\ ref' \in {ref, 0} /\ UNCHANGED <<sess, view, advancing, engine>>
    BY <1>17 DEF NotRejoined, Answered, Failed
  <2>2. CallOf(r, Len(sess), seen)
    BY RequestOf
  <2> HIDE DEF r
  <2> QED
    BY <1>3, <2>1, <2>2, SendsQuietly DEF engine
<1>18. CASE Found(i)
  <2>1. call[i].kind = "find" /\ UNCHANGED <<sess, advancing>>
    BY <1>18 DEF Found, Answered, Failed
  <2>2. CASE a.state = "live"
    <3>1. ref' = a.id /\ saved' = a.id /\ Shown(i, ref')
      BY <1>18, <2>2 DEF Found, a
    <3>2. a \in Statuses(Len(sess))
      BY <1>1, <2>2 DEF CallOf, NoView, a
    <3> QED
      BY <1>3, <1>4, <2>1, <3>1, <3>2, ShownKeeps DEF a
  <2>3. CASE a.state # "live"
    <3>1. call' = Over(i) /\ UNCHANGED <<ref, saved, view, engine>>
      BY <1>18, <2>3 DEF Found, a
    <3> QED
      BY <1>3, <2>1, <3>1, OverKeeps DEF engine
  <2> QED
    BY <2>2, <2>3
<1> QED
  BY <1>5, <1>6, <1>7, <1>8, <1>9, <1>10, <1>11, <1>12, <1>13, <1>14, <1>15, <1>16, <1>17, <1>18
     DEF Callback

LEMMA UserKeeps ==
    ASSUME IInv, User
    PROVE  IInv'
<1>1. /\ Len(sess) \in Nat /\ DOMAIN sess = 1 .. Len(sess) /\ sess \in Seq(Sessions)
      /\ \A n \in 1 .. Len(sess) : sess[n] \in Sessions
      /\ Calls(call, Len(sess), seen) /\ \A i \in Slots : CallOf(call[i], Len(sess), seen)
      /\ ref \in 0 .. Len(sess) /\ saved \in 0 .. Len(sess)
      /\ (view = NoView \/ view \in Statuses(Len(sess)))
      /\ (advancing => EndsOut(call)) /\ ViewIsAttached
  BY Facts DEF IInv, PageInv, SessInv
<1>2. ASSUME NEW t \in Tracks, Start(t) PROVE IInv'
  BY <1>2, StartRequestOf, AsksKeeps DEF Start
<1>3. CASE Skip
  <2>1. Advance("skip", FALSE, FALSE) /\ UNCHANGED advancing
    BY <1>3 DEF Skip
  <2> QED
    BY <2>1, AdvanceKeeps
<1>4. CASE Like
  <2>1. Id # 0 /\ Asks(Request("like", Id, view.now))
    BY <1>4 DEF Like
  <2>2. CallOf(Request("like", Id, view.now), Len(sess), seen)
    BY <2>1, IdFacts, RequestOf
  <2> QED
    BY <2>1, <2>2, AsksKeeps
<1>5. CASE GoBack
  <2>1. Id # 0 /\ Asks(Request("back", Id, 0))
    BY <1>5 DEF GoBack
  <2>2. CallOf(Request("back", Id, 0), Len(sess), seen)
    BY <2>1, IdFacts, RequestOf
  <2> QED
    BY <2>1, <2>2, AsksKeeps
<1>6. CASE Stop
  <2>1. Id # 0 /\ Asks(Request("stop", Id, 0))
    BY <1>6 DEF Stop
  <2>2. CallOf(Request("stop", Id, 0), Len(sess), seen)
    BY <2>1, IdFacts, RequestOf
  <2> QED
    BY <2>1, <2>2, AsksKeeps
<1>7. CASE Toggle
  <2>1. UNCHANGED <<sess, call, page, att, seen>>
    BY <1>7 DEF Toggle
  <2> QED
    BY <1>1, <2>1, QuietStep DEF page
<1>8. ASSUME NEW t \in Tracks, PlayNext(t) PROVE IInv'
  <2>1. CASE Start(t)
    BY <1>2, <2>1
  <2>2. CASE Id # 0 /\ Asks(Request("inject", Id, t))
    <3>1. CallOf(Request("inject", Id, t), Len(sess), seen)
      BY <2>2, IdFacts, RequestOf
    <3> QED
      BY <2>2, <3>1, AsksKeeps
  <2> QED
    BY <1>8, <2>1, <2>2 DEF PlayNext
<1>9. ASSUME NEW t \in Tracks, RemoveFromQueue(t) PROVE IInv'
  <2>1. Id # 0 /\ Asks(Request("remove", Id, t))
    BY <1>9 DEF RemoveFromQueue
  <2>2. CallOf(Request("remove", Id, t), Len(sess), seen)
    BY <2>1, IdFacts, RequestOf
  <2> QED
    BY <2>1, <2>2, AsksKeeps
<1>10. ASSUME NEW n \in DOMAIN sess, Resume(n) PROVE IInv'
  <2>1. n \in 1 .. Len(sess) /\ sess[n].now \in Tracks
    BY <1>1, <1>10 DEF Sessions
  <2>2. CallOf(Request("resume", n, sess[n].now), Len(sess), seen)
    BY <2>1, RequestOf
  <2>3. Asks(Request("resume", n, sess[n].now))
    BY <1>10 DEF Resume
  <2> QED
    BY <2>2, <2>3, AsksKeeps
<1>11. CASE Reload
  <2> DEFINE r == IF saved # 0 THEN Request("rejoin", saved, 0) ELSE Request("find", 0, 0)
  <2>1. /\ ref' = 0 /\ view' = NoView /\ advancing' = FALSE /\ UNCHANGED <<sess, saved, seen>>
        /\ call' = [i \in Slots |-> IF i # 1 THEN Idle ELSE r]
    BY <1>11 DEF Reload
  <2>2. CallOf(r, Len(sess), seen)
    <3>1. CASE saved # 0
      <4>1. saved \in 1 .. Len(sess)
        BY <1>1, <3>1
      <4>2. CallOf(Request("rejoin", saved, 0), Len(sess), seen)
        BY <4>1, RequestOf
      <4> QED
        BY <3>1, <4>2
    <3>2. CASE saved = 0
      <4>1. CallOf(Request("find", 0, 0), Len(sess), seen)
        BY RequestOf
      <4> QED
        BY <3>2, <4>1
    <3> QED
      BY <3>1, <3>2
  <2> HIDE DEF r
  <2>3. Calls(call', Len(sess), seen)
    BY <2>1, <2>2, IdleOf DEF Calls
  <2>4. PageInv'
    BY <1>1, <2>1 DEF PageInv
  <2>5. ViewIsAttached'
    BY <2>1 DEF ViewIsAttached, NoView
  <2> QED
    BY <1>1, <2>1, <2>3, <2>4, <2>5 DEF IInv, SessInv
<1>12. CASE Logout
  <2> DEFINE c == [i \in Slots |-> IF call[i].kind \in Hydrating THEN Idle ELSE call[i]]
  <2>1. /\ ref' = 0 /\ saved' = 0 /\ view' = NoView /\ UNCHANGED <<sess, seen, advancing>>
        /\ call' = Polling(NoView, c)
    BY <1>12 DEF Logout
  <2>2. Calls(c, Len(sess), seen)
    BY <1>1, IdleOf DEF Calls
  <2>3. EndsOut(call) => EndsOut(c)
    <3> SUFFICES ASSUME EndsOut(call) PROVE EndsOut(c)
      OBVIOUS
    <3>1. PICK i \in Slots : call[i].ends
      BY DEF EndsOut
    <3>2. call[i].kind \notin Hydrating
      BY <1>1, <3>1 DEF CallOf, Hydrating
    <3>3. c[i] = call[i]
      BY <3>2
    <3> QED
      BY <3>1, <3>3 DEF EndsOut
  <2> HIDE DEF c
  <2>4. Calls(call', Len(sess), seen) /\ (advancing' => EndsOut(call'))
    BY <1>1, <2>1, <2>2, <2>3, PollingOf
  <2>5. PageInv'
    BY <1>1, <2>1 DEF PageInv
  <2>6. ViewIsAttached'
    BY <2>1 DEF ViewIsAttached, NoView
  <2> QED
    BY <1>1, <2>1, <2>4, <2>5, <2>6 DEF IInv, SessInv
<1>13. CASE Login
  <2> DEFINE r == IF ref # 0 THEN Request("keep", ref, 0) ELSE Request("find", 0, 0)
  <2>1. PICK i \in Slots : Free(i) /\ call' = [call EXCEPT ![i] = r]
    BY <1>13 DEF Login
  <2>2. UNCHANGED <<sess, ref, saved, view, advancing, engine>>
    BY <1>13 DEF Login
  <2>3. CallOf(r, Len(sess), seen)
    <3>1. CASE ref # 0
      <4>1. ref \in 1 .. Len(sess)
        BY <1>1, <3>1
      <4>2. CallOf(Request("keep", ref, 0), Len(sess), seen)
        BY <4>1, RequestOf
      <4> QED
        BY <3>1, <4>2
    <3>2. CASE ref = 0
      <4>1. CallOf(Request("find", 0, 0), Len(sess), seen)
        BY RequestOf
      <4> QED
        BY <3>2, <4>1
    <3> QED
      BY <3>1, <3>2
  <2> HIDE DEF r
  <2>4. ~call[i].ends
    BY <1>1, <2>1 DEF Free, CallOf
  <2> QED
    BY <2>1, <2>2, <2>3, <2>4, SendsQuietly DEF engine
<1>14. \A t \in Seeds \cup {view.now} : t # 0 => t \in Tracks
  BY <1>1, SeedsAssumption DEF Tracks, Statuses, NoView
<1>15. CASE \E t \in Seeds \cup {view.now} : t # 0 /\ (Start(t) \/ PlayNext(t))
  BY <1>2, <1>8, <1>14, <1>15
<1> QED
  BY <1>3, <1>4, <1>5, <1>6, <1>7, <1>9, <1>10, <1>11, <1>12, <1>13, <1>15 DEF User

\* The other steps of the page: the engine's advance, and the poll.
LEMMA PageKeeps ==
    ASSUME IInv, NearEnd \/ Ended \/ Poll
    PROVE  IInv'
<1>1. /\ Len(sess) \in Nat /\ sess \in Seq(Sessions) /\ Calls(call, Len(sess), seen)
      /\ (view = NoView \/ view \in Statuses(Len(sess))) /\ (advancing => EndsOut(call))
      /\ \A i \in Slots : CallOf(call[i], Len(sess), seen)
  BY Facts DEF IInv, PageInv, SessInv
<1>2. CASE NearEnd
  <2>1. Advance("complete", TRUE, FALSE)
    BY <1>2 DEF NearEnd
  <2> QED
    BY <2>1, AdvanceKeeps
<1>3. CASE Ended
  <2>1. CASE Advance("complete", TRUE, TRUE)
    BY <2>1, AdvanceKeeps
  <2>2. CASE UNCHANGED <<sess, call, page, att, seen>>
    BY <1>1, <2>2, QuietStep DEF page
  <2> QED
    BY <1>3, <2>1, <2>2 DEF Ended
<1>4. CASE Poll
  <2> DEFINE r == Request("poll", view.id, 0)
  <2>1. view.state = "live" /\ UNCHANGED <<sess, page, engine>>
    BY <1>4 DEF Poll
  <2>2. PICK i \in Slots : Free(i) /\ call' = [call EXCEPT ![i] = r]
    BY <1>4 DEF Poll
  <2>3. view.id \in 1 .. Len(sess)
    BY <1>1, <2>1 DEF Statuses, NoView
  <2>4. CallOf(r, Len(sess), seen)
    BY <2>3, RequestOf
  <2> HIDE DEF r
  <2>5. ~call[i].ends
    BY <1>1, <2>2 DEF Free, CallOf
  <2> QED
    BY <2>1, <2>2, <2>4, <2>5, SendsQuietly DEF page, engine
<1> QED
  BY <1>2, <1>3, <1>4

-----------------------------------------------------------------------------
(* The theorems.                                                           *)

LEMMA InitIInv == Init => IInv
<1> SUFFICES ASSUME Init PROVE IInv
  OBVIOUS
<1>1. SessInv /\ Len(sess) = 0 /\ Len(sess) \in Nat
  BY EmptySeq DEF Init, SessInv
<1>2. Calls(call, Len(sess), seen)
  BY IdleOf DEF Init, Calls
<1>3. PageInv
  BY <1>1 DEF Init, PageInv, NoView
<1> QED
  BY <1>1, <1>2, <1>3 DEF Init, IInv, ViewIsAttached, NoView

LEMMA Inductive == IInv /\ [Next]_vars => IInv'
<1> SUFFICES ASSUME IInv, [Next]_vars PROVE IInv'
  OBVIOUS
<1>1. CASE UNCHANGED vars
  BY <1>1 DEF vars, page, engine, IInv, SessInv, PageInv, ViewIsAttached
<1>2. CASE Next
  BY <1>2, UserKeeps, PageKeeps, ServeKeeps, CallbackKeeps, LoseKeeps, SessionsKeep DEF Next
<1> QED
  BY <1>1, <1>2

LEMMA Reachable == Spec => []IInv
  BY InitIInv, Inductive, PTL DEF Spec

\* While a live session is shown the engine has attached the track the page
\* shows (the attach effect, PlayerContext.tsx), in whatever order the answers
\* arrive.
THEOREM EngineFollowsTheView == Spec => []ViewIsAttached
  BY Reachable, PTL DEF IInv

\* advancingRef is set only while the report of an end, or the fetch that
\* follows its failure, is in flight: the page never stays deaf to the next end.
THEOREM DeafForOneReport == Spec => []DeafOnlyInFlight
<1>1. IInv => DeafOnlyInFlight
  BY DEF IInv, EndsOut, DeafOnlyInFlight
<1> QED
  BY <1>1, Reachable, PTL

\* The step in which a session moves to another track and remembers the one it
\* leaves is the server taking a report about the track that plays, and the
\* page had shown that track for the session the report went to.
LEMMA MovesOnlyWhenShown ==
    ASSUME IInv, Next, NEW n \in DOMAIN sess,
           sess'[n].now # sess[n].now, sess'[n].hist # <<>>
    PROVE  <<n, sess[n].now>> \in seen
<1>1. /\ Len(sess) \in Nat /\ DOMAIN sess = 1 .. Len(sess) /\ sess \in Seq(Sessions)
      /\ \A m \in 1 .. Len(sess) : sess[m] \in Sessions
      /\ \A i \in Slots : CallOf(call[i], Len(sess), seen)
  BY Facts DEF IInv, SessInv
<1>2. sess' # sess
  OBVIOUS
<1>3. ASSUME NEW i \in Slots, NEW s, Answers(i, s), s.hist = <<>> \/ s.now = sess[call[i].sid].now
      PROVE  FALSE
  <2>1. sess' = [sess EXCEPT ![call[i].sid] = s]
    BY <1>3 DEF Answers
  <2>2. n = call[i].sid /\ sess'[n] = s
    BY <2>1, <1>1
  <2> QED
    BY <2>2, <1>3
<1>4. ASSUME NEW i \in Slots, Serve(i) PROVE <<n, sess[n].now>> \in seen
  <2> DEFINE s == sess[call[i].sid]
  <2>1. ServeGet(i) \/ ServeFeedback(i) \/ ServeLike(i) \/ ServeStop(i) \/ ServeBack(i)
        \/ ServeInject(i) \/ ServeRemove(i) \/ ServeCreate(i) \/ ServeFind(i)
    BY <1>4 DEF Serve
  <2>2. call[i].kind \notin {"idle", "create", "find"} => s \in Sessions
    BY <1>1 DEF CallOf
  <2>3. CASE ServeGet(i) \/ ServeLike(i)
    <3>1. Answers(i, s)
      BY <2>3 DEF ServeGet, ServeLike
    <3> QED
      BY <3>1, <1>3
  <2>4. CASE ServeStop(i)
    <3>1. Answers(i, [s EXCEPT !.state = "stopped"]) /\ s \in Sessions
      BY <2>2, <2>4 DEF ServeStop, Sent
    <3>2. [s EXCEPT !.state = "stopped"].now = s.now
      BY <3>1 DEF Sessions
    <3> QED
      BY <3>1, <3>2, <1>3
  <2>5. CASE ServeBack(i)
    <3>1. Refuses(i) \/ Answers(i, WentBack(s))
      BY <2>5 DEF ServeBack
    <3>2. WentBack(s).hist = <<>>
      BY DEF WentBack
    <3> QED
      BY <3>1, <3>2, <1>2, <1>3 DEF Refuses
  <2>6. CASE ServeInject(i)
    <3>1. (Refuses(i) \/ Answers(i, Injected(s, call[i].target))) /\ s \in Sessions
      BY <2>2, <2>6 DEF ServeInject, Sent
    <3>2. Injected(s, call[i].target).now = s.now
      BY <3>1 DEF Injected, Sessions
    <3> QED
      BY <3>1, <3>2, <1>2, <1>3 DEF Refuses
  <2>7. CASE ServeRemove(i)
    <3> DEFINE r == [s EXCEPT !.queue = Without(s.queue, call[i].target)]
    <3>1. (Refuses(i) \/ Answers(i, r)) /\ s \in Sessions
      BY <2>2, <2>7 DEF ServeRemove, Sent
    <3>2. r.now = s.now
      BY <3>1 DEF Sessions
    <3> HIDE DEF r
    <3> QED
      BY <3>1, <3>2, <1>2, <1>3 DEF Refuses
  <2>8. CASE ServeCreate(i) \/ ServeFind(i)
    <3>1. sess' = sess \/ \E c : sess' = Append(sess, c)
      BY <2>8 DEF ServeCreate, ServeFind
    <3>2. sess'[n] = sess[n]
      BY <3>1, <1>1, AppendProperties
    <3> QED
      BY <3>2
  <2>9. CASE ServeFeedback(i)
    <3> DEFINE t == Named(s, call[i].target)
    <3>1. /\ call[i].kind \in {"skip", "complete"}
          /\ (\E r \in Reported(s, t) : Answers(i, r)) \/ Refuses(i)
      BY <2>9 DEF ServeFeedback, Sent
    <3>2. PICK r \in Reported(s, t) : Answers(i, r)
      BY <3>1, <1>2 DEF Refuses
    <3>3. s \in Sessions
      BY <2>2, <3>1
    <3> HIDE DEF t
    <3>4. t # s.now => r.now = s.now
      BY <3>2, <3>3, ReportedType
    <3>5. t = s.now
      BY <3>2, <3>4, <1>3
    <3>6. sess' = [sess EXCEPT ![call[i].sid] = r]
      BY <3>2 DEF Answers
    <3>7. n = call[i].sid
      BY <3>6, <1>1
    <3>8. call[i].target \in Tracks /\ <<call[i].sid, call[i].target>> \in seen
      BY <1>1, <3>1 DEF CallOf
    <3>9. t = call[i].target
      BY <3>8 DEF t, Named, Tracks
    <3> QED
      BY <3>5, <3>7, <3>8, <3>9
  <2> QED
    BY <2>1, <2>3, <2>4, <2>5, <2>6, <2>7, <2>8, <2>9
<1>5. ASSUME NEW m \in DOMAIN sess, Refill(m) \/ StoppedElsewhere(m) PROVE FALSE
  <2>1. sess[m] \in Sessions /\ m \in 1 .. Len(sess)
    BY <1>1, <1>5
  <2>2. \E s : sess' = [sess EXCEPT ![m] = s] /\ s.now = sess[m].now
    <3>1. CASE Refill(m)
      <4> DEFINE q == Append(sess[m].queue,
                             After(IF sess[m].queue = <<>> THEN sess[m].now
                                   ELSE sess[m].queue[Len(sess[m].queue)]))
      <4>1. sess' = [sess EXCEPT ![m] = [sess[m] EXCEPT !.queue = q]]
        BY <1>1, <3>1 DEF Refill
      <4> HIDE DEF q
      <4>2. [sess[m] EXCEPT !.queue = q].now = sess[m].now
        BY <2>1 DEF Sessions
      <4> QED
        BY <4>1, <4>2
    <3>2. CASE StoppedElsewhere(m)
      <4>1. sess' = [sess EXCEPT ![m] = [sess[m] EXCEPT !.state = "stopped"]]
        BY <1>1, <3>2 DEF StoppedElsewhere
      <4>2. [sess[m] EXCEPT !.state = "stopped"].now = sess[m].now
        BY <2>1 DEF Sessions
      <4> QED
        BY <4>1, <4>2
    <3> QED
      BY <1>5, <3>1, <3>2
  <2> QED
    BY <1>1, <2>1, <2>2
<1>6. ASSUME User \/ NearEnd \/ Ended \/ Poll PROVE sess' = sess
  BY <1>6 DEF User, Skip, NearEnd, Ended, Advance, Poll, Like, GoBack, Stop, Toggle, Start, Asks,
     PlayNext, RemoveFromQueue, Resume, Reload, Logout, Login
<1>7. ASSUME NEW i \in Slots, Callback(i) \/ Lose(i) PROVE sess' = sess
  BY <1>7 DEF Callback, Lose, FeedbackAnswered, FeedbackFailed, Recovered, PollIgnored, PollShown,
     Dropped, Retired, Adopts, StartFailed, ResumedAnew, Stopped, BackAnswered, BackFailed, Edited,
     Rejoined, NotRejoined, Found
<1> QED
  BY <1>2, <1>4, <1>5, <1>6, <1>7 DEF Next

\* Whatever is doubled, lost or answered late, a session advances only from a
\* track the page has shown while it had that session (worker.go's check that a
\* report is about the playing track, and the page's requests).
THEOREM NoTrackPassedOver == Spec => NothingSkippedUnseen
<1> DEFINE Step == \A n \in DOMAIN sess :
        sess'[n].now # sess[n].now /\ sess'[n].hist # <<>> => <<n, sess[n].now>> \in seen
<1>1. IInv /\ [Next]_vars => [Step]_vars
  <2>1. IInv /\ Next => Step
    BY MovesOnlyWhenShown
  <2> QED
    BY <2>1
<1> HIDE DEF Step
<1>2. Spec => [][Step]_vars
  BY <1>1, Reachable, PTL DEF Spec
<1> QED
  BY <1>2 DEF NothingSkippedUnseen, Step

=============================================================================
