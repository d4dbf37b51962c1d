---------------------------- MODULE Browser_proofs ----------------------------
(***************************************************************************)
(* Proofs about Browser: for any pages, playlists, queries and number of   *)
(* requests in flight, the hits are those of the text in the box, a user   *)
(* is shown only with a session, and a list returns to where the user left *)
(* it.                                                                     *)
(***************************************************************************)
EXTENDS Browser, TLAPS

\* The only request of the search box is for the text in it.
SearchInv ==
    /\ \A r \in suggest : r.q = query /\ r.q \in Queries /\ r = [q |-> r.q, at |-> r.at]
    /\ \A r1, r2 \in suggest : r1 = r2
    /\ busy <=> suggest # {}
    /\ busy \/ missed \/ hits = (IF query \in Queries THEN query ELSE "")

\* me() is out while the page waits for it; nobody logs out before it answers,
\* and what it or the form answers is the cookie's.
AuthInv ==
    /\ auth = [me |-> auth.me, form |-> auth.form]
    /\ loading <=> auth.me # "none"
    /\ auth.me = "in" => cookie
    /\ auth.form = "in" => cookie
    /\ auth.form \in {"logout", "out", "lost"} => ~loading
    /\ UserHasSession

\* Calls of a page that can change what is shown are of the page mounted.
CallOf(c, page) ==
    /\ c = [do |-> c.do, id |-> c.id, item |-> c.item, at |-> c.at, val |-> c.val,
            here |-> c.here]
    /\ c.do = "list" => c.id \in Lists /\ (c.here => c.id = page)
    /\ c.do \in {"get", "edit"} /\ c.here => page \notin Lists

CallInv ==
    /\ call = [i \in Slots |-> call[i]]
    /\ \A i \in Slots : CallOf(call[i], route[1])

\* A list that is mounted without its content is at the top, and nobody waits
\* for a position; nothing is loaded before me() is answered.
PageInv ==
    /\ cached \subseteq Lists
    /\ y \in Nat /\ saved \in [Lists -> Nat] /\ put \in [Lists -> Nat]
    /\ target \in Nat \cup {None}
    /\ route[1] \in Lists /\ shown = None => target = None /\ y = 0
    /\ loading => /\ cached = {} /\ y = 0 /\ target = None /\ shown = None
                  /\ \A i \in Slots : call[i] = Idle
    /\ ~Private /\ ~loading => route[1] = "login"

\* Where each list is, while it is shown and after it was left.
KeptInv(l) ==
    /\ route[1] # l \/ target = None => saved[l] = put[l]
    /\ route[1] = l /\ target # None => target = put[l]
    /\ route[1] = l /\ target = None /\ shown # None => y = put[l]

ScrollInv == \A l \in Lists \ clobbered : KeptInv(l)

IInv == SearchInv /\ AuthInv /\ CallInv /\ PageInv /\ ScrollInv

-----------------------------------------------------------------------------
(* The user.                                                               *)

LEMMA IdentityKept ==
    ASSUME Next, ~ServeMe, ~Refreshed, ~Login, ~Logout, ~ServeForm, ~FormAnswered
    PROVE  UNCHANGED identity
<1>1. CASE Follow \/ GoBack \/ Search \/ UserScrolls \/ Applies \/ HomeTimesOut
  BY <1>1 DEF Follow, GoBack, Search, UserScrolls, Applies, HomeTimesOut
<1>2. CASE \/ RemoveTrack \/ RenamePlaylist \/ DeletePlaylist \/ CreatePlaylist
           \/ PlaylistFromTrack \/ StartStation \/ PlayAlbum
  BY <1>2 DEF RemoveTrack, RenamePlaylist, DeletePlaylist, CreatePlaylist, PlaylistFromTrack,
              StartStation, PlayAlbum, Edit, Does
<1>3. CASE \E i \in Slots : Serve(i) \/ Lose(i) \/ Answer(i)
  BY <1>3 DEF Serve, Lose, Answer, Shows, Listed, Leaps, Picked, Created
<1>4. CASE Type \/ GoHit \/ EnterQuery \/ RadioFromHit \/ \E r \in suggest : Suggest(r)
  BY <1>4 DEF Type, GoHit, EnterQuery, RadioFromHit, Suggest
<1> QED
  BY <1>1, <1>2, <1>3, <1>4 DEF Next

LEMMA AuthStep == AuthInv /\ [Next]_vars => AuthInv'
<1> SUFFICES ASSUME AuthInv, [Next]_vars PROVE AuthInv'
  OBVIOUS
<1>0. /\ auth = [me |-> auth.me, form |-> auth.form]
      /\ loading <=> auth.me # "none"
      /\ auth.me = "in" => cookie
      /\ auth.form = "in" => cookie
      /\ auth.form \in {"logout", "out", "lost"} => ~loading
      /\ user => cookie \/ auth.form \in {"logout", "out", "lost"}
  BY DEF AuthInv, UserHasSession
<1>1. CASE UNCHANGED identity
  BY <1>1 DEF identity, AuthInv, UserHasSession
<1>2. CASE ServeMe
  <2>1. PICK r \in {"in", "out"} : auth' = [auth EXCEPT !.me = r] /\ (r = "in" => cookie)
    BY <1>2 DEF ServeMe
  <2>2. /\ auth.me = "me" /\ cookie' = cookie /\ user' = user /\ loading' = loading
        /\ auth' = [me |-> r, form |-> auth.form]
    BY <1>0, <1>2, <2>1 DEF ServeMe
  <2> QED
    BY <1>0, <2>1, <2>2 DEF AuthInv, UserHasSession
<1>3. CASE Refreshed
  <2>1. /\ auth.me \in {"in", "out"} /\ auth' = [me |-> "none", form |-> auth.form]
        /\ user' = (auth.me = "in") /\ loading' = FALSE /\ cookie' = cookie
    BY <1>0, <1>3 DEF Refreshed, Becomes
  <2> QED
    BY <1>0, <2>1 DEF AuthInv, UserHasSession
<1>4. CASE Login
  <2>1. /\ auth.form = "none" /\ auth' = [me |-> auth.me, form |-> "login"]
        /\ cookie' = cookie /\ user' = user /\ loading' = loading
    BY <1>0, <1>4 DEF Login
  <2> QED
    BY <1>0, <2>1 DEF AuthInv, UserHasSession
<1>5. CASE Logout
  <2>1. /\ ~loading /\ auth' = [me |-> auth.me, form |-> "logout"]
        /\ cookie' = cookie /\ user' = user /\ loading' = loading
    BY <1>0, <1>5 DEF Logout, Private
  <2> QED
    BY <1>0, <2>1 DEF AuthInv, UserHasSession
<1>6. CASE ServeForm
  <2>1. user' = user /\ loading' = loading
    BY <1>6 DEF ServeForm
  <2>2. CASE auth.form = "login"
    <3>1. PICK ok \in BOOLEAN, told \in {"in", "refused"} :
             /\ ok \/ told = "refused"
             /\ cookie' = (cookie \/ ok) /\ auth' = [auth EXCEPT !.form = told]
      BY <1>6, <2>2 DEF ServeForm
    <3>2. auth' = [me |-> auth.me, form |-> told]
      BY <1>0, <3>1
    <3> QED
      BY <1>0, <2>1, <2>2, <3>1, <3>2 DEF AuthInv, UserHasSession
  <2>3. CASE auth.form = "logout"
    <3>1. PICK ok \in BOOLEAN, told \in {"out", "lost"} :
             cookie' = (cookie /\ ~ok) /\ auth' = [auth EXCEPT !.form = told]
      BY <1>6, <2>3 DEF ServeForm
    <3>2. auth' = [me |-> auth.me, form |-> told]
      BY <1>0, <3>1
    <3> QED
      BY <1>0, <2>1, <2>3, <3>1, <3>2 DEF AuthInv, UserHasSession
  <2> QED
    BY <1>6, <2>2, <2>3 DEF ServeForm
<1>7. CASE FormAnswered
  <2>1. /\ auth' = [me |-> auth.me, form |-> "none"] /\ cookie' = cookie
        /\ \/ auth.form = "in" /\ user' = TRUE /\ loading' = loading
           \/ auth.form \in {"out", "lost"} /\ user' = FALSE /\ loading' = loading
           \/ auth.form = "refused" /\ user' = user /\ loading' = loading
    BY <1>0, <1>7 DEF FormAnswered, Becomes
  <2> QED
    BY <1>0, <2>1 DEF AuthInv, UserHasSession
<1> QED
  BY <1>1, <1>2, <1>3, <1>4, <1>5, <1>6, <1>7, IdentityKept DEF vars, identity

-----------------------------------------------------------------------------
(* The search box.                                                         *)

LEMMA SearchStep == SearchInv /\ [Next]_vars => SearchInv'
<1> SUFFICES ASSUME SearchInv, [Next]_vars PROVE SearchInv'
  OBVIOUS
<1>1. CASE UNCHANGED search
  BY <1>1 DEF search, SearchInv
<1>2. CASE Cleared
  BY <1>2 DEF Cleared, SearchInv
<1>3. CASE Type
  <2>1. PICK x : Types(x)
    BY <1>3 DEF Type
  <2>2. CASE x \in Queries
    <3> DEFINE one == [q |-> x, at |-> "typed"]
    <3>1. query' = x /\ busy' = TRUE /\ suggest' = {one}
      BY <2>1, <2>2 DEF Types
    <3>2. one.q = x /\ one = [q |-> one.q, at |-> one.at]
      OBVIOUS
    <3> HIDE DEF one
    <3> QED
      BY <2>2, <3>1, <3>2 DEF SearchInv
  <2>3. CASE x \notin Queries
    BY <2>1, <2>3 DEF Types, SearchInv
  <2> QED
    BY <2>2, <2>3
<1>4. ASSUME NEW r \in suggest, Suggest(r) PROVE SearchInv'
  <2>0. suggest = {r} /\ r.q = query /\ r.q \in Queries /\ r = [q |-> r.q, at |-> r.at] /\ busy
    BY DEF SearchInv
  <2>1. CASE r.at \in {"told", "lost"}
    <3>1. /\ suggest' = {} /\ busy' = FALSE /\ query' = query /\ missed' = (r.at = "lost")
          /\ hits' = IF r.at = "told" THEN r.q ELSE hits
      BY <1>4, <2>0, <2>1 DEF Suggest
    <3>2. missed' \/ hits' = (IF query' \in Queries THEN query' ELSE "")
      BY <2>0, <2>1, <3>1
    <3> QED
      BY <3>1, <3>2 DEF SearchInv
  <2>2. CASE r.at \in {"typed", "asked"}
    <3>1. PICK at : suggest' = (suggest \ {r}) \cup {[r EXCEPT !.at = at]}
      BY <1>4, <2>2 DEF Suggest
    <3>2. suggest' = {[q |-> r.q, at |-> at]}
      BY <2>0, <3>1
    <3>3. query' = query /\ hits' = hits /\ busy' = busy /\ missed' = missed
      BY <1>4, <2>2 DEF Suggest
    <3> QED
      BY <2>0, <3>2, <3>3 DEF SearchInv
  <2> QED
    BY <1>4, <2>1, <2>2 DEF Suggest
<1>5. UNCHANGED search \/ Cleared \/ Type \/ \E r \in suggest : Suggest(r)
  <2>1. CASE UNCHANGED vars
    BY <2>1 DEF vars
  <2>2. CASE Follow \/ GoBack \/ Search \/ UserScrolls \/ Applies \/ HomeTimesOut
    BY <2>2 DEF Follow, GoBack, Search, UserScrolls, Applies, HomeTimesOut
  <2>3. CASE \/ RemoveTrack \/ RenamePlaylist \/ DeletePlaylist \/ CreatePlaylist
             \/ PlaylistFromTrack \/ StartStation \/ PlayAlbum
    BY <2>3 DEF RemoveTrack, RenamePlaylist, DeletePlaylist, CreatePlaylist, PlaylistFromTrack,
                StartStation, PlayAlbum, Edit, Does
  <2>4. CASE \E i \in Slots : Serve(i) \/ Lose(i) \/ Answer(i)
    BY <2>4 DEF Serve, Lose, Answer, Shows, Listed, Leaps, Picked, Created
  <2>5. CASE GoHit \/ EnterQuery \/ RadioFromHit
    BY <2>5 DEF GoHit, EnterQuery, RadioFromHit
  <2>6. CASE ServeMe \/ Login \/ Logout \/ ServeForm
    BY <2>6 DEF ServeMe, Login, Logout, ServeForm
  <2>7. CASE Refreshed \/ FormAnswered
    <3>1. ASSUME NEW u, NEW l, Becomes(u, l) PROVE UNCHANGED search \/ Cleared
      BY <3>1 DEF Becomes
    <3> QED
      BY <2>7, <3>1 DEF Refreshed, FormAnswered
  <2> QED
    BY <2>1, <2>2, <2>3, <2>4, <2>5, <2>6, <2>7 DEF Next
<1> QED
  BY <1>1, <1>2, <1>3, <1>4, <1>5

-----------------------------------------------------------------------------
(* What a page shows is not None. *)

LEMMA NoneFacts ==
    /\ None \notin Nat
    /\ \A id \in Lists \cup Ids \cup Searches, val \in (SUBSET Items) \cup {None} :
          [id |-> id, val |-> val] # None
    /\ \A l \in Lists : [id |-> l, val |-> None] # None
    /\ None # Gone /\ \A s \in SUBSET Items : s # None /\ s # Gone
<1>1. None \notin Nat
  BY NoneAssumption
<1>2. ASSUME NEW id \in Lists \cup Ids \cup Searches, NEW val \in (SUBSET Items) \cup {None}
      PROVE  [id |-> id, val |-> val] # None
  <2>1. [id |-> id, val |-> val] \in [id : Lists \cup Ids \cup Queries \cup {"all"},
                                     val : (SUBSET Items) \cup {None}]
    BY DEF Searches
  <2>2. None \notin [id : Lists \cup Ids \cup Queries \cup {"all"}, val : (SUBSET Items) \cup {None}]
    BY NoneAssumption
  <2> QED
    BY <2>1, <2>2
<1>3. ASSUME NEW l \in Lists PROVE [id |-> l, val |-> None] # None
  <2>1. None \in (SUBSET Items) \cup {None}
    OBVIOUS
  <2> QED
    BY <1>2, <2>1
<1> QED
  BY <1>1, <1>2, <1>3, NoneAssumption

-----------------------------------------------------------------------------
(* Pages and where they scroll to.                                         *)

Calls(calls, page) ==
    /\ calls = [i \in Slots |-> calls[i]]
    /\ \A i \in Slots : CallOf(calls[i], page)

\* A new request is of the page that sends it.
LEMMA AskFacts ==
    ASSUME NEW do, NEW id, NEW item, NEW page,
           do = "list" => id \in Lists /\ id = page,
           do \in {"get", "edit"} => page \notin Lists
    PROVE  CallOf(Ask(do, id, item), page)
  BY DEF CallOf, Ask

LEMMA IdleFacts == \A page : CallOf(Idle, page)
  BY DEF CallOf, Idle

\* The calls of a page that is left are nobody's.
LEMMA OrphanedFacts ==
    ASSUME NEW calls, NEW page, NEW next, Calls(calls, page)
    PROVE  Calls(Orphaned(calls), next)
<1>1. Orphaned(calls) = [i \in Slots |-> Orphaned(calls)[i]]
  BY DEF Orphaned
<1>2. ASSUME NEW i \in Slots PROVE CallOf(Orphaned(calls)[i], next)
  <2>1. CASE calls[i].do \in {"get", "stations"}
    BY <2>1, IdleFacts DEF Orphaned
  <2>2. CASE calls[i].do \notin {"get", "stations"}
    <3> DEFINE c == calls[i]
    <3>1. Orphaned(calls)[i] = [c EXCEPT !.here = FALSE]
      BY <2>2 DEF Orphaned
    <3>2. /\ c = [do |-> c.do, id |-> c.id, item |-> c.item, at |-> c.at, val |-> c.val,
                  here |-> c.here]
          /\ c.do = "list" => c.id \in Lists
      BY DEF Calls, CallOf
    <3> HIDE DEF c
    <3> QED
      BY <3>1, <3>2 DEF CallOf
  <2> QED
    BY <2>1, <2>2
<1> QED
  BY <1>1, <1>2 DEF Calls

LEMMA PutsFacts ==
    ASSUME NEW calls, NEW page, Calls(calls, page), NEW i \in Slots, NEW c, CallOf(c, page)
    PROVE  Calls([calls EXCEPT ![i] = c], page)
<1>1. ASSUME NEW j \in Slots PROVE CallOf([calls EXCEPT ![i] = c][j], page)
  BY DEF Calls
<1> QED
  BY <1>1 DEF Calls

LEMMA SendsFacts ==
    ASSUME NEW calls, NEW r, Calls(calls, r[1]), Sends(calls, r)
    PROVE  call' = [i \in Slots |-> call'[i]] /\ \A i \in Slots : CallOf(call'[i], r[1])
<1>1. CASE Effects(r) = {}
  BY <1>1 DEF Sends, Calls
<1>2. CASE Effects(r) # {}
  <2>1. PICK i \in Slots, c \in Effects(r) : call' = [calls EXCEPT ![i] = c]
    BY <1>2 DEF Sends
  <2>2. CallOf(c, r[1])
    <3>1. CASE r[1] \in Details \cup {"tracks"}
      <4>1. c = Ask("get", r[2], None) /\ r[1] \notin Lists
        BY <3>1, PagesAssumption DEF Effects
      <4> QED
        BY <4>1, AskFacts
    <3>2. CASE r[1] \notin Details \cup {"tracks"} /\ r[1] \in Lists
      <4>1. c = Ask("list", r[1], None)
        BY <3>2 DEF Effects
      <4> QED
        BY <3>2, <4>1, AskFacts
    <3>3. CASE r[1] \notin Details \cup {"tracks"} /\ r[1] \notin Lists
      <4>1. c = Ask("stations", None, None)
        BY <3>3 DEF Effects
      <4> QED
        BY <4>1, AskFacts
    <3> QED
      BY <3>1, <3>2, <3>3
  <2>3. Calls([calls EXCEPT ![i] = c], r[1])
    BY <2>2, PutsFacts
  <2> QED
    BY <2>1, <2>3 DEF Calls
<1> QED
  BY <1>1, <1>2

\* A page is mounted: what it shows, and whose the calls are.
LEMMA MountsFacts ==
    ASSUME NEW r, NEW calls, Calls(calls, route[1]), Mounts(r, calls), route' = r
    PROVE  /\ CallInv'
           /\ shown' = IF r[1] \in cached THEN [id |-> r[1], val |-> None] ELSE None
<1>1. Calls(Orphaned(calls), r[1])
  BY OrphanedFacts
<1>2. Sends(Orphaned(calls), r)
  BY DEF Mounts
<1> QED
  BY <1>1, <1>2, SendsFacts DEF Mounts, CallInv

\* From one page to another: what is saved of the page that is left, and where
\* the next one starts.
LEMMA ScrollsFacts ==
    ASSUME PageInv, ScrollInv, NEW new, NEW isPop \in BOOLEAN, Scrolls(new, isPop),
           new \in Lists => new # route[1], route'[1] = new, cached' = cached,
           shown' = IF new \in cached THEN [id |-> new, val |-> None] ELSE None
    PROVE  /\ ScrollInv'
           /\ y' \in Nat /\ saved' \in [Lists -> Nat] /\ put' \in [Lists -> Nat]
           /\ target' \in Nat \cup {None}
           /\ new \in Lists /\ shown' = None => target' = None /\ y' = 0
<1> DEFINE ready == new \in cached
           at == Least(y, IF ready THEN Extent[new] ELSE 0)
           kept == LeftAt(route[1], at)
           end == IF ready /\ ~isPop THEN 0 ELSE at
<1>0. /\ cached \subseteq Lists /\ y \in Nat /\ saved \in [Lists -> Nat]
      /\ put \in [Lists -> Nat] /\ Extent \in [Lists -> Nat] /\ None \notin Nat
      /\ route[1] \in Lists /\ shown = None => target = None /\ y = 0
      /\ \A l \in Lists : [id |-> l, val |-> None] # None
  BY ExtentAssumption, NoneFacts DEF PageInv
<1>1. at \in Nat /\ end \in Nat /\ (~ready => at = 0 /\ end = 0)
  BY <1>0 DEF Least
<1>2. kept \in [Lists -> Nat]
      /\ (\A l \in Lists : kept[l] = IF l = route[1] /\ at > 0 THEN at ELSE saved[l])
  BY <1>0, <1>1 DEF LeftAt
<1>3. /\ y' = end
      /\ saved' = IF new \in Lists /\ end # y THEN [kept EXCEPT ![new] = end] ELSE kept
      /\ target' = IF ready /\ isPop /\ kept[new] > 0 THEN kept[new] ELSE None
      /\ put' = IF ready /\ ~isPop THEN [put EXCEPT ![new] = 0] ELSE put
  BY DEF Scrolls
<1>4. \A l \in Lists \ clobbered' :
        /\ l \notin clobbered
        /\ l = route[1] => target = None /\ at \in {0, y}
        /\ l = new => /\ ~ready => end = y \/ saved[l] = 0
                      /\ ready /\ ~isPop => y # 0 \/ saved[l] = 0
                      /\ ready /\ isPop => kept[l] # 0 \/ end = 0
  BY DEF Scrolls
<1> HIDE DEF ready, at, kept, end
<1>5. saved' \in [Lists -> Nat] /\ put' \in [Lists -> Nat] /\ y' \in Nat
  BY <1>0, <1>1, <1>2, <1>3
<1>8. target' \in Nat \cup {None}
  <2>1. ready => kept[new] \in Nat
    BY <1>0, <1>2 DEF ready
  <2> QED
    BY <1>3, <2>1
<1>6. new \in Lists /\ shown' = None => target' = None /\ y' = 0
  <2>1. shown' = None /\ new \in Lists => ~ready
    BY <1>0 DEF ready
  <2> QED
    BY <1>1, <1>3, <2>1
<1>7. ASSUME NEW l \in Lists \ clobbered' PROVE KeptInv(l)'
  <2>0. KeptInv(l) /\ l \notin clobbered
    BY <1>4 DEF ScrollInv
  <2>1. CASE l = route[1]
    <3>1. target = None /\ at \in {0, y} /\ saved[l] = put[l] /\ (shown # None => y = put[l])
      BY <1>4, <2>0, <2>1 DEF KeptInv
    <3>2. kept[l] = put[l]
      <4>1. CASE at = 0
        BY <1>1, <1>2, <2>1, <3>1, <4>1
      <4>2. CASE at # 0
        BY <1>0, <1>1, <1>2, <2>1, <3>1, <4>2
      <4> QED
        BY <4>1, <4>2
    <3>3. saved'[l] = kept[l] /\ put'[l] = put[l]
      BY <1>0, <1>2, <1>3, <2>1
    <3> QED
      BY <2>1, <3>2, <3>3 DEF KeptInv
  <2>2. CASE l = new
    <3>1. saved[l] = put[l] /\ kept[l] = saved[l]
      BY <1>2, <2>0, <2>2 DEF KeptInv
    <3>2. CASE ~ready
      <4>1. end = 0 /\ (end = y \/ saved[l] = 0) /\ target' = None /\ put'[l] = put[l]
            /\ shown' = None
        BY <1>1, <1>3, <1>4, <2>2, <3>2 DEF ready
      <4>2. saved'[l] = saved[l]
        BY <1>0, <1>2, <1>3, <2>2, <3>1, <4>1
      <4> QED
        BY <3>1, <4>1, <4>2 DEF KeptInv
    <3>3. CASE ready /\ ~isPop
      <4>1. end = 0 /\ (y # 0 \/ saved[l] = 0) /\ target' = None /\ put'[l] = 0 /\ y' = 0
        BY <1>0, <1>3, <1>4, <2>2, <3>3 DEF end
      <4>2. saved'[l] = 0
        BY <1>0, <1>2, <1>3, <2>2, <3>1, <4>1
      <4> QED
        BY <4>1, <4>2 DEF KeptInv
    <3>4. CASE ready /\ isPop /\ kept[l] > 0
      <4>1. target' = kept[l] /\ put'[l] = put[l]
        BY <1>3, <2>2, <3>4
      <4>2. target' # None
        BY <1>0, <1>2, <4>1
      <4> QED
        BY <2>2, <3>1, <4>1, <4>2 DEF KeptInv
    <3>5. CASE ready /\ isPop /\ ~(kept[l] > 0)
      <4>1. kept[l] = 0 /\ end = 0 /\ target' = None /\ put'[l] = put[l] /\ y' = 0
        BY <1>0, <1>2, <1>3, <1>4, <2>2, <3>5
      <4>2. saved'[l] = 0
        BY <1>0, <1>2, <1>3, <2>2, <4>1
      <4> QED
        BY <3>1, <4>1, <4>2 DEF KeptInv
    <3> QED
      BY <3>2, <3>3, <3>4, <3>5
  <2>3. CASE l # route[1] /\ l # new
    <3>1. saved'[l] = saved[l] /\ put'[l] = put[l]
      BY <1>0, <1>2, <1>3, <2>3
    <3> QED
      BY <2>0, <2>3, <3>1 DEF KeptInv
  <2> QED
    BY <2>1, <2>2, <2>3
<1> QED
  BY <1>5, <1>6, <1>7, <1>8 DEF ScrollInv

-----------------------------------------------------------------------------
(* Steps.                                                                  *)

Where == CallInv /\ PageInv /\ ScrollInv

\* Nothing moves, and a page that shows something new is no list.
LEMMA StillFacts ==
    ASSUME PageInv, ScrollInv, CallInv', UNCHANGED <<user, loading, cached, scroll>>,
           ~loading, route'[1] = route[1], shown' = shown \/ route[1] \notin Lists
    PROVE  Where'
<1>1. /\ y' = y /\ saved' = saved /\ target' = target /\ put' = put /\ clobbered' = clobbered
      /\ user' = user /\ loading' = loading /\ cached' = cached
  BY DEF scroll
<1>2. PageInv'
  BY <1>1 DEF PageInv, Private
<1>3. \A l \in Lists \ clobbered : KeptInv(l) => KeptInv(l)'
  BY <1>1 DEF KeptInv
<1> QED
  BY <1>1, <1>2, <1>3 DEF Where, ScrollInv

LEMMA SameFacts ==
    ASSUME Where, UNCHANGED <<user, loading, cached, scroll, route, shown, call>>
    PROVE  Where'
  BY DEF Where, CallInv, PageInv, ScrollInv, KeptInv, Private, scroll

LEMMA NavigatesFacts ==
    ASSUME Where, NEW r, NEW calls, NEW stack, NEW isPop \in BOOLEAN,
           Calls(calls, route[1]), Navigates(r, calls, stack, isPop),
           Private, UNCHANGED <<user, loading, cached>>
    PROVE  Where'
<1>1. ~loading /\ route' = r
  BY DEF Private, Navigates
<1>2. CASE r[1] = route[1]
  <2>1. Sends(calls, r) /\ shown' = shown /\ UNCHANGED scroll
    BY <1>2 DEF Navigates, Stays
  <2>2. CallInv'
    BY <1>1, <1>2, <2>1, SendsFacts DEF CallInv
  <2> QED
    BY <1>1, <1>2, <2>1, <2>2, StillFacts DEF Where
<1>3. CASE r[1] # route[1]
  <2>1. Mounts(r, calls) /\ Scrolls(r[1], isPop)
    BY <1>3 DEF Navigates
  <2>2. CallInv' /\ shown' = IF r[1] \in cached THEN [id |-> r[1], val |-> None] ELSE None
    BY <1>1, <2>1, MountsFacts
  <2>3. /\ ScrollInv'
        /\ y' \in Nat /\ saved' \in [Lists -> Nat] /\ put' \in [Lists -> Nat]
        /\ target' \in Nat \cup {None}
        /\ r[1] \in Lists /\ shown' = None => target' = None /\ y' = 0
    BY <1>1, <1>3, <2>1, <2>2, ScrollsFacts DEF Where
  <2>4. PageInv'
    BY <1>1, <2>3 DEF Where, PageInv, Private
  <2> QED
    BY <2>2, <2>3, <2>4 DEF Where
<1> QED
  BY <1>2, <1>3

\* Only the calls change: one takes another value.
LEMMA DoneFacts ==
    ASSUME CallInv, NEW i \in Slots
    PROVE  Calls(Done(i), route[1]) /\ Calls(call, route[1])
  BY IdleFacts, PutsFacts DEF CallInv, Calls, Done

LEMMA MovesFacts ==
    ASSUME CallInv, NEW i \in Slots, route' = route, NEW at, NEW val,
           \/ call' = [call EXCEPT ![i].at = at]
           \/ call' = [call EXCEPT ![i].at = at, ![i].val = val]
    PROVE  CallInv'
<1> DEFINE c == call[i]
           moved == [call EXCEPT ![i].at = at]
<1>1. /\ c = [do |-> c.do, id |-> c.id, item |-> c.item, at |-> c.at, val |-> c.val,
              here |-> c.here]
      /\ CallOf(c, route[1])
  BY DEF CallInv, CallOf
<1>2. /\ moved = [j \in Slots |-> moved[j]] /\ moved[i] = [c EXCEPT !.at = at]
      /\ \A j \in Slots \ {i} : moved[j] = call[j]
  BY DEF CallInv
<1>3. CallOf(moved[i], route[1])
  <2> HIDE DEF c, moved
  <2> QED
    BY <1>1, <1>2 DEF CallOf
<1>4. CASE call' = moved
  BY <1>2, <1>3, <1>4 DEF CallInv
<1>5. CASE call' = [call EXCEPT ![i].at = at, ![i].val = val]
  <2>1. call' = [moved EXCEPT ![i].val = val]
    BY <1>5
  <2> HIDE DEF moved
  <2>2. /\ call' = [j \in Slots |-> call'[j]] /\ call'[i] = [moved[i] EXCEPT !.val = val]
        /\ \A j \in Slots \ {i} : call'[j] = moved[j]
    BY <1>2, <2>1
  <2> DEFINE d == moved[i]
  <2>3. /\ d = [do |-> d.do, id |-> d.id, item |-> d.item, at |-> d.at, val |-> d.val,
                here |-> d.here]
        /\ CallOf(d, route[1])
    BY <1>3 DEF CallOf
  <2>4. CallOf([d EXCEPT !.val = val], route[1])
    <3> HIDE DEF d
    <3> QED
      BY <2>3 DEF CallOf
  <2> QED
    BY <1>2, <2>2, <2>4 DEF CallInv
<1> QED
  BY <1>4, <1>5

\* Whatever me() or the form answered.
LEMMA BecomesFacts ==
    ASSUME Where, NEW u, NEW l, Becomes(u, l), UNCHANGED cached, l => loading
    PROVE  Where'
<1>0. /\ Calls(call, route[1]) /\ user' = u /\ loading' = l
      /\ loading => /\ cached = {} /\ y = 0 /\ target = None /\ shown = None
                    /\ \A i \in Slots : call[i] = Idle
      /\ ~Private /\ ~loading => route[1] = "login"
      /\ cached \subseteq Lists /\ {"login", "now-playing"} \cap Lists = {}
  BY PagesAssumption DEF Where, PageInv, CallInv, Calls, Becomes
<1>1. CASE l \/ (Private /\ u)
  <2>1. UNCHANGED <<position, shown, scroll, call>>
    BY <1>1 DEF Becomes
  <2>2. ~Private' /\ ~loading' => route'[1] = "login"
    BY <1>0, <1>1 DEF Private
  <2>3. loading' => loading
    BY <1>0
  <2>4. PageInv'
    BY <1>0, <2>1, <2>2, <2>3 DEF Where, PageInv, position, scroll
  <2> QED
    BY <2>1, <2>4 DEF Where, CallInv, ScrollInv, KeptInv, position, scroll
<1>2. CASE ~l /\ ~Private /\ u
  <2>1. /\ route' = (IF route[1] = "login" THEN <<"now-playing", None>> ELSE route)
        /\ Mounts(route', call) /\ UNCHANGED scroll
    BY <1>2 DEF Becomes
  <2> DEFINE r == IF route[1] = "login" THEN <<"now-playing", None>> ELSE route
  <2>2. route' = r /\ Mounts(r, call) /\ r[1] = (IF route[1] = "login" THEN "now-playing" ELSE route[1])
    BY <2>1
  <2> HIDE DEF r
  <2>3. CallInv' /\ shown' = IF r[1] \in cached THEN [id |-> r[1], val |-> None] ELSE None
    BY <1>0, <2>2, MountsFacts
  <2>4. r[1] \in Lists => loading /\ r[1] = route[1] /\ y = 0 /\ target = None /\ shown' = None
    BY <1>0, <1>2, <2>2, <2>3
  <2>5. PageInv'
    BY <1>0, <1>2, <2>1, <2>2, <2>4 DEF Where, PageInv, Private, scroll
  <2>6. ASSUME NEW k \in Lists \ clobbered' PROVE KeptInv(k)'
    <3>1. KeptInv(k)
      BY <2>1, <2>6 DEF Where, ScrollInv, scroll
    <3>2. route[1] # k \/ target = None
      BY <1>0, <1>2
    <3> QED
      BY <2>1, <2>2, <2>4, <3>1, <3>2 DEF KeptInv, scroll
  <2> QED
    BY <2>3, <2>5, <2>6 DEF Where, ScrollInv
<1>3. CASE ~l /\ ~u
  <2> DEFINE r == <<"login", None>>
  <2>1. /\ route' = r /\ Mounts(r, call) /\ r[1] = "login"
        /\ IF Private THEN Scrolls("login", FALSE) ELSE UNCHANGED scroll
    BY <1>3 DEF Becomes
  <2> HIDE DEF r
  <2>2. /\ CallInv' /\ shown' = IF r[1] \in cached THEN [id |-> r[1], val |-> None] ELSE None
    BY <1>0, <2>1, MountsFacts
  <2>3. CASE Private
    <3>1. /\ ScrollInv'
          /\ y' \in Nat /\ saved' \in [Lists -> Nat] /\ put' \in [Lists -> Nat]
          /\ target' \in Nat \cup {None}
      BY <1>0, <2>1, <2>2, <2>3, ScrollsFacts DEF Where
    <3>2. PageInv'
      BY <1>0, <1>3, <2>1, <3>1 DEF PageInv
    <3> QED
      BY <2>2, <3>1, <3>2 DEF Where
  <2>4. CASE ~Private
    <3>1. UNCHANGED scroll
      BY <2>1, <2>4
    <3>2. PageInv'
      BY <1>0, <1>3, <2>1, <3>1 DEF Where, PageInv, scroll
    <3>3. ASSUME NEW k \in Lists \ clobbered' PROVE KeptInv(k)'
      <4>1. KeptInv(k)
        BY <3>1, <3>3 DEF Where, ScrollInv, scroll
      <4>2. route[1] # k \/ target = None
        BY <1>0, <2>4
      <4> QED
        BY <1>0, <2>1, <3>1, <4>1, <4>2 DEF KeptInv, scroll
    <3> QED
      BY <2>2, <3>2, <3>3 DEF Where, ScrollInv
  <2> QED
    BY <2>3, <2>4
<1> QED
  BY <1>1, <1>2, <1>3

\* A list gets its content, or fills its cache after it was left.
LEMMA ListedFacts ==
    ASSUME Where, NEW i \in Slots, Listed(i)
    PROVE  Where'
<1> DEFINE c == call[i]
<1>1. /\ c.do = "list" /\ c.id \in Lists /\ (c.here => c.id = route[1])
      /\ cached' = (IF c.at = "told" THEN cached \cup {c.id} ELSE cached)
      /\ call' = Done(i) /\ route' = route /\ user' = user /\ loading' = loading
  BY DEF Where, CallInv, CallOf, Listed, identity, position
<1>2. ~loading
  BY <1>1 DEF Where, PageInv, Idle
<1>3. CallInv'
  BY <1>1, DoneFacts DEF Where, CallInv, Calls
<1>4. cached' \subseteq Lists
  BY <1>1 DEF Where, PageInv
<1>5. CASE c.here /\ c.at = "told" /\ shown = None
  <2>1. shown' = [id |-> c.id, val |-> None] /\ Appears(c.id) /\ route[1] = c.id
    BY <1>1, <1>5 DEF Listed
  <2>2. shown' # None /\ y = 0 /\ target = None /\ saved \in [Lists -> Nat] /\ put \in [Lists -> Nat]
    BY <1>1, <1>5, <2>1, NoneFacts DEF Where, PageInv
  <2>3. /\ target' = IF pop /\ saved[c.id] > 0 THEN saved[c.id] ELSE None
        /\ put' = IF pop /\ saved[c.id] > 0 THEN put ELSE [put EXCEPT ![c.id] = y]
        /\ clobbered' = IF ~pop /\ saved[c.id] # 0 THEN clobbered \cup {c.id} ELSE clobbered
        /\ y' = y /\ saved' = saved
    BY <2>1 DEF Appears
  <2>4. PageInv'
    BY <1>1, <1>2, <1>4, <2>2, <2>3 DEF Where, PageInv, Private
  <2>5. ASSUME NEW l \in Lists \ clobbered' PROVE KeptInv(l)'
    <3>1. l \notin clobbered /\ KeptInv(l)
      BY <2>3 DEF Where, ScrollInv
    <3>2. saved[l] = put[l]
      BY <2>2, <3>1 DEF KeptInv
    <3>3. CASE l # c.id
      BY <1>1, <2>1, <2>3, <3>2, <3>3 DEF KeptInv
    <3>4. CASE l = c.id /\ pop /\ saved[c.id] > 0
      <4>1. target' = saved[l] /\ target' # None /\ put' = put
        BY <2>2, <2>3, <3>4, NoneFacts
      <4> QED
        BY <1>1, <2>1, <3>2, <3>4, <4>1 DEF KeptInv
    <3>5. CASE l = c.id /\ ~(pop /\ saved[c.id] > 0)
      <4>1. target' = None /\ put'[l] = 0 /\ saved'[l] = 0 /\ y' = 0
        BY <2>2, <2>3, <3>5
      <4> QED
        BY <4>1 DEF KeptInv
    <3> QED
      BY <3>3, <3>4, <3>5
  <2> QED
    BY <1>3, <2>4, <2>5 DEF Where, ScrollInv
<1>6. CASE ~(c.here /\ c.at = "told" /\ shown = None)
  <2>1. shown' = shown /\ UNCHANGED scroll
    BY <1>6 DEF Listed
  <2>2. PageInv'
    BY <1>1, <1>2, <1>4, <2>1 DEF Where, PageInv, Private, scroll
  <2> QED
    BY <1>1, <1>3, <2>1, <2>2 DEF Where, ScrollInv, KeptInv, scroll
<1> QED
  BY <1>5, <1>6

\* The user scrolls, or the position of a Back is applied.
LEMMA ScrollFacts ==
    ASSUME Where, UserScrolls \/ Applies
    PROVE  Where'
<1>0. /\ route[1] \in Lists /\ shown # None /\ Private /\ route' = route
      /\ user' = user /\ loading' = loading /\ shown' = shown /\ cached' = cached /\ call' = call
  BY DEF UserScrolls, Applies, OnList, identity, position, display
<1>1. /\ y \in Nat /\ saved \in [Lists -> Nat] /\ put \in [Lists -> Nat]
      /\ Extent \in [Lists -> Nat] /\ ~loading
  BY <1>0, ExtentAssumption DEF Where, PageInv, Private
<1>2. PICK p \in Nat :
        /\ ScrollsTo(route[1], p)
        /\ target' \in {target, None}
        /\ clobbered' = IF target' = None THEN clobbered \ {route[1]} ELSE clobbered \cup {route[1]}
  <2>1. CASE UserScrolls
    <3>1. PICK p \in (0 .. Extent[route[1]]) \ {y} : ScrollsTo(route[1], p)
      BY <2>1 DEF UserScrolls
    <3>2. p \in Nat
      BY <1>0, <1>1, <3>1
    <3>3. /\ target' = target
          /\ clobbered' = IF target = None THEN clobbered \ {route[1]} ELSE clobbered \cup {route[1]}
      BY <2>1 DEF UserScrolls
    <3> QED
      BY <3>1, <3>2, <3>3
  <2>2. CASE Applies
    <3>1. /\ target # None /\ ScrollsTo(route[1], Least(target, Extent[route[1]]))
          /\ target' = None /\ clobbered' = clobbered \ {route[1]}
      BY <2>2 DEF Applies
    <3>2. Least(target, Extent[route[1]]) \in Nat
      BY <1>0, <1>1, <3>1 DEF Where, PageInv, Least
    <3> QED
      BY <3>1, <3>2
  <2> QED
    BY <2>1, <2>2
<1>3. /\ y' = p /\ saved' = [saved EXCEPT ![route[1]] = p] /\ put' = [put EXCEPT ![route[1]] = p]
  BY <1>2 DEF ScrollsTo
<1>4. PageInv'
  BY <1>0, <1>1, <1>2, <1>3 DEF Where, PageInv, Private
<1>5. ASSUME NEW l \in Lists \ clobbered' PROVE KeptInv(l)'
  <2>1. CASE l = route[1]
    <3>1. target' = None /\ saved'[l] = p /\ put'[l] = p
      BY <1>1, <1>2, <1>3, <1>5, <2>1
    <3> QED
      BY <1>3, <3>1 DEF KeptInv
  <2>2. CASE l # route[1]
    <3>1. l \notin clobbered /\ saved'[l] = saved[l] /\ put'[l] = put[l]
      BY <1>1, <1>2, <1>3, <1>5, <2>2
    <3>2. KeptInv(l)
      BY <1>5, <3>1 DEF Where, ScrollInv
    <3> QED
      BY <1>0, <2>2, <3>1, <3>2 DEF KeptInv
  <2> QED
    BY <2>1, <2>2
<1> QED
  BY <1>0, <1>4, <1>5 DEF Where, CallInv, ScrollInv

\* A request is sent, and the page stays.
LEMMA AsksFacts ==
    ASSUME Where, NEW c, CallOf(c, route[1]), Asks(c), ~loading,
           UNCHANGED <<user, loading, cached, scroll, route, shown>>
    PROVE  Where'
<1>1. PICK i \in Slots : call' = [call EXCEPT ![i] = c]
  BY DEF Asks
<1>2. Calls(call', route[1])
  BY <1>1, PutsFacts DEF Where, CallInv, Calls
<1>3. CallInv'
  BY <1>2 DEF Calls, CallInv
<1> QED
  BY <1>3, StillFacts DEF Where

LEMMA DoesFacts ==
    ASSUME Where, NEW c, CallOf(c, route[1]), Does(c)
    PROVE  Where'
<1>1. /\ Asks(c) /\ ~loading
      /\ UNCHANGED <<user, loading, cached, scroll, route, shown>>
  BY DEF Does, Private, identity, position
<1> QED
  BY <1>1, AsksFacts

LEMMA ActsStep ==
    ASSUME Where, \/ RemoveTrack \/ RenamePlaylist \/ DeletePlaylist \/ CreatePlaylist
                  \/ PlaylistFromTrack \/ StartStation \/ PlayAlbum \/ RadioFromHit
    PROVE  Where'
<1>0. {"edit", "delete", "create", "mix", "start", "play", "pick"} \cap {"get", "list"} = {}
  OBVIOUS
<1>1. CASE RemoveTrack \/ RenamePlaylist
  <2>1. PICK t : Does(Ask("edit", shown.id, t)) /\ route[1] = "playlist"
    BY <1>1 DEF RemoveTrack, RenamePlaylist, Edit, OnPlaylist
  <2>2. CallOf(Ask("edit", shown.id, t), route[1])
    BY <2>1, AskFacts, PagesAssumption
  <2> QED
    BY <2>1, <2>2, DoesFacts
<1>2. CASE DeletePlaylist \/ CreatePlaylist \/ PlaylistFromTrack \/ StartStation \/ PlayAlbum
  <2>1. PICK do, id, t :
             do \in {"delete", "create", "mix", "start", "play"} /\ Does(Ask(do, id, t))
    BY <1>2 DEF DeletePlaylist, CreatePlaylist, PlaylistFromTrack, StartStation, PlayAlbum
  <2>2. CallOf(Ask(do, id, t), route[1])
    BY <2>1, AskFacts
  <2> QED
    BY <2>1, <2>2, DoesFacts
<1>3. CASE RadioFromHit
  <2>1. PICK do \in {"start", "pick"} : Asks(Ask(do, None, None))
    BY <1>3 DEF RadioFromHit
  <2>2. CallOf(Ask(do, None, None), route[1])
    BY AskFacts
  <2>3. ~loading /\ UNCHANGED <<user, loading, cached, scroll, route, shown>>
    BY <1>3 DEF RadioFromHit, Private, identity, position, display
  <2> QED
    BY <2>1, <2>2, <2>3, AsksFacts
<1> QED
  BY <1>1, <1>2, <1>3

LEMMA GoesStep ==
    ASSUME Where, Follow \/ GoBack \/ Search \/ HomeTimesOut \/ GoHit \/ EnterQuery
    PROVE  Where'
<1>1. Calls(call, route[1]) /\ Private /\ UNCHANGED <<user, loading, cached>>
  BY DEF Where, CallInv, Calls, Follow, GoBack, Search, HomeTimesOut, GoHit, EnterQuery, identity
<1>2. CASE Follow \/ GoBack \/ HomeTimesOut \/ GoHit \/ EnterQuery
  <2>1. PICK r, stack, isPop : isPop \in BOOLEAN /\ Navigates(r, call, stack, isPop)
    BY <1>2 DEF Follow, GoBack, HomeTimesOut, GoHit, EnterQuery, Pushes, Replaces
  <2> QED
    BY <1>1, <2>1, NavigatesFacts
<1>3. CASE Search
  <2>1. PICK q \in Queries : /\ route[1] = "tracks" /\ route' = <<"tracks", q>>
                             /\ Stays(<<"tracks", q>>, call) /\ UNCHANGED scroll
    BY <1>3 DEF Search
  <2> DEFINE r == <<"tracks", q>>
  <2>2. route' = r /\ r[1] = route[1] /\ Sends(call, r) /\ shown' = shown
    BY <2>1 DEF Stays
  <2> HIDE DEF r
  <2>3. CallInv'
    BY <1>1, <2>2, SendsFacts DEF CallInv
  <2> QED
    BY <1>1, <2>1, <2>2, <2>3, StillFacts DEF Where, Private
<1> QED
  BY <1>2, <1>3

\* A request that is under way shows that me() was answered.
LEMMA CallsStep ==
    ASSUME Where, NEW i \in Slots, Serve(i) \/ Lose(i) \/ Answer(i)
    PROVE  Where'
<1>1. call[i].at \in {"asked", "told", "lost"}
  BY DEF Serve, Lose, Answer, Shows, Listed, Leaps, Picked, Created
<1>2. ~loading
  BY <1>1 DEF Where, PageInv, Idle
<1>3. CallInv /\ PageInv /\ ScrollInv
  BY DEF Where
<1>4. CASE Serve(i) \/ Lose(i)
  <2>1. UNCHANGED <<user, loading, cached, scroll, route, shown>>
    BY <1>4 DEF Serve, Lose, identity, position, display
  <2>2. PICK at, val : \/ call' = [call EXCEPT ![i].at = at]
                       \/ call' = [call EXCEPT ![i].at = at, ![i].val = val]
    BY <1>4 DEF Serve, Lose
  <2>3. CallInv'
    BY <1>3, <2>1, <2>2, MovesFacts
  <2> QED
    BY <1>2, <1>3, <2>1, <2>3, StillFacts
<1>5. CASE Shows(i)
  <2>1. /\ call[i].do \in {"get", "edit"} /\ call' = Done(i)
        /\ UNCHANGED <<user, loading, cached, scroll, route>>
    BY <1>5 DEF Shows, identity, position
  <2>2. shown' = shown \/ call[i].here
    BY <1>5 DEF Shows
  <2>3. shown' = shown \/ route[1] \notin Lists
    BY <1>3, <2>1, <2>2 DEF CallInv, CallOf
  <2>4. CallInv'
    BY <1>3, <2>1, DoneFacts DEF CallInv, Calls
  <2> QED
    BY <1>2, <1>3, <2>1, <2>3, <2>4, StillFacts
<1>6. CASE Listed(i)
  BY <1>6, ListedFacts
<1>7. CASE Leaps(i)
  <2>1. UNCHANGED <<user, loading, cached>> /\ Calls(Done(i), route[1])
    BY <1>3, <1>7, DoneFacts DEF Leaps, identity
  <2>2. CASE \E r, stack : Private /\ Navigates(r, Done(i), stack, FALSE)
    BY <2>1, <2>2, NavigatesFacts
  <2>3. CASE call' = Done(i) /\ UNCHANGED <<route, shown, scroll>>
    <3>1. CallInv'
      BY <2>1, <2>3 DEF CallInv, Calls
    <3> QED
      BY <1>2, <1>3, <2>1, <2>3, <3>1, StillFacts
  <2> QED
    BY <1>7, <2>2, <2>3 DEF Leaps, Replaces, Pushes, position
<1>8. CASE Picked(i) \/ Created(i)
  <2>1. UNCHANGED <<user, loading, cached, scroll, route, shown>>
    BY <1>8 DEF Picked, Created, identity, position, display
  <2>2. PICK do, id, item :
        /\ do \in {"start", "add"}
        /\ \/ call' = [call EXCEPT ![i] = Ask(do, id, item)]
           \/ call' = [call EXCEPT ![i] = Idle]
    BY <1>8 DEF Picked, Created
  <2>3. CallOf(Ask(do, id, item), route[1]) /\ CallOf(Idle, route[1])
    BY <2>2, AskFacts, IdleFacts
  <2>4. Calls(call', route[1])
    BY <1>3, <2>2, <2>3, PutsFacts DEF CallInv, Calls
  <2>5. CallInv'
    BY <2>1, <2>4 DEF CallInv, Calls
  <2> QED
    BY <1>2, <1>3, <2>1, <2>5, StillFacts
<1> QED
  BY <1>4, <1>5, <1>6, <1>7, <1>8 DEF Answer

LEMMA WhereStep ==
    ASSUME Where, AuthInv, [Next]_vars
    PROVE  Where'
<1>1. CASE Follow \/ GoBack \/ Search \/ HomeTimesOut \/ GoHit \/ EnterQuery
  BY <1>1, GoesStep
<1>2. CASE UserScrolls \/ Applies
  BY <1>2, ScrollFacts
<1>3. CASE \/ RemoveTrack \/ RenamePlaylist \/ DeletePlaylist \/ CreatePlaylist
           \/ PlaylistFromTrack \/ StartStation \/ PlayAlbum \/ RadioFromHit
  BY <1>3, ActsStep
<1>4. CASE \E i \in Slots : Serve(i) \/ Lose(i) \/ Answer(i)
  BY <1>4, CallsStep
<1>5. CASE \/ Type \/ ServeMe \/ Login \/ Logout \/ ServeForm
           \/ (\E r \in suggest : Suggest(r)) \/ UNCHANGED vars
  <2>1. UNCHANGED <<user, loading, cached, scroll, route, shown, call>>
    BY <1>5 DEF Type, ServeMe, Login, Logout, ServeForm, Suggest, vars, identity, position, display
  <2> QED
    BY <2>1, SameFacts
<1>6. CASE Refreshed
  <2>1. UNCHANGED cached /\ Becomes(auth.me = "in", FALSE)
    BY <1>6 DEF Refreshed
  <2> QED
    BY <2>1, BecomesFacts
<1>7. CASE FormAnswered
  <2>1. UNCHANGED cached
    BY <1>7 DEF FormAnswered
  <2>2. CASE auth.form # "refused"
    <3>1. PICK u \in BOOLEAN : Becomes(u, loading)
      BY <1>7, <2>2 DEF FormAnswered
    <3> QED
      BY <2>1, <3>1, BecomesFacts
  <2>3. CASE auth.form = "refused"
    <3>1. UNCHANGED <<user, loading, position, shown, scroll, call>>
      BY <1>7, <2>3 DEF FormAnswered
    <3>2. UNCHANGED <<user, loading, cached, scroll, route, shown, call>>
      BY <2>1, <3>1 DEF position
    <3> QED
      BY <3>2, SameFacts
  <2> QED
    BY <2>2, <2>3
<1> QED
  BY <1>1, <1>2, <1>3, <1>4, <1>5, <1>6, <1>7 DEF Next

-----------------------------------------------------------------------------
(* What a request is about, and where the user may be.                     *)

TypedOf(c) ==
    /\ c.do \in {"create", "mix"} /\ c.at = "told" => c.val \in Ids
    /\ c.do = "add" => c.id \in Ids
    /\ c.do \in {"mix", "add"} => c.item \in Items
    /\ c.do \in {"get", "edit"} /\ c.at = "told" => c.val \in (SUBSET Items) \cup {None}

Typed(calls) == \A i \in Slots : TypedOf(calls[i])

ContentOK == content \in [Ids -> (SUBSET Items) \cup {None, Gone}]

RouteInv == route \in Routes /\ back \in Seq(Routes)

LEMMA TypedAsk ==
    ASSUME NEW do, NEW id, NEW item, do = "add" => id \in Ids,
           do \in {"mix", "add"} => item \in Items
    PROVE  TypedOf(Ask(do, id, item))
  BY DEF TypedOf, Ask

LEMMA TypedIdle == TypedOf(Idle)
  BY DEF TypedOf, Idle

LEMMA TypedPuts ==
    ASSUME NEW calls, NEW page, Calls(calls, page), Typed(calls), NEW i \in Slots,
           NEW c, TypedOf(c)
    PROVE  Typed([calls EXCEPT ![i] = c])
<1>1. ASSUME NEW j \in Slots PROVE TypedOf([calls EXCEPT ![i] = c][j])
  BY DEF Calls, Typed
<1> QED
  BY <1>1 DEF Typed

LEMMA TypedOrphaned ==
    ASSUME NEW calls, NEW page, Calls(calls, page), Typed(calls)
    PROVE  Typed(Orphaned(calls))
<1>1. ASSUME NEW i \in Slots PROVE TypedOf(Orphaned(calls)[i])
  <2>1. CASE calls[i].do \in {"get", "stations"}
    BY <2>1, TypedIdle DEF Orphaned
  <2>2. CASE calls[i].do \notin {"get", "stations"}
    <3> DEFINE c == calls[i]
    <3>1. Orphaned(calls)[i] = [c EXCEPT !.here = FALSE]
      BY <2>2 DEF Orphaned
    <3>2. /\ c = [do |-> c.do, id |-> c.id, item |-> c.item, at |-> c.at, val |-> c.val,
                  here |-> c.here]
          /\ TypedOf(c)
      BY DEF Calls, CallOf, Typed
    <3> HIDE DEF c
    <3> QED
      BY <3>1, <3>2 DEF TypedOf
  <2> QED
    BY <2>1, <2>2
<1> QED
  BY <1>1 DEF Typed

LEMMA TypedSends ==
    ASSUME NEW calls, NEW page, Calls(calls, page), Typed(calls), NEW r, Sends(calls, r)
    PROVE  Typed(call')
<1>1. CASE Effects(r) = {}
  BY <1>1 DEF Sends
<1>2. CASE Effects(r) # {}
  <2>1. PICK i \in Slots, c \in Effects(r) : call' = [calls EXCEPT ![i] = c]
    BY <1>2 DEF Sends
  <2>2. PICK do, id, item : c = Ask(do, id, item) /\ do \notin {"add", "mix"}
    BY DEF Effects
  <2>3. TypedOf(c)
    BY <2>2, TypedAsk
  <2> QED
    BY <2>1, <2>3, TypedPuts
<1> QED
  BY <1>1, <1>2

LEMMA TypedNavigates ==
    ASSUME NEW calls, Calls(calls, route[1]), Typed(calls),
           NEW r, NEW stack, NEW isPop, Navigates(r, calls, stack, isPop)
    PROVE  Typed(call')
<1>1. Calls(Orphaned(calls), r[1]) /\ Typed(Orphaned(calls))
  BY OrphanedFacts, TypedOrphaned
<1> QED
  BY <1>1, TypedSends DEF Navigates, Stays, Mounts

LEMMA TypedBecomes ==
    ASSUME CallInv, Typed(call), NEW u, NEW l, Becomes(u, l)
    PROVE  Typed(call')
<1>1. Calls(call, route[1])
  BY DEF CallInv, Calls
<1>2. Calls(Orphaned(call), "login") /\ Typed(Orphaned(call))
  BY <1>1, OrphanedFacts, TypedOrphaned
<1>3. CASE call' = call
  BY <1>3 DEF Typed
<1>4. CASE \E r : Mounts(r, call)
  BY <1>2, <1>4, TypedSends DEF Mounts
<1> QED
  BY <1>3, <1>4 DEF Becomes

\* A call whose answer came, or was lost, is about what it was about.
Moved(i, at, val) ==
    \/ call' = [call EXCEPT ![i].at = at] /\ val = call[i].val
    \/ call' = [call EXCEPT ![i].at = at, ![i].val = val]

LEMMA MovedFacts ==
    ASSUME CallInv, NEW i \in Slots, NEW at, NEW val, Moved(i, at, val)
    PROVE  /\ \A j \in Slots \ {i} : call'[j] = call[j]
           /\ call'[i] = [do |-> call[i].do, id |-> call[i].id, item |-> call[i].item, at |-> at,
                          val |-> val, here |-> call[i].here]
<1> DEFINE c == call[i]
           moved == [call EXCEPT ![i].at = at]
<1>1. c = [do |-> c.do, id |-> c.id, item |-> c.item, at |-> c.at, val |-> c.val, here |-> c.here]
  BY DEF CallInv, CallOf
<1>2. /\ moved = [j \in Slots |-> moved[j]] /\ moved[i] = [c EXCEPT !.at = at]
      /\ \A j \in Slots \ {i} : moved[j] = call[j]
  BY DEF CallInv
<1>3. moved[i] = [do |-> c.do, id |-> c.id, item |-> c.item, at |-> at, val |-> c.val,
                  here |-> c.here]
  <2> HIDE DEF c, moved
  <2> QED
    BY <1>1, <1>2
<1>4. CASE call' = moved /\ val = c.val
  BY <1>2, <1>3, <1>4
<1>5. CASE call' = [call EXCEPT ![i].at = at, ![i].val = val]
  <2>1. call' = [moved EXCEPT ![i].val = val]
    BY <1>5
  <2>2. call'[i] = [moved[i] EXCEPT !.val = val] /\ \A j \in Slots \ {i} : call'[j] = moved[j]
    <3> HIDE DEF moved
    <3> QED
      BY <1>2, <2>1
  <2> HIDE DEF c, moved
  <2>3. call'[i] = [do |-> c.do, id |-> c.id, item |-> c.item, at |-> at, val |-> val,
                    here |-> c.here]
    BY <1>3, <2>2
  <2> QED
    BY <1>2, <2>2, <2>3 DEF c
<1> QED
  BY <1>4, <1>5 DEF Moved

\* What the server answers, and what that does to the playlists.
Served(i, at, val) ==
    LET c == call[i]
        id == c.id
    IN  /\ at \in {"told", "lost"} /\ Moved(i, at, val)
        /\ \/ content' = content
           \/ /\ c.do \in {"edit", "add"} /\ id \in Ids /\ content[id] \notin {None, Gone}
              /\ at = "told" /\ val = content'[id] /\ content'[id] \in SUBSET (Items \cup {c.item})
              /\ content' = [content EXCEPT ![id] = val]
              /\ c.do = "edit" => val \in SUBSET Items
           \/ /\ c.do = "delete" /\ id \in Ids /\ content[id] # None
              /\ content' = [content EXCEPT ![id] = Gone]
           \/ /\ c.do \in {"create", "mix"} /\ val \in Ids /\ content[val] = None
              /\ content' = [content EXCEPT ![val] = {}]
        /\ at = "told" => /\ c.do \in {"create", "mix"} => val \in Ids
                          /\ c.do \in {"get", "edit"} => val \in (SUBSET Items) \cup {None}
                          /\ c.do = "edit" => id \in Ids /\ val = content'[id] /\ val # None
                          /\ c.do = "get" /\ route[1] = "playlist" =>
                                id \in Ids /\ val = content[id] /\ val # None

LEMMA ServeFacts ==
    ASSUME CallInv, ContentOK, NEW i \in Slots, Serve(i)
    PROVE  \E at, val : Served(i, at, val)
<1> DEFINE c == call[i]
           tracks == IF c.id \in Ids THEN content[c.id] ELSE None
           none == tracks \in {None, Gone}
           Tells(val) == call' = [call EXCEPT ![i].at = "told", ![i].val = val]
           Fails == call' = [call EXCEPT ![i].at = "lost"]
<1>0. /\ ~none => c.id \in Ids /\ tracks = content[c.id] /\ tracks \in SUBSET Items
      /\ \A s \in SUBSET Items : s # None /\ s # Gone
  BY NoneFacts DEF ContentOK
<1>1. CASE c.do = "get"
  <2>1. CASE route[1] = "playlist" /\ none
    BY <1>1, <2>1 DEF Serve, Served, Moved
  <2>2. CASE route[1] = "playlist" /\ ~none
    <3>1. Tells(tracks) /\ content' = content
      BY <1>1, <2>2 DEF Serve, Served, Moved
    <3> HIDE DEF none
    <3> QED
      BY <1>0, <1>1, <2>2, <3>1 DEF Served, Moved
  <2>3. CASE route[1] # "playlist"
    BY <1>1, <2>3 DEF Serve, Served, Moved
  <2> QED
    BY <2>1, <2>2, <2>3
<1>2. CASE c.do = "edit"
  <2>1. CASE none \/ c.item \notin tracks \cup {None}
    BY <1>2, <2>1 DEF Serve, Served, Moved
  <2>2. CASE ~(none \/ c.item \notin tracks \cup {None})
    <3>1. Tells(tracks \ {c.item}) /\ content' = [content EXCEPT ![c.id] = tracks \ {c.item}]
      BY <1>2, <2>2 DEF Serve, Served, Moved
    <3>2. c.id \in Ids /\ tracks = content[c.id] /\ tracks \ {c.item} \in SUBSET Items
          /\ tracks \ {c.item} # None /\ content[c.id] \notin {None, Gone}
      BY <1>0, <2>2
    <3>3. content'[c.id] = tracks \ {c.item}
      BY <3>1, <3>2 DEF ContentOK
    <3> HIDE DEF none, tracks
    <3> QED
      BY <1>2, <3>1, <3>2, <3>3 DEF Served, Moved
  <2> QED
    BY <2>1, <2>2
<1>3. CASE c.do = "delete"
  <2>1. CASE none
    BY <1>3, <2>1 DEF Serve, Served, Moved
  <2>2. CASE ~none
    <3>1. Tells(None) /\ content' = [content EXCEPT ![c.id] = Gone]
      BY <1>3, <2>2 DEF Serve, Served, Moved
    <3> QED
      BY <1>0, <1>3, <2>2, <3>1 DEF Served, Moved
  <2> QED
    BY <2>1, <2>2
<1>4. CASE c.do = "add"
  <2>1. CASE none
    BY <1>4, <2>1 DEF Serve, Served, Moved
  <2>2. CASE ~none
    <3>1. Tells(tracks \cup {c.item}) /\ content' = [content EXCEPT ![c.id] = tracks \cup {c.item}]
      BY <1>4, <2>2 DEF Serve, Served, Moved
    <3>2. content'[c.id] = tracks \cup {c.item} /\ c.id \in Ids /\ tracks \subseteq Items
          /\ content[c.id] \notin {None, Gone}
      BY <1>0, <2>2, <3>1 DEF ContentOK
    <3> HIDE DEF none, tracks
    <3> QED
      BY <1>4, <3>1, <3>2 DEF Served, Moved
  <2> QED
    BY <2>1, <2>2
<1>5. CASE c.do \in {"create", "mix"}
  <2>1. PICK id \in Ids : content[id] = None /\ Tells(id) /\ content' = [content EXCEPT ![id] = {}]
    BY <1>5 DEF Serve, Served, Moved
  <2> QED
    BY <1>5, <2>1 DEF Served, Moved
<1>6. CASE c.do \in {"stations", "list", "start", "play", "pick"}
  <2>1. (\E val : Tells(val)) /\ content' = content
    BY <1>6 DEF Serve, Served, Moved
  <2> QED
    BY <1>6, <2>1 DEF Served, Moved
<1> QED
  BY <1>1, <1>2, <1>3, <1>4, <1>5, <1>6 DEF Serve, Served, Moved

LEMMA TypedStep ==
    ASSUME CallInv, Typed(call), ContentOK, [Next]_vars
    PROVE  Typed(call') /\ ContentOK'
<1>0. Calls(call, route[1])
  BY DEF CallInv, Calls
<1>1. CASE \/ UserScrolls \/ Applies \/ Type \/ ServeMe \/ Login \/ Logout \/ ServeForm
           \/ (\E r \in suggest : Suggest(r)) \/ UNCHANGED vars
  <2>1. call' = call /\ content' = content
    BY <1>1 DEF UserScrolls, Applies, Type, ServeMe, Login, Logout, ServeForm, Suggest, vars, others
  <2> QED
    BY <2>1 DEF Typed, ContentOK
<1>2. CASE Follow \/ GoBack \/ HomeTimesOut \/ GoHit \/ EnterQuery
  <2>1. PICK r, stack, isPop : Navigates(r, call, stack, isPop)
    BY <1>2 DEF Follow, GoBack, HomeTimesOut, GoHit, EnterQuery, Pushes, Replaces
  <2>2. content' = content
    BY <1>2 DEF Follow, GoBack, HomeTimesOut, GoHit, EnterQuery, others
  <2> QED
    BY <1>0, <2>1, <2>2, TypedNavigates DEF ContentOK
<1>3. CASE Search
  <2>1. (\E r : Sends(call, r)) /\ content' = content
    BY <1>3 DEF Search, Stays, others
  <2> QED
    BY <1>0, <2>1, TypedSends DEF ContentOK
<1>4. CASE \/ RemoveTrack \/ RenamePlaylist \/ DeletePlaylist \/ CreatePlaylist
           \/ PlaylistFromTrack \/ StartStation \/ PlayAlbum \/ RadioFromHit
  <2>1. PICK do, id, t : Asks(Ask(do, id, t)) /\ do # "add" /\ (do = "mix" => t \in Items)
    <3>1. CASE RemoveTrack \/ RenamePlaylist
      <4>1. PICK t : Asks(Ask("edit", shown.id, t))
        BY <3>1 DEF RemoveTrack, RenamePlaylist, Edit, Does
      <4> QED
        BY <4>1
    <3>2. CASE PlaylistFromTrack
      <4>1. PICK t \in Items : Asks(Ask("mix", None, t))
        BY <3>2 DEF PlaylistFromTrack, Does
      <4> QED
        BY <4>1
    <3>3. CASE DeletePlaylist \/ CreatePlaylist \/ StartStation \/ PlayAlbum
      <4>1. PICK do, id : do \in {"delete", "create", "start", "play"} /\ Asks(Ask(do, id, None))
        BY <3>3 DEF DeletePlaylist, CreatePlaylist, StartStation, PlayAlbum, Does
      <4> QED
        BY <4>1
    <3>4. CASE RadioFromHit
      <4>1. PICK do \in {"start", "pick"} : Asks(Ask(do, None, None))
        BY <3>4 DEF RadioFromHit
      <4> QED
        BY <4>1
    <3> QED
      BY <1>4, <3>1, <3>2, <3>3, <3>4
  <2>2. TypedOf(Ask(do, id, t))
    BY <2>1, TypedAsk
  <2>3. Typed(call')
    <3>1. PICK i \in Slots : call' = [call EXCEPT ![i] = Ask(do, id, t)]
      BY <2>1 DEF Asks
    <3> QED
      BY <1>0, <2>2, <3>1, TypedPuts
  <2>4. content' = content
    BY <1>4 DEF RemoveTrack, RenamePlaylist, DeletePlaylist, CreatePlaylist, PlaylistFromTrack,
                StartStation, PlayAlbum, RadioFromHit, Edit, Does
  <2> QED
    BY <2>3, <2>4 DEF ContentOK
<1>5. ASSUME NEW i \in Slots, Serve(i) PROVE Typed(call') /\ ContentOK'
  <2> DEFINE c == call[i]
  <2>0. PICK at, val : Served(i, at, val)
    BY <1>5, ServeFacts
  <2>1. /\ Moved(i, at, val)
        /\ \/ content' = content
           \/ /\ c.do \in {"edit", "add"} /\ val \in SUBSET (Items \cup {c.item})
              /\ content' = [content EXCEPT ![c.id] = val]
              /\ c.do = "edit" => val \in SUBSET Items
           \/ content' = [content EXCEPT ![c.id] = Gone]
           \/ content' = [content EXCEPT ![val] = {}]
        /\ at = "told" => /\ c.do \in {"create", "mix"} => val \in Ids
                          /\ c.do \in {"get", "edit"} => val \in (SUBSET Items) \cup {None}
        /\ at \in {"told", "lost"}
    BY <2>0 DEF Served
  <2>2. /\ \A j \in Slots \ {i} : call'[j] = call[j]
        /\ call'[i] = [do |-> c.do, id |-> c.id, item |-> c.item, at |-> at, val |-> val,
                       here |-> c.here]
    BY <2>1, MovedFacts
  <2>3. TypedOf(c)
    BY DEF Typed
  <2>4. TypedOf(call'[i])
    <3> HIDE DEF c
    <3> QED
      BY <2>1, <2>2, <2>3 DEF TypedOf
  <2>5. Typed(call')
    BY <2>2, <2>4 DEF Typed
  <2>6. ContentOK'
    <3>1. c.do = "add" => c.item \in Items
      BY <2>3 DEF TypedOf
    <3> HIDE DEF c
    <3> QED
      BY <2>1, <3>1 DEF ContentOK
  <2> QED
    BY <2>5, <2>6
<1>6. ASSUME NEW i \in Slots, Lose(i) PROVE Typed(call') /\ ContentOK'
  <2>1. content' = content /\ Moved(i, "lost", None)
    BY <1>6 DEF Lose, others, Moved
  <2>2. /\ \A j \in Slots \ {i} : call'[j] = call[j]
        /\ call'[i] = [do |-> call[i].do, id |-> call[i].id, item |-> call[i].item, at |-> "lost",
                       val |-> None, here |-> call[i].here]
    BY <2>1, MovedFacts
  <2>3. TypedOf(call'[i])
    BY <2>2 DEF Typed, TypedOf
  <2> QED
    BY <2>1, <2>2, <2>3 DEF Typed, ContentOK
<1>7. ASSUME NEW i \in Slots, Answer(i) PROVE Typed(call') /\ ContentOK'
  <2>1. content' = content
    BY <1>7 DEF Answer, Shows, Listed, Leaps, Picked, Created, others
  <2>2. Calls(Done(i), route[1]) /\ Typed(Done(i))
    BY <1>0, DoneFacts, TypedIdle, TypedPuts DEF Done
  <2>3. CASE call' = Done(i)
    BY <2>1, <2>2, <2>3 DEF ContentOK
  <2>4. CASE \E r, stack : Navigates(r, Done(i), stack, FALSE)
    BY <2>1, <2>2, <2>4, TypedNavigates DEF ContentOK
  <2>5. CASE Picked(i) \/ Created(i)
    <3>1. CASE call' = [call EXCEPT ![i] = Idle]
      BY <1>0, <2>1, <3>1, TypedIdle, TypedPuts DEF ContentOK
    <3>2. CASE call' = [call EXCEPT ![i] = Ask("start", None, None)]
      <4>1. TypedOf(Ask("start", None, None))
        BY TypedAsk
      <4> QED
        BY <1>0, <2>1, <3>2, <4>1, TypedPuts DEF ContentOK
    <3>3. CASE /\ call[i].do = "mix" /\ call[i].at = "told"
               /\ call' = [call EXCEPT ![i] = Ask("add", call[i].val, call[i].item)]
      <4>1. TypedOf(Ask("add", call[i].val, call[i].item))
        BY <3>3, TypedAsk DEF Typed, TypedOf
      <4> QED
        BY <1>0, <2>1, <3>3, <4>1, TypedPuts DEF ContentOK
    <3> QED
      BY <2>5, <3>1, <3>2, <3>3 DEF Picked, Created, CallInv
  <2> QED
    BY <1>7, <2>3, <2>4, <2>5 DEF Answer, Shows, Listed, Leaps, Replaces, Pushes
<1>8. CASE Refreshed \/ FormAnswered
  <2>1. content' = content
    BY <1>8 DEF Refreshed, FormAnswered, others
  <2>2. CASE call' = call
    BY <2>1, <2>2 DEF Typed, ContentOK
  <2>3. CASE \E u, l : Becomes(u, l)
    BY <2>1, <2>3, TypedBecomes DEF ContentOK
  <2> QED
    BY <1>8, <2>2, <2>3 DEF Refreshed, FormAnswered
<1> QED
  BY <1>1, <1>2, <1>3, <1>4, <1>5, <1>6, <1>7, <1>8 DEF Next

LEMMA PlainRoutes ==
    /\ \A p \in Plain : <<p, None>> \in Routes
    /\ \A l \in Lists : <<l, None>> \in Routes
    /\ \A d \in Details, id \in Ids : <<d, id>> \in Routes
    /\ \A q \in Searches : <<"tracks", q>> \in Routes
    /\ Plain \cap (Details \cup {"tracks"} \cup Lists) = {}
    /\ Lists \cap (Details \cup {"tracks"}) = {} /\ "tracks" \notin Details
  BY PagesAssumption DEF Routes, Plain

\* The page a detail route is about is one of the ids or searches.
LEMMA RouteIds ==
    ASSUME NEW r \in Routes, r[1] \in Details \cup {"tracks"}
    PROVE  r[2] \in Ids \cup Searches
  BY PlainRoutes DEF Routes

LEMMA RouteStep ==
    ASSUME Typed(call), RouteInv, [Next]_vars
    PROVE  RouteInv'
<1>0. /\ route \in Routes /\ back \in Seq(Routes)
      /\ {"all"} \subseteq Searches /\ Queries \subseteq Searches
  BY DEF RouteInv, Searches
<1>1. Entry(route) \in Routes /\ Append(back, Entry(route)) \in Seq(Routes)
  <2>1. Entry(route) \in Routes
    BY <1>0, PlainRoutes DEF Entry
  <2> QED
    BY <1>0, <2>1
<1>2. ASSUME NEW r \in Routes, NEW calls, NEW isPop,
             Navigates(r, calls, Append(back, Entry(route)), isPop)
                \/ Navigates(r, calls, back, isPop)
      PROVE  RouteInv'
  BY <1>0, <1>1, <1>2 DEF Navigates, RouteInv
<1>3. CASE Follow
  <2>1. PICK r \in Links \cup (Lists \X {None}) \cup (Details \X Ids) \cup {<<"tracks", "all">>} :
           Pushes(r, call)
    BY <1>3 DEF Follow
  <2>2. r \in Routes
    BY <1>0 DEF Links, Routes
  <2> QED
    BY <1>2, <2>1, <2>2 DEF Pushes
<1>4. CASE GoBack
  <2>1. /\ back # <<>> /\ route' = back[Len(back)] /\ back' = SubSeq(back, 1, Len(back) - 1)
    BY <1>4 DEF GoBack, Navigates
  <2> QED
    BY <1>0, <2>1 DEF RouteInv
<1>5. CASE HomeTimesOut \/ EnterQuery
  <2>1. <<"now-playing", None>> \in Routes /\ <<"tracks", "all">> \in Routes
    BY <1>0, PlainRoutes DEF Plain
  <2> QED
    BY <1>2, <1>5, <2>1 DEF HomeTimesOut, EnterQuery, Pushes, Replaces
<1>6. CASE GoHit
  <2>1. PICK r \in (Details \ {"playlist"}) \X Ids : Pushes(r, call)
    BY <1>6 DEF GoHit
  <2>2. r \in Routes
    BY DEF Routes
  <2> QED
    BY <1>2, <2>1, <2>2 DEF Pushes
<1>7. CASE Search
  BY <1>0, <1>7, PlainRoutes DEF Search, RouteInv
<1>8. ASSUME NEW i \in Slots, Leaps(i) PROVE RouteInv'
  <2>1. CASE UNCHANGED position
    BY <2>1 DEF position, RouteInv
  <2>2. CASE /\ call[i].at = "told" \/ call[i].do = "stations"
             /\ \/ Navigates(Leads(call[i]), Done(i), back, FALSE)
                \/ Navigates(Leads(call[i]), Done(i), Append(back, Entry(route)), FALSE)
    <3>1. TypedOf(call[i])
      BY DEF Typed
    <3>2. Leads(call[i]) \in Routes
      BY <2>2, <3>1, PlainRoutes, PagesAssumption DEF Leads, TypedOf, Plain
    <3> QED
      BY <1>2, <2>2, <3>2
  <2> QED
    BY <1>8, <2>1, <2>2 DEF Leaps, Pushes, Replaces
<1>9. ASSUME NEW u, NEW l, Becomes(u, l) PROVE RouteInv'
  <2>1. back' = back /\ route' \in {route, <<"now-playing", None>>, <<"login", None>>}
    BY <1>9 DEF Becomes, position
  <2>2. {<<"now-playing", None>>, <<"login", None>>} \subseteq Routes
    BY PlainRoutes DEF Plain
  <2> QED
    BY <1>0, <2>1, <2>2 DEF RouteInv
<1>10. CASE UNCHANGED position
  BY <1>10 DEF position, RouteInv
<1>11. \/ UNCHANGED position \/ Follow \/ GoBack \/ HomeTimesOut \/ EnterQuery \/ GoHit \/ Search
       \/ (\E i \in Slots : Leaps(i)) \/ \E u, l : Becomes(u, l)
  <2>1. CASE \/ RemoveTrack \/ RenamePlaylist \/ DeletePlaylist \/ CreatePlaylist
             \/ PlaylistFromTrack \/ StartStation \/ PlayAlbum
    BY <2>1 DEF RemoveTrack, RenamePlaylist, DeletePlaylist, CreatePlaylist, PlaylistFromTrack,
                StartStation, PlayAlbum, Edit, Does
  <2>2. CASE \/ UserScrolls \/ Applies \/ Type \/ RadioFromHit \/ ServeMe \/ Login \/ Logout
             \/ ServeForm \/ (\E r \in suggest : Suggest(r)) \/ UNCHANGED vars
    BY <2>2 DEF UserScrolls, Applies, Type, RadioFromHit, ServeMe, Login, Logout, ServeForm,
                Suggest, vars
  <2>3. CASE \E i \in Slots : Serve(i) \/ Lose(i) \/ Shows(i) \/ Listed(i) \/ Picked(i) \/ Created(i)
    BY <2>3 DEF Serve, Lose, Shows, Listed, Picked, Created
  <2>4. CASE Refreshed \/ FormAnswered
    BY <2>4 DEF Refreshed, FormAnswered
  <2> QED
    BY <2>1, <2>2, <2>3, <2>4 DEF Next, Answer
<1> QED
  BY <1>3, <1>4, <1>5, <1>6, <1>7, <1>8, <1>9, <1>10, <1>11

-----------------------------------------------------------------------------
(* What a detail page shows.                                               *)

\* What is shown of a playlist is what is stored, until it is deleted.
Current(id, val) ==
    id \in Ids /\ content[id] # None /\ (content[id] # Gone => val = content[id])

OnDetail(r) == r[1] \in Details \cup {"tracks"}

\* On a detail page without overlap one request at most is about what is shown;
\* it is for the id of the route, and its answer will show what is stored.
ShownInv ==
    Private /\ OnDetail(route) /\ ~overlap =>
    /\ \A i, j \in Slots : AboutShown(call[i]) /\ AboutShown(call[j]) => i = j
    /\ \A i \in Slots : AboutShown(call[i]) =>
          /\ call[i].do # "add" /\ call[i].here /\ call[i].id = route[2]
          /\ route[1] = "playlist" /\ call[i].at = "told" => Current(route[2], call[i].val)
    /\ (\A i \in Slots : ~AboutShown(call[i])) /\ ~failed =>
          /\ shown # None /\ shown.id = route[2]
          /\ route[1] = "playlist" => Current(route[2], shown.val)

OnlyGet(r) ==
    \E i \in Slots : /\ call'[i] = Ask("get", r[2], None)
                     /\ \A j \in Slots \ {i} : ~AboutShown(call'[j])

LEMMA AboutIdle == ~AboutShown(Idle)
  BY DEF AboutShown, Idle

LEMMA SendsShown ==
    ASSUME NEW calls, calls = [i \in Slots |-> calls[i]], \A i \in Slots : ~AboutShown(calls[i]),
           NEW r, OnDetail(r), Sends(calls, r)
    PROVE  OnlyGet(r)
<1>1. Effects(r) = {Ask("get", r[2], None)}
  BY DEF Effects, OnDetail
<1>2. PICK i \in Slots : call' = [calls EXCEPT ![i] = Ask("get", r[2], None)]
  BY <1>1 DEF Sends
<1>3. call'[i] = Ask("get", r[2], None) /\ \A j \in Slots \ {i} : call'[j] = calls[j]
  BY <1>2
<1> QED
  BY <1>3 DEF OnlyGet

LEMMA MountsShown ==
    ASSUME NEW calls, Calls(calls, route[1]), NEW r, OnDetail(r), Mounts(r, calls), ~overlap'
    PROVE  OnlyGet(r)
<1>1. /\ Sends(Orphaned(calls), r) /\ \A i \in Slots : Orphaned(calls)[i].do \notin Edits
      /\ Orphaned(calls) = [i \in Slots |-> Orphaned(calls)[i]]
  BY DEF Mounts, Orphaned
<1>2. ASSUME NEW i \in Slots PROVE ~AboutShown(Orphaned(calls)[i])
  <2>1. CASE calls[i].do \in {"get", "stations"}
    BY <2>1, AboutIdle DEF Orphaned
  <2>2. CASE calls[i].do \notin {"get", "stations"}
    <3> DEFINE c == calls[i]
    <3>1. Orphaned(calls)[i] = [c EXCEPT !.here = FALSE] /\ c.do # "get"
      BY <2>2 DEF Orphaned
    <3>2. c = [do |-> c.do, id |-> c.id, item |-> c.item, at |-> c.at, val |-> c.val,
               here |-> c.here]
      BY DEF Calls, CallOf
    <3> HIDE DEF c
    <3>3. Orphaned(calls)[i].do # "get"
      BY <3>1, <3>2
    <3> QED
      BY <1>1, <3>3 DEF AboutShown
  <2> QED
    BY <2>1, <2>2
<1> QED
  BY <1>1, <1>2, SendsShown

LEMMA FreshFacts ==
    ASSUME OnlyGet(route')
    PROVE  ShownInv'
<1>1. PICK i \in Slots : /\ call'[i] = Ask("get", route'[2], None)
                         /\ \A j \in Slots \ {i} : ~AboutShown(call'[j])
  BY DEF OnlyGet
<1>2. /\ call'[i].do = "get" /\ call'[i].here /\ call'[i].id = route'[2] /\ call'[i].at = "asked"
      /\ AboutShown(call'[i])
  BY <1>1 DEF Ask, AboutShown
<1> QED
  BY <1>1, <1>2 DEF ShownInv, AboutShown

LEMMA NavigatesShown ==
    ASSUME NEW calls, Calls(calls, route[1]), NEW r, NEW stack, NEW isPop,
           Navigates(r, calls, stack, isPop)
    PROVE  ShownInv'
<1>1. route' = r
  BY DEF Navigates
<1>2. CASE ~OnDetail(r) \/ overlap'
  BY <1>1, <1>2 DEF ShownInv, OnDetail
<1>3. CASE OnDetail(r) /\ ~overlap'
  <2>1. CASE r[1] = route[1]
    <3>1. Sends(calls, r) /\ \A i \in Slots : ~AboutShown(calls[i])
      BY <1>3, <2>1 DEF Navigates, Stays
    <3> QED
      BY <1>1, <1>3, <3>1, SendsShown, FreshFacts DEF Calls
  <2>2. CASE r[1] # route[1]
    <3>1. Mounts(r, calls)
      BY <2>2 DEF Navigates
    <3> QED
      BY <1>1, <1>3, <3>1, MountsShown, FreshFacts
  <2> QED
    BY <2>1, <2>2
<1> QED
  BY <1>2, <1>3

LEMMA BecomesShown ==
    ASSUME CallInv, ShownInv, NEW u, NEW l, Becomes(u, l), content' = content
    PROVE  ShownInv'
<1>1. user' = u /\ loading' = l /\ Calls(call, route[1])
  BY DEF Becomes, CallInv, Calls
<1>2. CASE l
  BY <1>1, <1>2 DEF ShownInv, Private
<1>3. CASE ~l /\ Private /\ u
  <2>1. UNCHANGED <<position, shown, failed, overlap, call>> /\ Private'
    BY <1>1, <1>3 DEF Becomes, Private
  <2>2. route' = route /\ shown' = shown /\ failed' = failed /\ overlap' = overlap /\ call' = call
    BY <2>1 DEF position
  <2> QED
    BY <1>3, <2>2 DEF ShownInv, OnDetail, Current, AboutShown
<1>4. CASE ~l /\ ~(Private /\ u)
  <2>1. Mounts(route', call)
    BY <1>4 DEF Becomes
  <2>2. CASE ~OnDetail(route') \/ overlap'
    BY <2>2 DEF ShownInv, OnDetail
  <2>3. CASE OnDetail(route') /\ ~overlap'
    BY <1>1, <2>1, <2>3, MountsShown, FreshFacts
  <2> QED
    BY <2>2, <2>3
<1> QED
  BY <1>2, <1>3, <1>4

\* The requests about what is shown stay as they are.
SameAbout == \A j \in Slots : AboutShown(call'[j]) \/ AboutShown(call[j]) => call'[j] = call[j]

LEMMA QuietShown ==
    ASSUME ShownInv, UNCHANGED <<user, loading, route, shown, content>>,
           overlap => overlap', failed => failed', SameAbout
    PROVE  ShownInv'
<1>1. \A j \in Slots : /\ AboutShown(call'[j]) <=> AboutShown(call[j])
                       /\ AboutShown(call'[j]) => call'[j] = call[j]
  BY DEF SameAbout
<1>2. \A id, val : Current(id, val)' <=> Current(id, val)
  BY DEF Current
<1>3. CASE ~(Private /\ OnDetail(route) /\ ~overlap')
  BY <1>3 DEF ShownInv, OnDetail, Private
<1>4. CASE Private /\ OnDetail(route) /\ ~overlap'
  BY <1>1, <1>4 DEF ShownInv, AboutShown, Current
<1> QED
  BY <1>3, <1>4

\* What the user asks for, but an edit, is not about what is shown.
LEMMA ActsShown ==
    ASSUME CallInv, ShownInv,
           \/ RemoveTrack \/ RenamePlaylist \/ DeletePlaylist \/ CreatePlaylist
           \/ PlaylistFromTrack \/ StartStation \/ PlayAlbum \/ RadioFromHit
    PROVE  ShownInv'
<1>1. CASE RemoveTrack \/ RenamePlaylist
  <2>1. PICK t : /\ OnPlaylist /\ Does(Ask("edit", shown.id, t)) /\ UNCHANGED starting
    BY <1>1 DEF RemoveTrack, RenamePlaylist, Edit, OnPlaylist
  <2> DEFINE c == Ask("edit", shown.id, t)
  <2>2. /\ c.do = "edit" /\ c.id = shown.id /\ c.here /\ c.at = "asked"
    BY DEF Ask
  <2>3. /\ ~failed /\ UNCHANGED <<user, loading, route, shown, content>>
        /\ overlap' = (overlap \/ (c.do = "edit" /\ \E i \in Slots : AboutShown(call[i])))
    BY <2>1 DEF Does, identity, position
  <2>4. PICK i \in Slots : call' = [call EXCEPT ![i] = c]
    BY <2>1 DEF Does, Asks
  <2>5. call'[i] = c /\ \A j \in Slots \ {i} : call'[j] = call[j]
    <3> HIDE DEF c
    <3> QED
      BY <2>4 DEF CallInv
  <2> HIDE DEF c
  <2>6. CASE overlap'
    BY <2>6 DEF ShownInv
  <2>7. CASE ~overlap'
    <3>1. ~overlap /\ \A j \in Slots : ~AboutShown(call[j])
      BY <2>2, <2>3, <2>7
    <3>2. Private' => Private
      BY <2>3 DEF Private
    <3>3. Private /\ OnDetail(route) => shown.id = route[2]
      BY <2>3, <3>1 DEF ShownInv
    <3>4. AboutShown(call'[i]) /\ \A j \in Slots \ {i} : ~AboutShown(call'[j])
      BY <2>2, <2>5, <3>1 DEF AboutShown, Edits
    <3> QED
      BY <2>2, <2>3, <2>5, <3>2, <3>3, <3>4 DEF ShownInv, OnDetail
  <2> QED
    BY <2>6, <2>7
<1>2. CASE \/ DeletePlaylist \/ CreatePlaylist \/ PlaylistFromTrack \/ StartStation \/ PlayAlbum
           \/ RadioFromHit
  <2>1. PICK do, t : /\ do \in {"delete", "create", "mix", "start", "play", "pick"}
                     /\ \E id : Asks(Ask(do, id, t))
    <3>1. CASE RadioFromHit
      <4>1. PICK do \in {"start", "pick"} : Asks(Ask(do, None, None))
        BY <3>1 DEF RadioFromHit
      <4> QED
        BY <4>1
    <3>2. CASE DeletePlaylist
      BY <3>2 DEF DeletePlaylist, Does
    <3>3. CASE PlaylistFromTrack
      BY <3>3 DEF PlaylistFromTrack, Does
    <3>4. CASE CreatePlaylist \/ StartStation \/ PlayAlbum
      BY <3>4 DEF CreatePlaylist, StartStation, PlayAlbum, Does
    <3> QED
      BY <1>2, <3>1, <3>2, <3>3, <3>4
  <2>2. UNCHANGED <<user, loading, route, shown, content, failed>> /\ (overlap => overlap')
    <3>1. CASE \E c : Does(c)
      BY <3>1 DEF Does, identity, position
    <3>2. CASE RadioFromHit
      BY <3>2 DEF RadioFromHit, identity, position, display
    <3> QED
      BY <1>2, <3>1, <3>2 DEF DeletePlaylist, CreatePlaylist, PlaylistFromTrack, StartStation,
                              PlayAlbum
  <2>3. PICK id, i : i \in Slots /\ call[i] = Idle /\ call' = [call EXCEPT ![i] = Ask(do, id, t)]
    BY <2>1 DEF Asks
  <2>4. ~AboutShown(Ask(do, id, t))
    BY <2>1 DEF AboutShown, Ask, Edits
  <2>5. SameAbout
    BY <2>3, <2>4, AboutIdle DEF SameAbout, CallInv
  <2> QED
    BY <2>2, <2>5, QuietShown
<1> QED
  BY <1>1, <1>2

\* A playlist stays as it was shown while only others are written, or it is deleted.
LEMMA CurrentKept ==
    ASSUME ContentOK, NEW id, NEW val, Current(id, val),
           \/ content' = content
           \/ \E d \in Ids : content' = [content EXCEPT ![d] = Gone]
           \/ \E d \in Ids : content[d] = None /\ content' = [content EXCEPT ![d] = {}]
    PROVE  Current(id, val)'
<1>1. id \in Ids /\ content[id] # None /\ (content[id] # Gone => val = content[id]) /\ None # Gone
  BY NoneFacts DEF Current
<1>2. content'[id] \in {content[id], Gone}
  BY <1>1 DEF ContentOK
<1> QED
  BY <1>1, <1>2 DEF Current

\* The server answers: what it tells is what it has stored.
LEMMA ServeShown ==
    ASSUME CallInv, ContentOK, ShownInv, NEW i \in Slots, Serve(i)
    PROVE  ShownInv'
<1> DEFINE c == call[i]
<1>1. PICK at, val : Served(i, at, val)
  BY ServeFacts
<1>2. /\ c.at = "asked" /\ at \in {"told", "lost"} /\ at # "idle"
      /\ UNCHANGED <<user, loading, route, shown, failed, overlap>>
  BY <1>1 DEF Serve, Served, identity, position, display
<1>3. /\ \A j \in Slots \ {i} : call'[j] = call[j]
      /\ call'[i].do = c.do /\ call'[i].id = c.id /\ call'[i].at = at /\ call'[i].val = val
      /\ call'[i].here = c.here
  <2>1. Moved(i, at, val)
    BY <1>1 DEF Served
  <2>2. /\ \A j \in Slots \ {i} : call'[j] = call[j]
        /\ call'[i] = [do |-> c.do, id |-> c.id, item |-> c.item, at |-> at, val |-> val,
                       here |-> c.here]
    BY <2>1, MovedFacts
  <2> QED
    BY <2>2
<1>4. \A j \in Slots : AboutShown(call'[j]) <=> AboutShown(call[j])
  BY <1>2, <1>3 DEF AboutShown
<1>5. (Private /\ OnDetail(route) /\ ~overlap)' <=> Private /\ OnDetail(route) /\ ~overlap
  BY <1>2 DEF Private, OnDetail
<1>6. SUFFICES ASSUME Private, OnDetail(route), ~overlap PROVE ShownInv'
  BY <1>5 DEF ShownInv
<1>7. /\ \A j, k \in Slots : AboutShown(call[j]) /\ AboutShown(call[k]) => j = k
      /\ \A j \in Slots : AboutShown(call[j]) =>
            /\ call[j].do # "add" /\ call[j].here /\ call[j].id = route[2]
            /\ route[1] = "playlist" /\ call[j].at = "told" => Current(route[2], call[j].val)
      /\ (\A j \in Slots : ~AboutShown(call[j])) /\ ~failed =>
            /\ shown # None /\ shown.id = route[2]
            /\ route[1] = "playlist" => Current(route[2], shown.val)
  BY <1>6 DEF ShownInv
<1>8. CASE AboutShown(c)
  <2>1. c.do \in {"get", "edit"} /\ c.here /\ c.id = route[2]
    BY <1>7, <1>8 DEF AboutShown, Edits
  <2>2. route[1] = "playlist" /\ at = "told" => Current(route[2], val)'
    <3> SUFFICES ASSUME route[1] = "playlist", at = "told" PROVE Current(route[2], val)'
      OBVIOUS
    <3>1. CASE c.do = "get"
      BY <1>1, <1>2, <2>1, <3>1 DEF Served, Current
    <3>2. CASE c.do = "edit"
      BY <1>1, <1>2, <2>1, <3>2 DEF Served, Current
    <3> QED
      BY <2>1, <3>1, <3>2
  <2> QED
    BY <1>2, <1>3, <1>4, <1>7, <1>8, <2>1, <2>2 DEF ShownInv
<1>9. CASE ~AboutShown(c)
  <2>1. c.do \notin {"edit", "add"}
    BY <1>2, <1>9 DEF AboutShown, Edits
  <2>2. \A id, v : Current(id, v) => Current(id, v)'
    <3>1. \/ content' = content
          \/ \E d \in Ids : content' = [content EXCEPT ![d] = Gone]
          \/ \E d \in Ids : content[d] = None /\ content' = [content EXCEPT ![d] = {}]
      BY <1>1, <2>1 DEF Served
    <3> QED
      BY <3>1, CurrentKept
  <2>3. \A j \in Slots : AboutShown(call[j]) => call'[j] = call[j]
    BY <1>3, <1>9
  <2> QED
    BY <1>2, <1>4, <1>7, <2>2, <2>3 DEF ShownInv
<1> QED
  BY <1>8, <1>9

\* An answer that is lost shows nothing.
LEMMA LoseShown ==
    ASSUME CallInv, ShownInv, NEW i \in Slots, Lose(i)
    PROVE  ShownInv'
<1>1. /\ call[i].at \in {"asked", "told"} /\ Moved(i, "lost", None)
      /\ UNCHANGED <<user, loading, route, shown, failed, overlap, content>>
  BY DEF Lose, Moved, identity, position, display, others
<1>2. /\ \A j \in Slots \ {i} : call'[j] = call[j]
      /\ call'[i].do = call[i].do /\ call'[i].id = call[i].id /\ call'[i].at = "lost"
      /\ call'[i].here = call[i].here
  <2>1. /\ \A j \in Slots \ {i} : call'[j] = call[j]
        /\ call'[i] = [do |-> call[i].do, id |-> call[i].id, item |-> call[i].item, at |-> "lost",
                       val |-> None, here |-> call[i].here]
    BY <1>1, MovedFacts
  <2> QED
    BY <2>1
<1>3. \A j \in Slots : AboutShown(call'[j]) <=> AboutShown(call[j])
  BY <1>1, <1>2 DEF AboutShown
<1>4. /\ Private' <=> Private
      /\ \A id, v : Current(id, v) => Current(id, v)'
      /\ \A j \in Slots : call'[j].at = "told" => call'[j] = call[j]
  BY <1>1, <1>2 DEF Private, Current
<1> QED
  BY <1>1, <1>2, <1>3, <1>4 DEF ShownInv, OnDetail

\* The answer that was waited for is the one that is shown.
LEMMA ShowsShown ==
    ASSUME CallInv, Typed(call), RouteInv, ShownInv, NEW i \in Slots, Shows(i)
    PROVE  ShownInv'
<1> DEFINE c == call[i]
<1>1. /\ c.do \in {"get", "edit"} /\ c.at \in {"told", "lost"} /\ call' = Done(i)
      /\ shown' = (IF c.here /\ c.at = "told" THEN [id |-> c.id, val |-> c.val] ELSE shown)
      /\ failed' = (failed \/ (c.here /\ c.at = "lost"))
      /\ UNCHANGED <<user, loading, route, overlap, content>>
  BY DEF Shows, identity, position, others
<1>2. (Private /\ OnDetail(route) /\ ~overlap)' <=> Private /\ OnDetail(route) /\ ~overlap
  BY <1>1 DEF Private, OnDetail
<1>3. SUFFICES ASSUME Private, OnDetail(route), ~overlap PROVE ShownInv'
  BY <1>2 DEF ShownInv
<1>4. AboutShown(c)
  BY <1>1 DEF AboutShown, Edits
<1>5. /\ c.here /\ c.id = route[2]
      /\ route[1] = "playlist" /\ c.at = "told" => Current(route[2], c.val)
      /\ \A j \in Slots \ {i} : ~AboutShown(call[j])
  BY <1>3, <1>4 DEF ShownInv
<1>6. call'[i] = Idle /\ \A j \in Slots \ {i} : call'[j] = call[j]
  BY <1>1 DEF Done, CallInv
<1>7. \A j \in Slots : ~AboutShown(call'[j])
  BY <1>5, <1>6, AboutIdle
<1>8. CASE c.at = "lost"
  BY <1>1, <1>5, <1>7, <1>8 DEF ShownInv
<1>9. CASE c.at = "told"
  <2>1. c.val \in (SUBSET Items) \cup {None} /\ c.id \in Ids \cup Searches
    BY <1>1, <1>3, <1>5, <1>9, RouteIds DEF Typed, TypedOf, RouteInv, OnDetail
  <2>2. shown' = [id |-> c.id, val |-> c.val] /\ shown' # None
    BY <1>1, <1>5, <1>9, <2>1, NoneFacts
  <2>3. shown'.id = route[2] /\ shown'.val = c.val
    BY <1>5, <2>2
  <2>4. \A id, v : Current(id, v) => Current(id, v)'
    BY <1>1 DEF Current
  <2> QED
    BY <1>1, <1>5, <1>7, <1>9, <2>2, <2>3, <2>4 DEF ShownInv
<1> QED
  BY <1>1, <1>8, <1>9

\* Other answers are not about what a detail page shows, or leave it.
LEMMA AnswersShown ==
    ASSUME CallInv, ShownInv, NEW i \in Slots, Listed(i) \/ Leaps(i) \/ Picked(i) \/ Created(i)
    PROVE  ShownInv'
<1> DEFINE c == call[i]
<1>0. /\ Calls(Done(i), route[1]) /\ UNCHANGED <<user, loading, content>>
      /\ ~AboutShown(Idle)
  BY DoneFacts, AboutIdle DEF Listed, Leaps, Picked, Created, identity, others
<1>1. ASSUME NEW d, ~AboutShown(c), ~AboutShown(d), call' = [call EXCEPT ![i] = d]
      PROVE  SameAbout
  BY <1>1 DEF SameAbout, CallInv
<1>2. CASE Listed(i)
  <2>1. /\ c.do = "list" /\ call' = [call EXCEPT ![i] = Idle]
        /\ UNCHANGED <<route, overlap>> /\ (failed => failed')
    BY <1>2 DEF Listed, position, Done
  <2>2. SameAbout
    BY <1>0, <1>1, <2>1 DEF AboutShown, Edits
  <2>3. CASE shown' = shown
    BY <1>0, <2>1, <2>2, <2>3, QuietShown
  <2>4. CASE c.here
    <3>1. route'[1] \in Lists
      BY <2>1, <2>4 DEF CallInv, CallOf
    <3> QED
      BY <3>1, PlainRoutes DEF ShownInv, OnDetail
  <2> QED
    BY <1>2, <2>3, <2>4 DEF Listed
<1>3. CASE Leaps(i)
  <2>1. CASE \E r, stack : Navigates(r, Done(i), stack, FALSE)
    BY <1>0, <2>1, NavigatesShown
  <2>2. CASE /\ call' = Done(i) /\ UNCHANGED <<route, shown, overlap>> /\ (failed => failed')
    <3>1. CASE c.do = "add"
      <4>1. AboutShown(c)
        BY <1>3, <3>1 DEF Leaps, AboutShown, Edits
      <4>2. ~(Private /\ OnDetail(route) /\ ~overlap)
        BY <3>1, <4>1 DEF ShownInv
      <4> QED
        BY <1>0, <2>2, <4>2 DEF ShownInv, OnDetail, Private
    <3>2. CASE c.do # "add"
      <4>1. ~AboutShown(c) /\ call' = [call EXCEPT ![i] = Idle]
        BY <1>3, <2>2, <3>2 DEF Leaps, AboutShown, Edits, Done
      <4>2. SameAbout
        BY <1>0, <1>1, <4>1
      <4> QED
        BY <1>0, <2>2, <4>2, QuietShown
    <3> QED
      BY <3>1, <3>2
  <2> QED
    BY <1>3, <2>1, <2>2 DEF Leaps, Replaces, Pushes, position
<1>4. CASE Picked(i)
  <2>1. PICK d \in {Ask("start", None, None), Idle} : call' = [call EXCEPT ![i] = d]
    BY <1>4 DEF Picked, CallInv
  <2>2. ~AboutShown(c) /\ ~AboutShown(d) /\ UNCHANGED <<route, shown, overlap, failed>>
    BY <1>4, AboutIdle DEF Picked, AboutShown, Edits, Ask, position, display
  <2> QED
    BY <1>0, <1>1, <2>1, <2>2, QuietShown
<1>5. CASE Created(i)
  <2>1. CASE c.at = "told"
    BY <1>5, <2>1 DEF Created, ShownInv
  <2>2. CASE c.at # "told"
    <3>1. call' = [call EXCEPT ![i] = Idle]
      BY <1>5, <2>2 DEF Created, CallInv
    <3>2. ~AboutShown(c) /\ UNCHANGED <<route, shown, failed>> /\ (overlap => overlap')
      BY <1>5 DEF Created, AboutShown, Edits, position
    <3> QED
      BY <1>0, <1>1, <3>1, <3>2, QuietShown
  <2> QED
    BY <2>1, <2>2
<1> QED
  BY <1>2, <1>3, <1>4, <1>5

LEMMA ShownStep ==
    ASSUME CallInv, Typed(call), ContentOK, RouteInv, ShownInv, [Next]_vars
    PROVE  ShownInv'
<1>0. Calls(call, route[1])
  BY DEF CallInv, Calls
<1>1. CASE \/ UserScrolls \/ Applies \/ Type \/ ServeMe \/ Login \/ Logout \/ ServeForm
           \/ (\E r \in suggest : Suggest(r)) \/ UNCHANGED vars
  <2>1. UNCHANGED <<user, loading, route, shown, content, failed, overlap, call>>
    BY <1>1 DEF UserScrolls, Applies, Type, ServeMe, Login, Logout, ServeForm, Suggest, vars,
                others, identity, position, display
  <2> QED
    BY <2>1, QuietShown DEF SameAbout
<1>2. CASE Follow \/ GoBack \/ HomeTimesOut \/ GoHit \/ EnterQuery
  <2>1. PICK r, stack, isPop : Navigates(r, call, stack, isPop)
    BY <1>2 DEF Follow, GoBack, HomeTimesOut, GoHit, EnterQuery, Pushes, Replaces
  <2> QED
    BY <1>0, <2>1, NavigatesShown
<1>3. CASE Search
  <2>1. PICK q \in Queries : route' = <<"tracks", q>> /\ Stays(<<"tracks", q>>, call)
    BY <1>3 DEF Search
  <2> DEFINE r == <<"tracks", q>>
  <2>2. route' = r /\ OnDetail(r) /\ Stays(r, call)
    BY <2>1 DEF OnDetail
  <2> HIDE DEF r
  <2>3. CASE overlap'
    BY <2>3 DEF ShownInv
  <2>4. CASE ~overlap'
    <3>1. Sends(call, r) /\ \A i \in Slots : ~AboutShown(call[i])
      BY <2>2, <2>4 DEF Stays
    <3> QED
      BY <1>0, <2>2, <3>1, SendsShown, FreshFacts DEF Calls
  <2> QED
    BY <2>3, <2>4
<1>4. CASE \/ RemoveTrack \/ RenamePlaylist \/ DeletePlaylist \/ CreatePlaylist
           \/ PlaylistFromTrack \/ StartStation \/ PlayAlbum \/ RadioFromHit
  BY <1>4, ActsShown
<1>5. CASE \E i \in Slots : Serve(i) \/ Lose(i) \/ Answer(i)
  BY <1>5, ServeShown, LoseShown, ShowsShown, AnswersShown DEF Answer
<1>6. CASE Refreshed \/ FormAnswered
  <2>1. content' = content
    BY <1>6 DEF Refreshed, FormAnswered, others
  <2>2. CASE \E u, l : Becomes(u, l)
    BY <2>1, <2>2, BecomesShown
  <2>3. CASE UNCHANGED <<user, loading, position, shown, failed, overlap, call>>
    <3>1. UNCHANGED <<user, loading, route, shown, failed, overlap, call>>
      BY <2>3 DEF position
    <3> QED
      BY <2>1, <3>1, QuietShown DEF SameAbout
  <2> QED
    BY <1>6, <2>2, <2>3 DEF Refreshed, FormAnswered
<1> QED
  BY <1>1, <1>2, <1>3, <1>4, <1>5, <1>6 DEF Next

-----------------------------------------------------------------------------
(* Theorems.                                                               *)

\* What the pages show, and what that rests on.
PagesInv == Typed(call) /\ ContentOK /\ RouteInv /\ ShownInv

LEMMA InitPagesInv == Init => PagesInv
<1> SUFFICES ASSUME Init PROVE PagesInv
  OBVIOUS
<1>1. Typed(call)
  BY TypedIdle DEF Init, Typed
<1>2. ContentOK
  BY DEF Init, ContentOK
<1>3. RouteInv
  <2>1. route \in Opened /\ back = <<>>
    BY DEF Init
  <2> QED
    BY <2>1, OpenedAssumption DEF RouteInv
<1>4. ShownInv
  BY DEF Init, ShownInv, Private
<1> QED
  BY <1>1, <1>2, <1>3, <1>4 DEF PagesInv

LEMMA InitIInv == Init => IInv
<1> SUFFICES ASSUME Init PROVE IInv
  OBVIOUS
<1>1. SearchInv
  <2>1. /\ query = "" /\ hits = "" /\ busy = FALSE /\ suggest = {}
    BY DEF Init
  <2> QED
    BY <2>1 DEF SearchInv
<1>2. AuthInv
  BY DEF Init, AuthInv, UserHasSession
<1>3. CallInv
  BY IdleFacts DEF Init, CallInv
<1>4. /\ y = 0 /\ put = saved /\ saved \in [Lists -> Nat] /\ target = None
      /\ cached = {} /\ shown = None /\ loading
  <2>1. saved = [l \in Lists |-> 0] \/ saved = Extent
    BY DEF Init
  <2>2. saved \in [Lists -> Nat]
    BY <2>1, ExtentAssumption
  <2> QED
    BY <2>2 DEF Init
<1>5. PageInv
  <2>1. /\ \A i \in Slots : call[i] = Idle
        /\ ~(~Private /\ ~loading)
    BY DEF Init
  <2> QED
    BY <1>4, <2>1 DEF PageInv
<1>6. ScrollInv
  BY <1>4 DEF ScrollInv, KeptInv
<1> QED
  BY <1>1, <1>2, <1>3, <1>5, <1>6 DEF IInv

LEMMA Inductive == Spec => []IInv
<1>1. IInv /\ [Next]_vars => IInv'
  BY SearchStep, AuthStep, WhereStep DEF IInv, Where
<1> QED
  BY InitIInv, <1>1, PTL DEF Spec

\* A detail page with nothing in flight about it shows the id of its route, and
\* of a playlist what the server has stored, for any pages, playlists and number
\* of requests, however the answers of fetchPlaylist, updatePlaylist and the
\* navigations of PlaylistDetail.tsx and its like cross.
THEOREM PagesShowTheirRoute == Spec => []ShownIsRoute
<1>1. IInv /\ PagesInv /\ [Next]_vars => PagesInv'
  BY TypedStep, RouteStep, ShownStep DEF IInv, PagesInv
<1>2. PagesInv => ShownIsRoute
  BY DEF PagesInv, ShownInv, OnDetail, Current, ShownIsRoute
<1> QED
  BY Inductive, InitPagesInv, <1>1, <1>2, PTL DEF Spec

\* The hits in the search box are those of its text, and it waits exactly
\* while the request for that text is out: what SearchOmnibox.tsx aborts in the
\* cleanup of its effect neither shows hits nor ends the waiting.
THEOREM HitsAreOfTheText == Spec => []HitsAreCurrent
<1>1. IInv => HitsAreCurrent
  <2> SUFFICES ASSUME SearchInv PROVE HitsAreCurrent
    BY DEF IInv
  <2>1. busy <=> \E r \in suggest : r.q = query
    BY DEF SearchInv
  <2> QED
    BY <2>1 DEF SearchInv, HitsAreCurrent
<1> QED
  BY Inductive, <1>1, PTL

\* Whoever is shown as signed in has a session, or a logout is under way: the
\* answers of me(), login and logout may come in any order or not at all, and
\* AuthContext.tsx drops the user even when the logout was not answered.
THEOREM UsersHaveSessions == Spec => []UserHasSession
<1>1. IInv => UserHasSession
  BY DEF IInv, AuthInv
<1> QED
  BY Inductive, <1>1, PTL

\* A browse list returns to where the user last was in it, for any number of
\* lists, extents and pages in between, unless the layout was too short when
\* useBrowseScrollRestore.ts read or set the position.
THEOREM ListsReturn == Spec => []ScrollKept
<1>1. IInv => ScrollKept
  BY DEF IInv, ScrollInv, KeptInv, ScrollKept
<1> QED
  BY Inductive, <1>1, PTL

=============================================================================
