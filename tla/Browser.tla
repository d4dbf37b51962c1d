------------------------------- MODULE Browser -------------------------------
(***************************************************************************)
(* The pages of the web UI around the player (src/web/src): the signed-in  *)
(* state and the route guard (AuthContext.tsx, App.tsx), the redirect of   *)
(* "/", the browse lists with their caches and scroll positions, the       *)
(* detail pages, playlist editing and the search box.  Every request is    *)
(* answered late, in any order or not at all, and no page cancels one but  *)
(* the search box.                                                         *)
(*                                                                         *)
(* A route is a page and the id it is about.  What a detail page shows is  *)
(* its id and, for a playlist, the tracks; the content of a list is left   *)
(* out, its length being what scrolling depends on.                        *)
(***************************************************************************)
EXTENDS Integers, Sequences, FiniteSets

CONSTANTS
    Lists,        \* pages with useBrowseScrollRestore: "artists", "albums", "years"
    Details,      \* pages about an id: "artist", "album", "track", "year", "playlist"
    Ids,          \* ids of what they show
    Items,        \* tracks a playlist may hold
    Queries,      \* search texts of two characters or more
    Extent,       \* how far each list scrolls once it is loaded; other pages do not
    Stored,       \* the playlists that exist at first
    Opened,       \* bound: the routes a tab is opened on
    None, Gone,   \* no value; a playlist that was deleted (ids are not used again)
    MaxCalls,     \* bound: requests of pages in flight
    MaxActs       \* bound: acts of the user

ASSUME PagesAssumption ==
    /\ Lists \subseteq {"artists", "albums", "years"}
    /\ Details \subseteq {"artist", "album", "track", "year", "playlist"} /\ "playlist" \in Details
ASSUME NoneAssumption ==
    /\ None \notin Nat \cup [id : Lists \cup Ids \cup Queries \cup {"all"},
                            val : (SUBSET Items) \cup {None}]
    /\ None # Gone /\ \A s \in SUBSET Items : s # None /\ s # Gone
ASSUME ExtentAssumption == Extent \in [Lists -> Nat]
ASSUME BoundsAssumption == MaxCalls \in Nat \ {0} /\ MaxActs \in Nat

VARIABLES
    cookie,    \* the server's session cookie is valid
    user,      \* AuthContext: somebody is signed in
    loading,   \* AuthContext: me() is not answered yet
    auth,      \* requests about the user: me() and the last form or logout
    route,     \* the page and its id
    back,      \* routes the browser's Back goes to
    pop,       \* the last navigation was Back, or the page was opened directly
    shown,     \* what the page shows: its id and tracks, or None while it loads
    failed,    \* its error is set
    timer,     \* HomeRedirect: the 800 ms are not over
    cached,    \* lists whose module-level cache is filled
    y, saved,  \* window.scrollY and the positions in sessionStorage
    target,    \* the position a Back is about to apply, or None
    call,      \* requests of pages in flight
    content,   \* server: tracks of each playlist, None or Gone
    starting,  \* the player starts a station
    query, hits, busy, suggest,   \* the search box: hits by query, its live request
    overlap,   \* history: requests about the shown id overlapped
    missed,    \* history: the request for the current query failed
    put,       \* history: where the user last was in each list
    clobbered, \* history: lists whose saved position a layout change overwrote
    acts

identity == <<cookie, user, loading, auth>>
position == <<route, back, pop, timer>>
display == <<shown, failed, cached, overlap>>
scroll == <<y, saved, target, put, clobbered>>
search == <<query, hits, busy, suggest, missed>>
others == <<content, starting>>
vars == <<identity, position, display, scroll, call, others, search, acts>>

Slots == 1 .. MaxCalls
Plain == {"home", "login", "now-playing", "radio", "playlists"}
Searches == Queries \cup {"all"}   \* what the tracks page was asked for
Routes == (Plain \X {None}) \cup (Lists \X {None}) \cup (Details \X Ids)
              \cup ({"tracks"} \X Searches)
ASSUME OpenedAssumption == Opened \subseteq Routes

Ask(do, id, item) ==
    [do |-> do, id |-> id, item |-> item, at |-> "asked", val |-> None, here |-> TRUE]
Idle ==
    [do |-> "none", id |-> None, item |-> None, at |-> "idle", val |-> None, here |-> FALSE]

Private == user /\ ~loading   \* RequireAuth renders its children

\* here: the component that sent the request is still mounted.
TypeOK ==
    /\ {cookie, user, loading, pop, failed, timer, starting, busy, overlap, missed} \subseteq BOOLEAN
    /\ auth.me \in {"none", "me", "in", "out"}
    /\ auth.form \in {"none", "login", "in", "refused", "logout", "out", "lost"}
    /\ route \in Routes /\ \A i \in DOMAIN back : back[i] \in Routes
    /\ shown # None => shown.id \in Ids \cup Lists \cup Searches
    /\ cached \subseteq Lists /\ clobbered \subseteq Lists
    /\ DOMAIN saved = Lists /\ DOMAIN put = Lists
    /\ \A l \in Lists : saved[l] \in 0 .. Extent[l] /\ put[l] \in 0 .. Extent[l]
    /\ route[1] \in Lists /\ shown # None => y \in 0 .. Extent[route[1]]
    /\ target \in Nat \cup {None}
    /\ DOMAIN call = Slots
    /\ \A i \in Slots : call[i].at \in {"idle", "asked", "told", "lost"}
    /\ content \in [Ids -> (SUBSET Items) \cup {None, Gone}]
    /\ query \in Queries \cup {"", "short"} /\ hits \in Queries \cup {""}
    /\ \A r \in suggest : r.q \in Queries /\ r.at \in {"typed", "asked", "told", "lost"}
    /\ acts \in 0 .. MaxActs

Act == acts < MaxActs /\ acts' = acts + 1

-----------------------------------------------------------------------------
(* Mounting a page.                                                        *)

\* Requests about the tracks or the entity a page shows.
Edits == {"edit", "add"}
AboutShown(c) == c.at # "idle" /\ c.do \in {"get"} \cup Edits

\* What is left of the requests of a page that is unmounted: edits and starts
\* go on, and a list still fills its cache.
Orphaned(calls) == [i \in Slots |->
    IF calls[i].do \in {"get", "stations"} THEN Idle ELSE [calls[i] EXCEPT !.here = FALSE]]

\* The requests the effects of a page send when it is mounted or its id changes.
Effects(r) ==
    IF r[1] \in Details \cup {"tracks"} THEN {Ask("get", r[2], None)}
    ELSE IF r[1] \in Lists THEN {Ask("list", r[1], None)}
    ELSE IF r[1] = "home" THEN {Ask("stations", None, None)}
    ELSE {}

\* calls with the requests of a page added in the lowest free slot.
Sends(calls, r) ==
    IF Effects(r) = {} THEN call' = calls
    ELSE \E i \in Slots :
            /\ calls[i] = Idle /\ \A j \in Slots : j < i => calls[j] # Idle
            /\ \E c \in Effects(r) : call' = [calls EXCEPT ![i] = c]

\* A page is mounted: a list shows its cache at once.
Mounts(r, calls) ==
    /\ Sends(Orphaned(calls), r)
    /\ shown' = IF r[1] \in cached THEN [id |-> r[1], val |-> None] ELSE None
    /\ failed' = FALSE /\ timer' = (r[1] = "home")
    /\ overlap' = \E i \in Slots : Orphaned(calls)[i].do \in Edits

\* Mutant: the effect of a detail page does not depend on its id.
StaysOnce(r, calls) ==
    /\ call' = calls
    /\ overlap' = (overlap \/ \E i \in Slots : AboutShown(calls[i]))
    /\ UNCHANGED <<shown, failed, timer>>

\* The same component with another id: it keeps what it shows, error included,
\* until the answer.
Stays(r, calls) ==
    /\ Sends(calls, r)
    /\ overlap' = (overlap \/ \E i \in Slots : AboutShown(calls[i]))
    /\ UNCHANGED <<shown, failed, timer>>

-----------------------------------------------------------------------------
(* Scrolling (useBrowseScrollRestore.ts).  A layout that is too short      *)
(* clamps scrollY, before the old list's cleanup reads it, and every       *)
(* change of it reaches the list that is then mounted as a scroll event.   *)

Least(a, b) == IF a < b THEN a ELSE b

\* Mutant: the cleanup saves whatever it reads.
LeftAtAny(old, at) == IF old \in Lists THEN [saved EXCEPT ![old] = at] ELSE saved

\* The cleanup of the list that is left saves where the page is then, if not
\* at the top.
LeftAt(old, at) == IF old \in Lists /\ at > 0 THEN [saved EXCEPT ![old] = at] ELSE saved

\* From one page to another, by Back or not.
Scrolls(new, isPop) ==
    LET ready == new \in cached
        at == Least(y, IF ready THEN Extent[new] ELSE 0)
        kept == LeftAt(route[1], at)
        end == IF ready /\ ~isPop THEN 0 ELSE at
        lost == {l \in {route[1]} \cap Lists : target # None \/ at \notin {0, y}}
    IN  /\ y' = end
        /\ saved' = IF new \in Lists /\ end # y THEN [kept EXCEPT ![new] = end] ELSE kept
        /\ target' = IF ready /\ isPop /\ kept[new] > 0 THEN kept[new] ELSE None
        /\ put' = IF ready /\ ~isPop THEN [put EXCEPT ![new] = 0] ELSE put
        /\ clobbered' = clobbered \cup lost \cup
              {l \in {new} \cap Lists :
                  \/ ~ready /\ end # y /\ saved[l] # 0       \* the list is empty at first
                  \/ ready /\ ~isPop /\ y = 0 /\ saved[l] # 0   \* at the top, without an event
                  \/ ready /\ isPop /\ kept[l] = 0 /\ end # 0}  \* where the last page was

\* A list that had no cache gets its content while it is mounted.
Appears(l) ==
    /\ target' = IF pop /\ saved[l] > 0 THEN saved[l] ELSE None
    /\ put' = IF pop /\ saved[l] > 0 THEN put ELSE [put EXCEPT ![l] = y]
    /\ clobbered' = IF ~pop /\ saved[l] # 0 THEN clobbered \cup {l} ELSE clobbered
    /\ UNCHANGED <<y, saved>>

ScrollsTo(l, p) ==
    /\ y' = p /\ saved' = [saved EXCEPT ![l] = p] /\ put' = [put EXCEPT ![l] = p]

OnList == Private /\ route[1] \in Lists /\ shown # None /\ ~failed

UserScrolls ==
    /\ Act /\ OnList
    /\ \E p \in (0 .. Extent[route[1]]) \ {y} : ScrollsTo(route[1], p)
    /\ clobbered' = IF target = None THEN clobbered \ {route[1]} ELSE clobbered \cup {route[1]}
    /\ UNCHANGED <<identity, position, display, target, call, others, search>>

\* The position of a Back is applied after two frames, and again after 80 ms.
Applies ==
    /\ OnList /\ target # None
    /\ ScrollsTo(route[1], Least(target, Extent[route[1]]))
    /\ target' = None /\ clobbered' = clobbered \ {route[1]}
    /\ UNCHANGED <<identity, position, display, call, others, search, acts>>

-----------------------------------------------------------------------------
(* Navigation.                                                             *)

\* What Back returns to is mounted anew.
Entry(r) == IF r[1] = "tracks" THEN <<"tracks", "all">> ELSE r

\* From the current page to r with the requests in calls.
Navigates(r, calls, stack, isPop) ==
    /\ r # route
    /\ route' = r /\ back' = stack /\ pop' = isPop
    /\ IF r[1] = route[1]
       THEN Stays(r, calls) /\ UNCHANGED scroll
       ELSE Mounts(r, calls) /\ Scrolls(r[1], isPop)

\* A link, or navigate() without replace.
Pushes(r, calls) == Navigates(r, calls, Append(back, Entry(route)), FALSE)

Replaces(r, calls) == Navigates(r, calls, back, FALSE)

Links == (Plain \ {"home", "login"}) \X {None}
Follow == \E r \in Links \cup (Lists \X {None}) \cup (Details \X Ids) \cup {<<"tracks", "all">>} :
    /\ Act /\ Private
    /\ Pushes(r, call)
    /\ UNCHANGED <<identity, cached, others, search>>

GoBack ==
    /\ Act /\ Private /\ back # <<>>
    /\ Navigates(back[Len(back)], call, SubSeq(back, 1, Len(back) - 1), TRUE)
    /\ UNCHANGED <<identity, cached, others, search>>

\* The form of the tracks page.
Search == \E q \in Queries :
    /\ Act /\ Private
    /\ route[1] = "tracks" /\ route[2] # q
    /\ route' = <<"tracks", q>> /\ Stays(<<"tracks", q>>, call)
    /\ UNCHANGED <<identity, back, pop, scroll, cached, others, search>>

\* HomeRedirect: to the page the user has stations on, or, when the request
\* fails or takes 800 ms, to the default.
HomeTimesOut ==
    /\ Private /\ timer
    /\ Replaces(<<"now-playing", None>>, call)
    /\ UNCHANGED <<identity, cached, others, search, acts>>

-----------------------------------------------------------------------------
(* Requests of pages.                                                      *)

Asks(c) == \E i \in Slots :
    /\ call[i] = Idle /\ \A j \in Slots : j < i => call[j] # Idle
    /\ call' = [call EXCEPT ![i] = c]

\* Acts on what the page shows, whatever its route.
Does(c) ==
    /\ Act /\ Private /\ ~failed
    /\ Asks(c)
    /\ overlap' = (overlap \/ (c.do = "edit" /\ \E i \in Slots : AboutShown(call[i])))
    /\ UNCHANGED <<identity, position, shown, failed, cached, scroll, content, search>>

OnPlaylist == route[1] = "playlist" /\ shown # None
Edit(t) == OnPlaylist /\ Does(Ask("edit", shown.id, t)) /\ UNCHANGED starting
RemoveTrack == \E t \in Items : OnPlaylist /\ t \in shown.val /\ Edit(t)
RenamePlaylist == Edit(None)
DeletePlaylist == OnPlaylist /\ Does(Ask("delete", shown.id, None)) /\ UNCHANGED starting
CreatePlaylist == route[1] = "playlists" /\ Does(Ask("create", None, None)) /\ UNCHANGED starting

\* The menu of a track, on any page that lists tracks, creates a playlist of it.
PlaylistFromTrack ==
    /\ route[1] \in Details \cup {"tracks"} /\ shown # None
    /\ \E t \in Items : (route[1] = "playlist" => t \in shown.val) /\ Does(Ask("mix", None, t))
    /\ UNCHANGED starting

\* A seed on the radio page, which then goes to Now Playing, ...
StartStation ==
    /\ route[1] = "radio" /\ ~starting
    /\ Does(Ask("start", None, None)) /\ starting' = TRUE

\* ... or an album, whose page shows the error instead if that fails.
PlayAlbum ==
    /\ route[1] = "album" /\ shown # None /\ ~starting
    /\ Does(Ask("play", None, None)) /\ starting' = TRUE

Serve(i) ==
    LET c == call[i]
        tracks == IF c.id \in Ids THEN content[c.id] ELSE None
        none == tracks \in {None, Gone}
        Tells(val) == call' = [call EXCEPT ![i].at = "told", ![i].val = val]
        Fails == call' = [call EXCEPT ![i].at = "lost"]
    IN  /\ c.at = "asked"
        /\ \/ /\ c.do = "get"
              /\ IF route[1] = "playlist" /\ none THEN Fails
                 ELSE Tells(IF route[1] = "playlist" THEN tracks ELSE None)
              /\ UNCHANGED content
           \/ /\ c.do = "edit"
              /\ IF none \/ c.item \notin tracks \cup {None} THEN Fails /\ UNCHANGED content
                 ELSE /\ Tells(tracks \ {c.item})
                      /\ content' = [content EXCEPT ![c.id] = tracks \ {c.item}]
           \/ /\ c.do = "delete"
              /\ IF none THEN Fails ELSE Tells(None)
              /\ content' = IF none THEN content ELSE [content EXCEPT ![c.id] = Gone]
           \/ /\ c.do = "add"
              /\ IF none THEN Fails /\ UNCHANGED content
                 ELSE /\ Tells(tracks \cup {c.item})
                      /\ content' = [content EXCEPT ![c.id] = tracks \cup {c.item}]
           \/ /\ c.do \in {"create", "mix"}
              /\ \E id \in Ids : content[id] = None /\ Tells(id) /\ content' = [content EXCEPT ![id] = {}]
           \/ /\ c.do = "stations"
              /\ \E some \in BOOLEAN : Tells(some)
              /\ UNCHANGED content
           \/ c.do \in {"list", "start", "play", "pick"} /\ Tells(None) /\ UNCHANGED content
        /\ UNCHANGED <<identity, position, display, scroll, starting, search, acts>>

\* A request or its answer is lost.
Lose(i) ==
    /\ call[i].at \in {"asked", "told"}
    /\ call' = [call EXCEPT ![i].at = "lost", ![i].val = None]
    /\ UNCHANGED <<identity, position, display, scroll, others, search, acts>>

Done(i) == [call EXCEPT ![i] = Idle]

\* get and edit: the answer is shown, or the error, if the page is there.
Shows(i) ==
    LET c == call[i] IN
    /\ c.do \in {"get", "edit"} /\ c.at \in {"told", "lost"}
    /\ shown' = IF c.here /\ c.at = "told" THEN [id |-> c.id, val |-> c.val] ELSE shown
    /\ failed' = (failed \/ (c.here /\ c.at = "lost"))
    /\ call' = Done(i)
    /\ UNCHANGED <<identity, position, cached, overlap, scroll, others, search, acts>>

\* A list fills its cache even when nobody looks at it any more.
Listed(i) ==
    LET c == call[i] IN
    /\ c.do = "list" /\ c.at \in {"told", "lost"}
    /\ cached' = IF c.at = "told" THEN cached \cup {c.id} ELSE cached
    /\ failed' = (failed \/ (c.here /\ c.at = "lost"))
    /\ IF c.here /\ c.at = "told" /\ shown = None
       THEN shown' = [id |-> c.id, val |-> None] /\ Appears(c.id)
       ELSE UNCHANGED <<shown, scroll>>
    /\ call' = Done(i)
    /\ UNCHANGED <<identity, position, overlap, others, search, acts>>

\* Where an answer takes the user, who may have gone elsewhere since.
Leads(c) ==
    IF c.do = "delete" THEN <<"playlists", None>>
    ELSE IF c.do = "create" THEN <<"playlist", c.val>>
    ELSE IF c.do = "add" THEN <<"playlist", c.id>>
    ELSE IF c.do = "stations" /\ c.val = FALSE THEN <<"radio", None>>
    ELSE <<"now-playing", None>>

Leaps(i) ==
    LET c == call[i] IN
    /\ c.do \in {"delete", "create", "add", "start", "play", "stations"} /\ c.at \in {"told", "lost"}
    /\ starting' = (starting /\ c.do \notin {"start", "play"})
    /\ IF Private /\ (c.at = "told" \/ c.do = "stations") /\ Leads(c) # route
       THEN IF c.do = "stations" THEN Replaces(Leads(c), Done(i)) ELSE Pushes(Leads(c), Done(i))
       ELSE /\ call' = Done(i)
            /\ failed' = (failed \/ (c.do = "play" /\ c.here /\ c.at = "lost"))
            /\ UNCHANGED <<position, shown, overlap, scroll>>
    /\ UNCHANGED <<identity, cached, content, search, acts>>

\* The search box starts a station from an album's first track.
Picked(i) ==
    /\ call[i].do = "pick" /\ call[i].at \in {"told", "lost"}
    /\ call' = [call EXCEPT ![i] = IF @.at = "told" THEN Ask("start", None, None) ELSE Idle]
    /\ starting' = (starting \/ call[i].at = "told")
    /\ UNCHANGED <<identity, position, display, scroll, content, search, acts>>

\* The new playlist gets its track.
Created(i) ==
    /\ call[i].do = "mix" /\ call[i].at \in {"told", "lost"}
    /\ call' = [call EXCEPT ![i] = IF @.at = "told" THEN Ask("add", @.val, @.item) ELSE Idle]
    /\ overlap' = (overlap \/ call[i].at = "told")
    /\ UNCHANGED <<identity, position, shown, failed, cached, scroll, others, search, acts>>

Answer(i) == Shows(i) \/ Listed(i) \/ Leaps(i) \/ Picked(i) \/ Created(i)

-----------------------------------------------------------------------------
(* The search box.                                                         *)

Cleared == query' = "" /\ hits' = "" /\ busy' = FALSE /\ suggest' = {} /\ missed' = FALSE

\* Mutant: a new text does not abort the request for the old one.
TypesOver(x) ==
    /\ query' = x /\ missed' = FALSE
    /\ IF x \in Queries
       THEN busy' = TRUE /\ suggest' = suggest \cup {[q |-> x, at |-> "typed"]} /\ UNCHANGED hits
       ELSE busy' = FALSE /\ hits' = "" /\ UNCHANGED suggest

\* The effect of a new text aborts the request for the old one; the request
\* for the new one follows 160 ms later.
Types(x) ==
    /\ query' = x /\ missed' = FALSE
    /\ IF x \in Queries
       THEN busy' = TRUE /\ suggest' = {[q |-> x, at |-> "typed"]} /\ UNCHANGED hits
       ELSE busy' = FALSE /\ suggest' = {} /\ hits' = ""

Type == \E x \in Queries \cup {"", "short"} :
    /\ Act /\ Private /\ x # query
    /\ Types(x)
    /\ UNCHANGED <<identity, position, display, scroll, call, others>>

Suggest(r) ==
    /\ r \in suggest
    /\ \/ /\ r.at = "typed" \/ r.at = "asked"
          /\ \E at \in IF r.at = "typed" THEN {"asked"} ELSE {"told", "lost"} :
               suggest' = (suggest \ {r}) \cup {[r EXCEPT !.at = at]}
          /\ UNCHANGED <<query, hits, busy, missed>>
       \/ /\ r.at \in {"told", "lost"}
          /\ suggest' = suggest \ {r} /\ busy' = FALSE
          /\ hits' = IF r.at = "told" THEN r.q ELSE hits
          /\ missed' = (r.at = "lost")
          /\ UNCHANGED query
    /\ UNCHANGED <<identity, position, display, scroll, call, others, acts>>

\* Enter, or a click, on a hit; Enter without one goes to the tracks page,
\* which does not read the text from the address.
GoHit == \E r \in (Details \ {"playlist"}) \X Ids :
    /\ Act /\ Private /\ hits # ""
    /\ Pushes(r, call) /\ Cleared
    /\ UNCHANGED <<identity, cached, others>>

EnterQuery ==
    /\ Act /\ Private /\ hits = "" /\ query \in Queries
    /\ Pushes(<<"tracks", "all">>, call)
    /\ UNCHANGED <<identity, cached, others, search>>

RadioFromHit ==
    /\ Act /\ Private /\ hits # ""
    /\ \E do \in {"start", "pick"} :
         Asks(Ask(do, None, None)) /\ starting' = (starting \/ do = "start")
    /\ UNCHANGED <<identity, position, display, scroll, content, search>>

-----------------------------------------------------------------------------
(* Signing in and out.                                                     *)

\* What the guard and the login page do with a new user and loading.
Becomes(u, l) ==
    /\ user' = u /\ loading' = l
    /\ IF l \/ (Private /\ u)
       THEN UNCHANGED <<position, shown, failed, overlap, scroll, call, search>>
       ELSE IF u
       THEN /\ route' = IF route[1] = "login" THEN <<"now-playing", None>> ELSE route
            /\ pop' = (route[1] # "login")
            /\ Mounts(route', call)
            /\ UNCHANGED <<back, scroll, search>>
       ELSE /\ route' = <<"login", None>> /\ pop' = FALSE /\ UNCHANGED back
            /\ Mounts(route', call)
            /\ IF Private THEN Scrolls("login", FALSE) ELSE UNCHANGED scroll
            /\ Cleared

\* me() is served by the cookie; a lost one counts as signed out.
ServeMe ==
    /\ auth.me = "me"
    /\ \E r \in {IF cookie THEN "in" ELSE "out", "out"} : auth' = [auth EXCEPT !.me = r]
    /\ UNCHANGED <<cookie, user, loading, position, display, scroll, call, others, search, acts>>

Refreshed ==
    /\ auth.me \in {"in", "out"}
    /\ auth' = [auth EXCEPT !.me = "none"]
    /\ Becomes(auth.me = "in", FALSE)
    /\ UNCHANGED <<cookie, cached, others, acts>>

\* Login and register: the same form for the model.
Login ==
    /\ Act /\ route[1] = "login" /\ auth.form = "none"
    /\ auth' = [auth EXCEPT !.form = "login"]
    /\ UNCHANGED <<cookie, user, loading, position, display, scroll, call, others, search>>

Logout ==
    /\ Act /\ Private /\ auth.form = "none"
    /\ auth' = [auth EXCEPT !.form = "logout"]
    /\ UNCHANGED <<cookie, user, loading, position, display, scroll, call, others, search>>

\* The answer, or the request before it, may be lost.
ServeForm ==
    /\ \/ /\ auth.form = "login"
          /\ \E ok \in BOOLEAN, told \in {"in", "refused"} :
                /\ ok \/ told = "refused"
                /\ cookie' = (cookie \/ ok) /\ auth' = [auth EXCEPT !.form = told]
       \/ /\ auth.form = "logout"
          /\ \E ok \in BOOLEAN, told \in {"out", "lost"} :
                /\ ok \/ told = "lost"
                /\ cookie' = (cookie /\ ~ok) /\ auth' = [auth EXCEPT !.form = told]
    /\ UNCHANGED <<user, loading, position, display, scroll, call, others, search, acts>>

\* Mutant: a logout without an answer keeps the user.
FormAnsweredOnly ==
    /\ auth.form \in {"in", "refused", "out", "lost"}
    /\ auth' = [auth EXCEPT !.form = "none"]
    /\ IF auth.form = "in" THEN Becomes(TRUE, loading)
       ELSE IF auth.form = "out" THEN Becomes(FALSE, loading)
       ELSE UNCHANGED <<user, loading, position, shown, failed, overlap, scroll, call, search>>
    /\ UNCHANGED <<cookie, cached, others, acts>>

\* logout forgets the user whatever the answer; me() does not know of either.
FormAnswered ==
    /\ auth.form \in {"in", "refused", "out", "lost"}
    /\ auth' = [auth EXCEPT !.form = "none"]
    /\ IF auth.form = "in" THEN Becomes(TRUE, loading)
       ELSE IF auth.form # "refused" THEN Becomes(FALSE, loading)
       ELSE UNCHANGED <<user, loading, position, shown, failed, overlap, scroll, call, search>>
    /\ UNCHANGED <<cookie, cached, others, acts>>

-----------------------------------------------------------------------------
\* A new tab, or one that is reloaded and has kept its sessionStorage, of
\* somebody signed in or not.
Init ==
    /\ cookie \in BOOLEAN /\ user = FALSE /\ loading = TRUE
    /\ auth = [me |-> "me", form |-> "none"]
    /\ route \in Opened
    /\ back = <<>> /\ pop = TRUE /\ timer = FALSE
    /\ shown = None /\ failed = FALSE /\ cached = {} /\ overlap = FALSE
    /\ saved \in {[l \in Lists |-> 0], Extent} /\ y = 0 /\ put = saved /\ target = None /\ clobbered = {}
    /\ call = [i \in Slots |-> Idle]
    /\ content = [id \in Ids |-> IF id \in Stored THEN Items ELSE None]
    /\ starting = FALSE
    /\ query = "" /\ hits = "" /\ busy = FALSE /\ suggest = {} /\ missed = FALSE
    /\ acts = 0

Next ==
    \/ Follow \/ GoBack \/ Search \/ UserScrolls \/ Applies \/ HomeTimesOut
    \/ RemoveTrack \/ RenamePlaylist \/ DeletePlaylist
    \/ CreatePlaylist \/ PlaylistFromTrack \/ StartStation \/ PlayAlbum
    \/ \E i \in Slots : Serve(i) \/ Lose(i) \/ Answer(i)
    \/ Type \/ GoHit \/ EnterQuery \/ RadioFromHit
    \/ \E r \in suggest : Suggest(r)
    \/ ServeMe \/ Refreshed \/ Login \/ Logout \/ ServeForm \/ FormAnswered

Spec == Init /\ [][Next]_vars

-----------------------------------------------------------------------------
(* Properties.                                                             *)

\* The hits are those of the text in the box, unless its request failed, and
\* the box is busy exactly while that request is out: an aborted request for
\* an older text neither shows its hits nor ends the waiting.
HitsAreCurrent ==
    /\ busy <=> \E r \in suggest : r.q = query
    /\ busy \/ missed \/ hits = (IF query \in Queries THEN query ELSE "")

\* A detail page with nothing in flight shows its own id, and a playlist as it
\* is stored, unless requests overlapped, which nothing prevents, or it failed.
ShownIsRoute ==
    Private /\ route[1] \in Details \cup {"tracks"} /\ ~overlap /\ ~failed
        /\ (\A i \in Slots : ~AboutShown(call[i]))
    => /\ shown # None /\ shown.id = route[2]
       /\ route[1] = "playlist" /\ content[route[2]] # Gone => shown.val = content[route[2]]

\* Each list returns to where the user last was in it, except where a layout
\* change got in between: a page that clamps scrollY before the cleanup reads
\* it, a list that is mounted without a scroll event or before it is loaded, or
\* one that is left, or scrolled, before its position is applied.
ScrollKept == \A l \in Lists \ clobbered :
    /\ route[1] # l => saved[l] = put[l]
    /\ route[1] = l /\ target # None => target = put[l]

\* A user is shown only with a valid session, or while a logout is under way,
\* however me() and the form cross, even after a logout without an answer.
UserHasSession == user => cookie \/ auth.form \in {"logout", "out", "lost"}

=============================================================================
