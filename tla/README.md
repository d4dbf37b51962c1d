# LatentTone in TLA+

Specifications of the parts of LatentTone whose behaviour depends on the order
of steps. On the server: the session worker that keeps a radio going, the
registry of its sessions, the writer in front of the vector table, the jobs
that fill it, and the library scan. In the browser: the audio engine, the
player that drives a session with it, the settings page, and the pages around
them. Each module follows the code of one component; `PROJECT.json` maps
every definition to the lines it stands for.

## 1. The system

LatentTone is one Go server (`src/cmd`, `src/internal`), a TypeScript single
page application (`src/web`), and Python helpers (`src/scripts`) the server
talks to over pipes. MariaDB holds the catalog and the state of the users,
LanceDB the track vectors.

| Component | State | Operations | Interacts with | Hard behaviour |
|---|---|---|---|---|
| Session queue (`session/worker.go`) | `Live`: status, now playing, queue, pins, sources, recent, history, bridge cadence; its row in `listening_sessions` | feedback, back, inject, remove, reorder, stop; refill goroutines; reload from the row | catalog, skips, neighbour search, HLS (`OnAdvance`) | `Live.mu` is released inside operations; refills work on snapshots |
| Session registry (`worker.go`, `reclaim.go`) | `sessions` map, `LastActive`, rows' `updated_at` | create, get, touch, reclaim, evict | session queue | check-then-act on caps; two loads of one session; rows and memory age apart |
| Neighbour selection (`affinity/`) | none | `SelectDiversified`, cosine | session queue | pure |
| Lance writer (`lance/writer.go`) | pending rows, waiters, helper process | upsert, flush, timer, close | embed job, Python helper | batching, cancellation, close while rows are pending |
| Embed job (`meta/job.go`, `db/vectors.go`) | job row, `track_vectors` status per track, control file | start, stop, run, claim, process, release | scanner, Lance writer, ML pool | several processes on one table, crash, pause |
| ML pool (`extract/ml_pool.go`) | idle helpers, in-flight request per helper | call, restart, close | embed job | a cancelled call leaves its answer in the pipe |
| Library scan (`scan/`) | `running` flag, `scan_runs`, `tracks.missing_at` | full scan, watcher events | catalog | a scan marks missing what it did not see |
| Scan schedule (`db/scan_schedule.go`, `main.go`) | schedule row | claim when due | library scan | restart while due |
| HLS manager (`stream/hls.go`) | one packaging per session | ensure, stop, sweep | session worker | check-then-act, out-of-order `OnAdvance` |
| Auth (`auth/auth.go`) | users, tokens, login attempts | register, login, verify | handlers | window limits, first user becomes admin |
| Playlists (`db/playlists.go`) | ordered items | add, remove, reorder | handlers | positions under concurrent edits |
| Audio engine (`web/src/player/audioEngine.ts`) | media element and standby, Web Audio graph, `playEpoch`, `attachSeq`, label of what is attached | attach, prefetch, promote, play, pause, volume, mute | player, media element | bodies suspended at awaits that later calls overtake; errors and manifests that arrive late |
| Player (`web/src/player/PlayerContext.tsx`) | status, `sessionIdRef`, `sessionStorage`, `advancingRef`, `skipAdvanceRef` | start, resume, stop, skip, end, near end, back, like, edit the queue, poll, rejoin, logout | session API, audio engine | optimistic steps against older polls, double advance, lost answers |
| Settings page (`web/src/pages/SettingsPage.tsx`) | jobs, preference records, sessions, one `busy` flag | start and stop jobs, save preferences, stop sessions, two polls | server, player | polls that overlap, operations that share a flag, handlers of older renders |
| Browser pages (`App.tsx`, `AuthContext.tsx`, lists, playlists, search box) | user, route, caches, scroll positions, entity shown, hits | navigate, edit, search, sign in and out | server, player | answers of requests nobody cancels, a layout that moves the scroll |
| Handlers, preferences, catalog queries, tags, encoding, migration | rows or nothing | one request at a time | all of the above | none of their own, but a PATCH of preferences reads and writes in two statements |

What makes each correct:

* **Session queue**: no listener action is undone by background work (stop,
  skip, pin, remove); the row a restart reloads is the session the listener
  had; the radio does not run dry while tracks remain; one end of a track
  advances once.
* **Session registry**: one live session per row; an active session is never
  reclaimed; caps hold; stopped stays stopped.
* **Lance writer**: `Upsert` returns success only when the row is in the table;
  every upsert returns; a row is written once per upsert and in order.
* **Embed job**: no track is lost between `pending`, `processing` and `ready`;
  two workers never own one track; a stopped job leaves nothing `processing`.
* **ML pool**: an answer belongs to the request that waits for it.
* **Library scan**: a file that exists is not left missing; one scan at a time.
* **HLS manager**: one packaging per session, of the track it plays.
* **Audio engine**: what plays is what was asked for last; a pause stays; the
  gain never stays at the floor of a fade; a failure is reported, and only for
  the track that is wanted.
* **Player**: one end, one advance; nothing is skipped that was not shown; the
  page comes to show the session as it is; it is never deaf to the end of a track.
* **Settings page**: what is shown is what is stored; a Stop ends that session
  and no other; the controls do not stay disabled.
* **Browser pages**: a page shows the entity of its address, the box the hits of
  its text, a list returns to where it was, and a user needs a session.

## 2. Modules

| Module | Models | EXTENDS |
|---|---|---|
| `QueueOps` | `splitQueue`, `filterOut`, truncation, the capped history as pure operators | library modules |
| `SessionQueue` | one live session: client calls, refills, row, restart | `QueueOps` |
| `MCSessionQueue` | instances of `SessionQueue`, and a check of `Only` against `SelectSeq` | `SessionQueue` |
| `UpsertContract` | what the embed job relies on when it stores a vector | |
| `LanceWriter` | the batching writer, its helper, the workers, ticker and driver of the embed job that use it; implements `UpsertContract` | library modules |
| `MCLanceWriter` | instances of `LanceWriter` | `LanceWriter` |
| `EmbedJob` | embed jobs one after another over `track_vectors`, stopped, cancelled, killed, while files and settings change | library modules |
| `MCEmbedJob` | instances of `EmbedJob` | `EmbedJob` |
| `LibraryScan` | full scans and the watcher over the track catalog, while files change | library modules |
| `MCLibraryScan` | instance of `LibraryScan` | `LibraryScan` |
| `SessionRegistry` | sessions in memory and their rows: create, get, stop, reclaim, caps, restart | library modules |
| `MCSessionRegistry` | instance of `SessionRegistry` | `SessionRegistry` |
| `AudioEngine` | the `<audio>` element, its standby and gain, the suspended bodies of `attach`, `promotePrefetch` and `safePlay` | library modules |
| `MCAudioEngine` | instance of `AudioEngine` | `AudioEngine` |
| `Player` | the player context, its requests in flight and the sessions they reach | `QueueOps` |
| `MCPlayer` | instances of `Player` | `Player` |
| `Settings` | the settings page, its polls, loads and operations, and the server they talk to | library modules |
| `MCSettings` | instance of `Settings` | `Settings` |
| `Browser` | sign-in, navigation, lists, detail pages, playlist edits, the search box | library modules |
| `MCBrowser` | instance of `Browser`: how far lists scroll, where tabs open | `Browser` |
| `SessionQueue_proofs` | lemmas on `Only`, `Without`, `Take`, `PushCapped`; types, row, history, pins, stops, the quiet client's queue; the caps of the registry | `SessionQueue`, `SessionRegistry` (instance) |
| `LanceWriter_proofs` | types, `AckedIsStored`, `CloseFlushes` and the refinement | `LanceWriter` |
| `EmbedJob_proofs` | types, ownership, stored vectors, drift | `EmbedJob` |
| `LibraryScan_proofs` | types, what a scan reconciles, mtimes and tags | `LibraryScan` |
| `AudioEngine_proofs` | types, gain, pause, label, errors | `AudioEngine` |
| `Settings_proofs` | preference records, stops | `Settings` |
| `Player_proofs` | the engine's track, the deaf flag, what the server passes over | `Player` |
| `Browser_proofs` | search hits, the signed-in user, scroll positions, detail pages | `Browser` |

The three modules of the player fit by contract, not by `INSTANCE`: `Player`
takes the engine at what `AudioEngine` promises (an attached track is the one
that is labelled and asked to play) and the session at what `SessionQueue` does
to one, and `Settings` and `Browser` see the player by the session it refers to
and the stations it starts. Together they would be out of TLC's reach.

### SessionQueue

The variables `status, now, queue, pinned, sources, recent, history, since,
interval, bridgeQueued` are the fields of `Live` (`Status`, `NowPlayingID`,
`Queue`, `Pinned`, `Sources`, `Recent` as a set, `History`,
`TracksSinceBridge` cut at the longest cadence, `BridgeInterval`,
`BridgeQueued`). `row` is what `persist` writes. `skips` holds the rows of
`user_track_skips` that apply. `pc`, `call`, `fill`, `anchor` are the program
counters and local variables of the requests and the refill goroutines.

`refillGen` is only ever compared for equality with the value the refill gave
it, so `latest` names the refill that incremented it last.

One action is one critical section of `Live.mu`, with the unlocked database and
catalog work between sections as places where other actions interleave:

| Actions | Code |
|---|---|
| `FeedbackBegin`, `FeedbackAdvance`, `FeedbackAdvanceEmpty`, `FeedbackOther` | `ApplyFeedback` up to the lock; then its switch, by case |
| `AdvanceResume`, `TrackStarted` | `advanceLocked` after its refill, and after its catalog lookup |
| `Back` (+ `TrackStarted`) | `Back` |
| `InjectQueue`, `RemoveFromQueue`, `ReorderQueue` | the same, lock held throughout |
| `Stop`, `Restart` | `Stop`; process restart followed by `get` |
| `RefillGate`, `FillSnapshot`, `FillSkips`, `FillEnough`, `FillFallback`, `FillCandidates`, `FillCommit`, `RefillPersist` | `scheduleQueueRefill` and `fillQueueFrom` |

A refill may pick any tracks its snapshot does not exclude (`Picks`): scores,
artists, penalties and affinities only choose among them.

### LanceWriter

`pending` stands for `Writer.pending` and `Writer.waiters`, which are appended
to and taken together; `done` is the buffered channel of each waiter; `batch`,
`outcome` and `pc` are the local variables of a flush; `helper` is the Python
process and `table` what it stored. The processes are the job's workers, the
400 ms ticker, and `Run` itself (`Driver`), which flushes once more and closes.

| Actions | Code |
|---|---|
| `Upsert`, `UpsertRefused`, `UpsertReturn` | `Upsert`, split where it releases `mu` and where it waits |
| `Tick`, `FlushTake`, `FlushNothing`, `FlushGo`, `FlushCancelled`, `FlushAnswer`, `FlushBroken`, `FlushSettle` | the ticker; `flush`, split at its locks and at the round trip |
| `CloseJobs`, `LastFlush`, `CloseBegin`, `Shutdown`, `Cancel` | the end of `Run`, `Close`, `Controller.Stop` |

`UpsertContract` keeps only who asked, what is stored and what was answered. A
round trip that stores a batch is its `Store`, a return its `Answer`; queueing,
batching and the ticker are invisible to it.

### EmbedJob

A file is known by the version it has: `disk` is the version on disk, `mtime`
the one `tracks.file_mtime` records, `brief` the mtime a worker read,
`content` what it extracted from, `vec` and `lance` what the catalog's and the
LanceDB vector were computed from, `rowMtime` is `audio_mtime_at_run`.
`conf` and `rowConf` stand for `extractor_set` and `model_versions` together.
`wave` is the rest of the slice the feeder is sending, `jobs` the channel,
`pc` and `job` are the workers', `phase` is where `Run` stands, `file` the job
control file and `cancelled` the context.

| Actions | Code |
|---|---|
| `Start`, `EnsureEarly`, `Stop`, `StopFile` | `Controller.Start`, `StartIfIncomplete`, `Controller.Stop`, `embed --stop` |
| `Reset`, `Ensure`, `MarkStale`, `Requeue`, `Begin`, `BeginFails` | `Run` up to its feeder, one action per statement on the table |
| `Claim`, `ClaimFails`, `FeedSend`, `FeedCancelled`, `FeedEnd`, `Finish` | the feeder and the end of `Run` |
| `Take`, `Brief`, `Extract`, `ExtractFails`, `ExtractCancelled`, `Store`, `Ready`, `Fail` | a worker's loop and `processTrack` |
| `Edit`, `Scan`, `Restart` | the file changes; the scan records it; the process is killed and starts with the settings it then reads |

The Lance writer is taken at the contract `LanceWriter` is shown to keep: a
success means stored, an error promises nothing. The scan of a file is one
step, and all extractors of a track read one version of it: the oldest any of
them read, which is the first.

### LibraryScan

A file again is the version it has: `disk` is the version there is, 0 for none,
`latest` the newest there has been (a file may go and come back as it was).
`rowMtime`, `rowTags` and `missing` are the columns of its row in `tracks`:
`file_mtime` and `file_size`; the version its title, artist and album were read
from; `missing_at`. Of a scan, `known`, `seen` and `toMark` are the local
variables of those names, and `stage` says where each file is between walk,
workers and writer; any number of workers may be at work. `events` is what
fsnotify has queued, `debounce` the map of `Watch`, and `wpc`, `wfile`,
`wMtime`, `wTags` are `ScanPath`. `disturbed` is history: what else touched a
file since the scan began.

| Actions | Code |
|---|---|
| `Start`, `Visit`, `VisitFails` | `FullOpts` up to its walk; one step of the walk |
| `Stat`, `Read` | a worker's `tags.Extract`, split between its stat and its reading |
| `Flush`, `FlushFails` | the writer's batches, some or all of whose rows fail |
| `Select`, `Mark`, `MarkFails`, `Finish` | `MarkMissingExcept`, its query and each update; the end of `FullOpts` |
| `WatchWrite`, `WatchRemove`, `WatchStat` | `Watch`: the two kinds of events, the ticker |
| `WatchCheck`, `WatchExtract`, `WatchRead`, `WatchUpsert`, `WatchFails` | `ScanPath`, split where it reads the file or the catalog |
| `Change`, `Restart` | a file changes, with or without an event; the process is killed and starts again |

`ScanReconciles` and `Reconciles` complement each other. A file the watcher
handled, or that changed, while a scan ran may end that scan in any state: the
scan may mark missing what the watcher has just catalogued, or overwrite its
row with what an older stat found. `Reconciles` says that no such state lasts.

### SessionRegistry

The sessions around what `SessionQueue` says of one. A `Live` is a pair of a
session and a slot, for there can be several of one session: two requests that
both miss it in `Worker.sessions` (`inMap`) each make one from the row. `stat`
and `age` are its `Status` and the time since its `LastActive`; `rowStat` and
`rowAge` the row's `status` and the time since its `updated_at`. Statuses
"created" and "playing" count the same everywhere here and are one, "active".
A Live nobody can reach any more is reset, as the garbage collector does.

| Actions | Code |
|---|---|
| `Reap`, `StopIdle`, `StopStale` | the ticker of `web.go` and `ReclaimIdle`: what it collects under the lock, each `Stop`, the update of the rows |
| `Create` | `Create`, `CreateAlbum` up to the first half of `ReclaimIdle`, whose other steps follow |
| `Count`, `Pick`, `Evict` | `countActiveUser` or `countActiveGlobal`; `stopOldest`, its choice and its `Stop` |
| `CountRows`, `SelectRows`, `EvictRow`, `RowsEvicted` | the rows' part of `ensureCapacity`: count, query, one update per row |
| `Insert`, `Persist`, `Register` | `CreateListeningSession`, `persist`, the entry in `sessions` |
| `Request`, `Load`, `LoadStale`, `Admit` | `get`: lookup and touch; the row; a stale row; the entry of a Live made from it |
| `Poll`, `Stop`, `Act`, `Refill` | what the handler does with the Live: read it, stop it, or a call of `SessionQueue`, which is refused or persists, and may start a refill |
| `Tick`, `Restart` | time passes; the process is killed and starts again |

`CapsHold` is about creates that nothing overlaps: `ensureCapacity` makes room
before the session is in the map, so two creates at once can pass it together
and exceed a cap until the next create. `AbandonedStops` has no such condition.

### AudioEngine

`src`, `net`, `paused` are the element; `key` is both `attachedTrackId` and
`lastKey`; `standby` the standby element; `call` holds each body suspended at an
await: in `ctx.resume()`, in `play()`, in a fade ramp, or in `waitCanPlay`
(`Waiting`). The code compares `playEpoch` with what a body read when it
started; the model keeps the outcome, `live`, so no counter needs a bound.
`listener` and `hls` are the error listener and the `Hls.js` instance of the
current load, `level` the gain. `asked`, `told`, `want`, `crossed` are history:
the track asked for, the error told, whether the listener wants sound, and
whether a request met a promotion of something else while it waited.

| Actions | Code |
|---|---|
| `AttachHealthy`, `AttachSame`, `AttachPromote`, `AttachLoad`, `AttachHls`, `AttachHlsAgain` | the branches of `attach` and `attachHls`, up to the first await |
| `Prefetch`, `Pause`, `Quit`, `Play`, `Toggle`, `SetVolume`, `ToggleMute` | the methods of those names; `pause` with `destroyHls` |
| `Resumed`, `Blocked`, `Overtaken`, `Played`, `Rejected`, `Faded` | `safePlay` and `softFadeIn`, from one await to the next |
| `Promoted`, `NativeReady` | `promotePrefetch` and `attachHls` after `waitCanPlay` |
| `Loads`, `Fails`, `ManifestParsed`, `HlsFails`, `StandbyLoads`, `Ends` | events of the browser and what the listeners do |

### Player

A request is a record in `call`: sent, served, answered, refused or lost, and
taken by the page at some later time. `sess` is the server, `ref` is
`sessionIdRef`, `saved` the entry in `sessionStorage`, `view` the status,
`marker` `skipAdvanceRef`, `advancing` `advancingRef`; `att`, `sounding` and
`shows` are the engine's track, whether the element plays and what the chrome
shows. A refill adds the next track of the catalog, which is enough to tell
tracks apart; the choice is `SessionQueue`'s.

| Actions | Code |
|---|---|
| `Skip`, `NearEnd`, `Ended`, `FeedbackAnswered`, `FeedbackFailed`, `Recovered` | `feedback` before its request, with its optimistic step; after it; in its `catch` |
| `Poll`, `PollIgnored`, `PollShown` | the polling effect |
| `Start`, `Resume`, `Retired`, `Adopts`, `StartFailed`, `ResumedAnew`, `Stop`, `Stopped` | `startRadio`, `resumeStation`, `stop`, split at their awaits |
| `GoBack`, `BackAnswered`, `BackFailed`, `Like`, `PlayNext`, `RemoveFromQueue`, `Edited`, `Toggle` | the operations of those names |
| `Reload`, `Logout`, `Login`, `Rejoined`, `NotRejoined`, `Found` | the page's load; the effect that finds its session again |
| `ServeGet` ... `ServeFind`, `Refill`, `StoppedElsewhere` | the handlers and `worker.go` on one session |

`SetStatus` is the render that follows a `setStatus`: the attach effect (which
runs when id, state or track change) and the poll effect (which drops polls
when id or state change) are part of the action, as React runs them before the
next callback. `seen` is history: the pairs of a session and a track such that the
page showed the track as the session's, or showed it while its requests went to
the session. The second kind is needed: when two starts overlap, or a late answer
of the station that was left arrives, the page shows one session's track while
`sessionIdRef` names the other, and a skip then reports the track shown to a
session it was never shown of.

### Settings

`running`, `saved`, `active` are the server; `seen`, `shown`, `list`, `busy`
the page; `ref` and `live` the player's `sessionIdRef` and status. A call is an
operation, a load or a poll at one of its requests; `here` says whether the
page that sent it is mounted. A record of preferences is the set of its fields
that are on. A PATCH reads the row and writes it back in two steps (`ReadRow`,
`WriteRow`), as `radio_prefs.go` does.

| Actions | Code |
|---|---|
| `startScan`, `startEmbed`, `stopEmbed`, `Patch`, `changePassword`, `stopListeningSession`, `endStation` | the handlers of those names (`Patch`: `patchRadio`, `savePlaybackPrefs`, `saveStreamPrefs`, `saveSchedule`) up to their request |
| `Got`, `Patched`, `JobAnswered`, `PasswordAnswered`, `StopAnswered`, `QuitAnswered` | the rest of each, one action per await |
| `Poll`, `Remount` | the two timers; the page is left and opened again |
| `ServeGet` ... `ServePassword`, `JobStarts`, `JobEnds`, `EndsElsewhere`, `Lose` | the server, other clients, the network |
| `startRadio` | another station is started from the search box meanwhile |

### Browser

`route` is a page and the id it is about, `back` the history the Back button
has, `pop` whether the last navigation was one. `shown`, `failed` are the state
of the page, `cached` the module-level caches of the lists, `y`, `saved`,
`target` the scroll position, the stored ones, and one about to be applied.
`call` holds the requests of pages, `auth` those about the user, `suggest`
those of the search box. History variables name what the code does not prevent
and the properties therefore exclude: `overlap` (two requests about the entity
shown), `missed` (the request for the text in the box failed), `clobbered` (a
layout change moved the scroll before a position was read or applied). `put` is
where the user last was in each list, which the code does not know.

| Actions | Code |
|---|---|
| `Follow`, `GoBack`, `Search`, `HomeTimesOut` | links, Back, the form of the tracks page, `HomeRedirect` |
| `UserScrolls`, `Applies` | `useBrowseScrollRestore`; its cleanup and layout effect are in `Scrolls` and `Appears`, part of every navigation |
| `RemoveTrack`, `RenamePlaylist`, `DeletePlaylist`, `CreatePlaylist`, `PlaylistFromTrack`, `StartStation`, `PlayAlbum` | the handlers of the pages up to their request |
| `Serve`, `Lose`, `Answer` | the server, the network, and the rest of each handler, navigation included |
| `Type`, `Suggest`, `GoHit`, `EnterQuery`, `RadioFromHit` | `SearchOmnibox` with its debounce and `AbortController` |
| `ServeMe`, `Refreshed`, `Login`, `Logout`, `ServeForm`, `FormAnswered` | `AuthContext` |

## 3. Runs

| Run | Shows | Bounds |
|---|---|---|
| `calls` | the row matches the session whenever no call is mid-start; every track Back can reach is recorded as played; pins survive refills; a stop holds against everything under way; one end of a track advances an album once | radio and album of 3 tracks, 2 calls at once, 2 refills, 1 restart, history cap 1 |
| `quiet` | no skipped, repeated or second bridge track is queued when the client waits | 3 tracks, 1 client, 4 calls, bridge cadence 2 |
| `removed_returns` | violation: a removed track returns | only likes and removals |
| `job` | the Lance writer under the embed job: success means stored, every upsert returns, nothing is left pending | 3 tracks, 2 workers, batch of 2 |
| `embed` | jobs that stop, fail and are killed: one owner per track, ready means stored, drift is seen, a failed track is tried again, a held row is never reset, every run ends | 2 tracks (one of them edited), 2 workers, waves of 2, 2 versions, 2 settings |
| `scan` | scans, watcher, failures and restarts: what nobody else touched is in sync when a scan ends, rows never claim more than their tags, and the catalog agrees with the disk in the end | 2 files, batch of 2, 2 changes, 1 failure or restart |
| `registry` | a create alone keeps all caps in memory and rows; a session nobody uses is stopped in the end, row and memory | 3 sessions of 2 users, 2 requests at once, 3 in all, both caps 1, 1 restart |
| `audio` | the gain follows the volume, a pause stays, the label is the track, errors are of the track wanted, and what is asked for plays or is told to have failed | 2 tracks, 2 bodies at once, 4 requests, volume 0 or 1, every HLS support |
| `player` | the shown track is the attached one, the page is deaf to an end only while one is reported, the server skips nothing the page has not shown, and the page converges to the session | 4 tracks, 2 sessions, queue of 2, 2 requests at once, 2 polls, 3 acts, 2 losses |
| `silent_start` | violation: the chrome shows playing with the element paused | 1 poll, 1 loss, otherwise as `player` |
| `settings` | preferences are shown as stored, a Stop ends nothing else, and the page settles on what is, with its controls enabled | a record with a load and the schedule, 1 field, 3 sessions, 2 operations, 1 slot for polls, 2 acts, 1 loss |
| `browser` | hits are of the text in the box, a page shows what its address says, lists return to where they were, a user has a session | 2 lists, 2 kinds of detail pages, 2 ids, 1 track, 2 queries, 3 requests, 3 acts |

`TypeOK` is an invariant of the `calls` run, the largest state there is. For
`SessionQueue`, `LanceWriter`, `EmbedJob`, `LibraryScan` and `AudioEngine` it is
a theorem; in the other modules it may be added to a run's `.cfg` as it is, and
holds.

Three tracks are enough to have a playing track, a queued one and one a refill
can add; two callers and two refills are the smallest number at which one can
overtake another. `HistoryCap` 1 or 2 makes the cap bind after two advances,
`CadenceMin = CadenceMax` 1 or 2 makes a bridge due within a run. `MaxCalls` and
`MaxRestarts` bound only how many client calls and restarts are explored. The
only bound that can block a step is the number of `Fillers`: a step that starts
a refill waits for a free one. Catalog order is id order, so tracks are not
symmetric; callers and refills are.

`quiet` and the finding `removed_returns` are two sides of one property:
`SkippedStaysOut` holds for a client that waits for each refill and fails for
one that does not, because `fillQueueFrom` reads the skips before its search.

`job` has three tracks and batches of two, so that a full batch, a partial one
and a batch another flush already took all occur.

`embed` has two tracks and two workers, so that one is stored while the other
is claimed, released or fails; one edited track is enough for `DriftIsSeen`,
which speaks of each track alone, and two settings for one change. Waves of 2
stand for `claimBatch`, at least 8: a wave takes all that is pending, or, after
`ClaimFails`, part of it. Files and runs are unbounded otherwise: runs follow
each other as often as they like.

`scan` has two files, one to be disturbed while the other is not and one to be
flushed with the other or without it (a batch of 2 is a full one, a batch of 1
is the rest). Two changes let a file go and come back, or be edited twice;
scans are unbounded and follow each other as often as they like.

`registry` has two sessions of one user and one of another, so that either cap
of 1 is met first. Three requests allow two creates and a use, two loads at
once after a restart, or a stop beside a reclaim. `TTL` 0 makes every tick one
past the limit; ages beyond it are the same. Two slots suffice for two requests
but for a third Live of one session made while the reaper still holds one; a
step that finds no slot waits.

`audio` has two tracks, one to replace the other, and two bodies: a third could
only be overtaken by one of the two in the same ways. Four requests allow a
track, its successor, a pause and a resume. Nothing else is bounded: the network
may fail and the media end as often as they like. About 490,000 states.

`player` has one session that can be retired by another, and four tracks, so that
the one playing, two that are queued and a refilled one differ. Two requests in
flight are an act and a poll, or two of either, in any order; three acts and two
losses are a skip whose answer is lost, beside the act that crosses it. About
870,000 states.

`settings` has one kind with a load of its own and the schedule, which the status
poll brings; the third, `stream`, behaves as the first. Two operations are the
least at which one clears the other's `busy`; the third session is the station
that is started meanwhile. The poll slot is shared by the two timers; operations
end with status requests of their own, so two reads are in flight all the same.
About 440,000 states.

`browser` has two lists that differ in length, so that a position of one is out of
reach in the other, and an album and a playlist page: pages that cannot and can
change what they show. Tabs open on four routes, with nothing stored or a
position in every list. About 1,310,000 states.

Fairness. Everything checked of the session is a safety property. `job`
assumes that an upsert whose answer is there returns, that the ticker fires
while the job runs, and that a flush under way goes on (goroutines are
scheduled; the helper answers or dies, which ends the read). Nothing makes a
worker take another track, a job end or a user cancel it. `embed` assumes that
the goroutine of `Run` and each worker go on when they can, so that an
extraction ends (its context, or the extractor's exit, ends it) and an upsert
returns (`EveryUpsertReturns`); nothing forces a job to start, stop or die. `scan`
assumes that a scan that runs goes on, that the watcher handles the events it
was sent, and that there is always another incremental scan: with the schedule
enabled, `runPeriodicScanLoop` starts one whenever its interval has passed and
none runs. `registry` assumes that time passes, that the reaper's ticker fires,
and that requests and reclaims go on (goroutines are scheduled, the database
answers); nobody is forced to make a request. `audio` assumes that the
microtasks and timers of a body run, and that the browser answers a load, with
data or an error. `player` and `settings` assume that a request is answered or
fails, that its callback runs, and that the intervals fire. In `settings` the
polls are strongly fair, since the two timers share the model's slots and not
the program's, and jobs come to an end. `browser` assumes nothing. No act,
change, failure or restart is ever forced.

`CHECK_DEADLOCK` is off for sessions, the writer and the browser's modules,
which are allowed to end (the acts of the user are bounded, and nobody has to
act); `embed`, `scan` and `registry` check it.

## 4. Findings

* A removed track can return to the queue (`removed_returns`).
* A station started from the track that is attached and paused shows as playing
  and is silent (`silent_start`): the attach effect leaves an engine alone that
  has the track, and `startRadio` then sets `paused` to false.

Other observations made while modelling, which the models contain as behaviour
and the properties leave room for:

* Feedback that reaches the playing track of a stopped session starts it again,
  although `src/api/openapi.yaml` calls a stopped session terminal (`:893`).
  `StopHoldsInFlight` is about what was under way when the stop came.
* A queued bridge that is removed or truncated is never replaced
  (`openapi.yaml:1411`): `BridgeQueued` stays set.
* `Writer.Close` does not flush what its comment says it flushes
  (`lance/writer.go:227`); `Run` makes up for it with a flush of its own, and
  `CloseFlushes` holds in `job`.
* A track that was embedded, failed under changed settings and is back under the
  old ones stays in error whatever runs: its row still holds what the old success
  recorded, so `MarkStaleByConfig` sees no drift. `ErrorsRetried` holds where
  settings do not come back (`Reverts = FALSE`).
* Reclaim stops the row of a session that is polled but has not been persisted
  for longer than `IdleTTL`, although its comment speaks of idle sessions
  (`session/reclaim.go:21`): `Touch` moves the age in memory only.
* A request that reaches the engine while a promotion waits for its element can
  leave the label with the promoted track, though another is loaded, and
  `isAttachedToTrack` is then wrong about what it loads (`audioEngine.ts:598`):
  `promotePrefetch` checks no epoch after `waitCanPlay` (`:246`). `crossed`
  marks it.
* After an advance that was answered, a poll that names the track that was left
  is ignored until one names the track advanced to; if the session is back at the
  former by then, the page stays as it is (the comment of `skipAdvanceRef` speaks
  of an advance in flight). `Frozen` marks it.
* Enter in the search box without a hit goes to `/library/tracks?q=`, which the
  tracks page does not read.
* A saved scroll position is overwritten when a shorter layout moves the page
  before the list's cleanup reads it, when a list is opened by a link at the top,
  and when Back finds no saved position. `clobbered` marks these.
* Detail pages neither cancel a request nor clear their error when the id
  changes, and late answers of edits navigate wherever the user is by then.
* `me()` may be answered after a form was, and then says what was before it.
* A search that fails leaves the hits of the text before it.

## 5. Proofs

All theorems hold for every value of the constants (tracks, files, sessions,
workers, calls in flight, limits), under the named assumptions of the module
they are about, such as `CatalogAssumption`, `KindAssumption`, `ProcAssumption`
and `LimitAssumption` of `SessionQueue`.

* `TypeCorrect`: `TypeOK` is inductive. The order-preserving filter `Only` is
  defined by positions so that its range and type are provable without
  induction over sequences.
* `RowMatches`: `RowMatchesSession` follows from the stronger `RowInv`: if the
  row lags, then the session is playing and some call owes it a commit. The
  status conjunct is needed because a stop may come between; it persists, which
  ends the lag.
* `HistoryPlayed`: inductive with the types; every push to the history comes
  with one to `recent`.
* `StopHolds`, `PinsAreKept`: action properties, one step per action from the
  type invariant.
* `AlbumAdvancesOnce`: from the invariant `AlbumInv` that no call of an album
  session is ever in a refill.
* `QueuedOnlyOnce`, `OneBridge`, `SkippedNotOffered`: under `QuietClient`, with one
  client that waits for the refills of its last call; without it they are false
  (section 4). Such a client has one busy process at most (`Solo`: a call ends in the
  step that spawns its refill), so what a refill or an inject saw at its snapshot
  still holds when it commits (`SearchIsCurrent`). `QueuedOnce` says of the queue and
  of its row what the first states of the queue, because a restart reads the row;
  `BridgeKnown` ties each bridge tag to its flag or to the report that clears it.
  `SkipsKnown` says of a skipped track at every step of a call where it may still be:
  with the feedback that is about to remove it, the call that advances past it, or
  among the exclusions of the search under way. `SkippedNotOffered` adds
  `MaxRestarts = 0`: a restart forgets which tracks were recent. That an album lists
  no track twice is the query's (`worker.go:209`, in `KindAssumption`).
* `CapsAreKept`: `CapsHold` of `SessionRegistry`, instantiated as `Reg` at the end of
  `SessionQueue_proofs`, under the two parts of its `RegistryAssumption`
  (`SessionsFit`, `CapsFit`). A create checks three caps one after the other, and
  between two checks the reaper may run and time passes, so `RoomInv` says at each step
  of a create nothing overlaps what it has made sure of: fewer Live objects of its user
  than the cap once the first loop is over, fewer rows once the selected ones are
  stopped (before, the count less those that are still to be stopped), fewer Live
  objects of anybody before it inserts, and from then on not counting its own. What
  else runs meanwhile can only stop sessions.
* `WriterTypeCorrect`, `AcknowledgedIsStored`, `WriterKeepsContract`: from the
  inductive invariant `Inv` of `LanceWriter_proofs`. `AckedIsStored` alone is
  not inductive: a success travels through `outcome` and the `done` channels
  before it is returned, so `AnswerInv` says of each of them that the rows
  behind it are in the table, and `TakenInv` and `JobInv` that the batches,
  the pending rows and the channels belong to tracks that were asked for. The
  refinement maps every flush that reaches the table to one `Store`, every
  return to `Answer` and the rest to stutters.
* `ClosedIsFlushed`: under `~CloseEarly`, the way `Run` uses the writer: it closes
  after its workers are gone and after a flush of its own, so that what `Close`
  finds pending is nothing. Without the assumption it is false: `Close` itself does
  not flush.
* `JobTypeCorrect`, `ClaimsAreExclusive`, `EmbeddedIsStored`, `EditsAreSeen`,
  `HeldIsNotReset`: from the inductive invariant `Inv` of `EmbedJob_proofs`.
  None of them is inductive alone. `OwnInv` adds to one owner per track that an
  owned row is in `processing`, so that no claim can find it, except a row a
  cancelled worker has released, and then claiming is over; `VersionInv` orders
  what was read earlier and later (`rowMtime` <= `vec` <= `disk`, `brief` <=
  `content`); `StoredInv` adds that a worker about to mark has stored.
* `FailedIsRetried`: under `~Reverts`, with `ConfInv`: every row that is not
  ready has drifted. Without the assumption it is false (section 4).
* `ScanTypeCorrect`, `TagsStayFresh`, `ScanLeavesInSync`: from the inductive
  invariant `Inv` of `LibraryScan_proofs`. `ScanInv` says of every undisturbed
  file what a scan under way knows of it at each stage (as listed until it has
  been dealt with, then in sync or gone and unseen); `TagInv` orders the
  versions (mtime <= tags <= `latest`, in the rows, the workers and the
  watcher). Versions only grow, so a row that claims the version on disk has
  its tags.
* `AudioEngine_proofs`: `TypeCorrect`, `GainIsRight`, `PausesStick`,
  `LabelsAreTrue`, `ErrorsAreOfTheCurrent`, from the inductive invariant `IInv`.
  What a body will do to the element is decided by the request that started it,
  steps before it does it, so `IInv` says of every body in flight what it may
  still do: promotions are of tracks and only native HLS waits otherwise
  (`WaitInv`); after a pause nothing in flight is live and no listener or manifest
  is armed (`PauseInv`); and, unless a promotion was crossed, what waits in
  `waitCanPlay` is the last track asked for and what the element has (`LabelInv`),
  and a live body or an armed listener would report for no other (`ErrorInv`).
  `GainFollows` is kept by every step but needs the
  types, for the shape of a call.
* `Settings_proofs`: `RecordsAreShown` and `StopsAreAsked`. The first needs that
  a kind of record without overlap has one request in flight at most, sent by the
  mounted page, whose answer is what is stored (`RecordInv`). The second needs
  that what a stop names was asked for, and that the player has nothing else
  while a Stop of its own session is in flight (`StopInv`): `stop()` takes the
  session of the moment it runs. `SessionsAssumption` adds that no session or
  kind is the value for none.
* `Player_proofs`: `EngineFollowsTheView`, `DeafForOneReport` and
  `NoTrackPassedOver`, from `IInv`. A report names a track that was shown while its
  request was made, and `seen` only grows, so whatever the server has done in the
  meantime a report that still moves it on names a track that was shown (`CallOf`);
  the answer of a Stop is a stopped status, which is why `stop()` may show it
  without attaching its track; only a report, or the fetch that follows its failure,
  holds the flag (`ends`), and cancelled polls hold none. `Named` needs that a page
  with a session shows a track (`PageInv`): no request of the page leaves it to the
  server which track it is about.
* `Browser_proofs`: `HitsAreOfTheText`, `UsersHaveSessions`, `ListsReturn` and
  `PagesShowTheirRoute`, from `IInv`. The last needs that, unless edits overlap
  (`overlap`), one request at most can change the entity shown, that it is about the
  route's id, and that its answer is what is stored. The search box has at most one request, for the text in it
  (`SearchInv`); what `me()` or a form is about to answer is the cookie's, and
  nobody logs out before `me()` is answered (`AuthInv`). A list's saved position
  is where the user was also while it is shown, once no position waits to be
  applied (`ScrollInv`). That needs three facts about pages: a list without its
  content is at the top, only a list's own request gives it its content
  (`CallInv`), and nothing is loaded before the user is known (`PageInv`). What it
  needs of the routes is `PagesAssumption`: the lists are not detail pages.

Only model-checked: liveness (`EveryUpsertReturns`, `RunEnds`, `Reconciles`,
`AbandonedStops`, `PlaysOrTells`, `Converges`, `Settles`), and of `SessionRegistry`
`TypeOK` beyond the types `CapsAreKept` needs.

Out of the prover's reach: liveness, and what recursive definitions compute.

## 6. Not modelled

On the server: neighbour selection, the ML pool, the HLS manager, the scan
schedule, sign-in limits and tokens, and playlist positions are still to do (see
below). Encoding, tags, covers, migration and the SQL of read-only queries have
no behaviour that depends on the order of steps. Database errors other than the
two `fillQueueFrom` handles are left out of `SessionQueue`.

In the browser: `mediaChrome.ts` (wake lock, media session) and `FloatingPlayer`
render the player's state and call its operations, which are the acts of
`Player`; the position within a track, seeking and the titles are left out of
`AudioEngine`. Of the settings page, the duplicates tile, the progress estimate,
the hours typed for the schedule, error texts and the page of a user who is no
administrator are left out. `RadioPage`, `ListenPage`, `AboutPage` and `TrackTable`
show what one request, or the player, has. A cookie that expires while a page is
open is not modelled.

## 7. Plan

1. `SessionQueue`, `QueueOps`, their runs and proofs (done).
2. `LanceWriter`: batching, timer, cancellation, close; `UpsertContract` and
   the refinement; safety proved (done).
3. `EmbedJob`: claim, process, release, stop, crash; ownership and drift
   proved (done).
4. `LibraryScan` with the watcher: what a scan reconciles, proved; eventual
   agreement, checked (done).
5. `SessionRegistry`: create, get, touch, reclaim, eviction, restart; an
   abandoned session is stopped in the end, in memory and in its row (done; the caps
   proved).
6. `AudioEngine`, `Settings`, `Browser`, `Player` (done, proved).
7. `MLPool` (an answer belongs to its request) and `HLSManager` (one packaging
   per session), `ScanSchedule`, `SelectDiversified` as pure operators,
   `Playlists`, login limiter and tokens.
8. Theorems: `TypeOK` of the registry.
