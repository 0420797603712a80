# Verification of hamfield-signage

TLA+ models of the parts of hamfield-signage that decide what a screen shows and what the
operator is told of it, TLC configurations that check them on small instances, and TLAPS proofs
of what holds for instances of every size. Paths below are relative to the repository root;
modules are the `*.tla` files of this directory.

    tlc -config sync_index.cfg MCDeviceSync.tla     # one run
    tlapm DeviceSyncProofs.tla                      # one module's proofs

`PROJECT.json` lists the runs, the mutants that show each property can fail, the source
lines of every definition, the hazards the properties are for, and the theorems.

## 1. The system

A central backend (API, worker, Postgres, Redis, object storage), a dashboard in the browser, and
many devices. A device runs an *agent* (one Node.js process with an SQLite database and a media
directory) and a *player*, a kiosk browser page the agent serves. A device keeps playing what it
has with no network at all: "the system's core promise".

| Component | Source | State it keeps | Operations |
|---|---|---|---|
| Sync engine | `apps/agent/src/sync.ts`, `packages/sync-protocol/src/manifest.ts` | running / pending / forced flags, the run's manifest and diff | syncNow, runSync, checkStorage, maintainCache, clearCacheAndResync |
| Cache integrity | `apps/agent/src/cache-maintenance.ts` | suspects, repair cooldown, files on disk | verifyCache, sweepOrphans |
| Local database | `apps/agent/src/db.ts` | manifest, media index, log and event buffers | applyManifest, removeCacheEntries, clearCache, buffers |
| Agent main | `apps/agent/src/main.ts` | timers, boot task, running commands | boot, poll fallback, heartbeat, flush, liveness watchdog |
| Agent-backend link | `apps/agent/src/backend-ws.ts`, `apps/api/src/routes/device-ws.ts`, `apps/api/src/lib/ws-hub.ts` | socket, reconnect timer, socket map | hello, sync_required, commands, acks, results |
| Remote commands | `apps/agent/src/commands.ts`, `apps/api/src/routes/devices.ts`, `device-api.ts` | DeviceCommand rows | create, push, fetch, ack, run, result, expire |
| Manifest builder | `apps/api/src/lib/manifest.ts` and what it calls | none (database queries) | buildSyncManifest, allowedMediaIdsForDevice |
| Library | `apps/api/src/routes/{playlists,media,media-folders,priority-rules,schedules,device-groups,emergency}.ts` | tables | edits with their checks and their sync_required |
| Player page | `apps/player/src/main.ts` | order, current item, timers, video, failure history | showCurrent, advance, failCurrent, reportProgress, applyState |
| Playback queue | `packages/shared/src/playback-queue.ts` | shuffled cycle, rule counters | next |
| Scheduler | `packages/scheduler/src/resolve.ts` | none | resolveActiveContent |
| Player state | `apps/agent/src/state.ts`, `player-server.ts` | revision, last state | computePlayerState, broadcast, serve media |
| Cache policy | `apps/agent/src/cache-policy.ts` | none | planStorage, selectEvictionCandidates, selectForRehash |
| Telemetry | `apps/agent/src/db.ts`, `main.ts`, `device-api.ts`, `lib/heartbeat.ts` | buffered logs and events, current item | buffer, flush, ingest, heartbeat |
| Liveness watchdog | `apps/agent/src/main.ts` | the problem it reported last, clocks | evaluateLiveness |
| Pairing and tokens | `device-api.ts`, `apps/api/src/lib/tokens.ts`, `plugins/auth.ts` | codes, tokens, saved credentials | pair, regenerate, revoke, delete |
| Media pipeline | `apps/worker/src/processor.ts`, `worker/src/main.ts`, `routes/media.ts` | assets, jobs, variants, objects | upload, process, retry, reprocess, delete |
| Upkeep | `apps/worker/src/{maintenance,alerts,retention}.ts`, `infra/backup/*.sh` | bundles, success marker, alert state | back up, verify, prune, restore, delete old rows, notify |
| Dashboard | `apps/web/src/lib/hooks.ts`, `pages/PlaylistEditor.tsx`, `pages/Media.tsx` | queries, forms, selections, uploads | fetch, poll, save in two requests, bulk actions |
| Users and MFA, organisations, probing, install scripts, mock device | `routes/auth.ts`, `routes/superadmin.ts`, `packages/media`, `infra/device` | none shared with the above | CRUD, I/O |

**How they interact.** An edit in the API commits to the database and then publishes
`sync_required` through Redis; each API instance sends it on the sockets it holds. The agent
answers a push, a poll tick, a boot, a command or its own repair request with `syncNow`, which
fetches the manifest over HTTP, downloads what is missing through the media file route, and
commits manifest and index in one SQLite transaction; `recomputeState` then sends the kiosk a
new state over a local websocket. Commands travel as rows: pushed over the socket, fetched on
connect and by polls, acknowledged and resolved over the socket or HTTP. Uploads become jobs of a
Redis queue; the worker writes objects first and rows after, and publishes. Playback events and
log lines are buffered on the device and flushed in batches. The nightly backup leaves a marker
in Redis that retention and the alerts read. The dashboard polls.

**What is hard.** Everything on the device shares one event loop, so code between two awaits is
atomic and every await lets everything else in: a sync run takes minutes, during which clears,
boot passes, pushes, player errors and restarts happen. The file system is not covered by the
SQLite transaction. The websocket has no application-level ping, so a path that died half-way
looks open to the agent, and polling stops while it looks open. Pushes are fire-and-forget.
Commands have no memory of their ids. The page has four ways to end a play, two ways to
replace it, and asynchronous loads in between. API handlers check in one query and write in
another, mostly without a transaction; a manifest is built from seven queries. Jobs of one asset
may run side by side and are retried from the start. The dashboard's requests overtake each other,
and the user goes on typing meanwhile.

**What makes each part correct.**

- Sync: the screen's content survives every failure and crash; the index never contradicts
  the manifest; an edit gets to the device unless it stays connected after a sync that failed;
  a deletion never hits what is still needed.
- Commands: every command is run or expires; a recorded result is true and stays.
- Player: content that needs motion never stands still; nothing ends an item but what was
  armed for it; each video is watched.
- Playback queue: every item is played each cycle, rules keep their cadence.
- Library: the manifest a device ends up with is the one the database describes and refers to
  nothing it does not contain; the dialog before a deletion counts the devices that lose by it;
  the preview says what the device will show.
- Media pipeline: what a manifest advertises is what the file route serves; jobs come to rest and
  devices hear of what became ready.
- Pairing and link: one token per code; boxes get paired while they can be; the hub holds the open
  socket; changes reach the boxes.
- Telemetry: nothing is lost but what newer rows push out, nothing counted twice; the
  dashboard shows the current item in the end; a dead page is reported.
- Upkeep: the marker means a bundle; retention deletes nothing that is in no bundle; pruning
  keeps the policy; a lasting trouble is told.
- Dashboard: nothing older is shown over something newer; saves are whole and
  edits stay until saved; nothing stays busy.

## 2. The plan, and where it stands

| Order | Module | About | State |
|---|---|---|---|
| 1 | `DeviceSync` | sync runs, passes, clears, crashes, server and link | checked, proved |
| 2 | `CommandQueue` | life of a command across server, link and agent | checked, proved |
| 3 | `Player` | the kiosk page | checked, proved |
| 4 | `PlaybackQueue` | order modes and priority rules | checked, proved |
| 5 | `MediaPipeline` | uploads, jobs, objects, rows, what a manifest offers | checked, proved |
| 6 | `Library` | dashboard requests and manifest builds, query by query | checked, proved |
| 7 | `DeviceAccess` | pairing, tokens, sockets, hub, hello | checked, proved |
| 8 | `Telemetry` implementing `Ledger` | buffers and flushes, current item, watchdog | checked, proved |
| 9 | `Upkeep` | backup, retention, restore, alerts | checked, proved |
| 10 | `PlaylistEditor` over `Loader` | one tab of the editor | checked, proved |
| 11 | `MediaPage` over `Loader` | one tab of the media page | checked, proved |

"Proved" means that every safety invariant and safety action property a run checks is a theorem
(section 5); liveness is checked by TLC only. What would come next: several API processes behind one
Redis, and the settings form of `DeviceDetail.tsx`.

The proofs of components that do not share state are put together where that keeps names apart:
`DashboardProofs` is about `CommandQueue` and `Library`, `PlayerProofs` about `Player` and
`PlaybackQueue`, `PlaylistEditorProofs` about `PlaylistEditor`, `MediaPage` and `Loader`. Hence the
prefixes of some names: `Engine...` in `PlaybackQueue`, `Command...` in `CommandQueue`, `Page...` in
`MediaPage` (`EngineSpec`, `CommandSpec`, `PageSpec`).

The modules divide the system at its messages: `Library` ends where a manifest is built,
`DeviceSync` begins with it; `MediaPipeline` gives the files behind `Library`'s ready media;
`DeviceAccess` has the socket that `DeviceSync` and `CommandQueue` use and takes content as a
version number. `Ledger` is the abstract specification, implemented twice by `Telemetry` (events
and log lines); `Loader` is the `useApi` hook, used by both pages.

An abstraction rule used throughout: code between two `await`s is one action, an `await` ends
an action, and everything the environment may do (edits, failures, crashes, damage) is bounded
by a *budget*, a function from kinds of events to how many of them a behaviour may contain. A
run gets a set of budgets, its scenarios, and `Init` chooses one; the proofs hold for every set.

## 3. The modules and the code

### DeviceSync

One device, the API server it syncs from, and the websocket between them.

| Variables | Code |
|---|---|
| `assigned`, `asset`, `unpublished`, `allowed` | media the playlists reference, bytes the file route serves, an edit not yet announced, `allowedMediaCache` of `routes/device-api.ts` |
| `ws`, `hello`, `push` | the socket as the agent sees it ("half": the agent has not noticed that it broke), messages in flight |
| `manifest`, `index`, `file`, `aged`, `room` | `kv` and `cache_index` of the SQLite database, the media directory, file times past `ORPHAN_GRACE_MS`, free space |
| `pc`, `force`, `target`, `toGet`, `got`, `toDelete`, `stale`, `queued`, `queuedForce` | `runSync`'s progress and locals, `running`/`pending`/`pendingForce` |
| `maint` | the two integrity passes (`maintainCache` after a run, and at boot), file by file |
| `boot`, `clearing`, `clearTodo`, `suspect`, `cooldown`, `shown` | the boot task of `startAgent`, `clearCacheAndResync`, suspects, repair cooldown, the kiosk's last state |

A manifest is a function from media to a content or `Absent`. Its version is a hash of it, so
versions are equal exactly when manifests are. The steps of a run are `FetchManifest`,
`SkipUnchanged` / `DiffManifest`, `CheckStorage`, `Download` (one file: verified, then renamed),
`DownloadRefused`, `DownloadFails`, `Commit` (the SQLite transaction), `RemoveStale`,
`AnnounceApplied`, then the pass `BeginPass` … `EndRunPass` or `RepairAfterRun`. `FinishRun` is
the `finally` block of `syncNow`, including what the boot task does in the same turn.

Simplifications: a checksum is the content itself and comparison is exact; runs and passes are
shorter than the one-hour orphan grace (`HourPasses` is enabled only in `Quiet` states, and
across a restart); one `clear_cache` at a time; what an integrity pass re-hashes is any set of at
most `HashLimit` files plus the suspects. `evictIfOverBudget` (step 9 of
`docs/sync-protocol.md`) is not an action, because `EvictionFindsNothing` proves that it never
has a candidate: `applyManifest` has already deleted every row it could pick.

A scenario is *calm* when no file is damaged, replaced or cleared and no websocket opens while the
boot pass runs; `ManifestPlayable` is claimed for these only (`Calm`, see sections 4 and 5).
This leaves out the ordinary boot order of a device with a websocket (`main.ts:319`): there the
property fails, as `find_sweep` shows.

A sync that fails, is refused by the storage check or gets a 403 is logged and not scheduled again:
the next poll, push or refresh_content is what retries it (`docs/sync-protocol.md:164-166`, `277`,
`283`), and polls are off while the websocket is up. `behind` and `unrepaired` are history: since the
last fetch a push was lost, a run failed or was refused, or a hello was sent during a run; a
damaged file's row was dropped and no diff has been made since.

### CommandQueue

The rows of `DeviceCommand` (`status`, `expired`, `older` for their order), the POST handler
that creates, publishes and marks them (`issuing`), the socket, and the agent's executions.
`exec` maps a run (a command and an attempt) to its stage: on the wire, queued behind older
rows of its poll cycle, running, or holding its outcome. A command may be executing several
times, because nothing on the device remembers ids. `DeliverPending` is
`deliverPendingCommands` on a new socket (its failure, which the route catches and logs, sends
nothing and counts with the lost publishes), `Poll` is the `getCommands` half of `pollFallback`,
`StartCommand` acknowledges and starts a handler, `FinishHandler` ends it, `ReportResult`
reports. `ran` is history. A fetch reads rows and marks the pending ones; since both kinds are
returned alike and the update has its condition, the two statements are one action.
`Attempts` and `Polls` bound the executions of one command, and the poll cycles, at a time.

### Player

The page of `apps/player/src/main.ts`: the order (`state`, `index`, `play`), the call of
`showCurrent` in flight (`show`: in its backoff, or loading), the visible layer (`screen`), the
advance timer, the video with its ceiling and its progress reports. A superseded `showCurrent`
finds another `playToken` and returns, so only the newest is represented. `Advance` is
`advance` after its event, `Fail` is `failCurrent`; `ApplyEmpty`, `ApplyRandom`, `ApplyNew` and
`ApplyKept` are the branches of `applyState` for changed content. In the random modes the next
item is any item of the pool; which one is `PlaybackQueue`'s subject. Positions inside a video
are abstracted to moving or wedged. `outlived` is history: `applyState` kept an item that nothing is
to end, because it was started as a single one, or was the last of a finite list that is over.

### PlaybackQueue

`PlaybackQueueEngine` of `packages/shared`, and how the page rebuilds it. `ServeOwed`,
`ServeRuleOnly` and `ServeNormal` are the three ways through `next()`, `Cycles` is `reshuffle`
over the orders of the pool, `Rebuild` is `rebuildEngine`, and `Remember` is
`rememberLastPlayed`, called only for items that loaded. `pendingRuleIds` is a set: it is filled
only when empty, in the order of `comparePriorityRules`, and served in that order. The random
source is any choice. `gap` is history: normal items since each rule's last one.

The fall-through of `next()` for a rule that "became unplayable" (playback-queue.ts:111-112) has no
action, because rules never change within an engine and the constructor drops empty ones.

### MediaPipeline

The assets, variants, profiles and job rows of Postgres (`status`, `deleted`, `checksum`,
`processed`, `variants`, `profile`, `record`), the object store (`bucket`), BullMQ (`queue`,
`made`, `stalls`), the API requests that upload or reprocess (`request`, `target`) and the runs of
`processMediaAsset` (`pc`, `todo`, `kept`), of which a worker has `Slots` at a time. One id stands
for a request, its job row and its queue entry. A run looks the asset up, marks it, reads which
tiers are in use, encodes and saves tier after tier, makes the thumbnail, finishes the row, closes
the job and publishes; any step may throw and goes through the catch block, a worker that dies
leaves its jobs to the stalled check. Bytes are a pair of encoder settings and tier, so an object
is current when it is of the running worker's settings. Errors come in two kinds: `throw` inside the
try, and `outside` for a database or Redis that fails before the try, at an update of the catch
(swallowed by its `.catch(() => undefined)`), or at the publish after the processor. Both
use up attempts; `unsaid` remembers the jobs whose last attempt ended without telling anyone. `SelectVariant` is
`selectVideoVariant` of `lib/media-variant.ts`.

### Library

All tables that shape a manifest are one record `db`: media, folders, playlists with their
entries, priority rules and assignments, groups, members, schedules, devices, overrides. `request`
holds what each handler is at. A handler is three steps: what it reads and checks, the statement
or transaction it commits, the publication. Two handlers may interleave between any of these,
and with `build`, which makes a manifest in the seven queries of `buildSyncManifest` (`ReadDevice`,
`ReadSchedules`, `ReadOverride`, `ReadLists`, `ReadFolders`, `ReadPool`, `ReadOwn`). A PATCH of media
remembers the folder it read and publishes only when the requested one differs from that; one that
changes only the name publishes nothing, though names decide the order of folder content
(`Filters`, `Rank`). `owed` are the
devices a `sync_required` is under way to, `copy` is the manifest each fetched last. History:
`overlap` (a request committed between another's checks and its commit) and `silent` (a change that
nobody announces came after the last fetch: a folder moved or renamed, a medium renamed,
moved back on a stale read, or reprocessed).
`UsageWarns` and `PreviewAgrees` check code written a second time (`lib/usage.ts`, the preview
route) against the manifest. `Assemble` is what a build makes of what its queries returned, so that
one definition serves the build (`ReadOwn`), the manifest of one instant (`Manifest`) and the proofs.

### DeviceAccess

`device` and `tokens` are the rows; `claim` is the pairing request of each box inside the API, in
the steps of the route (`FindCode`, `ClaimCode`, `CreateToken`, `AnswerPair`); `box` is the agent's
boot and pairing loop with the credentials on disk; `link`, `srv` and `hub` are the two ends of
its websocket and the hub's map; `hello`, `wire`, `told`, `version`, `known` and `run` are the messages and syncs that bring
news. A version is one of a few contents, so a change may be undone by the next one; a sync
reports the content it fetched when it ends, and may fail, after which nothing repeats it while
the socket is open (`missed`). A box whose credentials could not be written runs on with the token
in memory (`RunUnsaved`) and pairs anew after a crash. A box has one socket it dialled last and one it has given up, which may be
accepted or closed late. `regen` is a regenerate-pairing-code handler between its read and its
write. Events: agents and API die, links break, responses get lost, Redis drops a push; codes are
regenerated or expire, tokens revoked, the device deleted; `signage pair` is run.

### Telemetry and Ledger

`buffer` has the rows of the two SQLite buffers, `made` how many were ever written, `wire` the
requests the server has not finished, `stored` counts the rows the server has of each entry: every
request inserts its batch, and only `Duplicate` (the unique `clientEventId`, with `skipDuplicates`)
keeps an event from getting a second row; log lines have no such key. `Watchdog` is
`config.watchdog`; the runs have it on. `StartFlush` is the part of
`flushBuffers` before its await, `FinishRequest` what follows the answer; a request its sender gave
up may still be processed. `position` is the agent's current item, `shown` the server's, `beats`
the delayed heartbeats. `page`, `seen`, `problem` and `busy` are the kiosk page as
`evaluateLiveness` sees it. `Ledger` is what both buffers promise: an entry is on its way until
counted, is given up only when `Kept` newer ones exist, and does not stay on its way for ever.

### Upkeep

Time is in days and the steps of the jobs interleave within a day. `runs` are runs of `backup.sh`
with what each has listed, dumped and verified; `bucket` has the bundles, `marker` the day of the
Redis key. `restore` is a run of `restore.sh`, `job` what the maintenance worker (concurrency 1)
is at: a retention run, batch after batch behind the gate it read once, or an alert cycle, whose
notification and whose recording are two steps; `Takes` is the scheduler's and the worker's part of
both, `Snapshot` what an alert cycle reads and `Firing` what it makes of it. An alert job also ends when
Redis refuses to record what was sent (`JobDies`). `db.came` says on which
day each row came in, which is what a bundle must have covered. Only the alerts `queue-backlog` and
`backup-stale` are modelled; the others differ in their condition.

### Loader, PlaylistEditor and MediaPage

`Loader` is the `useApi` hook: `Ask` is its effect (which cancels the request before), `Receive`
the answer. `PlaylistEditor` is one tab: three loaders, the form and its `dirty` flag, a save in
two requests (`save`), a rule write, a duplication that navigates within the component
(`copying`, `at`), the assignment dialog and the uncontrolled interval input. Writes count up a
version in `db`; `mine` is the version each query must know of. `MediaPage` polls: `grid` and `tree`
are its loaders, `query` the view, filter and page, `upload` the loops of its upload handler, with
the `banner` and error they share; the count and the page of a listing are two queries, and
writes may fall between them (`ReadHalf`); `DialogOffers` is what the open dialog lets the user choose.

## 4. What the runs check

| Run | Module | Properties | Scenarios | Distinct states |
|---|---|---|---|---|
| `sync_index` | MCDeviceSync | `SyncInv`, `ManifestPlayable` | edit + crash + push; edit + crash + damage; edit + clear_cache; calm: two edits + failed call + crash on polls; two edits + broken link + lost publish; edit + failed call + crash over a socket | 2.28M |
| `sync_live` | MCDeviceSync | `EventuallyInSync` | edit + failed call + full disk on polling; replaced file + failed call + refresh; a damaged file with an edit, with a crash, with a failed repair; over a socket: edit + failed call; two edits that may undo each other + broken link | 936k |
| `cmd_runs` | MCCommandQueue | `ResultIsTrue`, `ResultSticks`, `EventuallyRuns` | crash + lost publish; broken link + failed call + expiry; two commands on polls with a failed call; two commands and overlapping polls | 487k |
| `access_pair` | MCDeviceAccess | `OneTokenPerCode`, `HubHoldsTheOpenSocket`, `NoClaimAfterDelete`, `PairsWhileOffered`, `ChangeReachesBoxes` | two boxes with one code while it is regenerated, expires or goes with the device; a token revoked; agents and API restarted; links broken, pushes lost and syncs failing while content changes and changes back; credentials that cannot be written | 222k |
| `play_loop` | MCPlayer | `EndsWhatStarted`, `VideoWatched`, `NeverFrozen` | eight playlists, replaced at any step | 3.8k |
| `queue_order` | MCPlaybackQueue | `RulesKeepTime`, `NoImmediateRepeat`, `EverythingPlays` | eight contents, two rebuilds | 5.7k |
| `media_files` | MCMediaPipeline | `OfferMatchesObject`, `ComesToRest`, `ReadyIsAnnounced` | two jobs of one video with new encoder settings and a new tier; all three attempts used up inside the try, outside it, by both; failing Redis + crash + deletion; a worker that dies twice; an API that dies | 181k |
| `lib_edits` | MCLibrary | `CopyIsCurrent`, `ManifestClosed`, `SoundUnlessRaced`, `UsageWarns`, `PreviewAgrees` | eleven databases, each with the kinds of requests whose order matters, two requests at a time | 245k |
| `tele_flush` | MCTelemetry | `BuffersAreKept`, `NowPlayingSettles`, `LostPageIsReported` | plays and lines with a lost request, a crash, a late heartbeat; a dying page with a sync, a restart, a broken socket | 173k |
| `upkeep_nights` | MCUpkeep | `MarkerPromises`, `DeletedIsBackedUp`, `PruneKeepsPolicy`, `FiringIsTold` | late rows and a failing Redis; failed uploads, two runs at once; dying runs and a migration; a lost database and a restore; a stopped database; alerts with lost notifications | 1.02M |
| `edit_saves` | MCPlaylistEditor | `OwnWritesShown`, `EditsSurvive`, `SavedAsPressed`, `ShownNeverGoesBack`, `NothingBusyForever` | edits beside saves, with a second user, a failure, a duplication, rule writes; a page being opened | 514k |
| `grid_shows` | MCMediaPage | `NoFileForgotten`, `GridCatchesUp` | views and pages beside another user; bulk actions with failures; uploads beside each other and beside actions | 322k |

What they show:

- **The index never contradicts the manifest** (`SyncInv`) although the integrity
  passes, clear_cache, crashes and commits have no lock between them, and although a run's diff
  is minutes old when it is applied (`RunHoldsDiff`, part of `SyncInv`).
- **The screen's content survives failures** (`ManifestPlayable`): in calm scenarios, with edits,
  failed calls, crashes and broken links, each media of the applied manifest has its row and its
  bytes at every instant. Damage and `clear_cache` destroy files by definition, a replaced file is
  replay `find_replace`, and a sync beside the boot pass is discussed in section 5.
- **An edit arrives, unless it is known why not** (`EventuallyInSync`): through failures, a full
  disk, a file replacement, damage, crashes and sockets that break half-open, a device ends in
  sync; or it is connected, so that it does not poll, and behind until the next push, because
  its last sync failed or was refused, a push was lost, or its hello crossed a sync; or it
  waits, until its manifest changes, for a row whose repair was cut off. The documented
  recovery ("the next poll, sync_required push, or refresh_content command") has no such exceptions;
  `find_unretried` replays each of them against it.
- **A recorded result is true and final** (`ResultIsTrue`, `ResultSticks`): duplicate
  deliveries, late acks, reordered messages and crashes included. `ResultSticks` excepts the
  unconditional update that ends the POST handler. **Every command runs or expires**
  (`EventuallyRuns`) when the socket breaks, a call fails or only polls are left, as long as
  nothing crashes and no publish is lost.
- **A code is good for one token** however many cloned boxes present it (`OneTokenPerCode`), is
  never taken on a device already deleted (`NoClaimAfterDelete`), and a box gets its credentials as
  long as its code is there to be taken (`PairsWhileOffered`). The hub holds exactly the open socket
  through replacements and late closes (`HubHoldsTheOpenSocket`); push, hello and polls together
  bring every change to the box, unless it stays connected after a sync that failed, a push that was
  lost or a hello sent beside a sync (`ChangeReachesBoxes`).
- **Nothing ends an item but what was armed for it** (`EndsWhatStarted`), every video has its
  ceiling (`VideoWatched`), and content that needs motion moves (`NeverFrozen`), through any
  updates, wedges and failures, with one exception, which `find_freeze` replays: an item that
  `applyState` keeps although nothing will end it, a single looping one of a list that grows, or the
  last of a finite list that is over.
- **Rules keep their time** (`RulesKeepTime`), random play does not repeat itself at a cycle's
  border (`NoImmediateRepeat`), nothing in a pool or a rotation starves (`EverythingPlays`).
- **What a manifest advertises is what is served** (`OfferMatchesObject`), although two jobs of one
  asset overwrite the same keys, throw, crash and start over in new settings; assets and jobs
  come to rest (`ComesToRest`) and what became ready is published (`ReadyIsAnnounced`), unless a
  job's last attempt failed outside the try, in its catch or at the publish, or its worker died once
  too often: then a row may stay in "processing", or a ready asset unannounced.
- **A device ends with the manifest the database describes** (`CopyIsCurrent`), and every manifest
  is closed (`ManifestClosed`), wherever edits fall between the seven queries of its build and
  between each other's checks and writes; a change nobody announces is the exception of `CopyIsCurrent`.
  The confirmation dialogs count every device whose default, schedules or their
  playlists would change with a deletion, or lose something by a move to another folder; devices in an
  emergency and devices that gain by such a move are not counted by the code (`UsageWarns`). The
  schedule preview agrees with the device as long as requests do not overlap and the override in
  force has not lost both its playlist and its medium (`PreviewAgrees`).
- **Checks made before a commit keep the rows sound** (`SoundUnlessRaced`) as long as no other
  request commits in between: folders stay a forest with distinct names among siblings, usable media
  lie in live folders, entries and rules name usable media and live folders, schedules and devices
  live playlists, and a membership outlives its group only until the second statement of the group's
  deletion. The assignments of schedules and overrides to groups, and what overrides show, are not
  covered: the code keeps them when a group, playlist or medium goes, and looks past them when
  it builds a manifest. Races between requests are not covered either; what devices get under
  those is the subject of `ManifestClosed`.
- **Nothing is lost silently, and no play is counted twice**: both buffers implement `Ledger` with its
  liveness (`BuffersAreKept`), so an event gets at most one row, however often it is sent; the
  dashboard settles on the current item whatever arrives late
  (`NowPlayingSettles`), and a page that dies is reported (`LostPageIsReported`).
- **The marker means a bundle** that has the rows of the day before it (`MarkerPromises`), so
  retention deletes nothing that is in no bundle (`DeletedIsBackedUp`), though it reads the marker
  once and two runs prune from old listings (`PruneKeepsPolicy`); a lasting trouble is told
  although notifications get lost and the worker dies between sending and recording
  (`FiringIsTold`).
- **The editor never goes back** (`ShownNeverGoesBack`), shows its own writes
  (`OwnWritesShown`), saves the form of the moment Save was pressed (`SavedAsPressed`) and keeps
  what was typed, with Save enabled, until a save succeeds or Duplicate leaves (`EditsSurvive`: for
  edits made with no load under way; an edit beside a load or a successful save is overwritten,
  `find_saved`). **The grid catches up**
  (`GridCatchesUp`) and no uploaded file goes missing without an error (`NoFileForgotten`).

### Replays

No run is expected to fail. These configurations replay counterexamples met while the scenarios of
the passing runs were chosen; each states something a document, a comment or a neighbouring case
suggests and the code does not do. They run as any other, with the MC module of the family
(`find_empty` uses MCMediaPage with three files), and are not in `PROJECT.json`:

| Configuration | Module | Property | What happens |
|---|---|---|---|
| `find_unretried` | MCDeviceSync | `RecoversByItself` | Over an open websocket a sync is refused for lack of space and never tried again, although space gets free (`docs/sync-protocol.md:164-166`). With `RepairCutOff`: a crash after a damaged file's row is dropped and before the repair commits. With `HelloCrossed`: an edit undone while the first is being fetched, hello found equal, and the older manifest committed after it. |
| `find_clear` | MCDeviceSync | `NothingForgotten` | clear_cache empties the index under a run that has diffed against it; unchanged media lose rows and files for good. |
| `find_replace` | MCDeviceSync | `ContentPlayable` | A replaced file is renamed over the one the applied manifest plays; a later download of that run fails. |
| `find_shown` | MCDeviceSync | `ShownPlayable` | After a commit the kiosk still has the old state while the files it names are deleted. |
| `find_sweep` | MCDeviceSync | `SweepSparesSync` | The boot pass's orphan sweep deletes a file a concurrent sync has just downloaded. |
| `find_suspect` | MCDeviceSync | `SuspectsRehashed` | A player error marks a file, but with an unchanged manifest no pass ever looks at it. |
| `find_acked` | MCCommandQueue | `EveryCommandRuns` | A crash between ack and handler: acked rows are never delivered again. |
| `find_freeze` | MCPlayer | `AlwaysMoves` | A second item added to the only one on screen is never shown: the first was shown without a timer (comment at `apps/player/src/main.ts:476-477`). With `Ended`: a finite list that is over is replaced by one that loops and has its last item, which stays. |
| `find_pairing` | MCDeviceAccess | `PairCommandRepairs` | The token is revoked, a code regenerated and `signage pair` run, as `docs/runbook.md` says: the box keeps its stale credentials. |
| `find_move` | MCLibrary | `MovesKeepContent` | A folder moved into or out of one that a playlist shows recursively changes what devices show, and they are not notified (comment of PATCH .../folders in `media-folders.ts`). |
| `find_recovered` | MCTelemetry | `RecoveryIsReal` | A recovery is logged for a page that never connected, because a report rewinds the clock of its grace. |
| `find_restore` | MCUpkeep | `RefusesData` | With the database stopped the check for existing data finds none, and the restore goes ahead unforced (`docs/tasks/T011-backup-restore-and-upgrade-path.md:357`). |
| `find_saved` | MCPlaylistEditor | `SavedLabelIsTrue` | An edit made during a save is labelled "Saved" (`PlaylistEditor.tsx:219`) and lost by the reload. |
| `find_empty` | MCMediaPage | `EmptyMeansEmpty` | "No media found" (`Media.tsx:400`) on a page beyond the last, after its files were deleted. |

Noted while reading, outside the models: a media URL has no checksum, so the page does not
reload a replaced file of an item that stays; the first progress report of a video counts as
movement; a looping video shorter than half a second never re-arms its ceiling; the settings form
of `DeviceDetail.tsx` (about line 405) is overwritten by the page's own 10 s poll; a lost
"resolved" notification is not sent again (`alerts.ts:130`, `maintenance.ts:88`); in the editor,
Duplicate followed by Save before the copy has loaded writes the old form to the copy, the
uncontrolled interval input sends its stale value again on blur, and the assignment dialog
replaces all assignments from the snapshot it was opened on.

### Bounds

- `DeviceSync`: `Media` has one or two ids, `Contents` two of different sizes. Two media are needed
  for a run that has downloaded one file and fails on the other, or keeps one and replaces the
  other; the code treats files one by one and compares them with nothing but their own row, so a
  third adds interleavings of the same kind. `MediaSymmetry` is used in the safety runs only.
  `HashLimit = 1` lets a pass hash one of two files, so damage may be seen or missed.
- A budget has one to three events of a kind. Each kind combines with a crash or a failure in
  some scenario. Some entries are never spent, they switch a scenario: in `DeviceSync`, `socket`
  (the device holds a websocket), `hurry` (edits may be closer to each other than the 30 s of
  `ALLOWED_MEDIA_CACHE_TTL_MS`) and `calm` (`ManifestPlayable` is claimed: nobody else touches the
  files, and the socket is not open during the boot pass); in `CommandQueue`, `socket` and
  `overlap` (poll cycles may overlap).
- `CommandQueue`: two commands, two executions each, two poll cycles at a time; with two commands
  only polls are on, which is where their order matters.
- `Player`: five items, one pair sharing its media, three videos, one of them with a duration;
  lists of one to three, single and finite ones with their last item in a looping one.
  `StallReports = 3` as in the code. No counter is unbounded.
- `PlaybackQueue`: pools of up to three entries, five rules with intervals 0 to 3, two of which
  trigger together with different selection modes, and one of a longer interval. Two rebuilds:
  one leaves an engine in the middle of a cycle, another one a fresh engine.
- `MediaPipeline`: one video with one tier beside the standard one, one device, two jobs and two
  slots, two encoder settings, three attempts as in `queues.ts`, one forgiven stall, and as many errors
  of each kind as use the attempts up: two runs of an asset are the
  smallest case of a race, and each asset is served from its own rows and keys.
- `Library`: two media, two folders (a chain or side by side), two playlists with one rule, two
  schedules, one group and one device that is in it; two requests. Two of a kind are needed for an
  order or a cycle, two requests for a race; devices do not touch each other's copies.
- `DeviceAccess`: two boxes, each with two sockets and one pairing request in the API; two contents,
  so that a change may be undone.
- `Telemetry`: `Kept = 2` and `Batch = 2` so that three rows overflow the ring and a batch leaves
  some behind; `MaxRows = 8` is never reached by what the budgets allow to be written. Two flushers,
  the timer and one `send_logs` command.
- `Upkeep`: four days, a window of two, freshness of one day, batches of one row and two batches per
  run, so that a run ends with rows left; two daily bundles, one weekly, one monthly and tagged
  bundles of one day, so that each clause of the policy can be the only one that keeps a bundle.
- `PlaylistEditor`: two settings, one medium, two intervals, two entries. `MediaPage`: two files,
  one per page, one matching the filter; two uploads.

`CHECK_DEADLOCK FALSE` is used where the system stops when the budget is used up (CommandQueue,
DeviceAccess, MediaPipeline, Library, Telemetry, Upkeep, the two pages), and in PlaybackQueue, where
content without a pool and without playable rules has nothing to return (`next()` is null).

### Fairness

`FairSpec` (`EngineFairSpec` and `PageFairSpec` in two modules) states fairness of what the code and
its timers do, never of what users, failures or crashes do. It is weak fairness, except where a
strong one is named:

- DeviceSync: the run, each pass, clears and messages go on, because every await ends: requests
  have timeouts, file operations return. Poll, recompute and cooldown are timers. `Connect` and
  `Disconnect` of a half-open socket stand for the reconnect timer and for TCP's own timeout.
  `DiskFrees` assumes that somebody frees space; without it no sync could ever succeed.
- CommandQueue: the same of handlers, the POST handler, messages on an open socket and polls.
- Player: backoff, load, advance timer, ceiling and reports happen. A video that moves
  ends, unless it wedges first; `VideoErrors` and `VideoWedges` have no fairness.
- PlaybackQueue: the page keeps asking for the next item.
- DeviceAccess: handlers of the API run to their end, boot, retry and reconnect timers fire, an
  answered dial opens, a dead socket is noticed by either end, a publish goes out. Each box has one
  weakly fair action for each kind of activity: pairing, boot, link, syncs and pushes, hellos.
- MediaPipeline: each request and each run takes its next step, the stalled check finds jobs of a
  dead worker, and the worker is started again. `TakeJob` is strongly fair: another job may take
  the last slot again and again, but BullMQ hands out jobs in order.
- Telemetry: the flush timer, heartbeat and monitor fire, the server finishes what reaches it, a
  page that runs connects and reports, a sync ends, time passes.
- Upkeep: the worker's scheduler runs retention and alerts, and a job takes its steps. Backups and
  restores have none: a run may hang or die anywhere.
- PlaylistEditor: every request is answered or fails, and its answer is handled.
- MediaPage: requests are handled and the timer runs. An answer to the grid, and the first of its two
  queries (`ReadHalf`), are strongly fair: every
  poll cancels the request before it, so nothing is ever shown on a line that always takes
  longer than 5 s. `GridCatchesUp` is claimed where again and again an answer beats the next poll.
- Library has safety properties only.

## 5. What is proved

The eight `*Proofs.tla` hold TLAPS proofs for every value of the constants that satisfies the modules'
assumptions (`SyncAssumption`, `CommandAssumption`, `PlayerAssumption`, `QueueAssumption`,
`AccessAssumption`, `PipelineAssumption`, `LibraryAssumption`, `ScenarioAssumption`,
`TelemetryAssumption`, `SettingsAssumption`, `EditorAssumption`, `PageAssumption`: the
markers such as `Absent` are distinct from the data, budgets are numbers, a database to begin with
is well formed, and so on). TLC evaluates these assumptions in each run. No bound on media,
commands, items, rules, boxes, jobs, rows, bundles, requests, files or budgets is used.

| Theorem | Statement | Along which argument |
|---|---|---|
| `SyncInvariant`, `TypeCorrect`, `IndexMatchesManifest` | `Spec => []SyncInv`, and its parts | see below |
| `EvictionFindsNothing` | no cache row is unreferenced | from `RowsMatchManifest` |
| `OfflinePlayback` | `Spec => []ManifestPlayable` | `CalmInv`, see below |
| `CommandInvariant`, `ResultsAreTrue` | `CommandSpec => []CommandInv` | results in flight are true as well |
| `ResultsStick` | `CommandSpec => ResultSticks` | case by case over `CommandNext` |
| `PlayerInvariant`, `PlaysPairUp`, `VideosAreWatched` | `Spec => []PlayerInv` | see below |
| `QueueInvariant`, `RulesOnTime`, `NoRepeats` | `EngineSpec => []QueueInv`, and two action properties | see below |
| `AccessInvariant`, `CodesAreSingleUse`, `DeletedIsNotClaimed`, `HubIsRight` | `Spec => []AccessInv`, and three properties | see below |
| `PipelineInvariant`, `OffersMatch` | `Spec => []PipelineInv`, and `OfferMatchesObject` | see below |
| `RowsStaySound`, `ChecksStay`, `UpcomingAreCurrent` | inductive invariants of `Library` | see below |
| `CopiesAreCurrent`, `ManifestsClosed`, `RowsAreSound`, `PreviewIsShown`, `DeletionsAreAnnounced` | the five properties of `lib_edits` | see below |
| `TelemetryInvariant` | `Spec => []TelemetryInv` | see below |
| `EventsFollowLedger`, `LinesFollowLedger` | `Spec => EventLedger!Safe`, `Spec => LogLedger!Safe` | step simulation under `TelemetryInv` |
| `TypesHold`, `PolicyInvariant`, `PolicyIsKept` | `Spec => []PolicyInv`, and `PruneKeepsPolicy` | see below |
| `PromiseInvariant`, `MarkerMeansBundle`, `NoLastCopyDeleted` | under `FewUploadsFail`: `PromiseInv`, `MarkerPromises`, `DeletedIsBackedUp` | see below |
| `EditorInvariant`, `OwnWritesAreShown`, `EditsStay`, `SavesAreWhole`, `AnswersInOrder` | `Spec => []EditorInv`, and four properties | see below |
| `UploadsAreAccountedFor` | `PageSpec => []NoFileForgotten` | `PageInv` |

- **SyncInv.** `RowsMatchManifest` is not inductive: a commit replaces manifest and index by
  `target` and by what a diff against an *older* index says. `RunHoldsDiff` says what must
  hold in between: each row still in the index will be deleted, overwritten, or is what the new
  manifest wants. Everything else that touches the index (removal of invalid rows, clear_cache)
  only removes rows, which keeps it true. That is the whole reason why the missing locks do no
  harm to the index, and why they do harm completeness (`find_clear`).
- **CalmInv.** That a medium of the manifest has row and file is lost at a commit, unless the run
  kept both: what it has not fetched is in the index as the new manifest wants it and what it has
  fetched is on disk (`RunLosesNothing`), no pass has found anything invalid or sweeps what has a
  row (`PassLosesNothing`), and runs, passes and clears exclude each other (`OneAtATime`). The last
  part is where calm is needed. With a websocket open during the boot pass and two edits, a medium
  may be removed, found missing by the pass and put back before the pass, which works on the rows
  it read at its start, drops its row and file. With polls only this cannot happen: the agent
  begins to poll when the boot pass has ended.
- **CommandInv.** A row's outcome comes from a result message or an HTTP report, these from an
  execution, so truth has to be stated of `results` and `exec` too.
- **PlayerInv.** Timers and video events fire in later steps, so `EndsWhatStarted` needs that the
  call in flight is about the current item with no timer armed (`ShowIsCurrent`) and
  that the current item is where the order is (`CurrentIsActive`), which is what
  `applyState`'s `keepIndex` preserves.
- **QueueInv.** That counters agree with the history and stop exactly at their interval
  (`OnTime`) gives `RulesKeepTime`; that the media played last is the cycle's (`CycleInv`),
  with lemmas on the swap of `reshuffle`, gives `NoImmediateRepeat`.
- **AccessInv.** Single use needs more than the tokens: a request that has taken a code is the
  only one to have it and no token comes from it (`TakenOnce`), tokens come from different codes
  (`TokensOnce`), and all are codes that were generated (`CodesAreIssued`). `NoClaimAfterDelete` is
  about a read before the deletion and an update after it: deletion takes the code away, and a code
  a regenerate handler writes afterwards is new, so no request can have found it (`FoundIsGone`).
- **PipelineInv.** Two jobs overwrite the same keys, so an object cannot be tied to a run. What
  holds instead is that everything running code has written is of the settings of the *current*
  worker (`RunsCurrent`, by stage of the run: what is encoded so far), because a crash ends all
  runs at once; and a "ready" that appears while a marked run is going on is of that worker too
  (`ReadyIsCurrent`). The lemma `KeepsCurrent` carries both through a step of another job.
- **KnownInv.** Ids are made in the commit of a request, and a build reads tables one after the
  other. That a row made after a build began does not get into it halfway needs that nothing
  stored, requested or being built refers to an id not in use (`RowsStaySound`).
- **UpcomingIsCurrent.** `CopyIsCurrent` speaks of devices at rest, so it says nothing during a
  build. `Upcoming(d)` is the manifest the build will end with if nothing is edited any more; the
  invariant is that a device nobody owes a `sync_required` (`Told`) has an `Upcoming` equal to the
  manifest of the database, at every stage of a build. A commit is either *loud*, everybody of the
  organization is told, and the invariant asks nothing of them; or *selective* (schedules, groups,
  emergencies, devices), and then those it leaves out see nothing of it, at whatever query their
  build is (`Unseen`). Folder moves and reprocessing are announced to nobody: they make devices
  `silent`, which is what `find_move` is about.
- **PreviewInv.** The preview reads rows in its own way and agrees with the manifest when schedules
  and defaults name live playlists. DELETE of a playlist checks that first, POST of a schedule checks
  the playlist; each check is right at the commit if nothing was committed in between
  (`ChecksHold`), hence `~overlap`.
- **RowsInv.** For the other rows what has been checked is `ContentChecked`; `CheckedStays` says it
  survives whatever leaves the tables it reads alone, and without an overlap nobody else writes them.
  Two operations need more than that. A moved folder's new parent is not among its descendants,
  which are closed under children, so no folder comes to be its own ancestor (`ForestMoved`); a
  deleted subtree is closed too, so nobody outside it loses a parent (`ForestCut`). A group's
  deletion takes two statements: between them its memberships remain, and the request that owes
  the second statement is named by `MembersSound`.
- `ManifestsClosed` follows from what `Assemble` returns for *any* results of the queries
  (`AssembleClosed`), so no interleaving matters; `DeletionsAreAnnounced` from the types alone, in
  two lemmas that compare the manifest with and without the medium or the folder
  (`MediaUsageRight`, `FolderUsageRight`).
- **TelemetryInv.** The event table has an entry at most once (`RowsOnce`), which makes the ledger's
  `counted` grow by one at most; what a request has saved is stored, and a row missing from buffer
  and database has `Kept` newer ones
  (`MissingIsOld`), which is what the ledger's `GiveUp` asks for. The refinement maps `pending` to
  what is buffered or unfinished and not stored, so resending and late processing are stutters.
- **PolicyInv.** A run deletes by a list of names it made from an older listing. What is on the list
  is not promised by the policy, and never will be (`DoomedForGood`): promises only shrink, because
  newer bundles only get more and days only pass, *and* no number is used twice, not by a dump that
  is still to be uploaded either (`Numbered`). Counting newer bundles takes lemmas on finite sets
  (`NewerGrows`, `StaysBehind`).
- **PromiseInv.** The marker is set after an upload, so a complete bundle of that run's day or later
  has to stay in the bucket while the run is between upload and marker, and while retention deletes
  behind a marker it has read before. A complete bundle can only be pruned when `KeepDaily` others
  are newer; it is the newest complete one unless all of these are broken, i.e. uploads that failed
  their size check. Therefore the hypothesis `FewUploadsFail`: fewer uploads fail, over a behaviour,
  than there are daily slots (and tagged bundles are kept for at least a day). It cannot be
  dropped: with two failed uploads and `KeepDaily = 2` TLC finds a marker without a bundle. The proof
  also settled what `DeletedIsBackedUp` may say: the age of a row counts from the day the gate was
  read (`job.cutoff + Window`), not from the day of the deletion, which a long run reaches later.
- **EditorInv.** A loader has at most one request that is not cancelled, and its answer will be
  older neither than what is shown nor than the page's own writes (`LoaderOK`); the
  duplication's navigation is the only way the page changes its playlist (`StoreOK`); a
  save that stands alone has stored its first half (`SaveOK`).
- **PageInv.** An upload lets go of a file in a later step than the one that stored it, so the answer
  it holds has to be true (`UploadsKnow`), whatever other users do to the file meanwhile.

**Only model-checked** are the liveness properties: `EventuallyInSync`, `EventuallyRuns`,
`NeverFrozen`, `EverythingPlays`, `PairsWhileOffered`, `ChangeReachesBoxes`, `ComesToRest`,
`ReadyIsAnnounced`, the liveness half of `BuffersAreKept`, `NowPlayingSettles`,
`LostPageIsReported`, `FiringIsTold`, `NothingBusyForever`, `GridCatchesUp`. They are out of the
prover's reach, as everything with `ENABLED` is. Every safety property of a run is a theorem.
Inductive invariants are defined beside the properties in the modules they are about (those of
`Telemetry`, `PlaylistEditor` and `DeviceAccess` in part in the proof modules) and were checked by
TLC, on the configurations of the runs, before they were proved.

## 6. What is not modelled

`PROJECT.json` lists every component with its status. Never modelled: authentication and MFA
(cryptography and rate limits over single rows), probing and transcoding, the schema and its seed,
installation and update scripts, the mock device, and dashboard pages without a protocol of their
own. Which schedule window matches an instant (`resolve.ts`, calendar arithmetic over time zones and
DST) is left to the date library. Within the modelled parts:

- **DeviceSync, Player:** overlays and page layout, screenshots, what a command does on the device
  (except for refresh_content and clear_cache), the order of state broadcasts, `stop()` on a socket
  that is still connecting.
- **Library:** all checks of a handler are one step, a query with its includes is one query, and a
  transaction is atomic at its commit. DELETE of a playlist does not look at overrides, and creating
  a device does not validate its groups: both as in the code, the first in the model, the second
  left out. Which file of a medium a device fetches (`applyProfileVariants`, after the last query)
  is `MediaPipeline`'s `SelectVariant`. Two racing folder moves may make a cycle, which `Descendants`, like
  `collectDescendantIds`, walks once: `SoundUnlessRaced` leaves such races out, and the
  properties of manifests hold in spite of them.
- **DeviceAccess:** one API process, one device, one pairing request per box at a time.
- **MediaPipeline:** durations, dimensions and byte sizes; the upload's own checks of a file.
- **Telemetry:** entry ids and times only grow, a heartbeat is delayed or lost but not
  duplicated; after a restart the agent does not know its position until the next start, so a
  single looping item shows as unknown; a check that falls into a sync forgets the problem in
  silence, so no recovery is logged; repeated log lines with the same text are not told apart from
  duplicates; events without a `clientEventId`, which agents of this repository always send, are not
  modelled; what the page sends while its socket is closed is dropped before it is an entry.
- **Upkeep:** runs and jobs last at most a day (`TimeoutStartSec=3600`), the three telemetry tables
  are one, a restored row counts as arriving on the day of the restore; the branch for a clock that
  went back, local bundle files, the audit row and `reconcile-media.sh` are left out.
- **PlaylistEditor, MediaPage:** one tab in detail, other users as writers between its steps. The
  editor has one rule per playlist and one rule write and one duplication at a time; its settings
  are one value. The media page has one folder, one filter and one call at a time beside the
  uploads, and does not follow cancelled requests.
