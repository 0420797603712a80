------------------------------ MODULE DeviceSync ------------------------------
(***************************************************************************)
(* Content sync of one signage device: the agent's SyncEngine with its     *)
(* SQLite state and media directory, the server side it talks to (manifest *)
(* builder, media file route, sync_required pushes), and the triggers that *)
(* start a sync (boot, websocket push, poll fallback, commands, repair).   *)
(*                                                                         *)
(* The agent is one Node.js process: code between two awaits is one step   *)
(* here, and every await is a point where the other tasks may run.  The    *)
(* tasks are the sync run (at most one), the integrity pass that ends a    *)
(* run, the boot task with an integrity pass of its own, and clear_cache.  *)
(***************************************************************************)
EXTENDS Integers, FiniteSets

CONSTANTS
  Media,       \* media ids the organisation may assign to the device
  Contents,    \* contents (checksums) a media file may have
  Size,        \* size in bytes of each content
  Absent,      \* no row, no file, not in the manifest
  Short,       \* a truncated file: its size is wrong
  Rotten,      \* a file corrupted at its right size
  NoManifest,  \* the kv table holds no manifest
  NoCache,     \* the API instance has no allowed-media set for the device
  NoHello,     \* no hello message in flight
  HashLimit,   \* files re-hashed per integrity pass (cacheHashPerPass)
  Budgets      \* how many events of each kind a behaviour may contain, one function per scenario

\* What the environment may do, and how often: playlist edits, replaced files,
\* pushes lost by the server, broken sockets, failed HTTP calls, full disks,
\* agent crashes, damaged files, clear_cache and refresh commands.  The last three
\* are never spent: they say what the scenario allows.
Events == {"edit", "replace", "publish", "link", "http", "full", "crash", "damage", "clear", "refresh",
           "socket", "hurry", "calm"}

Manifest == [Media -> Contents \cup {Absent}]
Slots == {"boot", "run"}

ASSUME SyncAssumption ==
  /\ Absent \notin Contents
  /\ Short \notin Contents \cup {Absent}
  /\ Rotten \notin Contents \cup {Absent, Short}
  /\ \A f \in Manifest : NoManifest # f /\ NoHello # f
  /\ NoHello # NoManifest
  /\ \A ms \in SUBSET Media : NoCache # ms
  /\ Size \in [Contents -> Nat]
  /\ HashLimit \in Nat
  /\ Budgets \subseteq [Events -> Nat]
  /\ \A b \in Budgets : b["calm"] > 0 => b["damage"] = 0 /\ b["clear"] = 0 /\ b["replace"] = 0

VARIABLES
  \* the server
  assigned,     \* media referenced by the device's playlists
  asset,        \* the content the file route serves for each media id
  unpublished,  \* an edit is in the database, its sync_required is not sent
  allowed,      \* allowedMediaCache entry of the device, or NoCache
  \* the websocket
  ws,           \* "down", "up", or "half" when only the agent thinks it is up
  hello,        \* manifest carried by a hello the server has not handled
  push,         \* a sync_required message is on its way to the agent
  \* what survives a crash: SQLite and the media directory
  manifest, index, file,
  aged,         \* files whose mtime is past ORPHAN_GRACE_MS
  room,         \* whether planStorage finds enough space
  \* the sync run
  pc, force, target, toGet, got, toDelete, stale, queued, queuedForce,
  \* integrity passes, one per slot
  maint,
  \* the rest of the agent's memory
  boot, clearing, clearTodo, suspect, cooldown,
  shown,        \* media of the PlayerState the kiosk browser was last sent
  left,         \* events the environment may still cause
  \* history
  behind,       \* since the last fetch: a push lost, a run failed, or a hello sent with the
                \* manifest that a run was about to replace
  unrepaired    \* a row was left missing, and no diff has been made since

serverVars == <<assigned, asset, unpublished, allowed>>
linkVars   == <<ws, hello, push>>
diskVars   == <<manifest, index, file, aged>>
runVars    == <<pc, force, target, toGet, got, toDelete, stale>>
queueVars  == <<queued, queuedForce>>
taskVars   == <<boot, clearing, clearTodo, suspect, cooldown>>
history    == <<behind, unrepaired>>
vars == <<serverVars, linkVars, diskVars, room, runVars, queueVars, maint, taskVars, shown, left, history>>

Spend(kind) ==
  /\ left[kind] > 0
  /\ left' = [left EXCEPT ![kind] = @ - 1]

\* Edits may be closer to each other than ALLOWED_MEDIA_CACHE_TTL_MS.
HurriedEdits == left["hurry"] > 0

\* Nobody but the agent touches its files, no media is replaced or cache cleared,
\* and the network comes up after the boot pass, so that none runs beside a pushed sync.
Calm == left["calm"] > 0

\* The network lets the device hold a websocket to the server.
Realtime == left["socket"] > 0 /\ (Calm => boot # "pass")

Rows(rows) == {m \in Media : rows[m] # Absent}

Required == IF manifest = NoManifest THEN {} ELSE Rows(manifest)

\* Media of the applied manifest without a row: the player skips them.
DroppedRows == ~(Required \subseteq Rows(index))

\* What ends a run or a pass while a row is missing leaves it to the next manifest: only a
\* diff finds it, and an unchanged manifest is not diffed.
LeavesRows == unrepaired' = (unrepaired \/ DroppedRows')

-------------------------------------------------------------------------------
(* The server.                                                             *)

\* buildSyncManifest: the complete desired state, by content.  Its version is
\* a hash of it, so two manifests have one version exactly when they are equal.
ServerManifest == [m \in Media |-> IF m \in assigned THEN asset[m] ELSE Absent]

\* A playlist, schedule or emergency edit: the set of referenced media changes.
EditPlaylists ==
  /\ Spend("edit")
  /\ HurriedEdits \/ allowed = NoCache
  /\ \E m \in Media :
       assigned' = IF m \in assigned THEN assigned \ {m} ELSE assigned \cup {m}
  /\ unpublished' = TRUE
  /\ UNCHANGED <<asset, allowed, linkVars, diskVars, room, runVars, queueVars, maint, taskVars,
                 shown, history>>

\* Reprocessing, or another playback profile: the same id gets other bytes.
ReplaceMedia ==
  /\ Spend("replace")
  /\ \E m \in Media, c \in Contents :
       /\ c # asset[m]
       /\ asset' = [asset EXCEPT ![m] = c]
  /\ unpublished' = TRUE
  /\ UNCHANGED <<assigned, allowed, linkVars, diskVars, room, runVars, queueVars, maint, taskVars,
                 shown, history>>

\* notifyOrgSyncRequired after the database write; only an open socket gets it.
Publish ==
  /\ unpublished
  /\ unpublished' = FALSE
  /\ push' = (push \/ ws = "up")
  /\ UNCHANGED <<assigned, asset, allowed, ws, hello, diskVars, room, runVars, queueVars,
                 maint, taskVars, shown, left, history>>

\* The API or worker process dies between the write and the publish, or Redis
\* drops the message: pub/sub keeps nothing.
PublishLost ==
  /\ unpublished
  /\ Spend("publish")
  /\ unpublished' = FALSE
  /\ behind' = TRUE
  /\ UNCHANGED <<assigned, asset, allowed, linkVars, diskVars, room, runVars, queueVars,
                 maint, taskVars, shown, unrepaired>>

\* ALLOWED_MEDIA_CACHE_TTL_MS passes.
AllowedExpires ==
  /\ allowed # NoCache
  /\ allowed' = NoCache
  /\ UNCHANGED <<assigned, asset, unpublished, linkVars, diskVars, room, runVars, queueVars,
                 maint, taskVars, shown, left, history>>

\* The set the file route consults: the cached one, rebuilt when it expired.
AllowedNow == IF allowed = NoCache THEN assigned ELSE allowed

-------------------------------------------------------------------------------
(* Sync requests.                                                          *)

MergedForce(f) == queuedForce \/ f

\* syncNow: start a run, or queue exactly one re-run behind the current one.
RequestSync(f) ==
  \/ /\ pc = "idle"
     /\ pc' = "fetch"
     /\ force' = f
     /\ UNCHANGED <<target, toGet, got, toDelete, stale, queueVars>>
  \/ /\ pc # "idle"
     /\ queued' = TRUE
     /\ queuedForce' = MergedForce(f)
     /\ UNCHANGED runVars

\* The finally block of syncNow: a queued request starts the next run at once
\* and the locals of runSync are gone.  The boot task goes on in the same turn
\* when the run it awaits is this one: after its repair it asks for the startup
\* sync, which queues when the next run has just been started.
FinishRun(again, forced) ==
  /\ pc' = IF again \/ boot = "repairing" THEN "fetch" ELSE "idle"
  /\ force' = (again /\ forced)
  /\ queued' = (again /\ boot = "repairing")
  /\ queuedForce' = FALSE
  /\ target' = NoManifest /\ toGet' = {} /\ got' = {} /\ toDelete' = {} /\ stale' = {}
  /\ boot' = CASE boot = "repairing" -> IF again THEN "done" ELSE "starting"
               [] boot = "starting" -> "done"
               [] OTHER -> boot

\* computePlayerState: manifest items whose media has an index row.
Showable == {m \in Media : manifest # NoManifest /\ manifest[m] # Absent /\ index[m] # Absent}

-------------------------------------------------------------------------------
(* The websocket between BackendConnection and device-ws.                  *)

\* socket 'open': the hello carries the applied version; onConnected recomputes.
Connect ==
  /\ Realtime
  /\ ws = "down"
  /\ ws' = "up"
  /\ hello' = manifest
  /\ push' = FALSE
  /\ shown' = Showable
  /\ behind' = (behind \/ pc \in {"diff", "storage", "download"})
  /\ UNCHANGED <<serverVars, diskVars, room, runVars, queueVars, maint, taskVars, left,
                 unrepaired>>

HelloMismatch == hello # ServerManifest

\* The server answers a hello with sync_required when the versions differ.
HandleHello ==
  /\ hello # NoHello
  /\ ws = "up"
  /\ hello' = NoHello
  /\ push' = (push \/ HelloMismatch)
  /\ UNCHANGED <<serverVars, ws, diskVars, room, runVars, queueVars, maint, taskVars, shown, left,
                 history>>

\* Nothing pings: the path breaks and only the server's side is known to be gone.
LinkBreaks ==
  /\ ws = "up"
  /\ Spend("link")
  /\ ws' = "half"
  /\ hello' = NoHello
  /\ push' = FALSE
  /\ UNCHANGED <<serverVars, diskVars, room, runVars, queueVars, maint, taskVars, shown, history>>

\* The agent's socket reports close or error.
Disconnect ==
  /\ \/ ws = "half" /\ UNCHANGED left
     \/ ws = "up" /\ Spend("link")
  /\ ws' = "down"
  /\ hello' = NoHello
  /\ push' = FALSE
  /\ shown' = Showable
  /\ UNCHANGED <<serverVars, diskVars, room, runVars, queueVars, maint, taskVars, history>>

\* onSyncRequired.
ReceivePush ==
  /\ push
  /\ push' = FALSE
  /\ RequestSync(FALSE)
  /\ UNCHANGED <<serverVars, ws, hello, diskVars, room, maint, taskVars, shown, left, history>>

\* Mutant of PollEnabled: the early return is inverted.
PollsWhenUp == boot = "done" /\ ws = "up"

PollEnabled == boot = "done" /\ ws = "down"

\* pollFallback, when its getCommands call succeeds.
Poll ==
  /\ PollEnabled
  /\ RequestSync(FALSE)
  /\ UNCHANGED <<serverVars, linkVars, diskVars, room, maint, taskVars, shown, left, history>>

-------------------------------------------------------------------------------
(* The sync run.                                                           *)

\* GET /device/sync: the server builds the manifest now, the agent reads it later.
FetchManifest ==
  /\ pc = "fetch"
  /\ target' = ServerManifest
  /\ pc' = "diff"
  /\ behind' = FALSE
  /\ UNCHANGED <<serverVars, linkVars, diskVars, room, force, toGet, got, toDelete, stale,
                 queueVars, maint, taskVars, shown, left, unrepaired>>

FetchFails ==
  /\ pc = "fetch"
  /\ Spend("http")
  /\ FinishRun(queued, queuedForce)
  /\ UNCHANGED <<serverVars, linkVars, diskVars, room, maint, clearing, clearTodo, suspect,
                 cooldown, shown>>
  /\ behind' = TRUE
  /\ LeavesRows

UpToDate == ~force /\ manifest = target

SkipUnchanged ==
  /\ pc = "diff"
  /\ UpToDate
  /\ FinishRun(queued, queuedForce)
  /\ UNCHANGED <<serverVars, linkVars, diskVars, room, maint, clearing, clearTodo, suspect, cooldown,
                 shown, left, history>>

\* diffManifest.
ToDownload == {m \in Media : target[m] # Absent /\ index[m] # target[m]}

\* Mutant of ToRemove: media that merely changed is deleted and nothing else.
ChangedOnly == {m \in Media : index[m] # Absent /\ target[m] # Absent /\ index[m] # target[m]}

ToRemove == {m \in Media : index[m] # Absent /\ target[m] = Absent}

DiffManifest ==
  /\ pc = "diff"
  /\ ~UpToDate
  /\ toGet' = ToDownload
  /\ toDelete' = ToRemove
  /\ got' = {}
  /\ pc' = IF ToDownload = {} THEN "download" ELSE "storage"
  /\ unrepaired' = FALSE
  /\ UNCHANGED <<serverVars, linkVars, diskVars, room, force, target, stale,
                 queueVars, maint, taskVars, shown, left, behind>>

\* checkStorage: refuse before a byte is written, or go on.
CheckStorage ==
  /\ pc = "storage"
  /\ pc' = IF room THEN "download" ELSE "refused"
  /\ UNCHANGED <<serverVars, linkVars, diskVars, room, force, target, toGet, got, toDelete, stale,
                 queueVars, maint, taskVars, shown, left, history>>

\* What the file route serves for m passes the agent's checksum comparison.
ServesTarget(m) == m \in AllowedNow /\ asset[m] = target[m]

\* downloadMedia: verified in a temp file, then renamed over the final path.
Download(m) ==
  /\ pc = "download"
  /\ m \in toGet
  /\ ServesTarget(m)
  /\ allowed' = AllowedNow
  /\ file' = [file EXCEPT ![m] = target[m]]
  /\ aged' = aged \ {m}
  /\ toGet' = toGet \ {m}
  /\ got' = got \cup {m}
  /\ UNCHANGED <<assigned, asset, unpublished, linkVars, manifest, index, room, pc, force, target,
                 toDelete, stale, queueVars, maint, taskVars, shown, left, history>>

\* 403 from a stale allowed set, 404 for a deleted asset, or a checksum that is
\* no longer the manifest's: the run reports failed and stops.
DownloadRefused(m) ==
  /\ pc = "download"
  /\ m \in toGet
  /\ ~ServesTarget(m) \/ m \notin assigned
  /\ allowed' = AllowedNow
  /\ pc' = "refused"
  /\ UNCHANGED <<assigned, asset, unpublished, linkVars, diskVars, room, force, target, toGet, got,
                 toDelete, stale, queueVars, maint, taskVars, shown, left, history>>

\* The network, a timeout or ENOSPC: the temp file goes, the run stops.
DownloadFails ==
  /\ pc = "download"
  /\ toGet # {}
  /\ Spend("http")
  /\ pc' = "refused"
  /\ UNCHANGED <<serverVars, linkVars, diskVars, room, force, target, toGet, got, toDelete, stale,
                 queueVars, maint, taskVars, shown, history>>

\* Mutants of AppliedIndex: the index holds the upserts only; rows are never deleted.
UpsertsOnly == [m \in got |-> target[m]]
RowsKept == [m \in Media |-> IF m \in got THEN target[m] ELSE index[m]]

\* applyManifest: upserts, then deletions, in one transaction with the manifest.
AppliedIndex ==
  [m \in Media |-> IF m \in toDelete THEN Absent ELSE IF m \in got THEN target[m] ELSE index[m]]

\* Files whose rows the transaction is about to delete.
StaleFiles == {m \in toDelete : index[m] # Absent}

Commit ==
  /\ pc = "download"
  /\ toGet = {}
  /\ manifest' = target
  /\ index' = AppliedIndex
  /\ stale' = StaleFiles
  /\ pc' = "cleanup"
  /\ UNCHANGED <<serverVars, linkVars, file, aged, room, force, target, toGet, got, toDelete,
                 queueVars, maint, taskVars, shown, left, behind>>
  /\ LeavesRows

RemoveFile(m) ==
  /\ file' = [file EXCEPT ![m] = Absent]
  /\ aged' = aged \ {m}

\* Mutant of RemoveStale: deletions start before the commit.
RemoveEarly(m) ==
  /\ \/ pc = "cleanup" /\ m \in stale
     \/ pc = "download" /\ m \in toDelete /\ file[m] # Absent
  /\ RemoveFile(m)
  /\ stale' = stale \ {m}
  /\ UNCHANGED <<serverVars, linkVars, manifest, index, room, pc, force, target, toGet, got,
                 toDelete, queueVars, maint, taskVars, shown, left, history>>

RemoveStale(m) ==
  /\ pc = "cleanup"
  /\ m \in stale
  /\ RemoveFile(m)
  /\ stale' = stale \ {m}
  /\ UNCHANGED <<serverVars, linkVars, manifest, index, room, pc, force, target, toGet, got,
                 toDelete, queueVars, maint, taskVars, shown, left, history>>

IdlePass == [at |-> "idle", entries |-> [m \in Media |-> Absent], due |-> {}, todo |-> {},
             invalid |-> {}, doomed |-> {}]

\* The 'applied' report has been answered or given up: onApplied, then the pass.
AnnounceApplied ==
  /\ pc = "cleanup"
  /\ stale = {}
  /\ shown' = Showable
  /\ pc' = "maintain"
  /\ maint' = [maint EXCEPT !["run"].at = "begin"]
  /\ UNCHANGED <<serverVars, linkVars, diskVars, room, force, target, toGet, got, toDelete, stale,
                 queueVars, taskVars, left, history>>

\* The failed or insufficient_storage report has been answered or given up.
EndRefused ==
  /\ pc = "refused"
  /\ FinishRun(queued, queuedForce)
  /\ UNCHANGED <<serverVars, linkVars, diskVars, room, maint, clearing, clearTodo, suspect, cooldown,
                 shown, left>>
  /\ behind' = TRUE
  /\ LeavesRows

-------------------------------------------------------------------------------
(* The integrity pass (maintainCache), once after each applied sync and    *)
(* once at boot.  The two have no lock between them.                       *)

\* listCacheDetail and the suspects are read here; selectForRehash and the
\* suspects decide which files are hashed besides being stat'ed.
BeginPass(s) ==
  /\ maint[s].at = "begin"
  /\ \E picked \in SUBSET Rows(index) :
       /\ Cardinality(picked) <= HashLimit
       /\ maint' = [maint EXCEPT ![s] = [IdlePass EXCEPT
            !.at = "verify", !.entries = index, !.todo = Rows(index),
            !.due = picked \cup (suspect \cap Rows(index))]]
  /\ suspect' = {}
  /\ UNCHANGED <<serverVars, linkVars, diskVars, room, runVars, queueVars,
                 boot, clearing, clearTodo, cooldown, shown, left, history>>

SizeMatches(m, content) == file[m] = Rotten \/ (file[m] \in Contents /\ Size[file[m]] = Size[content])

\* One file of verifyCache: missing, of the wrong size, or of the wrong hash.
Damaged(s, m) ==
  \/ ~SizeMatches(m, maint[s].entries[m])
  \/ m \in maint[s].due /\ file[m] # maint[s].entries[m]

VerifyFile(s, m) ==
  /\ maint[s].at = "verify"
  /\ m \in maint[s].todo
  /\ maint' = [maint EXCEPT ![s].todo = @ \ {m},
                            ![s].invalid = IF Damaged(s, m) THEN @ \cup {m} ELSE @]
  /\ UNCHANGED <<serverVars, linkVars, diskVars, room, runVars, queueVars, taskVars, shown, left,
                 history>>

EndVerify(s) ==
  /\ maint[s].at = "verify"
  /\ maint[s].todo = {}
  /\ maint' = [maint EXCEPT ![s] = [IdlePass EXCEPT
       !.at = "remove", !.todo = maint[s].invalid, !.invalid = maint[s].invalid]]
  /\ UNCHANGED <<serverVars, linkVars, diskVars, room, runVars, queueVars, taskVars, shown, left,
                 history>>

RemoveInvalid(s, m) ==
  /\ maint[s].at = "remove"
  /\ m \in maint[s].todo
  /\ RemoveFile(m)
  /\ maint' = [maint EXCEPT ![s].todo = @ \ {m}]
  /\ UNCHANGED <<serverVars, linkVars, manifest, index, room, runVars, queueVars, taskVars, shown,
                 left, history>>

IndexWithout(ms) == [m \in Media |-> IF m \in ms THEN Absent ELSE index[m]]

\* removeCacheEntries, then the names sweepOrphans will look at: listed in the
\* media directory and not in the index at this moment.
DropRows(s) ==
  /\ maint[s].at = "remove"
  /\ maint[s].todo = {}
  /\ index' = IndexWithout(maint[s].invalid)
  /\ maint' = [maint EXCEPT ![s].at = "sweep",
                            ![s].todo = {m \in Media : file[m] # Absent /\ index'[m] = Absent}]
  /\ UNCHANGED <<serverVars, linkVars, manifest, file, aged, room, runVars, queueVars, taskVars,
                 shown, left, history>>

PastGrace(m) == m \in aged

\* sweepOrphans awaits between the stat of a name and its rm.
SweepStat(s, m) ==
  /\ maint[s].at = "sweep"
  /\ maint[s].doomed = {}
  /\ m \in maint[s].todo
  /\ maint' = [maint EXCEPT ![s].todo = @ \ {m},
                            ![s].doomed = IF PastGrace(m) THEN {m} ELSE {}]
  /\ UNCHANGED <<serverVars, linkVars, diskVars, room, runVars, queueVars, taskVars, shown, left,
                 history>>

SweepRemove(s, m) ==
  /\ maint[s].at = "sweep"
  /\ m \in maint[s].doomed
  /\ RemoveFile(m)
  /\ maint' = [maint EXCEPT ![s].doomed = {}]
  /\ UNCHANGED <<serverVars, linkVars, manifest, index, room, runVars, queueVars, taskVars, shown,
                 left, history>>

PassSwept(s) == maint[s].at = "sweep" /\ maint[s].todo = {} /\ maint[s].doomed = {}

NeedsRepair(s) == maint[s].invalid # {} /\ ~cooldown

\* Nothing was damaged, or the repair cooldown has not passed: the pass returns
\* to the run that called it, and that run is over.
EndRunPass ==
  /\ PassSwept("run")
  /\ ~NeedsRepair("run")
  /\ maint' = [maint EXCEPT !["run"] = IdlePass]
  /\ FinishRun(queued, queuedForce)
  /\ UNCHANGED <<serverVars, linkVars, diskVars, room, clearing, clearTodo, suspect, cooldown,
                 shown, left,
                 behind>>
  /\ LeavesRows

\* A forced sync asked for from inside a run queues behind that run.
RepairAfterRun ==
  /\ PassSwept("run")
  /\ NeedsRepair("run")
  /\ cooldown' = TRUE
  /\ maint' = [maint EXCEPT !["run"] = IdlePass]
  /\ FinishRun(TRUE, MergedForce(TRUE))
  /\ UNCHANGED <<serverVars, linkVars, diskVars, room, clearing, clearTodo, suspect, shown, left,
                 history>>

\* The boot task goes on to its startup sync; the heartbeat and poll timers
\* start when that call returns, at once if another run is going.
EndBootPass ==
  /\ PassSwept("boot")
  /\ ~NeedsRepair("boot")
  /\ maint' = [maint EXCEPT !["boot"] = IdlePass]
  /\ RequestSync(FALSE)
  /\ boot' = IF pc = "idle" THEN "starting" ELSE "done"
  /\ UNCHANGED <<serverVars, linkVars, diskVars, room, clearing, clearTodo, suspect, cooldown,
                 shown, left,
                 behind>>
  /\ LeavesRows

\* The boot task awaits the forced run it starts; behind another run the repair
\* and then the startup sync are one queued request.
RepairAtBoot ==
  /\ PassSwept("boot")
  /\ NeedsRepair("boot")
  /\ cooldown' = TRUE
  /\ maint' = [maint EXCEPT !["boot"] = IdlePass]
  /\ RequestSync(TRUE)
  /\ boot' = IF pc = "idle" THEN "repairing" ELSE "done"
  /\ UNCHANGED <<serverVars, linkVars, diskVars, room, clearing, clearTodo, suspect, shown, left,
                 history>>

-------------------------------------------------------------------------------
(* Commands, the player and the environment.                               *)

CommandsArrive == ws = "up" \/ PollEnabled

\* clear_cache: rows and manifest go in one transaction, the files one by one.
ClearCache ==
  /\ CommandsArrive
  /\ ~clearing
  /\ Spend("clear")
  /\ clearing' = TRUE
  /\ clearTodo' = Rows(index)
  /\ index' = [m \in Media |-> Absent]
  /\ manifest' = NoManifest
  /\ UNCHANGED <<serverVars, linkVars, file, aged, room, runVars, queueVars, maint, boot, suspect,
                 cooldown, shown, history>>

ClearFile(m) ==
  /\ m \in clearTodo
  /\ RemoveFile(m)
  /\ clearTodo' = clearTodo \ {m}
  /\ UNCHANGED <<serverVars, linkVars, manifest, index, room, runVars, queueVars, maint, boot, clearing,
                 suspect, cooldown, shown, left, history>>

ClearedSync ==
  /\ clearing
  /\ clearTodo = {}
  /\ clearing' = FALSE
  /\ RequestSync(FALSE)
  /\ UNCHANGED <<serverVars, linkVars, diskVars, room, maint, boot, clearTodo, suspect, cooldown,
                 shown, left, history>>

\* refresh_content, set_playlist, update_settings, show_emergency and the like.
RefreshCommand ==
  /\ CommandsArrive
  /\ Spend("refresh")
  /\ RequestSync(FALSE)
  /\ UNCHANGED <<serverVars, linkVars, diskVars, room, maint, taskVars, shown, history>>

\* STATE_INTERVAL_MS timer.
RecomputeTick ==
  /\ boot = "done"
  /\ shown' = Showable
  /\ UNCHANGED <<serverVars, linkVars, diskVars, room, runVars, queueVars, maint, taskVars, left,
                 history>>

Intact(m) == index[m] # Absent /\ file[m] = index[m]

\* The kiosk reports a playback error on an item it cannot load or decode.
PlayerError(m) ==
  /\ m \in shown
  /\ ~Intact(m)
  /\ m \notin suspect
  /\ suspect' = suspect \cup {m}
  /\ UNCHANGED <<serverVars, linkVars, diskVars, room, runVars, queueVars, maint, boot, clearing,
                 clearTodo, cooldown, shown, left, history>>

\* eMMC write failure, bit rot, or a hand that deletes a file.
DamageFile(m) ==
  /\ Intact(m)
  /\ Spend("damage")
  /\ \E f \in {Absent, Short, Rotten} : file' = [file EXCEPT ![m] = f]
  /\ UNCHANGED <<serverVars, linkVars, manifest, index, aged, room, runVars, queueVars, maint,
                 taskVars, shown, history>>

DiskFills ==
  /\ room
  /\ Spend("full")
  /\ room' = FALSE
  /\ UNCHANGED <<serverVars, linkVars, diskVars, runVars, queueVars, maint, taskVars, shown, history>>

DiskFrees ==
  /\ ~room
  /\ room' = TRUE
  /\ UNCHANGED <<serverVars, linkVars, diskVars, runVars, queueVars, maint, taskVars, shown, left,
                 history>>

CooldownEnds ==
  /\ cooldown
  /\ cooldown' = FALSE
  /\ UNCHANGED <<serverVars, linkVars, diskVars, room, runVars, queueVars, maint, boot, clearing,
                 clearTodo, suspect, shown, left, history>>

\* Nothing the agent started is still going on.
Quiet ==
  /\ pc = "idle"
  /\ boot = "done"
  /\ ~clearing
  /\ \A s \in Slots : maint[s].at = "idle"

OnDisk == {m \in Media : file[m] # Absent}

\* ORPHAN_GRACE_MS passes.  Runs and passes are assumed to be shorter than it.
HourPasses ==
  /\ Quiet
  /\ aged # OnDisk
  /\ aged' = OnDisk
  /\ UNCHANGED <<serverVars, linkVars, manifest, index, file, room, runVars, queueVars, maint,
                 taskVars, shown, left, history>>

BootPass == [s \in Slots |-> IF s = "boot" THEN [IdlePass EXCEPT !.at = "begin"] ELSE IdlePass]

\* Power loss or a crash, and systemd starting the agent again, perhaps after
\* more than an hour.  Memory is lost; SQLite and the media directory stay.
Restart ==
  /\ Spend("crash")
  /\ pc' = "idle" /\ force' = FALSE /\ target' = NoManifest
  /\ toGet' = {} /\ got' = {} /\ toDelete' = {} /\ stale' = {}
  /\ queued' = FALSE /\ queuedForce' = FALSE
  /\ boot' = "pass" /\ maint' = BootPass
  /\ clearing' = FALSE /\ clearTodo' = {} /\ suspect' = {} /\ cooldown' = FALSE
  /\ ws' = "down" /\ hello' = NoHello /\ push' = FALSE
  /\ shown' = Showable
  /\ aged' \in {aged, OnDisk}
  /\ UNCHANGED <<serverVars, manifest, index, file, room, behind>>
  /\ LeavesRows

-------------------------------------------------------------------------------

\* A device just paired: an empty media directory and no manifest.
Init ==
  /\ assigned \in SUBSET Media
  /\ \E c \in Contents : asset = [m \in Media |-> c]
  /\ unpublished = FALSE
  /\ allowed = NoCache
  /\ manifest = NoManifest
  /\ index = [m \in Media |-> Absent]
  /\ file = [m \in Media |-> Absent]
  /\ aged = {}
  /\ room = TRUE
  /\ pc = "idle" /\ force = FALSE /\ target = NoManifest
  /\ toGet = {} /\ got = {} /\ toDelete = {} /\ stale = {}
  /\ queued = FALSE /\ queuedForce = FALSE
  /\ boot = "pass" /\ maint = BootPass
  /\ clearing = FALSE /\ clearTodo = {} /\ suspect = {} /\ cooldown = FALSE
  /\ ws = "down" /\ hello = NoHello /\ push = FALSE
  /\ shown = {}
  /\ left \in Budgets
  /\ behind = FALSE /\ unrepaired = FALSE

ServerStep == EditPlaylists \/ ReplaceMedia \/ Publish \/ PublishLost \/ AllowedExpires \/ HandleHello

LinkStep == Connect \/ LinkBreaks \/ Disconnect

TriggerStep == ReceivePush \/ Poll \/ RefreshCommand

RunStep ==
  \/ FetchManifest \/ FetchFails \/ SkipUnchanged \/ DiffManifest \/ CheckStorage
  \/ \E m \in Media : Download(m) \/ DownloadRefused(m) \/ RemoveStale(m)
  \/ DownloadFails \/ Commit \/ AnnounceApplied \/ EndRefused

PassStep(s) ==
  \/ BeginPass(s) \/ EndVerify(s) \/ DropRows(s)
  \/ \E m \in Media : VerifyFile(s, m) \/ RemoveInvalid(s, m) \/ SweepStat(s, m) \/ SweepRemove(s, m)

EndPassStep == EndRunPass \/ RepairAfterRun \/ EndBootPass \/ RepairAtBoot

ClearStep == ClearCache \/ ClearedSync \/ \E m \in Media : ClearFile(m)

OtherStep ==
  \/ RecomputeTick \/ DiskFills \/ DiskFrees \/ CooldownEnds \/ HourPasses \/ Restart
  \/ \E m \in Media : PlayerError(m) \/ DamageFile(m)

Next ==
  \/ ServerStep \/ LinkStep \/ TriggerStep \/ RunStep \/ ClearStep \/ OtherStep
  \/ \E s \in Slots : PassStep(s)
  \/ EndPassStep

\* Every await ends: requests carry timeouts, timers fire, the agent process
\* keeps running, a broken path is noticed, the agent reconnects.
Fairness ==
  /\ WF_vars(RunStep)
  /\ \A s \in Slots : WF_vars(PassStep(s))
  /\ WF_vars(EndRunPass \/ RepairAfterRun) /\ WF_vars(EndBootPass \/ RepairAtBoot)
  /\ WF_vars(ClearedSync \/ \E m \in Media : ClearFile(m))
  /\ WF_vars(ReceivePush) /\ WF_vars(Poll)
  /\ WF_vars(Publish) /\ WF_vars(HandleHello) /\ WF_vars(AllowedExpires)
  /\ WF_vars(Connect) /\ WF_vars(ws = "half" /\ Disconnect)
  /\ WF_vars(RecomputeTick) /\ WF_vars(CooldownEnds) /\ WF_vars(DiskFrees)

Spec == Init /\ [][Next]_vars
FairSpec == Spec /\ Fairness

-------------------------------------------------------------------------------
(* Properties.                                                             *)

ServerTypeOK ==
  /\ assigned \in SUBSET Media
  /\ asset \in [Media -> Contents]
  /\ unpublished \in BOOLEAN
  /\ allowed \in (SUBSET Media) \cup {NoCache}

LinkTypeOK ==
  /\ ws \in {"down", "half", "up"}
  /\ hello \in Manifest \cup {NoManifest, NoHello}
  /\ push \in BOOLEAN

DiskTypeOK ==
  /\ manifest \in Manifest \cup {NoManifest}
  /\ index \in Manifest
  /\ file \in [Media -> Contents \cup {Absent, Short, Rotten}]
  /\ aged \in SUBSET Media

RunTypeOK ==
  /\ pc \in {"idle", "fetch", "diff", "storage", "download", "cleanup", "maintain", "refused"}
  /\ force \in BOOLEAN
  /\ target \in Manifest \cup {NoManifest}
  /\ toGet \in SUBSET Media /\ got \in SUBSET Media
  /\ toDelete \in SUBSET Media /\ stale \in SUBSET Media

Passes ==
  [at : {"idle", "begin", "verify", "remove", "sweep"}, entries : Manifest, due : SUBSET Media,
   todo : SUBSET Media, invalid : SUBSET Media, doomed : SUBSET Media]

TaskTypeOK ==
  /\ boot \in {"pass", "repairing", "starting", "done"}
  /\ clearing \in BOOLEAN /\ clearTodo \in SUBSET Media
  /\ suspect \in SUBSET Media /\ cooldown \in BOOLEAN

StateTypeOK ==
  /\ ServerTypeOK /\ LinkTypeOK /\ DiskTypeOK /\ RunTypeOK /\ TaskTypeOK
  /\ room \in BOOLEAN
  /\ queued \in BOOLEAN /\ queuedForce \in BOOLEAN
  /\ maint \in [Slots -> Passes]
  /\ shown \in SUBSET Media
  /\ left \in [Events -> Nat]

\* Type correctness of the server's, the link's and the agent's state, and of the history.
TypeOK == StateTypeOK /\ behind \in BOOLEAN /\ unrepaired \in BOOLEAN

\* The cache index never disagrees with the applied manifest: every row is for
\* media of that manifest and has its checksum, whatever runs, passes, clears
\* and crashes interleaved.  serveMedia and evictIfOverBudget rely on it.
RowsMatchManifest ==
  \A m \in Media : index[m] # Absent => manifest # NoManifest /\ manifest[m] = index[m]

\* What a run holds while it downloads: every row of the index will be deleted,
\* overwritten, or is already what the new manifest wants.
RunHoldsDiff ==
  pc \in {"storage", "download"} =>
    /\ target # NoManifest
    /\ \A m \in toGet \cup got : target[m] # Absent
    /\ \A m \in toDelete : target[m] = Absent
    /\ \A m \in Media : index[m] # Absent => m \in toDelete \cup toGet \cup got \/ index[m] = target[m]

\* A run has its manifest, and nothing else adds a row behind its back.
DiffHolds == RowsMatchManifest /\ (pc = "diff" => target # NoManifest) /\ RunHoldsDiff

\* The inductive invariant behind RowsMatchManifest, over every interleaving of
\* runs, passes, clears and crashes.
SyncInv == StateTypeOK /\ DiffHolds

\* What evictIfOverBudget may select from: indexed and unreferenced.
EvictionCandidates == {m \in Rows(index) : manifest = NoManifest \/ manifest[m] = Absent}

\* Offline playback: at every instant, through every step of a sync, a failed
\* download or a power cut, each media of the applied manifest has its row and
\* the right bytes on disk.
ContentPlayable == \A m \in Required : Intact(m)

\* That holds while nobody else touches the files.
ManifestPlayable == Calm => ContentPlayable

\* The parts of the invariant behind ManifestPlayable, for calm scenarios.  A
\* media has one content, and every file and every manifest is of that content.
OneContent ==
  /\ left["damage"] = 0 /\ left["replace"] = 0
  /\ \A m \in Media :
       /\ file[m] \in {Absent, asset[m]}
       /\ target # NoManifest => target[m] \in {Absent, asset[m]}

RowsHaveFiles == \A m \in Media : index[m] # Absent => file[m] = index[m]

\* A run will leave no media of its manifest without a row and a file, and
\* deletes no file that has a row.
RunLosesNothing ==
  /\ pc \in {"storage", "download"} =>
       /\ \A m \in Media : target[m] # Absent => m \in toGet \cup got \/ index[m] = target[m]
       /\ \A m \in got : file[m] = target[m]
  /\ pc = "cleanup" => \A m \in stale : index[m] = Absent

\* Runs, passes and clears exclude each other.
OneAtATime ==
  /\ left["clear"] = 0 /\ ~clearing /\ clearTodo = {}
  /\ boot = "pass" => pc = "idle" /\ ws = "down" /\ ~push
  /\ maint["boot"].at # "idle" => boot = "pass"
  /\ maint["run"].at # "idle" => pc = "maintain"

\* A pass condemns no file and sweeps none that has a row.
PassLosesNothing(s) ==
  /\ maint[s].at \in {"verify", "remove", "sweep"} => maint[s].invalid = {}
  /\ maint[s].at = "verify" => maint[s].entries = index /\ maint[s].todo \subseteq Rows(index)
  /\ maint[s].at = "remove" => maint[s].todo = {} /\ maint[s].doomed = {}
  /\ maint[s].at = "sweep" => \A m \in maint[s].todo \cup maint[s].doomed : index[m] = Absent

CalmParts ==
  /\ OneContent /\ RowsHaveFiles /\ ~DroppedRows
  /\ RunLosesNothing /\ OneAtATime
  /\ \A s \in Slots : PassLosesNothing(s)

CalmInv == Calm => CalmParts

\* The device has the manifest the server wants, each of its media has its row, and none has
\* another content's bytes.  A file damaged after it was last hashed may stay damaged until
\* the next integrity pass.
InSync ==
  /\ manifest = ServerManifest
  /\ ~DroppedRows
  /\ \A m \in Required : file[m] \in Contents => file[m] = manifest[m]

\* docs/sync-protocol.md: a failed sync "is retried later (next poll, sync_required push, or
\* refresh_content command)".  A device ends up in sync, or is connected, so that it does not
\* poll, and is behind until the next push; or it waits for its next manifest to get back a
\* row whose repair was cut off.  Nothing else keeps an edit or a repair from arriving.
EventuallyInSync ==
  <>[]InSync \/ <>[](behind /\ ws = "up" /\ pc = "idle") \/ <>[]unrepaired

\* The same document says that the device "recovers automatically once there is room" and
\* that a damaged file's row is dropped and the file "then re-downloaded".
RecoversByItself == <>[]InSync

\* At rest, every media of the applied manifest has its row: without one the
\* player skips it and no ordinary sync fetches it.
NothingForgotten == Quiet => ~DroppedRows

\* sweepOrphans never deletes what the running sync has just downloaded.
SweepSparesSync == [][\A m \in Media : SweepRemove("boot", m) => m \notin got]_vars

\* The kiosk is never left with an item of its state that has no file behind it.
ShownPlayable == \A m \in shown : file[m] # Absent

\* A file the player reported an error on is re-hashed.
SuspectsRehashed == \A m \in Media : m \in suspect ~> m \notin suspect

===============================================================================
