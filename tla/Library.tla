------------------------------- MODULE Library -------------------------------
(***************************************************************************)
(* What one organization shows: its media in their folders, playlists with *)
(* dynamic folder entries and priority rules, device groups, schedules,    *)
(* defaults and emergency overrides; the dashboard requests that edit them *)
(* and the manifests the devices build from them (buildSyncManifest).      *)
(*                                                                         *)
(* A request is three steps: it reads what its handler checks, it commits  *)
(* the one statement or transaction it writes, it publishes sync_required. *)
(* Requests interleave between the steps, and with the queries of a build. *)
(* The files behind the media are in MediaPipeline, the device's side of a *)
(* sync in DeviceSync.                                                     *)
(***************************************************************************)
EXTENDS Naturals, Sequences

CONSTANTS
  Media, Folders, Playlists, Rules, Schedules, Groups, Devices, Requests,   \* ids; Rules are numbered per playlist
  Names,         \* names of folders, up to case, and of media
  Root,          \* no folder: parentFolderId or folderId null
  None,          \* null in any other column, or a field a request does not give
  Filters,       \* media a folder entry's type and orientation filters may admit
  Rank,          \* precedence of the schedules, the lowest first
  ItemLists,     \* bodies of PUT .../items and PUT .../assignments: sets of entries
  Changes,       \* bodies of PATCH .../schedules: the fields they give
  Scenarios      \* [db, ops]: a database and the kinds of requests that arrive

\* One playlist entry or rule assignment: a medium, or a folder with its reach.
Entries == [ref : Media \cup Folders, sub : BOOLEAN, only : Filters]

Inodes == Folders \cup {Root}

\* The fields of a schedule a request gives; the others are None.
ChangeRows == [enabled : BOOLEAN \cup {None}, playlist : Playlists \cup {None},
               devices : (SUBSET Devices) \cup {None}, groups : (SUBSET Groups) \cup {None}]

ASSUME LibraryAssumption ==
  /\ Root \notin Folders /\ Media \cap Folders = {}
  /\ None \notin Playlists \cup Media \cup Inodes \cup Names
  /\ ItemLists \subseteq SUBSET Entries
  /\ \A c \in Changes : c \in ChangeRows
  /\ Rank \in [Schedules -> Nat]

VARIABLES
  db,        \* the rows of the organization
  ops,       \* the kinds of requests of this scenario
  request,   \* the request each handler works on: its stage and its body
  owed,      \* devices with a sync_required to act upon
  build,     \* the manifest build of each device, query by query
  copy,      \* the manifest each device has fetched last
  silent,    \* devices that have not fetched since a change nobody announces
  overlap    \* TRUE once a request has committed between another's checks and its commit

vars == <<db, ops, request, owed, build, copy, silent, overlap>>

-------------------------------------------------------------------------------
(* Folders.                                                                *)

LiveFolders(fs) == {f \in Folders : fs[f].state = "live"}

\* collectDescendantIds: f and every live folder below it, the least set that has f and, with a folder,
\* the live ones in it; cycles are walked once.
Closed(fs, S) == \A g \in LiveFolders(fs) : fs[g].parent \in S => g \in S
Descendants(fs, f) == {g \in Folders : \A S \in SUBSET Folders : f \in S /\ Closed(fs, S) => g \in S}

WouldCreateCycle(fs, f, parent) == parent \in Descendants(fs, f)

\* expandFolderIds: nothing for a folder that is gone.
ExpandFolderIds(fs, e) ==
  IF e.ref \notin LiveFolders(fs) THEN {}
  ELSE IF e.sub THEN Descendants(fs, e.ref) ELSE {e.ref}

-------------------------------------------------------------------------------
(* A manifest, from what the queries of its build have returned.           *)

Live(table) == {x \in DOMAIN table : table[x].state = "live"}
Usable(media) == {m \in DOMAIN media : media[m].state # "gone"}
Playable(media) == {m \in DOMAIN media : media[m].state = "ready"}

\* Query 1, the device and its groups.
DeviceRow(data, d) ==
  [default |-> data.devices[d].default, groups |-> {g \in Groups : <<g, d>> \in data.members}]

Targets(row, d, gs) == d \in row.devices \/ row.groups \cap gs # {}

\* Query 2, the enabled schedules of the device or of its groups.
SchedulesFor(data, d, gs) ==
  {s \in Live(data.schedules) : data.schedules[s].enabled /\ Targets(data.schedules[s], d, gs)}

\* Query 3, the active override started last, None if there is none.
OverrideFor(data, d, gs) ==
  LET active == {n \in DOMAIN data.overrides :
                   LET o == data.overrides[n] IN o.active /\ (o.all \/ Targets(o, d, gs))}
      last == {n \in active : \A k \in active : k <= n}
  IN IF last = {} THEN None ELSE data.overrides[CHOOSE n \in last : TRUE]

Timetable(data, d, row) ==
  [s \in SchedulesFor(data, d, row.groups) |-> data.schedules[s].playlist]

Plan(data, d, row) ==
  [schedules |-> Timetable(data, d, row), override |-> OverrideFor(data, d, row.groups)]

\* Query 4, the playlists these name, with the media of their direct entries and their names.
WantedLists(row, plan) ==
  {plan.schedules[s] : s \in DOMAIN plan.schedules} \cup {row.default}
  \cup (IF plan.override = None THEN {} ELSE {plan.override.playlist})

ListRows(data, row, plan) ==
  [lists |-> [p \in Live(data.playlists) \cap WantedLists(row, plan) |->
                [ruled |-> data.playlists[p].ruled, items |-> data.playlists[p].items,
                 rules |-> [x \in {y \in Live(data.rules[p]) : data.rules[p][y].enabled} |->
                              data.rules[p][x].picks]]],
   names |-> [m \in Playable(data.media) |-> data.media[m].name]]

\* The media an entry stands for: its own row, or the pool of the folders it reaches.
Expand(rows, fs, pool, e) ==
  IF e.ref \in Media
    THEN {e.ref} \cap DOMAIN rows.names
    ELSE {m \in Playable(pool) : pool[m].folder \in ExpandFolderIds(fs, e)} \cap e.only

\* Mutant of Kept: a playlist is referred to whether or not it was read.
KeptAsIs(lists, p) == p

\* existingPlaylistIds: a reference stays if its playlist was read.
Kept(lists, p) == IF p \in DOMAIN lists THEN p ELSE None

\* The items of a playlist, and its rules that pick anything.
Picked(rows, fs, pool, es) == UNION {Expand(rows, fs, pool, e) : e \in es}

Contents(l, rows, fs, pool) ==
  LET rules == IF l.ruled THEN {x \in DOMAIN l.rules : Picked(rows, fs, pool, l.rules[x]) # {}} ELSE {}
  IN [items |-> UNION {{<<e, m>> : m \in Expand(rows, fs, pool, e)} : e \in l.items},
      rules |-> [x \in rules |-> Picked(rows, fs, pool, l.rules[x])]]

\* The media playlists show.
Played(lists) ==
  UNION {{i[2] : i \in lists[p].items} \cup UNION {lists[p].rules[x] : x \in DOMAIN lists[p].rules} :
           p \in DOMAIN lists}

\* The media of direct entries, whose rows come with the playlists.
Direct(rows) ==
  {m \in DOMAIN rows.names : \E p \in DOMAIN rows.lists :
     LET l == rows.lists[p] IN
     \/ \E e \in l.items : e.ref = m
     \/ l.ruled /\ \E x \in DOMAIN l.rules : \E e \in l.rules[x] : e.ref = m}

\* With queries 5 to 7, the folders, their media and the override's own medium.  (Of a medium
\* read twice the code names the reading it adds first; a rename in between is told to nobody.)
Assemble(row, plan, rows, fs, pool, own) ==
  LET lists == [p \in DOMAIN rows.lists |-> Contents(rows.lists[p], rows, fs, pool)]
      o == plan.override
      played == Played(lists)
      media == played \cup (IF o = None THEN {} ELSE {o.media} \cap Playable(own))
  IN [default   |-> Kept(lists, row.default),
      schedules |-> [s \in {t \in DOMAIN plan.schedules : plan.schedules[t] \in DOMAIN lists} |->
                       plan.schedules[s]],
      emergency |-> IF o = None
                      THEN [active |-> FALSE, playlist |-> None, media |-> None]
                      ELSE [active |-> TRUE, playlist |-> Kept(lists, o.playlist),
                            media |-> IF o.media \in media THEN o.media ELSE None],
      lists     |-> lists,
      media     |-> media,
      names     |-> [m \in media |-> IF m \in Direct(rows) THEN rows.names[m]
                                    ELSE IF m \in played THEN pool[m].name ELSE own[m].name]]

\* What a build returns when nothing is edited meanwhile.
Manifest(data, d) ==
  LET row == DeviceRow(data, d)
      plan == Plan(data, d, row)
  IN Assemble(row, plan, ListRows(data, row, plan), data.folders, data.media, data.media)

-------------------------------------------------------------------------------
(* Requests: checks, commit, publication.                                  *)

Idle == [stage |-> "idle"]

\* A request of a kind the scenario has arrives, and its checks pass.
Receive(r, body) ==
  /\ request[r] = Idle /\ body.op \in ops
  /\ request' = [request EXCEPT ![r] = [stage |-> "checked", body |-> body]]
  /\ UNCHANGED <<db, ops, owed, build, copy, silent, overlap>>

Stage(r, stage, op) == request[r].stage = stage /\ request[r].body.op = op
Body(r) == request[r].body

Goto(r, stage) == request' = [request EXCEPT ![r].stage = stage]

\* Its write becomes visible; other requests may have passed their checks before it.
Write(r, data, stage) ==
  /\ db' = data
  /\ Goto(r, stage)
  /\ overlap' = (overlap \/ \E s \in Requests \ {r} : request[s].stage \in {"checked", "half"})
  /\ UNCHANGED <<ops, owed, build, copy>>

Commit(r, op, data) ==
  /\ Stage(r, "checked", op)
  /\ Write(r, data, "publish")
  /\ UNCHANGED silent

\* Commits of requests that publish nothing; some of them change manifests.
CommitQuietly(r, op, data, heard) ==
  /\ Stage(r, "checked", op)
  /\ Write(r, data, "over")
  /\ silent' = IF heard THEN silent ELSE Devices

\* Mutant of Affected: the groups are told instead of their members.
GroupsUnread(o) == o.devices \cup o.groups

\* affectedDeviceIds: read when the override's request publishes.
Affected(o) ==
  o.devices \cup {d \in Devices : \E g \in o.groups : <<g, d>> \in db.members}

\* Whom a request tells: the organization, one device, or those of an override.
Audience(b) ==
  CASE b.op = "patchDevice" -> {b.device}
    [] b.op \in {"startEmergency", "stopEmergency"} -> IF b.row.all THEN Devices ELSE Affected(b.row)
    [] OTHER -> Devices

Publish(r) ==
  /\ request[r].stage = "publish"
  /\ owed' = owed \cup Audience(Body(r))
  /\ Goto(r, "over")
  /\ UNCHANGED <<db, ops, build, copy, silent, overlap>>

-------------------------------------------------------------------------------
(* Playlists and priority rules.                                           *)

\* assertMediaInOrg, assertFoldersInOrg, assertAssignmentsInOrg.
InOrg(data, es) == \A e \in es : e.ref \in Usable(data.media) \cup LiveFolders(data.folders)
EntriesInOrg(es) == InOrg(db, es)

NoRule == [state |-> "none", enabled |-> FALSE, picks |-> {}]
LivePlaylist(p) == db.playlists[p].state = "live"
New(state) == state = "none"

CreatePlaylist(r, items) ==
  /\ EntriesInOrg(items)
  /\ Receive(r, [op |-> "createPlaylist", items |-> items])

CommitCreatePlaylist(r, p) ==
  /\ New(db.playlists[p].state)
  /\ Commit(r, "createPlaylist",
            [db EXCEPT !.playlists[p] = [state |-> "live", ruled |-> FALSE, items |-> Body(r).items]])

\* PATCH: of its fields, the order mode decides whether rules count.
PatchPlaylist(r, p, ruled) ==
  /\ LivePlaylist(p)
  /\ Receive(r, [op |-> "patchPlaylist", playlist |-> p, ruled |-> ruled])

CommitPatchPlaylist(r) ==
  Commit(r, "patchPlaylist", [db EXCEPT !.playlists[Body(r).playlist].ruled = Body(r).ruled])

PutItems(r, p, items) ==
  /\ LivePlaylist(p) /\ EntriesInOrg(items)
  /\ Receive(r, [op |-> "putItems", playlist |-> p, items |-> items])

CommitPutItems(r) ==
  Commit(r, "putItems", [db EXCEPT !.playlists[Body(r).playlist].items = Body(r).items])

\* Schedules, enabled or not, and defaults hold a playlist; overrides do not.
InUse(p) ==
  \/ \E s \in Live(db.schedules) : db.schedules[s].playlist = p
  \/ \E d \in Live(db.devices) : db.devices[d].default = p

\* Mutant of DeletePlaylist: nobody asks whether the playlist is used.
DeletePlaylistUnasked(r, p) ==
  /\ LivePlaylist(p)
  /\ Receive(r, [op |-> "deletePlaylist", playlist |-> p])

DeletePlaylist(r, p) ==
  /\ LivePlaylist(p) /\ ~InUse(p)
  /\ Receive(r, [op |-> "deletePlaylist", playlist |-> p])

CommitDeletePlaylist(r) ==
  Commit(r, "deletePlaylist", [db EXCEPT !.playlists[Body(r).playlist].state = "gone"])

\* The copy is made of what was read before its transaction began.
ClonePlaylist(r, p) ==
  /\ LivePlaylist(p)
  /\ Receive(r, [op |-> "clonePlaylist", row |-> db.playlists[p],
                 rules |-> [x \in Rules |-> IF db.rules[p][x].state = "live" THEN db.rules[p][x] ELSE NoRule]])

CommitClonePlaylist(r, p) ==
  /\ New(db.playlists[p].state)
  /\ CommitQuietly(r, "clonePlaylist",
                   [db EXCEPT !.playlists[p] = Body(r).row, !.rules[p] = Body(r).rules], TRUE)

CreateRule(r, p, picks) ==
  /\ LivePlaylist(p) /\ EntriesInOrg(picks)
  /\ Receive(r, [op |-> "createRule", playlist |-> p, picks |-> picks])

CommitCreateRule(r, x) ==
  /\ Stage(r, "checked", "createRule") /\ New(db.rules[Body(r).playlist][x].state)
  /\ Commit(r, "createRule", [db EXCEPT !.rules[Body(r).playlist][x] =
                                [state |-> "live", enabled |-> TRUE, picks |-> Body(r).picks]])

\* getRule asks for the rule, not for its playlist.
PatchRule(r, p, x, enabled) ==
  /\ db.rules[p][x].state = "live"
  /\ Receive(r, [op |-> "patchRule", playlist |-> p, rule |-> x, enabled |-> enabled])

CommitPatchRule(r) ==
  Commit(r, "patchRule", [db EXCEPT !.rules[Body(r).playlist][Body(r).rule].enabled = Body(r).enabled])

DeleteRule(r, p, x) ==
  /\ db.rules[p][x].state = "live"
  /\ Receive(r, [op |-> "deleteRule", playlist |-> p, rule |-> x])

CommitDeleteRule(r) ==
  Commit(r, "deleteRule", [db EXCEPT !.rules[Body(r).playlist][Body(r).rule].state = "gone"])

PutAssignments(r, p, x, picks) ==
  /\ db.rules[p][x].state = "live" /\ EntriesInOrg(picks)
  /\ Receive(r, [op |-> "putAssignments", playlist |-> p, rule |-> x, picks |-> picks])

CommitPutAssignments(r) ==
  Commit(r, "putAssignments", [db EXCEPT !.rules[Body(r).playlist][Body(r).rule].picks = Body(r).picks])

-------------------------------------------------------------------------------
(* Media and folders.                                                      *)

FolderOrRoot(i) == i = Root \/ i \in LiveFolders(db.folders)

\* assertNameFree: the siblings below the same parent, itself excluded.
NameFree(i, name, self) ==
  ~ \E f \in LiveFolders(db.folders) \ self : db.folders[f].parent = i /\ db.folders[f].name = name

CreateFolder(r, parent, name) ==
  /\ FolderOrRoot(parent) /\ NameFree(parent, name, {})
  /\ Receive(r, [op |-> "createFolder", row |-> [state |-> "live", parent |-> parent, name |-> name]])

CommitCreateFolder(r, f) ==
  /\ New(db.folders[f].state)
  /\ CommitQuietly(r, "createFolder", [db EXCEPT !.folders[f] = Body(r).row], TRUE)

PatchFolder(r, f, parent, name) ==
  /\ f \in LiveFolders(db.folders) /\ FolderOrRoot(parent)
  /\ parent # Root => ~WouldCreateCycle(db.folders, f, parent)
  /\ NameFree(parent, name, {f})
  /\ Receive(r, [op |-> "patchFolder", folder |-> f, parent |-> parent, name |-> name])

\* Nothing is published, although entries with subfolders may reach other media now.
CommitPatchFolder(r) ==
  CommitQuietly(r, "patchFolder",
       [db EXCEPT !.folders[Body(r).folder].parent = Body(r).parent,
                  !.folders[Body(r).folder].name = Body(r).name], FALSE)

\* Entries of playlists and rules that name one of refs are deleted.
WithoutRefs(data, refs) ==
  LET keep(es) == {e \in es : e.ref \notin refs}
      list(p) == [data.playlists[p] EXCEPT !.items = keep(data.playlists[p].items)]
      rule(p, x) == [data.rules[p][x] EXCEPT !.picks = keep(data.rules[p][x].picks)]
  IN [data EXCEPT !.playlists = [p \in Playlists |-> list(p)],
                  !.rules = [p \in Playlists |-> [x \in Rules |-> rule(p, x)]]]

\* softDeleteMedia.
WithoutMedia(data, ms) ==
  WithoutRefs([data EXCEPT !.media = [m \in Media |->
                 IF m \in ms THEN [@[m] EXCEPT !.state = "gone"] ELSE @[m]]], ms)

\* What the transaction of DELETE .../folders writes for the folders fs, found
\* before it began: their media are deleted, or moved to the root or a folder.
WithoutFolders(data, fs, strategy, target) ==
  LET inside == {m \in Usable(data.media) : data.media[m].folder \in fs}
      emptied == IF strategy = "delete_media" THEN WithoutMedia(data, inside)
                 ELSE [data EXCEPT !.media = [m \in Media |->
                         IF m \in inside THEN [@[m] EXCEPT !.folder = target] ELSE @[m]]]
  IN WithoutRefs([emptied EXCEPT !.folders = [f \in Folders |->
                    IF f \in fs THEN [@[f] EXCEPT !.state = "gone"] ELSE @[f]]], fs)

DeleteFolder(r, f, strategy, target) ==
  LET fs == Descendants(db.folders, f) IN
  /\ f \in LiveFolders(db.folders)
  /\ IF strategy = "move_to_folder" THEN target \in LiveFolders(db.folders) \ fs ELSE target = Root
  /\ Receive(r, [op |-> "deleteFolder", folders |-> fs, strategy |-> strategy, target |-> target])

CommitDeleteFolder(r) ==
  Commit(r, "deleteFolder", WithoutFolders(db, Body(r).folders, Body(r).strategy, Body(r).target))

\* A field of a PATCH: what the request gives, or what the row has.
Given(field, old) == IF field = None THEN old ELSE field

\* PATCH of one medium renames it, or moves it, or both.
PatchMedium(r, m, folder, name) ==
  /\ m \in Usable(db.media)
  /\ folder # None => FolderOrRoot(folder)
  /\ Receive(r, [op |-> "patchMedium", medium |-> m, folder |-> folder, name |-> name,
                 before |-> db.media[m].folder])

Patched(b) == [db EXCEPT !.media[b.medium] =
                 [state |-> @.state, folder |-> Given(b.folder, @.folder), name |-> Given(b.name, @.name)]]

\* Whether it is published is decided by the folder the handler has read before ...
Moves(b) == b.folder \notin {None, b.before}

CommitMovedMedium(r) ==
  /\ Stage(r, "checked", "patchMedium") /\ Moves(Body(r))
  /\ Commit(r, "patchMedium", Patched(Body(r)))

\* ... so neither a rename is, nor a move back of what has been moved meanwhile.
CommitKeptMedium(r) ==
  /\ Stage(r, "checked", "patchMedium") /\ ~Moves(Body(r))
  /\ CommitQuietly(r, "patchMedium", Patched(Body(r)), Patched(Body(r)) = db)

\* bulk-move: those of the ids that are not deleted.
MoveMedia(r, ms, folder) ==
  /\ FolderOrRoot(folder)
  /\ Receive(r, [op |-> "moveMedia", media |-> ms, folder |-> folder])

CommitMoveMedia(r) ==
  Commit(r, "moveMedia", [db EXCEPT !.media = [m \in Media |->
    IF m \in Body(r).media \cap Usable(db.media) THEN [@[m] EXCEPT !.folder = Body(r).folder] ELSE @[m]]])

DeleteMedia(r, ms) ==
  /\ ms \subseteq Usable(db.media)
  /\ Receive(r, [op |-> "deleteMedia", media |-> ms])

CommitDeleteMedia(r) ==
  Commit(r, "deleteMedia", WithoutMedia(db, Body(r).media))

\* The medium leaves the manifests at once, and nothing is published before it is ready.
Reprocess(r, m) ==
  /\ m \in Usable(db.media)
  /\ Receive(r, [op |-> "reprocess", medium |-> m])

CommitReprocess(r) ==
  CommitQuietly(r, "reprocess",
       [db EXCEPT !.media[Body(r).medium].state = IF @ = "gone" THEN @ ELSE "pending"], FALSE)

\* The worker (MediaPipeline): the row is ready, then sync_required to the organization.
FinishProcessing(m) ==
  /\ db.media[m].state = "pending" /\ "reprocess" \in ops
  /\ db' = [db EXCEPT !.media[m].state = "ready"]
  /\ owed' = Devices
  /\ UNCHANGED <<ops, request, build, copy, silent, overlap>>

-------------------------------------------------------------------------------
(* Groups, schedules, overrides and devices.                               *)

LiveGroups(gs) == gs \subseteq Live(db.groups)
LiveDevices(ds) == ds \subseteq Live(db.devices)

\* The group's devices are those of the request that exist when it is read.
CreateGroup(r, ds) ==
  Receive(r, [op |-> "createGroup", devices |-> ds \cap Live(db.devices)])

CommitCreateGroup(r, g) ==
  /\ New(db.groups[g].state)
  /\ CommitQuietly(r, "createGroup",
       [db EXCEPT !.groups[g].state = "live", !.members = @ \cup ({g} \X Body(r).devices)], TRUE)

PatchGroup(r, g, ds) ==
  /\ LiveGroups({g})
  /\ Receive(r, [op |-> "patchGroup", group |-> g, devices |-> ds \cap Live(db.devices)])

CommitPatchGroup(r) ==
  Commit(r, "patchGroup",
         [db EXCEPT !.members = {gd \in @ : gd[1] # Body(r).group} \cup ({Body(r).group} \X Body(r).devices)])

DeleteGroup(r, g) ==
  /\ LiveGroups({g})
  /\ Receive(r, [op |-> "deleteGroup", group |-> g])

\* The group is marked by one statement ...
MarkGroup(r) ==
  /\ Stage(r, "checked", "deleteGroup")
  /\ Write(r, [db EXCEPT !.groups[Body(r).group].state = "gone"], "half")
  /\ UNCHANGED silent

\* ... and its memberships are deleted by another.
EmptyGroup(r) ==
  /\ Stage(r, "half", "deleteGroup")
  /\ Write(r, [db EXCEPT !.members = {gd \in @ : gd[1] # Body(r).group}], "publish")
  /\ UNCHANGED silent

CreateSchedule(r, p, ds, gs) ==
  /\ LivePlaylist(p) /\ LiveDevices(ds) /\ LiveGroups(gs)
  /\ Receive(r, [op |-> "createSchedule",
                 row |-> [state |-> "live", enabled |-> TRUE, playlist |-> p, devices |-> ds, groups |-> gs]])

CommitCreateSchedule(r, s) ==
  /\ New(db.schedules[s].state)
  /\ Commit(r, "createSchedule", [db EXCEPT !.schedules[s] = Body(r).row])

PatchSchedule(r, s, c) ==
  /\ db.schedules[s].state = "live"
  /\ c.playlist # None => LivePlaylist(c.playlist)
  /\ LiveDevices(Given(c.devices, {})) /\ LiveGroups(Given(c.groups, {}))
  /\ Receive(r, [op |-> "patchSchedule", schedule |-> s, change |-> c])

\* Its deletion, if there was one meanwhile, stays; but the row may be enabled again.
CommitPatchSchedule(r) ==
  LET c == Body(r).change IN
  Commit(r, "patchSchedule",
       [db EXCEPT !.schedules[Body(r).schedule] =
          [state |-> @.state, enabled |-> Given(c.enabled, @.enabled), playlist |-> Given(c.playlist, @.playlist),
           devices |-> Given(c.devices, @.devices), groups |-> Given(c.groups, @.groups)]])

DeleteSchedule(r, s) ==
  /\ db.schedules[s].state = "live"
  /\ Receive(r, [op |-> "deleteSchedule", schedule |-> s])

CommitDeleteSchedule(r) ==
  Commit(r, "deleteSchedule", [db EXCEPT !.schedules[Body(r).schedule].state = "gone",
                                         !.schedules[Body(r).schedule].enabled = FALSE])

\* An override names a live playlist or a ready medium, and what it applies to.
StartEmergency(r, p, m, all, ds, gs) ==
  /\ (p = None) # (m = None)
  /\ p # None => LivePlaylist(p)
  /\ m # None => db.media[m].state = "ready"
  /\ IF all THEN ds = {} /\ gs = {} ELSE LiveDevices(ds) /\ LiveGroups(gs) /\ ds \cup gs # {}
  /\ Receive(r, [op |-> "startEmergency",
                 row |-> [active |-> TRUE, playlist |-> p, media |-> m, all |-> all,
                          devices |-> ds, groups |-> gs]])

CommitStartEmergency(r) ==
  Commit(r, "startEmergency", [db EXCEPT !.overrides = Append(@, Body(r).row)])

StopEmergency(r, n) ==
  /\ n \in DOMAIN db.overrides /\ db.overrides[n].active
  /\ Receive(r, [op |-> "stopEmergency", override |-> n, row |-> db.overrides[n]])

CommitStopEmergency(r) ==
  Commit(r, "stopEmergency", [db EXCEPT !.overrides[Body(r).override].active = FALSE])

\* The default is checked before the transaction, the groups are filtered in it.
PatchDevice(r, d, default, gs) ==
  /\ LiveDevices({d})
  /\ default # None => LivePlaylist(default)
  /\ Receive(r, [op |-> "patchDevice", device |-> d, default |-> default, groups |-> gs \cap Live(db.groups)])

CommitPatchDevice(r) ==
  Commit(r, "patchDevice",
         [db EXCEPT !.devices[Body(r).device].default = Body(r).default,
                    !.members = {gd \in @ : gd[2] # Body(r).device} \cup (Body(r).groups \X {Body(r).device})])

DeleteDevice(r, d) ==
  /\ LiveDevices({d})
  /\ Receive(r, [op |-> "deleteDevice", device |-> d])

CommitDeleteDevice(r) ==
  CommitQuietly(r, "deleteDevice", [db EXCEPT !.devices[Body(r).device].state = "gone"], TRUE)

-------------------------------------------------------------------------------
(* A device's build, one step per query the requests may come between.     *)

NoBuild == [stage |-> "none"]

BuildStep(d, stage, next) ==
  /\ build[d].stage = stage
  /\ build' = [build EXCEPT ![d] = next]
  /\ UNCHANGED <<db, ops, request, overlap>>

\* The agent syncs when it is told to; being told again meanwhile makes it sync again.
ReadDevice(d) ==
  /\ d \in owed /\ LiveDevices({d})
  /\ BuildStep(d, "none", [stage |-> "device", row |-> DeviceRow(db, d)])
  /\ owed' = owed \ {d} /\ silent' = silent \ {d}
  /\ UNCHANGED copy

ReadSchedules(d) ==
  /\ build[d].stage = "device"
  /\ LET b == build[d] IN
     BuildStep(d, "device", [stage |-> "schedules", row |-> b.row, schedules |-> Timetable(db, d, b.row)])
  /\ UNCHANGED <<owed, silent, copy>>

ReadOverride(d) ==
  /\ build[d].stage = "schedules"
  /\ LET b == build[d] IN
     BuildStep(d, "schedules", [stage |-> "plan", row |-> b.row,
                                plan |-> [schedules |-> b.schedules,
                                          override |-> OverrideFor(db, d, b.row.groups)]])
  /\ UNCHANGED <<owed, silent, copy>>

ReadLists(d) ==
  /\ build[d].stage = "plan"
  /\ LET b == build[d] IN
     BuildStep(d, "plan", [stage |-> "lists", row |-> b.row, plan |-> b.plan, lists |-> ListRows(db, b.row, b.plan)])
  /\ UNCHANGED <<owed, silent, copy>>

ReadFolders(d) ==
  /\ build[d].stage = "lists"
  /\ LET b == build[d] IN
     BuildStep(d, "lists", [stage |-> "folders", row |-> b.row, plan |-> b.plan, lists |-> b.lists,
                            folders |-> db.folders])
  /\ UNCHANGED <<owed, silent, copy>>

ReadPool(d) ==
  /\ build[d].stage = "folders"
  /\ LET b == build[d] IN
     BuildStep(d, "folders", [stage |-> "pool", row |-> b.row, plan |-> b.plan, lists |-> b.lists,
                              folders |-> b.folders, pool |-> db.media])
  /\ UNCHANGED <<owed, silent, copy>>

\* The last query of the content.  (Which file of a medium the device is to fetch,
\* applyProfileVariants, is in MediaPipeline.)
ReadOwn(d) ==
  /\ build[d].stage = "pool"
  /\ LET b == build[d] IN
     copy' = [copy EXCEPT ![d] = Assemble(b.row, b.plan, b.lists, b.folders, b.pool, db.media)]
  /\ BuildStep(d, "pool", NoBuild)
  /\ UNCHANGED <<owed, silent>>

-------------------------------------------------------------------------------

Init ==
  /\ \E s \in Scenarios : db = s.db /\ ops = s.ops
  /\ request = [r \in Requests |-> Idle]
  /\ owed = {} /\ silent = {} /\ overlap = FALSE
  /\ build = [d \in Devices |-> NoBuild]
  /\ copy = [d \in Devices |-> Manifest(db, d)]

PlaylistRequests(r) ==
  \/ \E es \in ItemLists : CreatePlaylist(r, es)
  \/ \E p \in Playlists : \/ \E b \in BOOLEAN : PatchPlaylist(r, p, b)
                          \/ \E es \in ItemLists : PutItems(r, p, es) \/ CreateRule(r, p, es)
                          \/ DeletePlaylist(r, p) \/ ClonePlaylist(r, p)
  \/ \E p \in Playlists, x \in Rules : \/ \E b \in BOOLEAN : PatchRule(r, p, x, b)
                                       \/ DeleteRule(r, p, x)
                                       \/ \E es \in ItemLists : PutAssignments(r, p, x, es)

MediaRequests(r) ==
  \/ \E i \in Inodes, n \in Names : \/ CreateFolder(r, i, n)
                                    \/ \E f \in Folders : PatchFolder(r, f, i, n)
  \/ \E f \in Folders, i \in Inodes, s \in {"move_to_root", "move_to_folder", "delete_media"} :
       DeleteFolder(r, f, s, i)
  \/ \E ms \in SUBSET Media \ {{}} : DeleteMedia(r, ms) \/ \E i \in Inodes : MoveMedia(r, ms, i)
  \/ \E m \in Media : \/ Reprocess(r, m)
                      \/ \E i \in Inodes \cup {None}, n \in Names \cup {None} : PatchMedium(r, m, i, n)

AirtimeRequests(r) ==
  \/ \E ds \in SUBSET Devices : CreateGroup(r, ds) \/ \E g \in Groups : PatchGroup(r, g, ds)
  \/ \E g \in Groups : DeleteGroup(r, g)
  \/ \E p \in Playlists, ds \in SUBSET Devices, gs \in SUBSET Groups : CreateSchedule(r, p, ds, gs)
  \/ \E s \in Schedules : DeleteSchedule(r, s) \/ \E c \in Changes : PatchSchedule(r, s, c)
  \/ \E p \in Playlists \cup {None}, m \in Media \cup {None}, b \in BOOLEAN,
        ds \in SUBSET Devices, gs \in SUBSET Groups : StartEmergency(r, p, m, b, ds, gs)
  \/ \E n \in DOMAIN db.overrides : StopEmergency(r, n)
  \/ \E d \in Devices : \/ DeleteDevice(r, d)
                        \/ \E p \in Playlists \cup {None}, gs \in SUBSET Groups : PatchDevice(r, d, p, gs)

Commits(r) ==
  \/ \E p \in Playlists : CommitCreatePlaylist(r, p) \/ CommitClonePlaylist(r, p)
  \/ CommitPatchPlaylist(r) \/ CommitPutItems(r) \/ CommitDeletePlaylist(r)
  \/ \E x \in Rules : CommitCreateRule(r, x)
  \/ CommitPatchRule(r) \/ CommitDeleteRule(r) \/ CommitPutAssignments(r)
  \/ \E f \in Folders : CommitCreateFolder(r, f)
  \/ CommitPatchFolder(r) \/ CommitDeleteFolder(r)
  \/ CommitMovedMedium(r) \/ CommitKeptMedium(r) \/ CommitMoveMedia(r) \/ CommitDeleteMedia(r) \/ CommitReprocess(r)
  \/ \E g \in Groups : CommitCreateGroup(r, g)
  \/ CommitPatchGroup(r) \/ MarkGroup(r) \/ EmptyGroup(r)
  \/ \E s \in Schedules : CommitCreateSchedule(r, s)
  \/ CommitPatchSchedule(r) \/ CommitDeleteSchedule(r)
  \/ CommitStartEmergency(r) \/ CommitStopEmergency(r)
  \/ CommitPatchDevice(r) \/ CommitDeleteDevice(r)

Next ==
  \/ \E r \in Requests : PlaylistRequests(r) \/ MediaRequests(r) \/ AirtimeRequests(r)
  \/ \E r \in Requests : Commits(r) \/ Publish(r)
  \/ \E m \in Media : FinishProcessing(m)
  \/ \E d \in Devices : \/ ReadDevice(d) \/ ReadSchedules(d) \/ ReadOverride(d) \/ ReadLists(d)
                        \/ ReadFolders(d) \/ ReadPool(d) \/ ReadOwn(d)

Spec == Init /\ [][Next]_vars

-------------------------------------------------------------------------------
(* Properties.                                                             *)

\* The rows of the organization, and the requests' bodies.
States == {"none", "live", "gone"}
MediaRows == [state : {"ready", "pending", "gone"}, folder : Inodes, name : Names]
PlaylistRows == [state : States, ruled : BOOLEAN, items : SUBSET Entries]
RuleRows == [state : States, enabled : BOOLEAN, picks : SUBSET Entries]
FolderRows == [state : States, parent : Inodes, name : Names]
ScheduleRows == [state : States, enabled : BOOLEAN, playlist : Playlists,
                 devices : SUBSET Devices, groups : SUBSET Groups]
OverrideRows == [active : BOOLEAN, playlist : Playlists \cup {None}, media : Media \cup {None},
                 all : BOOLEAN, devices : SUBSET Devices, groups : SUBSET Groups]

Database ==
  [media : [Media -> MediaRows],
   folders : [Folders -> FolderRows],
   playlists : [Playlists -> PlaylistRows], rules : [Playlists -> [Rules -> RuleRows]],
   groups : [Groups -> [state : States]], members : SUBSET (Groups \X Devices),
   schedules : [Schedules -> ScheduleRows],
   devices : [Devices -> [state : States, default : Playlists \cup {None}]],
   overrides : Seq(OverrideRows)]

PlaylistBodies ==
  [op : {"createPlaylist"}, items : SUBSET Entries]
  \cup [op : {"patchPlaylist"}, playlist : Playlists, ruled : BOOLEAN]
  \cup [op : {"putItems"}, playlist : Playlists, items : SUBSET Entries]
  \cup [op : {"deletePlaylist"}, playlist : Playlists]
  \cup [op : {"clonePlaylist"}, row : PlaylistRows, rules : [Rules -> RuleRows]]
  \cup [op : {"createRule"}, playlist : Playlists, picks : SUBSET Entries]
  \cup [op : {"patchRule"}, playlist : Playlists, rule : Rules, enabled : BOOLEAN]
  \cup [op : {"deleteRule"}, playlist : Playlists, rule : Rules]
  \cup [op : {"putAssignments"}, playlist : Playlists, rule : Rules, picks : SUBSET Entries]

MediaBodies ==
  [op : {"createFolder"}, row : FolderRows]
  \cup [op : {"patchFolder"}, folder : Folders, parent : Inodes, name : Names]
  \cup [op : {"deleteFolder"}, folders : SUBSET Folders, target : Inodes,
        strategy : {"move_to_root", "move_to_folder", "delete_media"}]
  \cup [op : {"patchMedium"}, medium : Media, folder : Inodes \cup {None}, name : Names \cup {None},
        before : Inodes]
  \cup [op : {"moveMedia"}, media : SUBSET Media, folder : Inodes]
  \cup [op : {"deleteMedia"}, media : SUBSET Media]
  \cup [op : {"reprocess"}, medium : Media]

AirtimeBodies ==
  [op : {"createGroup"}, devices : SUBSET Devices]
  \cup [op : {"patchGroup"}, group : Groups, devices : SUBSET Devices]
  \cup [op : {"deleteGroup"}, group : Groups]
  \cup [op : {"createSchedule"}, row : ScheduleRows]
  \cup [op : {"patchSchedule"}, schedule : Schedules, change : ChangeRows]
  \cup [op : {"deleteSchedule"}, schedule : Schedules]
  \cup [op : {"startEmergency"}, row : OverrideRows]
  \cup [op : {"stopEmergency"}, override : Nat, row : OverrideRows]
  \cup [op : {"patchDevice"}, device : Devices, default : Playlists \cup {None}, groups : SUBSET Groups]
  \cup [op : {"deleteDevice"}, device : Devices]

Bodies == PlaylistBodies \cup MediaBodies \cup AirtimeBodies

\* Type correctness of the rows and of the requests, builds and copies.
TypeOK ==
  /\ db \in Database
  /\ request \in [Requests -> {Idle} \cup [stage : {"checked", "half", "publish", "over"}, body : Bodies]]
  /\ DOMAIN build = Devices /\ DOMAIN copy = Devices
  /\ \A d \in Devices : build[d].stage \in {"none", "device", "schedules", "plan", "lists", "folders", "pool"}
  /\ owed \subseteq Devices /\ silent \subseteq Devices /\ overlap \in BOOLEAN

\* Every edit reaches the screens: once the requests that have written have also
\* published, and a device has acted on what it was told, its manifest is the one
\* the database describes, however edits and the queries of its build interleaved.
\* What nobody announces waits for the next sync: folder moves and renames, renames of
\* media, a medium moved back by a request that had read it before it was moved away, and
\* media that leave for reprocessing.
CopyIsCurrent ==
  \A d \in Live(db.devices) \ (owed \cup silent) :
    /\ \A r \in Requests : request[r].stage \notin {"half", "publish"}
    /\ build[d].stage = "none"
    => copy[d] = Manifest(db, d)

\* A manifest stands on its own, though its queries see different states of the
\* database: its default, schedules, override, items and rules name playlists and
\* media it carries, and no medium is carried that nothing in it may show.
ManifestClosed ==
  \A d \in Devices :
    LET c == copy[d]
    IN /\ {c.default, c.emergency.playlist} \subseteq DOMAIN c.lists \cup {None}
       /\ {c.schedules[s] : s \in DOMAIN c.schedules} \subseteq DOMAIN c.lists
       /\ c.media = Played(c.lists) \cup ({c.emergency.media} \ {None})

\* The live folders are a forest below the root, and no two side by side have one name.
Forest(fs) ==
  \A f \in LiveFolders(fs) :
    /\ fs[f].parent \in (LiveFolders(fs) \cup {Root}) \ Descendants(fs, f)
    /\ \A g \in LiveFolders(fs) \ {f} : fs[f].parent = fs[g].parent => fs[f].name # fs[g].name

\* Media lie in live folders, entries and rules name live folders and media that are not deleted.
ContentSound(data) ==
  /\ Forest(data.folders)
  /\ \A m \in Usable(data.media) : data.media[m].folder \in LiveFolders(data.folders) \cup {Root}
  /\ \A p \in Playlists : /\ InOrg(data, data.playlists[p].items)
                          /\ \A x \in Rules : InOrg(data, data.rules[p][x].picks)

\* Live schedules and devices refer to live playlists.  (Overrides may outlive their playlist
\* or medium.)
PlaylistsLive(data) ==
  /\ \A s \in Live(data.schedules) : data.schedules[s].playlist \in Live(data.playlists)
  /\ \A d \in Live(data.devices) : data.devices[d].default \in Live(data.playlists) \cup {None}

\* The group of a membership is live, or its deletion has yet to delete the membership.  (A
\* deleted group stays in the assignments of schedules and overrides; as it has no members it
\* reaches nobody through them.)
MembersSound ==
  \A gd \in db.members :
    \/ gd[1] \in Live(db.groups)
    \/ \E r \in Requests : Stage(r, "half", "deleteGroup") /\ Body(r).group = gd[1]

\* The checks keep the rows sound in these three respects as long as no request commits between
\* the checks and the commit of another; when requests race they do not.
SoundUnlessRaced == ~overlap => ContentSound(db) /\ PlaylistsLive(db) /\ MembersSound

-------------------------------------------------------------------------------
(* What the dashboard says before a deletion, and about a screen.          *)

\* affectedDeviceCount, as the set it counts.
AffectedDevices(ps) ==
  LET ss == {s \in Live(db.schedules) : db.schedules[s].enabled /\ db.schedules[s].playlist \in ps} IN
  {d \in Devices : \E s \in ss : \/ d \in db.schedules[s].devices
                                 \/ \E g \in db.schedules[s].groups : <<g, d>> \in db.members}
  \cup {d \in Live(db.devices) : db.devices[d].default \in ps}

\* What playlists list, and what their rules pick from.
Listed(p) == db.playlists[p].items \cup UNION {db.rules[p][x].picks : x \in Live(db.rules[p])}
AllListed == UNION {Listed(p) : p \in Live(db.playlists)}

\* The playlists with one of these entries, in the list or in a rule.
PlaylistsWith(entries) == {p \in Live(db.playlists) : Listed(p) \cap entries # {}}

\* Mutant of MediaUsage: only entries that name the medium itself.
MediaUsageDirect(m) == AffectedDevices(PlaylistsWith({e \in AllListed : e.ref = m}))

\* computeMediaUsage: directly, or through a folder entry that reaches it.
MediaUsage(m) ==
  LET reaches(e) == /\ e.ref \in Folders /\ m \in e.only
                    /\ db.media[m].folder \in ExpandFolderIds(db.folders, e)
  IN AffectedDevices(PlaylistsWith({e \in AllListed : e.ref = m \/ reaches(e)}))

\* computeFolderUsage: folder entries that reach into the subtree, media inside it.
FolderUsage(f) ==
  LET fs == Descendants(db.folders, f)
      inside == {m \in Usable(db.media) : db.media[m].folder \in fs}
      reaches(e) == e.ref \in Folders /\ ExpandFolderIds(db.folders, e) \cap fs # {}
  IN AffectedDevices(PlaylistsWith({e \in AllListed : e.ref \in inside \/ reaches(e)}))

\* What a device plays outside of an emergency: its default and schedules, and their playlists.
Airtime(c) ==
  LET ps == {c.default} \cup {c.schedules[s] : s \in DOMAIN c.schedules} IN
  [default |-> c.default, schedules |-> c.schedules, lists |-> [p \in ps \cap DOMAIN c.lists |-> c.lists[p]]]

\* Every item and every medium of a rule is still there.
KeepsAll(old, new) ==
  /\ new.default = old.default /\ new.schedules = old.schedules
  /\ DOMAIN new.lists = DOMAIN old.lists
  /\ \A p \in DOMAIN old.lists :
       LET l == old.lists[p] IN
       /\ l.items \subseteq new.lists[p].items
       /\ \A x \in DOMAIN l.rules : x \in DOMAIN new.lists[p].rules /\ l.rules[x] \subseteq new.lists[p].rules[x]

\* No deletion changes unannounced what a screen plays outside of an emergency: if it would
\* with a medium, with a folder and its media, or with a folder whose media move to the root, the
\* device is among those the confirmation dialog counts; so is a device that would lose anything
\* when they move to another folder.  (Those that would gain by it are not counted, nor are those
\* whose emergency would lose its content.)
UsageWarns ==
  \A d \in Live(db.devices) :
    LET now == Airtime(Manifest(db, d)) IN
    /\ \A m \in Usable(db.media) \ {k \in Media : d \in MediaUsage(k)} :
         Airtime(Manifest(WithoutMedia(db, {m}), d)) = now
    /\ \A f \in LiveFolders(db.folders) \ {k \in Folders : d \in FolderUsage(k)} :
         LET fs == Descendants(db.folders, f)
             after(s, i) == Airtime(Manifest(WithoutFolders(db, fs, s, i), d))
         IN /\ after("delete_media", Root) = now /\ after("move_to_root", Root) = now
            /\ \A g \in LiveFolders(db.folders) \ fs : KeepsAll(now, after("move_to_folder", g))

\* resolveActiveContent for schedules that all match now.
Resolve(schedules, emergency, default) ==
  IF emergency.active THEN [playlist |-> emergency.playlist, media |-> emergency.media]
  ELSE IF DOMAIN schedules = {} THEN [playlist |-> default, media |-> None]
  ELSE [playlist |-> schedules[CHOOSE s \in DOMAIN schedules : \A t \in DOMAIN schedules : Rank[s] <= Rank[t]],
        media |-> None]

\* Mutant of Preview: the schedules and overrides of the device itself, not those of its groups.
PreviewAlone(d) ==
  LET row == [DeviceRow(db, d) EXCEPT !.groups = {}]
      plan == Plan(db, d, row)
      o == plan.override
  IN Resolve(plan.schedules,
             IF o = None THEN [active |-> FALSE] ELSE [active |-> TRUE, playlist |-> o.playlist, media |-> o.media],
             row.default)

\* GET .../schedules/preview resolves the rows as they are ...
Preview(d) ==
  LET row == DeviceRow(db, d)
      plan == Plan(db, d, row)
      o == plan.override
  IN Resolve(plan.schedules,
             IF o = None THEN [active |-> FALSE] ELSE [active |-> TRUE, playlist |-> o.playlist, media |-> o.media],
             row.default)

\* ... and a device the manifest it has.
Shown(c) == Resolve(c.schedules, c.emergency, c.default)

\* The preview names what the screen shows, unless requests have raced or an
\* override's playlist or medium is no longer there to be shown.
PreviewAgrees ==
  \A d \in Live(db.devices) :
    LET o == Plan(db, d, DeviceRow(db, d)).override IN
    ~overlap /\ (o = None \/ o.playlist \in Live(db.playlists) \/ o.media \in Playable(db.media))
      => Preview(d) = Shown(Manifest(db, d))

-------------------------------------------------------------------------------
(* The inductive invariants behind these.                                  *)

\* Ids nothing has been created under yet.  Nothing refers to one, so what is
\* created under it shows nowhere before a later request says so.
Unused(table) == {x \in DOMAIN table : table[x].state = "none"}

EntriesKnown(data, es) == \A e \in es : e.ref \notin Unused(data.folders)

PlaylistsKnown(data) ==
  /\ \A s \in Live(data.schedules) : data.schedules[s].playlist \notin Unused(data.playlists)
  /\ \A d \in Devices : data.devices[d].default \notin Unused(data.playlists)
  /\ \A n \in DOMAIN data.overrides : data.overrides[n].playlist \notin Unused(data.playlists)

GroupsKnown(data) ==
  /\ \A s \in Live(data.schedules) : data.schedules[s].groups \cap Unused(data.groups) = {}
  /\ \A n \in DOMAIN data.overrides : data.overrides[n].groups \cap Unused(data.groups) = {}

FoldersKnown(data) ==
  /\ \A p \in Playlists : /\ EntriesKnown(data, data.playlists[p].items)
                          /\ \A x \in Rules : EntriesKnown(data, data.rules[p][x].picks)
  /\ \A m \in Media : data.media[m].folder \notin Unused(data.folders)
  /\ \A f \in LiveFolders(data.folders) : data.folders[f].parent \notin Unused(data.folders)

RowsKnown(data) ==
  /\ PlaylistsKnown(data) /\ GroupsKnown(data) /\ FoldersKnown(data)
  /\ \A n \in DOMAIN data.overrides : (data.overrides[n].playlist = None) # (data.overrides[n].media = None)

ASSUME ScenarioAssumption ==
  \A s \in Scenarios : /\ s.db \in Database /\ RowsKnown(s.db)
                       /\ ContentSound(s.db) /\ PlaylistsLive(s.db)
                       /\ \A gd \in s.db.members : gd[1] \in Live(s.db.groups)

\* What a request's checks have seen of it stays so.
BodyKnown(b) ==
  /\ b.op \in {"createPlaylist", "putItems"} => EntriesKnown(db, b.items)
  /\ b.op \in {"createRule", "putAssignments"} => EntriesKnown(db, b.picks)
  /\ b.op = "clonePlaylist" => /\ EntriesKnown(db, b.row.items)
                              /\ \A x \in Rules : EntriesKnown(db, b.rules[x].picks)
  /\ b.op = "createFolder" => b.row.parent \notin Unused(db.folders)
  /\ b.op = "patchFolder" => b.parent \notin Unused(db.folders)
  /\ b.op \in {"patchMedium", "moveMedia"} => b.folder \notin Unused(db.folders)
  /\ b.op = "deleteFolder" => b.target \notin Unused(db.folders)
  /\ b.op = "createSchedule" => /\ b.row.playlist \notin Unused(db.playlists)
                               /\ b.row.groups \cap Unused(db.groups) = {}
  /\ b.op = "patchSchedule" => /\ b.change.playlist \notin Unused(db.playlists)
                              /\ Given(b.change.groups, {}) \cap Unused(db.groups) = {}
  /\ b.op = "patchDevice" => b.default \notin Unused(db.playlists)
  /\ b.op = "startEmergency" => /\ b.row.playlist \notin Unused(db.playlists)
                               /\ b.row.groups \cap Unused(db.groups) = {}
                               /\ (b.row.playlist = None) # (b.row.media = None)
  /\ b.op = "stopEmergency" =>
       /\ b.override \in DOMAIN db.overrides
       /\ LET o == db.overrides[b.override]
          IN b.row.all = o.all /\ b.row.devices = o.devices /\ b.row.groups = o.groups

\* Neither does a build know of one.
BuildKnown(b) ==
  /\ b.stage = "device" => b.row.default \notin Unused(db.playlists)
  /\ b.stage = "schedules" =>
       ({b.row.default} \cup {b.schedules[s] : s \in DOMAIN b.schedules}) \cap Unused(db.playlists) = {}
  /\ b.stage = "plan" => WantedLists(b.row, b.plan) \cap Unused(db.playlists) = {}
  /\ b.stage = "lists" =>
       \A p \in DOMAIN b.lists.lists :
         LET l == b.lists.lists[p]
         IN EntriesKnown(db, l.items) /\ \A x \in DOMAIN l.rules : EntriesKnown(db, l.rules[x])

KnownInv ==
  /\ RowsKnown(db)
  /\ \A r \in Requests : request[r].stage # "idle" => BodyKnown(Body(r))
  /\ \A d \in Devices : BuildKnown(build[d])

\* The manifest a device will have when its build ends and nothing is edited any more.
FromPlan(row, plan) == Assemble(row, plan, ListRows(db, row, plan), db.folders, db.media, db.media)

Upcoming(d) ==
  LET b == build[d] IN
  CASE b.stage = "none" -> copy[d]
    [] b.stage = "device" -> FromPlan(b.row, Plan(db, d, b.row))
    [] b.stage = "schedules" ->
         FromPlan(b.row, [schedules |-> b.schedules, override |-> OverrideFor(db, d, b.row.groups)])
    [] b.stage = "plan" -> FromPlan(b.row, b.plan)
    [] b.stage = "lists" -> Assemble(b.row, b.plan, b.lists, db.folders, db.media, db.media)
    [] b.stage = "folders" -> Assemble(b.row, b.plan, b.lists, b.folders, db.media, db.media)
    [] b.stage = "pool" -> Assemble(b.row, b.plan, b.lists, b.folders, b.pool, db.media)

\* A device that has a sync_required before it, or a change nobody announces behind it.
Told(d) ==
  \/ d \in owed \cup silent
  \/ \E r \in Requests : request[r].stage \in {"half", "publish"} /\ d \in Audience(Body(r))

\* The others have, or will have, the manifest the database describes.  (A group made since the
\* device was read is not among those read.)
UpcomingIsCurrent ==
  \A d \in Devices : ~Told(d) =>
    /\ Upcoming(d) = Manifest(db, d)
    /\ build[d].stage \in {"device", "schedules"} => build[d].row.groups \subseteq DeviceRow(db, d).groups

CopyInv == TypeOK /\ KnownInv /\ UpcomingIsCurrent

\* As long as no request has committed between the checks and the commit of another, the checks
\* of those that are to commit still hold.
ChecksHold(b) ==
  /\ b.op = "createSchedule" => b.row.playlist \in Live(db.playlists)
  /\ b.op = "patchSchedule" => b.change.playlist \in Live(db.playlists) \cup {None}
  /\ b.op = "patchDevice" => b.default \in Live(db.playlists) \cup {None}
  /\ b.op = "deletePlaylist" => ~InUse(b.playlist)

PreviewInv ==
  ~overlap => /\ PlaylistsLive(db)
              /\ \A r \in Requests : request[r].stage = "checked" => ChecksHold(Body(r))

\* ... those on the entries, folders and groups they name among them.
ContentChecked(b) ==
  /\ b.op \in {"createPlaylist", "putItems"} => InOrg(db, b.items)
  /\ b.op \in {"createRule", "putAssignments"} => InOrg(db, b.picks)
  /\ b.op = "clonePlaylist" => InOrg(db, b.row.items) /\ \A x \in Rules : InOrg(db, b.rules[x].picks)
  /\ b.op = "createFolder" => /\ b.row.state = "live" /\ FolderOrRoot(b.row.parent)
                             /\ NameFree(b.row.parent, b.row.name, {})
  /\ b.op = "patchFolder" =>
       /\ b.folder \in LiveFolders(db.folders) /\ FolderOrRoot(b.parent)
       /\ b.parent \notin Descendants(db.folders, b.folder)
       /\ NameFree(b.parent, b.name, {b.folder})
  /\ b.op = "deleteFolder" => /\ Closed(db.folders, b.folders)
                             /\ FolderOrRoot(b.target) /\ b.target \notin b.folders
  /\ b.op = "moveMedia" => FolderOrRoot(b.folder)
  /\ b.op = "patchMedium" => b.folder = None \/ FolderOrRoot(b.folder)
  /\ b.op = "patchGroup" => LiveGroups({b.group})
  /\ b.op = "patchDevice" => LiveGroups(b.groups)

RowsInv ==
  ~overlap => /\ ContentSound(db) /\ MembersSound
              /\ \A r \in Requests : request[r].stage = "checked" => ContentChecked(Body(r))

\* What the comment of PATCH .../folders says: a rename or a move leaves what
\* every device shows as it is.
MovesKeepContent ==
  [][\A r \in Requests, d \in Devices :
       Stage(r, "checked", "patchFolder") /\ db' # db /\ request'[r].stage = "over"
         => Manifest(db', d) = Manifest(db, d)]_vars

===============================================================================
