-------------------------------- MODULE Upkeep --------------------------------
(*****************************************************************************)
(* The jobs that look after the platform's data: the backup script with its  *)
(* verification and its pruning of the backup bucket (infra/backup), the     *)
(* restore script, the worker's retention job and its alerts.  They meet in  *)
(* the database, in the bucket and in one redis key, the marker of the last  *)
(* successful backup: the backup sets it, retention deletes nothing without  *)
(* a fresh one, and the alerts tell the operator when it is stale.           *)
(*                                                                           *)
(* Time is counted in days, and the steps of every job interleave within a   *)
(* day.  A row of telemetry is named by the day of its timestamp.            *)
(*****************************************************************************)
EXTENDS Integers, FiniteSets

CONSTANTS
  Runners,      \* who may run backup.sh at the same time
  Timer,        \* the one that is the nightly systemd unit
  Scenarios,    \* the settings and the events a behaviour may see
  MaxDay,       \* bound: the last day
  Window,       \* RETENTION_*_DAYS
  FreshDays,    \* RETENTION_REQUIRE_BACKUP_WITHIN_HOURS
  Batch,        \* RETENTION_BATCH_SIZE
  MaxBatches,   \* RETENTION_MAX_BATCHES
  KeepDaily, KeepWeekly, KeepMonthly, KeepTaggedDays,
  Sundays, FirstsOfMonth,
  RepeatDays    \* ALERT_REPEAT_HOURS

Days == 1..MaxDay
Never == 0
Tags == {"none", "pre-upgrade", "other"}
Alerts == {"queue-backlog", "backup-stale"}

\* A row comes in, in time or late; an upgrade migrates; the database is lost, or stopped or started;
\* the timer or a person runs a backup; an upload fails; redis fails; a run or a job dies; a restore,
\* and a failed query of its; the media queue; a notification fails.
Events == {"row", "late", "migrate", "disaster", "stop", "night", "manual", "upload", "redis", "die",
           "restore", "query", "backlog", "ntfy"}

ASSUME SettingsAssumption ==
  /\ Timer \in Runners
  /\ Scenarios \subseteq [setup : [ntfy : BOOLEAN, dryRun : BOOLEAN], left : [Events -> Nat]]
  /\ {MaxDay, Window, FreshDays, Batch, MaxBatches, RepeatDays} \subseteq Nat \ {0}
  /\ {KeepDaily, KeepWeekly, KeepMonthly, KeepTaggedDays} \subseteq Nat

VARIABLES
  now,
  db,        \* rows: the day each came in; schema; data: users exist; sound: not half restored
  serving,   \* the database's container runs
  stamps,    \* the timestamps of the rows that ever came in
  bucket,    \* the objects of the backup bucket
  marker,    \* the day signage:backup:last-success names
  runs,      \* the runs of backup.sh
  made,      \* runs begun
  restore,   \* the run of restore.sh
  job,       \* the job the maintenance worker is at, concurrency 1
  pruned,    \* the last day the retention job was run
  backlog,   \* too many jobs wait for the media worker
  lastSent,  \* signage:alert:last-sent
  told,      \* the last notification the operator got of each alert
  setup,     \* ntfy: ALERT_NTFY_URL is set; dryRun: RETENTION_DRY_RUN
  left       \* events a behaviour may still see

dbVars == <<db, serving, stamps>>
backupVars == <<bucket, marker, runs, made>>
alertVars == <<backlog, lastSent, told>>
workerVars == <<job, pruned>>
vars == <<now, dbVars, backupVars, restore, workerVars, alertVars, setup, left>>

Spend(event) ==
  /\ left[event] > 0
  /\ left' = [left EXCEPT ![event] = @ - 1]

\* A step that may fail: failing is an event.
MayFail(ok, event) ==
  IF ok THEN UNCHANGED left ELSE Spend(event)

Idle == [stage |-> "idle"]
Rows == {s \in Days : db.came[s] # Never}

-------------------------------------------------------------------------------
(* The database *)

\* Telemetry arrives; a device that was offline delivers rows with an earlier timestamp.
RowArrives(s) ==
  /\ serving /\ db.sound /\ db.data
  /\ s <= now /\ s \notin stamps
  /\ Spend(IF s = now THEN "row" ELSE "late")
  /\ db' = [db EXCEPT !.came[s] = now]
  /\ stamps' = stamps \cup {s}
  /\ UNCHANGED <<now, serving, backupVars, restore, workerVars, alertVars, setup>>

\* An upgrade migrates the schema.
Migrate ==
  /\ Spend("migrate")
  /\ serving /\ db.sound
  /\ db' = [db EXCEPT !.schema = @ + 1]
  /\ UNCHANGED <<now, serving, stamps, backupVars, restore, workerVars, alertVars, setup>>

\* The database's volume is lost, or the whole host and its redis with it: a fresh one is not
\* started yet.
LoseDatabase(host) ==
  /\ Spend("disaster")
  /\ db' = [came |-> [s \in Days |-> Never], schema |-> 1, data |-> FALSE, sound |-> TRUE]
  /\ serving' = FALSE
  /\ runs' = [r \in Runners |-> Idle]
  /\ job' = Idle /\ restore' = Idle
  /\ marker' = IF host THEN Never ELSE marker
  /\ lastSent' = IF host THEN [a \in Alerts |-> Never] ELSE lastSent
  /\ UNCHANGED <<now, stamps, bucket, made, pruned, backlog, told, setup>>

\* The operator stops or starts the database's container.
StopOrStart ==
  /\ Spend("stop")
  /\ serving' = ~serving
  /\ UNCHANGED <<now, db, stamps, backupVars, restore, workerVars, alertVars, setup>>

-------------------------------------------------------------------------------
(* backup.sh *)

AtStage(r, stage) == runs[r].stage = stage

\* die: the staging area is shredded, what is already in the bucket stays.
Die(r) == runs' = [runs EXCEPT ![r] = Idle]

BackupUnchanged == UNCHANGED <<now, dbVars, restore, workerVars, alertVars, setup>>

\* Options are read, and pg_dump writes a dump: complete, or cut short.
Dump(r, tag, prune) ==
  /\ AtStage(r, "idle") /\ serving
  /\ Spend(IF r = Timer THEN "night" ELSE "manual")
  /\ r = Timer => tag = "none" /\ prune
  /\ made' = made + 1
  /\ \E whole \in {db.sound /\ db.data, FALSE} :
       runs' = [runs EXCEPT ![r] =
         [stage |-> "dumped", no |-> made', day |-> now, tag |-> tag, prune |-> prune,
          whole |-> whole, rows |-> Rows, schema |-> db.schema, head |-> 0, doomed |-> {}]]
  /\ UNCHANGED <<bucket, marker>> /\ BackupUnchanged

\* The manifest, with the schema head read from the live database.
WriteManifest(r) ==
  /\ AtStage(r, "dumped") /\ serving
  /\ runs' = [runs EXCEPT ![r].stage = "packed", ![r].head = db.schema]
  /\ UNCHANGED <<bucket, marker, made, left>> /\ BackupUnchanged

\* Mutants of Verifies: the table of contents is read and nothing is restored; the schema head is
\* not compared.
VerifiesContents(b) == b.schema = b.head
VerifiesRows(b) == b.whole

\* verify-backup.sh restores the dump into a throwaway container: it has rows in every table
\* asserted, and the schema head the manifest names.
Verifies(b) == b.whole /\ b.schema = b.head

\* The object is uploaded under a name of its own and its size read back: it is all there, or
\* the run dies and leaves it in the bucket.
Upload(r, ok) ==
  /\ AtStage(r, "packed") /\ Verifies(runs[r])
  /\ MayFail(ok, "upload")
  /\ bucket' = bucket \cup
       {[no |-> runs[r].no, day |-> runs[r].day, tag |-> runs[r].tag, whole |-> ok /\ runs[r].whole,
         rows |-> runs[r].rows, schema |-> runs[r].schema, head |-> runs[r].head]}
  /\ IF ok THEN runs' = [runs EXCEPT ![r].stage = "uploaded"] ELSE Die(r)
  /\ UNCHANGED <<marker, made>> /\ BackupUnchanged

\* The marker is the time of the end of the upload.  A redis that does not take it is a warning.
SetMarker(r, ok) ==
  /\ AtStage(r, "uploaded")
  /\ MayFail(ok, "redis")
  /\ marker' = IF ok THEN now ELSE marker
  /\ IF runs[r].prune
     THEN runs' = [runs EXCEPT ![r].stage = "marked"]
     ELSE Die(r)
  /\ UNCHANGED <<bucket, made>> /\ BackupUnchanged

\* Of the names in the order of sort -r, the newest first, the first n.
Newest(n, S) == {b \in S : Cardinality({c \in S : c.no > b.no}) < n}

\* Mutant of Kept: the oldest bundles fill the daily slots.
KeptOldest(S) ==
  LET plain == {b \in S : b.tag = "none"}
  IN {b \in S : b.tag # "none"} \cup (plain \ Newest(Cardinality(plain) - KeepDaily, plain))

\* classify_retention: the bundles that stay.
Kept(S) ==
  LET plain == {b \in S : b.tag = "none"}
  IN Newest(KeepDaily, plain)
       \cup Newest(KeepWeekly, {b \in plain : b.day \in Sundays})
       \cup Newest(KeepMonthly, {b \in plain : b.day \in FirstsOfMonth})
       \cup {b \in S : b.tag = "pre-upgrade" /\ now - b.day <= KeepTaggedDays}
       \cup {b \in S : b.tag = "other"}

\* run_prune lists and decides once.
Classify(r) ==
  /\ AtStage(r, "marked")
  /\ runs' = [runs EXCEPT ![r].stage = "pruning", ![r].doomed = {b.no : b \in bucket \ Kept(bucket)}]
  /\ UNCHANGED <<bucket, marker, made, left>> /\ BackupUnchanged

\* rclone deletefile, one object after the other; the other run may have been faster.
PruneOne(r) ==
  /\ AtStage(r, "pruning")
  /\ \E no \in runs[r].doomed :
       IF \E b \in bucket : b.no = no
       THEN /\ bucket' = {b \in bucket : b.no # no}
            /\ runs' = [runs EXCEPT ![r].doomed = @ \ {no}]
       ELSE Die(r) /\ UNCHANGED bucket
  /\ UNCHANGED <<marker, made, left>> /\ BackupUnchanged

\* The run ends; or it fails, or is killed, anywhere.
BackupEnds(r) ==
  /\ ~AtStage(r, "idle")
  /\ IF AtStage(r, "pruning") /\ runs[r].doomed = {} THEN UNCHANGED left
     ELSE Spend("die")
  /\ Die(r)
  /\ UNCHANGED <<bucket, marker, made>> /\ BackupUnchanged

\* Verification fails, or the schema head cannot be read: nothing is uploaded.
BackupRefused(r) ==
  /\ \/ AtStage(r, "packed") /\ ~Verifies(runs[r])
     \/ AtStage(r, "dumped") /\ ~serving
  /\ Die(r)
  /\ UNCHANGED <<bucket, marker, made, left>> /\ BackupUnchanged

-------------------------------------------------------------------------------
(* restore.sh *)

RestoreUnchanged == UNCHANGED <<now, stamps, backupVars, workerVars, alertVars, setup>>

\* The bundle is decrypted, verified and the host's name typed before anything is touched; a
\* bundle that fails ends the run.
RestoreBegins(b, force) ==
  /\ Spend("restore")
  /\ restore = Idle
  /\ Verifies(b)
  /\ restore' = [stage |-> "confirmed", bundle |-> b, force |-> force]
  /\ UNCHANGED <<db, serving>> /\ RestoreUnchanged

\* The rows the script sees before it overwrites: none unless the database runs and answers.
SeesData(answers) == serving /\ answers /\ db.data

RestoreChecks(answers) ==
  /\ restore.stage = "confirmed"
  /\ MayFail(answers, "query")
  /\ restore' = IF SeesData(answers) /\ ~restore.force THEN Idle
                ELSE [restore EXCEPT !.stage = "cleared"]
  /\ UNCHANGED <<db, serving>> /\ RestoreUnchanged

\* Configuration and code are put in place, the database alone is started, and
\* pg_restore --clean drops what is there.
RestoreDrops ==
  /\ restore.stage = "cleared"
  /\ restore' = [restore EXCEPT !.stage = "loading"]
  /\ serving' = TRUE
  /\ db' = [db EXCEPT !.came = [s \in Days |-> Never], !.data = FALSE, !.sound = FALSE]
  /\ UNCHANGED left /\ RestoreUnchanged

RestoreLoads ==
  /\ restore.stage = "loading" /\ serving
  /\ restore' = [restore EXCEPT !.stage = "loaded"]
  /\ LET b == restore.bundle
     IN db' = [came |-> [s \in Days |-> IF s \in b.rows THEN now ELSE Never],
               schema |-> b.schema, data |-> TRUE, sound |-> TRUE]
  /\ UNCHANGED <<serving, left>> /\ RestoreUnchanged

\* The restored schema head must be the manifest's; then the rest of the stack is started.
\* Or the run fails anywhere, the database perhaps half restored.
RestoreEnds ==
  /\ restore # Idle
  /\ IF restore.stage = "loaded" THEN UNCHANGED left ELSE Spend("die")
  /\ restore' = Idle
  /\ UNCHANGED <<db, serving>> /\ RestoreUnchanged

-------------------------------------------------------------------------------
(* The worker's retention job *)

\* A scheduled job begins, one at a time: retention once a night, alerts where ntfy is set up.
Takes(name) ==
  /\ job = Idle /\ serving
  /\ name = "retention" => pruned < now
  /\ name = "alerts" => setup.ntfy

\* Mutant of Fresh: fails open.
FreshUnlessOld(m) == now - m <= FreshDays \/ m = Never

\* assessBackupFreshness: no marker, or one too old, is not fresh.
Fresh(m) == m # Never /\ now - m <= FreshDays

\* runRetention, once a night: the gate is read once; without a fresh marker the run is dry.
RetentionStarts(reads) ==
  /\ Takes("retention")
  /\ MayFail(reads, "redis")
  /\ pruned' = now
  /\ job' = IF ~setup.dryRun /\ Fresh(IF reads THEN marker ELSE Never)
            THEN [stage |-> "deleting", cutoff |-> now - Window, batch |-> 0]
            ELSE Idle
  /\ UNCHANGED <<now, dbVars, backupVars, restore, alertVars, setup>>

Expired == {s \in Rows : s < job.cutoff}

\* The batch of the oldest: ORDER BY the timestamp LIMIT the batch size.
OldestBatch == {s \in Expired : Cardinality({x \in Expired : x < s}) < Batch}

\* pruneTable: a batch; the loop ends with an empty one or at the ceiling.
DeleteBatch ==
  /\ job.stage = "deleting" /\ serving /\ db.sound
  /\ job' = IF OldestBatch = {} \/ job.batch + 1 = MaxBatches THEN Idle
            ELSE [job EXCEPT !.batch = @ + 1]
  /\ db' = [db EXCEPT !.came = [s \in Days |-> IF s \in OldestBatch THEN Never ELSE @[s]]]
  /\ UNCHANGED <<now, serving, stamps, backupVars, restore, pruned, alertVars, setup, left>>

\* The database does not answer, Redis does not take what an alert has become, or the worker is
\* restarted: the job is over.
JobDies ==
  /\ job # Idle
  /\ IF job.stage = "deleting" /\ ~(serving /\ db.sound) THEN UNCHANGED left
     ELSE \/ Spend("die")
          \/ job.stage = "telling" /\ job.posted # {} /\ Spend("redis")
  /\ job' = Idle
  /\ UNCHANGED <<now, dbVars, backupVars, restore, pruned, alertVars, setup>>

-------------------------------------------------------------------------------
(* The worker's alerts *)

AlertUnchanged == UNCHANGED <<now, dbVars, backupVars, restore, pruned, backlog, setup>>

\* The media queue backs up, or is drained.
BacklogTurns ==
  /\ Spend("backlog")
  /\ backlog' = ~backlog
  /\ UNCHANGED <<now, dbVars, backupVars, restore, workerVars, lastSent, told, setup>>

\* gatherSnapshot: an unread queue counts as empty, an unread marker as none.
Snapshot(readsQueue, readsMarker) ==
  [waiting |-> backlog /\ readsQueue, marker |-> IF readsMarker THEN marker ELSE Never]

\* evaluateAlerts
Firing(s) ==
  {a \in Alerts : \/ a = "queue-backlog" /\ s.waiting
                  \/ a = "backup-stale" /\ ~Fresh(s.marker)}

\* diffAlertState's toSend.
Due(sent) == {a \in Alerts : sent[a] = Never \/ now - sent[a] >= RepeatDays}

\* runAlerts begins: the queue, the snapshot and the hash are read; each read may fail.
AlertsStart(readsQueue, readsMarker, readsHash) ==
  /\ Takes("alerts")
  /\ MayFail(readsQueue /\ readsMarker /\ readsHash, "redis")
  /\ LET sent == IF readsHash THEN lastSent ELSE [a \in Alerts |-> Never]
         firing == Firing(Snapshot(readsQueue, readsMarker))
     IN job' = [stage |-> "telling", day |-> now, posted |-> {},
                send |-> firing \cap Due(sent),
                clear |-> {a \in Alerts : sent[a] # Never} \ firing]
  /\ UNCHANGED <<lastSent, told>> /\ AlertUnchanged

\* Mutant of Accounted: an alert counts as sent whether or not it went out.
AccountedAnyway(a, delivered) == {a}

\* The alerts to record once ntfy has answered, or not.
Accounted(a, delivered) == IF delivered THEN {a} ELSE {}

\* sendNtfy of a firing alert.
PostFiring(a, delivered) ==
  /\ job.stage = "telling" /\ job.posted = {}
  /\ a \in job.send
  /\ MayFail(delivered, "ntfy")
  /\ told' = [told EXCEPT ![a] = IF delivered THEN "firing" ELSE @]
  /\ job' = [job EXCEPT !.send = @ \ {a}, !.posted = Accounted(a, delivered)]
  /\ UNCHANGED lastSent /\ AlertUnchanged

\* sendNtfy of a recovery, after the firing ones; it is forgotten either way.
PostResolved(a, delivered) ==
  /\ job.stage = "telling" /\ job.posted = {} /\ job.send = {}
  /\ a \in job.clear
  /\ MayFail(delivered, "ntfy")
  /\ told' = [told EXCEPT ![a] = IF delivered THEN "resolved" ELSE @]
  /\ job' = [job EXCEPT !.posted = {a}]
  /\ UNCHANGED lastSent /\ AlertUnchanged

\* hset of the alert sent, hdel of the one resolved.
Record ==
  /\ job.stage = "telling"
  /\ \E a \in job.posted :
       /\ lastSent' = [lastSent EXCEPT ![a] = IF a \in job.clear THEN Never ELSE job.day]
       /\ job' = [job EXCEPT !.posted = {}, !.clear = @ \ {a}]
  /\ UNCHANGED <<told, left>> /\ AlertUnchanged

AlertsEnd ==
  /\ job.stage = "telling"
  /\ job.send = {} /\ job.clear = {} /\ job.posted = {}
  /\ job' = Idle
  /\ UNCHANGED <<lastSent, told, left>> /\ AlertUnchanged

-------------------------------------------------------------------------------
\* Bound: no run, restore or job is older than a day.
NextDay ==
  /\ now < MaxDay
  /\ \A r \in Runners : ~AtStage(r, "idle") => runs[r].day = now
  /\ restore = Idle
  /\ job.stage = "telling" => job.day = now
  /\ job.stage = "deleting" => job.cutoff = now - Window
  /\ now' = now + 1
  /\ UNCHANGED <<dbVars, backupVars, restore, workerVars, alertVars, setup, left>>

Init ==
  /\ now = 1
  /\ db = [came |-> [s \in Days |-> Never], schema |-> 1, data |-> TRUE, sound |-> TRUE]
  /\ serving = TRUE
  /\ stamps = {} /\ bucket = {} /\ marker = Never /\ made = 0
  /\ runs = [r \in Runners |-> Idle]
  /\ restore = Idle /\ job = Idle /\ pruned = Never
  /\ backlog = FALSE
  /\ lastSent = [a \in Alerts |-> Never]
  /\ told = [a \in Alerts |-> "nothing"]
  /\ \E s \in Scenarios : setup = s.setup /\ left = s.left

BackupNext ==
  \E r \in Runners :
    \/ \E tag \in Tags, prune \in BOOLEAN : Dump(r, tag, prune)
    \/ WriteManifest(r)
    \/ \E ok \in BOOLEAN : Upload(r, ok) \/ SetMarker(r, ok)
    \/ Classify(r)
    \/ PruneOne(r)
    \/ BackupEnds(r)
    \/ BackupRefused(r)

RestoreNext ==
  \/ \E b \in bucket, force \in BOOLEAN : RestoreBegins(b, force)
  \/ \E answers \in BOOLEAN : RestoreChecks(answers)
  \/ RestoreDrops
  \/ RestoreLoads
  \/ RestoreEnds

RetentionNext ==
  \/ \E reads \in BOOLEAN : RetentionStarts(reads)
  \/ DeleteBatch
  \/ JobDies

AlertNext ==
  \/ \E q, m, h \in BOOLEAN : AlertsStart(q, m, h)
  \/ \E a \in Alerts, delivered \in BOOLEAN : PostFiring(a, delivered) \/ PostResolved(a, delivered)
  \/ Record
  \/ AlertsEnd

Next ==
  \/ \E s \in Days : RowArrives(s)
  \/ Migrate
  \/ \E host \in BOOLEAN : LoseDatabase(host)
  \/ StopOrStart
  \/ BackupNext
  \/ RestoreNext
  \/ RetentionNext
  \/ AlertNext
  \/ BacklogTurns
  \/ NextDay

Spec == Init /\ [][Next]_vars

\* The worker's scheduler runs the jobs, and a job does its steps.
FairSpec == Spec /\ WF_vars(RetentionNext) /\ WF_vars(AlertNext)

-------------------------------------------------------------------------------
\* Every variable has its type.
Bundle ==
  [no : Nat, day : Nat, tag : Tags, whole : BOOLEAN, rows : SUBSET Days, schema : Nat, head : Nat]
Run ==
  [stage : {"dumped", "packed", "uploaded", "marked", "pruning"},
   no : Nat, day : Nat, tag : Tags, prune : BOOLEAN, whole : BOOLEAN, rows : SUBSET Days,
   schema : Nat, head : Nat, doomed : SUBSET Nat]
Restore ==
  [stage : {"confirmed", "cleared", "loading", "loaded"}, bundle : Bundle, force : BOOLEAN]
Job ==
  [stage : {"deleting"}, cutoff : Int, batch : Nat] \cup
  [stage : {"telling"}, day : Nat, posted : SUBSET Alerts, send : SUBSET Alerts,
   clear : SUBSET Alerts]

TypeOK ==
  /\ now \in Days /\ marker \in 0..now /\ pruned \in 0..now
  /\ db \in [came : [Days -> Nat], schema : Nat, data : BOOLEAN, sound : BOOLEAN]
  /\ serving \in BOOLEAN /\ stamps \subseteq Days
  /\ bucket \subseteq Bundle /\ IsFiniteSet(bucket) /\ made \in Nat
  /\ runs \in [Runners -> {Idle} \cup Run]
  /\ restore \in {Idle} \cup Restore
  /\ job \in {Idle} \cup Job
  /\ backlog \in BOOLEAN /\ lastSent \in [Alerts -> Nat]
  /\ told \in [Alerts -> {"nothing", "firing", "resolved"}]
  /\ setup \in [ntfy : BOOLEAN, dryRun : BOOLEAN] /\ left \in [Events -> Nat]

\* The marker is a promise: a complete bundle no older than the day before it is in the bucket,
\* and it has every row that had come in by then.  Retention and the alerts rely on it.
MarkerPromises ==
  marker # Never =>
    \E b \in bucket : /\ b.whole /\ b.day >= marker - 1
                      /\ {s \in Rows : db.came[s] < marker - 1} \subseteq b.rows

\* Retention never deletes the last copy: a row that, when the gate was read, had been in the
\* database for longer than the age of the backup the gate accepts, is in a complete bundle of the
\* bucket when it goes.
DeletedIsBackedUp ==
  [][db.data /\ db'.data =>
       \A s \in Rows \ Rows' :
         db.came[s] < (job.cutoff + Window) - FreshDays - 1 =>
           \E b \in bucket : b.whole /\ s \in b.rows]_vars

\* What the retention policy promises to keep, counted from the object's side.
Newer(b, S) == Cardinality({c \in S : c.tag = "none" /\ c.no > b.no})
SundayBundles == {b \in bucket : b.day \in Sundays}
MonthlyBundles == {b \in bucket : b.day \in FirstsOfMonth}

Promised(b) ==
  \/ b.tag = "other"
  \/ b.tag = "pre-upgrade" /\ now - b.day <= KeepTaggedDays
  \/ b.tag = "none" /\ Newer(b, bucket) < KeepDaily
  \/ b.tag = "none" /\ b.day \in Sundays /\ Newer(b, SundayBundles) < KeepWeekly
  \/ b.tag = "none" /\ b.day \in FirstsOfMonth /\ Newer(b, MonthlyBundles) < KeepMonthly

\* Pruning works from a listing it read earlier, beside other runs that upload and prune: still no
\* step removes an object the policy keeps at that moment.
PruneKeepsPolicy == [][\A b \in bucket \ bucket' : ~Promised(b)]_vars

\* The inductive invariant behind it.  A dump that is not uploaded yet has a number and a day like the
\* bundles; both grow together, and no run is older than a day.
Unsent(r) == AtStage(r, "dumped") \/ AtStage(r, "packed")
InOrder(b, c) == b.no < c.no => b.day <= c.day

Numbered ==
  /\ \A b \in bucket : b.no <= made /\ b.day <= now
  /\ \A b, c \in bucket : InOrder(b, c) /\ (b.no = c.no => b = c)
  /\ \A r \in Runners : ~AtStage(r, "idle") =>
       /\ runs[r].no <= made /\ now - 1 <= runs[r].day /\ runs[r].day <= now
       /\ \A q \in Runners \ {r} : ~AtStage(q, "idle") =>
            runs[q].no # runs[r].no /\ InOrder(runs[q], runs[r])
       /\ Unsent(r) =>
            \A b \in bucket : b.no # runs[r].no /\ InOrder(b, runs[r]) /\ InOrder(runs[r], b)

\* What a run is about to delete is not promised, nor will it be: a number is not used again.
DoomedForGood ==
  \A r \in Runners : AtStage(r, "pruning") =>
    \A no \in runs[r].doomed :
      /\ no <= made
      /\ \A b \in bucket : b.no = no => ~Promised(b)
      /\ \A q \in Runners : Unsent(q) => runs[q].no # no

PolicyInv == TypeOK /\ Numbered /\ DoomedForGood

\* The inductive invariant behind MarkerPromises and DeletedIsBackedUp, when fewer uploads fail than
\* there are daily slots.  A bundle, and a dump, has what came in before its day; a run that has
\* uploaded leaves a complete bundle of its day or later; the retention job saw a marker that was
\* fresh.
Broken == {b \in bucket : ~b.whole}
FewUploadsFail ==
  /\ \A s \in Scenarios : s.left["upload"] < KeepDaily
  /\ KeepTaggedDays > 0

DumpsCover ==
  \A s \in Rows :
    /\ \A b \in bucket : db.came[s] < b.day => s \in b.rows
    /\ \A r \in Runners : Unsent(r) /\ db.came[s] < runs[r].day => s \in runs[r].rows

BackedUpSince(day) == \E b \in bucket : b.whole /\ b.day >= day

PromiseInv ==
  /\ Cardinality(Broken) + left["upload"] < KeepDaily
  /\ DumpsCover
  /\ \A r \in Runners : ~AtStage(r, "idle") /\ ~Unsent(r) => BackedUpSince(runs[r].day)
  /\ marker # Never => BackedUpSince(marker - 1)
  /\ job.stage = "deleting" => marker # Never /\ (job.cutoff + Window) - marker <= FreshDays
  /\ restore.stage = "loading" => ~db.data

\* What an alert is about.
Trouble(a) ==
  /\ setup.ntfy /\ serving
  /\ IF a = "queue-backlog" THEN backlog ELSE ~Fresh(marker)

\* A trouble that lasts is told to the operator, and the last word is not that it has cleared,
\* whatever reads and notifications failed and wherever the worker was restarted.  (A recovery
\* announced in between may delay the word to the next repetition.)
FiringIsTold ==
  \A a \in Alerts : <>[]Trouble(a) => <>[](told[a] = "firing" \/ now = MaxDay)

\* docs/tasks/T011-backup-restore-and-upgrade-path.md:357: a restore "must refuse to run against a
\* database that already contains data unless forced".
RefusesData ==
  [][restore.stage = "cleared" /\ db.data /\ ~db'.data => restore.force \/ restore' = Idle]_vars

===============================================================================
