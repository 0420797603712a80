--------------------------- MODULE DeviceSyncProofs ---------------------------
(***************************************************************************)
(* Proofs about DeviceSync for any set of media, any contents, any budget. *)
(* SyncInv is inductive: each lemma shows that one group of actions keeps  *)
(* it.  An action leaves most groups of variables alone, and the frame     *)
(* lemmas dispose of those.                                                *)
(***************************************************************************)
EXTENDS DeviceSync, TLAPS

-------------------------------------------------------------------------------
(* Frames.                                                                 *)

\* The variables DiffHolds depends on.
diffVars == <<manifest, index, pc, target, toGet, got, toDelete>>

\* A step that leaves the index, the manifest and the run alone keeps DiffHolds.
LEMMA DiffFrame ==
  ASSUME DiffHolds, UNCHANGED diffVars
  PROVE  DiffHolds'
BY DEF DiffHolds, RowsMatchManifest, RunHoldsDiff, diffVars

\* The same for the groups of variables the actions are written with.
LEMMA DiffFrameGroups ==
  ASSUME DiffHolds, UNCHANGED <<manifest, index, runVars>>
  PROVE  DiffHolds'
BY DiffFrame DEF diffVars, runVars

\* A run that starts, ends or is being reported holds no diff.
LEMMA DiffForgotten ==
  ASSUME DiffHolds, UNCHANGED <<manifest, index>>, pc' \notin {"diff", "storage", "download"}
  PROVE  DiffHolds'
BY DEF DiffHolds, RowsMatchManifest, RunHoldsDiff

\* A group of variables that does not change keeps its type.
LEMMA TypeFrame ==
  ASSUME StateTypeOK
  PROVE  /\ UNCHANGED serverVars => ServerTypeOK'
         /\ UNCHANGED linkVars => LinkTypeOK'
         /\ UNCHANGED diskVars => DiskTypeOK'
         /\ UNCHANGED runVars => RunTypeOK'
         /\ UNCHANGED queueVars => queued' \in BOOLEAN /\ queuedForce' \in BOOLEAN
         /\ UNCHANGED taskVars => TaskTypeOK'
         /\ UNCHANGED room => room' \in BOOLEAN
         /\ UNCHANGED maint => maint' \in [Slots -> Passes]
         /\ UNCHANGED shown => shown' \in SUBSET Media
         /\ UNCHANGED left => left' \in [Events -> Nat]
<1> USE DEF StateTypeOK
<1>1. UNCHANGED serverVars => ServerTypeOK'
  BY DEF ServerTypeOK, serverVars
<1>2. UNCHANGED linkVars => LinkTypeOK'
  BY DEF LinkTypeOK, linkVars
<1>3. UNCHANGED diskVars => DiskTypeOK'
  BY DEF DiskTypeOK, diskVars
<1>4. UNCHANGED runVars => RunTypeOK'
  BY DEF RunTypeOK, runVars
<1>5. UNCHANGED queueVars => queued' \in BOOLEAN /\ queuedForce' \in BOOLEAN
  BY DEF queueVars
<1>6. UNCHANGED taskVars => TaskTypeOK'
  BY DEF TaskTypeOK, taskVars
<1> QED
  BY <1>1, <1>2, <1>3, <1>4, <1>5, <1>6

\* An event of the environment leaves a budget.
LEMMA SpendType ==
  ASSUME StateTypeOK, NEW kind \in Events, Spend(kind)
  PROVE  left' \in [Events -> Nat]
BY DEF StateTypeOK, Spend

-------------------------------------------------------------------------------
(* The initial state.                                                      *)

\* A pass that is not going on is a pass, with any point to be at.
LEMMA IdlePassType == IdlePass \in Passes /\ [IdlePass EXCEPT !.at = "begin"] \in Passes
BY DEF IdlePass, Passes, Manifest

\* After a restart the boot task's pass is the one about to begin.
LEMMA BootPassType == BootPass \in [Slots -> Passes]
BY IdlePassType DEF BootPass

\* The device starts with neither a manifest nor a row.
LEMMA InitSyncInv == Init => SyncInv
<1> SUFFICES ASSUME Init PROVE SyncInv
  OBVIOUS
<1> USE SyncAssumption DEF Init
<1>1. ServerTypeOK
  BY DEF ServerTypeOK
<1>2. DiskTypeOK /\ LinkTypeOK
  BY DEF DiskTypeOK, LinkTypeOK, Manifest
<1>3. RunTypeOK /\ TaskTypeOK
  BY DEF RunTypeOK, TaskTypeOK
<1>4. StateTypeOK
  BY <1>1, <1>2, <1>3, BootPassType DEF StateTypeOK
<1>5. DiffHolds
  BY DEF DiffHolds, RowsMatchManifest, RunHoldsDiff
<1> QED
  BY <1>4, <1>5 DEF SyncInv

-------------------------------------------------------------------------------
(* The server.                                                             *)

\* What buildSyncManifest returns is a manifest.
LEMMA ServerManifestType ==
  ASSUME StateTypeOK
  PROVE  ServerManifest \in Manifest
BY DEF StateTypeOK, ServerTypeOK, ServerManifest, Manifest

\* Nothing the server does by itself touches the device's index or its run.
LEMMA ServerKeeps ==
  ASSUME SyncInv, ServerStep
  PROVE  SyncInv'
<1> USE DEF SyncInv
<1>1. UNCHANGED <<diskVars, room, runVars, queueVars, maint, taskVars, shown>>
  BY DEF ServerStep, EditPlaylists, ReplaceMedia, Publish, PublishLost, AllowedExpires, HandleHello
<1>2. DiffHolds'
  BY <1>1, DiffFrameGroups DEF diskVars
<1>3. left' \in [Events -> Nat]
  <2>1. UNCHANGED left \/ \E kind \in Events : Spend(kind)
    BY DEF ServerStep, EditPlaylists, ReplaceMedia, Publish, PublishLost, AllowedExpires, HandleHello, Events
  <2> QED
    BY <2>1, SpendType, TypeFrame
<1>4. ServerTypeOK'
  <2>1. CASE EditPlaylists
    BY <2>1 DEF EditPlaylists, StateTypeOK, ServerTypeOK
  <2>2. CASE ReplaceMedia
    BY <2>2 DEF ReplaceMedia, StateTypeOK, ServerTypeOK
  <2>3. CASE Publish \/ PublishLost \/ AllowedExpires
    BY <2>3 DEF Publish, PublishLost, AllowedExpires, StateTypeOK, ServerTypeOK
  <2>4. CASE HandleHello
    BY <2>4, TypeFrame DEF HandleHello
  <2> QED
    BY <2>1, <2>2, <2>3, <2>4 DEF ServerStep
<1>5. LinkTypeOK'
  <2>1. CASE Publish
    <3>1. push' \in BOOLEAN
      BY <2>1 DEF Publish
    <3> QED
      BY <2>1, <3>1 DEF Publish, StateTypeOK, LinkTypeOK
  <2>2. CASE HandleHello
    <3>1. push' \in BOOLEAN
      BY <2>2 DEF HandleHello
    <3> QED
      BY <2>2, <3>1 DEF HandleHello, StateTypeOK, LinkTypeOK
  <2>3. CASE EditPlaylists \/ ReplaceMedia \/ PublishLost \/ AllowedExpires
    BY <2>3, TypeFrame DEF EditPlaylists, ReplaceMedia, PublishLost, AllowedExpires
  <2> QED
    BY <2>1, <2>2, <2>3 DEF ServerStep
<1> QED
  BY <1>1, <1>2, <1>3, <1>4, <1>5, TypeFrame DEF StateTypeOK

-------------------------------------------------------------------------------
(* Requests, the websocket, commands, the player and the environment.      *)

\* computePlayerState selects among the media.
LEMMA ShowableType == Showable \in SUBSET Media
BY DEF Showable

\* Asking for a sync touches neither a diff nor the index.
LEMMA RequestKeeps ==
  ASSUME SyncInv, NEW f \in BOOLEAN, RequestSync(f), UNCHANGED <<manifest, index>>
  PROVE  DiffHolds' /\ RunTypeOK' /\ queued' \in BOOLEAN /\ queuedForce' \in BOOLEAN
<1> USE DEF SyncInv
<1>1. CASE pc = "idle"
  <2>1. UNCHANGED <<target, toGet, got, toDelete, stale, queueVars>> /\ pc' = "fetch" /\ force' = f
    BY <1>1 DEF RequestSync
  <2>2. RunTypeOK'
    BY <2>1 DEF StateTypeOK, RunTypeOK
  <2> QED
    BY <2>1, <2>2, DiffForgotten, TypeFrame
<1>2. CASE pc # "idle"
  <2>1. UNCHANGED runVars /\ queued' = TRUE /\ queuedForce' = MergedForce(f)
    BY <1>2 DEF RequestSync
  <2>2. queuedForce' \in BOOLEAN
    BY <2>1 DEF MergedForce
  <2> QED
    BY <2>1, <2>2, DiffFrameGroups, TypeFrame
<1> QED
  BY <1>1, <1>2

\* The end of a run forgets what it held.
LEMMA FinishKeeps ==
  ASSUME SyncInv, NEW again \in BOOLEAN, NEW forced \in BOOLEAN, FinishRun(again, forced),
         UNCHANGED <<manifest, index>>
  PROVE  /\ DiffHolds' /\ RunTypeOK' /\ queued' \in BOOLEAN /\ queuedForce' \in BOOLEAN
         /\ boot' \in {"pass", "repairing", "starting", "done"}
<1> USE DEF SyncInv
<1>1. pc' \in {"idle", "fetch"} /\ queuedForce' = FALSE
  BY DEF FinishRun
<1>2. DiffHolds'
  BY <1>1, DiffForgotten
<1>3. force' \in BOOLEAN /\ queued' \in BOOLEAN
  BY DEF FinishRun
<1>4. RunTypeOK'
  BY <1>1, <1>3 DEF FinishRun, RunTypeOK
<1>5. boot' \in {"pass", "repairing", "starting", "done"}
  BY DEF FinishRun, StateTypeOK, TaskTypeOK
<1> QED
  BY <1>1, <1>2, <1>3, <1>4, <1>5

\* The websocket coming and going touches neither the index nor the run.
LEMMA LinkKeeps ==
  ASSUME SyncInv, LinkStep
  PROVE  SyncInv'
<1> USE DEF SyncInv
<1>1. UNCHANGED <<serverVars, diskVars, room, runVars, queueVars, maint, taskVars>>
  BY DEF LinkStep, Connect, LinkBreaks, Disconnect
<1>2. DiffHolds'
  BY <1>1, DiffFrameGroups DEF diskVars
<1>3. left' \in [Events -> Nat]
  <2>1. UNCHANGED left \/ Spend("link")
    BY DEF LinkStep, Connect, LinkBreaks, Disconnect
  <2> QED
    BY <2>1, SpendType, TypeFrame DEF Events
<1>4. LinkTypeOK'
  BY DEF LinkStep, Connect, LinkBreaks, Disconnect, StateTypeOK, LinkTypeOK, DiskTypeOK
<1>5. shown' \in SUBSET Media
  BY ShowableType DEF LinkStep, Connect, LinkBreaks, Disconnect, StateTypeOK
<1> QED
  BY <1>1, <1>2, <1>3, <1>4, <1>5, TypeFrame DEF StateTypeOK

\* A push, a poll or a command only asks for a sync.
LEMMA TriggerKeeps ==
  ASSUME SyncInv, TriggerStep
  PROVE  SyncInv'
<1> USE DEF SyncInv
<1>1. RequestSync(FALSE) /\ UNCHANGED <<serverVars, diskVars, room, maint, taskVars, shown>>
  BY DEF TriggerStep, ReceivePush, Poll, RefreshCommand
<1>2. DiffHolds' /\ RunTypeOK' /\ queued' \in BOOLEAN /\ queuedForce' \in BOOLEAN
  BY <1>1, RequestKeeps DEF diskVars
<1>3. left' \in [Events -> Nat]
  <2>1. UNCHANGED left \/ Spend("refresh")
    BY DEF TriggerStep, ReceivePush, Poll, RefreshCommand
  <2> QED
    BY <2>1, SpendType, TypeFrame DEF Events
<1>4. LinkTypeOK'
  BY DEF TriggerStep, ReceivePush, Poll, RefreshCommand, StateTypeOK, LinkTypeOK, linkVars
<1> QED
  BY <1>1, <1>2, <1>3, <1>4, TypeFrame DEF StateTypeOK

\* clear_cache empties the index in the step that forgets the manifest.
LEMMA ClearKeeps ==
  ASSUME SyncInv, ClearStep
  PROVE  SyncInv'
<1> USE DEF SyncInv
<1>1. CASE ClearCache
  <2>1. UNCHANGED <<serverVars, linkVars, room, runVars, queueVars, maint, shown>>
    BY <1>1 DEF ClearCache
  <2>2. DiskTypeOK'
    BY <1>1 DEF ClearCache, StateTypeOK, DiskTypeOK, Manifest
  <2>3. TaskTypeOK'
    BY <1>1 DEF ClearCache, Rows, StateTypeOK, TaskTypeOK
  <2>4. left' \in [Events -> Nat]
    BY <1>1, SpendType DEF ClearCache, Events
  <2>5. DiffHolds'
    BY <1>1 DEF ClearCache, DiffHolds, RowsMatchManifest, RunHoldsDiff, runVars
  <2> QED
    BY <2>1, <2>2, <2>3, <2>4, <2>5, TypeFrame DEF StateTypeOK
<1>2. ASSUME NEW m \in Media, ClearFile(m) PROVE SyncInv'
  <2>1. UNCHANGED <<serverVars, linkVars, manifest, index, room, runVars, queueVars, maint, shown, left>>
    BY <1>2 DEF ClearFile
  <2>2. DiskTypeOK' /\ TaskTypeOK'
    BY <1>2 DEF ClearFile, RemoveFile, StateTypeOK, DiskTypeOK, TaskTypeOK
  <2>3. DiffHolds'
    BY <2>1, DiffFrameGroups
  <2> QED
    BY <2>1, <2>2, <2>3, TypeFrame DEF StateTypeOK
<1>3. CASE ClearedSync
  <2>1. RequestSync(FALSE) /\ UNCHANGED <<serverVars, linkVars, diskVars, room, maint, shown, left>>
    BY <1>3 DEF ClearedSync
  <2>2. TaskTypeOK'
    BY <1>3 DEF ClearedSync, StateTypeOK, TaskTypeOK
  <2>3. DiffHolds' /\ RunTypeOK' /\ queued' \in BOOLEAN /\ queuedForce' \in BOOLEAN
    BY <2>1, RequestKeeps DEF diskVars
  <2> QED
    BY <2>1, <2>2, <2>3, TypeFrame DEF StateTypeOK
<1> QED
  BY <1>1, <1>2, <1>3 DEF ClearStep

\* Timers, damaged files, full disks and restarts: only a restart ends the run,
\* and then it holds no diff.
LEMMA OtherKeeps ==
  ASSUME SyncInv, OtherStep
  PROVE  SyncInv'
<1> USE DEF SyncInv
<1>1. CASE RecomputeTick
  BY <1>1, DiffFrameGroups, TypeFrame, ShowableType DEF RecomputeTick, StateTypeOK, diskVars
<1>2. CASE DiskFills
  BY <1>2, DiffFrameGroups, TypeFrame, SpendType DEF DiskFills, StateTypeOK, diskVars, Events
<1>3. CASE DiskFrees
  BY <1>3, DiffFrameGroups, TypeFrame DEF DiskFrees, StateTypeOK, diskVars
<1>4. CASE CooldownEnds
  <2>1. TaskTypeOK'
    BY <1>4 DEF CooldownEnds, StateTypeOK, TaskTypeOK
  <2> QED
    BY <1>4, <2>1, DiffFrameGroups, TypeFrame DEF CooldownEnds, StateTypeOK, diskVars
<1>5. CASE HourPasses
  <2>1. DiskTypeOK'
    BY <1>5 DEF HourPasses, OnDisk, StateTypeOK, DiskTypeOK
  <2> QED
    BY <1>5, <2>1, DiffFrameGroups, TypeFrame DEF HourPasses, StateTypeOK
<1>6. CASE Restart
  <2>1. DiskTypeOK'
    BY <1>6 DEF Restart, OnDisk, StateTypeOK, DiskTypeOK
  <2>2. LinkTypeOK' /\ RunTypeOK' /\ TaskTypeOK'
    BY <1>6 DEF Restart, LinkTypeOK, RunTypeOK, TaskTypeOK
  <2>3. left' \in [Events -> Nat]
    BY <1>6, SpendType DEF Restart, Events
  <2>4. maint' \in [Slots -> Passes] /\ shown' \in SUBSET Media
    BY <1>6, BootPassType, ShowableType DEF Restart
  <2>5. UNCHANGED <<serverVars, manifest, index, room>> /\ pc' = "idle" /\ queued' = FALSE /\ queuedForce' = FALSE
    BY <1>6 DEF Restart
  <2>6. DiffHolds'
    BY <2>5, DiffForgotten
  <2> QED
    BY <2>1, <2>2, <2>3, <2>4, <2>5, <2>6, TypeFrame DEF StateTypeOK
<1>7. ASSUME NEW m \in Media, PlayerError(m) PROVE SyncInv'
  <2>1. TaskTypeOK'
    BY <1>7 DEF PlayerError, StateTypeOK, TaskTypeOK
  <2> QED
    BY <1>7, <2>1, DiffFrameGroups, TypeFrame DEF PlayerError, StateTypeOK, diskVars
<1>8. ASSUME NEW m \in Media, DamageFile(m) PROVE SyncInv'
  <2>1. DiskTypeOK'
    BY <1>8 DEF DamageFile, StateTypeOK, DiskTypeOK
  <2>2. left' \in [Events -> Nat]
    BY <1>8, SpendType DEF DamageFile, Events
  <2> QED
    BY <1>8, <2>1, <2>2, DiffFrameGroups, TypeFrame DEF DamageFile, StateTypeOK
<1> QED
  BY <1>1, <1>2, <1>3, <1>4, <1>5, <1>6, <1>7, <1>8 DEF OtherStep

-------------------------------------------------------------------------------
(* The sync run.                                                           *)

\* With its diff done, a run replaces the index by exactly what the new
\* manifest wants: a row no upsert and no deletion touches was already right.
LEMMA AppliedIndexMatches ==
  ASSUME SyncInv, pc = "download", toGet = {}
  PROVE  /\ AppliedIndex \in Manifest
         /\ \A m \in Media : AppliedIndex[m] # Absent => AppliedIndex[m] = target[m]
<1> USE DEF SyncInv, DiffHolds, RunHoldsDiff
<1>1. target \in Manifest
  BY DEF StateTypeOK, RunTypeOK
<1>2. AppliedIndex \in Manifest
  BY <1>1 DEF AppliedIndex, Manifest, StateTypeOK, DiskTypeOK
<1>3. ASSUME NEW m \in Media, AppliedIndex[m] # Absent PROVE AppliedIndex[m] = target[m]
  BY <1>3 DEF AppliedIndex
<1> QED
  BY <1>2, <1>3

\* Every step of a sync run, the commit among them.
LEMMA RunKeeps ==
  ASSUME SyncInv, RunStep
  PROVE  SyncInv'
<1> USE DEF SyncInv
<1>1. CASE FetchManifest
  <2>1. RunTypeOK'
    BY <1>1, ServerManifestType DEF FetchManifest, StateTypeOK, RunTypeOK
  <2>2. ServerManifest # NoManifest
    BY ServerManifestType, SyncAssumption
  <2>3. DiffHolds'
    BY <1>1, <2>2 DEF FetchManifest, DiffHolds, RowsMatchManifest, RunHoldsDiff, diskVars
  <2> QED
    BY <1>1, <2>1, <2>3, TypeFrame DEF FetchManifest, StateTypeOK
<1>2. CASE FetchFails \/ SkipUnchanged \/ EndRefused
  <2>1. FinishRun(queued, queuedForce)
        /\ UNCHANGED <<serverVars, linkVars, diskVars, room, maint, clearing, clearTodo, suspect, cooldown, shown>>
    BY <1>2 DEF FetchFails, SkipUnchanged, EndRefused
  <2>2. /\ DiffHolds' /\ RunTypeOK' /\ queued' \in BOOLEAN /\ queuedForce' \in BOOLEAN
        /\ boot' \in {"pass", "repairing", "starting", "done"}
    BY <2>1, FinishKeeps DEF StateTypeOK, diskVars
  <2>3. TaskTypeOK'
    BY <2>1, <2>2 DEF StateTypeOK, TaskTypeOK
  <2>4. left' \in [Events -> Nat]
    BY <1>2, SpendType, TypeFrame DEF FetchFails, SkipUnchanged, EndRefused, Events
  <2> QED
    BY <2>1, <2>2, <2>3, <2>4, TypeFrame DEF StateTypeOK
<1>3. CASE DiffManifest
  <2>1. pc' \in {"storage", "download"} /\ target \in Manifest
    BY <1>3 DEF DiffManifest, DiffHolds, StateTypeOK, RunTypeOK
  <2>2. RunTypeOK'
    BY <1>3, <2>1 DEF DiffManifest, ToDownload, ToRemove, StateTypeOK, RunTypeOK
  <2>3. RunHoldsDiff'
    BY <1>3, <2>1, SyncAssumption
    DEF DiffManifest, ToDownload, ToRemove, RunHoldsDiff, diskVars, DiffHolds
  <2>4. DiffHolds'
    BY <1>3, <2>1, <2>3 DEF DiffManifest, DiffHolds, RowsMatchManifest, diskVars
  <2> QED
    BY <1>3, <2>2, <2>4, TypeFrame DEF DiffManifest, StateTypeOK
<1>4. CASE CheckStorage
  <2>1. RunTypeOK'
    BY <1>4 DEF CheckStorage, StateTypeOK, RunTypeOK
  <2>2. DiffHolds'
    BY <1>4 DEF CheckStorage, DiffHolds, RowsMatchManifest, RunHoldsDiff, diskVars
  <2> QED
    BY <1>4, <2>1, <2>2, TypeFrame DEF CheckStorage, StateTypeOK
<1>5. ASSUME NEW m \in Media, Download(m) PROVE SyncInv'
  <2>1. RunTypeOK'
    BY <1>5 DEF Download, StateTypeOK, RunTypeOK
  <2>2. ServerTypeOK'
    BY <1>5 DEF Download, AllowedNow, StateTypeOK, ServerTypeOK
  <2>3. DiskTypeOK'
    <3>1. target \in Manifest
      BY <1>5 DEF Download, DiffHolds, RunHoldsDiff, StateTypeOK, RunTypeOK
    <3> QED
      BY <1>5, <3>1 DEF Download, StateTypeOK, DiskTypeOK, Manifest
  <2>4. DiffHolds'
    BY <1>5 DEF Download, DiffHolds, RowsMatchManifest, RunHoldsDiff
  <2> QED
    BY <1>5, <2>1, <2>2, <2>3, <2>4, TypeFrame DEF Download, StateTypeOK
<1>6. ASSUME NEW m \in Media, DownloadRefused(m) PROVE SyncInv'
  <2>1. RunTypeOK'
    BY <1>6 DEF DownloadRefused, StateTypeOK, RunTypeOK
  <2>2. ServerTypeOK'
    BY <1>6 DEF DownloadRefused, AllowedNow, StateTypeOK, ServerTypeOK
  <2>3. DiffHolds'
    BY <1>6, DiffForgotten DEF DownloadRefused, diskVars
  <2> QED
    BY <1>6, <2>1, <2>2, <2>3, TypeFrame DEF DownloadRefused, StateTypeOK
<1>7. CASE DownloadFails
  <2>1. RunTypeOK'
    BY <1>7 DEF DownloadFails, StateTypeOK, RunTypeOK
  <2>2. DiffHolds'
    BY <1>7, DiffForgotten DEF DownloadFails, diskVars
  <2>3. left' \in [Events -> Nat]
    BY <1>7, SpendType DEF DownloadFails, Events
  <2> QED
    BY <1>7, <2>1, <2>2, <2>3, TypeFrame DEF DownloadFails, StateTypeOK
<1>8. CASE Commit
  <2>1. RunTypeOK'
    BY <1>8 DEF Commit, StaleFiles, StateTypeOK, RunTypeOK
  <2>2. target \in Manifest
    BY <1>8 DEF Commit, DiffHolds, RunHoldsDiff, StateTypeOK, RunTypeOK
  <2>3. DiskTypeOK'
    BY <1>8, <2>2, AppliedIndexMatches DEF Commit, StateTypeOK, DiskTypeOK
  <2>4. RowsMatchManifest'
    <3>1. target # NoManifest
      BY <2>2, SyncAssumption
    <3> QED
      BY <1>8, <3>1, AppliedIndexMatches DEF Commit, RowsMatchManifest
  <2>5. DiffHolds'
    BY <1>8, <2>4 DEF Commit, DiffHolds, RunHoldsDiff
  <2> QED
    BY <1>8, <2>1, <2>3, <2>5, TypeFrame DEF Commit, StateTypeOK
<1>9. ASSUME NEW m \in Media, RemoveStale(m) PROVE SyncInv'
  <2>1. RunTypeOK' /\ DiskTypeOK'
    BY <1>9 DEF RemoveStale, RemoveFile, StateTypeOK, RunTypeOK, DiskTypeOK
  <2>2. DiffHolds'
    BY <1>9, DiffForgotten DEF RemoveStale
  <2> QED
    BY <1>9, <2>1, <2>2, TypeFrame DEF RemoveStale, StateTypeOK
<1>10. CASE AnnounceApplied
  <2>1. RunTypeOK'
    BY <1>10 DEF AnnounceApplied, StateTypeOK, RunTypeOK
  <2>2. maint' \in [Slots -> Passes]
    BY <1>10 DEF AnnounceApplied, StateTypeOK, Slots, Passes
  <2>3. DiffHolds'
    BY <1>10, DiffForgotten DEF AnnounceApplied, diskVars
  <2> QED
    BY <1>10, <2>1, <2>2, <2>3, TypeFrame, ShowableType DEF AnnounceApplied, StateTypeOK
<1> QED
  BY <1>1, <1>2, <1>3, <1>4, <1>5, <1>6, <1>7, <1>8, <1>9, <1>10 DEF RunStep

-------------------------------------------------------------------------------
(* Integrity passes.                                                       *)

\* Dropping rows cannot break a property that every row has.
LEMMA DropKeepsDiff ==
  ASSUME SyncInv, NEW ms, index' = IndexWithout(ms),
         UNCHANGED <<manifest, pc, target, toGet, got, toDelete>>
  PROVE  DiffHolds' /\ index' \in Manifest
<1> USE DEF SyncInv, DiffHolds
<1>1. \A m \in Media : index'[m] = Absent \/ index'[m] = index[m]
  BY DEF IndexWithout
<1>2. RowsMatchManifest'
  BY <1>1 DEF RowsMatchManifest
<1>3. RunHoldsDiff'
  BY <1>1 DEF RunHoldsDiff
<1>4. index' \in Manifest
  BY DEF IndexWithout, Manifest, StateTypeOK, DiskTypeOK
<1> QED
  BY <1>2, <1>3, <1>4

\* Every step of an integrity pass, whatever the run is doing meanwhile.
LEMMA PassKeeps ==
  ASSUME SyncInv, NEW s \in Slots, PassStep(s)
  PROVE  SyncInv'
<1> USE DEF SyncInv
<1>1. CASE BeginPass(s)
  <2>2. maint' \in [Slots -> Passes]
    <3>1. PICK picked \in SUBSET Rows(index) : maint' = [maint EXCEPT ![s] = [IdlePass EXCEPT
            !.at = "verify", !.entries = index, !.todo = Rows(index),
            !.due = picked \cup (suspect \cap Rows(index))]]
      BY <1>1 DEF BeginPass
    <3>2. [IdlePass EXCEPT !.at = "verify", !.entries = index, !.todo = Rows(index),
            !.due = picked \cup (suspect \cap Rows(index))] \in Passes
      BY <3>1 DEF IdlePass, Passes, Rows, Manifest, StateTypeOK, DiskTypeOK
    <3> QED
      BY <3>1, <3>2 DEF StateTypeOK
  <2>3. TaskTypeOK'
    BY <1>1 DEF BeginPass, StateTypeOK, TaskTypeOK
  <2>4. DiffHolds'
    BY <1>1, DiffFrameGroups DEF BeginPass, diskVars
  <2> QED
    BY <1>1, <2>2, <2>3, <2>4, TypeFrame DEF BeginPass, StateTypeOK
<1>2. ASSUME NEW m \in Media, VerifyFile(s, m) PROVE SyncInv'
  <2>1. maint' \in [Slots -> Passes]
    <3>1. maint[s] \in Passes
      BY DEF StateTypeOK
    <3>2. CASE Damaged(s, m)
      <4>1. maint' = [maint EXCEPT ![s].todo = @ \ {m}, ![s].invalid = maint[s].invalid \cup {m}]
        BY <1>2, <3>2 DEF VerifyFile
      <4> QED
        BY <3>1, <4>1 DEF StateTypeOK, Passes
    <3>3. CASE ~Damaged(s, m)
      <4>1. maint' = [maint EXCEPT ![s].todo = @ \ {m}, ![s].invalid = maint[s].invalid]
        BY <1>2, <3>3 DEF VerifyFile
      <4> QED
        BY <3>1, <4>1 DEF StateTypeOK, Passes
    <3> QED
      BY <3>2, <3>3
  <2> QED
    BY <1>2, <2>1, DiffFrameGroups, TypeFrame DEF VerifyFile, StateTypeOK, diskVars
<1>3. CASE EndVerify(s)
  <2>1. maint[s].invalid \in SUBSET Media
    BY DEF StateTypeOK, Passes
  <2>2. [IdlePass EXCEPT !.at = "remove", !.todo = maint[s].invalid, !.invalid = maint[s].invalid] \in Passes
    BY <2>1 DEF IdlePass, Passes, Manifest
  <2>3. maint' \in [Slots -> Passes]
    BY <1>3, <2>2 DEF EndVerify, StateTypeOK
  <2> QED
    BY <1>3, <2>3, DiffFrameGroups, TypeFrame DEF EndVerify, StateTypeOK, diskVars
<1>4. ASSUME NEW m \in Media, RemoveInvalid(s, m) PROVE SyncInv'
  <2>1. maint' \in [Slots -> Passes]
    BY <1>4 DEF RemoveInvalid, StateTypeOK, Passes
  <2>2. DiskTypeOK'
    BY <1>4 DEF RemoveInvalid, RemoveFile, StateTypeOK, DiskTypeOK
  <2> QED
    BY <1>4, <2>1, <2>2, DiffFrameGroups, TypeFrame DEF RemoveInvalid, StateTypeOK
<1>5. CASE DropRows(s)
  <2>1. maint' \in [Slots -> Passes]
    <3> DEFINE names == {m \in Media : file[m] # Absent /\ index'[m] = Absent}
    <3>1. maint' = [maint EXCEPT ![s].at = "sweep", ![s].todo = names] /\ names \in SUBSET Media
      BY <1>5 DEF DropRows
    <3> HIDE DEF names
    <3> QED
      BY <3>1 DEF StateTypeOK, Passes
  <2>2. DiffHolds' /\ index' \in Manifest
    BY <1>5, DropKeepsDiff DEF DropRows, runVars
  <2>3. DiskTypeOK'
    BY <1>5, <2>2 DEF DropRows, StateTypeOK, DiskTypeOK
  <2> QED
    BY <1>5, <2>1, <2>2, <2>3, TypeFrame DEF DropRows, StateTypeOK
<1>6. ASSUME NEW m \in Media, SweepStat(s, m) PROVE SyncInv'
  <2>1. maint' \in [Slots -> Passes]
    <3>1. maint[s] \in Passes
      BY DEF StateTypeOK
    <3>2. CASE PastGrace(m)
      <4>1. maint' = [maint EXCEPT ![s].todo = @ \ {m}, ![s].doomed = {m}]
        BY <1>6, <3>2 DEF SweepStat
      <4> QED
        BY <3>1, <4>1 DEF StateTypeOK, Passes
    <3>3. CASE ~PastGrace(m)
      <4>1. maint' = [maint EXCEPT ![s].todo = @ \ {m}, ![s].doomed = {}]
        BY <1>6, <3>3 DEF SweepStat
      <4> QED
        BY <3>1, <4>1 DEF StateTypeOK, Passes
    <3> QED
      BY <3>2, <3>3
  <2> QED
    BY <1>6, <2>1, DiffFrameGroups, TypeFrame DEF SweepStat, StateTypeOK, diskVars
<1>7. ASSUME NEW m \in Media, SweepRemove(s, m) PROVE SyncInv'
  <2>1. maint' \in [Slots -> Passes]
    BY <1>7 DEF SweepRemove, StateTypeOK, Passes
  <2>2. DiskTypeOK'
    BY <1>7 DEF SweepRemove, RemoveFile, StateTypeOK, DiskTypeOK
  <2> QED
    BY <1>7, <2>1, <2>2, DiffFrameGroups, TypeFrame DEF SweepRemove, StateTypeOK
<1> QED
  BY <1>1, <1>2, <1>3, <1>4, <1>5, <1>6, <1>7 DEF PassStep

\* The end of a pass ends a run or asks for one.
LEMMA EndPassKeeps ==
  ASSUME SyncInv, EndPassStep
  PROVE  SyncInv'
<1> USE DEF SyncInv
<1>1. UNCHANGED <<serverVars, linkVars, diskVars, room, clearing, clearTodo, suspect, shown, left>>
  BY DEF EndPassStep, EndRunPass, RepairAfterRun, EndBootPass, RepairAtBoot
<1>2. maint' \in [Slots -> Passes] /\ cooldown' \in BOOLEAN
  <2>1. /\ \E s \in Slots : maint' = [maint EXCEPT ![s] = IdlePass]
        /\ cooldown' \in {cooldown, TRUE}
    BY DEF EndPassStep, EndRunPass, RepairAfterRun, EndBootPass, RepairAtBoot, Slots
  <2> QED
    BY <2>1, IdlePassType DEF StateTypeOK, TaskTypeOK
<1>3. CASE EndRunPass \/ RepairAfterRun
  <2>1. FinishRun(queued, queuedForce) \/ FinishRun(TRUE, TRUE)
    BY <1>3 DEF EndRunPass, RepairAfterRun, MergedForce
  <2>2. /\ DiffHolds' /\ RunTypeOK' /\ queued' \in BOOLEAN /\ queuedForce' \in BOOLEAN
        /\ boot' \in {"pass", "repairing", "starting", "done"}
    BY <1>1, <2>1, FinishKeeps DEF StateTypeOK, diskVars
  <2>3. TaskTypeOK'
    BY <1>1, <1>2, <2>2 DEF StateTypeOK, TaskTypeOK
  <2> QED
    BY <1>1, <1>2, <2>2, <2>3, TypeFrame DEF StateTypeOK
<1>4. CASE EndBootPass \/ RepairAtBoot
  <2>1. RequestSync(FALSE) \/ RequestSync(TRUE)
    BY <1>4 DEF EndBootPass, RepairAtBoot
  <2>2. DiffHolds' /\ RunTypeOK' /\ queued' \in BOOLEAN /\ queuedForce' \in BOOLEAN
    BY <1>1, <2>1, RequestKeeps DEF diskVars
  <2>3. TaskTypeOK'
    BY <1>1, <1>2, <1>4 DEF EndBootPass, RepairAtBoot, StateTypeOK, TaskTypeOK
  <2> QED
    BY <1>1, <1>2, <2>2, <2>3, TypeFrame DEF StateTypeOK
<1> QED
  BY <1>3, <1>4 DEF EndPassStep

-------------------------------------------------------------------------------
(* Offline playback.  CalmParts is inductive together with SyncInv.        *)

\* Budgets are only spent.
LEMMA BudgetsShrink ==
  ASSUME StateTypeOK, UNCHANGED left \/ \E kind \in Events : Spend(kind)
  PROVE  \A k \in Events : left[k] \in Nat /\ left'[k] \in Nat /\ left'[k] <= left[k]
<1>1. CASE UNCHANGED left
  BY <1>1 DEF StateTypeOK
<1>2. ASSUME NEW kind \in Events, Spend(kind)
      PROVE  \A k \in Events : left[k] \in Nat /\ left'[k] \in Nat /\ left'[k] <= left[k]
  BY <1>2 DEF StateTypeOK, Spend
<1> QED
  BY <1>1, <1>2

\* Every step spends from a budget or none.
LEMMA StepSpends ==
  ASSUME StateTypeOK, [Next]_vars
  PROVE  UNCHANGED left \/ \E kind \in Events : Spend(kind)
<1>1. CASE ServerStep
  BY <1>1 DEF ServerStep, EditPlaylists, ReplaceMedia, Publish, PublishLost, AllowedExpires, HandleHello, Events
<1>2. CASE LinkStep \/ TriggerStep
  BY <1>2 DEF LinkStep, Connect, LinkBreaks, Disconnect, TriggerStep, ReceivePush, Poll, RefreshCommand, Events
<1>3. CASE RunStep
  BY <1>3 DEF RunStep, FetchManifest, FetchFails, SkipUnchanged, DiffManifest, CheckStorage, Download,
              DownloadRefused, RemoveStale, DownloadFails, Commit, AnnounceApplied, EndRefused, Events
<1>4. CASE ClearStep
  BY <1>4 DEF ClearStep, ClearCache, ClearedSync, ClearFile, Events
<1>5. CASE OtherStep
  BY <1>5 DEF OtherStep, RecomputeTick, DiskFills, DiskFrees, CooldownEnds, HourPasses, Restart,
              PlayerError, DamageFile, Events
<1>6. CASE \E s \in Slots : PassStep(s)
  BY <1>6 DEF PassStep, BeginPass, EndVerify, DropRows, VerifyFile, RemoveInvalid, SweepStat, SweepRemove
<1>7. CASE EndPassStep
  BY <1>7 DEF EndPassStep, EndRunPass, RepairAfterRun, EndBootPass, RepairAtBoot
<1>8. CASE UNCHANGED vars
  BY <1>8 DEF vars
<1> QED
  BY <1>1, <1>2, <1>3, <1>4, <1>5, <1>6, <1>7, <1>8 DEF Next

\* Budgets that are not there stay so.
NothingNew == \A k \in {"damage", "replace", "clear"} : left[k] = 0 => left'[k] = 0

\* A part of CalmParts whose variables do not change stays.
LEMMA CalmFrame ==
  ASSUME CalmParts, NothingNew
  PROVE  /\ UNCHANGED <<asset, file, target>> => OneContent'
         /\ UNCHANGED <<manifest, index, file>> => RowsHaveFiles' /\ ~DroppedRows'
         /\ UNCHANGED <<index, file, runVars>> => RunLosesNothing'
         /\ UNCHANGED <<maint, index>> => \A s \in Slots : PassLosesNothing(s)'
<1> USE DEF CalmParts
<1>1. UNCHANGED <<asset, file, target>> => OneContent'
  BY DEF OneContent, NothingNew
<1>2. UNCHANGED <<manifest, index, file>> => RowsHaveFiles' /\ ~DroppedRows'
  BY DEF RowsHaveFiles, DroppedRows, Required, Rows
<1>3. UNCHANGED <<index, file, runVars>> => RunLosesNothing'
  BY DEF RunLosesNothing, runVars
<1>4. UNCHANGED <<maint, index>> => \A s \in Slots : PassLosesNothing(s)'
  BY DEF PassLosesNothing, Rows
<1> QED
  BY <1>1, <1>2, <1>3, <1>4

\* A run that starts, ends or is being reported loses nothing.
LEMMA CalmRunForgotten ==
  ASSUME pc' \notin {"storage", "download", "cleanup"}
  PROVE  RunLosesNothing'
BY DEF RunLosesNothing

\* Nothing is due to be deleted on a device without rows.
LEMMA InitCalmInv == Init => CalmInv
<1> SUFFICES ASSUME Init, Calm PROVE CalmParts
  BY DEF CalmInv
<1> USE SyncAssumption DEF Init
<1>1. left["damage"] = 0 /\ left["replace"] = 0 /\ left["clear"] = 0
  BY DEF Calm
<1>2. OneContent /\ RowsHaveFiles /\ RunLosesNothing
  BY <1>1 DEF OneContent, RowsHaveFiles, RunLosesNothing
<1>3. ~DroppedRows
  BY DEF DroppedRows, Required
<1>4. OneAtATime /\ \A s \in Slots : PassLosesNothing(s)
  BY <1>1 DEF OneAtATime, PassLosesNothing, BootPass, IdlePass, Slots
<1> QED
  BY <1>2, <1>3, <1>4 DEF CalmParts

\* Asking for a sync, but not during the boot pass, behind a run if there is one.
LEMMA CalmRequest ==
  ASSUME CalmParts, NothingNew, NEW f \in BOOLEAN, RequestSync(f), boot # "pass" \/ maint'["boot"].at = "idle",
         boot' # "pass", UNCHANGED <<asset, manifest, index, file, clearing, clearTodo>>,
         maint'["run"] = maint["run"], maint'["boot"] \in {maint["boot"], IdlePass}
  PROVE  CalmParts'
<1> USE DEF CalmParts
<1>1. UNCHANGED target
  BY DEF RequestSync, runVars
<1>2. OneContent' /\ RowsHaveFiles' /\ ~DroppedRows'
  BY <1>1, CalmFrame
<1>3. RunLosesNothing'
  BY CalmFrame, CalmRunForgotten DEF RequestSync
<1>4. OneAtATime'
  <2>1. maint["run"].at # "idle" => pc' = "maintain"
    BY DEF OneAtATime, RequestSync, runVars
  <2>2. maint'["boot"].at = "idle"
    BY DEF OneAtATime, IdlePass
  <2> QED
    BY <2>1, <2>2 DEF OneAtATime, NothingNew
<1>5. \A s \in Slots : PassLosesNothing(s)'
  BY DEF PassLosesNothing, IdlePass, Rows, Slots
<1> QED
  BY <1>2, <1>3, <1>4, <1>5

\* The end of a run, with or without the pass that ends it.
LEMMA CalmFinish ==
  ASSUME StateTypeOK, CalmParts, NothingNew, NEW again \in BOOLEAN, NEW forced \in BOOLEAN, FinishRun(again, forced),
         pc # "idle", UNCHANGED <<asset, manifest, index, file, clearing, clearTodo>>,
         \/ UNCHANGED maint /\ pc # "maintain"
         \/ maint' = [maint EXCEPT !["run"] = IdlePass]
  PROVE  CalmParts'
<1> USE DEF CalmParts
<1>1. target' = NoManifest /\ pc' \in {"idle", "fetch"} /\ boot # "pass" /\ boot' # "pass"
  BY DEF FinishRun, OneAtATime
<1>2. OneContent' /\ RowsHaveFiles' /\ ~DroppedRows'
  BY <1>1, CalmFrame DEF OneContent, NothingNew
<1>3. RunLosesNothing'
  BY <1>1, CalmRunForgotten
<1>4. maint'["run"].at = "idle" /\ maint'["boot"] = maint["boot"]
  BY DEF OneAtATime, IdlePass, StateTypeOK, Slots
<1>5. OneAtATime'
  BY <1>1, <1>4 DEF OneAtATime, NothingNew
<1>6. \A s \in Slots : PassLosesNothing(s)'
  BY <1>4 DEF PassLosesNothing, Rows, Slots
<1> QED
  BY <1>2, <1>3, <1>5, <1>6

\* Edits, pushes and hellos: a push is sent only to a socket that is up.
LEMMA CalmServer ==
  ASSUME SyncInv, CalmParts, NothingNew, ServerStep
  PROVE  CalmParts'
<1> USE DEF CalmParts
<1>1. ~ReplaceMedia
  BY DEF ReplaceMedia, Spend, OneContent
<1>2. UNCHANGED <<asset, diskVars, runVars, maint, taskVars, ws>>
  <2>1. UNCHANGED <<asset, ws>>
    BY <1>1 DEF ServerStep, EditPlaylists, Publish, PublishLost, AllowedExpires, HandleHello, linkVars,
                serverVars
  <2> QED
    BY <1>1, <2>1 DEF ServerStep, EditPlaylists, Publish, PublishLost, AllowedExpires, HandleHello
<1>3. push' => push \/ ws = "up"
  BY <1>1 DEF ServerStep, EditPlaylists, Publish, PublishLost, AllowedExpires, HandleHello, linkVars
<1>4. OneAtATime'
  BY <1>2, <1>3 DEF OneAtATime, NothingNew, runVars, taskVars
<1> QED
  BY <1>2, <1>4, CalmFrame DEF diskVars, runVars

\* The socket opens only after the boot pass.
LEMMA CalmLink ==
  ASSUME SyncInv, Calm, CalmParts, NothingNew, LinkStep
  PROVE  CalmParts'
<1> USE DEF CalmParts
<1>1. UNCHANGED <<serverVars, diskVars, runVars, maint, taskVars>>
  BY DEF LinkStep, Connect, LinkBreaks, Disconnect
<1>2. push' = FALSE
  BY DEF LinkStep, Connect, LinkBreaks, Disconnect
<1>3. boot = "pass" => ws' = "down"
  BY DEF LinkStep, Connect, LinkBreaks, Disconnect, Realtime, OneAtATime
<1>4. OneAtATime'
  BY <1>1, <1>2, <1>3 DEF OneAtATime, NothingNew, runVars, taskVars
<1> QED
  BY <1>1, <1>4, CalmFrame DEF serverVars, diskVars, runVars

\* Nothing asks for a sync during the boot pass.
LEMMA CalmTrigger ==
  ASSUME SyncInv, CalmParts, NothingNew, TriggerStep
  PROVE  CalmParts'
<1>1. /\ RequestSync(FALSE)
      /\ UNCHANGED <<serverVars, diskVars, maint, taskVars>>
      /\ push \/ PollEnabled \/ CommandsArrive
  BY DEF TriggerStep, ReceivePush, Poll, RefreshCommand
<1>2. boot # "pass"
  BY <1>1 DEF CalmParts, OneAtATime, PollEnabled, CommandsArrive
<1> QED
  BY <1>1, <1>2, CalmRequest DEF serverVars, diskVars, taskVars

\* Nobody clears the cache.
LEMMA CalmClear ==
  ASSUME CalmParts, ClearStep
  PROVE  FALSE
BY DEF CalmParts, OneAtATime, ClearStep, ClearCache, ClearFile, ClearedSync, Spend

\* A restart forgets the run; what it has downloaded is a copy like any other.
LEMMA CalmOther ==
  ASSUME SyncInv, CalmParts, NothingNew, OtherStep
  PROVE  CalmParts'
<1> USE DEF CalmParts
<1>1. CASE Restart
  <2>1. /\ UNCHANGED <<serverVars, manifest, index, file>> /\ pc' = "idle" /\ target' = NoManifest
        /\ boot' = "pass" /\ ws' = "down" /\ push' = FALSE /\ clearing' = FALSE /\ clearTodo' = {}
        /\ maint' = BootPass
    BY <1>1 DEF Restart
  <2>2. OneContent' /\ RowsHaveFiles' /\ ~DroppedRows'
    BY <2>1, CalmFrame DEF OneContent, NothingNew, serverVars
  <2>3. RunLosesNothing'
    BY <2>1, CalmRunForgotten
  <2>4. OneAtATime' /\ \A s \in Slots : PassLosesNothing(s)'
    BY <2>1 DEF OneAtATime, PassLosesNothing, BootPass, IdlePass, Slots, NothingNew
  <2> QED
    BY <2>2, <2>3, <2>4
<1>2. CASE ~Restart
  <2>1. \A m \in Media : ~DamageFile(m)
    BY DEF DamageFile, Spend, OneContent
  <2>2. UNCHANGED <<serverVars, linkVars, manifest, index, file, runVars, maint, boot, clearing, clearTodo>>
    BY <1>2, <2>1 DEF OtherStep, RecomputeTick, DiskFills, DiskFrees, CooldownEnds, HourPasses, PlayerError,
                      diskVars, taskVars
  <2>3. OneAtATime'
    BY <2>2 DEF OneAtATime, NothingNew, runVars, linkVars
  <2> QED
    BY <2>2, <2>3, CalmFrame DEF serverVars, runVars
<1> QED
  BY <1>1, <1>2

\* A commit leaves a row and a file for each media of its manifest.
LEMMA CalmCommit ==
  ASSUME SyncInv, CalmParts, Commit
  PROVE  RowsHaveFiles' /\ ~DroppedRows' /\ RunLosesNothing'
<1> USE DEF SyncInv, DiffHolds, RunHoldsDiff, CalmParts
<1>1. target # NoManifest /\ \A m \in Media : index'[m] = AppliedIndex[m]
  BY DEF Commit
<1>2. RowsHaveFiles'
  BY <1>1 DEF Commit, AppliedIndex, RowsHaveFiles, RunLosesNothing
<1>3. ~DroppedRows'
  BY <1>1 DEF Commit, AppliedIndex, RunLosesNothing, DroppedRows, Required, Rows
<1>4. RunLosesNothing'
  <2>1. pc' = "cleanup" /\ stale' \subseteq toDelete /\ toDelete \subseteq Media
    BY DEF Commit, StaleFiles, StateTypeOK, RunTypeOK
  <2> QED
    BY <1>1, <2>1 DEF AppliedIndex, RunLosesNothing
<1> QED
  BY <1>2, <1>3, <1>4

\* Every step of a run.
LEMMA CalmRun ==
  ASSUME SyncInv, CalmParts, NothingNew, RunStep
  PROVE  CalmParts'
<1> USE DEF CalmParts
<1>1. CASE FetchManifest
  <2>1. OneContent'
    BY <1>1 DEF FetchManifest, OneContent, NothingNew, ServerManifest, serverVars, diskVars
  <2>2. RunLosesNothing'
    BY <1>1, CalmRunForgotten DEF FetchManifest
  <2>3. OneAtATime'
    BY <1>1 DEF FetchManifest, OneAtATime, NothingNew, linkVars, taskVars
  <2> QED
    BY <1>1, <2>1, <2>2, <2>3, CalmFrame DEF FetchManifest, diskVars
<1>2. CASE FetchFails \/ SkipUnchanged \/ EndRefused
  <2>1. /\ FinishRun(queued, queuedForce)
        /\ UNCHANGED <<serverVars, diskVars, maint, clearing, clearTodo>>
        /\ pc \in {"fetch", "diff", "refused"}
    BY <1>2 DEF FetchFails, SkipUnchanged, EndRefused
  <2> QED
    BY <2>1, CalmFinish DEF SyncInv, StateTypeOK, serverVars, diskVars
<1>3. CASE DiffManifest
  <2>1. RunLosesNothing'
    BY <1>3 DEF DiffManifest, RunLosesNothing, ToDownload, diskVars
  <2>2. OneAtATime'
    BY <1>3 DEF DiffManifest, OneAtATime, NothingNew, linkVars, taskVars
  <2> QED
    BY <1>3, <2>1, <2>2, CalmFrame DEF DiffManifest, diskVars, serverVars
<1>4. CASE CheckStorage \/ DownloadFails \/ \E m \in Media : DownloadRefused(m)
  <2>1. /\ UNCHANGED <<asset, linkVars, diskVars, target, toGet, got, stale, maint, taskVars>>
        /\ pc \in {"storage", "download"}
        /\ pc' \in {"download", "refused"}
        /\ pc = "download" => pc' = "refused"
    BY <1>4 DEF CheckStorage, DownloadFails, DownloadRefused, serverVars
  <2>2. RunLosesNothing'
    BY <2>1 DEF RunLosesNothing, diskVars
  <2>3. OneAtATime'
    BY <2>1 DEF OneAtATime, NothingNew, linkVars, taskVars
  <2> QED
    BY <2>1, <2>2, <2>3, CalmFrame DEF diskVars
<1>5. ASSUME NEW m \in Media, Download(m) PROVE CalmParts'
  <2>1. target # NoManifest /\ target[m] # Absent /\ target[m] = asset[m] /\ file' = [file EXCEPT ![m] = target[m]]
    BY <1>5 DEF Download, ServesTarget, SyncInv, DiffHolds, RunHoldsDiff
  <2>2. file \in [Media -> Contents \cup {Absent, Short, Rotten}]
    BY DEF SyncInv, StateTypeOK, DiskTypeOK
  <2>3. UNCHANGED <<asset, index, manifest, target, pc, linkVars, maint, taskVars, stale>>
    BY <1>5 DEF Download
  <2>4. OneContent'
    BY <2>1, <2>2, <2>3 DEF OneContent, NothingNew
  <2>5. index[m] # Absent => index[m] = asset[m]
    BY SyncAssumption DEF RowsHaveFiles, OneContent
  <2>6. RowsHaveFiles'
    BY <2>1, <2>2, <2>3, <2>5 DEF RowsHaveFiles
  <2>7. RunLosesNothing'
    <3>1. pc = "download" /\ pc' = "download" /\ toGet' = toGet \ {m} /\ got' = got \cup {m}
      BY <1>5 DEF Download
    <3>2. \A n \in Media : target'[n] # Absent => n \in toGet' \cup got' \/ index'[n] = target'[n]
      BY <2>3, <3>1 DEF RunLosesNothing
    <3>3. \A n \in got' : file'[n] = target'[n]
      BY <2>1, <2>2, <2>3, <3>1 DEF RunLosesNothing, SyncInv, StateTypeOK, RunTypeOK
    <3> QED
      BY <3>1, <3>2, <3>3 DEF RunLosesNothing
  <2>8. ~DroppedRows'
    BY <2>3 DEF DroppedRows, Required, Rows
  <2>9. OneAtATime'
    BY <2>3 DEF OneAtATime, NothingNew, linkVars, taskVars
  <2> QED
    BY <2>3, <2>4, <2>6, <2>7, <2>8, <2>9, CalmFrame
<1>6. ASSUME NEW m \in Media, RemoveStale(m) PROVE CalmParts'
  <2>1. /\ index[m] = Absent /\ file' = [file EXCEPT ![m] = Absent]
        /\ UNCHANGED <<asset, index, manifest, target, pc, linkVars, maint, taskVars>>
        /\ pc = "cleanup" /\ stale' \subseteq stale
    BY <1>6 DEF RemoveStale, RemoveFile, RunLosesNothing, serverVars
  <2>2. file \in [Media -> Contents \cup {Absent, Short, Rotten}]
    BY DEF SyncInv, StateTypeOK, DiskTypeOK
  <2>3. OneContent'
    BY <2>1, <2>2 DEF OneContent, NothingNew
  <2>4. RowsHaveFiles' /\ ~DroppedRows'
    BY <2>1, <2>2 DEF RowsHaveFiles, DroppedRows, Required, Rows
  <2>5. RunLosesNothing'
    BY <2>1 DEF RunLosesNothing
  <2>6. OneAtATime'
    BY <2>1 DEF OneAtATime, NothingNew, linkVars, taskVars
  <2> QED
    BY <2>1, <2>3, <2>4, <2>5, <2>6, CalmFrame
<1>7. CASE Commit
  <2>1. OneAtATime' /\ OneContent'
    BY <1>7 DEF Commit, OneAtATime, OneContent, NothingNew, linkVars, serverVars, taskVars
  <2>2. \A s \in Slots : maint[s].at = "idle"
    BY <1>7 DEF Commit, OneAtATime, Slots
  <2>3. \A s \in Slots : PassLosesNothing(s)'
    BY <1>7, <2>2 DEF Commit, PassLosesNothing
  <2> QED
    BY <1>7, <2>1, <2>3, CalmCommit
<1>8. CASE AnnounceApplied
  <2>1. /\ UNCHANGED <<asset, linkVars, diskVars, target, taskVars>> /\ pc = "cleanup" /\ pc' = "maintain"
        /\ maint' = [maint EXCEPT !["run"].at = "begin"]
    BY <1>8 DEF AnnounceApplied, serverVars
  <2>2. maint'["boot"] = maint["boot"] /\ maint'["run"].at = "begin"
    BY <2>1 DEF SyncInv, StateTypeOK, Slots, Passes
  <2>3. \A s \in Slots : PassLosesNothing(s)'
    BY <2>1, <2>2 DEF PassLosesNothing, Slots, Rows, diskVars
  <2>4. OneAtATime'
    BY <2>1, <2>2 DEF OneAtATime, NothingNew, linkVars, taskVars
  <2> QED
    BY <2>1, <2>3, <2>4, CalmFrame, CalmRunForgotten DEF diskVars
<1> QED
  BY <1>1, <1>2, <1>3, <1>4, <1>5, <1>6, <1>7, <1>8 DEF RunStep

\* A row whose file is a copy of it passes verification.
LEMMA CalmVerifies ==
  ASSUME SyncInv, CalmParts, NEW s \in Slots, NEW m \in Media,
         maint[s].at = "verify", m \in maint[s].todo
  PROVE  ~Damaged(s, m)
<1>1. maint[s].entries[m] = index[m] /\ index[m] # Absent /\ file[m] = index[m]
  BY DEF CalmParts, PassLosesNothing, RowsHaveFiles, Rows
<1>2. index[m] \in Contents
  BY <1>1 DEF SyncInv, StateTypeOK, DiskTypeOK, Manifest
<1> QED
  BY <1>1, <1>2 DEF Damaged, SizeMatches

\* What an integrity pass leaves alone, or takes away, beside its own state.
LEMMA CalmPassFrame ==
  ASSUME SyncInv, CalmParts, NothingNew, NEW s \in Slots,
         UNCHANGED <<serverVars, linkVars, manifest, index, runVars, boot, clearing, clearTodo>>,
         NEW p \in Passes, maint' = [maint EXCEPT ![s] = p], maint[s].at # "idle",
         \/ UNCHANGED file
         \/ \E m \in Media : index[m] = Absent /\ file' = [file EXCEPT ![m] = Absent],
         PassLosesNothing(s)'
  PROVE  CalmParts'
<1> USE DEF CalmParts
<1>1. file \in [Media -> Contents \cup {Absent, Short, Rotten}] /\ maint \in [Slots -> Passes]
  BY DEF SyncInv, StateTypeOK, DiskTypeOK
<1>2. OneContent' /\ RowsHaveFiles' /\ ~DroppedRows'
  BY <1>1 DEF OneContent, RowsHaveFiles, DroppedRows, Required, Rows, NothingNew, serverVars, runVars
<1>3. pc \notin {"storage", "download", "cleanup"}
  BY DEF OneAtATime, Slots
<1>4. RunLosesNothing'
  BY <1>3, CalmRunForgotten DEF runVars
<1>5. \A t \in Slots \ {s} : maint'[t] = maint[t]
  BY <1>1
<1>6. OneAtATime'
  BY <1>1, <1>5 DEF OneAtATime, NothingNew, linkVars, runVars, Slots
<1>7. \A t \in Slots \ {s} : PassLosesNothing(t)'
  BY <1>5 DEF PassLosesNothing, Rows
<1> QED
  BY <1>2, <1>4, <1>6, <1>7

\* Every step of an integrity pass.
LEMMA CalmPass ==
  ASSUME SyncInv, CalmParts, NothingNew, NEW s \in Slots, PassStep(s)
  PROVE  CalmParts'
<1> DEFINE Others == UNCHANGED <<serverVars, linkVars, manifest, index, runVars, boot, clearing, clearTodo>>
<1>0. maint \in [Slots -> Passes] /\ maint[s] \in Passes /\ index \in Manifest /\ PassLosesNothing(s)
  BY DEF SyncInv, StateTypeOK, DiskTypeOK, CalmParts
<1>1. CASE BeginPass(s)
  <2>1. PICK picked \in SUBSET Rows(index) : maint' = [maint EXCEPT ![s] = [IdlePass EXCEPT
          !.at = "verify", !.entries = index, !.todo = Rows(index),
          !.due = picked \cup (suspect \cap Rows(index))]]
    BY <1>1 DEF BeginPass
  <2> DEFINE p == [IdlePass EXCEPT !.at = "verify", !.entries = index, !.todo = Rows(index),
          !.due = picked \cup (suspect \cap Rows(index))]
  <2>2. p \in Passes /\ p.at = "verify" /\ p.entries = index /\ p.todo = Rows(index) /\ p.invalid = {}
    BY <1>0 DEF IdlePass, Passes, Rows, Manifest
  <2>3. maint'[s] = p /\ Others /\ UNCHANGED file /\ maint[s].at # "idle"
    BY <1>0, <1>1, <2>1 DEF BeginPass, diskVars
  <2>4. PassLosesNothing(s)'
    BY <2>2, <2>3 DEF PassLosesNothing
  <2> HIDE DEF p
  <2> QED
    BY <2>1, <2>2, <2>3, <2>4, CalmPassFrame DEF p
<1>2. ASSUME NEW m \in Media, VerifyFile(s, m) PROVE CalmParts'
  <2> DEFINE p == [maint[s] EXCEPT !.todo = @ \ {m}]
  <2>1. maint' = [maint EXCEPT ![s] = p] /\ maint'[s] = p
    <3>1. ~Damaged(s, m)
      BY <1>2, CalmVerifies DEF VerifyFile
    <3>2. maint' = [maint EXCEPT ![s].todo = @ \ {m}, ![s].invalid = maint[s].invalid]
      BY <1>2, <3>1 DEF VerifyFile
    <3> QED
      BY <1>0, <3>2 DEF Passes
  <2>2. p \in Passes /\ p.at = "verify" /\ p.entries = maint[s].entries /\ p.todo = maint[s].todo \ {m}
        /\ p.invalid = maint[s].invalid
    BY <1>0, <1>2 DEF VerifyFile, Passes
  <2>3. Others /\ UNCHANGED file /\ maint[s].at = "verify"
    BY <1>2 DEF VerifyFile, diskVars, taskVars
  <2>4. PassLosesNothing(s)'
    BY <1>0, <2>1, <2>2, <2>3 DEF PassLosesNothing, Rows
  <2> HIDE DEF p
  <2> QED
    BY <2>1, <2>2, <2>3, <2>4, CalmPassFrame
<1>3. CASE EndVerify(s)
  <2> DEFINE p == [IdlePass EXCEPT !.at = "remove", !.todo = maint[s].invalid, !.invalid = maint[s].invalid]
  <2>1. maint[s].at = "verify" /\ maint[s].invalid = {} /\ maint' = [maint EXCEPT ![s] = p] /\ maint'[s] = p
    BY <1>0, <1>3 DEF EndVerify, PassLosesNothing
  <2>2. p \in Passes /\ p.at = "remove" /\ p.todo = {} /\ p.invalid = {} /\ p.doomed = {}
    BY <2>1 DEF IdlePass, Passes, Manifest
  <2>3. Others /\ UNCHANGED file
    BY <1>3 DEF EndVerify, diskVars, taskVars
  <2>4. PassLosesNothing(s)'
    BY <2>1, <2>2 DEF PassLosesNothing
  <2> HIDE DEF p
  <2> QED
    BY <2>1, <2>2, <2>3, <2>4, CalmPassFrame
<1>4. \A m \in Media : ~RemoveInvalid(s, m)
  BY <1>0 DEF RemoveInvalid, PassLosesNothing
<1>5. CASE DropRows(s)
  <2> DEFINE p == [maint[s] EXCEPT !.at = "sweep", !.todo = {m \in Media : file[m] # Absent /\ index'[m] = Absent}]
  <2>1. maint[s].at = "remove" /\ maint[s].invalid = {}
    BY <1>0, <1>5 DEF DropRows, PassLosesNothing
  <2>2. index' = index
    BY <1>0, <1>5, <2>1 DEF DropRows, IndexWithout, Manifest
  <2>3. maint' = [maint EXCEPT ![s] = p] /\ maint'[s] = p
    BY <1>0, <1>5 DEF DropRows, Passes
  <2>4. p \in Passes /\ p.at = "sweep" /\ p.invalid = {} /\ p.doomed = maint[s].doomed
        /\ \A m \in p.todo : index'[m] = Absent
    BY <1>0, <2>1 DEF Passes
  <2>5. Others /\ UNCHANGED file
    BY <1>5, <2>2 DEF DropRows, taskVars
  <2>6. PassLosesNothing(s)'
    BY <1>0, <2>1, <2>3, <2>4 DEF PassLosesNothing
  <2> HIDE DEF p
  <2> QED
    BY <2>1, <2>3, <2>4, <2>5, <2>6, CalmPassFrame
<1>6. ASSUME NEW m \in Media, SweepStat(s, m) PROVE CalmParts'
  <2> DEFINE p == [maint[s] EXCEPT !.todo = @ \ {m}, !.doomed = IF PastGrace(m) THEN {m} ELSE {}]
  <2>1. maint' = [maint EXCEPT ![s] = p] /\ maint'[s] = p /\ maint[s].at = "sweep" /\ m \in maint[s].todo
    BY <1>0, <1>6 DEF SweepStat, Passes
  <2>2. p \in Passes /\ p.at = "sweep" /\ p.invalid = maint[s].invalid
        /\ p.todo \cup p.doomed \subseteq maint[s].todo
    BY <1>0, <2>1 DEF Passes
  <2>3. Others /\ UNCHANGED file
    BY <1>6 DEF SweepStat, diskVars, taskVars
  <2>4. PassLosesNothing(s)'
    BY <1>0, <2>1, <2>2, <2>3 DEF PassLosesNothing
  <2> HIDE DEF p
  <2> QED
    BY <2>1, <2>2, <2>3, <2>4, CalmPassFrame
<1>7. ASSUME NEW m \in Media, SweepRemove(s, m) PROVE CalmParts'
  <2> DEFINE p == [maint[s] EXCEPT !.doomed = {}]
  <2>1. maint' = [maint EXCEPT ![s] = p] /\ maint'[s] = p /\ maint[s].at = "sweep" /\ index[m] = Absent
    BY <1>0, <1>7 DEF SweepRemove, PassLosesNothing, Passes
  <2>2. p \in Passes /\ p.at = "sweep" /\ p.invalid = maint[s].invalid /\ p.todo = maint[s].todo
        /\ p.doomed = {}
    BY <1>0, <2>1 DEF Passes
  <2>3. Others /\ file' = [file EXCEPT ![m] = Absent]
    BY <1>7 DEF SweepRemove, RemoveFile, taskVars
  <2>4. PassLosesNothing(s)'
    BY <1>0, <2>1, <2>2, <2>3 DEF PassLosesNothing
  <2> HIDE DEF p
  <2> QED
    BY <2>1, <2>2, <2>3, <2>4, CalmPassFrame
<1> QED
  BY <1>1, <1>2, <1>3, <1>4, <1>5, <1>6, <1>7 DEF PassStep

\* The end of a pass: it found nothing, and ends a run or starts one.
LEMMA CalmEndPass ==
  ASSUME SyncInv, CalmParts, NothingNew, EndPassStep
  PROVE  CalmParts'
<1>1. UNCHANGED <<serverVars, diskVars, clearing, clearTodo>>
  BY DEF EndPassStep, EndRunPass, RepairAfterRun, EndBootPass, RepairAtBoot
<1>2. CASE EndRunPass \/ RepairAfterRun
  <2>1. /\ FinishRun(queued, queuedForce) \/ FinishRun(TRUE, TRUE)
        /\ maint' = [maint EXCEPT !["run"] = IdlePass] /\ maint["run"].at = "sweep"
    BY <1>2 DEF EndRunPass, RepairAfterRun, MergedForce, PassSwept
  <2>2. pc = "maintain"
    BY <2>1 DEF CalmParts, OneAtATime
  <2> QED
    BY <1>1, <2>1, <2>2, CalmFinish DEF SyncInv, StateTypeOK, serverVars, diskVars
<1>3. CASE EndBootPass \/ RepairAtBoot
  <2>1. /\ RequestSync(FALSE) \/ RequestSync(TRUE)
        /\ maint' = [maint EXCEPT !["boot"] = IdlePass]
        /\ boot' # "pass"
    BY <1>3 DEF EndBootPass, RepairAtBoot
  <2>2. maint'["run"] = maint["run"] /\ maint'["boot"] = IdlePass /\ IdlePass.at = "idle"
    BY <2>1 DEF SyncInv, StateTypeOK, Slots, IdlePass
  <2> QED
    BY <1>1, <2>1, <2>2, CalmRequest DEF serverVars, diskVars
<1> QED
  BY <1>2, <1>3 DEF EndPassStep

\* CalmInv is inductive beside SyncInv.
LEMMA CalmStep == SyncInv /\ CalmInv /\ [Next]_vars => CalmInv'
<1> SUFFICES ASSUME SyncInv, CalmInv, [Next]_vars, Calm' PROVE CalmParts'
  BY DEF CalmInv
<1>1. \A k \in Events : left[k] \in Nat /\ left'[k] \in Nat /\ left'[k] <= left[k]
  BY StepSpends, BudgetsShrink DEF SyncInv
<1>2. NothingNew
  BY <1>1 DEF NothingNew, Events
<1>3. Calm
  BY <1>1 DEF Calm, Events
<1>4. CalmParts
  BY <1>3 DEF CalmInv
<1>5. CASE ServerStep
  BY <1>2, <1>4, <1>5, CalmServer
<1>6. CASE LinkStep
  BY <1>2, <1>3, <1>4, <1>6, CalmLink
<1>7. CASE TriggerStep
  BY <1>2, <1>4, <1>7, CalmTrigger
<1>8. CASE RunStep
  BY <1>2, <1>4, <1>8, CalmRun
<1>9. CASE ClearStep
  BY <1>4, <1>9, CalmClear
<1>10. CASE OtherStep
  BY <1>2, <1>4, <1>10, CalmOther
<1>11. CASE \E s \in Slots : PassStep(s)
  BY <1>2, <1>4, <1>11, CalmPass
<1>12. CASE EndPassStep
  BY <1>2, <1>4, <1>12, CalmEndPass
<1>13. CASE UNCHANGED vars
  <2>1. OneAtATime'
    BY <1>2, <1>4, <1>13 DEF CalmParts, OneAtATime, NothingNew, vars, linkVars, runVars, taskVars
  <2> QED
    BY <1>2, <1>4, <1>13, <2>1, CalmFrame DEF CalmParts, vars, serverVars, diskVars, runVars
<1> QED
  BY <1>5, <1>6, <1>7, <1>8, <1>9, <1>10, <1>11, <1>12, <1>13 DEF Next

-------------------------------------------------------------------------------
(* Results.                                                                *)

\* Doing nothing keeps everything.
LEMMA StutterKeeps ==
  ASSUME SyncInv, UNCHANGED vars
  PROVE  SyncInv'
BY DiffFrameGroups, TypeFrame DEF SyncInv, StateTypeOK, vars, diskVars

\* SyncInv holds in every reachable state, so a run always works from a diff
\* that still describes the index it is going to replace.
THEOREM SyncInvariant == Spec => []SyncInv
<1>1. SyncInv /\ [Next]_vars => SyncInv'
  <2> SUFFICES ASSUME SyncInv, [Next]_vars PROVE SyncInv'
    OBVIOUS
  <2>1. CASE ServerStep
    BY <2>1, ServerKeeps
  <2>2. CASE LinkStep
    BY <2>2, LinkKeeps
  <2>3. CASE TriggerStep
    BY <2>3, TriggerKeeps
  <2>4. CASE RunStep
    BY <2>4, RunKeeps
  <2>5. CASE ClearStep
    BY <2>5, ClearKeeps
  <2>6. CASE OtherStep
    BY <2>6, OtherKeeps
  <2>7. CASE \E s \in Slots : PassStep(s)
    BY <2>7, PassKeeps
  <2>8. CASE EndPassStep
    BY <2>8, EndPassKeeps
  <2>9. CASE UNCHANGED vars
    BY <2>9, StutterKeeps
  <2> QED
    BY <2>1, <2>2, <2>3, <2>4, <2>5, <2>6, <2>7, <2>8, <2>9 DEF Next
<1> QED
  BY InitSyncInv, <1>1, PTL DEF Spec

\* The history is Boolean whatever a step does to it.
LEMMA HistoryStep ==
  ASSUME behind \in BOOLEAN, unrepaired \in BOOLEAN, [Next]_vars
  PROVE  behind' \in BOOLEAN /\ unrepaired' \in BOOLEAN
<1> USE DEF history
<1>1. CASE ServerStep
  BY <1>1 DEF ServerStep, EditPlaylists, ReplaceMedia, Publish, PublishLost, AllowedExpires, HandleHello
<1>2. CASE LinkStep
  BY <1>2 DEF LinkStep, Connect, LinkBreaks, Disconnect
<1>3. CASE TriggerStep
  BY <1>3 DEF TriggerStep, ReceivePush, Poll, RefreshCommand
<1>4. CASE RunStep
  BY <1>4 DEF RunStep, FetchManifest, FetchFails, SkipUnchanged, DiffManifest, CheckStorage, Download,
              DownloadRefused, RemoveStale, DownloadFails, Commit, AnnounceApplied, EndRefused,
              LeavesRows, DroppedRows
<1>5. CASE ClearStep \/ EndPassStep
  BY <1>5 DEF ClearStep, ClearCache, ClearedSync, ClearFile, EndPassStep, EndRunPass, RepairAfterRun,
              EndBootPass, RepairAtBoot, LeavesRows, DroppedRows
<1>6. CASE OtherStep
  BY <1>6 DEF OtherStep, RecomputeTick, DiskFills, DiskFrees, CooldownEnds, HourPasses, Restart,
              PlayerError, DamageFile, LeavesRows, DroppedRows
<1>7. CASE \E s \in Slots : PassStep(s)
  BY <1>7 DEF PassStep, BeginPass, EndVerify, DropRows, VerifyFile, RemoveInvalid, SweepStat, SweepRemove
<1>8. CASE UNCHANGED vars
  BY <1>8 DEF vars
<1> QED
  BY <1>1, <1>2, <1>3, <1>4, <1>5, <1>6, <1>7, <1>8 DEF Next

\* Every variable of the agent, the server and the link keeps its type, and so does the history.
THEOREM TypeCorrect == Spec => []TypeOK
<1> DEFINE HistoryOK == behind \in BOOLEAN /\ unrepaired \in BOOLEAN
<1>1. Init => HistoryOK
  BY DEF Init
<1>2. HistoryOK /\ [Next]_vars => HistoryOK'
  BY HistoryStep
<1>3. SyncInv /\ HistoryOK => TypeOK
  BY DEF SyncInv, TypeOK
<1> QED
  BY SyncInvariant, <1>1, <1>2, <1>3, PTL DEF Spec

\* The cache index never disagrees with the applied manifest (applyManifest,
\* removeCacheEntries and clearCache interleaved in any way, with any crashes).
THEOREM IndexMatchesManifest == Spec => []RowsMatchManifest
<1>1. SyncInv => RowsMatchManifest
  BY DEF SyncInv, DiffHolds
<1> QED
  BY SyncInvariant, <1>1, PTL

\* evictIfOverBudget never has a candidate: the index holds no unreferenced row,
\* so the cache budget is enforced by planStorage alone.
THEOREM EvictionFindsNothing == Spec => [](EvictionCandidates = {})
<1>1. SyncInv => EvictionCandidates = {}
  BY DEF SyncInv, DiffHolds, RowsMatchManifest, EvictionCandidates, Rows
<1> QED
  BY SyncInvariant, <1>1, PTL

\* Offline playback: while nobody else touches the files, whatever edits, failed
\* downloads, lost pushes and power cuts interleave with a sync, each media of the
\* applied manifest has its row and the right bytes on disk (sync.ts: download,
\* applyManifest, then the deletions).
THEOREM OfflinePlayback == Spec => []ManifestPlayable
<1>1. CalmInv => ManifestPlayable
  <2> SUFFICES ASSUME CalmInv, Calm, NEW m \in Required PROVE Intact(m)
    BY DEF ManifestPlayable, ContentPlayable
  <2>1. m \in Media /\ index[m] # Absent
    BY DEF CalmInv, CalmParts, DroppedRows, Required, Rows
  <2> QED
    BY <2>1 DEF CalmInv, CalmParts, RowsHaveFiles, Intact
<1> QED
  BY SyncInvariant, InitCalmInv, CalmStep, <1>1, PTL DEF Spec

===============================================================================
