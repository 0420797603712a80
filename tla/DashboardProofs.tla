--------------------------- MODULE DashboardProofs ---------------------------
(***************************************************************************)
(* Proofs about what the dashboard asks for: the commands it sends to a    *)
(* device (CommandQueue) and the edits of what is shown (Library), for any *)
(* numbers of commands, requests, rows and devices.                        *)
(*                                                                         *)
(* CommandQueue: CommandInv is inductive, CommandTypeOK first, then the    *)
(* two parts about truth, which only the few actions that report or record *)
(* a result can disturb.                                                   *)
(*                                                                         *)
(* Library: nothing refers to an id not in use (RowsStaySound), which is   *)
(* why a row made by one request is in no manifest before another says so. *)
(* A commit is then loud, so that everybody is told, or selective, and     *)
(* whom it leaves out sees nothing of it (Unseen): its build will end with *)
(* the manifest the database describes (UpcomingAreCurrent).               *)
(***************************************************************************)
EXTENDS CommandQueue, Library, TLAPS

-------------------------------------------------------------------------------
(* The updates of the command rows.                                        *)

\* Started gives every execution a stage.
LEMMA StartedType ==
  ASSUME CommandTypeOK, NEW cs, NEW stage \in Stages
  PROVE  Started(cs, stage) \in [Runs -> Stages]
BY DEF Started, CommandTypeOK

\* An ack moves one row, and never one that has a result.
LEMMA AckedKeeps ==
  ASSUME CommandTypeOK, NEW c \in Commands
  PROVE  /\ Acked(c) \in [Commands -> Statuses]
         /\ \A d \in Commands : status[d] \in Outcomes => Acked(c)[d] = status[d]
         /\ \A d \in Commands : Acked(c)[d] \in Outcomes => Acked(c)[d] = status[d]
BY DEF Acked, CommandTypeOK, Statuses, Outcomes

\* A result moves one row that has none, to that result.
LEMMA ResolvedKeeps ==
  ASSUME CommandTypeOK, NEW c \in Commands, NEW o \in Outcomes
  PROVE  /\ Resolved(c, o) \in [Commands -> Statuses]
         /\ \A d \in Commands : status[d] \in Outcomes => Resolved(c, o)[d] = status[d]
         /\ \A d \in Commands : Resolved(c, o)[d] = status[d] \/ (d = c /\ Resolved(c, o)[d] = o)
BY DEF Resolved, CommandTypeOK, Statuses, Outcomes

\* A fetch moves pending rows only.
LEMMA MarkedKeeps ==
  ASSUME CommandTypeOK
  PROVE  /\ MarkedSent \in [Commands -> Statuses]
         /\ \A d \in Commands : status[d] \in Outcomes => MarkedSent[d] = status[d]
         /\ \A d \in Commands : MarkedSent[d] \in Outcomes => MarkedSent[d] = status[d]
BY DEF MarkedSent, CommandTypeOK, Statuses, Outcomes

\* An event of the environment leaves a budget.
LEMMA SpendType ==
  ASSUME CommandTypeOK, NEW kind \in Events, Spend(kind)
  PROVE  left' \in [Events -> Nat]
BY DEF CommandTypeOK, Spend

\* What stays true of the rows and of the reports when no result is recorded
\* and none is produced.
LEMMA TruthFrame ==
  ASSUME CommandInv, ran' = ran, results' \subseteq results,
         \A c \in Commands : status'[c] \in Outcomes => status'[c] = status[c],
         \A r \in Runs : exec'[r] \in Outcomes => exec'[r] = exec[r]
  PROVE  ResultIsTrue' /\ ResultsTrue'
BY DEF CommandInv, ResultIsTrue, ResultsTrue

-------------------------------------------------------------------------------
(* CommandInv.                                                             *)

\* No command, no execution, no result.
LEMMA InitCommandInv == CommandInit => CommandInv
BY CommandAssumption
DEF CommandInit, CommandInv, CommandTypeOK, ResultIsTrue, ResultsTrue, Stages, Statuses, Outcomes

\* Every step of the API keeps CommandInv.
LEMMA ServerKeeps ==
  ASSUME CommandInv, ServerStep
  PROVE  CommandInv'
<1> USE DEF CommandInv
<1>1. ASSUME NEW c \in Commands, IssueCommand(c) PROVE CommandInv'
  <2>1. CommandTypeOK'
    BY <1>1, SpendType DEF IssueCommand, CommandTypeOK, Events, Statuses, linkVars, runVars
  <2>2. ResultIsTrue' /\ ResultsTrue'
    BY <1>1, TruthFrame DEF IssueCommand, CommandTypeOK, Outcomes, linkVars, runVars
  <2> QED
    BY <2>1, <2>2
<1>2. ASSUME NEW c \in Commands, PushCommand(c) PROVE CommandInv'
  <2>1. exec' = exec \/ exec' = Started({c}, "wire")
    BY <1>2 DEF PushCommand
  <2>2. exec' \in [Runs -> Stages]
    BY <2>1, StartedType DEF CommandTypeOK, Stages
  <2>3. left' \in [Events -> Nat]
    BY <1>2, SpendType DEF PushCommand, Events, CommandTypeOK
  <2>4. CommandTypeOK'
    BY <1>2, <2>2, <2>3 DEF PushCommand, CommandTypeOK, linkVars
  <2>5. \A r \in Runs : exec'[r] \in Outcomes => exec'[r] = exec[r]
    BY <2>1 DEF Started, Outcomes
  <2>6. ResultIsTrue' /\ ResultsTrue'
    BY <1>2, <2>5, TruthFrame DEF PushCommand, linkVars
  <2> QED
    BY <2>4, <2>6
<1>3. ASSUME NEW c \in Commands, MarkSent(c) PROVE CommandInv'
  <2>1. CommandTypeOK'
    BY <1>3 DEF MarkSent, CommandTypeOK, Statuses, linkVars, runVars
  <2>2. ResultIsTrue' /\ ResultsTrue'
    BY <1>3, TruthFrame DEF MarkSent, CommandTypeOK, Outcomes, linkVars, runVars
  <2> QED
    BY <2>1, <2>2
<1>4. ASSUME NEW c \in Commands, ExpireCommand(c) PROVE CommandInv'
  <2>1. left' \in [Events -> Nat]
    BY <1>4, SpendType DEF ExpireCommand, Events
  <2>2. CommandTypeOK'
    BY <1>4, <2>1 DEF ExpireCommand, CommandTypeOK, linkVars, runVars
  <2>3. ResultIsTrue' /\ ResultsTrue'
    BY <1>4, TruthFrame DEF ExpireCommand, linkVars, runVars
  <2> QED
    BY <2>2, <2>3
<1>5. ASSUME NEW c \in Commands, HandleAck(c) PROVE CommandInv'
  <2>1. CommandTypeOK'
    BY <1>5, AckedKeeps DEF HandleAck, CommandTypeOK, runVars
  <2>2. ResultIsTrue' /\ ResultsTrue'
    BY <1>5, AckedKeeps, TruthFrame DEF HandleAck, runVars
  <2> QED
    BY <2>1, <2>2
<1>6. ASSUME NEW c \in Commands, NEW o \in Outcomes, HandleResult(c, o) PROVE CommandInv'
  <2>1. CommandTypeOK'
    BY <1>6, ResolvedKeeps DEF HandleResult, CommandTypeOK, runVars
  <2>2. <<c, o>> \in ran
    BY <1>6 DEF HandleResult, ResultsTrue
  <2>3. ResultIsTrue'
    BY <1>6, <2>2, ResolvedKeeps DEF HandleResult, ResultIsTrue, runVars
  <2>4. ResultsTrue'
    BY <1>6 DEF HandleResult, ResultsTrue, runVars
  <2> QED
    BY <2>1, <2>3, <2>4
<1>7. CASE DeliverPending
  <2>1. exec' \in [Runs -> Stages]
    BY <1>7, StartedType DEF DeliverPending, Stages, CommandTypeOK
  <2>0. left' \in [Events -> Nat]
    BY <1>7, SpendType DEF DeliverPending, CommandTypeOK, Events
  <2>2. CommandTypeOK'
    BY <1>7, <2>0, <2>1, MarkedKeeps DEF DeliverPending, CommandTypeOK
  <2>3. \A r \in Runs : exec'[r] \in Outcomes => exec'[r] = exec[r]
    BY <1>7 DEF DeliverPending, Started, Outcomes
  <2>4. ResultIsTrue' /\ ResultsTrue'
    BY <1>7, <2>3, MarkedKeeps, TruthFrame DEF DeliverPending
  <2> QED
    BY <2>2, <2>4
<1> QED
  BY <1>1, <1>2, <1>3, <1>4, <1>5, <1>6, <1>7 DEF ServerStep

\* Every step of the agent keeps CommandInv: a result is reported only by an
\* execution whose handler has run.
LEMMA AgentKeeps ==
  ASSUME CommandInv, AgentStep
  PROVE  CommandInv'
<1> USE DEF CommandInv
<1>1. ASSUME NEW p \in Polls, Poll(p) PROVE CommandInv'
  <2>1. exec' = exec \/ exec' = Started(Fetched, "queued")
    BY <1>1 DEF Poll
  <2>2. exec' \in [Runs -> Stages]
    BY <2>1, StartedType DEF CommandTypeOK, Stages
  <2>3. left' \in [Events -> Nat]
    BY <1>1, SpendType DEF Poll, Events, CommandTypeOK
  <2>4. queue' \in [Polls -> SUBSET Runs]
    <3>1. {FreeRun(c) : c \in Fetched} \in SUBSET Runs
      BY DEF Fetched, HasRoom, FreeRun, Runs
    <3> QED
      BY <1>1, <3>1 DEF Poll, CommandTypeOK
  <2>5. CommandTypeOK'
    BY <1>1, <2>2, <2>3, <2>4, MarkedKeeps DEF Poll, CommandTypeOK, linkVars
  <2>6. \A r \in Runs : exec'[r] \in Outcomes => exec'[r] = exec[r]
    BY <2>1 DEF Started, Outcomes
  <2>7. ResultIsTrue' /\ ResultsTrue'
    BY <1>1, <2>6, MarkedKeeps, TruthFrame DEF Poll, linkVars
  <2> QED
    BY <2>5, <2>7
<1>2. ASSUME NEW r \in Runs, StartCommand(r) PROVE CommandInv'
  <2>1. r[1] \in Commands
    BY DEF Runs
  <2>2. status' = status \/ status' = Acked(r[1])
    BY <1>2 DEF StartCommand
  <2>3. left' \in [Events -> Nat]
    BY <1>2, SpendType DEF StartCommand, Events, CommandTypeOK
  <2>4. acks' \in SUBSET Commands
    BY <1>2, <2>1 DEF StartCommand, CommandTypeOK
  <2>5. CommandTypeOK'
    BY <1>2, <2>1, <2>2, <2>3, <2>4, AckedKeeps DEF StartCommand, CommandTypeOK, Stages
  <2>6. \A c \in Commands : status'[c] \in Outcomes => status'[c] = status[c]
    BY <2>1, <2>2, AckedKeeps
  <2>7. \A s \in Runs : exec'[s] \in Outcomes => exec'[s] = exec[s]
    BY <1>2 DEF StartCommand, Outcomes, CommandTypeOK
  <2>8. ResultIsTrue' /\ ResultsTrue'
    BY <1>2, <2>6, <2>7, TruthFrame DEF StartCommand
  <2> QED
    BY <2>5, <2>8
<1>3. ASSUME NEW r \in Runs, FinishHandler(r) PROVE CommandInv'
  <2>1. PICK o \in Outcomes : exec' = [exec EXCEPT ![r] = o] /\ ran' = ran \cup {<<r[1], o>>}
    BY <1>3 DEF FinishHandler
  <2>2. CommandTypeOK'
    BY <1>3, <2>1 DEF FinishHandler, CommandTypeOK, Stages, Runs, rowVars, linkVars
  <2>3. ResultIsTrue'
    BY <1>3, <2>1 DEF FinishHandler, ResultIsTrue, rowVars
  <2>4. ResultsTrue'
    BY <1>3, <2>1 DEF FinishHandler, ResultsTrue, CommandTypeOK, linkVars
  <2> QED
    BY <2>2, <2>3, <2>4
<1>4. ASSUME NEW r \in Runs, ReportResult(r) PROVE CommandInv'
  <2>1. r[1] \in Commands /\ exec[r] \in Outcomes /\ <<r[1], exec[r]>> \in ran
    BY <1>4 DEF ReportResult, ResultsTrue, Runs
  <2>2. status' = status \/ status' = Resolved(r[1], exec[r])
    BY <1>4 DEF ReportResult, Outcome
  <2>3. results' = results \/ results' = results \cup {<<r[1], exec[r]>>}
    BY <1>4 DEF ReportResult, Outcome
  <2>4. left' \in [Events -> Nat]
    BY <1>4, SpendType DEF ReportResult, Events, CommandTypeOK
  <2>5. exec' \in [Runs -> Stages] /\ queue' \in [Polls -> SUBSET Runs]
    BY <1>4 DEF ReportResult, CommandTypeOK, Stages
  <2>6. status' \in [Commands -> Statuses]
    BY <2>1, <2>2, ResolvedKeeps DEF CommandTypeOK
  <2>7. CommandTypeOK'
    BY <1>4, <2>1, <2>3, <2>4, <2>5, <2>6 DEF ReportResult, CommandTypeOK
  <2>8. ResultIsTrue'
    BY <1>4, <2>1, <2>2, ResolvedKeeps DEF ReportResult, ResultIsTrue
  <2>9. ResultsTrue'
    BY <1>4, <2>1, <2>3 DEF ReportResult, ResultsTrue, CommandTypeOK, Outcomes
  <2> QED
    BY <2>7, <2>8, <2>9
<1> QED
  BY <1>1, <1>2, <1>3, <1>4 DEF AgentStep

\* Sockets and processes that come and go lose reports, and invent none.
LEMMA LinkKeeps ==
  ASSUME CommandInv, LinkStep
  PROVE  CommandInv'
<1> USE DEF CommandInv
<1>1. left' \in [Events -> Nat]
  BY SpendType DEF LinkStep, Connect, LinkBreaks, Disconnect, Restart, Events, CommandTypeOK
<1>2. exec' \in [Runs -> Stages] /\ \A r \in Runs : exec'[r] \in Outcomes => exec'[r] = exec[r]
  BY DEF LinkStep, Connect, LinkBreaks, Disconnect, Restart, DropSocket, CommandTypeOK, Stages, Outcomes, runVars
<1>3. acks' \in SUBSET Commands /\ results' \subseteq results
  BY DEF LinkStep, Connect, LinkBreaks, Disconnect, Restart, DropSocket, CommandTypeOK
<1>4. UNCHANGED rowVars /\ ran' = ran
  BY DEF LinkStep, Connect, LinkBreaks, Disconnect, Restart, runVars
<1>5. ws' \in {"down", "half", "up"} /\ greeted' \in BOOLEAN /\ queue' \in [Polls -> SUBSET Runs]
  BY DEF LinkStep, Connect, LinkBreaks, Disconnect, Restart, CommandTypeOK, runVars
<1>6. CommandTypeOK'
  BY <1>1, <1>2, <1>3, <1>4, <1>5 DEF CommandTypeOK, rowVars
<1>7. ResultIsTrue' /\ ResultsTrue'
  BY <1>2, <1>3, <1>4, TruthFrame DEF rowVars
<1> QED
  BY <1>6, <1>7

-------------------------------------------------------------------------------
(* Results.                                                                *)

\* CommandInv holds in every reachable state.
THEOREM CommandInvariant == CommandSpec => []CommandInv
<1>1. CommandInv /\ [CommandNext]_commandVars => CommandInv'
  <2> SUFFICES ASSUME CommandInv, [CommandNext]_commandVars PROVE CommandInv'
    OBVIOUS
  <2>1. CASE CommandNext
    BY <2>1, ServerKeeps, AgentKeeps, LinkKeeps DEF CommandNext
  <2>2. CASE UNCHANGED commandVars
    <3>1. CommandTypeOK'
      BY <2>2 DEF CommandInv, CommandTypeOK, commandVars, rowVars, linkVars, runVars
    <3> QED
      BY <2>2, <3>1 DEF CommandInv, ResultIsTrue, ResultsTrue, commandVars, rowVars, linkVars, runVars
  <2> QED
    BY <2>1, <2>2
<1> QED
  BY InitCommandInv, <1>1, PTL DEF CommandSpec

\* A row that says completed or failed tells what the device's handler did.
THEOREM ResultsAreTrue == CommandSpec => []ResultIsTrue
<1>1. CommandInv => ResultIsTrue
  BY DEF CommandInv
<1> QED
  BY CommandInvariant, <1>1, PTL

\* Nothing but the unconditional update at the end of the POST handler touches
\* a row that has its result: not a late ack, not a second delivery's result.
THEOREM ResultsStick == CommandSpec => ResultSticks
<1>1. CommandInv /\ [CommandNext]_commandVars =>
        [\A c \in Commands : status[c] \in Outcomes /\ status'[c] # status[c] => MarkSent(c)]_commandVars
  <2> SUFFICES ASSUME CommandInv, CommandNext, NEW c \in Commands,
                      status[c] \in Outcomes, status'[c] # status[c]
               PROVE  MarkSent(c)
    OBVIOUS
  <2> USE DEF CommandInv
  <2>1. ASSUME NEW d \in Commands, IssueCommand(d) PROVE FALSE
    BY <2>1 DEF IssueCommand, CommandTypeOK, Outcomes
  <2>2. ASSUME NEW d \in Commands, MarkSent(d) PROVE MarkSent(c)
    BY <2>2 DEF MarkSent, CommandTypeOK
  <2>3. ASSUME NEW d \in Commands, HandleAck(d) PROVE FALSE
    BY <2>3, AckedKeeps DEF HandleAck
  <2>4. ASSUME NEW d \in Commands, NEW o \in Outcomes, HandleResult(d, o) PROVE FALSE
    BY <2>4, ResolvedKeeps DEF HandleResult
  <2>5. ASSUME NEW d \in Commands, PushCommand(d) \/ ExpireCommand(d) PROVE FALSE
    BY <2>5 DEF PushCommand, ExpireCommand
  <2>6. CASE DeliverPending \/ \E p \in Polls : Poll(p)
    BY <2>6, MarkedKeeps DEF DeliverPending, Poll
  <2>7. ASSUME NEW r \in Runs, StartCommand(r) PROVE FALSE
    BY <2>7, AckedKeeps DEF StartCommand, Runs
  <2>8. ASSUME NEW r \in Runs, FinishHandler(r) PROVE FALSE
    BY <2>8 DEF FinishHandler, rowVars
  <2>9. ASSUME NEW r \in Runs, ReportResult(r) PROVE FALSE
    BY <2>9, ResolvedKeeps DEF ReportResult, Outcome, Runs
  <2>10. CASE LinkStep
    BY <2>10 DEF LinkStep, Connect, LinkBreaks, Disconnect, Restart, rowVars
  <2> QED
    BY <2>1, <2>2, <2>3, <2>4, <2>5, <2>6, <2>7, <2>8, <2>9, <2>10 DEF CommandNext, ServerStep, AgentStep
<1> QED
  BY CommandInvariant, <1>1, PTL DEF CommandSpec, ResultSticks

-------------------------------------------------------------------------------
(* Folders.                                                                *)

\* The descendants of a folder are the least closed set with the folder in it.
LEMMA DescendantsClosed ==
  ASSUME NEW fs, NEW f \in Folders
  PROVE  /\ f \in Descendants(fs, f) /\ Descendants(fs, f) \subseteq Folders
         /\ Closed(fs, Descendants(fs, f))
         /\ \A S \in SUBSET Folders : f \in S /\ Closed(fs, S) => Descendants(fs, f) \subseteq S
BY DEF Descendants, Closed, LiveFolders

LEMMA DescendantsLive ==
  ASSUME NEW fs, NEW f \in LiveFolders(fs)
  PROVE  Descendants(fs, f) \subseteq LiveFolders(fs)
<1>1. Closed(fs, LiveFolders(fs)) /\ LiveFolders(fs) \in SUBSET Folders /\ f \in Folders
  BY DEF Closed, LiveFolders
<1> QED
  BY <1>1, DescendantsClosed

\* Folders that are deleted elsewhere do not change what is below a folder.
LEMMA DescendantsRemain ==
  ASSUME NEW fs, NEW new, NEW F, NEW f \in Folders,
         Descendants(fs, f) \cap F = {},
         LiveFolders(new) = LiveFolders(fs) \ F,
         \A g \in LiveFolders(new) : new[g].parent = fs[g].parent
  PROVE  Descendants(new, f) = Descendants(fs, f)
<1> DEFINE D == Descendants(fs, f)
           E == Descendants(new, f)
<1>1. Closed(new, D)
  BY DescendantsClosed DEF Closed
<1>2. E \subseteq D
  BY <1>1, DescendantsClosed
<1>3. Closed(fs, E)
  <2> SUFFICES ASSUME NEW g \in LiveFolders(fs), fs[g].parent \in E PROVE g \in E
    BY DEF Closed
  <2>1. g \in D
    BY <1>2, DescendantsClosed DEF Closed
  <2>2. g \in LiveFolders(new)
    BY <2>1
  <2> QED
    BY <2>2, DescendantsClosed DEF Closed
<1>4. D \subseteq E
  BY <1>3, DescendantsClosed
<1> QED
  BY <1>2, <1>4

\* Nor does a new folder, which has none below it, but for itself.
LEMMA DescendantsOfNew ==
  ASSUME NEW fs, NEW new, NEW n \in Folders, NEW f \in Folders, f # n,
         n \notin LiveFolders(fs), LiveFolders(new) = LiveFolders(fs) \cup {n},
         \A g \in LiveFolders(fs) : new[g].parent = fs[g].parent /\ fs[g].parent # n
  PROVE  Descendants(new, f) \ {n} = Descendants(fs, f) \ {n}
<1> DEFINE D == Descendants(fs, f)
           E == Descendants(new, f)
<1>1. Closed(new, D \cup {n})
  BY DescendantsClosed DEF Closed
<1>2. E \subseteq D \cup {n}
  <2>1. D \cup {n} \in SUBSET Folders /\ f \in D \cup {n}
    BY DescendantsClosed
  <2> HIDE DEF D
  <2> QED
    BY <1>1, <2>1, DescendantsClosed
<1>3. Closed(fs, E)
  BY DescendantsClosed DEF Closed
<1>4. D \subseteq E
  BY <1>3, DescendantsClosed
<1> QED
  BY <1>2, <1>4

-------------------------------------------------------------------------------
(* Manifests.                                                              *)

\* Whatever the queries of a build have returned, its manifest stands on its own.
LEMMA AssembleClosed ==
  ASSUME NEW row, NEW plan, NEW rows, NEW fs, NEW pool, NEW own, DOMAIN own = Media
  PROVE  LET c == Assemble(row, plan, rows, fs, pool, own)
         IN /\ {c.default, c.emergency.playlist} \subseteq DOMAIN c.lists \cup {None}
            /\ {c.schedules[s] : s \in DOMAIN c.schedules} \subseteq DOMAIN c.lists
            /\ c.media = Played(c.lists) \cup ({c.emergency.media} \ {None})
<1> DEFINE c == Assemble(row, plan, rows, fs, pool, own)
           o == plan.override
           ready == IF o = None THEN {} ELSE {o.media} \cap Playable(own)
<1>1. /\ c.default = Kept(c.lists, row.default)
      /\ c.schedules = [s \in {t \in DOMAIN plan.schedules : plan.schedules[t] \in DOMAIN c.lists} |->
                          plan.schedules[s]]
      /\ c.media = Played(c.lists) \cup ready
      /\ c.emergency.playlist = IF o = None THEN None ELSE Kept(c.lists, o.playlist)
      /\ c.emergency.media = IF o = None THEN None ELSE IF o.media \in c.media THEN o.media ELSE None
  BY DEF Assemble
<1>2. None \notin Playable(own)
  BY LibraryAssumption DEF Playable
<1> HIDE DEF c
<1>3. {c.default, c.emergency.playlist} \subseteq DOMAIN c.lists \cup {None}
  BY <1>1 DEF Kept
<1>4. {c.schedules[s] : s \in DOMAIN c.schedules} \subseteq DOMAIN c.lists
  BY <1>1
<1>5. c.media = Played(c.lists) \cup ({c.emergency.media} \ {None})
  BY <1>1, <1>2
<1> QED
  BY <1>3, <1>4, <1>5 DEF c

-------------------------------------------------------------------------------
(* Rows and requests.                                                      *)

\* What a body has, by the kind of the request.
LEMMA PlaylistBodyShape ==
  ASSUME NEW b \in Bodies
  PROVE  /\ b.op = "createPlaylist" => b.items \in SUBSET Entries
         /\ b.op = "patchPlaylist" => b.playlist \in Playlists /\ b.ruled \in BOOLEAN
         /\ b.op = "putItems" => b.playlist \in Playlists /\ b.items \in SUBSET Entries
         /\ b.op = "deletePlaylist" => b.playlist \in Playlists
         /\ b.op = "clonePlaylist" => b.row \in PlaylistRows /\ b.rules \in [Rules -> RuleRows]
         /\ b.op = "createRule" => b.playlist \in Playlists /\ b.picks \in SUBSET Entries
         /\ b.op = "patchRule" => b.playlist \in Playlists /\ b.rule \in Rules /\ b.enabled \in BOOLEAN
         /\ b.op = "deleteRule" => b.playlist \in Playlists /\ b.rule \in Rules
         /\ b.op = "putAssignments" =>
              b.playlist \in Playlists /\ b.rule \in Rules /\ b.picks \in SUBSET Entries
BY DEF Bodies, PlaylistBodies, MediaBodies, AirtimeBodies

LEMMA MediaBodyShape ==
  ASSUME NEW b \in Bodies
  PROVE  /\ b.op = "createFolder" => b.row \in FolderRows
         /\ b.op = "patchFolder" => b.folder \in Folders /\ b.parent \in Inodes /\ b.name \in Names
         /\ b.op = "deleteFolder" => b.folders \in SUBSET Folders /\ b.target \in Inodes
         /\ b.op = "patchMedium" => /\ b.medium \in Media /\ b.folder \in Inodes \cup {None}
                                    /\ b.name \in Names \cup {None} /\ b.before \in Inodes
         /\ b.op = "moveMedia" => b.media \in SUBSET Media /\ b.folder \in Inodes
         /\ b.op = "deleteMedia" => b.media \in SUBSET Media
         /\ b.op = "reprocess" => b.medium \in Media
BY DEF Bodies, PlaylistBodies, MediaBodies, AirtimeBodies

LEMMA AirtimeBodyShape ==
  ASSUME NEW b \in Bodies
  PROVE  /\ b.op = "createGroup" => b.devices \in SUBSET Devices
         /\ b.op = "patchGroup" => b.group \in Groups /\ b.devices \in SUBSET Devices
         /\ b.op = "deleteGroup" => b.group \in Groups
         /\ b.op = "createSchedule" => b.row \in ScheduleRows
         /\ b.op = "patchSchedule" => b.schedule \in Schedules /\ b.change \in ChangeRows
         /\ b.op = "deleteSchedule" => b.schedule \in Schedules
         /\ b.op = "startEmergency" => b.row \in OverrideRows
         /\ b.op = "stopEmergency" => b.override \in Nat /\ b.row \in OverrideRows
         /\ b.op = "patchDevice" =>
              /\ b.device \in Devices /\ b.default \in Playlists \cup {None}
              /\ b.groups \in SUBSET Groups
         /\ b.op = "deleteDevice" => b.device \in Devices
BY DEF Bodies, PlaylistBodies, MediaBodies, AirtimeBodies

\* The request at a stage has a body of its kind.
LEMMA BodyIsTyped ==
  ASSUME TypeOK, NEW r \in Requests, request[r].stage # "idle"
  PROVE  /\ request[r] \in [stage : {"checked", "half", "publish", "over"}, body : Bodies]
         /\ Body(r) \in Bodies
BY DEF TypeOK, Idle, Body

-------------------------------------------------------------------------------
(* What the commits do to the rows.                                        *)

\* Ids come into use and stay in use, and overrides keep whom they are for.
Grown(old, new) ==
  /\ Unused(new.playlists) \subseteq Unused(old.playlists)
  /\ Unused(new.folders) \subseteq Unused(old.folders)
  /\ Unused(new.groups) \subseteq Unused(old.groups)
  /\ DOMAIN old.overrides \subseteq DOMAIN new.overrides
  /\ \A n \in DOMAIN old.overrides :
       /\ new.overrides[n].all = old.overrides[n].all
       /\ new.overrides[n].devices = old.overrides[n].devices
       /\ new.overrides[n].groups = old.overrides[n].groups

\* What a commit keeps: the types, what is known, and, when the checks of its request still hold,
\* that live schedules and devices refer to live playlists.
Sound(r) ==
  /\ db' \in Database /\ RowsKnown(db') /\ Grown(db, db')
  /\ PlaylistsLive(db) /\ ChecksHold(Body(r)) => PlaylistsLive(db')

\* A commit to playlists, rules, media and folders that deletes no playlist.
LEMMA AirtimeFrame ==
  ASSUME NEW old \in Database, NEW new \in Database,
         new.schedules = old.schedules, new.devices = old.devices, new.overrides = old.overrides,
         new.groups = old.groups,
         \A p \in Playlists : new.playlists[p].state = old.playlists[p].state
                                \/ old.playlists[p].state = "none"
  PROVE  /\ Unused(new.playlists) \subseteq Unused(old.playlists)
         /\ PlaylistsKnown(old) => PlaylistsKnown(new)
         /\ GroupsKnown(old) => GroupsKnown(new)
         /\ PlaylistsLive(old) => PlaylistsLive(new)
<1>1. DOMAIN new.playlists = Playlists /\ DOMAIN old.playlists = Playlists
  BY DEF Database
<1>2. Unused(new.playlists) \subseteq Unused(old.playlists) /\ Live(old.playlists) \subseteq Live(new.playlists)
  BY <1>1 DEF Unused, Live
<1> QED
  BY <1>2 DEF PlaylistsKnown, GroupsKnown, PlaylistsLive

\* A commit to groups, schedules, overrides and devices.
LEMMA FolderFrame ==
  ASSUME NEW old, NEW new,
         new.playlists = old.playlists, new.rules = old.rules, new.media = old.media,
         new.folders = old.folders, FoldersKnown(old)
  PROVE  /\ FoldersKnown(new) /\ Unused(new.folders) \subseteq Unused(old.folders)
         /\ Unused(new.playlists) \subseteq Unused(old.playlists)
BY DEF FoldersKnown, EntriesKnown

\* A commit to playlists and rules alone: their entries are known.
LEMMA EntryFrame ==
  ASSUME NEW old \in Database, NEW new \in Database, FoldersKnown(old),
         new.media = old.media, new.folders = old.folders,
         \A p \in Playlists : EntriesKnown(old, new.playlists[p].items),
         \A p \in Playlists, x \in Rules : EntriesKnown(old, new.rules[p][x].picks)
  PROVE  FoldersKnown(new)
BY DEF FoldersKnown, EntriesKnown

LEMMA CommitStage ==
  ASSUME NEW r, NEW op, NEW data, NEW heard, Commit(r, op, data) \/ CommitQuietly(r, op, data, heard)
  PROVE  /\ db' = data /\ request[r].stage = "checked" /\ Body(r).op = op
         /\ UNCHANGED <<ops, owed, build, copy>>
BY DEF Commit, CommitQuietly, Write, Stage, Body

\* A table of the database replaced by another.
LEMMA Tables ==
  ASSUME NEW data \in Database
  PROVE  /\ data.media \in [Media -> MediaRows]
         /\ data.folders \in [Folders -> FolderRows]
         /\ data.playlists \in [Playlists -> PlaylistRows]
         /\ data.rules \in [Playlists -> [Rules -> RuleRows]]
         /\ data.groups \in [Groups -> [state : States]]
         /\ data.members \in SUBSET (Groups \X Devices)
         /\ data.schedules \in [Schedules -> ScheduleRows]
         /\ data.devices \in [Devices -> [state : States, default : Playlists \cup {None}]]
         /\ data.overrides \in Seq(OverrideRows)
BY DEF Database

LEMMA ContentChanged ==
  ASSUME db \in Database, RowsKnown(db), db' \in Database,
         db'.groups = db.groups, db'.schedules = db.schedules, db'.devices = db.devices,
         db'.overrides = db.overrides,
         \A p \in Playlists : db'.playlists[p].state = db.playlists[p].state
                                \/ db.playlists[p].state = "none",
         Unused(db'.folders) \subseteq Unused(db.folders), FoldersKnown(db')
  PROVE  /\ RowsKnown(db') /\ Grown(db, db')
         /\ PlaylistsLive(db) => PlaylistsLive(db')
<1>1. /\ Unused(db'.playlists) \subseteq Unused(db.playlists)
      /\ PlaylistsKnown(db) => PlaylistsKnown(db')
      /\ GroupsKnown(db) => GroupsKnown(db')
      /\ PlaylistsLive(db) => PlaylistsLive(db')
  BY AirtimeFrame
<1> QED
  BY <1>1 DEF RowsKnown, Grown

\* One playlist, one rule, one folder, or the media alone.
LEMMA PlaylistChanged ==
  ASSUME db \in Database, RowsKnown(db), NEW p \in Playlists, NEW row \in PlaylistRows,
         db' = [db EXCEPT !.playlists[p] = row],
         row.state = db.playlists[p].state \/ db.playlists[p].state = "none",
         EntriesKnown(db, row.items)
  PROVE  /\ db' \in Database /\ RowsKnown(db') /\ Grown(db, db')
         /\ PlaylistsLive(db) => PlaylistsLive(db')
<1>1. PICK v : v = [db.playlists EXCEPT ![p] = row]
  OBVIOUS
<1>2. v \in [Playlists -> PlaylistRows] /\ \A q \in Playlists : v[q] = IF q = p THEN row ELSE db.playlists[q]
  BY <1>1, Tables
<1>3. db' = [db EXCEPT !.playlists = v]
  BY <1>1
<1>4. /\ db' \in Database
      /\ db'.playlists = v /\ db'.rules = db.rules /\ db'.media = db.media /\ db'.folders = db.folders
      /\ db'.groups = db.groups /\ db'.schedules = db.schedules /\ db'.devices = db.devices
      /\ db'.overrides = db.overrides
  BY <1>2, <1>3 DEF Database
<1>5. FoldersKnown(db')
  BY <1>2, <1>4 DEF RowsKnown, FoldersKnown, EntriesKnown
<1>6. \A q \in Playlists : db'.playlists[q].state = db.playlists[q].state \/ db.playlists[q].state = "none"
  BY <1>2, <1>4
<1> QED
  BY <1>4, <1>5, <1>6, ContentChanged

LEMMA RuleChanged ==
  ASSUME db \in Database, RowsKnown(db), NEW p \in Playlists, NEW x \in Rules, NEW row \in RuleRows,
         db' = [db EXCEPT !.rules[p][x] = row], EntriesKnown(db, row.picks)
  PROVE  /\ db' \in Database /\ RowsKnown(db') /\ Grown(db, db')
         /\ PlaylistsLive(db) => PlaylistsLive(db')
<1>1. PICK u : u = [db.rules[p] EXCEPT ![x] = row]
  OBVIOUS
<1>2. u \in [Rules -> RuleRows] /\ \A y \in Rules : u[y] = IF y = x THEN row ELSE db.rules[p][y]
  BY <1>1, Tables
<1>3. PICK v : v = [db.rules EXCEPT ![p] = u]
  OBVIOUS
<1>4. /\ v \in [Playlists -> [Rules -> RuleRows]]
      /\ \A q \in Playlists : v[q] = IF q = p THEN u ELSE db.rules[q]
  BY <1>2, <1>3, Tables
<1>5. db' = [db EXCEPT !.rules = v]
  BY <1>1, <1>3
<1>6. /\ db' \in Database
      /\ db'.rules = v /\ db'.playlists = db.playlists /\ db'.media = db.media /\ db'.folders = db.folders
      /\ db'.groups = db.groups /\ db'.schedules = db.schedules /\ db'.devices = db.devices
      /\ db'.overrides = db.overrides
  BY <1>4, <1>5 DEF Database
<1>7. FoldersKnown(db')
  BY <1>2, <1>4, <1>6 DEF RowsKnown, FoldersKnown, EntriesKnown
<1>8. \A q \in Playlists : db'.playlists[q].state = db.playlists[q].state
  BY <1>6
<1> QED
  BY <1>6, <1>7, <1>8, ContentChanged

LEMMA FolderChanged ==
  ASSUME db \in Database, RowsKnown(db), NEW f \in Folders, NEW row \in FolderRows,
         db' = [db EXCEPT !.folders[f] = row],
         row.state = "none" => db.folders[f].state = "none",
         row.parent \notin Unused(db.folders)
  PROVE  /\ db' \in Database /\ RowsKnown(db') /\ Grown(db, db')
         /\ PlaylistsLive(db) => PlaylistsLive(db')
<1>1. PICK v : v = [db.folders EXCEPT ![f] = row]
  OBVIOUS
<1>2. v \in [Folders -> FolderRows] /\ \A g \in Folders : v[g] = IF g = f THEN row ELSE db.folders[g]
  BY <1>1, Tables
<1>3. db' = [db EXCEPT !.folders = v]
  BY <1>1
<1>4. /\ db' \in Database
      /\ db'.folders = v /\ db'.rules = db.rules /\ db'.media = db.media /\ db'.playlists = db.playlists
      /\ db'.groups = db.groups /\ db'.schedules = db.schedules /\ db'.devices = db.devices
      /\ db'.overrides = db.overrides
  BY <1>2, <1>3 DEF Database
<1>5. Unused(db'.folders) \subseteq Unused(db.folders)
  BY <1>2, <1>4, Tables DEF Unused
<1>6. FoldersKnown(db')
  BY <1>2, <1>4, <1>5 DEF RowsKnown, FoldersKnown, EntriesKnown, LiveFolders
<1>7. \A q \in Playlists : db'.playlists[q].state = db.playlists[q].state
  BY <1>4
<1> QED
  BY <1>4, <1>5, <1>6, <1>7, ContentChanged

LEMMA MediaChanged ==
  ASSUME db \in Database, RowsKnown(db),
         NEW v \in [Media -> MediaRows],
         db' = [db EXCEPT !.media = v],
         \A m \in Media : v[m].folder \notin Unused(db.folders)
  PROVE  /\ db' \in Database /\ RowsKnown(db') /\ Grown(db, db')
         /\ PlaylistsLive(db) => PlaylistsLive(db')
<1>1. /\ db' \in Database
      /\ db'.media = v /\ db'.rules = db.rules /\ db'.folders = db.folders /\ db'.playlists = db.playlists
      /\ db'.groups = db.groups /\ db'.schedules = db.schedules /\ db'.devices = db.devices
      /\ db'.overrides = db.overrides
  BY DEF Database
<1>2. FoldersKnown(db')
  BY <1>1 DEF RowsKnown, FoldersKnown, EntriesKnown
<1>3. \A q \in Playlists : db'.playlists[q].state = db.playlists[q].state
  BY <1>1
<1> QED
  BY <1>1, <1>2, <1>3, ContentChanged

\* A request to be committed has a body of its kind, which its checks have seen.
LEMMA Committing ==
  ASSUME TypeOK, KnownInv, NEW r \in Requests, request[r].stage # "idle"
  PROVE  Body(r) \in Bodies /\ BodyKnown(Body(r)) /\ db \in Database /\ RowsKnown(db)
BY BodyIsTyped DEF KnownInv, TypeOK

LEMMA CreatePlaylistSound ==
  ASSUME TypeOK, KnownInv, NEW r \in Requests, NEW p \in Playlists, CommitCreatePlaylist(r, p)
  PROVE  Sound(r)
<1> DEFINE row == [state |-> "live", ruled |-> FALSE, items |-> Body(r).items]
<1>1. /\ db' = [db EXCEPT !.playlists[p] = row] /\ db.playlists[p].state = "none"
      /\ request[r].stage = "checked" /\ Body(r).op = "createPlaylist"
  BY CommitStage DEF CommitCreatePlaylist, New
<1>2. row \in PlaylistRows /\ EntriesKnown(db, row.items)
  BY <1>1, Committing, PlaylistBodyShape DEF PlaylistRows, BodyKnown, States
<1> QED
  BY <1>1, <1>2, Committing, PlaylistChanged DEF Sound

LEMMA PatchPlaylistSound ==
  ASSUME TypeOK, KnownInv, NEW r \in Requests, CommitPatchPlaylist(r)
  PROVE  Sound(r)
<1> DEFINE p == Body(r).playlist
           row == [db.playlists[p] EXCEPT !.ruled = Body(r).ruled]
<1>1. /\ db' = [db EXCEPT !.playlists[p] = row]
      /\ request[r].stage = "checked" /\ Body(r).op = "patchPlaylist"
  BY CommitStage DEF CommitPatchPlaylist
<1>2. p \in Playlists /\ Body(r).ruled \in BOOLEAN /\ db.playlists[p] \in PlaylistRows
  BY <1>1, Committing, PlaylistBodyShape, Tables
<1>3. /\ row \in PlaylistRows /\ row.state = db.playlists[p].state
      /\ EntriesKnown(db, row.items)
  BY <1>1, <1>2, Committing DEF PlaylistRows, RowsKnown, FoldersKnown
<1> QED
  BY <1>1, <1>2, <1>3, Committing, PlaylistChanged DEF Sound

LEMMA PutItemsSound ==
  ASSUME TypeOK, KnownInv, NEW r \in Requests, CommitPutItems(r)
  PROVE  Sound(r)
<1> DEFINE p == Body(r).playlist
           row == [db.playlists[p] EXCEPT !.items = Body(r).items]
<1>1. /\ db' = [db EXCEPT !.playlists[p] = row]
      /\ request[r].stage = "checked" /\ Body(r).op = "putItems"
  BY CommitStage DEF CommitPutItems
<1>2. p \in Playlists /\ Body(r).items \in SUBSET Entries /\ db.playlists[p] \in PlaylistRows
  BY <1>1, Committing, PlaylistBodyShape, Tables
<1>3. /\ row \in PlaylistRows /\ row.state = db.playlists[p].state
      /\ EntriesKnown(db, row.items)
  BY <1>1, <1>2, Committing DEF PlaylistRows, BodyKnown
<1> QED
  BY <1>1, <1>2, <1>3, Committing, PlaylistChanged DEF Sound

\* Nobody uses the playlist that is deleted, if the check still holds.
LEMMA DeletePlaylistSound ==
  ASSUME TypeOK, KnownInv, NEW r \in Requests, CommitDeletePlaylist(r)
  PROVE  Sound(r)
<1> DEFINE p == Body(r).playlist
           row == [db.playlists[p] EXCEPT !.state = "gone"]
<1>1. /\ db' = [db EXCEPT !.playlists[p] = row]
      /\ request[r].stage = "checked" /\ Body(r).op = "deletePlaylist"
  BY CommitStage DEF CommitDeletePlaylist
<1>2. p \in Playlists /\ db.playlists[p] \in PlaylistRows /\ db \in Database /\ RowsKnown(db)
  BY <1>1, Committing, PlaylistBodyShape, Tables
<1>3. PICK v : v = [db.playlists EXCEPT ![p] = row]
  OBVIOUS
<1>4. row \in PlaylistRows /\ row.state = "gone" /\ row.items = db.playlists[p].items
  BY <1>2 DEF PlaylistRows, States
<1> HIDE DEF row
<1>5. v \in [Playlists -> PlaylistRows] /\ \A q \in Playlists : v[q] = IF q = p THEN row ELSE db.playlists[q]
  BY <1>2, <1>3, <1>4, Tables
<1>6. db' = [db EXCEPT !.playlists = v]
  BY <1>1, <1>3
<1>7. /\ db' \in Database
      /\ db'.playlists = v /\ db'.rules = db.rules /\ db'.media = db.media /\ db'.folders = db.folders
      /\ db'.groups = db.groups /\ db'.schedules = db.schedules /\ db'.devices = db.devices
      /\ db'.overrides = db.overrides
  BY <1>2, <1>5, <1>6 DEF Database
<1>8. Unused(db'.playlists) \subseteq Unused(db.playlists)
  BY <1>2, <1>4, <1>5, <1>7, Tables DEF Unused
<1>9. FoldersKnown(db')
  BY <1>2, <1>4, <1>5, <1>7 DEF RowsKnown, FoldersKnown, EntriesKnown
<1>10. RowsKnown(db') /\ Grown(db, db')
  BY <1>2, <1>7, <1>8, <1>9 DEF RowsKnown, PlaylistsKnown, GroupsKnown, Grown
<1>11. ASSUME PlaylistsLive(db), ~InUse(p) PROVE PlaylistsLive(db')
  <2>1. \A q \in Live(db.playlists) \ {p} : q \in Live(db'.playlists)
    BY <1>5, <1>7, Tables, <1>2 DEF Live
  <2> QED
    BY <1>7, <1>11, <2>1 DEF PlaylistsLive, InUse
<1> QED
  BY <1>1, <1>7, <1>10, <1>11 DEF Sound, ChecksHold

\* The copy of a playlist and its rules.
LEMMA ClonePlaylistSound ==
  ASSUME TypeOK, KnownInv, NEW r \in Requests, NEW p \in Playlists, CommitClonePlaylist(r, p)
  PROVE  Sound(r)
<1> DEFINE b == Body(r)
<1>1. /\ db' = [db EXCEPT !.playlists[p] = b.row, !.rules[p] = b.rules]
      /\ db.playlists[p].state = "none"
      /\ request[r].stage = "checked" /\ b.op = "clonePlaylist"
  BY CommitStage DEF CommitClonePlaylist, New
<1>2. /\ b.row \in PlaylistRows /\ b.rules \in [Rules -> RuleRows]
      /\ EntriesKnown(db, b.row.items) /\ \A x \in Rules : EntriesKnown(db, b.rules[x].picks)
      /\ db \in Database /\ RowsKnown(db)
  BY <1>1, Committing, PlaylistBodyShape DEF BodyKnown
<1> HIDE DEF b
<1>3. PICK v, u : v = [db.playlists EXCEPT ![p] = b.row] /\ u = [db.rules EXCEPT ![p] = b.rules]
  OBVIOUS
<1>4. /\ v \in [Playlists -> PlaylistRows] /\ u \in [Playlists -> [Rules -> RuleRows]]
      /\ \A q \in Playlists : /\ v[q] = IF q = p THEN b.row ELSE db.playlists[q]
                              /\ u[q] = IF q = p THEN b.rules ELSE db.rules[q]
  BY <1>2, <1>3, Tables
<1>5. db' = [db EXCEPT !.playlists = v, !.rules = u]
  BY <1>1, <1>3
<1>6. /\ db' \in Database
      /\ db'.playlists = v /\ db'.rules = u /\ db'.media = db.media /\ db'.folders = db.folders
      /\ db'.groups = db.groups /\ db'.schedules = db.schedules /\ db'.devices = db.devices
      /\ db'.overrides = db.overrides
  BY <1>2, <1>4, <1>5 DEF Database
<1>7. FoldersKnown(db')
  BY <1>2, <1>4, <1>6 DEF RowsKnown, FoldersKnown, EntriesKnown
<1>8. \A q \in Playlists : db'.playlists[q].state = db.playlists[q].state \/ db.playlists[q].state = "none"
  BY <1>1, <1>4, <1>6
<1> QED
  BY <1>2, <1>6, <1>7, <1>8, ContentChanged DEF Sound

LEMMA CreateRuleSound ==
  ASSUME TypeOK, KnownInv, NEW r \in Requests, NEW x \in Rules, CommitCreateRule(r, x)
  PROVE  Sound(r)
<1> DEFINE p == Body(r).playlist
           row == [state |-> "live", enabled |-> TRUE, picks |-> Body(r).picks]
<1>1. /\ db' = [db EXCEPT !.rules[p][x] = row]
      /\ request[r].stage = "checked" /\ Body(r).op = "createRule"
  BY CommitStage DEF CommitCreateRule
<1>2. p \in Playlists /\ row \in RuleRows /\ EntriesKnown(db, row.picks)
  BY <1>1, Committing, PlaylistBodyShape DEF RuleRows, States, BodyKnown
<1> QED
  BY <1>1, <1>2, Committing, RuleChanged DEF Sound

LEMMA PatchRuleSound ==
  ASSUME TypeOK, KnownInv, NEW r \in Requests, CommitPatchRule(r)
  PROVE  Sound(r)
<1> DEFINE p == Body(r).playlist
           x == Body(r).rule
           row == [db.rules[p][x] EXCEPT !.enabled = Body(r).enabled]
<1>1. /\ db' = [db EXCEPT !.rules[p][x] = row]
      /\ request[r].stage = "checked" /\ Body(r).op = "patchRule"
  BY CommitStage DEF CommitPatchRule
<1>2. p \in Playlists /\ x \in Rules /\ db.rules[p][x] \in RuleRows
  BY <1>1, Committing, PlaylistBodyShape, Tables
<1>3. row \in RuleRows /\ EntriesKnown(db, row.picks)
  BY <1>1, <1>2, Committing, PlaylistBodyShape DEF RuleRows, States, RowsKnown, FoldersKnown
<1> QED
  BY <1>1, <1>2, <1>3, Committing, RuleChanged DEF Sound

LEMMA DeleteRuleSound ==
  ASSUME TypeOK, KnownInv, NEW r \in Requests, CommitDeleteRule(r)
  PROVE  Sound(r)
<1> DEFINE p == Body(r).playlist
           x == Body(r).rule
           row == [db.rules[p][x] EXCEPT !.state = "gone"]
<1>1. /\ db' = [db EXCEPT !.rules[p][x] = row]
      /\ request[r].stage = "checked" /\ Body(r).op = "deleteRule"
  BY CommitStage DEF CommitDeleteRule
<1>2. p \in Playlists /\ x \in Rules /\ db.rules[p][x] \in RuleRows
  BY <1>1, Committing, PlaylistBodyShape, Tables
<1>3. row \in RuleRows /\ EntriesKnown(db, row.picks)
  BY <1>1, <1>2, Committing, PlaylistBodyShape DEF RuleRows, States, RowsKnown, FoldersKnown
<1> QED
  BY <1>1, <1>2, <1>3, Committing, RuleChanged DEF Sound

LEMMA PutAssignmentsSound ==
  ASSUME TypeOK, KnownInv, NEW r \in Requests, CommitPutAssignments(r)
  PROVE  Sound(r)
<1> DEFINE p == Body(r).playlist
           x == Body(r).rule
           row == [db.rules[p][x] EXCEPT !.picks = Body(r).picks]
<1>1. /\ db' = [db EXCEPT !.rules[p][x] = row]
      /\ request[r].stage = "checked" /\ Body(r).op = "putAssignments"
  BY CommitStage DEF CommitPutAssignments
<1>2. p \in Playlists /\ x \in Rules /\ db.rules[p][x] \in RuleRows
  BY <1>1, Committing, PlaylistBodyShape, Tables
<1>3. row \in RuleRows /\ EntriesKnown(db, row.picks)
  BY <1>1, <1>2, Committing, PlaylistBodyShape DEF RuleRows, States, BodyKnown
<1> QED
  BY <1>1, <1>2, <1>3, Committing, RuleChanged DEF Sound

LEMMA CreateFolderSound ==
  ASSUME TypeOK, KnownInv, NEW r \in Requests, NEW f \in Folders, CommitCreateFolder(r, f)
  PROVE  Sound(r)
<1>1. /\ db' = [db EXCEPT !.folders[f] = Body(r).row] /\ db.folders[f].state = "none"
      /\ request[r].stage = "checked" /\ Body(r).op = "createFolder"
  BY CommitStage DEF CommitCreateFolder, New
<1>2. Body(r).row \in FolderRows /\ Body(r).row.parent \notin Unused(db.folders)
  BY <1>1, Committing, MediaBodyShape DEF BodyKnown
<1> QED
  BY <1>1, <1>2, Committing, FolderChanged DEF Sound

LEMMA PatchFolderSound ==
  ASSUME TypeOK, KnownInv, NEW r \in Requests, CommitPatchFolder(r)
  PROVE  Sound(r)
<1> DEFINE f == Body(r).folder
           row == [db.folders[f] EXCEPT !.parent = Body(r).parent, !.name = Body(r).name]
<1>1. /\ db' = [db EXCEPT !.folders[f].parent = Body(r).parent, !.folders[f].name = Body(r).name]
      /\ request[r].stage = "checked" /\ Body(r).op = "patchFolder"
  BY CommitStage DEF CommitPatchFolder
<1>2. f \in Folders /\ db.folders[f] \in FolderRows /\ db \in Database
  BY <1>1, Committing, MediaBodyShape, Tables
<1>3. db' = [db EXCEPT !.folders[f] = row]
  BY <1>1, <1>2, Tables DEF Database
<1>4. /\ row \in FolderRows /\ row.state = db.folders[f].state
      /\ row.parent \notin Unused(db.folders)
  BY <1>1, <1>2, Committing, MediaBodyShape DEF FolderRows, BodyKnown
<1> QED
  BY <1>1, <1>2, <1>3, <1>4, Committing, FolderChanged DEF Sound

LEMMA MoveMediaSound ==
  ASSUME TypeOK, KnownInv, NEW r \in Requests, CommitMoveMedia(r)
  PROVE  Sound(r)
<1> DEFINE b == Body(r)
           moved == b.media \cap Usable(db.media)
           v == [m \in Media |-> IF m \in moved THEN [db.media[m] EXCEPT !.folder = b.folder]
                                 ELSE db.media[m]]
<1>1. /\ db' = [db EXCEPT !.media = v]
      /\ request[r].stage = "checked" /\ b.op = "moveMedia"
  BY CommitStage DEF CommitMoveMedia
<1>2. /\ b.media \in SUBSET Media /\ b.folder \in Inodes /\ b.folder \notin Unused(db.folders)
      /\ db.media \in [Media -> MediaRows]
      /\ \A m \in Media : db.media[m].folder \notin Unused(db.folders)
  BY <1>1, Committing, MediaBodyShape, Tables DEF BodyKnown, RowsKnown, FoldersKnown
<1>3. /\ v \in [Media -> MediaRows]
      /\ \A m \in Media : v[m].folder \notin Unused(db.folders)
  BY <1>2 DEF MediaRows
<1> QED
  BY <1>1, <1>3, Committing, MediaChanged DEF Sound

\* A change of one medium is one of its folder or its name, or of both.
LEMMA PatchedMedium ==
  ASSUME db \in Database, NEW b, b.medium \in Media, b.folder \in Inodes \cup {None},
         b.name \in Names \cup {None}
  PROVE  \E v \in [Media -> MediaRows] :
           /\ Patched(b) = [db EXCEPT !.media = v]
           /\ \A m \in Media \ {b.medium} : v[m] = db.media[m]
           /\ v[b.medium].state = db.media[b.medium].state
           /\ v[b.medium].folder \in {db.media[b.medium].folder, b.folder} \cap Inodes
<1> DEFINE old == db.media[b.medium]
           row == [state |-> old.state, folder |-> Given(b.folder, old.folder), name |-> Given(b.name, old.name)]
           v == [db.media EXCEPT ![b.medium] = row]
<1>1. db.media \in [Media -> MediaRows] /\ old \in MediaRows
  BY Tables
<1>2. Patched(b) = [db EXCEPT !.media = v]
  BY DEF Patched
<1>3. row \in MediaRows /\ row.state = old.state /\ row.folder \in {old.folder, b.folder} \cap Inodes
  BY <1>1 DEF MediaRows, Given
<1> HIDE DEF row, old
<1>4. v \in [Media -> MediaRows] /\ v[b.medium] = row /\ \A m \in Media \ {b.medium} : v[m] = db.media[m]
  BY <1>1, <1>3
<1> HIDE DEF v
<1> QED
  BY <1>2, <1>3, <1>4 DEF old

LEMMA PatchMediumCommits ==
  ASSUME NEW r, CommitMovedMedium(r) \/ CommitKeptMedium(r)
  PROVE  db' = Patched(Body(r)) /\ request[r].stage = "checked" /\ Body(r).op = "patchMedium"
<1> DEFINE data == Patched(Body(r))
           heard == data = db
<1>1. Commit(r, "patchMedium", data) \/ CommitQuietly(r, "patchMedium", data, heard)
  BY DEF CommitMovedMedium, CommitKeptMedium
<1> HIDE DEF data, heard
<1>2. db' = data /\ request[r].stage = "checked" /\ Body(r).op = "patchMedium"
  BY <1>1, CommitStage
<1> QED
  BY <1>2 DEF data

LEMMA PatchMediumSound ==
  ASSUME TypeOK, KnownInv, NEW r \in Requests, CommitMovedMedium(r) \/ CommitKeptMedium(r)
  PROVE  Sound(r)
<1> DEFINE b == Body(r)
<1>1. /\ db' = Patched(b)
      /\ request[r].stage = "checked" /\ b.op = "patchMedium"
  BY PatchMediumCommits
<1>2. /\ b.medium \in Media /\ b.folder \in Inodes \cup {None} /\ b.name \in Names \cup {None}
      /\ b.folder \notin Unused(db.folders)
      /\ \A m \in Media : db.media[m].folder \notin Unused(db.folders)
  BY <1>1, Committing, MediaBodyShape DEF BodyKnown, RowsKnown, FoldersKnown
<1> HIDE DEF b
<1>3. PICK v \in [Media -> MediaRows] :
        /\ Patched(b) = [db EXCEPT !.media = v]
        /\ \A m \in Media \ {b.medium} : v[m] = db.media[m]
        /\ v[b.medium].folder \in {db.media[b.medium].folder, b.folder}
  BY <1>2, PatchedMedium DEF TypeOK
<1>4. \A m \in Media : v[m].folder \notin Unused(db.folders)
  BY <1>2, <1>3
<1> USE DEF b
<1> QED
  BY <1>1, <1>3, <1>4, Committing, MediaChanged DEF Sound

LEMMA ReprocessSound ==
  ASSUME TypeOK, KnownInv, NEW r \in Requests, CommitReprocess(r)
  PROVE  Sound(r)
<1> DEFINE n == Body(r).medium
           state == IF db.media[n].state = "gone" THEN "gone" ELSE "pending"
           data == [db EXCEPT !.media[n].state = IF @ = "gone" THEN @ ELSE "pending"]
<1>1. db' = data /\ request[r].stage = "checked" /\ Body(r).op = "reprocess"
  <2>1. CommitQuietly(r, "reprocess", data, FALSE)
    BY DEF CommitReprocess
  <2> HIDE DEF data
  <2> QED
    BY <2>1, CommitStage
<1>2. PICK v : v = [db.media EXCEPT ![n] = [db.media[n] EXCEPT !.state = state]]
  OBVIOUS
<1>3. db' = [db EXCEPT !.media = v]
  BY <1>1, <1>2
<1>4. /\ n \in Media
      /\ db.media \in [Media -> MediaRows]
      /\ \A m \in Media : db.media[m].folder \notin Unused(db.folders)
  BY <1>1, Committing, MediaBodyShape, Tables DEF RowsKnown, FoldersKnown
<1> HIDE DEF n
<1>5. /\ v \in [Media -> MediaRows]
      /\ \A m \in Media : v[m].folder = db.media[m].folder
  BY <1>2, <1>4 DEF MediaRows
<1> QED
  BY <1>1, <1>3, <1>4, <1>5, Committing, MediaChanged DEF Sound

\* new is old without the entries that name one of refs, and perhaps with other media and folders.
Trimmed(old, new, refs) ==
  LET keep(es) == {e \in es : e.ref \notin refs} IN
  /\ new \in Database
  /\ new.groups = old.groups /\ new.members = old.members /\ new.schedules = old.schedules
  /\ new.devices = old.devices /\ new.overrides = old.overrides
  /\ \A p \in Playlists :
       /\ new.playlists[p].state = old.playlists[p].state
       /\ new.playlists[p].ruled = old.playlists[p].ruled
       /\ new.playlists[p].items = keep(old.playlists[p].items)
       /\ \A x \in Rules :
            /\ new.rules[p][x].state = old.rules[p][x].state
            /\ new.rules[p][x].enabled = old.rules[p][x].enabled
            /\ new.rules[p][x].picks = keep(old.rules[p][x].picks)

LEMMA WithoutRefsRows ==
  ASSUME NEW data \in Database, NEW refs
  PROVE  LET new == WithoutRefs(data, refs)
         IN Trimmed(data, new, refs) /\ new.media = data.media /\ new.folders = data.folders
<1> DEFINE keep(es) == {e \in es : e.ref \notin refs}
           v == [p \in Playlists |-> [data.playlists[p] EXCEPT !.items = keep(data.playlists[p].items)]]
           u == [p \in Playlists |-> [x \in Rules |->
                  [data.rules[p][x] EXCEPT !.picks = keep(data.rules[p][x].picks)]]]
<1>1. WithoutRefs(data, refs) = [data EXCEPT !.playlists = v, !.rules = u]
  BY DEF WithoutRefs
<1>2. /\ \A p \in Playlists : data.playlists[p] \in PlaylistRows
      /\ \A p \in Playlists, x \in Rules : data.rules[p][x] \in RuleRows
  BY Tables
<1>3. /\ v \in [Playlists -> PlaylistRows]
      /\ \A p \in Playlists : /\ v[p].state = data.playlists[p].state
                              /\ v[p].ruled = data.playlists[p].ruled
                              /\ v[p].items = keep(data.playlists[p].items)
  BY <1>2 DEF PlaylistRows
<1>4. /\ u \in [Playlists -> [Rules -> RuleRows]]
      /\ \A p \in Playlists, x \in Rules : /\ u[p][x].state = data.rules[p][x].state
                                           /\ u[p][x].enabled = data.rules[p][x].enabled
                                           /\ u[p][x].picks = keep(data.rules[p][x].picks)
  BY <1>2 DEF RuleRows
<1> HIDE DEF v, u
<1>5. PICK new : new = [data EXCEPT !.playlists = v, !.rules = u]
  OBVIOUS
<1>6. /\ new \in Database /\ new.playlists = v /\ new.rules = u
      /\ new.media = data.media /\ new.folders = data.folders /\ new.groups = data.groups
      /\ new.members = data.members /\ new.schedules = data.schedules
      /\ new.devices = data.devices /\ new.overrides = data.overrides
  BY <1>3, <1>4, <1>5 DEF Database
<1>7. WithoutRefs(data, refs) = new
  BY <1>1, <1>5
<1> QED
  BY <1>3, <1>4, <1>6, <1>7 DEF Trimmed

LEMMA WithoutMediaRows ==
  ASSUME NEW data \in Database, NEW ms
  PROVE  LET new == WithoutMedia(data, ms)
         IN /\ Trimmed(data, new, ms) /\ new.folders = data.folders
            /\ \A m \in Media :
                 /\ new.media[m].folder = data.media[m].folder
                 /\ new.media[m].state = IF m \in ms THEN "gone" ELSE data.media[m].state
                 /\ m \notin ms => new.media[m] = data.media[m]
<1> DEFINE v == [m \in Media |-> IF m \in ms THEN [data.media[m] EXCEPT !.state = "gone"] ELSE data.media[m]]
<1>1. PICK mid : mid = [data EXCEPT !.media = v]
  OBVIOUS
<1>2. WithoutMedia(data, ms) = WithoutRefs(mid, ms)
  BY <1>1 DEF WithoutMedia
<1>3. /\ v \in [Media -> MediaRows]
      /\ \A m \in Media : /\ v[m].folder = data.media[m].folder
                          /\ v[m].state = IF m \in ms THEN "gone" ELSE data.media[m].state
                          /\ m \notin ms => v[m] = data.media[m]
  BY Tables DEF MediaRows
<1> HIDE DEF v
<1>4. /\ mid \in Database /\ mid.media = v /\ mid.folders = data.folders
      /\ mid.playlists = data.playlists /\ mid.rules = data.rules /\ mid.groups = data.groups
      /\ mid.members = data.members /\ mid.schedules = data.schedules
      /\ mid.devices = data.devices /\ mid.overrides = data.overrides
  BY <1>1, <1>3 DEF Database
<1> QED
  BY <1>2, <1>3, <1>4, WithoutRefsRows DEF Trimmed

LEMMA TrimmedKnown ==
  ASSUME db \in Database, RowsKnown(db), NEW refs, Trimmed(db, db', refs),
         Unused(db'.folders) \subseteq Unused(db.folders),
         \A m \in Media : db'.media[m].folder \notin Unused(db.folders),
         \A f \in LiveFolders(db'.folders) : db'.folders[f].parent \notin Unused(db.folders)
  PROVE  /\ db' \in Database /\ RowsKnown(db') /\ Grown(db, db')
         /\ PlaylistsLive(db) => PlaylistsLive(db')
<1>1. /\ db' \in Database
      /\ db'.groups = db.groups /\ db'.schedules = db.schedules /\ db'.devices = db.devices
      /\ db'.overrides = db.overrides
      /\ \A p \in Playlists : db'.playlists[p].state = db.playlists[p].state
  BY DEF Trimmed
<1>2. /\ \A p \in Playlists : EntriesKnown(db', db'.playlists[p].items)
      /\ \A p \in Playlists, x \in Rules : EntriesKnown(db', db'.rules[p][x].picks)
  BY DEF Trimmed, RowsKnown, FoldersKnown, EntriesKnown
<1>3. FoldersKnown(db')
  BY <1>2 DEF FoldersKnown
<1> QED
  BY <1>1, <1>3, ContentChanged

LEMMA DeleteMediaSound ==
  ASSUME TypeOK, KnownInv, NEW r \in Requests, CommitDeleteMedia(r)
  PROVE  Sound(r)
<1>1. /\ db' = WithoutMedia(db, Body(r).media)
      /\ request[r].stage = "checked" /\ Body(r).op = "deleteMedia"
  BY CommitStage DEF CommitDeleteMedia
<1>2. db \in Database /\ RowsKnown(db)
  BY <1>1, Committing
<1>3. /\ Trimmed(db, db', Body(r).media) /\ db'.folders = db.folders
      /\ \A m \in Media : db'.media[m].folder = db.media[m].folder
  BY <1>1, <1>2, WithoutMediaRows
<1>4. /\ \A m \in Media : db'.media[m].folder \notin Unused(db.folders)
      /\ \A f \in LiveFolders(db'.folders) : db'.folders[f].parent \notin Unused(db.folders)
  BY <1>2, <1>3 DEF RowsKnown, FoldersKnown
<1> QED
  BY <1>2, <1>3, <1>4, TrimmedKnown DEF Sound

\* The media in the folders, and what becomes of them.
Inside(data, fs) == {m \in Usable(data.media) : data.media[m].folder \in fs}

LEMMA WithoutFoldersRows ==
  ASSUME NEW data \in Database, NEW fs, NEW strategy, NEW target \in Inodes,
         NEW new, new = WithoutFolders(data, fs, strategy, target),
         NEW inside, inside = Inside(data, fs),
         NEW refs, refs = IF strategy = "delete_media" THEN inside \cup fs ELSE fs
  PROVE  /\ Trimmed(data, new, refs)
         /\ \A m \in Media \ inside : new.media[m] = data.media[m]
         /\ \A m \in inside :
              IF strategy = "delete_media"
                THEN new.media[m].state = "gone" /\ new.media[m].folder = data.media[m].folder
                ELSE new.media[m].state = data.media[m].state /\ new.media[m].folder = target
         /\ \A f \in Folders :
              /\ new.folders[f].parent = data.folders[f].parent /\ new.folders[f].name = data.folders[f].name
              /\ new.folders[f].state = IF f \in fs THEN "gone" ELSE data.folders[f].state
<1> DEFINE moved == [m \in Media |-> IF m \in inside THEN [data.media[m] EXCEPT !.folder = target]
                                     ELSE data.media[m]]
           refiled == [data EXCEPT !.media = moved]
           emptied == IF strategy = "delete_media" THEN WithoutMedia(data, inside) ELSE refiled
           v(d) == [f \in Folders |-> IF f \in fs THEN [d.folders[f] EXCEPT !.state = "gone"] ELSE d.folders[f]]
<1>1. new = WithoutRefs([emptied EXCEPT !.folders = v(emptied)], fs)
  BY DEF WithoutFolders, Inside
<1>2. inside \subseteq Media
  BY Tables DEF Inside, Usable
<1>3. /\ moved \in [Media -> MediaRows]
      /\ \A m \in Media \ inside : moved[m] = data.media[m]
      /\ \A m \in inside : moved[m].state = data.media[m].state /\ moved[m].folder = target
  <2>1. \A m \in Media : data.media[m] \in MediaRows
    BY Tables
  <2>2. \A m \in Media :
          /\ moved[m] \in MediaRows
          /\ m \notin inside => moved[m] = data.media[m]
          /\ m \in inside => moved[m].state = data.media[m].state /\ moved[m].folder = target
    BY <2>1 DEF MediaRows
  <2> QED
    BY <1>2, <2>2
<1> HIDE DEF moved
<1>4. /\ refiled \in Database
      /\ refiled.media = moved /\ refiled.folders = data.folders /\ refiled.playlists = data.playlists
      /\ refiled.rules = data.rules /\ refiled.groups = data.groups /\ refiled.members = data.members
      /\ refiled.schedules = data.schedules /\ refiled.devices = data.devices
      /\ refiled.overrides = data.overrides
  BY <1>3 DEF Database
<1> DEFINE gone == IF strategy = "delete_media" THEN inside ELSE {}
<1> HIDE DEF refiled
<1>5. /\ Trimmed(data, emptied, gone) /\ emptied.folders = data.folders
      /\ \A m \in Media \ inside : emptied.media[m] = data.media[m]
      /\ \A m \in inside :
           IF strategy = "delete_media"
             THEN emptied.media[m].state = "gone" /\ emptied.media[m].folder = data.media[m].folder
             ELSE emptied.media[m].state = data.media[m].state /\ emptied.media[m].folder = target
  <2>1. CASE strategy = "delete_media"
    <3>1. PICK e : e = WithoutMedia(data, inside)
      OBVIOUS
    <3>2. /\ Trimmed(data, e, inside) /\ e.folders = data.folders /\ e \in Database
          /\ \A m \in Media :
               /\ e.media[m].folder = data.media[m].folder
               /\ e.media[m].state = IF m \in inside THEN "gone" ELSE data.media[m].state
               /\ m \notin inside => e.media[m] = data.media[m]
      BY <3>1, WithoutMediaRows DEF Trimmed
    <3>3. \A m \in Media \ inside : e.media[m] = data.media[m]
      BY <3>2
    <3>4. emptied = e /\ gone = inside
      BY <2>1, <3>1
    <3> HIDE DEF emptied, gone
    <3> QED
      BY <1>2, <2>1, <3>2, <3>3, <3>4
  <2>2. CASE strategy # "delete_media"
    <3>1. emptied = refiled /\ gone = {}
      BY <2>2
    <3>2. Trimmed(data, refiled, {})
      BY <1>4 DEF Trimmed
    <3> HIDE DEF emptied, gone
    <3> QED
      BY <1>2, <1>3, <1>4, <2>2, <3>1, <3>2
  <2> QED
    BY <2>1, <2>2
<1> HIDE DEF emptied
<1>6. PICK mid : mid = [emptied EXCEPT !.folders = v(emptied)]
  OBVIOUS
<1>7. /\ v(emptied) \in [Folders -> FolderRows]
      /\ \A f \in Folders : /\ v(emptied)[f].parent = data.folders[f].parent
                            /\ v(emptied)[f].name = data.folders[f].name
                            /\ v(emptied)[f].state = IF f \in fs THEN "gone" ELSE data.folders[f].state
  <2>1. \A f \in Folders : data.folders[f] \in FolderRows
    BY Tables
  <2> QED
    BY <1>5, <2>1 DEF FolderRows, States
<1> HIDE DEF v
<1>8. /\ mid \in Database
      /\ mid.folders = v(emptied) /\ mid.media = emptied.media /\ mid.playlists = emptied.playlists
      /\ mid.rules = emptied.rules /\ mid.groups = emptied.groups /\ mid.members = emptied.members
      /\ mid.schedules = emptied.schedules /\ mid.devices = emptied.devices
      /\ mid.overrides = emptied.overrides
  <2>1. emptied \in Database
    BY <1>5 DEF Trimmed
  <2> QED
    BY <1>6, <1>7, <2>1 DEF Database
<1>9. new = WithoutRefs(mid, fs)
  BY <1>1, <1>6
<1>10. Trimmed(mid, new, fs) /\ new.media = mid.media /\ new.folders = mid.folders
  BY <1>8, <1>9, WithoutRefsRows
<1>11. Trimmed(data, new, IF strategy = "delete_media" THEN inside \cup fs ELSE fs)
  BY <1>5, <1>8, <1>10 DEF Trimmed
<1> QED
  BY <1>5, <1>7, <1>8, <1>10, <1>11

LEMMA DeleteFolderSound ==
  ASSUME TypeOK, KnownInv, NEW r \in Requests, CommitDeleteFolder(r)
  PROVE  Sound(r)
<1> DEFINE b == Body(r)
<1>1. /\ db' = WithoutFolders(db, b.folders, b.strategy, b.target)
      /\ request[r].stage = "checked" /\ b.op = "deleteFolder"
  BY CommitStage DEF CommitDeleteFolder
<1>2. /\ db \in Database /\ RowsKnown(db) /\ b.target \in Inodes /\ b.target \notin Unused(db.folders)
      /\ b.folders \in SUBSET Folders
  BY <1>1, Committing, MediaBodyShape DEF BodyKnown
<1> HIDE DEF b
<1>i. PICK inside : inside = Inside(db, b.folders)
  OBVIOUS
<1>r. PICK refs : refs = IF b.strategy = "delete_media" THEN inside \cup b.folders ELSE b.folders
  OBVIOUS
<1>3. /\ Trimmed(db, db', refs)
      /\ \A m \in Media \ inside : db'.media[m] = db.media[m]
      /\ \A m \in inside : db'.media[m].folder \in {db.media[m].folder, b.target}
      /\ \A f \in Folders : /\ db'.folders[f].parent = db.folders[f].parent
                            /\ db'.folders[f].state = IF f \in b.folders THEN "gone" ELSE db.folders[f].state
  <2>1. PICK new : new = WithoutFolders(db, b.folders, b.strategy, b.target)
    OBVIOUS
  <2>2. /\ Trimmed(db, new, refs)
        /\ \A m \in Media \ inside : new.media[m] = db.media[m]
        /\ \A m \in inside :
             IF b.strategy = "delete_media"
               THEN new.media[m].state = "gone" /\ new.media[m].folder = db.media[m].folder
               ELSE new.media[m].state = db.media[m].state /\ new.media[m].folder = b.target
        /\ \A f \in Folders : /\ new.folders[f].parent = db.folders[f].parent
                              /\ new.folders[f].name = db.folders[f].name
                              /\ new.folders[f].state = IF f \in b.folders THEN "gone" ELSE db.folders[f].state
    <3>1. db \in Database /\ b.target \in Inodes
      BY <1>2
    <3> QED
      BY <3>1, <1>i, <1>r, <2>1, WithoutFoldersRows
  <2>3. db' = new
    BY <1>1, <2>1
  <2>4. \A m \in inside : new.media[m].folder \in {db.media[m].folder, b.target}
    BY <2>2
  <2> QED
    BY <2>2, <2>3, <2>4
<1>4. /\ \A m \in Media : db'.media[m].folder \in {db.media[m].folder, b.target}
      /\ \A f \in Folders : /\ db'.folders[f].parent = db.folders[f].parent
                            /\ db'.folders[f].state = IF f \in b.folders THEN "gone" ELSE db.folders[f].state
  BY <1>3
<1>5. DOMAIN db'.folders = Folders /\ DOMAIN db.folders = Folders
  BY <1>2, <1>3, Tables DEF Trimmed
<1>6. /\ Unused(db'.folders) \subseteq Unused(db.folders)
      /\ \A m \in Media : db'.media[m].folder \notin Unused(db.folders)
      /\ \A f \in LiveFolders(db'.folders) : db'.folders[f].parent \notin Unused(db.folders)
  BY <1>2, <1>4, <1>5 DEF RowsKnown, FoldersKnown, Unused, LiveFolders
<1> QED
  BY <1>2, <1>3, <1>6, TrimmedKnown DEF Sound

\* A commit to groups, memberships, schedules and devices.
LEMMA TargetsChanged ==
  ASSUME db \in Database, RowsKnown(db), db' \in Database,
         db'.playlists = db.playlists, db'.rules = db.rules, db'.media = db.media,
         db'.folders = db.folders, db'.overrides = db.overrides,
         Unused(db'.groups) \subseteq Unused(db.groups),
         \A s \in Schedules : db'.schedules[s].state = "live" =>
           /\ db'.schedules[s].playlist \notin Unused(db.playlists)
           /\ db'.schedules[s].groups \cap Unused(db.groups) = {},
         \A d \in Devices : db'.devices[d].default \notin Unused(db.playlists)
  PROVE  RowsKnown(db') /\ Grown(db, db')
<1>1. /\ FoldersKnown(db') /\ Unused(db'.folders) \subseteq Unused(db.folders)
      /\ Unused(db'.playlists) \subseteq Unused(db.playlists)
  BY FolderFrame DEF RowsKnown
<1>2. DOMAIN db'.schedules = Schedules
  BY Tables
<1>3. PlaylistsKnown(db') /\ GroupsKnown(db')
  BY <1>2 DEF RowsKnown, PlaylistsKnown, GroupsKnown, Live
<1> QED
  BY <1>1, <1>3 DEF RowsKnown, Grown

\* Groups and memberships alone.
LEMMA GroupsChanged ==
  ASSUME db \in Database, RowsKnown(db),
         NEW v \in [Groups -> [state : States]], NEW u \in SUBSET (Groups \X Devices),
         db' = [db EXCEPT !.groups = v, !.members = u],
         \A g \in Groups : v[g].state = "none" => db.groups[g].state = "none"
  PROVE  /\ db' \in Database /\ RowsKnown(db') /\ Grown(db, db')
         /\ PlaylistsLive(db) => PlaylistsLive(db')
<1>1. /\ db' \in Database
      /\ db'.groups = v /\ db'.members = u
      /\ db'.playlists = db.playlists /\ db'.rules = db.rules /\ db'.media = db.media
      /\ db'.folders = db.folders /\ db'.overrides = db.overrides /\ db'.schedules = db.schedules
      /\ db'.devices = db.devices
  BY DEF Database
<1>2. Unused(db'.groups) \subseteq Unused(db.groups)
  BY <1>1, Tables DEF Unused
<1>3. /\ \A s \in Schedules : db'.schedules[s].state = "live" =>
           /\ db'.schedules[s].playlist \notin Unused(db.playlists)
           /\ db'.schedules[s].groups \cap Unused(db.groups) = {}
      /\ \A d \in Devices : db'.devices[d].default \notin Unused(db.playlists)
  BY <1>1, Tables DEF RowsKnown, PlaylistsKnown, GroupsKnown, Live
<1>4. PlaylistsLive(db) => PlaylistsLive(db')
  BY <1>1 DEF PlaylistsLive
<1> QED
  BY <1>1, <1>2, <1>3, <1>4, TargetsChanged

LEMMA CreateGroupSound ==
  ASSUME TypeOK, KnownInv, NEW r \in Requests, NEW g \in Groups, CommitCreateGroup(r, g)
  PROVE  Sound(r)
<1> DEFINE b == Body(r)
           v == [db.groups EXCEPT ![g] = [db.groups[g] EXCEPT !.state = "live"]]
           u == db.members \cup ({g} \X b.devices)
<1>1. /\ db' = [db EXCEPT !.groups = v, !.members = u]
      /\ request[r].stage = "checked" /\ b.op = "createGroup"
  BY CommitStage DEF CommitCreateGroup
<1>2. b.devices \in SUBSET Devices /\ db \in Database /\ RowsKnown(db)
  BY <1>1, Committing, AirtimeBodyShape
<1>3. /\ v \in [Groups -> [state : States]]
      /\ \A h \in Groups : v[h].state = "none" => db.groups[h].state = "none"
  BY <1>2, Tables DEF States
<1>4. u \in SUBSET (Groups \X Devices)
  BY <1>2, Tables
<1> HIDE DEF u, v
<1> QED
  BY <1>1, <1>2, <1>3, <1>4, GroupsChanged DEF Sound

\* The memberships alone.
LEMMA MembersChanged ==
  ASSUME db \in Database, RowsKnown(db), NEW u \in SUBSET (Groups \X Devices),
         db' = [db EXCEPT !.members = u]
  PROVE  /\ db' \in Database /\ RowsKnown(db') /\ Grown(db, db')
         /\ PlaylistsLive(db) => PlaylistsLive(db')
<1>1. db' = [db EXCEPT !.groups = db.groups, !.members = u] /\ db.groups \in [Groups -> [state : States]]
  BY DEF Database
<1> QED
  BY <1>1, GroupsChanged

LEMMA PatchGroupSound ==
  ASSUME TypeOK, KnownInv, NEW r \in Requests, CommitPatchGroup(r)
  PROVE  Sound(r)
<1> DEFINE b == Body(r)
           u == {gd \in db.members : gd[1] # b.group} \cup ({b.group} \X b.devices)
<1>1. /\ db' = [db EXCEPT !.members = u]
      /\ request[r].stage = "checked" /\ b.op = "patchGroup"
  BY CommitStage DEF CommitPatchGroup
<1>2. b.group \in Groups /\ b.devices \in SUBSET Devices /\ db \in Database /\ RowsKnown(db)
  BY <1>1, Committing, AirtimeBodyShape
<1>3. u \in SUBSET (Groups \X Devices)
  BY <1>2, Tables
<1> QED
  BY <1>1, <1>2, <1>3, MembersChanged DEF Sound

LEMMA MarkGroupSound ==
  ASSUME TypeOK, KnownInv, NEW r \in Requests, MarkGroup(r)
  PROVE  Sound(r)
<1> DEFINE b == Body(r)
           v == [db.groups EXCEPT ![b.group] = [db.groups[b.group] EXCEPT !.state = "gone"]]
<1>1. /\ db' = [db EXCEPT !.groups = v]
      /\ request[r].stage = "checked" /\ b.op = "deleteGroup"
  BY DEF MarkGroup, Stage, Write, Body
<1>2. b.group \in Groups /\ db \in Database /\ RowsKnown(db)
  BY <1>1, Committing, AirtimeBodyShape
<1>3. db' = [db EXCEPT !.groups = v, !.members = db.members] /\ db.members \in SUBSET (Groups \X Devices)
  BY <1>1, <1>2 DEF Database
<1>4. /\ v \in [Groups -> [state : States]]
      /\ \A h \in Groups : v[h].state = "none" => db.groups[h].state = "none"
  BY <1>2, Tables DEF States
<1> QED
  BY <1>2, <1>3, <1>4, GroupsChanged DEF Sound

LEMMA EmptyGroupSound ==
  ASSUME TypeOK, KnownInv, NEW r \in Requests, EmptyGroup(r)
  PROVE  Sound(r)
<1> DEFINE u == {gd \in db.members : gd[1] # Body(r).group}
<1>1. /\ db' = [db EXCEPT !.members = u]
      /\ request[r].stage = "half"
  BY DEF EmptyGroup, Stage, Write
<1>2. u \in SUBSET (Groups \X Devices) /\ db \in Database /\ RowsKnown(db)
  BY <1>1, Committing, Tables
<1> QED
  BY <1>1, <1>2, MembersChanged DEF Sound

\* One schedule.
LEMMA ScheduleChanged ==
  ASSUME db \in Database, RowsKnown(db), NEW s \in Schedules, NEW row \in ScheduleRows,
         db' = [db EXCEPT !.schedules[s] = row],
         row.state = "live" => /\ row.playlist \notin Unused(db.playlists)
                               /\ row.groups \cap Unused(db.groups) = {}
  PROVE  /\ db' \in Database /\ RowsKnown(db') /\ Grown(db, db')
         /\ PlaylistsLive(db) /\ (row.state = "live" => row.playlist \in Live(db.playlists))
              => PlaylistsLive(db')
<1>1. PICK v : v = [db.schedules EXCEPT ![s] = row]
  OBVIOUS
<1>2. v \in [Schedules -> ScheduleRows] /\ \A t \in Schedules : v[t] = IF t = s THEN row ELSE db.schedules[t]
  BY <1>1, Tables
<1>3. db' = [db EXCEPT !.schedules = v]
  BY <1>1
<1>4. /\ db' \in Database /\ db'.schedules = v
      /\ db'.playlists = db.playlists /\ db'.rules = db.rules /\ db'.media = db.media
      /\ db'.folders = db.folders /\ db'.overrides = db.overrides /\ db'.groups = db.groups
      /\ db'.devices = db.devices
  BY <1>2, <1>3 DEF Database
<1>5. /\ \A t \in Schedules : db'.schedules[t].state = "live" =>
           /\ db'.schedules[t].playlist \notin Unused(db.playlists)
           /\ db'.schedules[t].groups \cap Unused(db.groups) = {}
      /\ \A d \in Devices : db'.devices[d].default \notin Unused(db.playlists)
  BY <1>2, <1>4, Tables DEF RowsKnown, PlaylistsKnown, GroupsKnown, Live
<1>6. ASSUME PlaylistsLive(db), row.state = "live" => row.playlist \in Live(db.playlists)
      PROVE  PlaylistsLive(db')
  BY <1>2, <1>4, <1>6, Tables DEF PlaylistsLive, Live
<1> QED
  BY <1>4, <1>5, <1>6, TargetsChanged

LEMMA CreateScheduleSound ==
  ASSUME TypeOK, KnownInv, NEW r \in Requests, NEW s \in Schedules, CommitCreateSchedule(r, s)
  PROVE  Sound(r)
<1> DEFINE b == Body(r)
<1>1. /\ db' = [db EXCEPT !.schedules[s] = b.row]
      /\ request[r].stage = "checked" /\ b.op = "createSchedule"
  BY CommitStage DEF CommitCreateSchedule
<1>2. /\ b.row \in ScheduleRows /\ db \in Database /\ RowsKnown(db)
      /\ b.row.playlist \notin Unused(db.playlists) /\ b.row.groups \cap Unused(db.groups) = {}
  BY <1>1, Committing, AirtimeBodyShape DEF BodyKnown
<1>3. ChecksHold(b) => b.row.playlist \in Live(db.playlists)
  BY <1>1 DEF ChecksHold
<1> QED
  BY <1>1, <1>2, <1>3, ScheduleChanged DEF Sound

LEMMA PatchScheduleSound ==
  ASSUME TypeOK, KnownInv, NEW r \in Requests, CommitPatchSchedule(r)
  PROVE  Sound(r)
<1> DEFINE b == Body(r)
           s == b.schedule
           c == b.change
           old == db.schedules[s]
           row == [state |-> old.state, enabled |-> Given(c.enabled, old.enabled),
                   playlist |-> Given(c.playlist, old.playlist),
                   devices |-> Given(c.devices, old.devices), groups |-> Given(c.groups, old.groups)]
<1>1. /\ db' = [db EXCEPT !.schedules[s] = row]
      /\ request[r].stage = "checked" /\ b.op = "patchSchedule"
  BY CommitStage DEF CommitPatchSchedule
<1>2. /\ s \in Schedules /\ c \in ChangeRows /\ old \in ScheduleRows /\ db \in Database /\ RowsKnown(db)
      /\ c.playlist \notin Unused(db.playlists) /\ Given(c.groups, {}) \cap Unused(db.groups) = {}
  BY <1>1, Committing, AirtimeBodyShape, Tables DEF BodyKnown
<1>3. DOMAIN db.schedules = Schedules
  BY <1>2, Tables
<1>4. old.state = "live" => /\ old.playlist \notin Unused(db.playlists)
                           /\ old.groups \cap Unused(db.groups) = {}
  BY <1>2, <1>3 DEF RowsKnown, PlaylistsKnown, GroupsKnown, Live
<1>5. ChecksHold(b) => c.playlist \in Live(db.playlists) \cup {None}
  BY <1>1 DEF ChecksHold
<1>6. PlaylistsLive(db) /\ old.state = "live" => old.playlist \in Live(db.playlists)
  BY <1>2, <1>3 DEF PlaylistsLive, Live
<1> HIDE DEF old, s, c
<1>7. row \in ScheduleRows
  BY <1>2 DEF ScheduleRows, ChangeRows, Given
<1>8. row.state = "live" => /\ row.playlist \notin Unused(db.playlists)
                           /\ row.groups \cap Unused(db.groups) = {}
  BY <1>2, <1>4 DEF Given
<1>9. ChecksHold(b) /\ PlaylistsLive(db) => (row.state = "live" => row.playlist \in Live(db.playlists))
  BY <1>5, <1>6 DEF Given
<1>10. db' = [db EXCEPT !.schedules[s] = row]
  BY <1>1 DEF old, s, c
<1> HIDE DEF row, b
<1>11. /\ db' \in Database /\ RowsKnown(db') /\ Grown(db, db')
       /\ ChecksHold(b) /\ PlaylistsLive(db) => PlaylistsLive(db')
  BY <1>2, <1>7, <1>8, <1>9, <1>10, ScheduleChanged
<1> QED
  BY <1>11 DEF Sound, b

LEMMA DeleteScheduleSound ==
  ASSUME TypeOK, KnownInv, NEW r \in Requests, CommitDeleteSchedule(r)
  PROVE  Sound(r)
<1> DEFINE s == Body(r).schedule
           row == [db.schedules[s] EXCEPT !.state = "gone", !.enabled = FALSE]
           data == [db EXCEPT !.schedules[s].state = "gone", !.schedules[s].enabled = FALSE]
<1>1. /\ db' = data
      /\ request[r].stage = "checked" /\ Body(r).op = "deleteSchedule"
  BY CommitStage DEF CommitDeleteSchedule
<1>2. s \in Schedules /\ db.schedules[s] \in ScheduleRows /\ db \in Database /\ RowsKnown(db)
  BY <1>1, Committing, AirtimeBodyShape, Tables
<1> HIDE DEF s
<1>3. db' = [db EXCEPT !.schedules[s] = row]
  BY <1>1, <1>2 DEF Database
<1>4. row \in ScheduleRows /\ row.state = "gone"
  BY <1>2 DEF ScheduleRows, States
<1> HIDE DEF row
<1> QED
  BY <1>2, <1>3, <1>4, ScheduleChanged DEF Sound

\* The overrides alone.
LEMMA OverridesChanged ==
  ASSUME db \in Database, RowsKnown(db), NEW v \in Seq(OverrideRows), db' = [db EXCEPT !.overrides = v],
         DOMAIN db.overrides \subseteq DOMAIN v,
         \A n \in DOMAIN v :
           \/ n \in DOMAIN db.overrides /\ v[n] = [db.overrides[n] EXCEPT !.active = v[n].active]
           \/ /\ n \notin DOMAIN db.overrides
              /\ v[n].playlist \notin Unused(db.playlists) /\ v[n].groups \cap Unused(db.groups) = {}
              /\ (v[n].playlist = None) # (v[n].media = None)
  PROVE  /\ db' \in Database /\ RowsKnown(db') /\ Grown(db, db')
         /\ PlaylistsLive(db) => PlaylistsLive(db')
<1>1. /\ db' \in Database /\ db'.overrides = v
      /\ db'.playlists = db.playlists /\ db'.rules = db.rules /\ db'.media = db.media
      /\ db'.folders = db.folders /\ db'.schedules = db.schedules /\ db'.groups = db.groups
      /\ db'.devices = db.devices
  BY DEF Database
<1>2. \A n \in DOMAIN db.overrides : db.overrides[n] \in OverrideRows
  BY Tables
<1>3. \A n \in DOMAIN db.overrides :
        /\ v[n].playlist = db.overrides[n].playlist /\ v[n].media = db.overrides[n].media
        /\ v[n].all = db.overrides[n].all /\ v[n].devices = db.overrides[n].devices
        /\ v[n].groups = db.overrides[n].groups
  BY <1>2 DEF OverrideRows
<1>4. /\ FoldersKnown(db') /\ Unused(db'.folders) \subseteq Unused(db.folders)
      /\ Unused(db'.playlists) \subseteq Unused(db.playlists)
  BY <1>1, FolderFrame DEF RowsKnown
<1>5. RowsKnown(db')
  BY <1>1, <1>3, <1>4 DEF RowsKnown, PlaylistsKnown, GroupsKnown
<1>6. Grown(db, db')
  BY <1>1, <1>3 DEF Grown
<1>7. PlaylistsLive(db) => PlaylistsLive(db')
  BY <1>1 DEF PlaylistsLive
<1> QED
  BY <1>1, <1>5, <1>6, <1>7

LEMMA StartEmergencySound ==
  ASSUME TypeOK, KnownInv, NEW r \in Requests, CommitStartEmergency(r)
  PROVE  Sound(r)
<1> DEFINE b == Body(r)
           v == Append(db.overrides, b.row)
<1>1. /\ db' = [db EXCEPT !.overrides = v]
      /\ request[r].stage = "checked" /\ b.op = "startEmergency"
  BY CommitStage DEF CommitStartEmergency
<1>2. /\ b.row \in OverrideRows /\ db \in Database /\ RowsKnown(db)
      /\ b.row.playlist \notin Unused(db.playlists) /\ b.row.groups \cap Unused(db.groups) = {}
      /\ (b.row.playlist = None) # (b.row.media = None)
  BY <1>1, Committing, AirtimeBodyShape DEF BodyKnown
<1>3. db.overrides \in Seq(OverrideRows)
  BY <1>2, Tables
<1>4. /\ v \in Seq(OverrideRows) /\ DOMAIN v = 1..(Len(db.overrides) + 1)
      /\ DOMAIN db.overrides = 1..Len(db.overrides) /\ Len(db.overrides) \in Nat
      /\ v[Len(db.overrides) + 1] = b.row
      /\ \A n \in 1..Len(db.overrides) : v[n] = db.overrides[n]
  BY <1>2, <1>3
<1>5. \A n \in DOMAIN db.overrides : v[n] = [db.overrides[n] EXCEPT !.active = v[n].active]
  <2>1. \A n \in DOMAIN db.overrides : db.overrides[n] \in OverrideRows
    BY <1>3
  <2> HIDE DEF v
  <2> QED
    BY <1>4, <2>1 DEF OverrideRows
<1> HIDE DEF v
<1>6. DOMAIN db.overrides \subseteq DOMAIN v /\ DOMAIN v \ DOMAIN db.overrides = {Len(db.overrides) + 1}
  BY <1>4
<1>7. \A n \in DOMAIN v :
        \/ n \in DOMAIN db.overrides /\ v[n] = [db.overrides[n] EXCEPT !.active = v[n].active]
        \/ /\ n \notin DOMAIN db.overrides
           /\ v[n].playlist \notin Unused(db.playlists) /\ v[n].groups \cap Unused(db.groups) = {}
           /\ (v[n].playlist = None) # (v[n].media = None)
  <2>1. \A n \in DOMAIN v : n \in DOMAIN db.overrides \/ v[n] = b.row
    BY <1>4, <1>6
  <2> HIDE DEF b
  <2> QED
    BY <1>2, <1>5, <2>1
<1>8. v \in Seq(OverrideRows)
  BY <1>4
<1> QED
  BY <1>1, <1>2, <1>6, <1>7, <1>8, OverridesChanged DEF Sound

LEMMA StopEmergencySound ==
  ASSUME TypeOK, KnownInv, NEW r \in Requests, CommitStopEmergency(r)
  PROVE  Sound(r)
<1> DEFINE n == Body(r).override
           row == [db.overrides[n] EXCEPT !.active = FALSE]
           v == [db.overrides EXCEPT ![n] = row]
<1>1. /\ db' = [db EXCEPT !.overrides = v]
      /\ request[r].stage = "checked" /\ Body(r).op = "stopEmergency"
  BY CommitStage DEF CommitStopEmergency
<1>2. /\ db \in Database /\ RowsKnown(db) /\ n \in DOMAIN db.overrides
  BY <1>1, Committing DEF BodyKnown
<1>3. db.overrides \in Seq(OverrideRows) /\ db.overrides[n] \in OverrideRows
  BY <1>2, Tables
<1> HIDE DEF n
<1>4. row \in OverrideRows
  BY <1>3 DEF OverrideRows
<1>5. /\ v \in Seq(OverrideRows) /\ DOMAIN v = DOMAIN db.overrides
      /\ \A k \in DOMAIN db.overrides : v[k] = IF k = n THEN row ELSE db.overrides[k]
  <2> HIDE DEF row
  <2> QED
    BY <1>2, <1>3, <1>4
<1>6. \A k \in DOMAIN db.overrides : v[k] = [db.overrides[k] EXCEPT !.active = v[k].active]
  <2>1. \A k \in DOMAIN db.overrides : db.overrides[k] \in OverrideRows
    BY <1>3
  <2> HIDE DEF v
  <2> QED
    BY <1>5, <2>1 DEF OverrideRows
<1> HIDE DEF v
<1> QED
  BY <1>1, <1>2, <1>5, <1>6, OverridesChanged DEF Sound

LEMMA PatchDeviceSound ==
  ASSUME TypeOK, KnownInv, NEW r \in Requests, CommitPatchDevice(r)
  PROVE  Sound(r)
<1> DEFINE b == Body(r)
           row == [db.devices[b.device] EXCEPT !.default = b.default]
           v == [db.devices EXCEPT ![b.device] = row]
           u == {gd \in db.members : gd[2] # b.device} \cup (b.groups \X {b.device})
<1>1. /\ db' = [db EXCEPT !.devices = v, !.members = u]
      /\ request[r].stage = "checked" /\ b.op = "patchDevice"
  BY CommitStage DEF CommitPatchDevice
<1>2. /\ b.device \in Devices /\ b.default \in Playlists \cup {None} /\ b.groups \in SUBSET Groups
      /\ db \in Database /\ RowsKnown(db) /\ b.default \notin Unused(db.playlists)
  BY <1>1, Committing, AirtimeBodyShape DEF BodyKnown
<1>3. ChecksHold(b) => b.default \in Live(db.playlists) \cup {None}
  BY <1>1 DEF ChecksHold
<1> HIDE DEF b
<1>4. /\ v \in [Devices -> [state : States, default : Playlists \cup {None}]]
      /\ \A d \in Devices : /\ v[d].state = db.devices[d].state
                            /\ v[d].default = IF d = b.device THEN b.default ELSE db.devices[d].default
  <2>1. \A d \in Devices : db.devices[d] \in [state : States, default : Playlists \cup {None}]
    BY <1>2, Tables
  <2>2. /\ row \in [state : States, default : Playlists \cup {None}]
        /\ row.state = db.devices[b.device].state /\ row.default = b.default
    BY <1>2, <2>1
  <2> HIDE DEF row
  <2> QED
    BY <1>2, <2>1, <2>2, Tables
<1>5. u \in SUBSET (Groups \X Devices)
  BY <1>2, Tables
<1> HIDE DEF u, v
<1>6. /\ db' \in Database /\ db'.devices = v
      /\ db'.playlists = db.playlists /\ db'.rules = db.rules /\ db'.media = db.media
      /\ db'.folders = db.folders /\ db'.overrides = db.overrides /\ db'.groups = db.groups
      /\ db'.schedules = db.schedules
  BY <1>1, <1>2, <1>4, <1>5 DEF Database
<1>7. /\ \A s \in Schedules : db'.schedules[s].state = "live" =>
           /\ db'.schedules[s].playlist \notin Unused(db.playlists)
           /\ db'.schedules[s].groups \cap Unused(db.groups) = {}
      /\ \A d \in Devices : db'.devices[d].default \notin Unused(db.playlists)
  BY <1>2, <1>4, <1>6, Tables DEF RowsKnown, PlaylistsKnown, GroupsKnown, Live
<1>8. RowsKnown(db') /\ Grown(db, db')
  BY <1>2, <1>6, <1>7, TargetsChanged
<1>9. ASSUME PlaylistsLive(db), ChecksHold(b) PROVE PlaylistsLive(db')
  BY <1>2, <1>3, <1>4, <1>6, <1>9, Tables DEF PlaylistsLive, Live
<1> QED
  BY <1>6, <1>8, <1>9 DEF Sound, b

LEMMA DeleteDeviceSound ==
  ASSUME TypeOK, KnownInv, NEW r \in Requests, CommitDeleteDevice(r)
  PROVE  Sound(r)
<1> DEFINE d == Body(r).device
           row == [db.devices[d] EXCEPT !.state = "gone"]
           v == [db.devices EXCEPT ![d] = row]
<1>1. /\ db' = [db EXCEPT !.devices = v]
      /\ request[r].stage = "checked" /\ Body(r).op = "deleteDevice"
  BY CommitStage DEF CommitDeleteDevice
<1>2. d \in Devices /\ db \in Database /\ RowsKnown(db)
  BY <1>1, Committing, AirtimeBodyShape
<1> HIDE DEF d
<1>3. /\ v \in [Devices -> [state : States, default : Playlists \cup {None}]]
      /\ \A e \in Devices : /\ v[e].state = IF e = d THEN "gone" ELSE db.devices[e].state
                            /\ v[e].default = db.devices[e].default
  <2>1. \A e \in Devices : db.devices[e] \in [state : States, default : Playlists \cup {None}]
    BY <1>2, Tables
  <2>2. /\ row \in [state : States, default : Playlists \cup {None}]
        /\ row.state = "gone" /\ row.default = db.devices[d].default
    BY <1>2, <2>1 DEF States
  <2> HIDE DEF row
  <2> QED
    BY <1>2, <2>1, <2>2, Tables
<1> HIDE DEF v
<1>4. /\ db' \in Database /\ db'.devices = v
      /\ db'.playlists = db.playlists /\ db'.rules = db.rules /\ db'.media = db.media
      /\ db'.folders = db.folders /\ db'.overrides = db.overrides /\ db'.groups = db.groups
      /\ db'.schedules = db.schedules
  BY <1>1, <1>2, <1>3 DEF Database
<1>5. /\ \A s \in Schedules : db'.schedules[s].state = "live" =>
           /\ db'.schedules[s].playlist \notin Unused(db.playlists)
           /\ db'.schedules[s].groups \cap Unused(db.groups) = {}
      /\ \A e \in Devices : db'.devices[e].default \notin Unused(db.playlists)
  BY <1>2, <1>3, <1>4, Tables DEF RowsKnown, PlaylistsKnown, GroupsKnown, Live
<1>6. RowsKnown(db') /\ Grown(db, db')
  BY <1>2, <1>4, <1>5, TargetsChanged
<1>7. PlaylistsLive(db) => PlaylistsLive(db')
  BY <1>2, <1>3, <1>4, Tables DEF PlaylistsLive, Live
<1> QED
  BY <1>4, <1>6, <1>7 DEF Sound

\* What the worker does to a row.
LEMMA FinishSound ==
  ASSUME TypeOK, KnownInv, NEW n \in Media, FinishProcessing(n)
  PROVE  /\ db' \in Database /\ RowsKnown(db') /\ Grown(db, db')
         /\ PlaylistsLive(db) => PlaylistsLive(db')
<1> DEFINE row == [db.media[n] EXCEPT !.state = "ready"]
           v == [db.media EXCEPT ![n] = row]
<1>1. db' = [db EXCEPT !.media = v]
  BY DEF FinishProcessing
<1>2. /\ db \in Database /\ RowsKnown(db)
      /\ db.media \in [Media -> MediaRows]
      /\ \A m \in Media : db.media[m].folder \notin Unused(db.folders)
  BY Tables DEF TypeOK, KnownInv, RowsKnown, FoldersKnown
<1>3. /\ v \in [Media -> MediaRows]
      /\ \A m \in Media : v[m].folder = db.media[m].folder
  <2>1. /\ row \in MediaRows
        /\ row.folder = db.media[n].folder
    BY <1>2 DEF MediaRows
  <2> HIDE DEF row
  <2> QED
    BY <1>2, <2>1
<1> HIDE DEF v
<1> QED
  BY <1>1, <1>2, <1>3, MediaChanged

-------------------------------------------------------------------------------
(* What the checks of a request have seen when it arrives.                 *)

Arrived(r) ==
  \E body \in Bodies : Receive(r, body) /\ BodyKnown(body) /\ ChecksHold(body)

LEMMA EntriesOfOrg ==
  ASSUME db \in Database, NEW es, EntriesInOrg(es)
  PROVE  EntriesKnown(db, es)
<1>1. DOMAIN db.media = Media /\ DOMAIN db.folders = Folders
  BY Tables
<1> QED
  BY <1>1, LibraryAssumption DEF EntriesInOrg, InOrg, EntriesKnown, Usable, LiveFolders, Unused

LEMMA LiveIsUsed ==
  ASSUME db \in Database
  PROVE  /\ \A p \in Playlists : LivePlaylist(p) => p \notin Unused(db.playlists) /\ p \in Live(db.playlists)
         /\ None \notin Unused(db.playlists)
         /\ \A gs \in SUBSET Groups : LiveGroups(gs) => gs \cap Unused(db.groups) = {}
         /\ \A i \in Inodes : FolderOrRoot(i) => i \notin Unused(db.folders)
         /\ Live(db.groups) \subseteq Groups /\ Live(db.devices) \subseteq Devices
<1>1. /\ DOMAIN db.playlists = Playlists /\ DOMAIN db.groups = Groups /\ DOMAIN db.folders = Folders
      /\ DOMAIN db.devices = Devices
  BY Tables
<1> QED
  BY <1>1, LibraryAssumption DEF LivePlaylist, Live, Unused, LiveGroups, FolderOrRoot, LiveFolders

LEMMA PlaylistArrivals ==
  ASSUME TypeOK, KnownInv, NEW r \in Requests, PlaylistRequests(r)
  PROVE  Arrived(r)
<1>1. db \in Database /\ RowsKnown(db)
  BY DEF TypeOK, KnownInv
<1>2. ItemLists \subseteq SUBSET Entries
  BY LibraryAssumption
<1>3. CASE \E es \in ItemLists : CreatePlaylist(r, es)
  <2>1. PICK es \in ItemLists : CreatePlaylist(r, es)
    BY <1>3
  <2> DEFINE body == [op |-> "createPlaylist", items |-> es]
  <2>2. Receive(r, body) /\ body \in Bodies
    BY <1>2, <2>1 DEF CreatePlaylist, Bodies, PlaylistBodies
  <2>3. EntriesKnown(db, es)
    BY <1>1, <2>1, EntriesOfOrg DEF CreatePlaylist
  <2>4. BodyKnown(body) /\ ChecksHold(body)
    BY <2>3 DEF BodyKnown, ChecksHold
  <2> QED
    BY <2>2, <2>4 DEF Arrived
<1>4. CASE \E p \in Playlists, b \in BOOLEAN : PatchPlaylist(r, p, b)
  <2>1. PICK p \in Playlists, b \in BOOLEAN : PatchPlaylist(r, p, b)
    BY <1>4
  <2> DEFINE body == [op |-> "patchPlaylist", playlist |-> p, ruled |-> b]
  <2>2. Receive(r, body) /\ body \in Bodies
    BY <2>1 DEF PatchPlaylist, Bodies, PlaylistBodies
  <2>3. BodyKnown(body) /\ ChecksHold(body)
    BY DEF BodyKnown, ChecksHold
  <2> QED
    BY <2>2, <2>3 DEF Arrived
<1>5. CASE \E p \in Playlists, es \in ItemLists : PutItems(r, p, es)
  <2>1. PICK p \in Playlists, es \in ItemLists : PutItems(r, p, es)
    BY <1>5
  <2> DEFINE body == [op |-> "putItems", playlist |-> p, items |-> es]
  <2>2. Receive(r, body) /\ body \in Bodies
    BY <1>2, <2>1 DEF PutItems, Bodies, PlaylistBodies
  <2>3. EntriesKnown(db, es)
    BY <1>1, <2>1, EntriesOfOrg DEF PutItems
  <2>4. BodyKnown(body) /\ ChecksHold(body)
    BY <2>3 DEF BodyKnown, ChecksHold
  <2> QED
    BY <2>2, <2>4 DEF Arrived
<1>6. CASE \E p \in Playlists, es \in ItemLists : CreateRule(r, p, es)
  <2>1. PICK p \in Playlists, es \in ItemLists : CreateRule(r, p, es)
    BY <1>6
  <2> DEFINE body == [op |-> "createRule", playlist |-> p, picks |-> es]
  <2>2. Receive(r, body) /\ body \in Bodies
    BY <1>2, <2>1 DEF CreateRule, Bodies, PlaylistBodies
  <2>3. EntriesKnown(db, es)
    BY <1>1, <2>1, EntriesOfOrg DEF CreateRule
  <2>4. BodyKnown(body) /\ ChecksHold(body)
    BY <2>3 DEF BodyKnown, ChecksHold
  <2> QED
    BY <2>2, <2>4 DEF Arrived
<1>7. CASE \E p \in Playlists : DeletePlaylist(r, p)
  <2>1. PICK p \in Playlists : DeletePlaylist(r, p)
    BY <1>7
  <2> DEFINE body == [op |-> "deletePlaylist", playlist |-> p]
  <2>2. Receive(r, body) /\ body \in Bodies
    BY <2>1 DEF DeletePlaylist, Bodies, PlaylistBodies
  <2>3. BodyKnown(body) /\ ChecksHold(body)
    BY <2>1 DEF BodyKnown, ChecksHold, DeletePlaylist
  <2> QED
    BY <2>2, <2>3 DEF Arrived
<1>8. CASE \E p \in Playlists : ClonePlaylist(r, p)
  <2>1. PICK p \in Playlists : ClonePlaylist(r, p)
    BY <1>8
  <2> DEFINE rules == [x \in Rules |-> IF db.rules[p][x].state = "live" THEN db.rules[p][x] ELSE NoRule]
             body == [op |-> "clonePlaylist", row |-> db.playlists[p], rules |-> rules]
  <2>2. Receive(r, body)
    BY <2>1 DEF ClonePlaylist
  <2>3. NoRule \in RuleRows /\ EntriesKnown(db, NoRule.picks)
    BY DEF NoRule, RuleRows, States, EntriesKnown
  <2>4. /\ db.playlists[p] \in PlaylistRows /\ \A x \in Rules : db.rules[p][x] \in RuleRows
        /\ EntriesKnown(db, db.playlists[p].items)
        /\ \A x \in Rules : EntriesKnown(db, db.rules[p][x].picks)
    BY <1>1, Tables DEF RowsKnown, FoldersKnown
  <2>5. rules \in [Rules -> RuleRows] /\ \A x \in Rules : EntriesKnown(db, rules[x].picks)
    BY <2>3, <2>4
  <2> HIDE DEF rules
  <2>6. body \in Bodies
    BY <2>4, <2>5 DEF Bodies, PlaylistBodies
  <2>7. BodyKnown(body) /\ ChecksHold(body)
    BY <2>4, <2>5 DEF BodyKnown, ChecksHold
  <2> QED
    BY <2>2, <2>6, <2>7 DEF Arrived
<1>9. CASE \E p \in Playlists, x \in Rules, b \in BOOLEAN : PatchRule(r, p, x, b)
  <2>1. PICK p \in Playlists, x \in Rules, b \in BOOLEAN : PatchRule(r, p, x, b)
    BY <1>9
  <2> DEFINE body == [op |-> "patchRule", playlist |-> p, rule |-> x, enabled |-> b]
  <2>2. Receive(r, body) /\ body \in Bodies
    BY <2>1 DEF PatchRule, Bodies, PlaylistBodies
  <2>3. BodyKnown(body) /\ ChecksHold(body)
    BY DEF BodyKnown, ChecksHold
  <2> QED
    BY <2>2, <2>3 DEF Arrived
<1>10. CASE \E p \in Playlists, x \in Rules : DeleteRule(r, p, x)
  <2>1. PICK p \in Playlists, x \in Rules : DeleteRule(r, p, x)
    BY <1>10
  <2> DEFINE body == [op |-> "deleteRule", playlist |-> p, rule |-> x]
  <2>2. Receive(r, body) /\ body \in Bodies
    BY <2>1 DEF DeleteRule, Bodies, PlaylistBodies
  <2>3. BodyKnown(body) /\ ChecksHold(body)
    BY DEF BodyKnown, ChecksHold
  <2> QED
    BY <2>2, <2>3 DEF Arrived
<1>11. CASE \E p \in Playlists, x \in Rules, es \in ItemLists : PutAssignments(r, p, x, es)
  <2>1. PICK p \in Playlists, x \in Rules, es \in ItemLists : PutAssignments(r, p, x, es)
    BY <1>11
  <2> DEFINE body == [op |-> "putAssignments", playlist |-> p, rule |-> x, picks |-> es]
  <2>2. Receive(r, body) /\ body \in Bodies
    BY <1>2, <2>1 DEF PutAssignments, Bodies, PlaylistBodies
  <2>3. EntriesKnown(db, es)
    BY <1>1, <2>1, EntriesOfOrg DEF PutAssignments
  <2>4. BodyKnown(body) /\ ChecksHold(body)
    BY <2>3 DEF BodyKnown, ChecksHold
  <2> QED
    BY <2>2, <2>4 DEF Arrived
<1> QED
  BY <1>3, <1>4, <1>5, <1>6, <1>7, <1>8, <1>9, <1>10, <1>11 DEF PlaylistRequests

LEMMA MediaArrivals ==
  ASSUME TypeOK, KnownInv, NEW r \in Requests, MediaRequests(r)
  PROVE  Arrived(r)
<1>1. db \in Database
  BY DEF TypeOK
<1>2. CASE \E i \in Inodes, n \in Names : CreateFolder(r, i, n)
  <2>1. PICK i \in Inodes, n \in Names : CreateFolder(r, i, n)
    BY <1>2
  <2> DEFINE row == [state |-> "live", parent |-> i, name |-> n]
             body == [op |-> "createFolder", row |-> row]
  <2>2. Receive(r, body) /\ row \in FolderRows /\ row.parent = i
    BY <2>1 DEF CreateFolder, FolderRows, States
  <2>3. i \notin Unused(db.folders)
    BY <1>1, <2>1, LiveIsUsed DEF CreateFolder
  <2> HIDE DEF row
  <2>4. body \in Bodies
    BY <2>2 DEF Bodies, MediaBodies
  <2>5. BodyKnown(body) /\ ChecksHold(body)
    BY <2>2, <2>3 DEF BodyKnown, ChecksHold
  <2> QED
    BY <2>2, <2>4, <2>5 DEF Arrived
<1>3. CASE \E i \in Inodes, n \in Names, f \in Folders : PatchFolder(r, f, i, n)
  <2>1. PICK i \in Inodes, n \in Names, f \in Folders : PatchFolder(r, f, i, n)
    BY <1>3
  <2> DEFINE body == [op |-> "patchFolder", folder |-> f, parent |-> i, name |-> n]
  <2>2. Receive(r, body) /\ body \in Bodies
    BY <2>1 DEF PatchFolder, Bodies, MediaBodies
  <2>3. i \notin Unused(db.folders)
    BY <1>1, <2>1, LiveIsUsed DEF PatchFolder
  <2>4. BodyKnown(body) /\ ChecksHold(body)
    BY <2>3 DEF BodyKnown, ChecksHold
  <2> QED
    BY <2>2, <2>4 DEF Arrived
<1>4. CASE \E f \in Folders, i \in Inodes, s \in {"move_to_root", "move_to_folder", "delete_media"} :
             DeleteFolder(r, f, s, i)
  <2>1. PICK f \in Folders, i \in Inodes, s \in {"move_to_root", "move_to_folder", "delete_media"} :
          DeleteFolder(r, f, s, i)
    BY <1>4
  <2> DEFINE fs == Descendants(db.folders, f)
             body == [op |-> "deleteFolder", folders |-> fs, strategy |-> s, target |-> i]
  <2>2. Receive(r, body) /\ FolderOrRoot(i)
    BY <2>1 DEF DeleteFolder, FolderOrRoot
  <2>3. fs \in SUBSET Folders /\ i \notin Unused(db.folders)
    BY <1>1, <2>2, DescendantsClosed, LiveIsUsed
  <2> HIDE DEF fs
  <2>4. body \in Bodies
    BY <2>1, <2>3 DEF Bodies, MediaBodies
  <2>5. BodyKnown(body) /\ ChecksHold(body)
    BY <2>3 DEF BodyKnown, ChecksHold
  <2> QED
    BY <2>2, <2>4, <2>5 DEF Arrived
<1>5. CASE \E ms \in SUBSET Media : DeleteMedia(r, ms)
  <2>1. PICK ms \in SUBSET Media : DeleteMedia(r, ms)
    BY <1>5
  <2> DEFINE body == [op |-> "deleteMedia", media |-> ms]
  <2>2. Receive(r, body) /\ body \in Bodies
    BY <2>1 DEF DeleteMedia, Bodies, MediaBodies
  <2>3. BodyKnown(body) /\ ChecksHold(body)
    BY DEF BodyKnown, ChecksHold
  <2> QED
    BY <2>2, <2>3 DEF Arrived
<1>6. CASE \E ms \in SUBSET Media, i \in Inodes : MoveMedia(r, ms, i)
  <2>1. PICK ms \in SUBSET Media, i \in Inodes : MoveMedia(r, ms, i)
    BY <1>6
  <2> DEFINE body == [op |-> "moveMedia", media |-> ms, folder |-> i]
  <2>2. Receive(r, body) /\ body \in Bodies
    BY <2>1 DEF MoveMedia, Bodies, MediaBodies
  <2>3. i \notin Unused(db.folders)
    BY <1>1, <2>1, LiveIsUsed DEF MoveMedia
  <2>4. BodyKnown(body) /\ ChecksHold(body)
    BY <2>3 DEF BodyKnown, ChecksHold
  <2> QED
    BY <2>2, <2>4 DEF Arrived
<1>7. CASE \E m \in Media, i \in Inodes \cup {None}, n \in Names \cup {None} : PatchMedium(r, m, i, n)
  <2>1. PICK m \in Media, i \in Inodes \cup {None}, n \in Names \cup {None} : PatchMedium(r, m, i, n)
    BY <1>7
  <2> DEFINE before == db.media[m].folder
             body == [op |-> "patchMedium", medium |-> m, folder |-> i, name |-> n, before |-> before]
  <2>2. Receive(r, body)
    BY <2>1 DEF PatchMedium
  <2>3. before \in Inodes
    BY <1>1, Tables DEF MediaRows
  <2>4. i \notin Unused(db.folders)
    <3>1. DOMAIN db.folders = Folders
      BY <1>1, Tables
    <3>2. i = None \/ (i \in Inodes /\ FolderOrRoot(i))
      <4>1. i # None => FolderOrRoot(i)
        BY <2>1 DEF PatchMedium
      <4> QED
        BY <2>1, <4>1
    <3> QED
      BY <1>1, <3>1, <3>2, LiveIsUsed, LibraryAssumption DEF Unused, Inodes
  <2> HIDE DEF before
  <2>5. body \in Bodies
    BY <2>1, <2>3 DEF Bodies, MediaBodies
  <2>6. BodyKnown(body) /\ ChecksHold(body)
    BY <2>4 DEF BodyKnown, ChecksHold
  <2> QED
    BY <2>2, <2>5, <2>6 DEF Arrived
<1>8. CASE \E m \in Media : Reprocess(r, m)
  <2>1. PICK m \in Media : Reprocess(r, m)
    BY <1>8
  <2> DEFINE body == [op |-> "reprocess", medium |-> m]
  <2>2. Receive(r, body) /\ body \in Bodies
    BY <2>1 DEF Reprocess, Bodies, MediaBodies
  <2>3. BodyKnown(body) /\ ChecksHold(body)
    BY DEF BodyKnown, ChecksHold
  <2> QED
    BY <2>2, <2>3 DEF Arrived
<1> QED
  BY <1>2, <1>3, <1>4, <1>5, <1>6, <1>7, <1>8 DEF MediaRequests

LEMMA AirtimeArrivals ==
  ASSUME TypeOK, KnownInv, NEW r \in Requests, AirtimeRequests(r)
  PROVE  Arrived(r)
<1>1. db \in Database /\ RowsKnown(db)
  BY DEF TypeOK, KnownInv
<1>2. CASE \E ds \in SUBSET Devices : CreateGroup(r, ds)
  <2>1. PICK ds \in SUBSET Devices : CreateGroup(r, ds)
    BY <1>2
  <2> DEFINE body == [op |-> "createGroup", devices |-> ds \cap Live(db.devices)]
  <2>2. Receive(r, body) /\ body \in Bodies
    BY <2>1 DEF CreateGroup, Bodies, AirtimeBodies
  <2>3. BodyKnown(body) /\ ChecksHold(body)
    BY DEF BodyKnown, ChecksHold
  <2> QED
    BY <2>2, <2>3 DEF Arrived
<1>3. CASE \E g \in Groups, ds \in SUBSET Devices : PatchGroup(r, g, ds)
  <2>1. PICK g \in Groups, ds \in SUBSET Devices : PatchGroup(r, g, ds)
    BY <1>3
  <2> DEFINE body == [op |-> "patchGroup", group |-> g, devices |-> ds \cap Live(db.devices)]
  <2>2. Receive(r, body) /\ body \in Bodies
    BY <2>1 DEF PatchGroup, Bodies, AirtimeBodies
  <2>3. BodyKnown(body) /\ ChecksHold(body)
    BY DEF BodyKnown, ChecksHold
  <2> QED
    BY <2>2, <2>3 DEF Arrived
<1>4. CASE \E g \in Groups : DeleteGroup(r, g)
  <2>1. PICK g \in Groups : DeleteGroup(r, g)
    BY <1>4
  <2> DEFINE body == [op |-> "deleteGroup", group |-> g]
  <2>2. Receive(r, body) /\ body \in Bodies
    BY <2>1 DEF DeleteGroup, Bodies, AirtimeBodies
  <2>3. BodyKnown(body) /\ ChecksHold(body)
    BY DEF BodyKnown, ChecksHold
  <2> QED
    BY <2>2, <2>3 DEF Arrived
<1>5. CASE \E p \in Playlists, ds \in SUBSET Devices, gs \in SUBSET Groups : CreateSchedule(r, p, ds, gs)
  <2>1. PICK p \in Playlists, ds \in SUBSET Devices, gs \in SUBSET Groups : CreateSchedule(r, p, ds, gs)
    BY <1>5
  <2> DEFINE row == [state |-> "live", enabled |-> TRUE, playlist |-> p, devices |-> ds, groups |-> gs]
             body == [op |-> "createSchedule", row |-> row]
  <2>2. Receive(r, body) /\ row \in ScheduleRows /\ row.playlist = p /\ row.groups = gs
    BY <2>1 DEF CreateSchedule, ScheduleRows, States
  <2>3. p \notin Unused(db.playlists) /\ p \in Live(db.playlists) /\ gs \cap Unused(db.groups) = {}
    BY <1>1, <2>1, LiveIsUsed DEF CreateSchedule
  <2> HIDE DEF row
  <2>4. body \in Bodies
    BY <2>2 DEF Bodies, AirtimeBodies
  <2>5. BodyKnown(body) /\ ChecksHold(body)
    BY <2>2, <2>3 DEF BodyKnown, ChecksHold
  <2> QED
    BY <2>2, <2>4, <2>5 DEF Arrived
<1>6. CASE \E s \in Schedules, c \in Changes : PatchSchedule(r, s, c)
  <2>1. PICK s \in Schedules, c \in Changes : PatchSchedule(r, s, c)
    BY <1>6
  <2> DEFINE body == [op |-> "patchSchedule", schedule |-> s, change |-> c]
  <2>2. c \in ChangeRows
    BY LibraryAssumption
  <2>3. Receive(r, body) /\ body \in Bodies
    BY <2>1, <2>2 DEF PatchSchedule, Bodies, AirtimeBodies
  <2>4. /\ c.playlist \in Live(db.playlists) \cup {None} /\ c.playlist \notin Unused(db.playlists)
        /\ Given(c.groups, {}) \cap Unused(db.groups) = {}
    <3>1. Given(c.groups, {}) \in SUBSET Groups
      BY <2>2 DEF ChangeRows, Given
    <3>2. c.playlist = None \/ (c.playlist \in Playlists /\ LivePlaylist(c.playlist))
      BY <2>1, <2>2 DEF PatchSchedule, ChangeRows
    <3>3. LiveGroups(Given(c.groups, {}))
      BY <2>1 DEF PatchSchedule
    <3> QED
      BY <1>1, <3>1, <3>2, <3>3, LiveIsUsed
  <2>5. BodyKnown(body) /\ ChecksHold(body)
    BY <2>4 DEF BodyKnown, ChecksHold
  <2> QED
    BY <2>3, <2>5 DEF Arrived
<1>7. CASE \E s \in Schedules : DeleteSchedule(r, s)
  <2>1. PICK s \in Schedules : DeleteSchedule(r, s)
    BY <1>7
  <2> DEFINE body == [op |-> "deleteSchedule", schedule |-> s]
  <2>2. Receive(r, body) /\ body \in Bodies
    BY <2>1 DEF DeleteSchedule, Bodies, AirtimeBodies
  <2>3. BodyKnown(body) /\ ChecksHold(body)
    BY DEF BodyKnown, ChecksHold
  <2> QED
    BY <2>2, <2>3 DEF Arrived
<1>8. CASE \E p \in Playlists \cup {None}, m \in Media \cup {None}, b \in BOOLEAN,
             ds \in SUBSET Devices, gs \in SUBSET Groups : StartEmergency(r, p, m, b, ds, gs)
  <2>1. PICK p \in Playlists \cup {None}, m \in Media \cup {None}, b \in BOOLEAN,
             ds \in SUBSET Devices, gs \in SUBSET Groups : StartEmergency(r, p, m, b, ds, gs)
    BY <1>8
  <2> DEFINE row == [active |-> TRUE, playlist |-> p, media |-> m, all |-> b, devices |-> ds, groups |-> gs]
             body == [op |-> "startEmergency", row |-> row]
  <2>2. /\ Receive(r, body) /\ (p = None) # (m = None)
        /\ row \in OverrideRows /\ row.playlist = p /\ row.media = m /\ row.groups = gs
    BY <2>1 DEF StartEmergency, OverrideRows
  <2>3. p \notin Unused(db.playlists) /\ gs \cap Unused(db.groups) = {}
    <3>1. LiveGroups(gs) \/ gs = {}
      BY <2>1 DEF StartEmergency
    <3>2. p = None \/ (p \in Playlists /\ LivePlaylist(p))
      BY <2>1 DEF StartEmergency
    <3> QED
      BY <1>1, <2>1, <3>1, <3>2, LiveIsUsed
  <2> HIDE DEF row
  <2>4. body \in Bodies
    BY <2>2 DEF Bodies, AirtimeBodies
  <2>5. BodyKnown(body) /\ ChecksHold(body)
    BY <2>2, <2>3 DEF BodyKnown, ChecksHold
  <2> QED
    BY <2>2, <2>4, <2>5 DEF Arrived
<1>9. CASE \E n \in DOMAIN db.overrides : StopEmergency(r, n)
  <2>1. PICK n \in DOMAIN db.overrides : StopEmergency(r, n)
    BY <1>9
  <2> DEFINE body == [op |-> "stopEmergency", override |-> n, row |-> db.overrides[n]]
  <2>2. Receive(r, body)
    BY <2>1 DEF StopEmergency
  <2>3. n \in Nat /\ db.overrides[n] \in OverrideRows
    BY <1>1, Tables
  <2>4. body \in Bodies
    BY <2>3 DEF Bodies, AirtimeBodies
  <2>5. BodyKnown(body) /\ ChecksHold(body)
    BY DEF BodyKnown, ChecksHold
  <2> QED
    BY <2>2, <2>4, <2>5 DEF Arrived
<1>10. CASE \E d \in Devices : DeleteDevice(r, d)
  <2>1. PICK d \in Devices : DeleteDevice(r, d)
    BY <1>10
  <2> DEFINE body == [op |-> "deleteDevice", device |-> d]
  <2>2. Receive(r, body) /\ body \in Bodies
    BY <2>1 DEF DeleteDevice, Bodies, AirtimeBodies
  <2>3. BodyKnown(body) /\ ChecksHold(body)
    BY DEF BodyKnown, ChecksHold
  <2> QED
    BY <2>2, <2>3 DEF Arrived
<1>11. CASE \E d \in Devices, p \in Playlists \cup {None}, gs \in SUBSET Groups : PatchDevice(r, d, p, gs)
  <2>1. PICK d \in Devices, p \in Playlists \cup {None}, gs \in SUBSET Groups : PatchDevice(r, d, p, gs)
    BY <1>11
  <2> DEFINE body == [op |-> "patchDevice", device |-> d, default |-> p, groups |-> gs \cap Live(db.groups)]
  <2>2. Receive(r, body) /\ body \in Bodies
    BY <2>1 DEF PatchDevice, Bodies, AirtimeBodies
  <2>3. p \notin Unused(db.playlists) /\ p \in Live(db.playlists) \cup {None}
    BY <1>1, <2>1, LiveIsUsed DEF PatchDevice
  <2>4. BodyKnown(body) /\ ChecksHold(body)
    BY <2>3 DEF BodyKnown, ChecksHold
  <2> QED
    BY <2>2, <2>4 DEF Arrived
<1> QED
  BY <1>2, <1>3, <1>4, <1>5, <1>6, <1>7, <1>8, <1>9, <1>10, <1>11 DEF AirtimeRequests

-------------------------------------------------------------------------------
(* Types, what is known and what has been checked hold always.             *)

LEMMA CommitsAreSound ==
  ASSUME TypeOK, KnownInv, NEW r \in Requests, Commits(r)
  PROVE  Sound(r)
BY CreatePlaylistSound, ClonePlaylistSound, PatchPlaylistSound, PutItemsSound, DeletePlaylistSound,
   CreateRuleSound, PatchRuleSound, DeleteRuleSound, PutAssignmentsSound, CreateFolderSound,
   PatchFolderSound, DeleteFolderSound, PatchMediumSound, MoveMediaSound, DeleteMediaSound, ReprocessSound,
   CreateGroupSound, PatchGroupSound, MarkGroupSound, EmptyGroupSound, CreateScheduleSound,
   PatchScheduleSound, DeleteScheduleSound, StartEmergencySound, StopEmergencySound,
   PatchDeviceSound, DeleteDeviceSound
   DEF Commits

\* Every commit is one step of its handler, or one of the two that delete a group.
LEMMA CommitForms ==
  ASSUME NEW r \in Requests, Commits(r)
  PROVE  \/ \E op, data : Commit(r, op, data)
         \/ \E op, data, heard : CommitQuietly(r, op, data, heard)
         \/ MarkGroup(r) \/ EmptyGroup(r)
<1>1. CASE \/ \E p \in Playlists : CommitCreatePlaylist(r, p) \/ CommitClonePlaylist(r, p)
           \/ CommitPatchPlaylist(r) \/ CommitPutItems(r) \/ CommitDeletePlaylist(r)
  BY <1>1 DEF CommitCreatePlaylist, CommitClonePlaylist, CommitPatchPlaylist, CommitPutItems,
              CommitDeletePlaylist
<1>2. CASE \/ \E x \in Rules : CommitCreateRule(r, x)
           \/ CommitPatchRule(r) \/ CommitDeleteRule(r) \/ CommitPutAssignments(r)
  BY <1>2 DEF CommitCreateRule, CommitPatchRule, CommitDeleteRule, CommitPutAssignments
<1>3. CASE \/ \E f \in Folders : CommitCreateFolder(r, f)
           \/ CommitPatchFolder(r) \/ CommitDeleteFolder(r)
  BY <1>3 DEF CommitCreateFolder, CommitPatchFolder, CommitDeleteFolder
<1>4. CASE \/ CommitMovedMedium(r) \/ CommitKeptMedium(r)
           \/ CommitMoveMedia(r) \/ CommitDeleteMedia(r) \/ CommitReprocess(r)
  <2>1. CASE CommitMoveMedia(r) \/ CommitDeleteMedia(r)
    BY <2>1 DEF CommitMoveMedia, CommitDeleteMedia
  <2>3. CASE CommitMovedMedium(r)
    BY <2>3 DEF CommitMovedMedium
  <2>4. CASE CommitKeptMedium(r)
    <3> DEFINE heard == Patched(Body(r)) = db
    <3>1. CommitQuietly(r, "patchMedium", Patched(Body(r)), heard)
      BY <2>4 DEF CommitKeptMedium
    <3> HIDE DEF heard
    <3> QED
      BY <3>1
  <2>2. CASE CommitReprocess(r)
    <3> DEFINE data == [db EXCEPT !.media[Body(r).medium].state = IF @ = "gone" THEN @ ELSE "pending"]
    <3>1. CommitQuietly(r, "reprocess", data, FALSE)
      BY <2>2 DEF CommitReprocess
    <3> HIDE DEF data
    <3> QED
      BY <3>1
  <2> QED
    BY <1>4, <2>1, <2>2, <2>3, <2>4
<1>5. CASE (\E g \in Groups : CommitCreateGroup(r, g)) \/ CommitPatchGroup(r) \/ MarkGroup(r) \/ EmptyGroup(r)
  BY <1>5 DEF CommitCreateGroup, CommitPatchGroup
<1>6. CASE \/ \E s \in Schedules : CommitCreateSchedule(r, s)
           \/ CommitPatchSchedule(r) \/ CommitDeleteSchedule(r)
  BY <1>6 DEF CommitCreateSchedule, CommitPatchSchedule, CommitDeleteSchedule
<1>7. CASE \/ CommitStartEmergency(r) \/ CommitStopEmergency(r)
           \/ CommitPatchDevice(r) \/ CommitDeleteDevice(r)
  BY <1>7 DEF CommitStartEmergency, CommitStopEmergency, CommitPatchDevice, CommitDeleteDevice
<1> QED
  BY <1>1, <1>2, <1>3, <1>4, <1>5, <1>6, <1>7 DEF Commits

\* What a commit does to everything but the rows.
Steps(r, stage) ==
  /\ stage \in {"half", "publish", "over"}
  /\ Goto(r, stage)
  /\ request[r].stage = "checked" \/ (request[r].stage = "half" /\ Body(r).op = "deleteGroup")
  /\ overlap' = (overlap \/ \E s \in Requests \ {r} : request[s].stage \in {"checked", "half"})
  /\ UNCHANGED <<ops, owed, build, copy>>
  /\ silent' \in {silent, Devices}

LEMMA CommitsMove ==
  ASSUME NEW r \in Requests, Commits(r)
  PROVE  \E stage : Steps(r, stage)
<1>1. ASSUME NEW op, NEW data, Commit(r, op, data) PROVE Steps(r, "publish")
  BY <1>1 DEF Commit, Stage, Write, Steps
<1>2. ASSUME NEW op, NEW data, NEW heard, CommitQuietly(r, op, data, heard) PROVE Steps(r, "over")
  BY <1>2 DEF CommitQuietly, Stage, Write, Steps
<1>3. ASSUME MarkGroup(r) PROVE Steps(r, "half")
  BY <1>3 DEF MarkGroup, Stage, Write, Steps
<1>4. ASSUME EmptyGroup(r) PROVE Steps(r, "publish")
  BY <1>4 DEF EmptyGroup, Stage, Write, Steps, Body
<1> QED
  BY <1>1, <1>2, <1>3, <1>4, CommitForms

\* A request that goes on keeps its body, and the others stay where they are.
LEMMA GoesOn ==
  ASSUME TypeOK, NEW r \in Requests, request[r].stage # "idle",
         NEW stage \in {"half", "publish", "over"}, Goto(r, stage)
  PROVE  /\ request' \in [Requests -> {Idle} \cup [stage : {"checked", "half", "publish", "over"}, body : Bodies]]
         /\ request'[r].stage = stage /\ Body(r)' = Body(r)
         /\ \A s \in Requests \ {r} : request'[s] = request[s] /\ Body(s)' = Body(s)
<1>1. /\ request \in [Requests -> {Idle} \cup [stage : {"checked", "half", "publish", "over"}, body : Bodies]]
      /\ request[r] \in [stage : {"checked", "half", "publish", "over"}, body : Bodies]
  BY BodyIsTyped DEF TypeOK
<1>2. PICK new : new = [request[r] EXCEPT !.stage = stage]
  OBVIOUS
<1>3. /\ new \in [stage : {"checked", "half", "publish", "over"}, body : Bodies]
      /\ new.stage = stage /\ new.body = request[r].body
  BY <1>1, <1>2
<1>4. request' = [request EXCEPT ![r] = new]
  BY <1>2 DEF Goto
<1>5. \A s \in Requests : request'[s] = IF s = r THEN new ELSE request[s]
  BY <1>1, <1>4
<1> QED
  BY <1>1, <1>3, <1>4, <1>5 DEF Body

\* What the checks have seen stays known as ids come into use.
LEMMA BodyStaysKnown ==
  ASSUME Grown(db, db'), NEW r, Body(r)' = Body(r), BodyKnown(Body(r))
  PROVE  BodyKnown(Body(r))'
<1>1. PICK b : b = Body(r)
  OBVIOUS
<1>2. BodyKnown(b)
  BY <1>1
<1>3. BodyKnown(b)'
  BY <1>2 DEF Grown, BodyKnown, EntriesKnown
<1> QED
  BY <1>1, <1>3 DEF BodyKnown

LEMMA BuildStaysKnown ==
  ASSUME Grown(db, db'), NEW d, build'[d] = build[d], BuildKnown(build[d])
  PROVE  BuildKnown(build[d])'
BY DEF Grown, BuildKnown, EntriesKnown, WantedLists

LEMMA SameRowsGrown == Grown(db, db)
BY DEF Grown

\* A commit.
LEMMA CommitKeeps ==
  ASSUME TypeOK, KnownInv, NEW r \in Requests, Commits(r)
  PROVE  TypeOK' /\ KnownInv' /\ (PreviewInv => PreviewInv')
<1>1. PICK stage : Steps(r, stage)
  BY CommitsMove
<1>2. Sound(r)
  BY CommitsAreSound
<1>3. /\ request' \in [Requests -> {Idle} \cup [stage : {"checked", "half", "publish", "over"}, body : Bodies]]
      /\ request'[r].stage = stage /\ Body(r)' = Body(r)
      /\ \A s \in Requests \ {r} : request'[s] = request[s] /\ Body(s)' = Body(s)
  BY <1>1, GoesOn DEF Steps
<1>4. TypeOK'
  BY <1>1, <1>2, <1>3 DEF TypeOK, Steps, Sound
<1>5. \A s \in Requests : request'[s].stage # "idle" => BodyKnown(Body(s))'
  <2> SUFFICES ASSUME NEW s \in Requests, request'[s].stage # "idle" PROVE BodyKnown(Body(s))'
    OBVIOUS
  <2>1. request[s].stage # "idle" /\ Body(s)' = Body(s)
    BY <1>1, <1>3 DEF Steps
  <2> QED
    BY <1>2, <2>1, BodyStaysKnown DEF KnownInv, Sound
<1>6. \A d \in Devices : BuildKnown(build[d])'
  BY <1>1, <1>2, BuildStaysKnown DEF KnownInv, Sound, Steps
<1>7. KnownInv'
  BY <1>2, <1>5, <1>6 DEF KnownInv, Sound
<1>8. ASSUME PreviewInv, ~overlap' PROVE PlaylistsLive(db') /\ \A s \in Requests : request'[s].stage # "checked"
  <2>1. ~overlap /\ \A s \in Requests \ {r} : request[s].stage \notin {"checked", "half"}
    BY <1>1, <1>8 DEF Steps
  <2>2. PlaylistsLive(db) /\ ChecksHold(Body(r))
    BY <1>1, <1>8, <2>1 DEF PreviewInv, Steps, ChecksHold
  <2> QED
    BY <1>1, <1>2, <1>3, <2>1, <2>2 DEF Sound, Steps
<1>9. PreviewInv => PreviewInv'
  BY <1>8 DEF PreviewInv
<1> QED
  BY <1>4, <1>7, <1>9

\* A request that arrives.
LEMMA ArrivalKeeps ==
  ASSUME TypeOK, KnownInv, NEW r \in Requests, Arrived(r)
  PROVE  TypeOK' /\ KnownInv' /\ (PreviewInv => PreviewInv')
<1>1. PICK body \in Bodies : Receive(r, body) /\ BodyKnown(body) /\ ChecksHold(body)
  BY DEF Arrived
<1>2. /\ request' = [request EXCEPT ![r] = [stage |-> "checked", body |-> body]]
      /\ UNCHANGED <<db, ops, owed, build, copy, silent, overlap>>
  BY <1>1 DEF Receive
<1>3. PICK new : new = [stage |-> "checked", body |-> body]
  OBVIOUS
<1>4. /\ new \in [stage : {"checked", "half", "publish", "over"}, body : Bodies]
      /\ new.stage = "checked" /\ new.body = body
  BY <1>3
<1>5. request \in [Requests -> {Idle} \cup [stage : {"checked", "half", "publish", "over"}, body : Bodies]]
  BY DEF TypeOK
<1>6. \A s \in Requests : request'[s] = IF s = r THEN new ELSE request[s]
  BY <1>2, <1>3, <1>5
<1>7. request' \in [Requests -> {Idle} \cup [stage : {"checked", "half", "publish", "over"}, body : Bodies]]
  BY <1>2, <1>3, <1>4, <1>5
<1>8. TypeOK'
  BY <1>2, <1>7 DEF TypeOK
<1>9. \A s \in Requests : Body(s)' = IF s = r THEN body ELSE Body(s)
  BY <1>4, <1>6 DEF Body
<1>10. \A s \in Requests : request'[s].stage # "idle" => BodyKnown(Body(s))'
  <2> SUFFICES ASSUME NEW s \in Requests, request'[s].stage # "idle" PROVE BodyKnown(Body(s))'
    OBVIOUS
  <2>1. PICK b : b = Body(s)'
    OBVIOUS
  <2>2. BodyKnown(b)
    BY <1>1, <1>6, <1>9, <2>1 DEF KnownInv
  <2>3. BodyKnown(b)'
    BY <1>2, <2>2 DEF BodyKnown, EntriesKnown
  <2> QED
    BY <2>1, <2>3 DEF BodyKnown
<1>11. KnownInv'
  BY <1>2, <1>10 DEF KnownInv, BuildKnown, EntriesKnown
<1>12. ASSUME PreviewInv, ~overlap PROVE \A s \in Requests : request'[s].stage = "checked" => ChecksHold(Body(s))'
  <2> SUFFICES ASSUME NEW s \in Requests, request'[s].stage = "checked" PROVE ChecksHold(Body(s))'
    OBVIOUS
  <2>1. PICK b : b = Body(s)'
    OBVIOUS
  <2>2. ChecksHold(b)
    BY <1>1, <1>6, <1>9, <1>12, <2>1 DEF PreviewInv
  <2>3. ChecksHold(b)'
    BY <1>2, <2>2 DEF ChecksHold, InUse
  <2> QED
    BY <2>1, <2>3 DEF ChecksHold
<1>13. PreviewInv => PreviewInv'
  BY <1>2, <1>12 DEF PreviewInv
<1> QED
  BY <1>8, <1>11, <1>13

LEMMA PublishKeeps ==
  ASSUME TypeOK, KnownInv, NEW r \in Requests, Publish(r)
  PROVE  TypeOK' /\ KnownInv' /\ (PreviewInv => PreviewInv')
<1>1. /\ request[r].stage = "publish" /\ Goto(r, "over")
      /\ UNCHANGED <<db, ops, build, copy, silent, overlap>>
      /\ owed' = owed \cup Audience(Body(r))
  BY DEF Publish
<1>2. /\ request' \in [Requests -> {Idle} \cup [stage : {"checked", "half", "publish", "over"}, body : Bodies]]
      /\ request'[r].stage = "over" /\ Body(r)' = Body(r)
      /\ \A s \in Requests \ {r} : request'[s] = request[s] /\ Body(s)' = Body(s)
  BY <1>1, GoesOn
<1>3. Audience(Body(r)) \subseteq Devices
  <2>1. Body(r) \in Bodies /\ db.members \in SUBSET (Groups \X Devices)
    BY <1>1, BodyIsTyped, Tables DEF TypeOK
  <2>2. /\ Body(r).op = "patchDevice" => Body(r).device \in Devices
        /\ Body(r).op \in {"startEmergency", "stopEmergency"} => Body(r).row.devices \subseteq Devices
    BY <2>1, AirtimeBodyShape DEF OverrideRows
  <2> QED
    BY <2>1, <2>2 DEF Audience, Affected
<1>4. TypeOK'
  BY <1>1, <1>2, <1>3 DEF TypeOK
<1>5. \A s \in Requests : request'[s].stage # "idle" => BodyKnown(Body(s))'
  <2> SUFFICES ASSUME NEW s \in Requests, request'[s].stage # "idle" PROVE BodyKnown(Body(s))'
    OBVIOUS
  <2>1. request[s].stage # "idle" /\ Body(s)' = Body(s)
    BY <1>1, <1>2
  <2> QED
    BY <1>1, <2>1, BodyStaysKnown, SameRowsGrown DEF KnownInv
<1>6. KnownInv'
  BY <1>1, <1>5 DEF KnownInv, BuildKnown, EntriesKnown
<1>7. ASSUME PreviewInv, ~overlap PROVE \A s \in Requests : request'[s].stage = "checked" => ChecksHold(Body(s))'
  <2> SUFFICES ASSUME NEW s \in Requests, request'[s].stage = "checked" PROVE ChecksHold(Body(s))'
    OBVIOUS
  <2>1. Body(s)' = Body(s) /\ ChecksHold(Body(s))
    BY <1>1, <1>2, <1>7 DEF PreviewInv
  <2> QED
    BY <1>1, <2>1 DEF ChecksHold, InUse
<1>8. PreviewInv => PreviewInv'
  BY <1>1, <1>7 DEF PreviewInv
<1> QED
  BY <1>4, <1>6, <1>8

\* The worker finishes a medium.
LEMMA FinishKeeps ==
  ASSUME TypeOK, KnownInv, NEW m \in Media, FinishProcessing(m)
  PROVE  TypeOK' /\ KnownInv' /\ (PreviewInv => PreviewInv')
<1>1. /\ UNCHANGED <<ops, request, build, copy, silent, overlap>> /\ owed' = Devices
      /\ db' = [db EXCEPT !.media[m].state = "ready"]
  BY DEF FinishProcessing
<1>2. /\ db' \in Database /\ RowsKnown(db') /\ Grown(db, db')
      /\ PlaylistsLive(db) => PlaylistsLive(db')
  BY FinishSound
<1>3. TypeOK'
  BY <1>1, <1>2 DEF TypeOK
<1>4. \A s \in Requests : Body(s)' = Body(s)
  BY <1>1 DEF Body
<1>5. KnownInv'
  BY <1>1, <1>2, <1>4, BodyStaysKnown, BuildStaysKnown DEF KnownInv
<1>6. db'.playlists = db.playlists /\ db'.schedules = db.schedules /\ db'.devices = db.devices
  BY <1>1 DEF TypeOK, Database
<1>7. ASSUME PreviewInv, ~overlap PROVE \A s \in Requests : request[s].stage = "checked" => ChecksHold(Body(s))'
  <2> SUFFICES ASSUME NEW s \in Requests, request[s].stage = "checked" PROVE ChecksHold(Body(s))'
    OBVIOUS
  <2>1. Body(s)' = Body(s) /\ ChecksHold(Body(s))
    BY <1>4, <1>7 DEF PreviewInv
  <2> QED
    BY <1>6, <2>1 DEF ChecksHold, InUse
<1>8. PreviewInv => PreviewInv'
  BY <1>1, <1>2, <1>7 DEF PreviewInv
<1> QED
  BY <1>3, <1>5, <1>8

\* A build that goes on knows what is in use.
LEMMA BuildGoesOn ==
  ASSUME TypeOK, KnownInv, NEW d \in Devices, NEW stage, NEW next, BuildStep(d, stage, next),
         next.stage \in {"none", "device", "schedules", "plan", "lists", "folders", "pool"}, BuildKnown(next),
         DOMAIN copy' = Devices, owed' \subseteq owed, silent' \subseteq silent
  PROVE  TypeOK' /\ KnownInv' /\ (PreviewInv => PreviewInv')
<1>1. /\ build' = [build EXCEPT ![d] = next] /\ DOMAIN build = Devices
      /\ UNCHANGED <<db, ops, request, overlap>>
  BY DEF BuildStep, TypeOK
<1>2. DOMAIN build' = Devices /\ \A e \in Devices : build'[e] = IF e = d THEN next ELSE build[e]
  BY <1>1
<1>3. TypeOK'
  BY <1>1, <1>2 DEF TypeOK
<1>4. \A e \in Devices : BuildKnown(build'[e])
  BY <1>2 DEF KnownInv
<1>5. \A e \in Devices : BuildKnown(build[e])'
  <2> SUFFICES ASSUME NEW e \in Devices PROVE BuildKnown(build[e])'
    OBVIOUS
  <2>1. PICK b : b = build'[e]
    OBVIOUS
  <2>2. BuildKnown(b)
    BY <1>4, <2>1
  <2>3. BuildKnown(b)'
    BY <1>1, <2>2 DEF BuildKnown, EntriesKnown
  <2> QED
    BY <2>1, <2>3 DEF BuildKnown
<1>6. \A s \in Requests : Body(s)' = Body(s)
  BY <1>1 DEF Body
<1>7. \A s \in Requests : request'[s].stage # "idle" => BodyKnown(Body(s))'
  BY <1>1, <1>6, BodyStaysKnown, SameRowsGrown DEF KnownInv
<1>8. KnownInv'
  BY <1>1, <1>5, <1>7 DEF KnownInv
<1>9. ASSUME PreviewInv, ~overlap PROVE \A s \in Requests : request[s].stage = "checked" => ChecksHold(Body(s))'
  <2> SUFFICES ASSUME NEW s \in Requests, request[s].stage = "checked" PROVE ChecksHold(Body(s))'
    OBVIOUS
  <2>1. Body(s)' = Body(s) /\ ChecksHold(Body(s))
    BY <1>6, <1>9 DEF PreviewInv
  <2> QED
    BY <1>1, <2>1 DEF ChecksHold, InUse
<1>10. PreviewInv => PreviewInv'
  BY <1>1, <1>9 DEF PreviewInv
<1> QED
  BY <1>3, <1>8, <1>10

\* The playlists a plan names, and the entries of those that are read.
LEMMA RowKnown ==
  ASSUME RowsKnown(db), NEW d \in Devices
  PROVE  DeviceRow(db, d).default \notin Unused(db.playlists)
BY DEF RowsKnown, PlaylistsKnown, DeviceRow

LEMMA OverrideIsOne ==
  ASSUME NEW data, NEW d, NEW gs
  PROVE  OverrideFor(data, d, gs) = None
           \/ \E n \in DOMAIN data.overrides : OverrideFor(data, d, gs) = data.overrides[n]
<1> DEFINE active == {n \in DOMAIN data.overrides :
                        LET o == data.overrides[n] IN o.active /\ (o.all \/ Targets(o, d, gs))}
           last == {n \in active : \A k \in active : k <= n}
<1>1. OverrideFor(data, d, gs) = IF last = {} THEN None ELSE data.overrides[CHOOSE n \in last : TRUE]
  BY DEF OverrideFor
<1>2. last \subseteq DOMAIN data.overrides
  OBVIOUS
<1> HIDE DEF last
<1>3. last # {} => (CHOOSE n \in last : TRUE) \in last
  OBVIOUS
<1> QED
  BY <1>1, <1>2, <1>3

LEMMA OverrideKnown ==
  ASSUME RowsKnown(db), NEW d, NEW gs, OverrideFor(db, d, gs) # None
  PROVE  OverrideFor(db, d, gs).playlist \notin Unused(db.playlists)
BY OverrideIsOne DEF RowsKnown, PlaylistsKnown

LEMMA TimetableKnown ==
  ASSUME RowsKnown(db), NEW d, NEW row
  PROVE  {Timetable(db, d, row)[s] : s \in DOMAIN Timetable(db, d, row)} \cap Unused(db.playlists) = {}
BY DEF Timetable, SchedulesFor, RowsKnown, PlaylistsKnown

LEMMA WantedKnown ==
  ASSUME db \in Database, RowsKnown(db), NEW d, NEW row, row.default \notin Unused(db.playlists)
  PROVE  WantedLists(row, Plan(db, d, row)) \cap Unused(db.playlists) = {}
<1> DEFINE plan == Plan(db, d, row)
           ss == SchedulesFor(db, d, row.groups)
<1>1. /\ plan.schedules = [s \in ss |-> db.schedules[s].playlist]
      /\ plan.override = OverrideFor(db, d, row.groups)
  BY DEF Plan, Timetable
<1>2. \A s \in ss : db.schedules[s].playlist \notin Unused(db.playlists)
  BY DEF SchedulesFor, RowsKnown, PlaylistsKnown
<1>3. plan.override # None => plan.override.playlist \notin Unused(db.playlists)
  BY <1>1, OverrideIsOne DEF RowsKnown, PlaylistsKnown
<1> HIDE DEF plan, ss
<1>4. \A p \in WantedLists(row, plan) : p \notin Unused(db.playlists)
  BY <1>1, <1>2, <1>3 DEF WantedLists
<1> QED
  BY <1>4 DEF plan

LEMMA ListsKnown ==
  ASSUME db \in Database, RowsKnown(db), NEW row, NEW plan
  PROVE  \A p \in DOMAIN ListRows(db, row, plan).lists :
           LET l == ListRows(db, row, plan).lists[p]
           IN /\ p \in Live(db.playlists) \cap WantedLists(row, plan)
              /\ EntriesKnown(db, l.items)
              /\ \A x \in DOMAIN l.rules : EntriesKnown(db, l.rules[x])
<1>1. /\ DOMAIN db.playlists = Playlists /\ \A p \in Playlists : DOMAIN db.rules[p] = Rules
  BY Tables
<1> QED
  BY <1>1 DEF ListRows, RowsKnown, FoldersKnown, Live

BuildSteps(d) ==
  \/ ReadDevice(d) \/ ReadSchedules(d) \/ ReadOverride(d) \/ ReadLists(d)
  \/ ReadFolders(d) \/ ReadPool(d) \/ ReadOwn(d)

LEMMA BuildKeeps ==
  ASSUME TypeOK, KnownInv, NEW d \in Devices, BuildSteps(d)
  PROVE  TypeOK' /\ KnownInv' /\ (PreviewInv => PreviewInv')
<1>1. db \in Database /\ RowsKnown(db) /\ BuildKnown(build[d]) /\ DOMAIN copy = Devices
  BY DEF TypeOK, KnownInv
<1>2. CASE ReadDevice(d)
  <2> DEFINE row == DeviceRow(db, d)
             next == [stage |-> "device", row |-> row]
  <2>1. row.default \notin Unused(db.playlists)
    BY <1>1, RowKnown
  <2> HIDE DEF row
  <2>2. next.stage = "device" /\ BuildKnown(next)
    BY <2>1 DEF BuildKnown
  <2>3. BuildStep(d, "none", next) /\ copy' = copy /\ owed' \subseteq owed /\ silent' \subseteq silent
    BY <1>2 DEF ReadDevice, row
  <2> HIDE DEF next
  <2> QED
    BY <1>1, <2>2, <2>3, BuildGoesOn
<1>3. CASE ReadSchedules(d)
  <2> DEFINE row == build[d].row
             schedules == Timetable(db, d, row)
             next == [stage |-> "schedules", row |-> row, schedules |-> schedules]
  <2>1. build[d].stage = "device" /\ BuildStep(d, "device", next) /\ UNCHANGED <<owed, silent, copy>>
    BY <1>3 DEF ReadSchedules
  <2>2. /\ row.default \notin Unused(db.playlists)
        /\ {schedules[s] : s \in DOMAIN schedules} \cap Unused(db.playlists) = {}
    BY <1>1, <2>1, TimetableKnown DEF BuildKnown
  <2> HIDE DEF row, schedules
  <2>3. next.stage = "schedules" /\ BuildKnown(next)
    BY <2>2 DEF BuildKnown
  <2> HIDE DEF next
  <2> QED
    BY <1>1, <2>1, <2>3, BuildGoesOn
<1>7. CASE ReadOverride(d)
  <2> DEFINE row == build[d].row
             o == OverrideFor(db, d, row.groups)
             plan == [schedules |-> build[d].schedules, override |-> o]
             next == [stage |-> "plan", row |-> row, plan |-> plan]
  <2>1. build[d].stage = "schedules" /\ BuildStep(d, "schedules", next) /\ UNCHANGED <<owed, silent, copy>>
    BY <1>7 DEF ReadOverride
  <2>2. o # None => o.playlist \notin Unused(db.playlists)
    BY <1>1, OverrideKnown
  <2>3. WantedLists(row, plan) \cap Unused(db.playlists) = {}
    BY <1>1, <2>1, <2>2 DEF BuildKnown, WantedLists
  <2> HIDE DEF row, plan
  <2>4. next.stage = "plan" /\ BuildKnown(next)
    BY <2>3 DEF BuildKnown
  <2> HIDE DEF next
  <2> QED
    BY <1>1, <2>1, <2>4, BuildGoesOn
<1>4. CASE ReadLists(d)
  <2> DEFINE row == build[d].row
             plan == build[d].plan
             lists == ListRows(db, row, plan)
             next == [stage |-> "lists", row |-> row, plan |-> plan, lists |-> lists]
  <2>1. build[d].stage = "plan" /\ BuildStep(d, "plan", next) /\ UNCHANGED <<owed, silent, copy>>
    BY <1>4 DEF ReadLists
  <2>2. \A p \in DOMAIN lists.lists :
          LET l == lists.lists[p]
          IN EntriesKnown(db, l.items) /\ \A x \in DOMAIN l.rules : EntriesKnown(db, l.rules[x])
    BY <1>1, ListsKnown
  <2> HIDE DEF row, plan, lists
  <2>3. next.stage = "lists" /\ BuildKnown(next)
    BY <2>2 DEF BuildKnown
  <2> HIDE DEF next
  <2> QED
    BY <1>1, <2>1, <2>3, BuildGoesOn
<1>5. CASE ReadFolders(d)
  <2> DEFINE b == build[d]
             next == [stage |-> "folders", row |-> b.row, plan |-> b.plan, lists |-> b.lists,
                      folders |-> db.folders]
  <2>1. BuildStep(d, "lists", next) /\ UNCHANGED <<owed, silent, copy>>
    BY <1>5 DEF ReadFolders
  <2>2. next.stage = "folders" /\ BuildKnown(next)
    BY DEF BuildKnown
  <2> HIDE DEF next
  <2> QED
    BY <1>1, <2>1, <2>2, BuildGoesOn
<1>6. CASE ReadPool(d)
  <2> DEFINE b == build[d]
             next == [stage |-> "pool", row |-> b.row, plan |-> b.plan, lists |-> b.lists,
                      folders |-> b.folders, pool |-> db.media]
  <2>1. BuildStep(d, "folders", next) /\ UNCHANGED <<owed, silent, copy>>
    BY <1>6 DEF ReadPool
  <2>2. next.stage = "pool" /\ BuildKnown(next)
    BY DEF BuildKnown
  <2> HIDE DEF next
  <2> QED
    BY <1>1, <2>1, <2>2, BuildGoesOn
<1>8. CASE ReadOwn(d)
  <2>1. BuildStep(d, "pool", NoBuild) /\ UNCHANGED <<owed, silent>> /\ DOMAIN copy' = Devices
    BY <1>1, <1>8 DEF ReadOwn
  <2>2. NoBuild.stage = "none" /\ BuildKnown(NoBuild)
    BY DEF NoBuild, BuildKnown
  <2> HIDE DEF NoBuild
  <2> QED
    BY <2>1, <2>2, BuildGoesOn
<1> QED
  BY <1>2, <1>3, <1>4, <1>5, <1>6, <1>7, <1>8 DEF BuildSteps

LEMMA InitIsSound ==
  ASSUME Init
  PROVE  TypeOK /\ KnownInv /\ PreviewInv
<1>1. PICK s \in Scenarios : db = s.db /\ ops = s.ops
  BY DEF Init
<1>2. db \in Database /\ RowsKnown(db) /\ PlaylistsLive(db)
  BY <1>1, ScenarioAssumption
<1>3. /\ request = [r \in Requests |-> Idle] /\ owed = {} /\ silent = {} /\ overlap = FALSE
      /\ build = [d \in Devices |-> NoBuild] /\ DOMAIN copy = Devices
  BY DEF Init
<1>4. /\ \A r \in Requests : request[r] = Idle /\ Idle.stage = "idle"
      /\ \A d \in Devices : build[d] = NoBuild /\ NoBuild.stage = "none"
  BY <1>3 DEF Idle, NoBuild
<1>5. TypeOK
  BY <1>2, <1>3, <1>4 DEF TypeOK
<1>6. KnownInv
  BY <1>2, <1>4 DEF KnownInv, BuildKnown
<1>7. PreviewInv
  BY <1>2, <1>4 DEF PreviewInv
<1> QED
  BY <1>5, <1>6, <1>7

LEMMA StepCases ==
  ASSUME TypeOK, KnownInv, Next
  PROVE  \/ \E r \in Requests : Arrived(r)
         \/ \E r \in Requests : Commits(r)
         \/ \E r \in Requests : Publish(r)
         \/ \E m \in Media : FinishProcessing(m)
         \/ \E d \in Devices : BuildSteps(d)
BY PlaylistArrivals, MediaArrivals, AirtimeArrivals DEF Next, BuildSteps

LEMMA StutterKeeps ==
  ASSUME TypeOK, KnownInv, UNCHANGED vars
  PROVE  TypeOK' /\ KnownInv' /\ (PreviewInv => PreviewInv')
<1>1. UNCHANGED <<db, ops, request, owed, build, copy, silent, overlap>>
  BY DEF vars
<1>2. \A s \in Requests : Body(s)' = Body(s)
  BY <1>1 DEF Body
<1>3. TypeOK'
  BY <1>1 DEF TypeOK
<1>4. KnownInv'
  BY <1>1, <1>2, BodyStaysKnown, BuildStaysKnown, SameRowsGrown DEF KnownInv
<1>5. PreviewInv => PreviewInv'
  <2>1. ASSUME PreviewInv, ~overlap PROVE \A s \in Requests : request[s].stage = "checked" => ChecksHold(Body(s))'
    BY <1>1, <1>2, <2>1 DEF PreviewInv, ChecksHold, InUse
  <2> QED
    BY <1>1, <2>1 DEF PreviewInv
<1> QED
  BY <1>3, <1>4, <1>5

\* The rows, the requests and the builds stay typed, and nothing refers to an id not in use.
THEOREM RowsStaySound == Spec => [](TypeOK /\ KnownInv)
<1>1. Init => TypeOK /\ KnownInv
  BY InitIsSound
<1>2. TypeOK /\ KnownInv /\ [Next]_vars => (TypeOK /\ KnownInv)'
  BY StepCases, ArrivalKeeps, CommitKeeps, PublishKeeps, FinishKeeps, BuildKeeps, StutterKeeps
<1> QED
  BY <1>1, <1>2, PTL DEF Spec

\* What the requests' checks ensure holds until one commits between another's checks and its commit.
THEOREM ChecksStay == Spec => []PreviewInv
<1>1. Init => PreviewInv
  BY InitIsSound
<1>2. TypeOK /\ KnownInv /\ PreviewInv /\ [Next]_vars => PreviewInv'
  BY StepCases, ArrivalKeeps, CommitKeeps, PublishKeeps, FinishKeeps, BuildKeeps, StutterKeeps
<1> QED
  BY <1>1, <1>2, RowsStaySound, PTL DEF Spec

\* A manifest stands on its own, whatever its queries have seen of the edits between them.
THEOREM ManifestsClosed == Spec => []ManifestClosed
<1> DEFINE Stands(c) == /\ {c.default, c.emergency.playlist} \subseteq DOMAIN c.lists \cup {None}
                        /\ {c.schedules[s] : s \in DOMAIN c.schedules} \subseteq DOMAIN c.lists
                        /\ c.media = Played(c.lists) \cup ({c.emergency.media} \ {None})
<1>1. ManifestClosed <=> \A d \in Devices : Stands(copy[d])
  BY DEF ManifestClosed
<1>2. \A row, plan, rows, fs, pool, own :
        DOMAIN own = Media => Stands(Assemble(row, plan, rows, fs, pool, own))
  BY AssembleClosed
<1>3. ManifestClosed' <=> \A d \in Devices : Stands(copy'[d])
  BY DEF ManifestClosed
<1> HIDE DEF Stands
<1>4. Init => ManifestClosed
  <2> SUFFICES ASSUME Init PROVE ManifestClosed
    OBVIOUS
  <2>1. DOMAIN db.media = Media
    BY InitIsSound, Tables DEF TypeOK
  <2>2. \A d \in Devices : copy[d] = Manifest(db, d)
    BY DEF Init
  <2> QED
    BY <1>1, <1>2, <2>1, <2>2 DEF Manifest
<1>5. TypeOK /\ KnownInv /\ ManifestClosed /\ [Next]_vars => ManifestClosed'
  <2> SUFFICES ASSUME TypeOK, ManifestClosed, [Next]_vars, KnownInv PROVE ManifestClosed'
    OBVIOUS
  <2>1. ASSUME NEW d \in Devices, ReadOwn(d) PROVE ManifestClosed'
    <3>1. DOMAIN db.media = Media /\ DOMAIN copy = Devices
      BY Tables DEF TypeOK
    <3>2. copy' = [copy EXCEPT ![d] = Assemble(build[d].row, build[d].plan, build[d].lists,
                                               build[d].folders, build[d].pool, db.media)]
      BY <2>1 DEF ReadOwn
    <3> QED
      BY <1>1, <1>2, <1>3, <3>1, <3>2
  <2>2. ASSUME copy' = copy PROVE ManifestClosed'
    BY <1>1, <1>3, <2>2
  <2>3. copy' = copy \/ \E d \in Devices : ReadOwn(d)
    BY StepCases, CommitsMove
       DEF vars, Arrived, Receive, Steps, Publish, FinishProcessing, BuildSteps, ReadDevice,
           ReadSchedules, ReadOverride, ReadLists, ReadFolders, ReadPool
  <2> QED
    BY <2>1, <2>2, <2>3
<1> QED
  BY <1>4, <1>5, RowsStaySound, PTL DEF Spec

\* What the preview resolves and what the manifest has of it.
LEMMA PreviewIsRight ==
  ASSUME TypeOK, KnownInv, PreviewInv
  PROVE  PreviewAgrees
<1> SUFFICES ASSUME NEW d \in Live(db.devices), ~overlap,
                    NEW row, row = DeviceRow(db, d), NEW plan, plan = Plan(db, d, row),
                    NEW o, o = plan.override,
                    o = None \/ o.playlist \in Live(db.playlists) \/ o.media \in Playable(db.media)
             PROVE  Preview(d) = Shown(Manifest(db, d))
  BY DEF PreviewAgrees
<1>1. db \in Database /\ RowsKnown(db) /\ PlaylistsLive(db)
  BY DEF TypeOK, KnownInv, PreviewInv
<1>2. /\ DOMAIN db.playlists = Playlists /\ DOMAIN db.media = Media /\ DOMAIN db.devices = Devices
  BY <1>1, Tables
<1>3. Live(db.playlists) \subseteq Playlists /\ Playable(db.media) \subseteq Media
  BY <1>2 DEF Live, Playable
<1>l. PICK lists : lists = Live(db.playlists) \cap WantedLists(row, plan)
  OBVIOUS
<1>c. PICK c : c = Manifest(db, d)
  OBVIOUS
<1>4. /\ c.default = IF row.default \in lists THEN row.default ELSE None
      /\ c.schedules = [s \in {t \in DOMAIN plan.schedules : plan.schedules[t] \in lists} |->
                          plan.schedules[s]]
      /\ o = None => c.emergency = [active |-> FALSE, playlist |-> None, media |-> None]
      /\ o # None =>
           /\ c.emergency.active
           /\ c.emergency.playlist = IF o.playlist \in lists THEN o.playlist ELSE None
           /\ c.emergency.media \in {o.media, None}
           /\ o.media \in Playable(db.media) => c.emergency.media = o.media
  <2> DEFINE rows == ListRows(db, row, plan)
  <2>1. c = Assemble(row, plan, rows, db.folders, db.media, db.media)
    BY <1>c DEF Manifest
  <2>2. DOMAIN rows.lists = lists
    BY <1>l DEF ListRows
  <2> HIDE DEF rows
  <2> QED
    BY <2>1, <2>2 DEF Assemble, Kept
<1>5. CASE o # None
  <2>1. (o.playlist = None) # (o.media = None)
    BY <1>1, <1>5, OverrideIsOne DEF Plan, RowsKnown
  <2>2. o.playlist \in WantedLists(row, plan)
    BY <1>5 DEF WantedLists
  <2>3. c.emergency.playlist = o.playlist /\ c.emergency.media = o.media
    <3>1. CASE o.playlist \in Live(db.playlists)
      BY <1>3, <1>4, <1>5, <1>l, <2>1, <2>2, <3>1, LibraryAssumption
    <3>2. CASE o.media \in Playable(db.media)
      BY <1>3, <1>4, <1>5, <2>1, <3>2, LibraryAssumption
    <3> QED
      BY <1>5, <3>1, <3>2
  <2>4. Shown(c) = [playlist |-> o.playlist, media |-> o.media]
    BY <1>4, <1>5, <2>3 DEF Shown, Resolve
  <2>5. Preview(d) = [playlist |-> o.playlist, media |-> o.media]
    BY <1>5 DEF Preview, Resolve
  <2> QED
    BY <1>c, <2>4, <2>5
<1>6. CASE o = None
  <2>1. row.default \in lists \cup {None}
    BY <1>1, <1>2, <1>l DEF PlaylistsLive, DeviceRow, WantedLists, Live
  <2>2. \A s \in DOMAIN plan.schedules : plan.schedules[s] \in lists
    <3>1. plan.schedules = [s \in SchedulesFor(db, d, row.groups) |-> db.schedules[s].playlist]
      BY DEF Plan, Timetable
    <3> QED
      BY <1>1, <1>l, <3>1 DEF SchedulesFor, PlaylistsLive, WantedLists
  <2>3. plan.schedules = [s \in DOMAIN plan.schedules |-> plan.schedules[s]]
    BY DEF Plan, Timetable
  <2>4. {t \in DOMAIN plan.schedules : plan.schedules[t] \in lists} = DOMAIN plan.schedules
    BY <2>2
  <2>5. c.schedules = plan.schedules /\ c.default = row.default /\ ~c.emergency.active
    BY <1>4, <1>6, <2>1, <2>3, <2>4
  <2>6. Shown(c) = Resolve(plan.schedules, [active |-> FALSE], row.default)
    BY <2>5 DEF Shown, Resolve
  <2>7. Preview(d) = Resolve(plan.schedules, [active |-> FALSE], row.default)
    BY <1>6 DEF Preview
  <2> QED
    BY <1>c, <2>6, <2>7
<1> QED
  BY <1>5, <1>6

\* The dashboard's preview names what the screen shows.
THEOREM PreviewIsShown == Spec => []PreviewAgrees
<1>1. TypeOK /\ KnownInv /\ PreviewInv => PreviewAgrees
  BY PreviewIsRight
<1> QED
  BY <1>1, RowsStaySound, ChecksStay, PTL

-------------------------------------------------------------------------------
(* What edits leave as it is on a device that is not told of them.         *)

\* The manifest of a plan, the rest being read at once.
View(data, row, plan) ==
  Assemble(row, plan, ListRows(data, row, plan), data.folders, data.media, data.media)

LEMMA ViewOfRow ==
  ASSUME NEW data, NEW one, NEW other, NEW plan, one.default = other.default
  PROVE  View(data, one, plan) = View(data, other, plan)
<1>1. WantedLists(one, plan) = WantedLists(other, plan)
  BY DEF WantedLists
<1>2. ListRows(data, one, plan) = ListRows(data, other, plan)
  BY <1>1 DEF ListRows
<1> QED
  BY <1>2 DEF View, Assemble

Active(data, d, gs) ==
  {n \in DOMAIN data.overrides :
     LET o == data.overrides[n] IN o.active /\ (o.all \/ Targets(o, d, gs))}

LEMMA OverrideSame ==
  ASSUME NEW old, NEW new, NEW d, NEW gs, NEW hs, Active(new, d, hs) = Active(old, d, gs),
         \A n \in Active(old, d, gs) : new.overrides[n] = old.overrides[n]
  PROVE  OverrideFor(new, d, hs) = OverrideFor(old, d, gs)
<1> DEFINE active == Active(old, d, gs)
           last == {n \in active : \A k \in active : k <= n}
           x == CHOOSE n \in last : TRUE
<1>1. /\ OverrideFor(old, d, gs) = IF last = {} THEN None ELSE old.overrides[x]
      /\ OverrideFor(new, d, hs) = IF last = {} THEN None ELSE new.overrides[x]
  BY DEF OverrideFor, Active
<1>2. last # {} => x \in active
  BY DEF last
<1> HIDE DEF x, last
<1> QED
  BY <1>1, <1>2

LEMMA PlanSame ==
  ASSUME NEW old, NEW new, NEW d, NEW one, NEW other,
         new.schedules = old.schedules,
         SchedulesFor(new, d, other.groups) = SchedulesFor(old, d, one.groups),
         OverrideFor(new, d, other.groups) = OverrideFor(old, d, one.groups)
  PROVE  Plan(new, d, other) = Plan(old, d, one)
BY DEF Plan, Timetable

\* Device d is shown what it was, whichever queries its build has before it.
Unseen(d) ==
  /\ \A row : row.groups \subseteq DeviceRow(db, d).groups => Plan(db', d, row) = Plan(db, d, row)
  /\ DeviceRow(db', d).default = DeviceRow(db, d).default
  /\ DeviceRow(db, d).groups \subseteq DeviceRow(db', d).groups
  /\ Plan(db', d, DeviceRow(db', d)) = Plan(db, d, DeviceRow(db, d))
  /\ \A row, plan : WantedLists(row, plan) \cap Unused(db.playlists) = {}
                      => View(db', row, plan) = View(db, row, plan)
  /\ \A row, plan, rows :
       (\A p \in DOMAIN rows.lists :
          LET l == rows.lists[p]
          IN EntriesKnown(db, l.items) /\ \A x \in DOMAIN l.rules : EntriesKnown(db, l.rules[x]))
       => Assemble(row, plan, rows, db'.folders, db'.media, db'.media)
            = Assemble(row, plan, rows, db.folders, db.media, db.media)
  /\ db'.media = db.media

\* What is current of one device.
Current(d) ==
  /\ Upcoming(d) = Manifest(db, d)
  /\ build[d].stage \in {"device", "schedules"} => build[d].row.groups \subseteq DeviceRow(db, d).groups

LEMMA UnseenKeeps ==
  ASSUME TypeOK, KnownInv, NEW d \in Devices, Unseen(d), UNCHANGED <<build, copy>>, Current(d)
  PROVE  Current(d)'
<1> DEFINE old == DeviceRow(db, d)
           new == DeviceRow(db', d)
           plan == Plan(db, d, old)
           b == build[d]
<1>1. db \in Database /\ RowsKnown(db) /\ BuildKnown(b)
      /\ b.stage \in {"none", "device", "schedules", "plan", "lists", "folders", "pool"}
  BY DEF TypeOK, KnownInv
<1>2. Manifest(db', d) = Manifest(db, d)
  <2>1. Manifest(db, d) = View(db, old, plan) /\ Manifest(db', d) = View(db', new, Plan(db', d, new))
    BY DEF Manifest, View
  <2>2. Plan(db', d, new) = plan /\ new.default = old.default
    BY DEF Unseen
  <2>3. WantedLists(old, plan) \cap Unused(db.playlists) = {}
    BY <1>1, RowKnown, WantedKnown
  <2>4. View(db', new, plan) = View(db', old, plan)
    BY <2>2, ViewOfRow
  <2>5. View(db', old, plan) = View(db, old, plan)
    BY <2>3 DEF Unseen
  <2> QED
    BY <2>1, <2>2, <2>4, <2>5
<1>3. Upcoming(d)' = Upcoming(d)
  <2>1. CASE b.stage = "none"
    BY <2>1 DEF Upcoming
  <2>2. CASE b.stage = "device"
    <3>1. Plan(db', d, b.row) = Plan(db, d, b.row)
      BY <2>2 DEF Unseen, Current
    <3>2. WantedLists(b.row, Plan(db, d, b.row)) \cap Unused(db.playlists) = {}
      BY <1>1, <2>2, WantedKnown DEF BuildKnown
    <3>3. View(db', b.row, Plan(db, d, b.row)) = View(db, b.row, Plan(db, d, b.row))
      BY <3>2 DEF Unseen
    <3>4. Upcoming(d) = View(db, b.row, Plan(db, d, b.row))
      BY <2>2 DEF Upcoming, FromPlan, View
    <3>5. Upcoming(d)' = View(db', b.row, Plan(db', d, b.row))
      BY <2>2 DEF Upcoming, FromPlan, View
    <3> QED
      BY <3>1, <3>3, <3>4, <3>5
  <2>3. CASE b.stage = "plan"
    <3>1. View(db', b.row, b.plan) = View(db, b.row, b.plan)
      BY <1>1, <2>3 DEF Unseen, BuildKnown
    <3>2. Upcoming(d) = View(db, b.row, b.plan) /\ Upcoming(d)' = View(db', b.row, b.plan)
      BY <2>3 DEF Upcoming, FromPlan, View
    <3> QED
      BY <3>1, <3>2
  <2>4. CASE b.stage = "lists"
    <3>1. Assemble(b.row, b.plan, b.lists, db'.folders, db'.media, db'.media)
            = Assemble(b.row, b.plan, b.lists, db.folders, db.media, db.media)
      BY <1>1, <2>4 DEF Unseen, BuildKnown
    <3> QED
      BY <2>4, <3>1 DEF Upcoming
  <2>5. CASE b.stage = "folders"
    BY <2>5 DEF Upcoming, Unseen
  <2>6. CASE b.stage = "pool"
    BY <2>6 DEF Upcoming, Unseen
  <2>7. CASE b.stage = "schedules"
    <3> DEFINE o == OverrideFor(db, d, b.row.groups)
               p == [schedules |-> b.schedules, override |-> o]
    <3>1. Plan(db', d, b.row) = Plan(db, d, b.row)
      BY <2>7 DEF Unseen, Current
    <3>2. OverrideFor(db', d, b.row.groups) = o
      BY <3>1 DEF Plan
    <3>3. o # None => o.playlist \notin Unused(db.playlists)
      BY <1>1, OverrideKnown
    <3>4. WantedLists(b.row, p) \cap Unused(db.playlists) = {}
      BY <1>1, <2>7, <3>3 DEF BuildKnown, WantedLists
    <3>5. View(db', b.row, p) = View(db, b.row, p)
      BY <3>4 DEF Unseen
    <3>6. Upcoming(d) = View(db, b.row, p)
      BY <2>7 DEF Upcoming, FromPlan, View
    <3>7. Upcoming(d)' = View(db', b.row, p)
      BY <2>7, <3>2 DEF Upcoming, FromPlan, View
    <3> QED
      BY <3>5, <3>6, <3>7
  <2> QED
    BY <1>1, <2>1, <2>2, <2>3, <2>4, <2>5, <2>6, <2>7
<1>4. build'[d].stage \in {"device", "schedules"} => build'[d].row.groups \subseteq new.groups
  BY DEF Current, Unseen
<1> QED
  BY <1>2, <1>3, <1>4 DEF Current

\* Edits of what is not in the playlists.
LEMMA ViewsStay ==
  ASSUME db'.playlists = db.playlists, db'.rules = db.rules, db'.media = db.media, db'.folders = db.folders
  PROVE  /\ \A row, plan : View(db', row, plan) = View(db, row, plan)
         /\ \A row, plan, rows :
              Assemble(row, plan, rows, db'.folders, db'.media, db'.media)
                = Assemble(row, plan, rows, db.folders, db.media, db.media)
BY DEF View, ListRows

LEMMA PlansStay ==
  ASSUME db'.schedules = db.schedules, db'.overrides = db.overrides
  PROVE  \A d, row : Plan(db', d, row) = Plan(db, d, row)
BY DEF Plan, Timetable, SchedulesFor, OverrideFor

LEMMA RowsStay ==
  ASSUME db'.members = db.members, db'.devices = db.devices
  PROVE  \A d : DeviceRow(db', d) = DeviceRow(db, d)
BY DEF DeviceRow

\* An override that starts targets only those it tells.
LEMMA StartUnseen ==
  ASSUME TypeOK, KnownInv, NEW r \in Requests, CommitStartEmergency(r), NEW d \in Devices,
         d \notin Audience(Body(r))'
  PROVE  Unseen(d)
<1> DEFINE b == Body(r)
           v == Append(db.overrides, b.row)
<1>1. /\ db' = [db EXCEPT !.overrides = v] /\ Goto(r, "publish")
      /\ request[r].stage = "checked" /\ b.op = "startEmergency"
  BY CommitStage DEF CommitStartEmergency, Commit, Write
<1>2. b.row \in OverrideRows /\ db \in Database /\ Body(r)' = b
  BY <1>1, Committing, AirtimeBodyShape, GoesOn
<1>3. /\ db'.overrides = v /\ db'.members = db.members /\ db'.devices = db.devices
      /\ db'.schedules = db.schedules /\ db'.playlists = db.playlists /\ db'.rules = db.rules
      /\ db'.media = db.media /\ db'.folders = db.folders
  BY <1>1, <1>2 DEF Database
<1>4. /\ DOMAIN db.overrides = 1..Len(db.overrides) /\ Len(db.overrides) \in Nat
      /\ DOMAIN v = 1..(Len(db.overrides) + 1) /\ v[Len(db.overrides) + 1] = b.row
      /\ \A n \in 1..Len(db.overrides) : v[n] = db.overrides[n]
  BY <1>2, Tables
<1> HIDE DEF v
<1>5. /\ DOMAIN db.overrides \subseteq DOMAIN v
      /\ \A n \in DOMAIN db.overrides : v[n] = db.overrides[n]
      /\ \A n \in DOMAIN v \ DOMAIN db.overrides : v[n] = b.row
  BY <1>4
<1>6. /\ ~b.row.all /\ d \notin b.row.devices
      /\ \A g \in b.row.groups : <<g, d>> \notin db.members
  BY <1>1, <1>2, <1>3 DEF Audience, Affected
<1>7. ASSUME NEW row, row.groups \subseteq DeviceRow(db, d).groups
      PROVE  Plan(db', d, row) = Plan(db, d, row)
  <2>1. row.groups \cap b.row.groups = {}
    BY <1>6, <1>7 DEF DeviceRow
  <2>2. Active(db', d, row.groups) = Active(db, d, row.groups)
    BY <1>3, <1>5, <1>6, <2>1 DEF Active, Targets
  <2>3. \A n \in Active(db, d, row.groups) : db'.overrides[n] = db.overrides[n]
    BY <1>3, <1>5 DEF Active
  <2>4. OverrideFor(db', d, row.groups) = OverrideFor(db, d, row.groups)
    BY <2>2, <2>3, OverrideSame
  <2> QED
    BY <1>3, <2>4 DEF Plan, Timetable, SchedulesFor
<1>8. DeviceRow(db', d) = DeviceRow(db, d)
  BY <1>3, RowsStay
<1> QED
  BY <1>3, <1>7, <1>8, ViewsStay DEF Unseen

\* So does one that ends.
LEMMA StopUnseen ==
  ASSUME TypeOK, KnownInv, NEW r \in Requests, CommitStopEmergency(r), NEW d \in Devices,
         d \notin Audience(Body(r))'
  PROVE  Unseen(d)
<1> DEFINE b == Body(r)
           n == b.override
           row == [db.overrides[n] EXCEPT !.active = FALSE]
           v == [db.overrides EXCEPT ![n] = row]
<1>1. /\ db' = [db EXCEPT !.overrides = v] /\ Goto(r, "publish")
      /\ request[r].stage = "checked" /\ b.op = "stopEmergency"
  BY CommitStage DEF CommitStopEmergency, Commit, Write
<1>2. /\ db \in Database /\ Body(r)' = b /\ n \in DOMAIN db.overrides /\ db.overrides[n] \in OverrideRows
      /\ b.row.all = db.overrides[n].all /\ b.row.devices = db.overrides[n].devices
      /\ b.row.groups = db.overrides[n].groups
  BY <1>1, Committing, GoesOn, Tables DEF BodyKnown
<1>3. /\ db'.overrides = v /\ db'.members = db.members /\ db'.devices = db.devices
      /\ db'.schedules = db.schedules /\ db'.playlists = db.playlists /\ db'.rules = db.rules
      /\ db'.media = db.media /\ db'.folders = db.folders
  BY <1>1, <1>2 DEF Database
<1>4. DOMAIN v = DOMAIN db.overrides /\ \A k \in DOMAIN v : v[k] = IF k = n THEN row ELSE db.overrides[k]
  BY <1>2, Tables
<1>5. row.active = FALSE
  BY <1>2 DEF OverrideRows
<1> HIDE DEF v, row
<1>6. /\ ~b.row.all /\ d \notin b.row.devices
      /\ \A g \in b.row.groups : <<g, d>> \notin db.members
  BY <1>1, <1>2, <1>3 DEF Audience, Affected
<1>7. ASSUME NEW w, w.groups \subseteq DeviceRow(db, d).groups
      PROVE  Plan(db', d, w) = Plan(db, d, w)
  <2>1. w.groups \cap b.row.groups = {}
    <3>1. \A g \in w.groups : <<g, d>> \in db.members
      BY <1>7 DEF DeviceRow
    <3> QED
      BY <1>6, <3>1
  <2>2. n \notin Active(db, d, w.groups)
    BY <1>2, <1>6, <2>1 DEF Active, Targets
  <2>3. Active(db', d, w.groups) = Active(db, d, w.groups)
    BY <1>3, <1>4, <1>5, <2>2 DEF Active, Targets
  <2>4. \A k \in Active(db, d, w.groups) : db'.overrides[k] = db.overrides[k]
    BY <1>3, <1>4, <2>2 DEF Active
  <2>5. OverrideFor(db', d, w.groups) = OverrideFor(db, d, w.groups)
    BY <2>3, <2>4, OverrideSame
  <2> QED
    BY <1>3, <2>5 DEF Plan, Timetable, SchedulesFor
<1>8. DeviceRow(db', d) = DeviceRow(db, d)
  BY <1>3, RowsStay
<1> QED
  BY <1>3, <1>7, <1>8, ViewsStay DEF Unseen

\* A device's default and groups are its own.
LEMMA PatchDeviceUnseen ==
  ASSUME TypeOK, KnownInv, NEW r \in Requests, CommitPatchDevice(r), NEW d \in Devices, d # Body(r).device
  PROVE  Unseen(d)
<1> DEFINE b == Body(r)
           row == [db.devices[b.device] EXCEPT !.default = b.default]
           v == [db.devices EXCEPT ![b.device] = row]
           u == {gd \in db.members : gd[2] # b.device} \cup (b.groups \X {b.device})
<1>1. /\ db' = [db EXCEPT !.devices = v, !.members = u]
      /\ request[r].stage = "checked" /\ b.op = "patchDevice"
  BY CommitStage DEF CommitPatchDevice
<1>2. db \in Database
  BY <1>1, Committing
<1> HIDE DEF b
<1>3. /\ v[d] = db.devices[d]
      /\ \A g \in Groups : <<g, d>> \in u <=> <<g, d>> \in db.members
  BY <1>2, Tables DEF b
<1> HIDE DEF u, v
<1>4. /\ db'.overrides = db.overrides /\ db'.members = u /\ db'.devices = v
      /\ db'.schedules = db.schedules /\ db'.playlists = db.playlists /\ db'.rules = db.rules
      /\ db'.media = db.media /\ db'.folders = db.folders
  BY <1>1, <1>2 DEF Database
<1>5. DeviceRow(db', d) = DeviceRow(db, d)
  BY <1>3, <1>4 DEF DeviceRow
<1> QED
  BY <1>4, <1>5, PlansStay, ViewsStay DEF Unseen

\* Nothing plays a playlist that is new.
LEMMA CloneUnseen ==
  ASSUME TypeOK, KnownInv, NEW r \in Requests, NEW p \in Playlists, CommitClonePlaylist(r, p), NEW d \in Devices
  PROVE  Unseen(d)
<1> DEFINE b == Body(r)
           v == [db.playlists EXCEPT ![p] = b.row]
           u == [db.rules EXCEPT ![p] = b.rules]
<1>1. /\ db' = [db EXCEPT !.playlists = v, !.rules = u]
      /\ db.playlists[p].state = "none"
      /\ request[r].stage = "checked" /\ b.op = "clonePlaylist"
  BY CommitStage DEF CommitClonePlaylist, New
<1>2. db \in Database
  BY <1>1, Committing
<1> HIDE DEF b
<1>3. /\ DOMAIN v = Playlists /\ DOMAIN u = Playlists /\ DOMAIN db.playlists = Playlists
      /\ \A q \in Playlists \ {p} : v[q] = db.playlists[q] /\ u[q] = db.rules[q]
  BY <1>2, Tables
<1> HIDE DEF u, v
<1>4. /\ db'.overrides = db.overrides /\ db'.members = db.members /\ db'.devices = db.devices
      /\ db'.schedules = db.schedules /\ db'.playlists = v /\ db'.rules = u
      /\ db'.media = db.media /\ db'.folders = db.folders
  BY <1>1, <1>2 DEF Database
<1>5. p \in Unused(db.playlists)
  BY <1>1, <1>3 DEF Unused
<1>6. ASSUME NEW row, NEW plan, WantedLists(row, plan) \cap Unused(db.playlists) = {}
      PROVE  View(db', row, plan) = View(db, row, plan)
  <2>1. p \notin WantedLists(row, plan)
    BY <1>5, <1>6
  <2>2. Live(db'.playlists) \cap WantedLists(row, plan) = Live(db.playlists) \cap WantedLists(row, plan)
    BY <1>3, <1>4, <2>1 DEF Live
  <2>3. \A q \in Live(db.playlists) \cap WantedLists(row, plan) :
          db'.playlists[q] = db.playlists[q] /\ db'.rules[q] = db.rules[q]
    BY <1>3, <1>4, <2>1 DEF Live
  <2>4. ListRows(db', row, plan) = ListRows(db, row, plan)
    BY <1>4, <2>2, <2>3 DEF ListRows
  <2> QED
    BY <1>4, <2>4 DEF View
<1>7. DeviceRow(db', d) = DeviceRow(db, d)
  BY <1>4, RowsStay
<1> QED
  BY <1>4, <1>6, <1>7, PlansStay DEF Unseen

\* The playlists stay what they are if their entries stand for the same media.
LEMMA ContentsSame ==
  ASSUME NEW l, NEW rows, NEW fs, NEW pool, NEW newRows, NEW newFs, NEW newPool,
         \A e \in l.items : Expand(newRows, newFs, newPool, e) = Expand(rows, fs, pool, e),
         \A x \in DOMAIN l.rules : \A e \in l.rules[x] :
           Expand(newRows, newFs, newPool, e) = Expand(rows, fs, pool, e)
  PROVE  Contents(l, newRows, newFs, newPool) = Contents(l, rows, fs, pool)
<1>1. \A x \in DOMAIN l.rules :
        Picked(newRows, newFs, newPool, l.rules[x]) = Picked(rows, fs, pool, l.rules[x])
  <2> SUFFICES ASSUME NEW x \in DOMAIN l.rules
               PROVE  Picked(newRows, newFs, newPool, l.rules[x]) = Picked(rows, fs, pool, l.rules[x])
    OBVIOUS
  <2>1. {Expand(newRows, newFs, newPool, e) : e \in l.rules[x]} = {Expand(rows, fs, pool, e) : e \in l.rules[x]}
    OBVIOUS
  <2> QED
    BY <2>1 DEF Picked
<1>2. {{<<e, m>> : m \in Expand(newRows, newFs, newPool, e)} : e \in l.items}
        = {{<<e, m>> : m \in Expand(rows, fs, pool, e)} : e \in l.items}
  OBVIOUS
<1>3. {x \in DOMAIN l.rules : Picked(newRows, newFs, newPool, l.rules[x]) # {}}
        = {x \in DOMAIN l.rules : Picked(rows, fs, pool, l.rules[x]) # {}}
  BY <1>1
<1> QED
  BY <1>1, <1>2, <1>3 DEF Contents

LEMMA AssembleSame ==
  ASSUME NEW row, NEW plan, NEW rows, NEW fs, NEW gs, NEW pool, NEW own,
         \A p \in DOMAIN rows.lists :
           Contents(rows.lists[p], rows, gs, pool) = Contents(rows.lists[p], rows, fs, pool)
  PROVE  Assemble(row, plan, rows, gs, pool, own) = Assemble(row, plan, rows, fs, pool, own)
<1>1. [p \in DOMAIN rows.lists |-> Contents(rows.lists[p], rows, gs, pool)]
        = [p \in DOMAIN rows.lists |-> Contents(rows.lists[p], rows, fs, pool)]
  OBVIOUS
<1> QED
  BY <1>1 DEF Assemble

\* No entry reaches a folder that is new, and it holds nothing.
LEMMA CreateFolderUnseen ==
  ASSUME TypeOK, KnownInv, NEW r \in Requests, NEW f \in Folders, CommitCreateFolder(r, f), NEW d \in Devices
  PROVE  Unseen(d)
<1> DEFINE row == Body(r).row
           v == [db.folders EXCEPT ![f] = row]
<1>1. /\ db' = [db EXCEPT !.folders = v]
      /\ db.folders[f].state = "none"
      /\ request[r].stage = "checked" /\ Body(r).op = "createFolder"
  BY CommitStage DEF CommitCreateFolder, New
<1>2. db \in Database /\ RowsKnown(db)
  BY <1>1, Committing
<1> HIDE DEF row
<1>3. DOMAIN db.folders = Folders /\ \A g \in Folders : v[g] = IF g = f THEN row ELSE db.folders[g]
  BY <1>2, Tables
<1> HIDE DEF v
<1>4. /\ db'.overrides = db.overrides /\ db'.members = db.members /\ db'.devices = db.devices
      /\ db'.schedules = db.schedules /\ db'.playlists = db.playlists /\ db'.rules = db.rules
      /\ db'.media = db.media /\ db'.folders = v
  BY <1>1, <1>2 DEF Database
<1>5. f \in Unused(db.folders)
  BY <1>1, <1>3 DEF Unused
<1>6. /\ f \notin LiveFolders(db.folders) /\ LiveFolders(v) \ {f} = LiveFolders(db.folders)
      /\ \A g \in LiveFolders(db.folders) : v[g].parent = db.folders[g].parent /\ db.folders[g].parent # f
      /\ \A m \in Media : db.media[m].folder # f
  BY <1>1, <1>2, <1>3, <1>5 DEF LiveFolders, RowsKnown, FoldersKnown
<1>7. ASSUME NEW g \in Folders, g # f
      PROVE  Descendants(v, g) \ {f} = Descendants(db.folders, g) \ {f}
  <2>1. CASE f \in LiveFolders(v)
    BY <1>6, <1>7, <2>1, DescendantsOfNew
  <2>2. CASE f \notin LiveFolders(v)
    <3>1. LiveFolders(v) = LiveFolders(db.folders)
      BY <1>6, <2>2
    <3> QED
      BY <1>6, <3>1 DEF Descendants, Closed
  <2> QED
    BY <2>1, <2>2
<1>8. ASSUME NEW e, e.ref # f
      PROVE  ExpandFolderIds(v, e) \ {f} = ExpandFolderIds(db.folders, e) \ {f}
  <2>1. e.ref \in LiveFolders(v) <=> e.ref \in LiveFolders(db.folders)
    BY <1>6, <1>8
  <2>2. CASE e.ref \in LiveFolders(db.folders)
    <3>1. e.ref \in Folders
      BY <2>2 DEF LiveFolders
    <3> QED
      BY <1>7, <1>8, <2>1, <2>2, <3>1 DEF ExpandFolderIds
  <2>3. CASE e.ref \notin LiveFolders(db.folders)
    BY <2>1, <2>3 DEF ExpandFolderIds
  <2> QED
    BY <2>2, <2>3
<1>9. DOMAIN db.media = Media
  BY <1>2, Tables
<1>10. ASSUME NEW rows, NEW es, EntriesKnown(db, es), NEW e \in es
       PROVE  Expand(rows, v, db.media, e) = Expand(rows, db.folders, db.media, e)
  <2>1. ExpandFolderIds(v, e) \ {f} = ExpandFolderIds(db.folders, e) \ {f}
    BY <1>5, <1>8, <1>10 DEF EntriesKnown
  <2>2. {m \in Playable(db.media) : db.media[m].folder \in ExpandFolderIds(v, e)}
          = {m \in Playable(db.media) : db.media[m].folder \in ExpandFolderIds(db.folders, e)}
    BY <1>6, <1>9, <2>1 DEF Playable
  <2> QED
    BY <2>2 DEF Expand
<1>11. ASSUME NEW w, NEW plan, NEW rows,
              \A p \in DOMAIN rows.lists :
                LET l == rows.lists[p]
                IN EntriesKnown(db, l.items) /\ \A x \in DOMAIN l.rules : EntriesKnown(db, l.rules[x])
       PROVE  Assemble(w, plan, rows, v, db.media, db.media)
                = Assemble(w, plan, rows, db.folders, db.media, db.media)
  <2>1. ASSUME NEW p \in DOMAIN rows.lists
        PROVE  Contents(rows.lists[p], rows, v, db.media) = Contents(rows.lists[p], rows, db.folders, db.media)
    <3> DEFINE l == rows.lists[p]
    <3>1. /\ \A e \in l.items : Expand(rows, v, db.media, e) = Expand(rows, db.folders, db.media, e)
          /\ \A x \in DOMAIN l.rules : \A e \in l.rules[x] :
               Expand(rows, v, db.media, e) = Expand(rows, db.folders, db.media, e)
      BY <1>10, <1>11
    <3> HIDE DEF l
    <3>2. Contents(l, rows, v, db.media) = Contents(l, rows, db.folders, db.media)
      BY <3>1, ContentsSame
    <3> QED
      BY <3>2 DEF l
  <2> QED
    BY <2>1, AssembleSame
<1>12. ASSUME NEW w, NEW plan PROVE View(db', w, plan) = View(db, w, plan)
  <2>1. ListRows(db', w, plan) = ListRows(db, w, plan)
    BY <1>4 DEF ListRows
  <2>2. \A p \in DOMAIN ListRows(db, w, plan).lists :
          LET l == ListRows(db, w, plan).lists[p]
          IN EntriesKnown(db, l.items) /\ \A x \in DOMAIN l.rules : EntriesKnown(db, l.rules[x])
    BY <1>2, ListsKnown
  <2>3. Assemble(w, plan, ListRows(db, w, plan), v, db.media, db.media)
          = Assemble(w, plan, ListRows(db, w, plan), db.folders, db.media, db.media)
    BY <1>11, <2>2
  <2> QED
    BY <1>4, <2>1, <2>3 DEF View
<1>13. DeviceRow(db', d) = DeviceRow(db, d)
  BY <1>4, RowsStay
<1> QED
  BY <1>4, <1>11, <1>12, <1>13, PlansStay DEF Unseen

\* Nothing is scheduled for a group that is new.
LEMMA CreateGroupUnseen ==
  ASSUME TypeOK, KnownInv, NEW r \in Requests, NEW g \in Groups, CommitCreateGroup(r, g), NEW d \in Devices
  PROVE  Unseen(d)
<1> DEFINE v == [db.groups EXCEPT ![g] = [db.groups[g] EXCEPT !.state = "live"]]
           u == db.members \cup ({g} \X Body(r).devices)
           old == DeviceRow(db, d)
           new == DeviceRow(db', d)
<1>1. /\ db' = [db EXCEPT !.groups = v, !.members = u]
      /\ db.groups[g].state = "none"
      /\ request[r].stage = "checked"
  BY CommitStage DEF CommitCreateGroup, New
<1>2. db \in Database /\ RowsKnown(db) /\ g \in Unused(db.groups)
  BY <1>1, Committing, Tables DEF Unused
<1>3. \A h \in Groups, e \in Devices : h # g => (<<h, e>> \in u <=> <<h, e>> \in db.members)
  OBVIOUS
<1>4. db.members \subseteq u
  OBVIOUS
<1> HIDE DEF u, v
<1>5. /\ db'.overrides = db.overrides /\ db'.members = u /\ db'.devices = db.devices
      /\ db'.schedules = db.schedules /\ db'.playlists = db.playlists /\ db'.rules = db.rules
      /\ db'.media = db.media /\ db'.folders = db.folders
  BY <1>1, <1>2 DEF Database
<1>6. /\ new.default = old.default /\ old.groups \subseteq new.groups
      /\ new.groups \ {g} = old.groups \ {g}
  BY <1>3, <1>4, <1>5 DEF DeviceRow
<1>7. /\ \A s \in Live(db.schedules) : g \notin db.schedules[s].groups
      /\ \A n \in DOMAIN db.overrides : g \notin db.overrides[n].groups
  BY <1>2 DEF RowsKnown, GroupsKnown
<1> HIDE DEF old, new
<1>8. SchedulesFor(db', d, new.groups) = SchedulesFor(db, d, old.groups)
  BY <1>5, <1>6, <1>7 DEF SchedulesFor, Targets
<1>9. Active(db', d, new.groups) = Active(db, d, old.groups)
  BY <1>5, <1>6, <1>7 DEF Active, Targets
<1>10. OverrideFor(db', d, new.groups) = OverrideFor(db, d, old.groups)
  BY <1>5, <1>9, OverrideSame
<1>11. Plan(db', d, new) = Plan(db, d, old)
  BY <1>5, <1>8, <1>10, PlanSame
<1> QED
  BY <1>5, <1>6, <1>11, PlansStay, ViewsStay DEF Unseen, old, new

\* What a deleted device is shown nobody sees.
LEMMA DeleteDeviceUnseen ==
  ASSUME TypeOK, KnownInv, NEW r \in Requests, CommitDeleteDevice(r), NEW d \in Devices
  PROVE  Unseen(d)
<1> DEFINE n == Body(r).device
           row == [db.devices[n] EXCEPT !.state = "gone"]
           v == [db.devices EXCEPT ![n] = row]
<1>1. /\ db' = [db EXCEPT !.devices = v]
      /\ request[r].stage = "checked" /\ Body(r).op = "deleteDevice"
  BY CommitStage DEF CommitDeleteDevice
<1>2. n \in Devices /\ db \in Database
  BY <1>1, Committing, AirtimeBodyShape
<1> HIDE DEF n
<1>3. v[d].default = db.devices[d].default
  BY <1>2, Tables
<1> HIDE DEF v
<1>4. /\ db'.overrides = db.overrides /\ db'.members = db.members /\ db'.devices = v
      /\ db'.schedules = db.schedules /\ db'.playlists = db.playlists /\ db'.rules = db.rules
      /\ db'.media = db.media /\ db'.folders = db.folders
  BY <1>1, <1>2 DEF Database
<1>5. DeviceRow(db', d) = DeviceRow(db, d)
  BY <1>3, <1>4 DEF DeviceRow
<1> QED
  BY <1>4, <1>5, PlansStay, ViewsStay DEF Unseen

-------------------------------------------------------------------------------
(* Every edit reaches the screens.                                         *)

\* Who was to be told still is, when a commit takes nobody out of a group.
LEMMA ToldStays ==
  ASSUME TypeOK, NEW r \in Requests, NEW stage, Steps(r, stage), request[r].stage = "checked",
         NEW d \in Devices, Told(d), \A g : <<g, d>> \in db.members => <<g, d>> \in db'.members
  PROVE  Told(d)'
<1>1. CASE d \in owed \cup silent
  BY <1>1 DEF Told, Steps
<1>2. CASE \E s \in Requests : request[s].stage \in {"half", "publish"} /\ d \in Audience(Body(s))
  <2>1. PICK s \in Requests : request[s].stage \in {"half", "publish"} /\ d \in Audience(Body(s))
    BY <1>2
  <2>2. s # r /\ request'[s] = request[s] /\ Body(s)' = Body(s)
    BY <2>1, GoesOn DEF Steps
  <2>3. PICK b : b = Body(s)
    OBVIOUS
  <2>4. d \in Audience(b)
    BY <2>1, <2>3
  <2>5. d \in Audience(b)'
    BY <2>4 DEF Audience, Affected
  <2>6. d \in Audience(Body(s))'
    BY <2>2, <2>3, <2>5 DEF Audience, Affected
  <2> QED
    BY <2>1, <2>2, <2>6 DEF Told
<1> QED
  BY <1>1, <1>2 DEF Told

\* The commits that leave somebody out, or change nothing.
Selective(r) ==
  \/ CommitKeptMedium(r) /\ db' = db
  \/ CommitStartEmergency(r) \/ CommitStopEmergency(r) \/ CommitPatchDevice(r) \/ CommitDeleteDevice(r)
  \/ \E p \in Playlists : CommitClonePlaylist(r, p)
  \/ \E f \in Folders : CommitCreateFolder(r, f)
  \/ \E g \in Groups : CommitCreateGroup(r, g)

\* All the others tell everybody, or nobody.
LEMMA OthersTellAll ==
  ASSUME TypeOK, NEW r \in Requests, Commits(r), ~Selective(r), NEW d \in Devices
  PROVE  Told(d)'
<1> DEFINE Apart == {"patchDevice", "startEmergency", "stopEmergency"}
<1>1. ASSUME NEW stage \in {"half", "publish"}, Goto(r, stage), request[r].stage # "idle", Body(r).op \notin Apart
      PROVE  Told(d)'
  <2>1. request'[r].stage = stage /\ Body(r)' = Body(r)
    BY <1>1, GoesOn
  <2>2. Body(r)'.op \notin Apart
    BY <1>1, <2>1
  <2>3. Audience(Body(r))' = Devices
    BY <2>2 DEF Audience
  <2> QED
    BY <2>1, <2>3 DEF Told
<1>2. ASSUME NEW op, op \notin Apart, NEW data, Commit(r, op, data) PROVE Told(d)'
  BY <1>1, <1>2 DEF Commit, Stage, Write, Body
<1>3. ASSUME NEW op, NEW data, CommitQuietly(r, op, data, FALSE) PROVE Told(d)'
  BY <1>3 DEF CommitQuietly, Told
<1>4. ASSUME MarkGroup(r) \/ EmptyGroup(r) PROVE Told(d)'
  BY <1>1, <1>4 DEF MarkGroup, EmptyGroup, Stage, Write, Body
<1>5. CASE \/ \E p \in Playlists : CommitCreatePlaylist(r, p)
           \/ CommitPatchPlaylist(r) \/ CommitPutItems(r) \/ CommitDeletePlaylist(r)
  BY <1>2, <1>5 DEF CommitCreatePlaylist, CommitPatchPlaylist, CommitPutItems, CommitDeletePlaylist
<1>6. CASE \/ \E x \in Rules : CommitCreateRule(r, x)
           \/ CommitPatchRule(r) \/ CommitDeleteRule(r) \/ CommitPutAssignments(r)
  BY <1>2, <1>6 DEF CommitCreateRule, CommitPatchRule, CommitDeleteRule, CommitPutAssignments
<1>7. CASE CommitPatchFolder(r)
  BY <1>3, <1>7 DEF CommitPatchFolder
<1>8. CASE CommitReprocess(r)
  <2> DEFINE data == [db EXCEPT !.media[Body(r).medium].state = IF @ = "gone" THEN @ ELSE "pending"]
  <2>1. CommitQuietly(r, "reprocess", data, FALSE)
    BY <1>8 DEF CommitReprocess
  <2> HIDE DEF data
  <2> QED
    BY <1>3, <2>1
<1>9. CASE \/ CommitDeleteFolder(r) \/ CommitMovedMedium(r) \/ CommitMoveMedia(r) \/ CommitDeleteMedia(r)
           \/ CommitPatchGroup(r)
  BY <1>2, <1>9 DEF CommitDeleteFolder, CommitMovedMedium, CommitMoveMedia, CommitDeleteMedia, CommitPatchGroup
<1>11. CASE CommitKeptMedium(r) /\ db' # db
  <2> DEFINE data == Patched(Body(r))
             heard == data = db
  <2>1. CommitQuietly(r, "patchMedium", data, heard)
    BY <1>11 DEF CommitKeptMedium
  <2>2. db' = data
    <3> HIDE DEF data, heard
    <3> QED
      BY <2>1, CommitStage
  <2>3. heard = FALSE
    BY <1>11, <2>2
  <2> HIDE DEF data, heard
  <2> QED
    BY <1>3, <2>1, <2>3
<1>10. CASE \/ \E s \in Schedules : CommitCreateSchedule(r, s)
            \/ CommitPatchSchedule(r) \/ CommitDeleteSchedule(r)
  BY <1>2, <1>10 DEF CommitCreateSchedule, CommitPatchSchedule, CommitDeleteSchedule
<1> QED
  BY <1>4, <1>5, <1>6, <1>7, <1>8, <1>9, <1>10, <1>11 DEF Commits, Selective

\* Whom a selective commit leaves out sees nothing of it.
LEMMA SelectiveUnseen ==
  ASSUME TypeOK, KnownInv, NEW r \in Requests, Selective(r), NEW d \in Devices, ~Told(d)'
  PROVE  Unseen(d) /\ \A g : <<g, d>> \in db.members => <<g, d>> \in db'.members
<1>1. db \in Database
  BY DEF TypeOK
<1>2. ASSUME NEW op, NEW data, Commit(r, op, data)
      PROVE  d \notin Audience(Body(r))' /\ Body(r)' = Body(r)
  <2>1. request'[r].stage = "publish" /\ Body(r)' = Body(r)
    BY <1>2, GoesOn DEF Commit, Stage, Write
  <2> QED
    BY <2>1 DEF Told
<1>3. CASE CommitStartEmergency(r)
  <2>1. d \notin Audience(Body(r))'
    BY <1>2, <1>3 DEF CommitStartEmergency
  <2>2. db' = [db EXCEPT !.overrides = Append(db.overrides, Body(r).row)]
    BY <1>3, CommitStage DEF CommitStartEmergency
  <2>3. db'.members = db.members
    BY <1>1, <2>2 DEF Database
  <2> QED
    BY <1>3, <2>1, <2>3, StartUnseen
<1>4. CASE CommitStopEmergency(r)
  <2>1. d \notin Audience(Body(r))'
    BY <1>2, <1>4 DEF CommitStopEmergency
  <2>2. db' = [db EXCEPT !.overrides[Body(r).override].active = FALSE]
    BY <1>4, CommitStage DEF CommitStopEmergency
  <2>3. db'.members = db.members
    BY <1>1, <2>2 DEF Database
  <2> QED
    BY <1>4, <2>1, <2>3, StopUnseen
<1>5. CASE CommitPatchDevice(r)
  <2> DEFINE u == {gd \in db.members : gd[2] # Body(r).device} \cup (Body(r).groups \X {Body(r).device})
             v == [db.devices EXCEPT ![Body(r).device] = [@ EXCEPT !.default = Body(r).default]]
  <2>1. d \notin Audience(Body(r))' /\ Body(r)' = Body(r)
    BY <1>2, <1>5 DEF CommitPatchDevice
  <2>2. /\ db' = [db EXCEPT !.devices[Body(r).device].default = Body(r).default, !.members = u]
        /\ Body(r).op = "patchDevice"
    BY <1>5, CommitStage DEF CommitPatchDevice
  <2>3. d # Body(r).device
    BY <2>1, <2>2 DEF Audience
  <2>4. \A g : <<g, d>> \in db.members => <<g, d>> \in u
    BY <2>3
  <2> HIDE DEF u
  <2>5. db'.members = u
    BY <1>1, <2>2 DEF Database
  <2> QED
    BY <1>5, <2>3, <2>4, <2>5, PatchDeviceUnseen
<1>6. CASE CommitDeleteDevice(r)
  <2>1. db' = [db EXCEPT !.devices[Body(r).device].state = "gone"]
    BY <1>6, CommitStage DEF CommitDeleteDevice
  <2>2. db'.members = db.members
    BY <1>1, <2>1 DEF Database
  <2> QED
    BY <1>6, <2>2, DeleteDeviceUnseen
<1>7. CASE \E p \in Playlists : CommitClonePlaylist(r, p)
  <2>1. PICK p \in Playlists : CommitClonePlaylist(r, p)
    BY <1>7
  <2>2. db' = [db EXCEPT !.playlists[p] = Body(r).row, !.rules[p] = Body(r).rules]
    BY <2>1, CommitStage DEF CommitClonePlaylist
  <2>3. db'.members = db.members
    BY <1>1, <2>2 DEF Database
  <2> QED
    BY <2>1, <2>3, CloneUnseen
<1>8. CASE \E f \in Folders : CommitCreateFolder(r, f)
  <2>1. PICK f \in Folders : CommitCreateFolder(r, f)
    BY <1>8
  <2>2. db' = [db EXCEPT !.folders[f] = Body(r).row]
    BY <2>1, CommitStage DEF CommitCreateFolder
  <2>3. db'.members = db.members
    BY <1>1, <2>2 DEF Database
  <2> QED
    BY <2>1, <2>3, CreateFolderUnseen
<1>9. CASE \E g \in Groups : CommitCreateGroup(r, g)
  <2>1. PICK g \in Groups : CommitCreateGroup(r, g)
    BY <1>9
  <2> DEFINE u == db.members \cup ({g} \X Body(r).devices)
  <2>2. db' = [db EXCEPT !.groups[g].state = "live", !.members = u]
    BY <2>1, CommitStage DEF CommitCreateGroup
  <2>3. db.members \subseteq u
    OBVIOUS
  <2> HIDE DEF u
  <2>4. db'.members = u
    BY <1>1, <2>2 DEF Database
  <2> QED
    BY <2>1, <2>3, <2>4, CreateGroupUnseen
<1>10. CASE CommitKeptMedium(r) /\ db' = db
  BY <1>10 DEF Unseen
<1> QED
  BY <1>3, <1>4, <1>5, <1>6, <1>7, <1>8, <1>9, <1>10 DEF Selective

LEMMA CommitCurrent ==
  ASSUME TypeOK, KnownInv, UpcomingIsCurrent, NEW r \in Requests, Commits(r)
  PROVE  UpcomingIsCurrent'
<1> SUFFICES ASSUME NEW d \in Devices, ~Told(d)' PROVE Current(d)'
  BY DEF UpcomingIsCurrent, Current
<1>1. PICK stage : Steps(r, stage)
  BY CommitsMove
<1>2. Selective(r)
  BY OthersTellAll
<1>3. Unseen(d) /\ \A g : <<g, d>> \in db.members => <<g, d>> \in db'.members
  BY <1>2, SelectiveUnseen
<1>4. request[r].stage = "checked"
  <2>1. ASSUME NEW op, NEW data, Commit(r, op, data) PROVE request[r].stage = "checked"
    BY <2>1 DEF Commit, Stage
  <2>2. ASSUME NEW op, NEW data, NEW heard, CommitQuietly(r, op, data, heard) PROVE request[r].stage = "checked"
    BY <2>2 DEF CommitQuietly, Stage
  <2> QED
    BY <1>2, <2>1, <2>2
       DEF Selective, CommitStartEmergency, CommitStopEmergency, CommitPatchDevice, CommitDeleteDevice,
           CommitClonePlaylist, CommitCreateFolder, CommitCreateGroup, CommitKeptMedium
<1>5. ~Told(d)
  BY <1>1, <1>3, <1>4, ToldStays
<1>6. UNCHANGED <<build, copy>>
  BY <1>1 DEF Steps
<1> QED
  BY <1>3, <1>5, <1>6, UnseenKeeps DEF UpcomingIsCurrent, Current

\* Steps of requests and builds leave the rows as they are.
LEMMA CurrentStays ==
  ASSUME NEW d, UNCHANGED <<db, build, copy>>, Current(d)
  PROVE  Current(d)'
BY DEF Current, Upcoming, FromPlan

LEMMA ArrivalCurrent ==
  ASSUME TypeOK, KnownInv, UpcomingIsCurrent, NEW r \in Requests, Arrived(r)
  PROVE  UpcomingIsCurrent'
<1> SUFFICES ASSUME NEW d \in Devices, ~Told(d)' PROVE Current(d)'
  BY DEF UpcomingIsCurrent, Current
<1>1. PICK body \in Bodies : Receive(r, body)
  BY DEF Arrived
<1>2. /\ request[r] = Idle /\ request' = [request EXCEPT ![r] = [stage |-> "checked", body |-> body]]
      /\ UNCHANGED <<db, owed, build, copy, silent>> /\ DOMAIN request = Requests
  BY <1>1 DEF Receive, TypeOK
<1>3. \A s \in Requests : request[s].stage \in {"half", "publish"} => request'[s] = request[s] /\ Body(s)' = Body(s)
  BY <1>2 DEF Idle, Body
<1>4. ~Told(d)
  BY <1>2, <1>3 DEF Told, Audience, Affected
<1> QED
  BY <1>2, <1>4, CurrentStays DEF UpcomingIsCurrent, Current

LEMMA PublishCurrent ==
  ASSUME TypeOK, KnownInv, UpcomingIsCurrent, NEW r \in Requests, Publish(r)
  PROVE  UpcomingIsCurrent'
<1> SUFFICES ASSUME NEW d \in Devices, ~Told(d)' PROVE Current(d)'
  BY DEF UpcomingIsCurrent, Current
<1>1. /\ request[r].stage = "publish" /\ Goto(r, "over") /\ owed' = owed \cup Audience(Body(r))
      /\ UNCHANGED <<db, build, copy, silent>>
  BY DEF Publish
<1>2. \A s \in Requests \ {r} : request'[s] = request[s] /\ Body(s)' = Body(s)
  BY <1>1, GoesOn
<1>3. ~Told(d)
  BY <1>1, <1>2 DEF Told, Audience, Affected
<1> QED
  BY <1>1, <1>3, CurrentStays DEF UpcomingIsCurrent, Current

\* A build ends with the manifest it was to have.
LEMMA BuildCurrent ==
  ASSUME TypeOK, KnownInv, UpcomingIsCurrent, NEW d \in Devices, BuildSteps(d)
  PROVE  UpcomingIsCurrent'
<1>1. /\ DOMAIN build = Devices /\ DOMAIN copy = Devices /\ UNCHANGED <<db, request>>
      /\ \E stage, next : BuildStep(d, stage, next)
  BY DEF TypeOK, BuildSteps, ReadDevice, ReadSchedules, ReadOverride, ReadLists, ReadFolders, ReadPool,
            ReadOwn, BuildStep
<1>2. \A e \in Devices \ {d} : build'[e] = build[e] /\ copy'[e] = copy[e]
  BY <1>1 DEF BuildSteps, BuildStep, ReadDevice, ReadSchedules, ReadOverride, ReadLists, ReadFolders,
                 ReadPool, ReadOwn
<1>3. \A s \in Requests : Audience(Body(s))' = Audience(Body(s))
  BY <1>1 DEF Audience, Affected, Body
<1>4. ASSUME NEW e \in Devices \ {d}, ~Told(e)' PROVE Current(e)'
  <2>1. ~Told(e)
    BY <1>1, <1>3, <1>4
       DEF Told, BuildSteps, ReadDevice, ReadSchedules, ReadOverride, ReadLists, ReadFolders, ReadPool, ReadOwn
  <2>2. Current(e)
    BY <2>1 DEF UpcomingIsCurrent, Current
  <2> QED
    BY <1>1, <1>2, <2>2 DEF Current, Upcoming, FromPlan
<1>5. ASSUME ~Told(d)' PROVE Current(d)'
  <2>1. CASE ReadDevice(d)
    <3> DEFINE row == DeviceRow(db, d)
               next == [stage |-> "device", row |-> row]
    <3>1. build'[d] = next
      BY <1>1, <2>1 DEF ReadDevice, BuildStep
    <3>2. build'[d].stage = "device" /\ build'[d].row = row
      BY <3>1
    <3> HIDE DEF next
    <3>3. Upcoming(d)' = View(db, row, Plan(db, d, row))
      BY <1>1, <3>2 DEF Upcoming, FromPlan, View
    <3>4. Manifest(db', d) = View(db, row, Plan(db, d, row))
      BY <1>1 DEF Manifest, View
    <3> QED
      BY <1>1, <3>2, <3>3, <3>4 DEF Current
  <2>2. CASE ~ReadDevice(d)
    <3>1. UNCHANGED <<owed, silent>>
      BY <2>2 DEF BuildSteps, ReadSchedules, ReadOverride, ReadLists, ReadFolders, ReadPool, ReadOwn
    <3>2. ~Told(d)
      BY <1>1, <1>3, <1>5, <3>1 DEF Told
    <3>3. /\ Upcoming(d) = Manifest(db, d) /\ Manifest(db', d) = Manifest(db, d)
          /\ build[d].stage \in {"device", "schedules"} => build[d].row.groups \subseteq DeviceRow(db, d).groups
      BY <1>1, <3>2 DEF UpcomingIsCurrent
    <3> DEFINE b == build[d]
    <3>4. CASE ReadSchedules(d)
      <4> DEFINE t == Timetable(db, d, b.row)
                 next == [stage |-> "schedules", row |-> b.row, schedules |-> t]
      <4>1. b.stage = "device" /\ build'[d] = next
        BY <1>1, <3>4 DEF ReadSchedules, BuildStep
      <4>2. build'[d].stage = "schedules" /\ build'[d].row = b.row /\ build'[d].schedules = t
        BY <4>1
      <4>3. Plan(db, d, b.row) = [schedules |-> t, override |-> OverrideFor(db, d, b.row.groups)]
        BY DEF Plan
      <4>4. Upcoming(d) = FromPlan(b.row, Plan(db, d, b.row))
        BY <4>1 DEF Upcoming
      <4> HIDE DEF next, t
      <4>5. Upcoming(d)' = FromPlan(b.row, Plan(db, d, b.row))
        BY <1>1, <4>2, <4>3 DEF Upcoming, FromPlan
      <4> QED
        BY <1>1, <3>3, <4>1, <4>2, <4>4, <4>5 DEF Current
    <3>8. CASE ReadOverride(d)
      <4> DEFINE p == [schedules |-> b.schedules, override |-> OverrideFor(db, d, b.row.groups)]
                 next == [stage |-> "plan", row |-> b.row, plan |-> p]
      <4>1. b.stage = "schedules" /\ build'[d] = next
        BY <1>1, <3>8 DEF ReadOverride, BuildStep
      <4>2. build'[d].stage = "plan" /\ build'[d].row = b.row /\ build'[d].plan = p
        BY <4>1
      <4>3. Upcoming(d) = FromPlan(b.row, p)
        BY <4>1 DEF Upcoming
      <4> HIDE DEF next, p
      <4>4. Upcoming(d)' = FromPlan(b.row, p)
        BY <1>1, <4>2 DEF Upcoming, FromPlan
      <4> QED
        BY <1>1, <3>3, <4>2, <4>3, <4>4 DEF Current
    <3>5. CASE ReadLists(d)
      <4> DEFINE next == [stage |-> "lists", row |-> b.row, plan |-> b.plan, lists |-> ListRows(db, b.row, b.plan)]
      <4>1. b.stage = "plan" /\ build'[d] = next
        BY <1>1, <3>5 DEF ReadLists, BuildStep
      <4>2. /\ build'[d].stage = "lists" /\ build'[d].row = b.row /\ build'[d].plan = b.plan
            /\ build'[d].lists = ListRows(db, b.row, b.plan)
        BY <4>1
      <4> QED
        BY <1>1, <3>3, <4>1, <4>2 DEF Current, Upcoming, FromPlan
    <3>6. CASE ReadFolders(d)
      <4> DEFINE next == [stage |-> "folders", row |-> b.row, plan |-> b.plan, lists |-> b.lists,
                          folders |-> db.folders]
      <4>1. b.stage = "lists" /\ build'[d] = next
        BY <1>1, <3>6 DEF ReadFolders, BuildStep
      <4>2. /\ build'[d].stage = "folders" /\ build'[d].row = b.row /\ build'[d].plan = b.plan
            /\ build'[d].lists = b.lists /\ build'[d].folders = db.folders
        BY <4>1
      <4> QED
        BY <1>1, <3>3, <4>1, <4>2 DEF Current, Upcoming
    <3>7. CASE ReadPool(d)
      <4> DEFINE next == [stage |-> "pool", row |-> b.row, plan |-> b.plan, lists |-> b.lists,
                          folders |-> b.folders, pool |-> db.media]
      <4>1. b.stage = "folders" /\ build'[d] = next
        BY <1>1, <3>7 DEF ReadPool, BuildStep
      <4>2. /\ build'[d].stage = "pool" /\ build'[d].row = b.row /\ build'[d].plan = b.plan
            /\ build'[d].lists = b.lists /\ build'[d].folders = b.folders /\ build'[d].pool = db.media
        BY <4>1
      <4> QED
        BY <1>1, <3>3, <4>1, <4>2 DEF Current, Upcoming
    <3>9. CASE ReadOwn(d)
      <4>1. /\ b.stage = "pool" /\ build'[d] = NoBuild
            /\ copy'[d] = Assemble(b.row, b.plan, b.lists, b.folders, b.pool, db.media)
        BY <1>1, <3>9 DEF ReadOwn, BuildStep
      <4>2. NoBuild.stage = "none"
        BY DEF NoBuild
      <4> QED
        BY <1>1, <3>3, <4>1, <4>2 DEF Current, Upcoming
    <3> QED
      BY <2>2, <3>4, <3>5, <3>6, <3>7, <3>8, <3>9 DEF BuildSteps
  <2> QED
    BY <2>1, <2>2
<1> QED
  BY <1>4, <1>5 DEF UpcomingIsCurrent, Current

LEMMA InitIsCurrent ==
  ASSUME Init
  PROVE  UpcomingIsCurrent
<1>1. \A d \in Devices : build[d] = NoBuild /\ NoBuild.stage = "none" /\ copy[d] = Manifest(db, d)
  BY DEF Init, NoBuild
<1> QED
  BY <1>1 DEF UpcomingIsCurrent, Upcoming

\* Whatever the order of the edits and of the queries of a build, a device that has nothing to be told
\* has, or will have at the end of its build, the manifest the database describes.
THEOREM UpcomingAreCurrent == Spec => []UpcomingIsCurrent
<1>1. Init => UpcomingIsCurrent
  BY InitIsCurrent
<1>2. TypeOK /\ KnownInv /\ UpcomingIsCurrent /\ [Next]_vars => UpcomingIsCurrent'
  <2> SUFFICES ASSUME TypeOK, KnownInv, UpcomingIsCurrent, [Next]_vars PROVE UpcomingIsCurrent'
    OBVIOUS
  <2>1. ASSUME NEW m \in Media, FinishProcessing(m) PROVE UpcomingIsCurrent'
    BY <2>1 DEF FinishProcessing, UpcomingIsCurrent, Told
  <2>2. ASSUME UNCHANGED vars PROVE UpcomingIsCurrent'
    <3> SUFFICES ASSUME NEW d \in Devices, ~Told(d)' PROVE Current(d)'
      BY DEF UpcomingIsCurrent, Current
    <3>1. UNCHANGED <<db, request, owed, silent, build, copy>>
      BY <2>2 DEF vars
    <3>2. ~Told(d)
      BY <3>1 DEF Told, Audience, Affected, Body
    <3> QED
      BY <3>1, <3>2, CurrentStays DEF UpcomingIsCurrent, Current
  <2> QED
    BY <2>1, <2>2, StepCases, ArrivalCurrent, CommitCurrent, PublishCurrent, BuildCurrent
<1> QED
  BY <1>1, <1>2, RowsStaySound, PTL DEF Spec

\* Once what was written has been published, and a device has acted on what it was told, its copy is
\* the manifest the database describes.
THEOREM CopiesAreCurrent == Spec => []CopyIsCurrent
<1>1. TypeOK /\ UpcomingIsCurrent => CopyIsCurrent
  <2> SUFFICES ASSUME TypeOK, UpcomingIsCurrent, NEW d \in Live(db.devices) \ (owed \cup silent),
                      \A r \in Requests : request[r].stage \notin {"half", "publish"},
                      build[d].stage = "none"
               PROVE  copy[d] = Manifest(db, d)
    BY DEF CopyIsCurrent
  <2>1. d \in Devices
    BY Tables DEF TypeOK, Live
  <2>2. ~Told(d)
    BY DEF Told
  <2> QED
    BY <2>1, <2>2 DEF UpcomingIsCurrent, Upcoming
<1> QED
  BY <1>1, RowsStaySound, UpcomingAreCurrent, PTL

-------------------------------------------------------------------------------
(* What the dashboard counts before a deletion.                            *)

\* The playlists a device shows outside of an emergency.
Shows(row, plan) == {row.default} \cup {plan.schedules[s] : s \in DOMAIN plan.schedules}

\* A device that is not counted shows none of the playlists with one of the entries.
LEMMA WantedCounted ==
  ASSUME db \in Database, NEW d \in Live(db.devices), NEW row, row = DeviceRow(db, d),
         NEW plan, plan = Plan(db, d, row),
         NEW entries, d \notin AffectedDevices(PlaylistsWith(entries)),
         NEW p \in Live(db.playlists) \cap Shows(row, plan)
  PROVE  Listed(p) \cap entries = {}
<1> DEFINE ps == PlaylistsWith(entries)
<1>1. d \in Devices
  BY Tables DEF Live
<1>2. plan.schedules = [s \in SchedulesFor(db, d, row.groups) |-> db.schedules[s].playlist]
  BY DEF Plan, Timetable
<1>3. p \notin ps
  <2>1. CASE p = row.default
    BY <2>1 DEF AffectedDevices, DeviceRow
  <2>2. CASE \E s \in SchedulesFor(db, d, row.groups) : db.schedules[s].playlist = p
    BY <1>1, <2>2 DEF AffectedDevices, DeviceRow, SchedulesFor, Targets
  <2> QED
    BY <1>2, <2>1, <2>2 DEF Shows
<1> QED
  BY <1>3 DEF PlaylistsWith

\* What a deletion leaves as it is: the rows of such a playlist.
LEMMA ListedKept ==
  ASSUME db \in Database, NEW new, NEW refs, Trimmed(db, new, refs), NEW row, NEW plan,
         NEW p \in Live(db.playlists) \cap WantedLists(row, plan), \A e \in Listed(p) : e.ref \notin refs
  PROVE  ListRows(new, row, plan).lists[p] = ListRows(db, row, plan).lists[p]
<1> DEFINE lists == Live(db.playlists) \cap WantedLists(row, plan)
<1>1. /\ DOMAIN db.playlists = Playlists /\ DOMAIN new.playlists = Playlists
      /\ \A q \in Playlists : DOMAIN db.rules[q] = Rules /\ DOMAIN new.rules[q] = Rules
  BY Tables DEF Trimmed
<1>4. Live(new.playlists) \cap WantedLists(row, plan) = lists
  BY <1>1 DEF Trimmed, Live
<1>5. p \in Playlists
  BY <1>1 DEF Live
<1>6. /\ new.playlists[p].ruled = db.playlists[p].ruled
      /\ new.playlists[p].items = db.playlists[p].items
      /\ {y \in Live(new.rules[p]) : new.rules[p][y].enabled}
           = {y \in Live(db.rules[p]) : db.rules[p][y].enabled}
      /\ \A x \in Live(db.rules[p]) : new.rules[p][x].picks = db.rules[p][x].picks
  <2>1. p \in Playlists
    BY <1>5
  <2>2. \A e \in db.playlists[p].items : e.ref \notin refs
    BY DEF Listed
  <2>3. \A x \in Live(db.rules[p]) : \A e \in db.rules[p][x].picks : e.ref \notin refs
    BY DEF Listed
  <2>4. new.playlists[p].items = db.playlists[p].items
    BY <2>1, <2>2 DEF Trimmed
  <2>5. ASSUME NEW x \in Live(db.rules[p]) PROVE new.rules[p][x].picks = db.rules[p][x].picks
    <3>1. x \in Rules
      BY <1>1, <2>1 DEF Live
    <3>2. new.rules[p][x].picks = {e \in db.rules[p][x].picks : e.ref \notin refs}
      BY <2>1, <3>1 DEF Trimmed
    <3> QED
      BY <2>3, <3>2
  <2>6. \A y \in Rules : /\ new.rules[p][y].state = db.rules[p][y].state
                         /\ new.rules[p][y].enabled = db.rules[p][y].enabled
    BY <2>1 DEF Trimmed
  <2>7. {y \in Live(new.rules[p]) : new.rules[p][y].enabled}
          = {y \in Live(db.rules[p]) : db.rules[p][y].enabled}
    BY <1>1, <2>1, <2>6 DEF Live
  <2> QED
    BY <2>1, <2>4, <2>5, <2>7 DEF Trimmed
<1>7. [x \in {y \in Live(db.rules[p]) : db.rules[p][y].enabled} |-> db.rules[p][x].picks]
        = [x \in {y \in Live(new.rules[p]) : new.rules[p][y].enabled} |-> new.rules[p][x].picks]
  BY <1>6
<1>8. p \in lists
  OBVIOUS
<1> HIDE DEF lists
<1>9. /\ ListRows(db, row, plan).lists[p]
           = [ruled |-> db.playlists[p].ruled, items |-> db.playlists[p].items,
              rules |-> [x \in {y \in Live(db.rules[p]) : db.rules[p][y].enabled} |-> db.rules[p][x].picks]]
      /\ ListRows(new, row, plan).lists[p]
           = [ruled |-> new.playlists[p].ruled, items |-> new.playlists[p].items,
              rules |-> [x \in {y \in Live(new.rules[p]) : new.rules[p][y].enabled} |-> new.rules[p][x].picks]]
  BY <1>4, <1>8 DEF ListRows, lists
<1> QED
  BY <1>6, <1>7, <1>9

\* ... and whatever a manifest does not fill with media.
LEMMA AfterDeletion ==
  ASSUME db \in Database, NEW new, NEW refs, Trimmed(db, new, refs), NEW d,
         NEW row, row = DeviceRow(db, d), NEW plan, plan = Plan(db, d, row),
         NEW one, one = ListRows(db, row, plan), NEW other, other = ListRows(new, row, plan),
         NEW old, old = Manifest(db, d), NEW now, now = Manifest(new, d)
  PROVE  /\ now.default = old.default /\ now.schedules = old.schedules
         /\ DOMAIN old.lists = Live(db.playlists) \cap WantedLists(row, plan)
         /\ DOMAIN now.lists = DOMAIN old.lists
         /\ \A p \in DOMAIN old.lists :
              /\ old.lists[p] = Contents(one.lists[p], one, db.folders, db.media)
              /\ now.lists[p] = Contents(other.lists[p], other, new.folders, new.media)
         /\ DOMAIN one.names = Playable(db.media) /\ DOMAIN other.names = Playable(new.media)
         /\ \A p \in DOMAIN old.lists :
              p \in {old.default} \cup {old.schedules[s] : s \in DOMAIN old.schedules} => p \in Shows(row, plan)
<1> DEFINE lists == Live(db.playlists) \cap WantedLists(row, plan)
<1>1. /\ new.members = db.members /\ new.devices = db.devices /\ new.schedules = db.schedules
      /\ new.overrides = db.overrides
      /\ DOMAIN db.playlists = Playlists /\ DOMAIN new.playlists = Playlists
  BY Tables DEF Trimmed
<1>2. DeviceRow(new, d) = row /\ Plan(new, d, row) = plan
  BY <1>1 DEF DeviceRow, Plan, Timetable, SchedulesFor, OverrideFor
<1>3. Live(new.playlists) \cap WantedLists(row, plan) = lists
  BY <1>1 DEF Trimmed, Live
<1>4. /\ DOMAIN one.lists = lists /\ DOMAIN other.lists = lists
      /\ DOMAIN one.names = Playable(db.media) /\ DOMAIN other.names = Playable(new.media)
  BY <1>3 DEF ListRows
<1>5. /\ old = Assemble(row, plan, one, db.folders, db.media, db.media)
      /\ now = Assemble(row, plan, other, new.folders, new.media, new.media)
  BY <1>2 DEF Manifest
<1>6. None \notin lists
  BY <1>1, LibraryAssumption DEF Live
<1> HIDE DEF lists
<1>7. /\ old.lists = [p \in lists |-> Contents(one.lists[p], one, db.folders, db.media)]
      /\ now.lists = [p \in lists |-> Contents(other.lists[p], other, new.folders, new.media)]
  BY <1>4, <1>5 DEF Assemble
<1>8. /\ old.default = (IF row.default \in lists THEN row.default ELSE None)
      /\ now.default = old.default
      /\ old.schedules = [s \in {t \in DOMAIN plan.schedules : plan.schedules[t] \in lists} |-> plan.schedules[s]]
      /\ now.schedules = old.schedules
  BY <1>4, <1>5 DEF Assemble, Kept
<1>9. \A p \in lists :
        p \in {old.default} \cup {old.schedules[s] : s \in DOMAIN old.schedules} => p \in Shows(row, plan)
  BY <1>6, <1>8 DEF Shows
<1> QED
  BY <1>4, <1>7, <1>8, <1>9 DEF lists

\* Such a device plays what it did ...
LEMMA Untouched ==
  ASSUME db \in Database, NEW new, NEW refs, Trimmed(db, new, refs),
         NEW d \in Live(db.devices), NEW row, row = DeviceRow(db, d),
         NEW plan, plan = Plan(db, d, row),
         \A p \in Live(db.playlists) \cap Shows(row, plan) : \A e \in Listed(p) :
           /\ e.ref \notin refs
           /\ \A one, other : DOMAIN one.names = Playable(db.media) /\ DOMAIN other.names = Playable(new.media) =>
                Expand(other, new.folders, new.media, e) = Expand(one, db.folders, db.media, e)
  PROVE  Airtime(Manifest(new, d)) = Airtime(Manifest(db, d))
<1>1. PICK old, now, one, other :
        /\ old = Manifest(db, d) /\ now = Manifest(new, d)
        /\ one = ListRows(db, row, plan) /\ other = ListRows(new, row, plan)
  OBVIOUS
<1> DEFINE ps == {old.default} \cup {old.schedules[s] : s \in DOMAIN old.schedules}
<1>2. /\ now.default = old.default /\ now.schedules = old.schedules
      /\ DOMAIN old.lists = Live(db.playlists) \cap WantedLists(row, plan)
      /\ DOMAIN now.lists = DOMAIN old.lists
      /\ \A p \in DOMAIN old.lists :
           /\ old.lists[p] = Contents(one.lists[p], one, db.folders, db.media)
           /\ now.lists[p] = Contents(other.lists[p], other, new.folders, new.media)
      /\ DOMAIN one.names = Playable(db.media) /\ DOMAIN other.names = Playable(new.media)
      /\ \A p \in DOMAIN old.lists : p \in ps => p \in Shows(row, plan)
  BY <1>1, AfterDeletion
<1> HIDE DEF ps
<1>3. ASSUME NEW p \in ps \cap DOMAIN old.lists PROVE now.lists[p] = old.lists[p]
  <2>1. p \in Live(db.playlists) \cap Shows(row, plan) /\ p \in Live(db.playlists) \cap WantedLists(row, plan)
    BY <1>2, <1>3
  <2>2. other.lists[p] = one.lists[p]
    BY <1>1, <2>1, ListedKept
  <2>3. PICK l : l = one.lists[p]
    OBVIOUS
  <2>4. l.items \subseteq Listed(p) /\ \A x \in DOMAIN l.rules : l.rules[x] \subseteq Listed(p)
    BY <1>1, <2>1, <2>3 DEF ListRows, Listed
  <2>5. \A e \in Listed(p) : Expand(other, new.folders, new.media, e) = Expand(one, db.folders, db.media, e)
    BY <1>2, <2>1
  <2>6. /\ \A e \in l.items : Expand(other, new.folders, new.media, e) = Expand(one, db.folders, db.media, e)
        /\ \A x \in DOMAIN l.rules : \A e \in l.rules[x] :
             Expand(other, new.folders, new.media, e) = Expand(one, db.folders, db.media, e)
    BY <2>4, <2>5
  <2>7. Contents(l, other, new.folders, new.media) = Contents(l, one, db.folders, db.media)
    BY <2>6, ContentsSame
  <2> QED
    BY <1>2, <2>2, <2>3, <2>7
<1>4. [p \in ps \cap DOMAIN now.lists |-> now.lists[p]] = [p \in ps \cap DOMAIN old.lists |-> old.lists[p]]
  BY <1>2, <1>3
<1>5. Airtime(now) = Airtime(old)
  BY <1>2, <1>4 DEF Airtime, ps
<1> QED
  BY <1>1, <1>5

\* ... or more, where its entries have come to stand for more.
LEMMA OnlyGains ==
  ASSUME db \in Database, NEW new, NEW refs, Trimmed(db, new, refs),
         NEW d \in Live(db.devices), NEW row, row = DeviceRow(db, d),
         NEW plan, plan = Plan(db, d, row),
         \A p \in Live(db.playlists) \cap Shows(row, plan) : \A e \in Listed(p) :
           /\ e.ref \notin refs
           /\ \A one, other : DOMAIN one.names = Playable(db.media) /\ DOMAIN other.names = Playable(new.media) =>
                Expand(one, db.folders, db.media, e) \subseteq Expand(other, new.folders, new.media, e)
  PROVE  KeepsAll(Airtime(Manifest(db, d)), Airtime(Manifest(new, d)))
<1>1. PICK old, now, one, other :
        /\ old = Manifest(db, d) /\ now = Manifest(new, d)
        /\ one = ListRows(db, row, plan) /\ other = ListRows(new, row, plan)
  OBVIOUS
<1> DEFINE ps == {old.default} \cup {old.schedules[s] : s \in DOMAIN old.schedules}
<1>2. /\ now.default = old.default /\ now.schedules = old.schedules
      /\ DOMAIN old.lists = Live(db.playlists) \cap WantedLists(row, plan)
      /\ DOMAIN now.lists = DOMAIN old.lists
      /\ \A p \in DOMAIN old.lists :
           /\ old.lists[p] = Contents(one.lists[p], one, db.folders, db.media)
           /\ now.lists[p] = Contents(other.lists[p], other, new.folders, new.media)
      /\ DOMAIN one.names = Playable(db.media) /\ DOMAIN other.names = Playable(new.media)
      /\ \A p \in DOMAIN old.lists : p \in ps => p \in Shows(row, plan)
  BY <1>1, AfterDeletion
<1> HIDE DEF ps
<1>3. ASSUME NEW p \in ps \cap DOMAIN old.lists
      PROVE  /\ old.lists[p].items \subseteq now.lists[p].items
             /\ \A x \in DOMAIN old.lists[p].rules :
                  x \in DOMAIN now.lists[p].rules /\ old.lists[p].rules[x] \subseteq now.lists[p].rules[x]
  <2>1. p \in Live(db.playlists) \cap Shows(row, plan) /\ p \in Live(db.playlists) \cap WantedLists(row, plan)
    BY <1>2, <1>3
  <2>2. other.lists[p] = one.lists[p]
    BY <1>1, <2>1, ListedKept
  <2>3. PICK l : l = one.lists[p]
    OBVIOUS
  <2>4. l.items \subseteq Listed(p) /\ \A x \in DOMAIN l.rules : l.rules[x] \subseteq Listed(p)
    BY <1>1, <2>1, <2>3 DEF ListRows, Listed
  <2>5. \A e \in Listed(p) : Expand(one, db.folders, db.media, e) \subseteq Expand(other, new.folders, new.media, e)
    BY <1>2, <2>1
  <2>6. old.lists[p] = Contents(l, one, db.folders, db.media)
        /\ now.lists[p] = Contents(l, other, new.folders, new.media)
    BY <1>2, <2>2, <2>3
  <2>7. \A x \in DOMAIN l.rules :
          Picked(one, db.folders, db.media, l.rules[x]) \subseteq Picked(other, new.folders, new.media, l.rules[x])
    BY <2>4, <2>5 DEF Picked
  <2>8. old.lists[p].items \subseteq now.lists[p].items
    BY <2>4, <2>5, <2>6 DEF Contents
  <2>9. ASSUME NEW x \in DOMAIN old.lists[p].rules
        PROVE  x \in DOMAIN now.lists[p].rules /\ old.lists[p].rules[x] \subseteq now.lists[p].rules[x]
    <3>1. /\ l.ruled /\ x \in DOMAIN l.rules /\ Picked(one, db.folders, db.media, l.rules[x]) # {}
          /\ old.lists[p].rules[x] = Picked(one, db.folders, db.media, l.rules[x])
      BY <2>6, <2>9 DEF Contents
    <3>2. Picked(other, new.folders, new.media, l.rules[x]) # {}
      BY <2>7, <3>1
    <3>3. /\ x \in DOMAIN now.lists[p].rules
          /\ now.lists[p].rules[x] = Picked(other, new.folders, new.media, l.rules[x])
      BY <2>6, <3>1, <3>2 DEF Contents
    <3> QED
      BY <2>7, <3>1, <3>3
  <2> QED
    BY <2>8, <2>9
<1>4. /\ Airtime(old) = [default |-> old.default, schedules |-> old.schedules,
                         lists |-> [p \in ps \cap DOMAIN old.lists |-> old.lists[p]]]
      /\ Airtime(now) = [default |-> old.default, schedules |-> old.schedules,
                         lists |-> [p \in ps \cap DOMAIN old.lists |-> now.lists[p]]]
  BY <1>2 DEF Airtime, ps
<1>5. KeepsAll(Airtime(old), Airtime(now))
  BY <1>3, <1>4 DEF KeepsAll
<1> QED
  BY <1>1, <1>5

\* A deleted medium is missed by the devices that are counted alone.
LEMMA MediaUsageRight ==
  ASSUME db \in Database, NEW d \in Live(db.devices),
         NEW m \in Usable(db.media), d \notin MediaUsage(m)
  PROVE  Airtime(Manifest(WithoutMedia(db, {m}), d)) = Airtime(Manifest(db, d))
<1> DEFINE reaches(e) == /\ e.ref \in Folders /\ m \in e.only
                         /\ db.media[m].folder \in ExpandFolderIds(db.folders, e)
           entries == {e \in AllListed : e.ref = m \/ reaches(e)}
<1>1. PICK new, refs, row, plan :
        /\ new = WithoutMedia(db, refs) /\ refs = {m}
        /\ row = DeviceRow(db, d) /\ plan = Plan(db, d, row)
  OBVIOUS
<1>3. /\ Trimmed(db, new, refs) /\ new.folders = db.folders
      /\ \A x \in Media : /\ new.media[x].folder = db.media[x].folder
                          /\ new.media[x].state = IF x = m THEN "gone" ELSE db.media[x].state
  BY <1>1, WithoutMediaRows
<1>4. DOMAIN db.media = Media /\ DOMAIN new.media = Media
  BY <1>3, Tables DEF Trimmed
<1>5. Playable(new.media) = Playable(db.media) \ {m}
  BY <1>3, <1>4 DEF Playable
<1>6. d \notin AffectedDevices(PlaylistsWith(entries))
  BY DEF MediaUsage
<1>7. ASSUME NEW p \in Live(db.playlists) \cap Shows(row, plan), NEW e \in Listed(p)
      PROVE  /\ e.ref \notin refs
             /\ \A one, other : DOMAIN one.names = Playable(db.media) /\ DOMAIN other.names = Playable(new.media) =>
                  Expand(other, new.folders, new.media, e) = Expand(one, db.folders, db.media, e)
  <2>1. e \notin entries /\ e \in AllListed
    <3> HIDE DEF entries
    <3>1. Listed(p) \cap entries = {}
      BY <1>1, <1>6, WantedCounted
    <3> QED
      BY <3>1 DEF AllListed
  <2>2. e.ref # m /\ ~reaches(e)
    BY <2>1
  <2>3. e.ref \in Media \cup Folders
    <3>1. p \in Playlists /\ DOMAIN db.rules[p] = Rules
      BY Tables DEF Live
    <3>2. e \in Entries
      BY <3>1, Tables DEF Listed, Live, PlaylistRows, RuleRows
    <3> QED
      BY <3>2 DEF Entries
  <2>4. ASSUME e.ref \notin Media
        PROVE  {x \in Playable(new.media) : new.media[x].folder \in ExpandFolderIds(db.folders, e)} \cap e.only
                 = {x \in Playable(db.media) : db.media[x].folder \in ExpandFolderIds(db.folders, e)} \cap e.only
    BY <1>3, <1>4, <1>5, <2>2, <2>3, <2>4 DEF Playable
  <2>5. ASSUME NEW one, NEW other, DOMAIN one.names = Playable(db.media), DOMAIN other.names = Playable(new.media)
        PROVE  Expand(other, new.folders, new.media, e) = Expand(one, db.folders, db.media, e)
    <3>1. CASE e.ref \in Media
      BY <1>5, <2>2, <2>5, <3>1 DEF Expand
    <3>2. CASE e.ref \notin Media
      BY <1>3, <2>4, <3>2 DEF Expand
    <3> QED
      BY <3>1, <3>2
  <2> QED
    BY <1>1, <2>2, <2>5
<1>8. Airtime(Manifest(new, d)) = Airtime(Manifest(db, d))
  BY <1>1, <1>3, <1>7, Untouched
<1> QED
  BY <1>1, <1>8

\* So is a deleted folder, with what is below it and in it; the others may gain by it.
LEMMA FolderUsageRight ==
  ASSUME db \in Database, NEW d \in Live(db.devices), NEW f \in LiveFolders(db.folders),
         NEW s \in {"move_to_root", "move_to_folder", "delete_media"}, NEW i \in Inodes,
         d \notin FolderUsage(f)
  PROVE  LET after == Airtime(Manifest(WithoutFolders(db, Descendants(db.folders, f), s, i), d))
         IN /\ KeepsAll(Airtime(Manifest(db, d)), after)
            /\ i = Root => after = Airtime(Manifest(db, d))
<1>1. PICK fs : fs = Descendants(db.folders, f)
  OBVIOUS
<1> DEFINE reaches(e) == e.ref \in Folders /\ ExpandFolderIds(db.folders, e) \cap fs # {}
<1>2. PICK inside : inside = Inside(db, fs)
  OBVIOUS
<1> DEFINE entries == {e \in AllListed : e.ref \in inside \/ reaches(e)}
<1>3. PICK new, row, plan, refs :
        /\ new = WithoutFolders(db, fs, s, i)
        /\ row = DeviceRow(db, d) /\ plan = Plan(db, d, row)
        /\ refs = IF s = "delete_media" THEN inside \cup fs ELSE fs
  OBVIOUS
<1>5. /\ Trimmed(db, new, refs)
      /\ \A m \in Media \ inside : new.media[m] = db.media[m]
      /\ \A m \in inside :
           IF s = "delete_media"
             THEN new.media[m].state = "gone" /\ new.media[m].folder = db.media[m].folder
             ELSE new.media[m].state = db.media[m].state /\ new.media[m].folder = i
      /\ \A g \in Folders : /\ new.folders[g].parent = db.folders[g].parent
                            /\ new.folders[g].name = db.folders[g].name
                            /\ new.folders[g].state = IF g \in fs THEN "gone" ELSE db.folders[g].state
  <2>1. new = WithoutFolders(db, fs, s, i) /\ refs = IF s = "delete_media" THEN inside \cup fs ELSE fs
    BY <1>3
  <2> HIDE DEF reaches, entries
  <2> QED
    BY <1>2, <2>1, WithoutFoldersRows
<1>6. DOMAIN db.media = Media /\ DOMAIN new.media = Media
  BY <1>5, Tables DEF Trimmed
<1>7. fs \subseteq LiveFolders(db.folders) /\ fs \subseteq Folders
  BY <1>1, DescendantsLive DEF LiveFolders
<1>8. LiveFolders(new.folders) = LiveFolders(db.folders) \ fs
  BY <1>5 DEF LiveFolders
<1>9. d \notin AffectedDevices(PlaylistsWith(entries))
  BY <1>1, <1>2 DEF FolderUsage, Inside
<1>10. ASSUME NEW p \in Live(db.playlists) \cap Shows(row, plan), NEW e \in Listed(p)
       PROVE  /\ e.ref \notin refs
              /\ \A one, other : DOMAIN one.names = Playable(db.media) /\ DOMAIN other.names = Playable(new.media) =>
                   /\ Expand(one, db.folders, db.media, e) \subseteq Expand(other, new.folders, new.media, e)
                   /\ i = Root =>
                        Expand(other, new.folders, new.media, e) = Expand(one, db.folders, db.media, e)
  <2>1. e \notin entries /\ e \in AllListed
    <3> HIDE DEF entries
    <3>1. Listed(p) \cap entries = {}
      BY <1>3, <1>9, WantedCounted
    <3> QED
      BY <3>1 DEF AllListed
  <2>2. e.ref \notin inside /\ ~reaches(e)
    BY <2>1
  <2>3. e.ref \in Media \cup Folders
    <3>1. p \in Playlists /\ DOMAIN db.rules[p] = Rules
      BY Tables DEF Live
    <3>2. e \in Entries
      BY <3>1, Tables DEF Listed, Live, PlaylistRows, RuleRows
    <3> QED
      BY <3>2 DEF Entries
  <2> DEFINE ids == ExpandFolderIds(db.folders, e)
  <2>4. e.ref \notin fs
    <3> SUFFICES ASSUME e.ref \in fs PROVE FALSE
      OBVIOUS
    <3>1. e.ref \in LiveFolders(db.folders) /\ e.ref \in Folders
      BY <1>7
    <3>2. e.ref \in ids
      BY <3>1, DescendantsClosed DEF ExpandFolderIds
    <3> QED
      BY <2>2, <3>1, <3>2
  <2>5. CASE e.ref \in Media
    <3>1. e.ref \in Playable(new.media) <=> e.ref \in Playable(db.media)
      BY <1>5, <1>6, <2>2, <2>5 DEF Playable
    <3> QED
      BY <1>3, <2>2, <2>4, <2>5, <3>1 DEF Expand
  <2>6. CASE e.ref \notin Media
    <3>1. e.ref \in Folders /\ ids \cap fs = {}
      BY <2>2, <2>3, <2>6
    <3>2. ids \subseteq Folders
      BY <3>1, DescendantsClosed DEF ExpandFolderIds
    <3>3. ExpandFolderIds(new.folders, e) = ids
      <4>1. CASE e.ref \notin LiveFolders(db.folders)
        BY <1>8, <4>1 DEF ExpandFolderIds
      <4>2. CASE e.ref \in LiveFolders(db.folders)
        <5>1. e.ref \in LiveFolders(new.folders)
          BY <1>8, <2>4, <4>2
        <5>2. CASE e.sub
          <6>1. Descendants(db.folders, e.ref) \cap fs = {}
            BY <3>1, <4>2, <5>2 DEF ExpandFolderIds
          <6>2. \A g \in LiveFolders(new.folders) : new.folders[g].parent = db.folders[g].parent
            BY <1>5 DEF LiveFolders
          <6>3. Descendants(new.folders, e.ref) = Descendants(db.folders, e.ref)
            BY <1>8, <3>1, <6>1, <6>2, DescendantsRemain
          <6> QED
            BY <4>2, <5>1, <5>2, <6>3 DEF ExpandFolderIds
        <5>3. CASE ~e.sub
          BY <4>2, <5>1, <5>3 DEF ExpandFolderIds
        <5> QED
          BY <5>2, <5>3
      <4> QED
        BY <4>1, <4>2
    <3> HIDE DEF ids
    <3>4. \A m \in inside : db.media[m].folder \in fs /\ m \in Media
      BY <1>2, <1>6 DEF Inside, Usable
    <3>5. ASSUME NEW m \in Media
          PROVE  /\ m \in Playable(db.media) /\ db.media[m].folder \in ids
                      => m \in Playable(new.media) /\ new.media[m].folder \in ids
                 /\ i = Root /\ m \in Playable(new.media) /\ new.media[m].folder \in ids
                      => m \in Playable(db.media) /\ db.media[m].folder \in ids
      <4>1. CASE m \notin inside
        BY <1>5, <1>6, <4>1 DEF Playable
      <4>2. CASE m \in inside
        <5>1. db.media[m].folder \notin ids
          BY <3>1, <3>4, <4>2
        <5>2. new.media[m].state = "gone" \/ new.media[m].folder = i
          BY <1>5, <4>2
        <5> QED
          BY <1>6, <3>2, <5>1, <5>2, LibraryAssumption DEF Playable
      <4> QED
        BY <4>1, <4>2
    <3> DEFINE before == {m \in Playable(db.media) : db.media[m].folder \in ids}
               after == {m \in Playable(new.media) : new.media[m].folder \in ids}
    <3>6. before \subseteq after /\ (i = Root => after = before)
      BY <1>6, <3>5 DEF Playable
    <3>7. e.ref \notin refs
      BY <1>3, <2>2, <2>4
    <3> QED
      BY <2>6, <3>3, <3>6, <3>7 DEF Expand, ids
  <2> QED
    BY <2>5, <2>6
<1>11. KeepsAll(Airtime(Manifest(db, d)), Airtime(Manifest(new, d)))
  BY <1>3, <1>5, <1>10, OnlyGains
<1>12. i = Root => Airtime(Manifest(new, d)) = Airtime(Manifest(db, d))
  BY <1>3, <1>5, <1>10, Untouched
<1> QED
  BY <1>1, <1>3, <1>11, <1>12

\* No deletion takes from a screen, outside of an emergency, what the dashboard has not counted it for,
\* and only one that moves media to another folder adds anything.
THEOREM DeletionsAreAnnounced == Spec => []UsageWarns
<1>1. TypeOK => UsageWarns
  <2> SUFFICES ASSUME TypeOK, NEW d \in Live(db.devices)
               PROVE  LET now == Airtime(Manifest(db, d)) IN
                      /\ \A m \in Usable(db.media) \ {k \in Media : d \in MediaUsage(k)} :
                           Airtime(Manifest(WithoutMedia(db, {m}), d)) = now
                      /\ \A f \in LiveFolders(db.folders) \ {k \in Folders : d \in FolderUsage(k)} :
                           LET fs == Descendants(db.folders, f)
                               after(s, i) == Airtime(Manifest(WithoutFolders(db, fs, s, i), d))
                           IN /\ after("delete_media", Root) = now /\ after("move_to_root", Root) = now
                              /\ \A g \in LiveFolders(db.folders) \ fs :
                                   KeepsAll(now, after("move_to_folder", g))
    BY DEF UsageWarns
  <2>1. db \in Database /\ Usable(db.media) \subseteq Media
    BY Tables DEF TypeOK, Usable
  <2>2. \A m \in Usable(db.media) \ {k \in Media : d \in MediaUsage(k)} :
          Airtime(Manifest(WithoutMedia(db, {m}), d)) = Airtime(Manifest(db, d))
    BY <2>1, MediaUsageRight
  <2>3. ASSUME NEW f \in LiveFolders(db.folders), f \notin {k \in Folders : d \in FolderUsage(k)},
               NEW s \in {"move_to_root", "move_to_folder", "delete_media"}, NEW i \in Inodes
        PROVE  LET after == Airtime(Manifest(WithoutFolders(db, Descendants(db.folders, f), s, i), d))
               IN /\ KeepsAll(Airtime(Manifest(db, d)), after)
                  /\ i = Root => after = Airtime(Manifest(db, d))
    <3>1. d \notin FolderUsage(f)
      BY <2>3 DEF LiveFolders
    <3> QED
      BY <2>1, <3>1, FolderUsageRight
  <2>4. Root \in Inodes /\ LiveFolders(db.folders) \subseteq Inodes
    BY DEF Inodes, LiveFolders
  <2> QED
    BY <2>2, <2>3, <2>4
<1> QED
  BY <1>1, RowsStaySound, PTL

-------------------------------------------------------------------------------
(* The folders stay a forest.                                              *)

\* Of two folders below each other, one is the other.
LEMMA DescendantsStep ==
  ASSUME NEW fs, NEW f \in Folders, NEW g \in Folders
  PROVE  /\ g \in Descendants(fs, f) => Descendants(fs, g) \subseteq Descendants(fs, f)
         /\ g \in Descendants(fs, f) /\ g # f
              => g \in LiveFolders(fs) /\ fs[g].parent \in Descendants(fs, f)
<1> DEFINE D == Descendants(fs, f)
<1>1. /\ f \in D /\ D \in SUBSET Folders /\ Closed(fs, D)
      /\ \A S \in SUBSET Folders : f \in S /\ Closed(fs, S) => D \subseteq S
  BY DescendantsClosed
<1>2. g \in D => Descendants(fs, g) \subseteq D
  <2> HIDE DEF D
  <2> QED
    BY <1>1, DescendantsClosed
<1>3. ASSUME g \in D, g # f, ~(g \in LiveFolders(fs) /\ fs[g].parent \in D) PROVE FALSE
  <2>1. Closed(fs, D \ {g})
    BY <1>1, <1>3 DEF Closed
  <2> HIDE DEF D
  <2>2. D \subseteq D \ {g}
    BY <1>1, <1>3, <2>1
  <2> QED
    BY <1>3, <2>2
<1> QED
  BY <1>2, <1>3

\* A folder moves to where it is not below itself, and nothing else there has its name.
LEMMA ForestMoved ==
  ASSUME NEW fs, NEW new, Forest(fs), NEW f \in LiveFolders(fs),
         LiveFolders(new) = LiveFolders(fs),
         \A g \in LiveFolders(fs) \ {f} : new[g].parent = fs[g].parent /\ new[g].name = fs[g].name,
         new[f].parent \in (LiveFolders(fs) \cup {Root}) \ Descendants(fs, f),
         \A g \in LiveFolders(fs) \ {f} : ~(fs[g].parent = new[f].parent /\ fs[g].name = new[f].name)
  PROVE  Forest(new)
<1> DEFINE B == Descendants(fs, f)
<1>1. LiveFolders(fs) \subseteq Folders
  BY DEF LiveFolders
<1>2. Closed(new, B) /\ Closed(fs, B) /\ f \in B /\ B \in SUBSET Folders
  BY <1>1, DescendantsClosed DEF Closed
<1> HIDE DEF B
<1>3. ASSUME NEW g \in LiveFolders(fs) PROVE new[g].parent \notin Descendants(new, g)
  <2> DEFINE D == Descendants(fs, g)
  <2>1. g \in D /\ D \in SUBSET Folders /\ Closed(fs, D)
    BY <1>1, DescendantsClosed
  <2>2. CASE g = f
    <3>1. Descendants(new, f) \subseteq B
      BY <1>2, DescendantsClosed, <1>1
    <3> QED
      BY <2>2, <3>1 DEF B
  <2>3. CASE g # f /\ g \in B
    <3>1. D \subseteq B
      BY <1>1, <2>3, DescendantsStep DEF B
    <3>2. fs[f].parent \notin B
      BY DEF Forest, B
    <3>3. f \notin D
      BY <1>1, <2>3, <3>1, <3>2, DescendantsStep
    <3>4. Closed(new, D)
      BY <2>1, <3>1 DEF Closed, B
    <3>5. Descendants(new, g) \subseteq D
      <4> HIDE DEF D
      <4> QED
        BY <1>1, <2>1, <3>4, DescendantsClosed
    <3>6. fs[g].parent \notin D
      BY DEF Forest
    <3> QED
      BY <2>3, <3>5, <3>6
  <2>4. CASE g \notin B
    <3>1. Closed(new, D \cup B)
      BY <1>2, <2>1 DEF Closed
    <3>2. Descendants(new, g) \subseteq D \cup B
      <4>1. g \in D \cup B /\ D \cup B \in SUBSET Folders
        BY <1>2, <2>1
      <4> HIDE DEF D
      <4> QED
        BY <1>1, <3>1, <4>1, DescendantsClosed
    <3>3. fs[g].parent \notin D
      BY DEF Forest
    <3>4. fs[g].parent \notin B
      BY <1>2, <2>4 DEF Closed
    <3> QED
      BY <1>2, <2>4, <3>2, <3>3, <3>4
  <2> QED
    BY <2>2, <2>3, <2>4
<1>4. \A g \in LiveFolders(fs) : new[g].parent \in LiveFolders(fs) \cup {Root}
  BY DEF Forest
<1>5. \A g, h \in LiveFolders(fs) : g # h /\ new[g].parent = new[h].parent => new[g].name # new[h].name
  BY DEF Forest
<1> QED
  BY <1>3, <1>4, <1>5 DEF Forest

\* A folder is made where nothing has its name.
LEMMA ForestGrown ==
  ASSUME NEW fs, NEW new, Forest(fs), NEW n \in Folders, n \notin LiveFolders(fs),
         LiveFolders(new) = LiveFolders(fs) \cup {n},
         \A g \in LiveFolders(fs) : new[g].parent = fs[g].parent /\ new[g].name = fs[g].name,
         new[n].parent \in LiveFolders(fs) \cup {Root},
         \A g \in LiveFolders(fs) : ~(fs[g].parent = new[n].parent /\ fs[g].name = new[n].name)
  PROVE  Forest(new)
<1>1. LiveFolders(fs) \subseteq Folders /\ Root \notin Folders
  BY LibraryAssumption DEF LiveFolders
<1>2. \A g \in LiveFolders(fs) : fs[g].parent # n
  BY <1>1 DEF Forest
<1>3. ASSUME NEW g \in LiveFolders(fs) PROVE new[g].parent \notin Descendants(new, g)
  <2>1. Descendants(new, g) \ {n} = Descendants(fs, g) \ {n}
    BY <1>1, <1>2, DescendantsOfNew
  <2>2. fs[g].parent \notin Descendants(fs, g)
    BY DEF Forest
  <2> QED
    BY <1>2, <2>1, <2>2
<1>4. new[n].parent \notin Descendants(new, n)
  <2>1. Closed(new, {n})
    BY <1>2 DEF Closed
  <2>2. Descendants(new, n) \subseteq {n}
    BY <2>1, DescendantsClosed
  <2> QED
    BY <1>1, <2>2
<1>5. \A g \in LiveFolders(new) : new[g].parent \in LiveFolders(new) \cup {Root}
  BY DEF Forest
<1>6. \A g, h \in LiveFolders(new) : g # h /\ new[g].parent = new[h].parent => new[g].name # new[h].name
  BY DEF Forest
<1> QED
  BY <1>3, <1>4, <1>5, <1>6 DEF Forest

\* A folder is deleted with all that is below it.
LEMMA ForestCut ==
  ASSUME NEW fs, NEW new, Forest(fs), NEW F, Closed(fs, F),
         LiveFolders(new) = LiveFolders(fs) \ F,
         \A g \in LiveFolders(new) : new[g].parent = fs[g].parent /\ new[g].name = fs[g].name
  PROVE  Forest(new)
<1>1. LiveFolders(fs) \subseteq Folders
  BY DEF LiveFolders
<1>2. ASSUME NEW g \in LiveFolders(new) PROVE new[g].parent \notin Descendants(new, g)
  <2>1. Closed(new, Descendants(fs, g))
    BY <1>1, DescendantsClosed DEF Closed
  <2>2. Descendants(new, g) \subseteq Descendants(fs, g)
    BY <1>1, <2>1, DescendantsClosed
  <2> QED
    BY <2>2 DEF Forest
<1>3. \A g \in LiveFolders(new) : new[g].parent \in LiveFolders(new) \cup {Root}
  BY DEF Forest, Closed
<1>4. \A g, h \in LiveFolders(new) : g # h /\ new[g].parent = new[h].parent => new[g].name # new[h].name
  BY DEF Forest
<1> QED
  BY <1>2, <1>3, <1>4 DEF Forest

-------------------------------------------------------------------------------
(* Content, schedules, defaults and memberships refer to what is there.    *)

\* What a commit keeps when the checks of its request still hold.
ContentKept(r) ==
  ContentSound(db) /\ ContentChecked(Body(r)) => ContentSound(db')

SameContent ==
  /\ db'.media = db.media /\ db'.folders = db.folders
  /\ db'.playlists = db.playlists /\ db'.rules = db.rules

LEMMA SameContentKept ==
  ASSUME SameContent, ContentSound(db)
  PROVE  ContentSound(db')
BY DEF SameContent, ContentSound, InOrg

LEMMA PlaylistContent ==
  ASSUME db \in Database, NEW p \in Playlists, NEW row \in PlaylistRows,
         db' = [db EXCEPT !.playlists[p] = row], ContentSound(db), InOrg(db, row.items)
  PROVE  ContentSound(db')
<1>1. PICK v : v = [db.playlists EXCEPT ![p] = row]
  OBVIOUS
<1>2. \A q \in Playlists : v[q] = IF q = p THEN row ELSE db.playlists[q]
  BY <1>1, Tables
<1>3. /\ db'.playlists = v /\ db'.rules = db.rules /\ db'.media = db.media /\ db'.folders = db.folders
  BY <1>1 DEF Database
<1> QED
  BY <1>2, <1>3 DEF ContentSound, InOrg

LEMMA RuleContent ==
  ASSUME db \in Database, NEW p \in Playlists, NEW x \in Rules, NEW row,
         db' = [db EXCEPT !.rules[p][x] = row], ContentSound(db), InOrg(db, row.picks)
  PROVE  ContentSound(db')
<1>1. PICK u : u = [db.rules[p] EXCEPT ![x] = row]
  OBVIOUS
<1>2. PICK v : v = [db.rules EXCEPT ![p] = u]
  OBVIOUS
<1>3. /\ \A y \in Rules : u[y] = IF y = x THEN row ELSE db.rules[p][y]
      /\ \A q \in Playlists : v[q] = IF q = p THEN u ELSE db.rules[q]
  BY <1>1, <1>2, Tables
<1>4. db' = [db EXCEPT !.rules = v]
  BY <1>1, <1>2
<1>5. /\ db'.playlists = db.playlists /\ db'.rules = v /\ db'.media = db.media /\ db'.folders = db.folders
  BY <1>4 DEF Database
<1> QED
  BY <1>3, <1>5 DEF ContentSound, InOrg

LEMMA FolderContent ==
  ASSUME db \in Database, NEW f \in Folders, NEW row \in FolderRows, row.state = "live",
         db' = [db EXCEPT !.folders[f] = row], ContentSound(db), Forest(db'.folders)
  PROVE  ContentSound(db')
<1>1. PICK v : v = [db.folders EXCEPT ![f] = row]
  OBVIOUS
<1>2. \A g \in Folders : v[g] = IF g = f THEN row ELSE db.folders[g]
  BY <1>1, Tables
<1>3. /\ db'.playlists = db.playlists /\ db'.rules = db.rules /\ db'.media = db.media /\ db'.folders = v
  BY <1>1 DEF Database
<1>4. LiveFolders(db.folders) \subseteq LiveFolders(v)
  BY <1>2 DEF LiveFolders
<1> QED
  BY <1>3, <1>4 DEF ContentSound, InOrg

LEMMA MediaContent ==
  ASSUME db \in Database, NEW v, db' = [db EXCEPT !.media = v], ContentSound(db),
         Usable(v) = Usable(db.media),
         \A m \in Usable(v) : v[m].folder \in LiveFolders(db.folders) \cup {Root}
  PROVE  ContentSound(db')
<1>1. /\ db'.playlists = db.playlists /\ db'.rules = db.rules /\ db'.media = v /\ db'.folders = db.folders
  BY DEF Database
<1> QED
  BY <1>1 DEF ContentSound, InOrg

LEMMA PlaylistCommitContent ==
  ASSUME TypeOK, KnownInv, NEW r \in Requests,
         \/ \E p \in Playlists : CommitCreatePlaylist(r, p)
         \/ CommitPatchPlaylist(r) \/ CommitPutItems(r) \/ CommitDeletePlaylist(r)
  PROVE  ContentKept(r)
<1> SUFFICES ASSUME ContentSound(db), ContentChecked(Body(r)) PROVE ContentSound(db')
  BY DEF ContentKept
<1> DEFINE b == Body(r)
<1>1. CASE \E p \in Playlists : CommitCreatePlaylist(r, p)
  <2>1. PICK p \in Playlists : CommitCreatePlaylist(r, p)
    BY <1>1
  <2> DEFINE row == [state |-> "live", ruled |-> FALSE, items |-> b.items]
  <2>2. db' = [db EXCEPT !.playlists[p] = row] /\ request[r].stage = "checked" /\ b.op = "createPlaylist"
    BY <2>1, CommitStage DEF CommitCreatePlaylist
  <2>3. row \in PlaylistRows /\ InOrg(db, row.items) /\ db \in Database
    BY <2>2, Committing, PlaylistBodyShape DEF PlaylistRows, ContentChecked, States
  <2> QED
    BY <2>2, <2>3, PlaylistContent
<1>2. CASE CommitPatchPlaylist(r)
  <2> DEFINE row == [db.playlists[b.playlist] EXCEPT !.ruled = b.ruled]
  <2>1. db' = [db EXCEPT !.playlists[b.playlist] = row] /\ request[r].stage = "checked" /\ b.op = "patchPlaylist"
    BY <1>2, CommitStage DEF CommitPatchPlaylist
  <2>2. b.playlist \in Playlists /\ b.ruled \in BOOLEAN /\ db \in Database
    BY <2>1, Committing, PlaylistBodyShape
  <2>3. row \in PlaylistRows /\ InOrg(db, row.items)
    <3>1. db.playlists[b.playlist] \in PlaylistRows /\ InOrg(db, db.playlists[b.playlist].items)
      BY <2>2, Tables DEF ContentSound
    <3> QED
      BY <2>2, <3>1 DEF PlaylistRows
  <2> QED
    BY <2>1, <2>2, <2>3, PlaylistContent
<1>3. CASE CommitPutItems(r)
  <2> DEFINE row == [db.playlists[b.playlist] EXCEPT !.items = b.items]
  <2>1. db' = [db EXCEPT !.playlists[b.playlist] = row] /\ request[r].stage = "checked" /\ b.op = "putItems"
    BY <1>3, CommitStage DEF CommitPutItems
  <2>2. b.playlist \in Playlists /\ b.items \in SUBSET Entries /\ db \in Database
    BY <2>1, Committing, PlaylistBodyShape
  <2>3. row \in PlaylistRows /\ InOrg(db, row.items)
    <3>1. db.playlists[b.playlist] \in PlaylistRows /\ InOrg(db, b.items)
      BY <2>1, <2>2, Tables DEF ContentChecked
    <3> QED
      BY <2>2, <3>1 DEF PlaylistRows
  <2> QED
    BY <2>1, <2>2, <2>3, PlaylistContent
<1>4. CASE CommitDeletePlaylist(r)
  <2> DEFINE row == [db.playlists[b.playlist] EXCEPT !.state = "gone"]
  <2>1. db' = [db EXCEPT !.playlists[b.playlist] = row] /\ request[r].stage = "checked" /\ b.op = "deletePlaylist"
    BY <1>4, CommitStage DEF CommitDeletePlaylist
  <2>2. b.playlist \in Playlists /\ db \in Database
    BY <2>1, Committing, PlaylistBodyShape
  <2>3. row \in PlaylistRows /\ InOrg(db, row.items)
    <3>1. db.playlists[b.playlist] \in PlaylistRows /\ InOrg(db, db.playlists[b.playlist].items)
      BY <2>2, Tables DEF ContentSound
    <3> QED
      BY <3>1 DEF PlaylistRows, States
  <2> QED
    BY <2>1, <2>2, <2>3, PlaylistContent
<1> QED
  BY <1>1, <1>2, <1>3, <1>4

LEMMA ClonePlaylistContent ==
  ASSUME TypeOK, KnownInv, NEW r \in Requests, NEW p \in Playlists, CommitClonePlaylist(r, p)
  PROVE  ContentKept(r)
<1> SUFFICES ASSUME ContentSound(db), ContentChecked(Body(r)) PROVE ContentSound(db')
  BY DEF ContentKept
<1> DEFINE b == Body(r)
           v == [db.playlists EXCEPT ![p] = b.row]
           u == [db.rules EXCEPT ![p] = b.rules]
<1>1. /\ db' = [db EXCEPT !.playlists = v, !.rules = u]
      /\ request[r].stage = "checked" /\ b.op = "clonePlaylist"
  BY CommitStage DEF CommitClonePlaylist
<1>2. db \in Database /\ InOrg(db, b.row.items) /\ \A x \in Rules : InOrg(db, b.rules[x].picks)
  BY <1>1, Committing DEF ContentChecked
<1>3. \A q \in Playlists : /\ v[q] = IF q = p THEN b.row ELSE db.playlists[q]
                           /\ u[q] = IF q = p THEN b.rules ELSE db.rules[q]
  BY <1>2, Tables
<1> HIDE DEF b, v, u
<1>4. /\ db'.playlists = v /\ db'.rules = u /\ db'.media = db.media /\ db'.folders = db.folders
  BY <1>1, <1>2 DEF Database
<1> QED
  BY <1>2, <1>3, <1>4 DEF ContentSound, InOrg

LEMMA RuleCommitContent ==
  ASSUME TypeOK, KnownInv, NEW r \in Requests,
         \/ \E x \in Rules : CommitCreateRule(r, x)
         \/ CommitPatchRule(r) \/ CommitDeleteRule(r) \/ CommitPutAssignments(r)
  PROVE  ContentKept(r)
<1> SUFFICES ASSUME ContentSound(db), ContentChecked(Body(r)) PROVE ContentSound(db')
  BY DEF ContentKept
<1> DEFINE b == Body(r)
           old == db.rules[b.playlist][b.rule]
<1>1. CASE \E x \in Rules : CommitCreateRule(r, x)
  <2>1. PICK x \in Rules : CommitCreateRule(r, x)
    BY <1>1
  <2> DEFINE row == [state |-> "live", enabled |-> TRUE, picks |-> b.picks]
  <2>2. db' = [db EXCEPT !.rules[b.playlist][x] = row] /\ request[r].stage = "checked" /\ b.op = "createRule"
    BY <2>1, CommitStage DEF CommitCreateRule
  <2>3. InOrg(db, row.picks) /\ db \in Database /\ b.playlist \in Playlists
    BY <2>2, Committing, PlaylistBodyShape DEF ContentChecked
  <2> QED
    BY <2>2, <2>3, RuleContent
<1>2. ASSUME b.op \in {"patchRule", "deleteRule", "putAssignments"}, request[r].stage = "checked"
      PROVE  /\ b.playlist \in Playlists /\ b.rule \in Rules /\ db \in Database
             /\ old \in RuleRows /\ InOrg(db, old.picks)
  <2>1. b.playlist \in Playlists /\ b.rule \in Rules /\ db \in Database
    BY <1>2, Committing, PlaylistBodyShape
  <2> QED
    BY <2>1, Tables DEF ContentSound
<1>3. CASE CommitPatchRule(r)
  <2> DEFINE row == [old EXCEPT !.enabled = b.enabled]
  <2>1. db' = [db EXCEPT !.rules[b.playlist][b.rule] = row] /\ request[r].stage = "checked" /\ b.op = "patchRule"
    BY <1>3, CommitStage DEF CommitPatchRule
  <2>2. InOrg(db, row.picks)
    BY <1>2, <2>1 DEF RuleRows
  <2> QED
    BY <1>2, <2>1, <2>2, RuleContent
<1>4. CASE CommitDeleteRule(r)
  <2> DEFINE row == [old EXCEPT !.state = "gone"]
  <2>1. db' = [db EXCEPT !.rules[b.playlist][b.rule] = row] /\ request[r].stage = "checked" /\ b.op = "deleteRule"
    BY <1>4, CommitStage DEF CommitDeleteRule
  <2>2. InOrg(db, row.picks)
    BY <1>2, <2>1 DEF RuleRows
  <2> QED
    BY <1>2, <2>1, <2>2, RuleContent
<1>5. CASE CommitPutAssignments(r)
  <2> DEFINE row == [old EXCEPT !.picks = b.picks]
  <2>1. /\ db' = [db EXCEPT !.rules[b.playlist][b.rule] = row]
        /\ request[r].stage = "checked" /\ b.op = "putAssignments"
    BY <1>5, CommitStage DEF CommitPutAssignments
  <2>2. InOrg(db, row.picks)
    BY <1>2, <2>1 DEF RuleRows, ContentChecked
  <2> QED
    BY <1>2, <2>1, <2>2, RuleContent
<1> QED
  BY <1>1, <1>3, <1>4, <1>5

LEMMA CreateFolderContent ==
  ASSUME TypeOK, KnownInv, NEW r \in Requests, NEW f \in Folders, CommitCreateFolder(r, f)
  PROVE  ContentKept(r)
<1> SUFFICES ASSUME ContentSound(db), ContentChecked(Body(r)) PROVE ContentSound(db')
  BY DEF ContentKept
<1> DEFINE row == Body(r).row
<1>1. /\ db' = [db EXCEPT !.folders[f] = row] /\ db.folders[f].state = "none"
      /\ request[r].stage = "checked" /\ Body(r).op = "createFolder"
  BY CommitStage DEF CommitCreateFolder, New
<1>2. /\ row \in FolderRows /\ row.state = "live" /\ db \in Database
      /\ FolderOrRoot(row.parent) /\ NameFree(row.parent, row.name, {})
  BY <1>1, Committing, MediaBodyShape DEF ContentChecked
<1>3. PICK v : v = [db.folders EXCEPT ![f] = row]
  OBVIOUS
<1>4. db'.folders = v /\ \A g \in Folders : v[g] = IF g = f THEN row ELSE db.folders[g]
  BY <1>1, <1>2, <1>3, Tables DEF Database
<1> HIDE DEF row
<1>5. /\ LiveFolders(v) = LiveFolders(db.folders) \cup {f} /\ f \notin LiveFolders(db.folders)
      /\ LiveFolders(db.folders) \subseteq Folders
  BY <1>1, <1>2, <1>4 DEF LiveFolders, row
<1>6. Forest(v)
  BY <1>2, <1>4, <1>5, ForestGrown DEF ContentSound, FolderOrRoot, NameFree
<1> QED
  BY <1>1, <1>2, <1>4, <1>6, FolderContent DEF row

LEMMA PatchFolderContent ==
  ASSUME TypeOK, KnownInv, NEW r \in Requests, CommitPatchFolder(r)
  PROVE  ContentKept(r)
<1> SUFFICES ASSUME ContentSound(db), ContentChecked(Body(r)) PROVE ContentSound(db')
  BY DEF ContentKept
<1> DEFINE f == Body(r).folder
           p == Body(r).parent
           n == Body(r).name
           row == [db.folders[f] EXCEPT !.parent = p, !.name = n]
<1>1. /\ db' = [db EXCEPT !.folders[f].parent = p, !.folders[f].name = n]
      /\ request[r].stage = "checked" /\ Body(r).op = "patchFolder"
  BY CommitStage DEF CommitPatchFolder
<1>2. /\ db \in Database /\ f \in LiveFolders(db.folders) /\ p \in Inodes /\ n \in Names
      /\ FolderOrRoot(p) /\ p \notin Descendants(db.folders, f) /\ NameFree(p, n, {f})
  BY <1>1, Committing, MediaBodyShape DEF ContentChecked
<1>3. db' = [db EXCEPT !.folders[f] = row]
  BY <1>1, <1>2, Tables DEF Database, LiveFolders
<1>4. row \in FolderRows /\ row.state = "live" /\ row.parent = p /\ row.name = n
  <2>1. db.folders[f] \in FolderRows /\ db.folders[f].state = "live"
    BY <1>2, Tables DEF LiveFolders
  <2> QED
    BY <1>2, <2>1 DEF FolderRows
<1> HIDE DEF row, f, p, n
<1>5. PICK v : v = [db.folders EXCEPT ![f] = row]
  OBVIOUS
<1>6. db'.folders = v /\ \A g \in Folders : v[g] = IF g = f THEN row ELSE db.folders[g]
  BY <1>2, <1>3, <1>5, Tables DEF Database
<1>7. LiveFolders(v) = LiveFolders(db.folders) /\ LiveFolders(db.folders) \subseteq Folders
  BY <1>2, <1>4, <1>6 DEF LiveFolders
<1>8. Forest(v)
  <2>1. v[f].parent \in (LiveFolders(db.folders) \cup {Root}) \ Descendants(db.folders, f)
    BY <1>2, <1>4, <1>6, <1>7 DEF FolderOrRoot
  <2>2. \A g \in LiveFolders(db.folders) \ {f} :
          /\ v[g].parent = db.folders[g].parent /\ v[g].name = db.folders[g].name
          /\ ~(db.folders[g].parent = v[f].parent /\ db.folders[g].name = v[f].name)
    BY <1>2, <1>4, <1>6, <1>7 DEF NameFree
  <2> QED
    BY <1>2, <1>7, <2>1, <2>2, ForestMoved DEF ContentSound
<1> QED
  BY <1>2, <1>3, <1>4, <1>6, <1>7, <1>8, FolderContent

LEMMA MoveMediaContent ==
  ASSUME TypeOK, KnownInv, NEW r \in Requests, CommitMoveMedia(r)
  PROVE  ContentKept(r)
<1> SUFFICES ASSUME ContentSound(db), ContentChecked(Body(r)) PROVE ContentSound(db')
  BY DEF ContentKept
<1> DEFINE b == Body(r)
           moved == b.media \cap Usable(db.media)
           v == [m \in Media |-> IF m \in moved THEN [db.media[m] EXCEPT !.folder = b.folder]
                                 ELSE db.media[m]]
<1>1. db' = [db EXCEPT !.media = v] /\ request[r].stage = "checked" /\ b.op = "moveMedia"
  BY CommitStage DEF CommitMoveMedia
<1>2. /\ db \in Database /\ b.folder \in LiveFolders(db.folders) \cup {Root}
      /\ db.media \in [Media -> MediaRows]
  BY <1>1, Committing, Tables DEF ContentChecked, FolderOrRoot
<1> HIDE DEF moved, b
<1>3. \A m \in Media : /\ v[m].state = db.media[m].state
                       /\ v[m].folder \in {db.media[m].folder, b.folder}
  BY <1>2 DEF MediaRows
<1>4. DOMAIN v = Media /\ DOMAIN db.media = Media
  BY <1>2
<1> HIDE DEF v
<1>5. Usable(v) = Usable(db.media)
  BY <1>3, <1>4 DEF Usable
<1>6. \A m \in Usable(v) : v[m].folder \in LiveFolders(db.folders) \cup {Root}
  BY <1>2, <1>3, <1>4, <1>5 DEF ContentSound, Usable
<1> QED
  BY <1>1, <1>2, <1>5, <1>6, MediaContent

LEMMA PatchMediumContent ==
  ASSUME TypeOK, KnownInv, NEW r \in Requests, CommitMovedMedium(r) \/ CommitKeptMedium(r)
  PROVE  ContentKept(r)
<1> SUFFICES ASSUME ContentSound(db), ContentChecked(Body(r)) PROVE ContentSound(db')
  BY DEF ContentKept
<1>1. PICK b : b = Body(r)
  OBVIOUS
<1>2. /\ db' = Patched(b) /\ db \in Database /\ b.medium \in Media
      /\ b.folder \in Inodes \cup {None} /\ b.name \in Names \cup {None}
      /\ b.folder = None \/ FolderOrRoot(b.folder)
  BY <1>1, PatchMediumCommits, Committing, MediaBodyShape DEF ContentChecked
<1>3. PICK v \in [Media -> MediaRows] :
        /\ Patched(b) = [db EXCEPT !.media = v]
        /\ \A m \in Media \ {b.medium} : v[m] = db.media[m]
        /\ v[b.medium].state = db.media[b.medium].state
        /\ v[b.medium].folder \in {db.media[b.medium].folder, b.folder} \cap Inodes
  BY <1>2, PatchedMedium
<1>4. db.media \in [Media -> MediaRows] /\ DOMAIN v = Media /\ DOMAIN db.media = Media
  BY <1>2, <1>3, Tables
<1>5. Usable(v) = Usable(db.media)
  BY <1>2, <1>3, <1>4 DEF Usable
<1>6. \A m \in Usable(db.media) : db.media[m].folder \in LiveFolders(db.folders) \cup {Root}
  BY DEF ContentSound
<1>7. \A m \in Usable(v) : v[m].folder \in LiveFolders(db.folders) \cup {Root}
  BY <1>2, <1>3, <1>4, <1>5, <1>6, LibraryAssumption DEF Usable, FolderOrRoot
<1> QED
  BY <1>2, <1>3, <1>5, <1>7, MediaContent

\* What reprocessing does to a medium, and its end.
LEMMA StateContent ==
  ASSUME db \in Database, ContentSound(db), NEW n \in Media, NEW state,
         state = "gone" <=> db.media[n].state = "gone",
         NEW row, row = [db.media[n] EXCEPT !.state = state],
         NEW v, v = [db.media EXCEPT ![n] = row], db' = [db EXCEPT !.media = v]
  PROVE  ContentSound(db') /\ Usable(db'.media) = Usable(db.media) /\ db'.folders = db.folders
<1>1. db.media[n] \in MediaRows /\ DOMAIN db.media = Media
  BY Tables
<1>2. row.state = state /\ row.folder = db.media[n].folder
  BY <1>1 DEF MediaRows
<1>3. DOMAIN v = Media /\ \A m \in Media : v[m] = IF m = n THEN row ELSE db.media[m]
  BY <1>1
<1>4. Usable(v) = Usable(db.media)
  BY <1>1, <1>2, <1>3 DEF Usable
<1>5. \A m \in Usable(v) : v[m].folder \in LiveFolders(db.folders) \cup {Root}
  BY <1>2, <1>3, <1>4 DEF ContentSound, Usable
<1>6. db'.media = v /\ db'.folders = db.folders
  BY DEF Database
<1> QED
  BY <1>4, <1>5, <1>6, MediaContent

LEMMA ReprocessContent ==
  ASSUME TypeOK, KnownInv, NEW r \in Requests, CommitReprocess(r)
  PROVE  ContentKept(r)
<1> SUFFICES ASSUME ContentSound(db) PROVE ContentSound(db')
  BY DEF ContentKept
<1> DEFINE n == Body(r).medium
           state == IF db.media[n].state = "gone" THEN "gone" ELSE "pending"
           data == [db EXCEPT !.media[n].state = IF @ = "gone" THEN @ ELSE "pending"]
<1>1. db' = data /\ request[r].stage = "checked" /\ Body(r).op = "reprocess"
  <2>1. CommitQuietly(r, "reprocess", data, FALSE)
    BY DEF CommitReprocess
  <2> HIDE DEF data
  <2> QED
    BY <2>1, CommitStage
<1>2. PICK row : row = [db.media[n] EXCEPT !.state = state]
  OBVIOUS
<1>3. PICK v : v = [db.media EXCEPT ![n] = row]
  OBVIOUS
<1>4. db' = [db EXCEPT !.media = v]
  BY <1>1, <1>2, <1>3
<1>5. n \in Media /\ db \in Database
  BY <1>1, Committing, MediaBodyShape
<1> HIDE DEF n
<1>6. state = "gone" <=> db.media[n].state = "gone"
  OBVIOUS
<1> HIDE DEF state
<1> QED
  BY <1>2, <1>3, <1>4, <1>5, <1>6, StateContent

LEMMA FinishContent ==
  ASSUME TypeOK, NEW n \in Media, FinishProcessing(n), ContentSound(db)
  PROVE  ContentSound(db') /\ Usable(db'.media) = Usable(db.media) /\ db'.folders = db.folders
<1>1. PICK row : row = [db.media[n] EXCEPT !.state = "ready"]
  OBVIOUS
<1>2. PICK v : v = [db.media EXCEPT ![n] = row]
  OBVIOUS
<1>3. db' = [db EXCEPT !.media = v] /\ db.media[n].state = "pending" /\ db \in Database
  BY <1>1, <1>2 DEF FinishProcessing, TypeOK
<1>4. PICK state : state = "ready"
  OBVIOUS
<1> QED
  BY <1>1, <1>2, <1>3, <1>4, StateContent

LEMMA DeleteMediaContent ==
  ASSUME TypeOK, KnownInv, NEW r \in Requests, CommitDeleteMedia(r)
  PROVE  ContentKept(r)
<1> SUFFICES ASSUME ContentSound(db) PROVE ContentSound(db')
  BY DEF ContentKept
<1> DEFINE ms == Body(r).media
<1>1. db' = WithoutMedia(db, ms) /\ request[r].stage = "checked"
  BY CommitStage DEF CommitDeleteMedia
<1>2. db \in Database
  BY <1>1, Committing
<1> HIDE DEF ms
<1>3. /\ Trimmed(db, db', ms) /\ db'.folders = db.folders
      /\ \A m \in Media : /\ db'.media[m].folder = db.media[m].folder
                          /\ db'.media[m].state = IF m \in ms THEN "gone" ELSE db.media[m].state
  BY <1>1, <1>2, WithoutMediaRows
<1>4. DOMAIN db'.media = Media /\ DOMAIN db.media = Media
  BY <1>2, <1>3, Tables DEF Trimmed
<1>5. Usable(db'.media) = Usable(db.media) \ ms
  BY <1>3, <1>4 DEF Usable
<1>6. \A m \in Usable(db'.media) : db'.media[m].folder \in LiveFolders(db.folders) \cup {Root}
  BY <1>3, <1>4, <1>5 DEF ContentSound, Usable
<1>7. \A p \in Playlists : /\ InOrg(db', db'.playlists[p].items)
                           /\ \A x \in Rules : InOrg(db', db'.rules[p][x].picks)
  BY <1>3, <1>5 DEF ContentSound, InOrg, Trimmed
<1> QED
  BY <1>3, <1>6, <1>7 DEF ContentSound

LEMMA DeleteFolderContent ==
  ASSUME TypeOK, KnownInv, NEW r \in Requests, CommitDeleteFolder(r)
  PROVE  ContentKept(r)
<1> SUFFICES ASSUME ContentSound(db), ContentChecked(Body(r)) PROVE ContentSound(db')
  BY DEF ContentKept
<1> DEFINE b == Body(r)
<1>1. /\ db' = WithoutFolders(db, b.folders, b.strategy, b.target)
      /\ request[r].stage = "checked" /\ b.op = "deleteFolder"
  BY CommitStage DEF CommitDeleteFolder
<1>2. /\ db \in Database /\ b.target \in Inodes /\ b.folders \in SUBSET Folders
      /\ Closed(db.folders, b.folders)
      /\ b.target \in (LiveFolders(db.folders) \cup {Root}) \ b.folders
  BY <1>1, Committing, MediaBodyShape DEF ContentChecked, FolderOrRoot
<1>3. PICK fs, strategy, target : fs = b.folders /\ strategy = b.strategy /\ target = b.target
  OBVIOUS
<1> HIDE DEF b
<1>4. PICK inside : inside = Inside(db, fs)
  OBVIOUS
<1>5. PICK refs : refs = IF strategy = "delete_media" THEN inside \cup fs ELSE fs
  OBVIOUS
<1>6. PICK new : new = WithoutFolders(db, fs, strategy, target)
  OBVIOUS
<1>7. /\ Trimmed(db, new, refs)
      /\ \A m \in Media \ inside : new.media[m] = db.media[m]
      /\ \A m \in inside :
           IF strategy = "delete_media"
             THEN new.media[m].state = "gone" /\ new.media[m].folder = db.media[m].folder
             ELSE new.media[m].state = db.media[m].state /\ new.media[m].folder = target
      /\ \A f \in Folders : /\ new.folders[f].parent = db.folders[f].parent
                            /\ new.folders[f].name = db.folders[f].name
                            /\ new.folders[f].state = IF f \in fs THEN "gone" ELSE db.folders[f].state
  <2>1. target \in Inodes /\ db \in Database
    BY <1>2, <1>3
  <2> QED
    BY <1>4, <1>5, <1>6, <2>1, WithoutFoldersRows
<1>8. /\ DOMAIN new.media = Media /\ DOMAIN db.media = Media
      /\ LiveFolders(new.folders) = LiveFolders(db.folders) \ fs /\ LiveFolders(db.folders) \subseteq Folders
  BY <1>2, <1>7, Tables DEF Trimmed, LiveFolders
<1>9. Forest(new.folders)
  BY <1>2, <1>3, <1>7, <1>8, ForestCut DEF ContentSound
<1>10. Usable(new.media) = IF strategy = "delete_media" THEN Usable(db.media) \ inside ELSE Usable(db.media)
  BY <1>7, <1>8 DEF Usable
<1>11. \A m \in Usable(new.media) : new.media[m].folder \in LiveFolders(new.folders) \cup {Root}
  <2> SUFFICES ASSUME NEW m \in Usable(new.media)
               PROVE  new.media[m].folder \in (LiveFolders(db.folders) \cup {Root}) \ fs
    BY <1>8
  <2>1. m \in Usable(db.media) /\ m \in Media
    BY <1>8, <1>10 DEF Usable
  <2>2. CASE m \in inside
    BY <1>2, <1>3, <1>7, <1>10, <2>2
  <2>3. CASE m \notin inside
    BY <1>4, <1>7, <2>1, <2>3 DEF Inside, ContentSound
  <2> QED
    BY <2>2, <2>3
<1>12. \A p \in Playlists : /\ InOrg(new, new.playlists[p].items)
                            /\ \A x \in Rules : InOrg(new, new.rules[p][x].picks)
  BY <1>5, <1>7, <1>8, <1>10 DEF ContentSound, InOrg, Trimmed
<1>13. db' = new
  BY <1>1, <1>3, <1>6
<1> QED
  BY <1>9, <1>11, <1>12, <1>13 DEF ContentSound

\* Groups, memberships, schedules, overrides and devices are no content.
LEMMA AirtimeContent ==
  ASSUME TypeOK, NEW r \in Requests,
         \/ \E g \in Groups : CommitCreateGroup(r, g)
         \/ CommitPatchGroup(r) \/ MarkGroup(r) \/ EmptyGroup(r)
         \/ \E s \in Schedules : CommitCreateSchedule(r, s)
         \/ CommitPatchSchedule(r) \/ CommitDeleteSchedule(r)
         \/ CommitStartEmergency(r) \/ CommitStopEmergency(r)
         \/ CommitPatchDevice(r) \/ CommitDeleteDevice(r)
  PROVE  SameContent
<1>1. db \in Database
  BY DEF TypeOK
<1>2. ASSUME NEW v, NEW u, db' = [db EXCEPT !.groups = v, !.members = u] PROVE SameContent
  BY <1>1, <1>2 DEF Database, SameContent
<1>3. ASSUME NEW v, db' = [db EXCEPT !.groups = v] PROVE SameContent
  BY <1>1, <1>3 DEF Database, SameContent
<1>4. ASSUME NEW u, db' = [db EXCEPT !.members = u] PROVE SameContent
  BY <1>1, <1>4 DEF Database, SameContent
<1>5. ASSUME NEW v, db' = [db EXCEPT !.schedules = v] PROVE SameContent
  BY <1>1, <1>5 DEF Database, SameContent
<1>6. ASSUME NEW v, db' = [db EXCEPT !.overrides = v] PROVE SameContent
  BY <1>1, <1>6 DEF Database, SameContent
<1>7. ASSUME NEW v, NEW u, db' = [db EXCEPT !.devices = v, !.members = u] PROVE SameContent
  BY <1>1, <1>7 DEF Database, SameContent
<1>8. ASSUME NEW v, db' = [db EXCEPT !.devices = v] PROVE SameContent
  BY <1>1, <1>8 DEF Database, SameContent
<1> DEFINE b == Body(r)
<1>9. ASSUME NEW g \in Groups, CommitCreateGroup(r, g) PROVE SameContent
  <2>1. db' = [db EXCEPT !.groups = [db.groups EXCEPT ![g] = [db.groups[g] EXCEPT !.state = "live"]],
                         !.members = db.members \cup ({g} \X b.devices)]
    BY <1>9, CommitStage DEF CommitCreateGroup
  <2> QED
    BY <1>2, <2>1
<1>10. CASE CommitPatchGroup(r)
  BY <1>4, <1>10, CommitStage DEF CommitPatchGroup
<1>11. CASE MarkGroup(r) \/ EmptyGroup(r)
  BY <1>3, <1>4, <1>11 DEF MarkGroup, EmptyGroup, Write
<1>12. ASSUME NEW s \in Schedules, CommitCreateSchedule(r, s) PROVE SameContent
  BY <1>5, <1>12, CommitStage DEF CommitCreateSchedule
<1>13. CASE CommitPatchSchedule(r)
  <2> DEFINE s == b.schedule
             c == b.change
             old == db.schedules[s]
             row == [state |-> old.state, enabled |-> Given(c.enabled, old.enabled),
                     playlist |-> Given(c.playlist, old.playlist), devices |-> Given(c.devices, old.devices),
                     groups |-> Given(c.groups, old.groups)]
  <2>1. db' = [db EXCEPT !.schedules[s] = row]
    BY <1>13, CommitStage DEF CommitPatchSchedule
  <2> QED
    BY <1>5, <2>1
<1>14. CASE CommitDeleteSchedule(r)
  <2>1. db' = [db EXCEPT !.schedules[b.schedule].state = "gone", !.schedules[b.schedule].enabled = FALSE]
    BY <1>14, CommitStage DEF CommitDeleteSchedule
  <2>2. PICK mid : mid = [db EXCEPT !.schedules[b.schedule].state = "gone"]
    OBVIOUS
  <2>3. db' = [mid EXCEPT !.schedules[b.schedule].enabled = FALSE]
    BY <2>1, <2>2
  <2> QED
    BY <1>1, <2>2, <2>3 DEF Database, SameContent
<1>15. CASE CommitStartEmergency(r)
  <2>1. db' = [db EXCEPT !.overrides = Append(db.overrides, b.row)]
    BY <1>15, CommitStage DEF CommitStartEmergency
  <2> QED
    BY <1>6, <2>1
<1>16. CASE CommitStopEmergency(r)
  BY <1>6, <1>16, CommitStage DEF CommitStopEmergency
<1>17. CASE CommitPatchDevice(r)
  <2> DEFINE v == [db.devices EXCEPT ![b.device] = [db.devices[b.device] EXCEPT !.default = b.default]]
             u == {gd \in db.members : gd[2] # b.device} \cup (b.groups \X {b.device})
  <2>1. db' = [db EXCEPT !.devices = v, !.members = u]
    BY <1>17, CommitStage DEF CommitPatchDevice
  <2> HIDE DEF v, u
  <2> QED
    BY <1>7, <2>1
<1>18. CASE CommitDeleteDevice(r)
  BY <1>8, <1>18, CommitStage DEF CommitDeleteDevice
<1> QED
  BY <1>9, <1>10, <1>11, <1>12, <1>13, <1>14, <1>15, <1>16, <1>17, <1>18

LEMMA CommitsKeepContent ==
  ASSUME TypeOK, KnownInv, NEW r \in Requests, Commits(r)
  PROVE  ContentKept(r)
<1>1. SameContent => ContentKept(r)
  BY SameContentKept DEF ContentKept
<1> QED
  BY <1>1, PlaylistCommitContent, ClonePlaylistContent, RuleCommitContent, CreateFolderContent,
     PatchFolderContent, DeleteFolderContent, PatchMediumContent, MoveMediaContent, DeleteMediaContent,
     ReprocessContent, AirtimeContent DEF Commits

-------------------------------------------------------------------------------
(* Memberships.                                                            *)

\* Every membership is one of a live group, but for those of g.
Joined(data, gs) == \A gd \in data.members : gd[1] \in Live(data.groups) \cup gs

\* The other commits.
SameMembers == db'.groups = db.groups /\ db'.members = db.members

LEMMA ContentMembers ==
  ASSUME TypeOK, KnownInv, NEW r \in Requests,
         \/ \E p \in Playlists : CommitCreatePlaylist(r, p) \/ CommitClonePlaylist(r, p)
         \/ CommitPatchPlaylist(r) \/ CommitPutItems(r) \/ CommitDeletePlaylist(r)
         \/ \E x \in Rules : CommitCreateRule(r, x)
         \/ CommitPatchRule(r) \/ CommitDeleteRule(r) \/ CommitPutAssignments(r)
         \/ \E f \in Folders : CommitCreateFolder(r, f)
         \/ CommitPatchFolder(r) \/ CommitDeleteFolder(r)
         \/ CommitMovedMedium(r) \/ CommitKeptMedium(r) \/ CommitMoveMedia(r)
         \/ CommitDeleteMedia(r) \/ CommitReprocess(r)
  PROVE  SameMembers
<1>1. db \in Database
  BY DEF TypeOK
<1>2. ASSUME NEW v, db' = [db EXCEPT !.playlists = v] PROVE SameMembers
  BY <1>1, <1>2 DEF Database, SameMembers
<1>3. ASSUME NEW v, db' = [db EXCEPT !.rules = v] PROVE SameMembers
  BY <1>1, <1>3 DEF Database, SameMembers
<1>4. ASSUME NEW v, NEW u, db' = [db EXCEPT !.playlists = v, !.rules = u] PROVE SameMembers
  BY <1>1, <1>4 DEF Database, SameMembers
<1>5. ASSUME NEW v, db' = [db EXCEPT !.folders = v] PROVE SameMembers
  BY <1>1, <1>5 DEF Database, SameMembers
<1>6. ASSUME NEW v, db' = [db EXCEPT !.media = v] PROVE SameMembers
  BY <1>1, <1>6 DEF Database, SameMembers
<1>7. ASSUME NEW p \in Playlists, CommitCreatePlaylist(r, p) PROVE SameMembers
  BY <1>2, <1>7, CommitStage DEF CommitCreatePlaylist
<1>c. ASSUME NEW p \in Playlists, CommitClonePlaylist(r, p) PROVE SameMembers
  <2> DEFINE v == [db.playlists EXCEPT ![p] = Body(r).row]
             u == [db.rules EXCEPT ![p] = Body(r).rules]
  <2>1. db' = [db EXCEPT !.playlists = v, !.rules = u]
    BY <1>c, CommitStage DEF CommitClonePlaylist
  <2> HIDE DEF v, u
  <2> QED
    BY <1>4, <2>1
<1>8. CASE CommitPatchPlaylist(r) \/ CommitPutItems(r) \/ CommitDeletePlaylist(r)
  BY <1>2, <1>8, CommitStage DEF CommitPatchPlaylist, CommitPutItems, CommitDeletePlaylist
<1>9. CASE \/ \E x \in Rules : CommitCreateRule(r, x)
           \/ CommitPatchRule(r) \/ CommitDeleteRule(r) \/ CommitPutAssignments(r)
  BY <1>3, <1>9, CommitStage DEF CommitCreateRule, CommitPatchRule, CommitDeleteRule, CommitPutAssignments
<1>10. ASSUME NEW f \in Folders, CommitCreateFolder(r, f) PROVE SameMembers
  BY <1>5, <1>10, CommitStage DEF CommitCreateFolder
<1>p. CASE CommitPatchFolder(r)
  <2> DEFINE f == Body(r).folder
  <2>1. db' = [db EXCEPT !.folders[f].parent = Body(r).parent, !.folders[f].name = Body(r).name]
    BY <1>p, CommitStage DEF CommitPatchFolder
  <2>2. PICK mid : mid = [db EXCEPT !.folders[f].parent = Body(r).parent]
    OBVIOUS
  <2>3. db' = [mid EXCEPT !.folders[f].name = Body(r).name]
    BY <2>1, <2>2
  <2> QED
    BY <1>1, <2>2, <2>3 DEF Database, SameMembers
<1>11. CASE CommitDeleteFolder(r)
  <2>1. db' = WithoutFolders(db, Body(r).folders, Body(r).strategy, Body(r).target)
        /\ request[r].stage = "checked" /\ Body(r).op = "deleteFolder"
    BY <1>11, CommitStage DEF CommitDeleteFolder
  <2>2. Body(r).target \in Inodes
    BY <2>1, Committing, MediaBodyShape
  <2>3. PICK new : new = WithoutFolders(db, Body(r).folders, Body(r).strategy, Body(r).target)
    OBVIOUS
  <2>4. PICK inside, refs : /\ inside = Inside(db, Body(r).folders)
                            /\ refs = IF Body(r).strategy = "delete_media" THEN inside \cup Body(r).folders
                                      ELSE Body(r).folders
    OBVIOUS
  <2>5. Trimmed(db, new, refs)
    BY <1>1, <2>2, <2>3, <2>4, WithoutFoldersRows
  <2> QED
    BY <2>1, <2>3, <2>5 DEF SameMembers, Trimmed
<1>m. CASE CommitMovedMedium(r) \/ CommitKeptMedium(r)
  <2> DEFINE v == [db.media EXCEPT ![Body(r).medium] =
                     [state |-> db.media[Body(r).medium].state,
                      folder |-> Given(Body(r).folder, db.media[Body(r).medium].folder),
                      name |-> Given(Body(r).name, db.media[Body(r).medium].name)]]
  <2>1. Patched(Body(r)) = [db EXCEPT !.media = v]
    BY DEF Patched
  <2> HIDE DEF v
  <2> QED
    BY <1>6, <1>m, <2>1, PatchMediumCommits
<1>12. CASE CommitMoveMedia(r)
  BY <1>6, <1>12, CommitStage DEF CommitMoveMedia
<1>13. CASE CommitDeleteMedia(r)
  <2>1. db' = WithoutMedia(db, Body(r).media)
    BY <1>13, CommitStage DEF CommitDeleteMedia
  <2> QED
    BY <1>1, <2>1, WithoutMediaRows DEF Trimmed, SameMembers
<1>14. CASE CommitReprocess(r)
  <2> DEFINE data == [db EXCEPT !.media[Body(r).medium].state = IF @ = "gone" THEN @ ELSE "pending"]
  <2>1. db' = data
    <3>1. CommitQuietly(r, "reprocess", data, FALSE)
      BY <1>14 DEF CommitReprocess
    <3> HIDE DEF data
    <3> QED
      BY <3>1, CommitStage
  <2> QED
    BY <1>6, <2>1
<1> QED
  BY <1>7, <1>c, <1>8, <1>9, <1>10, <1>p, <1>11, <1>m, <1>12, <1>13, <1>14

LEMMA OtherMembers ==
  ASSUME TypeOK, NEW r \in Requests,
         \/ \E s \in Schedules : CommitCreateSchedule(r, s)
         \/ CommitPatchSchedule(r) \/ CommitDeleteSchedule(r)
         \/ CommitStartEmergency(r) \/ CommitStopEmergency(r) \/ CommitDeleteDevice(r)
  PROVE  SameMembers
<1>1. db \in Database
  BY DEF TypeOK
<1>2. ASSUME NEW v, db' = [db EXCEPT !.schedules = v] PROVE SameMembers
  BY <1>1, <1>2 DEF Database, SameMembers
<1>3. ASSUME NEW v, db' = [db EXCEPT !.overrides = v] PROVE SameMembers
  BY <1>1, <1>3 DEF Database, SameMembers
<1>4. ASSUME NEW v, db' = [db EXCEPT !.devices = v] PROVE SameMembers
  BY <1>1, <1>4 DEF Database, SameMembers
<1> DEFINE b == Body(r)
<1>5. ASSUME NEW s \in Schedules, CommitCreateSchedule(r, s) PROVE SameMembers
  BY <1>2, <1>5, CommitStage DEF CommitCreateSchedule
<1>6. CASE CommitPatchSchedule(r)
  <2> DEFINE s == b.schedule
             c == b.change
             old == db.schedules[s]
             row == [state |-> old.state, enabled |-> Given(c.enabled, old.enabled),
                     playlist |-> Given(c.playlist, old.playlist), devices |-> Given(c.devices, old.devices),
                     groups |-> Given(c.groups, old.groups)]
  <2>1. db' = [db EXCEPT !.schedules[s] = row]
    BY <1>6, CommitStage DEF CommitPatchSchedule
  <2> QED
    BY <1>2, <2>1
<1>7. CASE CommitDeleteSchedule(r)
  <2>1. db' = [db EXCEPT !.schedules[b.schedule].state = "gone", !.schedules[b.schedule].enabled = FALSE]
    BY <1>7, CommitStage DEF CommitDeleteSchedule
  <2>2. PICK mid : mid = [db EXCEPT !.schedules[b.schedule].state = "gone"]
    OBVIOUS
  <2>3. db' = [mid EXCEPT !.schedules[b.schedule].enabled = FALSE]
    BY <2>1, <2>2
  <2> QED
    BY <1>1, <2>2, <2>3 DEF Database, SameMembers
<1>8. CASE CommitStartEmergency(r)
  <2>1. db' = [db EXCEPT !.overrides = Append(db.overrides, b.row)]
    BY <1>8, CommitStage DEF CommitStartEmergency
  <2> QED
    BY <1>3, <2>1
<1>9. CASE CommitStopEmergency(r)
  BY <1>3, <1>9, CommitStage DEF CommitStopEmergency
<1>10. CASE CommitDeleteDevice(r)
  BY <1>4, <1>10, CommitStage DEF CommitDeleteDevice
<1> QED
  BY <1>5, <1>6, <1>7, <1>8, <1>9, <1>10

\* A commit whose checks hold leaves memberships of live groups, or of the one it is deleting.
LEMMA CommitsJoined ==
  ASSUME TypeOK, KnownInv, NEW r \in Requests, Commits(r), ContentChecked(Body(r)),
         Joined(db, IF EmptyGroup(r) THEN {Body(r).group} ELSE {})
  PROVE  Joined(db', IF MarkGroup(r) THEN {Body(r).group} ELSE {})
<1> DEFINE b == Body(r)
<1>1. db \in Database /\ db.groups \in [Groups -> [state : States]] /\ db.members \in SUBSET (Groups \X Devices)
  BY Tables DEF TypeOK
<1>2. ASSUME NEW v, NEW u, db' = [db EXCEPT !.groups = v, !.members = u]
      PROVE  db'.groups = v /\ db'.members = u
  BY <1>1, <1>2 DEF Database
<1>3. CASE EmptyGroup(r)
  <2>1. db'.members = {gd \in db.members : gd[1] # b.group} /\ db'.groups = db.groups
    BY <1>1, <1>3 DEF EmptyGroup, Write, Database
  <2> QED
    BY <1>3, <2>1 DEF Joined
<1>4. CASE MarkGroup(r)
  <2> DEFINE v == [db.groups EXCEPT ![b.group] = [db.groups[b.group] EXCEPT !.state = "gone"]]
  <2>1. /\ db' = [db EXCEPT !.groups = v]
        /\ request[r].stage = "checked" /\ b.op = "deleteGroup"
    BY <1>4 DEF MarkGroup, Stage, Write, Body
  <2>2. b.group \in Groups
    BY <2>1, Committing, AirtimeBodyShape
  <2>3. \A g \in Groups \ {b.group} : v[g] = db.groups[g]
    BY <1>1
  <2>4. DOMAIN v = Groups /\ DOMAIN db.groups = Groups
    BY <1>1
  <2> HIDE DEF v
  <2>5. db'.groups = v /\ db'.members = db.members
    BY <1>1, <2>1 DEF Database
  <2>6. ~EmptyGroup(r)
    BY <2>1 DEF EmptyGroup, Stage
  <2> QED
    BY <1>1, <1>4, <2>3, <2>4, <2>5, <2>6 DEF Joined, Live
<1>5. CASE ~EmptyGroup(r) /\ ~MarkGroup(r)
  <2> SUFFICES ASSUME NEW gd \in db'.members PROVE gd[1] \in Live(db'.groups)
    BY <1>5 DEF Joined
  <2>0. \A old \in db.members : old[1] \in Live(db.groups)
    BY <1>5 DEF Joined
  <2>1. CASE SameMembers
    BY <2>0, <2>1 DEF SameMembers
  <2>2. ASSUME NEW g \in Groups, CommitCreateGroup(r, g) PROVE gd[1] \in Live(db'.groups)
    <3> DEFINE v == [db.groups EXCEPT ![g] = [db.groups[g] EXCEPT !.state = "live"]]
               u == db.members \cup ({g} \X b.devices)
    <3>1. db' = [db EXCEPT !.groups = v, !.members = u]
      BY <2>2, CommitStage DEF CommitCreateGroup
    <3>2. db.groups[g] \in [state : States]
      BY <1>1
    <3>3. DOMAIN v = Groups /\ v[g].state = "live" /\ \A h \in Groups \ {g} : v[h] = db.groups[h]
      BY <1>1, <3>2
    <3> HIDE DEF v
    <3>4. db'.groups = v /\ db'.members = u
      BY <1>2, <3>1
    <3> QED
      BY <1>1, <2>0, <3>3, <3>4 DEF Live
  <2>3. CASE CommitPatchGroup(r)
    <3> DEFINE u == {old \in db.members : old[1] # b.group} \cup ({b.group} \X b.devices)
    <3>1. db' = [db EXCEPT !.members = u] /\ b.op = "patchGroup"
      BY <2>3, CommitStage DEF CommitPatchGroup
    <3>2. b.group \in Live(db.groups)
      BY <3>1 DEF ContentChecked, LiveGroups
    <3> HIDE DEF u
    <3>3. db'.groups = db.groups /\ db'.members = u
      BY <1>1, <3>1 DEF Database
    <3> QED
      BY <2>0, <3>2, <3>3 DEF u
  <2>4. CASE CommitPatchDevice(r)
    <3> DEFINE v == [db.devices EXCEPT ![b.device] = [db.devices[b.device] EXCEPT !.default = b.default]]
               u == {old \in db.members : old[2] # b.device} \cup (b.groups \X {b.device})
    <3>1. db' = [db EXCEPT !.devices = v, !.members = u] /\ b.op = "patchDevice"
      BY <2>4, CommitStage DEF CommitPatchDevice
    <3>2. b.groups \subseteq Live(db.groups)
      BY <3>1 DEF ContentChecked, LiveGroups
    <3> HIDE DEF u, v
    <3>3. db'.groups = db.groups /\ db'.members = u
      BY <1>1, <3>1 DEF Database
    <3> QED
      BY <2>0, <3>2, <3>3 DEF u
  <2> QED
    BY <1>5, <2>1, <2>2, <2>3, <2>4, ContentMembers, OtherMembers DEF Commits
<1> QED
  BY <1>3, <1>4, <1>5

-------------------------------------------------------------------------------
(* What the checks ensure of the rows when a request arrives.              *)

Checked(r) == \E body : Receive(r, body) /\ ContentChecked(body)

LEMMA CheckedAtOnce ==
  ASSUME NEW r, NEW body, Receive(r, body),
         body.op \in {"patchPlaylist", "deletePlaylist", "patchRule", "deleteRule", "deleteMedia", "reprocess",
                      "createGroup", "deleteGroup", "createSchedule", "patchSchedule", "deleteSchedule",
                      "startEmergency", "stopEmergency", "deleteDevice"}
  PROVE  Checked(r)
BY DEF Checked, ContentChecked

LEMMA PlaylistsChecked ==
  ASSUME ContentSound(db), NEW r \in Requests, PlaylistRequests(r)
  PROVE  Checked(r)
<1>1. CASE \E es \in ItemLists : CreatePlaylist(r, es)
  <2>1. PICK es : CreatePlaylist(r, es)
    BY <1>1
  <2>2. PICK body : body = [op |-> "createPlaylist", items |-> es]
    OBVIOUS
  <2> QED
    BY <2>1, <2>2 DEF CreatePlaylist, EntriesInOrg, Checked, ContentChecked
<1>2. CASE \E p \in Playlists, es \in ItemLists : PutItems(r, p, es)
  <2>1. PICK p, es : PutItems(r, p, es)
    BY <1>2
  <2>2. PICK body : body = [op |-> "putItems", playlist |-> p, items |-> es]
    OBVIOUS
  <2> QED
    BY <2>1, <2>2 DEF PutItems, EntriesInOrg, Checked, ContentChecked
<1>3. CASE \E p \in Playlists, es \in ItemLists : CreateRule(r, p, es)
  <2>1. PICK p, es : CreateRule(r, p, es)
    BY <1>3
  <2>2. PICK body : body = [op |-> "createRule", playlist |-> p, picks |-> es]
    OBVIOUS
  <2> QED
    BY <2>1, <2>2 DEF CreateRule, EntriesInOrg, Checked, ContentChecked
<1>4. CASE \E p \in Playlists, x \in Rules, es \in ItemLists : PutAssignments(r, p, x, es)
  <2>1. PICK p, x, es : PutAssignments(r, p, x, es)
    BY <1>4
  <2>2. PICK body : body = [op |-> "putAssignments", playlist |-> p, rule |-> x, picks |-> es]
    OBVIOUS
  <2> QED
    BY <2>1, <2>2 DEF PutAssignments, EntriesInOrg, Checked, ContentChecked
<1>5. CASE \E p \in Playlists : ClonePlaylist(r, p)
  <2>1. PICK p \in Playlists : ClonePlaylist(r, p)
    BY <1>5
  <2>2. PICK rules : rules = [x \in Rules |-> IF db.rules[p][x].state = "live" THEN db.rules[p][x] ELSE NoRule]
    OBVIOUS
  <2>3. PICK body : body = [op |-> "clonePlaylist", row |-> db.playlists[p], rules |-> rules]
    OBVIOUS
  <2>4. InOrg(db, db.playlists[p].items) /\ \A x \in Rules : InOrg(db, rules[x].picks)
    BY <2>2 DEF ContentSound, InOrg, NoRule
  <2>5. Receive(r, body)
    BY <2>1, <2>2, <2>3 DEF ClonePlaylist
  <2> QED
    BY <2>3, <2>4, <2>5 DEF Checked, ContentChecked
<1>6. CASE \/ \E p \in Playlists : \/ \E b \in BOOLEAN : PatchPlaylist(r, p, b)
                                   \/ DeletePlaylist(r, p)
           \/ \E p \in Playlists, x \in Rules : \/ \E b \in BOOLEAN : PatchRule(r, p, x, b)
                                                \/ DeleteRule(r, p, x)
  BY <1>6, CheckedAtOnce DEF PatchPlaylist, DeletePlaylist, PatchRule, DeleteRule
<1> QED
  BY <1>1, <1>2, <1>3, <1>4, <1>5, <1>6 DEF PlaylistRequests

LEMMA MediaChecked ==
  ASSUME NEW r \in Requests, MediaRequests(r)
  PROVE  Checked(r)
<1>0. Root \notin Folders /\ \A f \in Folders : Descendants(db.folders, f) \subseteq Folders
  BY LibraryAssumption, DescendantsClosed
<1>1. ASSUME NEW i, NEW n, CreateFolder(r, i, n) PROVE Checked(r)
  <2>1. PICK body : body = [op |-> "createFolder", row |-> [state |-> "live", parent |-> i, name |-> n]]
    OBVIOUS
  <2> QED
    BY <1>1, <2>1 DEF CreateFolder, Checked, ContentChecked
<1>2. ASSUME NEW f \in Folders, NEW i, NEW n, PatchFolder(r, f, i, n) PROVE Checked(r)
  <2>1. PICK body : body = [op |-> "patchFolder", folder |-> f, parent |-> i, name |-> n]
    OBVIOUS
  <2>2. i \notin Descendants(db.folders, f)
    BY <1>0, <1>2 DEF PatchFolder, WouldCreateCycle
  <2>3. ContentChecked(body)
    BY <1>2, <2>1, <2>2 DEF PatchFolder, ContentChecked
  <2> QED
    BY <1>2, <2>1, <2>3 DEF PatchFolder, Checked
<1>3. ASSUME NEW f \in Folders, NEW i, NEW s, DeleteFolder(r, f, s, i) PROVE Checked(r)
  <2>1. PICK fs : fs = Descendants(db.folders, f)
    OBVIOUS
  <2>2. PICK body : body = [op |-> "deleteFolder", folders |-> fs, strategy |-> s, target |-> i]
    OBVIOUS
  <2>3. /\ Receive(r, body)
        /\ IF s = "move_to_folder" THEN i \in LiveFolders(db.folders) \ fs ELSE i = Root
    BY <1>3, <2>1, <2>2 DEF DeleteFolder
  <2>4. Closed(db.folders, fs) /\ FolderOrRoot(i) /\ i \notin fs
    BY <1>0, <2>1, <2>3, DescendantsClosed DEF FolderOrRoot
  <2> QED
    BY <2>2, <2>3, <2>4 DEF Checked, ContentChecked
<1>4. ASSUME NEW ms, NEW i, MoveMedia(r, ms, i) PROVE Checked(r)
  <2>1. PICK body : body = [op |-> "moveMedia", media |-> ms, folder |-> i]
    OBVIOUS
  <2> QED
    BY <1>4, <2>1 DEF MoveMedia, Checked, ContentChecked
<1>5. ASSUME NEW ms, DeleteMedia(r, ms) PROVE Checked(r)
  BY <1>5, CheckedAtOnce DEF DeleteMedia
<1>6. ASSUME NEW m, Reprocess(r, m) PROVE Checked(r)
  BY <1>6, CheckedAtOnce DEF Reprocess
<1>7. ASSUME NEW m, NEW i, NEW n, PatchMedium(r, m, i, n) PROVE Checked(r)
  <2>1. PICK body : body = [op |-> "patchMedium", medium |-> m, folder |-> i, name |-> n,
                            before |-> db.media[m].folder]
    OBVIOUS
  <2>2. i = None \/ FolderOrRoot(i)
    BY <1>7 DEF PatchMedium
  <2>3. Receive(r, body)
    BY <1>7, <2>1 DEF PatchMedium
  <2>4. ContentChecked(body)
    BY <2>1, <2>2 DEF ContentChecked
  <2> QED
    BY <2>3, <2>4 DEF Checked
<1> QED
  BY <1>1, <1>2, <1>3, <1>4, <1>5, <1>6, <1>7 DEF MediaRequests

LEMMA AirtimeChecked ==
  ASSUME NEW r \in Requests, AirtimeRequests(r)
  PROVE  Checked(r)
<1>1. ASSUME NEW ds, CreateGroup(r, ds) PROVE Checked(r)
  BY <1>1, CheckedAtOnce DEF CreateGroup
<1>2. ASSUME NEW g, NEW ds, PatchGroup(r, g, ds) PROVE Checked(r)
  <2>1. PICK body : body = [op |-> "patchGroup", group |-> g, devices |-> ds \cap Live(db.devices)]
    OBVIOUS
  <2> QED
    BY <1>2, <2>1 DEF PatchGroup, Checked, ContentChecked, LiveGroups
<1>3. ASSUME NEW g, DeleteGroup(r, g) PROVE Checked(r)
  BY <1>3, CheckedAtOnce DEF DeleteGroup
<1>4. ASSUME NEW p, NEW ds, NEW gs, CreateSchedule(r, p, ds, gs) PROVE Checked(r)
  BY <1>4, CheckedAtOnce DEF CreateSchedule
<1>5. ASSUME NEW s, NEW c, PatchSchedule(r, s, c) PROVE Checked(r)
  BY <1>5, CheckedAtOnce DEF PatchSchedule
<1>6. ASSUME NEW s, DeleteSchedule(r, s) PROVE Checked(r)
  BY <1>6, CheckedAtOnce DEF DeleteSchedule
<1>7. ASSUME NEW p, NEW m, NEW b, NEW ds, NEW gs, StartEmergency(r, p, m, b, ds, gs) PROVE Checked(r)
  BY <1>7, CheckedAtOnce DEF StartEmergency
<1>8. ASSUME NEW n, StopEmergency(r, n) PROVE Checked(r)
  BY <1>8, CheckedAtOnce DEF StopEmergency
<1>9. ASSUME NEW d, DeleteDevice(r, d) PROVE Checked(r)
  BY <1>9, CheckedAtOnce DEF DeleteDevice
<1>10. ASSUME NEW d, NEW p, NEW gs, PatchDevice(r, d, p, gs) PROVE Checked(r)
  <2>1. PICK body : body = [op |-> "patchDevice", device |-> d, default |-> p, groups |-> gs \cap Live(db.groups)]
    OBVIOUS
  <2> QED
    BY <1>10, <2>1 DEF PatchDevice, Checked, ContentChecked, LiveGroups
<1>11. CASE \/ \E ds \in SUBSET Devices : CreateGroup(r, ds) \/ \E g \in Groups : PatchGroup(r, g, ds)
            \/ \E g \in Groups : DeleteGroup(r, g)
  BY <1>1, <1>2, <1>3, <1>11
<1>12. CASE \/ \E p \in Playlists, ds \in SUBSET Devices, gs \in SUBSET Groups : CreateSchedule(r, p, ds, gs)
            \/ \E s \in Schedules : DeleteSchedule(r, s) \/ \E c \in Changes : PatchSchedule(r, s, c)
  BY <1>4, <1>5, <1>6, <1>12
<1>13. CASE \/ \E p \in Playlists \cup {None}, m \in Media \cup {None}, b \in BOOLEAN,
                  ds \in SUBSET Devices, gs \in SUBSET Groups : StartEmergency(r, p, m, b, ds, gs)
            \/ \E n \in DOMAIN db.overrides : StopEmergency(r, n)
  BY <1>7, <1>8, <1>13
<1>14. CASE \E d \in Devices : \/ DeleteDevice(r, d)
                               \/ \E p \in Playlists \cup {None}, gs \in SUBSET Groups : PatchDevice(r, d, p, gs)
  BY <1>9, <1>10, <1>14
<1> QED
  BY <1>11, <1>12, <1>13, <1>14 DEF AirtimeRequests

-------------------------------------------------------------------------------
(* The rows stay sound until requests race.                                *)

LEMMA CommitRows ==
  ASSUME TypeOK, KnownInv, RowsInv, NEW r \in Requests, Commits(r)
  PROVE  RowsInv'
<1> SUFFICES ASSUME ~overlap'
             PROVE  /\ ContentSound(db') /\ MembersSound'
                    /\ \A s \in Requests : request'[s].stage # "checked"
  BY DEF RowsInv
<1>1. PICK stage : Steps(r, stage)
  BY CommitsMove
<1>2. ~overlap /\ \A s \in Requests \ {r} : request[s].stage \notin {"checked", "half"}
  BY <1>1 DEF Steps
<1>3. /\ request'[r].stage = stage /\ Body(r)' = Body(r)
      /\ \A s \in Requests \ {r} : request'[s] = request[s]
  BY <1>1, GoesOn DEF Steps
<1>4. ContentSound(db) /\ MembersSound
  BY <1>2 DEF RowsInv
<1>5. ContentChecked(Body(r))
  <2>1. CASE request[r].stage = "checked"
    BY <1>2, <2>1 DEF RowsInv
  <2>2. CASE request[r].stage # "checked"
    BY <1>1, <2>2 DEF Steps, ContentChecked
  <2> QED
    BY <2>1, <2>2
<1>6. Joined(db, IF EmptyGroup(r) THEN {Body(r).group} ELSE {})
  <2>1. CASE EmptyGroup(r)
    <3>1. \A s \in Requests : Stage(s, "half", "deleteGroup") => s = r
      BY <1>2 DEF Stage
    <3> QED
      BY <1>4, <2>1, <3>1 DEF MembersSound, Joined
  <2>2. CASE ~EmptyGroup(r)
    <3>1. request[r].stage = "checked"
      BY <2>2, CommitForms DEF Commit, CommitQuietly, MarkGroup, Stage
    <3>2. \A s \in Requests : ~Stage(s, "half", "deleteGroup")
      BY <1>2, <3>1 DEF Stage
    <3> QED
      BY <1>4, <2>2, <3>2 DEF MembersSound, Joined
  <2> QED
    BY <2>1, <2>2
<1>7. ContentSound(db')
  BY <1>4, <1>5, CommitsKeepContent DEF ContentKept
<1>8. MembersSound'
  <2>1. Joined(db', IF MarkGroup(r) THEN {Body(r).group} ELSE {})
    BY <1>5, <1>6, CommitsJoined
  <2>2. CASE ~MarkGroup(r)
    BY <2>1, <2>2 DEF MembersSound, Joined
  <2>3. CASE MarkGroup(r)
    <3>1. Body(r).op = "deleteGroup" /\ Goto(r, "half")
      BY <2>3 DEF MarkGroup, Stage, Write, Body
    <3>2. Stage(r, "half", "deleteGroup")' /\ Body(r)' = Body(r)
      <4>1. request[r].stage # "idle"
        BY <1>1 DEF Steps
      <4>2. request'[r].stage = "half"
        BY <3>1, <4>1, GoesOn
      <4> QED
        BY <1>3, <3>1, <4>2 DEF Stage, Body
    <3> QED
      BY <2>1, <2>3, <3>2 DEF MembersSound, Joined
  <2> QED
    BY <2>2, <2>3
<1> QED
  BY <1>1, <1>2, <1>3, <1>7, <1>8 DEF Steps

\* While the content, the groups and the memberships are as they were, what was checked of them holds.
LEMMA CheckedStays ==
  ASSUME RowsInv, overlap' = overlap,
         db'.folders = db.folders, Usable(db'.media) = Usable(db.media), db'.groups = db.groups,
         db'.members = db.members, ContentSound(db) => ContentSound(db'),
         \A s \in Requests : Body(s)' = Body(s) /\ request'[s].stage \in {request[s].stage, "over"},
         \A s \in Requests : request[s].stage = "half" => request'[s] = request[s]
  PROVE  RowsInv'
<1> SUFFICES ASSUME ~overlap PROVE RowsInv'
  BY DEF RowsInv
<1>1. MembersSound'
  BY DEF RowsInv, MembersSound, Stage
<1>2. ASSUME NEW s \in Requests, request'[s].stage = "checked" PROVE ContentChecked(Body(s))'
  <2>1. PICK b : b = Body(s)
    OBVIOUS
  <2>2. ContentChecked(b)
    BY <1>2, <2>1 DEF RowsInv
  <2>3. ContentChecked(b)'
    BY <2>2 DEF ContentChecked, InOrg, FolderOrRoot, NameFree, LiveGroups
  <2> QED
    BY <2>1, <2>3 DEF ContentChecked
<1> QED
  BY <1>1, <1>2 DEF RowsInv

LEMMA ArrivalRows ==
  ASSUME TypeOK, KnownInv, RowsInv, NEW r \in Requests,
         PlaylistRequests(r) \/ MediaRequests(r) \/ AirtimeRequests(r)
  PROVE  RowsInv'
<1>1. Arrived(r)
  BY PlaylistArrivals, MediaArrivals, AirtimeArrivals
<1> SUFFICES ASSUME ~overlap PROVE RowsInv'
  BY <1>1 DEF RowsInv, Arrived, Receive
<1>2. PICK body : Receive(r, body) /\ ContentChecked(body)
  BY PlaylistsChecked, MediaChecked, AirtimeChecked DEF RowsInv, Checked
<1>3. /\ UNCHANGED <<db, overlap>> /\ request[r] = Idle
      /\ \A s \in Requests \ {r} : request'[s] = request[s]
      /\ request'[r].body = body
  BY <1>2 DEF Receive, TypeOK
<1>4. MembersSound'
  <2>1. \A s \in Requests : Stage(s, "half", "deleteGroup") => s # r
    BY <1>3 DEF Stage, Idle
  <2> QED
    BY <1>3, <2>1 DEF RowsInv, MembersSound, Stage, Body
<1>5. ASSUME NEW s \in Requests, request'[s].stage = "checked" PROVE ContentChecked(Body(s))'
  <2>1. PICK b : b = Body(s)'
    OBVIOUS
  <2>2. ContentChecked(b)
    BY <1>2, <1>3, <1>5, <2>1 DEF RowsInv, Body
  <2>3. ContentChecked(b)'
    BY <1>3, <2>2 DEF ContentChecked, InOrg, FolderOrRoot, NameFree, LiveGroups
  <2> QED
    BY <2>1, <2>3 DEF ContentChecked
<1> QED
  BY <1>3, <1>4, <1>5 DEF RowsInv

LEMMA InitRows ==
  ASSUME Init
  PROVE  RowsInv
<1>1. PICK s \in Scenarios : db = s.db
  BY DEF Init
<1>2. ContentSound(db) /\ MembersSound
  BY <1>1, ScenarioAssumption DEF MembersSound
<1>3. \A r \in Requests : request[r].stage = "idle"
  BY DEF Init, Idle
<1> QED
  BY <1>2, <1>3 DEF RowsInv

LEMMA StepRows ==
  ASSUME TypeOK, KnownInv, RowsInv, [Next]_vars
  PROVE  RowsInv'
<1>1. ASSUME NEW r \in Requests, Publish(r) PROVE RowsInv'
  <2>1. /\ request[r].stage = "publish" /\ Goto(r, "over") /\ UNCHANGED <<db, overlap>>
    BY <1>1 DEF Publish
  <2>2. /\ request'[r].stage = "over" /\ Body(r)' = Body(r)
        /\ \A s \in Requests \ {r} : request'[s] = request[s] /\ Body(s)' = Body(s)
    BY <2>1, GoesOn
  <2> QED
    BY <2>1, <2>2, CheckedStays
<1>2. ASSUME NEW m \in Media, FinishProcessing(m) PROVE RowsInv'
  <2>1. UNCHANGED <<request, overlap>> /\ db \in Database
    BY <1>2 DEF FinishProcessing, TypeOK
  <2>2. db'.groups = db.groups /\ db'.members = db.members
    BY <1>2, <2>1 DEF FinishProcessing, Database
  <2>3. CASE overlap
    BY <2>1, <2>3 DEF RowsInv
  <2>4. CASE ~overlap
    <3>1. ContentSound(db') /\ Usable(db'.media) = Usable(db.media) /\ db'.folders = db.folders
      BY <1>2, <2>4, FinishContent DEF RowsInv
    <3> QED
      BY <2>1, <2>2, <3>1, CheckedStays DEF Body
  <2> QED
    BY <2>3, <2>4
<1>3. ASSUME NEW d \in Devices, BuildSteps(d) PROVE RowsInv'
  <2>1. UNCHANGED <<db, request, overlap>>
    BY <1>3 DEF BuildSteps, ReadDevice, ReadSchedules, ReadOverride, ReadLists, ReadFolders, ReadPool,
            ReadOwn, BuildStep
  <2> QED
    BY <2>1, CheckedStays DEF Body
<1>4. CASE UNCHANGED vars
  <2>1. UNCHANGED <<db, request, overlap>>
    BY <1>4 DEF vars
  <2> QED
    BY <2>1, CheckedStays DEF Body
<1> QED
  BY <1>1, <1>2, <1>3, <1>4, ArrivalRows, CommitRows DEF Next, BuildSteps

\* As long as no request commits between the checks and the commit of another: the folders are a
\* forest, media lie in live folders, entries and rules name live folders and media, live
\* schedules and devices live playlists, and memberships live groups.
THEOREM RowsAreSound == Spec => []SoundUnlessRaced
<1>1. Init => RowsInv
  BY InitRows
<1>2. TypeOK /\ KnownInv /\ RowsInv /\ [Next]_vars => RowsInv'
  BY StepRows
<1>3. RowsInv /\ PreviewInv => SoundUnlessRaced
  BY DEF RowsInv, PreviewInv, SoundUnlessRaced
<1> QED
  BY <1>1, <1>2, <1>3, RowsStaySound, ChecksStay, PTL DEF Spec

===============================================================================
