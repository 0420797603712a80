---------------------------- MODULE MediaPipeline ----------------------------
(***************************************************************************)
(* The media of one organization from upload to playable file: the API     *)
(* requests that store an original and queue a job, the worker that runs   *)
(* several jobs side by side (processMediaAsset), the rows and objects it  *)
(* leaves, its retries, crashes and stalled jobs, and the file a manifest  *)
(* offers a device (selectVideoVariant).                                   *)
(*                                                                         *)
(* Every await of a handler is a step of its own: requests and jobs of the *)
(* same asset interleave between them.  A job is named before its request, *)
(* so one id stands for the request, its job row and its queue entry.      *)
(***************************************************************************)
EXTENDS Naturals, FiniteSets

CONSTANTS
  Assets,        \* ids of media assets
  Videos,        \* the assets whose bytes sniff as a video; the others are images
  Tiers,         \* playback profiles other than "standard"
  Devices,       \* devices of the organization
  Jobs,          \* ids of processing jobs
  Settings,      \* encoder settings a worker process may be started with
  Slots,         \* WORKER_CONCURRENCY
  MaxAttempts,   \* attempts of defaultJobOptions
  MaxStalls,     \* stalls of one job BullMQ forgives
  NoContent,     \* no object, or no value in a column
  Source,        \* the bytes of an original
  Budgets        \* how many events of each kind a behaviour may contain, one function per scenario

\* Reprocess requests, deletions, profile changes, worker crashes, API crashes,
\* steps of a job that throw, database or Redis calls that throw outside its try or in its catch.
Events == {"reprocess", "delete", "profile", "crash", "apicrash", "throw", "outside"}

Profiles == Tiers \cup {"standard"}
Kinds == Profiles \cup {"original", "thumb"}
Encode(s, t) == <<s, t>>
Contents == (Settings \X Profiles) \cup {Source}

\* Stages of a run that are not named after the tier being saved.
Stages == {"idle", "look", "mark", "run", "tiers", "encode", "thumb", "finish", "close", "publish",
           "caught", "failed"}

ASSUME PipelineAssumption ==
  /\ Videos \subseteq Assets
  /\ Tiers \cap (Stages \cup {"standard", "original"}) = {}
  /\ Slots \in Nat \ {0} /\ MaxAttempts \in Nat \ {0} /\ MaxStalls \in Nat
  /\ NoContent \notin Contents \cup Settings /\ Source \notin Settings \X Profiles
  /\ Budgets \subseteq [Events -> Nat]

VARIABLES
  status,     \* processingStatus of each asset, "none" before its row exists
  deleted,    \* assets with a deletedAt
  checksum,   \* checksumSha256 of each asset, as the content it is the hash of
  processed,  \* assets whose processedStorageKey is set
  variants,   \* checksum of each asset's MediaVariant rows
  bucket,     \* the object under each asset's keys
  profile,    \* playbackProfile of each device
  request,    \* stage of the API request that makes each job
  target,     \* the asset of each job
  record,     \* status of the MediaProcessingJob row
  queue,      \* state of the job in the BullMQ queue
  made,       \* attempts BullMQ has counted
  stalls,     \* times the job was found stalled
  pc,         \* stage of the job's run, "idle" when no code runs it
  todo,       \* tiers a run has still to encode
  kept,       \* tiers a run has read to be in use
  worker,     \* settings of the worker process, NoContent while it is down
  announced,  \* assets whose last completion sync_required has been published for
  unsaid,     \* history: jobs that are over for good without a last word to the rows or devices
  left        \* events the environment may still cause

rowVars   == <<status, deleted, checksum, processed, variants>>
apiVars   == <<request, target>>
queueVars == <<queue, made, stalls>>
runVars   == <<pc, todo, kept>>
vars == <<rowVars, bucket, profile, apiVars, record, queueVars, runVars, worker, announced, unsaid, left>>

Spend(kind) ==
  /\ left[kind] > 0
  /\ left' = [left EXCEPT ![kind] = @ - 1]

Live(a) == status[a] # "none" /\ a \notin deleted

-------------------------------------------------------------------------------
(* The API.                                                                *)

\* POST .../media: only a file that sniffs as an image or video gets this far,
\* and its original is stored before anything is written to the database.
Upload(j, a) ==
  /\ request[j] = "none" /\ status[a] = "none" /\ bucket[a]["original"] = NoContent
  /\ bucket' = [bucket EXCEPT ![a]["original"] = Source]
  /\ request' = [request EXCEPT ![j] = "stored"]
  /\ target' = [target EXCEPT ![j] = a]
  /\ UNCHANGED <<rowVars, profile, record, queueVars, runVars, worker, announced, unsaid, left>>

CreateAsset(j) ==
  /\ request[j] = "stored"
  /\ status' = [status EXCEPT ![target[j]] = "pending"]
  /\ request' = [request EXCEPT ![j] = "rowed"]
  /\ UNCHANGED <<deleted, checksum, processed, variants, bucket, profile, target, record, queueVars,
                 runVars, worker, announced, unsaid, left>>

\* POST .../reprocess and the reprocess-media command: the asset is looked up ...
Reprocess(j, a) ==
  /\ request[j] = "none" /\ Live(a)
  /\ Spend("reprocess")
  /\ request' = [request EXCEPT ![j] = "found"]
  /\ target' = [target EXCEPT ![j] = a]
  /\ UNCHANGED <<rowVars, bucket, profile, record, queueVars, runVars, worker, announced, unsaid>>

\* ... and made pending by a statement of its own, whatever happened in between.
MakePending(j) ==
  /\ request[j] = "found"
  /\ status' = [status EXCEPT ![target[j]] = "pending"]
  /\ request' = [request EXCEPT ![j] = "rowed"]
  /\ UNCHANGED <<deleted, checksum, processed, variants, bucket, profile, target, record, queueVars,
                 runVars, worker, announced, unsaid, left>>

CreateJob(j) ==
  /\ request[j] = "rowed"
  /\ record' = [record EXCEPT ![j] = "queued"]
  /\ request' = [request EXCEPT ![j] = "recorded"]
  /\ UNCHANGED <<rowVars, bucket, profile, target, queueVars, runVars, worker, announced, unsaid, left>>

AddJob(j) ==
  /\ request[j] = "recorded"
  /\ queue' = [queue EXCEPT ![j] = "waiting"]
  /\ request' = [request EXCEPT ![j] = "done"]
  /\ UNCHANGED <<rowVars, bucket, profile, target, record, made, stalls, runVars, worker, announced, unsaid, left>>

\* The API goes down between two statements of a request: nobody resumes it.
LoseRequest(j) ==
  /\ request[j] \in {"stored", "found", "rowed", "recorded"}
  /\ Spend("apicrash")
  /\ request' = [request EXCEPT ![j] = "lost"]
  /\ UNCHANGED <<rowVars, bucket, profile, target, record, queueVars, runVars, worker, announced, unsaid>>

\* softDeleteMedia: the row is marked, its objects and its jobs stay.
Delete(a) ==
  /\ Live(a)
  /\ Spend("delete")
  /\ deleted' = deleted \cup {a}
  /\ UNCHANGED <<status, checksum, processed, variants, bucket, profile, apiVars, record, queueVars,
                 runVars, worker, announced, unsaid>>

\* PATCH of a device: the media are not encoded again for its new tier.
SetProfile(d, p) ==
  /\ profile[d] # p
  /\ Spend("profile")
  /\ profile' = [profile EXCEPT ![d] = p]
  /\ UNCHANGED <<rowVars, bucket, apiVars, record, queueVars, runVars, worker, announced, unsaid>>

-------------------------------------------------------------------------------
(* The queue (BullMQ, external) and the worker process.                    *)

Active == {j \in Jobs : pc[j] # "idle"}
WorkerUp == worker # NoContent

Idle(j) ==
  /\ pc' = [pc EXCEPT ![j] = "idle"]
  /\ todo' = [todo EXCEPT ![j] = {}]
  /\ kept' = [kept EXCEPT ![j] = {}]

LastAttempt(j) == made[j] + 1 >= MaxAttempts

\* An attempt that threw is tried again after a delay, until they are used up.
\* Idle jobs of state "waiting" are taken in any order, delays are not told apart.
Thrown(j) ==
  /\ made' = [made EXCEPT ![j] = @ + 1]
  /\ queue' = [queue EXCEPT ![j] = IF LastAttempt(j) THEN "failed" ELSE "waiting"]
  /\ UNCHANGED stalls
  /\ Idle(j)

\* A job ends without a word, if this was its last attempt.
EndsUnsaid(j) == unsaid' = IF LastAttempt(j) THEN unsaid \cup {j} ELSE unsaid

TakeJob(j) ==
  /\ WorkerUp /\ queue[j] = "waiting" /\ Cardinality(Active) < Slots
  /\ queue' = [queue EXCEPT ![j] = "active"]
  /\ pc' = [pc EXCEPT ![j] = "look"]
  /\ unsaid' = unsaid \ {j}
  /\ UNCHANGED <<rowVars, bucket, profile, apiVars, record, made, stalls, todo, kept, worker, announced, left>>

WorkerCrash ==
  /\ WorkerUp
  /\ Spend("crash")
  /\ worker' = NoContent
  /\ pc' = [j \in Jobs |-> "idle"]
  /\ todo' = [j \in Jobs |-> {}]
  /\ kept' = [j \in Jobs |-> {}]
  /\ UNCHANGED <<rowVars, bucket, profile, apiVars, record, queueVars, announced, unsaid>>

\* The environment is read once per process, so new settings take a restart.
WorkerStart(s) ==
  /\ ~WorkerUp
  /\ worker' = s
  /\ UNCHANGED <<rowVars, bucket, profile, apiVars, record, queueVars, runVars, announced, unsaid, left>>

\* A job nobody holds the lock of goes back to waiting; one that stalls too
\* often is failed by the queue, and no code of the processor hears of it.
Stalled(j) ==
  /\ WorkerUp /\ queue[j] = "active" /\ pc[j] = "idle"
  /\ IF stalls[j] < MaxStalls
       THEN /\ queue' = [queue EXCEPT ![j] = "waiting"]
            /\ stalls' = [stalls EXCEPT ![j] = @ + 1]
            /\ UNCHANGED unsaid
       ELSE /\ queue' = [queue EXCEPT ![j] = "failed"]
            /\ unsaid' = unsaid \cup {j}
            /\ UNCHANGED stalls
  /\ UNCHANGED <<rowVars, bucket, profile, apiVars, record, made, runVars, worker, announced, left>>

-------------------------------------------------------------------------------
(* processMediaAsset, one step per await.                                  *)

Goto(j, stage) == pc' = [pc EXCEPT ![j] = stage]

\* Mutant of LookUp: a deleted asset ends the job without closing its record.
LookUpQuietly(j) ==
  /\ pc[j] = "look"
  /\ IF target[j] \in deleted
       THEN queue' = [queue EXCEPT ![j] = "completed"] /\ Idle(j)
       ELSE Goto(j, "mark") /\ UNCHANGED <<queue, todo, kept>>
  /\ UNCHANGED <<rowVars, bucket, profile, apiVars, record, made, stalls, worker, announced, unsaid, left>>

\* findUnique: a deleted asset ends the job, its record says so, unless that update fails: the
\* error is swallowed.
LookUp(j) ==
  /\ pc[j] = "look"
  /\ \/ /\ target[j] \in deleted
        /\ queue' = [queue EXCEPT ![j] = "completed"]
        /\ Idle(j)
        /\ \/ /\ record' = [record EXCEPT ![j] = "failed"]
              /\ UNCHANGED <<unsaid, left>>
           \/ /\ Spend("outside")
              /\ unsaid' = unsaid \cup {j}
              /\ UNCHANGED record
     \/ /\ target[j] \notin deleted
        /\ Goto(j, "mark")
        /\ UNCHANGED <<record, queue, todo, kept, unsaid, left>>
  /\ UNCHANGED <<rowVars, bucket, profile, apiVars, made, stalls, worker, announced>>

\* Mutant of MarkProcessing: the asset keeps its status while it is worked on.
MarkNothing(j) ==
  /\ pc[j] = "mark"
  /\ Goto(j, "run")
  /\ UNCHANGED <<rowVars, bucket, profile, apiVars, record, queueVars, todo, kept, worker, announced, unsaid, left>>

MarkProcessing(j) ==
  /\ pc[j] = "mark"
  /\ status' = [status EXCEPT ![target[j]] = "processing"]
  /\ Goto(j, "run")
  /\ UNCHANGED <<deleted, checksum, processed, variants, bucket, profile, apiVars, record, queueVars,
                 todo, kept, worker, announced, unsaid, left>>

MarkRunning(j) ==
  /\ pc[j] = "run"
  /\ record' = [record EXCEPT ![j] = "running"]
  /\ Goto(j, IF target[j] \in Videos THEN "tiers" ELSE "thumb")
  /\ UNCHANGED <<rowVars, bucket, profile, apiVars, queueVars, todo, kept, worker, announced, unsaid, left>>

\* The original is downloaded and probed, and the tiers in use are read.
TiersInUse == {profile[d] : d \in Devices} \cup {"standard"}

ReadTiers(j) ==
  /\ pc[j] = "tiers"
  /\ kept' = [kept EXCEPT ![j] = TiersInUse]
  /\ todo' = [todo EXCEPT ![j] = TiersInUse]
  /\ Goto(j, "encode")
  /\ UNCHANGED <<rowVars, bucket, profile, apiVars, record, queueVars, worker, announced, unsaid, left>>

\* One tier is transcoded and uploaded over whatever its key holds: "standard"
\* first, and each other tier followed by its row.
EncodeTier(j, t) ==
  /\ pc[j] = "encode" /\ t \in todo[j]
  /\ "standard" \in todo[j] => t = "standard"
  /\ bucket' = [bucket EXCEPT ![target[j]][t] = Encode(worker, t)]
  /\ IF t = "standard"
       THEN /\ todo' = [todo EXCEPT ![j] = @ \ {t}]
            /\ UNCHANGED pc
       ELSE /\ UNCHANGED todo
            /\ Goto(j, t)
  /\ UNCHANGED <<rowVars, profile, apiVars, record, queueVars, kept, worker, announced, unsaid, left>>

SaveVariant(j) ==
  /\ pc[j] \in Tiers
  /\ variants' = [variants EXCEPT ![target[j]][pc[j]] = Encode(worker, pc[j])]
  /\ todo' = [todo EXCEPT ![j] = @ \ {pc[j]}]
  /\ Goto(j, "encode")
  /\ UNCHANGED <<status, deleted, checksum, processed, bucket, profile, apiVars, record, queueVars,
                 kept, worker, announced, unsaid, left>>

\* Rows of the tiers this run has not encoded go; their objects stay.
PruneVariants(j) ==
  /\ pc[j] = "encode" /\ todo[j] = {}
  /\ variants' = [variants EXCEPT ![target[j]] =
                    [t \in Tiers |-> IF t \in kept[j] THEN @[t] ELSE NoContent]]
  /\ Goto(j, "thumb")
  /\ UNCHANGED <<status, deleted, checksum, processed, bucket, profile, apiVars, record, queueVars,
                 todo, kept, worker, announced, unsaid, left>>

MakeThumbnail(j) ==
  /\ pc[j] = "thumb"
  /\ bucket' = [bucket EXCEPT ![target[j]]["thumb"] = Source]
  /\ Goto(j, "finish")
  /\ UNCHANGED <<rowVars, profile, apiVars, record, queueVars, todo, kept, worker, announced, unsaid, left>>

\* The checksum is that of the file this run has made; images are their original.
FinishAsset(j) ==
  LET a == target[j] IN
  /\ pc[j] = "finish"
  /\ status' = [status EXCEPT ![a] = "ready"]
  /\ checksum' = [checksum EXCEPT ![a] = IF a \in Videos THEN Encode(worker, "standard") ELSE Source]
  /\ processed' = processed \cup {a}
  /\ announced' = announced \ {a}
  /\ Goto(j, "close")
  /\ UNCHANGED <<deleted, variants, bucket, profile, apiVars, record, queueVars, todo, kept, worker, unsaid, left>>

CloseRecord(j) ==
  /\ pc[j] = "close"
  /\ record' = [record EXCEPT ![j] = "completed"]
  /\ Goto(j, "publish")
  /\ UNCHANGED <<rowVars, bucket, profile, apiVars, queueVars, todo, kept, worker, announced, unsaid, left>>

\* sync_required goes to the whole organization, then the job is complete.
Publish(j) ==
  /\ pc[j] = "publish"
  /\ announced' = Assets
  /\ queue' = [queue EXCEPT ![j] = "completed"]
  /\ Idle(j)
  /\ UNCHANGED <<rowVars, bucket, profile, apiVars, record, made, stalls, worker, unsaid, left>>

\* What the try block covers: from the download to the update of the record.
InTry(j) == pc[j] \in Tiers \cup {"tiers", "encode", "thumb", "finish", "close"}

Throw(j) ==
  /\ InTry(j)
  /\ Spend("throw")
  /\ Goto(j, "caught")
  /\ UNCHANGED <<rowVars, bucket, profile, apiVars, record, queueVars, todo, kept, worker, announced, unsaid>>

\* The catch updates both rows; what fails there is swallowed.
Caught(j) ==
  /\ pc[j] = "caught"
  /\ \/ /\ status' = [status EXCEPT ![target[j]] = "failed"]
        /\ UNCHANGED <<unsaid, left>>
     \/ /\ Spend("outside")
        /\ EndsUnsaid(j)
        /\ UNCHANGED status
  /\ Goto(j, "failed")
  /\ UNCHANGED <<deleted, checksum, processed, variants, bucket, profile, apiVars, record, queueVars,
                 todo, kept, worker, announced>>

Rethrow(j) ==
  /\ pc[j] = "failed"
  /\ \/ /\ record' = [record EXCEPT ![j] = "failed"]
        /\ UNCHANGED <<unsaid, left>>
     \/ /\ Spend("outside")
        /\ EndsUnsaid(j)
        /\ UNCHANGED record
  /\ Thrown(j)
  /\ UNCHANGED <<rowVars, bucket, profile, apiVars, worker, announced>>

\* Mutant of ThrowOutside: a failed publish is logged, and the job is complete.
PublishSwallowed(j) ==
  /\ pc[j] = "publish"
  /\ Spend("outside")
  /\ queue' = [queue EXCEPT ![j] = "completed"]
  /\ Idle(j)
  /\ UNCHANGED <<rowVars, bucket, profile, apiVars, record, made, stalls, worker, announced, unsaid>>

\* A throw outside the try block reaches the queue without a word in the rows: at an update
\* before it, at its temporary directory, at the publish after it.
TmpDir(j) == pc[j] = IF target[j] \in Videos THEN "tiers" ELSE "thumb"

ThrowOutside(j) ==
  /\ pc[j] \in {"look", "mark", "run", "publish"} \/ TmpDir(j)
  /\ Spend("outside")
  /\ Thrown(j)
  /\ EndsUnsaid(j)
  /\ UNCHANGED <<rowVars, bucket, profile, apiVars, record, worker, announced>>

-------------------------------------------------------------------------------

Init ==
  /\ status = [a \in Assets |-> "none"] /\ deleted = {}
  /\ checksum = [a \in Assets |-> NoContent] /\ processed = {}
  /\ variants = [a \in Assets |-> [t \in Tiers |-> NoContent]]
  /\ bucket = [a \in Assets |-> [k \in Kinds |-> NoContent]]
  /\ profile \in [Devices -> Profiles]
  /\ request = [j \in Jobs |-> "none"]
  /\ target \in [Jobs -> Assets]
  /\ record = [j \in Jobs |-> "none"]
  /\ queue = [j \in Jobs |-> "none"]
  /\ made = [j \in Jobs |-> 0] /\ stalls = [j \in Jobs |-> 0]
  /\ pc = [j \in Jobs |-> "idle"]
  /\ todo = [j \in Jobs |-> {}] /\ kept = [j \in Jobs |-> {}]
  /\ worker = NoContent
  /\ announced = Assets
  /\ unsaid = {}
  /\ left \in Budgets

RequestStep(j) ==
  \/ CreateAsset(j) \/ MakePending(j) \/ CreateJob(j) \/ AddJob(j)

RunStep(j) ==
  \/ LookUp(j) \/ MarkProcessing(j) \/ MarkRunning(j) \/ ReadTiers(j)
  \/ \E t \in Profiles : EncodeTier(j, t)
  \/ SaveVariant(j) \/ PruneVariants(j) \/ MakeThumbnail(j) \/ FinishAsset(j) \/ CloseRecord(j)
  \/ Publish(j) \/ Caught(j) \/ Rethrow(j)

Next ==
  \/ \E j \in Jobs, a \in Assets : Upload(j, a) \/ Reprocess(j, a)
  \/ \E j \in Jobs : RequestStep(j) \/ LoseRequest(j)
  \/ \E a \in Assets : Delete(a)
  \/ \E d \in Devices, p \in Profiles : SetProfile(d, p)
  \/ \E j \in Jobs : TakeJob(j) \/ Stalled(j)
  \/ WorkerCrash
  \/ \E s \in Settings : WorkerStart(s)
  \/ \E j \in Jobs : RunStep(j) \/ Throw(j) \/ ThrowOutside(j)

Spec == Init /\ [][Next]_vars

\* A started request, a taken job and a running worker get on; the restart
\* policy of the container brings the worker back.  Nobody has to upload.
Fairness ==
  /\ \A j \in Jobs : WF_vars(RequestStep(j)) /\ WF_vars(RunStep(j)) /\ WF_vars(Stalled(j))
  /\ \A j \in Jobs : SF_vars(TakeJob(j))
  /\ WF_vars(\E s \in Settings : WorkerStart(s))

FairSpec == Spec /\ Fairness

-------------------------------------------------------------------------------
(* Properties.                                                             *)

\* Type correctness of the rows, the objects, the queue and the runs.
TypeOK ==
  /\ status \in [Assets -> {"none", "pending", "processing", "ready", "failed"}]
  /\ deleted \in SUBSET Assets /\ processed \in SUBSET Assets /\ announced \in SUBSET Assets
  /\ checksum \in [Assets -> Contents \cup {NoContent}]
  /\ variants \in [Assets -> [Tiers -> Contents \cup {NoContent}]]
  /\ bucket \in [Assets -> [Kinds -> Contents \cup {NoContent}]]
  /\ profile \in [Devices -> Profiles]
  /\ request \in [Jobs -> {"none", "stored", "found", "rowed", "recorded", "done", "lost"}]
  /\ target \in [Jobs -> Assets]
  /\ record \in [Jobs -> {"none", "queued", "running", "completed", "failed"}]
  /\ queue \in [Jobs -> {"none", "waiting", "active", "completed", "failed"}]
  /\ made \in [Jobs -> Nat] /\ stalls \in [Jobs -> Nat]
  /\ pc \in [Jobs -> Stages \cup Tiers]
  /\ todo \in [Jobs -> SUBSET Profiles] /\ kept \in [Jobs -> SUBSET Profiles]
  /\ worker \in Settings \cup {NoContent}
  /\ unsaid \in SUBSET Jobs
  /\ left \in [Events -> Nat]

\* isPlayable: what a manifest may contain.
IsPlayable(a) ==
  /\ status[a] = "ready" /\ a \notin deleted
  /\ checksum[a] # NoContent /\ a \in processed

\* selectVideoVariant: the key whose object a device of profile p is served, and
\* the checksum its manifest advertises: tier, else standard; images, the original.
SelectVariant(a, p) ==
  IF a \in Videos
    THEN IF p \in Tiers /\ variants[a][p] # NoContent
           THEN [kind |-> p, sum |-> variants[a][p]]
           ELSE [kind |-> "standard", sum |-> checksum[a]]
    ELSE [kind |-> "original", sum |-> checksum[a]]

\* Whatever jobs of an asset overlap, fail, crash or start over with new encoder
\* settings: while its row lets manifests include it, the object every profile
\* would be served is there and is the one whose checksum is advertised.
OfferMatchesObject ==
  \A a \in Assets, p \in Profiles :
    IsPlayable(a) => LET offer == SelectVariant(a, p) IN bucket[a][offer.kind] = offer.sum

\* A row of the database never names an original that is not stored.
OriginalStored == \A a \in Assets : status[a] # "none" => bucket[a]["original"] = Source

Abandoned(a) == \E j \in Jobs : request[j] = "lost" /\ target[j] = a

\* What a run has written is current: of the settings of the worker that runs it.
Current(a, t) == bucket[a][t] = Encode(worker, t)
RowCurrent(a, t) == variants[a][t] = NoContent \/ (variants[a][t] = Encode(worker, t) /\ Current(a, t))
RowsCurrent(a) == \A t \in Tiers : RowCurrent(a, t)

\* The tiers a run has encoded so far.
Encoded(j) == kept[j] \ (todo[j] \cup {pc[j]})

\* The run of a video, stage by stage.  Another run may have dropped a row this one saved.
VideoRun(j) ==
  LET a == target[j] IN
  /\ pc[j] \in Tiers \cup {"encode"} =>
       /\ todo[j] \subseteq kept[j]
       /\ "standard" \in kept[j]
       /\ "standard" \notin todo[j] => Current(a, "standard")
       /\ \A t \in Encoded(j) \cap Tiers : RowCurrent(a, t)
  /\ pc[j] \in Tiers => Current(a, pc[j]) /\ pc[j] \in todo[j] /\ "standard" \notin todo[j]
  /\ pc[j] \in {"thumb", "finish"} => Current(a, "standard") /\ RowsCurrent(a)

RunCurrent(j) ==
  pc[j] # "idle" => worker \in Settings /\ (target[j] \in Videos => VideoRun(j))

\* Once a run has marked its asset, "ready" means that a run of this worker is through.
Marked(j) == pc[j] \in {"run", "tiers", "encode", "thumb", "finish", "close", "caught"} \cup Tiers
ReadyCurrent(j) ==
  Marked(j) /\ target[j] \in Videos /\ status[target[j]] = "ready" =>
    /\ checksum[target[j]] = Encode(worker, "standard")
    /\ Current(target[j], "standard")
    /\ RowsCurrent(target[j])

RunsCurrent == \A j \in Jobs : RunCurrent(j)
ReadyIsCurrent == \A j \in Jobs : ReadyCurrent(j)

\* A job stands for an asset that has a row, from its request on.
JobsHaveRows ==
  \A j \in Jobs :
    /\ request[j] = "stored" => bucket[target[j]]["original"] = Source
    /\ request[j] \in {"found", "rowed", "recorded", "done"} => status[target[j]] # "none"
    /\ queue[j] # "none" => request[j] = "done"
    /\ pc[j] # "idle" => queue[j] # "none"

\* The inductive invariant behind OfferMatchesObject.
PipelineInv ==
  TypeOK /\ JobsHaveRows /\ OriginalStored /\ RunsCurrent /\ ReadyIsCurrent /\ OfferMatchesObject

\* A job of the asset has ended for good and not said so: its last attempt threw outside the
\* try, could not write a row in the catch, or its worker died once too often.
Unsaid(a) == \E j \in unsaid : target[j] = a

\* Every asset and every job record comes to rest: jobs that throw, are retried, or lose their
\* worker leave nothing in between, unless the request that was to queue the job died first, or
\* a job ended unsaid.  Errors that leave it an attempt never do.
ComesToRest ==
  /\ \A a \in Assets : status[a] \in {"pending", "processing"} ~>
                         \/ status[a] \in {"ready", "failed"} \/ a \in deleted
                         \/ Abandoned(a) \/ Unsaid(a)
  /\ \A j \in Jobs : record[j] \in {"queued", "running"} ~>
                       record[j] \in {"completed", "failed"} \/ request[j] = "lost" \/ j \in unsaid

\* Devices hear of every asset that became ready: a worker that dies, or a Redis that fails,
\* before the publish only delays it, unless the asset goes away again or that used up the
\* last attempt.
ReadyIsAnnounced ==
  \A a \in Assets :
    IsPlayable(a) /\ a \notin announced ~> a \in announced \/ ~IsPlayable(a) \/ Unsaid(a)

===============================================================================
