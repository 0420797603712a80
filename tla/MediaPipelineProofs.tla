------------------------- MODULE MediaPipelineProofs -------------------------
(***************************************************************************)
(* Proofs about MediaPipeline for any assets, tiers, devices, jobs,        *)
(* settings, slots and budgets: types, and that a playable asset is served *)
(* the object whose checksum its manifest advertises.                      *)
(***************************************************************************)
EXTENDS MediaPipeline, TLAPS

-------------------------------------------------------------------------------
(* Objects and rows.                                                       *)

\* What a tier is encoded to is something an object may contain.
LEMMA EncodeType ==
  ASSUME NEW s \in Settings, NEW t \in Profiles
  PROVE  Encode(s, t) \in Contents
BY DEF Encode, Contents

\* The names of kinds, tiers and stages do not clash.
LEMMA Names ==
  /\ "thumb" \notin Profiles \cup {"original"} /\ "original" \notin Profiles
  /\ "standard" \notin Tiers
  /\ \A t \in Tiers : t \notin Stages
  /\ Tiers \subseteq Profiles /\ Profiles \subseteq Kinds
  /\ {"original", "thumb", "standard"} \subseteq Kinds /\ "standard" \in Profiles
BY PipelineAssumption DEF Profiles, Kinds, Stages

\* A row is NoContent or something an object may contain, never both.
LEMMA Absent == NoContent \notin Contents /\ NoContent \notin Settings
BY PipelineAssumption

\* A write changes the object under its key and no other.
LEMMA Written ==
  ASSUME TypeOK, NEW a \in Assets, NEW k \in Kinds, NEW c,
         bucket' = [bucket EXCEPT ![a][k] = c]
  PROVE  \A b \in Assets, m \in Kinds :
           bucket'[b][m] = IF b = a /\ m = k THEN c ELSE bucket[b][m]
BY DEF TypeOK

\* And keeps the objects well typed.
LEMMA WrittenType ==
  ASSUME TypeOK, NEW a \in Assets, NEW k \in Kinds, NEW c \in Contents,
         bucket' = [bucket EXCEPT ![a][k] = c]
  PROVE  bucket' \in [Assets -> [Kinds -> Contents \cup {NoContent}]]
BY DEF TypeOK

-------------------------------------------------------------------------------
(* Types.                                                                  *)

\* The initial state is well typed.
LEMMA TypeInit == Init => TypeOK
BY PipelineAssumption DEF Init, TypeOK, Profiles, Stages

\* A call that fails is one of the events a scenario allows.
LEMMA SpendType ==
  ASSUME TypeOK, Spend("outside") PROVE left' \in [Events -> Nat]
BY DEF TypeOK, Spend, Events

\* Jobs that end without a word are jobs.
LEMMA UnsaidType ==
  ASSUME TypeOK, NEW j \in Jobs, EndsUnsaid(j) PROVE unsaid' \in SUBSET Jobs
BY DEF TypeOK, EndsUnsaid

\* A job that threw is queued again, or failed.
LEMMA ThrownType ==
  ASSUME TypeOK, NEW j \in Jobs, Thrown(j)
  PROVE  /\ made' \in [Jobs -> Nat] /\ stalls' = stalls
         /\ \E s \in {"waiting", "failed"} : queue' = [queue EXCEPT ![j] = s]
         /\ pc' \in [Jobs -> Stages \cup Tiers]
         /\ todo' \in [Jobs -> SUBSET Profiles] /\ kept' \in [Jobs -> SUBSET Profiles]
<1>1. \E s \in {"waiting", "failed"} : queue' = [queue EXCEPT ![j] = s]
  BY DEF Thrown
<1>2. made' \in [Jobs -> Nat] /\ stalls' = stalls
  BY DEF TypeOK, Thrown
<1>3. pc' \in [Jobs -> Stages \cup Tiers]
  BY DEF TypeOK, Thrown, Idle, Stages
<1>4. todo' \in [Jobs -> SUBSET Profiles] /\ kept' \in [Jobs -> SUBSET Profiles]
  BY DEF TypeOK, Thrown, Idle
<1> QED
  BY <1>1, <1>2, <1>3, <1>4

\* Every step of a run keeps the types; what is encoded needs a worker that is up.
LEMMA RunStepTypes == ASSUME TypeOK, RunsCurrent, NEW j \in Jobs, RunStep(j) PROVE TypeOK'
<1> USE DEF Goto, Idle, rowVars, apiVars, queueVars, runVars
<1>1. CASE LookUp(j)
  <2>1. left' \in [Events -> Nat] /\ unsaid' \in SUBSET Jobs
    BY <1>1, SpendType DEF LookUp, TypeOK
  <2>2. record' \in [Jobs -> {"none", "queued", "running", "completed", "failed"}]
    BY <1>1 DEF LookUp, TypeOK
  <2> QED
    BY <1>1, <2>1, <2>2 DEF LookUp, TypeOK, Stages
<1>2. CASE MarkProcessing(j)
  BY <1>2 DEF MarkProcessing, TypeOK, Stages
<1>3. CASE MarkRunning(j)
  BY <1>3 DEF MarkRunning, TypeOK, Stages
<1>4. CASE ReadTiers(j)
  <2>1. TypeOK => TiersInUse \subseteq Profiles
    BY DEF TiersInUse, TypeOK, Profiles
  <2> QED
    BY <1>4, <2>1 DEF ReadTiers, TypeOK, Stages
<1>5. ASSUME NEW t \in Profiles, EncodeTier(j, t) PROVE TypeOK'
  <2>1. pc[j] # "idle" /\ target[j] \in Assets
    BY <1>5, Names DEF EncodeTier, TypeOK
  <2>2. worker \in Settings
    BY <2>1 DEF RunsCurrent, RunCurrent
  <2>3. Encode(worker, t) \in Contents /\ t \in Kinds
    BY <2>2, EncodeType, Names
  <2>4. bucket' = [bucket EXCEPT ![target[j]][t] = Encode(worker, t)]
    BY <1>5 DEF EncodeTier
  <2>5. bucket' \in [Assets -> [Kinds -> Contents \cup {NoContent}]]
    BY <2>1, <2>3, <2>4, WrittenType
  <2>6. todo' \in [Jobs -> SUBSET Profiles]
    <3>1. todo' = todo \/ todo' = [todo EXCEPT ![j] = @ \ {t}]
      BY <1>5 DEF EncodeTier
    <3> QED
      BY <3>1 DEF TypeOK
  <2>7. pc' \in [Jobs -> Stages \cup Tiers]
    <3>1. pc' = pc \/ (t \in Tiers /\ pc' = [pc EXCEPT ![j] = t])
      BY <1>5 DEF EncodeTier, Profiles
    <3> QED
      BY <3>1 DEF TypeOK
  <2> QED
    BY <1>5, <2>5, <2>6, <2>7 DEF EncodeTier, TypeOK
<1>6. CASE SaveVariant(j)
  <2>1. pc[j] \in Tiers /\ pc[j] # "idle"
    BY <1>6, Names DEF SaveVariant, Stages
  <2>2. worker \in Settings
    BY <2>1 DEF RunsCurrent, RunCurrent
  <2>3. Encode(worker, pc[j]) \in Contents
    BY <2>1, <2>2, EncodeType, Names
  <2>4. variants' \in [Assets -> [Tiers -> Contents \cup {NoContent}]]
    BY <1>6, <2>1, <2>3 DEF SaveVariant, TypeOK
  <2> QED
    BY <1>6, <2>4 DEF SaveVariant, TypeOK, Stages
<1>7. CASE PruneVariants(j)
  <2>1. variants' \in [Assets -> [Tiers -> Contents \cup {NoContent}]]
    BY <1>7 DEF PruneVariants, TypeOK
  <2> QED
    BY <1>7, <2>1 DEF PruneVariants, TypeOK, Stages
<1>8. CASE MakeThumbnail(j)
  <2>1. target[j] \in Assets /\ "thumb" \in Kinds /\ Source \in Contents
    BY Names DEF TypeOK, Contents
  <2>2. bucket' \in [Assets -> [Kinds -> Contents \cup {NoContent}]]
    BY <1>8, <2>1, WrittenType DEF MakeThumbnail
  <2> QED
    BY <1>8, <2>2 DEF MakeThumbnail, TypeOK, Stages
<1>9. CASE FinishAsset(j)
  <2>1. worker \in Settings
    BY <1>9 DEF FinishAsset, RunsCurrent, RunCurrent
  <2>2. Encode(worker, "standard") \in Contents /\ Source \in Contents
    BY <2>1, EncodeType, Names DEF Contents
  <2>3. checksum' \in [Assets -> Contents \cup {NoContent}]
    BY <1>9, <2>2 DEF FinishAsset, TypeOK
  <2> QED
    BY <1>9, <2>3 DEF FinishAsset, TypeOK, Stages
<1>10. CASE CloseRecord(j)
  BY <1>10 DEF CloseRecord, TypeOK, Stages
<1>11. CASE Publish(j)
  BY <1>11 DEF Publish, TypeOK, Stages
<1>12. CASE Caught(j)
  <2>1. left' \in [Events -> Nat] /\ unsaid' \in SUBSET Jobs
    BY <1>12, SpendType, UnsaidType DEF Caught, TypeOK
  <2>2. status' \in [Assets -> {"none", "pending", "processing", "ready", "failed"}]
    BY <1>12 DEF Caught, TypeOK
  <2> QED
    BY <1>12, <2>1, <2>2 DEF Caught, TypeOK, Stages
<1>13. CASE Rethrow(j)
  <2>1. left' \in [Events -> Nat] /\ unsaid' \in SUBSET Jobs
    BY <1>13, SpendType, UnsaidType DEF Rethrow, TypeOK
  <2>2. record' \in [Jobs -> {"none", "queued", "running", "completed", "failed"}]
    BY <1>13 DEF Rethrow, TypeOK
  <2>3. Thrown(j)
    BY <1>13 DEF Rethrow
  <2> QED
    BY <1>13, <2>1, <2>2, <2>3, ThrownType DEF Rethrow, TypeOK
<1> QED
  BY <1>1, <1>2, <1>3, <1>4, <1>5, <1>6, <1>7, <1>8, <1>9, <1>10, <1>11, <1>12, <1>13 DEF RunStep

\* So does every other step.
LEMMA TypeStep == TypeOK /\ RunsCurrent /\ [Next]_vars => TypeOK'
<1> SUFFICES ASSUME TypeOK, RunsCurrent, [Next]_vars PROVE TypeOK'
  OBVIOUS
<1> USE DEF Goto, Idle, Spend, rowVars, apiVars, queueVars, runVars
<1>1. ASSUME NEW j \in Jobs, NEW a \in Assets, Upload(j, a) PROVE TypeOK'
  <2>1. bucket' \in [Assets -> [Kinds -> Contents \cup {NoContent}]]
    BY <1>1, Names, WrittenType DEF Upload, Contents
  <2> QED
    BY <1>1, <2>1 DEF Upload, TypeOK
<1>2. ASSUME NEW j \in Jobs, NEW a \in Assets, Reprocess(j, a) PROVE TypeOK'
  BY <1>2 DEF Reprocess, TypeOK, Events
<1>3. ASSUME NEW j \in Jobs, RequestStep(j) PROVE TypeOK'
  <2>1. CASE CreateAsset(j)
    BY <2>1 DEF CreateAsset, TypeOK
  <2>2. CASE MakePending(j)
    BY <2>2 DEF MakePending, TypeOK
  <2>3. CASE CreateJob(j)
    BY <2>3 DEF CreateJob, TypeOK
  <2>4. CASE AddJob(j)
    BY <2>4 DEF AddJob, TypeOK
  <2> QED
    BY <1>3, <2>1, <2>2, <2>3, <2>4 DEF RequestStep
<1>4. ASSUME NEW j \in Jobs, LoseRequest(j) PROVE TypeOK'
  BY <1>4 DEF LoseRequest, TypeOK, Events
<1>5. ASSUME NEW a \in Assets, Delete(a) PROVE TypeOK'
  BY <1>5 DEF Delete, TypeOK, Events
<1>6. ASSUME NEW d \in Devices, NEW p \in Profiles, SetProfile(d, p) PROVE TypeOK'
  BY <1>6 DEF SetProfile, TypeOK, Events
<1>7. ASSUME NEW j \in Jobs, TakeJob(j) PROVE TypeOK'
  BY <1>7 DEF TakeJob, TypeOK, Stages
<1>8. ASSUME NEW j \in Jobs, Stalled(j) PROVE TypeOK'
  <2>1. queue' \in [Jobs -> {"none", "waiting", "active", "completed", "failed"}]
    BY <1>8 DEF Stalled, TypeOK
  <2>2. stalls' \in [Jobs -> Nat]
    <3>1. stalls \in [Jobs -> Nat] /\ (stalls' = stalls \/ stalls' = [stalls EXCEPT ![j] = @ + 1])
      BY <1>8 DEF Stalled, TypeOK
    <3> QED
      BY <3>1
  <2> QED
    BY <1>8, <2>1, <2>2 DEF Stalled, TypeOK
<1>9. CASE WorkerCrash
  <2>1. pc' \in [Jobs -> Stages \cup Tiers] /\ todo' \in [Jobs -> SUBSET Profiles]
        /\ kept' \in [Jobs -> SUBSET Profiles]
    BY <1>9 DEF WorkerCrash, Stages
  <2> QED
    BY <1>9, <2>1 DEF WorkerCrash, TypeOK, Events
<1>10. ASSUME NEW s \in Settings, WorkerStart(s) PROVE TypeOK'
  BY <1>10 DEF WorkerStart, TypeOK
<1>11. ASSUME NEW j \in Jobs, RunStep(j) PROVE TypeOK'
  BY <1>11, RunStepTypes
<1>12. ASSUME NEW j \in Jobs, Throw(j) PROVE TypeOK'
  BY <1>12 DEF Throw, TypeOK, Stages, Events
<1>13. ASSUME NEW j \in Jobs, ThrowOutside(j) PROVE TypeOK'
  <2>1. left' \in [Events -> Nat] /\ unsaid' \in SUBSET Jobs
    BY <1>13, SpendType, UnsaidType DEF ThrowOutside
  <2>2. Thrown(j)
    BY <1>13 DEF ThrowOutside
  <2> QED
    BY <1>13, <2>1, <2>2, ThrownType DEF ThrowOutside, TypeOK, rowVars, apiVars
<1>14. CASE UNCHANGED vars
  BY <1>14 DEF vars, TypeOK
<1> QED
  BY <1>1, <1>2, <1>3, <1>4, <1>5, <1>6, <1>7, <1>8, <1>9, <1>10, <1>11, <1>12, <1>13, <1>14 DEF Next

-------------------------------------------------------------------------------
(* Jobs stand for assets with a row and rows for originals.                *)

RowsInv == JobsHaveRows /\ OriginalStored

\* Steps that give no job, row or object away keep all that jobs and rows stand for.
LEMMA RowsKept ==
  ASSUME TypeOK, RowsInv, target' = target,
         \A a \in Assets : (status'[a] # "none") <=> (status[a] # "none"),
         \A a \in Assets : bucket'[a]["original"] = bucket[a]["original"],
         \A j \in Jobs : request'[j] = request[j],
         \A j \in Jobs : (queue'[j] # "none") <=> (queue[j] # "none"),
         \A j \in Jobs : pc'[j] # "idle" => queue[j] # "none"
  PROVE  RowsInv'
<1>1. JobsHaveRows'
  <2> SUFFICES ASSUME NEW j \in Jobs
               PROVE  /\ request[j] = "stored" => bucket'[target[j]]["original"] = Source
                      /\ request[j] \in {"found", "rowed", "recorded", "done"} => status'[target[j]] # "none"
                      /\ queue'[j] # "none" => request[j] = "done"
                      /\ pc'[j] # "idle" => queue'[j] # "none"
    BY DEF JobsHaveRows
  <2>1. target[j] \in Assets
    BY DEF TypeOK
  <2> QED
    BY <2>1 DEF RowsInv, JobsHaveRows
<1>2. OriginalStored'
  BY DEF RowsInv, OriginalStored, TypeOK
<1> QED
  BY <1>1, <1>2 DEF RowsInv

\* A job that runs is queued, and its asset has a row.
LEMMA Running ==
  ASSUME TypeOK, RowsInv, NEW j \in Jobs, pc[j] # "idle"
  PROVE  /\ target[j] \in Assets /\ status[target[j]] # "none" /\ queue[j] # "none"
         /\ bucket[target[j]]["original"] = Source
BY DEF RowsInv, JobsHaveRows, OriginalStored, TypeOK

\* No step of a run gives a row, an original or a job up.
LEMMA RunStepRows ==
  ASSUME TypeOK, RowsInv, NEW j \in Jobs, RunStep(j) PROVE RowsInv'
<1> USE DEF Goto, Idle, rowVars, apiVars, queueVars, runVars
<1>0. pc[j] # "idle"
  BY Names DEF RunStep, LookUp, MarkProcessing, MarkRunning, ReadTiers, EncodeTier, SaveVariant,
     PruneVariants, MakeThumbnail, FinishAsset, CloseRecord, Publish, Caught, Rethrow, Stages
<1>a. /\ target[j] \in Assets /\ status[target[j]] # "none" /\ queue[j] # "none"
  BY <1>0, Running
<1>b. /\ target' = target /\ request' = request
  BY DEF RunStep, LookUp, MarkProcessing, MarkRunning, ReadTiers, EncodeTier, SaveVariant,
     PruneVariants, MakeThumbnail, FinishAsset, CloseRecord, Publish, Caught, Rethrow
<1>c. \A k \in Jobs : k # j => pc'[k] = pc[k]
  BY DEF RunStep, LookUp, MarkProcessing, MarkRunning, ReadTiers, EncodeTier, SaveVariant,
     PruneVariants, MakeThumbnail, FinishAsset, CloseRecord, Publish, Caught, Rethrow, Thrown, TypeOK
<1>d. \A k \in Jobs : pc'[k] # "idle" => queue[k] # "none"
  BY <1>a, <1>c DEF RowsInv, JobsHaveRows
<1>e. \A a \in Assets : (status'[a] # "none") <=> (status[a] # "none")
  <2>1. \/ status' = status
        \/ \E s \in {"processing", "ready", "failed"} : status' = [status EXCEPT ![target[j]] = s]
    BY DEF RunStep, LookUp, MarkProcessing, MarkRunning, ReadTiers, EncodeTier, SaveVariant,
     PruneVariants, MakeThumbnail, FinishAsset, CloseRecord, Publish, Caught, Rethrow
  <2> QED
    BY <1>a, <2>1 DEF TypeOK
<1>f. \A a \in Assets : bucket'[a]["original"] = bucket[a]["original"]
  <2>1. CASE bucket' = bucket
    BY <2>1
  <2>2. ASSUME NEW t \in Profiles, EncodeTier(j, t)
        PROVE  \A a \in Assets : bucket'[a]["original"] = bucket[a]["original"]
    BY <1>a, <2>2, Names, Written DEF EncodeTier
  <2>3. CASE MakeThumbnail(j)
    BY <1>a, <2>3, Names, Written DEF MakeThumbnail
  <2> QED
    BY <2>1, <2>2, <2>3 DEF RunStep, LookUp, MarkProcessing, MarkRunning, ReadTiers, SaveVariant,
       PruneVariants, FinishAsset, CloseRecord, Publish, Caught, Rethrow
<1>g. \A k \in Jobs : (queue'[k] # "none") <=> (queue[k] # "none")
  <2>1. \/ queue' = queue
        \/ \E s \in {"completed", "waiting", "failed"} : queue' = [queue EXCEPT ![j] = s]
    BY DEF RunStep, LookUp, MarkProcessing, MarkRunning, ReadTiers, EncodeTier, SaveVariant,
     PruneVariants, MakeThumbnail, FinishAsset, CloseRecord, Publish, Caught, Rethrow, Thrown
  <2> QED
    BY <1>a, <2>1 DEF TypeOK
<1> QED
  BY <1>b, <1>d, <1>e, <1>f, <1>g, RowsKept

\* Nor does any other step.
LEMMA RowsStep == TypeOK /\ RowsInv /\ [Next]_vars => RowsInv'
<1> SUFFICES ASSUME TypeOK, RowsInv, [Next]_vars PROVE RowsInv'
  OBVIOUS
<1> USE DEF Goto, Idle, Spend, rowVars, apiVars, queueVars, runVars
<1>1. ASSUME NEW j \in Jobs, NEW a \in Assets, Upload(j, a) PROVE RowsInv'
  <2>0. bucket' = [bucket EXCEPT ![a]["original"] = Source] /\ "original" \in Kinds
    BY <1>1, Names DEF Upload
  <2>1. \A b \in Assets, m \in Kinds :
          bucket'[b][m] = IF b = a /\ m = "original" THEN Source ELSE bucket[b][m]
    BY <2>0 DEF TypeOK
  <2>2. OriginalStored'
    BY <1>1, <2>1, Names DEF Upload, RowsInv, OriginalStored
  <2>3. JobsHaveRows'
    BY <1>1, <2>1, Names DEF Upload, RowsInv, JobsHaveRows, TypeOK
  <2> QED
    BY <2>2, <2>3 DEF RowsInv
<1>2. ASSUME NEW j \in Jobs, NEW a \in Assets, Reprocess(j, a) PROVE RowsInv'
  BY <1>2 DEF Reprocess, Live, RowsInv, OriginalStored, JobsHaveRows, TypeOK
<1>3. ASSUME NEW j \in Jobs, RequestStep(j) PROVE RowsInv'
  <2>1. CASE CreateAsset(j)
    BY <2>1 DEF CreateAsset, RowsInv, OriginalStored, JobsHaveRows, TypeOK
  <2>2. CASE MakePending(j)
    BY <2>2 DEF MakePending, RowsInv, OriginalStored, JobsHaveRows, TypeOK
  <2>3. CASE CreateJob(j)
    BY <2>3 DEF CreateJob, RowsInv, OriginalStored, JobsHaveRows, TypeOK
  <2>4. CASE AddJob(j)
    BY <2>4 DEF AddJob, RowsInv, OriginalStored, JobsHaveRows, TypeOK
  <2> QED
    BY <1>3, <2>1, <2>2, <2>3, <2>4 DEF RequestStep
<1>4. ASSUME NEW j \in Jobs, LoseRequest(j) PROVE RowsInv'
  BY <1>4 DEF LoseRequest, RowsInv, OriginalStored, JobsHaveRows, TypeOK
<1>5. ASSUME NEW a \in Assets, Delete(a) PROVE RowsInv'
  BY <1>5 DEF Delete, RowsInv, OriginalStored, JobsHaveRows
<1>6. ASSUME NEW d \in Devices, NEW p \in Profiles, SetProfile(d, p) PROVE RowsInv'
  BY <1>6 DEF SetProfile, RowsInv, OriginalStored, JobsHaveRows
<1>7. ASSUME NEW j \in Jobs, TakeJob(j) PROVE RowsInv'
  BY <1>7 DEF TakeJob, RowsInv, OriginalStored, JobsHaveRows, TypeOK
<1>8. ASSUME NEW j \in Jobs, Stalled(j) PROVE RowsInv'
  <2>1. \E s \in {"waiting", "failed"} : queue' = [queue EXCEPT ![j] = s]
    BY <1>8 DEF Stalled
  <2> QED
    BY <1>8, <2>1 DEF Stalled, RowsInv, OriginalStored, JobsHaveRows, TypeOK
<1>9. CASE WorkerCrash
  BY <1>9 DEF WorkerCrash, RowsInv, OriginalStored, JobsHaveRows, TypeOK
<1>10. ASSUME NEW s \in Settings, WorkerStart(s) PROVE RowsInv'
  BY <1>10 DEF WorkerStart, RowsInv, OriginalStored, JobsHaveRows
<1>11. ASSUME NEW j \in Jobs, RunStep(j) PROVE RowsInv'
  BY <1>11, RunStepRows
<1>12. ASSUME NEW j \in Jobs, Throw(j) PROVE RowsInv'
  BY <1>12, Names DEF Throw, InTry, RowsInv, OriginalStored, JobsHaveRows, TypeOK, Stages
<1>13. ASSUME NEW j \in Jobs, ThrowOutside(j) PROVE RowsInv'
  <2>1. pc[j] # "idle" /\ \E s \in {"waiting", "failed"} : queue' = [queue EXCEPT ![j] = s]
    BY <1>13 DEF ThrowOutside, TmpDir, Thrown
  <2> QED
    BY <1>13, <2>1 DEF ThrowOutside, Thrown, RowsInv, OriginalStored, JobsHaveRows, TypeOK
<1>14. CASE UNCHANGED vars
  BY <1>14 DEF vars, RowsInv, OriginalStored, JobsHaveRows
<1> QED
  BY <1>1, <1>2, <1>3, <1>4, <1>5, <1>6, <1>7, <1>8, <1>9, <1>10, <1>11, <1>12, <1>13, <1>14 DEF Next

-------------------------------------------------------------------------------
(* What runs have written stays current.                                   *)

KeepsCurrent ==
  \A a \in Videos :
    /\ \A t \in Profiles : Current(a, t) => Current(a, t)'
    /\ \A t \in Tiers : RowCurrent(a, t) => RowCurrent(a, t)'

\* A step that writes no object and no variant row, under the same worker.
LEMMA SameCurrent ==
  ASSUME bucket' = bucket, variants' = variants, worker' = worker
  PROVE  KeepsCurrent
BY DEF KeepsCurrent, Current, RowCurrent

\* An object written in the settings of the worker leaves every other one as it is.
LEMMA EncodeKeeps ==
  ASSUME TypeOK, NEW j \in Jobs, NEW t \in Profiles, EncodeTier(j, t)
  PROVE  KeepsCurrent /\ Current(target[j], t)'
<1>1. target[j] \in Assets /\ t \in Kinds
  BY Names DEF TypeOK
<1>2. bucket' = [bucket EXCEPT ![target[j]][t] = Encode(worker, t)]
  BY DEF EncodeTier
<1>3. \A b \in Assets, m \in Kinds :
        bucket'[b][m] = IF b = target[j] /\ m = t THEN Encode(worker, t) ELSE bucket[b][m]
  BY <1>1, <1>2 DEF TypeOK
<1>4. variants' = variants /\ worker' = worker /\ target' = target
  BY DEF EncodeTier, rowVars, apiVars
<1>5. \A b \in Assets, m \in Profiles : Current(b, m) => Current(b, m)'
  BY <1>3, <1>4, Names DEF Current
<1> QED
  BY <1>1, <1>3, <1>4, <1>5, Names, PipelineAssumption DEF KeepsCurrent, RowCurrent, Current

\* Thumbnails have a key of their own.
LEMMA ThumbnailKeeps ==
  ASSUME TypeOK, NEW j \in Jobs, MakeThumbnail(j)
  PROVE  KeepsCurrent
<1>1. target[j] \in Assets /\ "thumb" \in Kinds
  BY Names DEF TypeOK
<1>2. bucket' = [bucket EXCEPT ![target[j]]["thumb"] = Source]
  BY DEF MakeThumbnail
<1>3. \A b \in Assets, m \in Kinds :
        bucket'[b][m] = IF b = target[j] /\ m = "thumb" THEN Source ELSE bucket[b][m]
  BY <1>1, <1>2 DEF TypeOK
<1>4. variants' = variants /\ worker' = worker
  BY DEF MakeThumbnail, rowVars
<1>5. \A b \in Assets, m \in Profiles : Current(b, m) => Current(b, m)'
  BY <1>3, <1>4, Names DEF Current
<1> QED
  BY <1>4, <1>5, Names, PipelineAssumption DEF KeepsCurrent, RowCurrent

\* So have originals.
LEMMA UploadKeeps ==
  ASSUME TypeOK, NEW j \in Jobs, NEW a \in Assets, Upload(j, a)
  PROVE  KeepsCurrent
<1>2. bucket' = [bucket EXCEPT ![a]["original"] = Source] /\ "original" \in Kinds
  BY Names DEF Upload
<1>3. \A b \in Assets, m \in Kinds :
        bucket'[b][m] = IF b = a /\ m = "original" THEN Source ELSE bucket[b][m]
  BY <1>2 DEF TypeOK
<1>4. variants' = variants /\ worker' = worker
  BY DEF Upload, rowVars
<1>5. \A b \in Assets, m \in Profiles : Current(b, m) => Current(b, m)'
  BY <1>3, <1>4, Names DEF Current
<1> QED
  BY <1>4, <1>5, Names, PipelineAssumption DEF KeepsCurrent, RowCurrent

\* A row saved is that of the object just encoded.
LEMMA SaveKeeps ==
  ASSUME TypeOK, NEW j \in Jobs, RunCurrent(j), SaveVariant(j)
  PROVE  /\ KeepsCurrent
         /\ target[j] \in Videos => \A t \in Tiers : t = pc[j] => RowCurrent(target[j], t)'
<1>1. target[j] \in Assets /\ pc[j] \in Tiers /\ pc[j] # "idle"
  BY Names DEF TypeOK, SaveVariant, Stages
<1>2. target[j] \in Videos => Current(target[j], pc[j])
  BY <1>1 DEF RunCurrent, VideoRun
<1>3. \A b \in Assets, m \in Tiers :
        variants'[b][m] = IF b = target[j] /\ m = pc[j] THEN Encode(worker, pc[j]) ELSE variants[b][m]
  BY <1>1 DEF SaveVariant, TypeOK
<1>4. bucket' = bucket /\ worker' = worker /\ target' = target
  BY DEF SaveVariant, apiVars
<1>5. \A b \in Assets, m \in Profiles : Current(b, m) => Current(b, m)'
  BY <1>4 DEF Current
<1> QED
  BY <1>1, <1>2, <1>3, <1>4, <1>5, Names, PipelineAssumption DEF KeepsCurrent, RowCurrent

\* Pruning leaves no row of a tier this run has not read.
LEMMA PruneKeeps ==
  ASSUME TypeOK, NEW j \in Jobs, PruneVariants(j)
  PROVE  /\ KeepsCurrent
         /\ \A t \in Tiers : t \notin kept[j] => RowCurrent(target[j], t)'
<1>1. target[j] \in Assets
  BY DEF TypeOK
<1>3. \A b \in Assets, m \in Tiers :
        variants'[b][m] = IF b = target[j] /\ m \notin kept[j] THEN NoContent ELSE variants[b][m]
  BY <1>1 DEF PruneVariants, TypeOK
<1>4. bucket' = bucket /\ worker' = worker /\ target' = target /\ kept' = kept
  BY DEF PruneVariants, apiVars
<1>5. \A b \in Assets, m \in Profiles : Current(b, m) => Current(b, m)'
  BY <1>4 DEF Current
<1> QED
  BY <1>1, <1>3, <1>4, <1>5, Names, PipelineAssumption DEF KeepsCurrent, RowCurrent

-------------------------------------------------------------------------------
(* Runs, stage by stage.                                                   *)

\* A run that does not move stays as it was while what is current stays so.
LEMMA StillCurrent ==
  ASSUME TypeOK, KeepsCurrent, worker' = worker, NEW k \in Jobs, RunCurrent(k),
         pc'[k] = pc[k], todo'[k] = todo[k], kept'[k] = kept[k], target'[k] = target[k]
  PROVE  RunCurrent(k)'
<1>1. target[k] \in Assets /\ (pc[k] \in Tiers => pc[k] \in Profiles) /\ "standard" \in Profiles
  BY Names DEF TypeOK
<1>2. Encoded(k)' = Encoded(k)
  BY DEF Encoded
<1>3. SUFFICES ASSUME pc[k] # "idle", target[k] \in Videos PROVE VideoRun(k)'
  BY DEF RunCurrent
<1>4. VideoRun(k)
  BY <1>3 DEF RunCurrent
<1>5. /\ \A t \in Profiles : Current(target[k], t) => Current(target[k], t)'
      /\ \A t \in Tiers : RowCurrent(target[k], t) => RowCurrent(target[k], t)'
  BY <1>3 DEF KeepsCurrent, Current, RowCurrent
<1>6. RowsCurrent(target[k]) => RowsCurrent(target[k])'
  BY <1>5 DEF RowsCurrent
<1>7. Current(target[k], pc[k]) /\ pc[k] \in Tiers => Current(target[k], pc[k])'
  BY <1>1, <1>5 DEF Current
<1> QED
  BY <1>1, <1>2, <1>4, <1>5, <1>6, <1>7 DEF VideoRun

\* A step of a run leaves what is current current.
LEMMA RunStepKeeps ==
  ASSUME TypeOK, NEW j \in Jobs, RunCurrent(j), RunStep(j)
  PROVE  KeepsCurrent
<1>1. ASSUME NEW t \in Profiles, EncodeTier(j, t) PROVE KeepsCurrent
  BY <1>1, EncodeKeeps
<1>2. CASE SaveVariant(j)
  BY <1>2, SaveKeeps
<1>3. CASE PruneVariants(j)
  BY <1>3, PruneKeeps
<1>4. CASE MakeThumbnail(j)
  BY <1>4, ThumbnailKeeps
<1>5. CASE bucket' = bucket /\ variants' = variants /\ worker' = worker
  BY <1>5, SameCurrent
<1> QED
  BY <1>1, <1>2, <1>3, <1>4, <1>5 DEF RunStep, LookUp, MarkProcessing, MarkRunning, ReadTiers, FinishAsset,
     CloseRecord, Publish, Caught, Rethrow, rowVars

\* What a step of a run leaves alone.
LEMMA RunStepFrame ==
  ASSUME TypeOK, NEW j \in Jobs, RunStep(j)
  PROVE  /\ worker' = worker /\ target' = target /\ pc[j] # "idle"
         /\ \A k \in Jobs : k # j => pc'[k] = pc[k] /\ todo'[k] = todo[k] /\ kept'[k] = kept[k]
<1> USE DEF Goto, Idle, apiVars, runVars
<1>1. worker' = worker /\ target' = target
  BY DEF RunStep, LookUp, MarkProcessing, MarkRunning, ReadTiers, EncodeTier, SaveVariant,
     PruneVariants, MakeThumbnail, FinishAsset, CloseRecord, Publish, Caught, Rethrow
<1>2. pc[j] # "idle"
  BY Names DEF RunStep, LookUp, MarkProcessing, MarkRunning, ReadTiers, EncodeTier, SaveVariant,
     PruneVariants, MakeThumbnail, FinishAsset, CloseRecord, Publish, Caught, Rethrow, Stages
<1>3. \A k \in Jobs : k # j => pc'[k] = pc[k]
  BY DEF RunStep, LookUp, MarkProcessing, MarkRunning, ReadTiers, EncodeTier, SaveVariant,
     PruneVariants, MakeThumbnail, FinishAsset, CloseRecord, Publish, Caught, Rethrow, Thrown, TypeOK
<1>4. \A k \in Jobs : k # j => todo'[k] = todo[k]
  BY DEF RunStep, LookUp, MarkProcessing, MarkRunning, ReadTiers, EncodeTier, SaveVariant,
     PruneVariants, MakeThumbnail, FinishAsset, CloseRecord, Publish, Caught, Rethrow, Thrown, TypeOK
<1>5. \A k \in Jobs : k # j => kept'[k] = kept[k]
  BY DEF RunStep, LookUp, MarkProcessing, MarkRunning, ReadTiers, EncodeTier, SaveVariant,
     PruneVariants, MakeThumbnail, FinishAsset, CloseRecord, Publish, Caught, Rethrow, Thrown, TypeOK
<1> QED
  BY <1>1, <1>2, <1>3, <1>4, <1>5

\* The run that moves is current at its next stage.
LEMMA VideoMoves ==
  ASSUME TypeOK, NEW j \in Jobs, RunCurrent(j), target[j] \in Videos, RunStep(j)
  PROVE  RunCurrent(j)'
<1> USE DEF Goto, Idle
<1>0. /\ worker \in Settings /\ VideoRun(j)
      /\ worker' = worker /\ target' = target /\ target[j] \in Assets
  BY RunStepFrame DEF RunCurrent, TypeOK
<1>k. KeepsCurrent
  BY RunStepKeeps
<1>n. {"look", "mark", "run", "tiers", "close", "publish", "failed", "idle"}
        \cap (Tiers \cup {"encode", "thumb", "finish"}) = {}
  BY Names DEF Stages
<1>q. pc'[j] \in {"look", "mark", "run", "tiers", "close", "publish", "failed", "idle"} => RunCurrent(j)'
  BY <1>0, <1>n DEF RunCurrent, VideoRun
<1>1. CASE LookUp(j)
  BY <1>1, <1>q DEF LookUp, TypeOK
<1>2. CASE MarkProcessing(j)
  BY <1>2, <1>q DEF MarkProcessing, TypeOK
<1>3. CASE MarkRunning(j)
  BY <1>3, <1>q DEF MarkRunning, TypeOK
<1>4. CASE ReadTiers(j)
  <2>1. pc'[j] = "encode" /\ kept'[j] = TiersInUse /\ todo'[j] = TiersInUse /\ "standard" \in TiersInUse
    BY <1>4 DEF ReadTiers, TypeOK, TiersInUse
  <2>2. Encoded(j)' = {}
    BY <2>1 DEF Encoded
  <2> QED
    BY <1>0, <2>1, <2>2, Names DEF RunCurrent, VideoRun, Stages
<1>5. ASSUME NEW t \in Profiles, EncodeTier(j, t) PROVE RunCurrent(j)'
  <2>1. pc[j] = "encode" /\ t \in todo[j] /\ kept' = kept /\ KeepsCurrent /\ Current(target[j], t)'
    BY <1>5, EncodeKeeps DEF EncodeTier
  <2>2. "standard" \in todo[j] => t = "standard"
    BY <1>5 DEF EncodeTier
  <2>3. CASE t = "standard"
    <3>1. pc' = pc /\ todo'[j] = todo[j] \ {"standard"}
      BY <1>5, <2>3 DEF EncodeTier, TypeOK
    <3>2. \A u \in Encoded(j)' \cap Tiers : u \in Encoded(j)
      BY <2>1, <3>1, Names DEF Encoded
    <3> QED
      BY <1>0, <2>1, <2>3, <3>1, <3>2, Names DEF RunCurrent, VideoRun, KeepsCurrent, Stages
  <2>4. CASE t # "standard"
    <3>1. pc'[j] = t /\ todo' = todo /\ t \in Tiers
      BY <1>5, <2>4 DEF EncodeTier, TypeOK, Profiles
    <3>2. \A u \in Encoded(j)' \cap Tiers : u \in Encoded(j)
      BY <2>1, <3>1, Names DEF Encoded, Stages
    <3>3. Current(target[j], "standard") /\ "standard" \in Profiles
      BY <1>0, <2>1, <2>2, <2>4, Names DEF VideoRun
    <3> QED
      BY <1>0, <2>1, <2>2, <2>4, <3>1, <3>2, <3>3, Names DEF RunCurrent, VideoRun, KeepsCurrent, Stages
  <2> QED
    BY <2>3, <2>4
<1>6. CASE SaveVariant(j)
  <2>0. pc[j] \in Tiers /\ pc'[j] = "encode" /\ kept' = kept /\ todo'[j] = todo[j] \ {pc[j]}
    BY <1>6 DEF SaveVariant, TypeOK
  <2>1. \A t \in Tiers : t = pc[j] => RowCurrent(target[j], t)'
    BY <1>6, SaveKeeps
  <2>2. \A u \in Encoded(j)' \cap Tiers : u = pc[j] \/ u \in Encoded(j)
    BY <2>0 DEF Encoded
  <2>3. \A u \in Encoded(j)' \cap Tiers : RowCurrent(target[j], u)'
    BY <1>0, <1>k, <2>0, <2>1, <2>2 DEF VideoRun, KeepsCurrent
  <2>4. Current(target[j], "standard")'
    BY <1>0, <1>k, <2>0, Names DEF VideoRun, KeepsCurrent
  <2> QED
    BY <1>0, <2>0, <2>3, <2>4, Names DEF RunCurrent, VideoRun, Stages
<1>7. CASE PruneVariants(j)
  <2>1. /\ pc[j] = "encode" /\ pc'[j] = "thumb" /\ todo[j] = {}
        /\ \A t \in Tiers : t \notin kept[j] => RowCurrent(target[j], t)'
    BY <1>7, PruneKeeps DEF PruneVariants, TypeOK
  <2>2. \A t \in Tiers : t \in kept[j] => RowCurrent(target[j], t)'
    BY <1>0, <1>k, <2>1, Names DEF VideoRun, KeepsCurrent, Encoded, Stages
  <2>3. Current(target[j], "standard")'
    BY <1>0, <1>k, <2>1, Names DEF VideoRun, KeepsCurrent
  <2>4. RowsCurrent(target[j])'
    BY <1>0, <2>1, <2>2 DEF RowsCurrent
  <2> QED
    BY <1>0, <2>1, <2>3, <2>4, Names DEF RunCurrent, VideoRun, Stages
<1>8. CASE MakeThumbnail(j)
  <2>1. pc[j] = "thumb" /\ pc'[j] = "finish"
    BY <1>8 DEF MakeThumbnail, TypeOK
  <2>2. Current(target[j], "standard")' /\ RowsCurrent(target[j])'
    BY <1>0, <1>k, <2>1, Names DEF VideoRun, KeepsCurrent, RowsCurrent
  <2> QED
    BY <1>0, <2>1, <2>2, Names DEF RunCurrent, VideoRun, Stages
<1>9. CASE FinishAsset(j)
  BY <1>9, <1>q DEF FinishAsset, TypeOK
<1>10. CASE CloseRecord(j)
  BY <1>10, <1>q DEF CloseRecord, TypeOK
<1>11. CASE Publish(j)
  BY <1>11, <1>q DEF Publish, TypeOK
<1>12. CASE Caught(j)
  BY <1>12, <1>q DEF Caught, TypeOK
<1>13. CASE Rethrow(j)
  BY <1>13, <1>q DEF Rethrow, Thrown, TypeOK
<1> QED
  BY <1>1, <1>2, <1>3, <1>4, <1>5, <1>6, <1>7, <1>8, <1>9, <1>10, <1>11, <1>12, <1>13 DEF RunStep

\* Every run is current after a step of one of them.
LEMMA RunStepRuns ==
  ASSUME TypeOK, RunsCurrent, NEW j \in Jobs, RunStep(j)
  PROVE  RunsCurrent'
<1>1. /\ worker' = worker /\ target' = target /\ pc[j] # "idle"
      /\ \A k \in Jobs : k # j => pc'[k] = pc[k] /\ todo'[k] = todo[k] /\ kept'[k] = kept[k]
  BY RunStepFrame
<1>2. RunCurrent(j) /\ worker \in Settings
  BY <1>1 DEF RunsCurrent, RunCurrent
<1>3. KeepsCurrent
  BY <1>2, RunStepKeeps
<1>4. RunCurrent(j)'
  <2>1. CASE target[j] \in Videos
    BY <1>2, <2>1, VideoMoves
  <2>2. CASE target[j] \notin Videos
    BY <1>1, <1>2, <2>2 DEF RunCurrent
  <2> QED
    BY <2>1, <2>2
<1>5. ASSUME NEW k \in Jobs, k # j PROVE RunCurrent(k)'
  BY <1>1, <1>3, <1>5, StillCurrent DEF RunsCurrent
<1> QED
  BY <1>4, <1>5 DEF RunsCurrent

\* A worker that is not up runs nothing.
LEMMA DownIsIdle == ASSUME RunsCurrent, ~WorkerUp PROVE \A j \in Jobs : pc[j] = "idle"
BY Absent DEF RunsCurrent, RunCurrent, WorkerUp

\* And after every other step: a crash ends all runs, a start finds none.
LEMMA RunsStep == TypeOK /\ RowsInv /\ RunsCurrent /\ [Next]_vars => RunsCurrent'
<1> SUFFICES ASSUME TypeOK, RowsInv, RunsCurrent, [Next]_vars PROVE RunsCurrent'
  OBVIOUS
<1> USE DEF Goto, Idle, rowVars, apiVars, queueVars, runVars
<1>0. ASSUME bucket' = bucket, variants' = variants, worker' = worker, target' = target, UNCHANGED runVars
      PROVE  RunsCurrent'
  <2>1. KeepsCurrent
    BY <1>0, SameCurrent
  <2> QED
    BY <1>0, <2>1, StillCurrent DEF RunsCurrent
<1>1. ASSUME NEW j \in Jobs, NEW a \in Assets, Upload(j, a) \/ Reprocess(j, a) PROVE RunsCurrent'
  <2>1. KeepsCurrent /\ worker' = worker /\ UNCHANGED runVars
    BY <1>1, UploadKeeps, SameCurrent DEF Upload, Reprocess
  <2>2. pc[j] = "idle"
    BY <1>1 DEF Upload, Reprocess, RowsInv, JobsHaveRows
  <2>3. \A k \in Jobs : k # j => target'[k] = target[k]
    BY <1>1 DEF Upload, Reprocess, TypeOK
  <2>4. RunCurrent(j)'
    BY <2>1, <2>2 DEF RunCurrent
  <2>5. ASSUME NEW k \in Jobs, k # j PROVE RunCurrent(k)'
    BY <2>1, <2>3, <2>5, StillCurrent DEF RunsCurrent
  <2> QED
    BY <2>4, <2>5 DEF RunsCurrent
<1>2. ASSUME NEW j \in Jobs, RequestStep(j) \/ LoseRequest(j) \/ Stalled(j) PROVE RunsCurrent'
  BY <1>0, <1>2 DEF RequestStep, CreateAsset, MakePending, CreateJob, AddJob, LoseRequest, Stalled
<1>3. ASSUME NEW a \in Assets, Delete(a) PROVE RunsCurrent'
  BY <1>0, <1>3 DEF Delete
<1>4. ASSUME NEW d \in Devices, NEW p \in Profiles, SetProfile(d, p) PROVE RunsCurrent'
  BY <1>0, <1>4 DEF SetProfile
<1>5. ASSUME NEW j \in Jobs, TakeJob(j) PROVE RunsCurrent'
  <2>1. /\ pc'[j] = "look" /\ worker \in Settings /\ worker' = worker /\ target' = target
        /\ KeepsCurrent
        /\ \A k \in Jobs : k # j => pc'[k] = pc[k] /\ todo'[k] = todo[k] /\ kept'[k] = kept[k]
    BY <1>5, SameCurrent DEF TakeJob, TypeOK, WorkerUp
  <2>2. RunCurrent(j)'
    BY <2>1, Names DEF RunCurrent, VideoRun, Stages
  <2>3. ASSUME NEW k \in Jobs, k # j PROVE RunCurrent(k)'
    BY <2>1, <2>3, StillCurrent DEF RunsCurrent
  <2> QED
    BY <2>2, <2>3 DEF RunsCurrent
<1>6. CASE WorkerCrash
  BY <1>6 DEF WorkerCrash, RunsCurrent, RunCurrent
<1>7. ASSUME NEW s \in Settings, WorkerStart(s) PROVE RunsCurrent'
  BY <1>7, DownIsIdle DEF WorkerStart, RunsCurrent, RunCurrent
<1>8. ASSUME NEW j \in Jobs, RunStep(j) PROVE RunsCurrent'
  BY <1>8, RunStepRuns
<1>9. ASSUME NEW j \in Jobs, Throw(j) \/ ThrowOutside(j) PROVE RunsCurrent'
  <2>1. /\ pc[j] # "idle" /\ pc'[j] \in {"caught", "idle"} /\ worker' = worker /\ target' = target
        /\ KeepsCurrent
    BY <1>9, Names, SameCurrent DEF Throw, ThrowOutside, TmpDir, Thrown, InTry, TypeOK, Stages
  <2>2. \A k \in Jobs : k # j => pc'[k] = pc[k] /\ todo'[k] = todo[k] /\ kept'[k] = kept[k]
    BY <1>9 DEF Throw, ThrowOutside, Thrown, TypeOK
  <2>3. RunCurrent(j)'
    BY <2>1, Names DEF RunsCurrent, RunCurrent, VideoRun, Stages
  <2>4. ASSUME NEW k \in Jobs, k # j PROVE RunCurrent(k)'
    BY <2>1, <2>2, <2>4, StillCurrent DEF RunsCurrent
  <2> QED
    BY <2>3, <2>4 DEF RunsCurrent
<1>10. CASE UNCHANGED vars
  BY <1>0, <1>10 DEF vars
<1> QED
  BY <1>1, <1>2, <1>3, <1>4, <1>5, <1>6, <1>7, <1>8, <1>9, <1>10 DEF Next

-------------------------------------------------------------------------------
(* Ready, while a run is on.                                               *)

\* A job whose asset's row, current files and mark stay as they are.
LEMMA StillReady ==
  ASSUME TypeOK, KeepsCurrent, worker' = worker, NEW k \in Jobs, ReadyCurrent(k),
         target'[k] = target[k], Marked(k)' => Marked(k),
         \/ status'[target[k]] # "ready"
         \/ status'[target[k]] = status[target[k]] /\ checksum'[target[k]] = checksum[target[k]]
  PROVE  ReadyCurrent(k)'
<1>1. SUFFICES ASSUME Marked(k), target[k] \in Videos, status'[target[k]] = "ready"
               PROVE  /\ checksum'[target[k]] = Encode(worker, "standard")
                      /\ Current(target[k], "standard")'
                      /\ RowsCurrent(target[k])'
  BY DEF ReadyCurrent
<1>2. /\ checksum[target[k]] = Encode(worker, "standard") /\ checksum'[target[k]] = checksum[target[k]]
      /\ Current(target[k], "standard")
      /\ RowsCurrent(target[k])
  BY <1>1 DEF ReadyCurrent
<1>3. Current(target[k], "standard")'
  BY <1>1, <1>2, Names DEF KeepsCurrent, Current
<1>4. RowsCurrent(target[k])'
  BY <1>1, <1>2 DEF KeepsCurrent, RowsCurrent, RowCurrent, Current
<1> QED
  BY <1>2, <1>3, <1>4

\* Steps that leave the rows' status and checksum, the current files and the marks alone.
LEMMA ReadyKept ==
  ASSUME TypeOK, ReadyIsCurrent, KeepsCurrent, worker' = worker, checksum' = checksum,
         \A a \in Assets : status'[a] = status[a] \/ status'[a] # "ready",
         \A k \in Jobs : (Marked(k)' => Marked(k)) /\ (Marked(k) => target'[k] = target[k])
  PROVE  ReadyIsCurrent'
<1>1. ASSUME NEW k \in Jobs PROVE ReadyCurrent(k)'
  <2>1. CASE target'[k] = target[k]
    BY <2>1, StillReady DEF ReadyIsCurrent, TypeOK
  <2>2. CASE target'[k] # target[k]
    BY <2>2 DEF ReadyCurrent
  <2> QED
    BY <2>1, <2>2
<1> QED
  BY <1>1 DEF ReadyIsCurrent

\* The row that a run of a video completes names the file the run has made.
LEMMA FinishReady ==
  ASSUME TypeOK, ReadyIsCurrent, NEW j \in Jobs, RunCurrent(j), FinishAsset(j)
  PROVE  ReadyIsCurrent'
<1> USE DEF Goto
<1>1. /\ pc[j] = "finish" /\ pc[j] # "idle" /\ target[j] \in Assets /\ target' = target /\ worker' = worker
      /\ bucket' = bucket /\ variants' = variants
  BY DEF FinishAsset, apiVars, TypeOK
<1>2. target[j] \in Videos => /\ checksum'[target[j]] = Encode(worker, "standard")
                               /\ Current(target[j], "standard") /\ RowsCurrent(target[j])
  BY <1>1 DEF FinishAsset, TypeOK, RunCurrent, VideoRun
<1>3. ASSUME NEW k \in Jobs PROVE ReadyCurrent(k)'
  <2>1. CASE target[k] = target[j]
    BY <1>1, <1>2, <2>1 DEF ReadyCurrent, Current, RowsCurrent, RowCurrent
  <2>2. CASE target[k] # target[j]
    <3>1. status'[target[k]] = status[target[k]] /\ checksum'[target[k]] = checksum[target[k]]
      BY <2>2 DEF FinishAsset, TypeOK
    <3>2. pc'[k] = pc[k]
      BY <2>2 DEF FinishAsset, TypeOK
    <3>3. KeepsCurrent
      BY <1>1, SameCurrent
    <3>4. ReadyCurrent(k) /\ target'[k] = target[k] /\ (Marked(k)' => Marked(k))
      BY <1>1, <3>2 DEF ReadyIsCurrent, Marked
    <3> QED
      BY <1>1, <3>1, <3>3, <3>4, StillReady
  <2> QED
    BY <2>1, <2>2
<1> QED
  BY <1>3 DEF ReadyIsCurrent

\* A run that marks its asset takes it out of ready for every job.
LEMMA MarkReady ==
  ASSUME TypeOK, ReadyIsCurrent, NEW j \in Jobs, MarkProcessing(j)
  PROVE  ReadyIsCurrent'
<1> USE DEF Goto
<1>1. /\ target[j] \in Assets /\ target' = target /\ worker' = worker /\ checksum' = checksum
      /\ bucket' = bucket /\ variants' = variants
  BY DEF MarkProcessing, apiVars, TypeOK
<1>2. KeepsCurrent
  BY <1>1, SameCurrent
<1>3. ASSUME NEW k \in Jobs PROVE ReadyCurrent(k)'
  <2>1. CASE target[k] = target[j]
    <3>1. status'[target[k]] = "processing"
      BY <1>1, <2>1 DEF MarkProcessing, TypeOK
    <3> QED
      BY <1>1, <3>1 DEF ReadyCurrent
  <2>2. CASE target[k] # target[j]
    <3>1. status'[target[k]] = status[target[k]] /\ pc'[k] = pc[k]
      BY <2>2 DEF MarkProcessing, TypeOK
    <3>2. Marked(k)' => Marked(k)
      BY <3>1 DEF Marked
    <3> QED
      BY <1>1, <1>2, <3>1, <3>2, StillReady DEF ReadyIsCurrent
  <2> QED
    BY <2>1, <2>2
<1> QED
  BY <1>3 DEF ReadyIsCurrent

\* No other step of a run marks a run or makes an asset ready.
LEMMA OtherReady ==
  ASSUME TypeOK, ReadyIsCurrent, NEW j \in Jobs, RunCurrent(j), RunStep(j),
         ~MarkProcessing(j), ~FinishAsset(j)
  PROVE  ReadyIsCurrent'
<1> USE DEF Goto, Idle, rowVars
<1>1. /\ worker' = worker /\ target' = target /\ pc[j] # "idle" /\ target[j] \in Assets
      /\ \A k \in Jobs : k # j => pc'[k] = pc[k]
  BY RunStepFrame DEF TypeOK
<1>2. KeepsCurrent
  BY RunStepKeeps
<1>3. checksum' = checksum
  BY DEF RunStep, LookUp, MarkProcessing, MarkRunning, ReadTiers, EncodeTier, SaveVariant,
     PruneVariants, MakeThumbnail, FinishAsset, CloseRecord, Publish, Caught, Rethrow
<1>4. \A a \in Assets : status'[a] = status[a] \/ status'[a] # "ready"
  BY <1>1 DEF RunStep, LookUp, MarkProcessing, MarkRunning, ReadTiers, EncodeTier, SaveVariant,
     PruneVariants, MakeThumbnail, FinishAsset, CloseRecord, Publish, Caught, Rethrow, TypeOK
<1>5. Marked(j)' => Marked(j)
  <2>1. CASE pc[j] \in {"run", "tiers", "encode", "thumb", "finish", "close", "caught"} \cup Tiers
    BY <2>1 DEF Marked
  <2>2. CASE pc[j] \in {"look", "publish", "failed"}
    <3>1. pc'[j] \in {"mark", "idle"}
      BY <2>2, Names DEF RunStep, LookUp, MarkProcessing, MarkRunning, ReadTiers, EncodeTier, SaveVariant,
     PruneVariants, MakeThumbnail, FinishAsset, CloseRecord, Publish, Caught, Rethrow, Thrown, TypeOK, Stages
    <3> QED
      BY <3>1, Names DEF Marked, Stages
  <2>3. pc[j] # "mark"
    BY Names DEF RunStep, LookUp, MarkProcessing, MarkRunning, ReadTiers, EncodeTier, SaveVariant,
     PruneVariants, MakeThumbnail, FinishAsset, CloseRecord, Publish, Caught, Rethrow, Stages
  <2> QED
    BY <1>1, <2>1, <2>2, <2>3 DEF TypeOK, Stages
<1>6. \A k \in Jobs : Marked(k)' => Marked(k)
  BY <1>1, <1>5 DEF Marked
<1> QED
  BY <1>1, <1>2, <1>3, <1>4, <1>6, ReadyKept

\* Every step of the pipeline.
LEMMA ReadyStep ==
  TypeOK /\ RowsInv /\ RunsCurrent /\ ReadyIsCurrent /\ [Next]_vars => ReadyIsCurrent'
<1> SUFFICES ASSUME TypeOK, RowsInv, RunsCurrent, ReadyIsCurrent, [Next]_vars PROVE ReadyIsCurrent'
  OBVIOUS
<1> USE DEF Goto, Idle, rowVars, apiVars, queueVars, runVars
<1>a. \A k \in Jobs : Marked(k) => pc[k] # "idle"
  BY Names DEF Marked, Stages
<1>0. ASSUME UNCHANGED <<bucket, variants, worker, checksum, target, pc>>,
             \A a \in Assets : status'[a] = status[a] \/ status'[a] # "ready"
      PROVE  ReadyIsCurrent'
  <2>1. KeepsCurrent /\ \A k \in Jobs : Marked(k)' => Marked(k)
    BY <1>0, SameCurrent DEF Marked
  <2> QED
    BY <1>0, <2>1, ReadyKept
<1>1. ASSUME NEW j \in Jobs, NEW a \in Assets, Upload(j, a) \/ Reprocess(j, a) PROVE ReadyIsCurrent'
  <2>1. KeepsCurrent /\ worker' = worker /\ pc' = pc /\ status' = status /\ checksum' = checksum
    BY <1>1, UploadKeeps, SameCurrent DEF Upload, Reprocess
  <2>2. pc[j] = "idle"
    BY <1>1 DEF Upload, Reprocess, RowsInv, JobsHaveRows
  <2>3. \A k \in Jobs : Marked(k) => target'[k] = target[k]
    BY <1>a, <1>1, <2>2 DEF Upload, Reprocess, TypeOK
  <2>4. \A k \in Jobs : Marked(k)' => Marked(k)
    BY <2>1 DEF Marked
  <2> QED
    BY <2>1, <2>3, <2>4, ReadyKept
<1>2. ASSUME NEW j \in Jobs, RequestStep(j) \/ LoseRequest(j) \/ Stalled(j) PROVE ReadyIsCurrent'
  <2>1. UNCHANGED <<bucket, variants, worker, checksum, target, pc>>
    BY <1>2 DEF RequestStep, CreateAsset, MakePending, CreateJob, AddJob, LoseRequest, Stalled
  <2>2. \A a \in Assets : status'[a] = status[a] \/ status'[a] # "ready"
    BY <1>2 DEF RequestStep, CreateAsset, MakePending, CreateJob, AddJob, LoseRequest, Stalled, TypeOK
  <2> QED
    BY <1>0, <2>1, <2>2
<1>3. ASSUME NEW a \in Assets, Delete(a) PROVE ReadyIsCurrent'
  BY <1>0, <1>3 DEF Delete
<1>4. ASSUME NEW d \in Devices, NEW p \in Profiles, SetProfile(d, p) PROVE ReadyIsCurrent'
  BY <1>0, <1>4 DEF SetProfile
<1>5. ASSUME NEW j \in Jobs, TakeJob(j) PROVE ReadyIsCurrent'
  <2>1. /\ worker' = worker /\ target' = target /\ status' = status /\ checksum' = checksum
        /\ KeepsCurrent
    BY <1>5, SameCurrent DEF TakeJob
  <2>2. pc'[j] = "look" /\ \A k \in Jobs : k # j => pc'[k] = pc[k]
    BY <1>5 DEF TakeJob, TypeOK
  <2>3. \A k \in Jobs : Marked(k)' => Marked(k)
    BY <2>2, Names DEF Marked, Stages
  <2> QED
    BY <2>1, <2>3, ReadyKept
<1>6. CASE WorkerCrash
  <2>1. \A k \in Jobs : pc'[k] = "idle"
    BY <1>6 DEF WorkerCrash
  <2> QED
    BY <2>1, Names DEF ReadyIsCurrent, ReadyCurrent, Marked, Stages
<1>7. ASSUME NEW s \in Settings, WorkerStart(s) PROVE ReadyIsCurrent'
  <2>1. \A k \in Jobs : pc'[k] = "idle"
    BY <1>7, DownIsIdle DEF WorkerStart
  <2> QED
    BY <2>1, Names DEF ReadyIsCurrent, ReadyCurrent, Marked, Stages
<1>8. ASSUME NEW j \in Jobs, RunStep(j) PROVE ReadyIsCurrent'
  <2>1. RunCurrent(j)
    BY DEF RunsCurrent
  <2> QED
    BY <1>8, <2>1, FinishReady, MarkReady, OtherReady
<1>9. ASSUME NEW j \in Jobs, Throw(j) \/ ThrowOutside(j) PROVE ReadyIsCurrent'
  <2>1. /\ worker' = worker /\ target' = target /\ status' = status /\ checksum' = checksum
        /\ KeepsCurrent
    BY <1>9, SameCurrent DEF Throw, ThrowOutside, Thrown
  <2>2. \A k \in Jobs : k # j => pc'[k] = pc[k]
    BY <1>9 DEF Throw, ThrowOutside, Thrown, TypeOK
  <2>3. Marked(j)' => Marked(j)
    BY <1>9, Names DEF Throw, ThrowOutside, Thrown, InTry, Marked, TypeOK, Stages
  <2>4. \A k \in Jobs : Marked(k)' => Marked(k)
    BY <2>2, <2>3 DEF Marked
  <2> QED
    BY <2>1, <2>4, ReadyKept
<1>10. CASE UNCHANGED vars
  BY <1>0, <1>10 DEF vars
<1> QED
  BY <1>1, <1>2, <1>3, <1>4, <1>5, <1>6, <1>7, <1>8, <1>9, <1>10 DEF Next

-------------------------------------------------------------------------------
(* What a manifest offers.                                                 *)

Matches(a) ==
  \A p \in Profiles :
    IsPlayable(a) => LET offer == SelectVariant(a, p) IN bucket[a][offer.kind] = offer.sum

\* An asset whose row and objects a step leaves alone is offered as before.
LEMMA StillMatches ==
  ASSUME NEW a \in Assets, Matches(a), checksum'[a] = checksum[a], variants'[a] = variants[a],
         IsPlayable(a)' => IsPlayable(a), \A m \in Profiles \cup {"original"} : bucket'[a][m] = bucket[a][m]
  PROVE  Matches(a)'
<1>1. SUFFICES ASSUME NEW p \in Profiles, IsPlayable(a)'
               PROVE  LET offer == SelectVariant(a, p) IN bucket'[a][offer.kind] = offer.sum
  BY DEF Matches, SelectVariant
<1>2. SelectVariant(a, p).kind \in Profiles \cup {"original"}
  BY Names DEF SelectVariant
<1> QED
  BY <1>1, <1>2 DEF Matches

\* While a run of a video is on, what is ready is current, and what is current matches.
LEMMA ReadyMatches ==
  ASSUME NEW j \in Jobs, target'[j] \in Videos, Marked(j)', ReadyCurrent(j)', target'[j] = target[j]
  PROVE  Matches(target[j])'
<1>1. SUFFICES ASSUME NEW p \in Profiles, IsPlayable(target[j])'
               PROVE  LET offer == SelectVariant(target[j], p)' IN bucket'[target[j]][offer.kind] = offer.sum
  BY DEF Matches, SelectVariant, IsPlayable
<1>2. /\ checksum'[target[j]] = Encode(worker', "standard")
      /\ bucket'[target[j]]["standard"] = Encode(worker', "standard")
      /\ \A t \in Tiers : \/ variants'[target[j]][t] = NoContent
                         \/ variants'[target[j]][t] = bucket'[target[j]][t]
  BY <1>1 DEF ReadyCurrent, IsPlayable, RowsCurrent, RowCurrent, Current
<1> QED
  BY <1>2 DEF SelectVariant

\* An image is offered its original, which no step of a run touches.
LEMMA ImageMatches ==
  ASSUME TypeOK, RowsInv, NEW j \in Jobs, RunStep(j), target[j] \notin Videos, Matches(target[j])
  PROVE  Matches(target[j])'
<1> USE DEF Goto, Idle, rowVars
<1>1. /\ pc[j] # "idle" /\ target[j] \in Assets /\ target' = target
      /\ bucket[target[j]]["original"] = Source
  BY RunStepFrame, Running
<1>2. bucket'[target[j]]["original"] = Source
  <2>1. ASSUME NEW t \in Profiles, EncodeTier(j, t) PROVE bucket'[target[j]]["original"] = Source
    BY <1>1, <2>1, Names DEF EncodeTier, TypeOK
  <2>2. CASE MakeThumbnail(j)
    BY <1>1, <2>2, Names DEF MakeThumbnail, TypeOK
  <2>3. CASE bucket' = bucket
    BY <1>1, <2>3
  <2> QED
    BY <2>1, <2>2, <2>3 DEF RunStep, LookUp, MarkProcessing, MarkRunning, ReadTiers, SaveVariant,
       PruneVariants, FinishAsset, CloseRecord, Publish, Caught, Rethrow
<1>3. CASE FinishAsset(j)
  <2>1. checksum'[target[j]] = Source
    BY <1>1, <1>3 DEF FinishAsset, TypeOK
  <2> QED
    BY <1>1, <1>2, <2>1 DEF Matches, SelectVariant, IsPlayable
<1>4. CASE ~FinishAsset(j)
  <2>1. checksum' = checksum /\ processed' = processed /\ deleted' = deleted
    BY <1>4 DEF RunStep, LookUp, MarkProcessing, MarkRunning, ReadTiers, EncodeTier, SaveVariant,
     PruneVariants, MakeThumbnail, FinishAsset, CloseRecord, Publish, Caught, Rethrow
  <2>2. status'[target[j]] = "ready" => status[target[j]] = "ready"
    BY <1>1, <1>4 DEF RunStep, LookUp, MarkProcessing, MarkRunning, ReadTiers, EncodeTier, SaveVariant,
     PruneVariants, MakeThumbnail, FinishAsset, CloseRecord, Publish, Caught, Rethrow, TypeOK
  <2>3. IsPlayable(target[j])' => checksum[target[j]] = Source
    <3>1. IsPlayable(target[j])' => IsPlayable(target[j])
      BY <1>1, <2>1, <2>2 DEF IsPlayable
    <3>2. IsPlayable(target[j]) => checksum[target[j]] = Source
      BY <1>1, Names DEF Matches, SelectVariant
    <3> QED
      BY <3>1, <3>2
  <2> QED
    BY <1>1, <1>2, <2>1, <2>3 DEF Matches, SelectVariant
<1> QED
  BY <1>3, <1>4

\* A step of a run touches the row and the objects of its own asset only.
LEMMA OthersMatch ==
  ASSUME TypeOK, NEW j \in Jobs, RunStep(j), NEW a \in Assets, a # target[j], Matches(a)
  PROVE  Matches(a)'
<1> USE DEF Goto, Idle, rowVars
<1>1. target[j] \in Assets
  BY DEF TypeOK
<1>2. checksum'[a] = checksum[a]
  BY <1>1 DEF RunStep, LookUp, MarkProcessing, MarkRunning, ReadTiers, EncodeTier, SaveVariant,
     PruneVariants, MakeThumbnail, FinishAsset, CloseRecord, Publish, Caught, Rethrow, TypeOK
<1>3. variants'[a] = variants[a]
  BY <1>1 DEF RunStep, LookUp, MarkProcessing, MarkRunning, ReadTiers, EncodeTier, SaveVariant,
     PruneVariants, MakeThumbnail, FinishAsset, CloseRecord, Publish, Caught, Rethrow, TypeOK
<1>4. bucket'[a] = bucket[a]
  BY <1>1 DEF RunStep, LookUp, MarkProcessing, MarkRunning, ReadTiers, EncodeTier, SaveVariant,
     PruneVariants, MakeThumbnail, FinishAsset, CloseRecord, Publish, Caught, Rethrow, TypeOK
<1>5. status'[a] = status[a] /\ deleted' = deleted /\ (a \in processed' => a \in processed)
  BY <1>1 DEF RunStep, LookUp, MarkProcessing, MarkRunning, ReadTiers, EncodeTier, SaveVariant,
     PruneVariants, MakeThumbnail, FinishAsset, CloseRecord, Publish, Caught, Rethrow, TypeOK
<1> QED
  BY <1>2, <1>3, <1>4, <1>5, StillMatches DEF IsPlayable

\* The asset of a run that is not marked after its step, or a row that is not ready.
LEMMA QuietMatches ==
  ASSUME TypeOK, NEW j \in Jobs, RunStep(j), ~Marked(j)', Matches(target[j])
  PROVE  Matches(target[j])'
<1> USE DEF Goto, Idle, rowVars
<1>1. target[j] \in Assets /\ target' = target
  BY RunStepFrame DEF TypeOK
<1>2. LookUp(j) \/ CloseRecord(j) \/ Publish(j) \/ Caught(j) \/ Rethrow(j)
  <2>1. ASSUME NEW t \in Profiles, EncodeTier(j, t) PROVE Marked(j)'
    <3>1. pc'[j] \in Tiers \cup {"encode"}
      BY <2>1 DEF EncodeTier, TypeOK, Profiles
    <3> QED
      BY <3>1 DEF Marked
  <2>2. CASE MarkProcessing(j) \/ MarkRunning(j) \/ ReadTiers(j) \/ SaveVariant(j) \/ PruneVariants(j)
    BY <2>2 DEF MarkProcessing, MarkRunning, ReadTiers, SaveVariant, PruneVariants, Marked, TypeOK
  <2>3. CASE MakeThumbnail(j) \/ FinishAsset(j)
    BY <2>3 DEF MakeThumbnail, FinishAsset, Marked, TypeOK
  <2> QED
    BY <2>1, <2>2, <2>3 DEF RunStep
<1>3. UNCHANGED <<checksum, variants, bucket, deleted, processed>>
  BY <1>2 DEF LookUp, CloseRecord, Publish, Caught, Rethrow
<1>4. status'[target[j]] = "ready" => status[target[j]] = "ready"
  BY <1>1, <1>2 DEF LookUp, CloseRecord, Publish, Caught, Rethrow, TypeOK
<1>5. IsPlayable(target[j])' => IsPlayable(target[j])
  BY <1>1, <1>3, <1>4 DEF IsPlayable
<1> DEFINE a == target[j]
<1>6. a \in Assets /\ Matches(a) /\ checksum'[a] = checksum[a] /\ variants'[a] = variants[a]
  BY <1>1, <1>3
<1> QED
  BY <1>1, <1>3, <1>5, <1>6 DEF Matches, SelectVariant, IsPlayable

\* A step of a run keeps every offer right.
LEMMA RunStepOffers ==
  ASSUME TypeOK, RowsInv, ReadyIsCurrent', OfferMatchesObject, NEW j \in Jobs, RunStep(j)
  PROVE  OfferMatchesObject'
<1>1. target[j] \in Assets /\ target' = target
  BY RunStepFrame DEF TypeOK
<1>2. \A a \in Assets : Matches(a)
  BY DEF OfferMatchesObject, Matches
<1>3. ASSUME NEW a \in Assets PROVE Matches(a)'
  <2>1. CASE a # target[j]
    BY <1>2, <2>1, OthersMatch
  <2>2. CASE a = target[j]
    <3>1. Matches(target[j])'
      BY <1>1, <1>2, ImageMatches, QuietMatches, ReadyMatches DEF ReadyIsCurrent
    <3> QED
      BY <1>1, <2>2, <3>1 DEF Matches
  <2> QED
    BY <2>1, <2>2
<1> QED
  BY <1>3 DEF OfferMatchesObject, Matches

\* So does every other step.
LEMMA OfferStep ==
  TypeOK /\ RowsInv /\ ReadyIsCurrent' /\ OfferMatchesObject /\ [Next]_vars => OfferMatchesObject'
<1> SUFFICES ASSUME TypeOK, RowsInv, ReadyIsCurrent', OfferMatchesObject, [Next]_vars
             PROVE  OfferMatchesObject'
  OBVIOUS
<1> USE DEF rowVars, apiVars, queueVars, runVars
<1>a. \A a \in Assets : Matches(a)
  BY DEF OfferMatchesObject, Matches
<1>0. ASSUME UNCHANGED <<checksum, variants, processed>>, deleted \subseteq deleted',
             \A a \in Assets : status'[a] = "ready" => status[a] = "ready",
             \A a \in Assets : status'[a] = "ready" =>
               \A m \in Profiles \cup {"original"} : bucket'[a][m] = bucket[a][m]
      PROVE  OfferMatchesObject'
  <2>1. ASSUME NEW a \in Assets PROVE Matches(a)'
    <3>1. CASE IsPlayable(a)'
      BY <1>a, <1>0, <3>1, StillMatches DEF IsPlayable
    <3>2. CASE ~IsPlayable(a)'
      BY <3>2 DEF Matches, IsPlayable
    <3> QED
      BY <3>1, <3>2
  <2> QED
    BY <2>1 DEF OfferMatchesObject, Matches
<1>1. ASSUME NEW j \in Jobs, NEW a \in Assets, Upload(j, a) PROVE OfferMatchesObject'
  <2>1. UNCHANGED <<checksum, variants, processed, deleted, status>> /\ status[a] = "none"
    BY <1>1 DEF Upload
  <2>2. \A b \in Assets : b # a => bucket'[b] = bucket[b]
    BY <1>1 DEF Upload, TypeOK
  <2> QED
    BY <1>0, <2>1, <2>2
<1>2. ASSUME NEW j \in Jobs, NEW a \in Assets, Reprocess(j, a) PROVE OfferMatchesObject'
  BY <1>0, <1>2 DEF Reprocess
<1>3. ASSUME NEW j \in Jobs, RequestStep(j) PROVE OfferMatchesObject'
  <2>1. UNCHANGED <<checksum, variants, processed, deleted, bucket>>
    BY <1>3 DEF RequestStep, CreateAsset, MakePending, CreateJob, AddJob
  <2>2. \A a \in Assets : status'[a] = "ready" => status[a] = "ready"
    BY <1>3 DEF RequestStep, CreateAsset, MakePending, CreateJob, AddJob, TypeOK
  <2> QED
    BY <1>0, <2>1, <2>2
<1>4. ASSUME NEW j \in Jobs, LoseRequest(j) \/ TakeJob(j) \/ Stalled(j) \/ Throw(j) \/ ThrowOutside(j)
      PROVE  OfferMatchesObject'
  BY <1>0, <1>4 DEF LoseRequest, TakeJob, Stalled, Throw, ThrowOutside
<1>5. ASSUME NEW a \in Assets, Delete(a) PROVE OfferMatchesObject'
  BY <1>0, <1>5 DEF Delete
<1>6. ASSUME NEW d \in Devices, NEW p \in Profiles, SetProfile(d, p) PROVE OfferMatchesObject'
  BY <1>0, <1>6 DEF SetProfile
<1>7. CASE WorkerCrash \/ \E s \in Settings : WorkerStart(s)
  BY <1>0, <1>7 DEF WorkerCrash, WorkerStart
<1>8. ASSUME NEW j \in Jobs, RunStep(j) PROVE OfferMatchesObject'
  BY <1>8, RunStepOffers
<1>9. CASE UNCHANGED vars
  BY <1>0, <1>9 DEF vars
<1> QED
  BY <1>1, <1>2, <1>3, <1>4, <1>5, <1>6, <1>7, <1>8, <1>9 DEF Next

-------------------------------------------------------------------------------
(* The theorems.                                                           *)

\* The rows, objects, jobs and runs of the pipeline (processor.ts, media.ts) are
\* well typed; a job has its asset's row and a row its original; and what a run
\* has written is current, stage by stage, whatever other runs do.
THEOREM PipelineInvariant == Spec => []PipelineInv
<1>1. Init => PipelineInv
  <2>1. ASSUME Init PROVE PipelineInv
    <3>1. TypeOK
      BY <2>1, TypeInit
    <3>2. JobsHaveRows /\ OriginalStored
      BY <2>1 DEF Init, JobsHaveRows, OriginalStored
    <3>3. RunsCurrent /\ ReadyIsCurrent /\ OfferMatchesObject
      BY <2>1 DEF Init, RunsCurrent, RunCurrent, ReadyIsCurrent, ReadyCurrent, OfferMatchesObject, IsPlayable
    <3> QED
      BY <3>1, <3>2, <3>3 DEF PipelineInv
  <2> QED
    BY <2>1
<1>2. PipelineInv /\ [Next]_vars => PipelineInv'
  BY TypeStep, RowsStep, RunsStep, ReadyStep, OfferStep DEF PipelineInv, RowsInv
<1> QED
  BY <1>1, <1>2, PTL DEF Spec

\* Whatever runs of an asset overlap, fail, crash or start over in new settings
\* (processMediaAsset): a playable asset is served the object whose checksum its
\* manifest advertises (selectVideoVariant).
THEOREM OffersMatch == Spec => []OfferMatchesObject
<1>1. PipelineInv => OfferMatchesObject
  BY DEF PipelineInv
<1> QED
  BY <1>1, PipelineInvariant, PTL

===============================================================================
