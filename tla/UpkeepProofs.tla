----------------------------- MODULE UpkeepProofs -----------------------------
(***************************************************************************)
(* Proofs about Upkeep for any settings, runners, days and events.         *)
(*                                                                         *)
(* PolicyInv is inductive: pruning deletes nothing the retention policy    *)
(* keeps, although it works from a listing read earlier.  With it, and     *)
(* when fewer uploads fail than there are daily slots, PromiseInv is: the  *)
(* marker means a complete bundle, and what retention deletes is in one.   *)
(***************************************************************************)
EXTENDS Upkeep, FiniteSetTheorems, TLAPS

-------------------------------------------------------------------------------
(* Counting bundles.                                                       *)

\* The counts are numbers, and grow with the set.
LEMMA NewerGrows ==
  ASSUME NEW T, IsFiniteSet(T), NEW S \in SUBSET T, NEW b
  PROVE  Newer(b, S) \in Nat /\ Newer(b, T) \in Nat /\ Newer(b, S) <= Newer(b, T)
<1> DEFINE N(U) == {c \in U : c.tag = "none" /\ c.no > b.no}
<1>1. IsFiniteSet(N(T)) /\ N(S) \subseteq N(T)
  BY FS_Subset
<1>2. IsFiniteSet(N(S)) /\ Cardinality(N(S)) <= Cardinality(N(T))
  BY <1>1, FS_Subset
<1>3. Cardinality(N(S)) \in Nat /\ Cardinality(N(T)) \in Nat
  BY <1>1, <1>2, FS_CardinalityType
<1> QED
  BY <1>2, <1>3 DEF Newer

\* A bundle with n newer ones still has n when one that has n newer ones itself goes.
LEMMA StaysBehind ==
  ASSUME NEW S, IsFiniteSet(S), S \subseteq Bundle, NEW b \in Bundle, NEW c \in Bundle, NEW n \in Nat,
         Newer(b, S) >= n, c \in S /\ c.tag = "none" => Newer(c, S) >= n
  PROVE  Newer(b, S \ {c}) >= n
<1> DEFINE N(d, U) == {x \in U : x.tag = "none" /\ x.no > d.no}
<1>1. CASE c \in N(b, S)
  <2>1. N(c, S) \subseteq N(b, S \ {c})
    BY <1>1 DEF Bundle
  <2>2. IsFiniteSet(N(b, S \ {c}))
    BY FS_Subset
  <2>3. Cardinality(N(c, S)) <= Cardinality(N(b, S \ {c}))
    BY <2>1, <2>2, FS_Subset
  <2>4. Cardinality(N(c, S)) \in Nat /\ Cardinality(N(b, S \ {c})) \in Nat
    BY <2>1, <2>2, FS_Subset, FS_CardinalityType
  <2>5. Cardinality(N(c, S)) >= n
    BY <1>1 DEF Newer
  <2> QED
    BY <2>3, <2>4, <2>5 DEF Newer
<1>2. CASE c \notin N(b, S)
  <2>1. N(b, S \ {c}) = N(b, S)
    BY <1>2
  <2> QED
    BY <2>1 DEF Newer
<1> QED
  BY <1>1, <1>2

\* Settings are numbers.
LEMMA SettingsAreNumbers ==
  /\ MaxDay \in Nat /\ Window \in Nat /\ FreshDays \in Nat
  /\ KeepDaily \in Nat /\ KeepWeekly \in Nat /\ KeepMonthly \in Nat /\ KeepTaggedDays \in Nat
BY SettingsAssumption

\* Parts of the bucket are finite.
LEMMA BucketParts ==
  ASSUME TypeOK
  PROVE  /\ IsFiniteSet(bucket) /\ IsFiniteSet(SundayBundles) /\ IsFiniteSet(MonthlyBundles)
         /\ IsFiniteSet(Broken)
         /\ SundayBundles \subseteq bucket /\ MonthlyBundles \subseteq bucket /\ Broken \subseteq bucket
<1>1. /\ SundayBundles \subseteq bucket /\ MonthlyBundles \subseteq bucket /\ Broken \subseteq bucket
      /\ IsFiniteSet(bucket)
  BY DEF TypeOK, SundayBundles, MonthlyBundles, Broken
<1> QED
  BY <1>1, FS_Subset

\* A bundle that is not promised stays so as days pass and bundles are added.
LEMMA NotPromisedLater ==
  ASSUME TypeOK, TypeOK', NEW b \in Bundle, ~Promised(b), bucket \subseteq bucket', now <= now'
  PROVE  ~Promised(b)'
<1> DEFINE sundays == {c \in bucket' : c.day \in Sundays}
           monthly == {c \in bucket' : c.day \in FirstsOfMonth}
<1>1. /\ IsFiniteSet(bucket') /\ sundays \subseteq bucket' /\ monthly \subseteq bucket'
      /\ SundayBundles \subseteq sundays /\ MonthlyBundles \subseteq monthly
      /\ SundayBundles' = sundays /\ MonthlyBundles' = monthly
  BY DEF TypeOK, SundayBundles, MonthlyBundles
<1>2. IsFiniteSet(sundays) /\ IsFiniteSet(monthly)
  BY <1>1, FS_Subset
<1> HIDE DEF sundays, monthly
<1>4. /\ Newer(b, bucket) \in Nat /\ Newer(b, SundayBundles) \in Nat /\ Newer(b, MonthlyBundles) \in Nat
      /\ Newer(b, bucket') \in Nat /\ Newer(b, sundays) \in Nat /\ Newer(b, monthly) \in Nat
      /\ Newer(b, bucket) <= Newer(b, bucket')
      /\ Newer(b, SundayBundles) <= Newer(b, sundays)
      /\ Newer(b, MonthlyBundles) <= Newer(b, monthly)
  BY <1>1, <1>2, NewerGrows
<1>3. now \in Int /\ now' \in Int /\ b.day \in Int
  BY SettingsAreNumbers DEF TypeOK, Days, Bundle
<1> QED
  BY <1>1, <1>3, <1>4, SettingsAreNumbers DEF Promised

\* It stays so when another one that is not promised is deleted.
LEMMA NotPromisedBeside ==
  ASSUME TypeOK, NEW b \in Bundle, ~Promised(b), NEW c \in bucket, ~Promised(c),
         bucket' = bucket \ {c}, now' = now
  PROVE  ~Promised(b)'
<1>1. c \in Bundle /\ bucket \subseteq Bundle
  BY DEF TypeOK
<1>2. SundayBundles' = SundayBundles \ {c} /\ MonthlyBundles' = MonthlyBundles \ {c}
  BY DEF SundayBundles, MonthlyBundles
<1>3. /\ Newer(b, bucket) \in Nat /\ Newer(b, SundayBundles) \in Nat /\ Newer(b, MonthlyBundles) \in Nat
      /\ Newer(c, bucket) \in Nat /\ Newer(c, SundayBundles) \in Nat /\ Newer(c, MonthlyBundles) \in Nat
      /\ Newer(b, bucket') \in Nat /\ Newer(b, SundayBundles') \in Nat
      /\ Newer(b, MonthlyBundles') \in Nat
  BY <1>2, BucketParts, NewerGrows
<1>4. b.tag = "none" => Newer(b, bucket') >= KeepDaily
  <2> SUFFICES ASSUME b.tag = "none" PROVE Newer(b, bucket \ {c}) >= KeepDaily
    OBVIOUS
  <2>1. Newer(b, bucket) >= KeepDaily /\ (c.tag = "none" => Newer(c, bucket) >= KeepDaily)
    BY <1>3, SettingsAreNumbers DEF Promised
  <2> QED
    BY <1>1, <2>1, BucketParts, StaysBehind, SettingsAreNumbers
<1>5. b.tag = "none" /\ b.day \in Sundays => Newer(b, SundayBundles') >= KeepWeekly
  <2> SUFFICES ASSUME b.tag = "none", b.day \in Sundays
               PROVE  Newer(b, SundayBundles \ {c}) >= KeepWeekly
    BY <1>2
  <2>1. /\ Newer(b, SundayBundles) >= KeepWeekly
        /\ c \in SundayBundles /\ c.tag = "none" => Newer(c, SundayBundles) >= KeepWeekly
    BY <1>3, SettingsAreNumbers DEF Promised, SundayBundles
  <2>2. SundayBundles \subseteq Bundle
    BY <1>1, BucketParts
  <2> QED
    BY <1>1, <2>1, <2>2, BucketParts, StaysBehind, SettingsAreNumbers
<1>6. b.tag = "none" /\ b.day \in FirstsOfMonth => Newer(b, MonthlyBundles') >= KeepMonthly
  <2> SUFFICES ASSUME b.tag = "none", b.day \in FirstsOfMonth
               PROVE  Newer(b, MonthlyBundles \ {c}) >= KeepMonthly
    BY <1>2
  <2>1. /\ Newer(b, MonthlyBundles) >= KeepMonthly
        /\ c \in MonthlyBundles /\ c.tag = "none" => Newer(c, MonthlyBundles) >= KeepMonthly
    BY <1>3, SettingsAreNumbers DEF Promised, MonthlyBundles
  <2>2. MonthlyBundles \subseteq Bundle
    BY <1>1, BucketParts
  <2> QED
    BY <1>1, <2>1, <2>2, BucketParts, StaysBehind, SettingsAreNumbers
<1> QED
  BY <1>3, <1>4, <1>5, <1>6, SettingsAreNumbers DEF Promised

\* What classify_retention does not keep is not promised.
LEMMA NotKept ==
  ASSUME TypeOK, NEW b \in bucket \ Kept(bucket)
  PROVE  ~Promised(b)
<1> DEFINE plain == {x \in bucket : x.tag = "none"}
<1>1. b \in bucket /\ b.tag # "other" /\ ~(b.tag = "pre-upgrade" /\ now - b.day <= KeepTaggedDays)
  BY DEF Kept
<1>2. b.tag = "none" => ~(Newer(b, bucket) < KeepDaily)
  <2>1. {c \in plain : c.no > b.no} = {c \in bucket : c.tag = "none" /\ c.no > b.no}
    OBVIOUS
  <2>2. b \notin Newest(KeepDaily, plain)
    BY DEF Kept
  <2> QED
    BY <1>1, <2>1, <2>2 DEF Newest, Newer
<1>3. b.tag = "none" /\ b.day \in Sundays => ~(Newer(b, SundayBundles) < KeepWeekly)
  <2>1. {c \in {x \in plain : x.day \in Sundays} : c.no > b.no}
          = {c \in SundayBundles : c.tag = "none" /\ c.no > b.no}
    BY DEF SundayBundles
  <2>2. b \notin Newest(KeepWeekly, {x \in plain : x.day \in Sundays})
    BY DEF Kept
  <2> QED
    BY <1>1, <2>1, <2>2 DEF Newest, Newer
<1>4. b.tag = "none" /\ b.day \in FirstsOfMonth => ~(Newer(b, MonthlyBundles) < KeepMonthly)
  <2>1. {c \in {x \in plain : x.day \in FirstsOfMonth} : c.no > b.no}
          = {c \in MonthlyBundles : c.tag = "none" /\ c.no > b.no}
    BY DEF MonthlyBundles
  <2>2. b \notin Newest(KeepMonthly, {x \in plain : x.day \in FirstsOfMonth})
    BY DEF Kept
  <2> QED
    BY <1>1, <2>1, <2>2 DEF Newest, Newer
<1> QED
  BY <1>1, <1>2, <1>3, <1>4 DEF Promised

-------------------------------------------------------------------------------
(* Types.                                                                  *)

\* A run is idle or a record of a run.
LEMMA RunShape ==
  ASSUME TypeOK, NEW r \in Runners
  PROVE  /\ AtStage(r, "idle") <=> runs[r] = Idle
         /\ ~AtStage(r, "idle") => runs[r] \in Run
BY DEF TypeOK, AtStage, Idle, Run

\* Time is a number of days.
LEMMA TimeIsNat ==
  ASSUME TypeOK
  PROVE  /\ now \in Nat /\ now >= 1 /\ now <= MaxDay /\ marker \in Nat /\ marker <= now
         /\ made \in Nat /\ Days \subseteq Nat /\ DOMAIN runs = Runners
BY SettingsAreNumbers DEF TypeOK, Days

LEMMA SpendType ==
  ASSUME TypeOK, NEW e \in Events, Spend(e)
  PROVE  left' \in [Events -> Nat] /\ left[e] \in Nat /\ left'[e] = left[e] - 1
BY DEF TypeOK, Spend

\* The database and what surrounds it.
LEMMA DatabaseTypes ==
  ASSUME TypeOK
  PROVE  /\ \A s \in Days : RowArrives(s) => TypeOK'
         /\ Migrate => TypeOK'
         /\ \A host \in BOOLEAN : LoseDatabase(host) => TypeOK'
         /\ StopOrStart => TypeOK'
         /\ BacklogTurns => TypeOK'
<1>1. ASSUME NEW s \in Days, RowArrives(s) PROVE TypeOK'
  <2>1. left' \in [Events -> Nat]
    BY <1>1, SpendType DEF RowArrives, Events
  <2>2. db' \in [came : [Days -> Nat], schema : Nat, data : BOOLEAN, sound : BOOLEAN]
    BY <1>1, TimeIsNat DEF RowArrives, TypeOK
  <2> QED
    BY <1>1, <2>1, <2>2 DEF RowArrives, TypeOK, backupVars, workerVars, alertVars
<1>2. ASSUME Migrate PROVE TypeOK'
  <2>1. left' \in [Events -> Nat]
    BY <1>2, SpendType DEF Migrate, Events
  <2> QED
    BY <1>2, <2>1 DEF Migrate, TypeOK, backupVars, workerVars, alertVars
<1>3. ASSUME NEW host \in BOOLEAN, LoseDatabase(host) PROVE TypeOK'
  <2>1. left' \in [Events -> Nat]
    BY <1>3, SpendType DEF LoseDatabase, Events
  <2>2. marker' \in 0..now /\ lastSent' \in [Alerts -> Nat]
    BY <1>3, TimeIsNat DEF LoseDatabase, TypeOK, Never
  <2> QED
    BY <1>3, <2>1, <2>2 DEF LoseDatabase, TypeOK, Never
<1>4. ASSUME StopOrStart PROVE TypeOK'
  <2>1. left' \in [Events -> Nat]
    BY <1>4, SpendType DEF StopOrStart, Events
  <2> QED
    BY <1>4, <2>1 DEF StopOrStart, TypeOK, backupVars, workerVars, alertVars
<1>5. ASSUME BacklogTurns PROVE TypeOK'
  <2>1. left' \in [Events -> Nat]
    BY <1>5, SpendType DEF BacklogTurns, Events
  <2> QED
    BY <1>5, <2>1 DEF BacklogTurns, TypeOK, dbVars, backupVars, workerVars
<1> QED
  BY <1>1, <1>2, <1>3, <1>4, <1>5

\* A step of a run of backup.sh leaves everybody else's variables alone.
LEMMA BackupTypes ==
  ASSUME TypeOK, BackupUnchanged, NEW r \in Runners, NEW x \in {Idle} \cup Run,
         runs' = [runs EXCEPT ![r] = x],
         bucket' \subseteq Bundle, IsFiniteSet(bucket'), marker' \in 0..now, made' \in Nat,
         left' \in [Events -> Nat]
  PROVE  TypeOK'
BY DEF TypeOK, BackupUnchanged, dbVars, workerVars, alertVars

LEMMA MayFailType ==
  ASSUME TypeOK, NEW ok, NEW e \in Events, MayFail(ok, e)
  PROVE  left' \in [Events -> Nat]
BY SpendType DEF MayFail, TypeOK

\* The steps of a run: what becomes of its record.
LEMMA DumpMakes ==
  ASSUME TypeOK, NEW r \in Runners, NEW tag \in Tags, NEW prune \in BOOLEAN, Dump(r, tag, prune)
  PROVE  TypeOK' /\ \E x \in Run :
           /\ runs' = [runs EXCEPT ![r] = x] /\ x.stage = "dumped"
           /\ x.no = made + 1 /\ x.day = now /\ x.rows = Rows
           /\ made' = made + 1 /\ bucket' = bucket /\ marker' = marker
           /\ left' = [left EXCEPT ![IF r = Timer THEN "night" ELSE "manual"] = @ - 1]
<1>1. PICK whole \in BOOLEAN :
        runs' = [runs EXCEPT ![r] =
          [stage |-> "dumped", no |-> made', day |-> now, tag |-> tag, prune |-> prune,
           whole |-> whole, rows |-> Rows, schema |-> db.schema, head |-> 0, doomed |-> {}]]
  BY DEF Dump, TypeOK
<1> DEFINE x == [stage |-> "dumped", no |-> made', day |-> now, tag |-> tag, prune |-> prune,
                 whole |-> whole, rows |-> Rows, schema |-> db.schema, head |-> 0, doomed |-> {}]
<1>2. x \in Run
  BY TimeIsNat DEF Dump, Run, TypeOK, Rows
<1>3. left' \in [Events -> Nat]
  BY SpendType DEF Dump, Events
<1>4. bucket' \subseteq Bundle /\ IsFiniteSet(bucket') /\ marker' \in 0..now /\ made' \in Nat
  BY TimeIsNat DEF Dump, TypeOK
<1>5. TypeOK'
  BY <1>1, <1>2, <1>3, <1>4, BackupTypes DEF Dump
<1> QED
  BY <1>1, <1>2, <1>5 DEF Dump, Spend

LEMMA StageMoves ==
  ASSUME TypeOK, NEW r \in Runners, ~AtStage(r, "idle"),
         NEW stage \in {"dumped", "packed", "uploaded", "marked", "pruning"}
  PROVE  /\ [runs[r] EXCEPT !.stage = stage] \in Run
         /\ [runs[r] EXCEPT !.stage = stage].stage = stage
         /\ [runs[r] EXCEPT !.stage = stage].no = runs[r].no
         /\ [runs[r] EXCEPT !.stage = stage].day = runs[r].day
         /\ [runs[r] EXCEPT !.stage = stage].rows = runs[r].rows
BY RunShape DEF Run

LEMMA WriteManifestMakes ==
  ASSUME TypeOK, NEW r \in Runners, WriteManifest(r)
  PROVE  TypeOK' /\ \E x \in Run :
           /\ runs' = [runs EXCEPT ![r] = x] /\ x.stage = "packed"
           /\ x.no = runs[r].no /\ x.day = runs[r].day /\ x.rows = runs[r].rows
<1>1. runs[r] \in Run /\ runs[r].stage = "dumped"
  BY RunShape DEF WriteManifest, AtStage
<1> DEFINE x == [runs[r] EXCEPT !.stage = "packed", !.head = db.schema]
<1>2. /\ x \in Run /\ x.stage = "packed"
      /\ x.no = runs[r].no /\ x.day = runs[r].day /\ x.rows = runs[r].rows
  BY <1>1 DEF Run, TypeOK
<1>3. runs' = [runs EXCEPT ![r] = x]
  BY DEF WriteManifest
<1>4. bucket' \subseteq Bundle /\ IsFiniteSet(bucket') /\ marker' \in 0..now /\ made' \in Nat
      /\ left' \in [Events -> Nat]
  BY DEF WriteManifest, TypeOK
<1> HIDE DEF x
<1> QED
  BY <1>2, <1>3, <1>4, BackupTypes DEF WriteManifest

LEMMA UploadMakes ==
  ASSUME TypeOK, NEW r \in Runners, NEW ok \in BOOLEAN, Upload(r, ok)
  PROVE  TypeOK' /\ \E x \in {Idle} \cup Run, b \in Bundle :
           /\ runs' = [runs EXCEPT ![r] = x] /\ bucket' = bucket \cup {b}
           /\ x # Idle => x.stage = "uploaded" /\ x.no = runs[r].no /\ x.day = runs[r].day
           /\ b.no = runs[r].no /\ b.day = runs[r].day /\ b.rows = runs[r].rows
           /\ b.whole = ok /\ (~ok => x = Idle)
           /\ IF ok THEN left' = left ELSE Spend("upload")
           /\ marker' = marker
<1>1. runs[r] \in Run /\ runs[r].stage = "packed" /\ runs[r].whole
  BY RunShape DEF Upload, AtStage, Verifies
<1> DEFINE x == IF ok THEN [runs[r] EXCEPT !.stage = "uploaded"] ELSE Idle
           b == [no |-> runs[r].no, day |-> runs[r].day, tag |-> runs[r].tag,
                 whole |-> ok /\ runs[r].whole, rows |-> runs[r].rows, schema |-> runs[r].schema,
                 head |-> runs[r].head]
<1>2. /\ b \in Bundle /\ b.no = runs[r].no /\ b.day = runs[r].day /\ b.rows = runs[r].rows
      /\ b.whole = ok
  BY <1>1 DEF Bundle, Run
<1>3. /\ x \in {Idle} \cup Run
      /\ x # Idle => x.stage = "uploaded" /\ x.no = runs[r].no /\ x.day = runs[r].day
      /\ ~ok => x = Idle
  BY <1>1 DEF Run
<1>4. runs' = [runs EXCEPT ![r] = x] /\ bucket' = bucket \cup {b}
  BY DEF Upload, Die
<1>5. left' \in [Events -> Nat]
  BY MayFailType DEF Upload, Events
<1>7. marker' = marker /\ IF ok THEN left' = left ELSE Spend("upload")
  BY DEF Upload, MayFail
<1> HIDE DEF x, b
<1>6. bucket' \subseteq Bundle /\ IsFiniteSet(bucket') /\ marker' \in 0..now /\ made' \in Nat
  <2>1. IsFiniteSet(bucket \cup {b})
    BY FS_AddElement DEF TypeOK
  <2> QED
    BY <1>2, <1>4, <1>7, <2>1 DEF Upload, TypeOK
<1>8. TypeOK'
  BY <1>3, <1>4, <1>5, <1>6, BackupTypes DEF Upload
<1> QED
  BY <1>2, <1>3, <1>4, <1>7, <1>8

LEMMA SetMarkerMakes ==
  ASSUME TypeOK, NEW r \in Runners, NEW ok \in BOOLEAN, SetMarker(r, ok)
  PROVE  TypeOK' /\ \E x \in {Idle} \cup Run :
           /\ runs' = [runs EXCEPT ![r] = x]
           /\ x # Idle => x.stage = "marked" /\ x.no = runs[r].no /\ x.day = runs[r].day
<1>1. runs[r] \in Run /\ runs[r].stage = "uploaded"
  BY RunShape DEF SetMarker, AtStage
<1> DEFINE x == IF runs[r].prune THEN [runs[r] EXCEPT !.stage = "marked"] ELSE Idle
<1>2. /\ x \in {Idle} \cup Run
      /\ x # Idle => x.stage = "marked" /\ x.no = runs[r].no /\ x.day = runs[r].day
  BY <1>1 DEF Run
<1>3. runs' = [runs EXCEPT ![r] = x]
  BY DEF SetMarker, Die
<1>4. left' \in [Events -> Nat]
  BY MayFailType DEF SetMarker, Events
<1>5. bucket' \subseteq Bundle /\ IsFiniteSet(bucket') /\ marker' \in 0..now /\ made' \in Nat
  BY TimeIsNat DEF SetMarker, TypeOK
<1> HIDE DEF x
<1> QED
  BY <1>2, <1>3, <1>4, <1>5, BackupTypes DEF SetMarker

LEMMA ClassifyMakes ==
  ASSUME TypeOK, NEW r \in Runners, Classify(r)
  PROVE  TypeOK' /\ \E x \in Run :
           /\ runs' = [runs EXCEPT ![r] = x] /\ x.stage = "pruning"
           /\ x.no = runs[r].no /\ x.day = runs[r].day
           /\ x.doomed = {b.no : b \in bucket \ Kept(bucket)}
<1>1. runs[r] \in Run /\ runs[r].stage = "marked"
  BY RunShape DEF Classify, AtStage
<1> DEFINE gone == {b.no : b \in bucket \ Kept(bucket)}
           x == [runs[r] EXCEPT !.stage = "pruning", !.doomed = gone]
<1>2. gone \subseteq Nat
  BY DEF TypeOK, Bundle
<1> HIDE DEF gone
<1>3. x \in Run /\ x.stage = "pruning" /\ x.no = runs[r].no /\ x.day = runs[r].day /\ x.doomed = gone
  BY <1>1, <1>2 DEF Run
<1>4. runs' = [runs EXCEPT ![r] = x]
  BY DEF Classify, gone
<1>5. bucket' \subseteq Bundle /\ IsFiniteSet(bucket') /\ marker' \in 0..now /\ made' \in Nat
      /\ left' \in [Events -> Nat]
  BY DEF Classify, TypeOK
<1> HIDE DEF x
<1>6. TypeOK'
  BY <1>3, <1>4, <1>5, BackupTypes DEF Classify
<1> QED
  BY <1>3, <1>4, <1>6 DEF gone

LEMMA PruneOneMakes ==
  ASSUME TypeOK, NEW r \in Runners, PruneOne(r)
  PROVE  TypeOK' /\ \E x \in {Idle} \cup Run, no \in runs[r].doomed :
           /\ runs' = [runs EXCEPT ![r] = x]
           /\ bucket' = {b \in bucket : b.no # no}
           /\ x # Idle => /\ x.stage = "pruning" /\ x.no = runs[r].no /\ x.day = runs[r].day
                          /\ x.doomed \subseteq runs[r].doomed
<1>1. runs[r] \in Run /\ runs[r].stage = "pruning"
  BY RunShape DEF PruneOne, AtStage
<1>2. PICK no \in runs[r].doomed :
        IF \E b \in bucket : b.no = no
        THEN /\ bucket' = {b \in bucket : b.no # no}
             /\ runs' = [runs EXCEPT ![r].doomed = @ \ {no}]
        ELSE Die(r) /\ UNCHANGED bucket
  BY DEF PruneOne
<1> DEFINE found == \E b \in bucket : b.no = no
           x == IF found THEN [runs[r] EXCEPT !.doomed = @ \ {no}] ELSE Idle
<1>3. /\ x \in {Idle} \cup Run
      /\ x # Idle => /\ x.stage = "pruning" /\ x.no = runs[r].no /\ x.day = runs[r].day
                     /\ x.doomed \subseteq runs[r].doomed
  BY <1>1 DEF Run
<1>4. runs' = [runs EXCEPT ![r] = x]
  BY <1>1, <1>2 DEF Die
<1>5. bucket' = {b \in bucket : b.no # no}
  BY <1>2
<1>6. bucket' \subseteq Bundle /\ IsFiniteSet(bucket') /\ marker' \in 0..now /\ made' \in Nat
      /\ left' \in [Events -> Nat]
  BY <1>5, FS_Subset DEF PruneOne, TypeOK
<1> HIDE DEF x
<1>7. TypeOK'
  BY <1>3, <1>4, <1>6, BackupTypes DEF PruneOne
<1> QED
  BY <1>3, <1>4, <1>5, <1>7

LEMMA RunOver ==
  ASSUME TypeOK, NEW r \in Runners, BackupEnds(r) \/ BackupRefused(r)
  PROVE  /\ TypeOK' /\ runs' = [runs EXCEPT ![r] = Idle]
         /\ UNCHANGED <<bucket, marker, made, now, db, job, restore>>
         /\ left' = left \/ Spend("die")
<1>1. /\ runs' = [runs EXCEPT ![r] = Idle] /\ BackupUnchanged
      /\ UNCHANGED <<bucket, marker, made, now, db, job, restore>>
      /\ left' = left \/ Spend("die")
  BY DEF BackupEnds, BackupRefused, Die, BackupUnchanged, dbVars, workerVars
<1>2. left' \in [Events -> Nat]
  BY <1>1, SpendType DEF TypeOK, Events
<1>3. bucket' \subseteq Bundle /\ IsFiniteSet(bucket') /\ marker' \in 0..now /\ made' \in Nat
  BY <1>1 DEF TypeOK
<1> QED
  BY <1>1, <1>2, <1>3, BackupTypes

\* restore.sh.
LEMMA RestoreTypes ==
  ASSUME TypeOK
  PROVE  RestoreNext => TypeOK'
<1> USE DEF TypeOK, RestoreUnchanged, backupVars, workerVars, alertVars
<1>1. ASSUME NEW b \in bucket, NEW force \in BOOLEAN, RestoreBegins(b, force) PROVE TypeOK'
  <2>1. left' \in [Events -> Nat]
    BY <1>1, SpendType DEF RestoreBegins, Events
  <2>2. restore' \in Restore
    BY <1>1 DEF RestoreBegins, Restore
  <2> QED
    BY <1>1, <2>1, <2>2 DEF RestoreBegins
<1>2. ASSUME NEW answers \in BOOLEAN, RestoreChecks(answers) PROVE TypeOK'
  <2>1. left' \in [Events -> Nat]
    BY <1>2, MayFailType DEF RestoreChecks, Events
  <2>2. restore' \in {Idle} \cup Restore
    BY <1>2 DEF RestoreChecks, Restore, Idle
  <2> QED
    BY <1>2, <2>1, <2>2 DEF RestoreChecks
<1>3. ASSUME RestoreDrops PROVE TypeOK'
  <2>1. restore' \in Restore
    BY <1>3 DEF RestoreDrops, Restore, Idle
  <2>2. db' \in [came : [Days -> Nat], schema : Nat, data : BOOLEAN, sound : BOOLEAN]
    BY <1>3 DEF RestoreDrops, Never
  <2> QED
    BY <1>3, <2>1, <2>2 DEF RestoreDrops
<1>4. ASSUME RestoreLoads PROVE TypeOK'
  <2>1. restore \in Restore /\ restore' \in Restore
    BY <1>4 DEF RestoreLoads, Restore, Idle
  <2>2. db' \in [came : [Days -> Nat], schema : Nat, data : BOOLEAN, sound : BOOLEAN]
    BY <1>4, <2>1, TimeIsNat DEF RestoreLoads, Restore, Bundle, Never
  <2> QED
    BY <1>4, <2>1, <2>2 DEF RestoreLoads
<1>5. ASSUME RestoreEnds PROVE TypeOK'
  <2>1. left' \in [Events -> Nat]
    BY <1>5, SpendType DEF RestoreEnds, Events
  <2> QED
    BY <1>5, <2>1 DEF RestoreEnds
<1> QED
  BY <1>1, <1>2, <1>3, <1>4, <1>5 DEF RestoreNext

\* The retention job.
LEMMA RetentionTypes ==
  ASSUME TypeOK
  PROVE  RetentionNext => TypeOK'
<1> USE DEF TypeOK, dbVars, backupVars, alertVars
<1>1. ASSUME NEW reads \in BOOLEAN, RetentionStarts(reads) PROVE TypeOK'
  <2>1. left' \in [Events -> Nat]
    BY <1>1, MayFailType DEF RetentionStarts, Events
  <2>2. job' \in {Idle} \cup Job
    <3>1. now - Window \in Int
      BY TimeIsNat, SettingsAreNumbers
    <3> QED
      BY <1>1, <3>1 DEF RetentionStarts, Job
  <2>3. pruned' \in 0..now
    BY <1>1, TimeIsNat DEF RetentionStarts
  <2> QED
    BY <1>1, <2>1, <2>2, <2>3 DEF RetentionStarts
<1>2. ASSUME DeleteBatch PROVE TypeOK'
  <2>1. job' \in {Idle} \cup Job
    BY <1>2 DEF DeleteBatch, Job, Idle
  <2>2. db' \in [came : [Days -> Nat], schema : Nat, data : BOOLEAN, sound : BOOLEAN]
    BY <1>2 DEF DeleteBatch, Never
  <2> QED
    BY <1>2, <2>1, <2>2 DEF DeleteBatch
<1>3. ASSUME JobDies PROVE TypeOK'
  <2>1. left' \in [Events -> Nat]
    BY <1>3, SpendType DEF JobDies, Events
  <2> QED
    BY <1>3, <2>1 DEF JobDies
<1> QED
  BY <1>1, <1>2, <1>3 DEF RetentionNext

\* A job that tells.
TellingJob(j) ==
  /\ DOMAIN j = {"stage", "day", "posted", "send", "clear"}
  /\ j = [stage |-> "telling", day |-> j.day, posted |-> j.posted, send |-> j.send, clear |-> j.clear]
  /\ j.day \in Nat /\ j.posted \subseteq Alerts /\ j.send \subseteq Alerts /\ j.clear \subseteq Alerts

LEMMA Telling ==
  ASSUME TypeOK, job.stage = "telling"
  PROVE  TellingJob(job)
BY DEF TypeOK, Job, Idle, TellingJob

\* The alerts.
LEMMA AlertTypes ==
  ASSUME TypeOK
  PROVE  AlertNext => TypeOK'
<1> USE DEF TypeOK, AlertUnchanged, dbVars, backupVars
<1>1. ASSUME NEW q \in BOOLEAN, NEW m \in BOOLEAN, NEW h \in BOOLEAN, AlertsStart(q, m, h)
      PROVE  TypeOK'
  <2>1. left' \in [Events -> Nat]
    BY <1>1, MayFailType DEF AlertsStart, Events
  <2>2. job' \in Job
    BY <1>1, TimeIsNat DEF AlertsStart, Job, Due
  <2> QED
    BY <1>1, <2>1, <2>2 DEF AlertsStart
<1>2. ASSUME NEW a \in Alerts, NEW delivered \in BOOLEAN, PostFiring(a, delivered) PROVE TypeOK'
  <2>1. left' \in [Events -> Nat]
    BY <1>2, MayFailType DEF PostFiring, Events
  <2>2. job.stage = "telling" /\ TellingJob(job)
    BY <1>2, Telling DEF PostFiring
  <2>3. job' \in Job
    BY <1>2, <2>2 DEF PostFiring, TellingJob, Job, Accounted
  <2>4. told' \in [Alerts -> {"nothing", "firing", "resolved"}]
    BY <1>2 DEF PostFiring
  <2> QED
    BY <1>2, <2>1, <2>3, <2>4 DEF PostFiring
<1>3. ASSUME NEW a \in Alerts, NEW delivered \in BOOLEAN, PostResolved(a, delivered) PROVE TypeOK'
  <2>1. left' \in [Events -> Nat]
    BY <1>3, MayFailType DEF PostResolved, Events
  <2>2. job.stage = "telling" /\ TellingJob(job)
    BY <1>3, Telling DEF PostResolved
  <2>3. job' \in Job
    BY <1>3, <2>2 DEF PostResolved, TellingJob, Job
  <2>4. told' \in [Alerts -> {"nothing", "firing", "resolved"}]
    BY <1>3 DEF PostResolved
  <2> QED
    BY <1>3, <2>1, <2>3, <2>4 DEF PostResolved
<1>4. ASSUME Record PROVE TypeOK'
  <2>1. job.stage = "telling" /\ TellingJob(job)
    BY <1>4, Telling DEF Record
  <2>2. PICK a \in job.posted :
          /\ lastSent' = [lastSent EXCEPT ![a] = IF a \in job.clear THEN Never ELSE job.day]
          /\ job' = [job EXCEPT !.posted = {}, !.clear = @ \ {a}]
    BY <1>4 DEF Record
  <2>3. job' \in Job
    BY <2>1, <2>2 DEF TellingJob, Job
  <2>4. lastSent' \in [Alerts -> Nat]
    BY <2>1, <2>2 DEF TellingJob, Never
  <2> QED
    BY <1>4, <2>3, <2>4 DEF Record
<1>5. ASSUME AlertsEnd PROVE TypeOK'
  BY <1>5 DEF AlertsEnd
<1> QED
  BY <1>1, <1>2, <1>3, <1>4, <1>5 DEF AlertNext

LEMMA NextDayTypes ==
  ASSUME TypeOK, NextDay
  PROVE  TypeOK'
<1>1. now' \in Days /\ marker' \in 0..now' /\ pruned' \in 0..now'
  BY TimeIsNat, SettingsAreNumbers DEF NextDay, TypeOK, Days, backupVars, workerVars
<1> QED
  BY <1>1 DEF NextDay, TypeOK, dbVars, backupVars, workerVars, alertVars

-------------------------------------------------------------------------------
(* Numbers, and what is doomed.                                            *)

\* Steps of the others leave the bucket and the runs alone.
LEMMA PolicyFrame ==
  ASSUME Numbered, DoomedForGood, UNCHANGED <<now, bucket, made, runs>>
  PROVE  Numbered' /\ DoomedForGood'
<1>1. \A r \in Runners, s \in STRING : AtStage(r, s)' <=> AtStage(r, s)
  BY DEF AtStage
<1>2. Numbered'
  BY DEF Numbered, AtStage, Unsent, InOrder
<1>3. \A b \in bucket : Promised(b)' <=> Promised(b)
  BY DEF Promised, SundayBundles, MonthlyBundles, Newer
<1> QED
  BY <1>2, <1>3 DEF DoomedForGood, AtStage, Unsent

\* A run that goes on keeps its number and its day; one that is over has none.
LEMMA RunMovesNumbered ==
  ASSUME TypeOK, Numbered, NEW r \in Runners, NEW x \in {Idle} \cup Run,
         runs' = [runs EXCEPT ![r] = x], UNCHANGED <<now, bucket, made>>,
         x # Idle => ~AtStage(r, "idle") /\ x.no = runs[r].no /\ x.day = runs[r].day,
         x.stage \in {"dumped", "packed"} => Unsent(r)
  PROVE  /\ Numbered'
         /\ \A q \in Runners : Unsent(q)' => Unsent(q) /\ runs'[q].no = runs[q].no
<1>1. /\ runs'[r] = x /\ \A q \in Runners \ {r} : runs'[q] = runs[q]
      /\ (x = Idle <=> x.stage = "idle")
  BY DEF TypeOK, Idle, Run
<1>2. ASSUME NEW q \in Runners, ~AtStage(q, "idle")'
      PROVE  /\ ~AtStage(q, "idle") /\ runs'[q].no = runs[q].no /\ runs'[q].day = runs[q].day
             /\ Unsent(q)' => Unsent(q)
  BY <1>1, <1>2 DEF AtStage, Unsent
<1>3. \A q \in Runners : Unsent(q)' => ~AtStage(q, "idle")'
  BY DEF AtStage, Unsent
<1>4. Numbered'
  <2>1. /\ \A b \in bucket' : b.no <= made' /\ b.day <= now'
        /\ \A b, c \in bucket' : InOrder(b, c) /\ (b.no = c.no => b = c)
    BY DEF Numbered
  <2>2. ASSUME NEW q \in Runners, ~AtStage(q, "idle")'
        PROVE  /\ runs'[q].no <= made' /\ now' - 1 <= runs'[q].day /\ runs'[q].day <= now'
               /\ Unsent(q)' =>
                    \A b \in bucket' : b.no # runs'[q].no /\ InOrder(b, runs'[q]) /\ InOrder(runs'[q], b)
    BY <1>2, <2>2 DEF Numbered, InOrder
  <2>3. ASSUME NEW q \in Runners, NEW p \in Runners \ {q}, ~AtStage(q, "idle")', ~AtStage(p, "idle")'
        PROVE  runs'[p].no # runs'[q].no /\ InOrder(runs'[p], runs'[q])
    BY <1>2, <2>3 DEF Numbered, InOrder
  <2> QED
    BY <2>1, <2>2, <2>3 DEF Numbered, InOrder
<1> QED
  BY <1>2, <1>3, <1>4

\* If what it dooms is doomed for good, so is all that is doomed.
LEMMA RunMovesDoomed ==
  ASSUME TypeOK, DoomedForGood, NEW r \in Runners, NEW x \in {Idle} \cup Run,
         runs' = [runs EXCEPT ![r] = x], UNCHANGED <<now, bucket, made>>,
         \A q \in Runners : Unsent(q)' => Unsent(q) /\ runs'[q].no = runs[q].no,
         x.stage = "pruning" =>
           \A no \in x.doomed :
             /\ no <= made
             /\ \A b \in bucket : b.no = no => ~Promised(b)
             /\ \A q \in Runners : Unsent(q) => runs[q].no # no
  PROVE  DoomedForGood'
<1>1. runs'[r] = x /\ \A q \in Runners \ {r} : runs'[q] = runs[q]
  BY DEF TypeOK
<1>2. \A b \in bucket : Promised(b)' <=> Promised(b)
  BY DEF Promised, SundayBundles, MonthlyBundles, Newer
<1>3. ASSUME NEW q \in Runners, AtStage(q, "pruning")', NEW no \in runs'[q].doomed
      PROVE  /\ no <= made
             /\ \A b \in bucket : b.no = no => ~Promised(b)
             /\ \A p \in Runners : Unsent(p) => runs[p].no # no
  <2>1. CASE q = r
    BY <1>1, <1>3, <2>1 DEF AtStage
  <2>2. CASE q # r
    BY <1>1, <1>3, <2>2 DEF AtStage, DoomedForGood
  <2> QED
    BY <2>1, <2>2
<1> QED
  BY <1>2, <1>3 DEF DoomedForGood

\* A new run takes the next number, and today.
LEMMA DumpPolicy ==
  ASSUME PolicyInv, NEW r \in Runners, NEW tag \in Tags, NEW prune \in BOOLEAN, Dump(r, tag, prune)
  PROVE  Numbered' /\ DoomedForGood'
<1> USE DEF PolicyInv
<1>1. PICK x \in Run :
        /\ runs' = [runs EXCEPT ![r] = x] /\ x.stage = "dumped"
        /\ x.no = made + 1 /\ x.day = now /\ made' = made + 1 /\ bucket' = bucket
  BY DumpMakes
<1>2. /\ runs'[r] = x /\ \A q \in Runners \ {r} : runs'[q] = runs[q]
      /\ now' = now /\ made \in Nat /\ now \in Nat /\ bucket \subseteq Bundle
      /\ \A q \in Runners : ~AtStage(q, "idle") => runs[q] \in Run
  BY <1>1, TimeIsNat, RunShape DEF TypeOK, Dump, BackupUnchanged
<1>3. Numbered'
  <2>1. /\ \A b \in bucket' : b.no <= made' /\ b.day <= now'
        /\ \A b, c \in bucket' : InOrder(b, c) /\ (b.no = c.no => b = c)
    BY <1>1, <1>2 DEF Numbered, Bundle
  <2>2. ASSUME NEW q \in Runners, ~AtStage(q, "idle")'
        PROVE  /\ runs'[q].no <= made' /\ now' - 1 <= runs'[q].day /\ runs'[q].day <= now'
               /\ Unsent(q)' =>
                    \A b \in bucket' : b.no # runs'[q].no /\ InOrder(b, runs'[q]) /\ InOrder(runs'[q], b)
    <3>1. CASE q = r
      BY <1>1, <1>2, <3>1 DEF Numbered, InOrder, Bundle
    <3>2. CASE q # r
      BY <1>1, <1>2, <2>2, <3>2 DEF Numbered, InOrder, Bundle, Run, AtStage, Unsent
    <3> QED
      BY <3>1, <3>2
  <2>3. ASSUME NEW q \in Runners, NEW p \in Runners \ {q}, ~AtStage(q, "idle")', ~AtStage(p, "idle")'
        PROVE  runs'[p].no # runs'[q].no /\ InOrder(runs'[p], runs'[q])
    <3>1. CASE q # r /\ p # r
      BY <1>1, <1>2, <2>3, <3>1 DEF Numbered, InOrder, AtStage
    <3>2. CASE q = r
      BY <1>1, <1>2, <2>3, <3>2 DEF Numbered, InOrder, AtStage, Run
    <3>3. CASE p = r
      BY <1>1, <1>2, <2>3, <3>3 DEF Numbered, InOrder, AtStage, Run
    <3> QED
      BY <3>1, <3>2, <3>3
  <2> QED
    BY <2>1, <2>2, <2>3 DEF Numbered, InOrder
<1>4. DoomedForGood'
  <2>1. \A b \in bucket : Promised(b)' <=> Promised(b)
    BY <1>1, <1>2 DEF Promised, SundayBundles, MonthlyBundles, Newer
  <2>2. ASSUME NEW q \in Runners, AtStage(q, "pruning")', NEW no \in runs'[q].doomed
        PROVE  /\ no <= made'
               /\ \A b \in bucket' : b.no = no => ~Promised(b)'
               /\ \A p \in Runners : Unsent(p)' => runs'[p].no # no
    <3>1. q # r /\ runs'[q] = runs[q] /\ AtStage(q, "pruning") /\ runs[q] \in Run
      BY <1>1, <1>2, <2>2 DEF AtStage
    <3>2. no \in Nat /\ no <= made
      BY <2>2, <3>1 DEF DoomedForGood, Run
    <3>3. ASSUME NEW p \in Runners, Unsent(p)' PROVE runs'[p].no # no
      <4>1. CASE p = r
        BY <1>1, <1>2, <3>2, <4>1
      <4>2. CASE p # r
        BY <1>2, <2>2, <3>1, <3>3, <4>2 DEF DoomedForGood, Unsent, AtStage
      <4> QED
        BY <4>1, <4>2
    <3> QED
      BY <1>1, <1>2, <2>1, <2>2, <3>1, <3>2, <3>3 DEF DoomedForGood
  <2> QED
    BY <2>2 DEF DoomedForGood
<1> QED
  BY <1>3, <1>4

\* The bundle a run uploads has the run's number, which nothing dooms.
LEMMA UploadPolicy ==
  ASSUME PolicyInv, NEW r \in Runners, NEW ok \in BOOLEAN, Upload(r, ok)
  PROVE  Numbered' /\ DoomedForGood'
<1> USE DEF PolicyInv
<1>1. PICK x \in {Idle} \cup Run, b \in Bundle :
        /\ runs' = [runs EXCEPT ![r] = x] /\ bucket' = bucket \cup {b}
        /\ x # Idle => x.stage = "uploaded" /\ x.no = runs[r].no /\ x.day = runs[r].day
        /\ b.no = runs[r].no /\ b.day = runs[r].day
  BY UploadMakes
<1>2. /\ runs'[r] = x /\ \A q \in Runners \ {r} : runs'[q] = runs[q]
      /\ now' = now /\ made' = made /\ Unsent(r) /\ ~AtStage(r, "idle")
      /\ x = Idle => x.stage = "idle"
  BY <1>1 DEF TypeOK, Upload, BackupUnchanged, Unsent, AtStage, Idle
<1>3. TypeOK'
  BY UploadMakes
<1>4. ASSUME NEW q \in Runners
      PROVE  /\ Unsent(q)' => q # r /\ Unsent(q) /\ runs'[q] = runs[q]
             /\ ~AtStage(q, "idle")' =>
                  ~AtStage(q, "idle") /\ runs'[q].no = runs[q].no /\ runs'[q].day = runs[q].day
  BY <1>1, <1>2 DEF Unsent, AtStage
<1>5. Numbered'
  <2>1. ASSUME NEW c \in bucket' PROVE c.no <= made' /\ c.day <= now'
    BY <1>1, <1>2, <2>1 DEF Numbered
  <2>2. ASSUME NEW c \in bucket', NEW d \in bucket'
        PROVE  InOrder(c, d) /\ (c.no = d.no => c = d)
    <3>1. CASE c \in bucket /\ d \in bucket
      BY <3>1 DEF Numbered
    <3>2. CASE c = b /\ d = b
      BY <3>2 DEF InOrder, Bundle
    <3>3. CASE c = b /\ d \in bucket
      BY <1>1, <1>2, <3>3 DEF Numbered, InOrder
    <3>4. CASE c \in bucket /\ d = b
      BY <1>1, <1>2, <3>4 DEF Numbered, InOrder
    <3> QED
      BY <1>1, <3>1, <3>2, <3>3, <3>4
  <2>3. ASSUME NEW q \in Runners, ~AtStage(q, "idle")'
        PROVE  /\ runs'[q].no <= made' /\ now' - 1 <= runs'[q].day /\ runs'[q].day <= now'
               /\ Unsent(q)' =>
                    \A c \in bucket' : c.no # runs'[q].no /\ InOrder(c, runs'[q]) /\ InOrder(runs'[q], c)
    <3>1. runs'[q].no <= made' /\ now' - 1 <= runs'[q].day /\ runs'[q].day <= now'
      BY <1>2, <1>4, <2>3 DEF Numbered
    <3>2. ASSUME Unsent(q)', NEW c \in bucket'
          PROVE  c.no # runs'[q].no /\ InOrder(c, runs'[q]) /\ InOrder(runs'[q], c)
      <4>1. q # r /\ Unsent(q) /\ runs'[q] = runs[q] /\ ~AtStage(q, "idle")
        BY <1>4, <2>3, <3>2
      <4>2. CASE c \in bucket
        BY <4>1, <4>2 DEF Numbered
      <4>3. CASE c = b
        <5>1. /\ runs[q].no # runs[r].no /\ InOrder(runs[q], runs[r]) /\ InOrder(runs[r], runs[q])
          BY <1>2, <4>1 DEF Numbered
        <5> QED
          BY <1>1, <4>1, <4>3, <5>1 DEF InOrder
      <4> QED
        BY <1>1, <4>2, <4>3
    <3> QED
      BY <3>1, <3>2
  <2>4. ASSUME NEW q \in Runners, NEW p \in Runners \ {q}, ~AtStage(q, "idle")', ~AtStage(p, "idle")'
        PROVE  runs'[p].no # runs'[q].no /\ InOrder(runs'[p], runs'[q])
    BY <1>4, <2>4 DEF Numbered, InOrder
  <2> QED
    BY <2>1, <2>2, <2>3, <2>4 DEF Numbered, InOrder
<1>6. DoomedForGood'
  <2>1. ASSUME NEW q \in Runners, AtStage(q, "pruning")', NEW no \in runs'[q].doomed
        PROVE  /\ no <= made'
               /\ \A c \in bucket' : c.no = no => ~Promised(c)'
               /\ \A p \in Runners : Unsent(p)' => runs'[p].no # no
    <3>1. q # r /\ runs'[q] = runs[q] /\ AtStage(q, "pruning")
      BY <1>1, <1>2, <2>1 DEF AtStage
    <3>2. /\ no <= made /\ \A c \in bucket : c.no = no => ~Promised(c)
          /\ \A p \in Runners : Unsent(p) => runs[p].no # no
      BY <2>1, <3>1 DEF DoomedForGood
    <3>3. ASSUME NEW c \in bucket', c.no = no PROVE ~Promised(c)'
      <4>1. c \in bucket /\ c \in Bundle
        BY <1>1, <1>2, <3>2, <3>3 DEF TypeOK
      <4>2. bucket \subseteq bucket' /\ now <= now'
        BY <1>1, <1>2, TimeIsNat
      <4> QED
        BY <1>3, <3>2, <3>3, <4>1, <4>2, NotPromisedLater
    <3> QED
      BY <1>2, <1>4, <3>2, <3>3
  <2> QED
    BY <2>1 DEF DoomedForGood
<1> QED
  BY <1>5, <1>6

\* Pruning deletes what it doomed, of which nothing is promised.
LEMMA PruneRemoves ==
  ASSUME PolicyInv, NEW r \in Runners, PruneOne(r)
  PROVE  \/ bucket' = bucket
         \/ \E c \in bucket : bucket' = bucket \ {c} /\ ~Promised(c)
<1> USE DEF PolicyInv
<1>1. PICK no \in runs[r].doomed : bucket' = {b \in bucket : b.no # no}
  BY PruneOneMakes
<1>2. CASE \A b \in bucket : b.no # no
  BY <1>1, <1>2
<1>3. CASE \E b \in bucket : b.no = no
  <2>1. PICK c \in bucket : c.no = no
    BY <1>3
  <2>2. \A b \in bucket : b.no = no => b = c
    BY <2>1 DEF Numbered
  <2>3. ~Promised(c)
    BY <2>1 DEF PruneOne, DoomedForGood
  <2> QED
    BY <1>1, <2>1, <2>2, <2>3
<1> QED
  BY <1>2, <1>3

LEMMA PruneOnePolicy ==
  ASSUME PolicyInv, NEW r \in Runners, PruneOne(r)
  PROVE  Numbered' /\ DoomedForGood'
<1> USE DEF PolicyInv
<1>1. PICK x \in {Idle} \cup Run :
        /\ runs' = [runs EXCEPT ![r] = x]
        /\ x # Idle => /\ x.stage = "pruning" /\ x.no = runs[r].no /\ x.day = runs[r].day
                       /\ x.doomed \subseteq runs[r].doomed
  BY PruneOneMakes
<1>2. /\ runs'[r] = x /\ \A q \in Runners \ {r} : runs'[q] = runs[q]
      /\ now' = now /\ made' = made /\ AtStage(r, "pruning")
      /\ x = Idle => x.stage = "idle"
  BY <1>1 DEF TypeOK, PruneOne, BackupUnchanged, Idle
<1>3. ASSUME NEW q \in Runners
      PROVE  /\ Unsent(q)' => Unsent(q) /\ runs'[q] = runs[q]
             /\ ~AtStage(q, "idle")' =>
                  ~AtStage(q, "idle") /\ runs'[q].no = runs[q].no /\ runs'[q].day = runs[q].day
             /\ AtStage(q, "pruning")' => AtStage(q, "pruning") /\ runs'[q].doomed \subseteq runs[q].doomed
  BY <1>1, <1>2 DEF Unsent, AtStage
<1>4. bucket' \subseteq bucket
  BY PruneRemoves
<1>5. Numbered'
  <2>1. /\ \A b \in bucket' : b.no <= made' /\ b.day <= now'
        /\ \A b, c \in bucket' : InOrder(b, c) /\ (b.no = c.no => b = c)
    BY <1>2, <1>4 DEF Numbered
  <2>2. ASSUME NEW q \in Runners, ~AtStage(q, "idle")'
        PROVE  /\ runs'[q].no <= made' /\ now' - 1 <= runs'[q].day /\ runs'[q].day <= now'
               /\ Unsent(q)' =>
                    \A b \in bucket' : b.no # runs'[q].no /\ InOrder(b, runs'[q]) /\ InOrder(runs'[q], b)
    BY <1>2, <1>3, <1>4, <2>2 DEF Numbered
  <2>3. ASSUME NEW q \in Runners, NEW p \in Runners \ {q}, ~AtStage(q, "idle")', ~AtStage(p, "idle")'
        PROVE  runs'[p].no # runs'[q].no /\ InOrder(runs'[p], runs'[q])
    BY <1>3, <2>3 DEF Numbered, InOrder
  <2> QED
    BY <2>1, <2>2, <2>3 DEF Numbered, InOrder
<1>6. \A b \in bucket' : ~Promised(b) => ~Promised(b)'
  <2>1. CASE bucket' = bucket
    BY <1>2, <2>1 DEF Promised, SundayBundles, MonthlyBundles, Newer
  <2>2. ASSUME NEW c \in bucket, bucket' = bucket \ {c}, ~Promised(c)
        PROVE  \A b \in bucket' : ~Promised(b) => ~Promised(b)'
    BY <1>2, <1>4, <2>2, NotPromisedBeside DEF TypeOK
  <2> QED
    BY <2>1, <2>2, PruneRemoves
<1>7. DoomedForGood'
  <2>1. ASSUME NEW q \in Runners, AtStage(q, "pruning")', NEW no \in runs'[q].doomed
        PROVE  /\ no <= made'
               /\ \A b \in bucket' : b.no = no => ~Promised(b)'
               /\ \A p \in Runners : Unsent(p)' => runs'[p].no # no
    BY <1>2, <1>3, <1>4, <1>6, <2>1 DEF DoomedForGood
  <2> QED
    BY <2>1 DEF DoomedForGood
<1> QED
  BY <1>5, <1>7

\* What classify_retention dooms is not promised, and has been numbered.
LEMMA ClassifyPolicy ==
  ASSUME PolicyInv, NEW r \in Runners, Classify(r)
  PROVE  Numbered' /\ DoomedForGood'
<1> USE DEF PolicyInv
<1>1. PICK x \in Run :
        /\ runs' = [runs EXCEPT ![r] = x] /\ x.stage = "pruning"
        /\ x.no = runs[r].no /\ x.day = runs[r].day
        /\ x.doomed = {b.no : b \in bucket \ Kept(bucket)}
  BY ClassifyMakes
<1>2. /\ UNCHANGED <<now, bucket, made>> /\ ~AtStage(r, "idle")
      /\ x \in {Idle} \cup Run /\ x.stage \notin {"dumped", "packed"}
  BY <1>1 DEF Classify, BackupUnchanged, AtStage
<1>3. /\ Numbered'
      /\ \A q \in Runners : Unsent(q)' => Unsent(q) /\ runs'[q].no = runs[q].no
  BY <1>1, <1>2, RunMovesNumbered
<1>4. ASSUME NEW no \in x.doomed
      PROVE  /\ no <= made
             /\ \A b \in bucket : b.no = no => ~Promised(b)
             /\ \A q \in Runners : Unsent(q) => runs[q].no # no
  <2>1. PICK b \in bucket \ Kept(bucket) : b.no = no
    BY <1>1
  <2>2. ~Promised(b)
    BY NotKept
  <2> QED
    BY <2>1, <2>2 DEF Numbered, Unsent, AtStage
<1> QED
  BY <1>1, <1>2, <1>3, <1>4, RunMovesDoomed

\* The other steps of a run leave the bucket alone.
LEMMA RunPolicy ==
  ASSUME PolicyInv, NEW r \in Runners, NEW ok \in BOOLEAN,
         WriteManifest(r) \/ SetMarker(r, ok) \/ BackupEnds(r) \/ BackupRefused(r)
  PROVE  Numbered' /\ DoomedForGood'
<1> USE DEF PolicyInv
<1>1. UNCHANGED <<now, bucket, made>>
  BY DEF WriteManifest, SetMarker, BackupEnds, BackupRefused, BackupUnchanged
<1>2. \E x \in {Idle} \cup Run :
        /\ runs' = [runs EXCEPT ![r] = x] /\ x.stage # "pruning"
        /\ x # Idle => ~AtStage(r, "idle") /\ x.no = runs[r].no /\ x.day = runs[r].day
        /\ x.stage \in {"dumped", "packed"} => Unsent(r)
  <2>1. CASE WriteManifest(r)
    BY <2>1, WriteManifestMakes DEF WriteManifest, AtStage, Unsent
  <2>2. CASE SetMarker(r, ok)
    <3>1. PICK x \in {Idle} \cup Run :
            /\ runs' = [runs EXCEPT ![r] = x]
            /\ x # Idle => x.stage = "marked" /\ x.no = runs[r].no /\ x.day = runs[r].day
      BY <2>2, SetMarkerMakes
    <3>2. ~AtStage(r, "idle") /\ Idle.stage = "idle"
      BY <2>2 DEF SetMarker, AtStage, Idle
    <3> QED
      BY <3>1, <3>2
  <2>3. CASE BackupEnds(r) \/ BackupRefused(r)
    <3>1. runs' = [runs EXCEPT ![r] = Idle] /\ Idle.stage = "idle"
      BY <2>3, RunOver DEF Idle
    <3> QED
      BY <3>1
  <2> QED
    BY <2>1, <2>2, <2>3
<1>3. PICK x \in {Idle} \cup Run :
        /\ runs' = [runs EXCEPT ![r] = x] /\ x.stage # "pruning"
        /\ x # Idle => ~AtStage(r, "idle") /\ x.no = runs[r].no /\ x.day = runs[r].day
        /\ x.stage \in {"dumped", "packed"} => Unsent(r)
  BY <1>2
<1>4. /\ Numbered'
      /\ \A q \in Runners : Unsent(q)' => Unsent(q) /\ runs'[q].no = runs[q].no
  BY <1>1, <1>3, RunMovesNumbered
<1> QED
  BY <1>1, <1>3, <1>4, RunMovesDoomed

\* The runs of a host that is lost are lost.
LEMMA LosePolicy ==
  ASSUME PolicyInv, NEW host \in BOOLEAN, LoseDatabase(host)
  PROVE  Numbered' /\ DoomedForGood'
<1>1. \A r \in Runners : runs'[r].stage = "idle"
  BY DEF LoseDatabase, Idle
<1>2. UNCHANGED <<now, bucket, made>>
  BY DEF LoseDatabase
<1> QED
  BY <1>1, <1>2 DEF PolicyInv, Numbered, DoomedForGood, AtStage, Unsent, InOrder

\* A day passes; no run is left from the day before.
LEMMA NextDayPolicy ==
  ASSUME PolicyInv, NextDay
  PROVE  Numbered' /\ DoomedForGood'
<1> USE DEF PolicyInv
<1>1. /\ UNCHANGED <<bucket, made, runs>> /\ now' = now + 1 /\ now \in Nat
      /\ \A r \in Runners : ~AtStage(r, "idle") => runs[r].day = now
      /\ bucket \subseteq Bundle
  BY TimeIsNat DEF NextDay, backupVars, TypeOK
<1>2. Numbered'
  BY <1>1 DEF Numbered, AtStage, Unsent, InOrder, Bundle
<1>3. \A b \in bucket : ~Promised(b) => ~Promised(b)'
  BY <1>1, NextDayTypes, NotPromisedLater
<1>4. DoomedForGood'
  BY <1>1, <1>3 DEF DoomedForGood, AtStage, Unsent
<1> QED
  BY <1>2, <1>4

\* Everybody else.
LEMMA OthersPolicy ==
  ASSUME \/ \E s \in Days : RowArrives(s)
         \/ Migrate \/ StopOrStart \/ RestoreNext \/ RetentionNext \/ AlertNext \/ BacklogTurns
  PROVE  UNCHANGED <<now, bucket, made, runs, marker>>
BY DEF RowArrives, Migrate, StopOrStart, BacklogTurns, backupVars,
       RestoreNext, RestoreBegins, RestoreChecks, RestoreDrops, RestoreLoads, RestoreEnds,
       RestoreUnchanged, RetentionNext, RetentionStarts, DeleteBatch, JobDies,
       AlertNext, AlertsStart, PostFiring, PostResolved, Record, AlertsEnd, AlertUnchanged

\* Every step keeps the types and the policy's invariant.
LEMMA PolicyStep ==
  ASSUME PolicyInv, [Next]_vars
  PROVE  PolicyInv'
<1> USE DEF PolicyInv
<1>1. CASE UNCHANGED vars
  <2>1. TypeOK'
    BY <1>1 DEF TypeOK, vars, dbVars, backupVars, workerVars, alertVars
  <2> QED
    BY <1>1, <2>1, PolicyFrame DEF vars, backupVars
<1>2. CASE BackupNext
  <2> PICK r \in Runners :
        \/ \E tag \in Tags, prune \in BOOLEAN : Dump(r, tag, prune)
        \/ WriteManifest(r)
        \/ \E ok \in BOOLEAN : Upload(r, ok) \/ SetMarker(r, ok)
        \/ Classify(r)
        \/ PruneOne(r)
        \/ BackupEnds(r)
        \/ BackupRefused(r)
    BY <1>2 DEF BackupNext
  <2>1. ASSUME NEW tag \in Tags, NEW prune \in BOOLEAN, Dump(r, tag, prune) PROVE PolicyInv'
    BY <2>1, DumpMakes, DumpPolicy
  <2>2. ASSUME WriteManifest(r) PROVE PolicyInv'
    <3>1. TRUE \in BOOLEAN
      OBVIOUS
    <3> QED
      BY <2>2, <3>1, WriteManifestMakes, RunPolicy
  <2>3. ASSUME NEW ok \in BOOLEAN, Upload(r, ok) PROVE PolicyInv'
    BY <2>3, UploadMakes, UploadPolicy
  <2>4. ASSUME NEW ok \in BOOLEAN, SetMarker(r, ok) PROVE PolicyInv'
    BY <2>4, SetMarkerMakes, RunPolicy
  <2>5. ASSUME Classify(r) PROVE PolicyInv'
    BY <2>5, ClassifyMakes, ClassifyPolicy
  <2>6. ASSUME PruneOne(r) PROVE PolicyInv'
    BY <2>6, PruneOneMakes, PruneOnePolicy
  <2>7. ASSUME BackupEnds(r) \/ BackupRefused(r) PROVE PolicyInv'
    <3>1. TRUE \in BOOLEAN
      OBVIOUS
    <3> QED
      BY <2>7, <3>1, RunOver, RunPolicy
  <2> QED
    BY <2>1, <2>2, <2>3, <2>4, <2>5, <2>6, <2>7
<1>3. ASSUME \/ \E s \in Days : RowArrives(s)
             \/ Migrate \/ StopOrStart \/ RestoreNext \/ RetentionNext \/ AlertNext \/ BacklogTurns
      PROVE  PolicyInv'
  <2>1. TypeOK'
    BY <1>3, DatabaseTypes, RestoreTypes, RetentionTypes, AlertTypes
  <2> QED
    BY <1>3, <2>1, OthersPolicy, PolicyFrame
<1>4. ASSUME NEW host \in BOOLEAN, LoseDatabase(host) PROVE PolicyInv'
  BY <1>4, DatabaseTypes, LosePolicy
<1>5. CASE NextDay
  BY <1>5, NextDayTypes, NextDayPolicy
<1> QED
  BY <1>1, <1>2, <1>3, <1>4, <1>5 DEF Next

LEMMA InitPolicy == Init => PolicyInv
<1> SUFFICES ASSUME Init PROVE PolicyInv
  OBVIOUS
<1>1. TypeOK
  <2>1. 1 \in Days /\ 0..1 \subseteq Nat /\ Never \in 0..1
    BY SettingsAreNumbers, SettingsAssumption DEF Days, Never
  <2>2. setup \in [ntfy : BOOLEAN, dryRun : BOOLEAN] /\ left \in [Events -> Nat]
    BY SettingsAssumption DEF Init
  <2> QED
    BY <2>1, <2>2, FS_EmptySet DEF Init, TypeOK, Never
<1>2. Numbered /\ DoomedForGood
  BY DEF Init, Numbered, DoomedForGood, AtStage, Unsent, Idle
<1> QED
  BY <1>1, <1>2 DEF PolicyInv

-------------------------------------------------------------------------------
(* The theorems about pruning.                                             *)

\* Types; numbers and days of bundles and runs grow together; what a run is about to delete is not
\* promised and will not be, for any settings and any number of runs of backup.sh at a time.
THEOREM PolicyInvariant == Spec => []PolicyInv
<1> QED
  BY InitPolicy, PolicyStep, PTL DEF Spec

THEOREM TypesHold == Spec => []TypeOK
<1>1. PolicyInv => TypeOK
  BY DEF PolicyInv
<1> QED
  BY <1>1, PolicyInvariant, PTL

\* No step removes from the bucket what the retention policy keeps at that moment, although runs
\* prune from listings read before others uploaded and pruned (backup.sh:141, run_prune).
THEOREM PolicyIsKept == Spec => PruneKeepsPolicy
<1>1. ASSUME PolicyInv, [Next]_vars
      PROVE  [\A b \in bucket \ bucket' : ~Promised(b)]_vars
  <2>1. CASE UNCHANGED vars
    BY <2>1
  <2>2. ASSUME NEW r \in Runners, PruneOne(r) PROVE \A b \in bucket \ bucket' : ~Promised(b)
    BY <1>1, <2>2, PruneRemoves
  <2>3. ASSUME BackupNext, ~\E r \in Runners : PruneOne(r) PROVE bucket \subseteq bucket'
    BY <2>3 DEF BackupNext, Dump, WriteManifest, Upload, SetMarker, Classify, BackupEnds, BackupRefused
  <2>4. ASSUME \/ \E s \in Days : RowArrives(s)
               \/ Migrate \/ StopOrStart \/ RestoreNext \/ RetentionNext \/ AlertNext \/ BacklogTurns
        PROVE  bucket \subseteq bucket'
    BY <2>4, OthersPolicy
  <2>5. ASSUME NextDay \/ \E host \in BOOLEAN : LoseDatabase(host) PROVE bucket \subseteq bucket'
    BY <2>5 DEF NextDay, LoseDatabase, backupVars
  <2> QED
    BY <1>1, <2>1, <2>2, <2>3, <2>4, <2>5 DEF Next
<1> QED
  BY <1>1, PolicyInvariant, PTL DEF Spec, PruneKeepsPolicy

-------------------------------------------------------------------------------
(* The promise of the marker.                                              *)

\* A set of bundles that is larger than the broken ones has a complete one.
LEMMA OneIsWhole ==
  ASSUME TypeOK, NEW S \in SUBSET bucket, Cardinality(Broken) < Cardinality(S)
  PROVE  \E b \in S : b.whole
<1> SUFFICES ASSUME \A b \in S : ~b.whole PROVE FALSE
  OBVIOUS
<1>1. S \subseteq Broken /\ IsFiniteSet(Broken)
  BY BucketParts DEF Broken
<1>2. Cardinality(S) <= Cardinality(Broken) /\ IsFiniteSet(S)
  BY <1>1, FS_Subset
<1> QED
  BY <1>1, <1>2, FS_CardinalityType

\* The events left never grow.
LEMMA EventsAreSpent ==
  ASSUME TypeOK, [Next]_vars
  PROVE  left["upload"] \in Nat /\ left'["upload"] \in Nat /\ left'["upload"] <= left["upload"]
<1>1. left' = left \/ \E e \in Events : Spend(e)
  <2> USE DEF MayFail, Events
  <2>1. CASE UNCHANGED vars
    BY <2>1 DEF vars
  <2>2. ASSUME NEW s \in Days, RowArrives(s) PROVE \E e \in Events : Spend(e)
    BY <2>2 DEF RowArrives
  <2>3. ASSUME Migrate \/ StopOrStart \/ BacklogTurns \/ \E host \in BOOLEAN : LoseDatabase(host)
        PROVE  \E e \in Events : Spend(e)
    BY <2>3 DEF Migrate, StopOrStart, BacklogTurns, LoseDatabase
  <2>4. ASSUME BackupNext PROVE left' = left \/ \E e \in Events : Spend(e)
    <3>1. ASSUME NEW r \in Runners, NEW tag \in Tags, NEW prune \in BOOLEAN, Dump(r, tag, prune)
          PROVE  \E e \in Events : Spend(e)
      BY <3>1 DEF Dump
    <3>2. ASSUME NEW r \in Runners, NEW ok \in BOOLEAN, Upload(r, ok) \/ SetMarker(r, ok)
          PROVE  left' = left \/ \E e \in Events : Spend(e)
      BY <3>2 DEF Upload, SetMarker
    <3>3. ASSUME NEW r \in Runners,
                 WriteManifest(r) \/ Classify(r) \/ PruneOne(r) \/ BackupEnds(r) \/ BackupRefused(r)
          PROVE  left' = left \/ \E e \in Events : Spend(e)
      BY <3>3 DEF WriteManifest, Classify, PruneOne, BackupEnds, BackupRefused
    <3> QED
      BY <2>4, <3>1, <3>2, <3>3 DEF BackupNext
  <2>5. ASSUME RestoreNext PROVE left' = left \/ \E e \in Events : Spend(e)
    BY <2>5 DEF RestoreNext, RestoreBegins, RestoreChecks, RestoreDrops, RestoreLoads, RestoreEnds
  <2>6. ASSUME RetentionNext PROVE left' = left \/ \E e \in Events : Spend(e)
    BY <2>6 DEF RetentionNext, RetentionStarts, DeleteBatch, JobDies
  <2>7. ASSUME AlertNext PROVE left' = left \/ \E e \in Events : Spend(e)
    BY <2>7 DEF AlertNext, AlertsStart, PostFiring, PostResolved, Record, AlertsEnd
  <2>8. ASSUME NextDay PROVE left' = left
    BY <2>8 DEF NextDay
  <2> QED
    BY <2>1, <2>2, <2>3, <2>4, <2>5, <2>6, <2>7, <2>8 DEF Next
<1> QED
  BY <1>1 DEF TypeOK, Spend, Events

\* What a step does to the bucket: a run adds to it or prunes it, the others leave it alone.
LEMMA BucketSteps ==
  ASSUME PolicyInv, [Next]_vars
  PROVE  \/ bucket' = bucket
         \/ \E r \in Runners, ok \in BOOLEAN : Upload(r, ok)
         \/ \E r \in Runners, c \in bucket :
              PruneOne(r) /\ bucket' = bucket \ {c} /\ ~Promised(c)
<1>1. CASE UNCHANGED vars
  BY <1>1 DEF vars, backupVars
<1>2. ASSUME NEW r \in Runners, PruneOne(r)
      PROVE  bucket' = bucket \/ \E c \in bucket : bucket' = bucket \ {c} /\ ~Promised(c)
  BY <1>2, PruneRemoves
<1>3. ASSUME BackupNext, ~\E r \in Runners : PruneOne(r)
      PROVE  bucket' = bucket \/ \E r \in Runners, ok \in BOOLEAN : Upload(r, ok)
  BY <1>3 DEF BackupNext, Dump, WriteManifest, SetMarker, Classify, BackupEnds, BackupRefused
<1>4. ASSUME NextDay \/ \E host \in BOOLEAN : LoseDatabase(host) PROVE bucket' = bucket
  BY <1>4 DEF NextDay, LoseDatabase, backupVars
<1> QED
  BY <1>1, <1>2, <1>3, <1>4, OthersPolicy DEF Next

\* Every upload that fails is one event less.
LEMMA FewBrokenStep ==
  ASSUME PolicyInv, PromiseInv, [Next]_vars
  PROVE  Cardinality(Broken') + left'["upload"] < KeepDaily
<1> USE DEF PolicyInv
<1>1. /\ Cardinality(Broken) \in Nat /\ KeepDaily \in Nat
      /\ Cardinality(Broken) + left["upload"] < KeepDaily
  BY BucketParts, FS_CardinalityType, SettingsAreNumbers DEF PromiseInv
<1>2. left["upload"] \in Nat /\ left'["upload"] \in Nat /\ left'["upload"] <= left["upload"]
  BY EventsAreSpent
<1>3. CASE Broken' \subseteq Broken
  <2>1. Cardinality(Broken') <= Cardinality(Broken) /\ Cardinality(Broken') \in Nat
    BY <1>3, BucketParts, FS_Subset, FS_CardinalityType
  <2> QED
    BY <1>1, <1>2, <2>1
<1>4. ASSUME NEW r \in Runners, NEW ok \in BOOLEAN, Upload(r, ok)
      PROVE  Cardinality(Broken') + left'["upload"] < KeepDaily
  <2>1. PICK b \in Bundle :
          /\ bucket' = bucket \cup {b} /\ b.whole = ok
          /\ IF ok THEN left' = left ELSE Spend("upload")
    BY <1>4, UploadMakes
  <2>2. CASE ok
    BY <1>3, <2>1, <2>2 DEF Broken
  <2>3. CASE ~ok
    <3>1. Broken' = Broken \cup {b}
      BY <2>1, <2>3 DEF Broken
    <3>2. left'["upload"] = left["upload"] - 1
      BY <2>1, <2>3, SpendType DEF Events
    <3>3. /\ IsFiniteSet(Broken \cup {b})
          /\ Cardinality(Broken \cup {b}) = IF b \in Broken THEN Cardinality(Broken)
                                           ELSE Cardinality(Broken) + 1
      BY BucketParts, FS_AddElement
    <3> QED
      BY <1>1, <1>2, <3>1, <3>2, <3>3
  <2> QED
    BY <2>2, <2>3
<1> QED
  <2>1. CASE bucket' = bucket
    BY <1>3, <2>1 DEF Broken
  <2>2. ASSUME NEW c \in bucket, bucket' = bucket \ {c} PROVE Broken' \subseteq Broken
    BY <2>2 DEF Broken
  <2> QED
    BY <1>3, <1>4, <2>1, <2>2, BucketSteps

\* Pruning a bundle leaves a backup of the days from yesterday on, and a newer one if it was plain.
LEMMA PruningLeavesOne ==
  ASSUME PolicyInv, PromiseInv, FewUploadsFail, NEW c \in bucket, ~Promised(c),
         bucket' = bucket \ {c},
         NEW day \in Int, BackedUpSince(day), c.tag = "none" \/ day >= now - 1
  PROVE  \E b \in bucket' : b.whole /\ b.day >= day
<1> USE DEF PolicyInv
<1>1. /\ c \in Bundle /\ bucket \subseteq Bundle /\ now \in Nat /\ KeepTaggedDays \in Nat
      /\ KeepDaily \in Nat
  BY TimeIsNat, SettingsAreNumbers DEF TypeOK
<1>2. PICK b \in bucket : b.whole /\ b.day >= day
  BY DEF BackedUpSince
<1>3. CASE c.tag = "none"
  <2> DEFINE newer == {x \in bucket : x.tag = "none" /\ x.no > c.no}
  <2>1. Cardinality(newer) >= KeepDaily
    <3>1. Newer(c, bucket) \in Nat
      BY BucketParts, NewerGrows
    <3> QED
      BY <1>1, <1>3, <3>1 DEF Promised, Newer
  <2>2. Cardinality(Broken) < Cardinality(newer)
    <3>1. Cardinality(Broken) \in Nat /\ left["upload"] \in Nat /\ Cardinality(newer) \in Nat
      <4>1. IsFiniteSet(newer)
        BY BucketParts, FS_Subset
      <4> QED
        BY <4>1, BucketParts, FS_CardinalityType DEF TypeOK, Events
    <3> QED
      BY <1>1, <2>1, <3>1 DEF PromiseInv
  <2>3. PICK w \in newer : w.whole
    BY <2>2, OneIsWhole
  <2>4. w \in bucket' /\ w.day >= c.day
    BY <1>1, <2>3 DEF Numbered, InOrder, Bundle
  <2> QED
    BY <1>1, <1>2, <2>3, <2>4 DEF Bundle
<1>4. CASE c.tag # "none" /\ day >= now - 1
  <2>1. c.tag = "pre-upgrade" /\ now - c.day > KeepTaggedDays /\ KeepTaggedDays > 0
    BY <1>1, <1>4 DEF Bundle, Tags, Promised, FewUploadsFail
  <2>2. c.day < day
    BY <1>1, <1>4, <2>1 DEF Bundle
  <2> QED
    BY <1>1, <1>2, <2>2 DEF Bundle
<1> QED
  BY <1>3, <1>4

\* So a step leaves a backup of the days from yesterday on.
LEMMA StillBackedUp ==
  ASSUME PolicyInv, PromiseInv, FewUploadsFail, [Next]_vars,
         NEW day \in Int, BackedUpSince(day), day >= now - 1 \/ ~\E r \in Runners : PruneOne(r)
  PROVE  \E b \in bucket' : b.whole /\ b.day >= day
<1>1. CASE bucket \subseteq bucket'
  BY <1>1 DEF BackedUpSince
<1>2. ASSUME NEW r \in Runners, NEW ok \in BOOLEAN, Upload(r, ok) PROVE bucket \subseteq bucket'
  BY <1>2 DEF Upload
<1> QED
  BY <1>1, <1>2, BucketSteps, PruningLeavesOne

\* What a dump misses came in on its day or later; so it stays, if rows only come in today and a new
\* dump has them all.
LEMMA CoverStays ==
  ASSUME TypeOK, DumpsCover, TypeOK', Numbered',
         \A s \in Rows' : db'.came[s] = now' \/ (s \in Rows /\ db'.came[s] = db.came[s]),
         \A b \in bucket' : \/ b \in bucket
                            \/ \E r \in Runners :
                                 Unsent(r) /\ b.day = runs[r].day /\ b.rows = runs[r].rows,
         \A r \in Runners : Unsent(r)' =>
           \/ Unsent(r) /\ runs'[r].day = runs[r].day /\ runs'[r].rows = runs[r].rows
           \/ runs'[r].rows = Rows'
  PROVE  DumpsCover'
<1> SUFFICES ASSUME NEW s \in Rows'
             PROVE  /\ \A b \in bucket' : db'.came[s] < b.day => s \in b.rows
                    /\ \A r \in Runners :
                         Unsent(r)' /\ db'.came[s] < runs'[r].day => s \in runs'[r].rows
  BY DEF DumpsCover
<1>1. now' \in Nat
  BY SettingsAreNumbers DEF TypeOK, Days
<1>2. ASSUME NEW b \in bucket', db'.came[s] < b.day PROVE s \in b.rows
  <2>1. b.day <= now' /\ b.day \in Nat
    BY DEF Numbered, TypeOK, Bundle
  <2>2. s \in Rows /\ db'.came[s] = db.came[s]
    BY <1>1, <1>2, <2>1
  <2> QED
    BY <1>2, <2>2 DEF DumpsCover
<1>3. ASSUME NEW r \in Runners, Unsent(r)', db'.came[s] < runs'[r].day PROVE s \in runs'[r].rows
  <2>1. runs'[r].day <= now' /\ runs'[r].day \in Nat
    <3>1. ~AtStage(r, "idle")' /\ runs'[r] \in Run
      BY <1>3 DEF Unsent, AtStage, TypeOK, Idle
    <3> QED
      BY <3>1 DEF Numbered, Run
  <2>2. s \in Rows /\ db'.came[s] = db.came[s]
    BY <1>1, <1>3, <2>1
  <2> QED
    BY <1>3, <2>2 DEF DumpsCover
<1> QED
  BY <1>2, <1>3

\* The steps that touch neither the bucket nor the runs: rows come in, are restored or go.
LEMMA RowsMove ==
  ASSUME TypeOK, TypeOK',
         \/ \E s \in Days : RowArrives(s)
         \/ Migrate \/ StopOrStart \/ RestoreNext \/ RetentionNext \/ AlertNext \/ BacklogTurns
  PROVE  \A s \in Rows' : db'.came[s] = now' \/ (s \in Rows /\ db'.came[s] = db.came[s])
<1> USE DEF Rows
<1>1. ASSUME NEW s \in Days, RowArrives(s)
      PROVE  \A x \in Rows' : db'.came[x] = now' \/ (x \in Rows /\ db'.came[x] = db.came[x])
  BY <1>1 DEF RowArrives, TypeOK
<1>2. ASSUME Migrate \/ StopOrStart \/ BacklogTurns
      PROVE  \A x \in Rows' : x \in Rows /\ db'.came[x] = db.came[x]
  BY <1>2 DEF Migrate, StopOrStart, BacklogTurns, dbVars, TypeOK
<1>3. ASSUME RestoreNext
      PROVE  \A x \in Rows' : db'.came[x] = now' \/ (x \in Rows /\ db'.came[x] = db.came[x])
  <2>1. ASSUME RestoreDrops PROVE Rows' = {}
    BY <2>1 DEF RestoreDrops, TypeOK
  <2>2. ASSUME RestoreLoads PROVE \A x \in Rows' : db'.came[x] = now'
    BY <2>2 DEF RestoreLoads, RestoreUnchanged, TypeOK, Never
  <2>3. ASSUME NEW b \in bucket, NEW force \in BOOLEAN, RestoreBegins(b, force) PROVE db' = db
    BY <2>3 DEF RestoreBegins
  <2>4. ASSUME NEW answers \in BOOLEAN, RestoreChecks(answers) \/ RestoreEnds PROVE db' = db
    BY <2>4 DEF RestoreChecks, RestoreEnds
  <2> QED
    BY <1>3, <2>1, <2>2, <2>3, <2>4 DEF RestoreNext
<1>4. ASSUME RetentionNext
      PROVE  \A x \in Rows' : x \in Rows /\ db'.came[x] = db.came[x]
  <2>1. ASSUME DeleteBatch PROVE \A x \in Rows' : x \in Rows /\ db'.came[x] = db.came[x]
    BY <2>1 DEF DeleteBatch, TypeOK, Never
  <2>2. ASSUME JobDies \/ \E reads \in BOOLEAN : RetentionStarts(reads) PROVE db' = db
    BY <2>2 DEF JobDies, RetentionStarts, dbVars
  <2> QED
    BY <1>4, <2>1, <2>2 DEF RetentionNext
<1>5. ASSUME AlertNext PROVE db' = db
  BY <1>5 DEF AlertNext, AlertsStart, PostFiring, PostResolved, Record, AlertsEnd, AlertUnchanged, dbVars
<1> QED
  BY <1>1, <1>2, <1>3, <1>4, <1>5

\* What runs do to what is dumped: a new dump has all the rows, an upload is of the run's dump.
LEMMA DumpsMove ==
  ASSUME PolicyInv, NEW r \in Runners,
         \/ \E tag \in Tags, prune \in BOOLEAN : Dump(r, tag, prune)
         \/ WriteManifest(r)
         \/ \E ok \in BOOLEAN : Upload(r, ok) \/ SetMarker(r, ok)
         \/ Classify(r) \/ PruneOne(r) \/ BackupEnds(r) \/ BackupRefused(r)
  PROVE  /\ UNCHANGED <<db, now>>
         /\ \A b \in bucket' : \/ b \in bucket
                               \/ \E q \in Runners :
                                    Unsent(q) /\ b.day = runs[q].day /\ b.rows = runs[q].rows
         /\ \A q \in Runners : Unsent(q)' =>
              \/ Unsent(q) /\ runs'[q].day = runs[q].day /\ runs'[q].rows = runs[q].rows
              \/ runs'[q].rows = Rows'
<1> USE DEF PolicyInv
<1>1. UNCHANGED <<db, now>>
  BY DEF Dump, WriteManifest, Upload, SetMarker, Classify, PruneOne, BackupEnds, BackupRefused,
         BackupUnchanged, dbVars
<1>2. ASSUME NEW b \in bucket', b \notin bucket
      PROVE  \E q \in Runners : Unsent(q) /\ b.day = runs[q].day /\ b.rows = runs[q].rows
  <2>1. ASSUME NEW ok \in BOOLEAN, Upload(r, ok) PROVE Unsent(r) /\ b.day = runs[r].day /\ b.rows = runs[r].rows
    BY <1>2, <2>1, UploadMakes DEF Upload, Unsent
  <2>2. \E ok \in BOOLEAN : Upload(r, ok)
    <3>1. ASSUME PruneOne(r) PROVE bucket' \subseteq bucket
      BY <3>1, PruneRemoves
    <3> QED
      BY <1>2, <3>1 DEF Dump, WriteManifest, SetMarker, Classify, BackupEnds, BackupRefused
  <2> QED
    BY <2>1, <2>2
<1>3. \E x \in {Idle} \cup Run :
        /\ runs' = [runs EXCEPT ![r] = x]
        /\ x.stage \in {"dumped", "packed"} =>
             \/ Unsent(r) /\ x.day = runs[r].day /\ x.rows = runs[r].rows
             \/ x.rows = Rows
  <2>1. Idle.stage = "idle"
    BY DEF Idle
  <2>2. ASSUME NEW tag \in Tags, NEW prune \in BOOLEAN, Dump(r, tag, prune)
        PROVE  \E x \in Run : runs' = [runs EXCEPT ![r] = x] /\ x.rows = Rows
    BY <2>2, DumpMakes
  <2>3. ASSUME WriteManifest(r)
        PROVE  \E x \in Run : /\ runs' = [runs EXCEPT ![r] = x]
                              /\ Unsent(r) /\ x.day = runs[r].day /\ x.rows = runs[r].rows
    BY <2>3, WriteManifestMakes DEF WriteManifest, Unsent
  <2>4. ASSUME (\E ok \in BOOLEAN : Upload(r, ok) \/ SetMarker(r, ok)) \/ Classify(r) \/ PruneOne(r)
                 \/ BackupEnds(r) \/ BackupRefused(r)
        PROVE  \E x \in {Idle} \cup Run :
                 runs' = [runs EXCEPT ![r] = x] /\ x.stage \notin {"dumped", "packed"}
    <3>1. ASSUME NEW ok \in BOOLEAN, Upload(r, ok)
          PROVE  \E x \in {Idle} \cup Run :
                   runs' = [runs EXCEPT ![r] = x] /\ (x # Idle => x.stage = "uploaded")
      BY <3>1, UploadMakes
    <3>2. ASSUME NEW ok \in BOOLEAN, SetMarker(r, ok)
          PROVE  \E x \in {Idle} \cup Run :
                   runs' = [runs EXCEPT ![r] = x] /\ (x # Idle => x.stage = "marked")
      BY <3>2, SetMarkerMakes
    <3>3. ASSUME Classify(r)
          PROVE  \E x \in {Idle} \cup Run :
                   runs' = [runs EXCEPT ![r] = x] /\ (x # Idle => x.stage = "pruning")
      BY <3>3, ClassifyMakes
    <3>4. ASSUME PruneOne(r)
          PROVE  \E x \in {Idle} \cup Run :
                   runs' = [runs EXCEPT ![r] = x] /\ (x # Idle => x.stage = "pruning")
      BY <3>4, PruneOneMakes
    <3>5. ASSUME BackupEnds(r) \/ BackupRefused(r) PROVE runs' = [runs EXCEPT ![r] = Idle]
      BY <3>5, RunOver
    <3>6. \E x \in {Idle} \cup Run :
            /\ runs' = [runs EXCEPT ![r] = x]
            /\ x # Idle => x.stage \in {"uploaded", "marked", "pruning"}
      BY <2>4, <3>1, <3>2, <3>3, <3>4, <3>5
    <3> QED
      BY <2>1, <3>6
  <2> QED
    BY <2>2, <2>3, <2>4
<1>4. PICK x \in {Idle} \cup Run :
        /\ runs' = [runs EXCEPT ![r] = x]
        /\ x.stage \in {"dumped", "packed"} =>
             \/ Unsent(r) /\ x.day = runs[r].day /\ x.rows = runs[r].rows
             \/ x.rows = Rows
  BY <1>3
<1>5. Rows' = Rows /\ runs'[r] = x /\ \A q \in Runners \ {r} : runs'[q] = runs[q]
  BY <1>1, <1>4 DEF Rows, TypeOK
<1>6. ASSUME NEW q \in Runners, Unsent(q)'
      PROVE  \/ Unsent(q) /\ runs'[q].day = runs[q].day /\ runs'[q].rows = runs[q].rows
             \/ runs'[q].rows = Rows'
  <2>1. CASE q = r
    BY <1>4, <1>5, <1>6, <2>1 DEF Unsent, AtStage
  <2>2. CASE q # r
    BY <1>5, <1>6, <2>2 DEF Unsent, AtStage
  <2> QED
    BY <2>1, <2>2
<1> QED
  BY <1>1, <1>2, <1>6

\* So every dump covers the days before its own.
LEMMA CoverStep ==
  ASSUME PolicyInv, PolicyInv', PromiseInv, [Next]_vars
  PROVE  DumpsCover'
<1> USE DEF PolicyInv
<1>1. CASE UNCHANGED vars
  BY <1>1 DEF PromiseInv, DumpsCover, Rows, Unsent, AtStage, vars, dbVars, backupVars
<1>2. CASE BackupNext
  <2>1. PICK r \in Runners :
         \/ \E tag \in Tags, prune \in BOOLEAN : Dump(r, tag, prune)
         \/ WriteManifest(r)
         \/ \E ok \in BOOLEAN : Upload(r, ok) \/ SetMarker(r, ok)
         \/ Classify(r) \/ PruneOne(r) \/ BackupEnds(r) \/ BackupRefused(r)
    BY <1>2 DEF BackupNext
  <2>2. \A s \in Rows' : s \in Rows /\ db'.came[s] = db.came[s]
    BY <2>1, DumpsMove DEF Rows
  <2> QED
    BY <2>1, <2>2, DumpsMove, CoverStays DEF PromiseInv
<1>3. ASSUME \/ \E s \in Days : RowArrives(s)
             \/ Migrate \/ StopOrStart \/ RestoreNext \/ RetentionNext \/ AlertNext \/ BacklogTurns
      PROVE  DumpsCover'
  <2>1. bucket' = bucket /\ \A r \in Runners : Unsent(r)' => Unsent(r) /\ runs'[r] = runs[r]
    BY <1>3, OthersPolicy DEF Unsent, AtStage
  <2> QED
    BY <1>3, <2>1, RowsMove, CoverStays DEF PromiseInv
<1>4. ASSUME NEW host \in BOOLEAN, LoseDatabase(host) PROVE DumpsCover'
  <2>1. Rows' = {}
    BY <1>4 DEF LoseDatabase, Rows
  <2> QED
    BY <2>1 DEF DumpsCover
<1>5. CASE NextDay
  BY <1>5 DEF NextDay, PromiseInv, DumpsCover, Rows, Unsent, AtStage, dbVars, backupVars
<1> QED
  BY <1>1, <1>2, <1>3, <1>4, <1>5 DEF Next

\* Who has uploaded had done so before, or does so now.
LEMMA UploadedRuns ==
  ASSUME PolicyInv, [Next]_vars, NEW q \in Runners, ~AtStage(q, "idle")', ~Unsent(q)'
  PROVE  /\ ~AtStage(q, "idle") /\ runs'[q].day = runs[q].day
         /\ ~Unsent(q) \/ Upload(q, TRUE)
<1> USE DEF PolicyInv
<1> DEFINE Goal == /\ ~AtStage(q, "idle") /\ runs'[q].day = runs[q].day
                   /\ ~Unsent(q) \/ Upload(q, TRUE)
<1>1. ASSUME runs'[q] = runs[q] PROVE Goal
  BY <1>1 DEF AtStage, Unsent
<1>2. ASSUME NEW r \in Runners, NEW x \in {Idle} \cup Run, runs' = [runs EXCEPT ![r] = x],
             r = q => /\ x # Idle /\ x.stage \notin {"dumped", "packed"} =>
                           /\ ~AtStage(q, "idle") /\ x.day = runs[q].day
                           /\ ~Unsent(q) \/ Upload(q, TRUE)
      PROVE  Goal
  <2>1. CASE r = q
    <3>1. runs'[q] = x
      BY <1>2, <2>1 DEF TypeOK
    <3>2. x # Idle /\ x.stage \notin {"dumped", "packed"}
      BY <3>1 DEF AtStage, Unsent, Idle
    <3> QED
      BY <1>2, <2>1, <3>1, <3>2
  <2>2. CASE r # q
    BY <1>1, <1>2, <2>2 DEF TypeOK
  <2> QED
    BY <2>1, <2>2
<1> HIDE DEF Goal
<1>3. ASSUME NEW r \in Runners, NEW tag \in Tags, NEW prune \in BOOLEAN, Dump(r, tag, prune)
      PROVE  Goal
  <2>1. PICK x \in Run : runs' = [runs EXCEPT ![r] = x] /\ x.stage = "dumped"
    BY <1>3, DumpMakes
  <2> QED
    BY <1>2, <2>1
<1>4. ASSUME NEW r \in Runners, WriteManifest(r) PROVE Goal
  <2>1. PICK x \in Run : runs' = [runs EXCEPT ![r] = x] /\ x.stage = "packed"
    BY <1>4, WriteManifestMakes
  <2> QED
    BY <1>2, <2>1
<1>5. ASSUME NEW r \in Runners, NEW ok \in BOOLEAN, Upload(r, ok) PROVE Goal
  <2>1. PICK x \in {Idle} \cup Run :
          /\ runs' = [runs EXCEPT ![r] = x]
          /\ x # Idle => x.day = runs[r].day
          /\ ~ok => x = Idle
    BY <1>5, UploadMakes
  <2>2. ~AtStage(r, "idle") /\ (ok => Upload(r, TRUE))
    BY <1>5 DEF Upload, AtStage
  <2> QED
    BY <1>2, <2>1, <2>2
<1>6. ASSUME NEW r \in Runners, NEW ok \in BOOLEAN, SetMarker(r, ok) PROVE Goal
  <2>1. PICK x \in {Idle} \cup Run :
          runs' = [runs EXCEPT ![r] = x] /\ (x # Idle => x.day = runs[r].day)
    BY <1>6, SetMarkerMakes
  <2>2. ~AtStage(r, "idle") /\ ~Unsent(r)
    BY <1>6 DEF SetMarker, AtStage, Unsent
  <2> QED
    BY <1>2, <2>1, <2>2
<1>7. ASSUME NEW r \in Runners, Classify(r) PROVE Goal
  <2>1. PICK x \in Run : runs' = [runs EXCEPT ![r] = x] /\ x.day = runs[r].day
    BY <1>7, ClassifyMakes
  <2>2. ~AtStage(r, "idle") /\ ~Unsent(r)
    BY <1>7 DEF Classify, AtStage, Unsent
  <2> QED
    BY <1>2, <2>1, <2>2
<1>8. ASSUME NEW r \in Runners, PruneOne(r) PROVE Goal
  <2>1. PICK x \in {Idle} \cup Run :
          runs' = [runs EXCEPT ![r] = x] /\ (x # Idle => x.day = runs[r].day)
    BY <1>8, PruneOneMakes
  <2>2. ~AtStage(r, "idle") /\ ~Unsent(r)
    BY <1>8 DEF PruneOne, AtStage, Unsent
  <2> QED
    BY <1>2, <2>1, <2>2
<1>9. ASSUME NEW r \in Runners, BackupEnds(r) \/ BackupRefused(r) PROVE Goal
  BY <1>2, <1>9, RunOver
<1>10. ASSUME BackupNext PROVE Goal
  <2>1. PICK r \in Runners :
         \/ \E tag \in Tags, prune \in BOOLEAN : Dump(r, tag, prune)
         \/ WriteManifest(r)
         \/ \E ok \in BOOLEAN : Upload(r, ok) \/ SetMarker(r, ok)
         \/ Classify(r) \/ PruneOne(r) \/ BackupEnds(r) \/ BackupRefused(r)
    BY <1>10 DEF BackupNext
  <2> QED
    BY <2>1, <1>3, <1>4, <1>5, <1>6, <1>7, <1>8, <1>9
<1>11. ASSUME UNCHANGED vars \/ NextDay PROVE Goal
  <2>1. runs' = runs
    BY <1>11 DEF vars, backupVars, NextDay
  <2> QED
    BY <1>1, <2>1
<1>12. ASSUME NEW host \in BOOLEAN, LoseDatabase(host) PROVE FALSE
  BY <1>12 DEF LoseDatabase, AtStage, Idle
<1>13. ASSUME \/ \E s \in Days : RowArrives(s)
              \/ Migrate \/ StopOrStart \/ RestoreNext \/ RetentionNext \/ AlertNext \/ BacklogTurns
       PROVE  Goal
  <2>1. runs' = runs
    BY <1>13, OthersPolicy
  <2> QED
    BY <1>1, <2>1
<1>14. Goal
  BY <1>10, <1>11, <1>12, <1>13 DEF Next
<1> QED
  BY <1>14 DEF Goal

\* A run that has uploaded leaves a backup of its day or later.
LEMMA RunBackedUp ==
  ASSUME PolicyInv, PromiseInv, FewUploadsFail, [Next]_vars,
         NEW q \in Runners, ~AtStage(q, "idle")', ~Unsent(q)'
  PROVE  BackedUpSince(runs[q].day)'
<1> USE DEF PolicyInv
<1>1. /\ ~AtStage(q, "idle") /\ runs'[q].day = runs[q].day
      /\ ~Unsent(q) \/ Upload(q, TRUE)
  BY UploadedRuns
<1>2. runs[q].day \in Nat /\ runs[q].day >= now - 1
  BY <1>1, RunShape DEF Run, Numbered
<1>3. CASE Upload(q, TRUE)
  <2>1. TRUE \in BOOLEAN
    OBVIOUS
  <2>2. PICK b \in Bundle : bucket' = bucket \cup {b} /\ b.day = runs[q].day /\ b.whole = TRUE
    BY <1>3, <2>1, UploadMakes
  <2> QED
    BY <1>1, <1>2, <2>2 DEF BackedUpSince
<1>4. CASE ~Unsent(q)
  <2>1. BackedUpSince(runs[q].day)
    BY <1>1, <1>4 DEF PromiseInv
  <2>2. \E b \in bucket' : b.whole /\ b.day >= runs[q].day
    BY <1>2, <2>1, StillBackedUp
  <2> QED
    BY <1>1, <2>2 DEF BackedUpSince
<1> QED
  BY <1>1, <1>3, <1>4

\* Who moves the marker.
LEMMA MarkerMoves ==
  ASSUME PolicyInv, [Next]_vars
  PROVE  \/ marker' = marker
         \/ marker' = Never /\ job' = Idle
         \/ /\ marker' = now /\ bucket' = bucket /\ job' = job
            /\ \E r \in Runners : AtStage(r, "uploaded")
<1>1. ASSUME NEW r \in Runners, NEW ok \in BOOLEAN, SetMarker(r, ok)
      PROVE  /\ bucket' = bucket /\ job' = job /\ AtStage(r, "uploaded")
             /\ marker' = marker \/ marker' = now
  BY <1>1 DEF SetMarker, BackupUnchanged, workerVars
<1>2. ASSUME NEW host \in BOOLEAN, LoseDatabase(host)
      PROVE  marker' = marker \/ (marker' = Never /\ job' = Idle)
  BY <1>2 DEF LoseDatabase
<1>3. CASE UNCHANGED vars \/ NextDay
  BY <1>3 DEF vars, backupVars, NextDay
<1>4. ASSUME BackupNext, ~\E r \in Runners, ok \in BOOLEAN : SetMarker(r, ok)
      PROVE  marker' = marker
  BY <1>4 DEF BackupNext, Dump, WriteManifest, Upload, Classify, PruneOne, BackupEnds, BackupRefused
<1> QED
  BY <1>1, <1>2, <1>3, <1>4, OthersPolicy DEF Next

\* The marker keeps meaning a backup no older than the day before it.
LEMMA MarkerBackedUp ==
  ASSUME PolicyInv, PromiseInv, FewUploadsFail, [Next]_vars, marker' # Never
  PROVE  BackedUpSince(marker - 1)'
<1> USE DEF PolicyInv
<1>1. now \in Nat /\ marker \in Nat /\ marker <= now
  BY TimeIsNat
<1>2. ASSUME NEW r \in Runners, ~AtStage(r, "idle"), ~Unsent(r) PROVE BackedUpSince(now - 1)
  <2>1. BackedUpSince(runs[r].day) /\ runs[r].day >= now - 1 /\ runs[r].day \in Nat
    BY <1>2, RunShape DEF PromiseInv, Numbered, Run
  <2> QED
    BY <1>1, <2>1 DEF BackedUpSince, TypeOK, Bundle
<1>3. CASE marker' = marker
  <2>1. BackedUpSince(marker - 1)
    BY <1>3 DEF PromiseInv
  <2>2. CASE ~\E r \in Runners : PruneOne(r)
    BY <1>1, <1>3, <2>1, <2>2, StillBackedUp DEF BackedUpSince
  <2>3. CASE \E r \in Runners : PruneOne(r)
    <3>1. BackedUpSince(now - 1)
      BY <1>2, <2>3 DEF PruneOne, AtStage, Unsent
    <3>2. \E b \in bucket' : b.whole /\ b.day >= now - 1
      BY <1>1, <3>1, StillBackedUp
    <3>3. bucket' \subseteq bucket
      BY <2>3, PruneRemoves
    <3> QED
      BY <1>1, <1>3, <3>2, <3>3 DEF BackedUpSince, TypeOK, Bundle
  <2> QED
    BY <2>2, <2>3
<1>4. ASSUME marker' = now, bucket' = bucket, NEW r \in Runners, AtStage(r, "uploaded")
      PROVE  BackedUpSince(marker - 1)'
  BY <1>2, <1>4 DEF BackedUpSince, AtStage, Unsent
<1> QED
  BY <1>3, <1>4, MarkerMoves

\* The retention job deletes because it saw a marker that was fresh.
LEMMA GateHolds ==
  ASSUME PolicyInv, PromiseInv, [Next]_vars, job'.stage = "deleting"
  PROVE  marker' # Never /\ (job'.cutoff + Window) - marker' <= FreshDays
<1> USE DEF PolicyInv
<1>1. /\ now \in Nat /\ marker \in Nat /\ marker <= now /\ now >= 1
      /\ Window \in Nat /\ FreshDays \in Nat /\ Never = 0
  BY TimeIsNat, SettingsAreNumbers DEF Never
<1>2. ASSUME NEW reads \in BOOLEAN, RetentionStarts(reads)
      PROVE  marker' # Never /\ (job'.cutoff + Window) - marker' <= FreshDays
  <2>1. Fresh(IF reads THEN marker ELSE Never) /\ job'.cutoff = now - Window /\ marker' = marker
    BY <1>2 DEF RetentionStarts, Idle, backupVars
  <2> QED
    BY <1>1, <2>1 DEF Fresh
<1>3. ASSUME job.stage = "deleting", job'.cutoff = job.cutoff
      PROVE  marker' # Never /\ (job'.cutoff + Window) - marker' <= FreshDays
  <2>1. /\ marker # Never /\ (job.cutoff + Window) - marker <= FreshDays
        /\ job.cutoff \in Int
    BY <1>3 DEF PromiseInv, TypeOK, Job, Idle
  <2>2. job' # Idle
    BY DEF Idle
  <2> QED
    BY <1>1, <1>3, <2>1, <2>2, MarkerMoves
<1>4. (job.stage = "deleting" /\ job'.cutoff = job.cutoff) \/ \E reads \in BOOLEAN : RetentionStarts(reads)
  <2>1. ASSUME DeleteBatch PROVE job.stage = "deleting" /\ job'.cutoff = job.cutoff
    BY <2>1 DEF DeleteBatch, TypeOK, Job, Idle
  <2>2. ASSUME JobDies PROVE FALSE
    BY <2>2 DEF JobDies, Idle
  <2>3. ASSUME AlertNext PROVE FALSE
    <3>1. ASSUME NEW a \in BOOLEAN, NEW b \in BOOLEAN, NEW c \in BOOLEAN, AlertsStart(a, b, c) PROVE FALSE
      BY <3>1 DEF AlertsStart, Takes
    <3>2. ASSUME AlertsEnd PROVE FALSE
      BY <3>2 DEF AlertsEnd, Idle
    <3>3. ASSUME Record \/ \E a \in Alerts, d \in BOOLEAN : PostFiring(a, d) \/ PostResolved(a, d)
          PROVE  job.stage = "telling" /\ job'.stage = job.stage
      <4>1. job.stage = "telling" /\ TellingJob(job)
        BY <3>3, Telling DEF Record, PostFiring, PostResolved
      <4> QED
        BY <3>3, <4>1 DEF Record, PostFiring, PostResolved, TellingJob
    <3> QED
      BY <2>3, <3>1, <3>2, <3>3 DEF AlertNext
  <2>4. ASSUME NEW host \in BOOLEAN, LoseDatabase(host) PROVE FALSE
    BY <2>4 DEF LoseDatabase, Idle
  <2>5. ASSUME BackupNext PROVE job' = job
    BY <2>5 DEF BackupNext, Dump, WriteManifest, Upload, SetMarker, Classify, PruneOne, BackupEnds,
                BackupRefused, BackupUnchanged, workerVars
  <2>6. ASSUME RestoreNext PROVE job' = job
    BY <2>6 DEF RestoreNext, RestoreBegins, RestoreChecks, RestoreDrops, RestoreLoads, RestoreEnds,
                RestoreUnchanged, workerVars
  <2>7. ASSUME \/ UNCHANGED vars \/ NextDay \/ Migrate \/ StopOrStart \/ BacklogTurns
               \/ \E s \in Days : RowArrives(s)
        PROVE  job' = job
    BY <2>7 DEF vars, NextDay, Migrate, StopOrStart, BacklogTurns, RowArrives, workerVars
  <2> QED
    BY <2>1, <2>2, <2>3, <2>4, <2>5, <2>6, <2>7 DEF Next, RetentionNext
<1> QED
  BY <1>2, <1>3, <1>4

\* A database that is being loaded has no data yet.
LEMMA LoadingIsEmpty ==
  ASSUME PolicyInv, PromiseInv, [Next]_vars, restore'.stage = "loading"
  PROVE  ~db'.data
<1> USE DEF PolicyInv
<1>1. ASSUME restore' = restore, db'.data = db.data PROVE ~db'.data
  BY <1>1 DEF PromiseInv
<1>2. ASSUME NEW s \in Days, RowArrives(s) PROVE restore' = restore /\ db'.data = db.data
  BY <1>2 DEF RowArrives, TypeOK
<1>3. ASSUME \/ UNCHANGED vars \/ NextDay \/ Migrate \/ StopOrStart \/ BacklogTurns
             \/ AlertNext \/ RetentionNext
      PROVE  restore' = restore /\ db'.data = db.data
  BY <1>3 DEF vars, NextDay, Migrate, StopOrStart, BacklogTurns, dbVars, TypeOK,
              AlertNext, AlertsStart, PostFiring, PostResolved, Record, AlertsEnd, AlertUnchanged,
              RetentionNext, RetentionStarts, DeleteBatch, JobDies
<1>4. ASSUME BackupNext PROVE restore' = restore /\ db'.data = db.data
  BY <1>4 DEF BackupNext, Dump, WriteManifest, Upload, SetMarker, Classify, PruneOne, BackupEnds,
              BackupRefused, BackupUnchanged, dbVars
<1>5. ASSUME NEW host \in BOOLEAN, LoseDatabase(host) PROVE ~db'.data
  BY <1>5 DEF LoseDatabase
<1>6. ASSUME RestoreNext PROVE ~db'.data
  <2>1. ASSUME RestoreDrops PROVE ~db'.data
    BY <2>1 DEF RestoreDrops, TypeOK
  <2>2. ASSUME RestoreLoads PROVE FALSE
    <3>1. restore \in Restore /\ restore' = [restore EXCEPT !.stage = "loaded"]
      BY <2>2 DEF RestoreLoads, TypeOK, Idle
    <3> QED
      BY <3>1 DEF Restore
  <2>3. ASSUME RestoreEnds \/ \E b \in bucket, force \in BOOLEAN : RestoreBegins(b, force) PROVE FALSE
    BY <2>3 DEF RestoreEnds, RestoreBegins, Idle
  <2>4. ASSUME NEW answers \in BOOLEAN, RestoreChecks(answers) PROVE FALSE
    <3>1. restore \in Restore
      BY <2>4 DEF RestoreChecks, TypeOK, Idle
    <3>2. restore' = Idle \/ restore' = [restore EXCEPT !.stage = "cleared"]
      BY <2>4 DEF RestoreChecks
    <3> QED
      BY <3>1, <3>2 DEF Restore, Idle
  <2> QED
    BY <1>6, <2>1, <2>2, <2>3, <2>4 DEF RestoreNext
<1> QED
  BY <1>1, <1>2, <1>3, <1>4, <1>5, <1>6 DEF Next

LEMMA PromiseStep ==
  ASSUME PolicyInv, PolicyInv', PromiseInv, FewUploadsFail, [Next]_vars
  PROVE  PromiseInv'
BY FewBrokenStep, CoverStep, RunBackedUp, MarkerBackedUp, GateHolds, LoadingIsEmpty DEF PromiseInv

LEMMA InitPromise ==
  ASSUME FewUploadsFail, Init
  PROVE  PromiseInv
<1>1. Broken = {} /\ Rows = {}
  BY DEF Init, Broken, Rows, Never
<1>2. left["upload"] \in Nat /\ left["upload"] < KeepDaily
  BY SettingsAssumption DEF Init, FewUploadsFail, Events
<1>3. Cardinality(Broken) = 0
  BY <1>1, FS_EmptySet
<1> QED
  BY <1>1, <1>2, <1>3, SettingsAreNumbers DEF Init, PromiseInv, DumpsCover, AtStage, Idle

-------------------------------------------------------------------------------
(* The theorems about the marker.                                          *)

\* With fewer failed uploads than daily slots: complete bundles behind the marker, behind every run
\* that has uploaded, and before every deletion of retention's.
THEOREM PromiseInvariant ==
  ASSUME FewUploadsFail
  PROVE  Spec => [](PolicyInv /\ PromiseInv)
<1>1. Init => PolicyInv /\ PromiseInv
  BY InitPolicy, InitPromise
<1>2. PolicyInv /\ PromiseInv /\ [Next]_vars => (PolicyInv /\ PromiseInv)'
  BY PolicyStep, PromiseStep
<1> QED
  BY <1>1, <1>2, PTL DEF Spec

\* The marker of the last successful backup is a promise: a complete bundle no older than the day
\* before it is in the bucket, with every row that had come in by then (backup.sh:372).
LEMMA MarkerKept ==
  ASSUME PolicyInv, PromiseInv
  PROVE  MarkerPromises
<1> SUFFICES ASSUME marker # Never
             PROVE  \E b \in bucket : /\ b.whole /\ b.day >= marker - 1
                                      /\ {s \in Rows : db.came[s] < marker - 1} \subseteq b.rows
  BY DEF MarkerPromises
<1>1. PICK b \in bucket : b.whole /\ b.day >= marker - 1
  BY DEF PromiseInv, BackedUpSince
<1>2. ASSUME NEW s \in Rows, db.came[s] < marker - 1 PROVE s \in b.rows
  <2>1. db.came[s] \in Nat /\ b.day \in Nat /\ marker \in Nat
    BY TimeIsNat DEF PolicyInv, TypeOK, Bundle, Rows
  <2> QED
    BY <1>1, <1>2, <2>1 DEF PromiseInv, DumpsCover
<1> QED
  BY <1>1, <1>2

THEOREM MarkerMeansBundle ==
  ASSUME FewUploadsFail
  PROVE  Spec => []MarkerPromises
<1>1. PolicyInv /\ PromiseInv => MarkerPromises
  BY MarkerKept
<1> QED
  BY <1>1, PromiseInvariant, PTL

\* Retention deletes no last copy: what had been in the database for longer than the age of the
\* backup the gate accepts is in a complete bundle when it is deleted (retention.ts:219).
THEOREM NoLastCopyDeleted ==
  ASSUME FewUploadsFail
  PROVE  Spec => DeletedIsBackedUp
<1>1. ASSUME PolicyInv, PromiseInv, [Next]_vars
      PROVE  [db.data /\ db'.data =>
                \A s \in Rows \ Rows' :
                  db.came[s] < (job.cutoff + Window) - FreshDays - 1 =>
                    \E b \in bucket : b.whole /\ s \in b.rows]_vars
  <2> SUFFICES ASSUME Next, db.data, db'.data, NEW s \in Rows \ Rows',
                      db.came[s] < (job.cutoff + Window) - FreshDays - 1
               PROVE  \E b \in bucket : b.whole /\ s \in b.rows
    BY <1>1
  <2>1. ASSUME job.stage = "deleting" PROVE \E b \in bucket : b.whole /\ s \in b.rows
    <3>1. marker # Never /\ (job.cutoff + Window) - marker <= FreshDays
      BY <1>1, <2>1 DEF PromiseInv
    <3>2. /\ marker \in Nat /\ job.cutoff \in Int /\ Window \in Nat /\ FreshDays \in Nat
          /\ db.came[s] \in Nat
      BY <1>1, <2>1, TimeIsNat, SettingsAreNumbers DEF PolicyInv, TypeOK, Job, Idle, Rows
    <3>3. db.came[s] < marker - 1
      BY <3>1, <3>2
    <3> QED
      BY <1>1, <3>1, <3>3, MarkerKept DEF MarkerPromises
  <2>2. ASSUME db' = db \/ (db'.came = db.came) PROVE FALSE
    BY <2>2 DEF Rows
  <2>3. ASSUME NEW x \in Days, RowArrives(x) PROVE FALSE
    BY <1>1, <2>3, TimeIsNat DEF RowArrives, Rows, PolicyInv, TypeOK, Never
  <2>4. ASSUME Migrate \/ StopOrStart \/ BacklogTurns \/ NextDay \/ AlertNext
        PROVE  db'.came = db.came
    BY <1>1, <2>4 DEF PolicyInv, TypeOK, Migrate, StopOrStart, BacklogTurns, NextDay, dbVars,
            AlertNext, AlertsStart, PostFiring, PostResolved, Record, AlertsEnd, AlertUnchanged
  <2>5. ASSUME BackupNext PROVE db' = db
    BY <2>5 DEF BackupNext, Dump, WriteManifest, Upload, SetMarker, Classify, PruneOne, BackupEnds,
                BackupRefused, BackupUnchanged, dbVars
  <2>6. ASSUME NEW host \in BOOLEAN, LoseDatabase(host) PROVE FALSE
    BY <2>6 DEF LoseDatabase
  <2>7. ASSUME RestoreNext PROVE FALSE
    <3>1. ASSUME RestoreDrops PROVE FALSE
      BY <1>1, <3>1 DEF RestoreDrops, PolicyInv, TypeOK
    <3>2. ASSUME RestoreLoads PROVE FALSE
      BY <1>1, <3>2 DEF RestoreLoads, PromiseInv
    <3>3. ASSUME NEW b \in bucket, NEW force \in BOOLEAN, RestoreBegins(b, force) PROVE db' = db
      BY <3>3 DEF RestoreBegins
    <3>4. ASSUME RestoreEnds \/ \E answers \in BOOLEAN : RestoreChecks(answers) PROVE db' = db
      BY <3>4 DEF RestoreEnds, RestoreChecks
    <3> QED
      BY <2>2, <2>7, <3>1, <3>2, <3>3, <3>4 DEF RestoreNext
  <2>8. ASSUME RetentionNext PROVE job.stage = "deleting"
    <3>1. ASSUME JobDies \/ \E reads \in BOOLEAN : RetentionStarts(reads) PROVE db' = db
      BY <3>1 DEF JobDies, RetentionStarts, dbVars
    <3> QED
      BY <2>2, <2>8, <3>1 DEF RetentionNext, DeleteBatch
  <2> QED
    BY <2>1, <2>2, <2>3, <2>4, <2>5, <2>6, <2>7, <2>8 DEF Next
<1>2. PolicyInv /\ PromiseInv /\ [Next]_vars =>
        [db.data /\ db'.data =>
           \A s \in Rows \ Rows' :
             db.came[s] < (job.cutoff + Window) - FreshDays - 1 =>
               \E b \in bucket : b.whole /\ s \in b.rows]_vars
  BY <1>1
<1> QED
  BY <1>2, PromiseInvariant, PTL DEF Spec, DeletedIsBackedUp

===============================================================================
