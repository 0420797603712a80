--------------------------- MODULE TelemetryProofs ---------------------------
(***************************************************************************)
(* Proofs about Telemetry for any flushers, limits, batch sizes and        *)
(* budgets: types, and that both buffers implement the safety part of      *)
(* Ledger, in which an entry is counted once.                              *)
(***************************************************************************)
EXTENDS Telemetry, FiniteSetTheorems, WellFoundedInduction, TLAPS

-------------------------------------------------------------------------------
(* The inductive invariant.                                                *)

\* What a request has saved is in the database.
SavedIsStored == \A q \in wire : q.saved => q.rows \subseteq Rows(q.kind)

\* The table of the events has an entry at most once.
RowsOnce == \A e \in 1..MaxRows : stored["event"][e] \in {0, 1}

\* A row that has left the buffer is stored, or Kept newer ones were written.
MissingIsOld ==
  \A k \in Kinds : \A e \in 1..made[k] : e \in buffer[k] \/ e \in Rows(k) \/ e + Kept <= made[k]

\* What the ledgers depend on.
BuffersInv == BuffersOK /\ SavedIsStored /\ RowsOnce /\ MissingIsOld

TelemetryInv == TypeOK /\ BuffersInv

-------------------------------------------------------------------------------
(* Buffers and batches.                                                    *)

\* A finite set of numbers that is not empty has a largest one.
LEMMA Largest ==
  ASSUME NEW n \in Nat, NEW S \in SUBSET (0..n), S # {}
  PROVE  \E e \in S : \A x \in S : x <= e
<1> DEFINE T == {n - e : e \in S}
<1>1. T \subseteq Nat /\ T # {}
  <2>1. \A e \in S : n - e \in Nat
    OBVIOUS
  <2>2. PICK e \in S : TRUE
    OBVIOUS
  <2>3. n - e \in T
    OBVIOUS
  <2> QED
    BY <2>1, <2>3
<1>2. PICK t \in T : \A u \in T : <<u, t>> \notin OpToRel(<, Nat)
  <2> HIDE DEF T
  <2> QED
    BY <1>1, NatLessThanWellFounded, WFMin
<1>3. PICK e \in S : t = n - e
  BY DEF T
<1>4. ASSUME NEW x \in S PROVE x <= e
  <2>1. n - x \in T /\ n - x \in Nat /\ t \in Nat
    BY <1>1
  <2>2. ~(n - x < t)
    BY <1>2, <2>1 DEF OpToRel
  <2> QED
    BY <1>3, <2>1, <2>2
<1> QED
  BY <1>4

\* The rows newer than one of 1..n are finitely many, at most n - e.
LEMMA Newer ==
  ASSUME NEW n \in Nat, NEW S \in SUBSET (1..n), NEW e \in 1..n
  PROVE  LET N == {x \in S : x > e} IN
         /\ IsFiniteSet(N) /\ Cardinality(N) \in Nat
         /\ Cardinality(N) <= n - e
<1> DEFINE N == {x \in S : x > e}
<1>1. N \in SUBSET (e + 1..n)
  <2>1. \A x \in S : x > e => x \in e + 1..n
    OBVIOUS
  <2> QED
    BY <2>1
<1>2. IsFiniteSet(e + 1..n) /\ Cardinality(e + 1..n) = n - e
  BY FS_Interval
<1>3. IsFiniteSet(N) /\ Cardinality(N) <= Cardinality(e + 1..n)
  BY <1>1, <1>2, FS_Subset
<1>4. Cardinality(N) \in Nat
  BY <1>3, FS_CardinalityType
<1> QED
  BY <1>2, <1>3, <1>4

\* The ring drops only rows with Kept newer ones, and never the newest.
LEMMA RingKeeps ==
  ASSUME NEW n \in Nat, NEW S \in SUBSET (1..n)
  PROVE  /\ Newest(S) \subseteq S
         /\ \A e \in S : e \in Newest(S) \/ e + Kept <= n
         /\ n \in S => n \in Newest(S)
<1> USE TelemetryAssumption
<1>1. ASSUME NEW e \in S, e \notin Newest(S) PROVE e + Kept <= n
  <2>1. ~(Cardinality({x \in S : x > e}) < Kept)
    BY <1>1 DEF Newest
  <2>2. e \in 1..n
    OBVIOUS
  <2>3. /\ Cardinality({x \in S : x > e}) \in Nat
        /\ Cardinality({x \in S : x > e}) <= n - e
    BY <2>2, Newer, Zenon
  <2> QED
    BY <2>1, <2>2, <2>3
<1>2. ASSUME n \in S PROVE n \in Newest(S)
  <2>1. {x \in S : x > n} = {}
    <3>1. \A x \in S : ~(x > n)
      OBVIOUS
    <3> QED
      BY <3>1
  <2> QED
    BY <1>2, <2>1, FS_EmptySet DEF Newest
<1> QED
  BY <1>1, <1>2 DEF Newest

\* What a buffered row does to its buffer.
LEMMA InsertKeeps ==
  ASSUME BuffersOK, NEW k \in Kinds, Insert(k)
  PROVE  /\ made' \in [Kinds -> Nat] /\ buffer' \in [Kinds -> SUBSET Nat]
         /\ made'[k] = made[k] + 1 /\ made[k] + 1 <= MaxRows
         /\ \A j \in Kinds : j # k => made'[j] = made[j] /\ buffer'[j] = buffer[j]
         /\ \A j \in Kinds : made[j] <= made'[j] /\ buffer'[j] \subseteq 1..made'[j]
         /\ made[k] + 1 \in buffer'[k]
         /\ buffer'[k] \subseteq buffer[k] \cup {made[k] + 1}
         /\ \A e \in buffer[k] : e \in buffer'[k] \/ e + Kept <= made[k] + 1
<1> DEFINE n == made[k] + 1
           S == buffer[k] \cup {n}
<1>1. n \in Nat /\ S \in SUBSET (1..n)
  BY DEF BuffersOK
<1>2. buffer'[k] = Newest(S) /\ made'[k] = n
  BY DEF Insert, BuffersOK
<1>3. /\ Newest(S) \subseteq S
      /\ \A e \in S : e \in Newest(S) \/ e + Kept <= n
      /\ n \in S => n \in Newest(S)
  <2> HIDE DEF n, S
  <2> QED
    BY <1>1, RingKeeps
<1>4. /\ made' = [made EXCEPT ![k] = n]
      /\ buffer' = [buffer EXCEPT ![k] = Newest(S)]
  BY DEF Insert
<1>5. Newest(S) \subseteq 1..n /\ n \in Newest(S) /\ Newest(S) \subseteq buffer[k] \cup {n}
  BY <1>1, <1>3
<1>6. /\ made' \in [Kinds -> Nat]
      /\ \A j \in Kinds : j # k => made'[j] = made[j]
      /\ \A j \in Kinds : made[j] <= made'[j]
  BY <1>1, <1>4 DEF BuffersOK
<1>7. /\ buffer' \in [Kinds -> SUBSET Nat]
      /\ \A j \in Kinds : j # k => buffer'[j] = buffer[j]
  <2> HIDE DEF S
  <2> QED
    BY <1>1, <1>4, <1>5 DEF BuffersOK
<1>8. \A j \in Kinds : buffer'[j] \subseteq 1..made'[j]
  <2>1. ASSUME NEW j \in Kinds, j # k PROVE buffer'[j] \subseteq 1..made'[j]
    BY <2>1, <1>6, <1>7 DEF BuffersOK
  <2> QED
    BY <2>1, <1>2, <1>5
<1>9. made[k] + 1 <= MaxRows
  BY TelemetryAssumption DEF Insert, BuffersOK
<1> HIDE DEF S
<1> QED
  BY <1>2, <1>3, <1>5, <1>6, <1>7, <1>8, <1>9, <1>1 DEF S

-------------------------------------------------------------------------------
(* What a step may do to the ledger of a buffer.                           *)

Written(k) ==
  /\ made'[k] = made[k] + 1
  /\ Rows(k)' = Rows(k)
  /\ made[k] + 1 \in OnTheWay(k)'
  /\ OnTheWay(k)' \subseteq OnTheWay(k) \cup {made[k] + 1}
  /\ \A e \in OnTheWay(k) : e \in OnTheWay(k)' \/ e + Kept <= made[k] + 1

Counted(k) ==
  /\ made'[k] = made[k]
  /\ OnTheWay(k)' \subseteq OnTheWay(k)
  /\ Rows(k)' = Rows(k) \cup (OnTheWay(k) \ OnTheWay(k)')

Dropped(k) ==
  /\ made'[k] = made[k]
  /\ Rows(k)' = Rows(k)
  /\ OnTheWay(k)' \subseteq OnTheWay(k)
  /\ \A e \in OnTheWay(k) : e \in OnTheWay(k)' \/ e + Kept <= made[k]

LedgerStep(k) == Written(k) \/ Counted(k) \/ Dropped(k)

\* OnTheWay and Rows, element by element.
LEMMA Way ==
  ASSUME NEW k, NEW e
  PROVE  /\ e \in OnTheWay(k) <=>
              /\ e \in buffer[k] \/ \E q \in wire : q.kind = k /\ e \in q.rows
              /\ e \notin Rows(k)
         /\ e \in OnTheWay(k)' <=>
              /\ e \in buffer'[k] \/ \E q \in wire' : q.kind = k /\ e \in q.rows
              /\ e \notin Rows(k)'
BY Zenon DEF OnTheWay

\* The entries stored are those with a row.
LEMMA RowsAre ==
  ASSUME NEW k, NEW e
  PROVE  /\ e \in Rows(k) <=> e \in 1..MaxRows /\ stored[k][e] > 0
         /\ e \in Rows(k)' <=> e \in 1..MaxRows /\ stored'[k][e] > 0
BY Zenon DEF Rows

\* Steps that store nothing keep them.
LEMMA SameRows ==
  ASSUME stored' = stored
  PROVE  \A k : Rows(k)' = Rows(k)
BY DEF Rows

\* What is on the way has been written, and is stored nowhere.
LEMMA WayBounds ==
  ASSUME BuffersOK, NEW k \in Kinds
  PROVE  OnTheWay(k) \subseteq 1..made[k] /\ OnTheWay(k) \cap Rows(k) = {}
<1>1. ASSUME NEW e \in OnTheWay(k) PROVE e \in 1..made[k] /\ e \notin Rows(k)
  BY <1>1, Way DEF BuffersOK
<1> QED
  BY <1>1

\* Flushes, answers, failures, restarts: rows leave a buffer only when they are stored, and
\* requests carry nothing but what was on the way.
LEMMA Shrinks ==
  ASSUME BuffersInv, made' = made, stored' = stored, buffer' \in [Kinds -> SUBSET Nat],
         \A k \in Kinds : /\ buffer'[k] \subseteq buffer[k]
                          /\ \A e \in buffer[k] : e \in buffer'[k] \/ e \in Rows(k),
         wire' \subseteq Requests,
         \A q \in wire' : \A e \in q.rows :
            e \in buffer[q.kind] \/ \E p \in wire : p.kind = q.kind /\ e \in p.rows,
         \A q \in wire' : q.saved => \E p \in wire : p.kind = q.kind /\ p.rows = q.rows /\ p.saved
  PROVE  BuffersInv' /\ \A k \in Kinds : Dropped(k)
<1>1. \A k : Rows(k)' = Rows(k)
  BY SameRows
<1>2. BuffersOK'
  <2>1. \A q \in wire' : q.rows \subseteq 1..made[q.kind]
    BY DEF BuffersInv, BuffersOK, Requests
  <2>2. \A k \in Kinds : buffer'[k] \subseteq 1..made[k]
    BY DEF BuffersInv, BuffersOK
  <2> QED
    BY <1>1, <2>1, <2>2 DEF BuffersInv, BuffersOK
<1>3. SavedIsStored'
  BY <1>1 DEF BuffersInv, SavedIsStored
<1>4. RowsOnce'
  BY DEF BuffersInv, RowsOnce
<1>5. MissingIsOld'
  BY <1>1 DEF BuffersInv, MissingIsOld
<1>6. ASSUME NEW k \in Kinds PROVE Dropped(k)
  <2>1. ASSUME NEW e \in OnTheWay(k)' PROVE e \in OnTheWay(k)
    <3>1. e \notin Rows(k)
      BY <2>1, <1>1, Way
    <3>2. CASE e \in buffer'[k]
      BY <3>1, <3>2, Way
    <3>3. CASE \E q \in wire' : q.kind = k /\ e \in q.rows
      BY <3>1, <3>3, Way
    <3> QED
      BY <2>1, <3>2, <3>3, Way
  <2>2. ASSUME NEW e \in OnTheWay(k), e \notin OnTheWay(k)' PROVE e + Kept <= made[k]
    <3>1. e \in 1..made[k] /\ e \notin Rows(k)
      BY WayBounds DEF BuffersInv
    <3>2. e \notin buffer'[k]
      BY <2>2, <3>1, <1>1, Way
    <3>3. e \notin buffer[k]
      BY <3>1, <3>2
    <3> QED
      BY <3>1, <3>3 DEF BuffersInv, MissingIsOld
  <2> QED
    BY <2>1, <2>2, <1>1 DEF Dropped
<1> QED
  BY <1>2, <1>3, <1>4, <1>5, <1>6 DEF BuffersInv

\* Nothing happens to buffers, requests and stored rows.
LEMMA Still ==
  ASSUME BuffersInv, UNCHANGED <<made, buffer, wire, stored>>
  PROVE  BuffersInv' /\ \A k \in Kinds : Dropped(k)
<1>1. /\ made' = made /\ buffer' = buffer /\ stored' = stored /\ wire' = wire
      /\ buffer \in [Kinds -> SUBSET Nat] /\ wire \subseteq Requests
  BY DEF BuffersInv, BuffersOK
<1> QED
  BY <1>1, Shrinks

\* A row is written.
LEMMA Writes ==
  ASSUME BuffersInv, NEW k \in Kinds, Insert(k), UNCHANGED <<wire, stored>>
  PROVE  BuffersInv' /\ \A j \in Kinds : LedgerStep(j)
<1>1. /\ made' \in [Kinds -> Nat] /\ buffer' \in [Kinds -> SUBSET Nat]
      /\ made'[k] = made[k] + 1 /\ made[k] + 1 <= MaxRows
      /\ \A j \in Kinds : j # k => made'[j] = made[j] /\ buffer'[j] = buffer[j]
      /\ \A j \in Kinds : made[j] <= made'[j] /\ buffer'[j] \subseteq 1..made'[j]
      /\ made[k] + 1 \in buffer'[k]
      /\ buffer'[k] \subseteq buffer[k] \cup {made[k] + 1}
      /\ \A e \in buffer[k] : e \in buffer'[k] \/ e + Kept <= made[k] + 1
  BY InsertKeeps DEF BuffersInv
<1>2. \A j : Rows(j)' = Rows(j)
  BY SameRows
<1>3. \A j \in Kinds : made[j] \in Nat /\ made'[j] \in Nat /\ Rows(j) \subseteq 1..made[j]
  BY <1>1 DEF BuffersInv, BuffersOK
<1>4. BuffersOK'
  <2>1. \A j \in Kinds : 1..made[j] \subseteq 1..made'[j]
    BY <1>1, <1>3
  <2>2. \A q \in wire' : q.rows \subseteq 1..made'[q.kind]
    BY <2>1 DEF BuffersInv, BuffersOK, Requests
  <2> QED
    BY <1>1, <1>2, <1>3, <2>1, <2>2 DEF BuffersInv, BuffersOK
<1>5. SavedIsStored' /\ RowsOnce'
  BY <1>2 DEF BuffersInv, SavedIsStored, RowsOnce
<1>6. MissingIsOld'
  <2> SUFFICES ASSUME NEW j \in Kinds, NEW e \in 1..made'[j], e \notin buffer'[j], e \notin Rows(j)
               PROVE  e + Kept <= made'[j]
    BY <1>2 DEF MissingIsOld
  <2>1. CASE j # k
    BY <2>1, <1>1 DEF BuffersInv, MissingIsOld
  <2>2. CASE j = k
    <3>1. e # made[k] + 1
      BY <2>2, <1>1
    <3>2. e \in 1..made[k]
      BY <2>2, <3>1, <1>1, <1>3
    <3>3. CASE e \in buffer[k]
      BY <2>2, <3>3, <1>1
    <3>4. CASE e \notin buffer[k]
      <4>1. e + Kept <= made[k]
        BY <2>2, <3>2, <3>4 DEF BuffersInv, MissingIsOld
      <4> QED
        BY <2>2, <4>1, <1>1, <1>3, TelemetryAssumption
    <3> QED
      BY <3>3, <3>4
  <2> QED
    BY <2>1, <2>2
<1>7. Written(k)
  <2>1. made[k] + 1 \in OnTheWay(k)'
    BY <1>1, <1>2, <1>3, Way
  <2>2. ASSUME NEW e \in OnTheWay(k)' PROVE e \in OnTheWay(k) \cup {made[k] + 1}
    <3>1. e \notin Rows(k)
      BY <2>2, <1>2, Way
    <3>2. CASE e \in buffer'[k]
      BY <3>1, <3>2, <1>1, Way
    <3>3. CASE \E q \in wire' : q.kind = k /\ e \in q.rows
      BY <3>1, <3>3, Way
    <3> QED
      BY <2>2, <3>2, <3>3, Way
  <2>3. ASSUME NEW e \in OnTheWay(k), e \notin OnTheWay(k)' PROVE e + Kept <= made[k] + 1
    <3>1. e \notin Rows(k)
      BY WayBounds DEF BuffersInv
    <3>2. e \notin buffer'[k]
      BY <2>3, <3>1, <1>2, Way
    <3>3. ~\E q \in wire' : q.kind = k /\ e \in q.rows
      BY <2>3, <3>1, <1>2, Way
    <3>4. e \in buffer[k]
      BY <2>3, <3>3, Way
    <3> QED
      BY <3>2, <3>4, <1>1
  <2> QED
    BY <2>1, <2>2, <2>3, <1>1, <1>2 DEF Written
<1>8. ASSUME NEW j \in Kinds, j # k PROVE Dropped(j)
  <2>1. \A e : e \in OnTheWay(j)' <=> e \in OnTheWay(j)
    BY <1>8, <1>1, <1>2, Way
  <2> QED
    BY <2>1, <1>1, <1>2, <1>8 DEF Dropped
<1> QED
  BY <1>4, <1>5, <1>6, <1>7, <1>8 DEF BuffersInv, LedgerStep

\* The batch of a request.
LEMMA Batches ==
  ASSUME NEW S
  PROVE  Oldest(S) \subseteq S
BY DEF Oldest

\* The next request of a run carries rows of its buffer, and saves none.
LEMMA SendsRows ==
  ASSUME NEW k \in Kinds, NEW f \in Flushers, NEW others, others \subseteq Requests,
         buffer' \in [Kinds -> SUBSET Nat],
         Post(k, f, others) \/ SendEvents(f, others)
  PROVE  /\ wire' \subseteq Requests
         /\ \A q \in wire' : q \in others \/ (q.rows \subseteq buffer'[q.kind] /\ ~q.saved)
<1>1. ASSUME NEW j \in Kinds, Post(j, f, others)
      PROVE  /\ wire' \subseteq Requests
             /\ \A q \in wire' : q \in others \/ (q.rows \subseteq buffer'[q.kind] /\ ~q.saved)
  <2> DEFINE new == [kind |-> j, rows |-> Oldest(buffer'[j]), by |-> f, awaited |-> TRUE, saved |-> FALSE]
  <2>1. wire' = others \cup {new}
    BY <1>1 DEF Post
  <2>2. Oldest(buffer'[j]) \subseteq buffer'[j] /\ buffer'[j] \subseteq Nat
    BY Batches
  <2>3. new \in Requests /\ new.rows \subseteq buffer'[new.kind] /\ ~new.saved
    BY <2>2 DEF Requests
  <2> QED
    BY <2>1, <2>3
<1>2. CASE SendEvents(f, others)
  <2>1. wire' = others \/ Post("event", f, others)
    BY <1>2 DEF SendEvents
  <2> QED
    BY <2>1, <1>1 DEF Kinds
<1> QED
  BY <1>1, <1>2

\* A flush reads rows of the buffer and removes none,
LEMMA StartFlushStep ==
  ASSUME BuffersInv, NEW f \in Flushers, StartFlush(f)
  PROVE  BuffersInv' /\ \A k \in Kinds : LedgerStep(k)
<1>1. made' = made /\ stored' = stored /\ buffer' = buffer
  BY DEF StartFlush
<1>2. wire \subseteq Requests /\ buffer \in [Kinds -> SUBSET Nat]
  BY DEF BuffersInv, BuffersOK
<1>3. Post("log", f, wire) \/ SendEvents(f, wire)
  BY DEF StartFlush
<1>4. /\ wire' \subseteq Requests
      /\ \A q \in wire' : q \in wire \/ (q.rows \subseteq buffer'[q.kind] /\ ~q.saved)
  BY <1>1, <1>2, <1>3, SendsRows DEF Kinds
<1>5. BuffersInv' /\ \A k \in Kinds : Dropped(k)
  BY <1>1, <1>2, <1>4, Shrinks
<1> QED
  BY <1>5 DEF LedgerStep

\* a request that fails leaves them there,
LEMMA RequestFailsStep ==
  ASSUME BuffersInv, NEW q \in wire, RequestFails(q)
  PROVE  BuffersInv' /\ \A k \in Kinds : LedgerStep(k)
<1> DEFINE given == [q EXCEPT !.awaited = FALSE]
<1>1. made' = made /\ stored' = stored /\ buffer' = buffer
  BY DEF RequestFails, bufferVars
<1>2. wire \subseteq Requests /\ buffer \in [Kinds -> SUBSET Nat] /\ q \in Requests
  BY DEF BuffersInv, BuffersOK
<1>3. /\ given \in Requests /\ given.kind = q.kind
      /\ given.rows = q.rows /\ given.saved = q.saved
  BY <1>2 DEF Requests
<1>4. wire' \subseteq wire \cup {given}
  BY DEF RequestFails
<1> HIDE DEF given
<1>5. wire' \subseteq Requests
  BY <1>2, <1>3, <1>4
<1>6. \A p \in wire' : \E o \in wire : o.kind = p.kind /\ o.rows = p.rows /\ o.saved = p.saved
  BY <1>3, <1>4
<1>7. BuffersInv' /\ \A k \in Kinds : Dropped(k)
  <2>1. \A p \in wire' : \A e \in p.rows : \E o \in wire : o.kind = p.kind /\ e \in o.rows
    BY <1>6
  <2>2. \A p \in wire' : p.saved => \E o \in wire : o.kind = p.kind /\ o.rows = p.rows /\ o.saved
    BY <1>6
  <2> QED
    BY <1>1, <1>2, <1>5, <2>1, <2>2, Shrinks
<1> QED
  BY <1>7 DEF LedgerStep

\* and a crash forgets the flush, not the rows.
LEMMA CrashStep ==
  ASSUME BuffersInv, CrashAgent
  PROVE  BuffersInv' /\ \A k \in Kinds : LedgerStep(k)
<1>1. made' = made /\ stored' = stored /\ buffer' = buffer
  BY DEF CrashAgent, bufferVars
<1>2. wire \subseteq Requests /\ buffer \in [Kinds -> SUBSET Nat]
  BY DEF BuffersInv, BuffersOK
<1>3. wire' = {[q EXCEPT !.awaited = FALSE] : q \in wire}
  BY DEF CrashAgent
<1>4. \A p \in wire' : /\ p \in Requests
                       /\ \E o \in wire : o.kind = p.kind /\ o.rows = p.rows /\ o.saved = p.saved
  <2>1. ASSUME NEW q \in wire
        PROVE  LET p == [q EXCEPT !.awaited = FALSE] IN
               p \in Requests /\ q.kind = p.kind /\ q.rows = p.rows /\ q.saved = p.saved
    BY <1>2 DEF Requests
  <2> QED
    BY <1>3, <2>1
<1>5. \A p \in wire' : \A e \in p.rows : \E o \in wire : o.kind = p.kind /\ e \in o.rows
  BY <1>4
<1>6. \A p \in wire' : p.saved => \E o \in wire : o.kind = p.kind /\ o.rows = p.rows /\ o.saved
  BY <1>4
<1>7. wire' \subseteq Requests
  BY <1>4
<1>8. BuffersInv' /\ \A k \in Kinds : Dropped(k)
  BY <1>1, <1>2, <1>5, <1>6, <1>7, Shrinks
<1> QED
  BY <1>8 DEF LedgerStep

\* The rows an answer deletes were saved with its request.
LEMMA FinishStep ==
  ASSUME BuffersInv, NEW q \in wire, FinishRequest(q)
  PROVE  BuffersInv' /\ \A k \in Kinds : LedgerStep(k)
<1>1. made' = made /\ stored' = stored /\ q.saved
  BY DEF FinishRequest
<1>2. wire \subseteq Requests /\ buffer \in [Kinds -> SUBSET Nat] /\ q \in Requests
  BY DEF BuffersInv, BuffersOK
<1>3. q.kind \in Kinds /\ q.by \in Flushers /\ q.rows \subseteq Rows(q.kind)
  BY <1>1, <1>2 DEF Requests, BuffersInv, SavedIsStored
<1>4. CASE Unheard(q)
  <2>1. wire' \subseteq wire /\ buffer' = buffer
    BY <1>4 DEF Unheard
  <2>2. BuffersInv' /\ \A k \in Kinds : Dropped(k)
    BY <1>1, <1>2, <2>1, Shrinks
  <2> QED
    BY <2>2 DEF LedgerStep
<1>5. CASE Answered(q)
  <2>1. buffer' = [buffer EXCEPT ![q.kind] = @ \ q.rows]
    BY <1>5 DEF Answered
  <2>2. buffer' \in [Kinds -> SUBSET Nat]
    BY <2>1, <1>2, <1>3
  <2>3. \A k \in Kinds : /\ buffer'[k] \subseteq buffer[k]
                         /\ \A e \in buffer[k] : e \in buffer'[k] \/ e \in Rows(k)
    BY <2>1, <1>2, <1>3
  <2>4. wire' \subseteq wire \/ SendEvents(q.by, wire \ {q})
    BY <1>5 DEF Answered
  <2>5. /\ wire' \subseteq Requests
        /\ \A p \in wire' : p \in wire \/ (p.rows \subseteq buffer'[p.kind] /\ ~p.saved)
    <3>1. CASE wire' \subseteq wire
      BY <3>1, <1>2
    <3>2. CASE SendEvents(q.by, wire \ {q})
      <4>1. /\ wire' \subseteq Requests
            /\ \A p \in wire' : p \in wire \ {q} \/ (p.rows \subseteq buffer'[p.kind] /\ ~p.saved)
        BY <3>2, <1>2, <1>3, <2>2, SendsRows
      <4> QED
        BY <4>1
    <3> QED
      BY <2>4, <3>1, <3>2
  <2>6. \A p \in wire' : \A e \in p.rows :
           e \in buffer[p.kind] \/ \E o \in wire : o.kind = p.kind /\ e \in o.rows
    BY <2>3, <2>5 DEF Requests
  <2>7. BuffersInv' /\ \A k \in Kinds : Dropped(k)
    BY <1>1, <2>2, <2>3, <2>5, <2>6, Shrinks
  <2> QED
    BY <2>7 DEF LedgerStep
<1> QED
  BY <1>4, <1>5 DEF FinishRequest

\* The server stores what it did not have yet.
LEMMA StoreStep ==
  ASSUME BuffersInv, NEW q \in wire, StoreRows(q)
  PROVE  BuffersInv' /\ \A k \in Kinds : LedgerStep(k)
<1> DEFINE kept == [q EXCEPT !.saved = TRUE]
           counts == stored[q.kind]
           new == [e \in 1..MaxRows |->
                     IF e \in q.rows /\ ~Duplicate(q, e) THEN counts[e] + 1 ELSE counts[e]]
<1>1. made' = made /\ buffer' = buffer
  BY DEF StoreRows, bufferVars
<1>2. /\ wire \subseteq Requests /\ buffer \in [Kinds -> SUBSET Nat] /\ q \in Requests
      /\ stored \in [Kinds -> [1..MaxRows -> Nat]] /\ made \in [Kinds -> Nat]
  BY DEF BuffersInv, BuffersOK
<1>3. /\ kept \in Requests /\ kept.kind = q.kind /\ kept.rows = q.rows
      /\ q.kind \in Kinds /\ q.rows \subseteq 1..MaxRows
  <2>1. kept \in Requests /\ kept.kind = q.kind /\ kept.rows = q.rows /\ q.kind \in Kinds
    BY <1>2 DEF Requests
  <2>2. /\ q.rows \subseteq 1..made[q.kind] /\ made[q.kind] <= MaxRows
        /\ made[q.kind] \in Nat /\ MaxRows \in Nat
    BY <1>2, <2>1, TelemetryAssumption DEF BuffersInv, BuffersOK
  <2> QED
    BY <2>1, <2>2
<1>4. wire' = (wire \ {q}) \cup {kept} /\ stored' = [stored EXCEPT ![q.kind] = new]
  BY DEF StoreRows
<1>5. counts \in [1..MaxRows -> Nat] /\ new \in [1..MaxRows -> Nat]
  <2>1. counts \in [1..MaxRows -> Nat]
    BY <1>2, <1>3
  <2> HIDE DEF counts
  <2>2. \A e \in 1..MaxRows : counts[e] + 1 \in Nat /\ counts[e] \in Nat
    BY <2>1
  <2> QED
    BY <2>1, <2>2
<1>6. /\ stored' \in [Kinds -> [1..MaxRows -> Nat]]
      /\ stored'[q.kind] = new
      /\ \A k \in Kinds : k # q.kind => stored'[k] = stored[k]
  <2> HIDE DEF new
  <2> QED
    BY <1>2, <1>3, <1>4, <1>5
<1>7. \A k \in Kinds : k # q.kind => Rows(k)' = Rows(k)
  BY <1>6 DEF Rows
<1>8. Rows(q.kind)' = Rows(q.kind) \cup q.rows
  <2>1. ASSUME NEW e \in 1..MaxRows PROVE new[e] > 0 <=> counts[e] > 0 \/ e \in q.rows
    <3>1. new[e] = IF e \in q.rows /\ ~Duplicate(q, e) THEN counts[e] + 1 ELSE counts[e]
      OBVIOUS
    <3>2. Duplicate(q, e) => counts[e] > 0
      BY DEF Duplicate
    <3>3. counts[e] \in Nat
      BY <1>5
    <3> HIDE DEF counts, new
    <3> QED
      BY <3>1, <3>2, <3>3
  <2>2. \A e : e \in Rows(q.kind)' <=> e \in Rows(q.kind) \/ e \in q.rows
    BY <2>1, <1>3, <1>6, RowsAre
  <2> QED
    BY <2>2
<1>9. RowsOnce'
  <2> SUFFICES ASSUME NEW e \in 1..MaxRows PROVE stored'["event"][e] \in {0, 1}
    BY DEF RowsOnce
  <2>1. stored["event"][e] \in {0, 1}
    BY DEF BuffersInv, RowsOnce
  <2>2. CASE q.kind = "event"
    <3>1. new[e] = IF e \in q.rows /\ ~Duplicate(q, e) THEN counts[e] + 1 ELSE counts[e]
      OBVIOUS
    <3>2. Duplicate(q, e) <=> counts[e] > 0
      BY <2>2 DEF Duplicate
    <3>3. counts[e] \in {0, 1} /\ stored'["event"][e] = new[e]
      BY <2>1, <2>2, <1>6
    <3> HIDE DEF counts, new
    <3> QED
      BY <3>1, <3>2, <3>3
  <2>3. CASE q.kind # "event"
    BY <2>1, <2>3, <1>6 DEF Kinds
  <2> QED
    BY <2>2, <2>3
<1> HIDE DEF kept, new, counts
<1>10. BuffersOK'
  <2>1. wire' \subseteq Requests
    BY <1>2, <1>3, <1>4
  <2>2. \A p \in wire' : p.rows \subseteq 1..made[p.kind]
    BY <1>3, <1>4 DEF BuffersInv, BuffersOK
  <2>3. \A k \in Kinds : Rows(k)' \subseteq 1..made[k]
    BY <1>7, <1>8 DEF BuffersInv, BuffersOK
  <2> QED
    BY <1>1, <1>6, <2>1, <2>2, <2>3 DEF BuffersInv, BuffersOK
<1>11. SavedIsStored'
  <2> SUFFICES ASSUME NEW p \in wire', p.saved PROVE p.rows \subseteq Rows(p.kind)'
    BY DEF SavedIsStored
  <2>1. CASE p = kept
    BY <2>1, <1>3, <1>8
  <2>2. CASE p \in wire
    <3>1. p.rows \subseteq Rows(p.kind) /\ p.kind \in Kinds
      BY <2>2, <1>2 DEF BuffersInv, SavedIsStored, Requests
    <3> QED
      BY <3>1, <1>7, <1>8
  <2> QED
    BY <2>1, <2>2, <1>4
<1>12. \A k \in Kinds : Rows(k) \subseteq Rows(k)'
  BY <1>7, <1>8
<1>13. MissingIsOld'
  BY <1>1, <1>12 DEF BuffersInv, MissingIsOld
<1>14. \A e, k : (\E p \in wire' : p.kind = k /\ e \in p.rows) <=>
                 \E p \in wire : p.kind = k /\ e \in p.rows
  BY <1>3, <1>4
<1>15. Counted(q.kind)
  <2>1. ASSUME NEW e \in OnTheWay(q.kind)' PROVE e \in OnTheWay(q.kind)
    BY <2>1, <1>1, <1>8, <1>14, Way
  <2>2. ASSUME NEW e \in q.rows, e \notin Rows(q.kind)
        PROVE  e \in OnTheWay(q.kind) /\ e \notin OnTheWay(q.kind)'
    BY <2>2, <1>8, Way
  <2>3. ASSUME NEW e \in OnTheWay(q.kind), e \notin OnTheWay(q.kind)' PROVE e \in q.rows
    BY <2>3, <1>1, <1>8, <1>14, Way
  <2>4. Rows(q.kind)' = Rows(q.kind) \cup (OnTheWay(q.kind) \ OnTheWay(q.kind)')
    BY <1>8, <2>2, <2>3
  <2> QED
    BY <1>1, <2>1, <2>4 DEF Counted
<1>16. ASSUME NEW k \in Kinds, k # q.kind PROVE Dropped(k)
  <2>1. \A e : e \in OnTheWay(k)' <=> e \in OnTheWay(k)
    BY <1>16, <1>1, <1>7, <1>14, Way
  <2> QED
    BY <2>1, <1>1, <1>7, <1>16 DEF Dropped
<1> QED
  BY <1>10, <1>11, <1>9, <1>13, <1>15, <1>16 DEF BuffersInv, LedgerStep

\* Every step keeps BuffersInv, and is a step of both ledgers or leaves them alone.
LEMMA BuffersStep ==
  ASSUME BuffersInv, Next
  PROVE  BuffersInv' /\ \A k \in Kinds : LedgerStep(k)
<1>1. CASE Write
  <2>1. \E k \in Kinds : Insert(k) /\ UNCHANGED <<wire, stored>>
    BY <1>1 DEF Write, LogLine, ItemStarts, ItemEnds, WriteLine, Kinds
  <2> QED
    BY <2>1, Writes
<1>2. CASE Send
  BY <1>2, StartFlushStep, RequestFailsStep DEF Send
<1>3. CASE Serve
  BY <1>3, StoreStep, FinishStep DEF Serve
<1>4. CASE Beat
  <2>1. UNCHANGED <<made, buffer, wire, stored>>
    BY <1>4 DEF Beat, Heartbeat, DelayBeat, ApplyBeat, LoseBeat, bufferVars
  <2> QED
    BY <2>1, Still DEF LedgerStep
<1>5. CASE Watch /\ ~LivenessChanges
  <2>1. UNCHANGED <<made, buffer, wire, stored>>
    BY <1>5 DEF Watch, PageDies, PageRestarts, SocketBreaks, PageConnects, Progress, TimePasses,
                SyncStarts, SyncEnds, LivenessIdle, bufferVars
  <2> QED
    BY <2>1, Still DEF LedgerStep
<1>6. CASE LivenessChanges
  <2>1. Insert("log") /\ UNCHANGED <<wire, stored>>
    BY <1>6 DEF LivenessChanges, WriteLine
  <2> QED
    BY <2>1, Writes DEF Kinds
<1>7. CASE CrashAgent
  BY <1>7, CrashStep
<1> QED
  BY <1>1, <1>2, <1>3, <1>4, <1>5, <1>6, <1>7 DEF Next

\* The buffers are empty at first.
LEMMA InitBuffers ==
  ASSUME Init
  PROVE  BuffersInv /\ \A k \in Kinds : made[k] = 0 /\ OnTheWay(k) = {} /\ Rows(k) = {}
<1>1. \A k \in Kinds : /\ made[k] = 0 /\ buffer[k] = {} /\ wire = {}
                       /\ \A e \in 1..MaxRows : stored[k][e] = 0
  BY DEF Init
<1>2. ASSUME NEW k \in Kinds PROVE Rows(k) = {} /\ OnTheWay(k) = {}
  <2>1. \A e : e \notin Rows(k)
    BY <1>1, RowsAre
  <2>2. \A e : e \notin OnTheWay(k)
    BY <1>1, Way
  <2> QED
    BY <2>1, <2>2
<1>3. BuffersOK
  BY <1>1, <1>2, TelemetryAssumption DEF Init, BuffersOK
<1>4. SavedIsStored /\ RowsOnce /\ MissingIsOld
  <2>1. \A k \in Kinds : 1..made[k] = {}
    BY <1>1
  <2>2. wire = {}
    BY DEF Init
  <2>3. MissingIsOld
    BY <2>1 DEF MissingIsOld
  <2> QED
    BY <1>1, <2>2, <2>3 DEF SavedIsStored, RowsOnce, Kinds
<1> QED
  BY <1>1, <1>2, <1>3, <1>4 DEF BuffersInv

\* The part of the invariant the ledgers depend on holds in every reachable state.
THEOREM BuffersInvariant == Spec => []BuffersInv
<1>1. BuffersInv /\ [Next]_vars => BuffersInv'
  <2> SUFFICES ASSUME BuffersInv, [Next]_vars PROVE BuffersInv'
    OBVIOUS
  <2>1. CASE UNCHANGED vars
    BY <2>1, Still DEF vars, bufferVars
  <2> QED
    BY <2>1, BuffersStep
<1> QED
  BY InitBuffers, <1>1, PTL DEF Spec

-------------------------------------------------------------------------------
(* The other variables' types.                                             *)

\* An event of the environment leaves a budget.
LEMMA SpendType ==
  ASSUME TypeOK, NEW kind \in Events, Spend(kind)
  PROVE  left' \in [Events -> Nat]
BY DEF TypeOK, Spend

\* A line that is written says one of the things lines say.
LEMMA LineType ==
  ASSUME TypeOK, NEW text \in Lines, WriteLine(text)
  PROVE  /\ \A n \in 1..made'["log"] : line'[n] \in Lines
         /\ starts' = starts /\ made'["event"] = made["event"]
<1>1. /\ made'["log"] = made["log"] + 1 /\ made'["event"] = made["event"]
      /\ made["log"] \in Nat
  BY InsertKeeps DEF WriteLine, TypeOK, BuffersOK, Kinds
<1>2. line' = [n \in 1..made'["log"] |-> IF n = made'["log"] THEN text ELSE line[n]]
  BY DEF WriteLine
<1>3. ASSUME NEW n \in 1..made'["log"] PROVE line'[n] \in Lines
  <2>1. CASE n = made'["log"]
    BY <2>1, <1>2
  <2>2. CASE n # made'["log"]
    <3>1. n \in 1..made["log"]
      BY <2>2, <1>1
    <3> QED
      BY <2>2, <3>1, <1>2 DEF TypeOK
  <2> QED
    BY <2>1, <2>2
<1> QED
  BY <1>1, <1>3 DEF WriteLine

\* The item shown is a start of the batch, or the one shown before.
LEMMA LatestType ==
  ASSUME TypeOK, NEW q \in wire, ShowLatest(q)
  PROVE  shown' \in 0..made["event"]
<1> DEFINE batch == IF q.kind = "event" THEN q.rows \cap starts ELSE {}
<1>1. shown' = IF batch = {} THEN shown ELSE CHOOSE e \in batch : \A x \in batch : x <= e
  BY DEF ShowLatest
<1>2. batch \in SUBSET (0..made["event"]) /\ made["event"] \in Nat /\ shown \in 0..made["event"]
  BY DEF TypeOK, BuffersOK, Kinds
<1> HIDE DEF batch
<1>3. CASE batch # {}
  BY <1>1, <1>2, <1>3, Largest
<1> QED
  BY <1>1, <1>2, <1>3

\* Every step keeps the types.
LEMMA TypeStep ==
  ASSUME TypeOK, BuffersOK', [Next]_vars
  PROVE  TypeOK'
<1>1. made' \in [Kinds -> Nat] /\ made \in [Kinds -> Nat] /\ left \in [Events -> Nat]
  BY DEF TypeOK, BuffersOK
<1>2. CASE LogLine
  <2>1. /\ \A n \in 1..made'["log"] : line'[n] \in Lines
        /\ starts' = starts /\ made'["event"] = made["event"]
    BY <1>2, LineType DEF LogLine, Lines
  <2>2. left' \in [Events -> Nat]
    BY <1>2, SpendType DEF LogLine, Events
  <2> QED
    BY <1>2, <2>1, <2>2 DEF LogLine, TypeOK, shownVars, watchVars
<1>3. CASE LivenessChanges
  <2>1. /\ \A n \in 1..made'["log"] : line'[n] \in Lines
        /\ starts' = starts /\ made'["event"] = made["event"]
    BY <1>3, LineType DEF LivenessChanges, Lines, Verdict, None
  <2>2. problem' \in Problems \cup {None}
    BY <1>3 DEF LivenessChanges, Verdict, Problems, None
  <2> QED
    BY <1>3, <2>1, <2>2 DEF LivenessChanges, TypeOK, shownVars
<1>4. CASE ItemStarts \/ ItemEnds
  <2>1. /\ made'["event"] = made["event"] + 1 /\ made'["log"] = made["log"]
    BY <1>4, InsertKeeps DEF ItemStarts, ItemEnds, TypeOK, Kinds
  <2>2. left' \in [Events -> Nat]
    BY <1>4, SpendType DEF ItemStarts, ItemEnds, Events
  <2>3. \A n \in 0..made["event"] : n \in 0..made'["event"]
    BY <1>1, <2>1 DEF Kinds
  <2>4. \A n \in 1..made["event"] : n \in 1..made'["event"]
    BY <1>1, <2>1 DEF Kinds
  <2>5. starts' \subseteq 1..made'["event"]
    <3>1. made'["event"] \in 1..made'["event"]
      BY <1>1, <2>1 DEF Kinds
    <3>2. starts' \subseteq starts \cup {made'["event"]}
      BY <1>4 DEF ItemStarts, ItemEnds
    <3>3. starts \subseteq 1..made["event"]
      BY DEF TypeOK
    <3> QED
      BY <2>4, <3>1, <3>2, <3>3
  <2>6. {position', shown'} \cup beats' \subseteq 0..made'["event"]
    BY <1>1, <1>4, <2>1, <2>3 DEF ItemStarts, ItemEnds, TypeOK, Kinds, shownVars
  <2>7. line' = line /\ problem' = problem
    BY <1>4 DEF ItemStarts, ItemEnds, watchVars
  <2> QED
    BY <2>1, <2>2, <2>5, <2>6, <2>7 DEF TypeOK
<1>5. CASE Send
  BY <1>5, SpendType DEF Send, StartFlush, RequestFails, TypeOK, Events, bufferVars, shownVars, watchVars
<1>6. CASE Serve
  <2>1. ASSUME NEW q \in wire, FinishRequest(q) PROVE TypeOK'
    <3>1. shown' \in 0..made["event"]
      BY <2>1, LatestType DEF FinishRequest
    <3> QED
      BY <2>1, <3>1 DEF FinishRequest, TypeOK, watchVars
  <2>2. ASSUME NEW q \in wire, StoreRows(q) PROVE TypeOK'
    BY <2>2 DEF StoreRows, TypeOK, bufferVars, shownVars, watchVars
  <2> QED
    BY <1>6, <2>1, <2>2 DEF Serve
<1>7. CASE Beat
  BY <1>7, SpendType DEF Beat, Heartbeat, DelayBeat, ApplyBeat, LoseBeat, TypeOK, Events, bufferVars, watchVars
<1>8. CASE PageDies \/ PageRestarts \/ SocketBreaks \/ TimePasses \/ SyncStarts
  <2>1. left' \in [Events -> Nat]
    BY <1>1, <1>8, SpendType DEF PageDies, PageRestarts, SocketBreaks, TimePasses, SyncStarts, Events
  <2>2. UNCHANGED <<bufferVars, shownVars, problem>>
    BY <1>8 DEF PageDies, PageRestarts, SocketBreaks, TimePasses, SyncStarts
  <2> QED
    BY <2>1, <2>2 DEF TypeOK, bufferVars, shownVars
<1>9. CASE PageConnects \/ Progress \/ SyncEnds \/ LivenessIdle
  BY <1>9 DEF PageConnects, Progress, SyncEnds, LivenessIdle, TypeOK, bufferVars, shownVars, None
<1>10. CASE CrashAgent
  <2>1. left' \in [Events -> Nat]
    BY <1>10, SpendType DEF CrashAgent, Events
  <2>2. 0 \in 0..made["event"]
    BY <1>1 DEF Kinds
  <2> QED
    BY <1>10, <2>1, <2>2 DEF CrashAgent, TypeOK, bufferVars, None, Nothing
<1>11. CASE UNCHANGED vars
  BY <1>11 DEF vars, bufferVars, shownVars, watchVars, TypeOK
<1> QED
  BY <1>2, <1>3, <1>4, <1>5, <1>6, <1>7, <1>8, <1>9, <1>10, <1>11 DEF Next, Write, Watch

\* Types, and the invariant the ledgers depend on.
THEOREM TelemetryInvariant == Spec => []TelemetryInv
<1>1. Init => TelemetryInv
  <2> SUFFICES ASSUME Init PROVE TelemetryInv
    OBVIOUS
  <2>1. BuffersInv /\ made["event"] = 0 /\ made["log"] = 0
    BY InitBuffers DEF Kinds
  <2>2. 0 \in 0..made["event"] /\ 1..made["log"] = {}
    BY <2>1
  <2> QED
    BY <2>1, <2>2, TelemetryAssumption DEF Init, TelemetryInv, BuffersInv, TypeOK, Nothing
<1>2. TelemetryInv /\ [Next]_vars => TelemetryInv'
  <2> SUFFICES ASSUME TelemetryInv, [Next]_vars PROVE TelemetryInv'
    OBVIOUS
  <2>1. BuffersInv'
    BY BuffersStep, Still DEF TelemetryInv, vars, bufferVars
  <2> QED
    BY <2>1, TypeStep DEF TelemetryInv, BuffersInv
<1> QED
  BY <1>1, <1>2, PTL DEF Spec

-------------------------------------------------------------------------------
(* The refinement.                                                         *)

\* What LedgerStep says, in the terms of Ledger.
LEMMA GivenUpSteps ==
  ASSUME BuffersInv, BuffersInv', NEW k \in Kinds, LedgerStep(k)
  PROVE  \/ /\ made[k]' = made[k] + 1
            /\ \E gone \in SUBSET {e \in OnTheWay(k) : e + Kept <= made[k] + 1} :
                 /\ OnTheWay(k)' = (OnTheWay(k) \cup {made[k] + 1}) \ gone
                 /\ GivenUp(k)' = GivenUp(k) \cup gone
            /\ Rows(k)' = Rows(k)
         \/ \E S \in SUBSET OnTheWay(k) :
              /\ OnTheWay(k)' = OnTheWay(k) \ S
              /\ Rows(k)' = Rows(k) \cup S
              /\ made[k]' = made[k] /\ GivenUp(k)' = GivenUp(k)
         \/ \E S \in SUBSET OnTheWay(k) :
              /\ S \subseteq {e \in OnTheWay(k) : e + Kept <= made[k]}
              /\ OnTheWay(k)' = OnTheWay(k) \ S
              /\ GivenUp(k)' = GivenUp(k) \cup S
              /\ made[k]' = made[k] /\ Rows(k)' = Rows(k)
<1>1. OnTheWay(k) \subseteq 1..made[k] /\ OnTheWay(k) \cap Rows(k) = {}
  BY WayBounds DEF BuffersInv
<1>2. made[k] \in Nat /\ Rows(k) \subseteq 1..made[k] /\ made'[k] = made[k]'
  BY DEF BuffersInv, BuffersOK
<1>3. /\ GivenUp(k) = 1..made[k] \ (Rows(k) \cup OnTheWay(k))
      /\ GivenUp(k)' = 1..made'[k] \ (Rows(k)' \cup OnTheWay(k)')
  BY DEF GivenUp
<1> DEFINE S == OnTheWay(k) \ OnTheWay(k)'
<1>4. CASE Written(k)
  <2>1. S \in SUBSET {e \in OnTheWay(k) : e + Kept <= made[k] + 1}
    BY <1>4 DEF Written
  <2>2. OnTheWay(k)' = (OnTheWay(k) \cup {made[k] + 1}) \ S
    <3>1. made[k] + 1 \notin OnTheWay(k)
      BY <1>1, <1>2
    <3> QED
      BY <3>1, <1>4 DEF Written
  <2>3. GivenUp(k)' = GivenUp(k) \cup S
    <3>1. 1..made'[k] = 1..made[k] \cup {made[k] + 1}
      BY <1>2, <1>4 DEF Written
    <3>2. made[k] + 1 \notin Rows(k) /\ made[k] + 1 \notin 1..made[k] /\ made[k] + 1 \notin S
      BY <1>1, <1>2
    <3> HIDE DEF S
    <3>3. S \subseteq 1..made[k] /\ S \cap Rows(k) = {}
      BY <1>1 DEF S
    <3>4. \A e : e \in GivenUp(k)' <=> e \in GivenUp(k) \cup S
      <4>1. ASSUME NEW e PROVE e \in GivenUp(k)' <=> e \in GivenUp(k) \cup S
        <5>1. e \in GivenUp(k)' <=> /\ e \in 1..made[k] \/ e = made[k] + 1
                                   /\ e \notin Rows(k) /\ e \notin OnTheWay(k)'
          BY <1>3, <1>4, <3>1 DEF Written
        <5>2. e \in OnTheWay(k)' <=> (e \in OnTheWay(k) \/ e = made[k] + 1) /\ e \notin S
          BY <2>2
        <5>3. e \in GivenUp(k) <=> e \in 1..made[k] /\ e \notin Rows(k) /\ e \notin OnTheWay(k)
          BY <1>3
        <5>4. e \in S => e \in OnTheWay(k)
          BY DEF S
        <5> QED
          BY <5>1, <5>2, <5>3, <5>4, <3>2, <3>3
      <4> QED
        BY <4>1
    <3> QED
      BY <3>4
  <2>4. made[k]' = made[k] + 1 /\ Rows(k)' = Rows(k)
    BY <1>2, <1>4 DEF Written
  <2> HIDE DEF S
  <2> QED
    BY <2>1, <2>2, <2>3, <2>4
<1>5. CASE Counted(k)
  <2>1. made[k]' = made[k] /\ Rows(k)' = Rows(k) \cup S /\ OnTheWay(k)' = OnTheWay(k) \ S
    BY <1>2, <1>5 DEF Counted
  <2>2. S \in SUBSET OnTheWay(k)
    OBVIOUS
  <2> HIDE DEF S
  <2>3. GivenUp(k)' = GivenUp(k)
    BY <1>1, <1>2, <1>3, <2>1, <2>2
  <2> QED
    BY <2>1, <2>2, <2>3
<1>6. CASE Dropped(k)
  <2>1. made[k]' = made[k] /\ Rows(k)' = Rows(k) /\ OnTheWay(k)' = OnTheWay(k) \ S
    BY <1>2, <1>6 DEF Dropped
  <2>2. S \in SUBSET OnTheWay(k) /\ S \subseteq {e \in OnTheWay(k) : e + Kept <= made[k]}
    BY <1>6 DEF Dropped
  <2> HIDE DEF S
  <2>3. GivenUp(k)' = GivenUp(k) \cup S
    BY <1>1, <1>2, <1>3, <2>1, <2>2
  <2> QED
    BY <2>1, <2>2, <2>3
<1> QED
  BY <1>4, <1>5, <1>6 DEF LedgerStep

\* What counting does to a function that is 1 on the entries known and 0 on the others.
LEMMA CountingSteps ==
  ASSUME NEW R, NEW S, S \cap R = {}
  PROVE  [e \in 1..MaxRows |-> IF e \in R \cup S THEN 1 ELSE 0] =
         [e \in 1..MaxRows |->
            IF e \in S THEN [d \in 1..MaxRows |-> IF d \in R THEN 1 ELSE 0][e] + 1
            ELSE [d \in 1..MaxRows |-> IF d \in R THEN 1 ELSE 0][e]]
OBVIOUS

\* The rows of the events are such a function.
LEMMA EventsAreKnown ==
  ASSUME BuffersInv
  PROVE  stored["event"] = [e \in 1..MaxRows |-> IF e \in Rows("event") THEN 1 ELSE 0]
<1>1. stored["event"] \in [1..MaxRows -> Nat]
  BY DEF BuffersInv, BuffersOK, Kinds
<1>2. \A e \in 1..MaxRows : stored["event"][e] = IF e \in Rows("event") THEN 1 ELSE 0
  BY RowsAre DEF BuffersInv, RowsOnce
<1> QED
  BY <1>1, <1>2

\* The buffer of playback events implements the ledger: among the rest, a play is counted once.
THEOREM EventsFollowLedger == Spec => EventLedger!Safe
<1> DEFINE known == [e \in 1..MaxRows |-> IF e \in Rows("event") THEN 1 ELSE 0]
<1>1. Init => EventLedger!Init
  <2> SUFFICES ASSUME Init PROVE EventLedger!Init
    OBVIOUS
  <2>1. made["event"] = 0 /\ OnTheWay("event") = {} /\ Rows("event") = {}
    BY InitBuffers DEF Kinds
  <2>2. GivenUp("event") = {}
    BY <2>1 DEF GivenUp
  <2>3. stored["event"] = [e \in 1..MaxRows |-> 0]
    BY DEF Init, Kinds
  <2> QED
    BY <2>1, <2>2, <2>3 DEF EventLedger!Init
<1>2. BuffersInv /\ BuffersInv' /\ [Next]_vars => [EventLedger!Next]_(EventLedger!ledger)
  <2> SUFFICES ASSUME BuffersInv, BuffersInv', [Next]_vars
               PROVE  [EventLedger!Next]_(EventLedger!ledger)
    OBVIOUS
  <2>1. LedgerStep("event")
    BY BuffersStep, Still DEF Kinds, vars, bufferVars, LedgerStep
  <2>2. stored["event"] = known
    BY EventsAreKnown
  <2>3. stored'["event"] = [e \in 1..MaxRows |-> IF e \in Rows("event")' THEN 1 ELSE 0]
    <3>1. \A e \in 1..MaxRows : stored'["event"][e] = IF e \in Rows("event")' THEN 1 ELSE 0
      BY RowsAre DEF BuffersInv, RowsOnce
    <3>2. stored'["event"] \in [1..MaxRows -> Nat]
      BY DEF BuffersInv, BuffersOK, Kinds
    <3> QED
      BY <3>1, <3>2
  <2>4. OnTheWay("event") \cap Rows("event") = {}
    BY WayBounds DEF BuffersInv, Kinds
  <2>5. ASSUME NEW S \in SUBSET OnTheWay("event"), Rows("event")' = Rows("event") \cup S
        PROVE  stored'["event"] = [e \in 1..MaxRows |->
                 IF e \in S THEN stored["event"][e] + 1 ELSE stored["event"][e]]
    <3>1. S \cap Rows("event") = {}
      BY <2>4
    <3> QED
      BY <2>2, <2>3, <2>5, <3>1, CountingSteps
  <2>6. Rows("event")' = Rows("event") => stored'["event"] = stored["event"]
    BY <2>2, <2>3
  <2> HIDE DEF known
  <2> QED
    BY <2>1, <2>5, <2>6, GivenUpSteps
    DEF EventLedger!Next, EventLedger!Record, EventLedger!Count, EventLedger!GiveUp, EventLedger!Stale, Kinds
<1> QED
  BY BuffersInvariant, <1>1, <1>2, PTL DEF Spec, EventLedger!Safe

\* So does the buffer of log lines, which the server knows from its first row on.
THEOREM LinesFollowLedger == Spec => LogLedger!Safe
<1>1. Init => LogLedger!Init
  <2> SUFFICES ASSUME Init PROVE LogLedger!Init
    OBVIOUS
  <2>1. made["log"] = 0 /\ OnTheWay("log") = {} /\ Rows("log") = {}
    BY InitBuffers DEF Kinds
  <2>2. GivenUp("log") = {}
    BY <2>1 DEF GivenUp
  <2> QED
    BY <2>1, <2>2 DEF LogLedger!Init, Known
<1>2. BuffersInv /\ BuffersInv' /\ [Next]_vars => [LogLedger!Next]_(LogLedger!ledger)
  <2> SUFFICES ASSUME BuffersInv, BuffersInv', [Next]_vars
               PROVE  [LogLedger!Next]_(LogLedger!ledger)
    OBVIOUS
  <2>1. LedgerStep("log")
    BY BuffersStep, Still DEF Kinds, vars, bufferVars, LedgerStep
  <2>2. OnTheWay("log") \cap Rows("log") = {}
    BY WayBounds DEF BuffersInv, Kinds
  <2>3. ASSUME NEW S \in SUBSET OnTheWay("log"), Rows("log")' = Rows("log") \cup S
        PROVE  Known' = [e \in 1..MaxRows |-> IF e \in S THEN Known[e] + 1 ELSE Known[e]]
    <3>1. S \cap Rows("log") = {}
      BY <2>2
    <3> QED
      BY <2>3, <3>1, CountingSteps DEF Known
  <2>4. Rows("log")' = Rows("log") => Known' = Known
    BY DEF Known
  <2> QED
    BY <2>1, <2>3, <2>4, GivenUpSteps
    DEF LogLedger!Next, LogLedger!Record, LogLedger!Count, LogLedger!GiveUp, LogLedger!Stale, Kinds
<1> QED
  BY BuffersInvariant, <1>1, <1>2, PTL DEF Spec, LogLedger!Safe

===============================================================================
