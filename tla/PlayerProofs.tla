----------------------------- MODULE PlayerProofs -----------------------------
(***************************************************************************)
(* Proofs about the page of the kiosk: Player, for any items, playlists and *)
(* stall threshold, and PlaybackQueue, for any pools, rules and intervals.  *)
(*                                                                         *)
(* PlayerInv is inductive.  Every step either keeps the page's order and   *)
(* watch, or detaches the video, stops the timer and starts a show of the  *)
(* item the order moved to; the lemmas state that once for all callers.    *)
(*                                                                         *)
(* QueueInv is inductive, rules keep their time, and random play of        *)
(* different media repeats none at once.                                   *)
(***************************************************************************)
EXTENDS Player, PlaybackQueue, FiniteSetTheorems, TLAPS

\* An order that is not empty is at an item.
LEMMA ActiveIsItem ==
  ASSUME PlayerInv, current # NoItem
  PROVE  ActiveItem \in Items /\ current \in Items
BY DEF PlayerInv, TypeOK, OrderOK, CurrentIsActive

\* A position of a playlist holds an item of it.
LEMMA PositionIsItem ==
  ASSUME NEW s \in Playlist, NEW j \in 1..Len(s.items)
  PROVE  s.items[j] \in Items
BY DEF Playlist

\* The counters a detached video leaves, and the position a list starts at.
LEMMA FirstCounts == 0 \in 0..Sustained /\ 0 \in Nat /\ 1 \in Nat \ {0}
BY DEF Sustained

\* The agent's empty content is content.
LEMMA NothingIsPlaylist == Nothing \in Playlist /\ Nothing.items = <<>> /\ <<>> \in Seq(Items)
BY DEF Nothing, Playlist

\* What starting a show of item i of content s leads to.
LEMMA StartShows ==
  ASSUME PlayerInv, NEW i \in Items, NEW s, NEW g, Start(i, s, g)
  PROVE  /\ show' \in [phase : {"none", "backoff", "load"}, item : Items \cup {NoItem}, single : BOOLEAN]
         /\ current' = i /\ show'.item = i
         /\ timer' = FALSE /\ video' = NoItem /\ ceiling' = FALSE
         /\ ReportsOK'
<1>1. /\ timer' = FALSE /\ video' = NoItem /\ ceiling' = FALSE /\ current' = i
      /\ loops' = FALSE /\ stirred' = FALSE /\ motion' = "none" /\ moving' = 0 /\ still' = 0
      /\ outlived' = FALSE
  BY DEF Start, DetachVideo
<1>2. ReportsOK'
  BY <1>1, FirstCounts DEF ReportsOK
<1>3. /\ show' \in [phase : {"none", "backoff", "load"}, item : Items \cup {NoItem}, single : BOOLEAN]
      /\ show'.item = i
  BY DEF Start, Single
<1> QED
  BY <1>1, <1>2, <1>3

\* Moving on keeps the invariant, whatever event it announces.
LEMMA AdvanceKeeps ==
  ASSUME PlayerInv, NEW g, Advance(g), current # NoItem,
         last' \in {"none", "start", "end", "error"} \X (Items \cup {NoItem})
  PROVE  PlayerInv'
<1> USE PlayerAssumption DEF PlayerInv
<1>1. state \in Playlist /\ state.items \in Seq(Items) /\ state.items # <<>> /\ Len(state.items) \in Nat \ {0}
  BY DEF TypeOK, OrderOK, CurrentIsActive, Playlist
<1>2. CASE state.random /\ (\E i \in PoolOf(state) : play' = i /\ Start(i, state, g))
           /\ UNCHANGED <<state, index, screen>>
  <2>1. PICK i \in PoolOf(state) : play' = i /\ Start(i, state, g)
    BY <1>2
  <2>2. i \in Items
    BY <1>1 DEF PoolOf
  <2>3. OrderOK'
    BY <1>2, <2>1, <2>2, StartShows DEF TypeOK, OrderOK
  <2>4. ScreenOK' /\ ReportsOK'
    BY <1>2, <2>1, <2>2, StartShows DEF TypeOK, ScreenOK
  <2>5. CurrentIsActive' /\ ShowIsCurrent' /\ EndsWhatStarted' /\ VideoWatched' /\ (ceiling' => video' # NoItem)
    BY <1>1, <1>2, <2>1, <2>2, StartShows
       DEF CurrentIsActive, ShowIsCurrent, EndsWhatStarted, VideoWatched, ActiveItem
  <2> QED
    BY <2>3, <2>4, <2>5 DEF TypeOK
<1>3. CASE ~state.random /\ index' = (IF index = Len(state.items) THEN 1 ELSE index + 1)
           /\ Start(state.items[index'], state, g) /\ UNCHANGED <<state, play, screen>>
  <2>1. index \in 1..Len(state.items)
    BY <1>1, <1>3 DEF TypeOK, OrderOK
  <2>2. index' \in 1..Len(state.items) /\ DOMAIN state.items = 1..Len(state.items)
    BY <1>1, <1>3, <2>1
  <2>3. state.items[index'] \in Items
    BY <1>1, <2>2
  <2>4. OrderOK'
    <3>1. index' \in Nat \ {0}
      BY <2>2
    <3>2. current' \in Items /\ state' = state /\ play' = play
      BY <1>3, <2>3, StartShows
    <3> QED
      BY <1>1, <2>2, <3>1, <3>2 DEF TypeOK, OrderOK
  <2>5. ScreenOK' /\ ReportsOK'
    BY <1>3, <2>3, StartShows DEF TypeOK, ScreenOK
  <2>6. CurrentIsActive' /\ ShowIsCurrent' /\ EndsWhatStarted' /\ VideoWatched' /\ (ceiling' => video' # NoItem)
    BY <1>1, <1>3, <2>3, StartShows
       DEF CurrentIsActive, ShowIsCurrent, EndsWhatStarted, VideoWatched, ActiveItem
  <2> QED
    BY <2>4, <2>5, <2>6 DEF TypeOK
<1>4. CASE AtEnd /\ Finish /\ UNCHANGED <<state, index, play, current>>
  <2>1. /\ show' = NoShow /\ timer' = FALSE
        /\ screen' \in Items \cup {NoItem}
        /\ outlived' \in BOOLEAN
    BY <1>4 DEF Finish, TypeOK, ScreenOK, ReportsOK
  <2>2. CASE ActiveItem \in Videos /\ DetachVideo
    <3>0. OrderOK'
      BY <1>4 DEF TypeOK, OrderOK
    <3>1. ReportsOK'
      BY <2>1, <2>2, FirstCounts DEF ReportsOK, DetachVideo
    <3>2. ScreenOK'
      BY <1>4, <2>1, <2>2 DEF TypeOK, ScreenOK, NoShow, DetachVideo
    <3> QED
      BY <1>4, <2>1, <2>2, <3>0, <3>1, <3>2
         DEF TypeOK, DetachVideo, CurrentIsActive, ShowIsCurrent, EndsWhatStarted, VideoWatched, ActiveItem, NoShow
  <2>3. CASE ActiveItem \notin Videos /\ UNCHANGED <<screen, watchVars>>
    <3>1. video = NoItem
      BY <2>3 DEF EndsWhatStarted, TypeOK, ScreenOK, OrderOK
    <3>2. TypeOK'
      BY <1>4, <2>1, <2>3 DEF TypeOK, OrderOK, ScreenOK, ReportsOK, NoShow, watchVars
    <3> QED
      BY <1>4, <2>1, <2>3, <3>1, <3>2
         DEF watchVars, CurrentIsActive, ShowIsCurrent, EndsWhatStarted, VideoWatched, ActiveItem, NoShow
  <2> QED
    BY <1>4, <2>2, <2>3 DEF Finish
<1> QED
  BY <1>2, <1>3, <1>4 DEF Advance

\* A play that ends, and a failure of the current item, keep the invariant.
LEMMA EndKeeps ==
  ASSUME PlayerInv, End, current # NoItem
  PROVE  PlayerInv'
BY AdvanceKeeps, ActiveIsItem DEF End

\* A failure skip keeps the invariant.
LEMMA FailKeeps ==
  ASSUME PlayerInv, NEW i \in Items, Fail(i), current # NoItem
  PROVE  PlayerInv'
BY AdvanceKeeps DEF Fail

-------------------------------------------------------------------------------
(* Initially, and at each step.                                            *)

\* The page is well formed at first.
LEMMA InitInv == Init => PlayerInv
<1> SUFFICES ASSUME Init PROVE PlayerInv
  OBVIOUS
<1>1. OrderOK
  BY NothingIsPlaylist DEF Init, OrderOK, Nothing
<1>2. ScreenOK
  BY DEF Init, ScreenOK, NoShow
<1>3. ReportsOK
  BY FirstCounts DEF Init, ReportsOK
<1> QED
  BY <1>1, <1>2, <1>3
     DEF Init, PlayerInv, TypeOK, NoShow, EndsWhatStarted, VideoWatched, CurrentIsActive, ShowIsCurrent

\* The page at work.
LEMMA PlaybackKeeps ==
  ASSUME PlayerInv, Playback
  PROVE  PlayerInv'
<1> USE PlayerAssumption DEF PlayerInv
<1>1. CASE BackoffEnds
  BY <1>1 DEF BackoffEnds, TypeOK, OrderOK, ScreenOK, ReportsOK, watchVars, EndsWhatStarted, VideoWatched, CurrentIsActive,
              ShowIsCurrent, ActiveItem
<1>2. CASE Loaded
  <2>1. current # NoItem /\ show.item = current /\ current \in Items /\ ~timer /\ video = NoItem
    BY <1>2 DEF Loaded, ShowIsCurrent, TypeOK, OrderOK
  <2>2. ActiveItem' = current'
    BY <1>2, <2>1 DEF Loaded, CurrentIsActive, ActiveItem
  <2>3. timer' \in BOOLEAN
    BY <1>2 DEF Loaded, AdvanceTimer
  <2>4. CASE show.item \in Videos
    <3>1. TypeOK'
      BY <1>2, <2>1, <2>3, <2>4 DEF Loaded, TypeOK, OrderOK, ScreenOK, ReportsOK, NoShow, CeilingFor
    <3> QED
      BY <1>2, <2>1, <2>2, <2>4, <3>1
         DEF Loaded, NoShow, CeilingFor, EndsWhatStarted, VideoWatched, CurrentIsActive, ShowIsCurrent
  <2>5. CASE show.item \notin Videos
    <3>1. TypeOK'
      BY <1>2, <2>1, <2>3, <2>5 DEF Loaded, TypeOK, OrderOK, ScreenOK, ReportsOK, NoShow, watchVars
    <3> QED
      BY <1>2, <2>1, <2>2, <2>5, <3>1
         DEF Loaded, NoShow, watchVars, EndsWhatStarted, VideoWatched, CurrentIsActive, ShowIsCurrent
  <2> QED
    BY <2>4, <2>5
<1>3. CASE LoadFails
  <2>1. current # NoItem /\ show.item \in Items
    BY <1>3 DEF LoadFails, ShowIsCurrent, TypeOK, OrderOK
  <2> QED
    BY <1>3, <2>1, FailKeeps DEF LoadFails
<1>4. CASE TimerFires
  BY <1>4, EndKeeps DEF TimerFires, EndsWhatStarted
<1>5. CASE VideoEnds
  BY <1>5, EndKeeps DEF VideoEnds, EndsWhatStarted
<1>6. CASE VideoErrors \/ CeilingFires \/ ReportStalled
  <2>1. video # NoItem /\ Fail(video)
    BY <1>6 DEF VideoErrors, CeilingFires, ReportStalled
  <2>2. video \in Items /\ current # NoItem
    BY <2>1, PlayerAssumption DEF TypeOK, ScreenOK, EndsWhatStarted
  <2> QED
    BY <2>1, <2>2, FailKeeps
<1>7. CASE VideoWedges \/ VideoMoves
  <2>1. UNCHANGED <<state, index, play, current, show, screen, last, timer, video, ceiling>>
    BY <1>7 DEF VideoWedges, VideoMoves
  <2>2. OrderOK' /\ ScreenOK'
    BY <2>1 DEF TypeOK, OrderOK, ScreenOK
  <2>3. ReportsOK'
    BY <1>7 DEF VideoWedges, VideoMoves, TypeOK, ReportsOK
  <2> QED
    BY <2>1, <2>2, <2>3
       DEF TypeOK, EndsWhatStarted, VideoWatched, CurrentIsActive, ShowIsCurrent, ActiveItem
<1>8. CASE ReportMoving \/ ReportStill
  <2>1. /\ UNCHANGED <<state, index, play, current, show, screen, last, timer>>
        /\ UNCHANGED <<video, loops, motion, ceiling, outlived>>
    BY <1>8 DEF ReportMoving, ReportStill
  <2>2. OrderOK' /\ ScreenOK'
    BY <2>1 DEF TypeOK, OrderOK, ScreenOK
  <2>3. moving' \in 0..Sustained /\ still' \in Nat
    <3>1. moving \in 0..Sustained /\ still \in Nat
      BY DEF TypeOK, ReportsOK
    <3>2. CASE ReportMoving
      BY <3>1, <3>2 DEF ReportMoving, Sustained
    <3>3. CASE ReportStill
      BY <3>1, <3>3 DEF ReportStill, Sustained
    <3> QED
      BY <1>8, <3>2, <3>3
  <2>4. stirred' \in BOOLEAN
    BY <1>8 DEF ReportMoving, ReportStill, TypeOK, ReportsOK
  <2>5. ReportsOK'
    BY <2>1, <2>3, <2>4 DEF TypeOK, ReportsOK
  <2> QED
    BY <2>1, <2>2, <2>5
       DEF TypeOK, EndsWhatStarted, VideoWatched, CurrentIsActive, ShowIsCurrent, ActiveItem
<1> QED
  BY <1>1, <1>2, <1>3, <1>4, <1>5, <1>6, <1>7, <1>8 DEF Playback

\* The page as the agent changes its state.
LEMMA IntakeKeeps ==
  ASSUME PlayerInv, Intake
  PROVE  PlayerInv'
<1> USE PlayerAssumption DEF PlayerInv
<1>1. CASE ApplyEmpty \/ Reload
  <2>1. OrderOK'
    BY <1>1, NothingIsPlaylist, FirstCounts DEF ApplyEmpty, Reload, TypeOK, OrderOK
  <2>2. ScreenOK'
    <3>1. show' = NoShow /\ screen' = NoItem /\ video' = NoItem
      BY <1>1 DEF ApplyEmpty, Reload, DetachVideo
    <3>2. last' = last \/ last' = <<"none", NoItem>>
      BY <1>1 DEF ApplyEmpty, Reload
    <3> QED
      BY <3>1, <3>2 DEF TypeOK, ScreenOK, NoShow
  <2>3. ReportsOK'
    BY <1>1, FirstCounts DEF ApplyEmpty, Reload, ReportsOK, DetachVideo
  <2> QED
    BY <1>1, <2>1, <2>2, <2>3 DEF TypeOK, ApplyEmpty, Reload, NoShow, DetachVideo, EndsWhatStarted, VideoWatched,
                      CurrentIsActive, ShowIsCurrent
<1>2. ASSUME NEW s \in Playlists, ApplyRandom(s)
      PROVE  PlayerInv'
  <2>1. s \in Playlist /\ s.items \in Seq(Items)
    BY DEF Playlist
  <2>2. PICK i \in PoolOf(s) : play' = i /\ Start(i, s, failed)
    BY <1>2 DEF ApplyRandom
  <2>3. i \in Items
    BY <2>1 DEF PoolOf
  <2>4. OrderOK'
    BY <1>2, <2>1, <2>2, <2>3, StartShows DEF ApplyRandom, TypeOK, OrderOK
  <2>5. ScreenOK' /\ ReportsOK'
    BY <1>2, <2>2, <2>3, StartShows DEF ApplyRandom, TypeOK, ScreenOK
  <2> QED
    BY <1>2, <2>2, <2>3, <2>4, <2>5, StartShows
       DEF TypeOK, ApplyRandom, CurrentIsActive, ShowIsCurrent, EndsWhatStarted, VideoWatched, ActiveItem
<1>3. ASSUME NEW s \in Playlists, ApplyNew(s)
      PROVE  PlayerInv'
  <2>1. s \in Playlist /\ s.items \in Seq(Items) /\ 1 \in DOMAIN s.items
    BY <1>3 DEF Playlist, ApplyNew
  <2>2. s.items[1] \in Items /\ Start(s.items[1], s, failed)
    BY <1>3, <2>1 DEF ApplyNew
  <2>3. OrderOK'
    BY <1>3, <2>1, <2>2, StartShows, FirstCounts DEF ApplyNew, TypeOK, OrderOK
  <2>4. ScreenOK' /\ ReportsOK'
    BY <1>3, <2>2, StartShows DEF ApplyNew, TypeOK, ScreenOK
  <2> QED
    BY <1>3, <2>2, <2>3, <2>4, StartShows
       DEF TypeOK, ApplyNew, CurrentIsActive, ShowIsCurrent, EndsWhatStarted, VideoWatched, ActiveItem
<1>4. ASSUME NEW s \in Playlists, ApplyKept(s)
      PROVE  PlayerInv'
  <2>1. s \in Playlist /\ s.items \in Seq(Items)
    BY DEF Playlist
  <2>2. KeptIndex(s) \in DOMAIN s.items /\ s.items[KeptIndex(s)] = current
    BY <1>4 DEF ApplyKept, KeptIndex, PoolOf
  <2>3. index' \in DOMAIN s.items /\ s.items # <<>> /\ DOMAIN s.items = 1..Len(s.items)
    BY <1>4, <2>1, <2>2 DEF ApplyKept
  <2>4. TypeOK'
    BY <1>4, <2>1, <2>3 DEF ApplyKept, TypeOK, OrderOK, ScreenOK, ReportsOK, watchVars
  <2> QED
    BY <1>4, <2>2, <2>3, <2>4
       DEF ApplyKept, watchVars, CurrentIsActive, ShowIsCurrent, EndsWhatStarted, VideoWatched, ActiveItem
<1> QED
  BY <1>1, <1>2, <1>3, <1>4 DEF Intake

-------------------------------------------------------------------------------
(* The theorems.                                                           *)

\* Every reachable state satisfies PlayerInv.
THEOREM PlayerInvariant == Spec => []PlayerInv
<1>1. PlayerInv /\ [Next]_vars => PlayerInv'
  <2> SUFFICES ASSUME PlayerInv, [Next]_vars PROVE PlayerInv'
    OBVIOUS
  <2>1. CASE Next
    BY <2>1, PlaybackKeeps, IntakeKeeps DEF Next
  <2>2. CASE UNCHANGED vars
    BY <2>2 DEF vars, watchVars, PlayerInv, TypeOK, OrderOK, ScreenOK, ReportsOK, EndsWhatStarted, VideoWatched, CurrentIsActive,
                ShowIsCurrent, ActiveItem
  <2> QED
    BY <2>1, <2>2
<1> QED
  BY <1>1, InitInv, PTL DEF Spec

\* Whatever can end a play belongs to the play that was started last (advance,
\* failCurrent, applyState of the kiosk page).
THEOREM PlaysPairUp == Spec => []EndsWhatStarted
<1>1. PlayerInv => EndsWhatStarted
  BY DEF PlayerInv
<1> QED
  BY <1>1, PlayerInvariant, PTL

\* Every video on the screen has its ceiling timer (armCeiling, detachVideo).
THEOREM VideosAreWatched == Spec => []VideoWatched
<1>1. PlayerInv => VideoWatched
  BY DEF PlayerInv
<1> QED
  BY <1>1, PlayerInvariant, PTL


-------------------------------------------------------------------------------
(* The queue of random play: its lemmas. *)

\* Pools are finite.
LEMMA PoolSize ==
  ASSUME NEW ct \in Contents
  PROVE  /\ ct.pool \subseteq Entries /\ ct.rules \subseteq Rules
         /\ Cardinality(ct.pool) \in Nat
         /\ ct.pool # {} => Cardinality(ct.pool) > 0
<1>1. ct.pool \subseteq Entries /\ ct.rules \subseteq Rules
  BY QueueAssumption
<1>2. IsFiniteSet(ct.pool)
  BY <1>1, QueueAssumption, FS_Subset
<1> QED
  BY <1>1, <1>2, FS_CardinalityType, FS_EmptySet

-------------------------------------------------------------------------------
(* Cycles.                                                                 *)

\* Exchanging the first entry of an order for another gives an order.
LEMMA SwapKeeps ==
  ASSUME NEW S, Cardinality(S) \in Nat, NEW c \in Orders(S), NEW k \in 2..Cardinality(S)
  PROVE  Swapped(c, k) \in Orders(S) /\ Swapped(c, k)[1] = c[k] /\ c[k] \in S /\ c[k] # c[1]
<1> DEFINE n == Cardinality(S)
           o == Swapped(c, k)
<1>1. c \in [1..n -> S] /\ 1 \in 1..n /\ k \in 1..n /\ k # 1
  BY DEF Orders
<1>2. /\ o \in [1..n -> S] /\ o[1] = c[k] /\ o[k] = c[1]
      /\ \A j \in 1..n : j # 1 /\ j # k => o[j] = c[j]
  BY <1>1 DEF Swapped
<1>3. \A e \in S : \E j \in 1..n : o[j] = e
  <2> SUFFICES ASSUME NEW e \in S PROVE \E j \in 1..n : o[j] = e
    OBVIOUS
  <2>1. PICK i \in 1..n : c[i] = e
    BY <1>1 DEF Orders
  <2> QED
    BY <1>1, <1>2, <2>1
<1>4. \A i, j \in 1..n : o[i] = o[j] => i = j
  BY <1>1, <1>2 DEF Orders
<1>5. c[k] \in S /\ c[k] # c[1]
  BY <1>1 DEF Orders
<1> QED
  BY <1>2, <1>3, <1>4, <1>5 DEF Orders

\* What reshuffle gives is an order of the pool, and it starts with other media
\* than the last when the pool has one entry for each media.
LEMMA CyclesHold ==
  ASSUME NEW S \in SUBSET Entries, Cardinality(S) \in Nat, NEW m, NEW c \in Cycles(S, m)
  PROVE  /\ c \in Orders(S)
         /\ Cardinality(S) > 1 /\ Distinct(S) => m # MediumOf[c[1]]
<1> DEFINE repeats(o) == Cardinality(S) > 1 /\ m # NoMedium /\ MediumOf[o[1]] = m
<1>1. CASE c \in Orders(S) /\ ~repeats(c)
  <2>1. Cardinality(S) > 1 => c[1] \in Entries
    BY <1>1 DEF Orders
  <2> QED
    BY <1>1, <2>1, QueueAssumption
<1>2. ASSUME NEW o \in Orders(S), NEW k \in 2..Cardinality(S), repeats(o), c = Swapped(o, k)
      PROVE  c \in Orders(S) /\ (Distinct(S) => m # MediumOf[c[1]])
  <2>1. c \in Orders(S) /\ c[1] = o[k] /\ o[k] \in S /\ o[k] # o[1]
    BY <1>2, SwapKeeps
  <2>2. o[1] \in S
    BY <1>2 DEF Orders
  <2> QED
    BY <1>2, <2>1, <2>2 DEF Distinct
<1> QED
  BY <1>1, <1>2 DEF Cycles

-------------------------------------------------------------------------------
(* Initially, and at each step.                                            *)

\* What a rule picks, and where its rotation gets to.
LEMMA PickIsEntry ==
  ASSUME EngineTypeOK, NEW r \in Playable, NEW e \in Pick(r)
  PROVE  /\ e \in Entries
         /\ Turned(r) \in [Rules -> Nat]
         /\ \A q \in Playable : Turned(r)[q] < Len(Assigned[q])
<1>1. r \in Rules /\ Playable \subseteq Rules
  BY QueueAssumption DEF Playable, EngineTypeOK
<1>2. /\ Assigned[r] \in Seq(Entries) /\ Len(Assigned[r]) \in Nat /\ Len(Assigned[r]) > 0
      /\ DOMAIN Assigned[r] = 1..Len(Assigned[r])
  BY <1>1, QueueAssumption DEF Playable
<1>3. turn \in [Rules -> Nat] /\ turn[r] \in Nat /\ turn[r] < Len(Assigned[r])
  BY <1>1 DEF EngineTypeOK
<1>4. e \in Entries
  <2>1. turn[r] + 1 \in 1..Len(Assigned[r])
    BY <1>2, <1>3
  <2>2. \A j \in 1..Len(Assigned[r]) : Assigned[r][j] \in Entries
    BY <1>2
  <2> QED
    BY <1>2, <2>1, <2>2 DEF Pick
<1>5. (turn[r] + 1) % Len(Assigned[r]) \in 0..(Len(Assigned[r]) - 1)
  BY <1>2, <1>3
<1>6. Turned(r) \in [Rules -> Nat]
  BY <1>1, <1>2, <1>3, <1>5 DEF Turned
<1>7. ASSUME NEW q \in Playable PROVE Turned(r)[q] < Len(Assigned[q])
  <2>1. turn[q] < Len(Assigned[q])
    BY DEF EngineTypeOK
  <2>2. CASE q = r
    BY <1>1, <1>2, <1>3, <1>5, <2>1, <2>2 DEF Turned
  <2>3. CASE q # r
    BY <1>1, <1>3, <2>1, <2>3 DEF Turned
  <2> QED
    BY <2>2, <2>3
<1> QED
  BY <1>4, <1>6, <1>7

\* Playable rules have an interval and entries.
LEMMA PlayableRules ==
  ASSUME content \in Contents
  PROVE  \A r \in Playable : /\ r \in Rules /\ Interval[r] \in Nat /\ Interval[r] > 0
                             /\ Assigned[r] \in Seq(Entries) /\ Len(Assigned[r]) > 0
BY PoolSize, QueueAssumption DEF Playable

\* The queue is well formed at first.
LEMMA EngineInitInv == EngineInit => QueueInv
<1> SUFFICES ASSUME EngineInit PROVE QueueInv
  OBVIOUS
<1>1. /\ Cardinality(content.pool) \in Nat /\ cycle \in Orders(content.pool)
      /\ Cardinality(content.pool) > 1 /\ Distinct(content.pool) => lastMedia # MediumOf[cycle[1]]
  BY PoolSize, CyclesHold DEF EngineInit
<1>2. \A r \in Playable : r \in Rules /\ Interval[r] \in Nat /\ Interval[r] > 0 /\ Len(Assigned[r]) > 0
  BY PlayableRules DEF EngineInit
<1>3. EngineTypeOK
  BY <1>1, <1>2, QueueAssumption DEF EngineInit, EngineTypeOK, NoPlay, Medium
<1>4. OnTime
  BY <1>2 DEF EngineInit, OnTime
<1>5. CycleInv
  BY <1>1 DEF EngineInit, CycleInv, Varied
<1> QED
  BY <1>3, <1>4, <1>5 DEF QueueInv

\* The engine is rebuilt.
LEMMA RebuildKeeps ==
  ASSUME QueueInv, Rebuild
  PROVE  QueueInv'
<1>1. /\ content' \in Contents /\ Cardinality(content'.pool) \in Nat /\ content'.pool \subseteq Entries
      /\ cycle' \in Cycles(content'.pool, remembered) /\ lastMedia' = remembered
  BY PoolSize DEF Rebuild
<1>2. /\ cycle' \in Orders(content'.pool)
      /\ Cardinality(content'.pool) > 1 /\ Distinct(content'.pool) => lastMedia' # MediumOf[cycle'[1]]
  BY <1>1, CyclesHold DEF Rebuild
<1>3. \A r \in Playable' : r \in Rules /\ Interval[r] \in Nat /\ Interval[r] > 0 /\ Len(Assigned[r]) > 0
  BY <1>1, PoolSize, QueueAssumption DEF Playable
<1>4. EngineTypeOK'
  <2>1. rebuilt' \in 0..Rebuilds
    BY QueueAssumption DEF Rebuild, QueueInv, EngineTypeOK
  <2> QED
    BY <1>1, <1>2, <1>3, <2>1 DEF Rebuild, QueueInv, EngineTypeOK, NoPlay, Medium
<1>5. OnTime'
  BY <1>3 DEF Rebuild, OnTime
<1>6. CycleInv'
  BY <1>2 DEF Rebuild, CycleInv, Varied
<1> QED
  BY <1>4, <1>5, <1>6 DEF QueueInv

\* The page remembers what it shows.
LEMMA RememberKeeps ==
  ASSUME QueueInv, Remember
  PROVE  QueueInv'
<1>1. /\ out \in [entry : Entries, rule : Rules \cup {NoRule}] \cup {NoPlay}
      /\ lastMedia \in Medium /\ content \in Contents
  BY DEF QueueInv, EngineTypeOK
<1>2. remembered' \in Medium
  BY <1>1 DEF Remember, Medium
<1> QED
  BY <1>2 DEF Remember, ruleVars, QueueInv, EngineTypeOK, OnTime, CycleInv, Varied, Playable

\* A rule returns an item: the history counts it.
LEMMA ReturnCounts ==
  ASSUME EngineTypeOK, NEW r \in Playable, NEW e \in Pick(r), Return(r, e), UNCHANGED content
  PROVE  /\ e \in Entries /\ r \in Rules
         /\ out' \in [entry : Entries, rule : Rules \cup {NoRule}]
         /\ lastMedia' \in Medium /\ MediumOf[e] \in Medium
         /\ turn' \in [Rules -> Nat] /\ \A q \in Playable : turn'[q] < Len(Assigned[q])
         /\ gap' = [gap EXCEPT ![r] = 0]
<1>1. r \in Rules /\ r # NoRule
  BY PlayableRules, QueueAssumption DEF EngineTypeOK
<1>2. e \in Entries
  BY PickIsEntry
<1>3. turn' \in [Rules -> Nat] /\ \A q \in Playable : turn'[q] < Len(Assigned[q])
  BY PickIsEntry DEF Return
<1>4. out' \in [entry : Entries, rule : Rules \cup {NoRule}] /\ out'.rule = r
  BY <1>1, <1>2 DEF Return
<1>5. gap' = [gap EXCEPT ![r] = 0]
  BY <1>1, <1>4 DEF Return, CountGaps, Counted, EngineTypeOK
<1> QED
  BY <1>1, <1>2, <1>3, <1>4, <1>5 DEF Return, Medium

\* An item owed by a rule keeps the queue well formed,
LEMMA OwedKeeps ==
  ASSUME QueueInv, ServeOwed
  PROVE  QueueInv'
<1> USE DEF QueueInv
<1>1. PICK r \in pending : /\ IsFirst(r, pending)
                           /\ \E e \in Pick(r) : Return(r, e) /\ lastOf' = [lastOf EXCEPT ![r] = MediumOf[e]]
                           /\ since' = Settled(r)
                           /\ pending' = pending \ {r}
  BY DEF ServeOwed
<1>2. PICK e \in Pick(r) : Return(r, e) /\ lastOf' = [lastOf EXCEPT ![r] = MediumOf[e]]
  BY <1>1
<1>3. r \in Playable /\ UNCHANGED <<content, cycle, at, remembered, rebuilt>> /\ Playable' = Playable
  BY <1>1 DEF EngineTypeOK, ServeOwed, Playable
<1>4. /\ r \in Rules /\ content.pool # {} /\ content.rules # {}
      /\ \A q \in Playable : q \in Rules /\ Interval[q] \in Nat /\ Interval[q] > 0
  BY <1>1, <1>3, PlayableRules DEF EngineTypeOK, OnTime, Playable
<1>5. /\ out' \in [entry : Entries, rule : Rules \cup {NoRule}]
      /\ lastMedia' \in Medium /\ MediumOf[e] \in Medium
      /\ turn' \in [Rules -> Nat] /\ \A q \in Playable : turn'[q] < Len(Assigned[q])
      /\ gap' = [gap EXCEPT ![r] = 0]
  BY <1>2, <1>3, ReturnCounts
<1>6. EngineTypeOK'
  BY <1>1, <1>2, <1>3, <1>4, <1>5 DEF EngineTypeOK, Settled
<1>7. OnTime'
  <2> SUFFICES ASSUME NEW q \in Playable
               PROVE  /\ since'[q] = gap'[q] /\ gap'[q] <= Interval[q]
                      /\ q \in pending' <=> gap'[q] = Interval[q]
    BY <1>3, <1>4 DEF OnTime
  <2>1. /\ since \in [Rules -> Nat] /\ gap \in [Rules -> Nat] /\ q \in Rules
        /\ since[q] = gap[q] /\ gap[q] <= Interval[q]
        /\ q \in pending <=> gap[q] = Interval[q]
        /\ Interval[q] \in Nat /\ Interval[q] > 0
    BY <1>4 DEF EngineTypeOK, OnTime
  <2>2. CASE q = r
    BY <1>1, <1>4, <1>5, <2>1, <2>2 DEF Settled
  <2>3. CASE q # r
    BY <1>1, <1>4, <1>5, <2>1, <2>3 DEF Settled
  <2> QED
    BY <2>2, <2>3
<1>8. CycleInv'
  BY <1>3, <1>4 DEF CycleInv, Varied
<1> QED
  BY <1>6, <1>7, <1>8

\* so does content made of rules only,
LEMMA RuleOnlyKeeps ==
  ASSUME QueueInv, ServeRuleOnly
  PROVE  QueueInv'
<1> USE DEF QueueInv
<1>1. PICK r \in Playable : \E e \in Pick(r) : Return(r, e)
  BY DEF ServeRuleOnly
<1>2. PICK e \in Pick(r) : Return(r, e)
  BY <1>1
<1>3. /\ UNCHANGED <<content, cycle, at, remembered, lastOf, since, pending, rebuilt>>
      /\ Playable' = Playable /\ content.pool = {} /\ pending = {}
  BY DEF ServeRuleOnly, Playable
<1>4. /\ out' \in [entry : Entries, rule : Rules \cup {NoRule}]
      /\ lastMedia' \in Medium
      /\ turn' \in [Rules -> Nat] /\ \A q \in Playable : turn'[q] < Len(Assigned[q])
      /\ gap' = [gap EXCEPT ![r] = 0]
  BY <1>2, <1>3, ReturnCounts
<1>5. EngineTypeOK'
  BY <1>3, <1>4 DEF EngineTypeOK
<1>6. OnTime'
  BY <1>3 DEF OnTime
<1>7. CycleInv'
  BY <1>3, FS_EmptySet DEF CycleInv, Varied
<1> QED
  BY <1>5, <1>6, <1>7

\* A normal item: what is returned, and what the rules count.
LEMMA NormalCounts ==
  ASSUME QueueInv, ServeNormal
  PROVE  /\ content' = content /\ Playable' = Playable /\ content.pool # {}
         /\ cycle' \in Orders(content.pool) /\ at' \in 1..Cardinality(content.pool)
         /\ out'.entry = cycle'[at'] /\ out'.entry \in Entries /\ out'.rule = NoRule
         /\ \A r \in Rules : gap'[r] = IF r \in Playable THEN gap[r] + 1 ELSE gap[r]
         /\ \A r \in Playable : r \in Rules /\ since[r] = gap[r] /\ gap[r] < Interval[r]
<1> USE DEF QueueInv
<1>1. content' = content /\ Playable' = Playable /\ content.pool # {} /\ pending = {}
  BY DEF ServeNormal, Playable
<1>2. content.pool \subseteq Entries /\ Cardinality(content.pool) \in Nat /\ Cardinality(content.pool) > 0
  BY <1>1, PoolSize DEF EngineTypeOK
<1>3. cycle' \in Orders(content.pool) /\ at' \in 1..Cardinality(content.pool)
  <2>1. CASE at < Cardinality(content.pool) /\ at' = at + 1 /\ cycle' = cycle
    BY <1>2, <2>1 DEF EngineTypeOK
  <2>2. CASE at' = 1 /\ cycle' \in Cycles(content.pool, lastMedia)
    BY <1>2, <2>2, CyclesHold
  <2> QED
    BY <2>1, <2>2 DEF ServeNormal
<1>4. out'.entry = cycle'[at'] /\ cycle'[at'] \in Entries /\ out'.rule = NoRule
  BY <1>2, <1>3 DEF ServeNormal, Orders
<1>5. \A r \in Rules : gap'[r] = IF r \in Playable THEN gap[r] + 1 ELSE gap[r]
  BY <1>1, <1>4, QueueAssumption DEF ServeNormal, CountGaps, Counted
<1>6. \A r \in Playable : r \in Rules /\ since[r] = gap[r] /\ gap[r] < Interval[r]
  BY <1>1, PlayableRules DEF EngineTypeOK, OnTime
<1> QED
  BY <1>1, <1>3, <1>4, <1>5, <1>6

\* and so does the next item of the cycle.
LEMMA NormalKeeps ==
  ASSUME QueueInv, ServeNormal
  PROVE  QueueInv'
<1> USE DEF QueueInv
<1>1. /\ content' = content /\ Playable' = Playable /\ content.pool # {}
      /\ cycle' \in Orders(content.pool) /\ at' \in 1..Cardinality(content.pool)
      /\ out'.entry = cycle'[at'] /\ out'.entry \in Entries /\ out'.rule = NoRule
      /\ \A r \in Rules : gap'[r] = IF r \in Playable THEN gap[r] + 1 ELSE gap[r]
      /\ \A r \in Playable : r \in Rules /\ since[r] = gap[r] /\ gap[r] < Interval[r]
  BY NormalCounts
<1>2. /\ since' = [r \in Rules |-> IF r \in Playable THEN since[r] + 1 ELSE since[r]]
      /\ pending' = {r \in Playable : since'[r] >= Interval[r]}
      /\ gap' = [r \in Rules |-> Counted(r)]
      /\ UNCHANGED <<remembered, turn, lastOf, rebuilt>>
  BY DEF ServeNormal, Triggered, CountGaps
<1>3. Interval \in [Rules -> Nat] /\ since \in [Rules -> Nat] /\ gap \in [Rules -> Nat]
  BY QueueAssumption DEF EngineTypeOK
<1>4. EngineTypeOK'
  <2>1. since' \in [Rules -> Nat]
    BY <1>2, <1>3
  <2>2. gap' \in [Rules -> Nat]
    BY <1>1, <1>2, <1>3
  <2>3. lastMedia' \in Medium
    BY <1>1 DEF ServeNormal, Medium
  <2>4. out' \in [entry : Entries, rule : Rules \cup {NoRule}]
    BY <1>1 DEF ServeNormal
  <2>5. at' \in 0..Cardinality(content.pool)
    BY <1>1
  <2> QED
    BY <1>1, <1>2, <2>1, <2>2, <2>3, <2>4, <2>5 DEF EngineTypeOK
<1>5. OnTime'
  BY <1>1, <1>2, <1>3 DEF OnTime
<1>6. CycleInv'
  BY <1>1 DEF CycleInv, Varied, ServeNormal
<1> QED
  BY <1>4, <1>5, <1>6

-------------------------------------------------------------------------------
(* The theorems.                                                           *)

\* Every reachable state satisfies QueueInv.
THEOREM QueueInvariant == EngineSpec => []QueueInv
<1>1. QueueInv /\ [EngineNext]_engineVars => QueueInv'
  <2> SUFFICES ASSUME QueueInv, [EngineNext]_engineVars PROVE QueueInv'
    OBVIOUS
  <2>1. CASE EngineNext
    BY <2>1, OwedKeeps, RuleOnlyKeeps, NormalKeeps, RememberKeeps, RebuildKeeps DEF EngineNext, Serve
  <2>2. CASE UNCHANGED engineVars
    BY <2>2 DEF engineVars, ruleVars, QueueInv, EngineTypeOK, OnTime, CycleInv, Varied, Playable
  <2> QED
    BY <2>1, <2>2
<1> QED
  BY <1>1, EngineInitInv, PTL DEF EngineSpec

\* One item of a rule after every intervalCount normal items, whatever the rules
\* (docs/sync-protocol.md:259, next of the engine).
THEOREM RulesOnTime == EngineSpec => RulesKeepTime
<1> DEFINE Timely ==
      Serve /\ content.pool # {} =>
        IF out'.rule = NoRule THEN \A r \in Playable : gap[r] < Interval[r]
        ELSE gap[out'.rule] = Interval[out'.rule]
<1>1. QueueInv /\ [EngineNext]_engineVars => [Timely]_engineVars
  <2> SUFFICES ASSUME QueueInv, Serve, content.pool # {}
               PROVE  IF out'.rule = NoRule THEN \A r \in Playable : gap[r] < Interval[r]
                      ELSE gap[out'.rule] = Interval[out'.rule]
    OBVIOUS
  <2>1. CASE ServeOwed
    <3>1. PICK r \in pending : out'.rule = r
      BY <2>1 DEF ServeOwed, Return
    <3>2. r \in Playable /\ r # NoRule /\ gap[r] = Interval[r]
      BY <3>1, PlayableRules, QueueAssumption DEF QueueInv, EngineTypeOK, OnTime
    <3> QED
      BY <3>1, <3>2
  <2>2. CASE ServeNormal
    BY <2>2, NormalCounts
  <2> QED
    BY <2>1, <2>2 DEF Serve, ServeRuleOnly
<1> QED
  BY <1>1, QueueInvariant, PTL DEF EngineSpec, RulesKeepTime

\* Random play of different media repeats none at once, from one cycle to the
\* next and in a new engine (docs/sync-protocol.md:257, reshuffle).
THEOREM NoRepeats == EngineSpec => NoImmediateRepeat
<1>1. ASSUME QueueInv, Varied, ServeNormal PROVE MediumOf[out'.entry] # lastMedia
  <2>1. /\ content.pool \subseteq Entries /\ Cardinality(content.pool) \in Nat
        /\ cycle \in Orders(content.pool) /\ at \in 0..Cardinality(content.pool)
        /\ out'.entry = cycle'[at']
    BY <1>1, PoolSize, NormalCounts DEF QueueInv, EngineTypeOK
  <2>2. CASE at < Cardinality(content.pool) /\ at = 0 /\ at' = at + 1 /\ cycle' = cycle
    BY <1>1, <2>1, <2>2 DEF QueueInv, CycleInv
  <2>3. CASE at < Cardinality(content.pool) /\ at > 0 /\ at' = at + 1 /\ cycle' = cycle
    <3>1. cycle[at] \in content.pool /\ cycle[at + 1] \in content.pool /\ cycle[at + 1] # cycle[at]
      BY <2>1, <2>3 DEF Orders
    <3>2. lastMedia = MediumOf[cycle[at]]
      BY <1>1, <2>3 DEF QueueInv, CycleInv
    <3> QED
      BY <1>1, <2>1, <2>3, <3>1, <3>2 DEF Varied, Distinct
  <2>4. CASE at' = 1 /\ cycle' \in Cycles(content.pool, lastMedia)
    BY <1>1, <2>1, <2>4, CyclesHold DEF Varied
  <2> QED
    BY <1>1, <2>1, <2>2, <2>3, <2>4 DEF ServeNormal
<1>2. QueueInv /\ [EngineNext]_engineVars => [Varied /\ ServeNormal => MediumOf[out'.entry] # lastMedia]_engineVars
  BY <1>1
<1> QED
  BY <1>2, QueueInvariant, PTL DEF EngineSpec, NoImmediateRepeat

===============================================================================
