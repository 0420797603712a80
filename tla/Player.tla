-------------------------------- MODULE Player --------------------------------
(***************************************************************************)
(* The kiosk page that plays what the agent tells it to: showCurrent with  *)
(* its awaits, the advance and ceiling timers, the video element, the      *)
(* progress reports that detect a wedged video, and applyState.            *)
(*                                                                         *)
(* playToken only makes a superseded call do nothing, so the call that is  *)
(* in flight, if any, is the newest one.  errorStreak is positive exactly  *)
(* when lastFailedMediaId is set, so the latter stands for both.  In the   *)
(* random modes a playlist's items are its pool and its priority items.    *)
(***************************************************************************)
EXTENDS Naturals, Sequences

CONSTANTS
  Items,         \* playlist item ids
  MediaOf,       \* the media of each item
  Videos,        \* items whose media is a video
  Timed,         \* items with a duration of their own
  Playlists,     \* playable contents the agent may send
  StallReports,  \* PLAYER_STALL_REPORTS
  NoItem, NoMedia

Playlist == [items : Seq(Items), loop : BOOLEAN, random : BOOLEAN]
Nothing == [items |-> <<>>, loop |-> FALSE, random |-> FALSE]

ASSUME PlayerAssumption ==
  /\ NoItem \notin Items
  /\ \A i \in Items : MediaOf[i] # NoMedia
  /\ Videos \subseteq Items /\ Timed \subseteq Items
  /\ Playlists \subseteq Playlist
  /\ StallReports \in Nat \ {0}

VARIABLES
  state,    \* the content of the last PlayerState
  index,    \* position in a manual order, from 1
  play,     \* what the random queue gave last
  current,  \* currentItemId
  show,     \* the showCurrent call in flight
  screen,   \* the item on the visible layer, NoItem when the info screen is up
  last,     \* the last playback event
  failed,   \* lastFailedMediaId
  timer,    \* the advance timer is armed
  video, loops, motion,              \* the video being watched
  ceiling, stirred, moving, still,   \* its ceiling timer and progress reports
  outlived  \* history: a state update kept the current item when nothing was to end its play

watchVars == <<video, loops, motion, ceiling, stirred, moving, still>>
vars == <<state, index, play, current, show, screen, last, failed, timer, watchVars, outlived>>

PoolOf(s) == {s.items[j] : j \in DOMAIN s.items}
ActiveItem == IF state.random THEN play ELSE state.items[index]

NoShow == [phase |-> "none", item |-> NoItem, single |-> FALSE]

-------------------------------------------------------------------------------
(* Showing an item.                                                        *)

DetachVideo ==
  /\ video' = NoItem /\ loops' = FALSE /\ motion' = "none"
  /\ ceiling' = FALSE /\ stirred' = FALSE /\ moving' = 0 /\ still' = 0

\* The only item of a looping manual playlist stays until something changes.
Single(s) == ~s.random /\ Len(s.items) = 1 /\ s.loop

\* showCurrent up to its first await, f being the media that failed last.
Start(i, s, f) ==
  /\ show' = [phase |-> IF MediaOf[i] = f THEN "backoff" ELSE "load", item |-> i, single |-> Single(s)]
  /\ current' = i
  /\ timer' = FALSE
  /\ outlived' = FALSE
  /\ DetachVideo

\* A finite playlist is over: a still frame stays, a video gives way to the info
\* screen.
AtEnd == ~state.random /\ ~state.loop /\ index = Len(state.items)
Finish ==
  /\ show' = NoShow
  /\ timer' = FALSE
  /\ UNCHANGED outlived
  /\ \/ /\ ActiveItem \in Videos
        /\ screen' = NoItem
        /\ DetachVideo
     \/ /\ ActiveItem \notin Videos
        /\ UNCHANGED <<screen, watchVars>>

\* advance, after its event.
Advance(f) ==
  \/ /\ state.random
     /\ \E i \in PoolOf(state) : play' = i /\ Start(i, state, f)
     /\ UNCHANGED <<state, index, screen>>
  \/ /\ ~state.random /\ ~AtEnd
     /\ index' = IF index = Len(state.items) THEN 1 ELSE index + 1
     /\ Start(state.items[index'], state, f)
     /\ UNCHANGED <<state, play, screen>>
  \/ /\ AtEnd
     /\ Finish
     /\ UNCHANGED <<state, index, play, current>>

End ==
  /\ last' = <<"end", ActiveItem>>
  /\ failed' = NoMedia
  /\ Advance(NoMedia)

\* failCurrent.
Fail(i) ==
  /\ last' = <<"error", i>>
  /\ failed' = MediaOf[i]
  /\ Advance(MediaOf[i])

BackoffEnds ==
  /\ show.phase = "backoff"
  /\ show' = [show EXCEPT !.phase = "load"]
  /\ UNCHANGED <<state, index, play, current, screen, last, failed, timer, watchVars, outlived>>

\* Mutant of AdvanceTimer: an item without a duration of its own gets no timer.
OnlyTimed(i, single) == i \in Timed /\ ~single

\* Which items get an advance timer: images have a default duration.
AdvanceTimer(i, single) == (i \in Videos => i \in Timed) /\ ~single

\* Mutant of CeilingFor: a looping video has no end, so it gets no timer.
NoneForLoops(single) == ~single

CeilingFor(single) == TRUE

\* The element has its data: it is swapped in and its timers are armed.
Loaded ==
  /\ show.phase = "load"
  /\ show' = NoShow
  /\ screen' = show.item
  /\ last' = <<"start", show.item>>
  /\ timer' = AdvanceTimer(show.item, show.single)
  /\ \/ /\ show.item \in Videos
        /\ video' = show.item /\ loops' = show.single /\ motion' = "moving"
        /\ ceiling' = CeilingFor(show.single) /\ stirred' = TRUE
        /\ UNCHANGED <<failed, moving, still>>
     \/ /\ show.item \notin Videos
        /\ failed' = NoMedia
        /\ UNCHANGED watchVars
  /\ UNCHANGED <<state, index, play, current, outlived>>

\* It does not load, or not within PRELOAD_TIMEOUT_MS.
LoadFails ==
  /\ show.phase = "load"
  /\ Fail(show.item)

-------------------------------------------------------------------------------
(* Timers and the video element.                                           *)

TimerFires == timer /\ End

\* A looping video never ends: it starts over.
VideoEnds == video # NoItem /\ motion = "moving" /\ ~loops /\ End

VideoErrors == video # NoItem /\ Fail(video)

\* It stops moving, with neither `ended` nor `error`.
VideoWedges ==
  /\ motion = "moving"
  /\ motion' = "wedged"
  /\ UNCHANGED <<state, index, play, current, show, screen, last, failed, timer,
                 video, loops, ceiling, stirred, moving, still, outlived>>

\* timeupdate.
VideoMoves ==
  /\ motion = "moving" /\ ~stirred
  /\ stirred' = TRUE
  /\ UNCHANGED <<state, index, play, current, show, screen, last, failed, timer,
                 video, loops, motion, ceiling, moving, still, outlived>>

\* A looping video that moves has the ceiling armed again at each turn.
CeilingFires ==
  /\ ceiling
  /\ loops => motion = "wedged"
  /\ Fail(video)

Sustained == 2  \* reports of movement that count as playing well

\* reportProgress: the first report of a video counts as movement.
ReportMoving ==
  /\ video # NoItem /\ stirred
  /\ stirred' = FALSE
  /\ still' = 0
  /\ moving' = IF moving < Sustained THEN moving + 1 ELSE moving
  /\ failed' = IF moving' = Sustained THEN NoMedia ELSE failed
  /\ UNCHANGED <<state, index, play, current, show, screen, last, timer,
                 video, loops, motion, ceiling, outlived>>

ReportStill ==
  /\ video # NoItem /\ ~stirred
  /\ still + 1 < StallReports
  /\ still' = still + 1
  /\ moving' = 0
  /\ UNCHANGED <<state, index, play, current, show, screen, last, failed, timer,
                 video, loops, motion, ceiling, stirred, outlived>>

ReportStalled ==
  /\ video # NoItem /\ ~stirred
  /\ still + 1 >= StallReports
  /\ Fail(video)

-------------------------------------------------------------------------------
(* States from the agent.                                                  *)

\* Mutant of KeptIndex: the position is kept, not the item.
SamePosition(s) == IF index <= Len(s.items) THEN index ELSE 1

KeptIndex(s) == CHOOSE j \in DOMAIN s.items : s.items[j] = current

\* applyState, when something of the content changed.
ApplyEmpty ==
  /\ state' = Nothing
  /\ show' = NoShow /\ current' = NoItem /\ play' = NoItem
  /\ timer' = FALSE /\ screen' = NoItem /\ outlived' = FALSE
  /\ DetachVideo
  /\ UNCHANGED <<index, last, failed>>

ApplyRandom(s) ==
  /\ s.random /\ s.items # <<>>
  /\ state' = s
  /\ \E i \in PoolOf(s) : play' = i /\ Start(i, s, failed)
  /\ UNCHANGED <<index, screen, last, failed>>

\* The current item is not in the new list: playback restarts.
ApplyNew(s) ==
  /\ ~s.random /\ s.items # <<>>
  /\ current \notin PoolOf(s)
  /\ state' = s
  /\ play' = NoItem
  /\ index' = 1
  /\ Start(s.items[1], s, failed)
  /\ UNCHANGED <<screen, last, failed>>

\* Nothing will end the play of the current item: it is (or will be) on the screen for a list
\* of one, or playback has come to its end.
NothingEnds ==
  /\ ~timer /\ (video = NoItem \/ loops)
  /\ show = NoShow \/ show.single

\* It is: nothing else happens.
ApplyKept(s) ==
  /\ ~s.random
  /\ current \in PoolOf(s)
  /\ state' = s
  /\ play' = NoItem
  /\ index' = KeptIndex(s)
  /\ outlived' = (outlived \/ NothingEnds)
  /\ UNCHANGED <<current, show, screen, last, failed, timer, watchVars>>

\* The kiosk browser starts over.
Reload ==
  /\ state' = Nothing /\ index' = 1 /\ play' = NoItem /\ current' = NoItem
  /\ show' = NoShow /\ screen' = NoItem /\ last' = <<"none", NoItem>> /\ failed' = NoMedia
  /\ timer' = FALSE /\ outlived' = FALSE
  /\ DetachVideo

-------------------------------------------------------------------------------

Init ==
  /\ state = Nothing /\ index = 1 /\ play = NoItem /\ current = NoItem
  /\ show = NoShow /\ screen = NoItem /\ last = <<"none", NoItem>> /\ failed = NoMedia
  /\ timer = FALSE
  /\ video = NoItem /\ loops = FALSE /\ motion = "none"
  /\ ceiling = FALSE /\ stirred = FALSE /\ moving = 0 /\ still = 0
  /\ outlived = FALSE

Playback ==
  \/ BackoffEnds \/ Loaded \/ LoadFails
  \/ TimerFires \/ VideoEnds \/ VideoErrors \/ VideoWedges \/ VideoMoves
  \/ CeilingFires \/ ReportMoving \/ ReportStill \/ ReportStalled

Intake ==
  \/ ApplyEmpty \/ Reload
  \/ \E s \in Playlists : ApplyRandom(s) \/ ApplyNew(s) \/ ApplyKept(s)

Next == Playback \/ Intake

\* Timers fire, loads end one way or the other, a video that moves comes to its end.
Fairness ==
  /\ WF_vars(BackoffEnds) /\ WF_vars(Loaded \/ LoadFails)
  /\ WF_vars(TimerFires) /\ WF_vars(VideoEnds) /\ WF_vars(CeilingFires)
  /\ WF_vars(ReportMoving \/ ReportStill \/ ReportStalled)

Spec == Init /\ [][Next]_vars
FairSpec == Spec /\ Fairness

-------------------------------------------------------------------------------
(* Properties.                                                             *)

\* What the order is at, and what the page shows of it.
OrderOK ==
  /\ state \in Playlist
  /\ index \in Nat \ {0}
  /\ state.items # <<>> /\ ~state.random => index \in DOMAIN state.items
  /\ play \in Items \cup {NoItem} /\ current \in Items \cup {NoItem}

ScreenOK ==
  /\ screen \in Items \cup {NoItem} /\ video \in Videos \cup {NoItem}
  /\ show \in [phase : {"none", "backoff", "load"}, item : Items \cup {NoItem}, single : BOOLEAN]
  /\ last \in {"none", "start", "end", "error"} \X (Items \cup {NoItem})

ReportsOK ==
  /\ timer \in BOOLEAN /\ loops \in BOOLEAN /\ ceiling \in BOOLEAN /\ stirred \in BOOLEAN
  /\ motion \in {"none", "moving", "wedged"}
  /\ moving \in 0..Sustained /\ still \in Nat
  /\ outlived \in BOOLEAN

\* Type correctness of the page's variables.
TypeOK == OrderOK /\ ScreenOK /\ ReportsOK

\* Whatever can end a play belongs to the play that was started last, of the item
\* the order is at and the screen shows: the statistics count no play twice and
\* none of another item, however updates, failures and timers meet.
EndsWhatStarted ==
  timer \/ video # NoItem =>
    /\ last = <<"start", current>>
    /\ ActiveItem = current /\ screen = current /\ current # NoItem
    /\ video # NoItem => video = current

\* Every video on the screen has a ceiling, the single looping one included.
VideoWatched == video # NoItem => ceiling

\* The current item is the one the order is at.
CurrentIsActive == current # NoItem => state.items # <<>> /\ ActiveItem = current

\* A call in flight is about the current item, and nothing else can end a play.
ShowIsCurrent ==
  show.phase # "none" => current # NoItem /\ show.item = current /\ ~timer /\ video = NoItem

\* The inductive invariant behind EndsWhatStarted and VideoWatched.
PlayerInv ==
  /\ TypeOK /\ EndsWhatStarted /\ VideoWatched
  /\ CurrentIsActive /\ ShowIsCurrent
  /\ ceiling => video # NoItem

\* A looping playlist of several items, or a random one, never comes to a rest, wherever loads
\* fail, videos wedge and updates come, except in one way: applyState keeps an item that nothing
\* will end, because it was started for a list of one item or its finite list is over.
NeedsMotion == state.random \/ (state.loop /\ Len(state.items) > 1)
NeverFrozen == []<>(NeedsMotion => show # NoShow \/ outlived)

\* Without the exception.
AlwaysMoves == []<>(NeedsMotion => show # NoShow)

===============================================================================
