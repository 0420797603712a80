------------------------------- MODULE Telemetry -------------------------------
(***************************************************************************)
(* What an agent tells the server about its screen: playback events and    *)
(* log lines, buffered in SQLite and flushed in batches; the item now      *)
(* playing, in heartbeats and status messages; and the liveness monitor    *)
(* that watches the player and writes a log line when it dies.             *)
(*                                                                         *)
(* The network may lose a request or its response, the API and the agent   *)
(* may die at any point; a request its sender has given up may still be    *)
(* processed, after later ones.  A heartbeat arrives at once, or is        *)
(* delayed or lost.  The database writes of a callback are one step, and   *)
(* event ids grow with the time of the event.                              *)
(***************************************************************************)
EXTENDS Naturals, FiniteSets

CONSTANTS
  Flushers,  \* who may run flushBuffers at the same time: the timer and send_logs commands
  Kept,      \* rows a buffer keeps, 5000
  Batch,     \* rows of a request, 500
  MaxRows,   \* bound: rows a behaviour writes into one buffer
  Watchdog,  \* whether the configuration switches the liveness monitor on
  Budgets    \* how many events of each kind a behaviour may contain, one function per scenario

Kinds == {"event", "log"}

\* An item starts, an item ends or fails, a log line is written elsewhere in the agent; a
\* request or its response is lost; a heartbeat is delayed or lost; the agent restarts; the page dies, or
\* is restarted, its socket breaks; 30 s pass without any page having connected; a sync starts.
Events == {"start", "end", "line", "loss", "beat", "crash", "dead", "page", "socket", "unmet",
           "sync"}

ASSUME TelemetryAssumption ==
  /\ Kept \in Nat \ {0}
  /\ Batch \in Nat \ {0}
  /\ MaxRows \in Nat
  /\ Watchdog \in BOOLEAN
  /\ Budgets \subseteq [Events -> Nat]

Lines == {"other", "player_disconnected", "playback_stalled", "recovered"}
Problems == {"player_disconnected", "playback_stalled"}
None == "none"
Nothing == 0

VARIABLES
  made,      \* rows ever inserted in each buffer
  buffer,    \* rows in each buffer
  starts,    \* the events that tell of an item starting
  line,      \* what each log line says
  wire,      \* requests the server has not finished, with the run that sent and may await them
  stored,    \* how many rows the server has for each entry
  position,  \* the agent's current item: the event of its start, Nothing when unknown
  beats,     \* positions in the heartbeats and status messages that are delayed
  shown,     \* the item the server shows as playing
  page,      \* the kiosk page: its event loop runs, its socket to the agent is open
  seen,      \* the monitor's clocks: since the last socket, since the last progress
  problem,   \* livenessProblem
  busy,      \* nothing to watch: no content, or a sync is under way
  left       \* events the environment may still cause

bufferVars == <<made, buffer, starts, line>>
shownVars == <<position, beats, shown>>
watchVars == <<page, seen, problem, busy>>
vars == <<bufferVars, wire, stored, shownVars, watchVars, left>>

Spend(kind) ==
  /\ left[kind] > 0
  /\ left' = [left EXCEPT ![kind] = @ - 1]

\* The entries the server has.
Rows(k) == {e \in 1..MaxRows : stored[k][e] > 0}

-------------------------------------------------------------------------------
(* The buffers *)

\* Mutant of Newest: one row too few is kept.
NewestButOne(S) == {e \in S : Cardinality({x \in S : x > e}) + 1 < Kept}

\* The ring: bufferLog and bufferEvent delete all but the newest rows.
Newest(S) == {e \in S : Cardinality({x \in S : x > e}) < Kept}

\* takeLogs, takeEvents.
Oldest(S) == {e \in S : Cardinality({x \in S : x < e}) < Batch}

Insert(k) ==
  /\ made[k] < MaxRows
  /\ made' = [made EXCEPT ![k] = @ + 1]
  /\ buffer' = [buffer EXCEPT ![k] = Newest(@ \cup {made[k] + 1})]

\* bufferLog.
WriteLine(text) ==
  /\ Insert("log")
  /\ line' = [n \in 1..made'.log |-> IF n = made'.log THEN text ELSE line[n]]
  /\ UNCHANGED starts

\* Somewhere else in the agent: a failed or refused sync, damaged or evicted files.
LogLine ==
  /\ Spend("line")
  /\ WriteLine("other")
  /\ UNCHANGED <<wire, stored, shownVars, watchVars>>

\* The player reports that an item starts: buffered, remembered, and sent as a status message
\* when the websocket is connected.  (Delayed, it is as a heartbeat that is delayed.)
ItemStarts ==
  /\ Spend("start")
  /\ page.runs /\ page.socket
  /\ Insert("event")
  /\ starts' = starts \cup {made'.event}
  /\ position' = made'.event
  /\ shown' \in {shown, made'.event}
  /\ UNCHANGED <<line, wire, stored, beats, watchVars>>

\* The player reports an end or an error.
ItemEnds ==
  /\ Spend("end")
  /\ page.runs /\ page.socket
  /\ Insert("event")
  /\ UNCHANGED <<starts, line, wire, stored, shownVars, watchVars>>

-------------------------------------------------------------------------------
(* flushBuffers *)

Running(f) == \E q \in wire : q.by = f /\ q.awaited

\* A run sends log lines first, then events, then it is done.
Post(k, f, others) ==
  wire' = others \cup
    {[kind |-> k, rows |-> Oldest(buffer'[k]), by |-> f, awaited |-> TRUE, saved |-> FALSE]}

SendEvents(f, others) ==
  IF buffer'["event"] = {} THEN wire' = others ELSE Post("event", f, others)

StartFlush(f) ==
  /\ ~Running(f)
  /\ \E k \in Kinds : buffer[k] # {}
  /\ UNCHANGED buffer
  /\ IF buffer["log"] = {} THEN SendEvents(f, wire) ELSE Post("log", f, wire)
  /\ UNCHANGED <<made, starts, line, stored, shownVars, watchVars, left>>

\* Mutant of Answered: the oldest rows are deleted, those sent or not.
AnsweredOldest(q) ==
  /\ q.awaited
  /\ buffer' = [buffer EXCEPT ![q.kind] = @ \ Oldest(@)]
  /\ IF q.kind = "log" THEN SendEvents(q.by, wire \ {q}) ELSE wire' = wire \ {q}

\* The response arrives: the rows sent are deleted, whatever the buffer has become meanwhile.
Answered(q) ==
  /\ q.awaited
  /\ buffer' = [buffer EXCEPT ![q.kind] = @ \ q.rows]
  /\ IF q.kind = "log" THEN SendEvents(q.by, wire \ {q}) ELSE wire' = wire \ {q}

\* Nobody waits for this response any more.
Unheard(q) ==
  /\ ~q.awaited
  /\ wire' = wire \ {q}
  /\ UNCHANGED buffer

\* The request fails or times out and the run ends, the events untouched when it was about
\* logs; the server may or may not have it, and may have died with it half done.
RequestFails(q) ==
  /\ q.awaited
  /\ Spend("loss")
  /\ wire' \in {wire \ {q}, (wire \ {q}) \cup {[q EXCEPT !.awaited = FALSE]}}
  /\ UNCHANGED <<bufferVars, stored, shownVars, watchVars>>

-------------------------------------------------------------------------------
(* The server *)

\* Mutant of Duplicate: an event gets its id when its batch is sent.
DuplicateOfNothing(q, e) == FALSE

\* The table has the event: its clientEventId was made when it was buffered, so that every batch
\* carries the same one, and it is unique for the device.  Log lines have no such id.
Duplicate(q, e) == q.kind = "event" /\ stored["event"][e] > 0

\* createMany, with skipDuplicates for the events: every row of the batch but those.
StoreRows(q) ==
  /\ ~q.saved
  /\ stored' = [stored EXCEPT ![q.kind] =
       [e \in 1..MaxRows |-> IF e \in q.rows /\ ~Duplicate(q, e) THEN @[e] + 1 ELSE @[e]]]
  /\ wire' = (wire \ {q}) \cup {[q EXCEPT !.saved = TRUE]}
  /\ UNCHANGED <<bufferVars, shownVars, watchVars, left>>

\* The latest start of the batch becomes the item shown, however old the batch is.
ShowLatest(q) ==
  LET batch == IF q.kind = "event" THEN q.rows \cap starts ELSE {}
  IN  shown' = IF batch = {} THEN shown ELSE CHOOSE e \in batch : \A x \in batch : x <= e

FinishRequest(q) ==
  /\ q.saved
  /\ ShowLatest(q)
  /\ Answered(q) \/ Unheard(q)
  /\ UNCHANGED <<made, starts, line, stored, position, beats, watchVars, left>>

\* Mutant of Heartbeat: without the current item.
HeartbeatBare == UNCHANGED vars

\* sendHeartbeat, by websocket or by HTTP when there is none, and applyHeartbeat.
Heartbeat ==
  /\ shown' = position
  /\ UNCHANGED <<bufferVars, wire, stored, position, beats, watchVars, left>>

DelayBeat ==
  /\ Spend("beat")
  /\ beats' = beats \cup {position}
  /\ UNCHANGED <<bufferVars, wire, stored, position, shown, watchVars>>

\* applyHeartbeat, or a status message, late: the server handles those of one device
\* concurrently.
ApplyBeat(p) ==
  /\ p \in beats
  /\ shown' = p
  /\ beats' = beats \ {p}
  /\ UNCHANGED <<bufferVars, wire, stored, position, watchVars, left>>

LoseBeat(p) ==
  /\ p \in beats
  /\ beats' = beats \ {p}
  /\ UNCHANGED <<bufferVars, wire, stored, position, shown, watchVars, left>>

-------------------------------------------------------------------------------
(* The player's page and the liveness monitor *)

\* PlayerServer after start: no socket yet, no progress yet.
Unseen == [met |-> FALSE, gone |-> FALSE, progress |-> FALSE, stalled |-> FALSE]

\* The clock since the last socket starts when a socket opens and when it closes.
SocketSeen(s) == [s EXCEPT !.met = TRUE, !.gone = FALSE]

\* The renderer dies, with its socket or without.
PageDies ==
  /\ page.runs
  /\ Spend("dead")
  /\ \/ page' = [page EXCEPT !.runs = FALSE] /\ UNCHANGED seen
     \/ page.socket /\ page' = [runs |-> FALSE, socket |-> FALSE] /\ seen' = SocketSeen(seen)
  /\ UNCHANGED <<bufferVars, wire, stored, shownVars, problem, busy>>

\* The kiosk starts the browser again.
PageRestarts ==
  /\ ~page.runs
  /\ Spend("page")
  /\ page' = [runs |-> TRUE, socket |-> FALSE]
  /\ seen' = IF page.socket THEN SocketSeen(seen) ELSE seen
  /\ UNCHANGED <<bufferVars, wire, stored, shownVars, problem, busy>>

\* restart_player kicks the players, or the connection fails.
SocketBreaks ==
  /\ page.socket
  /\ Spend("socket")
  /\ page' = [page EXCEPT !.socket = FALSE]
  /\ seen' = SocketSeen(seen)
  /\ UNCHANGED <<bufferVars, wire, stored, shownVars, problem, busy>>

PageConnects ==
  /\ page.runs /\ ~page.socket
  /\ page' = [page EXCEPT !.socket = TRUE]
  /\ seen' = SocketSeen(seen)
  /\ UNCHANGED <<bufferVars, wire, stored, shownVars, problem, busy, left>>

\* player_progress, every 5 s whatever is on the screen.
Progress ==
  /\ page.runs /\ page.socket
  /\ seen.stalled \/ ~seen.progress
  /\ seen' = [seen EXCEPT !.progress = TRUE, !.stalled = FALSE]
  /\ UNCHANGED <<bufferVars, wire, stored, shownVars, page, problem, busy, left>>

\* 30 s since the last socket, or 90 s since the last progress; a page that runs reports sooner.
TimePasses ==
  /\ \/ /\ ~page.socket /\ ~seen.gone
        /\ IF seen.met THEN UNCHANGED left ELSE Spend("unmet")
        /\ seen' = [seen EXCEPT !.gone = TRUE]
     \/ /\ page.socket => ~page.runs
        /\ seen.progress /\ ~seen.stalled
        /\ seen' = [seen EXCEPT !.stalled = TRUE]
        /\ UNCHANGED left
  /\ UNCHANGED <<bufferVars, wire, stored, shownVars, page, problem, busy>>

SyncStarts ==
  /\ ~busy
  /\ Spend("sync")
  /\ busy' = TRUE
  /\ UNCHANGED <<bufferVars, wire, stored, shownVars, page, seen, problem>>

SyncEnds ==
  /\ busy
  /\ busy' = FALSE
  /\ UNCHANGED <<bufferVars, wire, stored, shownVars, page, seen, problem, left>>

\* Mutant of Verdict: an open socket is taken for a living page.
VerdictBySocket == IF ~page.socket /\ seen.gone THEN "player_disconnected" ELSE None

Verdict ==
  IF ~page.socket /\ seen.gone THEN "player_disconnected"
  ELSE IF page.socket /\ seen.stalled THEN "playback_stalled"
  ELSE None

\* livenessSince = now, which is the clock since the last socket as long as there was none.
Rewound == IF seen.met THEN seen ELSE [seen EXCEPT !.gone = FALSE]

\* evaluateLiveness with nothing to watch: the problem is forgotten without a word.
LivenessIdle ==
  /\ Watchdog
  /\ busy
  /\ problem' = None
  /\ seen' = Rewound
  /\ UNCHANGED <<bufferVars, wire, stored, shownVars, page, busy, left>>

\* evaluateLiveness, when its verdict has changed.
LivenessChanges ==
  /\ Watchdog
  /\ ~busy
  /\ Verdict # problem
  /\ WriteLine(IF Verdict = None THEN "recovered" ELSE Verdict)
  /\ problem' = Verdict
  /\ seen' = Rewound
  /\ UNCHANGED <<wire, stored, shownVars, page, busy, left>>

\* The agent restarts: its memory is gone, its buffers are not, its sockets close.
CrashAgent ==
  /\ Spend("crash")
  /\ wire' = {[q EXCEPT !.awaited = FALSE] : q \in wire}
  /\ position' = Nothing
  /\ page' = [page EXCEPT !.socket = FALSE]
  /\ seen' = Unseen
  /\ problem' = None
  /\ busy' = FALSE
  /\ UNCHANGED <<bufferVars, stored, beats, shown>>

-------------------------------------------------------------------------------

Init ==
  /\ made = [k \in Kinds |-> 0]
  /\ buffer = [k \in Kinds |-> {}]
  /\ starts = {}
  /\ line = <<>>
  /\ wire = {}
  /\ stored = [k \in Kinds |-> [e \in 1..MaxRows |-> 0]]
  /\ position = Nothing
  /\ beats = {}
  /\ shown = Nothing
  /\ page = [runs |-> TRUE, socket |-> FALSE]
  /\ seen = Unseen
  /\ problem = None
  /\ busy = FALSE
  /\ left \in Budgets

Write == LogLine \/ ItemStarts \/ ItemEnds
Send == (\E f \in Flushers : StartFlush(f)) \/ \E q \in wire : RequestFails(q)
Serve == \E q \in wire : StoreRows(q) \/ FinishRequest(q)
Beat == Heartbeat \/ DelayBeat \/ \E p \in beats : ApplyBeat(p) \/ LoseBeat(p)
Watch ==
  \/ PageDies \/ PageRestarts \/ SocketBreaks \/ PageConnects \/ Progress \/ TimePasses
  \/ SyncStarts \/ SyncEnds \/ LivenessIdle \/ LivenessChanges

Next == Write \/ Send \/ Serve \/ Beat \/ Watch \/ CrashAgent

Spec == Init /\ [][Next]_vars

\* The flush timer, the heartbeat timer and the monitor's timer fire again and again, the
\* server finishes what reaches it, a page that runs connects and reports, a sync ends, time
\* passes.  A request that is lost and a heartbeat that is delayed spend a budget: the network
\* comes back in the end.
Fairness ==
  /\ WF_vars(\E f \in Flushers : StartFlush(f))
  /\ WF_vars(Serve)
  /\ WF_vars(Heartbeat)
  /\ WF_vars(\E p \in beats : ApplyBeat(p) \/ LoseBeat(p))
  /\ WF_vars(PageConnects)
  /\ WF_vars(Progress)
  /\ WF_vars(TimePasses)
  /\ WF_vars(SyncEnds)
  /\ WF_vars(LivenessChanges)

FairSpec == Spec /\ Fairness

-------------------------------------------------------------------------------
(* Properties *)

\* Buffered, or in a request the server has not finished, and not stored yet.
OnTheWay(k) == (buffer[k] \cup UNION {q.rows : q \in {r \in wire : r.kind = k}}) \ Rows(k)

\* Written, and neither stored nor on the way.
GivenUp(k) == 1..made[k] \ (Rows(k) \cup OnTheWay(k))

Requests == [kind : Kinds, rows : SUBSET Nat, by : Flushers, awaited : BOOLEAN, saved : BOOLEAN]

BuffersOK ==
  /\ made \in [Kinds -> Nat] /\ \A k \in Kinds : made[k] <= MaxRows
  /\ buffer \in [Kinds -> SUBSET Nat] /\ \A k \in Kinds : buffer[k] \subseteq 1..made[k]
  /\ stored \in [Kinds -> [1..MaxRows -> Nat]] /\ \A k \in Kinds : Rows(k) \subseteq 1..made[k]
  /\ wire \subseteq Requests /\ \A q \in wire : q.rows \subseteq 1..made[q.kind]

TypeOK ==
  /\ BuffersOK
  /\ starts \subseteq 1..made["event"]
  /\ \A n \in 1..made["log"] : line[n] \in Lines
  /\ {position, shown} \cup beats \subseteq 0..made["event"]
  /\ problem \in Problems \cup {None}
  /\ left \in [Events -> Nat]

\* A log line the server has, however many rows say so, is known to it.
Known == [e \in 1..MaxRows |-> IF e \in Rows("log") THEN 1 ELSE 0]

\* The buffers implement the ledger: an entry stays on its way until the server has it, and is
\* given up only when the ring has dropped it for Kept newer ones; in the end it is one or the
\* other.  A play is counted once (docs/sync-protocol.md, "plays are never double-counted"),
\* however often its batch is sent: two flushes at a time, lost responses, requests processed
\* late.  flushBuffers deletes what it has sent, not what is in the buffer when it is done.
EventLedger == INSTANCE Ledger WITH Entries <- 1..MaxRows, made <- made["event"],
  pending <- OnTheWay("event"), counted <- stored["event"], lost <- GivenUp("event")
LogLedger == INSTANCE Ledger WITH Entries <- 1..MaxRows, made <- made["log"],
  pending <- OnTheWay("log"), counted <- Known, lost <- GivenUp("log")

BuffersAreKept == EventLedger!Spec /\ LogLedger!Spec

\* When no more items start, the dashboard comes to show the agent's current item and stays
\* with it, whatever old batches and old heartbeats were processed after newer ones.
NowPlayingSettles == <>[](shown = position)

\* The monitor has a page to miss that will not come back.
PageIsLost == ~page.runs /\ ~busy /\ IF page.socket THEN seen.progress ELSE seen.met

\* The last thing the log says of the page is that something is wrong, and the server has it
\* or it was given up.
ProblemTold ==
  \E n \in Rows("log") \cup GivenUp("log") :
    /\ line[n] \in Problems
    /\ \A m \in n + 1..made["log"] : line[m] = "other"

\* A page that had connected to this agent and dies is reported to the server, offline or not,
\* restarted syncs or not (docs/tasks/T015, "the report survives the device being offline"),
\* when the monitor is on.
LostPageIsReported == Watchdog /\ <>[]PageIsLost => <>[]ProblemTold

\* The monitor reports a recovery only when a page is connected.
RecoveryIsReal ==
  [][made'["log"] > made["log"] /\ line'[made'["log"]] = "recovered" => page.socket]_vars

===============================================================================
