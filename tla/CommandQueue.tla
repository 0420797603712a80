----------------------------- MODULE CommandQueue -----------------------------
(***************************************************************************)
(* Remote commands of one device: the row the dashboard request creates,   *)
(* its push over the websocket, the re-delivery of undelivered rows when   *)
(* the device connects or polls, the agent's CommandExecutor, and the ack  *)
(* and result that come back over the websocket or over HTTP.              *)
(*                                                                         *)
(* Pending and sent rows are fetched alike, so a step that reads the rows  *)
(* and then marks the pending ones sent (conditionally) is one action.     *)
(***************************************************************************)
EXTENDS Naturals

CONSTANTS
  Commands,   \* command ids
  Attempts,   \* executions of one command that may be going on at a time
  Polls,      \* poll cycles that may be going on at a time: setInterval waits for none
  Budgets     \* how many events of each kind a behaviour may contain, one function per scenario

\* Commands issued, broken sockets, failed HTTP calls, agent crashes, pushes that Redis drops or
\* deliveries that the database fails, rows that reach their expiresAt.  The last two are never spent: "socket" says that
\* the network lets the device hold a websocket, "overlap" that a poll cycle may last longer
\* than the poll interval.
Events == {"issue", "link", "http", "crash", "publish", "expire", "socket", "overlap"}

Outcomes == {"completed", "failed"}
Runs == Commands \X Attempts

ASSUME CommandAssumption ==
  /\ Budgets \subseteq [Events -> Nat]

VARIABLES
  status,    \* the row's status, "none" before it exists
  older,     \* for each row, the rows created before it
  issuing,   \* rows whose POST handler has not returned, and what it did last
  expired,   \* rows past expiresAt
  ws,        \* "down", "up", or "half" when only the agent thinks it is up
  greeted,   \* deliverPendingCommands has run for this connection
  exec,      \* stage of each execution
  queue,     \* executions a poll cycle still has to go through, oldest row first
  acks,      \* acks on the websocket
  results,   \* results on the websocket
  ran,       \* history: the handlers that ran, with their outcomes
  left       \* events the environment may still cause

rowVars  == <<status, older, issuing, expired>>
linkVars == <<ws, greeted, acks, results>>
runVars  == <<exec, queue, ran>>
commandVars == <<rowVars, linkVars, runVars, left>>

Spend(kind) ==
  /\ left[kind] > 0
  /\ left' = [left EXCEPT ![kind] = @ - 1]

-------------------------------------------------------------------------------
(* The API.                                                                *)

HasRoom(c) == \E a \in Attempts : exec[<<c, a>>] = "none"
FreeRun(c) == CHOOSE r \in Runs : r[1] = c /\ exec[r] = "none"

\* The executions of the commands of cs start out at the given stage.
Started(cs, stage) ==
  [r \in Runs |-> IF r[1] \in cs /\ r = FreeRun(r[1]) THEN stage ELSE exec[r]]

\* POST .../commands: the row is created, pending.
IssueCommand(c) ==
  /\ status[c] = "none"
  /\ Spend("issue")
  /\ status' = [status EXCEPT ![c] = "pending"]
  /\ older' = [older EXCEPT ![c] = {d \in Commands : status[d] # "none"}]
  /\ issuing' = [issuing EXCEPT ![c] = "created"]
  /\ UNCHANGED <<expired, linkVars, runVars>>

\* sendToDevice: an open socket gets the command; otherwise nobody does.
PushCommand(c) ==
  /\ issuing[c] = "created"
  /\ issuing' = [issuing EXCEPT ![c] = "published"]
  /\ \/ /\ ws = "up" /\ HasRoom(c)
        /\ exec' = Started({c}, "wire")
        /\ UNCHANGED left
     \/ /\ ws # "up"
        /\ UNCHANGED <<exec, left>>
     \/ /\ ws = "up" /\ Spend("publish")
        /\ UNCHANGED exec
  /\ UNCHANGED <<status, older, expired, linkVars, queue, ran>>

\* The update that ends the POST handler has no condition on the status.
MarkSent(c) ==
  /\ issuing[c] = "published"
  /\ issuing' = [issuing EXCEPT ![c] = "done"]
  /\ status' = [status EXCEPT ![c] = "sent"]
  /\ UNCHANGED <<older, expired, linkVars, runVars, left>>

\* expiresAt passes: the row is never fetched again, and its status stays.
ExpireCommand(c) ==
  /\ status[c] # "none"
  /\ c \notin expired
  /\ Spend("expire")
  /\ expired' = expired \cup {c}
  /\ UNCHANGED <<status, older, issuing, linkVars, runVars>>

\* Mutant of Fetchable: rows already marked sent are taken for delivered.
PendingOnly(c) == status[c] = "pending" /\ c \notin expired

Fetchable(c) == status[c] \in {"pending", "sent"} /\ c \notin expired

\* What a fetch returns: the bound is Attempts.
Fetched == {c \in Commands : Fetchable(c) /\ HasRoom(c)}
MarkedSent == [c \in Commands |-> IF c \in Fetched /\ status[c] = "pending" THEN "sent" ELSE status[c]]

\* deliverPendingCommands, once for each new socket.  When the database fails, before the
\* commands are sent or after, it is not tried again on this socket.
DeliverPending ==
  /\ ws = "up"
  /\ ~greeted
  /\ greeted' = TRUE
  /\ \/ /\ exec' = Started(Fetched, "wire")
        /\ status' = MarkedSent
        /\ UNCHANGED left
     \/ /\ Spend("publish")
        /\ exec' \in {exec, Started(Fetched, "wire")}
        /\ UNCHANGED status
  /\ UNCHANGED <<older, issuing, expired, ws, acks, results, queue, ran>>

\* Mutant of Acked: the update forgets its condition on the status.
AckedAnyway(c) == [status EXCEPT ![c] = "acked"]

Acked(c) == [status EXCEPT ![c] = IF @ \in {"pending", "sent"} THEN "acked" ELSE @]

Resolved(c, o) == [status EXCEPT ![c] = IF @ \in {"pending", "sent", "acked"} THEN o ELSE @]

\* The server handles the messages of a socket side by side, in any order.
HandleAck(c) ==
  /\ c \in acks
  /\ acks' = acks \ {c}
  /\ status' = Acked(c)
  /\ UNCHANGED <<older, issuing, expired, ws, greeted, results, runVars, left>>

HandleResult(c, o) ==
  /\ <<c, o>> \in results
  /\ results' = results \ {<<c, o>>}
  /\ status' = Resolved(c, o)
  /\ UNCHANGED <<older, issuing, expired, ws, greeted, acks, runVars, left>>

-------------------------------------------------------------------------------
(* The agent.                                                              *)

\* pollFallback: GET /device/commands.  The call may be lost after the server
\* has marked the rows.
Poll(p) ==
  /\ ws = "down"
  /\ queue[p] = {}
  /\ left["overlap"] > 0 \/ \A q \in Polls : queue[q] = {}
  /\ Fetched # {}
  /\ status' = MarkedSent
  /\ \/ /\ exec' = Started(Fetched, "queued")
        /\ queue' = [queue EXCEPT ![p] = {FreeRun(c) : c \in Fetched}]
        /\ UNCHANGED left
     \/ /\ Spend("http")
        /\ UNCHANGED <<exec, queue>>
  /\ UNCHANGED <<older, issuing, expired, linkVars, ran>>

\* A command from the socket starts when it arrives; a polled one when every
\* older one of its poll cycle is through.
Ready(r) ==
  \/ exec[r] = "wire" /\ ws = "up"
  \/ /\ exec[r] = "queued"
     /\ \A p \in Polls : r \in queue[p] => \A s \in queue[p] : s[1] \notin older[r[1]]

\* execute: the ack goes over the websocket when the agent thinks it has one,
\* otherwise over HTTP, where a failure is swallowed.  Then the handler starts.
StartCommand(r) ==
  /\ Ready(r)
  /\ exec' = [exec EXCEPT ![r] = "running"]
  /\ \/ /\ ws # "down"
        /\ acks' = IF ws = "up" THEN acks \cup {r[1]} ELSE acks
        /\ UNCHANGED <<status, left>>
     \/ /\ ws = "down"
        /\ status' = Acked(r[1])
        /\ UNCHANGED <<acks, left>>
     \/ /\ ws = "down"
        /\ Spend("http")
        /\ UNCHANGED <<status, acks>>
  /\ UNCHANGED <<older, issuing, expired, ws, greeted, results, queue, ran>>

\* Mutant of FinishHandler: an outcome is taken for granted before the handler.
ReportedEarly(r) ==
  /\ exec[r] = "running"
  /\ \E o \in Outcomes : exec' = [exec EXCEPT ![r] = o]
  /\ UNCHANGED <<rowVars, linkVars, queue, ran, left>>

\* The handler returns or throws.
FinishHandler(r) ==
  /\ exec[r] = "running"
  /\ \E o \in Outcomes :
       /\ exec' = [exec EXCEPT ![r] = o]
       /\ ran' = ran \cup {<<r[1], o>>}
  /\ UNCHANGED <<rowVars, linkVars, queue, left>>

\* Mutant of Outcome: the catch branch reports success too.
AlwaysCompleted(r) == "completed"

\* What execute reports of a handler that is through.
Outcome(r) == exec[r]

\* report: a result that cannot be delivered is logged and dropped.
ReportResult(r) ==
  /\ exec[r] \in Outcomes
  /\ exec' = [exec EXCEPT ![r] = "none"]
  /\ queue' = [p \in Polls |-> queue[p] \ {r}]
  /\ \/ /\ ws # "down"
        /\ results' = IF ws = "up" THEN results \cup {<<r[1], Outcome(r)>>} ELSE results
        /\ UNCHANGED <<status, left>>
     \/ /\ ws = "down"
        /\ status' = Resolved(r[1], Outcome(r))
        /\ UNCHANGED <<results, left>>
     \/ /\ ws = "down"
        /\ Spend("http")
        /\ UNCHANGED <<status, results>>
  /\ UNCHANGED <<older, issuing, expired, ws, greeted, acks, ran>>

-------------------------------------------------------------------------------
(* The websocket and the agent process.                                    *)

Connect ==
  /\ left["socket"] > 0
  /\ ws = "down"
  /\ ws' = "up"
  /\ greeted' = FALSE
  /\ UNCHANGED <<rowVars, acks, results, runVars, left>>

\* Commands on the way to the agent are lost with the socket, and so are acks
\* and results the server had not read yet.
DropSocket ==
  /\ exec' = [r \in Runs |-> IF exec[r] = "wire" THEN "none" ELSE exec[r]]
  /\ acks' \in SUBSET acks
  /\ results' \in SUBSET results

LinkBreaks ==
  /\ ws = "up"
  /\ Spend("link")
  /\ ws' = "half"
  /\ DropSocket
  /\ UNCHANGED <<rowVars, greeted, queue, ran>>

Disconnect ==
  /\ \/ ws = "half" /\ UNCHANGED left
     \/ ws = "up" /\ Spend("link")
  /\ ws' = "down"
  /\ DropSocket
  /\ UNCHANGED <<rowVars, greeted, queue, ran>>

\* A crash, a power cut, or the reboot a reboot_device command asked for.
Restart ==
  /\ Spend("crash")
  /\ exec' = [r \in Runs |-> "none"]
  /\ queue' = [p \in Polls |-> {}]
  /\ ws' = "down"
  /\ acks' \in SUBSET acks
  /\ results' \in SUBSET results
  /\ UNCHANGED <<rowVars, greeted, ran>>

-------------------------------------------------------------------------------

CommandInit ==
  /\ status = [c \in Commands |-> "none"]
  /\ older = [c \in Commands |-> {}]
  /\ issuing = [c \in Commands |-> "none"]
  /\ expired = {}
  /\ ws = "down" /\ greeted = FALSE
  /\ exec = [r \in Runs |-> "none"]
  /\ queue = [p \in Polls |-> {}]
  /\ acks = {} /\ results = {} /\ ran = {}
  /\ left \in Budgets

ServerStep ==
  \/ \E c \in Commands :
       \/ IssueCommand(c) \/ PushCommand(c) \/ MarkSent(c) \/ ExpireCommand(c) \/ HandleAck(c)
       \/ \E o \in Outcomes : HandleResult(c, o)
  \/ DeliverPending

AgentStep ==
  \/ \E p \in Polls : Poll(p)
  \/ \E r \in Runs : StartCommand(r) \/ FinishHandler(r) \/ ReportResult(r)

LinkStep == Connect \/ LinkBreaks \/ Disconnect \/ Restart

CommandNext == ServerStep \/ AgentStep \/ LinkStep

\* Handlers end (every await has a timeout), the server handles what it got,
\* the POST handler goes on, timers fire, a broken socket is noticed.
Fairness ==
  /\ \A c \in Commands :
       WF_commandVars(PushCommand(c)) /\ WF_commandVars(MarkSent(c)) /\ WF_commandVars(HandleAck(c))
       /\ \A o \in Outcomes : WF_commandVars(HandleResult(c, o))
  /\ \A r \in Runs :
       WF_commandVars(StartCommand(r)) /\ WF_commandVars(FinishHandler(r)) /\ WF_commandVars(ReportResult(r))
  /\ WF_commandVars(DeliverPending) /\ WF_commandVars(Connect) /\ WF_commandVars(ws = "half" /\ Disconnect)
  /\ \A p \in Polls : WF_commandVars(Poll(p))

CommandSpec == CommandInit /\ [][CommandNext]_commandVars
FairSpec == CommandSpec /\ Fairness

-------------------------------------------------------------------------------
(* Properties.                                                             *)

Stages == {"none", "wire", "queued", "running"} \cup Outcomes
Statuses == {"none", "pending", "sent", "acked"} \cup Outcomes

\* Type correctness of the rows, the link and the executions.
CommandTypeOK ==
  /\ status \in [Commands -> Statuses]
  /\ older \in [Commands -> SUBSET Commands]
  /\ issuing \in [Commands -> {"none", "created", "published", "done"}]
  /\ expired \in SUBSET Commands
  /\ ws \in {"down", "half", "up"} /\ greeted \in BOOLEAN
  /\ exec \in [Runs -> Stages]
  /\ queue \in [Polls -> SUBSET Runs]
  /\ acks \in SUBSET Commands
  /\ results \in SUBSET (Commands \X Outcomes)
  /\ ran \in SUBSET (Commands \X Outcomes)
  /\ left \in [Events -> Nat]

\* A row that says completed or failed tells the truth: the device ran the
\* handler and it ended that way, however deliveries, results and crashes mix.
ResultIsTrue == \A c \in Commands : status[c] \in Outcomes => <<c, status[c]>> \in ran

\* A result on its way, or about to be reported, is true as well.
ResultsTrue ==
  /\ results \subseteq ran
  /\ \A r \in Runs : exec[r] \in Outcomes => <<r[1], exec[r]>> \in ran

\* The inductive invariant behind ResultIsTrue.
CommandInv == CommandTypeOK /\ ResultIsTrue /\ ResultsTrue

\* A recorded result is final: late acks, duplicate deliveries and other results
\* leave it alone.  Only the POST handler's own last update may overwrite it.
ResultSticks ==
  [][\A c \in Commands : status[c] \in Outcomes /\ status'[c] # status[c] => MarkSent(c)]_commandVars

HasRun(c) == \E o \in Outcomes : <<c, o>> \in ran

\* The scenario has no crash of the agent, no push that Redis drops and no delivery that the
\* database fails: said of the first state, where nothing is spent.
NothingVanishes == left["crash"] = 0 /\ left["publish"] = 0

\* A command that is issued is run by the device, unless it expires first: a
\* broken socket, failed HTTP calls and late acks are got over.
EveryCommandRuns ==
  \A c \in Commands : status[c] # "none" ~> HasRun(c) \/ c \in expired

\* That holds as long as nothing of the kind happens.
EventuallyRuns == NothingVanishes => EveryCommandRuns

===============================================================================
