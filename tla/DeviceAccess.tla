----------------------------- MODULE DeviceAccess -----------------------------
(***************************************************************************)
(* How boxes get to act as one device of the dashboard, and stay in touch: *)
(* the pairing code and the token it is exchanged for, the agent's saved   *)
(* credentials, the token check of every request, the agent's websocket    *)
(* with its reconnects, the API's hub of sockets, and the sync_required    *)
(* that tells a connected agent of new content.                            *)
(*                                                                         *)
(* Several boxes may hold the same code: SD cards are cloned.  The API is  *)
(* one process.  A box has at most one pairing request in the API, and two *)
(* sockets there: the one it dialled last and one it has given up on.      *)
(***************************************************************************)
EXTENDS Naturals, Sequences

CONSTANTS
  Boxes,     \* machines running the agent
  Versions,  \* manifest versions the device's content can have
  Budgets    \* how many events of each kind a behaviour may contain, one function per scenario

NoCode == 0
NoToken == 0
NoManifest == 0

\* Agents and API processes that die, links and responses that get lost, pushes Redis drops,
\* syncs that fail, credentials that cannot be written; in the dashboard, codes regenerated, tokens revoked, the device deleted, its content
\* changed; `signage pair` on a box; codes that expire.
Events == {"crash", "restart", "link", "timeout", "publish", "sync", "disk",
           "code", "revoke", "delete", "change", "visit", "expire"}

ASSUME AccessAssumption ==
  /\ Versions # {} /\ Versions \subseteq Nat \ {NoManifest}
  /\ Budgets \subseteq [Events -> Nat]

VARIABLES
  device,   \* the row: code, whether it has expired, deleted
  codes,    \* codes generated so far
  regen,    \* a regenerate-pairing-code handler has read the device and will write it
  tokens,   \* rows of DeviceToken: the code each was exchanged for, revoked
  claim,    \* each box's pairing request in the API: stage, code, token
  box,      \* each agent: stage, configured code, token it uses, token on disk
  link,     \* each agent's websocket: off, timer, dialing or open
  srv,      \* the sockets of a box in the API: the last one and the one given up
  hub,      \* the socket WsHub holds for the device, <<>> if none
  version,  \* manifest version of the device
  known,    \* version each agent has applied
  run,      \* manifest each agent's sync has fetched and not applied yet
  hello,    \* hellos not answered yet, with the version the agent had
  wire,     \* agents a sync_required is on its way to
  told,     \* agents with a sync to run
  unsent,   \* a change is committed and not yet published
  missed,   \* history: whose last sync failed, or who was connected when word of a change was lost
  left      \* events the environment may still cause

pairVars == <<device, codes, regen, tokens, claim>>
wireVars == <<link, srv, hub, hello, wire>>
newsVars == <<version, known, run, told, unsent, missed>>
vars == <<pairVars, box, wireVars, newsVars, left>>

Ends == {"now", "old"}

Spend(kind) ==
  /\ left[kind] > 0
  /\ left' = [left EXCEPT ![kind] = @ - 1]

\* makeDeviceAuth: the token is known, not revoked, and its device not deleted.
Accepted(t) ==
  /\ t \in DOMAIN tokens
  /\ ~tokens[t].revoked
  /\ ~device.deleted

AllRevoked == [t \in DOMAIN tokens |-> [tokens[t] EXCEPT !.revoked = TRUE]]

Idle == [st |-> "idle", code |-> NoCode, token |-> NoToken]

-------------------------------------------------------------------------------
(* Pairing in the API.                                                     *)

Codable(c) == device.code = c /\ c # NoCode

\* findUnique by the code, and the checks on what it found.
FindCode(b) ==
  /\ claim[b].st = "sent"
  /\ claim' = [claim EXCEPT ![b].st =
       IF Codable(claim[b].code) /\ ~device.deleted /\ ~device.expired THEN "found" ELSE "refused"]
  /\ UNCHANGED <<device, codes, regen, tokens, box, wireVars, newsVars, left>>

\* Mutant of ClaimCode: the update trusts the row read before.
ClaimFound(b) ==
  /\ claim[b].st = "found"
  /\ device' = [device EXCEPT !.code = NoCode, !.expired = FALSE]
  /\ claim' = [claim EXCEPT ![b].st = "claimed"]
  /\ UNCHANGED <<codes, regen, tokens, box, wireVars, newsVars, left>>

\* The conditional updateMany: the row must still have the code.
ClaimCode(b) ==
  /\ claim[b].st = "found"
  /\ IF Codable(claim[b].code)
       THEN /\ device' = [device EXCEPT !.code = NoCode, !.expired = FALSE]
            /\ claim' = [claim EXCEPT ![b].st = "claimed"]
       ELSE /\ claim' = [claim EXCEPT ![b].st = "refused"]
            /\ UNCHANGED device
  /\ UNCHANGED <<codes, regen, tokens, box, wireVars, newsVars, left>>

\* Mutant of CreateToken: the row without the code it came from.
CreateTokenBare(b) ==
  /\ claim[b].st = "claimed"
  /\ tokens' = Append(tokens, [revoked |-> FALSE])
  /\ claim' = [claim EXCEPT ![b].st = "granted", ![b].token = Len(tokens) + 1]
  /\ UNCHANGED <<device, codes, regen, box, wireVars, newsVars, left>>

\* The token row, a statement of its own.
CreateToken(b) ==
  /\ claim[b].st = "claimed"
  /\ tokens' = Append(tokens, [code |-> claim[b].code, revoked |-> FALSE])
  /\ claim' = [claim EXCEPT ![b].st = "granted", ![b].token = Len(tokens) + 1]
  /\ UNCHANGED <<device, codes, regen, box, wireVars, newsVars, left>>

\* The response reaches the agent that still waits for it, or nobody.
AnswerPair(b) ==
  /\ claim[b].st \in {"refused", "granted"}
  /\ claim' = [claim EXCEPT ![b] = Idle]
  /\ box' = IF box[b].pc # "asking" THEN box
            ELSE IF claim[b].st = "granted"
              THEN [box EXCEPT ![b].pc = "saving", ![b].token = claim[b].token]
              ELSE [box EXCEPT ![b].pc = "pausing"]
  /\ UNCHANGED <<device, codes, regen, tokens, wireVars, newsVars, left>>

-------------------------------------------------------------------------------
(* The dashboard.                                                          *)

\* regenerate-pairing-code: the device is read, then the row is updated whatever it has become.
ReadDevice ==
  /\ ~regen /\ ~device.deleted
  /\ Spend("code")
  /\ regen' = TRUE
  /\ UNCHANGED <<device, codes, tokens, claim, box, wireVars, newsVars>>

WriteCode ==
  /\ regen
  /\ regen' = FALSE
  /\ codes' = codes + 1
  /\ device' = [device EXCEPT !.code = codes + 1, !.expired = FALSE]
  /\ UNCHANGED <<tokens, claim, box, wireVars, newsVars, left>>

\* PAIRING_CODE_TTL_MINUTES have passed.
CodeExpires ==
  /\ device.code # NoCode /\ ~device.expired
  /\ Spend("expire")
  /\ device' = [device EXCEPT !.expired = TRUE]
  /\ UNCHANGED <<codes, regen, tokens, claim, box, wireVars, newsVars>>

RevokeToken ==
  /\ ~device.deleted
  /\ Spend("revoke")
  /\ tokens' = AllRevoked
  /\ UNCHANGED <<device, codes, regen, claim, box, wireVars, newsVars>>

\* Mutant of DeleteDevice: the code stays.
DeleteKeepsCode ==
  /\ ~device.deleted
  /\ Spend("delete")
  /\ device' = [device EXCEPT !.deleted = TRUE]
  /\ tokens' = AllRevoked
  /\ UNCHANGED <<codes, regen, claim, box, wireVars, newsVars>>

\* One transaction: the row and its tokens.
DeleteDevice ==
  /\ ~device.deleted
  /\ Spend("delete")
  /\ device' = [device EXCEPT !.deleted = TRUE, !.code = NoCode]
  /\ tokens' = AllRevoked
  /\ UNCHANGED <<codes, regen, claim, box, wireVars, newsVars>>

-------------------------------------------------------------------------------
(* The agent until it is paired.                                           *)

\* An agent that has started: it goes online and queues the startup sync.
GoesOnline(b) ==
  /\ link' = [link EXCEPT ![b] = "timer"]
  /\ told' = told \union {b}

\* loadCredentials: what is on disk wins; the code is for a box that has nothing there.
LoadCredentials(b) ==
  /\ box[b].pc = "boot"
  /\ \/ /\ box[b].disk # NoToken
        /\ box' = [box EXCEPT ![b].pc = "running", ![b].token = box[b].disk]
        /\ GoesOnline(b)
     \/ /\ box[b].disk = NoToken /\ box[b].code # NoCode
        /\ box' = [box EXCEPT ![b].pc = "pairing"]
        /\ UNCHANGED <<link, told>>
  /\ UNCHANGED <<pairVars, srv, hub, hello, wire, version, known, run, unsent, missed, left>>

\* The request waits its turn while an earlier one of this box is still in the API.
AskPair(b) ==
  /\ box[b].pc = "pairing" /\ claim[b].st = "idle"
  /\ box' = [box EXCEPT ![b].pc = "asking"]
  /\ claim' = [claim EXCEPT ![b] = [st |-> "sent", code |-> box[b].code, token |-> NoToken]]
  /\ UNCHANGED <<device, codes, regen, tokens, wireVars, newsVars, left>>

\* The request is lost on its way back, or takes longer than its timeout.
PairTimesOut(b) ==
  /\ box[b].pc = "asking"
  /\ Spend("timeout")
  /\ box' = [box EXCEPT ![b].pc = "pausing"]
  /\ UNCHANGED <<pairVars, wireVars, newsVars>>

\* Mutant of RetryPair: a code that failed once is not tried again.
RetryOtherCode(b) ==
  /\ box[b].pc = "pausing" /\ box[b].code # device.code
  /\ box' = [box EXCEPT ![b].pc = "pairing"]
  /\ UNCHANGED <<pairVars, wireVars, newsVars, left>>

\* PAIR_RETRY_MS later.
RetryPair(b) ==
  /\ box[b].pc = "pausing"
  /\ box' = [box EXCEPT ![b].pc = "pairing"]
  /\ UNCHANGED <<pairVars, wireVars, newsVars, left>>

\* saveCredentials: a file cut short by a crash does not parse, which is as good as none.
SaveCredentials(b) ==
  /\ box[b].pc = "saving"
  /\ box' = [box EXCEPT ![b].pc = "running", ![b].disk = box[b].token]
  /\ GoesOnline(b)
  /\ UNCHANGED <<pairVars, srv, hub, hello, wire, version, known, run, unsent, missed, left>>

\* The file cannot be written: the catch waits like after a refusal, but the credentials stay
\* in the loop's variable.
SaveFails(b) ==
  /\ box[b].pc = "saving"
  /\ Spend("disk")
  /\ box' = [box EXCEPT ![b].pc = "unsaved"]
  /\ UNCHANGED <<pairVars, wireVars, newsVars>>

\* PAIR_RETRY_MS later the loop ends with what it has, until the process does.
RunUnsaved(b) ==
  /\ box[b].pc = "unsaved"
  /\ box' = [box EXCEPT ![b].pc = "running"]
  /\ GoesOnline(b)
  /\ UNCHANGED <<pairVars, srv, hub, hello, wire, version, known, run, unsent, missed, left>>

\* The agent's end of its websocket is gone, and what was on the way with it.
LinkIs(b, state) ==
  /\ link' = [link EXCEPT ![b] = state]
  /\ hello' = {h \in hello : h.box # b}
  /\ wire' = wire \ {b}

\* The agent process is gone; its socket in the API is for the API to notice.
Rebooted(b, c) ==
  /\ box' = [box EXCEPT ![b] = [pc |-> "boot", code |-> c, disk |-> box[b].disk, token |-> box[b].token]]
  /\ told' = told \ {b}
  /\ run' = [run EXCEPT ![b] = NoManifest]
  /\ LinkIs(b, "off")
  /\ UNCHANGED <<pairVars, srv, hub, version, known, unsent, missed>>

CrashAgent(b) ==
  /\ box[b].pc # "boot"
  /\ Spend("crash")
  /\ Rebooted(b, box[b].code)

\* `signage pair <code>`, or a card prepared with it: the code the dashboard shows goes into the
\* environment file and the agent restarts.  What is on disk stays there.
PairCommand(b) ==
  /\ device.code \notin {NoCode, box[b].code}
  /\ Spend("visit")
  /\ Rebooted(b, device.code)

-------------------------------------------------------------------------------
(* The websocket, from both ends.                                          *)

Socket(b, e) == <<b, e>>

\* connect(): the socket dialled before may still be open in the API.
Dial(b) ==
  /\ link[b] = "timer" /\ srv[b].old = "none"
  /\ link' = [link EXCEPT ![b] = "dialing"]
  /\ srv' = [srv EXCEPT ![b] = [now |-> "auth", old |-> srv[b].now]]
  /\ hub' = IF hub = Socket(b, "now") THEN Socket(b, "old") ELSE hub
  /\ UNCHANGED <<pairVars, box, hello, wire, newsVars, left>>

\* Mutant of Unregistered: any close empties the device's entry.
UnregisteredAnyway(b, e) == <<>>

\* What a socket does to the hub when it is gone: nothing, unless it is the one it holds.
Unregistered(b, e) == IF hub = Socket(b, e) THEN <<>> ELSE hub

\* register: the socket the hub held is closed, the new one takes its place.
Registered(b, e) ==
  LET Closing(c, f) == hub = Socket(c, f) /\ srv[c][f] = "open"
  IN [c \in Boxes |-> [f \in Ends |->
        IF c = b /\ f = e THEN "open"
        ELSE IF Closing(c, f) THEN "closing" ELSE srv[c][f]]]

\* The token check runs before the upgrade; it may answer long after the agent gave up.
Upgrade(b, e) ==
  /\ srv[b][e] = "auth"
  /\ IF Accepted(box[b].token)
       THEN srv' = Registered(b, e) /\ hub' = Socket(b, e)
       ELSE srv' = [srv EXCEPT ![b][e] = "none"] /\ UNCHANGED hub
  /\ UNCHANGED <<pairVars, box, link, hello, wire, newsVars, left>>

\* 'open' at the agent: hello with the version it has, whatever a running sync will make of it.
LinkOpens(b) ==
  /\ link[b] = "dialing" /\ srv[b].now \in {"open", "closing"}
  /\ link' = [link EXCEPT ![b] = "open"]
  /\ hello' = hello \union {[box |-> b, known |-> known[b]]}
  /\ missed' = [missed EXCEPT ![b] = @ \/ run[b] # NoManifest]
  /\ UNCHANGED <<pairVars, box, srv, hub, wire, version, known, run, told, unsent, left>>

\* onGone: the upgrade was refused or the API has closed the socket.
LinkCloses(b) ==
  /\ \/ link[b] = "dialing" /\ srv[b].now = "none"
     \/ link[b] = "open" /\ srv[b].now \in {"none", "closing"} /\ b \notin wire
  /\ LinkIs(b, "timer")
  /\ UNCHANGED <<pairVars, box, srv, hub, newsVars, left>>

\* onGone without the API knowing: a handshake that takes too long, a link that breaks.
LinkBreaks(b) ==
  /\ link[b] \in {"dialing", "open"}
  /\ Spend("link")
  /\ LinkIs(b, "timer")
  /\ UNCHANGED <<pairVars, box, srv, hub, newsVars>>

Abandoned(b, e) == e = "old" \/ link[b] \in {"off", "timer"}

\* 'close' in the API: of a socket it is closing, or one whose other end is gone.
SocketCloses(b, e) ==
  /\ srv[b][e] = "closing" \/ (srv[b][e] = "open" /\ Abandoned(b, e))
  /\ srv' = [srv EXCEPT ![b][e] = "none"]
  /\ hub' = Unregistered(b, e)
  /\ UNCHANGED <<pairVars, box, link, hello, wire, newsVars, left>>

\* The API process restarts: requests, sockets and an unpublished change go with it.
RestartApi ==
  /\ Spend("restart")
  /\ claim' = [b \in Boxes |-> Idle]
  /\ box' = [b \in Boxes |-> IF box[b].pc = "asking" THEN [box[b] EXCEPT !.pc = "pausing"] ELSE box[b]]
  /\ srv' = [b \in Boxes |-> [now |-> "none", old |-> "none"]]
  /\ hub' = <<>>
  /\ hello' = {} /\ wire' = {}
  /\ regen' = FALSE
  /\ unsent' = FALSE
  /\ UNCHANGED <<device, codes, tokens, link, version, known, run, told, missed>>

-------------------------------------------------------------------------------
(* News of changed content.                                                *)

\* A dashboard request commits; what it publishes comes after.  Versions are hashes: content
\* changed back has its old version again.
ChangeContent ==
  /\ Spend("change")
  /\ version' \in Versions \ {version}
  /\ unsent' = TRUE
  /\ UNCHANGED <<pairVars, box, wireVars, known, run, told, missed>>

\* sendLocal: the socket of the hub gets it if it is open, and the agent if it still listens.
Listening(b) ==
  /\ hub = Socket(b, "now") /\ srv[b].now = "open"
  /\ link[b] \in {"dialing", "open"}

Publish ==
  /\ unsent
  /\ unsent' = FALSE
  /\ wire' = wire \union {b \in Boxes : Listening(b)}
  /\ UNCHANGED <<pairVars, box, link, srv, hub, hello, version, known, run, told, missed, left>>

LosePublish ==
  /\ unsent
  /\ Spend("publish")
  /\ unsent' = FALSE
  /\ missed' = [b \in Boxes |-> missed[b] \/ Listening(b)]
  /\ UNCHANGED <<pairVars, box, wireVars, version, known, run, told>>

\* Mutant of AnswerHello: only a hello without a version is told to sync.
AnswerFirstHello(h) ==
  /\ h \in hello
  /\ hello' = hello \ {h}
  /\ wire' = IF h.known = NoManifest /\ srv[h.box].now = "open" THEN wire \union {h.box} ELSE wire
  /\ UNCHANGED <<pairVars, box, link, srv, hub, newsVars, left>>

\* hello: the manifest is built, and compared with the version the agent sent.
AnswerHello(h) ==
  /\ h \in hello
  /\ hello' = hello \ {h}
  /\ wire' = IF h.known # version /\ srv[h.box].now = "open" THEN wire \union {h.box} ELSE wire
  /\ UNCHANGED <<pairVars, box, link, srv, hub, newsVars, left>>

\* onSyncRequired: one sync to run, however many asked for it.
ReceiveSync(b) ==
  /\ b \in wire /\ link[b] = "open"
  /\ wire' = wire \ {b}
  /\ told' = told \union {b}
  /\ UNCHANGED <<pairVars, box, link, srv, hub, hello, version, known, run, unsent, missed, left>>

\* syncNow, one run at a time: GET /device/sync gives a box with a good token its manifest.  A
\* run that finds its version unchanged is over.
FetchManifest(b) ==
  /\ b \in told /\ run[b] = NoManifest /\ box[b].pc = "running"
  /\ told' = told \ {b}
  /\ IF Accepted(box[b].token)
       THEN /\ run' = [run EXCEPT ![b] = IF known[b] = version THEN NoManifest ELSE version]
            /\ missed' = [missed EXCEPT ![b] = FALSE]
       ELSE UNCHANGED <<run, missed>>
  /\ UNCHANGED <<pairVars, box, wireVars, version, known, unsent, left>>

\* The run commits what it fetched, current or not.
ApplyManifest(b) ==
  /\ run[b] # NoManifest
  /\ known' = [known EXCEPT ![b] = run[b]]
  /\ run' = [run EXCEPT ![b] = NoManifest]
  /\ UNCHANGED <<pairVars, box, wireVars, version, told, unsent, missed, left>>

\* A run that throws, at the request or at a download, or finds no room: logged, and that is all.
SyncFails(b) ==
  /\ box[b].pc = "running"
  /\ Spend("sync")
  /\ \/ run[b] # NoManifest /\ UNCHANGED told
     \/ run[b] = NoManifest /\ b \in told /\ told' = told \ {b}
  /\ run' = [run EXCEPT ![b] = NoManifest]
  /\ missed' = [missed EXCEPT ![b] = TRUE]
  /\ UNCHANGED <<pairVars, box, wireVars, version, known, unsent>>

\* pollFallback, while there is no websocket: the commands answer, a sync is asked for.  Asked
\* for when the box has what the device should show, it would change nothing.
Poll(b) ==
  /\ box[b].pc = "running" /\ link[b] # "open"
  /\ Accepted(box[b].token) /\ known[b] # version
  /\ told' = told \union {b}
  /\ UNCHANGED <<pairVars, box, wireVars, version, known, run, unsent, missed, left>>

-------------------------------------------------------------------------------
Init ==
  /\ device = [code |-> 1, expired |-> FALSE, deleted |-> FALSE]
  /\ codes = 1
  /\ regen = FALSE
  /\ tokens = <<>>
  /\ claim = [b \in Boxes |-> Idle]
  /\ box = [b \in Boxes |-> [pc |-> "boot", code |-> NoCode, disk |-> NoToken, token |-> NoToken]]
  /\ link = [b \in Boxes |-> "off"]
  /\ srv = [b \in Boxes |-> [now |-> "none", old |-> "none"]]
  /\ hub = <<>>
  /\ version = CHOOSE v \in Versions : TRUE
  /\ known = [b \in Boxes |-> NoManifest]
  /\ run = [b \in Boxes |-> NoManifest]
  /\ hello = {} /\ wire = {} /\ told = {}
  /\ unsent = FALSE
  /\ missed = [b \in Boxes |-> FALSE]
  /\ left \in Budgets

PairingStep(b) == FindCode(b) \/ ClaimCode(b) \/ CreateToken(b) \/ AnswerPair(b)

BootStep(b) ==
  LoadCredentials(b) \/ AskPair(b) \/ RetryPair(b) \/ SaveCredentials(b) \/ RunUnsaved(b)

LinkStep(b) ==
  \/ Dial(b) \/ LinkOpens(b) \/ LinkCloses(b)
  \/ \E e \in Ends : Upgrade(b, e) \/ SocketCloses(b, e)

NewsStep(b) == ReceiveSync(b) \/ FetchManifest(b) \/ ApplyManifest(b) \/ Poll(b)

Dashboard == ReadDevice \/ WriteCode \/ CodeExpires \/ RevokeToken \/ DeleteDevice \/ ChangeContent

Fault(b) ==
  \/ PairTimesOut(b) \/ SaveFails(b) \/ SyncFails(b)
  \/ CrashAgent(b) \/ PairCommand(b) \/ LinkBreaks(b)

Next ==
  \/ Dashboard \/ Publish \/ LosePublish \/ RestartApi
  \/ \E h \in hello : AnswerHello(h)
  \/ \E b \in Boxes : PairingStep(b) \/ BootStep(b) \/ LinkStep(b) \/ NewsStep(b) \/ Fault(b)

Spec == Init /\ [][Next]_vars

\* Handlers run to their end, timers fire, a dead socket is noticed, a publish goes out: of the
\* steps of one kind that a box or its requests can take, some is taken.  The operator's steps
\* and the faults happen or not.
Fairness ==
  /\ WF_vars(Publish)
  /\ \A b \in Boxes :
       /\ WF_vars(PairingStep(b))
       /\ WF_vars(BootStep(b))
       /\ WF_vars(LinkStep(b))
       /\ WF_vars(NewsStep(b))
       /\ WF_vars(\E h \in hello : h.box = b /\ AnswerHello(h))

FairSpec == Spec /\ Fairness

-------------------------------------------------------------------------------
(* Properties.                                                             *)

ClaimStages == {"idle", "sent", "found", "refused", "claimed", "granted"}
BoxStages == {"boot", "pairing", "asking", "pausing", "saving", "unsaved", "running"}
SocketStates == {"none", "auth", "open", "closing"}

TypeOK ==
  /\ device \in [code : Nat, expired : BOOLEAN, deleted : BOOLEAN]
  /\ codes \in Nat
  /\ regen \in BOOLEAN
  /\ tokens \in Seq([code : Nat, revoked : BOOLEAN])
  /\ claim \in [Boxes -> [st : ClaimStages, code : Nat, token : Nat]]
  /\ box \in [Boxes -> [pc : BoxStages, code : Nat, disk : Nat, token : Nat]]
  /\ link \in [Boxes -> {"off", "timer", "dialing", "open"}]
  /\ srv \in [Boxes -> [Ends -> SocketStates]]
  /\ hub \in {<<>>} \union (Boxes \X Ends)
  /\ version \in Nat
  /\ known \in [Boxes -> Nat]
  /\ run \in [Boxes -> Nat]
  /\ hello \in SUBSET [box : Boxes, known : Nat]
  /\ wire \in SUBSET Boxes
  /\ told \in SUBSET Boxes
  /\ unsent \in BOOLEAN
  /\ missed \in [Boxes -> BOOLEAN]
  /\ left \in [Events -> Nat]

\* A pairing code is good for one token, however many cloned boxes present it at once and
\* whatever the dashboard does in between: "single-use" of the pairing route.
OneTokenPerCode ==
  \A t, u \in DOMAIN tokens : tokens[t].code = tokens[u].code => t = u

\* No code is consumed on a device that is already deleted, though the deletion may come
\* between the read that finds the code and the update that takes it.
NoClaimAfterDelete ==
  [][\A b \in Boxes : claim[b].st # "claimed" /\ claim'[b].st = "claimed" => ~device.deleted]_vars

\* The hub holds the one socket of the device that is open, so a push reaches the box that
\* connected last: not a socket being replaced, not none because a replaced one closed late.
HubHoldsTheOpenSocket ==
  \A b \in Boxes, e \in Ends : srv[b][e] = "open" <=> hub = Socket(b, e)

\* A box with nothing on disk whose code the dashboard shows gets its credentials, unless the
\* code goes: taken (by another box, or with a token that never arrived), expired, replaced, or
\* gone with the device.
Offered(b) ==
  box[b].disk = NoToken /\ Codable(box[b].code) /\ ~device.expired /\ ~device.deleted
PairsWhileOffered == \A b \in Boxes : Offered(b) ~> ~Offered(b)

\* A paired box comes to have the device's current manifest, over its websocket, its hello or
\* its polls, wherever changes, broken links, failed syncs and lost pushes fall, or it stays
\* connected after it missed one: its last sync failed, a push to it was lost, or it said hello
\* while a sync with something else was running.  Nothing retries a sync while the websocket is
\* up.  Two boxes that share the device keep replacing each other's socket, and nothing says
\* that either is ever connected long enough to be told.
Serving(b) == box[b].pc = "running" /\ Accepted(box[b].token)
Shared == \E b, c \in Boxes : b # c /\ Serving(b) /\ Serving(c)
ChangeReachesBoxes ==
  \A b \in Boxes :
    []<>((Serving(b) => known[b] = version) \/ (missed[b] /\ link[b] = "open") \/ Shared)

\* docs/runbook.md: revoke the token, regenerate a code, run `signage pair`, and the device is
\* re-paired.
Repairing(b) ==
  /\ box[b].pc = "running" /\ ~Accepted(box[b].token)
  /\ Codable(box[b].code) /\ ~device.expired
PairCommandRepairs == \A b \in Boxes : Repairing(b) ~> ~Repairing(b)

===============================================================================
