------------------------------- MODULE MediaPage -------------------------------
(***************************************************************************)
(* The media page of the dashboard in one browser tab: the grid over a     *)
(* view, filters and a page, polled every 5 s; the folder tree; the        *)
(* selection and its bulk actions; uploads, by the button or by a drop;    *)
(* the delete dialogs.  Other users change the library meanwhile, requests *)
(* fail, or their answers are lost.                                        *)
(*                                                                         *)
(* One folder, one filter that some files match, the newest file first,    *)
(* one request at a time besides the uploads.  Renames and retries only    *)
(* load the page again, as a poll does.  Cancelled requests are not        *)
(* followed: PlaylistEditor checks that they change nothing.               *)
(***************************************************************************)
EXTENDS Loader, Naturals, Sequences, SequencesExt, FiniteSets

CONSTANTS
  Files,     \* numbers, the greater the newer
  Matching,  \* the files the filters match
  PageSize,  \* 50
  Uploads,   \* uploads that may run at a time
  PageBudgets  \* how many events of each kind a behaviour may contain, one function per scenario

Places == {"root", "folder"}
Views == {"all"} \cup Places

\* The user changes the view, a filter or the page; ticks files; confirms an action; drops or picks
\* files to upload; another user changes the library; a request fails.
PageEvents == {"look", "tick", "act", "upload", "other", "fault"}

ASSUME PageAssumption ==
  /\ Files \subseteq Nat /\ IsFiniteSet(Files) /\ Matching \subseteq Files
  /\ PageSize \in Nat \ {0}
  /\ PageBudgets \subseteq [PageEvents -> Nat]

VARIABLES
  library,   \* where each file is, "absent" before its upload and after its deletion
  folder,    \* the folder exists
  query,     \* view, filtered, page
  grid,      \* the media query
  tree,      \* the folder query
  selected,  \* ticked files
  modal,     \* the dialog that is open, with the files it is about
  call,      \* the action under way
  upload,    \* the uploads under way
  banner,    \* "Uploading n/m", and the button disabled
  failed,    \* upload.error is shown
  handed,    \* history: the files handed to uploads since the error was last reset
  stored,    \* history: files the library received
  remaining  \* events that may still happen

serverVars == <<library, folder, stored>>
uploadVars == <<upload, banner, failed, handed>>
mediaVars == <<serverVars, query, grid, tree, selected, modal, call, uploadVars, remaining>>

PageSpend(kind) ==
  /\ remaining[kind] > 0
  /\ remaining' = [remaining EXCEPT ![kind] = @ - 1]

PageIdle == [do |-> "nothing"]

-------------------------------------------------------------------------------
(* The grid *)

\* GET media: the files of the view that match, the newest first.
Matches(q) ==
  {f \in Files : /\ library[f] # "absent"
                 /\ q.view = "all" \/ library[f] = q.view
                 /\ q.filtered => f \in Matching}

Listing(q) ==
  LET all == SetToSortSeq(Matches(q), >)
      first == (q.page - 1) * PageSize + 1
      last == IF q.page * PageSize < Len(all) THEN q.page * PageSize ELSE Len(all)
  IN [key |-> q, items |-> SubSeq(all, first, last), total |-> Len(all)]

Items == IF grid.data = Nothing THEN {} ELSE Range(grid.data.items)

LastPage == IF grid.data = Nothing \/ grid.data.total = 0 THEN 1
            ELSE ((grid.data.total - 1) \div PageSize) + 1

\* The root, and the folders of the tree.
FoldersOffered ==
  IF tree.data # Nothing /\ tree.data.folder THEN Places ELSE {"root"}

\* A change of the view, a filter or the page is a change of the query's dependencies.
Show(q) ==
  /\ query' = q
  /\ grid' = Fetch(grid, q)

Look(q) ==
  /\ PageSpend("look")
  /\ modal = PageIdle
  /\ Show(q)
  /\ UNCHANGED <<serverVars, tree, selected, modal, call, uploadVars>>

ChangeView ==
  \E v \in Views \ {query.view} :
    /\ v \in {"all"} \cup FoldersOffered
    /\ Look([query EXCEPT !.view = v, !.page = 1])

ChangeFilter == Look([query EXCEPT !.filtered = ~@, !.page = 1])

\* The pager is under the items.
TurnPage ==
  \E p \in {query.page - 1, query.page + 1} :
    /\ Items # {} /\ p \in 1..LastPage
    /\ Look([query EXCEPT !.page = p])

\* Mutant of Poll: the timer calls the loader of the first render, not the latest.
PollFirstQuery ==
  /\ grid' = Fetch(grid, [view |-> "all", filtered |-> FALSE, page |-> 1])
  /\ UNCHANGED <<serverVars, query, tree, selected, modal, call, uploadVars, remaining>>

\* Every 5 s.
Poll ==
  /\ grid' = Fetch(grid, query)
  /\ UNCHANGED <<serverVars, query, tree, selected, modal, call, uploadVars, remaining>>

\* The files and their number are read by two queries at a time: one of them is first.
ReadHalf(f) ==
  /\ f \in Asked(grid) /\ f.got = Nothing
  /\ \E half \in {"items", "total"} :
       LET read == [f EXCEPT !.got = [half |-> half, found |-> Listing(f.key)[half]]]
       IN  grid' = [grid EXCEPT !.flying = (@ \ {f}) \cup {read}]
  /\ UNCHANGED <<serverVars, query, tree, selected, modal, call, uploadVars, remaining>>

AnswerGrid(f) ==
  /\ f \in Asked(grid) /\ f.got # Nothing
  /\ grid' = Answer(grid, f, [Listing(f.key) EXCEPT ![f.got.half] = f.got.found])
  /\ UNCHANGED <<serverVars, query, tree, selected, modal, call, uploadVars, remaining>>

RefuseGrid ==
  \E f \in Asked(grid) :
    /\ PageSpend("fault")
    /\ grid' = Refuse(grid, f)
    /\ UNCHANGED <<serverVars, query, tree, selected, modal, call, uploadVars>>

ReceiveGrid(f) ==
  /\ f \in Arriving(grid)
  /\ grid' = Receive(grid, f)
  /\ UNCHANGED <<serverVars, query, tree, selected, modal, call, uploadVars, remaining>>

\* The folder tree is loaded at mount and after this page's actions only.
AnswerTree ==
  \E f \in Asked(tree) :
    /\ \/ tree' = Answer(tree, f, [folder |-> folder]) /\ UNCHANGED remaining
       \/ PageSpend("fault") /\ tree' = Refuse(tree, f)
    /\ UNCHANGED <<serverVars, query, grid, selected, modal, call, uploadVars>>

ReceiveTree ==
  \E f \in Arriving(tree) :
    /\ tree' = Receive(tree, f)
    /\ UNCHANGED <<serverVars, query, grid, selected, modal, call, uploadVars, remaining>>

\* reloadAll.
ReloadAll ==
  /\ grid' = Fetch(grid, query)
  /\ tree' = Fetch(tree, "tree")

-------------------------------------------------------------------------------
(* Selection and actions *)

Tick ==
  \E f \in Items :
    /\ modal = PageIdle
    /\ PageSpend("tick")
    /\ selected' = IF f \in selected THEN selected \ {f} ELSE selected \cup {f}
    /\ UNCHANGED <<serverVars, query, grid, tree, modal, call, uploadVars>>

ClearSelection ==
  /\ selected # {} /\ modal = PageIdle
  /\ selected' = {}
  /\ UNCHANGED <<serverVars, query, grid, tree, modal, call, uploadVars, remaining>>

Open(d) ==
  /\ modal = PageIdle /\ call = PageIdle
  /\ PageSpend("act")
  /\ modal' = d
  /\ UNCHANGED <<serverVars, query, grid, tree, selected, call, uploadVars>>

\* Delete of a card, or of the selection: those of the selected files the grid shows.
OpenDelete ==
  \/ \E f \in Items : Open([do |-> "delete", files |-> {f}])
  \/ selected # {} /\ Open([do |-> "delete", files |-> selected \cap Items])

\* Move of a card, or of the whole selection.
OpenMove ==
  \/ \E f \in Items : Open([do |-> "move", files |-> {f}])
  \/ selected # {} /\ Open([do |-> "move", files |-> selected])

\* Delete folder, of the folder viewed, if the tree has it.
OpenDeleteFolder ==
  /\ query.view = "folder" /\ "folder" \in FoldersOffered
  /\ Open([do |-> "deleteFolder", files |-> {}])

CloseDialog ==
  /\ modal # PageIdle
  /\ modal' = PageIdle
  /\ UNCHANGED <<serverVars, query, grid, tree, selected, call, uploadVars, remaining>>

\* What the dialog asks for: the folder to move to, or what becomes of a folder's files.
DialogOffers(do) ==
  CASE do = "delete" -> {"absent"}
    [] do = "move" -> FoldersOffered
    [] do = "deleteFolder" -> {"root", "absent"}

Confirm ==
  /\ modal # PageIdle /\ call = PageIdle
  /\ \E to \in DialogOffers(modal.do) :
       call' = [do |-> modal.do, files |-> modal.files, to |-> to, reply |-> "none"]
  /\ UNCHANGED <<serverVars, query, grid, tree, selected, modal, uploadVars, remaining>>

\* Cards dropped on the tree: the dragged one, or the selection it is part of.
DropCards ==
  \E f \in Items, to \in Places :
    /\ modal = PageIdle /\ call = PageIdle
    /\ to \in FoldersOffered
    /\ PageSpend("act")
    /\ call' = [do |-> "move", files |-> IF f \in selected THEN selected ELSE {f}, to |-> to,
                reply |-> "none"]
    /\ UNCHANGED <<serverVars, query, grid, tree, selected, modal, uploadVars>>

CreateFolder ==
  /\ modal = PageIdle /\ call = PageIdle
  /\ PageSpend("act")
  /\ call' = [do |-> "createFolder", files |-> {}, to |-> "folder", reply |-> "none"]
  /\ UNCHANGED <<serverVars, query, grid, tree, selected, modal, uploadVars>>

\* What the API refuses: no file, a file of its own that is gone, a folder that is gone or there.
Refused ==
  \/ call.do \in {"delete", "move"} /\ call.files = {}
  \/ call.do = "delete" /\ \E f \in Files : call.files = {f} /\ library[f] = "absent"
  \/ call.do = "move" /\ call.to = "folder" /\ ~folder
  \/ call.do = "deleteFolder" /\ ~folder
  \/ call.do = "createFolder" /\ folder

Moved(f) ==
  \/ call.do \in {"delete", "move"} /\ f \in call.files
  \/ call.do = "deleteFolder" /\ library[f] = "folder"

Perform ==
  /\ library' = [f \in Files |-> IF library[f] # "absent" /\ Moved(f) THEN call.to ELSE library[f]]
  /\ folder' = CASE call.do = "createFolder" -> TRUE
                 [] call.do = "deleteFolder" -> FALSE
                 [] OTHER -> folder
  /\ UNCHANGED stored

ServeCall ==
  /\ call # PageIdle /\ call.reply = "none"
  /\ \/ /\ ~Refused /\ Perform
        /\ call' = [call EXCEPT !.reply = "ok"]
        /\ UNCHANGED remaining
     \/ /\ Refused
        /\ call' = [call EXCEPT !.reply = "bad"]
        /\ UNCHANGED <<serverVars, remaining>>
     \/ /\ ~Refused /\ PageSpend("fault")
        /\ \/ Perform
           \/ UNCHANGED serverVars
        /\ call' = [call EXCEPT !.reply = "bad"]
  /\ UNCHANGED <<query, grid, tree, selected, modal, uploadVars>>

\* The action succeeded: its dialog closes, the selection is cleared, all is loaded again; after the
\* folder is deleted the view is that of all media, on the same page.
FinishCall ==
  /\ call # PageIdle /\ call.reply = "ok"
  /\ call' = PageIdle
  /\ modal' = IF modal # PageIdle /\ modal.do = call.do THEN PageIdle ELSE modal
  /\ selected' = IF call.do \in {"delete", "move"} THEN {} ELSE selected
  /\ tree' = Fetch(tree, "tree")
  /\ IF call.do = "deleteFolder" THEN Show([query EXCEPT !.view = "all"])
     ELSE IF call.do = "createFolder" THEN UNCHANGED <<query, grid>>
     ELSE Show(query)
  /\ UNCHANGED <<serverVars, uploadVars, remaining>>

\* It failed: the error is shown, the dialog stays.
FailCall ==
  /\ call # PageIdle /\ call.reply = "bad"
  /\ call' = PageIdle
  /\ UNCHANGED <<serverVars, query, grid, tree, selected, modal, uploadVars, remaining>>

-------------------------------------------------------------------------------
(* Uploads *)

NoUpload == [files |-> {}, to |-> "root", reply |-> "none"]

Pending == UNION {upload[u].files : u \in Uploads}

\* Files are picked, with the button when it is enabled, or dropped on the grid: they go to the
\* folder that is viewed now.
StartUpload ==
  \E u \in Uploads, files \in SUBSET {f \in Files : f \notin stored /\ f \notin Pending} :
    /\ files # {} /\ upload[u].files = {} /\ modal = PageIdle
    /\ PageSpend("upload")
    /\ upload' = [upload EXCEPT ![u] =
                    [files |-> files, to |-> IF query.view = "folder" THEN "folder" ELSE "root",
                     reply |-> "none"]]
    /\ banner' = TRUE
    /\ failed' = FALSE
    /\ handed' = files \cup Pending
    /\ UNCHANGED <<serverVars, query, grid, tree, selected, modal, call>>

\* The file that is being sent.
Current(u) == CHOOSE f \in upload[u].files : \A g \in upload[u].files : f <= g

Receives(f, to) ==
  /\ library' = [library EXCEPT ![f] = to]
  /\ stored' = stored \cup {f}
  /\ UNCHANGED folder

ServeUpload ==
  \E u \in Uploads :
    LET up == upload[u]
        welcome == up.to = "root" \/ folder
    IN
    /\ up.files # {} /\ up.reply = "none"
    /\ \/ /\ welcome /\ Receives(Current(u), up.to)
          /\ upload' = [upload EXCEPT ![u].reply = "ok"]
          /\ UNCHANGED remaining
       \/ /\ ~welcome
          /\ upload' = [upload EXCEPT ![u].reply = "bad"]
          /\ UNCHANGED <<serverVars, remaining>>
       \/ /\ PageSpend("fault")
          /\ upload' = [upload EXCEPT ![u].reply = "bad"]
          /\ \/ welcome /\ Receives(Current(u), up.to)
             \/ UNCHANGED serverVars
    /\ UNCHANGED <<query, grid, tree, selected, modal, call, banner, failed, handed>>

\* A file is in: the progress is shown, and the next one is sent.
NextFile ==
  \E u \in Uploads :
    LET rest == upload[u].files \ {Current(u)} IN
    /\ upload[u].reply = "ok" /\ rest # {}
    /\ upload' = [upload EXCEPT ![u].files = rest, ![u].reply = "none"]
    /\ banner' = TRUE
    /\ UNCHANGED <<serverVars, query, grid, tree, selected, modal, call, failed, handed, remaining>>

\* Mutant of Outcome: the error is swallowed with the rest of the loop.
OutcomeSwallowed(reply) == failed

\* The error of a file that was refused ends the loop and is shown.
Outcome(reply) == failed \/ reply = "bad"

\* The last file, or one that failed: the progress goes, all is loaded again.
EndUpload ==
  \E u \in Uploads :
    LET up == upload[u] IN
    /\ \/ up.reply = "ok" /\ Cardinality(up.files) = 1
       \/ up.reply = "bad"
    /\ upload' = [upload EXCEPT ![u] = NoUpload]
    /\ banner' = FALSE
    /\ failed' = Outcome(up.reply)
    /\ ReloadAll
    /\ UNCHANGED <<serverVars, query, selected, modal, call, handed, remaining>>

-------------------------------------------------------------------------------
(* Other users *)

\* Another user uploads, moves or deletes a file, or deletes the folder and what is in it.
SomeoneElseWrites ==
  /\ PageSpend("other")
  /\ \/ \E f \in Files, to \in Places :
          /\ f \notin stored /\ f \notin Pending
          /\ to = "folder" => folder
          /\ Receives(f, to)
     \/ \E f \in Files, to \in Places \cup {"absent"} :
          /\ library[f] \notin {"absent", to}
          /\ to = "folder" => folder
          /\ library' = [library EXCEPT ![f] = to]
          /\ UNCHANGED <<folder, stored>>
     \/ /\ folder
        /\ folder' = FALSE
        /\ library' = [f \in Files |-> IF library[f] = "folder" THEN "absent" ELSE library[f]]
        /\ UNCHANGED stored
  /\ UNCHANGED <<query, grid, tree, selected, modal, call, uploadVars>>

-------------------------------------------------------------------------------
(* The specification *)

\* The page is opened on a library with some of the files.
PageInit ==
  /\ library \in [Files -> {"absent", "root", "folder"}]
  /\ \A f, g \in Files : (f < g /\ library[g] # "absent") => library[f] # "absent"
  /\ folder = TRUE
  /\ query = [view |-> "all", filtered |-> FALSE, page |-> 1]
  /\ grid = Ask(Unloaded, query) /\ tree = Ask(Unloaded, "tree")
  /\ selected = {}
  /\ modal = PageIdle /\ call = PageIdle
  /\ upload = [u \in Uploads |-> NoUpload]
  /\ banner = FALSE /\ failed = FALSE
  /\ handed = {} /\ stored = {f \in Files : library[f] # "absent"}
  /\ remaining \in PageBudgets

LiveGrid == {f \in grid.flying : f.live}

Handled ==
  \/ AnswerTree \/ ReceiveTree \/ ServeCall \/ FinishCall \/ FailCall
  \/ ServeUpload \/ NextFile \/ EndUpload

PageUser ==
  \/ ChangeView \/ ChangeFilter \/ TurnPage \/ Tick \/ ClearSelection
  \/ OpenDelete \/ OpenMove \/ OpenDeleteFolder \/ CloseDialog \/ Confirm \/ DropCards
  \/ CreateFolder \/ StartUpload

PageNext ==
  \/ Poll \/ RefuseGrid \/ \E f \in grid.flying : ReadHalf(f) \/ AnswerGrid(f) \/ ReceiveGrid(f)
  \/ Handled \/ PageUser \/ SomeoneElseWrites

PageSpec == PageInit /\ [][PageNext]_mediaVars

\* Requests are handled, the timer runs, and again and again an answer beats the next poll, which
\* would cancel it.
PageFairSpec ==
  /\ PageSpec
  /\ WF_mediaVars(Handled)
  /\ WF_mediaVars(Poll)
  /\ SF_mediaVars(\E f \in LiveGrid : ReadHalf(f))
  /\ SF_mediaVars(\E f \in LiveGrid : AnswerGrid(f))
  /\ SF_mediaVars(\E f \in LiveGrid : ReceiveGrid(f))

-------------------------------------------------------------------------------
(* Properties *)

\* The grid catches up: when everyone has stopped, it shows for good what the library has on the
\* page, in the view and with the filters that are selected, whoever changed them, and although
\* each poll cancels the request before it (hooks.ts:41, hooks.ts:48).
GridCatchesUp == <>[](grid.data = Listing(query))

\* What is handed to an upload is in the library, or still being sent, or the page shows an error:
\* also with two uploads at a time, which share the progress and the error.
NoFileForgotten == handed \subseteq stored \cup Pending \/ failed

\* The inductive invariant behind it: the file an upload has an answer for is in, before the upload
\* lets go of it.
UploadsKnow ==
  /\ DOMAIN upload = Uploads
  /\ \A u \in Uploads :
       /\ DOMAIN upload[u] = {"files", "to", "reply"}
       /\ upload[u].files \subseteq Files
       /\ upload[u].reply = "ok" => Current(u) \in stored

PageInv == UploadsKnow /\ NoFileForgotten

\* The page says "No media found" (Media.tsx:400) only when nothing is found.
EmptyMeansEmpty ==
  grid.data # Nothing /\ Settled(grid) /\ grid.data.items = << >> => grid.data.total = 0

===============================================================================
