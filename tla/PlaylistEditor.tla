---------------------------- MODULE PlaylistEditor ----------------------------
(***************************************************************************)
(* The playlist editor page in one browser tab: the form over a playlist's *)
(* settings and entries, its save in two requests, the priority rules and  *)
(* their assignment dialog, the resolved preview, and Duplicate, which     *)
(* navigates to the copy within the same component.  The user may go on    *)
(* while requests are under way; other users write to the same playlist;   *)
(* requests fail, or their answers are lost.                               *)
(*                                                                         *)
(* The settings are one value, an entry is its media and its checkbox.     *)
(* One priority rule per playlist, of which the interval and the media are *)
(* modelled, one rule write at a time, one duplication.                    *)
(***************************************************************************)
EXTENDS Loader, Naturals, Sequences, SequencesExt

CONSTANTS
  Original, Clone,  \* the playlist and its copy
  Settings,         \* values of the settings and display defaults
  Media,            \* what the picker offers
  Intervals,        \* of a priority rule
  MaxItems,         \* bound: entries of a playlist
  Budgets           \* how many events of each kind a behaviour may contain, one function per scenario

Lists == {Original, Clone}
Loaders == {"sheet", "rules", "preview"}

\* The user edits the form, presses Save, writes to the rule, types into its interval,
\* duplicates, asks for a new preview; another user writes; a request fails; the behaviour starts
\* with the page being opened rather than at rest.
Events == {"edit", "save", "rule", "type", "duplicate", "refresh", "other", "fault", "open"}

ASSUME EditorAssumption ==
  /\ Original # Clone /\ Nothing \notin Lists
  /\ MaxItems \in Nat
  /\ Budgets \subseteq [Events -> Nat]

VARIABLES
  db,       \* the playlists as stored, with a version that counts their writes
  at,       \* the playlist in the page's URL
  form,     \* what the page's fields hold
  dirty,    \* whether there are unsaved changes, as the page believes
  typed,    \* history: the form as the user left it, while nothing is due that replaces it
  loaders,  \* the page's three queries
  save,     \* the save under way
  write,    \* the rule write under way
  copying,  \* the duplication under way
  box,      \* the text of the rule's interval input
  dialog,   \* the rule being assigned, and the media picked
  mine,     \* history: the last version each query must know of, by this tab's writes
  left      \* events that may still happen

pageVars == <<at, form, dirty, typed, loaders, box, dialog, mine>>
callVars == <<save, write, copying>>
vars == <<db, pageVars, callVars, left>>

Spend(kind) ==
  /\ left[kind] > 0
  /\ left' = [left EXCEPT ![kind] = @ - 1]

Idle == [step |-> "idle"]

Content(data) == [settings |-> data.settings, items |-> data.items]

\* The page is shown: not the spinner, not the error note in its place.
Shown(sheet) == ~sheet.failed /\ (sheet.data # Nothing \/ ~sheet.loading)
Visible == Shown(loaders.sheet)

\* The rule on the card.
RuleShown == IF loaders.rules.data = Nothing THEN Nothing ELSE loaders.rules.data.rule

-------------------------------------------------------------------------------
(* The queries *)

\* The preview and the rules card live inside the page: they are dropped with it, and created anew
\* when it comes back; a rule write they started then reloads nothing.
Render(list, sheet, rules, preview) ==
  IF ~Shown(sheet)
  THEN /\ loaders' = [sheet |-> sheet, rules |-> Unloaded, preview |-> Unloaded]
       /\ box' = Nothing /\ dialog' = Nothing
       /\ write' = IF write = Idle THEN Idle ELSE [write EXCEPT !.owned = FALSE]
  ELSE IF ~Visible
  THEN /\ loaders' = [sheet |-> sheet, rules |-> Ask(Unloaded, list), preview |-> Ask(Unloaded, list)]
       /\ UNCHANGED <<box, dialog, write>>
  ELSE /\ loaders' = [sheet |-> sheet, rules |-> rules, preview |-> preview]
       /\ UNCHANGED <<box, dialog, write>>

\* The API answers a query, or refuses it.
AnswerQuery ==
  \E l \in Loaders : \E f \in Asked(loaders[l]) :
    /\ \/ /\ loaders' = [loaders EXCEPT ![l] = Answer(@, f, db[f.key])]
          /\ UNCHANGED left
       \/ /\ Spend("fault")
          /\ loaders' = [loaders EXCEPT ![l] = Refuse(@, f)]
    /\ UNCHANGED <<db, at, form, dirty, typed, box, dialog, mine, callVars>>

\* The effect on playlist.data: every answer overwrites the form.
Fill(f) == form' = Content(f.got) /\ dirty' = FALSE

\* The playlist arrives.
ReceiveSheet ==
  \E f \in Arriving(loaders.sheet) :
    /\ Render(at, Receive(loaders.sheet, f), loaders.rules, loaders.preview)
    /\ IF f.live /\ f.step = "answered" THEN Fill(f) ELSE UNCHANGED <<form, dirty>>
    /\ UNCHANGED <<db, at, typed, mine, save, copying, left>>

\* The rules arrive.  The interval input takes its value when its row is created, and keeps
\* what it holds as long as the row is that of the same rule.
ReceiveRules ==
  \E f \in Arriving(loaders.rules) :
    LET rules == Receive(loaders.rules, f)
        now == IF rules.data = Nothing THEN Nothing ELSE rules.data.rule
    IN
    /\ loaders' = [loaders EXCEPT !.rules = rules]
    /\ box' = IF now = Nothing THEN Nothing
              ELSE IF RuleShown # Nothing /\ RuleShown.id = now.id THEN box
              ELSE now.every
    /\ UNCHANGED <<db, at, form, dirty, typed, dialog, mine, callVars, left>>

\* The preview arrives.
ReceivePreview ==
  \E f \in Arriving(loaders.preview) :
    /\ loaders' = [loaders EXCEPT !.preview = Receive(@, f)]
    /\ UNCHANGED <<db, at, form, dirty, typed, box, dialog, mine, callVars, left>>

\* The user asks for a new sample, or refreshes the preview.
Refresh ==
  /\ Visible
  /\ Spend("refresh")
  /\ loaders' = [loaders EXCEPT !.preview = Ask(@, at)]
  /\ UNCHANGED <<db, at, form, dirty, typed, box, dialog, mine, callVars>>

-------------------------------------------------------------------------------
(* The form *)

Edit(newForm) ==
  /\ Visible
  /\ Spend("edit")
  /\ form' = newForm
  /\ dirty' = TRUE
  /\ typed' = IF \E f \in loaders.sheet.flying : f.live THEN Nothing ELSE newForm
  /\ UNCHANGED <<db, at, loaders, box, dialog, mine, callVars>>

\* A settings field or a display default.
EditSettings == \E s \in Settings \ {form.settings} : Edit([form EXCEPT !.settings = s])

\* Media from the picker, or a folder, becomes the last entry.
AddItem ==
  \E m \in Media :
    /\ Len(form.items) < MaxItems
    /\ Edit([form EXCEPT !.items = Append(@, [media |-> m, on |-> TRUE])])

\* An entry's fields.
ChangeItem == \E i \in DOMAIN form.items : Edit([form EXCEPT !.items[i].on = ~@])

RemoveItem == \E i \in DOMAIN form.items : Edit([form EXCEPT !.items = RemoveAt(@, i)])

\* The arrows: an entry changes places with its neighbour.
MoveItem ==
  \E i \in DOMAIN form.items, j \in DOMAIN form.items :
    /\ j \in {i - 1, i + 1}
    /\ Edit([form EXCEPT !.items = [@ EXCEPT ![i] = form.items[j], ![j] = form.items[i]]])

-------------------------------------------------------------------------------
(* Save: PATCH the settings, then PUT the entries *)

\* Save is pressed: both bodies are those of the form of this moment.
PressSave ==
  /\ Visible /\ dirty /\ save = Idle
  /\ Spend("save")
  /\ save' = [step |-> "patch", to |-> at, form |-> form, reply |-> "none", ver |-> 0,
              alone |-> TRUE]
  /\ UNCHANGED <<db, pageVars, write, copying>>

\* Mutant of Body: the entries are read when the second request is made.
BodyOfNow == IF save.step = "patch" THEN save.form ELSE form

Body == save.form

\* The playlist after the request under way.
Saved ==
  LET old == db[save.to] IN
  IF save.step = "patch"
  THEN [old EXCEPT !.settings = Body.settings, !.ver = @ + 1]
  ELSE [old EXCEPT !.items = Body.items, !.ver = @ + 1]

\* The API performs the request; or the request fails before, or its answer is lost.
ServeSave ==
  /\ save # Idle /\ save.reply = "none"
  /\ \/ /\ db' = [db EXCEPT ![save.to] = Saved]
        /\ save' = [save EXCEPT !.reply = "ok", !.ver = Saved.ver]
        /\ UNCHANGED left
     \/ /\ Spend("fault")
        /\ db' \in {db, [db EXCEPT ![save.to] = Saved]}
        /\ save' = [save EXCEPT !.reply = "bad"]
  /\ UNCHANGED <<pageVars, write, copying>>

SecondHalf ==
  /\ save # Idle /\ save.step = "patch" /\ save.reply = "ok"
  /\ save' = [save EXCEPT !.step = "put", !.reply = "none"]
  /\ UNCHANGED <<db, pageVars, write, copying, left>>

\* Mutant of AfterSave: the preview is not asked for again.
AfterSaveOnly == Render(at, Ask(loaders.sheet, at), loaders.rules, loaders.preview)

\* The playlist and the preview are loaded again.
AfterSave == Render(at, Ask(loaders.sheet, at), loaders.rules, Ask(loaders.preview, at))

\* Both halves are in.
FinishSave ==
  /\ save # Idle /\ save.step = "put" /\ save.reply = "ok"
  /\ save' = Idle
  /\ dirty' = FALSE
  /\ typed' = Nothing
  /\ at' = at
  /\ AfterSave
  /\ mine' = IF save.to = at
             THEN [mine EXCEPT !.sheet = save.ver, !.preview = save.ver] ELSE mine
  /\ UNCHANGED <<db, form, copying, left>>

\* Mutant of Release: the busy state is only reset after a success.
StayBusy(call) == call

\* useAction's finally.
Release(call) == Idle

\* Mutant of FailSave: the playlist is loaded again after a failure too.
FailSaveReloads ==
  /\ save # Idle /\ save.reply = "bad"
  /\ save' = Release(save)
  /\ AfterSave
  /\ UNCHANGED <<db, at, form, dirty, typed, mine, copying, left>>

\* One half failed: the error is shown, the form stays as it is.
FailSave ==
  /\ save # Idle /\ save.reply = "bad"
  /\ save' = Release(save)
  /\ UNCHANGED <<db, pageVars, write, copying, left>>

-------------------------------------------------------------------------------
(* Priority rules *)

StartWrite(do, of, with) ==
  /\ Visible /\ write = Idle
  /\ Spend("rule")
  /\ write' = [step |-> "sent", do |-> do, to |-> at, of |-> of, with |-> with, ver |-> 0,
               owned |-> TRUE]
  /\ UNCHANGED <<db, pageVars, save, copying>>

\* The modal for a new rule.
CreateRule == \E n \in Intervals : db[at].rule = Nothing /\ StartWrite("add", Nothing, n)

DeleteRule == RuleShown # Nothing /\ StartWrite("drop", RuleShown.id, Nothing)

TypeInterval ==
  \E n \in Intervals :
    /\ Visible /\ box \notin {Nothing, n}
    /\ Spend("type")
    /\ box' = n
    /\ UNCHANGED <<db, at, form, dirty, typed, loaders, dialog, mine, callVars>>

\* The input loses the focus: what it holds is sent when it is not the interval shown.
BlurInterval ==
  /\ box # Nothing /\ box # RuleShown.every
  /\ StartWrite("change", RuleShown.id, box)

\* The dialog starts from the rule as it is shown.
OpenDialog ==
  /\ Visible /\ RuleShown # Nothing /\ dialog = Nothing
  /\ dialog' = [rule |-> RuleShown.id, media |-> RuleShown.media]
  /\ UNCHANGED <<db, at, form, dirty, typed, loaders, box, mine, callVars, left>>

ToggleMedia ==
  \E m \in Media :
    /\ dialog # Nothing
    /\ dialog' = [dialog EXCEPT !.media = IF m \in @ THEN @ \ {m} ELSE @ \cup {m}]
    /\ UNCHANGED <<db, at, form, dirty, typed, loaders, box, mine, callVars, left>>

CancelDialog ==
  /\ dialog # Nothing
  /\ dialog' = Nothing
  /\ UNCHANGED <<db, at, form, dirty, typed, loaders, box, mine, callVars, left>>

\* All assignments of the rule are replaced by those of the dialog.
SaveDialog == dialog # Nothing /\ StartWrite("assign", dialog.rule, dialog.media)

\* A rule's identity is the version of the playlist it was created with.
Written ==
  LET old == db[write.to]
      new == IF write.do = "add"
             THEN [id |-> <<write.to, old.ver + 1>>, every |-> write.with, media |-> {}]
             ELSE IF write.do = "drop" THEN Nothing
             ELSE IF write.do = "change" THEN [old.rule EXCEPT !.every = write.with]
             ELSE [old.rule EXCEPT !.media = write.with]
  IN [old EXCEPT !.rule = new, !.ver = @ + 1]

\* The rule exists, in this playlist.
RuleFound ==
  LET rule == db[write.to].rule IN
  IF write.do = "add" THEN rule = Nothing ELSE rule # Nothing /\ rule.id = write.of

ServeWrite ==
  /\ write # Idle /\ write.step = "sent"
  /\ \/ /\ RuleFound
        /\ db' = [db EXCEPT ![write.to] = Written]
        /\ write' = [write EXCEPT !.step = "done", !.ver = Written.ver]
        /\ UNCHANGED left
     \/ /\ ~RuleFound
        /\ write' = [write EXCEPT !.step = "refused"]
        /\ UNCHANGED <<db, left>>
     \/ /\ RuleFound
        /\ Spend("fault")
        /\ db' \in {db, [db EXCEPT ![write.to] = Written]}
        /\ write' = [write EXCEPT !.step = "refused"]
  /\ UNCHANGED <<pageVars, save, copying>>

\* The rules are loaded again, if their card is still there, and the preview.
FinishWrite ==
  /\ write # Idle /\ write.step = "done"
  /\ write' = Idle
  /\ loaders' = IF ~Visible THEN loaders
                ELSE [loaders EXCEPT !.rules = IF write.owned THEN Ask(@, at) ELSE @,
                                     !.preview = Ask(@, at)]
  /\ dialog' = IF write.do = "assign" /\ write.owned THEN Nothing ELSE dialog
  /\ mine' = IF write.to # at THEN mine
             ELSE [mine EXCEPT !.preview = write.ver,
                               !.rules = IF write.owned THEN write.ver ELSE @]
  /\ UNCHANGED <<db, at, form, dirty, typed, box, save, copying, left>>

FailWrite ==
  /\ write # Idle /\ write.step = "refused"
  /\ write' = Release(write)
  /\ UNCHANGED <<db, pageVars, save, copying, left>>

-------------------------------------------------------------------------------
(* Duplicate *)

PressDuplicate ==
  /\ Visible /\ copying = Idle /\ at = Original /\ db[Clone] = Nothing
  /\ Spend("duplicate")
  /\ copying' = [step |-> "sent"]
  /\ UNCHANGED <<db, pageVars, save, write>>

CopyOf(list) ==
  [list EXCEPT !.list = Clone, !.ver = 1,
               !.rule = IF @ = Nothing THEN Nothing ELSE [@ EXCEPT !.id = <<Clone, 1>>]]

ServeDuplicate ==
  /\ copying.step = "sent"
  /\ \/ /\ db' = [db EXCEPT ![Clone] = CopyOf(db[Original])]
        /\ copying' = [step |-> "made"]
        /\ UNCHANGED left
     \/ /\ Spend("fault")
        /\ db' \in {db, [db EXCEPT ![Clone] = CopyOf(db[Original])]}
        /\ copying' = [step |-> "refused"]
  /\ UNCHANGED <<pageVars, save, write>>

\* The page goes to the copy: the same component, whose queries have a new key.
Navigate ==
  /\ copying.step = "made"
  /\ copying' = Idle
  /\ at' = Clone
  /\ Render(Clone, Ask(loaders.sheet, Clone), Ask(loaders.rules, Clone), Ask(loaders.preview, Clone))
  /\ mine' = [l \in Loaders |-> 0]
  /\ typed' = Nothing
  /\ UNCHANGED <<db, form, dirty, save, left>>

FailDuplicate ==
  /\ copying.step = "refused"
  /\ copying' = Release(copying)
  /\ UNCHANGED <<db, pageVars, save, write, left>>

-------------------------------------------------------------------------------
(* Other users *)

\* Another tab writes one part of the playlist.
SomeoneWrites ==
  /\ Spend("other")
  /\ LET old == db[Original] IN
       \/ /\ \E s \in Settings \ {old.settings} :
               db' = [db EXCEPT ![Original] = [old EXCEPT !.settings = s, !.ver = @ + 1]]
          /\ save' = IF save # Idle /\ save.to = Original THEN [save EXCEPT !.alone = FALSE]
                     ELSE save
       \/ /\ db' = [db EXCEPT ![Original] = [old EXCEPT !.items = << >>, !.ver = @ + 1]]
          /\ save' = IF save # Idle /\ save.to = Original THEN [save EXCEPT !.alone = FALSE]
                     ELSE save
       \/ /\ old.rule # Nothing
          /\ \E n \in Intervals \ {old.rule.every} :
               db' = [db EXCEPT ![Original] = [old EXCEPT !.rule.every = n, !.ver = @ + 1]]
          /\ UNCHANGED save
  /\ UNCHANGED <<pageVars, write, copying>>

-------------------------------------------------------------------------------
(* The specification *)

Init ==
  LET s == CHOOSE x \in Settings : TRUE
      m == CHOOSE x \in Media : TRUE
      n == CHOOSE x \in Intervals : TRUE
  IN
    /\ db \in [Lists -> {Nothing}
                \cup {[list |-> Original, settings |-> s, items |-> <<[media |-> m, on |-> TRUE]>>,
                       rule |-> r, ver |-> 1]
                       : r \in {Nothing, [id |-> <<Original, 1>>, every |-> n, media |-> {}]}}]
    /\ db[Original] # Nothing /\ db[Clone] = Nothing
    /\ at = Original
    /\ dirty = FALSE
    /\ typed = Nothing
    /\ save = Idle /\ write = Idle /\ copying = Idle
    /\ dialog = Nothing
    /\ mine = [l \in Loaders |-> 0]
    /\ left \in Budgets
    /\ IF left.open = 1
       THEN /\ loaders = [l \in Loaders |-> IF l = "sheet" THEN Ask(Unloaded, Original) ELSE Unloaded]
            /\ form = [settings |-> s, items |-> << >>]
            /\ box = Nothing
       ELSE /\ loaders = [l \in Loaders |->
                            [Unloaded EXCEPT !.data = db[Original], !.loading = FALSE]]
            /\ form = Content(db[Original])
            /\ box = IF db[Original].rule = Nothing THEN Nothing ELSE n

Asynchronous ==
  \/ AnswerQuery \/ ReceiveSheet \/ ReceiveRules \/ ReceivePreview
  \/ ServeSave \/ SecondHalf \/ FinishSave \/ FailSave
  \/ ServeWrite \/ FinishWrite \/ FailWrite
  \/ ServeDuplicate \/ Navigate \/ FailDuplicate

User ==
  \/ EditSettings \/ AddItem \/ ChangeItem \/ RemoveItem \/ MoveItem
  \/ PressSave \/ PressDuplicate \/ Refresh
  \/ CreateRule \/ DeleteRule \/ TypeInterval \/ BlurInterval
  \/ OpenDialog \/ ToggleMedia \/ CancelDialog \/ SaveDialog

Next == Asynchronous \/ User \/ SomeoneWrites

Spec == Init /\ [][Next]_vars

\* Every request is answered or fails, and its answer is handled.
FairSpec == Spec /\ WF_vars(Asynchronous)

-------------------------------------------------------------------------------
(* Properties *)

\* No query shows an older answer after a newer one, nor an answer about another playlist than the
\* page's: a slow answer to a query that was asked again, or that was about the playlist left by
\* Duplicate, changes nothing (hooks.ts:29, the cancelled flag).
ShownNeverGoesBack ==
  [][\A l \in Loaders :
       LET old == loaders[l].data
           new == loaders'[l].data
       IN new # old /\ new # Nothing =>
            /\ new.list = at'
            /\ old # Nothing /\ old.list = new.list => old.ver <= new.ver]_vars

\* Once the page is at rest, what it shows takes in every write of this tab that succeeded: the
\* form after a save, the rules after a rule write, the preview after either.
OwnWritesShown ==
  Visible =>
    \A l \in Loaders :
      Settled(loaders[l]) => loaders[l].data.list = at /\ loaders[l].data.ver >= mine[l]

\* What the user typed with no load of the form under way is still there, and Save enabled,
\* until a save succeeds or Duplicate leaves the playlist: a save that fails in either half, rule
\* writes, previews, answers that come late and other users take nothing away.  (The save that
\* succeeds loads the form again, and what was typed since it was pressed is lost with it:
\* SavedLabelIsTrue.)
EditsSurvive ==
  typed # Nothing => form = typed /\ dirty

\* Of the form at the moment Save was pressed, both halves are stored, whatever the user went on
\* to type while the first request was under way, and wherever Duplicate took the page.
SavedAsPressed ==
  save # Idle /\ save.step = "put" /\ save.reply = "ok" /\ save.alone =>
    Content(db[save.to]) = save.form

\* No button stays busy, and no query stays open, for good.
NothingBusyForever ==
  []<>(/\ save = Idle /\ write = Idle /\ copying = Idle
       /\ \A l \in Loaders : ~\E f \in loaders[l].flying : f.live)

\* While the button says "Saved" (PlaylistEditor.tsx:219), what the form holds is what was loaded
\* or what is stored.
SavedLabelIsTrue ==
  Visible /\ ~dirty /\ save = Idle /\ loaders.sheet.data # Nothing =>
    \/ form = Content(loaders.sheet.data)
    \/ \E l \in Lists : db[l] # Nothing /\ form = Content(db[l])

===============================================================================
