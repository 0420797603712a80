------------------------- MODULE PlaylistEditorProofs -------------------------
(***************************************************************************)
(* Proofs about PlaylistEditor for any settings, media, intervals and      *)
(* budgets: answers are never shown out of order, a page at rest knows its *)
(* own writes, nothing but a save that succeeds or Duplicate takes away    *)
(* what the user typed, and what is saved is the form of the moment Save   *)
(* was pressed.  At the end, about the dashboard's other page, MediaPage:  *)
(* no file handed to an upload is forgotten, for any files, uploads and    *)
(* budgets.                                                                *)
(***************************************************************************)
EXTENDS PlaylistEditor, MediaPage, FiniteSetTheorems, TLAPS

-------------------------------------------------------------------------------
(* The inductive invariant.                                                *)

Playlist(p, l) ==
  /\ DOMAIN p = {"list", "settings", "items", "rule", "ver"}
  /\ p.list = l /\ p.ver \in Nat

\* The playlist in the URL exists, and the page only ever goes from the original to the copy.
StoreOK ==
  /\ DOMAIN db = Lists /\ at \in Lists
  /\ Playlist(db[Original], Original)
  /\ at = Clone \/ copying.step = "made" => Playlist(db[Clone], Clone)
  /\ copying.step \in {"idle", "sent", "made", "refused"}
  /\ copying.step # "idle" => at = Original

FlightShape(f) ==
  /\ DOMAIN f = {"key", "live", "step", "got"}
  /\ f.live \in BOOLEAN /\ f.step \in {"asked", "answered", "refused"}

\* An answer on its way is not older than what is shown, nor than the tab's own writes.
AnswerOK(f, d, a, v, m) ==
  /\ f.got.list = a /\ f.got.ver \in Nat
  /\ m <= f.got.ver /\ f.got.ver <= v
  /\ d.data # Nothing /\ d.data.list = a => d.data.ver <= f.got.ver

\* What is shown is about the page's playlist, or about the one the page has left.
DataOK(d, a, v) ==
  d.data # Nothing =>
    /\ d.data.ver \in Nat
    /\ d.data.list = a \/ (a = Clone /\ d.data.list = Original)
    /\ d.data.list = a => d.data.ver <= v

\* One query of a page at playlist a, which is stored with version v; the tab has written
\* version m.  At most one of its requests is not cancelled.
LoaderOK(d, a, v, m) ==
  /\ DOMAIN d = {"flying", "data", "loading", "failed"}
  /\ d.loading \in BOOLEAN /\ d.failed \in BOOLEAN
  /\ v \in Nat /\ m \in Nat /\ m <= v
  /\ \A f \in d.flying : FlightShape(f)
  /\ \A f, g \in d.flying : f.live /\ g.live => f = g
  /\ \A f \in d.flying : f.live => f.key = a /\ (f.step = "answered" => AnswerOK(f, d, a, v, m))
  /\ DataOK(d, a, v)
  /\ Settled(d) => d.data.list = a /\ d.data.ver \in Nat /\ m <= d.data.ver

LoadersOK ==
  /\ DOMAIN loaders = Loaders /\ DOMAIN mine = Loaders
  /\ \A l \in Loaders : LoaderOK(loaders[l], at, db[at].ver, mine[l])

\* The queries that live inside the page go with it.
HiddenOK == ~Visible => loaders.rules = Unloaded /\ loaders.preview = Unloaded

IsForm(f) == f = [settings |-> f.settings, items |-> f.items]

\* A request of the query is still to be shown.
Waiting(d) == \E f \in d.flying : f.live

\* Nothing is on its way that would replace what the user typed.
FormOK ==
  /\ IsForm(form) /\ dirty \in BOOLEAN
  /\ typed # Nothing => form = typed /\ dirty /\ ~Waiting(loaders.sheet)

\* What a save has stored so far stays stored while nobody else writes it.
SaveOK ==
  save # Idle =>
    /\ DOMAIN save = {"step", "to", "form", "reply", "ver", "alone"}
    /\ save.to \in Lists /\ (save.to = Clone => at = Clone)
    /\ save.ver \in Nat /\ IsForm(save.form) /\ save.alone \in BOOLEAN
    /\ save.step \in {"patch", "put"} /\ save.reply \in {"none", "ok", "bad"}
    /\ save.reply = "ok" => save.ver <= db[save.to].ver
    /\ save.alone /\ (save.step = "put" \/ save.reply = "ok") =>
         db[save.to].settings = save.form.settings
    /\ save.alone /\ save.step = "put" /\ save.reply = "ok" =>
         db[save.to].items = save.form.items

WriteOK ==
  write # Idle =>
    /\ DOMAIN write = {"step", "do", "to", "of", "with", "ver", "owned"}
    /\ write.to \in Lists /\ (write.to = Clone => at = Clone)
    /\ write.ver \in Nat
    /\ write.step = "done" => write.ver <= db[write.to].ver

EditorInv == StoreOK /\ LoadersOK /\ HiddenOK /\ FormOK /\ SaveOK /\ WriteOK

\* What a step may do to what a query of a page at playlist a shows.
DataMoves(d, e, a) ==
  \/ e.data = d.data
  \/ e.data = Nothing
  \/ /\ e.data.list = a
     /\ d.data # Nothing /\ d.data.list = a => d.data.ver <= e.data.ver

Moves == \A l \in Loaders : DataMoves(loaders[l], loaders'[l], at')

-------------------------------------------------------------------------------
(* One query.                                                              *)

\* A loader that has asked for nothing is in order.
LEMMA UnloadedOK ==
  ASSUME NEW a, NEW v \in Nat, NEW m \in Nat, m <= v
  PROVE  LoaderOK(Unloaded, a, v, m) /\ Unloaded.data = Nothing
  BY DEF LoaderOK, DataOK, Unloaded, Settled

\* A query that is asked again for the playlist the page is at, or goes to.
LEMMA AskOK ==
  ASSUME NEW d, NEW a, NEW v, NEW m, LoaderOK(d, a, v, m),
         NEW b, b = a \/ (a = Original /\ b = Clone),
         NEW w \in Nat, NEW n \in Nat, n <= w, b = a => v <= w
  PROVE  /\ LoaderOK(Ask(d, b), b, w, n)
         /\ ~Settled(Ask(d, b)) /\ Ask(d, b).data = d.data
<1> DEFINE new == [key |-> b, live |-> TRUE, step |-> "asked", got |-> Nothing]
           old == {[f EXCEPT !.live = FALSE] : f \in {g \in d.flying : g.live}}
           e == Ask(d, b)
<1>1. /\ DOMAIN e = {"flying", "data", "loading", "failed"}
      /\ e.flying = old \cup {new} /\ e.data = d.data
      /\ e.loading = d.loading /\ e.failed = FALSE
  BY DEF LoaderOK, Ask
<1>2. \A f \in old : FlightShape(f) /\ ~f.live
  <2>1. \A f \in d.flying : FlightShape(f)
    BY DEF LoaderOK
  <2>2. \A f : FlightShape(f) => FlightShape([f EXCEPT !.live = FALSE]) /\ ~[f EXCEPT !.live = FALSE].live
    BY DEF FlightShape
  <2> QED
    BY <2>1, <2>2
<1>3. FlightShape(new) /\ new.live /\ new.key = b /\ new.step = "asked"
  BY DEF FlightShape
<1>4. DataOK(e, b, w)
  <2>1. DataOK(d, a, v) /\ v \in Nat
    BY DEF LoaderOK
  <2> HIDE DEF e
  <2> QED
    BY <1>1, <2>1, EditorAssumption DEF DataOK
<1> HIDE DEF new, old, e
<1>5. ~Settled(e)
  BY <1>1, <1>3 DEF Settled
<1>6. LoaderOK(e, b, w, n)
  BY <1>1, <1>2, <1>3, <1>4, <1>5 DEF LoaderOK
<1> QED
  BY <1>1, <1>5, <1>6 DEF e

\* The database has moved on.
LEMMA LoaderKept ==
  ASSUME NEW d, NEW a, NEW v, NEW m, LoaderOK(d, a, v, m), NEW w \in Nat, v <= w
  PROVE  LoaderOK(d, a, w, m)
<1>1. /\ v \in Nat /\ m \in Nat /\ m <= w
      /\ DataOK(d, a, w)
      /\ \A f : AnswerOK(f, d, a, v, m) => AnswerOK(f, d, a, w, m)
  BY DEF LoaderOK, DataOK, AnswerOK
<1> QED
  BY <1>1 DEF LoaderOK

\* The server's answer to one request.
LEMMA ReplyOK ==
  ASSUME NEW d, NEW a, NEW v, NEW m, LoaderOK(d, a, v, m),
         NEW f \in d.flying, f.step = "asked", NEW g, FlightShape(g), g.step # "asked",
         g.live = f.live, g.key = f.key,
         f.live /\ g.step = "answered" => g.got.list = a /\ g.got.ver = v,
         NEW e, e = [d EXCEPT !.flying = (@ \ {f}) \cup {g}]
  PROVE  /\ LoaderOK(e, a, v, m) /\ e.data = d.data
         /\ Settled(e) <=> Settled(d)
         /\ Waiting(e) <=> Waiting(d)
<1>1. /\ DOMAIN e = {"flying", "data", "loading", "failed"}
      /\ e.flying = (d.flying \ {f}) \cup {g} /\ e.data = d.data
      /\ e.loading = d.loading /\ e.failed = d.failed
  BY DEF LoaderOK
<1>2. \A x \in e.flying : FlightShape(x)
  BY <1>1 DEF LoaderOK
<1>3. \A x, y \in e.flying : x.live /\ y.live => x = y
  BY <1>1 DEF LoaderOK
<1>4. (Settled(e) <=> Settled(d)) /\ (Waiting(e) <=> Waiting(d))
  BY <1>1 DEF Settled, Waiting
<1>5. DataOK(e, a, v) /\ DataOK(d, a, v) /\ v \in Nat /\ m \in Nat /\ m <= v
  BY <1>1 DEF LoaderOK, DataOK
<1>6. f.live /\ g.step = "answered" => AnswerOK(g, e, a, v, m)
  BY <1>1, <1>5 DEF AnswerOK, DataOK
<1>7. \A x : AnswerOK(x, d, a, v, m) => AnswerOK(x, e, a, v, m)
  BY <1>1 DEF AnswerOK
<1>8. \A x \in e.flying : x.live => x.key = a /\ (x.step = "answered" => AnswerOK(x, e, a, v, m))
  BY <1>1, <1>6, <1>7 DEF LoaderOK
<1> QED
  BY <1>1, <1>2, <1>3, <1>4, <1>5, <1>8 DEF LoaderOK

\* An answer arrives.
LEMMA ReceiveOK ==
  ASSUME NEW d, NEW a, NEW v, NEW m, LoaderOK(d, a, v, m),
         NEW f \in d.flying, f.step # "asked"
  PROVE  LET e == Receive(d, f) IN
         /\ LoaderOK(e, a, v, m) /\ DataMoves(d, e, a)
         /\ f.live /\ f.step = "answered" => e.data = f.got
         /\ Waiting(e) => Waiting(d)
         /\ f.live => Waiting(d)
<1> DEFINE e == Receive(d, f)
<1>3. (Waiting(e) => Waiting(d)) /\ (f.live => Waiting(d))
  <2>1. e.flying = d.flying \ {f}
    BY DEF LoaderOK, Receive
  <2> HIDE DEF e
  <2> QED
    BY <2>1 DEF Waiting
<1>0. /\ FlightShape(f) /\ v \in Nat /\ m \in Nat /\ m <= v
      /\ DataOK(d, a, v)
  BY DEF LoaderOK
<1>1. CASE ~f.live
  <2>1. /\ DOMAIN e = {"flying", "data", "loading", "failed"}
        /\ e.flying = d.flying \ {f} /\ e.data = d.data
        /\ e.loading = d.loading /\ e.failed = d.failed
    BY <1>1 DEF LoaderOK, Receive
  <2> HIDE DEF e
  <2>2. Settled(e) <=> Settled(d)
    BY <1>1, <2>1 DEF Settled
  <2>3. /\ DataOK(e, a, v)
        /\ \A x : AnswerOK(x, d, a, v, m) => AnswerOK(x, e, a, v, m)
    BY <1>0, <2>1 DEF DataOK, AnswerOK
  <2>4. LoaderOK(e, a, v, m)
    BY <1>0, <2>1, <2>2, <2>3 DEF LoaderOK
  <2> QED
    BY <1>3, <1>1, <2>1, <2>2, <2>4 DEF DataMoves, e
<1>2. CASE f.live
  <2>1. \A x \in d.flying \ {f} : FlightShape(x) /\ ~x.live
    BY <1>2 DEF LoaderOK
  <2>2. CASE f.step = "answered"
    <3>1. /\ DOMAIN e = {"flying", "data", "loading", "failed"}
          /\ e.flying = d.flying \ {f} /\ e.data = f.got
          /\ e.loading = FALSE /\ e.failed = d.failed
      BY <1>2, <2>2 DEF LoaderOK, Receive
    <3>2. AnswerOK(f, d, a, v, m)
      BY <1>2, <2>2 DEF LoaderOK
    <3> HIDE DEF e
    <3>3. DataOK(e, a, v) /\ DataMoves(d, e, a)
      BY <3>1, <3>2 DEF DataOK, AnswerOK, DataMoves
    <3>4. e.data.list = a /\ e.data.ver \in Nat /\ m <= e.data.ver
      BY <3>1, <3>2 DEF AnswerOK
    <3>5. e.failed \in BOOLEAN
      BY <3>1 DEF LoaderOK
    <3>6. LoaderOK(e, a, v, m)
      BY <1>0, <2>1, <3>1, <3>3, <3>4, <3>5 DEF LoaderOK
    <3> QED
      BY <1>3, <1>2, <2>2, <3>1, <3>3, <3>6 DEF e
  <2>3. CASE f.step # "answered"
    <3>1. /\ DOMAIN e = {"flying", "data", "loading", "failed"}
          /\ e.flying = d.flying \ {f} /\ e.data = d.data
          /\ e.loading = FALSE /\ e.failed = TRUE
      BY <1>2, <2>3 DEF LoaderOK, Receive
    <3> HIDE DEF e
    <3>2. ~Settled(e)
      BY <3>1 DEF Settled
    <3>3. DataOK(e, a, v) /\ DataMoves(d, e, a)
      BY <1>0, <3>1 DEF DataOK, DataMoves
    <3>4. LoaderOK(e, a, v, m)
      BY <1>0, <2>1, <3>1, <3>2, <3>3 DEF LoaderOK
    <3> QED
      BY <1>3, <2>3, <3>1, <3>2, <3>3, <3>4 DEF e
  <2> QED
    BY <2>2, <2>3
<1> QED
  BY <1>0, <1>1, <1>2, <1>3 DEF FlightShape

-------------------------------------------------------------------------------
(* The three queries.                                                      *)

\* What a playlist the server knows looks like.
LEMMA StoreAt ==
  ASSUME StoreOK
  PROVE  /\ Playlist(db[at], at) /\ db[at].ver \in Nat
         /\ Original \in Lists /\ Clone \in Lists /\ Original # Clone
         /\ at \in {Original, Clone}
  BY EditorAssumption DEF StoreOK, Playlist, Lists

\* The page is drawn with the sheet as it is now.
LEMMA RenderOK ==
  ASSUME HiddenOK, NEW a, NEW v \in Nat, NEW sheet, NEW rules, NEW preview,
         Render(a, sheet, rules, preview), DOMAIN mine' = Loaders,
         LoaderOK(sheet, a, v, mine'["sheet"]),
         LoaderOK(rules, a, v, mine'["rules"]), LoaderOK(preview, a, v, mine'["preview"])
  PROVE  /\ DOMAIN loaders' = Loaders
         /\ \A l \in Loaders : LoaderOK(loaders'[l], a, v, mine'[l])
         /\ loaders'.sheet = sheet
         /\ HiddenOK'
         /\ loaders'.rules.data \in {Nothing, rules.data}
         /\ loaders'.preview.data \in {Nothing, preview.data}
<1>0. /\ mine'["rules"] \in Nat /\ mine'["rules"] <= v
      /\ mine'["preview"] \in Nat /\ mine'["preview"] <= v
  BY DEF LoaderOK
<1>1. /\ LoaderOK(Unloaded, a, v, mine'["rules"])
      /\ LoaderOK(Unloaded, a, v, mine'["preview"]) /\ Unloaded.data = Nothing
  BY <1>0, UnloadedOK
<1>2. /\ LoaderOK(Ask(Unloaded, a), a, v, mine'["rules"])
      /\ LoaderOK(Ask(Unloaded, a), a, v, mine'["preview"])
      /\ Ask(Unloaded, a).data = Nothing
  BY <1>0, <1>1, AskOK
<1>3. CASE ~Shown(sheet)
  <2>1. loaders' = [sheet |-> sheet, rules |-> Unloaded, preview |-> Unloaded]
    BY <1>3 DEF Render
  <2> QED
    BY <1>1, <1>3, <2>1 DEF HiddenOK, Visible, Loaders
<1>4. CASE Shown(sheet) /\ ~Visible
  <2>1. loaders' = [sheet |-> sheet, rules |-> Ask(Unloaded, a), preview |-> Ask(Unloaded, a)]
    BY <1>4 DEF Render
  <2> QED
    BY <1>2, <1>4, <2>1 DEF HiddenOK, Visible, Loaders
<1>5. CASE Shown(sheet) /\ Visible
  <2>1. loaders' = [sheet |-> sheet, rules |-> rules, preview |-> preview]
    BY <1>5 DEF Render
  <2> QED
    BY <1>5, <2>1 DEF HiddenOK, Visible, Loaders
<1> QED
  BY <1>3, <1>4, <1>5

\* The rule write as Render leaves it.
LEMMA RenderWrite ==
  ASSUME WriteOK, NEW a, NEW sheet, NEW rules, NEW preview, Render(a, sheet, rules, preview),
         UNCHANGED db, at' = at \/ at' = Clone
  PROVE  WriteOK'
<1>1. CASE write' = write
  BY <1>1 DEF WriteOK, Idle
<1>2. CASE write # Idle /\ write' = [write EXCEPT !.owned = FALSE]
  <2>1. /\ DOMAIN write' = DOMAIN write /\ write'.to = write.to /\ write'.ver = write.ver
        /\ write'.step = write.step
    BY <1>2 DEF WriteOK
  <2> QED
    BY <1>2, <2>1 DEF WriteOK, Idle
<1> QED
  BY <1>1, <1>2 DEF Render

\* A step that leaves the queries alone, or changes one in place.
LEMMA OneLoader ==
  ASSUME LoadersOK, StoreOK, NEW l \in Loaders, NEW d, LoaderOK(d, at, db[at].ver, mine[l]),
         loaders' = [loaders EXCEPT ![l] = d], UNCHANGED <<db, at, mine>>
  PROVE  LoadersOK' /\ loaders'[l] = d /\ \A k \in Loaders : k # l => loaders'[k] = loaders[k]
  BY DEF LoadersOK

\* Steps that leave the server alone keep its part.
LEMMA StoreKept ==
  ASSUME StoreOK, UNCHANGED <<db, at>>, copying' = copying
  PROVE  StoreOK'
  BY DEF StoreOK, Playlist

\* Steps that leave the loaders, the server and the own writes alone.
LEMMA LoadersKept ==
  ASSUME LoadersOK, HiddenOK, UNCHANGED <<db, at, loaders, mine>>
  PROVE  LoadersOK' /\ HiddenOK' /\ Moves
  BY DEF LoadersOK, HiddenOK, Visible, Moves, DataMoves

\* Steps that leave the form and what was loaded into it alone.
LEMMA FormKept ==
  ASSUME FormOK, UNCHANGED <<form, dirty, typed>>, UNCHANGED loaders
  PROVE  FormOK'
  BY DEF FormOK

\* Steps that leave the save alone.
LEMMA SaveKept ==
  ASSUME SaveOK, UNCHANGED <<db, at, save>>
  PROVE  SaveOK'
  BY DEF SaveOK, Idle

\* Steps that leave the rule writes alone.
LEMMA WriteKept ==
  ASSUME WriteOK, UNCHANGED <<db, at, write>>
  PROVE  WriteOK'
  BY DEF WriteOK, Idle

\* A write to a playlist that exists.
LEMMA StoreWritten ==
  ASSUME StoreOK, LoadersOK, HiddenOK, WriteOK,
         NEW l \in Lists, l = Clone => at = Clone, NEW p, Playlist(p, l), p.ver >= db[l].ver,
         db' = [db EXCEPT ![l] = p], UNCHANGED <<at, loaders, mine, copying>>
  PROVE  /\ StoreOK' /\ LoadersOK' /\ HiddenOK' /\ Moves
         /\ Playlist(db[l], l)
         /\ write' = write => WriteOK'
<1>1. Playlist(db[l], l) /\ Playlist(db[at], at) /\ Original # Clone
  BY StoreAt DEF StoreOK, Lists
<1>2. /\ DOMAIN db' = Lists
      /\ db'[l] = p /\ \A k \in Lists : k # l => db'[k] = db[k]
  BY DEF StoreOK
<1>3. StoreOK'
  BY <1>1, <1>2 DEF StoreOK, Playlist, Lists
<1>4. db'[at] = db[at] \/ (l = at /\ db'[at] = p)
  BY <1>2 DEF StoreOK
<1>5. db[at].ver \in Nat /\ db'[at].ver \in Nat /\ db[at].ver <= db'[at].ver
  BY <1>1, <1>4 DEF Playlist
<1>6. LoadersOK'
  <2>1. \A k \in Loaders : LoaderOK(loaders[k], at, db'[at].ver, mine[k])
    BY <1>5, LoaderKept DEF LoadersOK
  <2> QED
    BY <2>1 DEF LoadersOK
<1>7. HiddenOK' /\ Moves
  BY DEF HiddenOK, Visible, Moves, DataMoves
<1>8. ASSUME write' = write PROVE WriteOK'
  <2>1. ASSUME write # Idle PROVE write.step = "done" => write.ver <= db'[write.to].ver
    BY <1>1, <1>2, <2>1 DEF WriteOK, Playlist, StoreOK
  <2> QED
    BY <1>8, <2>1 DEF WriteOK, Idle
<1> QED
  BY <1>1, <1>3, <1>6, <1>7, <1>8

-------------------------------------------------------------------------------
(* The steps of the queries.                                               *)

\* The page is in order when it opens.
LEMMA InitOK == Init => EditorInv
<1> SUFFICES ASSUME Init PROVE EditorInv
  OBVIOUS
<1>1. /\ DOMAIN db = Lists /\ at = Original /\ Original \in Lists
      /\ copying.step = "idle" /\ save = Idle /\ write = Idle /\ dirty = FALSE /\ typed = Nothing
      /\ mine = [l \in Loaders |-> 0] /\ Original # Clone
  BY EditorAssumption DEF Init, Lists, Idle
<1>2. Playlist(db[Original], Original) /\ db[Original].ver = 1
  BY <1>1 DEF Init, Playlist
<1>3. StoreOK
  BY <1>1, <1>2 DEF StoreOK
<1> DEFINE opened == [Unloaded EXCEPT !.data = db[Original], !.loading = FALSE]
<1>4. /\ DOMAIN opened = {"flying", "data", "loading", "failed"}
      /\ opened.flying = {} /\ opened.data = db[Original]
      /\ opened.loading = FALSE /\ opened.failed = FALSE
  BY DEF Unloaded
<1> HIDE DEF opened
<1>5. LoaderOK(opened, Original, 1, 0)
  <2>1. DataOK(opened, Original, 1)
    BY <1>2, <1>4 DEF DataOK, Playlist
  <2>2. opened.data.list = Original /\ opened.data.ver = 1
    BY <1>2, <1>4 DEF Playlist
  <2>3. opened.loading \in BOOLEAN /\ opened.failed \in BOOLEAN
    BY <1>4
  <2>4. \A f \in opened.flying : FALSE
    BY <1>4
  <2>5. 0 \in Nat /\ 1 \in Nat /\ 0 <= 1
    OBVIOUS
  <2> QED
    BY <1>4, <2>1, <2>2, <2>3, <2>4, <2>5 DEF LoaderOK
<1>6. LoaderOK(Unloaded, Original, 1, 0) /\ LoaderOK(Ask(Unloaded, Original), Original, 1, 0)
      /\ ~Settled(Ask(Unloaded, Original)) /\ Ask(Unloaded, Original).data = Nothing
  <2>1. 0 \in Nat /\ 1 \in Nat /\ 0 <= 1
    OBVIOUS
  <2>2. LoaderOK(Unloaded, Original, 1, 0) /\ Unloaded.data = Nothing
    BY <2>1, UnloadedOK
  <2> QED
    BY <2>1, <2>2, AskOK
<1>7. CASE left.open = 1
  <2>1. /\ loaders = [l \in Loaders |-> IF l = "sheet" THEN Ask(Unloaded, Original) ELSE Unloaded]
        /\ IsForm(form)
    BY <1>7 DEF Init, IsForm
  <2>2. LoadersOK
    BY <1>1, <1>2, <1>6, <2>1 DEF LoadersOK
  <2>3. HiddenOK
    BY <2>1 DEF HiddenOK, Loaders
  <2>4. FormOK
    BY <1>1, <1>6, <2>1 DEF FormOK, Loaders
  <2> QED
    BY <1>1, <1>3, <2>2, <2>3, <2>4 DEF EditorInv, SaveOK, WriteOK
<1>8. CASE left.open # 1
  <2>1. /\ loaders = [l \in Loaders |-> opened]
        /\ form = Content(db[Original])
    BY <1>8 DEF Init, opened
  <2>2. LoadersOK
    BY <1>1, <1>2, <1>5, <2>1 DEF LoadersOK
  <2>3. Visible
    BY <1>4, <2>1 DEF Visible, Shown, Loaders
  <2>4. FormOK
    BY <1>1, <1>4, <2>1 DEF FormOK, Loaders, IsForm, Content
  <2> QED
    BY <1>1, <1>3, <2>2, <2>3, <2>4 DEF EditorInv, SaveOK, WriteOK, HiddenOK
<1> QED
  BY <1>7, <1>8

\* The server answers with the state it is in.
LEMMA AnswerQueryOK == ASSUME EditorInv, AnswerQuery PROVE EditorInv' /\ Moves
<1> USE DEF EditorInv
<1>0. /\ db[at].list = at /\ db[at].ver \in Nat /\ DOMAIN loaders = Loaders
  BY StoreAt DEF Playlist, LoadersOK
<1>p. PICK l \in Loaders : \E f \in Asked(loaders[l]) :
        /\ loaders' = [loaders EXCEPT ![l] = Answer(@, f, db[f.key])]
             \/ loaders' = [loaders EXCEPT ![l] = Refuse(@, f)]
        /\ UNCHANGED <<db, at, form, dirty, typed, box, dialog, mine, callVars>>
  BY DEF AnswerQuery
<1>1. PICK f \in Asked(loaders[l]) :
        /\ loaders' = [loaders EXCEPT ![l] = Answer(@, f, db[f.key])]
             \/ loaders' = [loaders EXCEPT ![l] = Refuse(@, f)]
        /\ UNCHANGED <<db, at, form, dirty, typed, box, dialog, mine, callVars>>
  BY <1>p
<1> DEFINE d == loaders[l]
<1>2. LoaderOK(d, at, db[at].ver, mine[l]) /\ f \in d.flying /\ f.step = "asked" /\ FlightShape(f)
      /\ (f.live => f.key = at)
  BY <1>1 DEF LoadersOK, Asked, LoaderOK
<1>3. PICK e : /\ loaders' = [loaders EXCEPT ![l] = e]
               /\ LoaderOK(e, at, db[at].ver, mine[l]) /\ e.data = d.data
               /\ Waiting(e) <=> Waiting(d)
               /\ e.failed = d.failed /\ e.loading = d.loading
  <2>1. CASE loaders' = [loaders EXCEPT ![l] = Answer(@, f, db[f.key])]
    <3> DEFINE g == [f EXCEPT !.step = "answered", !.got = db[f.key]]
               e == Answer(d, f, db[f.key])
    <3>1. /\ FlightShape(g) /\ g.step = "answered" /\ g.live = f.live /\ g.key = f.key
          /\ g.got = db[f.key]
      BY <1>2 DEF FlightShape
    <3>2. e = [d EXCEPT !.flying = (@ \ {f}) \cup {g}]
      BY DEF Answer
    <3>3. f.live /\ g.step = "answered" => g.got.list = at /\ g.got.ver = db[at].ver
      BY <1>0, <1>2, <3>1
    <3> HIDE DEF g
    <3>4. LoaderOK(e, at, db[at].ver, mine[l]) /\ e.data = d.data /\ (Waiting(e) <=> Waiting(d))
      BY <1>2, <3>1, <3>2, <3>3, ReplyOK
    <3>5. e.failed = d.failed /\ e.loading = d.loading
      BY <1>2, <3>2 DEF LoaderOK
    <3>6. loaders' = [loaders EXCEPT ![l] = e]
      BY <2>1, <1>0
    <3> QED
      BY <3>4, <3>5, <3>6
  <2>2. CASE loaders' = [loaders EXCEPT ![l] = Refuse(@, f)]
    <3> DEFINE g == [f EXCEPT !.step = "refused"]
               e == Refuse(d, f)
    <3>1. FlightShape(g) /\ g.step = "refused" /\ g.live = f.live /\ g.key = f.key
      BY <1>2 DEF FlightShape
    <3>2. e = [d EXCEPT !.flying = (@ \ {f}) \cup {g}]
      BY DEF Refuse
    <3> HIDE DEF g
    <3>4. LoaderOK(e, at, db[at].ver, mine[l]) /\ e.data = d.data /\ (Waiting(e) <=> Waiting(d))
      BY <1>2, <3>1, <3>2, ReplyOK
    <3>5. e.failed = d.failed /\ e.loading = d.loading
      BY <1>2, <3>2 DEF LoaderOK
    <3>6. loaders' = [loaders EXCEPT ![l] = e]
      BY <2>2, <1>0
    <3> QED
      BY <3>4, <3>5, <3>6
  <2> QED
    BY <1>1, <2>1, <2>2
<1>4. LoadersOK' /\ loaders'[l] = e /\ \A k \in Loaders : k # l => loaders'[k] = loaders[k]
  BY <1>1, <1>3, OneLoader
<1>5. \A k \in Loaders : /\ loaders'[k].data = loaders[k].data
                         /\ Waiting(loaders'[k]) <=> Waiting(loaders[k])
                         /\ loaders'[k].failed = loaders[k].failed
                         /\ loaders'[k].loading = loaders[k].loading
  BY <1>3, <1>4
<1>6. HiddenOK'
  <2>1. Visible' <=> Visible
    BY <1>5 DEF Visible, Shown, Loaders
  <2>2. d # Unloaded
    BY <1>2 DEF Unloaded
  <2> QED
    BY <1>4, <2>1, <2>2 DEF HiddenOK, Loaders
<1>7. FormOK'
  BY <1>1, <1>5 DEF FormOK, Loaders
<1>8. Moves
  BY <1>1, <1>5 DEF Moves, DataMoves
<1> QED
  BY <1>1, <1>4, <1>6, <1>7, <1>8, StoreKept, SaveKept, WriteKept DEF callVars

\* An answer is shown when its request is the last one.
LEMMA ReceiveSheetOK == ASSUME EditorInv, ReceiveSheet PROVE EditorInv' /\ Moves
<1> USE DEF EditorInv
<1>1. PICK f \in Arriving(loaders.sheet) :
        /\ Render(at, Receive(loaders.sheet, f), loaders.rules, loaders.preview)
        /\ IF f.live /\ f.step = "answered" THEN Fill(f) ELSE UNCHANGED <<form, dirty>>
        /\ UNCHANGED <<db, at, typed, mine, save, copying, left>>
  BY DEF ReceiveSheet
<1> DEFINE d == loaders.sheet
           e == Receive(d, f)
<1>2. /\ LoaderOK(d, at, db[at].ver, mine["sheet"]) /\ f \in d.flying /\ f.step # "asked"
      /\ LoaderOK(loaders.rules, at, db[at].ver, mine["rules"])
      /\ LoaderOK(loaders.preview, at, db[at].ver, mine["preview"])
      /\ db[at].ver \in Nat /\ DOMAIN mine = Loaders
  BY StoreAt DEF LoadersOK, Arriving, Loaders
<1>3. /\ LoaderOK(e, at, db[at].ver, mine["sheet"]) /\ DataMoves(d, e, at)
      /\ Waiting(e) => Waiting(d)
      /\ f.live => Waiting(d)
  BY <1>2, ReceiveOK
<1> HIDE DEF e
<1>4. /\ DOMAIN loaders' = Loaders
      /\ \A l \in Loaders : LoaderOK(loaders'[l], at, db[at].ver, mine'[l])
      /\ loaders'.sheet = e /\ HiddenOK'
      /\ loaders'.rules.data \in {Nothing, loaders.rules.data}
      /\ loaders'.preview.data \in {Nothing, loaders.preview.data}
  BY <1>1, <1>2, <1>3, RenderOK DEF e
<1>5. LoadersOK'
  BY <1>1, <1>2, <1>4 DEF LoadersOK
<1>6. Moves
  BY <1>1, <1>3, <1>4 DEF Moves, DataMoves, Loaders
<1>7. FormOK'
  <2>1. CASE f.live /\ f.step = "answered"
    <3>1. form' = Content(f.got) /\ dirty' = FALSE
      BY <1>1, <2>1 DEF Fill
    <3>2. IsForm(form')
      BY <3>1 DEF IsForm, Content
    <3>3. typed' = Nothing
      BY <1>1, <1>3, <2>1 DEF FormOK
    <3> QED
      BY <3>1, <3>2, <3>3 DEF FormOK, IsForm
  <2>2. CASE ~(f.live /\ f.step = "answered")
    <3>1. UNCHANGED <<form, dirty, typed>> /\ (Waiting(loaders'.sheet) => Waiting(loaders.sheet))
      BY <1>1, <1>3, <1>4, <2>2
    <3> QED
      BY <3>1 DEF FormOK
  <2> QED
    BY <2>1, <2>2
<1>8. WriteOK'
  BY <1>1, RenderWrite
<1> QED
  BY <1>1, <1>4, <1>5, <1>6, <1>7, <1>8, StoreKept, SaveKept

\* The rules or the preview arrive.
LEMMA ReceiveInside ==
  ASSUME EditorInv, NEW l \in {"rules", "preview"}, NEW f \in Arriving(loaders[l]),
         loaders' = [loaders EXCEPT ![l] = Receive(@, f)],
         UNCHANGED <<db, at, form, dirty, typed, mine, callVars>>
  PROVE  EditorInv' /\ Moves
<1> USE DEF EditorInv
<1> DEFINE d == loaders[l]
           e == Receive(d, f)
<1>1. /\ LoaderOK(d, at, db[at].ver, mine[l]) /\ f \in d.flying /\ f.step # "asked"
      /\ l \in Loaders /\ l # "sheet"
  BY DEF LoadersOK, Arriving, Loaders
<1>2. LoaderOK(e, at, db[at].ver, mine[l]) /\ DataMoves(d, e, at)
  BY <1>1, ReceiveOK
<1>3. loaders' = [loaders EXCEPT ![l] = e]
  BY <1>1 DEF LoadersOK
<1> HIDE DEF e
<1>4. LoadersOK' /\ loaders'[l] = e /\ \A k \in Loaders : k # l => loaders'[k] = loaders[k]
  BY <1>1, <1>2, <1>3, OneLoader
<1>5. Moves
  BY <1>2, <1>4 DEF Moves, DataMoves
<1>6. loaders'.sheet = loaders.sheet
  BY <1>1, <1>4 DEF Loaders
<1>7. HiddenOK'
  <2>1. d # Unloaded
    BY <1>1 DEF Unloaded
  <2> QED
    BY <1>4, <1>6, <2>1 DEF HiddenOK, Visible, Loaders
<1>8. FormOK'
  BY <1>6 DEF FormOK
<1> QED
  BY <1>4, <1>5, <1>7, <1>8, StoreKept, SaveKept, WriteKept DEF callVars

\* A refresh cancels the request before it.
LEMMA RefreshOK == ASSUME EditorInv, Refresh PROVE EditorInv' /\ Moves
<1> USE DEF EditorInv
<1>1. /\ Visible /\ loaders' = [loaders EXCEPT !["preview"] = Ask(@, at)]
      /\ UNCHANGED <<db, at, form, dirty, typed, box, dialog, mine, callVars>>
  BY DEF Refresh
<1> DEFINE d == loaders["preview"]
           e == Ask(d, at)
<1>2. LoaderOK(d, at, db[at].ver, mine["preview"]) /\ DOMAIN loaders = Loaders /\ "preview" \in Loaders
  BY DEF LoadersOK, Loaders
<1>3. LoaderOK(e, at, db[at].ver, mine["preview"]) /\ e.data = d.data
  <2>1. /\ db[at].ver \in Nat /\ mine["preview"] \in Nat
        /\ mine["preview"] <= db[at].ver /\ db[at].ver <= db[at].ver
    BY <1>2 DEF LoaderOK
  <2> QED
    BY <1>2, <2>1, AskOK
<1>4. loaders' = [loaders EXCEPT !["preview"] = e]
  BY <1>1, <1>2
<1> HIDE DEF e
<1>5. LoadersOK' /\ loaders'["preview"] = e
      /\ \A k \in Loaders : k # "preview" => loaders'[k] = loaders[k]
  BY <1>1, <1>2, <1>3, <1>4, OneLoader
<1>6. loaders'.sheet = loaders.sheet /\ Moves
  BY <1>3, <1>5 DEF Loaders, Moves, DataMoves
<1>7. HiddenOK' /\ FormOK'
  BY <1>1, <1>6 DEF HiddenOK, Visible, FormOK
<1> QED
  BY <1>1, <1>5, <1>6, <1>7, StoreKept, SaveKept, WriteKept DEF callVars

-------------------------------------------------------------------------------
(* The steps of the form and of the save.                                  *)

\* What only the form's fields, the rule's input and the dialog take part in.
LEMMA FieldsOK ==
  ASSUME EditorInv, UNCHANGED <<db, at, loaders, mine, callVars>>, FormOK'
  PROVE  EditorInv' /\ Moves
<1> USE DEF EditorInv
<1> QED
  BY StoreKept, LoadersKept, SaveKept, WriteKept DEF callVars

\* An edit changes the form only.
LEMMA EditOK ==
  ASSUME EditorInv, NEW newForm, IsForm(newForm), Edit(newForm)
  PROVE  EditorInv' /\ Moves
<1>1. /\ IsForm(form') /\ dirty' = TRUE /\ UNCHANGED <<db, at, loaders, mine, callVars>>
      /\ typed' = Nothing \/ (typed' = form' /\ ~Waiting(loaders.sheet))
  BY DEF Edit, IsForm, Waiting
<1>2. FormOK'
  BY <1>1 DEF FormOK, IsForm
<1> QED
  BY <1>1, <1>2, FieldsOK

\* The form with other fields is still a form.
LEMMA FormWithFields ==
  ASSUME NEW f, IsForm(f), NEW x
  PROVE  IsForm([f EXCEPT !.settings = x]) /\ IsForm([f EXCEPT !.items = x])
<1>1. [f EXCEPT !.settings = x] = [settings |-> x, items |-> f.items]
  BY DEF IsForm
<1>2. [f EXCEPT !.items = x] = [settings |-> f.settings, items |-> x]
  BY DEF IsForm
<1> QED
  BY <1>1, <1>2 DEF IsForm

\* What the user does to the form.
LEMMA UserFormOK ==
  ASSUME EditorInv, EditSettings \/ AddItem \/ ChangeItem \/ RemoveItem \/ MoveItem
  PROVE  EditorInv' /\ Moves
<1>0. IsForm(form)
  BY DEF EditorInv, FormOK
<1>1. CASE EditSettings
  BY <1>0, <1>1, FormWithFields, EditOK DEF EditSettings
<1>2. CASE AddItem
  BY <1>0, <1>2, FormWithFields, EditOK DEF AddItem
<1>3. CASE ChangeItem
  <2>1. PICK i \in DOMAIN form.items : Edit([form EXCEPT !.items[i].on = ~@])
    BY <1>3 DEF ChangeItem
  <2>2. PICK x : Edit([form EXCEPT !.items = x])
    BY <2>1
  <2> QED
    BY <1>0, <2>2, FormWithFields, EditOK
<1>4. CASE RemoveItem
  <2>1. PICK x : Edit([form EXCEPT !.items = x])
    BY <1>4 DEF RemoveItem
  <2> QED
    BY <1>0, <2>1, FormWithFields, EditOK
<1>5. CASE MoveItem
  <2>1. PICK x : Edit([form EXCEPT !.items = x])
    BY <1>5 DEF MoveItem
  <2> QED
    BY <1>0, <2>1, FormWithFields, EditOK
<1> QED
  BY <1>1, <1>2, <1>3, <1>4, <1>5

\* What leaves all but the calls alone.
LEMMA CallsOK ==
  ASSUME EditorInv, UNCHANGED <<db, at, form, dirty, typed, loaders, mine>>, copying' = copying,
         SaveOK', WriteOK'
  PROVE  EditorInv' /\ Moves
<1> USE DEF EditorInv
<1> QED
  BY StoreKept, LoadersKept, FormKept

\* A save starts with the form as it is.
LEMMA PressSaveOK == ASSUME EditorInv, PressSave PROVE EditorInv' /\ Moves
<1> USE DEF EditorInv
<1>1. /\ save' = [step |-> "patch", to |-> at, form |-> form, reply |-> "none", ver |-> 0,
                  alone |-> TRUE]
      /\ UNCHANGED <<db, pageVars, write, copying>>
  BY DEF PressSave
<1>2. SaveOK'
  BY <1>1 DEF SaveOK, StoreOK, FormOK, pageVars, IsForm
<1> QED
  BY <1>1, <1>2, WriteKept, CallsOK DEF pageVars

\* The items follow the settings,
LEMMA SecondHalfOK == ASSUME EditorInv, SecondHalf PROVE EditorInv' /\ Moves
<1> USE DEF EditorInv
<1>1. /\ save # Idle /\ save.step = "patch" /\ save.reply = "ok"
      /\ save' = [save EXCEPT !.step = "put", !.reply = "none"]
      /\ UNCHANGED <<db, pageVars, write, copying, left>>
  BY DEF SecondHalf
<1>2. /\ DOMAIN save' = DOMAIN save /\ save'.step = "put" /\ save'.reply = "none"
      /\ save'.to = save.to /\ save'.ver = save.ver /\ save'.form = save.form
      /\ save'.alone = save.alone
  BY <1>1 DEF SaveOK
<1>3. SaveOK'
  BY <1>1, <1>2 DEF SaveOK, pageVars, Idle
<1> QED
  BY <1>1, <1>3, WriteKept, CallsOK DEF pageVars

\* unless a half fails,
LEMMA FailSaveOK == ASSUME EditorInv, FailSave PROVE EditorInv' /\ Moves
<1> USE DEF EditorInv
<1>1. save' = Idle /\ UNCHANGED <<db, pageVars, write, copying, left>>
  BY DEF FailSave, Release
<1>2. SaveOK'
  BY <1>1 DEF SaveOK, Idle
<1> QED
  BY <1>1, <1>2, WriteKept, CallsOK DEF pageVars

\* The playlist a save has written.
LEMMA SavedShape ==
  ASSUME StoreOK, SaveOK, save # Idle
  PROVE  /\ Playlist(db[save.to], save.to)
         /\ Playlist(Saved, save.to) /\ Saved.ver = db[save.to].ver + 1
         /\ save.step = "patch" => Saved.settings = save.form.settings
         /\ save.step = "put" => /\ Saved.settings = db[save.to].settings
                                 /\ Saved.items = save.form.items
<1>1. Playlist(db[save.to], save.to)
  <2>1. save.to \in {Original, Clone} /\ (save.to = Clone => at = Clone)
    BY DEF SaveOK, Lists
  <2> QED
    BY <2>1 DEF StoreOK
<1>2. save.step \in {"patch", "put"}
  BY DEF SaveOK
<1>3. CASE save.step = "patch"
  BY <1>1, <1>3 DEF Saved, Body, Playlist
<1>4. CASE save.step = "put"
  BY <1>1, <1>4 DEF Saved, Body, Playlist
<1> QED
  BY <1>1, <1>2, <1>3, <1>4

\* the server writes the half it was sent,
LEMMA ServeSaveOK == ASSUME EditorInv, ServeSave PROVE EditorInv' /\ Moves
<1> USE DEF EditorInv
<1>1. /\ save # Idle /\ save.reply = "none"
      /\ UNCHANGED <<pageVars, write, copying>>
  BY DEF ServeSave
<1>2. /\ save.to \in Lists /\ (save.to = Clone => at = Clone)
      /\ Playlist(db[save.to], save.to)
      /\ Playlist(Saved, save.to) /\ Saved.ver >= db[save.to].ver
  BY <1>1, SavedShape DEF SaveOK, Playlist
<1>3. CASE db' = [db EXCEPT ![save.to] = Saved] /\ save' = [save EXCEPT !.reply = "ok", !.ver = Saved.ver]
  <2>1. /\ StoreOK' /\ LoadersOK' /\ HiddenOK' /\ Moves /\ WriteOK'
    BY <1>1, <1>2, <1>3, StoreWritten DEF pageVars
  <2>2. /\ DOMAIN save' = DOMAIN save /\ save'.step = save.step /\ save'.reply = "ok"
        /\ save'.to = save.to /\ save'.ver = Saved.ver /\ save'.form = save.form
        /\ save'.alone = save.alone
    BY <1>1, <1>3 DEF SaveOK
  <2>3. db'[save.to] = Saved
    BY <1>2, <1>3 DEF StoreOK
  <2>4. SaveOK'
    BY <1>1, <1>2, <2>2, <2>3, SavedShape DEF SaveOK, pageVars, Playlist
  <2>5. FormOK'
    BY <1>1, FormKept DEF pageVars
  <2> QED
    BY <2>1, <2>4, <2>5
<1>4. CASE save' = [save EXCEPT !.reply = "bad"] /\ db' = [db EXCEPT ![save.to] = Saved]
  <2>1. /\ StoreOK' /\ LoadersOK' /\ HiddenOK' /\ Moves /\ WriteOK'
    BY <1>1, <1>2, <1>4, StoreWritten DEF pageVars
  <2>2. /\ DOMAIN save' = DOMAIN save /\ save'.step = save.step /\ save'.reply = "bad"
        /\ save'.to = save.to /\ save'.ver = save.ver /\ save'.form = save.form
        /\ save'.alone = save.alone
    BY <1>1, <1>4 DEF SaveOK
  <2>3. db'[save.to] = Saved
    BY <1>2, <1>4 DEF StoreOK
  <2>4. SaveOK'
    BY <1>1, <1>2, <2>2, <2>3, SavedShape DEF SaveOK, pageVars
  <2>5. FormOK'
    BY <1>1, FormKept DEF pageVars
  <2> QED
    BY <2>1, <2>4, <2>5
<1>5. CASE save' = [save EXCEPT !.reply = "bad"] /\ db' = db
  <2>1. /\ DOMAIN save' = DOMAIN save /\ save'.step = save.step /\ save'.reply = "bad"
        /\ save'.to = save.to /\ save'.ver = save.ver /\ save'.form = save.form
        /\ save'.alone = save.alone
    BY <1>1, <1>5 DEF SaveOK
  <2>2. SaveOK'
    BY <1>1, <1>5, <2>1 DEF SaveOK, pageVars
  <2> QED
    BY <1>1, <1>5, <2>2, WriteKept, CallsOK DEF pageVars
<1> QED
  BY <1>3, <1>4, <1>5 DEF ServeSave

\* and the page asks again when both are through.
LEMMA FinishSaveOK == ASSUME EditorInv, FinishSave PROVE EditorInv' /\ Moves
<1> USE DEF EditorInv
<1>1. /\ save # Idle /\ save.reply = "ok"
      /\ save' = Idle /\ dirty' = FALSE /\ typed' = Nothing /\ at' = at
      /\ Render(at, Ask(loaders.sheet, at), loaders.rules, Ask(loaders.preview, at))
      /\ mine' = IF save.to = at
                 THEN [mine EXCEPT !.sheet = save.ver, !.preview = save.ver] ELSE mine
      /\ UNCHANGED <<db, form, copying, left>>
  BY DEF FinishSave, AfterSave
<1>2. /\ LoaderOK(loaders.sheet, at, db[at].ver, mine["sheet"])
      /\ LoaderOK(loaders.rules, at, db[at].ver, mine["rules"])
      /\ LoaderOK(loaders.preview, at, db[at].ver, mine["preview"])
      /\ db[at].ver \in Nat /\ DOMAIN mine = Loaders
  BY StoreAt DEF LoadersOK, Loaders
<1>3. /\ mine'["rules"] = mine["rules"] /\ DOMAIN mine' = Loaders
      /\ mine'["sheet"] \in Nat /\ mine'["sheet"] <= db[at].ver
      /\ mine'["preview"] \in Nat /\ mine'["preview"] <= db[at].ver
  <2>1. /\ mine["sheet"] \in Nat /\ mine["sheet"] <= db[at].ver
        /\ mine["preview"] \in Nat /\ mine["preview"] <= db[at].ver
    BY <1>2 DEF LoaderOK
  <2>2. save.ver \in Nat /\ save.ver <= db[save.to].ver
    BY <1>1 DEF SaveOK
  <2> QED
    BY <1>1, <1>2, <2>1, <2>2 DEF Loaders
<1>4. /\ LoaderOK(Ask(loaders.sheet, at), at, db[at].ver, mine'["sheet"])
      /\ ~Settled(Ask(loaders.sheet, at)) /\ Ask(loaders.sheet, at).data = loaders.sheet.data
      /\ LoaderOK(Ask(loaders.preview, at), at, db[at].ver, mine'["preview"])
      /\ Ask(loaders.preview, at).data = loaders.preview.data
  <2>1. db[at].ver <= db[at].ver
    BY <1>2
  <2> QED
    BY <1>2, <1>3, <2>1, AskOK
<1>5. /\ DOMAIN loaders' = Loaders
      /\ \A l \in Loaders : LoaderOK(loaders'[l], at, db[at].ver, mine'[l])
      /\ loaders'.sheet = Ask(loaders.sheet, at) /\ HiddenOK'
      /\ loaders'.rules.data \in {Nothing, loaders.rules.data}
      /\ loaders'.preview.data \in {Nothing, loaders.preview.data}
  <2>1. LoaderOK(loaders.rules, at, db[at].ver, mine'["rules"])
    BY <1>2, <1>3
  <2> QED
    BY <1>1, <1>2, <1>3, <1>4, <2>1, RenderOK
<1>6. LoadersOK'
  BY <1>1, <1>3, <1>5 DEF LoadersOK
<1>7. Moves
  BY <1>1, <1>4, <1>5 DEF Moves, DataMoves, Loaders
<1>8. FormOK'
  BY <1>1 DEF FormOK
<1>9. WriteOK' /\ SaveOK'
  BY <1>1, RenderWrite DEF SaveOK, Idle
<1> QED
  BY <1>1, <1>5, <1>6, <1>7, <1>8, <1>9, StoreKept

-------------------------------------------------------------------------------
(* The steps of the rule writes.                                           *)

\* A rule write starts alone.
LEMMA StartWriteOK ==
  ASSUME EditorInv, NEW do, NEW of, NEW with, StartWrite(do, of, with)
  PROVE  EditorInv' /\ Moves
<1> USE DEF EditorInv
<1>1. /\ write' = [step |-> "sent", do |-> do, to |-> at, of |-> of, with |-> with, ver |-> 0,
                   owned |-> TRUE]
      /\ UNCHANGED <<db, pageVars, save, copying>>
  BY DEF StartWrite
<1>2. WriteOK'
  BY <1>1 DEF WriteOK, StoreOK, pageVars
<1> QED
  BY <1>1, <1>2, SaveKept, CallsOK DEF pageVars

\* Rules are changed by one write at a time.
LEMMA UserRuleOK ==
  ASSUME EditorInv, CreateRule \/ DeleteRule \/ BlurInterval \/ SaveDialog
  PROVE  EditorInv' /\ Moves
<1>1. PICK do, of, with : StartWrite(do, of, with)
  BY DEF CreateRule, DeleteRule, BlurInterval, SaveDialog
<1> QED
  BY <1>1, StartWriteOK

\* The interval field and the dialog are local to the page.
LEMMA UserFieldsOK ==
  ASSUME EditorInv, TypeInterval \/ OpenDialog \/ ToggleMedia \/ CancelDialog
  PROVE  EditorInv' /\ Moves
<1>1. UNCHANGED <<db, at, form, dirty, typed, loaders, mine, callVars>>
  BY DEF TypeInterval, OpenDialog, ToggleMedia, CancelDialog
<1>2. FormOK'
  BY <1>1, FormKept DEF EditorInv
<1> QED
  BY <1>1, <1>2, FieldsOK

\* A write that fails just ends.
LEMMA FailWriteOK == ASSUME EditorInv, FailWrite PROVE EditorInv' /\ Moves
<1> USE DEF EditorInv
<1>1. write' = Idle /\ UNCHANGED <<db, pageVars, save, copying, left>>
  BY DEF FailWrite, Release
<1>2. WriteOK'
  BY <1>1 DEF WriteOK, Idle
<1> QED
  BY <1>1, <1>2, SaveKept, CallsOK DEF pageVars

\* A write by someone else keeps what a save has stored, and its version grows.
LEMMA SaveBeside ==
  ASSUME StoreOK, SaveOK, NEW l \in Lists, l = Clone => at = Clone,
         NEW p, Playlist(p, l), p.ver >= db[l].ver,
         p.settings = db[l].settings, p.items = db[l].items,
         db' = [db EXCEPT ![l] = p], UNCHANGED <<save, at>>
  PROVE  SaveOK'
<1>1. Playlist(db[l], l)
  BY StoreAt DEF StoreOK, Lists
<1>2. ASSUME save # Idle
      PROVE  /\ db'[save.to].settings = db[save.to].settings
             /\ db'[save.to].items = db[save.to].items
             /\ save.reply = "ok" => save.ver <= db'[save.to].ver
  <2>1. save.to \in Lists /\ save.ver \in Nat /\ (save.reply = "ok" => save.ver <= db[save.to].ver)
    BY <1>2 DEF SaveOK
  <2>2. CASE save.to = l
    BY <1>1, <2>1, <2>2 DEF StoreOK, Playlist
  <2>3. CASE save.to # l
    BY <2>1, <2>3 DEF StoreOK
  <2> QED
    BY <2>2, <2>3
<1> QED
  BY <1>2 DEF SaveOK, Idle

\* What a rule write makes of the server.
LEMMA WrittenShape ==
  ASSUME StoreOK, WriteOK, write # Idle
  PROVE  /\ write.to \in Lists /\ (write.to = Clone => at = Clone)
         /\ Playlist(db[write.to], write.to)
         /\ Playlist(Written, write.to) /\ Written.ver = db[write.to].ver + 1
         /\ Written.settings = db[write.to].settings /\ Written.items = db[write.to].items
<1>1. write.to \in {Original, Clone} /\ (write.to = Clone => at = Clone)
  BY DEF WriteOK, Lists
<1>2. Playlist(db[write.to], write.to)
  BY <1>1 DEF StoreOK
<1>3. PICK rule : Written = [db[write.to] EXCEPT !.rule = rule, !.ver = @ + 1]
  BY DEF Written
<1> QED
  BY <1>1, <1>2, <1>3 DEF Playlist, Lists

\* A served write counts as seen by a later answer only.
LEMMA ServeWriteOK == ASSUME EditorInv, ServeWrite PROVE EditorInv' /\ Moves
<1> USE DEF EditorInv
<1>1. write # Idle /\ UNCHANGED <<pageVars, save, copying>>
  BY DEF ServeWrite
<1>2. /\ write.to \in Lists /\ (write.to = Clone => at = Clone)
      /\ Playlist(db[write.to], write.to)
      /\ Playlist(Written, write.to) /\ Written.ver >= db[write.to].ver
      /\ Written.settings = db[write.to].settings /\ Written.items = db[write.to].items
  BY <1>1, WrittenShape DEF Playlist
<1>3. CASE db' = [db EXCEPT ![write.to] = Written]
  <2>1. StoreOK' /\ LoadersOK' /\ HiddenOK' /\ Moves
    BY <1>1, <1>2, <1>3, StoreWritten DEF pageVars
  <2>2. SaveOK'
    BY <1>1, <1>2, <1>3, SaveBeside DEF pageVars
  <2>3. FormOK'
    BY <1>1, FormKept DEF pageVars
  <2>4. \/ write' = [write EXCEPT !.step = "done", !.ver = Written.ver]
        \/ write' = [write EXCEPT !.step = "refused"]
    BY DEF ServeWrite
  <2>5. /\ DOMAIN write' = DOMAIN write /\ write'.to = write.to
        /\ \/ write'.step = "done" /\ write'.ver = Written.ver
           \/ write'.step = "refused" /\ write'.ver = write.ver
    BY <1>1, <2>4 DEF WriteOK
  <2>6. db'[write.to] = Written /\ Written.ver \in Nat
    BY <1>2, <1>3 DEF StoreOK, Playlist
  <2>7. WriteOK'
    BY <1>1, <2>5, <2>6 DEF WriteOK, pageVars
  <2> QED
    BY <2>1, <2>2, <2>3, <2>7
<1>4. CASE db' = db
  <2>1. write' = [write EXCEPT !.step = "refused"] \/ write' = [write EXCEPT !.step = "done", !.ver = Written.ver]
    BY DEF ServeWrite
  <2>2. CASE write' = [write EXCEPT !.step = "refused"]
    <3>1. /\ DOMAIN write' = DOMAIN write /\ write'.to = write.to
          /\ write'.step = "refused" /\ write'.ver = write.ver
      BY <1>1, <2>2 DEF WriteOK
    <3>2. WriteOK'
      BY <1>1, <1>4, <3>1 DEF WriteOK, pageVars
    <3> QED
      BY <1>1, <1>4, <3>2, SaveKept, CallsOK DEF pageVars
  <2>3. CASE write' = [write EXCEPT !.step = "done", !.ver = Written.ver]
    <3>1. db' = [db EXCEPT ![write.to] = Written] \/ write' = [write EXCEPT !.step = "refused"]
      BY DEF ServeWrite
    <3> QED
      BY <1>3, <2>2, <3>1
  <2> QED
    BY <2>1, <2>2, <2>3
<1> QED
  BY <1>3, <1>4 DEF ServeWrite

\* The page asks again when it has ended.
LEMMA FinishWriteOK == ASSUME EditorInv, FinishWrite PROVE EditorInv' /\ Moves
<1> USE DEF EditorInv
<1>1. /\ write # Idle /\ write.step = "done" /\ write' = Idle
      /\ loaders' = IF ~Visible THEN loaders
                    ELSE [loaders EXCEPT !.rules = IF write.owned THEN Ask(@, at) ELSE @,
                                         !.preview = Ask(@, at)]
      /\ mine' = IF write.to # at THEN mine
                 ELSE [mine EXCEPT !.preview = write.ver,
                                   !.rules = IF write.owned THEN write.ver ELSE @]
      /\ UNCHANGED <<db, at, form, dirty, typed, box, save, copying, left>>
  BY DEF FinishWrite
<1>2. /\ LoaderOK(loaders.sheet, at, db[at].ver, mine["sheet"])
      /\ LoaderOK(loaders.rules, at, db[at].ver, mine["rules"])
      /\ LoaderOK(loaders.preview, at, db[at].ver, mine["preview"])
      /\ db[at].ver \in Nat /\ DOMAIN mine = Loaders /\ DOMAIN loaders = Loaders
  BY StoreAt DEF LoadersOK, Loaders
<1>3. /\ mine'["sheet"] = mine["sheet"] /\ DOMAIN mine' = Loaders
      /\ mine'["rules"] \in Nat /\ mine'["rules"] <= db[at].ver
      /\ ~write.owned => mine'["rules"] = mine["rules"]
      /\ mine'["preview"] \in Nat /\ mine'["preview"] <= db[at].ver
  <2>1. /\ mine["rules"] \in Nat /\ mine["rules"] <= db[at].ver
        /\ mine["preview"] \in Nat /\ mine["preview"] <= db[at].ver
    BY <1>2 DEF LoaderOK
  <2>2. write.ver \in Nat /\ write.ver <= db[write.to].ver
    BY <1>1 DEF WriteOK
  <2> QED
    BY <1>1, <1>2, <2>1, <2>2 DEF Loaders
<1>4. /\ LoaderOK(Ask(loaders.rules, at), at, db[at].ver, mine'["rules"])
      /\ Ask(loaders.rules, at).data = loaders.rules.data
      /\ LoaderOK(Ask(loaders.preview, at), at, db[at].ver, mine'["preview"])
      /\ Ask(loaders.preview, at).data = loaders.preview.data
  <2>1. db[at].ver <= db[at].ver
    BY <1>2
  <2> QED
    BY <1>2, <1>3, <2>1, AskOK
<1>5. /\ DOMAIN loaders' = Loaders
      /\ \A l \in Loaders : LoaderOK(loaders'[l], at, db[at].ver, mine'[l])
      /\ loaders'.sheet = loaders.sheet /\ HiddenOK' /\ Moves
  <2>1. CASE ~Visible
    <3>1. loaders.rules = Unloaded /\ loaders.preview = Unloaded /\ loaders' = loaders
      BY <1>1, <2>1 DEF HiddenOK
    <3>2. /\ LoaderOK(Unloaded, at, db[at].ver, mine'["rules"])
          /\ LoaderOK(Unloaded, at, db[at].ver, mine'["preview"])
      BY <1>2, <1>3, UnloadedOK
    <3>3. \A l \in Loaders : LoaderOK(loaders'[l], at, db[at].ver, mine'[l])
      BY <1>2, <1>3, <3>1, <3>2 DEF Loaders
    <3> QED
      BY <1>2, <3>1, <3>3 DEF HiddenOK, Visible, Moves, DataMoves
  <2>2. CASE Visible
    <3>1. /\ DOMAIN loaders' = Loaders
          /\ loaders'["sheet"] = loaders["sheet"]
          /\ loaders'["rules"] = IF write.owned THEN Ask(loaders.rules, at) ELSE loaders.rules
          /\ loaders'["preview"] = Ask(loaders.preview, at)
      BY <1>1, <1>2, <2>2 DEF Loaders
    <3>2. \A l \in Loaders : LoaderOK(loaders'[l], at, db[at].ver, mine'[l])
      BY <1>2, <1>3, <1>4, <3>1 DEF Loaders
    <3>3. Moves
      BY <1>4, <3>1 DEF Moves, DataMoves, Loaders
    <3> QED
      BY <2>2, <3>1, <3>2, <3>3 DEF HiddenOK, Visible
  <2> QED
    BY <2>1, <2>2
<1>6. LoadersOK'
  BY <1>1, <1>3, <1>5 DEF LoadersOK
<1>7. FormOK'
  BY <1>1, <1>5 DEF FormOK
<1>8. WriteOK'
  BY <1>1 DEF WriteOK, Idle
<1> QED
  BY <1>1, <1>5, <1>6, <1>7, <1>8, StoreKept, SaveKept

-------------------------------------------------------------------------------
(* Duplicate, and other users.                                             *)

\* What only the duplication itself takes part in.
LEMMA CopyingOK ==
  ASSUME EditorInv, UNCHANGED <<db, pageVars, save, write>>, StoreOK'
  PROVE  EditorInv' /\ Moves
<1> USE DEF EditorInv
<1> QED
  BY LoadersKept, FormKept, SaveKept, WriteKept DEF pageVars

\* Duplicating starts alone,
LEMMA PressDuplicateOK == ASSUME EditorInv, PressDuplicate PROVE EditorInv' /\ Moves
<1>1. /\ at = Original /\ copying' = [step |-> "sent"]
      /\ UNCHANGED <<db, pageVars, save, write>>
  BY DEF PressDuplicate
<1>2. StoreOK'
  BY <1>1, StoreAt DEF EditorInv, StoreOK, pageVars, Playlist
<1> QED
  BY <1>1, <1>2, CopyingOK

\* may fail,
LEMMA FailDuplicateOK == ASSUME EditorInv, FailDuplicate PROVE EditorInv' /\ Moves
<1>1. copying' = Idle /\ UNCHANGED <<db, pageVars, save, write>>
  BY DEF FailDuplicate, Release
<1>2. copying'.step = "idle"
  BY <1>1 DEF Idle
<1>3. StoreOK'
  BY <1>1, <1>2 DEF EditorInv, StoreOK, pageVars, Playlist
<1> QED
  BY <1>1, <1>3, CopyingOK

\* makes the copy on the server,
LEMMA ServeDuplicateOK == ASSUME EditorInv, ServeDuplicate PROVE EditorInv' /\ Moves
<1> USE DEF EditorInv
<1>1. /\ copying.step = "sent" /\ at = Original /\ Original # Clone /\ Original \in Lists
      /\ Clone \in Lists /\ DOMAIN db = Lists /\ Playlist(db[Original], Original)
      /\ UNCHANGED <<pageVars, save, write>>
  BY StoreAt DEF ServeDuplicate, StoreOK
<1>2. \/ db' = [db EXCEPT ![Clone] = CopyOf(db[Original])] /\ copying' = [step |-> "made"]
      \/ /\ db' \in {db, [db EXCEPT ![Clone] = CopyOf(db[Original])]}
         /\ copying' = [step |-> "refused"]
  BY DEF ServeDuplicate
<1>3. DOMAIN db' = Lists /\ db'[Original] = db[Original]
  BY <1>1, <1>2
<1>4. copying'.step = "made" => Playlist(db'[Clone], Clone)
  <2>1. Playlist(CopyOf(db[Original]), Clone)
    BY <1>1 DEF CopyOf, Playlist
  <2> QED
    BY <1>1, <1>2, <2>1
<1>5. StoreOK'
  BY <1>1, <1>2, <1>3, <1>4 DEF StoreOK, pageVars, Playlist
<1>6. LoadersOK' /\ HiddenOK' /\ Moves
  BY <1>1, <1>3 DEF LoadersOK, pageVars, HiddenOK, Visible, Moves, DataMoves
<1>7. SaveOK'
  <2>1. save # Idle => save.to = Original
    BY <1>1 DEF SaveOK, Lists
  <2> QED
    BY <1>1, <1>3, <2>1 DEF SaveOK, pageVars, Idle
<1>8. WriteOK'
  <2>1. write # Idle => write.to = Original
    BY <1>1 DEF WriteOK, Lists
  <2> QED
    BY <1>1, <1>3, <2>1 DEF WriteOK, pageVars, Idle
<1>9. FormOK'
  BY <1>1, FormKept DEF pageVars
<1> QED
  BY <1>5, <1>6, <1>7, <1>8, <1>9

\* and opens it with loaders of its own.
LEMMA NavigateOK == ASSUME EditorInv, Navigate PROVE EditorInv' /\ Moves
<1> USE DEF EditorInv
<1>1. /\ copying.step = "made" /\ copying' = Idle /\ at' = Clone /\ at = Original
      /\ Render(Clone, Ask(loaders.sheet, Clone), Ask(loaders.rules, Clone),
                Ask(loaders.preview, Clone))
      /\ mine' = [l \in Loaders |-> 0] /\ typed' = Nothing
      /\ UNCHANGED <<db, form, dirty, save, left>>
  BY DEF Navigate, StoreOK
<1>2. Playlist(db[Clone], Clone) /\ Original # Clone /\ Original \in Lists /\ Clone \in Lists
  BY <1>1, StoreAt DEF StoreOK
<1>3. StoreOK'
  BY <1>1, <1>2 DEF StoreOK, Playlist, Idle
<1>4. /\ LoaderOK(loaders.sheet, at, db[at].ver, mine["sheet"])
      /\ LoaderOK(loaders.rules, at, db[at].ver, mine["rules"])
      /\ LoaderOK(loaders.preview, at, db[at].ver, mine["preview"])
  BY DEF LoadersOK, Loaders
<1>5. 0 \in Nat /\ db[Clone].ver \in Nat /\ 0 <= db[Clone].ver
  BY <1>2 DEF Playlist
<1>6. /\ LoaderOK(Ask(loaders.sheet, Clone), Clone, db[Clone].ver, 0)
      /\ ~Settled(Ask(loaders.sheet, Clone))
      /\ Ask(loaders.sheet, Clone).data = loaders.sheet.data
      /\ LoaderOK(Ask(loaders.rules, Clone), Clone, db[Clone].ver, 0)
      /\ Ask(loaders.rules, Clone).data = loaders.rules.data
      /\ LoaderOK(Ask(loaders.preview, Clone), Clone, db[Clone].ver, 0)
      /\ Ask(loaders.preview, Clone).data = loaders.preview.data
  BY <1>1, <1>2, <1>4, <1>5, AskOK
<1>7. /\ DOMAIN loaders' = Loaders
      /\ \A l \in Loaders : LoaderOK(loaders'[l], Clone, db[Clone].ver, mine'[l])
      /\ loaders'.sheet = Ask(loaders.sheet, Clone) /\ HiddenOK'
      /\ loaders'.rules.data \in {Nothing, loaders.rules.data}
      /\ loaders'.preview.data \in {Nothing, loaders.preview.data}
  <2>1. /\ DOMAIN mine' = Loaders /\ mine'["sheet"] = 0 /\ mine'["rules"] = 0
        /\ mine'["preview"] = 0
    BY <1>1 DEF Loaders
  <2> QED
    BY <1>1, <1>5, <1>6, <2>1, RenderOK
<1>8. LoadersOK'
  BY <1>1, <1>7 DEF LoadersOK
<1>9. Moves
  BY <1>6, <1>7 DEF Moves, DataMoves, Loaders
<1>10. FormOK'
  BY <1>1 DEF FormOK
<1>11. SaveOK' /\ WriteOK'
  <2>1. WriteOK'
    BY <1>1, RenderWrite
  <2> QED
    BY <1>1, <2>1 DEF SaveOK, Idle
<1> QED
  BY <1>3, <1>7, <1>8, <1>9, <1>10, <1>11

\* Somebody else writes: the page has not seen it.
LEMMA SomeoneWritesOK == ASSUME EditorInv, SomeoneWrites PROVE EditorInv' /\ Moves
<1> USE DEF EditorInv
<1>0. /\ Playlist(db[Original], Original) /\ Original \in Lists /\ DOMAIN db = Lists
      /\ UNCHANGED <<pageVars, write, copying>> /\ Original # Clone
  BY StoreAt DEF StoreOK, SomeoneWrites
<1>1. PICK p :
        /\ db' = [db EXCEPT ![Original] = p]
        /\ Playlist(p, Original) /\ p.ver >= db[Original].ver
        /\ \/ save' = IF save # Idle /\ save.to = Original THEN [save EXCEPT !.alone = FALSE] ELSE save
           \/ p.settings = db[Original].settings /\ p.items = db[Original].items /\ save' = save
  <2> DEFINE old == db[Original]
             A(s) == [old EXCEPT !.settings = s, !.ver = @ + 1]
             B == [old EXCEPT !.items = << >>, !.ver = @ + 1]
             C(n) == [old EXCEPT !.rule.every = n, !.ver = @ + 1]
  <2>1. \A s : Playlist(A(s), Original) /\ A(s).ver >= old.ver
    BY <1>0 DEF Playlist
  <2>2. Playlist(B, Original) /\ B.ver >= old.ver
    BY <1>0 DEF Playlist
  <2>3. \A n : /\ Playlist(C(n), Original) /\ C(n).ver >= old.ver
               /\ C(n).settings = old.settings /\ C(n).items = old.items
    BY <1>0 DEF Playlist
  <2>4. \/ /\ \E s : db' = [db EXCEPT ![Original] = A(s)]
           /\ save' = IF save # Idle /\ save.to = Original THEN [save EXCEPT !.alone = FALSE] ELSE save
        \/ /\ db' = [db EXCEPT ![Original] = B]
           /\ save' = IF save # Idle /\ save.to = Original THEN [save EXCEPT !.alone = FALSE] ELSE save
        \/ /\ \E n : db' = [db EXCEPT ![Original] = C(n)]
           /\ save' = save
    BY DEF SomeoneWrites
  <2> HIDE DEF A, B, C
  <2> QED
    BY <2>1, <2>2, <2>3, <2>4
<1>2. StoreOK' /\ LoadersOK' /\ HiddenOK' /\ Moves /\ WriteOK'
  BY <1>0, <1>1, StoreWritten DEF pageVars
<1>3. FormOK'
  BY <1>0, FormKept DEF pageVars
<1>4. SaveOK'
  <2>1. CASE p.settings = db[Original].settings /\ p.items = db[Original].items /\ save' = save
    BY <1>0, <1>1, <2>1, SaveBeside DEF pageVars
  <2>2. CASE /\ save # Idle /\ save.to = Original
             /\ save' = [save EXCEPT !.alone = FALSE]
    <3>1. /\ DOMAIN save' = DOMAIN save /\ save'.step = save.step /\ save'.reply = save.reply
          /\ save'.to = save.to /\ save'.ver = save.ver /\ save'.form = save.form
          /\ save'.alone = FALSE
      BY <2>2 DEF SaveOK
    <3>2. save.reply = "ok" => save.ver <= db'[save.to].ver
      BY <1>0, <1>1, <2>2 DEF SaveOK, Playlist
    <3> QED
      BY <1>0, <2>2, <3>1, <3>2 DEF SaveOK, pageVars
  <2>3. CASE ~(save # Idle /\ save.to = Original) /\ save' = save
    <3>1. save # Idle => save.to \in Lists /\ db'[save.to] = db[save.to]
      BY <1>0, <1>1, <2>3 DEF SaveOK
    <3> QED
      BY <1>0, <2>3, <3>1 DEF SaveOK, pageVars, Idle
  <2> QED
    BY <1>1, <2>1, <2>2, <2>3
<1> QED
  BY <1>2, <1>3, <1>4

-------------------------------------------------------------------------------
(* The theorems.                                                           *)

\* Every step of the page.
LEMMA StepOK == ASSUME EditorInv, [Next]_vars PROVE EditorInv' /\ Moves
<1>1. CASE UNCHANGED vars
  <2>1. /\ UNCHANGED <<db, at, form, dirty, typed, loaders, mine, callVars>>
    BY <1>1 DEF vars, pageVars
  <2>2. FormOK'
    BY <2>1, FormKept DEF EditorInv
  <2> QED
    BY <2>1, <2>2, FieldsOK
<1>2. ASSUME ReceiveRules PROVE EditorInv' /\ Moves
  <2>1. PICK f \in Arriving(loaders.rules) :
          /\ loaders' = [loaders EXCEPT !["rules"] = Receive(loaders["rules"], f)]
          /\ UNCHANGED <<db, at, form, dirty, typed, mine, callVars>>
    BY <1>2 DEF ReceiveRules
  <2> QED
    BY <2>1, ReceiveInside
<1>3. ASSUME ReceivePreview PROVE EditorInv' /\ Moves
  <2>1. PICK f \in Arriving(loaders.preview) :
          /\ loaders' = [loaders EXCEPT !["preview"] = Receive(@, f)]
          /\ UNCHANGED <<db, at, form, dirty, typed, mine, callVars>>
    BY <1>3 DEF ReceivePreview
  <2> QED
    BY <2>1, ReceiveInside
<1>4. CASE Asynchronous
  BY <1>2, <1>3, <1>4, AnswerQueryOK, ReceiveSheetOK, ServeSaveOK, SecondHalfOK, FinishSaveOK,
     FailSaveOK, ServeWriteOK, FinishWriteOK, FailWriteOK, ServeDuplicateOK, NavigateOK,
     FailDuplicateOK
  DEF Asynchronous
<1>5. CASE User
  BY <1>5, UserFormOK, PressSaveOK, PressDuplicateOK, RefreshOK, UserRuleOK, UserFieldsOK DEF User
<1> QED
  BY <1>1, <1>4, <1>5, SomeoneWritesOK DEF Next

\* The page, its queries and its calls stay consistent with each other and with what is stored.
THEOREM EditorInvariant == Spec => []EditorInv
<1>1. EditorInv /\ [Next]_vars => EditorInv'
  BY StepOK
<1> QED
  BY InitOK, <1>1, PTL DEF Spec

\* A page at rest knows of every write of its tab, for any playlists and any interleaving.
THEOREM OwnWritesAreShown == Spec => []OwnWritesShown
<1>1. EditorInv => OwnWritesShown
  BY DEF EditorInv, LoadersOK, LoaderOK, OwnWritesShown
<1> QED
  BY <1>1, EditorInvariant, PTL

\* What the user typed with no load of the form under way stays, with Save enabled, until a save
\* succeeds or Duplicate leaves the playlist.
THEOREM EditsStay == Spec => []EditsSurvive
<1>1. EditorInv => EditsSurvive
  BY DEF EditorInv, FormOK, EditsSurvive
<1> QED
  BY <1>1, EditorInvariant, PTL

\* Both halves of a save are those of the form of the moment it was pressed.
THEOREM SavesAreWhole == Spec => []SavedAsPressed
<1>1. EditorInv => SavedAsPressed
  <2> SUFFICES ASSUME EditorInv, save # Idle, save.step = "put", save.reply = "ok", save.alone
               PROVE  Content(db[save.to]) = save.form
    BY DEF SavedAsPressed
  <2>1. /\ save.form = [settings |-> save.form.settings, items |-> save.form.items]
        /\ db[save.to].settings = save.form.settings /\ db[save.to].items = save.form.items
    BY DEF EditorInv, SaveOK, IsForm
  <2> QED
    BY <2>1 DEF Content
<1> QED
  BY <1>1, EditorInvariant, PTL

\* No query shows an older answer after a newer one, nor one about a playlist the page has left.
THEOREM AnswersInOrder == Spec => ShownNeverGoesBack
<1>1. EditorInv /\ [Next]_vars =>
        [\A l \in Loaders :
           LET old == loaders[l].data
               new == loaders'[l].data
           IN new # old /\ new # Nothing =>
                /\ new.list = at'
                /\ old # Nothing /\ old.list = new.list => old.ver <= new.ver]_vars
  <2>1. EditorInv /\ [Next]_vars => Moves
    BY StepOK
  <2> QED
    BY <2>1 DEF Moves, DataMoves
<1> QED
  BY <1>1, EditorInvariant, PTL DEF Spec, ShownNeverGoesBack

-------------------------------------------------------------------------------
(* The media page.                                                         *)

\* A step that leaves the uploads alone, and takes nothing back of what the library received.
Elsewhere == UNCHANGED uploadVars /\ stored \subseteq stored'

\* Such a step keeps the invariant.
LEMMA ElsewhereKeeps ==
  ASSUME PageInv, Elsewhere
  PROVE  PageInv'
<1>1. \A u \in Uploads : Current(u)' = Current(u)
  BY DEF Elsewhere, uploadVars, Current
<1>2. Pending' = Pending
  BY DEF Elsewhere, uploadVars, Pending
<1> QED
  BY <1>1, <1>2 DEF PageInv, UploadsKnow, NoFileForgotten, Elsewhere, uploadVars

\* The grid and the tree are loaded,
LEMMA QueriesElsewhere ==
  ASSUME Poll \/ RefuseGrid \/ AnswerTree \/ ReceiveTree
           \/ \E f \in grid.flying : ReadHalf(f) \/ AnswerGrid(f) \/ ReceiveGrid(f)
  PROVE  Elsewhere
BY DEF Poll, RefuseGrid, AnswerTree, ReceiveTree, ReadHalf, AnswerGrid, ReceiveGrid, Elsewhere, uploadVars,
       serverVars

\* the user looks around, ticks, opens and confirms,
LEMMA UserElsewhere ==
  ASSUME PageUser
  PROVE  Elsewhere \/ StartUpload
<1>1. ASSUME ChangeView \/ ChangeFilter \/ TurnPage PROVE Elsewhere
  BY <1>1 DEF ChangeView, ChangeFilter, TurnPage, Look, Elsewhere, uploadVars, serverVars
<1>2. ASSUME OpenDelete \/ OpenMove \/ OpenDeleteFolder PROVE Elsewhere
  BY <1>2 DEF OpenDelete, OpenMove, OpenDeleteFolder, Open, Elsewhere, uploadVars, serverVars
<1>3. ASSUME Tick \/ ClearSelection \/ CloseDialog \/ Confirm \/ DropCards \/ CreateFolder
      PROVE  Elsewhere
  BY <1>3 DEF Tick, ClearSelection, CloseDialog, Confirm, DropCards, CreateFolder, Elsewhere,
              uploadVars, serverVars
<1> QED
  BY <1>1, <1>2, <1>3 DEF PageUser

\* actions are performed, and other users write: nothing the library received is unreceived.
LEMMA CallsElsewhere ==
  ASSUME ServeCall \/ FinishCall \/ FailCall \/ SomeoneElseWrites
  PROVE  Elsewhere
BY DEF ServeCall, Perform, FinishCall, FailCall, SomeoneElseWrites, Receives, Elsewhere, uploadVars,
       serverVars

\* An upload begins: its files are pending.
LEMMA StartUploadKeeps ==
  ASSUME PageInv, StartUpload
  PROVE  PageInv'
<1>1. PICK u \in Uploads, files \in SUBSET {f \in Files : f \notin stored /\ f \notin Pending} :
        /\ upload[u].files = {}
        /\ upload' = [upload EXCEPT ![u] =
             [files |-> files, to |-> IF query.view = "folder" THEN "folder" ELSE "root",
              reply |-> "none"]]
        /\ handed' = files \cup Pending /\ stored' = stored
  BY DEF StartUpload, serverVars
<1>2. /\ DOMAIN upload' = Uploads
      /\ DOMAIN upload'[u] = {"files", "to", "reply"}
      /\ upload'[u].files = files /\ upload'[u].reply = "none"
      /\ \A w \in Uploads \ {u} : upload'[w] = upload[w]
  BY <1>1 DEF PageInv, UploadsKnow
<1>3. ASSUME NEW w \in Uploads
      PROVE  /\ DOMAIN upload'[w] = {"files", "to", "reply"}
             /\ upload'[w].files \subseteq Files
             /\ upload'[w].reply = "ok" => Current(w)' \in stored'
  <2>1. CASE w = u
    BY <1>1, <1>2, <2>1
  <2>2. CASE w # u
    <3>1. Current(w)' = Current(w)
      BY <1>2, <2>2 DEF Current
    <3> QED
      BY <1>1, <1>2, <2>2, <3>1 DEF PageInv, UploadsKnow
  <2> QED
    BY <2>1, <2>2
<1>4. files \cup Pending \subseteq Pending'
  <2>1. ASSUME NEW w \in Uploads PROVE upload[w].files \subseteq upload'[w].files
    BY <1>1, <1>2
  <2> QED
    BY <1>1, <1>2, <2>1 DEF Pending
<1> QED
  BY <1>1, <1>2, <1>3, <1>4 DEF PageInv, UploadsKnow, NoFileForgotten

\* What an upload does keeps the others: it lets go of files the library has, or fails.
LEMMA OneUploadKeeps ==
  ASSUME PageInv, NEW u \in Uploads, NEW up,
         upload' = [upload EXCEPT ![u] = up],
         DOMAIN up = {"files", "to", "reply"}, up.files \subseteq Files,
         up.reply = "ok" => Current(u)' \in stored',
         stored \subseteq stored', handed' = handed,
         failed' \/ (~failed /\ upload[u].files \subseteq stored' \cup up.files)
  PROVE  PageInv'
<1>1. /\ DOMAIN upload' = Uploads /\ upload'[u] = up
      /\ \A w \in Uploads \ {u} : upload'[w] = upload[w]
  BY DEF PageInv, UploadsKnow
<1>2. ASSUME NEW w \in Uploads
      PROVE  /\ DOMAIN upload'[w] = {"files", "to", "reply"}
             /\ upload'[w].files \subseteq Files
             /\ upload'[w].reply = "ok" => Current(w)' \in stored'
  <2>1. CASE w = u
    BY <1>1, <2>1
  <2>2. CASE w # u
    <3>1. Current(w)' = Current(w)
      BY <1>1, <2>2 DEF Current
    <3> QED
      BY <1>1, <2>2, <3>1 DEF PageInv, UploadsKnow
  <2> QED
    BY <2>1, <2>2
<1>3. ASSUME ~failed' PROVE handed' \subseteq stored' \cup Pending'
  <2>1. ASSUME NEW w \in Uploads PROVE upload[w].files \subseteq stored' \cup Pending'
    BY <1>1, <1>3 DEF Pending
  <2>2. Pending \subseteq stored' \cup Pending'
    BY <2>1 DEF Pending
  <2> QED
    BY <1>3, <2>2 DEF PageInv, NoFileForgotten
<1> QED
  BY <1>1, <1>2, <1>3 DEF PageInv, UploadsKnow, NoFileForgotten

\* A file is received or refused,
LEMMA ServeUploadKeeps ==
  ASSUME PageInv, ServeUpload
  PROVE  PageInv'
<1>1. PICK u \in Uploads :
        /\ \/ stored' = stored \cup {Current(u)} /\ upload' = [upload EXCEPT ![u].reply = "ok"]
           \/ stored \subseteq stored' /\ upload' = [upload EXCEPT ![u].reply = "bad"]
        /\ handed' = handed /\ failed' = failed
  BY DEF ServeUpload, Receives, serverVars
<1>2. /\ DOMAIN upload = Uploads /\ DOMAIN upload[u] = {"files", "to", "reply"}
      /\ upload[u].files \subseteq Files
  BY DEF PageInv, UploadsKnow
<1>3. PICK r \in {"ok", "bad"} :
        /\ upload' = [upload EXCEPT ![u].reply = r]
        /\ stored \subseteq stored' /\ (r = "ok" => Current(u) \in stored')
  BY <1>1
<1> DEFINE up == [upload[u] EXCEPT !.reply = r]
<1>4. /\ upload' = [upload EXCEPT ![u] = up] /\ upload'[u] = up
      /\ DOMAIN up = {"files", "to", "reply"} /\ up.files = upload[u].files /\ up.reply = r
  BY <1>2, <1>3
<1>5. Current(u)' = Current(u)
  BY <1>4 DEF Current
<1> HIDE DEF up
<1>6. up.reply = "ok" => Current(u)' \in stored'
  BY <1>3, <1>4, <1>5
<1>7. failed' \/ (~failed /\ upload[u].files \subseteq stored' \cup up.files)
  BY <1>1, <1>4
<1>8. stored \subseteq stored' /\ up.files \subseteq Files /\ handed' = handed
  BY <1>1, <1>2, <1>3, <1>4
<1> QED
  BY <1>4, <1>6, <1>7, <1>8, OneUploadKeeps

\* the upload goes on to the next one,
LEMMA NextFileKeeps ==
  ASSUME PageInv, NextFile
  PROVE  PageInv'
<1>1. PICK u \in Uploads :
        /\ upload[u].reply = "ok"
        /\ upload' = [upload EXCEPT ![u].files = upload[u].files \ {Current(u)}, ![u].reply = "none"]
        /\ stored' = stored /\ handed' = handed /\ failed' = failed
  BY DEF NextFile, serverVars
<1>2. /\ DOMAIN upload = Uploads /\ DOMAIN upload[u] = {"files", "to", "reply"}
      /\ upload[u].files \subseteq Files /\ Current(u) \in stored
  BY <1>1 DEF PageInv, UploadsKnow
<1> DEFINE up == [upload[u] EXCEPT !.files = upload[u].files \ {Current(u)}, !.reply = "none"]
<1>3. /\ upload' = [upload EXCEPT ![u] = up]
      /\ DOMAIN up = {"files", "to", "reply"} /\ up.reply = "none"
      /\ up.files = upload[u].files \ {Current(u)}
  BY <1>1, <1>2
<1> HIDE DEF up
<1>4. CASE failed
  BY <1>1, <1>2, <1>3, <1>4, OneUploadKeeps
<1>5. CASE ~failed
  BY <1>1, <1>2, <1>3, <1>5, OneUploadKeeps
<1> QED
  BY <1>4, <1>5

\* or ends: with its last file, which is in, or with an error, which is shown.
LEMMA EndUploadKeeps ==
  ASSUME PageInv, EndUpload
  PROVE  PageInv'
<1>1. PICK u \in Uploads :
        /\ \/ upload[u].reply = "ok" /\ Cardinality(upload[u].files) = 1
           \/ upload[u].reply = "bad"
        /\ upload' = [upload EXCEPT ![u] = NoUpload]
        /\ failed' = Outcome(upload[u].reply)
        /\ stored' = stored /\ handed' = handed
  BY DEF EndUpload, serverVars
<1>2. /\ DOMAIN NoUpload = {"files", "to", "reply"} /\ NoUpload.files = {} /\ NoUpload.reply = "none"
      /\ upload[u].files \subseteq Files
  BY DEF NoUpload, PageInv, UploadsKnow
<1>3. CASE failed'
  BY <1>1, <1>2, <1>3, OneUploadKeeps
<1>4. CASE ~failed'
  <2>1. upload[u].reply = "ok" /\ Cardinality(upload[u].files) = 1 /\ ~failed
    BY <1>1, <1>4 DEF Outcome
  <2>2. Current(u) \in stored
    BY <2>1 DEF PageInv, UploadsKnow
  <2>3. IsFiniteSet(upload[u].files)
    BY <1>2, PageAssumption, FS_Subset
  <2>4. PICK f : upload[u].files = {f}
    BY <2>1, <2>3, FS_Singleton
  <2>5. Current(u) = f
    <3>1. f \in Nat
      BY <1>2, <2>4, PageAssumption
    <3>2. \E x \in upload[u].files : \A g \in upload[u].files : x <= g
      BY <2>4, <3>1
    <3> QED
      BY <2>4, <3>2 DEF Current
  <2>6. upload[u].files \subseteq stored'
    BY <1>1, <2>2, <2>4, <2>5
  <2> QED
    BY <1>1, <1>2, <2>1, <2>6, OneUploadKeeps
<1> QED
  BY <1>3, <1>4

\* Every step of the page keeps the invariant.
LEMMA PageStep ==
  ASSUME PageInv, [PageNext]_mediaVars
  PROVE  PageInv'
<1>1. CASE UNCHANGED mediaVars
  BY <1>1, ElsewhereKeeps DEF mediaVars, serverVars, Elsewhere
<1>2. ASSUME Handled PROVE PageInv'
  BY <1>2, QueriesElsewhere, CallsElsewhere, ElsewhereKeeps, ServeUploadKeeps, NextFileKeeps,
     EndUploadKeeps DEF Handled
<1>3. ASSUME PageUser PROVE PageInv'
  BY <1>3, UserElsewhere, ElsewhereKeeps, StartUploadKeeps
<1>4. ASSUME Poll \/ RefuseGrid \/ \E f \in grid.flying : ReadHalf(f) \/ AnswerGrid(f) \/ ReceiveGrid(f)
      PROVE  PageInv'
  BY <1>4, QueriesElsewhere, ElsewhereKeeps
<1>5. ASSUME SomeoneElseWrites PROVE PageInv'
  BY <1>5, CallsElsewhere, ElsewhereKeeps
<1> QED
  BY <1>1, <1>2, <1>3, <1>4, <1>5 DEF PageNext

\* What is handed to an upload is in the library, still being sent, or an error is shown, for any
\* number of files and of uploads at a time (Media.tsx:104, upload).
THEOREM UploadsAreAccountedFor == PageSpec => []NoFileForgotten
<1>1. PageInit => PageInv
  BY DEF PageInit, PageInv, UploadsKnow, NoFileForgotten, NoUpload
<1>2. PageInv /\ [PageNext]_mediaVars => PageInv'
  BY PageStep
<1>3. PageInv => NoFileForgotten
  BY DEF PageInv
<1> QED
  BY <1>1, <1>2, <1>3, PTL DEF PageSpec

===============================================================================
