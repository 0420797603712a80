-------------------------------- MODULE Loader --------------------------------
(***************************************************************************)
(* The dashboard's useApi hook as operators on the record a page keeps for *)
(* each of its queries: what is shown, and the requests still flying.      *)
(*                                                                         *)
(* A request whose effect was cancelled is kept until its answer arrives,  *)
(* for it to be seen to change nothing; only the last of them is kept.     *)
(***************************************************************************)
CONSTANT Nothing  \* no data yet

\* A component that was just created, before its first effect.
Unloaded == [flying |-> {}, data |-> Nothing, loading |-> TRUE, failed |-> FALSE]

\* Mutant of Ask: the effect has no cleanup.
AskWithoutCancel(l, key) ==
  [l EXCEPT !.flying = {f \in l.flying : f.live} \cup
              {[key |-> key, live |-> TRUE, step |-> "asked", got |-> Nothing]},
            !.failed = FALSE]

\* The effect runs, for the query named by key: at mount, when a dependency or the tick changes.
Ask(l, key) ==
  [l EXCEPT !.flying = {[f EXCEPT !.live = FALSE] : f \in {g \in l.flying : g.live}} \cup
              {[key |-> key, live |-> TRUE, step |-> "asked", got |-> Nothing]},
            !.failed = FALSE]

\* Ask, for a model that does not follow cancelled requests.
Fetch(l, key) ==
  LET asked == Ask(l, key) IN [asked EXCEPT !.flying = {f \in @ : f.live}]

\* The server answers a request, with data or with an error.
Answer(l, f, got) ==
  [l EXCEPT !.flying = (@ \ {f}) \cup {[f EXCEPT !.step = "answered", !.got = got]}]

Refuse(l, f) ==
  [l EXCEPT !.flying = (@ \ {f}) \cup {[f EXCEPT !.step = "refused"]}]

Asked(l) == {f \in l.flying : f.step = "asked"}
Arriving(l) == {f \in l.flying : f.step # "asked"}

\* An answer arrives: it is shown unless its effect was cancelled.
Receive(l, f) ==
  LET rest == [l EXCEPT !.flying = @ \ {f}] IN
  IF ~f.live
  THEN rest
  ELSE IF f.step = "answered"
  THEN [rest EXCEPT !.data = f.got, !.loading = FALSE]
  ELSE [rest EXCEPT !.failed = TRUE, !.loading = FALSE]

\* Nothing is on its way, and the last answer was data.
Settled(l) == ~l.loading /\ ~l.failed /\ ~\E f \in l.flying : f.live

===============================================================================
