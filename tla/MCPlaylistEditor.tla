--------------------------- MODULE MCPlaylistEditor ---------------------------
(* Instances of PlaylistEditor for TLC.                                    *)
EXTENDS PlaylistEditor

Scenario(kinds) == [k \in Events |-> IF k \in DOMAIN kinds THEN kinds[k] ELSE 0]

\* Edits beside saves, with a second user or a failure; a copy made beside a save; a rule
\* written beside a save, and beside a second user; a page that is being opened.
AllScenarios ==
  { Scenario([edit |-> 2, save |-> 2, fault |-> 1]),
    Scenario([edit |-> 2, save |-> 1, other |-> 1, fault |-> 1]),
    Scenario([edit |-> 1, save |-> 1, duplicate |-> 1]),
    Scenario([edit |-> 1, duplicate |-> 1, fault |-> 1]),
    Scenario([rule |-> 1, duplicate |-> 1, fault |-> 1]),
    Scenario([edit |-> 1, save |-> 1, rule |-> 1]),
    Scenario([rule |-> 2, type |-> 1, refresh |-> 1]),
    Scenario([rule |-> 1, type |-> 1, other |-> 1, refresh |-> 1]),
    Scenario([edit |-> 1, save |-> 1, fault |-> 1, open |-> 1]) }

\* One user, one save, nothing fails.
OneUser == {Scenario([edit |-> 2, save |-> 1])}

===============================================================================
