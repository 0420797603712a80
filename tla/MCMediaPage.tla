------------------------------ MODULE MCMediaPage ------------------------------
(* Instances of MediaPage for TLC.                                         *)
EXTENDS MediaPage

Scenario(kinds) == [k \in PageEvents |-> IF k \in DOMAIN kinds THEN kinds[k] ELSE 0]

\* Views, filters and pages beside another user; actions on the selection; with another user, or
\* with failures; uploads beside actions, views and each other.
AllScenarios ==
  { Scenario([look |-> 2, other |-> 1]),
    Scenario([look |-> 1, tick |-> 1, act |-> 1]),
    Scenario([act |-> 1, other |-> 1]),
    Scenario([act |-> 1, fault |-> 1]),
    Scenario([upload |-> 1, act |-> 1]),
    Scenario([look |-> 1, upload |-> 1, other |-> 1]),
    Scenario([upload |-> 2, fault |-> 1]) }

\* A look at the second page, and a deletion.
OneUser == {Scenario([look |-> 1, act |-> 1])}

===============================================================================
