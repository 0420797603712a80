------------------------------- MODULE MCUpkeep -------------------------------
(* Instances of Upkeep for TLC.                                            *)
EXTENDS Upkeep

BothRunners == {"timer", "person"}

Scenario(ntfy, dryRun, kinds) ==
  [setup |-> [ntfy |-> ntfy, dryRun |-> dryRun],
   left |-> [k \in Events |-> IF k \in DOMAIN kinds THEN kinds[k] ELSE 0]]

\* Nights with late rows and a redis that fails; failed uploads; runs that die, and a migration
\* during a run; a loss and a restore; a restore with the database stopped; alerts.
AllScenarios ==
  { Scenario(FALSE, FALSE, [night |-> 2, row |-> 1, late |-> 1, redis |-> 1]),
    Scenario(FALSE, TRUE, [night |-> 2, manual |-> 1, upload |-> 1]),
    Scenario(FALSE, FALSE, [night |-> 2, row |-> 1, migrate |-> 1, die |-> 1]),
    Scenario(FALSE, FALSE, [night |-> 2, row |-> 1, disaster |-> 1, restore |-> 1]),
    Scenario(FALSE, TRUE, [night |-> 1, row |-> 1, restore |-> 1, stop |-> 1, query |-> 1, die |-> 1]),
    Scenario(TRUE, TRUE, [backlog |-> 2, ntfy |-> 1, redis |-> 1]),
    Scenario(TRUE, TRUE, [night |-> 1, backlog |-> 1, ntfy |-> 1]),
    Scenario(TRUE, TRUE, [backlog |-> 2, ntfy |-> 1, die |-> 1]) }

\* A restore on a host whose database is stopped.
StoppedScenario == {Scenario(FALSE, TRUE, [night |-> 1, restore |-> 1, stop |-> 1])}

===============================================================================
