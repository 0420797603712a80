----------------------------- MODULE MCTelemetry ------------------------------
(* Instances of Telemetry for TLC.                                         *)
EXTENDS Telemetry

CONSTANTS timer, command

BothFlushers == {timer, command}

\* A scenario's budget: the kinds it names, nothing of the others.
Allow(kinds) == [k \in Events |-> IF k \in DOMAIN kinds THEN kinds[k] ELSE 0]

\* Plays offline, with two flushes at a time; lines and events together; the page dying, coming
\* back and syncs under way.
Scenarios ==
  { Allow([start |-> 3, loss |-> 1]),
    Allow([start |-> 1, end |-> 1, loss |-> 1, crash |-> 1]),
    Allow([start |-> 1, line |-> 2, loss |-> 1]),
    Allow([start |-> 2, beat |-> 1]),
    Allow([start |-> 1, beat |-> 1, crash |-> 1]),
    Allow([dead |-> 1, page |-> 1]),
    Allow([dead |-> 1, sync |-> 1, loss |-> 1]),
    Allow([dead |-> 1, unmet |-> 1]),
    Allow([dead |-> 1, crash |-> 1]),
    Allow([socket |-> 1, dead |-> 1]) }

\* An agent whose page never connects.
DarkScenario == {Allow([unmet |-> 1])}

===============================================================================
