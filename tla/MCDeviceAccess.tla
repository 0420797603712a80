---------------------------- MODULE MCDeviceAccess ----------------------------
(* Instances of DeviceAccess for TLC.                                      *)
EXTENDS DeviceAccess

CONSTANTS b1, b2

TwoBoxes == {b1, b2}
OneBox == {b1}
TwoVersions == {1, 2}

\* A scenario's budget: the kinds it names, nothing of the others.
Allow(kinds) == [k \in Events |-> IF k \in DOMAIN kinds THEN kinds[k] ELSE 0]

\* Each scenario puts together the events whose order against each other matters: two boxes
\* with one code, while requests time out, the code expires or goes, and both sides restart; a
\* second box brought in with a new code; one box whose syncs fail, whose links break and whose
\* pushes are lost while content changes and changes back; credentials that are not saved
\* before a crash.
Scenarios ==
  { Allow([visit |-> 2, timeout |-> 1, delete |-> 1]),
    Allow([visit |-> 2, timeout |-> 1, expire |-> 1]),
    Allow([visit |-> 1, timeout |-> 1, delete |-> 1, code |-> 1]),
    Allow([visit |-> 2, code |-> 1]),
    Allow([visit |-> 2, crash |-> 1, restart |-> 1, revoke |-> 1]),
    Allow([visit |-> 1, link |-> 1, restart |-> 1, change |-> 1]),
    Allow([visit |-> 1, link |-> 2, change |-> 1]),
    Allow([visit |-> 1, sync |-> 1, link |-> 1, change |-> 2]),
    Allow([visit |-> 1, publish |-> 1, link |-> 1, change |-> 2]),
    Allow([visit |-> 1, disk |-> 1, crash |-> 1, change |-> 1]) }

\* The documented way to pair a device again.
RepairScenario == {Allow([visit |-> 2, revoke |-> 1, code |-> 1])}

===============================================================================
