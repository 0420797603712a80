--------------------------- MODULE MCMediaPipeline ---------------------------
(* Instances of MediaPipeline for TLC.                                     *)
EXTENDS MediaPipeline, TLC

CONSTANTS v, light, high, d1, j1, j2, s1, s2

OneVideo == {v}
MCDevices == {d1}
MCTiers == {light}
MCJobs == {j1, j2}
MCSettings == {s1, s2}

\* A scenario's budget: the kinds it names, nothing of the others.
Allow(kinds) == [k \in Events |-> IF k \in DOMAIN kinds THEN kinds[k] ELSE 0]

\* Two jobs of one video at a time: new settings and tiers in between; attempts used up inside
\* the try, and by it and the database together; a database or Redis that fails at every
\* attempt, or beside a crash and a deletion; a worker that dies too often; an API that dies.
NewSettings == Allow([reprocess |-> 1, crash |-> 1, profile |-> 1])
Throwing    == Allow([reprocess |-> 1, throw |-> 3])
UsedUp      == Allow([throw |-> 2, outside |-> 2])
Outage      == Allow([outside |-> 3])
Redis       == Allow([outside |-> 1, crash |-> 1, delete |-> 1])
Dying       == Allow([crash |-> 2])
LostRequest == Allow([reprocess |-> 1, apicrash |-> 1])
Scenarios   == {NewSettings, Throwing, UsedUp, Outage, Redis, Dying, LostRequest}

===============================================================================
