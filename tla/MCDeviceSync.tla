----------------------------- MODULE MCDeviceSync -----------------------------
(* Instances of DeviceSync for TLC.                                        *)
EXTENDS DeviceSync, TLC

CONSTANTS m1, m2, c1, c2

MCMedia == {m1, m2}
OneMedium == {m1}
MCContents == {c1, c2}

\* Two contents of different sizes.
DifferentSizes == (c1 :> 1) @@ (c2 :> 2)

\* A scenario's budget: the kinds it names, nothing of the others.
Allow(kinds) == [k \in Events |-> IF k \in DOMAIN kinds THEN kinds[k] ELSE 0]

\* Safety: every kind of event, a few at a time.  The calm scenarios are those
\* in which the applied manifest must stay playable as well.
CrashWhilePushed == Allow([edit |-> 1, crash |-> 1, socket |-> 1, hurry |-> 1])
EditCrashDamage  == Allow([edit |-> 1, crash |-> 1, damage |-> 1, hurry |-> 1])
EditAndClear     == Allow([edit |-> 1, clear |-> 1, hurry |-> 1])
FailuresOffline  == Allow([edit |-> 2, http |-> 1, crash |-> 1, hurry |-> 1, calm |-> 1])
LinkTrouble      == Allow([edit |-> 2, link |-> 1, publish |-> 1, socket |-> 1, hurry |-> 1, calm |-> 1])
CalmCrash        == Allow([edit |-> 1, crash |-> 1, http |-> 1, socket |-> 1, hurry |-> 1, calm |-> 1])
IndexScenarios   == {CrashWhilePushed, EditCrashDamage, EditAndClear, FailuresOffline, LinkTrouble, CalmCrash}

\* Convergence: a device that polls; a replaced file; a damaged file, alone, with a crash, with
\* a failed call; over a websocket, a sync that fails, and two edits that may undo each other
\* while the link breaks.
PollTrouble      == Allow([edit |-> 1, http |-> 1, full |-> 1, hurry |-> 1])
ReplacedFile     == Allow([replace |-> 1, http |-> 1, refresh |-> 1])
OneDamage        == Allow([edit |-> 1, damage |-> 1])
DamageCrash      == Allow([damage |-> 1, crash |-> 1])
DamageFailure    == Allow([damage |-> 1, http |-> 1])
PushFails        == Allow([edit |-> 1, http |-> 1, socket |-> 1])
HelloCrosses     == Allow([edit |-> 2, link |-> 1, socket |-> 1, calm |-> 1])
LiveScenarios    == {PollTrouble, ReplacedFile, OneDamage, DamageCrash, DamageFailure, PushFails, HelloCrosses}

\* One scenario for each documented statement the code does not keep.
RefusedByPush    == {Allow([edit |-> 1, full |-> 1, socket |-> 1])}
RepairCutOff     == {DamageCrash}
HelloCrossed     == {HelloCrosses}
ReplaceAndFail   == {Allow([replace |-> 1, http |-> 1])}
OneEdit          == {Allow([edit |-> 1])}
CrashMidSync     == {Allow([edit |-> 1, http |-> 1, crash |-> 1, socket |-> 1, hurry |-> 1])}
DamageOnly       == {Allow([damage |-> 1])}
ClearMidSync     == {EditAndClear}

MediaSymmetry == Permutations(MCMedia)

===============================================================================
