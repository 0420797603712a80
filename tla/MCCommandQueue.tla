---------------------------- MODULE MCCommandQueue ----------------------------
(* Instances of CommandQueue for TLC.                                      *)
EXTENDS CommandQueue, TLC

CONSTANTS k1, k2, a1, a2, p1, p2

MCCommands == {k1, k2}
CommandSymmetry == Permutations(MCCommands)
TwoAttempts == {a1, a2}
OneAttempt == {a1}
TwoPolls == {p1, p2}
OnePoll == {p1}

\* A scenario's budget: the kinds it names, nothing of the others.
Allow(kinds) == [k \in Events |-> IF k \in DOMAIN kinds THEN kinds[k] ELSE 0]

\* A crash and a lost push; a breaking socket; a device that only polls, and one whose
\* poll cycles overlap.
CrashAndLoss == Allow([issue |-> 1, crash |-> 1, publish |-> 1, socket |-> 1])
LinkAndHttp  == Allow([issue |-> 1, link |-> 1, http |-> 1, expire |-> 1, socket |-> 1])
OnlyPolls    == Allow([issue |-> 2, http |-> 1, expire |-> 1])
SlowPolls    == Allow([issue |-> 2, overlap |-> 1])
Scenarios    == {CrashAndLoss, LinkAndHttp, OnlyPolls, SlowPolls}

\* A crash, which may come between the ack and the handler.
OneCrash     == {Allow([issue |-> 1, crash |-> 1, socket |-> 1])}

===============================================================================
