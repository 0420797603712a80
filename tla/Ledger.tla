-------------------------------- MODULE Ledger --------------------------------
(***************************************************************************)
(* What a device promises about the entries it writes down for the server: *)
(* an entry is on its way until the server has counted it, it is counted   *)
(* once and never taken back, and it is given up only when at least Kept   *)
(* newer ones exist.  The telemetry buffers of module Telemetry implement  *)
(* this ledger twice, once for playback events and once for log lines.     *)
(***************************************************************************)
EXTENDS Naturals

CONSTANTS
  Entries,  \* the numbers entries may have, in the order they are written
  Kept      \* newer entries there must be before one may be given up

VARIABLES
  made,     \* entries written so far: 1..made
  pending,  \* on their way
  counted,  \* how often the server has counted each entry
  lost      \* given up

ledger == <<made, pending, counted, lost>>

Init ==
  /\ made = 0
  /\ pending = {}
  /\ counted = [e \in Entries |-> 0]
  /\ lost = {}

\* Entries that may be given up once n entries have been written.
Stale(S, n) == {e \in S : e + Kept <= n}

\* A new entry, which may push old ones out.
Record ==
  /\ made' = made + 1
  /\ \E gone \in SUBSET Stale(pending, made + 1) :
        /\ pending' = (pending \cup {made + 1}) \ gone
        /\ lost' = lost \cup gone
  /\ UNCHANGED counted

Count(S) ==
  /\ S \subseteq pending
  /\ pending' = pending \ S
  /\ counted' = [e \in Entries |-> IF e \in S THEN counted[e] + 1 ELSE counted[e]]
  /\ UNCHANGED <<made, lost>>

GiveUp(S) ==
  /\ S \subseteq Stale(pending, made)
  /\ pending' = pending \ S
  /\ lost' = lost \cup S
  /\ UNCHANGED <<made, counted>>

Next == Record \/ \E S \in SUBSET pending : Count(S) \/ GiveUp(S)

Safe == Init /\ [][Next]_ledger

\* No entry stays on its way for ever.
Spec == Safe /\ \A e \in Entries : []<>(e \notin pending)

===============================================================================
