----------------------------- MODULE PlaybackQueue -----------------------------
(***************************************************************************)
(* PlaybackQueueEngine: what the random order modes play next, on the kiosk *)
(* and in the dashboard's preview.  Normal items come from a shuffled cycle *)
(* of the pool; a priority rule owes an item after every intervalCount of   *)
(* them.  A change of content builds a new engine, which only knows the     *)
(* media the page showed last.                                              *)
(*                                                                         *)
(* pendingRuleIds is only filled when it is empty, in the order of          *)
(* comparePriorityRules, so it is a set here, served in that order.         *)
(***************************************************************************)
EXTENDS Naturals, FiniteSets, Sequences

CONSTANTS
  Entries,    \* playable entry ids, of pools and of rules
  MediumOf,   \* the media of each entry
  Rules,      \* priority rule ids
  Interval,   \* intervalCount of each rule
  Rank,       \* order of the rules by position, creation time and id
  Assigned,   \* the entries of each rule, in rotation order
  Rotating,   \* rules with selectionMode rotate
  Contents,   \* contents a playlist may have: a pool and rules
  Rebuilds,   \* bound on the changes of content
  NoMedium, NoEntry, NoRule

Medium == {MediumOf[e] : e \in Entries} \cup {NoMedium}

ASSUME QueueAssumption ==
  /\ IsFiniteSet(Entries) /\ IsFiniteSet(Rules)
  /\ NoEntry \notin Entries /\ NoRule \notin Rules
  /\ \A e \in Entries : MediumOf[e] # NoMedium
  /\ Interval \in [Rules -> Nat]
  /\ Rank \in [Rules -> Nat]
  /\ \A r, s \in Rules : Rank[r] = Rank[s] => r = s
  /\ Assigned \in [Rules -> Seq(Entries)]
  /\ Contents \subseteq [pool : SUBSET Entries, rules : SUBSET Rules]
  /\ Rebuilds \in Nat

VARIABLES
  content,    \* the pool and the rules of this engine
  cycle, at,  \* the shuffled pool, and how many entries of it have played
  lastMedia,  \* lastMediaId: media returned last, or shown before this engine existed
  remembered, \* LAST_MEDIA_KEY of the page: media of the last item that loaded
  since,      \* normalsSinceLast of each rule
  turn,       \* rotateIndex of each rule
  lastOf,     \* lastMediaId of each rule
  pending,    \* rules that owe an item
  out,        \* what next() returned last
  gap,        \* history: normal items returned since the last one of each rule
  rebuilt     \* changes of content so far

ruleVars == <<since, turn, lastOf, pending>>
engineVars == <<content, cycle, at, lastMedia, remembered, ruleVars, out, gap, rebuilt>>

NoPlay == [entry |-> NoEntry, rule |-> NoRule]

-------------------------------------------------------------------------------
(* Rules.                                                                  *)

\* Rules that can never play are dropped by the constructor.
Playable == {r \in content.rules : Interval[r] > 0 /\ Assigned[r] # <<>>}

\* comparePriorityRules.
Before(r, s) == Interval[r] < Interval[s] \/ (Interval[r] = Interval[s] /\ Rank[r] < Rank[s])

IsFirst(r, rs) == \A s \in rs \ {r} : Before(r, s)

\* pickRuleEntry: the next in rotation; or any, but not what the rule or the
\* engine played last when there is another.
Pick(r) ==
  LET all   == {Assigned[r][j] : j \in DOMAIN Assigned[r]}
      fresh == {e \in all : MediumOf[e] \notin {lastOf[r], lastMedia}}
  IN  IF r \in Rotating THEN {Assigned[r][turn[r] + 1]}
      ELSE IF fresh # {} THEN fresh ELSE all

\* Mutant of Turned: the rotation never moves on.
NeverTurned(r) == turn

Turned(r) == IF r \in Rotating THEN [turn EXCEPT ![r] = (@ + 1) % Len(Assigned[r])] ELSE turn

-------------------------------------------------------------------------------
(* Cycles.                                                                 *)

\* The orders of a pool.
Orders(S) ==
  {c \in [1..Cardinality(S) -> S] :
     /\ \A e \in S : \E j \in DOMAIN c : c[j] = e
     /\ \A i, j \in DOMAIN c : c[i] = c[j] => i = j}

Swapped(c, k) == [c EXCEPT ![1] = c[k], ![k] = c[1]]

\* Mutant of Cycles: a new cycle does not look at what played last.
AnyOrder(S, m) == Orders(S)

\* reshuffle: a cycle that would start with the media m is given another start.
Cycles(S, m) ==
  LET repeats(c) == Cardinality(S) > 1 /\ m # NoMedium /\ MediumOf[c[1]] = m
  IN  {c \in Orders(S) : ~repeats(c)}
      \cup {Swapped(c, k) : c \in {o \in Orders(S) : repeats(o)}, k \in 2..Cardinality(S)}

-------------------------------------------------------------------------------
(* next().                                                                 *)

\* The history of the rules, given what is returned.
Counted(r) ==
  IF out'.rule = r THEN 0
  ELSE IF out'.rule = NoRule /\ r \in Playable THEN gap[r] + 1 ELSE gap[r]
CountGaps == gap' = [r \in Rules |-> Counted(r)]

\* Mutant of Settled: the counter of a served rule goes on.
NeverSettled(r) == since

Settled(r) == [since EXCEPT ![r] = 0]

\* The item e of rule r is returned.
Return(r, e) ==
  /\ out' = [entry |-> e, rule |-> r]
  /\ lastMedia' = MediumOf[e]
  /\ turn' = Turned(r)
  /\ CountGaps

\* A rule is served.
ServeOwed ==
  /\ \E r \in pending :
       /\ IsFirst(r, pending)
       /\ \E e \in Pick(r) : Return(r, e) /\ lastOf' = [lastOf EXCEPT ![r] = MediumOf[e]]
       /\ since' = Settled(r)
       /\ pending' = pending \ {r}
  /\ UNCHANGED <<content, cycle, at, remembered, rebuilt>>

\* There is nothing but rules: the first one is cycled through.
ServeRuleOnly ==
  /\ pending = {} /\ content.pool = {}
  /\ \E r \in Playable :
       /\ IsFirst(r, Playable)
       /\ \E e \in Pick(r) : Return(r, e)
  /\ UNCHANGED <<content, cycle, at, remembered, lastOf, since, pending, rebuilt>>

\* Mutant of Triggered: a rule waits for one item more.
TriggeredLate(counts) == {r \in Playable : counts[r] > Interval[r]}

Triggered(counts) == {r \in Playable : counts[r] >= Interval[r]}

\* A normal item; every rule counts it.
ServeNormal ==
  /\ pending = {} /\ content.pool # {}
  /\ \/ /\ at < Cardinality(content.pool)
        /\ at' = at + 1
        /\ cycle' = cycle
     \/ /\ at = Cardinality(content.pool)
        /\ at' = 1
        /\ cycle' \in Cycles(content.pool, lastMedia)
  /\ out' = [entry |-> cycle'[at'], rule |-> NoRule]
  /\ lastMedia' = MediumOf[cycle'[at']]
  /\ since' = [r \in Rules |-> IF r \in Playable THEN since[r] + 1 ELSE since[r]]
  /\ pending' = Triggered(since')
  /\ CountGaps
  /\ UNCHANGED <<content, remembered, turn, lastOf, rebuilt>>

\* The page has loaded what next() returned; an item that fails is not remembered.
Remember ==
  /\ out # NoPlay
  /\ remembered' = MediumOf[out.entry]
  /\ UNCHANGED <<content, cycle, at, lastMedia, ruleVars, out, gap, rebuilt>>

\* rebuildEngine: new content, or the page starts over.
Rebuild ==
  /\ rebuilt < Rebuilds
  /\ rebuilt' = rebuilt + 1
  /\ content' \in Contents
  /\ lastMedia' = remembered
  /\ cycle' \in Cycles(content'.pool, remembered)
  /\ at' = 0
  /\ since' = [r \in Rules |-> 0] /\ turn' = [r \in Rules |-> 0]
  /\ lastOf' = [r \in Rules |-> NoMedium] /\ pending' = {}
  /\ out' = NoPlay /\ gap' = [r \in Rules |-> 0]
  /\ UNCHANGED remembered

-------------------------------------------------------------------------------

EngineInit ==
  /\ content \in Contents
  /\ remembered \in Medium
  /\ lastMedia = remembered
  /\ cycle \in Cycles(content.pool, lastMedia)
  /\ at = 0
  /\ since = [r \in Rules |-> 0] /\ turn = [r \in Rules |-> 0]
  /\ lastOf = [r \in Rules |-> NoMedium] /\ pending = {}
  /\ out = NoPlay /\ gap = [r \in Rules |-> 0]
  /\ rebuilt = 0

Serve == ServeOwed \/ ServeRuleOnly \/ ServeNormal
EngineNext == Serve \/ Remember \/ Rebuild

\* The page asks for the next item whenever one ends or fails.
EngineSpec == EngineInit /\ [][EngineNext]_engineVars
EngineFairSpec == EngineSpec /\ WF_engineVars(Serve)

-------------------------------------------------------------------------------
(* Properties.                                                             *)

\* Type correctness of the engine; its cycle is an order of the pool.
EngineTypeOK ==
  /\ content \in Contents
  /\ cycle \in Orders(content.pool) /\ at \in 0..Cardinality(content.pool)
  /\ lastMedia \in Medium /\ remembered \in Medium /\ lastOf \in [Rules -> Medium]
  /\ since \in [Rules -> Nat] /\ gap \in [Rules -> Nat]
  /\ turn \in [Rules -> Nat] /\ \A r \in Playable : turn[r] < Len(Assigned[r])
  /\ pending \in SUBSET Playable
  /\ out \in [entry : Entries, rule : Rules \cup {NoRule}] \cup {NoPlay}
  /\ rebuilt \in 0..Rebuilds

\* The counters agree with what was played, and a rule owes an item exactly when
\* its interval is full: no trigger is missed, none comes twice.
OnTime ==
  /\ \A r \in Playable : content.pool # {} => since[r] = gap[r] /\ gap[r] <= Interval[r]
  /\ \A r \in Playable : r \in pending <=> content.pool # {} /\ gap[r] = Interval[r]

\* With nothing but a pool, the media played last is the cycle's, and a cycle that
\* has not begun starts with another one.
Distinct(S) == \A e, f \in S : MediumOf[e] = MediumOf[f] => e = f
Varied == content.rules = {} /\ Cardinality(content.pool) > 1 /\ Distinct(content.pool)
CycleInv ==
  Varied => /\ at > 0 => lastMedia = MediumOf[cycle[at]]
            /\ at = 0 => lastMedia # MediumOf[cycle[1]]

\* The inductive invariant behind RulesKeepTime and NoImmediateRepeat.
QueueInv == EngineTypeOK /\ OnTime /\ CycleInv

\* A rule plays after exactly intervalCount normal items, and no normal item plays
\* while a rule is due, however many rules trigger together.
RulesKeepTime ==
  [][Serve /\ content.pool # {} =>
       IF out'.rule = NoRule THEN \A r \in Playable : gap[r] < Interval[r]
       ELSE gap[out'.rule] = Interval[out'.rule]]_engineVars

\* Random play of different media repeats none at once, from one cycle to the next;
\* and a new engine does not start with what the screen showed last.
NoImmediateRepeat == [][Varied /\ ServeNormal => MediumOf[out'.entry] # lastMedia]_engineVars

\* Everything in the pool and in the rotation of a rule plays again and again:
\* rules starve neither the pool nor each other.
InRotation(e) ==
  \/ e \in content.pool
  \/ \E r \in Playable \cap Rotating :
       content.pool # {} /\ e \in {Assigned[r][j] : j \in DOMAIN Assigned[r]}
EverythingPlays == \A e \in Entries : []<>(InRotation(e) => out.entry = e)

===============================================================================
