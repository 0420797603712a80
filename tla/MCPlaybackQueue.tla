---------------------------- MODULE MCPlaybackQueue ----------------------------
(* Instances of PlaybackQueue for TLC.                                     *)
EXTENDS PlaybackQueue, TLC

CONSTANTS a, b, c, d, p, q, u, v, am, bm, cm, pm, qm, r1, r2, r3, r4, r5

\* Pool entries a to d, d with the media of a; p and q belong to the rotating rule
\* r1; u, with the media of b, and v to the random rule r2; r3 is empty, r4
\* has no interval, and r5 takes longer than r1 and r2, which trigger together.
MCEntries == {a, b, c, d, p, q, u, v}
MCMediumOf == (a :> am) @@ (b :> bm) @@ (c :> cm) @@ (d :> am) @@ (p :> pm) @@ (q :> qm) @@ (u :> bm) @@ (v :> pm)
MCRules == {r1, r2, r3, r4, r5}
MCInterval == (r1 :> 2) @@ (r2 :> 2) @@ (r3 :> 1) @@ (r4 :> 0) @@ (r5 :> 3)
MCRank == (r1 :> 2) @@ (r2 :> 1) @@ (r3 :> 3) @@ (r4 :> 4) @@ (r5 :> 0)
MCAssigned == (r1 :> <<p, q>>) @@ (r2 :> <<u, v>>) @@ (r3 :> <<>>) @@ (r4 :> <<p>>) @@ (r5 :> <<q>>)
MCRotating == {r1, r3}

Content(pool, rules) == [pool |-> pool, rules |-> rules]

\* Pools alone, with rules, with shared media; rules alone; nothing.
MCContents ==
  {Content({a, b, c}, {}), Content({a, b, d}, {}), Content({a}, {}),
   Content({a, b, c}, {r1}), Content({a, b}, MCRules), Content({c}, {r2, r4}),
   Content({}, {r1, r2}), Content({}, {})}

===============================================================================
