------------------------------- MODULE MCPlayer -------------------------------
(* Instances of Player for TLC.                                            *)
EXTENDS Player, TLC

CONSTANTS a, b, c, e, f, am, bm, em, fm

\* Images a and e; videos b, c and f, c with a duration of its own and the media
\* of b.
MCItems == {a, b, c, e, f}
MCMediaOf == (a :> am) @@ (b :> bm) @@ (c :> bm) @@ (e :> em) @@ (f :> fm)
MCVideos == {b, c, f}
MCTimed == {c}

Looping(s) == [items |-> s, loop |-> TRUE, random |-> FALSE]
Finite(s)  == [items |-> s, loop |-> FALSE, random |-> FALSE]
Random(s)  == [items |-> s, loop |-> TRUE, random |-> TRUE]

\* Lists that share items: several that loop, a single image, a single video, a finite list, and
\* random pools.  The single ones and the last item of the finite one occur in lists that loop.
Lively == {Looping(<<a, b>>), Looping(<<b, c, a>>), Looping(<<a>>), Looping(<<f>>), Looping(<<f, e>>),
           Finite(<<e, f>>), Random(<<a, b>>), Random(<<c>>)}

\* A second item is added to a single one; a finite list that is over is replaced by one that
\* loops and has its last item.
Growing == {Looping(<<a>>), Looping(<<a, b>>)}
Ended == {Finite(<<e, f>>), Looping(<<f, e>>)}

===============================================================================
