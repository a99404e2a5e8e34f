--------------------------- MODULE MCGraphWatchers ---------------------------
(* Instances of GraphWatchers for TLC. *)
EXTENDS GraphWatchers, TLC

CONSTANTS w1, w2, c1, c2, retrier

Boundary(n, e, p) == [node |-> n, event |-> e, resolved |-> p]

(* Nothing relevant; the status reached by a patch without a trace; reached
   and undone, or the node removed, in one transition; the node removed; a
   proposal about it resolved. *)
EveryBoundary ==
    {Boundary("open", FALSE, FALSE), Boundary("met", FALSE, FALSE),
     Boundary("open", TRUE, FALSE), Boundary("absent", TRUE, FALSE),
     Boundary("absent", FALSE, FALSE), Boundary("open", FALSE, TRUE)}

(* Enough to decide a status watcher either way. *)
StatusBoundary == {Boundary("open", FALSE, FALSE), Boundary("met", TRUE, FALSE)}
=============================================================================
