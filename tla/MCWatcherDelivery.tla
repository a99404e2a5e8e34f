-------------------------- MODULE MCWatcherDelivery --------------------------
(* Instances of WatcherDelivery for TLC. *)
EXTENDS WatcherDelivery

CONSTANTS w1, w2, w3, r1, r2, alice

Case(armed, grouped, graph, legacy, retries, shuts, dies) ==
    [armed |-> armed, grouped |-> grouped, graph |-> graph, retries |-> retries,
     author |-> [w \in ChatWatchers |-> IF w \in legacy THEN Nobody ELSE alice],
     closes |-> shuts, crashes |-> dies]

(* A group beside a watcher armed by a task that predates human attribution;
   an external and a graph watcher, with a closing and a restart; a lone
   watcher and two generations of the retry worker; the group with both. *)
Cases ==
    {Case({w1, w2, w3}, {w1, w2}, {w2}, {w3}, {r1}, 0, 0),
     Case({w1, w2}, {}, {w2}, {}, {r1}, 1, 1),
     Case({w1}, {}, {}, {}, {r1, r2}, 1, 1),
     Case({w1, w2}, {w1, w2}, {w2}, {}, {r1, r2}, 1, 0)}
=============================================================================
