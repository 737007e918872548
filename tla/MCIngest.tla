------------------------------ MODULE MCIngest ------------------------------
(* A small world for Ingest: four games of two players in two months, one of  *)
(* them with a PGN that does not tell when it ended.                          *)
EXTENDS Ingest

CONSTANTS u1, u2, g1, g2, g3, g4

MCPlayed ==
  (g1 :> [players |-> <<u1, u2>>, at |-> 0, dated |-> TRUE]) @@
  (g2 :> [players |-> <<u1>>, at |-> 1, dated |-> FALSE]) @@
  (g3 :> [players |-> <<u2, u1>>, at |-> 2, dated |-> TRUE]) @@
  (g4 :> [players |-> <<u2>>, at |-> 3, dated |-> TRUE])
MCSpan == 7 :> 1 @@ 30 :> 2

Syncing(ops, users, last, most, harm) ==
  [ops |-> {"sync"} \cup ops, users |-> users, games |-> {}, days |-> Days, first |-> 2,
   last |-> last, resolutions |-> 0, syncs |-> most, mishaps |-> harm]
Resolving(ops, games, most, harm) ==
  [ops |-> {"resolve"} \cup ops, users |-> {u1}, games |-> games, days |-> {}, first |-> 3,
   last |-> 3, resolutions |-> most, syncs |-> 0, mishaps |-> harm]
MCScopes ==
  {Syncing({"crash"}, {u1, u2}, 3, 2, 2), Syncing({"cancel"}, {u1}, 3, 3, 1),
   Syncing({"failure", "cancel"}, {u1}, 3, 2, 1),
   Syncing({"configure", "shutdown"}, {u1, u2}, 3, 2, 1),
   Resolving({"cancel", "failure"}, {g1, g4}, 3, 1), Resolving({"crash", "shutdown"}, {g1, g2}, 2, 1),
   [Syncing({"resolve", "import", "failure"}, {u2}, 3, 1, 1) EXCEPT !.games = {g3}, !.resolutions = 1]}
=============================================================================
