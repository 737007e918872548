----------------------------- MODULE MCAnalysis -----------------------------
(* Small games for Analysis: positions in which the rules' special cases meet *)
(* are played from, and two short ones are reviewed.                          *)
EXTENDS Analysis

Man(color, type) == [color |-> color, type |-> type]
White(type) == Man("white", type)
Black(type) == Man("black", type)

Position(men, side, rights, ep) ==
  [men |-> men, side |-> side, rights |-> rights, ep |-> ep, half |-> 0, full |-> 1]

(* Both sides can castle both ways, and the rooks face each other. *)
Castles ==
  Position(0 :> White("rook") @@ 4 :> White("king") @@ 7 :> White("rook") @@ 15 :> White("pawn")
           @@ 56 :> Black("rook") @@ 60 :> Black("king") @@ 63 :> Black("rook")
           @@ 55 :> Black("pawn"), "white", {"K", "Q", "k", "q"}, NoSquare)

(* A pawn may pass two others, one of which may not take it for its king. *)
Passing ==
  Position(32 :> White("king") @@ 33 :> White("pawn") @@ 35 :> White("pawn")
           @@ 39 :> Black("rook") @@ 50 :> Black("pawn") @@ 60 :> Black("king"),
           "black", {}, NoSquare)

(* Three knights reach one square, and a pawn is about to promote. *)
Knights ==
  Position(7 :> White("king") @@ 1 :> White("knight") @@ 33 :> White("knight")
           @@ 3 :> White("knight") @@ 48 :> White("pawn") @@ 57 :> Black("knight")
           @@ 63 :> Black("king"), "white", {}, NoSquare)

(* A mate in one among a few quiet moves. *)
Mating ==
  Position(53 :> White("king") @@ 46 :> White("pawn") @@ 63 :> Black("king")
           @@ 55 :> Black("pawn"), "white", {}, NoSquare)

(* A king and a pawn each, with two moves at most. *)
Cornered ==
  Position(0 :> White("king") @@ 8 :> White("pawn") @@ 16 :> Black("pawn")
           @@ 2 :> Black("king") @@ 39 :> White("pawn") @@ 55 :> Black("pawn"),
           "white", {}, NoSquare)

Played(start, plies) ==
  [start |-> start, plies |-> plies, book |-> 0, review |-> FALSE, entries |-> 0, explores |-> 0,
   mishaps |-> 0]
Reviewed(start, plies, book, entries, explores, harm) ==
  [start |-> start, plies |-> plies, book |-> book, review |-> TRUE, entries |-> entries,
   explores |-> explores, mishaps |-> harm]

MCScopes ==
  {Played(Castles, 3), Played(Passing, 3), Played(Knights, 2),
   Reviewed(Mating, 2, 0, 4, 0, 0), Reviewed(Mating, 1, 0, 3, 0, 2),
   Reviewed(Cornered, 3, 1, 2, 0, 1), Reviewed(Cornered, 2, 0, 2, 1, 0),
   Reviewed(Cornered, 1, 0, 1, 2, 1)}

MCEvaluations == {<<0, 0>>, <<90, 0>>}
MCPoints == (-1000 :> 76) @@ (-90 :> 444) @@ (0 :> 500) @@ (90 :> 556) @@ (1000 :> 924)
=============================================================================
