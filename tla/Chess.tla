------------------------------- MODULE Chess -------------------------------
(* The chess core: positions, their moves, making and unmaking a move, and    *)
(* the names moves and positions have in text.  Squares are numbered by rank  *)
(* and file as in the code; men maps the occupied squares to the pieces on    *)
(* them.  Text is abstracted to the fields it carries, the 64-bit hash to     *)
(* what is mixed into it.                                                     *)
EXTENDS Integers, Sequences, Functions, FiniteSetsExt, TLC

Squares == 0..63
NoSquare == 64
File(s) == s % 8
Rank(s) == s \div 8
Opposite(color) == IF color = "white" THEN "black" ELSE "white"

Colors == {"white", "black"}
Types == {"pawn", "knight", "bishop", "rook", "queen", "king"}
Men == [color : Colors, type : Types]
IsPlacement(men) == DOMAIN men \subseteq Squares /\ men \in [DOMAIN men -> Men]

Straight == {<<1, 0>>, <<-1, 0>>, <<0, 1>>, <<0, -1>>}
Diagonal == {<<1, 1>>, <<1, -1>>, <<-1, 1>>, <<-1, -1>>}
Directions == Straight \cup Diagonal
Leaps == {d \in {-2, -1, 1, 2} \X {-2, -1, 1, 2} : d[1] * d[1] # d[2] * d[2]}

OnBoard(s, d, k) == File(s) + k * d[1] \in 0..7 /\ Rank(s) + k * d[2] \in 0..7
Step(s, d, k) == s + k * d[1] + 8 * k * d[2]
Near(s, D) == {Step(s, d, 1) : d \in {e \in D : OnBoard(s, e, 1)}}
Ray ==
  [s \in Squares |-> [d \in Directions |->
     [k \in 1..Cardinality({j \in 1..7 : OnBoard(s, d, j)}) |-> Step(s, d, k)]]]

(* The squares in direction d up to the first man, that one included. *)
Seen(men, s, d) ==
  LET ray == Ray[s][d]
  IN {ray[k] : k \in {j \in DOMAIN ray : \A i \in 1..(j - 1) : ray[i] \notin DOMAIN men}}

Is(men, s, color, type) == s \in DOMAIN men /\ men[s] = [color |-> color, type |-> type]
Forward(color) == IF color = "white" THEN 1 ELSE -1
Sliders(d) == {"queen", IF d \in Diagonal THEN "bishop" ELSE "rook"}

Attacked(men, s, by) ==
  \/ \E q \in Near(s, {<<-1, -Forward(by)>>, <<1, -Forward(by)>>}) : Is(men, q, by, "pawn")
  \/ \E q \in Near(s, Leaps) : Is(men, q, by, "knight")
  \/ \E q \in Near(s, Directions) : Is(men, q, by, "king")
  \/ \E d \in Directions : \E q \in Seen(men, s, d), t \in Sliders(d) : Is(men, q, by, t)

InCheck(men, color) ==
  \E s \in DOMAIN men : Is(men, s, color, "king") /\ Attacked(men, s, Opposite(color))

-----------------------------------------------------------------------------
(* Moves. *)
Move(from, to, flags) == [from |-> from, to |-> to, promotion |-> "none", flags |-> flags]
Promotions == {"queen", "rook", "bishop", "knight"}

AddPawnMove(from, to, flags) ==
  IF Rank(to) \in {0, 7}
  THEN {[Move(from, to, flags \cup {"promotion"}) EXCEPT !.promotion = t] : t \in Promotions}
  ELSE {Move(from, to, flags)}

Taken(p, s) == s \in DOMAIN p.men /\ p.men[s].color # p.side

PawnMoves(p, from) ==
  LET step  == Forward(p.side)
      start == IF p.side = "white" THEN 1 ELSE 6
      ahead == {s \in Near(from, {<<0, step>>}) : s \notin DOMAIN p.men}
      aside == Near(from, {<<-1, step>>, <<1, step>>})
  IN (UNION ({AddPawnMove(from, s, {}) : s \in ahead}
             \cup {AddPawnMove(from, s, {"capture"}) : s \in {q \in aside : Taken(p, q)}}
             \cup {AddPawnMove(from, s, {"capture", "en_passant"}) :
                     s \in {q \in aside : ~Taken(p, q) /\ q = p.ep}}))
     \cup {Move(from, s + 8 * step, {"double"}) :
             s \in {q \in ahead : Rank(from) = start /\ q + 8 * step \notin DOMAIN p.men}}

(* The four castlings: the right, the king's squares, the rook's, and the squares *)
(* that have to be empty and those that must not be attacked.                     *)
Castling(color, right, flag, king, to, rook, rookTo, empty, safe) ==
  [color |-> color, right |-> right, flag |-> flag, king |-> king, to |-> to, rook |-> rook,
   rookTo |-> rookTo, empty |-> empty, safe |-> safe]
Castlings ==
  {Castling("white", "K", "king_castle", 4, 6, 7, 5, {5, 6}, {5, 6}),
   Castling("white", "Q", "queen_castle", 4, 2, 0, 3, {1, 2, 3}, {2, 3}),
   Castling("black", "k", "king_castle", 60, 62, 63, 61, {61, 62}, {61, 62}),
   Castling("black", "q", "queen_castle", 60, 58, 56, 59, {57, 58, 59}, {58, 59})}

CastlingMoves(p, from) ==
  {Move(from, c.to, {c.flag}) :
     c \in {c \in Castlings : /\ c.color = p.side /\ c.king = from
                              /\ c.right \in p.rights
                              /\ c.empty \cap DOMAIN p.men = {}
                              /\ Is(p.men, c.rook, p.side, "rook")
                              /\ ~InCheck(p.men, p.side)
                              /\ \A s \in c.safe : ~Attacked(p.men, s, Opposite(p.side))}}

Reached(p, from) ==
  CASE p.men[from].type = "knight" -> Near(from, Leaps)
    [] p.men[from].type = "king"   -> Near(from, Directions)
    [] OTHER -> UNION {Seen(p.men, from, d) :
                         d \in {e \in Directions : p.men[from].type \in Sliders(e)}}

PieceMoves(p, from) ==
  {Move(from, s, IF s \in DOMAIN p.men THEN {"capture"} ELSE {}) :
     s \in {q \in Reached(p, from) : q \in DOMAIN p.men => p.men[q].color # p.side}}

MovesFrom(p, from) ==
  CASE p.men[from].type = "pawn" -> PawnMoves(p, from)
    [] p.men[from].type = "king" -> PieceMoves(p, from) \cup CastlingMoves(p, from)
    [] OTHER -> PieceMoves(p, from)

PseudoLegal(p) ==
  UNION {MovesFrom(p, s) : s \in {q \in DOMAIN p.men : p.men[q].color = p.side}}

-----------------------------------------------------------------------------
(* Making a move and taking it back. *)
CapturedSquare(p, m) ==
  IF "en_passant" \in m.flags THEN m.to - 8 * Forward(p.side) ELSE m.to

RookMoves(color, m) == {c \in Castlings : c.color = color /\ c.flag \in m.flags}

(* The men once one is put on s, and without those on the squares S. *)
Placed(men, s, man) == [q \in DOMAIN men \cup {s} |-> IF q = s THEN man ELSE men[q]]
Cleared(men, S) == Restrict(men, DOMAIN men \ S)

Moved(p, m) ==
  LET man   == p.men[m.from]
      stays == Cleared(p.men, {m.from, m.to, CapturedSquare(p, m)})
      put   == Placed(stays, m.to, IF "promotion" \in m.flags
                                   THEN [man EXCEPT !.type = m.promotion] ELSE man)
  IN IF RookMoves(p.side, m) = {} THEN put
     ELSE LET c == CHOOSE c \in RookMoves(p.side, m) : TRUE
          IN Placed(Cleared(put, {c.rook}), c.rookTo, p.men[c.rook])

Legal(p) == {m \in PseudoLegal(p) : ~InCheck(Moved(p, m), p.side)}

(* Fault: only a rook that leaves its corner loses the right, not one taken there. *)
LostRightsByLeaving(p, m) ==
  {c.right : c \in {c \in Castlings : /\ c.color = p.side
                                      /\ p.men[m.from].type = "king" \/ c.rook = m.from}}

LostRights(p, m) ==
  {c.right : c \in {c \in Castlings : \/ c.color = p.side /\ p.men[m.from].type = "king"
                                      \/ c.rook \in {m.from, m.to}}}

(* An en passant square counts only when a pawn stands ready to use it. *)
Hash(men, side, rights, ep) ==
  LET ready == \E s \in Near(ep, {<<-1, -Forward(side)>>, <<1, -Forward(side)>>}) :
                 Is(men, s, side, "pawn")
  IN [men |-> men, side |-> side, rights |-> rights,
      ep |-> IF ep # NoSquare /\ ready THEN File(ep) ELSE NoSquare]

Make(p, m) ==
  LET men    == Moved(p, m)
      side   == Opposite(p.side)
      rights == p.rights \ LostRights(p, m)
      ep     == IF "double" \in m.flags THEN (m.from + m.to) \div 2 ELSE NoSquare
      hash   == Hash(men, side, rights, ep)
      still  == p.men[m.from].type # "pawn" /\ CapturedSquare(p, m) \notin DOMAIN p.men
  IN [men |-> men, side |-> side, rights |-> rights, ep |-> ep,
      half |-> IF still THEN (p.half + 1) % 2^16 ELSE 0,
      full |-> (p.full + (IF p.side = "black" THEN 1 ELSE 0)) % 2^16,
      hash |-> hash, history |-> Append(p.history, hash)]

Undo(p, m) ==
  [captured |-> Restrict(p.men, {CapturedSquare(p, m)} \cap DOMAIN p.men), ep |-> p.ep,
   rights |-> p.rights, half |-> p.half, full |-> p.full, hash |-> p.hash]

Unmake(p, m, undo) ==
  LET side == Opposite(p.side)
      man  == IF "promotion" \in m.flags THEN [color |-> side, type |-> "pawn"]
              ELSE p.men[m.to]
      put  == Placed(Cleared(p.men, {m.to}), m.from, man)
      back == [s \in DOMAIN put \cup DOMAIN undo.captured |->
                 IF s \in DOMAIN undo.captured THEN undo.captured[s] ELSE put[s]]
      c    == CHOOSE c \in RookMoves(side, m) : TRUE
  IN [men |-> IF RookMoves(side, m) = {} THEN back
              ELSE Placed(Cleared(back, {c.rookTo}), c.rook, back[c.rookTo]),
      side |-> side, rights |-> undo.rights, ep |-> undo.ep, half |-> undo.half,
      full |-> undo.full, hash |-> undo.hash,
      history |-> IF Len(p.history) > 1 THEN SubSeq(p.history, 1, Len(p.history) - 1)
                  ELSE p.history]

Worth == [pawn |-> 100, knight |-> 320, bishop |-> 330, rook |-> 500, queen |-> 900, king |-> 0]
Material(men, color) ==
  MapThenSumSet(LAMBDA s : Worth[men[s].type], {s \in DOMAIN men : men[s].color = color})

-----------------------------------------------------------------------------
(* Text.  A FEN carries everything but the hash and the history. *)
Fen(p) == [men |-> p.men, side |-> p.side, rights |-> p.rights, ep |-> p.ep, half |-> p.half,
           full |-> p.full]

ReadsBack(f) ==
  /\ f.full # 0
  /\ \A color \in {"white", "black"} : \E s \in DOMAIN f.men : Is(f.men, s, color, "king")

FromFen(f) ==
  LET hash == Hash(f.men, f.side, f.rights, f.ep)
  IN [men |-> f.men, side |-> f.side, rights |-> f.rights, ep |-> f.ep, half |-> f.half,
      full |-> f.full, hash |-> hash, history |-> <<hash>>]

(* Fault: a piece on the same file is told apart by that file. *)
OriginByFile(rivals, from) == IF rivals = {} THEN {} ELSE {"file"}

Origin(rivals, from) ==
  IF rivals = {} THEN {}
  ELSE IF \A m \in rivals : File(m.from) # File(from) THEN {"file"}
  ELSE IF \A m \in rivals : Rank(m.from) # Rank(from) THEN {"rank"}
  ELSE {"file", "rank"}

(* legal is Legal(p): what move m is called there, its check or mate mark left out. *)
San(p, legal, m) ==
  LET man    == p.men[m.from]
      rivals == {c \in legal : c.from # m.from /\ c.to = m.to /\ p.men[c.from] = man}
      shown  == IF man.type # "pawn" THEN Origin(rivals, m.from)
                ELSE IF "capture" \in m.flags THEN {"file"} ELSE {}
  IN IF RookMoves(p.side, m) # {} THEN [castle |-> m.flags]
     ELSE [man |-> man.type, takes |-> "capture" \in m.flags, to |-> m.to,
           file |-> IF "file" \in shown THEN File(m.from) ELSE NoSquare,
           rank |-> IF "rank" \in shown THEN Rank(m.from) ELSE NoSquare,
           promotion |-> m.promotion]

Parsed(p, legal, san) == {m \in legal : San(p, legal, m) = san}

Uci(m) == [from |-> m.from, to |-> m.to, promotion |-> m.promotion]
Found(legal, uci) ==
  {m \in legal : /\ m.from = uci.from /\ m.to = uci.to
                 /\ "promotion" \in m.flags => m.promotion = uci.promotion}
=============================================================================
