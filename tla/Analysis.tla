------------------------------ MODULE Analysis ------------------------------
(* Reading a game and reviewing it: the moves of a PGN played on a board, the *)
(* analyzer's shallow and deep passes over them, the cache it shares with a   *)
(* client exploring positions, and the session each of the two holds with a   *)
(* Stockfish process over pipes.  The pool that lends the sessions is module  *)
(* EnginePool, the job that runs the passes module JobManager.                *)
EXTENDS Chess, SequencesExt

CONSTANTS
  Evaluations,   \* the scores of an answer's lines, best first, for the side to move
  Points,        \* expected_points in thousandths
  Threshold,     \* options_.candidate_threshold_cp
  MaxDeep,       \* options_.max_deep_candidates
  TopMistakes,   \* options_.top_mistakes
  Scopes         \* the first position of a behaviour's game, its number of plies, how many of
                 \* them are book, whether it is reviewed, the size of the cache, and bounds
                 \* on explored positions and on mishaps

ASSUME PointsAssumption ==
  /\ \A x \in DOMAIN Points : -x \in DOMAIN Points /\ Points[x] + Points[-x] = 1000
  /\ \A x, y \in DOMAIN Points : x < y => Points[x] < Points[y]
ASSUME OptionsAssumption == {MaxDeep, TopMistakes} \subseteq Nat
ASSUME ScopesAssumption ==
  \A s \in Scopes : /\ {s.entries, s.plies} \subseteq Nat
                    /\ IsPlacement(s.start.men) /\ s.start.side \in Colors

VARIABLES
  scope,      \* how far this behaviour goes
  board,      \* the board the game is read on
  game,       \* game.plies
  stage,      \* what has become of the game
  review,     \* the analysis as the job has it: after the shallow or after the deep pass
  work,       \* the locals of a pass: the plies still to ask about, the answer about the
              \* position before the next one, and the analysis being written
  session,    \* session[c]: the Stockfish object of client c and its process
  cache,      \* values_ and insertion_order_
  explored,   \* how many positions were explored
  mishaps

vars == <<scope, board, game, stage, review, work, session, cache, explored, mishaps>>

Clients == {"review", "explore"}
Nothing == [none |-> TRUE]
NoWork == [plies |-> <<>>, before |-> Nothing, moves |-> <<>>, mistakes |-> <<>>]
Fresh == [up |-> TRUE, search |-> Nothing, told |-> FALSE, stopped |-> FALSE, pipe |-> <<>>]
Stopped == [at |-> "idle", running |-> FALSE, process |-> Nothing, request |-> Nothing,
            latest |-> Nothing]
Started == [Stopped EXCEPT !.running = TRUE, !.process = Fresh]

Init ==
  /\ scope \in Scopes
  /\ board = FromFen(scope.start)
  /\ game = <<>> /\ stage = "reading"
  /\ review = [moves |-> <<>>, mistakes |-> <<>>] /\ work = NoWork
  /\ session = [c \in Clients |-> Stopped]
  /\ cache = [order |-> <<>>, values |-> <<>>]
  /\ explored = 0 /\ mishaps = 0

-----------------------------------------------------------------------------
(* parse_pgn: a token of the text is read as the legal move with that name. *)
ReadPly ==
  /\ stage = "reading" /\ Len(game) < scope.plies
  /\ LET legal == Legal(board) IN
     \E written \in legal : \E m \in Parsed(board, legal, San(board, legal, written)) :
       /\ board' = Make(board, m)
       /\ game' = Append(game, [move |-> m, before |-> Fen(board), after |-> Fen(board')])
  /\ UNCHANGED <<scope, stage, review, work, session, cache, explored, mishaps>>

FinishGame ==
  /\ stage = "reading" /\ game # <<>> /\ scope.review
  /\ stage' = "parsed"
  /\ UNCHANGED <<scope, board, game, review, work, session, cache, explored, mishaps>>

-----------------------------------------------------------------------------
(* The assessment of a move from the answers about the positions around it. *)
Clamped(score) == IF score > 1000 THEN 1000 ELSE IF score < -1000 THEN -1000 ELSE score
ForWhite(score, side) == IF side = "white" THEN score ELSE -score
ScoreForWhite(lines, side) == IF lines = <<>> THEN 0 ELSE ForWhite(lines[1], side)
Expected(white, side) == Points[ForWhite(Clamped(white), side)]

Balance(fen, side) == Material(fen.men, side) - Material(fen.men, Opposite(side))

Classified(loss) ==
  CASE loss <= 5   -> "best"
    [] loss <= 20  -> "excellent"
    [] loss <= 50  -> "good"
    [] loss <= 100 -> "inaccuracy"
    [] loss <= 200 -> "mistake"
    [] OTHER       -> "blunder"
Negative == {"inaccuracy", "mistake", "blunder"}
NotLess(a, b) == IF a >= b THEN a ELSE b

Assessed(i, before, after, state) ==
  LET ply   == game[i]
      mover == ply.before.side
      white == ScoreForWhite(before.lines, mover)
      then  == ScoreForWhite(after.lines, Opposite(mover))
      ahead == Expected(white, mover)
      lost  == NotLess(0, ahead - Expected(then, mover))
      good  == {k \in DOMAIN before.lines :
                  ahead - Expected(ForWhite(before.lines[k], mover), mover) <= 20}
  IN [loss |-> NotLess(0, ForWhite(white, mover) - ForWhite(then, mover)), ahead |-> ahead,
      lost |-> lost, gain |-> Balance(ply.after, mover) - Balance(ply.before, mover),
      forced |-> before.lines # <<>> /\ Cardinality(good) <= 1 /\ ahead \in 200..850,
      state |-> state,
      quality |-> IF i <= scope.book /\ lost <= 50 THEN "book" ELSE Classified(lost),
      of |-> <<before, after>>]

-----------------------------------------------------------------------------
(* The cache: answers by the hash of their position and the depth asked for.  *)
Key(request) == [hash |-> FromFen(request.fen).hash, deep |-> request.deep]

Put(key, answer) ==
  LET kept == IF Len(cache.order) < scope.entries THEN cache.order ELSE Tail(cache.order)
  IN IF key \in DOMAIN cache.values
     THEN [cache EXCEPT !.values[key] = answer]
     ELSE IF scope.entries = 0 THEN cache
     ELSE [order |-> Append(kept, key),
           values |-> [k \in ToSet(kept) \cup {key} |->
                         IF k = key THEN answer ELSE cache.values[k]]]

-----------------------------------------------------------------------------
(* The two passes.  What a pass does with an answer, up to its next question. *)
StablySorted(s, Before(_, _)) ==
  LET Earlier(i, j) == Before(s[i], s[j]) \/ (~Before(s[j], s[i]) /\ i < j)
      order == SetToSortSeq(DOMAIN s, Earlier)
  IN [k \in DOMAIN s |-> s[order[k]]]
First(s, n) == SubSeq(s, 1, IF Len(s) < n THEN Len(s) ELSE n)

Candidates ==
  LET m       == review.moves
      chosen  == SelectSeq([i \in DOMAIN m |-> i],
                           LAMBDA i : \/ m[i].quality \in Negative \/ m[i].gain <= -300
                                      \/ m[i].forced \/ m[i].loss >= Threshold)
      Wrong(i) == IF m[i].quality \in Negative THEN 1 ELSE 0
      Graver(i, j) == Wrong(i) > Wrong(j) \/ (Wrong(i) = Wrong(j) /\ m[i].loss > m[j].loss)
  IN First(StablySorted(chosen, Graver), MaxDeep)

Heavier(a, b) == a.loss > b.loss

(* Fault: the list is cut before it is sorted. *)
RankedLate(found) ==
  LET top == StablySorted(First(found, TopMistakes), Heavier)
  IN [k \in DOMAIN top |-> top[k] @@ [rank |-> k]]

Ranked(found) ==
  LET top == First(StablySorted(found, Heavier), TopMistakes)
  IN [k \in DOMAIN top |-> top[k] @@ [rank |-> k]]

Continue(w) ==
  IF w.plies # <<>> THEN work' = w /\ UNCHANGED <<stage, review>>
  ELSE /\ work' = NoWork
       /\ stage' = IF stage = "shallow" THEN "stored" ELSE "done"
       /\ review' = IF stage = "shallow" THEN [moves |-> w.moves, mistakes |-> <<>>]
                    ELSE [moves |-> [i \in DOMAIN w.moves |-> [w.moves[i] EXCEPT !.state = "final"]],
                          mistakes |-> Ranked(w.mistakes)]

AssessShallow(i, answer) ==
  Continue([plies |-> Tail(work.plies), before |-> Nothing, mistakes |-> <<>>,
            moves |-> Append(work.moves, Assessed(i, work.before, answer, "provisional"))])

(* The classifier's category is abstracted to whether it is a missed opportunity. *)
Errors == Negative \cup {"miss"}
AssessDeep(i, answer) ==
  LET a == Assessed(i, work.before, answer, "final") IN
  \E quality \in {a.quality} \cup (IF a.quality # "book" /\ a.lost > 50 THEN {"miss"} ELSE {}) :
    Continue([plies |-> Tail(work.plies), before |-> Nothing,
              moves |-> [work.moves EXCEPT ![i] = [a EXCEPT !.quality = quality]],
              mistakes |-> IF quality \in Errors
                           THEN Append(work.mistakes, [ply |-> i, loss |-> a.loss])
                           ELSE work.mistakes])

Answered(c, answer) ==
  IF c = "explore" THEN explored' = explored + 1 /\ UNCHANGED <<stage, review, work>>
  ELSE /\ UNCHANGED explored
       /\ IF work.before = Nothing
          THEN work' = [work EXCEPT !.before = answer] /\ UNCHANGED <<stage, review>>
          ELSE IF stage = "shallow" THEN AssessShallow(Head(work.plies), answer)
          ELSE AssessDeep(Head(work.plies), answer)

(* An error leaves the pass; the job may run it again from what it has. *)
Failed(c) ==
  IF c = "explore" THEN explored' = explored + 1 /\ UNCHANGED <<stage, review, work>>
  ELSE /\ stage' = IF stage = "shallow" THEN "parsed" ELSE "stored"
       /\ work' = NoWork
       /\ UNCHANGED <<review, explored>>

StartShallow ==
  /\ stage = "parsed"
  /\ stage' = "shallow"
  /\ work' = [NoWork EXCEPT !.plies = [i \in DOMAIN game |-> i]]
  /\ UNCHANGED <<scope, board, game, review, session, cache, explored, mishaps>>

StartDeep ==
  /\ stage = "stored"
  /\ LET w == [NoWork EXCEPT !.plies = Candidates, !.moves = review.moves] IN
     IF w.plies = <<>>
     THEN /\ stage' = "done" /\ work' = NoWork
          /\ review' = [review EXCEPT !.moves = [i \in DOMAIN @ |-> [@[i] EXCEPT !.state = "final"]]]
     ELSE stage' = "deep" /\ work' = w /\ UNCHANGED review
  /\ UNCHANGED <<scope, board, game, session, cache, explored, mishaps>>

-----------------------------------------------------------------------------
(* The session: Stockfish::analyze and the process at the other end.          *)
Requests(c) ==
  IF c = "explore"
  THEN {[fen |-> game[i].before, deep |-> TRUE] :
          i \in {i \in DOMAIN game : stage # "reading" /\ explored < scope.explores}}
  ELSE {[fen |-> IF work.before = Nothing THEN game[Head(work.plies)].before
                 ELSE game[Head(work.plies)].after, deep |-> stage = "deep"] :
          w \in {work} \ {NoWork}}

(* Fault: the process is replaced only if it has gone. *)
RestartedIfGone(s) ==
  IF s.process.up
  THEN {[s EXCEPT !.at = "idle", !.request = Nothing, !.latest = Nothing]}
  ELSE {Stopped, Started}

(* restart: the process and its pipes are new, or starting one failed. *)
Restarted(s) == {Stopped, Started}

(* The error reaches the caller and, when pipes or process failed, a restart. *)
Broken(c) ==
  /\ \E s \in Restarted(session[c]) : session' = [session EXCEPT ![c] = s]
  /\ Failed(c)

Ask(c) ==
  /\ session[c].at = "idle"
  /\ \E request \in Requests(c) :
       IF Key(request) \in DOMAIN cache.values
       THEN Answered(c, cache.values[Key(request)]) /\ UNCHANGED session
       ELSE LET s == IF session[c].running THEN session[c] ELSE Started IN
            IF s.process.up
            THEN /\ session' = [session EXCEPT ![c] =
                      [s EXCEPT !.at = "reading", !.request = request,
                                !.process.search = request.fen]]
                 /\ UNCHANGED <<stage, review, work, explored>>
            ELSE Broken(c)
  /\ UNCHANGED <<scope, board, game, cache, mishaps>>

StartFails(c) ==
  /\ session[c].at = "idle" /\ ~session[c].running /\ mishaps < scope.mishaps
  /\ \E request \in Requests(c) : Key(request) \notin DOMAIN cache.values
  /\ Failed(c)
  /\ mishaps' = mishaps + 1
  /\ UNCHANGED <<scope, board, game, session, cache>>

(* The first line in the pipe, if there is one. *)
NextLine(c) == ToSet(First(session[c].process.pipe, 1))

ReadInfo(c) ==
  /\ session[c].at = "reading"
  /\ \E line \in NextLine(c) :
       /\ ~line.best
       /\ session' = [session EXCEPT ![c].latest = line, ![c].process.pipe = Tail(@)]
  /\ UNCHANGED <<scope, board, game, stage, review, work, cache, explored, mishaps>>

ReadBest(c) ==
  /\ session[c].at = "reading"
  /\ \E line \in NextLine(c) :
       LET told   == session[c].latest
           answer == [deep |-> session[c].request.deep, best |-> line.fen, fen |-> IF told = Nothing THEN line.fen ELSE told.fen,
                      lines |-> IF told = Nothing THEN <<>> ELSE told.lines]
       IN /\ line.best
          /\ session' = [session EXCEPT ![c] =
               [session[c] EXCEPT !.at = "idle", !.request = Nothing, !.latest = Nothing,
                                  !.process.pipe = Tail(@)]]
          /\ cache' = Put(Key(session[c].request), answer)
          /\ Answered(c, answer)
  /\ UNCHANGED <<scope, board, game, mishaps>>

(* The deadline passes or the token is stopped before a line is complete. *)
Interrupt(c) ==
  /\ session[c].at = "reading" /\ session[c].process.up /\ mishaps < scope.mishaps
  /\ session' = [session EXCEPT ![c].at = "draining", ![c].latest = Nothing,
                                ![c].process.stopped = session[c].process.search # Nothing]
  /\ mishaps' = mishaps + 1
  /\ UNCHANGED <<scope, board, game, stage, review, work, cache, explored>>

(* The pipe is at its end, or the command to stop cannot be written. *)
ProcessGone(c) ==
  /\ session[c].at = "reading" /\ ~session[c].process.up
  /\ Broken(c)
  /\ UNCHANGED <<scope, board, game, cache, mishaps>>

Drain(c) ==
  /\ session[c].at = "draining"
  /\ \E line \in NextLine(c) :
       LET rest == [session[c] EXCEPT !.process.pipe = Tail(@)] IN
       IF line.best
       THEN /\ session' = [session EXCEPT ![c] = [rest EXCEPT !.at = "idle", !.request = Nothing]]
            /\ Failed(c)
       ELSE /\ session' = [session EXCEPT ![c] = rest]
            /\ UNCHANGED <<stage, review, work, explored>>
  /\ UNCHANGED <<scope, board, game, cache, mishaps>>

DrainFails(c) ==
  /\ session[c].at = "draining"
  /\ Broken(c)
  /\ UNCHANGED <<scope, board, game, cache, mishaps>>

(* The process: it tells of the search, ends it with its best move, or dies. *)
Lines(fen) ==
  LET p == FromFen(fen) IN
  IF Legal(p) # {} THEN Evaluations
  ELSE {<<IF InCheck(p.men, p.side) THEN -100000 ELSE 0>>}

Tell(c) ==
  LET process == session[c].process IN
  /\ session[c].running /\ process.up /\ process.search # Nothing /\ ~process.told
  /\ \E lines \in Lines(process.search) :
       session' = [session EXCEPT ![c].process =
         [process EXCEPT !.told = TRUE,
            !.pipe = Append(@, [best |-> FALSE, fen |-> process.search, lines |-> lines])]]
  /\ UNCHANGED <<scope, board, game, stage, review, work, cache, explored, mishaps>>

BestMove(c) ==
  LET process == session[c].process IN
  /\ session[c].running /\ process.up /\ process.search # Nothing
  /\ process.told \/ process.stopped
  /\ session' = [session EXCEPT ![c].process =
       [Fresh EXCEPT !.pipe = Append(process.pipe, [best |-> TRUE, fen |-> process.search,
                                                    lines |-> <<>>])]]
  /\ UNCHANGED <<scope, board, game, stage, review, work, cache, explored, mishaps>>

Die(c) ==
  /\ session[c].running /\ session[c].process.up /\ mishaps < scope.mishaps
  /\ session' = [session EXCEPT ![c].process.up = FALSE]
  /\ mishaps' = mishaps + 1
  /\ UNCHANGED <<scope, board, game, stage, review, work, cache, explored>>

Next ==
  \/ ReadPly \/ FinishGame \/ StartShallow \/ StartDeep
  \/ \E c \in Clients :
       \/ Ask(c) \/ StartFails(c) \/ ReadInfo(c) \/ ReadBest(c)
       \/ Interrupt(c) \/ ProcessGone(c) \/ Drain(c) \/ DrainFails(c)
       \/ Tell(c) \/ BestMove(c) \/ Die(c)

Spec == Init /\ [][Next]_vars

-----------------------------------------------------------------------------
(* What the board promises at every position of a game. *)

(* is_square_attacked scans outwards from the square, move generation from the  *)
(* pieces: they agree on every man of either colour, whoever is to move         *)
(* (board.cpp:145, 370).                                                        *)
AttacksAreCaptures ==
  \A s \in DOMAIN board.men :
    LET enemy == Opposite(board.men[s].color)
        turn  == [board EXCEPT !.side = enemy, !.ep = NoSquare]
    IN Attacked(board.men, s, enemy) <=> \E m \in PseudoLegal(turn) : m.to = s

(* A right to castle outlives neither its king's nor its rook's stay at home,   *)
(* whoever moved or took them (board.cpp:468).                                  *)
RightsAreReal ==
  \A c \in Castlings :
    c.right \in board.rights =>
      Is(board.men, c.king, c.color, "king") /\ Is(board.men, c.rook, c.color, "rook")

(* Both kings stay on the board through any series of legal moves, the board is *)
(* what it was after any of them is made and unmade, history and hash included, *)
(* and its FEN reads back (board.cpp:407, 430, 498; fen.cpp:38).                *)
BoardSound ==
  /\ AttacksAreCaptures
  /\ RightsAreReal
  /\ ReadsBack(Fen(board))
  /\ \A m \in Legal(board) : Unmake(Make(board, m), m, Undo(board, m)) = board

(* No two legal moves of a position have the same name, in SAN or in UCI, so a  *)
(* game read from its text is the game that was played and an engine's move is  *)
(* the move it meant (san.cpp:49, board.cpp:420).                               *)
NamesAreUnique ==
  LET legal == Legal(board) IN
  \A m \in legal : /\ Parsed(board, legal, San(board, legal, m)) = {m}
                   /\ Found(legal, Uci(m)) = {m}

(* Every answer, kept in the cache or used in an assessment, is the engine's    *)
(* answer about that very position: neither its best move nor its lines are     *)
(* left from a search that was stopped, timed out or lost with its process, and *)
(* the cache's two structures agree within its limit                            *)
(* (stockfish.cpp:356, analyzer.cpp:547, 568, 617).                             *)
About(answer, hash) ==
  FromFen(answer.best).hash = hash /\ FromFen(answer.fen).hash = hash
AnswersMatch ==
  /\ \A key \in DOMAIN cache.values : About(cache.values[key], key.hash)
  /\ \A m \in {review.moves, work.moves} : \A i \in DOMAIN m :
       /\ About(m[i].of[1], FromFen(game[i].before).hash)
       /\ About(m[i].of[2], FromFen(game[i].after).hash)
  /\ ToSet(cache.order) = DOMAIN cache.values
  /\ Len(cache.order) = Cardinality(ToSet(cache.order)) /\ Len(cache.order) <= scope.entries

(* README.md:19, "bounded deep analysis of the most important mistakes": what a *)
(* review reports are its gravest errors in order, each once and ranked by      *)
(* place, none graver left out, whatever was found in which order; a move that  *)
(* is called an error without a deep look is one the bound of MaxDeep cut off,  *)
(* and no move is left provisional (analyzer.cpp:731, 811, 863).                *)
Looked == {i \in DOMAIN review.moves : \A p \in {1, 2} : review.moves[i].of[p].deep}
ReviewConsistent ==
  stage = "done" =>
    LET m == review.moves
        r == review.mistakes
        reported == {r[k].ply : k \in DOMAIN r}
    IN /\ Len(r) <= TopMistakes /\ Cardinality(reported) = Len(r)
       /\ \A k \in DOMAIN r : /\ r[k].rank = k /\ r[k].loss = m[r[k].ply].loss
                              /\ m[r[k].ply].quality \in Errors
       /\ \A k, l \in DOMAIN r : k < l => r[k].loss >= r[l].loss
       /\ \A i \in Looked \ reported :
            m[i].quality \in Errors =>
              Len(r) = TopMistakes /\ \A k \in DOMAIN r : r[k].loss >= m[i].loss
       /\ \A i \in DOMAIN m \ Looked :
            m[i].quality \in Errors => Cardinality(Looked) = MaxDeep
       /\ \A i \in DOMAIN m : m[i].state = "final"
=============================================================================
