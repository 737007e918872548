--------------------------- MODULE AnalysisProofs ---------------------------
(* The answers of the engine stay with their positions in Analysis, for every *)
(* set of games, sizes of the cache, scores, bounds on the deep pass and      *)
(* number of mishaps: what the processes say, where the sessions stop reading *)
(* and what the two clients put into the cache and take from it. The board    *)
(* the moves of a game are read on stays sound, and no two legal moves of it  *)
(* have one name: that part starts at what moves look like.                   *)
EXTENDS Analysis, SequenceTheorems, FiniteSetTheorems, TLAPS

-----------------------------------------------------------------------------
(* Lists: sequences of whatever elements they have.                           *)

IsList(s) == s \in Seq(ToSet(s))

LEMMA EmptyList == IsList(<<>>) /\ DOMAIN <<>> = {} /\ Len(<<>>) = 0 /\ ToSet(<<>>) = {}
BY DEF IsList, ToSet

LEMMA ListOf == ASSUME NEW S, NEW s \in Seq(S) PROVE IsList(s)
<1>1. Len(s) \in Nat /\ DOMAIN s = 1..Len(s) /\ s \in [1..Len(s) -> S]
  BY LenProperties
<1>2. s \in [1..Len(s) -> ToSet(s)]
  BY <1>1 DEF ToSet
<1>. QED  BY <1>1, <1>2, SeqDef DEF IsList

LEMMA ListPlaces ==
  ASSUME NEW s, IsList(s)
  PROVE  /\ Len(s) \in Nat /\ DOMAIN s = 1..Len(s)
         /\ s # <<>> => Len(s) >= 1
         /\ Len(s) >= 1 => s # <<>>
         /\ \A i \in DOMAIN s : s[i] \in ToSet(s)
BY LenProperties, EmptySeq DEF IsList, ToSet

LEMMA AppendList ==
  ASSUME NEW s, IsList(s), NEW e
  PROVE  /\ IsList(Append(s, e)) /\ Len(Append(s, e)) = Len(s) + 1
         /\ DOMAIN Append(s, e) = 1..Len(s) + 1
         /\ Append(s, e)[Len(s) + 1] = e
         /\ \A i \in 1..Len(s) : Append(s, e)[i] = s[i]
         /\ ToSet(Append(s, e)) = ToSet(s) \cup {e}
<1>. DEFINE T == ToSet(s) \cup {e}
            a == Append(s, e)
<1>1. Len(s) \in Nat /\ DOMAIN s = 1..Len(s) /\ s \in Seq(T) /\ e \in T
  BY ListPlaces, SeqMonotonic DEF IsList
<1>2. /\ a \in Seq(T) /\ Len(a) = Len(s) + 1 /\ a[Len(s) + 1] = e
      /\ \A i \in 1..Len(s) : a[i] = s[i]
  BY <1>1, AppendProperties
<1>3. IsList(a) /\ DOMAIN a = 1..Len(s) + 1
  BY <1>2, ListOf, LenProperties
<1>4. ToSet(a) = T
  <2>1. \A i \in DOMAIN a : a[i] \in T
    BY <1>1, <1>2, <1>3 DEF ToSet
  <2>2. \A x \in ToSet(s) : \E i \in DOMAIN a : a[i] = x
    BY <1>1, <1>2, <1>3 DEF ToSet
  <2>3. Len(s) + 1 \in DOMAIN a
    BY <1>1, <1>3
  <2>. QED  BY <1>2, <2>1, <2>2, <2>3 DEF ToSet
<1>. QED  BY <1>2, <1>3, <1>4

LEMMA TailList ==
  ASSUME NEW s, IsList(s), s # <<>>
  PROVE  /\ IsList(Tail(s)) /\ Len(Tail(s)) = Len(s) - 1
         /\ DOMAIN Tail(s) = 1..Len(s) - 1
         /\ \A i \in 1..Len(s) - 1 : Tail(s)[i] = s[i + 1]
         /\ ToSet(Tail(s)) \subseteq ToSet(s)
         /\ 1 \in DOMAIN s /\ Head(s) = s[1]
         /\ Len(s) = 1 => Tail(s) = <<>>
<1>1. Len(s) \in Nat /\ Len(s) >= 1 /\ DOMAIN s = 1..Len(s)
  BY ListPlaces
<1>2. /\ Tail(s) \in Seq(ToSet(s)) /\ Len(Tail(s)) = Len(s) - 1
      /\ \A i \in 1..Len(Tail(s)) : Tail(s)[i] = s[i + 1]
  BY HeadTailProperties DEF IsList
<1>3. IsList(Tail(s)) /\ DOMAIN Tail(s) = 1..Len(s) - 1
  BY <1>2, ListOf, LenProperties
<1>4. ToSet(Tail(s)) \subseteq ToSet(s)
  BY <1>1, <1>2, <1>3 DEF ToSet
<1>5. Len(s) = 1 => Tail(s) = <<>>
  BY <1>1, <1>2, <1>3, ListPlaces
<1>6. Head(s) = s[1]
  BY <1>1
<1>. QED  BY <1>1, <1>2, <1>3, <1>4, <1>5, <1>6

(* A list that repeats nothing has as many elements as places.                *)
LEMMA ListLength ==
  ASSUME NEW s, IsList(s), \A i, k \in DOMAIN s : s[i] = s[k] => i = k
  PROVE  Len(s) = Cardinality(ToSet(s))
<1>1. Len(s) \in Nat /\ DOMAIN s = 1..Len(s)
  BY ListPlaces
<1>2. s \in [1..Len(s) -> ToSet(s)]
  BY <1>1, LenProperties DEF IsList
<1>3. s \in Bijection(1..Len(s), ToSet(s))
  BY <1>1, <1>2 DEF Bijection, Injection, Surjection, IsInjective, ToSet
<1>4. ExistsBijection(1..Len(s), ToSet(s))
  BY <1>3 DEF ExistsBijection
<1>5. IsFiniteSet(1..Len(s)) /\ Cardinality(1..Len(s)) = Len(s)
  BY <1>1, FS_Interval
<1>. QED  BY <1>4, <1>5, FS_Bijection

(* The next line of a pipe is its first.                                      *)
LEMMA FirstOfList ==
  ASSUME NEW s, IsList(s), NEW e \in ToSet(First(s, 1))
  PROVE  s # <<>> /\ 1 \in DOMAIN s /\ e = s[1]
<1>1. Len(s) \in Nat /\ DOMAIN s = 1..Len(s) /\ s \in Seq(ToSet(s))
  BY ListPlaces DEF IsList
<1>2. CASE Len(s) < 1
  <2>1. First(s, 1) = <<>>
    BY <1>1, <1>2, SubSeqEmpty DEF First
  <2>. QED  BY <2>1, EmptyList
<1>3. CASE Len(s) >= 1
  <2>1. First(s, 1) = SubSeq(s, 1, 1)
    BY <1>1, <1>3 DEF First
  <2>2. \A i \in 1..1 : s[i] \in ToSet(s)
    BY <1>1, <1>3 DEF ToSet
  <2>3. /\ SubSeq(s, 1, 1) \in Seq(ToSet(s)) /\ Len(SubSeq(s, 1, 1)) = 1
        /\ SubSeq(s, 1, 1)[1] = s[1]
    BY <2>2, SubSeqProperties
  <2>4. ToSet(SubSeq(s, 1, 1)) = {s[1]}
    BY <2>3, LenProperties DEF ToSet
  <2>5. s # <<>>
    BY <1>3, ListPlaces
  <2>6. e \in {s[1]}
    BY <2>1, <2>4, Zenon
  <2>7. 1 \in DOMAIN s
    BY <1>1, <1>3
  <2>. QED  BY <2>5, <2>6, <2>7
<1>. QED  BY <1>1, <1>2, <1>3

-----------------------------------------------------------------------------
(* A session.  A process that is not being listened to has nothing to say; the *)
(* lines of one that is are about the request, and the best move is the last.  *)
(* While the session drains the pipe, lines of the search it gave up may come. *)

SessionFields == {"at", "running", "process", "request", "latest"}
ProcessFields == {"up", "search", "told", "stopped", "pipe"}

(* The best move ends the search.                                             *)
Ends(process) ==
  \A k \in DOMAIN process.pipe :
    process.pipe[k].best => k = Len(process.pipe) /\ process.search = Nothing

OfRequest(s) ==
  /\ \A k \in DOMAIN s.process.pipe : s.process.pipe[k].fen = s.request.fen
  /\ s.process.search \in {Nothing, s.request.fen}
  /\ s.latest = Nothing \/ s.latest.fen = s.request.fen

Tidy(s) ==
  /\ DOMAIN s = SessionFields
  /\ s.at \in {"idle", "reading", "draining"}
  /\ s.at # "reading" => s.latest = Nothing
  /\ s.at # "idle" => s.running
  /\ s.running => DOMAIN s.process = ProcessFields /\ IsList(s.process.pipe) /\ Ends(s.process)
  /\ s.running /\ s.at = "idle" => s.process.pipe = <<>> /\ s.process.search = Nothing
  /\ s.at = "reading" => OfRequest(s)

SessionsTidy == DOMAIN session = Clients /\ \A c \in Clients : Tidy(session[c])

(* The cache: each key is once in the order and has an answer about its       *)
(* position, and there are no more of them than allowed.                      *)
CacheSound ==
  /\ DOMAIN cache = {"order", "values"}
  /\ IsList(cache.order) /\ ToSet(cache.order) = DOMAIN cache.values
  /\ \A i, k \in DOMAIN cache.order : cache.order[i] = cache.order[k] => i = k
  /\ Len(cache.order) <= scope.entries
  /\ \A key \in DOMAIN cache.values : About(cache.values[key], key.hash)

(* The passes: an analysis of moves has the answers about the positions before *)
(* and after each; the pass waits for the answer about its next position.      *)
HashOf(fen) == FromFen(fen).hash

Right(m, plies) ==
  \A i \in DOMAIN m :
    /\ "of" \in DOMAIN m[i]
    /\ About(m[i].of[1], HashOf(plies[i].before))
    /\ About(m[i].of[2], HashOf(plies[i].after))

UnderWay == stage \in {"shallow", "deep"}
NextFen ==
  IF work.before = Nothing THEN game[Head(work.plies)].before ELSE game[Head(work.plies)].after

(* The shallow pass takes the moves in their order. *)
InOrder(w) ==
  /\ IsList(w.plies) /\ IsList(w.moves) /\ w.plies # <<>>
  /\ \A k \in DOMAIN w.plies : w.plies[k] = Len(w.moves) + k

WorkFields == {"plies", "before", "moves", "mistakes"}

PassSound ==
  /\ IsList(game) /\ Right(review.moves, game) /\ Right(work.moves, game)
  /\ IF stage = "reading" THEN review.moves = <<>> ELSE game # <<>>
  /\ ~UnderWay => work = NoWork
  /\ stage = "shallow" => InOrder(work)
  /\ DOMAIN work = WorkFields
  /\ DOMAIN review = {"moves", "mistakes"}
  /\ work.before = Nothing \/ About(work.before, HashOf(game[Head(work.plies)].before))

(* The review's session reads the answer the pass waits for.                  *)
Awaited ==
  /\ session["review"].at # "idle" => UnderWay
  /\ session["review"].at = "reading" => session["review"].request.fen = NextFen

Inv == scope \in Scopes /\ SessionsTidy /\ CacheSound /\ PassSound /\ Awaited

-----------------------------------------------------------------------------
(* What one session and its process do.                                       *)

LEMMA NewSessionsTidy ==
  \A s \in {Stopped, Started} : Tidy(s) /\ s.at = "idle"
<1>1. Tidy(Stopped) /\ Stopped.at = "idle"
  BY DEF Tidy, Stopped, SessionFields
<1>2. /\ Started.at = "idle" /\ DOMAIN Started = SessionFields /\ Started.latest = Nothing
      /\ Started.running /\ Started.process = Fresh
  BY DEF Started, Stopped, SessionFields
<1>3. DOMAIN Fresh = ProcessFields /\ Fresh.pipe = <<>> /\ Fresh.search = Nothing
  BY DEF Fresh, ProcessFields
<1>4. IsList(Fresh.pipe) /\ Ends(Fresh)
  BY <1>3, EmptyList DEF Ends
<1>5. Tidy(Started)
  BY <1>2, <1>3, <1>4 DEF Tidy
<1>. QED  BY <1>1, <1>2, <1>5

(* Asking: the pipe is empty, so every line to come is about the request.     *)
LEMMA AskedTidy ==
  ASSUME NEW s, Tidy(s), s.at = "idle", s.running, NEW request
  PROVE  LET t == [s EXCEPT !.at = "reading", !.request = request,
                            !.process.search = request.fen]
         IN Tidy(t) /\ t.at = "reading" /\ t.request = request
<1>. DEFINE t == [s EXCEPT !.at = "reading", !.request = request,
                           !.process.search = request.fen]
<1>1. /\ DOMAIN s = SessionFields /\ DOMAIN s.process = ProcessFields
      /\ s.process.pipe = <<>> /\ s.latest = Nothing
  BY DEF Tidy
<1>2. /\ DOMAIN t = SessionFields /\ t.at = "reading" /\ t.request = request
      /\ t.latest = Nothing /\ t.running = s.running
      /\ t.process = [s.process EXCEPT !.search = request.fen]
  BY <1>1 DEF SessionFields
<1>3. DOMAIN t.process = ProcessFields /\ t.process.pipe = <<>> /\ t.process.search = request.fen
  BY <1>1, <1>2 DEF ProcessFields
<1>4. IsList(t.process.pipe) /\ Ends(t.process) /\ OfRequest(t)
  BY <1>2, <1>3, EmptyList DEF Ends, OfRequest
<1>5. Tidy(t)
  BY <1>2, <1>3, <1>4 DEF Tidy
<1>. QED  BY <1>2, <1>5

(* Taking a line out of the pipe.                                             *)
LEMMA RestOfPipe ==
  ASSUME NEW process, DOMAIN process = ProcessFields, IsList(process.pipe), Ends(process),
         process.pipe # <<>>
  PROVE  LET q == [process EXCEPT !.pipe = Tail(@)]
             line == process.pipe[1]
         IN /\ DOMAIN q = ProcessFields /\ IsList(q.pipe) /\ Ends(q)
            /\ q.search = process.search
            /\ \A k \in DOMAIN q.pipe : \E j \in DOMAIN process.pipe : q.pipe[k] = process.pipe[j]
            /\ 1 \in DOMAIN process.pipe
            /\ line.best => q.pipe = <<>> /\ q.search = Nothing
<1>. DEFINE q == [process EXCEPT !.pipe = Tail(@)]
            n == Len(process.pipe)
<1>1. n \in Nat /\ n >= 1 /\ DOMAIN process.pipe = 1..n
  BY ListPlaces
<1>2. DOMAIN q = ProcessFields /\ q.pipe = Tail(process.pipe) /\ q.search = process.search
  BY DEF ProcessFields
<1>3. /\ IsList(q.pipe) /\ Len(q.pipe) = n - 1 /\ DOMAIN q.pipe = 1..n - 1
      /\ \A k \in 1..n - 1 : q.pipe[k] = process.pipe[k + 1]
      /\ n = 1 => q.pipe = <<>>
  BY <1>2, TailList
<1>4. \A k \in DOMAIN q.pipe : k + 1 \in DOMAIN process.pipe /\ q.pipe[k] = process.pipe[k + 1]
  BY <1>1, <1>3
<1>5. Ends(q)
  <2>. SUFFICES ASSUME NEW k \in DOMAIN q.pipe, q.pipe[k].best
                PROVE  k = Len(q.pipe) /\ q.search = Nothing
    BY DEF Ends
  <2>1. k + 1 \in DOMAIN process.pipe /\ process.pipe[k + 1].best
    BY <1>4
  <2>2. k + 1 = n /\ process.search = Nothing
    BY <2>1 DEF Ends
  <2>. QED  BY <1>1, <1>2, <1>3, <2>2
<1>6. ASSUME process.pipe[1].best  PROVE  q.pipe = <<>> /\ q.search = Nothing
  <2>1. 1 \in DOMAIN process.pipe
    BY <1>1
  <2>2. 1 = Len(process.pipe) /\ process.search = Nothing
    BY <2>1, <1>6, Zenon DEF Ends
  <2>. QED  BY <1>2, <1>3, <2>2
<1>7. 1 \in DOMAIN process.pipe
  BY <1>1
<1>. HIDE DEF q
<1>8. \A k \in DOMAIN q.pipe : \E j \in DOMAIN process.pipe : q.pipe[k] = process.pipe[j]
  BY <1>4
<1>. QED  BY <1>2, <1>3, <1>5, <1>6, <1>7, <1>8 DEF q

(* Reading and draining: an info line is noted or dropped, the best move leaves *)
(* the pipe empty.                                                              *)
LEMMA ReadTidy ==
  ASSUME NEW s, Tidy(s), s.at \in {"reading", "draining"},
         NEW line \in ToSet(First(s.process.pipe, 1))
  PROVE  /\ s.at = "reading" => line.fen = s.request.fen
         /\ s.at = "reading" => Tidy([s EXCEPT !.latest = line, !.process.pipe = Tail(@)])
         /\ s.at = "draining" => Tidy([s EXCEPT !.process.pipe = Tail(@)])
         /\ line.best => Tidy([s EXCEPT !.at = "idle", !.request = Nothing, !.latest = Nothing,
                                        !.process.pipe = Tail(@)])
<1>. DEFINE process == s.process
            q == [process EXCEPT !.pipe = Tail(@)]
            noted == [s EXCEPT !.latest = line, !.process.pipe = Tail(@)]
            dropped == [s EXCEPT !.process.pipe = Tail(@)]
            done == [s EXCEPT !.at = "idle", !.request = Nothing, !.latest = Nothing,
                              !.process.pipe = Tail(@)]
<1>1. /\ DOMAIN s = SessionFields /\ s.running /\ DOMAIN process = ProcessFields
      /\ IsList(process.pipe) /\ Ends(process)
  BY DEF Tidy
<1>2. process.pipe # <<>> /\ line = process.pipe[1]
  BY <1>1, FirstOfList
<1>3. /\ DOMAIN q = ProcessFields /\ IsList(q.pipe) /\ Ends(q) /\ q.search = process.search
      /\ \A k \in DOMAIN q.pipe : \E j \in DOMAIN process.pipe : q.pipe[k] = process.pipe[j]
      /\ 1 \in DOMAIN process.pipe
      /\ process.pipe[1].best => q.pipe = <<>> /\ q.search = Nothing
  BY ONLY <1>1, <1>2, RestOfPipe
<1>4. s.at = "reading" => OfRequest(s)
  BY DEF Tidy
<1>5. s.at = "reading" => line.fen = s.request.fen
  BY <1>2, <1>3, <1>4 DEF OfRequest
<1>6. ASSUME s.at = "reading"  PROVE  Tidy(noted)
  <2>1. /\ DOMAIN noted = SessionFields /\ noted.at = "reading" /\ noted.running = s.running
        /\ noted.latest = line /\ noted.request = s.request /\ noted.process = q
    BY <1>1, <1>6 DEF SessionFields
  <2>2. OfRequest(noted)
    <3>. HIDE DEF q, noted
    <3>1. \A k \in DOMAIN q.pipe : q.pipe[k].fen = s.request.fen
      BY <1>3, <1>4, <1>6 DEF OfRequest
    <3>2. q.search \in {Nothing, s.request.fen}
      BY <1>3, <1>4, <1>6 DEF OfRequest
    <3>. QED  BY <1>5, <1>6, <2>1, <3>1, <3>2 DEF OfRequest
  <2>. HIDE DEF q, noted
  <2>. QED  BY <1>1, <1>3, <2>1, <2>2 DEF Tidy
<1>7. ASSUME s.at = "draining"  PROVE  Tidy(dropped)
  <2>1. /\ DOMAIN dropped = SessionFields /\ dropped.at = "draining"
        /\ dropped.running = s.running /\ dropped.latest = s.latest /\ dropped.process = q
    BY <1>1, <1>7 DEF SessionFields
  <2>2. s.latest = Nothing
    BY <1>7 DEF Tidy
  <2>. HIDE DEF q, dropped
  <2>. QED  BY <1>1, <1>3, <2>1, <2>2 DEF Tidy
<1>8. ASSUME line.best  PROVE  Tidy(done)
  <2>1. /\ DOMAIN done = SessionFields /\ done.at = "idle" /\ done.running = s.running
        /\ done.latest = Nothing /\ done.process = q
    BY <1>1 DEF SessionFields
  <2>2. q.pipe = <<>> /\ q.search = Nothing
    BY <1>2, <1>3, <1>8
  <2>. HIDE DEF q, done
  <2>. QED  BY <1>1, <1>3, <2>1, <2>2 DEF Tidy
<1>. QED  BY <1>5, <1>6, <1>7, <1>8

(* Giving up a search: what the process says of it will be dropped.           *)
LEMMA InterruptedTidy ==
  ASSUME NEW s, Tidy(s), s.at = "reading", NEW stopped
  PROVE  Tidy([s EXCEPT !.at = "draining", !.latest = Nothing, !.process.stopped = stopped])
<1>. DEFINE t == [s EXCEPT !.at = "draining", !.latest = Nothing, !.process.stopped = stopped]
<1>1. /\ DOMAIN s = SessionFields /\ s.running /\ DOMAIN s.process = ProcessFields
      /\ IsList(s.process.pipe) /\ Ends(s.process)
  BY DEF Tidy
<1>2. /\ DOMAIN t = SessionFields /\ t.at = "draining" /\ t.running = s.running
      /\ t.latest = Nothing /\ t.process = [s.process EXCEPT !.stopped = stopped]
  BY <1>1 DEF SessionFields
<1>3. /\ DOMAIN t.process = ProcessFields /\ t.process.pipe = s.process.pipe
      /\ t.process.search = s.process.search
  BY <1>1, <1>2 DEF ProcessFields
<1>. HIDE DEF t
<1>4. Ends(t.process)
  BY <1>1, <1>3 DEF Ends
<1>5. Tidy(t)
  BY <1>1, <1>2, <1>3, <1>4 DEF Tidy
<1>. QED  BY <1>5 DEF t

(* The process of a session writes a line about its search.  A search goes on *)
(* only until its best move, so none is in the pipe before.                   *)
LEMMA LineTidy ==
  ASSUME NEW s, Tidy(s), s.running, s.process.search # Nothing,
         NEW line, line.fen = s.process.search,
         NEW process, DOMAIN process = ProcessFields,
         process.pipe = Append(s.process.pipe, line),
         process.search \in {Nothing, s.process.search},
         line.best => process.search = Nothing
  PROVE  Tidy([s EXCEPT !.process = process])
<1>. DEFINE t == [s EXCEPT !.process = process]
            old == s.process.pipe
            n == Len(old)
<1>1. /\ DOMAIN s = SessionFields /\ IsList(old) /\ Ends(s.process)
      /\ s.at # "idle" /\ s.at \in {"idle", "reading", "draining"}
      /\ s.at # "reading" => s.latest = Nothing
      /\ s.at = "reading" => OfRequest(s)
  BY DEF Tidy
<1>2. /\ DOMAIN t = SessionFields /\ t.at = s.at /\ t.running = s.running
      /\ t.latest = s.latest /\ t.request = s.request /\ t.process = process
  BY <1>1 DEF SessionFields
<1>3. /\ n \in Nat /\ DOMAIN old = 1..n
      /\ IsList(process.pipe) /\ Len(process.pipe) = n + 1
      /\ DOMAIN process.pipe = 1..n + 1 /\ process.pipe[n + 1] = line
      /\ \A k \in 1..n : process.pipe[k] = old[k]
  BY <1>1, ListPlaces, AppendList
<1>4. \A k \in DOMAIN process.pipe :
        \/ k = n + 1 /\ process.pipe[k] = line
        \/ k \in DOMAIN old /\ process.pipe[k] = old[k]
  BY <1>3
<1>. HIDE DEF n, t, old
<1>5. Ends(process)
  <2>. SUFFICES ASSUME NEW k \in DOMAIN process.pipe, process.pipe[k].best
                PROVE  k = Len(process.pipe) /\ process.search = Nothing
    BY DEF Ends
  <2>1. CASE k \in DOMAIN old /\ process.pipe[k] = old[k]
    BY <1>1, <2>1 DEF Ends, old
  <2>2. CASE k = n + 1 /\ process.pipe[k] = line
    <3>1. line.best
      BY <2>2
    <3>. QED  BY <1>3, <2>2, <3>1
  <2>. QED  BY <1>4, <2>1, <2>2
<1>6. ASSUME s.at = "reading"  PROVE  OfRequest(t)
  <2>1. /\ \A k \in DOMAIN old : old[k].fen = s.request.fen
        /\ s.process.search = s.request.fen
        /\ s.latest = Nothing \/ s.latest.fen = s.request.fen
    BY <1>1, <1>6 DEF OfRequest, old
  <2>2. \A k \in DOMAIN process.pipe : process.pipe[k].fen = s.request.fen
    BY <1>4, <2>1
  <2>. QED  BY <1>2, <2>1, <2>2 DEF OfRequest
<1>7. Tidy(t)
  BY <1>1, <1>2, <1>3, <1>5, <1>6 DEF Tidy
<1>. QED  BY <1>7 DEF t

LEMMA ToldTidy ==
  ASSUME NEW s, Tidy(s), s.running, s.process.search # Nothing, NEW lines
  PROVE  Tidy([s EXCEPT !.process =
                [s.process EXCEPT !.told = TRUE,
                   !.pipe = Append(@, [best |-> FALSE, fen |-> s.process.search,
                                       lines |-> lines])]])
<1>. DEFINE line == [best |-> FALSE, fen |-> s.process.search, lines |-> lines]
            process == [s.process EXCEPT !.told = TRUE, !.pipe = Append(@, line)]
<1>1. DOMAIN s.process = ProcessFields
  BY DEF Tidy
<1>2. /\ DOMAIN process = ProcessFields /\ process.pipe = Append(s.process.pipe, line)
      /\ process.search \in {Nothing, s.process.search}
      /\ line.fen = s.process.search /\ ~line.best
  BY <1>1 DEF ProcessFields
<1>3. Tidy([s EXCEPT !.process = process])
  <2>. HIDE DEF process, line
  <2>. QED  BY <1>2, LineTidy
<1>. QED  BY <1>3

LEMMA BestMoveTidy ==
  ASSUME NEW s, Tidy(s), s.running, s.process.search # Nothing
  PROVE  Tidy([s EXCEPT !.process =
                [Fresh EXCEPT !.pipe = Append(s.process.pipe,
                   [best |-> TRUE, fen |-> s.process.search, lines |-> <<>>])]])
<1>. DEFINE line == [best |-> TRUE, fen |-> s.process.search, lines |-> <<>>]
            process == [Fresh EXCEPT !.pipe = Append(s.process.pipe, line)]
<1>1. /\ DOMAIN process = ProcessFields /\ process.pipe = Append(s.process.pipe, line)
      /\ process.search = Nothing /\ line.fen = s.process.search
  BY DEF ProcessFields, Fresh
<1>2. Tidy([s EXCEPT !.process = process])
  <2>. HIDE DEF process, line
  <2>. QED  BY <1>1, LineTidy
<1>. QED  BY <1>2

LEMMA DeadTidy ==
  ASSUME NEW s, Tidy(s), s.running
  PROVE  Tidy([s EXCEPT !.process.up = FALSE])
<1>. DEFINE t == [s EXCEPT !.process.up = FALSE]
<1>1. /\ DOMAIN s = SessionFields /\ DOMAIN s.process = ProcessFields
      /\ IsList(s.process.pipe) /\ Ends(s.process)
  BY DEF Tidy
<1>2. /\ DOMAIN t = SessionFields /\ t.at = s.at /\ t.running = s.running
      /\ t.latest = s.latest /\ t.request = s.request
      /\ t.process = [s.process EXCEPT !.up = FALSE]
  BY <1>1 DEF SessionFields
<1>3. /\ DOMAIN t.process = ProcessFields /\ t.process.pipe = s.process.pipe
      /\ t.process.search = s.process.search
  BY <1>1, <1>2 DEF ProcessFields
<1>. HIDE DEF t
<1>4. Ends(t.process) /\ (s.at = "reading" => OfRequest(t))
  BY <1>1, <1>2, <1>3 DEF Ends, OfRequest, Tidy
<1>5. Tidy(t)
  BY <1>1, <1>2, <1>3, <1>4 DEF Tidy
<1>. QED  BY <1>5 DEF t

-----------------------------------------------------------------------------
(* Putting an answer into the cache: the oldest leaves when it is full.       *)
LEMMA PutSound ==
  ASSUME CacheSound, scope \in Scopes, NEW key, NEW answer, About(answer, key.hash),
         cache' = Put(key, answer), scope' = scope
  PROVE  CacheSound'
<1>. DEFINE order == cache.order
            values == cache.values
            kept == IF Len(order) < scope.entries THEN order ELSE Tail(order)
            added == [k \in ToSet(kept) \cup {key} |-> IF k = key THEN answer ELSE values[k]]
<1>1. /\ DOMAIN cache = {"order", "values"} /\ IsList(order) /\ ToSet(order) = DOMAIN values
      /\ \A i, k \in DOMAIN order : order[i] = order[k] => i = k
      /\ Len(order) <= scope.entries /\ scope.entries \in Nat
      /\ \A k \in DOMAIN values : About(values[k], k.hash)
  BY ScopesAssumption DEF CacheSound
<1>2. CASE key \in DOMAIN values
  <2>1. cache' = [cache EXCEPT !.values[key] = answer]
    BY <1>2 DEF Put
  <2>2. /\ DOMAIN cache' = {"order", "values"} /\ cache'.order = order
        /\ cache'.values = [values EXCEPT ![key] = answer]
    BY <1>1, <2>1
  <2>3. /\ DOMAIN cache'.values = DOMAIN values
        /\ \A k \in DOMAIN values : cache'.values[k] = IF k = key THEN answer ELSE values[k]
    BY <1>2, <2>2
  <2>. HIDE DEF order, values
  <2>4. \A k \in DOMAIN cache'.values : About(cache'.values[k], k.hash)
    BY <1>1, <2>3
  <2>. QED  BY <1>1, <2>2, <2>3, <2>4 DEF CacheSound
<1>3. CASE key \notin DOMAIN values /\ scope.entries = 0
  <2>1. cache' = cache
    BY <1>3 DEF Put
  <2>. QED  BY <2>1 DEF CacheSound
<1>4. CASE key \notin DOMAIN values /\ scope.entries # 0
  <2>1. cache' = [order |-> Append(kept, key), values |-> added]
    BY <1>4 DEF Put
  <2>2. /\ DOMAIN cache' = {"order", "values"} /\ cache'.order = Append(kept, key)
        /\ cache'.values = added
    BY <2>1
  <2>. HIDE DEF order, values
  <2>3. /\ IsList(kept) /\ Len(kept) \in Nat /\ Len(kept) + 1 <= scope.entries
        /\ ToSet(kept) \subseteq ToSet(order)
        /\ DOMAIN kept = 1..Len(kept)
        /\ \A i, k \in DOMAIN kept : kept[i] = kept[k] => i = k
    <3>1. CASE Len(order) < scope.entries
      BY <1>1, <3>1, ListPlaces
    <3>2. CASE ~(Len(order) < scope.entries)
      <4>1. Len(order) \in Nat /\ Len(order) = scope.entries /\ Len(order) >= 1
            /\ DOMAIN order = 1..Len(order)
        BY <1>1, <1>4, <3>2, ListPlaces
      <4>2. order # <<>> /\ kept = Tail(order)
        BY <1>1, <3>2, <4>1, ListPlaces
      <4>3. /\ IsList(kept) /\ Len(kept) = Len(order) - 1 /\ DOMAIN kept = 1..Len(order) - 1
            /\ \A i \in 1..Len(order) - 1 : kept[i] = order[i + 1]
            /\ ToSet(kept) \subseteq ToSet(order)
        BY <1>1, <4>2, TailList
      <4>4. ASSUME NEW i \in DOMAIN kept, NEW k \in DOMAIN kept, kept[i] = kept[k]
            PROVE  i = k
        <5>1. /\ i + 1 \in DOMAIN order /\ k + 1 \in DOMAIN order
              /\ order[i + 1] = order[k + 1] /\ i \in Int /\ k \in Int
          BY <4>1, <4>3, <4>4
        <5>2. i + 1 = k + 1
          BY <1>1, <5>1
        <5>. QED  BY <5>1, <5>2
      <4>. QED  BY <4>1, <4>3, <4>4
    <3>. QED  BY <3>1, <3>2
  <2>4. /\ DOMAIN added = ToSet(kept) \cup {key} /\ added[key] = answer
        /\ \A k \in ToSet(kept) : k # key /\ k \in DOMAIN values /\ added[k] = values[k]
    BY <1>1, <1>4, <2>3
  <2>. HIDE DEF kept, added
  <2>5. \A k \in DOMAIN added : About(added[k], k.hash)
    BY <1>1, <2>4
  <2>. DEFINE longer == Append(kept, key)
  <2>6. /\ IsList(longer) /\ Len(longer) = Len(kept) + 1 /\ DOMAIN longer = 1..Len(kept) + 1
        /\ longer[Len(kept) + 1] = key /\ ToSet(longer) = ToSet(kept) \cup {key}
        /\ \A i \in 1..Len(kept) : longer[i] = kept[i]
    BY <2>3, AppendList
  <2>. HIDE DEF longer
  <2>7. \A i \in DOMAIN kept : kept[i] # key
    BY <2>4 DEF ToSet
  <2>8. \A i \in DOMAIN longer : \/ i = Len(kept) + 1 /\ longer[i] = key
                                 \/ i \in DOMAIN kept /\ longer[i] = kept[i]
    BY <2>3, <2>6
  <2>9. \A i, k \in DOMAIN longer : longer[i] = longer[k] => i = k
    BY <2>3, <2>7, <2>8
  <2>10. cache'.order = longer
    BY <2>2 DEF longer
  <2>. QED  BY <2>2, <2>3, <2>4, <2>5, <2>6, <2>9, <2>10 DEF CacheSound
<1>. QED  BY <1>2, <1>3, <1>4

-----------------------------------------------------------------------------
(* The passes.                                                                *)

LEMMA AssessedOf ==
  ASSUME NEW i, NEW before, NEW after, NEW state
  PROVE  /\ "of" \in DOMAIN Assessed(i, before, after, state)
         /\ Assessed(i, before, after, state).of = <<before, after>>
BY DEF Assessed

(* A pass goes on, or hands its analysis over.                                *)
LEMMA ContinueSound ==
  ASSUME PassSound, UnderWay, game' = game,
         NEW w, DOMAIN w = WorkFields, w.before = Nothing, Right(w.moves, game),
         stage = "shallow" /\ w.plies # <<>> => InOrder(w),
         Continue(w)
  PROVE  PassSound'
<1>1. IsList(game) /\ Right(review.moves, game) /\ Right(NoWork.moves, game)
  BY EmptyList DEF PassSound, NoWork, Right
<1>2. CASE w.plies # <<>>
  <2>1. work' = w /\ stage' = stage /\ review' = review
    BY <1>2 DEF Continue
  <2>. QED  BY <1>1, <1>2, <2>1 DEF PassSound, UnderWay
<1>3. CASE w.plies = <<>>
  <2>. DEFINE final == [i \in DOMAIN w.moves |-> [w.moves[i] EXCEPT !.state = "final"]]
  <2>1. /\ work' = NoWork
        /\ stage' \in {"stored", "done"}
        /\ \/ review' = [moves |-> w.moves, mistakes |-> <<>>]
           \/ review' = [moves |-> final, mistakes |-> Ranked(w.mistakes)]
    BY <1>3 DEF Continue
  <2>2. Right(final, game)
    BY DEF Right
  <2>. HIDE DEF final
  <2>3. DOMAIN review' = {"moves", "mistakes"} /\ review'.moves \in {w.moves, final}
    BY <2>1
  <2>4. Right(review'.moves, game')
    BY <2>2, <2>3
  <2>5. DOMAIN NoWork = WorkFields /\ NoWork.before = Nothing
    BY DEF NoWork, WorkFields
  <2>. QED  BY <1>1, <2>1, <2>3, <2>4, <2>5 DEF PassSound, UnderWay
<1>. QED  BY <1>2, <1>3

(* The review's client gets the answer it waited for.                         *)
LEMMA ReviewAnswered ==
  ASSUME PassSound, UnderWay, game' = game,
         NEW answer, About(answer, HashOf(NextFen)), Answered("review", answer)
  PROVE  PassSound'
<1>. DEFINE i == Head(work.plies)
<1>1. /\ IsList(game) /\ Right(review.moves, game) /\ Right(work.moves, game)
      /\ DOMAIN work = WorkFields
      /\ stage = "shallow" => InOrder(work)
  BY DEF PassSound
<1>2. CASE work.before = Nothing
  <2>1. work' = [work EXCEPT !.before = answer] /\ UNCHANGED <<stage, review>>
    BY <1>2 DEF Answered
  <2>2. /\ DOMAIN work' = WorkFields /\ work'.plies = work.plies /\ work'.moves = work.moves
        /\ work'.before = answer
    BY <1>1, <2>1 DEF WorkFields
  <2>3. About(answer, HashOf(game[i].before))
    BY <1>2 DEF NextFen
  <2>. HIDE DEF i
  <2>4. stage = "shallow" => InOrder(work')
    BY <1>1, <2>2 DEF InOrder
  <2>5. About(work'.before, HashOf(game'[Head(work'.plies)].before))
    BY <2>2, <2>3 DEF i
  <2>. QED  BY <1>1, <2>1, <2>2, <2>4, <2>5 DEF PassSound, UnderWay
<1>3. CASE work.before # Nothing
  <2>1. /\ About(work.before, HashOf(game[i].before))
        /\ About(answer, HashOf(game[i].after))
    BY <1>3 DEF PassSound, NextFen
  <2>2. CASE stage = "shallow"
    <3>. DEFINE a == Assessed(i, work.before, answer, "provisional")
                w == [plies |-> Tail(work.plies), before |-> Nothing, mistakes |-> <<>>,
                      moves |-> Append(work.moves, a)]
    <3>1. Continue(w)
      BY <1>3, <2>2 DEF Answered, AssessShallow
    <3>2. /\ IsList(work.plies) /\ IsList(work.moves) /\ work.plies # <<>>
          /\ \A k \in DOMAIN work.plies : work.plies[k] = Len(work.moves) + k
      BY <1>1, <2>2 DEF InOrder
    <3>3. "of" \in DOMAIN a /\ a.of = <<work.before, answer>>
      BY AssessedOf
    <3>. HIDE DEF a
    <3>4. /\ DOMAIN w = WorkFields /\ w.before = Nothing /\ w.plies = Tail(work.plies)
          /\ w.moves = Append(work.moves, a)
      BY DEF WorkFields
    <3>. HIDE DEF w
    <3>5. /\ Len(work.plies) \in Nat /\ DOMAIN work.plies = 1..Len(work.plies)
          /\ IsList(w.plies) /\ DOMAIN w.plies = 1..Len(work.plies) - 1
          /\ \A k \in 1..Len(work.plies) - 1 : w.plies[k] = work.plies[k + 1]
          /\ 1 \in DOMAIN work.plies /\ i = work.plies[1]
      BY <3>2, <3>4, ListPlaces, TailList
    <3>6. /\ Len(work.moves) \in Nat /\ DOMAIN work.moves = 1..Len(work.moves)
          /\ IsList(w.moves) /\ Len(w.moves) = Len(work.moves) + 1
          /\ DOMAIN w.moves = 1..Len(work.moves) + 1 /\ w.moves[Len(work.moves) + 1] = a
          /\ \A k \in 1..Len(work.moves) : w.moves[k] = work.moves[k]
      BY <3>2, <3>4, ListPlaces, AppendList
    <3>. HIDE DEF i
    <3>7. i = Len(work.moves) + 1
      BY <3>2, <3>5, <3>6
    <3>8. w.plies # <<>> => InOrder(w)
      <4>1. ASSUME NEW k \in DOMAIN w.plies  PROVE  w.plies[k] = Len(w.moves) + k
        <5>1. /\ k \in Int /\ k + 1 \in DOMAIN work.plies
              /\ w.plies[k] = work.plies[k + 1]
          BY <3>5
        <5>2. work.plies[k + 1] = Len(work.moves) + (k + 1)
          BY <3>2, <5>1
        <5>3. Len(work.moves) \in Int /\ Len(w.moves) = Len(work.moves) + 1
          BY <3>6
        <5>. QED  BY ONLY <5>1, <5>2, <5>3
      <4>. QED  BY <3>5, <3>6, <4>1, Zenon DEF InOrder
    <3>9. Right(w.moves, game)
      <4>1. \A k \in DOMAIN w.moves : \/ k = i /\ w.moves[k] = a
                                      \/ k \in DOMAIN work.moves /\ w.moves[k] = work.moves[k]
        BY <3>6, <3>7
      <4>2. /\ About(a.of[1], HashOf(game[i].before))
            /\ About(a.of[2], HashOf(game[i].after))
        BY <2>1, <3>3
      <4>. QED  BY <1>1, <3>3, <4>1, <4>2 DEF Right
    <3>. QED  BY <3>1, <3>4, <3>8, <3>9, ContinueSound
  <2>3. CASE stage # "shallow"
    <3>1. PICK quality, mistakes :
            Continue([plies |-> Tail(work.plies), before |-> Nothing,
                      moves |-> [work.moves EXCEPT ![i] =
                        [Assessed(i, work.before, answer, "final") EXCEPT !.quality = quality]],
                      mistakes |-> mistakes])
      BY <1>3, <2>3 DEF Answered, AssessDeep
    <3>. DEFINE a == Assessed(i, work.before, answer, "final")
                b == [a EXCEPT !.quality = quality]
                w == [plies |-> Tail(work.plies), before |-> Nothing,
                      moves |-> [work.moves EXCEPT ![i] = b], mistakes |-> mistakes]
    <3>2. "of" \in DOMAIN a /\ a.of = <<work.before, answer>>
      BY AssessedOf
    <3>3. Continue(w)
      BY <3>1
    <3>. HIDE DEF a
    <3>4. "of" \in DOMAIN b /\ b.of = <<work.before, answer>>
      BY <3>2
    <3>. HIDE DEF b
    <3>5. /\ DOMAIN w = WorkFields /\ w.before = Nothing
          /\ w.moves = [work.moves EXCEPT ![i] = b]
      BY DEF WorkFields
    <3>6. Right(w.moves, game)
      <4>1. \A k \in DOMAIN w.moves : \/ k = i /\ w.moves[k] = b
                                      \/ k \in DOMAIN work.moves /\ w.moves[k] = work.moves[k]
        BY <3>5
      <4>2. /\ About(b.of[1], HashOf(game[i].before))
            /\ About(b.of[2], HashOf(game[i].after))
        BY <2>1, <3>4
      <4>. HIDE DEF w, i
      <4>. QED  BY <1>1, <3>4, <4>1, <4>2 DEF Right
    <3>. HIDE DEF w
    <3>. QED  BY <2>3, <3>3, <3>5, <3>6, ContinueSound
  <2>. QED  BY <2>2, <2>3
<1>. QED  BY <1>2, <1>3

(* A client that fails leaves its pass to be run again.                       *)
LEMMA ReviewFailed ==
  ASSUME PassSound, game' = game, stage # "reading", Failed("review")
  PROVE  PassSound' /\ ~UnderWay'
<1>1. /\ stage' \in {"parsed", "stored"} /\ work' = NoWork /\ review' = review
  BY DEF Failed
<1>2. /\ DOMAIN NoWork = WorkFields /\ NoWork.before = Nothing
      /\ Right(NoWork.moves, game)
  BY EmptyList DEF NoWork, WorkFields, Right
<1>. QED  BY <1>1, <1>2 DEF PassSound, UnderWay

(* Nothing the other client does reaches the passes.                          *)
LEMMA PassKept ==
  ASSUME PassSound, UNCHANGED <<stage, review, work, game>>
  PROVE  PassSound'
BY DEF PassSound, UnderWay

-----------------------------------------------------------------------------
(* The steps.                                                                 *)

LEMMA SessionsStay ==
  ASSUME SessionsTidy, NEW c \in Clients, NEW t, Tidy(t),
         session' = [session EXCEPT ![c] = t]
  PROVE  /\ SessionsTidy' /\ session'[c] = t
         /\ \A d \in Clients \ {c} : session'[d] = session[d]
BY DEF SessionsTidy

LEMMA CacheKept ==
  ASSUME CacheSound, UNCHANGED <<cache, scope>>
  PROVE  CacheSound'
BY DEF CacheSound

LEMMA AwaitedKept ==
  ASSUME Awaited, session'["review"] = session["review"], UNCHANGED <<stage, work, game>>
  PROVE  Awaited'
BY DEF Awaited, NextFen, UnderWay

(* A client has its answer, or has failed, and its session is free again.     *)
Freed(c) == session'[c].at = "idle" /\ \A d \in Clients \ {c} : session'[d] = session[d]

LEMMA AnsweredSound ==
  ASSUME Inv, NEW c \in Clients, NEW answer, Answered(c, answer), Freed(c), game' = game,
         c = "review" => UnderWay /\ About(answer, HashOf(NextFen))
  PROVE  PassSound' /\ Awaited'
<1>1. CASE c = "review"
  <2>1. PassSound'
    BY <1>1, ReviewAnswered DEF Inv
  <2>2. Awaited'
    BY <1>1 DEF Freed, Awaited
  <2>. QED  BY <2>1, <2>2
<1>2. CASE c = "explore"
  <2>1. UNCHANGED <<stage, review, work>>
    BY <1>2 DEF Answered
  <2>2. session'["review"] = session["review"]
    BY <1>2 DEF Freed, Clients
  <2>. QED  BY <2>1, <2>2, PassKept, AwaitedKept DEF Inv
<1>. QED  BY <1>1, <1>2 DEF Clients

LEMMA FailedSound ==
  ASSUME Inv, NEW c \in Clients, Failed(c), Freed(c), game' = game,
         c = "review" => UnderWay
  PROVE  PassSound' /\ Awaited'
<1>1. CASE c = "review"
  <2>1. PassSound'
    BY <1>1, ReviewFailed DEF Inv, UnderWay
  <2>2. Awaited'
    BY <1>1 DEF Freed, Awaited
  <2>. QED  BY <2>1, <2>2
<1>2. CASE c = "explore"
  <2>1. UNCHANGED <<stage, review, work>>
    BY <1>2 DEF Failed
  <2>2. session'["review"] = session["review"]
    BY <1>2 DEF Freed, Clients
  <2>. QED  BY <2>1, <2>2, PassKept, AwaitedKept DEF Inv
<1>. QED  BY <1>1, <1>2 DEF Clients

LEMMA BrokenSound ==
  ASSUME Inv, NEW c \in Clients, Broken(c), UNCHANGED <<scope, game, cache>>,
         c = "review" => UnderWay
  PROVE  Inv'
<1>1. PICK s \in {Stopped, Started} : session' = [session EXCEPT ![c] = s]
  BY DEF Broken, Restarted
<1>2. Tidy(s) /\ s.at = "idle"
  BY NewSessionsTidy
<1>3. SessionsTidy' /\ Freed(c)
  BY <1>1, <1>2, SessionsStay DEF Inv, Freed
<1>4. Failed(c)
  BY DEF Broken
<1>5. PassSound' /\ Awaited'
  BY <1>3, <1>4, FailedSound
<1>6. CacheSound'
  BY CacheKept DEF Inv
<1>. QED  BY <1>3, <1>5, <1>6 DEF Inv

LEMMA ReadPlySound == ASSUME Inv, ReadPly PROVE Inv'
<1>1. PICK ply : game' = Append(game, ply)
  BY DEF ReadPly
<1>2. stage = "reading" /\ UNCHANGED <<scope, stage, review, work, session, cache>>
  BY DEF ReadPly
<1>3. IsList(game')
  BY <1>1, AppendList DEF Inv, PassSound
<1>4. review.moves = <<>> /\ work = NoWork
  BY <1>2 DEF Inv, PassSound, UnderWay
<1>5. Right(<<>>, game') /\ NoWork.moves = <<>> /\ NoWork.before = Nothing
  BY EmptyList DEF Right, NoWork
<1>6. PassSound'
  BY <1>2, <1>3, <1>4, <1>5 DEF Inv, PassSound, UnderWay
<1>7. session["review"].at = "idle"
  BY <1>2 DEF Inv, Awaited, UnderWay, SessionsTidy
<1>8. Awaited' /\ SessionsTidy'
  BY <1>2, <1>7 DEF Inv, Awaited, SessionsTidy
<1>. QED  BY <1>2, <1>6, <1>8, CacheKept DEF Inv

LEMMA FinishGameSound == ASSUME Inv, FinishGame PROVE Inv'
<1>1. stage = "reading" /\ stage' = "parsed" /\ game # <<>>
      /\ UNCHANGED <<scope, game, review, work, session, cache>>
  BY DEF FinishGame
<1>2. PassSound'
  BY <1>1 DEF Inv, PassSound, UnderWay
<1>3. Awaited' /\ SessionsTidy'
  BY <1>1 DEF Inv, Awaited, UnderWay, SessionsTidy
<1>. QED  BY <1>1, <1>2, <1>3, CacheKept DEF Inv

LEMMA StartShallowSound == ASSUME Inv, StartShallow PROVE Inv'
<1>. DEFINE plies == [i \in DOMAIN game |-> i]
            n == Len(game)
<1>1. stage = "parsed" /\ stage' = "shallow" /\ UNCHANGED <<scope, game, review, session, cache>>
      /\ work' = [NoWork EXCEPT !.plies = plies]
  BY DEF StartShallow
<1>2. /\ IsList(game) /\ game # <<>> /\ Right(review.moves, game)
      /\ DOMAIN review = {"moves", "mistakes"}
  BY <1>1 DEF Inv, PassSound
<1>3. n \in Nat /\ n >= 1 /\ DOMAIN game = 1..n
  BY <1>2, ListPlaces
<1>4. DOMAIN plies = 1..n /\ \A k \in 1..n : plies[k] = k
  BY <1>3
<1>5. plies \in Seq(Nat) /\ IsList(plies)
  <2>1. plies \in [1..n -> Nat]
    BY <1>3
  <2>2. plies \in Seq(Nat)
    BY <1>3, <2>1, SeqDef
  <2>. QED  BY <2>2, ListOf
<1>6. /\ DOMAIN work' = WorkFields /\ work'.plies = plies /\ work'.moves = <<>>
      /\ work'.before = Nothing
  BY <1>1 DEF NoWork, WorkFields
<1>. HIDE DEF plies, n
<1>7. plies # <<>>
  BY <1>3, <1>4, EmptyList
<1>8. InOrder(work')
  BY <1>4, <1>5, <1>6, <1>7, EmptyList DEF InOrder
<1>9. Right(work'.moves, game)
  BY <1>6, EmptyList DEF Right
<1>10. PassSound'
  BY <1>1, <1>2, <1>6, <1>8, <1>9 DEF PassSound, UnderWay
<1>11. session["review"].at = "idle"
  BY <1>1 DEF Inv, Awaited, UnderWay, SessionsTidy
<1>12. Awaited' /\ SessionsTidy'
  BY <1>1, <1>11 DEF Inv, Awaited, SessionsTidy
<1>. QED  BY <1>1, <1>10, <1>12, CacheKept DEF Inv

LEMMA StartDeepSound == ASSUME Inv, StartDeep PROVE Inv'
<1>. DEFINE w == [NoWork EXCEPT !.plies = Candidates, !.moves = review.moves]
            final == [i \in DOMAIN review.moves |-> [review.moves[i] EXCEPT !.state = "final"]]
<1>1. stage = "stored" /\ UNCHANGED <<scope, game, session, cache>>
  BY DEF StartDeep
<1>2. /\ IsList(game) /\ game # <<>> /\ Right(review.moves, game)
      /\ DOMAIN review = {"moves", "mistakes"}
  BY <1>1 DEF Inv, PassSound
<1>3. DOMAIN w = WorkFields /\ w.moves = review.moves /\ w.before = Nothing
  BY DEF NoWork, WorkFields
<1>4. Right(final, game)
  BY <1>2 DEF Right
<1>5. DOMAIN NoWork = WorkFields /\ NoWork.before = Nothing /\ Right(NoWork.moves, game)
  BY EmptyList DEF NoWork, WorkFields, Right
<1>6. \/ stage' = "done" /\ work' = NoWork /\ review' = [review EXCEPT !.moves = final]
      \/ stage' = "deep" /\ work' = w /\ review' = review
  BY DEF StartDeep
<1>. HIDE DEF w, final
<1>7. PassSound'
  <2>1. CASE stage' = "done" /\ work' = NoWork /\ review' = [review EXCEPT !.moves = final]
    <3>1. DOMAIN review' = {"moves", "mistakes"} /\ review'.moves = final
      BY <1>2, <2>1
    <3>. QED  BY <1>1, <1>2, <1>4, <1>5, <2>1, <3>1 DEF PassSound, UnderWay
  <2>2. CASE stage' = "deep" /\ work' = w /\ review' = review
    BY <1>1, <1>2, <1>3, <2>2 DEF PassSound, UnderWay
  <2>. QED  BY <1>6, <2>1, <2>2
<1>8. session["review"].at = "idle"
  BY <1>1 DEF Inv, Awaited, UnderWay, SessionsTidy
<1>9. Awaited' /\ SessionsTidy'
  BY <1>1, <1>8 DEF Inv, Awaited, SessionsTidy
<1>. QED  BY <1>1, <1>7, <1>9, CacheKept DEF Inv

(* What the review asks about is the position its pass comes to next.         *)
LEMMA ReviewRequest ==
  ASSUME Inv, NEW request \in Requests("review")
  PROVE  UnderWay /\ request.fen = NextFen
BY DEF Requests, NextFen, Inv, PassSound

LEMMA AskSound == ASSUME Inv, NEW c \in Clients, Ask(c) PROVE Inv'
<1>1. PICK request \in Requests(c) :
        IF Key(request) \in DOMAIN cache.values
        THEN Answered(c, cache.values[Key(request)]) /\ UNCHANGED session
        ELSE LET s == IF session[c].running THEN session[c] ELSE Started IN
             IF s.process.up
             THEN /\ session' = [session EXCEPT ![c] =
                       [s EXCEPT !.at = "reading", !.request = request,
                                 !.process.search = request.fen]]
                  /\ UNCHANGED <<stage, review, work, explored>>
             ELSE Broken(c)
  BY DEF Ask
<1>2. session[c].at = "idle" /\ UNCHANGED <<scope, game, cache>>
  BY DEF Ask
<1>3. c = "review" => UnderWay /\ request.fen = NextFen
  BY ReviewRequest
<1>4. CASE Key(request) \in DOMAIN cache.values
  <2>. DEFINE answer == cache.values[Key(request)]
  <2>1. Answered(c, answer) /\ UNCHANGED session
    BY <1>1, <1>4
  <2>2. About(answer, HashOf(request.fen))
    BY <1>4 DEF Inv, CacheSound, Key, HashOf
  <2>. HIDE DEF answer
  <2>3. PassSound' /\ Awaited'
    BY <1>2, <1>3, <2>1, <2>2, AnsweredSound DEF Freed
  <2>4. SessionsTidy'
    BY <2>1 DEF Inv, SessionsTidy
  <2>. QED  BY <1>2, <2>3, <2>4, CacheKept DEF Inv
<1>5. CASE Key(request) \notin DOMAIN cache.values
  <2>. DEFINE s == IF session[c].running THEN session[c] ELSE Started
              t == [s EXCEPT !.at = "reading", !.request = request,
                             !.process.search = request.fen]
  <2>1. CASE s.process.up
    <3>1. session' = [session EXCEPT ![c] = t] /\ UNCHANGED <<stage, review, work>>
      BY <1>1, <1>5, <2>1
    <3>2. Tidy(s) /\ s.at = "idle" /\ s.running
      BY <1>2, NewSessionsTidy DEF Inv, SessionsTidy, Started, Stopped
    <3>. HIDE DEF s
    <3>3. Tidy(t) /\ t.at = "reading" /\ t.request = request
      BY <3>2, AskedTidy
    <3>. HIDE DEF t
    <3>4. /\ SessionsTidy' /\ session'[c] = t
          /\ \A d \in Clients \ {c} : session'[d] = session[d]
      BY <3>1, <3>3, SessionsStay DEF Inv
    <3>5. PassSound'
      BY <1>2, <3>1, PassKept DEF Inv
    <3>6. Awaited'
      <4>1. CASE c = "review"
        BY <1>2, <1>3, <3>1, <3>3, <3>4, <4>1 DEF Awaited, UnderWay, NextFen
      <4>2. CASE c = "explore"
        <5>1. session'["review"] = session["review"]
          BY <3>4, <4>2 DEF Clients
        <5>. QED  BY <1>2, <3>1, <5>1, AwaitedKept DEF Inv
      <4>. QED  BY <4>1, <4>2 DEF Clients
    <3>. QED  BY <1>2, <3>4, <3>5, <3>6, CacheKept DEF Inv
  <2>2. CASE ~s.process.up
    <3>1. Broken(c)
      BY <1>1, <1>5, <2>2
    <3>. QED  BY <1>2, <1>3, <3>1, BrokenSound
  <2>. QED  BY <2>1, <2>2
<1>. QED  BY <1>4, <1>5

LEMMA StartFailsSound == ASSUME Inv, NEW c \in Clients, StartFails(c) PROVE Inv'
<1>1. /\ session[c].at = "idle" /\ Failed(c) /\ UNCHANGED <<scope, game, session, cache>>
      /\ \E request \in Requests(c) : TRUE
  BY DEF StartFails
<1>2. c = "review" => UnderWay
  BY <1>1, ReviewRequest
<1>3. PassSound' /\ Awaited'
  BY <1>1, <1>2, FailedSound DEF Freed
<1>4. SessionsTidy'
  BY <1>1 DEF Inv, SessionsTidy
<1>. QED  BY <1>1, <1>3, <1>4, CacheKept DEF Inv

LEMMA ReadInfoSound == ASSUME Inv, NEW c \in Clients, ReadInfo(c) PROVE Inv'
<1>1. PICK line \in NextLine(c) :
        session' = [session EXCEPT ![c].latest = line, ![c].process.pipe = Tail(@)]
  BY DEF ReadInfo
<1>2. session[c].at = "reading" /\ UNCHANGED <<scope, game, stage, review, work, cache>>
  BY DEF ReadInfo
<1>. DEFINE s == session[c]
            t == [s EXCEPT !.latest = line, !.process.pipe = Tail(@)]
<1>3. session' = [session EXCEPT ![c] = t]
  BY <1>1 DEF Inv, SessionsTidy
<1>4. Tidy(s)
  BY DEF Inv, SessionsTidy
<1>5. line \in ToSet(First(s.process.pipe, 1))
  BY DEF NextLine
<1>6. t.at = "reading" /\ t.request = s.request
  BY <1>2, <1>4 DEF Tidy, SessionFields
<1>7. s.at \in {"reading", "draining"}
  BY <1>2
<1>. HIDE DEF s
<1>8. Tidy(t)
  BY <1>2, <1>4, <1>5, <1>7, ReadTidy DEF s
<1>. HIDE DEF t
<1>9. /\ SessionsTidy' /\ session'[c] = t
      /\ \A d \in Clients \ {c} : session'[d] = session[d]
  BY <1>3, <1>8, SessionsStay DEF Inv
<1>10. Awaited'
  BY <1>2, <1>6, <1>9 DEF Inv, Awaited, UnderWay, NextFen, Clients, s
<1>11. PassSound'
  BY <1>2, PassKept DEF Inv
<1>. QED  BY <1>2, <1>9, <1>10, <1>11, CacheKept DEF Inv

(* The answer that is read, kept and used is about the request.               *)
LEMMA ReadBestSound == ASSUME Inv, NEW c \in Clients, ReadBest(c) PROVE Inv'
<1>. DEFINE s == session[c]
            told == s.latest
            t == [s EXCEPT !.at = "idle", !.request = Nothing, !.latest = Nothing,
                           !.process.pipe = Tail(@)]
            Answer(line) == [deep |-> s.request.deep, best |-> line.fen,
                             fen |-> IF told = Nothing THEN line.fen ELSE told.fen,
                             lines |-> IF told = Nothing THEN <<>> ELSE told.lines]
<1>1. PICK line \in NextLine(c) :
        /\ line.best
        /\ session' = [session EXCEPT ![c] = t]
        /\ cache' = Put(Key(s.request), Answer(line))
        /\ Answered(c, Answer(line))
  BY Zenon DEF ReadBest
<1>. DEFINE answer == Answer(line)
<1>2. s.at = "reading" /\ UNCHANGED <<scope, game>>
  BY DEF ReadBest
<1>3. Tidy(s) /\ s.at \in {"reading", "draining"}
  BY <1>2 DEF Inv, SessionsTidy
<1>4. line \in ToSet(First(s.process.pipe, 1))
  BY DEF NextLine
<1>5. Tidy(t) /\ line.fen = s.request.fen
  <2>. HIDE DEF s
  <2>. QED  BY <1>1, <1>2, <1>3, <1>4, ReadTidy
<1>6. t.at = "idle"
  BY <1>3 DEF Tidy, SessionFields
<1>7. told = Nothing \/ told.fen = s.request.fen
  BY <1>2, <1>3 DEF Tidy, OfRequest
<1>8. About(answer, HashOf(s.request.fen)) /\ Key(s.request).hash = HashOf(s.request.fen)
  BY <1>5, <1>7 DEF About, HashOf, Key
<1>9. c = "review" => UnderWay /\ s.request.fen = NextFen
  BY <1>2 DEF Inv, Awaited
<1>. HIDE DEF t
<1>10. /\ SessionsTidy' /\ session'[c] = t
       /\ \A d \in Clients \ {c} : session'[d] = session[d]
  BY <1>1, <1>5, SessionsStay DEF Inv
<1>11. Answered(c, answer) /\ cache' = Put(Key(s.request), answer)
  BY <1>1
<1>. HIDE DEF answer
<1>12. PassSound' /\ Awaited'
  BY <1>2, <1>6, <1>8, <1>9, <1>10, <1>11, AnsweredSound DEF Freed
<1>13. CacheSound'
  BY <1>2, <1>8, <1>11, PutSound DEF Inv
<1>. QED  BY <1>2, <1>10, <1>12, <1>13 DEF Inv

(* A step of a session or its process that leaves the request where it is, or *)
(* gives it up.                                                               *)
LEMMA SessionStepSound ==
  ASSUME Inv, NEW c \in Clients, NEW t, session' = [session EXCEPT ![c] = t], Tidy(t),
         t.at # "idle" => session[c].at # "idle",
         t.at = "reading" => session[c].at = "reading" /\ t.request = session[c].request,
         UNCHANGED <<scope, game, stage, review, work, cache>>
  PROVE  Inv'
<1>1. /\ SessionsTidy' /\ session'[c] = t
      /\ \A d \in Clients \ {c} : session'[d] = session[d]
  BY SessionsStay DEF Inv
<1>2. Awaited'
  <2>1. CASE c = "review"
    BY <1>1, <2>1 DEF Inv, Awaited, UnderWay, NextFen
  <2>2. CASE c # "review"
    <3>1. session'["review"] = session["review"]
      BY <1>1, <2>2 DEF Clients
    <3>. QED  BY <3>1, AwaitedKept DEF Inv
  <2>. QED  BY <2>1, <2>2
<1>3. PassSound'
  BY PassKept DEF Inv
<1>. QED  BY <1>1, <1>2, <1>3, CacheKept DEF Inv

LEMMA InterruptSound == ASSUME Inv, NEW c \in Clients, Interrupt(c) PROVE Inv'
<1>. DEFINE s == session[c]
            stopped == s.process.search # Nothing
            t == [s EXCEPT !.at = "draining", !.latest = Nothing, !.process.stopped = stopped]
<1>1. /\ session' = [session EXCEPT ![c].at = "draining", ![c].latest = Nothing,
                                    ![c].process.stopped = session[c].process.search # Nothing]
      /\ s.at = "reading" /\ UNCHANGED <<scope, game, stage, review, work, cache>>
  BY DEF Interrupt
<1>2. Tidy(s)
  BY DEF Inv, SessionsTidy
<1>3. session' = [session EXCEPT ![c] = t]
  BY <1>1 DEF Inv, SessionsTidy
<1>4. t.at = "draining"
  BY <1>2 DEF Tidy, SessionFields
<1>5. Tidy(t)
  <2>. HIDE DEF s, stopped
  <2>. QED  BY <1>1, <1>2, InterruptedTidy
<1>. HIDE DEF t
<1>. QED  BY <1>1, <1>3, <1>4, <1>5, SessionStepSound

LEMMA ProcessGoneSound == ASSUME Inv, NEW c \in Clients, ProcessGone(c) PROVE Inv'
<1>1. session[c].at = "reading" /\ Broken(c) /\ UNCHANGED <<scope, game, cache>>
  BY DEF ProcessGone
<1>2. c = "review" => UnderWay
  BY <1>1 DEF Inv, Awaited
<1>. QED  BY <1>1, <1>2, BrokenSound

LEMMA DrainFailsSound == ASSUME Inv, NEW c \in Clients, DrainFails(c) PROVE Inv'
<1>1. session[c].at = "draining" /\ Broken(c) /\ UNCHANGED <<scope, game, cache>>
  BY DEF DrainFails
<1>2. c = "review" => UnderWay
  BY <1>1 DEF Inv, Awaited
<1>. QED  BY <1>1, <1>2, BrokenSound

LEMMA DrainSound == ASSUME Inv, NEW c \in Clients, Drain(c) PROVE Inv'
<1>. DEFINE s == session[c]
            rest == [s EXCEPT !.process.pipe = Tail(@)]
            t == [rest EXCEPT !.at = "idle", !.request = Nothing]
            u == [s EXCEPT !.at = "idle", !.request = Nothing, !.latest = Nothing,
                           !.process.pipe = Tail(@)]
<1>1. s.at = "draining" /\ UNCHANGED <<scope, game, cache>>
  BY DEF Drain
<1>2. PICK line \in NextLine(c) :
        IF line.best THEN session' = [session EXCEPT ![c] = t] /\ Failed(c)
        ELSE session' = [session EXCEPT ![c] = rest] /\ UNCHANGED <<stage, review, work>>
  BY DEF Drain
<1>3. Tidy(s) /\ s.at \in {"reading", "draining"}
  BY <1>1 DEF Inv, SessionsTidy
<1>4. line \in ToSet(First(s.process.pipe, 1))
  BY DEF NextLine
<1>5. DOMAIN s = SessionFields /\ s.latest = Nothing
  BY <1>1, <1>3 DEF Tidy
<1>6. Tidy(rest) /\ (line.best => Tidy(u))
  <2>. HIDE DEF s
  <2>. QED  BY <1>1, <1>3, <1>4, ReadTidy
<1>7. CASE line.best
  <2>1. t = u
    BY <1>5 DEF SessionFields
  <2>2. t.at = "idle"
    BY <1>5 DEF SessionFields
  <2>3. session' = [session EXCEPT ![c] = t] /\ Failed(c)
    BY <1>2, <1>7
  <2>4. Tidy(t)
    BY <1>6, <1>7, <2>1
  <2>. HIDE DEF t
  <2>5. SessionsTidy' /\ Freed(c)
    BY <2>2, <2>3, <2>4, SessionsStay DEF Inv, Freed
  <2>6. c = "review" => UnderWay
    BY <1>1 DEF Inv, Awaited
  <2>7. PassSound' /\ Awaited'
    BY <1>1, <2>3, <2>5, <2>6, FailedSound
  <2>. QED  BY <1>1, <2>5, <2>7, CacheKept DEF Inv
<1>8. CASE ~line.best
  <2>1. session' = [session EXCEPT ![c] = rest] /\ UNCHANGED <<stage, review, work>>
    BY <1>2, <1>8
  <2>2. rest.at = "draining"
    BY <1>1, <1>5 DEF SessionFields
  <2>. HIDE DEF rest
  <2>. QED  BY <1>1, <1>6, <2>1, <2>2, SessionStepSound
<1>. QED  BY <1>7, <1>8

LEMMA TellSound == ASSUME Inv, NEW c \in Clients, Tell(c) PROVE Inv'
<1>. DEFINE s == session[c]
            Told(lines) == [s EXCEPT !.process =
              [s.process EXCEPT !.told = TRUE,
                 !.pipe = Append(@, [best |-> FALSE, fen |-> s.process.search,
                                     lines |-> lines])]]
<1>1. /\ s.running /\ s.process.search # Nothing
      /\ UNCHANGED <<scope, game, stage, review, work, cache>>
  BY DEF Tell
<1>2. PICK lines \in Lines(s.process.search) :
        session' = [session EXCEPT ![c].process =
          [s.process EXCEPT !.told = TRUE,
             !.pipe = Append(@, [best |-> FALSE, fen |-> s.process.search, lines |-> lines])]]
  BY DEF Tell
<1>. DEFINE t == Told(lines)
<1>3. session' = [session EXCEPT ![c] = t]
  BY <1>2 DEF Inv, SessionsTidy
<1>4. Tidy(s)
  BY DEF Inv, SessionsTidy
<1>5. t.at = s.at /\ t.request = s.request
  BY <1>4 DEF Tidy, SessionFields
<1>6. Tidy(t)
  <2>. HIDE DEF s
  <2>. QED  BY <1>1, <1>4, ToldTidy
<1>. HIDE DEF t
<1>. QED  BY <1>1, <1>3, <1>5, <1>6, SessionStepSound

LEMMA BestMoveSound == ASSUME Inv, NEW c \in Clients, BestMove(c) PROVE Inv'
<1>. DEFINE s == session[c]
            t == [s EXCEPT !.process =
              [Fresh EXCEPT !.pipe = Append(s.process.pipe,
                 [best |-> TRUE, fen |-> s.process.search, lines |-> <<>>])]]
<1>1. /\ s.running /\ s.process.search # Nothing
      /\ session' = [session EXCEPT ![c].process =
           [Fresh EXCEPT !.pipe = Append(s.process.pipe,
              [best |-> TRUE, fen |-> s.process.search, lines |-> <<>>])]]
      /\ UNCHANGED <<scope, game, stage, review, work, cache>>
  BY DEF BestMove
<1>2. session' = [session EXCEPT ![c] = t]
  BY <1>1 DEF Inv, SessionsTidy
<1>3. Tidy(s)
  BY DEF Inv, SessionsTidy
<1>4. t.at = s.at /\ t.request = s.request
  BY <1>3 DEF Tidy, SessionFields
<1>5. Tidy(t)
  <2>. HIDE DEF s
  <2>. QED  BY <1>1, <1>3, BestMoveTidy
<1>. HIDE DEF t
<1>. QED  BY <1>1, <1>2, <1>4, <1>5, SessionStepSound

LEMMA DieSound == ASSUME Inv, NEW c \in Clients, Die(c) PROVE Inv'
<1>. DEFINE s == session[c]
            t == [s EXCEPT !.process.up = FALSE]
<1>1. /\ s.running /\ session' = [session EXCEPT ![c].process.up = FALSE]
      /\ UNCHANGED <<scope, game, stage, review, work, cache>>
  BY DEF Die
<1>2. session' = [session EXCEPT ![c] = t]
  BY <1>1 DEF Inv, SessionsTidy
<1>3. Tidy(s)
  BY DEF Inv, SessionsTidy
<1>4. t.at = s.at /\ t.request = s.request
  BY <1>3 DEF Tidy, SessionFields
<1>5. Tidy(t)
  <2>. HIDE DEF s
  <2>. QED  BY <1>1, <1>3, DeadTidy
<1>. HIDE DEF t
<1>. QED  BY <1>1, <1>2, <1>4, <1>5, SessionStepSound

-----------------------------------------------------------------------------
LEMMA InitSound == Init => Inv
<1>. SUFFICES ASSUME Init  PROVE  Inv
  OBVIOUS
<1>1. /\ scope \in Scopes /\ game = <<>> /\ stage = "reading"
      /\ review = [moves |-> <<>>, mistakes |-> <<>>] /\ work = NoWork
      /\ session = [c \in Clients |-> Stopped]
      /\ cache = [order |-> <<>>, values |-> <<>>]
  BY DEF Init
<1>2. SessionsTidy /\ Awaited
  <2>1. DOMAIN session = Clients /\ \A c \in Clients : session[c] = Stopped
    BY <1>1
  <2>2. Tidy(Stopped) /\ Stopped.at = "idle"
    BY NewSessionsTidy
  <2>. QED  BY <2>1, <2>2 DEF SessionsTidy, Awaited, Clients
<1>3. CacheSound
  <2>1. /\ DOMAIN cache = {"order", "values"} /\ cache.order = <<>> /\ cache.values = <<>>
        /\ scope.entries \in Nat
    BY <1>1, ScopesAssumption
  <2>. QED  BY <2>1, EmptyList DEF CacheSound
<1>4. PassSound
  <2>1. /\ DOMAIN review = {"moves", "mistakes"} /\ review.moves = <<>>
        /\ DOMAIN work = WorkFields /\ work.moves = <<>> /\ work.before = Nothing
    BY <1>1 DEF NoWork, WorkFields
  <2>. QED  BY <1>1, <2>1, EmptyList DEF PassSound, UnderWay, Right
<1>. QED  BY <1>1, <1>2, <1>3, <1>4 DEF Inv

LEMMA NextSound == Inv /\ [Next]_vars => Inv'
<1>. SUFFICES ASSUME Inv, [Next]_vars  PROVE  Inv'
  OBVIOUS
<1>1. CASE ReadPly
  BY <1>1, ReadPlySound
<1>2. CASE FinishGame
  BY <1>2, FinishGameSound
<1>3. CASE StartShallow
  BY <1>3, StartShallowSound
<1>4. CASE StartDeep
  BY <1>4, StartDeepSound
<1>5. ASSUME NEW c \in Clients,
             \/ Ask(c) \/ StartFails(c) \/ ReadInfo(c) \/ ReadBest(c)
             \/ Interrupt(c) \/ ProcessGone(c) \/ Drain(c) \/ DrainFails(c)
             \/ Tell(c) \/ BestMove(c) \/ Die(c)
      PROVE  Inv'
  BY <1>5, AskSound, StartFailsSound, ReadInfoSound, ReadBestSound, InterruptSound,
     ProcessGoneSound, DrainSound, DrainFailsSound, TellSound, BestMoveSound, DieSound
<1>6. CASE UNCHANGED vars
  BY <1>6 DEF vars, Inv, SessionsTidy, CacheSound, PassSound, Awaited, UnderWay, NextFen
<1>. QED  BY <1>1, <1>2, <1>3, <1>4, <1>5, <1>6 DEF Next

LEMMA InvIsSound == Inv => AnswersMatch
<1>. SUFFICES ASSUME Inv  PROVE  AnswersMatch
  OBVIOUS
<1>1. /\ \A key \in DOMAIN cache.values : About(cache.values[key], key.hash)
      /\ ToSet(cache.order) = DOMAIN cache.values /\ Len(cache.order) <= scope.entries
      /\ IsList(cache.order)
      /\ \A i, k \in DOMAIN cache.order : cache.order[i] = cache.order[k] => i = k
  BY DEF Inv, CacheSound
<1>2. Len(cache.order) = Cardinality(ToSet(cache.order))
  BY <1>1, ListLength
<1>3. \A m \in {review.moves, work.moves} : \A i \in DOMAIN m :
        /\ About(m[i].of[1], FromFen(game[i].before).hash)
        /\ About(m[i].of[2], FromFen(game[i].after).hash)
  BY DEF Inv, PassSound, Right, HashOf
<1>. QED  BY <1>1, <1>2, <1>3 DEF AnswersMatch

(* Every answer, kept in the cache or used in an assessment, is the engine's  *)
(* answer about that very position, whatever was asked in which order by the  *)
(* two clients, wherever a search was stopped or timed out, a process died or *)
(* could not be started: a session reads to the best move of the search it    *)
(* gave up, or replaces the process and its pipes, before it asks again; and  *)
(* the cache's order and values agree within its limit                        *)
(* (stockfish.cpp:356, analyzer.cpp:547, 568, 617).                           *)
THEOREM AnswersAreTheirOwn == Spec => []AnswersMatch
<1>1. Init => Inv
  BY InitSound
<1>2. Inv /\ [Next]_vars => Inv'
  BY NextSound
<1>3. Inv => AnswersMatch
  BY InvIsSound
<1>. QED  BY <1>1, <1>2, <1>3, PTL DEF Spec

-----------------------------------------------------------------------------
(* The board's coordinates.                                                   *)
(* A square is where its file and its rank say.                               *)
LEMMA Coordinates ==
  ASSUME NEW s \in Squares
  PROVE  File(s) \in 0..7 /\ Rank(s) \in 0..7 /\ s = File(s) + 8 * Rank(s)
BY DEF Squares, File, Rank

(* Going a files and b ranks on from a square, as long as that is a square.   *)
LEMMA Shifted ==
  ASSUME NEW s \in Squares, NEW a \in Int, NEW b \in Int,
         File(s) + a \in 0..7, Rank(s) + b \in 0..7
  PROVE  LET q == s + a + 8 * b
         IN q \in Squares /\ File(q) = File(s) + a /\ Rank(q) = Rank(s) + b
<1>. DEFINE f == File(s) + a   r == Rank(s) + b
<1>0. File(s) \in Int /\ Rank(s) \in Int /\ s \in Int /\ s = File(s) + 8 * Rank(s)
  BY Coordinates DEF Squares
<1>1. f \in 0..7 /\ r \in 0..7
  OBVIOUS
<1>2. s + a + 8 * b = f + 8 * r
  BY <1>0
<1>. HIDE DEF f, r
<1>3. /\ f + 8 * r \in 0..63 /\ (f + 8 * r) % 8 = f /\ (f + 8 * r) \div 8 = r
  BY <1>1
<1>4. f = File(s) + a /\ r = Rank(s) + b
  BY DEF f, r
<1>. QED  BY <1>2, <1>3, <1>4 DEF Squares, File, Rank

(* The squares one step off.                                                  *)
LEMMA NearIs ==
  ASSUME NEW s \in Squares, NEW D \in SUBSET (Int \X Int)
  PROVE  /\ Near(s, D) \subseteq Squares
         /\ \A q : q \in Near(s, D) <=>
              q \in Squares /\ \E d \in D : File(q) = File(s) + d[1] /\ Rank(q) = Rank(s) + d[2]
<1>1. \A d \in D : d[1] \in Int /\ d[2] \in Int /\ 1 * d[1] = d[1] /\ 1 * d[2] = d[2]
                   /\ 8 * 1 * d[2] = 8 * d[2]
  OBVIOUS
<1>2. ASSUME NEW q, q \in Near(s, D)
      PROVE  q \in Squares /\ \E d \in D : File(q) = File(s) + d[1] /\ Rank(q) = Rank(s) + d[2]
  <2>1. PICK d \in D : OnBoard(s, d, 1) /\ q = Step(s, d, 1)
    BY <1>2 DEF Near
  <2>2. File(s) + d[1] \in 0..7 /\ Rank(s) + d[2] \in 0..7 /\ q = s + d[1] + 8 * d[2]
    BY <1>1, <2>1 DEF OnBoard, Step
  <2>. QED  BY <1>1, <2>2, Shifted
<1>3. ASSUME NEW q \in Squares, NEW d \in D,
             File(q) = File(s) + d[1], Rank(q) = Rank(s) + d[2]
      PROVE  q \in Near(s, D)
  <2>1. File(s) + d[1] \in 0..7 /\ Rank(s) + d[2] \in 0..7
    BY <1>3, Coordinates
  <2>2. q = s + d[1] + 8 * d[2]
    <3>1. q = File(q) + 8 * Rank(q) /\ s = File(s) + 8 * Rank(s)
      BY Coordinates
    <3>2. File(s) \in Int /\ Rank(s) \in Int
      BY Coordinates
    <3>. QED  BY <1>1, <1>3, <3>1, <3>2
  <2>3. OnBoard(s, d, 1) /\ q = Step(s, d, 1)
    BY <1>1, <2>1, <2>2 DEF OnBoard, Step
  <2>. QED  BY <2>3 DEF Near
<1>. QED  BY <1>2, <1>3

(* Looking along a line never leaves the board.                               *)
LEMMA RayLeads ==
  ASSUME NEW s \in Squares, NEW d \in Directions
  PROVE  LET onto == {j \in 1..7 : OnBoard(s, d, j)}
         IN /\ \E n \in 0..7 : onto = 1..n /\ Cardinality(onto) = n /\ DOMAIN Ray[s][d] = 1..n
            /\ \A k \in DOMAIN Ray[s][d] :
                 k \in 1..7 /\ OnBoard(s, d, k) /\ Ray[s][d][k] = Step(s, d, k)
<1>. DEFINE onto == {j \in 1..7 : OnBoard(s, d, j)}
<1>1. PICK a \in {-1, 0, 1}, b \in {-1, 0, 1} : d = <<a, b>> /\ (a # 0 \/ b # 0)
  BY DEF Directions, Straight, Diagonal
<1>2. d[1] = a /\ d[2] = b
  BY <1>1
<1>3. \A k \in 1..7 : OnBoard(s, d, k) <=> /\ File(s) + k * a \in 0..7
                                          /\ Rank(s) + k * b \in 0..7
  BY <1>2 DEF OnBoard
<1>4. \A j, k \in 1..7 : j < k /\ OnBoard(s, d, k) => OnBoard(s, d, j)
  <2>1. \A f \in 0..7 : \A c \in {-1, 0, 1} : \A j, k \in 1..7 :
          j < k /\ f + k * c \in 0..7 => f + j * c \in 0..7
    OBVIOUS
  <2>2. File(s) \in 0..7 /\ Rank(s) \in 0..7
    BY Coordinates
  <2>. QED  BY ONLY <1>1, <1>3, <2>1, <2>2
<1>5. PICK n \in 0..7 : onto = 1..n
  <2>. HIDE DEF onto
  <2>1. onto \subseteq 1..7 /\ \A j, k \in 1..7 : j < k /\ k \in onto => j \in onto
    BY <1>4 DEF onto
  <2>2. \/ 7 \in onto
        \/ 7 \notin onto /\ 6 \in onto
        \/ 6 \notin onto /\ 5 \in onto
        \/ 5 \notin onto /\ 4 \in onto
        \/ 4 \notin onto /\ 3 \in onto
        \/ 3 \notin onto /\ 2 \in onto
        \/ 2 \notin onto /\ 1 \in onto
        \/ 1 \notin onto
    OBVIOUS
  <2>3. \A n \in 0..7 : /\ n = 0 \/ n \in onto
                        /\ n = 7 \/ n + 1 \notin onto
                        => onto = 1..n
    <3>. SUFFICES ASSUME NEW n \in 0..7, n = 0 \/ n \in onto, n = 7 \/ n + 1 \notin onto
                  PROVE  onto = 1..n
      OBVIOUS
    <3>1. ASSUME NEW k \in 1..7  PROVE  k \in onto <=> k <= n
      <4>1. CASE k < n
        BY <2>1, <4>1
      <4>2. CASE k = n
        BY <4>2
      <4>3. CASE k > n
        <5>1. n + 1 \in 1..7 /\ (n + 1 < k \/ n + 1 = k)
          BY <4>3
        <5>. QED  BY <2>1, <4>3, <5>1
      <4>. QED  BY <4>1, <4>2, <4>3
    <3>2. \A k : k \in 1..n <=> k \in 1..7 /\ k <= n
      OBVIOUS
    <3>. QED  BY <2>1, <3>1, <3>2
  <2>. QED  BY <2>2, <2>3
<1>6. Cardinality(onto) = n
  <2>. HIDE DEF onto
  <2>1. n \in Int /\ (IF 1 > n THEN 0 ELSE n - 1 + 1) = n
    OBVIOUS
  <2>2. Cardinality(1..n) = IF 1 > n THEN 0 ELSE n - 1 + 1
    BY <2>1, FS_Interval
  <2>. QED  BY <1>5, <2>1, <2>2
<1>7. Ray[s][d] = [k \in 1..n |-> Step(s, d, k)]
  BY <1>6 DEF Ray
<1>. QED  BY <1>5, <1>6, <1>7

(* What is seen from a square are squares.                                    *)
LEMMA SeenOnBoard ==
  ASSUME NEW s \in Squares, NEW d \in Directions, NEW men
  PROVE  Seen(men, s, d) \subseteq Squares
<1>. SUFFICES ASSUME NEW k \in DOMAIN Ray[s][d]  PROVE  Ray[s][d][k] \in Squares
  BY DEF Seen
<1>1. k \in 1..7 /\ OnBoard(s, d, k) /\ Ray[s][d][k] = Step(s, d, k)
  BY RayLeads
<1>2. PICK a \in {-1, 0, 1}, b \in {-1, 0, 1} : d = <<a, b>>
  BY DEF Directions, Straight, Diagonal
<1>3. /\ k * a \in Int /\ k * b \in Int /\ 8 * k * b = 8 * (k * b)
      /\ File(s) + k * a \in 0..7 /\ Rank(s) + k * b \in 0..7
      /\ Step(s, d, k) = s + k * a + 8 * (k * b)
  BY <1>1, <1>2 DEF OnBoard, Step, Squares
<1>. QED  BY <1>1, <1>3, Shifted
-----------------------------------------------------------------------------
(* What the moves of a piece look like.                                       *)

(* A move is a record of its squares, promotion and flags.                    *)
IsMove(m) ==
  m = [from |-> m.from, to |-> m.to, promotion |-> m.promotion, flags |-> m.flags]

(* A pawn's step is promoted on the last rank, and there only.                *)
Promoted(m, flags) ==
  IF Rank(m.to) \in {0, 7}
  THEN m.flags = flags \cup {"promotion"} /\ m.promotion \in Promotions
  ELSE m.flags = flags /\ m.promotion = "none"

(* A pawn's step, its capture and its double step.                            *)
PawnPlain(p, m) ==
  /\ Promoted(m, {})
  /\ File(m.to) = File(m.from) /\ Rank(m.to) = Rank(m.from) + Forward(p.side)
  /\ m.to \notin DOMAIN p.men
PawnTakes(p, m) ==
  /\ Promoted(m, IF Taken(p, m.to) THEN {"capture"} ELSE {"capture", "en_passant"})
  /\ File(m.to) \in {File(m.from) - 1, File(m.from) + 1}
  /\ Rank(m.to) = Rank(m.from) + Forward(p.side)
  /\ ~Taken(p, m.to) => m.to = p.ep
PawnDoubles(p, m) ==
  /\ m.flags = {"double"} /\ m.promotion = "none"
  /\ File(m.to) = File(m.from) /\ Rank(m.to) = Rank(m.from) + 2 * Forward(p.side)
  /\ \E s \in Squares : /\ File(s) = File(m.from) /\ Rank(s) = Rank(m.from) + Forward(p.side)
                        /\ s \notin DOMAIN p.men
  /\ m.to \notin DOMAIN p.men

(* What a pawn, another man and a castling king may do.                       *)
PawnForm(p, m) ==
  /\ IsMove(m) /\ m.to \in Squares
  /\ PawnPlain(p, m) \/ PawnTakes(p, m) \/ PawnDoubles(p, m)

PieceForm(p, m) ==
  /\ IsMove(m) /\ m.to \in Squares \cap Reached(p, m.from) /\ m.promotion = "none"
  /\ m.flags = IF m.to \in DOMAIN p.men THEN {"capture"} ELSE {}
  /\ m.to \in DOMAIN p.men => p.men[m.to].color # p.side
  /\ p.men[m.from].type = "king" => File(m.to) - File(m.from) \in {-1, 0, 1}

CastleForm(p, m) ==
  \E c \in Castlings : /\ c.color = p.side /\ m = Move(c.king, c.to, {c.flag})
                       /\ Is(p.men, c.rook, p.side, "rook")
                       /\ c.empty \cap DOMAIN p.men = {}

(* Filling in a move's promotion.                                             *)
LEMMA PromotionSet ==
  ASSUME NEW a, NEW b, NEW f, NEW t
  PROVE  [Move(a, b, f) EXCEPT !.promotion = t]
           = [from |-> a, to |-> b, promotion |-> t, flags |-> f]
BY DEF Move

(* A pawn's step with the flags of its kind.                                  *)
LEMMA PawnMoveIs ==
  ASSUME NEW from, NEW to, NEW flags, NEW m \in AddPawnMove(from, to, flags)
  PROVE  IsMove(m) /\ m.from = from /\ m.to = to /\ Promoted(m, flags)
<1>1. CASE Rank(to) \in {0, 7}
  <2>1. PICK t \in Promotions :
          m = [Move(from, to, flags \cup {"promotion"}) EXCEPT !.promotion = t]
    BY <1>1 DEF AddPawnMove
  <2>2. m = [from |-> from, to |-> to, promotion |-> t, flags |-> flags \cup {"promotion"}]
    BY <2>1, PromotionSet
  <2>. QED  BY <1>1, <2>2 DEF IsMove, Promoted
<1>2. CASE Rank(to) \notin {0, 7}
  <2>1. m = [from |-> from, to |-> to, promotion |-> "none", flags |-> flags]
    BY <1>2 DEF AddPawnMove, Move
  <2>. QED  BY <1>2, <2>1 DEF IsMove, Promoted
<1>. QED  BY <1>1, <1>2

(* A member of three families of sets and of a fourth set.                    *)
LEMMA OneOfFour ==
  ASSUME NEW A, NEW B, NEW C, NEW D, NEW m \in (UNION (A \cup B \cup C)) \cup D
  PROVE  (\E X \in A : m \in X) \/ (\E X \in B : m \in X) \/ (\E X \in C : m \in X) \/ m \in D
OBVIOUS

(* A pawn steps, takes or doubles.                                            *)
LEMMA PawnMoveForm ==
  ASSUME NEW p, p.side \in Colors, NEW from \in Squares, NEW m \in PawnMoves(p, from)
  PROVE  m.from = from /\ PawnForm(p, m)
<1>. DEFINE step  == Forward(p.side)
            start == IF p.side = "white" THEN 1 ELSE 6
            ahead == {s \in Near(from, {<<0, step>>}) : s \notin DOMAIN p.men}
            aside == Near(from, {<<-1, step>>, <<1, step>>})
<1>1. step \in {-1, 1} /\ (p.side = "white" => step = 1) /\ (p.side # "white" => step = -1)
  BY DEF Forward, Colors
<1>2. /\ ahead \subseteq Squares
      /\ \A s \in ahead : File(s) = File(from) /\ Rank(s) = Rank(from) + step
                          /\ s \notin DOMAIN p.men
  <2>1. {<<0, step>>} \in SUBSET (Int \X Int)
    BY <1>1
  <2>2. File(from) \in Int
    BY Coordinates
  <2>. HIDE DEF step
  <2>. QED  BY <1>1, <2>1, <2>2, NearIs
<1>3. /\ aside \subseteq Squares
      /\ \A s \in aside : File(s) \in {File(from) - 1, File(from) + 1}
                          /\ Rank(s) = Rank(from) + step
  <2>1. {<<-1, step>>, <<1, step>>} \in SUBSET (Int \X Int)
    BY <1>1
  <2>2. File(from) \in Int
    BY Coordinates
  <2>. HIDE DEF step
  <2>. QED  BY <1>1, <2>1, <2>2, NearIs
<1>4. \/ \E s \in ahead : m \in AddPawnMove(from, s, {})
      \/ \E s \in aside : Taken(p, s) /\ m \in AddPawnMove(from, s, {"capture"})
      \/ \E s \in aside : /\ ~Taken(p, s) /\ s = p.ep
                          /\ m \in AddPawnMove(from, s, {"capture", "en_passant"})
      \/ \E s \in ahead : /\ Rank(from) = start /\ s + 8 * step \notin DOMAIN p.men
                          /\ m = Move(from, s + 8 * step, {"double"})
  <2>. DEFINE A == {AddPawnMove(from, s, {}) : s \in ahead}
              B == {AddPawnMove(from, s, {"capture"}) : s \in {q \in aside : Taken(p, q)}}
              C == {AddPawnMove(from, s, {"capture", "en_passant"}) :
                      s \in {q \in aside : ~Taken(p, q) /\ q = p.ep}}
              D == {Move(from, s + 8 * step, {"double"}) :
                      s \in {q \in ahead : Rank(from) = start
                                          /\ q + 8 * step \notin DOMAIN p.men}}
  <2>1. PawnMoves(p, from) = (UNION (A \cup B \cup C)) \cup D
    BY DEF PawnMoves
  <2>. HIDE DEF ahead, aside, step, start
  <2>2. CASE \E X \in A : m \in X
    BY <2>2
  <2>3. CASE \E X \in B : m \in X
    BY <2>3
  <2>4. CASE \E X \in C : m \in X
    BY <2>4
  <2>5. CASE m \in D
    BY <2>5
  <2>. HIDE DEF A, B, C, D
  <2>6. (\E X \in A : m \in X) \/ (\E X \in B : m \in X) \/ (\E X \in C : m \in X) \/ m \in D
    BY <2>1, OneOfFour
  <2>. QED  BY <2>2, <2>3, <2>4, <2>5, <2>6, Zenon
<1>. HIDE DEF ahead, aside
<1>5. CASE \E s \in ahead : m \in AddPawnMove(from, s, {})
  <2>1. PICK s \in ahead : m \in AddPawnMove(from, s, {})
    BY <1>5
  <2>2. IsMove(m) /\ m.from = from /\ m.to = s /\ Promoted(m, {})
    BY <2>1, PawnMoveIs
  <2>. QED  BY <1>2, <2>2 DEF PawnPlain, PawnForm
<1>6. CASE \E s \in aside : Taken(p, s) /\ m \in AddPawnMove(from, s, {"capture"})
  <2>1. PICK s \in aside : Taken(p, s) /\ m \in AddPawnMove(from, s, {"capture"})
    BY <1>6
  <2>2. IsMove(m) /\ m.from = from /\ m.to = s /\ Promoted(m, {"capture"})
    BY <2>1, PawnMoveIs
  <2>. QED  BY <1>3, <2>1, <2>2 DEF PawnTakes, PawnForm
<1>7. CASE \E s \in aside : /\ ~Taken(p, s) /\ s = p.ep
                            /\ m \in AddPawnMove(from, s, {"capture", "en_passant"})
  <2>1. PICK s \in aside : /\ ~Taken(p, s) /\ s = p.ep
                           /\ m \in AddPawnMove(from, s, {"capture", "en_passant"})
    BY <1>7
  <2>2. IsMove(m) /\ m.from = from /\ m.to = s /\ Promoted(m, {"capture", "en_passant"})
    <3>1. PICK flags : flags = {"capture", "en_passant"} /\ m \in AddPawnMove(from, s, flags)
      BY <2>1
    <3>2. m \in AddPawnMove(from, s, flags)
      BY <3>1
    <3>3. IsMove(m) /\ m.from = from /\ m.to = s /\ Promoted(m, flags)
      BY ONLY <3>2, PawnMoveIs
    <3>. QED  BY <3>1, <3>3
  <2>. QED  BY <1>3, <2>1, <2>2 DEF PawnTakes, PawnForm
<1>8. CASE \E s \in ahead : /\ Rank(from) = start /\ s + 8 * step \notin DOMAIN p.men
                            /\ m = Move(from, s + 8 * step, {"double"})
  <2>1. PICK s \in ahead : /\ Rank(from) = start /\ s + 8 * step \notin DOMAIN p.men
                           /\ m = Move(from, s + 8 * step, {"double"})
    BY <1>8
  <2>2. s \in Squares /\ s \notin DOMAIN p.men /\ File(s) = File(from) /\ Rank(s) = Rank(from) + step
    BY <1>2
  <2>3. /\ s + 8 * step \in Squares
        /\ File(s + 8 * step) = File(from) /\ Rank(s + 8 * step) = Rank(from) + 2 * step
    <3>1. File(s) \in 0..7 /\ Rank(from) \in Int /\ Rank(s) \in Int /\ s \in Int
      <4>1. \A q \in Squares : File(q) \in 0..7 /\ Rank(q) \in Int /\ q \in Int
        BY Coordinates DEF Squares
      <4>. QED  BY <2>2, <4>1
    <3>2. Rank(from) \in {1, 6} /\ (Rank(from) = 1 <=> step = 1)
      BY <1>1, <2>1
    <3>3. Rank(s) + step \in {3, 4} /\ File(s) + 0 = File(s) /\ s + 0 + 8 * step = s + 8 * step
      BY <1>1, <2>2, <3>1, <3>2
    <3>4. /\ s + 8 * step \in Squares /\ File(s + 8 * step) = File(s)
          /\ Rank(s + 8 * step) = Rank(s) + step
      BY <1>1, <2>2, <3>1, <3>3, Shifted
    <3>. QED  BY <1>1, <2>2, <3>1, <3>2, <3>3, <3>4
  <2>4. m = [from |-> from, to |-> s + 8 * step, promotion |-> "none", flags |-> {"double"}]
    BY <2>1 DEF Move
  <2>. HIDE DEF step
  <2>5. IsMove(m) /\ m.from = from /\ m.to = s + 8 * step /\ m.promotion = "none"
        /\ m.flags = {"double"}
    BY <2>4 DEF IsMove
  <2>6. m.to \in Squares /\ PawnDoubles(p, m)
    BY <2>1, <2>2, <2>3, <2>5 DEF PawnDoubles, step
  <2>. QED  BY <2>5, <2>6 DEF PawnForm
<1>. QED  BY <1>4, <1>5, <1>6, <1>7, <1>8

(* Any other man goes to a square it reaches that no man of its side is on.   *)
LEMMA ReachedOnBoard ==
  ASSUME NEW p, NEW from \in Squares
  PROVE  /\ Reached(p, from) \subseteq Squares
         /\ p.men[from].type = "king" =>
              \A s \in Reached(p, from) : File(s) - File(from) \in {-1, 0, 1}
<1>1. CASE p.men[from].type = "knight"
  <2>1. Leaps \in SUBSET (Int \X Int)
    BY DEF Leaps
  <2>2. Reached(p, from) = Near(from, Leaps)
    BY <1>1 DEF Reached
  <2>. QED  BY <1>1, <2>1, <2>2, NearIs
<1>2. CASE p.men[from].type = "king"
  <2>1. Directions \in SUBSET (Int \X Int) /\ \A d \in Directions : d[1] \in {-1, 0, 1}
    BY DEF Directions, Straight, Diagonal
  <2>2. Reached(p, from) = Near(from, Directions)
    BY <1>2 DEF Reached
  <2>3. File(from) \in Int
    BY Coordinates
  <2>. QED  BY <2>1, <2>2, <2>3, NearIs
<1>3. CASE p.men[from].type \notin {"knight", "king"}
  <2>1. Reached(p, from) = UNION {Seen(p.men, from, d) :
                             d \in {e \in Directions : p.men[from].type \in Sliders(e)}}
    BY <1>3 DEF Reached
  <2>2. \A d \in Directions : Seen(p.men, from, d) \subseteq Squares
    BY SeenOnBoard
  <2>. QED  BY <1>3, <2>1, <2>2
<1>. QED  BY <1>1, <1>2, <1>3

(* The moves of the other men, castling aside.                                *)
LEMMA PieceMoveForm ==
  ASSUME NEW p, NEW from \in Squares, NEW m \in PieceMoves(p, from)
  PROVE  m.from = from /\ PieceForm(p, m)
<1>1. PICK s \in Reached(p, from) : /\ s \in DOMAIN p.men => p.men[s].color # p.side
                                    /\ m = Move(from, s, IF s \in DOMAIN p.men THEN {"capture"} ELSE {})
  BY DEF PieceMoves
<1>. DEFINE flags == IF s \in DOMAIN p.men THEN {"capture"} ELSE {}
<1>2. m = Move(from, s, flags)
  BY <1>1
<1>. HIDE DEF flags
<1>3. IsMove(m) /\ m.from = from /\ m.to = s /\ m.promotion = "none" /\ m.flags = flags
  BY <1>2 DEF Move, IsMove
<1>4. s \in Squares /\ (p.men[from].type = "king" => File(s) - File(from) \in {-1, 0, 1})
  BY ReachedOnBoard
<1>. QED  BY <1>1, <1>3, <1>4 DEF PieceForm, flags

(* A move is one of these, of a man of the side to move.                      *)
LEMMA MoveForm ==
  ASSUME NEW p, IsPlacement(p.men), p.side \in Colors, NEW m \in PseudoLegal(p)
  PROVE  /\ m.from \in DOMAIN p.men /\ p.men[m.from].color = p.side
         /\ \/ p.men[m.from].type = "pawn" /\ PawnForm(p, m)
            \/ p.men[m.from].type # "pawn" /\ PieceForm(p, m)
            \/ p.men[m.from].type = "king" /\ CastleForm(p, m)
<1>1. PICK s \in DOMAIN p.men : p.men[s].color = p.side /\ m \in MovesFrom(p, s)
  BY DEF PseudoLegal
<1>2. s \in Squares
  BY DEF IsPlacement
<1>3. CASE p.men[s].type = "pawn"
  <2>1. m \in PawnMoves(p, s)
    BY <1>1, <1>3 DEF MovesFrom
  <2>. QED  BY <1>1, <1>2, <1>3, <2>1, PawnMoveForm
<1>4. CASE p.men[s].type # "pawn" /\ m \in PieceMoves(p, s)
  BY <1>1, <1>2, <1>4, PieceMoveForm
<1>5. CASE p.men[s].type = "king" /\ m \in CastlingMoves(p, s)
  <2>1. PICK c \in Castlings : /\ c.color = p.side /\ c.king = s /\ Is(p.men, c.rook, p.side, "rook")
                               /\ c.empty \cap DOMAIN p.men = {}
                               /\ m = Move(s, c.to, {c.flag})
    BY <1>5 DEF CastlingMoves
  <2>2. m.from = s
    BY <2>1 DEF Move
  <2>3. CastleForm(p, m)
    BY <2>1 DEF CastleForm
  <2>. QED  BY <1>1, <1>5, <2>2, <2>3
<1>6. p.men[s].type = "pawn" \/ (p.men[s].type # "pawn" /\ m \in PieceMoves(p, s))
      \/ (p.men[s].type = "king" /\ m \in CastlingMoves(p, s))
  BY <1>1 DEF MovesFrom
<1>. QED  BY <1>3, <1>4, <1>5, <1>6

(* Two squares on the same file and the same rank are one.                    *)
LEMMA SameSquare ==
  ASSUME NEW s \in Squares, NEW q \in Squares, File(s) = File(q), Rank(s) = Rank(q)
  PROVE  s = q
<1>1. s = File(s) + 8 * Rank(s) /\ q = File(q) + 8 * Rank(q)
  BY Coordinates
<1>. QED  BY <1>1

(* Equal in every field, moves are equal.                                     *)
LEMMA SameMove ==
  ASSUME NEW m, NEW n, IsMove(m), IsMove(n), m.from = n.from, m.to = n.to,
         m.promotion = n.promotion, m.flags = n.flags
  PROVE  m = n
BY DEF IsMove

(* A pawn's two moves to one square: what they take and become is the same.   *)
LEMMA SamePawnMove ==
  ASSUME NEW p, NEW m, NEW n, p.side \in Colors, PawnForm(p, m), PawnForm(p, n),
         m.from = n.from, m.from \in Squares, m.to = n.to,
         "promotion" \in n.flags => n.promotion = m.promotion
  PROVE  m = n
<1>. DEFINE step == Forward(p.side)
<1>1. step \in {-1, 1} /\ File(m.from) \in Int /\ Rank(m.from) \in Int
  BY Coordinates DEF Forward
<1>2. ASSUME NEW F, Promoted(m, F), Promoted(n, F)  PROVE m = n
  <2>1. m.flags = n.flags /\ m.promotion = n.promotion
    BY <1>2 DEF Promoted
  <2>. QED  BY <2>1, SameMove DEF PawnForm
<1>3. CASE PawnPlain(p, m) /\ PawnPlain(p, n)
  BY <1>2, <1>3 DEF PawnPlain
<1>4. CASE PawnTakes(p, m) /\ PawnTakes(p, n)
  BY <1>2, <1>4 DEF PawnTakes
<1>5. CASE PawnDoubles(p, m) /\ PawnDoubles(p, n)
  BY <1>5, SameMove DEF PawnDoubles, PawnForm
<1>6. ~(PawnTakes(p, m) /\ (PawnPlain(p, n) \/ PawnDoubles(p, n)))
      /\ ~(PawnTakes(p, n) /\ (PawnPlain(p, m) \/ PawnDoubles(p, m)))
  <2>1. \A x : PawnTakes(p, x) => File(x.to) \in {File(x.from) - 1, File(x.from) + 1}
    BY DEF PawnTakes
  <2>2. \A x : PawnPlain(p, x) \/ PawnDoubles(p, x) => File(x.to) = File(x.from)
    BY DEF PawnPlain, PawnDoubles
  <2>3. \A i \in Int : i # i - 1 /\ i # i + 1
    OBVIOUS
  <2>. QED  BY <1>1, <2>1, <2>2, <2>3
<1>7. ~(PawnPlain(p, m) /\ PawnDoubles(p, n)) /\ ~(PawnPlain(p, n) /\ PawnDoubles(p, m))
  BY <1>1 DEF PawnPlain, PawnDoubles
<1>. QED  BY <1>3, <1>4, <1>5, <1>6, <1>7 DEF PawnForm

(* A man's two moves to one square, castling left aside.                      *)
LEMMA SamePieceMove ==
  ASSUME NEW p, NEW m, NEW n, PieceForm(p, m), PieceForm(p, n),
         m.from = n.from, m.to = n.to
  PROVE  m = n
BY SameMove DEF PieceForm

(* The four castlings, field by field.                                        *)
LEMMA CastlingIs ==
  ASSUME NEW c \in Castlings
  PROVE  \/ c.color = "white" /\ c.flag = "king_castle" /\ c.king = 4 /\ c.to = 6
         \/ c.color = "white" /\ c.flag = "queen_castle" /\ c.king = 4 /\ c.to = 2
         \/ c.color = "black" /\ c.flag = "king_castle" /\ c.king = 60 /\ c.to = 62
         \/ c.color = "black" /\ c.flag = "queen_castle" /\ c.king = 60 /\ c.to = 58
<1>1. CASE c = Castling("white", "K", "king_castle", 4, 6, 7, 5, {5, 6}, {5, 6})
  <2>1. PICK s, t : c = Castling("white", "K", "king_castle", 4, 6, 7, 5, s, t)
    BY <1>1
  <2>. QED  BY ONLY <2>1 DEF Castling
<1>2. CASE c = Castling("white", "Q", "queen_castle", 4, 2, 0, 3, {1, 2, 3}, {2, 3})
  <2>1. PICK s, t : c = Castling("white", "Q", "queen_castle", 4, 2, 0, 3, s, t)
    BY <1>2
  <2>. QED  BY ONLY <2>1 DEF Castling
<1>3. CASE c = Castling("black", "k", "king_castle", 60, 62, 63, 61, {61, 62}, {61, 62})
  <2>1. PICK s, t : c = Castling("black", "k", "king_castle", 60, 62, 63, 61, s, t)
    BY <1>3
  <2>. QED  BY ONLY <2>1 DEF Castling
<1>4. CASE c = Castling("black", "q", "queen_castle", 60, 58, 56, 59, {57, 58, 59}, {58, 59})
  <2>1. PICK s, t : c = Castling("black", "q", "queen_castle", 60, 58, 56, 59, s, t)
    BY <1>4
  <2>. QED  BY ONLY <2>1 DEF Castling
<1>. QED  BY <1>1, <1>2, <1>3, <1>4, Zenon DEF Castlings

(* The rook lands on the board, on squares that have to be empty.             *)
LEMMA CastlingRook ==
  ASSUME NEW c \in Castlings
  PROVE  c.rookTo \in Squares
<1>1. CASE c = Castling("white", "K", "king_castle", 4, 6, 7, 5, {5, 6}, {5, 6})
  <2>1. PICK s, t : c = Castling("white", "K", "king_castle", 4, 6, 7, 5, s, t)
    BY <1>1
  <2>2. c.rookTo = 5
    BY ONLY <2>1 DEF Castling
  <2>. QED  BY ONLY <2>2 DEF Squares
<1>2. CASE c = Castling("white", "Q", "queen_castle", 4, 2, 0, 3, {1, 2, 3}, {2, 3})
  <2>1. PICK s, t : c = Castling("white", "Q", "queen_castle", 4, 2, 0, 3, s, t)
    BY <1>2
  <2>2. c.rookTo = 3
    BY ONLY <2>1 DEF Castling
  <2>. QED  BY ONLY <2>2 DEF Squares
<1>3. CASE c = Castling("black", "k", "king_castle", 60, 62, 63, 61, {61, 62}, {61, 62})
  <2>1. PICK s, t : c = Castling("black", "k", "king_castle", 60, 62, 63, 61, s, t)
    BY <1>3
  <2>2. c.rookTo = 61
    BY ONLY <2>1 DEF Castling
  <2>. QED  BY ONLY <2>2 DEF Squares
<1>4. CASE c = Castling("black", "q", "queen_castle", 60, 58, 56, 59, {57, 58, 59}, {58, 59})
  <2>1. PICK s, t : c = Castling("black", "q", "queen_castle", 60, 58, 56, 59, s, t)
    BY <1>4
  <2>2. c.rookTo = 59
    BY ONLY <2>1 DEF Castling
  <2>. QED  BY ONLY <2>2 DEF Squares
<1>. QED  BY <1>1, <1>2, <1>3, <1>4, Zenon DEF Castlings

LEMMA CastlingEmpty ==
  ASSUME NEW c \in Castlings
  PROVE  c.to \in c.empty /\ c.rookTo \in c.empty
<1>1. CASE c = Castling("white", "K", "king_castle", 4, 6, 7, 5, {5, 6}, {5, 6})
  <2>1. PICK e, t : e = {5, 6} /\ c = Castling("white", "K", "king_castle", 4, 6, 7, 5, e, t)
    BY <1>1
  <2>2. c.to = 6 /\ c.rookTo = 5 /\ c.empty = e
    BY ONLY <2>1 DEF Castling
  <2>. QED  BY ONLY <2>1, <2>2
<1>2. CASE c = Castling("white", "Q", "queen_castle", 4, 2, 0, 3, {1, 2, 3}, {2, 3})
  <2>1. PICK e, t : e = {1, 2, 3} /\ c = Castling("white", "Q", "queen_castle", 4, 2, 0, 3, e, t)
    BY <1>2
  <2>2. c.to = 2 /\ c.rookTo = 3 /\ c.empty = e
    BY ONLY <2>1 DEF Castling
  <2>. QED  BY ONLY <2>1, <2>2
<1>3. CASE c = Castling("black", "k", "king_castle", 60, 62, 63, 61, {61, 62}, {61, 62})
  <2>1. PICK e, t : e = {61, 62} /\ c = Castling("black", "k", "king_castle", 60, 62, 63, 61, e, t)
    BY <1>3
  <2>2. c.to = 62 /\ c.rookTo = 61 /\ c.empty = e
    BY ONLY <2>1 DEF Castling
  <2>. QED  BY ONLY <2>1, <2>2
<1>4. CASE c = Castling("black", "q", "queen_castle", 60, 58, 56, 59, {57, 58, 59}, {58, 59})
  <2>1. PICK e, t : e = {57, 58, 59} /\ c = Castling("black", "q", "queen_castle", 60, 58, 56, 59, e, t)
    BY <1>4
  <2>2. c.to = 58 /\ c.rookTo = 59 /\ c.empty = e
    BY ONLY <2>1 DEF Castling
  <2>. QED  BY ONLY <2>1, <2>2
<1>. QED  BY <1>1, <1>2, <1>3, <1>4, Zenon DEF Castlings

(* The four castlings, square by square.                                      *)
LEMMA CastlingSquares ==
  ASSUME NEW c \in Castlings
  PROVE  \/ /\ c.color = "white" /\ c.king = 4
            /\ \/ c.to = 6 /\ c.rook = 7 /\ c.rookTo = 5 /\ c.right = "K"
               \/ c.to = 2 /\ c.rook = 0 /\ c.rookTo = 3 /\ c.right = "Q"
         \/ /\ c.color = "black" /\ c.king = 60
            /\ \/ c.to = 62 /\ c.rook = 63 /\ c.rookTo = 61 /\ c.right = "k"
               \/ c.to = 58 /\ c.rook = 56 /\ c.rookTo = 59 /\ c.right = "q"
<1>1. CASE c = Castling("white", "K", "king_castle", 4, 6, 7, 5, {5, 6}, {5, 6})
  <2>1. PICK e, t : c = Castling("white", "K", "king_castle", 4, 6, 7, 5, e, t)
    BY <1>1
  <2>2. /\ c.color = "white" /\ c.right = "K" /\ c.king = 4 /\ c.to = 6
        /\ c.rook = 7 /\ c.rookTo = 5
    BY ONLY <2>1 DEF Castling
  <2>. QED  BY <2>2, Zenon
<1>2. CASE c = Castling("white", "Q", "queen_castle", 4, 2, 0, 3, {1, 2, 3}, {2, 3})
  <2>1. PICK e, t : c = Castling("white", "Q", "queen_castle", 4, 2, 0, 3, e, t)
    BY <1>2
  <2>2. /\ c.color = "white" /\ c.right = "Q" /\ c.king = 4 /\ c.to = 2
        /\ c.rook = 0 /\ c.rookTo = 3
    BY ONLY <2>1 DEF Castling
  <2>. QED  BY <2>2, Zenon
<1>3. CASE c = Castling("black", "k", "king_castle", 60, 62, 63, 61, {61, 62}, {61, 62})
  <2>1. PICK e, t : c = Castling("black", "k", "king_castle", 60, 62, 63, 61, e, t)
    BY <1>3
  <2>2. /\ c.color = "black" /\ c.right = "k" /\ c.king = 60 /\ c.to = 62
        /\ c.rook = 63 /\ c.rookTo = 61
    BY ONLY <2>1 DEF Castling
  <2>. QED  BY <2>2, Zenon
<1>4. CASE c = Castling("black", "q", "queen_castle", 60, 58, 56, 59, {57, 58, 59}, {58, 59})
  <2>1. PICK e, t : c = Castling("black", "q", "queen_castle", 60, 58, 56, 59, e, t)
    BY <1>4
  <2>2. /\ c.color = "black" /\ c.right = "q" /\ c.king = 60 /\ c.to = 58
        /\ c.rook = 56 /\ c.rookTo = 59
    BY ONLY <2>1 DEF Castling
  <2>. QED  BY <2>2, Zenon
<1>. QED  BY <1>1, <1>2, <1>3, <1>4, Zenon DEF Castlings

(* A castling is told by its side and its flag, or its side and where the king goes. *)
LEMMA FourCastlings ==
  ASSUME NEW c \in Castlings, NEW d \in Castlings, c.color = d.color,
         c.flag = d.flag \/ c.to = d.to
  PROVE  c = d
<1>. DEFINE short == Castling("white", "K", "king_castle", 4, 6, 7, 5, {5, 6}, {5, 6})
            long == Castling("white", "Q", "queen_castle", 4, 2, 0, 3, {1, 2, 3}, {2, 3})
            shortBlack == Castling("black", "k", "king_castle", 60, 62, 63, 61, {61, 62}, {61, 62})
            longBlack == Castling("black", "q", "queen_castle", 60, 58, 56, 59, {57, 58, 59}, {58, 59})
<1>0. \A x : x \in Castlings <=> x = short \/ x = long \/ x = shortBlack \/ x = longBlack
  BY Zenon DEF Castlings
<1>1. short.color = "white" /\ short.flag = "king_castle" /\ short.to = 6
  BY DEF Castling
<1>2. long.color = "white" /\ long.flag = "queen_castle" /\ long.to = 2
  BY DEF Castling
<1>3. shortBlack.color = "black" /\ shortBlack.flag = "king_castle" /\ shortBlack.to = 62
  BY DEF Castling
<1>4. longBlack.color = "black" /\ longBlack.flag = "queen_castle" /\ longBlack.to = 58
  BY DEF Castling
<1>5. short.to # long.to /\ shortBlack.to # longBlack.to
  <2>1. 6 # 2 /\ 62 # 58
    OBVIOUS
  <2>. QED  BY <1>1, <1>2, <1>3, <1>4, <2>1, Zenon
<1>. HIDE DEF short, long, shortBlack, longBlack
<1>6. ASSUME NEW x, NEW y, x.color = y.color, x.flag = y.flag \/ x.to = y.to,
             x = short \/ x = long \/ x = shortBlack \/ x = longBlack,
             y = short \/ y = long \/ y = shortBlack \/ y = longBlack
      PROVE  x = y
  <2>1. CASE x = short
    BY <1>1, <1>2, <1>3, <1>4, <1>5, <1>6, <2>1, Zenon
  <2>2. CASE x = long
    BY <1>1, <1>2, <1>3, <1>4, <1>5, <1>6, <2>2, Zenon
  <2>3. CASE x = shortBlack
    BY <1>1, <1>2, <1>3, <1>4, <1>5, <1>6, <2>3, Zenon
  <2>4. CASE x = longBlack
    BY <1>1, <1>2, <1>3, <1>4, <1>5, <1>6, <2>4, Zenon
  <2>. QED  BY <1>6, <2>1, <2>2, <2>3, <2>4, Zenon
<1>. QED  BY <1>0, <1>6, Zenon

(* Castling is what it is called, and the king goes two files.                *)
LEMMA SameCastle ==
  ASSUME NEW p, NEW m, NEW n, CastleForm(p, m), CastleForm(p, n),
         m.flags = n.flags \/ m.to = n.to
  PROVE  m = n
<1>1. PICK c \in Castlings : c.color = p.side /\ m = Move(c.king, c.to, {c.flag})
  BY DEF CastleForm
<1>2. PICK d \in Castlings : d.color = p.side /\ n = Move(d.king, d.to, {d.flag})
  BY DEF CastleForm
<1>3. m.flags = {c.flag} /\ n.flags = {d.flag} /\ m.to = c.to /\ n.to = d.to
  BY <1>1, <1>2 DEF Move
<1>4. c.flag = d.flag \/ c.to = d.to
  BY <1>3
<1>. QED  BY <1>1, <1>2, <1>4, FourCastlings

(* Only a castling takes a king further than one file.                        *)
LEMMA CastleIsFar ==
  ASSUME NEW p, NEW m, CastleForm(p, m)
  PROVE  /\ File(m.to) - File(m.from) \notin {-1, 0, 1}
         /\ \E c \in Castlings : c.color = p.side /\ c.flag \in m.flags
<1>1. PICK c \in Castlings : c.color = p.side /\ m = Move(c.king, c.to, {c.flag})
  BY DEF CastleForm
<1>2. m.flags = {c.flag} /\ m.to = c.to /\ m.from = c.king
  BY <1>1 DEF Move
<1>3. (c.king = 4 /\ c.to \in {2, 6}) \/ (c.king = 60 /\ c.to \in {58, 62})
  BY CastlingIs
<1>4. File(c.to) - File(c.king) \notin {-1, 0, 1}
  BY ONLY <1>3 DEF File
<1>. QED  BY <1>1, <1>2, <1>4

(* No other move castles.                                                     *)
LEMMA NotCastling ==
  ASSUME NEW p, NEW m, PawnForm(p, m) \/ PieceForm(p, m)
  PROVE  RookMoves(p.side, m) = {}
<1>1. \A f \in m.flags : f \in {"capture", "en_passant", "promotion", "double"}
  <2>1. \A F : Promoted(m, F) => \A f \in m.flags : f \in F \/ f = "promotion"
    BY DEF Promoted
  <2>2. PawnPlain(p, m) => \A f \in m.flags : f = "promotion"
    BY <2>1 DEF PawnPlain
  <2>3. PawnTakes(p, m) => \A f \in m.flags : f \in {"capture", "en_passant", "promotion"}
    <3>1. \A f : f \in (IF Taken(p, m.to) THEN {"capture"} ELSE {"capture", "en_passant"})
                  => f \in {"capture", "en_passant"}
      OBVIOUS
    <3>. QED  BY <2>1, <3>1 DEF PawnTakes
  <2>4. PawnDoubles(p, m) => \A f \in m.flags : f = "double"
    BY DEF PawnDoubles
  <2>5. PieceForm(p, m) => \A f \in m.flags : f = "capture"
    BY DEF PieceForm
  <2>. QED  BY <2>2, <2>3, <2>4, <2>5 DEF PawnForm
<1>2. \A c \in Castlings : c.flag \in {"king_castle", "queen_castle"}
  BY CastlingIs
<1>. QED  BY <1>1, <1>2 DEF RookMoves

(* Castling is the move that takes a rook along.                              *)
LEMMA IsCastling ==
  ASSUME NEW p, NEW m, CastleForm(p, m)
  PROVE  RookMoves(p.side, m) # {}
BY CastleIsFar DEF RookMoves

-----------------------------------------------------------------------------
(* The name of a move.                                                        *)

(* Two moves with one name both castle or neither does.                       *)
LEMMA NameCastles ==
  ASSUME NEW a, NEW b, NEW c, NEW d, NEW e, NEW f, NEW g
  PROVE  [castle |-> g] # [man |-> a, takes |-> b, to |-> c, file |-> d, rank |-> e, promotion |-> f]
<1>1. "castle" \in DOMAIN [castle |-> g]
  OBVIOUS
<1>2. "castle" \notin DOMAIN [man |-> a, takes |-> b, to |-> c, file |-> d, rank |-> e,
                              promotion |-> f]
  OBVIOUS
<1>. QED  BY <1>1, <1>2

(* The origin that is shown tells a man from each of those that could go there too. *)
LEMMA OriginTells ==
  ASSUME NEW rivals, NEW from \in Squares, NEW n \in rivals, n.from \in Squares, n.from # from
  PROVE  \/ "file" \in Origin(rivals, from) /\ File(n.from) # File(from)
         \/ "rank" \in Origin(rivals, from) /\ Rank(n.from) # Rank(from)
<1>1. rivals # {}
  OBVIOUS
<1>2. CASE \A c \in rivals : File(c.from) # File(from)
  <2>1. Origin(rivals, from) = {"file"}
    BY <1>1, <1>2 DEF Origin
  <2>. QED  BY <1>2, <2>1
<1>3. CASE ~(\A c \in rivals : File(c.from) # File(from))
           /\ \A c \in rivals : Rank(c.from) # Rank(from)
  <2>1. Origin(rivals, from) = {"rank"}
    BY <1>1, <1>3 DEF Origin
  <2>. QED  BY <1>3, <2>1
<1>4. CASE ~(\A c \in rivals : File(c.from) # File(from))
           /\ ~(\A c \in rivals : Rank(c.from) # Rank(from))
  <2>1. Origin(rivals, from) = {"file", "rank"}
    BY <1>1, <1>4 DEF Origin
  <2>. QED  BY <2>1, SameSquare
<1>. QED  BY <1>2, <1>3, <1>4

(* Equal names have equal fields.                                             *)
LEMMA NameFields ==
  ASSUME NEW a, NEW b, NEW c, NEW d, NEW e, NEW f,
         NEW u, NEW v, NEW w, NEW x, NEW y, NEW z,
         [man |-> a, takes |-> b, to |-> c, file |-> d, rank |-> e, promotion |-> f]
           = [man |-> u, takes |-> v, to |-> w, file |-> x, rank |-> y, promotion |-> z]
  PROVE  a = u /\ b = v /\ c = w /\ d = x /\ e = y /\ f = z
<1>. DEFINE r == [man |-> a, takes |-> b, to |-> c, file |-> d, rank |-> e, promotion |-> f]
            s == [man |-> u, takes |-> v, to |-> w, file |-> x, rank |-> y, promotion |-> z]
<1>1. r.man = a /\ r.takes = b /\ r.to = c /\ r.file = d /\ r.rank = e /\ r.promotion = f
  BY Zenon
<1>2. s.man = u /\ s.takes = v /\ s.to = w /\ s.file = x /\ s.rank = y /\ s.promotion = z
  BY Zenon
<1>3. r = s
  OBVIOUS
<1>. HIDE DEF r, s
<1>. QED  BY <1>1, <1>2, <1>3, Zenon

(* Two pawns that go to one square as their names say are one pawn.           *)
LEMMA PawnTold ==
  ASSUME NEW p, NEW m, NEW n, p.side \in Colors, PawnForm(p, m), PawnForm(p, n),
         m.from \in Squares \cap DOMAIN p.men, n.from \in Squares \cap DOMAIN p.men,
         m.to = n.to, "capture" \in m.flags <=> "capture" \in n.flags,
         "capture" \in m.flags => File(m.from) = File(n.from)
  PROVE  m.from = n.from
<1>. DEFINE step == Forward(p.side)
<1>1. /\ step \in {-1, 1} /\ File(m.to) \in Int /\ Rank(m.to) \in Int
      /\ \A s \in Squares : File(s) \in Int /\ Rank(s) \in Int
  BY Coordinates DEF Forward, PawnForm
<1>2. ASSUME NEW x, PawnForm(p, x)
      PROVE  "capture" \in x.flags <=> PawnTakes(p, x)
  <2>1. \A F : Promoted(x, F) => ("capture" \in x.flags <=> "capture" \in F)
    BY DEF Promoted
  <2>2. PawnPlain(p, x) => "capture" \notin x.flags
    BY <2>1 DEF PawnPlain
  <2>3. PawnDoubles(p, x) => "capture" \notin x.flags
    BY DEF PawnDoubles
  <2>4. PawnTakes(p, x) => "capture" \in x.flags
    <3>1. "capture" \in (IF Taken(p, x.to) THEN {"capture"} ELSE {"capture", "en_passant"})
      OBVIOUS
    <3>. QED  BY <2>1, <3>1 DEF PawnTakes
  <2>. QED  BY <1>2, <2>2, <2>3, <2>4 DEF PawnForm
<1>3. CASE PawnTakes(p, m)
  <2>1. PawnTakes(p, n) /\ File(m.from) = File(n.from)
    BY <1>2, <1>3
  <2>2. Rank(m.to) = Rank(m.from) + step /\ Rank(n.to) = Rank(n.from) + step
    BY <1>3, <2>1 DEF PawnTakes
  <2>3. Rank(m.from) = Rank(n.from)
    <3>1. step \in Int /\ Rank(m.from) \in Int /\ Rank(n.from) \in Int
      BY <1>1
    <3>2. Rank(m.from) + step = Rank(n.from) + step
      BY <2>2
    <3>. HIDE DEF step
    <3>3. \A a, b, c \in Int : a + c = b + c => a = b
      OBVIOUS
    <3>. QED  BY <3>1, <3>2, <3>3, Zenon
  <2>. QED  BY <2>1, <2>3, SameSquare
<1>4. CASE ~PawnTakes(p, m)
  <2>1. ~PawnTakes(p, n)
    BY <1>2, <1>4
  <2>2. File(m.from) = File(n.from)
    BY <1>4, <2>1 DEF PawnForm, PawnPlain, PawnDoubles
  <2>3. ASSUME NEW x, NEW y, PawnPlain(p, x), PawnDoubles(p, y), x.to = y.to,
               x.from \in Squares \cap DOMAIN p.men, y.from \in Squares, File(x.from) = File(y.from)
        PROVE  FALSE
    <3>1. PICK s \in Squares : /\ File(s) = File(y.from) /\ Rank(s) = Rank(y.from) + step
                               /\ s \notin DOMAIN p.men
      BY <2>3 DEF PawnDoubles
    <3>2. Rank(x.to) = Rank(x.from) + step /\ Rank(x.to) = Rank(y.from) + 2 * step
      BY <2>3 DEF PawnPlain, PawnDoubles
    <3>3. Rank(s) = Rank(x.from)
      BY <1>1, <2>3, <3>1, <3>2
    <3>4. s = x.from
      BY <2>3, <3>1, <3>3, SameSquare
    <3>. QED  BY <2>3, <3>1, <3>4
  <2>4. Rank(m.from) = Rank(n.from)
    <3>1. CASE PawnPlain(p, m) /\ PawnPlain(p, n)
      BY <1>1, <3>1 DEF PawnPlain
    <3>2. CASE PawnDoubles(p, m) /\ PawnDoubles(p, n)
      BY <1>1, <3>2 DEF PawnDoubles
    <3>. QED  BY <1>4, <2>1, <2>2, <2>3, <3>1, <3>2 DEF PawnForm
  <2>. QED  BY <2>2, <2>4, SameSquare
<1>. QED  BY <1>3, <1>4

(* Two legal moves of one name in SAN are one move.                           *)
LEMMA SanTells ==
  ASSUME NEW p, IsPlacement(p.men), p.side \in Colors, NEW m \in Legal(p), NEW n \in Legal(p),
         San(p, Legal(p), m) = San(p, Legal(p), n)
  PROVE  m = n
<1>. DEFINE legal     == Legal(p)
            rivals(x) == {c \in legal : c.from # x.from /\ c.to = x.to
                                        /\ p.men[c.from] = p.men[x.from]}
            shown(x)  == IF p.men[x.from].type # "pawn" THEN Origin(rivals(x), x.from)
                         ELSE IF "capture" \in x.flags THEN {"file"} ELSE {}
            file(x)   == IF "file" \in shown(x) THEN File(x.from) ELSE NoSquare
            rank(x)   == IF "rank" \in shown(x) THEN Rank(x.from) ELSE NoSquare
            plain(x)  == [man |-> p.men[x.from].type, takes |-> "capture" \in x.flags,
                          to |-> x.to, file |-> file(x), rank |-> rank(x),
                          promotion |-> x.promotion]
<1>1. \A x : San(p, legal, x) = IF RookMoves(p.side, x) # {} THEN [castle |-> x.flags] ELSE plain(x)
  BY Zenon DEF San
<1>2. \A x, g : [castle |-> g] # plain(x)
  BY NameCastles, Zenon
<1>3. ASSUME NEW x, NEW y, plain(x) = plain(y)
      PROVE  /\ p.men[x.from].type = p.men[y.from].type
             /\ ("capture" \in x.flags) = ("capture" \in y.flags)
             /\ x.to = y.to /\ file(x) = file(y) /\ rank(x) = rank(y) /\ x.promotion = y.promotion
  <2>. HIDE DEF file, rank
  <2>. QED  BY <1>3, NameFields, Zenon
<1>4. m \in legal /\ n \in legal /\ San(p, legal, m) = San(p, legal, n)
  OBVIOUS
<1>5. ASSUME NEW x \in legal
      PROVE  /\ x.from \in Squares \cap DOMAIN p.men
             /\ p.men[x.from] \in Men /\ p.men[x.from].color = p.side
             /\ \/ p.men[x.from].type = "pawn" /\ PawnForm(p, x)
                \/ p.men[x.from].type # "pawn" /\ PieceForm(p, x)
                \/ p.men[x.from].type = "king" /\ CastleForm(p, x)
  BY MoveForm DEF Legal, IsPlacement
<1>6. \A x \in legal : RookMoves(p.side, x) = {} <=> ~CastleForm(p, x)
  BY <1>5, IsCastling, NotCastling
<1>. HIDE DEF legal, plain
<1>7. CastleForm(p, m) <=> CastleForm(p, n)
  BY <1>1, <1>6, <1>2, <1>4, Zenon
<1>8. CASE CastleForm(p, m)
  <2>1. [castle |-> m.flags] = [castle |-> n.flags]
    BY <1>1, <1>6, <1>8, <1>4, <1>7, Zenon
  <2>2. m.flags = n.flags
    BY ONLY <2>1
  <2>. QED  BY <1>8, <1>7, <2>2, SameCastle
<1>9. CASE ~CastleForm(p, m)
  <2>1. ~CastleForm(p, n)
    BY <1>9, <1>7
  <2>2. plain(m) = plain(n)
    BY <1>1, <1>6, <1>9, <1>4, <2>1, Zenon
  <2>3. /\ p.men[m.from].type = p.men[n.from].type
        /\ ("capture" \in m.flags) = ("capture" \in n.flags)
        /\ m.to = n.to /\ file(m) = file(n) /\ rank(m) = rank(n) /\ m.promotion = n.promotion
    BY <1>3, <2>2
  <2>4. CASE p.men[m.from].type = "pawn"
    <3>1. PawnForm(p, m) /\ PawnForm(p, n)
      BY <1>5, <1>9, <1>4, <2>1, <2>3, <2>4
    <3>2. "capture" \in m.flags => File(m.from) = File(n.from)
      BY <2>3, <2>4
    <3>3. m.from = n.from
      BY <1>5, <1>4, <2>3, <3>1, <3>2, PawnTold
    <3>. QED  BY <1>5, <1>4, <2>3, <3>1, <3>3, SamePawnMove
  <2>5. CASE p.men[m.from].type # "pawn"
    <3>1. PieceForm(p, m) /\ PieceForm(p, n)
      BY <1>5, <1>9, <1>4, <2>1, <2>3, <2>5
    <3>2. p.men[m.from] = p.men[n.from]
      BY <1>5, <1>4, <2>3 DEF Men
    <3>3. SUFFICES ASSUME m.from # n.from  PROVE FALSE
      BY <2>3, <3>1, SamePieceMove
    <3>4. n \in rivals(m)
      BY <1>4, <2>3, <3>2, <3>3
    <3>5. shown(m) = Origin(rivals(m), m.from)
      BY <2>5
    <3>. HIDE DEF rivals
    <3>6. \/ "file" \in shown(m) /\ File(n.from) # File(m.from)
          \/ "rank" \in shown(m) /\ Rank(n.from) # Rank(m.from)
      BY <1>5, <1>4, <3>3, <3>4, <3>5, OriginTells
    <3>7. File(m.from) # NoSquare /\ Rank(m.from) # NoSquare
      BY <1>5, <1>4, Coordinates DEF NoSquare
    <3>. HIDE DEF shown
    <3>. QED  BY <2>3, <3>6, <3>7
  <2>. QED  BY <2>4, <2>5
<1>. QED  BY <1>8, <1>9

(* Two legal moves of one name in UCI are one move.                           *)
LEMMA UciTells ==
  ASSUME NEW p, IsPlacement(p.men), p.side \in Colors, NEW m \in Legal(p), NEW n \in Legal(p),
         m.from = n.from, m.to = n.to, "promotion" \in n.flags => n.promotion = m.promotion
  PROVE  m = n
<1>1. /\ m.from \in Squares \cap DOMAIN p.men
      /\ \/ p.men[m.from].type = "pawn" /\ PawnForm(p, m)
         \/ p.men[m.from].type # "pawn" /\ PieceForm(p, m)
         \/ p.men[m.from].type = "king" /\ CastleForm(p, m)
      /\ \/ p.men[m.from].type = "pawn" /\ PawnForm(p, n)
         \/ p.men[m.from].type # "pawn" /\ PieceForm(p, n)
         \/ p.men[m.from].type = "king" /\ CastleForm(p, n)
  BY MoveForm DEF Legal, IsPlacement
<1>2. CASE p.men[m.from].type = "pawn"
  BY <1>1, <1>2, SamePawnMove
<1>3. CASE PieceForm(p, m) /\ PieceForm(p, n)
  BY <1>3, SamePieceMove
<1>4. CASE CastleForm(p, m) /\ CastleForm(p, n)
  BY <1>4, SameCastle
<1>5. p.men[m.from].type = "king" =>
        ~(PieceForm(p, m) /\ CastleForm(p, n)) /\ ~(PieceForm(p, n) /\ CastleForm(p, m))
  BY CastleIsFar DEF PieceForm
<1>. QED  BY <1>1, <1>2, <1>3, <1>4, <1>5

-----------------------------------------------------------------------------
(* A legal move leaves men on squares.                                        *)

(* Putting a man down and taking men off leave a placement.                   *)
LEMMA PlacedSet ==
  ASSUME NEW men, IsPlacement(men), NEW s \in Squares, NEW man \in Men
  PROVE  IsPlacement(Placed(men, s, man))
BY DEF IsPlacement, Placed

LEMMA ClearedSet ==
  ASSUME NEW men, IsPlacement(men), NEW S
  PROVE  IsPlacement(Cleared(men, S))
BY DEF IsPlacement, Cleared, Restrict

(* A pawn becomes a man there is.                                             *)
LEMMA PawnBecomes ==
  ASSUME NEW p, NEW m, PawnForm(p, m), "promotion" \in m.flags
  PROVE  m.promotion \in Types
<1>1. \A F : Promoted(m, F) /\ "promotion" \notin F => m.promotion \in Promotions
  BY DEF Promoted
<1>2. "promotion" \notin (IF Taken(p, m.to) THEN {"capture"} ELSE {"capture", "en_passant"})
  OBVIOUS
<1>3. PawnPlain(p, m) \/ PawnTakes(p, m)
  BY DEF PawnForm, PawnDoubles
<1>4. m.promotion \in Promotions
  BY <1>1, <1>2, <1>3 DEF PawnPlain, PawnTakes
<1>. QED  BY <1>4 DEF Promotions, Types

(* Every move ends on the board.                                              *)
LEMMA MoveTo ==
  ASSUME NEW p, IsPlacement(p.men), p.side \in Colors, NEW m \in PseudoLegal(p)
  PROVE  m.to \in Squares
<1>1. CASE CastleForm(p, m)
  <2>1. PICK x \in Castlings : m = Move(x.king, x.to, {x.flag})
    BY <1>1 DEF CastleForm
  <2>2. m.to = x.to
    BY <2>1 DEF Move
  <2>3. x.to \in {2, 6, 58, 62}
    BY CastlingIs
  <2>. QED  BY ONLY <2>2, <2>3 DEF Squares
<1>. QED  BY <1>1, MoveForm DEF PawnForm, PieceForm

(* What a move does to a placement is a placement.                            *)
LEMMA MovedSet ==
  ASSUME NEW p, IsPlacement(p.men), p.side \in Colors, NEW m \in Legal(p)
  PROVE  IsPlacement(Moved(p, m))
<1>. DEFINE man   == p.men[m.from]
            stays == Cleared(p.men, {m.from, m.to, CapturedSquare(p, m)})
            after == IF "promotion" \in m.flags THEN [man EXCEPT !.type = m.promotion] ELSE man
            put   == Placed(stays, m.to, after)
            c     == CHOOSE c \in RookMoves(p.side, m) : TRUE
<1>1. man \in Men
  BY MoveForm DEF Legal, IsPlacement
<1>2. m.to \in Squares
  BY MoveTo DEF Legal
<1>3. after \in Men
  <2>. SUFFICES ASSUME "promotion" \in m.flags  PROVE [man EXCEPT !.type = m.promotion] \in Men
    BY <1>1
  <2>1. ~PieceForm(p, m)
    BY DEF PieceForm
  <2>2. ~CastleForm(p, m)
    <3>. SUFFICES ASSUME CastleForm(p, m)  PROVE FALSE
      OBVIOUS
    <3>1. PICK x \in Castlings : m = Move(x.king, x.to, {x.flag})
      BY DEF CastleForm
    <3>2. m.flags = {x.flag}
      BY <3>1 DEF Move
    <3>. QED  BY <3>2, CastlingIs
  <2>3. m.promotion \in Types
    BY <2>1, <2>2, MoveForm, PawnBecomes DEF Legal
  <2>. HIDE DEF man
  <2>. QED  BY <1>1, <2>3 DEF Men
<1>4. IsPlacement(put)
  <2>1. IsPlacement(stays)
    BY ClearedSet
  <2>. HIDE DEF stays, after
  <2>. QED  BY <1>2, <1>3, <2>1, PlacedSet
<1>5. CASE RookMoves(p.side, m) = {}
  BY <1>4, <1>5 DEF Moved
<1>6. CASE RookMoves(p.side, m) # {}
  <2>1. CastleForm(p, m)
    BY <1>6, MoveForm, NotCastling DEF Legal
  <2>2. PICK x \in Castlings : /\ x.color = p.side /\ m = Move(x.king, x.to, {x.flag})
                               /\ Is(p.men, x.rook, p.side, "rook")
    BY <2>1 DEF CastleForm
  <2>3. m.flags = {x.flag}
    BY <2>2 DEF Move
  <2>4. c \in RookMoves(p.side, m)
    BY <1>6
  <2>. HIDE DEF c
  <2>5. c = x
    <3>1. c \in Castlings /\ c.color = x.color /\ c.flag = x.flag
      BY <2>2, <2>3, <2>4 DEF RookMoves
    <3>. QED  BY <3>1, FourCastlings
  <2>6. p.men[c.rook] \in Men
    BY <2>2, <2>5 DEF Is, IsPlacement
  <2>7. c.rookTo \in Squares
    BY <2>5, CastlingRook
  <2>8. Moved(p, m) = Placed(Cleared(put, {c.rook}), c.rookTo, p.men[c.rook])
    BY <1>6 DEF Moved, c
  <2>9. IsPlacement(Cleared(put, {c.rook}))
    BY <1>4, ClearedSet
  <2>. HIDE DEF put
  <2>. QED  BY <2>6, <2>7, <2>8, <2>9, PlacedSet
<1>. QED  BY <1>5, <1>6

-----------------------------------------------------------------------------
(* Attacks and captures.                                                      *)

(* Sight is mutual: a square is seen back along the opposite direction.       *)
Behind(d) == <<-d[1], -d[2]>>

LEMMA Reversed ==
  ASSUME NEW d \in Directions
  PROVE  /\ d[1] \in {-1, 0, 1} /\ d[2] \in {-1, 0, 1}
         /\ Behind(d) \in Directions /\ Behind(d)[1] = -d[1] /\ Behind(d)[2] = -d[2]
         /\ Behind(d) \in Diagonal <=> d \in Diagonal
<1>1. PICK a \in {-1, 0, 1}, b \in {-1, 0, 1} : d = <<a, b>> /\ (a # 0 \/ b # 0)
  BY DEF Directions, Straight, Diagonal
<1>2. \A x, y \in {-1, 0, 1} : /\ <<x, y>> \in Directions <=> x # 0 \/ y # 0
                               /\ <<x, y>> \in Diagonal <=> x # 0 /\ y # 0
  BY DEF Directions, Straight, Diagonal
<1>3. Behind(d) = <<-a, -b>>
  BY <1>1 DEF Behind
<1>4. -a \in {-1, 0, 1} /\ -b \in {-1, 0, 1} /\ (-a # 0 <=> a # 0) /\ (-b # 0 <=> b # 0)
  OBVIOUS
<1>. QED  BY <1>1, <1>2, <1>3, <1>4

(* What is seen from a square, and from where it is seen.                     *)
LEMMA SeenIs ==
  ASSUME NEW s \in Squares, NEW d \in Directions, NEW men, NEW q
  PROVE  q \in Seen(men, s, d) <=>
           \E k \in 1..7 : /\ OnBoard(s, d, k) /\ q = Step(s, d, k)
                           /\ \A i \in 1..(k - 1) : Step(s, d, i) \notin DOMAIN men
<1>1. PICK n \in 0..7 : DOMAIN Ray[s][d] = 1..n /\ {j \in 1..7 : OnBoard(s, d, j)} = 1..n
  BY RayLeads
<1>2. \A k \in 1..n : Ray[s][d][k] = Step(s, d, k)
  BY <1>1, RayLeads
<1>3. \A k \in 1..7 : OnBoard(s, d, k) <=> k \in 1..n
  BY <1>1
<1>4. q \in Seen(men, s, d) <=>
        \E k \in 1..n : q = Ray[s][d][k] /\ \A i \in 1..(k - 1) : Ray[s][d][i] \notin DOMAIN men
  BY <1>1 DEF Seen
<1>5. \A k \in 1..n : k \in 1..7 /\ \A i \in 1..(k - 1) : i \in 1..n
  OBVIOUS
<1>. QED  BY <1>2, <1>3, <1>4, <1>5

(* A step back along the way.                                                 *)
LEMMA StepBack ==
  ASSUME NEW s \in Squares, NEW d \in Directions, NEW k \in 1..7, OnBoard(s, d, k)
  PROVE  LET q == Step(s, d, k)
         IN /\ q \in Squares /\ OnBoard(q, Behind(d), k)
            /\ \A i \in 0..k : Step(q, Behind(d), i) = Step(s, d, k - i)
<1>. DEFINE q == Step(s, d, k)   a == d[1]   b == d[2]
<1>1. /\ a \in {-1, 0, 1} /\ b \in {-1, 0, 1}
      /\ Behind(d)[1] = -a /\ Behind(d)[2] = -b
  BY Reversed
<1>2. k * a \in Int /\ k * b \in Int /\ 8 * k * b = 8 * (k * b)
  BY <1>1
<1>3. /\ File(s) + k * a \in 0..7 /\ Rank(s) + k * b \in 0..7 /\ q = s + k * a + 8 * (k * b)
  BY <1>2 DEF OnBoard, Step
<1>4. q \in Squares /\ File(q) = File(s) + k * a /\ Rank(q) = Rank(s) + k * b
  <2>. HIDE DEF q, a, b
  <2>. QED  BY <1>2, <1>3, Shifted
<1>5. OnBoard(q, Behind(d), k)
  <2>1. File(s) \in 0..7 /\ Rank(s) \in 0..7
    BY Coordinates
  <2>2. k * (-a) = -(k * a) /\ k * (-b) = -(k * b)
    BY <1>1
  <2>. HIDE DEF q, a, b
  <2>3. File(q) + k * (-a) = File(s) /\ Rank(q) + k * (-b) = Rank(s)
    BY <1>2, <1>4, <2>1, <2>2
  <2>. QED  BY <1>1, <2>1, <2>3 DEF OnBoard
<1>6. ASSUME NEW i \in 0..k
      PROVE  Step(q, Behind(d), i) = Step(s, d, k - i)
  <2>1. Step(q, Behind(d), i) = q + i * (-a) + 8 * i * (-b)
    BY <1>1 DEF Step
  <2>2. Step(s, d, k - i) = s + (k - i) * a + 8 * (k - i) * b
    BY DEF Step
  <2>3. s \in Int
    BY DEF Squares
  <2>. HIDE DEF q, a, b
  <2>4. \A x, y \in {-1, 0, 1} : /\ i * (-x) = -(i * x) /\ (k - i) * x = k * x - i * x
                                 /\ 8 * i * (-y) = -(8 * (i * y))
                                 /\ 8 * (k - i) * y = 8 * (k * y) - 8 * (i * y)
                                 /\ i * x \in Int /\ i * y \in Int
    OBVIOUS
  <2>. QED  BY <1>1, <1>2, <1>3, <2>1, <2>2, <2>3, <2>4
<1>. QED  BY <1>4, <1>5, <1>6

LEMMA SeenBack ==
  ASSUME NEW s \in Squares, NEW d \in Directions, NEW men, NEW q \in Seen(men, s, d)
  PROVE  s \in Seen(men, q, Behind(d))
<1>1. PICK k \in 1..7 : /\ OnBoard(s, d, k) /\ q = Step(s, d, k)
                        /\ \A i \in 1..(k - 1) : Step(s, d, i) \notin DOMAIN men
  BY SeenIs
<1>2. /\ q \in Squares /\ OnBoard(q, Behind(d), k)
      /\ \A i \in 0..k : Step(q, Behind(d), i) = Step(s, d, k - i)
  BY <1>1, StepBack
<1>3. Step(s, d, 0) = s
  <2>1. 0 * d[1] = 0 /\ 8 * 0 * d[2] = 0
    BY Reversed
  <2>. QED  BY <2>1 DEF Step, Squares
<1>4. s = Step(q, Behind(d), k)
  BY <1>2, <1>3
<1>5. \A i \in 1..(k - 1) : Step(q, Behind(d), i) \notin DOMAIN men
  <2>1. \A i \in 1..(k - 1) : i \in 0..k /\ k - i \in 1..(k - 1)
    OBVIOUS
  <2>. QED  BY <1>1, <1>2, <2>1
<1>. QED  BY <1>2, <1>4, <1>5, Reversed, SeenIs

(* A step off and back.                                                       *)
LEMMA NearBack ==
  ASSUME NEW s \in Squares, NEW q \in Squares, NEW D \in {Leaps, Directions}, q \in Near(s, D)
  PROVE  s \in Near(q, D)
<1>1. D \in SUBSET (Int \X Int) /\ \A d \in D : <<-d[1], -d[2]>> \in D
  <2>1. CASE D = Leaps
    <3>1. \A x, y : <<x, y>> \in Leaps <=>
            x \in {-2, -1, 1, 2} /\ y \in {-2, -1, 1, 2} /\ x * x # y * y
      BY DEF Leaps
    <3>2. \A d \in Leaps : \E x, y \in {-2, -1, 1, 2} : d = <<x, y>> /\ x * x # y * y
      BY DEF Leaps
    <3>3. \A x \in {-2, -1, 1, 2} : -x \in {-2, -1, 1, 2} /\ (-x) * (-x) = x * x /\ x \in Int
      OBVIOUS
    <3>4. \A d \in Leaps : d \in Int \X Int /\ <<-d[1], -d[2]>> \in Leaps
      <4>. SUFFICES ASSUME NEW d \in Leaps  PROVE d \in Int \X Int /\ <<-d[1], -d[2]>> \in Leaps
        OBVIOUS
      <4>1. PICK x, y \in {-2, -1, 1, 2} : d = <<x, y>> /\ x * x # y * y
        BY <3>2
      <4>2. d[1] = x /\ d[2] = y
        BY <4>1
      <4>. QED  BY <3>1, <3>3, <4>1, <4>2
    <3>. QED  BY <2>1, <3>4
  <2>2. CASE D = Directions
    <3>1. \A d \in Directions : d \in Int \X Int
      BY DEF Directions, Straight, Diagonal
    <3>. QED  BY <2>2, <3>1, Reversed DEF Behind
  <2>. QED  BY <2>1, <2>2
<1>2. PICK d \in D : File(q) = File(s) + d[1] /\ Rank(q) = Rank(s) + d[2]
  BY <1>1, NearIs
<1>3. /\ File(s) = File(q) + (-d[1]) /\ Rank(s) = Rank(q) + (-d[2])
  <2>1. File(s) \in Int /\ Rank(s) \in Int /\ d[1] \in Int /\ d[2] \in Int
    BY <1>1, Coordinates
  <2>. QED  BY <1>2, <2>1
<1>4. <<-d[1], -d[2]>>[1] = -d[1] /\ <<-d[1], -d[2]>>[2] = -d[2]
  OBVIOUS
<1>. QED  BY <1>1, <1>3, <1>4, NearIs

(* What it is to be a man of a color and a type.                              *)
LEMMA ManIs ==
  ASSUME NEW men, IsPlacement(men), NEW q \in DOMAIN men, NEW c, NEW t
  PROVE  Is(men, q, c, t) <=> men[q].color = c /\ men[q].type = t
<1>1. men[q] = [color |-> men[q].color, type |-> men[q].type]
  BY DEF IsPlacement, Men
<1>. QED  BY <1>1 DEF Is

(* The squares to the left and right, b ranks on.                             *)
LEMMA NearPair ==
  ASSUME NEW s \in Squares, NEW b \in Int, NEW q \in Squares
  PROVE  q \in Near(s, {<<-1, b>>, <<1, b>>}) <=>
           (File(q) = File(s) - 1 \/ File(q) = File(s) + 1) /\ Rank(q) = Rank(s) + b
<1>. DEFINE l == <<-1, b>>  r == <<1, b>>
<1>1. l \in Int \X Int /\ r \in Int \X Int /\ l[1] = -1 /\ l[2] = b /\ r[1] = 1 /\ r[2] = b
  OBVIOUS
<1>2. File(s) \in Int /\ File(s) + (-1) = File(s) - 1
  BY Coordinates
<1>. HIDE DEF l, r
<1>3. q \in Near(s, {l, r}) <=>
        \E d \in {l, r} : File(q) = File(s) + d[1] /\ Rank(q) = Rank(s) + d[2]
  BY <1>1, NearIs
<1>4. q \in Near(s, {l, r}) <=>
        \/ File(q) = File(s) + l[1] /\ Rank(q) = Rank(s) + l[2]
        \/ File(q) = File(s) + r[1] /\ Rank(q) = Rank(s) + r[2]
  BY <1>3, Zenon
<1>5. q \in Near(s, {l, r}) <=>
        (File(q) = File(s) - 1 \/ File(q) = File(s) + 1) /\ Rank(q) = Rank(s) + b
  BY <1>1, <1>2, <1>4, Zenon
<1>. QED  BY <1>5 DEF l, r

(* A pawn stands where it could take from, seen from what it could take.      *)
LEMMA PawnSquares ==
  ASSUME NEW c \in Colors, NEW s \in Squares, NEW q
  PROVE  q \in Near(s, {<<-1, -Forward(c)>>, <<1, -Forward(c)>>}) <=>
           q \in Squares /\ s \in Near(q, {<<-1, Forward(c)>>, <<1, Forward(c)>>})
<1>. DEFINE step == Forward(c)
            back == {<<-1, -step>>, <<1, -step>>}
<1>1. step \in {-1, 1} /\ step \in Int /\ -step \in Int
  BY DEF Forward
<1>2. q \in Near(s, back) => q \in Squares
  <2>1. back \in SUBSET (Int \X Int)
    BY <1>1
  <2>. HIDE DEF back
  <2>. QED  BY <2>1, NearIs
<1>3. ASSUME q \in Squares
      PROVE  q \in Near(s, back) <=> s \in Near(q, {<<-1, step>>, <<1, step>>})
  <2>. HIDE DEF step
  <2>1. q \in Near(s, back) <=>
          (File(q) = File(s) - 1 \/ File(q) = File(s) + 1) /\ Rank(q) = Rank(s) + (-step)
    BY <1>1, <1>3, NearPair
  <2>2. s \in Near(q, {<<-1, step>>, <<1, step>>}) <=>
          (File(s) = File(q) - 1 \/ File(s) = File(q) + 1) /\ Rank(s) = Rank(q) + step
    BY <1>1, <1>3, NearPair
  <2>3. File(q) \in Int /\ Rank(q) \in Int /\ File(s) \in Int /\ Rank(s) \in Int
    BY <1>3, Coordinates
  <2>4. /\ (File(q) = File(s) - 1 \/ File(q) = File(s) + 1) <=>
             (File(s) = File(q) - 1 \/ File(s) = File(q) + 1)
        /\ Rank(q) = Rank(s) + (-step) <=> Rank(s) = Rank(q) + step
    BY <1>1, <2>3
  <2>. QED  BY <2>1, <2>2, <2>4, Zenon
<1>. QED  BY <1>2, <1>3, Zenon

(* What a move of the one side can take is attacked by it.                    *)
LEMMA CaptureAttacks ==
  ASSUME NEW p, IsPlacement(p.men), p.side \in Colors, NEW m \in PseudoLegal(p),
         m.to \in DOMAIN p.men
  PROVE  Attacked(p.men, m.to, p.side) \/ m.to = p.ep
<1>. DEFINE q == m.from  s == m.to
<1>1. /\ q \in DOMAIN p.men /\ q \in Squares /\ s \in Squares
      /\ \/ p.men[q].type = "pawn" /\ PawnForm(p, m)
         \/ p.men[q].type # "pawn" /\ PieceForm(p, m)
         \/ p.men[q].type = "king" /\ CastleForm(p, m)
  BY MoveForm DEF IsPlacement
<1>2. \A t : Is(p.men, q, p.side, t) <=> p.men[q].type = t
  BY <1>1, ManIs, MoveForm
<1>. HIDE DEF q, s
<1>3. CASE p.men[q].type = "pawn" /\ PawnForm(p, m)
  <2>1. SUFFICES ASSUME s # p.ep  PROVE Attacked(p.men, s, p.side)
    BY DEF s
  <2>2. PawnTakes(p, m)
    BY <1>3 DEF PawnForm, PawnPlain, PawnDoubles
  <2>3. /\ File(s) = File(q) + (-1) \/ File(s) = File(q) + 1
        /\ Rank(s) = Rank(q) + Forward(p.side)
    <3>1. File(q) \in Int
      BY <1>1, Coordinates
    <3>2. File(s) \in {File(q) - 1, File(q) + 1} /\ Rank(s) = Rank(q) + Forward(p.side)
      BY <2>2 DEF PawnTakes, q, s
    <3>. QED  BY <3>1, <3>2
  <2>4. s \in Near(q, {<<-1, Forward(p.side)>>, <<1, Forward(p.side)>>})
    <3>1. {<<-1, Forward(p.side)>>, <<1, Forward(p.side)>>} \in SUBSET (Int \X Int)
      BY DEF Forward
    <3>. HIDE DEF q, s
    <3>2. <<-1, Forward(p.side)>>[1] = -1 /\ <<-1, Forward(p.side)>>[2] = Forward(p.side)
          /\ <<1, Forward(p.side)>>[1] = 1 /\ <<1, Forward(p.side)>>[2] = Forward(p.side)
      OBVIOUS
    <3>. QED  BY <1>1, <2>3, <3>1, <3>2, NearIs
  <2>5. q \in Near(s, {<<-1, -Forward(p.side)>>, <<1, -Forward(p.side)>>})
    BY <1>1, <2>4, PawnSquares
  <2>. QED  BY <1>2, <1>3, <2>5 DEF Attacked
<1>4. CASE p.men[q].type # "pawn" /\ PieceForm(p, m)
  <2>1. s \in Reached(p, q)
    BY <1>4 DEF PieceForm, q, s
  <2>2. CASE p.men[q].type = "knight"
    <3>1. s \in Near(q, Leaps)
      BY <2>1, <2>2 DEF Reached
    <3>2. q \in Near(s, Leaps)
      BY <1>1, <3>1, NearBack
    <3>. QED  BY <1>2, <2>2, <3>2 DEF Attacked, s
  <2>3. CASE p.men[q].type = "king"
    <3>1. s \in Near(q, Directions)
      BY <2>1, <2>3 DEF Reached
    <3>2. q \in Near(s, Directions)
      BY <1>1, <3>1, NearBack
    <3>. QED  BY <1>2, <2>3, <3>2 DEF Attacked, s
  <2>4. CASE p.men[q].type \notin {"knight", "king"}
    <3>1. PICK d \in Directions : p.men[q].type \in Sliders(d) /\ s \in Seen(p.men, q, d)
      BY <2>1, <2>4 DEF Reached
    <3>2. q \in Seen(p.men, s, Behind(d))
      BY <1>1, <3>1, SeenBack
    <3>3. Behind(d) \in Directions /\ Sliders(Behind(d)) = Sliders(d)
      BY Reversed DEF Sliders
    <3>. QED  BY <1>2, <3>1, <3>2, <3>3 DEF Attacked, s
  <2>. QED  BY <2>2, <2>3, <2>4
<1>5. CASE CastleForm(p, m)
  <2>1. PICK c \in Castlings : m = Move(c.king, c.to, {c.flag}) /\ c.empty \cap DOMAIN p.men = {}
    BY <1>5 DEF CastleForm
  <2>2. m.to = c.to
    BY <2>1 DEF Move
  <2>. QED  BY <2>1, <2>2, CastlingEmpty
<1>. QED  BY <1>1, <1>3, <1>4, <1>5

(* And what the one side attacks it has a move that takes.                    *)
LEMMA AttackCaptures ==
  ASSUME NEW p, IsPlacement(p.men), p.side \in Colors, NEW s \in DOMAIN p.men,
         p.men[s].color # p.side, Attacked(p.men, s, p.side)
  PROVE  \E m \in PseudoLegal(p) : m.to = s
<1>1. s \in Squares /\ DOMAIN p.men \subseteq Squares
  BY DEF IsPlacement
<1>2. ASSUME NEW q, NEW t, Is(p.men, q, p.side, t)
      PROVE  q \in DOMAIN p.men /\ q \in Squares /\ p.men[q].color = p.side /\ p.men[q].type = t
  BY <1>1, <1>2 DEF Is
<1>3. SUFFICES \E q \in DOMAIN p.men : p.men[q].color = p.side /\ \E m \in MovesFrom(p, q) : m.to = s
  BY DEF PseudoLegal
<1>4. ASSUME NEW q \in DOMAIN p.men, p.men[q].type # "pawn", s \in Reached(p, q)
      PROVE  \E m \in MovesFrom(p, q) : m.to = s
  <2>. DEFINE m == Move(q, s, IF s \in DOMAIN p.men THEN {"capture"} ELSE {})
  <2>1. m \in PieceMoves(p, q)
    BY <1>4 DEF PieceMoves
  <2>2. m \in MovesFrom(p, q)
    BY <1>4, <2>1 DEF MovesFrom
  <2>3. m.to = s
    BY DEF Move
  <2>. QED  BY <2>2, <2>3
<1>5. CASE \E q \in Near(s, {<<-1, -Forward(p.side)>>, <<1, -Forward(p.side)>>}) :
             Is(p.men, q, p.side, "pawn")
  <2>1. PICK q \in Near(s, {<<-1, -Forward(p.side)>>, <<1, -Forward(p.side)>>}) :
               Is(p.men, q, p.side, "pawn")
    BY <1>5
  <2>2. /\ q \in DOMAIN p.men /\ q \in Squares
        /\ p.men[q].color = p.side /\ p.men[q].type = "pawn"
    BY <1>2, <2>1
  <2>3. s \in Near(q, {<<-1, Forward(p.side)>>, <<1, Forward(p.side)>>})
    BY <1>1, <2>1, PawnSquares
  <2>4. AddPawnMove(q, s, {"capture"}) \subseteq PawnMoves(p, q)
    <3>. DEFINE aside == Near(q, {<<-1, Forward(p.side)>>, <<1, Forward(p.side)>>})
                taking == {AddPawnMove(q, x, {"capture"}) : x \in {y \in aside : Taken(p, y)}}
    <3>1. AddPawnMove(q, s, {"capture"}) \in taking
      BY <2>3 DEF Taken
    <3>2. UNION taking \subseteq PawnMoves(p, q)
      <4>1. \A A, B, C, D : UNION B \subseteq (UNION (A \cup B \cup C)) \cup D
        OBVIOUS
      <4>. QED  BY <4>1, Zenon DEF PawnMoves
    <3>. QED  BY <3>1, <3>2, Zenon
  <2>5. \E m \in AddPawnMove(q, s, {"capture"}) : TRUE
    BY DEF AddPawnMove, Promotions
  <2>6. PICK m \in AddPawnMove(q, s, {"capture"}) : TRUE
    BY <2>5
  <2>7. m.to = s
    BY <2>6, PawnMoveIs
  <2>8. m \in MovesFrom(p, q)
    BY <2>2, <2>4, <2>6 DEF MovesFrom
  <2>. QED  BY <2>2, <2>7, <2>8
<1>6. CASE \E q \in Near(s, Leaps) : Is(p.men, q, p.side, "knight")
  <2>1. PICK q \in Near(s, Leaps) : Is(p.men, q, p.side, "knight")
    BY <1>6
  <2>2. /\ q \in DOMAIN p.men /\ q \in Squares
        /\ p.men[q].color = p.side /\ p.men[q].type = "knight"
    BY <1>2, <2>1
  <2>3. s \in Reached(p, q)
    BY <1>1, <2>1, <2>2, NearBack DEF Reached
  <2>. QED  BY <1>4, <2>2, <2>3
<1>7. CASE \E q \in Near(s, Directions) : Is(p.men, q, p.side, "king")
  <2>1. PICK q \in Near(s, Directions) : Is(p.men, q, p.side, "king")
    BY <1>7
  <2>2. /\ q \in DOMAIN p.men /\ q \in Squares
        /\ p.men[q].color = p.side /\ p.men[q].type = "king"
    BY <1>2, <2>1
  <2>3. s \in Reached(p, q)
    BY <1>1, <2>1, <2>2, NearBack DEF Reached
  <2>. QED  BY <1>4, <2>2, <2>3
<1>8. CASE \E d \in Directions : \E q \in Seen(p.men, s, d), t \in Sliders(d) :
             Is(p.men, q, p.side, t)
  <2>1. PICK d \in Directions : \E q \in Seen(p.men, s, d), t \in Sliders(d) :
                                 Is(p.men, q, p.side, t)
    BY <1>8
  <2>2. PICK q \in Seen(p.men, s, d), t \in Sliders(d) : Is(p.men, q, p.side, t)
    BY <2>1
  <2>3. /\ q \in DOMAIN p.men /\ q \in Squares
        /\ p.men[q].color = p.side /\ p.men[q].type = t
    BY <1>2, <2>2
  <2>4. s \in Seen(p.men, q, Behind(d))
    BY <1>1, <2>2, SeenBack
  <2>5. Behind(d) \in Directions /\ t \in Sliders(Behind(d))
    BY Reversed DEF Sliders
  <2>6. t \notin {"knight", "king", "pawn"}
    BY DEF Sliders
  <2>7. Reached(p, q) = UNION {Seen(p.men, q, e) :
                          e \in {e \in Directions : p.men[q].type \in Sliders(e)}}
    BY <2>3, <2>6 DEF Reached
  <2>8. s \in Reached(p, q)
    BY <2>3, <2>4, <2>5, <2>7
  <2>. QED  BY <1>4, <2>3, <2>6, <2>8
<1>. QED  BY <1>5, <1>6, <1>7, <1>8 DEF Attacked

-----------------------------------------------------------------------------
(* What a move does to the men.                                               *)

(* The man that arrives.                                                      *)
After(p, m) ==
  IF "promotion" \in m.flags THEN [p.men[m.from] EXCEPT !.type = m.promotion] ELSE p.men[m.from]

(* The men after a move that is no castling: the one captured is gone.        *)
LEMMA PlainMoved ==
  ASSUME NEW p, NEW m, RookMoves(p.side, m) = {}
  PROVE  /\ \A s : s \in DOMAIN Moved(p, m) <=>
              s = m.to \/ (s \in DOMAIN p.men /\ s # m.from /\ s # CapturedSquare(p, m))
         /\ Moved(p, m)[m.to] = After(p, m)
         /\ \A s \in DOMAIN Moved(p, m) : s # m.to => Moved(p, m)[s] = p.men[s]
<1>. DEFINE stays == Cleared(p.men, {m.from, m.to, CapturedSquare(p, m)})
<1>1. Moved(p, m) = Placed(stays, m.to, After(p, m))
  BY Zenon DEF Moved, After
<1>2. /\ DOMAIN stays = DOMAIN p.men \ {m.from, m.to, CapturedSquare(p, m)}
      /\ \A s \in DOMAIN stays : stays[s] = p.men[s]
  BY DEF Cleared, Restrict
<1>. HIDE DEF stays
<1>. QED  BY <1>1, <1>2 DEF Placed

(* The men after a castling.                                                  *)
LEMMA CastleMoved ==
  ASSUME NEW p, NEW m, NEW c \in Castlings, c.color = p.side, m = Move(c.king, c.to, {c.flag})
  PROVE  /\ \A s : s \in DOMAIN Moved(p, m) <=>
              s \in {c.to, c.rookTo} \/ (s \in DOMAIN p.men /\ s # c.king /\ s # c.rook)
         /\ Moved(p, m)[c.rookTo] = p.men[c.rook]
         /\ Moved(p, m)[c.to] = p.men[c.king]
         /\ \A s \in DOMAIN Moved(p, m) :
              s \notin {c.to, c.rookTo} => Moved(p, m)[s] = p.men[s]
<1>. DEFINE stays == Cleared(p.men, {m.from, m.to, CapturedSquare(p, m)})
            put   == Placed(stays, c.to, p.men[c.king])
            d     == CHOOSE d \in RookMoves(p.side, m) : TRUE
<1>1. m.from = c.king /\ m.to = c.to /\ m.flags = {c.flag}
  BY DEF Move
<1>2. c.flag \notin {"promotion", "en_passant"}
  BY CastlingIs
<1>3. c \in RookMoves(p.side, m)
  BY <1>1 DEF RookMoves
<1>4. d = c
  <2>1. d \in RookMoves(p.side, m)
    BY <1>3
  <2>. HIDE DEF d
  <2>2. d \in Castlings /\ d.color = c.color /\ d.flag = c.flag
    BY <1>1, <2>1 DEF RookMoves
  <2>. QED  BY <2>2, FourCastlings
<1>5. Moved(p, m) = Placed(Cleared(put, {c.rook}), c.rookTo, p.men[c.rook])
  <2>1. "promotion" \notin m.flags
    BY <1>1, <1>2
  <2>2. Moved(p, m) = Placed(Cleared(put, {d.rook}), d.rookTo, p.men[d.rook])
    BY <1>1, <1>3, <2>1 DEF Moved
  <2>. HIDE DEF d, put
  <2>. QED  BY <1>4, <2>2
<1>6. CapturedSquare(p, m) = c.to
  BY <1>1, <1>2 DEF CapturedSquare
<1>7. /\ DOMAIN stays = DOMAIN p.men \ {c.king, c.to}
      /\ \A s \in DOMAIN stays : stays[s] = p.men[s]
  BY <1>1, <1>6 DEF Cleared, Restrict
<1>. HIDE DEF stays
<1>8. /\ DOMAIN put = (DOMAIN p.men \ {c.king, c.to}) \cup {c.to}
      /\ put[c.to] = p.men[c.king]
      /\ \A s \in DOMAIN put : s # c.to => put[s] = p.men[s]
  BY <1>7 DEF Placed
<1>. HIDE DEF put
<1>9. c.to # c.rook /\ c.to # c.rookTo /\ c.rook # c.rookTo
  BY CastlingSquares
<1>. DEFINE left == Cleared(put, {c.rook})
<1>10. /\ DOMAIN left = DOMAIN put \ {c.rook}
       /\ \A s \in DOMAIN left : left[s] = put[s]
  BY DEF Cleared, Restrict
<1>. HIDE DEF left
<1>11. /\ DOMAIN Moved(p, m) = (DOMAIN left) \cup {c.rookTo}
       /\ Moved(p, m)[c.rookTo] = p.men[c.rook]
       /\ \A s \in DOMAIN Moved(p, m) : s # c.rookTo => Moved(p, m)[s] = left[s]
  BY <1>5 DEF Placed, left
<1>12. \A s : s \in DOMAIN Moved(p, m) <=>
         s \in {c.to, c.rookTo} \/ (s \in DOMAIN p.men /\ s # c.king /\ s # c.rook)
  BY <1>8, <1>9, <1>10, <1>11
<1>. QED  BY <1>8, <1>9, <1>10, <1>11, <1>12

(* What the side to move takes is the other's, and it is not taken twice.     *)
RealEp(p) ==
  \/ p.ep = NoSquare
  \/ p.ep \notin DOMAIN p.men /\ Is(p.men, p.ep - 8 * Forward(p.side), Opposite(p.side), "pawn")

(* En passant is a capture by a pawn.                                         *)
LEMMA EnPassantForm ==
  ASSUME NEW p, IsPlacement(p.men), p.side \in Colors, NEW m \in PseudoLegal(p),
         "en_passant" \in m.flags
  PROVE  PawnForm(p, m) /\ PawnTakes(p, m) /\ ~Taken(p, m.to)
<1>1. ~PieceForm(p, m)
  <2>1. PieceForm(p, m) => \A f \in m.flags : f = "capture"
    BY DEF PieceForm
  <2>. QED  BY <2>1
<1>2. ~CastleForm(p, m)
  <2>. SUFFICES ASSUME CastleForm(p, m)  PROVE FALSE
    OBVIOUS
  <2>1. PICK x \in Castlings : m = Move(x.king, x.to, {x.flag})
    BY DEF CastleForm
  <2>2. m.flags = {x.flag}
    BY <2>1 DEF Move
  <2>. QED  BY <2>2, CastlingIs
<1>3. \A F : Promoted(m, F) => ("en_passant" \in m.flags <=> "en_passant" \in F)
  BY DEF Promoted
<1>4. PawnForm(p, m)
  BY <1>1, <1>2, MoveForm
<1>5. ~PawnPlain(p, m) /\ ~PawnDoubles(p, m)
  BY <1>3 DEF PawnPlain, PawnDoubles
<1>6. PawnTakes(p, m)
  BY <1>4, <1>5 DEF PawnForm
<1>7. "en_passant" \in (IF Taken(p, m.to) THEN {"capture"} ELSE {"capture", "en_passant"})
  BY <1>3, <1>6 DEF PawnTakes
<1>. QED  BY <1>4, <1>6, <1>7

(* No move takes a man of the mover's.                                        *)
LEMMA TakesNoneOfItsOwn ==
  ASSUME NEW p, IsPlacement(p.men), p.side \in Colors, NEW m \in PseudoLegal(p),
         m.to \in DOMAIN p.men, m.to # p.ep
  PROVE  p.men[m.to].color # p.side
<1>1. CASE CastleForm(p, m)
  <2>1. PICK c \in Castlings : m = Move(c.king, c.to, {c.flag}) /\ c.empty \cap DOMAIN p.men = {}
    BY <1>1 DEF CastleForm
  <2>2. m.to = c.to
    BY <2>1 DEF Move
  <2>. QED  BY <2>1, <2>2, CastlingEmpty
<1>2. CASE PieceForm(p, m)
  BY <1>2 DEF PieceForm
<1>3. CASE PawnForm(p, m)
  <2>1. PawnTakes(p, m)
    BY <1>3 DEF PawnForm, PawnPlain, PawnDoubles
  <2>. QED  BY <2>1 DEF PawnTakes, Taken
<1>. QED  BY <1>1, <1>2, <1>3, MoveForm

(* A double step is a pawn's.                                                 *)
LEMMA DoubleForm ==
  ASSUME NEW p, IsPlacement(p.men), p.side \in Colors, NEW m \in PseudoLegal(p),
         "double" \in m.flags
  PROVE  p.men[m.from].type = "pawn" /\ PawnForm(p, m) /\ PawnDoubles(p, m)
<1>1. ~PieceForm(p, m)
  <2>1. PieceForm(p, m) => \A f \in m.flags : f = "capture"
    BY DEF PieceForm
  <2>. QED  BY <2>1
<1>2. ~CastleForm(p, m)
  <2>. SUFFICES ASSUME CastleForm(p, m)  PROVE FALSE
    OBVIOUS
  <2>1. PICK x \in Castlings : m = Move(x.king, x.to, {x.flag})
    BY DEF CastleForm
  <2>2. m.flags = {x.flag}
    BY <2>1 DEF Move
  <2>. QED  BY <2>2, CastlingIs
<1>3. PawnForm(p, m) /\ p.men[m.from].type = "pawn"
  BY <1>1, <1>2, MoveForm
<1>4. \A F : Promoted(m, F) => ("double" \in m.flags <=> "double" \in F)
  BY DEF Promoted
<1>5. ~PawnPlain(p, m)
  BY <1>4 DEF PawnPlain
<1>6. ~PawnTakes(p, m)
  <2>1. "double" \notin (IF Taken(p, m.to) THEN {"capture"} ELSE {"capture", "en_passant"})
    OBVIOUS
  <2>. QED  BY <1>4, <2>1 DEF PawnTakes
<1>. QED  BY <1>3, <1>5, <1>6 DEF PawnForm

(* No other man is promoted.                                                  *)
LEMMA OnlyPawnsPromote ==
  ASSUME NEW p, NEW m, PieceForm(p, m) \/ CastleForm(p, m)
  PROVE  "promotion" \notin m.flags
<1>1. PieceForm(p, m) => \A f \in m.flags : f = "capture"
  BY DEF PieceForm
<1>2. ASSUME CastleForm(p, m)  PROVE "promotion" \notin m.flags
  <2>1. PICK x \in Castlings : m = Move(x.king, x.to, {x.flag})
    BY <1>2 DEF CastleForm
  <2>2. m.flags = {x.flag}
    BY <2>1 DEF Move
  <2>. QED  BY <2>2, CastlingIs
<1>. QED  BY <1>1, <1>2

(* What is captured is the other side's, and a pawn when it stands            *)
(* elsewhere than on the square moved to.                                     *)
LEMMA TakesOther ==
  ASSUME NEW p, IsPlacement(p.men), p.side \in Colors, RealEp(p), NEW m \in PseudoLegal(p)
  PROVE  LET s == CapturedSquare(p, m)
         IN /\ m.to \in DOMAIN p.men => s = m.to /\ Attacked(p.men, s, p.side)
            /\ s \in DOMAIN p.men => p.men[s].color # p.side
            /\ s # m.to => s \in DOMAIN p.men /\ p.men[s].type = "pawn"
<1>. DEFINE s == CapturedSquare(p, m)
<1>1. m.to \in Squares /\ m.to # NoSquare
  BY MoveTo DEF Squares, NoSquare
<1>2. m.to \in DOMAIN p.men => m.to # p.ep
  BY <1>1 DEF RealEp
<1>3. CASE "en_passant" \in m.flags
  <2>1. PawnForm(p, m) /\ PawnTakes(p, m) /\ ~Taken(p, m.to)
    BY <1>3, EnPassantForm
  <2>2. m.to = p.ep
    BY <2>1 DEF PawnTakes
  <2>3. m.to \notin DOMAIN p.men /\ Is(p.men, s, Opposite(p.side), "pawn")
    BY <1>1, <1>3, <2>2 DEF RealEp, CapturedSquare
  <2>4. s \in DOMAIN p.men /\ p.men[s].color = Opposite(p.side) /\ p.men[s].type = "pawn"
    BY <2>3 DEF Is
  <2>5. Opposite(p.side) # p.side
    BY DEF Opposite
  <2>. QED  BY <2>3, <2>4, <2>5
<1>4. CASE "en_passant" \notin m.flags
  <2>1. s = m.to
    BY <1>4 DEF CapturedSquare
  <2>2. m.to \in DOMAIN p.men => Attacked(p.men, m.to, p.side)
    BY <1>2, CaptureAttacks
  <2>3. m.to \in DOMAIN p.men => p.men[m.to].color # p.side
    BY <1>2, TakesNoneOfItsOwn
  <2>. QED  BY <2>1, <2>2, <2>3
<1>. QED  BY <1>3, <1>4

-----------------------------------------------------------------------------
(* Sound positions stay sound.                                                *)

(* A sound position: rights whose king and rook are at home, a passed pawn    *)
(* behind the en passant square, a king of each color, and the side that      *)
(* waits not in check.                                                        *)
RealRights(p) ==
  \A c \in Castlings :
    c.right \in p.rights =>
      Is(p.men, c.king, c.color, "king") /\ Is(p.men, c.rook, c.color, "rook")
Kings(p) == \A color \in Colors : \E s \in DOMAIN p.men : Is(p.men, s, color, "king")
Waits(p) == ~InCheck(p.men, Opposite(p.side))
Sound(p) ==
  /\ IsPlacement(p.men) /\ p.side \in Colors
  /\ RealRights(p) /\ RealEp(p) /\ Kings(p) /\ Waits(p)

(* The two colors.                                                            *)
LEMMA Others ==
  ASSUME NEW c \in Colors
  PROVE  /\ Opposite(c) \in Colors /\ Opposite(c) # c /\ Opposite(Opposite(c)) = c
         /\ Forward(c) \in {-1, 1} /\ Forward(Opposite(c)) = -Forward(c)
         /\ \A d \in Colors : d = c \/ d = Opposite(c)
BY DEF Colors, Opposite, Forward

(* No king is taken.                                                          *)
LEMMA KingsAreSafe ==
  ASSUME NEW p, Sound(p), NEW m \in PseudoLegal(p), CapturedSquare(p, m) \in DOMAIN p.men
  PROVE  p.men[CapturedSquare(p, m)].type # "king"
<1>. DEFINE s == CapturedSquare(p, m)
<1>1. IsPlacement(p.men) /\ p.side \in Colors /\ RealEp(p) /\ Waits(p)
  BY DEF Sound
<1>2. /\ m.to \in DOMAIN p.men => s = m.to /\ Attacked(p.men, s, p.side)
      /\ p.men[s].color # p.side
      /\ s # m.to => p.men[s].type = "pawn"
  BY <1>1, TakesOther
<1>. HIDE DEF s
<1>3. SUFFICES ASSUME p.men[s].type = "king"  PROVE FALSE
  BY DEF s
<1>4. s \in DOMAIN p.men /\ Attacked(p.men, s, p.side)
  BY <1>2, <1>3 DEF s
<1>5. p.men[s].color = Opposite(p.side)
  <2>1. p.men[s].color \in Colors
    BY <1>1, <1>4 DEF IsPlacement, Men
  <2>. QED  BY <1>1, <1>2, <2>1, Others
<1>6. Is(p.men, s, Opposite(p.side), "king")
  BY <1>1, <1>3, <1>4, <1>5, ManIs
<1>. QED  BY <1>1, <1>4, <1>6, Others DEF Waits, InCheck

(* The man of a move, and the men it leaves alone.                            *)
LEMMA ManStays ==
  ASSUME NEW p, Sound(p), NEW m \in PseudoLegal(p),
         NEW s \in DOMAIN p.men, s # m.from, s # CapturedSquare(p, m),
         \A c \in Castlings : c.color = p.side /\ m = Move(c.king, c.to, {c.flag}) => s # c.rook
  PROVE  s \in DOMAIN Moved(p, m) /\ Moved(p, m)[s] = p.men[s]
<1>1. IsPlacement(p.men) /\ p.side \in Colors /\ RealEp(p)
  BY DEF Sound
<1>2. s # m.to
  BY <1>1, TakesOther
<1>3. CASE RookMoves(p.side, m) = {}
  BY <1>2, <1>3, PlainMoved
<1>4. CASE RookMoves(p.side, m) # {}
  <2>1. CastleForm(p, m)
    BY <1>1, <1>4, MoveForm, NotCastling
  <2>2. PICK c \in Castlings : /\ c.color = p.side /\ m = Move(c.king, c.to, {c.flag})
                               /\ c.empty \cap DOMAIN p.men = {}
    BY <2>1 DEF CastleForm
  <2>3. m.from = c.king
    BY <2>2 DEF Move
  <2>4. s # c.rook /\ s # c.king /\ s # c.to /\ s # c.rookTo
    BY <2>2, <2>3, CastlingEmpty
  <2>. QED  BY <2>2, <2>4, CastleMoved
<1>. QED  BY <1>3, <1>4

(* The man that moves arrives, unchanged unless it is promoted.               *)
LEMMA ManGoes ==
  ASSUME NEW p, Sound(p), NEW m \in PseudoLegal(p)
  PROVE  /\ m.to \in DOMAIN Moved(p, m)
         /\ "promotion" \notin m.flags => Moved(p, m)[m.to] = p.men[m.from]
<1>1. IsPlacement(p.men) /\ p.side \in Colors
  BY DEF Sound
<1>2. CASE RookMoves(p.side, m) = {}
  BY <1>2, PlainMoved DEF After
<1>3. CASE RookMoves(p.side, m) # {}
  <2>1. CastleForm(p, m)
    BY <1>1, <1>3, MoveForm, NotCastling
  <2>2. PICK c \in Castlings : c.color = p.side /\ m = Move(c.king, c.to, {c.flag})
    BY <2>1 DEF CastleForm
  <2>3. m.from = c.king /\ m.to = c.to
    BY <2>2 DEF Move
  <2>. QED  BY <2>2, <2>3, CastleMoved
<1>. QED  BY <1>2, <1>3

(* Rights that are left have their king and their rook at home.               *)
LEMMA RightsLeft ==
  ASSUME NEW p, Sound(p), NEW m \in PseudoLegal(p), NEW c \in Castlings,
         c.right \in p.rights \ LostRights(p, m)
  PROVE  Is(Moved(p, m), c.king, c.color, "king") /\ Is(Moved(p, m), c.rook, c.color, "rook")
<1>1. /\ IsPlacement(p.men) /\ p.side \in Colors /\ RealEp(p)
      /\ Is(p.men, c.king, c.color, "king") /\ Is(p.men, c.rook, c.color, "rook")
  BY DEF Sound, RealRights
<1>2. ~(c.color = p.side /\ p.men[m.from].type = "king") /\ c.rook # m.from /\ c.rook # m.to
  BY DEF LostRights
<1>3. /\ c.king \in DOMAIN p.men /\ p.men[c.king].color = c.color /\ p.men[c.king].type = "king"
      /\ c.rook \in DOMAIN p.men /\ p.men[c.rook].color = c.color /\ p.men[c.rook].type = "rook"
  BY <1>1, ManIs DEF Is
<1>4. p.men[m.from].color = p.side
  BY <1>1, MoveForm
<1>5. c.king # m.from
  BY <1>2, <1>3, <1>4
<1>6. c.king # CapturedSquare(p, m)
  BY <1>3, KingsAreSafe
<1>7. c.rook # CapturedSquare(p, m)
  BY <1>1, <1>2, <1>3, TakesOther
<1>8. ASSUME NEW d \in Castlings, d.color = p.side, m = Move(d.king, d.to, {d.flag})
      PROVE  c.king # d.rook /\ c.rook # d.rook
  <2>1. m.from = d.king
    BY <1>8 DEF Move
  <2>2. CASE c.color = p.side
    <3>1. c.king = d.king
      BY <1>8, <2>2, CastlingSquares
    <3>. QED  BY <1>5, <2>1, <3>1
  <2>3. CASE c.color # p.side
    BY <1>8, <2>3, CastlingSquares
  <2>. QED  BY <2>2, <2>3
<1>9. /\ c.king \in DOMAIN Moved(p, m) /\ Moved(p, m)[c.king] = p.men[c.king]
      /\ c.rook \in DOMAIN Moved(p, m) /\ Moved(p, m)[c.rook] = p.men[c.rook]
  BY <1>2, <1>3, <1>5, <1>6, <1>7, <1>8, ManStays
<1>. QED  BY <1>1, <1>9 DEF Is

(* No move takes a king from a sound position.                                *)
LEMMA KingsLeft ==
  ASSUME NEW p, Sound(p), NEW m \in PseudoLegal(p), NEW color \in Colors
  PROVE  \E s \in DOMAIN Moved(p, m) : Is(Moved(p, m), s, color, "king")
<1>1. IsPlacement(p.men) /\ p.side \in Colors /\ RealEp(p)
  BY DEF Sound
<1>2. PICK s \in DOMAIN p.men : Is(p.men, s, color, "king")
  BY DEF Sound, Kings
<1>3. p.men[s].color = color /\ p.men[s].type = "king"
  BY <1>1, <1>2, ManIs
<1>4. CASE s = m.from
  <2>1. "promotion" \notin m.flags
    BY <1>1, <1>3, <1>4, MoveForm, OnlyPawnsPromote
  <2>. QED  BY <1>2, <1>4, <2>1, ManGoes DEF Is
<1>5. CASE s # m.from
  <2>1. s # CapturedSquare(p, m)
    BY <1>3, KingsAreSafe
  <2>2. ASSUME NEW c \in Castlings, c.color = p.side, m = Move(c.king, c.to, {c.flag})
        PROVE  s # c.rook
    <3>1. CastleForm(p, m)
      <4>1. m.flags = {c.flag}
        BY <2>2 DEF Move
      <4>2. RookMoves(p.side, m) # {}
        BY <2>2, <4>1 DEF RookMoves
      <4>. QED  BY <1>1, <4>2, MoveForm, NotCastling
    <3>2. PICK d \in Castlings : /\ d.color = p.side /\ m = Move(d.king, d.to, {d.flag})
                                 /\ Is(p.men, d.rook, p.side, "rook")
      BY <3>1 DEF CastleForm
    <3>3. c = d
      <4>1. c.to = d.to
        BY <2>2, <3>2 DEF Move
      <4>. QED  BY <2>2, <3>2, <4>1, FourCastlings
    <3>4. c.rook \in DOMAIN p.men /\ p.men[c.rook].type = "rook"
      BY <1>1, <3>2, <3>3, ManIs DEF Is
    <3>. QED  BY <1>3, <3>4
  <2>3. s \in DOMAIN Moved(p, m) /\ Moved(p, m)[s] = p.men[s]
    BY <1>5, <2>1, <2>2, ManStays
  <2>. QED  BY <1>2, <2>3 DEF Is
<1>. QED  BY <1>4, <1>5

(* A pawn that went two squares stands behind the square it passed.           *)
LEMMA EpLeft ==
  ASSUME NEW p, Sound(p), NEW m \in PseudoLegal(p), "double" \in m.flags
  PROVE  LET ep == (m.from + m.to) \div 2
         IN /\ ep \notin DOMAIN Moved(p, m)
            /\ Is(Moved(p, m), ep + 8 * Forward(p.side), p.side, "pawn")
<1>. DEFINE step == Forward(p.side)  ep == (m.from + m.to) \div 2
<1>1. IsPlacement(p.men) /\ p.side \in Colors /\ m.from \in DOMAIN p.men /\ m.from \in Squares
      /\ p.men[m.from].color = p.side
  BY MoveForm DEF Sound, IsPlacement
<1>2. PawnForm(p, m) /\ PawnDoubles(p, m) /\ p.men[m.from].type = "pawn"
  BY <1>1, DoubleForm
<1>3. PICK s \in Squares : File(s) = File(m.from) /\ Rank(s) = Rank(m.from) + step
                           /\ s \notin DOMAIN p.men
  BY <1>2 DEF PawnDoubles
<1>4. /\ s = m.from + 8 * step /\ m.to = m.from + 16 * step
      /\ m.from \in Int /\ step \in {-1, 1}
  <2>1. /\ s = File(s) + 8 * Rank(s) /\ m.from = File(m.from) + 8 * Rank(m.from)
        /\ m.to = File(m.to) + 8 * Rank(m.to)
        /\ File(m.from) \in Int /\ Rank(m.from) \in Int /\ m.from \in Int
    <3>1. \A x \in Squares : /\ x = File(x) + 8 * Rank(x)
                              /\ File(x) \in Int /\ Rank(x) \in Int /\ x \in Int
      BY Coordinates DEF Squares
    <3>2. m.to \in Squares
      BY <1>2 DEF PawnForm
    <3>. QED  BY <1>1, <3>1, <3>2
  <2>2. File(m.to) = File(m.from) /\ Rank(m.to) = Rank(m.from) + 2 * step
    BY <1>2 DEF PawnDoubles
  <2>3. step \in {-1, 1}
    BY <1>1, Others
  <2>. HIDE DEF step
  <2>. QED  BY <1>3, <2>1, <2>2, <2>3
<1>5. ep = s /\ ep + 8 * step = m.to /\ s # m.to
  <2>. HIDE DEF step
  <2>1. m.from + m.to = 2 * s
    BY <1>4
  <2>. QED  BY <1>4, <2>1
<1>. HIDE DEF ep, step
<1>6. RookMoves(p.side, m) = {}
  BY <1>2, NotCastling
<1>7. s \notin DOMAIN Moved(p, m)
  BY <1>3, <1>5, <1>6, PlainMoved
<1>8. Is(Moved(p, m), m.to, p.side, "pawn")
  <2>1. "promotion" \notin m.flags
    BY <1>2 DEF PawnDoubles
  <2>2. m.to \in DOMAIN Moved(p, m) /\ Moved(p, m)[m.to] = p.men[m.from]
    BY <2>1, ManGoes
  <2>. QED  BY <1>1, <1>2, <2>2, ManIs DEF Is
<1>. QED  BY <1>5, <1>7, <1>8 DEF ep, step

(* A legal move leads from a sound position to a sound one.                   *)
LEMMA MakeSound ==
  ASSUME NEW p, Sound(p), NEW m \in Legal(p)
  PROVE  Sound(Make(p, m))
<1>. DEFINE q == Make(p, m)
<1>1. IsPlacement(p.men) /\ p.side \in Colors /\ m \in PseudoLegal(p)
      /\ ~InCheck(Moved(p, m), p.side)
  BY DEF Sound, Legal
<1>2. /\ q.men = Moved(p, m) /\ q.side = Opposite(p.side)
      /\ q.rights = p.rights \ LostRights(p, m)
      /\ q.ep = IF "double" \in m.flags THEN (m.from + m.to) \div 2 ELSE NoSquare
  BY DEF Make
<1>. HIDE DEF q
<1>3. IsPlacement(q.men) /\ q.side \in Colors /\ Opposite(q.side) = p.side
  BY <1>1, <1>2, MovedSet, Others
<1>4. RealRights(q)
  BY <1>1, <1>2, RightsLeft DEF RealRights
<1>5. Kings(q)
  BY <1>1, <1>2, KingsLeft DEF Kings
<1>6. Waits(q)
  BY <1>1, <1>2, <1>3 DEF Waits
<1>7. RealEp(q)
  <2>. SUFFICES ASSUME "double" \in m.flags  PROVE RealEp(q)
    BY <1>2 DEF RealEp
  <2>. DEFINE ep == (m.from + m.to) \div 2
  <2>1. ep \notin DOMAIN q.men /\ Is(q.men, ep + 8 * Forward(p.side), p.side, "pawn")
    BY <1>1, <1>2, EpLeft
  <2>2. ep \in Int
    BY <1>1, MoveForm, MoveTo DEF IsPlacement, Squares
  <2>3. q.ep = ep
    BY <1>2
  <2>. HIDE DEF ep
  <2>4. ep - 8 * Forward(q.side) = ep + 8 * Forward(p.side)
    BY <1>1, <1>2, <2>2, Others
  <2>. QED  BY <1>3, <2>1, <2>3, <2>4 DEF RealEp
<1>. QED  BY <1>3, <1>4, <1>5, <1>6, <1>7 DEF Sound, q

-----------------------------------------------------------------------------
(* A move is taken back.                                                      *)

(* The men a move that is taken back puts back: its own and the taken one.    *)
Returned(p, m) ==
  LET man == IF "promotion" \in m.flags THEN [color |-> p.side, type |-> "pawn"]
             ELSE Moved(p, m)[m.to]
      put == Placed(Cleared(Moved(p, m), {m.to}), m.from, man)
      undo == Restrict(p.men, {CapturedSquare(p, m)} \cap DOMAIN p.men)
  IN [s \in DOMAIN put \cup DOMAIN undo |-> IF s \in DOMAIN undo THEN undo[s] ELSE put[s]]

(* The men once a move other than a castling is taken back.                   *)
LEMMA ReturnedMen ==
  ASSUME NEW p, Sound(p), NEW m \in PseudoLegal(p), IsPlacement(Moved(p, m))
  PROVE  /\ IsPlacement(Returned(p, m))
         /\ \A s : s \in DOMAIN Returned(p, m) <=>
              \/ s \in DOMAIN Moved(p, m) /\ s # m.to
              \/ s = m.from
              \/ s = CapturedSquare(p, m) /\ s \in DOMAIN p.men
         /\ \A s \in DOMAIN Returned(p, m) :
              Returned(p, m)[s] = IF s = CapturedSquare(p, m) \/ s = m.from THEN p.men[s]
                                  ELSE Moved(p, m)[s]
<1>. DEFINE man == IF "promotion" \in m.flags THEN [color |-> p.side, type |-> "pawn"]
                   ELSE Moved(p, m)[m.to]
            put == Placed(Cleared(Moved(p, m), {m.to}), m.from, man)
            undo == Restrict(p.men, {CapturedSquare(p, m)} \cap DOMAIN p.men)
<1>1. /\ IsPlacement(p.men) /\ p.side \in Colors /\ RealEp(p)
      /\ m.from \in DOMAIN p.men /\ m.from \in Squares /\ p.men[m.from] \in Men
      /\ p.men[m.from].color = p.side
  BY MoveForm DEF Sound, IsPlacement
<1>2. man = p.men[m.from]
  <2>1. CASE "promotion" \in m.flags
    <3>1. p.men[m.from].type = "pawn"
      BY <1>1, <2>1, MoveForm, OnlyPawnsPromote
    <3>2. p.men[m.from] = [color |-> p.side, type |-> "pawn"]
      BY <1>1, <3>1 DEF Men
    <3>. QED  BY <2>1, <3>2
  <2>2. CASE "promotion" \notin m.flags
    BY <2>2, ManGoes
  <2>. QED  BY <2>1, <2>2
<1>. HIDE DEF man
<1>3. /\ \A s : s \in DOMAIN put <=> s = m.from \/ (s \in DOMAIN Moved(p, m) /\ s # m.to)
      /\ \A s \in DOMAIN put : put[s] = IF s = m.from THEN p.men[m.from] ELSE Moved(p, m)[s]
  BY <1>2 DEF Placed, Cleared, Restrict
<1>4. IsPlacement(put)
  <2>1. IsPlacement(Cleared(Moved(p, m), {m.to}))
    BY ClearedSet
  <2>. QED  BY <1>1, <1>2, <2>1, PlacedSet
<1>5. /\ \A s : s \in DOMAIN undo <=> s = CapturedSquare(p, m) /\ s \in DOMAIN p.men
      /\ \A s \in DOMAIN undo : undo[s] = p.men[s]
  BY DEF Restrict
<1>6. Returned(p, m) = [s \in DOMAIN put \cup DOMAIN undo |->
                          IF s \in DOMAIN undo THEN undo[s] ELSE put[s]]
  BY Zenon DEF Returned, man
<1>. HIDE DEF put, undo
<1>7. \A s \in DOMAIN undo : s \in Squares /\ undo[s] \in Men
  BY <1>1, <1>5 DEF IsPlacement
<1>8. /\ \A s : s \in DOMAIN Returned(p, m) <=> s \in DOMAIN put \/ s \in DOMAIN undo
      /\ \A s \in DOMAIN Returned(p, m) :
           Returned(p, m)[s] = IF s \in DOMAIN undo THEN undo[s] ELSE put[s]
  BY <1>6
<1>9. IsPlacement(Returned(p, m))
  BY <1>4, <1>6, <1>7 DEF IsPlacement
<1>10. ASSUME NEW s \in DOMAIN Returned(p, m)
       PROVE  Returned(p, m)[s] = IF s = CapturedSquare(p, m) \/ s = m.from THEN p.men[s]
                                  ELSE Moved(p, m)[s]
  <2>1. CASE s \in DOMAIN undo
    BY <1>5, <1>8, <2>1
  <2>2. CASE s \notin DOMAIN undo
    <3>1. s \in DOMAIN put /\ Returned(p, m)[s] = put[s]
      BY <1>8, <2>2
    <3>2. s = CapturedSquare(p, m) => s = m.from
      <4>. SUFFICES ASSUME s = CapturedSquare(p, m), s # m.from  PROVE FALSE
        OBVIOUS
      <4>1. s \notin DOMAIN p.men /\ s \in DOMAIN Moved(p, m) /\ s # m.to
        BY <1>3, <1>5, <2>2, <3>1
      <4>. QED  BY <1>1, <4>1, TakesOther
    <3>. QED  BY <1>3, <3>1, <3>2
  <2>. QED  BY <2>1, <2>2
<1>. QED  BY <1>3, <1>5, <1>8, <1>9, <1>10

(* They are the men there were; and so they are after a castling.             *)
LEMMA PlainBack ==
  ASSUME NEW p, Sound(p), NEW m \in PseudoLegal(p), IsPlacement(Moved(p, m)),
         RookMoves(p.side, m) = {}
  PROVE  Returned(p, m) = p.men
<1>. DEFINE R == Returned(p, m)
<1>1. /\ IsPlacement(p.men) /\ p.side \in Colors /\ RealEp(p) /\ m.from \in DOMAIN p.men
  BY MoveForm DEF Sound
<1>2. m.to \in DOMAIN p.men => CapturedSquare(p, m) = m.to
  BY <1>1, TakesOther
<1>3. \A s : s \in DOMAIN R <=> s \in DOMAIN p.men
  BY <1>1, <1>2, ReturnedMen, PlainMoved
<1>4. \A s \in DOMAIN R : R[s] = p.men[s]
  BY ReturnedMen, PlainMoved
<1>5. DOMAIN R = DOMAIN p.men
  BY <1>3
<1>6. R \in [DOMAIN p.men -> Men] /\ p.men \in [DOMAIN p.men -> Men]
  BY <1>1, <1>5, ReturnedMen DEF IsPlacement
<1>. HIDE DEF R
<1>7. R = p.men
  BY <1>4, <1>5, <1>6
<1>. QED  BY <1>7 DEF R

LEMMA CastleBack ==
  ASSUME NEW p, Sound(p), NEW m \in PseudoLegal(p), IsPlacement(Moved(p, m)),
         NEW c \in Castlings, c.color = p.side, m = Move(c.king, c.to, {c.flag}),
         c.empty \cap DOMAIN p.men = {}, Is(p.men, c.rook, p.side, "rook")
  PROVE  Placed(Cleared(Returned(p, m), {c.rookTo}), c.rook, Returned(p, m)[c.rookTo]) = p.men
<1>. DEFINE R == Returned(p, m)
            B == Placed(Cleared(R, {c.rookTo}), c.rook, R[c.rookTo])
<1>1. /\ IsPlacement(p.men) /\ p.side \in Colors /\ RealEp(p)
      /\ m.from \in DOMAIN p.men /\ c.rook \in DOMAIN p.men
  BY MoveForm DEF Sound, Is
<1>2. m.from = c.king /\ m.to = c.to /\ c.to \notin DOMAIN p.men /\ c.rookTo \notin DOMAIN p.men
  BY CastlingEmpty DEF Move
<1>3. c.to # c.rook /\ c.to # c.rookTo /\ c.rook # c.rookTo /\ c.king # c.to
      /\ c.king # c.rook /\ c.king # c.rookTo
  BY CastlingSquares
<1>4. CapturedSquare(p, m) = c.to
  <2>1. m.flags = {c.flag} /\ c.flag # "en_passant"
    BY CastlingIs DEF Move
  <2>. QED  BY <1>2, <2>1 DEF CapturedSquare
<1>5. /\ IsPlacement(R)
      /\ \A s : s \in DOMAIN R <=> s = c.rookTo \/ (s \in DOMAIN p.men /\ s # c.rook)
  BY <1>1, <1>2, <1>3, <1>4, ReturnedMen, CastleMoved
<1>6. \A s \in DOMAIN R : R[s] = IF s = c.rookTo THEN p.men[c.rook] ELSE p.men[s]
  BY <1>2, <1>3, <1>4, <1>5, ReturnedMen, CastleMoved
<1>. HIDE DEF R
<1>7. /\ \A s : s \in DOMAIN B <=> s = c.rook \/ (s \in DOMAIN R /\ s # c.rookTo)
      /\ \A s \in DOMAIN B : B[s] = IF s = c.rook THEN R[c.rookTo] ELSE R[s]
  BY DEF Placed, Cleared, Restrict
<1>8. IsPlacement(B)
  <2>1. IsPlacement(Cleared(R, {c.rookTo}))
    BY <1>5, ClearedSet
  <2>2. c.rook \in Squares /\ R[c.rookTo] \in Men
    BY <1>1, <1>5 DEF IsPlacement
  <2>. QED  BY <2>1, <2>2, PlacedSet
<1>. HIDE DEF B
<1>9. \A s : s \in DOMAIN B <=> s \in DOMAIN p.men
  BY <1>1, <1>2, <1>5, <1>7
<1>10. \A s \in DOMAIN B : B[s] = p.men[s]
  BY <1>5, <1>6, <1>7
<1>11. DOMAIN B = DOMAIN p.men
  BY <1>9
<1>12. B \in [DOMAIN p.men -> Men] /\ p.men \in [DOMAIN p.men -> Men]
  BY <1>1, <1>8, <1>11 DEF IsPlacement
<1>13. B = p.men
  BY <1>10, <1>11, <1>12
<1>. QED  BY <1>13 DEF B, R

(* The men after a move and its undoing are those before it.                  *)
LEMMA MenBack ==
  ASSUME NEW p, Sound(p), NEW m \in Legal(p)
  PROVE  Unmake(Make(p, m), m, Undo(p, m)).men = p.men
<1>. DEFINE q == Make(p, m)
            undo == Undo(p, m)
            man  == IF "promotion" \in m.flags
                    THEN [color |-> Opposite(q.side), type |-> "pawn"] ELSE q.men[m.to]
            put  == Placed(Cleared(q.men, {m.to}), m.from, man)
            back == [s \in DOMAIN put \cup DOMAIN undo.captured |->
                       IF s \in DOMAIN undo.captured THEN undo.captured[s] ELSE put[s]]
            c    == CHOOSE c \in RookMoves(Opposite(q.side), m) : TRUE
<1>1. /\ IsPlacement(p.men) /\ p.side \in Colors /\ m \in PseudoLegal(p)
      /\ IsPlacement(Moved(p, m))
  BY MovedSet DEF Sound, Legal
<1>2. q.men = Moved(p, m) /\ Opposite(q.side) = p.side
  BY <1>1, Others DEF Make
<1>3. undo.captured = Restrict(p.men, {CapturedSquare(p, m)} \cap DOMAIN p.men)
  BY DEF Undo
<1>4. Unmake(q, m, undo).men =
        IF RookMoves(Opposite(q.side), m) = {} THEN back
        ELSE Placed(Cleared(back, {c.rookTo}), c.rook, back[c.rookTo])
  <2>. HIDE DEF q, undo
  <2>. QED  BY DEF Unmake
<1>5. back = Returned(p, m)
  <2>. HIDE DEF q, undo
  <2>. QED  BY <1>2, <1>3, Zenon DEF Returned
<1>. HIDE DEF q, undo, back
<1>6. CASE RookMoves(p.side, m) = {}
  BY <1>1, <1>2, <1>4, <1>5, <1>6, PlainBack DEF q, undo
<1>7. CASE RookMoves(p.side, m) # {}
  <2>1. CastleForm(p, m)
    BY <1>1, <1>7, MoveForm, NotCastling
  <2>2. PICK d \in Castlings : /\ d.color = p.side /\ m = Move(d.king, d.to, {d.flag})
                               /\ Is(p.men, d.rook, p.side, "rook")
                               /\ d.empty \cap DOMAIN p.men = {}
    BY <2>1 DEF CastleForm
  <2>3. c = d
    <3>1. c \in RookMoves(p.side, m)
      BY <1>2, <1>7
    <3>. HIDE DEF c
    <3>2. m.flags = {d.flag}
      BY <2>2 DEF Move
    <3>3. c \in Castlings /\ c.color = d.color /\ c.flag = d.flag
      BY <2>2, <3>1, <3>2 DEF RookMoves
    <3>. QED  BY <3>3, FourCastlings
  <2>. HIDE DEF c
  <2>. QED  BY <1>1, <1>2, <1>4, <1>5, <1>7, <2>2, <2>3, CastleBack DEF q, undo
<1>. QED  BY <1>6, <1>7

(* A position, and what its history is.                                       *)
IsPosition(p) ==
  /\ p = [men |-> p.men, side |-> p.side, rights |-> p.rights, ep |-> p.ep, half |-> p.half,
          full |-> p.full, hash |-> p.hash, history |-> p.history]
  /\ \E S : p.history \in Seq(S)
  /\ p.history # <<>>

(* The last entry of the history is dropped again.                            *)
LEMMA HistoryBack ==
  ASSUME NEW S, NEW h \in Seq(S), h # <<>>, NEW e
  PROVE  LET a == Append(h, e)
         IN Len(a) > 1 /\ SubSeq(a, 1, Len(a) - 1) = h
<1>. DEFINE T == S \cup {e}  a == Append(h, e)
<1>1. h \in Seq(T) /\ e \in T /\ Len(h) \in Nat /\ Len(h) > 0
  BY SeqMonotonic, LenProperties, EmptySeq
<1>2. /\ a \in Seq(T) /\ Len(a) = Len(h) + 1
      /\ \A i \in 1..Len(h) : a[i] = h[i]
  BY <1>1, AppendProperties
<1>. HIDE DEF T, a
<1>. DEFINE b == SubSeq(a, 1, Len(a) - 1)
<1>3. b \in Seq(T) /\ Len(b) = Len(h) /\ \A i \in 1..Len(h) : b[i] = a[i]
  BY <1>1, <1>2, SubSeqProperties
<1>. HIDE DEF b
<1>4. b = h
  BY <1>1, <1>2, <1>3, SeqEqual
<1>. QED  BY <1>1, <1>2, <1>4 DEF a, b

(* A move leaves the fields of a position.                                    *)
LEMMA MakeIsPosition ==
  ASSUME NEW p, IsPosition(p), NEW m
  PROVE  IsPosition(Make(p, m))
<1>1. PICK h : Make(p, m).history = Append(p.history, h)
  BY DEF Make
<1>2. PICK S : p.history \in Seq(S)
  BY DEF IsPosition
<1>3. Append(p.history, h) \in Seq(S \cup {h}) /\ Append(p.history, h) # <<>>
  <2>1. p.history \in Seq(S \cup {h})
    BY <1>2, SeqMonotonic
  <2>. QED  BY <2>1, AppendProperties, EmptySeq
<1>4. LET q == Make(p, m)
      IN q = [men |-> q.men, side |-> q.side, rights |-> q.rights, ep |-> q.ep, half |-> q.half,
              full |-> q.full, hash |-> q.hash, history |-> q.history]
  BY DEF Make
<1>. QED  BY <1>1, <1>3, <1>4 DEF IsPosition

(* Taking back a legal move of a sound position restores all of it.           *)
LEMMA MoveTakenBack ==
  ASSUME NEW p, Sound(p), IsPosition(p), NEW m \in Legal(p)
  PROVE  Unmake(Make(p, m), m, Undo(p, m)) = p
<1>. DEFINE q == Make(p, m)  u == Unmake(q, m, Undo(p, m))
<1>1. p.side \in Colors
  BY DEF Sound
<1>2. u.men = p.men
  BY MenBack
<1>3. PICK e : q.history = Append(p.history, e)
  BY DEF Make
<1>4. u.history = p.history
  <2>1. PICK S : p.history \in Seq(S)
    BY DEF IsPosition
  <2>2. Len(q.history) > 1 /\ SubSeq(q.history, 1, Len(q.history) - 1) = p.history
    BY <1>3, <2>1, HistoryBack DEF IsPosition
  <2>3. u.history = IF Len(q.history) > 1 THEN SubSeq(q.history, 1, Len(q.history) - 1)
                    ELSE q.history
    <3>. HIDE DEF q
    <3>. QED  BY DEF Unmake
  <2>. HIDE DEF q, u
  <2>. QED  BY <2>2, <2>3
<1>5. u.side = p.side
  <2>1. q.side = Opposite(p.side)
    BY DEF Make
  <2>2. u.side = Opposite(q.side)
    <3>. HIDE DEF q
    <3>. QED  BY DEF Unmake
  <2>. QED  BY <1>1, <2>1, <2>2, Others
<1>6. /\ u.rights = p.rights /\ u.ep = p.ep /\ u.half = p.half /\ u.full = p.full
      /\ u.hash = p.hash
  <2>. HIDE DEF q
  <2>. QED  BY DEF Unmake, Undo
<1>7. u = [men |-> u.men, side |-> u.side, rights |-> u.rights, ep |-> u.ep, half |-> u.half,
           full |-> u.full, hash |-> u.hash, history |-> u.history]
  <2>. HIDE DEF q
  <2>. QED  BY DEF Unmake
<1>. HIDE DEF u, q
<1>8. u = p
  BY <1>2, <1>4, <1>5, <1>6, <1>7 DEF IsPosition
<1>. QED  BY <1>8 DEF u, q

-----------------------------------------------------------------------------
(* The board of a game.                                                       *)

(* What every position of the game is, and what it is when the game starts    *)
(* from a sound one.                                                          *)
SoundStart ==
  /\ Sound(FromFen(scope.start))
  /\ scope.start.full \in Nat \ {0} /\ scope.start.full + scope.plies < 2^16

BoardInv ==
  /\ IsPlacement(board.men) /\ board.side \in Colors /\ IsPosition(board)
  /\ Len(game) <= scope.plies
  /\ SoundStart => /\ Sound(board)
                   /\ board.full \in Nat \ {0} /\ board.full <= scope.start.full + Len(game)

(* An attack on a man is a move that takes it, whoever's turn it is.          *)
LEMMA AttacksTurned ==
  ASSUME NEW p, IsPosition(p), IsPlacement(p.men), NEW s \in DOMAIN p.men
  PROVE  LET enemy == Opposite(p.men[s].color)
             turn  == [p EXCEPT !.side = enemy, !.ep = NoSquare]
         IN Attacked(p.men, s, enemy) <=> \E m \in PseudoLegal(turn) : m.to = s
<1>. DEFINE enemy == Opposite(p.men[s].color)
            turn  == [p EXCEPT !.side = enemy, !.ep = NoSquare]
<1>1. p.men[s].color \in Colors /\ s \in Squares
  BY DEF IsPlacement, Men
<1>2. enemy \in Colors /\ p.men[s].color # enemy
  BY <1>1, Others
<1>. HIDE DEF enemy
<1>3. turn.men = p.men /\ turn.side = enemy /\ turn.ep = NoSquare
  BY DEF IsPosition
<1>. HIDE DEF turn
<1>4. Attacked(p.men, s, enemy) => \E m \in PseudoLegal(turn) : m.to = s
  BY <1>2, <1>3, AttackCaptures
<1>5. ASSUME NEW m \in PseudoLegal(turn), m.to = s
      PROVE  Attacked(p.men, s, enemy)
  <2>1. s # NoSquare
    BY <1>1 DEF Squares, NoSquare
  <2>. QED  BY <1>2, <1>3, <1>5, <2>1, CaptureAttacks
<1>. QED  BY <1>4, <1>5 DEF turn, enemy

(* A game starts so, and a ply that is read keeps it so.                      *)
LEMMA BoardStarts == Init => BoardInv
<1>. SUFFICES ASSUME Init  PROVE BoardInv
  OBVIOUS
<1>1. board = FromFen(scope.start) /\ game = <<>> /\ scope \in Scopes
  BY DEF Init
<1>2. /\ IsPlacement(scope.start.men) /\ scope.start.side \in Colors /\ scope.plies \in Nat
  BY <1>1, ScopesAssumption
<1>3. /\ board.men = scope.start.men /\ board.side = scope.start.side
      /\ board.full = scope.start.full
  BY <1>1 DEF FromFen
<1>4. IsPosition(board)
  <2>1. PICK h : board.history = <<h>>
    BY <1>1 DEF FromFen
  <2>2. <<h>> \in Seq({h}) /\ <<h>> # <<>>
    OBVIOUS
  <2>3. board = [men |-> board.men, side |-> board.side, rights |-> board.rights,
                 ep |-> board.ep, half |-> board.half, full |-> board.full,
                 hash |-> board.hash, history |-> board.history]
    BY <1>1 DEF FromFen
  <2>. QED  BY <2>1, <2>2, <2>3 DEF IsPosition
<1>5. Len(game) = 0
  BY <1>1
<1>6. SoundStart => board.full \in Nat \ {0} /\ board.full <= scope.start.full + Len(game)
  BY <1>3, <1>5 DEF SoundStart
<1>. QED  BY <1>1, <1>2, <1>3, <1>4, <1>5, <1>6 DEF BoardInv, SoundStart

LEMMA ReadPlyOnBoard == ASSUME Inv, BoardInv, ReadPly PROVE BoardInv'
<1>1. PICK m \in Legal(board) : /\ board' = Make(board, m)
                                /\ \E e : game' = Append(game, e)
  BY DEF ReadPly, Parsed
<1>2. /\ IsPlacement(board.men) /\ board.side \in Colors /\ IsPosition(board)
      /\ Len(game) <= scope.plies
  BY DEF BoardInv
<1>3. /\ scope' = scope /\ Len(game) < scope.plies /\ scope \in Scopes /\ scope.plies \in Nat
  BY ScopesAssumption DEF ReadPly, Inv
<1>4. Len(game') = Len(game) + 1 /\ Len(game) \in Nat
  BY <1>1, AppendList, ListPlaces DEF Inv, PassSound
<1>5. /\ board'.men = Moved(board, m) /\ board'.side = Opposite(board.side)
      /\ board'.full = (board.full + (IF board.side = "black" THEN 1 ELSE 0)) % 2^16
  BY <1>1 DEF Make
<1>6. IsPlacement(board'.men) /\ board'.side \in Colors
  BY <1>2, <1>5, MovedSet, Others
<1>7. IsPosition(board')
  BY <1>1, <1>2, MakeIsPosition
<1>8. ASSUME SoundStart
      PROVE  /\ Sound(board') /\ board'.full \in Nat \ {0}
             /\ board'.full <= scope.start.full + Len(game')
  <2>1. Sound(board) /\ board.full \in Nat \ {0} /\ board.full <= scope.start.full + Len(game)
    BY <1>8 DEF BoardInv
  <2>2. scope.start.full \in Nat /\ scope.start.full + scope.plies < 65536
    BY <1>8 DEF SoundStart
  <2>3. Sound(board')
    BY <1>1, <2>1, MakeSound
  <2>4. \E k \in {0, 1} : board'.full = (board.full + k) % 65536
    BY <1>5
  <2>5. \A n \in Nat : n < 65536 => n % 65536 = n
    OBVIOUS
  <2>6. board.full + 1 < 65536 /\ board.full \in Nat
    BY <1>3, <1>4, <2>1, <2>2
  <2>7. board'.full \in {board.full, board.full + 1}
    BY <2>4, <2>5, <2>6
  <2>. QED  BY <1>3, <1>4, <2>1, <2>2, <2>3, <2>6, <2>7
<1>9. SoundStart' <=> SoundStart
  BY <1>3 DEF SoundStart
<1>. QED  BY <1>3, <1>4, <1>6, <1>7, <1>8, <1>9 DEF BoardInv

(* Only a ply that is read changes the board.                                 *)
LEMMA BoardKept ==
  ASSUME [Next]_vars, ~ReadPly
  PROVE  UNCHANGED <<scope, board, game>>
<1>1. CASE FinishGame
  BY <1>1 DEF FinishGame
<1>2. CASE StartShallow
  BY <1>2 DEF StartShallow
<1>3. CASE StartDeep
  BY <1>3 DEF StartDeep
<1>4. ASSUME NEW c \in Clients,
             \/ Ask(c) \/ StartFails(c) \/ ReadInfo(c) \/ ReadBest(c)
             \/ Interrupt(c) \/ ProcessGone(c) \/ Drain(c) \/ DrainFails(c)
             \/ Tell(c) \/ BestMove(c) \/ Die(c)
      PROVE  UNCHANGED <<scope, board, game>>
  <2>1. CASE Ask(c)
    BY <2>1 DEF Ask
  <2>2. CASE StartFails(c)
    BY <2>2 DEF StartFails
  <2>3. CASE ReadInfo(c)
    BY <2>3 DEF ReadInfo
  <2>4. CASE ReadBest(c)
    BY <2>4 DEF ReadBest
  <2>5. CASE Interrupt(c)
    BY <2>5 DEF Interrupt
  <2>6. CASE ProcessGone(c)
    BY <2>6 DEF ProcessGone
  <2>7. CASE Drain(c)
    BY <2>7 DEF Drain
  <2>8. CASE DrainFails(c)
    BY <2>8 DEF DrainFails
  <2>9. CASE Tell(c)
    BY <2>9 DEF Tell
  <2>10. CASE BestMove(c)
    BY <2>10 DEF BestMove
  <2>11. CASE Die(c)
    BY <2>11 DEF Die
  <2>. QED  BY <1>4, <2>1, <2>2, <2>3, <2>4, <2>5, <2>6, <2>7, <2>8, <2>9, <2>10, <2>11
<1>5. CASE UNCHANGED vars
  BY <1>5 DEF vars
<1>. QED  BY <1>1, <1>2, <1>3, <1>4, <1>5 DEF Next

(* Every step keeps it.                                                       *)
LEMMA BoardNext == Inv /\ BoardInv /\ [Next]_vars => BoardInv'
<1>. SUFFICES ASSUME Inv, BoardInv, [Next]_vars  PROVE BoardInv'
  OBVIOUS
<1>1. CASE ReadPly
  BY <1>1, ReadPlyOnBoard
<1>2. CASE ~ReadPly
  <2>1. UNCHANGED <<scope, board, game>>
    BY <1>2, BoardKept
  <2>. QED  BY <2>1 DEF BoardInv, SoundStart
<1>. QED  BY <1>1, <1>2

(* What it says of names and of soundness.                                    *)
LEMMA NamesOnBoard == BoardInv => NamesAreUnique
<1>. SUFFICES ASSUME BoardInv, NEW m \in Legal(board)
              PROVE  /\ Parsed(board, Legal(board), San(board, Legal(board), m)) = {m}
                     /\ Found(Legal(board), Uci(m)) = {m}
  BY DEF NamesAreUnique
<1>1. IsPlacement(board.men) /\ board.side \in Colors
  BY DEF BoardInv
<1>2. \A n \in Legal(board) : San(board, Legal(board), n) = San(board, Legal(board), m) => n = m
  BY <1>1, SanTells
<1>3. \A n \in Legal(board) :
        n.from = m.from /\ n.to = m.to /\ ("promotion" \in n.flags => n.promotion = m.promotion)
        => n = m
  BY <1>1, UciTells
<1>4. Uci(m).from = m.from /\ Uci(m).to = m.to /\ Uci(m).promotion = m.promotion
  BY DEF Uci
<1>. QED  BY <1>2, <1>3, <1>4 DEF Parsed, Found

LEMMA SoundOnBoard == BoardInv => (SoundStart => BoardSound)
<1>. SUFFICES ASSUME BoardInv, SoundStart  PROVE BoardSound
  OBVIOUS
<1>1. /\ IsPlacement(board.men) /\ IsPosition(board) /\ Sound(board) /\ board.full # 0
  BY DEF BoardInv
<1>2. AttacksAreCaptures
  BY <1>1, AttacksTurned DEF AttacksAreCaptures
<1>3. RightsAreReal
  BY <1>1 DEF Sound, RealRights, RightsAreReal
<1>4. ReadsBack(Fen(board))
  <2>1. Fen(board).men = board.men /\ Fen(board).full = board.full
    BY DEF Fen
  <2>. QED  BY <1>1, <2>1 DEF ReadsBack, Sound, Kings, Colors
<1>5. \A m \in Legal(board) : Unmake(Make(board, m), m, Undo(board, m)) = board
  BY <1>1, MoveTakenBack
<1>. QED  BY <1>2, <1>3, <1>4, <1>5 DEF BoardSound

(* In every position a game from any start can come to, no two legal moves    *)
(* have one name, in SAN or in UCI: the file, the rank or both are added to a *)
(* man's letter whenever another that may legally go there would be meant     *)
(* too (san.cpp:49, board.cpp:420).                                           *)
THEOREM NamesTell == Spec => []NamesAreUnique
<1>1. Init => Inv /\ BoardInv
  BY InitSound, BoardStarts
<1>2. Inv /\ BoardInv /\ [Next]_vars => (Inv /\ BoardInv)'
  BY NextSound, BoardNext
<1>3. BoardInv => NamesAreUnique
  BY NamesOnBoard
<1>. QED  BY <1>1, <1>2, <1>3, PTL DEF Spec

(* From a sound start (castling rights whose king and rook are at home, both  *)
(* kings there, the one that is not to move not in check, an en passant       *)
(* square with the pawn that passed it, a move number that stays below 2^16)  *)
(* the board is sound through any series of legal moves: attacks and captures *)
(* agree, rights stay real, no king is taken, and every move is taken back to *)
(* the very board it was made on (board.cpp:145, 370, 407, 430, 498).         *)
THEOREM BoardStaysSound == Spec => [](SoundStart => BoardSound)
<1>1. Init => Inv /\ BoardInv
  BY InitSound, BoardStarts
<1>2. Inv /\ BoardInv /\ [Next]_vars => (Inv /\ BoardInv)'
  BY NextSound, BoardNext
<1>3. BoardInv => (SoundStart => BoardSound)
  BY SoundOnBoard
<1>. QED  BY <1>1, <1>2, <1>3, PTL DEF Spec
=============================================================================
