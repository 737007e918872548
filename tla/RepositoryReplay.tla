-------------------------- MODULE RepositoryReplay --------------------------
(* What replaying the event log does to the projections of the repository, for*)
(* every log and every snapshot: event by event and projection by projection, *)
(* what it shows and keeps, what compaction and a snapshot leave of it, the   *)
(* events of a call under way, and what all the bases a replay can start from *)
(* have in common.                                                            *)
EXTENDS Repository, SubsequenceTheorems

-----------------------------------------------------------------------------
(* The projections and the events.                                            *)

Statuses == {None, "queued", "complete"}
SyncStates == [status : {"idle", "running", "succeeded"}, at : Nat]
Attempts == [id : Nat, correct : BOOLEAN, hint : 0..3, at : Nat]
GameStates == {s \in SUBSET {"game", "shallow", "deep"} : s # {} => "game" \in s}
DrillStates ==
  {d \in [made : BOOLEAN, attempts : Seq(Attempts), hint : 0..3, started : Nat] :
     ~d.made => d = NoDrill}
Lines == [game : Games, nodes : Seq(Nat), cursor : Nat]
LineMaps == UNION {[D -> Lines] : D \in SUBSET Nat}
NextIds == [attempt : Nat, batch : Nat, line : Nat, review : Nat]

Memories ==
  [games : [Games -> GameStates], jobs : [Games -> Statuses],
   drills : [Drills -> DrillStates],
   completed : SUBSET Resources, recommended : SUBSET Resources,
   paused : BOOLEAN, batches : SUBSET Nat, profile : 0..2, archive : SUBSET Entries,
   months : [Months -> Nat], sync : SyncStates, lines : LineMaps,
   reviews : SUBSET Nat, next : NextIds]

GameKinds == {"imported", "parsed", "rating", "shallow", "detail", "analysed"}
Kinds == GameKinds \cup
  {"job", "drill", "attempt", "session", "recommended", "completed", "paused", "batch",
   "profile", "chunk", "month", "sync", "saved", "deleted", "review", "snapshot",
   "compacted"}
Subjects == Games \cup Drills \cup Resources \cup Months \cup Nat \cup {None}
Sessions == [hint : 0..3, started : Nat]
Values == BOOLEAN \cup Nat \cup Games \cup Statuses \cup Attempts \cup Sessions
          \cup (SUBSET Entries) \cup SyncStates \cup Lines

(* What an event of each kind is about, and what it holds.                    *)
Typed(e) ==
  /\ e.kind \in GameKinds => e.of \in Games
  /\ e.kind = "job" => e.of \in Games /\ e.val \in Statuses
  /\ e.kind \in {"drill", "attempt", "session"} => e.of \in Drills
  /\ e.kind = "attempt" => e.val \in Attempts
  /\ e.kind = "session" => e.val \in Sessions
  /\ e.kind \in {"recommended", "completed"} => e.of \in Resources
  /\ e.kind = "paused" => e.val \in BOOLEAN
  /\ e.kind = "profile" => e.val \in 0..2
  /\ e.kind = "chunk" => e.val \in SUBSET Entries
  /\ e.kind = "month" => e.of \in Months /\ e.val \in Nat
  /\ e.kind = "sync" => e.val \in SyncStates
  /\ e.kind \in {"batch", "saved", "deleted", "review", "snapshot"} => e.of \in Nat
  /\ e.kind = "saved" => e.val \in Lines
  /\ e.kind = "snapshot" => e.val \in Nat

PlainEvents == {e \in [kind : Kinds, of : Subjects, val : Values] : Typed(e)}
LogEvents == {e \in [id : Nat \ {0}, kind : Kinds, of : Subjects, val : Values] : Typed(e)}

(* An event that is given its id is an event of the log, and otherwise what   *)
(* it was.                                                                    *)
LEMMA StampedTypes ==
  ASSUME NEW e \in PlainEvents, NEW n \in Nat \ {0}
  PROVE  /\ Stamped(e, n) \in LogEvents
         /\ Stamped(e, n).id = n /\ Stamped(e, n).kind = e.kind
         /\ Stamped(e, n).of = e.of /\ Stamped(e, n).val = e.val
BY DEF PlainEvents, LogEvents, Stamped, Typed

(* The projections of which an event changes one entry.                       *)
GamesAfter(games, e) ==
  IF e.kind = "imported" THEN [games EXCEPT ![e.of] = {"game"}]
  ELSE IF e.kind = "analysed" /\ games[e.of] # {}
  THEN [games EXCEPT ![e.of] = @ \cup {"deep"}]
  ELSE IF e.kind = "shallow" /\ games[e.of] # {} /\ "deep" \notin games[e.of]
  THEN [games EXCEPT ![e.of] = @ \cup {"shallow"}]
  ELSE games
DrillAfter(drill, e) ==
  IF e.kind = "drill" THEN NewDrill
  ELSE IF e.kind = "attempt" /\ drill.made
  THEN [drill EXCEPT !.attempts = Append(@, e.val)]
  ELSE IF e.kind = "session" /\ drill.made
  THEN [drill EXCEPT !.hint = e.val.hint, !.started = e.val.started]
  ELSE drill
DrillsAfter(drills, e) ==
  IF e.kind \in {"drill", "attempt", "session"}
  THEN [drills EXCEPT ![e.of] = DrillAfter(@, e)] ELSE drills
LinesAfter(lines, e) ==
  IF e.kind = "saved"
  THEN [n \in DOMAIN lines \cup {e.of} |-> IF n = e.of THEN e.val ELSE lines[n]]
  ELSE IF e.kind = "deleted" THEN [n \in DOMAIN lines \ {e.of} |-> lines[n]]
  ELSE lines

(* A drill stays a drill, whatever is recorded about it.                      *)
LEMMA DrillAfterTypes ==
  ASSUME NEW e \in LogEvents, NEW d \in DrillStates, e.kind \in {"drill", "attempt", "session"}
  PROVE  DrillAfter(d, e) \in DrillStates
<1>1. NewDrill \in DrillStates
  <2>1. NoDrill \in [made : BOOLEAN, attempts : Seq(Attempts), hint : 0..3, started : Nat]
    BY DEF NoDrill
  <2>2. /\ NewDrill \in [made : BOOLEAN, attempts : Seq(Attempts), hint : 0..3, started : Nat]
        /\ NewDrill.made
    BY <2>1 DEF NewDrill
  <2>. QED  BY <2>2 DEF DrillStates
<1>2. CASE e.kind = "drill"
  BY <1>1, <1>2 DEF DrillAfter
<1>3. /\ d \in [made : BOOLEAN, attempts : Seq(Attempts), hint : 0..3, started : Nat]
      /\ ~d.made => d = NoDrill
  BY DEF DrillStates
<1>4. CASE e.kind = "attempt" /\ d.made
  <2>1. e.val \in Attempts
    BY <1>4 DEF LogEvents, Typed
  <2>2. Append(d.attempts, e.val) \in Seq(Attempts)
    BY <1>3, <2>1
  <2>3. DrillAfter(d, e) = [d EXCEPT !.attempts = Append(d.attempts, e.val)]
    BY <1>4 DEF DrillAfter
  <2>. QED  BY <1>3, <1>4, <2>2, <2>3 DEF DrillStates
<1>5. CASE e.kind = "session" /\ d.made
  <2>1. e.val.hint \in 0..3 /\ e.val.started \in Nat
    BY <1>5 DEF LogEvents, Typed, Sessions
  <2>2. DrillAfter(d, e) = [d EXCEPT !.hint = e.val.hint, !.started = e.val.started]
    BY <1>5 DEF DrillAfter
  <2>. QED  BY <1>3, <1>5, <2>1, <2>2 DEF DrillStates
<1>6. CASE e.kind # "drill" /\ ~d.made
  BY <1>6 DEF DrillAfter
<1>. QED  BY <1>2, <1>4, <1>5, <1>6

(* Each of the projections stays what it is after an event.                   *)
LEMMA AfterTypes ==
  ASSUME NEW m \in Memories, NEW e \in LogEvents
  PROVE  /\ GamesAfter(m.games, e) \in [Games -> GameStates]
         /\ DrillsAfter(m.drills, e) \in [Drills -> DrillStates]
         /\ LinesAfter(m.lines, e) \in LineMaps
<1>1. m.games \in [Games -> GameStates] /\ m.drills \in [Drills -> DrillStates]
      /\ m.lines \in LineMaps
  BY DEF Memories
<1>2. Typed(e)
  BY DEF LogEvents
<1>3. GamesAfter(m.games, e) \in [Games -> GameStates]
  <2>1. e.kind \in GameKinds => m.games[e.of] \in GameStates
    BY <1>1, <1>2 DEF Typed
  <2>2. e.kind \in GameKinds => /\ {"game"} \in GameStates
                                /\ m.games[e.of] # {} => m.games[e.of] \cup {"deep"} \in GameStates
                                /\ m.games[e.of] # {} => m.games[e.of] \cup {"shallow"} \in GameStates
    BY <2>1 DEF GameStates
  <2>. QED  BY <1>1, <1>2, <2>2 DEF GamesAfter, GameKinds, Typed
<1>4. DrillsAfter(m.drills, e) \in [Drills -> DrillStates]
  <2>1. CASE e.kind \in {"drill", "attempt", "session"}
    <3>1. e.of \in Drills /\ m.drills[e.of] \in DrillStates
      BY <1>1, <1>2, <2>1 DEF Typed
    <3>2. DrillAfter(m.drills[e.of], e) \in DrillStates
      BY <2>1, <3>1, DrillAfterTypes
    <3>. QED  BY <1>1, <2>1, <3>1, <3>2 DEF DrillsAfter
  <2>2. CASE e.kind \notin {"drill", "attempt", "session"}
    BY <1>1, <2>2 DEF DrillsAfter
  <2>. QED  BY <2>1, <2>2
<1>5. LinesAfter(m.lines, e) \in LineMaps
  <2>1. PICK D \in SUBSET Nat : m.lines \in [D -> Lines]
    BY <1>1 DEF LineMaps
  <2>2. CASE e.kind = "saved"
    <3>1. LinesAfter(m.lines, e) \in [D \cup {e.of} -> Lines] /\ D \cup {e.of} \in SUBSET Nat
      BY <1>2, <2>1, <2>2 DEF LinesAfter, Typed
    <3>. QED  BY <3>1 DEF LineMaps
  <2>3. CASE e.kind = "deleted"
    <3>1. LinesAfter(m.lines, e) \in [D \ {e.of} -> Lines] /\ D \ {e.of} \in SUBSET Nat
      BY <1>2, <2>1, <2>3 DEF LinesAfter, Typed
    <3>. QED  BY <3>1 DEF LineMaps
  <2>. QED  BY <1>1, <2>2, <2>3 DEF LinesAfter
<1>. QED  BY <1>3, <1>4, <1>5

(* replay() of one event, projection by projection.                           *)
NextTo(r, m, e) ==
  /\ r.next.attempt = IF e.kind = "attempt" /\ m.drills[e.of].made
                      THEN Larger(m.next.attempt, e.val.id + 1) ELSE m.next.attempt
  /\ r.next.batch = IF e.kind = "batch" THEN Larger(m.next.batch, e.of + 1)
                    ELSE m.next.batch
  /\ r.next.review = IF e.kind = "review" THEN Larger(m.next.review, e.of + 1)
                     ELSE m.next.review
SetsTo(r, m, e) ==
  /\ r.completed = IF e.kind = "completed" THEN m.completed \cup {e.of} ELSE m.completed
  /\ r.recommended = IF e.kind = "recommended" THEN m.recommended \cup {e.of}
                     ELSE m.recommended
  /\ r.batches = IF e.kind = "batch" THEN m.batches \cup {e.of} ELSE m.batches
  /\ r.archive = IF e.kind = "chunk" THEN m.archive \cup e.val ELSE m.archive
  /\ r.reviews = IF e.kind = "review" THEN m.reviews \cup {e.of} ELSE m.reviews
ValuesTo(r, m, e) ==
  /\ r.jobs = IF e.kind = "job" THEN [m.jobs EXCEPT ![e.of] = e.val] ELSE m.jobs
  /\ r.paused = IF e.kind = "paused" THEN e.val ELSE m.paused
  /\ r.profile = IF e.kind = "profile" THEN e.val ELSE m.profile
  /\ r.months = IF e.kind = "month" THEN [m.months EXCEPT ![e.of] = e.val] ELSE m.months
  /\ r.sync = IF e.kind = "sync" THEN e.val ELSE m.sync
EntriesTo(r, m, e) ==
  /\ r.games = GamesAfter(m.games, e)
  /\ r.drills = DrillsAfter(m.drills, e)
  /\ r.lines = LinesAfter(m.lines, e)
ReplaysTo(r, m, e) ==
  /\ r \in Memories
  /\ NextTo(r, m, e) /\ SetsTo(r, m, e) /\ ValuesTo(r, m, e) /\ EntriesTo(r, m, e)

(* Replay of one event does what is said above, kind by kind.                 *)
LEMMA ReplayedFields ==
  ASSUME NEW m \in Memories, NEW e \in LogEvents
  PROVE  ReplaysTo(Replayed(m, e), m, e)
<1>. DEFINE r == Replayed(m, e)
<1>1. Typed(e) /\ e.kind \in Kinds
  BY DEF LogEvents
<1>2. /\ GamesAfter(m.games, e) \in [Games -> GameStates]
      /\ DrillsAfter(m.drills, e) \in [Drills -> DrillStates]
      /\ LinesAfter(m.lines, e) \in LineMaps
  BY AfterTypes
<1>3. CASE e.kind \in GameKinds
  <2>1. r = [m EXCEPT !.games = GamesAfter(m.games, e)]
    BY <1>3 DEF Replayed, GamesAfter, DrillsAfter, DrillAfter, LinesAfter, Memories, GameKinds
  <2>. HIDE DEF r
  <2>2. /\ DrillsAfter(m.drills, e) = m.drills
        /\ LinesAfter(m.lines, e) = m.lines
    BY <1>3 DEF GamesAfter, DrillsAfter, LinesAfter, DrillAfter, Memories, GameKinds
  <2>3. /\ r.games = GamesAfter(m.games, e)
        /\ r.jobs = m.jobs /\ r.drills = m.drills /\ r.completed = m.completed
        /\ r.recommended = m.recommended /\ r.paused = m.paused
        /\ r.batches = m.batches /\ r.profile = m.profile
        /\ r.archive = m.archive /\ r.months = m.months /\ r.sync = m.sync
        /\ r.lines = m.lines /\ r.reviews = m.reviews /\ r.next = m.next
    BY <2>1 DEF Memories
  <2>5. r \in Memories
    BY <1>1, <1>2, <1>3, <2>1 DEF Memories, Typed
  <2>6. NextTo(r, m, e)
    BY <1>3, <2>3 DEF NextTo, Memories, NextIds, GameKinds
  <2>7. SetsTo(r, m, e)
    BY <1>3, <2>3 DEF SetsTo, GameKinds
  <2>8. ValuesTo(r, m, e)
    BY <1>3, <2>3 DEF ValuesTo, GameKinds
  <2>9. EntriesTo(r, m, e)
    BY <2>2, <2>3 DEF EntriesTo
  <2>. QED  BY <2>5, <2>6, <2>7, <2>8, <2>9 DEF ReplaysTo, r
<1>4. CASE e.kind = "completed"
  <2>1. r = [m EXCEPT !.completed = m.completed \cup {e.of}]
    BY <1>4 DEF Replayed, GamesAfter, DrillsAfter, DrillAfter, LinesAfter, Memories, GameKinds
  <2>. HIDE DEF r
  <2>2. /\ GamesAfter(m.games, e) = m.games
        /\ DrillsAfter(m.drills, e) = m.drills
        /\ LinesAfter(m.lines, e) = m.lines
    BY <1>4 DEF GamesAfter, DrillsAfter, LinesAfter, DrillAfter, Memories, GameKinds
  <2>3. /\ r.completed = m.completed \cup {e.of}
        /\ r.games = m.games /\ r.jobs = m.jobs /\ r.drills = m.drills
        /\ r.recommended = m.recommended /\ r.paused = m.paused
        /\ r.batches = m.batches /\ r.profile = m.profile
        /\ r.archive = m.archive /\ r.months = m.months /\ r.sync = m.sync
        /\ r.lines = m.lines /\ r.reviews = m.reviews /\ r.next = m.next
    BY <2>1 DEF Memories
  <2>5. r \in Memories
    BY <1>1, <1>2, <1>4, <2>1 DEF Memories, Typed
  <2>6. NextTo(r, m, e)
    BY <1>4, <2>3 DEF NextTo, Memories, NextIds, GameKinds
  <2>7. SetsTo(r, m, e)
    BY <1>4, <2>3 DEF SetsTo, GameKinds
  <2>8. ValuesTo(r, m, e)
    BY <1>4, <2>3 DEF ValuesTo, GameKinds
  <2>9. EntriesTo(r, m, e)
    BY <2>2, <2>3 DEF EntriesTo
  <2>. QED  BY <2>5, <2>6, <2>7, <2>8, <2>9 DEF ReplaysTo, r
<1>5. CASE e.kind = "recommended"
  <2>1. r = [m EXCEPT !.recommended = m.recommended \cup {e.of}]
    BY <1>5 DEF Replayed, GamesAfter, DrillsAfter, DrillAfter, LinesAfter, Memories, GameKinds
  <2>. HIDE DEF r
  <2>2. /\ GamesAfter(m.games, e) = m.games
        /\ DrillsAfter(m.drills, e) = m.drills
        /\ LinesAfter(m.lines, e) = m.lines
    BY <1>5 DEF GamesAfter, DrillsAfter, LinesAfter, DrillAfter, Memories, GameKinds
  <2>3. /\ r.recommended = m.recommended \cup {e.of}
        /\ r.games = m.games /\ r.jobs = m.jobs /\ r.drills = m.drills
        /\ r.completed = m.completed /\ r.paused = m.paused
        /\ r.batches = m.batches /\ r.profile = m.profile
        /\ r.archive = m.archive /\ r.months = m.months /\ r.sync = m.sync
        /\ r.lines = m.lines /\ r.reviews = m.reviews /\ r.next = m.next
    BY <2>1 DEF Memories
  <2>5. r \in Memories
    BY <1>1, <1>2, <1>5, <2>1 DEF Memories, Typed
  <2>6. NextTo(r, m, e)
    BY <1>5, <2>3 DEF NextTo, Memories, NextIds, GameKinds
  <2>7. SetsTo(r, m, e)
    BY <1>5, <2>3 DEF SetsTo, GameKinds
  <2>8. ValuesTo(r, m, e)
    BY <1>5, <2>3 DEF ValuesTo, GameKinds
  <2>9. EntriesTo(r, m, e)
    BY <2>2, <2>3 DEF EntriesTo
  <2>. QED  BY <2>5, <2>6, <2>7, <2>8, <2>9 DEF ReplaysTo, r
<1>6. CASE e.kind = "chunk"
  <2>1. r = [m EXCEPT !.archive = m.archive \cup e.val]
    BY <1>6 DEF Replayed, GamesAfter, DrillsAfter, DrillAfter, LinesAfter, Memories, GameKinds
  <2>. HIDE DEF r
  <2>2. /\ GamesAfter(m.games, e) = m.games
        /\ DrillsAfter(m.drills, e) = m.drills
        /\ LinesAfter(m.lines, e) = m.lines
    BY <1>6 DEF GamesAfter, DrillsAfter, LinesAfter, DrillAfter, Memories, GameKinds
  <2>3. /\ r.archive = m.archive \cup e.val
        /\ r.games = m.games /\ r.jobs = m.jobs /\ r.drills = m.drills
        /\ r.completed = m.completed /\ r.recommended = m.recommended
        /\ r.paused = m.paused /\ r.batches = m.batches
        /\ r.profile = m.profile /\ r.months = m.months /\ r.sync = m.sync
        /\ r.lines = m.lines /\ r.reviews = m.reviews /\ r.next = m.next
    BY <2>1 DEF Memories
  <2>5. r \in Memories
    BY <1>1, <1>2, <1>6, <2>1 DEF Memories, Typed
  <2>6. NextTo(r, m, e)
    BY <1>6, <2>3 DEF NextTo, Memories, NextIds, GameKinds
  <2>7. SetsTo(r, m, e)
    BY <1>6, <2>3 DEF SetsTo, GameKinds
  <2>8. ValuesTo(r, m, e)
    BY <1>6, <2>3 DEF ValuesTo, GameKinds
  <2>9. EntriesTo(r, m, e)
    BY <2>2, <2>3 DEF EntriesTo
  <2>. QED  BY <2>5, <2>6, <2>7, <2>8, <2>9 DEF ReplaysTo, r
<1>7. CASE e.kind = "paused"
  <2>1. r = [m EXCEPT !.paused = e.val]
    BY <1>7 DEF Replayed, GamesAfter, DrillsAfter, DrillAfter, LinesAfter, Memories, GameKinds
  <2>. HIDE DEF r
  <2>2. /\ GamesAfter(m.games, e) = m.games
        /\ DrillsAfter(m.drills, e) = m.drills
        /\ LinesAfter(m.lines, e) = m.lines
    BY <1>7 DEF GamesAfter, DrillsAfter, LinesAfter, DrillAfter, Memories, GameKinds
  <2>3. /\ r.paused = e.val
        /\ r.games = m.games /\ r.jobs = m.jobs /\ r.drills = m.drills
        /\ r.completed = m.completed /\ r.recommended = m.recommended
        /\ r.batches = m.batches /\ r.profile = m.profile
        /\ r.archive = m.archive /\ r.months = m.months /\ r.sync = m.sync
        /\ r.lines = m.lines /\ r.reviews = m.reviews /\ r.next = m.next
    BY <2>1 DEF Memories
  <2>5. r \in Memories
    BY <1>1, <1>2, <1>7, <2>1 DEF Memories, Typed
  <2>6. NextTo(r, m, e)
    BY <1>7, <2>3 DEF NextTo, Memories, NextIds, GameKinds
  <2>7. SetsTo(r, m, e)
    BY <1>7, <2>3 DEF SetsTo, GameKinds
  <2>8. ValuesTo(r, m, e)
    BY <1>7, <2>3 DEF ValuesTo, GameKinds
  <2>9. EntriesTo(r, m, e)
    BY <2>2, <2>3 DEF EntriesTo
  <2>. QED  BY <2>5, <2>6, <2>7, <2>8, <2>9 DEF ReplaysTo, r
<1>8. CASE e.kind = "profile"
  <2>1. r = [m EXCEPT !.profile = e.val]
    BY <1>8 DEF Replayed, GamesAfter, DrillsAfter, DrillAfter, LinesAfter, Memories, GameKinds
  <2>. HIDE DEF r
  <2>2. /\ GamesAfter(m.games, e) = m.games
        /\ DrillsAfter(m.drills, e) = m.drills
        /\ LinesAfter(m.lines, e) = m.lines
    BY <1>8 DEF GamesAfter, DrillsAfter, LinesAfter, DrillAfter, Memories, GameKinds
  <2>3. /\ r.profile = e.val
        /\ r.games = m.games /\ r.jobs = m.jobs /\ r.drills = m.drills
        /\ r.completed = m.completed /\ r.recommended = m.recommended
        /\ r.paused = m.paused /\ r.batches = m.batches
        /\ r.archive = m.archive /\ r.months = m.months /\ r.sync = m.sync
        /\ r.lines = m.lines /\ r.reviews = m.reviews /\ r.next = m.next
    BY <2>1 DEF Memories
  <2>5. r \in Memories
    BY <1>1, <1>2, <1>8, <2>1 DEF Memories, Typed
  <2>6. NextTo(r, m, e)
    BY <1>8, <2>3 DEF NextTo, Memories, NextIds, GameKinds
  <2>7. SetsTo(r, m, e)
    BY <1>8, <2>3 DEF SetsTo, GameKinds
  <2>8. ValuesTo(r, m, e)
    BY <1>8, <2>3 DEF ValuesTo, GameKinds
  <2>9. EntriesTo(r, m, e)
    BY <2>2, <2>3 DEF EntriesTo
  <2>. QED  BY <2>5, <2>6, <2>7, <2>8, <2>9 DEF ReplaysTo, r
<1>9. CASE e.kind = "sync"
  <2>1. r = [m EXCEPT !.sync = e.val]
    BY <1>9 DEF Replayed, GamesAfter, DrillsAfter, DrillAfter, LinesAfter, Memories, GameKinds
  <2>. HIDE DEF r
  <2>2. /\ GamesAfter(m.games, e) = m.games
        /\ DrillsAfter(m.drills, e) = m.drills
        /\ LinesAfter(m.lines, e) = m.lines
    BY <1>9 DEF GamesAfter, DrillsAfter, LinesAfter, DrillAfter, Memories, GameKinds
  <2>3. /\ r.sync = e.val
        /\ r.games = m.games /\ r.jobs = m.jobs /\ r.drills = m.drills
        /\ r.completed = m.completed /\ r.recommended = m.recommended
        /\ r.paused = m.paused /\ r.batches = m.batches
        /\ r.profile = m.profile /\ r.archive = m.archive
        /\ r.months = m.months /\ r.lines = m.lines /\ r.reviews = m.reviews
        /\ r.next = m.next
    BY <2>1 DEF Memories
  <2>5. r \in Memories
    BY <1>1, <1>2, <1>9, <2>1 DEF Memories, Typed
  <2>6. NextTo(r, m, e)
    BY <1>9, <2>3 DEF NextTo, Memories, NextIds, GameKinds
  <2>7. SetsTo(r, m, e)
    BY <1>9, <2>3 DEF SetsTo, GameKinds
  <2>8. ValuesTo(r, m, e)
    BY <1>9, <2>3 DEF ValuesTo, GameKinds
  <2>9. EntriesTo(r, m, e)
    BY <2>2, <2>3 DEF EntriesTo
  <2>. QED  BY <2>5, <2>6, <2>7, <2>8, <2>9 DEF ReplaysTo, r
<1>10. CASE e.kind = "job"
  <2>1. r = [m EXCEPT !.jobs = [m.jobs EXCEPT ![e.of] = e.val]]
    BY <1>10 DEF Replayed, GamesAfter, DrillsAfter, DrillAfter, LinesAfter, Memories, GameKinds
  <2>. HIDE DEF r
  <2>2. /\ GamesAfter(m.games, e) = m.games
        /\ DrillsAfter(m.drills, e) = m.drills
        /\ LinesAfter(m.lines, e) = m.lines
    BY <1>10 DEF GamesAfter, DrillsAfter, LinesAfter, DrillAfter, Memories, GameKinds
  <2>3. /\ r.jobs = [m.jobs EXCEPT ![e.of] = e.val]
        /\ r.games = m.games /\ r.drills = m.drills
        /\ r.completed = m.completed /\ r.recommended = m.recommended
        /\ r.paused = m.paused /\ r.batches = m.batches
        /\ r.profile = m.profile /\ r.archive = m.archive
        /\ r.months = m.months /\ r.sync = m.sync /\ r.lines = m.lines
        /\ r.reviews = m.reviews /\ r.next = m.next
    BY <2>1 DEF Memories
  <2>5. r \in Memories
    BY <1>1, <1>2, <1>10, <2>1 DEF Memories, Typed
  <2>6. NextTo(r, m, e)
    BY <1>10, <2>3 DEF NextTo, Memories, NextIds, GameKinds
  <2>7. SetsTo(r, m, e)
    BY <1>10, <2>3 DEF SetsTo, GameKinds
  <2>8. ValuesTo(r, m, e)
    BY <1>10, <2>3 DEF ValuesTo, GameKinds
  <2>9. EntriesTo(r, m, e)
    BY <2>2, <2>3 DEF EntriesTo
  <2>. QED  BY <2>5, <2>6, <2>7, <2>8, <2>9 DEF ReplaysTo, r
<1>11. CASE e.kind = "month"
  <2>1. r = [m EXCEPT !.months = [m.months EXCEPT ![e.of] = e.val]]
    BY <1>11 DEF Replayed, GamesAfter, DrillsAfter, DrillAfter, LinesAfter, Memories, GameKinds
  <2>. HIDE DEF r
  <2>2. /\ GamesAfter(m.games, e) = m.games
        /\ DrillsAfter(m.drills, e) = m.drills
        /\ LinesAfter(m.lines, e) = m.lines
    BY <1>11 DEF GamesAfter, DrillsAfter, LinesAfter, DrillAfter, Memories, GameKinds
  <2>3. /\ r.months = [m.months EXCEPT ![e.of] = e.val]
        /\ r.games = m.games /\ r.jobs = m.jobs /\ r.drills = m.drills
        /\ r.completed = m.completed /\ r.recommended = m.recommended
        /\ r.paused = m.paused /\ r.batches = m.batches
        /\ r.profile = m.profile /\ r.archive = m.archive /\ r.sync = m.sync
        /\ r.lines = m.lines /\ r.reviews = m.reviews /\ r.next = m.next
    BY <2>1 DEF Memories
  <2>5. r \in Memories
    BY <1>1, <1>2, <1>11, <2>1 DEF Memories, Typed
  <2>6. NextTo(r, m, e)
    BY <1>11, <2>3 DEF NextTo, Memories, NextIds, GameKinds
  <2>7. SetsTo(r, m, e)
    BY <1>11, <2>3 DEF SetsTo, GameKinds
  <2>8. ValuesTo(r, m, e)
    BY <1>11, <2>3 DEF ValuesTo, GameKinds
  <2>9. EntriesTo(r, m, e)
    BY <2>2, <2>3 DEF EntriesTo
  <2>. QED  BY <2>5, <2>6, <2>7, <2>8, <2>9 DEF ReplaysTo, r
<1>12. CASE e.kind \in {"snapshot", "compacted"}
  <2>1. r = m
    BY <1>12 DEF Replayed, GamesAfter, DrillsAfter, DrillAfter, LinesAfter, Memories, GameKinds
  <2>. HIDE DEF r
  <2>2. /\ GamesAfter(m.games, e) = m.games
        /\ DrillsAfter(m.drills, e) = m.drills
        /\ LinesAfter(m.lines, e) = m.lines
    BY <1>12 DEF GamesAfter, DrillsAfter, LinesAfter, DrillAfter, Memories, GameKinds
  <2>3. /\ r.games = m.games /\ r.jobs = m.jobs /\ r.drills = m.drills
        /\ r.completed = m.completed /\ r.recommended = m.recommended
        /\ r.paused = m.paused /\ r.batches = m.batches
        /\ r.profile = m.profile /\ r.archive = m.archive
        /\ r.months = m.months /\ r.sync = m.sync /\ r.lines = m.lines
        /\ r.reviews = m.reviews /\ r.next = m.next
    BY <2>1 DEF Memories
  <2>5. r \in Memories
    BY <1>1, <1>2, <1>12, <2>1 DEF Memories, Typed
  <2>6. NextTo(r, m, e)
    BY <1>12, <2>3 DEF NextTo, Memories, NextIds, GameKinds
  <2>7. SetsTo(r, m, e)
    BY <1>12, <2>3 DEF SetsTo, GameKinds
  <2>8. ValuesTo(r, m, e)
    BY <1>12, <2>3 DEF ValuesTo, GameKinds
  <2>9. EntriesTo(r, m, e)
    BY <2>2, <2>3 DEF EntriesTo
  <2>. QED  BY <2>5, <2>6, <2>7, <2>8, <2>9 DEF ReplaysTo, r
<1>13. CASE e.kind \in {"drill", "session"}
  <2>1. r = [m EXCEPT !.drills = DrillsAfter(m.drills, e)]
    BY <1>13 DEF Replayed, GamesAfter, DrillsAfter, DrillAfter, LinesAfter, Memories, GameKinds
  <2>. HIDE DEF r
  <2>2. /\ GamesAfter(m.games, e) = m.games
        /\ LinesAfter(m.lines, e) = m.lines
    BY <1>13 DEF GamesAfter, DrillsAfter, LinesAfter, DrillAfter, Memories, GameKinds
  <2>3. /\ r.drills = DrillsAfter(m.drills, e)
        /\ r.games = m.games /\ r.jobs = m.jobs /\ r.completed = m.completed
        /\ r.recommended = m.recommended /\ r.paused = m.paused
        /\ r.batches = m.batches /\ r.profile = m.profile
        /\ r.archive = m.archive /\ r.months = m.months /\ r.sync = m.sync
        /\ r.lines = m.lines /\ r.reviews = m.reviews /\ r.next = m.next
    BY <2>1 DEF Memories
  <2>5. r \in Memories
    BY <1>1, <1>2, <1>13, <2>1 DEF Memories, Typed
  <2>6. NextTo(r, m, e)
    BY <1>13, <2>3 DEF NextTo, Memories, NextIds, GameKinds
  <2>7. SetsTo(r, m, e)
    BY <1>13, <2>3 DEF SetsTo, GameKinds
  <2>8. ValuesTo(r, m, e)
    BY <1>13, <2>3 DEF ValuesTo, GameKinds
  <2>9. EntriesTo(r, m, e)
    BY <2>2, <2>3 DEF EntriesTo
  <2>. QED  BY <2>5, <2>6, <2>7, <2>8, <2>9 DEF ReplaysTo, r
<1>14. CASE e.kind = "attempt" /\ ~m.drills[e.of].made
  <2>1. r = m
    BY <1>14 DEF Replayed, GamesAfter, DrillsAfter, DrillAfter, LinesAfter, Memories, GameKinds
  <2>. HIDE DEF r
  <2>2. /\ GamesAfter(m.games, e) = m.games
        /\ DrillsAfter(m.drills, e) = m.drills
        /\ LinesAfter(m.lines, e) = m.lines
    BY <1>14 DEF GamesAfter, DrillsAfter, LinesAfter, DrillAfter, Memories, GameKinds
  <2>3. /\ r.games = m.games /\ r.jobs = m.jobs /\ r.drills = m.drills
        /\ r.completed = m.completed /\ r.recommended = m.recommended
        /\ r.paused = m.paused /\ r.batches = m.batches
        /\ r.profile = m.profile /\ r.archive = m.archive
        /\ r.months = m.months /\ r.sync = m.sync /\ r.lines = m.lines
        /\ r.reviews = m.reviews /\ r.next = m.next
    BY <2>1 DEF Memories
  <2>5. r \in Memories
    BY <1>1, <1>2, <1>14, <2>1 DEF Memories, Typed
  <2>6. NextTo(r, m, e)
    BY <1>14, <2>3 DEF NextTo, Memories, NextIds, GameKinds
  <2>7. SetsTo(r, m, e)
    BY <1>14, <2>3 DEF SetsTo, GameKinds
  <2>8. ValuesTo(r, m, e)
    BY <1>14, <2>3 DEF ValuesTo, GameKinds
  <2>9. EntriesTo(r, m, e)
    BY <2>2, <2>3 DEF EntriesTo
  <2>. QED  BY <2>5, <2>6, <2>7, <2>8, <2>9 DEF ReplaysTo, r
<1>15. CASE e.kind = "attempt" /\ m.drills[e.of].made
  <2>1. r = [m EXCEPT !.drills = DrillsAfter(m.drills, e), !.next.attempt = Larger(m.next.attempt, e.val.id + 1)]
    BY <1>15 DEF Replayed, GamesAfter, DrillsAfter, DrillAfter, LinesAfter, Memories, GameKinds
  <2>. HIDE DEF r
  <2>2. /\ GamesAfter(m.games, e) = m.games
        /\ LinesAfter(m.lines, e) = m.lines
    BY <1>15 DEF GamesAfter, DrillsAfter, LinesAfter, DrillAfter, Memories, GameKinds
  <2>3. /\ r.drills = DrillsAfter(m.drills, e)
        /\ r.next = [m.next EXCEPT !.attempt = Larger(m.next.attempt, e.val.id + 1)]
        /\ r.games = m.games /\ r.jobs = m.jobs /\ r.completed = m.completed
        /\ r.recommended = m.recommended /\ r.paused = m.paused
        /\ r.batches = m.batches /\ r.profile = m.profile
        /\ r.archive = m.archive /\ r.months = m.months /\ r.sync = m.sync
        /\ r.lines = m.lines /\ r.reviews = m.reviews
    BY <2>1 DEF Memories
  <2>4. r.next \in NextIds
    BY <1>1, <1>15, <2>3 DEF Memories, NextIds, Typed, Larger, Attempts
  <2>5. r \in Memories
    BY <1>1, <1>2, <1>15, <2>1, <2>3, <2>4 DEF Memories, Typed
  <2>6. NextTo(r, m, e)
    BY <1>15, <2>3 DEF NextTo, Memories, NextIds, GameKinds
  <2>7. SetsTo(r, m, e)
    BY <1>15, <2>3 DEF SetsTo, GameKinds
  <2>8. ValuesTo(r, m, e)
    BY <1>15, <2>3 DEF ValuesTo, GameKinds
  <2>9. EntriesTo(r, m, e)
    BY <2>2, <2>3 DEF EntriesTo
  <2>. QED  BY <2>5, <2>6, <2>7, <2>8, <2>9 DEF ReplaysTo, r
<1>16. CASE e.kind = "batch"
  <2>1. r = [m EXCEPT !.batches = m.batches \cup {e.of}, !.next.batch = Larger(m.next.batch, e.of + 1)]
    BY <1>16 DEF Replayed, GamesAfter, DrillsAfter, DrillAfter, LinesAfter, Memories, GameKinds
  <2>. HIDE DEF r
  <2>2. /\ GamesAfter(m.games, e) = m.games
        /\ DrillsAfter(m.drills, e) = m.drills
        /\ LinesAfter(m.lines, e) = m.lines
    BY <1>16 DEF GamesAfter, DrillsAfter, LinesAfter, DrillAfter, Memories, GameKinds
  <2>3. /\ r.batches = m.batches \cup {e.of}
        /\ r.next = [m.next EXCEPT !.batch = Larger(m.next.batch, e.of + 1)]
        /\ r.games = m.games /\ r.jobs = m.jobs /\ r.drills = m.drills
        /\ r.completed = m.completed /\ r.recommended = m.recommended
        /\ r.paused = m.paused /\ r.profile = m.profile
        /\ r.archive = m.archive /\ r.months = m.months /\ r.sync = m.sync
        /\ r.lines = m.lines /\ r.reviews = m.reviews
    BY <2>1 DEF Memories
  <2>4. r.next \in NextIds
    BY <1>1, <1>16, <2>3 DEF Memories, NextIds, Typed, Larger, Attempts
  <2>5. r \in Memories
    BY <1>1, <1>2, <1>16, <2>1, <2>3, <2>4 DEF Memories, Typed
  <2>6. NextTo(r, m, e)
    BY <1>16, <2>3 DEF NextTo, Memories, NextIds, GameKinds
  <2>7. SetsTo(r, m, e)
    BY <1>16, <2>3 DEF SetsTo, GameKinds
  <2>8. ValuesTo(r, m, e)
    BY <1>16, <2>3 DEF ValuesTo, GameKinds
  <2>9. EntriesTo(r, m, e)
    BY <2>2, <2>3 DEF EntriesTo
  <2>. QED  BY <2>5, <2>6, <2>7, <2>8, <2>9 DEF ReplaysTo, r
<1>17. CASE e.kind = "review"
  <2>1. r = [m EXCEPT !.reviews = m.reviews \cup {e.of}, !.next.review = Larger(m.next.review, e.of + 1)]
    BY <1>17 DEF Replayed, GamesAfter, DrillsAfter, DrillAfter, LinesAfter, Memories, GameKinds
  <2>. HIDE DEF r
  <2>2. /\ GamesAfter(m.games, e) = m.games
        /\ DrillsAfter(m.drills, e) = m.drills
        /\ LinesAfter(m.lines, e) = m.lines
    BY <1>17 DEF GamesAfter, DrillsAfter, LinesAfter, DrillAfter, Memories, GameKinds
  <2>3. /\ r.reviews = m.reviews \cup {e.of}
        /\ r.next = [m.next EXCEPT !.review = Larger(m.next.review, e.of + 1)]
        /\ r.games = m.games /\ r.jobs = m.jobs /\ r.drills = m.drills
        /\ r.completed = m.completed /\ r.recommended = m.recommended
        /\ r.paused = m.paused /\ r.batches = m.batches
        /\ r.profile = m.profile /\ r.archive = m.archive
        /\ r.months = m.months /\ r.sync = m.sync /\ r.lines = m.lines
    BY <2>1 DEF Memories
  <2>4. r.next \in NextIds
    BY <1>1, <1>17, <2>3 DEF Memories, NextIds, Typed, Larger, Attempts
  <2>5. r \in Memories
    BY <1>1, <1>2, <1>17, <2>1, <2>3, <2>4 DEF Memories, Typed
  <2>6. NextTo(r, m, e)
    BY <1>17, <2>3 DEF NextTo, Memories, NextIds, GameKinds
  <2>7. SetsTo(r, m, e)
    BY <1>17, <2>3 DEF SetsTo, GameKinds
  <2>8. ValuesTo(r, m, e)
    BY <1>17, <2>3 DEF ValuesTo, GameKinds
  <2>9. EntriesTo(r, m, e)
    BY <2>2, <2>3 DEF EntriesTo
  <2>. QED  BY <2>5, <2>6, <2>7, <2>8, <2>9 DEF ReplaysTo, r
<1>18. CASE e.kind = "saved"
  <2>1. r = [m EXCEPT !.lines = LinesAfter(m.lines, e), !.next.line = Larger(m.next.line, e.of + 1)]
    BY <1>18 DEF Replayed, GamesAfter, DrillsAfter, DrillAfter, LinesAfter, Memories, GameKinds
  <2>. HIDE DEF r
  <2>2. /\ GamesAfter(m.games, e) = m.games
        /\ DrillsAfter(m.drills, e) = m.drills
    BY <1>18 DEF GamesAfter, DrillsAfter, LinesAfter, DrillAfter, Memories, GameKinds
  <2>3. /\ r.lines = LinesAfter(m.lines, e)
        /\ r.next = [m.next EXCEPT !.line = Larger(m.next.line, e.of + 1)]
        /\ r.games = m.games /\ r.jobs = m.jobs /\ r.drills = m.drills
        /\ r.completed = m.completed /\ r.recommended = m.recommended
        /\ r.paused = m.paused /\ r.batches = m.batches
        /\ r.profile = m.profile /\ r.archive = m.archive
        /\ r.months = m.months /\ r.sync = m.sync /\ r.reviews = m.reviews
    BY <2>1 DEF Memories
  <2>4. r.next \in NextIds
    BY <1>1, <1>18, <2>3 DEF Memories, NextIds, Typed, Larger, Attempts
  <2>5. r \in Memories
    BY <1>1, <1>2, <1>18, <2>1, <2>3, <2>4 DEF Memories, Typed
  <2>6. NextTo(r, m, e)
    BY <1>18, <2>3 DEF NextTo, Memories, NextIds, GameKinds
  <2>7. SetsTo(r, m, e)
    BY <1>18, <2>3 DEF SetsTo, GameKinds
  <2>8. ValuesTo(r, m, e)
    BY <1>18, <2>3 DEF ValuesTo, GameKinds
  <2>9. EntriesTo(r, m, e)
    BY <2>2, <2>3 DEF EntriesTo
  <2>. QED  BY <2>5, <2>6, <2>7, <2>8, <2>9 DEF ReplaysTo, r
<1>19. CASE e.kind = "deleted"
  <2>1. r = [m EXCEPT !.lines = LinesAfter(m.lines, e)]
    BY <1>19 DEF Replayed, GamesAfter, DrillsAfter, DrillAfter, LinesAfter, Memories, GameKinds
  <2>. HIDE DEF r
  <2>2. /\ GamesAfter(m.games, e) = m.games
        /\ DrillsAfter(m.drills, e) = m.drills
    BY <1>19 DEF GamesAfter, DrillsAfter, LinesAfter, DrillAfter, Memories, GameKinds
  <2>3. /\ r.lines = LinesAfter(m.lines, e)
        /\ r.games = m.games /\ r.jobs = m.jobs /\ r.drills = m.drills
        /\ r.completed = m.completed /\ r.recommended = m.recommended
        /\ r.paused = m.paused /\ r.batches = m.batches
        /\ r.profile = m.profile /\ r.archive = m.archive
        /\ r.months = m.months /\ r.sync = m.sync /\ r.reviews = m.reviews
        /\ r.next = m.next
    BY <2>1 DEF Memories
  <2>5. r \in Memories
    BY <1>1, <1>2, <1>19, <2>1 DEF Memories, Typed
  <2>6. NextTo(r, m, e)
    BY <1>19, <2>3 DEF NextTo, Memories, NextIds, GameKinds
  <2>7. SetsTo(r, m, e)
    BY <1>19, <2>3 DEF SetsTo, GameKinds
  <2>8. ValuesTo(r, m, e)
    BY <1>19, <2>3 DEF ValuesTo, GameKinds
  <2>9. EntriesTo(r, m, e)
    BY <2>2, <2>3 DEF EntriesTo
  <2>. QED  BY <2>5, <2>6, <2>7, <2>8, <2>9 DEF ReplaysTo, r
<1>. QED  BY <1>1, <1>3, <1>4, <1>5, <1>6, <1>7, <1>8, <1>9, <1>10, <1>11, <1>12, <1>13, <1>14, <1>15, <1>16, <1>17, <1>18, <1>19 DEF Kinds

-----------------------------------------------------------------------------
(* Replaying a log, event by event: m[n] are the projections after n events.  *)

Runs(m, base, at, events) ==
  /\ m \in [0..Len(events) -> Memories]
  /\ m[0] = base
  /\ \A n \in 1..Len(events) :
       m[n] = IF After(events[n], at) THEN Replayed(m[n - 1], events[n]) ELSE m[n - 1]

(* replay() goes through the log event by event: it has the projections       *)
(* that such a run ends with. Its recursive function is resolved here, once.  *)
LEMMA ReplayRuns ==
  ASSUME NEW base \in Memories, NEW at, NEW events \in Seq(LogEvents)
  PROVE  \E m : Runs(m, base, at, events) /\ Replay(base, at, events) = m[Len(events)]
<1>. DEFINE N == Len(events)
            One(x, n) == IF After(events[n], at) THEN Replayed(x, events[n]) ELSE x
            Body(g) == [n \in 0..N |-> IF n = 0 THEN base ELSE One(g[n - 1], n)]
            step == [n \in 1..N |-> [x \in Memories |-> One(x, n)]]
            M == CHOOSE g : g = Body(g)
<1>1. N \in Nat /\ \A n \in 1..N : events[n] \in LogEvents
  OBVIOUS
<1>2. \A n \in 1..N : \A x \in Memories : One(x, n) \in Memories
  BY <1>1, ReplayedFields DEF ReplaysTo
<1>3. step \in [1..N -> [Memories -> Memories]]
  <2>. HIDE DEF One
  <2>. QED  BY <1>2
<1>. DEFINE f == Iterates(N, Memories, base, step)
<1>4. /\ f \in [0..N -> Memories]
      /\ f[0] = base /\ \A n \in 1..N : f[n] = step[n][f[n - 1]]
  <2>. HIDE DEF step, N
  <2>. QED  BY <1>1, <1>3, RecursionExists
<1>. HIDE DEF f
<1>5. \A n \in 1..N : n - 1 \in 0..N /\ n # 0 /\ n \in 0..N
  BY <1>1
<1>6. \A n \in 1..N : f[n] = One(f[n - 1], n)
  <2>. HIDE DEF One
  <2>. QED  BY <1>4, <1>5
<1>7. f = Body(f)
  <2>1. \A n \in 0..N : n = 0 \/ n \in 1..N
    BY <1>1
  <2>. HIDE DEF One
  <2>2. \A n \in 0..N : f[n] = IF n = 0 THEN base ELSE One(f[n - 1], n)
    BY <1>4, <1>5, <1>6, <2>1
  <2>3. f = [n \in 0..N |-> f[n]]
    BY <1>4
  <2>. QED  BY <2>2, <2>3
<1>8. M = Body(M)
  <2>. HIDE DEF Body
  <2>. QED  BY <1>7
<1>. HIDE DEF M
<1>9. M[0] = base /\ \A n \in 1..N : M[n] = One(M[n - 1], n)
  <2>1. 0 \in 0..N
    BY <1>1
  <2>. HIDE DEF One
  <2>. QED  BY <1>5, <1>8, <2>1
<1>10. \A n \in 0..N : M[n] \in Memories
  <2>. DEFINE S == {n \in 0..N : M[n] \in Memories}
  <2>1. 0 \in S
    BY <1>1, <1>9
  <2>2. ASSUME NEW n \in 1..N, n - 1 \in S  PROVE  n \in S
    <3>. HIDE DEF One
    <3>. QED  BY <1>2, <1>5, <1>9, <2>2
  <2>. HIDE DEF S
  <2>3. 0..N \subseteq S
    BY <1>1, <2>1, <2>2, IntervalInduction
  <2>. QED  BY <2>3 DEF S
<1>11. M \in [0..N -> Memories]
  <2>. HIDE DEF One
  <2>. QED  BY <1>8, <1>10
<1>12. Replay(base, at, events) = M[N]
  BY DEF Replay, M
<1>. QED  BY <1>9, <1>11, <1>12 DEF Runs

(* Two replays of the same events give the same.                              *)
LEMMA RunsAgree ==
  ASSUME NEW base, NEW at, NEW events \in Seq(LogEvents), NEW more \in Seq(LogEvents),
         Len(events) <= Len(more), \A n \in 1..Len(events) : more[n] = events[n],
         NEW m, Runs(m, base, at, events), NEW k, Runs(k, base, at, more)
  PROVE  k[Len(events)] = m[Len(events)]
<1>. DEFINE N == Len(events)
            S == {n \in 0..N : k[n] = m[n]}
<1>1. N \in Nat /\ N \in 0..N /\ Len(more) \in Nat
  OBVIOUS
<1>2. 0 \in S
  BY <1>1 DEF Runs
<1>3. ASSUME NEW n \in 1..N, n - 1 \in S  PROVE  n \in S
  <2>1. n \in 1..Len(more) /\ n \in 0..N
    BY <1>1
  <2>. QED  BY <1>3, <2>1 DEF Runs
<1>. HIDE DEF S
<1>4. 0..N \subseteq S
  BY <1>1, <1>2, <1>3, IntervalInduction
<1>. QED  BY <1>1, <1>4 DEF S

(* Whatever run there is ends with what replay() gives.                       *)
LEMMA ReplayIs ==
  ASSUME NEW base \in Memories, NEW at, NEW events \in Seq(LogEvents),
         NEW m, Runs(m, base, at, events)
  PROVE  Replay(base, at, events) = m[Len(events)]
<1>1. PICK k : Runs(k, base, at, events) /\ Replay(base, at, events) = k[Len(events)]
  BY ReplayRuns
<1>2. Len(events) <= Len(events)
  OBVIOUS
<1>. QED  BY <1>1, <1>2, RunsAgree

(* What is replayed onto projections are projections.                         *)
LEMMA ReplayTypes ==
  ASSUME NEW base \in Memories, NEW at, NEW events \in Seq(LogEvents)
  PROVE  Replay(base, at, events) \in Memories
<1>1. PICK k : Runs(k, base, at, events) /\ Replay(base, at, events) = k[Len(events)]
  BY ReplayRuns
<1>2. Len(events) \in 0..Len(events)
  OBVIOUS
<1>. QED  BY <1>1, <1>2 DEF Runs

(* An empty log changes nothing.                                              *)
LEMMA ReplayNothing ==
  ASSUME NEW base \in Memories, NEW at
  PROVE  Replay(base, at, <<>>) = base
<1>1. <<>> \in Seq(LogEvents) /\ Len(<<>>) = 0
  OBVIOUS
<1>2. PICK k : Runs(k, base, at, <<>>) /\ Replay(base, at, <<>>) = k[Len(<<>>)]
  BY <1>1, ReplayRuns
<1>. QED  BY <1>1, <1>2 DEF Runs

(* One more event.                                                            *)
LEMMA ReplayAppend ==
  ASSUME NEW base \in Memories, NEW at, NEW events \in Seq(LogEvents), NEW e \in LogEvents
  PROVE  Replay(base, at, Append(events, e))
           = IF After(e, at) THEN Replayed(Replay(base, at, events), e)
             ELSE Replay(base, at, events)
<1>. DEFINE more == Append(events, e)
            N == Len(events)
<1>1. /\ more \in Seq(LogEvents) /\ N \in Nat /\ Len(more) = N + 1 /\ more[N + 1] = e
      /\ \A n \in 1..N : more[n] = events[n]
      /\ N <= Len(more) /\ N + 1 \in 1..Len(more) /\ (N + 1) - 1 = N
  OBVIOUS
<1>. HIDE DEF more
<1>2. PICK m : Runs(m, base, at, events) /\ Replay(base, at, events) = m[N]
  BY ReplayRuns
<1>3. PICK k : Runs(k, base, at, more) /\ Replay(base, at, more) = k[Len(more)]
  BY <1>1, ReplayRuns
<1>4. k[N] = m[N]
  BY <1>1, <1>2, <1>3, RunsAgree
<1>5. k[N + 1] = IF After(more[N + 1], at) THEN Replayed(k[N], more[N + 1]) ELSE k[N]
  BY <1>1, <1>3 DEF Runs
<1>. QED  BY <1>1, <1>2, <1>3, <1>4, <1>5 DEF more

-----------------------------------------------------------------------------
(* Projections that show a client the same.                                   *)

SameGames(x, y) ==
  \A g \in Games : x.games[g] = y.games[g] \/ "deep" \in x.games[g] \cap y.games[g]
SameSets(x, y) ==
  /\ x.completed = y.completed /\ x.recommended = y.recommended
  /\ x.batches = y.batches /\ x.archive = y.archive /\ x.reviews = y.reviews
SameValues(x, y) ==
  /\ x.jobs = y.jobs /\ x.paused = y.paused /\ x.profile = y.profile
  /\ x.months = y.months /\ x.sync = y.sync
SameEntries(x, y) == x.drills = y.drills /\ x.lines = y.lines
SameRest(x, y) == SameSets(x, y) /\ SameValues(x, y) /\ SameEntries(x, y)
SameNext(x, y) ==
  /\ x.next.attempt = y.next.attempt /\ x.next.batch = y.next.batch
  /\ x.next.review = y.next.review
Alike(x, y) == SameGames(x, y) /\ SameRest(x, y) /\ SameNext(x, y)

(* Games that differ only in a shallow analysis under a deep one are shown    *)
(* the same: a deep analysis stands for both.                                 *)
LEMMA GamesShown ==
  ASSUME NEW x \in Memories, NEW y \in Memories, SameGames(x, y)
  PROVE  Snapshotted(x).games = Snapshotted(y).games
<1>. DEFINE shown(s) == IF "deep" \in s THEN {"game", "deep"} ELSE s
<1>1. \A m \in Memories : Snapshotted(m).games = [g \in Games |-> shown(m.games[g])]
  BY DEF Snapshotted, Memories
<1>2. \A g \in Games : shown(x.games[g]) = shown(y.games[g])
  BY DEF SameGames
<1>. HIDE DEF shown
<1>3. [g \in Games |-> shown(x.games[g])] = [g \in Games |-> shown(y.games[g])]
  BY <1>2
<1>. QED  BY <1>1, <1>3

(* Projections that are alike show a client the same.                         *)
LEMMA AlikeShown ==
  ASSUME NEW x \in Memories, NEW y \in Memories, Alike(x, y)
  PROVE  View(x) = View(y)
<1>. DEFINE Shown(m) ==
       [games |-> Snapshotted(m).games, jobs |-> m.jobs, drills |-> m.drills,
        completed |-> m.completed, recommended |-> m.recommended, paused |-> m.paused,
        batches |-> m.batches, profile |-> m.profile, archive |-> m.archive,
        months |-> m.months, sync |-> m.sync, lines |-> m.lines, reviews |-> m.reviews,
        next |-> [attempt |-> m.next.attempt, batch |-> m.next.batch, line |-> 0,
                  review |-> m.next.review]]
<1>1. ASSUME NEW m \in Memories  PROVE  View(m) = Shown(m)
  <2>1. m.next \in NextIds
    BY DEF Memories
  <2>2. [m.next EXCEPT !.line = 0] = [attempt |-> m.next.attempt, batch |-> m.next.batch,
                                      line |-> 0, review |-> m.next.review]
    BY <2>1 DEF NextIds
  <2>. DEFINE G == Snapshotted(m).games
  <2>. HIDE DEF G
  <2>3. [m EXCEPT !.games = G, !.next.line = 0]
          = [m EXCEPT !.games = G, !.next = [m.next EXCEPT !.line = 0]]
    BY DEF Memories
  <2>. DEFINE X == [attempt |-> m.next.attempt, batch |-> m.next.batch, line |-> 0,
                     review |-> m.next.review]
              r == [m EXCEPT !.games = G, !.next = X]
  <2>. HIDE DEF X
  <2>4. r \in [games : {G}, jobs : {m.jobs}, drills : {m.drills},
              completed : {m.completed}, recommended : {m.recommended},
              paused : {m.paused}, batches : {m.batches}, profile : {m.profile},
              archive : {m.archive}, months : {m.months}, sync : {m.sync},
              lines : {m.lines}, reviews : {m.reviews}, next : {X}]
    BY DEF Memories
  <2>. HIDE DEF r
  <2>5. r = [games |-> G, jobs |-> m.jobs, drills |-> m.drills,
             completed |-> m.completed, recommended |-> m.recommended, paused |-> m.paused,
             batches |-> m.batches, profile |-> m.profile, archive |-> m.archive,
             months |-> m.months, sync |-> m.sync, lines |-> m.lines, reviews |-> m.reviews,
             next |-> X]
    BY <2>4
  <2>. QED  BY <2>2, <2>3, <2>5 DEF View, G, X, r
<1>2. Shown(x) = Shown(y)
  BY GamesShown DEF Alike, SameRest, SameSets, SameValues, SameEntries, SameNext
<1>. HIDE DEF Shown
<1>. QED  BY <1>1, <1>2

(* What shows the same before an event shows the same after it.               *)
LEMMA SameAfter ==
  ASSUME NEW x \in Memories, NEW y \in Memories, NEW e \in LogEvents,
         NEW u, ReplaysTo(u, x, e), NEW v, ReplaysTo(v, y, e)
  PROVE  /\ SameGames(x, y) => SameGames(u, v)
         /\ SameRest(x, y) => SameRest(u, v)
         /\ SameEntries(x, y) /\ SameNext(x, y) => SameNext(u, v)
<1>1. SameSets(x, y) => SameSets(u, v)
  BY DEF ReplaysTo, SameSets, SetsTo
<1>2. SameValues(x, y) => SameValues(u, v)
  BY DEF ReplaysTo, SameValues, ValuesTo
<1>3. SameEntries(x, y) => SameEntries(u, v)
  BY DEF ReplaysTo, SameEntries, EntriesTo
<1>4. SameEntries(x, y) /\ SameNext(x, y) => SameNext(u, v)
  BY DEF ReplaysTo, SameEntries, SameNext, NextTo
<1>5. SameGames(x, y) => SameGames(u, v)
  <2>1. /\ x.games \in [Games -> GameStates] /\ y.games \in [Games -> GameStates]
        /\ u.games = GamesAfter(x.games, e) /\ v.games = GamesAfter(y.games, e)
    BY DEF Memories, ReplaysTo, EntriesTo
  <2>. SUFFICES ASSUME SameGames(x, y), NEW g \in Games
                PROVE  u.games[g] = v.games[g] \/ "deep" \in u.games[g] \cap v.games[g]
    BY DEF SameGames
  <2>2. x.games[g] = y.games[g] \/ "deep" \in x.games[g] \cap y.games[g]
    BY DEF SameGames
  <2>3. CASE e.kind = "imported"
    BY <2>1, <2>2, <2>3 DEF GamesAfter
  <2>4. CASE e.kind = "analysed"
    BY <2>1, <2>2, <2>4 DEF GamesAfter
  <2>5. CASE e.kind = "shallow"
    BY <2>1, <2>2, <2>5 DEF GamesAfter
  <2>6. CASE e.kind \notin {"imported", "analysed", "shallow"}
    BY <2>1, <2>2, <2>6 DEF GamesAfter
  <2>. QED  BY <2>3, <2>4, <2>5, <2>6
<1>. QED  BY <1>1, <1>2, <1>3, <1>4, <1>5 DEF SameRest

-----------------------------------------------------------------------------
(* What an operation does to the projections, projection by projection: as    *)
(* replay() does, but for the games.                                          *)
GamesApplied(games, e) ==
  IF e.kind = "imported" THEN games
  ELSE IF e.kind = "parsed" THEN [games EXCEPT ![e.of] = {"game"}]
  ELSE IF e.kind = "analysed" THEN [games EXCEPT ![e.of] = {"game", "deep"}]
  ELSE GamesAfter(games, e)
AppliesTo(r, m, e) ==
  /\ r \in Memories
  /\ NextTo(r, m, e) /\ SetsTo(r, m, e) /\ ValuesTo(r, m, e)
  /\ r.games = GamesApplied(m.games, e)
  /\ r.drills = DrillsAfter(m.drills, e)
  /\ r.lines = LinesAfter(m.lines, e)

(* An operation does to the projections what is said above, kind by kind.     *)
LEMMA AppliedFields ==
  ASSUME NEW m \in Memories, NEW e \in LogEvents
  PROVE  AppliesTo(Applied(m, e), m, e)
<1>. DEFINE r == Applied(m, e)
<1>1. Typed(e) /\ m.games \in [Games -> GameStates]
  BY DEF LogEvents, Memories
<1>2. CASE e.kind \in {"imported", "parsed", "analysed"}
  <2>1. r = [m EXCEPT !.games = GamesApplied(m.games, e)]
    BY <1>2 DEF Applied, GamesApplied, Memories
  <2>2. GamesApplied(m.games, e) \in [Games -> GameStates]
    <3>1. e.of \in Games /\ {"game"} \in GameStates /\ {"game", "deep"} \in GameStates
      BY <1>1, <1>2 DEF Typed, GameKinds, GameStates
    <3>. QED  BY <1>1, <1>2, <3>1 DEF GamesApplied
  <2>. HIDE DEF r
  <2>3. /\ r.games = GamesApplied(m.games, e)
        /\ r.jobs = m.jobs /\ r.drills = m.drills /\ r.completed = m.completed
        /\ r.recommended = m.recommended /\ r.paused = m.paused
        /\ r.batches = m.batches /\ r.profile = m.profile
        /\ r.archive = m.archive /\ r.months = m.months /\ r.sync = m.sync
        /\ r.lines = m.lines /\ r.reviews = m.reviews /\ r.next = m.next
    BY <2>1 DEF Memories
  <2>4. r \in Memories
    BY <2>1, <2>2 DEF Memories
  <2>5. DrillsAfter(m.drills, e) = m.drills /\ LinesAfter(m.lines, e) = m.lines
    BY <1>2 DEF DrillsAfter, LinesAfter
  <2>6. NextTo(r, m, e)
    BY <1>2, <2>3 DEF NextTo
  <2>7. SetsTo(r, m, e)
    BY <1>2, <2>3 DEF SetsTo
  <2>8. ValuesTo(r, m, e)
    BY <1>2, <2>3 DEF ValuesTo
  <2>. QED  BY <2>3, <2>4, <2>5, <2>6, <2>7, <2>8 DEF AppliesTo, r
<1>3. CASE e.kind \notin {"imported", "parsed", "analysed"}
  <2>1. r = Replayed(m, e)
    BY <1>3 DEF Applied
  <2>2. GamesApplied(m.games, e) = GamesAfter(m.games, e)
    BY <1>3 DEF GamesApplied
  <2>3. ReplaysTo(r, m, e)
    BY <2>1, ReplayedFields
  <2>. QED  BY <2>2, <2>3 DEF ReplaysTo, EntriesTo, AppliesTo
<1>. QED  BY <1>2, <1>3

-----------------------------------------------------------------------------
(* Projections x in which what y shows is kept.                               *)

CoversGames(x, y) == \A g \in Games : y.games[g] \ {"shallow"} \subseteq x.games[g]
CoversDrills(x, y) ==
  \A d \in Drills :
    /\ y.drills[d].made => x.drills[d].made
    /\ Range(y.drills[d].attempts) \subseteq Range(x.drills[d].attempts)
CoversSets(x, y) ==
  y.reviews \subseteq x.reviews /\ y.completed \subseteq x.completed
  /\ y.archive \subseteq x.archive
Covers(x, y) == CoversGames(x, y) /\ CoversDrills(x, y) /\ CoversSets(x, y)

(* What is kept of what is kept is kept.                                      *)
LEMMA CoversAll ==
  /\ \A x : Covers(x, x)
  /\ \A x, y, z : Covers(x, y) /\ Covers(y, z) => Covers(x, z)
<1>1. \A x : Covers(x, x)
  BY DEF Covers, CoversGames, CoversDrills, CoversSets
<1>2. ASSUME NEW x, NEW y, NEW z, Covers(x, y), Covers(y, z)  PROVE  Covers(x, z)
  <2>1. CoversGames(x, z)
    BY <1>2 DEF Covers, CoversGames
  <2>2. CoversDrills(x, z)
    BY <1>2 DEF Covers, CoversDrills
  <2>3. CoversSets(x, z)
    BY <1>2 DEF Covers, CoversSets
  <2>. QED  BY <2>1, <2>2, <2>3 DEF Covers
<1>. QED  BY <1>1, <1>2

(* What is in a sequence to which one element is appended.                    *)
LEMMA RangeAppend ==
  ASSUME NEW S, NEW s \in Seq(S), NEW x \in S
  PROVE  Range(Append(s, x)) = Range(s) \cup {x}
<1>1. /\ DOMAIN s = 1..Len(s) /\ Len(s) \in Nat
      /\ DOMAIN Append(s, x) = 1..(Len(s) + 1)
      /\ \A i \in 1..Len(s) : Append(s, x)[i] = s[i]
      /\ Append(s, x)[Len(s) + 1] = x
  OBVIOUS
<1>2. \A i : i \in 1..(Len(s) + 1) <=> i \in 1..Len(s) \/ i = Len(s) + 1
  BY <1>1
<1>. QED  BY <1>1, <1>2 DEF Range

(* The empty sequence holds nothing.                                          *)
LEMMA RangeEmpty == Range(<<>>) = {}
BY DEF Range

(* The attempts at a drill grow by at most the attempt of the event.          *)
LEMMA AttemptsAfter ==
  ASSUME NEW e \in LogEvents, NEW d \in DrillStates, e.kind \in {"drill", "attempt", "session"}
  PROVE  /\ Range(DrillAfter(d, e).attempts)
               = IF e.kind = "drill" THEN {}
                 ELSE IF e.kind = "attempt" /\ d.made
                 THEN Range(d.attempts) \cup {e.val} ELSE Range(d.attempts)
         /\ DrillAfter(d, e).made = (e.kind = "drill" \/ d.made)
<1>1. d \in [made : BOOLEAN, attempts : Seq(Attempts), hint : 0..3, started : Nat]
  BY DEF DrillStates
<1>2. CASE e.kind = "drill"
  <2>1. NewDrill.attempts = <<>> /\ NewDrill.made /\ DrillAfter(d, e) = NewDrill
    BY <1>2 DEF DrillAfter, NewDrill, NoDrill
  <2>. QED  BY <1>2, <2>1, RangeEmpty
<1>3. CASE e.kind = "attempt" /\ d.made
  <2>1. DrillAfter(d, e).attempts = Append(d.attempts, e.val) /\ DrillAfter(d, e).made = d.made
    BY <1>1, <1>3 DEF DrillAfter
  <2>. DEFINE s == d.attempts
  <2>2. s \in Seq(Attempts) /\ e.val \in Attempts
    BY <1>1, <1>3 DEF LogEvents, Typed
  <2>. HIDE DEF s
  <2>3. Range(Append(s, e.val)) = Range(s) \cup {e.val}
    BY <2>2, RangeAppend
  <2>. QED  BY <1>3, <2>1, <2>3 DEF s
<1>4. CASE e.kind = "attempt" /\ ~d.made
  BY <1>1, <1>4 DEF DrillAfter
<1>5. CASE e.kind = "session"
  BY <1>1, <1>5 DEF DrillAfter
<1>. QED  BY <1>2, <1>3, <1>4, <1>5

(* An event after which drills and attempts are kept: always when both        *)
(* sides take it, and a drill only when the other side has none when just     *)
(* one side takes it.                                                         *)
LEMMA CoversDrillsAfter ==
  ASSUME NEW x \in Memories, NEW y \in Memories, NEW e \in LogEvents, CoversDrills(x, y),
         NEW u, u.drills = DrillsAfter(x.drills, e)
  PROVE  /\ \A v : v.drills = DrillsAfter(y.drills, e) => CoversDrills(u, v)
         /\ (e.kind = "drill" => y.drills[e.of] = NoDrill) => CoversDrills(u, y)
<1>1. x.drills \in [Drills -> DrillStates] /\ y.drills \in [Drills -> DrillStates]
  BY DEF Memories
<1>2. CASE e.kind \notin {"drill", "attempt", "session"}
  BY <1>2 DEF CoversDrills, DrillsAfter
<1>3. CASE e.kind \in {"drill", "attempt", "session"}
  <2>. DEFINE X == x.drills[e.of]
              Y == y.drills[e.of]
              S == DrillAfter(X, e)
              T == DrillAfter(Y, e)
  <2>1. e.of \in Drills /\ X \in DrillStates /\ Y \in DrillStates
    BY <1>1, <1>3 DEF LogEvents, Typed
  <2>2. /\ Y.made => X.made
        /\ Range(Y.attempts) \subseteq Range(X.attempts)
    BY <2>1 DEF CoversDrills
  <2>3. /\ Range(S.attempts) = IF e.kind = "drill" THEN {}
                               ELSE IF e.kind = "attempt" /\ X.made
                               THEN Range(X.attempts) \cup {e.val} ELSE Range(X.attempts)
        /\ S.made = (e.kind = "drill" \/ X.made)
    BY <1>3, <2>1, AttemptsAfter
  <2>4. /\ Range(T.attempts) = IF e.kind = "drill" THEN {}
                               ELSE IF e.kind = "attempt" /\ Y.made
                               THEN Range(Y.attempts) \cup {e.val} ELSE Range(Y.attempts)
        /\ T.made = (e.kind = "drill" \/ Y.made)
    BY <1>3, <2>1, AttemptsAfter
  <2>5. /\ u.drills = [x.drills EXCEPT ![e.of] = S]
        /\ DrillsAfter(y.drills, e) = [y.drills EXCEPT ![e.of] = T]
    BY <1>1, <1>3, <2>1 DEF DrillsAfter
  <2>. HIDE DEF S, T
  <2>6. /\ \A d \in Drills : u.drills[d] = IF d = e.of THEN S ELSE x.drills[d]
        /\ \A d \in Drills : DrillsAfter(y.drills, e)[d] = IF d = e.of THEN T ELSE y.drills[d]
    BY <1>1, <2>5
  <2>7. (T.made => S.made) /\ Range(T.attempts) \subseteq Range(S.attempts)
    BY <2>2, <2>3, <2>4
  <2>8. ASSUME e.kind = "drill" => Y = NoDrill
        PROVE  (Y.made => S.made) /\ Range(Y.attempts) \subseteq Range(S.attempts)
    <3>1. Range(NoDrill.attempts) = {} /\ ~NoDrill.made
      BY RangeEmpty DEF NoDrill
    <3>. HIDE DEF X, Y
    <3>. QED  BY <2>2, <2>3, <2>8, <3>1
  <2>. HIDE DEF X, Y
  <2>9. ASSUME NEW v, v.drills = DrillsAfter(y.drills, e)  PROVE  CoversDrills(u, v)
    BY <2>6, <2>7, <2>9 DEF CoversDrills
  <2>10. ASSUME e.kind = "drill" => Y = NoDrill  PROVE  CoversDrills(u, y)
    <3>1. (Y.made => S.made) /\ Range(Y.attempts) \subseteq Range(S.attempts)
      BY <2>8, <2>10
    <3>. QED  BY <2>6, <3>1 DEF CoversDrills, Y
  <2>. QED  BY <2>9, <2>10 DEF Y
<1>. QED  BY <1>2, <1>3

(* The sets only grow, on either side.                                        *)
LEMMA CoversSetsAfter ==
  ASSUME NEW x \in Memories, NEW y \in Memories, NEW e \in LogEvents, CoversSets(x, y),
         NEW u, SetsTo(u, x, e)
  PROVE  /\ \A v : SetsTo(v, y, e) => CoversSets(u, v)
         /\ CoversSets(u, y)
BY DEF CoversSets, SetsTo

(* An event after which the games are kept: always when both sides take it,   *)
(* an import only of a game that the other side lacks when just one side      *)
(* takes it, and for the way an operation applies it when the game is where   *)
(* the event expects it.                                                      *)
LEMMA CoversGamesAfter ==
  ASSUME NEW x \in Memories, NEW y \in Memories, NEW e \in LogEvents, CoversGames(x, y),
         NEW u, u.games = GamesAfter(x.games, e)
  PROVE  /\ \A v : v.games = GamesAfter(y.games, e) => CoversGames(u, v)
         /\ (e.kind = "imported" => y.games[e.of] = {}) => CoversGames(u, y)
         /\ /\ e.kind = "imported" => y.games[e.of] = {}
            /\ e.kind = "parsed" => "game" \in x.games[e.of]
            /\ e.kind = "analysed" => "game" \in y.games[e.of]
            => \A v : v.games = GamesApplied(y.games, e) => CoversGames(u, v)
<1>1. x.games \in [Games -> GameStates] /\ y.games \in [Games -> GameStates]
  BY DEF Memories
<1>2. e.kind \in GameKinds => e.of \in Games
  BY DEF LogEvents, Typed
<1>3. \A g \in Games : /\ y.games[g] \ {"shallow"} \subseteq x.games[g]
                       /\ x.games[g] \in GameStates /\ y.games[g] \in GameStates
  BY <1>1 DEF CoversGames
<1>4. ASSUME NEW v, v.games = GamesAfter(y.games, e)  PROVE  CoversGames(u, v)
  <2>1. CASE e.kind = "imported"
    BY <1>1, <1>3, <1>4, <2>1 DEF GamesAfter, CoversGames
  <2>2. CASE e.kind = "analysed"
    <3>1. e.of \in Games /\ (y.games[e.of] # {} => x.games[e.of] # {})
      BY <1>2, <1>3, <2>2 DEF GameKinds, GameStates
    <3>. QED  BY <1>1, <1>3, <1>4, <2>2, <3>1 DEF GamesAfter, CoversGames
  <2>3. CASE e.kind = "shallow"
    BY <1>1, <1>3, <1>4, <2>3 DEF GamesAfter, CoversGames
  <2>4. CASE e.kind \notin {"imported", "analysed", "shallow"}
    BY <1>1, <1>3, <1>4, <2>4 DEF GamesAfter, CoversGames
  <2>. QED  BY <2>1, <2>2, <2>3, <2>4
<1>5. ASSUME e.kind = "imported" => y.games[e.of] = {}  PROVE  CoversGames(u, y)
  <2>1. CASE e.kind = "imported"
    BY <1>1, <1>3, <1>5, <2>1 DEF GamesAfter, CoversGames
  <2>2. CASE e.kind # "imported"
    BY <1>1, <1>3, <2>2 DEF GamesAfter, CoversGames
  <2>. QED  BY <2>1, <2>2
<1>6. ASSUME e.kind = "imported" => y.games[e.of] = {},
             e.kind = "parsed" => "game" \in x.games[e.of],
             e.kind = "analysed" => "game" \in y.games[e.of],
             NEW v, v.games = GamesApplied(y.games, e)
      PROVE  CoversGames(u, v)
  <2>1. CASE e.kind = "imported"
    <3>1. v.games = y.games
      BY <1>6, <2>1 DEF GamesApplied
    <3>. QED  BY <1>5, <1>6, <3>1 DEF CoversGames
  <2>2. CASE e.kind = "parsed"
    <3>1. u.games = x.games /\ v.games = [y.games EXCEPT ![e.of] = {"game"}]
      BY <1>6, <2>2 DEF GamesAfter, GamesApplied
    <3>. QED  BY <1>1, <1>3, <1>6, <2>2, <3>1 DEF CoversGames
  <2>3. CASE e.kind = "analysed"
    <3>1. e.of \in Games /\ "game" \in x.games[e.of]
      BY <1>2, <1>3, <1>6, <2>3 DEF GameKinds
    <3>2. /\ u.games = [x.games EXCEPT ![e.of] = @ \cup {"deep"}]
          /\ v.games = [y.games EXCEPT ![e.of] = {"game", "deep"}]
      BY <1>6, <2>3, <3>1 DEF GamesAfter, GamesApplied
    <3>. QED  BY <1>1, <1>3, <3>1, <3>2 DEF CoversGames
  <2>4. CASE e.kind \notin {"imported", "parsed", "analysed"}
    BY <1>4, <1>6, <2>4 DEF GamesApplied
  <2>. QED  BY <2>1, <2>2, <2>3, <2>4
<1>. QED  BY <1>4, <1>5, <1>6

(* What is kept before an event is kept after it: between two replays, between*)
(* a replay and the members of the process that applies the event, and between*)
(* a replay and the members of a process that could not.                      *)
LEMMA CoversAfter ==
  ASSUME NEW x \in Memories, NEW y \in Memories, NEW e \in LogEvents, Covers(x, y)
  PROVE  /\ Covers(Replayed(x, e), Replayed(y, e))
         /\ /\ e.kind = "imported" => y.games[e.of] = {}
            /\ e.kind = "drill" => y.drills[e.of] = NoDrill
            => Covers(Replayed(x, e), y)
         /\ /\ e.kind = "imported" => y.games[e.of] = {}
            /\ e.kind = "parsed" => "game" \in x.games[e.of]
            /\ e.kind = "analysed" => "game" \in y.games[e.of]
            => Covers(Replayed(x, e), Applied(y, e))
<1>. DEFINE u == Replayed(x, e)
            v == Replayed(y, e)
            a == Applied(y, e)
<1>1. ReplaysTo(u, x, e) /\ ReplaysTo(v, y, e) /\ AppliesTo(a, y, e)
  BY ReplayedFields, AppliedFields
<1>. HIDE DEF u, v, a
<1>2. /\ u.games = GamesAfter(x.games, e) /\ v.games = GamesAfter(y.games, e)
      /\ a.games = GamesApplied(y.games, e)
      /\ u.drills = DrillsAfter(x.drills, e) /\ v.drills = DrillsAfter(y.drills, e)
      /\ a.drills = DrillsAfter(y.drills, e)
      /\ SetsTo(u, x, e) /\ SetsTo(v, y, e) /\ SetsTo(a, y, e)
  BY <1>1 DEF ReplaysTo, EntriesTo, AppliesTo
<1>3. CoversGames(x, y) /\ CoversDrills(x, y) /\ CoversSets(x, y)
  BY DEF Covers
<1>4. CoversSets(u, v) /\ CoversSets(u, a) /\ CoversSets(u, y)
  BY <1>2, <1>3, CoversSetsAfter
<1>5. /\ CoversDrills(u, v) /\ CoversDrills(u, a)
      /\ (e.kind = "drill" => y.drills[e.of] = NoDrill) => CoversDrills(u, y)
  BY <1>2, <1>3, CoversDrillsAfter
<1>6. /\ CoversGames(u, v)
      /\ (e.kind = "imported" => y.games[e.of] = {}) => CoversGames(u, y)
      /\ /\ e.kind = "imported" => y.games[e.of] = {}
         /\ e.kind = "parsed" => "game" \in x.games[e.of]
         /\ e.kind = "analysed" => "game" \in y.games[e.of]
         => CoversGames(u, a)
  BY <1>2, <1>3, CoversGamesAfter
<1>. QED  BY <1>4, <1>5, <1>6 DEF Covers, u, v, a

-----------------------------------------------------------------------------
(* Projections that refer only to games that others hold.                     *)

Depends(x, g) ==
  \/ x.drills[g].made
  \/ "deep" \in x.games[g]
  \/ \E n \in DOMAIN x.lines : x.lines[n].game = g
Behind(x, y) == \A g \in Games : Depends(x, g) => "game" \in y.games[g]
DrillsAnalysed(x) == \A g \in Games : x.drills[g].made => "deep" \in x.games[g]

(* An event is about games that the projections y hold.                       *)
Refers(e, y) ==
  /\ e.kind \in {"analysed", "drill"} /\ e.of \in Games => "game" \in y.games[e.of]
  /\ e.kind = "saved" => "game" \in y.games[e.val.game]

(* The variations after an event.                                             *)
LEMMA LinesAfterIs ==
  ASSUME NEW lines \in LineMaps, NEW e \in LogEvents, NEW n \in DOMAIN LinesAfter(lines, e)
  PROVE  \/ n \in DOMAIN lines /\ LinesAfter(lines, e)[n] = lines[n]
         \/ e.kind = "saved" /\ LinesAfter(lines, e)[n] = e.val
BY DEF LinesAfter

(* No event removes a game.                                                   *)
LEMMA GamesStay ==
  ASSUME NEW x \in Memories, NEW e \in LogEvents,
         NEW v \in {x, Replayed(x, e), Applied(x, e)}, NEW g \in Games
  PROVE  "game" \in x.games[g] => "game" \in v.games[g]
<1>1. x.games \in [Games -> GameStates] /\ (e.kind \in GameKinds => e.of \in Games)
  BY DEF Memories, LogEvents, Typed
<1>2. v.games \in {x.games, GamesAfter(x.games, e), GamesApplied(x.games, e)}
  BY ReplayedFields, AppliedFields DEF ReplaysTo, EntriesTo, AppliesTo
<1>3. "game" \in x.games[g] => "game" \in GamesAfter(x.games, e)[g]
  BY <1>1 DEF GamesAfter, GameKinds
<1>4. "game" \in x.games[g] => "game" \in GamesApplied(x.games, e)[g]
  BY <1>1, <1>3 DEF GamesApplied, GameKinds
<1>. QED  BY <1>2, <1>3, <1>4

(* What comes to depend on a game because of an event refers to that game.    *)
LEMMA DependsAfter ==
  ASSUME NEW x \in Memories, NEW e \in LogEvents,
         NEW v \in {x, Replayed(x, e), Applied(x, e)}, NEW g \in Games, Depends(v, g)
  PROVE  \/ Depends(x, g)
         \/ e.kind \in {"analysed", "drill"} /\ e.of = g
         \/ e.kind = "saved" /\ e.val.game = g
<1>1. /\ x.games \in [Games -> GameStates] /\ x.drills \in [Drills -> DrillStates]
      /\ x.lines \in LineMaps /\ g \in Drills
      /\ e.kind \in GameKinds => e.of \in Games
      /\ e.kind \in {"drill", "attempt", "session"} => e.of \in Drills
  BY DEF Memories, LogEvents, Typed, Drills
<1>2. /\ v.games \in {x.games, GamesAfter(x.games, e), GamesApplied(x.games, e)}
      /\ v.drills \in {x.drills, DrillsAfter(x.drills, e)}
      /\ v.lines \in {x.lines, LinesAfter(x.lines, e)}
  BY ReplayedFields, AppliedFields DEF ReplaysTo, EntriesTo, AppliesTo
<1>3. CASE v.drills[g].made
  <2>1. CASE v.drills = x.drills
    BY <1>3, <2>1 DEF Depends
  <2>2. CASE v.drills = DrillsAfter(x.drills, e) /\ e.kind \in {"drill", "attempt", "session"}
    <3>1. /\ e.of \in Drills /\ x.drills[e.of] \in DrillStates
          /\ v.drills = [x.drills EXCEPT ![e.of] = DrillAfter(x.drills[e.of], e)]
      BY <1>1, <2>2 DEF DrillsAfter
    <3>2. DrillAfter(x.drills[e.of], e).made = (e.kind = "drill" \/ x.drills[e.of].made)
      BY <2>2, <3>1, AttemptsAfter
    <3>3. CASE e.of = g
      BY <1>1, <1>3, <3>1, <3>2, <3>3 DEF Depends
    <3>4. CASE e.of # g
      BY <1>1, <1>3, <3>1, <3>4 DEF Depends
    <3>. QED  BY <3>3, <3>4
  <2>3. CASE v.drills = DrillsAfter(x.drills, e) /\ e.kind \notin {"drill", "attempt", "session"}
    BY <1>3, <2>3 DEF Depends, DrillsAfter
  <2>. QED  BY <1>2, <2>1, <2>2, <2>3
<1>4. CASE "deep" \in v.games[g]
  <2>1. CASE e.kind \in GameKinds /\ e.of = g
    BY <1>1, <1>2, <1>4, <2>1 DEF GamesAfter, GamesApplied, GameKinds, Depends
  <2>2. CASE ~(e.kind \in GameKinds /\ e.of = g)
    <3>1. GamesAfter(x.games, e)[g] = x.games[g] /\ GamesApplied(x.games, e)[g] = x.games[g]
      BY <1>1, <2>2 DEF GamesAfter, GamesApplied, GameKinds
    <3>. QED  BY <1>2, <1>4, <3>1 DEF Depends
  <2>. QED  BY <2>1, <2>2
<1>5. CASE \E n \in DOMAIN v.lines : v.lines[n].game = g
  <2>1. PICK n \in DOMAIN v.lines : v.lines[n].game = g
    BY <1>5
  <2>2. CASE v.lines = x.lines
    BY <2>1, <2>2 DEF Depends
  <2>3. CASE v.lines = LinesAfter(x.lines, e)
    <3>1. \/ n \in DOMAIN x.lines /\ v.lines[n] = x.lines[n]
          \/ e.kind = "saved" /\ v.lines[n] = e.val
      BY <1>1, <2>1, <2>3, LinesAfterIs
    <3>. QED  BY <2>1, <3>1 DEF Depends
  <2>. QED  BY <1>2, <2>2, <2>3
<1>. QED  BY <1>3, <1>4, <1>5 DEF Depends

(* An event about games that y holds leaves no reference without its game,    *)
(* whether both sides take it or one of them.                                 *)
LEMMA BehindAfter ==
  ASSUME NEW x \in Memories, NEW y \in Memories, NEW e \in LogEvents, Behind(x, y),
         Refers(e, y),
         NEW u \in {x, Replayed(x, e), Applied(x, e)},
         NEW v \in {y, Replayed(y, e), Applied(y, e)}
  PROVE  Behind(u, v)
<1>. SUFFICES ASSUME NEW g \in Games, Depends(u, g)  PROVE  "game" \in v.games[g]
  BY DEF Behind
<1>1. \/ Depends(x, g)
      \/ e.kind \in {"analysed", "drill"} /\ e.of = g
      \/ e.kind = "saved" /\ e.val.game = g
  BY DependsAfter
<1>2. "game" \in y.games[g]
  BY <1>1 DEF Behind, Refers
<1>. QED  BY <1>2, GamesStay

(* An event keeps every drill of a game beside the analysis of the game.      *)
LEMMA DrillsAnalysedAfter ==
  ASSUME NEW x \in Memories, NEW e \in LogEvents, DrillsAnalysed(x),
         e.kind = "drill" /\ e.of \in Games => "deep" \in x.games[e.of],
         e.kind = "imported" => ~x.drills[e.of].made
  PROVE  DrillsAnalysed(Replayed(x, e))
<1>. DEFINE u == Replayed(x, e)
<1>1. /\ x.games \in [Games -> GameStates] /\ x.drills \in [Drills -> DrillStates]
      /\ e.kind \in GameKinds => e.of \in Games
      /\ e.kind \in {"drill", "attempt", "session"} => e.of \in Drills
  BY DEF Memories, LogEvents, Typed
<1>2. u.games = GamesAfter(x.games, e) /\ u.drills = DrillsAfter(x.drills, e)
  BY ReplayedFields DEF ReplaysTo, EntriesTo
<1>. HIDE DEF u
<1>. SUFFICES ASSUME NEW g \in Games, u.drills[g].made  PROVE  "deep" \in u.games[g]
  BY DEF DrillsAnalysed, u
<1>3. g \in Drills
  BY DEF Drills
<1>4. CASE e.kind \in GameKinds
  <2>1. u.drills = x.drills
    BY <1>2, <1>4 DEF DrillsAfter, GameKinds
  <2>2. "deep" \in x.games[g] /\ ~(e.kind = "imported" /\ e.of = g)
    BY <2>1 DEF DrillsAnalysed
  <2>. QED  BY <1>1, <1>2, <2>2 DEF GamesAfter, GameKinds
<1>5. CASE e.kind \notin GameKinds
  <2>1. u.games = x.games
    BY <1>2, <1>5 DEF GamesAfter, GameKinds
  <2>2. CASE e.kind \in {"drill", "attempt", "session"}
    <3>1. /\ e.of \in Drills /\ x.drills[e.of] \in DrillStates
          /\ u.drills = [x.drills EXCEPT ![e.of] = DrillAfter(x.drills[e.of], e)]
      BY <1>1, <1>2, <2>2 DEF DrillsAfter
    <3>2. DrillAfter(x.drills[e.of], e).made = (e.kind = "drill" \/ x.drills[e.of].made)
      BY <2>2, <3>1, AttemptsAfter
    <3>3. CASE e.of = g
      BY <1>1, <1>3, <2>1, <3>1, <3>2, <3>3 DEF DrillsAnalysed
    <3>4. CASE e.of # g
      BY <1>1, <1>3, <2>1, <3>1, <3>4 DEF DrillsAnalysed
    <3>. QED  BY <3>3, <3>4
  <2>3. CASE e.kind \notin {"drill", "attempt", "session"}
    BY <1>2, <2>1, <2>3 DEF DrillsAnalysed, DrillsAfter
  <2>. QED  BY <2>2, <2>3
<1>. QED  BY <1>4, <1>5

-----------------------------------------------------------------------------
(* What a snapshot does not hold, and every replay takes from the whole log.  *)

SameLate(x, y) ==
  x.lines = y.lines /\ x.reviews = y.reviews /\ x.next.review = y.next.review

(* Replaying an event leaves what a snapshot does not hold in step.           *)
LEMMA SameLateAfter ==
  ASSUME NEW x \in Memories, NEW y \in Memories, NEW e \in LogEvents, SameLate(x, y)
  PROVE  SameLate(Replayed(x, e), Replayed(y, e))
<1>1. ReplaysTo(Replayed(x, e), x, e) /\ ReplaysTo(Replayed(y, e), y, e)
  BY ReplayedFields
<1>. QED  BY <1>1 DEF ReplaysTo, EntriesTo, NextTo, SetsTo, SameLate

(* What a late event, and only that, changes of the projections.              *)
LateKinds == {"saved", "deleted", "review"}
SameEarly(x, y) ==
  /\ x.games = y.games /\ x.drills = y.drills
  /\ x.completed = y.completed /\ x.recommended = y.recommended
  /\ x.batches = y.batches /\ x.archive = y.archive
  /\ SameValues(x, y)
  /\ x.next.attempt = y.next.attempt /\ x.next.batch = y.next.batch

(* A late event changes only what a snapshot does not hold, any other         *)
(* nothing of it.                                                             *)
LEMMA LateAfter ==
  ASSUME NEW x \in Memories, NEW e \in LogEvents
  PROVE  /\ e.kind \in LateKinds => SameEarly(Replayed(x, e), x)
         /\ e.kind \notin LateKinds => SameLate(Replayed(x, e), x)
<1>. DEFINE u == Replayed(x, e)
<1>1. ReplaysTo(u, x, e)
  BY ReplayedFields
<1>. HIDE DEF u
<1>2. CASE e.kind \in LateKinds
  <2>1. u.games = x.games /\ u.drills = x.drills
    BY <1>1, <1>2 DEF ReplaysTo, EntriesTo, LateKinds, GamesAfter, DrillsAfter
  <2>2. /\ u.completed = x.completed /\ u.recommended = x.recommended
        /\ u.batches = x.batches /\ u.archive = x.archive
    BY <1>1, <1>2 DEF ReplaysTo, SetsTo, LateKinds
  <2>3. SameValues(u, x)
    BY <1>1, <1>2 DEF ReplaysTo, ValuesTo, LateKinds, SameValues
  <2>4. u.next.attempt = x.next.attempt /\ u.next.batch = x.next.batch
    BY <1>1, <1>2 DEF ReplaysTo, NextTo, LateKinds
  <2>. QED  BY <1>2, <2>1, <2>2, <2>3, <2>4 DEF SameEarly, u
<1>3. CASE e.kind \notin LateKinds
  BY <1>1, <1>3 DEF ReplaysTo, EntriesTo, NextTo, SetsTo, LateKinds, LinesAfter, SameLate, u
<1>. QED  BY <1>2, <1>3

(* Replayed on top of a snapshot that holds its effects, a log adds what the  *)
(* snapshot lacks and changes nothing else.                                   *)
LEMMA LateReplay ==
  ASSUME NEW base \in Memories, NEW at \in Nat, NEW events \in Seq(LogEvents),
         \A i \in DOMAIN events : events[i].id <= at,
         NEW other \in Memories, SameLate(base, other)
  PROVE  /\ SameEarly(Replay(base, at, events), base)
         /\ SameLate(Replay(base, at, events), Replay(other, 0, events))
<1>. DEFINE N == Len(events)
<1>1. PICK m : Runs(m, base, at, events) /\ Replay(base, at, events) = m[N]
  BY ReplayRuns
<1>2. PICK k : Runs(k, other, 0, events) /\ Replay(other, 0, events) = k[N]
  BY ReplayRuns
<1>3. N \in Nat /\ N \in 0..N /\ \A n \in 1..N : events[n] \in LogEvents /\ n \in DOMAIN events
  OBVIOUS
<1>4. \A n \in 1..N : /\ After(events[n], at) <=> events[n].kind \in LateKinds
                      /\ After(events[n], 0)
  <2>1. \A n \in 1..N : events[n].id \in Nat \ {0} /\ events[n].id <= at
    BY <1>3 DEF LogEvents
  <2>2. \A n \in 1..N : events[n].id > 0 /\ ~(events[n].id > at)
    BY <2>1
  <2>. QED  BY <2>2 DEF After, LateKinds
<1>. DEFINE S == {n \in 0..N : SameEarly(m[n], base) /\ SameLate(m[n], k[n])}
<1>5. 0 \in S
  <2>1. m[0] = base /\ k[0] = other /\ 0 \in 0..N
    BY <1>1, <1>2, <1>3 DEF Runs
  <2>2. SameEarly(base, base)
    BY DEF SameEarly, SameValues
  <2>. QED  BY <2>1, <2>2
<1>6. ASSUME NEW n \in 1..N, n - 1 \in S  PROVE  n \in S
  <2>. DEFINE x == m[n - 1]
              y == k[n - 1]
              e == events[n]
  <2>1. n \in 0..N /\ n - 1 \in 0..N /\ e \in LogEvents
    BY <1>3
  <2>2. /\ x \in Memories /\ y \in Memories /\ SameEarly(x, base) /\ SameLate(x, y)
        /\ m[n] = IF After(e, at) THEN Replayed(x, e) ELSE x
        /\ k[n] = Replayed(y, e)
    BY <1>1, <1>2, <1>4, <1>6, <2>1 DEF Runs
  <2>3. CASE e.kind \in LateKinds
    <3>1. m[n] = Replayed(x, e)
      BY <1>4, <2>2, <2>3
    <3>. HIDE DEF x, y, e
    <3>2. SameEarly(m[n], x)
      BY <2>1, <2>2, <2>3, <3>1, LateAfter
    <3>3. SameEarly(m[n], base)
      BY <2>2, <3>2 DEF SameEarly, SameValues
    <3>4. SameLate(m[n], k[n])
      BY <2>1, <2>2, <3>1, SameLateAfter
    <3>. QED  BY <2>1, <3>3, <3>4
  <2>4. CASE e.kind \notin LateKinds
    <3>1. m[n] = x
      BY <1>4, <2>2, <2>4
    <3>. HIDE DEF x, y, e
    <3>2. SameLate(k[n], y)
      BY <2>1, <2>2, <2>4, LateAfter
    <3>3. SameLate(m[n], k[n])
      BY <2>2, <3>1, <3>2 DEF SameLate
    <3>. QED  BY <2>1, <2>2, <3>1, <3>3
  <2>. QED  BY <2>3, <2>4
<1>. HIDE DEF S
<1>7. 0..N \subseteq S
  BY <1>3, <1>5, <1>6, IntervalInduction
<1>. QED  BY <1>1, <1>2, <1>3, <1>7 DEF S

-----------------------------------------------------------------------------
(* Compaction.  Side by side, the projections x of the compacted log and those*)
(* y of the log it was made from, and the events R that are still to be       *)
(* replayed: they differ only in what one of R replaces.                      *)

Awaits(R, kinds, of) == \E f \in R : f.kind \in kinds /\ f.of = of
AwaitsOne(R, kind) == \E f \in R : f.kind = kind

GamesTrail(x, y, R) ==
  \A g \in Games :
    /\ x.games[g] \ {"shallow"} = y.games[g] \ {"shallow"}
    /\ \/ x.games[g] = y.games[g] \/ "deep" \in x.games[g]
       \/ Awaits(R, {"shallow", "analysed"}, g)
DrillsTrail(x, y, R) ==
  \A d \in Drills :
    /\ x.drills[d].made = y.drills[d].made
    /\ x.drills[d].attempts = y.drills[d].attempts
    /\ x.drills[d] = y.drills[d] \/ Awaits(R, {"session"}, d)
SameLine(x, y, n) ==
  /\ n \in DOMAIN x.lines <=> n \in DOMAIN y.lines
  /\ n \in DOMAIN x.lines => x.lines[n] = y.lines[n]
LinesTrail(x, y, R) ==
  \A n \in Nat : SameLine(x, y, n) \/ Awaits(R, {"saved", "deleted"}, n)
ValuesTrail(x, y, R) ==
  /\ \A g \in Games : x.jobs[g] = y.jobs[g] \/ Awaits(R, {"job"}, g)
  /\ \A m \in Months : x.months[m] = y.months[m] \/ Awaits(R, {"month"}, m)
  /\ x.paused = y.paused \/ AwaitsOne(R, "paused")
  /\ x.profile = y.profile \/ AwaitsOne(R, "profile")
  /\ x.sync = y.sync \/ AwaitsOne(R, "sync")
SetsTrail(x, y, R) ==
  /\ x.completed \subseteq y.completed
  /\ \A r \in y.completed \ x.completed : Awaits(R, {"completed"}, r)
  /\ x.recommended = y.recommended /\ x.batches = y.batches
  /\ x.archive = y.archive /\ x.reviews = y.reviews
Trails(x, y, R) ==
  /\ GamesTrail(x, y, R) /\ DrillsTrail(x, y, R) /\ LinesTrail(x, y, R)
  /\ ValuesTrail(x, y, R) /\ SetsTrail(x, y, R) /\ SameNext(x, y)

(* An event that compaction drops, seen from those that follow it.            *)
Dropped(e, R) == e.kind = "compacted" \/ \E f \in R : Overrides(f, e)

(* What is awaited of the events with one more, and of none.                  *)
LEMMA AwaitsAll ==
  ASSUME NEW R, NEW e
  PROVE  /\ \A kinds, of : Awaits(R \cup {e}, kinds, of)
                             <=> Awaits(R, kinds, of) \/ (e.kind \in kinds /\ e.of = of)
         /\ \A kind : AwaitsOne(R \cup {e}, kind) <=> AwaitsOne(R, kind) \/ e.kind = kind
         /\ \A kinds, of : ~Awaits({}, kinds, of)
         /\ \A kind : ~AwaitsOne({}, kind)
BY DEF Awaits, AwaitsOne

(* The games, when both logs hold the event and when compaction dropped it.   *)
LEMMA GamesTrailAfter ==
  ASSUME NEW x \in Memories, NEW y \in Memories, NEW e \in LogEvents, NEW R,
         GamesTrail(x, y, R \cup {e}), NEW v, v.games = GamesAfter(y.games, e)
  PROVE  /\ \A u : u.games = GamesAfter(x.games, e) => GamesTrail(u, v, R)
         /\ Dropped(e, R) => GamesTrail(x, v, R)
<1>1. /\ x.games \in [Games -> GameStates] /\ y.games \in [Games -> GameStates]
      /\ e.kind \in GameKinds => e.of \in Games
  BY DEF Memories, LogEvents, Typed
<1>2. \A g \in Games : /\ x.games[g] \in GameStates /\ y.games[g] \in GameStates
                       /\ x.games[g] = {} <=> y.games[g] = {}
                       /\ "deep" \in x.games[g] <=> "deep" \in y.games[g]
  BY <1>1 DEF GamesTrail, GameStates
<1>3. ASSUME NEW u, u.games = GamesAfter(x.games, e), NEW g \in Games
      PROVE  /\ u.games[g] \ {"shallow"} = v.games[g] \ {"shallow"}
             /\ \/ u.games[g] = v.games[g] \/ "deep" \in u.games[g]
                \/ Awaits(R, {"shallow", "analysed"}, g)
  <2>1. /\ x.games[g] \ {"shallow"} = y.games[g] \ {"shallow"}
        /\ \/ x.games[g] = y.games[g] \/ "deep" \in x.games[g]
           \/ Awaits(R, {"shallow", "analysed"}, g)
           \/ e.kind \in {"shallow", "analysed"} /\ e.of = g
    BY AwaitsAll DEF GamesTrail
  <2>2. CASE ~(e.kind \in {"imported", "shallow", "analysed"} /\ e.of = g)
    <3>1. u.games[g] = x.games[g] /\ v.games[g] = y.games[g]
      BY <1>1, <1>3, <2>2 DEF GamesAfter, GameKinds
    <3>. QED  BY <2>1, <2>2, <3>1
  <2>3. CASE e.kind = "imported" /\ e.of = g
    BY <1>1, <1>3, <2>3 DEF GamesAfter
  <2>4. CASE e.kind = "analysed" /\ e.of = g
    <3>1. /\ u.games[g] = IF x.games[g] = {} THEN {} ELSE x.games[g] \cup {"deep"}
          /\ v.games[g] = IF y.games[g] = {} THEN {} ELSE y.games[g] \cup {"deep"}
      BY <1>1, <1>3, <2>4 DEF GamesAfter
    <3>. QED  BY <1>2, <2>1, <3>1
  <2>5. CASE e.kind = "shallow" /\ e.of = g
    <3>1. /\ u.games[g] = IF x.games[g] = {} \/ "deep" \in x.games[g] THEN x.games[g]
                          ELSE x.games[g] \cup {"shallow"}
          /\ v.games[g] = IF y.games[g] = {} \/ "deep" \in y.games[g] THEN y.games[g]
                          ELSE y.games[g] \cup {"shallow"}
      BY <1>1, <1>3, <2>5 DEF GamesAfter
    <3>2. CASE x.games[g] = {} \/ "deep" \in x.games[g]
      BY <1>2, <2>1, <3>1, <3>2
    <3>3. CASE ~(x.games[g] = {} \/ "deep" \in x.games[g])
      <4>1. u.games[g] = v.games[g]
        BY <1>2, <2>1, <3>1, <3>3
      <4>. QED  BY <4>1
    <3>. QED  BY <3>2, <3>3
  <2>. QED  BY <2>2, <2>3, <2>4, <2>5
<1>4. ASSUME Dropped(e, R), NEW g \in Games
      PROVE  /\ x.games[g] \ {"shallow"} = v.games[g] \ {"shallow"}
             /\ \/ x.games[g] = v.games[g] \/ "deep" \in x.games[g]
                \/ Awaits(R, {"shallow", "analysed"}, g)
  <2>0. e.kind \notin {"imported", "analysed"}
    BY <1>4 DEF Dropped, Overrides, Replaces
  <2>1. /\ x.games[g] \ {"shallow"} = y.games[g] \ {"shallow"}
        /\ \/ x.games[g] = y.games[g] \/ "deep" \in x.games[g]
           \/ Awaits(R, {"shallow", "analysed"}, g)
           \/ e.kind \in {"shallow", "analysed"} /\ e.of = g
    BY AwaitsAll DEF GamesTrail
  <2>2. CASE ~(e.kind = "shallow" /\ e.of = g)
    <3>1. v.games[g] = y.games[g]
      BY <1>1, <2>0, <2>2 DEF GamesAfter, GameKinds
    <3>. QED  BY <2>0, <2>1, <2>2, <3>1
  <2>3. CASE e.kind = "shallow" /\ e.of = g
    <3>1. Awaits(R, {"shallow", "analysed"}, g)
      BY <1>4, <2>3 DEF Dropped, Overrides, Replaces, Awaits
    <3>2. v.games[g] \ {"shallow"} = y.games[g] \ {"shallow"}
      BY <1>1, <2>3 DEF GamesAfter
    <3>. QED  BY <2>1, <3>1, <3>2
  <2>. QED  BY <2>2, <2>3
<1>. QED  BY <1>3, <1>4 DEF GamesTrail

(* The drills: a dropped session is replaced by a later one.                  *)
LEMMA DrillsTrailAfter ==
  ASSUME NEW x \in Memories, NEW y \in Memories, NEW e \in LogEvents, NEW R,
         DrillsTrail(x, y, R \cup {e}), NEW v, v.drills = DrillsAfter(y.drills, e)
  PROVE  /\ \A u : u.drills = DrillsAfter(x.drills, e) => DrillsTrail(u, v, R)
         /\ Dropped(e, R) => DrillsTrail(x, v, R)
<1>1. /\ x.drills \in [Drills -> DrillStates] /\ y.drills \in [Drills -> DrillStates]
      /\ e.kind \in {"drill", "attempt", "session"} => e.of \in Drills
  BY DEF Memories, LogEvents, Typed
<1>2. \A d \in Drills :
        /\ x.drills[d].made = y.drills[d].made
        /\ x.drills[d].attempts = y.drills[d].attempts
        /\ \/ x.drills[d] = y.drills[d] \/ Awaits(R, {"session"}, d)
           \/ e.kind = "session" /\ e.of = d
  <2>1. \A d : Awaits(R \cup {e}, {"session"}, d)
                 => Awaits(R, {"session"}, d) \/ (e.kind = "session" /\ e.of = d)
    BY AwaitsAll
  <2>. QED  BY <2>1 DEF DrillsTrail
<1>3. ASSUME NEW d \in Drills, e.kind \in {"drill", "attempt", "session"}, e.of = d
      PROVE  LET X == DrillAfter(x.drills[d], e)
                 Y == DrillAfter(y.drills[d], e)
             IN /\ X.made = Y.made /\ X.attempts = Y.attempts
                /\ X = Y \/ Awaits(R, {"session"}, d)
  <2>. DEFINE p == x.drills[d]
              q == y.drills[d]
              X == DrillAfter(p, e)
              Y == DrillAfter(q, e)
  <2>1. /\ p \in [made : BOOLEAN, attempts : Seq(Attempts), hint : 0..3, started : Nat]
        /\ q \in [made : BOOLEAN, attempts : Seq(Attempts), hint : 0..3, started : Nat]
        /\ ~p.made => p = NoDrill
        /\ ~q.made => q = NoDrill
        /\ p.made = q.made /\ p.attempts = q.attempts
        /\ p = q \/ Awaits(R, {"session"}, d) \/ e.kind = "session"
    BY <1>1, <1>2, <1>3 DEF DrillStates
  <2>. HIDE DEF p, q
  <2>2. CASE e.kind = "drill"
    BY <2>2 DEF DrillAfter
  <2>3. CASE e.kind = "attempt"
    <3>1. X.made = Y.made /\ X.attempts = Y.attempts
      BY <2>1, <2>3 DEF DrillAfter
    <3>. QED  BY <2>1, <2>3, <3>1 DEF p, q
  <2>4. CASE e.kind = "session" /\ ~p.made
    <3>1. X = p /\ Y = q /\ p = q
      BY <2>1, <2>4 DEF DrillAfter
    <3>. QED  BY <3>1 DEF p, q
  <2>5. CASE e.kind = "session" /\ p.made
    <3>1. /\ X = [p EXCEPT !.hint = e.val.hint, !.started = e.val.started]
          /\ Y = [q EXCEPT !.hint = e.val.hint, !.started = e.val.started]
      BY <2>1, <2>5 DEF DrillAfter
    <3>2. /\ X = [made |-> p.made, attempts |-> p.attempts, hint |-> e.val.hint,
                  started |-> e.val.started]
          /\ Y = [made |-> q.made, attempts |-> q.attempts, hint |-> e.val.hint,
                  started |-> e.val.started]
      BY <2>1, <3>1
    <3>3. X = Y
      BY <2>1, <3>2
    <3>. QED  BY <3>3 DEF p, q
  <2>. QED  BY <1>3, <2>2, <2>3, <2>4, <2>5 DEF p, q
<1>4. ASSUME NEW u, u.drills = DrillsAfter(x.drills, e), NEW d \in Drills
      PROVE  /\ u.drills[d].made = v.drills[d].made
             /\ u.drills[d].attempts = v.drills[d].attempts
             /\ u.drills[d] = v.drills[d] \/ Awaits(R, {"session"}, d)
  <2>1. CASE e.kind \in {"drill", "attempt", "session"} /\ e.of = d
    <3>1. u.drills[d] = DrillAfter(x.drills[d], e) /\ v.drills[d] = DrillAfter(y.drills[d], e)
      BY <1>1, <1>4, <2>1 DEF DrillsAfter
    <3>. QED  BY <1>3, <2>1, <3>1
  <2>2. CASE ~(e.kind \in {"drill", "attempt", "session"} /\ e.of = d)
    <3>1. u.drills[d] = x.drills[d] /\ v.drills[d] = y.drills[d]
      BY <1>1, <1>4, <2>2 DEF DrillsAfter
    <3>. QED  BY <1>2, <2>2, <3>1
  <2>. QED  BY <2>1, <2>2
<1>5. ASSUME Dropped(e, R), NEW d \in Drills
      PROVE  /\ x.drills[d].made = v.drills[d].made
             /\ x.drills[d].attempts = v.drills[d].attempts
             /\ x.drills[d] = v.drills[d] \/ Awaits(R, {"session"}, d)
  <2>0. e.kind \notin {"drill", "attempt"}
    BY <1>5 DEF Dropped, Overrides, Replaces
  <2>1. CASE e.kind = "session" /\ e.of = d
    <3>1. Awaits(R, {"session"}, d)
      BY <1>5, <2>1 DEF Dropped, Overrides, Replaces, Awaits
    <3>2. v.drills[d] = DrillAfter(y.drills[d], e)
      BY <1>1, <2>1 DEF DrillsAfter
    <3>3. y.drills[d] \in [made : BOOLEAN, attempts : Seq(Attempts), hint : 0..3, started : Nat]
      BY <1>1 DEF DrillStates
    <3>4. v.drills[d].made = y.drills[d].made /\ v.drills[d].attempts = y.drills[d].attempts
      BY <2>1, <3>2, <3>3 DEF DrillAfter
    <3>. QED  BY <1>2, <3>1, <3>4
  <2>2. CASE ~(e.kind = "session" /\ e.of = d)
    <3>1. v.drills[d] = y.drills[d]
      BY <1>1, <2>0, <2>2 DEF DrillsAfter
    <3>. QED  BY <1>2, <2>2, <3>1
  <2>. QED  BY <2>1, <2>2
<1>. QED  BY <1>4, <1>5 DEF DrillsTrail

(* The variations: a dropped one is replaced, or deleted, by a later event.   *)
LEMMA LinesTrailAfter ==
  ASSUME NEW x \in Memories, NEW y \in Memories, NEW e \in LogEvents, NEW R,
         LinesTrail(x, y, R \cup {e}), NEW v, v.lines = LinesAfter(y.lines, e)
  PROVE  /\ \A u : u.lines = LinesAfter(x.lines, e) => LinesTrail(u, v, R)
         /\ Dropped(e, R) => LinesTrail(x, v, R)
<1>1. \A n \in Nat : \/ SameLine(x, y, n) \/ Awaits(R, {"saved", "deleted"}, n)
                     \/ e.kind \in {"saved", "deleted"} /\ e.of = n
  BY AwaitsAll DEF LinesTrail
<1>2. ASSUME NEW n \in Nat, NEW z, NEW w, w.lines = LinesAfter(z.lines, e),
             ~(e.kind \in {"saved", "deleted"} /\ e.of = n)
      PROVE  SameLine(w, z, n)
  BY <1>2 DEF SameLine, LinesAfter
<1>3. ASSUME NEW u, u.lines = LinesAfter(x.lines, e)  PROVE  LinesTrail(u, v, R)
  <2>. SUFFICES ASSUME NEW n \in Nat
                PROVE  SameLine(u, v, n) \/ Awaits(R, {"saved", "deleted"}, n)
    BY DEF LinesTrail
  <2>1. CASE e.kind \in {"saved", "deleted"} /\ e.of = n
    BY <1>3, <2>1 DEF SameLine, LinesAfter
  <2>2. CASE ~(e.kind \in {"saved", "deleted"} /\ e.of = n)
    <3>1. SameLine(u, x, n) /\ SameLine(v, y, n)
      BY <1>2, <1>3, <2>2
    <3>. QED  BY <1>1, <2>2, <3>1 DEF SameLine
  <2>. QED  BY <2>1, <2>2
<1>4. ASSUME Dropped(e, R)  PROVE  LinesTrail(x, v, R)
  <2>. SUFFICES ASSUME NEW n \in Nat
                PROVE  SameLine(x, v, n) \/ Awaits(R, {"saved", "deleted"}, n)
    BY DEF LinesTrail
  <2>1. CASE e.kind \in {"saved", "deleted"} /\ e.of = n
    BY <1>4, <2>1 DEF Dropped, Overrides, Replaces, Awaits
  <2>2. CASE ~(e.kind \in {"saved", "deleted"} /\ e.of = n)
    <3>1. SameLine(v, y, n)
      BY <1>2, <2>2
    <3>. QED  BY <1>1, <2>2, <3>1 DEF SameLine
  <2>. QED  BY <2>1, <2>2
<1>. QED  BY <1>3, <1>4

(* The values that are replaced as a whole.                                   *)
LEMMA ValuesTrailAfter ==
  ASSUME NEW x \in Memories, NEW y \in Memories, NEW e \in LogEvents, NEW R,
         ValuesTrail(x, y, R \cup {e}), NEW v, ValuesTo(v, y, e)
  PROVE  /\ \A u : ValuesTo(u, x, e) => ValuesTrail(u, v, R)
         /\ Dropped(e, R) => ValuesTrail(x, v, R)
<1>1. /\ x.jobs \in [Games -> Statuses] /\ y.jobs \in [Games -> Statuses]
      /\ x.months \in [Months -> Nat] /\ y.months \in [Months -> Nat]
      /\ e.kind = "job" => e.of \in Games
      /\ e.kind = "month" => e.of \in Months
  BY DEF Memories, LogEvents, Typed
<1>2. /\ \A g \in Games : \/ x.jobs[g] = y.jobs[g] \/ Awaits(R, {"job"}, g)
                          \/ e.kind = "job" /\ e.of = g
      /\ \A m \in Months : \/ x.months[m] = y.months[m] \/ Awaits(R, {"month"}, m)
                           \/ e.kind = "month" /\ e.of = m
      /\ x.paused = y.paused \/ AwaitsOne(R, "paused") \/ e.kind = "paused"
      /\ x.profile = y.profile \/ AwaitsOne(R, "profile") \/ e.kind = "profile"
      /\ x.sync = y.sync \/ AwaitsOne(R, "sync") \/ e.kind = "sync"
  <2>1. \A a, k : Awaits(R \cup {e}, {k}, a) => Awaits(R, {k}, a) \/ (e.kind = k /\ e.of = a)
    BY AwaitsAll
  <2>2. \A k : AwaitsOne(R \cup {e}, k) => AwaitsOne(R, k) \/ e.kind = k
    BY AwaitsAll
  <2>. QED  BY <2>1, <2>2 DEF ValuesTrail
<1>3. ASSUME NEW u, ValuesTo(u, x, e)  PROVE  ValuesTrail(u, v, R)
  <2>1. \A g \in Games : u.jobs[g] = v.jobs[g] \/ Awaits(R, {"job"}, g)
    BY <1>1, <1>2, <1>3 DEF ValuesTo
  <2>2. \A m \in Months : u.months[m] = v.months[m] \/ Awaits(R, {"month"}, m)
    BY <1>1, <1>2, <1>3 DEF ValuesTo
  <2>3. /\ u.paused = v.paused \/ AwaitsOne(R, "paused")
        /\ u.profile = v.profile \/ AwaitsOne(R, "profile")
        /\ u.sync = v.sync \/ AwaitsOne(R, "sync")
    BY <1>2, <1>3 DEF ValuesTo
  <2>. QED  BY <2>1, <2>2, <2>3 DEF ValuesTrail
<1>4. ASSUME Dropped(e, R)  PROVE  ValuesTrail(x, v, R)
  <2>0. /\ e.kind = "job" => Awaits(R, {"job"}, e.of)
        /\ e.kind = "month" => Awaits(R, {"month"}, e.of)
        /\ e.kind \in {"paused", "profile", "sync"} => AwaitsOne(R, e.kind)
    BY <1>4 DEF Dropped, Overrides, Replaces, Awaits, AwaitsOne
  <2>1. \A g \in Games : x.jobs[g] = v.jobs[g] \/ Awaits(R, {"job"}, g)
    BY <1>1, <1>2, <2>0 DEF ValuesTo
  <2>2. \A m \in Months : x.months[m] = v.months[m] \/ Awaits(R, {"month"}, m)
    <3>. SUFFICES ASSUME NEW m \in Months
                  PROVE  x.months[m] = v.months[m] \/ Awaits(R, {"month"}, m)
      OBVIOUS
    <3>1. CASE e.kind = "month" /\ e.of = m
      BY <2>0, <3>1
    <3>2. CASE ~(e.kind = "month" /\ e.of = m)
      <4>1. v.months[m] = y.months[m]
        BY <1>1, <3>2 DEF ValuesTo
      <4>. QED  BY <1>2, <3>2, <4>1
    <3>. QED  BY <3>1, <3>2
  <2>3. /\ x.paused = v.paused \/ AwaitsOne(R, "paused")
        /\ x.profile = v.profile \/ AwaitsOne(R, "profile")
        /\ x.sync = v.sync \/ AwaitsOne(R, "sync")
    BY <1>2, <2>0 DEF ValuesTo
  <2>. QED  BY <2>1, <2>2, <2>3 DEF ValuesTrail
<1>. QED  BY <1>3, <1>4

(* The sets: of the recorded elements only a completed resource can be        *)
(* dropped.                                                                   *)
LEMMA SetsTrailAfter ==
  ASSUME NEW x \in Memories, NEW y \in Memories, NEW e \in LogEvents, NEW R,
         SetsTrail(x, y, R \cup {e}), NEW v, SetsTo(v, y, e)
  PROVE  /\ \A u : SetsTo(u, x, e) => SetsTrail(u, v, R)
         /\ Dropped(e, R) => SetsTrail(x, v, R)
<1>1. /\ x.completed \subseteq y.completed
      /\ \A r \in y.completed \ x.completed :
           Awaits(R, {"completed"}, r) \/ (e.kind = "completed" /\ e.of = r)
      /\ x.recommended = y.recommended /\ x.batches = y.batches
      /\ x.archive = y.archive /\ x.reviews = y.reviews
  <2>1. \A a, k : Awaits(R \cup {e}, {k}, a) => Awaits(R, {k}, a) \/ (e.kind = k /\ e.of = a)
    BY AwaitsAll
  <2>. QED  BY <2>1 DEF SetsTrail
<1>2. ASSUME NEW u, SetsTo(u, x, e)  PROVE  SetsTrail(u, v, R)
  <2>1. u.completed \subseteq v.completed
    BY <1>1, <1>2 DEF SetsTo
  <2>2. \A r \in v.completed \ u.completed : Awaits(R, {"completed"}, r)
    BY <1>1, <1>2 DEF SetsTo
  <2>3. /\ u.recommended = v.recommended /\ u.batches = v.batches
        /\ u.archive = v.archive /\ u.reviews = v.reviews
    BY <1>1, <1>2 DEF SetsTo
  <2>. QED  BY <2>1, <2>2, <2>3 DEF SetsTrail
<1>3. ASSUME Dropped(e, R)  PROVE  SetsTrail(x, v, R)
  <2>1. /\ e.kind = "completed" => Awaits(R, {"completed"}, e.of)
        /\ e.kind \notin {"recommended", "batch", "chunk", "review"}
    BY <1>3 DEF Dropped, Overrides, Replaces, Awaits
  <2>2. /\ v.recommended = y.recommended /\ v.batches = y.batches
        /\ v.archive = y.archive /\ v.reviews = y.reviews
    BY <2>1 DEF SetsTo
  <2>3. v.completed = IF e.kind = "completed" THEN y.completed \cup {e.of} ELSE y.completed
    BY DEF SetsTo
  <2>. QED  BY <1>1, <2>1, <2>2, <2>3 DEF SetsTrail
<1>. QED  BY <1>2, <1>3

(* The next ids: no event that moves them is ever dropped.                    *)
LEMMA NextTrailAfter ==
  ASSUME NEW x \in Memories, NEW y \in Memories, NEW e \in LogEvents, NEW R, NEW S,
         DrillsTrail(x, y, S), SameNext(x, y), NEW v, NextTo(v, y, e)
  PROVE  /\ \A u : NextTo(u, x, e) => SameNext(u, v)
         /\ Dropped(e, R) => SameNext(x, v)
<1>1. e.kind = "attempt" => x.drills[e.of].made = y.drills[e.of].made
  BY DEF DrillsTrail, LogEvents, Typed
<1>2. ASSUME NEW u, NextTo(u, x, e)  PROVE  SameNext(u, v)
  BY <1>1, <1>2 DEF NextTo, SameNext
<1>3. ASSUME Dropped(e, R)  PROVE  SameNext(x, v)
  <2>1. e.kind \notin {"attempt", "batch", "review"}
    BY <1>3 DEF Dropped, Overrides, Replaces
  <2>. QED  BY <2>1 DEF NextTo, SameNext
<1>. QED  BY <1>2, <1>3

(* The compacted log keeps pace, whether it has the event or not.             *)
LEMMA TrailsAfter ==
  ASSUME NEW x \in Memories, NEW y \in Memories, NEW e \in LogEvents, NEW R,
         Trails(x, y, R \cup {e})
  PROVE  /\ Trails(Replayed(x, e), Replayed(y, e), R)
         /\ Dropped(e, R) => Trails(x, Replayed(y, e), R)
<1>. DEFINE u == Replayed(x, e)
            v == Replayed(y, e)
<1>1. ReplaysTo(u, x, e) /\ ReplaysTo(v, y, e)
  BY ReplayedFields
<1>. HIDE DEF u, v
<1>2. /\ u.games = GamesAfter(x.games, e) /\ v.games = GamesAfter(y.games, e)
      /\ u.drills = DrillsAfter(x.drills, e) /\ v.drills = DrillsAfter(y.drills, e)
      /\ u.lines = LinesAfter(x.lines, e) /\ v.lines = LinesAfter(y.lines, e)
      /\ ValuesTo(u, x, e) /\ ValuesTo(v, y, e) /\ SetsTo(u, x, e) /\ SetsTo(v, y, e)
      /\ NextTo(u, x, e) /\ NextTo(v, y, e)
  BY <1>1 DEF ReplaysTo, EntriesTo
<1>3. /\ GamesTrail(x, y, R \cup {e}) /\ DrillsTrail(x, y, R \cup {e})
      /\ LinesTrail(x, y, R \cup {e}) /\ ValuesTrail(x, y, R \cup {e})
      /\ SetsTrail(x, y, R \cup {e}) /\ SameNext(x, y)
  BY DEF Trails
<1>4. GamesTrail(u, v, R) /\ (Dropped(e, R) => GamesTrail(x, v, R))
  BY <1>2, <1>3, GamesTrailAfter
<1>5. DrillsTrail(u, v, R) /\ (Dropped(e, R) => DrillsTrail(x, v, R))
  BY <1>2, <1>3, DrillsTrailAfter
<1>6. LinesTrail(u, v, R) /\ (Dropped(e, R) => LinesTrail(x, v, R))
  BY <1>2, <1>3, LinesTrailAfter
<1>7. ValuesTrail(u, v, R) /\ (Dropped(e, R) => ValuesTrail(x, v, R))
  BY <1>2, <1>3, ValuesTrailAfter
<1>8. SetsTrail(u, v, R) /\ (Dropped(e, R) => SetsTrail(x, v, R))
  BY <1>2, <1>3, SetsTrailAfter
<1>9. SameNext(u, v) /\ (Dropped(e, R) => SameNext(x, v))
  BY <1>2, <1>3, NextTrailAfter
<1>. QED  BY <1>4, <1>5, <1>6, <1>7, <1>8, <1>9 DEF Trails, u, v

(* With nothing left to replay, they show the same.                           *)
LEMMA TrailsEnd ==
  ASSUME NEW x \in Memories, NEW y \in Memories, Trails(x, y, {})
  PROVE  Alike(x, y)
<1>0. /\ \A kinds, of : ~Awaits({}, kinds, of)
      /\ \A kind : ~AwaitsOne({}, kind)
  BY AwaitsAll
<1>1. SameGames(x, y)
  <2>1. \A g \in Games : /\ x.games[g] \ {"shallow"} = y.games[g] \ {"shallow"}
                         /\ x.games[g] = y.games[g] \/ "deep" \in x.games[g]
    BY <1>0 DEF Trails, GamesTrail
  <2>. QED  BY <2>1 DEF SameGames
<1>2. x.drills = y.drills
  <2>1. \A d \in Drills : x.drills[d] = y.drills[d]
    BY <1>0 DEF Trails, DrillsTrail
  <2>. QED  BY <2>1 DEF Memories
<1>3. x.lines = y.lines
  <2>1. \A n \in Nat : SameLine(x, y, n)
    BY <1>0 DEF Trails, LinesTrail
  <2>2. PICK D \in SUBSET Nat : x.lines \in [D -> Lines]
    BY DEF Memories, LineMaps
  <2>3. PICK E \in SUBSET Nat : y.lines \in [E -> Lines]
    BY DEF Memories, LineMaps
  <2>4. D = E
    BY <2>1, <2>2, <2>3 DEF SameLine
  <2>5. \A n \in D : x.lines[n] = y.lines[n]
    BY <2>1, <2>2 DEF SameLine
  <2>6. /\ x.lines = [n \in D |-> x.lines[n]]
        /\ y.lines = [n \in D |-> y.lines[n]]
    BY <2>2, <2>3, <2>4
  <2>. QED  BY <2>5, <2>6
<1>4. SameValues(x, y)
  <2>1. /\ \A g \in Games : x.jobs[g] = y.jobs[g]
        /\ \A m \in Months : x.months[m] = y.months[m]
        /\ x.paused = y.paused /\ x.profile = y.profile /\ x.sync = y.sync
    BY <1>0 DEF Trails, ValuesTrail
  <2>2. x.jobs = y.jobs /\ x.months = y.months
    BY <2>1 DEF Memories
  <2>. QED  BY <2>1, <2>2 DEF SameValues
<1>5. SameSets(x, y)
  <2>1. x.completed = y.completed
    BY <1>0 DEF Trails, SetsTrail
  <2>. QED  BY <2>1 DEF Trails, SetsTrail, SameSets
<1>. QED  BY <1>1, <1>2, <1>3, <1>4, <1>5 DEF Alike, SameRest, SameEntries, Trails

(* Compaction: from any snapshot, what it keeps of the log shows what the log *)
(* shows.  The ids of a log do not decrease, so that an event which replaces  *)
(* one that is replayed is itself replayed.                                   *)
Kept(events) ==
  {i \in DOMAIN events : /\ events[i].kind # "compacted"
                         /\ \A j \in (i + 1)..Len(events) : ~Overrides(events[j], events[i])}
NonDecreasing(events) ==
  \A i, j \in DOMAIN events : i <= j => events[i].id <= events[j].id

(* At the start both logs have the same projections.                          *)
LEMMA TrailsSame ==
  ASSUME NEW x, NEW R
  PROVE  Trails(x, x, R)
BY DEF Trails, GamesTrail, DrillsTrail, LinesTrail, SameLine, ValuesTrail, SetsTrail, SameNext

(* What compaction keeps of a log is a log, and replays to what is alike.     *)
LEMMA ReplayRetained ==
  ASSUME NEW base \in Memories, NEW at \in Nat, NEW events \in Seq(LogEvents),
         NonDecreasing(events)
  PROVE  /\ Retained(events) \in Seq(LogEvents)
         /\ Alike(Replay(base, at, Retained(events)), Replay(base, at, events))
<1>. DEFINE N == Len(events)
            I == Kept(events)
            P == Picked(events, I)
<1>1. N \in Nat /\ DOMAIN events = 1..N /\ \A n \in 1..N : events[n] \in LogEvents
  OBVIOUS
<1>2. Retained(events) = P /\ I \in SUBSET DOMAIN events /\ I \in SUBSET (1..N)
  BY <1>1 DEF Retained, Kept
<1>. HIDE DEF I
<1>3. P \in Seq(LogEvents) /\ Len(P) = Cardinality(I)
  BY <1>2, PickedPlaces
<1>4. /\ Rank(I, 0) = 0 /\ Rank(I, N) = Len(P)
      /\ \A n \in 0..N : Rank(I, n) \in Nat
      /\ \A n \in 1..N : Rank(I, n) = IF n \in I THEN Rank(I, n - 1) + 1 ELSE Rank(I, n - 1)
  BY <1>1, <1>2, <1>3, RankSteps
<1>5. \A n \in I : Rank(I, n) \in 1..Len(P) /\ P[Rank(I, n)] = events[n]
  <2>. SUFFICES ASSUME NEW n \in I
                PROVE  Rank(I, n) \in 1..Len(P) /\ P[Rank(I, n)] = events[n]
    OBVIOUS
  <2>. QED  BY <1>2, <1>3, PickedAt
<1>. HIDE DEF P
<1>6. PICK k : Runs(k, base, at, P) /\ Replay(base, at, P) = k[Len(P)]
  BY <1>3, ReplayRuns
<1>7. PICK m : Runs(m, base, at, events) /\ Replay(base, at, events) = m[N]
  BY ReplayRuns
<1>. DEFINE Rest(n) == {events[j] : j \in {i \in (n + 1)..N : After(events[i], at)}}
            S == {n \in 0..N : /\ k[Rank(I, n)] \in Memories
                               /\ Trails(k[Rank(I, n)], m[n], Rest(n))}
<1>8. 0 \in S
  <2>1. k[Rank(I, 0)] = base /\ m[0] = base /\ 0 \in 0..N
    BY <1>1, <1>4, <1>6, <1>7 DEF Runs
  <2>. HIDE DEF Rest
  <2>. QED  BY <2>1, TrailsSame
<1>9. ASSUME NEW n \in 1..N, n - 1 \in S  PROVE  n \in S
  <2>. DEFINE e == events[n]
              x == k[Rank(I, n - 1)]
              y == m[n - 1]
  <2>1. /\ n \in 0..N /\ n - 1 \in 0..N /\ e \in LogEvents /\ n \in DOMAIN events
        /\ (n - 1) + 1 = n
    BY <1>1
  <2>2. /\ x \in Memories /\ y \in Memories /\ Trails(x, y, Rest(n - 1))
        /\ m[n] = IF After(e, at) THEN Replayed(y, e) ELSE y
    BY <1>7, <1>9, <2>1 DEF Runs
  <2>3. Rest(n - 1) = IF After(e, at) THEN Rest(n) \cup {e} ELSE Rest(n)
    <3>1. \A i : i \in n..N <=> i \in (n + 1)..N \/ i = n
      BY <1>1
    <3>. QED  BY <2>1, <3>1
  <2>4. n \notin I /\ After(e, at) => Dropped(e, Rest(n))
    <3>. SUFFICES ASSUME n \notin I, After(e, at), e.kind # "compacted"
                  PROVE  \E f \in Rest(n) : Overrides(f, e)
      BY DEF Dropped
    <3>1. PICK j \in (n + 1)..N : Overrides(events[j], e)
      BY <2>1 DEF I, Kept
    <3>2. After(events[j], at)
      <4>1. j \in DOMAIN events /\ n <= j /\ events[j] \in LogEvents
        BY <1>1, <3>1
      <4>2. e.id <= events[j].id /\ e.id \in Nat /\ events[j].id \in Nat
        BY <2>1, <4>1 DEF NonDecreasing, LogEvents
      <4>3. CASE e.id > at
        BY <4>2, <4>3 DEF After
      <4>4. CASE e.kind \in LateKinds
        <5>1. events[j].kind \in LateKinds
          BY <3>1, <4>4 DEF Overrides, Replaces, LateKinds
        <5>. QED  BY <5>1 DEF After, LateKinds
      <4>. QED  BY <4>3, <4>4 DEF After, LateKinds
    <3>. QED  BY <3>1, <3>2
  <2>. HIDE DEF Rest
  <2>5. CASE n \in I
    <3>1. Rank(I, n) = Rank(I, n - 1) + 1 /\ Rank(I, n) \in 1..Len(P) /\ P[Rank(I, n)] = e
      BY <1>4, <1>5, <2>5
    <3>2. Rank(I, n) - 1 = Rank(I, n - 1)
      BY <1>4, <2>1, <3>1
    <3>3. k[Rank(I, n)] = IF After(e, at) THEN Replayed(x, e) ELSE x
      BY <1>6, <3>1, <3>2 DEF Runs
    <3>4. k[Rank(I, n)] \in Memories
      <4>1. Rank(I, n) \in 0..Len(P)
        BY <3>1
      <4>. QED  BY <1>6, <4>1 DEF Runs
    <3>. HIDE DEF e, x, y
    <3>5. Trails(k[Rank(I, n)], m[n], Rest(n))
      BY <2>1, <2>2, <2>3, <3>3, TrailsAfter
    <3>. QED  BY <2>1, <3>4, <3>5
  <2>6. CASE n \notin I
    <3>1. k[Rank(I, n)] = x
      BY <1>4, <2>6
    <3>. HIDE DEF e, x, y
    <3>2. Trails(x, m[n], Rest(n))
      BY <2>1, <2>2, <2>3, <2>4, <2>6, TrailsAfter
    <3>. QED  BY <2>1, <2>2, <3>1, <3>2
  <2>. QED  BY <2>5, <2>6
<1>. HIDE DEF S
<1>10. N \in S
  <2>1. 0..N \subseteq S
    BY <1>1, <1>8, <1>9, IntervalInduction
  <2>. QED  BY <1>1, <2>1
<1>11. /\ k[Len(P)] \in Memories /\ m[N] \in Memories
       /\ Trails(k[Len(P)], m[N], {})
  <2>1. Rest(N) = {}
    BY <1>1
  <2>2. N \in 0..N
    BY <1>1
  <2>. HIDE DEF Rest
  <2>. QED  BY <1>4, <1>7, <1>10, <2>1, <2>2 DEF S, Runs
<1>12. Alike(k[Len(P)], m[N])
  BY <1>11, TrailsEnd
<1>. QED  BY <1>2, <1>3, <1>6, <1>7, <1>12 DEF P

-----------------------------------------------------------------------------
(* The events of a call that are still to be appended.                        *)

(* What the members are when a call has the event to append.                  *)
PlannedEvent(m, e) ==
  /\ e.kind \in {"imported", "parsed"} => m.games[e.of] = {}
  /\ e.kind \in {"analysed", "shallow"} => "game" \in m.games[e.of]
  /\ e.kind = "drill" => m.drills[e.of] = NoDrill
  /\ e.kind = "attempt" => m.drills[e.of].made /\ e.val.id + 1 = m.next.attempt
  /\ e.kind = "batch" => e.of + 1 = m.next.batch
  /\ e.kind = "review" => e.of + 1 = m.next.review
  /\ e.kind = "saved" => "game" \in m.games[e.val.game]

(* Which events come before and after others in a call.                       *)
First == {"attempt", "batch", "review", "saved", "snapshot"}
Importing == {"imported", "parsed"}
Linked(todo) ==
  /\ \A i \in DOMAIN todo :
       /\ todo[i].kind \in First => i = 1
       /\ todo[i].kind = "imported" =>
            i + 1 \in DOMAIN todo /\ todo[i + 1].kind = "parsed" /\ todo[i + 1].of = todo[i].of
       /\ todo[i].kind = "parsed" /\ i # 1 =>
            todo[i - 1].kind = "imported" /\ todo[i - 1].of = todo[i].of
       /\ todo[i].kind = "drill" =>
            /\ i = Len(todo)
            /\ i # 1 => todo[i - 1].kind = "analysed" /\ todo[i - 1].of = todo[i].of
  /\ \A i, j \in DOMAIN todo : i < j /\ todo[j].kind \in Importing =>
       /\ todo[i].kind \in Importing \cup {"rating"}
       /\ todo[i].kind = "parsed" => todo[j].of # todo[i].of

Starts(todo, kind) == todo # <<>> /\ todo[1].kind = kind
Planned(m, todo) ==
  /\ \A i \in DOMAIN todo : PlannedEvent(m, todo[i])
  /\ Linked(todo)
  /\ Starts(todo, "drill") /\ todo[1].of \in Games => "deep" \in m.games[todo[1].of]

(* The members of a process that has taken the ids an operation needs.        *)
Pos(todo, kind) == IF Starts(todo, kind) THEN 1 ELSE 0
Takes(m, r, todo) ==
  /\ r.games = m.games /\ SameRest(r, m)
  /\ r.next.attempt = m.next.attempt + Pos(todo, "attempt")
  /\ r.next.batch = m.next.batch + Pos(todo, "batch")
  /\ r.next.review = m.next.review + Pos(todo, "review")

-----------------------------------------------------------------------------
(* The bases a replay can start from: nothing, and each of the snapshots.     *)

Nothing == [name |-> 0, at |-> 0, memory |-> Empty]
Base(s) == [name |-> s.name, at |-> s.at, memory |-> Loaded(s.content)]
Bases(fs) == {Nothing} \cup {Base(s) : s \in fs}
From(b, events) == Replay(b.memory, b.at, events)

(* The bases that the log vouches for, or will with the marker to be appended.*)
Claims(todo, b) == Starts(todo, "snapshot") /\ todo[1].of = b.name /\ todo[1].val = b.at
Vouched(events, fs, todo) ==
  {b \in Bases(fs) : b = Nothing \/ Authorized(events, b) \/ Claims(todo, b)}
Older(b, c) == b.at < c.at \/ (b.at = c.at /\ b.name <= c.name)

(* The attempts and the batches have ids below the next one.                  *)
IdsOf(x) == UNION {{a.id : a \in Range(x.drills[d].attempts)} : d \in Drills}
IdsBelow(x) ==
  (\A i \in IdsOf(x) : i < x.next.attempt) /\ (\A i \in x.batches : i < x.next.batch)
LastOf(next, ids) == (\A i \in ids : i < next) /\ (next = 1 \/ next - 1 \in ids)

Contents == {Snapshotted(m) : m \in {x \in Memories : IdsBelow(x)}}
SnapshotFiles == [name : Nat \ {0}, at : Nat, content : Contents]
BaseStates == [name : Nat, at : Nat, memory : Memories]

(* Before any event there is nothing, and no id is taken.                     *)
LEMMA EmptyTypes == Empty \in Memories /\ IdsBelow(Empty) /\ IdsOf(Empty) = {}
<1>1. NoDrill \in DrillStates
  <2>1. NoDrill \in [made : BOOLEAN, attempts : Seq(Attempts), hint : 0..3, started : Nat]
    BY DEF NoDrill
  <2>. QED  BY <2>1 DEF DrillStates
<1>2. <<>> \in LineMaps
  <2>1. <<>> \in [{} -> Lines]
    OBVIOUS
  <2>. QED  BY <2>1 DEF LineMaps
<1>3. {} \in GameStates
  BY DEF GameStates
<1>4. Empty \in Memories
  BY <1>1, <1>2, <1>3 DEF Empty, Memories, Statuses, SyncStates, NextIds
<1>5. \A d \in Drills : Empty.drills[d].attempts = <<>>
  BY DEF Empty, NoDrill
<1>6. IdsOf(Empty) = {}
  BY <1>5, RangeEmpty DEF IdsOf
<1>7. Empty.batches = {}
  BY DEF Empty
<1>. QED  BY <1>4, <1>6, <1>7 DEF IdsBelow

(* A set of numbers determines the id that follows its last one.              *)
LEMMA LastIsOne ==
  ASSUME NEW ids \in SUBSET Nat, NEW n \in Nat, NEW k \in Nat, LastOf(n, ids), LastOf(k, ids)
  PROVE  n = k
BY DEF LastOf

(* The ids that are counted belong to numbers.                                *)
LEMMA IdsAreNumbers ==
  ASSUME NEW x \in Memories
  PROVE  IdsOf(x) \in SUBSET Nat /\ x.batches \in SUBSET Nat
         /\ x.next.attempt \in Nat /\ x.next.batch \in Nat /\ x.next.review \in Nat
<1>1. ASSUME NEW i \in IdsOf(x)  PROVE  i \in Nat
  <2>1. PICK d \in Drills : i \in {a.id : a \in Range(x.drills[d].attempts)}
    BY <1>1 DEF IdsOf
  <2>2. x.drills[d].attempts \in Seq(Attempts)
    BY DEF Memories, DrillStates
  <2>3. Range(x.drills[d].attempts) \subseteq Attempts
    BY <2>2 DEF Range
  <2>. QED  BY <2>1, <2>3 DEF Attempts
<1>. QED  BY <1>1 DEF Memories, NextIds

(* What a snapshot gives back of the projections it was taken of.             *)
LoadsTo(r, m) ==
  /\ r \in Memories /\ r.games = Snapshotted(m).games
  /\ r.drills = m.drills /\ r.completed = m.completed /\ r.recommended = m.recommended
  /\ r.batches = m.batches /\ r.archive = m.archive /\ SameValues(r, m)
  /\ SameLate(r, Empty)
  /\ LastOf(r.next.attempt, IdsOf(m)) /\ LastOf(r.next.batch, m.batches)

(* A snapshot holds games of the kind that the projections have.              *)
LEMMA SnapshotGames ==
  ASSUME NEW m \in Memories
  PROVE  Snapshotted(m).games \in [Games -> GameStates]
<1>1. m.games \in [Games -> GameStates]
  BY DEF Memories
<1>2. Snapshotted(m).games = [g \in Games |-> IF "deep" \in m.games[g] THEN {"game", "deep"}
                                              ELSE m.games[g]]
  BY DEF Snapshotted, Memories
<1>3. {"game", "deep"} \in GameStates
  BY DEF GameStates
<1>. QED  BY <1>1, <1>2, <1>3

(* load_snapshot gives back what save_snapshot wrote, but for the late        *)
(* part; the next ids it derives are those after the last id.                 *)
LEMMA LoadedIs ==
  ASSUME NEW m \in Memories, IdsBelow(m)
  PROVE  LoadsTo(Loaded(Snapshotted(m)), m)
<1>. DEFINE content == Snapshotted(m)
            Above(ids) == 1 + CHOOSE n \in ids \cup {0} : \A i \in ids : i <= n
            attempts == UNION {{a.id : a \in Range(content.drills[d].attempts)} : d \in Drills}
            next == [Empty.next EXCEPT !.attempt = Above(attempts),
                                       !.batch = Above(content.batches)]
            r == [content EXCEPT !.next = next]
<1>1. Loaded(content) = r
  BY DEF Loaded
<1>2. /\ content.drills = m.drills /\ content.batches = m.batches
      /\ content.completed = m.completed /\ content.recommended = m.recommended
      /\ content.archive = m.archive /\ SameValues(content, m)
      /\ content.lines = <<>> /\ content.reviews = {}
  BY DEF Snapshotted, Memories, SameValues
<1>3. content \in Memories
  <2>1. content.games \in [Games -> GameStates]
    BY SnapshotGames
  <2>2. <<>> \in LineMaps /\ {} \in SUBSET Nat
    BY EmptyTypes DEF Empty, Memories
  <2>3. content = [m EXCEPT !.games = content.games, !.lines = <<>>, !.reviews = {},
                            !.next = [attempt |-> 0, batch |-> 0, line |-> 0, review |-> 0]]
    BY DEF Snapshotted, Memories
  <2>4. [attempt |-> 0, batch |-> 0, line |-> 0, review |-> 0] \in NextIds
    BY DEF NextIds
  <2>. HIDE DEF content
  <2>. QED  BY <2>1, <2>2, <2>3, <2>4 DEF Memories
<1>4. attempts = IdsOf(m)
  BY <1>2 DEF IdsOf
<1>5. ASSUME NEW ids \in SUBSET Nat, NEW b \in Nat, \A i \in ids : i < b
      PROVE  Above(ids) \in Nat /\ LastOf(Above(ids), ids)
  <2>1. ids \cup {0} \in SUBSET (0..b) /\ ids \cup {0} # {}
    BY <1>5
  <2>2. \E n \in ids \cup {0} : \A i \in ids \cup {0} : i <= n
    BY <2>1, HasLargest, Zenon
  <2>3. \E n \in ids \cup {0} : \A i \in ids : i <= n
    BY <2>2
  <2>. DEFINE last == CHOOSE n \in ids \cup {0} : \A i \in ids : i <= n
  <2>4. last \in ids \cup {0} /\ \A i \in ids : i <= last
    BY <2>3, Zenon
  <2>. HIDE DEF last
  <2>5. LastOf(1 + last, ids) /\ 1 + last \in Nat
    BY <2>4 DEF LastOf
  <2>. QED  BY <2>5 DEF last
<1>. HIDE DEF Above
<1>6. /\ Above(attempts) \in Nat /\ LastOf(Above(attempts), IdsOf(m))
      /\ Above(content.batches) \in Nat /\ LastOf(Above(content.batches), m.batches)
  BY <1>2, <1>4, <1>5, IdsAreNumbers DEF IdsBelow
<1>. HIDE DEF attempts, content
<1>7. /\ next \in NextIds /\ next.attempt = Above(attempts) /\ next.review = 1
      /\ next.batch = Above(content.batches)
  BY <1>6 DEF NextIds, Empty
<1>. HIDE DEF next
<1>8. r \in Memories /\ r.next = next
      /\ r.drills = content.drills /\ r.batches = content.batches
      /\ r.completed = content.completed /\ r.recommended = content.recommended
      /\ r.archive = content.archive /\ r.games = content.games
      /\ r.lines = content.lines /\ r.reviews = content.reviews
  BY <1>3, <1>7 DEF Memories
<1>9. SameValues(r, content)
  BY <1>3 DEF SameValues, Memories
<1>. HIDE DEF r
<1>10. SameLate(r, Empty)
  BY <1>2, <1>7, <1>8 DEF SameLate, Empty
<1>11. LoadsTo(r, m)
  BY <1>2, <1>6, <1>7, <1>8, <1>9, <1>10 DEF LoadsTo, SameValues, content
<1>. QED  BY <1>1, <1>11 DEF content

(* Snapshots give bases.                                                      *)
LEMMA BasesTypes ==
  ASSUME NEW fs \in SUBSET SnapshotFiles
  PROVE  /\ Bases(fs) \in SUBSET BaseStates /\ Nothing \in BaseStates
         /\ \A b \in Bases(fs) : IdsBelow(b.memory)
<1>1. Nothing \in BaseStates /\ IdsBelow(Nothing.memory)
  BY EmptyTypes DEF Nothing, BaseStates
<1>2. ASSUME NEW s \in SnapshotFiles
      PROVE  Base(s) \in BaseStates /\ IdsBelow(Base(s).memory)
  <2>1. s.content \in Contents /\ s.name \in Nat /\ s.at \in Nat
    BY DEF SnapshotFiles
  <2>2. PICK m \in {x \in Memories : IdsBelow(x)} : s.content = Snapshotted(m)
    BY <2>1 DEF Contents
  <2>3. LoadsTo(Loaded(s.content), m)
    BY <2>2, LoadedIs
  <2>4. IdsOf(Loaded(s.content)) = IdsOf(m)
    BY <2>3 DEF LoadsTo, IdsOf
  <2>5. IdsBelow(Loaded(s.content))
    BY <2>3, <2>4 DEF LoadsTo, LastOf, IdsBelow
  <2>6. Loaded(s.content) \in Memories
    BY <2>3 DEF LoadsTo
  <2>. HIDE DEF Loaded
  <2>. QED  BY <2>1, <2>5, <2>6 DEF Base, BaseStates
<1>. QED  BY <1>1, <1>2 DEF Bases

(* A log vouches for no more when an event is appended, but for the base that *)
(* the event is the marker of; and for no more when events are dropped.       *)
LEMMA AuthorizedAppend ==
  ASSUME NEW events \in Seq(LogEvents), NEW e \in LogEvents, NEW b,
         Authorized(Append(events, e), b)
  PROVE  \/ Authorized(events, b)
         \/ e.kind = "snapshot" /\ e.of = b.name /\ e.val = b.at
<1>. DEFINE more == Append(events, e)
<1>1. PICK i \in DOMAIN more : /\ more[i].kind = "snapshot" /\ more[i].of = b.name
                               /\ more[i].val = b.at /\ b.at < more[i].id
  BY DEF Authorized, Markers
<1>2. CASE i \in DOMAIN events
  <2>1. more[i] = events[i]
    BY <1>2
  <2>2. events[i].id \in Markers(events, b)
    BY <1>1, <1>2, <2>1 DEF Markers
  <2>. QED  BY <2>2 DEF Authorized
<1>3. CASE i \notin DOMAIN events
  <2>1. more[i] = e
    BY <1>3
  <2>. QED  BY <1>1, <2>1
<1>. QED  BY <1>2, <1>3

(* A log that holds no other events vouches for no other snapshot.            *)
LEMMA AuthorizedWithin ==
  ASSUME NEW events, NEW some, NEW b, Authorized(some, b),
         \A i \in DOMAIN some : \E j \in DOMAIN events : events[j] = some[i]
  PROVE  Authorized(events, b)
<1>1. PICK i \in DOMAIN some : /\ some[i].kind = "snapshot" /\ some[i].of = b.name
                               /\ some[i].val = b.at /\ b.at < some[i].id
  BY DEF Authorized, Markers
<1>2. PICK j \in DOMAIN events : events[j] = some[i]
  BY <1>1
<1>3. events[j].id \in Markers(events, b)
  BY <1>1, <1>2 DEF Markers
<1>. QED  BY <1>3 DEF Authorized

(* Fewer snapshot files, and a log that vouches for no more, leave fewer      *)
(* bases.                                                                     *)
LEMMA VouchedLess ==
  ASSUME NEW events, NEW more, NEW fs, NEW gs \in SUBSET fs, NEW todo, NEW rest,
         \A b : Authorized(more, b) \/ Claims(rest, b) => Authorized(events, b) \/ Claims(todo, b)
  PROVE  Vouched(more, gs, rest) \subseteq Vouched(events, fs, todo)
<1>1. Bases(gs) \subseteq Bases(fs)
  BY DEF Bases
<1>. QED  BY <1>1 DEF Vouched

(* The snapshot from which the projections are rebuilt is the latest.         *)
LEMMA RebuiltIs ==
  ASSUME NEW fs \in SUBSET SnapshotFiles, NEW events,
         NEW B \in Nat, \A s \in fs : s.at <= B /\ s.name <= B
  PROVE  \E c : /\ c \in Vouched(events, fs, <<>>) /\ Rebuilt(events, fs) = From(c, events)
                /\ \A b \in Vouched(events, fs, <<>>) : Older(b, c)
<1>. DEFINE usable == {s \in fs : Authorized(events, s)}
            chosen == Chosen(events, fs)
            latest == CHOOSE s \in chosen : TRUE
<1>1. chosen = {s \in usable : \A t \in usable : t.at < s.at \/ (t.at = s.at /\ t.name <= s.name)}
  BY DEF Chosen
<1>2. \A s : Authorized(events, Base(s)) <=> Authorized(events, s)
  BY DEF Authorized, Markers, Base
<1>3. \A b : ~Claims(<<>>, b)
  BY DEF Claims, Starts
<1>4. \A b \in Vouched(events, fs, <<>>) : b = Nothing \/ \E s \in usable : b = Base(s)
  BY <1>2, <1>3 DEF Vouched, Bases
<1>5. Nothing \in Vouched(events, fs, <<>>)
        /\ \A s \in usable : Base(s) \in Vouched(events, fs, <<>>)
  BY <1>2 DEF Vouched, Bases
<1>6. \A s \in usable : s.at \in 0..B /\ s.name \in 1..B
  BY DEF SnapshotFiles
<1>7. Rebuilt(events, fs) = IF chosen = {} THEN Replay(Empty, 0, events)
                            ELSE Replay(Loaded(latest.content), latest.at, events)
  BY DEF Rebuilt
<1>8. \A s : Base(s).name = s.name /\ Base(s).at = s.at /\ Base(s).memory = Loaded(s.content)
  BY DEF Base
<1>9. Nothing.name = 0 /\ Nothing.at = 0 /\ Nothing.memory = Empty
  BY DEF Nothing
<1>. HIDE DEF usable, chosen, latest
<1>10. CASE usable = {}
  <2>1. Rebuilt(events, fs) = From(Nothing, events)
    BY <1>1, <1>7, <1>9, <1>10 DEF From
  <2>2. \A b \in Vouched(events, fs, <<>>) : Older(b, Nothing)
    BY <1>4, <1>9, <1>10 DEF Older
  <2>. QED  BY <1>5, <2>1, <2>2
<1>11. CASE usable # {}
  <2>. DEFINE ats == {s.at : s \in usable}
  <2>1. ats \in SUBSET (0..B) /\ ats # {}
    BY <1>6, <1>11
  <2>2. PICK s \in usable : \A t \in usable : t.at <= s.at
    <3>1. \E m \in ats : \A x \in ats : x <= m
      BY <2>1, HasLargest, Zenon
    <3>2. PICK m \in ats : \A x \in ats : x <= m
      BY <3>1
    <3>3. PICK s \in usable : m = s.at
      OBVIOUS
    <3>. QED  BY <3>2, <3>3
  <2>. DEFINE names == {t.name : t \in {x \in usable : x.at = s.at}}
  <2>3. names \in SUBSET (0..B) /\ names # {}
    BY <1>6
  <2>4. PICK r \in usable : r.at = s.at /\ \A t \in usable : t.at = s.at => t.name <= r.name
    <3>1. \E m \in names : \A x \in names : x <= m
      BY <2>3, HasLargest, Zenon
    <3>2. PICK m \in names : \A x \in names : x <= m
      BY <3>1
    <3>3. PICK r \in {x \in usable : x.at = s.at} : m = r.name
      OBVIOUS
    <3>. QED  BY <3>2, <3>3
  <2>5. r \in chosen
    <3>1. \A t \in usable : t.at < r.at \/ (t.at = r.at /\ t.name <= r.name)
      BY <1>6, <2>2, <2>4
    <3>. QED  BY <1>1, <3>1
  <2>6. latest \in chosen
    BY <2>5 DEF latest
  <2>7. latest \in usable
          /\ \A t \in usable : t.at < latest.at \/ (t.at = latest.at /\ t.name <= latest.name)
    BY <1>1, <2>6
  <2>8. Rebuilt(events, fs) = From(Base(latest), events)
    BY <1>7, <1>8, <2>6 DEF From
  <2>9. Older(Nothing, Base(latest))
    BY <1>6, <1>8, <1>9, <2>7 DEF Older
  <2>10. \A t \in usable : Older(Base(t), Base(latest))
    BY <1>8, <2>7 DEF Older
  <2>11. \A b \in Vouched(events, fs, <<>>) : Older(b, Base(latest))
    BY <1>4, <2>9, <2>10
  <2>. QED  BY <1>5, <2>7, <2>8, <2>11
<1>. QED  BY <1>10, <1>11

-----------------------------------------------------------------------------
(* One event of a call.                                                       *)

(* The event that is appended, and the ones that remain.                      *)
LEMMA TodoSplits ==
  ASSUME NEW todo \in Seq(PlainEvents), todo # <<>>
  PROVE  /\ Len(todo) \in Nat \ {0} /\ 1 \in DOMAIN todo /\ todo[1] \in PlainEvents
         /\ Head(todo) = todo[1]
         /\ Tail(todo) \in Seq(PlainEvents) /\ Len(Tail(todo)) = Len(todo) - 1
         /\ DOMAIN Tail(todo) = 1..(Len(todo) - 1) /\ DOMAIN todo = 1..Len(todo)
         /\ \A i \in DOMAIN Tail(todo) : i + 1 \in DOMAIN todo /\ Tail(todo)[i] = todo[i + 1]
         /\ Len(todo) = 1 => Tail(todo) = <<>>
         /\ Len(todo) # 1 => Tail(todo) # <<>>
<1>1. /\ Len(todo) \in Nat \ {0} /\ 1 \in DOMAIN todo /\ todo[1] \in PlainEvents
      /\ Head(todo) = todo[1] /\ DOMAIN todo = 1..Len(todo)
      /\ Tail(todo) \in Seq(PlainEvents) /\ Len(Tail(todo)) = Len(todo) - 1
  OBVIOUS
<1>. DEFINE rest == Tail(todo)
<1>2. DOMAIN rest = 1..(Len(todo) - 1)
  BY <1>1
<1>3. \A i \in DOMAIN rest : i + 1 \in DOMAIN todo /\ rest[i] = todo[i + 1]
  BY <1>1
<1>4. Len(todo) = 1 => Len(rest) = 0
  BY <1>1
<1>5. Len(todo) # 1 => Len(rest) # 0
  BY <1>1
<1>. HIDE DEF rest
<1>6. rest \in Seq(PlainEvents)
  BY <1>1 DEF rest
<1>7. (Len(rest) = 0) = (rest = <<>>)
  BY <1>6
<1>. QED  BY <1>1, <1>2, <1>3, <1>4, <1>5, <1>7 DEF rest

(* What it is about is there.                                                 *)
LEMMA PlannedRefers ==
  ASSUME NEW m \in Memories, NEW todo \in Seq(PlainEvents), todo # <<>>, Planned(m, todo),
         NEW n \in Nat \ {0}, NEW x, Covers(x, m)
  PROVE  Refers(Stamped(todo[1], n), x)
<1>. DEFINE e == Stamped(todo[1], n)
<1>1. /\ todo[1] \in PlainEvents /\ 1 \in DOMAIN todo
      /\ e \in LogEvents /\ e.kind = todo[1].kind /\ e.of = todo[1].of /\ e.val = todo[1].val
  BY TodoSplits, StampedTypes
<1>. HIDE DEF e
<1>2. PlannedEvent(m, todo[1])
  BY <1>1 DEF Planned
<1>3. \A g \in Games : "game" \in m.games[g] => "game" \in x.games[g]
  BY DEF Covers, CoversGames
<1>4. \A g \in Games : "deep" \in m.games[g] => "game" \in m.games[g]
  BY DEF Memories, GameStates
<1>5. e.kind = "analysed" => e.of \in Games /\ "game" \in m.games[e.of]
  BY <1>1, <1>2 DEF PlannedEvent, LogEvents, Typed, GameKinds
<1>6. e.kind = "drill" /\ e.of \in Games => "game" \in m.games[e.of]
  BY <1>1, <1>4 DEF Planned, Starts
<1>7. e.kind = "saved" => e.val.game \in Games /\ "game" \in m.games[e.val.game]
  BY <1>1, <1>2 DEF PlannedEvent, LogEvents, Typed, Lines
<1>. QED  BY <1>3, <1>5, <1>6, <1>7 DEF Refers, e

(* Once an event is applied, the members are as the next one wants them.      *)
LEMMA PlannedAfter ==
  ASSUME NEW m \in Memories, NEW todo \in Seq(PlainEvents), todo # <<>>, Planned(m, todo),
         NEW n \in Nat \ {0}
  PROVE  /\ Planned(Applied(m, Stamped(todo[1], n)), Tail(todo))
         /\ \A i \in DOMAIN Tail(todo) : Tail(todo)[i].kind \notin First
         /\ Starts(Tail(todo), "parsed") =>
              todo[1].kind = "imported" /\ Tail(todo)[1].of = todo[1].of
         /\ todo[1].kind = "imported" =>
              Starts(Tail(todo), "parsed") /\ Tail(todo)[1].of = todo[1].of
<1>. DEFINE e == Stamped(todo[1], n)
            r == Applied(m, e)
            rest == Tail(todo)
<1>1. /\ todo[1] \in PlainEvents /\ 1 \in DOMAIN todo
      /\ e \in LogEvents /\ e.kind = todo[1].kind /\ e.of = todo[1].of /\ e.val = todo[1].val
  BY TodoSplits, StampedTypes
<1>2. /\ Len(todo) \in Nat \ {0} /\ Len(rest) = Len(todo) - 1 /\ rest \in Seq(PlainEvents)
      /\ DOMAIN rest = 1..(Len(todo) - 1) /\ DOMAIN todo = 1..Len(todo)
      /\ \A i \in DOMAIN rest : i + 1 \in DOMAIN todo /\ rest[i] = todo[i + 1]
  BY TodoSplits
<1>3. AppliesTo(r, m, e)
  BY <1>1, AppliedFields
<1>4. Linked(todo) /\ \A i \in DOMAIN todo : PlannedEvent(m, todo[i])
  BY DEF Planned
<1>5. \A i \in DOMAIN rest :
        /\ i \in Nat \ {0} /\ i + 1 \in DOMAIN todo /\ rest[i] = todo[i + 1] /\ i + 1 # 1
        /\ (i + 1) - 1 = i /\ (i + 1) + 1 = (i + 2)
        /\ i # 1 => i - 1 \in DOMAIN rest /\ (i - 1) + 1 = i /\ rest[i - 1] = todo[i]
        /\ i + 2 \in DOMAIN todo => i + 1 \in DOMAIN rest /\ rest[i + 1] = todo[i + 2]
        /\ (i + 1 = Len(todo)) = (i = Len(rest))
  <2>. SUFFICES ASSUME NEW i \in DOMAIN rest
                PROVE  /\ i \in Nat \ {0} /\ i + 1 \in DOMAIN todo /\ rest[i] = todo[i + 1]
                       /\ i + 1 # 1 /\ (i + 1) - 1 = i /\ (i + 1) + 1 = (i + 2)
                       /\ i # 1 => i - 1 \in DOMAIN rest /\ (i - 1) + 1 = i /\ rest[i - 1] = todo[i]
                       /\ i + 2 \in DOMAIN todo => i + 1 \in DOMAIN rest /\ rest[i + 1] = todo[i + 2]
                       /\ (i + 1 = Len(todo)) = (i = Len(rest))
    OBVIOUS
  <2>1. /\ i \in Nat \ {0} /\ i + 1 # 1 /\ (i + 1) - 1 = i /\ (i + 1) + 1 = (i + 2)
        /\ i # 1 => i - 1 \in DOMAIN rest /\ (i - 1) + 1 = i
        /\ i + 2 \in DOMAIN todo => i + 1 \in DOMAIN rest
        /\ (i + 1 = Len(todo)) = (i = Len(rest))
    BY <1>2
  <2>. QED  BY <1>2, <2>1
<1>. HIDE DEF e, r, rest
<1>6. \A i \in DOMAIN rest :
        /\ rest[i].kind \notin First
        /\ rest[i].kind = "imported" =>
             i + 1 \in DOMAIN rest /\ rest[i + 1].kind = "parsed" /\ rest[i + 1].of = rest[i].of
        /\ rest[i].kind = "parsed" => todo[i].kind = "imported" /\ todo[i].of = rest[i].of
        /\ rest[i].kind = "drill" =>
             i = Len(rest) /\ todo[i].kind = "analysed" /\ todo[i].of = rest[i].of
  <2>. SUFFICES ASSUME NEW i \in DOMAIN rest
                PROVE  /\ rest[i].kind \notin First
                       /\ rest[i].kind = "imported" =>
                            /\ i + 1 \in DOMAIN rest
                            /\ rest[i + 1].kind = "parsed" /\ rest[i + 1].of = rest[i].of
                       /\ rest[i].kind = "parsed" =>
                            todo[i].kind = "imported" /\ todo[i].of = rest[i].of
                       /\ rest[i].kind = "drill" =>
                            /\ i = Len(rest)
                            /\ todo[i].kind = "analysed" /\ todo[i].of = rest[i].of
    OBVIOUS
  <2>1. PICK j \in DOMAIN todo : j = i + 1
    BY <1>5
  <2>2. /\ todo[j] = rest[i] /\ j # 1 /\ j - 1 = i /\ (j = Len(todo)) = (i = Len(rest))
        /\ j + 1 \in DOMAIN todo => i + 1 \in DOMAIN rest /\ rest[i + 1] = todo[j + 1]
    BY <1>5, <2>1
  <2>3. /\ todo[j].kind \in First => j = 1
        /\ todo[j].kind = "imported" =>
             j + 1 \in DOMAIN todo /\ todo[j + 1].kind = "parsed" /\ todo[j + 1].of = todo[j].of
        /\ todo[j].kind = "parsed" /\ j # 1 =>
             todo[j - 1].kind = "imported" /\ todo[j - 1].of = todo[j].of
        /\ todo[j].kind = "drill" =>
             /\ j = Len(todo)
             /\ j # 1 => todo[j - 1].kind = "analysed" /\ todo[j - 1].of = todo[j].of
    BY <1>4 DEF Linked
  <2>. QED  BY ONLY <2>2, <2>3
<1>7. Linked(rest)
  <2>1. \A i \in DOMAIN rest :
          /\ rest[i].kind \in First => i = 1
          /\ rest[i].kind = "imported" =>
               i + 1 \in DOMAIN rest /\ rest[i + 1].kind = "parsed" /\ rest[i + 1].of = rest[i].of
          /\ rest[i].kind = "parsed" /\ i # 1 =>
               rest[i - 1].kind = "imported" /\ rest[i - 1].of = rest[i].of
          /\ rest[i].kind = "drill" =>
               /\ i = Len(rest)
               /\ i # 1 => rest[i - 1].kind = "analysed" /\ rest[i - 1].of = rest[i].of
    BY <1>5, <1>6
  <2>2. ASSUME NEW i \in DOMAIN rest, NEW j \in DOMAIN rest, i < j, rest[j].kind \in Importing
        PROVE  /\ rest[i].kind \in Importing \cup {"rating"}
               /\ rest[i].kind = "parsed" => rest[j].of # rest[i].of
    <3>1. i + 1 < j + 1
      BY <1>5, <2>2
    <3>. QED  BY <1>4, <1>5, <2>2, <3>1 DEF Linked
  <2>. QED  BY <2>1, <2>2 DEF Linked
<1>8. ASSUME NEW i \in DOMAIN rest
      PROVE  PlannedEvent(r, rest[i])
  <2>0. PlannedEvent(m, rest[i]) /\ rest[i].kind \notin First /\ rest[i] \in PlainEvents
    BY <1>2, <1>4, <1>5, <1>6
  <2>1. rest[i].kind \in {"imported", "parsed"} => r.games[rest[i].of] = {}
    <3>. SUFFICES ASSUME rest[i].kind \in {"imported", "parsed"}
                  PROVE  r.games[rest[i].of] = {}
      OBVIOUS
    <3>1. m.games[rest[i].of] = {}
      BY <2>0 DEF PlannedEvent
    <3>2. 1 < i + 1 /\ todo[i + 1].kind \in Importing
      BY <1>5 DEF Importing
    <3>3. /\ e.kind \in Importing \cup {"rating"}
          /\ e.kind = "parsed" => rest[i].of # e.of
      BY <1>1, <1>4, <1>5, <3>2 DEF Linked
    <3>4. r.games = IF e.kind = "parsed" THEN [m.games EXCEPT ![e.of] = {"game"}] ELSE m.games
      BY <1>3, <3>3 DEF AppliesTo, GamesApplied, GamesAfter, Importing
    <3>5. rest[i].of \in Games
      BY <2>0 DEF PlainEvents, Typed, GameKinds
    <3>. QED  BY <3>1, <3>3, <3>4, <3>5 DEF Memories
  <2>2. rest[i].kind \in {"analysed", "shallow"} => "game" \in r.games[rest[i].of]
    <3>. SUFFICES ASSUME rest[i].kind \in {"analysed", "shallow"}
                  PROVE  "game" \in r.games[rest[i].of]
      OBVIOUS
    <3>1. "game" \in m.games[rest[i].of] /\ rest[i].of \in Games
      BY <2>0 DEF PlannedEvent, PlainEvents, Typed, GameKinds
    <3>. QED  BY <1>1, <3>1, GamesStay DEF r
  <2>3. rest[i].kind = "drill" => r.drills[rest[i].of] = NoDrill
    <3>. SUFFICES ASSUME rest[i].kind = "drill"  PROVE  r.drills[rest[i].of] = NoDrill
      OBVIOUS
    <3>1. m.drills[rest[i].of] = NoDrill /\ rest[i].of \in Drills
      BY <2>0 DEF PlannedEvent, PlainEvents, Typed
    <3>2. e.kind # "drill"
      <4>1. e.kind = "drill" => 1 = Len(todo)
        <5>1. \A j \in DOMAIN todo : todo[j].kind = "drill" => j = Len(todo)
          BY <1>4 DEF Linked
        <5>. QED  BY <1>1, <5>1
      <4>. QED  BY <1>2, <4>1
    <3>3. DrillAfter(NoDrill, e) = NoDrill
      BY <3>2 DEF DrillAfter, NoDrill
    <3>4. r.drills = DrillsAfter(m.drills, e) /\ m.drills \in [Drills -> DrillStates]
      BY <1>3 DEF AppliesTo, Memories
    <3>. QED  BY <3>1, <3>3, <3>4 DEF DrillsAfter
  <2>. QED  BY <2>0, <2>1, <2>2, <2>3 DEF PlannedEvent, First
<1>9. Starts(rest, "drill") /\ rest[1].of \in Games => "deep" \in r.games[rest[1].of]
  <2>. SUFFICES ASSUME Starts(rest, "drill"), rest[1].of \in Games
                PROVE  "deep" \in r.games[rest[1].of]
    OBVIOUS
  <2>1. 1 \in DOMAIN rest
    BY <1>2 DEF Starts
  <2>2. e.kind = "analysed" /\ e.of = rest[1].of
    BY <1>1, <1>6, <2>1 DEF Starts
  <2>3. r.games = [m.games EXCEPT ![e.of] = {"game", "deep"}]
    BY <1>3, <2>2 DEF AppliesTo, GamesApplied
  <2>. QED  BY <2>2, <2>3 DEF Memories
<1>10. Starts(rest, "parsed") => todo[1].kind = "imported" /\ rest[1].of = todo[1].of
  <2>1. Starts(rest, "parsed") => 1 \in DOMAIN rest
    BY <1>2 DEF Starts
  <2>. QED  BY <1>6, <2>1 DEF Starts
<1>11. todo[1].kind = "imported" => Starts(rest, "parsed") /\ rest[1].of = todo[1].of
  <2>. SUFFICES ASSUME todo[1].kind = "imported"
                PROVE  Starts(rest, "parsed") /\ rest[1].of = todo[1].of
    OBVIOUS
  <2>1. 1 + 1 \in DOMAIN todo /\ todo[1 + 1].kind = "parsed" /\ todo[1 + 1].of = todo[1].of
    BY <1>1, <1>4 DEF Linked
  <2>2. 1 \in DOMAIN rest
    BY <1>2, <2>1
  <2>3. rest # <<>> /\ rest[1] = todo[1 + 1]
    BY <1>2, <2>2
  <2>. QED  BY <2>1, <2>3 DEF Starts
<1>. QED  BY <1>6, <1>7, <1>8, <1>9, <1>10, <1>11 DEF Planned, r, e, rest

-----------------------------------------------------------------------------
(* What all the bases have in common, whatever failed: none refers to what    *)
(* another lacks, the older keeps what the newer shows, and none lacks what   *)
(* the process shows.                                                         *)

Sourced(V, events) ==
  /\ \A b, c \in V : /\ Behind(From(b, events), From(c, events))
                     /\ SameLate(From(b, events), From(c, events))
  /\ \A b, c \in V : Older(b, c) => Covers(From(b, events), From(c, events))
  /\ \A b \in V : DrillsAnalysed(From(b, events))
Shown(V, events, m, todo) ==
  /\ Behind(m, m) /\ DrillsAnalysed(m)
  /\ \A b \in V : /\ Covers(From(b, events), m) /\ Behind(From(b, events), m)
                  /\ Starts(todo, "parsed") =>
                       "game" \in From(b, events).games[todo[1].of]

(* What is replayed from a base are projections.                              *)
LEMMA FromTypes ==
  ASSUME NEW b \in BaseStates, NEW events \in Seq(LogEvents)
  PROVE  From(b, events) \in Memories
<1>1. b.memory \in Memories
  BY DEF BaseStates
<1>. QED  BY <1>1, ReplayTypes DEF From

(* An appended event is replayed onto every base.                             *)
LEMMA FromAppend ==
  ASSUME NEW b \in BaseStates, NEW events \in Seq(LogEvents), NEW e \in LogEvents,
         b.at < e.id
  PROVE  From(b, Append(events, e)) = Replayed(From(b, events), e)
<1>1. b.memory \in Memories
  BY DEF BaseStates
<1>2. After(e, b.at)
  BY DEF After
<1>. QED  BY <1>1, <1>2, ReplayAppend DEF From

(* What is said of all bases is said of some of them.                         *)
LEMMA FewerBases ==
  ASSUME NEW V, NEW W \in SUBSET V, NEW events
  PROVE  /\ Sourced(V, events) => Sourced(W, events)
         /\ \A m, todo : Shown(V, events, m, todo) => Shown(W, events, m, todo)
BY DEF Sourced, Shown

(* It stays so when the event of a call reaches the log...                    *)
LEMMA SourcedAppend ==
  ASSUME NEW V \in SUBSET BaseStates, NEW events \in Seq(LogEvents),
         NEW m \in Memories, NEW todo \in Seq(PlainEvents), todo # <<>>, Planned(m, todo),
         NEW n \in Nat \ {0}, \A b \in V : b.at < n,
         Sourced(V, events), Shown(V, events, m, todo)
  PROVE  Sourced(V, Append(events, Stamped(todo[1], n)))
<1>. DEFINE e == Stamped(todo[1], n)
            F(b) == From(b, events)
            G(b) == From(b, Append(events, e))
<1>1. /\ todo[1] \in PlainEvents /\ 1 \in DOMAIN todo
      /\ e \in LogEvents /\ e.kind = todo[1].kind /\ e.of = todo[1].of /\ e.id = n
  BY TodoSplits, StampedTypes
<1>2. \A b \in V : Refers(e, F(b))
  BY PlannedRefers DEF Shown
<1>. HIDE DEF e
<1>3. \A b \in V : F(b) \in Memories /\ G(b) = Replayed(F(b), e)
  BY <1>1, FromTypes, FromAppend
<1>4. PlannedEvent(m, todo[1])
  BY <1>1 DEF Planned
<1>. HIDE DEF F, G
<1>5. \A b, c \in V : Behind(F(b), F(c)) /\ SameLate(F(b), F(c))
  BY DEF Sourced, F
<1>6. \A b, c \in V : Behind(G(b), G(c))
  BY <1>1, <1>2, <1>3, <1>5, BehindAfter
<1>7. \A b, c \in V : SameLate(G(b), G(c))
  BY <1>1, <1>3, <1>5, SameLateAfter
<1>8. \A b, c \in V : Older(b, c) => Covers(G(b), G(c))
  <2>1. \A b, c \in V : Older(b, c) => Covers(F(b), F(c))
    BY DEF Sourced, F
  <2>. QED  BY <1>1, <1>3, <2>1, CoversAfter
<1>9. ASSUME NEW b \in V  PROVE  DrillsAnalysed(G(b))
  <2>1. DrillsAnalysed(F(b)) /\ Covers(F(b), m) /\ Behind(F(b), m)
    BY DEF Sourced, Shown, F
  <2>2. e.kind = "drill" /\ e.of \in Games => "deep" \in F(b).games[e.of]
    <3>1. e.kind = "drill" /\ e.of \in Games => "deep" \in m.games[e.of]
      BY <1>1 DEF Planned, Starts
    <3>. QED  BY <2>1, <3>1 DEF Covers, CoversGames
  <2>3. e.kind = "imported" => ~F(b).drills[e.of].made
    <3>. SUFFICES ASSUME e.kind = "imported"  PROVE  ~F(b).drills[e.of].made
      OBVIOUS
    <3>1. m.games[e.of] = {}
      BY <1>1, <1>4 DEF PlannedEvent
    <3>2. e.of \in Games
      BY <1>1 DEF LogEvents, Typed, GameKinds
    <3>. QED  BY <2>1, <3>1, <3>2 DEF Behind, Depends
  <2>. QED  BY <1>1, <1>3, <2>1, <2>2, <2>3, DrillsAnalysedAfter
<1>. QED  BY <1>6, <1>7, <1>8, <1>9 DEF Sourced, G, e

(* ...whether the members see it...                                           *)
LEMMA ShownApplied ==
  ASSUME NEW V \in SUBSET BaseStates, NEW events \in Seq(LogEvents),
         NEW m \in Memories, NEW todo \in Seq(PlainEvents), todo # <<>>, Planned(m, todo),
         NEW n \in Nat \ {0}, \A b \in V : b.at < n,
         Shown(V, events, m, todo)
  PROVE  Shown(V, Append(events, Stamped(todo[1], n)), Applied(m, Stamped(todo[1], n)),
               Tail(todo))
<1>. DEFINE e == Stamped(todo[1], n)
            r == Applied(m, e)
            F(b) == From(b, events)
            G(b) == From(b, Append(events, e))
<1>1. /\ todo[1] \in PlainEvents /\ 1 \in DOMAIN todo
      /\ e \in LogEvents /\ e.kind = todo[1].kind /\ e.of = todo[1].of /\ e.id = n
  BY TodoSplits, StampedTypes
<1>2. Refers(e, m)
  BY PlannedRefers, CoversAll
<1>. HIDE DEF e
<1>3. \A b \in V : F(b) \in Memories /\ G(b) = Replayed(F(b), e)
  BY <1>1, FromTypes, FromAppend
<1>4. PlannedEvent(m, todo[1])
  BY <1>1 DEF Planned
<1>. HIDE DEF F, G
<1>5. \A b \in V : Covers(F(b), m) /\ Behind(F(b), m)
  BY DEF Shown, F
<1>6. Behind(m, m) /\ DrillsAnalysed(m)
  BY DEF Shown
<1>7. Behind(r, r)
  BY <1>1, <1>2, <1>6, BehindAfter
<1>8. /\ e.kind = "imported" => m.games[e.of] = {}
      /\ e.kind = "parsed" => m.games[e.of] = {}
      /\ e.kind = "analysed" => "game" \in m.games[e.of]
  BY <1>1, <1>4 DEF PlannedEvent
<1>9. e.kind \in GameKinds => e.of \in Games
  BY <1>1 DEF LogEvents, Typed
<1>10. AppliesTo(r, m, e)
  BY <1>1, AppliedFields
<1>. HIDE DEF r
<1>11. DrillsAnalysed(r)
  <2>1. CASE e.kind \in {"imported", "parsed"}
    <3>1. e.of \in Games /\ ~m.drills[e.of].made
      BY <1>6, <1>8, <1>9, <2>1 DEF GameKinds, Behind, Depends
    <3>2. /\ r.drills = m.drills
          /\ r.games = IF e.kind = "parsed" THEN [m.games EXCEPT ![e.of] = {"game"}] ELSE m.games
      BY <1>10, <2>1 DEF AppliesTo, DrillsAfter, GamesApplied
    <3>3. \A g \in Games : g # e.of => r.games[g] = m.games[g]
      BY <3>1, <3>2 DEF Memories
    <3>. QED  BY <1>6, <3>1, <3>2, <3>3 DEF DrillsAnalysed
  <2>2. CASE e.kind = "analysed"
    <3>1. /\ r.drills = m.drills /\ e.of \in Games
          /\ r.games = [m.games EXCEPT ![e.of] = {"game", "deep"}]
      BY <1>9, <1>10, <2>2 DEF AppliesTo, DrillsAfter, GamesApplied, GameKinds
    <3>2. \A g \in Games : "deep" \in m.games[g] => "deep" \in r.games[g]
      BY <3>1 DEF Memories
    <3>. QED  BY <1>6, <3>1, <3>2 DEF DrillsAnalysed
  <2>3. CASE e.kind \notin {"imported", "parsed", "analysed"}
    <3>. DEFINE v == Replayed(m, e)
    <3>1. e.kind = "drill" /\ e.of \in Games => "deep" \in m.games[e.of]
      BY <1>1 DEF Planned, Starts
    <3>2. DrillsAnalysed(v)
      BY <1>1, <1>6, <2>3, <3>1, DrillsAnalysedAfter
    <3>3. ReplaysTo(v, m, e)
      BY <1>1, ReplayedFields
    <3>. HIDE DEF v
    <3>4. r.drills = v.drills /\ r.games = v.games
      BY <1>10, <2>3, <3>3 DEF AppliesTo, ReplaysTo, EntriesTo, GamesApplied
    <3>. QED  BY <3>2, <3>4 DEF DrillsAnalysed
  <2>. QED  BY <2>1, <2>2, <2>3
<1>12. ASSUME NEW b \in V
       PROVE  /\ Covers(G(b), r) /\ Behind(G(b), r)
              /\ Starts(Tail(todo), "parsed") => "game" \in G(b).games[Tail(todo)[1].of]
  <2>1. e.kind = "parsed" => "game" \in F(b).games[e.of]
    BY <1>1 DEF Shown, Starts, F
  <2>2. Covers(G(b), r)
    BY <1>1, <1>3, <1>5, <1>8, <2>1, CoversAfter DEF r
  <2>3. Behind(G(b), r)
    BY <1>1, <1>2, <1>3, <1>5, BehindAfter DEF r
  <2>4. Starts(Tail(todo), "parsed") => "game" \in G(b).games[Tail(todo)[1].of]
    <3>1. Starts(Tail(todo), "parsed") => e.kind = "imported" /\ Tail(todo)[1].of = e.of
      BY <1>1, PlannedAfter
    <3>2. ReplaysTo(G(b), F(b), e) /\ F(b) \in Memories
      BY <1>1, <1>3, ReplayedFields
    <3>3. e.kind = "imported" => /\ G(b).games = [F(b).games EXCEPT ![e.of] = {"game"}]
                                 /\ F(b).games \in [Games -> GameStates] /\ e.of \in Games
      BY <1>9, <3>2 DEF ReplaysTo, EntriesTo, GamesAfter, Memories, GameKinds
    <3>. QED  BY <3>1, <3>3
  <2>. QED  BY <2>2, <2>3, <2>4
<1>. QED  BY <1>7, <1>11, <1>12 DEF Shown, r, G, e

(* ...or not.                                                                 *)
LEMMA ShownUnapplied ==
  ASSUME NEW V \in SUBSET BaseStates, NEW events \in Seq(LogEvents),
         NEW m \in Memories, NEW todo \in Seq(PlainEvents), todo # <<>>, Planned(m, todo),
         NEW n \in Nat \ {0}, \A b \in V : b.at < n,
         Shown(V, events, m, todo), NEW rest, ~Starts(rest, "parsed")
  PROVE  Shown(V, Append(events, Stamped(todo[1], n)), m, rest)
<1>. DEFINE e == Stamped(todo[1], n)
            F(b) == From(b, events)
            G(b) == From(b, Append(events, e))
<1>1. /\ todo[1] \in PlainEvents /\ 1 \in DOMAIN todo
      /\ e \in LogEvents /\ e.kind = todo[1].kind /\ e.of = todo[1].of /\ e.id = n
  BY TodoSplits, StampedTypes
<1>2. Refers(e, m)
  BY PlannedRefers, CoversAll
<1>. HIDE DEF e
<1>3. \A b \in V : F(b) \in Memories /\ G(b) = Replayed(F(b), e)
  BY <1>1, FromTypes, FromAppend
<1>. HIDE DEF F, G
<1>4. \A b \in V : Covers(F(b), m) /\ Behind(F(b), m)
  BY DEF Shown, F
<1>5. /\ e.kind = "imported" => m.games[e.of] = {}
      /\ e.kind = "drill" => m.drills[e.of] = NoDrill
  BY <1>1 DEF Planned, PlannedEvent
<1>6. \A b \in V : Covers(G(b), m)
  BY <1>1, <1>3, <1>4, <1>5, CoversAfter
<1>7. \A b \in V : Behind(G(b), m)
  BY <1>1, <1>2, <1>3, <1>4, BehindAfter
<1>. QED  BY <1>6, <1>7 DEF Shown, G, e

(* Projections that show the same keep the same and refer to the same.        *)
LEMMA AlikeKeeps ==
  ASSUME NEW x \in Memories, NEW y \in Memories, Alike(x, y)
  PROVE  /\ Covers(x, y) /\ Covers(y, x) /\ SameLate(x, y)
         /\ \A g \in Games : /\ Depends(x, g) <=> Depends(y, g)
                             /\ "game" \in x.games[g] <=> "game" \in y.games[g]
         /\ DrillsAnalysed(x) <=> DrillsAnalysed(y)
<1>1. SameGames(x, y) /\ SameSets(x, y) /\ SameEntries(x, y) /\ SameNext(x, y)
  BY DEF Alike, SameRest
<1>2. \A g \in Games : x.games[g] \in GameStates /\ y.games[g] \in GameStates
  BY DEF Memories
<1>3. \A g \in Games : /\ "deep" \in x.games[g] <=> "deep" \in y.games[g]
                       /\ "game" \in x.games[g] <=> "game" \in y.games[g]
                       /\ y.games[g] \ {"shallow"} \subseteq x.games[g]
                       /\ x.games[g] \ {"shallow"} \subseteq y.games[g]
  BY <1>1, <1>2 DEF SameGames, GameStates
<1>4. x.drills = y.drills /\ x.lines = y.lines
  BY <1>1 DEF SameEntries
<1>5. Covers(x, y) /\ Covers(y, x)
  BY <1>1, <1>3, <1>4 DEF Covers, CoversGames, CoversDrills, CoversSets, SameSets
<1>6. SameLate(x, y)
  BY <1>1, <1>4 DEF SameLate, SameSets, SameNext
<1>. QED  BY <1>3, <1>4, <1>5, <1>6 DEF Depends, DrillsAnalysed

(* It stays so when the log is replaced by one that shows the same.           *)
LEMMA SourcedAlike ==
  ASSUME NEW V \in SUBSET BaseStates, NEW events \in Seq(LogEvents),
         NEW more \in Seq(LogEvents), Sourced(V, events),
         \A b \in V : Alike(From(b, more), From(b, events))
  PROVE  /\ Sourced(V, more)
         /\ \A m : Shown(V, events, m, <<>>) => Shown(V, more, m, <<>>)
<1>. DEFINE F(b) == From(b, events)
            G(b) == From(b, more)
<1>1. \A b \in V : F(b) \in Memories /\ G(b) \in Memories
  BY FromTypes
<1>. HIDE DEF F, G
<1>2. \A b \in V : /\ Covers(G(b), F(b)) /\ Covers(F(b), G(b)) /\ SameLate(G(b), F(b))
                   /\ \A g \in Games : /\ Depends(G(b), g) <=> Depends(F(b), g)
                                       /\ "game" \in G(b).games[g] <=> "game" \in F(b).games[g]
                   /\ DrillsAnalysed(G(b)) <=> DrillsAnalysed(F(b))
  BY <1>1, AlikeKeeps DEF F, G
<1>3. /\ \A b, c \in V : Behind(F(b), F(c)) /\ SameLate(F(b), F(c))
      /\ \A b, c \in V : Older(b, c) => Covers(F(b), F(c))
      /\ \A b \in V : DrillsAnalysed(F(b))
  BY DEF Sourced, F
<1>4. \A b, c \in V : Behind(G(b), G(c))
  BY <1>2, <1>3 DEF Behind
<1>5. \A b, c \in V : SameLate(G(b), G(c))
  BY <1>2, <1>3 DEF SameLate
<1>6. \A b, c \in V : Older(b, c) => Covers(G(b), G(c))
  BY <1>2, <1>3, CoversAll
<1>7. Sourced(V, more)
  BY <1>2, <1>3, <1>4, <1>5, <1>6 DEF Sourced, G
<1>8. ASSUME NEW m, Shown(V, events, m, <<>>)
      PROVE  Shown(V, more, m, <<>>)
  <2>1. \A b \in V : Covers(F(b), m) /\ Behind(F(b), m)
    BY <1>8 DEF Shown, F
  <2>2. \A b \in V : Covers(G(b), m) /\ Behind(G(b), m)
    BY <1>2, <2>1, CoversAll DEF Behind
  <2>3. ~Starts(<<>>, "parsed")
    BY DEF Starts
  <2>. QED  BY <1>8, <2>2, <2>3 DEF Shown, G
<1>. QED  BY <1>7, <1>8

(* It stays so when a snapshot of the members is added.                       *)
LEMMA SnapshotReplays ==
  ASSUME NEW b \in BaseStates, NEW m \in Memories, LoadsTo(b.memory, m),
         NEW events \in Seq(LogEvents), \A i \in DOMAIN events : events[i].id <= b.at
  PROVE  /\ From(b, events) \in Memories /\ From(b, events).games = Snapshotted(m).games
         /\ SameEarly(From(b, events), b.memory)
         /\ SameLate(From(b, events), From(Nothing, events))
<1>1. b.memory \in Memories /\ b.at \in Nat /\ SameLate(b.memory, Empty)
  BY DEF BaseStates, LoadsTo
<1>2. /\ SameEarly(Replay(b.memory, b.at, events), b.memory)
      /\ SameLate(Replay(b.memory, b.at, events), Replay(Empty, 0, events))
  BY <1>1, LateReplay, EmptyTypes
<1>3. Nothing.memory = Empty /\ Nothing.at = 0
  BY DEF Nothing
<1>. QED  BY <1>2, <1>3, FromTypes DEF From, SameEarly, LoadsTo

(* A snapshot drops of a game no more than the shallow analysis under a       *)
(* deep one.                                                                  *)
LEMMA GamesSnapshotted ==
  ASSUME NEW m \in Memories, NEW g \in Games
  PROVE  /\ m.games[g] \ {"shallow"} \subseteq Snapshotted(m).games[g]
         /\ Snapshotted(m).games[g] \subseteq m.games[g]
         /\ Snapshotted(m).games[g] = m.games[g]
              \/ "deep" \in Snapshotted(m).games[g] \cap m.games[g]
<1>1. Snapshotted(m).games[g] = IF "deep" \in m.games[g] THEN {"game", "deep"} ELSE m.games[g]
  BY DEF Snapshotted, Memories
<1>2. m.games[g] \in GameStates
  BY DEF Memories
<1>. QED  BY <1>1, <1>2 DEF GameStates

(* A new snapshot of the members becomes one more base that agrees with the   *)
(* others: it is the newest, and it keeps what is shown.                      *)
LEMMA SourcedSnapshot ==
  ASSUME NEW V \in SUBSET BaseStates, Nothing \in V, NEW events \in Seq(LogEvents),
         NEW b \in BaseStates, NEW m \in Memories, LoadsTo(b.memory, m),
         \A i \in DOMAIN events : events[i].id <= b.at,
         \A c \in V : Older(c, b) /\ ~Older(b, c),
         Sourced(V, events), Shown(V, events, m, <<>>),
         NEW rest, ~Starts(rest, "parsed")
  PROVE  Sourced(V \cup {b}, events) /\ Shown(V \cup {b}, events, m, rest)
<1>. DEFINE F(c) == From(c, events)
            x == From(b, events)
            o == From(Nothing, events)
<1>1. /\ x \in Memories /\ x.games = Snapshotted(m).games
      /\ SameEarly(x, b.memory) /\ SameLate(x, o)
  BY SnapshotReplays
<1>2. /\ x.drills = m.drills /\ x.completed = m.completed /\ x.archive = m.archive
  BY <1>1 DEF SameEarly, LoadsTo
<1>3. /\ Behind(m, m) /\ DrillsAnalysed(m)
      /\ \A c \in V : Covers(F(c), m) /\ Behind(F(c), m)
  BY DEF Shown
<1>4. /\ \A c, d \in V : Behind(F(c), F(d)) /\ SameLate(F(c), F(d))
      /\ \A c, d \in V : Older(c, d) => Covers(F(c), F(d))
      /\ \A c \in V : DrillsAnalysed(F(c))
  BY DEF Sourced
<1>5. \A g \in Games : /\ m.games[g] \ {"shallow"} \subseteq x.games[g]
                       /\ x.games[g] \subseteq m.games[g]
                       /\ "deep" \in x.games[g] <=> "deep" \in m.games[g]
                       /\ "game" \in x.games[g] <=> "game" \in m.games[g]
  BY <1>1, GamesSnapshotted
<1>6. o = F(Nothing)
  OBVIOUS
<1>. HIDE DEF F, x, o
<1>7. x.lines = o.lines /\ x.reviews = o.reviews /\ x.next.review = o.next.review
  BY <1>1 DEF SameLate
<1>8. \A g \in Games : Depends(x, g) => Depends(m, g) \/ Depends(o, g)
  BY <1>2, <1>5, <1>7 DEF Depends
<1>9. \A c \in V : SameLate(x, F(c)) /\ SameLate(F(c), x)
  BY <1>4, <1>6, <1>7 DEF SameLate
<1>10. Behind(x, m) /\ Behind(x, x)
  BY <1>3, <1>5, <1>6, <1>8 DEF Behind
<1>11. \A c \in V : Behind(F(c), x)
  BY <1>3, <1>5 DEF Behind
<1>12. \A c \in V : Behind(x, F(c))
  <2>1. \A c \in V, g \in Games : "game" \in m.games[g] => "game" \in F(c).games[g]
    BY <1>3 DEF Covers, CoversGames
  <2>. QED  BY <1>10, <2>1 DEF Behind
<1>13. \A c \in V : Covers(F(c), x)
  <2>. SUFFICES ASSUME NEW c \in V  PROVE  Covers(F(c), x)
    OBVIOUS
  <2>1. Covers(F(c), m) /\ F(c).reviews = x.reviews
    BY <1>3, <1>9 DEF SameLate
  <2>2. CoversGames(F(c), x)
    BY <1>5, <2>1 DEF Covers, CoversGames
  <2>3. CoversDrills(F(c), x)
    BY <1>2, <2>1 DEF Covers, CoversDrills
  <2>4. CoversSets(F(c), x)
    BY <1>2, <2>1 DEF Covers, CoversSets
  <2>. QED  BY <2>2, <2>3, <2>4 DEF Covers
<1>14. Covers(x, m)
  <2>1. m.reviews \subseteq x.reviews
    BY <1>3, <1>6, <1>7 DEF Covers, CoversSets
  <2>. QED  BY <1>2, <1>5, <2>1 DEF Covers, CoversGames, CoversDrills, CoversSets
<1>15. DrillsAnalysed(x)
  BY <1>2, <1>3, <1>5 DEF DrillsAnalysed
<1>16. SameLate(x, x)
  BY DEF SameLate
<1>17. \A c \in V \cup {b} : From(c, events) = IF c \in V THEN F(c) ELSE x
  BY DEF F, x
<1>18. b \notin V
  BY DEF Older, BaseStates
<1>19. Sourced(V \cup {b}, events)
  <2>1. \A c, d \in V \cup {b} : /\ Behind(From(c, events), From(d, events))
                                 /\ SameLate(From(c, events), From(d, events))
    BY <1>4, <1>9, <1>10, <1>11, <1>12, <1>16, <1>17, Zenon
  <2>2. \A c, d \in V \cup {b} : Older(c, d) => Covers(From(c, events), From(d, events))
    <3>. SUFFICES ASSUME NEW c \in V \cup {b}, NEW d \in V \cup {b}, Older(c, d)
                  PROVE  Covers(From(c, events), From(d, events))
      OBVIOUS
    <3>1. CASE c \in V /\ d \in V
      BY <1>4, <1>17, <3>1
    <3>2. CASE c \in V /\ d = b
      BY <1>13, <1>17, <1>18, <3>2
    <3>3. CASE c = b /\ d = b
      BY CoversAll, <3>3
    <3>. QED  BY <3>1, <3>2, <3>3
  <2>3. \A c \in V \cup {b} : DrillsAnalysed(From(c, events))
    BY <1>4, <1>15, <1>17, Zenon
  <2>. QED  BY <2>1, <2>2, <2>3 DEF Sourced
<1>20. Shown(V \cup {b}, events, m, rest)
  <2>1. \A c \in V \cup {b} : /\ Covers(From(c, events), m) /\ Behind(From(c, events), m)
    BY <1>3, <1>10, <1>14, <1>17, Zenon
  <2>. QED  BY <1>3, <2>1 DEF Shown
<1>. QED  BY <1>19, <1>20

-----------------------------------------------------------------------------
(* What the bases and the members have in common as long as no event was      *)
(* written whose append failed, and none was counted as applied that was not: *)
(* all bases show the same, which is what the members hold, and each attempt  *)
(* has an id of its own, below the next one.                                  *)

Distinct(x) ==
  \A d, c \in Drills : \A i \in DOMAIN x.drills[d].attempts, j \in DOMAIN x.drills[c].attempts :
    x.drills[d].attempts[i].id = x.drills[c].attempts[j].id => d = c /\ i = j
Numbered(x) ==
  /\ LastOf(x.next.attempt, IdsOf(x)) /\ LastOf(x.next.batch, x.batches)
  /\ Distinct(x)
Settled(V, events) ==
  /\ \A b \in V : Alike(From(b, events), From(Nothing, events))
  /\ Numbered(From(Nothing, events))

(* The ids that were given lead those in the log by that of the call.         *)
Leads(x, m, todo) ==
  /\ x.next.attempt + Pos(todo, "attempt") <= m.next.attempt
  /\ x.next.batch + Pos(todo, "batch") <= m.next.batch
  /\ x.next.review + Pos(todo, "review") <= m.next.review
LeadsByCall(x, m, todo) ==
  /\ x.next.attempt + Pos(todo, "attempt") = m.next.attempt
  /\ x.next.batch + Pos(todo, "batch") = m.next.batch
  /\ x.next.review + Pos(todo, "review") = m.next.review

(* The stored games, with the one that is about to be.                        *)
Ahead(m, todo) ==
  [g \in Games |-> IF Starts(todo, "parsed") /\ todo[1].of = g THEN {"game"} ELSE m.games[g]]
Abreast(x, m, todo) ==
  \A g \in Games : \/ x.games[g] = Ahead(m, todo)[g]
                   \/ "deep" \in x.games[g] \cap Ahead(m, todo)[g]

(* The ids of attempts depend on the attempts only.                           *)
LEMMA SameAttempts ==
  ASSUME NEW x, NEW r, \A d \in Drills : r.drills[d].attempts = x.drills[d].attempts
  PROVE  IdsOf(r) = IdsOf(x) /\ (Distinct(x) => Distinct(r))
BY DEF IdsOf, Distinct

(* An event leaves the attempts numbered.                                     *)
LEMMA NumberedAfter ==
  ASSUME NEW x \in Memories, NEW e \in LogEvents, Numbered(x),
         e.kind = "drill" => x.drills[e.of] = NoDrill,
         e.kind = "attempt" => x.drills[e.of].made /\ x.next.attempt <= e.val.id
  PROVE  Numbered(Replayed(x, e))
<1>. DEFINE r == Replayed(x, e)
<1>1. ReplaysTo(r, x, e)
  BY ReplayedFields
<1>2. Typed(e)
  BY DEF LogEvents
<1>. HIDE DEF r
<1>3. /\ x.next.attempt \in Nat /\ x.next.batch \in Nat
      /\ IdsOf(x) \in SUBSET Nat /\ x.batches \in SUBSET Nat
  BY IdsAreNumbers
<1>4. LastOf(r.next.batch, r.batches)
  <2>1. CASE e.kind = "batch"
    <3>1. r.batches = x.batches \cup {e.of} /\ r.next.batch = Larger(x.next.batch, e.of + 1)
          /\ e.of \in Nat
      BY <1>1, <1>2, <2>1 DEF ReplaysTo, SetsTo, NextTo, Typed
    <3>2. LastOf(x.next.batch, x.batches)
      BY DEF Numbered
    <3>. QED  BY <1>3, <3>1, <3>2 DEF LastOf, Larger
  <2>2. CASE e.kind # "batch"
    <3>1. r.batches = x.batches /\ r.next.batch = x.next.batch
      BY <1>1, <2>2 DEF ReplaysTo, SetsTo, NextTo
    <3>. QED  BY <3>1 DEF Numbered
  <2>. QED  BY <2>1, <2>2
<1>5. r.drills = DrillsAfter(x.drills, e) /\ x.drills \in [Drills -> DrillStates]
  BY <1>1 DEF ReplaysTo, EntriesTo, Memories
<1>6. CASE e.kind # "attempt"
  <2>1. r.next.attempt = x.next.attempt
    BY <1>1, <1>6 DEF ReplaysTo, NextTo
  <2>2. ASSUME NEW d \in Drills  PROVE  r.drills[d].attempts = x.drills[d].attempts
    <3>1. r.drills[d] = x.drills[d] \/ (e.of = d /\ r.drills[d] = DrillAfter(x.drills[d], e))
      BY <1>5 DEF DrillsAfter
    <3>2. e.of = d => DrillAfter(x.drills[d], e).attempts = x.drills[d].attempts
      <4>1. CASE e.kind = "drill"
        BY <4>1 DEF DrillAfter, NewDrill, NoDrill
      <4>2. CASE e.kind # "drill"
        <5>1. x.drills[d] \in [made : BOOLEAN, attempts : Seq(Attempts), hint : 0..3, started : Nat]
          BY <1>5 DEF DrillStates
        <5>. QED  BY <1>6, <4>2, <5>1 DEF DrillAfter
      <4>. QED  BY <4>1, <4>2
    <3>. QED  BY <3>1, <3>2
  <2>3. IdsOf(r) = IdsOf(x) /\ Distinct(r)
    BY <2>2, SameAttempts DEF Numbered
  <2>. QED  BY <1>4, <2>1, <2>3 DEF Numbered, r
<1>7. CASE e.kind = "attempt"
  <2>. DEFINE a == e.val.id
              new == Append(x.drills[e.of].attempts, e.val)
  <2>1. /\ e.of \in Drills /\ e.val \in Attempts /\ a \in Nat
        /\ x.drills[e.of].made /\ x.next.attempt <= a
    BY <1>2, <1>7 DEF Typed, Attempts
  <2>2. /\ x.drills[e.of] \in [made : BOOLEAN, attempts : Seq(Attempts), hint : 0..3, started : Nat]
        /\ \A d \in Drills : x.drills[d].attempts \in Seq(Attempts)
    BY <1>5, <2>1 DEF DrillStates
  <2>3. DrillAfter(x.drills[e.of], e).attempts = new
    BY <1>7, <2>1, <2>2 DEF DrillAfter
  <2>4. \A d \in Drills : r.drills[d].attempts = IF d = e.of THEN new ELSE x.drills[d].attempts
    BY <1>5, <1>7, <2>1, <2>3 DEF DrillsAfter
  <2>5. r.next.attempt = a + 1
    <3>1. r.next.attempt = Larger(x.next.attempt, a + 1)
      BY <1>1, <1>7, <2>1 DEF ReplaysTo, NextTo
    <3>. QED  BY <1>3, <2>1, <3>1 DEF Larger
  <2>6. \A i \in IdsOf(x) : i < a
    <3>1. \A i \in IdsOf(x) : i < x.next.attempt
      BY DEF Numbered, LastOf
    <3>. QED  BY <1>3, <2>1, <3>1
  <2>7. /\ new \in Seq(Attempts) /\ DOMAIN new = DOMAIN x.drills[e.of].attempts \cup {Len(new)}
        /\ new[Len(new)] = e.val
        /\ \A i \in DOMAIN x.drills[e.of].attempts :
             i # Len(new) /\ new[i] = x.drills[e.of].attempts[i]
    <3>. DEFINE s == x.drills[e.of].attempts
    <3>1. s \in Seq(Attempts) /\ e.val \in Attempts
      BY <2>1, <2>2
    <3>. HIDE DEF s
    <3>2. \A v \in Attempts :
            LET t == Append(s, v)
            IN /\ t \in Seq(Attempts) /\ DOMAIN t = DOMAIN s \cup {Len(t)}
               /\ t[Len(t)] = v
               /\ \A i \in DOMAIN s : i # Len(t) /\ t[i] = s[i]
      BY <3>1
    <3>. QED  BY <3>1, <3>2 DEF s
  <2>. HIDE DEF new, a
  <2>8. \A d \in Drills : \A i \in DOMAIN x.drills[d].attempts :
          x.drills[d].attempts[i].id \in IdsOf(x)
    BY DEF IdsOf, Range
  <2>9. \A d \in Drills : \A i \in DOMAIN r.drills[d].attempts :
          \/ /\ i \in DOMAIN x.drills[d].attempts
             /\ r.drills[d].attempts[i] = x.drills[d].attempts[i]
             /\ d = e.of => i # Len(new)
          \/ d = e.of /\ i = Len(new) /\ r.drills[d].attempts[i].id = a
    BY <2>4, <2>7 DEF a
  <2>10. \A i \in IdsOf(x) : i # a
    BY <1>3, <2>1, <2>6
  <2>11. Distinct(r)
    <3>1. Distinct(x)
      BY DEF Numbered
    <3>. SUFFICES ASSUME NEW d \in Drills, NEW c \in Drills,
                         NEW i \in DOMAIN r.drills[d].attempts,
                         NEW j \in DOMAIN r.drills[c].attempts,
                         r.drills[d].attempts[i].id = r.drills[c].attempts[j].id
                  PROVE  d = c /\ i = j
      BY DEF Distinct
    <3>2. CASE /\ i \in DOMAIN x.drills[d].attempts
               /\ r.drills[d].attempts[i] = x.drills[d].attempts[i]
      <4>1. r.drills[d].attempts[i].id \in IdsOf(x)
        BY <2>8, <3>2
      <4>2. /\ j \in DOMAIN x.drills[c].attempts
            /\ r.drills[c].attempts[j] = x.drills[c].attempts[j]
        BY <2>9, <2>10, <4>1
      <4>. QED  BY <3>1, <3>2, <4>2 DEF Distinct
    <3>3. CASE d = e.of /\ i = Len(new) /\ r.drills[d].attempts[i].id = a
      <4>1. CASE c = e.of /\ j = Len(new)
        BY <3>3, <4>1
      <4>2. CASE /\ j \in DOMAIN x.drills[c].attempts
                 /\ r.drills[c].attempts[j] = x.drills[c].attempts[j]
        <5>1. r.drills[c].attempts[j].id \in IdsOf(x)
          BY <2>8, <4>2
        <5>. QED  BY <2>10, <3>3, <5>1
      <4>. QED  BY <2>9, <4>1, <4>2
    <3>. QED  BY <2>9, <3>2, <3>3
  <2>12. a \in IdsOf(r)
    <3>1. Len(new) \in DOMAIN r.drills[e.of].attempts
          /\ r.drills[e.of].attempts[Len(new)] = e.val
      BY <2>1, <2>4, <2>7
    <3>. QED  BY <2>1, <3>1 DEF IdsOf, Range, a
  <2>13. \A i \in IdsOf(r) : i \in IdsOf(x) \/ i = a
    <3>. SUFFICES ASSUME NEW k \in IdsOf(r)  PROVE  k \in IdsOf(x) \/ k = a
      OBVIOUS
    <3>1. PICK d \in Drills : \E i \in DOMAIN r.drills[d].attempts :
                                k = r.drills[d].attempts[i].id
      BY DEF IdsOf, Range
    <3>. QED  BY <2>8, <2>9, <3>1
  <2>14. LastOf(a + 1, IdsOf(r))
    <3>1. \A i \in IdsOf(r) : i < a + 1
      BY <1>3, <2>1, <2>6, <2>13
    <3>2. (a + 1) - 1 = a
      BY <2>1
    <3>. QED  BY <2>12, <3>1, <3>2 DEF LastOf
  <2>. QED  BY <1>4, <2>5, <2>11, <2>14 DEF Numbered, r
<1>. QED  BY <1>6, <1>7

(* The bases settle again after the event of a call...                        *)
LEMMA SettledAppend ==
  ASSUME NEW V \in SUBSET BaseStates, Nothing \in V, NEW events \in Seq(LogEvents),
         NEW e \in LogEvents, \A b \in V : b.at < e.id, Settled(V, events),
         e.kind = "drill" => From(Nothing, events).drills[e.of] = NoDrill,
         e.kind = "attempt" => /\ From(Nothing, events).drills[e.of].made
                               /\ From(Nothing, events).next.attempt <= e.val.id
  PROVE  Settled(V, Append(events, e))
<1>. DEFINE F(b) == From(b, events)
            G(b) == From(b, Append(events, e))
<1>1. \A b \in V : F(b) \in Memories /\ G(b) = Replayed(F(b), e)
  BY FromTypes, FromAppend
<1>2. Numbered(F(Nothing)) /\ \A b \in V : Alike(F(b), F(Nothing))
  BY DEF Settled
<1>3. Numbered(Replayed(F(Nothing), e))
  BY <1>1, <1>2, NumberedAfter
<1>4. ASSUME NEW b \in V  PROVE  Alike(G(b), G(Nothing))
  <2>. DEFINE x == F(b)
              y == F(Nothing)
              u == Replayed(x, e)
              v == Replayed(y, e)
  <2>1. x \in Memories /\ y \in Memories /\ ReplaysTo(u, x, e) /\ ReplaysTo(v, y, e)
    BY <1>1, ReplayedFields
  <2>2. Alike(x, y) /\ G(b) = u /\ G(Nothing) = v
    BY <1>1, <1>2
  <2>. HIDE DEF x, y, u, v, G
  <2>3. SameGames(x, y) /\ SameRest(x, y) /\ SameEntries(x, y) /\ SameNext(x, y)
    BY <2>2 DEF Alike, SameRest
  <2>4. SameGames(u, v) /\ SameRest(u, v) /\ SameNext(u, v)
    BY <2>1, <2>3, SameAfter
  <2>. QED  BY <2>2, <2>4 DEF Alike
<1>5. Numbered(G(Nothing))
  BY <1>1, <1>3
<1>. QED  BY <1>4, <1>5 DEF Settled

(* ...which the members hold as well.                                         *)
LEMMA HeldAfter ==
  ASSUME NEW x \in Memories, NEW m \in Memories, NEW e \in LogEvents, SameRest(x, m)
  PROVE  SameRest(Replayed(x, e), Applied(m, e))
<1>. DEFINE u == Replayed(x, e)
            w == Replayed(m, e)
            v == Applied(m, e)
<1>1. ReplaysTo(u, x, e) /\ ReplaysTo(w, m, e) /\ AppliesTo(v, m, e)
  BY ReplayedFields, AppliedFields
<1>. HIDE DEF u, w, v
<1>2. SameRest(u, w)
  BY <1>1, SameAfter
<1>3. SameSets(w, v)
  BY <1>1 DEF ReplaysTo, AppliesTo, SetsTo, SameSets
<1>4. SameValues(w, v)
  BY <1>1 DEF ReplaysTo, AppliesTo, ValuesTo, SameValues
<1>5. SameEntries(w, v)
  BY <1>1 DEF ReplaysTo, AppliesTo, EntriesTo, SameEntries
<1>6. SameRest(u, v)
  BY <1>2, <1>3, <1>4, <1>5 DEF SameRest, SameSets, SameValues, SameEntries
<1>. QED  BY <1>6 DEF u, v

(* The events that are left take no ids.                                      *)
LEMMA RestTakesNone ==
  ASSUME NEW todo \in Seq(PlainEvents), todo # <<>>, NEW m \in Memories, Planned(m, todo)
  PROVE  /\ \A kind \in First : Pos(Tail(todo), kind) = 0
         /\ \A kind : Pos(<<>>, kind) = 0 /\ ~Starts(<<>>, kind)
         /\ ~Starts(Tail(todo), "snapshot")
<1>1. \A i \in DOMAIN Tail(todo) : Tail(todo)[i].kind \notin First
  BY PlannedAfter
<1>2. Tail(todo) # <<>> => 1 \in DOMAIN Tail(todo)
  BY TodoSplits
<1>3. \A kind \in First : ~Starts(Tail(todo), kind)
  BY <1>1, <1>2 DEF Starts
<1>4. "snapshot" \in First
  BY DEF First
<1>. QED  BY <1>3, <1>4 DEF Pos, Starts

(* Appending the next event of a call moves the ids of the log up to those    *)
(* that were given, by one id of one kind.                                    *)
LEMMA LeadsAfter ==
  ASSUME NEW x \in Memories, NEW m \in Memories, SameRest(x, m),
         NEW todo \in Seq(PlainEvents), todo # <<>>, Planned(m, todo), Leads(x, m, todo),
         NEW n \in Nat \ {0}
  PROVE  LET e == Stamped(todo[1], n)
         IN /\ Leads(Replayed(x, e), Applied(m, e), Tail(todo))
            /\ LeadsByCall(x, m, todo) =>
                 LeadsByCall(Replayed(x, e), Applied(m, e), Tail(todo))
            /\ e.kind = "attempt" => x.drills[e.of].made /\ x.next.attempt <= e.val.id
            /\ e.kind = "drill" => x.drills[e.of] = NoDrill
<1>. DEFINE e == Stamped(todo[1], n)
            u == Replayed(x, e)
            v == Applied(m, e)
<1>1. /\ todo[1] \in PlainEvents /\ 1 \in DOMAIN todo
      /\ e \in LogEvents /\ e.kind = todo[1].kind /\ e.of = todo[1].of /\ e.val = todo[1].val
  BY TodoSplits, StampedTypes
<1>. HIDE DEF e
<1>2. NextTo(u, x, e) /\ NextTo(v, m, e)
  BY <1>1, ReplayedFields, AppliedFields DEF ReplaysTo, AppliesTo
<1>. HIDE DEF u, v
<1>3. PlannedEvent(m, e)
  <2>1. PlannedEvent(m, todo[1])
    BY <1>1 DEF Planned
  <2>. QED  BY <1>1, <2>1 DEF PlannedEvent
<1>4. x.drills = m.drills
  BY DEF SameRest, SameEntries
<1>5. /\ x.next.attempt \in Nat /\ x.next.batch \in Nat /\ x.next.review \in Nat
      /\ m.next.attempt \in Nat /\ m.next.batch \in Nat /\ m.next.review \in Nat
  BY IdsAreNumbers
<1>6. \A kind : Pos(todo, kind) = IF e.kind = kind THEN 1 ELSE 0
  BY <1>1 DEF Pos, Starts
<1>7. /\ Pos(Tail(todo), "attempt") = 0 /\ Pos(Tail(todo), "batch") = 0
      /\ Pos(Tail(todo), "review") = 0
  BY RestTakesNone DEF First
<1>8. e.kind = "attempt" =>
        /\ e.val.id \in Nat /\ m.drills[e.of].made /\ e.val.id + 1 = m.next.attempt
  BY <1>1, <1>3 DEF PlannedEvent, LogEvents, Typed, Attempts
<1>9. /\ e.kind = "batch" => e.of \in Nat /\ e.of + 1 = m.next.batch
      /\ e.kind = "review" => e.of \in Nat /\ e.of + 1 = m.next.review
  BY <1>1, <1>3 DEF PlannedEvent, LogEvents, Typed
<1>10. /\ e.kind = "attempt" => x.next.attempt <= e.val.id
       /\ u.next.attempt <= v.next.attempt
       /\ LeadsByCall(x, m, todo) => u.next.attempt = v.next.attempt
  <2>1. CASE e.kind = "attempt"
    <3>1. x.next.attempt + 1 <= m.next.attempt
      BY <1>6, <2>1 DEF Leads
    <3>2. /\ u.next.attempt = Larger(x.next.attempt, e.val.id + 1)
          /\ v.next.attempt = Larger(m.next.attempt, e.val.id + 1)
      BY <1>2, <1>4, <1>8, <2>1 DEF NextTo
    <3>. QED  BY <1>5, <1>8, <2>1, <3>1, <3>2 DEF Larger
  <2>2. CASE e.kind # "attempt"
    <3>1. u.next.attempt = x.next.attempt /\ v.next.attempt = m.next.attempt
      BY <1>2, <2>2 DEF NextTo
    <3>. QED  BY <1>5, <1>6, <2>2, <3>1 DEF Leads, LeadsByCall
  <2>. QED  BY <2>1, <2>2
<1>11. /\ u.next.batch <= v.next.batch
       /\ LeadsByCall(x, m, todo) => u.next.batch = v.next.batch
  <2>1. CASE e.kind = "batch"
    <3>1. x.next.batch + 1 <= m.next.batch
      BY <1>6, <2>1 DEF Leads
    <3>2. /\ u.next.batch = Larger(x.next.batch, e.of + 1)
          /\ v.next.batch = Larger(m.next.batch, e.of + 1)
      BY <1>2, <2>1 DEF NextTo
    <3>. QED  BY <1>5, <1>9, <2>1, <3>1, <3>2 DEF Larger
  <2>2. CASE e.kind # "batch"
    <3>1. u.next.batch = x.next.batch /\ v.next.batch = m.next.batch
      BY <1>2, <2>2 DEF NextTo
    <3>. QED  BY <1>5, <1>6, <2>2, <3>1 DEF Leads, LeadsByCall
  <2>. QED  BY <2>1, <2>2
<1>12. /\ u.next.review <= v.next.review
       /\ LeadsByCall(x, m, todo) => u.next.review = v.next.review
  <2>1. CASE e.kind = "review"
    <3>1. x.next.review + 1 <= m.next.review
      BY <1>6, <2>1 DEF Leads
    <3>2. /\ u.next.review = Larger(x.next.review, e.of + 1)
          /\ v.next.review = Larger(m.next.review, e.of + 1)
      BY <1>2, <2>1 DEF NextTo
    <3>. QED  BY <1>5, <1>9, <2>1, <3>1, <3>2 DEF Larger
  <2>2. CASE e.kind # "review"
    <3>1. u.next.review = x.next.review /\ v.next.review = m.next.review
      BY <1>2, <2>2 DEF NextTo
    <3>. QED  BY <1>5, <1>6, <2>2, <3>1 DEF Leads, LeadsByCall
  <2>. QED  BY <2>1, <2>2
<1>13. u \in Memories /\ v \in Memories
  BY <1>1, ReplayedFields, AppliedFields DEF ReplaysTo, AppliesTo, u, v
<1>14. /\ u.next.attempt + 0 = u.next.attempt /\ u.next.batch + 0 = u.next.batch
       /\ u.next.review + 0 = u.next.review
  BY <1>13, IdsAreNumbers
<1>15. Leads(u, v, Tail(todo)) /\ (LeadsByCall(x, m, todo) => LeadsByCall(u, v, Tail(todo)))
  BY <1>7, <1>10, <1>11, <1>12, <1>14 DEF Leads, LeadsByCall
<1>16. /\ e.kind = "attempt" => x.drills[e.of].made /\ x.next.attempt <= e.val.id
       /\ e.kind = "drill" => x.drills[e.of] = NoDrill
  BY <1>3, <1>4, <1>8, <1>10 DEF PlannedEvent
<1>. QED  BY <1>15, <1>16 DEF u, v, e

(* The stored games, those about to be included, are those of the log.        *)
LEMMA AbreastAfter ==
  ASSUME NEW x \in Memories, NEW m \in Memories,
         NEW todo \in Seq(PlainEvents), todo # <<>>, Planned(m, todo), NEW n \in Nat \ {0},
         Abreast(x, m, todo)
  PROVE  Abreast(Replayed(x, Stamped(todo[1], n)), Applied(m, Stamped(todo[1], n)), Tail(todo))
<1>. DEFINE e == Stamped(todo[1], n)
            u == Replayed(x, e)
            v == Applied(m, e)
            rest == Tail(todo)
<1>1. /\ todo[1] \in PlainEvents /\ 1 \in DOMAIN todo
      /\ e \in LogEvents /\ e.kind = todo[1].kind /\ e.of = todo[1].of /\ e.val = todo[1].val
  BY TodoSplits, StampedTypes
<1>2. /\ Starts(rest, "parsed") => e.kind = "imported" /\ rest[1].of = e.of
      /\ e.kind = "imported" => Starts(rest, "parsed") /\ rest[1].of = e.of
  BY <1>1, PlannedAfter
<1>. HIDE DEF e
<1>3. ReplaysTo(u, x, e) /\ AppliesTo(v, m, e)
  BY <1>1, ReplayedFields, AppliedFields
<1>. HIDE DEF u, v, rest
<1>4. PlannedEvent(m, e)
  <2>1. PlannedEvent(m, todo[1])
    BY <1>1 DEF Planned
  <2>. QED  BY <1>1, <2>1 DEF PlannedEvent
<1>5. /\ x.games \in [Games -> GameStates] /\ m.games \in [Games -> GameStates]
      /\ v.games \in [Games -> GameStates]
      /\ e.kind \in GameKinds => e.of \in Games
  BY <1>1, <1>3 DEF Memories, LogEvents, Typed, AppliesTo
<1>6. u.games = GamesAfter(x.games, e) /\ v.games = GamesApplied(m.games, e)
  BY <1>3 DEF ReplaysTo, EntriesTo, AppliesTo
<1>7. \A g \in Games :
        /\ Ahead(m, todo)[g] = IF e.kind = "parsed" /\ e.of = g THEN {"game"} ELSE m.games[g]
        /\ Ahead(v, rest)[g] = IF e.kind = "imported" /\ e.of = g THEN {"game"} ELSE v.games[g]
  BY <1>1, <1>2 DEF Ahead, Starts
<1>. SUFFICES ASSUME NEW g \in Games
              PROVE  \/ u.games[g] = Ahead(v, rest)[g]
                     \/ "deep" \in u.games[g] \cap Ahead(v, rest)[g]
  BY DEF Abreast, u, v, rest, e
<1>8. x.games[g] = Ahead(m, todo)[g] \/ "deep" \in x.games[g] \cap Ahead(m, todo)[g]
  BY DEF Abreast
<1>9. CASE e.kind = "imported"
  BY <1>5, <1>6, <1>7, <1>8, <1>9 DEF GamesAfter, GamesApplied, GameKinds
<1>10. CASE e.kind = "parsed"
  BY <1>5, <1>6, <1>7, <1>8, <1>10 DEF GamesAfter, GamesApplied, GameKinds
<1>11. CASE e.kind = "analysed"
  <2>1. "game" \in m.games[e.of] /\ e.of \in Games
    BY <1>4, <1>5, <1>11 DEF PlannedEvent, GameKinds
  <2>2. v.games = [m.games EXCEPT ![e.of] = {"game", "deep"}]
    BY <1>6, <1>11 DEF GamesApplied
  <2>3. g = e.of => x.games[g] # {}
    BY <1>7, <1>8, <1>11, <2>1
  <2>4. g = e.of => u.games[g] = x.games[g] \cup {"deep"}
    BY <1>5, <1>6, <1>11, <2>1, <2>3 DEF GamesAfter
  <2>5. g # e.of => u.games[g] = x.games[g]
    BY <1>5, <1>6, <1>11, <2>1 DEF GamesAfter
  <2>. QED  BY <1>5, <1>7, <1>8, <1>11, <2>2, <2>4, <2>5
<1>12. CASE e.kind \notin {"imported", "parsed", "analysed"}
  <2>. DEFINE w == Replayed(m, e)
  <2>1. ReplaysTo(w, m, e)
    BY <1>1, ReplayedFields
  <2>. HIDE DEF w
  <2>2. w.games = v.games
    BY <1>6, <1>12, <2>1 DEF ReplaysTo, EntriesTo, GamesApplied
  <2>3. SameGames(x, m)
    <3>1. \A h \in Games : Ahead(m, todo)[h] = m.games[h]
      BY <1>7, <1>12
    <3>. QED  BY <3>1 DEF SameGames, Abreast
  <2>4. SameGames(u, w)
    BY <1>1, <1>3, <2>1, <2>3, SameAfter
  <2>. QED  BY <1>7, <1>12, <2>2, <2>4 DEF SameGames
<1>. QED  BY <1>9, <1>10, <1>11, <1>12

(* The event that is noted, and those that are.                               *)
NotedStates == [at : Nat, whole : BOOLEAN]
InStep(n, todo, last) == n.whole /\ n.at + Pos(todo, "parsed") = last

(* Noting an id: whole only as long as each follows the last.                 *)
LEMMA NotingIs ==
  ASSUME NEW n \in NotedStates, NEW id \in Nat
  PROVE  /\ Noting(n, id) \in NotedStates
         /\ Noting(n, id).whole = (n.whole /\ id = n.at + 1)
         /\ Noting(n, id).at = IF n.whole /\ id = n.at + 1 THEN id ELSE n.at
BY DEF Noting, NotedStates

(* The event that is appended next is noted after the last, and all are       *)
(* noted as long as none was missed.                                          *)
LEMMA NotedAfter ==
  ASSUME NEW n \in NotedStates, NEW id \in Nat \ {0}, n.at < id,
         NEW m \in Memories, NEW todo \in Seq(PlainEvents), todo # <<>>, Planned(m, todo)
  PROVE  LET k == Noted(n, Stamped(todo[1], id))
         IN /\ k \in NotedStates /\ k.at <= id
            /\ Starts(Tail(todo), "parsed") => k.at < id
            /\ InStep(k, Tail(todo), id) <=> InStep(n, todo, id - 1)
<1>. DEFINE e == Stamped(todo[1], id)
            k == Noted(n, e)
<1>1. /\ todo[1] \in PlainEvents /\ e.kind = todo[1].kind /\ e.of = todo[1].of /\ e.id = id
  BY TodoSplits, StampedTypes
<1>2. Starts(Tail(todo), "parsed") <=> e.kind = "imported"
  BY <1>1, PlannedAfter
<1>3. Starts(todo, "parsed") <=> e.kind = "parsed"
  BY <1>1 DEF Starts
<1>4. n.at \in Nat /\ n.whole \in BOOLEAN
  BY DEF NotedStates
<1>. HIDE DEF e
<1>5. CASE e.kind = "imported"
  <2>1. k = n
    BY <1>5 DEF Noted
  <2>2. Pos(Tail(todo), "parsed") = 1 /\ Pos(todo, "parsed") = 0
    BY <1>2, <1>3, <1>5 DEF Pos
  <2>. QED  BY <1>4, <2>1, <2>2 DEF InStep, e
<1>6. CASE e.kind = "parsed"
  <2>0. PICK h \in Nat : h = id - 1
    OBVIOUS
  <2>. DEFINE j == Noting(n, h)
  <2>1. k = Noting(j, id)
    BY <1>1, <1>6, <2>0 DEF Noted
  <2>2. /\ j \in NotedStates /\ j.whole = (n.whole /\ h = n.at + 1)
        /\ j.at = IF n.whole /\ h = n.at + 1 THEN h ELSE n.at
    BY NotingIs
  <2>. HIDE DEF j
  <2>3. /\ Noting(j, id) \in NotedStates /\ Noting(j, id).whole = (j.whole /\ id = j.at + 1)
        /\ Noting(j, id).at = IF j.whole /\ id = j.at + 1 THEN id ELSE j.at
    BY <2>2, NotingIs
  <2>4. Pos(Tail(todo), "parsed") = 0 /\ Pos(todo, "parsed") = 1
    BY <1>2, <1>3, <1>6 DEF Pos
  <2>5. j.at \in Nat /\ id = h + 1 /\ id - 1 = h
    BY <2>0, <2>2 DEF NotedStates
  <2>. HIDE DEF k
  <2>6. k.at <= id /\ k.at \in Nat
    BY <1>4, <2>1, <2>2, <2>3, <2>5
  <2>7. CASE n.whole /\ h = n.at + 1
    <3>1. k.whole /\ k.at = id
      BY <2>1, <2>2, <2>3, <2>5, <2>7
    <3>2. k.at + 0 = id
      BY <2>6, <3>1
    <3>. QED  BY <1>2, <1>6, <2>1, <2>3, <2>4, <2>5, <2>6, <2>7, <3>1, <3>2
              DEF InStep, k, e
  <2>8. CASE ~(n.whole /\ h = n.at + 1)
    <3>1. ~k.whole
      BY <2>1, <2>2, <2>3, <2>8
    <3>2. ~(n.whole /\ n.at + 1 = id - 1)
      BY <2>5, <2>8
    <3>. QED  BY <1>2, <1>6, <2>1, <2>3, <2>4, <2>6, <3>1, <3>2 DEF InStep, k, e
  <2>. QED  BY <2>7, <2>8
<1>7. CASE e.kind \notin {"imported", "parsed"}
  <2>1. k = Noting(n, id)
    BY <1>1, <1>7 DEF Noted
  <2>2. /\ k \in NotedStates /\ k.whole = (n.whole /\ id = n.at + 1)
        /\ k.at = IF n.whole /\ id = n.at + 1 THEN id ELSE n.at
    BY <2>1, NotingIs
  <2>. HIDE DEF k
  <2>3. Pos(Tail(todo), "parsed") = 0 /\ Pos(todo, "parsed") = 0
    BY <1>2, <1>3, <1>7 DEF Pos
  <2>4. ~Starts(Tail(todo), "parsed")
    BY <1>2, <1>7
  <2>5. k.at \in Nat
    BY <2>2 DEF NotedStates
  <2>6. k.at <= id
    BY <1>4, <2>2
  <2>7. k.whole /\ k.at + 0 = id <=> n.whole /\ n.at + 0 = id - 1
    BY <1>4, <2>2, <2>5
  <2>. QED  BY <2>2, <2>3, <2>4, <2>6, <2>7 DEF InStep, k, e
<1>. QED  BY <1>5, <1>6, <1>7

(* What showing the same is.                                                  *)
LEMMA AlikeAll ==
  ASSUME NEW x, NEW y, NEW z, Alike(x, y)
  PROVE  /\ Alike(y, x)
         /\ Alike(y, z) => Alike(x, z)
<1>1. SameGames(x, y) /\ SameRest(x, y) /\ SameNext(x, y)
  BY DEF Alike
<1>2. SameGames(y, x) /\ (SameGames(y, z) => SameGames(x, z))
  BY <1>1 DEF SameGames
<1>3. SameRest(y, x) /\ (SameRest(y, z) => SameRest(x, z))
  BY <1>1 DEF SameRest, SameSets, SameValues, SameEntries
<1>4. SameNext(y, x) /\ (SameNext(y, z) => SameNext(x, z))
  BY <1>1 DEF SameNext
<1>. QED  BY <1>2, <1>3, <1>4 DEF Alike

(* Of what is alike, one is numbered when the other is.                       *)
LEMMA AlikeNumbered ==
  ASSUME NEW x, NEW y, Alike(x, y), Numbered(y)
  PROVE  Numbered(x)
<1>1. x.drills = y.drills /\ x.batches = y.batches
      /\ x.next.attempt = y.next.attempt /\ x.next.batch = y.next.batch
  BY DEF Alike, SameRest, SameSets, SameEntries, SameNext
<1>2. IdsOf(x) = IdsOf(y) /\ Distinct(x)
  BY <1>1 DEF Numbered, IdsOf, Distinct
<1>. QED  BY <1>1, <1>2 DEF Numbered

(* A log that shows the same settles the bases as well.                       *)
LEMMA SettledAlike ==
  ASSUME NEW V, Nothing \in V, NEW events, NEW more, Settled(V, events),
         \A b \in V : Alike(From(b, more), From(b, events))
  PROVE  Settled(V, more)
<1>1. Numbered(From(Nothing, more))
  BY AlikeNumbered DEF Settled
<1>2. \A b \in V : Alike(From(b, events), From(Nothing, events))
  BY DEF Settled
<1>3. Alike(From(Nothing, events), From(Nothing, more))
  BY AlikeAll
<1>4. \A b \in V : Alike(From(b, more), From(Nothing, more))
  BY <1>2, <1>3, AlikeAll
<1>. QED  BY <1>1, <1>4 DEF Settled

(* Without an import that is about to be stored, the games are just the       *)
(* same.                                                                      *)
LEMMA AbreastIs ==
  ASSUME NEW x, NEW m, NEW todo, ~Starts(todo, "parsed")
  PROVE  Abreast(x, m, todo) <=> SameGames(x, m)
<1>1. \A g \in Games : Ahead(m, todo)[g] = m.games[g]
  BY DEF Ahead
<1>. QED  BY <1>1 DEF Abreast, SameGames

(* And so does a snapshot of members that have applied all of the log.        *)
LEMMA SettledSnapshot ==
  ASSUME NEW V \in SUBSET BaseStates, Nothing \in V, NEW events \in Seq(LogEvents),
         NEW b \in BaseStates, NEW m \in Memories, LoadsTo(b.memory, m),
         \A i \in DOMAIN events : events[i].id <= b.at,
         Settled(V, events),
         SameRest(From(Nothing, events), m), SameGames(From(Nothing, events), m)
  PROVE  Settled(V \cup {b}, events)
<1>. DEFINE x == From(b, events)
            o == From(Nothing, events)
<1>1. /\ x \in Memories /\ x.games = Snapshotted(m).games
      /\ SameEarly(x, b.memory) /\ SameLate(x, o) /\ o \in Memories
  BY SnapshotReplays, FromTypes
<1>2. Numbered(o) /\ \A c \in V : Alike(From(c, events), o)
  BY DEF Settled
<1>3. SameRest(o, m) /\ SameGames(o, m)
  OBVIOUS
<1>. HIDE DEF x, o
<1>4. SameGames(x, o)
  BY <1>1, <1>3, GamesSnapshotted DEF SameGames
<1>5. x.drills = m.drills /\ o.drills = m.drills /\ o.batches = m.batches
  BY <1>1, <1>3 DEF SameEarly, LoadsTo, SameRest, SameEntries, SameSets
<1>6. SameEntries(x, o)
  BY <1>1, <1>5 DEF SameEntries, SameLate
<1>7. SameSets(x, o)
  BY <1>1, <1>3 DEF SameEarly, LoadsTo, SameRest, SameSets, SameLate
<1>8. SameValues(x, o)
  BY <1>1, <1>3 DEF SameEarly, LoadsTo, SameRest, SameValues
<1>9. SameNext(x, o)
  <2>1. /\ x.next.attempt = b.memory.next.attempt /\ x.next.batch = b.memory.next.batch
        /\ x.next.review = o.next.review
    BY <1>1 DEF SameEarly, SameLate
  <2>2. IdsOf(m) = IdsOf(o)
    BY <1>5 DEF IdsOf
  <2>3. /\ LastOf(x.next.attempt, IdsOf(o)) /\ LastOf(x.next.batch, o.batches)
        /\ LastOf(o.next.attempt, IdsOf(o)) /\ LastOf(o.next.batch, o.batches)
    BY <1>2, <1>5, <2>1, <2>2 DEF LoadsTo, Numbered
  <2>4. /\ x.next.attempt \in Nat /\ x.next.batch \in Nat
        /\ o.next.attempt \in Nat /\ o.next.batch \in Nat
        /\ IdsOf(o) \in SUBSET Nat /\ o.batches \in SUBSET Nat
    BY <1>1, IdsAreNumbers
  <2>. QED  BY <2>1, <2>3, <2>4, LastIsOne DEF SameNext
<1>10. Alike(x, o)
  BY <1>4, <1>6, <1>7, <1>8, <1>9 DEF Alike, SameRest
<1>11. \A c \in V \cup {b} : Alike(From(c, events), o)
  BY <1>2, <1>10 DEF x
<1>. QED  BY <1>2, <1>11 DEF Settled, o

(* What compaction notes: the events of the log it reads back, one by one.    *)
LEMMA NotedRuns ==
  ASSUME NEW n \in NotedStates, NEW events \in Seq(LogEvents)
  PROVE  \E m : /\ m \in [0..Len(events) -> NotedStates] /\ m[0] = n
                /\ \A i \in 1..Len(events) :
                     m[i] = IF events[i].id > m[i - 1].at THEN Noting(m[i - 1], events[i].id)
                            ELSE m[i - 1]
                /\ NotedFrom(n, events) = m[Len(events)]
<1>. DEFINE N == Len(events)
            One(x, i) == IF events[i].id > x.at THEN Noting(x, events[i].id) ELSE x
            Body(g) == [i \in 0..N |-> IF i = 0 THEN n ELSE One(g[i - 1], i)]
            step == [i \in 1..N |-> [x \in NotedStates |-> One(x, i)]]
            M == CHOOSE g : g = Body(g)
<1>1. N \in Nat /\ \A i \in 1..N : events[i] \in LogEvents
  OBVIOUS
<1>2. \A i \in 1..N : \A x \in NotedStates : One(x, i) \in NotedStates
  <2>1. \A i \in 1..N : events[i].id \in Nat
    BY <1>1 DEF LogEvents
  <2>. QED  BY <2>1, NotingIs
<1>3. step \in [1..N -> [NotedStates -> NotedStates]]
  <2>. HIDE DEF One
  <2>. QED  BY <1>2
<1>. DEFINE f == Iterates(N, NotedStates, n, step)
<1>4. /\ f \in [0..N -> NotedStates]
      /\ f[0] = n /\ \A i \in 1..N : f[i] = step[i][f[i - 1]]
  <2>. HIDE DEF step, N
  <2>. QED  BY <1>1, <1>3, RecursionExists
<1>. HIDE DEF f
<1>5. \A i \in 1..N : i - 1 \in 0..N /\ i # 0 /\ i \in 0..N
  BY <1>1
<1>6. \A i \in 1..N : f[i] = One(f[i - 1], i)
  <2>. HIDE DEF One
  <2>. QED  BY <1>4, <1>5
<1>7. f = Body(f)
  <2>1. \A i \in 0..N : i = 0 \/ i \in 1..N
    BY <1>1
  <2>. HIDE DEF One
  <2>2. \A i \in 0..N : f[i] = IF i = 0 THEN n ELSE One(f[i - 1], i)
    BY <1>4, <1>5, <1>6, <2>1
  <2>3. f = [i \in 0..N |-> f[i]]
    BY <1>4
  <2>. QED  BY <2>2, <2>3
<1>8. M = Body(M)
  <2>. HIDE DEF Body
  <2>. QED  BY <1>7
<1>. HIDE DEF M
<1>9. M[0] = n /\ \A i \in 1..N : M[i] = One(M[i - 1], i)
  <2>1. 0 \in 0..N
    BY <1>1
  <2>. HIDE DEF One
  <2>. QED  BY <1>5, <1>8, <2>1
<1>10. \A i \in 0..N : M[i] \in NotedStates
  <2>. DEFINE S == {i \in 0..N : M[i] \in NotedStates}
  <2>1. 0 \in S
    BY <1>1, <1>9
  <2>2. ASSUME NEW i \in 1..N, i - 1 \in S  PROVE  i \in S
    <3>. HIDE DEF One
    <3>. QED  BY <1>2, <1>5, <1>9, <2>2
  <2>. HIDE DEF S
  <2>3. 0..N \subseteq S
    BY <1>1, <2>1, <2>2, IntervalInduction
  <2>. QED  BY <2>3 DEF S
<1>11. M \in [0..N -> NotedStates]
  <2>. HIDE DEF One
  <2>. QED  BY <1>8, <1>10
<1>12. NotedFrom(n, events) = M[N]
  BY DEF NotedFrom, M
<1>. QED  BY <1>9, <1>11, <1>12

(* It notes no event beyond the last, and if all but the last were noted, it  *)
(* notes that one.                                                            *)
LEMMA NotedFromIs ==
  ASSUME NEW n \in NotedStates, NEW events \in Seq(LogEvents), NEW e \in LogEvents,
         n.at < e.id, \A i \in DOMAIN events : events[i].id <= e.id
  PROVE  LET k == NotedFrom(n, Append(events, e))
         IN /\ k \in NotedStates /\ k.at <= e.id
            /\ (\A i \in DOMAIN events : events[i].id <= n.at) => k = Noting(n, e.id)
<1>. DEFINE more == Append(events, e)
            N == Len(events)
<1>1. /\ more \in Seq(LogEvents) /\ N \in Nat /\ Len(more) = N + 1
      /\ \A i \in 1..N : more[i] = events[i] /\ i \in DOMAIN events
      /\ more[N + 1] = e /\ N + 1 \in 1..(N + 1)
  OBVIOUS
<1>2. /\ e.id \in Nat /\ \A i \in 1..(N + 1) : more[i] \in LogEvents /\ more[i].id \in Nat
      /\ n.at \in Nat
  BY <1>1 DEF LogEvents, NotedStates
<1>3. \A i \in 1..(N + 1) : more[i].id <= e.id
  <2>1. \A i \in 1..(N + 1) : i = N + 1 \/ i \in 1..N
    BY <1>1
  <2>. QED  BY <1>1, <1>2, <2>1
<1>. HIDE DEF more
<1>4. PICK m : /\ m \in [0..Len(more) -> NotedStates] /\ m[0] = n
               /\ \A i \in 1..Len(more) :
                    m[i] = IF more[i].id > m[i - 1].at THEN Noting(m[i - 1], more[i].id)
                           ELSE m[i - 1]
               /\ NotedFrom(n, more) = m[Len(more)]
  BY <1>1, NotedRuns
<1>. HIDE DEF N
<1>5. m \in [0..(N + 1) -> NotedStates] /\ NotedFrom(n, more) = m[N + 1]
      /\ N + 1 \in 0..(N + 1) /\ N \in 0..(N + 1)
  BY <1>1, <1>4
<1>6. \A i \in 1..(N + 1) : i - 1 \in 0..(N + 1) /\ m[i - 1] \in NotedStates
  BY <1>1, <1>5
<1>7. \A i \in 1..(N + 1) : m[i] = IF more[i].id > m[i - 1].at
                                   THEN Noting(m[i - 1], more[i].id) ELSE m[i - 1]
  BY <1>1, <1>4
<1>8. m[N + 1].at <= e.id
  <2>. DEFINE S == {i \in 0..(N + 1) : m[i].at <= e.id}
  <2>1. 0 \in S
    BY <1>1, <1>2, <1>4
  <2>2. ASSUME NEW i \in 1..(N + 1), i - 1 \in S  PROVE  i \in S
    <3>1. m[i - 1] \in NotedStates /\ m[i - 1].at <= e.id /\ i \in 0..(N + 1)
      BY <1>1, <1>6, <2>2
    <3>2. Noting(m[i - 1], more[i].id).at <= e.id
      BY <1>2, <1>3, <3>1, NotingIs
    <3>. QED  BY <1>7, <3>1, <3>2
  <2>. HIDE DEF S
  <2>3. 0..(N + 1) \subseteq S
    <3>1. PICK K \in Nat : K = N + 1
      BY <1>1
    <3>2. \A i \in 1..K : i - 1 \in S => i \in S
      BY <2>2, <3>1
    <3>3. 0..K \subseteq S
      BY <2>1, <3>2, IntervalInduction
    <3>. QED  BY <3>1, <3>3
  <2>. QED  BY <1>5, <2>3 DEF S
<1>9. ASSUME \A i \in DOMAIN events : events[i].id <= n.at
      PROVE  m[N + 1] = Noting(n, e.id)
  <2>. DEFINE S == {i \in 0..N : m[i] = n}
  <2>1. 0 \in S
    BY <1>1, <1>4
  <2>2. ASSUME NEW i \in 1..N, i - 1 \in S  PROVE  i \in S
    <3>1. m[i - 1] = n /\ i \in 0..N /\ i \in 1..(N + 1)
      BY <1>1, <2>2
    <3>2. more[i].id <= n.at /\ more[i].id \in Nat
      BY <1>1, <1>2, <1>9, <3>1
    <3>3. ~(more[i].id > n.at)
      BY <1>2, <3>2
    <3>. QED  BY <1>7, <3>1, <3>3
  <2>. HIDE DEF S
  <2>3. 0..N \subseteq S
    BY <1>1, <2>1, <2>2, IntervalInduction
  <2>4. m[N] = n
    BY <1>1, <2>3 DEF S
  <2>5. (N + 1) - 1 = N
    BY <1>1
  <2>6. e.id > n.at
    BY <1>2
  <2>. QED  BY <1>1, <1>7, <2>4, <2>5, <2>6
<1>. QED  BY <1>5, <1>8, <1>9 DEF more

(* The last id of a log is its largest.                                       *)
LEMMA LastIdIs ==
  ASSUME NEW events \in Seq(LogEvents), NonDecreasing(events)
  PROVE  /\ LastId(events) \in Nat
         /\ \A i \in DOMAIN events : events[i].id \in Nat \ {0} /\ events[i].id <= LastId(events)
         /\ events # <<>> => \E i \in DOMAIN events : events[i].id = LastId(events)
<1>1. \A i \in DOMAIN events : events[i].id \in Nat \ {0}
  BY DEF LogEvents
<1>2. CASE events = <<>>
  BY <1>2 DEF LastId
<1>3. CASE events # <<>>
  <2>1. Len(events) \in DOMAIN events /\ \A i \in DOMAIN events : i <= Len(events)
    BY <1>3
  <2>2. LastId(events) = events[Len(events)].id
    BY <1>3 DEF LastId
  <2>. QED  BY <1>1, <2>1, <2>2 DEF NonDecreasing
<1>. QED  BY <1>2, <1>3

(* A log with an event of the next id.                                        *)
LEMMA LogAppend ==
  ASSUME NEW events \in Seq(LogEvents), NEW e \in LogEvents, NonDecreasing(events),
         \A i \in DOMAIN events : events[i].id <= e.id
  PROVE  /\ Append(events, e) \in Seq(LogEvents) /\ NonDecreasing(Append(events, e))
         /\ LastId(Append(events, e)) = e.id
         /\ \A i \in DOMAIN Append(events, e) :
              \/ i \in DOMAIN events /\ Append(events, e)[i] = events[i]
              \/ Append(events, e)[i] = e
<1>. DEFINE more == Append(events, e)
            N == Len(events)
<1>1. /\ more \in Seq(LogEvents) /\ N \in Nat /\ Len(more) = N + 1 /\ more[N + 1] = e
      /\ DOMAIN more = 1..(N + 1) /\ DOMAIN events = 1..N /\ more # <<>>
      /\ \A i \in 1..N : more[i] = events[i]
  OBVIOUS
<1>. HIDE DEF more, N
<1>2. \A i \in DOMAIN more : \/ i \in DOMAIN events /\ more[i] = events[i] /\ i <= N
                             \/ i = N + 1 /\ more[i] = e
  BY <1>1
<1>3. e.id \in Nat /\ \A i \in DOMAIN events : events[i].id \in Nat
  <2>1. \A i \in DOMAIN events : events[i] \in LogEvents
    BY <1>1
  <2>. QED  BY <2>1 DEF LogEvents
<1>4. ASSUME NEW i \in DOMAIN more, NEW j \in DOMAIN more, i <= j
      PROVE  more[i].id <= more[j].id
  <2>1. CASE i \in DOMAIN events /\ more[i] = events[i] /\ j \in DOMAIN events
             /\ more[j] = events[j]
    BY <1>4, <2>1 DEF NonDecreasing
  <2>2. CASE i \in DOMAIN events /\ more[i] = events[i] /\ more[j] = e
    BY <2>2
  <2>3. CASE i = N + 1 /\ more[i] = e
    <3>1. ~(j <= N)
      BY <1>1, <1>4, <2>3
    <3>2. more[j] = e
      BY <1>2, <3>1
    <3>. QED  BY <1>3, <2>3, <3>2
  <2>. QED  BY <1>2, <2>1, <2>2, <2>3
<1>5. LastId(more) = e.id
  BY <1>1 DEF LastId
<1>. QED  BY <1>1, <1>2, <1>4, <1>5 DEF NonDecreasing, more

(* Each event of the compacted log is one of the log, in the same order.      *)
LEMMA RetainedIs ==
  ASSUME NEW events \in Seq(LogEvents), NonDecreasing(events)
  PROVE  /\ Retained(events) \in Seq(LogEvents) /\ NonDecreasing(Retained(events))
         /\ \A i \in DOMAIN Retained(events) :
              \E j \in DOMAIN events : events[j] = Retained(events)[i]
<1>. DEFINE I == Kept(events)
            P == Picked(events, I)
<1>1. Retained(events) = P /\ I \in SUBSET DOMAIN events
  BY DEF Retained, Kept
<1>. HIDE DEF I, P
<1>2. /\ P \in Seq(LogEvents) /\ DOMAIN P = 1..Cardinality(I)
      /\ \A n \in 1..Cardinality(I) : Place(I, n) \in I /\ P[n] = events[Place(I, n)]
      /\ \A n, m \in 1..Cardinality(I) : n < m => Place(I, n) < Place(I, m)
      /\ Cardinality(I) \in Nat
  BY <1>1, PickedPlaces DEF P
<1>3. \A i \in DOMAIN P : \E j \in DOMAIN events : events[j] = P[i]
  BY <1>1, <1>2
<1>4. ASSUME NEW i \in DOMAIN P, NEW j \in DOMAIN P, i <= j
      PROVE  P[i].id <= P[j].id
  <2>1. Place(I, i) \in DOMAIN events /\ Place(I, j) \in DOMAIN events
    BY <1>1, <1>2
  <2>2. Place(I, i) <= Place(I, j)
    <3>1. CASE i = j
      BY <2>1, <3>1
    <3>2. CASE i # j
      <4>1. i < j
        BY <1>2, <1>4, <3>2
      <4>2. Place(I, i) < Place(I, j)
        BY <1>2, <4>1
      <4>. QED  BY <2>1, <4>2
    <3>. QED  BY <3>1, <3>2
  <2>. QED  BY <1>2, <2>1, <2>2 DEF NonDecreasing
<1>. QED  BY <1>1, <1>2, <1>3, <1>4 DEF NonDecreasing
(* The ids of attempts and batches stay below the next ones, whatever event   *)
(* is replayed or applied.                                                    *)
LEMMA IdsBelowAfter ==
  ASSUME NEW x \in Memories, NEW e \in LogEvents, IdsBelow(x),
         NEW r \in {Replayed(x, e), Applied(x, e)}
  PROVE  IdsBelow(r)
<1>1. r \in Memories /\ NextTo(r, x, e) /\ SetsTo(r, x, e) /\ r.drills = DrillsAfter(x.drills, e)
  BY ReplayedFields, AppliedFields DEF ReplaysTo, AppliesTo, EntriesTo
<1>2. Typed(e)
  BY DEF LogEvents
<1>3. /\ x.next.attempt \in Nat /\ x.next.batch \in Nat
      /\ IdsOf(x) \in SUBSET Nat /\ x.batches \in SUBSET Nat
      /\ r.next.attempt \in Nat /\ r.next.batch \in Nat
  BY <1>1, IdsAreNumbers
<1>4. \A i \in r.batches : i < r.next.batch
  <2>1. CASE e.kind = "batch"
    <3>1. r.batches = x.batches \cup {e.of} /\ r.next.batch = Larger(x.next.batch, e.of + 1)
          /\ e.of \in Nat
      BY <1>1, <1>2, <2>1 DEF SetsTo, NextTo, Typed
    <3>. QED  BY <1>3, <3>1 DEF IdsBelow, Larger
  <2>2. CASE e.kind # "batch"
    <3>1. r.batches = x.batches /\ r.next.batch = x.next.batch
      BY <1>1, <2>2 DEF SetsTo, NextTo
    <3>. QED  BY <3>1 DEF IdsBelow
  <2>. QED  BY <2>1, <2>2
<1>5. x.drills \in [Drills -> DrillStates]
  BY DEF Memories
<1>. DEFINE Given == e.kind = "attempt" /\ x.drills[e.of].made
<1>6. ASSUME NEW i \in IdsOf(r)  PROVE  i \in IdsOf(x) \/ (Given /\ i = e.val.id)
  <2>1. PICK d \in Drills : i \in {a.id : a \in Range(r.drills[d].attempts)}
    BY <1>6 DEF IdsOf
  <2>2. PICK a \in Range(r.drills[d].attempts) : i = a.id
    BY <2>1
  <2>3. CASE r.drills[d] = x.drills[d]
    BY <2>2, <2>3 DEF IdsOf
  <2>4. CASE r.drills[d] # x.drills[d]
    <3>1. /\ e.kind \in {"drill", "attempt", "session"} /\ e.of = d
          /\ r.drills[d] = DrillAfter(x.drills[d], e)
      BY <1>1, <1>5, <2>4 DEF DrillsAfter
    <3>2. x.drills[d] \in DrillStates
      BY <1>5
    <3>3. Range(DrillAfter(x.drills[d], e).attempts)
               = IF e.kind = "drill" THEN {}
                 ELSE IF e.kind = "attempt" /\ x.drills[d].made
                 THEN Range(x.drills[d].attempts) \cup {e.val} ELSE Range(x.drills[d].attempts)
      BY <3>1, <3>2, AttemptsAfter
    <3>4. a \in Range(x.drills[d].attempts) \/ (Given /\ a = e.val)
      BY <2>2, <3>1, <3>3
    <3>. QED  BY <2>2, <3>4 DEF IdsOf
  <2>. QED  BY <2>3, <2>4
<1>7. Given => r.next.attempt = Larger(x.next.attempt, e.val.id + 1) /\ e.val.id \in Nat
  BY <1>1, <1>2 DEF NextTo, Typed, Attempts
<1>8. ~Given => r.next.attempt = x.next.attempt
  BY <1>1 DEF NextTo
<1>9. \A i \in IdsOf(x) : i < x.next.attempt
  BY DEF IdsBelow
<1>10. \A i \in IdsOf(r) : i < r.next.attempt
  <2>. HIDE DEF Given
  <2>1. CASE Given
    BY <1>3, <1>6, <1>7, <1>9, <2>1 DEF Larger
  <2>2. CASE ~Given
    BY <1>3, <1>6, <1>8, <1>9, <2>2
  <2>. QED  BY <2>1, <2>2
<1>. QED  BY <1>4, <1>10 DEF IdsBelow

(* So it is for what the log gives, from every base.                          *)
LEMMA FromIdsBelow ==
  ASSUME NEW b \in BaseStates, IdsBelow(b.memory), NEW events \in Seq(LogEvents)
  PROVE  IdsBelow(From(b, events))
<1>0. b.memory \in Memories
  BY DEF BaseStates
<1>1. PICK m : /\ Runs(m, b.memory, b.at, events)
               /\ Replay(b.memory, b.at, events) = m[Len(events)]
  BY <1>0, ReplayRuns
<1>. DEFINE S == {n \in 0..Len(events) : IdsBelow(m[n])}
<1>2. Len(events) \in Nat /\ \A n \in 1..Len(events) : events[n] \in LogEvents
  OBVIOUS
<1>3. 0 \in S
  BY <1>1, <1>2 DEF Runs
<1>4. ASSUME NEW n \in 1..Len(events), n - 1 \in S  PROVE  n \in S
  <2>1. n \in 0..Len(events) /\ n - 1 \in 0..Len(events)
    BY <1>2
  <2>2. /\ m[n - 1] \in Memories /\ IdsBelow(m[n - 1])
        /\ m[n] = IF After(events[n], b.at) THEN Replayed(m[n - 1], events[n]) ELSE m[n - 1]
    BY <1>1, <1>4, <2>1 DEF Runs
  <2>3. IdsBelow(Replayed(m[n - 1], events[n]))
    BY <1>2, <2>2, IdsBelowAfter
  <2>. QED  BY <2>1, <2>2, <2>3
<1>. HIDE DEF S
<1>5. 0..Len(events) \subseteq S
  BY <1>2, <1>3, <1>4, IntervalInduction
<1>6. Len(events) \in S
  BY <1>2, <1>5
<1>. QED  BY <1>1, <1>6 DEF S, From

(* An operation takes ids and gives none.                                     *)
LEMMA IdsBelowTaken ==
  ASSUME NEW m \in Memories, NEW r \in Memories, IdsBelow(m), NEW todo, Takes(m, r, todo)
  PROVE  IdsBelow(r)
<1>1. m.next.attempt \in Nat /\ m.next.batch \in Nat /\ IdsOf(m) \in SUBSET Nat
      /\ m.batches \in SUBSET Nat
  BY IdsAreNumbers
<1>2. r.drills = m.drills /\ r.batches = m.batches
  BY DEF Takes, SameRest, SameEntries, SameSets
<1>3. IdsOf(r) = IdsOf(m)
  BY <1>2 DEF IdsOf
<1>4. r.next.attempt \in {m.next.attempt, m.next.attempt + 1}
      /\ r.next.batch \in {m.next.batch, m.next.batch + 1}
  BY <1>1 DEF Takes, Pos
<1>5. (\A i \in IdsOf(m) : i < m.next.attempt) /\ (\A i \in m.batches : i < m.next.batch)
  BY DEF IdsBelow
<1>6. \A i \in IdsOf(r) : i < r.next.attempt
  BY <1>1, <1>3, <1>4, <1>5
<1>7. \A i \in r.batches : i < r.next.batch
  BY <1>1, <1>2, <1>4, <1>5
<1>. QED  BY <1>6, <1>7 DEF IdsBelow

=============================================================================
