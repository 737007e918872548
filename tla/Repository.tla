----------------------------- MODULE Repository -----------------------------
(* app::Repository (src/src/app/repository.cpp): the projections of the event *)
(* log the tutor answers from, and the snapshots that shorten their replay.   *)
(*                                                                            *)
(* Every operation holds the mutex from its checks to its last append, so     *)
(* they do not interleave; between two appends of one operation the process   *)
(* may die, or the next append may throw.  Of storage::EventLog this module   *)
(* uses what EventLog.tla shows: append is atomic, an acknowledged event      *)
(* stays, one that was not acknowledged may stay.                             *)
(*                                                                            *)
(* Abstraction: a game has at most one mistake and one drill, named after it; *)
(* the time of an event is its id; texts, moves and scores are left out, and  *)
(* with them the requests refused for what they say.                          *)
EXTENDS Integers, Sequences, FiniteSets, Functions, Subsequences

CONSTANTS
  Games, Resources, Entries, Months,
  Corpus,         \* drills of the tactical corpus
  Scopes,         \* sets of operations; a behaviour calls those of one of them
  Failures,       \* how append() may fail: "write" (nothing is written), "sync"
  SnapshotEvery,  \* analysed games between automatic snapshots; 10 in the code
  Bounds,         \* bound: ids given in a behaviour of each scope
  MaxSnapshots,   \* bound: snapshot files
  MaxMishaps      \* bound: ends of the process and appends that throw

Operations == {"import", "shallow", "analysis", "job", "validated", "attempt",
               "session", "hint", "recommend", "complete", "pause", "batch",
               "profile", "chunk", "month", "sync", "line", "extend", "cursor",
               "delete", "review", "snapshot", "compact"}

ASSUME RepositoryBounds ==
  /\ Scopes # {} /\ \A s \in Scopes : s \subseteq Operations
  /\ Failures \subseteq {"write", "sync"}
  /\ SnapshotEvery \in Nat \ {0}
  /\ {MaxSnapshots, MaxMishaps} \subseteq Nat
  /\ Bounds \in [Scopes -> Nat]
  /\ Games \cap Corpus = {}

VARIABLES
  log,        \* the events that can be replayed
  nextId,     \* EventLog::next_id_
  memory,     \* the projections
  noted,      \* projection_event_id_ (at) and projection_contiguous_ (whole)
  index,      \* what the derived index files show
  files,      \* the snapshot files
  call,       \* the operation under way, the events it has still to append, and
              \* whether it has added a game
  due,        \* save_analysis is about to call create_snapshot
  up,         \* the process runs
  mishaps,    \* ends of the process and appends that threw, so far
  scope,      \* the operations this behaviour calls
  clean,      \* no call of this process threw since the indexes were rebuilt
  faults      \* "append": an append of this process threw; "sync": one did after
              \* its event was written; "noted": compaction counted an event as
              \* applied that no operation had applied

vars == <<log, nextId, memory, noted, index, files, call, due, up, mishaps, scope,
          clean, faults>>

None == "none"
NoCall == [op |-> None, todo |-> <<>>, added |-> FALSE]
Drills == Games \cup Corpus
MaxEvents == Bounds[scope]
NoDrill == [made |-> FALSE, attempts |-> <<>>, hint |-> 0, started |-> 0]
NewDrill == [NoDrill EXCEPT !.made = TRUE]

(* An event before append() gives it an id: its type, the game, drill, month  *)
(* or number it is about, and the rest of its payload.                        *)
Event(kind, of, val) == [kind |-> kind, of |-> of, val |-> val]
Stamped(e, id) == [id |-> id, kind |-> e.kind, of |-> e.of, val |-> e.val]

(* The members of Repository.  Of a game: it is stored, and which analyses it *)
(* has; of a variation: its moves, each with its parent, and the cursor.      *)
Empty ==
  [games |-> [g \in Games |-> {}],
   jobs |-> [g \in Games |-> None],
   drills |-> [d \in Drills |-> NoDrill],
   completed |-> {}, recommended |-> {},
   paused |-> FALSE,
   batches |-> {},
   profile |-> 0,
   archive |-> {},
   months |-> [m \in Months |-> 0],
   sync |-> [status |-> "idle", at |-> 0],
   lines |-> <<>>,
   reviews |-> {},
   next |-> [attempt |-> 1, batch |-> 1, line |-> 1, review |-> 1]]

Larger(m, n) == IF m > n THEN m ELSE n
Smaller(m, n) == IF m < n THEN m ELSE n

-----------------------------------------------------------------------------
(* Rebuilding the projections.                                                *)

(* Fault: a replayed import forgets nothing, an analysis needs no game.       *)
ReplayedBlind(m, e) ==
  IF e.kind = "analysed" THEN [m EXCEPT !.games[e.of] = @ \cup {"deep"}] ELSE m

(* replay(): what one event does to the projections.                          *)
Replayed(m, e) ==
  CASE e.kind = "imported" -> [m EXCEPT !.games[e.of] = {"game"}]
    [] e.kind = "analysed" /\ m.games[e.of] # {} ->
         [m EXCEPT !.games[e.of] = @ \cup {"deep"}]
    [] e.kind = "shallow" /\ m.games[e.of] # {} /\ "deep" \notin m.games[e.of] ->
         [m EXCEPT !.games[e.of] = @ \cup {"shallow"}]
    [] e.kind = "drill" -> [m EXCEPT !.drills[e.of] = NewDrill]
    [] e.kind = "attempt" /\ m.drills[e.of].made ->
         [m EXCEPT !.drills[e.of].attempts = Append(@, e.val),
                   !.next.attempt = Larger(@, e.val.id + 1)]
    [] e.kind = "session" /\ m.drills[e.of].made ->
         [m EXCEPT !.drills[e.of].hint = e.val.hint,
                   !.drills[e.of].started = e.val.started]
    [] e.kind = "completed" -> [m EXCEPT !.completed = @ \cup {e.of}]
    [] e.kind = "recommended" -> [m EXCEPT !.recommended = @ \cup {e.of}]
    [] e.kind = "job" -> [m EXCEPT !.jobs[e.of] = e.val]
    [] e.kind = "paused" -> [m EXCEPT !.paused = e.val]
    [] e.kind = "batch" -> [m EXCEPT !.batches = @ \cup {e.of},
                                     !.next.batch = Larger(@, e.of + 1)]
    [] e.kind = "profile" -> [m EXCEPT !.profile = e.val]
    [] e.kind = "chunk" -> [m EXCEPT !.archive = @ \cup e.val]
    [] e.kind = "month" -> [m EXCEPT !.months[e.of] = e.val]
    [] e.kind = "sync" -> [m EXCEPT !.sync = e.val]
    [] e.kind = "saved" ->
         [m EXCEPT !.lines = [n \in DOMAIN @ \cup {e.of} |-> IF n = e.of THEN e.val ELSE @[n]],
                   !.next.line = Larger(@, e.of + 1)]
    [] e.kind = "deleted" -> [m EXCEPT !.lines = [n \in DOMAIN @ \ {e.of} |-> @[n]]]
    [] e.kind = "review" -> [m EXCEPT !.reviews = @ \cup {e.of},
                                      !.next.review = Larger(@, e.of + 1)]
    [] OTHER -> m

(* What a snapshot holds: everything but variations and review attempts; a    *)
(* stored game has one status, so an analysed one loses its shallow analysis. *)
Snapshotted(m) ==
  [m EXCEPT !.games = [g \in Games |-> IF "deep" \in m.games[g] THEN {"game", "deep"}
                                       ELSE m.games[g]],
            !.lines = <<>>, !.reviews = {},
            !.next = [attempt |-> 0, batch |-> 0, line |-> 0, review |-> 0]]

(* Fault: the next attempt's id is not recovered from the snapshot's drills.  *)
LoadedWithoutIds(content) == [content EXCEPT !.next = Empty.next]

(* replay(): the projections a snapshot starts from; the next ids are one     *)
(* more than those of the batches and attempts it holds.                      *)
Loaded(content) ==
  LET Above(ids) == 1 + CHOOSE n \in ids \cup {0} : \A i \in ids : i <= n
      attempts == UNION {{a.id : a \in Range(content.drills[d].attempts)} : d \in Drills}
  IN [content EXCEPT !.next = [Empty.next EXCEPT !.attempt = Above(attempts),
                                                 !.batch = Above(content.batches)]]

(* The markers in the log that vouch for a snapshot file.                     *)
Markers(events, s) ==
  {events[i].id : i \in {n \in DOMAIN events :
                           /\ events[n].kind = "snapshot" /\ events[n].of = s.name
                           /\ events[n].val = s.at /\ s.at < events[n].id}}

(* A file is used only if the log says that it was completed.                 *)
Authorized(events, s) == Markers(events, s) # {}

(* The snapshot replay() uses: the latest, if there is any.                   *)
Chosen(events, fs) ==
  LET usable == {s \in fs : Authorized(events, s)}
  IN {s \in usable : \A t \in usable : t.at < s.at \/ (t.at = s.at /\ t.name <= s.name)}

(* Fault: variations and review attempts are taken to be in the snapshot.     *)
AfterEverything(e, at) == e.id > at

(* Which events are replayed on top of a snapshot.                            *)
After(e, at) == e.id > at \/ e.kind \in {"saved", "deleted", "review"}

(* What the events make of projections that hold those up to the id at.       *)
Replay(base, at, events) ==
  LET m[n \in 0..Len(events)] ==
        IF n = 0 THEN base
        ELSE IF After(events[n], at) THEN Replayed(m[n - 1], events[n]) ELSE m[n - 1]
  IN m[Len(events)]

(* Repository::replay, with the snapshot files fs.                            *)
Rebuilt(events, fs) ==
  LET chosen == Chosen(events, fs)
      latest == CHOOSE s \in chosen : TRUE
  IN IF chosen = {} THEN Replay(Empty, 0, events)
     ELSE Replay(Loaded(latest.content), latest.at, events)

-----------------------------------------------------------------------------
(* Compaction, as far as the repository depends on it.                        *)

(* A later event x makes e redundant, if the last event of these kinds counts.*)
Replaces(x, e, lastOfAll, lastOfEach) ==
  \/ e.kind = x.kind /\ e.kind \in lastOfAll
  \/ e.kind = x.kind /\ e.kind \in lastOfEach /\ e.of = x.of
  \/ {e.kind, x.kind} \subseteq {"saved", "deleted"} /\ e.of = x.of
  \/ e.kind = "shallow" /\ x.kind \in {"shallow", "analysed"} /\ e.of = x.of

(* Fault: attempts are compacted like the sessions they belong to.            *)
OverridesAttempts(x, e) ==
  Replaces(x, e, {"snapshot", "paused", "profile", "sync"},
           {"job", "completed", "session", "month", "attempt"})

(* EventLog::compact.                                                         *)
Overrides(x, e) ==
  Replaces(x, e, {"snapshot", "paused", "profile", "sync"},
           {"job", "completed", "session", "month"})

Retained(events) ==
  Picked(events, {i \in DOMAIN events :
                    /\ events[i].kind # "compacted"
                    /\ \A j \in (i + 1)..Len(events) : ~Overrides(events[j], events[i])})

-----------------------------------------------------------------------------
(* What an operation does to the members, once its event is in the log; only  *)
(* here it differs from replay: a game is stored when it is parsed, and an    *)
(* analysis clears the shallow one.                                           *)
Applied(m, e) ==
  CASE e.kind = "imported" -> m
    [] e.kind = "parsed" -> [m EXCEPT !.games[e.of] = {"game"}]
    [] e.kind = "analysed" -> [m EXCEPT !.games[e.of] = {"game", "deep"}]
    [] OTHER -> Replayed(m, e)

(* note_applied_event, of one id.                                             *)
Noting(n, id) ==
  IF n.whole /\ id = n.at + 1 THEN [n EXCEPT !.at = id] ELSE [n EXCEPT !.whole = FALSE]

(* What an operation notes: the import of a game together with its parsing.   *)
Noted(n, e) ==
  CASE e.kind = "imported" -> n
    [] e.kind = "parsed" -> Noting(Noting(n, e.id - 1), e.id)
    [] OTHER -> Noting(n, e.id)

LastId(events) == IF events = <<>> THEN 0 ELSE events[Len(events)].id

(* What compact_storage notes of the log it reads back.                       *)
NotedFrom(n, events) ==
  LET f[i \in 0..Len(events)] ==
        IF i = 0 THEN n
        ELSE IF events[i].id > f[i - 1].at THEN Noting(f[i - 1], events[i].id) ELSE f[i - 1]
  IN f[Len(events)]

(* rebuild_indexes: what the index files show of the members, and which       *)
(* snapshot files they list.                                                  *)
Indexed(m, fs) ==
  [games |-> Snapshotted(m).games,
   drills |-> [d \in Drills |-> <<m.drills[d].made, m.drills[d].attempts>>],
   resources |-> <<m.completed, m.recommended>>,
   chesscom |-> <<m.profile, m.archive, m.months, m.sync>>,
   snapshots |-> {s.name : s \in fs}]

(* Fault: a shallow analysis does not reach profile.idx.                      *)
RebuildsUnlessShallow(op) ==
  op \notin {"job", "pause", "batch", "session", "hint", "line", "extend", "cursor",
             "delete", "review", "shallow"}

(* The operations that end with rebuild_indexes.                              *)
Rebuilds(op) ==
  op \notin {"job", "pause", "batch", "session", "hint", "line", "extend", "cursor",
             "delete", "review"}

-----------------------------------------------------------------------------
Init ==
  /\ log = <<>> /\ nextId = 1
  /\ memory = Empty
  /\ noted = [at |-> 0, whole |-> TRUE]
  /\ files = {}
  /\ index = Indexed(Empty, {})
  /\ call = NoCall /\ due = FALSE
  /\ up = TRUE /\ mishaps = 0
  /\ scope \in Scopes
  /\ clean = TRUE /\ faults = {}

Free == up /\ call = NoCall

(* An operation takes the mutex, passes its checks and is about to append     *)
(* these events; m: the members, after the ids it has taken.                  *)
BeginWith(op, events, m) ==
  /\ Free /\ op \in scope
  /\ events # <<>> /\ nextId + Len(events) <= MaxEvents + 1
  /\ call' = [op |-> op, todo |-> events, added |-> FALSE]
  /\ memory' = m
  /\ UNCHANGED <<log, nextId, noted, index, files, due, up, mishaps, scope, clean, faults>>

Begin(op, events) == BeginWith(op, events, memory)

Has(g) == "game" \in memory.games[g]
Analysed(g) == "deep" \in memory.games[g]

(* bulk_add, and add for one game: known games are skipped; a game may state  *)
(* a player's rating.                                                         *)
Import(gs, rated) ==
  LET Of(g) == IF Has(g) THEN <<>>
               ELSE <<Event("imported", g, 0), Event("parsed", g, 0)>>
                    \o IF rated THEN <<Event("rating", g, 0)>> ELSE <<>>
  IN Begin("import", IF Len(gs) = 1 THEN Of(gs[1]) ELSE Of(gs[1]) \o Of(gs[2]))

SaveShallow(g) == Has(g) /\ ~Analysed(g) /\ Begin("shallow", <<Event("shallow", g, 0)>>)

(* save_analysis: what it found, the analysis, and a drill for the mistake    *)
(* unless there is one.                                                       *)
SaveAnalysis(g, mistake) ==
  /\ Has(g)
  /\ Begin("analysis", <<Event("detail", g, 0), Event("analysed", g, 0)>>
                       \o IF mistake /\ ~memory.drills[g].made
                          THEN <<Event("drill", g, 0)>> ELSE <<>>)

RecordJobState(g, status) == Begin("job", <<Event("job", g, status)>>)

AddValidatedDrill(d) ==
  ~memory.drills[d].made /\ Begin("validated", <<Event("drill", d, 0)>>)

SessionEvent(d, hint, started) ==
  Event("session", d, [hint |-> hint, started |-> started])

(* record_attempt: it carries the hint in use; a correct one ends the session.*)
RecordAttempt(d, correct) ==
  LET attempt == [id |-> memory.next.attempt, correct |-> correct,
                  hint |-> memory.drills[d].hint, at |-> nextId]
  IN /\ memory.drills[d].made
     /\ BeginWith("attempt",
                  <<Event("attempt", d, attempt)>>
                  \o IF correct THEN <<SessionEvent(d, 0, 0)>> ELSE <<>>,
                  [memory EXCEPT !.next.attempt = @ + 1])

BeginDrillSession(d) ==
  /\ memory.drills[d].made /\ memory.drills[d].started = 0
  /\ Begin("session", <<SessionEvent(d, memory.drills[d].hint, nextId)>>)

(* training::available_hint_level: one per failure in this session, up to 3.  *)
AvailableHint(drill) ==
  IF drill.started = 0 THEN 0
  ELSE Smaller(3, Cardinality({i \in DOMAIN drill.attempts :
                                 /\ drill.attempts[i].at >= drill.started
                                 /\ ~drill.attempts[i].correct}))

AdvanceHint(d) ==
  LET drill == memory.drills[d]
  IN /\ drill.made /\ drill.hint < AvailableHint(drill)
     /\ Begin("hint", <<SessionEvent(d, Smaller(3, drill.hint + 1), drill.started)>>)

(* recommendations(): each resource recommended for the first time.           *)
Recommend(rs) ==
  Begin("recommend", [i \in DOMAIN rs |-> Event("recommended", rs[i], 0)])

CompleteResource(r) == Begin("complete", <<Event("completed", r, 0)>>)

SetBackgroundPaused(b) == Begin("pause", <<Event("paused", None, b)>>)

CreateBatch ==
  BeginWith("batch", <<Event("batch", memory.next.batch, 0)>>,
            [memory EXCEPT !.next.batch = @ + 1])

SaveProfile(p) == p # memory.profile /\ Begin("profile", <<Event("profile", None, p)>>)

(* index_chesscom_archive_chunk: the entries not yet in the archive.          *)
IndexChunk(entries) ==
  LET unique == entries \ memory.archive
  IN unique # {} /\ Begin("chunk", <<Event("chunk", None, unique)>>)

(* checkpoint_chesscom_month and save_chesscom_sync_state, at a later time.   *)
CheckpointMonth(m) == Begin("month", <<Event("month", m, nextId)>>)
SaveSyncState(status) ==
  Begin("sync", <<Event("sync", None, [status |-> status, at |-> nextId])>>)

(* Variations: the nodes are the parents of the moves, 0 the root.            *)
SaveLine(op, n, line) == Begin(op, <<Event("saved", n, line)>>)

CreateVariation(g) ==
  /\ Has(g)
  /\ BeginWith("line", <<Event("saved", memory.next.line,
                               [game |-> g, nodes |-> <<>>, cursor |-> 0])>>,
               [memory EXCEPT !.next.line = @ + 1])

(* extend_variation with a new move; with a known one it moves the cursor.    *)
ExtendVariation(n, parent) ==
  LET line == memory.lines[n]
  IN /\ parent \in 0..Len(line.nodes)
     /\ SaveLine("extend", n, [line EXCEPT !.nodes = Append(@, parent),
                                           !.cursor = Len(line.nodes) + 1])

(* set_variation_cursor and reset_variation.                                  *)
SetCursor(n, node) ==
  /\ node \in 0..Len(memory.lines[n].nodes)
  /\ SaveLine("cursor", n, [memory.lines[n] EXCEPT !.cursor = node])

DeleteVariation(n) ==
  Begin("delete", <<Event("deleted", n, memory.lines[n].game)>>)

RecordReview(g) ==
  /\ Analysed(g)
  /\ BeginWith("review", <<Event("review", memory.next.review, g)>>,
               [memory EXCEPT !.next.review = @ + 1])

-----------------------------------------------------------------------------
(* create_snapshot: refused unless every event of the log has been applied;   *)
(* the file is written before the marker that vouches for it.                 *)
Complete(n, events) == n.whole /\ n.at = LastId(events)

FreshName ==
  LET used == {0} \cup {s.name : s \in files}
              \cup {log[i].of : i \in {j \in DOMAIN log : log[j].kind = "snapshot"}}
  IN 1 + CHOOSE n \in used : \A u \in used : u <= n

WriteSnapshot ==
  /\ Complete(noted, log)
  /\ Cardinality(files) < MaxSnapshots /\ nextId <= MaxEvents
  /\ files' = files \cup {[name |-> FreshName, at |-> noted.at,
                            content |-> Snapshotted(memory)]}
  /\ call' = [op |-> "snapshot", added |-> FALSE,
              todo |-> <<Event("snapshot", FreshName, noted.at)>>]

CreateSnapshot ==
  /\ Free /\ "snapshot" \in scope
  /\ WriteSnapshot
  /\ UNCHANGED <<log, nextId, memory, noted, index, due, up, mishaps, scope, clean, faults>>

(* The end of save_analysis, after it released the mutex; others may have     *)
(* come in between.  A snapshot that is refused is an exception, which        *)
(* changes nothing here.                                                      *)
AutomaticSnapshot ==
  /\ Free /\ due /\ due' = FALSE
  /\ IF Complete(noted, log) THEN WriteSnapshot ELSE UNCHANGED <<files, call>>
  /\ UNCHANGED <<log, nextId, memory, noted, index, up, mishaps, scope, clean, faults>>

(* compact_storage: the log is replaced in one step (see EventLog), its new   *)
(* marker noted, and with it every event that follows the last one noted.     *)
CompactStorage ==
  LET compacted == Append(Retained(log), Stamped(Event("compacted", None, 0), nextId))
      unapplied == {i \in DOMAIN log : log[i].id > noted.at}
  IN /\ Free /\ "compact" \in scope /\ nextId <= MaxEvents
     /\ log # <<>>
     /\ log' = compacted
     /\ nextId' = nextId + 1
     /\ noted' = NotedFrom(noted, compacted)
     /\ index' = Indexed(memory, files) /\ clean' = TRUE
     /\ faults' = faults \cup IF unapplied # {} THEN {"noted"} ELSE {}
     /\ UNCHANGED <<memory, files, call, due, up, mishaps, scope>>

-----------------------------------------------------------------------------
SnapshotIsDue(m) ==
  LET analysed == Cardinality({g \in Games : "deep" \in m.games[g]})
  IN analysed > 0 /\ analysed % SnapshotEvery = 0

(* The next event is appended and applied; after the last one the indexes are *)
(* rebuilt and the mutex is released.                                         *)
AppendNext ==
  LET e == Stamped(Head(call.todo), nextId)
      last == Len(call.todo) = 1
  IN /\ up /\ call # NoCall
     /\ log' = Append(log, e)
     /\ nextId' = nextId + 1
     /\ memory' = Applied(memory, e)
     /\ noted' = Noted(noted, e)
     /\ call' = IF last THEN NoCall
                ELSE [call EXCEPT !.todo = Tail(@), !.added = @ \/ e.kind = "parsed"]
     /\ IF last /\ Rebuilds(call.op)
        THEN index' = Indexed(memory', files) /\ clean' = TRUE
        ELSE UNCHANGED <<index, clean>>
     /\ due' = (due \/ (last /\ call.op = "analysis" /\ SnapshotIsDue(memory')))
     /\ UNCHANGED <<files, up, mishaps, scope, faults>>

(* append() throws, with nothing written or with the event in the file; its   *)
(* id is given again.  Only the failure of a rating goes unnoticed.           *)
AppendFails(how) ==
  LET e == Stamped(Head(call.todo), nextId)
      last == Len(call.todo) = 1
      swallowed == e.kind = "rating"
  IN /\ up /\ call # NoCall
     /\ mishaps < MaxMishaps /\ mishaps' = mishaps + 1
     /\ log' = IF how = "sync" THEN Append(log, e) ELSE log
     /\ call' = IF swallowed /\ ~last THEN [call EXCEPT !.todo = Tail(@)] ELSE NoCall
     /\ IF call.added \/ (swallowed /\ last)
        THEN /\ index' = IF call' = NoCall THEN Indexed(memory, files) ELSE index
             /\ clean' = (clean \/ call' = NoCall)
        ELSE /\ clean' = (clean /\ swallowed)
             /\ UNCHANGED index
     /\ faults' = faults \cup {"append"} \cup ({how} \cap {"sync"})
     /\ UNCHANGED <<nextId, memory, noted, files, due, up, scope>>

(* The process ends.  An event being appended may be in the log; a snapshot   *)
(* file may be gone, as its directory is never synced.                        *)
Crash ==
  /\ up /\ up' = FALSE
  /\ mishaps < MaxMishaps /\ mishaps' = mishaps + 1
  /\ \/ log' = log
     \/ call # NoCall /\ log' = Append(log, Stamped(Head(call.todo), nextId))
  /\ files' \in SUBSET files
  /\ call' = NoCall /\ due' = FALSE
  /\ memory' = Empty /\ noted' = [at |-> 0, whole |-> TRUE]
  /\ UNCHANGED <<nextId, index, scope, clean, faults>>

(* The constructors of the log and of the repository.                         *)
Restart ==
  /\ ~up /\ up' = TRUE
  /\ nextId' = 1 + CHOOSE n \in {0} \cup {e.id : e \in Range(log)} :
                     \A e \in Range(log) : e.id <= n
  /\ memory' = Rebuilt(log, files)
  /\ noted' = [at |-> LastId(log), whole |-> TRUE]
  /\ index' = Indexed(memory', files) /\ clean' = TRUE
  /\ faults' = faults \ {"append"}
  /\ UNCHANGED <<log, files, call, due, mishaps, scope>>

Next ==
  \/ \E gs \in {<<g>> : g \in Games} \cup {s \in Games \X Games : s[1] # s[2]},
        rated \in BOOLEAN : Import(gs, rated)
  \/ \E g \in Games : SaveShallow(g) \/ CreateVariation(g) \/ RecordReview(g)
  \/ \E g \in Games, b \in BOOLEAN : SaveAnalysis(g, b)
  \/ \E g \in Games, status \in {"queued", "complete"} : RecordJobState(g, status)
  \/ \E d \in Corpus : AddValidatedDrill(d)
  \/ \E d \in Drills : BeginDrillSession(d) \/ AdvanceHint(d)
  \/ \E d \in Drills, correct \in BOOLEAN : RecordAttempt(d, correct)
  \/ \E rs \in {<<r>> : r \in Resources \ memory.recommended}
              \cup {s \in Resources \X Resources :
                      s[1] # s[2] /\ Range(s) \cap memory.recommended = {}} : Recommend(rs)
  \/ \E r \in Resources : CompleteResource(r)
  \/ \E b \in BOOLEAN : SetBackgroundPaused(b)
  \/ CreateBatch
  \/ \E p \in 1..2 : SaveProfile(p)
  \/ \E entries \in SUBSET Entries : IndexChunk(entries)
  \/ \E m \in Months : CheckpointMonth(m)
  \/ \E status \in {"running", "succeeded"} : SaveSyncState(status)
  \/ \E n \in DOMAIN memory.lines, node \in 0..MaxEvents :
        ExtendVariation(n, node) \/ SetCursor(n, node)
  \/ \E n \in DOMAIN memory.lines : DeleteVariation(n)
  \/ CreateSnapshot \/ AutomaticSnapshot \/ CompactStorage
  \/ AppendNext \/ \E how \in Failures : AppendFails(how)
  \/ Crash \/ Restart

Spec == Init /\ [][Next]_vars

-----------------------------------------------------------------------------
(* What the repository promises.                                              *)

(* The projections as a client sees them: a variation's id may be given again *)
(* once compaction has dropped the deleted variation that had it.             *)
View(m) == [m EXCEPT !.games = Snapshotted(m).games, !.next.line = 0]

(* The variables keep their types, ids are bounded, nothing is noted that is  *)
(* not in the log, and only stored games have analyses (repository.hpp).      *)
TypeOK ==
  /\ \A i \in DOMAIN log : log[i].id \in 1..MaxEvents
  /\ nextId \in 1..(MaxEvents + 1)
  /\ noted.whole \in BOOLEAN /\ noted.at \in 0..LastId(log)
  /\ \A g \in Games : memory.games[g] # {} => "game" \in memory.games[g]
  /\ \A d \in Drills : memory.drills[d].hint \in 0..3
  /\ Cardinality(files) <= MaxSnapshots
  /\ call.op \in Operations \cup {None} /\ (call.todo = <<>>) = (call.op = None)
  /\ {up, due, clean} \subseteq BOOLEAN

(* Whatever snapshot files a power loss leaves, a restart between two calls   *)
(* shows what the process showed before it, ids to be given included, unless  *)
(* an append threw or compaction counted an unapplied event as applied.       *)
RestartIsInvisible ==
  Free /\ faults = {} =>
    \A fs \in SUBSET files : View(Rebuilt(log, fs)) = View(memory)

(* What the process has shown is never lost, whatever failed: after a restart *)
(* at any moment, with any of the snapshot files, the same games, analyses,   *)
(* drills, attempts, reviews, completions and archive entries are there.      *)
ShownIsKept ==
  up => \A fs \in SUBSET files :
    LET m == Rebuilt(log, fs)
    IN /\ \A g \in Games : memory.games[g] \ {"shallow"} \subseteq m.games[g]
       /\ \A d \in Drills :
            /\ memory.drills[d].made => m.drills[d].made
            /\ Range(memory.drills[d].attempts) \subseteq Range(m.drills[d].attempts)
       /\ memory.reviews \subseteq m.reviews
       /\ memory.completed \subseteq m.completed
       /\ memory.archive \subseteq m.archive

(* After a crash between any two appends no projection refers to what is not  *)
(* there: a drill of a game implies its analysis, a variation its game; and   *)
(* unless an attempt is in the log that was never applied, each attempt has   *)
(* an id of its own.                                                          *)
DependentsComplete ==
  \A fs \in SUBSET files :
    LET m == Rebuilt(log, fs)
        recorded == {p \in Drills \X (1..MaxEvents) : p[2] \in DOMAIN m.drills[p[1]].attempts}
        IdOf(p) == m.drills[p[1]].attempts[p[2]].id
    IN /\ \A g \in Games : m.drills[g].made => {"game", "deep"} \subseteq m.games[g]
       /\ \A n \in DOMAIN m.lines : "game" \in m.games[m.lines[n].game]
       /\ faults \cap {"sync", "noted"} = {} =>
            \A p, q \in recorded : p # q => IdOf(p) # IdOf(q)

(* After a call that did not throw the index files show the projections and   *)
(* list the snapshots, whichever calls came before it.                        *)
IndexCurrent == Free /\ clean => index = Indexed(memory, files)

(* Compaction changes nothing a restart would show, with or without           *)
(* snapshots, unless an event was written whose append failed.                *)
CompactionKeepsView ==
  [][CompactStorage /\ faults \cap {"sync", "noted"} = {} =>
       \A fs \in SUBSET files : View(Rebuilt(log', fs)) = View(Rebuilt(log, fs))]_vars
=============================================================================
