------------------------------ MODULE EventLog ------------------------------
(* storage::EventLog (src/src/storage/event_log.cpp): the append-only file    *)
(* every projection of the tutor is rebuilt from, with the startup of main()  *)
(* that opens it and the crashes its format is meant for.                     *)
(*                                                                            *)
(* The mutex of the log serialises its methods, so one call is under way at a *)
(* time; a step here is one system call, because a crash falls between two.   *)
(*                                                                            *)
(* A record is a sequence of cells: 1 holds magic to record_length, 2 the     *)
(* rest of the header, the last one the checksum.  Bounds of the abstraction: *)
(* a tear falls between two cells, cells are equally wide, no payload holds   *)
(* the magic, and two different records never agree on a checksum.            *)
(* The disk: fsync makes the whole file durable; without it a power loss      *)
(* leaves any prefix the file had since the last one.  The log file exists    *)
(* before the first step.                                                     *)
EXTENDS Integers, Sequences, FiniteSets, Subsequences

CONSTANTS
  Keys,         \* the games, drills, ... events are about
  Sizes,        \* the length, in cells, of the records about each key
  MaxRecords,   \* bound: records begun, those of compaction included
  Failures      \* the system calls that may fail: "write", "sync", "directory";
                \* "short": write() may write less than it was given

(* event_log.cpp: minimum_record_size, header and checksum.                   *)
MinRecord == 3

ASSUME LogBounds ==
  /\ Keys # {} /\ Sizes \in [Keys -> Nat] /\ \A k \in Keys : Sizes[k] >= MinRecord
  /\ MaxRecords \in Nat
  /\ Failures \subseteq {"write", "short", "sync", "directory"}

(* What compaction tells apart: "deep" (AnalysisCompleted, always kept),      *)
(* "shallow", "latest" (the last of its key is kept: job states, drill        *)
(* sessions, months, ...), "migrated" (SchemaMigrated), "marker"              *)
(* (LogCompacted).                                                            *)
Kinds == {"deep", "shallow", "latest"}
NoKey == "none"

VARIABLES
  file,       \* the cells of the log, as the process reads them
  disk,       \* what a power loss may leave of the file
  stale,      \* what it may leave of files that were replaced
  up,         \* the process runs
  nextId,     \* EventLog::next_id_
  doing,      \* the call under way, at the system call it is about to make
  pending,    \* the event being appended
  written,    \* its cells written so far
  temp,       \* the compacted log, before it replaces the file
  begun,      \* records begun
  acked,      \* the events append() returned
  sound,      \* those it returned before a call failed that damages the log
  faults      \* the damage so far: "write" (a torn record), "sync", "directory"
              \* (a directory not synced), "rename" (killed before syncing it)

vars == <<file, disk, stale, up, nextId, doing, pending, written, temp, begun, acked,
          sound, faults>>
fileVars == <<file, disk, stale>>
callVars == <<pending, written, temp>>
ghosts == <<acked, sound, faults>>

Event(kind, key, id, size, serial, schema) ==
  [kind |-> kind, key |-> key, id |-> id, size |-> size, serial |-> serial,
   schema |-> schema]

(* EventLog::serialize.                                                       *)
Record(e) == [i \in 1..e.size |-> [of |-> e, at |-> i]]
Records(events) ==
  LET joined[n \in 0..Len(events)] ==
        IF n = 0 THEN <<>> ELSE joined[n - 1] \o Record(events[n])
  IN joined[Len(events)]

-----------------------------------------------------------------------------
(* Replay.                                                                    *)

(* find_magic: the next offset a record may start at, the end if there is none.*)
NextMagic(f, o) ==
  CHOOSE i \in (o + 1)..Len(f) :
    /\ i = Len(f) \/ f[i + 1].at = 1
    /\ \A j \in (o + 1)..(i - 1) : f[j + 1].at # 1

(* A whole header: the magic, and a payload length that fits the record's.    *)
HeaderAt(f, o) ==
  /\ f[o + 1].at = 1
  /\ f[o + 2].at = 2 /\ f[o + 2].of.size = f[o + 1].of.size

(* EventLog::replay_unlocked: the events that can be read from offset o on,   *)
(* whether corruption was met, whether the file ends in a partial record, and *)
(* the length of the part before the first corruption.                        *)
Replay(f) ==
  LET Stop(torn) == [events |-> <<>>, corrupt |-> FALSE, torn |-> torn, valid |-> 0]
      Corrupted(rest) == [rest EXCEPT !.corrupt = TRUE, !.valid = 0]
      scan[o \in 0..Len(f)] ==
        LET left == Len(f) - o
            e == f[o + 1].of
        IN CASE left < MinRecord -> Stop(left > 0)
             [] left >= MinRecord /\ ~HeaderAt(f, o) -> Corrupted(scan[NextMagic(f, o)])
             [] OTHER ->
                  IF left < e.size THEN Stop(TRUE)
                  ELSE IF SubSeq(f, o + 1, o + e.size) # Record(e)
                  THEN Corrupted(scan[o + e.size])
                  ELSE LET rest == scan[o + e.size]
                       IN [rest EXCEPT !.events = <<e>> \o @, !.valid = e.size + @]
  IN scan[0]

(* Fault: startup leaves a partial record where it is.                        *)
Unrecovered(f) == f

(* EventLog::recover_trailing_record, as main() calls it.                     *)
Recovered(f) ==
  LET r == Replay(f)
  IN IF r.torn /\ ~r.corrupt THEN SubSeq(f, 1, r.valid) ELSE f

(* Fault: the events are counted, as if no id were ever skipped.              *)
CountedId(events) == Len(events) + 1

(* Fault: the constructor skips an id.                                        *)
SkippedId(events) ==
  2 + CHOOSE m \in {0} \cup {events[i].id : i \in 1..Len(events)} :
        \A i \in 1..Len(events) : events[i].id <= m

(* The constructor: one more than the highest id that can be read.            *)
FreshId(events) ==
  1 + CHOOSE m \in {0} \cup {events[i].id : i \in 1..Len(events)} :
        \A i \in 1..Len(events) : events[i].id <= m

-----------------------------------------------------------------------------
(* Compaction: which events may go.                                           *)

(* A later event x makes e redundant.                                         *)
Overrides(x, e) ==
  \/ e.kind \in {"latest", "migrated"} /\ x.kind = e.kind /\ x.key = e.key
  \/ e.kind = "shallow" /\ x.kind \in {"shallow", "deep"} /\ x.key = e.key

(* Fault: the log is walked forwards, so the first of a key is kept.          *)
RedundantByFirst(events, i) ==
  \/ events[i].kind = "marker"
  \/ \E j \in 1..(i - 1) : Overrides(events[j], events[i])

Redundant(events, i) ==
  \/ events[i].kind = "marker"
  \/ \E j \in (i + 1)..Len(events) : Overrides(events[j], events[i])

(* The events compaction keeps, in their order and in the current schema, and *)
(* the ones it adds, under the ids from nextId on.                            *)
Kept(events) ==
  LET kept == Picked(events, {i \in DOMAIN events : ~Redundant(events, i)})
  IN [n \in DOMAIN kept |-> [kept[n] EXCEPT !.schema = 2]]
Legacy(events) == \E i \in 1..Len(events) : events[i].schema < 2
Added(events) ==
  (IF Legacy(events)
   THEN <<Event("migrated", NoKey, nextId, MinRecord, begun + 1, 2)>> ELSE <<>>)
  \o LET n == IF Legacy(events) THEN 1 ELSE 0
     IN <<Event("marker", NoKey, nextId + n, MinRecord, begun + n + 1, 2)>>

-----------------------------------------------------------------------------
OldGame == Event("latest", CHOOSE k \in Keys : TRUE, 1, MinRecord, 0, 1)
NoEvent == Event("none", NoKey, 0, MinRecord, 0, 2)

(* The program finds an empty log, or one an older version wrote.             *)
Init ==
  /\ file \in {<<>>, Record(OldGame)}
  /\ disk = {file} /\ stale = {}
  /\ up = FALSE
  /\ nextId = 1
  /\ doing = "nothing"
  /\ pending = NoEvent /\ written = 0
  /\ temp = <<>>
  /\ begun = 0
  /\ acked = {} /\ sound = {} /\ faults = {}

(* main(): the constructor reads the ids, then a partial record is cut off;   *)
(* the cut is not synced.                                                     *)
Start ==
  /\ ~up /\ up' = TRUE
  /\ nextId' = FreshId(Replay(file).events)
  /\ file' = Recovered(file)
  /\ disk' = disk \cup {file'}
  /\ UNCHANGED <<stale, doing, callVars, begun, ghosts>>

Free == up /\ doing = "nothing"

(* The call under way returns, throws or dies, and its locals go with it.     *)
Leave ==
  /\ doing' = "nothing"
  /\ pending' = NoEvent /\ written' = 0 /\ temp' = <<>>

(* append(): the event takes the next id and its record is built.             *)
BeginAppend(kind, key) ==
  /\ Free /\ begun < MaxRecords
  /\ begun' = begun + 1
  /\ pending' = Event(kind, key, nextId, Sizes[key], begun + 1, 2)
  /\ written' = 0
  /\ doing' = "writing"
  /\ UNCHANGED <<fileVars, up, nextId, temp, ghosts>>

(* One write(): it may be short, and the loop goes on where it stopped.       *)
Write(n) ==
  /\ up /\ doing = "writing" /\ written + n <= pending.size
  /\ "short" \in Failures \/ written + n = pending.size
  /\ LET grown(m) == file \o SubSeq(Record(pending), written + 1, written + m)
     IN /\ file' = grown(n)
        /\ disk' = disk \cup {grown(m) : m \in 1..n}
  /\ written' = written + n
  /\ doing' = IF written' = pending.size THEN "syncing" ELSE "writing"
  /\ UNCHANGED <<stale, up, nextId, pending, temp, begun, ghosts>>

(* append() throws; what was written stays in the file.                       *)
WriteFails ==
  /\ up /\ doing = "writing" /\ "write" \in Failures
  /\ Leave
  /\ faults' = IF written > 0 THEN faults \cup {"write"} ELSE faults
  /\ UNCHANGED <<fileVars, up, nextId, begun, acked, sound>>

(* Only a torn record or a rename that may be undone damages the log.         *)
Acknowledge ==
  /\ nextId' = nextId + 1
  /\ acked' = acked \cup {pending}
  /\ sound' = IF faults \subseteq {"sync"} THEN sound \cup {pending} ELSE sound
  /\ Leave

(* Fault: append() returns without the fsync.                                 *)
AppendUnsynced ==
  /\ up /\ doing = "syncing"
  /\ Acknowledge
  /\ UNCHANGED <<fileVars, up, begun, faults>>

SyncAppend ==
  /\ up /\ doing = "syncing"
  /\ disk' = {file}
  /\ Acknowledge
  /\ UNCHANGED <<file, stale, up, begun, faults>>

(* append() throws with the record in the file and its id still to be given.  *)
SyncFails ==
  /\ up /\ doing = "syncing" /\ "sync" \in Failures
  /\ Leave
  /\ faults' = faults \cup {"sync"}
  /\ UNCHANGED <<fileVars, up, nextId, begun, acked, sound>>

(* compact(): refused on a log with any defect; else the kept and the added   *)
(* events are written to a temporary file, synced and read back.              *)
Compact ==
  LET r == Replay(file)
      events == Kept(r.events) \o Added(r.events)
  IN /\ Free /\ ~r.corrupt /\ ~r.torn
     /\ begun + Len(Added(r.events)) <= MaxRecords
     /\ begun' = begun + Len(Added(r.events))
     /\ temp' = Records(events)
     /\ Replay(temp') = [events |-> events, corrupt |-> FALSE, torn |-> FALSE,
                         valid |-> Len(temp')]
     /\ doing' = "replacing"
     /\ UNCHANGED <<fileVars, up, nextId, pending, written, ghosts>>

(* The temporary file cannot be written or synced and is removed.             *)
CompactFails ==
  /\ up /\ doing = "replacing" /\ Failures # {}
  /\ Leave
  /\ UNCHANGED <<fileVars, up, nextId, begun, ghosts>>

(* rename(): the old file is still what a power loss may bring back.          *)
Replace ==
  /\ up /\ doing = "replacing"
  /\ file' = temp /\ disk' = {temp} /\ stale' = stale \cup disk
  /\ doing' = "replaced"
  /\ UNCHANGED <<up, nextId, callVars, begun, ghosts>>

(* fsync_parent_directory, and the next id after the marker's.                *)
SyncDirectory ==
  /\ up /\ doing = "replaced"
  /\ stale' = {}
  /\ nextId' = temp[Len(temp)].of.id + 1
  /\ Leave
  /\ UNCHANGED <<file, disk, up, begun, ghosts>>

(* compact() throws after the rename, before the next id is advanced.         *)
DirectoryFails ==
  /\ up /\ doing = "replaced" /\ "directory" \in Failures
  /\ Leave
  /\ faults' = faults \cup {"directory"}
  /\ UNCHANGED <<fileVars, up, nextId, begun, acked, sound>>

(* What every crash does to the process; compaction's file is truncated by the*)
(* next one.                                                                  *)
Die ==
  /\ up /\ up' = FALSE /\ nextId' = 1
  /\ Leave
  /\ UNCHANGED <<begun, acked, sound>>

(* The process dies: the kernel keeps what was written, and a rename whose    *)
(* directory was not synced is never synced by the next process.              *)
Kill ==
  /\ Die
  /\ faults' = IF doing = "replaced" THEN faults \cup {"rename"} ELSE faults
  /\ UNCHANGED fileVars

(* The machine dies: any of the contents that were not made durable is found. *)
PowerLoss ==
  /\ Die
  /\ UNCHANGED faults
  /\ \E f \in disk \cup stale : file' = f /\ disk' = {f}
  /\ stale' = {}

Next ==
  \/ Start
  \/ \E kind \in Kinds, key \in Keys : BeginAppend(kind, key)
  \/ \E n \in 1..pending.size : Write(n)
  \/ WriteFails \/ SyncAppend \/ SyncFails
  \/ Compact \/ CompactFails \/ Replace \/ SyncDirectory \/ DirectoryFails
  \/ Kill \/ PowerLoss

Spec == Init /\ [][Next]_vars

-----------------------------------------------------------------------------
(* What the log promises.                                                     *)

(* Every content the next startup may find.                                   *)
Possible == {file} \cup disk \cup stale

(* e can be read from f, or a later event that makes it redundant can.        *)
Stands(e, f) ==
  LET events == Replay(f).events
  IN \E i \in 1..Len(events) :
       \/ events[i].serial = e.serial
       \/ events[i].serial > e.serial /\ Overrides(events[i], e)

(* What the projections of the repository keep of a log: everything of the    *)
(* kinds that accumulate, the last value of the others, and of a game's two   *)
(* analyses the deep one.                                                     *)
Projection(f) ==
  LET events == Replay(f).events
      At(i, kinds) == events[i].kind \in kinds
      Last(i) == \A j \in (i + 1)..Len(events) :
                   ~(events[j].kind = events[i].kind /\ events[j].key = events[i].key)
      Deep(k) == \E i \in 1..Len(events) : At(i, {"deep"}) /\ events[i].key = k
  IN [latest |-> {events[i].serial : i \in {n \in 1..Len(events) :
                                              At(n, {"latest", "deep"}) /\ Last(n)}},
      shallow |-> {events[i].serial : i \in {n \in 1..Len(events) :
                                               /\ At(n, {"shallow"}) /\ Last(n)
                                               /\ ~Deep(events[n].key)}}]

(* The variables are what the code's types allow, and an id is never further  *)
(* ahead than the records begun (event_log.hpp: next_id_).                    *)
TypeOK ==
  /\ up \in BOOLEAN /\ nextId \in 1..(MaxRecords + 2)
  /\ doing \in {"nothing", "writing", "syncing", "replacing", "replaced"}
  /\ pending = NoEvent \/ (pending.kind \in Kinds /\ pending.size = Sizes[pending.key])
  /\ (pending = NoEvent) <=> (doing \notin {"writing", "syncing"})
  /\ written \in 0..pending.size
  /\ begun \in 0..MaxRecords /\ nextId <= begun + 2
  /\ file \in disk
  /\ sound \subseteq acked /\ faults \subseteq Failures \cup {"rename"}

(* An event append() returned is never lost, whatever crash comes next and    *)
(* whatever compaction ran in between, as long as no earlier failed write     *)
(* tore a record and no replaced directory entry was left unsynced.           *)
AcknowledgedSurvive == \A f \in Possible : \A e \in sound : Stands(e, f)

(* Unless a write failed half-way, whatever a crash leaves is a log whose     *)
(* only defect is a partial last record, which startup removes; a log in use  *)
(* has none.                                                                  *)
OnlyTailTorn ==
  "write" \notin faults =>
    /\ \A f \in Possible : ~Replay(f).corrupt
    /\ Free => ~Replay(file).torn

(* Ids increase along the log, whatever crash comes next, and the next id to  *)
(* be given is new; a failed fsync may give one twice, and only a rename that *)
(* could not be made durable may set them back.                               *)
IdsInOrder ==
  LET Before(m, n) == IF "sync" \notin faults THEN m < n ELSE m <= n
  IN "directory" \notin faults =>
       /\ \A f \in Possible :
            LET events == Replay(f).events
            IN \A i, j \in 1..Len(events) : i < j => Before(events[i].id, events[j].id)
       /\ Free => LET events == Replay(file).events
                  IN \A i \in 1..Len(events) : Before(events[i].id, nextId)

(* Replacing the log by its compaction does not change what the repository    *)
(* would rebuild from it.                                                     *)
CompactionKeepsState == [][Replace => Projection(file') = Projection(file)]_vars

(* The promise as release/storage.html:3 states it: previously acknowledged   *)
(* events are never discarded.                                                *)
AllAcknowledgedSurvive == \A f \in Possible : \A e \in acked : Stands(e, f)
=============================================================================
