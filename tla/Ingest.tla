------------------------------- MODULE Ingest -------------------------------
(* The ingest manager: a worker that resolves game URLs and a worker that     *)
(* synchronizes a player's recent archive month by month, under the mutex of  *)
(* the manager, with the repository they write to and the profile a client    *)
(* may change meanwhile.  Times are ticks of the system clock.                *)
EXTENDS ChessCom, Functions

CONSTANTS
  Days,            \* the windows clients ask for, in days
  Span,            \* Span[d]: the ticks in a window of d days
  MaxPending,      \* options_.max_pending
  MaxHistory,      \* options_.max_history
  Nobody,          \* no username
  MaxNow,          \* bound on the clock
  Scopes           \* what a behaviour may use: operations, usernames and games clients
                   \* name, days, the clock's first and last value, and the bounds on the
                   \* resolutions and syncs of one lifetime and on mishaps (crashes,
                   \* shutdowns and failed saves)

ASSUME WindowAssumption == Days \subseteq {7, 30, 90} /\ Span \in [Days -> Nat]
ASSUME OptionsAssumption == MaxPending \in Nat \ {0} /\ MaxHistory \in Nat \ {0}
ASSUME ScopesAssumption ==
  MaxNow \in Nat /\ \A s \in Scopes :
    /\ s.first \in 0..MaxNow /\ s.last \in 0..MaxNow /\ s.mishaps \in Nat
    /\ s.users \subseteq Users /\ s.games \subseteq Games /\ s.days \subseteq Days

VARIABLES
  scope,        \* the operations of this behaviour
  now,          \* the clock
  up,           \* the program runs
  stopping,     \* the destructor has begun
  resolutions,  \* resolutions_, by number
  asked,        \* interactive_queue_
  active,       \* active_canonical_resolutions_
  stopped,      \* the resolutions whose token is stopped
  syncs,        \* syncs_ and sync_runtime_, by number
  waiting,      \* historical_queue_
  current,      \* current_sync_
  halted,       \* the syncs whose token is stopped
  finder,       \* the interactive worker and its locals
  walker,       \* the historical worker and its locals
  late,         \* the states cancel_sync has still to save
  next,         \* next_resolution_id_ and next_sync_id_
  store,        \* the repository
  mishaps

memory == <<stopping, resolutions, asked, active, stopped, syncs, waiting, current, halted,
            finder, walker, late, next>>
vars == <<scope, now, up, memory, store, mishaps>>

-----------------------------------------------------------------------------
Live == {"queued", "running"}
NoSync == [user |-> Nobody, days |-> 0, upper |-> 0, at |-> 0, status |-> "idle"]
Idle == [at |-> "idle"]
Months == {Month(t) : t \in 0..MaxNow}

SearchedMonths == 2
MonthsFor(days) == IF days = 90 THEN 4 ELSE 2
Low(s) == s.upper - Span[s.days]

(* Fault: the oldest entries go, ended or not. *)
TrimmedBlindly(f) ==
  LET gone == {i \in DOMAIN f :
                 Cardinality({j \in DOMAIN f : j <= i}) + MaxHistory <= Cardinality(DOMAIN f)}
  IN Restrict(f, DOMAIN f \ gone)

\* trim_history_unlocked: the oldest entries go while there are too many and
\* the oldest one has ended.
Trimmed(f) ==
  LET upTo(i) == {j \in DOMAIN f : j <= i}
      gone == {i \in DOMAIN f :
                 /\ Cardinality(upTo(i)) + MaxHistory <= Cardinality(DOMAIN f)
                 /\ \A j \in upTo(i) : f[j].status \notin Live}
  IN Restrict(f, DOMAIN f \ gone)

(* Fault: a queue takes one more than its bound. *)
FullBeyond(queue) == Len(queue) > MaxPending

Full(queue) == Len(queue) >= MaxPending

(* Fault: a cancellation is forgotten when the work ends. *)
SettledAnyway(was, is) == is

\* Work that was cancelled meanwhile does not end otherwise.
Settled(was, is) == IF was = "cancelled" THEN was ELSE is

With(f, i, v) == [j \in DOMAIN f \cup {i} |-> IF j = i THEN v ELSE f[j]]
Without(f, i) == Restrict(f, DOMAIN f \ {i})
Others(queue, i) == Picked(queue, {k \in DOMAIN queue : queue[k] # i})

-----------------------------------------------------------------------------
(* What the repository does with what the manager gives it.                   *)
EmptyStore ==
  [profile |-> Nobody, sync |-> NoSync, marks |-> <<>>, archive |-> {}, games |-> {}]

MayFail == "failure" \in scope.ops /\ mishaps < scope.mishaps
Mishap == mishaps' = mishaps + 1

\* save_chesscom_sync_state: refused when it is older than what is stored.
Saved(s) == store' = [store EXCEPT !.sync = s]
Stale(s) == s.at < store.sync.at
Record(s, status) ==
  [user |-> s.user, days |-> s.days, upper |-> s.upper, at |-> s.at, status |-> status]

\* checkpoint_chesscom_month.  The window is not part of the record: it tells
\* the properties which games of the month the sync had kept.
Marked(s, m) ==
  [store EXCEPT !.marks = With(@, <<s.user, m>>, [low |-> Low(s), high |-> s.upper])]
Checkpointed(s, m) == <<s.user, m>> \in DOMAIN store.marks

\* The memory of a program that is not running, or has just started.
Blank ==
  /\ stopping' = FALSE /\ resolutions' = <<>> /\ asked' = <<>> /\ active' = <<>>
  /\ stopped' = {} /\ halted' = {} /\ finder' = Idle /\ walker' = Idle /\ late' = {}

\* An exception no handler of a worker catches ends the program.
Terminates ==
  /\ up' = FALSE
  /\ Blank /\ syncs' = <<>> /\ waiting' = <<>> /\ current' = 0
  /\ next' = [resolution |-> 1, sync |-> 1]
  /\ Mishap
  /\ UNCHANGED <<scope, now, store>>

Client(op) == up /\ ~stopping /\ op \in scope.ops

-----------------------------------------------------------------------------
(* Clients, through the HTTP API.                                             *)

\* configure_profile: PUT of the profile.
ConfigureProfile(u) ==
  /\ Client("configure")
  /\ store' = [store EXCEPT !.profile = u]
  /\ UNCHANGED <<scope, now, up, memory, mishaps>>

\* resolve: the profile is saved first; a URL that is being resolved is not
\* resolved twice.
Resolve(g, u) ==
  LET i == next.resolution
      user == IF u = Nobody THEN store.profile ELSE u
      new == [game |-> g, user |-> user, status |-> "queued"]
      known == g \in DOMAIN active
      full == Full(asked)
  IN /\ Client("resolve") /\ i <= scope.resolutions
     /\ store' = [store EXCEPT !.profile = user]
     /\ IF known \/ full
        THEN UNCHANGED <<resolutions, active, asked, next>>
        ELSE /\ resolutions' = Trimmed(With(resolutions, i, new))
             /\ active' = With(active, g, i)
             /\ asked' = Append(asked, i)
             /\ next' = [next EXCEPT !.resolution = i + 1]
     /\ UNCHANGED <<scope, now, up, stopping, stopped, syncs, waiting, current, halted, finder,
                    walker, late, mishaps>>

CancelResolution(i) ==
  /\ Client("cancel")
  /\ resolutions[i].status \in Live
  /\ stopped' = stopped \cup {i}
  /\ resolutions' = [resolutions EXCEPT ![i].status = "cancelled"]
  /\ active' = Without(active, resolutions[i].game)
  /\ asked' = Others(asked, i)
  /\ UNCHANGED <<scope, now, up, stopping, syncs, waiting, current, halted, finder, walker, late,
                 next, store, mishaps>>

\* The direct imports, on the client's thread: from the archive, or else from
\* Chess.com without a token to stop it.
ImportUrl(g, u) ==
  /\ Client("import")
  /\ g \in store.archive \/ "done" \in FromUrlEnds(g, {u} \ {Nobody}, now, FALSE)
  /\ \/ store' = [store EXCEPT !.games = @ \cup {g}] /\ UNCHANGED mishaps
     \/ MayFail /\ Mishap /\ UNCHANGED store
  /\ UNCHANGED <<scope, now, up, memory>>

\* start_sync: one at a time, recorded before it is queued.  A supplied name
\* becomes the profile, and stays the profile when recording the sync fails.
Busy == current # 0 /\ syncs[current].status \in Live
StartSync(d, u) ==
  LET i == next.sync
      user == IF u = Nobody THEN store.profile ELSE u
      new == [user |-> user, days |-> d, upper |-> now, at |-> now, status |-> "queued",
              archives |-> <<>>, taken |-> 0, discovered |-> FALSE, skipped |-> {}]
      recorded == Record(new, "running")
  IN /\ Client("sync") /\ i <= scope.syncs /\ user # Nobody
     /\ ~Busy /\ ~Full(waiting)
     /\ \/ /\ store' = [store EXCEPT !.profile = user, !.sync = recorded]
           /\ syncs' = Trimmed(With(syncs, i, new))
           /\ current' = i
           /\ waiting' = Append(waiting, i)
           /\ next' = [next EXCEPT !.sync = i + 1]
           /\ UNCHANGED mishaps
        \/ /\ MayFail /\ Mishap
           /\ store' = [store EXCEPT !.profile = user]
           /\ next' = [next EXCEPT !.sync = i + 1]
           /\ UNCHANGED <<syncs, current, waiting>>
     /\ UNCHANGED <<scope, now, up, stopping, resolutions, asked, active, stopped, halted, finder,
                    walker, late>>

\* cancel_sync: the state changes under the mutex and is recorded after it.
CancelSync(i) ==
  LET ended == [syncs[i] EXCEPT !.status = "cancelled", !.at = now]
  IN /\ Client("cancel")
     /\ syncs[i].status \in Live
     /\ halted' = halted \cup {i}
     /\ syncs' = [syncs EXCEPT ![i] = ended]
     /\ waiting' = Others(waiting, i)
     /\ late' = late \cup {Record(ended, "paused")}
     /\ UNCHANGED <<scope, now, up, stopping, resolutions, asked, active, stopped, current,
                    finder, walker, next, store, mishaps>>
RecordCancelled(s) ==
  /\ up
  /\ late' = late \ {s}
  /\ \/ ~Stale(s) /\ Saved(s) /\ UNCHANGED mishaps
     \/ Stale(s) /\ UNCHANGED <<store, mishaps>>        \* the client sees the error
     \/ MayFail /\ Mishap /\ UNCHANGED store
  /\ UNCHANGED <<scope, now, up, stopping, resolutions, asked, active, stopped, syncs, waiting,
                 current, halted, finder, walker, next>>

-----------------------------------------------------------------------------
(* The interactive worker: run_resolution.  f is its local state.             *)
FinderOnly == <<scope, now, up, stopping, asked, syncs, waiting, current, halted, walker, late,
                next>>
Quiet == <<resolutions, active, stopped, mishaps>>
f == finder
Goes(at) == finder' = [f EXCEPT !.at = at]
Concludes(status) == finder' = [f EXCEPT !.at = "end", !.status = status]
TokenStopped == f.id \in stopped

PopResolution ==
  /\ up /\ ~stopping /\ f.at = "idle" /\ asked # <<>>
  /\ finder' = [at |-> "begin", id |-> Head(asked)]
  /\ asked' = Tail(asked)
  /\ UNCHANGED <<scope, now, up, stopping, syncs, waiting, current, halted, walker, late, next,
                 Quiet, store>>

\* Between the pop and here the resolution may be cancelled, and trimmed.
BeginResolution ==
  /\ f.at = "begin"
  /\ IF f.id \notin DOMAIN resolutions \/ resolutions[f.id].status = "cancelled"
     THEN finder' = Idle /\ UNCHANGED resolutions
     ELSE /\ resolutions' = [resolutions EXCEPT ![f.id].status = "running"]
          /\ finder' = [at |-> "local", id |-> f.id, game |-> resolutions[f.id].game,
                        user |-> resolutions[f.id].user, status |-> "running",
                        users |-> <<>>, tried |-> {}, player |-> Nobody, months |-> <<>>]
  /\ UNCHANGED <<FinderOnly, active, stopped, mishaps, store>>

\* The local archive first, then the names on the game's public page; the
\* supplied or configured name comes last.
LookUp ==
  /\ f.at = "local"
  /\ \/ f.game \in store.archive /\ Goes("add")
     \/ /\ f.game \notin store.archive
        /\ \E end \in PageEnds(TokenStopped) :
             IF end = "cancelled" THEN Concludes("cancelled")
             ELSE \E named \in IF end = "done" THEN PagePlayers(f.game) ELSE {<<>>} :
                    finder' = [f EXCEPT !.at = "search",
                                 !.users = named \o (IF f.user = Nobody THEN <<>> ELSE <<f.user>>)]
  /\ UNCHANGED <<FinderOnly, Quiet, store>>

\* search_archive: a player's two newest months; a missing player is passed over.
SearchPlayer ==
  /\ f.at = "search" /\ f.users # <<>>
  /\ LET u == Head(f.users)
         rest == [f EXCEPT !.users = Tail(f.users), !.tried = @ \cup {u}, !.player = u]
     IN IF u \in f.tried THEN finder' = rest
        ELSE \E end \in ApiEnds(TokenStopped) :
               CASE end = "done" ->
                      finder' = [rest EXCEPT !.at = "month",
                                             !.months = Discovered(u, now, SearchedMonths)]
                 [] end = "absent" -> finder' = rest
                 [] end = "cancelled" -> Concludes("cancelled")
                 [] end = "failed" -> Concludes("needs_recovery")
  /\ UNCHANGED <<FinderOnly, Quiet, store>>

\* The games of a month go into the archive in chunks, and then the game is
\* looked for there.
SearchMonth ==
  /\ f.at = "month"
  /\ IF f.months = <<>> THEN Goes("search") /\ UNCHANGED <<store, mishaps>>
     ELSE \E end \in ApiEnds(TokenStopped) :
            \/ /\ end = "done"
               /\ LET page == MonthPage(f.player, Head(f.months), now)
                      archive == store.archive \cup page
                  IN \/ /\ store' = [store EXCEPT !.archive = archive]
                        /\ IF f.game \in archive THEN Goes("add")
                           ELSE finder' = [f EXCEPT !.months = Tail(f.months)]
                        /\ UNCHANGED mishaps
                     \/ /\ MayFail /\ Mishap
                        /\ \E part \in SUBSET page :
                             store' = [store EXCEPT !.archive = @ \cup part]
                        /\ Concludes("needs_recovery")
            \/ end = "absent" /\ Goes("search") /\ UNCHANGED <<store, mishaps>>
            \/ end = "cancelled" /\ Concludes("cancelled") /\ UNCHANGED <<store, mishaps>>
            \/ end = "failed" /\ Concludes("needs_recovery") /\ UNCHANGED <<store, mishaps>>
  /\ UNCHANGED <<FinderOnly, resolutions, active, stopped>>

\* from_url, when no archive had the game.
SearchPage ==
  /\ f.at = "search" /\ f.users = <<>>
  /\ \E end \in FromUrlEnds(f.game, {}, now, TokenStopped) :
       CASE end = "done" -> Goes("add")
         [] end = "cancelled" -> Concludes("cancelled")
         [] OTHER -> Concludes("needs_recovery")
  /\ UNCHANGED <<FinderOnly, Quiet, store>>

AddResolved ==
  /\ f.at = "add"
  /\ \/ /\ store' = [store EXCEPT !.games = @ \cup {f.game}]
        /\ Concludes("resolved") /\ UNCHANGED mishaps
     \/ MayFail /\ Mishap /\ Concludes("needs_recovery") /\ UNCHANGED store
  /\ UNCHANGED <<FinderOnly, resolutions, active, stopped>>

\* A cancelled resolution keeps its state; one that was trimmed meanwhile is
\* looked up with at() and is not there.
EndResolution ==
  /\ f.at = "end"
  /\ IF f.id \notin DOMAIN resolutions THEN Terminates
     ELSE /\ resolutions' =
               Trimmed([resolutions EXCEPT ![f.id].status = Settled(@, f.status)])
          /\ active' = Without(active, f.game)
          /\ finder' = Idle
          /\ UNCHANGED <<FinderOnly, stopped, mishaps, store>>

-----------------------------------------------------------------------------
(* The historical worker: run_sync_step, one month of one sync.  w is its     *)
(* local state; w.sync is the copy of the sync it took under the mutex.       *)
WalkerOnly == <<scope, now, up, stopping, resolutions, asked, active, stopped, halted, finder,
                late, next, current>>
w == walker
Steps(at) == walker' = [w EXCEPT !.at = at]
Ending(status) == walker' = [w EXCEPT !.at = "finish", !.end = status]
Halted == w.id \in halted
Kept == <<syncs, waiting>>
NoHarm == UNCHANGED mishaps

PopSync ==
  /\ up /\ ~stopping /\ w.at = "idle" /\ waiting # <<>>
  /\ walker' = [at |-> "begin", id |-> Head(waiting)]
  /\ waiting' = Tail(waiting)
  /\ UNCHANGED <<WalkerOnly, syncs, mishaps, store>>

BeginStep ==
  /\ w.at = "begin"
  /\ IF w.id \notin DOMAIN syncs \/ syncs[w.id].status = "cancelled"
     THEN walker' = Idle /\ UNCHANGED syncs
     ELSE LET taken == [syncs[w.id] EXCEPT !.status = "running", !.at = now]
          IN /\ syncs' = [syncs EXCEPT ![w.id] = taken]
             /\ walker' = [at |-> IF taken.discovered THEN "next" ELSE "discover", id |-> w.id,
                           sync |-> taken, months |-> <<>>, month |-> 0, page |-> {}, end |-> "running"]
  /\ UNCHANGED <<WalkerOnly, waiting, mishaps, store>>

\* What a failed call of the client makes of the sync.
Abandoned(end) == Ending(IF end = "cancelled" THEN "cancelled" ELSE "failed")

DiscoverMonths ==
  /\ w.at = "discover"
  /\ \E end \in ApiEnds(Halted) :
       IF end # "done" THEN Abandoned(end)
       ELSE walker' = [w EXCEPT !.at = "list",
                         !.months = Discovered(w.sync.user, now, MonthsFor(w.sync.days))]
  /\ UNCHANGED <<WalkerOnly, Kept, mishaps, store>>

\* The runtime is looked up again with at(): a sync that was cancelled and
\* trimmed meanwhile is not there.
ListMonths ==
  /\ w.at = "list"
  /\ IF w.id \notin DOMAIN syncs THEN Terminates
     ELSE /\ syncs' = [syncs EXCEPT ![w.id].archives = w.months, ![w.id].discovered = TRUE]
          /\ Steps("next")
          /\ UNCHANGED <<WalkerOnly, waiting, mishaps, store>>

(* Fault: the last month of the list is left out. *)
NextMonthButLast ==
  /\ w.at = "next"
  /\ IF w.id \notin DOMAIN syncs THEN Terminates
     ELSE LET s == syncs[w.id]
          IN /\ IF s.taken + 1 < Len(s.archives)
                THEN /\ syncs' = [syncs EXCEPT ![w.id].taken = s.taken + 1]
                     /\ walker' = [w EXCEPT !.at = "fetch", !.month = s.archives[s.taken + 1]]
                ELSE Ending("succeeded") /\ UNCHANGED syncs
             /\ UNCHANGED <<WalkerOnly, waiting, mishaps, store>>

\* The next month of the list; there is none when the sync has succeeded.
NextMonth ==
  /\ w.at = "next"
  /\ IF w.id \notin DOMAIN syncs THEN Terminates
     ELSE LET s == syncs[w.id]
          IN /\ IF s.taken < Len(s.archives)
                THEN /\ syncs' = [syncs EXCEPT ![w.id].taken = s.taken + 1]
                     /\ walker' = [w EXCEPT !.at = "fetch", !.month = s.archives[s.taken + 1]]
                ELSE Ending("succeeded") /\ UNCHANGED syncs
             /\ UNCHANGED <<WalkerOnly, waiting, mishaps, store>>

\* A month with a checkpoint is read again only when it is the month of the
\* upper bound.  Games that ended outside the window, or at a time the PGN does
\* not tell, are left out.  "skipped" only tells WindowStored what was not read.
Skips(s, m) == Checkpointed(s, m) /\ m # Month(s.upper)
InWindow(s, g) == Played[g].dated /\ Low(s) <= Played[g].at /\ Played[g].at <= s.upper
FetchMonth ==
  /\ w.at = "fetch"
  /\ IF Skips(w.sync, w.month)
     THEN /\ Steps("progress")
          /\ IF w.id \in DOMAIN syncs
             THEN syncs' = [syncs EXCEPT ![w.id].skipped = @ \cup {w.month}]
             ELSE UNCHANGED syncs
     ELSE /\ \E end \in ApiEnds(Halted) :
               IF end # "done" THEN Abandoned(end)
               ELSE walker' = [w EXCEPT !.at = "add",
                                 !.page = {g \in MonthPage(w.sync.user, w.month, now) :
                                             InWindow(w.sync, g)}]
          /\ UNCHANGED syncs
  /\ UNCHANGED <<WalkerOnly, waiting, mishaps, store>>

(* Fault: a game that cannot be added is passed over. *)
AddMonthLeniently ==
  /\ w.at = "add"
  /\ \/ store' = [store EXCEPT !.games = @ \cup w.page] /\ Steps("index") /\ NoHarm
     \/ /\ MayFail /\ Mishap /\ Steps("index")
        /\ \E part \in SUBSET w.page : store' = [store EXCEPT !.games = @ \cup part]
  /\ UNCHANGED <<WalkerOnly, Kept>>

\* bulk_add, the archive chunks and the checkpoint: each is appended on its
\* own, and the first that fails ends the sync.
AddMonth ==
  /\ w.at = "add"
  /\ \/ store' = [store EXCEPT !.games = @ \cup w.page] /\ Steps("index") /\ NoHarm
     \/ /\ MayFail /\ Mishap /\ Ending("failed")
        /\ \E part \in SUBSET w.page : store' = [store EXCEPT !.games = @ \cup part]
  /\ UNCHANGED <<WalkerOnly, Kept>>

IndexMonth ==
  /\ w.at = "index"
  /\ \/ store' = [store EXCEPT !.archive = @ \cup w.page] /\ Steps("mark") /\ NoHarm
     \/ /\ MayFail /\ Mishap /\ Ending("failed")
        /\ \E part \in SUBSET w.page : store' = [store EXCEPT !.archive = @ \cup part]
  /\ UNCHANGED <<WalkerOnly, Kept>>
MarkMonth ==
  /\ w.at = "mark"
  /\ \/ store' = Marked(w.sync, w.month) /\ Steps("progress") /\ NoHarm
     \/ MayFail /\ Mishap /\ Ending("failed") /\ UNCHANGED store
  /\ UNCHANGED <<WalkerOnly, Kept>>

\* The sync goes back to the end of the queue, unless it was cancelled.
Progress ==
  /\ w.at = "progress"
  /\ IF w.id \notin DOMAIN syncs THEN Terminates
     ELSE /\ IF syncs[w.id].status = "cancelled"
             THEN walker' = Idle /\ UNCHANGED Kept
             ELSE LET s == [syncs[w.id] EXCEPT !.status = "running", !.at = now]
                  IN /\ syncs' = [syncs EXCEPT ![w.id] = s]
                     /\ waiting' = Append(waiting, w.id)
                     /\ walker' = [w EXCEPT !.at = "report", !.sync = s]
          /\ UNCHANGED <<WalkerOnly, mishaps, store>>

\* Its progress is recorded after the mutex was released; a cancellation may
\* have been recorded first, and then this is too old.
Report ==
  /\ w.at = "report"
  /\ \/ ~Stale(w.sync) /\ Saved(Record(w.sync, "running")) /\ walker' = Idle /\ NoHarm
     \/ Stale(w.sync) /\ Ending("failed") /\ UNCHANGED store /\ NoHarm
     \/ MayFail /\ Mishap /\ Ending("failed") /\ UNCHANGED store
  /\ UNCHANGED <<WalkerOnly, Kept>>

\* finish_sync: cancelled stays cancelled; a sync that is gone is left alone.
Finish ==
  /\ w.at = "finish"
  /\ IF w.id \notin DOMAIN syncs
     THEN walker' = Idle /\ UNCHANGED syncs
     ELSE LET s == [syncs[w.id] EXCEPT !.status = Settled(@, w.end), !.at = now]
          IN /\ syncs' = Trimmed([syncs EXCEPT ![w.id] = s])
             /\ walker' = [w EXCEPT !.at = "record", !.sync = s]
  /\ UNCHANGED <<WalkerOnly, waiting, mishaps, store>>

\* The end is recorded after the mutex was released.  An error here is handled
\* as a failure of the step when the step ended without one, and by nobody
\* when finish_sync runs in the handler of another.
Outcome(s) == CASE s.status = "succeeded" -> "succeeded"
                [] s.status = "cancelled" -> "paused"
                [] OTHER -> "failed"
RecordFails == IF w.end = "succeeded" THEN Ending("failed") ELSE FALSE
RecordEnd ==
  /\ w.at = "record"
  /\ \/ /\ ~Stale(w.sync)
        /\ Saved(Record(w.sync, Outcome(w.sync)))
        /\ IF w.sync.status = "succeeded" /\ store.profile = w.sync.user
           THEN Steps("profile") ELSE walker' = Idle
        /\ NoHarm /\ UNCHANGED <<WalkerOnly, Kept>>
     \/ Stale(w.sync) /\ RecordFails /\ UNCHANGED <<WalkerOnly, Kept, mishaps, store>>
     \/ MayFail /\ Mishap /\ RecordFails /\ UNCHANGED <<WalkerOnly, Kept, store>>
     \/ (Stale(w.sync) \/ MayFail) /\ w.end # "succeeded" /\ Terminates

\* The profile read before is written back with the time of this success.
UpdateProfile ==
  /\ w.at = "profile"
  /\ \/ store' = [store EXCEPT !.profile = w.sync.user] /\ walker' = Idle /\ NoHarm
     \/ MayFail /\ Mishap /\ Ending("failed") /\ UNCHANGED store
  /\ UNCHANGED <<WalkerOnly, Kept>>

-----------------------------------------------------------------------------
(* The clock, crashes, and the life of the program.                           *)
Tick ==
  /\ now < scope.last /\ now' = now + 1
  /\ UNCHANGED <<scope, up, memory, store, mishaps>>

Crash ==
  /\ up /\ "crash" \in scope.ops /\ mishaps < scope.mishaps
  /\ Mishap /\ up' = FALSE
  /\ Blank /\ syncs' = <<>> /\ waiting' = <<>> /\ current' = 0
  /\ next' = [resolution |-> 1, sync |-> 1]
  /\ UNCHANGED <<scope, now, store>>

\* The constructor: the startup name becomes the profile, and a sync recorded
\* as running starts over when it is that profile's.
Resumes(profile) == store.sync.status = "running" /\ store.sync.user = profile
Start(u) ==
  LET profile == IF u = Nobody THEN store.profile ELSE u
      paused == [store.sync EXCEPT !.status = "paused", !.at = now]
  IN /\ ~up /\ mishaps <= scope.mishaps
     /\ up' = TRUE
     /\ Blank
     /\ IF Resumes(profile)
        THEN /\ syncs' = <<[user |-> store.sync.user, days |-> store.sync.days,
                           upper |-> store.sync.upper, at |-> now, status |-> "queued",
                           archives |-> <<>>, taken |-> 0, discovered |-> FALSE,
                           skipped |-> {}]>>
             /\ waiting' = <<1>> /\ current' = 1
             /\ next' = [resolution |-> 1, sync |-> 2]
             /\ store' = [store EXCEPT !.profile = profile]
        ELSE /\ syncs' = <<>> /\ waiting' = <<>> /\ current' = 0
             /\ next' = [resolution |-> 1, sync |-> 1]
             /\ store' = [store EXCEPT !.profile = profile,
                            !.sync = IF @.status = "running" THEN paused ELSE @]
     /\ UNCHANGED <<scope, now, mishaps>>

\* The destructor stops every token it knows and waits for the workers, which
\* finish what they hold.  The server has stopped before it.
Shutdown ==
  /\ Client("shutdown") /\ late = {} /\ mishaps < scope.mishaps
  /\ Mishap
  /\ stopping' = TRUE
  /\ stopped' = stopped \cup DOMAIN resolutions
  /\ halted' = halted \cup DOMAIN syncs
  /\ UNCHANGED <<scope, now, up, resolutions, asked, active, syncs, waiting, current, finder,
                 walker, late, next, store>>
Leave ==
  /\ stopping /\ f.at = "idle" /\ w.at = "idle"
  /\ up' = FALSE
  /\ Blank /\ syncs' = <<>> /\ waiting' = <<>> /\ current' = 0
  /\ next' = [resolution |-> 1, sync |-> 1]
  /\ UNCHANGED <<scope, now, store, mishaps>>

-----------------------------------------------------------------------------
Init ==
  /\ scope \in Scopes
  /\ now = scope.first /\ up = FALSE /\ mishaps = 0
  /\ stopping = FALSE /\ resolutions = <<>> /\ asked = <<>> /\ active = <<>>
  /\ stopped = {} /\ halted = {} /\ syncs = <<>> /\ waiting = <<>> /\ current = 0
  /\ finder = Idle /\ walker = Idle /\ late = {}
  /\ next = [resolution |-> 1, sync |-> 1]
  /\ store = EmptyStore

Finds ==
  \/ PopResolution \/ BeginResolution \/ LookUp \/ SearchPlayer \/ SearchMonth \/ SearchPage
  \/ AddResolved \/ EndResolution
Walks ==
  \/ PopSync \/ BeginStep \/ DiscoverMonths \/ ListMonths \/ NextMonth \/ FetchMonth \/ AddMonth \/ IndexMonth
  \/ MarkMonth \/ Progress \/ Report \/ Finish \/ RecordEnd \/ UpdateProfile
Next ==
  \/ \E u \in scope.users : ConfigureProfile(u)
  \/ \E g \in scope.games, u \in scope.users \cup {Nobody} : Resolve(g, u)
  \/ \E g \in scope.games, u \in scope.users \cup {Nobody} : ImportUrl(g, u)
  \/ \E i \in DOMAIN resolutions : CancelResolution(i)
  \/ \E d \in scope.days, u \in scope.users \cup {Nobody} : StartSync(d, u)
  \/ \E i \in DOMAIN syncs : CancelSync(i)
  \/ \E s \in late : RecordCancelled(s)
  \/ Finds \/ Walks
  \/ Tick \/ Crash \/ Shutdown \/ Leave
  \/ \E u \in scope.users \cup {Nobody} : Start(u)

Spec == Init /\ [][Next]_vars

-----------------------------------------------------------------------------
(* Properties.                                                                *)

ResolutionState ==
  [game : Games, user : Users \cup {Nobody},
   status : Live \cup {"cancelled", "resolved", "needs_recovery"}]
SyncState ==
  [user : Users, days : Days, upper : 0..MaxNow, at : 0..MaxNow,
   status : Live \cup {"cancelled", "succeeded", "failed"},
   archives : Seq(Months), taken : Nat, discovered : BOOLEAN, skipped : SUBSET Months]
TypeOK ==
  /\ now \in 0..MaxNow /\ up \in BOOLEAN /\ stopping \in BOOLEAN /\ mishaps \in 0..(scope.mishaps + 1)
  /\ resolutions \in [DOMAIN resolutions -> ResolutionState]
  /\ \A i \in DOMAIN syncs : syncs[i] \in SyncState
  /\ asked \in Seq(DOMAIN resolutions) /\ Len(asked) <= MaxPending
  /\ waiting \in Seq(1..(next.sync - 1))   \* one that has ended may be trimmed
  /\ current \in {0} \cup DOMAIN syncs
  /\ store.profile \in Users \cup {Nobody} /\ store.archive \subseteq Games
  /\ store.games \subseteq Games /\ DOMAIN store.marks \subseteq Users \X Months

\* What clients were told is under way is queued once, or in the hands of its
\* worker; a URL that is taken for being resolved is being resolved.  The queues,
\* the maps and the worker's locals of ingest_manager.cpp agree.
Held(worker, i) == worker.at # "idle" /\ worker.id = i
Once(queue, i) == Cardinality({k \in DOMAIN queue : queue[k] = i}) = 1
NothingForgotten ==
  /\ \A i \in DOMAIN resolutions :
       resolutions[i].status \in Live => (Once(asked, i) # Held(finder, i))
  /\ \A i \in DOMAIN syncs :
       syncs[i].status \in Live => Once(waiting, i) \/ Held(walker, i)
  /\ \A g \in DOMAIN active :
       /\ active[g] \in DOMAIN resolutions
       /\ resolutions[active[g]].game = g /\ resolutions[active[g]].status \in Live

\* A month checkpoint is never ahead of the data: every dated game of the player
\* in that month and in the window of the sync that wrote it is in the archive
\* and in the games, whatever crashed or failed in between.
CheckpointedIsStored ==
  \A key \in DOMAIN store.marks :
    \A g \in Games :
      /\ Of(key[1], g) /\ Month(Played[g].at) = key[2] /\ Played[g].dated
      /\ store.marks[key].low <= Played[g].at /\ Played[g].at <= store.marks[key].high
      => g \in store.archive /\ g \in store.games

\* A sync that has succeeded has stored every dated game of its window in the
\* months the service listed, but for months it did not read because of an
\* earlier checkpoint.
WindowStored ==
  \A i \in DOMAIN syncs :
    syncs[i].status = "succeeded" =>
      \A g \in Games :
        /\ Of(syncs[i].user, g) /\ InWindow(syncs[i], g)
        /\ Month(Played[g].at) \in ToSet(syncs[i].archives) \ syncs[i].skipped
        => g \in store.archive /\ g \in store.games

\* What a client has cancelled stays cancelled until it is trimmed: no answer of
\* Chess.com, progress or failure that comes later revives or relabels it.
CancelledIsFinal ==
  [][up /\ up' =>
       /\ \A i \in DOMAIN resolutions \cap DOMAIN resolutions' :
            resolutions[i].status = "cancelled" => resolutions'[i].status = "cancelled"
       /\ \A i \in DOMAIN syncs \cap DOMAIN syncs' :
            syncs[i].status = "cancelled" => syncs'[i].status = "cancelled"]_vars
=============================================================================
