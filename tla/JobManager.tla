----------------------------- MODULE JobManager -----------------------------
(* app::JobManager (src/src/app/job_manager.cpp): analysis jobs for games,    *)
(* run by worker threads from three priority queues, shallow pass first, with *)
(* per-job cancellation, promotion, preemption, retries, pause/resume, and    *)
(* recovery of unfinished jobs from the repository after a restart.           *)
(*                                                                            *)
(* An action is one critical section of the manager's mutex or one call of    *)
(* the repository, which has a lock of its own: the code records a job's      *)
(* state in the repository after it released its mutex, and that gap is kept. *)
(* Every change a worker may wait for is followed by a notify_all, so workers *)
(* are modelled as re-evaluating their predicate.  Progress reports and the   *)
(* observer are left out: no decision of the manager reads them.              *)
EXTENDS Integers, Sequences, FiniteSets, Subsequences

CONSTANTS
  Games,        \* games in the repository
  Clients,      \* threads of the service that call the manager
  Workers,      \* worker threads, JobManagerOptions::workers of them
  MaxQueued,    \* JobManagerOptions::max_queued
  RetryLimit,   \* JobManagerOptions::retry_limit
  MaxJobs,      \* bound: jobs created in one life of the process
  Asked,        \* bound: the priorities clients ask for, beside batches
  Ops,          \* bound: what clients do, of "start", "batch", "cancel", "pause", "close"
  Faults,       \* bound: how an analysis may fail, of "engine", "error", "exception", "save"
  Restarts      \* bound: whether the process may crash and start again

ASSUME JobBounds ==
  /\ IsFiniteSet(Workers) /\ Workers # {} /\ IsFiniteSet(Games)
  /\ MaxQueued \in Nat \ {0} /\ RetryLimit \in Nat /\ MaxJobs \in Nat
  /\ Asked \subseteq 0..2 /\ Restarts \in BOOLEAN

JobIds == 1..MaxJobs
Priorities == 0..2
Historical == 2
Unfinished == {"queued", "running"}
Terminal == {"complete", "failed", "cancelled"}
Tokens == 1..2      \* a job's task and its registration hold one token each at most
NewTask(j, isDeep, p) ==
  [job |-> j, deep |-> isDeep, priority |-> p, attempts |-> 0, token |-> 1]
NoTask == NewTask(0, FALSE, 0)
Unregistered == [priority |-> 0, token |-> 0]

VARIABLES
  status,      \* jobs_[j].status, "absent" while there is no job j
  game,        \* jobs_[j].game_id
  jobStop,     \* jobs_[j].cancellation was requested
  requested,   \* requested_priorities_
  queues,      \* the tasks that wait, by priority, oldest first
  registry,    \* active_tasks_: the token through which a running job is stopped
  stopped,     \* the tokens, <<job, token>>, that were requested to stop
  activeBy,    \* active_by_priority_
  paused,      \* paused_
  pc,          \* where each worker stands in work()
  task,        \* the task each worker holds
  seen,        \* the job's status each worker read before recording it
  call,        \* where each client stands: "none", "starting", "recording", ...
  inputs,      \* what a client read of the games it starts
  wanted,      \* the priority it starts them with
  todo,        \* what it has still to record in the repository
  stored,      \* durable: what the repository has of each game
  jobState,    \* durable: the last job state recorded for each game
  savedPause,  \* durable: background_paused
  process      \* "running", "closing" while the destructor joins, or "down"

jobVars == <<status, game, jobStop, requested>>
schedVars == <<queues, registry, stopped, activeBy, paused>>
workerVars == <<pc, task, seen>>
clientVars == <<call, inputs, wanted, todo>>
durableVars == <<stored, jobState, savedPause>>
vars == <<status, game, jobStop, requested, queues, registry, stopped, activeBy, paused,
          pc, task, seen, call, inputs, wanted, todo, stored, jobState, savedPause, process>>


HistoricalLimit ==
  IF Cardinality(Workers) = 1 THEN 1 ELSE Cardinality(Workers) - 1
QueuedCount == Len(queues[0]) + Len(queues[1]) + Len(queues[2])
Runnable ==
  {p \in Priorities : /\ queues[p] # <<>>
                      /\ p = Historical => activeBy[p] < HistoricalLimit}

QueuedTasks ==
  UNION {{queues[p][i] : i \in DOMAIN queues[p]} : p \in Priorities}
Stopped(t) == <<t.job, t.token>> \in stopped
Active == {j \in JobIds : registry[j] # Unregistered}
TokensOf(J) == {<<j, registry[j].token>> : j \in J}
NextId == Cardinality({j \in JobIds : status[j] # "absent"}) + 1

(* A token for a new task of job j: any but the one the job is registered     *)
(* under.  Whoever else held a token of j gave it up with the task it had.    *)
FreshToken(j) == CHOOSE t \in Tokens : t # registry[j].token

(* Fault: a job that waits for its deep pass is not found.                    *)
TakenCareOfStarted(g) ==
  {j \in JobIds : game[j] = g /\ status[j] \in {"running", "complete"}}

(* The job by which start finds a game already taken care of.                 *)
TakenCareOf(g) ==
  {j \in JobIds : game[j] = g /\ status[j] \in Unfinished \cup {"complete"}}

-----------------------------------------------------------------------------
NoJobs == [j \in JobIds |-> "absent"]
NoGames == [j \in JobIds |-> "none"]

Init ==
  /\ status = NoJobs /\ game = NoGames
  /\ jobStop = [j \in JobIds |-> FALSE]
  /\ requested = [j \in JobIds |-> Historical]
  /\ queues = [p \in Priorities |-> <<>>]
  /\ registry = [j \in JobIds |-> Unregistered]
  /\ stopped = {}
  /\ activeBy = [p \in Priorities |-> 0]
  /\ paused = FALSE
  /\ pc = [w \in Workers |-> "idle"]
  /\ task = [w \in Workers |-> NoTask]
  /\ seen = [w \in Workers |-> "absent"]
  /\ call = [c \in Clients |-> "none"]
  /\ inputs = [c \in Clients |-> <<>>]
  /\ wanted = [c \in Clients |-> Historical]
  /\ todo = [c \in Clients |-> <<>>]
  /\ stored = [g \in Games |-> "nothing"]
  /\ jobState = [g \in Games |-> "none"]
  /\ savedPause = FALSE
  /\ process = "running"

-----------------------------------------------------------------------------
(* The clients.                                                               *)

(* start and start_batch read the games from the repository before they take  *)
(* the mutex, incomplete games first; a batch is historical.                  *)
Orders(G) ==
  {s \in [1..Cardinality(G) -> G] : \A i, k \in DOMAIN s : s[i] = s[k] => i = k}
Read(s) == [i \in DOMAIN s |-> [game |-> s[i], has |-> stored[s[i]]]]
IncompleteFirst(s) ==
  \A i, k \in DOMAIN s : i < k /\ stored[s[i]] = "analysis" => stored[s[k]] = "analysis"

BeginStart(c) ==
  /\ process = "running" /\ call[c] = "none"
  /\ \/ /\ "start" \in Ops
        /\ \E g \in Games, p \in Asked :
             /\ inputs' = [inputs EXCEPT ![c] = Read(<<g>>)]
             /\ wanted' = [wanted EXCEPT ![c] = p]
     \/ /\ "batch" \in Ops
        /\ \E G \in SUBSET Games : \E s \in Orders(G) :
             /\ Cardinality(G) > 1 /\ IncompleteFirst(s)
             /\ inputs' = [inputs EXCEPT ![c] = Read(s)]
             /\ wanted' = [wanted EXCEPT ![c] = Historical]
  /\ call' = [call EXCEPT ![c] = "starting"]
  /\ UNCHANGED <<jobVars, schedVars, workerVars, todo, durableVars, process>>

(* The call is over its critical section, with something left to do or not.   *)
EndCall(c, left) ==
  /\ call' = [call EXCEPT ![c] = left]
  /\ inputs' = [inputs EXCEPT ![c] = <<>>]
  /\ wanted' = [wanted EXCEPT ![c] = Historical]

(* promote_unlocked: a job wanted sooner than it was asked for changes queue  *)
(* if its task waits, and is stopped if it runs, to come back later.          *)
Overtaken(c) ==
  {j \in UNION {TakenCareOf(inputs[c][i].game) : i \in DOMAIN inputs[c]} :
     requested[j] > wanted[c]}
Late(J, p, t) == t.job \in J /\ t.priority > p
Promoted(J, p, q) ==
  LET moving == Picked(queues[q], {i \in DOMAIN queues[q] : Late(J, p, queues[q][i])})
  IN [i \in DOMAIN moving |-> [moving[i] EXCEPT !.priority = p]]

(* Fault: a promoted task is left in its old queue as well.                   *)
StayingAll(J, p, q) == queues[q]

Staying(J, p, q) ==
  Picked(queues[q], {i \in DOMAIN queues[q] : ~Late(J, p, queues[q][i])})
MovedUp(J, p) ==
  [q \in Priorities |->
     Staying(J, p, q) \o
     (IF q = p THEN Promoted(J, p, 0) \o Promoted(J, p, 1) \o Promoted(J, p, 2)
               ELSE <<>>)]
Halted(J, p) == TokensOf({j \in J \cap Active : registry[j].priority > p})

(* Fault: historical work is never preempted.                                 *)
PreemptedNever(q, p) == {}

(* preempt_historical_unlocked: with one worker, historical work makes way.   *)
Preempted(q, p) ==
  IF Cardinality(Workers) = 1 /\ p # Historical /\ (q[0] # <<>> \/ q[1] # <<>>)
  THEN TokensOf({j \in Active : registry[j].priority = Historical}) ELSE {}

(* The games of a call that need a job, and the tasks of these jobs: shallow  *)
(* passes before deep ones, none for a game that is complete.                 *)
Fresh(c) ==
  Picked(inputs[c], {i \in DOMAIN inputs[c] : TakenCareOf(inputs[c][i].game) = {}})
NewTasks(c) ==
  LET fresh == Fresh(c)
      jobs(kind) == Picked([k \in DOMAIN fresh |-> k],
                           {k \in DOMAIN fresh : fresh[k].has = kind})
      lined == jobs("nothing") \o jobs("shallow")
  IN [i \in DOMAIN lined |->
        NewTask(NextId + lined[i] - 1, fresh[lined[i]].has = "shallow", wanted[c])]

(* Fault: the tasks of the call itself are not counted.                       *)
FitsBefore(c) == QueuedCount <= MaxQueued

Fits(c) == QueuedCount + Len(NewTasks(c)) <= MaxQueued

(* The critical section of start_with_priority when the tasks fit.            *)
Admit(c) ==
  LET p == wanted[c]
      fresh == Fresh(c)
      late == Overtaken(c)
      new(j) == j \in NextId..(NextId + Len(fresh) - 1)
      of(j) == fresh[j - NextId + 1]
      first(f) == IF f.has = "analysis" THEN "complete" ELSE "queued"
      lined == [MovedUp(late, p) EXCEPT ![p] = @ \o NewTasks(c)]
  IN
  /\ call[c] = "starting"
  /\ Fits(c)
  /\ NextId + Len(fresh) <= MaxJobs + 1
  /\ status' = [j \in JobIds |-> IF new(j) THEN first(of(j)) ELSE status[j]]
  /\ game' = [j \in JobIds |-> IF new(j) THEN of(j).game ELSE game[j]]
  /\ requested' = [j \in JobIds |-> IF new(j) \/ j \in late THEN p ELSE requested[j]]
  /\ queues' = lined
  /\ stopped' = stopped \cup Halted(late, p) \cup Preempted(lined, p)
  /\ EndCall(c, IF fresh = <<>> THEN "none" ELSE "recording")
  /\ todo' = [todo EXCEPT ![c] = [k \in DOMAIN fresh |->
                                    [game |-> fresh[k].game, state |-> first(fresh[k])]]]
  /\ UNCHANGED <<jobStop, registry, activeBy, paused, workerVars, durableVars, process>>

(* The same when they do not: the call throws, its new jobs are erased (a     *)
(* name that nobody was told is free again), its promotions stay.             *)
Refuse(c) ==
  LET late == Overtaken(c) IN
  /\ call[c] = "starting"
  /\ ~Fits(c)
  /\ requested' = [j \in JobIds |-> IF j \in late THEN wanted[c] ELSE requested[j]]
  /\ queues' = MovedUp(late, wanted[c])
  /\ stopped' = stopped \cup Halted(late, wanted[c])
  /\ EndCall(c, "none")
  /\ UNCHANGED <<status, game, jobStop, registry, activeBy, paused, workerVars, todo,
                 durableVars, process>>

(* Bound: the instance has no name left for a new job; the call never was.    *)
OutOfNames(c) ==
  /\ call[c] = "starting"
  /\ Fits(c) /\ NextId + Len(Fresh(c)) > MaxJobs + 1
  /\ EndCall(c, "none")
  /\ UNCHANGED <<jobVars, schedVars, workerVars, todo, durableVars, process>>

Cancel(c, j) ==
  LET now == IF status[j] = "queued" THEN "cancelled" ELSE status[j] IN
  /\ "cancel" \in Ops
  /\ process = "running" /\ call[c] = "none"
  /\ status[j] \in Unfinished
  /\ jobStop' = [jobStop EXCEPT ![j] = TRUE]
  /\ stopped' = stopped \cup TokensOf({j} \cap Active)
  /\ status' = [status EXCEPT ![j] = now]
  /\ call' = [call EXCEPT ![c] = "recording"]
  /\ todo' = [todo EXCEPT ![c] = <<[game |-> game[j], state |-> now]>>]
  /\ UNCHANGED <<game, requested, queues, registry, activeBy, paused, workerVars, inputs,
                 wanted, durableVars, process>>

(* record_job_state, for the next job a client started or cancelled.          *)
Record(c) ==
  /\ call[c] = "recording"
  /\ jobState' = [jobState EXCEPT ![Head(todo[c]).game] = Head(todo[c]).state]
  /\ todo' = [todo EXCEPT ![c] = Tail(@)]
  /\ call' = [call EXCEPT ![c] = IF Len(todo[c]) = 1 THEN "none" ELSE @]
  /\ UNCHANGED <<jobVars, schedVars, workerVars, inputs, wanted, stored, savedPause,
                 process>>

(* pause and resume change the memory, then the repository.                   *)
SetPaused(c, on) ==
  /\ "pause" \in Ops
  /\ process = "running" /\ call[c] = "none"
  /\ paused # on
  /\ paused' = on
  /\ call' = [call EXCEPT ![c] = IF on THEN "pausing" ELSE "resuming"]
  /\ UNCHANGED <<jobVars, queues, registry, stopped, activeBy, workerVars, inputs, wanted,
                 todo, durableVars, process>>

SavePaused(c) ==
  /\ call[c] \in {"pausing", "resuming"}
  /\ savedPause' = (call[c] = "pausing")
  /\ call' = [call EXCEPT ![c] = "none"]
  /\ UNCHANGED <<jobVars, schedVars, workerVars, inputs, wanted, todo, stored, jobState,
                 process>>

-----------------------------------------------------------------------------
(* The workers: work().                                                       *)

Mine(w) == task[w].job
MyGame(w) == game[task[w].job]
Goto(w, place) == pc' = [pc EXCEPT ![w] = place]
KeepManager == UNCHANGED <<jobVars, schedVars, task, seen, clientVars, process>>

(* Fault: the task of a job cancelled while it waited is run all the same.    *)
DroppedNever(t) == FALSE

Dropped(t) == status[t.job] = "cancelled"

(* The head of the first queue that may be served is taken; the task of a job *)
(* cancelled while it waited is dropped on the spot.                          *)
Take(w) ==
  /\ pc[w] = "idle"
  /\ process = "running" /\ ~paused
  /\ \E p \in Runnable :
       LET t == Head(queues[p]) IN
       /\ \A q \in Runnable : p <= q
       /\ queues' = [queues EXCEPT ![p] = Tail(@)]
       /\ IF Dropped(t)
          THEN UNCHANGED <<status, registry, activeBy, pc, task>>
          ELSE /\ status' = [status EXCEPT ![t.job] = "running"]
               /\ registry' = [registry EXCEPT ![t.job] =
                                 [priority |-> p, token |-> t.token]]
               /\ activeBy' = [activeBy EXCEPT ![p] = @ + 1]
               /\ task' = [task EXCEPT ![w] = t]
               /\ Goto(w, "starting")
  /\ UNCHANGED <<game, jobStop, requested, stopped, paused, seen, clientVars, durableVars,
                 process>>

(* Fault: a game that has its shallow analysis is taken for a complete one.   *)
AnalysedShallow(g) == stored[g] # "nothing"

Analysed(g) == stored[g] = "analysis"

(* The job is recorded as running and its game read from the repository,      *)
(* which only the game's own job writes to; an analysed game is complete.     *)
Begin(w) ==
  /\ pc[w] = "starting"
  /\ jobState' = [jobState EXCEPT ![MyGame(w)] = "running"]
  /\ Goto(w, IF Analysed(MyGame(w)) THEN "completing" ELSE "analyzing")
  /\ UNCHANGED <<stored, savedPause>> /\ KeepManager

(* The analyzer returned and the token was not stopped when it was looked at; *)
(* or it was stopped, or an engine failed or timed out, which the handler     *)
(* treats alike; or another Error or exception came out of it.                *)
Analyze(w) ==
  /\ pc[w] = "analyzing"
  /\ \/ ~Stopped(task[w]) /\ Goto(w, "saving")
     \/ (Stopped(task[w]) \/ "engine" \in Faults) /\ Goto(w, "retryable")
     \/ \E f \in Faults \cap {"error", "exception"} : Goto(w, f)
  /\ UNCHANGED durableVars /\ KeepManager

SaveShallow(w) ==
  /\ pc[w] = "saving" /\ ~task[w].deep
  /\ stored' = [stored EXCEPT ![MyGame(w)] = "shallow"]
  /\ Goto(w, "handing")
  /\ UNCHANGED <<jobState, savedPause>> /\ KeepManager

SaveAnalysis(w) ==
  /\ pc[w] = "saving" /\ task[w].deep
  /\ stored' = [stored EXCEPT ![MyGame(w)] = "analysis"]
  /\ Goto(w, "completing")
  /\ UNCHANGED <<jobState, savedPause>> /\ KeepManager

(* Saving throws, before the repository has the analysis or after (a snapshot *)
(* that fails, repository.cpp:1042).                                          *)
SaveFails(w) ==
  /\ pc[w] = "saving"
  /\ "save" \in Faults
  /\ \/ stored' = stored
     \/ task[w].deep /\ stored' = [stored EXCEPT ![MyGame(w)] = "analysis"]
  /\ Goto(w, "error")
  /\ UNCHANGED <<jobState, savedPause>> /\ KeepManager

(* A worker's task, or its successor, goes back to the queues.                *)
Requeue(w, t, place) ==
  /\ status' = [status EXCEPT ![t.job] = "queued"]
  /\ queues' = [queues EXCEPT ![t.priority] = Append(@, t)]
  /\ Goto(w, place)
  /\ UNCHANGED <<game, jobStop, requested, registry, activeBy, paused, task, seen,
                 clientVars, durableVars, process>>

(* The shallow pass is over: the deep one is queued, under the priority of    *)
(* the task that ends and with a token of its own.                            *)
HandOver(w) ==
  LET j == Mine(w)
      deep == [NewTask(j, TRUE, task[w].priority) EXCEPT !.token = FreshToken(j)]
  IN /\ pc[w] = "handing"
     /\ stopped' = stopped \ {<<j, deep.token>>}
     /\ Requeue(w, deep, "announcing")

RecordQueued(w) ==
  /\ pc[w] = "announcing"
  /\ jobState' = [jobState EXCEPT ![MyGame(w)] = "queued"]
  /\ Goto(w, "leaving")
  /\ UNCHANGED <<stored, savedPause>> /\ KeepManager

(* The job ends.                                                              *)
Settle(w, outcome) ==
  /\ status' = [status EXCEPT ![Mine(w)] = outcome]
  /\ Goto(w, "finishing")
  /\ UNCHANGED <<game, jobStop, requested, schedVars, task, seen, clientVars, durableVars,
                 process>>

Complete(w) == pc[w] = "completing" /\ Settle(w, "complete")

(* The handlers of an Error, in the order the code tries them.                *)
Thrown(w) == pc[w] \in {"retryable", "error"}
WasPreempted(w) == Stopped(task[w]) /\ task[w].priority = Historical
CanRetry(w) == pc[w] = "retryable" /\ task[w].attempts < RetryLimit

CatchCancelled(w) == Thrown(w) /\ jobStop[Mine(w)] /\ Settle(w, "cancelled")

(* A preempted historical task waits again, under the priority now asked for. *)
CatchPreempted(w) ==
  LET j == Mine(w)
      again == [task[w] EXCEPT !.priority = requested[j], !.token = FreshToken(j)]
  IN /\ Thrown(w) /\ ~jobStop[j] /\ WasPreempted(w)
     /\ stopped' = stopped \ {<<j, again.token>>}
     /\ Requeue(w, again, "finishing")

(* An engine failure is retried with the token the task had.                  *)
CatchRetry(w) ==
  /\ Thrown(w) /\ ~jobStop[Mine(w)] /\ ~WasPreempted(w) /\ CanRetry(w)
  /\ UNCHANGED stopped
  /\ Requeue(w, [task[w] EXCEPT !.attempts = @ + 1], "finishing")

CatchFailed(w) ==
  /\ \/ Thrown(w) /\ ~jobStop[Mine(w)] /\ ~WasPreempted(w) /\ ~CanRetry(w)
     \/ pc[w] = "exception"
  /\ Settle(w, "failed")

(* Fault: the slot of the priority now asked for is given back.               *)
SlotAsked(w) == requested[Mine(w)]

SlotTaken(w) == task[w].priority

(* finish_task: the slot is given back and whatever registration the job has, *)
(* erased.  (Tokens nobody holds any more are dropped from the state.)        *)
HeldTokens ==
  TokensOf(JobIds) \cup
  {<<t.job, t.token>> :
     t \in QueuedTasks \cup {task[v] : v \in {u \in Workers : pc[u] # "idle"}}}
FinishTask(w) ==
  /\ pc[w] \in {"finishing", "leaving"}
  /\ registry' = [registry EXCEPT ![Mine(w)] = Unregistered]
  /\ activeBy' = [activeBy EXCEPT ![SlotTaken(w)] = @ - 1]
  /\ IF pc[w] = "leaving"
     THEN Goto(w, "idle") /\ task' = [task EXCEPT ![w] = NoTask]
     ELSE Goto(w, "reporting") /\ task' = [task EXCEPT ![w] = [NoTask EXCEPT !.job = Mine(w)]]
  /\ UNCHANGED <<jobVars, queues, paused, seen, clientVars, durableVars, process>>
  /\ stopped' = {x \in stopped : x \in HeldTokens'}

(* The job is read again, then its state recorded.                            *)
Reread(w) ==
  /\ pc[w] = "reporting"
  /\ seen' = [seen EXCEPT ![w] = status[Mine(w)]]
  /\ Goto(w, "recording")
  /\ UNCHANGED <<jobVars, schedVars, task, clientVars, durableVars, process>>

RecordFinal(w) ==
  /\ pc[w] = "recording"
  /\ jobState' = [jobState EXCEPT ![MyGame(w)] = seen[w]]
  /\ seen' = [seen EXCEPT ![w] = "absent"]
  /\ task' = [task EXCEPT ![w] = NoTask]
  /\ Goto(w, "idle")
  /\ UNCHANGED <<jobVars, schedVars, clientVars, stored, savedPause, process>>

(* Fault: a worker leaves only once there is nothing left to take.            *)
MayLeaveDrained == process = "closing" /\ Runnable = {}

MayLeave == process = "closing"
Exit(w) ==
  /\ pc[w] = "idle" /\ MayLeave
  /\ Goto(w, "exited")
  /\ UNCHANGED durableVars /\ KeepManager

-----------------------------------------------------------------------------
(* The process: the destructor, a crash, the constructor of the next life.    *)

(* ~JobManager, once no client is in a call any more.                         *)
Close ==
  /\ "close" \in Ops
  /\ process = "running"
  /\ \A c \in Clients : call[c] = "none"
  /\ process' = "closing"
  /\ jobStop' = [j \in JobIds |-> jobStop[j] \/ status[j] \in Unfinished]
  /\ stopped' = stopped \cup TokensOf(Active)
  /\ UNCHANGED <<status, game, requested, queues, registry, activeBy, paused, workerVars,
                 clientVars, durableVars>>

(* What a life of the process begins with, but for the jobs it recovers.      *)
Forget ==
  /\ jobStop' = [j \in JobIds |-> FALSE]
  /\ requested' = [j \in JobIds |-> Historical]
  /\ registry' = [j \in JobIds |-> Unregistered]
  /\ stopped' = {}
  /\ activeBy' = [p \in Priorities |-> 0]
  /\ pc' = [w \in Workers |-> "idle"]
  /\ task' = [w \in Workers |-> NoTask]
  /\ seen' = [w \in Workers |-> "absent"]
  /\ call' = [c \in Clients |-> "none"]
  /\ inputs' = [c \in Clients |-> <<>>]
  /\ wanted' = [c \in Clients |-> Historical]
  /\ todo' = [c \in Clients |-> <<>>]

Down ==
  /\ Forget
  /\ status' = NoJobs /\ game' = NoGames
  /\ queues' = [p \in Priorities |-> <<>>]
  /\ paused' = FALSE
  /\ process' = "down"
  /\ UNCHANGED durableVars

Join == process = "closing" /\ (\A w \in Workers : pc[w] = "exited") /\ Down
Crash == Restarts /\ process # "down" /\ Down

Recoverable == {g \in Games : jobState[g] \in Unfinished /\ stored[g] # "analysis"}

(* JobManager::JobManager starts every recoverable game, one call each.       *)
Restart ==
  LET n == Cardinality(Recoverable) IN
  /\ Restarts /\ process = "down"
  /\ n <= MaxQueued /\ n <= MaxJobs
  /\ \E s \in Orders(Recoverable) :
       /\ status' = [j \in JobIds |-> IF j <= n THEN "queued" ELSE "absent"]
       /\ game' = [j \in JobIds |-> IF j <= n THEN s[j] ELSE "none"]
       /\ queues' = [p \in Priorities |->
            IF p # Historical THEN <<>>
            ELSE [k \in 1..n |-> NewTask(k, stored[s[k]] = "shallow", Historical)]]
  /\ Forget
  /\ jobState' = [g \in Games |-> IF g \in Recoverable THEN "queued" ELSE jobState[g]]
  /\ paused' = savedPause
  /\ process' = "running"
  /\ UNCHANGED <<stored, savedPause>>

(* It throws at the first one the queue has no room for; the program ends.    *)
RestartRefused ==
  /\ Restarts /\ process = "down"
  /\ \E G \in SUBSET Recoverable :
       /\ G # Recoverable /\ Cardinality(G) = MaxQueued
       /\ jobState' = [g \in Games |-> IF g \in G THEN "queued" ELSE jobState[g]]
  /\ UNCHANGED <<jobVars, schedVars, workerVars, clientVars, stored, savedPause, process>>

-----------------------------------------------------------------------------
ClientStep(c) == Admit(c) \/ Refuse(c) \/ OutOfNames(c) \/ Record(c) \/ SavePaused(c)
WorkerStep(w) ==
  \/ Take(w) \/ Begin(w) \/ Analyze(w)
  \/ SaveShallow(w) \/ HandOver(w) \/ RecordQueued(w)
  \/ SaveAnalysis(w) \/ SaveFails(w) \/ Complete(w)
  \/ CatchCancelled(w) \/ CatchPreempted(w) \/ CatchRetry(w) \/ CatchFailed(w)
  \/ FinishTask(w) \/ Reread(w) \/ RecordFinal(w) \/ Exit(w)

Next ==
  \/ \E c \in Clients :
       \/ BeginStart(c) \/ (\E j \in JobIds : Cancel(c, j))
       \/ (\E on \in BOOLEAN : SetPaused(c, on))
       \/ ClientStep(c)
  \/ \E w \in Workers : WorkerStep(w)
  \/ Close \/ Join \/ Crash \/ Restart \/ RestartRefused

Spec == Init /\ [][Next]_vars

(* Threads that can run eventually do, and an analysis ends: each of its engine *)
(* requests has a deadline.  Nobody has to call the manager, nor to resume it.  *)
Fairness ==
  /\ \A c \in Clients : WF_vars(ClientStep(c))
  /\ \A w \in Workers : WF_vars(WorkerStep(w))
  /\ WF_vars(Join)

FairSpec == Spec /\ Fairness

-----------------------------------------------------------------------------
TaskOK(t) ==
  /\ t.job \in 0..MaxJobs /\ t.deep \in BOOLEAN /\ t.priority \in Priorities
  /\ t.attempts \in 0..RetryLimit /\ t.token \in Tokens
JobStates == {"queued", "running"} \cup Terminal

(* The types of the state.                                                      *)
TypeOK ==
  /\ status \in [JobIds -> JobStates \cup {"absent"}]
  /\ game \in [JobIds -> Games \cup {"none"}]
  /\ jobStop \in [JobIds -> BOOLEAN]
  /\ requested \in [JobIds -> Priorities]
  /\ DOMAIN queues = Priorities
  /\ \A t \in QueuedTasks : TaskOK(t) /\ t.job # 0
  /\ \A j \in JobIds : registry[j] # Unregistered =>
        registry[j].priority \in Priorities /\ registry[j].token \in Tokens
  /\ stopped \subseteq JobIds \X Tokens
  /\ activeBy \in [Priorities -> 0..Cardinality(Workers)]
  /\ paused \in BOOLEAN /\ savedPause \in BOOLEAN
  /\ \A w \in Workers : TaskOK(task[w]) /\ (pc[w] \notin {"idle", "exited"} => Mine(w) # 0)
  /\ seen \in [Workers -> JobStates \cup {"absent"}]
  /\ call \in [Clients -> {"none", "starting", "recording", "pausing", "resuming"}]
  /\ stored \in [Games -> {"nothing", "shallow", "analysis"}]
  /\ jobState \in [Games -> JobStates \cup {"none"}]
  /\ process \in {"running", "closing", "down"}

Executing(w) ==
  pc[w] \in {"starting", "analyzing", "saving", "handing", "completing",
             "retryable", "error", "exception"}
Waiting(j) ==
  {x \in Priorities \X (1..(MaxQueued + Cardinality(Workers))) :
     x[2] \in DOMAIN queues[x[1]] /\ queues[x[1]][x[2]].job = j}

(* A job has one task as long as it is not ended: waiting exactly once while it *)
(* is queued, at exactly one worker while it runs.  The task changes hands at   *)
(* the end of the shallow pass, on a preemption, a promotion and a retry, each  *)
(* racing a cancel; a job with two tasks would be analysed twice at once, one   *)
(* with none would be stuck (job_manager.cpp:270, 305, 420, 470, 479).          *)
OneTaskPerJob ==
  /\ \A j \in JobIds :
       /\ Cardinality(Waiting(j)) <= IF status[j] \in {"queued", "cancelled"} THEN 1 ELSE 0
       /\ status[j] = "queued" => Waiting(j) # {}
       /\ status[j] = "running" => \E w \in Workers : Executing(w) /\ Mine(w) = j
  /\ \A w \in Workers : Executing(w) =>
       /\ status[Mine(w)] = "running"
       /\ \A v \in Workers : Executing(v) /\ Mine(v) = Mine(w) => v = w

(* A game never has two jobs that are queued, running or complete, although     *)
(* start reads the repository before it takes the mutex (job_manager.cpp:120).  *)
OneLiveJobPerGame ==
  \A i, j \in JobIds :
    /\ status[i] \notin {"absent", "failed", "cancelled"}
    /\ status[j] \notin {"absent", "failed", "cancelled"}
    /\ game[i] = game[j]
    => i = j

(* A job is complete only if the repository has the analysis of its game, so a  *)
(* crash never loses what a user was shown as done (job_manager.cpp:449).       *)
CompleteIsStored ==
  \A j \in JobIds : status[j] = "complete" => stored[game[j]] = "analysis"

(* The queues never hold more than max_queued tasks and those of the workers:   *)
(* hand-overs, retries and preemptions put tasks back without asking for room,  *)
(* but never more than were taken (job_manager.cpp:152, 420, 470, 479).         *)
BacklogBounded ==
  QueuedCount + Cardinality({w \in Workers : Executing(w)})
    <= MaxQueued + Cardinality(Workers)

(* The slots counted by priority are those of the workers that hold a task, and *)
(* with more than one worker historical work leaves one of them free            *)
(* (release/architecture.html, "Priority invariant"; job_manager.cpp:302, 318). *)
SlotsAt(p) ==
  {w \in Workers : /\ pc[w] \notin {"idle", "reporting", "recording", "exited"}
                   /\ task[w].priority = p}
SlotsAccounted ==
  /\ \A p \in Priorities : activeBy[p] = Cardinality(SlotsAt(p))
  /\ Cardinality(Workers) > 1 => Cardinality(SlotsAt(Historical)) < Cardinality(Workers)

(* What a job ended as never changes, whatever a cancel, a worker that is still *)
(* reporting on it or a late start does (job_manager.cpp:178, 368, 457).        *)
TerminalIsFinal ==
  [][process' # "down" =>
       \A j \in JobIds : status[j] \in Terminal => status'[j] = status[j]]_vars

(* tests/job_tests.cpp:335, "one worker preempts historical work to admit an    *)
(* interactive game": a single worker never goes on with a historical analysis, *)
(* its token not stopped, while more urgent work waits (job_manager.cpp:289).   *)
SingleWorkerPreempts ==
  (Cardinality(Workers) = 1 /\ (queues[0] # <<>> \/ queues[1] # <<>>)) =>
    \A w \in Workers :
      pc[w] = "analyzing" /\ task[w].priority = Historical => Stopped(task[w])


(* The destructor ends: no worker waits for work that never comes.              *)
ShutdownEnds == process = "closing" ~> process = "down"

-----------------------------------------------------------------------------
(* What documents and tests say and the code does not do.                       *)

(* ground-truth/SYSTEM_ARCHITECTURE.md:88, "Cancellation ends in an explicit    *)
(* cancelled state": an analysis that ends after its job was cancelled is       *)
(* discarded, not saved (job_manager.cpp:184, 317, 410, 420, 447).              *)
CancelledAnalysisDiscarded ==
  [][\A w \in Workers :
       pc[w] = "analyzing" /\ pc'[w] = "saving" => ~jobStop[Mine(w)]]_vars

(* README.md:24, "restart recovery": the program starts after any crash         *)
(* (job_manager.cpp:57).                                                        *)
RestartPossible == process = "down" => Cardinality(Recoverable) <= MaxQueued
=============================================================================
