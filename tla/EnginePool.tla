----------------------------- MODULE EnginePool -----------------------------
(* engine::EnginePool (src/src/engine/pool.cpp): a fixed set of worker        *)
(* threads serves analysis requests from three FIFO queues, one per priority. *)
(* A caller blocks in analyze() until the promise of its request is resolved. *)
(*                                                                            *)
(* A caller has one request at a time, so a request is named by its caller.   *)
(* Every action is one critical section of the pool's mutex, or one effect    *)
(* the code makes outside it (a promise resolved, a condition notified); the  *)
(* condition variable is modelled by the set of workers that sleep on it.     *)
(* The statistics counters, the engine instances and the latency figure are   *)
(* left out: no decision of the pool reads them.  A refused analyze() only    *)
(* throws, so it is the absence of Submit.                                    *)
EXTENDS Integers, Sequences, FiniteSets

CONSTANTS
  Workers,      \* worker threads, EnginePoolOptions::workers of them
  Callers,      \* threads that call analyze()
  MaxPending,   \* EnginePoolOptions::max_pending
  RetryLimit,   \* EnginePoolOptions::retry_limit
  Nobody        \* the request of a worker that holds none

(* pool.cpp:40 refuses a pool without workers or without room.                *)
ASSUME PoolBounds ==
  /\ IsFiniteSet(Workers) /\ Workers # {}
  /\ MaxPending \in Nat \ {0}
  /\ RetryLimit \in Nat
  /\ Nobody \notin Callers

Priorities == 0..2
Historical == 2

VARIABLES
  queues,     \* queues[p]: the requests of priority p that wait, oldest first
  active,     \* requests handed to a worker and not settled
  activeBy,   \* the same by priority
  stopping,   \* set by the destructor
  pc,         \* where each worker stands
  serving,    \* the request each worker holds
  level,      \* the priority of the slot each worker holds, 0 if it holds none
  phase,      \* where each caller stands in analyze()
  priority,   \* the priority each caller asked for
  attempts,   \* Work::attempts of each caller's request
  cancelled,  \* Work::cancellation of each caller's request
  answer,     \* the promise of each caller's request
  closing,    \* where the destructor stands
  abandoned   \* the requests the destructor swapped out of the queues

poolVars == <<queues, active, activeBy, stopping>>
workerVars == <<pc, serving, level>>
requestVars == <<priority, attempts, cancelled>>
closeVars == <<closing, abandoned>>
vars == <<queues, active, activeBy, stopping, pc, serving, level, phase, priority,
          attempts, cancelled, answer, closing, abandoned>>

(* Fault: no worker is kept free of historical requests.                      *)
HistoricalLimitAll == Cardinality(Workers)

HistoricalLimit ==
  IF Cardinality(Workers) = 1 THEN 1 ELSE Cardinality(Workers) - 1

Pending == active + Len(queues[0]) + Len(queues[1]) + Len(queues[2])

(* Fault: one request too many is let in.                                     *)
RoomForOneMore == Pending <= MaxPending

Room == Pending < MaxPending

(* The priorities a worker may take from now: the predicate workers wait for. *)
Takeable ==
  {p \in Priorities : /\ queues[p] # <<>>
                      /\ p = Historical => activeBy[p] < HistoricalLimit}

Sleeping == {w \in Workers : pc[w] = "waiting"}
Unanswered(c) == phase[c] # "outside" /\ answer[c] = "none"
Holding(w) == pc[w] \in {"analyzing", "failing"}
Busy(w) == pc[w] \in {"analyzing", "finishing"}

Init ==
  /\ queues = [p \in Priorities |-> <<>>]
  /\ active = 0
  /\ activeBy = [p \in Priorities |-> 0]
  /\ stopping = FALSE
  /\ pc = [w \in Workers |-> "idle"]
  /\ serving = [w \in Workers |-> Nobody]
  /\ level = [w \in Workers |-> 0]
  /\ phase = [c \in Callers |-> "outside"]
  /\ priority = [c \in Callers |-> 0]
  /\ attempts = [c \in Callers |-> 0]
  /\ cancelled = [c \in Callers |-> FALSE]
  /\ answer = [c \in Callers |-> "none"]
  /\ closing = "open"
  /\ abandoned = {}

(* The workers' program counters once the condition is notified: notify_one   *)
(* wakes one sleeper if there is any, notify_all every one.  mine is the      *)
(* notifying worker's own next place, its place now if a caller notifies.     *)
WakeAll == [w \in Workers |-> IF pc[w] = "waiting" THEN "idle" ELSE pc[w]]
NotifyOne(mine) ==
  IF Sleeping = {} THEN pc' = mine
  ELSE \E s \in Sleeping : pc' = [mine EXCEPT ![s] = "idle"]

-----------------------------------------------------------------------------
(* The callers: EnginePool::analyze.                                          *)

(* The admission, under the mutex.                                            *)
Submit(c, p) ==
  /\ phase[c] = "outside"
  /\ ~stopping /\ Room
  /\ queues' = [queues EXCEPT ![p] = Append(@, c)]
  /\ phase' = [phase EXCEPT ![c] = "signalling"]
  /\ priority' = [priority EXCEPT ![c] = p]
  /\ UNCHANGED <<active, activeBy, stopping, workerVars, attempts, cancelled, answer,
                 closeVars>>

(* Fault: no worker is woken for a new request.                               *)
SignalNobody(c) ==
  /\ phase[c] = "signalling"
  /\ phase' = [phase EXCEPT ![c] = "polling"]
  /\ UNCHANGED <<poolVars, workerVars, requestVars, answer, closeVars>>

(* condition.notify_one(), after the mutex is released.                       *)
Signal(c) ==
  /\ phase[c] = "signalling"
  /\ phase' = [phase EXCEPT ![c] = "polling"]
  /\ NotifyOne(pc)
  /\ UNCHANGED <<poolVars, serving, level, requestVars, answer, closeVars>>

(* One turn of the 2 ms polling loop that finds the caller's stop token       *)
(* stopped, which whoever owns the token may do at any time.                  *)
PollStop(c) ==
  /\ phase[c] = "polling"
  /\ answer[c] = "none"
  /\ ~cancelled[c]
  /\ cancelled' = [cancelled EXCEPT ![c] = TRUE]
  /\ UNCHANGED <<poolVars, workerVars, phase, priority, attempts, answer, closeVars>>

(* Fault: a caller whose request was cancelled returns at once.               *)
ReadyOrCancelled(c) == answer[c] # "none" \/ cancelled[c]

Ready(c) == answer[c] # "none"

(* result.get(): the call returns or throws, and its Work is forgotten.       *)
Return(c) ==
  /\ phase[c] = "polling" /\ Ready(c)
  /\ phase' = [phase EXCEPT ![c] = "outside"]
  /\ priority' = [priority EXCEPT ![c] = 0]
  /\ attempts' = [attempts EXCEPT ![c] = 0]
  /\ cancelled' = [cancelled EXCEPT ![c] = FALSE]
  /\ answer' = [answer EXCEPT ![c] = "none"]
  /\ UNCHANGED <<poolVars, workerVars, closeVars>>

-----------------------------------------------------------------------------
(* The workers: State::take and State::worker.                                *)

TakeWork(w) ==
  /\ pc[w] = "idle"
  /\ ~stopping
  /\ \E p \in Takeable :
       /\ \A q \in Takeable : p <= q
       /\ queues' = [queues EXCEPT ![p] = Tail(@)]
       /\ active' = active + 1
       /\ activeBy' = [activeBy EXCEPT ![p] = @ + 1]
       /\ serving' = [serving EXCEPT ![w] = Head(queues[p])]
       /\ level' = [level EXCEPT ![w] = p]
  /\ pc' = [pc EXCEPT ![w] = "analyzing"]
  /\ UNCHANGED <<stopping, phase, requestVars, answer, closeVars>>

Sleep(w) ==
  /\ pc[w] = "idle"
  /\ ~stopping
  /\ Takeable = {}
  /\ pc' = [pc EXCEPT ![w] = "waiting"]
  /\ UNCHANGED <<poolVars, serving, level, phase, requestVars, answer, closeVars>>

Exit(w) ==
  /\ pc[w] = "idle"
  /\ stopping
  /\ pc' = [pc EXCEPT ![w] = "exited"]
  /\ UNCHANGED <<poolVars, serving, level, phase, requestVars, answer, closeVars>>

(* The engine returned: promise.set_value, without the mutex.                 *)
Answer(w) ==
  /\ pc[w] = "analyzing"
  /\ answer' = [answer EXCEPT ![serving[w]] = "value"]
  /\ serving' = [serving EXCEPT ![w] = Nobody]
  /\ pc' = [pc EXCEPT ![w] = "finishing"]
  /\ UNCHANGED <<poolVars, level, phase, requestVars, closeVars>>

(* Fault: the slot is given back to interactive work, whatever it was.        *)
SlotInteractive(w) == 0

Slot(w) == level[w]
FreeSlot(w) ==
  /\ active' = active - 1
  /\ activeBy' = [activeBy EXCEPT ![Slot(w)] = @ - 1]
  /\ level' = [level EXCEPT ![w] = 0]

(* finish_active: the slot is given back and every sleeper woken.             *)
FinishActive(w) ==
  /\ pc[w] = "finishing"
  /\ FreeSlot(w)
  /\ pc' = [WakeAll EXCEPT ![w] = "idle"]
  /\ UNCHANGED <<queues, stopping, serving, phase, requestVars, answer, closeVars>>

(* Faults: a retry is queued although the pool stops; one retry too many.     *)
RetryableStopping(c) == ~cancelled[c] /\ attempts[c] < RetryLimit
RetryableOnceMore(c) == ~stopping /\ ~cancelled[c] /\ attempts[c] <= RetryLimit

Retryable(c) == ~stopping /\ ~cancelled[c] /\ attempts[c] < RetryLimit

(* The engine threw and the request has a try left: it goes back to the front *)
(* of its queue in the critical section that gives the slot back.             *)
Retry(w) ==
  LET c == serving[w] IN
  /\ pc[w] = "analyzing"
  /\ Retryable(c)
  /\ FreeSlot(w)
  /\ attempts' = [attempts EXCEPT ![c] = @ + 1]
  /\ queues' = [queues EXCEPT ![level[w]] = <<c>> \o @]
  /\ serving' = [serving EXCEPT ![w] = Nobody]
  /\ pc' = [pc EXCEPT ![w] = "signalling"]
  /\ UNCHANGED <<stopping, phase, priority, cancelled, answer, closeVars>>

(* condition.notify_one() after a retry was queued.                           *)
SignalRetry(w) ==
  /\ pc[w] = "signalling"
  /\ NotifyOne([pc EXCEPT ![w] = "idle"])
  /\ UNCHANGED <<poolVars, serving, level, phase, requestVars, answer, closeVars>>

(* The engine threw and the request has no try left.                          *)
GiveUp(w) ==
  /\ pc[w] = "analyzing"
  /\ ~Retryable(serving[w])
  /\ FreeSlot(w)
  /\ pc' = [pc EXCEPT ![w] = "failing"]
  /\ UNCHANGED <<queues, stopping, serving, phase, requestVars, answer, closeVars>>

(* promise.set_exception, then notify_all, both without the mutex.            *)
AnswerError(w) ==
  /\ pc[w] = "failing"
  /\ answer' = [answer EXCEPT ![serving[w]] = "error"]
  /\ serving' = [serving EXCEPT ![w] = Nobody]
  /\ pc' = [pc EXCEPT ![w] = "waking"]
  /\ UNCHANGED <<poolVars, level, phase, requestVars, closeVars>>

WakeOthers(w) ==
  /\ pc[w] = "waking"
  /\ pc' = [WakeAll EXCEPT ![w] = "idle"]
  /\ UNCHANGED <<poolVars, serving, level, phase, requestVars, answer, closeVars>>

-----------------------------------------------------------------------------
(* The destructor: ~State.                                                    *)

Queued ==
  {c \in Callers : \E p \in Priorities : \E i \in DOMAIN queues[p] : queues[p][i] = c}

(* Fault: the destructor clears the queues without taking what they hold.     *)
ClearedAway == {}

TakenOver == Queued

Stop ==
  /\ closing = "open"
  /\ closing' = "abandoning"
  /\ stopping' = TRUE
  /\ abandoned' = TakenOver
  /\ queues' = [p \in Priorities |-> <<>>]
  /\ UNCHANGED <<active, activeBy, workerVars, phase, requestVars, answer>>

Abandon(c) ==
  /\ c \in abandoned
  /\ cancelled' = [cancelled EXCEPT ![c] = TRUE]
  /\ answer' = [answer EXCEPT ![c] = "error"]
  /\ abandoned' = abandoned \ {c}
  /\ UNCHANGED <<poolVars, workerVars, phase, priority, attempts, closing>>

(* Fault: the destructor joins without waking the workers.                    *)
WakeToExitSilently ==
  /\ closing = "abandoning"
  /\ abandoned = {}
  /\ closing' = "joining"
  /\ UNCHANGED <<poolVars, workerVars, phase, requestVars, answer, abandoned>>

WakeToExit ==
  /\ closing = "abandoning"
  /\ abandoned = {}
  /\ closing' = "joining"
  /\ pc' = WakeAll
  /\ UNCHANGED <<poolVars, serving, level, phase, requestVars, answer, abandoned>>

Join ==
  /\ closing = "joining"
  /\ \A w \in Workers : pc[w] = "exited"
  /\ closing' = "closed"
  /\ UNCHANGED <<poolVars, workerVars, phase, requestVars, answer, abandoned>>

-----------------------------------------------------------------------------
CallerStep(c) == Signal(c) \/ Return(c)
WorkerStep(w) ==
  \/ TakeWork(w) \/ Sleep(w) \/ Exit(w)
  \/ Answer(w) \/ FinishActive(w)
  \/ Retry(w) \/ SignalRetry(w)
  \/ GiveUp(w) \/ AnswerError(w) \/ WakeOthers(w)
CloseStep == (\E c \in Callers : Abandon(c)) \/ WakeToExit \/ Join

Next ==
  \/ \E c \in Callers :
       \/ \E p \in Priorities : Submit(c, p)
       \/ PollStop(c)
       \/ CallerStep(c)
  \/ \E w \in Workers : WorkerStep(w)
  \/ Stop
  \/ CloseStep

Spec == Init /\ [][Next]_vars

(* A thread that can run eventually runs, and an engine call ends: a Stockfish *)
(* search has a deadline (stockfish.cpp).  Nobody has to submit a request, ask *)
(* for a stop, or destroy the pool.                                            *)
Fairness ==
  /\ \A c \in Callers : WF_vars(CallerStep(c))
  /\ \A w \in Workers : WF_vars(WorkerStep(w))
  /\ WF_vars(CloseStep)

FairSpec == Spec /\ Fairness

-----------------------------------------------------------------------------
Places ==
  {"idle", "waiting", "analyzing", "finishing", "signalling", "failing", "waking", "exited"}

(* The types of the state.                                                    *)
TypeOK ==
  /\ queues \in [Priorities -> Seq(Callers)]
  /\ active \in Int
  /\ activeBy \in [Priorities -> Int]
  /\ stopping \in BOOLEAN
  /\ pc \in [Workers -> Places]
  /\ serving \in [Workers -> Callers \cup {Nobody}]
  /\ level \in [Workers -> Priorities]
  /\ phase \in [Callers -> {"outside", "signalling", "polling"}]
  /\ priority \in [Callers -> Priorities]
  /\ attempts \in [Callers -> 0..RetryLimit]
  /\ cancelled \in [Callers -> BOOLEAN]
  /\ answer \in [Callers -> {"none", "value", "error"}]
  /\ closing \in {"open", "abandoning", "joining", "closed"}
  /\ abandoned \subseteq Callers

(* max_pending bounds the requests queued or at a worker, although a retry    *)
(* pushes a request back without asking for admission (pool.cpp:190 and 144). *)
PendingBounded == Pending <= MaxPending

(* The counters that gate admission and historical work agree with the        *)
(* workers that hold a slot, however failures, retries and the two critical   *)
(* sections of a success interleave: no slot leaks, and none is freed twice   *)
(* (pool.cpp:95, 109, 136).                                                   *)
BusyAt(p) == {w \in Workers : Busy(w) /\ level[w] = p}
SlotsAccounted ==
  /\ \A p \in Priorities : activeBy[p] = Cardinality(BusyAt(p))
  /\ active = activeBy[0] + activeBy[1] + activeBy[2]

(* release/architecture.html, "Priority invariant": with more than one worker *)
(* historical requests never occupy every worker (pool.cpp:90).               *)
HistoricalCapped ==
  Cardinality(Workers) > 1 => \E w \in Workers : w \notin BusyAt(Historical)

(* A request that is not resolved is in exactly one place: once in the queue  *)
(* of its priority, at one worker, or in the destructor's hands.  Lost, its   *)
(* caller would poll for ever; held twice, the second resolution of the       *)
(* promise would throw (pool.cpp:53, 93, 125, 144, 152).                      *)
QueuedOnce ==
  \A p \in Priorities : \A i \in DOMAIN queues[p] :
    /\ Unanswered(queues[p][i])
    /\ priority[queues[p][i]] = p
    /\ \A j \in DOMAIN queues[p] : queues[p][i] = queues[p][j] => i = j
HeldOnce ==
  \A w \in Workers : Holding(w) =>
    /\ serving[w] \in Callers
    /\ Unanswered(serving[w])
    /\ Busy(w) => priority[serving[w]] = level[w]
    /\ serving[w] \notin Queued
    /\ \A v \in Workers : Holding(v) /\ serving[v] = serving[w] => v = w
AbandonedOnce ==
  \A c \in abandoned :
    Unanswered(c) /\ c \notin Queued /\ \A w \in Workers : Holding(w) => serving[w] # c
NoneLost ==
  \A c \in Callers : Unanswered(c) =>
    c \in Queued \/ c \in abandoned \/ \E w \in Workers : Holding(w) /\ serving[w] = c
RequestInOnePlace == QueuedOnce /\ HeldOnce /\ AbandonedOnce /\ NoneLost

(* Nothing is queued once the destructor has emptied the queues: neither a    *)
(* late analyze() nor a retry that was decided meanwhile slips a request in   *)
(* that no worker will take (pool.cpp:138, 188).                              *)
StoppedStaysEmpty == stopping => Queued = {}

(* Work-conserving: while a request may be taken and a worker sleeps, another *)
(* worker is on its way to the queues or a wake-up is still to be sent.  A    *)
(* lost wake-up would leave the request to a worker that may be busy for the  *)
(* whole of a search (pool.cpp:79, 111, 150, 153, 197).                       *)
NoLostWakeup ==
  (Takeable # {} /\ Sleeping # {} /\ ~stopping) =>
    \/ \E w \in Workers : pc[w] \in {"idle", "signalling", "failing", "waking"}
    \/ \E c \in Callers : phase[c] = "signalling"

(* A request is resolved, unless a request of a higher priority is waiting:   *)
(* the queues are scanned in order, so only that may hold it up for ever.     *)
Outranked(c) == \E p \in Priorities : p < priority[c] /\ queues[p] # <<>>
AnsweredUnlessOutranked ==
  \A c \in Callers : Unanswered(c) ~> (~Unanswered(c) \/ Outranked(c))

(* The destructor ends, and leaves no caller waiting for an answer.           *)
ShutdownCompletes ==
  stopping ~> (closing = "closed" /\ \A c \in Callers : ~Unanswered(c))

(* The pool implements AnalysisService.  A request that is given up left the  *)
(* count of pending ones before its caller is told, so up to one call for     *)
(* every worker may be unresolved beyond max_pending.                         *)
Service == INSTANCE AnalysisService WITH
  inside <- {c \in Callers : phase[c] # "outside"},
  result <- answer,
  Capacity <- MaxPending + Cardinality(Workers)
ImplementsService == Service!Spec
=============================================================================
