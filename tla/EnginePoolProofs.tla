-------------------------- MODULE EnginePoolProofs --------------------------
(* What holds of EnginePool for every number of workers, callers, pending     *)
(* requests and retries: its invariants, and that every request that is not   *)
(* resolved is in exactly one place, so that EnginePool implements            *)
(* AnalysisService.                                                           *)
EXTENDS EnginePool, FiniteSetTheorems, SequenceTheorems, TLAPS

-----------------------------------------------------------------------------
(* A notification makes sleepers idle and moves nobody else.                  *)
Woken(old, new) ==
  /\ new \in [Workers -> Places]
  /\ \A w \in Workers : new[w] # old[w] => old[w] = "waiting" /\ new[w] = "idle"

LEMMA WakeAllWakes ==
  ASSUME TypeOK
  PROVE  Woken(pc, WakeAll)
BY DEF TypeOK, WakeAll, Woken, Places

LEMMA NotifyOneWakes ==
  ASSUME NEW mine \in [Workers -> Places], NotifyOne(mine),
         \A w \in Workers : pc[w] = "waiting" => mine[w] = "waiting"
  PROVE  Woken(mine, pc')
BY DEF NotifyOne, Sleeping, Woken, Places

(* A queue after each of the operations of the pool.                          *)
LEMMA QueueAppend ==
  ASSUME NEW q \in [Priorities -> Seq(Callers)], NEW p \in Priorities, NEW c \in Callers
  PROVE  LET r == [q EXCEPT ![p] = Append(@, c)]
         IN  /\ r \in [Priorities -> Seq(Callers)]
             /\ Len(r[p]) = Len(q[p]) + 1
BY AppendProperties

LEMMA QueuePop ==
  ASSUME NEW q \in [Priorities -> Seq(Callers)], NEW p \in Priorities, q[p] # <<>>
  PROVE  LET r == [q EXCEPT ![p] = Tail(@)]
         IN  /\ r \in [Priorities -> Seq(Callers)]
             /\ Len(r[p]) = Len(q[p]) - 1
             /\ Head(q[p]) \in Callers
BY HeadTailProperties

LEMMA QueuePushFront ==
  ASSUME NEW q \in [Priorities -> Seq(Callers)], NEW p \in Priorities, NEW c \in Callers
  PROVE  LET r == [q EXCEPT ![p] = <<c>> \o @]
         IN  /\ r \in [Priorities -> Seq(Callers)]
             /\ Len(r[p]) = 1 + Len(q[p])
<1>1. <<c>> \in Seq(Callers) /\ Len(<<c>>) = 1
  OBVIOUS
<1>2. q[p] \in Seq(Callers)
  OBVIOUS
<1>3. /\ <<c>> \o q[p] \in Seq(Callers)
      /\ Len(<<c>> \o q[p]) = 1 + Len(q[p])
  BY <1>1, <1>2, ConcatProperties
<1>. QED  BY <1>3

-----------------------------------------------------------------------------
(* Type correctness.  By itself it is not inductive: a worker that holds no   *)
(* request while it analyses would queue Nobody on a retry.                   *)
HoldersServe == \A w \in Workers : Holding(w) => serving[w] \in Callers
TypeInv == TypeOK /\ HoldersServe

LEMMA TypeInit == Init => TypeInv
<1>. SUFFICES ASSUME Init PROVE TypeInv
  OBVIOUS
<1>1. queues \in [Priorities -> Seq(Callers)]
  BY EmptySeq DEF Init
<1>2. pc \in [Workers -> Places] /\ \A w \in Workers : ~Holding(w)
  BY DEF Init, Places, Holding
<1>3. attempts \in [Callers -> 0..RetryLimit]
  BY PoolBounds DEF Init
<1>4. /\ serving \in [Workers -> Callers \cup {Nobody}]
      /\ level \in [Workers -> Priorities]
      /\ activeBy \in [Priorities -> Int] /\ active \in Int
  BY DEF Init, Priorities
<1>5. /\ phase \in [Callers -> {"outside", "signalling", "polling"}]
      /\ priority \in [Callers -> Priorities]
      /\ cancelled \in [Callers -> BOOLEAN]
      /\ answer \in [Callers -> {"none", "value", "error"}]
  BY DEF Init, Priorities
<1>6. /\ stopping \in BOOLEAN
      /\ closing \in {"open", "abandoning", "joining", "closed"}
      /\ abandoned \subseteq Callers
  BY DEF Init
<1>. QED
  BY <1>1, <1>2, <1>3, <1>4, <1>5, <1>6 DEF TypeInv, TypeOK, HoldersServe

LEMMA TypeStep == TypeInv /\ [Next]_vars => TypeInv'
<1>. SUFFICES ASSUME TypeInv, [Next]_vars PROVE TypeInv'
  OBVIOUS
<1>. USE DEF TypeInv, TypeOK, HoldersServe, Holding, poolVars, workerVars, requestVars,
             closeVars
<1>1. ASSUME NEW c \in Callers, NEW p \in Priorities, Submit(c, p) PROVE TypeInv'
  BY <1>1, QueueAppend DEF Submit
<1>2. ASSUME NEW c \in Callers, PollStop(c) PROVE TypeInv'
  BY <1>2 DEF PollStop
<1>3. ASSUME NEW c \in Callers, Signal(c) PROVE TypeInv'
  BY <1>3, NotifyOneWakes DEF Signal, Woken
<1>4. ASSUME NEW c \in Callers, Return(c) PROVE TypeInv'
  BY <1>4, PoolBounds DEF Return, Priorities
<1>5. ASSUME NEW w \in Workers, TakeWork(w) PROVE TypeInv'
  <2>1. PICK p \in Priorities :
          /\ queues[p] # <<>>
          /\ queues' = [queues EXCEPT ![p] = Tail(@)]
          /\ active' = active + 1
          /\ activeBy' = [activeBy EXCEPT ![p] = @ + 1]
          /\ serving' = [serving EXCEPT ![w] = Head(queues[p])]
          /\ level' = [level EXCEPT ![w] = p]
    BY <1>5 DEF TakeWork, Takeable
  <2>2. queues' \in [Priorities -> Seq(Callers)] /\ Head(queues[p]) \in Callers
    BY <2>1, QueuePop
  <2>3. active' \in Int /\ activeBy' \in [Priorities -> Int] /\ level' \in [Workers -> Priorities]
    BY <2>1
  <2>4. /\ pc' \in [Workers -> Places]
        /\ serving' \in [Workers -> Callers \cup {Nobody}]
        /\ \A v \in Workers : Holding(v)' => serving'[v] \in Callers
    BY <1>5, <2>1, <2>2 DEF TakeWork, Places
  <2>5. UNCHANGED <<stopping, phase, requestVars, answer, closeVars>>
    BY <1>5 DEF TakeWork
  <2>. QED
    BY <2>2, <2>3, <2>4, <2>5
<1>6. ASSUME NEW w \in Workers, Sleep(w) \/ Exit(w) PROVE TypeInv'
  BY <1>6 DEF Sleep, Exit, Places
<1>7. ASSUME NEW w \in Workers, Answer(w) PROVE TypeInv'
  BY <1>7 DEF Answer, Places
<1>8. ASSUME NEW w \in Workers, FinishActive(w) PROVE TypeInv'
  <2>1. activeBy' \in [Priorities -> Int] /\ active' \in Int /\ level' \in [Workers -> Priorities]
    BY <1>8 DEF FinishActive, FreeSlot, Slot, Priorities
  <2>2. /\ pc' \in [Workers -> Places]
        /\ \A v \in Workers : Holding(v)' => Holding(v)
    BY <1>8, WakeAllWakes DEF FinishActive, Woken, Places
  <2>3. UNCHANGED <<queues, stopping, serving, phase, requestVars, answer, closeVars>>
    BY <1>8 DEF FinishActive
  <2>. QED
    BY <2>1, <2>2, <2>3
<1>9. ASSUME NEW w \in Workers, Retry(w) PROVE TypeInv'
  <2>1. serving[w] \in Callers /\ level[w] \in Priorities
    BY <1>9 DEF Retry
  <2>2. queues' \in [Priorities -> Seq(Callers)]
    BY <1>9, <2>1, QueuePushFront DEF Retry
  <2>3. attempts' \in [Callers -> 0..RetryLimit]
    BY <1>9, <2>1, PoolBounds DEF Retry, Retryable
  <2>4. activeBy' \in [Priorities -> Int] /\ level' \in [Workers -> Priorities]
    BY <1>9, <2>1 DEF Retry, FreeSlot, Slot, Priorities
  <2>5. active' \in Int
    BY <1>9 DEF Retry, FreeSlot
  <2>6. pc' \in [Workers -> Places] /\ serving' \in [Workers -> Callers \cup {Nobody}]
    BY <1>9 DEF Retry, Places
  <2>7. \A v \in Workers : Holding(v)' => serving'[v] \in Callers
    BY <1>9, <2>6 DEF Retry
  <2>8. UNCHANGED <<stopping, phase, priority, cancelled, answer, closing, abandoned>>
    BY <1>9 DEF Retry
  <2>. QED
    BY <2>2, <2>3, <2>4, <2>5, <2>6, <2>7, <2>8
<1>10. ASSUME NEW w \in Workers, SignalRetry(w) PROVE TypeInv'
  <2>. DEFINE mine == [pc EXCEPT ![w] = "idle"]
  <2>1. /\ mine \in [Workers -> Places]
        /\ \A v \in Workers : pc[v] = "waiting" => mine[v] = "waiting"
    BY <1>10 DEF SignalRetry, Places
  <2>2. Woken(mine, pc')
    BY <1>10, <2>1, NotifyOneWakes DEF SignalRetry
  <2>. QED
    BY <1>10, <2>2 DEF SignalRetry, Woken
<1>11. ASSUME NEW w \in Workers, GiveUp(w) PROVE TypeInv'
  BY <1>11 DEF GiveUp, FreeSlot, Slot, Places, Priorities
<1>12. ASSUME NEW w \in Workers, AnswerError(w) PROVE TypeInv'
  BY <1>12 DEF AnswerError, Places
<1>13. ASSUME NEW w \in Workers, WakeOthers(w) PROVE TypeInv'
  BY <1>13, WakeAllWakes DEF WakeOthers, Woken, Places
<1>14. ASSUME Stop PROVE TypeInv'
  BY <1>14, EmptySeq DEF Stop, TakenOver, Queued
<1>15. ASSUME NEW c \in Callers, Abandon(c) PROVE TypeInv'
  BY <1>15 DEF Abandon
<1>16. ASSUME WakeToExit PROVE TypeInv'
  BY <1>16, WakeAllWakes DEF WakeToExit, Woken
<1>17. ASSUME Join PROVE TypeInv'
  BY <1>17 DEF Join
<1>18. CASE UNCHANGED vars
  BY <1>18 DEF vars
<1>. QED
  BY <1>1, <1>2, <1>3, <1>4, <1>5, <1>6, <1>7, <1>8, <1>9, <1>10, <1>11, <1>12, <1>13, <1>14,
     <1>15, <1>16, <1>17, <1>18 DEF Next, CallerStep, WorkerStep, CloseStep

LEMMA TypeInvariant == Spec => []TypeInv
BY TypeInit, TypeStep, PTL DEF Spec

(* The state of the pool keeps its types, whatever the interleaving.          *)
THEOREM TypeCorrect == Spec => []TypeOK
BY TypeInvariant, PTL DEF TypeInv
-----------------------------------------------------------------------------
(* Admission.                                                                 *)

(* The queues once they have been emptied, whatever the priorities are called. *)
LEMMA EmptiedQueues ==
  ASSUME NEW D, NEW Q, Q = [p \in D |-> <<>>]
  PROVE  \A p \in D : Q[p] = <<>>
OBVIOUS

LEMMA NamedPriorities == 0 \in Priorities /\ 1 \in Priorities /\ 2 \in Priorities
BY DEF Priorities

(* What is pending changes by what happens to the slots and to one queue.     *)
LEMMA PendingOfOneQueue ==
  ASSUME TypeInv, TypeInv', NEW p \in Priorities,
         \A q \in Priorities \ {p} : queues'[q] = queues[q]
  PROVE  /\ Pending \in Int /\ active \in Int /\ active' \in Int
         /\ Len(queues[p]) \in Nat /\ Len(queues'[p]) \in Nat
         /\ Pending' = Pending + (active' - active) + (Len(queues'[p]) - Len(queues[p]))
<1>. DEFINE l0 == Len(queues[0])   m0 == Len(queues'[0])
            l1 == Len(queues[1])   m1 == Len(queues'[1])
            l2 == Len(queues[2])   m2 == Len(queues'[2])
            l == Len(queues[p])    m == Len(queues'[p])
<1>1. /\ active \in Int /\ l0 \in Nat /\ l1 \in Nat /\ l2 \in Nat
      /\ active' \in Int /\ m0 \in Nat /\ m1 \in Nat /\ m2 \in Nat
      /\ l \in Nat /\ m \in Nat
  BY LenProperties DEF TypeInv, TypeOK, Priorities
<1>2. \/ l = l0 /\ m = m0 /\ m1 = l1 /\ m2 = l2
      \/ l = l1 /\ m = m1 /\ m0 = l0 /\ m2 = l2
      \/ l = l2 /\ m = m2 /\ m0 = l0 /\ m1 = l1
  BY DEF Priorities
<1>3. Pending = active + l0 + l1 + l2 /\ Pending' = active' + m0 + m1 + m2
  BY DEF Pending
<1>. HIDE DEF l0, l1, l2, m0, m1, m2, l, m
<1>4. Pending \in Int /\ Pending' = Pending + (active' - active) + (m - l)
  BY <1>1, <1>2, <1>3
<1>. QED
  BY <1>1, <1>4 DEF l, m

LEMMA PendingStep == TypeInv /\ PendingBounded /\ [Next]_vars => PendingBounded'
<1>. SUFFICES ASSUME TypeInv, TypeInv', PendingBounded, [Next]_vars PROVE PendingBounded'
  BY TypeStep
<1>. USE DEF PendingBounded, poolVars, workerVars, requestVars, closeVars
<1>0. MaxPending \in Nat /\ active \in Int
  BY PoolBounds DEF TypeInv, TypeOK
<1>1. ASSUME NEW c \in Callers, NEW p \in Priorities, Submit(c, p) PROVE PendingBounded'
  <2>1. /\ Len(queues'[p]) = Len(queues[p]) + 1
        /\ \A q \in Priorities \ {p} : queues'[q] = queues[q]
    BY <1>1, QueueAppend DEF Submit, TypeInv, TypeOK
  <2>2. active' = active /\ Pending < MaxPending
    BY <1>1 DEF Submit, Room
  <2>. DEFINE l == Len(queues[p])   m == Len(queues'[p])
  <2>3. /\ Pending \in Int /\ l \in Nat /\ m \in Nat /\ m = l + 1
        /\ Pending' = Pending + (active' - active) + (m - l)
    BY <2>1, PendingOfOneQueue
  <2>. HIDE DEF l, m
  <2>. QED
    BY <1>0, <2>2, <2>3
<1>2. ASSUME NEW w \in Workers, TakeWork(w) PROVE PendingBounded'
  <2>1. PICK p \in Takeable : /\ queues' = [queues EXCEPT ![p] = Tail(@)]
                              /\ active' = active + 1
    BY <1>2 DEF TakeWork
  <2>2. /\ p \in Priorities
        /\ Len(queues'[p]) = Len(queues[p]) - 1
        /\ \A q \in Priorities \ {p} : queues'[q] = queues[q]
    BY <2>1, QueuePop DEF Takeable, TypeInv, TypeOK
  <2>. DEFINE l == Len(queues[p])   m == Len(queues'[p])
  <2>3. /\ Pending \in Int /\ l \in Nat /\ m \in Nat /\ m = l - 1
        /\ Pending' = Pending + (active' - active) + (m - l)
    BY <2>2, PendingOfOneQueue
  <2>. HIDE DEF l, m
  <2>. QED
    BY <1>0, <2>1, <2>3
<1>3. ASSUME NEW w \in Workers, FinishActive(w) \/ GiveUp(w) PROVE PendingBounded'
  <2>1. 0 \in Priorities /\ queues' = queues /\ active' = active - 1
    BY <1>0, <1>3 DEF FinishActive, GiveUp, FreeSlot, Priorities
  <2>. QED
    BY <1>0, <2>1, PendingOfOneQueue
<1>4. ASSUME NEW w \in Workers, Retry(w) PROVE PendingBounded'
  <2>1. level[w] \in Priorities /\ serving[w] \in Callers
    BY <1>4 DEF Retry, TypeInv, TypeOK, HoldersServe, Holding
  <2>2. /\ Len(queues'[level[w]]) = 1 + Len(queues[level[w]])
        /\ \A q \in Priorities \ {level[w]} : queues'[q] = queues[q]
        /\ active' = active - 1
    BY <1>4, <2>1, QueuePushFront DEF Retry, FreeSlot, TypeInv, TypeOK
  <2>. DEFINE l == Len(queues[level[w]])   m == Len(queues'[level[w]])
  <2>3. /\ Pending \in Int /\ l \in Nat /\ m \in Nat /\ m = 1 + l
        /\ Pending' = Pending + (active' - active) + (m - l)
    BY <2>1, <2>2, PendingOfOneQueue
  <2>. HIDE DEF l, m
  <2>. QED
    BY <1>0, <2>2, <2>3
<1>5. ASSUME Stop PROVE PendingBounded'
  <2>. DEFINE l0 == Len(queues[0])   l1 == Len(queues[1])   l2 == Len(queues[2])
  <2>0. (\A p \in Priorities : queues'[p] = <<>>) /\ active' = active
    BY <1>5, EmptiedQueues DEF Stop
  <2>1. queues'[0] = <<>> /\ queues'[1] = <<>> /\ queues'[2] = <<>> /\ active' = active
    BY <2>0, NamedPriorities
  <2>2. Pending' = active
    BY <1>0, <2>1 DEF Pending
  <2>3. l0 \in Nat /\ l1 \in Nat /\ l2 \in Nat
    BY LenProperties DEF TypeInv, TypeOK, Priorities
  <2>4. active + l0 + l1 + l2 <= MaxPending
    BY DEF Pending
  <2>. HIDE DEF l0, l1, l2
  <2>. QED
    BY <1>0, <2>2, <2>3, <2>4
<1>6. ASSUME UNCHANGED <<active, queues>> PROVE PendingBounded'
  BY <1>6 DEF Pending
<1>7. ASSUME NEW c \in Callers, PollStop(c) \/ CallerStep(c) \/ Abandon(c)
      PROVE UNCHANGED <<active, queues>>
  BY <1>7 DEF PollStop, CallerStep, Signal, Return, Abandon
<1>8. ASSUME NEW w \in Workers, \/ Sleep(w) \/ Exit(w) \/ Answer(w) \/ SignalRetry(w)
                                \/ AnswerError(w) \/ WakeOthers(w)
      PROVE UNCHANGED <<active, queues>>
  BY <1>8 DEF Sleep, Exit, Answer, SignalRetry, AnswerError, WakeOthers
<1>9. ASSUME WakeToExit \/ Join \/ UNCHANGED vars PROVE UNCHANGED <<active, queues>>
  BY <1>9 DEF WakeToExit, Join, vars
<1>. QED
  BY <1>1, <1>2, <1>3, <1>4, <1>5, <1>6, <1>7, <1>8, <1>9 DEF Next, WorkerStep, CloseStep

(* max_pending bounds the requests queued or at a worker for any number of    *)
(* workers, retries included.                                                 *)
THEOREM AdmissionBounded == Spec => []PendingBounded
<1>1. Init => PendingBounded
  <2>1. Init => (\A p \in Priorities : queues[p] = <<>>) /\ active = 0
    BY EmptiedQueues DEF Init
  <2>2. Init => queues[0] = <<>> /\ queues[1] = <<>> /\ queues[2] = <<>> /\ active = 0
    BY <2>1, NamedPriorities
  <2>3. ASSUME queues[0] = <<>>, queues[1] = <<>>, queues[2] = <<>>, active = 0
        PROVE  PendingBounded
    <3>1. Pending = 0
      BY <2>3 DEF Pending
    <3>. QED
      BY <3>1, PoolBounds DEF PendingBounded
  <2>. QED
    BY <2>2, <2>3
<1>. QED
  BY <1>1, TypeInvariant, PendingStep, PTL DEF Spec

(* Once the destructor has run its critical section the queues stay empty.    *)
THEOREM NothingQueuedAfterStop == Spec => []StoppedStaysEmpty
<1>. DEFINE Emptied == stopping => queues = [p \in Priorities |-> <<>>]
<1>1. Init => Emptied
  BY DEF Init
<1>2. Emptied /\ [Next]_vars => Emptied'
  <2>. SUFFICES ASSUME Emptied, [Next]_vars PROVE Emptied'
    OBVIOUS
  <2>. USE DEF poolVars, workerVars, requestVars, closeVars
  <2>1. ASSUME NEW c \in Callers,
               (\E p \in Priorities : Submit(c, p)) \/ PollStop(c) \/ CallerStep(c) \/ Abandon(c)
        PROVE Emptied'
    BY <2>1 DEF Submit, PollStop, CallerStep, Signal, Return, Abandon
  <2>2. ASSUME NEW w \in Workers, WorkerStep(w) PROVE Emptied'
    BY <2>2 DEF WorkerStep, TakeWork, Sleep, Exit, Answer, FinishActive, FreeSlot, Retry,
                Retryable, SignalRetry, GiveUp, AnswerError, WakeOthers
  <2>3. ASSUME Stop \/ WakeToExit \/ Join \/ UNCHANGED vars PROVE Emptied'
    BY <2>3 DEF Stop, WakeToExit, Join, vars
  <2>. QED
    BY <2>1, <2>2, <2>3 DEF Next, CloseStep
<1>3. Emptied => StoppedStaysEmpty
  <2>. SUFFICES ASSUME Emptied, stopping PROVE Queued = {}
    BY DEF StoppedStaysEmpty
  <2>1. \A p \in Priorities : queues[p] = <<>>
    OBVIOUS
  <2>2. DOMAIN <<>> = {}
    OBVIOUS
  <2>. QED
    BY <2>1, <2>2 DEF Queued
<1>. QED
  BY <1>1, <1>2, <1>3, PTL DEF Spec

-----------------------------------------------------------------------------
(* The slots.                                                                 *)

(* The workers of a slot change one at a time, or not at all.                 *)
LEMMA BusyFinite ==
  ASSUME NEW p
  PROVE  IsFiniteSet(BusyAt(p)) /\ Cardinality(BusyAt(p)) \in Nat
BY PoolBounds, FS_Subset, FS_CardinalityType DEF BusyAt

LEMMA BusyJoins ==
  ASSUME NEW p, NEW w, w \notin BusyAt(p), BusyAt(p)' = BusyAt(p) \cup {w}
  PROVE  Cardinality(BusyAt(p))' = Cardinality(BusyAt(p)) + 1
BY BusyFinite, FS_AddElement

LEMMA BusyLeaves ==
  ASSUME NEW p, NEW w, w \in BusyAt(p), BusyAt(p)' = BusyAt(p) \ {w}
  PROVE  Cardinality(BusyAt(p))' = Cardinality(BusyAt(p)) - 1
BY BusyFinite, FS_RemoveElement

(* Historical requests take a slot only below their limit; with the counters  *)
(* exact this is inductive, and it leaves a worker free.                      *)
SlotInv == SlotsAccounted /\ activeBy[Historical] <= HistoricalLimit

LEMMA LimitType == HistoricalLimit \in Nat \ {0} /\ Cardinality(Workers) \in Nat \ {0}
BY PoolBounds, FS_CardinalityType, FS_EmptySet DEF HistoricalLimit

LEMMA SlotInit == Init => SlotInv
<1>. SUFFICES ASSUME Init PROVE SlotInv
  OBVIOUS
<1>1. \A p : BusyAt(p) = {}
  BY DEF Init, BusyAt, Busy
<1>2. \A p : Cardinality(BusyAt(p)) = 0
  BY <1>1, FS_EmptySet
<1>3. SlotsAccounted
  BY <1>2 DEF Init, SlotsAccounted, Priorities
<1>. QED
  BY <1>3, LimitType DEF Init, SlotInv, Priorities, Historical

(* A step that moves no worker into a slot, out of one or to another one.     *)
LEMMA SlotsKept ==
  ASSUME SlotInv, UNCHANGED <<active, activeBy>>,
         \A w \in Workers : /\ Busy(w)' <=> Busy(w)
                            /\ Busy(w) => level'[w] = level[w]
  PROVE  SlotInv'
<1>1. \A p : BusyAt(p)' = BusyAt(p)
  BY DEF BusyAt
<1>. QED
  BY <1>1 DEF SlotInv, SlotsAccounted, HistoricalLimit

(* A step in which one worker gives its slot back.                            *)
LEMMA SlotFreed ==
  ASSUME TypeInv, SlotInv, NEW w \in Workers, Busy(w), FreeSlot(w), ~Busy(w)',
         \A v \in Workers \ {w} : Busy(v)' <=> Busy(v)
  PROVE  SlotInv'
<1>0. PICK s \in Priorities : s = level[w]
  BY DEF TypeInv, TypeOK
<1>1. /\ active' = active - 1
      /\ activeBy' = [activeBy EXCEPT ![s] = @ - 1]
      /\ \A v \in Workers \ {w} : level'[v] = level[v]
      /\ activeBy \in [Priorities -> Int] /\ active \in Int
  BY <1>0 DEF FreeSlot, Slot, TypeInv, TypeOK
<1>2. w \in BusyAt(s) /\ BusyAt(s)' = BusyAt(s) \ {w}
  BY <1>0, <1>1 DEF BusyAt
<1>3. Cardinality(BusyAt(s))' = Cardinality(BusyAt(s)) - 1
  BY <1>2, BusyLeaves
<1>4. \A p \in Priorities \ {s} : BusyAt(p)' = BusyAt(p)
  BY <1>0, <1>1 DEF BusyAt
<1>5. \A p \in Priorities : activeBy'[p] = Cardinality(BusyAt(p))'
  BY <1>1, <1>3, <1>4 DEF SlotInv, SlotsAccounted
<1>6. active' = activeBy'[0] + activeBy'[1] + activeBy'[2]
  BY <1>1 DEF SlotInv, SlotsAccounted, Priorities
<1>7. activeBy'[Historical] <= HistoricalLimit
  BY <1>1, LimitType DEF SlotInv, Priorities, Historical
<1>. QED
  BY <1>5, <1>6, <1>7 DEF SlotInv, SlotsAccounted, HistoricalLimit

LEMMA SlotTaken ==
  ASSUME TypeInv, SlotInv, NEW w \in Workers, TakeWork(w)
  PROVE  SlotInv'
<1>1. PICK s \in Takeable : /\ active' = active + 1
                            /\ activeBy' = [activeBy EXCEPT ![s] = @ + 1]
                            /\ level' = [level EXCEPT ![w] = s]
  BY DEF TakeWork
<1>2. /\ s \in Priorities /\ (s = Historical => activeBy[s] < HistoricalLimit)
      /\ pc[w] = "idle" /\ pc' = [pc EXCEPT ![w] = "analyzing"]
      /\ activeBy \in [Priorities -> Int] /\ active \in Int
      /\ level \in [Workers -> Priorities] /\ pc \in [Workers -> Places]
  BY DEF TakeWork, Takeable, TypeInv, TypeOK
<1>3. w \notin BusyAt(s) /\ BusyAt(s)' = BusyAt(s) \cup {w}
  BY <1>1, <1>2 DEF BusyAt, Busy
<1>4. Cardinality(BusyAt(s))' = Cardinality(BusyAt(s)) + 1
  BY <1>3, BusyJoins
<1>5. \A p \in Priorities \ {s} : BusyAt(p)' = BusyAt(p)
  BY <1>1, <1>2 DEF BusyAt, Busy
<1>6. \A p \in Priorities : activeBy'[p] = Cardinality(BusyAt(p))'
  BY <1>1, <1>2, <1>4, <1>5 DEF SlotInv, SlotsAccounted
<1>7. active' = activeBy'[0] + activeBy'[1] + activeBy'[2]
  BY <1>1, <1>2 DEF SlotInv, SlotsAccounted, Priorities
<1>8. activeBy'[Historical] <= HistoricalLimit
  BY <1>1, <1>2, LimitType DEF SlotInv, Priorities, Historical
<1>. QED
  BY <1>6, <1>7, <1>8 DEF SlotInv, SlotsAccounted, HistoricalLimit

LEMMA SlotStep == TypeInv /\ SlotInv /\ [Next]_vars => SlotInv'
<1>. SUFFICES ASSUME TypeInv, SlotInv, [Next]_vars PROVE SlotInv'
  OBVIOUS
<1>. USE DEF poolVars, workerVars, requestVars, closeVars, Busy
<1>0. pc \in [Workers -> Places]
  BY DEF TypeInv, TypeOK
<1>1. ASSUME NEW w \in Workers, FinishActive(w) PROVE SlotInv'
  <2>1. Woken(pc, WakeAll) /\ pc' = [WakeAll EXCEPT ![w] = "idle"]
    BY <1>1, WakeAllWakes DEF FinishActive, TypeInv
  <2>. QED
    BY <1>1, <2>1, SlotFreed DEF FinishActive, Woken
<1>2. ASSUME NEW w \in Workers, Retry(w) \/ GiveUp(w) PROVE SlotInv'
  BY <1>0, <1>2, SlotFreed DEF Retry, GiveUp
<1>3. ASSUME NEW w \in Workers, Sleep(w) \/ Exit(w) \/ Answer(w) \/ AnswerError(w)
      PROVE SlotInv'
  BY <1>0, <1>3, SlotsKept DEF Sleep, Exit, Answer, AnswerError
<1>4. ASSUME NEW w \in Workers, SignalRetry(w) PROVE SlotInv'
  <2>. DEFINE mine == [pc EXCEPT ![w] = "idle"]
  <2>1. /\ mine \in [Workers -> Places]
        /\ \A v \in Workers : pc[v] = "waiting" => mine[v] = "waiting"
    BY <1>0, <1>4 DEF SignalRetry, Places
  <2>2. Woken(mine, pc')
    BY <1>4, <2>1, NotifyOneWakes DEF SignalRetry
  <2>. QED
    BY <1>0, <1>4, <2>2, SlotsKept DEF SignalRetry, Woken
<1>5. ASSUME NEW c \in Callers, Signal(c) PROVE SlotInv'
  <2>1. Woken(pc, pc')
    BY <1>0, <1>5, NotifyOneWakes DEF Signal
  <2>. QED
    BY <1>5, <2>1, SlotsKept DEF Signal, Woken
<1>6. ASSUME NEW w \in Workers, WakeOthers(w) PROVE SlotInv'
  BY <1>0, <1>6, WakeAllWakes, SlotsKept DEF WakeOthers, Woken, TypeInv
<1>7. ASSUME WakeToExit PROVE SlotInv'
  BY <1>7, WakeAllWakes, SlotsKept DEF WakeToExit, Woken, TypeInv
<1>8. ASSUME UNCHANGED <<active, activeBy, pc, level>> PROVE SlotInv'
  BY <1>8, SlotsKept
<1>9. ASSUME NEW c \in Callers, \/ \E p \in Priorities : Submit(c, p)
                                \/ PollStop(c) \/ Return(c) \/ Abandon(c)
      PROVE UNCHANGED <<active, activeBy, pc, level>>
  BY <1>9 DEF Submit, PollStop, Return, Abandon
<1>10. ASSUME Stop \/ Join \/ UNCHANGED vars PROVE UNCHANGED <<active, activeBy, pc, level>>
  BY <1>10 DEF Stop, Join, vars
<1>. QED
  BY SlotTaken, <1>1, <1>2, <1>3, <1>4, <1>5, <1>6, <1>7, <1>8, <1>9, <1>10
     DEF Next, CallerStep, WorkerStep, CloseStep

LEMMA SlotInvariant == Spec => []SlotInv
BY SlotInit, TypeInvariant, SlotStep, PTL DEF Spec

(* No slot leaks and none is freed twice: the counters that gate admission    *)
(* and historical work are exact, for any number of workers and retries.      *)
THEOREM SlotsExact == Spec => []SlotsAccounted
BY SlotInvariant, PTL DEF SlotInv

(* With more than one worker, historical requests leave one of them free.     *)
THEOREM HistoricalLeavesRoom == Spec => []HistoricalCapped
<1>1. SlotInv => HistoricalCapped
  <2>. SUFFICES ASSUME SlotInv, Cardinality(Workers) > 1,
                       \A w \in Workers : w \in BusyAt(Historical)
                PROVE FALSE
    BY DEF HistoricalCapped
  <2>1. BusyAt(Historical) = Workers
    BY DEF BusyAt
  <2>2. activeBy[Historical] = Cardinality(Workers)
    BY <2>1 DEF SlotInv, SlotsAccounted, Priorities, Historical
  <2>. QED
    BY <2>2, LimitType DEF SlotInv, HistoricalLimit
<1>. QED
  BY <1>1, SlotInvariant, PTL

-----------------------------------------------------------------------------
(* One worker on its way does not do for two requests: when it has taken the  *)
(* first, nobody would come for the second.  What is inductive counts: either *)
(* nobody sleeps, or those who are on their way, or are yet to notify, are as *)
(* many as the requests that may be taken one after another.                  *)
OnTheWay == {w \in Workers : pc[w] \in {"idle", "signalling", "failing", "waking"}}
Notifying == {c \in Callers : phase[c] = "signalling"}
Supply == Cardinality(OnTheWay) + Cardinality(Notifying)

Least(m, n) == IF m <= n THEN m ELSE n
Demand ==
  Len(queues[0]) + Len(queues[1])
    + Least(Len(queues[2]), HistoricalLimit - activeBy[Historical])

Covered == stopping \/ Sleeping = {} \/ Demand <= Supply
WakeInv == IsFiniteSet(Notifying) /\ Covered

LEMMA SupplyType ==
  ASSUME IsFiniteSet(Notifying)
  PROVE  /\ IsFiniteSet(OnTheWay)
         /\ Cardinality(OnTheWay) \in Nat /\ Cardinality(Notifying) \in Nat
BY PoolBounds, FS_Subset, FS_CardinalityType DEF OnTheWay

LEMMA DemandType ==
  ASSUME TypeInv, SlotInv
  PROVE  Demand \in Nat /\ (Takeable = {} <=> Demand = 0)
<1>. DEFINE l0 == Len(queues[0])   l1 == Len(queues[1])   l2 == Len(queues[2])
            a == activeBy[Historical]   h == HistoricalLimit
<1>1. /\ l0 \in Nat /\ l1 \in Nat /\ l2 \in Nat
      /\ queues[0] = <<>> <=> l0 = 0
      /\ queues[1] = <<>> <=> l1 = 0
      /\ queues[2] = <<>> <=> l2 = 0
  BY LenProperties, EmptySeq DEF TypeInv, TypeOK, Priorities
<1>2. a \in Int /\ h \in Nat /\ a <= h
  BY LimitType DEF TypeInv, TypeOK, SlotInv, Priorities, Historical
<1>3. Takeable = {} <=> (l0 = 0 /\ l1 = 0 /\ (l2 = 0 \/ ~(a < h)))
  BY <1>1 DEF Takeable, Priorities, Historical
<1>4. Demand = l0 + l1 + Least(l2, h - a)
  BY DEF Demand
<1>. HIDE DEF l0, l1, l2, a, h
<1>. QED
  BY <1>1, <1>2, <1>3, <1>4 DEF Least

(* A request more, a slot less, or both for one historical request, add at    *)
(* most one to what may be taken.                                             *)
LEMMA DemandGrows ==
  ASSUME TypeInv, TypeInv', SlotInv, SlotInv', NEW p \in Priorities,
         \A q \in Priorities \ {p} : queues'[q] = queues[q],
         \/ /\ Len(queues'[p]) = Len(queues[p]) + 1
            /\ \/ activeBy'[Historical] = activeBy[Historical]
               \/ p = Historical /\ activeBy'[Historical] = activeBy[Historical] - 1
         \/ /\ queues'[p] = queues[p]
            /\ \/ activeBy'[Historical] = activeBy[Historical]
               \/ activeBy'[Historical] = activeBy[Historical] - 1
  PROVE  Demand' \in Int /\ Demand' <= Demand + 1
<1>. DEFINE l0 == Len(queues[0])   m0 == Len(queues'[0])
            l1 == Len(queues[1])   m1 == Len(queues'[1])
            l2 == Len(queues[2])   m2 == Len(queues'[2])
            a == activeBy[Historical]   b == activeBy'[Historical]
            h == HistoricalLimit
<1>1. /\ l0 \in Nat /\ l1 \in Nat /\ l2 \in Nat /\ a \in Int
      /\ m0 \in Nat /\ m1 \in Nat /\ m2 \in Nat /\ b \in Int /\ h \in Nat
  BY LenProperties, LimitType DEF TypeInv, TypeOK, Priorities, Historical
<1>2. \/ m0 <= l0 + 1 /\ m1 = l1 /\ m2 = l2 /\ b = a
      \/ m0 = l0 /\ m1 <= l1 + 1 /\ m2 = l2 /\ b = a
      \/ m0 = l0 /\ m1 = l1 /\ m2 <= l2 + 1 /\ (b = a \/ b = a - 1)
  BY <1>1 DEF Priorities, Historical
<1>3. Demand = l0 + l1 + Least(l2, h - a) /\ Demand' = m0 + m1 + Least(m2, h - b)
  BY DEF Demand, Least, HistoricalLimit
<1>. HIDE DEF l0, l1, l2, m0, m1, m2, a, b, h
<1>. QED
  BY <1>1, <1>2, <1>3 DEF Least

LEMMA DemandTaken ==
  ASSUME TypeInv, TypeInv', SlotInv, NEW p \in Takeable,
         \A q \in Priorities \ {p} : queues'[q] = queues[q],
         Len(queues'[p]) = Len(queues[p]) - 1,
         activeBy' = [activeBy EXCEPT ![p] = @ + 1]
  PROVE  Demand' = Demand - 1
<1>. DEFINE l0 == Len(queues[0])   m0 == Len(queues'[0])
            l1 == Len(queues[1])   m1 == Len(queues'[1])
            l2 == Len(queues[2])   m2 == Len(queues'[2])
            a == activeBy[Historical]   b == activeBy'[Historical]
            h == HistoricalLimit
<1>1. /\ l0 \in Nat /\ l1 \in Nat /\ l2 \in Nat /\ a \in Int
      /\ m0 \in Nat /\ m1 \in Nat /\ m2 \in Nat /\ b \in Int /\ h \in Nat
  BY LenProperties, LimitType DEF TypeInv, TypeOK, Priorities, Historical
<1>2. \/ m0 = l0 - 1 /\ m1 = l1 /\ m2 = l2 /\ b = a
      \/ m0 = l0 /\ m1 = l1 - 1 /\ m2 = l2 /\ b = a
      \/ m0 = l0 /\ m1 = l1 /\ m2 = l2 - 1 /\ b = a + 1
  <2>1. activeBy'[p] = activeBy[p] + 1 /\ \A q \in Priorities \ {p} : activeBy'[q] = activeBy[q]
    BY DEF Takeable, TypeInv, TypeOK
  <2>2. p = 0 \/ p = 1 \/ p = 2
    BY DEF Takeable, Priorities
  <2>3. CASE p = 0
    BY <2>1, <2>3 DEF Priorities, Historical
  <2>4. CASE p = 1
    BY <2>1, <2>4 DEF Priorities, Historical
  <2>5. CASE p = 2
    BY <2>1, <2>5 DEF Priorities, Historical
  <2>. QED
    BY <2>2, <2>3, <2>4, <2>5
<1>3. Demand = l0 + l1 + Least(l2, h - a) /\ Demand' = m0 + m1 + Least(m2, h - b)
  BY DEF Demand, Least, HistoricalLimit
<1>. HIDE DEF l0, l1, l2, m0, m1, m2, a, b, h
<1>. QED
  BY <1>1, <1>2, <1>3 DEF Least

-----------------------------------------------------------------------------
LEMMA WakeMeans == TypeInv /\ SlotInv /\ WakeInv => NoLostWakeup
<1>. SUFFICES ASSUME TypeInv, SlotInv, WakeInv, Takeable # {}, Sleeping # {}, ~stopping,
                     OnTheWay = {}, Notifying = {}
              PROVE  FALSE
  BY DEF NoLostWakeup, OnTheWay, Notifying
<1>1. Cardinality(OnTheWay) = 0 /\ Cardinality(Notifying) = 0
  BY FS_EmptySet
<1>. QED
  BY <1>1, DemandType DEF WakeInv, Covered, Supply

LEMMA WakeInit == Init => WakeInv
<1>. SUFFICES ASSUME Init PROVE WakeInv
  OBVIOUS
<1>1. Notifying = {} /\ Sleeping = {}
  BY DEF Init, Notifying, Sleeping
<1>. QED
  BY <1>1, FS_EmptySet DEF WakeInv, Covered

(* A notification: the notifying thread is off the list, a sleeper joins it,  *)
(* or there is none.  rest are those on their way who do not notify.          *)
LEMMA NotifyKeeps ==
  ASSUME TypeInv, NEW mine \in [Workers -> Places], NotifyOne(mine),
         \A w \in Workers : mine[w] = "waiting" <=> pc[w] = "waiting"
  PROVE  LET rest == {w \in Workers : mine[w] \in {"idle", "signalling", "failing", "waking"}}
         IN  \/ Sleeping' = {}
             \/ \E s \in Workers \ rest : OnTheWay' = rest \cup {s}
<1>. DEFINE rest == {w \in Workers : mine[w] \in {"idle", "signalling", "failing", "waking"}}
<1>1. CASE Sleeping = {}
  BY <1>1 DEF NotifyOne, Sleeping
<1>2. ASSUME NEW s \in Sleeping, pc' = [mine EXCEPT ![s] = "idle"]
      PROVE  s \in Workers \ rest /\ OnTheWay' = rest \cup {s}
  BY <1>2 DEF Sleeping, OnTheWay, Places
<1>. QED
  BY <1>1, <1>2 DEF NotifyOne

(* Arithmetic of the list: a member more or less, of either kind.             *)
LEMMA WorkerJoins ==
  ASSUME IsFiniteSet(Notifying), Notifying' = Notifying,
         NEW w, w \notin OnTheWay, OnTheWay' = OnTheWay \cup {w}
  PROVE  Supply' = Supply + 1 /\ Supply \in Nat
<1>1. Cardinality(OnTheWay') = Cardinality(OnTheWay) + 1
  BY SupplyType, FS_AddElement
<1>. QED
  BY <1>1, SupplyType DEF Supply

LEMMA WorkerLeaves ==
  ASSUME IsFiniteSet(Notifying), Notifying' = Notifying,
         NEW w, w \in OnTheWay, OnTheWay' = OnTheWay \ {w}
  PROVE  Supply' = Supply - 1 /\ Supply \in Nat
<1>1. Cardinality(OnTheWay') = Cardinality(OnTheWay) - 1
  BY SupplyType, FS_RemoveElement
<1>. QED
  BY <1>1, SupplyType DEF Supply

LEMMA CallerJoins ==
  ASSUME IsFiniteSet(Notifying), OnTheWay' = OnTheWay,
         NEW c, c \notin Notifying, Notifying' = Notifying \cup {c}
  PROVE  Supply' = Supply + 1 /\ Supply \in Nat /\ IsFiniteSet(Notifying')
<1>1. /\ IsFiniteSet(Notifying')
      /\ Cardinality(Notifying') = Cardinality(Notifying) + 1
  BY FS_AddElement
<1>. QED
  BY <1>1, SupplyType DEF Supply

(* A step that changes neither side.                                          *)
LEMMA WakeKept ==
  ASSUME WakeInv, UNCHANGED <<queues, activeBy>>, stopping => stopping',
         Notifying' = Notifying, OnTheWay' = OnTheWay, Sleeping' \subseteq Sleeping
  PROVE  WakeInv'
BY DEF WakeInv, Covered, Supply, Demand, Least, HistoricalLimit

(* A step after which nobody sleeps.                                          *)
LEMMA AllAwake ==
  ASSUME WakeInv, Notifying' = Notifying, Sleeping' = {}
  PROVE  WakeInv'
BY DEF WakeInv, Covered

LEMMA WakeStep ==
  TypeInv /\ TypeInv' /\ SlotInv /\ SlotInv' /\ WakeInv /\ [Next]_vars => WakeInv'
<1>. SUFFICES ASSUME TypeInv, TypeInv', SlotInv, SlotInv', WakeInv, [Next]_vars PROVE WakeInv'
  OBVIOUS
<1>. USE DEF poolVars, workerVars, requestVars, closeVars
<1>0. /\ pc \in [Workers -> Places] /\ IsFiniteSet(Notifying)
      /\ Demand \in Nat
  BY DemandType DEF TypeInv, TypeOK, WakeInv
<1>1. ASSUME NEW c \in Callers, NEW p \in Priorities, Submit(c, p) PROVE WakeInv'
  <2>1. /\ Len(queues'[p]) = Len(queues[p]) + 1
        /\ \A q \in Priorities \ {p} : queues'[q] = queues[q]
        /\ activeBy' = activeBy /\ pc' = pc /\ stopping' = stopping
    BY <1>1, QueueAppend DEF Submit, TypeInv, TypeOK
  <2>2. Demand' \in Int /\ Demand' <= Demand + 1
    BY <2>1, DemandGrows
  <2>3. c \notin Notifying /\ Notifying' = Notifying \cup {c}
    BY <1>1 DEF Submit, Notifying, TypeInv, TypeOK
  <2>4. OnTheWay' = OnTheWay /\ Sleeping' = Sleeping
    BY <2>1 DEF OnTheWay, Sleeping
  <2>5. Supply' = Supply + 1 /\ Supply \in Nat /\ IsFiniteSet(Notifying')
    BY <1>0, <2>3, <2>4, CallerJoins
  <2>. QED
    BY <1>0, <2>1, <2>2, <2>4, <2>5 DEF WakeInv, Covered
<1>2. ASSUME NEW c \in Callers, Signal(c) PROVE WakeInv'
  <2>1. c \in Notifying /\ Notifying' = Notifying \ {c}
    BY <1>2 DEF Signal, Notifying, TypeInv, TypeOK
  <2>2. IsFiniteSet(Notifying') /\ Cardinality(Notifying') = Cardinality(Notifying) - 1
    BY <1>0, <2>1, FS_RemoveElement
  <2>3. UNCHANGED <<queues, activeBy, stopping>> /\ NotifyOne(pc)
    BY <1>2 DEF Signal
  <2>4. Demand' = Demand
    BY <2>3 DEF Demand, Least, HistoricalLimit
  <2>5. Sleeping' = {} \/ \E s \in Workers \ OnTheWay : OnTheWay' = OnTheWay \cup {s}
    BY <1>0, <2>3, NotifyKeeps DEF OnTheWay
  <2>6. CASE Sleeping' = {}
    BY <2>2, <2>6 DEF WakeInv, Covered
  <2>7. ASSUME NEW s \in Workers \ OnTheWay, OnTheWay' = OnTheWay \cup {s}, Sleeping' # {}
        PROVE  WakeInv'
    <3>1. Cardinality(OnTheWay') = Cardinality(OnTheWay) + 1
      BY <1>0, <2>7, SupplyType, FS_AddElement
    <3>2. Supply' = Supply /\ Sleeping # {}
      <4>1. Supply' = Supply
        BY <1>0, <2>2, <3>1, SupplyType DEF Supply
      <4>2. Sleeping # {}
        BY <1>0, <2>3, <2>7, NotifyOneWakes DEF Sleeping, Woken
      <4>. QED  BY <4>1, <4>2
    <3>. QED
      BY <2>2, <2>3, <2>4, <3>2 DEF WakeInv, Covered
  <2>. QED
    BY <2>5, <2>6, <2>7
<1>3. ASSUME NEW w \in Workers, TakeWork(w) PROVE WakeInv'
  <2>1. PICK p \in Takeable : /\ queues' = [queues EXCEPT ![p] = Tail(@)]
                              /\ activeBy' = [activeBy EXCEPT ![p] = @ + 1]
    BY <1>3 DEF TakeWork
  <2>2. /\ Len(queues'[p]) = Len(queues[p]) - 1
        /\ \A q \in Priorities \ {p} : queues'[q] = queues[q]
    BY <2>1, QueuePop DEF Takeable, TypeInv, TypeOK
  <2>3. Demand' = Demand - 1
    BY <2>1, <2>2, DemandTaken
  <2>4. /\ w \in OnTheWay /\ OnTheWay' = OnTheWay \ {w} /\ Sleeping' = Sleeping
        /\ Notifying' = Notifying /\ stopping' = stopping
    BY <1>0, <1>3 DEF TakeWork, OnTheWay, Sleeping, Notifying
  <2>5. Supply' = Supply - 1 /\ Supply \in Nat
    BY <1>0, <2>4, WorkerLeaves
  <2>. QED
    BY <1>0, <2>3, <2>4, <2>5 DEF WakeInv, Covered
<1>4. ASSUME NEW w \in Workers, Sleep(w) PROVE WakeInv'
  <2>1. Takeable = {} /\ UNCHANGED <<queues, activeBy, phase>>
    BY <1>4 DEF Sleep
  <2>2. Demand' = 0 /\ Notifying' = Notifying
    BY <2>1, DemandType DEF Demand, Least, HistoricalLimit, Notifying
  <2>3. Supply' \in Nat
    <3>1. /\ OnTheWay' = OnTheWay \ {w} /\ w \in OnTheWay
      BY <1>0, <1>4 DEF Sleep, OnTheWay
    <3>. QED
      BY <1>0, <2>2, <3>1, SupplyType, FS_RemoveElement, FS_CardinalityType DEF Supply
  <2>. QED
    BY <1>0, <2>2, <2>3 DEF WakeInv, Covered
<1>5. ASSUME NEW w \in Workers, Exit(w) PROVE WakeInv'
  BY <1>5 DEF Exit, WakeInv, Covered, Notifying
<1>6. ASSUME NEW w \in Workers, Answer(w) \/ AnswerError(w) PROVE WakeInv'
  <2>1. UNCHANGED <<queues, activeBy, stopping, phase>>
    BY <1>6 DEF Answer, AnswerError
  <2>2. OnTheWay' = OnTheWay /\ Sleeping' = Sleeping
    BY <1>0, <1>6 DEF Answer, AnswerError, OnTheWay, Sleeping
  <2>. QED
    BY <2>1, <2>2, WakeKept DEF Notifying
<1>7. ASSUME NEW w \in Workers, FinishActive(w) \/ WakeOthers(w) PROVE WakeInv'
  <2>1. Notifying' = Notifying /\ pc' = [WakeAll EXCEPT ![w] = "idle"]
    BY <1>7 DEF FinishActive, WakeOthers, Notifying
  <2>2. Sleeping' = {}
    BY <2>1 DEF WakeAll, Sleeping
  <2>. QED
    BY <2>1, <2>2, AllAwake
<1>8. ASSUME NEW w \in Workers, Retry(w) PROVE WakeInv'
  <2>1. PICK p \in Priorities : p = level[w]
    BY DEF TypeInv, TypeOK
  <2>2. serving[w] \in Callers
    BY <1>8 DEF Retry, TypeInv, HoldersServe, Holding
  <2>3. /\ Len(queues'[p]) = Len(queues[p]) + 1
        /\ \A q \in Priorities \ {p} : queues'[q] = queues[q]
        /\ stopping' = stopping /\ Notifying' = Notifying
    BY <1>8, <2>1, <2>2, QueuePushFront, LenProperties DEF Retry, TypeInv, TypeOK, Notifying
  <2>4. activeBy' = [activeBy EXCEPT ![p] = @ - 1] /\ activeBy \in [Priorities -> Int]
    BY <1>8, <2>1 DEF Retry, FreeSlot, Slot, TypeInv, TypeOK
  <2>5. Demand' \in Int /\ Demand' <= Demand + 1
    BY <2>3, <2>4, DemandGrows DEF Historical, Priorities
  <2>6. w \notin OnTheWay /\ OnTheWay' = OnTheWay \cup {w} /\ Sleeping' = Sleeping
    BY <1>0, <1>8 DEF Retry, OnTheWay, Sleeping
  <2>7. Supply' = Supply + 1 /\ Supply \in Nat
    BY <1>0, <2>3, <2>6, WorkerJoins
  <2>. QED
    BY <1>0, <2>3, <2>5, <2>6, <2>7 DEF WakeInv, Covered
<1>9. ASSUME NEW w \in Workers, GiveUp(w) PROVE WakeInv'
  <2>1. PICK p \in Priorities : p = level[w]
    BY DEF TypeInv, TypeOK
  <2>2. queues' = queues /\ stopping' = stopping /\ Notifying' = Notifying
    BY <1>9 DEF GiveUp, Notifying
  <2>3. activeBy' = [activeBy EXCEPT ![p] = @ - 1] /\ activeBy \in [Priorities -> Int]
    BY <1>9, <2>1 DEF GiveUp, FreeSlot, Slot, TypeInv, TypeOK
  <2>4. Demand' \in Int /\ Demand' <= Demand + 1
    BY <2>2, <2>3, DemandGrows DEF Historical, Priorities
  <2>5. w \notin OnTheWay /\ OnTheWay' = OnTheWay \cup {w} /\ Sleeping' = Sleeping
    BY <1>0, <1>9 DEF GiveUp, OnTheWay, Sleeping
  <2>6. Supply' = Supply + 1 /\ Supply \in Nat
    BY <1>0, <2>2, <2>5, WorkerJoins
  <2>. QED
    BY <1>0, <2>2, <2>4, <2>5, <2>6 DEF WakeInv, Covered
<1>10. ASSUME NEW w \in Workers, SignalRetry(w) PROVE WakeInv'
  <2>. DEFINE mine == [pc EXCEPT ![w] = "idle"]
  <2>1. /\ mine \in [Workers -> Places]
        /\ \A v \in Workers : mine[v] = "waiting" <=> pc[v] = "waiting"
        /\ NotifyOne(mine)
    BY <1>0, <1>10 DEF SignalRetry, Places
  <2>2. OnTheWay = {v \in Workers : mine[v] \in {"idle", "signalling", "failing", "waking"}}
    BY <1>0, <1>10 DEF SignalRetry, OnTheWay
  <2>3. UNCHANGED <<queues, activeBy, stopping>> /\ Notifying' = Notifying
    BY <1>10 DEF SignalRetry, Notifying
  <2>4. Demand' = Demand
    BY <2>3 DEF Demand, Least, HistoricalLimit
  <2>. HIDE DEF mine
  <2>5. Sleeping' = {} \/ \E s \in Workers \ OnTheWay : OnTheWay' = OnTheWay \cup {s}
    BY <2>1, <2>2, NotifyKeeps
  <2>6. ASSUME NEW s \in Workers \ OnTheWay, OnTheWay' = OnTheWay \cup {s}, Sleeping' # {}
        PROVE  WakeInv'
    <3>1. Supply' = Supply + 1 /\ Supply \in Nat
      BY <1>0, <2>3, <2>6, WorkerJoins
    <3>2. Sleeping # {}
      BY <2>1, <2>6, NotifyOneWakes DEF Sleeping, Woken
    <3>. QED
      BY <1>0, <2>3, <2>4, <3>1, <3>2 DEF WakeInv, Covered
  <2>. QED
    BY <2>3, <2>5, <2>6, AllAwake
<1>11. ASSUME NEW c \in Callers, Return(c) \/ PollStop(c) \/ Abandon(c) PROVE WakeInv'
  <2>1. UNCHANGED <<queues, activeBy, stopping, pc>>
    BY <1>11 DEF Return, PollStop, Abandon
  <2>2. Notifying' = Notifying
    BY <1>11 DEF Return, PollStop, Abandon, Notifying, TypeInv, TypeOK
  <2>. QED
    BY <2>1, <2>2, WakeKept DEF OnTheWay, Sleeping
<1>12. ASSUME Stop PROVE WakeInv'
  BY <1>12 DEF Stop, WakeInv, Covered, Notifying
<1>13. ASSUME WakeToExit PROVE WakeInv'
  <2>1. Notifying' = Notifying /\ Sleeping' = {}
    BY <1>13 DEF WakeToExit, WakeAll, Notifying, Sleeping
  <2>. QED
    BY <2>1, AllAwake
<1>14. ASSUME Join \/ UNCHANGED vars PROVE WakeInv'
  BY <1>14, WakeKept DEF Join, vars, Notifying, OnTheWay, Sleeping
<1>. QED
  BY <1>1, <1>2, <1>3, <1>4, <1>5, <1>6, <1>7, <1>8, <1>9, <1>10, <1>11, <1>12, <1>13, <1>14
     DEF Next, CallerStep, WorkerStep, CloseStep

LEMMA WakeInvariant == Spec => []WakeInv
BY WakeInit, TypeInvariant, SlotInvariant, WakeStep, PTL DEF Spec

(* Work is conserved: while a request may be taken and a worker sleeps,       *)
(* another worker is on its way to the queues or a wake-up is still to be     *)
(* sent, although notify_one wakes a single worker and may find none asleep.  *)
THEOREM WakeupsNotLost == Spec => []NoLostWakeup
BY TypeInvariant, SlotInvariant, WakeInvariant, WakeMeans, PTL

-----------------------------------------------------------------------------
(* The elements of a sequence, and a sequence that repeats none.              *)
Elems(q) == {q[i] : i \in DOMAIN q}
Distinct(q) == \A i, j \in DOMAIN q : q[i] = q[j] => i = j

(* How the operations on a queue change what it holds.                        *)
LEMMA ElemsAppend ==
  ASSUME NEW S, NEW q \in Seq(S), NEW x \in S
  PROVE  /\ Elems(Append(q, x)) = Elems(q) \cup {x}
         /\ Distinct(q) /\ x \notin Elems(q) => Distinct(Append(q, x))
<1>. DEFINE r == Append(q, x)   n == Len(q)
<1>1. n \in Nat /\ DOMAIN q = 1..n
  BY LenProperties
<1>2. r \in Seq(S) /\ Len(r) = n + 1 /\ r[n + 1] = x /\ \A i \in 1..n : r[i] = q[i]
  BY AppendProperties
<1>3. DOMAIN r = 1..(n + 1)
  BY <1>2, LenProperties
<1>. HIDE DEF r, n
<1>4. DOMAIN r = DOMAIN q \cup {n + 1} /\ n + 1 \notin DOMAIN q
  BY <1>1, <1>3
<1>5. \A i \in DOMAIN q : r[i] = q[i]
  BY <1>1, <1>2
<1>6. Elems(r) = Elems(q) \cup {x}
  BY <1>2, <1>4, <1>5 DEF Elems
<1>7. ASSUME Distinct(q), x \notin Elems(q) PROVE Distinct(r)
  BY <1>2, <1>4, <1>5, <1>7 DEF Elems, Distinct
<1>. QED
  BY <1>6, <1>7 DEF r

LEMMA ElemsPush ==
  ASSUME NEW S, NEW q \in Seq(S), NEW x \in S
  PROVE  /\ Elems(<<x>> \o q) = Elems(q) \cup {x}
         /\ Distinct(q) /\ x \notin Elems(q) => Distinct(<<x>> \o q)
<1>. DEFINE r == <<x>> \o q   n == Len(q)
<1>1. n \in Nat /\ DOMAIN q = 1..n
  BY LenProperties
<1>2. <<x>> \in Seq(S) /\ Len(<<x>>) = 1 /\ <<x>>[1] = x
  OBVIOUS
<1>3. r \in Seq(S) /\ Len(r) = n + 1
  BY <1>1, <1>2, ConcatProperties
<1>4. \A i \in 1..(n + 1) : r[i] = IF i <= 1 THEN <<x>>[i] ELSE q[i - 1]
  BY <1>1, <1>2, ConcatProperties
<1>5. DOMAIN r = 1..(n + 1)
  BY <1>3, LenProperties
<1>. HIDE DEF r, n
<1>6. r[1] = x /\ 1 \in DOMAIN r
  BY <1>1, <1>2, <1>4, <1>5
<1>7. \A i \in DOMAIN q : i + 1 \in DOMAIN r /\ i + 1 # 1 /\ r[i + 1] = q[i]
  BY <1>1, <1>4, <1>5
<1>8. \A i \in DOMAIN r : i = 1 \/ (i - 1 \in DOMAIN q /\ i = (i - 1) + 1)
  BY <1>1, <1>5
<1>9. Elems(r) = Elems(q) \cup {x}
  <2>1. Elems(r) \subseteq Elems(q) \cup {x}
    <3>. SUFFICES ASSUME NEW i \in DOMAIN r PROVE r[i] \in Elems(q) \cup {x}
      BY DEF Elems
    <3>1. CASE i = 1
      BY <1>6, <3>1
    <3>2. CASE i - 1 \in DOMAIN q /\ i = (i - 1) + 1
      BY <1>7, <3>2 DEF Elems
    <3>. QED  BY <1>8, <3>1, <3>2
  <2>2. Elems(q) \subseteq Elems(r)
    BY <1>7 DEF Elems
  <2>3. x \in Elems(r)
    BY <1>6 DEF Elems
  <2>. QED  BY <2>1, <2>2, <2>3
<1>10. ASSUME Distinct(q), x \notin Elems(q) PROVE Distinct(r)
  <2>. SUFFICES ASSUME NEW i \in DOMAIN r, NEW j \in DOMAIN r, r[i] = r[j] PROVE i = j
    BY DEF Distinct
  <2>1. CASE i = 1 /\ j = 1
    BY <2>1
  <2>2. ~(i = 1 /\ j - 1 \in DOMAIN q /\ j = (j - 1) + 1)
    BY <1>6, <1>7, <1>10 DEF Elems
  <2>3. ~(j = 1 /\ i - 1 \in DOMAIN q /\ i = (i - 1) + 1)
    BY <1>6, <1>7, <1>10 DEF Elems
  <2>4. CASE /\ i - 1 \in DOMAIN q /\ i = (i - 1) + 1
             /\ j - 1 \in DOMAIN q /\ j = (j - 1) + 1
    <3>1. r[i] = q[i - 1] /\ r[j] = q[j - 1]
      BY <1>7, <2>4
    <3>2. i - 1 = j - 1
      BY <1>10, <2>4, <3>1 DEF Distinct
    <3>. QED  BY <2>4, <3>2
  <2>. QED  BY <1>8, <2>1, <2>2, <2>3, <2>4
<1>. QED
  BY <1>9, <1>10 DEF r

LEMMA ElemsPop ==
  ASSUME NEW S, NEW q \in Seq(S), q # <<>>, Distinct(q)
  PROVE  /\ Head(q) \in Elems(q)
         /\ Elems(Tail(q)) = Elems(q) \ {Head(q)}
         /\ Distinct(Tail(q))
<1>. DEFINE r == Tail(q)   n == Len(q)
<1>1. n \in Nat \ {0} /\ DOMAIN q = 1..n /\ Head(q) = q[1]
  BY LenProperties, EmptySeq
<1>2. r \in Seq(S) /\ Len(r) = n - 1 /\ \A i \in 1..Len(r) : r[i] = q[i + 1]
  BY HeadTailProperties
<1>3. DOMAIN r = 1..(n - 1)
  BY <1>2, LenProperties
<1>. HIDE DEF r, n
<1>4. 1 \in DOMAIN q
  BY <1>1
<1>5. \A i \in DOMAIN r : i + 1 \in DOMAIN q /\ i + 1 # 1 /\ r[i] = q[i + 1]
  BY <1>1, <1>2, <1>3
<1>6. \A i \in DOMAIN q : i = 1 \/ (i - 1 \in DOMAIN r /\ q[i] = r[i - 1])
  <2>. SUFFICES ASSUME NEW i \in DOMAIN q, i # 1
                PROVE  i - 1 \in DOMAIN r /\ q[i] = r[i - 1]
    OBVIOUS
  <2>1. i - 1 \in DOMAIN r /\ (i - 1) + 1 = i
    BY <1>1, <1>3
  <2>. QED  BY <1>5, <2>1
<1>7. Elems(r) = Elems(q) \ {q[1]}
  <2>1. \A i \in DOMAIN r : r[i] \in Elems(q) /\ r[i] # q[1]
    BY <1>4, <1>5 DEF Elems, Distinct
  <2>2. \A i \in DOMAIN q : q[i] # q[1] => q[i] \in Elems(r)
    BY <1>6 DEF Elems
  <2>. QED  BY <2>1, <2>2 DEF Elems
<1>8. \A i, j \in DOMAIN r : r[i] = r[j] => i = j
  <2>. SUFFICES ASSUME NEW i \in DOMAIN r, NEW j \in DOMAIN r, r[i] = r[j] PROVE i = j
    OBVIOUS
  <2>1. i + 1 = j + 1
    BY <1>5 DEF Distinct
  <2>. QED  BY <1>1, <1>3, <2>1
<1>. QED
  BY <1>1, <1>4, <1>7, <1>8 DEF r, Elems, Distinct

-----------------------------------------------------------------------------
(* The inductive form of RequestInOnePlace: the conjuncts over what the       *)
(* queues hold, and two facts about the callers and the destructor that the   *)
(* admission and the shutdown rest on.                                        *)
In(p) == Elems(queues[p])

QueuesHold ==
  \A p \in Priorities :
    /\ Distinct(queues[p])
    /\ \A c \in In(p) : Unanswered(c) /\ priority[c] = p
WorkersHold ==
  \A w \in Workers : Holding(w) =>
    /\ Unanswered(serving[w])
    /\ pc[w] = "analyzing" => priority[serving[w]] = level[w]
    /\ \A p \in Priorities : serving[w] \notin In(p)
    /\ \A v \in Workers : Holding(v) /\ serving[v] = serving[w] => v = w
DestructorHolds ==
  \A c \in abandoned :
    /\ Unanswered(c)
    /\ \A p \in Priorities : c \notin In(p)
    /\ \A w \in Workers : Holding(w) => serving[w] # c
AllHeld ==
  \A c \in Callers : Unanswered(c) =>
    \/ \E p \in Priorities : c \in In(p)
    \/ c \in abandoned
    \/ \E w \in Workers : Holding(w) /\ serving[w] = c
OutsideUnanswered == \A c \in Callers : phase[c] = "outside" => answer[c] = "none"
OpenAbandonsNone == closing = "open" => abandoned = {}

PlaceInv ==
  /\ QueuesHold /\ WorkersHold /\ DestructorHolds /\ AllHeld
  /\ OutsideUnanswered /\ OpenAbandonsNone

LEMMA PlaceMeans == TypeInv /\ PlaceInv => RequestInOnePlace
<1>. SUFFICES ASSUME TypeInv, PlaceInv PROVE RequestInOnePlace
  OBVIOUS
<1>. USE DEF PlaceInv, In, Elems
<1>1. \A c : c \in Queued <=> (c \in Callers /\ \E p \in Priorities : c \in In(p))
  BY DEF Queued
<1>2. \A p \in Priorities : In(p) \subseteq Callers
  BY ElementOfSeq, LenProperties DEF TypeInv, TypeOK
<1>3. QueuedOnce
  BY DEF QueuedOnce, QueuesHold, Distinct
<1>. HIDE DEF In, Elems
<1>4. HeldOnce
  BY <1>1 DEF HeldOnce, WorkersHold, Holding, Busy, TypeInv, HoldersServe
<1>5. AbandonedOnce
  BY <1>1 DEF AbandonedOnce, DestructorHolds
<1>6. NoneLost
  BY <1>1, <1>2 DEF NoneLost, AllHeld
<1>. QED
  BY <1>3, <1>4, <1>5, <1>6 DEF RequestInOnePlace

LEMMA PlaceInit == Init => PlaceInv
<1>. SUFFICES ASSUME Init PROVE PlaceInv
  OBVIOUS
<1>1. \A p \in Priorities : queues[p] = <<>>
  BY DEF Init
<1>2. \A p \in Priorities : In(p) = {} /\ Distinct(queues[p])
  BY <1>1 DEF In, Elems, Distinct
<1>3. \A c \in Callers : ~Unanswered(c)
  BY DEF Init, Unanswered
<1>4. \A w \in Workers : ~Holding(w)
  BY DEF Init, Holding
<1>. QED
  BY <1>2, <1>3, <1>4 DEF Init, PlaceInv, QueuesHold, WorkersHold, DestructorHolds, AllHeld,
                         OutsideUnanswered, OpenAbandonsNone

(* A step that moves no unresolved request.                                   *)
LEMMA PlaceKept ==
  ASSUME PlaceInv, TypeInv, UNCHANGED <<queues, abandoned>>,
         closing' = "open" => closing = "open", OutsideUnanswered',
         \A c \in Callers : /\ Unanswered(c)' <=> Unanswered(c)
                            /\ Unanswered(c) => priority'[c] = priority[c],
         \A w \in Workers : /\ Holding(w)' <=> Holding(w)
                            /\ Holding(w) => serving'[w] = serving[w]
                            /\ pc'[w] = "analyzing" => pc[w] = "analyzing" /\ level'[w] = level[w]
  PROVE  PlaceInv'
<1>1. \A p : In(p)' = In(p)
  BY DEF In
<1>2. \A p \in Priorities : In(p) \subseteq Callers
  BY ElementOfSeq, LenProperties DEF TypeInv, TypeOK, In, Elems
<1>3. abandoned \subseteq Callers /\ \A w \in Workers : Holding(w) => serving[w] \in Callers
  BY DEF TypeInv, TypeOK, HoldersServe
<1>. USE DEF PlaceInv
<1>4. QueuesHold'
  BY <1>1, <1>2 DEF QueuesHold
<1>5. WorkersHold'
  BY <1>1, <1>3 DEF WorkersHold
<1>6. DestructorHolds'
  BY <1>1, <1>3 DEF DestructorHolds
<1>7. AllHeld'
  BY <1>1 DEF AllHeld
<1>. QED
  BY <1>4, <1>5, <1>6, <1>7 DEF OpenAbandonsNone

(* The resolution of the promise of the request that worker w holds.          *)
LEMMA PlaceResolved ==
  ASSUME PlaceInv, TypeInv, NEW w \in Workers, Holding(w),
         NEW a \in {"value", "error"}, answer' = [answer EXCEPT ![serving[w]] = a],
         UNCHANGED <<queues, abandoned, closing, phase, priority, level>>,
         ~Holding(w)',
         \A v \in Workers \ {w} : pc'[v] = pc[v] /\ serving'[v] = serving[v]
  PROVE  PlaceInv'
<1>. USE DEF PlaceInv
<1>0. PICK c \in Callers : c = serving[w]
  BY DEF TypeInv, HoldersServe
<1>1. Unanswered(c) /\ \A p \in Priorities : c \notin In(p)
  BY <1>0 DEF WorkersHold
<1>2. /\ c \notin abandoned
      /\ \A v \in Workers : Holding(v) /\ serving[v] = c => v = w
  BY <1>0 DEF DestructorHolds, WorkersHold
<1>3. \A p : In(p)' = In(p)
  BY DEF In
<1>4. \A p \in Priorities : In(p) \subseteq Callers
  BY ElementOfSeq, LenProperties DEF TypeInv, TypeOK, In, Elems
<1>5. abandoned \subseteq Callers /\ \A v \in Workers : Holding(v) => serving[v] \in Callers
  BY DEF TypeInv, TypeOK, HoldersServe
<1>6. /\ \A d \in Callers \ {c} : Unanswered(d)' <=> Unanswered(d)
      /\ ~Unanswered(c)'
  BY <1>0, <1>1 DEF Unanswered, TypeInv, TypeOK
<1>7. \A v \in Workers : Holding(v)' => Holding(v) /\ v # w /\ serving'[v] = serving[v]
  BY DEF Holding
<1>8. \A v \in Workers \ {w} : Holding(v)' <=> Holding(v)
  BY DEF Holding
<1>9. QueuesHold'
  BY <1>1, <1>3, <1>4, <1>6 DEF QueuesHold
<1>10. WorkersHold'
  <2>. SUFFICES ASSUME NEW v \in Workers, Holding(v)'
                PROVE  /\ Unanswered(serving[v])'
                       /\ pc'[v] = "analyzing" => priority'[serving'[v]] = level'[v]
                       /\ \A p \in Priorities : serving'[v] \notin In(p)'
                       /\ \A u \in Workers : Holding(u)' /\ serving'[u] = serving'[v] => u = v
    BY DEF WorkersHold
  <2>1. Holding(v) /\ v # w /\ serving'[v] = serving[v] /\ serving[v] # c
    BY <1>2, <1>7
  <2>2. Unanswered(serving[v])'
    BY <1>5, <1>6, <2>1 DEF WorkersHold, Unanswered
  <2>. QED
    BY <1>3, <1>7, <2>1, <2>2 DEF WorkersHold
<1>11. DestructorHolds'
  BY <1>2, <1>3, <1>5, <1>6, <1>7 DEF DestructorHolds
<1>12. AllHeld'
  <2>. SUFFICES ASSUME NEW d \in Callers, Unanswered(d)'
                PROVE  \/ \E p \in Priorities : d \in In(p)'
                       \/ d \in abandoned'
                       \/ \E v \in Workers : Holding(v)' /\ serving'[v] = d
    BY DEF AllHeld
  <2>1. d # c /\ Unanswered(d)
    BY <1>6
  <2>2. ASSUME NEW v \in Workers, Holding(v), serving[v] = d
        PROVE  Holding(v)' /\ serving'[v] = d
    BY <1>0, <1>8, <2>1, <2>2
  <2>. QED
    BY <1>3, <2>1, <2>2 DEF AllHeld
<1>13. OutsideUnanswered' /\ OpenAbandonsNone'
  BY <1>0, <1>1 DEF OutsideUnanswered, OpenAbandonsNone, Unanswered, TypeInv, TypeOK
<1>. QED
  BY <1>9, <1>10, <1>11, <1>12, <1>13

(* The admission of a request.                                                *)
LEMMA PlaceSubmitted ==
  ASSUME PlaceInv, TypeInv, NEW c \in Callers, NEW p \in Priorities, Submit(c, p)
  PROVE  PlaceInv'
<1>. USE DEF PlaceInv, workerVars, closeVars
<1>1. ~Unanswered(c) /\ Unanswered(c)' /\ priority'[c] = p
  BY DEF Submit, Unanswered, OutsideUnanswered, TypeInv, TypeOK
<1>2. /\ \A q \in Priorities : c \notin In(q)
      /\ c \notin abandoned
      /\ \A w \in Workers : Holding(w) => serving[w] # c
  BY <1>1 DEF QueuesHold, DestructorHolds, WorkersHold
<1>3. \A d \in Callers \ {c} : /\ Unanswered(d)' <=> Unanswered(d)
                               /\ priority'[d] = priority[d]
  BY DEF Submit, Unanswered, TypeInv, TypeOK
<1>4. queues[p] \in Seq(Callers) /\ queues'[p] = Append(queues[p], c)
  BY DEF Submit, TypeInv, TypeOK
<1>5. /\ In(p)' = In(p) \cup {c} /\ Distinct(queues'[p])
      /\ \A q \in Priorities \ {p} : In(q)' = In(q) /\ queues'[q] = queues[q]
  <2>1. \A q \in Priorities \ {p} : queues'[q] = queues[q]
    BY DEF Submit, TypeInv, TypeOK
  <2>. QED
    BY <1>2, <1>4, <2>1, ElemsAppend DEF In, QueuesHold
<1>6. \A q \in Priorities : In(q) \subseteq Callers
  BY ElementOfSeq, LenProperties DEF TypeInv, TypeOK, In, Elems
<1>7. UNCHANGED <<pc, serving, level, closing, abandoned>>
  BY DEF Submit
<1>8. \A w \in Workers : Holding(w)' <=> Holding(w)
  BY <1>7 DEF Holding
<1>9. abandoned \subseteq Callers /\ \A v \in Workers : Holding(v) => serving[v] \in Callers
  BY DEF TypeInv, TypeOK, HoldersServe
<1>10. QueuesHold'
  BY <1>1, <1>2, <1>3, <1>5, <1>6 DEF QueuesHold
<1>11. WorkersHold'
  <2>. SUFFICES ASSUME NEW v \in Workers, Holding(v)'
                PROVE  /\ Unanswered(serving[v])'
                       /\ pc'[v] = "analyzing" => priority'[serving'[v]] = level'[v]
                       /\ \A q \in Priorities : serving'[v] \notin In(q)'
                       /\ \A u \in Workers : Holding(u)' /\ serving'[u] = serving'[v] => u = v
    BY DEF WorkersHold
  <2>1. Holding(v) /\ serving[v] \in Callers \ {c} /\ serving' = serving
    BY <1>2, <1>7, <1>8, <1>9
  <2>2. Unanswered(serving[v])'
    BY <1>3, <2>1 DEF WorkersHold, Unanswered
  <2>3. \A q \in Priorities : serving[v] \notin In(q)'
    BY <1>5, <2>1 DEF WorkersHold
  <2>. QED
    BY <1>3, <1>7, <1>8, <2>1, <2>2, <2>3 DEF WorkersHold
<1>12. DestructorHolds'
  BY <1>2, <1>3, <1>5, <1>7, <1>8, <1>9 DEF DestructorHolds
<1>13. AllHeld'
  <2>. SUFFICES ASSUME NEW d \in Callers, Unanswered(d)'
                PROVE  \/ \E q \in Priorities : d \in In(q)'
                       \/ d \in abandoned'
                       \/ \E v \in Workers : Holding(v)' /\ serving'[v] = d
    BY DEF AllHeld
  <2>1. CASE d = c
    BY <1>5, <2>1
  <2>2. CASE d # c
    <3>1. Unanswered(d)
      BY <1>3, <2>2
    <3>2. \A q \in Priorities : In(q) \subseteq In(q)'
      BY <1>5
    <3>. QED
      BY <1>7, <1>8, <3>1, <3>2 DEF AllHeld
  <2>. QED
    BY <2>1, <2>2
<1>14. OutsideUnanswered' /\ OpenAbandonsNone'
  BY DEF Submit, OutsideUnanswered, OpenAbandonsNone, TypeInv, TypeOK
<1>. QED
  BY <1>10, <1>11, <1>12, <1>13, <1>14

(* A worker takes the oldest request of a queue.                              *)
LEMMA PlaceTaken ==
  ASSUME PlaceInv, TypeInv, NEW w \in Workers, TakeWork(w)
  PROVE  PlaceInv'
<1>. USE DEF PlaceInv, closeVars, requestVars
<1>1. PICK p \in Priorities : /\ queues[p] # <<>>
                              /\ queues' = [queues EXCEPT ![p] = Tail(@)]
                              /\ serving' = [serving EXCEPT ![w] = Head(queues[p])]
                              /\ level' = [level EXCEPT ![w] = p]
  BY DEF TakeWork, Takeable
<1>. DEFINE c == Head(queues[p])
<1>2. /\ queues[p] \in Seq(Callers) /\ queues'[p] = Tail(queues[p]) /\ Distinct(queues[p])
      /\ \A q \in Priorities \ {p} : queues'[q] = queues[q]
  BY <1>1 DEF QueuesHold, TypeInv, TypeOK
<1>3. /\ c \in In(p) /\ In(p)' = In(p) \ {c} /\ Distinct(queues'[p])
      /\ \A q \in Priorities \ {p} : In(q)' = In(q)
  BY <1>1, <1>2, ElemsPop DEF In
<1>4. serving'[w] = c /\ level'[w] = p /\ pc'[w] = "analyzing" /\ ~Holding(w)
  BY <1>1 DEF TakeWork, Holding, TypeInv, TypeOK
<1>. HIDE DEF c
<1>5. \A q \in Priorities : In(q) \subseteq Callers
  BY ElementOfSeq, LenProperties DEF TypeInv, TypeOK, In, Elems
<1>6. /\ c \in Callers /\ Unanswered(c) /\ priority[c] = p /\ c \notin abandoned
      /\ \A q \in Priorities \ {p} : c \notin In(q)
      /\ \A v \in Workers : Holding(v) => serving[v] # c
  BY <1>3, <1>5 DEF QueuesHold, DestructorHolds, WorkersHold
<1>7. \A q \in Priorities : c \notin In(q)' /\ In(q)' \subseteq In(q)
  BY <1>3, <1>6
<1>8. UNCHANGED <<phase, priority, answer, closing, abandoned>>
  BY DEF TakeWork
<1>9. \A d : Unanswered(d)' <=> Unanswered(d)
  BY <1>8 DEF Unanswered
<1>10. \A v \in Workers \ {w} : /\ Holding(v)' <=> Holding(v)
                                /\ pc'[v] = pc[v] /\ serving'[v] = serving[v]
                                /\ level'[v] = level[v]
  BY <1>1 DEF TakeWork, Holding, TypeInv, TypeOK
<1>11. QueuesHold'
  BY <1>2, <1>3, <1>7, <1>8, <1>9 DEF QueuesHold
<1>12. WorkersHold'
  <2>. SUFFICES ASSUME NEW v \in Workers, Holding(v)'
                PROVE  /\ Unanswered(serving'[v])
                       /\ pc'[v] = "analyzing" => priority[serving'[v]] = level'[v]
                       /\ \A q \in Priorities : serving'[v] \notin In(q)'
                       /\ \A u \in Workers : Holding(u)' /\ serving'[u] = serving'[v] => u = v
    BY <1>8 DEF WorkersHold, Unanswered
  <2>1. CASE v = w
    BY <1>4, <1>6, <1>7, <1>10, <2>1
  <2>2. CASE v # w
    BY <1>4, <1>6, <1>7, <1>10, <2>2 DEF WorkersHold
  <2>. QED
    BY <2>1, <2>2
<1>13. DestructorHolds'
  BY <1>4, <1>6, <1>7, <1>8, <1>9, <1>10 DEF DestructorHolds
<1>14. AllHeld'
  <2>. SUFFICES ASSUME NEW d \in Callers, Unanswered(d)
                PROVE  \/ \E q \in Priorities : d \in In(q)'
                       \/ d \in abandoned
                       \/ \E v \in Workers : Holding(v)' /\ serving'[v] = d
    BY <1>8, <1>9 DEF AllHeld
  <2>1. CASE d = c
    BY <1>4, <2>1 DEF Holding
  <2>2. CASE d # c
    <3>1. \A q \in Priorities : d \in In(q) => d \in In(q)'
      BY <1>3, <2>2
    <3>2. \A v \in Workers : Holding(v) => v # w
      BY <1>4
    <3>. QED
      BY <1>10, <3>1, <3>2 DEF AllHeld
  <2>. QED
    BY <2>1, <2>2
<1>15. OutsideUnanswered' /\ OpenAbandonsNone'
  BY <1>8 DEF OutsideUnanswered, OpenAbandonsNone
<1>. QED
  BY <1>11, <1>12, <1>13, <1>14, <1>15

(* A worker puts its request back at the front of the queue it came from.     *)
LEMMA PlaceRetried ==
  ASSUME PlaceInv, TypeInv, NEW w \in Workers, Retry(w)
  PROVE  PlaceInv'
<1>. USE DEF PlaceInv, closeVars
<1>0. PICK c \in Callers : c = serving[w]
  BY DEF Retry, Holding, TypeInv, HoldersServe
<1>1. PICK p \in Priorities : p = level[w]
  BY DEF TypeInv, TypeOK
<1>2. /\ pc[w] = "analyzing" /\ Holding(w) /\ ~Holding(w)'
      /\ queues' = [queues EXCEPT ![p] = <<c>> \o @]
      /\ \A v \in Workers \ {w} : /\ pc'[v] = pc[v] /\ serving'[v] = serving[v]
                                  /\ level'[v] = level[v]
                                  /\ Holding(v)' <=> Holding(v)
  BY <1>0, <1>1 DEF Retry, FreeSlot, Holding, TypeInv, TypeOK
<1>3. /\ Unanswered(c) /\ priority[c] = p /\ c \notin abandoned
      /\ \A q \in Priorities : c \notin In(q)
      /\ \A v \in Workers : Holding(v) /\ serving[v] = c => v = w
  BY <1>0, <1>1, <1>2 DEF WorkersHold, DestructorHolds
<1>4. /\ queues[p] \in Seq(Callers) /\ queues'[p] = <<c>> \o queues[p] /\ Distinct(queues[p])
      /\ \A q \in Priorities \ {p} : queues'[q] = queues[q]
  BY <1>2 DEF QueuesHold, TypeInv, TypeOK
<1>5. /\ In(p)' = In(p) \cup {c} /\ Distinct(queues'[p])
      /\ \A q \in Priorities \ {p} : In(q)' = In(q)
  BY <1>3, <1>4, ElemsPush DEF In
<1>6. UNCHANGED <<phase, priority, answer, closing, abandoned>>
  BY DEF Retry
<1>7. \A d : Unanswered(d)' <=> Unanswered(d)
  BY <1>6 DEF Unanswered
<1>8. \A v \in Workers : Holding(v)' => Holding(v) /\ v # w /\ serving'[v] = serving[v]
  BY <1>2
<1>9. QueuesHold'
  <2>1. \A q \in Priorities : Distinct(queues'[q])
    BY <1>4, <1>5 DEF QueuesHold
  <2>2. ASSUME NEW q \in Priorities, NEW d \in In(q)' PROVE Unanswered(d) /\ priority[d] = q
    <3>1. d \in In(q) \/ (q = p /\ d = c)
      BY <1>5, <2>2
    <3>. QED
      BY <1>3, <3>1 DEF QueuesHold
  <2>. QED
    BY <1>6, <1>7, <2>1, <2>2 DEF QueuesHold
<1>10. WorkersHold'
  <2>. SUFFICES ASSUME NEW v \in Workers, Holding(v)'
                PROVE  /\ Unanswered(serving'[v])
                       /\ pc'[v] = "analyzing" => priority[serving'[v]] = level'[v]
                       /\ \A q \in Priorities : serving'[v] \notin In(q)'
                       /\ \A u \in Workers : Holding(u)' /\ serving'[u] = serving'[v] => u = v
    BY <1>6 DEF WorkersHold, Unanswered
  <2>1. Holding(v) /\ v # w /\ serving'[v] = serving[v] /\ serving[v] # c
    BY <1>3, <1>8
  <2>. QED
    BY <1>2, <1>5, <1>8, <2>1 DEF WorkersHold
<1>11. DestructorHolds'
  BY <1>3, <1>5, <1>6, <1>7, <1>8 DEF DestructorHolds
<1>12. AllHeld'
  <2>. SUFFICES ASSUME NEW d \in Callers, Unanswered(d)
                PROVE  \/ \E q \in Priorities : d \in In(q)'
                       \/ d \in abandoned
                       \/ \E v \in Workers : Holding(v)' /\ serving'[v] = d
    BY <1>6, <1>7 DEF AllHeld
  <2>1. CASE d = c
    BY <1>5, <2>1
  <2>2. CASE d # c
    <3>1. \A q \in Priorities : In(q) \subseteq In(q)'
      BY <1>5
    <3>2. ASSUME NEW v \in Workers, Holding(v), serving[v] = d
          PROVE  Holding(v)' /\ serving'[v] = d
      BY <1>0, <1>2, <2>2, <3>2
    <3>. QED
      BY <3>1, <3>2 DEF AllHeld
  <2>. QED
    BY <2>1, <2>2
<1>13. OutsideUnanswered' /\ OpenAbandonsNone'
  BY <1>6 DEF OutsideUnanswered, OpenAbandonsNone
<1>. QED
  BY <1>9, <1>10, <1>11, <1>12, <1>13

(* The destructor takes over what the queues hold.                            *)
LEMMA PlaceStopped ==
  ASSUME PlaceInv, TypeInv, Stop
  PROVE  PlaceInv'
<1>. USE DEF PlaceInv, workerVars, requestVars
<1>1. /\ abandoned = {} /\ closing' # "open"
      /\ abandoned' = Queued
      /\ UNCHANGED <<pc, serving, level, phase, priority, answer>>
  BY DEF Stop, TakenOver, OpenAbandonsNone
<1>2. \A c : c \in Queued <=> (c \in Callers /\ \E p \in Priorities : c \in In(p))
  BY DEF Queued, In, Elems
<1>3. \A p \in Priorities : queues'[p] = <<>>
  BY DEF Stop
<1>4. \A p \in Priorities : In(p)' = {} /\ Distinct(queues'[p])
  BY <1>3 DEF In, Elems, Distinct
<1>5. /\ \A c : Unanswered(c)' <=> Unanswered(c)
      /\ \A w \in Workers : Holding(w)' <=> Holding(w)
  BY <1>1 DEF Unanswered, Holding
<1>6. QueuesHold'
  BY <1>4 DEF QueuesHold
<1>7. WorkersHold'
  <2>1. \A w \in Workers : Unanswered(serving[w])' <=> Unanswered(serving[w])
    BY <1>1 DEF Unanswered
  <2>. QED
    BY <1>1, <1>4, <1>5, <2>1 DEF WorkersHold
<1>8. DestructorHolds'
  <2>. SUFFICES ASSUME NEW c \in Queued
                PROVE  Unanswered(c) /\ \A w \in Workers : Holding(w) => serving[w] # c
    BY <1>1, <1>4, <1>5 DEF DestructorHolds
  <2>. QED
    BY <1>2 DEF QueuesHold, WorkersHold
<1>9. AllHeld'
  BY <1>1, <1>2, <1>5 DEF AllHeld
<1>. QED
  BY <1>1, <1>6, <1>7, <1>8, <1>9 DEF OutsideUnanswered, OpenAbandonsNone

(* The destructor fails one of the requests it took over.                     *)
LEMMA PlaceAbandoned ==
  ASSUME PlaceInv, TypeInv, NEW c \in Callers, Abandon(c)
  PROVE  PlaceInv'
<1>. USE DEF PlaceInv, poolVars, workerVars
<1>1. /\ c \in abandoned /\ abandoned' = abandoned \ {c}
      /\ UNCHANGED <<queues, pc, serving, level, phase, priority, closing>>
  BY DEF Abandon
<1>2. /\ Unanswered(c)
      /\ \A p \in Priorities : c \notin In(p)
      /\ \A w \in Workers : Holding(w) => serving[w] # c
  BY <1>1 DEF DestructorHolds
<1>3. /\ \A d \in Callers \ {c} : Unanswered(d)' <=> Unanswered(d)
      /\ ~Unanswered(c)'
  BY DEF Abandon, Unanswered, TypeInv, TypeOK
<1>4. /\ \A p : In(p)' = In(p)
      /\ \A w \in Workers : Holding(w)' <=> Holding(w)
  BY <1>1 DEF In, Holding
<1>5. \A p \in Priorities : In(p) \subseteq Callers
  BY ElementOfSeq, LenProperties DEF TypeInv, TypeOK, In, Elems
<1>6. abandoned \subseteq Callers /\ \A v \in Workers : Holding(v) => serving[v] \in Callers
  BY DEF TypeInv, TypeOK, HoldersServe
<1>7. QueuesHold'
  BY <1>1, <1>2, <1>3, <1>4, <1>5 DEF QueuesHold
<1>8. WorkersHold'
  <2>1. \A w \in Workers : Holding(w) => Unanswered(serving[w])'
    BY <1>1, <1>2, <1>3, <1>6 DEF WorkersHold, Unanswered
  <2>. QED
    BY <1>1, <1>4, <2>1 DEF WorkersHold
<1>9. DestructorHolds'
  BY <1>1, <1>3, <1>4, <1>6 DEF DestructorHolds
<1>10. AllHeld'
  BY <1>1, <1>3, <1>4 DEF AllHeld
<1>11. OutsideUnanswered'
  BY <1>1, <1>2 DEF Abandon, Unanswered, OutsideUnanswered, TypeInv, TypeOK
<1>. QED
  BY <1>1, <1>7, <1>8, <1>9, <1>10, <1>11 DEF OpenAbandonsNone

LEMMA PlaceStep == TypeInv /\ PlaceInv /\ [Next]_vars => PlaceInv'
<1>. SUFFICES ASSUME TypeInv, PlaceInv, [Next]_vars PROVE PlaceInv'
  OBVIOUS
<1>. USE DEF poolVars, workerVars, requestVars, closeVars
<1>0. pc \in [Workers -> Places] /\ OutsideUnanswered
  BY DEF TypeInv, TypeOK, PlaceInv
<1>1. ASSUME NEW w \in Workers, Answer(w) PROVE PlaceInv'
  BY <1>0, <1>1, PlaceResolved DEF Answer, Holding, TypeInv, TypeOK
<1>2. ASSUME NEW w \in Workers, AnswerError(w) PROVE PlaceInv'
  BY <1>0, <1>2, PlaceResolved DEF AnswerError, Holding, TypeInv, TypeOK
<1>3. ASSUME NEW c \in Callers, Return(c) PROVE PlaceInv'
  <2>1. OutsideUnanswered'
    BY <1>0, <1>3 DEF Return, OutsideUnanswered, TypeInv, TypeOK
  <2>2. \A d \in Callers : /\ Unanswered(d)' <=> Unanswered(d)
                           /\ Unanswered(d) => priority'[d] = priority[d]
    BY <1>3 DEF Return, Ready, Unanswered, TypeInv, TypeOK
  <2>3. /\ closing' = closing
        /\ UNCHANGED <<queues, abandoned, pc, serving, level>>
    BY <1>3 DEF Return
  <2>. QED
    BY <2>1, <2>2, <2>3, PlaceKept DEF Holding
<1>4. ASSUME NEW c \in Callers, Signal(c) PROVE PlaceInv'
  <2>1. Woken(pc, pc')
    BY <1>0, <1>4, NotifyOneWakes DEF Signal
  <2>2. OutsideUnanswered' /\ \A d \in Callers : Unanswered(d)' <=> Unanswered(d)
    BY <1>0, <1>4 DEF Signal, OutsideUnanswered, Unanswered, TypeInv, TypeOK
  <2>3. UNCHANGED <<queues, abandoned, closing, priority, serving, level>>
    BY <1>4 DEF Signal
  <2>. QED
    BY <2>1, <2>2, <2>3, PlaceKept DEF Holding, Woken
<1>5. ASSUME UNCHANGED <<queues, abandoned, phase, priority, answer, serving>>,
             closing' = "open" => closing = "open",
             \A w \in Workers : /\ Holding(w)' <=> Holding(w)
                                /\ pc'[w] = "analyzing" => pc[w] = "analyzing" /\ level'[w] = level[w]
      PROVE  PlaceInv'
  BY <1>0, <1>5, PlaceKept DEF Unanswered, OutsideUnanswered
<1>6. ASSUME NEW w \in Workers, Sleep(w) \/ Exit(w) \/ GiveUp(w) PROVE PlaceInv'
  BY <1>0, <1>5, <1>6 DEF Sleep, Exit, GiveUp, FreeSlot, Holding, Places, TypeInv, TypeOK
<1>7. ASSUME NEW w \in Workers, FinishActive(w) PROVE PlaceInv'
  <2>1. Woken(pc, WakeAll) /\ pc' = [WakeAll EXCEPT ![w] = "idle"] /\ pc[w] = "finishing"
    BY <1>7, WakeAllWakes DEF FinishActive, TypeInv
  <2>2. \A v \in Workers \ {w} : level'[v] = level[v]
    BY <1>7 DEF FinishActive, FreeSlot, TypeInv, TypeOK
  <2>3. UNCHANGED <<queues, abandoned, phase, priority, answer, serving, closing>>
    BY <1>7 DEF FinishActive
  <2>. QED
    BY <1>0, <1>5, <2>1, <2>2, <2>3 DEF Woken, Holding
<1>8. ASSUME NEW w \in Workers, SignalRetry(w) PROVE PlaceInv'
  <2>. DEFINE mine == [pc EXCEPT ![w] = "idle"]
  <2>1. /\ mine \in [Workers -> Places]
        /\ \A v \in Workers : pc[v] = "waiting" => mine[v] = "waiting"
    BY <1>0, <1>8 DEF SignalRetry, Places
  <2>2. Woken(mine, pc') /\ pc[w] = "signalling"
    BY <1>8, <2>1, NotifyOneWakes DEF SignalRetry
  <2>3. UNCHANGED <<queues, abandoned, phase, priority, answer, serving, level, closing>>
    BY <1>8 DEF SignalRetry
  <2>. QED
    BY <1>0, <1>5, <2>2, <2>3 DEF Woken, Holding
<1>9. ASSUME NEW w \in Workers, WakeOthers(w) PROVE PlaceInv'
  BY <1>0, <1>5, <1>9, WakeAllWakes DEF WakeOthers, Woken, Holding, TypeInv
<1>10. ASSUME WakeToExit PROVE PlaceInv'
  BY <1>5, <1>10, WakeAllWakes DEF WakeToExit, Woken, Holding, TypeInv
<1>11. ASSUME (\E c \in Callers : PollStop(c)) \/ Join \/ UNCHANGED vars PROVE PlaceInv'
  BY <1>5, <1>11 DEF PollStop, Join, vars, Holding
<1>. QED
  BY PlaceSubmitted, PlaceTaken, PlaceRetried, PlaceStopped, PlaceAbandoned,
     <1>1, <1>2, <1>3, <1>4, <1>6, <1>7, <1>8, <1>9, <1>10, <1>11
     DEF Next, CallerStep, WorkerStep, CloseStep

LEMMA PlaceInvariant == Spec => []PlaceInv
BY PlaceInit, TypeInvariant, PlaceStep, PTL DEF Spec

(* No request is lost and none is held twice: each one that is not resolved   *)
(* is queued once, at one worker, or in the destructor's hands, so that every *)
(* promise is resolved by one thread and no caller polls for a request that   *)
(* nobody has.                                                                *)
THEOREM OnePlace == Spec => []RequestInOnePlace
BY TypeInvariant, PlaceInvariant, PlaceMeans, PTL

-----------------------------------------------------------------------------
(* Counting: a queue holds no more requests than it is long, workers no more  *)
(* than they are, and a union no more than its parts.                         *)
LEMMA ElemsBound ==
  ASSUME NEW S, NEW q \in Seq(S)
  PROVE  /\ IsFiniteSet(Elems(q)) /\ Cardinality(Elems(q)) \in Nat
         /\ Cardinality(Elems(q)) <= Len(q)
<1>1. Len(q) \in Nat /\ q \in [1..Len(q) -> S] /\ DOMAIN q = 1..Len(q)
  BY LenProperties
<1>2. q \in Surjection(1..Len(q), Elems(q))
  BY <1>1 DEF Elems, Surjection
<1>3. IsFiniteSet(1..Len(q)) /\ Cardinality(1..Len(q)) = Len(q)
  BY <1>1, FS_Interval
<1>4. IsFiniteSet(Elems(q)) /\ Cardinality(Elems(q)) <= Cardinality(1..Len(q))
  BY <1>2, <1>3, FS_Surjection
<1>. QED
  BY <1>3, <1>4, FS_CardinalityType

ServedBy(H) == {serving[w] : w \in H}

LEMMA ServedBound ==
  ASSUME NEW H, IsFiniteSet(H)
  PROVE  /\ IsFiniteSet(ServedBy(H)) /\ Cardinality(ServedBy(H)) \in Nat
         /\ Cardinality(H) \in Nat
         /\ Cardinality(ServedBy(H)) <= Cardinality(H)
<1>. DEFINE f == [w \in H |-> serving[w]]
<1>1. f \in Surjection(H, ServedBy(H))
  BY DEF Surjection, ServedBy
<1>. HIDE DEF f
<1>2. IsFiniteSet(ServedBy(H)) /\ Cardinality(ServedBy(H)) <= Cardinality(H)
  BY <1>1, FS_Surjection
<1>. QED
  BY <1>2, FS_CardinalityType

LEMMA UnionBound ==
  ASSUME NEW A, NEW B, IsFiniteSet(A), IsFiniteSet(B)
  PROVE  /\ IsFiniteSet(A \cup B)
         /\ Cardinality(A \cup B) \in Nat
         /\ Cardinality(A) \in Nat /\ Cardinality(B) \in Nat
         /\ Cardinality(A \cup B) <= Cardinality(A) + Cardinality(B)
<1>1. /\ IsFiniteSet(A \cup B) /\ IsFiniteSet(A \cap B)
      /\ Cardinality(A \cup B) = Cardinality(A) + Cardinality(B) - Cardinality(A \cap B)
  BY FS_Union, FS_Intersection
<1>2. /\ Cardinality(A) \in Nat /\ Cardinality(B) \in Nat /\ Cardinality(A \cup B) \in Nat
      /\ Cardinality(A \cap B) \in Nat
  BY <1>1, FS_CardinalityType
<1>. QED
  BY <1>1, <1>2

-----------------------------------------------------------------------------
(* While the pool is open, the unresolved calls are queued, at a worker that  *)
(* holds a slot, or at one that is about to report a failure.                 *)
AtWork == {w \in Workers : pc[w] = "analyzing"}
Failing == {w \in Workers : pc[w] = "failing"}

LEMMA AtWorkBound ==
  ASSUME TypeInv, SlotsAccounted
  PROVE  /\ IsFiniteSet(AtWork) /\ Cardinality(AtWork) \in Nat
         /\ Cardinality(AtWork) <= active
<1>. DEFINE b0 == BusyAt(0)   b1 == BusyAt(1)   b2 == BusyAt(2)
<1>1. /\ IsFiniteSet(b0) /\ IsFiniteSet(b1) /\ IsFiniteSet(b2)
      /\ Cardinality(b0) \in Nat /\ Cardinality(b1) \in Nat /\ Cardinality(b2) \in Nat
  BY BusyFinite
<1>2. active = Cardinality(b0) + Cardinality(b1) + Cardinality(b2)
  BY DEF SlotsAccounted, Priorities
<1>3. AtWork \subseteq (b0 \cup b1) \cup b2
  BY DEF AtWork, BusyAt, Busy, TypeInv, TypeOK, Priorities
<1>. HIDE DEF b0, b1, b2
<1>4. /\ IsFiniteSet(b0 \cup b1) /\ Cardinality(b0 \cup b1) \in Nat
      /\ Cardinality(b0 \cup b1) <= Cardinality(b0) + Cardinality(b1)
  BY <1>1, UnionBound
<1>5. /\ IsFiniteSet((b0 \cup b1) \cup b2) /\ Cardinality((b0 \cup b1) \cup b2) \in Nat
      /\ Cardinality((b0 \cup b1) \cup b2) <= Cardinality(b0 \cup b1) + Cardinality(b2)
  BY <1>1, <1>4, UnionBound
<1>6. IsFiniteSet(AtWork) /\ Cardinality(AtWork) <= Cardinality((b0 \cup b1) \cup b2)
  BY <1>3, <1>5, FS_Subset
<1>7. Cardinality(AtWork) \in Nat
  BY <1>6, FS_CardinalityType
<1>. QED
  BY <1>1, <1>2, <1>4, <1>5, <1>6, <1>7

LEMMA UnresolvedBound ==
  ASSUME TypeInv, SlotsAccounted, PlaceInv, abandoned = {}
  PROVE  /\ Cardinality(Service!Unresolved) \in Nat
         /\ Cardinality(Service!Unresolved) <= Pending + Cardinality(Workers)
<1>. DEFINE q0 == Elems(queues[0])   l0 == Len(queues[0])
            q1 == Elems(queues[1])   l1 == Len(queues[1])
            q2 == Elems(queues[2])   l2 == Len(queues[2])
            s == ServedBy(AtWork)    t == ServedBy(Failing)
<1>1. Service!Unresolved \subseteq ((q0 \cup q1) \cup q2) \cup (s \cup t)
  <2>. SUFFICES ASSUME NEW c \in Callers, Unanswered(c)
                PROVE  c \in q0 \cup q1 \cup q2 \cup s \cup t
    BY DEF Service!Unresolved, Unanswered
  <2>1. CASE \E p \in Priorities : c \in In(p)
    BY <2>1 DEF In, Priorities
  <2>2. CASE \E w \in Workers : Holding(w) /\ serving[w] = c
    BY <2>2 DEF Holding, AtWork, Failing, ServedBy
  <2>. QED
    BY <2>1, <2>2 DEF PlaceInv, AllHeld
<1>2. /\ queues[0] \in Seq(Callers) /\ queues[1] \in Seq(Callers) /\ queues[2] \in Seq(Callers)
      /\ l0 \in Nat /\ l1 \in Nat /\ l2 \in Nat
  BY LenProperties DEF TypeInv, TypeOK, Priorities
<1>3. /\ IsFiniteSet(q0) /\ Cardinality(q0) \in Nat /\ Cardinality(q0) <= l0
      /\ IsFiniteSet(q1) /\ Cardinality(q1) \in Nat /\ Cardinality(q1) <= l1
      /\ IsFiniteSet(q2) /\ Cardinality(q2) \in Nat /\ Cardinality(q2) <= l2
  BY <1>2, ElemsBound
<1>4. /\ IsFiniteSet(s) /\ Cardinality(s) \in Nat
      /\ Cardinality(AtWork) \in Nat
      /\ Cardinality(s) <= Cardinality(AtWork) /\ Cardinality(AtWork) <= active
  BY AtWorkBound, ServedBound
<1>5. /\ IsFiniteSet(t) /\ Cardinality(t) \in Nat
      /\ Cardinality(Failing) \in Nat /\ Cardinality(Workers) \in Nat
      /\ Cardinality(t) <= Cardinality(Failing)
      /\ Cardinality(Failing) <= Cardinality(Workers)
  <2>1. IsFiniteSet(Failing) /\ Cardinality(Failing) <= Cardinality(Workers)
    BY PoolBounds, FS_Subset DEF Failing
  <2>. QED
    BY <2>1, LimitType, ServedBound
<1>6. Pending = active + l0 + l1 + l2 /\ active \in Int
  BY DEF Pending, TypeInv, TypeOK
<1>. DEFINE all == ((q0 \cup q1) \cup q2) \cup (s \cup t)
<1>. HIDE DEF q0, q1, q2, l0, l1, l2, s, t
<1>7. /\ IsFiniteSet(q0 \cup q1) /\ Cardinality(q0 \cup q1) \in Nat
      /\ Cardinality(q0 \cup q1) <= Cardinality(q0) + Cardinality(q1)
      /\ IsFiniteSet(s \cup t) /\ Cardinality(s \cup t) \in Nat
      /\ Cardinality(s \cup t) <= Cardinality(s) + Cardinality(t)
  BY <1>3, <1>4, <1>5, UnionBound
<1>8. /\ IsFiniteSet((q0 \cup q1) \cup q2) /\ Cardinality((q0 \cup q1) \cup q2) \in Nat
      /\ Cardinality((q0 \cup q1) \cup q2) <= Cardinality(q0 \cup q1) + Cardinality(q2)
  BY <1>3, <1>7, UnionBound
<1>9. /\ IsFiniteSet(all) /\ Cardinality(all) \in Nat
      /\ Cardinality(all) <= Cardinality((q0 \cup q1) \cup q2) + Cardinality(s \cup t)
  BY <1>7, <1>8, UnionBound
<1>10. /\ Cardinality(Service!Unresolved) \in Nat
       /\ Cardinality(Service!Unresolved) <= Cardinality(all)
  BY <1>1, <1>9, FS_Subset, FS_CardinalityType
<1>. HIDE DEF all
<1>11. Cardinality((q0 \cup q1) \cup q2) <= l0 + l1 + l2
  BY <1>2, <1>3, <1>7, <1>8
<1>12. Cardinality(s \cup t) <= active + Cardinality(Workers)
  BY <1>4, <1>5, <1>6, <1>7
<1>. QED
  BY <1>2, <1>5, <1>6, <1>7, <1>8, <1>9, <1>10, <1>11, <1>12

-----------------------------------------------------------------------------
(* What the destructor has taken over, it has taken over after it stopped the *)
(* pool.                                                                      *)
OpenUntilStopped == closing # "open" => stopping

LEMMA OpenInvariant == Spec => []OpenUntilStopped
<1>1. Init => OpenUntilStopped
  BY DEF Init, OpenUntilStopped
<1>2. OpenUntilStopped /\ [Next]_vars => OpenUntilStopped'
  <2>. SUFFICES ASSUME OpenUntilStopped, [Next]_vars PROVE OpenUntilStopped'
    OBVIOUS
  <2>. USE DEF OpenUntilStopped, poolVars, workerVars, requestVars, closeVars
  <2>1. ASSUME NEW c \in Callers,
               (\E p \in Priorities : Submit(c, p)) \/ PollStop(c) \/ CallerStep(c) \/ Abandon(c)
        PROVE  OpenUntilStopped'
    BY <2>1 DEF Submit, PollStop, CallerStep, Signal, Return, Abandon
  <2>2. ASSUME NEW w \in Workers, WorkerStep(w) PROVE OpenUntilStopped'
    BY <2>2 DEF WorkerStep, TakeWork, Sleep, Exit, Answer, FinishActive, Retry, SignalRetry,
                GiveUp, AnswerError, WakeOthers
  <2>3. ASSUME Stop \/ WakeToExit \/ Join \/ UNCHANGED vars PROVE OpenUntilStopped'
    BY <2>3 DEF Stop, WakeToExit, Join, vars
  <2>. QED
    BY <2>1, <2>2, <2>3 DEF Next, CloseStep
<1>. QED
  BY <1>1, <1>2, PTL DEF Spec

(* The callers inside the abstract service, and how a change of one caller's  *)
(* phase changes them.                                                        *)
Inside == {c \in Callers : phase[c] # "outside"}

LEMMA SameCardinality == \A S : Service!Cardinality(S) = Cardinality(S)
BY DEF Service!Cardinality, Cardinality

LEMMA ServiceStep ==
  ASSUME TypeInv, SlotsAccounted, PlaceInv, OpenUntilStopped, [Next]_vars
  PROVE  [Service!Next]_(Service!serviceVars)
<1>. USE DEF poolVars, workerVars, requestVars, closeVars
<1>1. ASSUME NEW c \in Callers, NEW p \in Priorities, Submit(c, p)
      PROVE  Service!Accept(c)
  <2>1. Inside' = Inside \cup {c} /\ c \notin Inside /\ answer' = answer
    BY <1>1 DEF Submit, Inside, TypeInv, TypeOK
  <2>2. abandoned = {}
    BY <1>1 DEF Submit, OpenUntilStopped, PlaceInv, OpenAbandonsNone
  <2>3. Cardinality(Service!Unresolved) < MaxPending + Cardinality(Workers)
    <3>1. Pending < MaxPending /\ Pending \in Int /\ MaxPending \in Int
      <4>. DEFINE l0 == Len(queues[0])   l1 == Len(queues[1])   l2 == Len(queues[2])
      <4>1. l0 \in Nat /\ l1 \in Nat /\ l2 \in Nat /\ active \in Int
        BY LenProperties DEF TypeInv, TypeOK, Priorities
      <4>2. Pending = active + l0 + l1 + l2
        BY DEF Pending
      <4>. HIDE DEF l0, l1, l2
      <4>. QED
        BY <1>1, <4>1, <4>2, PoolBounds DEF Submit, Room
    <3>. QED
      BY <2>2, <3>1, LimitType, UnresolvedBound
  <2>. QED
    BY <2>1, <2>3, SameCardinality DEF Service!Accept, Inside
<1>2. ASSUME NEW c \in Callers, Return(c) PROVE Service!Return(c)
  <2>1. Inside' = Inside \ {c} /\ c \in Inside /\ answer[c] # "none"
    BY <1>2 DEF Return, Ready, Inside, TypeInv, TypeOK
  <2>. QED
    BY <1>2, <2>1 DEF Return, Service!Return, Service!Unresolved, Inside
<1>3. ASSUME NEW w \in Workers, Answer(w) \/ AnswerError(w)
      PROVE  \E c \in Callers : Service!Resolve(c)
  <2>1. PICK c \in Callers : c = serving[w] /\ Unanswered(c)
    BY <1>3 DEF Answer, AnswerError, Holding, TypeInv, HoldersServe, PlaceInv, WorkersHold
  <2>2. \E r \in {"value", "error"} : answer' = [answer EXCEPT ![c] = r]
    BY <1>3, <2>1 DEF Answer, AnswerError
  <2>3. phase' = phase
    BY <1>3 DEF Answer, AnswerError
  <2>4. Service!Resolve(c)
    BY <2>1, <2>2, <2>3 DEF Service!Resolve, Service!Unresolved, Unanswered
  <2>. QED
    BY <2>4
<1>4. ASSUME NEW c \in Callers, Abandon(c) PROVE Service!Resolve(c)
  BY <1>4 DEF Abandon, Service!Resolve, Service!Unresolved, Unanswered, PlaceInv, DestructorHolds
<1>5. ASSUME Inside' = Inside, answer' = answer PROVE UNCHANGED Service!serviceVars
  BY <1>5 DEF Service!serviceVars, Inside
<1>6. ASSUME NEW c \in Callers, Signal(c) \/ PollStop(c) PROVE UNCHANGED Service!serviceVars
  <2>1. Inside' = Inside /\ answer' = answer
    BY <1>6 DEF Signal, PollStop, Inside, TypeInv, TypeOK
  <2>. QED
    BY <1>5, <2>1
<1>7. ASSUME UNCHANGED <<phase, answer>> PROVE UNCHANGED Service!serviceVars
  BY <1>7 DEF Service!serviceVars
<1>8. ASSUME NEW w \in Workers, WorkerStep(w), ~Answer(w), ~AnswerError(w)
      PROVE  UNCHANGED <<phase, answer>>
  BY <1>8 DEF WorkerStep, TakeWork, Sleep, Exit, FinishActive, Retry, SignalRetry, GiveUp,
              WakeOthers
<1>9. ASSUME Stop \/ WakeToExit \/ Join \/ UNCHANGED vars PROVE UNCHANGED <<phase, answer>>
  BY <1>9 DEF Stop, WakeToExit, Join, vars
<1>. QED
  BY <1>1, <1>2, <1>3, <1>4, <1>6, <1>7, <1>8, <1>9
     DEF Next, CallerStep, CloseStep, Service!Next

(* Whatever stands behind analyze(), a caller sees AnalysisService: a call    *)
(* that was let in is resolved once and returns afterwards, and at most       *)
(* max_pending calls and one for each worker are unresolved at a time.        *)
THEOREM PoolImplementsService == Spec => ImplementsService
<1>1. Init => Service!Init
  BY DEF Init, Service!Init
<1>. QED
  BY <1>1, TypeInvariant, SlotsExact, PlaceInvariant, OpenInvariant, ServiceStep, PTL
     DEF Spec, ImplementsService, Service!Spec
=============================================================================
