-------------------------- MODULE JobManagerProofs --------------------------
(* What holds of JobManager for every number of games, clients, workers, jobs *)
(* and retries, every set of faults, and across crashes and restarts.         *)
EXTENDS JobManager, SubsequenceTheorems, FiniteSetTheorems, SequenceTheorems, TLAPS

-----------------------------------------------------------------------------
(* Queues of tasks.                                                           *)

JobTask ==
  [job : JobIds, deep : BOOLEAN, priority : Priorities, attempts : 0..RetryLimit,
   token : Tokens]

Elems(s) == {s[i] : i \in DOMAIN s}
JobsIn(s) == {t.job : t \in Elems(s)}
NoTwice(s) == \A i, k \in DOMAIN s : s[i].job = s[k].job => i = k

(* The tasks of a queue have its priority, and no job has two of them.        *)
Lined(Q) ==
  /\ Q \in [Priorities -> Seq(JobTask)]
  /\ \A q \in Priorities : NoTwice(Q[q]) /\ \A t \in Elems(Q[q]) : t.priority = q
  /\ \A q, r \in Priorities : q # r => JobsIn(Q[q]) \cap JobsIn(Q[r]) = {}

JobsWaiting(Q) == UNION {JobsIn(Q[q]) : q \in Priorities}
Backlog(Q) == Len(Q[0]) + Len(Q[1]) + Len(Q[2])

(* The operations on one sequence of tasks.                                   *)
LEMMA PickedTasks ==
  ASSUME NEW s \in Seq(JobTask), NEW I \in SUBSET DOMAIN s
  PROVE  /\ Picked(s, I) \in Seq(JobTask)
         /\ Elems(Picked(s, I)) = {s[i] : i \in I}
         /\ NoTwice(s) => NoTwice(Picked(s, I))
<1>. DEFINE N == 1..Cardinality(I)
<1>1. /\ Picked(s, I) \in Seq(JobTask)
      /\ DOMAIN Picked(s, I) = N
  BY PickedPlaces
<1>2. /\ \A n \in N : Place(I, n) \in I /\ Picked(s, I)[n] = s[Place(I, n)]
      /\ \A n, m \in N : Place(I, n) = Place(I, m) => n = m
      /\ \A i \in I : \E n \in N : Place(I, n) = i
  BY PickedPlaces
<1>. HIDE DEF N
<1>. DEFINE P == Picked(s, I)
<1>. HIDE DEF P
<1>3. /\ P \in Seq(JobTask) /\ DOMAIN P = N
      /\ \A n \in N : P[n] = s[Place(I, n)]
  BY <1>1, <1>2 DEF P
<1>4. Elems(P) = {s[i] : i \in I}
  <2>1. ASSUME NEW i \in I PROVE s[i] \in Elems(P)
    BY <1>2, <1>3 DEF Elems
  <2>2. ASSUME NEW x \in Elems(P) PROVE \E i \in I : x = s[i]
    BY <1>2, <1>3 DEF Elems
  <2>. QED  BY <2>1, <2>2
<1>5. NoTwice(s) => NoTwice(P)
  <2>. SUFFICES ASSUME NoTwice(s), NEW n \in N, NEW m \in N, P[n].job = P[m].job
                PROVE  n = m
    BY <1>3 DEF NoTwice
  <2>1. Place(I, n) = Place(I, m)
    BY <1>2, <1>3 DEF NoTwice
  <2>. QED  BY <2>1, <1>2
<1>. QED  BY <1>3, <1>4, <1>5 DEF P

LEMMA JoinedTasks ==
  ASSUME NEW s \in Seq(JobTask), NEW t \in Seq(JobTask)
  PROVE  /\ s \o t \in Seq(JobTask)
         /\ Len(s \o t) = Len(s) + Len(t)
         /\ Elems(s \o t) = Elems(s) \cup Elems(t)
         /\ JobsIn(s \o t) = JobsIn(s) \cup JobsIn(t)
         /\ NoTwice(s) /\ NoTwice(t) /\ JobsIn(s) \cap JobsIn(t) = {} => NoTwice(s \o t)
<1>. DEFINE st == s \o t
<1>1. /\ st \in Seq(JobTask) /\ Len(st) = Len(s) + Len(t)
      /\ \A i \in 1..Len(st) : st[i] = IF i <= Len(s) THEN s[i] ELSE t[i - Len(s)]
  BY ConcatProperties
<1>2. /\ DOMAIN s = 1..Len(s) /\ DOMAIN t = 1..Len(t) /\ DOMAIN st = 1..Len(st)
      /\ Len(s) \in Nat /\ Len(t) \in Nat
  BY <1>1
<1>. HIDE DEF st
<1>3. \A i \in DOMAIN s : i \in DOMAIN st /\ st[i] = s[i]
  BY <1>1, <1>2
<1>4. \A i \in DOMAIN t : i + Len(s) \in DOMAIN st /\ st[i + Len(s)] = t[i]
  BY <1>1, <1>2
<1>5. \A i \in DOMAIN st : \/ i \in DOMAIN s /\ st[i] = s[i]
                           \/ i - Len(s) \in DOMAIN t /\ st[i] = t[i - Len(s)]
  BY <1>1, <1>2
<1>6. Elems(st) = Elems(s) \cup Elems(t)
  <2>1. ASSUME NEW x \in Elems(st) PROVE x \in Elems(s) \cup Elems(t)
    BY <1>5 DEF Elems
  <2>2. ASSUME NEW x \in Elems(s) PROVE x \in Elems(st)
    BY <1>3 DEF Elems
  <2>3. ASSUME NEW x \in Elems(t) PROVE x \in Elems(st)
    BY <1>4 DEF Elems
  <2>. QED  BY <2>1, <2>2, <2>3
<1>7. JobsIn(st) = JobsIn(s) \cup JobsIn(t)
  BY <1>6 DEF JobsIn
<1>8. ASSUME NoTwice(s), NoTwice(t), JobsIn(s) \cap JobsIn(t) = {}
      PROVE  NoTwice(st)
  <2>. SUFFICES ASSUME NEW i \in DOMAIN st, NEW k \in DOMAIN st, st[i].job = st[k].job
                PROVE  i = k
    BY DEF NoTwice
  <2>1. \A a \in DOMAIN s, b \in DOMAIN t : s[a].job # t[b].job
    BY <1>8 DEF JobsIn, Elems
  <2>2. CASE i \in DOMAIN s /\ st[i] = s[i] /\ k \in DOMAIN s /\ st[k] = s[k]
    BY <2>2, <1>8 DEF NoTwice
  <2>3. CASE /\ i - Len(s) \in DOMAIN t /\ st[i] = t[i - Len(s)]
             /\ k - Len(s) \in DOMAIN t /\ st[k] = t[k - Len(s)]
    <3>1. i - Len(s) = k - Len(s)
      BY <2>3, <1>8 DEF NoTwice
    <3>. QED  BY <3>1, <1>2
  <2>. QED  BY <1>5, <2>1, <2>2, <2>3
<1>. QED  BY <1>1, <1>6, <1>7, <1>8 DEF st

LEMMA NoTasks ==
  /\ <<>> \in Seq(JobTask) /\ Len(<<>>) = 0
  /\ Elems(<<>>) = {} /\ JobsIn(<<>>) = {} /\ NoTwice(<<>>)
BY DEF Elems, JobsIn, NoTwice

LEMMA SomeTask ==
  ASSUME NEW s \in Seq(JobTask), s # <<>>
  PROVE  JobsIn(s) # {}
<1>1. 1 \in DOMAIN s
  OBVIOUS
<1>. QED  BY <1>1 DEF JobsIn, Elems

LEMMA OneTask ==
  ASSUME NEW t \in JobTask
  PROVE  /\ <<t>> \in Seq(JobTask) /\ Len(<<t>>) = 1
         /\ Elems(<<t>>) = {t} /\ JobsIn(<<t>>) = {t.job} /\ NoTwice(<<t>>)
<1>1. <<t>> \in Seq(JobTask) /\ Len(<<t>>) = 1 /\ DOMAIN <<t>> = {1} /\ <<t>>[1] = t
  OBVIOUS
<1>2. Elems(<<t>>) = {t}
  BY <1>1 DEF Elems
<1>. QED  BY <1>1, <1>2 DEF JobsIn, NoTwice

-----------------------------------------------------------------------------
(* The operations on the queues.                                              *)

LEMMA WaitingMeans ==
  ASSUME NEW Q
  PROVE  \A j : j \in JobsWaiting(Q) <=> \E q \in Priorities : j \in JobsIn(Q[q])
BY DEF JobsWaiting

LEMMA WaitingAreJobs ==
  ASSUME NEW Q, Lined(Q)
  PROVE  JobsWaiting(Q) \subseteq JobIds
<1>. SUFFICES ASSUME NEW q \in Priorities, NEW j \in JobsIn(Q[q]) PROVE j \in JobIds
  BY WaitingMeans
<1>. DEFINE s == Q[q]
<1>1. s \in Seq(JobTask) /\ j \in JobsIn(s)
  BY DEF Lined
<1>. HIDE DEF s
<1>2. PICK i \in DOMAIN s : j = s[i].job
  BY <1>1 DEF JobsIn, Elems
<1>3. s[i] \in JobTask
  BY <1>1
<1>. QED  BY <1>2, <1>3 DEF JobTask

LEMMA BacklogChanged ==
  ASSUME NEW Q, NEW R, NEW p \in Priorities, NEW d \in Int,
         \A q \in Priorities : Len(Q[q]) \in Int,
         \A q \in Priorities : q # p => Len(R[q]) = Len(Q[q]),
         Len(R[p]) = Len(Q[p]) + d
  PROVE  Backlog(R) = Backlog(Q) + d
<1>. DEFINE a == Len(Q[0])  b == Len(Q[1])  c == Len(Q[2])
            e == Len(R[0])  f == Len(R[1])  g == Len(R[2])
<1>1. /\ 0 \in Priorities /\ 1 \in Priorities /\ 2 \in Priorities
      /\ p = 0 \/ p = 1 \/ p = 2
  BY DEF Priorities
<1>2. a \in Int /\ b \in Int /\ c \in Int
  BY <1>1
<1>3. \/ e = a + d /\ f = b /\ g = c
      \/ e = a /\ f = b + d /\ g = c
      \/ e = a /\ f = b /\ g = c + d
  BY <1>1
<1>4. Backlog(R) = e + f + g /\ Backlog(Q) = a + b + c
  BY DEF Backlog
<1>. HIDE DEF a, b, c, e, f, g
<1>5. e + f + g = a + b + c + d
  BY <1>2, <1>3
<1>. QED  BY <1>4, <1>5

(* A queue that grows by tasks of its priority whose jobs wait nowhere.       *)
LEMMA LinedExtended ==
  ASSUME NEW Q, Lined(Q), NEW p \in Priorities, NEW s \in Seq(JobTask),
         NoTwice(s), JobsIn(s) \cap JobsWaiting(Q) = {}, \A t \in Elems(s) : t.priority = p
  PROVE  LET R == [Q EXCEPT ![p] = @ \o s]
         IN  /\ Lined(R)
             /\ JobsWaiting(R) = JobsWaiting(Q) \cup JobsIn(s)
             /\ Backlog(R) = Backlog(Q) + Len(s)
<1>. DEFINE R == [Q EXCEPT ![p] = @ \o s]
<1>1. /\ R \in [Priorities -> Seq(JobTask)]
      /\ R[p] = Q[p] \o s
      /\ \A q \in Priorities : q # p => R[q] = Q[q]
  BY JoinedTasks DEF Lined
<1>2. Q[p] \in Seq(JobTask) /\ NoTwice(Q[p]) /\ JobsIn(Q[p]) \cap JobsIn(s) = {}
  BY DEF Lined, JobsWaiting
<1>3. /\ Len(R[p]) = Len(Q[p]) + Len(s)
      /\ Elems(R[p]) = Elems(Q[p]) \cup Elems(s)
      /\ JobsIn(R[p]) = JobsIn(Q[p]) \cup JobsIn(s)
      /\ NoTwice(R[p])
  BY <1>1, <1>2, JoinedTasks
<1>. HIDE DEF R
<1>4. \A q \in Priorities : NoTwice(R[q]) /\ \A t \in Elems(R[q]) : t.priority = q
  BY <1>1, <1>3 DEF Lined
<1>5. \A q, r \in Priorities : q # r => JobsIn(R[q]) \cap JobsIn(R[r]) = {}
  <2>1. \A q \in Priorities : JobsIn(Q[q]) \cap JobsIn(s) = {}
    BY DEF JobsWaiting
  <2>2. \A q, r \in Priorities : q # r => JobsIn(Q[q]) \cap JobsIn(Q[r]) = {}
    BY DEF Lined
  <2>. QED  BY <1>1, <1>3, <2>1, <2>2
<1>6. JobsWaiting(R) = JobsWaiting(Q) \cup JobsIn(s)
  BY <1>1, <1>3 DEF JobsWaiting
<1>7. Backlog(R) = Backlog(Q) + Len(s)
  <2>. DEFINE d == Len(s)
  <2>1. d \in Int /\ \A q \in Priorities : Len(Q[q]) \in Int
    BY DEF Lined
  <2>2. Len(R[p]) = Len(Q[p]) + d /\ \A q \in Priorities : q # p => Len(R[q]) = Len(Q[q])
    BY <1>1, <1>3
  <2>. HIDE DEF d
  <2>3. Backlog(R) = Backlog(Q) + d
    BY <2>1, <2>2, BacklogChanged
  <2>. QED  BY <2>3 DEF d
<1>. QED  BY <1>1, <1>4, <1>5, <1>6, <1>7 DEF R, Lined

(* A task put back at the end of the queue of its priority.                   *)
LEMMA LinedAppended ==
  ASSUME NEW Q, Lined(Q), NEW t \in JobTask, t.job \notin JobsWaiting(Q)
  PROVE  LET R == [Q EXCEPT ![t.priority] = Append(@, t)]
         IN  /\ Lined(R)
             /\ JobsWaiting(R) = JobsWaiting(Q) \cup {t.job}
             /\ Backlog(R) = Backlog(Q) + 1
<1>1. t.priority \in Priorities
  BY DEF JobTask
<1>2. Q[t.priority] \in Seq(JobTask)
  BY <1>1 DEF Lined
<1>3. Append(Q[t.priority], t) = Q[t.priority] \o <<t>>
  BY <1>2, AppendIsConcat
<1>4. [Q EXCEPT ![t.priority] = Append(@, t)] = [Q EXCEPT ![t.priority] = @ \o <<t>>]
  BY <1>3, Zenon
<1>5. /\ <<t>> \in Seq(JobTask) /\ Len(<<t>>) = 1 /\ NoTwice(<<t>>)
      /\ JobsIn(<<t>>) = {t.job} /\ \A u \in Elems(<<t>>) : u.priority = t.priority
  BY OneTask
<1>. DEFINE s == <<t>>
<1>. HIDE DEF s
<1>6. LET R == [Q EXCEPT ![t.priority] = @ \o s]
      IN  /\ Lined(R)
          /\ JobsWaiting(R) = JobsWaiting(Q) \cup JobsIn(s)
          /\ Backlog(R) = Backlog(Q) + Len(s)
  <2>1. JobsIn(s) \cap JobsWaiting(Q) = {}
    BY <1>5 DEF s
  <2>2. s \in Seq(JobTask) /\ NoTwice(s) /\ \A u \in Elems(s) : u.priority = t.priority
    BY <1>5 DEF s
  <2>. QED  BY <1>1, <2>1, <2>2, LinedExtended
<1>. QED  BY <1>4, <1>5, <1>6 DEF s

(* The oldest task of a queue is taken.                                       *)
LEMMA LinedPopped ==
  ASSUME NEW Q, Lined(Q), NEW p \in Priorities, Q[p] # <<>>
  PROVE  LET R == [Q EXCEPT ![p] = Tail(@)]
             t == Head(Q[p])
         IN  /\ t \in JobTask /\ t.priority = p /\ t.job \in JobsWaiting(Q)
             /\ Lined(R)
             /\ JobsWaiting(R) = JobsWaiting(Q) \ {t.job}
             /\ Backlog(R) = Backlog(Q) - 1
<1>. DEFINE R == [Q EXCEPT ![p] = Tail(@)]
            t == Head(Q[p])
            old == Q[p]
            new == Tail(old)
<1>1. old \in Seq(JobTask) /\ NoTwice(old) /\ old # <<>> /\ \A x \in Elems(old) : x.priority = p
  BY DEF Lined
<1>2. /\ new \in Seq(JobTask) /\ Len(new) = Len(old) - 1 /\ Len(old) \in Nat \ {0}
      /\ DOMAIN old = 1..Len(old) /\ DOMAIN new = 1..Len(new)
      /\ t = old[1] /\ \A i \in 1..Len(new) : new[i] = old[i + 1]
  BY <1>1, HeadTailProperties
<1>3. /\ R \in [Priorities -> Seq(JobTask)] /\ R[p] = new
      /\ \A q \in Priorities : q # p => R[q] = Q[q]
  BY <1>2 DEF Lined
<1>. HIDE DEF new, t, R
<1>4. 1 \in DOMAIN old /\ \A i \in DOMAIN new : i + 1 \in DOMAIN old /\ i + 1 # 1
  BY <1>2
<1>5. t \in JobTask /\ t \in Elems(old)
  BY <1>1, <1>2, <1>4 DEF Elems
<1>6. Elems(new) \subseteq Elems(old)
  BY <1>2, <1>4 DEF Elems
<1>7. NoTwice(new)
  <2>. SUFFICES ASSUME NEW i \in DOMAIN new, NEW k \in DOMAIN new, new[i].job = new[k].job
                PROVE  i = k
    BY DEF NoTwice
  <2>1. i + 1 = k + 1
    BY <1>1, <1>2, <1>4 DEF NoTwice
  <2>. QED  BY <2>1, <1>2
<1>8. JobsIn(new) = JobsIn(old) \ {t.job}
  <2>1. ASSUME NEW i \in DOMAIN new PROVE new[i].job # t.job
    BY <1>1, <1>2, <1>4 DEF NoTwice
  <2>2. \A x \in Elems(new) : x.job # t.job
    BY <2>1 DEF Elems
  <2>3. ASSUME NEW i \in DOMAIN old, old[i].job # t.job PROVE old[i] \in Elems(new)
    <3>1. i # 1
      BY <2>3, <1>2
    <3>2. PICK j : j = i - 1
      OBVIOUS
    <3>3. j \in 1..(Len(old) - 1) /\ j + 1 = i
      BY <1>2, <3>1, <3>2
    <3>4. j \in DOMAIN new /\ new[j] = old[j + 1]
      BY <1>2, <3>3
    <3>. QED  BY <3>3, <3>4 DEF Elems
  <2>4. \A x \in Elems(old) : x.job # t.job => x \in Elems(new)
    BY <2>3 DEF Elems
  <2>. QED  BY <1>6, <2>2, <2>4 DEF JobsIn
<1>9. Lined(R)
  <2>1. \A q \in Priorities : NoTwice(R[q]) /\ \A x \in Elems(R[q]) : x.priority = q
    BY <1>1, <1>3, <1>6, <1>7 DEF Lined
  <2>2. \A q \in Priorities : JobsIn(R[q]) \subseteq JobsIn(Q[q])
    BY <1>3, <1>8
  <2>. QED  BY <1>3, <2>1, <2>2 DEF Lined
<1>10. JobsWaiting(R) = JobsWaiting(Q) \ {t.job}
  <2>1. t.job \in JobsIn(Q[p])
    BY <1>5 DEF JobsIn
  <2>2. \A q \in Priorities : q # p => t.job \notin JobsIn(Q[q])
    BY <2>1 DEF Lined
  <2>3. \A q \in Priorities : JobsIn(R[q]) = JobsIn(Q[q]) \ {t.job}
    BY <1>3, <1>8, <2>2
  <2>4. \A x : x \in JobsWaiting(R) <=> x # t.job /\ x \in JobsWaiting(Q)
    <3>1. /\ \A x : x \in JobsWaiting(Q) <=> \E q \in Priorities : x \in JobsIn(Q[q])
          /\ \A x : x \in JobsWaiting(R) <=> \E q \in Priorities : x \in JobsIn(R[q])
      BY WaitingMeans, Zenon
    <3>2. \A q \in Priorities : \A x : x \in JobsIn(R[q]) <=> x # t.job /\ x \in JobsIn(Q[q])
      BY <2>3
    <3>. QED  BY ONLY <3>1, <3>2, Zenon
  <2>. QED  BY ONLY <2>4
<1>11. Backlog(R) = Backlog(Q) - 1
  <2>1. \A q \in Priorities : Len(Q[q]) \in Int
    BY DEF Lined
  <2>2. Len(R[p]) = Len(Q[p]) + (-1)
    BY <1>2, <1>3
  <2>3. Backlog(R) = Backlog(Q) + (-1)
    BY <1>3, <2>1, <2>2, -1 \in Int, BacklogChanged
  <2>4. Backlog(Q) \in Int
    BY <2>1 DEF Backlog, Priorities
  <2>. QED  BY <2>3, <2>4
<1>12. t.job \in JobsWaiting(Q) /\ t.priority = p
  BY <1>1, <1>5 DEF JobsIn, JobsWaiting
<1>. QED  BY <1>5, <1>9, <1>10, <1>11, <1>12 DEF t, R, new

(* A queue is parted in the tasks that move and those that stay.              *)
LEMMA QueueParted ==
  ASSUME Lined(queues), NEW J, NEW p \in Priorities, NEW q \in Priorities
  PROVE  LET S == Staying(J, p, q)
             P == Promoted(J, p, q)
         IN  /\ S \in Seq(JobTask) /\ P \in Seq(JobTask)
             /\ NoTwice(S) /\ NoTwice(P)
             /\ \A t \in Elems(S) : t.priority = q
             /\ \A t \in Elems(P) : t.priority = p
             /\ JobsIn(S) \cap JobsIn(P) = {}
             /\ JobsIn(S) \cup JobsIn(P) = JobsIn(queues[q])
             /\ Len(S) + Len(P) = Len(queues[q])
             /\ J = {} \/ p = Historical => Len(P) = 0
<1>. DEFINE s == queues[q]
            L == {i \in DOMAIN s : Late(J, p, s[i])}
            K == {i \in DOMAIN s : ~Late(J, p, s[i])}
            m == Picked(s, L)
            S == Picked(s, K)
            P == [i \in DOMAIN m |-> [m[i] EXCEPT !.priority = p]]
<1>1. Staying(J, p, q) = S /\ Promoted(J, p, q) = P
  BY DEF Staying, Promoted
<1>2. s \in Seq(JobTask) /\ NoTwice(s) /\ \A t \in Elems(s) : t.priority = q
  BY DEF Lined
<1>3. L \in SUBSET DOMAIN s /\ K \in SUBSET DOMAIN s /\ K = DOMAIN s \ L
  OBVIOUS
<1>4. J = {} \/ p = Historical => L = {}
  <2>. HIDE DEF s
  <2>1. \A i \in DOMAIN s : s[i] \in JobTask
    BY <1>2
  <2>2. \A i \in DOMAIN s : s[i].priority \in Priorities
    BY <2>1 DEF JobTask
  <2>. QED  BY <2>2 DEF Late, Historical, Priorities
<1>. HIDE DEF s, L, K
<1>5. /\ m \in Seq(JobTask) /\ Elems(m) = {s[i] : i \in L} /\ NoTwice(m)
      /\ S \in Seq(JobTask) /\ Elems(S) = {s[i] : i \in K} /\ NoTwice(S)
  BY <1>2, <1>3, PickedTasks
<1>6. Len(m) + Len(S) = Len(s) /\ Len(m) = Cardinality(L)
  BY <1>2, <1>3, PickedSplit, PickedPlaces
<1>7. Len(m) \in Nat /\ DOMAIN m = 1..Len(m) /\ \A i \in DOMAIN m : m[i] \in JobTask
  BY <1>5
<1>. HIDE DEF m, S
<1>8. \A i \in DOMAIN m : P[i] \in JobTask /\ P[i].priority = p /\ P[i].job = m[i].job
  BY <1>7 DEF JobTask
<1>9. P \in Seq(JobTask) /\ Len(P) = Len(m) /\ DOMAIN P = DOMAIN m
  BY <1>7, <1>8
<1>. HIDE DEF P
<1>10. NoTwice(P)
  BY <1>5, <1>8, <1>9 DEF NoTwice
<1>11. \A t \in Elems(P) : t.priority = p
  BY <1>8, <1>9 DEF Elems
<1>12. JobsIn(P) = {s[i].job : i \in L}
  <2>1. JobsIn(P) = {m[i].job : i \in DOMAIN m}
    BY <1>8, <1>9 DEF JobsIn, Elems
  <2>2. {m[i].job : i \in DOMAIN m} = {t.job : t \in Elems(m)}
    BY DEF Elems
  <2>. QED  BY <1>5, <2>1, <2>2
<1>13. JobsIn(S) = {s[i].job : i \in K}
  BY <1>5 DEF JobsIn
<1>14. JobsIn(s) = {s[i].job : i \in DOMAIN s}
  BY DEF JobsIn, Elems
<1>15. JobsIn(S) \cup JobsIn(P) = JobsIn(s)
  BY <1>3, <1>12, <1>13, <1>14
<1>16. JobsIn(S) \cap JobsIn(P) = {}
  BY <1>2, <1>3, <1>12, <1>13 DEF NoTwice
<1>17. \A t \in Elems(S) : t.priority = q
  BY <1>2, <1>3, <1>5 DEF Elems
<1>18. J = {} \/ p = Historical => Len(P) = 0
  BY <1>4, <1>6, <1>9, FS_EmptySet
<1>19. Len(S) + Len(P) = Len(s)
  <2>. DEFINE a == Len(S)  b == Len(m)  c == Len(s)
  <2>1. a \in Int /\ b \in Int /\ b + a = c
    BY <1>5, <1>6, <1>7
  <2>. HIDE DEF a, b, c
  <2>2. a + b = c
    BY <2>1
  <2>. QED  BY <1>9, <2>2 DEF a, b, c
<1>. QED  BY <1>1, <1>5, <1>9, <1>10, <1>11, <1>15, <1>16, <1>17, <1>18, <1>19 DEF s

LEMMA MovedUpLined ==
  ASSUME Lined(queues), NEW J, NEW p \in Priorities
  PROVE  LET M == MovedUp(J, p)
         IN  /\ Lined(M)
             /\ JobsWaiting(M) = JobsWaiting(queues)
             /\ Backlog(M) = Backlog(queues)
             /\ J = {} \/ p = Historical =>
                  \A q \in Priorities : M[q] # <<>> => queues[q] # <<>>
<1>. DEFINE M == MovedUp(J, p)
            S(q) == Staying(J, p, q)
            P(q) == Promoted(J, p, q)
            up == P(0) \o P(1) \o P(2)
<1>1. \A q \in Priorities :
        /\ S(q) \in Seq(JobTask) /\ P(q) \in Seq(JobTask)
        /\ NoTwice(S(q)) /\ NoTwice(P(q))
        /\ \A t \in Elems(S(q)) : t.priority = q
        /\ \A t \in Elems(P(q)) : t.priority = p
        /\ JobsIn(S(q)) \cap JobsIn(P(q)) = {}
        /\ JobsIn(S(q)) \cup JobsIn(P(q)) = JobsIn(queues[q])
        /\ Len(S(q)) + Len(P(q)) = Len(queues[q])
        /\ J = {} \/ p = Historical => Len(P(q)) = 0
  BY QueueParted
<1>2. /\ M = [q \in Priorities |-> M[q]]
      /\ M[p] = S(p) \o up
      /\ \A q \in Priorities : q # p => M[q] = S(q) \o <<>>
  BY DEF MovedUp
<1>3. \A q \in Priorities : q # p => M[q] = S(q)
  BY <1>1, <1>2, ConcatEmptySeq
<1>. HIDE DEF M, S, P
<1>4. 0 \in Priorities /\ 1 \in Priorities /\ 2 \in Priorities
  BY DEF Priorities
<1>5. \A q, r \in Priorities : q # r => JobsIn(queues[q]) \cap JobsIn(queues[r]) = {}
  BY DEF Lined
<1>6. \A q, r \in Priorities : q # r =>
        /\ JobsIn(S(q)) \cap JobsIn(S(r)) = {}
        /\ JobsIn(P(q)) \cap JobsIn(P(r)) = {}
  BY <1>1, <1>5
<1>7. \A q, r \in Priorities : JobsIn(S(q)) \cap JobsIn(P(r)) = {}
  BY <1>1, <1>5
<1>8. /\ P(0) \o P(1) \in Seq(JobTask)
      /\ Len(P(0) \o P(1)) = Len(P(0)) + Len(P(1))
      /\ Elems(P(0) \o P(1)) = Elems(P(0)) \cup Elems(P(1))
      /\ JobsIn(P(0) \o P(1)) = JobsIn(P(0)) \cup JobsIn(P(1))
      /\ NoTwice(P(0) \o P(1))
  <2>1. JobsIn(P(0)) \cap JobsIn(P(1)) = {}
    BY <1>4, <1>6
  <2>. QED  BY <1>1, <1>4, <2>1, JoinedTasks
<1>9. /\ up \in Seq(JobTask)
      /\ Len(up) = Len(P(0)) + Len(P(1)) + Len(P(2))
      /\ Elems(up) = Elems(P(0)) \cup Elems(P(1)) \cup Elems(P(2))
      /\ JobsIn(up) = JobsIn(P(0)) \cup JobsIn(P(1)) \cup JobsIn(P(2))
      /\ NoTwice(up)
  <2>1. JobsIn(P(0) \o P(1)) \cap JobsIn(P(2)) = {}
    BY <1>4, <1>6, <1>8
  <2>. DEFINE lower == P(0) \o P(1)
  <2>. HIDE DEF lower
  <2>2. /\ lower \o P(2) \in Seq(JobTask)
        /\ Len(lower \o P(2)) = Len(lower) + Len(P(2))
        /\ Elems(lower \o P(2)) = Elems(lower) \cup Elems(P(2))
        /\ JobsIn(lower \o P(2)) = JobsIn(lower) \cup JobsIn(P(2))
        /\ NoTwice(lower \o P(2))
    BY <1>1, <1>4, <1>8, <2>1, JoinedTasks DEF lower
  <2>3. up = lower \o P(2)
    BY DEF lower
  <2>. QED  BY <1>8, <2>2, <2>3 DEF lower
<1>. HIDE DEF up
<1>10. \A t \in Elems(up) : t.priority = p
  BY <1>1, <1>4, <1>9
<1>11. \A q \in Priorities : JobsIn(P(q)) \subseteq JobsIn(up)
  <2>1. \A q \in Priorities : q = 0 \/ q = 1 \/ q = 2
    BY DEF Priorities
  <2>. QED  BY <1>9, <2>1
<1>12. \A q \in Priorities : JobsIn(S(q)) \cap JobsIn(up) = {}
  BY <1>4, <1>7, <1>9
<1>13. /\ M[p] \in Seq(JobTask) /\ NoTwice(M[p])
       /\ Len(M[p]) = Len(S(p)) + Len(up)
       /\ Elems(M[p]) = Elems(S(p)) \cup Elems(up)
       /\ JobsIn(M[p]) = JobsIn(S(p)) \cup JobsIn(up)
  <2>1. /\ S(p) \in Seq(JobTask) /\ up \in Seq(JobTask) /\ NoTwice(S(p)) /\ NoTwice(up)
        /\ JobsIn(S(p)) \cap JobsIn(up) = {}
    BY <1>1, <1>9, <1>12
  <2>2. /\ S(p) \o up \in Seq(JobTask) /\ NoTwice(S(p) \o up)
        /\ Len(S(p) \o up) = Len(S(p)) + Len(up)
        /\ Elems(S(p) \o up) = Elems(S(p)) \cup Elems(up)
        /\ JobsIn(S(p) \o up) = JobsIn(S(p)) \cup JobsIn(up)
    BY <2>1, JoinedTasks
  <2>. QED  BY <1>2, <2>2
<1>14. \A q \in Priorities :
         M[q] \in Seq(JobTask) /\ NoTwice(M[q]) /\ \A t \in Elems(M[q]) : t.priority = q
  BY <1>1, <1>3, <1>10, <1>13
<1>15. \A q, r \in Priorities : q # r => JobsIn(M[q]) \cap JobsIn(M[r]) = {}
  BY <1>3, <1>6, <1>12, <1>13
<1>16. Lined(M)
  <2>1. M \in [Priorities -> Seq(JobTask)]
    BY <1>2, <1>14
  <2>. QED  BY <1>14, <1>15, <2>1 DEF Lined
<1>17. JobsWaiting(M) = JobsWaiting(queues)
  <2>1. ASSUME NEW j, NEW q \in Priorities, j \in JobsIn(M[q])
        PROVE  \E r \in Priorities : j \in JobsIn(queues[r])
    <3>1. j \in JobsIn(S(q)) \/ j \in JobsIn(up)
      BY <1>3, <1>13, <2>1
    <3>. QED  BY <1>1, <1>4, <1>9, <3>1
  <2>2. ASSUME NEW j, NEW q \in Priorities, j \in JobsIn(queues[q])
        PROVE  \E r \in Priorities : j \in JobsIn(M[r])
    <3>1. CASE j \in JobsIn(S(q))
      BY <1>3, <1>13, <3>1
    <3>2. CASE j \in JobsIn(P(q))
      BY <1>11, <1>13, <3>2
    <3>. QED  BY <1>1, <2>2, <3>1, <3>2
  <2>3. \A j : j \in JobsWaiting(M) <=> j \in JobsWaiting(queues)
    BY <2>1, <2>2, WaitingMeans
  <2>. QED  BY <2>3
<1>18. Backlog(M) = Backlog(queues)
  <2>. DEFINE a(q) == Len(S(q))  b(q) == Len(P(q))  c(q) == Len(queues[q])  d(q) == Len(M[q])
              k == Len(up)
  <2>1. \A q \in Priorities : a(q) \in Int /\ b(q) \in Int /\ c(q) = a(q) + b(q)
    BY <1>1
  <2>2. k = b(0) + b(1) + b(2)
    BY <1>9
  <2>3. d(p) = a(p) + k /\ \A q \in Priorities : q # p => d(q) = a(q)
    BY <1>3, <1>13
  <2>4. Backlog(M) = d(0) + d(1) + d(2) /\ Backlog(queues) = c(0) + c(1) + c(2)
    BY DEF Backlog
  <2>. HIDE DEF a, b, c, d, k
  <2>5. p = 0 \/ p = 1 \/ p = 2
    BY DEF Priorities
  <2>6. d(0) + d(1) + d(2) = c(0) + c(1) + c(2)
    BY <1>4, <2>1, <2>2, <2>3, <2>5
  <2>. QED  BY <2>4, <2>6
<1>19. ASSUME J = {} \/ p = Historical, NEW q \in Priorities, M[q] # <<>>
       PROVE  queues[q] # <<>>
  <2>1. P(0) = <<>> /\ P(1) = <<>> /\ P(2) = <<>>
    BY <1>1, <1>4, <1>19, EmptySeq
  <2>2. JobsIn(up) = {}
    BY <1>9, <2>1, NoTasks
  <2>3. JobsIn(M[q]) \subseteq JobsIn(queues[q])
    BY <1>1, <1>3, <1>13, <2>2
  <2>4. JobsIn(M[q]) # {}
    BY <1>14, <1>19, SomeTask
  <2>. QED  BY <2>3, <2>4, NoTasks
<1>. QED  BY <1>16, <1>17, <1>18, <1>19 DEF M

-----------------------------------------------------------------------------
(* The tasks of a call.                                                       *)

Contents == {"nothing", "shallow", "analysis"}
Input == [game : Games, has : Contents]
OncePerGame(s) == \A i, k \in DOMAIN s : s[i].game = s[k].game => i = k

LEMMA FreshInputs ==
  ASSUME NEW c, inputs[c] \in Seq(Input), OncePerGame(inputs[c])
  PROVE  /\ Fresh(c) \in Seq(Input) /\ OncePerGame(Fresh(c))
         /\ \A i \in DOMAIN Fresh(c) :
              /\ TakenCareOf(Fresh(c)[i].game) = {}
              /\ \E k \in DOMAIN inputs[c] : Fresh(c)[i] = inputs[c][k]
<1>. DEFINE s == inputs[c]
            I == {i \in DOMAIN s : TakenCareOf(s[i].game) = {}}
            N == 1..Cardinality(I)
            F == Picked(s, I)
<1>1. Fresh(c) = F /\ I \in SUBSET DOMAIN s /\ \A i \in I : TakenCareOf(s[i].game) = {}
  BY DEF Fresh
<1>2. s \in Seq(Input) /\ OncePerGame(s)
  OBVIOUS
<1>. HIDE DEF s, I
<1>3. /\ F \in Seq(Input)
      /\ DOMAIN F = N
  BY <1>1, <1>2, PickedPlaces
<1>4. /\ \A n \in N : Place(I, n) \in I /\ F[n] = s[Place(I, n)]
      /\ \A n, m \in N : Place(I, n) = Place(I, m) => n = m
  BY <1>1, <1>2, PickedPlaces
<1>. HIDE DEF F, N
<1>5. \A n \in N : Place(I, n) \in I /\ Place(I, n) \in DOMAIN s
  BY <1>1, <1>4
<1>6. OncePerGame(F)
  <2>. SUFFICES ASSUME NEW n \in N, NEW m \in N, F[n].game = F[m].game PROVE n = m
    BY <1>3 DEF OncePerGame
  <2>1. Place(I, n) = Place(I, m)
    BY <1>2, <1>4, <1>5 DEF OncePerGame
  <2>. QED  BY <1>4, <2>1
<1>7. \A n \in N : TakenCareOf(F[n].game) = {} /\ \E k \in DOMAIN s : F[n] = s[k]
  BY <1>1, <1>4, <1>5
<1>8. /\ F \in Seq(Input) /\ OncePerGame(F)
      /\ \A i \in DOMAIN F : /\ TakenCareOf(F[i].game) = {}
                            /\ \E k \in DOMAIN s : F[i] = s[k]
  BY <1>3, <1>6, <1>7
<1>. QED  BY <1>1, <1>8, Zenon DEF s

(* A set of positions, listed in order and each once.                         *)
Lists(q, C) ==
  /\ q \in Seq(C)
  /\ \A i, k \in DOMAIN q : q[i] = q[k] => i = k
  /\ \A x \in C : \E i \in DOMAIN q : q[i] = x
  /\ C = {} => Len(q) = 0

LEMMA PickedPositions ==
  ASSUME NEW P, NEW C \in SUBSET P, NEW ks \in Seq(P), DOMAIN ks = P, \A k \in P : ks[k] = k
  PROVE  Lists(Picked(ks, C), C)
<1>. DEFINE N == 1..Cardinality(C)  q == Picked(ks, C)
<1>. C \in SUBSET DOMAIN ks
  OBVIOUS
<1>1. /\ DOMAIN q = N /\ q \in Seq(P)
      /\ Len(q) = Cardinality(C) /\ IsFiniteSet(C)
  BY PickedPlaces
<1>3. /\ \A k \in N : Place(C, k) \in C /\ q[k] = ks[Place(C, k)]
      /\ \A k, m \in N : Place(C, k) = Place(C, m) => k = m
      /\ \A x \in C : \E k \in N : Place(C, k) = x
  BY ONLY ks \in Seq(P), C \in SUBSET DOMAIN ks, PickedPlaces
<1>. HIDE DEF N, q
<1>4. \A k \in N : q[k] = Place(C, k) /\ q[k] \in C
  BY <1>3
<1>5. q \in Seq(C)
  <2>1. \A k \in 1..Len(q) : q[k] \in C
    BY <1>1, <1>4 DEF N
  <2>. QED  BY <1>1, <2>1
<1>6. C = {} => Len(q) = 0
  BY <1>1, FS_EmptySet
<1>. QED  BY <1>1, <1>3, <1>4, <1>5, <1>6 DEF q, Lists

(* The positions of two kinds, those of one kind before those of the other.   *)
LEMMA LinedPositions ==
  ASSUME NEW n \in Nat, NEW A \in SUBSET (1..n), NEW B \in SUBSET (1..n), A \cap B = {}
  PROVE  LET ks == [k \in 1..n |-> k]
             l == Picked(ks, A) \o Picked(ks, B)
         IN  /\ l \in Seq(A \cup B)
             /\ \A i, k \in DOMAIN l : l[i] = l[k] => i = k
             /\ \A a \in A \cup B : \E i \in DOMAIN l : l[i] = a
             /\ A = {} /\ B = {} => Len(l) = 0
<1>. DEFINE ks == [k \in 1..n |-> k]
            s == Picked(ks, A)
            t == Picked(ks, B)
            l == s \o t
<1>1. ks \in Seq(1..n) /\ DOMAIN ks = 1..n /\ \A k \in 1..n : ks[k] = k
  OBVIOUS
<1>. HIDE DEF ks
<1>2. ASSUME NEW C \in SUBSET (1..n)
      PROVE  Lists(Picked(ks, C), C)
  <2>. DEFINE P == 1..n
  <2>1. C \in SUBSET P /\ ks \in Seq(P) /\ DOMAIN ks = P /\ \A k \in P : ks[k] = k
    BY <1>1
  <2>. HIDE DEF P
  <2>. QED  BY <2>1, PickedPositions
<1>3. Lists(s, A) /\ Lists(t, B)
  BY <1>2
<1>. HIDE DEF s, t
<1>4. s \in Seq(A \cup B) /\ t \in Seq(A \cup B)
  BY <1>3 DEF Lists
<1>5. /\ l \in Seq(A \cup B) /\ Len(l) = Len(s) + Len(t)
      /\ \A i \in 1..Len(l) : l[i] = IF i <= Len(s) THEN s[i] ELSE t[i - Len(s)]
  BY <1>4, ConcatProperties
<1>6. /\ DOMAIN s = 1..Len(s) /\ DOMAIN t = 1..Len(t) /\ DOMAIN l = 1..Len(l)
      /\ Len(s) \in Nat /\ Len(t) \in Nat
  BY <1>4, <1>5
<1>. HIDE DEF l
<1>7. \A i \in DOMAIN s : i \in DOMAIN l /\ l[i] = s[i] /\ s[i] \in A
  BY <1>3, <1>5, <1>6 DEF Lists
<1>8. \A i \in DOMAIN t : i + Len(s) \in DOMAIN l /\ l[i + Len(s)] = t[i] /\ t[i] \in B
  <2>. SUFFICES ASSUME NEW i \in DOMAIN t
                PROVE  i + Len(s) \in DOMAIN l /\ l[i + Len(s)] = t[i] /\ t[i] \in B
    OBVIOUS
  <2>1. PICK k : k = i + Len(s)
    OBVIOUS
  <2>2. k \in 1..(Len(s) + Len(t)) /\ ~(k <= Len(s)) /\ k - Len(s) = i
    BY <1>6, <2>1
  <2>3. k \in DOMAIN l /\ l[k] = t[i]
    BY <1>5, <1>6, <2>2
  <2>4. t[i] \in B
    BY <1>3 DEF Lists
  <2>. QED  BY <2>1, <2>3, <2>4
<1>9. \A i \in DOMAIN l : \/ i \in DOMAIN s /\ l[i] = s[i] /\ l[i] \in A
                          \/ i - Len(s) \in DOMAIN t /\ l[i] = t[i - Len(s)] /\ l[i] \in B
  BY <1>5, <1>6, <1>7, <1>8
<1>10. \A i, k \in DOMAIN l : l[i] = l[k] => i = k
  <2>. SUFFICES ASSUME NEW i \in DOMAIN l, NEW k \in DOMAIN l, l[i] = l[k] PROVE i = k
    OBVIOUS
  <2>1. CASE l[i] \in A
    BY <1>3, <1>9, <2>1 DEF Lists
  <2>2. CASE l[i] \in B
    <3>1. i - Len(s) = k - Len(s)
      BY <1>3, <1>9, <2>2 DEF Lists
    <3>. QED  BY <1>6, <3>1
  <2>. QED  BY <1>9, <2>1, <2>2
<1>11. \A a \in A \cup B : \E i \in DOMAIN l : l[i] = a
  BY <1>3, <1>7, <1>8 DEF Lists
<1>12. A = {} /\ B = {} => Len(l) = 0
  BY <1>3, <1>5 DEF Lists
<1>. QED  BY <1>1, <1>5, <1>10, <1>11, <1>12 DEF ks, s, t, l

(* The positions among the new jobs of the tasks of a call.                   *)
OfKind(c, kind) == {k \in DOMAIN Fresh(c) : Fresh(c)[k].has = kind}
Line(c) ==
  LET ks == [k \in DOMAIN Fresh(c) |-> k]
  IN Picked(ks, OfKind(c, "nothing")) \o Picked(ks, OfKind(c, "shallow"))

LEMMA CallLine ==
  ASSUME NEW c, Fresh(c) \in Seq(Input)
  PROVE  /\ NewTasks(c) = [i \in DOMAIN Line(c) |->
              NewTask(NextId + Line(c)[i] - 1, Fresh(c)[Line(c)[i]].has = "shallow", wanted[c])]
         /\ Line(c) \in Seq({k \in DOMAIN Fresh(c) : Fresh(c)[k].has # "analysis"})
         /\ \A i, k \in DOMAIN Line(c) : Line(c)[i] = Line(c)[k] => i = k
         /\ \A k \in DOMAIN Fresh(c) : Fresh(c)[k].has # "analysis" =>
              \E i \in DOMAIN Line(c) : Line(c)[i] = k
         /\ Fresh(c) = <<>> => Len(Line(c)) = 0
<1>. DEFINE f == Fresh(c)
            n == Len(f)
            A == OfKind(c, "nothing")
            B == OfKind(c, "shallow")
            ks == [k \in 1..n |-> k]
            l == Picked(ks, A) \o Picked(ks, B)
<1>1. n \in Nat /\ DOMAIN f = 1..n /\ \A k \in DOMAIN f : f[k].has \in Contents
  <2>. HIDE DEF f
  <2>1. f \in Seq(Input)
    BY DEF f
  <2>2. \A k \in DOMAIN f : f[k] \in Input
    BY <2>1
  <2>. QED  BY <2>1, <2>2 DEF Input, n
<1>2. /\ A \in SUBSET (1..n) /\ B \in SUBSET (1..n) /\ A \cap B = {}
      /\ A \cup B = {k \in DOMAIN f : f[k].has # "analysis"}
  BY <1>1 DEF OfKind, Contents
<1>3. Line(c) = l
  BY <1>1 DEF Line
<1>4. f = <<>> => A = {} /\ B = {}
  BY DEF OfKind
<1>5. NewTasks(c) = [i \in DOMAIN Line(c) |->
              NewTask(NextId + Line(c)[i] - 1, Fresh(c)[Line(c)[i]].has = "shallow", wanted[c])]
  BY DEF NewTasks, Line, OfKind
<1>. HIDE DEF n, A, B
<1>6. /\ l \in Seq(A \cup B)
      /\ \A i, k \in DOMAIN l : l[i] = l[k] => i = k
      /\ \A a \in A \cup B : \E i \in DOMAIN l : l[i] = a
      /\ A = {} /\ B = {} => Len(l) = 0
  BY <1>1, <1>2, LinedPositions
<1>. QED  BY <1>2, <1>3, <1>4, <1>5, <1>6

LEMMA CallTasks ==
  ASSUME NEW c, Fresh(c) \in Seq(Input), wanted[c] \in Priorities,
         NextId \in Nat \ {0}, NextId + Len(Fresh(c)) <= MaxJobs + 1
  PROVE  /\ NewTasks(c) \in Seq(JobTask) /\ NoTwice(NewTasks(c))
         /\ \A t \in Elems(NewTasks(c)) : t.priority = wanted[c]
         /\ \A j : j \in JobsIn(NewTasks(c)) <=>
              \E k \in DOMAIN Fresh(c) : Fresh(c)[k].has # "analysis" /\ j = NextId + k - 1
<1>. DEFINE f == Fresh(c)
            K == {k \in DOMAIN f : f[k].has # "analysis"}
            l == Line(c)
            T == NewTasks(c)
<1>1. /\ T = [i \in DOMAIN l |->
                 NewTask(NextId + l[i] - 1, f[l[i]].has = "shallow", wanted[c])]
      /\ l \in Seq(K)
      /\ \A i, k \in DOMAIN l : l[i] = l[k] => i = k
      /\ \A k \in DOMAIN f : f[k].has # "analysis" => \E i \in DOMAIN l : l[i] = k
  <2>1. T = [i \in DOMAIN l |-> NewTask(NextId + l[i] - 1, f[l[i]].has = "shallow", wanted[c])]
    BY CallLine
  <2>2. l \in Seq(K)
    BY CallLine
  <2>3. \A i, k \in DOMAIN l : l[i] = l[k] => i = k
    BY CallLine
  <2>4. \A k \in DOMAIN f : f[k].has # "analysis" => \E i \in DOMAIN l : l[i] = k
    BY CallLine
  <2>. QED  BY <2>1, <2>2, <2>3, <2>4
<1>2. K \in SUBSET (1..Len(f)) /\ Len(f) \in Nat
  OBVIOUS
<1>3. \A k \in 1..Len(f) : NextId + k - 1 \in JobIds
  <2>1. Len(f) \in Nat /\ NextId \in Nat /\ NextId >= 1 /\ NextId + Len(f) <= MaxJobs + 1 /\ MaxJobs \in Nat
    BY <1>2, JobBounds
  <2>. HIDE DEF f
  <2>. QED  BY <2>1 DEF JobIds
<1>. HIDE DEF l, T, f
<1>4. DOMAIN l = 1..Len(l) /\ Len(l) \in Nat /\ \A i \in DOMAIN l : l[i] \in K
  BY <1>1
<1>5. \A i \in DOMAIN l : l[i] \in 1..Len(f) /\ f[l[i]].has # "analysis"
  BY <1>2, <1>4
<1>. HIDE DEF K
<1>6. \A i \in DOMAIN l : /\ T[i] \in JobTask /\ T[i].priority = wanted[c]
                         /\ T[i].job = NextId + l[i] - 1
  <2>. SUFFICES ASSUME NEW i \in DOMAIN l
                PROVE  /\ T[i] \in JobTask /\ T[i].priority = wanted[c]
                       /\ T[i].job = NextId + l[i] - 1
    OBVIOUS
  <2>. DEFINE j == NextId + l[i] - 1  d == (f[l[i]].has = "shallow")
  <2>1. j \in JobIds /\ d \in BOOLEAN
    BY <1>3, <1>5
  <2>2. T[i] = NewTask(j, d, wanted[c])
    BY <1>1
  <2>. HIDE DEF j, d
  <2>3. 0 \in 0..RetryLimit /\ 1 \in Tokens
    BY JobBounds DEF Tokens
  <2>. QED  BY <2>1, <2>2, <2>3 DEF NewTask, JobTask, j
<1>7. T \in Seq(JobTask) /\ DOMAIN T = DOMAIN l
  BY <1>1, <1>4, <1>6
<1>8. NoTwice(T)
  <2>. SUFFICES ASSUME NEW i \in DOMAIN l, NEW k \in DOMAIN l, T[i].job = T[k].job PROVE i = k
    BY <1>7 DEF NoTwice
  <2>1. NextId + l[i] - 1 = NextId + l[k] - 1 /\ l[i] \in Int /\ l[k] \in Int /\ NextId \in Int
    BY <1>5, <1>6
  <2>2. l[i] = l[k]
    BY <2>1
  <2>. QED  BY <1>1, <2>2
<1>9. \A t \in Elems(T) : t.priority = wanted[c]
  BY <1>6, <1>7 DEF Elems
<1>10. \A j : j \in JobsIn(T) <=> \E i \in DOMAIN l : j = NextId + l[i] - 1
  BY <1>6, <1>7 DEF Elems, JobsIn
<1>11. \A j : j \in JobsIn(T) <=> \E k \in DOMAIN f : f[k].has # "analysis" /\ j = NextId + k - 1
  <2>1. DOMAIN f = 1..Len(f)
    BY DEF f
  <2>. QED  BY <1>1, <1>5, <1>10, <2>1
<1>. QED  BY <1>7, <1>8, <1>9, <1>11 DEF T, f

LEMMA NoCallTasks ==
  ASSUME NEW c, Fresh(c) = <<>>
  PROVE  Len(NewTasks(c)) = 0
<1>1. Fresh(c) \in Seq(Input)
  OBVIOUS
<1>2. Line(c) = <<>>
  BY <1>1, CallLine, EmptySeq
<1>. DEFINE T == NewTasks(c)
<1>3. T = [i \in DOMAIN Line(c) |-> T[i]]
  BY <1>1, CallLine
<1>. HIDE DEF T
<1>4. DOMAIN Line(c) = 1..0
  BY <1>2
<1>5. T \in [1..0 -> JobTask]
  BY <1>3, <1>4
<1>6. Len(T) = 0
  BY <1>5
<1>. QED  BY <1>6 DEF T

-----------------------------------------------------------------------------
(* The inductive invariant: types, and who has the task of a job.             *)

Places ==
  {"idle", "starting", "analyzing", "saving", "handing", "announcing", "leaving",
   "completing", "retryable", "error", "exception", "finishing", "reporting",
   "recording", "exited"}
Task ==
  [job : 0..MaxJobs, deep : BOOLEAN, priority : Priorities, attempts : 0..RetryLimit,
   token : Tokens]
Registration == {Unregistered} \cup [priority : Priorities, token : Tokens]
Note == [game : Games, state : JobStates]

(* The jobs that exist are the first ones, and each has its game.             *)
JobTypes ==
  /\ status \in [JobIds -> JobStates \cup {"absent"}]
  /\ game \in [JobIds -> Games \cup {"none"}]
  /\ \A j \in JobIds : status[j] # "absent" => game[j] \in Games
  /\ \E n \in 0..MaxJobs : \A j \in JobIds : status[j] # "absent" <=> j <= n

WorkerTypes ==
  /\ pc \in [Workers -> Places]
  /\ task \in [Workers -> Task]
  /\ seen \in [Workers -> JobStates \cup {"absent"}]
  /\ \A w \in Workers :
       /\ pc[w] \notin {"idle", "exited"} => Mine(w) \in JobIds /\ status[Mine(w)] # "absent"
       /\ pc[w] = "recording" => seen[w] # "absent"

ClientTypes ==
  /\ call \in [Clients -> {"none", "starting", "recording", "pausing", "resuming"}]
  /\ inputs \in [Clients -> Seq(Input)]
  /\ wanted \in [Clients -> Priorities]
  /\ todo \in [Clients -> Seq(Note)]
  /\ \A c \in Clients : OncePerGame(inputs[c]) /\ (call[c] = "recording" => todo[c] # <<>>)

OtherTypes ==
  /\ jobStop \in [JobIds -> BOOLEAN]
  /\ requested \in [JobIds -> Priorities]
  /\ registry \in [JobIds -> Registration]
  /\ stopped \subseteq JobIds \X Tokens
  /\ activeBy \in [Priorities -> Int]
  /\ paused \in BOOLEAN /\ savedPause \in BOOLEAN
  /\ stored \in [Games -> Contents]
  /\ jobState \in [Games -> JobStates \cup {"none"}]
  /\ process \in {"running", "closing", "down"}

(* A job waits in the queues if it is queued, and only if it is queued or was *)
(* cancelled while it waited.                                                 *)
QueueInv ==
  /\ Lined(queues)
  /\ \A j \in JobsWaiting(queues) : status[j] \in {"queued", "cancelled"}
  /\ \A j \in JobIds : status[j] = "queued" => j \in JobsWaiting(queues)

(* A job runs at one worker, and a worker executes a job that runs.           *)
RunInv ==
  /\ \A j \in JobIds : status[j] = "running" => \E w \in Workers : Executing(w) /\ Mine(w) = j
  /\ \A w \in Workers : Executing(w) => status[Mine(w)] = "running"
  /\ \A v, w \in Workers : Executing(v) /\ Executing(w) /\ Mine(v) = Mine(w) => v = w

CoreInv == JobTypes /\ WorkerTypes /\ ClientTypes /\ OtherTypes /\ QueueInv /\ RunInv

LEMMA NextIdMeans ==
  ASSUME JobTypes
  PROVE  /\ NextId \in Nat \ {0} /\ NextId <= MaxJobs + 1
         /\ \A j \in JobIds : status[j] # "absent" <=> j < NextId
<1>1. PICK n \in 0..MaxJobs : \A j \in JobIds : status[j] # "absent" <=> j <= n
  BY DEF JobTypes
<1>. DEFINE named == {j \in JobIds : status[j] # "absent"}
<1>2. MaxJobs \in Nat /\ n \in Nat
  BY JobBounds
<1>3. named = 1..n
  <2>1. \A j \in JobIds : j \in Int /\ 1 <= j /\ j <= MaxJobs
    BY <1>2 DEF JobIds
  <2>2. \A j \in 1..n : j \in JobIds
    BY <1>2 DEF JobIds
  <2>. QED  BY <1>1, <1>2, <2>1, <2>2
<1>4. Cardinality(1..n) = n
  <2>1. 1 \in Int /\ n \in Int /\ (1 > n => n = 0)
    BY <1>2
  <2>. QED  BY <1>2, <2>1, FS_Interval
<1>5. NextId = n + 1
  BY <1>3, <1>4 DEF NextId
<1>. QED  BY <1>1, <1>2, <1>5 DEF JobIds

-----------------------------------------------------------------------------
(* What a worker's step does to the jobs, the queues and the other workers.   *)

(* The worker goes on with what it did.                                       *)
Moves(w) ==
  /\ UNCHANGED <<status, game, queues>>
  /\ Executing(w)' <=> Executing(w)
  /\ Executing(w) => task'[w] = task[w]

Pops(p) == queues[p] # <<>> /\ queues' = [queues EXCEPT ![p] = Tail(@)]

(* It drops the task of a job that was cancelled, or takes one up.            *)
Drops(w) ==
  \E p \in Priorities :
    /\ Pops(p) /\ status[Head(queues[p]).job] = "cancelled"
    /\ UNCHANGED <<status, game, pc, task>>
TakesUp(w) ==
  \E p \in Priorities :
    /\ Pops(p) /\ status[Head(queues[p]).job] # "cancelled"
    /\ ~Executing(w) /\ Executing(w)' /\ task'[w] = Head(queues[p])
    /\ status' = [status EXCEPT ![Head(queues[p]).job] = "running"]
    /\ UNCHANGED game

(* It puts a task of its job back, or ends the job.                           *)
PutsBack(w) ==
  \E t \in JobTask :
    /\ Executing(w) /\ ~Executing(w)' /\ t.job = Mine(w)
    /\ status' = [status EXCEPT ![t.job] = "queued"]
    /\ queues' = [queues EXCEPT ![t.priority] = Append(@, t)]
    /\ UNCHANGED game
Ends(w) ==
  \E outcome \in Terminal :
    /\ Executing(w) /\ ~Executing(w)'
    /\ status' = [status EXCEPT ![Mine(w)] = outcome]
    /\ UNCHANGED <<game, queues>>

OthersStay(w) == \A v \in Workers \ {w} : pc'[v] = pc[v] /\ task'[v] = task[v]

ShapedStep(w) ==
  /\ Moves(w) \/ Drops(w) \/ TakesUp(w) \/ PutsBack(w) \/ Ends(w)
  /\ OthersStay(w)

LEMMA FreshTokenType ==
  ASSUME NEW j
  PROVE  FreshToken(j) \in Tokens /\ FreshToken(j) # registry[j].token
<1>1. \E t \in Tokens : t # registry[j].token
  BY DEF Tokens
<1>. QED  BY <1>1 DEF FreshToken

LEMMA WorkerShapes ==
  ASSUME CoreInv, NEW w \in Workers, WorkerStep(w)
  PROVE  ShapedStep(w)
<1>. USE DEF CoreInv
<1>. DEFINE Executable == {"starting", "analyzing", "saving", "handing", "completing",
                           "retryable", "error", "exception"}
<1>1. pc \in [Workers -> Places] /\ task \in [Workers -> Task]
  BY DEF WorkerTypes
<1>2. CASE Take(w)
  <2>1. PICK p \in Runnable :
         LET t == Head(queues[p]) IN
         /\ queues' = [queues EXCEPT ![p] = Tail(@)]
         /\ IF Dropped(t)
            THEN UNCHANGED <<status, registry, activeBy, pc, task>>
            ELSE /\ status' = [status EXCEPT ![t.job] = "running"]
                 /\ registry' = [registry EXCEPT ![t.job] =
                                   [priority |-> p, token |-> t.token]]
                 /\ activeBy' = [activeBy EXCEPT ![p] = @ + 1]
                 /\ task' = [task EXCEPT ![w] = t]
                 /\ Goto(w, "starting")
    BY <1>2 DEF Take
  <2>2. p \in Priorities /\ Pops(p)
    BY <2>1 DEF Runnable, Pops
  <2>3. pc[w] = "idle" /\ UNCHANGED game
    BY <1>2 DEF Take
  <2>4. CASE Dropped(Head(queues[p]))
    BY <2>1, <2>2, <2>3, <2>4 DEF Dropped, ShapedStep, Drops, OthersStay
  <2>5. CASE ~Dropped(Head(queues[p]))
    <3>1. TakesUp(w)
      BY <1>1, <2>1, <2>2, <2>3, <2>5 DEF Dropped, TakesUp, Executing, Goto
    <3>2. OthersStay(w)
      BY <1>1, <2>1, <2>5 DEF OthersStay, Goto
    <3>. QED  BY <3>1, <3>2 DEF ShapedStep
  <2>. QED  BY <2>4, <2>5
<1>3. CASE Begin(w) \/ Analyze(w) \/ SaveShallow(w) \/ SaveAnalysis(w) \/ SaveFails(w)
  <2>1. PICK place \in Executable : Goto(w, place)
    BY <1>3 DEF Begin, Analyze, SaveShallow, SaveAnalysis, SaveFails
  <2>2. pc[w] \in Executable /\ UNCHANGED <<status, game, queues, task>>
    BY <1>3 DEF Begin, Analyze, SaveShallow, SaveAnalysis, SaveFails, KeepManager, jobVars, schedVars
  <2>3. Moves(w) /\ OthersStay(w)
    BY <1>1, <2>1, <2>2 DEF Moves, OthersStay, Executing, Goto
  <2>. QED  BY <2>3 DEF ShapedStep
<1>4. CASE RecordQueued(w) \/ FinishTask(w) \/ Reread(w) \/ RecordFinal(w) \/ Exit(w)
  <2>1. PICK place \in Places \ Executable : Goto(w, place)
    BY <1>4 DEF RecordQueued, FinishTask, Reread, RecordFinal, Exit, Places
  <2>2. pc[w] \notin Executable /\ UNCHANGED <<status, game, queues>>
    BY <1>4 DEF RecordQueued, FinishTask, Reread, RecordFinal, Exit, KeepManager, jobVars, schedVars
  <2>3. \A v \in Workers \ {w} : task'[v] = task[v]
    BY <1>1, <1>4 DEF RecordQueued, FinishTask, Reread, RecordFinal, Exit, KeepManager
  <2>4. Moves(w) /\ OthersStay(w)
    BY <1>1, <2>1, <2>2, <2>3 DEF Moves, OthersStay, Executing, Goto
  <2>. QED  BY <2>4 DEF ShapedStep
<1>5. ASSUME pc[w] \in Executable, NEW t \in JobTask, t.job = Mine(w),
             NEW place \in Places \ Executable, Requeue(w, t, place)
      PROVE  ShapedStep(w)
  <2>1. PutsBack(w) /\ OthersStay(w)
    BY <1>1, <1>5 DEF Requeue, PutsBack, OthersStay, Executing, Goto
  <2>. QED  BY <2>1 DEF ShapedStep
<1>6. pc[w] \in Executable => Mine(w) \in JobIds
  BY DEF WorkerTypes
<1>7. CASE HandOver(w)
  <2>. DEFINE t == [NewTask(Mine(w), TRUE, task[w].priority) EXCEPT !.token = FreshToken(Mine(w))]
  <2>1. pc[w] = "handing" /\ Requeue(w, t, "announcing")
    BY <1>7 DEF HandOver
  <2>2. t \in JobTask /\ t.job = Mine(w)
    <3>1. Mine(w) \in JobIds /\ task[w].priority \in Priorities /\ 0 \in 0..RetryLimit
      BY <1>1, <1>6, <2>1, JobBounds DEF Task
    <3>2. FreshToken(Mine(w)) \in Tokens
      BY FreshTokenType
    <3>. QED  BY <3>1, <3>2 DEF NewTask, JobTask
  <2>. HIDE DEF t
  <2>. QED  BY <1>5, <2>1, <2>2 DEF Places
<1>8. CASE CatchPreempted(w)
  <2>. DEFINE t == [task[w] EXCEPT !.priority = requested[Mine(w)], !.token = FreshToken(Mine(w))]
  <2>1. pc[w] \in Executable /\ Requeue(w, t, "finishing")
    BY <1>8 DEF CatchPreempted, Thrown
  <2>2. t \in JobTask /\ t.job = Mine(w)
    BY <1>1, <1>6, <2>1, FreshTokenType DEF OtherTypes, Mine, JobTask, Task
  <2>. HIDE DEF t
  <2>. QED  BY <1>5, <2>1, <2>2 DEF Places
<1>9. CASE CatchRetry(w)
  <2>. DEFINE t == [task[w] EXCEPT !.attempts = @ + 1]
  <2>1. pc[w] = "retryable" /\ task[w].attempts < RetryLimit /\ Requeue(w, t, "finishing")
    BY <1>9 DEF CatchRetry, CanRetry
  <2>2. t \in JobTask /\ t.job = Mine(w)
    BY <1>1, <1>6, <2>1, JobBounds DEF Mine, JobTask, Task
  <2>. HIDE DEF t
  <2>. QED  BY <1>5, <2>1, <2>2 DEF Places
<1>10. CASE Complete(w) \/ CatchCancelled(w) \/ CatchFailed(w)
  <2>1. PICK outcome \in Terminal : Settle(w, outcome)
    BY <1>10 DEF Complete, CatchCancelled, CatchFailed, Terminal
  <2>2. pc[w] \in Executable
    BY <1>10 DEF Complete, CatchCancelled, CatchFailed, Thrown
  <2>3. Ends(w) /\ OthersStay(w)
    BY <1>1, <2>1, <2>2 DEF Settle, Ends, OthersStay, Executing, Goto, schedVars
  <2>. QED  BY <2>3 DEF ShapedStep
<1>. QED  BY <1>2, <1>3, <1>4, <1>7, <1>8, <1>9, <1>10 DEF WorkerStep

-----------------------------------------------------------------------------
(* What the admission of a call does to the jobs and the queues.              *)

NewJobs(c) == NextId..(NextId + Len(Fresh(c)) - 1)
FreshOf(c, j) == Fresh(c)[j - NextId + 1]
FirstState(f) == IF f.has = "analysis" THEN "complete" ELSE "queued"

Admits(c) ==
  /\ NewJobs(c) \subseteq {j \in JobIds : status[j] = "absent"}
  /\ Fresh(c) \in Seq(Input) /\ OncePerGame(Fresh(c))
  /\ \A j \in NewJobs(c) :
       /\ j - NextId + 1 \in DOMAIN Fresh(c)
       /\ TakenCareOf(FreshOf(c, j).game) = {}
       /\ \E k \in DOMAIN inputs[c] : FreshOf(c, j) = inputs[c][k]
  /\ status' = [j \in JobIds |->
       IF j \in NewJobs(c) THEN FirstState(FreshOf(c, j)) ELSE status[j]]
  /\ game' = [j \in JobIds |-> IF j \in NewJobs(c) THEN FreshOf(c, j).game ELSE game[j]]
  /\ Lined(queues')
  /\ JobsWaiting(queues') =
       JobsWaiting(queues) \cup {j \in NewJobs(c) : FreshOf(c, j).has # "analysis"}
  /\ Backlog(queues') <= MaxQueued
  /\ UNCHANGED <<pc, task>>

LEMMA AdmitMeans ==
  ASSUME CoreInv, NEW c \in Clients, Admit(c)
  PROVE  Admits(c)
<1>. DEFINE f == Fresh(c)
            N == NewTasks(c)
            M == MovedUp(Overtaken(c), wanted[c])
            p == wanted[c]
            id == NextId
            n == Len(f)
<1>1. /\ f \in Seq(Input) /\ OncePerGame(f)
      /\ p \in Priorities
  BY FreshInputs DEF CoreInv, ClientTypes
<1>2. /\ id \in Nat \ {0} /\ \A j \in JobIds : status[j] # "absent" <=> j < id
  BY NextIdMeans DEF CoreInv
<1>3. /\ id + n <= MaxJobs + 1
      /\ status' = [j \in JobIds |->
           IF j \in NewJobs(c) THEN FirstState(FreshOf(c, j)) ELSE status[j]]
      /\ game' = [j \in JobIds |-> IF j \in NewJobs(c) THEN FreshOf(c, j).game ELSE game[j]]
      /\ queues' = [M EXCEPT ![p] = @ \o N]
      /\ UNCHANGED <<pc, task>>
  BY DEF Admit, NewJobs, FreshOf, FirstState, workerVars
<1>4. n \in Nat /\ DOMAIN f = 1..n
  BY <1>1
<1>5. /\ N \in Seq(JobTask) /\ NoTwice(N)
      /\ \A t \in Elems(N) : t.priority = p
      /\ \A j : j \in JobsIn(N) <=> \E k \in DOMAIN f : f[k].has # "analysis" /\ j = id + k - 1
  BY <1>1, <1>2, <1>3, CallTasks
<1>6. /\ Lined(M) /\ JobsWaiting(M) = JobsWaiting(queues)
      /\ Backlog(M) = Backlog(queues)
  BY <1>1, MovedUpLined DEF CoreInv, QueueInv
<1>. HIDE DEF f, N, M, p, id, n
<1>7. \A j : j \in NewJobs(c) <=> j \in id..(id + n - 1)
  BY DEF NewJobs, id, n, f
<1>8. \A j : FreshOf(c, j) = f[j - id + 1]
  BY DEF FreshOf, id, f
<1>9. MaxJobs \in Nat
  BY JobBounds
<1>10. \A j \in NewJobs(c) : j \in JobIds /\ ~(j < id) /\ j - id + 1 \in DOMAIN f
  BY <1>2, <1>3, <1>4, <1>7, <1>9 DEF JobIds
<1>11. \A j \in NewJobs(c) : status[j] = "absent"
  BY <1>2, <1>10
<1>12. JobsIn(N) = {j \in NewJobs(c) : FreshOf(c, j).has # "analysis"}
  <2>1. ASSUME NEW j \in JobsIn(N)
        PROVE  j \in NewJobs(c) /\ FreshOf(c, j).has # "analysis"
    <3>1. PICK k \in 1..n : f[k].has # "analysis" /\ j = id + k - 1
      BY <1>4, <1>5
    <3>2. j \in id..(id + n - 1) /\ j - id + 1 = k
      BY <1>2, <1>4, <3>1
    <3>. QED  BY <1>7, <1>8, <3>1, <3>2
  <2>2. ASSUME NEW j \in NewJobs(c), FreshOf(c, j).has # "analysis"
        PROVE  j \in JobsIn(N)
    <3>. DEFINE k == j - id + 1
    <3>1. k \in DOMAIN f /\ f[k].has # "analysis"
      BY <1>8, <1>10, <2>2
    <3>2. j = id + k - 1
      BY <1>2, <1>10 DEF JobIds
    <3>. HIDE DEF k
    <3>. QED  BY <1>5, <3>1, <3>2
  <2>. QED  BY <2>1, <2>2
<1>13. JobsIn(N) \cap JobsWaiting(M) = {}
  <2>1. \A j \in JobsWaiting(queues) : status[j] # "absent"
    BY DEF CoreInv, QueueInv
  <2>. QED  BY <1>6, <1>11, <1>12, <2>1
<1>14. /\ Lined(queues') /\ JobsWaiting(queues') = JobsWaiting(M) \cup JobsIn(N)
       /\ Backlog(queues') = Backlog(M) + Len(N)
  <2>1. LET R == [M EXCEPT ![p] = @ \o N]
        IN  /\ Lined(R) /\ JobsWaiting(R) = JobsWaiting(M) \cup JobsIn(N)
            /\ Backlog(R) = Backlog(M) + Len(N)
    BY <1>1, <1>5, <1>6, <1>13, LinedExtended DEF p
  <2>. QED  BY <1>3, <2>1
<1>15. /\ Lined(queues')
       /\ JobsWaiting(queues') =
            JobsWaiting(queues) \cup {j \in NewJobs(c) : FreshOf(c, j).has # "analysis"}
       /\ Backlog(queues') = Backlog(queues) + Len(N)
  BY <1>6, <1>12, <1>14
<1>18. Backlog(queues') <= MaxQueued
  <2>1. QueuedCount + Len(N) <= MaxQueued
    BY DEF Admit, Fits, N
  <2>. QED  BY <1>15, <2>1 DEF Backlog, QueuedCount
<1>16. NewJobs(c) \subseteq {j \in JobIds : status[j] = "absent"}
  BY <1>10, <1>11
<1>17. \A j \in NewJobs(c) :
         /\ j - NextId + 1 \in DOMAIN Fresh(c)
         /\ TakenCareOf(FreshOf(c, j).game) = {}
         /\ \E k \in DOMAIN inputs[c] : FreshOf(c, j) = inputs[c][k]
  <2>1. inputs[c] \in Seq(Input) /\ OncePerGame(inputs[c])
    BY DEF CoreInv, ClientTypes
  <2>2. \A i \in DOMAIN Fresh(c) :
          /\ TakenCareOf(Fresh(c)[i].game) = {}
          /\ \E k \in DOMAIN inputs[c] : Fresh(c)[i] = inputs[c][k]
    BY <2>1, FreshInputs
  <2>. QED  BY <1>10, <2>2 DEF id, f, FreshOf
<1>. QED  BY <1>1, <1>3, <1>15, <1>16, <1>17, <1>18 DEF Admits, f

-----------------------------------------------------------------------------
(* What the other steps do to them.                                           *)

Promotes ==
  /\ Lined(queues') /\ JobsWaiting(queues') = JobsWaiting(queues)
  /\ Backlog(queues') = Backlog(queues)
  /\ UNCHANGED <<status, game, pc, task>>

Cancels(j) ==
  /\ status[j] \in Unfinished
  /\ status' = [status EXCEPT ![j] = IF status[j] = "queued" THEN "cancelled" ELSE status[j]]
  /\ UNCHANGED <<game, queues, pc, task>>

(* A life of the process ends, or begins with one job for each game of s.     *)
EmptyQueues(Q) == Q \in [Priorities -> Seq(JobTask)] /\ \A p \in Priorities : Q[p] = <<>>

GoesDown ==
  /\ process' = "down"
  /\ status' = NoJobs /\ game' = NoGames
  /\ EmptyQueues(queues')
  /\ pc' = [w \in Workers |-> "idle"] /\ task' = [w \in Workers |-> NoTask]

ComesUp ==
  process = "down" /\ \E n \in Nat : \E s \in [1..n -> Recoverable] :
    /\ n <= MaxQueued /\ n <= MaxJobs
    /\ \A i, k \in 1..n : s[i] = s[k] => i = k
    /\ status' = [j \in JobIds |-> IF j <= n THEN "queued" ELSE "absent"]
    /\ game' = [j \in JobIds |-> IF j <= n THEN s[j] ELSE "none"]
    /\ Lined(queues') /\ JobsWaiting(queues') = 1..n /\ Backlog(queues') = n
    /\ pc' = [w \in Workers |-> "idle"] /\ task' = [w \in Workers |-> NoTask]

Quiet == UNCHANGED <<status, game, queues, pc, task>>

ShapedElsewhere ==
  \/ Quiet \/ Promotes \/ GoesDown \/ ComesUp
  \/ \E j \in JobIds : Cancels(j)
  \/ \E c \in Clients : Admits(c)

LEMMA NoneWaiting ==
  ASSUME NEW Q, EmptyQueues(Q)
  PROVE  Lined(Q) /\ JobsWaiting(Q) = {} /\ Backlog(Q) = 0
<1>1. \A p \in Priorities : /\ NoTwice(Q[p]) /\ JobsIn(Q[p]) = {} /\ Elems(Q[p]) = {}
                            /\ Len(Q[p]) = 0
  BY NoTasks DEF EmptyQueues
<1>2. 0 \in Priorities /\ 1 \in Priorities /\ 2 \in Priorities
  BY DEF Priorities
<1>3. Lined(Q) /\ JobsWaiting(Q) = {}
  BY <1>1, WaitingMeans DEF EmptyQueues, Lined
<1>4. Len(Q[0]) = 0 /\ Len(Q[1]) = 0 /\ Len(Q[2]) = 0
  BY <1>1, <1>2
<1>. QED  BY <1>3, <1>4 DEF Backlog

LEMMA EmptyAtFirst ==
  /\ Init => EmptyQueues(queues)
  /\ Down => EmptyQueues(queues')
<1>1. ASSUME NEW Q, Q = [p \in Priorities |-> <<>>]
      PROVE  EmptyQueues(Q)
  BY <1>1, NoTasks DEF EmptyQueues
<1>. QED  BY <1>1 DEF Init, Down

(* The queue of the tasks that the next life of the process starts with.      *)
LEMMA RestartedLine ==
  ASSUME NEW Q, NEW n \in Nat, NEW d \in [1..n -> BOOLEAN], n <= MaxJobs,
         Q = [p \in Priorities |->
                IF p # Historical THEN <<>> ELSE [k \in 1..n |-> NewTask(k, d[k], Historical)]]
  PROVE  Lined(Q) /\ JobsWaiting(Q) = 1..n /\ Backlog(Q) = n
<1>. DEFINE E == [p \in Priorities |-> <<>>]
            s == [k \in 1..n |-> NewTask(k, d[k], Historical)]
<1>1. EmptyQueues(E)
  BY NoTasks DEF EmptyQueues
<1>2. Lined(E) /\ JobsWaiting(E) = {} /\ Backlog(E) = 0
  BY <1>1, NoneWaiting
<1>3. Historical \in Priorities
  BY DEF Historical, Priorities
<1>4. \A k \in 1..n : /\ s[k] \in JobTask /\ s[k].job = k /\ s[k].priority = Historical
  <2>. SUFFICES ASSUME NEW k \in 1..n
                PROVE  s[k] \in JobTask /\ s[k].job = k /\ s[k].priority = Historical
    OBVIOUS
  <2>1. k \in JobIds /\ d[k] \in BOOLEAN /\ 0 \in 0..RetryLimit /\ 1 \in Tokens
    BY JobBounds DEF JobIds, Tokens
  <2>2. s[k] = NewTask(k, d[k], Historical)
    OBVIOUS
  <2>. QED  BY <1>3, <2>1, <2>2 DEF NewTask, JobTask
<1>5. s \in Seq(JobTask) /\ Len(s) = n /\ DOMAIN s = 1..n
  BY <1>4
<1>6. Q = [E EXCEPT ![Historical] = s]
  BY <1>3
<1>7. E[Historical] \o s = s
  BY <1>3, <1>5, ConcatEmptySeq
<1>. HIDE DEF E, s
<1>8. Q = [E EXCEPT ![Historical] = @ \o s]
  BY <1>6, <1>7
<1>9. NoTwice(s) /\ JobsIn(s) = 1..n /\ \A t \in Elems(s) : t.priority = Historical
  BY <1>4, <1>5 DEF NoTwice, JobsIn, Elems
<1>10. /\ Lined(Q) /\ JobsWaiting(Q) = JobsWaiting(E) \cup JobsIn(s)
       /\ Backlog(Q) = Backlog(E) + Len(s)
  <2>. DEFINE R == [E EXCEPT ![Historical] = @ \o s]
  <2>1. JobsIn(s) \cap JobsWaiting(E) = {}
    BY <1>2
  <2>2. /\ Lined(R) /\ JobsWaiting(R) = JobsWaiting(E) \cup JobsIn(s)
        /\ Backlog(R) = Backlog(E) + Len(s)
    BY <1>2, <1>3, <1>5, <1>9, <2>1, LinedExtended
  <2>. QED  BY <1>8, <2>2
<1>. QED  BY <1>2, <1>5, <1>9, <1>10

LEMMA RestartMeans ==
  ASSUME CoreInv, Restart
  PROVE  ComesUp
<1>. DEFINE n == Cardinality(Recoverable)
<1>1. /\ n <= MaxQueued /\ n <= MaxJobs /\ Forget
      /\ \E s \in Orders(Recoverable) :
           /\ status' = [j \in JobIds |-> IF j <= n THEN "queued" ELSE "absent"]
           /\ game' = [j \in JobIds |-> IF j <= n THEN s[j] ELSE "none"]
           /\ queues' = [p \in Priorities |->
                IF p # Historical THEN <<>>
                ELSE [k \in 1..n |-> NewTask(k, stored[s[k]] = "shallow", Historical)]]
  BY DEF Restart
<1>2. n \in Nat
  <2>1. IsFiniteSet(Recoverable)
    BY JobBounds, FS_Subset DEF Recoverable
  <2>. QED  BY <2>1, FS_CardinalityType
<1>. HIDE DEF n
<1>3. PICK s \in Orders(Recoverable) :
           /\ status' = [j \in JobIds |-> IF j <= n THEN "queued" ELSE "absent"]
           /\ game' = [j \in JobIds |-> IF j <= n THEN s[j] ELSE "none"]
           /\ queues' = [p \in Priorities |->
                IF p # Historical THEN <<>>
                ELSE [k \in 1..n |-> NewTask(k, stored[s[k]] = "shallow", Historical)]]
  BY <1>1
<1>4. s \in [1..n -> Recoverable] /\ \A i, k \in 1..n : s[i] = s[k] => i = k
  BY DEF Orders, n
<1>5. Lined(queues') /\ JobsWaiting(queues') = 1..n /\ Backlog(queues') = n
  <2>. DEFINE d == [k \in 1..n |-> stored[s[k]] = "shallow"]
  <2>1. d \in [1..n -> BOOLEAN] /\ \A k \in 1..n : d[k] = (stored[s[k]] = "shallow")
    OBVIOUS
  <2>. HIDE DEF d
  <2>2. queues' = [p \in Priorities |->
          IF p # Historical THEN <<>> ELSE [k \in 1..n |-> NewTask(k, d[k], Historical)]]
    BY <1>3, <2>1
  <2>. QED  BY <1>1, <1>2, <2>1, <2>2, RestartedLine
<1>6. pc' = [w \in Workers |-> "idle"] /\ task' = [w \in Workers |-> NoTask]
  BY <1>1 DEF Forget
<1>7. process = "down"
  BY DEF Restart
<1>. QED  BY <1>1, <1>2, <1>3, <1>4, <1>5, <1>6, <1>7 DEF ComesUp

LEMMA OtherShapes ==
  ASSUME CoreInv, [Next]_vars, \A w \in Workers : ~WorkerStep(w)
  PROVE  ShapedElsewhere
<1>1. CASE UNCHANGED vars
  BY <1>1 DEF vars, ShapedElsewhere, Quiet
<1>2. ASSUME NEW c \in Clients,
             \/ BeginStart(c) \/ OutOfNames(c) \/ Record(c) \/ SavePaused(c)
             \/ \E on \in BOOLEAN : SetPaused(c, on)
      PROVE  ShapedElsewhere
  <2>1. Quiet
    BY <1>2 DEF BeginStart, OutOfNames, Record, SavePaused, SetPaused, Quiet, jobVars,
                schedVars, workerVars
  <2>. QED  BY <2>1 DEF ShapedElsewhere
<1>3. ASSUME NEW c \in Clients, NEW j \in JobIds, Cancel(c, j)
      PROVE  ShapedElsewhere
  <2>1. Cancels(j)
    BY <1>3 DEF Cancel, Cancels, workerVars
  <2>. QED  BY <2>1 DEF ShapedElsewhere
<1>4. ASSUME NEW c \in Clients, Admit(c)
      PROVE  ShapedElsewhere
  BY <1>4, AdmitMeans DEF ShapedElsewhere
<1>5. ASSUME NEW c \in Clients, Refuse(c)
      PROVE  ShapedElsewhere
  <2>1. wanted[c] \in Priorities /\ Lined(queues)
    BY DEF CoreInv, ClientTypes, QueueInv
  <2>2. queues' = MovedUp(Overtaken(c), wanted[c]) /\ UNCHANGED <<status, game, pc, task>>
    BY <1>5 DEF Refuse, workerVars
  <2>3. Promotes
    BY <2>1, <2>2, MovedUpLined DEF Promotes
  <2>. QED  BY <2>3 DEF ShapedElsewhere
<1>6. CASE Close \/ RestartRefused
  <2>1. Quiet
    BY <1>6 DEF Close, RestartRefused, Quiet, jobVars, schedVars, workerVars
  <2>. QED  BY <2>1 DEF ShapedElsewhere
<1>7. CASE Join \/ Crash
  <2>1. Down
    BY <1>7 DEF Join, Crash
  <2>2. EmptyQueues(queues')
    BY <2>1, EmptyAtFirst
  <2>3. GoesDown
    BY <2>1, <2>2 DEF Down, Forget, GoesDown
  <2>. QED  BY <2>3 DEF ShapedElsewhere
<1>8. CASE Restart
  BY <1>8, RestartMeans DEF ShapedElsewhere
<1>. QED
  BY <1>1, <1>2, <1>3, <1>4, <1>5, <1>6, <1>7, <1>8 DEF Next, ClientStep

-----------------------------------------------------------------------------
(* Each part of the invariant is kept.                                        *)

LEMMA SameNames ==
  ASSUME JobTypes, status' \in [JobIds -> JobStates \cup {"absent"}], UNCHANGED game,
         \A j \in JobIds : status'[j] = "absent" <=> status[j] = "absent"
  PROVE  JobTypes'
BY DEF JobTypes

LEMMA JobsKept ==
  ASSUME CoreInv, NEW w \in Workers, ShapedStep(w)
  PROVE  JobTypes' /\ \A j \in JobIds : status'[j] = "absent" <=> status[j] = "absent"
<1>1. status \in [JobIds -> JobStates \cup {"absent"}]
  BY DEF CoreInv, JobTypes
<1>2. UNCHANGED game
  BY DEF ShapedStep, Moves, Drops, TakesUp, PutsBack, Ends
<1>3. Executing(w) => Mine(w) \in JobIds /\ status[Mine(w)] = "running"
  BY DEF CoreInv, WorkerTypes, RunInv, Executing
<1>4. ASSUME NEW p \in Priorities, Pops(p)
      PROVE  /\ Head(queues[p]).job \in JobIds
             /\ status[Head(queues[p]).job] \in {"queued", "cancelled"}
  <2>1. Head(queues[p]) \in JobTask /\ Head(queues[p]).job \in JobsWaiting(queues)
    BY <1>4, LinedPopped DEF Pops, CoreInv, QueueInv
  <2>. QED  BY <2>1 DEF CoreInv, QueueInv, JobTask
<1>5. /\ status' \in [JobIds -> JobStates \cup {"absent"}]
      /\ \A j \in JobIds : status'[j] = "absent" <=> status[j] = "absent"
  <2>1. CASE Moves(w) \/ Drops(w)
    BY <1>1, <2>1 DEF Moves, Drops
  <2>2. CASE TakesUp(w)
    BY <1>1, <1>4, <2>2 DEF TakesUp, JobStates
  <2>3. CASE PutsBack(w)
    BY <1>1, <1>3, <2>3 DEF PutsBack, JobStates
  <2>4. CASE Ends(w)
    BY <1>1, <1>3, <2>4 DEF Ends, JobStates, Terminal
  <2>. QED  BY <2>1, <2>2, <2>3, <2>4 DEF ShapedStep
<1>. QED  BY <1>2, <1>5, SameNames DEF CoreInv

LEMMA JobsKeptElsewhere ==
  ASSUME CoreInv, ShapedElsewhere
  PROVE  JobTypes'
<1>0. /\ status \in [JobIds -> JobStates \cup {"absent"}]
      /\ game \in [JobIds -> Games \cup {"none"}]
      /\ \A j \in JobIds : status[j] # "absent" => game[j] \in Games
  BY DEF CoreInv, JobTypes
<1>1. CASE Quiet \/ Promotes
  BY <1>0, <1>1, SameNames DEF Quiet, Promotes, CoreInv
<1>2. ASSUME NEW j \in JobIds, Cancels(j)
      PROVE  JobTypes'
  <2>1. /\ status' \in [JobIds -> JobStates \cup {"absent"}] /\ UNCHANGED game
        /\ \A k \in JobIds : status'[k] = "absent" <=> status[k] = "absent"
    BY <1>0, <1>2 DEF Cancels, JobStates, Terminal, Unfinished
  <2>. QED  BY <2>1, SameNames DEF CoreInv
<1>3. ASSUME NEW c \in Clients, Admits(c)
      PROVE  JobTypes'
  <2>. DEFINE f == Fresh(c)  n == Len(f)  id == NextId
  <2>1. /\ f \in Seq(Input) /\ n \in Nat /\ DOMAIN f = 1..n
        /\ \A k \in DOMAIN f : f[k].game \in Games
    <3>1. f \in Seq(Input)
      BY <1>3 DEF Admits
    <3>. HIDE DEF f
    <3>2. \A k \in DOMAIN f : f[k] \in Input
      BY <3>1
    <3>. QED  BY <3>1, <3>2 DEF Input
  <2>2. /\ id \in Nat \ {0} /\ id <= MaxJobs + 1
        /\ \A j \in JobIds : status[j] # "absent" <=> j < id
    BY NextIdMeans DEF CoreInv
  <2>3. /\ NewJobs(c) = id..(id + n - 1)
        /\ \A j \in NewJobs(c) : j \in JobIds /\ FreshOf(c, j).game \in Games
    BY <1>3, <2>1 DEF Admits, NewJobs, FreshOf
  <2>4. /\ status' = [j \in JobIds |->
             IF j \in NewJobs(c) THEN FirstState(FreshOf(c, j)) ELSE status[j]]
        /\ game' = [j \in JobIds |-> IF j \in NewJobs(c) THEN FreshOf(c, j).game ELSE game[j]]
    BY <1>3 DEF Admits
  <2>. HIDE DEF f, n, id
  <2>5. \A j : FirstState(FreshOf(c, j)) \in JobStates /\ FirstState(FreshOf(c, j)) # "absent"
    BY DEF FirstState, JobStates, Terminal
  <2>6. /\ status' \in [JobIds -> JobStates \cup {"absent"}]
        /\ game' \in [JobIds -> Games \cup {"none"}]
        /\ \A j \in JobIds : status'[j] # "absent" => game'[j] \in Games
    BY <1>0, <2>3, <2>4, <2>5
  <2>7. \A j \in JobIds : status'[j] # "absent" <=> j \in NewJobs(c) \/ j < id
    BY <2>2, <2>4, <2>5
  <2>8. MaxJobs \in Nat
    BY JobBounds
  <2>9. PICK m \in 0..MaxJobs : m = id + n - 1
    <3>1. CASE n = 0
      BY <2>2, <2>8, <3>1
    <3>2. CASE n # 0
      <4>1. id + n - 1 \in NewJobs(c)
        BY <2>1, <2>2, <2>3, <3>2
      <4>. QED  BY <2>1, <2>2, <2>3, <2>8, <4>1 DEF JobIds
    <3>. QED  BY <3>1, <3>2
  <2>10. \A j \in JobIds : status'[j] # "absent" <=> j <= m
    <3>1. \A j \in JobIds : j \in NewJobs(c) \/ j < id <=> j <= m
      BY <2>1, <2>2, <2>3, <2>9 DEF JobIds
    <3>. QED  BY <2>7, <3>1
  <2>. QED  BY <2>6, <2>10 DEF JobTypes
<1>4. CASE GoesDown
  <2>1. 0 \in 0..MaxJobs /\ \A j \in JobIds : ~(j <= 0)
    BY JobBounds DEF JobIds
  <2>2. status' = NoJobs /\ game' = NoGames
    BY <1>4 DEF GoesDown
  <2>. QED  BY <2>1, <2>2 DEF JobTypes, NoJobs, NoGames
<1>5. CASE ComesUp
  <2>1. PICK n \in Nat : \E s \in [1..n -> Recoverable] :
          /\ n <= MaxJobs
          /\ status' = [j \in JobIds |-> IF j <= n THEN "queued" ELSE "absent"]
          /\ game' = [j \in JobIds |-> IF j <= n THEN s[j] ELSE "none"]
    BY <1>5 DEF ComesUp
  <2>2. PICK s \in [1..n -> Recoverable] :
          /\ n <= MaxJobs
          /\ status' = [j \in JobIds |-> IF j <= n THEN "queued" ELSE "absent"]
          /\ game' = [j \in JobIds |-> IF j <= n THEN s[j] ELSE "none"]
    BY <2>1
  <2>3. n \in 0..MaxJobs /\ \A j \in JobIds : j <= n => j \in 1..n
    BY <2>2, JobBounds DEF JobIds
  <2>4. \A k \in 1..n : s[k] \in Games
    BY DEF Recoverable
  <2>5. /\ status' \in [JobIds -> JobStates \cup {"absent"}]
        /\ game' \in [JobIds -> Games \cup {"none"}]
        /\ \A j \in JobIds : status'[j] # "absent" => game'[j] \in Games
    BY <2>2, <2>3, <2>4 DEF JobStates
  <2>6. \A j \in JobIds : status'[j] # "absent" <=> j <= n
    BY <2>2
  <2>. QED  BY <2>3, <2>5, <2>6 DEF JobTypes
<1>. QED  BY <1>1, <1>2, <1>3, <1>4, <1>5 DEF ShapedElsewhere

LEMMA QueueKept ==
  ASSUME CoreInv, NEW w \in Workers, ShapedStep(w)
  PROVE  QueueInv'
<1>1. status \in [JobIds -> JobStates \cup {"absent"}]
  BY DEF CoreInv, JobTypes
<1>2. /\ Lined(queues)
      /\ \A j \in JobsWaiting(queues) : status[j] \in {"queued", "cancelled"}
      /\ \A j \in JobIds : status[j] = "queued" => j \in JobsWaiting(queues)
  BY DEF CoreInv, QueueInv
<1>3. Executing(w) => Mine(w) \in JobIds /\ status[Mine(w)] = "running"
  BY DEF CoreInv, WorkerTypes, RunInv, Executing
<1>4. CASE Moves(w)
  BY <1>2, <1>4 DEF Moves, QueueInv
<1>5. ASSUME NEW p \in Priorities, Pops(p)
      PROVE  /\ Lined(queues') /\ Head(queues[p]).job \in JobIds
             /\ JobsWaiting(queues') = JobsWaiting(queues) \ {Head(queues[p]).job}
  BY <1>2, <1>5, LinedPopped DEF Pops, JobTask
<1>6. CASE Drops(w)
  BY <1>2, <1>5, <1>6 DEF Drops, QueueInv
<1>7. CASE TakesUp(w)
  BY <1>1, <1>2, <1>5, <1>7 DEF TakesUp, QueueInv
<1>8. CASE PutsBack(w)
  <2>1. PICK t \in JobTask :
          /\ Executing(w) /\ t.job = Mine(w)
          /\ status' = [status EXCEPT ![t.job] = "queued"]
          /\ queues' = [queues EXCEPT ![t.priority] = Append(@, t)]
    BY <1>8 DEF PutsBack
  <2>2. t.job \in JobIds /\ t.job \notin JobsWaiting(queues)
    BY <1>2, <1>3, <2>1
  <2>3. Lined(queues') /\ JobsWaiting(queues') = JobsWaiting(queues) \cup {t.job}
    BY <1>2, <2>1, <2>2, LinedAppended
  <2>. DEFINE k == t.job
  <2>4. status'[k] = "queued" /\ \A j \in JobIds \ {k} : status'[j] = status[j]
    BY <1>1, <2>1, <2>2
  <2>5. k \in JobIds /\ JobsWaiting(queues') = JobsWaiting(queues) \cup {k}
    BY <2>2, <2>3
  <2>6. JobsWaiting(queues) \subseteq JobIds
    BY <1>2, WaitingAreJobs
  <2>. HIDE DEF k
  <2>7. \A j \in JobsWaiting(queues') : status'[j] \in {"queued", "cancelled"}
    BY <1>2, <2>4, <2>5, <2>6
  <2>8. \A j \in JobIds : status'[j] = "queued" => j \in JobsWaiting(queues')
    BY <1>2, <2>4, <2>5
  <2>. QED  BY <2>3, <2>7, <2>8 DEF QueueInv
<1>9. CASE Ends(w)
  <2>1. Mine(w) \notin JobsWaiting(queues)
    BY <1>2, <1>3, <1>9 DEF Ends
  <2>. QED  BY <1>1, <1>2, <1>3, <1>9, <2>1 DEF Ends, QueueInv, Terminal
<1>. QED  BY <1>4, <1>6, <1>7, <1>8, <1>9 DEF ShapedStep

LEMMA QueueKeptElsewhere ==
  ASSUME CoreInv, ShapedElsewhere
  PROVE  QueueInv'
<1>1. status \in [JobIds -> JobStates \cup {"absent"}]
  BY DEF CoreInv, JobTypes
<1>2. /\ Lined(queues)
      /\ \A j \in JobsWaiting(queues) : status[j] \in {"queued", "cancelled"}
      /\ \A j \in JobIds : status[j] = "queued" => j \in JobsWaiting(queues)
  BY DEF CoreInv, QueueInv
<1>3. CASE Quiet \/ Promotes
  BY <1>2, <1>3 DEF Quiet, Promotes, QueueInv
<1>4. ASSUME NEW j \in JobIds, Cancels(j)
      PROVE  QueueInv'
  BY <1>1, <1>2, <1>4 DEF Cancels, QueueInv, Unfinished
<1>5. ASSUME NEW c \in Clients, Admits(c)
      PROVE  QueueInv'
  <2>1. /\ NewJobs(c) \subseteq {j \in JobIds : status[j] = "absent"}
        /\ status' = [j \in JobIds |->
             IF j \in NewJobs(c) THEN FirstState(FreshOf(c, j)) ELSE status[j]]
        /\ Lined(queues')
        /\ JobsWaiting(queues') =
             JobsWaiting(queues) \cup {j \in NewJobs(c) : FreshOf(c, j).has # "analysis"}
    BY <1>5 DEF Admits
  <2>2. \A j \in JobsWaiting(queues) : j \in JobIds /\ j \notin NewJobs(c)
    <3>1. JobsWaiting(queues) \subseteq JobIds
      BY <1>2, WaitingAreJobs
    <3>. QED  BY <1>2, <2>1, <3>1
  <2>3. \A j \in NewJobs(c) :
          status'[j] = IF FreshOf(c, j).has # "analysis" THEN "queued" ELSE "complete"
    BY <2>1 DEF FirstState
  <2>4. \A j \in JobIds \ NewJobs(c) : status'[j] = status[j]
    BY <2>1
  <2>5. \A j \in JobsWaiting(queues') : status'[j] \in {"queued", "cancelled"}
    BY <1>2, <2>1, <2>2, <2>3, <2>4
  <2>6. ASSUME NEW j \in JobIds, status'[j] = "queued" PROVE j \in JobsWaiting(queues')
    <3>1. CASE j \in NewJobs(c)
      BY <2>1, <2>3, <2>6, <3>1
    <3>2. CASE j \notin NewJobs(c)
      BY <1>2, <2>1, <2>4, <2>6, <3>2
    <3>. QED  BY <3>1, <3>2
  <2>. QED  BY <2>1, <2>5, <2>6 DEF QueueInv
<1>6. CASE GoesDown
  BY <1>6, NoneWaiting DEF GoesDown, QueueInv, NoJobs
<1>7. CASE ComesUp
  <2>1. PICK n \in Nat :
          /\ n <= MaxJobs
          /\ status' = [j \in JobIds |-> IF j <= n THEN "queued" ELSE "absent"]
          /\ Lined(queues') /\ JobsWaiting(queues') = 1..n
    BY <1>7 DEF ComesUp
  <2>2. \A j \in 1..n : j \in JobIds /\ j <= n
    BY <2>1, JobBounds DEF JobIds
  <2>3. \A j \in JobIds : j <= n => j \in 1..n
    BY JobBounds DEF JobIds
  <2>. DEFINE S == 1..n
  <2>4. /\ Lined(queues') /\ JobsWaiting(queues') = S
        /\ \A j \in S : status'[j] = "queued"
        /\ \A j \in JobIds : status'[j] = "queued" => j \in S
    BY <2>1, <2>2, <2>3
  <2>. HIDE DEF S
  <2>. QED  BY <2>4 DEF QueueInv
<1>. QED  BY <1>3, <1>4, <1>5, <1>6, <1>7 DEF ShapedElsewhere

LEMMA RunsKept ==
  ASSUME CoreInv, NEW w \in Workers, ShapedStep(w)
  PROVE  RunInv'
<1>1. status \in [JobIds -> JobStates \cup {"absent"}]
  BY DEF CoreInv, JobTypes
<1>2. /\ \A j \in JobIds : status[j] = "running" => \E v \in Workers : Executing(v) /\ Mine(v) = j
      /\ \A v \in Workers : Executing(v) => status[Mine(v)] = "running" /\ Mine(v) \in JobIds
      /\ \A u, v \in Workers : Executing(u) /\ Executing(v) /\ Mine(u) = Mine(v) => u = v
  BY DEF CoreInv, RunInv, WorkerTypes, Executing
<1>3. \A v \in Workers \ {w} : (Executing(v)' <=> Executing(v)) /\ Mine(v)' = Mine(v)
  BY DEF ShapedStep, OthersStay, Executing, Mine
<1>. SUFFICES
       /\ \A j \in JobIds : status'[j] = "running" =>
            \E v \in Workers : Executing(v)' /\ Mine(v)' = j
       /\ \A v \in Workers : Executing(v)' => status'[Mine(v)'] = "running"
       /\ \A u, v \in Workers : Executing(u)' /\ Executing(v)' /\ Mine(u)' = Mine(v)' => u = v
  BY DEF RunInv
<1>4. CASE Moves(w) \/ Drops(w)
  <2>1. /\ UNCHANGED status
        /\ \A v \in Workers : (Executing(v)' <=> Executing(v)) /\ (Executing(v) => Mine(v)' = Mine(v))
    BY <1>3, <1>4 DEF Moves, Drops, Executing, Mine
  <2>. QED  BY <1>2, <2>1
<1>5. CASE TakesUp(w)
  <2>. DEFINE k == Mine(w)'
  <2>1. /\ k \in JobIds /\ status[k] = "queued"
        /\ status' = [status EXCEPT ![k] = "running"] /\ Executing(w)' /\ ~Executing(w)
    <3>1. PICK p \in Priorities :
            /\ Pops(p) /\ status[Head(queues[p]).job] # "cancelled"
            /\ ~Executing(w) /\ Executing(w)' /\ task'[w] = Head(queues[p])
            /\ status' = [status EXCEPT ![Head(queues[p]).job] = "running"]
      BY <1>5 DEF TakesUp
    <3>2. Head(queues[p]) \in JobTask /\ Head(queues[p]).job \in JobsWaiting(queues)
      BY <3>1, LinedPopped DEF Pops, CoreInv, QueueInv
    <3>. QED  BY <3>1, <3>2 DEF CoreInv, QueueInv, JobTask, Mine
  <2>. HIDE DEF k
  <2>2. \A v \in Workers \ {w} : Executing(v) => Mine(v) # k
    BY <1>2, <2>1
  <2>3. Mine(w)' = k
    BY DEF k
  <2>. QED  BY <1>1, <1>2, <1>3, <2>1, <2>2, <2>3
<1>6. CASE PutsBack(w) \/ Ends(w)
  <2>1. PICK x \in Terminal \cup {"queued"} :
          /\ Executing(w) /\ ~Executing(w)'
          /\ status' = [status EXCEPT ![Mine(w)] = x]
    BY <1>6 DEF PutsBack, Ends
  <2>2. x # "running"
    BY DEF Terminal
  <2>. QED  BY <1>1, <1>2, <1>3, <2>1, <2>2
<1>. QED  BY <1>4, <1>5, <1>6 DEF ShapedStep

LEMMA RunsKeptElsewhere ==
  ASSUME CoreInv, ShapedElsewhere
  PROVE  RunInv'
<1>1. status \in [JobIds -> JobStates \cup {"absent"}]
  BY DEF CoreInv, JobTypes
<1>2. /\ \A j \in JobIds : status[j] = "running" => \E v \in Workers : Executing(v) /\ Mine(v) = j
      /\ \A v \in Workers : Executing(v) => status[Mine(v)] = "running" /\ Mine(v) \in JobIds
      /\ \A u, v \in Workers : Executing(u) /\ Executing(v) /\ Mine(u) = Mine(v) => u = v
  BY DEF CoreInv, RunInv, WorkerTypes, Executing
<1>3. ASSUME UNCHANGED <<pc, task>>,
             \A j \in JobIds : status'[j] = "running" <=> status[j] = "running"
      PROVE  RunInv'
  <2>1. \A v \in Workers : (Executing(v)' <=> Executing(v)) /\ Mine(v)' = Mine(v)
    BY <1>3 DEF Executing, Mine
  <2>. QED  BY <1>2, <1>3, <2>1 DEF RunInv
<1>4. ASSUME \A v \in Workers : ~Executing(v)', \A j \in JobIds : status'[j] # "running"
      PROVE  RunInv'
  BY <1>4 DEF RunInv
<1>5. CASE Quiet \/ Promotes
  BY <1>3, <1>5 DEF Quiet, Promotes
<1>6. ASSUME NEW j \in JobIds, Cancels(j)
      PROVE  RunInv'
  BY <1>1, <1>3, <1>6 DEF Cancels
<1>7. ASSUME NEW c \in Clients, Admits(c)
      PROVE  RunInv'
  <2>1. \A j \in JobIds : status'[j] = "running" <=> status[j] = "running"
    BY <1>1, <1>7 DEF Admits, FirstState
  <2>. QED  BY <1>3, <1>7, <2>1 DEF Admits
<1>8. CASE GoesDown
  <2>1. \A v \in Workers : ~Executing(v)'
    BY <1>8 DEF GoesDown, Executing
  <2>. QED  BY <1>4, <1>8, <2>1 DEF GoesDown, NoJobs
<1>9. CASE ComesUp
  <2>1. \A v \in Workers : ~Executing(v)'
    BY <1>9 DEF ComesUp, Executing
  <2>2. \A j \in JobIds : status'[j] # "running"
    BY <1>9 DEF ComesUp
  <2>. QED  BY <1>4, <2>1, <2>2
<1>. QED  BY <1>5, <1>6, <1>7, <1>8, <1>9 DEF ShapedElsewhere

-----------------------------------------------------------------------------
(* The types are kept.                                                        *)

LEMMA WorkerTypesKept ==
  ASSUME CoreInv, NEW w \in Workers, WorkerStep(w)
  PROVE  WorkerTypes'
<1>. DEFINE Free == {"idle", "exited"}
            Fine(p, t, s, st) ==
              /\ p \in Places /\ t \in Task /\ s \in JobStates \cup {"absent"}
              /\ p \notin Free => t.job \in JobIds /\ st[t.job] # "absent"
              /\ p = "recording" => s # "absent"
<1>1. /\ pc \in [Workers -> Places] /\ task \in [Workers -> Task]
      /\ seen \in [Workers -> JobStates \cup {"absent"}]
      /\ \A v \in Workers : Fine(pc[v], task[v], seen[v], status)
  BY DEF CoreInv, WorkerTypes, Mine
<1>2. ShapedStep(w)
  BY WorkerShapes
<1>3. \A j \in JobIds : status'[j] = "absent" <=> status[j] = "absent"
  BY <1>2, JobsKept
<1>4. /\ pc' = [pc EXCEPT ![w] = pc'[w]] /\ task' = [task EXCEPT ![w] = task'[w]]
      /\ seen' = [seen EXCEPT ![w] = seen'[w]]
  BY <1>1, Zenon DEF WorkerStep, Take, Begin, Analyze, SaveShallow, HandOver, RecordQueued,
     SaveAnalysis, SaveFails, Complete, CatchCancelled, CatchPreempted, CatchRetry, CatchFailed,
     FinishTask, Reread, RecordFinal, Exit, Goto, KeepManager, Requeue, Settle
<1>5. \A v \in Workers : Fine(pc[v], task[v], seen[v], status')
  BY <1>1, <1>3
<1>6. ASSUME Fine(pc'[w], task'[w], seen'[w], status')
      PROVE  WorkerTypes'
  <2>. HIDE DEF Fine
  <2>1. \A v \in Workers : Fine(pc'[v], task'[v], seen'[v], status')
    BY <1>1, <1>4, <1>5, <1>6
  <2>2. \A v \in Workers : pc'[v] \in Places /\ task'[v] \in Task /\ seen'[v] \in JobStates \cup {"absent"}
    BY <2>1 DEF Fine
  <2>3. /\ pc' \in [Workers -> Places] /\ task' \in [Workers -> Task]
        /\ seen' \in [Workers -> JobStates \cup {"absent"}]
    BY <1>1, <1>4, <2>2
  <2>. QED  BY <2>1, <2>3 DEF WorkerTypes, Mine, Fine
<1>7. CASE Take(w)
  <2>1. PICK p \in Runnable :
         LET t == Head(queues[p]) IN
         IF Dropped(t)
         THEN UNCHANGED <<status, registry, activeBy, pc, task>>
         ELSE /\ status' = [status EXCEPT ![t.job] = "running"]
              /\ task' = [task EXCEPT ![w] = t]
              /\ Goto(w, "starting")
    BY <1>7 DEF Take
  <2>2. pc[w] = "idle" /\ UNCHANGED seen
    BY <1>7 DEF Take
  <2>3. CASE Dropped(Head(queues[p]))
    BY <1>5, <1>6, <2>1, <2>2, <2>3
  <2>4. CASE ~Dropped(Head(queues[p]))
    <3>. DEFINE t == Head(queues[p])
    <3>1. t \in JobTask /\ t.job \in JobsWaiting(queues)
      BY LinedPopped DEF Runnable, CoreInv, QueueInv
    <3>2. t \in Task /\ t.job \in JobIds
      BY <3>1, JobBounds DEF JobTask, Task, JobIds
    <3>3. task'[w] = t /\ pc'[w] = "starting" /\ seen'[w] = seen[w]
      BY <1>1, <2>1, <2>2, <2>4 DEF Goto
    <3>4. status[t.job] # "absent"
      BY <3>1 DEF CoreInv, QueueInv
    <3>. HIDE DEF t
    <3>. QED  BY <1>1, <1>3, <1>6, <3>2, <3>3, <3>4 DEF Places
  <2>. QED  BY <2>3, <2>4
<1>8. CASE \/ Begin(w) \/ Analyze(w) \/ SaveShallow(w) \/ SaveAnalysis(w) \/ SaveFails(w)
           \/ HandOver(w) \/ RecordQueued(w) \/ Complete(w) \/ CatchCancelled(w)
           \/ CatchPreempted(w) \/ CatchRetry(w) \/ CatchFailed(w) \/ Exit(w)
  <2>1. UNCHANGED <<task, seen>>
    BY <1>8 DEF Begin, Analyze, SaveShallow, HandOver, RecordQueued, SaveAnalysis, SaveFails,
       Complete, CatchCancelled, CatchPreempted, CatchRetry, CatchFailed, Exit, KeepManager,
       Requeue, Settle
  <2>2. PICK place \in Places \ {"recording"} : Goto(w, place)
    BY <1>8 DEF Begin, Analyze, SaveShallow, HandOver, RecordQueued, SaveAnalysis, SaveFails,
       Complete, CatchCancelled, CatchPreempted, CatchRetry, CatchFailed, Exit, Places,
       Requeue, Settle
  <2>3. pc[w] \notin Free \/ place \in Free
    BY <1>1, <1>8, <2>2 DEF Begin, Analyze, SaveShallow, HandOver, RecordQueued, SaveAnalysis,
       SaveFails, Complete, CatchCancelled, CatchPreempted, CatchRetry, CatchFailed, Exit,
       Thrown, Goto
  <2>4. pc'[w] = place
    BY <1>1, <2>2 DEF Goto
  <2>. QED  BY <1>5, <1>6, <2>1, <2>3, <2>4
<1>9. CASE FinishTask(w)
  <2>1. /\ pc[w] \in {"finishing", "leaving"} /\ UNCHANGED seen
        /\ \/ pc'[w] = "idle" /\ task'[w] = NoTask
           \/ pc'[w] = "reporting" /\ task'[w] = [NoTask EXCEPT !.job = Mine(w)]
    BY <1>1, <1>9, Zenon DEF FinishTask, Goto
  <2>2. Mine(w) \in JobIds /\ status'[Mine(w)] # "absent"
    BY <1>5, <2>1 DEF Mine
  <2>3. NoTask \in Task
    BY JobBounds DEF NoTask, NewTask, Task, Tokens, Priorities
  <2>4. /\ [NoTask EXCEPT !.job = Mine(w)] \in Task
        /\ [NoTask EXCEPT !.job = Mine(w)].job = Mine(w)
    BY <2>2, <2>3, JobBounds DEF Task, JobIds
  <2>. QED  BY <1>5, <1>6, <2>1, <2>2, <2>3, <2>4 DEF Places
<1>10. CASE Reread(w)
  <2>1. /\ pc[w] = "reporting" /\ pc'[w] = "recording" /\ seen'[w] = status[Mine(w)]
        /\ UNCHANGED task
    BY <1>1, <1>10 DEF Reread, Goto
  <2>2. status[Mine(w)] \in JobStates \cup {"absent"} /\ status[Mine(w)] # "absent"
    BY <1>1, <2>1 DEF CoreInv, JobTypes, Mine
  <2>. QED  BY <1>5, <1>6, <2>1, <2>2 DEF Places
<1>11. CASE RecordFinal(w)
  <2>1. pc'[w] = "idle" /\ task'[w] = NoTask /\ seen'[w] = "absent"
    BY <1>1, <1>11 DEF RecordFinal, Goto
  <2>2. NoTask \in Task
    BY JobBounds DEF NoTask, NewTask, Task, Tokens, Priorities
  <2>. QED  BY <1>6, <2>1, <2>2 DEF Places
<1>. QED  BY <1>7, <1>8, <1>9, <1>10, <1>11 DEF WorkerStep

LEMMA ReadInputs ==
  ASSUME stored \in [Games -> Contents], NEW n \in Nat, NEW s \in [1..n -> Games],
         \A i, k \in 1..n : s[i] = s[k] => i = k
  PROVE  /\ Read(s) \in Seq(Input) /\ Len(Read(s)) = n /\ OncePerGame(Read(s))
         /\ \A i \in 1..n : Read(s)[i].has = stored[Read(s)[i].game]
<1>1. DOMAIN s = 1..n
  OBVIOUS
<1>2. Read(s) = [i \in 1..n |-> [game |-> s[i], has |-> stored[s[i]]]]
  BY <1>1 DEF Read
<1>3. \A i \in 1..n : Read(s)[i] \in Input /\ Read(s)[i].game = s[i] /\ Read(s)[i].has = stored[s[i]]
  BY <1>2 DEF Input
<1>4. Read(s) \in Seq(Input) /\ Len(Read(s)) = n /\ DOMAIN Read(s) = 1..n
  BY <1>2, <1>3
<1>. QED  BY <1>3, <1>4 DEF OncePerGame

(* What a call begins with, and what it leaves to be recorded.                *)
LEMMA BegunInputs ==
  ASSUME CoreInv, NEW c \in Clients, BeginStart(c)
  PROVE  \E s \in Seq(Input), p \in Priorities :
           /\ inputs' = [inputs EXCEPT ![c] = s] /\ wanted' = [wanted EXCEPT ![c] = p]
           /\ OncePerGame(s) /\ (p # Historical => Len(s) = 1)
           /\ \A i \in DOMAIN s : s[i].has = stored[s[i].game]
<1>1. stored \in [Games -> Contents]
  BY DEF CoreInv, OtherTypes
<1>2. ASSUME NEW g \in Games, NEW p \in Asked,
             inputs' = [inputs EXCEPT ![c] = Read(<<g>>)], wanted' = [wanted EXCEPT ![c] = p]
      PROVE  \E s \in Seq(Input), q \in Priorities :
               /\ inputs' = [inputs EXCEPT ![c] = s] /\ wanted' = [wanted EXCEPT ![c] = q]
               /\ OncePerGame(s) /\ (q # Historical => Len(s) = 1)
               /\ \A i \in DOMAIN s : s[i].has = stored[s[i].game]
  <2>. DEFINE r == <<g>>  n == 1
  <2>1. n \in Nat /\ r \in [1..n -> Games] /\ \A i, k \in 1..n : r[i] = r[k] => i = k
    OBVIOUS
  <2>. HIDE DEF r, n
  <2>2. /\ Read(r) \in Seq(Input) /\ Len(Read(r)) = n /\ OncePerGame(Read(r))
        /\ \A i \in 1..n : Read(r)[i].has = stored[Read(r)[i].game]
    BY <1>1, <2>1, ReadInputs
  <2>3. DOMAIN Read(r) = 1..n /\ Len(Read(r)) = 1
    BY <2>2 DEF n
  <2>4. p \in Priorities
    BY JobBounds DEF Priorities
  <2>5. inputs' = [inputs EXCEPT ![c] = Read(r)]
    BY <1>2 DEF r
  <2>. QED  BY <1>2, <2>2, <2>3, <2>4, <2>5
<1>3. ASSUME NEW G \in SUBSET Games, NEW r \in Orders(G),
             inputs' = [inputs EXCEPT ![c] = Read(r)],
             wanted' = [wanted EXCEPT ![c] = Historical]
      PROVE  \E s \in Seq(Input), q \in Priorities :
               /\ inputs' = [inputs EXCEPT ![c] = s] /\ wanted' = [wanted EXCEPT ![c] = q]
               /\ OncePerGame(s) /\ (q # Historical => Len(s) = 1)
               /\ \A i \in DOMAIN s : s[i].has = stored[s[i].game]
  <2>. DEFINE n == Cardinality(G)
  <2>1. n \in Nat
    BY JobBounds, FS_Subset, FS_CardinalityType
  <2>2. r \in [1..n -> Games] /\ \A i, k \in 1..n : r[i] = r[k] => i = k
    BY DEF Orders
  <2>. HIDE DEF n
  <2>3. /\ Read(r) \in Seq(Input) /\ Len(Read(r)) = n /\ OncePerGame(Read(r))
        /\ \A i \in 1..n : Read(r)[i].has = stored[Read(r)[i].game]
    BY <1>1, <2>1, <2>2, ReadInputs
  <2>4. DOMAIN Read(r) = 1..n
    BY <2>3
  <2>5. Historical \in Priorities
    BY DEF Historical, Priorities
  <2>. QED  BY <1>3, <2>3, <2>4, <2>5
<1>. QED  BY <1>2, <1>3 DEF BeginStart

LEMMA NotesOfCall ==
  ASSUME CoreInv, NEW c \in Clients, Admit(c)
  PROVE  \E s \in Seq(Note) :
           /\ todo' = [todo EXCEPT ![c] = s]
           /\ EndCall(c, IF s = <<>> THEN "none" ELSE "recording")
<1>. DEFINE f == Fresh(c)
            first(x) == IF x.has = "analysis" THEN "complete" ELSE "queued"
            s == [k \in DOMAIN f |-> [game |-> f[k].game, state |-> first(f[k])]]
<1>1. f \in Seq(Input)
  BY FreshInputs DEF CoreInv, ClientTypes
<1>2. todo' = [todo EXCEPT ![c] = s] /\ EndCall(c, IF f = <<>> THEN "none" ELSE "recording")
  BY DEF Admit
<1>. HIDE DEF f
<1>3. \A k \in DOMAIN f : f[k] \in Input /\ first(f[k]) \in JobStates
  BY <1>1 DEF JobStates, Terminal
<1>4. \A k \in DOMAIN f : s[k] \in Note
  BY <1>3 DEF Input, Note
<1>5. s \in Seq(Note) /\ Len(s) = Len(f)
  BY <1>1, <1>4
<1>6. s = <<>> <=> f = <<>>
  BY <1>1, <1>5, EmptySeq
<1>. QED  BY <1>2, <1>5, <1>6

LEMMA ClientTypesKept ==
  ASSUME CoreInv, [Next]_vars
  PROVE  ClientTypes'
<1>. DEFINE Calls == {"none", "starting", "recording", "pausing", "resuming"}
            Fine(l, i, p, n) ==
              /\ l \in Calls /\ i \in Seq(Input) /\ p \in Priorities /\ n \in Seq(Note)
              /\ OncePerGame(i) /\ (l = "recording" => n # <<>>)
<1>1. /\ call \in [Clients -> Calls] /\ inputs \in [Clients -> Seq(Input)]
      /\ wanted \in [Clients -> Priorities] /\ todo \in [Clients -> Seq(Note)]
      /\ \A c \in Clients : Fine(call[c], inputs[c], wanted[c], todo[c])
  BY DEF CoreInv, ClientTypes
<1>2. CASE UNCHANGED clientVars
  <2>1. UNCHANGED <<call, inputs, wanted, todo>>
    BY <1>2 DEF clientVars
  <2>. QED  BY <2>1 DEF CoreInv, ClientTypes
<1>3. ASSUME NEW c \in Clients, NEW l, NEW i, NEW p, NEW n, Fine(l, i, p, n),
             call' = [call EXCEPT ![c] = l], inputs' = [inputs EXCEPT ![c] = i],
             wanted' = [wanted EXCEPT ![c] = p], todo' = [todo EXCEPT ![c] = n]
      PROVE  ClientTypes'
  <2>1. \A d \in Clients : Fine(call'[d], inputs'[d], wanted'[d], todo'[d])
    <3>. HIDE DEF Fine
    <3>. QED  BY <1>1, <1>3
  <2>2. /\ call' \in [Clients -> Calls] /\ inputs' \in [Clients -> Seq(Input)]
        /\ wanted' \in [Clients -> Priorities] /\ todo' \in [Clients -> Seq(Note)]
    BY <1>1, <1>3
  <2>. QED  BY <2>1, <2>2 DEF ClientTypes
<1>5. /\ Historical \in Priorities /\ <<>> \in Seq(Input) /\ <<>> \in Seq(Note)
      /\ OncePerGame(<<>>)
  BY DEF Historical, Priorities, OncePerGame
<1>6. ASSUME NEW c \in Clients, BeginStart(c)
      PROVE  ClientTypes'
  <2>1. PICK s \in Seq(Input), p \in Priorities :
           /\ inputs' = [inputs EXCEPT ![c] = s] /\ wanted' = [wanted EXCEPT ![c] = p]
           /\ OncePerGame(s)
    BY <1>6, BegunInputs
  <2>2. call' = [call EXCEPT ![c] = "starting"] /\ todo' = [todo EXCEPT ![c] = todo[c]]
    BY <1>1, <1>6 DEF BeginStart
  <2>3. Fine("starting", s, p, todo[c])
    BY <1>1, <2>1
  <2>. QED  BY <1>3, <2>1, <2>2, <2>3
<1>7. ASSUME NEW c \in Clients, Admit(c)
      PROVE  ClientTypes'
  <2>1. PICK s \in Seq(Note) :
           /\ todo' = [todo EXCEPT ![c] = s]
           /\ EndCall(c, IF s = <<>> THEN "none" ELSE "recording")
    BY <1>7, NotesOfCall
  <2>2. Fine(IF s = <<>> THEN "none" ELSE "recording", <<>>, Historical, s)
    BY <1>5
  <2>. QED  BY <1>3, <2>1, <2>2 DEF EndCall
<1>8. ASSUME NEW c \in Clients, Refuse(c) \/ OutOfNames(c)
      PROVE  ClientTypes'
  <2>1. EndCall(c, "none") /\ todo' = [todo EXCEPT ![c] = todo[c]]
    BY <1>1, <1>8 DEF Refuse, OutOfNames
  <2>2. Fine("none", <<>>, Historical, todo[c])
    BY <1>1, <1>5
  <2>. QED  BY <1>3, <2>1, <2>2 DEF EndCall
<1>9. ASSUME NEW c \in Clients, NEW j \in JobIds, Cancel(c, j)
      PROVE  ClientTypes'
  <2>. DEFINE n == [game |-> game[j], state |-> IF status[j] = "queued" THEN "cancelled" ELSE status[j]]
  <2>1. n \in Note
    BY <1>9 DEF CoreInv, JobTypes, Cancel, Note, JobStates, Terminal, Unfinished
  <2>2. /\ call' = [call EXCEPT ![c] = "recording"] /\ todo' = [todo EXCEPT ![c] = <<n>>]
        /\ inputs' = [inputs EXCEPT ![c] = inputs[c]]
        /\ wanted' = [wanted EXCEPT ![c] = wanted[c]]
    BY <1>1, <1>9 DEF Cancel
  <2>. HIDE DEF n
  <2>3. <<n>> \in Seq(Note) /\ <<n>> # <<>>
    BY <2>1
  <2>4. Fine("recording", inputs[c], wanted[c], <<n>>)
    BY <1>1, <2>3
  <2>. QED  BY <1>3, <2>2, <2>4
<1>10. ASSUME NEW c \in Clients, Record(c)
       PROVE  ClientTypes'
  <2>. DEFINE l == IF Len(todo[c]) = 1 THEN "none" ELSE call[c]
              n == Tail(todo[c])
  <2>1. /\ call' = [call EXCEPT ![c] = l] /\ todo' = [todo EXCEPT ![c] = n]
        /\ inputs' = [inputs EXCEPT ![c] = inputs[c]]
        /\ wanted' = [wanted EXCEPT ![c] = wanted[c]]
    BY <1>1, <1>10 DEF Record
  <2>2. todo[c] # <<>> /\ todo[c] \in Seq(Note) /\ call[c] = "recording"
    BY <1>1, <1>10 DEF Record
  <2>3. n \in Seq(Note) /\ (n = <<>> => Len(todo[c]) = 1)
    <3>. DEFINE s == todo[c]
    <3>. HIDE DEF s
    <3>1. s \in Seq(Note) /\ s # <<>>
      BY <2>2 DEF s
    <3>2. Tail(s) \in Seq(Note) /\ Len(Tail(s)) = Len(s) - 1
      BY <3>1, HeadTailProperties
    <3>3. Tail(s) = <<>> => Len(Tail(s)) = 0
      BY NoTasks, Zenon
    <3>4. Len(s) \in Nat
      BY <3>1
    <3>5. Tail(s) = <<>> => Len(s) = 1
      BY <3>2, <3>3, <3>4
    <3>. QED  BY <3>2, <3>5 DEF s
  <2>. HIDE DEF n
  <2>4. Fine(l, inputs[c], wanted[c], n)
    BY <1>1, <2>2, <2>3
  <2>. HIDE DEF l
  <2>. QED  BY <1>3, <2>1, <2>4
<1>11. ASSUME NEW c \in Clients, SavePaused(c) \/ \E on \in BOOLEAN : SetPaused(c, on)
       PROVE  ClientTypes'
  <2>1. PICK l \in Calls \ {"recording"} :
          /\ call' = [call EXCEPT ![c] = l] /\ todo' = [todo EXCEPT ![c] = todo[c]]
          /\ inputs' = [inputs EXCEPT ![c] = inputs[c]]
          /\ wanted' = [wanted EXCEPT ![c] = wanted[c]]
    BY <1>1, <1>11 DEF SavePaused, SetPaused
  <2>2. Fine(l, inputs[c], wanted[c], todo[c])
    BY <1>1
  <2>. QED  BY <1>3, <2>1, <2>2
<1>12. ASSUME NEW w \in Workers, WorkerStep(w)
       PROVE  ClientTypes'
  <2>1. UNCHANGED clientVars
    BY <1>12, Zenon DEF WorkerStep, Take, Begin, Analyze, SaveShallow, HandOver, RecordQueued,
       SaveAnalysis, SaveFails, Complete, CatchCancelled, CatchPreempted, CatchRetry,
       CatchFailed, FinishTask, Reread, RecordFinal, Exit, KeepManager, Requeue, Settle
  <2>. QED  BY <1>2, <2>1
<1>13. CASE Join \/ Crash \/ Restart
  <2>1. Forget
    BY <1>13 DEF Join, Crash, Down, Restart
  <2>2. /\ call' = [c \in Clients |-> "none"] /\ inputs' = [c \in Clients |-> <<>>]
        /\ wanted' = [c \in Clients |-> Historical] /\ todo' = [c \in Clients |-> <<>>]
    BY <2>1 DEF Forget
  <2>3. /\ call' \in [Clients -> Calls] /\ inputs' \in [Clients -> Seq(Input)]
        /\ wanted' \in [Clients -> Priorities] /\ todo' \in [Clients -> Seq(Note)]
        /\ \A c \in Clients : inputs'[c] = <<>> /\ call'[c] # "recording"
    BY <1>5, <2>2
  <2>. QED  BY <1>5, <2>3 DEF ClientTypes
<1>14. CASE Close \/ RestartRefused
  BY <1>2, <1>14 DEF Close, RestartRefused
<1>15. CASE UNCHANGED vars
  BY <1>2, <1>15 DEF vars, clientVars
<1>. QED
  BY <1>6, <1>7, <1>8, <1>9, <1>10, <1>11, <1>12, <1>13, <1>14, <1>15 DEF Next, ClientStep

(* The tokens of running jobs, by which admissions and cancels stop them.     *)
LEMMA TokensStopped ==
  ASSUME OtherTypes, NEW J \in SUBSET Active
  PROVE  TokensOf(J) \subseteq JobIds \X Tokens
<1>. SUFFICES ASSUME NEW j \in J PROVE <<j, registry[j].token>> \in JobIds \X Tokens
  BY DEF TokensOf
<1>1. j \in JobIds /\ registry[j] \in [priority : Priorities, token : Tokens]
  BY DEF Active, OtherTypes, Registration
<1>. QED  BY <1>1

LEMMA AllTokens ==
  ASSUME OtherTypes, NEW J, NEW p, NEW q
  PROVE  Halted(J, p) \cup Preempted(q, p) \cup TokensOf(Active) \cup TokensOf(J \cap Active)
           \subseteq JobIds \X Tokens
<1>1. Halted(J, p) \subseteq JobIds \X Tokens
  <2>1. {j \in J \cap Active : registry[j].priority > p} \in SUBSET Active
    OBVIOUS
  <2>. QED  BY <2>1, TokensStopped DEF Halted
<1>2. Preempted(q, p) \subseteq JobIds \X Tokens
  <2>1. {j \in Active : registry[j].priority = Historical} \in SUBSET Active
    OBVIOUS
  <2>. QED  BY <2>1, TokensStopped DEF Preempted
<1>3. TokensOf(Active) \subseteq JobIds \X Tokens /\ TokensOf(J \cap Active) \subseteq JobIds \X Tokens
  BY TokensStopped
<1>. QED  BY <1>1, <1>2, <1>3

LEMMA OtherTypesKept ==
  ASSUME CoreInv, NEW w \in Workers, WorkerStep(w)
  PROVE  OtherTypes'
<1>1. OtherTypes /\ WorkerTypes /\ JobTypes
  BY DEF CoreInv
<1>2. pc \in [Workers -> Places] /\ task \in [Workers -> Task]
  BY <1>1 DEF WorkerTypes
<1>3. pc[w] \notin {"idle", "exited"} => Mine(w) \in JobIds /\ MyGame(w) \in Games
  BY <1>1 DEF WorkerTypes, JobTypes, Mine, MyGame
<1>4. UNCHANGED <<jobStop, requested, paused, process, savedPause>>
  BY Zenon DEF WorkerStep, Take, Begin, Analyze, SaveShallow, HandOver, RecordQueued,
       SaveAnalysis, SaveFails, Complete, CatchCancelled, CatchPreempted, CatchRetry,
       CatchFailed, FinishTask, Reread, RecordFinal, Exit, KeepManager, Requeue, Settle,
       jobVars, schedVars, durableVars
<1>5. stopped' \subseteq stopped
  <2>1. \/ UNCHANGED stopped
        \/ \E x : stopped' = stopped \ {x}
        \/ stopped' = {x \in stopped : x \in HeldTokens'}
    BY Zenon DEF WorkerStep, Take, Begin, Analyze, SaveShallow, HandOver, RecordQueued,
       SaveAnalysis, SaveFails, Complete, CatchCancelled, CatchPreempted, CatchRetry,
       CatchFailed, FinishTask, Reread, RecordFinal, Exit, KeepManager, Requeue, Settle,
       jobVars, schedVars
  <2>. QED  BY <2>1
<1>6. registry' \in [JobIds -> Registration] /\ activeBy' \in [Priorities -> Int]
  <2>1. registry \in [JobIds -> Registration] /\ activeBy \in [Priorities -> Int]
    BY <1>1 DEF OtherTypes
  <2>2. CASE UNCHANGED <<registry, activeBy>>
    BY <2>1, <2>2
  <2>3. CASE Take(w)
    <3>1. PICK p \in Runnable :
         LET t == Head(queues[p]) IN
         IF Dropped(t)
         THEN UNCHANGED <<status, registry, activeBy, pc, task>>
         ELSE /\ registry' = [registry EXCEPT ![t.job] = [priority |-> p, token |-> t.token]]
              /\ activeBy' = [activeBy EXCEPT ![p] = @ + 1]
      BY <2>3 DEF Take
    <3>2. p \in Priorities /\ Head(queues[p]) \in JobTask
      BY LinedPopped DEF Runnable, CoreInv, QueueInv
    <3>3. [priority |-> p, token |-> Head(queues[p]).token] \in Registration
      BY <3>2 DEF JobTask, Registration
    <3>4. /\ UNCHANGED registry \/ \E j : \E r \in Registration : registry' = [registry EXCEPT ![j] = r]
          /\ UNCHANGED activeBy \/ activeBy' = [activeBy EXCEPT ![p] = @ + 1]
      BY <3>1, <3>3, Zenon
    <3>5. registry' \in [JobIds -> Registration]
      BY <2>1, <3>4
    <3>6. activeBy' \in [Priorities -> Int]
      BY <2>1, <3>2, <3>4
    <3>. QED  BY <3>5, <3>6
  <2>4. CASE FinishTask(w)
    <3>1. /\ registry' = [registry EXCEPT ![Mine(w)] = Unregistered]
          /\ activeBy' = [activeBy EXCEPT ![SlotTaken(w)] = @ - 1]
      BY <2>4 DEF FinishTask
    <3>2. SlotTaken(w) \in Priorities
      BY <1>2 DEF SlotTaken, Task
    <3>3. Unregistered \in Registration
      BY DEF Registration
    <3>4. registry' \in [JobIds -> Registration]
      BY <2>1, <3>1, <3>3
    <3>5. activeBy' \in [Priorities -> Int]
      <4>. DEFINE p == SlotTaken(w)
      <4>. HIDE DEF p
      <4>1. activeBy' = [activeBy EXCEPT ![p] = @ - 1] /\ p \in Priorities
        BY <3>1, <3>2 DEF p
      <4>. QED  BY <2>1, <4>1
    <3>. QED  BY <3>4, <3>5
  <2>. QED
    BY <2>2, <2>3, <2>4, Zenon DEF WorkerStep, Begin, Analyze, SaveShallow, HandOver,
       RecordQueued, SaveAnalysis, SaveFails, Complete, CatchCancelled, CatchPreempted, CatchRetry,
       CatchFailed, Reread, RecordFinal, Exit, KeepManager, Requeue, Settle, jobVars, schedVars
<1>7. stored' \in [Games -> Contents]
  <2>1. stored \in [Games -> Contents]
    BY <1>1 DEF OtherTypes
  <2>2. CASE UNCHANGED stored
    BY <2>1, <2>2
  <2>3. CASE SaveShallow(w) \/ SaveAnalysis(w) \/ SaveFails(w)
    <3>1. UNCHANGED stored \/ \E x \in Contents : stored' = [stored EXCEPT ![MyGame(w)] = x]
      BY <2>3 DEF SaveShallow, SaveAnalysis, SaveFails, Contents
    <3>. QED  BY <2>1, <3>1
  <2>. QED
    BY <2>2, <2>3, Zenon DEF WorkerStep, Take, Begin, Analyze, HandOver, RecordQueued,
       Complete, CatchCancelled, CatchPreempted, CatchRetry, CatchFailed, FinishTask, Reread,
       RecordFinal, Exit, KeepManager, Requeue, Settle, durableVars
<1>8. jobState' \in [Games -> JobStates \cup {"none"}]
  <2>1. jobState \in [Games -> JobStates \cup {"none"}]
    BY <1>1 DEF OtherTypes
  <2>2. CASE UNCHANGED jobState
    BY <2>1, <2>2
  <2>3. CASE Begin(w) \/ RecordQueued(w) \/ RecordFinal(w)
    <3>1. pc[w] = "recording" => seen[w] \in JobStates
      BY <1>1 DEF WorkerTypes
    <3>2. \E x \in JobStates : jobState' = [jobState EXCEPT ![MyGame(w)] = x]
      BY <2>3, <3>1 DEF Begin, RecordQueued, RecordFinal, JobStates
    <3>. QED  BY <2>1, <3>2
  <2>. QED
    BY <2>2, <2>3, Zenon DEF WorkerStep, Take, Analyze, SaveShallow, SaveAnalysis, SaveFails,
       HandOver, Complete, CatchCancelled, CatchPreempted, CatchRetry, CatchFailed,
       FinishTask, Reread, Exit, KeepManager, Requeue, Settle, durableVars
<1>. QED  BY <1>1, <1>4, <1>5, <1>6, <1>7, <1>8 DEF OtherTypes

LEMMA OtherTypesKeptElsewhere ==
  ASSUME CoreInv, [Next]_vars, \A w \in Workers : ~WorkerStep(w)
  PROVE  OtherTypes'
<1>1. OtherTypes /\ JobTypes /\ ClientTypes
  BY DEF CoreInv
<1>2. CASE UNCHANGED vars
  BY <1>1, <1>2 DEF vars, OtherTypes
<1>3. ASSUME NEW c \in Clients,
             \/ BeginStart(c) \/ OutOfNames(c) \/ Record(c) \/ SavePaused(c)
             \/ \E on \in BOOLEAN : SetPaused(c, on)
      PROVE  OtherTypes'
  <2>1. /\ UNCHANGED <<jobStop, requested, registry, stopped, activeBy, stored, process>>
        /\ UNCHANGED paused \/ paused' \in BOOLEAN
        /\ UNCHANGED savedPause \/ savedPause' \in BOOLEAN
    BY <1>3 DEF BeginStart, OutOfNames, Record, SavePaused, SetPaused, jobVars, schedVars,
                durableVars
  <2>2. jobState' \in [Games -> JobStates \cup {"none"}]
    <3>1. CASE UNCHANGED jobState
      BY <1>1, <3>1 DEF OtherTypes
    <3>2. CASE Record(c)
      <4>1. todo[c] \in Seq(Note) /\ todo[c] # <<>>
        BY <1>1, <3>2 DEF ClientTypes, Record
      <4>2. Head(todo[c]) \in Note
        BY <4>1, HeadTailProperties
      <4>3. Head(todo[c]).state \in JobStates
        BY <4>2 DEF Note
      <4>. QED  BY <1>1, <3>2, <4>3 DEF Record, OtherTypes
    <3>. QED  BY <1>3, <3>1, <3>2 DEF BeginStart, OutOfNames, SavePaused, SetPaused, durableVars
  <2>. QED  BY <1>1, <2>1, <2>2 DEF OtherTypes
<1>4. ASSUME NEW c \in Clients, Admit(c) \/ Refuse(c)
      PROVE  OtherTypes'
  <2>1. UNCHANGED <<jobStop, registry, activeBy, paused, stored, jobState, savedPause, process>>
    BY <1>4 DEF Admit, Refuse, durableVars
  <2>2. wanted[c] \in Priorities /\ requested \in [JobIds -> Priorities]
    BY <1>1 DEF ClientTypes, OtherTypes
  <2>3. requested' \in [JobIds -> Priorities]
    <3>1. \E S : requested' = [j \in JobIds |-> IF j \in S THEN wanted[c] ELSE requested[j]]
      <4>1. CASE Admit(c)
        <5>. DEFINE S == (NextId..(NextId + Len(Fresh(c)) - 1)) \cup Overtaken(c)
        <5>1. requested' = [j \in JobIds |-> IF j \in S THEN wanted[c] ELSE requested[j]]
          BY <4>1 DEF Admit
        <5>. QED  BY <5>1
      <4>2. CASE Refuse(c)
        BY <4>2 DEF Refuse
      <4>. QED  BY <1>4, <4>1, <4>2
    <3>. QED  BY <2>2, <3>1
  <2>4. stopped' \subseteq JobIds \X Tokens
    <3>1. \E q : stopped' \subseteq
             stopped \cup Halted(Overtaken(c), wanted[c]) \cup Preempted(q, wanted[c])
      <4>1. CASE Admit(c)
        BY <4>1 DEF Admit
      <4>2. CASE Refuse(c)
        BY <4>2 DEF Refuse
      <4>. QED  BY <1>4, <4>1, <4>2
    <3>. QED  BY <1>1, <3>1, AllTokens DEF OtherTypes
  <2>. QED  BY <1>1, <2>1, <2>3, <2>4 DEF OtherTypes
<1>5. ASSUME NEW c \in Clients, NEW j \in JobIds, Cancel(c, j)
      PROVE  OtherTypes'
  <2>1. /\ UNCHANGED <<requested, registry, activeBy, paused, stored, jobState, savedPause, process>>
        /\ jobStop' = [jobStop EXCEPT ![j] = TRUE]
        /\ stopped' = stopped \cup TokensOf({j} \cap Active)
    BY <1>5 DEF Cancel, durableVars
  <2>2. stopped' \subseteq JobIds \X Tokens
    BY <1>1, <2>1, AllTokens DEF OtherTypes
  <2>. QED  BY <1>1, <2>1, <2>2 DEF OtherTypes
<1>6. CASE Close
  <2>1. /\ UNCHANGED <<requested, registry, activeBy, paused, stored, jobState, savedPause>>
        /\ jobStop' = [j \in JobIds |-> jobStop[j] \/ status[j] \in Unfinished]
        /\ stopped' = stopped \cup TokensOf(Active)
        /\ process' = "closing"
    BY <1>6 DEF Close, durableVars
  <2>2. stopped' \subseteq JobIds \X Tokens
    BY <1>1, <2>1, AllTokens DEF OtherTypes
  <2>3. jobStop' \in [JobIds -> BOOLEAN]
    BY <2>1
  <2>. QED  BY <1>1, <2>1, <2>2, <2>3 DEF OtherTypes
<1>7. CASE Join \/ Crash \/ Restart
  <2>1. /\ jobStop' = [j \in JobIds |-> FALSE] /\ requested' = [j \in JobIds |-> Historical]
        /\ registry' = [j \in JobIds |-> Unregistered] /\ stopped' = {}
        /\ activeBy' = [p \in Priorities |-> 0]
    BY <1>7 DEF Join, Crash, Down, Restart, Forget
  <2>2. /\ UNCHANGED <<stored, savedPause>> /\ process' \in {"down", "running"}
        /\ paused' \in {FALSE, savedPause}
    BY <1>7 DEF Join, Crash, Down, Restart, durableVars
  <2>3. jobState' \in [Games -> JobStates \cup {"none"}]
    BY <1>1, <1>7 DEF Join, Crash, Down, Restart, durableVars, OtherTypes, JobStates
  <2>4. Historical \in Priorities /\ Unregistered \in Registration
    BY DEF Historical, Priorities, Registration
  <2>5. /\ jobStop' \in [JobIds -> BOOLEAN] /\ requested' \in [JobIds -> Priorities]
        /\ registry' \in [JobIds -> Registration] /\ stopped' \subseteq JobIds \X Tokens
        /\ activeBy' \in [Priorities -> Int]
    BY <2>1, <2>4
  <2>6. /\ paused' \in BOOLEAN /\ savedPause' \in BOOLEAN
        /\ process' \in {"running", "closing", "down"} /\ stored' \in [Games -> Contents]
    BY <1>1, <2>2 DEF OtherTypes
  <2>. QED  BY <2>3, <2>5, <2>6 DEF OtherTypes
<1>8. CASE RestartRefused
  <2>1. UNCHANGED <<jobVars, schedVars, stored, savedPause, process>>
    BY <1>8 DEF RestartRefused
  <2>2. jobState' \in [Games -> JobStates \cup {"none"}]
    BY <1>1, <1>8 DEF RestartRefused, OtherTypes, JobStates
  <2>. QED  BY <1>1, <2>1, <2>2 DEF OtherTypes, jobVars, schedVars
<1>. QED
  BY <1>2, <1>3, <1>4, <1>5, <1>6, <1>7, <1>8 DEF Next, ClientStep

LEMMA CoreAtFirst ==
  ASSUME Init
  PROVE  CoreInv
<1>1. Lined(queues) /\ JobsWaiting(queues) = {}
  BY EmptyAtFirst, NoneWaiting
<1>2. status = NoJobs /\ game = NoGames /\ pc = [w \in Workers |-> "idle"]
  BY DEF Init
<1>3. JobTypes
  <2>1. 0 \in 0..MaxJobs /\ \A j \in JobIds : ~(j <= 0)
    BY JobBounds DEF JobIds
  <2>. QED  BY <1>2, <2>1 DEF JobTypes, NoJobs, NoGames
<1>4. WorkerTypes
  <2>1. NoTask \in Task
    BY JobBounds DEF NoTask, NewTask, Task, Tokens, Priorities
  <2>. QED  BY <1>2, <2>1 DEF Init, WorkerTypes, Places
<1>5. ClientTypes
  <2>1. /\ Historical \in Priorities /\ <<>> \in Seq(Input) /\ <<>> \in Seq(Note)
        /\ OncePerGame(<<>>)
    BY DEF Historical, Priorities, OncePerGame
  <2>2. /\ call = [c \in Clients |-> "none"] /\ inputs = [c \in Clients |-> <<>>]
        /\ wanted = [c \in Clients |-> Historical] /\ todo = [c \in Clients |-> <<>>]
    BY DEF Init
  <2>3. /\ call \in [Clients -> {"none"}] /\ inputs \in [Clients -> Seq(Input)]
        /\ wanted \in [Clients -> Priorities] /\ todo \in [Clients -> Seq(Note)]
        /\ \A c \in Clients : inputs[c] = <<>> /\ call[c] # "recording"
    BY <2>1, <2>2
  <2>. QED  BY <2>1, <2>3 DEF ClientTypes
<1>6. OtherTypes
  <2>1. /\ Historical \in Priorities /\ Unregistered \in Registration
        /\ "nothing" \in Contents
    BY DEF Historical, Priorities, Registration, Contents
  <2>2. /\ jobStop \in [JobIds -> BOOLEAN] /\ requested \in [JobIds -> Priorities]
        /\ registry \in [JobIds -> Registration] /\ stopped \subseteq JobIds \X Tokens
        /\ activeBy \in [Priorities -> Int]
    BY <2>1 DEF Init
  <2>3. /\ paused \in BOOLEAN /\ savedPause \in BOOLEAN
        /\ stored \in [Games -> Contents] /\ jobState \in [Games -> JobStates \cup {"none"}]
        /\ process \in {"running", "closing", "down"}
    BY <2>1 DEF Init
  <2>. QED  BY <2>2, <2>3 DEF OtherTypes
<1>7. QueueInv
  BY <1>1, <1>2 DEF QueueInv, NoJobs
<1>8. RunInv
  BY <1>2 DEF RunInv, Executing, NoJobs
<1>. QED  BY <1>3, <1>4, <1>5, <1>6, <1>7, <1>8 DEF CoreInv

LEMMA WorkerTypesKeptElsewhere ==
  ASSUME CoreInv, [Next]_vars, \A w \in Workers : ~WorkerStep(w)
  PROVE  WorkerTypes'
<1>1. WorkerTypes
  BY DEF CoreInv
<1>2. CASE Join \/ Crash \/ Restart
  <2>1. /\ pc' = [w \in Workers |-> "idle"] /\ task' = [w \in Workers |-> NoTask]
        /\ seen' = [w \in Workers |-> "absent"]
    BY <1>2 DEF Join, Crash, Restart, Down, Forget
  <2>2. NoTask \in Task
    BY JobBounds DEF NoTask, NewTask, Task, Tokens, Priorities
  <2>. QED  BY <2>1, <2>2 DEF WorkerTypes, Places
<1>3. CASE ~(Join \/ Crash \/ Restart)
  <2>1. UNCHANGED workerVars
    BY <1>3, Zenon DEF Next, ClientStep, BeginStart, Cancel, SetPaused, Admit, Refuse, OutOfNames,
         Record, SavePaused, Close, RestartRefused, vars, workerVars
  <2>2. \A j \in JobIds : status[j] # "absent" => status'[j] # "absent"
    <3>1. CASE UNCHANGED status
      BY <3>1
    <3>2. ASSUME NEW c \in Clients, NEW k \in JobIds, Cancel(c, k)
          PROVE  \A j \in JobIds : status[j] # "absent" => status'[j] # "absent"
      BY <3>2 DEF Cancel, CoreInv, JobTypes, Unfinished
    <3>3. ASSUME NEW c \in Clients, Admit(c)
          PROVE  \A j \in JobIds : status[j] # "absent" => status'[j] # "absent"
      BY <3>3, AdmitMeans DEF Admits, FirstState
    <3>. QED
      BY <1>3, <3>1, <3>2, <3>3, Zenon DEF Next, ClientStep, BeginStart, SetPaused, Refuse,
         OutOfNames, Record, SavePaused, Close, RestartRefused, vars, jobVars
  <2>. QED  BY <1>1, <2>1, <2>2 DEF WorkerTypes, workerVars, Mine
<1>. QED  BY <1>2, <1>3

LEMMA CoreKept ==
  ASSUME CoreInv, [Next]_vars
  PROVE  CoreInv'
<1>1. CASE \E w \in Workers : WorkerStep(w)
  <2>1. PICK w \in Workers : WorkerStep(w)
    BY <1>1
  <2>2. ShapedStep(w)
    BY <2>1, WorkerShapes
  <2>3. JobTypes'
    BY <2>2, JobsKept
  <2>4. WorkerTypes'
    BY <2>1, WorkerTypesKept
  <2>5. ClientTypes'
    BY ClientTypesKept
  <2>6. OtherTypes'
    BY <2>1, OtherTypesKept
  <2>7. QueueInv'
    BY <2>2, QueueKept
  <2>8. RunInv'
    BY <2>2, RunsKept
  <2>. QED  BY <2>3, <2>4, <2>5, <2>6, <2>7, <2>8 DEF CoreInv
<1>2. CASE \A w \in Workers : ~WorkerStep(w)
  <2>1. ShapedElsewhere
    BY <1>2, OtherShapes
  <2>2. JobTypes'
    BY <2>1, JobsKeptElsewhere
  <2>3. WorkerTypes'
    BY <1>2, WorkerTypesKeptElsewhere
  <2>4. ClientTypes'
    BY ClientTypesKept
  <2>5. OtherTypes'
    BY <1>2, OtherTypesKeptElsewhere
  <2>6. QueueInv'
    BY <2>1, QueueKeptElsewhere
  <2>7. RunInv'
    BY <2>1, RunsKeptElsewhere
  <2>. QED  BY <2>2, <2>3, <2>4, <2>5, <2>6, <2>7 DEF CoreInv
<1>. QED  BY <1>1, <1>2

(* The part of the invariant that everything else rests on: the types, and    *)
(* which task waits or runs for which job.                                    *)
THEOREM CoreHolds == Spec => []CoreInv
<1>1. Init => CoreInv
  BY CoreAtFirst
<1>2. CoreInv /\ [Next]_vars => CoreInv'
  BY CoreKept
<1>. QED  BY <1>1, <1>2, PTL DEF Spec

-----------------------------------------------------------------------------
(* A job goes through its states in order.                                    *)

(* Nothing is left of the jobs while the process is down.                     *)
DownInv ==
  process = "down" =>
    status = NoJobs /\ (\A c \in Clients : call[c] = "none") /\ \A w \in Workers : pc[w] = "idle"

LEMMA DownKept ==
  ASSUME CoreInv, DownInv, [Next]_vars
  PROVE  DownInv'
<1>1. CASE Join \/ Crash
  <2>1. /\ status' = NoJobs /\ call' = [c \in Clients |-> "none"]
        /\ pc' = [w \in Workers |-> "idle"]
    BY <1>1 DEF Join, Crash, Down, Forget
  <2>. QED  BY <2>1 DEF DownInv
<1>2. CASE ~(Join \/ Crash) /\ process # "down"
  <2>1. process' # "down"
    BY <1>2, Zenon DEF Next, ClientStep, BeginStart, Cancel, SetPaused, Admit, Refuse, OutOfNames,
       Record, SavePaused, Close, Restart, RestartRefused, vars, WorkerStep, Take, Begin,
       Analyze, SaveShallow, HandOver, RecordQueued, SaveAnalysis, SaveFails, Complete,
       CatchCancelled, CatchPreempted, CatchRetry, CatchFailed, FinishTask, Reread, RecordFinal,
       Exit, KeepManager, Requeue, Settle
  <2>. QED  BY <2>1 DEF DownInv
<1>3. CASE ~(Join \/ Crash) /\ process = "down"
  <2>1. (\A c \in Clients : call[c] = "none") /\ \A w \in Workers : pc[w] = "idle"
    BY <1>3 DEF DownInv
  <2>2. \A c \in Clients : ~ClientStep(c)
    BY <2>1 DEF ClientStep, Admit, Refuse, OutOfNames, Record, SavePaused
  <2>3. \A w \in Workers : ~WorkerStep(w)
    BY <1>3, <2>1 DEF WorkerStep, Take, Begin, Analyze, SaveShallow, HandOver, RecordQueued,
       SaveAnalysis, SaveFails, Complete, CatchCancelled, CatchPreempted, CatchRetry,
       CatchFailed, Thrown, FinishTask, Reread, RecordFinal, Exit, MayLeave
  <2>4. process' # "down" \/ UNCHANGED <<status, call, pc, process>>
    BY <1>3, <2>2, <2>3, Zenon DEF Next, BeginStart, Cancel, SetPaused, Close, Restart, RestartRefused, vars,
       jobVars, clientVars, workerVars
  <2>. QED  BY <2>4 DEF DownInv
<1>. QED  BY <1>1, <1>2, <1>3

(* How a job may change in a step.                                            *)
Onward(a, b) ==
  \/ a = b
  \/ a = "absent" /\ b \in {"queued", "complete"}
  \/ a = "queued" /\ b \in {"running", "cancelled"}
  \/ a = "running" /\ b \in {"queued"} \cup Terminal

LEMMA JobsGoOn ==
  ASSUME CoreInv, DownInv, [Next]_vars, process' # "down", NEW j \in JobIds
  PROVE  Onward(status[j], status'[j]) /\ (status[j] # "absent" => game'[j] = game[j])
<1>1. status \in [JobIds -> JobStates \cup {"absent"}] /\ game \in [JobIds -> Games \cup {"none"}]
  BY DEF CoreInv, JobTypes
<1>. DEFINE G == Onward(status[j], status'[j]) /\ (status[j] # "absent" => game'[j] = game[j])
<1>2. ASSUME NEW w \in Workers, ShapedStep(w)
      PROVE  G
  <2>1. Executing(w) => Mine(w) \in JobIds /\ status[Mine(w)] = "running"
    BY DEF CoreInv, WorkerTypes, RunInv, Executing
  <2>2. CASE Moves(w) \/ Drops(w)
    BY <2>2 DEF Moves, Drops, Onward
  <2>3. CASE TakesUp(w)
    <3>1. PICK p \in Priorities :
            /\ Pops(p) /\ status[Head(queues[p]).job] # "cancelled"
            /\ status' = [status EXCEPT ![Head(queues[p]).job] = "running"]
            /\ UNCHANGED game
      BY <2>3 DEF TakesUp
    <3>. DEFINE k == Head(queues[p]).job
    <3>2. k \in JobsWaiting(queues)
      BY <3>1, LinedPopped DEF Pops, CoreInv, QueueInv
    <3>3. status[k] = "queued" /\ status' = [status EXCEPT ![k] = "running"]
      BY <3>1, <3>2 DEF CoreInv, QueueInv
    <3>. HIDE DEF k
    <3>. QED  BY <1>1, <3>1, <3>3 DEF Onward
  <2>4. CASE PutsBack(w) \/ Ends(w)
    <3>1. \E x \in {"queued"} \cup Terminal :
            Executing(w) /\ status' = [status EXCEPT ![Mine(w)] = x] /\ UNCHANGED game
      BY <2>4 DEF PutsBack, Ends
    <3>. QED  BY <1>1, <2>1, <3>1 DEF Onward
  <2>. QED  BY <1>2, <2>2, <2>3, <2>4 DEF ShapedStep
<1>3. ASSUME ShapedElsewhere
      PROVE  G
  <2>1. CASE Quiet \/ Promotes
    BY <2>1 DEF Quiet, Promotes, Onward
  <2>2. CASE GoesDown
    BY <2>2 DEF GoesDown
  <2>3. CASE ComesUp
    <3>1. status[j] = "absent"
      BY <2>3 DEF ComesUp, DownInv, NoJobs
    <3>2. status'[j] \in {"queued", "absent"}
      BY <2>3 DEF ComesUp
    <3>. QED  BY <3>1, <3>2 DEF Onward
  <2>4. ASSUME NEW k \in JobIds, Cancels(k) PROVE G
    BY <1>1, <2>4 DEF Cancels, Onward
  <2>5. ASSUME NEW c \in Clients, Admits(c) PROVE G
    BY <1>1, <2>5 DEF Admits, Onward, FirstState
  <2>. QED  BY <1>3, <2>1, <2>2, <2>3, <2>4, <2>5 DEF ShapedElsewhere
<1>. QED  BY <1>2, <1>3, WorkerShapes, OtherShapes

(* What a job ended as never changes: a cancel, a worker that is still        *)
(* reporting on it and a late start leave it (job_manager.cpp:178, 368, 457). *)
THEOREM EndedStaysEnded == Spec => TerminalIsFinal
<1>. DEFINE I == CoreInv /\ DownInv
<1>1. Init => I
  BY CoreAtFirst DEF Init, DownInv
<1>2. I /\ [Next]_vars => I'
  BY CoreKept, DownKept
<1>3. I /\ [Next]_vars =>
        (process' # "down" => \A j \in JobIds : status[j] \in Terminal => status'[j] = status[j])
  BY JobsGoOn DEF Onward, Terminal
<1>4. I /\ [Next]_vars =>
        [process' # "down" => \A j \in JobIds : status[j] \in Terminal => status'[j] = status[j]]_vars
  BY <1>3
<1>. QED  BY <1>1, <1>2, <1>4, PTL DEF Spec, TerminalIsFinal

-----------------------------------------------------------------------------
(* The queues are bounded.                                                    *)

Executors == {w \in Workers : Executing(w)}

LEMMA WorkersCount ==
  ASSUME NEW S \in SUBSET Workers
  PROVE  /\ IsFiniteSet(S) /\ Cardinality(S) \in Nat /\ Cardinality(Workers) \in Nat
         /\ Cardinality(S) <= Cardinality(Workers)
BY JobBounds, FS_Subset, FS_CardinalityType

LEMMA ExecutorsCount ==
  /\ IsFiniteSet(Executors) /\ Cardinality(Executors) \in Nat
  /\ Cardinality(Workers) \in Nat /\ Cardinality(Executors) <= Cardinality(Workers)
<1>1. Executors \in SUBSET Workers
  BY DEF Executors
<1>. QED  BY <1>1, WorkersCount

LEMMA ExecutorJoins ==
  ASSUME NEW w \in Workers, ~Executing(w), Executing(w)', OthersStay(w)
  PROVE  Cardinality(Executors)' = Cardinality(Executors) + 1
<1>1. Executors' = Executors \cup {w} /\ w \notin Executors
  BY DEF Executors, OthersStay, Executing
<1>. QED  BY <1>1, ExecutorsCount, FS_AddElement

LEMMA ExecutorLeaves ==
  ASSUME NEW w \in Workers, Executing(w), ~Executing(w)', OthersStay(w)
  PROVE  Cardinality(Executors)' = Cardinality(Executors) - 1
<1>1. Executors' = Executors \ {w} /\ w \in Executors
  BY DEF Executors, OthersStay, Executing
<1>. QED  BY <1>1, ExecutorsCount, FS_RemoveElement

LEMMA BacklogType ==
  ASSUME NEW Q, Lined(Q)
  PROVE  Backlog(Q) \in Nat /\ \A q \in Priorities : Len(Q[q]) \in Nat /\ Len(Q[q]) <= Backlog(Q)
<1>. DEFINE a == Len(Q[0])  b == Len(Q[1])  c == Len(Q[2])
<1>1. 0 \in Priorities /\ 1 \in Priorities /\ 2 \in Priorities
  BY DEF Priorities
<1>2. \A q \in Priorities : Len(Q[q]) \in Nat
  BY DEF Lined
<1>3. a \in Nat /\ b \in Nat /\ c \in Nat /\ Backlog(Q) = a + b + c
  BY <1>1, <1>2 DEF Backlog
<1>4. \A q \in Priorities : Len(Q[q]) = a \/ Len(Q[q]) = b \/ Len(Q[q]) = c
  BY DEF Priorities
<1>. HIDE DEF a, b, c
<1>. QED  BY <1>2, <1>3, <1>4

LEMMA BacklogKept ==
  ASSUME CoreInv, BacklogBounded, [Next]_vars
  PROVE  BacklogBounded'
<1>. DEFINE B == Backlog(queues)  E == Cardinality(Executors)  W == Cardinality(Workers)
<1>1. BacklogBounded <=> B + E <= MaxQueued + W
  BY DEF BacklogBounded, QueuedCount, Backlog, Executors
<1>2. BacklogBounded' <=> B' + E' <= MaxQueued + W
  BY DEF BacklogBounded, QueuedCount, Backlog, Executors
<1>3. E \in Nat /\ W \in Nat /\ MaxQueued \in Nat
  BY ExecutorsCount, JobBounds
<1>4. E' \in Nat /\ E' <= W
  <2>1. Executors' \in SUBSET Workers
    BY DEF Executors
  <2>. QED  BY <2>1, WorkersCount
<1>5. B \in Nat /\ Lined(queues)
  BY BacklogType DEF CoreInv, QueueInv
<1>6. B' \in Nat
  BY CoreKept, BacklogType DEF CoreInv, QueueInv
<1>7. \/ B' = B /\ E' = E
      \/ B' = B - 1 /\ E' \in {E, E + 1}
      \/ B' = B + 1 /\ E' = E - 1
      \/ B' = B /\ E' = E - 1
      \/ B' <= MaxQueued
  <2>1. ASSUME NEW p \in Priorities, Pops(p)
        PROVE  B' = B - 1
    BY <1>5, <2>1, LinedPopped DEF Pops
  <2>2. ASSUME NEW w \in Workers, ShapedStep(w)
        PROVE  \/ B' = B /\ E' = E
               \/ B' = B - 1 /\ E' \in {E, E + 1}
               \/ B' = B + 1 /\ E' = E - 1
               \/ B' = B /\ E' = E - 1
    <3>1. OthersStay(w)
      BY <2>2 DEF ShapedStep
    <3>2. ASSUME Executing(w)' <=> Executing(w) PROVE E' = E
      <4>1. Executors' = Executors
        BY <3>1, <3>2 DEF OthersStay, Executors, Executing
      <4>. QED  BY <4>1
    <3>3. CASE Moves(w)
      BY <3>2, <3>3 DEF Moves
    <3>4. CASE Drops(w)
      <4>1. E' = E
        BY <3>2, <3>4 DEF Drops, Executing
      <4>. QED  BY <2>1, <3>4, <4>1 DEF Drops
    <3>5. CASE TakesUp(w)
      <4>1. E' = E + 1
        BY <3>1, <3>5, ExecutorJoins DEF TakesUp
      <4>. QED  BY <2>1, <3>5, <4>1 DEF TakesUp
    <3>6. CASE PutsBack(w)
      <4>1. E' = E - 1
        BY <3>1, <3>6, ExecutorLeaves DEF PutsBack
      <4>2. PICK t \in JobTask :
              /\ Executing(w) /\ t.job = Mine(w)
              /\ queues' = [queues EXCEPT ![t.priority] = Append(@, t)]
        BY <3>6 DEF PutsBack
      <4>3. t.job \notin JobsWaiting(queues)
        BY <4>2 DEF CoreInv, QueueInv, RunInv
      <4>4. B' = B + 1
        BY <1>5, <4>2, <4>3, LinedAppended
      <4>. QED  BY <4>1, <4>4
    <3>7. CASE Ends(w)
      <4>1. E' = E - 1
        BY <3>1, <3>7, ExecutorLeaves DEF Ends
      <4>. QED  BY <3>7, <4>1 DEF Ends
    <3>. QED  BY <2>2, <3>3, <3>4, <3>5, <3>6, <3>7 DEF ShapedStep
  <2>3. ASSUME ShapedElsewhere
        PROVE  (B' = B /\ E' = E) \/ B' <= MaxQueued
    <3>1. ASSUME UNCHANGED pc PROVE E' = E
      BY <3>1 DEF Executors, Executing
    <3>2. CASE Quiet \/ Promotes
      BY <3>1, <3>2 DEF Quiet, Promotes
    <3>3. ASSUME NEW j \in JobIds, Cancels(j) PROVE B' = B /\ E' = E
      BY <3>1, <3>3 DEF Cancels
    <3>4. ASSUME NEW c \in Clients, Admits(c) PROVE B' <= MaxQueued
      BY <3>4 DEF Admits
    <3>5. CASE GoesDown
      BY <1>3, <3>5, NoneWaiting DEF GoesDown
    <3>6. CASE ComesUp
      BY <3>6 DEF ComesUp
    <3>. QED  BY <2>3, <3>2, <3>3, <3>4, <3>5, <3>6 DEF ShapedElsewhere
  <2>. QED  BY <2>2, <2>3, WorkerShapes, OtherShapes
<1>8. B + E <= MaxQueued + W
  BY <1>1
<1>9. ASSUME NEW m \in Nat, NEW w \in Nat, NEW b \in Nat, NEW e \in Nat, b + e <= m + w,
             NEW c \in Nat, NEW f \in Nat, f <= w,
             \/ c = b /\ f = e
             \/ c = b - 1 /\ f \in {e, e + 1}
             \/ c = b + 1 /\ f = e - 1
             \/ c = b /\ f = e - 1
             \/ c <= m
      PROVE  c + f <= m + w
  BY <1>9
<1>. HIDE DEF B, E, W
<1>10. B' + E' <= MaxQueued + W
  BY <1>3, <1>4, <1>5, <1>6, <1>7, <1>8, <1>9
<1>. QED  BY <1>2, <1>10 DEF B, E, W

(* The queues never hold more than max_queued tasks and those of the workers: *)
(* what hand-overs, retries and preemptions put back without asking for room  *)
(* was taken before (job_manager.cpp:152, 420, 470, 479).                     *)
THEOREM QueuesBounded == Spec => []BacklogBounded
<1>. DEFINE I == CoreInv /\ BacklogBounded
<1>1. Init => I
  <2>1. ASSUME Init PROVE BacklogBounded
    <3>1. Backlog(queues) = 0
      BY <2>1, EmptyAtFirst, NoneWaiting
    <3>2. MaxQueued \in Nat
      BY JobBounds
    <3>3. QueuedCount = Backlog(queues) /\ Cardinality(Executors) <= Cardinality(Workers)
      BY ExecutorsCount DEF QueuedCount, Backlog
    <3>. DEFINE q == QueuedCount  e == Cardinality(Executors)  w == Cardinality(Workers)
    <3>4. e \in Nat /\ w \in Nat /\ e <= w /\ q = 0
      BY <3>1, <3>3, ExecutorsCount
    <3>5. BacklogBounded <=> q + e <= MaxQueued + w
      BY DEF BacklogBounded, Executors
    <3>. HIDE DEF q, e, w
    <3>. QED  BY <3>2, <3>4, <3>5
  <2>. QED  BY <2>1, CoreAtFirst
<1>2. I /\ [Next]_vars => I'
  BY CoreKept, BacklogKept
<1>. QED  BY <1>1, <1>2, PTL DEF Spec

(* A queued job waits in one place of one queue, and no other but a cancelled *)
(* one waits at all.                                                          *)
LEMMA WaitingOnce ==
  ASSUME CoreInv, BacklogBounded, NEW j \in JobIds
  PROVE  /\ Cardinality(Waiting(j)) <= IF status[j] \in {"queued", "cancelled"} THEN 1 ELSE 0
         /\ status[j] = "queued" => Waiting(j) # {}
<1>. DEFINE M == MaxQueued + Cardinality(Workers)
<1>1. Lined(queues) /\ (j \in JobsWaiting(queues) => status[j] \in {"queued", "cancelled"})
  BY DEF CoreInv, QueueInv
<1>2. \A x \in Waiting(j) : /\ x[1] \in Priorities /\ x[2] \in DOMAIN queues[x[1]]
                            /\ queues[x[1]][x[2]].job = j /\ x = <<x[1], x[2]>>
  BY DEF Waiting
<1>3. \A x \in Waiting(j) : j \in JobsIn(queues[x[1]])
  BY <1>2 DEF JobsIn, Elems
<1>4. \A x, y \in Waiting(j) : x = y
  <2>. SUFFICES ASSUME NEW x \in Waiting(j), NEW y \in Waiting(j) PROVE x = y
    OBVIOUS
  <2>1. x[1] = y[1]
    BY <1>1, <1>2, <1>3 DEF Lined
  <2>2. NoTwice(queues[x[1]])
    BY <1>1, <1>2 DEF Lined
  <2>3. x[2] = y[2]
    BY <1>2, <2>1, <2>2 DEF NoTwice
  <2>. QED  BY <1>2, <2>1, <2>3
<1>5. Waiting(j) # {} => j \in JobsWaiting(queues) /\ Cardinality(Waiting(j)) = 1
  <2>. SUFFICES ASSUME NEW x \in Waiting(j)
                PROVE  j \in JobsWaiting(queues) /\ Cardinality(Waiting(j)) = 1
    OBVIOUS
  <2>1. Waiting(j) = {x}
    BY <1>4
  <2>2. Cardinality({x}) = 1
    BY FS_Singleton
  <2>. QED  BY <1>2, <1>3, <2>1, <2>2, WaitingMeans
<1>6. Cardinality({}) = 0
  BY FS_EmptySet
<1>7. ASSUME status[j] = "queued" PROVE Waiting(j) # {}
  <2>1. PICK q \in Priorities : j \in JobsIn(queues[q])
    BY <1>7, WaitingMeans DEF CoreInv, QueueInv
  <2>2. PICK i \in DOMAIN queues[q] : queues[q][i].job = j
    BY <2>1 DEF JobsIn, Elems
  <2>. DEFINE n == Len(queues[q])  b == Backlog(queues)  e == Cardinality(Executors)
  <2>3. i \in 1..n /\ n \in Nat /\ n <= b /\ b \in Nat
    BY <1>1, <2>2, BacklogType DEF Lined
  <2>4. b + e <= M
    BY DEF BacklogBounded, QueuedCount, Backlog, Executors
  <2>5. e \in Nat /\ M \in Nat
    BY ExecutorsCount, JobBounds
  <2>. HIDE DEF n, b, e
  <2>6. i \in 1..M
    <3>. HIDE DEF M
    <3>. QED  BY <2>3, <2>4, <2>5
  <2>7. <<q, i>> \in Priorities \X (1..M)
    BY <2>6
  <2>8. <<q, i>> \in Waiting(j)
    BY <2>2, <2>7 DEF Waiting
  <2>. QED  BY <2>8
<1>. QED  BY <1>1, <1>5, <1>6, <1>7

(* A job has one task as long as it is not ended: it waits exactly once while *)
(* it is queued and is at exactly one worker while it runs, although its task *)
(* changes hands at the end of the shallow pass, on a preemption, a promotion *)
(* and a retry, each racing a cancel (job_manager.cpp:270, 305, 420, 470, 479). *)
THEOREM OneTaskEach == Spec => []OneTaskPerJob
<1>1. CoreInv /\ BacklogBounded => OneTaskPerJob
  <2>. SUFFICES ASSUME CoreInv, BacklogBounded PROVE OneTaskPerJob
    OBVIOUS
  <2>1. /\ \A j \in JobIds : status[j] = "running" => \E w \in Workers : Executing(w) /\ Mine(w) = j
        /\ \A w \in Workers : Executing(w) =>
             /\ status[Mine(w)] = "running"
             /\ \A v \in Workers : Executing(v) /\ Mine(v) = Mine(w) => v = w
    BY DEF CoreInv, RunInv
  <2>2. \A j \in JobIds :
          /\ Cardinality(Waiting(j)) <= IF status[j] \in {"queued", "cancelled"} THEN 1 ELSE 0
          /\ status[j] = "queued" => Waiting(j) # {}
    BY WaitingOnce
  <2>. QED  BY <2>1, <2>2 DEF OneTaskPerJob
<1>. QED  BY <1>1, CoreHolds, QueuesBounded, PTL

-----------------------------------------------------------------------------
(* A game has one live job.                                                   *)

Live(st, j) == st[j] \notin {"absent", "failed", "cancelled"}

(* The jobs that a step brings into being.                                    *)
Appear(j) == status[j] = "absent" /\ status'[j] # "absent"

LEMMA WhoAppears ==
  ASSUME CoreInv, DownInv, [Next]_vars
  PROVE  \/ \A j \in JobIds : ~Appear(j)
         \/ ComesUp
         \/ \E c \in Clients : Admits(c)
<1>1. ASSUME NEW w \in Workers, ShapedStep(w)
      PROVE  \A j \in JobIds : ~Appear(j)
  BY <1>1, JobsKept DEF Appear
<1>2. CASE Quiet \/ Promotes \/ GoesDown
  BY <1>2 DEF Quiet, Promotes, GoesDown, Appear, NoJobs
<1>3. ASSUME NEW k \in JobIds, Cancels(k)
      PROVE  \A j \in JobIds : ~Appear(j)
  BY <1>3 DEF Cancels, Appear, CoreInv, JobTypes, Unfinished
<1>. QED  BY <1>1, <1>2, <1>3, WorkerShapes, OtherShapes DEF ShapedElsewhere

LEMMA LiveKept ==
  ASSUME CoreInv, DownInv, OneLiveJobPerGame, [Next]_vars
  PROVE  OneLiveJobPerGame'
<1>1. \A i, j \in JobIds : Live(status, i) /\ Live(status, j) /\ game[i] = game[j] => i = j
  BY DEF OneLiveJobPerGame, Live
<1>2. SUFFICES ASSUME NEW i \in JobIds, NEW j \in JobIds, Live(status', i), Live(status', j),
                      game'[i] = game'[j]
               PROVE  i = j
  BY DEF OneLiveJobPerGame, Live
<1>3. process' # "down"
  BY <1>2, DownKept DEF DownInv, NoJobs, Live
<1>4. ASSUME NEW k \in JobIds, Live(status', k), ~Appear(k)
      PROVE  Live(status, k) /\ game'[k] = game[k]
  BY <1>3, <1>4, JobsGoOn DEF Live, Appear, Onward, Terminal
<1>5. CASE \A k \in JobIds : ~Appear(k)
  BY <1>1, <1>2, <1>4, <1>5
<1>6. CASE ComesUp
  <2>1. PICK n \in Nat : \E s \in [1..n -> Recoverable] :
          /\ \A m, k \in 1..n : s[m] = s[k] => m = k
          /\ status' = [m \in JobIds |-> IF m <= n THEN "queued" ELSE "absent"]
          /\ game' = [m \in JobIds |-> IF m <= n THEN s[m] ELSE "none"]
    BY <1>6 DEF ComesUp
  <2>2. PICK s \in [1..n -> Recoverable] :
          /\ \A m, k \in 1..n : s[m] = s[k] => m = k
          /\ status' = [m \in JobIds |-> IF m <= n THEN "queued" ELSE "absent"]
          /\ game' = [m \in JobIds |-> IF m <= n THEN s[m] ELSE "none"]
    BY <2>1
  <2>3. i <= n /\ j <= n
    BY <1>2, <2>2 DEF Live
  <2>4. i \in 1..n /\ j \in 1..n
    BY <2>3, JobBounds DEF JobIds
  <2>. QED  BY <1>2, <2>2, <2>3, <2>4
<1>7. ASSUME NEW c \in Clients, Admits(c)
      PROVE  i = j
  <2>1. ASSUME NEW k \in NewJobs(c)
        PROVE  game'[k] = FreshOf(c, k).game /\ TakenCareOf(FreshOf(c, k).game) = {}
    BY <1>7, <2>1 DEF Admits
  <2>2. ASSUME NEW k \in JobIds, k \notin NewJobs(c), Live(status', k)
        PROVE  Live(status, k) /\ game'[k] = game[k]
    BY <1>7, <2>2 DEF Admits, Live
  <2>3. ASSUME NEW k \in NewJobs(c), NEW m \in JobIds, m \notin NewJobs(c), Live(status', m)
        PROVE  game'[k] # game'[m]
    <3>1. status[m] \in Unfinished \cup {"complete"}
      BY <2>2, <2>3 DEF Live, CoreInv, JobTypes, JobStates, Terminal, Unfinished
    <3>2. game[m] # FreshOf(c, k).game
      BY <2>1, <2>3, <3>1 DEF TakenCareOf
    <3>. QED  BY <2>1, <2>2, <2>3, <3>2
  <2>4. CASE i \in NewJobs(c) /\ j \in NewJobs(c)
    <3>. DEFINE f == Fresh(c)  a == i - NextId + 1  b == j - NextId + 1
    <3>1. a \in DOMAIN f /\ b \in DOMAIN f /\ OncePerGame(f)
      BY <1>7, <2>4 DEF Admits
    <3>2. game'[i] = f[a].game /\ game'[j] = f[b].game
      BY <2>1, <2>4 DEF FreshOf
    <3>3. a = b
      <4>. HIDE DEF a, b, f
      <4>. QED  BY <1>2, <3>1, <3>2 DEF OncePerGame
    <3>4. NextId \in Int /\ i \in Int /\ j \in Int
      BY NextIdMeans DEF CoreInv, JobIds
    <3>. QED  BY <3>3, <3>4
  <2>5. CASE i \notin NewJobs(c) /\ j \notin NewJobs(c)
    BY <1>1, <1>2, <2>2, <2>5
  <2>. QED  BY <1>2, <2>3, <2>4, <2>5
<1>. QED  BY <1>5, <1>6, <1>7, WhoAppears

(* A game never has two jobs that are queued, running or complete, although   *)
(* start reads the repository before it takes the mutex and two clients may   *)
(* ask for the same game at once (job_manager.cpp:120).                       *)
THEOREM OneLiveEach == Spec => []OneLiveJobPerGame
<1>. DEFINE I == CoreInv /\ DownInv /\ OneLiveJobPerGame
<1>1. Init => I
  <2>1. Init => OneLiveJobPerGame
    BY DEF Init, OneLiveJobPerGame, NoJobs
  <2>2. Init => DownInv
    BY DEF Init, DownInv
  <2>. QED  BY <2>1, <2>2, CoreAtFirst
<1>2. I /\ [Next]_vars => I'
  BY CoreKept, DownKept, LiveKept
<1>. QED  BY <1>1, <1>2, PTL DEF Spec

-----------------------------------------------------------------------------
(* What is complete is stored.                                                *)

(* A worker that analyses a game does so because it has no analysis yet.      *)
StoredInv ==
  /\ CompleteIsStored
  /\ \A w \in Workers :
       /\ pc[w] = "completing" => stored[MyGame(w)] = "analysis"
       /\ pc[w] \in {"analyzing", "saving"} => stored[MyGame(w)] # "analysis"
  /\ \A c \in Clients : \A i \in DOMAIN inputs[c] :
       inputs[c][i].has = "analysis" => stored[inputs[c][i].game] = "analysis"

LivesInv == CoreInv /\ DownInv /\ OneLiveJobPerGame

(* Only a worker that saves changes what is stored, and only for its game.    *)
Saves(w) ==
  /\ pc[w] = "saving" /\ WorkerStep(w)
  /\ \E x \in Contents : stored' = [stored EXCEPT ![MyGame(w)] = x]

LEMMA WhoSaves ==
  ASSUME CoreInv, [Next]_vars
  PROVE  UNCHANGED stored \/ \E w \in Workers : Saves(w)
<1>1. ASSUME NEW w \in Workers, SaveShallow(w) \/ SaveAnalysis(w) \/ SaveFails(w)
      PROVE  UNCHANGED stored \/ Saves(w)
  <2>1. pc[w] = "saving" /\ WorkerStep(w)
    BY <1>1 DEF SaveShallow, SaveAnalysis, SaveFails, WorkerStep
  <2>2. UNCHANGED stored \/ \E x \in Contents : stored' = [stored EXCEPT ![MyGame(w)] = x]
    BY <1>1 DEF SaveShallow, SaveAnalysis, SaveFails, Contents
  <2>. QED  BY <2>1, <2>2 DEF Saves
<1>2. ASSUME NEW w \in Workers, WorkerStep(w), ~(SaveShallow(w) \/ SaveAnalysis(w) \/ SaveFails(w))
      PROVE  UNCHANGED stored
  BY <1>2, Zenon DEF WorkerStep, Take, Begin, Analyze, HandOver, RecordQueued, Complete,
     CatchCancelled, CatchPreempted, CatchRetry, CatchFailed, FinishTask, Reread, RecordFinal,
     Exit, KeepManager, Requeue, Settle, durableVars
<1>3. ASSUME \A w \in Workers : ~WorkerStep(w)
      PROVE  UNCHANGED stored
  BY <1>3, Zenon DEF Next, ClientStep, BeginStart, Cancel, SetPaused, Admit, Refuse, OutOfNames,
     Record, SavePaused, Close, Join, Crash, Down, Restart, RestartRefused, vars, durableVars
<1>. QED  BY <1>1, <1>2, <1>3

(* An analysis is never lost.                                                 *)
LEMMA StoredGrows ==
  ASSUME CoreInv, StoredInv, [Next]_vars, NEW g \in Games, stored[g] = "analysis"
  PROVE  stored'[g] = "analysis"
<1>1. stored \in [Games -> Contents]
  BY DEF CoreInv, OtherTypes
<1>2. ASSUME NEW w \in Workers, Saves(w)
      PROVE  stored'[g] = "analysis"
  <2>1. g # MyGame(w)
    BY <1>2 DEF Saves, StoredInv
  <2>. QED  BY <1>1, <1>2, <2>1 DEF Saves
<1>. QED  BY <1>2, WhoSaves

(* The worker that saves is the only one at its game.                         *)
LEMMA OneAtGame ==
  ASSUME LivesInv, NEW v \in Workers, NEW w \in Workers, Executing(v), Executing(w),
         MyGame(v) = MyGame(w)
  PROVE  v = w
<1>1. /\ Mine(v) \in JobIds /\ status[Mine(v)] = "running"
      /\ Mine(w) \in JobIds /\ status[Mine(w)] = "running"
  BY DEF LivesInv, CoreInv, WorkerTypes, RunInv, Executing
<1>2. Mine(v) = Mine(w)
  BY <1>1 DEF LivesInv, OneLiveJobPerGame, MyGame, Mine
<1>. QED  BY <1>2 DEF LivesInv, CoreInv, RunInv

(* A job that becomes complete has its analysis stored.                       *)
LEMMA Completed ==
  ASSUME LivesInv, StoredInv, [Next]_vars, NEW j \in JobIds, status'[j] = "complete"
  PROVE  /\ game'[j] \in Games
         /\ stored[game'[j]] = "analysis"
<1>1. /\ status \in [JobIds -> JobStates \cup {"absent"}]
      /\ \A k \in JobIds : status[k] # "absent" => game[k] \in Games
  BY DEF LivesInv, CoreInv, JobTypes
<1>2. process' # "down"
  BY DownKept DEF LivesInv, DownInv, NoJobs
<1>3. CASE status[j] = "complete"
  <2>1. game'[j] = game[j] /\ game[j] \in Games
    BY <1>1, <1>2, <1>3, JobsGoOn DEF LivesInv
  <2>. QED  BY <1>3, <2>1 DEF StoredInv, CompleteIsStored
<1>4. ASSUME NEW w \in Workers, WorkerStep(w), status[j] # "complete"
      PROVE  game'[j] \in Games /\ stored[game'[j]] = "analysis"
  <2>1. Complete(w)
    <3>1. ~Complete(w) => \/ UNCHANGED status
                          \/ \E k, x : x # "complete" /\ status' = [status EXCEPT ![k] = x]
      BY <1>4 DEF WorkerStep, Take, Begin, Analyze, SaveShallow, HandOver, RecordQueued,
         SaveAnalysis, SaveFails, CatchCancelled, CatchPreempted, CatchRetry, CatchFailed,
         FinishTask, Reread, RecordFinal, Exit, KeepManager, Requeue, Settle, jobVars
    <3>. QED  BY <1>1, <1>4, <3>1
  <2>2. pc[w] = "completing" /\ status' = [status EXCEPT ![Mine(w)] = "complete"] /\ UNCHANGED game
    BY <2>1 DEF Complete, Settle
  <2>3. j = Mine(w)
    BY <1>1, <1>4, <2>2
  <2>4. status[Mine(w)] # "absent"
    BY <2>2 DEF LivesInv, CoreInv, WorkerTypes
  <2>. QED  BY <1>1, <2>2, <2>3, <2>4 DEF StoredInv, MyGame, Mine
<1>5. ASSUME ShapedElsewhere, status[j] # "complete"
      PROVE  game'[j] \in Games /\ stored[game'[j]] = "analysis"
  <2>1. CASE Quiet \/ Promotes \/ GoesDown \/ ComesUp
    BY <1>5, <2>1 DEF Quiet, Promotes, GoesDown, ComesUp, NoJobs
  <2>2. ASSUME NEW k \in JobIds, Cancels(k) PROVE FALSE
    BY <1>1, <1>5, <2>2 DEF Cancels
  <2>3. ASSUME NEW c \in Clients, Admits(c)
        PROVE  game'[j] \in Games /\ stored[game'[j]] = "analysis"
    <3>1. j \in NewJobs(c) /\ FreshOf(c, j).has = "analysis" /\ game'[j] = FreshOf(c, j).game
      BY <1>5, <2>3 DEF Admits, FirstState
    <3>2. PICK k \in DOMAIN inputs[c] : FreshOf(c, j) = inputs[c][k]
      BY <2>3, <3>1 DEF Admits
    <3>3. inputs[c][k] \in Input
      <4>. DEFINE s == inputs[c]
      <4>1. s \in Seq(Input) /\ k \in DOMAIN s
        BY DEF LivesInv, CoreInv, ClientTypes
      <4>. HIDE DEF s
      <4>2. s[k] \in Input
        BY <4>1
      <4>. QED  BY <4>2 DEF s
    <3>. QED  BY <3>1, <3>2, <3>3 DEF StoredInv, Input
  <2>. QED  BY <1>5, <2>1, <2>2, <2>3 DEF ShapedElsewhere
<1>. QED  BY <1>3, <1>4, <1>5, OtherShapes DEF LivesInv

LEMMA StoredKept ==
  ASSUME LivesInv, StoredInv, [Next]_vars
  PROVE  StoredInv'
<1>. USE DEF LivesInv
<1>1. /\ stored \in [Games -> Contents] /\ pc \in [Workers -> Places]
      /\ \A v \in Workers : pc[v] \notin {"idle", "exited"} =>
           Mine(v) \in JobIds /\ status[Mine(v)] # "absent" /\ MyGame(v) \in Games
  BY DEF CoreInv, OtherTypes, WorkerTypes, JobTypes, MyGame, Mine
<1>2. CompleteIsStored'
  BY Completed, StoredGrows DEF CompleteIsStored
<1>. DEFINE At == {"analyzing", "saving", "completing"}
            Good(v) == /\ pc'[v] = "completing" => stored'[MyGame(v)'] = "analysis"
                       /\ pc'[v] \in {"analyzing", "saving"} => stored'[MyGame(v)'] # "analysis"
<1>3. ASSUME NEW v \in Workers, pc'[v] \in At, pc'[v] = pc[v], task'[v] = task[v], ~WorkerStep(v)
      PROVE  Good(v)
  <2>1. process' # "down"
    BY <1>3, DownKept DEF DownInv
  <2>2. MyGame(v)' = MyGame(v)
    BY <1>1, <1>3, <2>1, JobsGoOn DEF MyGame, Mine
  <2>3. CASE pc[v] = "completing"
    BY <1>1, <1>3, <2>2, <2>3, StoredGrows DEF StoredInv
  <2>4. CASE pc[v] \in {"analyzing", "saving"}
    <3>1. stored[MyGame(v)] # "analysis"
      BY <2>4 DEF StoredInv
    <3>2. ASSUME NEW w \in Workers, Saves(w) PROVE stored'[MyGame(v)] # "analysis"
      <4>1. v # w /\ Executing(v) /\ Executing(w)
        BY <1>3, <2>4, <3>2 DEF Saves, Executing
      <4>2. MyGame(v) # MyGame(w)
        BY <4>1, OneAtGame
      <4>. QED  BY <1>1, <2>4, <3>1, <3>2, <4>2 DEF Saves
    <3>. QED  BY <1>3, <2>2, <2>4, <3>1, <3>2, WhoSaves
  <2>. QED  BY <1>3, <2>3, <2>4
<1>4. ASSUME NEW v \in Workers, pc'[v] \in At, WorkerStep(v)
      PROVE  Good(v)
  <2>1. Begin(v) \/ Analyze(v) \/ SaveAnalysis(v)
    <3>1. CASE Take(v)
      <4>1. pc[v] = "idle" /\ (UNCHANGED pc \/ pc' = [pc EXCEPT ![v] = "starting"])
        BY <3>1 DEF Take, Goto
      <4>. QED  BY <1>1, <1>4, <4>1
    <3>2. CASE \/ SaveShallow(v) \/ HandOver(v) \/ RecordQueued(v) \/ SaveFails(v) \/ Complete(v)
               \/ CatchCancelled(v) \/ CatchPreempted(v) \/ CatchRetry(v) \/ CatchFailed(v)
               \/ FinishTask(v) \/ Reread(v) \/ RecordFinal(v) \/ Exit(v)
      <4>1. \E p \in Places \ At : pc' = [pc EXCEPT ![v] = p]
        BY <3>2 DEF SaveShallow, HandOver, RecordQueued, SaveFails, Complete, CatchCancelled,
           CatchPreempted, CatchRetry, CatchFailed, FinishTask, Reread, RecordFinal, Exit, Goto,
           Requeue, Settle, Places
      <4>. QED  BY <1>1, <1>4, <4>1
    <3>. QED  BY <1>4, <3>1, <3>2 DEF WorkerStep
  <2>3. CASE Begin(v)
    <3>1. UNCHANGED <<stored, task, game>> /\ pc[v] = "starting"
          /\ pc'[v] = IF Analysed(MyGame(v)) THEN "completing" ELSE "analyzing"
      BY <1>1, <2>3 DEF Begin, KeepManager, jobVars, Goto
    <3>. QED  BY <3>1 DEF Analysed, MyGame
  <2>4. CASE Analyze(v)
    <3>1. UNCHANGED <<stored, task, game>> /\ pc[v] = "analyzing"
          /\ pc'[v] \in {"saving", "retryable", "error", "exception"}
      BY <1>1, <2>4 DEF Analyze, KeepManager, jobVars, durableVars, Goto
    <3>. QED  BY <3>1 DEF StoredInv, MyGame
  <2>5. CASE SaveAnalysis(v)
    <3>1. /\ UNCHANGED <<task, game>> /\ pc[v] = "saving" /\ pc'[v] = "completing"
          /\ stored' = [stored EXCEPT ![MyGame(v)] = "analysis"]
      BY <1>1, <2>5 DEF SaveAnalysis, KeepManager, jobVars, Goto
    <3>2. MyGame(v)' = MyGame(v) /\ MyGame(v) \in Games
      BY <1>1, <3>1 DEF MyGame
    <3>. QED  BY <1>1, <3>1, <3>2
  <2>. QED  BY <2>1, <2>3, <2>4, <2>5
<1>5. ASSUME NEW v \in Workers, ~WorkerStep(v), pc'[v] \in At
      PROVE  pc'[v] = pc[v] /\ task'[v] = task[v]
  <2>1. ASSUME NEW w \in Workers, WorkerStep(w) PROVE pc'[v] = pc[v] /\ task'[v] = task[v]
    BY <1>5, <2>1, WorkerShapes DEF ShapedStep, OthersStay
  <2>2. ASSUME ShapedElsewhere PROVE pc'[v] = pc[v] /\ task'[v] = task[v]
    BY <1>5, <2>2 DEF ShapedElsewhere, Quiet, Promotes, GoesDown, ComesUp, Cancels, Admits
  <2>. QED  BY <2>1, <2>2, OtherShapes
<1>6. \A v \in Workers : Good(v)
  BY <1>3, <1>4, <1>5
<1>7. \A c \in Clients : \A i \in DOMAIN inputs'[c] :
        inputs'[c][i].has = "analysis" => stored'[inputs'[c][i].game] = "analysis"
  <2>. DEFINE Known(s) == \A i \in DOMAIN s : s[i].has = "analysis" =>
                            s[i].game \in Games /\ stored[s[i].game] = "analysis"
  <2>1. \A c \in Clients : Known(inputs[c])
    <3>. SUFFICES ASSUME NEW c \in Clients PROVE Known(inputs[c])
      OBVIOUS
    <3>. DEFINE s == inputs[c]
    <3>1. /\ s \in Seq(Input)
          /\ \A i \in DOMAIN s : s[i].has = "analysis" => stored[s[i].game] = "analysis"
      BY DEF CoreInv, ClientTypes, StoredInv
    <3>. HIDE DEF s
    <3>2. \A i \in DOMAIN s : s[i] \in Input
      BY <3>1
    <3>3. \A i \in DOMAIN s : s[i].game \in Games
      BY <3>2 DEF Input
    <3>. QED  BY <3>1, <3>3 DEF s
  <2>2. /\ inputs \in [Clients -> Seq(Input)] /\ Known(<<>>)
    BY DEF CoreInv, ClientTypes
  <2>3. \A c \in Clients : Known(inputs'[c])
    <3>. HIDE DEF Known
    <3>1. CASE UNCHANGED inputs
      BY <2>1, <3>1
    <3>2. ASSUME NEW c \in Clients, Admit(c) \/ Refuse(c) \/ OutOfNames(c)
          PROVE  \A d \in Clients : Known(inputs'[d])
      <4>1. inputs' = [inputs EXCEPT ![c] = <<>>]
        BY <3>2 DEF Admit, Refuse, OutOfNames, EndCall
      <4>. QED  BY <2>1, <2>2, <4>1
    <3>3. ASSUME NEW c \in Clients, BeginStart(c)
          PROVE  \A d \in Clients : Known(inputs'[d])
      <4>1. PICK s \in Seq(Input) :
              /\ inputs' = [inputs EXCEPT ![c] = s]
              /\ \A i \in DOMAIN s : s[i].has = stored[s[i].game]
        BY <3>3, BegunInputs
      <4>2. \A i \in DOMAIN s : s[i] \in Input
        OBVIOUS
      <4>3. \A i \in DOMAIN s : s[i].game \in Games
        BY <4>2 DEF Input
      <4>4. Known(s)
        BY <4>1, <4>3 DEF Known
      <4>. QED  BY <2>1, <2>2, <4>1, <4>4
    <3>4. CASE Join \/ Crash \/ Restart
      <4>1. inputs' = [c \in Clients |-> <<>>]
        BY <3>4 DEF Join, Crash, Down, Restart, Forget
      <4>. QED  BY <2>2, <4>1
    <3>. QED
      BY <3>1, <3>2, <3>3, <3>4, Zenon DEF Next, ClientStep, Cancel, SetPaused, Record,
         SavePaused, Close, RestartRefused, vars, clientVars, WorkerStep, Take, Begin, Analyze,
         SaveShallow, HandOver, RecordQueued, SaveAnalysis, SaveFails, Complete, CatchCancelled,
         CatchPreempted, CatchRetry, CatchFailed, FinishTask, Reread, RecordFinal, Exit,
         KeepManager, Requeue, Settle
  <2>. QED  BY <2>3, StoredGrows
<1>. QED  BY <1>2, <1>6, <1>7 DEF StoredInv

(* A job is complete only if the repository has the analysis of its game, so  *)
(* a crash never loses what a user was shown as done (job_manager.cpp:449).   *)
THEOREM CompleteOnesStored == Spec => []CompleteIsStored
<1>. DEFINE I == LivesInv /\ StoredInv
<1>1. Init => I
  <2>1. ASSUME Init PROVE I
    <3>1. LivesInv
      BY <2>1, CoreAtFirst DEF LivesInv, Init, DownInv, OneLiveJobPerGame, NoJobs
    <3>2. /\ status = NoJobs /\ pc = [w \in Workers |-> "idle"]
          /\ inputs = [c \in Clients |-> <<>>]
      BY <2>1 DEF Init
    <3>3. \A c \in Clients : inputs[c] = <<>>
      BY <3>2
    <3>. QED  BY <3>1, <3>2, <3>3 DEF StoredInv, CompleteIsStored, NoJobs
  <2>. QED  BY <2>1
<1>2. I /\ [Next]_vars => I'
  <2>1. LivesInv /\ [Next]_vars => LivesInv'
    BY CoreKept, DownKept, LiveKept DEF LivesInv
  <2>. QED  BY <2>1, StoredKept
<1>3. I => CompleteIsStored
  BY DEF StoredInv
<1>. QED  BY <1>1, <1>2, <1>3, PTL DEF Spec

-----------------------------------------------------------------------------
(* The slots of the workers.                                                  *)

OutOfSlot == {"idle", "reporting", "recording", "exited"}

LEMMA SlotTakenUp ==
  ASSUME CoreInv, SlotsAccounted, NEW w \in Workers, Take(w)
  PROVE  SlotsAccounted'
<1>1. /\ pc \in [Workers -> Places] /\ task \in [Workers -> Task]
      /\ activeBy \in [Priorities -> Int] /\ Lined(queues)
  BY DEF CoreInv, WorkerTypes, OtherTypes, QueueInv
<1>2. PICK p \in Runnable :
         LET t == Head(queues[p]) IN
         IF Dropped(t)
         THEN UNCHANGED <<status, registry, activeBy, pc, task>>
         ELSE /\ activeBy' = [activeBy EXCEPT ![p] = @ + 1]
              /\ task' = [task EXCEPT ![w] = t]
              /\ Goto(w, "starting")
  BY DEF Take
<1>3. CASE Dropped(Head(queues[p]))
  BY <1>2, <1>3 DEF SlotsAccounted, SlotsAt
<1>4. CASE ~Dropped(Head(queues[p]))
  <2>. DEFINE t == Head(queues[p])
  <2>1. p \in Priorities /\ t \in JobTask /\ t.priority = p
    BY <1>1, LinedPopped DEF Runnable
  <2>2. /\ activeBy' = [activeBy EXCEPT ![p] = @ + 1] /\ task' = [task EXCEPT ![w] = t]
        /\ pc' = [pc EXCEPT ![w] = "starting"] /\ pc[w] = "idle"
    BY <1>2, <1>4 DEF Goto, Take
  <2>. HIDE DEF t
  <2>3. SlotsAt(p)' = SlotsAt(p) \cup {w} /\ w \notin SlotsAt(p)
    BY <1>1, <2>1, <2>2 DEF SlotsAt
  <2>4. \A q \in Priorities \ {p} : SlotsAt(q)' = SlotsAt(q)
    BY <1>1, <2>1, <2>2 DEF SlotsAt
  <2>5. \A q \in Priorities : SlotsAt(q) \in SUBSET Workers /\ activeBy[q] = Cardinality(SlotsAt(q))
    BY DEF SlotsAt, SlotsAccounted
  <2>6. Cardinality(SlotsAt(p)') = Cardinality(SlotsAt(p)) + 1
    BY <2>1, <2>3, <2>5, WorkersCount, FS_AddElement
  <2>7. \A q \in Priorities : activeBy'[q] = Cardinality(SlotsAt(q)')
    BY <1>1, <2>1, <2>2, <2>4, <2>5, <2>6
  <2>8. Cardinality(Workers) > 1 => Cardinality(SlotsAt(Historical)') < Cardinality(Workers)
    <3>1. CASE p = Historical
      <4>1. activeBy[p] < HistoricalLimit
        BY <3>1 DEF Runnable
      <4>2. Cardinality(SlotsAt(p)) \in Nat /\ Cardinality(Workers) \in Nat
        BY <2>1, <2>5, WorkersCount
      <4>3. Cardinality(SlotsAt(p)) < HistoricalLimit
        BY <2>1, <2>5, <4>1
      <4>. QED  BY <2>6, <3>1, <4>2, <4>3 DEF HistoricalLimit
    <3>2. CASE p # Historical
      BY <2>4, <3>2 DEF Historical, Priorities, SlotsAccounted
    <3>. QED  BY <3>1, <3>2
  <2>. QED  BY <2>7, <2>8 DEF SlotsAccounted
<1>. QED  BY <1>3, <1>4

LEMMA SlotGivenBack ==
  ASSUME CoreInv, SlotsAccounted, NEW w \in Workers, FinishTask(w)
  PROVE  SlotsAccounted'
<1>1. /\ pc \in [Workers -> Places] /\ task \in [Workers -> Task]
      /\ activeBy \in [Priorities -> Int]
  BY DEF CoreInv, WorkerTypes, OtherTypes
<1>2. PICK p \in Priorities : p = task[w].priority
  BY <1>1 DEF Task
<1>3. /\ pc[w] \in {"finishing", "leaving"}
      /\ activeBy' = [activeBy EXCEPT ![p] = @ - 1]
      /\ \E x, t : /\ x \in {"idle", "reporting"} /\ pc' = [pc EXCEPT ![w] = x]
                   /\ task' = [task EXCEPT ![w] = t]
  BY <1>2 DEF FinishTask, Goto, SlotTaken
<1>5. SlotsAt(p)' = SlotsAt(p) \ {w} /\ w \in SlotsAt(p)
  <2>1. w \in SlotsAt(p)
    BY <1>2, <1>3 DEF SlotsAt
  <2>2. pc'[w] \in OutOfSlot /\ \A v \in Workers \ {w} : pc'[v] = pc[v] /\ task'[v] = task[v]
    BY <1>1, <1>3 DEF OutOfSlot
  <2>. QED  BY <2>1, <2>2 DEF SlotsAt, OutOfSlot
<1>6. \A q \in Priorities \ {p} : SlotsAt(q)' = SlotsAt(q)
  BY <1>1, <1>2, <1>3 DEF SlotsAt
<1>7. \A q \in Priorities : SlotsAt(q) \in SUBSET Workers /\ activeBy[q] = Cardinality(SlotsAt(q))
  BY DEF SlotsAt, SlotsAccounted
<1>8. Cardinality(SlotsAt(p)') = Cardinality(SlotsAt(p)) - 1
  BY <1>2, <1>5, <1>7, WorkersCount, FS_RemoveElement
<1>9. \A q \in Priorities : activeBy'[q] = Cardinality(SlotsAt(q)')
  <2>1. activeBy'[p] = activeBy[p] - 1 /\ \A q \in Priorities \ {p} : activeBy'[q] = activeBy[q]
    BY <1>1, <1>2, <1>3
  <2>. QED  BY <1>2, <1>6, <1>7, <1>8, <2>1
<1>10. Historical \in Priorities
  BY DEF Historical, Priorities
<1>11. Cardinality(SlotsAt(Historical)') <= Cardinality(SlotsAt(Historical))
  <2>1. Cardinality(SlotsAt(Historical)) \in Nat
    BY <1>7, <1>10, WorkersCount
  <2>2. CASE p = Historical
    <3>1. Cardinality(SlotsAt(p)) \in Nat
      BY <2>1, <2>2
    <3>. QED  BY <1>8, <2>2, <3>1
  <2>3. CASE p # Historical
    BY <1>6, <1>10, <2>1, <2>3
  <2>. QED  BY <2>2, <2>3
<1>12. Cardinality(Workers) > 1 => Cardinality(SlotsAt(Historical)') < Cardinality(Workers)
  <2>1. /\ Cardinality(SlotsAt(Historical)) \in Nat /\ Cardinality(Workers) \in Nat
        /\ Cardinality(SlotsAt(Historical)') \in Nat
    <3>1. SlotsAt(Historical)' \in SUBSET Workers
      BY DEF SlotsAt
    <3>. QED  BY <1>7, <1>10, <3>1, WorkersCount
  <2>. QED  BY <1>11, <2>1 DEF SlotsAccounted
<1>. QED  BY <1>9, <1>12 DEF SlotsAccounted

LEMMA SlotsKept ==
  ASSUME CoreInv, SlotsAccounted, [Next]_vars
  PROVE  SlotsAccounted'
<1>1. pc \in [Workers -> Places] /\ task \in [Workers -> Task]
  BY DEF CoreInv, WorkerTypes
<1>2. ASSUME UNCHANGED activeBy, \A p : SlotsAt(p)' = SlotsAt(p)
      PROVE  SlotsAccounted'
  BY <1>2 DEF SlotsAccounted
<1>3. ASSUME NEW w \in Workers, WorkerStep(w), ~Take(w), ~FinishTask(w)
      PROVE  SlotsAccounted'
  <2>1. UNCHANGED activeBy
    BY <1>3, Zenon DEF WorkerStep, Begin, Analyze, SaveShallow, HandOver, RecordQueued,
       SaveAnalysis, SaveFails, Complete, CatchCancelled, CatchPreempted, CatchRetry, CatchFailed,
       Reread, RecordFinal, Exit, KeepManager, Requeue, Settle, schedVars
  <2>2. CASE Reread(w) \/ RecordFinal(w) \/ Exit(w)
    <3>1. /\ pc[w] \in OutOfSlot
          /\ \E x \in OutOfSlot : pc' = [pc EXCEPT ![w] = x]
          /\ UNCHANGED task \/ \E t : task' = [task EXCEPT ![w] = t]
      BY <2>2 DEF Reread, RecordFinal, Exit, Goto, KeepManager, OutOfSlot
    <3>2. \A p : SlotsAt(p)' = SlotsAt(p)
      BY <1>1, <3>1 DEF SlotsAt, OutOfSlot
    <3>. QED  BY <1>2, <2>1, <3>2
  <2>3. CASE ~(Reread(w) \/ RecordFinal(w) \/ Exit(w))
    <3>1. pc[w] \notin OutOfSlot
      BY <1>3, <2>3, Zenon DEF WorkerStep, Begin, Analyze, SaveShallow, HandOver, RecordQueued,
         SaveAnalysis, SaveFails, Complete, CatchCancelled, CatchPreempted, CatchRetry,
         CatchFailed, Thrown, OutOfSlot
    <3>2. \E x \in Places \ OutOfSlot : pc' = [pc EXCEPT ![w] = x]
      BY <1>3, <2>3 DEF WorkerStep, Begin, Analyze, SaveShallow, HandOver, RecordQueued,
         SaveAnalysis, SaveFails, Complete, CatchCancelled, CatchPreempted, CatchRetry,
         CatchFailed, Goto, Requeue, Settle, OutOfSlot, Places
    <3>3. UNCHANGED task
      BY <1>3, <2>3, Zenon DEF WorkerStep, Begin, Analyze, SaveShallow, HandOver, RecordQueued,
         SaveAnalysis, SaveFails, Complete, CatchCancelled, CatchPreempted, CatchRetry,
         CatchFailed, KeepManager, Requeue, Settle
    <3>4. \A p : SlotsAt(p)' = SlotsAt(p)
      BY <1>1, <3>1, <3>2, <3>3 DEF SlotsAt, OutOfSlot
    <3>. QED  BY <1>2, <2>1, <3>4
  <2>. QED  BY <2>2, <2>3
<1>4. CASE Join \/ Crash \/ Restart
  <2>1. activeBy' = [p \in Priorities |-> 0] /\ pc' = [w \in Workers |-> "idle"]
    BY <1>4 DEF Join, Crash, Down, Restart, Forget
  <2>2. \A p : SlotsAt(p)' = {}
    BY <2>1 DEF SlotsAt
  <2>3. Cardinality({}) = 0 /\ Cardinality(Workers) \in Nat
    BY FS_EmptySet, WorkersCount
  <2>. QED  BY <2>1, <2>2, <2>3 DEF SlotsAccounted
<1>5. ASSUME ~(Join \/ Crash \/ Restart), \A w \in Workers : ~WorkerStep(w)
      PROVE  SlotsAccounted'
  <2>1. UNCHANGED <<activeBy, pc, task>>
    BY <1>5, Zenon DEF Next, ClientStep, BeginStart, Cancel, SetPaused, Admit, Refuse, OutOfNames,
       Record, SavePaused, Close, RestartRefused, vars, workerVars, schedVars
  <2>. QED  BY <1>2, <2>1 DEF SlotsAt
<1>. QED  BY <1>3, <1>4, <1>5, SlotTakenUp, SlotGivenBack

(* The slots counted by priority are those of the workers that hold a task,   *)
(* and with more than one worker historical work always leaves one of them    *)
(* free (architecture.html, "Priority invariant"; job_manager.cpp:302, 318).  *)
THEOREM SlotsCounted == Spec => []SlotsAccounted
<1>. DEFINE I == CoreInv /\ SlotsAccounted
<1>1. Init => I
  <2>1. ASSUME Init PROVE SlotsAccounted
    <3>1. \A p : SlotsAt(p) = {}
      BY <2>1 DEF Init, SlotsAt
    <3>2. Cardinality({}) = 0 /\ Cardinality(Workers) \in Nat
      BY FS_EmptySet, WorkersCount
    <3>3. activeBy = [p \in Priorities |-> 0]
      BY <2>1 DEF Init
    <3>. QED  BY <3>1, <3>2, <3>3 DEF SlotsAccounted
  <2>. QED  BY <2>1, CoreAtFirst
<1>2. I /\ [Next]_vars => I'
  BY CoreKept, SlotsKept
<1>. QED  BY <1>1, <1>2, PTL DEF Spec

(* Every variable keeps its type: the tasks in the queues, at the workers and *)
(* in the calls of clients are complete records of jobs that exist.           *)
THEOREM TypesHold == Spec => []TypeOK
<1>1. CoreInv /\ SlotsAccounted => TypeOK
  <2>. SUFFICES ASSUME CoreInv, SlotsAccounted PROVE TypeOK
    OBVIOUS
  <2>1. \A t \in QueuedTasks : TaskOK(t) /\ t.job # 0
    <3>. SUFFICES ASSUME NEW p \in Priorities, NEW i \in DOMAIN queues[p]
                  PROVE  TaskOK(queues[p][i]) /\ queues[p][i].job # 0
      BY DEF QueuedTasks
    <3>. DEFINE s == queues[p]
    <3>1. s \in Seq(JobTask) /\ i \in DOMAIN s
      BY DEF CoreInv, QueueInv, Lined
    <3>. HIDE DEF s
    <3>2. s[i] \in JobTask
      BY <3>1
    <3>3. TaskOK(s[i]) /\ s[i].job # 0
      BY <3>2, JobBounds DEF TaskOK, JobTask, JobIds
    <3>. QED  BY <3>3 DEF s
  <2>2. activeBy \in [Priorities -> 0..Cardinality(Workers)]
    <3>1. activeBy \in [Priorities -> Int]
      BY DEF CoreInv, OtherTypes
    <3>2. \A p \in Priorities : activeBy[p] \in 0..Cardinality(Workers)
      <4>1. \A p : SlotsAt(p) \in SUBSET Workers
        BY DEF SlotsAt
      <4>. QED  BY <4>1, WorkersCount DEF SlotsAccounted
    <3>. QED  BY <3>1, <3>2
  <2>3. \A w \in Workers : TaskOK(task[w]) /\ (pc[w] \notin {"idle", "exited"} => Mine(w) # 0)
    BY DEF CoreInv, WorkerTypes, TaskOK, Task, JobIds
  <2>4. DOMAIN queues = Priorities
    BY DEF CoreInv, QueueInv, Lined
  <2>5. \A j \in JobIds : registry[j] # Unregistered =>
          registry[j].priority \in Priorities /\ registry[j].token \in Tokens
    BY DEF CoreInv, OtherTypes, Registration
  <2>. QED  BY <2>1, <2>2, <2>3, <2>4, <2>5 DEF TypeOK, CoreInv, JobTypes, WorkerTypes,
                ClientTypes, OtherTypes, Contents
<1>. QED  BY <1>1, CoreHolds, SlotsCounted, PTL

-----------------------------------------------------------------------------
(* A single worker gives way to urgent work.                                  *)

(* A call that asks for priority names one game.                              *)
CallInv == \A c \in Clients : wanted[c] # Historical => Len(inputs[c]) = 1

(* The registration of the only worker's job is that of the worker's task.    *)
RegisteredInv ==
  Cardinality(Workers) = 1 =>
    \A w \in Workers : Executing(w) =>
      registry[Mine(w)] = [priority |-> task[w].priority, token |-> task[w].token]

(* Historical work that is to go on is stopped once urgent work waits.        *)
UrgentWaits(Q) == Q[0] # <<>> \/ Q[1] # <<>>
GivesWay ==
  Cardinality(Workers) = 1 /\ UrgentWaits(queues) =>
    \A w \in Workers :
      pc[w] \in {"starting", "analyzing"} /\ task[w].priority = Historical => Stopped(task[w])

PreemptInv == CallInv /\ RegisteredInv /\ GivesWay

LEMMA OneWorker ==
  ASSUME Cardinality(Workers) = 1, NEW v \in Workers, NEW w \in Workers
  PROVE  v = w
<1>1. PICK x : Workers = {x}
  BY JobBounds, FS_Singleton
<1>. QED  BY <1>1

LEMMA CallsKept ==
  ASSUME CoreInv, CallInv, [Next]_vars
  PROVE  CallInv'
<1>. DEFINE Fine(p, s) == p # Historical => Len(s) = 1
<1>1. /\ wanted \in [Clients -> Priorities] /\ inputs \in [Clients -> Seq(Input)]
      /\ \A c \in Clients : Fine(wanted[c], inputs[c])
  BY DEF CoreInv, ClientTypes, CallInv
<1>2. \A s : Fine(Historical, s)
  OBVIOUS
<1>3. ASSUME NEW c \in Clients, NEW p, NEW s, Fine(p, s),
             wanted' = [wanted EXCEPT ![c] = p], inputs' = [inputs EXCEPT ![c] = s]
      PROVE  CallInv'
  <2>1. \A d \in Clients : Fine(wanted'[d], inputs'[d])
    <3>. HIDE DEF Fine
    <3>. QED  BY <1>1, <1>3
  <2>. QED  BY <2>1 DEF CallInv
<1>4. CASE UNCHANGED <<wanted, inputs>>
  BY <1>4 DEF CallInv
<1>5. ASSUME NEW c \in Clients, BeginStart(c) PROVE CallInv'
  <2>1. PICK s \in Seq(Input), p \in Priorities :
          /\ inputs' = [inputs EXCEPT ![c] = s] /\ wanted' = [wanted EXCEPT ![c] = p]
          /\ Fine(p, s)
    BY <1>5, BegunInputs
  <2>. QED  BY <1>3, <2>1
<1>6. ASSUME NEW c \in Clients, Admit(c) \/ Refuse(c) \/ OutOfNames(c) PROVE CallInv'
  <2>1. wanted' = [wanted EXCEPT ![c] = Historical] /\ inputs' = [inputs EXCEPT ![c] = <<>>]
    BY <1>6 DEF Admit, Refuse, OutOfNames, EndCall
  <2>. QED  BY <1>2, <1>3, <2>1
<1>7. CASE Join \/ Crash \/ Restart
  <2>1. wanted' = [c \in Clients |-> Historical]
    BY <1>7 DEF Join, Crash, Down, Restart, Forget
  <2>. QED  BY <2>1 DEF CallInv
<1>. QED
  BY <1>4, <1>5, <1>6, <1>7, Zenon DEF Next, ClientStep, Cancel, SetPaused, Record, SavePaused,
     Close, RestartRefused, vars, clientVars, WorkerStep, Take, Begin, Analyze, SaveShallow,
     HandOver, RecordQueued, SaveAnalysis, SaveFails, Complete, CatchCancelled, CatchPreempted,
     CatchRetry, CatchFailed, FinishTask, Reread, RecordFinal, Exit, KeepManager, Requeue, Settle

LEMMA RegisteredKept ==
  ASSUME CoreInv, RegisteredInv, [Next]_vars
  PROVE  RegisteredInv'
<1>. SUFFICES ASSUME Cardinality(Workers) = 1, NEW w \in Workers, Executing(w)'
              PROVE  registry'[Mine(w)'] = [priority |-> task'[w].priority, token |-> task'[w].token]
  BY DEF RegisteredInv
<1>1. pc \in [Workers -> Places] /\ task \in [Workers -> Task] /\ registry \in [JobIds -> Registration]
  BY DEF CoreInv, WorkerTypes, OtherTypes
<1>2. Executing(w) => registry[Mine(w)] = [priority |-> task[w].priority, token |-> task[w].token]
  BY DEF RegisteredInv
<1>3. CASE WorkerStep(w)
  <2>1. CASE Take(w)
    <3>1. PICK p \in Runnable :
           LET t == Head(queues[p]) IN
           IF Dropped(t)
           THEN UNCHANGED <<status, registry, activeBy, pc, task>>
           ELSE /\ registry' = [registry EXCEPT ![t.job] = [priority |-> p, token |-> t.token]]
                /\ task' = [task EXCEPT ![w] = t]
                /\ Goto(w, "starting")
      BY <2>1 DEF Take
    <3>2. pc[w] = "idle"
      BY <2>1 DEF Take
    <3>3. ~Dropped(Head(queues[p]))
      BY <3>1, <3>2 DEF Executing
    <3>. DEFINE t == Head(queues[p])
    <3>4. t \in JobTask /\ t.priority = p
      BY LinedPopped DEF Runnable, CoreInv, QueueInv
    <3>5. registry' = [registry EXCEPT ![t.job] = [priority |-> p, token |-> t.token]] /\ task'[w] = t
      BY <1>1, <3>1, <3>3
    <3>. HIDE DEF t
    <3>6. t.job \in JobIds
      BY <3>4 DEF JobTask
    <3>. QED  BY <1>1, <3>4, <3>5, <3>6 DEF Mine
  <2>2. CASE ~Take(w)
    <3>1. ~FinishTask(w)
      <4>1. FinishTask(w) => ~Executing(w)'
        BY <1>1 DEF FinishTask, Goto, Executing
      <4>. QED  BY <4>1
    <3>2. UNCHANGED registry
      BY <1>3, <2>2, <3>1, Zenon DEF WorkerStep, Begin, Analyze, SaveShallow, HandOver,
         RecordQueued, SaveAnalysis, SaveFails, Complete, CatchCancelled, CatchPreempted,
         CatchRetry, CatchFailed, Reread, RecordFinal, Exit, KeepManager, Requeue, Settle, schedVars
    <3>3. Executing(w) /\ task'[w] = task[w]
      <4>1. CASE Begin(w) \/ Analyze(w) \/ SaveShallow(w) \/ SaveAnalysis(w) \/ SaveFails(w)
        BY <4>1 DEF Begin, Analyze, SaveShallow, SaveAnalysis, SaveFails, KeepManager, Executing
      <4>2. CASE \/ HandOver(w) \/ RecordQueued(w) \/ Complete(w) \/ CatchCancelled(w)
                 \/ CatchPreempted(w) \/ CatchRetry(w) \/ CatchFailed(w) \/ Reread(w)
                 \/ RecordFinal(w) \/ Exit(w)
        <5>1. pc'[w] \in {"announcing", "leaving", "finishing", "recording", "idle", "exited"}
          BY <1>1, <4>2 DEF HandOver, RecordQueued, Complete, CatchCancelled, CatchPreempted,
             CatchRetry, CatchFailed, Reread, RecordFinal, Exit, Requeue, Settle, Goto
        <5>. QED  BY <5>1 DEF Executing
      <4>. QED  BY <1>3, <2>2, <3>1, <4>1, <4>2 DEF WorkerStep
    <3>. QED  BY <1>2, <3>2, <3>3 DEF Mine
  <2>. QED  BY <2>1, <2>2
<1>4. CASE ~WorkerStep(w)
  <2>1. \A v \in Workers : ~WorkerStep(v)
    BY <1>4, OneWorker
  <2>2. ~(Join \/ Crash \/ Restart)
    BY DEF Join, Crash, Restart, Down, Forget, Executing
  <2>3. UNCHANGED <<registry, pc, task>>
    BY <2>1, <2>2, Zenon DEF Next, ClientStep, BeginStart, Cancel, SetPaused, Admit, Refuse,
       OutOfNames, Record, SavePaused, Close, RestartRefused, vars, workerVars, schedVars
  <2>. QED  BY <1>2, <2>3 DEF Executing, Mine
<1>. QED  BY <1>3, <1>4

(* No queue becomes non-empty when a call has its promotions and no more, or  *)
(* when it is not urgent.                                                     *)
LEMMA UrgentBefore ==
  ASSUME Lined(queues), NEW J, NEW p \in Priorities, J = {} \/ p = Historical,
         UrgentWaits(MovedUp(J, p))
  PROVE  UrgentWaits(queues)
<1>. DEFINE M == MovedUp(J, p)
<1>1. \A q \in Priorities : M[q] # <<>> => queues[q] # <<>>
  BY MovedUpLined
<1>2. 0 \in Priorities /\ 1 \in Priorities
  BY DEF Priorities
<1>. HIDE DEF M
<1>3. M[0] # <<>> \/ M[1] # <<>>
  BY DEF UrgentWaits, M
<1>. QED  BY <1>1, <1>2, <1>3 DEF UrgentWaits

(* Historical work the only worker has at hand is among what makes way.       *)
LEMMA PreemptedWork ==
  ASSUME CoreInv, RegisteredInv, Cardinality(Workers) = 1, NEW w \in Workers, Executing(w),
         task[w].priority = Historical, NEW Q, UrgentWaits(Q), NEW p, p # Historical
  PROVE  <<task[w].job, task[w].token>> \in Preempted(Q, p)
<1>1. /\ registry[Mine(w)] = [priority |-> Historical, token |-> task[w].token]
      /\ task[w].token \in Tokens /\ Mine(w) \in JobIds
  BY DEF RegisteredInv, CoreInv, WorkerTypes, Task, Executing
<1>2. registry[Mine(w)] # Unregistered
  BY <1>1 DEF Unregistered, Tokens
<1>3. /\ Mine(w) \in {j \in Active : registry[j].priority = Historical}
      /\ registry[Mine(w)].token = task[w].token
  BY <1>1, <1>2 DEF Active
<1>4. Preempted(Q, p) = TokensOf({j \in Active : registry[j].priority = Historical})
  BY DEF Preempted, UrgentWaits
<1>. QED  BY <1>3, <1>4 DEF TokensOf, Mine

(* A call that the queue has no room for made no urgent work while the only   *)
(* worker executes: its own game needs a job, or nothing was added at all.    *)
LEMMA RefusedPromotesNothing ==
  ASSUME CoreInv, BacklogBounded, CallInv, Cardinality(Workers) = 1,
         NEW w \in Workers, Executing(w), NEW c \in Clients, ~Fits(c), wanted[c] # Historical
  PROVE  Overtaken(c) = {}
<1>1. Fresh(c) # <<>>
  <2>. SUFFICES ASSUME Fresh(c) = <<>> PROVE FALSE
    OBVIOUS
  <2>. DEFINE q == QueuedCount  e == Cardinality(Executors)  n == Len(NewTasks(c))
  <2>1. n = 0
    BY NoCallTasks
  <2>2. ~(q + n <= MaxQueued)
    BY DEF Fits
  <2>3. q + e <= MaxQueued + 1
    BY DEF BacklogBounded, Executors
  <2>4. q \in Nat
    BY BacklogType DEF CoreInv, QueueInv, QueuedCount, Backlog
  <2>5. e = 1
    <3>1. Executors = {w}
      BY OneWorker DEF Executors
    <3>. QED  BY <3>1, FS_Singleton
  <2>. HIDE DEF q, e, n
  <2>. QED  BY <2>1, <2>2, <2>3, <2>4, <2>5, JobBounds
<1>2. inputs[c] \in Seq(Input) /\ Len(inputs[c]) = 1 /\ OncePerGame(inputs[c])
  BY DEF CoreInv, ClientTypes, CallInv
<1>3. DOMAIN inputs[c] = {1}
  BY <1>2
<1>4. TakenCareOf(inputs[c][1].game) = {}
  <2>1. Fresh(c) \in Seq(Input)
    BY <1>2, FreshInputs
  <2>2. 1 \in DOMAIN Fresh(c)
    BY <1>1, <2>1
  <2>3. /\ TakenCareOf(Fresh(c)[1].game) = {}
        /\ \E k \in DOMAIN inputs[c] : Fresh(c)[1] = inputs[c][k]
    BY <1>2, <2>2, FreshInputs
  <2>. QED  BY <1>3, <2>3
<1>5. UNION {TakenCareOf(inputs[c][i].game) : i \in DOMAIN inputs[c]} = {}
  BY <1>3, <1>4
<1>. QED  BY <1>5 DEF Overtaken

LEMMA GivesWayKept ==
  ASSUME CoreInv, BacklogBounded, PreemptInv, [Next]_vars
  PROVE  GivesWay'
<1>. SUFFICES ASSUME Cardinality(Workers) = 1, UrgentWaits(queues'), NEW w \in Workers,
                     pc'[w] \in {"starting", "analyzing"}, task'[w].priority = Historical
              PROVE  <<task'[w].job, task'[w].token>> \in stopped'
  BY DEF GivesWay, Stopped
<1>1. pc \in [Workers -> Places] /\ task \in [Workers -> Task] /\ Lined(queues)
  BY DEF CoreInv, WorkerTypes, QueueInv
<1>2. ASSUME UrgentWaits(queues), pc[w] \in {"starting", "analyzing"},
             task[w].priority = Historical
      PROVE  <<task[w].job, task[w].token>> \in stopped
  BY <1>2 DEF PreemptInv, GivesWay, Stopped
<1>3. CASE WorkerStep(w)
  <2>1. CASE Take(w)
    <3>1. PICK p \in Runnable :
           LET t == Head(queues[p]) IN
           /\ \A q \in Runnable : p <= q
           /\ queues' = [queues EXCEPT ![p] = Tail(@)]
           /\ IF Dropped(t)
              THEN UNCHANGED <<status, registry, activeBy, pc, task>>
              ELSE /\ task' = [task EXCEPT ![w] = t]
                   /\ Goto(w, "starting")
      BY <2>1 DEF Take
    <3>2. pc[w] = "idle"
      BY <2>1 DEF Take
    <3>3. ~Dropped(Head(queues[p]))
      BY <3>1, <3>2
    <3>4. task'[w] = Head(queues[p]) /\ Head(queues[p]).priority = p /\ p \in Priorities
      BY <1>1, <3>1, <3>3, LinedPopped DEF Runnable
    <3>5. p = Historical
      BY <3>4
    <3>6. queues[0] = <<>> /\ queues[1] = <<>>
      BY <3>1, <3>5 DEF Runnable, Historical, Priorities
    <3>7. queues'[0] = queues[0] /\ queues'[1] = queues[1]
      BY <1>1, <3>1, <3>5 DEF Lined, Historical, Priorities
    <3>. QED  BY <3>6, <3>7 DEF UrgentWaits
  <2>2. CASE Begin(w)
    <3>1. UNCHANGED <<queues, stopped, task>> /\ pc[w] = "starting"
      BY <2>2 DEF Begin, KeepManager, schedVars
    <3>. QED  BY <1>2, <3>1
  <2>3. CASE ~Take(w) /\ ~Begin(w)
    <3>1. \E x \in Places \ {"starting", "analyzing"} : pc' = [pc EXCEPT ![w] = x]
      BY <1>3, <2>3 DEF WorkerStep, Analyze, SaveShallow, HandOver, RecordQueued, SaveAnalysis,
         SaveFails, Complete, CatchCancelled, CatchPreempted, CatchRetry, CatchFailed,
         FinishTask, Reread, RecordFinal, Exit, Goto, Requeue, Settle, Places
    <3>. QED  BY <1>1, <3>1
  <2>. QED  BY <2>1, <2>2, <2>3
<1>4. CASE ~WorkerStep(w)
  <2>1. \A v \in Workers : ~WorkerStep(v)
    BY <1>4, OneWorker
  <2>2. ~(Join \/ Crash \/ Restart)
    BY DEF Join, Crash, Restart, Down, Forget
  <2>3. UNCHANGED <<pc, task>>
    BY <2>1, <2>2, Zenon DEF Next, ClientStep, BeginStart, Cancel, SetPaused, Admit, Refuse,
       OutOfNames, Record, SavePaused, Close, RestartRefused, vars, workerVars
  <2>4. pc[w] \in {"starting", "analyzing"} /\ task[w].priority = Historical /\ Executing(w)
    BY <2>3 DEF Executing
  <2>. DEFINE mine == <<task[w].job, task[w].token>>
  <2>5. <<task'[w].job, task'[w].token>> = mine
    BY <2>3
  <2>6. UrgentWaits(queues) => mine \in stopped
    BY <1>2, <2>4
  <2>. HIDE DEF mine
  <2>7. ASSUME NEW c \in Clients, Admit(c)
        PROVE  mine \in stopped'
    <3>. DEFINE p == wanted[c]  M == MovedUp(Overtaken(c), p)
                lined == [M EXCEPT ![p] = @ \o NewTasks(c)]
    <3>1. /\ queues' = lined
          /\ stopped' = stopped \cup Halted(Overtaken(c), p) \cup Preempted(lined, p)
      BY <2>7 DEF Admit
    <3>2. p \in Priorities
      BY DEF CoreInv, ClientTypes
    <3>3. CASE p # Historical
      <4>1. mine \in Preempted(lined, p)
        <5>. HIDE DEF lined, p
        <5>. QED  BY <2>4, <3>1, <3>3, PreemptedWork DEF PreemptInv, mine
      <4>. QED  BY <3>1, <4>1
    <3>4. CASE p = Historical
      <4>1. lined[0] = M[0] /\ lined[1] = M[1]
        BY <3>4 DEF Historical
      <4>2. UrgentWaits(M)
        BY <3>1, <4>1 DEF UrgentWaits
      <4>3. UrgentWaits(queues)
        BY <1>1, <3>2, <3>4, <4>2, UrgentBefore
      <4>. QED  BY <2>6, <3>1, <4>3
    <3>. QED  BY <3>3, <3>4
  <2>8. ASSUME NEW c \in Clients, Refuse(c)
        PROVE  mine \in stopped'
    <3>1. queues' = MovedUp(Overtaken(c), wanted[c]) /\ stopped \subseteq stopped' /\ ~Fits(c)
      BY <2>8 DEF Refuse
    <3>2. wanted[c] \in Priorities
      BY DEF CoreInv, ClientTypes
    <3>3. Overtaken(c) = {} \/ wanted[c] = Historical
      BY <2>4, <3>1, RefusedPromotesNothing DEF PreemptInv
    <3>4. UrgentWaits(queues)
      BY <1>1, <3>1, <3>2, <3>3, UrgentBefore
    <3>. QED  BY <2>6, <3>1, <3>4
  <2>9. CASE ~\E c \in Clients : Admit(c) \/ Refuse(c)
    <3>1. UNCHANGED queues /\ (UNCHANGED stopped \/ \E S : stopped' = stopped \cup S)
      BY <2>1, <2>2, <2>9, Zenon DEF Next, ClientStep, BeginStart, Cancel, SetPaused, OutOfNames,
         Record, SavePaused, Close, RestartRefused, vars, schedVars
    <3>2. stopped \subseteq stopped' /\ UrgentWaits(queues)
      BY <3>1
    <3>. QED  BY <2>5, <2>6, <3>2
  <2>. QED  BY <2>5, <2>7, <2>8, <2>9
<1>. QED  BY <1>3, <1>4

(* A single worker never goes on with a historical analysis, its token not    *)
(* stopped, while more urgent work waits: an admission stops it, a refused    *)
(* call leaves no urgent work behind, and a worker that takes historical work *)
(* found the other queues empty (job_manager.cpp:289; job_tests.cpp:335).     *)
THEOREM UrgentWorkPreempts == Spec => []SingleWorkerPreempts
<1>. DEFINE I == CoreInv /\ BacklogBounded /\ PreemptInv
<1>1. Init => PreemptInv
  <2>1. ASSUME Init PROVE PreemptInv
    <3>1. \A w \in Workers : pc[w] = "idle"
      BY <2>1 DEF Init
    <3>2. \A c \in Clients : wanted[c] = Historical
      BY <2>1 DEF Init
    <3>. QED  BY <3>1, <3>2 DEF PreemptInv, CallInv, RegisteredInv, GivesWay, Executing
  <2>. QED  BY <2>1
<1>2. CoreInv /\ BacklogBounded /\ PreemptInv /\ [Next]_vars => PreemptInv'
  BY CallsKept, RegisteredKept, GivesWayKept DEF PreemptInv
<1>3. PreemptInv => SingleWorkerPreempts
  BY DEF PreemptInv, GivesWay, UrgentWaits, SingleWorkerPreempts
<1>. QED  BY <1>1, <1>2, <1>3, CoreHolds, QueuesBounded, PTL DEF Spec
==============================================================================
