-------------------------- MODULE RepositoryProofs --------------------------
(* What the repository promises, proved for every set of games, every bound   *)
(* and every snapshot file: the types and the ids, the derived indexes, what  *)
(* a restart shows and keeps, and what compaction leaves as it was.           *)
EXTENDS RepositoryReplay

-----------------------------------------------------------------------------
(* The events that no index file shows: an operation that appends only these  *)
(* rebuilds none.                                                             *)
Unindexed == {"job", "paused", "batch", "session", "saved", "deleted", "review"}

(* An operation other than create_snapshot begins.                            *)
Opening ==
  /\ up /\ call = NoCall
  /\ call' \in [op : Operations \ {"snapshot"}, todo : Seq(PlainEvents), added : {FALSE}]
  /\ call'.todo # <<>> /\ nextId + Len(call'.todo) <= MaxEvents + 1
  /\ memory' \in Memories /\ Takes(memory, memory', call'.todo)
  /\ Planned(memory', call'.todo)
  /\ ~Starts(call'.todo, "snapshot") /\ ~Starts(call'.todo, "parsed")
  /\ ~Rebuilds(call'.op) =>
       \A i \in DOMAIN call'.todo : call'.todo[i].kind \in Unindexed
  /\ UNCHANGED <<log, nextId, noted, index, files, due, up, mishaps, scope, clean, faults>>

(* A call that has one event to append.                                       *)
LEMMA PlannedOne ==
  ASSUME NEW m, NEW e, PlannedEvent(m, e), e.kind \notin Importing,
         e.kind = "drill" /\ e.of \in Games => "deep" \in m.games[e.of]
  PROVE  Planned(m, <<e>>)
<1>1. DOMAIN <<e>> = {1} /\ Len(<<e>>) = 1 /\ <<e>>[1] = e /\ <<e>> # <<>>
  OBVIOUS
<1>2. \A i, j \in {1} : ~(i < j)
  OBVIOUS
<1>3. Linked(<<e>>)
  BY <1>1, <1>2 DEF Linked, Importing
<1>. QED  BY <1>1, <1>3 DEF Planned, Starts

(* One that has two or three.                                                 *)
LEMMA PlannedTwo ==
  ASSUME NEW m, NEW e, NEW f, PlannedEvent(m, e), PlannedEvent(m, f),
         e.kind \notin Importing \cup {"drill"},
         f.kind \notin Importing \cup First \cup {"drill"}
  PROVE  Planned(m, <<e, f>>)
<1>1. /\ DOMAIN <<e, f>> = {1, 2} /\ Len(<<e, f>>) = 2 /\ <<e, f>> # <<>>
      /\ <<e, f>>[1] = e /\ <<e, f>>[2] = f
  OBVIOUS
<1>2. Linked(<<e, f>>)
  BY <1>1 DEF Linked, Importing
<1>. QED  BY <1>1, <1>2 DEF Planned, Starts

(* A call that appends the detail, the summary and the drill of an            *)
(* analysis.                                                                  *)
LEMMA PlannedThree ==
  ASSUME NEW m, NEW e, NEW f, NEW h,
         PlannedEvent(m, e), PlannedEvent(m, f), PlannedEvent(m, h),
         e.kind = "detail", f.kind = "analysed", h.kind = "drill", h.of = f.of
  PROVE  Planned(m, <<e, f, h>>)
<1>1. /\ DOMAIN <<e, f, h>> = {1, 2, 3} /\ Len(<<e, f, h>>) = 3 /\ <<e, f, h>> # <<>>
      /\ <<e, f, h>>[1] = e /\ <<e, f, h>>[2] = f /\ <<e, f, h>>[3] = h
  OBVIOUS
<1>2. Linked(<<e, f, h>>)
  <2>. DEFINE t == <<e, f, h>>
  <2>1. \A i \in {1, 2, 3} : t[i].kind \notin First \cup Importing
    BY <1>1 DEF First, Importing
  <2>2. \A i \in {1, 2, 3} : t[i].kind = "drill" => i = 3
    BY <1>1
  <2>3. t[3 - 1].kind = "analysed" /\ t[3 - 1].of = t[3].of
    BY <1>1
  <2>. HIDE DEF t
  <2>. QED  BY <1>1, <2>1, <2>2, <2>3 DEF Linked, Importing, t
<1>. QED  BY <1>1, <1>2 DEF Planned, Starts

(* What bulk_add appends: the games one after the other.                      *)
ImportRun(m, s, gs) ==
  /\ s \in Seq(PlainEvents)
  /\ \A i \in DOMAIN s :
       /\ s[i].kind \in Importing \cup {"rating"} /\ s[i].of \in gs
       /\ s[i].kind \in Importing => m.games[s[i].of] = {}
       /\ s[i].kind = "imported" =>
            i + 1 \in DOMAIN s /\ s[i + 1].kind = "parsed" /\ s[i + 1].of = s[i].of
       /\ s[i].kind = "parsed" =>
            i # 1 /\ s[i - 1].kind = "imported" /\ s[i - 1].of = s[i].of
  /\ \A i, j \in DOMAIN s : i < j /\ s[j].kind \in Importing /\ s[i].kind = "parsed" =>
       s[j].of # s[i].of

(* The events of one game that is imported, with its rating if it has one.    *)
LEMMA ImportsOfOne ==
  ASSUME NEW m, NEW g \in Games, NEW rated \in BOOLEAN, m.games[g] = {}
  PROVE  ImportRun(m, <<Event("imported", g, 0), Event("parsed", g, 0)>>
                      \o IF rated THEN <<Event("rating", g, 0)>> ELSE <<>>, {g})
<1>. DEFINE a == Event("imported", g, 0)
            b == Event("parsed", g, 0)
            c == Event("rating", g, 0)
<1>1. /\ a \in PlainEvents /\ b \in PlainEvents /\ c \in PlainEvents
      /\ a.kind = "imported" /\ b.kind = "parsed" /\ c.kind = "rating"
      /\ a.of = g /\ b.of = g /\ c.of = g
  BY DEF Event, PlainEvents, Kinds, GameKinds, Subjects, Values, Typed
<1>. HIDE DEF a, b, c
<1>2. ImportRun(m, <<a, b>>, {g})
  <2>. DEFINE s == <<a, b>>
  <2>1. s \in Seq(PlainEvents) /\ DOMAIN s = {1, 2} /\ s[1] = a /\ s[2] = b
    BY <1>1
  <2>. HIDE DEF s
  <2>. QED  BY <1>1, <2>1 DEF ImportRun, Importing, s
<1>3. ImportRun(m, <<a, b>> \o <<c>>, {g})
  <2>. DEFINE s == <<a, b>> \o <<c>>
  <2>1. s \in Seq(PlainEvents) /\ DOMAIN s = {1, 2, 3} /\ s[1] = a /\ s[2] = b /\ s[3] = c
    <3>1. <<a, b>> \in Seq(PlainEvents) /\ <<c>> \in Seq(PlainEvents)
      BY <1>1
    <3>2. /\ Len(<<a, b>>) = 2 /\ <<a, b>>[1] = a /\ <<a, b>>[2] = b
          /\ Len(<<c>>) = 1 /\ <<c>>[1] = c
      OBVIOUS
    <3>. QED  BY <3>1, <3>2
  <2>. HIDE DEF s
  <2>2. ImportRun(m, s, {g})
    BY <1>1, <2>1 DEF ImportRun, Importing
  <2>. QED  BY <2>2 DEF s
<1>4. <<a, b>> \o <<>> = <<a, b>>
  <2>1. <<a, b>> \in Seq(PlainEvents)
    BY <1>1
  <2>. QED  BY <2>1
<1>. QED  BY <1>2, <1>3, <1>4 DEF a, b, c

(* A game that is there already adds nothing.                                 *)
LEMMA ImportsOfNone ==
  ASSUME NEW m, NEW gs
  PROVE  ImportRun(m, <<>>, gs)
BY DEF ImportRun

(* Two different games, one after the other.                                  *)
LEMMA ImportsOfTwo ==
  ASSUME NEW m, NEW g, NEW h, g # h, NEW s, NEW t,
         ImportRun(m, s, {g}), ImportRun(m, t, {h})
  PROVE  ImportRun(m, s \o t, {g, h})
<1>. DEFINE r == s \o t
            N == Len(s)
<1>1. s \in Seq(PlainEvents) /\ t \in Seq(PlainEvents)
  BY DEF ImportRun
<1>2. /\ N \in Nat /\ Len(t) \in Nat /\ r \in Seq(PlainEvents)
      /\ DOMAIN s = 1..N /\ DOMAIN t = 1..Len(t) /\ DOMAIN r = 1..(N + Len(t))
      /\ \A i \in DOMAIN r : r[i] = IF i <= N THEN s[i] ELSE t[i - N]
  BY <1>1
<1>. HIDE DEF r, N
<1>3. \A i \in DOMAIN r : \/ i \in DOMAIN s /\ r[i] = s[i] /\ i <= N
                          \/ i - N \in DOMAIN t /\ r[i] = t[i - N] /\ i > N
  BY <1>2
<1>4. \A i \in DOMAIN s : i \in DOMAIN r /\ r[i] = s[i]
  BY <1>2
<1>5. \A i \in DOMAIN t : i + N \in DOMAIN r /\ r[i + N] = t[i]
  <2>. SUFFICES ASSUME NEW i \in DOMAIN t  PROVE  i + N \in DOMAIN r /\ r[i + N] = t[i]
    OBVIOUS
  <2>1. i + N \in DOMAIN r /\ ~(i + N <= N) /\ (i + N) - N = i
    BY <1>2
  <2>. QED  BY <1>2, <2>1
<1>6. ASSUME NEW i \in DOMAIN r
      PROVE  /\ r[i].kind \in Importing \cup {"rating"} /\ r[i].of \in {g, h}
             /\ r[i].kind \in Importing => m.games[r[i].of] = {}
             /\ r[i].kind = "imported" =>
                  i + 1 \in DOMAIN r /\ r[i + 1].kind = "parsed" /\ r[i + 1].of = r[i].of
             /\ r[i].kind = "parsed" =>
                  i # 1 /\ r[i - 1].kind = "imported" /\ r[i - 1].of = r[i].of
  <2>1. CASE i \in DOMAIN s /\ r[i] = s[i]
    <3>1. i # 1 => i - 1 \in DOMAIN s
      BY <1>2, <2>1
    <3>2. /\ s[i].kind \in Importing \cup {"rating"} /\ s[i].of = g
          /\ s[i].kind \in Importing => m.games[s[i].of] = {}
          /\ s[i].kind = "imported" =>
               i + 1 \in DOMAIN s /\ s[i + 1].kind = "parsed" /\ s[i + 1].of = s[i].of
          /\ s[i].kind = "parsed" =>
               i # 1 /\ s[i - 1].kind = "imported" /\ s[i - 1].of = s[i].of
      BY <2>1 DEF ImportRun
    <3>. QED  BY <1>4, <2>1, <3>1, <3>2
  <2>2. CASE i - N \in DOMAIN t /\ r[i] = t[i - N]
    <3>. DEFINE k == i - N
    <3>0. /\ k \in DOMAIN t /\ r[i] = t[k] /\ DOMAIN t = 1..Len(t)
          /\ i \in Int /\ N \in Nat /\ Len(t) \in Nat
      <4>1. i \in 1..(N + Len(t)) /\ N + Len(t) \in Int
        BY ONLY <1>2, i \in DOMAIN r
      <4>. QED  BY <1>2, <2>2, <4>1
    <3>1. /\ k \in DOMAIN t /\ k \in Int /\ r[i] = t[k]
          /\ (k + 1) + N = i + 1 /\ (k - 1) + N = i - 1
          /\ k # 1 => k - 1 \in DOMAIN t /\ i # 1
      <4>1. k \in 1..Len(t)
        BY <3>0, Zenon
      <4>2. /\ k \in Int /\ (k + 1) + N = i + 1 /\ (k - 1) + N = i - 1
            /\ k # 1 => k - 1 \in 1..Len(t) /\ i # 1
        BY ONLY <3>0, <4>1
      <4>. QED  BY <3>0, <4>2, Zenon
    <3>. HIDE DEF k
    <3>2. /\ r[i].kind \in Importing \cup {"rating"} /\ r[i].of \in {g, h}
          /\ r[i].kind \in Importing => m.games[r[i].of] = {}
      <4>1. /\ t[k].kind \in Importing \cup {"rating"} /\ t[k].of = h
            /\ t[k].kind \in Importing => m.games[t[k].of] = {}
        BY <3>1, Zenon DEF ImportRun
      <4>. QED  BY <3>1, <4>1, Zenon
    <3>3. ASSUME r[i].kind = "imported"
          PROVE  i + 1 \in DOMAIN r /\ r[i + 1].kind = "parsed" /\ r[i + 1].of = r[i].of
      <4>1. k + 1 \in DOMAIN t /\ t[k + 1].kind = "parsed" /\ t[k + 1].of = t[k].of
        BY <3>1, <3>3 DEF ImportRun
      <4>2. (k + 1) + N \in DOMAIN r /\ r[(k + 1) + N] = t[k + 1]
        BY <1>5, <4>1
      <4>. QED  BY <3>1, <4>1, <4>2
    <3>4. ASSUME r[i].kind = "parsed"
          PROVE  i # 1 /\ r[i - 1].kind = "imported" /\ r[i - 1].of = r[i].of
      <4>1. k # 1 /\ t[k - 1].kind = "imported" /\ t[k - 1].of = t[k].of
        BY <3>1, <3>4 DEF ImportRun
      <4>2. (k - 1) + N \in DOMAIN r /\ r[(k - 1) + N] = t[k - 1]
        BY <1>5, <3>1, <4>1
      <4>. QED  BY <3>1, <4>1, <4>2
    <3>. QED  BY <3>2, <3>3, <3>4
  <2>. QED  BY <1>3, <2>1, <2>2
<1>7. ASSUME NEW i \in DOMAIN r, NEW j \in DOMAIN r,
             i < j, r[j].kind \in Importing, r[i].kind = "parsed"
      PROVE  r[j].of # r[i].of
  <2>0. i \in Int /\ j \in Int
    BY <1>2
  <2>1. CASE i <= N /\ j <= N
    <3>1. i \in DOMAIN s /\ r[i] = s[i] /\ j \in DOMAIN s /\ r[j] = s[j]
      BY <1>2, <1>3, <2>0, <2>1
    <3>. QED  BY <1>7, <3>1 DEF ImportRun
  <2>2. CASE i <= N /\ j > N
    <3>1. i \in DOMAIN s /\ r[i] = s[i] /\ j - N \in DOMAIN t /\ r[j] = t[j - N]
      BY <1>2, <1>3, <2>0, <2>2
    <3>2. r[i].of = g /\ r[j].of = h
      BY <3>1 DEF ImportRun
    <3>. QED  BY <3>2
  <2>3. CASE i > N /\ j > N
    <3>1. /\ i - N \in DOMAIN t /\ r[i] = t[i - N] /\ j - N \in DOMAIN t /\ r[j] = t[j - N]
          /\ i - N < j - N
      BY <1>2, <1>3, <1>7, <2>0, <2>3
    <3>. QED  BY <1>7, <3>1 DEF ImportRun
  <2>. QED  BY <1>2, <1>7, <2>0, <2>1, <2>2, <2>3
<1>8. ImportRun(m, r, {g, h})
  <2>1. \A i, j \in DOMAIN r : i < j /\ r[j].kind \in Importing /\ r[i].kind = "parsed" =>
          r[j].of # r[i].of
    BY <1>7
  <2>2. \A i \in DOMAIN r :
          /\ r[i].kind \in Importing \cup {"rating"} /\ r[i].of \in {g, h}
          /\ r[i].kind \in Importing => m.games[r[i].of] = {}
          /\ r[i].kind = "imported" =>
               i + 1 \in DOMAIN r /\ r[i + 1].kind = "parsed" /\ r[i + 1].of = r[i].of
          /\ r[i].kind = "parsed" =>
               i # 1 /\ r[i - 1].kind = "imported" /\ r[i - 1].of = r[i].of
    BY <1>6
  <2>3. r \in Seq(PlainEvents)
    BY <1>2
  <2>. QED  BY ONLY <2>1, <2>2, <2>3 DEF ImportRun
<1>. QED  BY <1>8 DEF r

(* Such a run of events is one that a call can have to append.                *)
LEMMA PlannedImport ==
  ASSUME NEW m, NEW s, NEW gs, ImportRun(m, s, gs)
  PROVE  Planned(m, s) /\ ~Starts(s, "snapshot") /\ ~Starts(s, "parsed")
<1>1. \A i \in DOMAIN s : PlannedEvent(m, s[i])
  BY DEF ImportRun, PlannedEvent, Importing
<1>2. Linked(s)
  BY DEF ImportRun, Linked, Importing, First
<1>3. s \in Seq(PlainEvents)
  BY DEF ImportRun
<1>4. s # <<>> => 1 \in DOMAIN s
  BY <1>3
<1>5. ~Starts(s, "drill") /\ ~Starts(s, "snapshot") /\ ~Starts(s, "parsed")
  BY <1>4 DEF Starts, ImportRun, Importing
<1>. QED  BY <1>1, <1>2, <1>5 DEF Planned

(* An operation that begins with these events opens a call.                   *)
LEMMA Opens ==
  ASSUME NEW op \in Operations \ {"snapshot"}, NEW events \in Seq(PlainEvents),
         NEW m \in Memories, BeginWith(op, events, m), Takes(memory, m, events),
         Planned(m, events), ~Starts(events, "snapshot"), ~Starts(events, "parsed"),
         ~Rebuilds(op) => \A i \in DOMAIN events : events[i].kind \in Unindexed
  PROVE  Opening
<1>1. /\ call' = [op |-> op, todo |-> events, added |-> FALSE] /\ memory' = m
      /\ up /\ call = NoCall /\ events # <<>> /\ nextId + Len(events) <= MaxEvents + 1
      /\ UNCHANGED <<log, nextId, noted, index, files, due, up, mishaps, scope, clean, faults>>
  BY DEF BeginWith, Free
<1>2. call'.todo = events /\ call'.op = op
  BY <1>1
<1>3. call' \in [op : Operations \ {"snapshot"}, todo : Seq(PlainEvents), added : {FALSE}]
  BY <1>1
<1>. HIDE DEF Takes
<1>. QED  BY <1>1, <1>2, <1>3 DEF Opening

(* An operation that has one event to append, and has taken its id.           *)
LEMMA OpensOne ==
  ASSUME NEW op \in Operations \ {"snapshot"}, NEW e \in PlainEvents, NEW m \in Memories,
         BeginWith(op, <<e>>, m), PlannedEvent(m, e),
         e.kind \notin Importing \cup {"snapshot"},
         e.kind = "drill" /\ e.of \in Games => "deep" \in m.games[e.of],
         ~Rebuilds(op) => e.kind \in Unindexed,
         m.games = memory.games, SameRest(m, memory),
         m.next.attempt = memory.next.attempt + (IF e.kind = "attempt" THEN 1 ELSE 0),
         m.next.batch = memory.next.batch + (IF e.kind = "batch" THEN 1 ELSE 0),
         m.next.review = memory.next.review + (IF e.kind = "review" THEN 1 ELSE 0)
  PROVE  Opening
<1>1. /\ <<e>> \in Seq(PlainEvents) /\ DOMAIN <<e>> = {1} /\ <<e>>[1] = e /\ <<e>> # <<>>
  OBVIOUS
<1>2. Planned(m, <<e>>)
  BY PlannedOne
<1>3. /\ Takes(memory, m, <<e>>)
      /\ ~Starts(<<e>>, "snapshot") /\ ~Starts(<<e>>, "parsed")
  BY <1>1 DEF Takes, Pos, Starts, Importing
<1>4. ~Rebuilds(op) => \A i \in DOMAIN <<e>> : <<e>>[i].kind \in Unindexed
  BY <1>1
<1>. QED  BY <1>1, <1>2, <1>3, <1>4, Opens

(* One that takes no id.                                                      *)
LEMMA OpensPlain ==
  ASSUME NEW op \in Operations \ {"snapshot"}, NEW e \in PlainEvents, memory \in Memories,
         Begin(op, <<e>>), PlannedEvent(memory, e),
         e.kind \notin Importing \cup {"snapshot", "attempt", "batch", "review"},
         e.kind = "drill" => e.of \notin Games,
         ~Rebuilds(op) => e.kind \in Unindexed
  PROVE  Opening
<1>1. SameRest(memory, memory)
  BY DEF SameRest, SameSets, SameValues, SameEntries
<1>2. memory.next \in NextIds
  BY DEF Memories
<1>3. /\ memory.next.attempt = memory.next.attempt + 0
      /\ memory.next.batch = memory.next.batch + 0
      /\ memory.next.review = memory.next.review + 0
  BY <1>2 DEF NextIds
<1>. QED  BY <1>1, <1>3, OpensOne DEF Begin

(* An operation whose event needs no id leaves the members as they are.       *)
LEMMA SameMemory ==
  ASSUME memory \in Memories, NEW todo,
         ~Starts(todo, "attempt"), ~Starts(todo, "batch"), ~Starts(todo, "review")
  PROVE  Takes(memory, memory, todo)
<1>1. SameRest(memory, memory)
  BY DEF SameRest, SameSets, SameValues, SameEntries
<1>2. memory.next \in NextIds
  BY DEF Memories
<1>. QED  BY <1>1, <1>2 DEF Takes, Pos, NextIds

(* bulk_add of one game or of two begins as Opening says.                     *)
LEMMA ImportOpens ==
  ASSUME memory \in Memories,
         NEW gs \in {<<g>> : g \in Games} \cup {s \in Games \X Games : s[1] # s[2]},
         NEW rated \in BOOLEAN, Import(gs, rated)
  PROVE  Opening
<1>. DEFINE Of(g) == IF Has(g) THEN <<>>
                     ELSE <<Event("imported", g, 0), Event("parsed", g, 0)>>
                          \o IF rated THEN <<Event("rating", g, 0)>> ELSE <<>>
<1>1. \A g \in Games : ImportRun(memory, Of(g), {g})
  <2>. SUFFICES ASSUME NEW g \in Games  PROVE  ImportRun(memory, Of(g), {g})
    OBVIOUS
  <2>1. ~Has(g) => memory.games[g] = {}
    BY DEF Has, Memories, GameStates
  <2>. QED  BY <2>1, ImportsOfOne, ImportsOfNone
<1>2. ASSUME NEW events, NEW hs, ImportRun(memory, events, hs), Begin("import", events)
      PROVE  Opening
  <2>1. /\ Planned(memory, events)
        /\ ~Starts(events, "snapshot") /\ ~Starts(events, "parsed")
    BY <1>2, PlannedImport
  <2>2. events \in Seq(PlainEvents)
    BY <1>2 DEF ImportRun
  <2>3. /\ ~Starts(events, "attempt") /\ ~Starts(events, "batch")
        /\ ~Starts(events, "review")
    <3>1. events # <<>> => 1 \in DOMAIN events
      BY <2>2
    <3>. QED  BY <1>2, <3>1 DEF Starts, ImportRun, Importing
  <2>4. Takes(memory, memory, events)
    BY <2>3, SameMemory
  <2>5. "import" \in Operations \ {"snapshot"} /\ Rebuilds("import")
    BY DEF Operations, Rebuilds
  <2>. QED  BY <1>2, <2>1, <2>2, <2>4, <2>5, Opens DEF Begin
<1>3. Begin("import", IF Len(gs) = 1 THEN Of(gs[1]) ELSE Of(gs[1]) \o Of(gs[2]))
  BY DEF Import
<1>. HIDE DEF Of
<1>4. CASE gs \in {<<g>> : g \in Games}
  <2>1. PICK g \in Games : gs = <<g>>
    BY <1>4
  <2>2. Len(gs) = 1 /\ gs[1] = g
    BY <2>1
  <2>. QED  BY <1>1, <1>2, <1>3, <2>2
<1>5. CASE gs \in {s \in Games \X Games : s[1] # s[2]}
  <2>1. Len(gs) = 2 /\ gs[1] \in Games /\ gs[2] \in Games /\ gs[1] # gs[2]
    BY <1>5
  <2>2. ImportRun(memory, Of(gs[1]) \o Of(gs[2]), {gs[1], gs[2]})
    BY <1>1, <2>1, ImportsOfTwo
  <2>. QED  BY <1>2, <1>3, <2>1, <2>2
<1>. QED  BY <1>4, <1>5

(* So does save_analysis, with and without a drill of the worst move.         *)
LEMMA AnalysisOpens ==
  ASSUME memory \in Memories, NEW g \in Games, NEW mistake \in BOOLEAN,
         SaveAnalysis(g, mistake)
  PROVE  Opening
<1>. DEFINE a == Event("detail", g, 0)
            b == Event("analysed", g, 0)
            c == Event("drill", g, 0)
<1>1. /\ a \in PlainEvents /\ b \in PlainEvents /\ c \in PlainEvents
      /\ a.kind = "detail" /\ b.kind = "analysed" /\ c.kind = "drill"
      /\ a.of = g /\ b.of = g /\ c.of = g
  BY DEF Event, PlainEvents, Kinds, GameKinds, Subjects, Values, Typed, Drills
<1>2. "game" \in memory.games[g]
  BY DEF SaveAnalysis, Has
<1>3. Begin("analysis", <<a, b>> \o IF mistake /\ ~memory.drills[g].made THEN <<c>> ELSE <<>>)
  BY DEF SaveAnalysis
<1>. HIDE DEF a, b, c
<1>4. PlannedEvent(memory, a) /\ PlannedEvent(memory, b)
  BY <1>1, <1>2 DEF PlannedEvent
<1>5. "analysis" \in Operations \ {"snapshot"} /\ Rebuilds("analysis")
  BY DEF Operations, Rebuilds
<1>6. \A s : s[1] = a => /\ ~Starts(s, "snapshot") /\ ~Starts(s, "parsed")
                         /\ ~Starts(s, "attempt")
                         /\ ~Starts(s, "batch") /\ ~Starts(s, "review")
  BY <1>1 DEF Starts
<1>7. CASE mistake /\ ~memory.drills[g].made
  <2>1. <<a, b>> \o <<c>> = <<a, b, c>>
    <3>1. <<a, b>> \in Seq(PlainEvents) /\ <<c>> \in Seq(PlainEvents)
      BY <1>1
    <3>2. <<a, b, c>> = Append(<<a, b>>, c) /\ <<a, b>> \o <<c>> = Append(<<a, b>>, c)
      BY <3>1
    <3>. QED  BY <3>2
  <2>2. memory.drills[g] = NoDrill
    BY <1>7 DEF Memories, DrillStates, Drills
  <2>3. PlannedEvent(memory, c)
    BY <1>1, <2>2 DEF PlannedEvent
  <2>4. Planned(memory, <<a, b, c>>)
    BY <1>1, <1>4, <2>3, PlannedThree
  <2>5. <<a, b, c>> \in Seq(PlainEvents) /\ <<a, b, c>>[1] = a
    BY <1>1
  <2>6. Begin("analysis", <<a, b, c>>)
    BY <1>3, <1>7, <2>1
  <2>7. Takes(memory, memory, <<a, b, c>>)
    BY <1>6, <2>5, SameMemory
  <2>. QED  BY <1>5, <1>6, <2>4, <2>5, <2>6, <2>7, Opens DEF Begin
<1>8. CASE ~(mistake /\ ~memory.drills[g].made)
  <2>1. <<a, b>> \in Seq(PlainEvents) /\ <<a, b>>[1] = a
    BY <1>1
  <2>2. <<a, b>> \o <<>> = <<a, b>>
    BY <2>1
  <2>3. Planned(memory, <<a, b>>)
    BY <1>1, <1>4, PlannedTwo DEF Importing, First
  <2>4. Begin("analysis", <<a, b>>)
    BY <1>3, <1>8, <2>2
  <2>5. Takes(memory, memory, <<a, b>>)
    BY <1>6, <2>1, SameMemory
  <2>. QED  BY <1>5, <1>6, <2>1, <2>3, <2>4, <2>5, Opens DEF Begin
<1>. QED  BY <1>7, <1>8

(* The operations that append one event and take no id.                       *)
LEMMA PlainOpens ==
  ASSUME memory \in Memories, Behind(memory, memory), nextId \in Nat
  PROVE  /\ \A g \in Games : SaveShallow(g) => Opening
         /\ \A g \in Games, s \in {"queued", "complete"} : RecordJobState(g, s) => Opening
         /\ \A d \in Corpus : AddValidatedDrill(d) => Opening
         /\ \A r \in Resources : CompleteResource(r) => Opening
         /\ \A b \in BOOLEAN : SetBackgroundPaused(b) => Opening
         /\ \A p \in 1..2 : SaveProfile(p) => Opening
         /\ \A entries \in SUBSET Entries : IndexChunk(entries) => Opening
         /\ \A m \in Months : CheckpointMonth(m) => Opening
         /\ \A s \in {"running", "succeeded"} : SaveSyncState(s) => Opening
<1>. USE DEF Event, PlainEvents, Kinds, GameKinds, Subjects, Values, Typed, PlannedEvent,
             Importing, Operations, Rebuilds, Unindexed
<1>1. ASSUME NEW g \in Games, SaveShallow(g)  PROVE  Opening
  <2>1. "game" \in memory.games[g] /\ Begin("shallow", <<Event("shallow", g, 0)>>)
    BY <1>1 DEF SaveShallow, Has
  <2>. QED  BY <2>1, OpensPlain
<1>2. ASSUME NEW g \in Games, NEW s \in {"queued", "complete"}, RecordJobState(g, s)
      PROVE  Opening
  BY <1>2, OpensPlain DEF RecordJobState, Statuses
<1>3. ASSUME NEW d \in Corpus, AddValidatedDrill(d)  PROVE  Opening
  <2>1. ~memory.drills[d].made /\ Begin("validated", <<Event("drill", d, 0)>>)
    BY <1>3 DEF AddValidatedDrill
  <2>2. memory.drills[d] = NoDrill
    BY <2>1 DEF Memories, DrillStates, Drills
  <2>3. d \notin Games /\ d \in Drills
    BY RepositoryBounds DEF Drills
  <2>4. Event("drill", d, 0) \in PlainEvents
    BY <2>3
  <2>. QED  BY <2>1, <2>2, <2>3, <2>4, OpensPlain
<1>4. ASSUME NEW r \in Resources, CompleteResource(r)  PROVE  Opening
  BY <1>4, OpensPlain DEF CompleteResource
<1>5. ASSUME NEW b \in BOOLEAN, SetBackgroundPaused(b)  PROVE  Opening
  BY <1>5, OpensPlain DEF SetBackgroundPaused
<1>6. ASSUME NEW p \in 1..2, SaveProfile(p)  PROVE  Opening
  BY <1>6, OpensPlain DEF SaveProfile
<1>7. ASSUME NEW entries \in SUBSET Entries, IndexChunk(entries)  PROVE  Opening
  BY <1>7, OpensPlain DEF IndexChunk
<1>8. ASSUME NEW m \in Months, CheckpointMonth(m)  PROVE  Opening
  BY <1>8, OpensPlain DEF CheckpointMonth
<1>9. ASSUME NEW s \in {"running", "succeeded"}, SaveSyncState(s)  PROVE  Opening
  <2>1. [status |-> s, at |-> nextId] \in SyncStates
    BY DEF SyncStates
  <2>2. Begin("sync", <<Event("sync", None, [status |-> s, at |-> nextId])>>)
    BY <1>9 DEF SaveSyncState
  <2>3. Event("sync", None, [status |-> s, at |-> nextId]) \in PlainEvents
    BY <2>1
  <2>. QED  BY <2>2, <2>3, OpensPlain
<1>. QED  BY <1>1, <1>2, <1>3, <1>4, <1>5, <1>6, <1>7, <1>8, <1>9

(* Those on sessions and variations.                                          *)
LEMMA EntryOpens ==
  ASSUME memory \in Memories, Behind(memory, memory), nextId \in Nat
  PROVE  /\ \A d \in Drills : BeginDrillSession(d) \/ AdvanceHint(d) => Opening
         /\ \A n \in DOMAIN memory.lines, node \in Nat :
              ExtendVariation(n, node) \/ SetCursor(n, node) => Opening
         /\ \A n \in DOMAIN memory.lines : DeleteVariation(n) => Opening
<1>. USE DEF Event, PlainEvents, Kinds, GameKinds, Subjects, Values, Typed, PlannedEvent,
             Importing, Operations, Rebuilds, Unindexed
<1>1. \A d \in Drills : /\ memory.drills[d].hint \in 0..3
                        /\ memory.drills[d].started \in Nat
  BY DEF Memories, DrillStates
<1>2. ASSUME NEW d \in Drills, BeginDrillSession(d)  PROVE  Opening
  <2>1. Begin("session", <<SessionEvent(d, memory.drills[d].hint, nextId)>>)
    BY <1>2 DEF BeginDrillSession
  <2>2. SessionEvent(d, memory.drills[d].hint, nextId) \in PlainEvents
    BY <1>1 DEF SessionEvent, Sessions
  <2>. QED  BY <2>1, <2>2, OpensPlain DEF SessionEvent
<1>3. ASSUME NEW d \in Drills, AdvanceHint(d)  PROVE  Opening
  <2>. DEFINE h == Smaller(3, memory.drills[d].hint + 1)
  <2>1. Begin("hint", <<SessionEvent(d, h, memory.drills[d].started)>>)
    BY <1>3 DEF AdvanceHint
  <2>2. h \in 0..3
    BY <1>1 DEF Smaller
  <2>. HIDE DEF h
  <2>3. SessionEvent(d, h, memory.drills[d].started) \in PlainEvents
    BY <1>1, <2>2 DEF SessionEvent, Sessions
  <2>. QED  BY <2>1, <2>3, OpensPlain DEF SessionEvent
<1>4. \A n \in DOMAIN memory.lines :
        n \in Nat /\ memory.lines[n] \in Lines /\ "game" \in memory.games[memory.lines[n].game]
  <2>. SUFFICES ASSUME NEW n \in DOMAIN memory.lines
                PROVE  /\ n \in Nat /\ memory.lines[n] \in Lines
                       /\ "game" \in memory.games[memory.lines[n].game]
    OBVIOUS
  <2>1. PICK D \in SUBSET Nat : memory.lines \in [D -> Lines]
    BY DEF Memories, LineMaps
  <2>2. n \in Nat /\ memory.lines[n] \in Lines
    BY <2>1
  <2>3. memory.lines[n].game \in Games
    BY <2>2 DEF Lines
  <2>4. Depends(memory, memory.lines[n].game)
    BY DEF Depends
  <2>. QED  BY <2>2, <2>3, <2>4 DEF Behind
<1>5. ASSUME NEW op \in {"extend", "cursor"}, NEW n \in Nat, NEW line \in Lines,
             SaveLine(op, n, line), "game" \in memory.games[line.game]
      PROVE  Opening
  <2>1. Begin(op, <<Event("saved", n, line)>>) /\ Event("saved", n, line) \in PlainEvents
    BY <1>5 DEF SaveLine
  <2>2. PlannedEvent(memory, Event("saved", n, line))
    BY <1>5
  <2>. QED  BY <1>5, <2>1, <2>2, OpensPlain
<1>6. ASSUME NEW n \in DOMAIN memory.lines, NEW node \in Nat, ExtendVariation(n, node)
      PROVE  Opening
  <2>. DEFINE line == memory.lines[n]
              more == [line EXCEPT !.nodes = Append(@, node), !.cursor = Len(line.nodes) + 1]
  <2>1. SaveLine("extend", n, more)
    BY <1>6 DEF ExtendVariation
  <2>2. line \in Lines /\ "game" \in memory.games[line.game]
    BY <1>4
  <2>. HIDE DEF line
  <2>3. more \in Lines /\ more.game = line.game
    <3>1. Append(line.nodes, node) \in Seq(Nat) /\ Len(line.nodes) + 1 \in Nat
      BY <2>2 DEF Lines
    <3>. HIDE DEF more
    <3>2. \A nodes \in Seq(Nat), cursor \in Nat :
            LET new == [line EXCEPT !.nodes = nodes, !.cursor = cursor]
            IN new \in Lines /\ new.game = line.game
      BY <2>2 DEF Lines
    <3>3. more = [line EXCEPT !.nodes = Append(line.nodes, node),
                              !.cursor = Len(line.nodes) + 1]
      BY <2>2 DEF more, Lines
    <3>. QED  BY <3>1, <3>2, <3>3
  <2>. HIDE DEF more
  <2>. QED  BY <1>4, <1>5, <2>1, <2>2, <2>3
<1>7. ASSUME NEW n \in DOMAIN memory.lines, NEW node \in Nat, SetCursor(n, node)
      PROVE  Opening
  <2>. DEFINE line == memory.lines[n]
              more == [line EXCEPT !.cursor = node]
  <2>1. SaveLine("cursor", n, more)
    BY <1>7 DEF SetCursor
  <2>2. line \in Lines /\ "game" \in memory.games[line.game]
    BY <1>4
  <2>. HIDE DEF line
  <2>3. more \in Lines /\ more.game = line.game
    BY <2>2 DEF Lines
  <2>. HIDE DEF more
  <2>. QED  BY <1>4, <1>5, <2>1, <2>2, <2>3
<1>8. ASSUME NEW n \in DOMAIN memory.lines, DeleteVariation(n)  PROVE  Opening
  <2>1. memory.lines[n].game \in Games
    BY <1>4 DEF Lines
  <2>2. Begin("delete", <<Event("deleted", n, memory.lines[n].game)>>)
    BY <1>8 DEF DeleteVariation
  <2>. QED  BY <1>4, <2>1, <2>2, OpensPlain
<1>. QED  BY <1>2, <1>3, <1>6, <1>7, <1>8

(* Those that take an id.                                                     *)
LEMMA NumberedOpens ==
  ASSUME memory \in Memories
  PROVE  /\ CreateBatch => Opening
         /\ \A g \in Games : CreateVariation(g) \/ RecordReview(g) => Opening
<1>. USE DEF Event, PlainEvents, Kinds, GameKinds, Subjects, Values, Typed, PlannedEvent,
             Importing, Operations, Rebuilds, Unindexed
<1>. DEFINE Same(m) == /\ m.games = memory.games /\ m.drills = memory.drills
                       /\ SameRest(m, memory)
<1>1. memory.next \in NextIds
  BY DEF Memories
<1>2. ASSUME NEW next \in NextIds
      PROVE  /\ [memory EXCEPT !.next = next] \in Memories
             /\ Same([memory EXCEPT !.next = next])
             /\ [memory EXCEPT !.next = next].next = next
  BY DEF Memories, SameRest, SameSets, SameValues, SameEntries
<1>3. CreateBatch => Opening
  <2>. SUFFICES ASSUME CreateBatch  PROVE  Opening
    OBVIOUS
  <2>. DEFINE k == memory.next.batch
              next == [memory.next EXCEPT !.batch = k + 1]
              m == [memory EXCEPT !.next = next]
  <2>1. k \in Nat /\ next \in NextIds /\ next.batch = k + 1
        /\ next.attempt = memory.next.attempt + 0 /\ next.review = memory.next.review + 0
    BY <1>1 DEF NextIds
  <2>2. BeginWith("batch", <<Event("batch", k, 0)>>, m)
    BY DEF CreateBatch
  <2>. HIDE DEF next
  <2>3. m \in Memories /\ Same(m) /\ m.next = next
    BY <1>2, <2>1
  <2>. HIDE DEF m, k
  <2>. QED  BY <2>1, <2>2, <2>3, OpensOne DEF k
<1>4. ASSUME NEW g \in Games, CreateVariation(g)  PROVE  Opening
  <2>. DEFINE k == memory.next.line
              next == [memory.next EXCEPT !.line = k + 1]
              m == [memory EXCEPT !.next = next]
              line == [game |-> g, nodes |-> <<>>, cursor |-> 0]
  <2>1. k \in Nat /\ next \in NextIds /\ next.batch = memory.next.batch + 0
        /\ next.attempt = memory.next.attempt + 0 /\ next.review = memory.next.review + 0
    BY <1>1 DEF NextIds
  <2>2. BeginWith("line", <<Event("saved", k, line)>>, m) /\ "game" \in memory.games[g]
    BY <1>4 DEF CreateVariation, Has
  <2>. HIDE DEF next
  <2>3. m \in Memories /\ Same(m) /\ m.next = next
    BY <1>2, <2>1
  <2>4. line \in Lines /\ line.game = g
    BY DEF Lines
  <2>. HIDE DEF m, k, line
  <2>5. Event("saved", k, line) \in PlainEvents
    BY <2>1, <2>4
  <2>6. PlannedEvent(m, Event("saved", k, line))
    BY <2>2, <2>3, <2>4
  <2>. QED  BY <2>1, <2>2, <2>3, <2>5, <2>6, OpensOne
<1>5. ASSUME NEW g \in Games, RecordReview(g)  PROVE  Opening
  <2>. DEFINE k == memory.next.review
              next == [memory.next EXCEPT !.review = k + 1]
              m == [memory EXCEPT !.next = next]
  <2>1. k \in Nat /\ next \in NextIds /\ next.review = k + 1
        /\ next.attempt = memory.next.attempt + 0 /\ next.batch = memory.next.batch + 0
    BY <1>1 DEF NextIds
  <2>2. BeginWith("review", <<Event("review", k, g)>>, m)
    BY <1>5 DEF RecordReview
  <2>. HIDE DEF next
  <2>3. m \in Memories /\ Same(m) /\ m.next = next
    BY <1>2, <2>1
  <2>. HIDE DEF m, k
  <2>. QED  BY <2>1, <2>2, <2>3, OpensOne DEF k
<1>. QED  BY <1>3, <1>4, <1>5

(* record_attempt, and recommendations().                                     *)
LEMMA AttemptOpens ==
  ASSUME memory \in Memories, nextId \in Nat, NEW d \in Drills, NEW correct \in BOOLEAN,
         RecordAttempt(d, correct)
  PROVE  Opening
<1>. DEFINE k == memory.next.attempt
            attempt == [id |-> k, correct |-> correct, hint |-> memory.drills[d].hint,
                        at |-> nextId]
            next == [memory.next EXCEPT !.attempt = k + 1]
            m == [memory EXCEPT !.next = next]
            a == Event("attempt", d, attempt)
            b == SessionEvent(d, 0, 0)
<1>1. memory.next \in NextIds /\ memory.drills[d].hint \in 0..3
  BY DEF Memories, DrillStates
<1>2. /\ memory.drills[d].made
      /\ BeginWith("attempt", <<a>> \o IF correct THEN <<b>> ELSE <<>>, m)
  BY DEF RecordAttempt
<1>3. /\ k \in Nat /\ next \in NextIds /\ next.attempt = k + 1
      /\ next.batch = memory.next.batch + 0 /\ next.review = memory.next.review + 0
  BY <1>1 DEF NextIds
<1>4. a \in PlainEvents /\ b \in PlainEvents
      /\ a.kind = "attempt" /\ b.kind = "session" /\ a.of = d /\ a.val.id = k
  BY <1>1, <1>3 DEF Event, SessionEvent, PlainEvents, Kinds, GameKinds, Subjects, Values,
                    Typed, Attempts, Sessions
<1>. HIDE DEF next
<1>5. m \in Memories /\ m.next = next /\ m.games = memory.games /\ m.drills = memory.drills
      /\ SameRest(m, memory)
  BY <1>3 DEF Memories, SameRest, SameSets, SameValues, SameEntries
<1>. HIDE DEF m, a, b, attempt
<1>6. PlannedEvent(m, a) /\ PlannedEvent(m, b)
  BY <1>2, <1>3, <1>4, <1>5 DEF PlannedEvent
<1>7. "attempt" \in Operations \ {"snapshot"} /\ Rebuilds("attempt")
  BY DEF Operations, Rebuilds
<1>8. ASSUME NEW s, s # <<>>, s[1] = a
      PROVE  Takes(memory, m, s) /\ ~Starts(s, "snapshot") /\ ~Starts(s, "parsed")
  BY <1>3, <1>4, <1>5, <1>8 DEF Takes, Pos, Starts
<1>9. CASE correct
  <2>1. <<a>> \o <<b>> = <<a, b>>
    <3>1. <<a>> \in Seq(PlainEvents) /\ <<b>> \in Seq(PlainEvents)
      BY <1>4
    <3>2. <<a, b>> = Append(<<a>>, b)
      BY <1>4
    <3>3. \A s \in Seq(PlainEvents) : s \o <<b>> = Append(s, b)
      BY <1>4
    <3>4. <<a>> \o <<b>> = Append(<<a>>, b)
      BY <3>1, <3>3
    <3>. QED  BY <3>2, <3>4
  <2>2. <<a, b>> \in Seq(PlainEvents) /\ <<a, b>> # <<>> /\ <<a, b>>[1] = a
    BY <1>4
  <2>3. Planned(m, <<a, b>>)
    BY <1>4, <1>6, PlannedTwo DEF Importing, First
  <2>4. BeginWith("attempt", <<a, b>>, m)
    BY <1>2, <1>9, <2>1
  <2>. QED  BY <1>5, <1>7, <1>8, <2>2, <2>3, <2>4, Opens
<1>10. CASE ~correct
  <2>1. <<a>> \in Seq(PlainEvents) /\ <<a>> # <<>> /\ <<a>>[1] = a
    BY <1>4
  <2>2. <<a>> \o <<>> = <<a>>
    BY <2>1
  <2>3. Planned(m, <<a>>)
    BY <1>4, <1>6, PlannedOne DEF Importing
  <2>4. BeginWith("attempt", <<a>>, m)
    BY <1>2, <1>10, <2>2
  <2>. QED  BY <1>5, <1>7, <1>8, <2>1, <2>3, <2>4, Opens
<1>. QED  BY <1>9, <1>10

(* So does the recording of recommended resources.                            *)
LEMMA RecommendOpens ==
  ASSUME memory \in Memories, NEW rs \in Seq(Resources), Recommend(rs)
  PROVE  Opening
<1>. DEFINE s == [i \in DOMAIN rs |-> Event("recommended", rs[i], 0)]
<1>1. s \in Seq(PlainEvents) /\ \A i \in DOMAIN s : s[i].kind = "recommended"
  <2>1. rs \in [1..Len(rs) -> Resources] /\ Len(rs) \in Nat /\ DOMAIN rs = 1..Len(rs)
    OBVIOUS
  <2>2. \A i \in DOMAIN rs : Event("recommended", rs[i], 0) \in PlainEvents
    BY <2>1 DEF Event, PlainEvents, Kinds, GameKinds, Subjects, Values, Typed
  <2>3. s \in [1..Len(rs) -> PlainEvents]
    BY <2>1, <2>2
  <2>. QED  BY <2>1, <2>3 DEF Event
<1>2. Begin("recommend", s)
  BY DEF Recommend
<1>. HIDE DEF s
<1>3. \A i \in DOMAIN s : PlannedEvent(memory, s[i])
  BY <1>1 DEF PlannedEvent
<1>4. Linked(s)
  BY <1>1 DEF Linked, First, Importing
<1>5. s # <<>> => 1 \in DOMAIN s
  BY <1>1
<1>6. \A kind : Starts(s, kind) => kind = "recommended"
  BY <1>1, <1>5 DEF Starts
<1>7. Planned(memory, s) /\ ~Starts(s, "snapshot") /\ ~Starts(s, "parsed")
  BY <1>3, <1>4, <1>6 DEF Planned
<1>8. Takes(memory, memory, s)
  BY <1>6, SameMemory
<1>9. "recommend" \in Operations \ {"snapshot"} /\ Rebuilds("recommend")
  BY DEF Operations, Rebuilds
<1>. QED  BY <1>1, <1>2, <1>7, <1>8, <1>9, Opens DEF Begin

(* Every step is one of these.                                                *)
LEMMA Steps ==
  ASSUME memory \in Memories, up => Behind(memory, memory), nextId \in Nat, MaxEvents \in Nat,
         Next
  PROVE  \/ Opening
         \/ CreateSnapshot \/ AutomaticSnapshot \/ CompactStorage \/ AppendNext
         \/ \E how \in Failures : AppendFails(how)
         \/ Crash \/ Restart
<1>0. ASSUME up
      PROVE  Next => \/ Opening
                     \/ CreateSnapshot \/ AutomaticSnapshot \/ CompactStorage \/ AppendNext
                     \/ \E how \in Failures : AppendFails(how)
                     \/ Crash \/ Restart
  <2>0. Behind(memory, memory)
    BY <1>0
  <2>1. \A rs \in {<<r>> : r \in Resources \ memory.recommended}
                  \cup {s \in Resources \X Resources :
                          s[1] # s[2] /\ Range(s) \cap memory.recommended = {}} :
          rs \in Seq(Resources)
    <3>1. \A s \in Resources \X Resources : s \in Seq(Resources)
      <4>1. \A x, y \in Resources : <<x, y>> \in Seq(Resources)
        OBVIOUS
      <4>2. \A s \in Resources \X Resources :
              s = <<s[1], s[2]>> /\ s[1] \in Resources /\ s[2] \in Resources
        OBVIOUS
      <4>. QED  BY <4>1, <4>2
    <3>2. \A r \in Resources : <<r>> \in Seq(Resources)
      OBVIOUS
    <3>. QED  BY <3>1, <3>2
  <2>2. \A rs \in {<<r>> : r \in Resources \ memory.recommended}
                  \cup {s \in Resources \X Resources :
                          s[1] # s[2] /\ Range(s) \cap memory.recommended = {}} :
          Recommend(rs) => Opening
    BY <2>1, RecommendOpens
  <2>3. \A node \in 0..MaxEvents : node \in Nat
    OBVIOUS
  <2>4. \A n \in DOMAIN memory.lines, node \in 0..MaxEvents :
          ExtendVariation(n, node) \/ SetCursor(n, node) => Opening
    BY <2>0, <2>3, EntryOpens
  <2>5. /\ \A d \in Drills : BeginDrillSession(d) \/ AdvanceHint(d) => Opening
        /\ \A n \in DOMAIN memory.lines : DeleteVariation(n) => Opening
    BY <2>0, EntryOpens
  <2>6. /\ \A gs \in {<<g>> : g \in Games} \cup {s \in Games \X Games : s[1] # s[2]},
              rated \in BOOLEAN : Import(gs, rated) => Opening
        /\ \A g \in Games, b \in BOOLEAN : SaveAnalysis(g, b) => Opening
        /\ \A d \in Drills, correct \in BOOLEAN : RecordAttempt(d, correct) => Opening
    BY ImportOpens, AnalysisOpens, AttemptOpens
  <2>. QED
    BY <2>0, <2>2, <2>4, <2>5, <2>6, PlainOpens, NumberedOpens, Zenon DEF Next
<1>1. ASSUME ~up
      PROVE  Next => Restart
  <2>1. \A op, events, m : ~BeginWith(op, events, m)
    BY <1>1 DEF BeginWith, Free
  <2>2. \A op, events : ~Begin(op, events)
    BY <2>1 DEF Begin
  <2>3. /\ \A gs, rated : ~Import(gs, rated)
        /\ \A g : ~SaveShallow(g) /\ ~CreateVariation(g) /\ ~RecordReview(g)
        /\ \A g, b : ~SaveAnalysis(g, b) /\ ~RecordJobState(g, b) /\ ~RecordAttempt(g, b)
        /\ \A d : ~AddValidatedDrill(d) /\ ~BeginDrillSession(d) /\ ~AdvanceHint(d)
    BY <2>1, <2>2, Zenon
    DEF Import, SaveShallow, CreateVariation, RecordReview, SaveAnalysis, RecordJobState,
        RecordAttempt, AddValidatedDrill, BeginDrillSession, AdvanceHint
  <2>4. /\ ~CreateBatch
        /\ \A x : /\ ~Recommend(x) /\ ~CompleteResource(x) /\ ~SetBackgroundPaused(x)
                  /\ ~SaveProfile(x) /\ ~IndexChunk(x) /\ ~CheckpointMonth(x)
                  /\ ~SaveSyncState(x) /\ ~DeleteVariation(x)
        /\ \A n, node : ~ExtendVariation(n, node) /\ ~SetCursor(n, node)
    BY <2>1, <2>2, Zenon
    DEF CreateBatch, Recommend, CompleteResource, SetBackgroundPaused, SaveProfile,
        IndexChunk, CheckpointMonth, SaveSyncState, DeleteVariation, ExtendVariation,
        SetCursor, SaveLine
  <2>5. ~CreateSnapshot /\ ~AutomaticSnapshot /\ ~CompactStorage /\ ~AppendNext /\ ~Crash
    BY <1>1 DEF CreateSnapshot, AutomaticSnapshot, CompactStorage, AppendNext, Crash, Free
  <2>6. \A how : ~AppendFails(how)
    BY <1>1 DEF AppendFails
  <2>. QED  BY <2>3, <2>4, <2>5, <2>6, Zenon DEF Next
<1>. QED  BY <1>0, <1>1

(* The name of a new snapshot is a new one.                                   *)
LEMMA FreshIs ==
  ASSUME files \in SUBSET SnapshotFiles, log \in Seq(LogEvents), NEW b \in Nat,
         \A s \in files : s.name <= b,
         \A i \in DOMAIN log : log[i].kind = "snapshot" => log[i].of <= b
  PROVE  /\ FreshName \in Nat \ {0}
         /\ \A s \in files : s.name < FreshName
         /\ \A i \in DOMAIN log : log[i].kind = "snapshot" => log[i].of < FreshName
<1>. DEFINE used == {0} \cup {s.name : s \in files}
                    \cup {log[i].of : i \in {j \in DOMAIN log : log[j].kind = "snapshot"}}
            last == CHOOSE n \in used : \A u \in used : u <= n
<1>1. \A i \in DOMAIN log : log[i].kind = "snapshot" => log[i].of \in Nat
  BY DEF LogEvents, Typed
<1>2. \A s \in files : s.name \in Nat
  BY DEF SnapshotFiles
<1>3. used \in SUBSET (0..b) /\ used # {}
  BY <1>1, <1>2
<1>4. \A s \in files : s.name \in used
  OBVIOUS
<1>5. \A i \in DOMAIN log : log[i].kind = "snapshot" => log[i].of \in used
  OBVIOUS
<1>6. FreshName = 1 + last
  BY DEF FreshName
<1>. HIDE DEF used
<1>7. \E n \in used : \A u \in used : u <= n
  BY <1>3, HasLargest, Zenon
<1>8. last \in used /\ \A u \in used : u <= last
  BY <1>7, Zenon
<1>. HIDE DEF last
<1>9. last \in Nat /\ \A u \in used : u \in Nat
  BY <1>3, <1>8
<1>10. 1 + last \in Nat \ {0} /\ \A u \in used : u < 1 + last
  BY <1>8, <1>9
<1>. QED  BY <1>4, <1>5, <1>6, <1>10, Zenon

-----------------------------------------------------------------------------
(* The inductive invariant.                                                   *)

(* The variables keep their types.                                            *)
Typing ==
  /\ log \in Seq(LogEvents) /\ nextId \in Nat \ {0}
  /\ memory \in Memories /\ IdsBelow(memory) /\ noted \in NotedStates
  /\ files \in SUBSET SnapshotFiles /\ IsFiniteSet(files)
  /\ Cardinality(files) <= MaxSnapshots
  /\ call \in [op : Operations \cup {None}, todo : Seq(PlainEvents), added : BOOLEAN]
  /\ call.op = None => call = NoCall
  /\ call # NoCall => call.todo # <<>>
  /\ up \in BOOLEAN /\ due \in BOOLEAN /\ clean \in BOOLEAN
  /\ scope \in Scopes
  /\ faults \in SUBSET {"append", "sync", "noted"}
  /\ ~up => call = NoCall

(* Ids are given in order and within the bound; no snapshot and no count of   *)
(* applied events is ahead of the log; the names of snapshots are bounded.    *)
Named(fs, events, B) ==
  /\ \A s \in fs : s.name <= B
  /\ \A i \in DOMAIN events : events[i].kind = "snapshot" => events[i].of <= B
Ids ==
  /\ NonDecreasing(log)
  /\ \A i \in DOMAIN log : log[i].id <= MaxEvents /\ log[i].id <= nextId
  /\ nextId <= MaxEvents + 1
  /\ call # NoCall => nextId + Len(call.todo) <= MaxEvents + 1
  /\ noted.at <= LastId(log) /\ (up => noted.at < nextId)
  /\ Starts(call.todo, "parsed") => noted.at < LastId(log)
  /\ \A s \in files : s.at <= LastId(log) /\ s.at < nextId
  /\ up /\ "sync" \notin faults => nextId = LastId(log) + 1
  /\ \E B \in Nat : Named(files, log, B)

Sources == Vouched(log, files, call.todo)

(* The bases keep what was shown, and the call under way is what the members  *)
(* call for.                                                                  *)
Keeps ==
  /\ Sourced(Sources, log)
  /\ up => Shown(Sources, log, memory, call.todo) /\ Planned(memory, call.todo)

(* Unless an event was written whose append failed, or one was counted as     *)
(* applied that was not, the bases show what the members hold.                *)
Safe(fs) == fs \cap {"sync", "noted"} = {}
Agrees(events, m, todo, n, fs) ==
  LET x == From(Nothing, events)
  IN /\ SameRest(x, m) /\ Leads(x, m, todo)
     /\ InStep(n, todo, LastId(events)) => Abreast(x, m, todo)
     /\ fs = {} => InStep(n, todo, LastId(events)) /\ LeadsByCall(x, m, todo)
Settles ==
  Safe(faults) => /\ Settled(Sources, log)
                  /\ up => Agrees(log, memory, call.todo, noted, faults)

(* The index files show the members, but during a call that will rebuild them.*)
Indexing ==
  /\ up /\ clean /\ (call = NoCall \/ ~Rebuilds(call.op)) => index = Indexed(memory, files)
  /\ ~Rebuilds(call.op) => \A i \in DOMAIN call.todo : call.todo[i].kind \in Unindexed

IInv == Typing /\ Ids /\ Keeps /\ Settles /\ Indexing

(* The invariant holds in every state.                                        *)

(* What it says of the ids and of the bases.                                  *)
LEMMA InvFacts ==
  ASSUME IInv
  PROVE  /\ Sources \in SUBSET BaseStates /\ Nothing \in Sources
         /\ \A b \in Sources : b.at <= LastId(log) /\ b.at < nextId
         /\ \A b \in Sources : IdsBelow(b.memory)
         /\ LastId(log) \in Nat /\ nextId \in Nat \ {0} /\ MaxEvents \in Nat
         /\ \A i \in DOMAIN log : /\ log[i].id \in Nat \ {0} /\ log[i].id <= LastId(log)
                                  /\ log[i].id <= nextId
         /\ LastId(log) <= nextId /\ LastId(log) <= MaxEvents
<1>1. /\ log \in Seq(LogEvents) /\ nextId \in Nat \ {0} /\ files \in SUBSET SnapshotFiles
      /\ scope \in Scopes
  BY DEF IInv, Typing
<1>2. MaxEvents \in Nat
  BY <1>1, RepositoryBounds DEF MaxEvents
<1>3. /\ NonDecreasing(log) /\ \A i \in DOMAIN log : log[i].id <= MaxEvents /\ log[i].id <= nextId
      /\ \A s \in files : s.at <= LastId(log) /\ s.at < nextId
  BY DEF IInv, Ids
<1>4. /\ LastId(log) \in Nat
      /\ \A i \in DOMAIN log : log[i].id \in Nat \ {0} /\ log[i].id <= LastId(log)
      /\ log # <<>> => \E i \in DOMAIN log : log[i].id = LastId(log)
  BY <1>1, <1>3, LastIdIs
<1>5. LastId(log) <= nextId /\ LastId(log) <= MaxEvents
  <2>1. CASE log = <<>>
    <3>1. LastId(log) = 0
      BY <2>1 DEF LastId
    <3>. QED  BY <1>1, <1>2, <3>1
  <2>2. CASE log # <<>>
    BY <1>3, <1>4, <2>2
  <2>. QED  BY <2>1, <2>2
<1>6. /\ Bases(files) \in SUBSET BaseStates
      /\ \A b \in Bases(files) : IdsBelow(b.memory)
  BY <1>1, BasesTypes
<1>7. \A b \in Bases(files) : b.at <= LastId(log) /\ b.at < nextId
  BY <1>1, <1>3, <1>4 DEF Bases, Nothing, Base
<1>8. Nothing \in Sources /\ Sources \subseteq Bases(files)
  BY DEF Sources, Vouched, Bases
<1>. QED  BY <1>1, <1>2, <1>3, <1>4, <1>5, <1>6, <1>7, <1>8

(* Projections that differ in the next ids only are indexed alike.            *)
LEMMA IndexedSame ==
  ASSUME NEW m \in Memories, NEW r \in Memories, r.games = m.games, SameRest(r, m), NEW fs
  PROVE  Indexed(r, fs) = Indexed(m, fs)
<1>1. \A x \in Memories :
        Snapshotted(x).games = [g \in Games |-> IF "deep" \in x.games[g] THEN {"game", "deep"}
                                                ELSE x.games[g]]
  BY DEF Snapshotted, Memories
<1>2. Snapshotted(r).games = Snapshotted(m).games
  BY <1>1
<1>3. /\ r.drills = m.drills /\ r.completed = m.completed /\ r.recommended = m.recommended
      /\ r.profile = m.profile /\ r.archive = m.archive /\ r.months = m.months
      /\ r.sync = m.sync
  BY DEF SameRest, SameSets, SameValues, SameEntries
<1>. QED  BY <1>2, <1>3 DEF Indexed

(* Taking an id changes nothing that is shown.                                *)
LEMMA ShownTaken ==
  ASSUME NEW V, NEW events, NEW m, NEW r, NEW todo, NEW rest,
         r.games = m.games, SameRest(r, m), Shown(V, events, m, todo), ~Starts(rest, "parsed")
  PROVE  Shown(V, events, r, rest)
<1>1. /\ r.drills = m.drills /\ r.lines = m.lines /\ r.reviews = m.reviews
      /\ r.completed = m.completed /\ r.archive = m.archive
  BY DEF SameRest, SameSets, SameEntries
<1>2. \A g : Depends(r, g) <=> Depends(m, g)
  BY <1>1 DEF Depends
<1>3. /\ \A x : Behind(x, m) => Behind(x, r)
      /\ Behind(m, m) => Behind(r, r)
  BY <1>2 DEF Behind
<1>4. \A x : Covers(x, m) => Covers(x, r)
  BY <1>1 DEF Covers, CoversGames, CoversDrills, CoversSets
<1>5. DrillsAnalysed(m) => DrillsAnalysed(r)
  BY <1>1 DEF DrillsAnalysed
<1>. QED  BY <1>3, <1>4, <1>5 DEF Shown

(* Taking an id puts the members ahead of the log by that of the call, and    *)
(* leaves all else of the agreement.                                          *)
LEMMA AgreesTaken ==
  ASSUME NEW events, NEW m \in Memories, NEW r, NEW todo, Takes(m, r, todo), NEW n, NEW fs,
         From(Nothing, events) \in Memories,
         ~Starts(todo, "parsed"), Agrees(events, m, <<>>, n, fs)
  PROVE  Agrees(events, r, todo, n, fs)
<1>. DEFINE x == From(Nothing, events)
<1>1. \A kind : ~Starts(<<>>, kind) /\ Pos(<<>>, kind) = 0
  BY DEF Starts, Pos
<1>2. Pos(todo, "parsed") = 0
  BY DEF Pos
<1>3. \A kind : Pos(todo, kind) \in Nat
  BY DEF Pos
<1>4. /\ m.next.attempt \in Nat /\ m.next.batch \in Nat /\ m.next.review \in Nat
      /\ x.next.attempt \in Nat /\ x.next.batch \in Nat /\ x.next.review \in Nat
  BY DEF Memories, NextIds
<1>5. /\ SameRest(x, m) /\ Leads(x, m, <<>>)
      /\ InStep(n, <<>>, LastId(events)) => Abreast(x, m, <<>>)
      /\ fs = {} => InStep(n, <<>>, LastId(events)) /\ LeadsByCall(x, m, <<>>)
  BY DEF Agrees
<1>. HIDE DEF x
<1>6. SameRest(x, r)
  BY <1>5 DEF Takes, SameRest, SameSets, SameValues, SameEntries
<1>7. Leads(x, r, todo) /\ (LeadsByCall(x, m, <<>>) => LeadsByCall(x, r, todo))
  <2>1. /\ r.next.attempt = m.next.attempt + Pos(todo, "attempt")
        /\ r.next.batch = m.next.batch + Pos(todo, "batch")
        /\ r.next.review = m.next.review + Pos(todo, "review")
    BY DEF Takes
  <2>2. /\ x.next.attempt + 0 <= m.next.attempt
        /\ x.next.batch + 0 <= m.next.batch
        /\ x.next.review + 0 <= m.next.review
    BY <1>1, <1>5 DEF Leads
  <2>0. \A a, b, p \in Nat : a + 0 <= b => a + p <= b + p
    OBVIOUS
  <2>3. Leads(x, r, todo)
    <3>1. /\ x.next.attempt + Pos(todo, "attempt") <= m.next.attempt + Pos(todo, "attempt")
          /\ x.next.batch + Pos(todo, "batch") <= m.next.batch + Pos(todo, "batch")
          /\ x.next.review + Pos(todo, "review") <= m.next.review + Pos(todo, "review")
      BY <1>3, <1>4, <2>0, <2>2
    <3>. QED  BY <2>1, <3>1 DEF Leads
  <2>4. ASSUME LeadsByCall(x, m, <<>>)  PROVE  LeadsByCall(x, r, todo)
    <3>1. /\ x.next.attempt + 0 = m.next.attempt
          /\ x.next.batch + 0 = m.next.batch
          /\ x.next.review + 0 = m.next.review
      BY <1>1, <2>4 DEF LeadsByCall
    <3>. QED  BY <1>3, <1>4, <2>1, <3>1 DEF LeadsByCall
  <2>. QED  BY <2>3, <2>4
<1>8. InStep(n, todo, LastId(events)) <=> InStep(n, <<>>, LastId(events))
  BY <1>1, <1>2 DEF InStep
<1>9. Abreast(x, m, <<>>) => Abreast(x, r, todo)
  <2>1. Abreast(x, m, <<>>) <=> SameGames(x, m)
    BY <1>1, AbreastIs
  <2>2. Abreast(x, r, todo) <=> SameGames(x, r)
    BY AbreastIs
  <2>3. r.games = m.games
    BY DEF Takes
  <2>. QED  BY <2>1, <2>2, <2>3 DEF SameGames
<1>. QED  BY <1>5, <1>6, <1>7, <1>8, <1>9 DEF Agrees, x

(* A call begins.                                                             *)
LEMMA OpeningStep ==
  ASSUME IInv, Opening
  PROVE  IInv'
<1>. USE InvFacts
<1>1. /\ up /\ call = NoCall
      /\ call' \in [op : Operations \ {"snapshot"}, todo : Seq(PlainEvents), added : {FALSE}]
      /\ call'.todo # <<>> /\ nextId + Len(call'.todo) <= MaxEvents + 1
      /\ memory' \in Memories /\ Takes(memory, memory', call'.todo)
      /\ Planned(memory', call'.todo)
      /\ ~Starts(call'.todo, "snapshot") /\ ~Starts(call'.todo, "parsed")
      /\ ~Rebuilds(call'.op) =>
           \A i \in DOMAIN call'.todo : call'.todo[i].kind \in Unindexed
  BY DEF Opening
<1>2. /\ log' = log /\ nextId' = nextId /\ noted' = noted /\ index' = index /\ files' = files
      /\ due' = due /\ up' = up /\ scope' = scope /\ clean' = clean /\ faults' = faults
  BY DEF Opening
<1>3. MaxEvents' = MaxEvents
  BY <1>2 DEF MaxEvents
<1>4. call.todo = <<>> /\ call.op = None
  BY <1>1 DEF NoCall
<1>5. memory'.games = memory.games /\ SameRest(memory', memory)
  BY <1>1 DEF Takes
<1>6. memory \in Memories /\ IdsBelow(memory)
  BY DEF IInv, Typing
<1>7. Typing'
  <2>1. IdsBelow(memory')
    BY <1>1, <1>6, IdsBelowTaken
  <2>2. None \notin Operations
    BY DEF None, Operations
  <2>3. /\ call' \in [op : Operations \cup {None}, todo : Seq(PlainEvents), added : BOOLEAN]
        /\ call'.op # None
    BY <1>1, <2>2
  <2>. QED  BY <1>1, <1>2, <2>1, <2>3 DEF IInv, Typing
<1>8. Ids'
  <2>1. Ids
    BY DEF IInv
  <2>. QED  BY <1>1, <1>2, <1>3, <2>1 DEF Ids
<1>9. Sources' \in SUBSET Sources
  <2>1. \A b : ~Claims(call'.todo, b)
    BY <1>1 DEF Claims
  <2>2. Vouched(log, files, call'.todo) \subseteq Vouched(log, files, call.todo)
    BY <2>1, VouchedLess
  <2>. QED  BY <1>2, <2>2 DEF Sources
<1>10. Keeps'
  <2>1. Sourced(Sources, log) /\ Shown(Sources, log, memory, call.todo)
    BY <1>1 DEF IInv, Keeps
  <2>2. Sourced(Sources', log) /\ Shown(Sources', log, memory, call.todo)
    BY <1>9, <2>1, FewerBases
  <2>3. Shown(Sources', log, memory', call'.todo)
    BY <1>1, <1>5, <2>2, ShownTaken
  <2>. QED  BY <1>1, <1>2, <2>2, <2>3 DEF Keeps
<1>11. Settles'
  <2>. SUFFICES ASSUME Safe(faults)
                PROVE  Settled(Sources', log) /\ Agrees(log, memory', call'.todo, noted, faults)
    BY <1>2 DEF Settles
  <2>1. Settled(Sources, log) /\ Agrees(log, memory, <<>>, noted, faults)
    BY <1>1, <1>4 DEF IInv, Settles
  <2>2. Settled(Sources', log)
    BY <1>9, <2>1 DEF Settled
  <2>3. From(Nothing, log) \in Memories
    <3>1. log \in Seq(LogEvents)
      BY DEF IInv, Typing
    <3>. QED  BY <3>1, FromTypes
  <2>. QED  BY <1>1, <1>6, <2>1, <2>2, <2>3, AgreesTaken
<1>12. Indexing'
  <2>1. Indexed(memory', files) = Indexed(memory, files)
    BY <1>1, <1>5, <1>6, IndexedSame
  <2>2. up /\ clean => index = Indexed(memory, files)
    BY <1>1 DEF IInv, Indexing
  <2>. QED  BY <1>1, <1>2, <2>1, <2>2 DEF Indexing
<1>. QED  BY <1>7, <1>8, <1>10, <1>11, <1>12 DEF IInv

(* Nothing is owed when no call is under way.                                 *)
LEMMA NothingToDo ==
  /\ \A kind : ~Starts(<<>>, kind) /\ Pos(<<>>, kind) = 0
  /\ \A b : ~Claims(<<>>, b)
  /\ \A m : Planned(m, <<>>)
  /\ DOMAIN <<>> = {}
  /\ NoCall.todo = <<>> /\ NoCall.op = None /\ NoCall.added = FALSE
  /\ None \notin Operations
<1>1. \A kind : ~Starts(<<>>, kind) /\ Pos(<<>>, kind) = 0
  BY DEF Starts, Pos
<1>2. DOMAIN <<>> = {}
  OBVIOUS
<1>3. Linked(<<>>)
  BY <1>2 DEF Linked
<1>. QED  BY <1>1, <1>2, <1>3 DEF Claims, Planned, NoCall, None, Operations

(* It holds at first.                                                         *)
LEMMA InvInit ==
  ASSUME Init
  PROVE  IInv
<1>1. /\ log = <<>> /\ nextId = 1 /\ memory = Empty /\ noted = [at |-> 0, whole |-> TRUE]
      /\ files = {} /\ index = Indexed(Empty, {}) /\ call = NoCall /\ due = FALSE
      /\ up = TRUE /\ scope \in Scopes /\ clean = TRUE /\ faults = {}
  BY DEF Init
<1>2. call.todo = <<>> /\ call.op = None /\ call.added = FALSE
  BY <1>1, NothingToDo
<1>3. Empty \in Memories /\ IdsBelow(Empty) /\ IdsOf(Empty) = {}
  BY EmptyTypes
<1>4. LastId(log) = 0 /\ DOMAIN log = {} /\ log \in Seq(LogEvents)
  BY <1>1 DEF LastId
<1>5. MaxEvents \in Nat /\ MaxSnapshots \in Nat
  BY <1>1, RepositoryBounds DEF MaxEvents
<1>6. Typing
  <2>1. IsFiniteSet({}) /\ Cardinality({}) = 0
    BY FS_EmptySet
  <2>2. call \in [op : Operations \cup {None}, todo : Seq(PlainEvents), added : BOOLEAN]
    <3>1. <<>> \in Seq(PlainEvents)
      OBVIOUS
    <3>. QED  BY <1>1, <3>1 DEF NoCall
  <2>3. noted \in NotedStates
    BY <1>1 DEF NotedStates
  <2>4. up \in BOOLEAN /\ due \in BOOLEAN /\ clean \in BOOLEAN
        /\ (up /\ ~due /\ clean)
    BY <1>1
  <2>5. files \in SUBSET SnapshotFiles /\ IsFiniteSet(files) /\ Cardinality(files) <= MaxSnapshots
    BY <1>1, <1>5, <2>1
  <2>6. faults \in SUBSET {"append", "sync", "noted"} /\ nextId \in Nat \ {0}
        /\ memory \in Memories /\ IdsBelow(memory)
    BY <1>1, <1>3
  <2>. QED  BY <1>1, <1>4, <2>2, <2>3, <2>4, <2>5, <2>6 DEF Typing
<1>7. Ids
  <2>1. \E B \in Nat : Named(files, log, B)
    BY <1>1, <1>4 DEF Named
  <2>2. NonDecreasing(log)
    BY <1>4 DEF NonDecreasing
  <2>3. ~Starts(call.todo, "parsed")
    BY <1>2, NothingToDo
  <2>. QED  BY <1>1, <1>4, <1>5, <2>1, <2>2, <2>3 DEF Ids
<1>8. Sources = {Nothing} /\ From(Nothing, log) = Empty
  <2>1. Bases(files) = {Nothing}
    BY <1>1 DEF Bases
  <2>2. Nothing.memory = Empty
    BY DEF Nothing
  <2>. QED  BY <1>1, <1>3, <2>1, <2>2, ReplayNothing DEF Sources, Vouched, From
<1>9. Keeps
  <2>1. \A g \in Games : ~Empty.drills[g].made /\ ~Depends(Empty, g)
    BY DEF Empty, NoDrill, Drills, Depends
  <2>2. Behind(Empty, Empty) /\ DrillsAnalysed(Empty) /\ SameLate(Empty, Empty)
    BY <2>1 DEF Behind, DrillsAnalysed, SameLate
  <2>3. Covers(Empty, Empty)
    BY CoversAll
  <2>4. Sourced(Sources, log)
    BY <1>8, <2>2, <2>3 DEF Sourced
  <2>5. Shown(Sources, log, memory, call.todo)
    BY <1>1, <1>2, <1>8, <2>2, <2>3, NothingToDo DEF Shown
  <2>. QED  BY <1>2, <2>4, <2>5, NothingToDo DEF Keeps
<1>10. Settles
  <2>1. Alike(Empty, Empty) /\ SameRest(Empty, Empty) /\ SameGames(Empty, Empty)
    BY DEF Alike, SameGames, SameRest, SameSets, SameValues, SameEntries, SameNext
  <2>2. Numbered(Empty)
    <3>1. Empty.next.attempt = 1 /\ Empty.next.batch = 1 /\ Empty.batches = {}
      BY DEF Empty
    <3>2. \A d \in Drills : DOMAIN Empty.drills[d].attempts = {}
      BY DEF Empty, NoDrill
    <3>. QED  BY <1>3, <3>1, <3>2 DEF Numbered, LastOf, Distinct
  <2>3. Leads(Empty, Empty, <<>>) /\ LeadsByCall(Empty, Empty, <<>>)
    <3>1. Empty.next.attempt = 1 /\ Empty.next.batch = 1 /\ Empty.next.review = 1
      BY DEF Empty
    <3>. QED  BY <3>1, NothingToDo DEF Leads, LeadsByCall
  <2>4. Abreast(Empty, Empty, <<>>)
    BY <2>1, AbreastIs, NothingToDo
  <2>5. InStep(noted, <<>>, 0)
    BY <1>1, NothingToDo DEF InStep
  <2>. QED
    BY <1>1, <1>2, <1>4, <1>8, <2>1, <2>2, <2>3, <2>4, <2>5 DEF Settles, Settled, Agrees
<1>11. Indexing
  BY <1>1, <1>2, NothingToDo DEF Indexing
<1>. QED  BY <1>6, <1>7, <1>9, <1>10, <1>11 DEF IInv

(* A step that changes nothing but what save_analysis is about to do.         *)
LEMMA InvSame ==
  ASSUME IInv, due' \in BOOLEAN,
         UNCHANGED <<log, nextId, memory, noted, index, files, call, up, scope, clean, faults>>
  PROVE  IInv'
<1>1. /\ log' = log /\ nextId' = nextId /\ memory' = memory /\ noted' = noted /\ index' = index
      /\ files' = files /\ call' = call /\ up' = up /\ scope' = scope
      /\ clean' = clean /\ faults' = faults
  OBVIOUS
<1>2. MaxEvents' = MaxEvents
  BY <1>1 DEF MaxEvents
<1>3. Sources' = Sources
  BY <1>1 DEF Sources
<1>4. Typing'
  BY <1>1 DEF IInv, Typing
<1>5. Ids'
  BY <1>1, <1>2 DEF IInv, Ids
<1>6. Keeps'
  BY <1>1, <1>3 DEF IInv, Keeps
<1>7. Settles'
  BY <1>1, <1>3 DEF IInv, Settles
<1>8. Indexing'
  BY <1>1 DEF IInv, Indexing
<1>. QED  BY <1>4, <1>5, <1>6, <1>7, <1>8 DEF IInv

(* Projections that show the same agree with each other.                      *)
LEMMA AgreesAlike ==
  ASSUME NEW events, NEW m \in Memories, From(Nothing, events) \in Memories,
         Alike(m, From(Nothing, events)), NEW n, InStep(n, <<>>, LastId(events)), NEW fs
  PROVE  Agrees(events, m, <<>>, n, fs)
<1>. DEFINE x == From(Nothing, events)
<1>0. x \in Memories /\ Alike(m, x)
  OBVIOUS
<1>. HIDE DEF x
<1>1. Alike(x, m)
  BY <1>0, AlikeAll
<1>2. SameRest(x, m) /\ SameGames(x, m) /\ SameNext(x, m)
  BY <1>1 DEF Alike
<1>3. Abreast(x, m, <<>>)
  BY <1>2, AbreastIs, NothingToDo
<1>4. /\ x.next.attempt \in Nat /\ x.next.batch \in Nat /\ x.next.review \in Nat
  BY <1>0, IdsAreNumbers
<1>5. Leads(x, m, <<>>) /\ LeadsByCall(x, m, <<>>)
  <2>1. Pos(<<>>, "attempt") = 0 /\ Pos(<<>>, "batch") = 0 /\ Pos(<<>>, "review") = 0
    BY NothingToDo
  <2>. QED  BY <1>2, <1>4, <2>1 DEF Leads, LeadsByCall, SameNext
<1>. QED  BY <1>2, <1>3, <1>5 DEF Agrees, x

(* The constructors.                                                          *)
LEMMA RestartStep ==
  ASSUME IInv, Restart
  PROVE  IInv'
<1>. USE InvFacts, NothingToDo
<1>1. /\ ~up /\ up' = TRUE /\ memory' = Rebuilt(log, files)
      /\ nextId' = 1 + CHOOSE n \in {0} \cup {e.id : e \in Range(log)} :
                         \A e \in Range(log) : e.id <= n
      /\ noted' = [at |-> LastId(log), whole |-> TRUE]
      /\ index' = Indexed(memory', files) /\ clean' = TRUE
      /\ faults' = faults \ {"append"}
      /\ log' = log /\ files' = files /\ call' = call /\ due' = due /\ scope' = scope
  BY DEF Restart
<1>2. MaxEvents' = MaxEvents
  BY <1>1 DEF MaxEvents
<1>3. call = NoCall /\ log \in Seq(LogEvents) /\ files \in SUBSET SnapshotFiles
  BY <1>1 DEF IInv, Typing
<1>4. call.todo = <<>>
  BY <1>3
<1>5. Sources' = Sources /\ Sources = Vouched(log, files, <<>>)
  BY <1>1, <1>4 DEF Sources
<1>6. PICK c \in Sources : /\ memory' = From(c, log)
                           /\ \A b \in Sources : Older(b, c)
  <2>1. PICK B \in Nat : Named(files, log, B)
    BY DEF IInv, Ids
  <2>2. PICK K \in Nat : K = LastId(log) + B
    OBVIOUS
  <2>3. \A s \in files : s.name \in Nat /\ s.at \in Nat
    BY <1>3 DEF SnapshotFiles
  <2>4. \A s \in files : s.at <= LastId(log) /\ s.name <= B
    BY <2>1 DEF IInv, Ids, Named
  <2>5. \A s \in files : s.at <= K /\ s.name <= K
    BY <2>2, <2>3, <2>4
  <2>6. PICK c : /\ c \in Vouched(log, files, <<>>) /\ Rebuilt(log, files) = From(c, log)
                 /\ \A b \in Vouched(log, files, <<>>) : Older(b, c)
    BY <1>3, <2>5, RebuiltIs
  <2>. QED  BY <1>1, <1>5, <2>6
<1>7. nextId' = LastId(log) + 1
  <2>. DEFINE ids == {0} \cup {e.id : e \in Range(log)}
              last == CHOOSE n \in ids : \A e \in Range(log) : e.id <= n
  <2>1. \A e \in Range(log) : e.id \in Nat /\ e.id <= LastId(log)
    BY DEF Range
  <2>2. LastId(log) \in ids
    <3>1. CASE log = <<>>
      BY <3>1 DEF LastId
    <3>2. CASE log # <<>>
      <4>1. NonDecreasing(log)
        BY DEF IInv, Ids
      <4>2. PICK i \in DOMAIN log : log[i].id = LastId(log)
        BY <1>3, <3>2, <4>1, LastIdIs
      <4>. QED  BY <4>2 DEF Range
    <3>. QED  BY <3>1, <3>2
  <2>3. \E n \in ids : \A e \in Range(log) : e.id <= n
    BY <2>1, <2>2
  <2>4. last \in ids /\ \A e \in Range(log) : e.id <= last
    BY <2>3, Zenon
  <2>5. \A n \in ids : n \in Nat /\ n <= LastId(log)
    BY <2>1
  <2>6. LastId(log) = 0 \/ \E e \in Range(log) : e.id = LastId(log)
    BY <2>2
  <2>7. nextId' = 1 + last
    BY <1>1
  <2>. HIDE DEF last, ids
  <2>8. last \in Nat /\ last <= LastId(log) /\ LastId(log) <= last
    BY <2>4, <2>5, <2>6
  <2>. QED  BY <2>7, <2>8
<1>8. c \in BaseStates /\ memory' \in Memories /\ IdsBelow(memory')
  <2>1. c \in BaseStates /\ IdsBelow(c.memory)
    BY <1>6
  <2>. QED  BY <1>3, <1>6, <2>1, FromTypes, FromIdsBelow
<1>9. Typing'
  <2>1. noted' \in NotedStates
    BY <1>1 DEF NotedStates
  <2>2. clean' \in BOOLEAN /\ up' \in BOOLEAN /\ up'
    BY <1>1
  <2>3. faults' \in SUBSET {"append", "sync", "noted"}
    BY <1>1 DEF IInv, Typing
  <2>4. nextId' \in Nat \ {0}
    BY <1>7
  <2>. QED  BY <1>1, <1>8, <2>1, <2>2, <2>3, <2>4 DEF IInv, Typing
<1>10. Ids'
  <2>1. Ids
    BY DEF IInv
  <2>2. LastId(log) \in Nat /\ LastId(log) <= MaxEvents /\ MaxEvents \in Nat
    OBVIOUS
  <2>3. /\ nextId' <= MaxEvents + 1 /\ noted'.at = LastId(log) /\ LastId(log) < nextId'
    BY <1>1, <1>7, <2>2
  <2>4. \A i \in DOMAIN log : log[i].id <= MaxEvents /\ log[i].id <= nextId'
    BY <1>7, <2>1 DEF Ids
  <2>5. \A s \in files : s.at <= LastId(log) /\ s.at < nextId'
    <3>1. \A s \in files : s.at \in Nat /\ s.at <= LastId(log)
      BY <1>3, <2>1 DEF Ids, SnapshotFiles
    <3>. QED  BY <1>7, <2>2, <3>1
  <2>6. call' = NoCall /\ ~Starts(call'.todo, "parsed")
    BY <1>1, <1>3
  <2>7. (\E B \in Nat : Named(files, log, B))' /\ NonDecreasing(log)'
    BY <1>1, <2>1 DEF Ids
  <2>9. log' = log /\ files' = files
    BY <1>1
  <2>10. noted'.at <= LastId(log) /\ noted'.at < nextId'
    BY <2>2, <2>3
  <2>8. /\ (noted.at <= LastId(log))' /\ (noted.at < nextId)' /\ (nextId = LastId(log) + 1)'
        /\ (nextId <= MaxEvents + 1)'
        /\ (\A i \in DOMAIN log : log[i].id <= MaxEvents /\ log[i].id <= nextId)'
        /\ (\A s \in files : s.at <= LastId(log) /\ s.at < nextId)'
    BY <1>2, <1>7, <2>3, <2>4, <2>5, <2>9, <2>10, Zenon
  <2>. QED  BY <2>6, <2>7, <2>8, Zenon DEF Ids
<1>11. Keeps'
  <2>1. Sourced(Sources, log)
    BY DEF IInv, Keeps
  <2>2. /\ Behind(From(c, log), From(c, log)) /\ DrillsAnalysed(From(c, log))
        /\ \A b \in Sources : /\ Covers(From(b, log), From(c, log))
                              /\ Behind(From(b, log), From(c, log))
    BY <1>6, <2>1 DEF Sourced
  <2>3. Shown(Sources, log, memory', <<>>)
    BY <1>6, <2>2 DEF Shown
  <2>. QED  BY <1>1, <1>4, <1>5, <2>1, <2>3 DEF Keeps
<1>12. Settles'
  <2>. SUFFICES ASSUME Safe(faults')
                PROVE  Settled(Sources, log) /\ Agrees(log, memory', <<>>, noted', faults')
    BY <1>1, <1>4, <1>5 DEF Settles
  <2>1. Safe(faults)
    BY <1>1 DEF Safe
  <2>2. Settled(Sources, log)
    BY <2>1 DEF IInv, Settles
  <2>3. Alike(memory', From(Nothing, log))
    BY <1>6, <2>2 DEF Settled
  <2>4. From(Nothing, log) \in Memories
    BY <1>3, FromTypes
  <2>5. InStep(noted', <<>>, LastId(log))
    BY <1>1 DEF InStep
  <2>. QED  BY <1>8, <2>2, <2>3, <2>4, <2>5, AgreesAlike
<1>13. Indexing'
  <2>1. \A i \in DOMAIN call'.todo : FALSE
    BY <1>1, <1>4
  <2>. QED  BY <1>1, <2>1 DEF Indexing
<1>. QED  BY <1>9, <1>10, <1>11, <1>12, <1>13 DEF IInv

(* A snapshot of members that have applied all of the log joins the bases.    *)
LEMMA SnapshotStep ==
  ASSUME IInv, Free, WriteSnapshot, due' \in BOOLEAN,
         UNCHANGED <<log, nextId, memory, noted, index, up, mishaps, scope, clean, faults>>
  PROVE  IInv'
<1>. USE InvFacts, NothingToDo
<1>. DEFINE content == Snapshotted(memory)
            s == [name |-> FreshName, at |-> noted.at, content |-> content]
            b == [name |-> FreshName, at |-> noted.at, memory |-> Loaded(content)]
            e == Event("snapshot", FreshName, noted.at)
<1>1. /\ up /\ call = NoCall /\ noted.whole /\ noted.at = LastId(log)
      /\ Cardinality(files) < MaxSnapshots /\ nextId <= MaxEvents
      /\ files' = files \cup {s} /\ call' = [op |-> "snapshot", added |-> FALSE, todo |-> <<e>>]
  BY DEF Free, WriteSnapshot, Complete
<1>2. /\ log' = log /\ nextId' = nextId /\ memory' = memory /\ noted' = noted /\ index' = index
      /\ up' = up /\ scope' = scope /\ clean' = clean /\ faults' = faults
  OBVIOUS
<1>3. MaxEvents' = MaxEvents
  BY <1>2 DEF MaxEvents
<1>4. call.todo = <<>>
  BY <1>1
<1>5. /\ log \in Seq(LogEvents) /\ files \in SUBSET SnapshotFiles /\ IsFiniteSet(files)
      /\ memory \in Memories /\ IdsBelow(memory) /\ noted.at \in Nat
  BY DEF IInv, Typing, NotedStates
<1>6. PICK B \in Nat : Named(files, log, B)
  BY DEF IInv, Ids
<1>7. /\ FreshName \in Nat \ {0}
      /\ \A t \in files : t.name < FreshName
      /\ \A i \in DOMAIN log : log[i].kind = "snapshot" => log[i].of < FreshName
  BY <1>5, <1>6, FreshIs DEF Named
<1>8. LoadsTo(Loaded(content), memory)
  BY <1>5, LoadedIs
<1>9. s \in SnapshotFiles /\ s \notin files
  <2>1. content \in Contents
    BY <1>5 DEF Contents
  <2>2. s.name = FreshName
    OBVIOUS
  <2>3. \A t \in files : t # s
    BY <1>5, <1>7, <2>2 DEF SnapshotFiles
  <2>. HIDE DEF content
  <2>. QED  BY <1>5, <1>7, <2>1, <2>3 DEF SnapshotFiles
<1>10. /\ b.name = FreshName /\ b.at = noted.at /\ b.memory = Loaded(content)
       /\ Base(s) = b /\ s.name = FreshName /\ s.at = noted.at
  BY DEF Base
<1>11. b \in BaseStates
  <2>1. Loaded(content) \in Memories
    BY <1>8 DEF LoadsTo
  <2>. HIDE DEF content
  <2>. QED  BY <1>5, <1>7, <2>1 DEF BaseStates
<1>12. e \in PlainEvents /\ e.kind = "snapshot" /\ e.of = FreshName /\ e.val = noted.at
  BY <1>5, <1>7 DEF Event, PlainEvents, Typed, Kinds, GameKinds, Subjects, Values
<1>. HIDE DEF content, s, b, e
<1>13. /\ call'.todo = <<e>> /\ call'.op = "snapshot" /\ call'.added = FALSE
       /\ <<e>> \in Seq(PlainEvents) /\ Len(<<e>>) = 1 /\ <<e>>[1] = e /\ <<e>> # <<>>
  BY <1>1, <1>12
<1>14. ~Starts(<<e>>, "parsed")
  BY <1>12, <1>13 DEF Starts
<1>15. Typing'
  <2>1. call' \in [op : Operations \cup {None}, todo : Seq(PlainEvents), added : BOOLEAN]
    BY <1>1, <1>12 DEF Operations
  <2>2. "snapshot" # None
    BY DEF None
  <2>3. IsFiniteSet(files \cup {s}) /\ Cardinality(files \cup {s}) = Cardinality(files) + 1
    BY <1>5, <1>9, FS_AddElement
  <2>4. Cardinality(files \cup {s}) <= MaxSnapshots
    <3>1. Cardinality(files) \in Nat
      BY <1>5, FS_CardinalityType
    <3>2. MaxSnapshots \in Nat
      BY RepositoryBounds
    <3>. QED  BY <1>1, <2>3, <3>1, <3>2
  <2>5. files \cup {s} \in SUBSET SnapshotFiles
    BY <1>5, <1>9
  <2>6. call'.op # None /\ call'.todo # <<>> /\ up'
    BY <1>1, <1>2, <1>13, <2>2
  <2>7. /\ (files \in SUBSET SnapshotFiles)' /\ IsFiniteSet(files)'
        /\ (Cardinality(files) <= MaxSnapshots)'
    BY <1>1, <2>3, <2>4, <2>5
  <2>. QED  BY <1>2, <2>1, <2>6, <2>7 DEF IInv, Typing
<1>16. Ids'
  <2>1. Ids
    BY DEF IInv
  <2>2. \A t \in files' : t.at <= LastId(log) /\ t.at < nextId
    <3>1. noted.at < nextId /\ noted.at <= LastId(log)
      BY <1>1, <2>1 DEF Ids
    <3>. QED  BY <1>1, <1>10, <2>1, <3>1 DEF Ids
  <2>3. (\E K \in Nat : Named(files, log, K))'
    <3>1. PICK K \in Nat : K = B + FreshName
      BY <1>7
    <3>2. \A t \in files : t.name \in Nat /\ t.name <= B
      BY <1>5, <1>6 DEF SnapshotFiles, Named
    <3>3. \A t \in files' : t.name <= K
      BY <1>1, <1>7, <1>10, <3>1, <3>2
    <3>4. \A i \in DOMAIN log : log[i].kind = "snapshot" => log[i].of <= K
      <4>1. \A i \in DOMAIN log : log[i].kind = "snapshot" => log[i].of \in Nat
        BY <1>5 DEF LogEvents, Typed
      <4>2. \A i \in DOMAIN log : log[i].kind = "snapshot" => log[i].of <= B
        BY <1>6 DEF Named
      <4>. QED  BY <1>7, <3>1, <4>1, <4>2
    <3>. QED  BY <1>2, <3>3, <3>4 DEF Named
  <2>4. nextId + Len(<<e>>) <= MaxEvents + 1
    BY <1>1, <1>13
  <2>5. (~Starts(call.todo, "parsed"))'
    BY <1>13, <1>14
  <2>6. (call # NoCall => nextId + Len(call.todo) <= MaxEvents + 1)'
    BY <1>2, <1>3, <1>13, <2>4
  <2>7. (\A t \in files : t.at <= LastId(log) /\ t.at < nextId)'
    BY <1>2, <2>2
  <2>8. /\ NonDecreasing(log)'
        /\ (\A i \in DOMAIN log : log[i].id <= MaxEvents /\ log[i].id <= nextId)'
        /\ (nextId <= MaxEvents + 1)'
        /\ (noted.at <= LastId(log) /\ (up => noted.at < nextId))'
        /\ (up /\ "sync" \notin faults => nextId = LastId(log) + 1)'
    BY <1>2, <1>3, <2>1 DEF Ids
  <2>. QED  BY <2>3, <2>5, <2>6, <2>7, <2>8, Zenon DEF Ids
<1>17. Sources' \in SUBSET (Sources \cup {b})
  <2>. SUFFICES ASSUME NEW c \in Sources'  PROVE  c = b \/ c \in Sources
    OBVIOUS
  <2>1. c \in Bases(files \cup {s}) /\ (c = Nothing \/ Authorized(log, c) \/ Claims(<<e>>, c))
    BY <1>1, <1>2, <1>13 DEF Sources, Vouched
  <2>2. c = b \/ c \in Bases(files)
    BY <1>10, <2>1 DEF Bases
  <2>3. c \in Bases(files) => c.name # FreshName
    BY <1>7 DEF Bases, Base, Nothing
  <2>4. Claims(<<e>>, c) => c.name = FreshName
    BY <1>12, <1>13 DEF Claims
  <2>. QED  BY <1>4, <2>1, <2>2, <2>3, <2>4 DEF Sources, Vouched
<1>18. \A c \in Sources : Older(c, b) /\ ~Older(b, c)
  <2>. SUFFICES ASSUME NEW c \in Sources  PROVE  Older(c, b) /\ ~Older(b, c)
    OBVIOUS
  <2>1. c.at \in Nat /\ c.name \in Nat /\ c.at <= LastId(log)
    BY DEF BaseStates
  <2>2. c.name < FreshName
    BY <1>7 DEF Sources, Vouched, Bases, Base, Nothing
  <2>. QED  BY <1>1, <1>5, <1>7, <1>10, <2>1, <2>2 DEF Older
<1>19. LoadsTo(b.memory, memory) /\ \A i \in DOMAIN log : log[i].id <= b.at
  BY <1>1, <1>8, <1>10
<1>20. Keeps'
  <2>1. Sourced(Sources, log) /\ Shown(Sources, log, memory, <<>>)
    BY <1>1, <1>4 DEF IInv, Keeps
  <2>2. Sourced(Sources \cup {b}, log) /\ Shown(Sources \cup {b}, log, memory, <<e>>)
    BY <1>5, <1>11, <1>14, <1>18, <1>19, <2>1, SourcedSnapshot
  <2>3. Sourced(Sources', log) /\ Shown(Sources', log, memory, <<e>>)
    BY <1>17, <2>2, FewerBases
  <2>4. Planned(memory, <<e>>)
    <3>1. PlannedEvent(memory, e)
      BY <1>12 DEF PlannedEvent
    <3>2. e.kind \notin Importing /\ e.kind # "drill"
      BY <1>12 DEF Importing
    <3>. QED  BY <3>1, <3>2, PlannedOne
  <2>. QED  BY <1>2, <1>13, <2>3, <2>4 DEF Keeps
<1>21. Settles'
  <2>. SUFFICES ASSUME Safe(faults)
                PROVE  Settled(Sources', log) /\ Agrees(log, memory, <<e>>, noted, faults)
    BY <1>2, <1>13 DEF Settles
  <2>1. Settled(Sources, log) /\ Agrees(log, memory, <<>>, noted, faults)
    BY <1>1, <1>4 DEF IInv, Settles
  <2>2. InStep(noted, <<>>, LastId(log))
    BY <1>1, <1>5 DEF InStep
  <2>3. SameRest(From(Nothing, log), memory) /\ SameGames(From(Nothing, log), memory)
    BY <2>1, <2>2, AbreastIs DEF Agrees
  <2>4. Settled(Sources \cup {b}, log)
    BY <1>5, <1>11, <1>19, <2>1, <2>3, SettledSnapshot
  <2>5. Settled(Sources', log)
    BY <1>17, <2>4 DEF Settled
  <2>6. Takes(memory, memory, <<e>>)
    <3>1. \A i \in DOMAIN <<e>> : <<e>>[i].kind \notin {"attempt", "batch", "review"}
      BY <1>12
    <3>2. Pos(<<e>>, "attempt") = 0 /\ Pos(<<e>>, "batch") = 0 /\ Pos(<<e>>, "review") = 0
      BY <1>12, <1>13 DEF Pos, Starts
    <3>3. /\ memory.next.attempt \in Nat /\ memory.next.batch \in Nat
          /\ memory.next.review \in Nat
      BY <1>5, IdsAreNumbers
    <3>. QED  BY <3>2, <3>3 DEF Takes, SameRest, SameSets, SameValues, SameEntries
  <2>7. From(Nothing, log) \in Memories
    BY <1>5, FromTypes
  <2>. QED  BY <1>5, <1>14, <2>1, <2>5, <2>6, <2>7, AgreesTaken
<1>22. Indexing'
  <2>1. Rebuilds("snapshot")
    BY DEF Rebuilds
  <2>2. call' # NoCall
    BY <1>13
  <2>. QED  BY <1>13, <2>1, <2>2 DEF Indexing
<1>. QED  BY <1>15, <1>16, <1>20, <1>21, <1>22 DEF IInv

(* create_snapshot, by itself or at the end of save_analysis.                 *)
LEMMA SnapshotsStep ==
  ASSUME IInv, CreateSnapshot \/ AutomaticSnapshot
  PROVE  IInv'
<1>1. CASE CreateSnapshot
  <2>1. due' \in BOOLEAN
    BY <1>1 DEF CreateSnapshot, IInv, Typing
  <2>2. Free /\ WriteSnapshot
        /\ UNCHANGED <<log, nextId, memory, noted, index, up, mishaps, scope, clean, faults>>
    BY <1>1 DEF CreateSnapshot
  <2>. QED  BY <2>1, <2>2, SnapshotStep
<1>2. CASE AutomaticSnapshot
  <2>1. /\ Free /\ due' \in BOOLEAN
        /\ UNCHANGED <<log, nextId, memory, noted, index, up, mishaps, scope, clean, faults>>
    BY <1>2 DEF AutomaticSnapshot
  <2>2. CASE WriteSnapshot
    BY <2>1, <2>2, SnapshotStep
  <2>3. CASE UNCHANGED <<files, call>>
    BY <2>1, <2>3, InvSame
  <2>. QED  BY <1>2, <2>2, <2>3 DEF AutomaticSnapshot
<1>. QED  BY <1>1, <1>2

(* Projections agree with what shows the same as those they agree with.       *)
LEMMA AlikeHolds ==
  ASSUME NEW x, NEW y, Alike(y, x), NEW m, NEW todo
  PROVE  /\ SameRest(x, m) => SameRest(y, m)
         /\ SameGames(x, m) => SameGames(y, m)
         /\ Leads(x, m, todo) => Leads(y, m, todo)
         /\ LeadsByCall(x, m, todo) => LeadsByCall(y, m, todo)
<1>1. SameRest(y, x) /\ SameGames(y, x) /\ SameNext(y, x)
  BY DEF Alike
<1>2. SameRest(x, m) => SameRest(y, m)
  BY <1>1 DEF SameRest, SameSets, SameValues, SameEntries
<1>3. SameGames(x, m) => SameGames(y, m)
  BY <1>1 DEF SameGames
<1>. QED  BY <1>1, <1>2, <1>3 DEF SameNext, Leads, LeadsByCall

(* The marker of compaction changes no projection.                            *)
LEMMA CompactedIs ==
  ASSUME NEW n \in Nat \ {0}
  PROVE  LET e == Stamped(Event("compacted", None, 0), n)
         IN /\ e \in LogEvents /\ e.id = n /\ e.kind = "compacted"
            /\ \A m : Replayed(m, e) = m
<1>1. Event("compacted", None, 0) \in PlainEvents
  BY DEF Event, PlainEvents, Typed, Kinds, GameKinds, Subjects, Values
<1>2. Event("compacted", None, 0).kind = "compacted"
  BY DEF Event
<1>. DEFINE e == Stamped(Event("compacted", None, 0), n)
<1>3. e \in LogEvents /\ e.id = n /\ e.kind = "compacted"
  BY <1>1, <1>2, StampedTypes
<1>. HIDE DEF e
<1>4. \A m : Replayed(m, e) = m
  BY <1>3 DEF Replayed
<1>. QED  BY <1>3, <1>4 DEF e

(* The compacted log: from every base it shows what the log shows, and it     *)
(* vouches for no more.                                                       *)
LEMMA CompactedLog ==
  ASSUME NEW events \in Seq(LogEvents), NonDecreasing(events), NEW n \in Nat \ {0},
         \A i \in DOMAIN events : events[i].id <= n
  PROVE  LET e == Stamped(Event("compacted", None, 0), n)
             more == Append(Retained(events), e)
         IN /\ more \in Seq(LogEvents) /\ NonDecreasing(more) /\ LastId(more) = n
            /\ \A i \in DOMAIN more : more[i] = e \/ \E j \in DOMAIN events : events[j] = more[i]
            /\ \A b \in BaseStates : Alike(From(b, more), From(b, events))
            /\ \A b : Authorized(more, b) => Authorized(events, b)
<1>. DEFINE e == Stamped(Event("compacted", None, 0), n)
            some == Retained(events)
            more == Append(some, e)
<1>1. e \in LogEvents /\ e.id = n /\ e.kind = "compacted" /\ \A m : Replayed(m, e) = m
  BY CompactedIs
<1>2. /\ some \in Seq(LogEvents) /\ NonDecreasing(some)
      /\ \A i \in DOMAIN some : \E j \in DOMAIN events : events[j] = some[i]
  BY RetainedIs
<1>. HIDE DEF e, some
<1>3. \A i \in DOMAIN some : some[i].id <= e.id
  BY <1>1, <1>2
<1>4. /\ more \in Seq(LogEvents) /\ NonDecreasing(more) /\ LastId(more) = n
      /\ \A i \in DOMAIN more : (i \in DOMAIN some /\ more[i] = some[i]) \/ more[i] = e
  BY <1>1, <1>2, <1>3, LogAppend
<1>5. \A i \in DOMAIN more : more[i] = e \/ \E j \in DOMAIN events : events[j] = more[i]
  BY <1>2, <1>4
<1>6. ASSUME NEW b, Authorized(more, b)  PROVE  Authorized(events, b)
  <2>1. Authorized(some, b)
    BY <1>1, <1>2, <1>6, AuthorizedAppend
  <2>. QED  BY <1>2, <2>1, AuthorizedWithin
<1>7. ASSUME NEW b \in BaseStates  PROVE  Alike(From(b, more), From(b, events))
  <2>1. b.memory \in Memories /\ b.at \in Nat
    BY DEF BaseStates
  <2>2. Replay(b.memory, b.at, more) = Replay(b.memory, b.at, some)
    BY <1>1, <1>2, <2>1, ReplayAppend
  <2>3. Alike(Replay(b.memory, b.at, some), Replay(b.memory, b.at, events))
    BY <2>1, ReplayRetained DEF some
  <2>. QED  BY <2>2, <2>3 DEF From
<1>. HIDE DEF more
<1>. QED  BY <1>4, <1>5, <1>6, <1>7 DEF e, some, more

(* Compaction.                                                                *)
LEMMA CompactStep ==
  ASSUME IInv, CompactStorage
  PROVE  IInv'
<1>. USE InvFacts, NothingToDo
<1>. DEFINE e == Stamped(Event("compacted", None, 0), nextId)
            more == Append(Retained(log), e)
            unapplied == {i \in DOMAIN log : log[i].id > noted.at}
<1>1. /\ up /\ call = NoCall /\ nextId <= MaxEvents /\ log # <<>>
      /\ log' = more /\ nextId' = nextId + 1 /\ noted' = NotedFrom(noted, more)
      /\ index' = Indexed(memory, files) /\ clean' = TRUE
      /\ faults' = faults \cup IF unapplied # {} THEN {"noted"} ELSE {}
  BY DEF CompactStorage, Free
<1>2. /\ memory' = memory /\ files' = files /\ call' = call /\ due' = due /\ up' = up
      /\ scope' = scope
  BY DEF CompactStorage
<1>3. MaxEvents' = MaxEvents
  BY <1>2 DEF MaxEvents
<1>4. call.todo = <<>>
  BY <1>1
<1>5. /\ log \in Seq(LogEvents) /\ memory \in Memories /\ noted \in NotedStates
      /\ NonDecreasing(log) /\ noted.at < nextId /\ noted.at <= LastId(log)
  BY <1>1 DEF IInv, Typing, Ids
<1>6. /\ more \in Seq(LogEvents) /\ NonDecreasing(more) /\ LastId(more) = nextId
      /\ \A i \in DOMAIN more : more[i] = e \/ \E j \in DOMAIN log : log[j] = more[i]
      /\ \A b \in BaseStates : Alike(From(b, more), From(b, log))
      /\ \A b : Authorized(more, b) => Authorized(log, b)
  BY <1>5, CompactedLog
<1>7. e \in LogEvents /\ e.id = nextId /\ e.kind = "compacted"
  BY CompactedIs
<1>8. /\ NotedFrom(noted, more) \in NotedStates /\ NotedFrom(noted, more).at <= nextId
      /\ (\A i \in DOMAIN log : log[i].id <= noted.at) =>
           NotedFrom(noted, more) = Noting(noted, nextId)
  <2>1. /\ Retained(log) \in Seq(LogEvents)
        /\ \A i \in DOMAIN Retained(log) : \E j \in DOMAIN log : log[j] = Retained(log)[i]
    BY <1>5, RetainedIs
  <2>. DEFINE some == Retained(log)
  <2>. HIDE DEF e, some
  <2>2. \A i \in DOMAIN some : some[i].id <= e.id
    BY <1>7, <2>1 DEF some
  <2>3. noted.at < e.id /\ some \in Seq(LogEvents)
    BY <1>5, <1>7, <2>1 DEF some
  <2>4. /\ NotedFrom(noted, Append(some, e)) \in NotedStates
        /\ NotedFrom(noted, Append(some, e)).at <= e.id
        /\ (\A i \in DOMAIN some : some[i].id <= noted.at) =>
             NotedFrom(noted, Append(some, e)) = Noting(noted, e.id)
    BY <1>5, <1>7, <2>2, <2>3, NotedFromIs
  <2>5. (\A i \in DOMAIN log : log[i].id <= noted.at) => \A i \in DOMAIN some : some[i].id <= noted.at
    BY <2>1 DEF some
  <2>. QED  BY <1>7, <2>4, <2>5 DEF some
<1>. HIDE DEF more
<1>9. Typing'
  <2>1. log' \in Seq(LogEvents) /\ nextId' \in Nat \ {0} /\ noted' \in NotedStates
    BY <1>1, <1>6, <1>8
  <2>2. faults' \in SUBSET {"append", "sync", "noted"}
    BY <1>1 DEF IInv, Typing
  <2>3. clean' \in BOOLEAN
    BY <1>1
  <2>. QED  BY <1>2, <2>1, <2>2, <2>3 DEF IInv, Typing
<1>10. Ids'
  <2>1. Ids
    BY DEF IInv
  <2>2. (\A i \in DOMAIN log : log[i].id <= MaxEvents /\ log[i].id <= nextId)'
    <3>1. \A i \in DOMAIN more : more[i].id \in Nat /\ more[i].id <= nextId
      BY <1>6, <1>7
    <3>2. \A i \in DOMAIN more : more[i].id <= MaxEvents /\ more[i].id <= nextId + 1
      BY <1>1, <3>1
    <3>. QED  BY <1>1, <1>3, <3>2
  <2>3. (noted.at <= LastId(log) /\ (up => noted.at < nextId))'
    <3>1. noted'.at \in Nat /\ noted'.at <= nextId
      BY <1>1, <1>8 DEF NotedStates
    <3>. QED  BY <1>1, <1>6, <3>1
  <2>4. (\A s \in files : s.at <= LastId(log) /\ s.at < nextId)'
    <3>1. \A s \in files : s.at \in Nat /\ s.at < nextId
      BY <2>1 DEF Ids, IInv, Typing, SnapshotFiles
    <3>2. \A s \in files : s.at <= nextId /\ s.at < nextId + 1
      BY <3>1
    <3>. QED  BY <1>1, <1>2, <1>6, <3>2
  <2>5. (\E B \in Nat : Named(files, log, B))'
    <3>1. PICK B \in Nat : Named(files, log, B)
      BY <2>1 DEF Ids
    <3>2. Named(files, more, B)
      BY <1>6, <1>7, <3>1 DEF Named
    <3>. QED  BY <1>1, <1>2, <3>2
  <2>6. (nextId <= MaxEvents + 1)' /\ (nextId = LastId(log) + 1)'
    BY <1>1, <1>3, <1>6
  <2>7. (call = NoCall /\ ~Starts(call.todo, "parsed") /\ NonDecreasing(log))'
    BY <1>1, <1>2, <1>4, <1>6
  <2>. QED  BY <2>2, <2>3, <2>4, <2>5, <2>6, <2>7, Zenon DEF Ids
<1>11. Sources' \in SUBSET Sources
  <2>1. \A b : Authorized(more, b) \/ Claims(<<>>, b) => Authorized(log, b) \/ Claims(<<>>, b)
    BY <1>6
  <2>2. Vouched(more, files, <<>>) \subseteq Vouched(log, files, <<>>)
    BY <2>1, VouchedLess
  <2>. QED  BY <1>1, <1>2, <1>4, <2>2 DEF Sources
<1>12. \A b \in Sources : Alike(From(b, more), From(b, log))
  BY <1>6
<1>13. Keeps'
  <2>1. Sourced(Sources, log) /\ Shown(Sources, log, memory, <<>>)
    BY <1>1, <1>4 DEF IInv, Keeps
  <2>2. Sourced(Sources, more) /\ Shown(Sources, more, memory, <<>>)
    BY <1>5, <1>6, <1>12, <2>1, SourcedAlike
  <2>3. Sourced(Sources', more) /\ Shown(Sources', more, memory, <<>>)
    BY <1>11, <2>2, FewerBases
  <2>. QED  BY <1>1, <1>2, <1>4, <2>3 DEF Keeps
<1>14. Settles'
  <2>. SUFFICES ASSUME Safe(faults')
                PROVE  Settled(Sources', more) /\ Agrees(more, memory, <<>>, noted', faults')
    BY <1>1, <1>2, <1>4 DEF Settles
  <2>1. Safe(faults) /\ unapplied = {} /\ (faults' = {} => faults = {})
    BY <1>1 DEF Safe
  <2>2. Settled(Sources, log) /\ Agrees(log, memory, <<>>, noted, faults)
    BY <1>1, <1>4, <2>1 DEF IInv, Settles
  <2>3. Settled(Sources', more)
    <3>1. Settled(Sources, more)
      BY <1>12, <2>2, SettledAlike
    <3>. QED  BY <1>11, <3>1 DEF Settled
  <2>4. \A i \in DOMAIN log : log[i].id <= noted.at
    <3>1. \A i \in DOMAIN log : log[i].id \in Nat /\ ~(log[i].id > noted.at)
      BY <2>1
    <3>. QED  BY <1>5, <3>1 DEF NotedStates
  <2>5. noted' = Noting(noted, nextId)
    BY <1>1, <1>8, <2>4
  <2>6. noted.at = LastId(log)
    <3>1. \E i \in DOMAIN log : log[i].id = LastId(log)
      BY <1>1, <1>5, LastIdIs
    <3>2. LastId(log) <= noted.at
      BY <2>4, <3>1
    <3>. QED  BY <1>5, <3>2 DEF NotedStates
  <2>7. /\ noted'.whole = (noted.whole /\ nextId = noted.at + 1)
        /\ noted'.at = IF noted.whole /\ nextId = noted.at + 1 THEN nextId ELSE noted.at
    BY <1>5, <2>5, NotingIs
  <2>8. InStep(noted', <<>>, nextId) => noted.whole
    BY <2>7 DEF InStep
  <2>9. noted.whole => InStep(noted, <<>>, LastId(log))
    BY <2>6 DEF InStep
  <2>10. noted.whole /\ nextId = noted.at + 1 => InStep(noted', <<>>, nextId)
    <3>1. \A k \in Nat : k + 0 = k
      OBVIOUS
    <3>. QED  BY <2>7, <3>1 DEF InStep
  <2>11. faults = {} => nextId = noted.at + 1 /\ noted.whole
    <3>1. faults = {} => nextId = LastId(log) + 1
      BY <1>1 DEF IInv, Ids
    <3>2. faults = {} => InStep(noted, <<>>, LastId(log))
      BY <2>2 DEF Agrees
    <3>. QED  BY <2>6, <3>1, <3>2 DEF InStep
  <2>. DEFINE x == From(Nothing, log)
              y == From(Nothing, more)
  <2>12. Alike(y, x)
    BY <1>12
  <2>13. /\ SameRest(x, memory) /\ Leads(x, memory, <<>>)
         /\ InStep(noted, <<>>, LastId(log)) => Abreast(x, memory, <<>>)
         /\ faults = {} => LeadsByCall(x, memory, <<>>)
    BY <2>2 DEF Agrees
  <2>. HIDE DEF x, y
  <2>14. /\ Abreast(x, memory, <<>>) <=> SameGames(x, memory)
         /\ Abreast(y, memory, <<>>) <=> SameGames(y, memory)
    BY AbreastIs
  <2>15. /\ SameRest(y, memory) /\ Leads(y, memory, <<>>)
         /\ InStep(noted', <<>>, nextId) => Abreast(y, memory, <<>>)
         /\ faults' = {} => InStep(noted', <<>>, nextId) /\ LeadsByCall(y, memory, <<>>)
    BY <2>1, <2>8, <2>9, <2>10, <2>11, <2>12, <2>13, <2>14, AlikeHolds
  <2>. QED  BY <1>6, <2>3, <2>15 DEF Agrees, y
<1>15. Indexing'
  BY <1>1, <1>2, <1>4 DEF Indexing
<1>. QED  BY <1>9, <1>10, <1>13, <1>14, <1>15 DEF IInv

(* The next event of a call, in the log.                                      *)
LEMMA AppendedLog ==
  ASSUME IInv, up, call # NoCall
  PROVE  LET todo == call.todo
             e == Stamped(Head(todo), nextId)
             more == Append(log, e)
         IN /\ todo \in Seq(PlainEvents) /\ todo # <<>> /\ Planned(memory, todo)
            /\ Head(todo) = todo[1] /\ e \in LogEvents /\ e.id = nextId /\ e.kind = todo[1].kind
            /\ nextId <= MaxEvents /\ nextId + Len(todo) <= MaxEvents + 1
            /\ more \in Seq(LogEvents) /\ NonDecreasing(more) /\ LastId(more) = nextId
            /\ \A i \in DOMAIN more : more[i].id <= nextId
            /\ \E B \in Nat : Named(files, more, B)
            /\ \A rest : \A gs \in SUBSET files : ~Starts(rest, "snapshot") =>
                 /\ Vouched(more, gs, rest) \subseteq Sources
                 /\ Vouched(log, gs, rest) \subseteq Sources
<1>. USE InvFacts
<1>. DEFINE todo == call.todo
            e == Stamped(Head(todo), nextId)
            more == Append(log, e)
<1>1. /\ todo \in Seq(PlainEvents) /\ todo # <<>> /\ log \in Seq(LogEvents)
      /\ files \in SUBSET SnapshotFiles
  BY DEF IInv, Typing
<1>2. /\ NonDecreasing(log) /\ nextId + Len(todo) <= MaxEvents + 1
      /\ \E B \in Nat : Named(files, log, B)
  BY DEF IInv, Ids
<1>3. Planned(memory, todo)
  BY DEF IInv, Keeps
<1>4. Head(todo) = todo[1] /\ todo[1] \in PlainEvents /\ Len(todo) \in Nat \ {0}
  <2>. HIDE DEF todo
  <2>. QED  BY <1>1, TodoSplits
<1>5. e \in LogEvents /\ e.id = nextId /\ e.kind = todo[1].kind /\ e.of = todo[1].of
      /\ e.val = todo[1].val
  BY <1>4, StampedTypes
<1>6. nextId <= MaxEvents
  BY <1>2, <1>4
<1>. HIDE DEF e
<1>7. /\ more \in Seq(LogEvents) /\ NonDecreasing(more) /\ LastId(more) = nextId
      /\ \A i \in DOMAIN more : (i \in DOMAIN log /\ more[i] = log[i]) \/ more[i] = e
  BY <1>1, <1>2, <1>5, LogAppend
<1>8. \A i \in DOMAIN more : more[i].id <= nextId
  BY <1>5, <1>7
<1>9. \E B \in Nat : Named(files, more, B)
  <2>1. PICK B \in Nat : Named(files, log, B)
    BY <1>2
  <2>2. CASE e.kind # "snapshot"
    BY <1>7, <2>1, <2>2 DEF Named
  <2>3. CASE e.kind = "snapshot"
    <3>1. e.of \in Nat
      BY <1>5, <2>3 DEF LogEvents, Typed
    <3>2. PICK K \in Nat : K = B + e.of
      BY <3>1
    <3>3. \A s \in files : s.name \in Nat /\ s.name <= B
      BY <1>1, <2>1 DEF SnapshotFiles, Named
    <3>4. \A i \in DOMAIN log : log[i].kind = "snapshot" => log[i].of \in Nat /\ log[i].of <= B
      BY <1>1, <2>1 DEF LogEvents, Typed, Named
    <3>5. \A s \in files : s.name <= K
      BY <3>1, <3>2, <3>3
    <3>6. \A i \in DOMAIN log : log[i].kind = "snapshot" => log[i].of <= K
      BY <3>1, <3>2, <3>4
    <3>7. e.of <= K
      BY <3>1, <3>2
    <3>. QED  BY <1>7, <3>5, <3>6, <3>7 DEF Named
  <2>. QED  BY <2>2, <2>3
<1>10. ASSUME NEW rest, NEW gs \in SUBSET files, ~Starts(rest, "snapshot")
       PROVE  /\ Vouched(more, gs, rest) \subseteq Sources
              /\ Vouched(log, gs, rest) \subseteq Sources
  <2>1. \A b : ~Claims(rest, b)
    BY <1>10 DEF Claims
  <2>2. ASSUME NEW b, Authorized(more, b)  PROVE  Authorized(log, b) \/ Claims(todo, b)
    <3>1. Authorized(log, b) \/ (e.kind = "snapshot" /\ e.of = b.name /\ e.val = b.at)
      BY <1>1, <1>5, <2>2, AuthorizedAppend
    <3>. QED  BY <1>1, <1>5, <3>1 DEF Claims, Starts
  <2>3. \A b : Authorized(more, b) \/ Claims(rest, b) => Authorized(log, b) \/ Claims(todo, b)
    BY <2>1, <2>2
  <2>4. \A b : Authorized(log, b) \/ Claims(rest, b) => Authorized(log, b) \/ Claims(todo, b)
    BY <2>1
  <2>. HIDE DEF more, todo
  <2>5. Vouched(more, gs, rest) \subseteq Vouched(log, files, todo)
    BY <2>3, VouchedLess
  <2>6. Vouched(log, gs, rest) \subseteq Vouched(log, files, todo)
    BY <2>4, VouchedLess
  <2>. QED  BY <2>5, <2>6 DEF Sources, todo
<1>. HIDE DEF more
<1>. QED  BY <1>1, <1>2, <1>3, <1>4, <1>5, <1>6, <1>7, <1>8, <1>9, <1>10 DEF e, more

(* What the bases make of it.                                                 *)
LEMMA AppendedBases ==
  ASSUME IInv, up, call # NoCall
  PROVE  LET todo == call.todo
             e == Stamped(Head(todo), nextId)
             more == Append(log, e)
         IN /\ Sourced(Sources, more)
            /\ Shown(Sources, more, Applied(memory, e), Tail(todo))
            /\ \A rest : ~Starts(rest, "parsed") => Shown(Sources, more, memory, rest)
            /\ Safe(faults) =>
                 /\ Settled(Sources, more)
                 /\ Agrees(more, Applied(memory, e), Tail(todo), Noted(noted, e), faults)
<1>. USE InvFacts
<1>. DEFINE todo == call.todo
            e == Stamped(Head(todo), nextId)
            more == Append(log, e)
<1>1. /\ todo \in Seq(PlainEvents) /\ todo # <<>> /\ Planned(memory, todo)
      /\ Head(todo) = todo[1] /\ e \in LogEvents /\ e.id = nextId /\ LastId(more) = nextId
      /\ more \in Seq(LogEvents)
  BY AppendedLog
<1>2. e = Stamped(todo[1], nextId)
  BY <1>1
<1>3. /\ log \in Seq(LogEvents) /\ memory \in Memories /\ noted \in NotedStates
      /\ noted.at < nextId
  BY DEF IInv, Typing, Ids
<1>4. Sourced(Sources, log) /\ Shown(Sources, log, memory, todo)
  BY DEF IInv, Keeps
<1>. HIDE DEF todo
<1>5. Sourced(Sources, more)
  BY <1>1, <1>2, <1>3, <1>4, SourcedAppend
<1>6. Shown(Sources, more, Applied(memory, e), Tail(todo))
  BY <1>1, <1>2, <1>3, <1>4, ShownApplied
<1>7. \A rest : ~Starts(rest, "parsed") => Shown(Sources, more, memory, rest)
  BY <1>1, <1>2, <1>3, <1>4, ShownUnapplied
<1>8. ASSUME Safe(faults)
      PROVE  /\ Settled(Sources, more)
             /\ Agrees(more, Applied(memory, e), Tail(todo), Noted(noted, e), faults)
  <2>. DEFINE x == From(Nothing, log)
              y == From(Nothing, more)
  <2>1. Settled(Sources, log) /\ Agrees(log, memory, todo, noted, faults)
    BY <1>8 DEF IInv, Settles, todo
  <2>2. /\ SameRest(x, memory) /\ Leads(x, memory, todo)
        /\ InStep(noted, todo, LastId(log)) => Abreast(x, memory, todo)
        /\ faults = {} => InStep(noted, todo, LastId(log)) /\ LeadsByCall(x, memory, todo)
    BY <2>1 DEF Agrees
  <2>3. x \in Memories
    BY <1>3, FromTypes
  <2>4. y = Replayed(x, e)
    BY <1>1, <1>3, FromAppend
  <2>. HIDE DEF x, y
  <2>5. /\ Leads(Replayed(x, e), Applied(memory, e), Tail(todo))
        /\ LeadsByCall(x, memory, todo) => LeadsByCall(Replayed(x, e), Applied(memory, e), Tail(todo))
        /\ e.kind = "attempt" => x.drills[e.of].made /\ x.next.attempt <= e.val.id
        /\ e.kind = "drill" => x.drills[e.of] = NoDrill
    BY <1>1, <1>2, <1>3, <2>2, <2>3, LeadsAfter
  <2>6. Settled(Sources, more)
    <3>1. \A b \in Sources : b.at < e.id
      BY <1>1
    <3>2. /\ e.kind = "drill" => From(Nothing, log).drills[e.of] = NoDrill
          /\ e.kind = "attempt" => /\ From(Nothing, log).drills[e.of].made
                                   /\ From(Nothing, log).next.attempt <= e.val.id
      BY <2>5 DEF x
    <3>. HIDE DEF e
    <3>. QED  BY <1>1, <1>3, <2>1, <3>1, <3>2, SettledAppend
  <2>7. SameRest(y, Applied(memory, e))
    BY <1>1, <1>3, <2>2, <2>3, <2>4, HeldAfter
  <2>8. Abreast(x, memory, todo) => Abreast(y, Applied(memory, e), Tail(todo))
    BY <1>1, <1>2, <1>3, <2>3, <2>4, AbreastAfter
  <2>9. nextId - 1 = LastId(log)
    <3>1. nextId = LastId(log) + 1
      BY <1>8 DEF IInv, Ids, Safe
    <3>. QED  BY <3>1
  <2>10. InStep(Noted(noted, e), Tail(todo), nextId) <=> InStep(noted, todo, LastId(log))
    BY <1>1, <1>2, <1>3, <2>9, NotedAfter
  <2>. HIDE DEF e, more
  <2>11. Agrees(more, Applied(memory, e), Tail(todo), Noted(noted, e), faults)
    BY <1>1, <2>2, <2>4, <2>5, <2>7, <2>8, <2>10 DEF Agrees, y
  <2>. QED  BY <2>6, <2>11
<1>. HIDE DEF e, more
<1>. QED  BY <1>5, <1>6, <1>7, <1>8 DEF todo, e, more

(* What is left of a call.                                                    *)
LEMMA RestOfCall ==
  ASSUME IInv, call # NoCall
  PROVE  /\ call.todo \in Seq(PlainEvents) /\ call.todo # <<>> /\ call.op \in Operations
         /\ call.added \in BOOLEAN
         /\ Len(call.todo) \in Nat \ {0} /\ Head(call.todo) = call.todo[1]
         /\ call.todo[1] \in PlainEvents /\ 1 \in DOMAIN call.todo
         /\ Tail(call.todo) \in Seq(PlainEvents) /\ Len(Tail(call.todo)) = Len(call.todo) - 1
         /\ \A i \in DOMAIN Tail(call.todo) :
              i + 1 \in DOMAIN call.todo /\ Tail(call.todo)[i] = call.todo[i + 1]
         /\ Len(call.todo) = 1 => Tail(call.todo) = <<>>
         /\ Len(call.todo) # 1 => Tail(call.todo) # <<>>
         /\ \A b \in BOOLEAN :
              LET c == [call EXCEPT !.todo = Tail(call.todo), !.added = b]
              IN /\ c \in [op : Operations \cup {None}, todo : Seq(PlainEvents), added : BOOLEAN]
                 /\ c.op = call.op /\ c.todo = Tail(call.todo) /\ c.op # None
         /\ call = [op |-> call.op, todo |-> call.todo, added |-> call.added]
<1>1. /\ call \in [op : Operations \cup {None}, todo : Seq(PlainEvents), added : BOOLEAN]
      /\ call.todo # <<>> /\ call.op # None
  BY DEF IInv, Typing
<1>. DEFINE todo == call.todo
<1>2. todo \in Seq(PlainEvents) /\ todo # <<>>
  BY <1>1
<1>. HIDE DEF todo
<1>3. /\ Len(todo) \in Nat \ {0} /\ 1 \in DOMAIN todo /\ todo[1] \in PlainEvents
      /\ Head(todo) = todo[1]
      /\ Tail(todo) \in Seq(PlainEvents) /\ Len(Tail(todo)) = Len(todo) - 1
      /\ \A i \in DOMAIN Tail(todo) : i + 1 \in DOMAIN todo /\ Tail(todo)[i] = todo[i + 1]
      /\ Len(todo) = 1 => Tail(todo) = <<>>
      /\ Len(todo) # 1 => Tail(todo) # <<>>
  BY <1>2, TodoSplits
<1>4. \A t \in Seq(PlainEvents), b \in BOOLEAN :
        LET c == [call EXCEPT !.todo = t, !.added = b]
        IN /\ c \in [op : Operations \cup {None}, todo : Seq(PlainEvents), added : BOOLEAN]
           /\ c.op = call.op /\ c.todo = t /\ c.op # None
  BY <1>1
<1>5. call.op \in Operations /\ call.added \in BOOLEAN
      /\ call = [op |-> call.op, todo |-> call.todo, added |-> call.added]
  BY <1>1
<1>. QED  BY <1>1, <1>2, <1>3, <1>4, <1>5 DEF todo

(* Events that rebuild no index change nothing the indexes show.              *)
LEMMA IndexedAfter ==
  ASSUME NEW m \in Memories, NEW e \in LogEvents, e.kind \in Unindexed, NEW fs
  PROVE  Indexed(Applied(m, e), fs) = Indexed(m, fs)
<1>. DEFINE r == Applied(m, e)
<1>1. AppliesTo(r, m, e)
  BY AppliedFields
<1>2. Typed(e)
  BY DEF LogEvents
<1>. HIDE DEF r
<1>3. \A x \in Memories :
        Snapshotted(x).games = [g \in Games |-> IF "deep" \in x.games[g] THEN {"game", "deep"}
                                                ELSE x.games[g]]
  BY DEF Snapshotted, Memories
<1>4. r \in Memories /\ r.games = m.games
  BY <1>1 DEF AppliesTo, GamesApplied, GamesAfter, Unindexed
<1>5. Snapshotted(r).games = Snapshotted(m).games
  BY <1>3, <1>4
<1>6. /\ r.completed = m.completed /\ r.recommended = m.recommended /\ r.archive = m.archive
      /\ r.profile = m.profile /\ r.months = m.months /\ r.sync = m.sync
  BY <1>1 DEF AppliesTo, SetsTo, ValuesTo, Unindexed
<1>7. ASSUME NEW d \in Drills
      PROVE  r.drills[d].made = m.drills[d].made /\ r.drills[d].attempts = m.drills[d].attempts
  <2>1. r.drills = DrillsAfter(m.drills, e) /\ m.drills \in [Drills -> DrillStates]
    BY <1>1 DEF AppliesTo, Memories
  <2>2. r.drills[d] = m.drills[d] \/ (e.kind = "session" /\ r.drills[d] = DrillAfter(m.drills[d], e))
    BY <2>1 DEF DrillsAfter, Unindexed
  <2>3. m.drills[d] \in [made : BOOLEAN, attempts : Seq(Attempts), hint : 0..3, started : Nat]
    BY <2>1 DEF DrillStates
  <2>. DEFINE drill == m.drills[d]
  <2>. HIDE DEF drill
  <2>4. \A y \in [made : BOOLEAN, attempts : Seq(Attempts), hint : 0..3, started : Nat] :
          e.kind = "session" =>
            DrillAfter(y, e).made = y.made /\ DrillAfter(y, e).attempts = y.attempts
    BY DEF DrillAfter
  <2>. QED  BY <2>2, <2>3, <2>4
<1>. QED  BY <1>5, <1>6, <1>7 DEF Indexed, r

(* An event of the call is appended and applied.                              *)
LEMMA AppendStep ==
  ASSUME IInv, AppendNext
  PROVE  IInv'
<1>. USE InvFacts, NothingToDo
<1>. DEFINE todo == call.todo
            e == Stamped(Head(todo), nextId)
            more == Append(log, e)
            last == Len(todo) = 1
<1>1. /\ up /\ call # NoCall /\ log' = more /\ nextId' = nextId + 1
      /\ memory' = Applied(memory, e) /\ noted' = Noted(noted, e)
      /\ call' = IF last THEN NoCall
                 ELSE [call EXCEPT !.todo = Tail(todo), !.added = call.added \/ e.kind = "parsed"]
      /\ IF last /\ Rebuilds(call.op)
         THEN index' = Indexed(memory', files) /\ clean' = TRUE
         ELSE UNCHANGED <<index, clean>>
      /\ due' = (due \/ (last /\ call.op = "analysis" /\ SnapshotIsDue(memory')))
  BY DEF AppendNext
<1>2. /\ files' = files /\ up' = up /\ scope' = scope /\ faults' = faults
  BY DEF AppendNext
<1>3. MaxEvents' = MaxEvents
  BY <1>2 DEF MaxEvents
<1>4. /\ todo \in Seq(PlainEvents) /\ todo # <<>> /\ Planned(memory, todo)
      /\ Head(todo) = todo[1] /\ e \in LogEvents /\ e.id = nextId /\ e.kind = todo[1].kind
      /\ nextId <= MaxEvents /\ nextId + Len(todo) <= MaxEvents + 1
      /\ more \in Seq(LogEvents) /\ NonDecreasing(more) /\ LastId(more) = nextId
      /\ \A i \in DOMAIN more : more[i].id <= nextId
      /\ \E B \in Nat : Named(files, more, B)
      /\ \A rest : \A gs \in SUBSET files : ~Starts(rest, "snapshot") =>
           Vouched(more, gs, rest) \subseteq Sources
  BY <1>1, AppendedLog
<1>5. /\ memory \in Memories /\ IdsBelow(memory) /\ noted \in NotedStates /\ noted.at < nextId
  BY <1>1 DEF IInv, Typing, Ids
<1>6. e = Stamped(todo[1], nextId)
  BY <1>4
<1>7. /\ Len(todo) \in Nat \ {0} /\ Len(Tail(todo)) = Len(todo) - 1
      /\ last => Tail(todo) = <<>>
      /\ ~last => Tail(todo) # <<>>
      /\ \A i \in DOMAIN Tail(todo) : i + 1 \in DOMAIN todo /\ Tail(todo)[i] = todo[i + 1]
  BY <1>1, RestOfCall
<1>8. /\ call' \in [op : Operations \cup {None}, todo : Seq(PlainEvents), added : BOOLEAN]
      /\ call'.todo = Tail(todo)
      /\ last => call' = NoCall
      /\ ~last => call'.op = call.op /\ call'.op # None
  <2>1. CASE last
    <3>1. NoCall \in [op : Operations \cup {None}, todo : Seq(PlainEvents), added : BOOLEAN]
      BY DEF NoCall
    <3>. QED  BY <1>1, <1>7, <2>1, <3>1
  <2>2. CASE ~last
    <3>. DEFINE b == (call.added \/ e.kind = "parsed")
    <3>1. b \in BOOLEAN
      OBVIOUS
    <3>2. call' = [call EXCEPT !.todo = Tail(todo), !.added = b]
      BY <1>1, <2>2
    <3>. HIDE DEF b
    <3>3. LET c == [call EXCEPT !.todo = Tail(todo), !.added = b]
          IN /\ c \in [op : Operations \cup {None}, todo : Seq(PlainEvents), added : BOOLEAN]
             /\ c.op = call.op /\ c.todo = Tail(todo) /\ c.op # None
      BY <1>1, <3>1, RestOfCall
    <3>. QED  BY <2>2, <3>2, <3>3
  <2>. QED  BY <2>1, <2>2
<1>. HIDE DEF e, more, last, todo
<1>9. /\ memory' \in Memories /\ IdsBelow(memory')
  BY <1>1, <1>4, <1>5, IdsBelowAfter, AppliedFields DEF AppliesTo
<1>10. /\ noted' \in NotedStates /\ noted'.at <= nextId
       /\ Starts(Tail(todo), "parsed") => noted'.at < nextId
  BY <1>1, <1>4, <1>5, <1>6, NotedAfter
<1>11. Typing'
  <2>1. log' \in Seq(LogEvents) /\ nextId' \in Nat \ {0}
    BY <1>1, <1>4
  <2>2. due' \in BOOLEAN
    BY <1>1
  <2>3. clean' \in BOOLEAN
    BY <1>1 DEF IInv, Typing
  <2>4. /\ (call.op = None => call = NoCall)' /\ (call # NoCall => call.todo # <<>>)'
        /\ up'
    BY <1>1, <1>2, <1>7, <1>8
  <2>. QED  BY <1>2, <1>8, <1>9, <1>10, <2>1, <2>2, <2>3, <2>4 DEF IInv, Typing
<1>12. Ids'
  <2>1. Ids
    BY DEF IInv
  <2>2. (\A i \in DOMAIN log : log[i].id <= MaxEvents /\ log[i].id <= nextId)'
    <3>1. \A i \in DOMAIN more : more[i].id \in Nat /\ more[i].id <= nextId
      BY <1>4 DEF LogEvents
    <3>2. \A i \in DOMAIN more : more[i].id <= MaxEvents /\ more[i].id <= nextId + 1
      BY <1>4, <3>1
    <3>. QED  BY <1>1, <1>3, <3>2
  <2>3. (noted.at <= LastId(log) /\ (up => noted.at < nextId))'
    <3>1. noted'.at \in Nat
      BY <1>10 DEF NotedStates
    <3>. QED  BY <1>1, <1>4, <1>10, <3>1
  <2>4. (\A s \in files : s.at <= LastId(log) /\ s.at < nextId)'
    <3>1. \A s \in files : s.at \in Nat /\ s.at < nextId
      BY <2>1 DEF Ids, IInv, Typing, SnapshotFiles
    <3>2. \A s \in files : s.at <= nextId /\ s.at < nextId + 1
      BY <3>1
    <3>. QED  BY <1>1, <1>2, <1>4, <3>2
  <2>5. (\E B \in Nat : Named(files, log, B))' /\ NonDecreasing(log)'
    BY <1>1, <1>2, <1>4
  <2>6. (nextId <= MaxEvents + 1)' /\ (nextId = LastId(log) + 1)'
    BY <1>1, <1>3, <1>4
  <2>7. (call # NoCall => nextId + Len(call.todo) <= MaxEvents + 1)'
    <3>1. \A k \in Nat : nextId + k <= MaxEvents + 1 => (nextId + 1) + (k - 1) <= MaxEvents + 1
      OBVIOUS
    <3>2. (nextId + 1) + (Len(todo) - 1) <= MaxEvents + 1
      BY <1>4, <1>7, <3>1
    <3>. QED  BY <1>1, <1>3, <1>7, <1>8, <3>2
  <2>8. (Starts(call.todo, "parsed") => noted.at < LastId(log))'
    BY <1>1, <1>4, <1>8, <1>10
  <2>. QED  BY <2>2, <2>3, <2>4, <2>5, <2>6, <2>7, <2>8, Zenon DEF Ids
<1>13. ~Starts(Tail(todo), "snapshot")
  BY <1>4, <1>5, RestTakesNone
<1>14. Sources' \in SUBSET Sources
  <2>0. files \in SUBSET files
    OBVIOUS
  <2>1. Vouched(more, files, Tail(todo)) \subseteq Sources
    BY <1>4, <1>13, <2>0, Zenon
  <2>. QED  BY <1>1, <1>2, <1>8, <2>1 DEF Sources
<1>15. /\ Sourced(Sources, more) /\ Shown(Sources, more, memory', Tail(todo))
       /\ Safe(faults) => /\ Settled(Sources, more)
                          /\ Agrees(more, memory', Tail(todo), noted', faults)
  BY <1>1, AppendedBases DEF e, more, todo
<1>16. Keeps'
  <2>1. Sourced(Sources', more) /\ Shown(Sources', more, memory', Tail(todo))
    BY <1>14, <1>15, FewerBases
  <2>2. Planned(memory', Tail(todo))
    BY <1>1, <1>4, <1>5, <1>6, PlannedAfter
  <2>. QED  BY <1>1, <1>2, <1>8, <2>1, <2>2 DEF Keeps
<1>17. Settles'
  <2>1. Settled(Sources, more) => Settled(Sources', more)
    BY <1>14 DEF Settled
  <2>. QED  BY <1>1, <1>2, <1>8, <1>15, <2>1 DEF Settles
<1>18. Indexing'
  <2>1. /\ clean /\ ~Rebuilds(call.op) => index = Indexed(memory, files)
        /\ ~Rebuilds(call.op) => \A i \in DOMAIN todo : todo[i].kind \in Unindexed
    BY <1>1 DEF IInv, Indexing, todo
  <2>2. Rebuilds(None)
    BY DEF Rebuilds, None
  <2>3. ~Rebuilds(call'.op) => \A i \in DOMAIN Tail(todo) : Tail(todo)[i].kind \in Unindexed
    BY <1>7, <1>8, <2>1, <2>2
  <2>4. ~Rebuilds(call.op) => Indexed(memory', files) = Indexed(memory, files)
    <3>1. 1 \in DOMAIN todo
      BY <1>4, TodoSplits
    <3>. QED  BY <1>1, <1>4, <1>5, <2>1, <3>1, IndexedAfter
  <2>5. clean' /\ (last \/ ~Rebuilds(call.op)) => index' = Indexed(memory', files)
    <3>1. CASE last /\ Rebuilds(call.op)
      BY <1>1, <3>1
    <3>2. CASE ~Rebuilds(call.op)
      <4>1. index' = index /\ clean' = clean
        BY <1>1, <3>2
      <4>. QED  BY <2>1, <2>4, <3>2, <4>1
    <3>. QED  BY <3>1, <3>2
  <2>6. call' = NoCall \/ ~Rebuilds(call'.op) => last \/ ~Rebuilds(call.op)
    BY <1>8, <2>2
  <2>. QED  BY <1>2, <1>8, <2>3, <2>5, <2>6 DEF Indexing
<1>. QED  BY <1>11, <1>12, <1>16, <1>17, <1>18 DEF IInv

(* An append throws.                                                          *)
LEMMA AppendFailsStep ==
  ASSUME IInv, NEW how \in Failures, AppendFails(how)
  PROVE  IInv'
<1>. USE InvFacts, NothingToDo
<1>. DEFINE todo == call.todo
            e == Stamped(Head(todo), nextId)
            more == Append(log, e)
            last == Len(todo) = 1
            swallowed == e.kind = "rating"
            rest == call'.todo
<1>1. /\ up /\ call # NoCall /\ log' = (IF how = "sync" THEN more ELSE log)
      /\ call' = IF swallowed /\ ~last THEN [call EXCEPT !.todo = Tail(todo)] ELSE NoCall
      /\ IF call.added \/ (swallowed /\ last)
         THEN /\ index' = IF call' = NoCall THEN Indexed(memory, files) ELSE index
              /\ clean' = (clean \/ call' = NoCall)
         ELSE /\ clean' = (clean /\ swallowed)
              /\ index' = index
      /\ faults' = faults \cup {"append"} \cup ({how} \cap {"sync"})
  BY DEF AppendFails
<1>2. /\ nextId' = nextId /\ memory' = memory /\ noted' = noted /\ files' = files
      /\ due' = due /\ up' = up /\ scope' = scope
  BY DEF AppendFails
<1>3. MaxEvents' = MaxEvents
  BY <1>2 DEF MaxEvents
<1>4. /\ todo \in Seq(PlainEvents) /\ todo # <<>> /\ Planned(memory, todo)
      /\ Head(todo) = todo[1] /\ e \in LogEvents /\ e.id = nextId /\ e.kind = todo[1].kind
      /\ nextId <= MaxEvents /\ nextId + Len(todo) <= MaxEvents + 1
      /\ more \in Seq(LogEvents) /\ NonDecreasing(more) /\ LastId(more) = nextId
      /\ \A i \in DOMAIN more : more[i].id <= nextId
      /\ \E B \in Nat : Named(files, more, B)
      /\ \A r : \A gs \in SUBSET files : ~Starts(r, "snapshot") =>
           Vouched(more, gs, r) \subseteq Sources /\ Vouched(log, gs, r) \subseteq Sources
  BY <1>1, AppendedLog
<1>5. /\ log \in Seq(LogEvents) /\ NonDecreasing(log) /\ memory \in Memories
      /\ noted \in NotedStates /\ noted.at < nextId /\ noted.at <= LastId(log)
  BY <1>1 DEF IInv, Typing, Ids
<1>6. e = Stamped(todo[1], nextId)
  BY <1>4
<1>7. /\ Len(todo) \in Nat \ {0} /\ Len(Tail(todo)) = Len(todo) - 1
      /\ ~last => Tail(todo) # <<>>
      /\ \A i \in DOMAIN Tail(todo) : i + 1 \in DOMAIN todo /\ Tail(todo)[i] = todo[i + 1]
  BY <1>1, RestOfCall
<1>8. how \in {"write", "sync"}
  BY RepositoryBounds
<1>9. /\ call' \in [op : Operations \cup {None}, todo : Seq(PlainEvents), added : BOOLEAN]
      /\ \/ call' = NoCall /\ ~(swallowed /\ ~last)
         \/ swallowed /\ ~last /\ rest = Tail(todo) /\ call'.op = call.op /\ call'.op # None
  <2>1. CASE ~(swallowed /\ ~last)
    <3>1. NoCall \in [op : Operations \cup {None}, todo : Seq(PlainEvents), added : BOOLEAN]
      BY DEF NoCall
    <3>. QED  BY <1>1, <2>1, <3>1
  <2>2. CASE swallowed /\ ~last
    <3>1. call.added \in BOOLEAN
      BY <1>1, RestOfCall
    <3>2. LET c == [call EXCEPT !.todo = Tail(todo), !.added = call.added]
          IN /\ c \in [op : Operations \cup {None}, todo : Seq(PlainEvents), added : BOOLEAN]
             /\ c.op = call.op /\ c.todo = Tail(todo) /\ c.op # None
      BY <1>1, <3>1, RestOfCall
    <3>3. call = [op |-> call.op, todo |-> call.todo, added |-> call.added]
      BY <1>1, RestOfCall
    <3>4. [call EXCEPT !.todo = Tail(todo), !.added = call.added] = [call EXCEPT !.todo = Tail(todo)]
      BY <3>3
    <3>. QED  BY <1>1, <2>2, <3>2, <3>4
  <2>. QED  BY <2>1, <2>2
<1>. HIDE DEF e, more, last, todo
<1>10. /\ \A kind \in First : Pos(rest, kind) = 0
       /\ ~Starts(rest, "snapshot") /\ ~Starts(rest, "parsed")
       /\ Planned(memory, rest)
  <2>1. CASE call' = NoCall
    BY <2>1
  <2>2. CASE swallowed /\ rest = Tail(todo)
    <3>1. /\ \A kind \in First : Pos(Tail(todo), kind) = 0
          /\ ~Starts(Tail(todo), "snapshot")
      BY <1>4, <1>5, RestTakesNone
    <3>2. /\ Planned(Applied(memory, e), Tail(todo))
          /\ Starts(Tail(todo), "parsed") => todo[1].kind = "imported"
      BY <1>4, <1>5, <1>6, PlannedAfter
    <3>3. e.kind = "rating"
      BY <2>2
    <3>4. Applied(memory, e) = memory
      BY <3>3 DEF Applied, Replayed
    <3>. QED  BY <1>4, <2>2, <3>1, <3>2, <3>3, <3>4
  <2>. QED  BY <1>9, <2>1, <2>2
<1>11. Typing'
  <2>1. log' \in Seq(LogEvents)
    BY <1>1, <1>4, <1>5
  <2>2. faults' \in SUBSET {"append", "sync", "noted"}
    BY <1>1 DEF IInv, Typing
  <2>3. clean' \in BOOLEAN
    BY <1>1
  <2>4. /\ (call.op = None => call = NoCall)' /\ (call # NoCall => call.todo # <<>>)'
        /\ up'
    BY <1>1, <1>2, <1>7, <1>9
  <2>. QED  BY <1>2, <1>9, <2>1, <2>2, <2>3, <2>4 DEF IInv, Typing
<1>12. Ids'
  <2>1. Ids
    BY DEF IInv
  <2>2. (\A i \in DOMAIN log : log[i].id <= MaxEvents /\ log[i].id <= nextId)'
    <3>1. \A i \in DOMAIN more : more[i].id \in Nat /\ more[i].id <= nextId
      BY <1>4 DEF LogEvents
    <3>2. \A i \in DOMAIN more : more[i].id <= MaxEvents /\ more[i].id <= nextId
      BY <1>4, <3>1
    <3>. QED  BY <1>1, <1>2, <1>3, <2>1, <3>2 DEF Ids
  <2>3. LastId(log') \in {LastId(log), nextId} /\ LastId(log) <= LastId(log')
    BY <1>1, <1>4
  <2>4. (noted.at <= LastId(log) /\ (up => noted.at < nextId))'
    <3>1. noted.at \in Nat
      BY <1>5 DEF NotedStates
    <3>. QED  BY <1>2, <1>5, <2>3, <3>1
  <2>5. (\A s \in files : s.at <= LastId(log) /\ s.at < nextId)'
    <3>1. \A s \in files : s.at \in Nat /\ s.at <= LastId(log) /\ s.at < nextId
      BY <2>1 DEF Ids, IInv, Typing, SnapshotFiles
    <3>. QED  BY <1>2, <2>3, <3>1
  <2>6. (\E B \in Nat : Named(files, log, B))' /\ NonDecreasing(log)'
    BY <1>1, <1>2, <1>4, <1>5, <2>1 DEF Ids
  <2>7. (nextId <= MaxEvents + 1)'
    BY <1>2, <1>3, <1>4
  <2>8. (call # NoCall => nextId + Len(call.todo) <= MaxEvents + 1)'
    <3>1. \A k \in Nat : nextId + k <= MaxEvents + 1 => nextId + (k - 1) <= MaxEvents + 1
      OBVIOUS
    <3>2. nextId + (Len(todo) - 1) <= MaxEvents + 1
      BY <1>4, <1>7, <3>1
    <3>. QED  BY <1>2, <1>3, <1>7, <1>9, <3>2
  <2>9. (up /\ "sync" \notin faults => nextId = LastId(log) + 1)'
    BY <1>1, <1>2, <1>8, <2>1 DEF Ids
  <2>10. (Starts(call.todo, "parsed") => noted.at < LastId(log))'
    BY <1>10
  <2>. QED  BY <2>2, <2>4, <2>5, <2>6, <2>7, <2>8, <2>9, <2>10, Zenon DEF Ids
<1>13. Sources' \in SUBSET Sources
  <2>0. files \in SUBSET files
    OBVIOUS
  <2>1. Vouched(more, files, rest) \subseteq Sources /\ Vouched(log, files, rest) \subseteq Sources
    BY <1>4, <1>10, <2>0, Zenon
  <2>. QED  BY <1>1, <1>2, <2>1 DEF Sources
<1>14. Keeps'
  <2>1. /\ Sourced(Sources, log) /\ Shown(Sources, log, memory, todo)
        /\ Sourced(Sources, more)
        /\ \A r : ~Starts(r, "parsed") => Shown(Sources, more, memory, r)
    BY <1>1, AppendedBases DEF IInv, Keeps, e, more, todo
  <2>2. SameRest(memory, memory)
    BY DEF SameRest, SameSets, SameValues, SameEntries
  <2>3. Shown(Sources, log, memory, rest) /\ Shown(Sources, more, memory, rest)
    BY <1>10, <2>1, <2>2, ShownTaken
  <2>4. Sourced(Sources, log') /\ Shown(Sources, log', memory, rest)
    BY <1>1, <2>1, <2>3
  <2>5. Sourced(Sources', log') /\ Shown(Sources', log', memory, rest)
    BY <1>13, <2>4, FewerBases
  <2>. QED  BY <1>2, <1>10, <2>5 DEF Keeps
<1>15. Settles'
  <2>. SUFFICES ASSUME Safe(faults')
                PROVE  Settled(Sources', log') /\ Agrees(log', memory, rest, noted, faults')
    BY <1>2 DEF Settles
  <2>1. Safe(faults) /\ how # "sync" /\ faults' # {}
    BY <1>1 DEF Safe
  <2>2. log' = log
    BY <1>1, <2>1
  <2>3. Settled(Sources, log) /\ Agrees(log, memory, todo, noted, faults)
    BY <1>1, <2>1 DEF IInv, Settles, todo
  <2>4. Settled(Sources', log)
    BY <1>13, <2>3 DEF Settled
  <2>. DEFINE x == From(Nothing, log)
  <2>5. /\ SameRest(x, memory) /\ Leads(x, memory, todo)
        /\ InStep(noted, todo, LastId(log)) => Abreast(x, memory, todo)
    BY <2>3 DEF Agrees
  <2>6. x \in Memories
    BY <1>5, FromTypes
  <2>. HIDE DEF x
  <2>7. Leads(x, memory, rest)
    <3>1. /\ Pos(rest, "attempt") = 0 /\ Pos(rest, "batch") = 0 /\ Pos(rest, "review") = 0
      BY <1>10 DEF First
    <3>2. \A kind : Pos(todo, kind) \in Nat
      BY DEF Pos
    <3>3. /\ memory.next.attempt \in Nat /\ memory.next.batch \in Nat /\ memory.next.review \in Nat
          /\ x.next.attempt \in Nat /\ x.next.batch \in Nat /\ x.next.review \in Nat
      BY <1>5, <2>6, IdsAreNumbers
    <3>4. \A a, b, p \in Nat : a + p <= b => a + 0 <= b
      OBVIOUS
    <3>5. /\ x.next.attempt + Pos(todo, "attempt") <= memory.next.attempt
          /\ x.next.batch + Pos(todo, "batch") <= memory.next.batch
          /\ x.next.review + Pos(todo, "review") <= memory.next.review
      BY <2>5 DEF Leads
    <3>6. /\ x.next.attempt + 0 <= memory.next.attempt
          /\ x.next.batch + 0 <= memory.next.batch
          /\ x.next.review + 0 <= memory.next.review
      BY <3>2, <3>3, <3>4, <3>5
    <3>. QED  BY <3>1, <3>6 DEF Leads
  <2>8. InStep(noted, rest, LastId(log)) => Abreast(x, memory, rest)
    <3>. SUFFICES ASSUME InStep(noted, rest, LastId(log))  PROVE  Abreast(x, memory, rest)
      OBVIOUS
    <3>1. noted.whole /\ noted.at = LastId(log)
      <4>1. Pos(rest, "parsed") = 0
        BY <1>10 DEF Pos
      <4>. QED  BY <1>5, <4>1 DEF InStep, NotedStates
    <3>2. ~Starts(todo, "parsed")
      <4>1. Starts(todo, "parsed") => noted.at < LastId(log)
        BY DEF IInv, Ids, todo
      <4>. QED  BY <3>1, <4>1
    <3>3. InStep(noted, todo, LastId(log))
      BY <3>1, <3>2 DEF InStep, Pos
    <3>4. SameGames(x, memory)
      BY <2>5, <3>2, <3>3, AbreastIs
    <3>. QED  BY <1>10, <3>4, AbreastIs
  <2>9. Agrees(log, memory, rest, noted, faults')
    BY <2>1, <2>5, <2>7, <2>8 DEF Agrees, x
  <2>. QED  BY <2>2, <2>4, <2>9
<1>16. Indexing'
  <2>1. /\ clean /\ ~Rebuilds(call.op) => index = Indexed(memory, files)
        /\ ~Rebuilds(call.op) => \A i \in DOMAIN todo : todo[i].kind \in Unindexed
    BY <1>1 DEF IInv, Indexing, todo
  <2>2. Rebuilds(None)
    BY DEF Rebuilds, None
  <2>3. ~Rebuilds(call'.op) => \A i \in DOMAIN rest : rest[i].kind \in Unindexed
    BY <1>7, <1>9, <2>1, <2>2
  <2>4. CASE call' = NoCall
    <3>1. clean' => index' = Indexed(memory, files)
      <4>1. CASE call.added \/ (swallowed /\ last)
        BY <1>1, <2>4, <4>1
      <4>2. CASE ~(call.added \/ (swallowed /\ last))
        <5>1. ~swallowed
          BY <1>9, <2>4, <4>2
        <5>. QED  BY <1>1, <4>2, <5>1
      <4>. QED  BY <4>1, <4>2
    <3>. QED  BY <1>2, <2>3, <3>1 DEF Indexing
  <2>5. CASE swallowed /\ ~last /\ rest = Tail(todo) /\ call'.op = call.op /\ call'.op # None
    <3>1. call' # NoCall
      BY <2>5
    <3>2. index' = index /\ (clean' => clean)
      BY <1>1, <2>5, <3>1
    <3>. QED  BY <1>2, <2>1, <2>3, <2>5, <3>1, <3>2 DEF Indexing
  <2>. QED  BY <1>9, <2>4, <2>5
<1>. QED  BY <1>11, <1>12, <1>14, <1>15, <1>16 DEF IInv

(* The process ends.                                                          *)
LEMMA CrashStep ==
  ASSUME IInv, Crash
  PROVE  IInv'
<1>. USE InvFacts, NothingToDo
<1>. DEFINE e == Stamped(Head(call.todo), nextId)
            more == Append(log, e)
<1>1. /\ up /\ ~up'
      /\ \/ log' = log
         \/ call # NoCall /\ log' = more
      /\ files' \in SUBSET files /\ call' = NoCall /\ due' = FALSE
      /\ memory' = Empty /\ noted' = [at |-> 0, whole |-> TRUE]
  BY DEF Crash

<1>2. nextId' = nextId /\ index' = index /\ scope' = scope /\ clean' = clean /\ faults' = faults
      /\ up' = FALSE
  BY DEF Crash
<1>3. MaxEvents' = MaxEvents
  BY <1>2 DEF MaxEvents
<1>4. /\ log \in Seq(LogEvents) /\ files \in SUBSET SnapshotFiles /\ IsFiniteSet(files)
      /\ Cardinality(files) <= MaxSnapshots /\ Ids
  BY DEF IInv, Typing
<1>5. call # NoCall =>
        /\ nextId <= MaxEvents /\ more \in Seq(LogEvents) /\ NonDecreasing(more)
        /\ LastId(more) = nextId /\ \A i \in DOMAIN more : more[i].id <= nextId
        /\ \E B \in Nat : Named(files, more, B)
        /\ \A rest : \A gs \in SUBSET files : ~Starts(rest, "snapshot") =>
             Vouched(more, gs, rest) \subseteq Sources
        /\ Sourced(Sources, more) /\ (Safe(faults) => Settled(Sources, more))
  BY <1>1, AppendedLog, AppendedBases
<1>. HIDE DEF e, more
<1>6. call'.todo = <<>> /\ call' \in [op : Operations \cup {None}, todo : Seq(PlainEvents), added : BOOLEAN]
  BY <1>1 DEF NoCall
<1>7. /\ log' \in Seq(LogEvents) /\ NonDecreasing(log')
      /\ \A i \in DOMAIN log' : log'[i].id <= MaxEvents /\ log'[i].id <= nextId
      /\ \E B \in Nat : Named(files, log', B)
      /\ LastId(log) <= LastId(log') /\ LastId(log') \in Nat
  <2>1. CASE log' = log
    BY <1>4, <2>1 DEF Ids
  <2>2. CASE call # NoCall /\ log' = more
    <3>1. \A i \in DOMAIN more : more[i].id \in Nat
      BY <1>5, <2>2 DEF LogEvents
    <3>. QED  BY <1>5, <2>2, <3>1
  <2>. QED  BY <1>1, <2>1, <2>2
<1>8. Typing'
  <2>1. noted' \in NotedStates
    BY <1>1 DEF NotedStates
  <2>2. memory' \in Memories /\ IdsBelow(memory')
    BY <1>1, EmptyTypes
  <2>3. IsFiniteSet(files') /\ Cardinality(files') <= Cardinality(files)
    BY <1>1, <1>4, FS_Subset
  <2>4. Cardinality(files') <= MaxSnapshots /\ files' \in SUBSET SnapshotFiles
    <3>1. Cardinality(files') \in Nat /\ Cardinality(files) \in Nat /\ MaxSnapshots \in Nat
      BY <1>4, <2>3, FS_CardinalityType, RepositoryBounds
    <3>. QED  BY <1>1, <1>4, <2>3, <3>1
  <2>5. due' \in BOOLEAN /\ up' \in BOOLEAN
    BY <1>1, <1>2
  <2>. QED  BY <1>1, <1>2, <1>6, <1>7, <2>1, <2>2, <2>3, <2>4, <2>5 DEF IInv, Typing
<1>9. Ids'
  <2>1. (\A s \in files : s.at <= LastId(log) /\ s.at < nextId)'
    <3>1. \A s \in files : s.at \in Nat /\ s.at <= LastId(log) /\ s.at < nextId
      BY <1>4 DEF Ids, SnapshotFiles
    <3>. QED  BY <1>1, <1>2, <1>7, <3>1
  <2>2. (\E B \in Nat : Named(files, log, B))'
    BY <1>1, <1>7 DEF Named
  <2>3. (noted.at <= LastId(log))' /\ ~up'
    BY <1>1, <1>7
  <2>4. (nextId <= MaxEvents + 1)' /\ NonDecreasing(log)'
        /\ (\A i \in DOMAIN log : log[i].id <= MaxEvents /\ log[i].id <= nextId)'
    BY <1>2, <1>3, <1>4, <1>7 DEF Ids
  <2>5. (call = NoCall)' /\ (~Starts(call.todo, "parsed"))'
    BY <1>1, <1>6
  <2>. QED  BY <2>1, <2>2, <2>3, <2>4, <2>5, Zenon DEF Ids
<1>10. Sources' \in SUBSET Sources
  <2>1. CASE log' = log
    <3>1. \A b : Authorized(log, b) \/ Claims(<<>>, b) => Authorized(log, b) \/ Claims(call.todo, b)
      OBVIOUS
    <3>2. Vouched(log, files', <<>>) \subseteq Vouched(log, files, call.todo)
      BY <1>1, <3>1, VouchedLess
    <3>. QED  BY <1>6, <2>1, <3>2 DEF Sources
  <2>2. CASE call # NoCall /\ log' = more
    <3>1. ~Starts(<<>>, "snapshot")
      OBVIOUS
    <3>2. Vouched(more, files', <<>>) \subseteq Sources
      BY <1>1, <1>5, <2>2, <3>1, Zenon
    <3>. QED  BY <1>6, <2>2, <3>2 DEF Sources
  <2>. QED  BY <1>1, <2>1, <2>2
<1>11. /\ Sourced(Sources, log') /\ (Safe(faults) => Settled(Sources, log'))
  BY <1>1, <1>5 DEF IInv, Keeps, Settles
<1>12. Keeps'
  <2>1. Sourced(Sources', log')
    BY <1>10, <1>11, FewerBases
  <2>. QED  BY <1>1, <2>1 DEF Keeps
<1>13. Settles'
  <2>1. Safe(faults) => Settled(Sources', log')
    BY <1>10, <1>11 DEF Settled
  <2>. QED  BY <1>1, <1>2, <2>1 DEF Settles
<1>14. Indexing'
  <2>1. \A i \in DOMAIN call'.todo : FALSE
    BY <1>6
  <2>. QED  BY <1>1, <2>1 DEF Indexing
<1>. QED  BY <1>8, <1>9, <1>12, <1>13, <1>14 DEF IInv

(* So the invariant is inductive.                                             *)
LEMMA InvNext ==
  ASSUME IInv, [Next]_vars
  PROVE  IInv'
<1>1. ASSUME Next  PROVE  IInv'
  <2>1. memory \in Memories /\ nextId \in Nat /\ (up => Behind(memory, memory))
    BY DEF IInv, Typing, Keeps, Shown
  <2>2. MaxEvents \in Nat
    BY InvFacts
  <2>3. \/ Opening
        \/ CreateSnapshot \/ AutomaticSnapshot \/ CompactStorage \/ AppendNext
        \/ \E how \in Failures : AppendFails(how)
        \/ Crash \/ Restart
    BY <1>1, <2>1, <2>2, Steps
  <2>4. CASE Opening
    BY <2>4, OpeningStep
  <2>5. CASE CreateSnapshot \/ AutomaticSnapshot
    BY <2>5, SnapshotsStep
  <2>6. CASE CompactStorage
    BY <2>6, CompactStep
  <2>7. CASE AppendNext
    BY <2>7, AppendStep
  <2>8. CASE \E how \in Failures : AppendFails(how)
    BY <2>8, AppendFailsStep
  <2>9. CASE Crash
    BY <2>9, CrashStep
  <2>10. CASE Restart
    BY <2>10, RestartStep
  <2>. QED  BY <2>3, <2>4, <2>5, <2>6, <2>7, <2>8, <2>9, <2>10
<1>2. ASSUME UNCHANGED vars  PROVE  IInv'
  <2>1. due' \in BOOLEAN
    BY <1>2 DEF vars, IInv, Typing
  <2>2. UNCHANGED <<log, nextId, memory, noted, index, files, call, up, scope, clean, faults>>
    BY <1>2 DEF vars
  <2>. QED  BY <2>1, <2>2, InvSame
<1>. QED  BY <1>1, <1>2

(* The inductive invariant holds of every state the repository can reach:     *)
(* all that is shown below follows from it.                                   *)
THEOREM Invariance == Spec => []IInv
<1>1. Init => IInv
  BY InvInit
<1>2. IInv /\ [Next]_vars => IInv'
  BY InvNext
<1>. QED  BY <1>1, <1>2, PTL DEF Spec

-----------------------------------------------------------------------------
(* What follows from the invariant.                                           *)

(* What a restart would show, with some of the snapshot files.                *)
LEMMA RebuiltFrom ==
  ASSUME IInv, NEW fs \in SUBSET files, NEW events \in Seq(LogEvents),
         \A b : Authorized(events, b) => Authorized(log, b)
  PROVE  \E c : /\ c \in Sources /\ c \in BaseStates /\ Rebuilt(events, fs) = From(c, events)
                /\ From(c, events) \in Memories
<1>. USE InvFacts, NothingToDo
<1>1. files \in SUBSET SnapshotFiles
  BY DEF IInv, Typing
<1>2. PICK B \in Nat : Named(files, log, B)
  BY DEF IInv, Ids
<1>3. PICK K \in Nat : K = LastId(log) + B
  OBVIOUS
<1>4. \A s \in files : s.name \in Nat /\ s.at \in Nat /\ s.at <= LastId(log) /\ s.name <= B
  BY <1>1, <1>2 DEF SnapshotFiles, IInv, Ids, Named
<1>5. \A s \in fs : s.at <= K /\ s.name <= K
  BY <1>3, <1>4
<1>6. fs \in SUBSET SnapshotFiles
  BY <1>1
<1>7. PICK c : /\ c \in Vouched(events, fs, <<>>) /\ Rebuilt(events, fs) = From(c, events)
               /\ \A b \in Vouched(events, fs, <<>>) : Older(b, c)
  BY <1>5, <1>6, RebuiltIs
<1>8. \A b : Authorized(events, b) \/ Claims(<<>>, b) =>
               Authorized(log, b) \/ Claims(call.todo, b)
  OBVIOUS
<1>9. Vouched(events, fs, <<>>) \subseteq Sources
  BY <1>8, VouchedLess DEF Sources
<1>10. c \in Sources /\ c \in BaseStates
  BY <1>7, <1>9
<1>11. From(c, events) \in Memories
  BY <1>10, FromTypes
<1>. QED  BY <1>7, <1>10, <1>11

(* The types and the bounds.                                                  *)
LEMMA InvTypeOK == IInv => TypeOK
<1>. SUFFICES ASSUME IInv  PROVE  TypeOK
  OBVIOUS
<1>. USE InvFacts, NothingToDo
<1>1. Typing /\ Ids
  BY DEF IInv
<1>2. /\ \A i \in DOMAIN log : log[i].id \in 1..MaxEvents
      /\ nextId \in 1..(MaxEvents + 1)
  BY <1>1 DEF Ids
<1>3. noted.whole \in BOOLEAN /\ noted.at \in 0..LastId(log)
  BY <1>1 DEF Typing, Ids, NotedStates
<1>4. \A g \in Games : memory.games[g] # {} => "game" \in memory.games[g]
  BY <1>1 DEF Typing, Memories, GameStates
<1>5. \A d \in Drills : memory.drills[d].hint \in 0..3
  BY <1>1 DEF Typing, Memories, DrillStates
<1>6. call.op \in Operations \cup {None} /\ (call.todo = <<>>) = (call.op = None)
  BY <1>1 DEF Typing
<1>7. {up, due, clean} \subseteq BOOLEAN /\ Cardinality(files) <= MaxSnapshots
  BY <1>1 DEF Typing
<1>. QED  BY <1>2, <1>3, <1>4, <1>5, <1>6, <1>7 DEF TypeOK

(* The indexes.                                                               *)
LEMMA InvIndexCurrent == IInv => IndexCurrent
BY DEF IInv, Indexing, IndexCurrent, Free

(* What was shown.                                                            *)
LEMMA InvShownIsKept == IInv => ShownIsKept
<1>. SUFFICES ASSUME IInv, up, NEW fs \in SUBSET files
              PROVE  Covers(Rebuilt(log, fs), memory)
  BY DEF ShownIsKept, Covers, CoversGames, CoversDrills, CoversSets
<1>1. log \in Seq(LogEvents)
  BY DEF IInv, Typing
<1>2. PICK c : c \in Sources /\ Rebuilt(log, fs) = From(c, log)
  BY <1>1, RebuiltFrom
<1>. QED  BY <1>2 DEF IInv, Keeps, Shown

(* What depends on a game.                                                    *)
LEMMA InvDependentsComplete == IInv => DependentsComplete
<1>. SUFFICES ASSUME IInv, NEW fs \in SUBSET files
              PROVE  LET m == Rebuilt(log, fs)
                         recorded == {p \in Drills \X (1..MaxEvents) :
                                        p[2] \in DOMAIN m.drills[p[1]].attempts}
                         IdOf(p) == m.drills[p[1]].attempts[p[2]].id
                     IN /\ \A g \in Games : m.drills[g].made => {"game", "deep"} \subseteq m.games[g]
                        /\ \A n \in DOMAIN m.lines : "game" \in m.games[m.lines[n].game]
                        /\ faults \cap {"sync", "noted"} = {} =>
                             \A p, q \in recorded : p # q => IdOf(p) # IdOf(q)
  BY DEF DependentsComplete
<1>1. log \in Seq(LogEvents)
  BY DEF IInv, Typing
<1>. DEFINE m == Rebuilt(log, fs)
<1>2. PICK c : c \in Sources /\ m = From(c, log) /\ From(c, log) \in Memories
  BY <1>1, RebuiltFrom
<1>. HIDE DEF m
<1>3. DrillsAnalysed(m) /\ Behind(m, m)
  BY <1>2 DEF IInv, Keeps, Sourced
<1>4. m \in Memories
  BY <1>2
<1>5. ASSUME NEW g \in Games, m.drills[g].made  PROVE  {"game", "deep"} \subseteq m.games[g]
  <2>1. "deep" \in m.games[g]
    BY <1>3, <1>5 DEF DrillsAnalysed
  <2>2. m.games[g] \in GameStates
    BY <1>4 DEF Memories
  <2>. QED  BY <2>1, <2>2 DEF GameStates
<1>6. ASSUME NEW n \in DOMAIN m.lines  PROVE  "game" \in m.games[m.lines[n].game]
  <2>1. m.lines[n].game \in Games
    <3>1. m.lines \in LineMaps
      BY <1>4 DEF Memories
    <3>2. m.lines[n] \in Lines
      BY <1>6, <3>1 DEF LineMaps
    <3>. QED  BY <3>2 DEF Lines
  <2>. QED  BY <1>3, <2>1 DEF Behind, Depends
<1>7. ASSUME faults \cap {"sync", "noted"} = {},
             NEW p \in Drills \X (1..MaxEvents), p[2] \in DOMAIN m.drills[p[1]].attempts,
             NEW q \in Drills \X (1..MaxEvents), q[2] \in DOMAIN m.drills[q[1]].attempts,
             m.drills[p[1]].attempts[p[2]].id = m.drills[q[1]].attempts[q[2]].id
      PROVE  p = q
  <2>1. Settled(Sources, log)
    BY <1>7 DEF IInv, Settles, Safe
  <2>2. Alike(m, From(Nothing, log)) /\ Numbered(From(Nothing, log))
    BY <1>2, <2>1 DEF Settled
  <2>3. Distinct(m)
    BY <2>2, AlikeNumbered DEF Numbered
  <2>4. p[1] \in Drills /\ q[1] \in Drills /\ p = <<p[1], p[2]>> /\ q = <<q[1], q[2]>>
    OBVIOUS
  <2>5. p[1] = q[1] /\ p[2] = q[2]
    BY <1>7, <2>3, <2>4 DEF Distinct
  <2>. QED  BY <2>4, <2>5
<1>. QED  BY <1>5, <1>6, <1>7 DEF m

(* A restart.                                                                 *)
LEMMA InvRestartIsInvisible == IInv => RestartIsInvisible
<1>. SUFFICES ASSUME IInv, Free, faults = {}, NEW fs \in SUBSET files
              PROVE  View(Rebuilt(log, fs)) = View(memory)
  BY DEF RestartIsInvisible
<1>. DEFINE x == From(Nothing, log)
<1>1. up /\ call.todo = <<>>
  BY NothingToDo DEF Free
<1>2. log \in Seq(LogEvents) /\ memory \in Memories
  BY DEF IInv, Typing
<1>3. Settled(Sources, log) /\ Agrees(log, memory, <<>>, noted, faults)
  BY <1>1 DEF IInv, Settles, Safe
<1>4. PICK c : /\ c \in Sources /\ Rebuilt(log, fs) = From(c, log) /\ From(c, log) \in Memories
  BY <1>2, RebuiltFrom
<1>5. Alike(From(c, log), x)
  BY <1>3, <1>4 DEF Settled
<1>6. /\ SameRest(x, memory) /\ Abreast(x, memory, <<>>) /\ LeadsByCall(x, memory, <<>>)
  BY <1>3 DEF Agrees
<1>7. x \in Memories
  BY <1>2, InvFacts, FromTypes
<1>. HIDE DEF x
<1>8. SameGames(x, memory)
  BY <1>6, AbreastIs, NothingToDo
<1>9. SameNext(x, memory)
  <2>1. /\ x.next.attempt + 0 = memory.next.attempt
        /\ x.next.batch + 0 = memory.next.batch
        /\ x.next.review + 0 = memory.next.review
    BY <1>6, NothingToDo DEF LeadsByCall
  <2>2. x.next.attempt \in Nat /\ x.next.batch \in Nat /\ x.next.review \in Nat
    BY <1>7, IdsAreNumbers
  <2>. QED  BY <2>1, <2>2 DEF SameNext
<1>10. Alike(x, memory)
  BY <1>6, <1>8, <1>9 DEF Alike
<1>11. Alike(From(c, log), memory)
  BY <1>5, <1>10, AlikeAll
<1>. QED  BY <1>2, <1>4, <1>11, AlikeShown

(* Compaction.                                                                *)
LEMMA InvCompaction ==
  ASSUME IInv, CompactStorage, Safe(faults), NEW fs \in SUBSET files
  PROVE  View(Rebuilt(log', fs)) = View(Rebuilt(log, fs))
<1>. USE InvFacts
<1>. DEFINE more == Append(Retained(log), Stamped(Event("compacted", None, 0), nextId))
<1>1. log' = more
  BY DEF CompactStorage
<1>2. log \in Seq(LogEvents) /\ NonDecreasing(log)
  BY DEF IInv, Typing, Ids
<1>3. /\ more \in Seq(LogEvents)
      /\ \A b \in BaseStates : Alike(From(b, more), From(b, log))
      /\ \A b : Authorized(more, b) => Authorized(log, b)
  BY <1>2, CompactedLog
<1>. HIDE DEF more
<1>4. PICK c : /\ c \in Sources /\ c \in BaseStates /\ Rebuilt(more, fs) = From(c, more)
               /\ From(c, more) \in Memories
  BY <1>3, RebuiltFrom
<1>5. PICK d : /\ d \in Sources /\ d \in BaseStates /\ Rebuilt(log, fs) = From(d, log)
               /\ From(d, log) \in Memories
  BY <1>2, RebuiltFrom
<1>6. Settled(Sources, log)
  BY DEF IInv, Settles
<1>7. Alike(From(c, log), From(Nothing, log)) /\ Alike(From(d, log), From(Nothing, log))
  BY <1>4, <1>5, <1>6 DEF Settled
<1>8. Alike(From(c, more), From(c, log))
  BY <1>3, <1>4
<1>9. Alike(From(c, more), From(d, log))
  BY <1>7, <1>8, AlikeAll
<1>. QED  BY <1>1, <1>4, <1>5, <1>9, AlikeShown

-----------------------------------------------------------------------------
(* The theorems.                                                              *)

(* Types, bounds of the ids, of the count of applied events and of the        *)
(* snapshot files, for every log the repository can write.                    *)
THEOREM TypeCorrect == Spec => []TypeOK
BY Invariance, InvTypeOK, PTL

(* After a call that did not throw, the index files show the projections.     *)
THEOREM IndexesAreCurrent == Spec => []IndexCurrent
BY Invariance, InvIndexCurrent, PTL

(* What the process shows survives every crash and every failed append, with  *)
(* any of the snapshot files.                                                 *)
THEOREM NothingShownIsLost == Spec => []ShownIsKept
BY Invariance, InvShownIsKept, PTL

(* Nothing in the rebuilt projections refers to what is not there.            *)
THEOREM DependentsAreComplete == Spec => []DependentsComplete
BY Invariance, InvDependentsComplete, PTL

(* A restart shows what the process showed.                                   *)
THEOREM RestartShowsTheSame == Spec => []RestartIsInvisible
BY Invariance, InvRestartIsInvisible, PTL

(* Compaction changes nothing a restart would show.                           *)
THEOREM CompactionShowsTheSame == Spec => CompactionKeepsView
<1>1. IInv /\ [Next]_vars =>
        [CompactStorage /\ faults \cap {"sync", "noted"} = {} =>
           \A fs \in SUBSET files : View(Rebuilt(log', fs)) = View(Rebuilt(log, fs))]_vars
  BY InvCompaction DEF Safe
<1>. QED  BY <1>1, Invariance, PTL DEF Spec, CompactionKeepsView
=============================================================================
