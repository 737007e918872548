--------------------------- MODULE EventLogProofs ---------------------------
(* What holds of EventLog for every set of keys, sizes of records, number of  *)
(* records and set of failures, across any series of crashes and restarts.    *)
EXTENDS EventLog, SubsequenceTheorems

-----------------------------------------------------------------------------
(* Induction.                                                                 *)

(* A file is read from its end: what holds of an offset when it holds of all  *)
(* later ones holds of every offset.                                          *)
LEMMA FromTheEnd ==
  ASSUME NEW N \in Nat, NEW S,
         \A o \in 0..N : (\A q \in (o + 1)..N : q \in S) => o \in S
  PROVE  \A o \in 0..N : o \in S
<1>. DEFINE T == {k \in Nat : \A o \in 0..N : o >= N - k => o \in S}
<1>1. 0 \in T
  <2>1. N \in 0..N /\ (N + 1)..N = {}
    OBVIOUS
  <2>2. N \in S
    BY <2>1
  <2>3. \A o \in 0..N : o >= N => o = N
    OBVIOUS
  <2>. QED  BY <2>2, <2>3
<1>2. ASSUME NEW k \in Nat, k \in T  PROVE  k + 1 \in T
  <2>1. ASSUME NEW o \in 0..N, o >= N - (k + 1)  PROVE  o \in S
    <3>1. \A q \in (o + 1)..N : q \in 0..N /\ q >= N - k
      BY <2>1
    <3>2. \A q \in (o + 1)..N : q \in S
      BY <1>2, <3>1
    <3>. QED  BY <3>2
  <2>. QED  BY <2>1
<1>. HIDE DEF T
<1>3. N \in T
  BY <1>1, <1>2, SetInduction
<1>. QED  BY <1>3 DEF T

-----------------------------------------------------------------------------
(* Reading a file.                                                            *)

Events == [kind : Kinds \cup {"migrated", "marker"}, key : Keys \cup {NoKey},
           id : Nat, size : {n \in Nat : n >= MinRecord}, serial : Nat,
           schema : {1, 2}]
Cells == [of : Events, at : Nat \ {0}]
Results == [events : Seq(Events), corrupt : BOOLEAN, torn : BOOLEAN, valid : Nat]

(* What the rest of a file gives from an offset on, when it holds no record.  *)
Stop(torn) == [events |-> <<>>, corrupt |-> FALSE, torn |-> torn, valid |-> 0]
Corrupted(rest) == [rest EXCEPT !.corrupt = TRUE, !.valid = 0]

(* One step of replay_unlocked: what is read from offset o, given what is     *)
(* read from every later one.                                                 *)
Step(f, scan, o) ==
  LET left == Len(f) - o
      e == f[o + 1].of
  IN CASE left < MinRecord -> Stop(left > 0)
       [] left >= MinRecord /\ ~HeaderAt(f, o) -> Corrupted(scan[NextMagic(f, o)])
       [] OTHER ->
            IF left < e.size THEN Stop(TRUE)
            ELSE IF SubSeq(f, o + 1, o + e.size) # Record(e)
            THEN Corrupted(scan[o + e.size])
            ELSE LET rest == scan[o + e.size]
                 IN [rest EXCEPT !.events = <<e>> \o @, !.valid = e.size + @]

Scan(f) == CHOOSE scan : scan = [o \in 0..Len(f) |-> Step(f, scan, o)]

(* replay_unlocked is the scan from the first offset.                         *)
LEMMA ReplayIsScan == \A f : Replay(f) = Scan(f)[0]
BY DEF Replay, Scan, Step, Stop, Corrupted

(* A file's end, a partial record, and a whole record at offset o.            *)
AtEnd(f, o) == Len(f) - o < MinRecord
CutAt(f, o) == ~AtEnd(f, o) /\ HeaderAt(f, o) /\ Len(f) - o < f[o + 1].of.size
WholeAt(f, o) ==
  /\ ~AtEnd(f, o) /\ HeaderAt(f, o) /\ Len(f) - o >= f[o + 1].of.size
  /\ SubSeq(f, o + 1, o + f[o + 1].of.size) = Record(f[o + 1].of)
DefectAt(f, o) == ~AtEnd(f, o) /\ ~CutAt(f, o) /\ ~WholeAt(f, o)

(* Where the reader goes on after a defect.                                   *)
Jump(f, o) == IF HeaderAt(f, o) THEN o + f[o + 1].of.size ELSE NextMagic(f, o)

IsMagic(f, o, i) ==
  /\ i = Len(f) \/ f[i + 1].at = 1
  /\ \A j \in (o + 1)..(i - 1) : f[j + 1].at # 1

(* There is one next offset a record may start at.                            *)
LEMMA NextMagicIs ==
  ASSUME NEW f \in Seq(Cells), NEW o \in 0..Len(f), o < Len(f)
  PROVE  /\ NextMagic(f, o) \in (o + 1)..Len(f)
         /\ IsMagic(f, o, NextMagic(f, o))
         /\ \A i \in (o + 1)..Len(f) : IsMagic(f, o, i) => i = NextMagic(f, o)
<1>. DEFINE C == {i \in (o + 1)..Len(f) : i = Len(f) \/ f[i + 1].at = 1}
<1>1. Len(f) \in Nat /\ o \in Nat
  OBVIOUS
<1>2. C \in SUBSET (0..Len(f)) /\ Len(f) \in C
  BY <1>1
<1>3. PICK m \in C : \A x \in C : m <= x
  <2>. HIDE DEF C
  <2>. QED  BY <1>1, <1>2, HasSmallest
<1>4. m \in (o + 1)..Len(f) /\ IsMagic(f, o, m)
  <2>1. ASSUME NEW j \in (o + 1)..(m - 1)  PROVE  f[j + 1].at # 1
    <3>1. j \in Nat /\ m \in Nat /\ m <= Len(f) /\ j < m /\ j \in (o + 1)..Len(f)
      BY <1>1, <1>3
    <3>2. j \notin C
      BY <1>3, <3>1
    <3>. QED  BY <3>1, <3>2
  <2>. QED  BY <1>3, <2>1 DEF IsMagic
<1>5. \A i, k \in (o + 1)..Len(f) : IsMagic(f, o, i) /\ IsMagic(f, o, k) => ~(i < k)
  <2>. SUFFICES ASSUME NEW i \in (o + 1)..Len(f), NEW k \in (o + 1)..Len(f),
                       IsMagic(f, o, i), IsMagic(f, o, k), i < k
                PROVE  FALSE
    OBVIOUS
  <2>1. i \in (o + 1)..(k - 1) /\ i # Len(f)
    BY <1>1
  <2>. QED  BY <2>1 DEF IsMagic
<1>6. \A i, k \in (o + 1)..Len(f) : IsMagic(f, o, i) /\ IsMagic(f, o, k) => i = k
  <2>1. \A i, k \in (o + 1)..Len(f) : i < k \/ k < i \/ i = k
    BY <1>1
  <2>. QED  BY <1>5, <2>1
<1>7. NextMagic(f, o) = CHOOSE i \in (o + 1)..Len(f) : IsMagic(f, o, i)
  BY DEF NextMagic, IsMagic
<1>8. NextMagic(f, o) \in (o + 1)..Len(f) /\ IsMagic(f, o, NextMagic(f, o))
  BY <1>4, <1>7
<1>. QED  BY <1>6, <1>8

(* A step looks at later offsets only.                                        *)
LEMMA StepIsLocal ==
  ASSUME NEW f \in Seq(Cells), NEW o \in 0..Len(f), NEW g, NEW h,
         \A q \in (o + 1)..Len(f) : g[q] = h[q]
  PROVE  Step(f, g, o) = Step(f, h, o)
<1>1. Len(f) \in Nat /\ o \in Nat
  OBVIOUS
<1>2. CASE Len(f) - o < MinRecord
  <2>1. ~(Len(f) - o >= MinRecord)
    BY <1>1, <1>2 DEF MinRecord
  <2>2. ASSUME NEW x  PROVE  Step(f, x, o) = Stop(Len(f) - o > 0)
    BY <1>2, <2>1 DEF Step
  <2>. QED  BY <2>2
<1>3. CASE Len(f) - o >= MinRecord /\ ~HeaderAt(f, o)
  <2>1. o < Len(f)
    BY <1>1, <1>3 DEF MinRecord
  <2>2. NextMagic(f, o) \in (o + 1)..Len(f)
    BY <2>1, NextMagicIs
  <2>3. g[NextMagic(f, o)] = h[NextMagic(f, o)]
    BY <2>2
  <2>4. Step(f, g, o) = Corrupted(g[NextMagic(f, o)]) /\ Step(f, h, o) = Corrupted(h[NextMagic(f, o)])
    <3>1. ~(Len(f) - o < MinRecord)
      BY <1>1, <1>3 DEF MinRecord
    <3>. QED  BY <1>3, <3>1 DEF Step
  <2>. QED  BY <2>3, <2>4
<1>4. CASE Len(f) - o >= MinRecord /\ HeaderAt(f, o)
  <2>0. ~(Len(f) - o < MinRecord)
    BY <1>1, <1>4 DEF MinRecord
  <2>. DEFINE e == f[o + 1].of
  <2>1. o + 1 \in DOMAIN f
    BY <1>1, <1>4 DEF MinRecord
  <2>2. e \in Events
    <3>1. f[o + 1] \in Cells
      BY <2>1
    <3>. QED  BY <3>1 DEF Cells
  <2>3. e.size \in Nat /\ e.size >= MinRecord
    BY <2>2 DEF Events
  <2>4. CASE Len(f) - o < e.size
    BY <1>4, <2>0, <2>4 DEF Step
  <2>5. CASE ~(Len(f) - o < e.size)
    <3>1. o + e.size \in (o + 1)..Len(f)
      <4>. HIDE DEF e
      <4>. QED  BY <1>1, <2>3, <2>5 DEF MinRecord
    <3>2. g[o + e.size] = h[o + e.size]
      BY <3>1
    <3>. QED  BY <1>4, <2>0, <2>5, <3>2 DEF Step
  <2>. QED  BY <2>4, <2>5
<1>5. Len(f) - o \in Int /\ MinRecord \in Int
  BY <1>1 DEF MinRecord
<1>6. Len(f) - o < MinRecord \/ Len(f) - o >= MinRecord
  BY <1>5
<1>. QED  BY <1>2, <1>3, <1>4, <1>6

(* The offsets of a file have a reading each.                                 *)
LEMMA ScanExists ==
  ASSUME NEW f \in Seq(Cells)
  PROVE  Scan(f) = [o \in 0..Len(f) |-> Step(f, Scan(f), o)]
<1>. DEFINE N == Len(f)
            Reads(k, g) == \A o \in 0..N : o >= N - k => g[o] = Step(f, g, o)
            T == {k \in Nat : \E g : Reads(k, g)}
<1>0. N \in Nat
  OBVIOUS
<1>1. 0 \in T
  <2>. DEFINE h == [o \in 0..N |-> 0]
              g == [o \in 0..N |-> Step(f, h, o)]
  <2>1. ASSUME NEW o \in 0..N, o >= N - 0  PROVE  g[o] = Step(f, g, o)
    <3>1. (o + 1)..Len(f) = {}
      BY <1>0, <2>1
    <3>. HIDE DEF h
    <3>2. g[o] = Step(f, h, o)
      OBVIOUS
    <3>. HIDE DEF g
    <3>. QED  BY <3>1, <3>2, StepIsLocal
  <2>2. Reads(0, g)
    BY <2>1
  <2>. QED  BY <2>2
<1>2. ASSUME NEW k \in Nat, k \in T  PROVE  k + 1 \in T
  <2>1. PICK g : Reads(k, g)
    BY <1>2
  <2>. DEFINE h == [o \in 0..N |-> IF o >= N - k THEN g[o] ELSE Step(f, g, o)]
  <2>2. ASSUME NEW o \in 0..N, o >= N - (k + 1)  PROVE  h[o] = Step(f, h, o)
    <3>1. \A q \in (o + 1)..N : q \in 0..N /\ q >= N - k
      BY <1>0, <1>2, <2>2
    <3>2. \A q \in (o + 1)..N : h[q] = g[q]
      BY <3>1
    <3>3. h[o] = Step(f, g, o)
      BY <2>1
    <3>. HIDE DEF h
    <3>4. Step(f, h, o) = Step(f, g, o)
      BY <3>2, StepIsLocal
    <3>. QED  BY <3>3, <3>4
  <2>. HIDE DEF h
  <2>3. Reads(k + 1, h)
    BY <2>2
  <2>. QED  BY <2>3
<1>. HIDE DEF T
<1>3. N \in T
  BY <1>0, <1>1, <1>2, SetInduction
<1>4. PICK g : Reads(N, g)
  BY <1>3 DEF T
<1>. DEFINE h == [o \in 0..N |-> g[o]]
<1>5. ASSUME NEW o \in 0..N  PROVE  h[o] = Step(f, h, o)
  <2>1. o >= N - N
    BY <1>0
  <2>2. g[o] = Step(f, g, o)
    BY <1>4, <2>1
  <2>3. \A q \in (o + 1)..N : h[q] = g[q]
    <3>1. \A q \in (o + 1)..N : q \in 0..N
      BY <1>0
    <3>. QED  BY <3>1
  <2>4. h[o] = g[o]
    OBVIOUS
  <2>. HIDE DEF h
  <2>5. Step(f, h, o) = Step(f, g, o)
    BY <2>3, StepIsLocal
  <2>. QED  BY <2>2, <2>4, <2>5
<1>6. h = [o \in 0..N |-> Step(f, h, o)]
  <2>1. h = [o \in 0..N |-> h[o]]
    OBVIOUS
  <2>. HIDE DEF h
  <2>. QED  BY <1>5, <2>1
<1>. HIDE DEF h
<1>. QED  BY <1>6 DEF Scan

(* The header of a record that is not a file's end.                           *)
LEMMA CellAt ==
  ASSUME NEW f \in Seq(Cells), NEW o \in 0..Len(f), ~AtEnd(f, o)
  PROVE  /\ o + 3 <= Len(f) /\ o < Len(f) /\ o + 1 \in DOMAIN f /\ o + 2 \in DOMAIN f
         /\ f[o + 1].of \in Events /\ f[o + 1].of.size \in Nat /\ f[o + 1].of.size >= 3
<1>1. Len(f) \in Nat /\ o \in Nat
  OBVIOUS
<1>2. o + 3 <= Len(f)
  BY <1>1 DEF AtEnd, MinRecord
<1>3. o + 1 \in DOMAIN f /\ o + 2 \in DOMAIN f
  BY <1>1, <1>2
<1>4. f[o + 1] \in Cells
  BY <1>3
<1>5. f[o + 1].of \in Events
  BY <1>4 DEF Cells
<1>. QED  BY <1>1, <1>2, <1>3, <1>5 DEF Events, MinRecord

(* Where a record that was read ends, and where the reader goes on after a    *)
(* defect, lie further on.                                                    *)
LEMMA JumpsAhead ==
  ASSUME NEW f \in Seq(Cells), NEW o \in 0..Len(f)
  PROVE  /\ WholeAt(f, o) => o + f[o + 1].of.size \in (o + 1)..Len(f)
         /\ DefectAt(f, o) => Jump(f, o) \in (o + 1)..Len(f)
<1>1. CASE AtEnd(f, o)
  BY <1>1 DEF WholeAt, DefectAt
<1>2. CASE ~AtEnd(f, o)
  <2>1. /\ Len(f) \in Nat /\ o \in Nat /\ o < Len(f)
        /\ f[o + 1].of.size \in Nat /\ f[o + 1].of.size >= 3
    BY <1>2, CellAt
  <2>2. ~(Len(f) - o < f[o + 1].of.size) => o + f[o + 1].of.size \in (o + 1)..Len(f)
    BY <2>1
  <2>3. WholeAt(f, o) => ~(Len(f) - o < f[o + 1].of.size)
    BY <2>1 DEF WholeAt
  <2>4. NextMagic(f, o) \in (o + 1)..Len(f)
    BY <2>1, NextMagicIs
  <2>5. DefectAt(f, o) /\ HeaderAt(f, o) => ~(Len(f) - o < f[o + 1].of.size)
    BY DEF DefectAt, CutAt
  <2>. QED  BY <2>2, <2>3, <2>4, <2>5 DEF Jump
<1>. QED  BY <1>1, <1>2

(* What is read from an offset, by what is found there.                       *)
LEMMA ScanCases ==
  ASSUME NEW f \in Seq(Cells), NEW o \in 0..Len(f)
  PROVE  /\ AtEnd(f, o) => Scan(f)[o] = Stop(Len(f) > o)
         /\ CutAt(f, o) => Scan(f)[o] = Stop(TRUE)
         /\ DefectAt(f, o) => Scan(f)[o] = Corrupted(Scan(f)[Jump(f, o)])
         /\ WholeAt(f, o) =>
              Scan(f)[o] = [Scan(f)[o + f[o + 1].of.size]
                              EXCEPT !.events = <<f[o + 1].of>> \o @,
                                     !.valid = f[o + 1].of.size + @]
<1>. DEFINE e == f[o + 1].of
            g == Scan(f)
<1>1. Scan(f)[o] = Step(f, Scan(f), o)
  BY ScanExists
<1>2. Len(f) \in Nat /\ o \in Nat
  OBVIOUS
<1>3. ASSUME AtEnd(f, o)  PROVE  g[o] = Stop(Len(f) > o)
  <2>1. Len(f) - o < MinRecord /\ ~(Len(f) - o >= MinRecord)
    BY <1>2, <1>3 DEF AtEnd, MinRecord
  <2>2. Step(f, g, o) = Stop(Len(f) - o > 0)
    BY <2>1 DEF Step
  <2>3. (Len(f) - o > 0) = (Len(f) > o)
    BY <1>2
  <2>. QED  BY <1>1, <2>2, <2>3
<1>4. ASSUME ~AtEnd(f, o)
      PROVE  /\ ~(Len(f) - o < MinRecord) /\ Len(f) - o >= MinRecord
             /\ e.size \in Nat
             /\ Len(f) - o < e.size <=> ~(Len(f) - o >= e.size)
  <2>1. e.size \in Nat
    BY <1>4, CellAt
  <2>. HIDE DEF e
  <2>. QED  BY <1>2, <1>4, <2>1 DEF AtEnd, MinRecord
<1>5. ASSUME CutAt(f, o)  PROVE  g[o] = Stop(TRUE)
  <2>1. ~AtEnd(f, o) /\ HeaderAt(f, o) /\ Len(f) - o < e.size
    BY <1>5 DEF CutAt
  <2>2. Step(f, g, o) = Stop(TRUE)
    BY <1>4, <2>1 DEF Step
  <2>. QED  BY <1>1, <2>2
<1>6. ASSUME DefectAt(f, o)  PROVE  g[o] = Corrupted(g[Jump(f, o)])
  <2>1. ~AtEnd(f, o) /\ ~CutAt(f, o) /\ ~WholeAt(f, o)
    BY <1>6 DEF DefectAt
  <2>2. CASE ~HeaderAt(f, o)
    <3>1. Step(f, g, o) = Corrupted(g[NextMagic(f, o)])
      BY <1>4, <2>1, <2>2 DEF Step
    <3>. QED  BY <1>1, <2>2, <3>1 DEF Jump
  <2>3. CASE HeaderAt(f, o)
    <3>1. ~(Len(f) - o < e.size)
      BY <2>1, <2>3 DEF CutAt
    <3>2. SubSeq(f, o + 1, o + e.size) # Record(e)
      BY <1>4, <2>1, <2>3, <3>1 DEF WholeAt
    <3>3. Step(f, g, o) = Corrupted(g[o + e.size])
      BY <1>4, <2>1, <2>3, <3>1, <3>2 DEF Step
    <3>. QED  BY <1>1, <2>3, <3>3 DEF Jump
  <2>. QED  BY <2>2, <2>3
<1>7. ASSUME WholeAt(f, o)
      PROVE  g[o] = [g[o + e.size] EXCEPT !.events = <<e>> \o @, !.valid = e.size + @]
  <2>1. /\ ~AtEnd(f, o) /\ HeaderAt(f, o) /\ Len(f) - o >= e.size
        /\ SubSeq(f, o + 1, o + e.size) = Record(e)
    BY <1>7 DEF WholeAt
  <2>2. ~(Len(f) - o < e.size)
    BY <1>4, <2>1
  <2>3. Step(f, g, o) = [g[o + e.size] EXCEPT !.events = <<e>> \o @, !.valid = e.size + @]
    BY <1>4, <2>1, <2>2 DEF Step
  <2>. QED  BY <1>1, <2>3
<1>. QED  BY <1>3, <1>5, <1>6, <1>7

(* The events a file's cells are of.                                          *)
Of(f) == {f[k].of : k \in DOMAIN f}

(* The cells of a file hold events.                                           *)
LEMMA OfEvents ==
  ASSUME NEW f \in Seq(Cells)
  PROVE  Of(f) \subseteq Events /\ Seq(Of(f)) \subseteq Seq(Events)
<1>1. \A k \in DOMAIN f : f[k] \in Cells
  OBVIOUS
<1>2. Of(f) \subseteq Events
  BY <1>1 DEF Of, Cells
<1>. QED  BY <1>2

(* What is read is a result, of the events of the file, and the part before   *)
(* the first corruption lies in the file.                                     *)
LEMMA ScanType ==
  ASSUME NEW f \in Seq(Cells)
  PROVE  \A o \in 0..Len(f) : /\ Scan(f)[o] \in Results
                              /\ Scan(f)[o].events \in Seq(Of(f))
                              /\ Scan(f)[o].valid <= Len(f) - o
<1>. DEFINE N == Len(f)
            Fine(o) == /\ Scan(f)[o] \in Results
                       /\ Scan(f)[o].events \in Seq(Of(f))
                       /\ Scan(f)[o].valid <= N - o
            S == {o \in 0..N : Fine(o)}
<1>0. N \in Nat
  OBVIOUS
<1>1. ASSUME NEW o \in 0..N, \A q \in (o + 1)..N : q \in S  PROVE  Fine(o)
  <2>0. o \in Nat /\ o <= N
    OBVIOUS
  <2>1. ASSUME NEW t \in BOOLEAN, Scan(f)[o] = Stop(t)  PROVE  Fine(o)
    <3>1. <<>> \in Seq(Events) /\ <<>> \in Seq(Of(f))
      OBVIOUS
    <3>2. Scan(f)[o] \in Results
      BY <2>1, <3>1 DEF Stop, Results
    <3>3. Scan(f)[o].events = <<>> /\ Scan(f)[o].valid = 0
      BY <2>1 DEF Stop
    <3>. QED  BY <1>0, <2>0, <3>1, <3>2, <3>3
  <2>2. CASE AtEnd(f, o)
    <3>1. Scan(f)[o] = Stop(N > o)
      BY <2>2, ScanCases
    <3>2. (N > o) \in BOOLEAN
      BY <1>0, <2>0, SMT
    <3>. HIDE DEF Fine, N
    <3>. QED  BY <2>1, <3>1, <3>2
  <2>3. CASE CutAt(f, o)
    <3>1. Scan(f)[o] = Stop(TRUE)
      BY <2>3, ScanCases
    <3>. HIDE DEF Fine
    <3>. QED  BY <2>1, <3>1
  <2>4. CASE DefectAt(f, o)
    <3>. DEFINE q == Jump(f, o)
    <3>1. q \in (o + 1)..N
      BY <2>4, JumpsAhead
    <3>2. Fine(q)
      BY <1>1, <3>1
    <3>3. Scan(f)[o] = [Scan(f)[q] EXCEPT !.corrupt = TRUE, !.valid = 0]
      BY <2>4, ScanCases DEF Corrupted
    <3>. HIDE DEF q
    <3>5. Scan(f)[q] \in Results
      BY <3>2
    <3>6. /\ Scan(f)[o] \in Results
          /\ Scan(f)[o].events = Scan(f)[q].events
          /\ Scan(f)[o].valid = 0
      <4>. DEFINE r == Scan(f)[q]
      <4>1. r \in Results /\ Scan(f)[o] = [r EXCEPT !.corrupt = TRUE, !.valid = 0]
        BY <3>3, <3>5
      <4>. HIDE DEF r
      <4>3. Scan(f)[o] = [events |-> r.events, corrupt |-> TRUE, torn |-> r.torn, valid |-> 0]
        BY ONLY <4>1 DEF Results
      <4>4. r.events \in Seq(Events) /\ r.torn \in BOOLEAN
        BY ONLY <4>1, Zenon DEF Results
      <4>2. /\ Scan(f)[o] \in Results
            /\ Scan(f)[o].events = r.events
            /\ Scan(f)[o].valid = 0
        BY ONLY <4>3, <4>4 DEF Results
      <4>. QED  BY <4>2 DEF r
    <3>4. Scan(f)[o] \in Results /\ Scan(f)[o].events = Scan(f)[q].events /\ Scan(f)[o].valid = 0
      BY <3>6
    <3>. QED  BY <1>0, <2>0, <3>2, <3>4
  <2>5. CASE WholeAt(f, o)
    <3>. DEFINE e == f[o + 1].of
                q == o + e.size
    <3>1. q \in (o + 1)..N
      BY <2>5, JumpsAhead
    <3>2. Fine(q)
      BY <1>1, <3>1
    <3>3. Scan(f)[o] = [Scan(f)[q] EXCEPT !.events = <<e>> \o @, !.valid = e.size + @]
      BY <2>5, ScanCases
    <3>4. e \in Events /\ e.size \in Nat /\ o + 1 \in DOMAIN f
      BY <2>5, CellAt DEF WholeAt
    <3>5. e \in Of(f)
      BY <3>4 DEF Of
    <3>6. q = o + e.size
      OBVIOUS
    <3>. HIDE DEF q, e
    <3>7. <<e>> \o Scan(f)[q].events \in Seq(Of(f)) /\ <<e>> \o Scan(f)[q].events \in Seq(Events)
      BY <3>2, <3>4, <3>5, OfEvents
    <3>8. e.size + Scan(f)[q].valid \in Nat /\ Scan(f)[q].valid \in Nat
      BY <3>2, <3>4 DEF Results
    <3>9. /\ Scan(f)[o] \in Results
          /\ Scan(f)[o].events = <<e>> \o Scan(f)[q].events
          /\ Scan(f)[o].valid = e.size + Scan(f)[q].valid
      BY <3>2, <3>3, <3>7, <3>8 DEF Results
    <3>10. Scan(f)[o].valid <= N - o
      <4>. HIDE DEF N
      <4>. QED  BY ONLY <1>0, <2>0, <3>1, <3>2, <3>4, <3>6, <3>8, <3>9
    <3>. QED  BY <3>7, <3>9, <3>10
  <2>. HIDE DEF Fine
  <2>. QED  BY <2>2, <2>3, <2>4, <2>5 DEF DefectAt
<1>2. \A o \in 0..N : o \in S
  <2>1. \A o \in 0..N : (\A q \in (o + 1)..N : q \in S) => o \in S
    <3>. HIDE DEF Fine
    <3>. QED  BY <1>1
  <2>. HIDE DEF S
  <2>. QED  BY <1>0, <2>1, FromTheEnd
<1>. QED  BY <1>2

(* What is read from an offset, field by field.                               *)
LEMMA Scanned ==
  ASSUME NEW f \in Seq(Cells), NEW o \in 0..Len(f)
  PROVE  /\ AtEnd(f, o) \/ CutAt(f, o) \/ DefectAt(f, o) \/ WholeAt(f, o)
         /\ AtEnd(f, o) =>
              /\ Scan(f)[o].events = <<>> /\ Scan(f)[o].corrupt = FALSE
              /\ Scan(f)[o].torn = (Len(f) > o) /\ Scan(f)[o].valid = 0
         /\ CutAt(f, o) =>
              /\ Scan(f)[o].events = <<>> /\ Scan(f)[o].corrupt = FALSE
              /\ Scan(f)[o].torn = TRUE /\ Scan(f)[o].valid = 0
         /\ DefectAt(f, o) =>
              /\ Jump(f, o) \in (o + 1)..Len(f)
              /\ Scan(f)[o].events = Scan(f)[Jump(f, o)].events
              /\ Scan(f)[o].corrupt = TRUE
         /\ WholeAt(f, o) =>
              LET q == o + f[o + 1].of.size
              IN /\ q \in (o + 1)..Len(f)
                 /\ Scan(f)[o].events = <<f[o + 1].of>> \o Scan(f)[q].events
                 /\ Scan(f)[o].corrupt = Scan(f)[q].corrupt
                 /\ Scan(f)[o].torn = Scan(f)[q].torn
                 /\ Scan(f)[o].valid = f[o + 1].of.size + Scan(f)[q].valid
<1>1. AtEnd(f, o) \/ CutAt(f, o) \/ DefectAt(f, o) \/ WholeAt(f, o)
  BY DEF DefectAt
<1>2. ASSUME NEW t, Scan(f)[o] = Stop(t)
      PROVE  /\ Scan(f)[o].events = <<>> /\ Scan(f)[o].corrupt = FALSE
             /\ Scan(f)[o].torn = t /\ Scan(f)[o].valid = 0
  BY <1>2 DEF Stop
<1>3. ASSUME DefectAt(f, o)
      PROVE  /\ Jump(f, o) \in (o + 1)..Len(f)
             /\ Scan(f)[o].events = Scan(f)[Jump(f, o)].events
             /\ Scan(f)[o].corrupt = TRUE
  <2>. DEFINE q == Jump(f, o)
  <2>1. q \in (o + 1)..Len(f) /\ q \in 0..Len(f)
    BY <1>3, JumpsAhead
  <2>2. Scan(f)[q] \in Results
    BY <2>1, ScanType
  <2>3. Scan(f)[o] = [Scan(f)[q] EXCEPT !.corrupt = TRUE, !.valid = 0]
    BY <1>3, ScanCases DEF Corrupted
  <2>. HIDE DEF q
  <2>4. Scan(f)[o].events = Scan(f)[q].events /\ Scan(f)[o].corrupt = TRUE
    BY <2>2, <2>3 DEF Results
  <2>. QED  BY <2>1, <2>4 DEF q
<1>4. ASSUME WholeAt(f, o)
      PROVE  LET q == o + f[o + 1].of.size
             IN /\ q \in (o + 1)..Len(f)
                /\ Scan(f)[o].events = <<f[o + 1].of>> \o Scan(f)[q].events
                /\ Scan(f)[o].corrupt = Scan(f)[q].corrupt
                /\ Scan(f)[o].torn = Scan(f)[q].torn
                /\ Scan(f)[o].valid = f[o + 1].of.size + Scan(f)[q].valid
  <2>. DEFINE e == f[o + 1].of
              q == o + e.size
  <2>1. q \in (o + 1)..Len(f) /\ q \in 0..Len(f)
    BY <1>4, JumpsAhead
  <2>2. Scan(f)[q] \in Results
    BY <2>1, ScanType
  <2>3. Scan(f)[o] = [Scan(f)[q] EXCEPT !.events = <<e>> \o @, !.valid = e.size + @]
    BY <1>4, ScanCases
  <2>. HIDE DEF q, e
  <2>4. /\ Scan(f)[o].events = <<e>> \o Scan(f)[q].events
        /\ Scan(f)[o].corrupt = Scan(f)[q].corrupt
        /\ Scan(f)[o].torn = Scan(f)[q].torn
        /\ Scan(f)[o].valid = e.size + Scan(f)[q].valid
    BY <2>2, <2>3 DEF Results
  <2>. QED  BY <2>1, <2>4 DEF q, e
<1>5. ASSUME AtEnd(f, o)
      PROVE  /\ Scan(f)[o].events = <<>> /\ Scan(f)[o].corrupt = FALSE
             /\ Scan(f)[o].torn = (Len(f) > o) /\ Scan(f)[o].valid = 0
  <2>1. Scan(f)[o] = Stop(Len(f) > o)
    BY <1>5, ScanCases
  <2>. QED  BY <1>2, <2>1
<1>6. ASSUME CutAt(f, o)
      PROVE  /\ Scan(f)[o].events = <<>> /\ Scan(f)[o].corrupt = FALSE
             /\ Scan(f)[o].torn = TRUE /\ Scan(f)[o].valid = 0
  <2>1. Scan(f)[o] = Stop(TRUE)
    BY <1>6, ScanCases
  <2>. QED  BY <1>2, <2>1
<1>. QED  BY <1>1, <1>3, <1>4, <1>5, <1>6

(* A whole record, cell by cell.                                              *)
LEMMA WholeIs ==
  ASSUME NEW f \in Seq(Cells), NEW o \in 0..Len(f), ~AtEnd(f, o),
         Len(f) - o >= f[o + 1].of.size
  PROVE  WholeAt(f, o) <=>
           /\ HeaderAt(f, o)
           /\ \A i \in 1..f[o + 1].of.size : f[o + i] = [of |-> f[o + 1].of, at |-> i]
<1>. DEFINE e == f[o + 1].of
            s == SubSeq(f, o + 1, o + e.size)
<1>1. Len(f) \in Nat /\ o \in Nat /\ e.size \in Nat /\ e.size >= 3
  BY CellAt
<1>2. s = [i \in 1..e.size |-> f[o + i]]
  <2>. HIDE DEF e
  <2>1. /\ DOMAIN s = 1..e.size
        /\ \A i \in 1..e.size : s[i] = f[o + i]
    <3>. DEFINE m == o + 1
                n == o + e.size
    <3>1. m \in Int /\ n \in Int /\ m <= n /\ n <= Len(f) /\ n - m + 1 = e.size
      BY <1>1 DEF e
    <3>2. \A i \in m..n : f[i] \in Cells
      <4>1. \A i \in m..n : i \in 1..Len(f)
        BY <1>1, <3>1
      <4>. QED  BY <4>1
    <3>3. \A i \in 1..e.size : m + i - 1 = o + i
      BY <1>1 DEF e
    <3>. HIDE DEF m, n
    <3>4. /\ SubSeq(f, m, n) \in Seq(Cells)
          /\ Len(SubSeq(f, m, n)) = e.size
          /\ \A i \in 1..e.size : SubSeq(f, m, n)[i] = f[m + i - 1]
      BY <3>1, <3>2, SubSeqProperties
    <3>5. /\ DOMAIN SubSeq(f, m, n) = 1..e.size
          /\ \A i \in 1..e.size : SubSeq(f, m, n)[i] = f[o + i]
      BY <3>3, <3>4
    <3>. QED  BY <3>5 DEF m, n
  <2>2. s = [i \in DOMAIN s |-> s[i]]
    BY <1>1
  <2>. HIDE DEF s
  <2>. QED  BY <2>1, <2>2
<1>3. s = Record(e) <=> \A i \in 1..e.size : f[o + i] = [of |-> e, at |-> i]
  <2>. HIDE DEF s, e
  <2>. QED  BY <1>2 DEF Record
<1>. QED  BY <1>1, <1>3 DEF WholeAt

(* A file and one it begins.                                                  *)
Agree(p, f) == Len(p) <= Len(f) /\ \A i \in 1..Len(p) : f[i] = p[i]

(* What a part of a file holds at an offset, the file holds there.            *)
LEMMA AgreeWhole ==
  ASSUME NEW p \in Seq(Cells), NEW f \in Seq(Cells), Agree(p, f),
         NEW o \in 0..Len(p), ~AtEnd(p, o)
  PROVE  /\ o \in 0..Len(f) /\ ~AtEnd(f, o)
         /\ f[o + 1] = p[o + 1] /\ f[o + 2] = p[o + 2]
         /\ HeaderAt(f, o) <=> HeaderAt(p, o)
         /\ Len(p) - o >= p[o + 1].of.size => (WholeAt(p, o) <=> WholeAt(f, o))
<1>. DEFINE e == p[o + 1].of
<1>1. /\ Len(p) \in Nat /\ Len(f) \in Nat /\ o \in Nat /\ o + 3 <= Len(p) /\ Len(p) <= Len(f)
      /\ e.size \in Nat /\ e.size >= 3
  BY CellAt DEF Agree
<1>2. o \in 0..Len(f) /\ ~AtEnd(f, o) /\ o + 1 \in 1..Len(p) /\ o + 2 \in 1..Len(p)
  BY <1>1 DEF AtEnd, MinRecord
<1>3. f[o + 1] = p[o + 1] /\ f[o + 2] = p[o + 2]
  BY <1>2 DEF Agree
<1>4. HeaderAt(f, o) <=> HeaderAt(p, o)
  BY <1>3 DEF HeaderAt
<1>5. ASSUME Len(p) - o >= e.size  PROVE  WholeAt(p, o) <=> WholeAt(f, o)
  <2>. HIDE DEF e
  <2>1. Len(f) - o >= e.size
    BY <1>1, <1>5
  <2>2. ASSUME NEW i \in 1..e.size  PROVE  f[o + i] = p[o + i]
    <3>1. o + i \in 1..Len(p)
      BY <1>1, <1>5
    <3>. QED  BY <3>1 DEF Agree
  <2>3. f[o + 1].of = e /\ p[o + 1].of = e
    BY <1>3 DEF e
  <2>4. WholeAt(p, o) <=> /\ HeaderAt(p, o)
                          /\ \A i \in 1..e.size : p[o + i] = [of |-> e, at |-> i]
    BY <1>5, WholeIs DEF e
  <2>5. WholeAt(f, o) <=> /\ HeaderAt(f, o)
                          /\ \A i \in 1..e.size : f[o + i] = [of |-> e, at |-> i]
    <3>1. Len(f) - o >= f[o + 1].of.size
      BY <2>1, <2>3
    <3>2. WholeAt(f, o) <=>
            /\ HeaderAt(f, o)
            /\ \A i \in 1..f[o + 1].of.size : f[o + i] = [of |-> f[o + 1].of, at |-> i]
      BY <1>2, <3>1, WholeIs
    <3>. QED  BY <2>3, <3>2
  <2>. QED  BY <1>4, <2>2, <2>4, <2>5
<1>. QED  BY <1>2, <1>3, <1>4, <1>5

(* Joining logs is associative.                                               *)
LEMMA EventsJoin ==
  \A s, t, u \in Seq(Events) : s \o t \in Seq(Events) /\ (s \o t) \o u = s \o (t \o u)
<1>. SUFFICES ASSUME NEW s \in Seq(Events), NEW t \in Seq(Events), NEW u \in Seq(Events)
              PROVE  s \o t \in Seq(Events) /\ (s \o t) \o u = s \o (t \o u)
  OBVIOUS
<1>. HIDE DEF Events
<1>1. s \o t \in Seq(Events)
  BY ConcatProperties
<1>2. (s \o t) \o u = s \o (t \o u)
  BY ConcatAssociative
<1>. QED  BY <1>1, <1>2

(* A file that begins with a whole log reads as that log, then as the rest.   *)
LEMMA ReadOn ==
  ASSUME NEW p \in Seq(Cells), NEW f \in Seq(Cells), Agree(p, f)
  PROVE  \A o \in 0..Len(p) :
           ~Scan(p)[o].corrupt /\ ~Scan(p)[o].torn =>
             /\ Scan(p)[o].valid = Len(p) - o
             /\ Scan(f)[o].events = Scan(p)[o].events \o Scan(f)[Len(p)].events
             /\ Scan(f)[o].corrupt = Scan(f)[Len(p)].corrupt
             /\ Scan(f)[o].torn = Scan(f)[Len(p)].torn
             /\ Scan(f)[o].valid = Len(p) - o + Scan(f)[Len(p)].valid
<1>. DEFINE N == Len(p)
            Fine(o) ==
              ~Scan(p)[o].corrupt /\ ~Scan(p)[o].torn =>
                /\ Scan(p)[o].valid = N - o
                /\ Scan(f)[o].events = Scan(p)[o].events \o Scan(f)[N].events
                /\ Scan(f)[o].corrupt = Scan(f)[N].corrupt
                /\ Scan(f)[o].torn = Scan(f)[N].torn
                /\ Scan(f)[o].valid = N - o + Scan(f)[N].valid
            S == {o \in 0..N : Fine(o)}
<1>0. N \in Nat /\ N \in 0..Len(f) /\ Len(f) \in Nat
  BY DEF Agree
<1>1. \A o \in 0..N : o \in 0..Len(f)
  BY <1>0
<1>2. \A o \in 0..N : /\ Scan(p)[o] \in Results /\ Scan(f)[o] \in Results
                      /\ Scan(p)[o].events \in Seq(Events) /\ Scan(f)[o].events \in Seq(Events)
                      /\ Scan(p)[o].valid \in Nat /\ Scan(f)[o].valid \in Nat
  <2>1. \A o \in 0..N : Scan(p)[o] \in Results /\ Scan(f)[o] \in Results
    BY <1>1, ScanType
  <2>. QED  BY <2>1 DEF Results
<1>3. ASSUME NEW o \in 0..N, \A q \in (o + 1)..N : q \in S,
             ~Scan(p)[o].corrupt, ~Scan(p)[o].torn
      PROVE  /\ Scan(p)[o].valid = N - o
             /\ Scan(f)[o].events = Scan(p)[o].events \o Scan(f)[N].events
             /\ Scan(f)[o].corrupt = Scan(f)[N].corrupt
             /\ Scan(f)[o].torn = Scan(f)[N].torn
             /\ Scan(f)[o].valid = N - o + Scan(f)[N].valid
  <2>0. o \in Nat /\ o <= N
    OBVIOUS
  <2>1. CASE AtEnd(p, o)
    <3>4. Scan(p)[o].events = <<>> /\ Scan(p)[o].valid = 0 /\ Scan(p)[o].torn = (N > o)
      BY <2>1, Scanned
    <3>5. ~(N > o)
      BY <1>3, <3>4
    <3>1. o = N /\ Scan(p)[o].events = <<>> /\ Scan(p)[o].valid = 0
      BY <1>0, <2>0, <3>4, <3>5
    <3>2. <<>> \o Scan(f)[N].events = Scan(f)[N].events
      BY <1>0, <1>2
    <3>3. N - N = 0 /\ N - N + Scan(f)[N].valid = Scan(f)[N].valid
      BY <1>0, <1>2
    <3>. QED  BY <3>1, <3>2, <3>3
  <2>2. CASE WholeAt(p, o)
    <3>. DEFINE e == p[o + 1].of
                q == o + e.size
    <3>1. ~AtEnd(p, o) /\ N - o >= e.size
      BY <2>2 DEF WholeAt
    <3>2. /\ e \in Events /\ e.size \in Nat /\ o \in 0..Len(f)
          /\ f[o + 1].of = e /\ WholeAt(f, o)
      BY <2>2, <3>1, CellAt, AgreeWhole
    <3>3. /\ q \in (o + 1)..N
          /\ Scan(p)[o].events = <<e>> \o Scan(p)[q].events
          /\ Scan(p)[o].corrupt = Scan(p)[q].corrupt
          /\ Scan(p)[o].torn = Scan(p)[q].torn
          /\ Scan(p)[o].valid = e.size + Scan(p)[q].valid
      BY <2>2, Scanned
    <3>4. /\ Scan(f)[o].events = <<e>> \o Scan(f)[q].events
          /\ Scan(f)[o].corrupt = Scan(f)[q].corrupt
          /\ Scan(f)[o].torn = Scan(f)[q].torn
          /\ Scan(f)[o].valid = e.size + Scan(f)[q].valid
      BY <3>2, Scanned
    <3>5. q = o + e.size
      OBVIOUS
    <3>. HIDE DEF q, e
    <3>6. q \in S
      BY <1>3, <3>3
    <3>7. /\ Scan(p)[q].valid = N - q
          /\ Scan(f)[q].events = Scan(p)[q].events \o Scan(f)[N].events
          /\ Scan(f)[q].corrupt = Scan(f)[N].corrupt
          /\ Scan(f)[q].torn = Scan(f)[N].torn
          /\ Scan(f)[q].valid = N - q + Scan(f)[N].valid
      BY <1>3, <3>3, <3>6
    <3>8. <<e>> \o (Scan(p)[q].events \o Scan(f)[N].events)
            = (<<e>> \o Scan(p)[q].events) \o Scan(f)[N].events
      <4>1. q \in 0..N /\ <<e>> \in Seq(Events)
        BY <2>0, <3>2, <3>3
      <4>2. Scan(p)[q].events \in Seq(Events) /\ Scan(f)[N].events \in Seq(Events)
        BY <1>0, <1>2, <4>1
      <4>. QED  BY <4>1, <4>2, EventsJoin
    <3>9. Scan(p)[o].valid = N - o
      <4>. HIDE DEF N
      <4>. QED  BY ONLY <1>0, <2>0, <3>2, <3>3, <3>5, <3>7
    <3>10. Scan(f)[o].valid = N - o + Scan(f)[N].valid
      <4>1. Scan(f)[N].valid \in Nat
        BY <1>0, <1>2
      <4>. HIDE DEF N
      <4>. QED  BY ONLY <1>0, <2>0, <3>2, <3>4, <3>5, <3>7, <4>1
    <3>. QED  BY <3>3, <3>4, <3>7, <3>8, <3>9, <3>10
  <2>3. CASE CutAt(p, o) \/ DefectAt(p, o)
    <3>1. Scan(p)[o].torn = TRUE \/ Scan(p)[o].corrupt = TRUE
      BY <2>3, Scanned
    <3>. QED  BY <1>3, <3>1
  <2>. QED  BY <2>1, <2>2, <2>3 DEF DefectAt
<1>4. \A o \in 0..N : o \in S
  <2>1. \A o \in 0..N : (\A q \in (o + 1)..N : q \in S) => o \in S
    BY <1>3
  <2>. HIDE DEF S
  <2>. QED  BY <1>0, <2>1, FromTheEnd
<1>. QED  BY <1>4

(* The part of a file before its first defect is a whole log with the same    *)
(* events.                                                                    *)
LEMMA CutOff ==
  ASSUME NEW f \in Seq(Cells), NEW p \in Seq(Cells), Agree(p, f)
  PROVE  \A o \in 0..Len(p) :
           ~Scan(f)[o].corrupt /\ o + Scan(f)[o].valid = Len(p) =>
             /\ Scan(p)[o].events = Scan(f)[o].events
             /\ Scan(p)[o].corrupt = FALSE /\ Scan(p)[o].torn = FALSE
<1>. DEFINE N == Len(p)
            Fine(o) ==
              ~Scan(f)[o].corrupt /\ o + Scan(f)[o].valid = N =>
                /\ Scan(p)[o].events = Scan(f)[o].events
                /\ Scan(p)[o].corrupt = FALSE /\ Scan(p)[o].torn = FALSE
            S == {o \in 0..N : Fine(o)}
<1>0. N \in Nat /\ N \in 0..Len(f) /\ Len(f) \in Nat
  BY DEF Agree
<1>1. \A o \in 0..N : o \in 0..Len(f)
  BY <1>0
<1>2. \A o \in 0..Len(f) : Scan(f)[o].valid \in Nat
  BY ScanType DEF Results
<1>3. ASSUME NEW o \in 0..N, \A q \in (o + 1)..N : q \in S,
             ~Scan(f)[o].corrupt, o + Scan(f)[o].valid = N
      PROVE  /\ Scan(p)[o].events = Scan(f)[o].events
             /\ Scan(p)[o].corrupt = FALSE /\ Scan(p)[o].torn = FALSE
  <2>0. o \in Nat /\ o <= N /\ o \in 0..Len(f)
    BY <1>1
  <2>1. CASE AtEnd(f, o) \/ CutAt(f, o)
    <3>1. Scan(f)[o].events = <<>> /\ Scan(f)[o].valid = 0
      BY <2>0, <2>1, Scanned
    <3>2. o = N
      BY <1>3, <2>0, <3>1
    <3>3. AtEnd(p, o)
      BY <1>0, <3>2 DEF AtEnd, MinRecord
    <3>4. Scan(p)[o].events = <<>> /\ Scan(p)[o].corrupt = FALSE /\ Scan(p)[o].torn = (N > o)
      BY <3>3, Scanned
    <3>5. (N > o) = FALSE
      BY <1>0, <3>2
    <3>. QED  BY <3>1, <3>4, <3>5
  <2>2. CASE WholeAt(f, o)
    <3>. DEFINE e == f[o + 1].of
                q == o + e.size
    <3>1. ~AtEnd(f, o)
      BY <2>2 DEF WholeAt
    <3>2. e \in Events /\ e.size \in Nat /\ e.size >= 3
      BY <2>0, <3>1, CellAt
    <3>3. /\ q \in (o + 1)..Len(f)
          /\ Scan(f)[o].events = <<e>> \o Scan(f)[q].events
          /\ Scan(f)[o].corrupt = Scan(f)[q].corrupt
          /\ Scan(f)[o].valid = e.size + Scan(f)[q].valid
      BY <2>0, <2>2, Scanned
    <3>4. Scan(f)[q].valid \in Nat
      BY <1>2, <2>0, <3>3
    <3>10. q = o + e.size
      OBVIOUS
    <3>. HIDE DEF q, e
    <3>5. q + Scan(f)[q].valid = N /\ q \in (o + 1)..N
      <4>. HIDE DEF N
      <4>. QED  BY ONLY <3>10, <1>0, <1>3, <2>0, <3>2, <3>3, <3>4
    <3>6. ~AtEnd(p, o) /\ N - o >= e.size
      BY ONLY <3>10, <1>0, <2>0, <3>2, <3>4, <3>5 DEF AtEnd, MinRecord
    <3>7. p[o + 1].of = e /\ WholeAt(p, o)
      <4>1. p[o + 1] = f[o + 1]
        BY <3>6, AgreeWhole
      <4>2. N - o >= p[o + 1].of.size
        BY <3>6, <4>1 DEF e
      <4>. QED  BY <2>2, <3>6, <4>1, <4>2, AgreeWhole DEF e
    <3>8. /\ Scan(p)[o].events = <<e>> \o Scan(p)[q].events
          /\ Scan(p)[o].corrupt = Scan(p)[q].corrupt
          /\ Scan(p)[o].torn = Scan(p)[q].torn
      BY <3>7, Scanned DEF q
    <3>9. q \in S
      BY <1>3, <3>5
    <3>. QED  BY <1>3, <3>3, <3>5, <3>8, <3>9
  <2>3. CASE DefectAt(f, o)
    BY <1>3, <2>0, <2>3, Scanned
  <2>. QED  BY <2>1, <2>2, <2>3 DEF DefectAt
<1>4. \A o \in 0..N : o \in S
  <2>1. \A o \in 0..N : (\A q \in (o + 1)..N : q \in S) => o \in S
    BY <1>3
  <2>. HIDE DEF S
  <2>. QED  BY <1>0, <2>1, FromTheEnd
<1>. QED  BY <1>4

(* f is b and the first n cells of e's record.                                *)
Grown(b, f, e, n) ==
  /\ Len(f) = Len(b) + n /\ Agree(b, f)
  /\ \A i \in 1..n : f[Len(b) + i] = [of |-> e, at |-> i]

(* The cells of the record that is being written read as nothing, or as the   *)
(* event once all of them are there.                                          *)
LEMMA ReadTail ==
  ASSUME NEW b \in Seq(Cells), NEW f \in Seq(Cells), NEW e \in Events,
         NEW n \in 0..e.size, Grown(b, f, e, n)
  PROVE  /\ Scan(f)[Len(b)].events = IF n = e.size THEN <<e>> ELSE <<>>
         /\ Scan(f)[Len(b)].corrupt = FALSE
         /\ Scan(f)[Len(b)].torn <=> 0 < n /\ n < e.size
         /\ \A o \in (Len(b) + 1)..Len(f) : Scan(f)[o].events = <<>>
<1>. DEFINE B == Len(b)
            N == Len(f)
<1>0. /\ B \in Nat /\ n \in Nat /\ e.size \in Nat /\ e.size >= 3 /\ n <= e.size
      /\ N \in Nat /\ N = B + n /\ B \in 0..N
  <2>1. e.size \in Nat /\ e.size >= 3
    BY DEF Events, MinRecord
  <2>. QED  BY <2>1 DEF Grown
<1>1. ASSUME NEW o \in B..N, o < N  PROVE  f[o + 1] = [of |-> e, at |-> o + 1 - B]
  <2>1. o + 1 - B \in 1..n /\ B + (o + 1 - B) = o + 1
    BY <1>0, <1>1
  <2>. QED  BY <2>1 DEF Grown
<1>2. ASSUME NEW o \in B..N, o < N  PROVE  f[o + 1].of = e /\ f[o + 1].at = o + 1 - B
  <2>1. f[o + 1] = [of |-> e, at |-> o + 1 - B]
    BY <1>1, <1>2
  <2>. QED  BY ONLY <2>1
<1>3. \A o \in (B + 1)..N : Scan(f)[o].events = <<>>
  <2>. DEFINE Fine(o) == o > B => Scan(f)[o].events = <<>>
              S == {o \in 0..N : Fine(o)}
  <2>1. ASSUME NEW o \in 0..N, o > B, \A q \in (o + 1)..N : q \in S
        PROVE  Scan(f)[o].events = <<>>
    <3>0. o \in Nat /\ o <= N /\ o \in B..N
      BY <1>0, <2>1
    <3>1. CASE AtEnd(f, o) \/ CutAt(f, o)
      BY <3>1, Scanned
    <3>2. CASE WholeAt(f, o)
      <4>1. ~AtEnd(f, o) /\ HeaderAt(f, o)
        BY <3>2 DEF WholeAt
      <4>2. o < N
        BY <4>1, CellAt
      <4>3. f[o + 1].at = o + 1 - B /\ f[o + 1].at = 1
        BY <1>2, <3>0, <4>1, <4>2 DEF HeaderAt
      <4>. QED  BY <1>0, <2>1, <3>0, <4>3
    <3>3. CASE DefectAt(f, o)
      <4>1. Jump(f, o) \in (o + 1)..N /\ Scan(f)[o].events = Scan(f)[Jump(f, o)].events
        BY <3>3, Scanned
      <4>2. Jump(f, o) > B
        BY <1>0, <2>1, <3>0, <4>1
      <4>3. Jump(f, o) \in S
        BY <2>1, <4>1
      <4>. QED  BY <4>1, <4>2, <4>3
    <3>. QED  BY <3>1, <3>2, <3>3 DEF DefectAt
  <2>2. \A o \in 0..N : (\A q \in (o + 1)..N : q \in S) => o \in S
    BY <2>1
  <2>. HIDE DEF S
  <2>3. \A o \in 0..N : o \in S
    BY <1>0, <2>2, FromTheEnd
  <2>. USE DEF S
  <2>4. \A o \in (B + 1)..N : o \in 0..N /\ o > B
    BY <1>0
  <2>. QED  BY <2>3, <2>4
<1>4. CASE AtEnd(f, B)
  <2>1. n < 3
    BY <1>0, <1>4 DEF AtEnd, MinRecord
  <2>2. Scan(f)[B].events = <<>> /\ Scan(f)[B].corrupt = FALSE /\ Scan(f)[B].torn = (N > B)
    BY <1>0, <1>4, Scanned
  <2>3. (N > B <=> 0 < n /\ n < e.size) /\ n # e.size
    BY <1>0, <2>1
  <2>. QED  BY <1>3, <2>2, <2>3
<1>5. CASE ~AtEnd(f, B)
  <2>1. n >= 3
    BY <1>0, <1>5 DEF AtEnd, MinRecord
  <2>2. B + 1 \in B..N /\ B \in B..N /\ B < N /\ B + 1 < N
    BY <1>0, <2>1
  <2>3. /\ f[B + 1].of = e /\ f[B + 1].at = 1
        /\ f[B + 2].of = e /\ f[B + 2].at = 2
    <3>1. f[B + 1].of = e /\ f[B + 1].at = B + 1 - B
      BY <1>2, <2>2
    <3>2. f[B + 1 + 1].of = e /\ f[B + 1 + 1].at = B + 1 + 1 - B
      BY <1>2, <2>2
    <3>. QED  BY <1>0, <3>1, <3>2
  <2>4. HeaderAt(f, B)
    BY <2>3 DEF HeaderAt
  <2>5. N - B = n
    BY <1>0
  <2>6. CASE n < e.size
    <3>1. CutAt(f, B)
      BY <1>5, <2>3, <2>4, <2>5, <2>6 DEF CutAt
    <3>2. Scan(f)[B].events = <<>> /\ Scan(f)[B].corrupt = FALSE /\ Scan(f)[B].torn = TRUE
      BY <1>0, <3>1, Scanned
    <3>3. n # e.size /\ 0 < n
      BY <1>0, <2>1, <2>6
    <3>. QED  BY <1>3, <2>6, <3>2, <3>3
  <2>7. CASE n = e.size
    <3>1. \A i \in 1..e.size : f[B + i] = [of |-> e, at |-> i]
      BY <2>7 DEF Grown
    <3>2. WholeAt(f, B)
      <4>1. N - B >= f[B + 1].of.size
        BY <1>0, <2>3, <2>5, <2>7
      <4>. QED  BY <1>0, <1>5, <2>3, <2>4, <3>1, <4>1, WholeIs
    <3>3. B + e.size = N
      BY <1>0, <2>7
    <3>4. /\ Scan(f)[B].events = <<e>> \o Scan(f)[N].events
          /\ Scan(f)[B].corrupt = Scan(f)[N].corrupt
          /\ Scan(f)[B].torn = Scan(f)[N].torn
      <4>. DEFINE q == B + f[B + 1].of.size
      <4>1. /\ Scan(f)[B].events = <<f[B + 1].of>> \o Scan(f)[q].events
            /\ Scan(f)[B].corrupt = Scan(f)[q].corrupt
            /\ Scan(f)[B].torn = Scan(f)[q].torn
        BY <1>0, <3>2, Scanned
      <4>2. q = N
        BY <2>3, <3>3
      <4>. HIDE DEF q
      <4>. QED  BY <2>3, <4>1, <4>2
    <3>5. AtEnd(f, N) /\ N \in 0..N
      BY <1>0 DEF AtEnd, MinRecord
    <3>6. Scan(f)[N].events = <<>> /\ Scan(f)[N].corrupt = FALSE /\ Scan(f)[N].torn = (N > N)
      BY <3>5, Scanned
    <3>7. ~(N > N) /\ ~(n < e.size)
      BY <1>0, <2>7
    <3>8. <<e>> \o <<>> = <<e>>
      OBVIOUS
    <3>9. ~Scan(f)[B].torn /\ ~(0 < n /\ n < e.size)
      BY <3>4, <3>6, <3>7
    <3>10. Scan(f)[B].events = <<e>> /\ Scan(f)[B].corrupt = FALSE
      BY <3>4, <3>6, <3>8
    <3>11. Scan(f)[B].events = IF n = e.size THEN <<e>> ELSE <<>>
      BY <2>7, <3>10
    <3>12. Scan(f)[B].torn <=> 0 < n /\ n < e.size
      BY <3>9
    <3>. HIDE DEF B, N
    <3>13. \A o \in (B + 1)..N : Scan(f)[o].events = <<>>
      BY <1>3
    <3>14. Scan(f)[B].corrupt = FALSE
      BY <3>10
    <3>. QED  BY ONLY <3>11, <3>12, <3>13, <3>14 DEF B, N
  <2>8. n < e.size \/ n = e.size
    BY <1>0
  <2>. QED  BY ONLY <2>6, <2>7, <2>8, Zenon
<1>. QED  BY <1>4, <1>5

(* Writing a record after any file, whatever defects it has, reads as that    *)
(* file did, with the new event at the end at most.                           *)
LEMMA Growth ==
  ASSUME NEW b \in Seq(Cells), NEW f \in Seq(Cells), NEW e \in Events,
         NEW n \in 1..e.size, Grown(b, f, e, n), \A i \in DOMAIN b : b[i].of # e
  PROVE  \A o \in 0..Len(b) :
           \/ Scan(f)[o].events = Scan(b)[o].events
           \/ n = e.size /\ Scan(f)[o].events = Scan(b)[o].events \o <<e>>
<1>. DEFINE B == Len(b)
            N == Len(f)
            Fine(o) == \/ Scan(f)[o].events = Scan(b)[o].events
                       \/ n = e.size /\ Scan(f)[o].events = Scan(b)[o].events \o <<e>>
            S == {o \in 0..B : Fine(o)}
<1>0. /\ B \in Nat /\ n \in Nat /\ e.size \in Nat /\ e.size >= 3 /\ n <= e.size /\ 1 <= n
      /\ N \in Nat /\ N = B + n /\ B \in 0..N /\ n \in 0..e.size /\ Agree(b, f)
  <2>1. e.size \in Nat /\ e.size >= 3
    BY DEF Events, MinRecord
  <2>. QED  BY <2>1 DEF Grown
<1>1. \A o \in 0..B : o \in 0..N
  BY <1>0
<1>2. f[B + 1] = [of |-> e, at |-> 1]
  BY <1>0 DEF Grown
<1>3. f[B + 1].of = e /\ f[B + 1].at = 1
  BY ONLY <1>2
<1>4. \A o \in (B + 1)..N : Scan(f)[o].events = <<>>
  BY <1>0, ReadTail
<1>5. ASSUME NEW o \in 0..B, Scan(b)[o].events = <<>>, Scan(f)[o].events = <<>>
      PROVE  Fine(o)
  BY <1>5
<1>6. Fine(B)
  <2>1. AtEnd(b, B) /\ B \in 0..B
    BY <1>0 DEF AtEnd, MinRecord
  <2>2. Scan(b)[B].events = <<>>
    BY <2>1, Scanned
  <2>3. Scan(f)[B].events = IF n = e.size THEN <<e>> ELSE <<>>
    BY <1>0, ReadTail
  <2>4. <<>> \o <<e>> = <<e>>
    OBVIOUS
  <2>. QED  BY <2>2, <2>3, <2>4
(* A record that the end of b cuts reads as nothing in f too.                 *)
<1>7. ASSUME NEW o \in 0..B, o < B, HeaderAt(f, o), ~AtEnd(f, o),
             B - o < f[o + 1].of.size
      PROVE  Scan(f)[o].events = <<>>
  <2>. DEFINE x == f[o + 1].of
  <2>0. /\ o \in Nat /\ o \in 0..N /\ x.size \in Nat /\ x.size >= 3
    BY <1>1, <1>7, CellAt
  <2>5. B - o < x.size /\ o < B /\ B \in Nat
    BY <1>0, <1>7
  <2>1. x # e
    <3>1. o + 1 \in 1..B
      BY <1>0, <1>7, <2>0
    <3>2. f[o + 1] = b[o + 1] /\ o + 1 \in DOMAIN b
      BY <1>0, <3>1 DEF Agree
    <3>. QED  BY <3>2
  <2>2. ~WholeAt(f, o)
    <3>. SUFFICES ASSUME WholeAt(f, o)  PROVE  FALSE
      OBVIOUS
    <3>1. N - o >= x.size
      BY DEF WholeAt
    <3>2. \A i \in 1..x.size : f[o + i] = [of |-> x, at |-> i]
      BY <1>7, <2>0, <3>1, WholeIs
    <3>3. B + 1 - o \in 1..x.size /\ o + (B + 1 - o) = B + 1
      <4>. HIDE DEF x, B
      <4>. QED  BY ONLY <2>0, <2>5
    <3>4. f[B + 1] = [of |-> x, at |-> B + 1 - o]
      BY <3>2, <3>3
    <3>5. f[B + 1].of = x
      BY ONLY <3>4
    <3>. QED  BY <1>3, <2>1, <3>5
  <2>3. CASE CutAt(f, o)
    BY <2>0, <2>3, Scanned
  <2>4. CASE DefectAt(f, o)
    <3>1. Scan(f)[o].events = Scan(f)[o + x.size].events /\ o + x.size \in (o + 1)..N
      <4>1. Jump(f, o) = o + x.size
        BY <1>7 DEF Jump
      <4>. HIDE DEF x
      <4>2. /\ Jump(f, o) \in (o + 1)..N
            /\ Scan(f)[o].events = Scan(f)[Jump(f, o)].events
        BY <2>0, <2>4, Scanned
      <4>. QED  BY <4>1, <4>2
    <3>2. o + x.size \in (B + 1)..N
      <4>. HIDE DEF x, B, N
      <4>. QED  BY ONLY <2>0, <2>5, <3>1
    <3>. QED  BY <1>4, <3>1, <3>2
  <2>. QED  BY <1>7, <2>2, <2>3, <2>4 DEF DefectAt
(* The next magic of b is that of f, where the new record begins if b has     *)
(* none.                                                                      *)
<1>8. ASSUME NEW o \in 0..B, o < B
      PROVE  NextMagic(f, o) = NextMagic(b, o)
  <2>. DEFINE q == NextMagic(b, o)
  <2>0. o \in Nat /\ o \in 0..N /\ o < N
    BY <1>0, <1>8
  <2>1. q \in (o + 1)..B /\ IsMagic(b, o, q)
    BY <1>8, NextMagicIs
  <2>. HIDE DEF q
  <2>2. q \in (o + 1)..N /\ q \in Nat /\ q <= B
    BY <1>0, <2>0, <2>1
  <2>3. f[q + 1].at = 1
    <3>1. CASE q = B
      BY <1>3, <3>1
    <3>2. CASE q # B
      <4>1. q + 1 \in 1..B
        BY <1>0, <2>2, <3>2
      <4>2. f[q + 1] = b[q + 1]
        BY <1>0, <4>1 DEF Agree
      <4>. QED  BY <2>1, <3>2, <4>2 DEF IsMagic
    <3>. QED  BY <3>1, <3>2
  <2>4. ASSUME NEW j \in (o + 1)..(q - 1)  PROVE  f[j + 1].at # 1
    <3>1. j + 1 \in 1..B
      BY <1>0, <2>0, <2>2
    <3>2. f[j + 1] = b[j + 1]
      BY <1>0, <3>1 DEF Agree
    <3>. QED  BY <2>1, <3>2 DEF IsMagic
  <2>5. IsMagic(f, o, q)
    BY <2>3, <2>4 DEF IsMagic
  <2>6. q = NextMagic(f, o)
    BY <2>0, <2>2, <2>5, NextMagicIs
  <2>. QED  BY <2>6 DEF q
<1>9. ASSUME NEW o \in 0..B, o < B, \A q \in (o + 1)..B : q \in S  PROVE  Fine(o)
  <2>0. o \in Nat /\ o \in 0..N /\ o < N
    BY <1>0, <1>9
  <2>1. CASE AtEnd(b, o)
    <3>1. Scan(b)[o].events = <<>> /\ B - o < 3
      BY <2>1, Scanned DEF AtEnd, MinRecord
    <3>2. CASE AtEnd(f, o) \/ CutAt(f, o)
      <4>1. Scan(f)[o].events = <<>>
        BY <2>0, <3>2, Scanned
      <4>. QED  BY <3>1, <4>1
    <3>3. CASE ~AtEnd(f, o) /\ HeaderAt(f, o)
      <4>. DEFINE z == f[o + 1].of.size
      <4>1. z \in Nat /\ z >= 3
        BY <2>0, <3>3, CellAt
      <4>. HIDE DEF z
      <4>2. B - o < z
        BY <1>0, <2>0, <3>1, <4>1
      <4>3. B - o < f[o + 1].of.size
        BY <4>2 DEF z
      <4>4. Scan(f)[o].events = <<>>
        BY <1>7, <1>9, <3>3, <4>3
      <4>. QED  BY <3>1, <4>4
    <3>4. CASE ~AtEnd(f, o) /\ ~HeaderAt(f, o)
      <4>. DEFINE q == NextMagic(b, o)
      <4>1. DefectAt(f, o) /\ Jump(f, o) = NextMagic(f, o)
        BY <3>4 DEF DefectAt, CutAt, WholeAt, Jump
      <4>2. q \in (o + 1)..B /\ Jump(f, o) = q
        BY <1>8, <1>9, <4>1, NextMagicIs
      <4>. HIDE DEF q
      <4>3. Scan(f)[o].events = Scan(f)[q].events
        BY <2>0, <4>1, <4>2, Scanned
      <4>4. q \in 0..B /\ Fine(q)
        BY <1>9, <4>2
      <4>5. AtEnd(b, q)
        BY <1>0, <2>0, <2>1, <4>2 DEF AtEnd, MinRecord
      <4>6. Scan(b)[q].events = <<>>
        BY <4>4, <4>5, Scanned
      <4>. QED  BY <3>1, <4>3, <4>4, <4>6
    <3>. QED  BY <3>2, <3>3, <3>4
  <2>2. CASE ~AtEnd(b, o)
    <3>. DEFINE x == f[o + 1].of
    <3>1. /\ ~AtEnd(f, o) /\ b[o + 1].of = x /\ (HeaderAt(f, o) <=> HeaderAt(b, o))
          /\ B - o >= x.size => (WholeAt(b, o) <=> WholeAt(f, o))
          /\ x \in Events /\ x.size \in Nat
      <4>1. /\ ~AtEnd(f, o) /\ f[o + 1] = b[o + 1] /\ (HeaderAt(f, o) <=> HeaderAt(b, o))
            /\ B - o >= b[o + 1].of.size => (WholeAt(b, o) <=> WholeAt(f, o))
        BY <1>0, <2>2, AgreeWhole
      <4>. QED  BY <2>0, <4>1, CellAt
    <3>. HIDE DEF x
    <3>2. CASE CutAt(b, o)
      <4>1. HeaderAt(f, o) /\ B - o < f[o + 1].of.size
        BY <3>1, <3>2 DEF CutAt, x
      <4>2. Scan(f)[o].events = <<>>
        BY <1>7, <1>9, <3>1, <4>1
      <4>3. Scan(b)[o].events = <<>>
        BY <3>2, Scanned
      <4>. QED  BY <4>2, <4>3
    <3>3. CASE WholeAt(b, o)
      <4>. DEFINE q == o + x.size
      <4>1. WholeAt(f, o)
        BY <3>1, <3>3 DEF WholeAt
      <4>2. q \in (o + 1)..B /\ Scan(b)[o].events = <<x>> \o Scan(b)[q].events
        BY <3>1, <3>3, Scanned
      <4>3. Scan(f)[o].events = <<x>> \o Scan(f)[q].events
        BY <2>0, <4>1, Scanned DEF x
      <4>. HIDE DEF q
      <4>4. q \in 0..B /\ Fine(q)
        BY <1>9, <4>2
      <4>5. <<x>> \o (Scan(b)[q].events \o <<e>>) = (<<x>> \o Scan(b)[q].events) \o <<e>>
        <5>1. Scan(b)[q] \in Results
          BY <4>4, ScanType
        <5>2. Scan(b)[q].events \in Seq(Events) /\ <<x>> \in Seq(Events) /\ <<e>> \in Seq(Events)
          BY <3>1, <5>1 DEF Results
        <5>. QED  BY <5>2, EventsJoin
      <4>. QED  BY <4>2, <4>3, <4>4, <4>5
    <3>4. CASE DefectAt(b, o)
      <4>. DEFINE q == Jump(b, o)
      <4>1. DefectAt(f, o) /\ Jump(f, o) = q
        <5>1. CASE HeaderAt(b, o)
          <6>1. ~(B - o < x.size) /\ ~WholeAt(b, o)
            BY <3>1, <3>4, <5>1 DEF DefectAt, CutAt
          <6>2. B - o >= x.size /\ N - o >= x.size /\ ~(N - o < x.size)
            BY <1>0, <2>0, <3>1, <6>1
          <6>3. DefectAt(f, o)
            BY <3>1, <6>1, <6>2 DEF DefectAt, CutAt, x
          <6>. QED  BY <3>1, <5>1, <6>3 DEF Jump, x
        <5>2. CASE ~HeaderAt(b, o)
          <6>1. DefectAt(f, o)
            BY <3>1, <5>2 DEF DefectAt, CutAt, WholeAt
          <6>. QED  BY <1>8, <1>9, <3>1, <5>2, <6>1 DEF Jump
        <5>. QED  BY <5>1, <5>2
      <4>2. q \in (o + 1)..B /\ Scan(b)[o].events = Scan(b)[q].events
        BY <3>4, Scanned
      <4>3. Scan(f)[o].events = Scan(f)[q].events
        <5>. HIDE DEF q
        <5>1. Scan(f)[o].events = Scan(f)[Jump(f, o)].events
          BY <2>0, <4>1, Scanned
        <5>. QED  BY <4>1, <5>1
      <4>. HIDE DEF q
      <4>4. Fine(q)
        BY <1>9, <4>2
      <4>. QED  BY <4>2, <4>3, <4>4
    <3>. QED  BY <2>2, <3>2, <3>3, <3>4 DEF DefectAt
  <2>. QED  BY <2>1, <2>2
<1>10. \A o \in 0..B : o \in S
  <2>1. \A o \in 0..B : (\A q \in (o + 1)..B : q \in S) => o \in S
    <3>. SUFFICES ASSUME NEW o \in 0..B, \A q \in (o + 1)..B : q \in S  PROVE  Fine(o)
      OBVIOUS
    <3>1. CASE o = B
      <4>. HIDE DEF Fine
      <4>. QED  BY <1>6, <3>1
    <3>2. CASE o < B
      <4>. HIDE DEF Fine, S
      <4>. QED  BY <1>9, <3>2
    <3>3. o = B \/ o < B
      BY <1>0
    <3>. QED  BY <3>1, <3>2, <3>3
  <2>. HIDE DEF S
  <2>. QED  BY <1>0, <2>1, FromTheEnd
<1>. QED  BY <1>10

-----------------------------------------------------------------------------
(* What the log's calls use of it.                                            *)

Read(f) == Replay(f).events
Clean(f) == ~Replay(f).corrupt /\ ~Replay(f).torn

(* What replay returns, and that it reads only what is in the file.           *)
LEMMA ReadType ==
  ASSUME NEW f \in Seq(Cells)
  PROVE  /\ Read(f) \in Seq(Of(f)) /\ Read(f) \in Seq(Events)
         /\ Replay(f).corrupt \in BOOLEAN /\ Replay(f).torn \in BOOLEAN
         /\ Replay(f).valid \in 0..Len(f)
<1>1. 0 \in 0..Len(f) /\ Len(f) \in Nat
  OBVIOUS
<1>2. /\ Scan(f)[0] \in Results /\ Scan(f)[0].events \in Seq(Of(f))
      /\ Scan(f)[0].valid <= Len(f) - 0
  BY <1>1, ScanType
<1>3. Replay(f) = Scan(f)[0]
  BY ReplayIsScan
<1>4. Replay(f) \in Results /\ Replay(f).events \in Seq(Of(f)) /\ Replay(f).valid <= Len(f)
  BY <1>1, <1>2, <1>3
<1>5. /\ Replay(f).valid \in Nat /\ Replay(f).events \in Seq(Events)
      /\ Replay(f).corrupt \in BOOLEAN /\ Replay(f).torn \in BOOLEAN
  BY <1>4, Zenon DEF Results
<1>. QED  BY <1>1, <1>4, <1>5 DEF Read

(* A log without a defect stays readable whatever follows it.                 *)
LEMMA ReadPrefix ==
  ASSUME NEW p \in Seq(Cells), NEW f \in Seq(Cells), Agree(p, f), Clean(p)
  PROVE  /\ \E rest \in Seq(Events) : Read(f) = Read(p) \o rest
         /\ Replay(f).valid >= Len(p)
<1>1. 0 \in 0..Len(p) /\ Len(p) \in 0..Len(f) /\ Len(p) \in Nat
  BY DEF Agree
<1>2. Replay(f) = Scan(f)[0] /\ Replay(p) = Scan(p)[0]
  BY ReplayIsScan
<1>3. ~Scan(p)[0].corrupt /\ ~Scan(p)[0].torn
  BY <1>2 DEF Clean
<1>4. /\ Scan(f)[0].events = Scan(p)[0].events \o Scan(f)[Len(p)].events
      /\ Scan(f)[0].valid = Len(p) - 0 + Scan(f)[Len(p)].valid
  BY <1>1, <1>3, ReadOn
<1>5. Scan(f)[Len(p)] \in Results
  BY <1>1, ScanType
<1>6. Scan(f)[Len(p)].events \in Seq(Events) /\ Scan(f)[Len(p)].valid \in Nat
  BY <1>5 DEF Results
<1>7. Replay(f).valid >= Len(p)
  <2>1. Replay(f).valid = Len(p) - 0 + Scan(f)[Len(p)].valid
    BY <1>2, <1>4
  <2>. QED  BY ONLY <1>1, <1>6, <2>1
<1>8. Read(f) = Read(p) \o Scan(f)[Len(p)].events
  BY <1>2, <1>4 DEF Read
<1>. QED  BY <1>6, <1>7, <1>8

(* Startup keeps every event that can be read, and removes the only defect of *)
(* a log that is not corrupt.                                                 *)
LEMMA RecoveredReads ==
  ASSUME NEW f \in Seq(Cells)
  PROVE  /\ Recovered(f) \in Seq(Cells) /\ Agree(Recovered(f), f)
         /\ Read(Recovered(f)) = Read(f)
         /\ ~Replay(f).corrupt => Clean(Recovered(f))
         /\ \A p \in Seq(Cells) : Agree(p, f) /\ Clean(p) => Agree(p, Recovered(f))
<1>. DEFINE v == Replay(f).valid
<1>0. v \in 0..Len(f) /\ Len(f) \in Nat /\ v \in Nat /\ v <= Len(f)
  BY ReadType
<1>1. CASE ~(Replay(f).torn /\ ~Replay(f).corrupt)
  <2>1. Recovered(f) = f
    BY <1>1 DEF Recovered
  <2>2. Agree(f, f)
    BY <1>0 DEF Agree
  <2>. QED  BY <1>1, <2>1, <2>2 DEF Clean
<1>2. CASE Replay(f).torn /\ ~Replay(f).corrupt
  <2>. DEFINE p == SubSeq(f, 1, v)
  <2>1. Recovered(f) = p
    BY <1>2 DEF Recovered
  <2>2. p \in Seq(Cells) /\ Len(p) = v /\ \A i \in 1..v : p[i] = f[i]
    <3>. HIDE DEF v
    <3>1. \A i \in 1..v : f[i] \in Cells
      BY <1>0
    <3>2. 1 \in Int /\ v \in Int /\ v - 1 + 1 = v /\ (1 <= v \/ v = 0)
      BY <1>0
    <3>3. /\ p \in Seq(Cells) /\ Len(p) = IF 1 <= v THEN v - 1 + 1 ELSE 0
          /\ \A i \in 1..(v - 1 + 1) : p[i] = f[1 + i - 1]
      BY <3>1, <3>2, SubSeqProperties
    <3>4. \A i \in 1..v : 1 + i - 1 = i
      BY <1>0
    <3>5. Len(p) = v
      BY <3>2, <3>3
    <3>. QED  BY <3>2, <3>3, <3>4, <3>5
  <2>. HIDE DEF p
  <2>3. Agree(p, f)
    BY <1>0, <2>2 DEF Agree
  <2>4. Replay(f) = Scan(f)[0] /\ Replay(p) = Scan(p)[0]
    BY ReplayIsScan
  <2>5. 0 \in 0..Len(p) /\ 0 + Scan(f)[0].valid = Len(p) /\ ~Scan(f)[0].corrupt
    BY <1>0, <1>2, <2>2, <2>4
  <2>6. Scan(p)[0].events = Scan(f)[0].events /\ Scan(p)[0].corrupt = FALSE /\ Scan(p)[0].torn = FALSE
    BY <2>2, <2>3, <2>5, CutOff
  <2>7. Read(p) = Read(f) /\ Clean(p)
    BY <2>4, <2>6 DEF Read, Clean
  <2>8. ASSUME NEW q \in Seq(Cells), Agree(q, f), Clean(q)  PROVE  Agree(q, p)
    <3>1. Len(q) <= v /\ Len(q) \in Nat
      BY <2>8, ReadPrefix
    <3>2. \A i \in 1..Len(q) : i \in 1..v
      BY <1>0, <3>1
    <3>. HIDE DEF v
    <3>. QED  BY <2>2, <2>8, <3>1, <3>2 DEF Agree
  <2>. QED  BY <2>1, <2>2, <2>3, <2>7, <2>8
<1>. QED  BY <1>1, <1>2

(* A record written after b, partly or whole.                                 *)
LEMMA WrittenReads ==
  ASSUME NEW b \in Seq(Cells), NEW f \in Seq(Cells), NEW e \in Events,
         NEW n \in 0..e.size, Grown(b, f, e, n), \A x \in Of(b) : x # e
  PROVE  /\ Read(f) = Read(b) \/ (n = e.size /\ Read(f) = Read(b) \o <<e>>)
         /\ Clean(b) => ~Replay(f).corrupt
         /\ Clean(b) /\ n = e.size => Clean(f) /\ Read(f) = Read(b) \o <<e>>
<1>0. e.size \in Nat /\ e.size >= 3
  BY DEF Events, MinRecord
<1>1. Replay(f) = Scan(f)[0] /\ Replay(b) = Scan(b)[0] /\ 0 \in 0..Len(b) /\ Agree(b, f)
  BY ReplayIsScan DEF Grown
<1>2. Read(f) = Read(b) \/ (n = e.size /\ Read(f) = Read(b) \o <<e>>)
  <2>1. CASE n = 0
    <3>1. Len(f) = Len(b) /\ \A i \in 1..Len(f) : f[i] = b[i]
      BY <2>1 DEF Grown, Agree
    <3>2. f = b
      BY <3>1, SeqEqual
    <3>. QED  BY <3>2
  <2>2. CASE n # 0
    <3>1. n \in 1..e.size
      BY <1>0, <2>2
    <3>2. \A i \in DOMAIN b : b[i].of # e
      BY DEF Of
    <3>3. \/ Scan(f)[0].events = Scan(b)[0].events
          \/ n = e.size /\ Scan(f)[0].events = Scan(b)[0].events \o <<e>>
      BY <1>1, <3>1, <3>2, Growth
    <3>. QED  BY <1>1, <3>3 DEF Read
  <2>. QED  BY <2>1, <2>2
<1>3. ASSUME Clean(b)
      PROVE  /\ Replay(f).corrupt = Scan(f)[Len(b)].corrupt
             /\ Replay(f).torn = Scan(f)[Len(b)].torn
             /\ Read(f) = Read(b) \o Scan(f)[Len(b)].events
  <2>1. ~Scan(b)[0].corrupt /\ ~Scan(b)[0].torn
    BY <1>1, <1>3 DEF Clean
  <2>. QED  BY <1>1, <2>1, ReadOn DEF Read
<1>4. /\ Scan(f)[Len(b)].events = IF n = e.size THEN <<e>> ELSE <<>>
      /\ Scan(f)[Len(b)].corrupt = FALSE
      /\ Scan(f)[Len(b)].torn <=> 0 < n /\ n < e.size
  BY ReadTail
<1>5. n = e.size => ~(n < e.size)
  BY <1>0
<1>. QED  BY <1>2, <1>3, <1>4, <1>5 DEF Clean

-----------------------------------------------------------------------------
(* Compaction.                                                                *)

Joined(events) ==
  CHOOSE joined : joined =
    [n \in 0..Len(events) |->
       IF n = 0 THEN <<>> ELSE joined[n - 1] \o Record(events[n])]

(* Records joins the records one by one.                                      *)
LEMMA JoinedSteps ==
  ASSUME NEW events \in Seq(Events)
  PROVE  /\ Records(events) = Joined(events)[Len(events)]
         /\ Joined(events)[0] = <<>>
         /\ \A n \in 1..Len(events) :
              Joined(events)[n] = Joined(events)[n - 1] \o Record(events[n])
<1>. DEFINE N == Len(events)
            Body(g, n) == IF n = 0 THEN <<>> ELSE g[n - 1] \o Record(events[n])
            Joins(k, g) == \A n \in 0..N : n <= k => g[n] = Body(g, n)
            T == {k \in Nat : \E g : Joins(k, g)}
<1>0. N \in Nat
  OBVIOUS
<1>1. 0 \in T
  <2>. DEFINE g == [n \in 0..N |-> <<>>]
  <2>1. ASSUME NEW n \in 0..N, n <= 0  PROVE  g[n] = Body(g, n)
    <3>1. n = 0
      BY <1>0, <2>1
    <3>2. g[n] = <<>>
      OBVIOUS
    <3>3. Body(g, n) = <<>>
      BY <3>1
    <3>. QED  BY <3>2, <3>3
  <2>2. Joins(0, g)
    BY <2>1
  <2>. QED  BY <2>2
<1>2. ASSUME NEW k \in Nat, k \in T  PROVE  k + 1 \in T
  <2>1. PICK g : Joins(k, g)
    BY <1>2
  <2>. DEFINE h == [n \in 0..N |-> IF n <= k THEN g[n] ELSE Body(g, n)]
  <2>2. ASSUME NEW n \in 0..N, n <= k + 1  PROVE  h[n] = Body(h, n)
    <3>1. CASE n = 0
      <4>1. n <= k
        BY <3>1
      <4>. QED  BY <2>1, <3>1, <4>1
    <3>2. CASE n # 0
      <4>1. n - 1 \in 0..N /\ n - 1 <= k
        BY <1>0, <2>2, <3>2
      <4>2. h[n - 1] = g[n - 1]
        BY <4>1
      <4>3. h[n] = Body(g, n)
        BY <2>1
      <4>. HIDE DEF h
      <4>. QED  BY <3>2, <4>2, <4>3
    <3>. QED  BY <3>1, <3>2
  <2>. HIDE DEF h
  <2>3. Joins(k + 1, h)
    BY <2>2
  <2>. QED  BY <2>3
<1>. HIDE DEF T
<1>3. N \in T
  BY <1>0, <1>1, <1>2, SetInduction
<1>4. PICK g : Joins(N, g)
  BY <1>3 DEF T
<1>. DEFINE h == [n \in 0..N |-> g[n]]
<1>5. ASSUME NEW n \in 0..N  PROVE  h[n] = Body(h, n)
  <2>1. n <= N
    BY <1>0
  <2>2. g[n] = Body(g, n)
    BY <1>4, <2>1
  <2>3. CASE n = 0
    BY <2>2, <2>3
  <2>4. CASE n # 0
    <3>1. n - 1 \in 0..N
      BY <1>0, <2>4
    <3>2. h[n - 1] = g[n - 1] /\ h[n] = g[n]
      BY <3>1
    <3>. HIDE DEF h
    <3>. QED  BY <2>2, <2>4, <3>2
  <2>. QED  BY <2>3, <2>4
<1>6. h = [n \in 0..N |-> Body(h, n)]
  <2>1. h = [n \in 0..N |-> h[n]]
    OBVIOUS
  <2>. HIDE DEF h, Body
  <2>. QED  BY <1>5, <2>1
<1>7. Joined(events) = [n \in 0..N |-> Body(Joined(events), n)]
  <2>. HIDE DEF h
  <2>. QED  BY <1>6 DEF Joined
<1>8. Records(events) = Joined(events)[N]
  BY DEF Records, Joined
<1>. DEFINE J == Joined(events)
<1>9. ASSUME NEW n \in 0..N  PROVE  J[n] = Body(J, n)
  <2>1. J = [i \in 0..N |-> Body(J, i)]
    BY <1>7
  <2>. HIDE DEF J, Body
  <2>. QED  BY <2>1
<1>10. J[0] = <<>>
  <2>1. 0 \in 0..N
    BY <1>0
  <2>2. J[0] = Body(J, 0)
    BY <1>9, <2>1
  <2>. HIDE DEF J
  <2>. QED  BY <2>2
<1>11. ASSUME NEW n \in 1..N  PROVE  J[n] = J[n - 1] \o Record(events[n])
  <2>1. n \in 0..N /\ n # 0
    BY <1>0
  <2>2. J[n] = Body(J, n)
    BY <1>9, <2>1
  <2>. HIDE DEF J
  <2>. QED  BY <2>1, <2>2
<1>. QED  BY <1>8, <1>10, <1>11

(* A record's cells, and those of the records of several events.              *)
LEMMA RecordCells ==
  ASSUME NEW e \in Events
  PROVE  /\ Record(e) \in Seq(Cells) /\ Len(Record(e)) = e.size /\ e.size \in Nat /\ e.size >= 3
         /\ \A i \in 1..e.size : Record(e)[i] = [of |-> e, at |-> i]
<1>1. e.size \in Nat /\ e.size >= 3
  BY DEF Events, MinRecord
<1>2. \A i \in 1..e.size : [of |-> e, at |-> i] \in Cells
  BY <1>1 DEF Cells
<1>3. Record(e) \in [1..e.size -> Cells]
  <2>. HIDE DEF Cells, Events
  <2>. QED  BY <1>2 DEF Record
<1>4. Record(e) \in Seq(Cells) /\ Len(Record(e)) = e.size
  <2>. HIDE DEF Cells, Events
  <2>. QED  BY <1>1, <1>3
<1>. QED  BY <1>1, <1>4 DEF Record

(* What two files joined hold.                                                *)
LEMMA CellsJoin ==
  \A s, t \in Seq(Cells) :
    /\ s \o t \in Seq(Cells)
    /\ Len(s \o t) = Len(s) + Len(t)
    /\ \A i \in 1..(Len(s) + Len(t)) :
         (s \o t)[i] = IF i <= Len(s) THEN s[i] ELSE t[i - Len(s)]
<1>. HIDE DEF Cells
<1>. QED  BY ConcatProperties

(* A file of records holds their events, and ends with the last one.          *)
LEMMA RecordsCells ==
  ASSUME NEW events \in Seq(Events)
  PROVE  /\ Records(events) \in Seq(Cells)
         /\ \A x \in Of(Records(events)) : \E i \in 1..Len(events) : x = events[i]
         /\ events # <<>> => /\ Records(events) # <<>>
                             /\ Records(events)[Len(Records(events))].of = events[Len(events)]
<1>. DEFINE N == Len(events)
            J == Joined(events)
            Good(n) ==
              /\ J[n] \in Seq(Cells)
              /\ \A x \in Of(J[n]) : \E i \in 1..N : x = events[i]
              /\ n > 0 => J[n] # <<>> /\ J[n][Len(J[n])].of = events[n]
            T == {n \in Nat : n <= N => Good(n)}
<1>0. N \in Nat
  OBVIOUS
<1>1. 0 \in T
  <2>1. J[0] = <<>>
    BY JoinedSteps
  <2>2. J[0] \in Seq(Cells) /\ Of(J[0]) = {}
    <3>1. <<>> \in Seq(Cells) /\ Of(<<>>) = {}
      BY DEF Of
    <3>. QED  BY <2>1, <3>1
  <2>. HIDE DEF J
  <2>3. Good(0)
    BY <2>2
  <2>. HIDE DEF Good
  <2>. QED  BY <2>3
<1>2. ASSUME NEW k \in Nat, k \in T  PROVE  k + 1 \in T
  <2>. SUFFICES ASSUME k + 1 <= N  PROVE  Good(k + 1)
    OBVIOUS
  <2>1. k + 1 \in 1..N /\ k + 1 - 1 = k /\ k <= N
    BY <1>0
  <2>. DEFINE r == Record(events[k + 1])
  <2>2. J[k + 1] = J[k] \o r
    <3>1. \A n \in 1..N : J[n] = J[n - 1] \o Record(events[n])
      BY JoinedSteps
    <3>2. \A n \in 1..N : n = k + 1 => n - 1 = k
      BY <1>0
    <3>. HIDE DEF N, J
    <3>3. \A n \in 1..N : n = k + 1 => J[n] = J[k] \o Record(events[n])
      BY <3>1, <3>2
    <3>. QED  BY <2>1, <3>3
  <2>3. Good(k)
    BY <1>2, <2>1
  <2>4. events[k + 1] \in Events
    BY <2>1
  <2>5. /\ r \in Seq(Cells) /\ Len(r) = events[k + 1].size /\ Len(r) \in Nat /\ Len(r) >= 3
        /\ \A i \in 1..Len(r) : r[i] = [of |-> events[k + 1], at |-> i]
    BY <2>4, RecordCells
  <2>6. \A i \in 1..Len(r) : r[i].of = events[k + 1]
    <3>. HIDE DEF r
    <3>. SUFFICES ASSUME NEW i \in 1..Len(r)  PROVE  r[i].of = events[k + 1]
      OBVIOUS
    <3>1. r[i] = [of |-> events[k + 1], at |-> i]
      BY <2>5
    <3>. QED  BY ONLY <3>1
  <2>. HIDE DEF r, J
  <2>7. /\ J[k + 1] \in Seq(Cells)
        /\ Len(J[k + 1]) = Len(J[k]) + Len(r)
        /\ \A i \in 1..(Len(J[k]) + Len(r)) :
             J[k + 1][i] = IF i <= Len(J[k]) THEN J[k][i] ELSE r[i - Len(J[k])]
    <3>1. J[k] \in Seq(Cells) /\ r \in Seq(Cells)
      BY <2>3, <2>5
    <3>. QED  BY <2>2, <3>1, CellsJoin
  <2>8. Len(J[k]) \in Nat /\ DOMAIN J[k] = 1..Len(J[k]) /\ DOMAIN J[k + 1] = 1..(Len(J[k]) + Len(r))
    BY <2>3, <2>7
  <2>9. ASSUME NEW i \in DOMAIN J[k + 1]
        PROVE  J[k + 1][i].of \in Of(J[k]) \/ J[k + 1][i].of = events[k + 1]
    <3>1. CASE i <= Len(J[k])
      <4>1. i \in DOMAIN J[k] /\ J[k + 1][i] = J[k][i]
        BY <2>5, <2>7, <2>8, <3>1
      <4>. QED  BY <4>1 DEF Of
    <3>2. CASE ~(i <= Len(J[k]))
      <4>1. i - Len(J[k]) \in 1..Len(r) /\ J[k + 1][i] = r[i - Len(J[k])]
        <5>1. i \in 1..(Len(J[k]) + Len(r))
          BY <2>8
        <5>2. i - Len(J[k]) \in 1..Len(r)
          BY ONLY <2>5, <2>8, <3>2, <5>1
        <5>. QED  BY <2>7, <3>2, <5>1, <5>2
      <4>. QED  BY <2>6, <4>1
    <3>. QED  BY <3>1, <3>2
  <2>10. \A x \in Of(J[k + 1]) : \E i \in 1..N : x = events[i]
    <3>. SUFFICES ASSUME NEW j \in DOMAIN J[k + 1]  PROVE  \E i \in 1..N : J[k + 1][j].of = events[i]
      BY DEF Of
    <3>. QED  BY <2>1, <2>3, <2>9
  <2>11. J[k + 1] # <<>> /\ J[k + 1][Len(J[k + 1])].of = events[k + 1]
    <3>. DEFINE m == Len(J[k]) + Len(r)
    <3>1. m \in 1..m /\ m # 0 /\ ~(m <= Len(J[k])) /\ m - Len(J[k]) = Len(r) /\ Len(r) \in 1..Len(r)
      BY <2>5, <2>8
    <3>2. J[k + 1][m] = r[Len(r)]
      BY <2>7, <3>1
    <3>3. J[k + 1] # <<>>
      BY <2>7, <3>1
    <3>. QED  BY <2>6, <2>7, <3>1, <3>2, <3>3
  <2>. QED  BY <2>7, <2>10, <2>11
<1>3. Good(N)
  <2>1. N \in T
    <3>. HIDE DEF T
    <3>. QED  BY <1>0, <1>1, <1>2, SetInduction
  <2>. QED  BY <1>0, <2>1
<1>4. Records(events) = J[N]
  BY JoinedSteps
<1>5. events # <<>> => N > 0
  BY <1>0
<1>. HIDE DEF J
<1>. QED  BY <1>3, <1>4, <1>5

(* The events a compaction keeps are those no later one overrides, in order,  *)
(* each with its fields but the schema.                                       *)
LEMMA KeptPlaces ==
  ASSUME NEW events \in Seq(Events)
  PROVE  /\ Kept(events) \in Seq(Events)
         /\ \E at \in [1..Len(Kept(events)) -> 1..Len(events)] :
              /\ \A n \in 1..Len(Kept(events)) :
                   /\ ~Redundant(events, at[n])
                   /\ Kept(events)[n].kind = events[at[n]].kind
                   /\ Kept(events)[n].key = events[at[n]].key
                   /\ Kept(events)[n].id = events[at[n]].id
                   /\ Kept(events)[n].serial = events[at[n]].serial
              /\ \A n, m \in 1..Len(Kept(events)) : n < m => at[n] < at[m]
              /\ \A i \in 1..Len(events) :
                   ~Redundant(events, i) => \E n \in 1..Len(Kept(events)) : at[n] = i
<1>. DEFINE I == {i \in DOMAIN events : ~Redundant(events, i)}
            c == Cardinality(I)
            kept == Picked(events, I)
            K == Kept(events)
<1>1. I \in SUBSET DOMAIN events /\ DOMAIN events = 1..Len(events)
  OBVIOUS
<1>. HIDE DEF I
<1>2. /\ c \in Nat /\ kept \in Seq(Events) /\ Len(kept) = c /\ DOMAIN kept = 1..c
      /\ \A n \in 1..c : Place(I, n) \in I /\ kept[n] = events[Place(I, n)]
      /\ \A n, m \in 1..c : n < m => Place(I, n) < Place(I, m)
      /\ \A i \in I : \E n \in 1..c : Place(I, n) = i
  <2>. HIDE DEF Events
  <2>. QED  BY <1>1, PickedPlaces
<1>3. K = [n \in 1..c |-> [kept[n] EXCEPT !.schema = 2]]
  BY <1>2 DEF Kept, I
<1>4. ASSUME NEW n \in 1..c
      PROVE  /\ [kept[n] EXCEPT !.schema = 2] \in Events
             /\ [kept[n] EXCEPT !.schema = 2].kind = kept[n].kind
             /\ [kept[n] EXCEPT !.schema = 2].key = kept[n].key
             /\ [kept[n] EXCEPT !.schema = 2].id = kept[n].id
             /\ [kept[n] EXCEPT !.schema = 2].serial = kept[n].serial
  <2>1. kept[n] \in Events
    BY <1>2
  <2>. HIDE DEF kept
  <2>. QED  BY <2>1 DEF Events
<1>5. K \in Seq(Events) /\ Len(K) = c
  <2>1. K \in [1..c -> Events]
    <3>. HIDE DEF kept, c, K, Events
    <3>. QED  BY <1>3, <1>4
  <2>. HIDE DEF K, c, Events
  <2>. QED  BY <1>2, <2>1
<1>. DEFINE at == [n \in 1..c |-> Place(I, n)]
<1>6. /\ at \in [1..c -> I]
      /\ \A n \in 1..c : at[n] \in I /\ kept[n] = events[at[n]]
      /\ \A n, m \in 1..c : n < m => at[n] < at[m]
      /\ \A i \in I : \E n \in 1..c : at[n] = i
  <2>1. \A n \in 1..c : at[n] = Place(I, n)
    OBVIOUS
  <2>2. at \in [1..c -> I]
    <3>. HIDE DEF kept, c
    <3>. QED  BY <1>2
  <2>. HIDE DEF at, kept, c
  <2>. QED  BY <1>2, <2>1, <2>2
<1>. HIDE DEF at
<1>7. at \in [1..c -> 1..Len(events)]
  BY <1>1, <1>6
<1>8. ASSUME NEW n \in 1..c
      PROVE  /\ ~Redundant(events, at[n])
             /\ K[n].kind = events[at[n]].kind
             /\ K[n].key = events[at[n]].key
             /\ K[n].id = events[at[n]].id
             /\ K[n].serial = events[at[n]].serial
  <2>1. K[n] = [kept[n] EXCEPT !.schema = 2]
    <3>. HIDE DEF K, kept, c
    <3>. QED  BY <1>3
  <2>2. at[n] \in I /\ kept[n] = events[at[n]]
    BY <1>6
  <2>3. ~Redundant(events, at[n])
    BY <2>2 DEF I
  <2>. HIDE DEF K, kept
  <2>. QED  BY <1>4, <2>1, <2>2, <2>3
<1>9. \A i \in 1..Len(events) : ~Redundant(events, i) => \E n \in 1..c : at[n] = i
  BY <1>1, <1>6 DEF I
<1>. HIDE DEF K, c, kept
<1>10. /\ K \in Seq(Events)
       /\ \E a \in [1..Len(K) -> 1..Len(events)] :
            /\ \A n \in 1..Len(K) :
                 /\ ~Redundant(events, a[n])
                 /\ K[n].kind = events[a[n]].kind
                 /\ K[n].key = events[a[n]].key
                 /\ K[n].id = events[a[n]].id
                 /\ K[n].serial = events[a[n]].serial
            /\ \A n, m \in 1..Len(K) : n < m => a[n] < a[m]
            /\ \A i \in 1..Len(events) :
                 ~Redundant(events, i) => \E n \in 1..Len(K) : a[n] = i
  <2>1. at \in [1..Len(K) -> 1..Len(events)]
    BY <1>5, <1>7
  <2>2. /\ \A n \in 1..Len(K) :
             /\ ~Redundant(events, at[n])
             /\ K[n].kind = events[at[n]].kind
             /\ K[n].key = events[at[n]].key
             /\ K[n].id = events[at[n]].id
             /\ K[n].serial = events[at[n]].serial
        /\ \A n, m \in 1..Len(K) : n < m => at[n] < at[m]
        /\ \A i \in 1..Len(events) :
             ~Redundant(events, i) => \E n \in 1..Len(K) : at[n] = i
    BY <1>5, <1>6, <1>8, <1>9
  <2>. QED  BY <1>5, <2>1, <2>2
<1>. QED  BY <1>10 DEF K

(* e stands in a log with these events; no other event of its number there is *)
(* about anything else.                                                       *)
StandsIn(e, events) ==
  \E i \in 1..Len(events) :
    \/ events[i].serial = e.serial
    \/ events[i].serial > e.serial /\ Overrides(events[i], e)
SameIn(e, events) ==
  \A i \in 1..Len(events) :
    events[i].serial = e.serial => events[i].kind = e.kind /\ events[i].key = e.key

SerialsUp(events) ==
  \A i, j \in 1..Len(events) : i < j => events[i].serial < events[j].serial

(* Compaction keeps an event or a later one that overrides it: the last of    *)
(* those is overridden by nothing.                                            *)
LEMMA KeptStands ==
  ASSUME NEW E \in Seq(Events), NEW a \in Seq(Events), NEW e \in Events, e.kind \in Kinds,
         SerialsUp(E), StandsIn(e, E), SameIn(e, E)
  PROVE  StandsIn(e, Kept(E) \o a) /\ SameIn(e, Kept(E))
<1>. DEFINE For(i) == \/ E[i].serial = e.serial
                      \/ E[i].serial > e.serial /\ Overrides(E[i], e)
            X == {i \in 1..Len(E) : For(i)}
            K == Kept(E)
<1>0. /\ Len(E) \in Nat /\ e.serial \in Nat
      /\ \A i \in 1..Len(E) : E[i] \in Events /\ E[i].serial \in Nat
  <2>1. \A i \in 1..Len(E) : E[i] \in Events
    OBVIOUS
  <2>. QED  BY <2>1 DEF Events
<1>1. X \in SUBSET (0..Len(E)) /\ X # {}
  <2>1. PICK i \in 1..Len(E) : For(i)
    BY DEF StandsIn
  <2>2. i \in X
    BY <2>1
  <2>3. \A j \in 1..Len(E) : j \in 0..Len(E)
    BY <1>0
  <2>. HIDE DEF For
  <2>. QED  BY <2>2, <2>3
<1>2. PICK m \in X : \A i \in X : i <= m
  <2>. HIDE DEF X
  <2>. QED  BY <1>0, <1>1, HasLargest
<1>3. m \in 1..Len(E) /\ For(m)
  OBVIOUS
<1>4. E[m].kind # "marker"
  BY <1>3 DEF SameIn, Overrides, Kinds
<1>5. ASSUME NEW j \in (m + 1)..Len(E), Overrides(E[j], E[m])  PROVE  FALSE
  <2>1. j \in 1..Len(E) /\ j > m
    BY <1>0, <1>3
  <2>2. E[m].serial < E[j].serial
    BY <1>3, <2>1 DEF SerialsUp
  <2>3. E[j].serial > e.serial
    <3>1. E[m].serial >= e.serial
      BY <1>0, <1>3
    <3>. QED  BY <1>0, <1>3, <2>1, <2>2, <3>1
  <2>4. Overrides(E[j], e)
    <3>1. CASE E[m].serial = e.serial
      <4>1. E[m].kind = e.kind /\ E[m].key = e.key
        BY <1>3, <3>1 DEF SameIn
      <4>. QED  BY <1>5, <4>1 DEF Overrides
    <3>2. CASE Overrides(E[m], e)
      BY <1>5, <3>2 DEF Overrides
    <3>. QED  BY <1>3, <3>1, <3>2
  <2>5. j \in X
    BY <2>1, <2>3, <2>4
  <2>. QED  BY <1>0, <1>2, <1>3, <2>1, <2>5
<1>6. ~Redundant(E, m)
  BY <1>4, <1>5 DEF Redundant
<1>7. K \in Seq(Events)
  BY KeptPlaces
<1>8. PICK at \in [1..Len(K) -> 1..Len(E)] :
         /\ \A n \in 1..Len(K) :
              /\ ~Redundant(E, at[n])
              /\ K[n].kind = E[at[n]].kind
              /\ K[n].key = E[at[n]].key
              /\ K[n].id = E[at[n]].id
              /\ K[n].serial = E[at[n]].serial
         /\ \A n, k \in 1..Len(K) : n < k => at[n] < at[k]
         /\ \A i \in 1..Len(E) :
              ~Redundant(E, i) => \E n \in 1..Len(K) : at[n] = i
  BY KeptPlaces
<1>. HIDE DEF K, X
<1>9. PICK n \in 1..Len(K) : at[n] = m
  BY <1>3, <1>6, <1>8
<1>10. /\ Len(K \o a) = Len(K) + Len(a) /\ Len(K) \in Nat /\ Len(a) \in Nat
       /\ (K \o a)[n] = K[n] /\ n \in 1..Len(K \o a)
  <2>1. Len(K \o a) = Len(K) + Len(a) /\ Len(K) \in Nat /\ Len(a) \in Nat
    BY <1>7
  <2>. HIDE DEF Events
  <2>. QED  BY <1>7, <2>1, ConcatProperties
<1>11. K[n].serial = E[m].serial /\ K[n].kind = E[m].kind /\ K[n].key = E[m].key
  BY <1>8, <1>9
<1>12. StandsIn(e, K \o a)
  BY <1>3, <1>10, <1>11 DEF StandsIn, Overrides
<1>13. SameIn(e, K)
  <2>1. \A i \in 1..Len(K) : at[i] \in 1..Len(E)
    BY <1>8
  <2>. QED  BY <1>8, <2>1 DEF SameIn
<1>. QED  BY <1>12, <1>13 DEF K

(* The last of its kind about its key, and the parts of a projection.         *)
LastIn(events, i) ==
  \A j \in (i + 1)..Len(events) :
    ~(events[j].kind = events[i].kind /\ events[j].key = events[i].key)
DeepIn(events, k) ==
  \E i \in 1..Len(events) : events[i].kind \in {"deep"} /\ events[i].key = k
Latest(events) ==
  {n \in 1..Len(events) : events[n].kind \in {"latest", "deep"} /\ LastIn(events, n)}
Shallow(events) ==
  {n \in 1..Len(events) : /\ events[n].kind \in {"shallow"} /\ LastIn(events, n)
                          /\ ~DeepIn(events, events[n].key)}

(* A projection depends on nothing but the events that can be read.           *)
LEMMA ProjectionIs ==
  \A f : Projection(f) = [latest |-> {Read(f)[i].serial : i \in Latest(Read(f))},
                          shallow |-> {Read(f)[i].serial : i \in Shallow(Read(f))}]
BY DEF Projection, Read, Latest, Shallow, LastIn, DeepIn

(* Compaction keeps what a projection shows, and adds nothing to it.          *)
LEMMA KeptProjects ==
  ASSUME NEW E \in Seq(Events), NEW a \in Seq(Events),
         \A i \in 1..Len(a) : a[i].kind \in {"migrated", "marker"}
  PROVE  LET G == Kept(E) \o a
         IN /\ {G[n].serial : n \in Latest(G)} = {E[i].serial : i \in Latest(E)}
            /\ {G[n].serial : n \in Shallow(G)} = {E[i].serial : i \in Shallow(E)}
<1>. DEFINE K == Kept(E)
            G == K \o a
            Shown == {"deep", "shallow", "latest"}
<1>0. Len(E) \in Nat
  OBVIOUS
<1>1. K \in Seq(Events)
  BY KeptPlaces
<1>2. PICK at \in [1..Len(K) -> 1..Len(E)] :
         /\ \A n \in 1..Len(K) :
              /\ ~Redundant(E, at[n])
              /\ K[n].kind = E[at[n]].kind
              /\ K[n].key = E[at[n]].key
              /\ K[n].id = E[at[n]].id
              /\ K[n].serial = E[at[n]].serial
         /\ \A n, k \in 1..Len(K) : n < k => at[n] < at[k]
         /\ \A i \in 1..Len(E) :
              ~Redundant(E, i) => \E n \in 1..Len(K) : at[n] = i
  BY KeptPlaces
<1>. HIDE DEF K
<1>3. /\ Len(K) \in Nat /\ Len(a) \in Nat /\ Len(G) = Len(K) + Len(a)
      /\ \A n \in 1..(Len(K) + Len(a)) : G[n] = IF n <= Len(K) THEN K[n] ELSE a[n - Len(K)]
  <2>1. Len(K) \in Nat /\ Len(a) \in Nat
    BY <1>1
  <2>. HIDE DEF Events
  <2>. QED  BY <1>1, <2>1, ConcatProperties
<1>. HIDE DEF G
<1>4. ASSUME NEW n \in 1..Len(K)
      PROVE  /\ n \in 1..Len(G) /\ at[n] \in 1..Len(E) /\ ~Redundant(E, at[n])
             /\ G[n].kind = E[at[n]].kind /\ G[n].key = E[at[n]].key
             /\ G[n].serial = E[at[n]].serial
  <2>1. n \in 1..(Len(K) + Len(a)) /\ n <= Len(K)
    BY <1>3
  <2>. QED  BY <1>2, <1>3, <2>1
<1>5. ASSUME NEW n \in 1..Len(G), G[n].kind \in Shown  PROVE  n \in 1..Len(K)
  <2>1. CASE n <= Len(K)
    BY <1>3, <2>1
  <2>2. CASE ~(n <= Len(K))
    <3>1. n - Len(K) \in 1..Len(a) /\ G[n] = a[n - Len(K)]
      <4>1. n \in 1..(Len(K) + Len(a))
        BY <1>3
      <4>2. n - Len(K) \in 1..Len(a)
        BY ONLY <1>3, <2>2, <4>1
      <4>. QED  BY <1>3, <2>2, <4>1, <4>2
    <3>. QED  BY <1>5, <3>1
  <2>. QED  BY <2>1, <2>2
<1>6. ASSUME NEW i \in 1..Len(E), E[i].kind = "deep"  PROVE  ~Redundant(E, i)
  BY <1>6 DEF Redundant, Overrides
<1>7. \A n, k \in 1..Len(K) : at[n] < at[k] => n < k
  <2>. SUFFICES ASSUME NEW n \in 1..Len(K), NEW k \in 1..Len(K), ~(n < k)
                PROVE  ~(at[n] < at[k])
    OBVIOUS
  <2>1. n = k \/ k < n
    BY <1>3
  <2>2. n = k \/ at[k] < at[n]
    BY <1>2, <2>1
  <2>3. at[n] \in Nat /\ at[k] \in Nat
    BY <1>0, <1>4
  <2>. QED  BY <2>2, <2>3
<1>8. ASSUME NEW n \in 1..Len(K), G[n].kind \in Shown
      PROVE  LastIn(G, n) <=> LastIn(E, at[n])
  <2>1. ASSUME LastIn(E, at[n])  PROVE  LastIn(G, n)
    <3>. SUFFICES ASSUME NEW j \in (n + 1)..Len(G), G[j].kind = G[n].kind, G[j].key = G[n].key
                  PROVE  FALSE
      BY DEF LastIn
    <3>1. j \in 1..Len(G) /\ n < j
      BY <1>3
    <3>2. j \in 1..Len(K)
      BY <1>5, <1>8, <3>1
    <3>3. at[n] < at[j] /\ at[j] \in 1..Len(E) /\ at[n] \in 1..Len(E)
      BY <1>2, <3>1, <3>2
    <3>4. at[j] \in (at[n] + 1)..Len(E)
      BY <1>0, <3>3
    <3>5. E[at[j]].kind = E[at[n]].kind /\ E[at[j]].key = E[at[n]].key
      BY <1>4, <3>2
    <3>. QED  BY <2>1, <3>4, <3>5 DEF LastIn
  <2>2. ASSUME LastIn(G, n)  PROVE  LastIn(E, at[n])
    <3>. SUFFICES ASSUME NEW j \in (at[n] + 1)..Len(E),
                         E[j].kind = E[at[n]].kind, E[j].key = E[at[n]].key
                  PROVE  FALSE
      BY DEF LastIn
    <3>1. at[n] \in 1..Len(E) /\ ~Redundant(E, at[n]) /\ E[at[n]].kind \in Shown
      BY <1>4, <1>8
    <3>2. j \in 1..Len(E) /\ at[n] < j
      BY <1>0, <3>1
    <3>3. E[j].kind = "deep"
      BY <3>1 DEF Redundant, Overrides
    <3>4. PICK k \in 1..Len(K) : at[k] = j
      BY <1>2, <1>6, <3>2, <3>3
    <3>5. n < k /\ k \in 1..Len(G)
      BY <1>4, <1>7, <3>2, <3>4
    <3>6. k \in (n + 1)..Len(G)
      BY <1>3, <3>5
    <3>7. G[k].kind = G[n].kind /\ G[k].key = G[n].key
      BY <1>4, <3>4
    <3>. QED  BY <2>2, <3>6, <3>7 DEF LastIn
  <2>. QED  BY <2>1, <2>2
<1>9. \A k : DeepIn(G, k) <=> DeepIn(E, k)
  <2>. SUFFICES ASSUME NEW k  PROVE  DeepIn(G, k) <=> DeepIn(E, k)
    OBVIOUS
  <2>1. ASSUME NEW n \in 1..Len(G), G[n].kind = "deep", G[n].key = k  PROVE  DeepIn(E, k)
    BY <1>4, <1>5, <2>1 DEF DeepIn
  <2>2. ASSUME NEW i \in 1..Len(E), E[i].kind = "deep", E[i].key = k  PROVE  DeepIn(G, k)
    <3>1. PICK n \in 1..Len(K) : at[n] = i
      BY <1>2, <1>6, <2>2
    <3>. QED  BY <1>4, <2>2, <3>1 DEF DeepIn
  <2>. QED  BY <2>1, <2>2 DEF DeepIn
<1>10. ASSUME NEW n \in Latest(G)
       PROVE  n \in 1..Len(K) /\ at[n] \in Latest(E) /\ G[n].serial = E[at[n]].serial
  <2>1. n \in 1..Len(G) /\ G[n].kind \in {"latest", "deep"} /\ LastIn(G, n)
    BY DEF Latest
  <2>2. n \in 1..Len(K)
    BY <1>5, <2>1
  <2>. QED  BY <1>4, <1>8, <2>1, <2>2 DEF Latest
<1>11. ASSUME NEW i \in Latest(E)
       PROVE  \E n \in Latest(G) : G[n].serial = E[i].serial
  <2>1. i \in 1..Len(E) /\ E[i].kind \in {"latest", "deep"} /\ LastIn(E, i)
    BY DEF Latest
  <2>2. ~Redundant(E, i)
    BY <2>1 DEF Redundant, Overrides, LastIn
  <2>3. PICK n \in 1..Len(K) : at[n] = i
    BY <1>2, <2>1, <2>2
  <2>4. n \in Latest(G)
    BY <1>4, <1>8, <2>1, <2>3 DEF Latest
  <2>. QED  BY <1>4, <2>3, <2>4
<1>12. ASSUME NEW n \in Shallow(G)
       PROVE  n \in 1..Len(K) /\ at[n] \in Shallow(E) /\ G[n].serial = E[at[n]].serial
  <2>1. n \in 1..Len(G) /\ G[n].kind \in {"shallow"} /\ LastIn(G, n) /\ ~DeepIn(G, G[n].key)
    BY DEF Shallow
  <2>2. n \in 1..Len(K)
    BY <1>5, <2>1
  <2>. QED  BY <1>4, <1>8, <1>9, <2>1, <2>2 DEF Shallow
<1>13. ASSUME NEW i \in Shallow(E)
       PROVE  \E n \in Shallow(G) : G[n].serial = E[i].serial
  <2>1. i \in 1..Len(E) /\ E[i].kind \in {"shallow"} /\ LastIn(E, i) /\ ~DeepIn(E, E[i].key)
    BY DEF Shallow
  <2>2. ~Redundant(E, i)
    <3>. SUFFICES ASSUME NEW j \in (i + 1)..Len(E), Overrides(E[j], E[i])  PROVE  FALSE
      BY <2>1 DEF Redundant
    <3>1. j \in 1..Len(E)
      BY <1>0, <2>1
    <3>. QED  BY <2>1, <3>1 DEF Overrides, LastIn, DeepIn
  <2>3. PICK n \in 1..Len(K) : at[n] = i
    BY <1>2, <2>1, <2>2
  <2>4. n \in Shallow(G)
    BY <1>4, <1>8, <1>9, <2>1, <2>3 DEF Shallow
  <2>. QED  BY <1>4, <2>3, <2>4
<1>14. {G[n].serial : n \in Latest(G)} = {E[i].serial : i \in Latest(E)}
  <2>1. ASSUME NEW n \in Latest(G)  PROVE  G[n].serial \in {E[i].serial : i \in Latest(E)}
    <3>1. at[n] \in Latest(E) /\ G[n].serial = E[at[n]].serial
      BY <1>10
    <3>. QED  BY <3>1
  <2>2. ASSUME NEW i \in Latest(E)  PROVE  E[i].serial \in {G[n].serial : n \in Latest(G)}
    <3>1. PICK n \in Latest(G) : G[n].serial = E[i].serial
      BY <1>11
    <3>2. E[i].serial = G[n].serial
      BY <3>1
    <3>. QED  BY <3>2
  <2>. QED  BY <2>1, <2>2
<1>15. {G[n].serial : n \in Shallow(G)} = {E[i].serial : i \in Shallow(E)}
  <2>1. ASSUME NEW n \in Shallow(G)  PROVE  G[n].serial \in {E[i].serial : i \in Shallow(E)}
    <3>1. at[n] \in Shallow(E) /\ G[n].serial = E[at[n]].serial
      BY <1>12
    <3>. QED  BY <3>1
  <2>2. ASSUME NEW i \in Shallow(E)  PROVE  E[i].serial \in {G[n].serial : n \in Shallow(G)}
    <3>1. PICK n \in Shallow(G) : G[n].serial = E[i].serial
      BY <1>13
    <3>2. E[i].serial = G[n].serial
      BY <3>1
    <3>. QED  BY <3>2
  <2>. QED  BY <2>1, <2>2
<1>. QED  BY <1>14, <1>15 DEF G, K

-----------------------------------------------------------------------------
(* The inductive invariant.                                                   *)

IdsUp(events, fl) ==
  \A i, j \in 1..Len(events) : i < j =>
    \/ events[i].id < events[j].id
    \/ "sync" \in fl /\ events[i].id <= events[j].id
Under(events, id, fl) ==
  \A i \in 1..Len(events) :
    \/ events[i].id < id
    \/ "sync" \in fl /\ events[i].id <= id

(* The sound events stand in a part of f before its first defect.             *)
Keeps(f, s) ==
  \E p \in Seq(Cells) : Agree(p, f) /\ Clean(p) /\ \A e \in s : StandsIn(e, Read(p))

(* A content a startup may find, of records up to b, with the sound events s  *)
(* and the damage fl.                                                         *)
Found(f, b, s, fl) ==
  /\ f \in Seq(Cells)
  /\ \A e \in Of(f) : e.serial <= b /\ e.id \in 1..(e.serial + 1)
  /\ SerialsUp(Read(f))
  /\ Keeps(f, s)
  /\ \A e \in s : SameIn(e, Read(f))
  /\ "write" \notin fl => ~Replay(f).corrupt
  /\ "directory" \notin fl => IdsUp(Read(f), fl)

(* A log in use: it has no defect, and the next id is new to it.              *)
InUse(f, id, fl) ==
  /\ "write" \notin fl => Clean(f)
  /\ "directory" \notin fl => IdsUp(Read(f), fl) /\ Under(Read(f), id, fl)

Appending == doing \in {"writing", "syncing"}
Compacting == doing \in {"replacing", "replaced"}

States ==
  /\ up \in BOOLEAN /\ doing \in {"nothing", "writing", "syncing", "replacing", "replaced"}
  /\ ~up => doing = "nothing"
  /\ begun \in 0..MaxRecords /\ nextId \in 1..(begun + 2)
  /\ file \in disk /\ faults \subseteq Failures \cup {"rename"} /\ sound \subseteq acked
  /\ stale # {} => doing = "replaced" \/ faults \cap {"directory", "rename"} # {}

Calls ==
  IF Appending
  THEN /\ pending \in Events /\ pending.kind \in Kinds /\ pending.size = Sizes[pending.key]
       /\ pending.serial = begun /\ pending.id = nextId /\ nextId <= begun + 1
       /\ written \in 0..pending.size
       /\ (doing = "syncing") <=> (written = pending.size)
  ELSE pending = NoEvent /\ written = 0

Files == \A f \in Possible : Found(f, begun, sound, faults)

(* The log in use, or the one that the record under way is written after.     *)
Logs ==
  /\ up /\ doing \in {"nothing", "replacing"} => InUse(file, nextId, faults)
  /\ Appending => \E b \in Seq(Cells) :
       /\ Grown(b, file, pending, written) /\ \A e \in Of(b) : e.serial < begun
       /\ Found(b, begun, sound, faults) /\ InUse(b, nextId, faults)

(* The log that takes the place of the other.                                 *)
Compacted ==
  /\ Compacting =>
       /\ Found(temp, begun, sound, faults) /\ Clean(temp) /\ temp # <<>> /\ Read(temp) # <<>>
       /\ Read(temp)[Len(Read(temp))] = temp[Len(temp)].of
  /\ doing = "replaced" => file = temp
  /\ doing = "replacing" =>
       \E a \in Seq(Events) : /\ Read(temp) = Kept(Read(file)) \o a
                              /\ \A i \in 1..Len(a) : a[i].kind \in {"migrated", "marker"}

Sounds ==
  /\ sound \subseteq Events
  /\ \A e \in sound : e.kind \in Kinds /\ e.serial <= begun /\ (Appending => e.serial < begun)

Inv == States /\ Calls /\ Files /\ Logs /\ Compacted /\ Sounds

(* What the constants are.                                                    *)
LEMMA Constants ==
  /\ Keys # {} /\ MaxRecords \in Nat /\ Failures \subseteq {"write", "short", "sync", "directory"}
  /\ \A k \in Keys : Sizes[k] \in Nat /\ Sizes[k] >= MinRecord
BY LogBounds

(* More records and more damage permit what less did.                         *)
LEMMA FoundStays ==
  ASSUME NEW f, NEW b \in Nat, NEW c \in Nat, b <= c, NEW s, NEW fl, NEW gl, fl \subseteq gl,
         Found(f, b, s, fl)
  PROVE  Found(f, c, s, gl)
<1>1. \A e \in Of(f) : e.serial <= c /\ e.id \in 1..(e.serial + 1)
  <2>. SUFFICES ASSUME NEW e \in Of(f)  PROVE  e.serial <= c /\ e.id \in 1..(e.serial + 1)
    OBVIOUS
  <2>1. f \in Seq(Cells) /\ e.serial <= b /\ e.id \in 1..(e.serial + 1)
    BY DEF Found
  <2>2. e \in Events
    BY <2>1, OfEvents
  <2>3. e.serial \in Nat
    BY <2>2 DEF Events
  <2>. QED  BY <2>1, <2>3
<1>2. "directory" \notin gl => IdsUp(Read(f), gl)
  BY DEF Found, IdsUp
<1>. QED  BY <1>1, <1>2 DEF Found

(* More damage permits what less did.                                         *)
LEMMA InUseStays ==
  ASSUME NEW f, NEW id, NEW fl, NEW gl, fl \subseteq gl, InUse(f, id, fl)
  PROVE  InUse(f, id, gl)
BY DEF InUse, IdsUp, Under

(* An agreement composes.                                                     *)
LEMMA AgreeOn ==
  ASSUME NEW p \in Seq(Cells), NEW f \in Seq(Cells), NEW g \in Seq(Cells),
         Agree(p, f), Agree(f, g)
  PROVE  Agree(p, g)
<1>1. Len(p) \in Nat /\ Len(f) \in Nat /\ Len(g) \in Nat
  OBVIOUS
<1>2. Len(p) <= Len(g) /\ \A i \in 1..Len(p) : i \in 1..Len(f)
  BY <1>1 DEF Agree
<1>. QED  BY <1>2 DEF Agree

(* The events of a part of a file are events of the file.                     *)
LEMMA AgreeOf ==
  ASSUME NEW p \in Seq(Cells), NEW f \in Seq(Cells), Agree(p, f)
  PROVE  Of(p) \subseteq Of(f)
<1>1. Len(p) \in Nat /\ Len(f) \in Nat
  OBVIOUS
<1>. SUFFICES ASSUME NEW i \in 1..Len(p)  PROVE  p[i].of \in Of(f)
  BY DEF Of
<1>2. i \in 1..Len(f) /\ f[i] = p[i]
  BY <1>1 DEF Agree
<1>. QED  BY <1>2 DEF Of

(* A log with one more event.                                                 *)
LEMMA OneMore ==
  ASSUME NEW E \in Seq(Events), NEW e \in Events
  PROVE  /\ E \o <<e>> \in Seq(Events) /\ Len(E) \in Nat
         /\ Len(E \o <<e>>) = Len(E) + 1
         /\ \A i \in 1..Len(E) : (E \o <<e>>)[i] = E[i]
         /\ (E \o <<e>>)[Len(E) + 1] = e
         /\ \A i \in 1..(Len(E) + 1) : i \in 1..Len(E) \/ i = Len(E) + 1
<1>1. Len(E) \in Nat /\ <<e>> \in Seq(Events) /\ Len(<<e>>) = 1 /\ <<e>>[1] = e
  OBVIOUS
<1>. DEFINE u == <<e>>
<1>2. u \in Seq(Events) /\ Len(u) = 1 /\ u[1] = e
  BY <1>1
<1>. HIDE DEF Events, u
<1>3. /\ E \o u \in Seq(Events)
      /\ Len(E \o u) = Len(E) + Len(u)
      /\ \A i \in 1..(Len(E) + Len(u)) : (E \o u)[i] = IF i <= Len(E) THEN E[i] ELSE u[i - Len(E)]
  BY <1>2, ConcatProperties
<1>4. \A i \in 1..Len(E) : i \in 1..(Len(E) + 1) /\ i <= Len(E)
  BY <1>1
<1>5. Len(E) + 1 \in 1..(Len(E) + 1) /\ ~(Len(E) + 1 <= Len(E)) /\ Len(E) + 1 - Len(E) = 1
  BY <1>1
<1>6. \A i \in 1..(Len(E) + 1) : i \in 1..Len(E) \/ i = Len(E) + 1
  BY <1>1
<1>7. /\ E \o u \in Seq(Events) /\ Len(E) \in Nat
      /\ Len(E \o u) = Len(E) + 1
      /\ \A i \in 1..Len(E) : (E \o u)[i] = E[i]
      /\ (E \o u)[Len(E) + 1] = e
  BY <1>1, <1>2, <1>3, <1>4, <1>5
<1>. QED  BY <1>6, <1>7 DEF u

(* An event that stands in a log stands in it whatever is added.              *)
LEMMA StandsOn ==
  ASSUME NEW E \in Seq(Events), NEW r \in Seq(Events), NEW e, StandsIn(e, E)
  PROVE  StandsIn(e, E \o r)
<1>1. Len(E) \in Nat /\ Len(r) \in Nat
  OBVIOUS
<1>2. /\ Len(E \o r) = Len(E) + Len(r)
      /\ \A i \in 1..(Len(E) + Len(r)) : (E \o r)[i] = IF i <= Len(E) THEN E[i] ELSE r[i - Len(E)]
  <2>. HIDE DEF Events
  <2>. QED  BY ConcatProperties
<1>3. \A i \in 1..Len(E) : i \in 1..(Len(E) + Len(r)) /\ i <= Len(E)
  BY <1>1
<1>4. \A i \in 1..Len(E) : i \in 1..Len(E \o r) /\ (E \o r)[i] = E[i]
  BY <1>2, <1>3
<1>. HIDE DEF Events
<1>. QED  BY <1>4 DEF StandsIn

(* A file with what a record under way has put into it.                       *)
LEMMA GrownFound ==
  ASSUME NEW b \in Seq(Cells), NEW g \in Seq(Cells), NEW e \in Events,
         NEW n \in 0..e.size, Grown(b, g, e, n), NEW s \in SUBSET Events, NEW fl,
         e.id \in 1..(e.serial + 1),
         \A x \in Of(b) : x.serial < e.serial, \A x \in s : x.serial < e.serial,
         Found(b, e.serial, s, fl), InUse(b, e.id, fl)
  PROVE  /\ Found(g, e.serial, s, fl)
         /\ n # e.size => Read(g) = Read(b)
         /\ "directory" \notin fl => \A i \in 1..Len(Read(g)) : Read(g)[i].id <= e.id
         /\ n = e.size /\ "write" \notin fl => Clean(g) /\ Read(g) = Read(b) \o <<e>>
<1>0. e.serial \in Nat /\ e.id \in Nat /\ e.size \in Nat
  BY DEF Events
<1>1. Agree(b, g) /\ Len(g) = Len(b) + n /\ Len(b) \in Nat /\ n \in Nat
  BY <1>0 DEF Grown
<1>2. \A x \in Of(b) : x # e
  BY <1>0
<1>. DEFINE E == Read(b)
            G == Read(g)
<1>3. /\ G = E \/ (n = e.size /\ G = E \o <<e>>)
      /\ Clean(b) => ~Replay(g).corrupt
      /\ Clean(b) /\ n = e.size => Clean(g) /\ G = E \o <<e>>
  BY <1>2, WrittenReads
<1>4. E \in Seq(Events) /\ G \in Seq(Events) /\ E \in Seq(Of(b)) /\ Of(b) \subseteq Events
  BY ReadType, OfEvents
<1>5. /\ Len(E) \in Nat /\ Len(E \o <<e>>) = Len(E) + 1
      /\ \A i \in 1..Len(E) : (E \o <<e>>)[i] = E[i]
      /\ (E \o <<e>>)[Len(E) + 1] = e
      /\ \A i \in 1..(Len(E) + 1) : i \in 1..Len(E) \/ i = Len(E) + 1
  <2>. HIDE DEF Events, E
  <2>. QED  BY <1>4, OneMore
<1>6. \A i \in 1..Len(E) : /\ E[i] \in Events /\ E[i].serial \in Nat /\ E[i].id \in Nat
                           /\ E[i].serial < e.serial
  <2>. SUFFICES ASSUME NEW i \in 1..Len(E)
                PROVE  /\ E[i] \in Events /\ E[i].serial \in Nat /\ E[i].id \in Nat
                       /\ E[i].serial < e.serial
    OBVIOUS
  <2>1. E[i] \in Of(b)
    <3>. HIDE DEF E
    <3>. QED  BY <1>4
  <2>2. E[i] \in Events
    BY <1>4, <2>1
  <2>. QED  BY <2>1, <2>2 DEF Events
<1>. HIDE DEF E
<1>7. \A x \in Of(g) : x.serial <= e.serial /\ x.id \in 1..(x.serial + 1)
  <2>. SUFFICES ASSUME NEW i \in 1..Len(g)
                PROVE  g[i].of.serial <= e.serial /\ g[i].of.id \in 1..(g[i].of.serial + 1)
    BY DEF Of
  <2>1. CASE i <= Len(b)
    <3>1. i \in 1..Len(b) /\ g[i] = b[i]
      BY <1>1, <2>1 DEF Agree
    <3>2. b[i].of \in Of(b)
      BY <3>1 DEF Of
    <3>. QED  BY <3>1, <3>2 DEF Found
  <2>2. CASE ~(i <= Len(b))
    <3>1. i - Len(b) \in 1..n /\ Len(b) + (i - Len(b)) = i
      BY <1>1, <2>2
    <3>2. g[i] = [of |-> e, at |-> i - Len(b)]
      BY <3>1 DEF Grown
    <3>3. g[i].of = e
      BY ONLY <3>2
    <3>. QED  BY <1>0, <3>3
  <2>. QED  BY <2>1, <2>2
<1>8. ASSUME G = E
      PROVE  /\ SerialsUp(G) /\ \A x \in s : SameIn(x, G)
             /\ "directory" \notin fl => IdsUp(G, fl) /\ \A i \in 1..Len(G) : G[i].id <= e.id
  <2>1. SerialsUp(G) /\ \A x \in s : SameIn(x, G)
    BY <1>8 DEF Found, E
  <2>2. "directory" \notin fl => IdsUp(G, fl) /\ \A i \in 1..Len(G) : G[i].id <= e.id
    <3>. SUFFICES ASSUME "directory" \notin fl
                  PROVE  IdsUp(G, fl) /\ \A i \in 1..Len(G) : G[i].id <= e.id
      OBVIOUS
    <3>1. IdsUp(E, fl) /\ Under(E, e.id, fl)
      BY DEF InUse, E
    <3>2. \A i \in 1..Len(E) : E[i].id <= e.id
      BY <1>0, <1>6, <3>1 DEF Under
    <3>. HIDE DEF G
    <3>. QED  BY <1>8, <3>1, <3>2
  <2>. HIDE DEF G
  <2>3. /\ SerialsUp(G) /\ \A x \in s : SameIn(x, G)
        /\ "directory" \notin fl => IdsUp(G, fl) /\ \A i \in 1..Len(G) : G[i].id <= e.id
    BY <2>1, <2>2
  <2>. QED  BY <2>3
<1>9. ASSUME G = E \o <<e>>
      PROVE  /\ SerialsUp(G) /\ \A x \in s : SameIn(x, G)
             /\ "directory" \notin fl => IdsUp(G, fl) /\ \A i \in 1..Len(G) : G[i].id <= e.id
  <2>. HIDE DEF G
  <2>0. /\ Len(G) = Len(E) + 1
        /\ \A i \in 1..Len(E) : G[i] = E[i]
        /\ G[Len(E) + 1] = e
        /\ \A i \in 1..Len(G) : i \in 1..Len(E) \/ i = Len(E) + 1
    BY <1>5, <1>9
  <2>1. SerialsUp(G)
    <3>. SUFFICES ASSUME NEW i \in 1..Len(G), NEW j \in 1..Len(G), i < j
                  PROVE  G[i].serial < G[j].serial
      BY DEF SerialsUp
    <3>1. i \in 1..Len(E)
      BY <1>5, <2>0
    <3>2. CASE j \in 1..Len(E)
      <4>1. SerialsUp(E)
        BY DEF Found, E
      <4>. QED  BY <2>0, <3>1, <3>2, <4>1 DEF SerialsUp
    <3>3. CASE j = Len(E) + 1
      BY <1>6, <2>0, <3>1, <3>3
    <3>. QED  BY <2>0, <3>2, <3>3
  <2>2. \A x \in s : SameIn(x, G)
    <3>. SUFFICES ASSUME NEW x \in s, NEW i \in 1..Len(G), G[i].serial = x.serial
                  PROVE  G[i].kind = x.kind /\ G[i].key = x.key
      BY DEF SameIn
    <3>1. x.serial < e.serial /\ x.serial \in Nat
      BY DEF Events
    <3>2. i \in 1..Len(E)
      BY <1>0, <2>0, <3>1
    <3>3. SameIn(x, E)
      BY DEF Found, E
    <3>. QED  BY <2>0, <3>2, <3>3 DEF SameIn
  <2>3. "directory" \notin fl => IdsUp(G, fl) /\ \A i \in 1..Len(G) : G[i].id <= e.id
    <3>. SUFFICES ASSUME "directory" \notin fl
                  PROVE  IdsUp(G, fl) /\ \A i \in 1..Len(G) : G[i].id <= e.id
      OBVIOUS
    <3>1. IdsUp(E, fl) /\ Under(E, e.id, fl)
      BY DEF InUse, E
    <3>2. \A i \in 1..Len(E) : E[i].id <= e.id
      BY <1>0, <1>6, <3>1 DEF Under
    <3>3. \A i \in 1..Len(G) : G[i].id <= e.id
      BY <1>0, <2>0, <3>2
    <3>4. ASSUME NEW i \in 1..Len(G), NEW j \in 1..Len(G), i < j
          PROVE  G[i].id < G[j].id \/ ("sync" \in fl /\ G[i].id <= G[j].id)
      <4>1. i \in 1..Len(E)
        BY <1>5, <2>0, <3>4
      <4>2. CASE j \in 1..Len(E)
        BY <2>0, <3>1, <3>4, <4>1, <4>2 DEF IdsUp
      <4>3. CASE j = Len(E) + 1
        BY <2>0, <3>1, <4>1, <4>3 DEF Under
      <4>. QED  BY <2>0, <4>2, <4>3
    <3>. QED  BY <3>3, <3>4 DEF IdsUp
  <2>. QED  BY <2>1, <2>2, <2>3
<1>10. Keeps(g, s)
  <2>1. PICK p \in Seq(Cells) : Agree(p, b) /\ Clean(p) /\ \A x \in s : StandsIn(x, Read(p))
    BY DEF Found, Keeps
  <2>2. Agree(p, g)
    BY <1>1, <2>1, AgreeOn
  <2>. QED  BY <2>1, <2>2 DEF Keeps
<1>11. "write" \notin fl => ~Replay(g).corrupt
  BY <1>3 DEF InUse
<1>12. /\ SerialsUp(G) /\ \A x \in s : SameIn(x, G)
       /\ "directory" \notin fl => IdsUp(G, fl) /\ \A i \in 1..Len(G) : G[i].id <= e.id
  <2>1. G = E \/ G = E \o <<e>>
    BY <1>3
  <2>. HIDE DEF G
  <2>. QED  BY <1>8, <1>9, <2>1
<1>13. Found(g, e.serial, s, fl)
  BY <1>7, <1>10, <1>11, <1>12 DEF Found
<1>14. n = e.size /\ "write" \notin fl => Clean(g) /\ G = E \o <<e>>
  BY <1>3 DEF InUse
<1>. QED  BY <1>3, <1>12, <1>13, <1>14 DEF E

-----------------------------------------------------------------------------
(* The invariant holds initially.                                             *)

(* An empty file is a log without events and without defects.                 *)
LEMMA EmptyReads ==
  /\ <<>> \in Seq(Cells) /\ Read(<<>>) = <<>> /\ Clean(<<>>) /\ Of(<<>>) = {}
<1>. DEFINE z == <<>>
<1>1. z \in Seq(Cells) /\ Len(z) = 0 /\ 0 \in 0..Len(z)
  OBVIOUS
<1>2. AtEnd(z, 0) /\ ~(Len(z) > 0)
  BY <1>1 DEF AtEnd, MinRecord
<1>3. Of(z) = {}
  BY DEF Of
<1>. HIDE DEF z
<1>4. Scan(z)[0].events = <<>> /\ Scan(z)[0].corrupt = FALSE /\ Scan(z)[0].torn = (Len(z) > 0)
  BY <1>1, <1>2, Scanned
<1>5. Replay(z) = Scan(z)[0]
  BY ReplayIsScan
<1>6. Read(z) = <<>> /\ Clean(z)
  BY <1>2, <1>4, <1>5 DEF Read, Clean
<1>. QED  BY <1>1, <1>3, <1>6 DEF z

(* An empty file may be found.                                                *)
LEMMA EmptyFound ==
  ASSUME NEW b \in Nat, NEW fl
  PROVE  Found(<<>>, b, {}, fl)
<1>. DEFINE z == <<>>
<1>1. z \in Seq(Cells) /\ Read(z) = <<>> /\ Clean(z) /\ Of(z) = {}
  BY EmptyReads
<1>2. Agree(z, z)
  BY DEF Agree
<1>3. \A i \in 1..Len(<<>>) : FALSE
  OBVIOUS
<1>. HIDE DEF z
<1>4. SerialsUp(Read(z)) /\ IdsUp(Read(z), fl)
  BY <1>1, <1>3 DEF SerialsUp, IdsUp
<1>5. Keeps(z, {})
  BY <1>1, <1>2 DEF Keeps
<1>6. Found(z, b, {}, fl)
  BY <1>1, <1>4, <1>5 DEF Found, Clean
<1>. QED  BY <1>6 DEF z

(* So may one that an older version wrote.                                    *)
LEMMA OldFound == OldGame \in Events /\ Found(Record(OldGame), 0, {}, {})
<1>. DEFINE e == OldGame
            z == <<>>
            g == Record(e)
            k == CHOOSE key \in Keys : TRUE
<1>1. k \in Keys
  BY Constants
<1>2. e = [kind |-> "latest", key |-> k, id |-> 1, size |-> 3, serial |-> 0, schema |-> 1]
  BY DEF OldGame, Event, MinRecord
<1>. HIDE DEF e, k
<1>3. e \in Events /\ e.size = 3 /\ e.serial = 0 /\ e.id = 1
  BY <1>1, <1>2 DEF Events, Kinds, MinRecord
<1>4. z \in Seq(Cells) /\ Read(z) = <<>> /\ Clean(z) /\ Of(z) = {} /\ Len(z) = 0
  BY EmptyReads
<1>5. g \in Seq(Cells) /\ Len(g) = 3 /\ \A i \in 1..3 : g[i] = [of |-> e, at |-> i]
  BY <1>3, RecordCells
<1>6. Grown(z, g, e, 3) /\ 3 \in 0..e.size
  BY <1>3, <1>4, <1>5 DEF Grown, Agree
<1>7. Found(z, 0, {}, {})
  BY EmptyFound
<1>8. InUse(z, e.id, {})
  <2>1. \A i \in 1..Len(<<>>) : FALSE
    OBVIOUS
  <2>. HIDE DEF z
  <2>. QED  BY <1>4, <2>1 DEF InUse, IdsUp, Under
<1>9. e.id \in 1..(e.serial + 1) /\ {} \in SUBSET Events
  BY <1>3
<1>. HIDE DEF z, g
<1>10. Found(z, e.serial, {}, {})
  BY <1>3, <1>7
<1>11. Found(g, e.serial, {}, {})
  BY <1>3, <1>4, <1>5, <1>6, <1>8, <1>9, <1>10, GrownFound
<1>. QED  BY <1>3, <1>11 DEF e, g

(* The invariant holds at the start.                                          *)
LEMMA InitInv == ASSUME Init PROVE Inv
<1>1. States
  <2>1. begun \in 0..MaxRecords /\ nextId \in 1..(begun + 2)
    BY Constants DEF Init
  <2>2. file \in disk /\ stale = {} /\ faults = {} /\ sound = {} /\ up = FALSE /\ doing = "nothing"
    BY DEF Init
  <2>. QED  BY <2>1, <2>2 DEF States
<1>2. Calls
  BY DEF Init, Calls, Appending
<1>3. Files
  <2>1. \A f \in Possible : f = <<>> \/ f = Record(OldGame)
    BY DEF Init, Possible
  <2>2. Found(<<>>, 0, {}, {}) /\ Found(Record(OldGame), 0, {}, {})
    BY EmptyFound, OldFound
  <2>. QED  BY <2>1, <2>2 DEF Init, Files
<1>4. Logs /\ Compacted /\ Sounds
  BY DEF Init, Logs, Compacted, Sounds, Appending, Compacting
<1>. QED  BY <1>1, <1>2, <1>3, <1>4 DEF Inv

(* The next id a startup gives is new.                                        *)
LEMMA FreshIdIs ==
  ASSUME NEW E \in Seq(Events), NEW b \in Nat, \A i \in 1..Len(E) : E[i].id <= b
  PROVE  FreshId(E) \in 1..(b + 1) /\ \A i \in 1..Len(E) : E[i].id < FreshId(E)
<1>. DEFINE S == {0} \cup {E[i].id : i \in 1..Len(E)}
            m == CHOOSE m \in S : \A i \in 1..Len(E) : E[i].id <= m
<1>1. \A i \in 1..Len(E) : E[i].id \in Nat
  <2>1. \A i \in 1..Len(E) : E[i] \in Events
    OBVIOUS
  <2>. QED  BY <2>1 DEF Events
<1>2. S \in SUBSET (0..b) /\ S # {}
  BY <1>1
<1>3. \E x \in S : \A i \in 1..Len(E) : E[i].id <= x
  <2>1. PICK x \in S : \A y \in S : y <= x
    <3>. HIDE DEF S
    <3>. QED  BY <1>2, HasLargest
  <2>. QED  BY <2>1
<1>4. m \in S /\ \A i \in 1..Len(E) : E[i].id <= m
  <2>. HIDE DEF S
  <2>. QED  BY <1>3
<1>5. FreshId(E) = 1 + m
  BY DEF FreshId
<1>6. m \in 0..b
  BY <1>2, <1>4
<1>. HIDE DEF m, S
<1>. QED  BY <1>1, <1>4, <1>5, <1>6

-----------------------------------------------------------------------------
(* Every step keeps it.                                                       *)

(* What the invariant says of a file.                                         *)
LEMMA FoundFiles ==
  ASSUME Inv
  PROVE  /\ begun \in Nat /\ sound \in SUBSET Events
         /\ file \in Possible /\ disk \subseteq Possible /\ stale \subseteq Possible
         /\ \A f \in Possible : f \in Seq(Cells) /\ Found(f, begun, sound, faults)
BY DEF Inv, States, Sounds, Files, Found, Possible

(* What startup makes of a file that a crash left is a log that can be used.  *)
LEMMA RecoveredFound ==
  ASSUME NEW f, NEW b \in Nat, NEW s, NEW fl, Found(f, b, s, fl)
  PROVE  /\ Found(Recovered(f), b, s, fl)
         /\ FreshId(Read(f)) \in 1..(b + 2)
         /\ InUse(Recovered(f), FreshId(Read(f)), fl)
<1>. DEFINE g == Recovered(f)
<1>1. f \in Seq(Cells)
  BY DEF Found
<1>2. /\ g \in Seq(Cells) /\ Agree(g, f) /\ Read(g) = Read(f)
      /\ ~Replay(f).corrupt => Clean(g)
      /\ \A p \in Seq(Cells) : Agree(p, f) /\ Clean(p) => Agree(p, g)
  BY <1>1, RecoveredReads
<1>. HIDE DEF g
<1>3. Of(g) \subseteq Of(f)
  BY <1>1, <1>2, AgreeOf
<1>4. Keeps(g, s)
  <2>1. PICK p \in Seq(Cells) : Agree(p, f) /\ Clean(p) /\ \A e \in s : StandsIn(e, Read(p))
    BY DEF Found, Keeps
  <2>. QED  BY <1>2, <2>1 DEF Keeps
<1>5. Found(g, b, s, fl)
  <2>1. \A e \in Of(g) : e.serial <= b /\ e.id \in 1..(e.serial + 1)
    BY <1>3 DEF Found
  <2>2. SerialsUp(Read(g)) /\ \A e \in s : SameIn(e, Read(g))
    BY <1>2 DEF Found
  <2>3. "write" \notin fl => ~Replay(g).corrupt
    BY <1>2 DEF Found, Clean
  <2>4. "directory" \notin fl => IdsUp(Read(g), fl)
    BY <1>2 DEF Found
  <2>. QED  BY <1>2, <1>4, <2>1, <2>2, <2>3, <2>4 DEF Found
<1>6. Read(f) \in Seq(Events) /\ \A i \in 1..Len(Read(f)) : Read(f)[i].id \in Nat /\ Read(f)[i].id <= b + 1
  <2>0. Read(f) \in Seq(Events) /\ Read(f) \in Seq(Of(f)) /\ Of(f) \subseteq Events
    BY <1>1, ReadType, OfEvents
  <2>. SUFFICES ASSUME NEW i \in 1..Len(Read(f))
                PROVE  Read(f)[i].id \in Nat /\ Read(f)[i].id <= b + 1
    BY <2>0
  <2>1. Read(f)[i] \in Of(f)
    BY <2>0
  <2>2. Read(f)[i] \in Events
    BY <2>0, <2>1
  <2>3. Read(f)[i].serial \in Nat /\ Read(f)[i].id \in Nat
    BY <2>2 DEF Events
  <2>4. Read(f)[i].serial <= b /\ Read(f)[i].id \in 1..(Read(f)[i].serial + 1)
    BY <2>1 DEF Found
  <2>. QED  BY <2>3, <2>4
<1>7. /\ FreshId(Read(f)) \in 1..(b + 1 + 1)
      /\ \A i \in 1..Len(Read(f)) : Read(f)[i].id < FreshId(Read(f))
  <2>. DEFINE E == Read(f)
              c == b + 1
  <2>1. E \in Seq(Events) /\ c \in Nat /\ \A i \in 1..Len(E) : E[i].id <= c
    BY <1>6
  <2>. HIDE DEF E, c
  <2>2. FreshId(E) \in 1..(c + 1) /\ \A i \in 1..Len(E) : E[i].id < FreshId(E)
    BY <2>1, FreshIdIs
  <2>. QED  BY <2>2 DEF E, c
<1>8. InUse(g, FreshId(Read(f)), fl)
  <2>1. "write" \notin fl => Clean(g)
    BY <1>2 DEF Found
  <2>2. Under(Read(g), FreshId(Read(f)), fl)
    BY <1>2, <1>7 DEF Under
  <2>3. "directory" \notin fl => IdsUp(Read(g), fl)
    BY <1>5 DEF Found
  <2>. QED  BY <2>1, <2>2, <2>3 DEF InUse
<1>9. b + 1 + 1 = b + 2
  OBVIOUS
<1>. QED  BY <1>5, <1>7, <1>8, <1>9 DEF g

(* Startup: every file a crash may leave becomes a log in use.                *)
LEMMA StartStep ==
  ASSUME Inv, Start
  PROVE  Inv'
<1>. DEFINE g == Recovered(file)
            n == FreshId(Read(file))
<1>1. begun \in Nat /\ Found(file, begun, sound, faults)
  BY FoundFiles
<1>2. Found(g, begun, sound, faults) /\ n \in 1..(begun + 2) /\ InUse(g, n, faults)
  BY <1>1, RecoveredFound
<1>3. /\ ~up /\ up' /\ file' = g /\ nextId' = n /\ disk' = disk \cup {g}
      /\ stale' = stale /\ doing' = doing /\ pending' = pending /\ written' = written
      /\ temp' = temp /\ begun' = begun /\ acked' = acked /\ sound' = sound /\ faults' = faults
      /\ doing = "nothing"
  BY DEF Start, callVars, ghosts, Read, Inv, States
<1>. HIDE DEF g, n
<1>4. States'
  BY <1>2, <1>3 DEF Inv, States
<1>5. Calls'
  BY <1>3 DEF Inv, Calls, Appending
<1>6. Files'
  <2>1. \A f \in Possible' : f = g \/ f \in Possible
    BY <1>3 DEF Possible
  <2>2. \A f \in Possible : Found(f, begun, sound, faults)
    BY FoundFiles
  <2>. QED  BY <1>2, <1>3, <2>1, <2>2 DEF Files
<1>7. Logs'
  BY <1>2, <1>3 DEF Logs, Appending
<1>8. Compacted' /\ Sounds'
  BY <1>3 DEF Inv, Compacted, Sounds, Appending, Compacting
<1>. QED  BY <1>4, <1>5, <1>6, <1>7, <1>8 DEF Inv

(* append() takes the next id: the log so far is what its record grows from.  *)
LEMMA BeginAppendStep ==
  ASSUME Inv, NEW kind \in Kinds, NEW key \in Keys, BeginAppend(kind, key)
  PROVE  Inv'
<1>. DEFINE e == Event(kind, key, nextId, Sizes[key], begun + 1, 2)
<1>1. /\ begun \in Nat /\ begun <= MaxRecords /\ nextId \in 1..(begun + 2) /\ MaxRecords \in Nat
      /\ sound \in SUBSET Events /\ up /\ doing = "nothing" /\ begun < MaxRecords
      /\ begun' = begun + 1 /\ pending' = e /\ written' = 0 /\ doing' = "writing"
      /\ UNCHANGED <<fileVars, up, nextId, temp, ghosts>>
  BY Constants DEF BeginAppend, Free, Inv, States, Sounds
<1>2. e = [kind |-> kind, key |-> key, id |-> nextId, size |-> Sizes[key], serial |-> begun + 1,
           schema |-> 2]
  BY DEF Event
<1>3. Sizes[key] \in Nat /\ Sizes[key] >= MinRecord
  BY Constants
<1>. HIDE DEF e
<1>4. /\ e \in Events /\ e.kind = kind /\ e.key = key /\ e.size = Sizes[key]
      /\ e.serial = begun + 1 /\ e.id = nextId
  BY <1>1, <1>2, <1>3 DEF Events
<1>5. States'
  BY <1>1 DEF Inv, States, fileVars, ghosts
<1>6. Calls'
  <2>1. /\ e \in Events /\ e.kind \in Kinds /\ e.size = Sizes[e.key] /\ e.serial = begun'
        /\ e.id = nextId' /\ nextId' <= begun' + 1 /\ 0 \in 0..e.size /\ 0 # e.size
    BY <1>1, <1>3, <1>4 DEF MinRecord
  <2>. QED  BY <1>1, <2>1 DEF Calls, Appending
<1>7. \A f \in Possible : f \in Seq(Cells) /\ Found(f, begun + 1, sound, faults)
  <2>. SUFFICES ASSUME NEW f \in Possible
                PROVE  f \in Seq(Cells) /\ Found(f, begun + 1, sound, faults)
    OBVIOUS
  <2>1. f \in Seq(Cells) /\ Found(f, begun, sound, faults)
    BY FoundFiles
  <2>2. begun + 1 \in Nat /\ begun <= begun + 1 /\ faults \subseteq faults
    BY <1>1
  <2>. QED  BY <1>1, <2>1, <2>2, FoundStays
<1>8. Files'
  <2>1. Possible' = Possible
    BY <1>1 DEF Possible, fileVars
  <2>. QED  BY <1>1, <1>7, <2>1 DEF Files, ghosts
<1>9. Logs'
  <2>1. file \in Possible
    BY DEF Possible
  <2>2. Found(file, begun + 1, sound, faults) /\ file \in Seq(Cells)
    BY <1>7, <2>1
  <2>3. InUse(file, nextId, faults)
    BY <1>1 DEF Inv, Logs
  <2>4. \A x \in Of(file) : x.serial < begun + 1
    <3>. SUFFICES ASSUME NEW x \in Of(file)  PROVE  x.serial < begun + 1
      OBVIOUS
    <3>1. Found(file, begun, sound, faults)
      BY FoundFiles
    <3>2. x \in Events /\ x.serial <= begun
      BY <2>2, <3>1, OfEvents DEF Found
    <3>3. x.serial \in Nat
      BY <3>2 DEF Events
    <3>. QED  BY <1>1, <3>2, <3>3
  <2>5. Grown(file, file, e, 0)
    <3>1. Len(file) \in Nat
      BY <2>2
    <3>. QED  BY <3>1 DEF Grown, Agree
  <2>6. \E b \in Seq(Cells) :
          /\ Grown(b, file', pending', written') /\ \A x \in Of(b) : x.serial < begun'
          /\ Found(b, begun', sound', faults') /\ InUse(b, nextId', faults')
    BY <1>1, <2>2, <2>3, <2>4, <2>5 DEF fileVars, ghosts
  <2>. QED  BY <1>1, <2>6 DEF Logs, Appending
<1>10. Compacted'
  BY <1>1 DEF Compacted, Compacting
<1>11. Sounds'
  <2>1. \A x \in sound : x.kind \in Kinds /\ x.serial <= begun /\ x \in Events
    BY DEF Inv, Sounds
  <2>2. \A x \in sound : x.serial \in Nat
    BY <2>1 DEF Events
  <2>3. \A x \in sound : x.serial <= begun + 1 /\ x.serial < begun + 1
    BY <1>1, <2>1, <2>2
  <2>. QED  BY <1>1, <2>1, <2>3 DEF Sounds, ghosts
<1>. QED  BY <1>5, <1>6, <1>8, <1>9, <1>10, <1>11 DEF Inv

(* Some more cells of the record under way.                                   *)
LEMMA GrownOn ==
  ASSUME NEW b \in Seq(Cells), NEW f \in Seq(Cells), NEW e \in Events, NEW w \in Nat,
         NEW m \in Nat, m >= 1, w + m <= e.size, Grown(b, f, e, w)
  PROVE  LET g == f \o SubSeq(Record(e), w + 1, w + m)
         IN g \in Seq(Cells) /\ Grown(b, g, e, w + m)
<1>. DEFINE r == SubSeq(Record(e), w + 1, w + m)
            g == f \o r
<1>1. /\ Record(e) \in Seq(Cells) /\ e.size \in Nat /\ Len(Record(e)) = e.size
      /\ \A i \in 1..e.size : Record(e)[i] = [of |-> e, at |-> i]
  BY RecordCells
<1>2. r \in Seq(Cells) /\ Len(r) = m /\ \A i \in 1..m : r[i] = [of |-> e, at |-> w + i]
  <2>. DEFINE x == w + 1
              y == w + m
              R == Record(e)
  <2>1. x \in Int /\ y \in Int /\ x <= y /\ y - x + 1 = m /\ x >= 1
    OBVIOUS
  <2>2. \A i \in x..y : i \in 1..e.size
    BY <1>1
  <2>. HIDE DEF R
  <2>3. \A i \in x..y : R[i] \in Cells
    BY <1>1, <2>2 DEF R
  <2>4. \A i \in 1..m : x + i - 1 = w + i /\ w + i \in x..y
    OBVIOUS
  <2>. HIDE DEF x, y
  <2>5. /\ SubSeq(R, x, y) \in Seq(Cells) /\ Len(SubSeq(R, x, y)) = m
        /\ \A i \in 1..m : SubSeq(R, x, y)[i] = R[x + i - 1]
    BY <2>1, <2>3, SubSeqProperties
  <2>6. \A i \in 1..m : R[x + i - 1] = [of |-> e, at |-> w + i]
    BY <1>1, <2>2, <2>4 DEF R
  <2>7. /\ SubSeq(R, x, y) \in Seq(Cells) /\ Len(SubSeq(R, x, y)) = m
        /\ \A i \in 1..m : SubSeq(R, x, y)[i] = [of |-> e, at |-> w + i]
    BY <2>5, <2>6
  <2>. QED  BY <2>7 DEF R, x, y
<1>. HIDE DEF r
<1>3. /\ g \in Seq(Cells) /\ Len(g) = Len(f) + m /\ Len(f) \in Nat
      /\ \A i \in 1..(Len(f) + m) : g[i] = IF i <= Len(f) THEN f[i] ELSE r[i - Len(f)]
  <2>1. /\ f \o r \in Seq(Cells) /\ Len(f \o r) = Len(f) + Len(r)
        /\ \A i \in 1..(Len(f) + Len(r)) :
             (f \o r)[i] = IF i <= Len(f) THEN f[i] ELSE r[i - Len(f)]
    BY <1>2, CellsJoin
  <2>2. Len(r) = m /\ Len(f) \in Nat
    BY <1>2
  <2>. HIDE DEF Cells
  <2>. QED  BY <2>1, <2>2
<1>. HIDE DEF g
<1>4. Len(b) \in Nat /\ Len(f) = Len(b) + w /\ Agree(b, f)
  BY DEF Grown
<1>5. Len(g) = Len(b) + (w + m)
  BY <1>3, <1>4
<1>6. Agree(b, g)
  <2>1. ASSUME NEW i \in 1..Len(b)  PROVE  g[i] = b[i]
    <3>1. i \in 1..(Len(f) + m) /\ i <= Len(f)
      BY <1>4
    <3>. QED  BY <1>3, <1>4, <3>1 DEF Agree
  <2>. QED  BY <1>4, <1>5, <2>1 DEF Agree
<1>7. ASSUME NEW i \in 1..(w + m)  PROVE  g[Len(b) + i] = [of |-> e, at |-> i]
  <2>1. CASE i <= w
    <3>1. Len(b) + i \in 1..(Len(f) + m) /\ Len(b) + i <= Len(f) /\ i \in 1..w
      BY <1>4, <2>1
    <3>2. g[Len(b) + i] = f[Len(b) + i]
      BY <1>3, <3>1
    <3>. QED  BY <3>1, <3>2 DEF Grown
  <2>2. CASE ~(i <= w)
    <3>1. /\ Len(b) + i \in 1..(Len(f) + m) /\ ~(Len(b) + i <= Len(f))
          /\ Len(b) + i - Len(f) = i - w /\ i - w \in 1..m /\ w + (i - w) = i
      BY <1>4, <2>2
    <3>2. g[Len(b) + i] = r[i - w]
      <4>. DEFINE k == Len(b) + i
      <4>1. k \in 1..(Len(f) + m) /\ ~(k <= Len(f)) /\ k - Len(f) = i - w
        BY <3>1
      <4>. HIDE DEF k
      <4>2. g[k] = r[k - Len(f)]
        BY <1>3, <4>1
      <4>. QED  BY <4>1, <4>2 DEF k
    <3>3. r[i - w] = [of |-> e, at |-> w + (i - w)]
      BY <1>2, <3>1
    <3>. QED  BY <3>1, <3>2, <3>3
  <2>. QED  BY <2>1, <2>2
<1>8. Grown(b, g, e, w + m)
  BY <1>5, <1>6, <1>7 DEF Grown
<1>. QED  BY <1>3, <1>8 DEF g, r

(* The log under way, as the invariant has it.                                *)
LEMMA UnderWay ==
  ASSUME Inv, Appending
  PROVE  /\ up /\ begun \in Nat /\ nextId \in Nat /\ MaxRecords \in Nat
         /\ pending \in Events /\ pending.kind \in Kinds /\ pending.serial = begun
         /\ pending.id = nextId /\ pending.id \in 1..(pending.serial + 1)
         /\ pending.size \in Nat /\ pending.size >= 3 /\ written \in 0..pending.size
         /\ (doing = "syncing") <=> (written = pending.size)
         /\ sound \in SUBSET Events /\ \A x \in sound : x.serial < pending.serial
         /\ \E b \in Seq(Cells) :
              /\ Grown(b, file, pending, written) /\ \A e \in Of(b) : e.serial < pending.serial
              /\ Found(b, pending.serial, sound, faults) /\ InUse(b, pending.id, faults)
<1>1. /\ up /\ begun \in Nat /\ nextId \in Nat /\ MaxRecords \in Nat
      /\ nextId \in 1..(begun + 2) /\ nextId <= begun + 1
  BY Constants DEF Inv, States, Calls, Appending
<1>2. /\ pending \in Events /\ pending.kind \in Kinds /\ pending.serial = begun
      /\ pending.id = nextId /\ written \in 0..pending.size
      /\ (doing = "syncing") <=> (written = pending.size)
  BY DEF Inv, Calls
<1>3. pending.size \in Nat /\ pending.size >= 3 /\ pending.id \in 1..(pending.serial + 1)
  <2>1. pending.size \in Nat /\ pending.size >= 3
    BY <1>2 DEF Events, MinRecord
  <2>. QED  BY <1>1, <1>2, <2>1
<1>4. sound \in SUBSET Events /\ \A x \in sound : x.serial < pending.serial
  BY <1>2 DEF Inv, Sounds
<1>5. \E b \in Seq(Cells) :
        /\ Grown(b, file, pending, written) /\ \A e \in Of(b) : e.serial < pending.serial
        /\ Found(b, pending.serial, sound, faults) /\ InUse(b, pending.id, faults)
  BY <1>2 DEF Inv, Logs
<1>. QED  BY <1>1, <1>2, <1>3, <1>4, <1>5

(* A write(): whatever part of it a power loss leaves is a record that grows. *)
LEMMA WriteStep ==
  ASSUME Inv, NEW n \in 1..pending.size, Write(n)
  PROVE  Inv'
<1>. DEFINE grown(m) == file \o SubSeq(Record(pending), written + 1, written + m)
<1>1. /\ doing = "writing" /\ written + n <= pending.size
      /\ file' = grown(n) /\ disk' = disk \cup {grown(m) : m \in 1..n}
      /\ written' = written + n
      /\ doing' = IF written' = pending.size THEN "syncing" ELSE "writing"
      /\ UNCHANGED <<stale, up, nextId, pending, temp, begun, ghosts>>
  BY DEF Write
<1>2. Appending
  BY <1>1 DEF Appending
<1>3. /\ up /\ begun \in Nat /\ nextId \in Nat
      /\ pending \in Events /\ pending.kind \in Kinds /\ pending.serial = begun
      /\ pending.id = nextId /\ pending.id \in 1..(pending.serial + 1)
      /\ pending.size \in Nat /\ pending.size >= 3 /\ written \in 0..pending.size
      /\ (doing = "syncing") <=> (written = pending.size)
      /\ sound \in SUBSET Events /\ \A x \in sound : x.serial < pending.serial
  BY <1>2, UnderWay
<1>4. PICK b \in Seq(Cells) :
        /\ Grown(b, file, pending, written) /\ \A e \in Of(b) : e.serial < pending.serial
        /\ Found(b, pending.serial, sound, faults) /\ InUse(b, pending.id, faults)
  BY <1>2, UnderWay
<1>5. ASSUME NEW m \in 1..n
      PROVE  /\ grown(m) \in Seq(Cells) /\ Grown(b, grown(m), pending, written + m)
             /\ Found(grown(m), begun, sound, faults)
  <2>1. m \in Nat /\ m >= 1 /\ written \in Nat /\ written + m <= pending.size
    BY <1>1, <1>3
  <2>2. file \in Seq(Cells)
    BY FoundFiles
  <2>. DEFINE g == grown(m)
  <2>3. g \in Seq(Cells) /\ Grown(b, g, pending, written + m)
    BY <1>3, <1>4, <2>1, <2>2, GrownOn
  <2>4. written + m \in 0..pending.size
    BY <1>3, <2>1
  <2>. HIDE DEF g
  <2>5. Found(g, pending.serial, sound, faults)
    BY <1>3, <1>4, <2>3, <2>4, GrownFound
  <2>. QED  BY <1>3, <2>3, <2>5 DEF g
<1>6. n \in 1..n
  BY <1>3
<1>. HIDE DEF grown
<1>7. Files'
  <2>1. \A f \in Possible' : f \in Possible \/ \E m \in 1..n : f = grown(m)
    BY <1>1, <1>6 DEF Possible
  <2>2. \A f \in Possible' : Found(f, begun, sound, faults)
    BY <1>5, <2>1, FoundFiles
  <2>. QED  BY <1>1, <2>2 DEF Files, ghosts
<1>8. States'
  <2>1. file' \in disk'
    BY <1>1, <1>6
  <2>2. /\ begun \in 0..MaxRecords /\ nextId \in 1..(begun + 2)
        /\ stale # {} => faults \cap {"directory", "rename"} # {}
        /\ faults \subseteq Failures \cup {"rename"} /\ sound \subseteq acked
    BY <1>1 DEF Inv, States
  <2>3. doing' \in {"writing", "syncing"}
    BY <1>1
  <2>. QED  BY <1>1, <1>3, <2>1, <2>2, <2>3 DEF States, ghosts
<1>9. Calls'
  <2>1. written + n \in 0..pending.size
    BY <1>1, <1>3
  <2>2. (doing' = "syncing") <=> (written' = pending.size)
    BY <1>1
  <2>3. doing' \in {"writing", "syncing"}
    BY <1>1
  <2>4. pending.size = Sizes[pending.key] /\ nextId <= begun + 1
    BY <1>2 DEF Inv, Calls
  <2>. QED  BY <1>1, <1>3, <2>1, <2>2, <2>3, <2>4 DEF Calls, Appending
<1>10. Logs'
  <2>1. doing' \in {"writing", "syncing"}
    BY <1>1
  <2>2. \E c \in Seq(Cells) :
          /\ Grown(c, file', pending', written') /\ \A e \in Of(c) : e.serial < begun'
          /\ Found(c, begun', sound', faults') /\ InUse(c, nextId', faults')
    BY <1>1, <1>3, <1>4, <1>5, <1>6 DEF ghosts
  <2>. QED  BY <2>1, <2>2 DEF Logs, Appending
<1>11. Compacted'
  BY <1>1 DEF Compacted, Compacting
<1>12. Sounds'
  BY <1>1, <1>2 DEF Inv, Sounds, Appending, ghosts
<1>. QED  BY <1>7, <1>8, <1>9, <1>10, <1>11, <1>12 DEF Inv

(* The file once the record under way is given up, or written and synced.     *)
LEMMA WrittenFile ==
  ASSUME Inv, Appending
  PROVE  /\ written # pending.size =>
              InUse(file, nextId, IF written > 0 THEN faults \cup {"write"} ELSE faults)
         /\ written = pending.size =>
              /\ InUse(file, nextId + 1, faults)
              /\ InUse(file, nextId, faults \cup {"sync"})
              /\ "write" \notin faults =>
                   /\ Clean(file)
                   /\ \E E \in Seq(Events) : /\ Read(file) = E \o <<pending>>
                                             /\ \A i \in 1..Len(E) : E[i].serial < begun
<1>1. /\ up /\ begun \in Nat /\ nextId \in Nat
      /\ pending \in Events /\ pending.kind \in Kinds /\ pending.serial = begun
      /\ pending.id = nextId /\ pending.id \in 1..(pending.serial + 1)
      /\ pending.size \in Nat /\ pending.size >= 3 /\ written \in 0..pending.size
      /\ sound \in SUBSET Events /\ \A x \in sound : x.serial < pending.serial
  BY UnderWay
<1>2. PICK b \in Seq(Cells) :
        /\ Grown(b, file, pending, written) /\ \A e \in Of(b) : e.serial < pending.serial
        /\ Found(b, pending.serial, sound, faults) /\ InUse(b, pending.id, faults)
  BY UnderWay
<1>3. file \in Seq(Cells)
  BY FoundFiles
<1>. DEFINE E == Read(b)
            G == Read(file)
<1>4. /\ Found(file, pending.serial, sound, faults)
      /\ written # pending.size => G = E
      /\ "directory" \notin faults => \A i \in 1..Len(G) : G[i].id <= pending.id
      /\ written = pending.size /\ "write" \notin faults => Clean(file) /\ G = E \o <<pending>>
  BY <1>1, <1>2, <1>3, GrownFound
<1>5. "directory" \notin faults => IdsUp(G, faults)
  BY <1>4 DEF Found
<1>6. ASSUME written # pending.size
      PROVE  InUse(file, nextId, IF written > 0 THEN faults \cup {"write"} ELSE faults)
  <2>1. "directory" \notin faults => IdsUp(G, faults) /\ Under(G, nextId, faults)
    BY <1>1, <1>2, <1>4, <1>6 DEF InUse
  <2>2. CASE written > 0
    <3>1. "directory" \notin (faults \cup {"write"}) =>
            /\ IdsUp(G, faults \cup {"write"})
            /\ Under(G, nextId, faults \cup {"write"})
      BY <2>1 DEF IdsUp, Under
    <3>2. InUse(file, nextId, faults \cup {"write"})
      BY <3>1 DEF InUse
    <3>. QED  BY <2>2, <3>2
  <2>3. CASE ~(written > 0)
    <3>1. written = 0
      BY <1>1, <2>3
    <3>2. Len(file) = Len(b) /\ \A i \in 1..Len(file) : file[i] = b[i]
      BY <1>2, <1>3, <3>1 DEF Grown, Agree
    <3>3. file = b
      BY <1>2, <1>3, <3>2, SeqEqual
    <3>. QED  BY <1>1, <1>2, <2>3, <3>3
  <2>. QED  BY <2>2, <2>3
<1>7. ASSUME written = pending.size
      PROVE  /\ InUse(file, nextId + 1, faults)
             /\ InUse(file, nextId, faults \cup {"sync"})
  <2>1. "write" \notin faults => Clean(file)
    BY <1>4, <1>7
  <2>2. G \in Seq(Events) /\ \A i \in 1..Len(G) : G[i].id \in Nat
    <3>1. G \in Seq(Events)
      BY <1>3, ReadType
    <3>. HIDE DEF G
    <3>2. \A i \in 1..Len(G) : G[i] \in Events
      BY <3>1
    <3>. QED  BY <3>1, <3>2 DEF Events
  <2>3. "directory" \notin faults => \A i \in 1..Len(G) : G[i].id <= nextId /\ G[i].id < nextId + 1
    BY <1>1, <1>4, <2>2
  <2>. HIDE DEF G
  <2>4. "directory" \notin faults => IdsUp(G, faults) /\ Under(G, nextId + 1, faults)
    BY <1>5, <2>3 DEF Under
  <2>5. "directory" \notin faults =>
          IdsUp(G, faults \cup {"sync"}) /\ Under(G, nextId, faults \cup {"sync"})
    BY <1>5, <2>3 DEF Under, IdsUp
  <2>. QED  BY <2>1, <2>4, <2>5 DEF InUse, G
<1>8. ASSUME written = pending.size, "write" \notin faults
      PROVE  /\ Clean(file)
             /\ \E e \in Seq(Events) : /\ G = e \o <<pending>>
                                       /\ \A i \in 1..Len(e) : e[i].serial < begun
  <2>1. E \in Seq(Events) /\ E \in Seq(Of(b))
    BY <1>2, ReadType
  <2>2. \A i \in 1..Len(E) : E[i].serial < begun
    <3>. HIDE DEF E
    <3>1. \A i \in 1..Len(E) : E[i] \in Of(b)
      BY <2>1
    <3>. QED  BY <1>1, <1>2, <3>1
  <2>. HIDE DEF E
  <2>. QED  BY <1>4, <1>8, <2>1, <2>2
<1>. QED  BY <1>6, <1>7, <1>8

(* A call that does not damage the log further leaves it and its files.       *)
LEMMA SameFiles ==
  ASSUME Inv, UNCHANGED fileVars, UNCHANGED <<begun, sound>>, faults \subseteq faults'
  PROVE  Files'
<1>1. begun \in Nat /\ begun <= begun
  BY FoundFiles
<1>2. \A f \in Possible : Found(f, begun, sound, faults')
  <2>. SUFFICES ASSUME NEW f \in Possible  PROVE  Found(f, begun, sound, faults')
    OBVIOUS
  <2>1. Found(f, begun, sound, faults)
    BY FoundFiles
  <2>. QED  BY <1>1, <2>1, FoundStays
<1>3. Possible' = Possible
  BY DEF Possible, fileVars
<1>. QED  BY <1>2, <1>3 DEF Files

(* A failed write: a record that was begun is damage.                         *)
LEMMA WriteFailsStep ==
  ASSUME Inv, WriteFails
  PROVE  Inv'
<1>1. /\ doing = "writing" /\ "write" \in Failures /\ doing' = "nothing"
      /\ pending' = NoEvent /\ written' = 0 /\ temp' = <<>>
      /\ faults' = IF written > 0 THEN faults \cup {"write"} ELSE faults
      /\ UNCHANGED <<fileVars, up, nextId, begun, acked, sound>>
  BY DEF WriteFails, Leave
<1>2. Appending
  BY <1>1 DEF Appending
<1>3. faults \subseteq faults' /\ faults' \subseteq Failures \cup {"rename"}
  BY <1>1 DEF Inv, States
<1>4. Files'
  BY <1>1, <1>3, SameFiles
<1>5. States'
  BY <1>1, <1>3 DEF Inv, States, fileVars
<1>6. Calls'
  BY <1>1 DEF Calls, Appending
<1>7. Logs'
  <2>1. written # pending.size
    BY <1>1, <1>2, UnderWay
  <2>2. InUse(file, nextId, IF written > 0 THEN faults \cup {"write"} ELSE faults)
    BY <1>2, <2>1, WrittenFile
  <2>3. InUse(file, nextId, faults')
    BY <1>1, <2>2
  <2>. QED  BY <1>1, <2>3 DEF Logs, Appending, fileVars
<1>8. Compacted' /\ Sounds'
  BY <1>1 DEF Inv, Compacted, Compacting, Sounds, Appending
<1>. QED  BY <1>4, <1>5, <1>6, <1>7, <1>8 DEF Inv

(* A failed fsync: the record is whole, and its id is not yet taken.          *)
LEMMA SyncFailsStep ==
  ASSUME Inv, SyncFails
  PROVE  Inv'
<1>1. /\ doing = "syncing" /\ "sync" \in Failures /\ doing' = "nothing"
      /\ pending' = NoEvent /\ written' = 0 /\ temp' = <<>>
      /\ faults' = faults \cup {"sync"}
      /\ UNCHANGED <<fileVars, up, nextId, begun, acked, sound>>
  BY DEF SyncFails, Leave
<1>2. Appending
  BY <1>1 DEF Appending
<1>3. faults \subseteq faults' /\ faults' \subseteq Failures \cup {"rename"}
  BY <1>1 DEF Inv, States
<1>4. Files'
  BY <1>1, <1>3, SameFiles
<1>5. States'
  BY <1>1, <1>3 DEF Inv, States, fileVars
<1>6. Calls'
  BY <1>1 DEF Calls, Appending
<1>7. Logs'
  <2>1. written = pending.size
    BY <1>1, <1>2, UnderWay
  <2>2. InUse(file, nextId, faults')
    BY <1>1, <1>2, <2>1, WrittenFile
  <2>. QED  BY <1>1, <2>2 DEF Logs, Appending, fileVars
<1>8. Compacted' /\ Sounds'
  BY <1>1 DEF Inv, Compacted, Compacting, Sounds, Appending
<1>. QED  BY <1>4, <1>5, <1>6, <1>7, <1>8 DEF Inv

(* append() returns: its event stands in the one file that can be found.      *)
LEMMA SyncAppendStep ==
  ASSUME Inv, SyncAppend
  PROVE  Inv'
<1>1. /\ doing = "syncing" /\ doing' = "nothing"
      /\ pending' = NoEvent /\ written' = 0 /\ temp' = <<>> /\ disk' = {file}
      /\ nextId' = nextId + 1 /\ acked' = acked \cup {pending}
      /\ sound' = IF faults \subseteq {"sync"} THEN sound \cup {pending} ELSE sound
      /\ UNCHANGED <<file, stale, up, begun, faults>>
  BY DEF SyncAppend, Acknowledge, Leave
<1>2. Appending
  BY <1>1 DEF Appending
<1>3. /\ begun \in Nat /\ nextId \in Nat
      /\ pending \in Events /\ pending.kind \in Kinds /\ pending.serial = begun
      /\ sound \in SUBSET Events /\ \A x \in sound : x.serial < pending.serial
      /\ written = pending.size
  BY <1>1, <1>2, UnderWay
<1>4. /\ InUse(file, nextId + 1, faults)
      /\ "write" \notin faults =>
           /\ Clean(file)
           /\ \E E \in Seq(Events) : /\ Read(file) = E \o <<pending>>
                                     /\ \A i \in 1..Len(E) : E[i].serial < begun
  BY <1>2, <1>3, WrittenFile
<1>5. States'
  <2>1. nextId <= begun + 1
    BY <1>2 DEF Inv, Calls
  <2>2. nextId + 1 \in 1..(begun + 2)
    BY <1>3, <2>1
  <2>. QED  BY <1>1, <2>2 DEF Inv, States
<1>6. Calls'
  BY <1>1 DEF Calls, Appending
<1>7. Logs'
  BY <1>1, <1>4 DEF Logs, Appending
<1>8. Compacted'
  BY <1>1 DEF Compacted, Compacting
<1>9. Sounds'
  <2>1. \A x \in sound' : x \in Events /\ x.kind \in Kinds /\ x.serial <= begun
    BY <1>1, <1>3 DEF Inv, Sounds
  <2>. QED  BY <1>1, <2>1 DEF Sounds, Appending
<1>10. Files'
  <2>1. CASE ~(faults \subseteq {"sync"})
    <3>1. \A f \in Possible' : f \in Possible
      BY <1>1 DEF Possible
    <3>2. sound' = sound
      BY <1>1, <2>1
    <3>. QED  BY <1>1, <3>1, <3>2, FoundFiles DEF Files
  <2>2. CASE faults \subseteq {"sync"}
    <3>1. stale = {} /\ "write" \notin faults
      BY <1>1, <2>2 DEF Inv, States
    <3>2. \A f \in Possible' : f = file
      BY <1>1, <3>1 DEF Possible
    <3>3. PICK E \in Seq(Events) : /\ Read(file) = E \o <<pending>>
                                   /\ \A i \in 1..Len(E) : E[i].serial < begun
      BY <1>4, <3>1
    <3>4. Clean(file) /\ file \in Seq(Cells) /\ Found(file, begun, sound, faults)
      BY <1>4, <3>1, FoundFiles
    <3>. DEFINE G == Read(file)
    <3>5. /\ Len(E) \in Nat /\ Len(G) = Len(E) + 1
          /\ \A i \in 1..Len(E) : G[i] = E[i]
          /\ G[Len(E) + 1] = pending
          /\ \A i \in 1..(Len(E) + 1) : i \in 1..Len(E) \/ i = Len(E) + 1
      BY <1>3, <3>3, OneMore
    <3>6. SameIn(pending, G)
      <4>. SUFFICES ASSUME NEW i \in 1..Len(G), G[i].serial = pending.serial
                    PROVE  G[i].kind = pending.kind /\ G[i].key = pending.key
        BY DEF SameIn
      <4>1. CASE i \in 1..Len(E)
        <5>1. G[i].serial < begun
          BY <3>3, <3>5, <4>1
        <5>. QED  BY <1>3, <5>1
      <4>2. CASE i = Len(E) + 1
        BY <3>5, <4>2
      <4>. QED  BY <3>5, <4>1, <4>2
    <3>7. StandsIn(pending, G)
      <4>1. Len(E) + 1 \in 1..Len(G) /\ G[Len(E) + 1].serial = pending.serial
        BY <3>5
      <4>. QED  BY <4>1 DEF StandsIn
    <3>8. ASSUME NEW x \in sound  PROVE  StandsIn(x, G)
      <4>1. PICK p \in Seq(Cells) : Agree(p, file) /\ Clean(p) /\ \A e \in sound : StandsIn(e, Read(p))
        BY <3>4 DEF Found, Keeps
      <4>2. PICK rest \in Seq(Events) : G = Read(p) \o rest
        BY <3>4, <4>1, ReadPrefix
      <4>3. Read(p) \in Seq(Events) /\ StandsIn(x, Read(p))
        BY <4>1, ReadType
      <4>. QED  BY <4>2, <4>3, StandsOn
    <3>9. Agree(file, file)
      <4>1. Len(file) \in Nat
        BY <3>4
      <4>. QED  BY <4>1 DEF Agree
    <3>. HIDE DEF G
    <3>10. Keeps(file, sound \cup {pending})
      BY <3>4, <3>7, <3>8, <3>9 DEF Keeps, G
    <3>11. \A x \in sound \cup {pending} : SameIn(x, Read(file))
      BY <3>4, <3>6 DEF Found, G
    <3>12. Found(file, begun, sound \cup {pending}, faults)
      BY <3>4, <3>10, <3>11 DEF Found
    <3>. QED  BY <1>1, <2>2, <3>2, <3>12 DEF Files
  <2>. QED  BY <2>1, <2>2
<1>. QED  BY <1>5, <1>6, <1>7, <1>8, <1>9, <1>10 DEF Inv

(* A compaction that gave up: the log was not touched.                        *)
LEMMA CompactFailsStep ==
  ASSUME Inv, CompactFails
  PROVE  Inv'
<1>1. /\ up /\ doing = "replacing" /\ doing' = "nothing"
      /\ pending' = NoEvent /\ written' = 0 /\ temp' = <<>>
      /\ UNCHANGED <<fileVars, up, nextId, begun, ghosts>>
  BY DEF CompactFails, Leave
<1>2. Files'
  BY <1>1, SameFiles DEF ghosts
<1>3. States'
  BY <1>1 DEF Inv, States, fileVars, ghosts
<1>4. Calls'
  BY <1>1 DEF Calls, Appending
<1>5. Logs'
  BY <1>1 DEF Inv, Logs, Appending, fileVars, ghosts
<1>6. Compacted' /\ Sounds'
  BY <1>1 DEF Inv, Compacted, Compacting, Sounds, Appending, ghosts
<1>. QED  BY <1>2, <1>3, <1>4, <1>5, <1>6 DEF Inv

(* rename(): the compacted log may be found, as may the old one.              *)
LEMMA ReplaceStep ==
  ASSUME Inv, Replace
  PROVE  Inv'
<1>1. /\ up /\ doing = "replacing" /\ doing' = "replaced"
      /\ file' = temp /\ disk' = {temp} /\ stale' = stale \cup disk
      /\ UNCHANGED <<up, nextId, callVars, begun, ghosts>>
  BY DEF Replace
<1>2. Found(temp, begun, sound, faults)
  BY <1>1 DEF Inv, Compacted, Compacting
<1>3. Files'
  <2>1. \A f \in Possible' : f = temp \/ f \in Possible
    BY <1>1 DEF Possible
  <2>. QED  BY <1>1, <1>2, <2>1, FoundFiles DEF Files, ghosts
<1>4. States'
  BY <1>1 DEF Inv, States, ghosts
<1>5. Calls'
  BY <1>1 DEF Inv, Calls, Appending, callVars
<1>6. Logs'
  BY <1>1 DEF Logs, Appending
<1>7. Compacted' /\ Sounds'
  BY <1>1 DEF Inv, Compacted, Compacting, Sounds, Appending, ghosts, callVars
<1>. QED  BY <1>3, <1>4, <1>5, <1>6, <1>7 DEF Inv

(* The directory is synced: only the compacted log is left, and the next id   *)
(* is past it.                                                                *)
LEMMA SyncDirectoryStep ==
  ASSUME Inv, SyncDirectory
  PROVE  Inv'
<1>. DEFINE last == temp[Len(temp)].of
<1>1. /\ up /\ doing = "replaced" /\ doing' = "nothing" /\ stale' = {}
      /\ nextId' = last.id + 1
      /\ pending' = NoEvent /\ written' = 0 /\ temp' = <<>>
      /\ UNCHANGED <<file, disk, up, begun, ghosts>>
  BY DEF SyncDirectory, Leave
<1>2. /\ file = temp /\ begun \in Nat /\ Found(temp, begun, sound, faults) /\ Clean(temp)
      /\ temp # <<>> /\ Read(temp) # <<>> /\ Read(temp)[Len(Read(temp))] = last
      /\ temp \in Seq(Cells)
  BY <1>1, FoundFiles DEF Inv, Compacted, Compacting, Found
<1>3. last \in Events /\ last.serial \in Nat /\ last.serial <= begun /\ last.id \in 1..(last.serial + 1)
  <2>1. Len(temp) \in DOMAIN temp
    BY <1>2
  <2>2. last \in Of(temp)
    BY <2>1 DEF Of
  <2>3. last \in Events
    BY <1>2, <2>2, OfEvents
  <2>4. last.serial <= begun /\ last.id \in 1..(last.serial + 1)
    BY <1>2, <2>2 DEF Found
  <2>. QED  BY <2>3, <2>4 DEF Events
<1>. HIDE DEF last
<1>4. States'
  <2>1. last.id + 1 \in 1..(begun + 2)
    BY <1>2, <1>3
  <2>. QED  BY <1>1, <2>1 DEF Inv, States, ghosts
<1>5. Calls'
  BY <1>1 DEF Calls, Appending
<1>6. Files'
  <2>1. \A f \in Possible' : f \in Possible
    BY <1>1 DEF Possible
  <2>. QED  BY <1>1, <2>1, FoundFiles DEF Files, ghosts
<1>7. InUse(temp, last.id + 1, faults)
  <2>. DEFINE E == Read(temp)
  <2>1. "directory" \notin faults => IdsUp(E, faults)
    BY <1>2 DEF Found
  <2>2. E \in Seq(Events)
    BY <1>2, ReadType
  <2>3. E # <<>> /\ E[Len(E)] = last
    BY <1>2
  <2>. HIDE DEF E
  <2>4. Len(E) \in Nat /\ Len(E) \in 1..Len(E) /\ \A i \in 1..Len(E) : E[i] \in Events
    BY <2>2, <2>3
  <2>5. ASSUME IdsUp(E, faults), NEW i \in 1..Len(E)  PROVE  E[i].id < last.id + 1
    <3>1. E[i].id \in Nat /\ last.id \in Nat
      BY <1>3, <2>4 DEF Events
    <3>2. CASE i = Len(E)
      BY <2>3, <3>1, <3>2
    <3>3. CASE i < Len(E)
      <4>1. E[i].id <= last.id
        BY <2>3, <2>4, <2>5, <3>1, <3>3 DEF IdsUp
      <4>. QED  BY <3>1, <4>1
    <3>4. i = Len(E) \/ i < Len(E)
      <4>. DEFINE n == Len(E)
      <4>1. n \in Nat /\ i \in 1..n
        BY <2>4
      <4>. HIDE DEF n
      <4>2. i = n \/ i < n
        BY ONLY <4>1
      <4>. QED  BY <4>2 DEF n
    <3>. QED  BY ONLY <3>2, <3>3, <3>4
  <2>6. "directory" \notin faults => Under(E, last.id + 1, faults)
    BY <2>1, <2>5 DEF Under
  <2>. QED  BY <1>2, <2>1, <2>6 DEF InUse, E
<1>8. Logs'
  BY <1>1, <1>2, <1>7 DEF Logs, Appending, ghosts
<1>9. Compacted' /\ Sounds'
  BY <1>1 DEF Inv, Compacted, Compacting, Sounds, Appending, ghosts
<1>. QED  BY <1>4, <1>5, <1>6, <1>8, <1>9 DEF Inv

(* It is not: both may be found, and the ids may be set back.                 *)
LEMMA DirectoryFailsStep ==
  ASSUME Inv, DirectoryFails
  PROVE  Inv'
<1>1. /\ up /\ doing = "replaced" /\ "directory" \in Failures /\ doing' = "nothing"
      /\ pending' = NoEvent /\ written' = 0 /\ temp' = <<>>
      /\ faults' = faults \cup {"directory"}
      /\ UNCHANGED <<fileVars, up, nextId, begun, acked, sound>>
  BY DEF DirectoryFails, Leave
<1>2. faults \subseteq faults' /\ faults' \subseteq Failures \cup {"rename"}
  BY <1>1 DEF Inv, States
<1>3. Files'
  BY <1>1, <1>2, SameFiles
<1>4. States'
  BY <1>1, <1>2 DEF Inv, States, fileVars
<1>5. Calls'
  BY <1>1 DEF Calls, Appending
<1>6. Logs'
  <2>1. file = temp /\ Clean(temp)
    BY <1>1 DEF Inv, Compacted, Compacting
  <2>2. InUse(file, nextId, faults \cup {"directory"})
    BY <2>1 DEF InUse
  <2>. QED  BY <1>1, <2>2 DEF Logs, Appending, fileVars
<1>7. Compacted' /\ Sounds'
  BY <1>1 DEF Inv, Compacted, Compacting, Sounds, Appending
<1>. QED  BY <1>3, <1>4, <1>5, <1>6, <1>7 DEF Inv

(* The process dies: what may be found stays.                                 *)
LEMMA KillStep ==
  ASSUME Inv, Kill
  PROVE  Inv'
<1>1. /\ up /\ up' = FALSE /\ nextId' = 1 /\ doing' = "nothing"
      /\ pending' = NoEvent /\ written' = 0 /\ temp' = <<>>
      /\ faults' = IF doing = "replaced" THEN faults \cup {"rename"} ELSE faults
      /\ UNCHANGED <<fileVars, begun, acked, sound>>
  BY DEF Kill, Die, Leave
<1>2. faults \subseteq faults' /\ faults' \subseteq Failures \cup {"rename"} /\ begun \in Nat
  BY <1>1, FoundFiles DEF Inv, States
<1>3. Files'
  BY <1>1, <1>2, SameFiles
<1>4. States'
  <2>1. 1 \in 1..(begun + 2)
    BY <1>2
  <2>2. stale # {} => faults' \cap {"directory", "rename"} # {}
    BY <1>1, <1>2 DEF Inv, States
  <2>. QED  BY <1>1, <1>2, <2>1, <2>2 DEF Inv, States, fileVars
<1>5. Calls'
  BY <1>1 DEF Calls, Appending
<1>6. Logs' /\ Compacted' /\ Sounds'
  BY <1>1 DEF Inv, Logs, Compacted, Compacting, Sounds, Appending
<1>. QED  BY <1>3, <1>4, <1>5, <1>6 DEF Inv

(* The machine dies: one of the contents that may be found is.                *)
LEMMA PowerLossStep ==
  ASSUME Inv, PowerLoss
  PROVE  Inv'
<1>1. PICK f \in disk \cup stale : file' = f /\ disk' = {f}
  BY DEF PowerLoss
<1>2. /\ up /\ up' = FALSE /\ nextId' = 1 /\ doing' = "nothing" /\ stale' = {}
      /\ pending' = NoEvent /\ written' = 0 /\ temp' = <<>>
      /\ UNCHANGED <<begun, acked, sound, faults>>
  BY DEF PowerLoss, Die, Leave
<1>3. f \in Possible /\ begun \in Nat
  BY FoundFiles DEF Possible
<1>4. Files'
  <2>1. \A g \in Possible' : g \in Possible
    BY <1>1, <1>2, <1>3 DEF Possible
  <2>. QED  BY <1>2, <2>1, FoundFiles DEF Files
<1>5. States'
  <2>1. 1 \in 1..(begun + 2)
    BY <1>3
  <2>. QED  BY <1>1, <1>2, <2>1 DEF Inv, States
<1>6. Calls'
  BY <1>2 DEF Calls, Appending
<1>7. Logs' /\ Compacted' /\ Sounds'
  BY <1>2 DEF Inv, Logs, Compacted, Compacting, Sounds, Appending
<1>. QED  BY <1>4, <1>5, <1>6, <1>7 DEF Inv

(* The events compaction adds come after all others.                          *)
LEMMA AddedIs ==
  ASSUME NEW E, begun \in Nat, nextId \in Nat, nextId >= 1
  PROVE  /\ Added(E) \in Seq(Events) /\ Len(Added(E)) \in 1..2
         /\ \A i \in 1..Len(Added(E)) :
              /\ Added(E)[i].kind \in {"migrated", "marker"}
              /\ Added(E)[i].serial = begun + i /\ Added(E)[i].id = nextId + i - 1
<1>. DEFINE m == Event("migrated", NoKey, nextId, MinRecord, begun + 1, 2)
            k(n) == Event("marker", NoKey, nextId + n, MinRecord, begun + n + 1, 2)
            Fine(a) == /\ a \in Seq(Events) /\ Len(a) \in 1..2
                       /\ \A i \in 1..Len(a) :
                            /\ a[i].kind \in {"migrated", "marker"}
                            /\ a[i].serial = begun + i /\ a[i].id = nextId + i - 1
<1>1. /\ m \in Events /\ m.kind = "migrated" /\ m.serial = begun + 1 /\ m.id = nextId + 1 - 1
  BY DEF Events, Event, MinRecord
<1>2. ASSUME NEW n \in {0, 1}
      PROVE  /\ k(n) \in Events /\ k(n).kind = "marker" /\ k(n).serial = begun + (n + 1)
             /\ k(n).id = nextId + (n + 1) - 1
  BY DEF Events, Event, MinRecord
<1>3. CASE Legacy(E)
  <2>1. Added(E) = <<m>> \o <<k(1)>>
    BY <1>3 DEF Added
  <2>2. m \in Events /\ k(1) \in Events
    BY <1>1, <1>2
  <2>. HIDE DEF m, k, Events
  <2>. DEFINE a == <<m>> \o <<k(1)>>
  <2>3. /\ <<m>> \in Seq(Events) /\ <<k(1)>> \in Seq(Events)
        /\ Len(<<m>>) = 1 /\ Len(<<k(1)>>) = 1 /\ <<m>>[1] = m /\ <<k(1)>>[1] = k(1)
    BY <2>2
  <2>4. a \in Seq(Events) /\ Len(a) = 2 /\ a[1] = m /\ a[2] = k(1)
    <3>. DEFINE b == <<m>>
                c == <<k(1)>>
    <3>. HIDE DEF b, c
    <3>1. /\ b \in Seq(Events) /\ c \in Seq(Events)
          /\ Len(b) = 1 /\ Len(c) = 1 /\ b[1] = m /\ c[1] = k(1)
      BY <2>3 DEF b, c
    <3>2. /\ b \o c \in Seq(Events) /\ Len(b \o c) = 2
          /\ (b \o c)[1] = b[1] /\ (b \o c)[2] = c[1]
      BY <3>1, ConcatProperties
    <3>. QED  BY <3>1, <3>2 DEF a, b, c
  <2>. HIDE DEF a
  <2>5. \A i \in 1..2 : i = 1 \/ i = 2
    OBVIOUS
  <2>6. Fine(a)
    BY <1>1, <1>2, <2>4, <2>5
  <2>. HIDE DEF Fine
  <2>7. Fine(Added(E))
    BY <2>1, <2>6 DEF a
  <2>. QED  BY <2>7 DEF Fine
<1>4. CASE ~Legacy(E)
  <2>1. Added(E) = <<>> \o <<k(0)>>
    BY <1>4 DEF Added
  <2>. HIDE DEF m, k
  <2>2. <<>> \o <<k(0)>> = <<k(0)>>
    OBVIOUS
  <2>3. k(0) \in Events
    BY <1>2
  <2>. DEFINE a == <<k(0)>>
  <2>4. a \in Seq(Events) /\ Len(a) = 1 /\ a[1] = k(0)
    BY <2>3
  <2>. HIDE DEF a
  <2>5. \A i \in 1..1 : i = 1
    OBVIOUS
  <2>6. Fine(a)
    BY <1>2, <2>4, <2>5
  <2>. HIDE DEF Fine
  <2>7. Fine(Added(E))
    BY <2>1, <2>2, <2>6 DEF a
  <2>. QED  BY <2>7 DEF Fine
<1>. QED  BY <1>3, <1>4

(* compact(): the kept and the added events are a log that keeps what is      *)
(* sound.                                                                     *)
LEMMA CompactStep ==
  ASSUME Inv, Compact
  PROVE  Inv'
<1>. DEFINE E == Read(file)
            K == Kept(E)
            A == Added(E)
            G == K \o A
<1>1. /\ up /\ doing = "nothing" /\ Clean(file)
      /\ begun + Len(A) <= MaxRecords /\ begun' = begun + Len(A) /\ temp' = Records(G)
      /\ Replay(temp') = [events |-> G, corrupt |-> FALSE, torn |-> FALSE, valid |-> Len(temp')]
      /\ doing' = "replacing"
      /\ UNCHANGED <<fileVars, up, nextId, pending, written, ghosts>>
  BY DEF Compact, Free, Read, Clean
<1>2. /\ begun \in Nat /\ MaxRecords \in Nat /\ nextId \in Nat /\ nextId >= 1 /\ nextId <= begun + 2
      /\ sound \in SUBSET Events /\ file \in Seq(Cells)
      /\ Found(file, begun, sound, faults) /\ InUse(file, nextId, faults)
  BY <1>1, FoundFiles, Constants DEF Inv, States, Logs
<1>3. E \in Seq(Events) /\ \A i \in 1..Len(E) : E[i] \in Events /\ E[i].serial <= begun
                                               /\ E[i].id \in 1..(E[i].serial + 1)
  <2>1. E \in Seq(Events) /\ E \in Seq(Of(file)) /\ Of(file) \subseteq Events
    BY <1>2, ReadType, OfEvents
  <2>. HIDE DEF E
  <2>2. \A i \in 1..Len(E) : E[i] \in Of(file) /\ E[i] \in Events
    BY <2>1
  <2>. QED  BY <1>2, <2>1, <2>2 DEF Found
<1>4. \A i \in 1..Len(E) : E[i].serial \in Nat /\ E[i].id \in Nat
  BY <1>3 DEF Events
<1>5. SerialsUp(E) /\ \A e \in sound : SameIn(e, E)
  BY <1>2 DEF Found
<1>. HIDE DEF E
<1>6. /\ A \in Seq(Events) /\ Len(A) \in 1..2
      /\ \A i \in 1..Len(A) :
           /\ A[i].kind \in {"migrated", "marker"}
           /\ A[i].serial = begun + i /\ A[i].id = nextId + i - 1
  BY <1>2, AddedIs
<1>7. K \in Seq(Events)
  BY <1>3, KeptPlaces
<1>8. PICK at \in [1..Len(K) -> 1..Len(E)] :
         /\ \A n \in 1..Len(K) :
              /\ ~Redundant(E, at[n])
              /\ K[n].kind = E[at[n]].kind
              /\ K[n].key = E[at[n]].key
              /\ K[n].id = E[at[n]].id
              /\ K[n].serial = E[at[n]].serial
         /\ \A n, k \in 1..Len(K) : n < k => at[n] < at[k]
         /\ \A i \in 1..Len(E) :
              ~Redundant(E, i) => \E n \in 1..Len(K) : at[n] = i
  BY <1>3, KeptPlaces
<1>9. ASSUME NEW e \in sound  PROVE  StandsIn(e, G) /\ SameIn(e, K)
  <2>1. PICK p \in Seq(Cells) : Agree(p, file) /\ Clean(p) /\ \A x \in sound : StandsIn(x, Read(p))
    BY <1>2 DEF Found, Keeps
  <2>2. PICK rest \in Seq(Events) : E = Read(p) \o rest
    BY <1>2, <2>1, ReadPrefix DEF E
  <2>3. Read(p) \in Seq(Events) /\ StandsIn(e, Read(p))
    BY <2>1, ReadType
  <2>4. StandsIn(e, E)
    BY <2>2, <2>3, StandsOn
  <2>5. e \in Events /\ e.kind \in Kinds /\ SameIn(e, E)
    BY <1>2, <1>5 DEF Inv, Sounds
  <2>. QED  BY <1>3, <1>5, <1>6, <2>4, <2>5, KeptStands
<1>. HIDE DEF K, A
<1>10. /\ G \in Seq(Events) /\ Len(K) \in Nat /\ Len(A) \in Nat /\ Len(G) = Len(K) + Len(A)
       /\ \A i \in 1..(Len(K) + Len(A)) : G[i] = IF i <= Len(K) THEN K[i] ELSE A[i - Len(K)]
  <2>1. Len(K) \in Nat /\ Len(A) \in Nat
    BY <1>6, <1>7
  <2>. HIDE DEF Events
  <2>. QED  BY <1>6, <1>7, <2>1, ConcatProperties
<1>. HIDE DEF G
<1>11. ASSUME NEW i \in 1..Len(G)
       PROVE  \/ i \in 1..Len(K) /\ G[i] = K[i]
              \/ i > Len(K) /\ i - Len(K) \in 1..Len(A) /\ G[i] = A[i - Len(K)]
  <2>1. i \in 1..(Len(K) + Len(A)) /\ i \in Nat
    BY <1>10
  <2>2. CASE i <= Len(K)
    BY <1>10, <2>1, <2>2
  <2>3. CASE ~(i <= Len(K))
    <3>1. i > Len(K) /\ i - Len(K) \in 1..Len(A)
      BY <1>10, <2>1, <2>3
    <3>. QED  BY <1>10, <2>1, <2>3, <3>1
  <2>. QED  BY <2>2, <2>3
<1>12. ASSUME NEW i \in 1..Len(K)
       PROVE  /\ at[i] \in 1..Len(E) /\ K[i].serial \in Nat /\ K[i].serial <= begun
              /\ K[i].id \in 1..(K[i].serial + 1) /\ K[i].id \in Nat
  BY <1>3, <1>4, <1>8
<1>13. ASSUME NEW i \in 1..Len(A)
       PROVE  /\ A[i].serial \in Nat /\ A[i].serial > begun /\ A[i].serial <= begun + Len(A)
              /\ A[i].id \in 1..(A[i].serial + 1) /\ A[i].id \in Nat /\ A[i].id >= nextId
  <2>1. i \in Nat /\ i >= 1 /\ i <= Len(A)
    BY <1>10
  <2>2. A[i].serial = begun + i /\ A[i].id = nextId + i - 1
    BY <1>6
  <2>. QED  BY <1>2, <1>10, <2>1, <2>2
<1>14. SerialsUp(G)
  <2>. SUFFICES ASSUME NEW i \in 1..Len(G), NEW j \in 1..Len(G), i < j
                PROVE  G[i].serial < G[j].serial
    BY DEF SerialsUp
  <2>1. CASE i \in 1..Len(K) /\ G[i] = K[i] /\ j \in 1..Len(K) /\ G[j] = K[j]
    <3>1. at[i] < at[j] /\ at[i] \in 1..Len(E) /\ at[j] \in 1..Len(E)
      BY <1>8, <2>1
    <3>2. E[at[i]].serial < E[at[j]].serial
      BY <1>5, <3>1 DEF SerialsUp
    <3>. QED  BY <1>8, <2>1, <3>2
  <2>2. CASE i \in 1..Len(K) /\ G[i] = K[i] /\ j - Len(K) \in 1..Len(A) /\ G[j] = A[j - Len(K)]
    <3>1. K[i].serial \in Nat /\ K[i].serial <= begun /\ begun \in Nat
      BY <1>2, <1>12, <2>2
    <3>2. A[j - Len(K)].serial \in Nat /\ A[j - Len(K)].serial > begun
      BY <1>13, <2>2
    <3>3. K[i].serial < A[j - Len(K)].serial
      BY ONLY <3>1, <3>2
    <3>. QED  BY ONLY <2>2, <3>3, Zenon
  <2>3. CASE /\ i - Len(K) \in 1..Len(A) /\ G[i] = A[i - Len(K)]
             /\ j - Len(K) \in 1..Len(A) /\ G[j] = A[j - Len(K)]
    <3>1. G[i].serial = begun + (i - Len(K)) /\ G[j].serial = begun + (j - Len(K))
      BY <1>6, <2>3
    <3>. QED  BY <1>2, <1>10, <3>1
  <2>4. CASE i > Len(K) /\ j \in 1..Len(K)
    BY <1>10, <2>4
  <2>5. /\ \/ i \in 1..Len(K) /\ G[i] = K[i]
           \/ i > Len(K) /\ i - Len(K) \in 1..Len(A) /\ G[i] = A[i - Len(K)]
        /\ \/ j \in 1..Len(K) /\ G[j] = K[j]
           \/ j > Len(K) /\ j - Len(K) \in 1..Len(A) /\ G[j] = A[j - Len(K)]
    BY ONLY <1>11, i \in 1..Len(G), j \in 1..Len(G)
  <2>. QED  BY ONLY <2>1, <2>2, <2>3, <2>4, <2>5, Zenon
<1>15. ASSUME "directory" \notin faults  PROVE  IdsUp(G, faults)
  <2>0. IdsUp(E, faults) /\ Under(E, nextId, faults)
    BY <1>2, <1>15 DEF InUse, E
  <2>. SUFFICES ASSUME NEW i \in 1..Len(G), NEW j \in 1..Len(G), i < j
                PROVE  G[i].id < G[j].id \/ ("sync" \in faults /\ G[i].id <= G[j].id)
    BY DEF IdsUp
  <2>1. CASE i \in 1..Len(K) /\ G[i] = K[i] /\ j \in 1..Len(K) /\ G[j] = K[j]
    <3>1. at[i] < at[j] /\ at[i] \in 1..Len(E) /\ at[j] \in 1..Len(E)
      BY <1>8, <2>1
    <3>2. \/ E[at[i]].id < E[at[j]].id
          \/ "sync" \in faults /\ E[at[i]].id <= E[at[j]].id
      BY <2>0, <3>1 DEF IdsUp
    <3>. QED  BY <1>8, <2>1, <3>2
  <2>2. CASE i \in 1..Len(K) /\ G[i] = K[i] /\ j - Len(K) \in 1..Len(A) /\ G[j] = A[j - Len(K)]
    <3>1. at[i] \in 1..Len(E) /\ K[i].id = E[at[i]].id
      BY <1>8, <2>2
    <3>2. E[at[i]].id < nextId \/ ("sync" \in faults /\ E[at[i]].id <= nextId)
      BY <2>0, <3>1 DEF Under
    <3>3. A[j - Len(K)].id >= nextId /\ A[j - Len(K)].id \in Nat
      BY <1>13, <2>2
    <3>4. K[i].id \in Nat
      BY <1>12, <2>2
    <3>5. G[i].id = E[at[i]].id /\ G[j].id = A[j - Len(K)].id
      BY ONLY <2>2, <3>1
    <3>. QED  BY ONLY <1>2, <3>1, <3>2, <3>3, <3>4, <3>5
  <2>3. CASE /\ i - Len(K) \in 1..Len(A) /\ G[i] = A[i - Len(K)]
             /\ j - Len(K) \in 1..Len(A) /\ G[j] = A[j - Len(K)]
    <3>1. G[i].id = nextId + (i - Len(K)) - 1 /\ G[j].id = nextId + (j - Len(K)) - 1
      BY <1>6, <2>3
    <3>. QED  BY <1>2, <1>10, <3>1
  <2>4. CASE i > Len(K) /\ j \in 1..Len(K)
    BY <1>10, <2>4
  <2>5. /\ \/ i \in 1..Len(K) /\ G[i] = K[i]
           \/ i > Len(K) /\ i - Len(K) \in 1..Len(A) /\ G[i] = A[i - Len(K)]
        /\ \/ j \in 1..Len(K) /\ G[j] = K[j]
           \/ j > Len(K) /\ j - Len(K) \in 1..Len(A) /\ G[j] = A[j - Len(K)]
    BY ONLY <1>11, i \in 1..Len(G), j \in 1..Len(G)
  <2>. QED  BY ONLY <2>1, <2>2, <2>3, <2>4, <2>5, Zenon
<1>16. ASSUME NEW e \in sound  PROVE  SameIn(e, G)
  <2>. SUFFICES ASSUME NEW i \in 1..Len(G), G[i].serial = e.serial
                PROVE  G[i].kind = e.kind /\ G[i].key = e.key
    BY DEF SameIn
  <2>1. SameIn(e, K)
    BY <1>9
  <2>2. e.serial \in Nat /\ e.serial <= begun
    <3>1. e \in Events /\ e.serial <= begun
      BY <1>2 DEF Inv, Sounds
    <3>. QED  BY <3>1 DEF Events
  <2>3. CASE i \in 1..Len(K) /\ G[i] = K[i]
    BY <2>1, <2>3 DEF SameIn
  <2>4. CASE i - Len(K) \in 1..Len(A) /\ G[i] = A[i - Len(K)]
    <3>1. G[i].serial > begun /\ G[i].serial \in Nat
      BY <1>13, <2>4
    <3>. QED  BY <1>2, <2>2, <3>1
  <2>. QED  BY <1>11, <2>3, <2>4
<1>17. PICK t : t = temp'
  OBVIOUS
<1>18. /\ t = Records(G) /\ Read(t) = G /\ Clean(t)
  <2>1. Replay(t) = [events |-> G, corrupt |-> FALSE, torn |-> FALSE, valid |-> Len(t)]
    BY <1>1, <1>17
  <2>. QED  BY <1>1, <1>17, <2>1 DEF Read, Clean
<1>19. G # <<>>
  <2>1. Len(G) >= 1
    BY <1>6, <1>10
  <2>. QED  BY <1>10, <2>1
<1>20. /\ t \in Seq(Cells) /\ t # <<>> /\ t[Len(t)].of = G[Len(G)]
       /\ \A x \in Of(t) : \E i \in 1..Len(G) : x = G[i]
  BY <1>10, <1>18, <1>19, RecordsCells
<1>21. \A x \in Of(t) : x.serial <= begun + Len(A) /\ x.id \in 1..(x.serial + 1)
  <2>. SUFFICES ASSUME NEW i \in 1..Len(G)
                PROVE  G[i].serial <= begun + Len(A) /\ G[i].id \in 1..(G[i].serial + 1)
    BY <1>20
  <2>1. CASE i \in 1..Len(K) /\ G[i] = K[i]
    BY <1>2, <1>10, <1>12, <2>1
  <2>2. CASE i - Len(K) \in 1..Len(A) /\ G[i] = A[i - Len(K)]
    BY <1>13, <2>2
  <2>. QED  BY <1>11, <2>1, <2>2
<1>22. Keeps(t, sound)
  <2>1. Agree(t, t)
    <3>1. Len(t) \in Nat
      BY <1>20
    <3>. QED  BY <3>1 DEF Agree
  <2>. QED  BY <1>9, <1>18, <1>20, <2>1 DEF Keeps, G
<1>23. Found(t, begun + Len(A), sound, faults)
  BY <1>14, <1>15, <1>16, <1>18, <1>20, <1>21, <1>22 DEF Found, Clean
<1>24. begun + Len(A) \in Nat /\ begun <= begun + Len(A) /\ begun + Len(A) \in 0..MaxRecords
       /\ nextId \in 1..(begun + Len(A) + 2)
  BY <1>1, <1>2, <1>10
<1>25. Files'
  <2>1. \A f \in Possible : Found(f, begun + Len(A), sound, faults)
    <3>. SUFFICES ASSUME NEW f \in Possible  PROVE  Found(f, begun + Len(A), sound, faults)
      OBVIOUS
    <3>1. Found(f, begun, sound, faults)
      BY FoundFiles
    <3>2. faults \subseteq faults
      OBVIOUS
    <3>. QED  BY <1>2, <1>24, <3>1, <3>2, FoundStays
  <2>2. Possible' = Possible
    BY <1>1 DEF Possible, fileVars
  <2>. QED  BY <1>1, <2>1, <2>2 DEF Files, ghosts
<1>26. States'
  BY <1>1, <1>24 DEF Inv, States, fileVars, ghosts
<1>27. Calls'
  BY <1>1 DEF Inv, Calls, Appending
<1>28. Logs'
  BY <1>1, <1>2 DEF Logs, Appending, fileVars, ghosts
<1>29. Compacted'
  <2>1. Found(t, begun', sound', faults')
    BY <1>1, <1>23 DEF ghosts
  <2>2. \E a \in Seq(Events) : /\ Read(t) = Kept(Read(file)) \o a
                               /\ \A i \in 1..Len(a) : a[i].kind \in {"migrated", "marker"}
    BY <1>6, <1>18 DEF G, K, E
  <2>3. Read(t) # <<>> /\ Read(t)[Len(Read(t))] = t[Len(t)].of
    BY <1>18, <1>19, <1>20
  <2>4. file' = file /\ doing' = "replacing" /\ temp' = t
    BY <1>1, <1>17 DEF fileVars
  <2>. QED  BY <1>18, <1>20, <2>1, <2>2, <2>3, <2>4 DEF Compacted, Compacting
<1>30. Sounds'
  <2>1. \A e \in sound : e \in Events /\ e.kind \in Kinds /\ e.serial <= begun
    BY DEF Inv, Sounds
  <2>2. \A e \in sound : e.serial <= begun + Len(A)
    <3>1. \A e \in sound : e.serial \in Nat
      BY <2>1 DEF Events
    <3>. QED  BY <1>2, <1>10, <2>1, <3>1
  <2>. QED  BY <1>1, <2>1, <2>2 DEF Sounds, Appending, ghosts
<1>. QED  BY <1>25, <1>26, <1>27, <1>28, <1>29, <1>30 DEF Inv

-----------------------------------------------------------------------------
(* The invariant holds of every behaviour.                                    *)
LEMMA InvInvariant == Spec => []Inv
<1>1. Init => Inv
  BY InitInv
<1>2. ASSUME Inv, [Next]_vars  PROVE  Inv'
  <2>1. CASE Start
    BY <1>2, <2>1, StartStep
  <2>2. ASSUME NEW kind \in Kinds, NEW key \in Keys, BeginAppend(kind, key)  PROVE  Inv'
    BY <1>2, <2>2, BeginAppendStep
  <2>3. ASSUME NEW n \in 1..pending.size, Write(n)  PROVE  Inv'
    BY <1>2, <2>3, WriteStep
  <2>4. CASE WriteFails
    BY <1>2, <2>4, WriteFailsStep
  <2>5. CASE SyncAppend
    BY <1>2, <2>5, SyncAppendStep
  <2>6. CASE SyncFails
    BY <1>2, <2>6, SyncFailsStep
  <2>7. CASE Compact
    BY <1>2, <2>7, CompactStep
  <2>8. CASE CompactFails
    BY <1>2, <2>8, CompactFailsStep
  <2>9. CASE Replace
    BY <1>2, <2>9, ReplaceStep
  <2>10. CASE SyncDirectory
    BY <1>2, <2>10, SyncDirectoryStep
  <2>11. CASE DirectoryFails
    BY <1>2, <2>11, DirectoryFailsStep
  <2>12. CASE Kill
    BY <1>2, <2>12, KillStep
  <2>13. CASE PowerLoss
    BY <1>2, <2>13, PowerLossStep
  <2>14. CASE UNCHANGED vars
    <3>1. UNCHANGED <<file, disk, stale, up, nextId, doing, pending, written, temp, begun,
                      sound, faults, acked>>
      BY <2>14 DEF vars
    <3>2. States' /\ Calls' /\ Sounds'
      BY <1>2, <3>1 DEF Inv, States, Calls, Sounds, Appending
    <3>3. Files'
      BY <1>2, <3>1 DEF Inv, Files, Possible
    <3>4. Logs' /\ Compacted'
      BY <1>2, <3>1 DEF Inv, Logs, Compacted, Appending, Compacting
    <3>. QED  BY <3>2, <3>3, <3>4 DEF Inv
  <2>. QED  BY <1>2, <2>1, <2>2, <2>3, <2>4, <2>5, <2>6, <2>7, <2>8, <2>9, <2>10, <2>11,
               <2>12, <2>13, <2>14, Zenon DEF Next
<1>. QED  BY <1>1, <1>2, PTL DEF Spec

(* TypeOK: the variables are what the code's types allow, an event is pending *)
(* exactly while append() writes or syncs it, and an id is never further ahead*)
(* than the records begun.                                                    *)
THEOREM LogTypes == Spec => []TypeOK
<1>1. ASSUME Inv  PROVE  TypeOK
  <2>1. /\ up \in BOOLEAN /\ doing \in {"nothing", "writing", "syncing", "replacing", "replaced"}
        /\ begun \in 0..MaxRecords /\ nextId \in 1..(begun + 2)
        /\ file \in disk /\ faults \subseteq Failures \cup {"rename"} /\ sound \subseteq acked
    BY <1>1 DEF Inv, States
  <2>2. MaxRecords \in Nat
    BY Constants
  <2>3. nextId \in 1..(MaxRecords + 2) /\ nextId <= begun + 2
    BY ONLY <2>1, <2>2
  <2>4. /\ pending = NoEvent \/ (pending.kind \in Kinds /\ pending.size = Sizes[pending.key])
        /\ (pending = NoEvent) <=> (doing \notin {"writing", "syncing"})
        /\ written \in 0..pending.size
    <3>1. CASE Appending
      <4>1. /\ pending.kind \in Kinds /\ pending.size = Sizes[pending.key]
            /\ written \in 0..pending.size
        BY <1>1, <3>1 DEF Inv, Calls
      <4>2. pending # NoEvent
        BY <4>1 DEF NoEvent, Event, Kinds
      <4>. QED  BY <3>1, <4>1, <4>2 DEF Appending
    <3>2. CASE ~Appending
      <4>1. pending = NoEvent /\ written = 0
        BY <1>1, <3>2 DEF Inv, Calls
      <4>2. 0 \in 0..NoEvent.size
        BY DEF NoEvent, Event, MinRecord
      <4>. QED  BY <3>2, <4>1, <4>2 DEF Appending
    <3>. QED  BY <3>1, <3>2
  <2>. QED  BY <2>1, <2>3, <2>4 DEF TypeOK
<1>. QED  BY <1>1, InvInvariant, PTL

(* AcknowledgedSurvive: an event append() returned can be read, or a later one*)
(* that makes it redundant, from whatever file any crash leaves, across       *)
(* failed calls, restarts and compactions, unless a failed write tore a record*)
(* or a directory was left unsynced before append() returned it.              *)
THEOREM NoEventLost == Spec => []AcknowledgedSurvive
<1>1. ASSUME Inv  PROVE  AcknowledgedSurvive
  <2>. SUFFICES ASSUME NEW f \in Possible, NEW e \in sound  PROVE  Stands(e, f)
    BY DEF AcknowledgedSurvive
  <2>1. f \in Seq(Cells) /\ Found(f, begun, sound, faults)
    BY <1>1, FoundFiles
  <2>2. PICK p \in Seq(Cells) : Agree(p, f) /\ Clean(p) /\ StandsIn(e, Read(p))
    BY <2>1 DEF Found, Keeps
  <2>3. PICK rest \in Seq(Events) : Read(f) = Read(p) \o rest
    BY <2>1, <2>2, ReadPrefix
  <2>4. Read(p) \in Seq(Events)
    BY ReadType
  <2>5. StandsIn(e, Read(p) \o rest)
    BY <2>2, <2>4, StandsOn
  <2>6. StandsIn(e, Read(f))
    BY <2>3, <2>5
  <2>. QED  BY <2>6 DEF Stands, StandsIn, Read
<1>. QED  BY <1>1, InvInvariant, PTL

(* OnlyTailTorn: unless a write failed half-way, the only defect a crash can  *)
(* leave is the partial last record that startup cuts off, and a log in use   *)
(* has none: replay and compaction never meet a corrupt record.               *)
THEOREM DefectsAtTheTail == Spec => []OnlyTailTorn
<1>1. ASSUME Inv  PROVE  OnlyTailTorn
  <2>. SUFFICES ASSUME "write" \notin faults
                PROVE  /\ \A f \in Possible : ~Replay(f).corrupt
                       /\ Free => ~Replay(file).torn
    BY DEF OnlyTailTorn
  <2>1. \A f \in Possible : ~Replay(f).corrupt
    BY <1>1, FoundFiles DEF Found
  <2>2. Free => Clean(file)
    BY <1>1 DEF Inv, Logs, Free, InUse
  <2>. QED  BY <2>1, <2>2 DEF Clean
<1>. QED  BY <1>1, InvInvariant, PTL

(* IdsInOrder: ids increase along whatever log a startup may find, and the id *)
(* append() gives next is beyond all of them, so that no two events share one *)
(* unless an fsync failed; a directory left unsynced excepted.                *)
THEOREM IdsIncrease == Spec => []IdsInOrder
<1>1. ASSUME Inv  PROVE  IdsInOrder
  <2>. DEFINE Before(m, n) == IF "sync" \notin faults THEN m < n ELSE m <= n
  <2>. SUFFICES ASSUME "directory" \notin faults
                PROVE  /\ \A f \in Possible : \A i, j \in 1..Len(Read(f)) :
                            i < j => Before(Read(f)[i].id, Read(f)[j].id)
                       /\ Free => \A i \in 1..Len(Read(file)) : Before(Read(file)[i].id, nextId)
    BY DEF IdsInOrder, Read
  <2>1. ASSUME NEW E \in Seq(Events), NEW i \in 1..Len(E)  PROVE  E[i].id \in Nat
    <3>1. E[i] \in Events
      OBVIOUS
    <3>. QED  BY <3>1 DEF Events
  <2>2. \A f \in Possible : Read(f) \in Seq(Events) /\ IdsUp(Read(f), faults)
    BY <1>1, FoundFiles, ReadType DEF Found
  <2>3. ASSUME NEW f \in Possible, NEW i \in 1..Len(Read(f)), NEW j \in 1..Len(Read(f)), i < j
        PROVE  Before(Read(f)[i].id, Read(f)[j].id)
    <3>1. Read(f)[i].id \in Nat /\ Read(f)[j].id \in Nat
      BY <2>1, <2>2
    <3>2. \/ Read(f)[i].id < Read(f)[j].id
          \/ "sync" \in faults /\ Read(f)[i].id <= Read(f)[j].id
      BY <2>2, <2>3 DEF IdsUp
    <3>. QED  BY <3>1, <3>2
  <2>4. ASSUME Free, NEW i \in 1..Len(Read(file))  PROVE  Before(Read(file)[i].id, nextId)
    <3>1. file \in Possible /\ InUse(file, nextId, faults) /\ begun \in Nat /\ nextId \in 1..(begun + 2)
      BY <1>1, <2>4, FoundFiles DEF Inv, Logs, Free, States
    <3>2. Read(file)[i].id \in Nat /\ nextId \in Nat
      BY <2>1, <2>2, <3>1
    <3>3. \/ Read(file)[i].id < nextId
          \/ "sync" \in faults /\ Read(file)[i].id <= nextId
      BY <3>1 DEF InUse, Under
    <3>. QED  BY <3>2, <3>3
  <2>. HIDE DEF Before
  <2>. QED  BY <2>3, <2>4
<1>. QED  BY <1>1, InvInvariant, PTL

(* CompactionKeepsState: when rename() puts the compacted log in the place of *)
(* the log, a repository that is rebuilt from the file finds what it found    *)
(* before: the latest of every kind, and a game's deep analysis or, if it has *)
(* none, its shallow one.                                                     *)
THEOREM CompactionIsInvisible == Spec => CompactionKeepsState
<1>1. ASSUME Inv, Replace  PROVE  Projection(file') = Projection(file)
  <2>1. PICK t : t = temp
    OBVIOUS
  <2>2. file' = t /\ doing = "replacing"
    BY <1>1, <2>1 DEF Replace
  <2>3. PICK a \in Seq(Events) : /\ Read(t) = Kept(Read(file)) \o a
                                 /\ \A i \in 1..Len(a) : a[i].kind \in {"migrated", "marker"}
    BY <1>1, <2>1, <2>2 DEF Inv, Compacted
  <2>4. Read(file) \in Seq(Events)
    BY <1>1, FoundFiles, ReadType
  <2>. DEFINE E == Read(file)
              G == Kept(E) \o a
  <2>5. /\ {G[n].serial : n \in Latest(G)} = {E[i].serial : i \in Latest(E)}
        /\ {G[n].serial : n \in Shallow(G)} = {E[i].serial : i \in Shallow(E)}
    BY <2>3, <2>4, KeptProjects
  <2>6. Read(t) = G
    BY <2>3
  <2>. HIDE DEF E, G
  <2>7. Projection(t) = [latest |-> {G[n].serial : n \in Latest(G)},
                         shallow |-> {G[n].serial : n \in Shallow(G)}]
    BY <2>6, ProjectionIs
  <2>8. Projection(file) = [latest |-> {E[n].serial : n \in Latest(E)},
                            shallow |-> {E[n].serial : n \in Shallow(E)}]
    BY ProjectionIs DEF E
  <2>9. Projection(file') = Projection(t)
    BY <2>2 
  <2>. QED  BY <2>5, <2>7, <2>8, <2>9
<1>2. Inv /\ [Next]_vars => [Replace => Projection(file') = Projection(file)]_vars
  BY <1>1
<1>. QED  BY <1>2, InvInvariant, PTL DEF CompactionKeepsState, Spec
=============================================================================
