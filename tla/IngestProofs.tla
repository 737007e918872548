---------------------------- MODULE IngestProofs ----------------------------
(* What holds of Ingest for every history of games, clients and options: what *)
(* a step never does, its types, where its resolutions and syncs are until    *)
(* they have ended, and what of its window a sync has read.                   *)
EXTENDS Ingest, SubsequenceTheorems

-----------------------------------------------------------------------------
(* The maps of the manager: what they are keyed by and what their records     *)
(* consist of.                                                                *)
ResolutionFields == {"game", "user", "status"}
SyncFields ==
  {"user", "days", "upper", "at", "status", "archives", "taken", "discovered", "skipped"}

Numbered(map, n, fields) ==
  /\ n \in Nat
  /\ \A i \in DOMAIN map : i \in Nat /\ i < n /\ DOMAIN map[i] = fields
Shapes ==
  /\ DOMAIN next = {"resolution", "sync"}
  /\ Numbered(resolutions, next.resolution, ResolutionFields)
  /\ Numbered(syncs, next.sync, SyncFields)

(* What CancelledIsFinal asks of a step.                                      *)
KeptCancelled(old, new) ==
  \A i \in DOMAIN old \cap DOMAIN new :
    old[i].status = "cancelled" => new[i].status = "cancelled"
KeepsCancelled ==
  up /\ up' => KeptCancelled(resolutions, resolutions') /\ KeptCancelled(syncs, syncs')

LEMMA TrimmedKeeps ==
  ASSUME NEW map
  PROVE  /\ DOMAIN Trimmed(map) \subseteq DOMAIN map
         /\ \A i \in DOMAIN Trimmed(map) : Trimmed(map)[i] = map[i]
BY DEF Trimmed, Restrict

LEMMA WithAdds ==
  ASSUME NEW map, NEW i, NEW v
  PROVE  /\ DOMAIN With(map, i, v) = DOMAIN map \cup {i}
         /\ With(map, i, v)[i] = v
         /\ \A j \in DOMAIN map \ {i} : With(map, i, v)[j] = map[j]
BY DEF With

LEMMA TrimmedWith ==
  ASSUME NEW map, NEW i, NEW v
  PROVE  LET new == Trimmed(With(map, i, v))
         IN /\ DOMAIN new \subseteq DOMAIN map \cup {i}
            /\ i \in DOMAIN new => new[i] = v
            /\ \A j \in DOMAIN new \ {i} : new[j] = map[j]
<1>. DEFINE more == With(map, i, v)
<1>1. /\ DOMAIN more = DOMAIN map \cup {i} /\ more[i] = v
      /\ \A j \in DOMAIN map \ {i} : more[j] = map[j]
  BY DEF With
<1>. HIDE DEF more
<1>2. /\ DOMAIN Trimmed(more) \subseteq DOMAIN more
      /\ \A j \in DOMAIN Trimmed(more) : Trimmed(more)[j] = more[j]
  BY TrimmedKeeps
<1>3. /\ DOMAIN Trimmed(more) \subseteq DOMAIN map \cup {i}
      /\ i \in DOMAIN Trimmed(more) => Trimmed(more)[i] = v
      /\ \A j \in DOMAIN Trimmed(more) \ {i} : Trimmed(more)[j] = map[j]
  BY <1>1, <1>2
<1>. QED
  BY <1>3 DEF more

(* A step that changes records of a map, or drops some.                       *)
Revised(old, new, fields) ==
  /\ DOMAIN new \subseteq DOMAIN old
  /\ \A i \in DOMAIN new :
       /\ DOMAIN new[i] = fields
       /\ old[i].status = "cancelled" => new[i].status = "cancelled"

LEMMA RevisedStep ==
  ASSUME Shapes, next' = next,
         resolutions' = resolutions \/ Revised(resolutions, resolutions', ResolutionFields),
         syncs' = syncs \/ Revised(syncs, syncs', SyncFields)
  PROVE  Shapes' /\ KeepsCancelled
BY DEF Shapes, Numbered, Revised, KeepsCancelled, KeptCancelled

LEMMA RevisedRecord ==
  ASSUME NEW map, NEW fields, NEW i \in DOMAIN map, NEW r,
         \A j \in DOMAIN map : DOMAIN map[j] = fields,
         DOMAIN r = fields, map[i].status = "cancelled" => r.status = "cancelled"
  PROVE  /\ Revised(map, [map EXCEPT ![i] = r], fields)
         /\ Revised(map, Trimmed([map EXCEPT ![i] = r]), fields)
<1>. DEFINE new == [map EXCEPT ![i] = r]
<1>1. /\ DOMAIN new = DOMAIN map /\ new[i] = r
      /\ \A j \in DOMAIN map \ {i} : new[j] = map[j]
  OBVIOUS
<1>. HIDE DEF new
<1>2. Revised(map, new, fields)
  BY <1>1 DEF Revised
<1>3. Revised(map, Trimmed(new), fields)
  BY <1>2, TrimmedKeeps DEF Revised
<1>. QED
  BY <1>2, <1>3 DEF new

(* A step that starts or ends a life of the program.                          *)
LEMMA ResetStep ==
  ASSUME ~up \/ ~up', resolutions' = <<>>, next' = [resolution |-> 1, sync |-> 1],
         syncs' = <<>>
  PROVE  Shapes' /\ KeepsCancelled
<1>1. DOMAIN <<>> = {}
  OBVIOUS
<1>. QED
  BY <1>1 DEF Shapes, Numbered, KeepsCancelled

LEMMA ShapesInit == Init => Shapes
<1>1. DOMAIN <<>> = {}
  OBVIOUS
<1>. QED
  BY <1>1 DEF Init, Shapes, Numbered


(* The clients' steps.                                                        *)
LEMMA ClientsKeepCancelled ==
  ASSUME Shapes
  PROVE  /\ \A g, u : Resolve(g, u) => Shapes' /\ KeepsCancelled
         /\ \A i \in DOMAIN resolutions : CancelResolution(i) => Shapes' /\ KeepsCancelled
         /\ \A d, u : StartSync(d, u) => Shapes' /\ KeepsCancelled
         /\ \A i \in DOMAIN syncs : CancelSync(i) => Shapes' /\ KeepsCancelled
<1>1. ASSUME NEW g, NEW u, Resolve(g, u) PROVE Shapes' /\ KeepsCancelled
  <2>. DEFINE i == next.resolution
  <2>1. i \in Nat /\ i \notin DOMAIN resolutions
    BY DEF Shapes, Numbered
  <2>2. syncs' = syncs
    BY <1>1 DEF Resolve
  <2>3. CASE UNCHANGED <<resolutions, next>>
    BY <2>2, <2>3, RevisedStep
  <2>4. ASSUME NEW r, DOMAIN r = ResolutionFields, resolutions' = Trimmed(With(resolutions, i, r)),
               next' = [next EXCEPT !.resolution = i + 1]
        PROVE  Shapes' /\ KeepsCancelled
    <3>1. /\ DOMAIN next' = DOMAIN next
          /\ next'.resolution = i + 1 /\ next'.sync = next.sync
      BY <2>4 DEF Shapes
    <3>2. /\ DOMAIN resolutions' \subseteq DOMAIN resolutions \cup {i}
          /\ i \in DOMAIN resolutions' => resolutions'[i] = r
          /\ \A j \in DOMAIN resolutions' \ {i} : resolutions'[j] = resolutions[j]
      BY <2>4, TrimmedWith
    <3>3. Numbered(resolutions', i + 1, ResolutionFields)
      BY <2>1, <2>4, <3>2 DEF Shapes, Numbered
    <3>4. KeptCancelled(resolutions, resolutions')
      BY <2>1, <3>2 DEF KeptCancelled
    <3>. QED
      BY <2>2, <3>1, <3>3, <3>4 DEF Shapes, KeepsCancelled, KeptCancelled
  <2>5. \/ UNCHANGED <<resolutions, next>>
        \/ \E r : /\ DOMAIN r = ResolutionFields
                  /\ resolutions' = Trimmed(With(resolutions, i, r))
                  /\ next' = [next EXCEPT !.resolution = i + 1]
    BY <1>1 DEF Resolve, ResolutionFields
  <2>. QED
    BY <2>3, <2>4, <2>5
<1>2. ASSUME NEW i \in DOMAIN resolutions, CancelResolution(i) PROVE Shapes' /\ KeepsCancelled
  <2>1. DOMAIN resolutions[i] = ResolutionFields
    BY DEF Shapes, Numbered
  <2>. DEFINE r == [resolutions[i] EXCEPT !.status = "cancelled"]
  <2>2. resolutions' = [resolutions EXCEPT ![i] = r] /\ next' = next /\ syncs' = syncs
    BY <1>2 DEF CancelResolution
  <2>3. DOMAIN r = ResolutionFields /\ r.status = "cancelled"
    BY <2>1 DEF ResolutionFields
  <2>. HIDE DEF r
  <2>. QED
    BY <2>2, <2>3, RevisedRecord, RevisedStep DEF Shapes, Numbered
<1>3. ASSUME NEW d, NEW u, StartSync(d, u) PROVE Shapes' /\ KeepsCancelled
  <2>. DEFINE i == next.sync
  <2>1. i \in Nat /\ i \notin DOMAIN syncs
    BY DEF Shapes, Numbered
  <2>2. resolutions' = resolutions /\ next' = [next EXCEPT !.sync = i + 1]
    BY <1>3 DEF StartSync
  <2>3. /\ DOMAIN next' = DOMAIN next
        /\ next'.sync = i + 1 /\ next'.resolution = next.resolution
    BY <2>2 DEF Shapes
  <2>4. \/ syncs' = syncs
        \/ \E r : DOMAIN r = SyncFields /\ syncs' = Trimmed(With(syncs, i, r))
    BY <1>3 DEF StartSync, SyncFields
  <2>5. Numbered(syncs, i + 1, SyncFields)
    BY <2>1 DEF Shapes, Numbered
  <2>6. Numbered(syncs', i + 1, SyncFields) /\ KeptCancelled(syncs, syncs')
    <3>1. CASE syncs' = syncs
      BY <2>5, <3>1 DEF KeptCancelled
    <3>2. ASSUME NEW r, DOMAIN r = SyncFields, syncs' = Trimmed(With(syncs, i, r))
          PROVE  Numbered(syncs', i + 1, SyncFields) /\ KeptCancelled(syncs, syncs')
      <4>1. /\ DOMAIN syncs' \subseteq DOMAIN syncs \cup {i}
            /\ i \in DOMAIN syncs' => syncs'[i] = r
            /\ \A j \in DOMAIN syncs' \ {i} : syncs'[j] = syncs[j]
        BY <3>2, TrimmedWith
      <4>. QED
        BY <2>1, <2>5, <3>2, <4>1 DEF Numbered, KeptCancelled
    <3>. QED
      BY <2>4, <3>1, <3>2
  <2>. QED
    BY <2>2, <2>3, <2>6 DEF Shapes, KeepsCancelled, KeptCancelled
<1>4. ASSUME NEW i \in DOMAIN syncs, CancelSync(i) PROVE Shapes' /\ KeepsCancelled
  <2>1. DOMAIN syncs[i] = SyncFields
    BY DEF Shapes, Numbered
  <2>. DEFINE r == [syncs[i] EXCEPT !.status = "cancelled", !.at = now]
  <2>2. syncs' = [syncs EXCEPT ![i] = r] /\ next' = next /\ resolutions' = resolutions
    BY <1>4 DEF CancelSync
  <2>3. DOMAIN r = SyncFields /\ r.status = "cancelled"
    BY <2>1 DEF SyncFields
  <2>. HIDE DEF r
  <2>. QED
    BY <2>2, <2>3, RevisedRecord, RevisedStep DEF Shapes, Numbered
<1>. QED
  BY <1>1, <1>2, <1>3, <1>4

(* Steps that leave the maps alone.                                           *)
LEMMA OthersKeepCancelled ==
  ASSUME Shapes, UNCHANGED <<resolutions, syncs, next>>
  PROVE  Shapes' /\ KeepsCancelled
BY RevisedStep

(* The interactive worker's steps.                                            *)
LEMMA FindsKeepCancelled ==
  ASSUME Shapes, Finds
  PROVE  Shapes' /\ KeepsCancelled
<1>1. CASE BeginResolution
  <2>1. next' = next /\ syncs' = syncs
    BY <1>1 DEF BeginResolution, FinderOnly
  <2>2. CASE resolutions' = resolutions
    BY <2>1, <2>2, RevisedStep
  <2>3. CASE resolutions' # resolutions
    <3>. DEFINE i == finder.id
    <3>1. /\ i \in DOMAIN resolutions /\ resolutions[i].status # "cancelled"
          /\ resolutions' = [resolutions EXCEPT ![i].status = "running"]
      BY <1>1, <2>3 DEF BeginResolution, f
    <3>. DEFINE r == [resolutions[i] EXCEPT !.status = "running"]
    <3>2. resolutions' = [resolutions EXCEPT ![i] = r]
      BY <3>1
    <3>3. DOMAIN r = ResolutionFields
      BY <3>1 DEF Shapes, Numbered
    <3>. HIDE DEF r, i
    <3>4. \A j \in DOMAIN resolutions : DOMAIN resolutions[j] = ResolutionFields
      BY DEF Shapes, Numbered
    <3>5. i \in DOMAIN resolutions /\ (resolutions[i].status = "cancelled" => r.status = "cancelled")
      BY <3>1
    <3>6. Revised(resolutions, resolutions', ResolutionFields)
      BY <3>2, <3>3, <3>4, <3>5, RevisedRecord
    <3>. QED
      BY <2>1, <3>6, RevisedStep
  <2>. QED
    BY <2>2, <2>3
<1>2. CASE EndResolution
  <2>1. CASE Terminates
    BY <2>1, ResetStep DEF Terminates, Blank
  <2>2. CASE ~Terminates
    <3>. DEFINE i == finder.id
    <3>1. /\ i \in DOMAIN resolutions
          /\ resolutions' = Trimmed([resolutions EXCEPT ![i].status = Settled(@, finder.status)])
          /\ next' = next /\ syncs' = syncs
      BY <1>2, <2>2 DEF EndResolution, FinderOnly, f
    <3>. DEFINE r == [resolutions[i] EXCEPT !.status = Settled(@, finder.status)]
    <3>2. resolutions' = Trimmed([resolutions EXCEPT ![i] = r])
      BY <3>1
    <3>3. DOMAIN r = ResolutionFields
      BY <3>1 DEF Shapes, Numbered
    <3>4. resolutions[i].status = "cancelled" => r.status = "cancelled"
      BY <3>1 DEF Settled, Shapes, Numbered, ResolutionFields
    <3>. HIDE DEF r, i
    <3>5. \A j \in DOMAIN resolutions : DOMAIN resolutions[j] = ResolutionFields
      BY DEF Shapes, Numbered
    <3>6. Revised(resolutions, resolutions', ResolutionFields)
      BY <3>1, <3>2, <3>3, <3>4, <3>5, RevisedRecord
    <3>. QED
      BY <3>1, <3>6, RevisedStep
  <2>. QED
    BY <2>1, <2>2
<1>3. CASE PopResolution \/ LookUp \/ SearchPlayer \/ SearchMonth \/ SearchPage \/ AddResolved
  <2>1. UNCHANGED <<resolutions, syncs, next>>
    BY <1>3 DEF PopResolution, LookUp, SearchPlayer, SearchMonth, SearchPage, AddResolved,
                FinderOnly, Quiet
  <2>. QED
    BY <2>1, OthersKeepCancelled
<1>. QED
  BY <1>1, <1>2, <1>3 DEF Finds

(* The historical worker's steps change the record of its own sync, if any.   *)
LEMMA OneSync ==
  ASSUME Shapes, UNCHANGED <<resolutions, next>>,
         NEW i, i \in DOMAIN syncs, NEW r, DOMAIN r = SyncFields,
         syncs[i].status = "cancelled" => r.status = "cancelled",
         syncs' = [syncs EXCEPT ![i] = r] \/ syncs' = Trimmed([syncs EXCEPT ![i] = r])
  PROVE  Shapes' /\ KeepsCancelled
<1>1. \A j \in DOMAIN syncs : DOMAIN syncs[j] = SyncFields
  BY DEF Shapes, Numbered
<1>2. Revised(syncs, syncs', SyncFields)
  BY <1>1, RevisedRecord
<1>. QED
  BY <1>2, RevisedStep

LEMMA WalksKeepCancelled ==
  ASSUME Shapes, Walks
  PROVE  Shapes' /\ KeepsCancelled
<1>. DEFINE i == walker.id
<1>1. CASE BeginStep
  <2>1. CASE Terminates
    BY <2>1, ResetStep DEF Terminates, Blank
  <2>2. CASE UNCHANGED <<resolutions, syncs, next>>
    BY <2>2, OthersKeepCancelled
  <2>3. CASE ~Terminates /\ ~UNCHANGED <<resolutions, syncs, next>>
    <3>1. /\ i \in DOMAIN syncs /\ syncs[i].status # "cancelled"
          /\ next' = next /\ resolutions' = resolutions
          /\ syncs' = [syncs EXCEPT ![i] = [syncs[i] EXCEPT !.status = "running", !.at = now]]
      BY <1>1, <2>3 DEF BeginStep, WalkerOnly, Kept, w
    <3>. DEFINE r == [syncs[i] EXCEPT !.status = "running", !.at = now]
    <3>2. DOMAIN r = SyncFields
      BY <3>1 DEF Shapes, Numbered
    <3>3. syncs[i].status = "cancelled" => r.status = "cancelled"
      BY <3>1
    <3>4. syncs' = [syncs EXCEPT ![i] = r] \/ syncs' = Trimmed([syncs EXCEPT ![i] = r])
      BY <3>1
    <3>. HIDE DEF r, i
    <3>. QED
      BY <3>1, <3>2, <3>3, <3>4, OneSync
  <2>. QED
    BY <2>1, <2>2, <2>3
<1>2. CASE ListMonths
  <2>1. CASE Terminates
    BY <2>1, ResetStep DEF Terminates, Blank
  <2>2. CASE UNCHANGED <<resolutions, syncs, next>>
    BY <2>2, OthersKeepCancelled
  <2>3. CASE ~Terminates /\ ~UNCHANGED <<resolutions, syncs, next>>
    <3>1. /\ i \in DOMAIN syncs
          /\ next' = next /\ resolutions' = resolutions
          /\ syncs' = [syncs EXCEPT ![i].archives = walker.months, ![i].discovered = TRUE]
      BY <1>2, <2>3 DEF ListMonths, WalkerOnly, Kept, w
    <3>. DEFINE r == [syncs[i] EXCEPT !.archives = walker.months, !.discovered = TRUE]
    <3>2. DOMAIN r = SyncFields
      BY <3>1 DEF Shapes, Numbered
    <3>3. syncs[i].status = "cancelled" => r.status = "cancelled"
      BY <3>1 DEF Shapes, Numbered, SyncFields
    <3>4. syncs' = [syncs EXCEPT ![i] = r] \/ syncs' = Trimmed([syncs EXCEPT ![i] = r])
      BY <3>1
    <3>. HIDE DEF r, i
    <3>. QED
      BY <3>1, <3>2, <3>3, <3>4, OneSync
  <2>. QED
    BY <2>1, <2>2, <2>3
<1>3. CASE NextMonth
  <2>1. CASE Terminates
    BY <2>1, ResetStep DEF Terminates, Blank
  <2>2. CASE UNCHANGED <<resolutions, syncs, next>>
    BY <2>2, OthersKeepCancelled
  <2>3. CASE ~Terminates /\ ~UNCHANGED <<resolutions, syncs, next>>
    <3>1. /\ i \in DOMAIN syncs
          /\ next' = next /\ resolutions' = resolutions
          /\ syncs' = [syncs EXCEPT ![i].taken = syncs[i].taken + 1]
      BY <1>3, <2>3 DEF NextMonth, WalkerOnly, Kept, w
    <3>. DEFINE r == [syncs[i] EXCEPT !.taken = syncs[i].taken + 1]
    <3>2. DOMAIN r = SyncFields
      BY <3>1 DEF Shapes, Numbered
    <3>3. syncs[i].status = "cancelled" => r.status = "cancelled"
      BY <3>1 DEF Shapes, Numbered, SyncFields
    <3>4. syncs' = [syncs EXCEPT ![i] = r] \/ syncs' = Trimmed([syncs EXCEPT ![i] = r])
      BY <3>1
    <3>. HIDE DEF r, i
    <3>. QED
      BY <3>1, <3>2, <3>3, <3>4, OneSync
  <2>. QED
    BY <2>1, <2>2, <2>3
<1>4. CASE FetchMonth
  <2>1. CASE Terminates
    BY <2>1, ResetStep DEF Terminates, Blank
  <2>2. CASE UNCHANGED <<resolutions, syncs, next>>
    BY <2>2, OthersKeepCancelled
  <2>3. CASE ~Terminates /\ ~UNCHANGED <<resolutions, syncs, next>>
    <3>1. /\ i \in DOMAIN syncs
          /\ next' = next /\ resolutions' = resolutions
          /\ syncs' = [syncs EXCEPT ![i].skipped = @ \cup {walker.month}]
      BY <1>4, <2>3 DEF FetchMonth, WalkerOnly, Kept, w
    <3>. DEFINE r == [syncs[i] EXCEPT !.skipped = @ \cup {walker.month}]
    <3>2. DOMAIN r = SyncFields
      BY <3>1 DEF Shapes, Numbered
    <3>3. syncs[i].status = "cancelled" => r.status = "cancelled"
      BY <3>1 DEF Shapes, Numbered, SyncFields
    <3>4. syncs' = [syncs EXCEPT ![i] = r] \/ syncs' = Trimmed([syncs EXCEPT ![i] = r])
      BY <3>1
    <3>. HIDE DEF r, i
    <3>. QED
      BY <3>1, <3>2, <3>3, <3>4, OneSync
  <2>. QED
    BY <2>1, <2>2, <2>3
<1>5. CASE Progress
  <2>1. CASE Terminates
    BY <2>1, ResetStep DEF Terminates, Blank
  <2>2. CASE UNCHANGED <<resolutions, syncs, next>>
    BY <2>2, OthersKeepCancelled
  <2>3. CASE ~Terminates /\ ~UNCHANGED <<resolutions, syncs, next>>
    <3>1. /\ i \in DOMAIN syncs /\ syncs[i].status # "cancelled"
          /\ next' = next /\ resolutions' = resolutions
          /\ syncs' = [syncs EXCEPT ![i] = [syncs[i] EXCEPT !.status = "running", !.at = now]]
      BY <1>5, <2>3 DEF Progress, WalkerOnly, Kept, w
    <3>. DEFINE r == [syncs[i] EXCEPT !.status = "running", !.at = now]
    <3>2. DOMAIN r = SyncFields
      BY <3>1 DEF Shapes, Numbered
    <3>3. syncs[i].status = "cancelled" => r.status = "cancelled"
      BY <3>1
    <3>4. syncs' = [syncs EXCEPT ![i] = r] \/ syncs' = Trimmed([syncs EXCEPT ![i] = r])
      BY <3>1
    <3>. HIDE DEF r, i
    <3>. QED
      BY <3>1, <3>2, <3>3, <3>4, OneSync
  <2>. QED
    BY <2>1, <2>2, <2>3
<1>6. CASE Finish
  <2>1. CASE Terminates
    BY <2>1, ResetStep DEF Terminates, Blank
  <2>2. CASE UNCHANGED <<resolutions, syncs, next>>
    BY <2>2, OthersKeepCancelled
  <2>3. CASE ~Terminates /\ ~UNCHANGED <<resolutions, syncs, next>>
    <3>1. /\ i \in DOMAIN syncs
          /\ next' = next /\ resolutions' = resolutions
          /\ syncs' = Trimmed([syncs EXCEPT ![i] = [syncs[i] EXCEPT !.status = Settled(@, walker.end), !.at = now]])
      BY <1>6, <2>3 DEF Finish, WalkerOnly, Kept, w
    <3>. DEFINE r == [syncs[i] EXCEPT !.status = Settled(@, walker.end), !.at = now]
    <3>2. DOMAIN r = SyncFields
      BY <3>1 DEF Shapes, Numbered
    <3>3. syncs[i].status = "cancelled" => r.status = "cancelled"
      BY <3>1 DEF Shapes, Numbered, SyncFields, Settled
    <3>4. syncs' = [syncs EXCEPT ![i] = r] \/ syncs' = Trimmed([syncs EXCEPT ![i] = r])
      BY <3>1
    <3>. HIDE DEF r, i
    <3>. QED
      BY <3>1, <3>2, <3>3, <3>4, OneSync
  <2>. QED
    BY <2>1, <2>2, <2>3
<1>7. CASE RecordEnd
  <2>1. CASE Terminates
    BY <2>1, ResetStep DEF Terminates, Blank
  <2>2. CASE ~Terminates
    <3>1. UNCHANGED <<resolutions, syncs, next>>
      BY <1>7, <2>2 DEF RecordEnd, WalkerOnly, Kept
    <3>. QED
      BY <3>1, OthersKeepCancelled
  <2>. QED
    BY <2>1, <2>2
<1>8. CASE \/ PopSync \/ DiscoverMonths \/ AddMonth \/ IndexMonth \/ MarkMonth
           \/ Report \/ UpdateProfile
  <2>1. UNCHANGED <<resolutions, syncs, next>>
    BY <1>8 DEF PopSync, DiscoverMonths, AddMonth, IndexMonth, MarkMonth, Report,
                UpdateProfile, WalkerOnly, Kept
  <2>. QED
    BY <2>1, OthersKeepCancelled
<1>. QED
  BY <1>1, <1>2, <1>3, <1>4, <1>5, <1>6, <1>7, <1>8 DEF Walks

(* The program's start: its maps are empty, or hold the sync it resumes.      *)
LEMMA StartKeepsCancelled ==
  ASSUME NEW u, Start(u)
  PROVE  Shapes' /\ KeepsCancelled
<1>1. ~up /\ resolutions' = <<>>
  BY DEF Start, Blank
<1>2. DOMAIN <<>> = {}
  OBVIOUS
<1>3. CASE syncs' = <<>> /\ next' = [resolution |-> 1, sync |-> 1]
  BY <1>1, <1>2, <1>3 DEF Shapes, Numbered, KeepsCancelled
<1>4. ASSUME NEW r, DOMAIN r = SyncFields, syncs' = <<r>>,
             next' = [resolution |-> 1, sync |-> 2]
      PROVE  Shapes' /\ KeepsCancelled
  <2>1. DOMAIN <<r>> = {1} /\ <<r>>[1] = r
    OBVIOUS
  <2>. QED
    BY <1>1, <1>2, <1>4, <2>1 DEF Shapes, Numbered, KeepsCancelled
<1>5. \/ syncs' = <<>> /\ next' = [resolution |-> 1, sync |-> 1]
      \/ \E r : /\ DOMAIN r = SyncFields /\ syncs' = <<r>>
                /\ next' = [resolution |-> 1, sync |-> 2]
  BY DEF Start, SyncFields
<1>. QED
  BY <1>3, <1>4, <1>5

LEMMA StepKeepsCancelled ==
  ASSUME Shapes, [Next]_vars
  PROVE  Shapes' /\ KeepsCancelled
<1>1. ASSUME NEW u, ConfigureProfile(u) PROVE Shapes' /\ KeepsCancelled
  BY <1>1, OthersKeepCancelled DEF ConfigureProfile, memory
<1>2. ASSUME NEW g, NEW u, ImportUrl(g, u) PROVE Shapes' /\ KeepsCancelled
  BY <1>2, OthersKeepCancelled DEF ImportUrl, memory
<1>3. ASSUME NEW s, RecordCancelled(s) PROVE Shapes' /\ KeepsCancelled
  BY <1>3, OthersKeepCancelled DEF RecordCancelled
<1>4. CASE Tick \/ Shutdown \/ UNCHANGED vars
  BY <1>4, OthersKeepCancelled DEF Tick, Shutdown, memory, vars
<1>5. CASE Crash \/ Leave
  BY <1>5, ResetStep DEF Crash, Leave, Blank
<1>. QED
  BY <1>1, <1>2, <1>3, <1>4, <1>5, ClientsKeepCancelled, FindsKeepCancelled,
     WalksKeepCancelled, StartKeepsCancelled DEF Next

-----------------------------------------------------------------------------
(* What a client has cancelled is never revived or relabelled by an answer of *)
(* Chess.com, by progress or by a failure that comes later: whatever is asked *)
(* for and whenever it is cancelled, stopped, crashed or resumed.             *)
THEOREM CancelledStays == Spec => CancelledIsFinal
<1>1. Init => Shapes
  BY ShapesInit
<1>2. Shapes /\ [Next]_vars => Shapes'
  BY StepKeepsCancelled
<1>3. Shapes /\ [Next]_vars => KeepsCancelled
  BY StepKeepsCancelled
<1>4. CancelledIsFinal <=> [][KeepsCancelled]_vars
  BY PTL DEF CancelledIsFinal, KeepsCancelled, KeptCancelled
<1>. QED
  BY <1>1, <1>2, <1>3, <1>4, PTL DEF Spec

-----------------------------------------------------------------------------
(* A month checkpoint is never ahead of the data: the invariant that says it, *)
(* and what makes it inductive.                                               *)

(* Nothing is dated after the clock: a sync's upper bound is the time it was  *)
(* started, so a month read later holds every game of its window.             *)
StoreFields == {"profile", "sync", "marks", "archive", "games"}
Past(t) == t \in Int /\ t <= now
Bounded(s) == "upper" \in DOMAIN s /\ Past(s.upper)
Dates ==
  /\ now \in Nat
  /\ DOMAIN store = StoreFields /\ Bounded(store.sync)
  /\ \A i \in DOMAIN syncs : Past(syncs[i].upper)
  /\ \A s \in late : Bounded(s)

(* The historical worker holds a copy of its sync and, from the fetch to the  *)
(* checkpoint, every game that is due: stored as games once it indexes, and   *)
(* in the archive once it marks.                                              *)
WalkerFields == {"at", "id", "sync", "months", "month", "page", "end"}
Due(s, m) == {g \in Games : Of(s.user, g) /\ Month(Played[g].at) = m /\ InWindow(s, g)}
Working ==
  /\ DOMAIN walker = WalkerFields
  /\ Past(walker.sync.upper)
  /\ walker.at \in {"add", "index", "mark"} => Due(walker.sync, walker.month) \subseteq walker.page
  /\ walker.at \in {"index", "mark"} => walker.page \subseteq store.games
  /\ walker.at = "mark" => walker.page \subseteq store.archive
Holding == walker.at \in {"idle", "begin"} \/ Working

CheckpointInv == Shapes /\ Dates /\ Holding /\ CheckpointedIsStored

(* A step that writes no checkpoint takes nothing out of the repository.      *)
Grows ==
  /\ store.games \subseteq store'.games
  /\ store.archive \subseteq store'.archive
  /\ store'.marks = store.marks

LEMMA GrowsKeeps ==
  ASSUME CheckpointedIsStored, Grows
  PROVE  CheckpointedIsStored'
BY DEF CheckpointedIsStored, Grows

LEMMA HoldingKept ==
  ASSUME Holding, Grows, Dates, Dates', now <= now',
         walker' = walker \/ walker'.at \in {"idle", "begin"}
  PROVE  Holding'
<1>1. CASE walker'.at \in {"idle", "begin"}
  BY <1>1 DEF Holding
<1>2. CASE walker' = walker /\ Working
  <2>1. Past(walker.sync.upper)'
    BY <1>2 DEF Working, Past, Bounded, Dates
  <2>2. Due(walker.sync, walker.month)' = Due(walker.sync, walker.month)
    BY <1>2 DEF Due, InWindow, Low
  <2>. QED
    BY <1>2, <2>1, <2>2 DEF Holding, Working, Grows
<1>. QED
  BY <1>1, <1>2 DEF Holding

(* A step that leaves the clock, the syncs and the worker alone, and of the   *)
(* repository changes at most the profile, the games and the archive.         *)
Additions ==
  /\ UNCHANGED <<now, syncs, late>>
  /\ \/ store' = store
     \/ \E more : store' = [store EXCEPT !.games = @ \cup more]
     \/ \E more : store' = [store EXCEPT !.archive = @ \cup more]
     \/ \E name : store' = [store EXCEPT !.profile = name]

LEMMA AdditionsKeep ==
  ASSUME Dates, Additions
  PROVE  Dates' /\ Grows
<1>1. /\ DOMAIN store' = DOMAIN store /\ store'.sync = store.sync
      /\ Grows
  BY DEF Dates, StoreFields, Additions, Grows
<1>2. Dates'
  BY <1>1 DEF Additions, Dates, Bounded, Past
<1>. QED
  BY <1>1, <1>2

LEMMA AdditionsStep ==
  ASSUME CheckpointInv, Additions, walker' = walker \/ walker'.at \in {"idle", "begin"}
  PROVE  Dates' /\ Holding' /\ CheckpointedIsStored'
<1>1. Dates' /\ Grows /\ now <= now'
  BY AdditionsKeep DEF CheckpointInv, Additions, Dates
<1>. QED
  BY <1>1, HoldingKept, GrowsKeeps DEF CheckpointInv

(* A life of the program ends.                                                *)
LEMMA EndStep ==
  ASSUME CheckpointInv, UNCHANGED <<now, store>>, syncs' = <<>>, late' = {}, walker' = Idle
  PROVE  Dates' /\ Holding' /\ CheckpointedIsStored'
<1>1. DOMAIN <<>> = {} /\ walker'.at = "idle"
  BY DEF Idle
<1>2. Dates'
  BY <1>1 DEF CheckpointInv, Dates, Bounded, Past
<1>3. Grows
  BY DEF Grows
<1>. QED
  BY <1>1, <1>2, <1>3, GrowsKeeps DEF CheckpointInv, Holding

LEMMA FindsKeepCheckpoints ==
  ASSUME CheckpointInv, Finds
  PROVE  Dates' /\ Holding' /\ CheckpointedIsStored'
<1>1. CASE Terminates
  BY <1>1, EndStep DEF Terminates, Blank
<1>2. CASE ~Terminates
  <2>1. UNCHANGED <<now, syncs, late, walker>>
    BY <1>2 DEF Finds, PopResolution, BeginResolution, LookUp, SearchPlayer, SearchMonth,
                SearchPage, AddResolved, EndResolution, FinderOnly
  <2>2. CASE SearchMonth
    <3>1. store' = store \/ \E more : store' = [store EXCEPT !.archive = @ \cup more]
      BY <2>2 DEF SearchMonth
    <3>. QED
      BY <2>1, <3>1, AdditionsStep DEF Additions
  <2>3. CASE AddResolved
    <3>1. store' = store \/ \E more : store' = [store EXCEPT !.games = @ \cup more]
      BY <2>3 DEF AddResolved
    <3>. QED
      BY <2>1, <3>1, AdditionsStep DEF Additions
  <2>4. CASE PopResolution \/ BeginResolution \/ LookUp \/ SearchPlayer \/ SearchPage \/ EndResolution
    <3>1. store' = store
      BY <1>2, <2>4 DEF PopResolution, BeginResolution, LookUp, SearchPlayer, SearchPage,
                        EndResolution
    <3>. QED
      BY <2>1, <3>1, AdditionsStep DEF Additions
  <2>. QED
    BY <2>2, <2>3, <2>4 DEF Finds
<1>. QED
  BY <1>1, <1>2

(* A sync whose record changes keeps its upper bound.                         *)
LEMMA BoundsKept ==
  ASSUME NEW map, NEW i \in DOMAIN map, NEW r, r.upper = map[i].upper, NEW new,
         new = [map EXCEPT ![i] = r] \/ new = Trimmed([map EXCEPT ![i] = r])
  PROVE  \A j \in DOMAIN new : j \in DOMAIN map /\ new[j].upper = map[j].upper
<1>. DEFINE more == [map EXCEPT ![i] = r]
<1>1. \A j \in DOMAIN more : j \in DOMAIN map /\ more[j].upper = map[j].upper
  OBVIOUS
<1>. HIDE DEF more
<1>2. \A j \in DOMAIN Trimmed(more) : j \in DOMAIN more /\ Trimmed(more)[j] = more[j]
  BY TrimmedKeeps
<1>3. new = more \/ new = Trimmed(more)
  BY DEF more
<1>. QED
  BY <1>1, <1>2, <1>3

LEMMA DatesKept ==
  ASSUME Dates, UNCHANGED <<now, late>>, DOMAIN store' = StoreFields, store'.sync = store.sync,
         \A j \in DOMAIN syncs' : j \in DOMAIN syncs /\ syncs'[j].upper = syncs[j].upper
  PROVE  Dates'
BY DEF Dates, Bounded, Past

LEMMA ClientsKeepCheckpoints ==
  ASSUME CheckpointInv
  PROVE  /\ \A g, u : Resolve(g, u) => Dates' /\ Holding' /\ CheckpointedIsStored'
         /\ \A i : CancelResolution(i) => Dates' /\ Holding' /\ CheckpointedIsStored'
         /\ \A d, u : StartSync(d, u) => Dates' /\ Holding' /\ CheckpointedIsStored'
         /\ \A i \in DOMAIN syncs : CancelSync(i) => Dates' /\ Holding' /\ CheckpointedIsStored'
<1>1. ASSUME NEW g, NEW u, Resolve(g, u) PROVE Dates' /\ Holding' /\ CheckpointedIsStored'
  BY <1>1, AdditionsStep DEF Resolve, Additions
<1>2. ASSUME NEW i, CancelResolution(i) PROVE Dates' /\ Holding' /\ CheckpointedIsStored'
  BY <1>2, AdditionsStep DEF CancelResolution, Additions
<1>3. ASSUME NEW d, NEW u, StartSync(d, u) PROVE Dates' /\ Holding' /\ CheckpointedIsStored'
  <2>1. UNCHANGED <<now, late, walker>>
    BY <1>3 DEF StartSync
  <2>2. \/ syncs' = syncs
        \/ \E r : r.upper = now /\ syncs' = Trimmed(With(syncs, next.sync, r))
    <3>. DEFINE new == [user |-> IF u = Nobody THEN store.profile ELSE u, days |-> d,
                        upper |-> now, at |-> now, status |-> "queued", archives |-> <<>>,
                        taken |-> 0, discovered |-> FALSE, skipped |-> {}]
    <3>1. syncs' = syncs \/ syncs' = Trimmed(With(syncs, next.sync, new))
      BY <1>3 DEF StartSync
    <3>2. new.upper = now
      OBVIOUS
    <3>. HIDE DEF new
    <3>. QED
      BY <3>1, <3>2
  <2>3. \A i \in DOMAIN syncs' : Past(syncs'[i].upper)
    <3>1. CASE syncs' = syncs
      BY <3>1 DEF CheckpointInv, Dates
    <3>2. ASSUME NEW r, r.upper = now, syncs' = Trimmed(With(syncs, next.sync, r))
          PROVE  \A i \in DOMAIN syncs' : Past(syncs'[i].upper)
      <4>1. \A i \in DOMAIN syncs' :
              syncs'[i] = r \/ (i \in DOMAIN syncs /\ syncs'[i] = syncs[i])
        BY <3>2, TrimmedWith
      <4>. QED
        BY <3>2, <4>1 DEF CheckpointInv, Dates, Bounded, Past
    <3>. QED
      BY <2>2, <3>1, <3>2
  <2>4. /\ DOMAIN store' = StoreFields /\ Grows
        /\ \/ store'.sync = store.sync
           \/ "upper" \in DOMAIN store'.sync /\ store'.sync.upper = now
    <3>1. \E name : \/ store' = [store EXCEPT !.profile = name]
                     \/ \E s : /\ "upper" \in DOMAIN s /\ s.upper = now
                               /\ store' = [store EXCEPT !.profile = name, !.sync = s]
      <4>. DEFINE name == IF u = Nobody THEN store.profile ELSE u
      <4>. DEFINE s == [user |-> name, days |-> d, upper |-> now, at |-> now, status |-> "running"]
      <4>1. \/ store' = [store EXCEPT !.profile = name]
            \/ store' = [store EXCEPT !.profile = name, !.sync = s]
        BY <1>3 DEF StartSync, Record
      <4>2. "upper" \in DOMAIN s /\ s.upper = now
        OBVIOUS
      <4>. HIDE DEF name, s
      <4>. QED
        BY <4>1, <4>2
    <3>. QED
      BY <3>1 DEF CheckpointInv, Dates, StoreFields, Grows
  <2>5. Dates'
    BY <2>1, <2>3, <2>4 DEF CheckpointInv, Dates, Bounded, Past
  <2>. QED
    BY <2>1, <2>4, <2>5, GrowsKeeps, HoldingKept DEF CheckpointInv, Dates
<1>4. ASSUME NEW i \in DOMAIN syncs, CancelSync(i)
      PROVE  Dates' /\ Holding' /\ CheckpointedIsStored'
  <2>. DEFINE r == [syncs[i] EXCEPT !.status = "cancelled", !.at = now]
  <2>1. /\ UNCHANGED <<now, store, walker>> /\ syncs' = [syncs EXCEPT ![i] = r]
        /\ late' = late \cup {Record(r, "paused")}
    BY <1>4 DEF CancelSync
  <2>2. /\ r.upper = syncs[i].upper
        /\ "upper" \in DOMAIN Record(r, "paused") /\ Record(r, "paused").upper = r.upper
    BY DEF CheckpointInv, Shapes, Numbered, SyncFields, Record
  <2>. HIDE DEF r
  <2>3. \A j \in DOMAIN syncs' : j \in DOMAIN syncs /\ syncs'[j].upper = syncs[j].upper
    BY <2>1, <2>2, BoundsKept
  <2>4. Dates'
    BY <2>1, <2>2, <2>3 DEF CheckpointInv, Dates, Bounded, Past
  <2>5. Grows
    BY <2>1 DEF Grows
  <2>. QED
    BY <2>1, <2>4, <2>5, GrowsKeeps, HoldingKept DEF CheckpointInv, Dates
<1>. QED
  BY <1>1, <1>2, <1>3, <1>4

(* The historical worker's steps outside the time it holds a page.            *)
Turns ==
  \/ walker'.at \in {"idle", "begin"}
  \/ /\ DOMAIN walker' = WalkerFields /\ Past(walker'.sync.upper)
     /\ walker'.at \notin {"add", "index", "mark"}

LEMMA TurnsStep ==
  ASSUME CheckpointInv, Dates', Grows, now' = now, Turns
  PROVE  Dates' /\ Holding' /\ CheckpointedIsStored'
<1>1. Holding'
  BY DEF Turns, Holding, Working, Past
<1>. QED
  BY <1>1, GrowsKeeps DEF CheckpointInv

LEMMA OneSyncDates ==
  ASSUME CheckpointInv, UNCHANGED <<now, late, store>>, NEW i \in DOMAIN syncs,
         NEW r, r.upper = syncs[i].upper,
         syncs' = [syncs EXCEPT ![i] = r] \/ syncs' = Trimmed([syncs EXCEPT ![i] = r])
  PROVE  Dates' /\ Grows
<1>1. \A j \in DOMAIN syncs' : j \in DOMAIN syncs /\ syncs'[j].upper = syncs[j].upper
  BY BoundsKept
<1>2. Grows
  BY DEF Grows
<1>. QED
  BY <1>1, <1>2, DatesKept DEF CheckpointInv, Dates

LEMMA BeginKeepsCheckpoints ==
  ASSUME CheckpointInv, BeginStep
  PROVE  Dates' /\ Holding' /\ CheckpointedIsStored'
<1>. DEFINE i == walker.id
<1>. DEFINE r == [syncs[i] EXCEPT !.status = "running", !.at = now]
<1>1. UNCHANGED <<now, late, store>>
  BY DEF BeginStep, WalkerOnly
<1>2. CASE syncs' = syncs /\ walker' = Idle
  <2>1. walker'.at = "idle"
    BY <1>2 DEF Idle
  <2>. QED
    BY <1>1, <1>2, <2>1, AdditionsStep DEF Additions
<1>3. CASE ~(syncs' = syncs /\ walker' = Idle)
  <2>1. /\ i \in DOMAIN syncs
        /\ syncs' = [syncs EXCEPT ![i] = r]
        /\ walker' = [at |-> IF r.discovered THEN "next" ELSE "discover", id |-> i,
                      sync |-> r, months |-> <<>>, month |-> 0, page |-> {}, end |-> "running"]
    BY <1>3 DEF BeginStep, w
  <2>2. r.upper = syncs[i].upper
    BY <2>1 DEF CheckpointInv, Shapes, Numbered, SyncFields
  <2>3. Past(r.upper)
    BY <2>1, <2>2 DEF CheckpointInv, Dates
  <2>. HIDE DEF r, i
  <2>4. /\ DOMAIN walker' = WalkerFields /\ walker'.sync = r
        /\ walker'.at \notin {"add", "index", "mark"}
    BY <2>1 DEF WalkerFields
  <2>5. Turns
    BY <2>3, <2>4 DEF Turns
  <2>6. Dates' /\ Grows
    BY <1>1, <2>1, <2>2, OneSyncDates
  <2>. QED
    BY <1>1, <2>5, <2>6, TurnsStep
<1>. QED
  BY <1>2, <1>3

LEMMA ListKeepsCheckpoints ==
  ASSUME CheckpointInv, ListMonths \/ NextMonth
  PROVE  Dates' /\ Holding' /\ CheckpointedIsStored'
<1>. DEFINE i == walker.id
<1>1. CASE Terminates
  BY <1>1, EndStep DEF Terminates, Blank
<1>2. CASE ~Terminates
  <2>1. Working
    BY DEF CheckpointInv, Holding, ListMonths, NextMonth, w
  <2>2. i \in DOMAIN syncs /\ UNCHANGED <<now, late, store>>
    BY <1>2 DEF ListMonths, NextMonth, WalkerOnly, w
  <2>3. \/ syncs' = syncs
        \/ syncs' = [syncs EXCEPT ![i].archives = walker.months, ![i].discovered = TRUE]
        \/ syncs' = [syncs EXCEPT ![i].taken = syncs[i].taken + 1]
    BY <1>2 DEF ListMonths, NextMonth, w
  <2>4. Dates' /\ Grows
    <3>1. \A j \in DOMAIN syncs' : j \in DOMAIN syncs /\ syncs'[j].upper = syncs[j].upper
      BY <2>3 DEF CheckpointInv, Shapes, Numbered, SyncFields
    <3>. QED
      BY <2>2, <3>1, DatesKept DEF CheckpointInv, Dates, Grows
  <2>5. \/ walker' = [walker EXCEPT !.at = "next"]
        \/ \E m : walker' = [walker EXCEPT !.at = "fetch", !.month = m]
        \/ walker' = [walker EXCEPT !.at = "finish", !.end = "succeeded"]
    BY <1>2 DEF ListMonths, NextMonth, w, Steps, Ending
  <2>6. Turns
    BY <2>1, <2>5 DEF Working, WalkerFields, Turns
  <2>. QED
    BY <2>2, <2>4, <2>6, TurnsStep
<1>. QED
  BY <1>1, <1>2

(* A fetched page holds every game that is due, as none of them is dated      *)
(* after the clock.                                                           *)
LEMMA FetchKeepsCheckpoints ==
  ASSUME CheckpointInv, FetchMonth
  PROVE  Dates' /\ Holding' /\ CheckpointedIsStored'
<1>. DEFINE i == walker.id
<1>. DEFINE page == {g \in MonthPage(walker.sync.user, walker.month, now) : InWindow(walker.sync, g)}
<1>1. Working /\ UNCHANGED <<now, late, store>>
  BY DEF CheckpointInv, Holding, FetchMonth, WalkerOnly, w
<1>2. \/ syncs' = syncs
      \/ i \in DOMAIN syncs /\ syncs' = [syncs EXCEPT ![i].skipped = @ \cup {walker.month}]
  BY DEF FetchMonth, w
<1>3. Dates' /\ Grows
  <2>1. \A j \in DOMAIN syncs' : j \in DOMAIN syncs /\ syncs'[j].upper = syncs[j].upper
    BY <1>2 DEF CheckpointInv, Shapes, Numbered, SyncFields
  <2>. QED
    BY <1>1, <2>1, DatesKept DEF CheckpointInv, Dates, Grows
<1>4. \/ walker' = [walker EXCEPT !.at = "progress"]
      \/ \E status : walker' = [walker EXCEPT !.at = "finish", !.end = status]
      \/ walker' = [walker EXCEPT !.at = "add", !.page = page]
  BY DEF FetchMonth, w, Steps, Abandoned, Ending
<1>5. CASE \/ walker' = [walker EXCEPT !.at = "progress"]
           \/ \E status : walker' = [walker EXCEPT !.at = "finish", !.end = status]
  <2>1. Turns
    BY <1>1, <1>5 DEF Working, WalkerFields, Turns
  <2>. QED
    BY <1>1, <1>3, <2>1, TurnsStep
<1>6. CASE walker' = [walker EXCEPT !.at = "add", !.page = page]
  <2>1. Due(walker.sync, walker.month) \subseteq page
    <3>1. ASSUME NEW g \in Due(walker.sync, walker.month) PROVE g \in page
      <4>1. /\ g \in Games /\ Of(walker.sync.user, g) /\ Month(Played[g].at) = walker.month
            /\ InWindow(walker.sync, g)
        BY <3>1 DEF Due
      <4>2. Played[g].at \in Nat /\ Played[g].at <= walker.sync.upper
        BY <4>1, PlayedAssumption DEF InWindow
      <4>3. Played[g].at <= now
        BY <1>1, <4>2 DEF Working, Past, CheckpointInv, Dates
      <4>. QED
        BY <4>1, <4>3 DEF MonthPage
    <3>. QED
      BY <3>1
  <2>. HIDE DEF page
  <2>2. /\ DOMAIN walker' = WalkerFields /\ walker'.sync = walker.sync
        /\ walker'.month = walker.month /\ walker'.at = "add" /\ walker'.page = page
    BY <1>1, <1>6 DEF Working, WalkerFields
  <2>3. Due(walker.sync, walker.month)' = Due(walker.sync, walker.month)
    BY <2>2 DEF Due, InWindow, Low
  <2>4. Past(walker.sync.upper)'
    BY <1>1, <2>2 DEF Working, Past
  <2>5. Holding'
    BY <2>1, <2>2, <2>3, <2>4 DEF Holding, Working
  <2>. QED
    BY <1>3, <2>5, GrowsKeeps DEF CheckpointInv
<1>. QED
  BY <1>4, <1>5, <1>6

LEMMA AddKeepsCheckpoints ==
  ASSUME CheckpointInv, AddMonth \/ IndexMonth
  PROVE  Dates' /\ Holding' /\ CheckpointedIsStored'
<1>1. Working /\ UNCHANGED <<now, late, syncs>>
  BY DEF CheckpointInv, Holding, AddMonth, IndexMonth, WalkerOnly, Kept, w
<1>2. \/ \E more : store' = [store EXCEPT !.games = @ \cup more]
      \/ \E more : store' = [store EXCEPT !.archive = @ \cup more]
  BY DEF AddMonth, IndexMonth
<1>3. Dates' /\ Grows
  BY <1>1, <1>2, AdditionsKeep DEF CheckpointInv, Additions
<1>4. CASE walker' = [walker EXCEPT !.at = "finish", !.end = "failed"]
  <2>1. Turns
    BY <1>1, <1>4 DEF Working, WalkerFields, Turns
  <2>. QED
    BY <1>1, <1>3, <2>1, TurnsStep
<1>5. ASSUME NEW at, walker' = [walker EXCEPT !.at = at], at \in {"index", "mark"},
             walker.at \in {"add", "index"}, at = "mark" => walker.at = "index",
             at = "index" => walker.page \subseteq store'.games,
             at = "mark" => walker.page \subseteq store'.archive
      PROVE  Dates' /\ Holding' /\ CheckpointedIsStored'
  <2>1. /\ DOMAIN walker' = WalkerFields /\ walker'.sync = walker.sync
        /\ walker'.month = walker.month /\ walker'.at = at /\ walker'.page = walker.page
    BY <1>1, <1>5 DEF Working, WalkerFields
  <2>2. Due(walker.sync, walker.month)' = Due(walker.sync, walker.month)
    BY <2>1 DEF Due, InWindow, Low
  <2>3. Past(walker.sync.upper)'
    BY <1>1, <2>1 DEF Working, Past
  <2>4. walker.page \subseteq store'.games
    BY <1>1, <1>3, <1>5 DEF Working, Grows
  <2>5. Holding'
    BY <1>1, <1>5, <2>1, <2>2, <2>3, <2>4 DEF Holding, Working
  <2>. QED
    BY <1>3, <2>5, GrowsKeeps DEF CheckpointInv
<1>6. CASE /\ walker.at = "add" /\ walker' = [walker EXCEPT !.at = "index"]
           /\ store' = [store EXCEPT !.games = @ \cup walker.page]
  <2>1. walker.page \subseteq store'.games
    BY <1>6 DEF CheckpointInv, Dates, StoreFields
  <2>. QED
    BY <1>5, <1>6, <2>1
<1>7. CASE /\ walker.at = "index" /\ walker' = [walker EXCEPT !.at = "mark"]
           /\ store' = [store EXCEPT !.archive = @ \cup walker.page]
  <2>1. walker.page \subseteq store'.archive
    BY <1>7 DEF CheckpointInv, Dates, StoreFields
  <2>. QED
    BY <1>5, <1>7, <2>1
<1>. QED
  BY <1>4, <1>6, <1>7 DEF AddMonth, IndexMonth, Steps, Ending, w

(* The checkpoint is written when the page it stands for is stored.           *)
LEMMA MarkKeepsCheckpoints ==
  ASSUME CheckpointInv, MarkMonth
  PROVE  Dates' /\ Holding' /\ CheckpointedIsStored'
<1>1. Working /\ UNCHANGED <<now, late, syncs>> /\ walker.at = "mark"
  BY DEF CheckpointInv, Holding, MarkMonth, WalkerOnly, Kept, w
<1>2. CASE walker' = [walker EXCEPT !.at = "finish", !.end = "failed"] /\ store' = store
  <2>1. Turns
    BY <1>1, <1>2 DEF Working, WalkerFields, Turns
  <2>2. Additions
    BY <1>1, <1>2 DEF Additions
  <2>. QED
    BY <1>1, <2>1, <2>2, AdditionsKeep, TurnsStep DEF CheckpointInv
<1>3. CASE walker' = [walker EXCEPT !.at = "progress"] /\ store' = Marked(walker.sync, walker.month)
  <2>. DEFINE key == <<walker.sync.user, walker.month>>
  <2>. DEFINE mark == [low |-> Low(walker.sync), high |-> walker.sync.upper]
  <2>1. /\ DOMAIN store' = StoreFields /\ store'.sync = store.sync
        /\ store'.games = store.games /\ store'.archive = store.archive
        /\ store'.marks = With(store.marks, key, mark)
    BY <1>3 DEF Marked, CheckpointInv, Dates, StoreFields
  <2>2. Dates'
    BY <1>1, <2>1 DEF CheckpointInv, Dates, Bounded, Past
  <2>3. Turns
    BY <1>1, <1>3 DEF Working, WalkerFields, Turns
  <2>4. Holding'
    BY <1>1, <2>3 DEF Turns, Holding, Working, Past
  <2>5. CheckpointedIsStored'
    <3>1. /\ DOMAIN store'.marks = DOMAIN store.marks \cup {key}
          /\ store'.marks[key] = mark
          /\ \A k \in DOMAIN store.marks \ {key} : store'.marks[k] = store.marks[k]
      <4>. HIDE DEF key, mark
      <4>1. store'.marks = With(store.marks, key, mark)
        BY <2>1
      <4>. QED
        BY <4>1 DEF With
    <3>2. ASSUME NEW g \in Games, Of(key[1], g), Month(Played[g].at) = key[2], Played[g].dated,
                 mark.low <= Played[g].at, Played[g].at <= mark.high
          PROVE  g \in store.archive /\ g \in store.games
      <4>1. g \in Due(walker.sync, walker.month)
        BY <3>2 DEF Due, InWindow
      <4>. QED
        BY <1>1, <4>1 DEF Working
    <3>3. ASSUME NEW k \in DOMAIN store'.marks, NEW g \in Games, Of(k[1], g),
                 Month(Played[g].at) = k[2], Played[g].dated,
                 store'.marks[k].low <= Played[g].at, Played[g].at <= store'.marks[k].high
          PROVE  g \in store'.archive /\ g \in store'.games
      <4>1. CASE k = key
        BY <2>1, <3>1, <3>2, <3>3, <4>1
      <4>2. CASE k # key
        <5>1. k \in DOMAIN store.marks /\ store'.marks[k] = store.marks[k]
          BY <3>1, <4>2
        <5>. QED
          BY <2>1, <3>3, <5>1 DEF CheckpointInv, CheckpointedIsStored
      <4>. QED
        BY <4>1, <4>2
    <3>. QED
      BY <3>3 DEF CheckpointedIsStored
  <2>. QED
    BY <2>2, <2>4, <2>5
<1>. QED
  BY <1>2, <1>3 DEF MarkMonth, Steps, Ending, w

(* The steps that change the sync's state, and those that record it.          *)
LEMMA StateKeepsCheckpoints ==
  ASSUME CheckpointInv, Progress \/ Finish
  PROVE  Dates' /\ Holding' /\ CheckpointedIsStored'
<1>. DEFINE i == walker.id
<1>1. CASE Terminates
  BY <1>1, EndStep DEF Terminates, Blank
<1>2. CASE ~Terminates
  <2>1. Working
    BY DEF CheckpointInv, Holding, Progress, Finish, w
  <2>2. UNCHANGED <<now, late, store>>
    BY <1>2 DEF Progress, Finish, WalkerOnly, w
  <2>3. CASE walker' = Idle /\ syncs' = syncs
    <3>1. walker'.at = "idle"
      BY <2>3 DEF Idle
    <3>. QED
      BY <2>2, <2>3, <3>1, AdditionsStep DEF Additions
  <2>4. ASSUME NEW r, NEW at, i \in DOMAIN syncs, r.upper = syncs[i].upper, at \in {"report", "record"},
               syncs' = [syncs EXCEPT ![i] = r] \/ syncs' = Trimmed([syncs EXCEPT ![i] = r]),
               walker' = [walker EXCEPT !.at = at, !.sync = r]
        PROVE  Dates' /\ Holding' /\ CheckpointedIsStored'
    <3>. HIDE DEF i
    <3>1. Past(r.upper)
      BY <2>4 DEF CheckpointInv, Dates
    <3>2. Turns
      <4>1. DOMAIN walker' = WalkerFields /\ walker'.sync = r /\ walker'.at = at
        BY <2>1, <2>4 DEF Working, WalkerFields
      <4>. QED
        BY <2>4, <3>1, <4>1 DEF Turns
    <3>3. Dates' /\ Grows
      BY <2>2, <2>4, OneSyncDates
    <3>. QED
      BY <2>2, <3>2, <3>3, TurnsStep
  <2>5. CASE ~(walker' = Idle /\ syncs' = syncs)
    <3>. DEFINE going == [syncs[i] EXCEPT !.status = "running", !.at = now]
    <3>. DEFINE ended == [syncs[i] EXCEPT !.status = Settled(@, walker.end), !.at = now]
    <3>1. i \in DOMAIN syncs
      BY <1>2, <2>5 DEF Progress, Finish, Kept, w
    <3>2. going.upper = syncs[i].upper /\ ended.upper = syncs[i].upper
      BY <3>1 DEF CheckpointInv, Shapes, Numbered, SyncFields
    <3>3. CASE Progress
      <4>1. /\ syncs' = [syncs EXCEPT ![i] = going]
            /\ walker' = [walker EXCEPT !.at = "report", !.sync = going]
        BY <1>2, <2>5, <3>3 DEF Progress, Kept, w
      <4>. HIDE DEF going, ended
      <4>. QED
        BY <2>4, <3>1, <3>2, <4>1
    <3>4. CASE Finish
      <4>1. /\ syncs' = Trimmed([syncs EXCEPT ![i] = ended])
            /\ walker' = [walker EXCEPT !.at = "record", !.sync = ended]
        BY <2>5, <3>4 DEF Finish, w
      <4>. HIDE DEF going, ended
      <4>. QED
        BY <2>4, <3>1, <3>2, <4>1
    <3>. QED
      BY <3>3, <3>4
  <2>. QED
    BY <2>3, <2>5
<1>. QED
  BY <1>1, <1>2

(* A record of a sync takes its upper bound with it.                          *)
LEMMA RecordedDates ==
  ASSUME CheckpointInv, UNCHANGED <<now, syncs>>, late' \subseteq late, NEW s, Bounded(s),
         store' = store \/ store' = [store EXCEPT !.sync = s]
  PROVE  Dates' /\ Grows
<1>1. /\ DOMAIN store' = StoreFields /\ store'.sync \in {store.sync, s} /\ Grows
  BY DEF CheckpointInv, Dates, StoreFields, Grows
<1>. QED
  BY <1>1 DEF CheckpointInv, Dates, Bounded, Past

LEMMA RecordsKeepCheckpoints ==
  ASSUME CheckpointInv, Report \/ RecordEnd
  PROVE  Dates' /\ Holding' /\ CheckpointedIsStored'
<1>1. CASE Terminates
  BY <1>1, EndStep DEF Terminates, Blank
<1>2. CASE ~Terminates
  <2>1. Working /\ UNCHANGED <<now, late, syncs>>
    BY <1>2 DEF CheckpointInv, Holding, Report, RecordEnd, WalkerOnly, Kept, w
  <2>2. PICK s : /\ "upper" \in DOMAIN s /\ s.upper = walker.sync.upper
                 /\ store' = store \/ store' = [store EXCEPT !.sync = s]
    <3>1. \/ store' = store
          \/ \E status : store' = [store EXCEPT !.sync = Record(walker.sync, status)]
      BY <1>2 DEF Report, RecordEnd, Saved, w
    <3>2. \A status : /\ "upper" \in DOMAIN Record(walker.sync, status)
                       /\ Record(walker.sync, status).upper = walker.sync.upper
      BY DEF Record
    <3>. QED
      BY <3>1, <3>2
  <2>3. Dates' /\ Grows
    BY <2>1, <2>2, RecordedDates DEF Working, Bounded
  <2>4. \/ walker' = Idle
        \/ \E at \in {"profile"} : walker' = [walker EXCEPT !.at = at]
        \/ walker' = [walker EXCEPT !.at = "finish", !.end = "failed"]
    BY <1>2 DEF Report, RecordEnd, RecordFails, Steps, Ending, w
  <2>5. Turns
    <3>1. Idle.at = "idle"
      BY DEF Idle
    <3>. QED
      BY <2>1, <2>4, <3>1 DEF Working, WalkerFields, Turns
  <2>. QED
    BY <2>1, <2>3, <2>5, TurnsStep
<1>. QED
  BY <1>1, <1>2

LEMMA WalksKeepCheckpoints ==
  ASSUME CheckpointInv, Walks
  PROVE  Dates' /\ Holding' /\ CheckpointedIsStored'
<1>1. CASE PopSync
  <2>1. UNCHANGED <<now, late, syncs, store>> /\ walker'.at = "begin"
    BY <1>1 DEF PopSync, WalkerOnly
  <2>. QED
    BY <2>1, AdditionsStep DEF Additions
<1>2. CASE DiscoverMonths
  <2>1. Working /\ UNCHANGED <<now, late, syncs, store>>
    BY <1>2 DEF CheckpointInv, Holding, DiscoverMonths, WalkerOnly, Kept, w
  <2>2. \/ \E months : walker' = [walker EXCEPT !.at = "list", !.months = months]
        \/ \E status : walker' = [walker EXCEPT !.at = "finish", !.end = status]
    BY <1>2 DEF DiscoverMonths, Abandoned, Ending, w
  <2>3. Turns
    BY <2>1, <2>2 DEF Working, WalkerFields, Turns
  <2>. QED
    BY <2>1, <2>3, AdditionsKeep, TurnsStep DEF Additions, CheckpointInv
<1>3. CASE UpdateProfile
  <2>1. Working /\ UNCHANGED <<now, late, syncs>>
    BY <1>3 DEF CheckpointInv, Holding, UpdateProfile, WalkerOnly, Kept, w
  <2>2. store' = store \/ \E name : store' = [store EXCEPT !.profile = name]
    BY <1>3 DEF UpdateProfile
  <2>3. Turns
    <3>1. \/ walker' = Idle
          \/ walker' = [walker EXCEPT !.at = "finish", !.end = "failed"]
      BY <1>3 DEF UpdateProfile, Ending, w
    <3>2. Idle.at = "idle"
      BY DEF Idle
    <3>. QED
      BY <2>1, <3>1, <3>2 DEF Working, WalkerFields, Turns
  <2>. QED
    BY <2>1, <2>2, <2>3, AdditionsKeep, TurnsStep DEF Additions, CheckpointInv
<1>. QED
  BY <1>1, <1>2, <1>3, BeginKeepsCheckpoints, ListKeepsCheckpoints, FetchKeepsCheckpoints,
     AddKeepsCheckpoints, MarkKeepsCheckpoints, StateKeepsCheckpoints, RecordsKeepCheckpoints
     DEF Walks

(* The program's start: the resumed sync keeps the upper bound that was       *)
(* recorded.                                                                  *)
LEMMA StartKeepsCheckpoints ==
  ASSUME CheckpointInv, NEW u, Start(u)
  PROVE  Dates' /\ Holding' /\ CheckpointedIsStored'
<1>1. now' = now /\ late' = {} /\ walker'.at = "idle"
  BY DEF Start, Blank, Idle
<1>. DEFINE bound == store.sync.upper
<1>2. \E name, s : /\ "upper" \in DOMAIN s /\ s.upper = bound
                  /\ \/ store' = [store EXCEPT !.profile = name]
                     \/ store' = [store EXCEPT !.profile = name, !.sync = s]
  <2>. DEFINE name == IF u = Nobody THEN store.profile ELSE u
  <2>. DEFINE paused == [store.sync EXCEPT !.status = "paused", !.at = now]
  <2>1. \/ store' = [store EXCEPT !.profile = name]
        \/ store' = [store EXCEPT !.profile = name, !.sync = IF @.status = "running" THEN paused ELSE @]
    BY DEF Start
  <2>2. "upper" \in DOMAIN paused /\ paused.upper = bound
    BY DEF CheckpointInv, Dates, Bounded
  <2>3. "upper" \in DOMAIN store.sync /\ store.sync.upper = bound
    BY DEF CheckpointInv, Dates, Bounded
  <2>. HIDE DEF name, paused, bound
  <2>4. \E s : /\ "upper" \in DOMAIN s /\ s.upper = bound
              /\ \/ store' = [store EXCEPT !.profile = name]
                 \/ store' = [store EXCEPT !.profile = name, !.sync = s]
    <3>1. CASE store.sync.status = "running"
      BY <2>1, <2>2, <3>1
    <3>2. CASE store.sync.status # "running"
      BY <2>1, <2>3, <3>2
    <3>. QED
      BY <3>1, <3>2
  <2>. QED
    BY <2>4
<1>3. /\ DOMAIN store' = StoreFields /\ Grows
      /\ "upper" \in DOMAIN store'.sync /\ store'.sync.upper = bound
  BY <1>2 DEF CheckpointInv, Dates, Bounded, StoreFields, Grows
<1>4. \A i \in DOMAIN syncs' : syncs'[i].upper = bound
  <2>. DEFINE s == [user |-> store.sync.user, days |-> store.sync.days, upper |-> bound,
                    at |-> now, status |-> "queued", archives |-> <<>>, taken |-> 0,
                    discovered |-> FALSE, skipped |-> {}]
  <2>1. syncs' = <<>> \/ syncs' = <<s>>
    BY DEF Start
  <2>2. s.upper = bound
    OBVIOUS
  <2>. HIDE DEF s
  <2>3. DOMAIN <<>> = {} /\ DOMAIN <<s>> = {1} /\ <<s>>[1] = s
    OBVIOUS
  <2>. QED
    BY <2>1, <2>2, <2>3
<1>5. Dates'
  BY <1>1, <1>3, <1>4 DEF CheckpointInv, Dates, Bounded, Past
<1>. QED
  BY <1>1, <1>3, <1>5, GrowsKeeps DEF CheckpointInv, Holding

LEMMA TickKeepsCheckpoints ==
  ASSUME CheckpointInv, Tick
  PROVE  Dates' /\ Holding' /\ CheckpointedIsStored'
<1>1. now' = now + 1 /\ UNCHANGED <<store, syncs, late, walker>>
  BY DEF Tick, memory
<1>2. Dates' /\ Grows
  BY <1>1 DEF CheckpointInv, Dates, Bounded, Past, Grows
<1>3. now <= now'
  BY <1>1 DEF CheckpointInv, Dates
<1>. QED
  BY <1>1, <1>2, <1>3, HoldingKept, GrowsKeeps DEF CheckpointInv

LEMMA StepKeepsCheckpoints ==
  ASSUME CheckpointInv, [Next]_vars
  PROVE  CheckpointInv'
<1>. SUFFICES Dates' /\ Holding' /\ CheckpointedIsStored'
  BY StepKeepsCancelled DEF CheckpointInv
<1>1. ASSUME NEW u, ConfigureProfile(u) PROVE Dates' /\ Holding' /\ CheckpointedIsStored'
  <2>1. Additions /\ walker' = walker
    BY <1>1 DEF ConfigureProfile, memory, Additions
  <2>. QED
    BY <2>1, AdditionsStep
<1>2. ASSUME NEW g, NEW u, ImportUrl(g, u) PROVE Dates' /\ Holding' /\ CheckpointedIsStored'
  <2>1. UNCHANGED <<now, syncs, late, walker>>
    BY <1>2 DEF ImportUrl, memory
  <2>2. store' = store \/ \E more : store' = [store EXCEPT !.games = @ \cup more]
    BY <1>2 DEF ImportUrl
  <2>. QED
    BY <2>1, <2>2, AdditionsStep DEF Additions
<1>3. ASSUME NEW s \in late, RecordCancelled(s) PROVE Dates' /\ Holding' /\ CheckpointedIsStored'
  <2>1. /\ UNCHANGED <<now, syncs, walker>> /\ late' \subseteq late
        /\ store' = store \/ store' = [store EXCEPT !.sync = s]
    BY <1>3 DEF RecordCancelled, Saved
  <2>2. Dates' /\ Grows
    BY <2>1, RecordedDates DEF CheckpointInv, Dates
  <2>. QED
    BY <2>1, <2>2, HoldingKept, GrowsKeeps DEF CheckpointInv, Dates
<1>4. CASE Shutdown \/ UNCHANGED vars
  <2>1. Additions /\ walker' = walker
    BY <1>4 DEF Shutdown, vars, memory, Additions
  <2>. QED
    BY <2>1, AdditionsStep
<1>5. CASE Crash \/ Leave
  BY <1>5, EndStep DEF Crash, Leave, Blank
<1>. QED
  BY <1>1, <1>2, <1>3, <1>4, <1>5, ClientsKeepCheckpoints, FindsKeepCheckpoints,
     WalksKeepCheckpoints, StartKeepsCheckpoints, TickKeepsCheckpoints DEF Next

LEMMA CheckpointInit == Init => CheckpointInv
<1>. SUFFICES ASSUME Init PROVE CheckpointInv
  OBVIOUS
<1>1. DOMAIN <<>> = {} /\ Idle.at = "idle"
  BY DEF Idle
<1>2. /\ DOMAIN store = StoreFields /\ store.marks = <<>>
      /\ "upper" \in DOMAIN store.sync /\ store.sync.upper = 0
  BY DEF Init, EmptyStore, NoSync, StoreFields
<1>3. now \in Nat
  BY ScopesAssumption DEF Init
<1>4. syncs = <<>> /\ late = {} /\ walker = Idle
  BY DEF Init
<1>5. Dates
  BY <1>1, <1>2, <1>3, <1>4 DEF Dates, Bounded, Past
<1>6. CheckpointedIsStored
  BY <1>1, <1>2 DEF CheckpointedIsStored
<1>. QED
  BY <1>1, <1>4, <1>5, <1>6, ShapesInit DEF CheckpointInv, Holding

-----------------------------------------------------------------------------
(* A month checkpoint of a sync is never ahead of what is stored, whatever    *)
(* fails, is cancelled, crashes or is resumed between the fetch of a page and *)
(* its checkpoint: for every set of games and users, every length of a month, *)
(* every window and every number of syncs.                                    *)
THEOREM CheckpointsNotAhead == Spec => []CheckpointedIsStored
<1>1. Init => CheckpointInv
  BY CheckpointInit
<1>2. CheckpointInv /\ [Next]_vars => CheckpointInv'
  BY StepKeepsCheckpoints
<1>3. CheckpointInv => CheckpointedIsStored
  BY DEF CheckpointInv
<1>. QED
  BY <1>1, <1>2, <1>3, PTL DEF Spec

-----------------------------------------------------------------------------
(* Queues of numbers, of which each stands in the queue at most once.         *)
In(i, queue) == \E k \in DOMAIN queue : queue[k] = i
NoTwice(queue) == \A k, l \in DOMAIN queue : queue[k] = queue[l] => k = l

LEMMA OnceMeans ==
  ASSUME NEW queue, NoTwice(queue), NEW i
  PROVE  Once(queue, i) <=> In(i, queue)
<1>. DEFINE places == {k \in DOMAIN queue : queue[k] = i}
<1>1. CASE In(i, queue)
  <2>1. PICK k \in DOMAIN queue : queue[k] = i
    BY <1>1 DEF In
  <2>2. places = {k}
    BY <2>1 DEF NoTwice
  <2>. HIDE DEF places
  <2>3. Cardinality(places) = 1
    BY <2>2, FS_Singleton
  <2>. QED
    BY <1>1, <2>3 DEF Once, places
<1>2. CASE ~In(i, queue)
  <2>1. places = {}
    BY <1>2 DEF In
  <2>. HIDE DEF places
  <2>2. Cardinality(places) = 0
    BY <2>1, FS_EmptySet
  <2>. QED
    BY <1>2, <2>2 DEF Once, places
<1>. QED
  BY <1>1, <1>2

LEMMA AppendedQueue ==
  ASSUME NEW S, NEW queue \in Seq(S), NEW i \in S
  PROVE  /\ Append(queue, i) \in Seq(S) /\ Len(Append(queue, i)) = Len(queue) + 1
         /\ \A x : In(x, Append(queue, i)) <=> x = i \/ In(x, queue)
         /\ NoTwice(queue) /\ ~In(i, queue) => NoTwice(Append(queue, i))
<1>. DEFINE more == Append(queue, i)
<1>1. /\ more \in Seq(S) /\ Len(more) = Len(queue) + 1
      /\ \A k \in 1..Len(queue) : more[k] = queue[k]
      /\ more[Len(queue) + 1] = i
  BY AppendProperties
<1>2. /\ Len(queue) \in Nat /\ DOMAIN queue = 1..Len(queue)
      /\ DOMAIN more = 1..(Len(queue) + 1)
  BY <1>1, LenProperties
<1>. HIDE DEF more
<1>3. \A x : In(x, more) <=> x = i \/ In(x, queue)
  BY <1>1, <1>2 DEF In
<1>4. NoTwice(queue) /\ ~In(i, queue) => NoTwice(more)
  BY <1>1, <1>2 DEF In, NoTwice
<1>. QED
  BY <1>1, <1>3, <1>4 DEF more

LEMMA PoppedQueue ==
  ASSUME NEW S, NEW queue \in Seq(S), queue # <<>>
  PROVE  /\ Head(queue) \in S /\ Tail(queue) \in Seq(S) /\ Len(Tail(queue)) = Len(queue) - 1
         /\ \A x : In(x, queue) <=> x = Head(queue) \/ In(x, Tail(queue))
         /\ NoTwice(queue) => NoTwice(Tail(queue)) /\ ~In(Head(queue), Tail(queue))
<1>. DEFINE rest == Tail(queue)
<1>1. /\ Head(queue) = queue[1] /\ Head(queue) \in S /\ rest \in Seq(S)
      /\ Len(rest) = Len(queue) - 1 /\ \A k \in 1..Len(rest) : rest[k] = queue[k + 1]
  BY HeadTailProperties
<1>2. /\ Len(queue) \in Nat \ {0} /\ DOMAIN queue = 1..Len(queue)
      /\ DOMAIN rest = 1..(Len(queue) - 1)
  BY <1>1, LenProperties, EmptySeq
<1>. HIDE DEF rest
<1>3. \A k \in 1..Len(queue) : k = 1 \/ (k - 1 \in DOMAIN rest /\ rest[k - 1] = queue[k])
  <2>. SUFFICES ASSUME NEW k \in 1..Len(queue), k # 1
                PROVE  k - 1 \in DOMAIN rest /\ rest[k - 1] = queue[k]
    OBVIOUS
  <2>1. PICK j : j = k - 1
    OBVIOUS
  <2>2. j \in 1..(Len(queue) - 1) /\ j + 1 = k
    BY <1>2, <2>1
  <2>3. j \in 1..Len(rest) /\ j \in DOMAIN rest
    BY <1>1, <1>2, <2>2
  <2>4. rest[j] = queue[j + 1]
    BY <1>1, <2>3
  <2>5. j \in DOMAIN rest /\ rest[j] = queue[k]
    BY ONLY <2>2, <2>3, <2>4
  <2>. QED  BY ONLY <2>1, <2>5, Zenon
<1>4. \A k \in DOMAIN rest : k + 1 \in DOMAIN queue /\ queue[k + 1] = rest[k] /\ k # 0
  BY <1>1, <1>2
<1>5. \A x : In(x, queue) <=> x = queue[1] \/ In(x, rest)
  <2>. SUFFICES ASSUME NEW x  PROVE  In(x, queue) <=> x = queue[1] \/ In(x, rest)
    OBVIOUS
  <2>1. In(x, queue) => x = queue[1] \/ In(x, rest)
    BY <1>2, <1>3 DEF In
  <2>2. 1 \in DOMAIN queue
    BY <1>2
  <2>3. x = queue[1] \/ In(x, rest) => In(x, queue)
    BY <1>4, <2>2 DEF In
  <2>. QED  BY <2>1, <2>3
<1>6. ASSUME NoTwice(queue)
      PROVE  NoTwice(rest) /\ ~In(queue[1], rest)
  <2>1. 1 \in DOMAIN queue /\ \A k \in DOMAIN rest : k \in Nat
    BY <1>2
  <2>2. ~In(queue[1], rest)
    BY <1>4, <1>6, <2>1 DEF In, NoTwice
  <2>3. ASSUME NEW k \in DOMAIN rest, NEW l \in DOMAIN rest, rest[k] = rest[l]
        PROVE  k = l
    <3>1. k + 1 = l + 1
      BY <1>4, <1>6, <2>3 DEF NoTwice
    <3>. QED
      BY <2>1, <3>1
  <2>. QED
    BY <2>2, <2>3 DEF NoTwice
<1>. QED
  BY <1>1, <1>5, <1>6 DEF rest

LEMMA OthersQueue ==
  ASSUME NEW S, NEW queue \in Seq(S), NEW i
  PROVE  /\ Others(queue, i) \in Seq(S) /\ Len(Others(queue, i)) <= Len(queue)
         /\ \A x : In(x, Others(queue, i)) <=> x # i /\ In(x, queue)
         /\ NoTwice(queue) => NoTwice(Others(queue, i))
<1>. DEFINE I == {k \in DOMAIN queue : queue[k] # i}
            left == Picked(queue, I)
            N == 1..Cardinality(I)
<1>1. /\ Cardinality(I) <= Len(queue) /\ left \in Seq(S) /\ Len(left) = Cardinality(I)
      /\ DOMAIN left = N
      /\ \A n \in N : Place(I, n) \in I /\ left[n] = queue[Place(I, n)]
      /\ \A n, m \in N : Place(I, n) = Place(I, m) => n = m
      /\ \A k \in I : \E n \in N : Place(I, n) = k
  <2>1. I \in SUBSET DOMAIN queue
    OBVIOUS
  <2>. HIDE DEF I
  <2>. QED
    BY <2>1, PickedPlaces
<1>. DEFINE at == [n \in N |-> Place(I, n)]
<1>2. /\ \A n \in N : at[n] \in I /\ left[n] = queue[at[n]]
      /\ \A n, m \in N : at[n] = at[m] => n = m
      /\ \A k \in I : \E n \in N : at[n] = k
  <2>1. \A n \in N : at[n] = Place(I, n)
    OBVIOUS
  <2>. HIDE DEF at, left, N, I
  <2>. QED
    BY <1>1, <2>1
<1>. HIDE DEF at
<1>3. /\ \A n \in N : at[n] \in DOMAIN queue /\ queue[at[n]] # i
      /\ \A k \in DOMAIN queue : queue[k] # i => \E n \in N : at[n] = k
  BY <1>2
<1>. HIDE DEF left, N, I
<1>4. \A x : In(x, left) <=> x # i /\ In(x, queue)
  <2>1. ASSUME NEW n \in N PROVE left[n] # i /\ In(left[n], queue)
    BY <1>2, <1>3 DEF In
  <2>2. ASSUME NEW k \in DOMAIN queue, queue[k] # i PROVE In(queue[k], left)
    <3>1. PICK n \in N : at[n] = k
      BY <1>3, <2>2
    <3>. QED
      BY <1>1, <1>2, <3>1 DEF In
  <2>3. ASSUME NEW x, In(x, left) PROVE x # i /\ In(x, queue)
    <3>1. PICK n \in N : left[n] = x
      BY <1>1, <2>3 DEF In
    <3>. QED
      BY <2>1, <3>1
  <2>4. ASSUME NEW x, x # i, In(x, queue) PROVE In(x, left)
    <3>1. PICK k \in DOMAIN queue : queue[k] = x
      BY <2>4 DEF In
    <3>. QED
      BY <2>2, <2>4, <3>1
  <2>. QED
    BY <2>3, <2>4
<1>5. NoTwice(queue) => NoTwice(left)
  <2>. SUFFICES ASSUME NoTwice(queue), NEW n \in N, NEW m \in N, left[n] = left[m]
                PROVE  n = m
    BY <1>1 DEF NoTwice
  <2>1. at[n] = at[m]
    BY <1>2, <1>3 DEF NoTwice
  <2>. QED
    BY <1>2, <2>1
<1>. QED
  BY <1>1, <1>4, <1>5 DEF left, Others, I

LEMMA EmptyQueue ==
  /\ NoTwice(<<>>) /\ \A x : ~In(x, <<>>)
  /\ \A S : <<>> \in Seq(S)
  /\ Len(<<>>) = 0
BY DEF NoTwice, In

-----------------------------------------------------------------------------
(* The maps of the manager keep their records' types, and trimming takes none *)
(* that is live, nor the newest one.                                          *)
Typed(map, R) ==
  /\ map = [i \in DOMAIN map |-> map[i]]
  /\ \A i \in DOMAIN map : map[i] \in R

LEMMA TypedWith ==
  ASSUME NEW map, NEW R, Typed(map, R), NEW i, NEW r \in R
  PROVE  Typed(With(map, i, r), R)
BY DEF Typed, With

LEMMA TypedRestrict ==
  ASSUME NEW map, NEW R, Typed(map, R), NEW D \in SUBSET DOMAIN map
  PROVE  Typed(Restrict(map, D), R)
BY DEF Typed, Restrict

LEMMA TypedTrimmed ==
  ASSUME NEW map, NEW R, Typed(map, R)
  PROVE  Typed(Trimmed(map), R)
BY DEF Typed, Trimmed, Restrict

LEMMA TypedExcept ==
  ASSUME NEW map, NEW R, Typed(map, R), NEW i \in DOMAIN map, NEW r \in R
  PROVE  Typed([map EXCEPT ![i] = r], R)
BY DEF Typed

LEMMA TypedEmpty ==
  ASSUME NEW R
  PROVE  Typed(<<>>, R)
BY DEF Typed

LEMMA LiveKept ==
  ASSUME NEW map, NEW i \in DOMAIN map, i \in Nat, map[i].status \in Live
  PROVE  i \in DOMAIN Trimmed(map)
BY DEF Trimmed, Restrict

LEMMA NewestKept ==
  ASSUME NEW map, NEW i \in DOMAIN map, i \in Nat, \A j \in DOMAIN map : j \in Nat /\ j <= i
  PROVE  i \in DOMAIN Trimmed(map)
<1>1. {j \in DOMAIN map : j <= i} = DOMAIN map
  OBVIOUS
<1>2. DOMAIN map \in SUBSET (0..i) /\ IsFiniteSet(0..i)
  BY FS_Interval
<1>3. Cardinality(DOMAIN map) \in Nat
  BY <1>2, FS_Subset, FS_CardinalityType
<1>4. ~(Cardinality(DOMAIN map) + MaxHistory <= Cardinality(DOMAIN map))
  BY <1>3, OptionsAssumption
<1>. QED
  BY <1>1, <1>4 DEF Trimmed, Restrict

-----------------------------------------------------------------------------
(* Resolutions.                                                               *)
FinderFields ==
  {"at", "id", "game", "user", "status", "users", "tried", "player", "months"}
ResolutionEnds == {"cancelled", "resolved", "needs_recovery"}
Finding == finder.at \notin {"idle", "begin"}

ResolutionTypes ==
  /\ Typed(resolutions, ResolutionState)
  /\ asked \in Seq(DOMAIN resolutions) /\ Len(asked) <= MaxPending
  /\ finder.at # "idle" => finder.id \in Nat /\ finder.id < next.resolution
  /\ Finding => DOMAIN finder = FinderFields /\ finder.game \in Games
  /\ finder.at = "end" => finder.status \in ResolutionEnds

(* A resolution waits, or has been taken by the interactive worker, or has    *)
(* ended; the URL of a game leads to one that has not ended.                  *)
ResolutionPlaces ==
  /\ NoTwice(asked)
  /\ \A k \in DOMAIN asked : resolutions[asked[k]].status = "queued"
  /\ finder.at # "idle" => ~In(finder.id, asked)
  /\ \A i \in DOMAIN resolutions :
       /\ resolutions[i].status = "queued" =>
            In(i, asked) \/ (finder.at = "begin" /\ finder.id = i)
       /\ resolutions[i].status = "running" => Finding /\ finder.id = i
  /\ Finding /\ finder.id \in DOMAIN resolutions =>
       /\ resolutions[finder.id].status \in {"running", "cancelled"}
       /\ resolutions[finder.id].game = finder.game
  /\ \A g \in DOMAIN active :
       /\ active[g] \in DOMAIN resolutions
       /\ resolutions[active[g]].game = g /\ resolutions[active[g]].status \in Live

ResolutionInv == Shapes /\ ResolutionTypes /\ ResolutionPlaces

(* The steps between the begin and the end of a resolution.                   *)
Searching ==
  /\ Finding /\ finder'.at \notin {"idle", "begin"}
  /\ DOMAIN finder' = FinderFields /\ finder'.id = finder.id /\ finder'.game = finder.game
  /\ finder'.at = "end" => finder'.status \in ResolutionEnds
  /\ UNCHANGED <<resolutions, asked, active>> /\ next'.resolution = next.resolution

LEMMA SearchShape ==
  ASSUME ResolutionInv,
         LookUp \/ SearchPlayer \/ SearchMonth \/ SearchPage \/ AddResolved
  PROVE  Searching
<1>1. /\ Finding /\ DOMAIN finder = FinderFields
      /\ UNCHANGED <<resolutions, asked, active, next>>
  BY DEF ResolutionInv, ResolutionTypes, Finding, LookUp, SearchPlayer, SearchMonth, SearchPage,
         AddResolved, FinderOnly, Quiet, f
<1>2. \/ \E at \in {"add", "search"} : finder' = [finder EXCEPT !.at = at]
      \/ \E status \in ResolutionEnds : finder' = [finder EXCEPT !.at = "end", !.status = status]
      \/ \E left : finder' = [finder EXCEPT !.at = "search", !.users = left]
      \/ \E left, seen, player :
           finder' = [finder EXCEPT !.users = left, !.tried = seen, !.player = player]
      \/ \E left, seen, player, found :
           finder' = [finder EXCEPT !.users = left, !.tried = seen, !.player = player,
                                    !.at = "month", !.months = found]
      \/ \E left : finder' = [finder EXCEPT !.months = left]
  <2>1. CASE LookUp
    BY <2>1 DEF LookUp, Goes, Concludes, ResolutionEnds, f
  <2>2. CASE SearchPlayer
    <3>. DEFINE users == Tail(finder.users)
                tried == finder.tried \cup {Head(finder.users)}
                u == Head(finder.users)
                rest == [finder EXCEPT !.users = users, !.tried = tried, !.player = u]
    <3>1. \/ finder' = rest
          \/ \E months : finder' = [rest EXCEPT !.at = "month", !.months = months]
          \/ \E status \in ResolutionEnds : finder' = [finder EXCEPT !.at = "end", !.status = status]
      <4>. DEFINE found == Discovered(u, now, SearchedMonths)
      <4>1. \/ finder' = rest
            \/ \E end \in ApiEnds(TokenStopped) :
                 CASE end = "done" -> finder' = [rest EXCEPT !.at = "month", !.months = found]
                   [] end = "absent" -> finder' = rest
                   [] end = "cancelled" -> finder' = [finder EXCEPT !.at = "end", !.status = "cancelled"]
                   [] end = "failed" -> finder' = [finder EXCEPT !.at = "end", !.status = "needs_recovery"]
        BY <2>2, Zenon DEF SearchPlayer, Concludes, f
      <4>2. \A end \in ApiEnds(TokenStopped) : end \in {"done", "absent", "cancelled", "failed"}
        BY DEF ApiEnds, Ends, Failure
      <4>. HIDE DEF found, rest
      <4>. QED
        BY <4>1, <4>2 DEF ResolutionEnds
    <3>2. \A months : [rest EXCEPT !.at = "month", !.months = months] =
                      [finder EXCEPT !.users = users, !.tried = tried, !.player = u,
                                     !.at = "month", !.months = months]
      OBVIOUS
    <3>. HIDE DEF users, tried, u
    <3>3. CASE finder' = rest
      BY <3>3
    <3>4. ASSUME NEW months, finder' = [rest EXCEPT !.at = "month", !.months = months]
          PROVE  \E left, seen, player, found :
                   finder' = [finder EXCEPT !.users = left, !.tried = seen, !.player = player,
                                            !.at = "month", !.months = found]
      BY <3>2, <3>4
    <3>. QED
      BY <3>1, <3>3, <3>4
  <2>3. CASE SearchMonth
    BY <2>3 DEF SearchMonth, Goes, Concludes, ResolutionEnds, f
  <2>4. CASE SearchPage
    BY <2>4 DEF SearchPage, Goes, Concludes, ResolutionEnds, f
  <2>5. CASE AddResolved
    BY <2>5 DEF AddResolved, Concludes, ResolutionEnds, f
  <2>. QED
    BY <2>1, <2>2, <2>3, <2>4, <2>5
<1>3. finder.at # "end"
  BY DEF LookUp, SearchPlayer, SearchMonth, SearchPage, AddResolved, f
<1>. QED
  BY <1>1, <1>2, <1>3 DEF Searching, FinderFields, Finding

LEMMA RetypedQueue ==
  ASSUME NEW S, NEW T, NEW queue \in Seq(S), \A k \in DOMAIN queue : queue[k] \in T
  PROVE  queue \in Seq(T)
<1>1. queue = [k \in 1..Len(queue) |-> queue[k]] /\ Len(queue) \in Nat /\ DOMAIN queue = 1..Len(queue)
  BY LenProperties
<1>. QED
  BY <1>1

LEMMA ResolutionsUnchanged ==
  ASSUME ResolutionInv, UNCHANGED <<resolutions, asked, active, finder>>,
         next'.resolution = next.resolution
  PROVE  ResolutionTypes' /\ ResolutionPlaces'
BY DEF ResolutionInv, ResolutionTypes, ResolutionPlaces, Finding

LEMMA ResolutionsReset ==
  ASSUME resolutions' = <<>>, asked' = <<>>, active' = <<>>, finder' = Idle
  PROVE  ResolutionTypes' /\ ResolutionPlaces'
<1>1. DOMAIN <<>> = {} /\ Idle.at = "idle" /\ 0 <= MaxPending
  BY OptionsAssumption DEF Idle
<1>2. Typed(<<>>, ResolutionState)
  BY TypedEmpty
<1>3. ResolutionTypes'
  BY <1>1, <1>2, EmptyQueue DEF ResolutionTypes, Finding
<1>4. ResolutionPlaces'
  BY <1>1, EmptyQueue DEF ResolutionPlaces, Finding
<1>. QED
  BY <1>3, <1>4

LEMMA SearchingKeeps ==
  ASSUME ResolutionInv, Searching
  PROVE  ResolutionTypes' /\ ResolutionPlaces'
<1>1. Finding'
  BY DEF Searching, Finding
<1>2. ResolutionTypes'
  BY <1>1 DEF ResolutionInv, ResolutionTypes, Searching, Finding
<1>3. ResolutionPlaces'
  BY <1>1 DEF ResolutionInv, ResolutionPlaces, Searching, Finding
<1>. QED
  BY <1>2, <1>3

(* A new resolution is queued last; trimming takes none that waits or runs.   *)
LEMMA ResolveKeeps ==
  ASSUME ResolutionInv, NEW g \in Games, NEW u \in Users \cup {Nobody},
         store.profile \in Users \cup {Nobody}, Resolve(g, u)
  PROVE  ResolutionTypes' /\ ResolutionPlaces'
<1>. DEFINE i == next.resolution
<1>. DEFINE new == [game |-> g, user |-> IF u = Nobody THEN store.profile ELSE u, status |-> "queued"]
<1>1. CASE UNCHANGED <<resolutions, active, asked, next>>
  <2>1. finder' = finder
    BY DEF Resolve
  <2>. QED
    BY <1>1, <2>1, ResolutionsUnchanged
<1>2. CASE ~UNCHANGED <<resolutions, active, asked, next>>
  <2>1. /\ ~Full(asked)
        /\ resolutions' = Trimmed(With(resolutions, i, new)) /\ active' = With(active, g, i)
        /\ asked' = Append(asked, i) /\ next' = [next EXCEPT !.resolution = i + 1]
        /\ finder' = finder
    BY <1>2 DEF Resolve
  <2>2. new \in ResolutionState /\ new.status = "queued" /\ new.game = g
    BY DEF ResolutionState, Live
  <2>3. /\ i \in Nat /\ i \notin DOMAIN resolutions /\ \A j \in DOMAIN resolutions : j \in Nat
        /\ next'.resolution = i + 1
    BY <2>1 DEF ResolutionInv, Shapes, Numbered
  <2>. HIDE DEF new, i
  <2>4. /\ DOMAIN resolutions' \subseteq DOMAIN resolutions \cup {i}
        /\ i \in DOMAIN resolutions' => resolutions'[i] = new
        /\ \A j \in DOMAIN resolutions' \ {i} : resolutions'[j] = resolutions[j]
    BY <2>1, TrimmedWith
  <2>5. Typed(resolutions', ResolutionState)
    BY <2>1, <2>2, TypedWith, TypedTrimmed DEF ResolutionInv, ResolutionTypes
  <2>6. /\ i \in DOMAIN resolutions'
        /\ \A j \in DOMAIN resolutions : resolutions[j].status \in Live => j \in DOMAIN resolutions'
    <3>. DEFINE more == With(resolutions, i, new)
    <3>1. /\ DOMAIN more = DOMAIN resolutions \cup {i} /\ more[i] = new
          /\ \A j \in DOMAIN resolutions \ {i} : more[j] = resolutions[j]
      BY DEF With
    <3>2. "queued" \in Live
      BY DEF Live
    <3>. HIDE DEF more
    <3>3. \A j \in DOMAIN more : more[j].status \in Live => j \in DOMAIN Trimmed(more)
      BY <2>3, <3>1, LiveKept
    <3>. QED
      BY <2>1, <2>2, <2>3, <3>1, <3>2, <3>3 DEF more
  <2>7. /\ \A k \in DOMAIN asked : asked[k] \in DOMAIN resolutions' /\ asked[k] # i
        /\ asked \in Seq(DOMAIN resolutions)
    <3>1. asked \in Seq(DOMAIN resolutions) /\ \A k \in DOMAIN asked : asked[k] \in DOMAIN resolutions
      BY DEF ResolutionInv, ResolutionTypes
    <3>. QED
      BY <2>3, <2>6, <3>1 DEF ResolutionInv, ResolutionPlaces, Live
  <2>8. /\ asked' \in Seq(DOMAIN resolutions') /\ Len(asked') = Len(asked) + 1
        /\ \A x : In(x, asked') <=> x = i \/ In(x, asked)
        /\ NoTwice(asked')
    <3>1. asked \in Seq(DOMAIN resolutions') /\ ~In(i, asked)
      BY <2>7, RetypedQueue DEF In
    <3>. QED
      BY <2>1, <2>6, <3>1, AppendedQueue DEF ResolutionInv, ResolutionPlaces
  <2>9. Len(asked') <= MaxPending
    BY <2>1, <2>7, <2>8, OptionsAssumption DEF Full
  <2>10. ResolutionTypes'
    <3>1. finder.at # "idle" => finder.id \in Nat /\ finder.id < i + 1
      BY <2>3 DEF ResolutionInv, ResolutionTypes, i
    <3>. QED
      BY <2>1, <2>3, <2>5, <2>8, <2>9, <3>1 DEF ResolutionInv, ResolutionTypes, Finding
  <2>11. finder.at # "idle" => finder.id # i
    BY <2>3 DEF ResolutionInv, ResolutionTypes, i
  <2>12. \A j \in DOMAIN resolutions' :
           /\ resolutions'[j].status = "queued" =>
                In(j, asked') \/ (finder.at = "begin" /\ finder.id = j)
           /\ resolutions'[j].status = "running" => Finding /\ finder.id = j
    BY <2>2, <2>4, <2>8 DEF ResolutionInv, ResolutionPlaces
  <2>13. Finding /\ finder.id \in DOMAIN resolutions' =>
           /\ resolutions'[finder.id].status \in {"running", "cancelled"}
           /\ resolutions'[finder.id].game = finder.game
    BY <2>4, <2>11 DEF ResolutionInv, ResolutionPlaces, Finding
  <2>14. \A h \in DOMAIN active' :
           /\ active'[h] \in DOMAIN resolutions'
           /\ resolutions'[active'[h]].game = h /\ resolutions'[active'[h]].status \in Live
    <3>1. /\ DOMAIN active' = DOMAIN active \cup {g} /\ active'[g] = i
          /\ \A h \in DOMAIN active \ {g} : active'[h] = active[h]
      BY <2>1 DEF With
    <3>. QED
      BY <2>2, <2>3, <2>4, <2>6, <3>1 DEF ResolutionInv, ResolutionPlaces, Live
  <2>15. \A k \in DOMAIN asked' : resolutions'[asked'[k]].status = "queued"
    <3>1. ASSUME NEW x, In(x, asked') PROVE resolutions'[x].status = "queued"
      <4>1. CASE x = i
        BY <2>2, <2>4, <2>6, <4>1
      <4>2. CASE x # i
        <5>1. PICK k \in DOMAIN asked : asked[k] = x
          BY <2>8, <3>1, <4>2 DEF In
        <5>. QED
          BY <2>4, <2>7, <5>1 DEF ResolutionInv, ResolutionPlaces
      <4>. QED
        BY <4>1, <4>2
    <3>. QED
      BY <3>1 DEF In
  <2>16. finder.at # "idle" => ~In(finder.id, asked')
    BY <2>8, <2>11 DEF ResolutionInv, ResolutionPlaces
  <2>17. ResolutionPlaces'
    BY <2>1, <2>8, <2>12, <2>13, <2>14, <2>15, <2>16 DEF ResolutionPlaces, Finding
  <2>. QED
    BY <2>10, <2>17
<1>. QED
  BY <1>1, <1>2

(* The record of one resolution changes, which keeps its game.                *)
LEMMA CancelKeeps ==
  ASSUME ResolutionInv, NEW i \in DOMAIN resolutions, CancelResolution(i)
  PROVE  ResolutionTypes' /\ ResolutionPlaces'
<1>. DEFINE r == [resolutions[i] EXCEPT !.status = "cancelled"]
<1>1. /\ resolutions' = [resolutions EXCEPT ![i] = r] /\ asked' = Others(asked, i)
      /\ active' = Without(active, resolutions[i].game) /\ UNCHANGED <<finder, next>>
  BY DEF CancelResolution
<1>2. resolutions[i] \in ResolutionState
  BY DEF ResolutionInv, ResolutionTypes, Typed
<1>3. r \in ResolutionState /\ r.status = "cancelled" /\ r.game = resolutions[i].game
  BY <1>2 DEF ResolutionState
<1>. HIDE DEF r
<1>4. /\ DOMAIN resolutions' = DOMAIN resolutions /\ resolutions'[i] = r
      /\ \A j \in DOMAIN resolutions \ {i} : resolutions'[j] = resolutions[j]
  BY <1>1
<1>5. Typed(resolutions', ResolutionState)
  BY <1>1, <1>3, TypedExcept DEF ResolutionInv, ResolutionTypes
<1>6. /\ asked' \in Seq(DOMAIN resolutions) /\ Len(asked') <= Len(asked)
      /\ \A x : In(x, asked') <=> x # i /\ In(x, asked)
      /\ NoTwice(asked')
  BY <1>1, OthersQueue DEF ResolutionInv, ResolutionTypes, ResolutionPlaces
<1>7. Len(asked') <= MaxPending
  <2>1. Len(asked') \in Nat /\ Len(asked) \in Nat /\ Len(asked) <= MaxPending
    BY <1>6, LenProperties DEF ResolutionInv, ResolutionTypes
  <2>. QED
    BY <1>6, <2>1, OptionsAssumption
<1>8. ResolutionTypes'
  BY <1>1, <1>4, <1>5, <1>6, <1>7 DEF ResolutionInv, ResolutionTypes, Finding
<1>9. \A k \in DOMAIN asked' : resolutions'[asked'[k]].status = "queued"
  <2>1. ASSUME NEW x, In(x, asked') PROVE resolutions'[x].status = "queued"
    <3>1. PICK k \in DOMAIN asked : asked[k] = x
      BY <1>6, <2>1 DEF In
    <3>2. x # i /\ x \in DOMAIN resolutions
      <4>1. x # i
        BY <1>6, <2>1
      <4>2. asked \in Seq(DOMAIN resolutions)
        BY DEF ResolutionInv, ResolutionTypes
      <4>. QED
        BY <3>1, <4>1, <4>2
    <3>. QED
      BY <1>4, <3>1, <3>2 DEF ResolutionInv, ResolutionPlaces
  <2>. QED
    BY <2>1 DEF In
<1>10. \A j \in DOMAIN resolutions' :
         /\ resolutions'[j].status = "queued" =>
              In(j, asked') \/ (finder.at = "begin" /\ finder.id = j)
         /\ resolutions'[j].status = "running" => Finding /\ finder.id = j
  BY <1>3, <1>4, <1>6 DEF ResolutionInv, ResolutionPlaces
<1>11. Finding /\ finder.id \in DOMAIN resolutions' =>
         /\ resolutions'[finder.id].status \in {"running", "cancelled"}
         /\ resolutions'[finder.id].game = finder.game
  BY <1>3, <1>4 DEF ResolutionInv, ResolutionPlaces
<1>12. \A g \in DOMAIN active' :
         /\ active'[g] \in DOMAIN resolutions'
         /\ resolutions'[active'[g]].game = g /\ resolutions'[active'[g]].status \in Live
  <2>1. \A g \in DOMAIN active' :
          g \in DOMAIN active /\ active'[g] = active[g] /\ g # resolutions[i].game
    BY <1>1 DEF Without, Restrict
  <2>. QED
    BY <1>4, <2>1 DEF ResolutionInv, ResolutionPlaces
<1>13. finder.at # "idle" => ~In(finder.id, asked')
  BY <1>6 DEF ResolutionInv, ResolutionPlaces
<1>14. ResolutionPlaces'
  BY <1>1, <1>6, <1>9, <1>10, <1>11, <1>12, <1>13 DEF ResolutionPlaces, Finding
<1>. QED
  BY <1>8, <1>14

LEMMA PopKeeps ==
  ASSUME ResolutionInv, PopResolution
  PROVE  ResolutionTypes' /\ ResolutionPlaces'
<1>. DEFINE i == Head(asked)
<1>1. /\ finder.at = "idle" /\ asked # <<>> /\ finder' = [at |-> "begin", id |-> i]
      /\ asked' = Tail(asked) /\ UNCHANGED <<resolutions, active, next>>
  BY DEF PopResolution, Quiet, f
<1>2. /\ i \in DOMAIN resolutions /\ asked' \in Seq(DOMAIN resolutions)
      /\ Len(asked') = Len(asked) - 1
      /\ \A x : In(x, asked) <=> x = i \/ In(x, asked')
      /\ NoTwice(asked') /\ ~In(i, asked')
  BY <1>1, PoppedQueue DEF ResolutionInv, ResolutionTypes, ResolutionPlaces
<1>. HIDE DEF i
<1>3. finder'.at = "begin" /\ finder'.id = i /\ ~Finding' /\ ~Finding
  BY <1>1 DEF Finding
<1>4. Len(asked') <= MaxPending
  BY <1>2, OptionsAssumption, LenProperties DEF ResolutionInv, ResolutionTypes
<1>5. i \in Nat /\ i < next.resolution
  BY <1>2 DEF ResolutionInv, Shapes, Numbered
<1>6. ResolutionTypes'
  BY <1>1, <1>2, <1>3, <1>4, <1>5 DEF ResolutionInv, ResolutionTypes
<1>7. \A k \in DOMAIN asked' : resolutions'[asked'[k]].status = "queued"
  <2>1. \A k \in DOMAIN asked' : In(asked'[k], asked)
    BY <1>2 DEF In
  <2>. QED
    BY <1>1, <2>1 DEF In, ResolutionInv, ResolutionPlaces
<1>8. ResolutionPlaces'
  BY <1>1, <1>2, <1>3, <1>7 DEF ResolutionInv, ResolutionPlaces
<1>. QED
  BY <1>6, <1>8

LEMMA BeginKeeps ==
  ASSUME ResolutionInv, BeginResolution
  PROVE  ResolutionTypes' /\ ResolutionPlaces'
<1>. DEFINE i == finder.id
<1>1. finder.at = "begin" /\ ~Finding /\ UNCHANGED <<asked, active, next>>
  BY DEF BeginResolution, FinderOnly, Finding, f
<1>2. CASE i \notin DOMAIN resolutions \/ resolutions[i].status = "cancelled"
  <2>1. finder' = Idle /\ resolutions' = resolutions
    BY <1>2 DEF BeginResolution, f
  <2>2. finder'.at = "idle" /\ ~Finding'
    BY <2>1 DEF Idle, Finding
  <2>. QED
    BY <1>1, <1>2, <2>1, <2>2 DEF ResolutionInv, ResolutionTypes, ResolutionPlaces
<1>3. CASE i \in DOMAIN resolutions /\ resolutions[i].status # "cancelled"
  <2>. DEFINE r == [resolutions[i] EXCEPT !.status = "running"]
  <2>1. resolutions[i] \in ResolutionState
    BY <1>3 DEF ResolutionInv, ResolutionTypes, Typed
  <2>2. /\ r \in ResolutionState /\ r.status = "running" /\ r.game = resolutions[i].game
        /\ r.game \in Games
    BY <2>1 DEF ResolutionState, Live
  <2>3. resolutions' = [resolutions EXCEPT ![i] = r]
    BY <1>3 DEF BeginResolution, f
  <2>4. /\ finder'.at = "local" /\ finder'.id = i /\ finder'.game = resolutions[i].game
        /\ DOMAIN finder' = FinderFields
    BY <1>3 DEF BeginResolution, f, FinderFields
  <2>. HIDE DEF r, i
  <2>5. /\ DOMAIN resolutions' = DOMAIN resolutions /\ resolutions'[i] = r
        /\ \A j \in DOMAIN resolutions \ {i} : resolutions'[j] = resolutions[j]
    BY <1>3, <2>3
  <2>6. Typed(resolutions', ResolutionState)
    BY <1>3, <2>2, <2>3, TypedExcept DEF ResolutionInv, ResolutionTypes
  <2>7. ~In(i, asked)
    BY <1>1 DEF ResolutionInv, ResolutionPlaces, i
  <2>8. Finding'
    BY <2>4 DEF Finding
  <2>9. ResolutionTypes'
    BY <1>1, <2>2, <2>4, <2>5, <2>6 DEF ResolutionInv, ResolutionTypes, i
  <2>10. \A k \in DOMAIN asked' : resolutions'[asked'[k]].status = "queued"
    <3>1. \A k \in DOMAIN asked : asked[k] # i /\ asked[k] \in DOMAIN resolutions
      BY <2>7 DEF In, ResolutionInv, ResolutionTypes
    <3>. QED
      BY <1>1, <2>5, <3>1 DEF ResolutionInv, ResolutionPlaces
  <2>11. \A j \in DOMAIN resolutions' :
           /\ resolutions'[j].status = "queued" => In(j, asked)
           /\ resolutions'[j].status = "running" => j = i
    BY <1>1, <2>2, <2>5 DEF ResolutionInv, ResolutionPlaces, i
  <2>12. \A g \in DOMAIN active' :
           /\ active'[g] \in DOMAIN resolutions'
           /\ resolutions'[active'[g]].game = g /\ resolutions'[active'[g]].status \in Live
    BY <1>1, <2>2, <2>5 DEF ResolutionInv, ResolutionPlaces, Live
  <2>13. ResolutionPlaces'
    BY <1>1, <2>2, <2>4, <2>5, <2>7, <2>8, <2>10, <2>11, <2>12 DEF ResolutionInv, ResolutionPlaces
  <2>. QED
    BY <2>9, <2>13
<1>. QED
  BY <1>2, <1>3

(* What has ended is neither in the queue nor the one of an URL; trimming     *)
(* takes nothing of what is.                                                  *)
LEMMA EndKeeps ==
  ASSUME ResolutionInv, EndResolution
  PROVE  ResolutionTypes' /\ ResolutionPlaces'
<1>. DEFINE i == finder.id
<1>1. CASE Terminates
  BY <1>1, ResolutionsReset DEF Terminates, Blank
<1>2. CASE ~Terminates
  <2>. DEFINE r == [resolutions[i] EXCEPT !.status = Settled(@, finder.status)]
              more == [resolutions EXCEPT ![i] = r]
  <2>1. /\ finder.at = "end" /\ i \in DOMAIN resolutions
        /\ active' = Without(active, finder.game) /\ finder' = Idle
        /\ UNCHANGED <<asked, next>>
    BY <1>2 DEF EndResolution, FinderOnly, f
  <2>2. resolutions' = Trimmed(more)
    BY <1>2 DEF EndResolution, f
  <2>3. resolutions[i] \in ResolutionState /\ finder.status \in ResolutionEnds
    BY <2>1 DEF ResolutionInv, ResolutionTypes, Typed
  <2>4. /\ r \in ResolutionState /\ r.status \in ResolutionEnds
        /\ resolutions[i].game = finder.game /\ ~In(i, asked)
    <3>1. Finding
      BY <2>1 DEF Finding
    <3>. QED
      BY <2>1, <2>3, <3>1
         DEF ResolutionState, ResolutionEnds, Settled, ResolutionInv, ResolutionPlaces
  <2>. HIDE DEF r
  <2>5. /\ DOMAIN more = DOMAIN resolutions /\ more[i] = r
        /\ \A j \in DOMAIN resolutions \ {i} : more[j] = resolutions[j]
    BY <2>1
  <2>6. Typed(more, ResolutionState)
    BY <2>1, <2>4, TypedExcept DEF ResolutionInv, ResolutionTypes
  <2>. HIDE DEF more, i
  <2>7. Typed(resolutions', ResolutionState)
    BY <2>2, <2>6, TypedTrimmed
  <2>8. /\ DOMAIN resolutions' \subseteq DOMAIN resolutions
        /\ \A j \in DOMAIN resolutions' : resolutions'[j] = more[j]
    BY <2>2, <2>5, TrimmedKeeps
  <2>9. \A j \in DOMAIN resolutions \ {i} :
          resolutions[j].status \in Live =>
            j \in DOMAIN resolutions' /\ resolutions'[j] = resolutions[j]
    <3>1. \A j \in DOMAIN more : j \in Nat
      BY <2>5 DEF ResolutionInv, Shapes, Numbered
    <3>2. \A j \in DOMAIN more : more[j].status \in Live => j \in DOMAIN Trimmed(more)
      BY <3>1, LiveKept
    <3>. QED
      BY <2>2, <2>5, <2>8, <3>2
  <2>10. \A k \in DOMAIN asked :
           asked[k] \in DOMAIN resolutions' /\ resolutions'[asked[k]].status = "queued"
    <3>1. \A k \in DOMAIN asked : asked[k] # i /\ asked[k] \in DOMAIN resolutions
      BY <2>4 DEF In, ResolutionInv, ResolutionTypes
    <3>2. \A k \in DOMAIN asked : resolutions[asked[k]].status = "queued"
      BY DEF ResolutionInv, ResolutionPlaces
    <3>. QED
      BY <2>9, <3>1, <3>2 DEF Live
  <2>11. asked \in Seq(DOMAIN resolutions')
    BY <2>10, RetypedQueue DEF ResolutionInv, ResolutionTypes
  <2>12. finder'.at = "idle" /\ ~Finding'
    BY <2>1 DEF Idle, Finding
  <2>13. ResolutionTypes'
    BY <2>1, <2>7, <2>11, <2>12 DEF ResolutionInv, ResolutionTypes
  <2>14. \A j \in DOMAIN resolutions' :
           /\ resolutions'[j].status = "queued" => In(j, asked)
           /\ resolutions'[j].status # "running"
    <3>1. ASSUME NEW j \in DOMAIN resolutions', j # i
          PROVE  /\ resolutions'[j].status = "queued" => In(j, asked)
                 /\ resolutions'[j].status # "running"
      BY <2>1, <2>5, <2>8, <3>1 DEF ResolutionInv, ResolutionPlaces, i
    <3>2. i \in DOMAIN resolutions' => resolutions'[i].status \in ResolutionEnds
      BY <2>4, <2>5, <2>8
    <3>. QED
      BY <3>1, <3>2 DEF ResolutionEnds
  <2>15. \A g \in DOMAIN active' :
           /\ active'[g] \in DOMAIN resolutions'
           /\ resolutions'[active'[g]].game = g /\ resolutions'[active'[g]].status \in Live
    <3>1. \A g \in DOMAIN active' :
            g \in DOMAIN active /\ active'[g] = active[g] /\ g # finder.game
      BY <2>1 DEF Without, Restrict
    <3>2. \A g \in DOMAIN active :
            /\ active[g] \in DOMAIN resolutions /\ resolutions[active[g]].game = g
            /\ resolutions[active[g]].status \in Live
      BY DEF ResolutionInv, ResolutionPlaces
    <3>3. \A g \in DOMAIN active' : active[g] # i
      BY <2>4, <3>1, <3>2
    <3>. QED
      BY <2>9, <3>1, <3>2, <3>3
  <2>16. ResolutionPlaces'
    BY <2>1, <2>10, <2>12, <2>14, <2>15 DEF ResolutionInv, ResolutionPlaces
  <2>. QED
    BY <2>13, <2>16
<1>. QED
  BY <1>1, <1>2

LEMMA FindsKeepResolutions ==
  ASSUME ResolutionInv, Finds
  PROVE  ResolutionTypes' /\ ResolutionPlaces'
<1>1. CASE LookUp \/ SearchPlayer \/ SearchMonth \/ SearchPage \/ AddResolved
  BY <1>1, SearchShape, SearchingKeeps
<1>. QED
  BY <1>1, PopKeeps, BeginKeeps, EndKeeps DEF Finds

LEMMA WalksKeepResolutions ==
  ASSUME ResolutionInv, Walks
  PROVE  ResolutionTypes' /\ ResolutionPlaces'
<1>1. CASE Terminates
  BY <1>1, ResolutionsReset DEF Terminates, Blank
<1>2. CASE ~Terminates
  <2>1. UNCHANGED <<resolutions, asked, active, finder, next>>
    BY <1>2 DEF Walks, PopSync, BeginStep, DiscoverMonths, ListMonths, NextMonth, FetchMonth,
                AddMonth, IndexMonth, MarkMonth, Progress, Report, Finish, RecordEnd,
                UpdateProfile, WalkerOnly
  <2>. QED
    BY <2>1, ResolutionsUnchanged
<1>. QED
  BY <1>1, <1>2

LEMMA StepKeepsResolutions ==
  ASSUME ResolutionInv, scope \in Scopes, store.profile \in Users \cup {Nobody}, [Next]_vars
  PROVE  ResolutionInv'
<1>. SUFFICES ResolutionTypes' /\ ResolutionPlaces'
  BY StepKeepsCancelled DEF ResolutionInv
<1>1. ASSUME NEW u, ConfigureProfile(u) PROVE ResolutionTypes' /\ ResolutionPlaces'
  BY <1>1, ResolutionsUnchanged DEF ConfigureProfile, memory
<1>2. ASSUME NEW g \in scope.games, NEW u \in scope.users \cup {Nobody}, Resolve(g, u)
      PROVE  ResolutionTypes' /\ ResolutionPlaces'
  <2>1. g \in Games /\ u \in Users \cup {Nobody}
    BY ScopesAssumption
  <2>. QED
    BY <1>2, <2>1, ResolveKeeps
<1>3. ASSUME NEW g, NEW u, ImportUrl(g, u) PROVE ResolutionTypes' /\ ResolutionPlaces'
  BY <1>3, ResolutionsUnchanged DEF ImportUrl, memory
<1>4. ASSUME NEW d, NEW u, StartSync(d, u) PROVE ResolutionTypes' /\ ResolutionPlaces'
  <2>1. /\ UNCHANGED <<resolutions, asked, active, finder>>
        /\ next' = [next EXCEPT !.sync = next.sync + 1]
    BY <1>4 DEF StartSync
  <2>2. next'.resolution = next.resolution
    BY <2>1 DEF ResolutionInv, Shapes
  <2>. QED
    BY <2>1, <2>2, ResolutionsUnchanged
<1>5. ASSUME NEW i, CancelSync(i) PROVE ResolutionTypes' /\ ResolutionPlaces'
  BY <1>5, ResolutionsUnchanged DEF CancelSync
<1>6. ASSUME NEW s, RecordCancelled(s) PROVE ResolutionTypes' /\ ResolutionPlaces'
  BY <1>6, ResolutionsUnchanged DEF RecordCancelled
<1>7. CASE Tick \/ Shutdown \/ UNCHANGED vars
  BY <1>7, ResolutionsUnchanged DEF Tick, Shutdown, memory, vars
<1>8. CASE Crash \/ Leave
  BY <1>8, ResolutionsReset DEF Crash, Leave, Blank
<1>9. ASSUME NEW u, Start(u) PROVE ResolutionTypes' /\ ResolutionPlaces'
  BY <1>9, ResolutionsReset DEF Start, Blank
<1>. QED
  BY <1>1, <1>2, <1>3, <1>4, <1>5, <1>6, <1>7, <1>8, <1>9, CancelKeeps,
     FindsKeepResolutions, WalksKeepResolutions DEF Next

LEMMA ResolutionsInit == Init => ResolutionInv
<1>. SUFFICES ASSUME Init PROVE ResolutionInv
  OBVIOUS
<1>1. DOMAIN <<>> = {} /\ Idle.at = "idle" /\ 0 <= MaxPending
  BY OptionsAssumption DEF Idle
<1>2. Typed(<<>>, ResolutionState)
  BY TypedEmpty
<1>3. resolutions = <<>> /\ asked = <<>> /\ active = <<>> /\ finder = Idle
  BY DEF Init
<1>4. ResolutionTypes
  BY <1>1, <1>2, <1>3, EmptyQueue DEF ResolutionTypes, Finding
<1>5. ResolutionPlaces
  BY <1>1, <1>3, EmptyQueue DEF ResolutionPlaces, Finding
<1>. QED
  BY <1>4, <1>5, ShapesInit DEF ResolutionInv

-----------------------------------------------------------------------------
(* The life of the program and the repository: what the clock, the switches   *)
(* and the records are.                                                       *)
Recorded ==
  [user : Users, days : Days, upper : 0..MaxNow, at : 0..MaxNow,
   status : {"running", "paused", "succeeded", "failed"}]

LifeTypes ==
  /\ scope \in Scopes /\ now \in 0..MaxNow /\ up \in BOOLEAN /\ stopping \in BOOLEAN
  /\ mishaps \in Nat /\ mishaps <= scope.mishaps + 1 /\ (up => mishaps <= scope.mishaps)
  /\ ~up => finder.at = "idle" /\ walker.at = "idle"
StoreTypes ==
  /\ store.profile \in Users \cup {Nobody} /\ store.sync \in Recorded \cup {NoSync}
  /\ DOMAIN store.marks \subseteq Users \X Months
  /\ store.archive \subseteq Games /\ store.games \subseteq Games
  /\ late \subseteq Recorded

(* The syncs, their queue and the historical worker.  A sync that waits may   *)
(* have ended and been trimmed; the newest one is always there.               *)
Numbers(n) == 1..(n - 1)
SyncEnds == {"cancelled", "succeeded", "failed"}
SyncMap ==
  /\ next.sync # 0 /\ Typed(syncs, SyncState)
  /\ current \in {0} \cup DOMAIN syncs /\ \A i \in DOMAIN syncs : i <= current
Walking == walker.at \notin {"idle", "begin"}
WalkerTypes ==
  /\ walker.at # "idle" => walker.id \in Numbers(next.sync)
  /\ Walking => /\ walker.sync \in SyncState /\ walker.months \in Seq(Months)
                /\ walker.page \subseteq Games
  /\ walker.at \in {"fetch", "add", "index", "mark"} => walker.month \in Months
  /\ walker.at = "finish" => walker.end \in SyncEnds
SyncTypes == SyncMap /\ waiting \in Seq(Numbers(next.sync)) /\ WalkerTypes

Types == LifeTypes /\ StoreTypes /\ SyncTypes
TypesInv == CheckpointInv /\ ResolutionInv /\ Types

(* The months a player's archive lists.                                       *)
LEMMA DiscoveredMonths ==
  ASSUME NEW u, NEW t \in 0..MaxNow, NEW k \in Nat
  PROVE  Discovered(u, t, k) \in Seq(Months)
<1>. DEFINE months == MonthsPlayed(u, t)
            n == Cardinality(months)
            m == IF k < n THEN k ELSE n
<1>1. months \in SUBSET Months
  <2>1. ASSUME NEW g \in Games, Played[g].at <= t PROVE Month(Played[g].at) \in Months
    <3>1. Played[g].at \in Nat
      BY PlayedAssumption
    <3>2. Played[g].at \in 0..MaxNow
      BY <2>1, <3>1, ScopesAssumption
    <3>. QED
      BY <3>2 DEF Months
  <2>. QED
    BY <2>1 DEF MonthsPlayed
<1>2. months \in SUBSET Int
  <2>1. \A i \in 0..MaxNow : Month(i) \in Int
    BY MonthAssumption DEF Month
  <2>. QED
    BY <1>1, <2>1 DEF Months
<1>3. IsFiniteSet(months)
  <2>1. IsFiniteSet(0..MaxNow)
    BY FS_Interval, ScopesAssumption
  <2>. DEFINE month == [i \in 0..MaxNow |-> Month(i)]
  <2>2. month \in Surjection(0..MaxNow, Months)
    BY DEF Surjection, Months
  <2>3. IsFiniteSet(Months)
    BY <2>1, <2>2, FS_Surjection
  <2>. QED
    BY <1>1, <2>3, FS_Subset
<1>. HIDE DEF months
<1>4. n \in Nat /\ \A j \in 1..n : \E i \in months : Rank(months, i) = j
  BY <1>2, <1>3, RanksNumber
<1>. HIDE DEF n
<1>5. m \in Nat /\ \A j \in 1..m : n + 1 - j \in 1..n
  BY <1>4
<1>6. \A j \in 1..m : (CHOOSE i \in months : Rank(months, i) = n + 1 - j) \in Months
  BY <1>1, <1>4, <1>5
<1>7. Discovered(u, t, k) = [j \in 1..m |-> CHOOSE i \in months : Rank(months, i) = n + 1 - j]
  BY DEF Discovered, months, n
<1>. HIDE DEF m
<1>8. [j \in 1..m |-> CHOOSE i \in months : Rank(months, i) = n + 1 - j] \in [1..m -> Months]
  BY <1>6
<1>. QED
  BY <1>5, <1>7, <1>8

LEMMA LivingStep ==
  ASSUME LifeTypes, up, UNCHANGED <<scope, now, up>>, stopping' = stopping \/ stopping' = TRUE,
         mishaps' = mishaps \/ (MayFail /\ Mishap) \/ (mishaps < scope.mishaps /\ Mishap)
  PROVE  LifeTypes'
<1>1. mishaps \in Nat /\ scope.mishaps \in Nat /\ mishaps <= scope.mishaps
  BY ScopesAssumption DEF LifeTypes
<1>2. mishaps' \in Nat /\ mishaps' <= scope.mishaps
  BY <1>1 DEF MayFail, Mishap
<1>3. scope' \in Scopes /\ now' \in 0..MaxNow /\ up' \in BOOLEAN /\ stopping' \in BOOLEAN
  BY DEF LifeTypes
<1>4. mishaps' <= scope'.mishaps /\ mishaps' <= scope'.mishaps + 1 /\ scope' = scope
  BY <1>1, <1>2
<1>. QED
  BY <1>2, <1>3, <1>4, Zenon DEF LifeTypes

LEMMA LifeEnds ==
  ASSUME LifeTypes, UNCHANGED <<scope, now>>, up' = FALSE, Blank,
         mishaps' = mishaps \/ (mishaps <= scope.mishaps /\ Mishap)
  PROVE  LifeTypes'
<1>1. mishaps \in Nat /\ scope.mishaps \in Nat /\ mishaps <= scope.mishaps + 1
  BY ScopesAssumption DEF LifeTypes
<1>2. mishaps' \in Nat /\ mishaps' <= scope.mishaps + 1
  BY <1>1 DEF Mishap
<1>3. stopping' = FALSE /\ finder'.at = "idle" /\ walker'.at = "idle"
  BY DEF Blank, Idle
<1>. QED
  BY <1>1, <1>2, <1>3 DEF LifeTypes

LEMMA FindsLife ==
  ASSUME LifeTypes, Finds
  PROVE  LifeTypes'
<1>1. up
  BY DEF LifeTypes, Finds, PopResolution, BeginResolution, LookUp, SearchPlayer, SearchMonth,
         SearchPage, AddResolved, EndResolution, f
<1>2. CASE Terminates
  BY <1>1, <1>2, LifeEnds DEF Terminates, LifeTypes
<1>3. CASE ~Terminates
  <2>1. UNCHANGED <<scope, now, up, stopping>>
    BY <1>3 DEF Finds, PopResolution, BeginResolution, LookUp, SearchPlayer, SearchMonth,
                SearchPage, AddResolved, EndResolution, FinderOnly
  <2>2. CASE SearchMonth
    <3>1. mishaps' = mishaps \/ (MayFail /\ Mishap)
      BY <2>2 DEF SearchMonth
    <3>. QED
      BY <1>1, <2>1, <3>1, LivingStep
  <2>3. CASE AddResolved
    <3>1. mishaps' = mishaps \/ (MayFail /\ Mishap)
      BY <2>3 DEF AddResolved
    <3>. QED
      BY <1>1, <2>1, <3>1, LivingStep
  <2>4. CASE PopResolution \/ BeginResolution \/ LookUp \/ SearchPlayer \/ SearchPage \/ EndResolution
    <3>1. mishaps' = mishaps
      BY <1>3, <2>4 DEF PopResolution, BeginResolution, LookUp, SearchPlayer, SearchPage,
                        EndResolution, Quiet
    <3>. QED
      BY <1>1, <2>1, <3>1, LivingStep
  <2>. QED
    BY <2>2, <2>3, <2>4 DEF Finds
<1>. QED
  BY <1>2, <1>3

LEMMA WalksLife ==
  ASSUME LifeTypes, Walks
  PROVE  LifeTypes'
<1>1. up
  BY DEF LifeTypes, Walks, PopSync, BeginStep, DiscoverMonths, ListMonths, NextMonth, FetchMonth,
         AddMonth, IndexMonth, MarkMonth, Progress, Report, Finish, RecordEnd, UpdateProfile, w
<1>2. CASE Terminates
  BY <1>1, <1>2, LifeEnds DEF Terminates, LifeTypes
<1>3. CASE ~Terminates
  <2>1. UNCHANGED <<scope, now, up, stopping>>
    BY <1>3 DEF Walks, PopSync, BeginStep, DiscoverMonths, ListMonths, NextMonth, FetchMonth,
                AddMonth, IndexMonth, MarkMonth, Progress, Report, Finish, RecordEnd,
                UpdateProfile, WalkerOnly
  <2>2. CASE AddMonth \/ IndexMonth \/ MarkMonth \/ UpdateProfile \/ Report
    <3>1. mishaps' = mishaps \/ (MayFail /\ Mishap)
      BY <2>2 DEF AddMonth, IndexMonth, MarkMonth, UpdateProfile, Report, NoHarm
    <3>. QED
      BY <1>1, <2>1, <3>1, LivingStep
  <2>3. CASE RecordEnd
    <3>1. mishaps' = mishaps \/ (MayFail /\ Mishap)
      BY <1>3, <2>3 DEF RecordEnd, NoHarm
    <3>. QED
      BY <1>1, <2>1, <3>1, LivingStep
  <2>4. CASE PopSync \/ BeginStep \/ DiscoverMonths \/ ListMonths \/ NextMonth \/ FetchMonth
             \/ Progress \/ Finish
    <3>1. mishaps' = mishaps
      BY <1>3, <2>4 DEF PopSync, BeginStep, DiscoverMonths, ListMonths, NextMonth, FetchMonth,
                        Progress, Finish
    <3>. QED
      BY <1>1, <2>1, <3>1, LivingStep
  <2>. QED
    BY <2>2, <2>3, <2>4 DEF Walks
<1>. QED
  BY <1>2, <1>3

LEMMA StepLife ==
  ASSUME LifeTypes, [Next]_vars
  PROVE  LifeTypes'
<1>1. ASSUME NEW u, ConfigureProfile(u) PROVE LifeTypes'
  BY <1>1, LivingStep DEF ConfigureProfile, Client, memory
<1>2. ASSUME NEW g, NEW u, Resolve(g, u) PROVE LifeTypes'
  BY <1>2, LivingStep DEF Resolve, Client
<1>3. ASSUME NEW g, NEW u, ImportUrl(g, u) PROVE LifeTypes'
  BY <1>3, LivingStep DEF ImportUrl, Client, memory
<1>4. ASSUME NEW i, CancelResolution(i) PROVE LifeTypes'
  BY <1>4, LivingStep DEF CancelResolution, Client
<1>5. ASSUME NEW d, NEW u, StartSync(d, u) PROVE LifeTypes'
  <2>1. /\ up /\ UNCHANGED <<scope, now, up, stopping>>
        /\ mishaps' = mishaps \/ (MayFail /\ Mishap)
    BY <1>5 DEF StartSync, Client
  <2>. QED
    BY <2>1, LivingStep
<1>6. ASSUME NEW i, CancelSync(i) PROVE LifeTypes'
  BY <1>6, LivingStep DEF CancelSync, Client
<1>7. ASSUME NEW s, RecordCancelled(s) PROVE LifeTypes'
  BY <1>7, LivingStep DEF RecordCancelled
<1>8. CASE Tick
  <2>1. /\ now' = now + 1 /\ now < scope.last
        /\ UNCHANGED <<scope, up, stopping, finder, walker, mishaps>>
    BY <1>8 DEF Tick, memory
  <2>2. now' \in 0..MaxNow
    BY <2>1, ScopesAssumption DEF LifeTypes
  <2>. QED
    BY <2>1, <2>2 DEF LifeTypes
<1>9. CASE Shutdown
  BY <1>9, LivingStep DEF Shutdown, Client
<1>10. CASE Crash
  BY <1>10, LifeEnds DEF Crash, LifeTypes
<1>11. CASE Leave
  BY <1>11, LifeEnds DEF Leave
<1>12. ASSUME NEW u, Start(u) PROVE LifeTypes'
  <2>1. /\ UNCHANGED <<scope, now, mishaps>> /\ up' = TRUE /\ mishaps <= scope.mishaps
        /\ stopping' = FALSE
    BY <1>12 DEF Start, Blank
  <2>. QED
    BY <2>1 DEF LifeTypes
<1>13. CASE UNCHANGED vars
  BY <1>13 DEF LifeTypes, vars, memory
<1>. QED
  BY <1>1, <1>2, <1>3, <1>4, <1>5, <1>6, <1>7, <1>8, <1>9, <1>10, <1>11, <1>12, <1>13,
     FindsLife, WalksLife DEF Next

(* What a step does to the repository.                                        *)
Edited ==
  \/ store' = store
  \/ \E name \in Users \cup {Nobody} : store' = [store EXCEPT !.profile = name]
  \/ \E more \in SUBSET Games : store' = [store EXCEPT !.games = @ \cup more]
  \/ \E more \in SUBSET Games : store' = [store EXCEPT !.archive = @ \cup more]
  \/ \E s \in Recorded : store' = [store EXCEPT !.sync = s]
  \/ \E name \in Users \cup {Nobody}, s \in Recorded \cup {NoSync} :
       store' = [store EXCEPT !.profile = name, !.sync = s]
  \/ \E u \in Users, m \in Months : \E mark :
       store' = [store EXCEPT !.marks = With(@, <<u, m>>, mark)]

LEMMA EditedTypes ==
  ASSUME StoreTypes, DOMAIN store = StoreFields, late' \subseteq Recorded, Edited
  PROVE  /\ StoreTypes'
         /\ store.games \subseteq store'.games /\ store.archive \subseteq store'.archive
<1>1. ASSUME NEW u \in Users, NEW m \in Months, NEW mark,
             store' = [store EXCEPT !.marks = With(@, <<u, m>>, mark)]
      PROVE  /\ StoreTypes'
             /\ store.games \subseteq store'.games /\ store.archive \subseteq store'.archive
  <2>1. DOMAIN With(store.marks, <<u, m>>, mark) \subseteq Users \X Months
    BY DEF StoreTypes, With
  <2>. QED
    BY <1>1, <2>1 DEF StoreTypes, StoreFields
<1>. QED
  BY <1>1 DEF Edited, StoreTypes, StoreFields

LEMMA RecordTyped ==
  ASSUME NEW s \in SyncState, NEW status \in {"running", "paused", "succeeded", "failed"}
  PROVE  Record(s, status) \in Recorded
BY DEF SyncState, Recorded, Record

LEMMA FindsEdit ==
  ASSUME TypesInv, Finds
  PROVE  Edited /\ late' \subseteq Recorded
<1>1. late' = late \/ late' = {}
  BY DEF Finds, PopResolution, BeginResolution, LookUp, SearchPlayer, SearchMonth, SearchPage,
         AddResolved, EndResolution, FinderOnly, Terminates, Blank
<1>2. CASE SearchMonth
  <2>1. \A u, m : MonthPage(u, m, now) \in SUBSET Games
    BY DEF MonthPage
  <2>2. store' = store \/ \E more \in SUBSET Games : store' = [store EXCEPT !.archive = @ \cup more]
    BY <1>2, <2>1 DEF SearchMonth
  <2>. QED
    BY <1>1, <2>2 DEF Edited, TypesInv, Types, StoreTypes
<1>3. CASE AddResolved
  <2>1. {finder.game} \in SUBSET Games
    BY <1>3 DEF AddResolved, TypesInv, ResolutionInv, ResolutionTypes, Finding, f
  <2>2. store' = store \/ store' = [store EXCEPT !.games = @ \cup {finder.game}]
    BY <1>3 DEF AddResolved, f
  <2>. QED
    BY <1>1, <2>1, <2>2 DEF Edited, TypesInv, Types, StoreTypes
<1>4. CASE PopResolution \/ BeginResolution \/ LookUp \/ SearchPlayer \/ SearchPage \/ EndResolution
  <2>1. store' = store
    BY <1>4 DEF PopResolution, BeginResolution, LookUp, SearchPlayer, SearchPage, EndResolution,
                Terminates
  <2>. QED
    BY <1>1, <2>1 DEF Edited, TypesInv, Types, StoreTypes
<1>. QED
  BY <1>2, <1>3, <1>4 DEF Finds

LEMMA WalksEdit ==
  ASSUME TypesInv, Walks
  PROVE  Edited /\ late' \subseteq Recorded
<1>1. late' = late \/ late' = {}
  BY DEF Walks, PopSync, BeginStep, DiscoverMonths, ListMonths, NextMonth, FetchMonth, AddMonth,
         IndexMonth, MarkMonth, Progress, Report, Finish, RecordEnd, UpdateProfile, WalkerOnly,
         Terminates, Blank
<1>2. late' \subseteq Recorded
  BY <1>1 DEF TypesInv, Types, StoreTypes
<1>3. CASE AddMonth
  <2>1. walker.page \in SUBSET Games
    BY <1>3 DEF AddMonth, TypesInv, Types, SyncTypes, WalkerTypes, Walking, w
  <2>2. \E more \in SUBSET Games : store' = [store EXCEPT !.games = @ \cup more]
    BY <1>3, <2>1 DEF AddMonth, w
  <2>. QED
    BY <1>2, <2>2 DEF Edited
<1>4. CASE IndexMonth
  <2>1. walker.page \in SUBSET Games
    BY <1>4 DEF IndexMonth, TypesInv, Types, SyncTypes, WalkerTypes, Walking, w
  <2>2. \E more \in SUBSET Games : store' = [store EXCEPT !.archive = @ \cup more]
    BY <1>4, <2>1 DEF IndexMonth, w
  <2>. QED
    BY <1>2, <2>2 DEF Edited
<1>5. CASE MarkMonth
  <2>1. walker.sync.user \in Users /\ walker.month \in Months
    BY <1>5 DEF MarkMonth, TypesInv, Types, SyncTypes, WalkerTypes, Walking, SyncState, w
  <2>2. \/ store' = store
        \/ \E mark : store' = [store EXCEPT !.marks = With(@, <<walker.sync.user, walker.month>>, mark)]
    BY <1>5 DEF MarkMonth, Marked, w
  <2>. QED
    BY <1>2, <2>1, <2>2 DEF Edited
<1>6. CASE Report \/ RecordEnd
  <2>1. walker.sync \in SyncState
    BY <1>6 DEF Report, RecordEnd, TypesInv, Types, SyncTypes, WalkerTypes, Walking, w
  <2>2. \/ store' = store
        \/ \E status \in {"running", "paused", "succeeded", "failed"} :
             store' = [store EXCEPT !.sync = Record(walker.sync, status)]
    BY <1>6 DEF Report, RecordEnd, Saved, Outcome, Terminates, w
  <2>3. store' = store \/ \E s \in Recorded : store' = [store EXCEPT !.sync = s]
    BY <2>1, <2>2, RecordTyped
  <2>. QED
    BY <1>2, <2>3 DEF Edited
<1>7. CASE UpdateProfile
  <2>1. walker.sync.user \in Users
    BY <1>7 DEF UpdateProfile, TypesInv, Types, SyncTypes, WalkerTypes, Walking, SyncState, w
  <2>2. store' = store \/ store' = [store EXCEPT !.profile = walker.sync.user]
    BY <1>7 DEF UpdateProfile, w
  <2>. QED
    BY <1>2, <2>1, <2>2 DEF Edited
<1>8. CASE PopSync \/ BeginStep \/ DiscoverMonths \/ ListMonths \/ NextMonth \/ FetchMonth
           \/ Progress \/ Finish
  <2>1. store' = store
    BY <1>8 DEF PopSync, BeginStep, DiscoverMonths, ListMonths, NextMonth, FetchMonth, Progress,
                Finish, Terminates
  <2>. QED
    BY <1>2, <2>1 DEF Edited
<1>. QED
  BY <1>3, <1>4, <1>5, <1>6, <1>7, <1>8 DEF Walks

LEMMA StepEdits ==
  ASSUME TypesInv, [Next]_vars
  PROVE  Edited /\ late' \subseteq Recorded
<1>1. /\ late \subseteq Recorded /\ scope \in Scopes /\ now \in 0..MaxNow
      /\ store.profile \in Users \cup {Nobody} /\ store.sync \in Recorded \cup {NoSync}
  BY DEF TypesInv, Types, StoreTypes, LifeTypes
<1>2. scope.users \subseteq Users /\ scope.games \subseteq Games /\ scope.days \subseteq Days
  BY <1>1, ScopesAssumption
<1>3. ASSUME NEW u \in scope.users, ConfigureProfile(u) PROVE Edited /\ late' \subseteq Recorded
  BY <1>1, <1>2, <1>3 DEF ConfigureProfile, memory, Edited
<1>4. ASSUME NEW g, NEW u \in scope.users \cup {Nobody}, Resolve(g, u)
      PROVE  Edited /\ late' \subseteq Recorded
  <2>. DEFINE user == IF u = Nobody THEN store.profile ELSE u
  <2>1. user \in Users \cup {Nobody} /\ late' = late /\ store' = [store EXCEPT !.profile = user]
    BY <1>1, <1>2, <1>4 DEF Resolve
  <2>. HIDE DEF user
  <2>. QED
    BY <1>1, <2>1 DEF Edited
<1>5. ASSUME NEW g \in scope.games, NEW u, ImportUrl(g, u) PROVE Edited /\ late' \subseteq Recorded
  <2>1. {g} \in SUBSET Games /\ late' = late
    BY <1>2, <1>5 DEF ImportUrl, memory
  <2>2. store' = store \/ store' = [store EXCEPT !.games = @ \cup {g}]
    BY <1>5 DEF ImportUrl
  <2>. QED
    BY <1>1, <2>1, <2>2 DEF Edited
<1>6. ASSUME NEW d \in scope.days, NEW u \in scope.users \cup {Nobody}, StartSync(d, u)
      PROVE  Edited /\ late' \subseteq Recorded
  <2>. DEFINE user == IF u = Nobody THEN store.profile ELSE u
              s == [user |-> user, days |-> d, upper |-> now, at |-> now, status |-> "running"]
  <2>1. user \in Users /\ late' = late
    BY <1>1, <1>2, <1>6 DEF StartSync
  <2>2. s \in Recorded
    BY <1>1, <1>2, <2>1 DEF Recorded
  <2>3. \/ store' = [store EXCEPT !.profile = user, !.sync = s]
        \/ store' = [store EXCEPT !.profile = user]
    BY <1>6 DEF StartSync, Record
  <2>. HIDE DEF user, s
  <2>. QED
    BY <1>1, <2>1, <2>2, <2>3 DEF Edited
<1>7. ASSUME NEW i \in DOMAIN syncs, CancelSync(i) PROVE Edited /\ late' \subseteq Recorded
  <2>. DEFINE ended == [syncs[i] EXCEPT !.status = "cancelled", !.at = now]
  <2>1. syncs[i] \in SyncState
    BY DEF TypesInv, Types, SyncTypes, SyncMap, Typed
  <2>2. ended \in SyncState
    BY <1>1, <2>1 DEF SyncState
  <2>3. store' = store /\ late' = late \cup {Record(ended, "paused")}
    BY <1>7 DEF CancelSync
  <2>. HIDE DEF ended
  <2>4. Record(ended, "paused") \in Recorded
    BY <2>2, RecordTyped
  <2>. QED
    BY <1>1, <2>3, <2>4 DEF Edited
<1>8. ASSUME NEW s \in late, RecordCancelled(s) PROVE Edited /\ late' \subseteq Recorded
  <2>1. s \in Recorded /\ late' \subseteq Recorded
    BY <1>1, <1>8 DEF RecordCancelled
  <2>2. store' = store \/ store' = [store EXCEPT !.sync = s]
    BY <1>8 DEF RecordCancelled, Saved
  <2>. QED
    BY <2>1, <2>2 DEF Edited
<1>9. ASSUME NEW u \in scope.users \cup {Nobody}, Start(u) PROVE Edited /\ late' \subseteq Recorded
  <2>. DEFINE profile == IF u = Nobody THEN store.profile ELSE u
              paused == [store.sync EXCEPT !.status = "paused", !.at = now]
              s == IF store.sync.status = "running" THEN paused ELSE store.sync
  <2>1. profile \in Users \cup {Nobody} /\ late' = {}
    BY <1>1, <1>2, <1>9 DEF Start, Blank
  <2>2. s \in Recorded \cup {NoSync}
    <3>1. CASE store.sync.status = "running"
      <4>1. store.sync \in Recorded
        BY <1>1, <3>1 DEF NoSync
      <4>2. paused \in Recorded
        BY <1>1, <4>1 DEF Recorded
      <4>. QED
        BY <3>1, <4>2
    <3>2. CASE store.sync.status # "running"
      BY <1>1, <3>2
    <3>. QED
      BY <3>1, <3>2
  <2>3. \/ store' = [store EXCEPT !.profile = profile]
        \/ store' = [store EXCEPT !.profile = profile, !.sync = s]
    BY <1>9 DEF Start
  <2>. HIDE DEF profile, s
  <2>. QED
    BY <2>1, <2>2, <2>3 DEF Edited
<1>10. CASE Crash \/ Leave
  BY <1>1, <1>10 DEF Crash, Leave, Blank, Edited
<1>11. ASSUME NEW i, CancelResolution(i) PROVE Edited /\ late' \subseteq Recorded
  BY <1>1, <1>11 DEF CancelResolution, Edited
<1>12. CASE Tick \/ Shutdown \/ UNCHANGED vars
  BY <1>1, <1>12 DEF Tick, Shutdown, vars, memory, Edited
<1>. QED
  BY <1>3, <1>4, <1>5, <1>6, <1>7, <1>8, <1>9, <1>10, <1>11, <1>12, FindsEdit, WalksEdit DEF Next

LEMMA SyncsUnchanged ==
  ASSUME SyncTypes, UNCHANGED <<syncs, waiting, current, walker>>, next'.sync = next.sync
  PROVE  SyncTypes'
BY DEF SyncTypes, SyncMap, WalkerTypes, Walking

LEMMA SyncsReset ==
  ASSUME syncs' = <<>>, waiting' = <<>>, current' = 0, walker' = Idle, next'.sync = 1
  PROVE  SyncTypes'
<1>1. DOMAIN <<>> = {} /\ Idle.at = "idle"
  BY DEF Idle
<1>. QED
  BY <1>1, TypedEmpty, EmptyQueue DEF SyncTypes, SyncMap, WalkerTypes, Walking

(* The record of one sync changes; trimming keeps the newest.                 *)
LEMMA OneSyncTyped ==
  ASSUME TypesInv, UNCHANGED <<next, current>>, NEW i \in DOMAIN syncs, NEW r \in SyncState,
         syncs' = [syncs EXCEPT ![i] = r] \/ syncs' = Trimmed([syncs EXCEPT ![i] = r])
  PROVE  SyncMap'
<1>. DEFINE more == [syncs EXCEPT ![i] = r]
<1>1. /\ Typed(syncs, SyncState) /\ current \in {0} \cup DOMAIN syncs
      /\ \A j \in DOMAIN syncs : j <= current /\ j \in Nat
  BY DEF TypesInv, Types, SyncTypes, SyncMap, CheckpointInv, Shapes, Numbered
<1>2. DOMAIN more = DOMAIN syncs /\ Typed(more, SyncState)
  BY <1>1, TypedExcept
<1>. HIDE DEF more
<1>3. Typed(Trimmed(more), SyncState) /\ DOMAIN Trimmed(more) \subseteq DOMAIN more
  BY <1>2, TypedTrimmed, TrimmedKeeps
<1>4. current \in DOMAIN more => current \in DOMAIN Trimmed(more)
  BY <1>1, <1>2, NewestKept
<1>5. syncs' = more \/ syncs' = Trimmed(more)
  BY DEF more
<1>. QED
  BY <1>1, <1>2, <1>3, <1>4, <1>5 DEF TypesInv, Types, SyncTypes, SyncMap

LEMMA StartSyncTypes ==
  ASSUME TypesInv, NEW d \in Days, NEW u \in Users \cup {Nobody}, StartSync(d, u)
  PROVE  SyncTypes'
<1>. DEFINE i == next.sync
            user == IF u = Nobody THEN store.profile ELSE u
            new == [user |-> user, days |-> d, upper |-> now, at |-> now, status |-> "queued",
                    archives |-> <<>>, taken |-> 0, discovered |-> FALSE, skipped |-> {}]
<1>1. /\ walker' = walker /\ next' = [next EXCEPT !.sync = i + 1]
      /\ \/ syncs' = Trimmed(With(syncs, i, new)) /\ current' = i /\ waiting' = Append(waiting, i)
         \/ UNCHANGED <<syncs, current, waiting>>
  BY DEF StartSync
<1>2. new \in SyncState
  <2>1. user \in Users /\ now \in 0..MaxNow
    BY DEF StartSync, TypesInv, Types, LifeTypes, StoreTypes
  <2>2. <<>> \in Seq(Months)
    OBVIOUS
  <2>. HIDE DEF user
  <2>. QED
    BY <2>1, <2>2 DEF SyncState, Live
<1>3. /\ i \in Nat /\ i # 0 /\ next'.sync = i + 1 /\ Typed(syncs, SyncState)
      /\ \A j \in DOMAIN syncs : j \in Nat /\ j < i
  BY <1>1 DEF TypesInv, Types, SyncTypes, SyncMap, CheckpointInv, Shapes, Numbered
<1>. HIDE DEF new
<1>4. SyncMap'
  <2>1. CASE UNCHANGED <<syncs, current, waiting>>
    BY <1>3, <2>1 DEF TypesInv, Types, SyncTypes, SyncMap
  <2>2. CASE syncs' = Trimmed(With(syncs, i, new)) /\ current' = i
    <3>. DEFINE more == With(syncs, i, new)
    <3>1. Typed(more, SyncState)
      BY <1>2, <1>3, TypedWith
    <3>2. DOMAIN more = DOMAIN syncs \cup {i}
      BY DEF With
    <3>3. \A j \in DOMAIN more : j \in Nat /\ j <= i
      BY <1>3, <3>2
    <3>. HIDE DEF more
    <3>4. i \in DOMAIN Trimmed(more)
      BY <1>3, <3>2, <3>3, NewestKept
    <3>5. Typed(Trimmed(more), SyncState) /\ DOMAIN Trimmed(more) \subseteq DOMAIN more
      BY <3>1, TypedTrimmed, TrimmedKeeps
    <3>6. syncs' = Trimmed(more)
      BY <2>2 DEF more
    <3>. QED
      BY <1>3, <2>2, <3>3, <3>4, <3>5, <3>6 DEF SyncMap
  <2>. QED
    BY <1>1, <2>1, <2>2
<1>5. waiting' \in Seq(Numbers(next'.sync))
  <2>1. Numbers(i) \subseteq Numbers(i + 1) /\ i \in Numbers(i + 1)
    BY <1>3 DEF Numbers
  <2>2. waiting \in Seq(Numbers(i))
    BY DEF TypesInv, Types, SyncTypes
  <2>. HIDE DEF i
  <2>3. waiting \in Seq(Numbers(i + 1))
    BY <2>1, <2>2, RetypedQueue
  <2>4. Append(waiting, i) \in Seq(Numbers(i + 1))
    BY <2>1, <2>3, AppendedQueue
  <2>. QED
    BY <1>1, <1>3, <2>3, <2>4
<1>6. WalkerTypes'
  <2>1. Numbers(i) \subseteq Numbers(i + 1)
    BY <1>3 DEF Numbers
  <2>. QED
    BY <1>1, <1>3, <2>1 DEF TypesInv, Types, SyncTypes, WalkerTypes, Walking
<1>. QED
  BY <1>4, <1>5, <1>6 DEF SyncTypes

LEMMA CancelSyncTypes ==
  ASSUME TypesInv, NEW i \in DOMAIN syncs, CancelSync(i)
  PROVE  SyncTypes'
<1>. DEFINE r == [syncs[i] EXCEPT !.status = "cancelled", !.at = now]
<1>1. /\ syncs' = [syncs EXCEPT ![i] = r] /\ waiting' = Others(waiting, i)
      /\ UNCHANGED <<next, current, walker>>
  BY DEF CancelSync
<1>2. r \in SyncState
  <2>1. syncs[i] \in SyncState /\ now \in 0..MaxNow
    BY DEF TypesInv, Types, LifeTypes, SyncTypes, SyncMap, Typed
  <2>. QED
    BY <2>1 DEF SyncState
<1>. HIDE DEF r
<1>3. SyncMap'
  BY <1>1, <1>2, OneSyncTyped
<1>4. waiting \in Seq(Numbers(next.sync))
  BY DEF TypesInv, Types, SyncTypes
<1>5. waiting' \in Seq(Numbers(next.sync))
  BY <1>1, <1>4, OthersQueue
<1>. QED
  BY <1>1, <1>3, <1>5 DEF TypesInv, Types, SyncTypes, WalkerTypes, Walking

(* The forms of the historical worker's steps.                                *)
WalkerMoves ==
  \/ walker' = Idle
  \/ \E at \in {"next", "progress", "profile"} : walker' = [walker EXCEPT !.at = at]
  \/ /\ walker.month \in Months
     /\ \E at \in {"index", "mark"} : walker' = [walker EXCEPT !.at = at]
  \/ \E status \in SyncEnds : walker' = [walker EXCEPT !.at = "finish", !.end = status]
  \/ \E months \in Seq(Months) : walker' = [walker EXCEPT !.at = "list", !.months = months]
  \/ \E m \in Months : walker' = [walker EXCEPT !.at = "fetch", !.month = m]
  \/ /\ walker.month \in Months
     /\ \E page \in SUBSET Games : walker' = [walker EXCEPT !.at = "add", !.page = page]
  \/ \E at \in {"report", "record"}, s \in SyncState : walker' = [walker EXCEPT !.at = at, !.sync = s]

LEMMA MovesTyped ==
  ASSUME TypesInv, Walking, next' = next, WalkerMoves
  PROVE  WalkerTypes'
<1>1. /\ DOMAIN walker = WalkerFields /\ walker.id \in Numbers(next.sync)
      /\ walker.sync \in SyncState /\ walker.months \in Seq(Months) /\ walker.page \subseteq Games
  BY DEF TypesInv, CheckpointInv, Holding, Working, Types, SyncTypes, WalkerTypes, Walking
<1>. DEFINE id == walker.id
<1>2. CASE walker' = Idle
  BY <1>2 DEF WalkerTypes, Walking, Idle
<1>3. ASSUME NEW at \in {"next", "progress", "profile"}, walker' = [walker EXCEPT !.at = at]
      PROVE  WalkerTypes'
  BY <1>1, <1>3 DEF WalkerTypes, WalkerFields
<1>4. ASSUME walker.month \in Months, NEW at \in {"index", "mark"}, walker' = [walker EXCEPT !.at = at]
      PROVE  WalkerTypes'
  BY <1>1, <1>4 DEF WalkerTypes, WalkerFields
<1>5. ASSUME NEW status \in SyncEnds, walker' = [walker EXCEPT !.at = "finish", !.end = status]
      PROVE  WalkerTypes'
  BY <1>1, <1>5 DEF WalkerTypes, WalkerFields
<1>6. ASSUME NEW months \in Seq(Months), walker' = [walker EXCEPT !.at = "list", !.months = months]
      PROVE  WalkerTypes'
  BY <1>1, <1>6 DEF WalkerTypes, WalkerFields
<1>7. ASSUME NEW m \in Months, walker' = [walker EXCEPT !.at = "fetch", !.month = m]
      PROVE  WalkerTypes'
  BY <1>1, <1>7 DEF WalkerTypes, WalkerFields
<1>8. ASSUME walker.month \in Months, NEW page \in SUBSET Games,
             walker' = [walker EXCEPT !.at = "add", !.page = page]
      PROVE  WalkerTypes'
  BY <1>1, <1>8 DEF WalkerTypes, WalkerFields
<1>9. ASSUME NEW at \in {"report", "record"}, NEW s \in SyncState,
             walker' = [walker EXCEPT !.at = at, !.sync = s]
      PROVE  WalkerTypes'
  BY <1>1, <1>9 DEF WalkerTypes, WalkerFields
<1>. QED
  BY <1>2, <1>3, <1>4, <1>5, <1>6, <1>7, <1>8, <1>9 DEF WalkerMoves

(* A sync's record stays one, whatever its worker writes to it.               *)
LEMMA SyncRevised ==
  ASSUME NEW s \in SyncState, NEW t \in 0..MaxNow
  PROVE  /\ \A status \in {"running"} \cup SyncEnds : [s EXCEPT !.status = status, !.at = t] \in SyncState
         /\ \A months \in Seq(Months) :
              [s EXCEPT !.archives = months, !.discovered = TRUE] \in SyncState
         /\ \A m \in Months : [s EXCEPT !.skipped = @ \cup {m}] \in SyncState
         /\ s.taken < Len(s.archives) =>
              [s EXCEPT !.taken = s.taken + 1] \in SyncState /\ s.archives[s.taken + 1] \in Months
<1>1. \A status \in {"running"} \cup SyncEnds : [s EXCEPT !.status = status, !.at = t] \in SyncState
  BY DEF SyncState, SyncEnds, Live
<1>2. \A months \in Seq(Months) : [s EXCEPT !.archives = months, !.discovered = TRUE] \in SyncState
  BY DEF SyncState
<1>3. \A m \in Months : [s EXCEPT !.skipped = @ \cup {m}] \in SyncState
  BY DEF SyncState
<1>4. /\ [s EXCEPT !.taken = s.taken + 1] \in SyncState
      /\ s.archives \in Seq(Months) /\ s.taken \in Nat
  BY DEF SyncState
<1>5. s.taken < Len(s.archives) => s.archives[s.taken + 1] \in Months
  <2>1. Len(s.archives) \in Nat
    BY <1>4
  <2>2. s.taken < Len(s.archives) => s.taken + 1 \in 1..Len(s.archives)
    BY <1>4, <2>1
  <2>. QED
    BY <1>4, <2>2
<1>. QED
  BY <1>1, <1>2, <1>3, <1>4, <1>5

LEMMA OwnSync ==
  ASSUME TypesInv, Walking
  PROVE  /\ walker.id \in Numbers(next.sync)
         /\ walker.sync \in SyncState /\ now \in 0..MaxNow /\ walker.months \in Seq(Months)
         /\ walker.id \in DOMAIN syncs => syncs[walker.id] \in SyncState
         /\ DOMAIN walker = WalkerFields
BY DEF TypesInv, Types, LifeTypes, SyncTypes, SyncMap, Typed, WalkerTypes, Walking, CheckpointInv,
       Holding, Working

(* The steps of the worker that touch no sync.                                *)
LEMMA FetchingTypes ==
  ASSUME TypesInv, ~Terminates,
         DiscoverMonths \/ AddMonth \/ IndexMonth \/ MarkMonth \/ Report \/ RecordEnd \/ UpdateProfile
  PROVE  SyncTypes'
<1>1. Walking /\ UNCHANGED <<syncs, waiting, current, next>>
  BY DEF Walking, DiscoverMonths, AddMonth, IndexMonth, MarkMonth, Report, RecordEnd, UpdateProfile,
         WalkerOnly, Kept, w
<1>2. WalkerMoves
  <2>1. CASE DiscoverMonths
    <3>. DEFINE found == Discovered(walker.sync.user, now, MonthsFor(walker.sync.days))
    <3>1. found \in Seq(Months)
      <4>1. now \in 0..MaxNow /\ MonthsFor(walker.sync.days) \in Nat
        BY <1>1, OwnSync DEF MonthsFor
      <4>. QED
        BY <4>1, DiscoveredMonths
    <3>2. \/ walker' = [walker EXCEPT !.at = "list", !.months = found]
          \/ \E status \in SyncEnds : walker' = [walker EXCEPT !.at = "finish", !.end = status]
      BY <2>1 DEF DiscoverMonths, Abandoned, Ending, SyncEnds, w
    <3>. HIDE DEF found
    <3>. QED
      BY <3>1, <3>2 DEF WalkerMoves
  <2>2. CASE AddMonth \/ IndexMonth \/ MarkMonth
    <3>1. walker.month \in Months
      BY <2>2 DEF AddMonth, IndexMonth, MarkMonth, TypesInv, Types, SyncTypes, WalkerTypes, w
    <3>2. \/ \E at \in {"index", "mark", "progress"} : walker' = [walker EXCEPT !.at = at]
          \/ walker' = [walker EXCEPT !.at = "finish", !.end = "failed"]
      BY <2>2 DEF AddMonth, IndexMonth, MarkMonth, Steps, Ending, w
    <3>. QED
      BY <3>1, <3>2 DEF WalkerMoves, SyncEnds
  <2>3. CASE Report \/ UpdateProfile
    <3>1. walker' = Idle \/ walker' = [walker EXCEPT !.at = "finish", !.end = "failed"]
      BY <2>3 DEF Report, UpdateProfile, Ending, w
    <3>. QED
      BY <3>1 DEF WalkerMoves, SyncEnds
  <2>4. CASE RecordEnd
    <3>1. \/ walker' = Idle \/ walker' = [walker EXCEPT !.at = "finish", !.end = "failed"]
          \/ walker' = [walker EXCEPT !.at = "profile"]
      BY <2>4 DEF RecordEnd, RecordFails, Steps, Ending, w
    <3>. QED
      BY <3>1 DEF WalkerMoves, SyncEnds
  <2>. QED
    BY <2>1, <2>2, <2>3, <2>4
<1>3. WalkerTypes'
  BY <1>1, <1>2, MovesTyped
<1>. QED
  BY <1>1, <1>3 DEF TypesInv, Types, SyncTypes, SyncMap

(* Those that do, to their own.                                               *)
LEMMA WritingTypes ==
  ASSUME TypesInv, ~Terminates, ListMonths \/ NextMonth \/ FetchMonth \/ Finish
  PROVE  SyncTypes'
<1>. DEFINE i == walker.id
<1>1. Walking /\ UNCHANGED <<waiting, current, next>>
  BY DEF Walking, ListMonths, NextMonth, FetchMonth, Finish, WalkerOnly, w
<1>2. /\ walker.sync \in SyncState /\ now \in 0..MaxNow /\ walker.months \in Seq(Months)
      /\ i \in DOMAIN syncs => syncs[i] \in SyncState
  BY <1>1, OwnSync
<1>3. /\ WalkerMoves
      /\ \/ syncs' = syncs
         \/ /\ i \in DOMAIN syncs
            /\ \E r \in SyncState :
                 syncs' = [syncs EXCEPT ![i] = r] \/ syncs' = Trimmed([syncs EXCEPT ![i] = r])
  <2>1. CASE ListMonths
    <3>. DEFINE r == [syncs[i] EXCEPT !.archives = walker.months, !.discovered = TRUE]
    <3>1. /\ i \in DOMAIN syncs /\ walker' = [walker EXCEPT !.at = "next"]
          /\ syncs' = [syncs EXCEPT ![i] = r]
      BY <2>1 DEF ListMonths, Steps, w
    <3>2. r \in SyncState
      BY <1>2, <3>1, SyncRevised
    <3>. HIDE DEF r, i
    <3>. QED
      BY <3>1, <3>2 DEF WalkerMoves
  <2>2. CASE NextMonth
    <3>. DEFINE s == syncs[i]
                r == [s EXCEPT !.taken = s.taken + 1]
                m == s.archives[s.taken + 1]
    <3>1. /\ i \in DOMAIN syncs
          /\ \/ /\ s.taken < Len(s.archives) /\ syncs' = [syncs EXCEPT ![i] = r]
                /\ walker' = [walker EXCEPT !.at = "fetch", !.month = m]
             \/ walker' = [walker EXCEPT !.at = "finish", !.end = "succeeded"] /\ syncs' = syncs
      BY <2>2 DEF NextMonth, Ending, w
    <3>2. s.taken < Len(s.archives) => r \in SyncState /\ m \in Months
      BY <1>2, <3>1, SyncRevised
    <3>. HIDE DEF r, i, m, s
    <3>. QED
      BY <3>1, <3>2 DEF WalkerMoves, SyncEnds
  <2>3. CASE FetchMonth
    <3>. DEFINE r == [syncs[i] EXCEPT !.skipped = @ \cup {walker.month}]
                page == {g \in MonthPage(walker.sync.user, walker.month, now) : InWindow(walker.sync, g)}
    <3>1. walker.month \in Months
      BY <2>3 DEF FetchMonth, TypesInv, Types, SyncTypes, WalkerTypes, w
    <3>2. page \in SUBSET Games
      BY DEF MonthPage
    <3>3. i \in DOMAIN syncs => r \in SyncState
      BY <1>2, <3>1, SyncRevised
    <3>4. syncs' = syncs \/ (i \in DOMAIN syncs /\ syncs' = [syncs EXCEPT ![i] = r])
      BY <2>3 DEF FetchMonth, w
    <3>5. \/ walker' = [walker EXCEPT !.at = "progress"]
          \/ \E status \in SyncEnds : walker' = [walker EXCEPT !.at = "finish", !.end = status]
          \/ walker' = [walker EXCEPT !.at = "add", !.page = page]
      BY <2>3 DEF FetchMonth, Steps, Abandoned, Ending, SyncEnds, w
    <3>. HIDE DEF r, page, i
    <3>. QED
      BY <3>1, <3>2, <3>3, <3>4, <3>5 DEF WalkerMoves
  <2>4. CASE Finish
    <3>. DEFINE r == [syncs[i] EXCEPT !.status = Settled(@, walker.end), !.at = now]
                status == Settled(syncs[i].status, walker.end)
    <3>1. \/ walker' = Idle /\ syncs' = syncs
          \/ /\ i \in DOMAIN syncs /\ syncs' = Trimmed([syncs EXCEPT ![i] = r])
             /\ walker' = [walker EXCEPT !.at = "record", !.sync = r]
      BY <2>4 DEF Finish, w
    <3>2. i \in DOMAIN syncs => r \in SyncState
      <4>1. status \in SyncEnds
        BY <2>4 DEF Finish, TypesInv, Types, SyncTypes, WalkerTypes, Settled, SyncEnds, w
      <4>2. i \in DOMAIN syncs => r = [syncs[i] EXCEPT !.status = status, !.at = now]
        BY <1>2 DEF SyncState
      <4>. HIDE DEF r, status, i
      <4>3. ASSUME i \in DOMAIN syncs
            PROVE  [syncs[i] EXCEPT !.status = status, !.at = now] \in SyncState
        <5>1. syncs[i] \in SyncState /\ now \in 0..MaxNow /\ status \in {"running"} \cup SyncEnds
          BY <1>2, <4>1, <4>3
        <5>. QED
          BY ONLY <5>1, SyncRevised
      <4>. QED
        BY <4>2, <4>3
    <3>. HIDE DEF r, i
    <3>. QED
      BY <3>1, <3>2 DEF WalkerMoves
  <2>. QED
    BY <2>1, <2>2, <2>3, <2>4
<1>4. WalkerTypes'
  BY <1>1, <1>3, MovesTyped
<1>5. SyncMap'
  <2>1. CASE syncs' = syncs
    BY <1>1, <2>1 DEF TypesInv, Types, SyncTypes, SyncMap
  <2>. HIDE DEF i
  <2>. QED
    BY <1>1, <1>3, <2>1, OneSyncTyped
<1>. QED
  BY <1>1, <1>4, <1>5 DEF TypesInv, Types, SyncTypes

LEMMA QueueingTypes ==
  ASSUME TypesInv, ~Terminates, PopSync \/ BeginStep \/ Progress
  PROVE  SyncTypes'
<1>. DEFINE i == walker.id
            r == [syncs[i] EXCEPT !.status = "running", !.at = now]
<1>1. UNCHANGED <<current, next>> /\ now \in 0..MaxNow /\ waiting \in Seq(Numbers(next.sync))
  BY DEF PopSync, BeginStep, Progress, WalkerOnly, TypesInv, Types, LifeTypes, SyncTypes
<1>2. i \in DOMAIN syncs => r \in SyncState
  <2>1. ASSUME i \in DOMAIN syncs PROVE r \in SyncState
    <3>1. syncs[i] \in SyncState
      BY <2>1 DEF TypesInv, Types, SyncTypes, SyncMap, Typed
    <3>. QED
      BY <1>1, <3>1, SyncRevised
  <2>. QED
    BY <2>1
<1>3. CASE PopSync
  <2>1. /\ waiting # <<>> /\ syncs' = syncs /\ waiting' = Tail(waiting)
        /\ walker' = [at |-> "begin", id |-> Head(waiting)]
    BY <1>3 DEF PopSync
  <2>2. Head(waiting) \in Numbers(next.sync) /\ waiting' \in Seq(Numbers(next.sync))
    BY <1>1, <2>1, PoppedQueue
  <2>. QED
    BY <1>1, <2>1, <2>2 DEF TypesInv, Types, SyncTypes, SyncMap, WalkerTypes, Walking
<1>4. CASE BeginStep
  <2>1. waiting' = waiting
    BY <1>4 DEF BeginStep
  <2>2. CASE walker' = Idle /\ syncs' = syncs
    BY <1>1, <2>1, <2>2 DEF Idle, TypesInv, Types, SyncTypes, SyncMap, WalkerTypes, Walking
  <2>3. CASE ~(walker' = Idle /\ syncs' = syncs)
    <3>1. /\ i \in DOMAIN syncs /\ syncs' = [syncs EXCEPT ![i] = r]
          /\ walker' = [at |-> IF r.discovered THEN "next" ELSE "discover", id |-> i,
                        sync |-> r, months |-> <<>>, month |-> 0, page |-> {}, end |-> "running"]
      BY <1>4, <2>3 DEF BeginStep, w
    <3>2. i \in Numbers(next.sync)
      BY <1>4 DEF BeginStep, TypesInv, Types, SyncTypes, WalkerTypes, w
    <3>. HIDE DEF r, i
    <3>3. <<>> \in Seq(Months)
      OBVIOUS
    <3>4. WalkerTypes'
      BY <1>1, <1>2, <3>1, <3>2, <3>3 DEF WalkerTypes, Walking
    <3>5. SyncMap'
      BY <1>1, <1>2, <3>1, OneSyncTyped
    <3>. QED
      BY <1>1, <2>1, <3>4, <3>5 DEF SyncTypes
  <2>. QED
    BY <2>2, <2>3
<1>5. CASE Progress
  <2>1. Walking
    BY <1>5 DEF Progress, Walking, w
  <2>2. CASE walker' = Idle /\ UNCHANGED <<syncs, waiting>>
    BY <1>1, <2>2 DEF Idle, TypesInv, Types, SyncTypes, SyncMap, WalkerTypes, Walking
  <2>3. CASE ~(walker' = Idle /\ UNCHANGED <<syncs, waiting>>)
    <3>1. /\ i \in DOMAIN syncs /\ syncs' = [syncs EXCEPT ![i] = r]
          /\ waiting' = Append(waiting, i) /\ walker' = [walker EXCEPT !.at = "report", !.sync = r]
      BY <1>5, <2>3 DEF Progress, Kept, w
    <3>2. i \in Numbers(next.sync)
      BY <2>1, OwnSync
    <3>. HIDE DEF r, i
    <3>3. WalkerTypes'
      BY <1>1, <1>2, <2>1, <3>1, MovesTyped DEF WalkerMoves
    <3>4. SyncMap'
      BY <1>1, <1>2, <3>1, OneSyncTyped
    <3>5. waiting' \in Seq(Numbers(next.sync))
      BY <1>1, <3>1, <3>2, AppendedQueue
    <3>. QED
      BY <1>1, <3>3, <3>4, <3>5 DEF SyncTypes
  <2>. QED
    BY <2>2, <2>3
<1>. QED
  BY <1>3, <1>4, <1>5

LEMMA WalksKeepTypes ==
  ASSUME TypesInv, Walks
  PROVE  SyncTypes'
<1>1. CASE Terminates
  BY <1>1, SyncsReset DEF Terminates, Blank
<1>. QED
  BY <1>1, FetchingTypes, WritingTypes, QueueingTypes DEF Walks

LEMMA FindsKeepSyncs ==
  ASSUME Finds, ~Terminates
  PROVE  UNCHANGED <<syncs, waiting, current, walker, next>>
BY DEF Finds, PopResolution, BeginResolution, LookUp, SearchPlayer, SearchMonth, SearchPage,
       AddResolved, EndResolution, FinderOnly

LEMMA StartTypes ==
  ASSUME TypesInv, NEW u, Start(u)
  PROVE  SyncTypes'
<1>. DEFINE s == [user |-> store.sync.user, days |-> store.sync.days, upper |-> store.sync.upper,
                  at |-> now, status |-> "queued", archives |-> <<>>, taken |-> 0,
                  discovered |-> FALSE, skipped |-> {}]
<1>1. walker' = Idle
  BY DEF Start, Blank
<1>2. CASE syncs' = <<>> /\ waiting' = <<>> /\ current' = 0 /\ next' = [resolution |-> 1, sync |-> 1]
  <2>1. next'.sync = 1
    BY <1>2
  <2>. QED
    BY <1>1, <1>2, <2>1, SyncsReset
<1>3. CASE /\ syncs' = <<s>> /\ waiting' = <<1>> /\ current' = 1
           /\ next' = [resolution |-> 1, sync |-> 2] /\ store.sync.status = "running"
  <2>1. store.sync \in Recorded /\ now \in 0..MaxNow
    BY <1>3 DEF TypesInv, Types, LifeTypes, StoreTypes, NoSync
  <2>2. s \in SyncState
    <3>1. <<>> \in Seq(Months)
      OBVIOUS
    <3>. QED
      BY <2>1, <3>1 DEF Recorded, SyncState, Live
  <2>. HIDE DEF s
  <2>3. /\ DOMAIN <<s>> = {1} /\ <<s>>[1] = s /\ <<s>> = [j \in 1..1 |-> s]
        /\ <<1>> \in Seq({1}) /\ Numbers(2) = {1} /\ next'.sync = 2
    BY <1>3 DEF Numbers
  <2>4. Typed(<<s>>, SyncState)
    BY <2>2, <2>3 DEF Typed
  <2>5. SyncMap'
    BY <1>3, <2>3, <2>4 DEF SyncMap
  <2>6. WalkerTypes'
    BY <1>1 DEF WalkerTypes, Walking, Idle
  <2>. QED
    BY <1>3, <2>3, <2>5, <2>6 DEF SyncTypes
<1>. QED
  BY <1>2, <1>3 DEF Start, Resumes

LEMMA StepKeepsTypes ==
  ASSUME TypesInv, [Next]_vars
  PROVE  TypesInv'
<1>1. CheckpointInv' /\ ResolutionInv' /\ LifeTypes'
  BY StepKeepsCheckpoints, StepKeepsResolutions, StepLife DEF TypesInv, Types, LifeTypes, StoreTypes
<1>2. StoreTypes'
  BY StepEdits, EditedTypes DEF TypesInv, Types, CheckpointInv, Dates
<1>3. SyncTypes'
  <2>1. SyncTypes /\ scope \in Scopes
    BY DEF TypesInv, Types, LifeTypes
  <2>2. scope.users \subseteq Users /\ scope.days \subseteq Days
    BY <2>1, ScopesAssumption
  <2>3. ASSUME NEW u, ConfigureProfile(u) PROVE SyncTypes'
    BY <2>1, <2>3, SyncsUnchanged DEF ConfigureProfile, memory
  <2>4. ASSUME NEW g, NEW u, Resolve(g, u) PROVE SyncTypes'
    <3>1. /\ UNCHANGED <<syncs, waiting, current, walker>>
          /\ next' = next \/ next' = [next EXCEPT !.resolution = next.resolution + 1]
      BY <2>4 DEF Resolve
    <3>2. next'.sync = next.sync
      BY <3>1 DEF TypesInv, CheckpointInv, Shapes
    <3>. QED
      BY <2>1, <3>1, <3>2, SyncsUnchanged
  <2>5. ASSUME NEW g, NEW u, ImportUrl(g, u) PROVE SyncTypes'
    BY <2>1, <2>5, SyncsUnchanged DEF ImportUrl, memory
  <2>6. ASSUME NEW i, CancelResolution(i) PROVE SyncTypes'
    BY <2>1, <2>6, SyncsUnchanged DEF CancelResolution
  <2>7. ASSUME NEW s, RecordCancelled(s) PROVE SyncTypes'
    BY <2>1, <2>7, SyncsUnchanged DEF RecordCancelled
  <2>8. CASE Tick \/ Shutdown \/ UNCHANGED vars
    BY <2>1, <2>8, SyncsUnchanged DEF Tick, Shutdown, vars, memory
  <2>9. CASE Crash \/ Leave
    BY <2>9, SyncsReset DEF Crash, Leave, Blank
  <2>10. CASE Finds
    <3>1. CASE Terminates
      BY <3>1, SyncsReset DEF Terminates, Blank
    <3>. QED
      BY <2>1, <2>10, <3>1, FindsKeepSyncs, SyncsUnchanged
  <2>11. ASSUME NEW d \in scope.days, NEW u \in scope.users \cup {Nobody}, StartSync(d, u)
         PROVE  SyncTypes'
    BY <2>2, <2>11, StartSyncTypes
  <2>. QED
    BY <2>3, <2>4, <2>5, <2>6, <2>7, <2>8, <2>9, <2>10, <2>11, CancelSyncTypes, WalksKeepTypes,
       StartTypes DEF Next
<1>. QED
  BY <1>1, <1>2, <1>3 DEF TypesInv, Types

LEMMA TypesInit == Init => TypesInv
<1>. SUFFICES ASSUME Init PROVE TypesInv
  OBVIOUS
<1>1. CheckpointInv /\ ResolutionInv
  BY CheckpointInit, ResolutionsInit
<1>2. /\ DOMAIN <<>> = {} /\ Idle.at = "idle" /\ finder = Idle /\ walker = Idle
      /\ syncs = <<>> /\ waiting = <<>> /\ current = 0 /\ next.sync = 1 /\ late = {}
  BY DEF Init, Idle
<1>3. LifeTypes
  <2>1. /\ scope \in Scopes /\ now = scope.first /\ mishaps = 0 /\ up = FALSE /\ stopping = FALSE
    BY DEF Init
  <2>2. now \in 0..MaxNow /\ mishaps \in Nat /\ mishaps <= scope.mishaps + 1
    BY <2>1, ScopesAssumption
  <2>. QED
    BY <1>2, <2>1, <2>2, Zenon DEF LifeTypes
<1>4. StoreTypes
  BY <1>2 DEF Init, EmptyStore, StoreTypes
<1>5. SyncTypes
  BY <1>2, TypedEmpty, EmptyQueue DEF SyncTypes, SyncMap, WalkerTypes, Walking
<1>. QED
  BY <1>1, <1>3, <1>4, <1>5 DEF TypesInv, Types

-----------------------------------------------------------------------------
(* Every variable of the manager keeps its type for every set of users and    *)
(* games, every length of the queues and histories and whatever fails: what   *)
(* is queued to be resolved is known, while a sync that waits may be gone.    *)
THEOREM IngestTypes == Spec => []TypeOK
<1>1. Init => TypesInv
  BY TypesInit
<1>2. TypesInv /\ [Next]_vars => TypesInv'
  BY StepKeepsTypes
<1>3. TypesInv => TypeOK
  <2>. SUFFICES ASSUME TypesInv PROVE TypeOK
    OBVIOUS
  <2>1. resolutions \in [DOMAIN resolutions -> ResolutionState]
    BY DEF TypesInv, ResolutionInv, ResolutionTypes, Typed
  <2>2. /\ \A i \in DOMAIN syncs : syncs[i] \in SyncState
        /\ waiting \in Seq(1..(next.sync - 1)) /\ current \in {0} \cup DOMAIN syncs
    BY DEF TypesInv, Types, SyncTypes, SyncMap, Typed, Numbers
  <2>3. mishaps \in 0..(scope.mishaps + 1)
    BY ScopesAssumption DEF TypesInv, Types, LifeTypes
  <2>4. /\ now \in 0..MaxNow /\ up \in BOOLEAN /\ stopping \in BOOLEAN
        /\ asked \in Seq(DOMAIN resolutions) /\ Len(asked) <= MaxPending
        /\ store.profile \in Users \cup {Nobody} /\ store.archive \subseteq Games
        /\ store.games \subseteq Games /\ DOMAIN store.marks \subseteq Users \X Months
    BY DEF TypesInv, Types, LifeTypes, StoreTypes, ResolutionInv, ResolutionTypes
  <2>. QED
    BY <2>1, <2>2, <2>3, <2>4 DEF TypeOK
<1>. QED
  BY <1>1, <1>2, <1>3, PTL DEF Spec

-----------------------------------------------------------------------------
(* Where the syncs are: a live one waits, or is in the hands of the           *)
(* historical worker, which returns it to the queue before it records that.   *)
Stepping ==
  walker.at \in {"begin", "discover", "list", "next", "fetch", "add", "index", "mark", "progress"}
SyncPlaces ==
  /\ NoTwice(waiting)
  /\ Stepping => ~In(walker.id, waiting)
  /\ \A i \in DOMAIN syncs :
       syncs[i].status \in Live =>
         In(i, waiting) \/ (Held(walker, i) /\ walker.at \notin {"report", "record", "profile"})

PlacesInv == TypesInv /\ SyncPlaces

LEMMA PlacesUnchanged ==
  ASSUME SyncPlaces, UNCHANGED <<syncs, waiting, walker>>
  PROVE  SyncPlaces'
BY DEF SyncPlaces, Stepping

LEMMA PlacesReset ==
  ASSUME syncs' = <<>>, waiting' = <<>>, walker' = Idle
  PROVE  SyncPlaces'
<1>1. DOMAIN <<>> = {} /\ Idle.at = "idle"
  BY DEF Idle
<1>. QED
  BY <1>1, EmptyQueue DEF SyncPlaces, Stepping

(* The record of one sync changes, and some may be trimmed.                   *)
LEMMA OneSyncChanges ==
  ASSUME NEW map, NEW i \in DOMAIN map, NEW r, NEW new,
         new = [map EXCEPT ![i] = r] \/ new = Trimmed([map EXCEPT ![i] = r])
  PROVE  /\ DOMAIN new \subseteq DOMAIN map
         /\ i \in DOMAIN new => new[i] = r
         /\ \A j \in DOMAIN new \ {i} : new[j] = map[j]
<1>. DEFINE more == [map EXCEPT ![i] = r]
<1>1. /\ DOMAIN more = DOMAIN map /\ more[i] = r
      /\ \A j \in DOMAIN map \ {i} : more[j] = map[j]
  OBVIOUS
<1>. HIDE DEF more
<1>2. /\ DOMAIN Trimmed(more) \subseteq DOMAIN more
      /\ \A j \in DOMAIN Trimmed(more) : Trimmed(more)[j] = more[j]
  BY TrimmedKeeps
<1>3. new = more \/ new = Trimmed(more)
  BY DEF more
<1>. QED
  BY <1>1, <1>2, <1>3

LEMMA StartSyncPlaces ==
  ASSUME PlacesInv, NEW d, NEW u, StartSync(d, u)
  PROVE  SyncPlaces'
<1>1. CASE UNCHANGED <<syncs, waiting>>
  <2>1. walker' = walker
    BY DEF StartSync
  <2>. QED
    BY <1>1, <2>1, PlacesUnchanged DEF PlacesInv
<1>2. CASE ~UNCHANGED <<syncs, waiting>>
  <2>. DEFINE i == next.sync
  <2>1. /\ walker' = walker /\ waiting' = Append(waiting, i)
        /\ \E r : syncs' = Trimmed(With(syncs, i, r))
    BY <1>2 DEF StartSync
  <2>2. /\ i \in Nat /\ i \notin Numbers(i) /\ waiting \in Seq(Numbers(i))
        /\ walker.at # "idle" => walker.id \in Numbers(i)
    BY DEF PlacesInv, TypesInv, Types, SyncTypes, WalkerTypes, CheckpointInv, Shapes, Numbered, Numbers
  <2>3. i \in Numbers(i + 1) /\ Numbers(i) \subseteq Numbers(i + 1)
    <3>1. i # 0
      BY DEF PlacesInv, TypesInv, Types, SyncTypes, SyncMap
    <3>. QED
      BY <2>2, <3>1 DEF Numbers
  <2>. HIDE DEF i
  <2>4. ~In(i, waiting)
    BY <2>2 DEF In
  <2>5. /\ \A x : In(x, waiting') <=> x = i \/ In(x, waiting)
        /\ NoTwice(waiting')
    <3>1. waiting \in Seq(Numbers(i + 1))
      BY <2>2, <2>3, RetypedQueue
    <3>. QED
      BY <2>1, <2>3, <2>4, <3>1, AppendedQueue DEF PlacesInv, SyncPlaces
  <2>6. \A j \in DOMAIN syncs' : j = i \/ (j \in DOMAIN syncs /\ syncs'[j] = syncs[j])
    BY <2>1, TrimmedWith
  <2>7. Stepping => walker.id # i
    BY <2>2 DEF Stepping
  <2>. QED
    BY <2>1, <2>5, <2>6, <2>7 DEF PlacesInv, SyncPlaces, Stepping
<1>. QED
  BY <1>1, <1>2

LEMMA CancelSyncPlaces ==
  ASSUME PlacesInv, NEW i \in DOMAIN syncs, CancelSync(i)
  PROVE  SyncPlaces'
<1>. DEFINE r == [syncs[i] EXCEPT !.status = "cancelled", !.at = now]
<1>1. syncs' = [syncs EXCEPT ![i] = r] /\ waiting' = Others(waiting, i) /\ walker' = walker
  BY DEF CancelSync
<1>2. syncs[i] \in SyncState /\ waiting \in Seq(Numbers(next.sync))
  BY DEF PlacesInv, TypesInv, Types, SyncTypes, SyncMap, Typed
<1>3. r.status \notin Live
  BY <1>2 DEF SyncState, Live
<1>. HIDE DEF r
<1>4. /\ DOMAIN syncs' = DOMAIN syncs /\ syncs'[i] = r
      /\ \A j \in DOMAIN syncs \ {i} : syncs'[j] = syncs[j]
  BY <1>1
<1>5. /\ \A x : In(x, waiting') <=> x # i /\ In(x, waiting)
      /\ NoTwice(waiting')
  BY <1>1, <1>2, OthersQueue DEF PlacesInv, SyncPlaces
<1>. QED
  BY <1>1, <1>3, <1>4, <1>5 DEF PlacesInv, SyncPlaces, Stepping

(* A step of the historical worker changes no sync but its own.               *)
OwnOnly ==
  \/ syncs' = syncs
  \/ /\ walker.id \in DOMAIN syncs
     /\ \E r : \/ syncs' = [syncs EXCEPT ![walker.id] = r]
              \/ syncs' = Trimmed([syncs EXCEPT ![walker.id] = r])

LEMMA OwnOnlyMeans ==
  ASSUME OwnOnly
  PROVE  \A j \in DOMAIN syncs' : j \in DOMAIN syncs /\ (j # walker.id => syncs'[j] = syncs[j])
<1>. DEFINE i == walker.id
<1>. HIDE DEF i
<1>1. CASE syncs' = syncs
  BY <1>1
<1>2. ASSUME i \in DOMAIN syncs, NEW r,
             syncs' = [syncs EXCEPT ![i] = r] \/ syncs' = Trimmed([syncs EXCEPT ![i] = r])
      PROVE  \A j \in DOMAIN syncs' : j \in DOMAIN syncs /\ (j # i => syncs'[j] = syncs[j])
  <2>1. DOMAIN syncs' \subseteq DOMAIN syncs /\ \A j \in DOMAIN syncs' \ {i} : syncs'[j] = syncs[j]
    BY ONLY <1>2, OneSyncChanges
  <2>. QED
    BY <2>1
<1>. QED
  BY <1>1, <1>2 DEF OwnOnly, i

(* The worker goes on with the sync it holds.                                 *)
LEMMA HoldingOn ==
  ASSUME PlacesInv, walker.at \notin {"idle", "report", "record", "profile"},
         walker'.id = walker.id, walker'.at \notin {"idle", "report", "record", "profile"},
         Stepping' => Stepping, waiting' = waiting, OwnOnly
  PROVE  SyncPlaces'
BY OwnOnlyMeans DEF PlacesInv, SyncPlaces, Held, Stepping

(* The worker lets go of a sync that is not live, or waits.                   *)
LEMMA LettingGo ==
  ASSUME PlacesInv, ~Stepping', waiting' = waiting, OwnOnly,
         walker.id \in DOMAIN syncs' /\ syncs'[walker.id].status \in Live => In(walker.id, waiting)
  PROVE  SyncPlaces'
BY OwnOnlyMeans DEF PlacesInv, SyncPlaces, Held, Stepping

LEMMA PopPlaces ==
  ASSUME PlacesInv, PopSync
  PROVE  SyncPlaces'
<1>. DEFINE i == Head(waiting)
<1>1. /\ walker.at = "idle" /\ waiting # <<>> /\ walker' = [at |-> "begin", id |-> i]
      /\ waiting' = Tail(waiting) /\ syncs' = syncs
  BY DEF PopSync, w
<1>2. waiting \in Seq(Numbers(next.sync)) /\ NoTwice(waiting)
  BY DEF PlacesInv, TypesInv, Types, SyncTypes, SyncPlaces
<1>3. /\ \A x : In(x, waiting) <=> x = i \/ In(x, waiting')
      /\ NoTwice(waiting') /\ ~In(i, waiting')
  BY <1>1, <1>2, PoppedQueue
<1>. HIDE DEF i
<1>. QED
  BY <1>1, <1>3 DEF PlacesInv, SyncPlaces, Held, Stepping

LEMMA BeginPlaces ==
  ASSUME PlacesInv, BeginStep
  PROVE  SyncPlaces'
<1>. DEFINE i == walker.id
            r == [syncs[i] EXCEPT !.status = "running", !.at = now]
<1>1. walker.at = "begin" /\ waiting' = waiting
  BY DEF BeginStep, w
<1>2. CASE i \notin DOMAIN syncs \/ syncs[i].status = "cancelled"
  <2>1. walker' = Idle /\ syncs' = syncs
    BY <1>2 DEF BeginStep, w
  <2>2. ~Stepping' /\ OwnOnly
    BY <2>1 DEF Idle, Stepping, OwnOnly
  <2>. QED
    BY <1>1, <1>2, <2>1, <2>2, LettingGo DEF Live
<1>3. CASE i \in DOMAIN syncs /\ syncs[i].status # "cancelled"
  <2>1. /\ syncs' = [syncs EXCEPT ![i] = r]
        /\ walker' = [at |-> IF r.discovered THEN "next" ELSE "discover", id |-> i,
                      sync |-> r, months |-> <<>>, month |-> 0, page |-> {}, end |-> "running"]
    BY <1>3 DEF BeginStep, w
  <2>. HIDE DEF r
  <2>2. OwnOnly
    BY <1>3, <2>1 DEF OwnOnly
  <2>3. walker'.id = i /\ walker'.at \in {"next", "discover"}
    BY <2>1
  <2>. QED
    BY <1>1, <2>2, <2>3, HoldingOn DEF Stepping
<1>. QED
  BY <1>2, <1>3

LEMMA FetchingPlaces ==
  ASSUME PlacesInv, ~Terminates,
         \/ DiscoverMonths \/ ListMonths \/ NextMonth \/ FetchMonth
         \/ AddMonth \/ IndexMonth \/ MarkMonth
  PROVE  SyncPlaces'
<1>. DEFINE i == walker.id
<1>1. /\ walker.at \in {"discover", "list", "next", "fetch", "add", "index", "mark"}
      /\ waiting' = waiting
  BY DEF DiscoverMonths, ListMonths, NextMonth, FetchMonth, AddMonth, IndexMonth, MarkMonth, Kept, w
<1>2. DOMAIN walker = WalkerFields
  BY <1>1, OwnSync DEF PlacesInv, Walking
<1>3. /\ walker'.id = i
      /\ walker'.at \in {"list", "next", "fetch", "add", "index", "mark", "progress", "finish"}
  BY <1>2 DEF DiscoverMonths, ListMonths, NextMonth, FetchMonth, AddMonth, IndexMonth, MarkMonth,
              Abandoned, Steps, Ending, WalkerFields, w
<1>4. OwnOnly
  <2>1. CASE ListMonths
    <3>1. i \in DOMAIN syncs
      BY <2>1 DEF ListMonths, w
    <3>2. syncs' = [syncs EXCEPT ![i] = [syncs[i] EXCEPT !.archives = walker.months, !.discovered = TRUE]]
      BY <2>1 DEF ListMonths, w
    <3>. QED
      BY <3>1, <3>2 DEF OwnOnly
  <2>2. CASE NextMonth
    <3>1. i \in DOMAIN syncs
      BY <2>2 DEF NextMonth, w
    <3>2. syncs' = syncs \/ syncs' = [syncs EXCEPT ![i] = [syncs[i] EXCEPT !.taken = syncs[i].taken + 1]]
      BY <2>2 DEF NextMonth, w
    <3>. QED
      BY <3>1, <3>2 DEF OwnOnly
  <2>3. CASE FetchMonth
    <3>1. \/ syncs' = syncs
          \/ /\ i \in DOMAIN syncs
             /\ syncs' = [syncs EXCEPT ![i] = [syncs[i] EXCEPT !.skipped = @ \cup {walker.month}]]
      BY <2>3 DEF FetchMonth, w
    <3>. QED
      BY <3>1 DEF OwnOnly
  <2>4. CASE DiscoverMonths \/ AddMonth \/ IndexMonth \/ MarkMonth
    BY <2>4 DEF DiscoverMonths, AddMonth, IndexMonth, MarkMonth, Kept, OwnOnly
  <2>. QED
    BY <2>1, <2>2, <2>3, <2>4
<1>. QED
  BY <1>1, <1>3, <1>4, HoldingOn DEF Stepping

LEMMA ProgressPlaces ==
  ASSUME PlacesInv, ~Terminates, Progress
  PROVE  SyncPlaces'
<1>. DEFINE i == walker.id
            r == [syncs[i] EXCEPT !.status = "running", !.at = now]
<1>1. walker.at = "progress" /\ i \in DOMAIN syncs
  BY DEF Progress, w
<1>2. CASE syncs[i].status = "cancelled"
  <2>1. walker' = Idle /\ syncs' = syncs /\ waiting' = waiting
    BY <1>1, <1>2 DEF Progress, Kept, w
  <2>2. ~Stepping' /\ OwnOnly
    BY <2>1 DEF Idle, Stepping, OwnOnly
  <2>. QED
    BY <1>1, <1>2, <2>1, <2>2, LettingGo DEF Live
<1>3. CASE syncs[i].status # "cancelled"
  <2>1. /\ syncs' = [syncs EXCEPT ![i] = r] /\ waiting' = Append(waiting, i)
        /\ walker' = [walker EXCEPT !.at = "report", !.sync = r]
    BY <1>1, <1>3 DEF Progress, w
  <2>2. /\ waiting \in Seq(Numbers(next.sync)) /\ NoTwice(waiting) /\ ~In(i, waiting)
        /\ i \in Numbers(next.sync) /\ DOMAIN walker = WalkerFields
    BY <1>1, OwnSync DEF PlacesInv, TypesInv, Types, SyncTypes, SyncPlaces, Stepping, Walking
  <2>. HIDE DEF r
  <2>3. walker'.at = "report"
    BY <2>1, <2>2 DEF WalkerFields
  <2>4. OwnOnly
    BY <1>1, <2>1 DEF OwnOnly
  <2>5. \A j \in DOMAIN syncs' : j \in DOMAIN syncs /\ (j # i => syncs'[j] = syncs[j])
    BY <2>4, OwnOnlyMeans
  <2>. HIDE DEF i
  <2>6. /\ \A x : In(x, waiting') <=> x = i \/ In(x, waiting)
        /\ NoTwice(waiting')
    BY <2>1, <2>2, AppendedQueue
  <2>. QED
    BY <2>3, <2>5, <2>6 DEF PlacesInv, SyncPlaces, Held, Stepping, i
<1>. QED
  BY <1>2, <1>3

LEMMA EndingPlaces ==
  ASSUME PlacesInv, ~Terminates, Report \/ Finish \/ RecordEnd \/ UpdateProfile
  PROVE  SyncPlaces'
<1>. DEFINE i == walker.id
<1>1. /\ walker.at \in {"report", "finish", "record", "profile"} /\ waiting' = waiting
      /\ DOMAIN walker = WalkerFields
  <2>1. walker.at \in {"report", "finish", "record", "profile"} /\ waiting' = waiting
    BY DEF Report, Finish, RecordEnd, UpdateProfile, Kept, w
  <2>. QED
    BY <2>1, OwnSync DEF PlacesInv, Walking
<1>2. ~Stepping'
  <2>1. \/ walker' = Idle \/ \E at \in {"profile"} : walker' = [walker EXCEPT !.at = at]
        \/ \E r : walker' = [walker EXCEPT !.at = "record", !.sync = r]
        \/ walker' = [walker EXCEPT !.at = "finish", !.end = "failed"]
    BY DEF Report, Finish, RecordEnd, UpdateProfile, RecordFails, Steps, Ending, w
  <2>2. walker'.at \in {"idle", "profile", "record", "finish"}
    <3>1. "at" \in DOMAIN walker /\ Idle.at = "idle"
      BY <1>1 DEF WalkerFields, Idle
    <3>2. CASE \E r : walker' = [walker EXCEPT !.at = "record", !.sync = r]
      BY <3>1, <3>2
    <3>. QED
      BY <2>1, <3>1, <3>2
  <2>. QED
    BY <2>2 DEF Stepping
<1>3. CASE Report \/ RecordEnd \/ UpdateProfile
  <2>1. syncs' = syncs /\ walker.at \in {"report", "record", "profile"}
    BY <1>3 DEF Report, RecordEnd, UpdateProfile, Kept, w
  <2>2. i \in DOMAIN syncs' /\ syncs'[i].status \in Live => In(i, waiting)
    BY <2>1 DEF PlacesInv, SyncPlaces
  <2>. QED
    BY <1>1, <1>2, <2>1, <2>2, LettingGo DEF OwnOnly
<1>4. CASE Finish
  <2>. DEFINE r == [syncs[i] EXCEPT !.status = Settled(@, walker.end), !.at = now]
  <2>1. \/ syncs' = syncs /\ i \notin DOMAIN syncs
        \/ i \in DOMAIN syncs /\ syncs' = Trimmed([syncs EXCEPT ![i] = r])
    BY <1>4 DEF Finish, w
  <2>2. i \in DOMAIN syncs => r.status \notin Live
    <3>1. walker.end \in SyncEnds /\ (i \in DOMAIN syncs => syncs[i] \in SyncState)
      BY <1>4 DEF Finish, w, PlacesInv, TypesInv, Types, SyncTypes, WalkerTypes, SyncMap, Typed
    <3>. QED
      BY <3>1 DEF SyncState, SyncEnds, Live, Settled
  <2>. HIDE DEF r
  <2>3. OwnOnly
    BY <2>1 DEF OwnOnly
  <2>4. i \in DOMAIN syncs' => i \in DOMAIN syncs /\ syncs'[i] = r
    <3>. HIDE DEF i
    <3>1. CASE i \in DOMAIN syncs
      BY <2>1, <3>1, OneSyncChanges
    <3>. QED
      BY <2>1, <3>1
  <2>. QED
    BY <1>1, <1>2, <2>2, <2>3, <2>4, LettingGo
<1>. QED
  BY <1>3, <1>4

LEMMA WalksKeepPlaces ==
  ASSUME PlacesInv, Walks
  PROVE  SyncPlaces'
<1>1. CASE Terminates
  BY <1>1, PlacesReset DEF Terminates, Blank
<1>. QED
  BY <1>1, PopPlaces, BeginPlaces, FetchingPlaces, ProgressPlaces, EndingPlaces DEF Walks

LEMMA StepKeepsPlaces ==
  ASSUME PlacesInv, [Next]_vars
  PROVE  PlacesInv'
<1>1. TypesInv'
  BY StepKeepsTypes DEF PlacesInv
<1>2. SyncPlaces'
  <2>1. SyncPlaces
    BY DEF PlacesInv
  <2>2. ASSUME NEW u, ConfigureProfile(u) PROVE SyncPlaces'
    BY <2>1, <2>2, PlacesUnchanged DEF ConfigureProfile, memory
  <2>3. ASSUME NEW g, NEW u, Resolve(g, u) PROVE SyncPlaces'
    BY <2>1, <2>3, PlacesUnchanged DEF Resolve
  <2>4. ASSUME NEW g, NEW u, ImportUrl(g, u) PROVE SyncPlaces'
    BY <2>1, <2>4, PlacesUnchanged DEF ImportUrl, memory
  <2>5. ASSUME NEW i, CancelResolution(i) PROVE SyncPlaces'
    BY <2>1, <2>5, PlacesUnchanged DEF CancelResolution
  <2>6. ASSUME NEW s, RecordCancelled(s) PROVE SyncPlaces'
    BY <2>1, <2>6, PlacesUnchanged DEF RecordCancelled
  <2>7. CASE Tick \/ Shutdown \/ UNCHANGED vars
    BY <2>1, <2>7, PlacesUnchanged DEF Tick, Shutdown, vars, memory
  <2>8. CASE Crash \/ Leave
    BY <2>8, PlacesReset DEF Crash, Leave, Blank
  <2>9. CASE Finds
    <3>1. CASE Terminates
      BY <3>1, PlacesReset DEF Terminates, Blank
    <3>. QED
      BY <2>1, <2>9, <3>1, FindsKeepSyncs, PlacesUnchanged
  <2>10. ASSUME NEW u, Start(u) PROVE SyncPlaces'
    <3>. DEFINE first == <<1>>
    <3>1. walker' = Idle /\ Idle.at = "idle"
      BY <2>10 DEF Start, Blank, Idle
    <3>2. CASE syncs' = <<>> /\ waiting' = <<>>
      BY <3>1, <3>2, PlacesReset
    <3>3. ASSUME NEW s, syncs' = <<s>>, waiting' = first PROVE SyncPlaces'
      <4>1. DOMAIN <<s>> = {1} /\ DOMAIN first = {1} /\ first[1] = 1
        OBVIOUS
      <4>2. NoTwice(waiting') /\ In(1, waiting')
        BY <3>3, <4>1 DEF NoTwice, In
      <4>. QED
        BY <3>1, <3>3, <4>1, <4>2 DEF SyncPlaces, Stepping
    <3>4. (syncs' = <<>> /\ waiting' = <<>>) \/ (\E s : syncs' = <<s>> /\ waiting' = first)
      BY <2>10 DEF Start
    <3>. QED
      BY <3>2, <3>3, <3>4
  <2>. QED
    BY <2>2, <2>3, <2>4, <2>5, <2>6, <2>7, <2>8, <2>9, <2>10, StartSyncPlaces, CancelSyncPlaces,
       WalksKeepPlaces DEF Next, PlacesInv
<1>. QED
  BY <1>1, <1>2 DEF PlacesInv

LEMMA PlacesInit == Init => PlacesInv
<1>. SUFFICES ASSUME Init PROVE PlacesInv
  OBVIOUS
<1>1. DOMAIN <<>> = {} /\ Idle.at = "idle" /\ walker = Idle /\ syncs = <<>> /\ waiting = <<>>
  BY DEF Init, Idle
<1>2. SyncPlaces
  BY <1>1, EmptyQueue DEF SyncPlaces, Stepping
<1>. QED
  BY <1>2, TypesInit DEF PlacesInv

-----------------------------------------------------------------------------
(* What a client was told is under way is never forgotten: a live resolution  *)
(* waits once or is in the hands of its worker, never both, a live sync waits *)
(* once or is in the hands of its own, and a URL taken for being resolved is. *)
THEOREM NothingIsForgotten == Spec => []NothingForgotten
<1>1. Init => PlacesInv
  BY PlacesInit
<1>2. PlacesInv /\ [Next]_vars => PlacesInv'
  BY StepKeepsPlaces
<1>3. PlacesInv => NothingForgotten
  <2>. SUFFICES ASSUME PlacesInv PROVE NothingForgotten
    OBVIOUS
  <2>1. NoTwice(asked) /\ NoTwice(waiting)
    BY DEF PlacesInv, SyncPlaces, TypesInv, ResolutionInv, ResolutionPlaces
  <2>2. /\ \A i : Once(asked, i) <=> In(i, asked)
        /\ \A i : Once(waiting, i) <=> In(i, waiting)
    BY <2>1, OnceMeans
  <2>3. ASSUME NEW i \in DOMAIN resolutions, resolutions[i].status \in Live
        PROVE  Once(asked, i) # Held(finder, i)
    <3>1. In(i, asked) <=> ~Held(finder, i)
      BY <2>3 DEF PlacesInv, TypesInv, ResolutionInv, ResolutionPlaces, Finding, Held, Live
    <3>2. Once(asked, i) \in BOOLEAN /\ Held(finder, i) \in BOOLEAN
      BY DEF Once, Held
    <3>. QED
      BY <2>2, <3>1, <3>2, Zenon
  <2>4. \A i \in DOMAIN syncs :
          syncs[i].status \in Live => Once(waiting, i) \/ Held(walker, i)
    BY <2>2 DEF PlacesInv, SyncPlaces
  <2>5. \A g \in DOMAIN active :
          /\ active[g] \in DOMAIN resolutions
          /\ resolutions[active[g]].game = g /\ resolutions[active[g]].status \in Live
    BY DEF PlacesInv, TypesInv, ResolutionInv, ResolutionPlaces
  <2>. QED
    BY <2>3, <2>4, <2>5 DEF NothingForgotten
<1>. QED
  BY <1>1, <1>2, <1>3, PTL DEF Spec

-----------------------------------------------------------------------------
(* What a sync has read: of each of its first n months, every due game is     *)
(* stored, unless an earlier checkpoint let the sync skip the month.          *)
SameSync(s, t) == s.user = t.user /\ s.days = t.days /\ s.upper = t.upper
Read(s, n, r) ==
  \A k \in 1..n : \/ s.archives[k] \in s.skipped
                  \/ /\ Due(s, s.archives[k]) \subseteq r.archive
                     /\ Due(s, s.archives[k]) \subseteq r.games

Window(s, waits, r) ==
  /\ s.taken <= Len(s.archives)
  /\ ~s.discovered => s.taken = 0
  /\ waits => Read(s, s.taken, r)
  /\ s.status = "succeeded" => Read(s, Len(s.archives), r)

(* What the worker v knows of its sync s; a month is taken before it is read. *)
Reading == {"fetch", "add", "index", "mark"}
Standing == {"begin", "discover", "list", "next", "progress"}
HeldWindow(v, s, r) ==
  /\ v.at \in (Standing \cup Reading) \ {"begin"} => SameSync(s, v.sync) /\ s.status # "succeeded"
  /\ (v.at \in {"discover", "list"} => ~s.discovered) /\ (v.at = "next" => s.discovered)
  /\ v.at \in Standing => Read(s, s.taken, r)
  /\ v.at \in Reading => /\ s.taken \in 1..Len(s.archives) /\ s.archives[s.taken] = v.month
                         /\ Read(s, s.taken - 1, r)
  /\ v.at = "finish" /\ v.end = "succeeded" => Read(s, Len(s.archives), r)

Windows ==
  /\ \A i \in DOMAIN syncs : Window(syncs[i], In(i, waiting), store)
  /\ walker.at # "idle" /\ walker.id \in DOMAIN syncs => HeldWindow(walker, syncs[walker.id], store)
WindowsInv == PlacesInv /\ Windows

Holds(r, q) == r.games \subseteq q.games /\ r.archive \subseteq q.archive

LEMMA SameDue ==
  ASSUME NEW s, NEW t, SameSync(s, t), NEW m
  PROVE  Due(s, m) = Due(t, m)
BY DEF SameSync, Due, InWindow, Low

LEMMA ReadKept ==
  ASSUME NEW s, NEW t, SameSync(s, t), t.archives = s.archives, s.skipped \subseteq t.skipped,
         NEW r, NEW q, Holds(r, q), NEW n, Read(s, n, r)
  PROVE  Read(t, n, q)
<1>1. \A m : Due(t, m) = Due(s, m)
  BY SameDue
<1>. QED
  BY <1>1 DEF Read, Holds

LEMMA WindowKept ==
  ASSUME NEW s, NEW r, NEW q, Holds(r, q), NEW waits, NEW waits2, waits2 => waits,
         Window(s, waits, r)
  PROVE  Window(s, waits2, q)
<1>1. \A n : Read(s, n, r) => Read(s, n, q)
  BY ReadKept DEF SameSync
<1>. QED
  BY <1>1 DEF Window

LEMMA HeldWindowKept ==
  ASSUME NEW v, NEW s, NEW r, NEW q, Holds(r, q), HeldWindow(v, s, r)
  PROVE  HeldWindow(v, s, q)
<1>1. \A n : Read(s, n, r) => Read(s, n, q)
  BY ReadKept DEF SameSync
<1>. QED
  BY <1>1 DEF HeldWindow

LEMMA NotWaiting ==
  ASSUME NEW s, NEW r, Window(s, FALSE, r), NEW waits, ~waits
  PROVE  Window(s, waits, r)
BY DEF Window

LEMMA NothingRead ==
  ASSUME NEW s, NEW r
  PROVE  Read(s, 0, r)
BY DEF Read

LEMMA WindowsUnchanged ==
  ASSUME Windows, Holds(store, store'), UNCHANGED <<syncs, waiting, walker>>
  PROVE  Windows'
<1>1. \A i \in DOMAIN syncs : Window(syncs[i], In(i, waiting), store')
  BY WindowKept DEF Windows
<1>2. walker.at # "idle" /\ walker.id \in DOMAIN syncs => HeldWindow(walker, syncs[walker.id], store')
  BY HeldWindowKept DEF Windows
<1>. QED
  BY <1>1, <1>2 DEF Windows

LEMMA WindowsReset ==
  ASSUME syncs' = <<>>, walker' = Idle
  PROVE  Windows'
<1>1. DOMAIN <<>> = {} /\ Idle.at = "idle"
  BY DEF Idle
<1>. QED
  BY <1>1 DEF Windows

(* Nothing is read of a sync that has just been started.                      *)
Fresh(s) == s.taken = 0 /\ s.archives = <<>> /\ s.status = "queued"

LEMMA FreshWindow ==
  ASSUME NEW s, Fresh(s), NEW waits, NEW r
  PROVE  Window(s, waits, r)
<1>1. Len(<<>>) = 0 /\ Read(s, 0, r)
  BY NothingRead
<1>. QED
  BY <1>1 DEF Fresh, Window

LEMMA StartSyncWindows ==
  ASSUME WindowsInv, Holds(store, store'), NEW d, NEW u, StartSync(d, u)
  PROVE  Windows'
<1>1. CASE UNCHANGED <<syncs, waiting>>
  <2>1. walker' = walker
    BY DEF StartSync
  <2>. QED
    BY <1>1, <2>1, WindowsUnchanged DEF WindowsInv
<1>2. CASE ~UNCHANGED <<syncs, waiting>>
  <2>. DEFINE i == next.sync
  <2>1. /\ walker' = walker /\ waiting' = Append(waiting, i)
        /\ \E r : Fresh(r) /\ syncs' = Trimmed(With(syncs, i, r))
    BY <1>2 DEF StartSync, Fresh
  <2>2. /\ i \in Nat /\ i \notin Numbers(i) /\ waiting \in Seq(Numbers(i))
        /\ walker.at # "idle" => walker.id \in Numbers(i)
    BY DEF WindowsInv, PlacesInv, TypesInv, Types, SyncTypes, WalkerTypes, CheckpointInv, Shapes,
           Numbered, Numbers
  <2>3. i \in Numbers(i + 1) /\ Numbers(i) \subseteq Numbers(i + 1)
    <3>1. i # 0
      BY DEF WindowsInv, PlacesInv, TypesInv, Types, SyncTypes, SyncMap
    <3>. QED
      BY <2>2, <3>1 DEF Numbers
  <2>. HIDE DEF i
  <2>4. \A x : In(x, waiting') <=> x = i \/ In(x, waiting)
    <3>1. waiting \in Seq(Numbers(i + 1))
      BY <2>2, <2>3, RetypedQueue
    <3>. QED
      BY <2>1, <2>3, <3>1, AppendedQueue
  <2>5. PICK r : Fresh(r) /\ syncs' = Trimmed(With(syncs, i, r))
    BY <2>1
  <2>6. /\ DOMAIN syncs' \subseteq DOMAIN syncs \cup {i}
        /\ i \in DOMAIN syncs' => syncs'[i] = r
        /\ \A j \in DOMAIN syncs' \ {i} : syncs'[j] = syncs[j]
    BY ONLY <2>5, TrimmedWith
  <2>7. \A j \in DOMAIN syncs' : Window(syncs'[j], In(j, waiting'), store')
    <3>1. ASSUME NEW j \in DOMAIN syncs', j # i
          PROVE  Window(syncs'[j], In(j, waiting'), store')
      <4>1. /\ Window(syncs[j], In(j, waiting), store) /\ syncs'[j] = syncs[j]
            /\ In(j, waiting') => In(j, waiting)
        BY <2>4, <2>6, <3>1 DEF WindowsInv, Windows
      <4>. QED
        BY <4>1, WindowKept
    <3>2. i \in DOMAIN syncs' => Window(syncs'[i], In(i, waiting'), store')
      BY <2>5, <2>6, FreshWindow
    <3>. QED
      BY <3>1, <3>2
  <2>8. walker.at # "idle" /\ walker.id \in DOMAIN syncs' => HeldWindow(walker, syncs'[walker.id], store')
    <3>1. ASSUME walker.at # "idle", walker.id \in DOMAIN syncs'
          PROVE  HeldWindow(walker, syncs'[walker.id], store')
      <4>1. walker.id # i /\ walker.id \in DOMAIN syncs /\ syncs'[walker.id] = syncs[walker.id]
        BY <2>2, <2>6, <3>1
      <4>2. HeldWindow(walker, syncs[walker.id], store)
        BY <3>1, <4>1 DEF WindowsInv, Windows
      <4>. QED
        BY <4>1, <4>2, HeldWindowKept
    <3>. QED
      BY <3>1
  <2>. QED
    BY <2>1, <2>7, <2>8 DEF Windows
<1>. QED
  BY <1>1, <1>2

(* A sync that takes another state than "succeeded" has read as much.         *)
Restated(s, t) ==
  /\ SameSync(s, t) /\ t.archives = s.archives /\ t.skipped = s.skipped /\ t.taken = s.taken
  /\ t.discovered = s.discovered /\ t.status # "succeeded"

LEMMA RestatedWindow ==
  ASSUME NEW s, NEW t, Restated(s, t), NEW r
  PROVE  /\ \A n : Read(s, n, r) <=> Read(t, n, r)
         /\ \A waits : Window(s, waits, r) => Window(t, waits, r)
         /\ \A v : HeldWindow(v, s, r) => HeldWindow(v, t, r)
<1>1. Holds(r, r) /\ SameSync(t, s)
  BY DEF Holds, Restated, SameSync
<1>2. \A n : Read(s, n, r) <=> Read(t, n, r)
  BY <1>1, ReadKept DEF Restated
<1>3. \A waits : Window(s, waits, r) => Window(t, waits, r)
  BY <1>2 DEF Window, Restated
<1>4. \A v : HeldWindow(v, s, r) => HeldWindow(v, t, r)
  BY <1>2 DEF HeldWindow, Restated, SameSync
<1>. QED
  BY <1>2, <1>3, <1>4

LEMMA Restates ==
  ASSUME NEW s \in SyncState, NEW status, NEW t, status # "succeeded"
  PROVE  Restated(s, [s EXCEPT !.status = status, !.at = t])
BY DEF SyncState, Restated, SameSync

LEMMA CancelSyncWindows ==
  ASSUME WindowsInv, Holds(store, store'), NEW i \in DOMAIN syncs, CancelSync(i)
  PROVE  Windows'
<1>. DEFINE r == [syncs[i] EXCEPT !.status = "cancelled", !.at = now]
<1>1. syncs' = [syncs EXCEPT ![i] = r] /\ waiting' = Others(waiting, i) /\ walker' = walker
  BY DEF CancelSync
<1>2. syncs[i] \in SyncState /\ waiting \in Seq(Numbers(next.sync))
  BY DEF WindowsInv, PlacesInv, TypesInv, Types, SyncTypes, SyncMap, Typed
<1>3. Restated(syncs[i], r)
  BY <1>2, Restates
<1>. HIDE DEF r
<1>4. /\ DOMAIN syncs' = DOMAIN syncs /\ syncs'[i] = r
      /\ \A j \in DOMAIN syncs \ {i} : syncs'[j] = syncs[j]
  BY <1>1
<1>5. \A x : In(x, waiting') => In(x, waiting)
  BY <1>1, <1>2, OthersQueue
<1>6. \A j \in DOMAIN syncs : Window(syncs[j], In(j, waiting'), store')
  BY <1>5, WindowKept DEF WindowsInv, Windows
<1>7. \A j \in DOMAIN syncs' : Window(syncs'[j], In(j, waiting'), store')
  BY <1>3, <1>4, <1>6, RestatedWindow
<1>8. ASSUME walker.at # "idle", walker.id \in DOMAIN syncs'
      PROVE  HeldWindow(walker, syncs'[walker.id], store')
  <2>1. HeldWindow(walker, syncs[walker.id], store')
    BY <1>4, <1>8, HeldWindowKept DEF WindowsInv, Windows
  <2>. QED
    BY <1>3, <1>4, <1>8, <2>1, RestatedWindow
<1>. QED
  BY <1>1, <1>7, <1>8 DEF Windows

(* A step of the worker leaves the other syncs as they are.                   *)
LEMMA OwnWindow ==
  ASSUME WindowsInv, Holds(store, store'), OwnOnly,
         \A x : In(x, waiting') => x = walker.id \/ In(x, waiting),
         walker.id \in DOMAIN syncs' => Window(syncs'[walker.id], In(walker.id, waiting'), store'),
         \/ walker'.at = "idle"
         \/ /\ walker'.id = walker.id
            /\ walker.id \in DOMAIN syncs' => HeldWindow(walker', syncs'[walker.id], store')
  PROVE  Windows'
<1>1. ASSUME NEW j \in DOMAIN syncs', j # walker.id
      PROVE  Window(syncs'[j], In(j, waiting'), store')
  <2>1. j \in DOMAIN syncs /\ syncs'[j] = syncs[j] /\ (In(j, waiting') => In(j, waiting))
    BY <1>1, OwnOnlyMeans
  <2>2. Window(syncs[j], In(j, waiting), store)
    BY <2>1 DEF WindowsInv, Windows
  <2>. QED
    BY <2>1, <2>2, WindowKept
<1>. QED
  BY <1>1 DEF Windows

(* The worker lets go of its sync, or ends it without having read it all.     *)
LEMMA ReleaseWindows ==
  ASSUME WindowsInv, Holds(store, store'), UNCHANGED <<syncs, waiting>>,
         \/ walker'.at = "idle"
         \/ /\ walker'.id = walker.id
            /\ walker'.at \in {"record", "profile"} \/ (walker'.at = "finish" /\ walker'.end # "succeeded")
  PROVE  Windows'
<1>1. \A i \in DOMAIN syncs : Window(syncs[i], In(i, waiting), store')
  BY WindowKept DEF WindowsInv, Windows
<1>2. walker'.at # "idle" /\ walker'.id \in DOMAIN syncs =>
        HeldWindow(walker', syncs[walker'.id], store')
  BY DEF HeldWindow, Standing, Reading
<1>. QED
  BY <1>1, <1>2 DEF Windows

LEMMA PopWindows ==
  ASSUME WindowsInv, Holds(store, store'), PopSync
  PROVE  Windows'
<1>. DEFINE i == Head(waiting)
<1>1. /\ waiting # <<>> /\ walker' = [at |-> "begin", id |-> i]
      /\ waiting' = Tail(waiting) /\ syncs' = syncs
  BY DEF PopSync
<1>2. waiting \in Seq(Numbers(next.sync))
  BY DEF WindowsInv, PlacesInv, TypesInv, Types, SyncTypes
<1>3. /\ \A x : In(x, waiting') => In(x, waiting)
      /\ In(i, waiting)
  BY <1>1, <1>2, PoppedQueue
<1>. HIDE DEF i
<1>4. \A j \in DOMAIN syncs : Window(syncs[j], In(j, waiting'), store')
  BY <1>3, WindowKept DEF WindowsInv, Windows
<1>5. i \in DOMAIN syncs => Read(syncs[i], syncs[i].taken, store')
  <2>1. i \in DOMAIN syncs => Read(syncs[i], syncs[i].taken, store)
    BY <1>3 DEF WindowsInv, Windows, Window
  <2>. QED
    BY <2>1, ReadKept DEF SameSync
<1>6. walker'.id \in DOMAIN syncs => HeldWindow(walker', syncs[walker'.id], store')
  BY <1>1, <1>5 DEF HeldWindow, Standing, Reading
<1>. QED
  BY <1>1, <1>4, <1>6 DEF Windows

LEMMA HeldSync ==
  ASSUME WindowsInv, Holds(store, store'), walker.at # "idle", walker.id \in DOMAIN syncs
  PROVE  /\ syncs[walker.id] \in SyncState
         /\ \A waits : (waits => In(walker.id, waiting)) => Window(syncs[walker.id], waits, store')
         /\ HeldWindow(walker, syncs[walker.id], store')
<1>1. syncs[walker.id] \in SyncState
  BY DEF WindowsInv, PlacesInv, TypesInv, Types, SyncTypes, SyncMap, Typed
<1>2. /\ Window(syncs[walker.id], In(walker.id, waiting), store)
      /\ HeldWindow(walker, syncs[walker.id], store)
  BY DEF WindowsInv, Windows
<1>3. \A waits : (waits => In(walker.id, waiting)) => Window(syncs[walker.id], waits, store')
  BY <1>2, WindowKept
<1>4. HeldWindow(walker, syncs[walker.id], store')
  BY <1>2, HeldWindowKept
<1>. QED
  BY <1>1, <1>3, <1>4

LEMMA BeginWindows ==
  ASSUME WindowsInv, Holds(store, store'), BeginStep
  PROVE  Windows'
<1>. DEFINE i == walker.id
            r == [syncs[i] EXCEPT !.status = "running", !.at = now]
<1>1. walker.at = "begin" /\ waiting' = waiting
  BY DEF BeginStep, w
<1>2. CASE i \notin DOMAIN syncs \/ syncs[i].status = "cancelled"
  <2>1. walker' = Idle /\ syncs' = syncs /\ Idle.at = "idle"
    BY <1>2 DEF BeginStep, w, Idle
  <2>. QED
    BY <1>1, <2>1, ReleaseWindows
<1>3. CASE i \in DOMAIN syncs /\ syncs[i].status # "cancelled"
  <2>1. /\ syncs' = [syncs EXCEPT ![i] = r]
        /\ walker' = [at |-> IF r.discovered THEN "next" ELSE "discover", id |-> i,
                      sync |-> r, months |-> <<>>, month |-> 0, page |-> {}, end |-> "running"]
    BY <1>3 DEF BeginStep, w
  <2>2. /\ syncs[i] \in SyncState /\ Window(syncs[i], In(i, waiting), store')
        /\ HeldWindow(walker, syncs[i], store')
    BY <1>1, <1>3, HeldSync
  <2>3. Restated(syncs[i], r)
    BY <2>2, Restates
  <2>4. r.status = "running" /\ SameSync(r, r)
    BY <2>2 DEF SyncState, SameSync
  <2>. HIDE DEF r
  <2>5. syncs'[i] = r /\ OwnOnly
    BY <1>3, <2>1 DEF OwnOnly
  <2>6. Window(r, In(i, waiting), store')
    BY <2>2, <2>3, RestatedWindow
  <2>7. Read(r, r.taken, store')
    <3>1. Read(syncs[i], syncs[i].taken, store')
      BY <1>1, <2>2 DEF HeldWindow, Standing
    <3>2. r.taken = syncs[i].taken
      BY <2>3 DEF Restated
    <3>. QED
      BY <2>3, <3>1, <3>2, RestatedWindow
  <2>8. HeldWindow(walker', r, store')
    BY <2>1, <2>4, <2>7 DEF HeldWindow, Standing, Reading
  <2>9. walker'.id = i
    BY <2>1
  <2>. QED
    BY <1>1, <2>5, <2>6, <2>8, <2>9, OwnWindow
<1>. QED
  BY <1>2, <1>3

LEMMA DiscoverWindows ==
  ASSUME WindowsInv, Holds(store, store'), DiscoverMonths
  PROVE  Windows'
<1>. DEFINE i == walker.id
<1>1. walker.at = "discover" /\ UNCHANGED <<syncs, waiting>>
  BY DEF DiscoverMonths, Kept, w
<1>2. DOMAIN walker = WalkerFields
  BY <1>1, OwnSync DEF WindowsInv, PlacesInv, Walking
<1>3. ASSUME NEW status \in {"cancelled", "failed"},
             walker' = [walker EXCEPT !.at = "finish", !.end = status]
      PROVE  Windows'
  <2>1. walker'.id = i /\ walker'.at = "finish" /\ walker'.end # "succeeded"
    BY <1>2, <1>3 DEF WalkerFields
  <2>. QED
    BY <1>1, <2>1, ReleaseWindows
<1>4. ASSUME NEW months, walker' = [walker EXCEPT !.at = "list", !.months = months]
      PROVE  Windows'
  <2>1. walker'.id = i /\ walker'.at = "list" /\ walker'.sync = walker.sync
    BY <1>2, <1>4 DEF WalkerFields
  <2>2. i \in DOMAIN syncs => /\ Window(syncs[i], In(i, waiting), store')
                              /\ HeldWindow(walker, syncs[i], store')
    BY <1>1, HeldSync
  <2>3. i \in DOMAIN syncs => HeldWindow(walker', syncs[i], store')
    BY <1>1, <2>1, <2>2 DEF HeldWindow, Standing, Reading
  <2>. QED
    BY <1>1, <2>1, <2>2, <2>3, OwnWindow DEF OwnOnly
<1>5. \/ \E status \in {"cancelled", "failed"} :
           walker' = [walker EXCEPT !.at = "finish", !.end = status]
      \/ \E months : walker' = [walker EXCEPT !.at = "list", !.months = months]
  BY DEF DiscoverMonths, Abandoned, Ending, w
<1>. QED
  BY <1>3, <1>4, <1>5

LEMMA ListWindows ==
  ASSUME WindowsInv, Holds(store, store'), ~Terminates, ListMonths
  PROVE  Windows'
<1>. DEFINE i == walker.id
            r == [syncs[i] EXCEPT !.archives = walker.months, !.discovered = TRUE]
<1>1. /\ walker.at = "list" /\ waiting' = waiting /\ i \in DOMAIN syncs
      /\ syncs' = [syncs EXCEPT ![i] = r] /\ walker' = [walker EXCEPT !.at = "next"]
  BY DEF ListMonths, Steps, w
<1>2. DOMAIN walker = WalkerFields /\ walker.months \in Seq(Months)
  BY <1>1, OwnSync DEF WindowsInv, PlacesInv, Walking
<1>3. /\ syncs[i] \in SyncState /\ Window(syncs[i], In(i, waiting), store')
      /\ HeldWindow(walker, syncs[i], store')
  BY <1>1, HeldSync
<1>4. /\ syncs[i].taken = 0 /\ syncs[i].status # "succeeded" /\ SameSync(syncs[i], walker.sync)
  BY <1>1, <1>3 DEF Window, HeldWindow, Standing
<1>5. /\ r.taken = 0 /\ r.status # "succeeded" /\ r.discovered = TRUE
      /\ r.archives = walker.months /\ SameSync(r, walker.sync)
  BY <1>3, <1>4 DEF SyncState, SameSync
<1>. HIDE DEF r
<1>6. syncs'[i] = r /\ OwnOnly
  BY <1>1 DEF OwnOnly
<1>7. Len(r.archives) \in Nat
  BY <1>2, <1>5, LenProperties
<1>8. Window(r, In(i, waiting), store')
  BY <1>5, <1>7, NothingRead DEF Window
<1>9. walker'.id = i /\ walker'.at = "next" /\ walker'.sync = walker.sync
  BY <1>1, <1>2 DEF WalkerFields
<1>10. HeldWindow(walker', r, store')
  BY <1>5, <1>9, NothingRead DEF HeldWindow, Standing, Reading
<1>. QED
  BY <1>1, <1>6, <1>8, <1>9, <1>10, OwnWindow

(* The worker ends a sync as succeeded when it has taken the whole list.      *)
LEMMA NextWindows ==
  ASSUME WindowsInv, Holds(store, store'), ~Terminates, NextMonth
  PROVE  Windows'
<1>. DEFINE i == walker.id
            s == syncs[i]
            r == [s EXCEPT !.taken = s.taken + 1]
<1>1. walker.at = "next" /\ waiting' = waiting /\ i \in DOMAIN syncs
  BY DEF NextMonth, w
<1>2. DOMAIN walker = WalkerFields
  BY <1>1, OwnSync DEF WindowsInv, PlacesInv, Walking
<1>3. /\ s \in SyncState /\ Window(s, In(i, waiting), store')
      /\ HeldWindow(walker, s, store')
  BY <1>1, HeldSync
<1>4. /\ SameSync(s, walker.sync) /\ s.status # "succeeded" /\ Read(s, s.taken, store')
      /\ s.taken \in Nat /\ Len(s.archives) \in Nat /\ s.taken <= Len(s.archives)
  <2>1. s.archives \in Seq(Months) /\ s.taken \in Nat
    BY <1>3 DEF SyncState
  <2>2. Len(s.archives) \in Nat
    BY <2>1, LenProperties
  <2>3. SameSync(s, walker.sync) /\ s.status # "succeeded" /\ Read(s, s.taken, store')
    BY <1>1, <1>3 DEF HeldWindow, Standing
  <2>. QED
    BY <1>3, <2>1, <2>2, <2>3 DEF Window
<1>5. ~In(i, waiting)
  BY <1>1 DEF WindowsInv, PlacesInv, SyncPlaces, Stepping
<1>6. CASE s.taken < Len(s.archives)
  <2>1. /\ syncs' = [syncs EXCEPT ![i] = r]
        /\ walker' = [walker EXCEPT !.at = "fetch", !.month = s.archives[s.taken + 1]]
    BY <1>1, <1>6 DEF NextMonth, w
  <2>2. /\ r.taken = s.taken + 1 /\ r.status # "succeeded" /\ r.archives = s.archives
        /\ r.skipped = s.skipped /\ SameSync(r, walker.sync) /\ SameSync(s, r)
        /\ r.discovered = s.discovered
    BY <1>3, <1>4 DEF SyncState, SameSync
  <2>3. s.discovered /\ \E k \in Nat : k = s.taken
    BY <1>1, <1>3, <1>4 DEF HeldWindow
  <2>. HIDE DEF r, s
  <2>4. syncs'[i] = r /\ OwnOnly
    BY <1>1, <2>1 DEF OwnOnly
  <2>5. Window(r, FALSE, store')
    BY <1>4, <1>6, <2>2, <2>3 DEF Window
  <2>6. /\ walker'.id = i /\ walker'.at = "fetch" /\ walker'.sync = walker.sync
        /\ walker'.month = s.archives[s.taken + 1]
    BY <1>2, <2>1 DEF WalkerFields
  <2>7. /\ r.taken \in 1..Len(r.archives) /\ r.archives[r.taken] = walker'.month
        /\ r.taken - 1 = s.taken
    BY <1>4, <1>6, <2>2, <2>6
  <2>8. Read(r, r.taken - 1, store')
    <3>1. Holds(store', store')
      BY DEF Holds
    <3>. QED
      BY <1>4, <2>2, <2>7, <3>1, ReadKept
  <2>9. HeldWindow(walker', r, store')
    BY <2>2, <2>6, <2>7, <2>8 DEF HeldWindow, Standing, Reading
  <2>10. Window(r, In(i, waiting), store')
    BY <1>5, <2>5, NotWaiting
  <2>. QED
    BY <1>1, <2>4, <2>6, <2>9, <2>10, OwnWindow
<1>7. CASE ~(s.taken < Len(s.archives))
  <2>1. syncs' = syncs /\ walker' = [walker EXCEPT !.at = "finish", !.end = "succeeded"]
    BY <1>1, <1>7 DEF NextMonth, Ending, w
  <2>2. walker'.id = i /\ walker'.at = "finish" /\ walker'.end = "succeeded"
    BY <1>2, <2>1 DEF WalkerFields
  <2>3. Read(s, Len(s.archives), store')
    <3>1. s.taken = Len(s.archives)
      BY <1>4, <1>7
    <3>. QED
      BY <1>4, <3>1
  <2>4. HeldWindow(walker', s, store')
    BY <2>2, <2>3 DEF HeldWindow, Standing, Reading
  <2>. QED
    BY <1>1, <1>3, <2>1, <2>2, <2>4, OwnWindow DEF OwnOnly
<1>. QED
  BY <1>6, <1>7

(* A month is read when its page is stored, or skipped.                       *)
LEMMA ReadOneMore ==
  ASSUME NEW s, NEW n \in Nat \ {0}, NEW r, Read(s, n - 1, r),
         \/ s.archives[n] \in s.skipped
         \/ Due(s, s.archives[n]) \subseteq r.archive /\ Due(s, s.archives[n]) \subseteq r.games
  PROVE  Read(s, n, r)
<1>1. \A k \in 1..n : k = n \/ k \in 1..(n - 1)
  OBVIOUS
<1>. QED
  BY <1>1 DEF Read

LEMMA FetchWindows ==
  ASSUME WindowsInv, Holds(store, store'), FetchMonth
  PROVE  Windows'
<1>. DEFINE i == walker.id
            s == syncs[i]
            r == [s EXCEPT !.skipped = @ \cup {walker.month}]
<1>1. walker.at = "fetch" /\ waiting' = waiting
  BY DEF FetchMonth, w
<1>2. DOMAIN walker = WalkerFields
  BY <1>1, OwnSync DEF WindowsInv, PlacesInv, Walking
<1>3. i \in DOMAIN syncs => /\ s \in SyncState /\ Window(s, In(i, waiting), store')
                            /\ HeldWindow(walker, s, store')
  BY <1>1, HeldSync
<1>4. ~In(i, waiting)
  BY <1>1 DEF WindowsInv, PlacesInv, SyncPlaces, Stepping
<1>5. CASE Skips(walker.sync, walker.month)
  <2>1. /\ walker' = [walker EXCEPT !.at = "progress"]
        /\ i \in DOMAIN syncs => syncs' = [syncs EXCEPT ![i] = r]
        /\ i \notin DOMAIN syncs => syncs' = syncs
    BY <1>1, <1>5 DEF FetchMonth, Steps, w
  <2>2. walker'.id = i /\ walker'.at = "progress" /\ walker'.sync = walker.sync
    BY <1>2, <2>1 DEF WalkerFields
  <2>3. OwnOnly
    <3>. HIDE DEF r
    <3>. QED
      BY <2>1 DEF OwnOnly
  <2>4. ASSUME i \in DOMAIN syncs
        PROVE  syncs'[i] = r /\ Window(r, In(i, waiting), store') /\ HeldWindow(walker', r, store')
    <3>1. /\ SameSync(s, walker.sync) /\ s.status # "succeeded" /\ s.taken \in 1..Len(s.archives)
          /\ s.archives[s.taken] = walker.month /\ Read(s, s.taken - 1, store')
          /\ s.taken <= Len(s.archives) /\ (~s.discovered => s.taken = 0)
      BY <1>1, <1>3, <2>4 DEF HeldWindow, Window, Standing, Reading
    <3>2. /\ r.taken = s.taken /\ r.status = s.status /\ r.archives = s.archives
          /\ r.skipped = s.skipped \cup {walker.month} /\ SameSync(r, walker.sync) /\ SameSync(s, r)
          /\ r.discovered = s.discovered
      BY <1>3, <2>4, <3>1 DEF SyncState, SameSync
    <3>3. syncs'[i] = r
      BY <2>1, <2>4
    <3>. HIDE DEF r, s
    <3>4. s.taken \in Nat \ {0}
      <4>1. s.archives \in Seq(Months) /\ s.taken \in Nat
        BY <1>3, <2>4 DEF SyncState
      <4>. QED
        BY <3>1, <4>1
    <3>5. Read(r, r.taken - 1, store')
      <4>1. Holds(store', store')
        BY DEF Holds
      <4>. QED
        BY <3>1, <3>2, <4>1, ReadKept
    <3>6. Read(r, r.taken, store')
      BY <3>1, <3>2, <3>4, <3>5, ReadOneMore
    <3>7. Window(r, In(i, waiting), store')
      <4>1. Window(r, FALSE, store')
        BY <3>1, <3>2 DEF Window
      <4>. QED
        BY <1>4, <4>1, NotWaiting
    <3>8. HeldWindow(walker', r, store')
      BY <2>2, <3>1, <3>2, <3>6 DEF HeldWindow, Standing, Reading
    <3>. QED
      BY <3>3, <3>7, <3>8
  <2>5. \A j \in DOMAIN syncs' : j \in DOMAIN syncs
    BY <2>3, OwnOnlyMeans
  <2>. QED
    BY <1>1, <2>2, <2>3, <2>4, <2>5, OwnWindow
<1>6. CASE ~Skips(walker.sync, walker.month)
  <2>1. /\ syncs' = syncs
        /\ \/ \E status \in {"cancelled", "failed"} :
                walker' = [walker EXCEPT !.at = "finish", !.end = status]
           \/ \E page : walker' = [walker EXCEPT !.at = "add", !.page = page]
    BY <1>1, <1>6 DEF FetchMonth, Abandoned, Ending, w
  <2>2. ASSUME NEW status \in {"cancelled", "failed"},
               walker' = [walker EXCEPT !.at = "finish", !.end = status]
        PROVE  Windows'
    <3>1. walker'.id = i /\ walker'.at = "finish" /\ walker'.end # "succeeded"
      BY <1>2, <2>2 DEF WalkerFields
    <3>. QED
      BY <1>1, <2>1, <3>1, ReleaseWindows
  <2>3. ASSUME NEW page, walker' = [walker EXCEPT !.at = "add", !.page = page]
        PROVE  Windows'
    <3>1. /\ walker'.id = i /\ walker'.at = "add" /\ walker'.sync = walker.sync
          /\ walker'.month = walker.month
      BY <1>2, <2>3 DEF WalkerFields
    <3>2. i \in DOMAIN syncs => HeldWindow(walker', s, store')
      BY <1>1, <1>3, <3>1 DEF HeldWindow, Standing, Reading
    <3>. QED
      BY <1>1, <1>3, <2>1, <3>1, <3>2, OwnWindow DEF OwnOnly
  <2>. QED
    BY <2>1, <2>2, <2>3
<1>. QED
  BY <1>5, <1>6

(* The three steps that write a month end the sync when they fail.            *)
LEMMA WriteWindows ==
  ASSUME WindowsInv, Holds(store, store'), AddMonth \/ IndexMonth
  PROVE  Windows'
<1>. DEFINE i == walker.id
<1>1. walker.at \in {"add", "index"} /\ UNCHANGED <<syncs, waiting>>
  BY DEF AddMonth, IndexMonth, Kept, w
<1>2. DOMAIN walker = WalkerFields
  BY <1>1, OwnSync DEF WindowsInv, PlacesInv, Walking
<1>3. ASSUME NEW at \in {"index", "mark"}, walker' = [walker EXCEPT !.at = at]
      PROVE  Windows'
  <2>1. /\ walker'.id = i /\ walker'.at \in {"index", "mark"} /\ walker'.sync = walker.sync
        /\ walker'.month = walker.month
    BY <1>2, <1>3 DEF WalkerFields
  <2>2. i \in DOMAIN syncs => /\ Window(syncs[i], In(i, waiting), store')
                              /\ HeldWindow(walker, syncs[i], store')
    BY <1>1, HeldSync
  <2>3. i \in DOMAIN syncs => HeldWindow(walker', syncs[i], store')
    BY <1>1, <2>1, <2>2 DEF HeldWindow, Standing, Reading
  <2>. QED
    BY <1>1, <2>1, <2>2, <2>3, OwnWindow DEF OwnOnly
<1>4. CASE walker' = [walker EXCEPT !.at = "finish", !.end = "failed"]
  <2>1. walker'.id = i /\ walker'.at = "finish" /\ walker'.end # "succeeded"
    BY <1>2, <1>4 DEF WalkerFields
  <2>. QED
    BY <1>1, <2>1, ReleaseWindows
<1>5. \/ \E at \in {"index", "mark"} : walker' = [walker EXCEPT !.at = at]
      \/ walker' = [walker EXCEPT !.at = "finish", !.end = "failed"]
  BY DEF AddMonth, IndexMonth, Steps, Ending, w
<1>. QED
  BY <1>3, <1>4, <1>5

LEMMA MarkWindows ==
  ASSUME WindowsInv, Holds(store, store'), MarkMonth
  PROVE  Windows'
<1>. DEFINE i == walker.id
            s == syncs[i]
<1>1. walker.at = "mark" /\ UNCHANGED <<syncs, waiting>>
  BY DEF MarkMonth, Kept, w
<1>2. DOMAIN walker = WalkerFields
  BY <1>1, OwnSync DEF WindowsInv, PlacesInv, Walking
<1>3. CASE walker' = [walker EXCEPT !.at = "progress"]
  <2>1. walker'.id = i /\ walker'.at = "progress" /\ walker'.sync = walker.sync
    BY <1>2, <1>3 DEF WalkerFields
  <2>2. i \in DOMAIN syncs => /\ s \in SyncState /\ Window(s, In(i, waiting), store')
                              /\ HeldWindow(walker, s, store')
    BY <1>1, HeldSync
  <2>3. /\ Due(walker.sync, walker.month) \subseteq store'.archive
        /\ Due(walker.sync, walker.month) \subseteq store'.games
    BY <1>1 DEF WindowsInv, PlacesInv, TypesInv, CheckpointInv, Holding, Working, Holds
  <2>4. ASSUME i \in DOMAIN syncs
        PROVE  HeldWindow(walker', s, store')
    <3>1. /\ SameSync(s, walker.sync) /\ s.status # "succeeded" /\ s.taken \in 1..Len(s.archives)
          /\ s.archives[s.taken] = walker.month /\ Read(s, s.taken - 1, store')
      BY <1>1, <2>2, <2>4 DEF HeldWindow, Standing, Reading
    <3>2. s.taken \in Nat \ {0}
      <4>1. s.archives \in Seq(Months) /\ s.taken \in Nat
        BY <2>2, <2>4 DEF SyncState
      <4>. QED
        BY <3>1, <4>1
    <3>. HIDE DEF s
    <3>3. Due(s, walker.month) = Due(walker.sync, walker.month)
      BY <3>1, SameDue
    <3>4. Read(s, s.taken, store')
      BY <2>3, <3>1, <3>2, <3>3, ReadOneMore
    <3>. QED
      BY <2>1, <3>1, <3>4 DEF HeldWindow, Standing, Reading
  <2>. QED
    BY <1>1, <2>1, <2>2, <2>4, OwnWindow DEF OwnOnly
<1>4. CASE walker' = [walker EXCEPT !.at = "finish", !.end = "failed"]
  <2>1. walker'.id = i /\ walker'.at = "finish" /\ walker'.end # "succeeded"
    BY <1>2, <1>4 DEF WalkerFields
  <2>. QED
    BY <1>1, <2>1, ReleaseWindows
<1>5. \/ walker' = [walker EXCEPT !.at = "progress"]
      \/ walker' = [walker EXCEPT !.at = "finish", !.end = "failed"]
  BY DEF MarkMonth, Steps, Ending, w
<1>. QED
  BY <1>3, <1>4, <1>5

LEMMA ProgressWindows ==
  ASSUME WindowsInv, Holds(store, store'), ~Terminates, Progress
  PROVE  Windows'
<1>. DEFINE i == walker.id
            s == syncs[i]
            r == [s EXCEPT !.status = "running", !.at = now]
<1>1. walker.at = "progress" /\ i \in DOMAIN syncs
  BY DEF Progress, w
<1>2. CASE s.status = "cancelled"
  <2>1. walker' = Idle /\ UNCHANGED <<syncs, waiting>> /\ Idle.at = "idle"
    BY <1>1, <1>2 DEF Progress, Kept, w, Idle
  <2>. QED
    BY <2>1, ReleaseWindows
<1>3. CASE s.status # "cancelled"
  <2>1. /\ syncs' = [syncs EXCEPT ![i] = r] /\ waiting' = Append(waiting, i)
        /\ walker' = [walker EXCEPT !.at = "report", !.sync = r]
    BY <1>1, <1>3 DEF Progress, w
  <2>2. /\ DOMAIN walker = WalkerFields /\ waiting \in Seq(Numbers(next.sync))
        /\ i \in Numbers(next.sync)
    BY <1>1, OwnSync DEF WindowsInv, PlacesInv, TypesInv, Types, SyncTypes, Walking
  <2>3. s \in SyncState /\ Window(s, FALSE, store') /\ HeldWindow(walker, s, store')
    BY <1>1, HeldSync
  <2>4. Restated(s, r)
    BY <2>3, Restates
  <2>5. Window(s, TRUE, store')
    BY <1>1, <2>3 DEF Window, HeldWindow, Standing
  <2>. HIDE DEF r, s
  <2>6. Window(r, TRUE, store')
    BY <2>4, <2>5, RestatedWindow
  <2>7. Window(r, In(i, waiting'), store')
    <3>1. Holds(store', store')
      BY DEF Holds
    <3>. QED
      BY <2>6, <3>1, WindowKept
  <2>8. syncs'[i] = r /\ OwnOnly
    BY <1>1, <2>1 DEF OwnOnly
  <2>9. \A x : In(x, waiting') <=> x = i \/ In(x, waiting)
    <3>. HIDE DEF i
    <3>. QED
      BY <2>1, <2>2, AppendedQueue
  <2>10. walker'.id = i /\ walker'.at = "report"
    BY <2>1, <2>2 DEF WalkerFields
  <2>11. HeldWindow(walker', r, store')
    BY <2>10 DEF HeldWindow, Standing, Reading
  <2>. QED
    BY <1>1, <2>7, <2>8, <2>9, <2>10, <2>11, OwnWindow
<1>. QED
  BY <1>2, <1>3

LEMMA EndingWindows ==
  ASSUME WindowsInv, Holds(store, store'), ~Terminates, Report \/ RecordEnd \/ UpdateProfile
  PROVE  Windows'
<1>1. walker.at \in {"report", "record", "profile"} /\ UNCHANGED <<syncs, waiting>>
  BY DEF Report, RecordEnd, UpdateProfile, Kept, w
<1>2. DOMAIN walker = WalkerFields /\ Idle.at = "idle"
  BY <1>1, OwnSync DEF WindowsInv, PlacesInv, Walking, Idle
<1>3. \/ walker' = Idle \/ walker' = [walker EXCEPT !.at = "profile"]
      \/ walker' = [walker EXCEPT !.at = "finish", !.end = "failed"]
  BY DEF Report, RecordEnd, UpdateProfile, RecordFails, Steps, Ending, w
<1>4. \/ walker'.at = "idle"
      \/ walker'.id = walker.id /\ walker'.at \in {"record", "profile"}
      \/ walker'.id = walker.id /\ walker'.at = "finish" /\ walker'.end # "succeeded"
  BY <1>2, <1>3 DEF WalkerFields
<1>. QED
  BY <1>1, <1>4, ReleaseWindows

(* A sync ends as succeeded when its worker says so and nobody cancelled it.  *)
LEMMA FinishWindows ==
  ASSUME WindowsInv, Holds(store, store'), Finish
  PROVE  Windows'
<1>. DEFINE i == walker.id
            s == syncs[i]
            r == [s EXCEPT !.status = Settled(@, walker.end), !.at = now]
<1>1. walker.at = "finish" /\ waiting' = waiting
  BY DEF Finish, w
<1>2. DOMAIN walker = WalkerFields
  BY <1>1, OwnSync DEF WindowsInv, PlacesInv, Walking
<1>3. CASE i \notin DOMAIN syncs
  <2>1. walker' = Idle /\ syncs' = syncs /\ Idle.at = "idle"
    BY <1>3 DEF Finish, w, Idle
  <2>. QED
    BY <1>1, <2>1, ReleaseWindows
<1>4. CASE i \in DOMAIN syncs
  <2>1. /\ syncs' = Trimmed([syncs EXCEPT ![i] = r])
        /\ walker' = [walker EXCEPT !.at = "record", !.sync = r]
    BY <1>4 DEF Finish, w
  <2>2. /\ s \in SyncState /\ Window(s, In(i, waiting), store') /\ HeldWindow(walker, s, store')
    BY <1>1, <1>4, HeldSync
  <2>3. /\ r.taken = s.taken /\ r.archives = s.archives /\ r.skipped = s.skipped
        /\ r.discovered = s.discovered /\ SameSync(s, r)
        /\ r.status = "succeeded" => s.status = "succeeded" \/ walker.end = "succeeded"
    BY <2>2 DEF SyncState, SameSync, Settled
  <2>4. r.status = "succeeded" => Read(s, Len(s.archives), store')
    BY <1>1, <2>2, <2>3 DEF Window, HeldWindow
  <2>. HIDE DEF r
  <2>5. /\ OwnOnly
        /\ \A j \in DOMAIN syncs' : j \in DOMAIN syncs
        /\ i \in DOMAIN syncs' => syncs'[i] = r
    <3>1. OwnOnly
      BY <1>4, <2>1 DEF OwnOnly
    <3>2. \A j \in DOMAIN syncs' : j \in DOMAIN syncs
      BY <3>1, OwnOnlyMeans
    <3>. HIDE DEF i
    <3>3. i \in DOMAIN syncs' => syncs'[i] = r
      BY <1>4, <2>1, OneSyncChanges
    <3>. QED
      BY <3>1, <3>2, <3>3
  <2>. HIDE DEF s
  <2>6. \A n : Read(s, n, store') => Read(r, n, store')
    <3>1. Holds(store', store')
      BY DEF Holds
    <3>. QED
      BY <2>3, <3>1, ReadKept
  <2>7. Window(r, In(i, waiting), store')
    BY <2>2, <2>3, <2>4, <2>6 DEF Window
  <2>8. walker'.id = i /\ walker'.at = "record"
    BY <1>2, <2>1 DEF WalkerFields
  <2>9. HeldWindow(walker', r, store')
    BY <2>8 DEF HeldWindow, Standing, Reading
  <2>. QED
    BY <1>1, <2>5, <2>7, <2>8, <2>9, OwnWindow
<1>. QED
  BY <1>3, <1>4

LEMMA WalksKeepWindows ==
  ASSUME WindowsInv, Holds(store, store'), Walks
  PROVE  Windows'
<1>1. CASE Terminates
  BY <1>1, WindowsReset DEF Terminates, Blank
<1>2. CASE ~Terminates
  BY <1>2, PopWindows, BeginWindows, DiscoverWindows, ListWindows, NextWindows, FetchWindows,
     WriteWindows, MarkWindows, ProgressWindows, EndingWindows, FinishWindows DEF Walks
<1>. QED
  BY <1>1, <1>2

LEMMA StartWindows ==
  ASSUME NEW u, Start(u)
  PROVE  Windows'
<1>1. walker' = Idle /\ Idle.at = "idle"
  BY DEF Start, Blank, Idle
<1>2. syncs' = <<>> \/ \E s : syncs' = <<s>> /\ Fresh(s)
  <2>. DEFINE s == [user |-> store.sync.user, days |-> store.sync.days,
                    upper |-> store.sync.upper, at |-> now, status |-> "queued",
                    archives |-> <<>>, taken |-> 0, discovered |-> FALSE, skipped |-> {}]
  <2>1. Fresh(s) /\ (syncs' = <<>> \/ syncs' = <<s>>)
    BY DEF Start, Fresh
  <2>. HIDE DEF s
  <2>. QED
    BY <2>1
<1>3. ASSUME NEW s, syncs' = <<s>>, Fresh(s) PROVE Windows'
  <2>1. DOMAIN syncs' = {1} /\ syncs'[1] = s
    BY <1>3
  <2>2. Window(s, In(1, waiting'), store')
    BY <1>3, FreshWindow
  <2>. QED
    BY <1>1, <2>1, <2>2 DEF Windows
<1>. QED
  BY <1>1, <1>2, <1>3, WindowsReset

LEMMA StepKeepsWindows ==
  ASSUME WindowsInv, [Next]_vars
  PROVE  WindowsInv'
<1>1. PlacesInv' /\ PlacesInv /\ Windows
  BY StepKeepsPlaces DEF WindowsInv
<1>2. Holds(store, store')
  BY <1>1, StepEdits, EditedTypes DEF PlacesInv, TypesInv, Types, CheckpointInv, Dates, Holds
<1>3. Windows'
  <2>1. ASSUME NEW u, ConfigureProfile(u) PROVE Windows'
    BY <1>1, <1>2, <2>1, WindowsUnchanged DEF ConfigureProfile, memory
  <2>2. ASSUME NEW g, NEW u, Resolve(g, u) PROVE Windows'
    BY <1>1, <1>2, <2>2, WindowsUnchanged DEF Resolve
  <2>3. ASSUME NEW g, NEW u, ImportUrl(g, u) PROVE Windows'
    BY <1>1, <1>2, <2>3, WindowsUnchanged DEF ImportUrl, memory
  <2>4. ASSUME NEW i, CancelResolution(i) PROVE Windows'
    BY <1>1, <1>2, <2>4, WindowsUnchanged DEF CancelResolution
  <2>5. ASSUME NEW s, RecordCancelled(s) PROVE Windows'
    BY <1>1, <1>2, <2>5, WindowsUnchanged DEF RecordCancelled
  <2>6. CASE Tick \/ Shutdown \/ UNCHANGED vars
    BY <1>1, <1>2, <2>6, WindowsUnchanged DEF Tick, Shutdown, vars, memory
  <2>7. CASE Crash \/ Leave
    BY <2>7, WindowsReset DEF Crash, Leave, Blank
  <2>8. CASE Finds
    <3>1. CASE Terminates
      BY <3>1, WindowsReset DEF Terminates, Blank
    <3>. QED
      BY <1>1, <1>2, <2>8, <3>1, FindsKeepSyncs, WindowsUnchanged
  <2>. QED
    BY <1>2, <2>1, <2>2, <2>3, <2>4, <2>5, <2>6, <2>7, <2>8, StartWindows, StartSyncWindows,
       CancelSyncWindows, WalksKeepWindows DEF Next
<1>. QED
  BY <1>1, <1>3 DEF WindowsInv

LEMMA WindowsInit == Init => WindowsInv
<1>. SUFFICES ASSUME Init PROVE WindowsInv
  OBVIOUS
<1>1. DOMAIN <<>> = {} /\ Idle.at = "idle" /\ walker = Idle /\ syncs = <<>>
  BY DEF Init, Idle
<1>. QED
  BY <1>1, PlacesInit DEF WindowsInv, Windows

-----------------------------------------------------------------------------
(* A sync that has succeeded has stored its window: no game of a listed month *)
(* is lost to a failure, to a cancellation, to a crash or to a game played    *)
(* while the sync ran.                                                        *)
THEOREM SucceededIsStored == Spec => []WindowStored
<1>1. Init => WindowsInv
  BY WindowsInit
<1>2. WindowsInv /\ [Next]_vars => WindowsInv'
  BY StepKeepsWindows
<1>3. WindowsInv => WindowStored
  <2>. SUFFICES ASSUME WindowsInv,
                       NEW i \in DOMAIN syncs, syncs[i].status = "succeeded",
                       NEW g \in Games, Of(syncs[i].user, g), InWindow(syncs[i], g),
                       Month(Played[g].at) \in ToSet(syncs[i].archives) \ syncs[i].skipped
                PROVE  g \in store.archive /\ g \in store.games
    BY DEF WindowStored
  <2>. DEFINE s == syncs[i]
  <2>1. Read(s, Len(s.archives), store)
    BY DEF WindowsInv, Windows, Window
  <2>2. s.archives \in Seq(Months)
    BY DEF WindowsInv, PlacesInv, TypesInv, Types, SyncTypes, SyncMap, Typed, SyncState
  <2>3. PICK k \in 1..Len(s.archives) : s.archives[k] = Month(Played[g].at)
    BY <2>2 DEF ToSet
  <2>4. g \in Due(s, s.archives[k])
    BY <2>3 DEF Due
  <2>. QED
    BY <2>1, <2>3, <2>4 DEF Read
<1>. QED
  BY <1>1, <1>2, <1>3, PTL DEF Spec
=============================================================================
