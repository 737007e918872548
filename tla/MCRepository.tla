---------------------------- MODULE MCRepository ----------------------------
(* Small instances of Repository for TLC: each scope takes the operations that*)
(* touch the same projections, with snapshots and compaction.                 *)
EXTENDS Repository, TLC

CONSTANTS g1, g2, c1, r1, r2, e1, e2, m1

Aspects ==
  <<{"import", "shallow", "analysis"}, {"import", "analysis", "review"},
    {"import", "line", "extend", "cursor", "delete"},
    {"validated", "attempt", "session", "hint"}, {"profile", "chunk"}, {"month", "sync"},
    {"recommend", "complete"}, {"job", "batch"}, {"pause", "batch"}>>
Scope(i) == Aspects[i] \cup {"snapshot", "compact"}
MCScopes == {Scope(i) : i \in DOMAIN Aspects}
MCBounds ==
  [s \in MCScopes |-> <<6, 6, 5, 5, 3, 3, 4, 3, 3>>[CHOOSE i \in DOMAIN Aspects : Scope(i) = s]]

Symmetry == Permutations(Games) \cup Permutations(Resources) \cup Permutations(Entries)
=============================================================================
