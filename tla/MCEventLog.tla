----------------------------- MODULE MCEventLog -----------------------------
(* Small instances of EventLog for TLC: the records about one key are longer. *)
EXTENDS EventLog, TLC

CONSTANTS k1, k2

MCSizes == k1 :> 3 @@ k2 :> 4
=============================================================================
