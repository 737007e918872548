---------------------------- MODULE MCJobManager ----------------------------
(* Small instances of JobManager for TLC.                                     *)
EXTENDS JobManager, TLC

(* Workers, clients and games are interchangeable: for the safety runs only.  *)
Symmetric == Permutations(Workers) \cup Permutations(Clients) \cup Permutations(Games)
=============================================================================
