---------------------------- MODULE MCEnginePool ----------------------------
(* Small instances of EnginePool for TLC.                                     *)
EXTENDS EnginePool, TLC

(* Workers and callers are interchangeable: sound for the safety runs only.   *)
Symmetric == Permutations(Workers) \cup Permutations(Callers)
=============================================================================
