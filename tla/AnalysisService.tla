-------------------------- MODULE AnalysisService --------------------------
(* What a caller of AnalysisEngine::analyze may rely on, whatever stands     *)
(* behind it: a call that is let in is resolved at most once, with a value   *)
(* or an exception, returns only afterwards, and no more than Capacity calls *)
(* are unresolved at a time.  EnginePool is shown to implement this.         *)
EXTENDS Integers, FiniteSets

CONSTANTS Callers, Capacity

VARIABLES
  inside,   \* the callers whose call was let in and has not returned
  result    \* what each caller's call was resolved to: "none" until it is

serviceVars == <<inside, result>>

Unresolved == {c \in inside : result[c] = "none"}

Init == inside = {} /\ result = [c \in Callers |-> "none"]

Accept(c) ==
  /\ c \notin inside
  /\ Cardinality(Unresolved) < Capacity
  /\ inside' = inside \cup {c}
  /\ UNCHANGED result

Resolve(c) ==
  /\ c \in Unresolved
  /\ \E r \in {"value", "error"} : result' = [result EXCEPT ![c] = r]
  /\ UNCHANGED inside

Return(c) ==
  /\ c \in inside \ Unresolved
  /\ inside' = inside \ {c}
  /\ result' = [result EXCEPT ![c] = "none"]

Next == \E c \in Callers : Accept(c) \/ Resolve(c) \/ Return(c)

Spec == Init /\ [][Next]_serviceVars
============================================================================
