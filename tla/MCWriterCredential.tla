-------------------------- MODULE MCWriterCredential --------------------------
(* Instances of WriterCredential. *)
EXTENDS WriterCredential

MCStates ==
  {[enrolled |-> TRUE, ready |-> TRUE, asleep |-> FALSE],
   [enrolled |-> TRUE, ready |-> TRUE, asleep |-> TRUE],
   [enrolled |-> TRUE, ready |-> FALSE, asleep |-> FALSE],
   [enrolled |-> FALSE, ready |-> TRUE, asleep |-> FALSE]}

MCKinds == {"edits", "deletions", "hands", "revocations", "empties", "faults"}

Bounds(e, d, h, r, m, f) ==
  [k \in MCKinds |-> CASE k = "edits" -> e [] k = "deletions" -> d [] k = "hands" -> h
                       [] k = "revocations" -> r [] k = "empties" -> m
                       [] k = "faults" -> f]

(* One of: edited, deleted and re-created with a failure; edited with two  *)
(* failures; handled by others with a failure and two false 404s.          *)
Separately ==
  {Bounds(4, 1, 0, 0, 0, 1), Bounds(3, 0, 0, 0, 0, 2), Bounds(2, 0, 1, 1, 2, 1)}
RebornOnce == {Bounds(2, 1, 0, 0, 0, 1)}
==============================================================================
