-------------------------- MODULE MCSharedBacklog --------------------------
(* Instances of SharedBacklog for TLC. *)
EXTENDS SharedBacklog, TLC

(* Row 2 waits for row 1; row 3 is free. *)
MCDeps == <<{}, {1}, {}>>
(* Row 2 waits for row 1, row 3 for an id the file does not hold. *)
MCDanglingDeps == <<{}, {1}, {9}>>
MCIndependent == <<{}, {}, {}>>

Symmetry == Permutations(Agents)
=============================================================================
