------------------------------- MODULE MCHunt -------------------------------
(* Instances of Hunt for TLC: pull requests of the first of three repositories. *)
EXTENDS Hunt

CONSTANTS p1, p2

Repository == [p \in PRs |-> 0]
Reviews    == [p \in PRs |-> IF p = p1 THEN {"gold"} ELSE {"unassigned", "out_of_scope"}]
=============================================================================
