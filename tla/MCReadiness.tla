---------------------------- MODULE MCReadiness ----------------------------
(* Readiness with two gates whose sources are marked in different ways.      *)
EXTENDS Readiness, TLC

CONSTANTS schedule, writing, r1, r2, project, day

MCMarks == (schedule :> {"nothing", "project"}) @@ (writing :> {"issues"})

Symmetry == Permutations(Handlers)
=============================================================================
