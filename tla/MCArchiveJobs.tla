--------------------------- MODULE MCArchiveJobs ---------------------------
(***************************************************************************)
(* Finite instances of ArchiveJobs for TLC.                                *)
(***************************************************************************)
EXTENDS ArchiveJobs, TLC

CONSTANTS h1, h2, i1, i2, offline, corrupted, manifestKey

Symmetry == Permutations(Handlers) \cup Permutations(Items)
=============================================================================
