---------------------------- MODULE MCFileVault ----------------------------
(* FileVault on small sets of sessions, files and requests.                *)
EXTENDS FileVault, TLC

Symmetry == Permutations(Sessions) \cup Permutations(Files) \cup Permutations(Handlers)
=============================================================================
