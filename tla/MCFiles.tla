------------------------------ MODULE MCFiles ------------------------------
(* FileVault on three uploads.  A behaviour is about uploads, which may be  *)
(* aborted, expire and be taken over, or about the removal of one file's    *)
(* cloud copies, for which the file is archived.                            *)
EXTENDS FileVault, TLC

VARIABLE focus  \* "uploads" or "removal"

filesVars == <<vars, focus>>

FilesInit == Init /\ focus \in {"uploads", "removal"}

Uploading ==
  /\ focus = "uploads"
  /\ Next
  /\ UNCHANGED <<hold, due, verified, receipt>>
  /\ \A f \in Files : ~file'[f].archived

Removing ==
  /\ focus = "removal"
  /\ Next
  /\ UNCHANGED expired
  /\ \A s \in Sessions : ~session'[s].aged
  /\ \A h \in Handlers : req'[h].at \notin {"abort delete", "abort mark"}
  /\ \A f, g \in Files : Exists(f)' /\ Exists(g)' => f = g

FilesNext == (Uploading \/ Removing) /\ UNCHANGED focus

FilesSpec == FilesInit /\ [][FilesNext]_filesVars

\* Where nobody aborts an upload, a version's body is missing from storage only
\* if a removal listed it.  An abort that read its session before the upload was
\* committed deletes the body of the version (files.ts:366).
RemovalKeepsBodies == focus = "removal" => BodiesKeptWithoutReceipt

Symmetry == Permutations(Sessions) \cup Permutations(Files) \cup Permutations(Handlers)
=============================================================================
