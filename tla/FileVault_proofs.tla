------------------------- MODULE FileVault_proofs -------------------------
(***************************************************************************)
(* Histories without gaps, uploads that end once, receipts that rest on an *)
(* archive and bodies that only a removal deletes, for any sessions,       *)
(* files, requests and bounds.                                             *)
(*                                                                         *)
(* The numbers of a file's versions are 1..n, so that a number that is     *)
(* free is above all of them.  A request that will make a file has its     *)
(* name alone, and one that authorizes an upload has the upload alone.     *)
(***************************************************************************)
EXTENDS MCFiles, TLAPS

SessionStates == {"none", "authorized", "uploading", "verifying", "complete", "aborted"}
SessionRows == [state : SessionStates, target : Files \cup {Nil}, done : BOOLEAN, aged : BOOLEAN]
VersionRows == [file : Files \cup {Nil}, number : Nat]
FileRows == [status : {"none", "active", "cloud_removed"}, archived : BOOLEAN,
             current : Sessions \cup {Nil}]
UploadSteps == {"head", "put", "reset", "verify", "finalize", "commit", "abort delete", "abort mark"}
ReceiptSteps == {"revoke", "delete", "complete", "failed"}
Steps == {"idle", "authorize", "approve"} \cup UploadSteps \cup ReceiptSteps
Requests == [at : Steps, upload : Sessions \cup {Nil}, file : Files \cup {Nil}, number : Nat,
             job : SUBSET Sessions]
Receipts == [status : {"none", "approved", "completed", "failed"}, file : Files \cup {Nil},
             job : SUBSET Sessions, keys : SUBSET Sessions]

TypeOK ==
  /\ session \in [Sessions -> SessionRows]
  /\ version \in [Sessions -> VersionRows]
  /\ file \in [Files -> FileRows]
  /\ verified \subseteq SUBSET Sessions
  /\ receipt \in [Handlers -> Receipts]
  /\ req \in [Handlers -> Requests]

----------------------------------------------------------------------------
(* Versions and files.                                                     *)

\* Number n of file f is the first or follows one that is taken.
Follows(f, n) == n = 1 \/ \E r \in VersionsOf(f) : version[r].number = n - 1

VersionsOfFiles ==
  \A s \in Sessions : version[s] # NoVersion =>
    version[s].file \in Files /\ Exists(version[s].file) /\ version[s].number \in Nat \ {0}

CurrentIsOwn == \A f \in Files : Exists(f) => file[f].current \in VersionsOf(f)

NumbersAreUnique ==
  \A f \in Files : \A r, s \in VersionsOf(f) : version[r].number = version[s].number => r = s

\* Every number below one that is taken is taken.
NumbersHaveNoGap ==
  \A f \in Files : \A s \in VersionsOf(f) : \A n \in 1 .. version[s].number :
    \E r \in VersionsOf(f) : version[r].number = n

HistoryInv == VersionsOfFiles /\ CurrentIsOwn /\ NumbersAreUnique /\ NumbersHaveNoGap

----------------------------------------------------------------------------
(* Uploads.                                                                *)

SessionOK(s) ==
  /\ session[s].state = "none" => session[s] = NoSession
  /\ session[s].target # Nil => Exists(session[s].target)
  /\ session[s].done => version[s] # NoVersion
  /\ version[s] # NoVersion => session[s].state \in {"complete", "aborted"}

SessionsOK == \A s \in Sessions : SessionOK(s)

OneFilePerUpload ==
  \A f \in Files : Exists(f) =>
    \E s \in VersionsOf(f) : session[s].target = Nil
      /\ \A r \in VersionsOf(f) \ {s} : session[r].target = f

----------------------------------------------------------------------------
(* Requests and receipts.                                                  *)

\* The versions of K outside the archive came after those inside.
Later(K, job) == \A s \in K \ job, r \in K \cap job : version[r].number < version[s].number

RequestOK(h, q) ==
  /\ q.at = "authorize" =>
       /\ q.upload \in Sessions /\ session[q.upload].state = "none"
       /\ q.file # Nil => Exists(q.file)
  /\ q.at \in UploadSteps => q.upload \in Sessions /\ session[q.upload].state # "none"
  /\ q.at = "commit" =>
       /\ q.file \in Files /\ q.number \in Nat \ {0} /\ Follows(q.file, q.number)
       /\ session[q.upload].target = Nil => ~Exists(q.file)
       /\ session[q.upload].target # Nil => q.file = session[q.upload].target
  /\ q.at = "approve" => q.job \in verified /\ Later(VersionsOf(q.file), q.job)
  /\ q.at \in ReceiptSteps => receipt[h] # NoReceipt
  /\ q.at \in {"approve"} \cup ReceiptSteps => q.file \in Files /\ Exists(q.file)

RequestsOK == \A h \in Handlers : RequestOK(h, req[h])

AuthorizesAlone ==
  \A g, h \in Handlers : req[h].at = "authorize" /\ req[g].upload = req[h].upload => g = h

\* Request h is about to make a file.
Creates(h) == req[h].at = "commit" /\ session[req[h].upload].target = Nil

CreatesAlone == \A g, h \in Handlers : Creates(h) /\ req[g].file = req[h].file => g = h

\* What an archive holds, and what a removal lists, are versions.
ReceiptOK(h) ==
  receipt[h] # NoReceipt =>
    /\ receipt[h].job \in verified
    /\ \A s \in receipt[h].keys : version[s] # NoVersion
    /\ Later(receipt[h].keys, receipt[h].job)

ReceiptsOK ==
  /\ \A job \in verified : \A s \in job : version[s] # NoVersion
  /\ \A h \in Handlers : ReceiptOK(h)

Inv ==
  /\ TypeOK
  /\ HistoryInv
  /\ SessionsOK /\ OneFilePerUpload
  /\ RequestsOK /\ AuthorizesAlone /\ CreatesAlone
  /\ ReceiptsOK

----------------------------------------------------------------------------
LEMMA NoRows ==
  /\ NoSession \in SessionRows /\ NoSession.state = "none" /\ NoSession.target = Nil
  /\ NoSession.done = FALSE
  /\ NoVersion \in VersionRows /\ NoVersion.file = Nil
  /\ NoFile \in FileRows /\ NoFile.status = "none"
  /\ NoReceipt \in Receipts /\ NoReceipt.status = "none"
BY DEF NoSession, SessionRows, SessionStates, NoVersion, VersionRows, NoFile, FileRows,
       NoReceipt, Receipts

LEMMA IdleIs == Idle \in Requests /\ Idle.at = "idle" /\ Idle.upload = Nil /\ Idle.file = Nil
BY DEF Idle, Requests, Steps

\* A version of a file is a version.
LEMMA VersionsAre ==
  ASSUME NEW f \in Files, NEW s \in VersionsOf(f)
  PROVE  s \in Sessions /\ version[s].file = f /\ version[s] # NoVersion
BY NoRows, NilAssumption DEF VersionsOf

LEMMA InitInv == Init => Inv
<1> SUFFICES ASSUME Init PROVE Inv
  OBVIOUS
<1> USE DEF Init
<1>1. TypeOK
  BY NoRows, IdleIs DEF TypeOK
<1>2. /\ \A s \in Sessions : version[s] = NoVersion /\ session[s] = NoSession
      /\ \A f \in Files : ~Exists(f) /\ VersionsOf(f) = {}
      /\ \A h \in Handlers : receipt[h] = NoReceipt /\ req[h] = Idle
      /\ verified = {}
  BY NoRows, NilAssumption DEF Exists, VersionsOf
<1>3. HistoryInv
  BY <1>2 DEF HistoryInv, VersionsOfFiles, CurrentIsOwn, NumbersAreUnique, NumbersHaveNoGap
<1>4. SessionsOK /\ OneFilePerUpload
  BY <1>2, NoRows DEF SessionsOK, SessionOK, OneFilePerUpload
<1>5. RequestsOK /\ AuthorizesAlone /\ CreatesAlone
  BY <1>2, IdleIs DEF RequestsOK, RequestOK, UploadSteps, ReceiptSteps, AuthorizesAlone, Creates, CreatesAlone
<1>6. ReceiptsOK
  BY <1>2 DEF ReceiptsOK, ReceiptOK
<1> QED BY <1>1, <1>3, <1>4, <1>5, <1>6 DEF Inv

----------------------------------------------------------------------------
(* Steps that add no version and make no file.                             *)

\* What such a step keeps of files and versions.
FilesSteady ==
  /\ version' = version
  /\ file' \in [Files -> FileRows]
  /\ \A f \in Files : Exists(f)' <=> Exists(f)
  /\ \A f \in Files : file'[f].current = file[f].current \/ file'[f].current \in VersionsOf(f)

\* A session that there is stays, with its target; one that has its version
\* stays ended.
SessionsSteady ==
  /\ session' \in [Sessions -> SessionRows]
  /\ \A s \in Sessions :
       /\ session'[s].target = session[s].target /\ session'[s].done = session[s].done
       /\ session'[s] # session[s] => session[s].state # "none" /\ session'[s].state # "none"
       /\ version[s] # NoVersion => session'[s].state \in {"complete", "aborted"}

\* Receipts and archives stay, with what they list.
ReceiptsSteady ==
  /\ verified' \subseteq SUBSET Sessions /\ verified \subseteq verified'
  /\ \A job \in verified' : \A s \in job : version[s] # NoVersion
  /\ receipt' \in [Handlers -> Receipts]
  /\ \A h \in Handlers :
       \/ receipt'[h] = receipt[h]
       \/ /\ receipt'[h].status # "none"
          /\ \/ receipt[h] # NoReceipt /\ receipt'[h].job = receipt[h].job
                                       /\ receipt'[h].keys = receipt[h].keys
             \/ /\ receipt'[h].job \in verified
                /\ \A s \in receipt'[h].keys : version[s] # NoVersion
                /\ Later(receipt'[h].keys, receipt'[h].job)

LEMMA SteadyHistory ==
  ASSUME Inv, FilesSteady
  PROVE  HistoryInv' /\ \A f \in Files : VersionsOf(f)' = VersionsOf(f)
<1>1. \A f \in Files : VersionsOf(f)' = VersionsOf(f)
  BY DEF FilesSteady, VersionsOf
<1>2. VersionsOfFiles'
  BY DEF FilesSteady, Inv, HistoryInv, VersionsOfFiles
<1>3. CurrentIsOwn'
  BY <1>1 DEF FilesSteady, Inv, HistoryInv, CurrentIsOwn
<1>4. NumbersAreUnique' /\ NumbersHaveNoGap'
  BY <1>1 DEF FilesSteady, Inv, HistoryInv, NumbersAreUnique, NumbersHaveNoGap
<1> QED BY <1>1, <1>2, <1>3, <1>4 DEF HistoryInv

LEMMA SteadySessions ==
  ASSUME Inv, FilesSteady, SessionsSteady
  PROVE  SessionsOK' /\ OneFilePerUpload'
<1>1. SessionsOK'
  <2> SUFFICES ASSUME NEW s \in Sessions PROVE SessionOK(s)'
    BY DEF SessionsOK
  <2>1. SessionOK(s) /\ session[s] \in SessionRows /\ session[s].target \in Files \cup {Nil}
    BY DEF Inv, SessionsOK, TypeOK, SessionRows
  <2>2. session'[s].state = "none" => session'[s] = NoSession
    BY <2>1 DEF SessionsSteady, SessionOK
  <2>3. session'[s].target # Nil => Exists(session[s].target)'
    BY <2>1 DEF SessionsSteady, FilesSteady, SessionOK, Exists
  <2>4. session'[s].done => version'[s] # NoVersion
    BY <2>1 DEF SessionsSteady, FilesSteady, SessionOK
  <2>5. version'[s] # NoVersion => session'[s].state \in {"complete", "aborted"}
    BY DEF SessionsSteady, FilesSteady
  <2> QED BY <2>2, <2>3, <2>4, <2>5 DEF SessionOK
<1>2. OneFilePerUpload'
  <2> SUFFICES ASSUME NEW f \in Files, Exists(f)'
               PROVE  \E s \in VersionsOf(f)' : session'[s].target = Nil
                        /\ \A r \in VersionsOf(f)' \ {s} : session'[r].target = f
    BY DEF OneFilePerUpload
  <2>1. VersionsOf(f)' = VersionsOf(f) /\ VersionsOf(f) \subseteq Sessions /\ Exists(f)
    BY SteadyHistory DEF FilesSteady, VersionsOf
  <2>2. PICK s \in VersionsOf(f) : session[s].target = Nil
          /\ \A r \in VersionsOf(f) \ {s} : session[r].target = f
    BY <2>1 DEF Inv, OneFilePerUpload
  <2>3. \A r \in Sessions : session'[r].target = session[r].target
    BY DEF SessionsSteady
  <2> QED BY <2>1, <2>2, <2>3
<1> QED BY <1>1, <1>2

LEMMA SteadyReceipts ==
  ASSUME Inv, FilesSteady, ReceiptsSteady
  PROVE  ReceiptsOK'
<1>1. \A job \in verified' : \A s \in job : version'[s] # NoVersion
  BY DEF FilesSteady, ReceiptsSteady
<1>2. ASSUME NEW h \in Handlers PROVE ReceiptOK(h)'
  <2>1. ReceiptOK(h)
    BY DEF Inv, ReceiptsOK
  <2>2. CASE receipt'[h] = receipt[h]
    BY <2>1, <2>2 DEF FilesSteady, ReceiptsSteady, ReceiptOK, Later
  <2>3. CASE receipt'[h] # receipt[h]
    BY <2>1, <2>3 DEF FilesSteady, ReceiptsSteady, ReceiptOK, Later
  <2> QED BY <2>2, <2>3
<1> QED BY <1>1, <1>2 DEF ReceiptsOK

\* What a request relies on stays.
LEMMA SteadyRequest ==
  ASSUME Inv, FilesSteady, ReceiptsSteady,
         NEW h \in Handlers, NEW q \in Requests, RequestOK(h, q),
         q.upload \in Sessions =>
           /\ session'[q.upload].target = session[q.upload].target
           /\ session'[q.upload].state = "none" <=> session[q.upload].state = "none"
  PROVE  RequestOK(h, q)'
<1>1. \A f \in Files : (Exists(f)' <=> Exists(f)) /\ VersionsOf(f)' = VersionsOf(f)
  BY SteadyHistory DEF FilesSteady
<1>2. q.file \in Files \cup {Nil}
  BY DEF Requests
<1>3. q.at = "authorize" =>
       /\ q.upload \in Sessions /\ session'[q.upload].state = "none"
       /\ q.file # Nil => Exists(q.file)'
  BY <1>1, <1>2 DEF RequestOK
<1>4. q.at \in UploadSteps => q.upload \in Sessions /\ session'[q.upload].state # "none"
  BY DEF RequestOK
<1>5. ASSUME q.at = "commit"
      PROVE  /\ q.file \in Files /\ q.number \in Nat \ {0} /\ Follows(q.file, q.number)'
             /\ session'[q.upload].target = Nil => ~Exists(q.file)'
             /\ session'[q.upload].target # Nil => q.file = session'[q.upload].target
  <2>1. q.file \in Files /\ q.number \in Nat \ {0} /\ q.upload \in Sessions
    BY <1>5 DEF RequestOK, UploadSteps
  <2>2. Follows(q.file, q.number)'
    BY <1>1, <1>5, <2>1 DEF RequestOK, Follows, FilesSteady
  <2> QED BY <1>1, <1>5, <2>1, <2>2 DEF RequestOK
<1>6. q.at = "approve" => q.job \in verified' /\ Later(VersionsOf(q.file), q.job)'
  BY <1>1 DEF RequestOK, Later, FilesSteady, ReceiptsSteady
<1>7. q.at \in ReceiptSteps => receipt'[h] # NoReceipt
  BY NoRows DEF RequestOK, ReceiptsSteady
<1>8. q.at \in {"approve"} \cup ReceiptSteps => q.file \in Files /\ Exists(q.file)'
  BY <1>1 DEF RequestOK
<1> QED BY <1>3, <1>4, <1>5, <1>6, <1>7, <1>8 DEF RequestOK

----------------------------------------------------------------------------
(* A steady step of one request, or of none.                               *)

Steady == FilesSteady /\ SessionsSteady /\ ReceiptsSteady

\* The sessions that q has to itself and the file it will make, if any.
NewRequestAlone(h, q) ==
  \A g \in Handlers \ {h} :
    /\ req[g].at = "authorize" => req[g].upload # q.upload
    /\ q.at = "authorize" => req[g].upload # q.upload
    /\ Creates(g) => req[g].file # q.file
    /\ q.at = "commit" /\ session[q.upload].target = Nil => req[g].file # q.file

LEMMA SteadyStep ==
  ASSUME Inv, Steady, NEW h \in Handlers, NEW q \in Requests, req' = [req EXCEPT ![h] = q],
         RequestOK(h, q)', NewRequestAlone(h, q),
         q.at = "commit" => q.upload \in Sessions
  PROVE  Inv'
<1>1. req' \in [Handlers -> Requests] /\ req'[h] = q
      /\ \A g \in Handlers \ {h} : req'[g] = req[g]
  BY DEF Inv, TypeOK
<1>2. TypeOK'
  BY <1>1 DEF Steady, FilesSteady, SessionsSteady, ReceiptsSteady, Inv, TypeOK
<1>3. HistoryInv' /\ SessionsOK' /\ OneFilePerUpload' /\ ReceiptsOK'
  BY SteadyHistory, SteadySessions, SteadyReceipts DEF Steady
<1>4. ASSUME NEW g \in Handlers \ {h}, NEW p, p = req[g]
      PROVE  RequestOK(g, p)' /\ p \in Requests
  <2>1. p \in Requests /\ RequestOK(g, p)
    BY <1>4 DEF Inv, TypeOK, RequestsOK
  <2>2. p.upload \in Sessions =>
           /\ session'[p.upload].target = session[p.upload].target
           /\ session'[p.upload].state = "none" <=> session[p.upload].state = "none"
    BY DEF Steady, SessionsSteady
  <2> QED BY <2>1, <2>2, SteadyRequest DEF Steady
<1>5. RequestsOK'
  <2> SUFFICES ASSUME NEW g \in Handlers PROVE RequestOK(g, req[g])'
    BY DEF RequestsOK
  <2>1. PICK p : p = req'[g]
    OBVIOUS
  <2>2. RequestOK(g, p)'
    BY <1>1, <1>4, <2>1
  <2> QED BY <2>1, <2>2
<1>6. AuthorizesAlone'
  BY <1>1 DEF Inv, AuthorizesAlone, NewRequestAlone
<1>7. \A g \in Handlers : req[g].at = "commit" => req[g].upload \in Sessions
  BY DEF Inv, RequestsOK, RequestOK, UploadSteps
<1>8. \A g \in Handlers : req'[g].at = "commit" => req'[g].upload \in Sessions
  BY <1>1, <1>7
<1>9. \A s \in Sessions : session'[s].target = session[s].target
  BY DEF Steady, SessionsSteady
<1>10. CreatesAlone'
  <2> SUFFICES ASSUME NEW f \in Handlers, NEW g \in Handlers, Creates(g)', req'[f].file = req'[g].file
               PROVE  f = g
    BY DEF CreatesAlone
  <2>1. req'[g].at = "commit" /\ session[req'[g].upload].target = Nil
    BY <1>8, <1>9 DEF Creates
  <2>2. CASE g # h /\ f # h
    BY <1>1, <2>1, <2>2 DEF Inv, CreatesAlone, Creates
  <2>3. CASE g = h /\ f # h
    BY <1>1, <2>1, <2>3 DEF NewRequestAlone
  <2>4. CASE g # h /\ f = h
    BY <1>1, <2>1, <2>4 DEF NewRequestAlone, Creates
  <2> QED BY <2>2, <2>3, <2>4
<1> QED BY <1>2, <1>3, <1>5, <1>6, <1>10 DEF Inv

\* A request that keeps its upload and its file, and neither authorizes nor
\* makes a file any more, disturbs no other.
LEMMA KeepsAlone ==
  ASSUME Inv, NEW h \in Handlers, NEW q, q.at \notin {"authorize", "commit"},
         q.upload = req[h].upload, q.file = req[h].file
  PROVE  NewRequestAlone(h, q)
BY DEF Inv, AuthorizesAlone, CreatesAlone, NewRequestAlone

LEMMA SteadyFinish ==
  ASSUME Inv, Steady, NEW h \in Handlers, Finish(h)
  PROVE  Inv'
<1>1. \A g \in Handlers : /\ req[g].at = "authorize" => req[g].upload \in Sessions
                          /\ Creates(g) => req[g].file \in Files
  BY DEF Inv, RequestsOK, RequestOK, Creates
<1>2. NewRequestAlone(h, Idle)
  BY <1>1, IdleIs, NilAssumption DEF NewRequestAlone
<1>3. RequestOK(h, Idle)'
  BY IdleIs DEF RequestOK, UploadSteps, ReceiptSteps
<1> QED BY <1>2, <1>3, IdleIs, SteadyStep DEF Finish

\* The next step of the same request.
LEMMA SteadyGoto ==
  ASSUME Inv, Steady, NEW h \in Handlers,
         NEW at \in UploadSteps \cup ReceiptSteps, at # "commit", Goto(h, at),
         at \in UploadSteps => req[h].at \in UploadSteps,
         at \in ReceiptSteps => req[h].at \in {"approve"} \cup ReceiptSteps /\ receipt'[h] # NoReceipt
  PROVE  Inv'
<1>1. PICK p : p = req[h]
  OBVIOUS
<1>2. p \in Requests /\ RequestOK(h, p)
  BY <1>1 DEF Inv, TypeOK, RequestsOK
<1> DEFINE q == [p EXCEPT !.at = at]
<1>3. q \in Requests /\ q.at = at /\ q.upload = p.upload /\ q.file = p.file
  BY <1>2 DEF Requests, Steps
<1>4. req' = [req EXCEPT ![h] = q]
  BY <1>1 DEF Goto, Inv, TypeOK
<1>5. RequestOK(h, q)'
  <2>1. q.at \notin {"authorize", "commit", "approve"}
    BY <1>3 DEF UploadSteps, ReceiptSteps
  <2>2. q.at \in UploadSteps => q.upload \in Sessions /\ session'[q.upload].state # "none"
    <3> SUFFICES ASSUME at \in UploadSteps PROVE p.upload \in Sessions /\ session'[p.upload].state # "none"
      BY <1>3
    <3>1. p.upload \in Sessions /\ session[p.upload].state # "none"
      BY <1>1, <1>2 DEF RequestOK
    <3> QED BY <3>1 DEF Steady, SessionsSteady
  <2>3. q.at \in {"approve"} \cup ReceiptSteps => q.file \in Files /\ Exists(q.file)'
    BY <1>1, <1>2, <1>3, <2>1 DEF RequestOK, Steady, FilesSteady
  <2>4. q.at \in ReceiptSteps => receipt'[h] # NoReceipt
    BY <1>3
  <2> HIDE DEF q
  <2> QED BY <2>1, <2>2, <2>3, <2>4 DEF RequestOK
<1>6. NewRequestAlone(h, q)
  <2>1. q.at \notin {"authorize", "commit"}
    BY <1>3 DEF UploadSteps, ReceiptSteps
  <2> HIDE DEF q
  <2> QED BY <1>1, <1>3, <2>1, KeepsAlone
<1> HIDE DEF q
<1> QED BY <1>3, <1>4, <1>5, <1>6, SteadyStep

LEMMA SteadyNone ==
  ASSUME Inv, Steady, UNCHANGED req
  PROVE  Inv'
<1>1. TypeOK'
  BY DEF Steady, FilesSteady, SessionsSteady, ReceiptsSteady, Inv, TypeOK
<1>2. HistoryInv' /\ SessionsOK' /\ OneFilePerUpload' /\ ReceiptsOK'
  BY SteadyHistory, SteadySessions, SteadyReceipts DEF Steady
<1>3. \A s \in Sessions : session'[s].target = session[s].target
  BY DEF Steady, SessionsSteady
<1>4. RequestsOK'
  <2> SUFFICES ASSUME NEW g \in Handlers PROVE RequestOK(g, req[g])'
    BY DEF RequestsOK
  <2>1. PICK p : p = req[g]
    OBVIOUS
  <2>2. p \in Requests /\ RequestOK(g, p)
    BY <2>1 DEF Inv, TypeOK, RequestsOK
  <2>3. p.upload \in Sessions =>
           /\ session'[p.upload].target = session[p.upload].target
           /\ session'[p.upload].state = "none" <=> session[p.upload].state = "none"
    BY DEF Steady, SessionsSteady
  <2>4. RequestOK(g, p)'
    BY <2>2, <2>3, SteadyRequest DEF Steady
  <2> QED BY <2>1, <2>4
<1>5. AuthorizesAlone' /\ CreatesAlone'
  <2>1. \A g \in Handlers : Creates(g)' => Creates(g)
    BY <1>3 DEF Creates, Inv, RequestsOK, RequestOK, UploadSteps
  <2> QED BY <2>1 DEF Inv, AuthorizesAlone, CreatesAlone
<1> QED BY <1>1, <1>2, <1>4, <1>5 DEF Inv

----------------------------------------------------------------------------
(* What leaves the rows alone, or moves one session on, is steady.         *)

LEMMA KeptFiles ==
  ASSUME Inv, UNCHANGED <<version, file>>
  PROVE  FilesSteady
BY DEF FilesSteady, Inv, TypeOK, Exists

LEMMA KeptSessions ==
  ASSUME Inv, UNCHANGED session
  PROVE  SessionsSteady
BY DEF SessionsSteady, Inv, TypeOK, SessionsOK, SessionOK

LEMMA KeptReceipts ==
  ASSUME Inv, UNCHANGED <<verified, receipt>>
  PROVE  ReceiptsSteady
BY DEF ReceiptsSteady, Inv, TypeOK, ReceiptsOK

LEMMA MovedSession ==
  ASSUME Inv, NEW s \in Sessions, NEW st \in SessionStates \ {"none"}, NEW aged \in BOOLEAN,
         session[s].state # "none", version[s] # NoVersion => st \in {"complete", "aborted"},
         session' = [session EXCEPT ![s].state = st, ![s].aged = aged]
  PROVE  SessionsSteady
<1>1. session \in [Sessions -> SessionRows] /\ session[s] \in SessionRows
  BY DEF Inv, TypeOK
<1> DEFINE row == [[session[s] EXCEPT !.state = st] EXCEPT !.aged = aged]
<1>2. row \in SessionRows /\ row.target = session[s].target /\ row.done = session[s].done
      /\ row.state = st
  BY <1>1 DEF SessionRows
<1>3. session' = [session EXCEPT ![s] = row]
  BY <1>1
<1> HIDE DEF row
<1>4. session' \in [Sessions -> SessionRows] /\ session'[s] = row
      /\ \A r \in Sessions \ {s} : session'[r] = session[r]
  BY <1>1, <1>2, <1>3
<1>5. \A r \in Sessions : version[r] # NoVersion => session[r].state \in {"complete", "aborted"}
  BY DEF Inv, SessionsOK, SessionOK
<1> QED BY <1>2, <1>4, <1>5 DEF SessionsSteady

\* The upload of a request at one of the upload steps.
LEMMA UploadIs ==
  ASSUME Inv, NEW h \in Handlers, req[h].at \in UploadSteps
  PROVE  /\ req[h].upload \in Sessions /\ session[req[h].upload].state # "none"
         /\ session[req[h].upload] \in SessionRows
BY DEF Inv, RequestsOK, RequestOK, TypeOK

LEMMA PutSteps ==
  ASSUME Inv, NEW h \in Handlers,
         SkipClaim(h) \/ StorePut(h) \/ FailPut(h) \/ AbortDelete(h)
  PROVE  Inv'
<1>1. Steady
  BY KeptFiles, KeptSessions, KeptReceipts DEF SkipClaim, StorePut, FailPut, AbortDelete, Steady
<1>2. PICK at \in {"verify", "reset", "abort mark"} : Goto(h, at) /\ req[h].at \in UploadSteps
  BY DEF SkipClaim, StorePut, FailPut, AbortDelete, UploadSteps
<1>3. at \in UploadSteps /\ at # "commit" /\ at \notin ReceiptSteps
  BY DEF UploadSteps, ReceiptSteps
<1> QED BY <1>1, <1>2, <1>3, SteadyGoto

LEMMA ClaimPutStep ==
  ASSUME Inv, NEW h \in Handlers, ClaimPut(h)
  PROVE  Inv'
<1>1. PICK s \in Sessions : s = req[h].upload /\ session[s].state # "none"
  BY UploadIs DEF ClaimPut, UploadSteps
<1>2. version[s] = NoVersion
  BY <1>1 DEF ClaimPut, Claimable, Inv, SessionsOK, SessionOK
<1>3. SessionsSteady
  BY <1>1, <1>2, MovedSession DEF ClaimPut, SessionStates
<1>4. Steady
  BY <1>3, KeptFiles, KeptReceipts DEF ClaimPut, Steady
<1> QED BY <1>4, SteadyGoto DEF ClaimPut, UploadSteps, ReceiptSteps

LEMMA ResetPutStep ==
  ASSUME Inv, NEW h \in Handlers, ResetPut(h)
  PROVE  Inv'
<1>1. PICK s \in Sessions : s = req[h].upload /\ session[s].state # "none"
  BY UploadIs DEF ResetPut, UploadSteps
<1>2. SessionsSteady
  <2>1. CASE ~session[s].done /\ session[s].state = "uploading"
    <3>1. version[s] = NoVersion
      BY <2>1 DEF Inv, SessionsOK, SessionOK
    <3> QED BY <1>1, <2>1, <3>1, MovedSession DEF ResetPut, SessionStates
  <2>2. CASE ~(~session[s].done /\ session[s].state = "uploading")
    BY <1>1, <2>2, KeptSessions DEF ResetPut
  <2> QED BY <2>1, <2>2
<1>3. Steady
  BY <1>2, KeptFiles, KeptReceipts DEF ResetPut, Steady
<1> QED BY <1>3, SteadyFinish DEF ResetPut

LEMMA VerifyPutStep ==
  ASSUME Inv, NEW h \in Handlers, VerifyPut(h)
  PROVE  Inv'
<1>1. PICK s \in Sessions : s = req[h].upload /\ session[s].state # "none"
  BY UploadIs DEF VerifyPut, UploadSteps
<1>2. SessionsSteady
  <2>1. CASE session[s].state \in {"authorized", "uploading"}
    <3>1. version[s] = NoVersion
      BY <2>1 DEF Inv, SessionsOK, SessionOK
    <3> QED BY <1>1, <2>1, <3>1, MovedSession DEF VerifyPut, SessionStates
  <2>2. CASE session[s].state \notin {"authorized", "uploading"}
    BY <1>1, <2>2, KeptSessions DEF VerifyPut
  <2> QED BY <2>1, <2>2
<1>3. Steady
  BY <1>2, KeptFiles, KeptReceipts DEF VerifyPut, Steady
<1> QED BY <1>3, SteadyGoto DEF VerifyPut, UploadSteps, ReceiptSteps

LEMMA AbortMarkStep ==
  ASSUME Inv, NEW h \in Handlers, AbortMark(h)
  PROVE  Inv'
<1>1. PICK s \in Sessions : s = req[h].upload /\ session[s].state # "none"
  BY UploadIs DEF AbortMark, UploadSteps
<1>2. SessionsSteady
  <2>1. CASE ~session[s].done
    BY <1>1, <2>1, MovedSession DEF AbortMark, SessionStates
  <2>2. CASE session[s].done
    BY <1>1, <2>2, KeptSessions DEF AbortMark
  <2> QED BY <2>1, <2>2
<1>3. Steady
  BY <1>2, KeptFiles, KeptReceipts DEF AbortMark, Steady
<1> QED BY <1>3, SteadyFinish DEF AbortMark

LEMMA DropStep ==
  ASSUME Inv, NEW h \in Handlers, Drop(h)
  PROVE  Inv'
<1>1. Steady
  BY KeptFiles, KeptSessions, KeptReceipts DEF Drop, Steady
<1> QED BY <1>1, SteadyFinish DEF Drop

----------------------------------------------------------------------------
(* The starts of a request.                                                *)

LEMMA StartSteps ==
  ASSUME Inv, NEW h \in Handlers, NEW s \in Sessions, StartPut(h, s) \/ StartAbort(h, s)
  PROVE  Inv'
<1>1. Steady
  BY KeptFiles, KeptSessions, KeptReceipts DEF StartPut, StartAbort, Steady
<1>2. session[s].state # "none"
  BY DEF StartPut, StartAbort, OpenStates, Inv, SessionsOK, SessionOK
<1>3. PICK at \in {"head", "abort delete"} : Begin(h, [Idle EXCEPT !.at = at, !.upload = s])
  BY DEF StartPut, StartAbort
<1> DEFINE q == [[Idle EXCEPT !.at = at] EXCEPT !.upload = s]
<1>4. q \in Requests /\ q.at = at /\ q.upload = s /\ q.file = Nil
  BY DEF Idle, Requests, Steps, UploadSteps
<1>5. req' = [req EXCEPT ![h] = q]
  BY <1>3 DEF Begin
<1> HIDE DEF q
<1>6. RequestOK(h, q)'
  BY <1>1, <1>2, <1>4 DEF Steady, SessionsSteady, RequestOK, ReceiptSteps
<1>7. \A g \in Handlers : /\ req[g].at = "authorize" => session[req[g].upload].state = "none"
                          /\ Creates(g) => req[g].file \in Files
  BY DEF Inv, RequestsOK, RequestOK, Creates
<1>8. NewRequestAlone(h, q)
  BY <1>2, <1>4, <1>7, NilAssumption DEF NewRequestAlone
<1> QED BY <1>1, <1>4, <1>5, <1>6, <1>8, SteadyStep

LEMMA StartAuthorizeStep ==
  ASSUME Inv, NEW h \in Handlers, NEW s \in Sessions, NEW f \in Files \cup {Nil},
         StartAuthorize(h, s, f)
  PROVE  Inv'
<1>1. Steady
  BY KeptFiles, KeptSessions, KeptReceipts DEF StartAuthorize, Steady
<1> DEFINE q == [[[Idle EXCEPT !.at = "authorize"] EXCEPT !.upload = s] EXCEPT !.file = f]
<1>2. q \in Requests /\ q.at = "authorize" /\ q.upload = s /\ q.file = f
  BY DEF Idle, Requests, Steps
<1>3. req' = [req EXCEPT ![h] = q]
  BY DEF Begin, StartAuthorize
<1> HIDE DEF q
<1>4. f # Nil => Exists(f)
  BY NoRows DEF StartAuthorize, Editable
<1>5. RequestOK(h, q)'
  <2>1. f # Nil => Exists(f)'
    BY <1>1, <1>4 DEF Steady, FilesSteady, StartAuthorize, Editable
  <2>2. session'[s].state = "none"
    BY NoRows DEF StartAuthorize
  <2> QED BY <1>2, <2>1, <2>2 DEF RequestOK, UploadSteps, ReceiptSteps
<1>6. \A g \in Handlers : Creates(g) => req[g].file \in Files /\ ~Exists(req[g].file)
  BY DEF Inv, RequestsOK, RequestOK, Creates
<1>7. NewRequestAlone(h, q)
  BY <1>2, <1>4, <1>6, NilAssumption DEF NewRequestAlone, StartAuthorize, Editable
<1> QED BY <1>1, <1>2, <1>3, <1>5, <1>7, SteadyStep

----------------------------------------------------------------------------
(* The file and the number a request is about to commit.                   *)

LEMMA NextNumberFollows ==
  ASSUME Inv, NEW f \in Files, NEW n \in 1 .. Cardinality(Sessions) + 1, IsNextNumber(f, n)
  PROVE  n \in Nat \ {0} /\ Follows(f, n)
<1>1. n \in Int /\ n >= 1
  OBVIOUS
<1>2. n - 1 = 0 \/ \E r \in VersionsOf(f) : n - 1 = version[r].number
  BY DEF IsNextNumber
<1> QED BY <1>1, <1>2 DEF Follows

LEMMA ReadFinalizeStep ==
  ASSUME Inv, NEW h \in Handlers, NEW f \in Files, NEW n \in 1 .. Cardinality(Sessions) + 1,
         ReadFinalize(h, f, n)
  PROVE  Inv'
<1>1. Steady
  BY KeptFiles, KeptSessions, KeptReceipts DEF ReadFinalize, Steady
<1>2. PICK s \in Sessions : s = req[h].upload /\ session[s].state # "none"
  BY UploadIs DEF ReadFinalize, UploadSteps
<1>3. PICK p \in Requests : p = req[h]
  BY DEF Inv, TypeOK
<1> DEFINE q == [[[p EXCEPT !.at = "commit"] EXCEPT !.file = f] EXCEPT !.number = n]
<1>4. n \in Nat \ {0} /\ Follows(f, n)
  BY <1>2, NextNumberFollows DEF ReadFinalize, Follows
<1>5. q \in Requests /\ q.at = "commit" /\ q.upload = s /\ q.file = f /\ q.number = n
  BY <1>2, <1>3, <1>4 DEF Requests, Steps, UploadSteps
<1>6. req' = [req EXCEPT ![h] = q]
  BY <1>3 DEF ReadFinalize, Inv, TypeOK
<1> HIDE DEF q
<1>7. UNCHANGED <<session, version, file>>
  BY DEF ReadFinalize
<1>8. /\ session[s].target = Nil => ~Exists(f) /\ \A g \in Handlers : req[g].file # f
      /\ session[s].target # Nil => f = session[s].target /\ Exists(f)
  BY <1>2 DEF ReadFinalize, Editable
<1>9. RequestOK(h, q)'
  <2>1. Follows(f, n)' /\ (Exists(f)' <=> Exists(f))
    BY <1>4, <1>7 DEF Follows, VersionsOf, Exists
  <2>2. /\ session'[s].state # "none"
        /\ session'[s].target = Nil => ~Exists(f)'
        /\ session'[s].target # Nil => f = session'[s].target
    BY <1>2, <1>7, <1>8, <2>1
  <2> QED BY <1>4, <1>5, <2>1, <2>2 DEF RequestOK, ReceiptSteps
<1>10. \A g \in Handlers : Creates(g) => ~Exists(req[g].file)
  BY DEF Inv, RequestsOK, RequestOK, Creates
<1>11. \A g \in Handlers \ {h} : req[g].at = "authorize" => req[g].upload # s
  BY <1>2 DEF Inv, AuthorizesAlone
<1>12. NewRequestAlone(h, q)
  BY <1>5, <1>8, <1>10, <1>11 DEF NewRequestAlone
<1> QED BY <1>1, <1>5, <1>6, <1>9, <1>12, SteadyStep

----------------------------------------------------------------------------
(* Removals.                                                               *)

LEMMA StartRemoveStep ==
  ASSUME Inv, NEW h \in Handlers, NEW f \in Files, NEW job \in SUBSET Sessions,
         StartRemove(h, f, job)
  PROVE  Inv'
<1>1. Steady
  BY KeptFiles, KeptSessions, KeptReceipts DEF StartRemove, Steady
<1> DEFINE q == [[[Idle EXCEPT !.at = "approve"] EXCEPT !.file = f] EXCEPT !.job = job]
<1>2. q \in Requests /\ q.at = "approve" /\ q.upload = Nil /\ q.file = f /\ q.job = job
  BY DEF Idle, Requests, Steps
<1>3. req' = [req EXCEPT ![h] = q]
  BY DEF Begin, StartRemove
<1> HIDE DEF q
<1>4. RequestOK(h, q)'
  <2>1. Later(VersionsOf(f), job)' /\ job \in verified' /\ Exists(f)'
    BY DEF StartRemove, Covers, Later, VersionsOf, Exists
  <2> QED BY <1>2, <2>1 DEF RequestOK, UploadSteps, ReceiptSteps
<1>5. \A g \in Handlers : /\ req[g].at = "authorize" => req[g].upload \in Sessions
                          /\ Creates(g) => ~Exists(req[g].file)
  BY DEF Inv, RequestsOK, RequestOK, Creates
<1>6. NewRequestAlone(h, q)
  BY <1>2, <1>5, NilAssumption DEF NewRequestAlone, StartRemove
<1> QED BY <1>1, <1>2, <1>3, <1>4, <1>6, SteadyStep

LEMMA ApproveRemoveStep ==
  ASSUME Inv, NEW h \in Handlers, ApproveRemove(h)
  PROVE  Inv'
<1>1. PICK p \in Requests : p = req[h] /\ RequestOK(h, p)
  BY DEF Inv, TypeOK, RequestsOK
<1>2. p.at = "approve" /\ p.file \in Files /\ p.job \in verified /\ Later(VersionsOf(p.file), p.job)
  BY <1>1 DEF ApproveRemove, RequestOK
<1> DEFINE row == [status |-> "approved", file |-> p.file, job |-> p.job, keys |-> VersionsOf(p.file)]
<1>3. row \in Receipts /\ row.status = "approved" /\ row.job = p.job
      /\ row.keys = VersionsOf(p.file)
  BY <1>1, <1>2 DEF Receipts, Requests, VersionsOf
<1>4. receipt' = [receipt EXCEPT ![h] = row]
  BY <1>1 DEF ApproveRemove
<1>5. \A s \in VersionsOf(p.file) : version[s] # NoVersion
  BY <1>2, VersionsAre
<1> HIDE DEF row
<1>6. ReceiptsSteady
  <2>1. receipt' \in [Handlers -> Receipts] /\ receipt'[h] = row /\ verified' = verified
        /\ \A g \in Handlers \ {h} : receipt'[g] = receipt[g]
    BY <1>3, <1>4 DEF Inv, TypeOK, ApproveRemove
  <2>2. /\ verified' \subseteq SUBSET Sessions
        /\ \A job \in verified' : \A s \in job : version[s] # NoVersion
    BY <2>1 DEF Inv, TypeOK, ReceiptsOK
  <2> QED BY <1>2, <1>3, <1>5, <2>1, <2>2 DEF ReceiptsSteady
<1>7. Steady
  BY <1>6, KeptFiles, KeptSessions DEF ApproveRemove, Steady
<1>8. receipt'[h] # NoReceipt
  BY <1>3, <1>4, NoRows DEF Inv, TypeOK
<1> QED BY <1>7, <1>8, SteadyGoto DEF ApproveRemove, UploadSteps, ReceiptSteps

\* The status of a receipt is all that is written once it is there.
LEMMA WrittenReceipt ==
  ASSUME Inv, NEW h \in Handlers, NEW st \in {"completed", "failed"}, receipt[h] # NoReceipt,
         receipt' = [receipt EXCEPT ![h].status = st], UNCHANGED verified
  PROVE  ReceiptsSteady
<1>1. receipt \in [Handlers -> Receipts] /\ receipt[h] \in Receipts
  BY DEF Inv, TypeOK
<1> DEFINE row == [receipt[h] EXCEPT !.status = st]
<1>2. row \in Receipts /\ row.status = st /\ row.job = receipt[h].job /\ row.keys = receipt[h].keys
  BY <1>1 DEF Receipts
<1>3. receipt' = [receipt EXCEPT ![h] = row]
  BY <1>1
<1> HIDE DEF row
<1>4. receipt' \in [Handlers -> Receipts] /\ receipt'[h] = row
      /\ \A g \in Handlers \ {h} : receipt'[g] = receipt[g]
  BY <1>1, <1>2, <1>3
<1> QED BY <1>2, <1>4 DEF ReceiptsSteady, Inv, TypeOK, ReceiptsOK

\* A request at one of these steps has its receipt and its file.
LEMMA ReceiptIs ==
  ASSUME Inv, NEW h \in Handlers, req[h].at \in ReceiptSteps
  PROVE  receipt[h] # NoReceipt /\ req[h].file \in Files /\ Exists(req[h].file)
BY DEF Inv, RequestsOK, RequestOK

LEMMA EndRemoveSteps ==
  ASSUME Inv, NEW h \in Handlers, CompleteRemove(h) \/ FailRemove(h)
  PROVE  Inv'
<1>1. receipt[h] # NoReceipt
  BY ReceiptIs DEF CompleteRemove, FailRemove, ReceiptSteps
<1>2. ReceiptsSteady
  BY <1>1, WrittenReceipt DEF CompleteRemove, FailRemove
<1>3. Steady
  BY <1>2, KeptFiles, KeptSessions DEF CompleteRemove, FailRemove, Steady
<1> QED BY <1>3, SteadyFinish DEF CompleteRemove, FailRemove

LEMMA DeleteBodiesStep ==
  ASSUME Inv, NEW h \in Handlers, NEW gone, DeleteBodies(h, gone)
  PROVE  Inv'
<1>1. Steady
  BY KeptFiles, KeptSessions, KeptReceipts DEF DeleteBodies, Steady
<1>2. receipt'[h] # NoReceipt
  BY ReceiptIs DEF DeleteBodies, ReceiptSteps
<1>3. PICK at \in {"complete", "failed"} : Goto(h, at)
  BY DEF DeleteBodies
<1> QED BY <1>1, <1>2, <1>3, SteadyGoto DEF DeleteBodies, UploadSteps, ReceiptSteps

\* One column of a file that there is changes.
LEMMA EditedFile ==
  ASSUME Inv, UNCHANGED version, NEW f \in Files, Exists(f), NEW row \in FileRows,
         row.status # "none", row.current = file[f].current \/ row.current \in VersionsOf(f),
         file' = [file EXCEPT ![f] = row]
  PROVE  FilesSteady
<1>1. file' \in [Files -> FileRows] /\ file'[f] = row
      /\ \A g \in Files \ {f} : file'[g] = file[g]
  BY DEF Inv, TypeOK
<1> QED BY <1>1 DEF FilesSteady, Exists

LEMMA RevokeAccessStep ==
  ASSUME Inv, NEW h \in Handlers, RevokeAccess(h)
  PROVE  Inv'
<1>1. PICK f \in Files : f = req[h].file /\ Exists(f) /\ receipt[h] # NoReceipt
  BY ReceiptIs DEF RevokeAccess, ReceiptSteps
<1> DEFINE row == [file[f] EXCEPT !.status = "cloud_removed"]
<1>2. row \in FileRows /\ row.status # "none" /\ row.current = file[f].current
  BY DEF Inv, TypeOK, FileRows
<1>3. file' = [file EXCEPT ![f] = row]
  BY <1>1 DEF RevokeAccess, Inv, TypeOK
<1> HIDE DEF row
<1>4. Steady
  BY <1>1, <1>2, <1>3, EditedFile, KeptSessions, KeptReceipts DEF RevokeAccess, Steady
<1> QED BY <1>1, <1>4, SteadyGoto DEF RevokeAccess, UploadSteps, ReceiptSteps

----------------------------------------------------------------------------
(* The rest of the system.                                                 *)

LEMMA AgeStep ==
  ASSUME Inv, NEW s \in Sessions, Age(s)
  PROVE  Inv'
<1> DEFINE row == [session[s] EXCEPT !.aged = TRUE]
<1>1. session[s] \in SessionRows /\ session[s].state = "uploading"
  BY DEF Age, Inv, TypeOK
<1>2. row \in SessionRows /\ row.target = session[s].target /\ row.done = session[s].done
      /\ row.state = "uploading"
  BY <1>1 DEF SessionRows
<1>3. session' = [session EXCEPT ![s] = row]
  BY DEF Age, Inv, TypeOK
<1> HIDE DEF row
<1>4. session' \in [Sessions -> SessionRows] /\ session'[s] = row
      /\ \A r \in Sessions \ {s} : session'[r] = session[r]
  BY <1>2, <1>3 DEF Inv, TypeOK
<1>5. \A r \in Sessions : version[r] # NoVersion => session[r].state \in {"complete", "aborted"}
  BY DEF Inv, SessionsOK, SessionOK
<1>6. Steady
  BY <1>1, <1>2, <1>4, <1>5, KeptFiles, KeptReceipts DEF Age, Steady, SessionsSteady
<1> QED BY <1>6, SteadyNone DEF Age

LEMMA EnvironmentStep ==
  ASSUME Inv, Environment
  PROVE  Inv'
<1>1. ASSUME NEW f \in Files, NEW archived \in BOOLEAN, Archive(f, archived) PROVE Inv'
  <2> DEFINE row == [file[f] EXCEPT !.archived = archived]
  <2>1. row \in FileRows /\ row.status = file[f].status /\ row.current = file[f].current
    BY DEF Inv, TypeOK, FileRows
  <2>2. file' = [file EXCEPT ![f] = row]
    BY <1>1 DEF Archive, Inv, TypeOK
  <2>3. Exists(f) /\ row.status # "none"
    BY <1>1, <2>1 DEF Archive, Exists
  <2> HIDE DEF row
  <2>4. Steady
    BY <1>1, <2>1, <2>2, <2>3, EditedFile, KeptSessions, KeptReceipts DEF Archive, Steady
  <2> QED BY <1>1, <2>4, SteadyNone DEF Archive
<1>2. ASSUME NEW f \in Files, NEW s \in Sessions, MakeCurrent(f, s) PROVE Inv'
  <2> DEFINE row == [file[f] EXCEPT !.current = s]
  <2>1. row \in FileRows /\ row.status = file[f].status /\ row.current = s
    BY DEF Inv, TypeOK, FileRows
  <2>2. file' = [file EXCEPT ![f] = row]
    BY <1>2 DEF MakeCurrent, Inv, TypeOK
  <2>3. Exists(f) /\ row.status # "none" /\ s \in VersionsOf(f)
    BY <1>2, <2>1 DEF MakeCurrent, Editable, Exists, VersionsOf
  <2> HIDE DEF row
  <2>4. Steady
    BY <1>2, <2>1, <2>2, <2>3, EditedFile, KeptSessions, KeptReceipts DEF MakeCurrent, Steady
  <2> QED BY <1>2, <2>4, SteadyNone DEF MakeCurrent
<1>3. ASSUME NEW f \in Files, SetHold(f) \/ ReachRetention(f) PROVE Inv'
  BY <1>3, KeptFiles, KeptSessions, KeptReceipts, SteadyNone DEF SetHold, ReachRetention, Steady
<1>4. ASSUME NEW job \in SUBSET Sessions, VerifyArchive(job) PROVE Inv'
  <2>1. ReceiptsSteady
    BY <1>4 DEF VerifyArchive, ReceiptsSteady, Inv, TypeOK, ReceiptsOK
  <2> QED BY <1>4, <2>1, KeptFiles, KeptSessions, SteadyNone DEF VerifyArchive, Steady
<1>5. ASSUME NEW s \in Sessions, Expire(s) PROVE Inv'
  BY <1>5, KeptFiles, KeptSessions, KeptReceipts, SteadyNone DEF Expire, Steady
<1>6. ASSUME NEW s \in Sessions, Age(s) PROVE Inv'
  BY <1>6, AgeStep
<1> QED BY <1>1, <1>2, <1>3, <1>4, <1>5, <1>6 DEF Environment

----------------------------------------------------------------------------
(* The upload that is authorized, and the version that is committed.       *)

LEMMA CommitAuthorizeStep ==
  ASSUME Inv, NEW h \in Handlers, CommitAuthorize(h)
  PROVE  Inv'
<1>1. PICK s \in Sessions : s = req[h].upload /\ session[s].state = "none"
  BY DEF CommitAuthorize, Inv, RequestsOK, RequestOK
<1>2. PICK t \in Files \cup {Nil} : t = req[h].file /\ (t # Nil => Exists(t))
  BY DEF CommitAuthorize, Inv, RequestsOK, RequestOK, TypeOK, Requests
<1> DEFINE row == [[NoSession EXCEPT !.state = "authorized"] EXCEPT !.target = t]
<1>3. row \in SessionRows /\ row.state = "authorized" /\ row.target = t /\ row.done = FALSE
  BY DEF SessionRows, SessionStates, NoSession
<1>4. session' = [session EXCEPT ![s] = row]
  BY <1>1, <1>2 DEF CommitAuthorize
<1> HIDE DEF row
<1>5. session' \in [Sessions -> SessionRows] /\ session'[s] = row
      /\ \A r \in Sessions \ {s} : session'[r] = session[r]
  BY <1>3, <1>4 DEF Inv, TypeOK
<1>6. req' \in [Handlers -> Requests] /\ req'[h] = Idle
      /\ \A g \in Handlers \ {h} : req'[g] = req[g]
  BY IdleIs DEF CommitAuthorize, Finish, Inv, TypeOK
<1>7. FilesSteady /\ ReceiptsSteady /\ UNCHANGED <<version, file>>
  BY KeptFiles, KeptReceipts DEF CommitAuthorize
<1>8. version[s] = NoVersion
  BY <1>1 DEF Inv, SessionsOK, SessionOK
<1>9. TypeOK'
  BY <1>5, <1>6, <1>7 DEF FilesSteady, ReceiptsSteady, Inv, TypeOK
<1>10. HistoryInv' /\ ReceiptsOK' /\ \A f \in Files : VersionsOf(f)' = VersionsOf(f)
  BY <1>7, SteadyHistory, SteadyReceipts
<1>11. SessionsOK'
  <2> SUFFICES ASSUME NEW r \in Sessions PROVE SessionOK(r)'
    BY DEF SessionsOK
  <2>1. CASE r = s
    BY <1>2, <1>3, <1>5, <1>7, <1>8, <2>1 DEF SessionOK, Exists
  <2>2. CASE r # s
    BY <1>5, <1>7, <2>2 DEF Inv, SessionsOK, SessionOK, Exists
  <2> QED BY <2>1, <2>2
<1>12. OneFilePerUpload'
  <2> SUFFICES ASSUME NEW f \in Files, Exists(f)'
               PROVE  \E r \in VersionsOf(f)' : session'[r].target = Nil
                        /\ \A o \in VersionsOf(f)' \ {r} : session'[o].target = f
    BY DEF OneFilePerUpload
  <2>1. VersionsOf(f)' = VersionsOf(f) /\ VersionsOf(f) \subseteq Sessions \ {s} /\ Exists(f)
    BY <1>7, <1>8, <1>10, VersionsAre DEF Exists
  <2> QED BY <1>5, <2>1 DEF Inv, OneFilePerUpload
<1>13. RequestsOK'
  <2> SUFFICES ASSUME NEW g \in Handlers PROVE RequestOK(g, req[g])'
    BY DEF RequestsOK
  <2>1. CASE g = h
    BY <1>6, <2>1, IdleIs DEF RequestOK, UploadSteps, ReceiptSteps
  <2>2. CASE g # h
    <3>1. PICK p \in Requests : p = req[g] /\ RequestOK(g, p)
      BY DEF Inv, TypeOK, RequestsOK
    <3>2. p.upload # s
      BY <1>1, <2>2, <3>1 DEF CommitAuthorize, Inv, AuthorizesAlone
    <3>3. RequestOK(g, p)'
      BY <1>5, <1>7, <3>1, <3>2, SteadyRequest
    <3> QED BY <1>6, <2>2, <3>1, <3>3
  <2> QED BY <2>1, <2>2
<1>14. AuthorizesAlone'
  <2>1. \A g \in Handlers : req[g].at = "authorize" => req[g].upload # Nil
    BY NilAssumption DEF Inv, RequestsOK, RequestOK
  <2> QED BY <1>6, <2>1, IdleIs DEF Inv, AuthorizesAlone
<1>15. CreatesAlone'
  <2> SUFFICES ASSUME NEW f \in Handlers, NEW g \in Handlers, Creates(g)', req'[f].file = req'[g].file
               PROVE  f = g
    BY DEF CreatesAlone
  <2>1. g # h /\ req[g].at = "commit" /\ req'[g] = req[g]
    BY <1>6, IdleIs DEF Creates
  <2>2. req[g].upload \in Sessions /\ req[g].upload # s /\ req[g].file \in Files
    BY <1>1, <2>1 DEF Inv, RequestsOK, RequestOK, UploadSteps, CommitAuthorize, AuthorizesAlone
  <2>3. Creates(g)
    BY <1>5, <2>1, <2>2 DEF Creates
  <2>4. f # h
    BY <1>6, <2>1, <2>2, IdleIs, NilAssumption
  <2> QED BY <1>6, <2>1, <2>3, <2>4 DEF Inv, CreatesAlone
<1> QED BY <1>9, <1>10, <1>11, <1>12, <1>13, <1>14, <1>15 DEF Inv

\* A number that follows and is free is above all that are taken.
LEMMA FreeNumberIsLast ==
  ASSUME Inv, NEW f \in Files, NEW n \in Nat \ {0}, Follows(f, n),
         \A r \in VersionsOf(f) : version[r].number # n
  PROVE  \A r \in VersionsOf(f) : version[r].number \in Nat \ {0} /\ version[r].number < n
<1> SUFFICES ASSUME NEW r \in VersionsOf(f)
             PROVE  version[r].number \in Nat \ {0} /\ version[r].number < n
  OBVIOUS
<1>1. version[r].number \in Nat \ {0}
  BY VersionsAre DEF Inv, HistoryInv, VersionsOfFiles
<1>2. ASSUME version[r].number >= n PROVE FALSE
  <2>1. n \in 1 .. version[r].number
    BY <1>1, <1>2
  <2> QED BY <2>1 DEF Inv, HistoryInv, NumbersHaveNoGap
<1> QED BY <1>1, <1>2

\* What the batch of a request writes.
Writes(s, f, n) ==
  /\ version' \in [Sessions -> VersionRows]
  /\ version[s] = NoVersion /\ version'[s] = [file |-> f, number |-> n]
  /\ \A r \in Sessions \ {s} : version'[r] = version[r]
  /\ file' \in [Files -> FileRows]
  /\ file'[f].current = s /\ file'[f].status = "active"
  /\ \A g \in Files \ {f} : file'[g] = file[g]
  /\ session' \in [Sessions -> SessionRows]
  /\ session'[s].state \in {"complete", "aborted"} /\ session'[s].target = session[s].target
  /\ \A r \in Sessions \ {s} : session'[r] = session[r]
  /\ UNCHANGED <<verified, receipt>>

LEMMA CommitWrites ==
  ASSUME Inv, NEW h \in Handlers, CommitFinalize(h),
         NEW s \in Sessions, s = req[h].upload, NEW f \in Files, f = req[h].file,
         NEW n \in Nat, n = req[h].number
  PROVE  Writes(s, f, n)
<1>1. /\ version' = [version EXCEPT ![s] = [file |-> f, number |-> n]]
      /\ version[s] = NoVersion
      /\ file' = [file EXCEPT ![f].status = "active", ![f].current = s]
  BY DEF CommitFinalize, NewVersionRow, RowsAreUnique
<1>2. /\ version' \in [Sessions -> VersionRows] /\ version'[s] = [file |-> f, number |-> n]
      /\ \A r \in Sessions \ {s} : version'[r] = version[r]
  BY <1>1 DEF Inv, TypeOK, VersionRows
<1>3. file[f] \in FileRows /\ session[s] \in SessionRows /\ session[s].state # "none"
  BY UploadIs DEF Inv, TypeOK, CommitFinalize, UploadSteps
<1> DEFINE row == [[file[f] EXCEPT !.status = "active"] EXCEPT !.current = s]
<1>4. row \in FileRows /\ row.current = s /\ row.status = "active"
  BY <1>3 DEF FileRows
<1>5. file' = [file EXCEPT ![f] = row]
  BY <1>1 DEF Inv, TypeOK
<1> HIDE DEF row
<1>6. /\ file' \in [Files -> FileRows] /\ file'[f] = row
      /\ \A g \in Files \ {f} : file'[g] = file[g]
  BY <1>4, <1>5 DEF Inv, TypeOK
<1>7. ~session[s].done
  BY <1>1 DEF Inv, SessionsOK, SessionOK
<1>8. /\ session' \in [Sessions -> SessionRows]
      /\ session'[s].state \in {"complete", "aborted"} /\ session'[s].target = session[s].target
      /\ \A r \in Sessions \ {s} : session'[r] = session[r]
  <2>1. CASE session[s].state \in OpenStates
    <3> DEFINE new == [[[session[s] EXCEPT !.state = "complete"] EXCEPT !.done = TRUE] EXCEPT !.aged = FALSE]
    <3>1. new \in SessionRows /\ new.state = "complete" /\ new.target = session[s].target
      BY <1>3 DEF SessionRows, SessionStates
    <3>2. session' = [session EXCEPT ![s] = new]
      BY <1>7, <2>1 DEF CommitFinalize, Inv, TypeOK
    <3> HIDE DEF new
    <3> QED BY <3>1, <3>2 DEF Inv, TypeOK
  <2>2. CASE session[s].state \notin OpenStates
    <3>1. session' = session
      BY <2>2 DEF CommitFinalize
    <3>2. session[s].state \in {"complete", "aborted"}
      BY <1>3, <2>2 DEF SessionRows, SessionStates, OpenStates
    <3> QED BY <3>1, <3>2 DEF Inv, TypeOK
  <2> QED BY <2>1, <2>2
<1> QED BY <1>1, <1>2, <1>4, <1>6, <1>8 DEF Writes, CommitFinalize

LEMMA CommitFinalizeStep ==
  ASSUME Inv, NEW h \in Handlers, CommitFinalize(h)
  PROVE  Inv'
<1>1. PICK q \in Requests : q = req[h] /\ RequestOK(h, q) /\ q.at = "commit"
  BY DEF CommitFinalize, Inv, TypeOK, RequestsOK
<1>2. PICK s \in Sessions, f \in Files, n \in Nat \ {0} : s = q.upload /\ f = q.file /\ n = q.number
  BY <1>1 DEF RequestOK, UploadSteps
<1>3. Writes(s, f, n) /\ n \in Nat
  BY <1>1, <1>2, CommitWrites
<1>4. Follows(f, n) /\ \A r \in VersionsOf(f) : version[r].number # n
  BY <1>1, <1>2 DEF RequestOK, CommitFinalize, RowsAreUnique
<1>5. \A r \in VersionsOf(f) : version[r].number \in Nat \ {0} /\ version[r].number < n
  BY <1>2, <1>4, FreeNumberIsLast
<1>6. /\ VersionsOf(f)' = VersionsOf(f) \cup {s} /\ s \notin VersionsOf(f)
      /\ \A g \in Files \ {f} : VersionsOf(g)' = VersionsOf(g) /\ s \notin VersionsOf(g)
  BY <1>3, NoRows, NilAssumption DEF Writes, VersionsOf
<1>7. /\ version'[s] # NoVersion /\ version'[s].file = f /\ version'[s].number = n
      /\ \A r \in Sessions : version[r] # NoVersion => r # s /\ version'[r] = version[r]
  BY <1>2, <1>3, NoRows, NilAssumption DEF Writes
<1>8. /\ Exists(f)' /\ \A g \in Files : Exists(g) => Exists(g)'
      /\ \A g \in Files \ {f} : Exists(g)' <=> Exists(g)
  BY <1>3 DEF Writes, Exists
<1>9. /\ req' \in [Handlers -> Requests] /\ req'[h] = Idle
      /\ \A g \in Handlers \ {h} : req'[g] = req[g]
  BY IdleIs DEF CommitFinalize, Finish, Inv, TypeOK
<1>10. /\ session[s].target = Nil => ~Exists(f)
       /\ session[s].target # Nil => f = session[s].target
  BY <1>1, <1>2 DEF RequestOK
<1>11. /\ \A r \in Sessions : session'[r].target = session[r].target
       /\ \A r \in Sessions : session[r].state # "none" => session'[r].state # "none"
       /\ \A r \in Sessions \ {s} : session'[r] = session[r]
  BY <1>3 DEF Writes
<1>12. TypeOK'
  BY <1>3, <1>9 DEF Writes, Inv, TypeOK
<1>13. HistoryInv'
  <2>1. VersionsOfFiles'
    <3> SUFFICES ASSUME NEW r \in Sessions, version'[r] # NoVersion
                 PROVE  version'[r].file \in Files /\ file'[version'[r].file].status # "none"
                        /\ version'[r].number \in Nat \ {0}
      BY DEF VersionsOfFiles, Exists
    <3>1. CASE r = s
      BY <1>7, <1>8, <3>1 DEF Exists
    <3>2. CASE r # s
      BY <1>3, <1>8, <3>2 DEF Writes, Inv, HistoryInv, VersionsOfFiles, Exists
    <3> QED BY <3>1, <3>2
  <2>2. CurrentIsOwn'
    BY <1>3, <1>6, <1>8 DEF Writes, CurrentIsOwn, Inv, HistoryInv
  <2>3. NumbersAreUnique'
    <3> SUFFICES ASSUME NEW g \in Files, NEW r \in VersionsOf(g)', NEW o \in VersionsOf(g)',
                        version'[r].number = version'[o].number
                 PROVE  r = o
      BY DEF NumbersAreUnique
    <3>1. CASE g = f
      <4>1. \A w \in VersionsOf(f) : version'[w] = version[w]
        BY <1>6, <1>7, VersionsAre
      <4>2. r \in VersionsOf(f) \cup {s} /\ o \in VersionsOf(f) \cup {s}
        BY <1>6, <3>1
      <4>3. CASE r = s \/ o = s
        BY <1>5, <1>7, <4>1, <4>2, <4>3
      <4>4. CASE r \in VersionsOf(f) /\ o \in VersionsOf(f)
        BY <4>1, <4>4 DEF Inv, HistoryInv, NumbersAreUnique
      <4> QED BY <4>2, <4>3, <4>4
    <3>2. CASE g # f
      <4>1. r \in VersionsOf(g) /\ o \in VersionsOf(g)
        BY <1>6, <3>2
      <4>2. version'[r] = version[r] /\ version'[o] = version[o]
        BY <1>7, <4>1, VersionsAre
      <4> QED BY <4>1, <4>2 DEF Inv, HistoryInv, NumbersAreUnique
    <3> QED BY <3>1, <3>2
  <2>4. NumbersHaveNoGap'
    <3> SUFFICES ASSUME NEW g \in Files, NEW r \in VersionsOf(g)', NEW m \in 1 .. version'[r].number
                 PROVE  \E o \in VersionsOf(g)' : version'[o].number = m
      BY DEF NumbersHaveNoGap
    <3>1. \A w \in VersionsOf(g) : w \in VersionsOf(g)' /\ version'[w] = version[w]
      BY <1>6, <1>7, VersionsAre
    <3>2. CASE r \in VersionsOf(g)
      <4>1. PICK o \in VersionsOf(g) : version[o].number = m
        BY <3>1, <3>2 DEF Inv, HistoryInv, NumbersHaveNoGap
      <4> QED BY <3>1, <4>1
    <3>3. CASE r = s /\ g = f
      <4>1. m \in 1 .. n
        BY <1>7, <3>3
      <4>2. CASE m = n
        BY <1>6, <1>7, <3>3, <4>2
      <4>3. CASE m # n
        <5>1. n # 1 /\ m \in 1 .. n - 1
          BY <4>1, <4>3
        <5>2. PICK w \in VersionsOf(f) : version[w].number = n - 1
          BY <1>4, <5>1 DEF Follows
        <5>3. PICK o \in VersionsOf(f) : version[o].number = m
          BY <5>1, <5>2 DEF Inv, HistoryInv, NumbersHaveNoGap
        <5> QED BY <3>1, <3>3, <5>3
      <4> QED BY <4>2, <4>3
    <3> QED BY <1>6, <3>2, <3>3
  <2> QED BY <2>1, <2>2, <2>3, <2>4 DEF HistoryInv
<1>14. SessionsOK'
  <2> SUFFICES ASSUME NEW r \in Sessions PROVE SessionOK(r)'
    BY DEF SessionsOK
  <2>1. session[r].target \in Files \cup {Nil} /\ SessionOK(r)
    BY DEF Inv, TypeOK, SessionRows, SessionsOK
  <2>2. session'[r].target # Nil => Exists(session[r].target)'
    BY <1>8, <1>11, <2>1 DEF SessionOK, Exists
  <2>3. CASE r = s
    BY <1>3, <1>7, <2>2, <2>3 DEF Writes, SessionOK, Exists
  <2>4. CASE r # s
    <3>1. session'[r] = session[r] /\ version'[r] = version[r]
      BY <1>3, <2>4 DEF Writes
    <3> QED BY <2>1, <2>2, <3>1 DEF SessionOK, Exists
  <2> QED BY <2>3, <2>4
<1>15. OneFilePerUpload'
  <2> SUFFICES ASSUME NEW g \in Files, Exists(g)'
               PROVE  \E r \in VersionsOf(g)' : session'[r].target = Nil
                        /\ \A o \in VersionsOf(g)' \ {r} : session'[o].target = g
    BY DEF OneFilePerUpload
  <2>1. VersionsOf(g) \subseteq Sessions
    BY DEF VersionsOf
  <2>2. CASE Exists(g)
    <3>1. PICK r \in VersionsOf(g) : session[r].target = Nil
            /\ \A o \in VersionsOf(g) \ {r} : session[o].target = g
      BY <2>2 DEF Inv, OneFilePerUpload
    <3>2. g = f => session[s].target = f
      BY <1>10, <2>2
    <3> QED BY <1>2, <1>6, <1>11, <2>1, <3>1, <3>2
  <2>3. CASE ~Exists(g)
    <3>1. g = f
      BY <1>8, <2>3
    <3>2. VersionsOf(f) = {}
      BY <2>3, <3>1, VersionsAre DEF Inv, HistoryInv, VersionsOfFiles
    <3>3. session[s].target = Nil
      <4>1. session[s].target # Nil => Exists(session[s].target)
        BY DEF Inv, SessionsOK, SessionOK
      <4> QED BY <1>10, <2>3, <3>1, <4>1
    <3> QED BY <1>6, <1>11, <3>1, <3>2, <3>3
  <2> QED BY <2>2, <2>3
<1>16. RequestsOK'
  <2> SUFFICES ASSUME NEW g \in Handlers PROVE RequestOK(g, req[g])'
    BY DEF RequestsOK
  <2>1. CASE g = h
    BY <1>9, <2>1, IdleIs DEF RequestOK, UploadSteps, ReceiptSteps
  <2>2. CASE g # h
    <3>1. PICK p \in Requests : p = req[g] /\ RequestOK(g, p)
      BY DEF Inv, TypeOK, RequestsOK
    <3> USE DEF RequestOK
    <3>2. p.file \in Files \cup {Nil} /\ verified' = verified /\ receipt' = receipt
      BY <1>3 DEF Requests, Writes
    <3>3. p.at = "authorize" =>
            /\ p.upload \in Sessions /\ session'[p.upload].state = "none"
            /\ p.file # Nil => Exists(p.file)'
      <4>1. session[s].state # "none"
        BY <1>1, <1>2 DEF UploadSteps
      <4> QED BY <1>8, <1>11, <3>1, <3>2, <4>1
    <3>4. p.at \in UploadSteps => p.upload \in Sessions /\ session'[p.upload].state # "none"
      BY <1>11, <3>1
    <3>5. ASSUME p.at = "commit"
          PROVE  /\ p.file \in Files /\ p.number \in Nat \ {0} /\ Follows(p.file, p.number)'
                 /\ session'[p.upload].target = Nil => ~Exists(p.file)'
                 /\ session'[p.upload].target # Nil => p.file = session'[p.upload].target
      <4>1. p.upload \in Sessions /\ p.file \in Files
        BY <3>1, <3>5 DEF UploadSteps
      <4>2. Follows(p.file, p.number)'
        <5>1. \A w \in VersionsOf(p.file) : w \in VersionsOf(p.file)' /\ version'[w] = version[w]
          BY <1>6, <1>7, <4>1, VersionsAre
        <5> QED BY <3>1, <3>5, <5>1 DEF Follows
      <4>3. session[p.upload].target = Nil => ~Exists(p.file)'
        <5> SUFFICES ASSUME session[p.upload].target = Nil PROVE ~Exists(p.file)'
          OBVIOUS
        <5>1. ~Exists(p.file)
          BY <3>1, <3>5
        <5>2. p.file # f
          BY <1>1, <1>2, <2>2, <3>1, <3>5 DEF Inv, CreatesAlone, Creates
        <5> QED BY <1>8, <4>1, <5>1, <5>2
      <4> QED BY <1>11, <3>1, <3>5, <4>1, <4>2, <4>3
    <3>6. p.at = "approve" => p.job \in verified' /\ Later(VersionsOf(p.file), p.job)'
      <4> SUFFICES ASSUME p.at = "approve" PROVE Later(VersionsOf(p.file), p.job)'
        BY <3>1, <3>2
      <4>1. p.file \in Files /\ p.job \in verified /\ Later(VersionsOf(p.file), p.job)
        BY <3>1
      <4>2. s \notin p.job
        BY <1>3, <4>1 DEF Writes, Inv, ReceiptsOK
      <4>3. \A w \in VersionsOf(p.file) : version'[w] = version[w]
        BY <1>7, <4>1, VersionsAre
      <4>4. CASE p.file = f
        BY <1>5, <1>6, <1>7, <4>1, <4>2, <4>3, <4>4 DEF Later
      <4>5. CASE p.file # f
        BY <1>6, <4>1, <4>3, <4>5 DEF Later
      <4> QED BY <4>4, <4>5
    <3>7. p.at \in ReceiptSteps => receipt'[g] # NoReceipt
      BY <3>1, <3>2
    <3>8. p.at \in {"approve"} \cup ReceiptSteps => p.file \in Files /\ Exists(p.file)'
      BY <1>8, <3>1
    <3>9. RequestOK(g, p)'
      BY <3>3, <3>4, <3>5, <3>6, <3>7, <3>8
    <3> QED BY <1>9, <2>2, <3>1, <3>9
  <2> QED BY <2>1, <2>2
<1>17. AuthorizesAlone'
  <2>1. \A g \in Handlers : req[g].at = "authorize" => req[g].upload # Nil
    BY NilAssumption DEF Inv, RequestsOK, RequestOK
  <2> QED BY <1>9, <2>1, IdleIs DEF Inv, AuthorizesAlone
<1>18. CreatesAlone'
  <2> SUFFICES ASSUME NEW e \in Handlers, NEW g \in Handlers, Creates(g)', req'[e].file = req'[g].file
               PROVE  e = g
    BY DEF CreatesAlone
  <2>1. g # h /\ req[g].at = "commit" /\ req'[g] = req[g]
    BY <1>9, IdleIs DEF Creates
  <2>2. req[g].upload \in Sessions /\ req[g].file \in Files
    BY <2>1 DEF Inv, RequestsOK, RequestOK, UploadSteps
  <2>3. Creates(g)
    BY <1>11, <2>1, <2>2 DEF Creates
  <2>4. e # h
    BY <1>9, <2>1, <2>2, IdleIs, NilAssumption
  <2> QED BY <1>9, <2>1, <2>3, <2>4 DEF Inv, CreatesAlone
<1>19. ReceiptsOK'
  <2>1. \A job \in verified : \A r \in job : version[r] # NoVersion /\ version'[r] # NoVersion
    BY <1>7 DEF Inv, TypeOK, ReceiptsOK
  <2>2. ASSUME NEW g \in Handlers PROVE ReceiptOK(g)'
    <3>1. ReceiptOK(g) /\ receipt[g].keys \subseteq Sessions
      BY DEF Inv, TypeOK, ReceiptsOK, Receipts
    <3> SUFFICES ASSUME receipt[g] # NoReceipt
                 PROVE  /\ receipt[g].job \in verified
                        /\ \A r \in receipt[g].keys : version'[r] # NoVersion
                        /\ \A r \in receipt[g].keys \ receipt[g].job, o \in receipt[g].keys \cap receipt[g].job :
                             version'[o].number < version'[r].number
      BY <1>3 DEF Writes, ReceiptOK, Later
    <3>2. \A r \in receipt[g].keys : version[r] # NoVersion /\ version'[r] = version[r]
      BY <1>7, <3>1 DEF ReceiptOK
    <3> QED BY <3>1, <3>2 DEF ReceiptOK, Later
  <2> QED BY <1>3, <2>1, <2>2 DEF Writes, ReceiptsOK
<1> QED BY <1>12, <1>13, <1>14, <1>15, <1>16, <1>17, <1>18, <1>19 DEF Inv

----------------------------------------------------------------------------
(* The theorems.                                                           *)

LEMMA NextInv ==
  ASSUME Inv, [Next]_vars
  PROVE  Inv'
<1>1. CASE UNCHANGED vars
  BY <1>1, KeptFiles, KeptSessions, KeptReceipts, SteadyNone DEF vars, Steady
<1>2. ASSUME NEW h \in Handlers, HandlerStep(h) PROVE Inv'
  <2>1. ASSUME NEW s \in Sessions, NEW f \in Files \cup {Nil}, StartAuthorize(h, s, f) PROVE Inv'
    BY <2>1, StartAuthorizeStep
  <2>2. ASSUME NEW s \in Sessions, StartPut(h, s) \/ StartAbort(h, s) PROVE Inv'
    BY <2>2, StartSteps
  <2>3. ASSUME PutStep(h) PROVE Inv'
    <3>1. ASSUME NEW f \in Files, NEW n \in 1 .. Cardinality(Sessions) + 1, ReadFinalize(h, f, n)
          PROVE  Inv'
      BY <3>1, ReadFinalizeStep
    <3> QED
      BY <2>3, <3>1, PutSteps, ClaimPutStep, ResetPutStep, VerifyPutStep, CommitFinalizeStep
         DEF PutStep, Finalize
  <2>4. ASSUME NEW f \in Files, NEW job \in SUBSET Sessions, StartRemove(h, f, job) PROVE Inv'
    BY <2>4, StartRemoveStep
  <2>5. ASSUME RemoveStep(h) PROVE Inv'
    BY <2>5, ApproveRemoveStep, RevokeAccessStep, EndRemoveSteps, DeleteBodiesStep DEF RemoveStep
  <2> QED
    BY <1>2, <2>1, <2>2, <2>3, <2>4, <2>5, CommitAuthorizeStep, PutSteps, AbortMarkStep, DropStep
       DEF HandlerStep
<1> QED BY <1>1, <1>2, EnvironmentStep DEF Next

LEMMA AlwaysInv == Spec => []Inv
BY InitInv, NextInv, PTL DEF Spec

\* However requests interleave, fail and are retried (files.ts:821-967), the
\* versions of a file are numbered 1, 2, ... and it shows one of them.
THEOREM HistoriesAreWhole == Spec => []HistoryIsWhole
<1>1. Inv => HistoryIsWhole
  <2> SUFFICES ASSUME Inv, NEW f \in Files
               PROVE  /\ Exists(f) => file[f].current \in VersionsOf(f)
                      /\ \A r, s \in VersionsOf(f) : version[r].number = version[s].number => r = s
                      /\ \A s \in VersionsOf(f) : version[s].number # 1 =>
                           \E r \in VersionsOf(f) : version[r].number = version[s].number - 1
    BY DEF HistoryIsWhole
  <2>1. ASSUME NEW s \in VersionsOf(f), version[s].number # 1
        PROVE  \E r \in VersionsOf(f) : version[r].number = version[s].number - 1
    <3>1. version[s].number \in Nat \ {0}
      BY VersionsAre DEF Inv, HistoryInv, VersionsOfFiles
    <3>2. version[s].number - 1 \in 1 .. version[s].number
      BY <2>1, <3>1
    <3> QED BY <3>2 DEF Inv, HistoryInv, NumbersHaveNoGap
  <2> QED BY <2>1 DEF Inv, HistoryInv, CurrentIsOwn, NumbersAreUnique
<1> QED BY <1>1, AlwaysInv, PTL

\* An upload ends in one version of the one file it was for, however often it
\* is finished or aborted (files.ts:352-373, 821-967).
THEOREM AnUploadEndsOnce == Spec => []UploadsEndOnce
<1>1. Inv => UploadsEndOnce
  BY DEF Inv, SessionsOK, SessionOK, OneFilePerUpload, UploadsEndOnce
<1> QED BY <1>1, AlwaysInv, PTL

\* What a removal deletes is in the archive it names, except versions that
\* were committed after that archive was found (files.ts:634-757).
THEOREM RemovalsRestOnArchives == Spec => []ReceiptRestsOnArchive
<1>1. Inv => ReceiptRestsOnArchive
  BY DEF Inv, ReceiptsOK, ReceiptOK, Later, ReceiptRestsOnArchive
<1> QED BY <1>1, AlwaysInv, PTL

----------------------------------------------------------------------------
(* Bodies.  Where no request aborts an upload, only a removal deletes one, *)
(* and it deletes what its receipt lists.                                  *)

AbortSteps == {"abort delete", "abort mark"}

\* Some removal lists version s; some removal is about file f.
Listed(s) == \E h \in Handlers : s \in receipt[h].keys
Receipted(f) == \E h \in Handlers : receipt[h].file = f

BodyRequestOK(h, q) ==
  /\ q.at \notin AbortSteps
  /\ q.at \in {"finalize", "commit"} => q.upload \in stored \/ Listed(q.upload)
  /\ q.at = "approve" => receipt[h] = NoReceipt
  /\ q.at \in ReceiptSteps => receipt[h].file = q.file

BodyInv ==
  /\ \A s \in Sessions : version[s] # NoVersion => s \in stored \/ Listed(s)
  /\ \A f \in Files : file[f].status = "cloud_removed" => Receipted(f)
  /\ \A h \in Handlers : \A s \in receipt[h].keys : version[s].file = receipt[h].file
  /\ \A h \in Handlers : \A q : req[h] = q => BodyRequestOK(h, q)

LEMMA BodyInvKeepsBodies ==
  ASSUME Inv, BodyInv
  PROVE  BodiesKeptWithoutReceipt
<1> SUFFICES ASSUME NEW s \in Sessions, version[s] # NoVersion
             PROVE  /\ s \notin stored => Listed(s)
                    /\ ~Downloads(s) => Receipted(version[s].file)
  BY DEF BodiesKeptWithoutReceipt, Listed, Receipted
<1>1. s \in stored \/ Listed(s)
  BY DEF BodyInv
<1>2. Listed(s) => Receipted(version[s].file)
  BY DEF BodyInv, Listed, Receipted
<1>3. version[s].file \in Files
  BY DEF Inv, HistoryInv, VersionsOfFiles
<1> QED BY <1>1, <1>2, <1>3 DEF Downloads, BodyInv

LEMMA InitBodies == Init => BodyInv
<1> SUFFICES ASSUME Init PROVE BodyInv
  OBVIOUS
<1>1. \A h \in Handlers : receipt[h] = NoReceipt /\ NoReceipt.keys = {}
  BY DEF Init, NoReceipt
<1>2. \A f \in Files : file[f].status = "none"
  BY DEF Init, NoFile
<1>3. \A h \in Handlers : req[h].at = "idle"
  BY DEF Init, Idle
<1>4. \A s \in Sessions : version[s] = NoVersion
  BY DEF Init
<1> QED BY <1>1, <1>2, <1>3, <1>4 DEF BodyInv, BodyRequestOK, AbortSteps, ReceiptSteps

\* A step of one request: what it adds is stored or listed, and what is
\* stored, listed or receipted stays so.
LEMMA BodyStep ==
  ASSUME Inv, BodyInv, NEW h \in Handlers, NEW q, req' = [req EXCEPT ![h] = q], BodyRequestOK(h, q)',
         \A s \in Sessions : s \in stored \/ Listed(s) => s \in stored' \/ Listed(s)',
         \A s \in Sessions : version'[s] # NoVersion /\ version[s] = NoVersion => s \in stored' \/ Listed(s)',
         \A f \in Files : file'[f].status = "cloud_removed"
                            => file[f].status = "cloud_removed" \/ Receipted(f)',
         \A f \in Files : Receipted(f) => Receipted(f)',
         \A g \in Handlers \ {h} : receipt'[g] = receipt[g],
         \A g \in Handlers : \A s \in receipt'[g].keys : version'[s].file = receipt'[g].file
  PROVE  BodyInv'
<1>1. ASSUME NEW g \in Handlers, NEW p, req'[g] = p PROVE BodyRequestOK(g, p)'
  <2>1. CASE g = h
    BY <1>1, <2>1 DEF Inv, TypeOK
  <2>2. CASE g # h
    <3>1. req[g] = p /\ BodyRequestOK(g, p) /\ p \in Requests /\ RequestOK(g, p)
      BY <1>1, <2>2 DEF Inv, TypeOK, BodyInv, RequestsOK
    <3>2. p.at \in {"finalize", "commit"} => p.upload \in Sessions
      BY <3>1 DEF RequestOK, UploadSteps
    <3> QED BY <2>2, <3>1, <3>2 DEF BodyRequestOK
  <2> QED BY <2>1, <2>2
<1> QED BY <1>1 DEF BodyInv

\* A step of one request that stores, at most, and writes no version, no file
\* and no receipt.
LEMMA BodyMove ==
  ASSUME Inv, BodyInv, NEW h \in Handlers, NEW q, req' = [req EXCEPT ![h] = q], BodyRequestOK(h, q)',
         stored \subseteq stored', UNCHANGED <<version, file, receipt>>
  PROVE  BodyInv'
<1>1. \A s : Listed(s)' <=> Listed(s)
  BY DEF Listed
<1>2. \A f : Receipted(f)' <=> Receipted(f)
  BY DEF Receipted
<1>3. \A g \in Handlers : \A s \in receipt'[g].keys : version'[s].file = receipt'[g].file
  BY DEF BodyInv
<1> QED BY <1>1, <1>2, <1>3, BodyStep

\* A step of no request that edits files and leaves their status.
LEMMA BodyQuiet ==
  ASSUME BodyInv, UNCHANGED <<stored, version, receipt, req>>,
         \A f \in Files : file'[f].status = file[f].status
  PROVE  BodyInv'
<1>1. \A s : Listed(s)' <=> Listed(s)
  BY DEF Listed
<1>2. \A f : Receipted(f)' <=> Receipted(f)
  BY DEF Receipted
<1>3. ASSUME NEW g \in Handlers, NEW p, req[g] = p PROVE BodyRequestOK(g, p)'
  BY <1>1, <1>3 DEF BodyInv, BodyRequestOK
<1> QED BY <1>1, <1>2, <1>3 DEF BodyInv

\* A request that ends, or goes on to a step that relies on nothing new.
LEMMA BodyFinish ==
  ASSUME Inv, BodyInv, NEW h \in Handlers, Finish(h), stored \subseteq stored',
         UNCHANGED <<version, file, receipt>>
  PROVE  BodyInv'
<1>1. BodyRequestOK(h, Idle)'
  BY IdleIs DEF BodyRequestOK, AbortSteps, ReceiptSteps
<1> QED BY <1>1, BodyMove DEF Finish

LEMMA BodyGoto ==
  ASSUME Inv, BodyInv, NEW h \in Handlers, NEW at \in {"verify", "finalize", "put", "reset"}, Goto(h, at),
         at = "finalize" => req[h].upload \in stored,
         stored \subseteq stored', UNCHANGED <<version, file, receipt>>
  PROVE  BodyInv'
<1>1. PICK p \in Requests : p = req[h]
  BY DEF Inv, TypeOK
<1>2. PICK q : q = [p EXCEPT !.at = at]
  OBVIOUS
<1>3. q.at = at /\ q.upload = p.upload
  BY <1>1, <1>2 DEF Requests
<1>4. req' = [req EXCEPT ![h] = q]
  BY <1>1, <1>2 DEF Goto, Inv, TypeOK
<1>5. BodyRequestOK(h, q)'
  BY <1>1, <1>3 DEF BodyRequestOK, AbortSteps, ReceiptSteps
<1> QED BY <1>4, <1>5, BodyMove

LEMMA UploadBodies ==
  ASSUME Inv, BodyInv, NEW h \in Handlers,
         \/ SkipClaim(h) \/ ClaimPut(h) \/ StorePut(h) \/ FailPut(h) \/ ResetPut(h) \/ VerifyPut(h)
         \/ CommitAuthorize(h) \/ Drop(h)
  PROVE  BodyInv'
<1>1. CASE SkipClaim(h) \/ StorePut(h)
  BY <1>1, BodyGoto DEF SkipClaim, StorePut
<1>2. CASE ClaimPut(h)
  BY <1>2, BodyGoto DEF ClaimPut
<1>3. CASE FailPut(h)
  BY <1>3, BodyGoto DEF FailPut
<1>4. CASE VerifyPut(h)
  BY <1>4, BodyGoto DEF VerifyPut
<1>5. CASE ResetPut(h)
  BY <1>5, BodyFinish DEF ResetPut
<1>6. CASE CommitAuthorize(h) \/ Drop(h)
  BY <1>6, BodyFinish DEF CommitAuthorize, Drop
<1> QED BY <1>1, <1>2, <1>3, <1>4, <1>5, <1>6

\* A request begins; nothing is written.
LEMMA BodyBegin ==
  ASSUME Inv, BodyInv, NEW h \in Handlers, NEW q, Begin(h, q), q.at \in {"authorize", "head", "approve"},
         q.at = "approve" => receipt[h] = NoReceipt,
         UNCHANGED <<stored, version, file, receipt>>
  PROVE  BodyInv'
<1>1. BodyRequestOK(h, q)'
  BY DEF BodyRequestOK, AbortSteps, ReceiptSteps
<1> QED BY <1>1, BodyMove DEF Begin

LEMMA StartBodies ==
  ASSUME Inv, BodyInv, NEW h \in Handlers
  PROVE  /\ \A s, f : StartAuthorize(h, s, f) => BodyInv'
         /\ \A s : StartPut(h, s) => BodyInv'
         /\ \A f, job : StartRemove(h, f, job) => BodyInv'
<1>1. ASSUME NEW s, NEW f, StartAuthorize(h, s, f) PROVE BodyInv'
  <2>1. PICK q : q = [Idle EXCEPT !.at = "authorize", !.upload = s, !.file = f]
    OBVIOUS
  <2>2. q.at = "authorize"
    BY <2>1 DEF Idle
  <2> QED BY <1>1, <2>1, <2>2, BodyBegin DEF StartAuthorize
<1>2. ASSUME NEW s, StartPut(h, s) PROVE BodyInv'
  <2>1. PICK q : q = [Idle EXCEPT !.at = "head", !.upload = s]
    OBVIOUS
  <2>2. q.at = "head"
    BY <2>1 DEF Idle
  <2> QED BY <1>2, <2>1, <2>2, BodyBegin DEF StartPut
<1>3. ASSUME NEW f, NEW job, StartRemove(h, f, job) PROVE BodyInv'
  <2>1. PICK q : q = [Idle EXCEPT !.at = "approve", !.file = f, !.job = job]
    OBVIOUS
  <2>2. q.at = "approve"
    BY <2>1 DEF Idle
  <2> QED BY <1>3, <2>1, <2>2, BodyBegin DEF StartRemove
<1> QED BY <1>1, <1>2, <1>3

LEMMA ReadFinalizeBodies ==
  ASSUME Inv, BodyInv, NEW h \in Handlers, NEW f, NEW n, ReadFinalize(h, f, n)
  PROVE  BodyInv'
<1>1. PICK p \in Requests : p = req[h] /\ p.at = "finalize" /\ BodyRequestOK(h, p)
  BY DEF ReadFinalize, Inv, TypeOK, BodyInv
<1>2. PICK q : q = [p EXCEPT !.at = "commit", !.file = f, !.number = n]
  OBVIOUS
<1>3. q.at = "commit" /\ q.upload = p.upload
  BY <1>1, <1>2 DEF Requests
<1>4. req' = [req EXCEPT ![h] = q] /\ UNCHANGED <<stored, version, file, receipt>>
  BY <1>1, <1>2 DEF ReadFinalize, Inv, TypeOK
<1>5. Listed(p.upload) => Listed(p.upload)'
  BY <1>4 DEF Listed
<1>6. BodyRequestOK(h, q)'
  BY <1>1, <1>3, <1>4, <1>5 DEF BodyRequestOK, AbortSteps, ReceiptSteps
<1> QED BY <1>4, <1>6, BodyMove

LEMMA CommitFinalizeBodies ==
  ASSUME Inv, BodyInv, NEW h \in Handlers, CommitFinalize(h)
  PROVE  BodyInv'
<1>1. PICK p \in Requests : p = req[h] /\ p.at = "commit" /\ BodyRequestOK(h, p) /\ RequestOK(h, p)
  BY DEF CommitFinalize, Inv, TypeOK, BodyInv, RequestsOK
<1>2. PICK s \in Sessions, f \in Files, n \in Nat : s = p.upload /\ f = p.file /\ n = p.number
  BY <1>1 DEF RequestOK, UploadSteps
<1>3. Writes(s, f, n) /\ req' = [req EXCEPT ![h] = Idle] /\ UNCHANGED <<stored, receipt>>
  BY <1>1, <1>2, CommitWrites DEF CommitFinalize, Finish
<1>4. (\A r : Listed(r)' <=> Listed(r)) /\ (\A g : Receipted(g)' <=> Receipted(g))
  BY <1>3 DEF Listed, Receipted
<1>5. \A r \in Sessions : version'[r] # NoVersion /\ version[r] = NoVersion => r \in stored' \/ Listed(r)'
  BY <1>1, <1>2, <1>3, <1>4 DEF Writes, BodyRequestOK
<1>6. \A g \in Files : file'[g].status = "cloud_removed" => file[g].status = "cloud_removed"
  BY <1>3 DEF Writes
<1>7. \A g \in Handlers : \A r \in receipt'[g].keys : version'[r].file = receipt'[g].file
  <2> SUFFICES ASSUME NEW g \in Handlers, NEW r \in receipt[g].keys
               PROVE  version'[r].file = receipt[g].file
    BY <1>3
  <2>1. r \in Sessions /\ version[r] # NoVersion
    <3>1. receipt[g] # NoReceipt
      BY DEF NoReceipt
    <3> QED BY <3>1 DEF Inv, TypeOK, Receipts, ReceiptsOK, ReceiptOK
  <2>2. version'[r] = version[r]
    BY <1>3, <2>1 DEF Writes
  <2> QED BY <2>2 DEF BodyInv
<1>8. BodyRequestOK(h, Idle)'
  BY IdleIs DEF BodyRequestOK, AbortSteps, ReceiptSteps
<1> QED BY <1>3, <1>4, <1>5, <1>6, <1>7, <1>8, BodyStep

\* The next step of a removal.
LEMMA RemovalGoto ==
  ASSUME Inv, NEW h \in Handlers, NEW at \in ReceiptSteps, Goto(h, at),
         req[h].at \in {"approve"} \cup ReceiptSteps, receipt'[h].file = req[h].file
  PROVE  \E q : req' = [req EXCEPT ![h] = q] /\ BodyRequestOK(h, q)'
<1>1. PICK p \in Requests : p = req[h]
  BY DEF Inv, TypeOK
<1>2. PICK q : q = [p EXCEPT !.at = at]
  OBVIOUS
<1>3. q.at = at /\ q.file = p.file
  BY <1>1, <1>2 DEF Requests
<1>4. req' = [req EXCEPT ![h] = q]
  BY <1>1, <1>2 DEF Goto, Inv, TypeOK
<1>5. BodyRequestOK(h, q)'
  BY <1>1, <1>3 DEF BodyRequestOK, AbortSteps, ReceiptSteps
<1> QED BY <1>4, <1>5

LEMMA ApproveRemoveBodies ==
  ASSUME Inv, BodyInv, NEW h \in Handlers, ApproveRemove(h)
  PROVE  BodyInv'
<1>1. req[h].at = "approve" /\ receipt[h] = NoReceipt /\ req[h].file \in Files
  BY DEF ApproveRemove, BodyInv, BodyRequestOK, Inv, RequestsOK, RequestOK
<1>2. PICK f, r : f \in Files /\ f = req[h].file
        /\ r = [status |-> "approved", file |-> f, job |-> req[h].job, keys |-> VersionsOf(f)]
  BY <1>1
<1>3. receipt' = [receipt EXCEPT ![h] = r] /\ Goto(h, "revoke") /\ UNCHANGED <<stored, version, file>>
  BY <1>2 DEF ApproveRemove
<1>4. receipt'[h] = r /\ \A g \in Handlers \ {h} : receipt'[g] = receipt[g]
  BY <1>3 DEF Inv, TypeOK
<1>5. r.file = f /\ r.keys = VersionsOf(f)
  BY <1>2
<1>6. PICK q : req' = [req EXCEPT ![h] = q] /\ BodyRequestOK(h, q)'
  BY <1>1, <1>2, <1>3, <1>4, <1>5, RemovalGoto DEF ReceiptSteps
<1>7. \A s \in Sessions : Listed(s) => Listed(s)'
  BY <1>1, <1>4 DEF Listed, NoReceipt
<1>8. \A g \in Files : Receipted(g) => Receipted(g)'
  BY <1>1, <1>4, NilAssumption DEF Receipted, NoReceipt
<1>9. \A g \in Handlers : \A s \in receipt'[g].keys : version'[s].file = receipt'[g].file
  BY <1>3, <1>4, <1>5 DEF BodyInv, VersionsOf
<1> QED BY <1>3, <1>4, <1>6, <1>7, <1>8, <1>9, BodyStep

\* A receipt stays one of the same file and keys.
LEMMA SameReceipt ==
  ASSUME Inv, BodyInv, NEW h \in Handlers,
         receipt'[h].file = receipt[h].file, receipt'[h].keys = receipt[h].keys,
         \A g \in Handlers \ {h} : receipt'[g] = receipt[g], UNCHANGED version
  PROVE  /\ (\A s : Listed(s)' <=> Listed(s)) /\ (\A f : Receipted(f)' <=> Receipted(f))
         /\ \A g \in Handlers : \A s \in receipt'[g].keys : version'[s].file = receipt'[g].file
<1>1. \A g \in Handlers : receipt'[g].file = receipt[g].file /\ receipt'[g].keys = receipt[g].keys
  OBVIOUS
<1> QED BY <1>1 DEF Listed, Receipted, BodyInv

LEMMA RemovalFile ==
  ASSUME BodyInv, NEW h \in Handlers, req[h].at \in ReceiptSteps
  PROVE  receipt[h].file = req[h].file
BY DEF BodyInv, BodyRequestOK

LEMMA RevokeAccessBodies ==
  ASSUME Inv, BodyInv, NEW h \in Handlers, RevokeAccess(h)
  PROVE  BodyInv'
<1>1. req[h].at \in ReceiptSteps /\ receipt[h].file = req[h].file
  BY RemovalFile DEF RevokeAccess, ReceiptSteps
<1>2. PICK f \in Files : f = req[h].file
  BY <1>1 DEF Inv, RequestsOK, RequestOK
<1>3. UNCHANGED <<stored, version, receipt>> /\ Goto(h, "delete")
  BY DEF RevokeAccess
<1>4. \A g \in Files \ {f} : file'[g] = file[g]
  BY <1>2 DEF RevokeAccess, Inv, TypeOK
<1>5. (\A s : Listed(s)' <=> Listed(s)) /\ (\A g : Receipted(g)' <=> Receipted(g))
      /\ \A g \in Handlers : \A s \in receipt'[g].keys : version'[s].file = receipt'[g].file
  BY <1>3, SameReceipt
<1>6. Receipted(f)
  BY <1>1, <1>2 DEF Receipted
<1>7. PICK q : req' = [req EXCEPT ![h] = q] /\ BodyRequestOK(h, q)'
  BY <1>1, <1>3, RemovalGoto DEF ReceiptSteps
<1> QED BY <1>3, <1>4, <1>5, <1>6, <1>7, BodyStep

LEMMA DeleteBodiesListed ==
  ASSUME Inv, BodyInv, NEW h \in Handlers, NEW gone, DeleteBodies(h, gone)
  PROVE  BodyInv'
<1>1. req[h].at \in ReceiptSteps /\ receipt[h].file = req[h].file
  BY RemovalFile DEF DeleteBodies, ReceiptSteps
<1>2. UNCHANGED <<version, file, receipt>>
  BY DEF DeleteBodies
<1>3. (\A s : Listed(s)' <=> Listed(s)) /\ (\A g : Receipted(g)' <=> Receipted(g))
      /\ \A g \in Handlers : \A s \in receipt'[g].keys : version'[s].file = receipt'[g].file
  BY <1>2, SameReceipt
<1>4. \A s \in Sessions : s \in stored => s \in stored' \/ Listed(s)
  BY DEF DeleteBodies, Listed
<1>5. PICK at \in ReceiptSteps : Goto(h, at)
  BY DEF DeleteBodies, ReceiptSteps
<1>6. PICK q : req' = [req EXCEPT ![h] = q] /\ BodyRequestOK(h, q)'
  BY <1>1, <1>2, <1>5, RemovalGoto
<1> QED BY <1>2, <1>3, <1>4, <1>6, BodyStep

LEMMA EndRemoveBodies ==
  ASSUME Inv, BodyInv, NEW h \in Handlers, CompleteRemove(h) \/ FailRemove(h)
  PROVE  BodyInv'
<1>1. PICK st : receipt' = [receipt EXCEPT ![h].status = st]
  BY DEF CompleteRemove, FailRemove
<1>2. UNCHANGED <<stored, version, file>> /\ req' = [req EXCEPT ![h] = Idle]
  BY DEF CompleteRemove, FailRemove, Finish
<1>3. /\ receipt'[h].file = receipt[h].file /\ receipt'[h].keys = receipt[h].keys
      /\ \A g \in Handlers \ {h} : receipt'[g] = receipt[g]
  <2>1. PICK a \in Receipts : a = receipt[h]
    BY DEF Inv, TypeOK
  <2>2. PICK b : b = [a EXCEPT !.status = st]
    OBVIOUS
  <2>3. b.file = a.file /\ b.keys = a.keys
    BY <2>1, <2>2 DEF Receipts
  <2>4. receipt' = [receipt EXCEPT ![h] = b]
    BY <1>1, <2>1, <2>2 DEF Inv, TypeOK
  <2> QED BY <2>1, <2>3, <2>4 DEF Inv, TypeOK
<1>4. (\A s : Listed(s)' <=> Listed(s)) /\ (\A g : Receipted(g)' <=> Receipted(g))
      /\ \A g \in Handlers : \A s \in receipt'[g].keys : version'[s].file = receipt'[g].file
  BY <1>2, <1>3, SameReceipt
<1>5. BodyRequestOK(h, Idle)'
  BY IdleIs DEF BodyRequestOK, AbortSteps, ReceiptSteps
<1> QED BY <1>2, <1>3, <1>4, <1>5, BodyStep

LEMMA EnvironmentBodies ==
  ASSUME Inv, BodyInv, Environment
  PROVE  BodyInv'
<1>1. ASSUME NEW f \in Files, NEW row, row.status = file[f].status, file' = [file EXCEPT ![f] = row],
             UNCHANGED <<stored, version, receipt, req>>
      PROVE  BodyInv'
  <2>1. \A g \in Files : file'[g].status = file[g].status
    BY <1>1 DEF Inv, TypeOK
  <2> QED BY <1>1, <2>1, BodyQuiet
<1>2. ASSUME NEW f \in Files, NEW archived, Archive(f, archived) PROVE BodyInv'
  <2>1. PICK row : row = [file[f] EXCEPT !.archived = archived]
    OBVIOUS
  <2>2. row.status = file[f].status
    BY <2>1 DEF Inv, TypeOK, FileRows
  <2> QED BY <1>1, <1>2, <2>1, <2>2 DEF Archive
<1>3. ASSUME NEW f \in Files, NEW s, MakeCurrent(f, s) PROVE BodyInv'
  <2>1. PICK row : row = [file[f] EXCEPT !.current = s]
    OBVIOUS
  <2>2. row.status = file[f].status
    BY <2>1 DEF Inv, TypeOK, FileRows
  <2> QED BY <1>1, <1>3, <2>1, <2>2 DEF MakeCurrent
<1>4. CASE \/ \E f \in Files : SetHold(f) \/ ReachRetention(f)
           \/ \E job \in SUBSET Sessions : VerifyArchive(job)
           \/ \E s \in Sessions : Expire(s) \/ Age(s)
  BY <1>4, BodyQuiet DEF SetHold, ReachRetention, VerifyArchive, Expire, Age
<1> QED BY <1>2, <1>3, <1>4 DEF Environment

\* Every step but the start of an abort.
LEMMA NextBodies ==
  ASSUME Inv, BodyInv, [Next]_vars, \A h \in Handlers, s \in Sessions : ~StartAbort(h, s)
  PROVE  BodyInv'
<1>1. CASE UNCHANGED vars
  BY <1>1, BodyQuiet DEF vars
<1>2. ASSUME NEW h \in Handlers, HandlerStep(h) PROVE BodyInv'
  <2>1. ~AbortDelete(h) /\ ~AbortMark(h)
    BY DEF AbortDelete, AbortMark, AbortSteps, BodyInv, BodyRequestOK
  <2>2. CASE PutStep(h)
    BY <2>2, UploadBodies, ReadFinalizeBodies, CommitFinalizeBodies DEF PutStep, Finalize
  <2>3. CASE RemoveStep(h)
    BY <2>3, ApproveRemoveBodies, RevokeAccessBodies, DeleteBodiesListed, EndRemoveBodies DEF RemoveStep
  <2> QED BY <1>2, <2>1, <2>2, <2>3, UploadBodies, StartBodies DEF HandlerStep
<1> QED BY <1>1, <1>2, EnvironmentBodies DEF Next

\* Where nobody aborts an upload, the bodies of all versions are stored or
\* listed by a removal, and a download is refused only for one (files.ts:634-757).
THEOREM BodiesAreKept ==
  ASSUME "abort" \notin UserCalls
  PROVE  Spec => []BodiesKeptWithoutReceipt
<1>1. \A h \in Handlers, s \in Sessions : ~StartAbort(h, s)
  BY DEF StartAbort
<1>2. Inv /\ BodyInv /\ [Next]_vars => BodyInv'
  BY <1>1, NextBodies
<1>3. Inv /\ BodyInv => BodiesKeptWithoutReceipt
  BY BodyInvKeepsBodies
<1> QED BY <1>2, <1>3, InitBodies, AlwaysInv, PTL DEF Spec

----------------------------------------------------------------------------
(* The behaviours of MCFiles.                                              *)

LEMMA FilesStep ==
  ASSUME Inv, focus = "removal" => BodyInv, [FilesNext]_filesVars
  PROVE  [Next]_vars /\ (focus' = "removal" => BodyInv')
<1>1. CASE UNCHANGED filesVars
  BY <1>1, BodyQuiet DEF filesVars, vars
<1>2. CASE Uploading /\ UNCHANGED focus
  BY <1>2 DEF Uploading
<1>3. CASE Removing /\ UNCHANGED focus
  <2>1. ASSUME NEW h \in Handlers, NEW s \in Sessions, StartAbort(h, s) PROVE FALSE
    <3>1. PICK q : q = [Idle EXCEPT !.at = "abort delete", !.upload = s]
      OBVIOUS
    <3>2. q.at = "abort delete"
      BY <3>1 DEF Idle
    <3>3. req'[h] = q
      BY <2>1, <3>1 DEF StartAbort, Begin, Inv, TypeOK
    <3> QED BY <1>3, <3>2, <3>3 DEF Removing
  <2>2. Next /\ focus = "removal"
    BY <1>3 DEF Removing
  <2> QED BY <2>1, <2>2, NextBodies
<1> QED BY <1>1, <1>2, <1>3 DEF FilesNext

\* What the run files checks on a few uploads: while one file's cloud copies are
\* removed and nobody aborts, no body goes that a removal did not list
\* (files.ts:634-757).
THEOREM RemovalsKeepBodies == FilesSpec => []RemovalKeepsBodies
<1> DEFINE J == Inv /\ (focus = "removal" => BodyInv)
<1>1. FilesInit => J
  BY InitInv, InitBodies DEF FilesInit
<1>2. J /\ [FilesNext]_filesVars => J'
  BY FilesStep, NextInv
<1>3. J => RemovalKeepsBodies
  BY BodyInvKeepsBodies DEF RemovalKeepsBodies
<1> HIDE DEF J
<1> QED BY <1>1, <1>2, <1>3, PTL DEF FilesSpec
=============================================================================
