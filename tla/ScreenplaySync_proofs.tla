----------------------- MODULE ScreenplaySync_proofs -----------------------
(***************************************************************************)
(* A synchronisation is applied once and for good, and a draft scene keeps *)
(* its link, for any scenes, texts, imports, handlers and bounds.          *)
(*                                                                         *)
(* Most proofs never look inside the preview or the application: they rest *)
(* on who may write, what the guards compare and what a batch leaves       *)
(* alone.  What an application shows is followed through its statements,   *)
(* by induction over the mappings.                                         *)
(***************************************************************************)
EXTENDS ScreenplaySync, FiniteSetTheorems, SequenceTheorems, WellFoundedInduction, TLAPS

\* The rows, whatever their contents are.
IsSync(s) == s = [status |-> s.status, maps |-> s.maps]

SyncsAre == sync = [r \in Revisions |-> sync[r]] /\ \A r \in Revisions : IsSync(sync[r])

\* A request knows the revision it is about.
RequestsAre ==
  /\ req = [h \in Handlers |-> req[h]]
  /\ \A h \in Handlers : req[h].at \in {"issue", "decide", "apply"} => req[h].revision \in Revisions

RowsInv == SyncsAre /\ RequestsAre

LEMMA InitRows == Init => RowsInv
<1> SUFFICES ASSUME Init PROVE RowsInv
  OBVIOUS
<1>1. \A r \in Revisions : sync[r] = NoSync
  BY DEF Init
<1>2. SyncsAre
  BY <1>1 DEF Init, SyncsAre, IsSync, NoSync
<1>3. \A h \in Handlers : req[h].at = "idle"
  BY DEF Init, Idle
<1>4. req = [h \in Handlers |-> req[h]]
  BY DEF Init
<1> QED BY <1>2, <1>3, <1>4 DEF RowsInv, RequestsAre

\* What a step that begins a request or moves it on leaves true of requests.
LEMMA NewRequest ==
  ASSUME RowsInv, NEW h \in Handlers, NEW q, req' = [req EXCEPT ![h] = q],
         q.at \in {"issue", "decide", "apply"} => q.revision \in Revisions
  PROVE  RequestsAre'
BY DEF RowsInv, RequestsAre

LEMMA FinishedRequest ==
  ASSUME RowsInv, NEW h \in Handlers, Finish(h)
  PROVE  RequestsAre'
BY NewRequest DEF Finish, Idle

\* One row of the synchronisations is written.
LEMMA WrittenSync ==
  ASSUME SyncsAre, NEW r \in Revisions, NEW s, IsSync(s), sync' = [sync EXCEPT ![r] = s]
  PROVE  SyncsAre' /\ sync'[r] = s /\ \A o \in Revisions \ {r} : sync'[o] = sync[o]
BY DEF SyncsAre

----------------------------------------------------------------------------
(* An application is the only step that shows or changes a scene.          *)

\* What the steps of other handlers and of users leave alone.
LEMMA RowsKept ==
  ASSUME RowsInv, UNCHANGED <<scene, sync>>
  PROVE  SyncsAre' /\ Production' = Production
BY DEF RowsInv, SyncsAre, IsSync, Production, Graph

SyncStep == (Production' # Production => \E r \in Revisions : Applies(r))
            /\ \A r \in Revisions : sync[r].status = "applied" => sync'[r] = sync[r]

LEMMA KeptSyncStep ==
  ASSUME RowsInv, UNCHANGED <<scene, sync>>
  PROVE  SyncStep
BY RowsKept DEF SyncStep

LEMMA CommitRevisionRows ==
  ASSUME RowsInv, NEW h \in Handlers, CommitRevision(h)
  PROVE  RowsInv' /\ SyncStep
<1>1. PICK r \in Revisions : r = req[h].revision
  BY DEF CommitRevision, RowsInv, RequestsAre
<1>2. PICK s : s = [status |-> StatusOf(req[h].maps), maps |-> req[h].maps]
  OBVIOUS
<1>3. IsSync(s) /\ sync' = [sync EXCEPT ![r] = s] /\ sync[r] = NoSync
  BY <1>1, <1>2 DEF CommitRevision, IsSync
<1>4. SyncsAre' /\ \A o \in Revisions \ {r} : sync'[o] = sync[o]
  BY <1>3, WrittenSync DEF RowsInv
<1>5. PICK added : scene' = [x \in Scenes |->
        IF x \in added /\ ~scene[x].exists THEN Await(x, TextOf(req[h].maps, x)) ELSE scene[x]]
  BY DEF CommitRevision
<1>6. ASSUME NEW x \in Scenes
      PROVE  scene'[x] = scene[x] \/ (x \notin Graph(scene) /\ x \notin Graph(scene'))
  <2> DEFINE row == Await(x, TextOf(req[h].maps, x))
  <2>1. row.archived = TRUE
    BY DEF Await, NoScene
  <2> HIDE DEF row
  <2>2. scene'[x] = IF x \in added /\ ~scene[x].exists THEN row ELSE scene[x]
    BY <1>5 DEF row
  <2> QED BY <2>1, <2>2 DEF Graph
<1>7. Production' = Production
  <2>1. Graph(scene') = Graph(scene)
    BY <1>6 DEF Graph
  <2>2. \A x \in Graph(scene) : scene'[x] = scene[x]
    BY <1>6 DEF Graph
  <2> QED BY <2>1, <2>2 DEF Production
<1>8. RequestsAre'
  BY FinishedRequest DEF CommitRevision
<1> QED BY <1>3, <1>4, <1>7, <1>8 DEF RowsInv, SyncStep, NoSync

LEMMA CommitDecideRows ==
  ASSUME RowsInv, NEW h \in Handlers, CommitDecide(h)
  PROVE  RowsInv' /\ SyncStep
<1>1. PICK r \in Revisions : r = req[h].revision
  BY DEF CommitDecide, RowsInv, RequestsAre
<1>2. PICK maps : sync' = [sync EXCEPT ![r] = [status |-> StatusOf(maps), maps |-> maps]]
  BY <1>1 DEF CommitDecide
<1>3. PICK s : s = [status |-> StatusOf(maps), maps |-> maps]
  OBVIOUS
<1>4. IsSync(s) /\ sync' = [sync EXCEPT ![r] = s]
  BY <1>2, <1>3 DEF IsSync
<1>5. sync[r].status # "applied" /\ UNCHANGED scene
  BY <1>1 DEF CommitDecide, NotApplied
<1>6. SyncsAre' /\ \A o \in Revisions \ {r} : sync'[o] = sync[o]
  BY <1>4, WrittenSync DEF RowsInv
<1>7. RequestsAre'
  BY FinishedRequest DEF CommitDecide
<1> QED BY <1>5, <1>6, <1>7 DEF RowsInv, SyncStep, Production, Graph

LEMMA CommitApplyRows ==
  ASSUME RowsInv, NEW h \in Handlers, CommitApply(h)
  PROVE  RowsInv' /\ SyncStep
<1>1. PICK r \in Revisions : r = req[h].revision
  BY DEF CommitApply, RowsInv, RequestsAre
<1> DEFINE s == [sync[r] EXCEPT !.status = "applied"]
<1>2. IsSync(s) /\ s.status = "applied"
  BY DEF IsSync, RowsInv, SyncsAre
<1>3. sync' = [sync EXCEPT ![r] = s] /\ sync[r].status # "applied"
  BY <1>1 DEF CommitApply, NotApplied
<1> HIDE DEF s
<1>4. SyncsAre' /\ sync'[r] = s /\ \A o \in Revisions \ {r} : sync'[o] = sync[o]
  BY <1>2, <1>3, WrittenSync DEF RowsInv
<1>5. RequestsAre'
  BY FinishedRequest DEF CommitApply
<1> QED BY <1>2, <1>3, <1>4, <1>5 DEF RowsInv, SyncStep, Applies

\* The steps that write neither a scene nor a synchronisation.
LEMMA OtherRows ==
  ASSUME RowsInv, [Next]_vars,
         \A h \in Handlers : ~CommitRevision(h) /\ ~CommitDecide(h) /\ ~CommitApply(h)
  PROVE  RowsInv' /\ SyncStep
<1>1. UNCHANGED <<scene, sync>>
  <2>1. UNCHANGED <<scene, sync>> \/ \E h \in Handlers : HandlerStep(h)
    BY DEF Next, vars, AddScene, Import, AddWork
  <2>2. ASSUME NEW h \in Handlers, HandlerStep(h) PROVE UNCHANGED <<scene, sync>>
    BY <2>2 DEF HandlerStep, StartSave, CommitSave, StartRevision, ReadRevision, StartDecide,
                StartApply, Drop
  <2> QED BY <2>1, <2>2
<1>2. RequestsAre'
  <2>1. CASE UNCHANGED req
    BY <2>1 DEF RowsInv, RequestsAre
  <2>2. ASSUME NEW h \in Handlers, CommitSave(h) \/ Drop(h) PROVE RequestsAre'
    BY <2>2, FinishedRequest DEF CommitSave, Drop
  <2>3. ASSUME NEW h \in Handlers, StartSave(h) PROVE RequestsAre'
    BY <2>3, NewRequest DEF StartSave, Begin
  <2>4. ASSUME NEW h \in Handlers, StartRevision(h) PROVE RequestsAre'
    BY <2>4, NewRequest DEF StartRevision, Begin
  <2>5. ASSUME NEW h \in Handlers, ReadRevision(h) PROVE RequestsAre'
    <3>1. PICK maps : req' = [req EXCEPT ![h] = [at |-> "issue", revision |-> NextRevision, maps |-> maps]]
      BY <2>5 DEF ReadRevision
    <3>2. PICK q : q = [at |-> "issue", revision |-> NextRevision, maps |-> maps]
      OBVIOUS
    <3>3. NextRevision \in Revisions
      BY <2>5 DEF ReadRevision
    <3> QED BY <3>1, <3>2, <3>3, NewRequest
  <2>6. ASSUME NEW h \in Handlers, NEW r \in Revisions, NEW i, NEW d, NEW t, StartDecide(h, r, i, d, t)
        PROVE  RequestsAre'
    <3>1. PICK q : q = [at |-> "decide", revision |-> r, mapping |-> i, decision |-> d,
                        target |-> IF d = "remap" THEN t ELSE sync[r].maps[i].prior]
      OBVIOUS
    <3>2. req' = [req EXCEPT ![h] = q] /\ q.revision = r
      BY <2>6, <3>1 DEF StartDecide, Begin
    <3> QED BY <3>2, NewRequest
  <2>7. ASSUME NEW h \in Handlers, NEW r \in Revisions, StartApply(h, r) PROVE RequestsAre'
    <3>1. PICK q : q = [at |-> "apply", revision |-> r, maps |-> sync[r].maps]
      OBVIOUS
    <3>2. req' = [req EXCEPT ![h] = q] /\ q.revision = r
      BY <2>7, <3>1 DEF StartApply, Begin
    <3> QED BY <3>2, NewRequest
  <2> QED BY <2>1, <2>2, <2>3, <2>4, <2>5, <2>6, <2>7
    DEF Next, HandlerStep, vars, AddScene, Import, AddWork
<1> QED BY <1>1, <1>2, RowsKept, KeptSyncStep DEF RowsInv

LEMMA NextRows ==
  ASSUME RowsInv, [Next]_vars
  PROVE  RowsInv' /\ SyncStep
BY CommitRevisionRows, CommitDecideRows, CommitApplyRows, OtherRows

LEMMA AlwaysRows == Spec => []RowsInv
BY InitRows, NextRows, PTL DEF Spec

\* Scenes are shown, hidden and changed only by the step that applies a
\* synchronisation, and an applied one is never written again, whatever was
\* decided or prepared meanwhile (screenplay.ts:892, :1012-1144).
THEOREM SynchronisationsEnd == Spec => SyncsEndOnce
<1>1. RowsInv /\ [Next]_vars => [Production' # Production => \E r \in Revisions : Applies(r)]_vars
  BY NextRows DEF SyncStep
<1>2. RowsInv /\ [Next]_vars
        => [\A r \in Revisions : sync[r].status = "applied" => sync'[r] = sync[r]]_vars
  BY NextRows DEF SyncStep
<1>3. Spec => ChangedOnlyByApply
  BY <1>1, AlwaysRows, PTL DEF Spec, ChangedOnlyByApply
<1>4. Spec => AppliedIsFinal
  BY <1>2, AlwaysRows, PTL DEF Spec, AppliedIsFinal
<1> QED BY <1>3, <1>4 DEF SyncsEndOnce

----------------------------------------------------------------------------
(* What is applied was reviewed.  An application reads the decisions first *)
(* and its batch does not compare them: it relies on decisions that change *)
(* but are never taken back, and on a synchronisation that is made once.   *)

\* The mappings of one synchronisation, whatever the preview found.
Mappings(maps) ==
  /\ maps = [i \in DOMAIN maps |-> maps[i]]
  /\ \A i \in DOMAIN maps : {"resolution", "resolved", "decisions"} \subseteq DOMAIN maps[i]

Prepared(s) == s.status \in {"needs_resolution", "ready", "applied"}

SyncOK(s) ==
  /\ Mappings(s.maps)
  /\ s = NoSync \/ Prepared(s)
  /\ s.status = "applied" => Reviewed(s.maps)

\* What a request that waits for its batch relies on.
ReviewOK(q) ==
  /\ q.at = "issue" => Mappings(q.maps)
  /\ q.at = "decide" => q.decision # Nil
  /\ q.at = "apply" => Prepared(sync[q.revision]) /\ Reviewed(sync[q.revision].maps)

ReviewInv ==
  /\ \A r \in Revisions : SyncOK(sync[r])
  /\ \A h \in Handlers : \A q : req[h] = q => ReviewOK(q)

LEMMA InitReview == Init => ReviewInv
<1> SUFFICES ASSUME Init PROVE ReviewInv
  OBVIOUS
<1>1. \A r \in Revisions : sync[r] = NoSync
  BY DEF Init
<1>2. SyncOK(NoSync)
  <2>1. NoSync.maps = <<>> /\ NoSync.status = "none"
    BY DEF NoSync
  <2>2. Mappings(<<>>)
    BY DEF Mappings
  <2> QED BY <2>1, <2>2 DEF SyncOK
<1>3. \A h \in Handlers : req[h].at = "idle"
  BY DEF Init, Idle
<1> QED BY <1>1, <1>2, <1>3 DEF ReviewInv, ReviewOK

\* One request is written; what was reviewed stays so.
LEMMA ReviewStep ==
  ASSUME RowsInv, ReviewInv, NEW h \in Handlers, NEW q, req' = [req EXCEPT ![h] = q], ReviewOK(q)',
         \A r \in Revisions : SyncOK(sync'[r]),
         \A r \in Revisions : Prepared(sync[r]) /\ Reviewed(sync[r].maps)
                               => Prepared(sync'[r]) /\ Reviewed(sync'[r].maps)
  PROVE  ReviewInv'
<1>1. ASSUME NEW g \in Handlers, NEW p, req'[g] = p PROVE ReviewOK(p)'
  <2>1. CASE g = h
    BY <1>1, <2>1 DEF RowsInv, RequestsAre
  <2>2. CASE g # h
    <3>1. req[g] = p /\ ReviewOK(p)
      BY <1>1, <2>2 DEF RowsInv, RequestsAre, ReviewInv
    <3>2. p.at = "apply" => p.revision \in Revisions
      BY <3>1 DEF RowsInv, RequestsAre
    <3> QED BY <3>1, <3>2 DEF ReviewOK
  <2> QED BY <2>1, <2>2
<1> QED BY <1>1 DEF ReviewInv

\* A request begins, moves on or ends, and no synchronisation is written.
LEMMA ReviewKept ==
  ASSUME RowsInv, ReviewInv, NEW h \in Handlers, NEW q, req' = [req EXCEPT ![h] = q], ReviewOK(q),
         UNCHANGED sync
  PROVE  ReviewInv'
<1>1. ReviewOK(q)'
  BY DEF ReviewOK
<1>2. \A r \in Revisions : SyncOK(sync'[r])
  BY DEF ReviewInv
<1> QED BY <1>1, <1>2, ReviewStep

LEMMA IdleReview == ReviewOK(Idle) /\ ReviewOK(Idle)'
BY DEF ReviewOK, Idle

Decided(maps, m, d, t) ==
  [maps EXCEPT ![m].resolution = d, ![m].resolved = t, ![m].decisions = @ + 1]

\* A decision takes none back: it gives one mapping another one.
LEMMA DecidedMappings ==
  ASSUME NEW maps, Mappings(maps), NEW m, NEW d, d # Nil, NEW t
  PROVE  /\ Mappings(Decided(maps, m, d, t))
         /\ Reviewed(maps) => Reviewed(Decided(maps, m, d, t))
<1>0. PICK new : new = Decided(maps, m, d, t)
  OBVIOUS
<1>1. CASE m \notin DOMAIN maps
  <2>1. new = maps
    BY <1>0, <1>1 DEF Mappings, Decided
  <2> QED BY <1>0, <2>1
<1>2. CASE m \in DOMAIN maps
  <2>1. PICK a : a = maps[m] /\ {"resolution", "resolved", "decisions"} \subseteq DOMAIN a
    BY <1>2 DEF Mappings
  <2>2. PICK b : b = [a EXCEPT !.resolution = d, !.resolved = t, !.decisions = @ + 1]
    OBVIOUS
  <2>3. DOMAIN b = DOMAIN a /\ b.resolution = d
    BY <2>1, <2>2
  <2>4. new = [maps EXCEPT ![m] = b]
    BY <1>0, <1>2, <2>1, <2>2 DEF Decided
  <2>5. /\ DOMAIN new = DOMAIN maps /\ new = [i \in DOMAIN maps |-> new[i]]
        /\ new[m] = b /\ \A i \in DOMAIN maps \ {m} : new[i] = maps[i]
    BY <1>2, <2>4 DEF Mappings
  <2>6. Mappings(new)
    BY <2>1, <2>3, <2>5 DEF Mappings
  <2> QED BY <1>0, <2>3, <2>5, <2>6 DEF Reviewed
<1> QED BY <1>1, <1>2

\* A status that was worked out is not that of an applied synchronisation.
LEMMA WorkedOut ==
  ASSUME NEW maps, Mappings(maps), NEW s, s = [status |-> StatusOf(maps), maps |-> maps]
  PROVE  SyncOK(s) /\ Prepared(s) /\ s.maps = maps /\ IsSync(s)
BY DEF StatusOf, SyncOK, Prepared, IsSync

LEMMA CommitRevisionReview ==
  ASSUME RowsInv, ReviewInv, NEW h \in Handlers, CommitRevision(h)
  PROVE  ReviewInv'
<1>1. PICK r \in Revisions : r = req[h].revision
  BY DEF CommitRevision, RowsInv, RequestsAre
<1>2. PICK maps : maps = req[h].maps /\ Mappings(maps)
  BY DEF CommitRevision, ReviewInv, ReviewOK
<1>3. PICK s : s = [status |-> StatusOf(maps), maps |-> maps]
  OBVIOUS
<1>4. sync' = [sync EXCEPT ![r] = s] /\ sync[r] = NoSync /\ req' = [req EXCEPT ![h] = Idle]
  BY <1>1, <1>2, <1>3 DEF CommitRevision, Finish
<1>5. SyncOK(s) /\ IsSync(s)
  BY <1>2, <1>3, WorkedOut
<1>6. sync'[r] = s /\ \A o \in Revisions \ {r} : sync'[o] = sync[o]
  BY <1>4, <1>5, WrittenSync DEF RowsInv
<1>7. ~Prepared(sync[r])
  BY <1>4 DEF NoSync, Prepared
<1>8. \A o \in Revisions : SyncOK(sync'[o])
  BY <1>5, <1>6 DEF ReviewInv
<1> QED BY <1>4, <1>6, <1>7, <1>8, IdleReview, ReviewStep

LEMMA CommitDecideReview ==
  ASSUME RowsInv, ReviewInv, NEW h \in Handlers, CommitDecide(h)
  PROVE  ReviewInv'
<1>1. PICK r \in Revisions : r = req[h].revision
  BY DEF CommitDecide, RowsInv, RequestsAre
<1>2. PICK m, d, t : m = req[h].mapping /\ d = req[h].decision /\ t = req[h].target /\ d # Nil
  <2>1. req[h].at = "decide" /\ ReviewOK(req[h])
    BY DEF CommitDecide, ReviewInv
  <2> QED BY <2>1 DEF ReviewOK
<1>3. PICK maps : maps = sync[r].maps /\ Mappings(maps)
  BY DEF ReviewInv, SyncOK
<1>4. PICK new : new = Decided(maps, m, d, t)
  OBVIOUS
<1>5. Mappings(new) /\ (Reviewed(maps) => Reviewed(new))
  BY <1>2, <1>3, <1>4, DecidedMappings
<1>6. PICK s : s = [status |-> StatusOf(new), maps |-> new]
  OBVIOUS
<1>7. sync' = [sync EXCEPT ![r] = s] /\ req' = [req EXCEPT ![h] = Idle]
  BY <1>1, <1>2, <1>3, <1>4, <1>6 DEF CommitDecide, Finish, Decided
<1>8. SyncOK(s) /\ Prepared(s) /\ s.maps = new /\ IsSync(s)
  BY <1>5, <1>6, WorkedOut
<1>9. sync'[r] = s /\ \A o \in Revisions \ {r} : sync'[o] = sync[o]
  BY <1>7, <1>8, WrittenSync DEF RowsInv
<1>10. \A o \in Revisions : SyncOK(sync'[o])
  BY <1>8, <1>9 DEF ReviewInv
<1> QED BY <1>3, <1>5, <1>7, <1>8, <1>9, <1>10, IdleReview, ReviewStep

LEMMA CommitApplyReview ==
  ASSUME RowsInv, ReviewInv, NEW h \in Handlers, CommitApply(h)
  PROVE  ReviewInv'
<1>1. PICK r \in Revisions : r = req[h].revision
  BY DEF CommitApply, RowsInv, RequestsAre
<1>2. Prepared(sync[r]) /\ Reviewed(sync[r].maps) /\ Mappings(sync[r].maps) /\ IsSync(sync[r])
  BY <1>1 DEF CommitApply, ReviewInv, ReviewOK, SyncOK, RowsInv, SyncsAre
<1>3. PICK s : s = [sync[r] EXCEPT !.status = "applied"]
  OBVIOUS
<1>4. s.status = "applied" /\ s.maps = sync[r].maps /\ IsSync(s)
  BY <1>2, <1>3 DEF IsSync
<1>5. SyncOK(s) /\ Prepared(s)
  BY <1>2, <1>4 DEF SyncOK, Prepared
<1>6. sync' = [sync EXCEPT ![r] = s] /\ req' = [req EXCEPT ![h] = Idle]
  BY <1>1, <1>3 DEF CommitApply, Finish
<1>7. sync'[r] = s /\ \A o \in Revisions \ {r} : sync'[o] = sync[o]
  BY <1>4, <1>6, WrittenSync DEF RowsInv
<1>8. \A o \in Revisions : SyncOK(sync'[o])
  BY <1>5, <1>7 DEF ReviewInv
<1> QED BY <1>4, <1>5, <1>6, <1>7, <1>8, IdleReview, ReviewStep

\* The steps that write no synchronisation.
LEMMA HandlerReview ==
  ASSUME RowsInv, ReviewInv, NEW h \in Handlers, HandlerStep(h)
  PROVE  ReviewInv'
<1>1. CASE StartSave(h)
  <2>1. PICK d : Begin(h, [at |-> "save", draft |-> d, expected |-> version]) /\ UNCHANGED sync
    BY <1>1 DEF StartSave
  <2>2. PICK q : q = [at |-> "save", draft |-> d, expected |-> version]
    OBVIOUS
  <2>3. req' = [req EXCEPT ![h] = q] /\ ReviewOK(q)
    BY <2>1, <2>2 DEF Begin, ReviewOK
  <2> QED BY <2>1, <2>3, ReviewKept
<1>2. CASE StartRevision(h)
  <2>1. PICK q : q = [at |-> "read"]
    OBVIOUS
  <2>2. req' = [req EXCEPT ![h] = q] /\ ReviewOK(q) /\ UNCHANGED sync
    BY <1>2, <2>1 DEF StartRevision, Begin, ReviewOK
  <2> QED BY <2>2, ReviewKept
<1>3. CASE ReadRevision(h)
  <2> DEFINE preview == Preview(scene, locked)
             rows(order) == [i \in DOMAIN preview |-> Mapping(preview[order[i]])]
  <2>1. PICK order : req' = [req EXCEPT ![h] = [at |-> "issue", revision |-> NextRevision,
                                                maps |-> rows(order)]]
                     /\ UNCHANGED sync
    BY <1>3 DEF ReadRevision
  <2>2. ASSUME NEW p PROVE {"resolution", "resolved", "decisions"} \subseteq DOMAIN Mapping(p)
    BY DEF Mapping
  <2>3. Mappings(rows(order))
    <3> HIDE DEF preview
    <3>1. DOMAIN rows(order) = DOMAIN preview
          /\ \A i \in DOMAIN preview : rows(order)[i] = Mapping(preview[order[i]])
      OBVIOUS
    <3>2. rows(order) = [i \in DOMAIN rows(order) |-> rows(order)[i]]
      BY <3>1
    <3> QED BY <2>2, <3>1, <3>2 DEF Mappings
  <2> HIDE DEF rows
  <2>4. PICK q : q = [at |-> "issue", revision |-> NextRevision, maps |-> rows(order)]
    OBVIOUS
  <2>5. req' = [req EXCEPT ![h] = q] /\ ReviewOK(q)
    BY <2>1, <2>3, <2>4 DEF ReviewOK
  <2> QED BY <2>1, <2>5, ReviewKept
<1>4. ASSUME NEW r \in Revisions, NEW i, NEW d \in Decisions, NEW t, StartDecide(h, r, i, d, t)
      PROVE  ReviewInv'
  <2>1. PICK q : q = [at |-> "decide", revision |-> r, mapping |-> i, decision |-> d,
                      target |-> IF d = "remap" THEN t ELSE sync[r].maps[i].prior]
    OBVIOUS
  <2>2. req' = [req EXCEPT ![h] = q] /\ UNCHANGED sync
    BY <1>4, <2>1 DEF StartDecide, Begin
  <2>3. ReviewOK(q)
    BY <2>1, NilAssumption DEF NilAssumption, ReviewOK
  <2> QED BY <2>2, <2>3, ReviewKept
<1>5. ASSUME NEW r \in Revisions, StartApply(h, r) PROVE ReviewInv'
  <2>1. PICK q : q = [at |-> "apply", revision |-> r, maps |-> sync[r].maps]
    OBVIOUS
  <2>2. req' = [req EXCEPT ![h] = q] /\ UNCHANGED sync
    BY <1>5, <2>1 DEF StartApply, Begin
  <2>3. Prepared(sync[r]) /\ Reviewed(sync[r].maps)
    BY <1>5 DEF StartApply, Open, ReviewInv, SyncOK
  <2>4. ReviewOK(q)
    BY <2>1, <2>3 DEF ReviewOK
  <2> QED BY <2>2, <2>4, ReviewKept
<1>6. CASE CommitSave(h) \/ Drop(h)
  BY <1>6, IdleReview, ReviewKept DEF CommitSave, Drop, Finish
<1> QED BY <1>1, <1>2, <1>3, <1>4, <1>5, <1>6, CommitRevisionReview, CommitDecideReview,
           CommitApplyReview DEF HandlerStep

LEMMA NextReview ==
  ASSUME RowsInv, ReviewInv, [Next]_vars
  PROVE  ReviewInv'
<1>1. ASSUME UNCHANGED <<sync, req>> PROVE ReviewInv'
  BY <1>1 DEF ReviewInv, ReviewOK
<1>2. CASE UNCHANGED vars
  BY <1>1, <1>2 DEF vars
<1>3. CASE AddScene \/ (\E texts \in Imports : Import(texts))
           \/ \E w \in Works, x \in Scenes : AddWork(w, x)
  BY <1>1, <1>3 DEF AddScene, Import, AddWork
<1> QED BY <1>2, <1>3, HandlerReview DEF Next

\* Every mapping of an applied synchronisation was decided: the application
\* checks it before its batch and not in it, and a decision that commits in
\* between replaces one, and takes none back (screenplay.ts:892-921, :962-968).
THEOREM AppliedWasReviewed == Spec => []AppliedIsReviewed
<1>1. ReviewInv => AppliedIsReviewed
  BY DEF ReviewInv, SyncOK, Reviewed, AppliedIsReviewed
<1>2. RowsInv /\ ReviewInv /\ [Next]_vars => ReviewInv'
  BY NextReview
<1> QED BY <1>1, <1>2, InitReview, AlwaysRows, PTL DEF Spec

----------------------------------------------------------------------------
(* Drafts.                                                                 *)

\* A draft is a sequence of rows; what is in a row does not matter here.
Columns == {"id", "text", "heading", "canonical", "label"}
IsRow(b) == DOMAIN b = Columns /\ b = [c \in Columns |-> b[c]]
IsDraft(d) ==
  /\ Len(d) \in Nat /\ d = [i \in 1 .. Len(d) |-> d[i]]
  /\ \A i \in DOMAIN d : IsRow(d[i])
  /\ \A i, j \in DOMAIN d : d[i].id = d[j].id => i = j

\* A scene that is in both drafts is still linked in b if it was in a.
KeepsLinks(a, b) ==
  \A i \in DOMAIN a, j \in DOMAIN b :
    a[i].id = b[j].id /\ a[i].canonical # Nil => b[j].canonical # Nil

\* A save that the version guard lets through was made from the present draft.
SaveOK(q) ==
  q.at = "save" =>
    /\ IsDraft(q.draft) /\ q.expected \in Nat /\ q.expected <= version
    /\ q.expected = version => KeepsLinks(draft, q.draft)

DraftInv ==
  /\ IsDraft(draft) /\ version \in Nat
  /\ req = [h \in Handlers |-> req[h]]
  /\ \A h \in Handlers : SaveOK(req[h])

\* Two rows that agree in scene and link.
SameLink(a, b) == IsRow(b) /\ b.id = a.id /\ b.canonical = a.canonical

LEMMA Retexted ==
  ASSUME NEW a, IsRow(a), NEW v
  PROVE  SameLink(a, [a EXCEPT !.text = v]) /\ SameLink(a, [a EXCEPT !.heading = v])
BY DEF IsRow, Columns, SameLink

LEMMA Relinked ==
  ASSUME NEW a, IsRow(a), NEW v
  PROVE  /\ IsRow([a EXCEPT !.canonical = v]) /\ [a EXCEPT !.canonical = v].id = a.id
         /\ [a EXCEPT !.canonical = v].canonical = v
BY DEF IsRow, Columns

\* Rows that are rewritten in place.
LEMMA RewrittenDraft ==
  ASSUME NEW a, IsDraft(a), NEW b, b = [i \in DOMAIN a |-> b[i]],
         \A i \in DOMAIN a : SameLink(a[i], b[i])
  PROVE  IsDraft(b) /\ KeepsLinks(a, b)
<1>1. DOMAIN a = 1 .. Len(a) /\ Len(a) \in Nat
  BY DEF IsDraft
<1>2. DOMAIN b = 1 .. Len(a)
  BY <1>1
<1>3. Len(b) = Len(a)
  BY <1>1, <1>2
<1> QED BY <1>1, <1>2, <1>3 DEF IsDraft, KeepsLinks, SameLink

\* Two rows that change places.
LEMMA SwappedDraft ==
  ASSUME NEW a, IsDraft(a), NEW k \in DOMAIN a, k + 1 \in DOMAIN a,
         NEW b, b = [a EXCEPT ![k] = a[k + 1], ![k + 1] = a[k]]
  PROVE  IsDraft(b) /\ KeepsLinks(a, b)
<1>1. DOMAIN a = 1 .. Len(a) /\ Len(a) \in Nat
  BY DEF IsDraft
<1>2. DOMAIN b = 1 .. Len(a) /\ b = [i \in 1 .. Len(a) |-> b[i]]
  BY <1>1
<1>3. Len(b) = Len(a)
  BY <1>1, <1>2
<1>4. b[k] = a[k + 1] /\ b[k + 1] = a[k] /\ \A i \in DOMAIN a \ {k, k + 1} : b[i] = a[i]
  BY <1>1
<1>5. \A i \in DOMAIN b : \E j \in DOMAIN a : b[i] = a[j]
  BY <1>1, <1>2, <1>4
<1>6. \A i, j \in DOMAIN b : b[i].id = b[j].id => i = j
  BY <1>1, <1>2, <1>4 DEF IsDraft
<1>7. IsDraft(b)
  <2>1. \A i \in DOMAIN b : IsRow(b[i])
    BY <1>5 DEF IsDraft
  <2> QED BY <1>1, <1>2, <1>3, <1>6, <2>1 DEF IsDraft
<1>8. KeepsLinks(a, b)
  <2> SUFFICES ASSUME NEW i \in DOMAIN a, NEW j \in DOMAIN b, a[i].id = b[j].id, a[i].canonical # Nil
               PROVE  b[j].canonical # Nil
    BY DEF KeepsLinks
  <2>1. PICK m \in DOMAIN a : b[j] = a[m]
    BY <1>5
  <2>2. i = m
    BY <2>1 DEF IsDraft
  <2> QED BY <2>1, <2>2
<1> QED BY <1>7, <1>8

\* New identifiers are scenes of no draft, each listed once.
LEMMA NewIdsAre ==
  /\ Len(NewIds) \in Nat /\ NewIds \in [1 .. Len(NewIds) -> Fresh]
  /\ \A i, j \in 1 .. Len(NewIds) : NewIds[i] = NewIds[j] => i = j
<1>1. Fresh \subseteq Scenes
  BY DEF Fresh
<1>2. IsFiniteSet(Fresh)
  BY <1>1, FS_Subset, ScenesAssumption
<1> DEFINE n == Cardinality(Fresh)
<1>3. n \in Nat /\ ExistsBijection(1 .. n, Fresh)
  BY <1>2, FS_CardinalityType
<1>4. \E f \in [1 .. n -> Fresh] : IsInjective(f)
  BY <1>3 DEF ExistsBijection, Bijection, Injection
<1>5. NewIds \in [1 .. n -> Fresh] /\ IsInjective(NewIds)
  BY <1>4 DEF NewIds, SetToSeq
<1> HIDE DEF n
<1>6. Len(NewIds) = n
  BY <1>3, <1>5
<1> QED BY <1>3, <1>5, <1>6 DEF IsInjective

\* Every edit of the draft keeps its scenes and their links.
LEMMA EditsKeepLinks ==
  ASSUME DraftInv, NEW d \in Rewrites \cup Retypings \cup Swaps
  PROVE  IsDraft(d) /\ KeepsLinks(draft, d)
<1>1. IsDraft(draft) /\ DOMAIN draft = 1 .. Len(draft) /\ Len(draft) \in Nat
      /\ \A i \in DOMAIN draft : IsRow(draft[i])
  BY DEF DraftInv, IsDraft
<1>2. \A i \in DOMAIN draft : SameLink(draft[i], draft[i])
  BY <1>1 DEF SameLink
<1>3. ASSUME NEW i \in DOMAIN draft, NEW t \in Texts, d = [draft EXCEPT ![i].text = t]
      PROVE  IsDraft(d) /\ KeepsLinks(draft, d)
  <2>1. PICK a : a = draft[i] /\ IsRow(a)
    BY <1>1
  <2>2. PICK b : b = [a EXCEPT !.text = t] /\ SameLink(a, b)
    BY <2>1, Retexted
  <2>3. d = [draft EXCEPT ![i] = b]
    BY <1>3, <2>1, <2>2
  <2>4. d = [j \in DOMAIN draft |-> d[j]] /\ \A j \in DOMAIN draft : SameLink(draft[j], d[j])
    BY <1>1, <1>2, <2>1, <2>2, <2>3
  <2> QED BY <1>1, <2>4, RewrittenDraft
<1>4. ASSUME NEW i \in DOMAIN draft, d = [draft EXCEPT ![i].heading = ~@]
      PROVE  IsDraft(d) /\ KeepsLinks(draft, d)
  <2>1. PICK a : a = draft[i] /\ IsRow(a)
    BY <1>1
  <2>2. PICK b : b = [a EXCEPT !.heading = ~a.heading] /\ SameLink(a, b)
    BY <2>1, Retexted
  <2>3. d = [draft EXCEPT ![i] = b]
    BY <1>4, <2>1, <2>2
  <2>4. d = [j \in DOMAIN draft |-> d[j]] /\ \A j \in DOMAIN draft : SameLink(draft[j], d[j])
    BY <1>1, <1>2, <2>1, <2>2, <2>3
  <2> QED BY <1>1, <2>4, RewrittenDraft
<1>5. ASSUME NEW i \in DOMAIN draft, i > 1, NEW t \in Texts,
             d = [draft EXCEPT ![i].heading = ~@, ![i - 1].text = t]
      PROVE  IsDraft(d) /\ KeepsLinks(draft, d)
  <2>1. i - 1 \in DOMAIN draft /\ i - 1 # i
    BY <1>1, <1>5
  <2>2. PICK a, o : a = draft[i] /\ IsRow(a) /\ o = draft[i - 1] /\ IsRow(o)
    BY <1>1, <2>1
  <2>3. PICK b, p : b = [a EXCEPT !.heading = ~a.heading] /\ SameLink(a, b)
                    /\ p = [o EXCEPT !.text = t] /\ SameLink(o, p)
    BY <2>2, Retexted
  <2>4. d = [draft EXCEPT ![i] = b, ![i - 1] = p]
    BY <1>5, <2>1, <2>2, <2>3
  <2>5. d = [j \in DOMAIN draft |-> d[j]] /\ \A j \in DOMAIN draft : SameLink(draft[j], d[j])
    BY <1>1, <1>2, <2>1, <2>2, <2>3, <2>4
  <2> QED BY <1>1, <2>5, RewrittenDraft
<1>6. ASSUME NEW i \in DOMAIN draft, i + 1 \in DOMAIN draft,
             d = [draft EXCEPT ![i] = draft[i + 1], ![i + 1] = draft[i]]
      PROVE  IsDraft(d) /\ KeepsLinks(draft, d)
  <2>1. PICK a : a = draft
    OBVIOUS
  <2> QED BY <1>1, <1>6, <2>1, SwappedDraft
<1>7. CASE d \in Rewrites
  BY <1>3, <1>7 DEF Rewrites
<1>8. CASE d \in Retypings
  <2> DEFINE Alone(i) == [draft EXCEPT ![i].heading = ~@]
             Both(i, t) == [draft EXCEPT ![i].heading = ~@, ![i - 1].text = t]
             T(i) == {u \in Texts : u # draft[i - 1].text /\ SlugOf[u] = SlugOf[draft[i - 1].text]}
  <2>1. Retypings = {Alone(i) : i \in {j \in DOMAIN draft : j = 1 \/ ~draft[j - 1].heading}}
           \cup UNION {{Both(i, t) : t \in T(i)} : i \in {j \in DOMAIN draft : j > 1 /\ draft[j - 1].heading}}
    BY DEF Retypings
  <2>2. \A i \in DOMAIN draft : d = Alone(i) => IsDraft(d) /\ KeepsLinks(draft, d)
    BY <1>4
  <2>3. \A i \in DOMAIN draft, t \in Texts : i > 1 /\ d = Both(i, t) => IsDraft(d) /\ KeepsLinks(draft, d)
    BY <1>5
  <2>4. \A i : T(i) \subseteq Texts
    OBVIOUS
  <2> HIDE DEF Alone, Both, T
  <2> QED BY <1>8, <2>1, <2>2, <2>3, <2>4
<1>9. CASE d \in Swaps
  BY <1>6, <1>9 DEF Swaps
<1> QED BY <1>7, <1>8, <1>9

LEMMA InitDraft == Init => DraftInv
<1> SUFFICES ASSUME Init PROVE DraftInv
  OBVIOUS
<1>1. Len(draft) = 0 /\ DOMAIN draft = {} /\ draft = [i \in 1 .. 0 |-> draft[i]]
  BY DEF Init
<1>2. IsDraft(draft)
  BY <1>1 DEF IsDraft
<1>3. \A h \in Handlers : req[h].at = "idle"
  BY DEF Init, Idle
<1> QED BY <1>2, <1>3 DEF Init, DraftInv, SaveOK

\* A batch that writes the screenplay row leaves every earlier save behind.
LEMMA OutdatedSave ==
  ASSUME DraftInv, version' = version + 1, NEW q, SaveOK(q)
  PROVE  SaveOK(q)'
BY DEF DraftInv, SaveOK

LEMMA KeptSave ==
  ASSUME UNCHANGED <<draft, version>>, NEW q, SaveOK(q)
  PROVE  SaveOK(q)'
BY DEF SaveOK

LEMMA SameDraft ==
  ASSUME DraftInv
  PROVE  KeepsLinks(draft, draft)
BY DEF DraftInv, IsDraft, KeepsLinks

\* What is left to show of a step: its own request, and the others'.
LEMMA DraftStep ==
  ASSUME DraftInv, version' \in Nat, IsDraft(draft)',
         NEW h \in Handlers, NEW q, req' = [req EXCEPT ![h] = q], SaveOK(q)',
         UNCHANGED <<draft, version>> \/ version' = version + 1
  PROVE  DraftInv'
<1>1. req' = [g \in Handlers |-> req'[g]] /\ req'[h] = q /\ \A g \in Handlers \ {h} : req'[g] = req[g]
  BY DEF DraftInv
<1>2. ASSUME NEW g \in Handlers PROVE SaveOK(req[g])'
  <2>1. PICK p : p = req'[g]
    OBVIOUS
  <2>2. CASE g = h
    BY <1>1, <2>1, <2>2 DEF SaveOK
  <2>3. CASE g # h
    <3>1. SaveOK(p)
      BY <1>1, <2>1, <2>3 DEF DraftInv
    <3>2. SaveOK(p)'
      BY <3>1, OutdatedSave, KeptSave
    <3> QED BY <2>1, <3>2 DEF SaveOK
  <2> QED BY <2>2, <2>3
<1> QED BY <1>1, <1>2 DEF DraftInv

LEMMA DraftStepAlone ==
  ASSUME DraftInv, version' \in Nat, IsDraft(draft)', UNCHANGED req,
         UNCHANGED <<draft, version>> \/ version' = version + 1
  PROVE  DraftInv'
<1>1. ASSUME NEW g \in Handlers PROVE SaveOK(req[g])'
  <2>1. PICK p : p = req[g] /\ SaveOK(p)
    BY DEF DraftInv
  <2>2. SaveOK(p)'
    BY <2>1, OutdatedSave, KeptSave
  <2> QED BY <2>1, <2>2 DEF SaveOK
<1> QED BY <1>1 DEF DraftInv

LinkStep == KeepsLinks(draft, draft')

LEMMA AddSceneDraft ==
  ASSUME DraftInv, AddScene
  PROVE  DraftInv' /\ LinkStep
<1>1. NewIds # <<>> => NewIds[1] \in Fresh
  <2>1. Len(NewIds) \in Nat /\ NewIds \in Seq(Fresh)
    BY NewIdsAre
  <2> QED BY <2>1
<1>2. PICK x : x = NewIds[1] /\ \A i \in DOMAIN draft : draft[i].id # x
  BY <1>1 DEF AddScene, Fresh
<1>3. PICK b : b = DraftScene(x, NewText, NewLabel)
  OBVIOUS
<1>4. b.id = x /\ IsRow(b)
  BY <1>3 DEF DraftScene, IsRow, Columns
<1>5. draft' = Append(draft, b)
  BY <1>2, <1>3 DEF AddScene
<1>6. PICK S : draft \in Seq(S) /\ b \in S
  <2>1. draft \in Seq({draft[i] : i \in DOMAIN draft} \cup {b})
    BY DEF DraftInv, IsDraft
  <2> QED BY <2>1
<1>7. /\ Len(draft') = Len(draft) + 1 /\ draft' = [i \in 1 .. Len(draft) + 1 |-> draft'[i]]
      /\ draft'[Len(draft) + 1] = b /\ \A i \in 1 .. Len(draft) : draft'[i] = draft[i]
  <2>1. PICK s, a : s = draft /\ a = draft'
    OBVIOUS
  <2>2. s \in Seq(S) /\ b \in S /\ a = Append(s, b)
    BY <1>5, <1>6, <2>1
  <2>3. a \in Seq(S) /\ Len(s) \in Nat /\ Len(a) = Len(s) + 1
    BY <2>2, AppendProperties, LenProperties
  <2>4. a[Len(s) + 1] = b /\ \A i \in 1 .. Len(s) : a[i] = s[i]
    BY <2>2, AppendProperties
  <2>5. a \in [1 .. Len(a) -> S]
    BY <2>3, LenProperties
  <2> QED BY <2>1, <2>3, <2>4, <2>5
<1>8. DOMAIN draft = 1 .. Len(draft) /\ Len(draft) \in Nat /\ DOMAIN draft' = 1 .. Len(draft) + 1
  BY <1>6, <1>7
<1>9. IsDraft(draft)'
  BY <1>2, <1>4, <1>7, <1>8 DEF DraftInv, IsDraft
<1>10. LinkStep
  BY <1>2, <1>4, <1>7, <1>8 DEF DraftInv, IsDraft, LinkStep, KeepsLinks
<1> QED BY <1>9, <1>10, DraftStepAlone DEF AddScene, DraftInv

LEMMA ImportDraft ==
  ASSUME DraftInv, NEW texts \in Imports, Import(texts)
  PROVE  DraftInv' /\ LinkStep
<1>1. texts \in Seq(Texts) /\ DOMAIN texts = 1 .. Len(texts) /\ Len(texts) \in Nat
  BY ImportsAssumption
<1>2. /\ \A i \in DOMAIN texts : NewIds[i] \in Fresh
      /\ \A i, j \in DOMAIN texts : NewIds[i] = NewIds[j] => i = j
  BY <1>1, NewIdsAre DEF Import
<1>3. /\ draft' = [i \in 1 .. Len(texts) |-> draft'[i]]
      /\ \A i \in DOMAIN texts : draft'[i] = DraftScene(NewIds[i], texts[i], Plain(i))
  BY <1>1 DEF Import
<1>4. ASSUME NEW i \in DOMAIN texts PROVE IsRow(draft'[i]) /\ draft'[i].id = NewIds[i]
  <2>1. PICK b, x : b = draft'[i] /\ x = NewIds[i]
    OBVIOUS
  <2>2. PICK v, n : b = DraftScene(x, v, n)
    BY <1>3, <2>1
  <2>3. IsRow(b) /\ b.id = x
    BY <2>2 DEF DraftScene, IsRow, Columns
  <2> QED BY <2>1, <2>3
<1>5. DOMAIN draft' = 1 .. Len(texts) /\ Len(draft') = Len(texts)
  BY <1>1, <1>3
<1>6. IsDraft(draft)'
  BY <1>1, <1>2, <1>3, <1>4, <1>5 DEF IsDraft
<1>7. LinkStep
  BY <1>1, <1>2, <1>4, <1>5 DEF Fresh, LinkStep, KeepsLinks
<1> QED BY <1>6, <1>7, DraftStepAlone DEF Import, DraftInv

LEMMA StartSaveDraft ==
  ASSUME DraftInv, NEW h \in Handlers, StartSave(h)
  PROVE  DraftInv' /\ LinkStep
<1>1. PICK d \in Rewrites \cup Retypings \cup Swaps :
        Begin(h, [at |-> "save", draft |-> d, expected |-> version])
  BY DEF StartSave
<1>2. IsDraft(d) /\ KeepsLinks(draft, d)
  BY EditsKeepLinks
<1>3. PICK q : q = [at |-> "save", draft |-> d, expected |-> version]
  OBVIOUS
<1>4. UNCHANGED <<draft, version>> /\ version \in Nat /\ IsDraft(draft)
  BY DEF StartSave, DraftInv
<1>5. SaveOK(q)'
  BY <1>2, <1>3, <1>4 DEF SaveOK
<1>6. DraftInv'
  BY <1>1, <1>3, <1>4, <1>5, DraftStep DEF Begin
<1> QED BY <1>4, <1>6, SameDraft DEF LinkStep

LEMMA FinishedDraft ==
  ASSUME DraftInv, version' \in Nat, IsDraft(draft)', NEW h \in Handlers, Finish(h),
         UNCHANGED <<draft, version>> \/ version' = version + 1
  PROVE  DraftInv'
<1>1. SaveOK(Idle)'
  BY DEF SaveOK, Idle
<1> QED BY <1>1, DraftStep DEF Finish

LEMMA CommitSaveDraft ==
  ASSUME DraftInv, NEW h \in Handlers, CommitSave(h)
  PROVE  DraftInv' /\ LinkStep
<1>1. IsDraft(req[h].draft) /\ KeepsLinks(draft, req[h].draft)
  BY DEF CommitSave, VersionGuard, DraftInv, SaveOK
<1>2. draft' = req[h].draft /\ version' = version + 1 /\ version' \in Nat
  BY DEF CommitSave, DraftInv
<1>3. LinkStep /\ IsDraft(draft)'
  BY <1>1, <1>2 DEF LinkStep
<1> QED BY <1>2, <1>3, FinishedDraft DEF CommitSave

LEMMA CommitApplyDraft ==
  ASSUME DraftInv, NEW h \in Handlers, CommitApply(h)
  PROVE  DraftInv' /\ LinkStep
<1>1. PICK links : draft' = [i \in DOMAIN draft |-> Linked(draft[i], links)]
  BY DEF CommitApply
<1>2. DOMAIN draft = 1 .. Len(draft) /\ Len(draft) \in Nat
  BY DEF DraftInv, IsDraft
<1>3. DOMAIN draft' = DOMAIN draft /\ Len(draft') = Len(draft)
      /\ draft' = [i \in 1 .. Len(draft) |-> draft'[i]]
  BY <1>1, <1>2
<1>4. ASSUME NEW i \in DOMAIN draft
      PROVE  /\ IsRow(draft'[i]) /\ draft'[i].id = draft[i].id
             /\ draft[i].canonical # Nil => draft'[i].canonical # Nil
  <2>1. PICK a : a = draft[i] /\ IsRow(a) /\ draft'[i] = Linked(a, links)
    BY <1>1 DEF DraftInv, IsDraft
  <2>2. CASE links[a.id] = Nil
    BY <2>1, <2>2 DEF Linked
  <2>3. CASE links[a.id] # Nil
    BY <2>1, <2>3, Relinked DEF Linked
  <2> QED BY <2>2, <2>3
<1>5. IsDraft(draft)'
  BY <1>2, <1>3, <1>4 DEF DraftInv, IsDraft
<1>6. LinkStep
  BY <1>3, <1>4 DEF DraftInv, IsDraft, LinkStep, KeepsLinks
<1>7. version' = version + 1 /\ version' \in Nat
  BY DEF CommitApply, DraftInv
<1> QED BY <1>5, <1>6, <1>7, FinishedDraft DEF CommitApply

\* The steps that leave the draft as it is.
LEMMA OtherDraft ==
  ASSUME DraftInv, NEW h \in Handlers, NEW q, req' = [req EXCEPT ![h] = q], q.at # "save",
         UNCHANGED <<draft, version>> \/ (UNCHANGED draft /\ version' = version + 1)
  PROVE  DraftInv' /\ LinkStep
<1>1. SaveOK(q)' /\ version' \in Nat /\ IsDraft(draft)'
  BY DEF SaveOK, DraftInv
<1> QED BY <1>1, DraftStep, SameDraft DEF LinkStep

LEMMA HandlerDraft ==
  ASSUME DraftInv, NEW h \in Handlers, HandlerStep(h)
  PROVE  DraftInv' /\ LinkStep
<1>0. Idle.at # "save"
  BY DEF Idle
<1>1. CASE StartRevision(h)
  <2>1. PICK q : q = [at |-> "read"]
    OBVIOUS
  <2>2. req' = [req EXCEPT ![h] = q] /\ UNCHANGED <<draft, version>>
    BY <1>1, <2>1 DEF StartRevision, Begin
  <2>3. q.at # "save"
    BY <2>1
  <2> QED BY <2>2, <2>3, OtherDraft
<1>2. CASE ReadRevision(h)
  <2>1. PICK maps : req' = [req EXCEPT ![h] = [at |-> "issue", revision |-> NextRevision, maps |-> maps]]
    BY <1>2 DEF ReadRevision
  <2>2. PICK q : q = [at |-> "issue", revision |-> NextRevision, maps |-> maps]
    OBVIOUS
  <2> QED BY <1>2, <2>1, <2>2, OtherDraft DEF ReadRevision
<1>3. CASE CommitRevision(h)
  BY <1>0, <1>3, OtherDraft DEF CommitRevision, Finish
<1>4. ASSUME NEW r \in Revisions, NEW i, NEW d, NEW t, StartDecide(h, r, i, d, t)
      PROVE  DraftInv' /\ LinkStep
  <2>1. PICK q : q = [at |-> "decide", revision |-> r, mapping |-> i, decision |-> d,
                      target |-> IF d = "remap" THEN t ELSE sync[r].maps[i].prior]
    OBVIOUS
  <2>2. req' = [req EXCEPT ![h] = q] /\ UNCHANGED <<draft, version>>
    BY <1>4, <2>1 DEF StartDecide, Begin
  <2>3. q.at # "save"
    BY <2>1
  <2> QED BY <2>2, <2>3, OtherDraft
<1>5. CASE CommitDecide(h)
  BY <1>0, <1>5, OtherDraft DEF CommitDecide, Finish
<1>6. ASSUME NEW r \in Revisions, StartApply(h, r)
      PROVE  DraftInv' /\ LinkStep
  <2>1. PICK q : q = [at |-> "apply", revision |-> r, maps |-> sync[r].maps]
    OBVIOUS
  <2>2. req' = [req EXCEPT ![h] = q] /\ UNCHANGED <<draft, version>>
    BY <1>6, <2>1 DEF StartApply, Begin
  <2>3. q.at # "save"
    BY <2>1
  <2> QED BY <2>2, <2>3, OtherDraft
<1>7. CASE Drop(h)
  BY <1>0, <1>7, OtherDraft DEF Drop, Finish
<1> QED BY <1>1, <1>2, <1>3, <1>4, <1>5, <1>6, <1>7, StartSaveDraft, CommitSaveDraft, CommitApplyDraft
  DEF HandlerStep

LEMMA NextDraft ==
  ASSUME DraftInv, [Next]_vars
  PROVE  DraftInv' /\ LinkStep
<1>1. ASSUME UNCHANGED <<draft, version, req>> PROVE DraftInv' /\ LinkStep
  BY <1>1, DraftStepAlone, SameDraft DEF DraftInv, LinkStep
<1>2. CASE UNCHANGED vars
  BY <1>1, <1>2 DEF vars
<1>3. ASSUME NEW w \in Works, NEW x \in Scenes, AddWork(w, x) PROVE DraftInv' /\ LinkStep
  BY <1>1, <1>3 DEF AddWork
<1> QED BY <1>2, <1>3, AddSceneDraft, ImportDraft, HandlerDraft DEF Next

LEMMA AlwaysDraft == Spec => []DraftInv
BY InitDraft, NextDraft, PTL DEF Spec

\* A save that was prepared before a synchronisation linked the draft's scenes
\* is refused by the version guard, and no import or edit unlinks one that it
\* keeps (screenplay.ts:139-244, :1096-1111).
THEOREM LinksStay == Spec => LinksAreKept
<1>1. DraftInv /\ [Next]_vars
        => [\A i \in DOMAIN draft, j \in DOMAIN draft' :
              draft[i].id = draft'[j].id /\ draft[i].canonical # Nil => draft'[j].canonical # Nil]_vars
  BY NextDraft DEF LinkStep, KeepsLinks
<1> QED BY <1>1, AlwaysDraft, PTL DEF Spec, LinksAreKept

----------------------------------------------------------------------------
(* Induction over the statements of a batch and the headings of a draft.   *)

LEMMA LeastNatural ==
  ASSUME NEW T, T \subseteq Nat, T # {}
  PROVE  \E n \in T : \A m \in T : n <= m
<1> DEFINE Less == {ss \in Nat \X Nat : ss[1] < ss[2]}
<1>1. IsWellFoundedOn(Less, Nat)
  BY NatLessThanWellFounded DEF OpToRel
<1> HIDE DEF Less
<1>2. PICK n \in T : \A m \in T : <<m, n>> \notin Less
  BY <1>1, WFMin
<1>3. ASSUME NEW m \in T, m < n PROVE FALSE
  <2>1. m \in Nat /\ n \in Nat
    OBVIOUS
  <2>2. <<m, n>> \in Nat \X Nat /\ <<m, n>>[1] < <<m, n>>[2]
    BY <1>3, <2>1
  <2>3. <<m, n>> \in Less
    BY <2>2 DEF Less
  <2> QED BY <1>2, <2>3
<1> QED BY <1>3

LEMMA Induction ==
  ASSUME NEW N \in Nat, NEW Q, 0 \in Q, \A n \in Nat : n < N /\ n \in Q => n + 1 \in Q
  PROVE  \A n \in 0 .. N : n \in Q
<1> DEFINE T == {n \in 0 .. N : n \notin Q}
<1> SUFFICES ASSUME T # {} PROVE FALSE
  OBVIOUS
<1>1. T \subseteq Nat
  OBVIOUS
<1>2. PICK n \in T : \A m \in T : n <= m
  BY <1>1, LeastNatural
<1>3. n # 0 /\ n - 1 \in Nat /\ n - 1 < N /\ n - 1 < n
  OBVIOUS
<1>4. n - 1 \in Q
  BY <1>2, <1>3
<1>5. (n - 1) + 1 \in Q
  BY <1>3, <1>4
<1> QED BY <1>5

\* What a batch has written after its first statements.
BatchStart == [rows |-> scene, works |-> work, targets |-> <<>>, links |-> [x \in Scenes |-> Nil], ok |-> TRUE]
IsBatch(f, maps, r, n) ==
  f = [i \in 0 .. n |-> IF i = 0 THEN BatchStart ELSE ApplyMapping(f[i - 1], maps[i], r)]

LEMMA Batches ==
  ASSUME NEW maps, NEW r, NEW N \in Nat
  PROVE  \E f : IsBatch(f, maps, r, N)
<1> DEFINE Q == {n \in 0 .. N : \E f : IsBatch(f, maps, r, n)}
<1>1. 0 \in Q
  <2>1. IsBatch([i \in 0 .. 0 |-> BatchStart], maps, r, 0)
    BY DEF IsBatch
  <2> QED BY <2>1
<1>2. ASSUME NEW n \in Nat, n < N, n \in Q PROVE n + 1 \in Q
  <2>1. PICK f : IsBatch(f, maps, r, n)
    BY <1>2
  <2> DEFINE g == [i \in 0 .. n + 1 |-> IF i = n + 1 THEN ApplyMapping(f[n], maps[n + 1], r) ELSE f[i]]
  <2>2. \A i \in 0 .. n : f[i] = IF i = 0 THEN BatchStart ELSE ApplyMapping(f[i - 1], maps[i], r)
    BY <2>1 DEF IsBatch
  <2>3. \A i \in 0 .. n : g[i] = f[i]
    OBVIOUS
  <2>4. \A i \in 0 .. n + 1 : g[i] = IF i = 0 THEN BatchStart ELSE ApplyMapping(g[i - 1], maps[i], r)
    <3> SUFFICES ASSUME NEW i \in 0 .. n + 1
                 PROVE  g[i] = IF i = 0 THEN BatchStart ELSE ApplyMapping(g[i - 1], maps[i], r)
      OBVIOUS
    <3>1. CASE i = n + 1
      <4>1. g[i] = ApplyMapping(f[n], maps[i], r) /\ i - 1 = n /\ i # 0
        BY <3>1
      <4>2. g[n] = f[n]
        BY <2>3
      <4> QED BY <4>1, <4>2
    <3>2. CASE i # n + 1 /\ i # 0
      <4>1. i \in 0 .. n /\ i - 1 \in 0 .. n
        BY <3>2
      <4> HIDE DEF g
      <4> QED BY <2>2, <2>3, <3>2, <4>1
    <3>3. CASE i = 0
      BY <2>2, <2>3, <3>3
    <3> QED BY <3>1, <3>2, <3>3
  <2>5. g = [i \in 0 .. n + 1 |-> g[i]]
    OBVIOUS
  <2> HIDE DEF g
  <2>6. IsBatch(g, maps, r, n + 1)
    BY <2>4, <2>5 DEF IsBatch
  <2> QED BY <1>2, <2>6
<1> HIDE DEF Q
<1>3. N \in Q
  BY <1>1, <1>2, Induction
<1> QED BY <1>3 DEF Q

LEMMA ApplyAllIs ==
  ASSUME NEW maps, NEW r, Len(maps) \in Nat
  PROVE  \E f : IsBatch(f, maps, r, Len(maps)) /\ ApplyAll(maps, r) = f[Len(maps)]
<1>1. PICK f : f = CHOOSE g : IsBatch(g, maps, r, Len(maps))
  OBVIOUS
<1>2. IsBatch(f, maps, r, Len(maps))
  BY <1>1, Batches
<1>3. ApplyAll(maps, r) = f[Len(maps)]
  BY <1>1 DEF ApplyAll, IsBatch, BatchStart
<1> QED BY <1>2, <1>3

----------------------------------------------------------------------------
(* A preview is a sequence.                                                *)

\* The entries of the first headings of the draft.
PreviewStart(rows, lockedNumbers) ==
  [maps |-> <<>>, taken |-> {}, base |-> 0, locked |-> lockedNumbers,
   used |-> {rows[x].number : x \in Graph(rows)}]
NextEntry(acc, i, rows) == IF draft[i].heading THEN AddEntry(acc, draft[i], rows) ELSE acc
ArePreviews(f, rows, lockedNumbers, n) ==
  f = [i \in 0 .. n |-> IF i = 0 THEN PreviewStart(rows, lockedNumbers) ELSE NextEntry(f[i - 1], i, rows)]

LEMMA Previews ==
  ASSUME NEW rows, NEW lockedNumbers, NEW N \in Nat
  PROVE  \E f : ArePreviews(f, rows, lockedNumbers, N)
<1> DEFINE Q == {n \in 0 .. N : \E f : ArePreviews(f, rows, lockedNumbers, n)}
           base == PreviewStart(rows, lockedNumbers)
<1>1. 0 \in Q
  <2>1. ArePreviews([i \in 0 .. 0 |-> base], rows, lockedNumbers, 0)
    BY DEF ArePreviews
  <2> QED BY <2>1
<1>2. ASSUME NEW n \in Nat, n < N, n \in Q PROVE n + 1 \in Q
  <2>1. PICK f : ArePreviews(f, rows, lockedNumbers, n)
    BY <1>2
  <2> DEFINE g == [i \in 0 .. n + 1 |-> IF i = n + 1 THEN NextEntry(f[n], n + 1, rows) ELSE f[i]]
  <2>2. \A i \in 0 .. n : f[i] = IF i = 0 THEN base ELSE NextEntry(f[i - 1], i, rows)
    BY <2>1 DEF ArePreviews
  <2>3. \A i \in 0 .. n : g[i] = f[i]
    OBVIOUS
  <2>4. g[n + 1] = NextEntry(g[n], n + 1, rows)
    BY <2>3
  <2>5. g = [i \in 0 .. n + 1 |-> g[i]]
    OBVIOUS
  <2> HIDE DEF g, base
  <2>6. ASSUME NEW i \in 0 .. n + 1 PROVE g[i] = IF i = 0 THEN base ELSE NextEntry(g[i - 1], i, rows)
    <3>1. CASE i = n + 1
      BY <2>4, <3>1
    <3>2. CASE i # n + 1 /\ i # 0
      <4>1. i \in 0 .. n /\ i - 1 \in 0 .. n
        BY <3>2
      <4> QED BY <2>2, <2>3, <3>2, <4>1
    <3>3. CASE i = 0
      BY <2>2, <2>3, <3>3
    <3> QED BY <3>1, <3>2, <3>3
  <2>7. ArePreviews(g, rows, lockedNumbers, n + 1)
    BY <2>5, <2>6 DEF ArePreviews, base
  <2> QED BY <1>2, <2>7
<1> HIDE DEF Q
<1>3. N \in Q
  BY <1>1, <1>2, Induction
<1> QED BY <1>3 DEF Q

IsList(s) == Len(s) \in Nat /\ s = [i \in 1 .. Len(s) |-> s[i]]

LEMMA ListIsSeq ==
  ASSUME NEW s, IsList(s)
  PROVE  s \in Seq({s[i] : i \in 1 .. Len(s)})
BY DEF IsList

LEMMA SeqIsList ==
  ASSUME NEW S, NEW s \in Seq(S)
  PROVE  IsList(s)
BY DEF IsList

LEMMA AppendedList ==
  ASSUME NEW s, IsList(s), NEW x
  PROVE  IsList(Append(s, x))
<1> DEFINE S == {s[i] : i \in 1 .. Len(s)} \cup {x}
<1>1. s \in Seq(S) /\ x \in S
  <2>1. s \in Seq({s[i] : i \in 1 .. Len(s)})
    BY ListIsSeq
  <2> QED BY <2>1
<1> HIDE DEF S
<1>2. Append(s, x) \in Seq(S)
  BY <1>1, AppendProperties
<1> QED BY <1>2, SeqIsList

LEMMA JoinedLists ==
  ASSUME NEW s, IsList(s), NEW t, IsList(t)
  PROVE  IsList(s \o t)
<1> DEFINE S == {s[i] : i \in 1 .. Len(s)} \cup {t[i] : i \in 1 .. Len(t)}
<1>1. s \in Seq(S) /\ t \in Seq(S)
  <2>1. s \in Seq({s[i] : i \in 1 .. Len(s)}) /\ t \in Seq({t[i] : i \in 1 .. Len(t)})
    BY ListIsSeq
  <2> QED BY <2>1
<1> HIDE DEF S
<1>2. s \o t \in Seq(S)
  BY <1>1, ConcatProperties
<1> QED BY <1>2, SeqIsList

EntriesOK(a) == {"maps", "taken", "base", "locked", "used"} \subseteq DOMAIN a /\ IsList(a.maps)

LEMMA AddedEntry ==
  ASSUME NEW a, EntriesOK(a), NEW d, NEW rows
  PROVE  EntriesOK(AddEntry(a, d, rows))
<1>1. PICK m, t, b, u :
        AddEntry(a, d, rows) = [a EXCEPT !.maps = Append(@, m), !.taken = t, !.base = b, !.used = u]
  BY DEF AddEntry
<1>2. PICK s, new : s = Append(a.maps, m) /\ IsList(s)
        /\ new = [a EXCEPT !.maps = s, !.taken = t, !.base = b, !.used = u]
  BY AppendedList DEF EntriesOK
<1>3. AddEntry(a, d, rows) = new
  BY <1>1, <1>2
<1>4. DOMAIN new = DOMAIN a /\ new.maps = s
  BY <1>2 DEF EntriesOK
<1> QED BY <1>2, <1>3, <1>4 DEF EntriesOK

LEMMA PreviewEntriesAre ==
  ASSUME NEW rows, NEW lockedNumbers, Len(draft) \in Nat
  PROVE  EntriesOK(PreviewEntries(rows, lockedNumbers))
<1>1. PICK f : f = CHOOSE g : ArePreviews(g, rows, lockedNumbers, Len(draft))
  OBVIOUS
<1>2. ArePreviews(f, rows, lockedNumbers, Len(draft))
  BY <1>1, Previews
<1>3. PreviewEntries(rows, lockedNumbers) = f[Len(draft)]
  BY <1>1 DEF PreviewEntries, ArePreviews, PreviewStart, NextEntry
<1> DEFINE Q == {n \in 0 .. Len(draft) : EntriesOK(f[n])}
<1>4. 0 \in Q
  <2>1. f[0] = PreviewStart(rows, lockedNumbers)
    BY <1>2 DEF ArePreviews
  <2>2. EntriesOK(PreviewStart(rows, lockedNumbers))
    BY DEF PreviewStart, EntriesOK, IsList
  <2> QED BY <2>1, <2>2
<1>5. ASSUME NEW n \in Nat, n < Len(draft), n \in Q PROVE n + 1 \in Q
  <2>1. f[n + 1] = NextEntry(f[n], n + 1, rows)
    BY <1>2, <1>5 DEF ArePreviews
  <2>2. EntriesOK(f[n])
    BY <1>5
  <2>3. EntriesOK(NextEntry(f[n], n + 1, rows))
    BY <2>2, AddedEntry DEF NextEntry
  <2> QED BY <1>5, <2>1, <2>3
<1> HIDE DEF Q
<1>6. \A N \in Nat : N = Len(draft) => \A n \in 0 .. N : n \in Q
  BY <1>4, <1>5, Induction
<1>7. Len(draft) \in Q
  BY <1>6
<1> QED BY <1>3, <1>7 DEF Q

\* The sequence of a finite set.
LEMMA ListOfSet ==
  ASSUME NEW S, IsFiniteSet(S)
  PROVE  IsList(SetToSeq(S))
<1> DEFINE n == Cardinality(S)
<1>1. n \in Nat /\ ExistsBijection(1 .. n, S)
  BY FS_CardinalityType
<1>2. \E f \in [1 .. n -> S] : IsInjective(f)
  BY <1>1 DEF ExistsBijection, Bijection, Injection
<1>3. SetToSeq(S) \in [1 .. n -> S]
  BY <1>2 DEF SetToSeq
<1> HIDE DEF n
<1>4. SetToSeq(S) \in Seq(S)
  BY <1>1, <1>3
<1> QED BY <1>4, SeqIsList

LEMMA PreviewIsList ==
  ASSUME NEW rows, NEW lockedNumbers, Len(draft) \in Nat
  PROVE  IsList(Preview(rows, lockedNumbers))
<1>1. PICK entries : entries = PreviewEntries(rows, lockedNumbers) /\ IsList(entries.maps)
  BY PreviewEntriesAre DEF EntriesOK
<1>2. PICK gone : gone = SetToSeq(Graph(rows) \ entries.taken) /\ IsList(gone)
  <2>1. IsFiniteSet(Graph(rows) \ entries.taken)
    BY ScenesAssumption, FS_Subset DEF Graph, ScenesAssumption
  <2> QED BY <2>1, ListOfSet
<1>3. PICK removed : removed = [i \in DOMAIN gone |-> Removed(gone[i], rows)]
  OBVIOUS
<1>4. IsList(removed)
  <2>1. DOMAIN gone = 1 .. Len(gone) /\ Len(gone) \in Nat
    BY <1>2 DEF IsList
  <2>2. DOMAIN removed = 1 .. Len(gone) /\ removed = [i \in 1 .. Len(gone) |-> removed[i]]
    BY <1>3, <2>1
  <2>3. Len(removed) = Len(gone)
    BY <2>1, <2>2
  <2> QED BY <2>1, <2>2, <2>3 DEF IsList
<1>5. Preview(rows, lockedNumbers) = entries.maps \o removed
  BY <1>1, <1>2, <1>3 DEF Preview
<1> QED BY <1>1, <1>4, <1>5, JoinedLists

----------------------------------------------------------------------------
(* Mappings are sequences.                                                 *)

ListsInv ==
  /\ \A r \in Revisions : IsList(sync[r].maps)
  /\ \A h \in Handlers : \A q : req[h] = q /\ q.at \in {"issue", "apply"} => IsList(q.maps)

LEMMA InitLists == Init => ListsInv
<1> SUFFICES ASSUME Init PROVE ListsInv
  OBVIOUS
<1>1. IsList(<<>>)
  BY DEF IsList
<1>2. \A r \in Revisions : sync[r].maps = <<>>
  BY DEF Init, NoSync
<1>3. \A h \in Handlers : req[h].at = "idle"
  BY DEF Init, Idle
<1> QED BY <1>1, <1>2, <1>3 DEF ListsInv

LEMMA ListOverSameDomain ==
  ASSUME NEW s, IsList(s), NEW t, t = [i \in DOMAIN s |-> t[i]]
  PROVE  IsList(t)
<1>1. DOMAIN s = 1 .. Len(s) /\ Len(s) \in Nat
  BY DEF IsList
<1>2. DOMAIN t = 1 .. Len(s) /\ t = [i \in 1 .. Len(s) |-> t[i]]
  BY <1>1
<1>3. Len(t) = Len(s)
  BY <1>1, <1>2
<1> QED BY <1>1, <1>2, <1>3 DEF IsList

\* One request is written.
LEMMA ListStep ==
  ASSUME RowsInv, ListsInv, NEW h \in Handlers, NEW q, req' = [req EXCEPT ![h] = q],
         q.at \in {"issue", "apply"} => IsList(q.maps),
         \A r \in Revisions : IsList(sync'[r].maps)
  PROVE  ListsInv'
<1>1. ASSUME NEW g \in Handlers, NEW p, req'[g] = p, p.at \in {"issue", "apply"} PROVE IsList(p.maps)
  <2>1. CASE g = h
    BY <1>1, <2>1 DEF RowsInv, RequestsAre
  <2>2. CASE g # h
    BY <1>1, <2>2 DEF RowsInv, RequestsAre, ListsInv
  <2> QED BY <2>1, <2>2
<1> QED BY <1>1 DEF ListsInv

LEMMA ListFinish ==
  ASSUME RowsInv, ListsInv, NEW h \in Handlers, Finish(h),
         \A r \in Revisions : IsList(sync'[r].maps)
  PROVE  ListsInv'
BY ListStep DEF Finish, Idle

LEMMA HandlerLists ==
  ASSUME RowsInv, DraftInv, ListsInv, NEW h \in Handlers, HandlerStep(h)
  PROVE  ListsInv'
<1>0. UNCHANGED sync => \A r \in Revisions : IsList(sync'[r].maps)
  BY DEF ListsInv
<1>1. ASSUME NEW r \in Revisions, NEW s, IsSync(s), IsList(s.maps), sync' = [sync EXCEPT ![r] = s]
      PROVE  \A o \in Revisions : IsList(sync'[o].maps)
  <2>1. sync'[r] = s /\ \A o \in Revisions \ {r} : sync'[o] = sync[o]
    BY <1>1, WrittenSync DEF RowsInv
  <2> QED BY <1>1, <2>1 DEF ListsInv
<1>2. CASE StartSave(h)
  <2>1. PICK d : Begin(h, [at |-> "save", draft |-> d, expected |-> version])
    BY <1>2 DEF StartSave
  <2>2. PICK q : q = [at |-> "save", draft |-> d, expected |-> version]
    OBVIOUS
  <2>3. req' = [req EXCEPT ![h] = q] /\ q.at = "save" /\ UNCHANGED sync
    BY <1>2, <2>1, <2>2 DEF StartSave, Begin
  <2> QED BY <1>0, <2>3, ListStep
<1>3. CASE CommitSave(h) \/ Drop(h)
  BY <1>0, <1>3, ListFinish DEF CommitSave, Drop
<1>4. CASE StartRevision(h)
  <2>1. PICK q : q = [at |-> "read"]
    OBVIOUS
  <2>2. req' = [req EXCEPT ![h] = q] /\ q.at = "read" /\ UNCHANGED sync
    BY <1>4, <2>1 DEF StartRevision, Begin
  <2> QED BY <1>0, <2>2, ListStep
<1>5. CASE ReadRevision(h)
  <2>1. PICK maps : maps = Preview(scene, locked) /\ IsList(maps)
    <3>1. Len(draft) \in Nat
      BY DEF DraftInv, IsDraft
    <3> QED BY <3>1, PreviewIsList
  <2>2. PICK order :
          req' = [req EXCEPT ![h] =
                    [at |-> "issue", revision |-> NextRevision,
                     maps |-> [i \in DOMAIN Preview(scene, locked) |->
                                 Mapping(Preview(scene, locked)[order[i]])]]]
    BY <1>5 DEF ReadRevision
  <2>3. PICK rows : rows = [i \in DOMAIN maps |-> Mapping(maps[order[i]])]
    OBVIOUS
  <2>4. IsList(rows)
    BY <2>1, <2>3, ListOverSameDomain
  <2>5. PICK q : q = [at |-> "issue", revision |-> NextRevision, maps |-> rows]
    OBVIOUS
  <2>6. req' = [req EXCEPT ![h] = q] /\ q.maps = rows
    BY <2>1, <2>2, <2>3, <2>5
  <2>7. UNCHANGED sync
    BY <1>5 DEF ReadRevision
  <2> QED BY <1>0, <2>4, <2>6, <2>7, ListStep
<1>6. CASE CommitRevision(h)
  <2>1. PICK r \in Revisions : r = req[h].revision
    BY <1>6 DEF CommitRevision, RowsInv, RequestsAre
  <2>2. PICK maps : maps = req[h].maps /\ IsList(maps)
    BY <1>6 DEF CommitRevision, ListsInv
  <2>3. PICK s : s = [status |-> StatusOf(maps), maps |-> maps]
    OBVIOUS
  <2>4. sync' = [sync EXCEPT ![r] = s] /\ IsSync(s) /\ s.maps = maps
    BY <1>6, <2>1, <2>2, <2>3 DEF CommitRevision, IsSync
  <2>5. \A o \in Revisions : IsList(sync'[o].maps)
    BY <1>1, <2>2, <2>4
  <2> QED BY <1>6, <2>5, ListFinish DEF CommitRevision
<1>7. ASSUME NEW r \in Revisions, NEW i, NEW d, NEW t, StartDecide(h, r, i, d, t)
      PROVE  ListsInv'
  <2>1. PICK q : q = [at |-> "decide", revision |-> r, mapping |-> i, decision |-> d,
                      target |-> IF d = "remap" THEN t ELSE sync[r].maps[i].prior]
    OBVIOUS
  <2>2. req' = [req EXCEPT ![h] = q] /\ q.at = "decide" /\ UNCHANGED sync
    BY <1>7, <2>1 DEF StartDecide, Begin
  <2> QED BY <1>0, <2>2, ListStep
<1>8. CASE CommitDecide(h)
  <2>1. PICK r \in Revisions : r = req[h].revision
    BY <1>8 DEF CommitDecide, RowsInv, RequestsAre
  <2>2. PICK maps : maps = sync[r].maps /\ IsList(maps)
    BY DEF ListsInv
  <2>3. PICK new : new = Decided(maps, req[h].mapping, req[h].decision, req[h].target)
    OBVIOUS
  <2>4. maps = [i \in DOMAIN maps |-> maps[i]]
    BY <2>2 DEF IsList
  <2>5. new = [i \in DOMAIN maps |-> new[i]]
    BY <2>3, <2>4 DEF Decided
  <2>6. IsList(new)
    BY <2>2, <2>5, ListOverSameDomain
  <2>7. PICK s : s = [status |-> StatusOf(new), maps |-> new]
    OBVIOUS
  <2>8. sync' = [sync EXCEPT ![r] = s] /\ IsSync(s) /\ s.maps = new
    BY <1>8, <2>1, <2>2, <2>3, <2>7 DEF CommitDecide, Decided, IsSync
  <2>9. \A o \in Revisions : IsList(sync'[o].maps)
    BY <1>1, <2>6, <2>8
  <2> QED BY <1>8, <2>9, ListFinish DEF CommitDecide
<1>9. ASSUME NEW r \in Revisions, StartApply(h, r)
      PROVE  ListsInv'
  <2>1. PICK q : q = [at |-> "apply", revision |-> r, maps |-> sync[r].maps]
    OBVIOUS
  <2>2. req' = [req EXCEPT ![h] = q] /\ q.maps = sync[r].maps /\ UNCHANGED sync
    BY <1>9, <2>1 DEF StartApply, Begin
  <2>3. IsList(q.maps)
    BY <2>2 DEF ListsInv
  <2> QED BY <1>0, <2>2, <2>3, ListStep
<1>10. CASE CommitApply(h)
  <2>1. PICK r \in Revisions : r = req[h].revision
    BY <1>10 DEF CommitApply, RowsInv, RequestsAre
  <2>2. PICK s : s = [sync[r] EXCEPT !.status = "applied"]
    OBVIOUS
  <2>3. IsSync(s) /\ s.maps = sync[r].maps
    BY <2>2 DEF IsSync, RowsInv, SyncsAre
  <2>4. sync' = [sync EXCEPT ![r] = s]
    BY <1>10, <2>1, <2>2 DEF CommitApply
  <2>5. IsList(s.maps)
    BY <2>3 DEF ListsInv
  <2>6. \A o \in Revisions : IsList(sync'[o].maps)
    BY <1>1, <2>3, <2>4, <2>5
  <2> QED BY <1>10, <2>6, ListFinish DEF CommitApply
<1> QED BY <1>2, <1>3, <1>4, <1>5, <1>6, <1>7, <1>8, <1>9, <1>10 DEF HandlerStep

LEMMA NextLists ==
  ASSUME RowsInv, DraftInv, ListsInv, [Next]_vars
  PROVE  ListsInv'
<1>1. ASSUME UNCHANGED <<sync, req>> PROVE ListsInv'
  BY <1>1 DEF ListsInv
<1>2. UNCHANGED vars => UNCHANGED <<sync, req>>
  BY DEF vars
<1>3. AddScene => UNCHANGED <<sync, req>>
  BY DEF AddScene
<1>4. \A texts : Import(texts) => UNCHANGED <<sync, req>>
  BY DEF Import
<1>5. \A w, x : AddWork(w, x) => UNCHANGED <<sync, req>>
  BY DEF AddWork
<1> QED BY <1>1, <1>2, <1>3, <1>4, <1>5, HandlerLists DEF Next

LEMMA AlwaysLists == Spec => []ListsInv
<1>1. RowsInv /\ DraftInv /\ ListsInv /\ [Next]_vars => ListsInv'
  BY NextLists
<1> QED BY <1>1, InitLists, AlwaysRows, AlwaysDraft, PTL DEF Spec

----------------------------------------------------------------------------
(* What an application shows.                                              *)

Shaped(row) == {"exists", "omitted", "archived", "number", "text", "rev"} \subseteq DOMAIN row
Stored(rows) == rows = [x \in Scenes |-> rows[x]] /\ \A x \in Scenes : Shaped(rows[x])

\* A scene that is shown comes from revision r, or was shown before.
FromOrShown(rows, r) ==
  \A x \in Graph(rows) : rows[x].rev = r \/ (x \in Graph(scene) /\ rows[x].rev = scene[x].rev)

BatchOK(g, r) ==
  /\ {"rows", "works", "targets", "links", "ok"} \subseteq DOMAIN g
  /\ Stored(g.rows)
  /\ FromOrShown(g.rows, r)

\* A row of the batch is hidden, or marked, or shown as of revision r.
LEMMA WrittenRow ==
  ASSUME NEW rows, Stored(rows), NEW r, FromOrShown(rows, r), NEW x, NEW new,
         x \in Scenes => /\ Shaped(new)
                         /\ new.archived \/ new.rev = r
                            \/ (new.exists = rows[x].exists /\ new.archived = rows[x].archived /\ new.rev = rows[x].rev)
  PROVE  Stored([rows EXCEPT ![x] = new]) /\ FromOrShown([rows EXCEPT ![x] = new], r)
<1>0. PICK after : after = [rows EXCEPT ![x] = new]
  OBVIOUS
<1>1. CASE x \notin Scenes
  <2>1. after = rows
    BY <1>0, <1>1 DEF Stored
  <2> QED BY <1>0, <2>1
<1>2. CASE x \in Scenes
  <2>1. /\ after = [y \in Scenes |-> after[y]] /\ after[x] = new
        /\ \A y \in Scenes \ {x} : after[y] = rows[y]
    BY <1>0, <1>2 DEF Stored
  <2>2. Stored(after)
    BY <1>2, <2>1 DEF Stored
  <2>3. FromOrShown(after, r)
    BY <1>2, <2>1 DEF FromOrShown, Graph
  <2> QED BY <1>0, <2>2, <2>3
<1> QED BY <1>1, <1>2


BatchFields == {"rows", "works", "targets", "links", "ok"}

LEMMA BatchOf ==
  ASSUME NEW g, BatchFields \subseteq DOMAIN g, NEW r, Stored(g.rows), FromOrShown(g.rows, r)
  PROVE  BatchOK(g, r)
BY DEF BatchOK, BatchFields

\* A batch that wrote other rows.
LEMMA BatchRows ==
  ASSUME NEW g, NEW r, BatchOK(g, r), NEW rows, Stored(rows), FromOrShown(rows, r)
  PROVE  BatchOK([g EXCEPT !.rows = rows], r)
<1>1. PICK new : new = [g EXCEPT !.rows = rows]
  OBVIOUS
<1>2. BatchFields \subseteq DOMAIN new /\ new.rows = rows
  BY <1>1 DEF BatchOK, BatchFields
<1> QED BY <1>1, <1>2, BatchOf

LEMMA OmittedRow ==
  ASSUME NEW g, NEW r, BatchOK(g, r), NEW x
  PROVE  BatchOK([g EXCEPT !.rows[x].omitted = TRUE], r)
<1>1. PICK rows : rows = g.rows /\ Stored(rows) /\ FromOrShown(rows, r)
  BY DEF BatchOK
<1>2. PICK new : new = [rows[x] EXCEPT !.omitted = TRUE]
  OBVIOUS
<1>3. ASSUME x \in Scenes
      PROVE  Shaped(new) /\ new.exists = rows[x].exists /\ new.archived = rows[x].archived /\ new.rev = rows[x].rev
  <2>1. PICK a : a = rows[x] /\ Shaped(a)
    BY <1>1, <1>3 DEF Stored
  <2>2. new = [a EXCEPT !.omitted = TRUE]
    BY <1>2, <2>1
  <2> QED BY <2>1, <2>2 DEF Shaped
<1>4. PICK after : after = [rows EXCEPT ![x] = new]
  OBVIOUS
<1>5. Stored(after) /\ FromOrShown(after, r)
  BY <1>1, <1>3, <1>4, WrittenRow
<1>6. [g EXCEPT !.rows[x].omitted = TRUE] = [g EXCEPT !.rows = after]
  BY <1>1, <1>2, <1>4 DEF BatchOK
<1> QED BY <1>5, <1>6, BatchRows

LEMMA HiddenRow ==
  ASSUME NEW g, NEW r, BatchOK(g, r), NEW x
  PROVE  BatchOK(Hide(g, x), r)
<1>1. PICK rows : rows = g.rows /\ Stored(rows) /\ FromOrShown(rows, r)
  BY DEF BatchOK
<1>2. PICK new : new = [rows[x] EXCEPT !.omitted = TRUE, !.archived = TRUE]
  OBVIOUS
<1>3. ASSUME x \in Scenes
      PROVE  Shaped(new) /\ new.archived
  <2>1. PICK a : a = rows[x] /\ Shaped(a)
    BY <1>1, <1>3 DEF Stored
  <2>2. new = [a EXCEPT !.omitted = TRUE, !.archived = TRUE]
    BY <1>2, <2>1
  <2> QED BY <2>1, <2>2 DEF Shaped
<1>4. PICK after : after = [rows EXCEPT ![x] = new]
  OBVIOUS
<1>5. Stored(after) /\ FromOrShown(after, r)
  BY <1>1, <1>3, <1>4, WrittenRow
<1>6. Hide(g, x) = [g EXCEPT !.rows = after]
  BY <1>1, <1>2, <1>4 DEF BatchOK, Hide, Stored
<1> QED BY <1>5, <1>6, BatchRows

LEMMA RemovedBatch ==
  ASSUME NEW g, NEW r, BatchOK(g, r), NEW m
  PROVE  BatchOK(ApplyRemoved(g, m), r)
<1>1. CASE m.resolution = "omit"
  BY <1>1, OmittedRow DEF ApplyRemoved
<1>2. CASE m.resolution = "archive"
  BY <1>2, HiddenRow DEF ApplyRemoved
<1>3. CASE m.resolution = "remap"
  <2>1. PICK a : a = Hide(g, m.prior) /\ BatchOK(a, r)
    BY HiddenRow
  <2>2. PICK w : w = MoveWork(a.works, m.prior, m.resolved)
    OBVIOUS
  <2>3. PICK b : b = [a EXCEPT !.works = w]
    OBVIOUS
  <2>4. ApplyRemoved(g, m) = b
    BY <1>3, <2>1, <2>2, <2>3 DEF ApplyRemoved
  <2>5. BatchFields \subseteq DOMAIN b /\ b.rows = a.rows
    BY <2>1, <2>3 DEF BatchOK, BatchFields
  <2>6. Stored(b.rows) /\ FromOrShown(b.rows, r)
    BY <2>1, <2>5 DEF BatchOK
  <2> QED BY <2>4, <2>5, <2>6, BatchOf
<1>4. CASE m.resolution \notin {"omit", "archive", "remap"}
  BY <1>4 DEF ApplyRemoved
<1> QED BY <1>1, <1>2, <1>3, <1>4

LEMMA EntryBatch ==
  ASSUME NEW g, NEW r, BatchOK(g, r), NEW m
  PROVE  BatchOK(ApplyEntry(g, m, r), r)
<1>1. PICK rows : rows = g.rows /\ Stored(rows) /\ FromOrShown(rows, r)
  BY DEF BatchOK
<1>2. PICK t : t = TargetOf(m)
  OBVIOUS
<1>3. PICK new : new = [rows[t] EXCEPT !.number = m.number, !.text = m.text, !.rev = r,
                                       !.omitted = FALSE, !.archived = FALSE]
  OBVIOUS
<1>4. ASSUME t \in Scenes PROVE Shaped(new) /\ new.rev = r
  <2>1. PICK a : a = rows[t] /\ Shaped(a)
    BY <1>1, <1>4 DEF Stored
  <2>2. PICK n, v : new = [a EXCEPT !.number = n, !.text = v, !.rev = r, !.omitted = FALSE, !.archived = FALSE]
    BY <1>3, <2>1
  <2> QED BY <2>1, <2>2 DEF Shaped
<1>5. PICK shown : shown = [rows EXCEPT ![t] = new]
  OBVIOUS
<1>6. Stored(shown) /\ FromOrShown(shown, r)
  BY <1>1, <1>4, <1>5, WrittenRow
<1>7. PICK moved : moved = [shown[m.scene] EXCEPT !.omitted = TRUE]
  OBVIOUS
<1>8. ASSUME m.scene \in Scenes
      PROVE  /\ Shaped(moved) /\ moved.exists = shown[m.scene].exists
             /\ moved.archived = shown[m.scene].archived /\ moved.rev = shown[m.scene].rev
  <2>1. PICK a : a = shown[m.scene] /\ Shaped(a)
    BY <1>6, <1>8 DEF Stored
  <2>2. moved = [a EXCEPT !.omitted = TRUE]
    BY <1>7, <2>1
  <2> QED BY <2>1, <2>2 DEF Shaped
<1>9. PICK after : after = [shown EXCEPT ![m.scene] = moved]
  OBVIOUS
<1>10. Stored(after) /\ FromOrShown(after, r)
  <2>1. PICK x : x = m.scene
    OBVIOUS
  <2> QED BY <1>6, <1>8, <1>9, <2>1, WrittenRow
<1>11. PICK last : last = ApplyEntry(g, m, r)
  OBVIOUS
<1>12. BatchFields \subseteq DOMAIN last
       /\ last.rows = IF t # m.scene /\ shown[m.scene].archived THEN after ELSE shown
  BY <1>1, <1>2, <1>3, <1>5, <1>7, <1>9, <1>11 DEF ApplyEntry, BatchFields
<1>13. Stored(last.rows) /\ FromOrShown(last.rows, r)
  BY <1>6, <1>10, <1>12
<1> QED BY <1>11, <1>12, <1>13, BatchOf

LEMMA ApplyAllKeeps ==
  ASSUME NEW maps, Len(maps) \in Nat, NEW r, Stored(scene)
  PROVE  BatchOK(ApplyAll(maps, r), r)
<1>1. PICK f : IsBatch(f, maps, r, Len(maps)) /\ ApplyAll(maps, r) = f[Len(maps)]
  BY ApplyAllIs
<1> DEFINE Q == {n \in 0 .. Len(maps) : BatchOK(f[n], r)}
<1>2. 0 \in Q
  <2>1. f[0] = BatchStart
    BY <1>1 DEF IsBatch
  <2>2. BatchFields \subseteq DOMAIN BatchStart /\ BatchStart.rows = scene
    BY DEF BatchStart, BatchFields
  <2>3. FromOrShown(scene, r)
    BY DEF FromOrShown
  <2>4. BatchOK(BatchStart, r)
    BY <2>2, <2>3, BatchOf
  <2> QED BY <2>1, <2>4
<1>3. ASSUME NEW n \in Nat, n < Len(maps), n \in Q PROVE n + 1 \in Q
  <2>1. f[n + 1] = ApplyMapping(f[n], maps[n + 1], r)
    BY <1>1, <1>3 DEF IsBatch
  <2>2. BatchOK(f[n], r)
    BY <1>3
  <2>3. BatchOK(ApplyMapping(f[n], maps[n + 1], r), r)
    BY <2>2, RemovedBatch, EntryBatch DEF ApplyMapping
  <2> QED BY <1>3, <2>1, <2>3
<1> HIDE DEF Q
<1>4. \A N \in Nat : N = Len(maps) => \A n \in 0 .. N : n \in Q
  BY <1>2, <1>3, Induction
<1>5. Len(maps) \in Q
  BY <1>4
<1> QED BY <1>1, <1>5 DEF Q

\* What production shows, with what makes that inductive.
SceneInv ==
  /\ Stored(scene)
  /\ \A x \in Graph(scene) : scene[x].rev \in Revisions /\ sync[scene[x].rev].status = "applied"

LEMMA InitScenes == Init => SceneInv
<1> SUFFICES ASSUME Init PROVE SceneInv
  OBVIOUS
<1>1. Shaped(NoScene) /\ ~NoScene.exists
  BY DEF Shaped, NoScene
<1>2. scene = [x \in Scenes |-> scene[x]] /\ \A x \in Scenes : scene[x] = NoScene
  BY DEF Init
<1> QED BY <1>1, <1>2 DEF SceneInv, Stored, Graph

LEMMA CommitRevisionScenes ==
  ASSUME RowsInv, SceneInv, SyncStep, NEW h \in Handlers, CommitRevision(h)
  PROVE  SceneInv'
<1>1. PICK added : scene' = [x \in Scenes |->
        IF x \in added /\ ~scene[x].exists THEN Await(x, TextOf(req[h].maps, x)) ELSE scene[x]]
  BY DEF CommitRevision
<1>2. ASSUME NEW x \in Scenes
      PROVE  Shaped(scene'[x]) /\ (scene'[x] = scene[x] \/ scene'[x].archived)
  <2>1. PICK v : v = TextOf(req[h].maps, x)
    OBVIOUS
  <2>2. PICK row : row = Await(x, v)
    OBVIOUS
  <2>3. Shaped(row) /\ row.archived
    <3>1. Shaped(NoScene)
      BY DEF NoScene, Shaped
    <3>2. PICK blank : blank = NoScene /\ Shaped(blank)
      BY <3>1
    <3>3. PICK n : row = [blank EXCEPT !.exists = TRUE, !.omitted = TRUE, !.archived = TRUE, !.number = n, !.text = v]
      BY <2>2, <3>2 DEF Await
    <3> QED BY <3>2, <3>3 DEF Shaped
  <2>4. scene'[x] = IF x \in added /\ ~scene[x].exists THEN row ELSE scene[x]
    BY <1>1, <2>1, <2>2
  <2> QED BY <2>3, <2>4 DEF SceneInv, Stored
<1>3. Stored(scene')
  BY <1>1, <1>2 DEF Stored
<1>4. ASSUME NEW x \in Graph(scene') PROVE scene'[x].rev \in Revisions /\ sync'[scene'[x].rev].status = "applied"
  <2>1. x \in Graph(scene) /\ scene'[x] = scene[x]
    BY <1>2, <1>4 DEF Graph
  <2> QED BY <2>1 DEF SceneInv, SyncStep
<1> QED BY <1>3, <1>4 DEF SceneInv

LEMMA CommitApplyScenes ==
  ASSUME RowsInv, ListsInv, SceneInv, SyncStep, NEW h \in Handlers, CommitApply(h)
  PROVE  SceneInv'
<1>1. PICK r \in Revisions : r = req[h].revision
  BY DEF CommitApply, RowsInv, RequestsAre
<1>2. PICK maps : maps = req[h].maps /\ Len(maps) \in Nat
  BY DEF CommitApply, ListsInv, IsList
<1>3. PICK g : g = ApplyAll(maps, r) /\ BatchOK(g, r)
  BY <1>2, ApplyAllKeeps DEF SceneInv
<1>4. scene' = g.rows
  BY <1>1, <1>2, <1>3 DEF CommitApply
<1>5. Stored(scene') /\ FromOrShown(scene', r)
  BY <1>3, <1>4 DEF BatchOK
<1>6. sync'[r].status = "applied"
  <2>1. PICK s : s = [sync[r] EXCEPT !.status = "applied"]
    OBVIOUS
  <2>2. IsSync(s) /\ s.status = "applied"
    BY <2>1 DEF IsSync, RowsInv, SyncsAre
  <2>3. sync' = [sync EXCEPT ![r] = s]
    BY <1>1, <2>1 DEF CommitApply
  <2> QED BY <2>2, <2>3, WrittenSync DEF RowsInv
<1>7. ASSUME NEW x \in Graph(scene') PROVE scene'[x].rev \in Revisions /\ sync'[scene'[x].rev].status = "applied"
  <2>1. CASE scene'[x].rev = r
    BY <1>6, <2>1
  <2>2. CASE x \in Graph(scene) /\ scene'[x].rev = scene[x].rev
    BY <2>2 DEF SceneInv, SyncStep
  <2> QED BY <1>5, <2>1, <2>2 DEF FromOrShown
<1> QED BY <1>5, <1>7 DEF SceneInv

LEMMA NextScenes ==
  ASSUME RowsInv, ListsInv, SceneInv, [Next]_vars
  PROVE  SceneInv'
<1>1. SyncStep
  BY NextRows
<1>2. ASSUME UNCHANGED scene PROVE SceneInv'
  BY <1>1, <1>2 DEF SceneInv, SyncStep, Stored, Graph
<1>3. UNCHANGED scene \/ \E h \in Handlers : HandlerStep(h)
  BY DEF Next, vars, AddScene, Import, AddWork
<1>4. ASSUME NEW h \in Handlers, HandlerStep(h)
      PROVE  UNCHANGED scene \/ CommitRevision(h) \/ CommitApply(h)
  BY <1>4 DEF HandlerStep, StartSave, CommitSave, StartRevision, ReadRevision, StartDecide,
              CommitDecide, StartApply, Drop
<1>5. UNCHANGED scene \/ \E h \in Handlers : CommitRevision(h) \/ CommitApply(h)
  BY <1>3, <1>4
<1> QED BY <1>1, <1>2, <1>5, CommitRevisionScenes, CommitApplyScenes

\* What production sees comes from a synchronisation that was applied, however
\* many mappings its batch carried out and whatever they were decided to be: a
\* revision that was only created shows none of its scenes (screenplay.ts:700-757,
\* :969-1095).
THEOREM OnlyAppliedIsShown == Spec => []ShownComesFromApplied
<1>1. RowsInv /\ ListsInv /\ SceneInv /\ [Next]_vars => SceneInv'
  BY NextScenes
<1>2. Spec => []SceneInv
  BY <1>1, InitScenes, AlwaysRows, AlwaysLists, PTL DEF Spec
<1>3. SceneInv => ShownComesFromApplied
  BY DEF SceneInv, ShownComesFromApplied, Revisions
<1> QED BY <1>2, <1>3, PTL
=============================================================================
