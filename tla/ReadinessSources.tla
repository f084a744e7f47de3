-------------------------- MODULE ReadinessSources --------------------------
(***************************************************************************)
(* What each rule of a readiness profile makes of the records of a project *)
(* (server/readiness/sources.ts).  Readiness.tla takes an observation as a *)
(* value that changes; here is how one is made: a behaviour picks a        *)
(* project and a rule, and observes it.                                    *)
(*                                                                         *)
(* A project is a record of registers, sets of rows with the columns the   *)
(* rule reads; archived rows and those of other projects are not in them,  *)
(* except where the query's own condition is at stake.  Descriptions,      *)
(* labels, owners and the fingerprint (which Readiness calls the version   *)
(* of a source) are left out.                                              *)
(***************************************************************************)
EXTENDS Naturals, FiniteSets

CONSTANT Projects  \* the questions: [code, of], "of" a record of registers

VARIABLES asked, observed

sourcesVars == <<asked, observed>>

Nil == "nil"            \* a column that is NULL
NotObserved == [present |-> FALSE, satisfied |-> FALSE, made |-> FALSE]

Complete == {"approved", "booked", "complete", "completed", "confirmed", "executed", "ready"}
ResourceReady == (Complete \ {"executed"}) \cup {"available", "reserved", "sourced"}

Observation(present, satisfied) == [present |-> present, satisfied |-> satisfied, made |-> TRUE]

(* There are rows, and every one is ready.                                 *)
AllOfSome(rows, Ready(_)) == rows # {} /\ \A r \in rows : Ready(r)

-----------------------------------------------------------------------------
(* Development, writing and the breakdown.                                 *)

DevelopmentObservation(p) ==
  LET approved(kind) == \E r \in p.documents :
        r.kind = kind /\ r.status = "approved" /\ (kind = "outline" \/ r.revision # Nil)
  IN Observation(p.documents # {}, \A kind \in {"brief", "treatment", "outline"} : approved(kind))

(* Approved counts while the revision it was given for is the current one, *)
(* and a screenplay's only once it was applied to the scenes.              *)
WritingObservation(p) ==
  LET av == \E w \in p.documents : w.kind = "av" /\ w.status = "approved" /\ w.current # Nil
      screenplay == \E w \in p.documents, s \in p.syncs :
        /\ w.kind = "screenplay" /\ w.current # Nil /\ w.current = w.approved
        /\ s.status = "applied" /\ s.to = w.approved /\ s.unresolved = 0
  IN Observation(\E w \in p.documents : w.current # Nil, av \/ screenplay)

(* A scene that has no breakdown comes as a row of NULLs.                  *)
BreakdownObservation(p) ==
  LET active == {s \in p.scenes : ~s.omitted}
      ready(s) == s.readiness = "ready" /\ s.status \in Complete /\ s.source = s.revision
  IN Observation(active # {}, AllOfSome(active, ready))

-----------------------------------------------------------------------------
(* People, places and money.                                               *)

CastObservation(p) ==
  LET ready(c) == \E a \in c.assignments :
        /\ a.status \in {"booked", "confirmed"} /\ a.confirmed
        /\ a.requirement \in Complete
        /\ a.signed \in {"signed", "executed", "complete", "completed"}
      speaking == {c \in p.characters : c.speaking}
  IN Observation(speaking # {}, AllOfSome(speaking, ready))

CrewDepartments == {"production", "directing", "camera", "sound", "art", "safety"}

CrewObservation(p) ==
  LET ready(c) ==
        /\ c.booking \in {"booked", "confirmed"} /\ c.confirmation = "confirmed"
        /\ c.availability \in {"available", "confirmed"}
        /\ c.deal \in {"approved", "complete", "completed", "executed", "not_required", "signed"}
  IN Observation(p.crew # {},
       \A d \in CrewDepartments : \E c \in p.crew : c.department = d /\ ready(c))

(* As soon as one location is linked to a scene, an archived one too, only *)
(* linked ones count.                                                      *)
LocationsObservation(p) ==
  LET selected == {l \in p.locations : ~l.archived
                     /\ (l.linked \/ ~\E any \in p.locations : any.linked)}
      cleared == {"approved", "complete", "confirmed", "ready"}
      ready(l) ==
        /\ l.status \in {"approved", "confirmed"} /\ l.approval \in {"approved", "confirmed"}
        /\ l.availability \in {"available", "confirmed", "ready"} /\ l.windows > 0
        /\ l.legal \in cleared /\ l.safety \in cleared
  IN Observation(selected # {}, AllOfSome(selected, ready))

BudgetObservation(p) ==
  Observation(p.budgets # {},
    \E b \in p.budgets : b.version = "approved" /\ b.committed <= b.approved)

-----------------------------------------------------------------------------
(* Legal, insurance and safety.                                            *)

Unexpired(r, now) == r.expires = 0 \/ r.expires > now   \* 0: no date
Agreed(r) == r.approval \in {Nil, "approved"}

RequirementComplete(r, now) ==
  /\ r.status \in {"approved", "complete", "completed", "executed", "not_required"}
  /\ r.signed \in {"executed", "not_required", "signed", "complete", "completed"}
  /\ Unexpired(r, now) /\ Agreed(r)

(* A plausible slip: where no requirement blocks, none is incomplete.      *)
NoneIncomplete(p) ==
  LET legal == {r \in p.requirements : ~r.insurance}
  IN Observation(legal # {}, \A r \in legal : r.blocking => RequirementComplete(r, p.now))

LegalObservation(p) ==
  LET legal    == {r \in p.requirements : ~r.insurance}
      blocking == {r \in legal : r.blocking}
      complete(r) == RequirementComplete(r, p.now)
  IN Observation(legal # {}, AllOfSome(blocking, complete))

LegalHoldObservation(p) ==
  Observation(TRUE, ~\E h \in p.holds : ~h.released /\ h.project \in {Nil, p.id})

InsuranceObservation(p) ==
  Observation(p.insurances # {},
    \E i \in p.insurances :
      /\ i.status \in Complete /\ Agreed(i) /\ Unexpired(i, p.now)
      /\ i.from <= p.now /\ i.until # 0 /\ i.until >= p.now)

MostResidual == 12
Unscored == 0           \* residual_score is NULL

SafetyObservation(p) ==
  LET approved(r) == r.status = "approved" /\ r.approval = "approved"
      controlled(h) ==
        /\ h.status \in {"accepted", "closed", "controlled", "resolved"}
        /\ h.residual # Unscored /\ h.residual <= MostResidual /\ h.openControls = 0
  IN Observation(p.risks # {} \/ p.plans # {},
       /\ \E r \in p.risks : approved(r)
       /\ \E s \in p.plans : approved(s) /\ s.detailed
       /\ AllOfSome(p.hazards, controlled))

-----------------------------------------------------------------------------
(* Equipment, resources and logistics.                                     *)

OpenBlockers(p) ==
  {c \in p.conflicts : c.severity = "blocker" /\ c.status = "open"
                         /\ (p.day = Nil \/ c.day \in {Nil, p.day})}

(* A kit's condition is that of its members, of which it must have some.   *)
ConditionRecorded(r) ==
  IF r.kit THEN LET fit(m) == ~m.archived /\ m.condition
                              /\ m.status \in {"available", "ready", "reserved"}
                IN AllOfSome(r.members, fit)
  ELSE r.condition

EquipmentObservation(p) ==
  LET ready(r) ==
        /\ r.status \in {"confirmed", "ready", "reserved"}
        /\ r.equipment \in {"active", "available", "ready", "reserved"}
        /\ ConditionRecorded(r)
  IN Observation(p.reservations # {},
       AllOfSome(p.reservations, ready)
         /\ ~\E c \in OpenBlockers(p) : c.type = "equipment")

DepartmentResourcesObservation(p) ==
  LET tracked == {e \in p.elements : e.category \in {"props", "wardrobe", "hair_makeup", "set_dressing"}}
      ready(e) == {e.status, e.procurement} \cup e.records \subseteq ResourceReady
  IN Observation(tracked # {}, AllOfSome(tracked, ready))

LogisticsObservation(p) ==
  Observation(p.logistics # {},
    /\ {"logistics", "transport", "catering"} \subseteq {r.kind : r \in p.logistics}
    /\ \A r \in p.logistics : r.status \in ResourceReady)

-----------------------------------------------------------------------------
(* The schedule, the visual plan and what was issued.                      *)

NoSchedule == [approved |-> Nil]

(* The default schedule comes first, then the one updated last.            *)
ScheduleObservation(p) ==
  LET candidates == {s \in p.schedules : s.approved # Nil /\ s.revision = "approved"}
      ahead(s, t) == IF s.default = t.default THEN s.at > t.at ELSE s.default
      approved == IF candidates = {} THEN NoSchedule
                  ELSE CHOOSE s \in candidates : ~\E t \in candidates : ahead(t, s)
      days == {d \in p.days : /\ p.day \in {Nil, d.id} /\ d.revision = approved.approved
                              /\ d.dated /\ d.called}
  IN Observation(p.schedules # {}, candidates # {} /\ days # {} /\ OpenBlockers(p) = {})

VisualKinds == {"storyboard", "shot_list", "technical_look", "camera_setup"}

VisualObservation(p) ==
  LET reviewed(s) == s.status \in {"approved", "must_have", "nice_to_have"}
  IN Observation(p.plans # {} \/ p.shots # {},
       /\ \A kind \in VisualKinds : \E v \in p.plans : v.kind = kind /\ v.status = "approved"
       /\ AllOfSome(p.shots, reviewed))

(* A plausible slip: the first that was issued.                            *)
Earliest(rows) == CHOOSE r \in rows : \A s \in rows : r.at <= s.at
Latest(rows) == CHOOSE r \in rows : \A s \in rows : s.at <= r.at

(* The latest of each kind counts; a call sheet of the day that is asked.  *)
IssuedDocumentsObservation(p) ==
  LET counted == {i \in p.issues : i.kind = "call_sheet" => p.day \in {Nil, i.day}}
      kinds   == {i.kind : i \in counted}
      latest(kind) == Latest({i \in counted : i.kind = kind})
  IN Observation(counted # {},
       /\ {"sides", "call_sheet", "pack"} \subseteq kinds
       /\ latest("sides").sourceCurrent
       /\ latest("call_sheet").sourceCurrent
       /\ latest("call_sheet").required > 0
       /\ latest("call_sheet").confirmed = latest("call_sheet").required)

-----------------------------------------------------------------------------
(* The archive and the workspace.                                          *)

(* The export requested last, with the job requested last for it.          *)
ArchiveObservation(p) ==
  Observation(p.snapshots # {},
    p.snapshots # {} /\ LET s == Latest(p.snapshots)
                        IN s.state = "complete" /\ s.hashed /\ s.completed
                             /\ s.job \in {Nil, "verified"})

WorkspaceSecurityObservation(p) ==
  LET active   == {u \in p.users : u.active}
      count(P(_)) == Cardinality({u \in active : P(u)})
      owner(u) == u.role = "workspace_owner"
      producer(u) == u.role = "producer"
      viewer(u) == u.viewer
      credentialed(u) == u.credential
      members  == {u \in p.users : u.membership # Nil}
  IN Observation(TRUE,
       /\ Cardinality(active) = 3 /\ count(credentialed) = 3
       /\ Cardinality(members) = 3 /\ \A u \in members : u.membership = u.role
       /\ count(owner) = 1 /\ count(producer) = 2 /\ count(viewer) = 1)

-----------------------------------------------------------------------------
ObservationDraft(code, p) ==
  CASE code = "development_approved"       -> DevelopmentObservation(p)
    [] code = "writing_approved_synced"    -> WritingObservation(p)
    [] code = "breakdown_complete"         -> BreakdownObservation(p)
    [] code = "cast_ready"                 -> CastObservation(p)
    [] code = "crew_ready"                 -> CrewObservation(p)
    [] code = "locations_ready"            -> LocationsObservation(p)
    [] code = "budget_ready"               -> BudgetObservation(p)
    [] code = "legal_rights_clearance"     -> LegalObservation(p)
    [] code = "legal_hold"                 -> LegalHoldObservation(p)
    [] code = "insurance_current"          -> InsuranceObservation(p)
    [] code = "safety_ready"               -> SafetyObservation(p)
    [] code = "equipment_ready"            -> EquipmentObservation(p)
    [] code = "department_resources_ready" -> DepartmentResourcesObservation(p)
    [] code = "logistics_ready"            -> LogisticsObservation(p)
    [] code = "schedule_ready"             -> ScheduleObservation(p)
    [] code = "visual_plan_ready"          -> VisualObservation(p)
    [] code = "issued_documents_ready"     -> IssuedDocumentsObservation(p)
    [] code = "archive_integrity"          -> ArchiveObservation(p)
    [] code = "workspace_security"         -> WorkspaceSecurityObservation(p)
    [] OTHER                               -> Observation(FALSE, FALSE)

(* What each rule reads, and the clock of those that ask for the time: a    *)
(* project a known rule is asked about has these, and rows are dated.      *)
RegistersRead ==
  [development_approved |-> {"documents"}, writing_approved_synced |-> {"documents", "syncs"},
   breakdown_complete |-> {"scenes"}, cast_ready |-> {"characters"}, crew_ready |-> {"crew"},
   locations_ready |-> {"locations"}, budget_ready |-> {"budgets"},
   legal_rights_clearance |-> {"requirements", "now"}, legal_hold |-> {"holds", "id"},
   insurance_current |-> {"insurances", "now"}, safety_ready |-> {"risks", "plans", "hazards"},
   equipment_ready |-> {"reservations", "conflicts", "day"},
   department_resources_ready |-> {"elements"}, logistics_ready |-> {"logistics"},
   schedule_ready |-> {"schedules", "days", "conflicts", "day"},
   visual_plan_ready |-> {"plans", "shots"}, issued_documents_ready |-> {"issues", "day"},
   archive_integrity |-> {"snapshots"}, workspace_security |-> {"users"}]

ProjectsAssumption ==
  \A q \in Projects :
    /\ q.code \in DOMAIN RegistersRead => DOMAIN q.of = RegistersRead[q.code]
    /\ q.code = "legal_rights_clearance" =>
         q.of.now \in Nat /\ \A r \in q.of.requirements : r.expires \in Nat
    /\ q.code = "issued_documents_ready" => \A i \in q.of.issues : i.at \in Nat
    /\ q.code = "archive_integrity" => \A s \in q.of.snapshots : s.at \in Nat
ASSUME ProjectsAssumption

SourcesInit == asked \in Projects /\ observed = NotObserved

ObserveRule ==
  /\ observed = NotObserved
  /\ observed' = ObservationDraft(asked.code, asked.of)
  /\ UNCHANGED asked

SourcesNext == ObserveRule

-----------------------------------------------------------------------------
(* What a pass rests on.                                                   *)

RegistersOf(p) == DOMAIN p \ {"id", "now", "day"}

\* Registers a rule may find empty and still pass: holds and conflicts speak
\* against a pass, and an AV script needs no sync.
MayBeEmpty == {"holds", "conflicts", "syncs"}

\* The project without the rows of one register.
Without(p, register) == [p EXCEPT ![register] = {}]

\* The projects one row away: the row is gone.
Less(p) == UNION {{[p EXCEPT ![g] = @ \ {r}] : r \in p[g]} : g \in RegistersOf(p)}

\* The rules for which every row must be ready.  (Of the requirements only the
\* blocking ones count.)
EveryRowCounts ==
  {"breakdown_complete", "cast_ready", "equipment_ready", "department_resources_ready", "legal_hold"}

Passes(code, p) == ObservationDraft(code, p).satisfied

\* A rule that passes found something to pass: it says its source is present,
\* and would not pass without the rows of any register it needs.  ("missing
\* data may be interpreted as passing", docs/threat-model.md.)
MissingNeverPasses ==
  observed # NotObserved /\ observed.satisfied =>
    /\ observed.present
    /\ \A g \in RegistersOf(asked.of) \ MayBeEmpty : ~Passes(asked.code, Without(asked.of, g))

\* Where every row counts, a project that passes would pass with fewer rows, as
\* long as some are left: no row makes up for a gap in another one.
GapsAreNotCovered ==
  observed # NotObserved /\ asked.code \in EveryRowCounts /\ observed.satisfied =>
    \A p \in Less(asked.of) : ObservationDraft(asked.code, p).present =>
      Passes(asked.code, p)

\* The clock alone never lets a requirement pass that did not: what expires
\* stays expired.
ExpiredStaysExpired ==
  asked.code = "legal_rights_clearance" /\ ~Passes(asked.code, asked.of) =>
    ~Passes(asked.code, [asked.of EXCEPT !.now = @ + 1])

\* Of two issues, or two exports, the later one decides: whatever came before
\* it could be left out.
LatestDecides(register) ==
  \A r \in asked.of[register] :
    (\E s \in asked.of[register] : s.at > r.at
        /\ (register = "issues" => s.kind = r.kind /\ s.day = r.day)) =>
      Passes(asked.code, [asked.of EXCEPT ![register] = @ \ {r}]) = Passes(asked.code, asked.of)

\* What a rule passes, it passes for what is there, and for all of it.
PassesAreEarned ==
  /\ MissingNeverPasses
  /\ GapsAreNotCovered
  /\ ExpiredStaysExpired
  /\ asked.code = "issued_documents_ready" => LatestDecides("issues")
  /\ asked.code = "archive_integrity" => LatestDecides("snapshots")
=============================================================================
