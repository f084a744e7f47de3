------------------------------ MODULE Readiness ------------------------------
(* Evaluating readiness, overriding a result, freezing Ready to Shoot and     *)
(* finding a frozen issue stale (routes/readiness.ts, server/readiness), and  *)
(* the changes that mark it from outside (operations.ts, screenplay.ts).      *)
(*                                                                            *)
(* A source is the version and the state of the records one rule observes;    *)
(* its hash is taken to be collision free.  The reads of a request run in     *)
(* parallel while the sources change: what it sees of each of them is what it *)
(* was at some moment since the request began.                                *)
EXTENDS Naturals, Sequences

CONSTANTS
  Rules,          \* the gates of the profile, all required blockers
  SourceStates,   \* what a source can be: absent, unmet or met
  Marks,          \* how a rule's sources are marked by the routes that edit them
  Days,           \* shoot days with a readiness of their own
  Handlers,       \* requests at a time
  Alone,          \* kinds of requests that do not overlap each other in an instance
  Project,        \* the scope of the whole project
  HandStates,     \* what is written by hand to a shoot day
  MaxEdits, MaxIssues, MaxCapture, MaxTime

Scopes == Days \cup {Project}

ASSUME ReadinessAssumption ==
  /\ SourceStates \subseteq {"absent", "unmet", "met"}
  /\ Marks \in [Rules -> SUBSET {"nothing", "project", "issues"}]
  /\ Project \notin Days
  /\ HandStates \subseteq {"blocked", "warning", "ready", "stale", "unavailable"}
  /\ {MaxEdits, MaxIssues, MaxCapture, MaxTime} \subseteq Nat

VARIABLES
  past,       \* the sources of every rule, at every moment until now
  profile,    \* the active profile version, 0 when there is none
  shown,      \* readiness_state of the project and of the shoot days
  fresh,      \* requests since whose first read projects.version has not changed
  evals,      \* evaluations of a scope
  overrides,  \* in the order of their inserts
  issues,     \* readiness_issues of a scope, in the order of their inserts
  clock,
  req

vars == <<past, profile, shown, fresh, evals, overrides, issues, clock, req>>
records == <<profile, shown, fresh, evals, overrides, issues>>

Source == [version : Nat, state : SourceStates]

Evaluation == [at : Nat, profile : Nat, pins : [Rules -> Source]]

Override == [at : Nat, scope : Scopes, profile : Nat, rule : Rules, expires : Nat]

\* Why an issue is stale: the row of a stale event.
Reasons == {"source", "gone", "override"} \X Rules

\* frozen[r] is the override a result rests on, 0 for none.
Document == [eval : Nat, profile : Nat, pins : [Rules -> Source], frozen : [Rules -> Nat]]

Issue == [number : Nat, document : Document, supersedes : Nat,
          standing : {"ready", "stale", "superseded"}, events : SUBSET Reasons]

Request ==
  [kind : {"idle", "provision", "evaluate", "override", "issue", "publish", "view", "found"},
   scope : Scopes, now : Nat, profile : Nat, eval : Nat, rule : SUBSET Rules,
   from : Nat,      \* the moment it began to read sources
   known : Nat,     \* how many overrides there were
   latest : Nat, standing : {"none", "ready", "stale", "superseded"},
   outdated : Nat]

Idle ==
  [kind |-> "idle", scope |-> Project, now |-> 0, profile |-> 0, eval |-> 0,
   rule |-> {}, from |-> 0, known |-> 0, latest |-> 0, standing |-> "none", outdated |-> 0]

Statuses == {"blocked", "warning", "ready", "stale", "unavailable"}

-----------------------------------------------------------------------------
(* The engine. *)

\* latestEvaluation: by completed_at, which is the time it was captured.
LatestEvaluation(s) == CHOOSE e \in evals[s] : \A f \in evals[s] : f.at <= e.at

EvaluationOf(s, at) == CHOOSE e \in evals[s] : e.at = at

\* The first n overrides of a scope; those of a rule that are active at a time, and
\* the newest of them.
OverridesOf(s, n) == {overrides[i] : i \in {j \in 1 .. n : overrides[j].scope = s}}

ActiveOverrides(os, p, r, now) ==
  {o \in os : o.profile = p /\ o.rule = r /\ (o.expires = 0 \/ o.expires > now)}

ActiveOverride(os, p, r, now) ==
  LET active == ActiveOverrides(os, p, r, now)
  IN  IF active = {} THEN 0 ELSE (CHOOSE o \in active : \A q \in active : q.at <= o.at).at

\* resultFromObservation of a required blocker.
StoredResult(source) ==
  IF source.state = "absent" THEN "unavailable"
  ELSE IF source.state = "met" THEN "pass" ELSE "blocker"

\* summarizeReadiness: no result blocks that does not pass and is not overridden.
SummaryReady(pins, os, p, now) ==
  \A r \in Rules :
    StoredResult(pins[r]) = "pass" \/ ActiveOverride(os, p, r, now) # 0

\* evaluateReadiness of the domain package, whose answer the project row shows.
EvaluationReady(sources, os, p, now) ==
  \A r \in Rules :
    sources[r].state = "met" \/ ActiveOverrides(os, p, r, now) # {}

\* Mutant of Changed: only the rules are compared, not what was seen of them.
ChangedRulesOnly(pins, p, sources, q) == IF p # q THEN {"gone"} \X Rules ELSE {}

\* compareSourceFingerprints: rules of another profile version are gone.
Changed(pins, p, sources, q) ==
  IF p # q THEN {"gone"} \X Rules
  ELSE {"source"} \X {r \in Rules : sources[r] # pins[r]}

\* Mutant of ReadyState: the word of the results instead of that of the rows.
ReadyStateOfResult(ready) == IF ready THEN "ready" ELSE "blocker"

\* What a row shows of an evaluation.
ReadyState(ready) == IF ready THEN "ready" ELSE "blocked"

LastIssue(s) == issues[s][Len(issues[s])]

\* What is wrong with document d for someone who sees these sources and overrides;
\* overrides are compared with those of the results of evaluation profile ep.
StaleReasons(d, sources, q, os, ep, now) ==
  Changed(d.pins, d.profile, sources, q) \cup
  ({"override"} \X
     {r \in Rules : d.frozen[r] # 0 /\
                    (ep = d.profile => ActiveOverride(os, ep, r, now) # d.frozen[r])})

-----------------------------------------------------------------------------
Init ==
  /\ \E sources \in [Rules -> [version : {0}, state : SourceStates]] : past = <<sources>>
  /\ profile = 0
  /\ shown = [s \in Scopes |-> "blocked"]
  /\ fresh = {}
  /\ evals = [s \in Scopes |-> {}]
  /\ overrides = << >>
  /\ issues = [s \in Scopes |-> << >>]
  /\ clock = 0
  /\ req = [h \in Handlers |-> Idle]

Now == past[Len(past)]

\* loadReadinessSources: what a request may have seen of the sources until now,
\* when it read the source of rule r at moment at[r].
Readings(q) ==
  {[r \in Rules |-> past[at[r]][r]] : at \in [Rules -> q.from .. Len(past)]}

Kind(q) == IF q.kind = "found" THEN "view" ELSE q.kind

\* A request starts with its first reads.
Begin(h, r) ==
  /\ req[h].kind = "idle"
  /\ r.kind \in Alone => \A g \in Handlers : Kind(req[g]) \notin Alone
  /\ req' = [req EXCEPT ![h] = [r EXCEPT !.from = Len(past), !.known = Len(overrides)]]

End(h) == req' = [req EXCEPT ![h] = Idle]

\* The row of a scope is written, and the version of the project raised.
Show(s, state) == shown' = [shown EXCEPT ![s] = state] /\ fresh' = {}

-----------------------------------------------------------------------------
(* POST /evaluate.  The default profile is provisioned when there is none.    *)
(* Captures of evaluations and overrides are a millisecond apart.             *)

Evaluating(s, p) ==
  [Idle EXCEPT !.kind = "evaluate", !.scope = s, !.profile = p, !.now = clock + 1]

StartEvaluate(h, s) ==
  /\ profile # 0
  /\ clock < MaxCapture
  /\ Begin(h, Evaluating(s, profile))
  /\ clock' = clock + 1
  /\ UNCHANGED <<past, records>>

FindNoProfile(h, s) ==
  /\ profile = 0
  /\ Begin(h, [Idle EXCEPT !.kind = "provision", !.scope = s])
  /\ UNCHANGED <<past, records, clock>>

\* ensureDefaultProfile supersedes whatever is active by now.
Provision(h) ==
  /\ req[h].kind = "provision"
  /\ clock < MaxCapture
  /\ profile' = profile + 1
  /\ clock' = clock + 1
  /\ req' = [req EXCEPT ![h] = [Evaluating(@.scope, profile + 1) EXCEPT
                                  !.from = Len(past), !.known = Len(overrides)]]
  /\ UNCHANGED <<past, shown, fresh, evals, overrides, issues>>

\* The overrides are read in parallel with the sources.  The batch has no guard: it
\* overwrites whatever the row shows by now.
CommitEvaluate(h) ==
  LET q == req[h]
  IN  /\ q.kind = "evaluate"
      /\ \E seen \in Readings(q), n \in q.known .. Len(overrides) :
           /\ evals' = [evals EXCEPT ![q.scope] =
                          @ \cup {[at |-> q.now, profile |-> q.profile, pins |-> seen]}]
           /\ Show(q.scope,
                   ReadyState(EvaluationReady(seen, OverridesOf(q.scope, n), q.profile, q.now)))
      /\ End(h)
      /\ UNCHANGED <<past, profile, overrides, issues, clock>>

-----------------------------------------------------------------------------
(* POST /overrides, for a result that does not pass of the latest evaluation. *)

StartOverride(h, s, r) ==
  /\ evals[s] # {}
  /\ StoredResult(LatestEvaluation(s).pins[r]) # "pass"
  /\ clock < MaxCapture
  /\ Begin(h, [Idle EXCEPT !.kind = "override", !.scope = s, !.rule = {r},
                           !.eval = LatestEvaluation(s).at, !.profile = profile, !.now = clock + 1])
  /\ clock' = clock + 1
  /\ UNCHANGED <<past, records>>

\* A request saw its evaluation's sources unchanged.
Unchanged(q) ==
  LET e == EvaluationOf(q.scope, q.eval)
  IN  \E seen \in Readings(q) : Changed(e.pins, e.profile, seen, q.profile) = {}

\* The override may expire.
CommitOverride(h, life) ==
  LET q == req[h]
  IN  /\ q.kind = "override"
      /\ Unchanged(q)
      /\ \E r \in q.rule :
           overrides' = Append(overrides,
             [at |-> q.now, scope |-> q.scope, rule |-> r,
              profile |-> EvaluationOf(q.scope, q.eval).profile,
              expires |-> IF life = 0 THEN 0 ELSE q.now + life])
      /\ End(h)
      /\ UNCHANGED <<past, profile, shown, fresh, evals, issues, clock>>

-----------------------------------------------------------------------------
(* POST /issues.  The project version is read first and guarded in the batch. *)

StartIssue(h, s) ==
  /\ evals[s] # {}
  /\ Len(issues[s]) < MaxIssues
  /\ Begin(h, [Idle EXCEPT !.kind = "issue", !.scope = s, !.eval = LatestEvaluation(s).at,
                           !.profile = profile, !.now = clock])
  /\ fresh' = fresh \cup {h}
  /\ UNCHANGED <<past, profile, shown, evals, overrides, issues, clock>>

\* Nothing changed since the evaluation and, with the overrides read after the
\* sources, nothing blocks; then the prior issue and the highest number are read.
DecideIssue(h) ==
  LET q == req[h]
      e == EvaluationOf(q.scope, q.eval)
  IN  /\ q.kind = "issue"
      /\ Unchanged(q)
      /\ SummaryReady(e.pins, OverridesOf(q.scope, Len(overrides)), e.profile, q.now)
      /\ req' = [req EXCEPT ![h].kind = "publish", ![h].known = Len(overrides),
                            ![h].latest = Len(issues[q.scope])]
      /\ UNCHANGED <<past, records, clock>>

FrozenDocument(q) ==
  LET e == EvaluationOf(q.scope, q.eval)
  IN  [eval |-> e.at, profile |-> e.profile, pins |-> e.pins,
       frozen |-> [r \in Rules |->
         ActiveOverride(OverridesOf(q.scope, q.known), e.profile, r, q.now)]]

\* Mutant of Superseded: a stale issue is not superseded.
SupersededIfReady(c, n) ==
  [k \in DOMAIN c |-> IF k = n /\ c[k].standing = "ready"
                        THEN [c[k] EXCEPT !.standing = "superseded"] ELSE c[k]]

\* The chain c after its issue n, the prior one, was superseded.
Superseded(c, n) ==
  [k \in DOMAIN c |-> IF k = n THEN [c[k] EXCEPT !.standing = "superseded"] ELSE c[k]]

\* Mutant of StillFresh: the batch has no guard row.
AlwaysFresh(h) == h \in Handlers

\* The guard row of the batch compares the version of the project.
StillFresh(h) == h \in fresh

CommitIssue(h) ==
  LET q == req[h]
      new == [number |-> q.latest + 1, document |-> FrozenDocument(q),
              supersedes |-> q.latest, standing |-> "ready", events |-> {}]
  IN  /\ q.kind = "publish"
      /\ StillFresh(h)
      /\ issues' = [issues EXCEPT ![q.scope] =
           Append(Superseded(@, q.latest), new)]
      /\ Show(q.scope, "ready")
      /\ End(h)
      /\ UNCHANGED <<past, profile, evals, overrides, clock>>

-----------------------------------------------------------------------------
(* GET / compares the latest issue with the sources and persists what it finds. *)

Outdated(d) ==
  \/ d.pins # Now
  \/ \E i \in DOMAIN overrides :
       overrides[i].at \in {d.frozen[r] : r \in Rules} /\ overrides[i].expires \in 1 .. clock

\* outdated is a history variable: the issue that was outdated when the view began.
StartView(h, s) ==
  /\ evals[s] # {}
  /\ Begin(h, [Idle EXCEPT !.kind = "view", !.scope = s, !.eval = LatestEvaluation(s).at,
                           !.profile = profile, !.now = clock,
                           !.outdated = IF issues[s] # << >> /\ Outdated(LastIssue(s).document)
                                          THEN Len(issues[s]) ELSE 0])
  /\ UNCHANGED <<past, records, clock>>

ReadIssue(h) ==
  LET s == req[h].scope
  IN  /\ req[h].kind = "view"
      /\ req' = [req EXCEPT ![h].kind = "found", ![h].latest = Len(issues[s]),
                            ![h].standing = IF issues[s] = << >> THEN "none"
                                              ELSE LastIssue(s).standing]
      /\ UNCHANGED <<past, records, clock>>

\* Mutant of ViewReasons: the evaluation is compared instead of the issue.
ViewReasonsOfEvaluation(q) ==
  LET e == EvaluationOf(q.scope, q.eval)
  IN  {Changed(e.pins, e.profile, seen, q.profile) : seen \in Readings(q)}

\* The reasons a view can find, one set for each way its reads can have gone.
ViewReasons(q) ==
  {StaleReasons(issues[q.scope][q.latest].document, seen, q.profile,
                OverridesOf(q.scope, n), EvaluationOf(q.scope, q.eval).profile, q.now) :
     seen \in Readings(q), n \in q.known .. Len(overrides)}

\* An issue that was stale when it was read, for reasons that are known, is left alone.
NothingNew(q, reasons) ==
  reasons = {} \/ (q.standing = "stale" /\ reasons \subseteq issues[q.scope][q.latest].events)

EndView(h) ==
  LET q == req[h]
  IN  /\ q.kind = "found"
      /\ q.standing \notin {"none", "superseded"} =>
           \E reasons \in ViewReasons(q) : NothingNew(q, reasons)
      /\ End(h)
      /\ UNCHANGED <<past, records, clock>>

\* The issue is marked unless it was superseded meanwhile; the reasons are kept.
FoundStale(i, reasons) ==
  [i EXCEPT !.events = @ \cup reasons, !.standing = IF @ = "ready" THEN "stale" ELSE @]

CommitView(h) ==
  LET q == req[h]
  IN  /\ q.kind = "found"
      /\ q.standing \notin {"none", "superseded"}
      /\ \E reasons \in ViewReasons(q) :
           /\ ~NothingNew(q, reasons)
           /\ issues' = [issues EXCEPT ![q.scope][q.latest] = FoundStale(@, reasons)]
      /\ shown' = [shown EXCEPT ![q.scope] = "stale"]
      /\ fresh' = IF q.scope = Project /\ shown[Project] # "stale" THEN {} ELSE fresh
      /\ End(h)
      /\ UNCHANGED <<past, profile, evals, overrides, clock>>

-----------------------------------------------------------------------------
(* Changes from elsewhere. *)

MarkIssues ==
  [s \in Scopes |-> [k \in DOMAIN issues[s] |->
     IF issues[s][k].standing = "ready"
       THEN [issues[s][k] EXCEPT !.standing = "stale"] ELSE issues[s][k]]]

\* The records a rule observes change.  Most routes mark nothing; schedules and
\* issued documents mark a ready project; a synchronisation marks the issues too.
Edit(r, state, mark) ==
  /\ Len(past) <= MaxEdits
  /\ past' = Append(past, [Now EXCEPT ![r] = [version |-> @.version + 1, state |-> state]])
  /\ \/ /\ mark = "nothing"
        /\ UNCHANGED <<shown, fresh, issues>>
     \/ /\ mark = "project"
        /\ IF shown[Project] = "ready" THEN Show(Project, "stale")
                                       ELSE UNCHANGED <<shown, fresh>>
        /\ UNCHANGED issues
     \/ /\ mark = "issues"
        /\ issues' = MarkIssues
        /\ Show(Project, "stale")
  /\ UNCHANGED <<profile, evals, overrides, clock, req>>

\* PATCH /shoot-days/:id writes any readiness state.
SetDay(d, state) ==
  /\ shown' = [shown EXCEPT ![d] = state]
  /\ UNCHANGED <<past, profile, fresh, evals, overrides, issues, clock, req>>

\* A refusal, a failed batch or a Worker that dies.
Drop(h) ==
  /\ req[h].kind # "idle"
  /\ End(h)
  /\ fresh' = fresh \ {h}
  /\ UNCHANGED <<past, profile, shown, evals, overrides, issues, clock>>

\* Time only matters to overrides.
Tick ==
  /\ clock < MaxTime
  /\ \E i \in DOMAIN overrides : overrides[i].expires > clock
  /\ clock' = clock + 1
  /\ UNCHANGED <<past, records, req>>

Step(h) ==
  \/ Provision(h)
  \/ CommitEvaluate(h)
  \/ \E life \in 0 .. 1 : CommitOverride(h, life)
  \/ DecideIssue(h)
  \/ CommitIssue(h)
  \/ ReadIssue(h)
  \/ EndView(h)
  \/ CommitView(h)
  \/ Drop(h)

Start(h, s) ==
  \/ StartEvaluate(h, s)
  \/ FindNoProfile(h, s)
  \/ \E r \in Rules : StartOverride(h, s, r)
  \/ StartIssue(h, s)
  \/ StartView(h, s)

Next ==
  \/ \E h \in Handlers : Step(h)
  \/ \E h \in Handlers, s \in Scopes : Start(h, s)
  \/ \E r \in Rules, state \in SourceStates : \E mark \in Marks[r] : Edit(r, state, mark)
  \/ \E d \in Days, state \in HandStates : SetDay(d, state)
  \/ Tick

Spec == Init /\ [][Next]_vars
-----------------------------------------------------------------------------
(* Properties. *)

\* Types of all variables.
TypeOK ==
  /\ past \in Seq([Rules -> Source])
  /\ profile \in Nat
  /\ shown \in [Scopes -> Statuses]
  /\ fresh \subseteq Handlers
  /\ evals \in [Scopes -> SUBSET Evaluation]
  /\ overrides \in Seq(Override)
  /\ issues \in [Scopes -> Seq(Issue)]
  /\ clock \in Nat
  /\ req \in [Handlers -> Request]

\* What a frozen issue says was true: at some moment all its sources together were
\* what it pins, although each was read at a time of its own, once for the evaluation
\* and once for the issue; and every gate was met or rests on an override it names.
IssueWasTrue ==
  \A s \in Scopes : \A k \in DOMAIN issues[s] :
    LET d == issues[s][k].document
    IN  /\ \E i \in DOMAIN past : past[i] = d.pins
        /\ \A r \in Rules : d.pins[r].state = "met" \/ d.frozen[r] # 0

\* An issue freezes the evaluation that is the latest of its scope at that moment,
\* whatever other requests evaluated since it was asked for.
IssueOfLatest ==
  [][\A s \in Scopes :
       Len(issues'[s]) > Len(issues[s]) =>
         issues'[s][Len(issues'[s])].document.eval = LatestEvaluation(s).at]_vars

\* Whoever looks at readiness finds what was outdated when he began to look: when
\* the answer is given, that issue is no longer ready, however often the project was
\* evaluated, issued or looked at meanwhile.
ViewFindsOutdated ==
  [][\A h \in Handlers :
       EndView(h) \/ CommitView(h) =>
         \A k \in DOMAIN issues'[req[h].scope] :
           k = req[h].outdated => issues'[req[h].scope][k].standing # "ready"]_vars

\* What a chain of issues is to the register: everything but the stale events.
Entries(c) ==
  [k \in DOMAIN c |-> [number |-> c[k].number, document |-> c[k].document,
                        supersedes |-> c[k].supersedes, standing |-> c[k].standing]]

Chain == [s \in Scopes |-> Entries(issues[s])]

\* The issues of every scope are a register of immutable documents with one current
\* element: numbers without gaps, each superseding the one before.
Register == INSTANCE IssueRegister WITH Documents <- Document, chain <- Chain

IssuesAreARegister == Register!Spec
=============================================================================
