------------------------- MODULE ReadinessVerdicts -------------------------
(***************************************************************************)
(* Ready or not is decided four times: evaluateReadiness of the domain     *)
(* package writes the state of the project's row, summarizeReadiness the   *)
(* page and the gate of an issue, createReadinessIssue refuses an issue on *)
(* its own, and uiStatus colours each row.  Here all four judge the same   *)
(* profile, sources and overrides.                                         *)
(*                                                                         *)
(* A question [rules, sources, overrides, now] has code "judge": "rules"   *)
(* is a function from codes to [severity, required], "sources" one to      *)
(* observations, an override is [code, at, expires, role].                 *)
(***************************************************************************)
EXTENDS ReadinessSources, Integers

OwnerOnlyCodes == {"workspace_security", "legal_hold", "archive_integrity"}

(* Every gate of the launch profile is a required blocker, of the project  *)
(* or of a shoot day.                                                      *)
ProjectCodes ==
  {"development_approved", "writing_approved_synced", "breakdown_complete", "budget_ready",
   "legal_rights_clearance", "legal_hold", "insurance_current", "visual_plan_ready",
   "archive_integrity", "workspace_security"}
ShootDayCodes ==
  {"cast_ready", "crew_ready", "locations_ready", "safety_ready", "equipment_ready",
   "department_resources_ready", "logistics_ready", "schedule_ready", "issued_documents_ready"}
DefaultCodes == ProjectCodes \cup ShootDayCodes
DefaultRules == [code \in DefaultCodes |-> [severity |-> "blocker", required |-> TRUE]]

(* loadRules answers 503 for a profile without all the launch gates.       *)
ProfileLoads(rules) ==
  DefaultCodes \subseteq DOMAIN rules /\ \E c \in DOMAIN rules : rules[c].required

-----------------------------------------------------------------------------
(* The engine of the web application.                                      *)

(* A plausible slip: what is not there is not counted against anyone.      *)
AbsentIsWarning(rule, source) ==
  IF ~source.present THEN "warning" ELSE IF source.satisfied THEN "pass" ELSE rule.severity

ResultFromObservation(rule, source) ==
  IF ~source.present THEN "unavailable" ELSE IF source.satisfied THEN "pass" ELSE rule.severity

Standing(q, code) ==
  {o \in q.overrides : o.code = code /\ (o.expires = 0 \/ o.expires > q.now)}

EffectiveResult(q, code) ==
  LET stored == ResultFromObservation(q.rules[code], q.sources[code])
  IN IF stored = "pass" \/ Standing(q, code) = {} THEN stored ELSE "overridden"

Required(q) == {c \in DOMAIN q.rules : q.rules[c].required}

Percent(part, whole) ==
  IF whole = {} THEN 0 ELSE (Cardinality(part) * 100) \div Cardinality(whole)

SummarizeReadiness(q) ==
  LET being(results) == {c \in Required(q) : EffectiveResult(q, c) \in results}
      blocking == being({"blocker", "unavailable"})
  IN [ready |-> blocking = {}, score |-> Percent(being({"pass", "overridden"}), Required(q)),
      blocking |-> blocking, warnings |-> being({"warning"}),
      passed |-> being({"pass", "overridden"}), notApplicable |-> DOMAIN q.rules \ Required(q)]

UiStatus(q, code) ==
  LET e == EffectiveResult(q, code)
  IN CASE ~q.rules[code].required -> "not_applicable"
       [] q.rules[code].required /\ e = "pass" -> "passed"
       [] q.rules[code].required /\ e \in {"overridden", "warning"} -> e
       [] OTHER -> "blocking"

(* An override is offered to whoever looks.                                *)
OverrideOffered(q, code, role) ==
  /\ q.rules[code].required /\ EffectiveResult(q, code) \notin {"pass", "overridden"}
  /\ code \in OwnerOnlyCodes => role = "workspace_owner"

(* The checks of POST /overrides that do not depend on time.               *)
OverrideAccepted(q, code, role) ==
  /\ role # "viewer"
  /\ ResultFromObservation(q.rules[code], q.sources[code]) # "pass"
  /\ code \in OwnerOnlyCodes => role = "workspace_owner"

-----------------------------------------------------------------------------
(* The domain package.                                                     *)

DomainStatus(effective) ==
  CASE effective = "pass"        -> "satisfied"
    [] effective = "unavailable" -> "missing"
    [] effective = "blocker"     -> "blocked"
    [] OTHER                     -> effective

IssueValue(status) ==
  CASE status = "satisfied"              -> "pass"
    [] status \in {"missing", "unloaded"} -> "unavailable"
    [] status \in {"overridden", "warning"} -> status
    [] OTHER                             -> "blocker"

(* The newest override must be that of someone who may give it: otherwise  *)
(* the evaluation throws.                                                  *)
Authorized(q, code) ==
  code \in OwnerOnlyCodes /\ Standing(q, code) # {} =>
    Latest(Standing(q, code)).role = "workspace_owner"

EvaluatedStatus(q, code) ==
  LET source == q.sources[code]
  IN IF source.satisfied /\ source.present THEN "satisfied"
     ELSE IF Standing(q, code) # {} THEN "overridden"
     ELSE IF q.rules[code].severity = "blocker" THEN "blocked" ELSE "warning"

Fulfilled == {"satisfied", "overridden"}

EvaluateReadiness(q) ==
  LET fulfilled == {c \in Required(q) : EvaluatedStatus(q, c) \in Fulfilled}
  IN [ready |-> {c \in Required(q) \ fulfilled : q.rules[c].severity = "blocker"} = {},
      score |-> Percent(fulfilled, Required(q)),
      throws |-> \E c \in DOMAIN q.rules :
                   EvaluatedStatus(q, c) = "overridden" /\ ~Authorized(q, c)]

CanBeIssued(q) ==
  \A c \in Required(q) :
    q.rules[c].severity = "blocker" => DomainStatus(EffectiveResult(q, c)) \in Fulfilled

-----------------------------------------------------------------------------
(* The profile, the sources and the overrides that are judged: overrides   *)
(* were given in the past, those of an owner's codes by the owner.         *)
Judged(q) ==
  /\ \A c \in DOMAIN q.rules :
       /\ q.rules[c].severity \in {"blocker", "warning"} /\ q.rules[c].required \in BOOLEAN
       /\ q.sources[c].present \in BOOLEAN /\ q.sources[c].satisfied \in BOOLEAN
  /\ q.now \in Nat
  /\ \A o \in q.overrides :
       /\ o.at \in 0 .. q.now
       /\ o.code \in OwnerOnlyCodes => o.role = "workspace_owner"

QuestionsAssumption == \A q \in Projects : q.code = "judge" => Judged(q.of)
ASSUME QuestionsAssumption

Judge ==
  /\ asked.code = "judge" /\ observed = NotObserved
  /\ ProfileLoads(asked.of.rules)
  /\ observed' = [made |-> TRUE, satisfied |-> SummarizeReadiness(asked.of).ready,
                  present |-> ~EvaluateReadiness(asked.of).throws]
  /\ UNCHANGED asked

VerdictsNext == (asked.code # "judge" /\ SourcesNext) \/ Judge

VerdictsSpec == SourcesInit /\ [][VerdictsNext]_sourcesVars

-----------------------------------------------------------------------------
Question == asked.of

\* What the page shows as ready the domain package evaluates as ready and lets
\* be issued, at the same score; and where every rule is a blocker, as in the
\* launch profile, all three are one verdict (readiness.ts:396, :778, :813).
OneVerdict ==
  LET page == SummarizeReadiness(Question)
      row  == EvaluateReadiness(Question)
  IN /\ page.ready => row.ready /\ CanBeIssued(Question)
     /\ page.score = row.score
     /\ (\A c \in Required(Question) : Question.rules[c].severity = "blocker") =>
          (page.ready <=> row.ready) /\ (page.ready <=> CanBeIssued(Question))

\* The rows of the page add up to its summary, the values frozen in an issue
\* read back as they were shown, and an override the page offers a member who may
\* edit is accepted (engine.ts:337, :365; readiness.ts:1689, :603).
PageTellsTheVerdict ==
  LET page == SummarizeReadiness(Question)
      of(status) == {c \in DOMAIN Question.rules : UiStatus(Question, c) = status}
  IN /\ of("blocking") = page.blocking /\ of("warning") = page.warnings
     /\ of("passed") \cup of("overridden") = page.passed
     /\ of("not_applicable") = page.notApplicable
     /\ \A c \in DOMAIN Question.rules :
          /\ IssueValue(DomainStatus(EffectiveResult(Question, c))) = EffectiveResult(Question, c)
          /\ \A role \in {"workspace_owner", "producer"} :
               OverrideOffered(Question, c, role) => OverrideAccepted(Question, c, role)

\* Readiness is one verdict, whoever gives it.
VerdictsAgree == asked.code = "judge" /\ observed.made => OneVerdict /\ PageTellsTheVerdict

ReadinessIsEarned == PassesAreEarned /\ VerdictsAgree
=============================================================================
