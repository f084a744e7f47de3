-------------------------- MODULE Readiness_proofs --------------------------
(***************************************************************************)
(* Theorems about Readiness for every set of rules, days and handlers,     *)
(* every way sources are marked, and every bound; and about what each rule *)
(* observes and the verdicts on it (ReadinessSources, ReadinessVerdicts)   *)
(* for any rows.                                                           *)
(***************************************************************************)
EXTENDS Readiness, ReadinessVerdicts, FiniteSetTheorems, WellFoundedInduction,
        SequenceTheorems, TLAPS

(* The pins of an evaluation were read at moments up to n. *)
Pinned(pins, n) == \A r \in Rules : \E i \in 1 .. n : past[i][r] = pins[r]

(* No time that was captured lies ahead of the clock. *)
Times ==
  /\ \A s \in Scopes : \A e \in evals[s] : e.at <= clock
  /\ \A i \in DOMAIN overrides : overrides[i].at <= clock
  /\ \A h \in Handlers : req[h].now <= clock

(* A request began at a moment there was, and what it refers to exists. *)
Backed(q) ==
  /\ q.kind # "idle" => q.from \in DOMAIN past
  /\ q.known <= Len(overrides)
  /\ q.kind \in {"override", "issue", "publish", "view", "found"} =>
       \E e \in evals[q.scope] : e.at = q.eval
  /\ q.kind = "found" /\ q.standing # "none" => q.latest \in DOMAIN issues[q.scope]

RequestsBacked == \A h \in Handlers : Backed(req[h])

(* Versions of a source only grow, and a version says what the source was. *)
HistoryGrows ==
  /\ past # << >>
  /\ \A i, j \in DOMAIN past : i <= j =>
       \A r \in Rules :
         /\ past[i][r].version <= past[j][r].version
         /\ past[i][r].version = past[j][r].version => past[i][r] = past[j][r]

(* Every evaluation pins sources that were read. *)
EvaluationsSeen ==
  \A s \in Scopes : \A e \in evals[s] : Pinned(e.pins, Len(past))

(* While the project's version is what a freezing request read, the latest  *)
(* evaluation is the one it freezes, made before the request began; once it *)
(* decided, everything pinned was so when it began, the gates are met or    *)
(* overridden, and the prior issue is the last.                             *)
FreshRequest(q) ==
  LET e == EvaluationOf(q.scope, q.eval)
  IN  /\ q.kind \in {"issue", "publish"}
      /\ q.eval = LatestEvaluation(q.scope).at
      /\ \A f \in evals[q.scope] : Pinned(f.pins, q.from)
      /\ q.kind = "publish" =>
           /\ e.pins = past[q.from]
           /\ SummaryReady(e.pins, OverridesOf(q.scope, q.known), e.profile, q.now)
           /\ q.latest = Len(issues[q.scope])

FreshRequests == \A h \in fresh : FreshRequest(req[h])

(* Issues are numbered by their place, and all but the last are superseded. *)
Chains ==
  \A s \in Scopes : \A k \in DOMAIN issues[s] :
    /\ issues[s][k].number = k
    /\ k < Len(issues[s]) => issues[s][k].standing = "superseded"

(* The inductive invariant. *)
IndInv ==
  /\ TypeOK
  /\ Times
  /\ RequestsBacked
  /\ HistoryGrows
  /\ EvaluationsSeen
  /\ FreshRequests
  /\ Chains
  /\ IssueWasTrue

-----------------------------------------------------------------------------
(* A bounded set of numbers has a greatest element. *)
LEMMA BoundedMaximum ==
  ASSUME NEW S \in SUBSET Nat, S # {}, NEW b \in Nat, \A x \in S : x <= b
  PROVE  \E x \in S : \A y \in S : y <= x
<1> DEFINE T == {b - x : x \in S}
           R == OpToRel(<, Nat)
<1>1. T \subseteq Nat /\ T # {}
  <2>1. \A x \in S : b - x \in Nat
    OBVIOUS
  <2>2. PICK z \in S : TRUE
    OBVIOUS
  <2>3. b - z \in T
    OBVIOUS
  <2> QED
    BY <2>1, <2>3
<1>2. IsWellFoundedOn(R, Nat)
  BY NatLessThanWellFounded
<1>3. PICK t \in T : \A u \in T : ~(<<u, t>> \in R)
  <2> HIDE DEF T, R
  <2> QED
    BY <1>1, <1>2, WFMin
<1>4. \A u \in T : ~(u < t)
  BY <1>1, <1>3 DEF OpToRel
<1>5. PICK x \in S : t = b - x
  OBVIOUS
<1>6. \A y \in S : ~(b - y < b - x)
  BY <1>4, <1>5
<1> QED
  BY <1>5, <1>6

(* The newest of some rows whose times lie within the clock. *)
LEMMA NewestExists ==
  ASSUME NEW T, T # {}, NEW b \in Nat, \A e \in T : e.at \in Nat /\ e.at <= b
  PROVE  \E e \in T : \A f \in T : f.at <= e.at
<1> DEFINE S == {e.at : e \in T}
<1>1. S \in SUBSET Nat /\ S # {} /\ \A x \in S : x <= b
  OBVIOUS
<1>2. PICK x \in S : \A y \in S : y <= x
  <2> HIDE DEF S
  <2> QED
    BY <1>1, BoundedMaximum
<1>3. PICK e \in T : x = e.at
  OBVIOUS
<1> QED
  BY <1>2, <1>3

LEMMA LatestType ==
  ASSUME TypeOK, Times, NEW s \in Scopes, evals[s] # {}
  PROVE  /\ LatestEvaluation(s) \in evals[s]
         /\ LatestEvaluation(s) \in Evaluation
<1>1. evals[s] \subseteq Evaluation
  BY DEF TypeOK
<1>2. \A e \in evals[s] : e.at \in Nat /\ e.at <= clock
  BY <1>1 DEF Times, Evaluation
<1>3. \E e \in evals[s] : \A f \in evals[s] : f.at <= e.at
  <2>1. clock \in Nat
    BY DEF TypeOK
  <2> QED
    BY <1>2, <2>1, NewestExists
<1> QED
  BY <1>1, <1>3 DEF LatestEvaluation

(* The override a result rests on. *)
LEMMA OverridesType ==
  ASSUME TypeOK, Times, NEW s, NEW n \in Nat, n <= Len(overrides)
  PROVE  /\ OverridesOf(s, n) \subseteq Override
         /\ \A o \in OverridesOf(s, n) : o.at \in Nat /\ o.at <= clock
<1>1. \A i \in 1 .. n : i \in DOMAIN overrides /\ overrides[i] \in Override
  BY DEF TypeOK
<1> QED
  BY <1>1 DEF OverridesOf, Times, Override

LEMMA ActiveOverrideType ==
  ASSUME TypeOK, Times, NEW s, NEW n \in Nat, n <= Len(overrides), NEW p, NEW r, NEW now
  PROVE  ActiveOverride(OverridesOf(s, n), p, r, now) \in Nat
<1> DEFINE active == ActiveOverrides(OverridesOf(s, n), p, r, now)
<1>1. \A o \in active : o.at \in Nat /\ o.at <= clock
  BY OverridesType DEF ActiveOverrides
<1>2. CASE active = {}
  BY <1>2 DEF ActiveOverride
<1>3. CASE active # {}
  <2>1. clock \in Nat
    BY DEF TypeOK
  <2>2. \E o \in active : \A q \in active : q.at <= o.at
    <3> HIDE DEF active
    <3> QED
      BY <1>1, <1>3, <2>1, NewestExists
  <2> QED
    BY <1>1, <1>3, <2>2 DEF ActiveOverride
<1> QED
  BY <1>2, <1>3

LEMMA EvaluationType ==
  ASSUME TypeOK, RequestsBacked, NEW h \in Handlers,
         req[h].kind \in {"override", "issue", "publish", "view", "found"}
  PROVE  /\ EvaluationOf(req[h].scope, req[h].eval) \in evals[req[h].scope]
         /\ EvaluationOf(req[h].scope, req[h].eval) \in Evaluation
         /\ EvaluationOf(req[h].scope, req[h].eval).at = req[h].eval
<1>1. \E e \in evals[req[h].scope] : e.at = req[h].eval
  BY DEF RequestsBacked, Backed
<1>2. req[h].scope \in Scopes /\ evals[req[h].scope] \subseteq Evaluation
  BY DEF TypeOK, Request
<1> QED
  BY <1>1, <1>2 DEF EvaluationOf

(* Starting and ending a request keeps the table of requests well typed. *)
LEMMA IdleType == Idle \in Request
  BY DEF Idle, Request, Scopes

LEMMA BeginType ==
  ASSUME TypeOK, NEW h \in Handlers, NEW q \in Request, Begin(h, q)
  PROVE  /\ req' \in [Handlers -> Request]
         /\ req[h].kind = "idle"
         /\ \A g \in Handlers : g # h => req'[g] = req[g]
         /\ req'[h] = [q EXCEPT !.from = Len(past), !.known = Len(overrides)]
<1>1. Len(past) \in Nat /\ Len(overrides) \in Nat
  BY DEF TypeOK
<1>2. [q EXCEPT !.from = Len(past), !.known = Len(overrides)] \in Request
  BY <1>1 DEF Request
<1> QED
  BY <1>2 DEF Begin, TypeOK

LEMMA EndType ==
  ASSUME TypeOK, NEW h \in Handlers, End(h)
  PROVE  /\ req' \in [Handlers -> Request]
         /\ \A g \in Handlers : g # h => req'[g] = req[g]
         /\ req'[h] = Idle
  BY IdleType DEF End, TypeOK

LEMMA FromType ==
  ASSUME TypeOK, RequestsBacked, NEW h \in Handlers, req[h].kind # "idle"
  PROVE  /\ Len(past) \in Nat /\ DOMAIN past = 1 .. Len(past)
         /\ req[h].from \in Nat /\ req[h].from \in 1 .. Len(past)
<1>1. Len(past) \in Nat /\ DOMAIN past = 1 .. Len(past)
  BY DEF TypeOK
<1>2. req[h].from \in Nat
  BY DEF TypeOK, Request
<1>3. req[h].from \in DOMAIN past
  BY DEF RequestsBacked, Backed
<1> QED
  BY <1>1, <1>2, <1>3

(* What a request saw of the sources. *)
LEMMA ReadingsType ==
  ASSUME TypeOK, RequestsBacked, NEW h \in Handlers, req[h].kind # "idle",
         NEW seen \in Readings(req[h])
  PROVE  /\ seen \in [Rules -> Source]
         /\ \A r \in Rules : \E i \in req[h].from .. Len(past) : seen[r] = past[i][r]
<1>1. req[h].from \in Nat /\ req[h].from \in 1 .. Len(past)
  BY DEF RequestsBacked, Backed, TypeOK, Request
<1>2. PICK at \in [Rules -> req[h].from .. Len(past)] : seen = [r \in Rules |-> past[at[r]][r]]
  BY DEF Readings
<1>3. \A r \in Rules : at[r] \in DOMAIN past
  <2>1. Len(past) \in Nat /\ DOMAIN past = 1 .. Len(past)
    BY DEF TypeOK
  <2>2. \A r \in Rules : at[r] \in req[h].from .. Len(past)
    BY <1>2
  <2>3. req[h].from .. Len(past) \subseteq 1 .. Len(past)
    BY <1>1, <2>1
  <2> QED
    BY <2>1, <2>2, <2>3
<1>4. \A i \in DOMAIN past : past[i] \in [Rules -> Source]
  BY DEF TypeOK
<1> QED
  BY <1>2, <1>3, <1>4

LEMMA TypeInit == Init => TypeOK
<1> SUFFICES ASSUME Init PROVE TypeOK
  OBVIOUS
<1>1. past \in Seq([Rules -> Source])
  <2>1. PICK sources \in [Rules -> [version : {0}, state : SourceStates]] : past = <<sources>>
    BY DEF Init
  <2>2. sources \in [Rules -> Source]
    BY DEF Source
  <2> QED
    BY <2>1, <2>2
<1> QED
  BY <1>1, IdleType DEF Init, TypeOK, Statuses

(* What is frozen, stored and found has the right type. *)
LEMMA FrozenType ==
  ASSUME TypeOK, Times, RequestsBacked, NEW h \in Handlers, req[h].kind = "publish"
  PROVE  FrozenDocument(req[h]) \in Document
<1> DEFINE q == req[h]
           e == EvaluationOf(q.scope, q.eval)
<1>1. e \in Evaluation
  BY EvaluationType
<1>2. q.known \in Nat /\ q.known <= Len(overrides)
  BY DEF RequestsBacked, Backed, TypeOK, Request
<1>3. \A r \in Rules :
        ActiveOverride(OverridesOf(q.scope, q.known), e.profile, r, q.now) \in Nat
  BY <1>2, ActiveOverrideType
<1> QED
  BY <1>1, <1>3 DEF FrozenDocument, Document, Evaluation

LEMMA StandingType ==
  ASSUME NEW i \in Issue, NEW st \in {"ready", "stale", "superseded"}
  PROVE  [i EXCEPT !.standing = st] \in Issue
  BY DEF Issue

LEMMA SupersededType ==
  ASSUME NEW c \in Seq(Issue), NEW n
  PROVE  /\ Superseded(c, n) \in Seq(Issue)
         /\ Len(Superseded(c, n)) = Len(c)
         /\ DOMAIN Superseded(c, n) = DOMAIN c
         /\ \A k \in DOMAIN c :
              Superseded(c, n)[k] =
                IF k = n THEN [c[k] EXCEPT !.standing = "superseded"] ELSE c[k]
<1> DEFINE x == [k \in 1 .. Len(c) |->
                   IF k = n THEN [c[k] EXCEPT !.standing = "superseded"] ELSE c[k]]
<1>1. \A k \in 1 .. Len(c) :
        (IF k = n THEN [c[k] EXCEPT !.standing = "superseded"] ELSE c[k]) \in Issue
  <2> TAKE k \in 1 .. Len(c)
  <2>1. c[k] \in Issue
    OBVIOUS
  <2>2. [c[k] EXCEPT !.standing = "superseded"] \in Issue
    BY <2>1, StandingType
  <2> QED
    BY <2>1, <2>2
<1>2. x \in Seq(Issue) /\ Len(x) = Len(c)
  BY <1>1
<1>3. Superseded(c, n) = x
  BY DEF Superseded
<1> QED
  BY <1>2, <1>3

LEMMA MarkedType ==
  ASSUME TypeOK, NEW s \in Scopes
  PROVE  /\ MarkIssues[s] \in Seq(Issue)
         /\ Len(MarkIssues[s]) = Len(issues[s])
         /\ \A k \in DOMAIN issues[s] :
              MarkIssues[s][k] =
                IF issues[s][k].standing = "ready"
                  THEN [issues[s][k] EXCEPT !.standing = "stale"] ELSE issues[s][k]
<1> DEFINE x == [k \in 1 .. Len(issues[s]) |->
                   IF issues[s][k].standing = "ready"
                     THEN [issues[s][k] EXCEPT !.standing = "stale"] ELSE issues[s][k]]
<1>1. issues[s] \in Seq(Issue)
  BY DEF TypeOK
<1>2. \A k \in 1 .. Len(issues[s]) :
        (IF issues[s][k].standing = "ready"
           THEN [issues[s][k] EXCEPT !.standing = "stale"] ELSE issues[s][k]) \in Issue
  <2> TAKE k \in 1 .. Len(issues[s])
  <2>1. issues[s][k] \in Issue
    BY <1>1
  <2>2. [issues[s][k] EXCEPT !.standing = "stale"] \in Issue
    BY <2>1, StandingType
  <2> QED
    BY <2>1, <2>2
<1>3. x \in Seq(Issue) /\ Len(x) = Len(issues[s])
  BY <1>1, <1>2
<1>4. MarkIssues[s] = x
  BY <1>1 DEF MarkIssues
<1> QED
  BY <1>1, <1>3, <1>4

LEMMA ReasonsType ==
  ASSUME NEW q, NEW reasons \in ViewReasons(q)
  PROVE  reasons \subseteq Reasons
<1>1. \A a, b, c, d : Changed(a, b, c, d) \subseteq Reasons
  BY DEF Changed, Reasons
<1>2. \A a, b, c, d, e, f : StaleReasons(a, b, c, d, e, f) \subseteq Reasons
  BY <1>1 DEF StaleReasons, Reasons
<1> QED
  BY <1>2 DEF ViewReasons
-----------------------------------------------------------------------------
(* Types. *)

LEMMA ShowType ==
  ASSUME TypeOK, NEW s \in Scopes, NEW state \in Statuses, Show(s, state)
  PROVE  shown' \in [Scopes -> Statuses] /\ fresh' \subseteq Handlers
  BY DEF Show, TypeOK

(* The request of an evaluation. *)
LEMMA EvaluatingType ==
  ASSUME clock \in Nat, NEW s \in Scopes, NEW p \in Nat
  PROVE  /\ Evaluating(s, p) \in Request
         /\ Evaluating(s, p).now = clock + 1
         /\ Evaluating(s, p).kind = "evaluate"
         /\ Evaluating(s, p).scope = s
         /\ Evaluating(s, p).known = 0
<1> DEFINE now == clock + 1
<1>1. now \in Nat
  OBVIOUS
<1>2. Evaluating(s, p) = [Idle EXCEPT !.kind = "evaluate", !.scope = s, !.profile = p, !.now = now]
  BY DEF Evaluating
<1> HIDE DEF now
<1>3. Evaluating(s, p) \in Request
  BY <1>1, <1>2, IdleType DEF Request
<1>4. /\ Evaluating(s, p).now = now
      /\ Evaluating(s, p).kind = "evaluate"
      /\ Evaluating(s, p).scope = s
      /\ Evaluating(s, p).known = 0
  BY <1>1, <1>2 DEF Idle
<1> QED
  BY <1>3, <1>4 DEF now

(* Requests that begin, and what they ask. *)
LEMMA StartType ==
  ASSUME TypeOK, Times, NEW h \in Handlers, NEW s \in Scopes, Start(h, s)
  PROVE  /\ TypeOK'
         /\ \E q \in Request :
              /\ Begin(h, q)
              /\ q.kind \in {"provision", "evaluate", "override", "issue", "view"}
              /\ q.now <= clock'
              /\ q.scope = s
              /\ q.kind \in {"override", "issue", "view"} => evals[s] # {} /\ q.eval = LatestEvaluation(s).at
         /\ clock' \in {clock, clock + 1}
         /\ UNCHANGED <<past, profile, shown, evals, overrides, issues>>
<1>1. CASE StartEvaluate(h, s)
  <2> DEFINE q == Evaluating(s, profile)
  <2>1. q \in Request /\ q.now = clock + 1 /\ q.kind = "evaluate" /\ q.scope = s
    BY IdleType, EvaluatingType DEF TypeOK
  <2>2. Begin(h, q) /\ clock' = clock + 1 
          /\ UNCHANGED <<past, profile, shown, fresh, evals, overrides, issues>>
    BY <1>1 DEF StartEvaluate, records
  <2> HIDE DEF q
  <2>3. req' \in [Handlers -> Request]
    BY <2>1, <2>2, BeginType
  <2>4. TypeOK'
    BY <2>2, <2>3 DEF TypeOK
  <2>5. q.now <= clock' /\ clock' \in {clock, clock + 1}
    BY <2>1, <2>2 DEF TypeOK
  <2> QED
    BY <2>1, <2>2, <2>4, <2>5
<1>2. CASE FindNoProfile(h, s)
  <2> DEFINE q == [Idle EXCEPT !.kind = "provision", !.scope = s]
  <2>1. q \in Request /\ q.now = 0 /\ q.kind = "provision" /\ q.scope = s
    BY DEF Idle, Request
  <2>2. Begin(h, q) /\ clock' = clock
          /\ UNCHANGED <<past, profile, shown, fresh, evals, overrides, issues>>
    BY <1>2 DEF FindNoProfile, records
  <2> HIDE DEF q
  <2>3. req' \in [Handlers -> Request]
    BY <2>1, <2>2, BeginType
  <2>4. TypeOK'
    BY <2>2, <2>3 DEF TypeOK
  <2>5. q.now <= clock' /\ clock' \in {clock, clock + 1}
    BY <2>1, <2>2 DEF TypeOK
  <2> QED
    BY <2>1, <2>2, <2>4, <2>5
<1>3. ASSUME NEW r \in Rules, StartOverride(h, s, r)
      PROVE  /\ TypeOK'
             /\ \E q \in Request :
                  /\ Begin(h, q)
                  /\ q.kind = "override"
                  /\ q.now <= clock'
                  /\ q.scope = s
                  /\ evals[s] # {} /\ q.eval = LatestEvaluation(s).at
             /\ clock' = clock + 1
             /\ UNCHANGED <<past, profile, shown, evals, overrides, issues>>
  <2> DEFINE rs == {r}
             now == clock + 1
             q == [Idle EXCEPT !.kind = "override", !.scope = s, !.rule = rs,
                               !.eval = LatestEvaluation(s).at, !.profile = profile, !.now = now]
  <2>1. LatestEvaluation(s).at \in Nat /\ rs \in SUBSET Rules /\ now \in Nat
    BY <1>3, LatestType DEF StartOverride, Evaluation, TypeOK
  <2>4. Begin(h, q) /\ evals[s] # {} /\ clock' = clock + 1 
          /\ UNCHANGED <<past, profile, shown, fresh, evals, overrides, issues>>
    BY <1>3 DEF StartOverride, records
  <2> HIDE DEF rs, now
  <2>2. q \in Request /\ q.now = now /\ q.kind = "override" /\ q.scope = s
          /\ q.eval = LatestEvaluation(s).at
    BY <2>1 DEF Idle, Request, TypeOK
  <2>3. req' \in [Handlers -> Request]
    BY <2>2, <2>4, BeginType
  <2> HIDE DEF q
  <2>5. TypeOK'
    BY <2>1, <2>3, <2>4 DEF TypeOK
  <2>6. now = clock + 1 /\ q.now <= clock'
    BY <2>1, <2>2, <2>4 DEF now
  <2> QED
    BY <2>2, <2>4, <2>5, <2>6
<1>4. CASE StartIssue(h, s)
  <2> DEFINE q == [Idle EXCEPT !.kind = "issue", !.scope = s, !.eval = LatestEvaluation(s).at,
                               !.profile = profile, !.now = clock]
  <2>1. LatestEvaluation(s).at \in Nat
    BY <1>4, LatestType DEF StartIssue, Evaluation
  <2>2. q \in Request /\ q.now = clock /\ q.kind = "issue" /\ q.scope = s
          /\ q.eval = LatestEvaluation(s).at
    BY <2>1 DEF Idle, Request, TypeOK
  <2>3. req' \in [Handlers -> Request]
    BY <1>4, <2>2, BeginType DEF StartIssue
  <2>4. Begin(h, q) /\ evals[s] # {} /\ fresh' = fresh \cup {h}
          /\ UNCHANGED <<past, profile, shown, evals, overrides, issues, clock>>
    BY <1>4 DEF StartIssue
  <2> HIDE DEF q
  <2> QED
    BY <2>2, <2>3, <2>4 DEF TypeOK
<1>5. CASE StartView(h, s)
  <2> DEFINE n == IF issues[s] # << >> /\ Outdated(LastIssue(s).document)
                    THEN Len(issues[s]) ELSE 0
             q == [Idle EXCEPT !.kind = "view", !.scope = s, !.eval = LatestEvaluation(s).at,
                               !.profile = profile, !.now = clock, !.outdated = n]
  <2>1. LatestEvaluation(s).at \in Nat /\ n \in Nat
    BY <1>5, LatestType DEF StartView, Evaluation, TypeOK
  <2>2. Begin(h, q) /\ evals[s] # {} /\ clock' = clock
          /\ UNCHANGED <<past, profile, shown, fresh, evals, overrides, issues>>
    BY <1>5 DEF StartView, records
  <2> HIDE DEF n
  <2>3. q \in Request /\ q.now = clock /\ q.kind = "view" /\ q.scope = s
          /\ q.eval = LatestEvaluation(s).at
    BY <2>1 DEF Idle, Request, TypeOK
  <2> HIDE DEF q
  <2>4. req' \in [Handlers -> Request]
    BY <2>2, <2>3, BeginType
  <2> QED
    BY <2>2, <2>3, <2>4 DEF TypeOK
<1> QED
  BY <1>1, <1>2, <1>3, <1>4, <1>5 DEF Start
LEMMA FoundStaleType ==
  ASSUME NEW i \in Issue, NEW reasons, reasons \subseteq Reasons
  PROVE  FoundStale(i, reasons) \in Issue
  BY DEF FoundStale, Issue

(* Requests that go on or end. *)
LEMMA StepType ==
  ASSUME TypeOK, Times, RequestsBacked, NEW h \in Handlers, Step(h)
  PROVE  TypeOK'
<1> DEFINE q == req[h]
<1>0. q \in Request /\ q.scope \in Scopes /\ q.now \in Nat /\ q.profile \in Nat
  BY DEF TypeOK, Request
<1>1. CASE Provision(h)
  <2> DEFINE e == Evaluating(q.scope, profile + 1)
             x == [e EXCEPT !.from = Len(past), !.known = Len(overrides)]
  <2>1. profile + 1 \in Nat /\ clock + 1 \in Nat /\ Len(past) \in Nat /\ Len(overrides) \in Nat
    BY DEF TypeOK
  <2>2. e \in Request
    BY <1>0, <2>1, EvaluatingType DEF TypeOK
  <2>3. req' = [req EXCEPT ![h] = x]
    BY <1>1 DEF Provision
  <2>4. x \in Request
    <3> HIDE DEF e
    <3> QED
      BY <2>1, <2>2 DEF Request
  <2>5. req' \in [Handlers -> Request]
    <3> HIDE DEF x
    <3> QED
      BY <2>3, <2>4 DEF TypeOK
  <2>6. /\ profile' = profile + 1
        /\ clock' = clock + 1
        /\ UNCHANGED <<past, shown, fresh, evals, overrides, issues>>
    BY <1>1 DEF Provision
  <2> QED
    BY <2>1, <2>5, <2>6 DEF TypeOK
<1>2. CASE CommitEvaluate(h)
  <2>1. PICK seen \in Readings(q), ready \in {"ready", "blocked"} :
          /\ evals' = [evals EXCEPT ![q.scope] =
                         @ \cup {[at |-> q.now, profile |-> q.profile, pins |-> seen]}]
          /\ Show(q.scope, ready)
    BY <1>2 DEF CommitEvaluate, ReadyState
  <2>2. q.kind = "evaluate" /\ End(h) /\ UNCHANGED <<past, profile, overrides, issues, clock>>
    BY <1>2 DEF CommitEvaluate
  <2>3. [at |-> q.now, profile |-> q.profile, pins |-> seen] \in Evaluation
    BY <1>0, <2>1, <2>2, ReadingsType DEF Evaluation
  <2>4. evals' \in [Scopes -> SUBSET Evaluation]
    BY <1>0, <2>1, <2>3 DEF TypeOK
  <2>5. shown' \in [Scopes -> Statuses] /\ fresh' \subseteq Handlers
    BY <1>0, <2>1, ShowType DEF Statuses
  <2> QED
    BY <2>2, <2>4, <2>5, EndType DEF TypeOK
<1>3. ASSUME NEW life \in 0 .. 1, CommitOverride(h, life) PROVE TypeOK'
  <2> DEFINE n == IF life = 0 THEN 0 ELSE q.now + life
  <2>1. PICK r \in q.rule :
          overrides' = Append(overrides,
             [at |-> q.now, scope |-> q.scope, rule |-> r,
              profile |-> EvaluationOf(q.scope, q.eval).profile, expires |-> n])
    BY <1>3 DEF CommitOverride
  <2>2. /\ q.kind = "override"
        /\ End(h)
        /\ UNCHANGED <<past, profile, shown, fresh, evals, issues, clock>>
    BY <1>3 DEF CommitOverride
  <2>3. r \in Rules /\ n \in Nat /\ EvaluationOf(q.scope, q.eval).profile \in Nat
    BY <1>0, <2>1, <2>2, EvaluationType DEF Request, Evaluation
  <2> HIDE DEF n
  <2>4. [at |-> q.now, scope |-> q.scope, rule |-> r,
         profile |-> EvaluationOf(q.scope, q.eval).profile, expires |-> n] \in Override
    BY <1>0, <2>3 DEF Override
  <2>5. overrides' \in Seq(Override)
    BY <2>1, <2>4 DEF TypeOK
  <2> QED
    BY <2>2, <2>5, EndType DEF TypeOK
<1>4. CASE DecideIssue(h)
  <2> DEFINE l == Len(issues[q.scope])
             k == Len(overrides)
  <2>1. l \in Nat /\ k \in Nat
    BY <1>0 DEF TypeOK
  <2>2. /\ req' = [req EXCEPT ![h].kind = "publish", ![h].known = k, ![h].latest = l]
        /\ UNCHANGED <<past, profile, shown, fresh, evals, overrides, issues, clock>>
    BY <1>4 DEF DecideIssue, records
  <2> HIDE DEF l, k
  <2>3. req' \in [Handlers -> Request]
    BY <1>0, <2>1, <2>2 DEF TypeOK, Request
  <2> QED
    BY <2>2, <2>3 DEF TypeOK
<1>5. CASE CommitIssue(h)
  <2> DEFINE new == [number |-> q.latest + 1, document |-> FrozenDocument(q),
                     supersedes |-> q.latest, standing |-> "ready", events |-> {}]
  <2>1. /\ q.kind = "publish"
        /\ issues' = [issues EXCEPT ![q.scope] = Append(Superseded(@, q.latest), new)]
        /\ Show(q.scope, "ready")
        /\ End(h)
        /\ UNCHANGED <<past, profile, evals, overrides, clock>>
    BY <1>5 DEF CommitIssue
  <2>2. q.latest \in Nat /\ q.latest + 1 \in Nat
    BY <1>0 DEF Request
  <2>3. new \in Issue
    BY <2>1, <2>2, FrozenType DEF Issue
  <2>4. Superseded(issues[q.scope], q.latest) \in Seq(Issue)
    BY <1>0, SupersededType DEF TypeOK
  <2>5. issues' \in [Scopes -> Seq(Issue)]
    <3> HIDE DEF new
    <3> QED
      BY <1>0, <2>1, <2>3, <2>4 DEF TypeOK
  <2>6. shown' \in [Scopes -> Statuses] /\ fresh' \subseteq Handlers
    BY <1>0, <2>1, ShowType DEF Statuses
  <2> QED
    BY <2>1, <2>5, <2>6, EndType DEF TypeOK
<1>6. CASE ReadIssue(h)
  <2> DEFINE l == Len(issues[q.scope])
             st == IF issues[q.scope] = << >> THEN "none" ELSE LastIssue(q.scope).standing
  <2>1. l \in Nat /\ st \in {"none", "ready", "stale", "superseded"}
    <3>1. issues[q.scope] \in Seq(Issue)
      BY <1>0 DEF TypeOK
    <3>2. issues[q.scope] # << >> => LastIssue(q.scope) \in Issue
      BY <3>1 DEF LastIssue
    <3> QED
      BY <3>1, <3>2 DEF Issue
  <2>2. /\ req' = [req EXCEPT ![h].kind = "found", ![h].latest = l, ![h].standing = st]
        /\ UNCHANGED <<past, profile, shown, fresh, evals, overrides, issues, clock>>
    BY <1>6 DEF ReadIssue, records
  <2> HIDE DEF l, st
  <2>3. req' \in [Handlers -> Request]
    BY <1>0, <2>1, <2>2 DEF TypeOK, Request
  <2> QED
    BY <2>2, <2>3 DEF TypeOK
<1>7. CASE EndView(h)
  BY <1>7, EndType DEF EndView, records, TypeOK
<1>8. CASE CommitView(h)
  <2> DEFINE l == q.latest
             c == issues[q.scope]
  <2>1. PICK reasons \in ViewReasons(q) :
          issues' = [issues EXCEPT ![q.scope][l] = FoundStale(@, reasons)]
    BY <1>8 DEF CommitView
  <2>2. /\ q.kind = "found" /\ q.standing # "none"
        /\ shown' = [shown EXCEPT ![q.scope] = "stale"]
        /\ fresh' \in {{}, fresh}
        /\ End(h)
        /\ UNCHANGED <<past, profile, evals, overrides, clock>>
    BY <1>8 DEF CommitView
  <2> DEFINE i == FoundStale(c[l], reasons)
  <2>3. c \in Seq(Issue) /\ l \in 1 .. Len(c)
    BY <1>0, <2>2 DEF TypeOK, RequestsBacked, Backed
  <2>4. i \in Issue
    <3>1. c[l] \in Issue
      BY <2>3
    <3>2. reasons \subseteq Reasons
      BY ReasonsType
    <3> HIDE DEF c
    <3> QED
      BY <3>1, <3>2, FoundStaleType
  <2>5. issues' = [issues EXCEPT ![q.scope] = [c EXCEPT ![l] = i]]
    BY <2>1
  <2>6. [c EXCEPT ![l] = i] \in Seq(Issue)
    <3> HIDE DEF c, i
    <3> QED
      BY <2>3, <2>4, ExceptSeq
  <2>7. issues' \in [Scopes -> Seq(Issue)]
    <3> HIDE DEF c, i
    <3> QED
      BY <1>0, <2>5, <2>6 DEF TypeOK
  <2> QED
    BY <1>0, <2>2, <2>7, EndType DEF TypeOK, Statuses
<1>9. CASE Drop(h)
  BY <1>9, EndType DEF Drop, TypeOK
<1> QED
  BY <1>1, <1>2, <1>3, <1>4, <1>5, <1>6, <1>7, <1>8, <1>9 DEF Step
(* Changes from elsewhere. *)
LEMMA EditType ==
  ASSUME TypeOK, HistoryGrows, NEW r \in Rules, NEW state \in SourceStates, NEW mark,
         Edit(r, state, mark)
  PROVE  TypeOK'
<1> DEFINE x == [Now EXCEPT ![r] = [version |-> @.version + 1, state |-> state]]
<1>1. Now \in [Rules -> Source]
  BY DEF TypeOK, HistoryGrows, Now
<1>2. x \in [Rules -> Source]
  <2>1. [version |-> Now[r].version + 1, state |-> state] \in Source
    BY <1>1 DEF Source
  <2> QED
    BY <1>1, <2>1
<1>3. past' = Append(past, x)
  BY DEF Edit
<1>4. past' \in Seq([Rules -> Source])
  <2> HIDE DEF x
  <2> QED
    BY <1>2, <1>3 DEF TypeOK
<1>5. UNCHANGED <<profile, evals, overrides, clock, req>>
  BY DEF Edit
<1>6. /\ shown' \in [Scopes -> Statuses] /\ fresh' \subseteq Handlers
      /\ issues' = issues \/ issues' = MarkIssues
  BY ShowType DEF Edit, Statuses, TypeOK, Scopes
<1>7. issues' \in [Scopes -> Seq(Issue)]
  <2>1. DOMAIN MarkIssues = Scopes /\ MarkIssues = [s \in Scopes |-> MarkIssues[s]]
    BY DEF MarkIssues
  <2>2. MarkIssues \in [Scopes -> Seq(Issue)]
    BY <2>1, MarkedType
  <2> QED
    BY <1>6, <2>2 DEF TypeOK
<1> QED
  BY <1>4, <1>5, <1>6, <1>7 DEF TypeOK

LEMMA SetDayType ==
  ASSUME TypeOK, NEW d \in Days, NEW state \in HandStates, SetDay(d, state)
  PROVE  TypeOK'
  BY ReadinessAssumption DEF SetDay, TypeOK, Statuses, Scopes

LEMMA TickType == ASSUME TypeOK, Tick PROVE TypeOK'
  BY DEF Tick, records, TypeOK

LEMMA TypeStep ==
  ASSUME TypeOK, Times, RequestsBacked, HistoryGrows, [Next]_vars
  PROVE  TypeOK'
<1>1. CASE UNCHANGED vars
  BY <1>1 DEF vars, TypeOK
<1> QED
  BY <1>1, StartType, StepType, EditType, SetDayType, TickType DEF Next

-----------------------------------------------------------------------------
(* What only grows. *)

(* A chain of issues later on. *)
Continues(c, d) ==
  /\ Len(c) <= Len(d)
  /\ \A k \in DOMAIN c :
       /\ d[k].document = c[k].document
       /\ d[k].number = c[k].number
       /\ d[k].supersedes = c[k].supersedes
       /\ c[k].standing = "superseded" => d[k].standing = "superseded"
       /\ c[k].standing # "ready" => d[k].standing # "ready"

Growing ==
  /\ Len(past) <= Len(past') /\ \A i \in DOMAIN past : past'[i] = past[i]
  /\ Len(overrides) <= Len(overrides')
  /\ \A i \in DOMAIN overrides : overrides'[i] = overrides[i]
  /\ \A s \in Scopes :
       /\ evals[s] \subseteq evals'[s]
       /\ Continues(issues[s], issues'[s])
  /\ clock <= clock'

LEMMA Same ==
  ASSUME TypeOK, UNCHANGED <<past, overrides, evals, issues, clock>>
  PROVE  Growing
  BY DEF Growing, Continues, TypeOK

LEMMA StepGrows ==
  ASSUME TypeOK, Times, RequestsBacked, NEW h \in Handlers, Step(h)
  PROVE  Growing
<1> DEFINE q == req[h]
<1>0. q \in Request /\ q.scope \in Scopes
  BY DEF TypeOK, Request
<1>1. CASE Provision(h)
  BY <1>1 DEF Provision, Growing, Continues, TypeOK
<1>2. CASE CommitEvaluate(h)
  <2>1. /\ \A s \in Scopes : evals[s] \subseteq evals'[s]
        /\ UNCHANGED <<past, overrides, issues, clock>>
    BY <1>2 DEF CommitEvaluate, TypeOK
  <2> QED
    BY <2>1 DEF Growing, Continues, TypeOK
<1>3. ASSUME NEW life \in 0 .. 1, CommitOverride(h, life) PROVE Growing
  <2>1. /\ \E o : overrides' = Append(overrides, o)
        /\ UNCHANGED <<past, evals, issues, clock>>
    BY <1>3 DEF CommitOverride
  <2> QED
    BY <2>1 DEF Growing, Continues, TypeOK
<1>4. CASE CommitIssue(h)
  <2>1. PICK new : issues' = [issues EXCEPT ![q.scope] = Append(Superseded(@, q.latest), new)]
    BY <1>4 DEF CommitIssue
  <2>2. UNCHANGED <<past, evals, overrides, clock>>
    BY <1>4 DEF CommitIssue
  <2>3. issues[q.scope] \in Seq(Issue)
    BY <1>0 DEF TypeOK
  <2> DEFINE c == Superseded(issues[q.scope], q.latest)
  <2>4. /\ c \in Seq(Issue)
        /\ Len(c) = Len(issues[q.scope])
        /\ \A k \in DOMAIN issues[q.scope] :
             c[k] = IF k = q.latest THEN [issues[q.scope][k] EXCEPT !.standing = "superseded"]
                                    ELSE issues[q.scope][k]
    BY <2>3, SupersededType
  <2>5. \A k \in DOMAIN issues[q.scope] :
          /\ c[k].document = issues[q.scope][k].document
          /\ c[k].number = issues[q.scope][k].number
          /\ c[k].supersedes = issues[q.scope][k].supersedes
          /\ c[k].standing \in {issues[q.scope][k].standing, "superseded"}
    <3> TAKE k \in DOMAIN issues[q.scope]
    <3>1. issues[q.scope][k] \in Issue
      BY <2>3
    <3> HIDE DEF c
    <3> QED
      BY <2>4, <3>1 DEF Issue
  <2>6. /\ issues'[q.scope] = Append(c, new)
        /\ \A s \in Scopes : s # q.scope => issues'[s] = issues[s]
    BY <1>0, <2>1 DEF TypeOK
  <2>7. /\ Len(issues[q.scope]) <= Len(issues'[q.scope])
        /\ \A k \in DOMAIN issues[q.scope] : issues'[q.scope][k] = c[k]
    <3> HIDE DEF c
    <3> QED
      BY <2>3, <2>4, <2>6
  <2>8. Continues(issues[q.scope], issues'[q.scope])
    <3> HIDE DEF c
    <3> QED
      BY <2>5, <2>7 DEF Continues
  <2>9. \A s \in Scopes : s # q.scope => Continues(issues[s], issues'[s])
    BY <2>6 DEF TypeOK, Continues
  <2> QED
    BY <2>2, <2>8, <2>9 DEF Growing, TypeOK
<1>5. CASE CommitView(h)
  <2>1. PICK reasons : issues' = [issues EXCEPT ![q.scope][q.latest] = FoundStale(@, reasons)]
    BY <1>5 DEF CommitView
  <2>2. UNCHANGED <<past, evals, overrides, clock>>
    BY <1>5 DEF CommitView
  <2>3. \A s \in Scopes :
          /\ Len(issues[s]) = Len(issues'[s])
          /\ \A k \in DOMAIN issues[s] :
               issues'[s][k] = issues[s][k] \/ issues'[s][k] = FoundStale(issues[s][k], reasons)
    BY <1>0, <2>1 DEF TypeOK
  <2>4. \A s \in Scopes : \A k \in DOMAIN issues[s] :
          LET i == issues[s][k]
              j == FoundStale(i, reasons)
          IN  /\ j.document = i.document
              /\ j.number = i.number
              /\ j.supersedes = i.supersedes
              /\ i.standing # "ready" => j.standing = i.standing
    <3> TAKE s \in Scopes
    <3> TAKE k \in DOMAIN issues[s]
    <3>1. issues[s][k] \in Issue
      BY DEF TypeOK
    <3> QED
      BY <3>1 DEF FoundStale, Issue
  <2>5. \A s \in Scopes : Continues(issues[s], issues'[s])
    <3> TAKE s \in Scopes
    <3>1. /\ Len(issues[s]) = Len(issues'[s])
          /\ \A k \in DOMAIN issues[s] :
               issues'[s][k] = issues[s][k] \/ issues'[s][k] = FoundStale(issues[s][k], reasons)
      BY <2>3
    <3>2. Len(issues[s]) \in Nat
      BY DEF TypeOK
    <3> QED
      BY <2>4, <3>1, <3>2 DEF Continues
  <2> QED
    BY <2>2, <2>5 DEF Growing, TypeOK
<1>6. CASE DecideIssue(h) \/ ReadIssue(h) \/ EndView(h) \/ Drop(h)
  BY <1>6, Same DEF DecideIssue, ReadIssue, EndView, Drop, records
<1> QED
  BY <1>1, <1>2, <1>3, <1>4, <1>5, <1>6 DEF Step

LEMMA EditGrows ==
  ASSUME TypeOK, NEW r, NEW state, NEW mark, Edit(r, state, mark)
  PROVE  Growing
<1>1. /\ \E x : past' = Append(past, x)
      /\ issues' = issues \/ issues' = MarkIssues
      /\ UNCHANGED <<evals, overrides, clock>>
  BY DEF Edit, Show
<1>2. \A s \in Scopes :
        /\ Len(MarkIssues[s]) = Len(issues[s])
        /\ \A k \in DOMAIN issues[s] :
             LET i == issues[s][k]
                 j == MarkIssues[s][k]
             IN  /\ j.document = i.document
                 /\ j.number = i.number
                 /\ j.supersedes = i.supersedes
                 /\ i.standing # "ready" => j.standing = i.standing
  <2> TAKE s \in Scopes
  <2>1. \A k \in DOMAIN issues[s] : issues[s][k] \in Issue
    BY DEF TypeOK
  <2>2. ASSUME NEW i \in Issue
        PROVE  LET j == IF i.standing = "ready" THEN [i EXCEPT !.standing = "stale"] ELSE i
               IN  /\ j.document = i.document /\ j.number = i.number /\ j.supersedes = i.supersedes
                   /\ i.standing # "ready" => j.standing = i.standing
    BY DEF Issue
  <2> QED
    BY <2>1, <2>2, MarkedType
<1>3. \A s \in Scopes :
        /\ Len(issues'[s]) = Len(issues[s])
        /\ \A k \in DOMAIN issues[s] :
             LET i == issues[s][k]
                 j == issues'[s][k]
             IN  /\ j.document = i.document
                 /\ j.number = i.number
                 /\ j.supersedes = i.supersedes
                 /\ i.standing # "ready" => j.standing = i.standing
  BY <1>1, <1>2
<1>4. \A s \in Scopes : Continues(issues[s], issues'[s])
  BY <1>3 DEF Continues, TypeOK
<1> QED
  BY <1>1, <1>4 DEF Growing, TypeOK

LEMMA Grows ==
  ASSUME TypeOK, Times, RequestsBacked, [Next]_vars
  PROVE  Growing
<1>1. CASE UNCHANGED vars
  BY <1>1, Same DEF vars
<1>2. ASSUME NEW h \in Handlers, NEW s \in Scopes, Start(h, s) PROVE Growing
  <2>1. clock' \in {clock, clock + 1} /\ UNCHANGED <<past, evals, overrides, issues>>
    BY <1>2, StartType
  <2>2. clock <= clock'
    BY <2>1 DEF TypeOK
  <2> QED
    BY <2>1, <2>2 DEF Growing, Continues, TypeOK
<1>3. CASE \E d \in Days, state \in HandStates : SetDay(d, state)
  BY <1>3, Same DEF SetDay
<1>4. CASE Tick
  BY <1>4 DEF Tick, records, Growing, Continues, TypeOK
<1> QED
  BY <1>1, <1>2, <1>3, <1>4, StepGrows, EditGrows DEF Next
-----------------------------------------------------------------------------
(* Times, and what requests rest on. *)

(* A request that was there keeps what it rests on. *)
LEMMA BackedStays ==
  ASSUME TypeOK, Growing, NEW q \in Request, Backed(q), TypeOK'
  PROVE  Backed(q)'
<1>1. DOMAIN past \subseteq DOMAIN past' /\ Len(overrides) <= Len(overrides')
        /\ Len(overrides) \in Nat /\ Len(overrides') \in Nat /\ q.known \in Nat
  BY DEF Growing, TypeOK, Request
<1>2. /\ q.scope \in Scopes
      /\ evals[q.scope] \subseteq evals'[q.scope]
      /\ DOMAIN issues[q.scope] \subseteq DOMAIN issues'[q.scope]
  BY DEF Growing, Continues, TypeOK, Request
<1> QED
  BY <1>1, <1>2 DEF Backed

LEMMA IdleBacked == ASSUME TypeOK PROVE Backed(Idle)
  BY DEF Backed, Idle, TypeOK

LEMMA TimeTypes ==
  ASSUME TypeOK
  PROVE  /\ \A s \in Scopes : \A e \in evals[s] : e.at \in Nat
         /\ \A i \in DOMAIN overrides : overrides[i].at \in Nat
         /\ \A h \in Handlers : req[h].now \in Nat
<1>1. \A s \in Scopes : \A e \in evals[s] : e \in Evaluation
  BY DEF TypeOK
<1>2. \A i \in DOMAIN overrides : overrides[i] \in Override
  BY DEF TypeOK
<1>3. \A h \in Handlers : req[h] \in Request
  BY DEF TypeOK
<1> QED
  BY <1>1, <1>2, <1>3 DEF Evaluation, Override, Request

LEMMA StartBacked ==
  ASSUME TypeOK, Times, RequestsBacked, HistoryGrows,
         NEW h \in Handlers, NEW s \in Scopes, Start(h, s)
  PROVE  Times' /\ RequestsBacked'
<1>1. PICK q \in Request :
        /\ Begin(h, q)
        /\ q.kind \in {"provision", "evaluate", "override", "issue", "view"}
        /\ q.now <= clock'
        /\ q.scope = s
        /\ q.kind \in {"override", "issue", "view"} => evals[s] # {} /\ q.eval = LatestEvaluation(s).at
  BY StartType
<1>2. /\ clock' \in {clock, clock + 1}
      /\ UNCHANGED <<past, evals, overrides, issues>>
  BY StartType
<1> DEFINE x == [q EXCEPT !.from = Len(past), !.known = Len(overrides)]
<1>3. /\ \A g \in Handlers : g # h => req'[g] = req[g]
      /\ req'[h] = x
  BY <1>1, BeginType
<1>4. /\ x.kind = q.kind /\ x.now = q.now /\ x.scope = q.scope /\ x.eval = q.eval
      /\ x.from = Len(past) /\ x.known = Len(overrides)
  BY DEF Request
<1> HIDE DEF x
<1>5. Times'
  <2>1. \A t \in Nat : t <= clock => t <= clock'
    BY <1>2 DEF TypeOK
  <2> QED
    BY <1>1, <1>2, <1>3, <1>4, <2>1, TimeTypes DEF Times
<1>6. Backed(x)
  <2>1. x.from \in DOMAIN past /\ x.known <= Len(overrides)
    BY <1>4 DEF HistoryGrows, TypeOK
  <2>2. q.kind \in {"override", "issue", "view"} => \E e \in evals[s] : e.at = q.eval
    BY <1>1, LatestType
  <2> QED
    BY <1>1, <1>4, <2>1, <2>2 DEF Backed
<1>7. \A g \in Handlers : Backed(req'[g])
  BY <1>3, <1>6 DEF RequestsBacked
<1>8. ASSUME NEW g \in Handlers PROVE Backed(req[g])'
  BY <1>2, <1>7 DEF Backed
<1> QED
  BY <1>5, <1>8 DEF RequestsBacked

(* The request of a step that goes on. *)
LEMMA StepBacked ==
  ASSUME TypeOK, Times, RequestsBacked, HistoryGrows, NEW h \in Handlers, Step(h)
  PROVE  Times' /\ RequestsBacked'
<1> DEFINE q == req[h]
<1>0. q \in Request /\ q.scope \in Scopes /\ q.now \in Nat /\ Backed(q) /\ q.now <= clock
  BY DEF TypeOK, Request, RequestsBacked, Times
<1>g. Growing /\ TypeOK'
  BY StepGrows, StepType
<1>a. SUFFICES /\ req'[h].now <= clock'
               /\ Backed(req[h])'
               /\ \A g \in Handlers : g # h => req'[g] = req[g]
               /\ \A s \in Scopes : \A e \in evals'[s] : e \in evals[s] \/ e.at = q.now
               /\ \A i \in DOMAIN overrides' : i \in DOMAIN overrides \/ overrides'[i].at = q.now
  <2>1. \A t \in Nat : t <= clock => t <= clock'
    BY <1>g DEF TypeOK, Growing
  <2>2. \A i \in DOMAIN overrides : overrides'[i] = overrides[i]
    BY <1>g DEF Growing
  <2>3. q.now <= clock'
    BY <1>0, <2>1
  <2>4. Times'
    BY <2>1, <2>2, <2>3, TimeTypes DEF Times
  <2>5. ASSUME NEW g \in Handlers PROVE Backed(req[g])'
    <3>1. CASE g = h
      BY <3>1
    <3>2. CASE g # h
      <4>1. Backed(req[g]) /\ req[g] \in Request /\ req'[g] = req[g]
        BY <3>2 DEF RequestsBacked, TypeOK
      <4> QED
        BY <1>g, <4>1, BackedStays DEF Backed
    <3> QED
      BY <3>1, <3>2
  <2> QED
    BY <2>4, <2>5 DEF RequestsBacked
<1>1. CASE Provision(h)
  <2> DEFINE e == Evaluating(q.scope, profile + 1)
             x == [e EXCEPT !.from = Len(past), !.known = Len(overrides)]
  <2>1. e \in Request /\ e.now = clock + 1 /\ e.kind = "evaluate"
    BY <1>0, EvaluatingType DEF TypeOK
  <2>2. /\ req' = [req EXCEPT ![h] = x]
        /\ clock' = clock + 1
        /\ UNCHANGED <<past, evals, overrides, issues>>
    BY <1>1 DEF Provision
  <2>3. x.from = Len(past) /\ x.known = Len(overrides) /\ x.now = clock + 1 /\ x.kind = "evaluate"
    <3> HIDE DEF e
    <3> QED
      BY <2>1 DEF Request
  <2> HIDE DEF x
  <2>4. req'[h] = x /\ \A g \in Handlers : g # h => req'[g] = req[g]
    BY <2>2 DEF TypeOK
  <2>5. Len(past) \in DOMAIN past /\ Len(overrides) <= Len(overrides)
    BY DEF HistoryGrows, TypeOK
  <2>6. Backed(req[h])'
    BY <2>2, <2>3, <2>4, <2>5 DEF Backed
  <2>7. req'[h].now <= clock'
    BY <2>2, <2>3, <2>4 DEF TypeOK
  <2> QED
    BY <2>2, <2>4, <2>6, <2>7
<1>2. ASSUME End(h) 
      PROVE  /\ req'[h].now <= clock'
             /\ Backed(req[h])'
             /\ \A g \in Handlers : g # h => req'[g] = req[g]
  <2>1. req'[h] = Idle /\ \A g \in Handlers : g # h => req'[g] = req[g]
    BY <1>2, EndType
  <2>2. Backed(req[h])'
    BY <1>g, <2>1 DEF Backed, Idle, TypeOK
  <2>3. req'[h].now <= clock'
    BY <1>g, <2>1 DEF Idle, TypeOK
  <2> QED
    BY <2>1, <2>2, <2>3
<1>3. CASE CommitEvaluate(h)
  <2>1. PICK seen : evals' = [evals EXCEPT ![q.scope] =
                      @ \cup {[at |-> q.now, profile |-> q.profile, pins |-> seen]}]
    BY <1>3 DEF CommitEvaluate
  <2>2. End(h) /\ overrides' = overrides
    BY <1>3 DEF CommitEvaluate
  <2>3. \A s \in Scopes : \A e \in evals'[s] : e \in evals[s] \/ e.at = q.now
    BY <1>0, <2>1 DEF TypeOK
  <2> QED
    BY <1>2, <2>2, <2>3
<1>4. ASSUME NEW life \in 0 .. 1, CommitOverride(h, life)
      PROVE  /\ req'[h].now <= clock'
             /\ Backed(req[h])'
             /\ \A g \in Handlers : g # h => req'[g] = req[g]
             /\ evals' = evals
             /\ \A i \in DOMAIN overrides' : i \in DOMAIN overrides \/ overrides'[i].at = q.now
  <2>1. PICK o : overrides' = Append(overrides, o) /\ o.at = q.now
    BY <1>4 DEF CommitOverride
  <2>2. End(h) /\ evals' = evals
    BY <1>4 DEF CommitOverride
  <2>3. \A i \in DOMAIN overrides' : i \in DOMAIN overrides \/ overrides'[i].at = q.now
    BY <2>1 DEF TypeOK
  <2> QED
    BY <1>2, <2>2, <2>3
<1>5. CASE CommitIssue(h) \/ EndView(h) \/ CommitView(h) \/ Drop(h)
  <2>1. End(h) /\ UNCHANGED <<evals, overrides>>
    BY <1>5 DEF CommitIssue, EndView, CommitView, Drop, records
  <2> QED
    BY <1>2, <2>1
<1>6. CASE DecideIssue(h)
  <2> DEFINE l == Len(issues[q.scope])
             k == Len(overrides)
             x == [q EXCEPT !.kind = "publish", !.known = k, !.latest = l]
  <2>1. /\ req' = [req EXCEPT ![h] = x]
        /\ q.kind = "issue"
        /\ UNCHANGED <<past, evals, overrides, issues, clock>>
    BY <1>6 DEF DecideIssue, records
  <2>2. /\ x.kind = "publish" /\ x.known = k /\ x.from = q.from /\ x.eval = q.eval
        /\ x.scope = q.scope /\ x.now = q.now
    BY <1>0 DEF Request
  <2> HIDE DEF x
  <2>3. req'[h] = x /\ \A g \in Handlers : g # h => req'[g] = req[g]
    BY <2>1 DEF TypeOK
  <2>4. k <= k /\ k = Len(overrides)'
    BY <2>1 DEF TypeOK
  <2>5. Backed(req[h])'
    BY <1>0, <2>1, <2>2, <2>3, <2>4 DEF Backed
  <2> QED
    BY <1>0, <2>1, <2>2, <2>3, <2>5
<1>7. CASE ReadIssue(h)
  <2> DEFINE l == Len(issues[q.scope])
             st == IF issues[q.scope] = << >> THEN "none" ELSE LastIssue(q.scope).standing
             x == [q EXCEPT !.kind = "found", !.latest = l, !.standing = st]
  <2>1. /\ req' = [req EXCEPT ![h] = x]
        /\ q.kind = "view"
        /\ UNCHANGED <<past, evals, overrides, issues, clock>>
    BY <1>7 DEF ReadIssue, records
  <2>2. st # "none" => l \in DOMAIN issues[q.scope]
    BY <1>0 DEF TypeOK
  <2> HIDE DEF l, st
  <2>3. /\ x.kind = "found" /\ x.known = q.known /\ x.from = q.from /\ x.eval = q.eval
        /\ x.scope = q.scope /\ x.now = q.now /\ x.latest = l /\ x.standing = st
    BY <1>0 DEF Request
  <2> HIDE DEF x
  <2>4. req'[h] = x /\ \A g \in Handlers : g # h => req'[g] = req[g]
    BY <2>1 DEF TypeOK
  <2>5. Backed(req[h])'
    BY <1>0, <2>1, <2>2, <2>3, <2>4 DEF Backed
  <2> QED
    BY <1>0, <2>1, <2>3, <2>4, <2>5
<1> QED
  BY <1>1, <1>3, <1>4, <1>5, <1>6, <1>7 DEF Step

LEMMA BackedStep ==
  ASSUME TypeOK, Times, RequestsBacked, HistoryGrows, [Next]_vars
  PROVE  Times' /\ RequestsBacked'
<1>1. Growing /\ TypeOK'
  BY Grows, TypeStep
<1>2. CASE UNCHANGED <<evals, overrides, req>>
  <2>1. \A t \in Nat : t <= clock => t <= clock'
    BY <1>1 DEF TypeOK, Growing
  <2>2. Times'
    BY <1>2, <2>1, TimeTypes DEF Times
  <2>3. ASSUME NEW g \in Handlers PROVE Backed(req[g])'
    <3>1. Backed(req[g]) /\ req[g] \in Request /\ req'[g] = req[g]
      BY <1>2 DEF RequestsBacked, TypeOK
    <3> QED
      BY <1>1, <3>1, BackedStays DEF Backed
  <2> QED
    BY <2>2, <2>3 DEF RequestsBacked
<1>3. ASSUME NEW r, NEW state, NEW mark, Edit(r, state, mark)
      PROVE  UNCHANGED <<evals, overrides, req>>
  BY <1>3 DEF Edit
<1> QED
  BY <1>2, <1>3, StartBacked, StepBacked DEF Next, vars, SetDay, Tick, records

-----------------------------------------------------------------------------
(* Sources. *)

(* Nothing but an edit changes the sources, and an edit raises the version. *)
LEMMA HistoryStep ==
  ASSUME TypeOK, Times, RequestsBacked, HistoryGrows, [Next]_vars
  PROVE  HistoryGrows'
<1>1. CASE past' = past
  BY <1>1 DEF HistoryGrows
<1>2. ASSUME NEW r \in Rules, NEW state \in SourceStates, NEW mark, Edit(r, state, mark)
      PROVE  HistoryGrows'
  <2> DEFINE x == [Now EXCEPT ![r] = [version |-> @.version + 1, state |-> state]]
             n == Len(past)
  <2>1. past' = Append(past, x)
    BY <1>2 DEF Edit
  <2>2. n \in Nat /\ n > 0 /\ DOMAIN past = 1 .. n /\ Now = past[n] /\ Now \in [Rules -> Source]
    BY DEF HistoryGrows, TypeOK, Now
  <2>3. /\ past' # << >>
        /\ DOMAIN past' = 1 .. n + 1
        /\ past'[n + 1] = x
        /\ \A i \in 1 .. n : past'[i] = past[i]
    <3>1. past \in Seq([Rules -> Source])
      BY DEF TypeOK
    <3>2. PICK z : z = x
      OBVIOUS
    <3>3. past' = Append(past, z)
      BY <2>1, <3>2
    <3> HIDE DEF x
    <3> QED
      BY <2>2, <3>1, <3>2, <3>3
  <2>4. \A z \in Rules : x[z] = Now[z] \/ x[z].version = Now[z].version + 1
    BY <2>2
  <2>5. \A i \in 1 .. n, z \in Rules :
          past[i][z] \in Source /\ past[i][z].version \in Nat
    BY <2>2 DEF TypeOK, Source
  <2>6. \A i \in 1 .. n, z \in Rules :
          /\ past[i][z].version <= x[z].version
          /\ past[i][z].version = x[z].version => past[i][z] = x[z]
    <3> TAKE i \in 1 .. n, z \in Rules
    <3>1. /\ past[i][z].version <= Now[z].version
          /\ past[i][z].version = Now[z].version => past[i][z] = Now[z]
      BY <2>2 DEF HistoryGrows
    <3>2. past[i][z].version \in Nat /\ Now[z].version \in Nat
      BY <2>2, <2>5
    <3> HIDE DEF x
    <3> QED
      BY <2>4, <3>1, <3>2
  <2>7. ASSUME NEW i \in 1 .. n + 1, NEW j \in 1 .. n + 1, i <= j, NEW z \in Rules
        PROVE  /\ past'[i][z].version <= past'[j][z].version
               /\ past'[i][z].version = past'[j][z].version => past'[i][z] = past'[j][z]
    <3>1. CASE j \in 1 .. n
      <4>1. i \in 1 .. n
        BY <2>2, <2>7, <3>1
      <4> QED
        BY <2>2, <2>3, <2>7, <3>1, <4>1 DEF HistoryGrows
    <3>2. CASE j = n + 1 /\ i \in 1 .. n
      BY <2>3, <2>6, <3>2
    <3>3. CASE j = n + 1 /\ i = n + 1
      <4>1. x[z].version \in Nat
        BY <2>2, <2>4, <2>5
      <4>2. past'[i] = x /\ past'[j] = x
        BY <2>3, <3>3
      <4> HIDE DEF x
      <4> QED
        BY <4>1, <4>2
    <3> QED
      BY <2>2, <3>1, <3>2, <3>3
  <2> QED
    BY <2>3, <2>7 DEF HistoryGrows
<1>3. ASSUME NEW h \in Handlers, Step(h) PROVE past' = past
  BY <1>3 DEF Step, Provision, CommitEvaluate, CommitOverride, DecideIssue, CommitIssue,
              ReadIssue, EndView, CommitView, Drop
<1>4. ASSUME NEW h \in Handlers, NEW s \in Scopes, Start(h, s) PROVE past' = past
  BY <1>4, StartType
<1> QED
  BY <1>1, <1>2, <1>3, <1>4 DEF Next, vars, SetDay, Tick

(* A source that is what it was before is what it was at all moments between. *)
LEMMA Between ==
  ASSUME HistoryGrows, TypeOK, NEW i \in DOMAIN past, NEW j \in DOMAIN past, NEW k \in DOMAIN past,
         i <= j, j <= k, NEW r \in Rules, past[i][r] = past[k][r]
  PROVE  past[j][r] = past[i][r]
<1>1. past[i][r] \in Source /\ past[j][r] \in Source /\ past[k][r] \in Source
  BY DEF TypeOK
<1>2. /\ past[i][r].version <= past[j][r].version
      /\ past[j][r].version <= past[k][r].version
      /\ past[i][r].version = past[j][r].version => past[i][r] = past[j][r]
  BY DEF HistoryGrows
<1> QED
  BY <1>1, <1>2 DEF Source
(* What was read stays read. *)
LEMMA PinnedStays ==
  ASSUME TypeOK, Growing, NEW pins, NEW n, n \in Nat, n <= Len(past), Pinned(pins, n)
  PROVE  Pinned(pins, n)'
<1>1. \A i \in 1 .. n : i \in DOMAIN past
  BY DEF TypeOK
<1> QED
  BY <1>1 DEF Pinned, Growing

LEMMA EvaluationsStep ==
  ASSUME TypeOK, Times, RequestsBacked, HistoryGrows, EvaluationsSeen, [Next]_vars
  PROVE  EvaluationsSeen'
<1>1. Growing /\ TypeOK'
  BY Grows, TypeStep
<1>2. ASSUME NEW pins, Pinned(pins, Len(past)) PROVE Pinned(pins, Len(past))'
  <2> DEFINE n == Len(past)
  <2>1. n \in Nat /\ n <= Len(past) /\ Len(past)' \in Nat /\ n <= Len(past)'
    BY <1>1 DEF TypeOK, Growing
  <2>2. \A r \in Rules : \E i \in 1 .. n : past'[i][r] = pins[r]
    BY <1>1, <1>2, <2>1, PinnedStays DEF Pinned
  <2> QED
    BY <2>1, <2>2 DEF Pinned
<1>3. CASE evals' = evals
  BY <1>2, <1>3 DEF EvaluationsSeen
<1>4. ASSUME NEW h \in Handlers, CommitEvaluate(h) PROVE EvaluationsSeen'
  <2> DEFINE q == req[h]
  <2>1. PICK seen \in Readings(q) :
          evals' = [evals EXCEPT ![q.scope] =
                     @ \cup {[at |-> q.now, profile |-> q.profile, pins |-> seen]}]
    BY <1>4 DEF CommitEvaluate
  <2>2. q.kind # "idle" /\ q.from \in Nat /\ q.from \in 1 .. Len(past) /\ Len(past) \in Nat
    BY <1>4, FromType DEF CommitEvaluate
  <2>3. Pinned(seen, Len(past))
    <3>1. \A r \in Rules : \E i \in q.from .. Len(past) : seen[r] = past[i][r]
      BY <2>2, ReadingsType
    <3>2. \A i \in q.from .. Len(past) : i \in 1 .. Len(past)
      BY <2>2
    <3> QED
      BY <3>1, <3>2 DEF Pinned
  <2>4. \A s \in Scopes : \A e \in evals'[s] : e \in evals[s] \/ e.pins = seen
    BY <2>1 DEF TypeOK
  <2> QED
    BY <1>2, <2>3, <2>4 DEF EvaluationsSeen
<1>5. ASSUME NEW h \in Handlers, Step(h) PROVE CommitEvaluate(h) \/ evals' = evals
  BY <1>5 DEF Step, Provision, CommitOverride, DecideIssue, CommitIssue,
              ReadIssue, EndView, CommitView, Drop, records
<1>6. ASSUME NEW h \in Handlers, NEW s \in Scopes, Start(h, s) PROVE evals' = evals
  BY <1>6, StartType
<1>7. ASSUME NEW r, NEW state, NEW mark, Edit(r, state, mark) PROVE evals' = evals
  BY <1>7 DEF Edit
<1> QED
  BY <1>3, <1>4, <1>5, <1>6, <1>7 DEF Next, vars, SetDay, Tick, records

-----------------------------------------------------------------------------
(* Freezing. *)

(* While nothing the project's version stands for changes, neither does what *)
(* a freezing request found.                                                  *)
LEMMA FreshStays ==
  ASSUME TypeOK, Growing, NEW q \in Request, Backed(q), FreshRequest(q),
         evals' = evals, Len(issues'[q.scope]) = Len(issues[q.scope])
  PROVE  FreshRequest(q)'
<1>1. LatestEvaluation(q.scope)' = LatestEvaluation(q.scope) /\ EvaluationOf(q.scope, q.eval)' = EvaluationOf(q.scope, q.eval)
  BY DEF LatestEvaluation, EvaluationOf
<1>2. q.from \in Nat /\ q.from \in DOMAIN past /\ q.from <= Len(past)
  BY DEF FreshRequest, Backed, TypeOK, Request
<1>3. past'[q.from] = past[q.from]
  BY <1>2 DEF Growing
<1>4. \A f \in evals'[q.scope] : Pinned(f.pins, q.from)'
  BY <1>2, PinnedStays DEF FreshRequest
<1>5. OverridesOf(q.scope, q.known)' = OverridesOf(q.scope, q.known)
  <2>1. q.known \in Nat /\ q.known <= Len(overrides)
    BY DEF Backed, Request
  <2>2. \A j \in 1 .. q.known : overrides'[j] = overrides[j]
    BY <2>1 DEF Growing, TypeOK
  <2> QED
    BY <2>2 DEF OverridesOf
<1>6. SummaryReady(EvaluationOf(q.scope, q.eval).pins, OverridesOf(q.scope, q.known),
                   EvaluationOf(q.scope, q.eval).profile, q.now)'
      <=> SummaryReady(EvaluationOf(q.scope, q.eval).pins, OverridesOf(q.scope, q.known),
                       EvaluationOf(q.scope, q.eval).profile, q.now)
  BY <1>1, <1>5 DEF SummaryReady, StoredResult, ActiveOverride, ActiveOverrides
<1> QED
  BY <1>1, <1>3, <1>4, <1>5, <1>6 DEF FreshRequest

(* A request that decides to freeze. *)
LEMMA DecideFresh ==
  ASSUME TypeOK, Times, RequestsBacked, HistoryGrows,
         NEW h \in Handlers, FreshRequest(req[h]), DecideIssue(h)
  PROVE  FreshRequest(req[h])'
<1> DEFINE q == req[h]
           e == EvaluationOf(q.scope, q.eval)
           l == Len(issues[q.scope])
           k == Len(overrides)
           x == [q EXCEPT !.kind = "publish", !.known = k, !.latest = l]
<1>1. q \in Request /\ q.kind = "issue" /\ Unchanged(q)
        /\ SummaryReady(e.pins, OverridesOf(q.scope, k), e.profile, q.now)
        /\ req' = [req EXCEPT ![h] = x]
        /\ UNCHANGED <<past, evals, overrides, issues, clock>>
  BY DEF DecideIssue, records, TypeOK
<1>2. /\ x.kind = "publish" /\ x.known = k /\ x.from = q.from /\ x.eval = q.eval
      /\ x.scope = q.scope /\ x.now = q.now /\ x.latest = l
  BY <1>1 DEF Request
<1>3. req'[h] = x
  BY <1>1 DEF TypeOK
<1>4. e \in evals[q.scope] /\ e.pins \in [Rules -> Source]
  BY <1>1, EvaluationType DEF Evaluation
<1>5. q.from \in Nat /\ q.from \in 1 .. Len(past) /\ Len(past) \in Nat /\ DOMAIN past = 1 .. Len(past)
  BY <1>1, FromType
<1>6. e.pins = past[q.from]
  <2>1. PICK seen \in Readings(q) : Changed(e.pins, e.profile, seen, q.profile) = {}
    BY <1>1 DEF Unchanged
  <2>2. \A r \in Rules : seen[r] = e.pins[r]
    <3> TAKE r \in Rules
    <3>1. CASE e.profile # q.profile
      <4>1. <<"gone", r>> \in Changed(e.pins, e.profile, seen, q.profile)
        BY <3>1 DEF Changed
      <4> QED
        BY <2>1, <4>1
    <3>2. CASE e.profile = q.profile
      <4>1. seen[r] # e.pins[r] => <<"source", r>> \in Changed(e.pins, e.profile, seen, q.profile)
        BY <3>2 DEF Changed
      <4> QED
        BY <2>1, <4>1
    <3> QED
      BY <3>1, <3>2
  <2>3. ASSUME NEW r \in Rules PROVE past[q.from][r] = e.pins[r]
    <3>1. PICK i \in 1 .. q.from : past[i][r] = e.pins[r]
      BY <1>4 DEF FreshRequest, Pinned
    <3>2. PICK m \in q.from .. Len(past) : seen[r] = past[m][r]
      BY <1>1, ReadingsType
    <3>3. i \in DOMAIN past /\ q.from \in DOMAIN past /\ m \in DOMAIN past /\ i <= q.from /\ q.from <= m
      BY <1>5
    <3>4. past[i][r] = past[m][r]
      BY <2>2, <3>1, <3>2
    <3> QED
      BY <3>1, <3>3, <3>4, Between
  <2>4. past[q.from] \in [Rules -> Source]
    BY <1>5 DEF TypeOK
  <2> QED
    BY <1>4, <2>3, <2>4
<1>7. PICK y : y = x
  OBVIOUS
<1> HIDE DEF x
<1>8. FreshRequest(y)
  BY <1>1, <1>2, <1>6, <1>7 DEF FreshRequest
<1>9. y \in Request /\ Backed(y)
  <2>1. Backed(q)
    BY DEF RequestsBacked
  <2>2. l \in Nat /\ k \in Nat /\ k <= Len(overrides)
    BY <1>1 DEF TypeOK, Request
  <2> HIDE DEF l, k
  <2>3. x \in Request
    BY <1>1, <2>2 DEF x, Request
  <2>4. Backed(x)
    BY <1>1, <1>2, <2>1, <2>2 DEF Backed
  <2> QED
    BY <1>7, <2>3, <2>4
<1>10. FreshRequest(y)'
  <2>1. Growing
    BY <1>1, Same
  <2>2. evals' = evals /\ Len(issues'[y.scope]) = Len(issues[y.scope])
    BY <1>1
  <2> QED
    BY <1>8, <1>9, <2>1, <2>2, FreshStays
<1> QED
  BY <1>3, <1>7, <1>10 DEF FreshRequest
(* A request that asks to freeze the latest evaluation. *)
LEMMA StartFresh ==
  ASSUME TypeOK, Times, RequestsBacked, HistoryGrows, EvaluationsSeen,
         NEW h \in Handlers, NEW s \in Scopes, StartIssue(h, s)
  PROVE  FreshRequest(req[h])'
<1> DEFINE q == [Idle EXCEPT !.kind = "issue", !.scope = s, !.eval = LatestEvaluation(s).at,
                             !.profile = profile, !.now = clock]
<1>1. LatestEvaluation(s).at \in Nat
  BY LatestType DEF StartIssue, Evaluation
<1>2. q \in Request /\ q.kind = "issue" /\ q.scope = s /\ q.eval = LatestEvaluation(s).at
  BY <1>1 DEF Idle, Request, TypeOK
<1>3. Begin(h, q) /\ UNCHANGED <<past, evals, overrides, issues>>
  BY DEF StartIssue
<1> HIDE DEF q
<1>4. PICK y : y = [q EXCEPT !.from = Len(past), !.known = Len(overrides)]
  OBVIOUS
<1>5. req'[h] = y
  BY <1>2, <1>3, <1>4, BeginType
<1>6. y.kind = "issue" /\ y.scope = s /\ y.eval = LatestEvaluation(s).at /\ y.from = Len(past)
  BY <1>2, <1>4 DEF Request
<1>7. \A f \in evals[s] : Pinned(f.pins, y.from)
  BY <1>6 DEF EvaluationsSeen
<1> QED
  BY <1>3, <1>5, <1>6, <1>7 DEF FreshRequest, Pinned, LatestEvaluation

(* How many issues there are only changes when one is frozen, and then no   *)
(* request's version of the project is current any more.                    *)
LEMMA FreshStep ==
  ASSUME TypeOK, Times, RequestsBacked, HistoryGrows, EvaluationsSeen, FreshRequests, [Next]_vars
  PROVE  FreshRequests'
<1>1. Growing /\ TypeOK'
  BY Grows, TypeStep
<1>2. CASE fresh' = {}
  BY <1>2 DEF FreshRequests
<1>3. ASSUME NEW g \in fresh, req'[g] = req[g], evals' = evals,
             \A s \in Scopes : Len(issues'[s]) = Len(issues[s])
      PROVE  FreshRequest(req[g])'
  <2>1. req[g] \in Request /\ Backed(req[g]) /\ FreshRequest(req[g]) /\ req[g].scope \in Scopes
    BY DEF TypeOK, RequestsBacked, FreshRequests, Request
  <2>2. PICK y : y = req[g]
    OBVIOUS
  <2>3. FreshRequest(y)'
    BY <1>1, <1>3, <2>1, <2>2, FreshStays
  <2> QED
    BY <1>3, <2>2, <2>3 DEF FreshRequest
<1>4. ASSUME UNCHANGED <<evals, issues>>, fresh' \subseteq fresh, \A g \in fresh' : req'[g] = req[g]
      PROVE  FreshRequests'
  BY <1>3, <1>4 DEF FreshRequests
<1>5. \A h \in fresh : h \in Handlers /\ req[h].kind \in {"issue", "publish"}
  BY DEF FreshRequests, FreshRequest, TypeOK
<1>6. ASSUME NEW h \in Handlers, Step(h) PROVE FreshRequests'
  <2>1. CASE CommitEvaluate(h) \/ CommitIssue(h)
    BY <1>2, <2>1 DEF CommitEvaluate, CommitIssue, Show
  <2>2. CASE DecideIssue(h)
    <3>1. /\ UNCHANGED <<evals, issues, fresh>>
          /\ \A g \in Handlers : g # h => req'[g] = req[g]
      BY <2>2 DEF DecideIssue, records, TypeOK
    <3>2. h \in fresh => FreshRequest(req[h])'
      BY <2>2, DecideFresh DEF FreshRequests
    <3> QED
      BY <1>3, <1>5, <3>1, <3>2 DEF FreshRequests
  <2>3. CASE CommitView(h)
    <3>1. PICK reasons : issues' = [issues EXCEPT ![req[h].scope][req[h].latest] = FoundStale(@, reasons)]
      BY <2>3 DEF CommitView
    <3>2. \A s \in Scopes : Len(issues'[s]) = Len(issues[s])
      BY <3>1 DEF TypeOK, Request
    <3>3. req[h].kind = "found" /\ End(h) /\ evals' = evals /\ fresh' \subseteq fresh
      BY <2>3 DEF CommitView
    <3>4. \A g \in Handlers : g # h => req'[g] = req[g]
      BY <3>3, EndType
    <3> QED
      BY <1>3, <1>5, <3>2, <3>3, <3>4 DEF FreshRequests
  <2>4. CASE EndView(h) \/ Drop(h)
    <3>1. /\ End(h) /\ UNCHANGED <<evals, issues>>
          /\ fresh' \subseteq fresh /\ h \notin fresh'
      BY <1>5, <2>4 DEF EndView, Drop, records
    <3>2. \A g \in Handlers : g # h => req'[g] = req[g]
      BY <3>1, EndType
    <3> QED
      BY <1>4, <1>5, <3>1, <3>2
  <2>5. ASSUME NEW life \in 0 .. 1, CommitOverride(h, life) PROVE FreshRequests'
    <3>1. req[h].kind = "override" /\ End(h) /\ UNCHANGED <<evals, issues, fresh>>
      BY <2>5 DEF CommitOverride
    <3>2. \A g \in Handlers : g # h => req'[g] = req[g]
      BY <3>1, EndType
    <3> QED
      BY <1>4, <1>5, <3>1, <3>2
  <2>6. CASE Provision(h) \/ ReadIssue(h)
    <3>1. /\ req[h].kind \in {"provision", "view"} /\ UNCHANGED <<evals, issues, fresh>>
          /\ \A g \in Handlers : g # h => req'[g] = req[g]
      BY <2>6 DEF Provision, ReadIssue, records, TypeOK
    <3> QED
      BY <1>4, <1>5, <3>1
  <2> QED
    BY <1>6, <2>1, <2>2, <2>3, <2>4, <2>5, <2>6 DEF Step
<1>7. ASSUME NEW h \in Handlers, NEW s \in Scopes, Start(h, s) PROVE FreshRequests'
  <2>1. PICK q \in Request : Begin(h, q)
    BY <1>7, StartType
  <2>2. req[h].kind = "idle" /\ \A g \in Handlers : g # h => req'[g] = req[g]
    BY <2>1, BeginType
  <2>3. UNCHANGED <<evals, issues>>
    BY <1>7, StartType
  <2>4. CASE StartIssue(h, s)
    <3>1. FreshRequest(req[h])' /\ fresh' = fresh \cup {h}
      BY <2>4, StartFresh DEF StartIssue
    <3> QED
      BY <1>3, <1>5, <2>2, <2>3, <3>1 DEF FreshRequests
  <2>5. CASE fresh' = fresh
    BY <1>4, <1>5, <2>2, <2>3, <2>5
  <2> QED
    BY <1>7, <2>4, <2>5 DEF Start, StartEvaluate, FindNoProfile, StartOverride, StartView, records
<1>8. ASSUME NEW r, NEW state, NEW mark, Edit(r, state, mark) PROVE FreshRequests'
  <2>1. CASE fresh' = fresh /\ issues' = issues
    BY <1>4, <1>8, <2>1 DEF Edit
  <2> QED
    BY <1>2, <1>8, <2>1 DEF Edit, Show
<1>9. CASE UNCHANGED vars \/ Tick \/ \E d \in Days, state \in HandStates : SetDay(d, state)
  BY <1>4, <1>9 DEF vars, Tick, SetDay, records
<1> QED
  BY <1>6, <1>7, <1>8, <1>9 DEF Next
(* What freezing does to the issues: the last is superseded, and a new one   *)
(* with the next number rests on sources that were all true at one moment.   *)
LEMMA Freezing ==
  ASSUME TypeOK, Times, RequestsBacked, HistoryGrows, FreshRequests,
         NEW h \in Handlers, CommitIssue(h),
         NEW s \in Scopes, s = req[h].scope
  PROVE  /\ h \in fresh /\ req[h].kind = "publish"
         /\ Len(issues'[s]) = Len(issues[s]) + 1
         /\ issues'[s][Len(issues'[s])] =
              [number |-> Len(issues[s]) + 1, document |-> FrozenDocument(req[h]),
               supersedes |-> Len(issues[s]), standing |-> "ready", events |-> {}]
         /\ \A k \in DOMAIN issues[s] :
              issues'[s][k] = IF k = Len(issues[s])
                                THEN [issues[s][k] EXCEPT !.standing = "superseded"]
                                ELSE issues[s][k]
         /\ \A t \in Scopes : t # s => issues'[t] = issues[t]
<1> DEFINE q == req[h]
           c == issues[s]
           d == issues'[s]
           new == [number |-> q.latest + 1, document |-> FrozenDocument(q),
                   supersedes |-> q.latest, standing |-> "ready", events |-> {}]
           b == Superseded(c, q.latest)
<1>1. /\ h \in fresh /\ q.kind = "publish"
      /\ issues' = [issues EXCEPT ![s] = Append(b, new)]
  BY DEF CommitIssue, StillFresh
<1>2. c \in Seq(Issue) /\ q.latest = Len(c)
  BY <1>1 DEF TypeOK, Request, FreshRequests, FreshRequest
<1>3. /\ b \in Seq(Issue) /\ Len(b) = Len(c)
      /\ \A k \in DOMAIN c :
           b[k] = IF k = q.latest THEN [c[k] EXCEPT !.standing = "superseded"] ELSE c[k]
  BY <1>2, SupersededType
<1>4. d = Append(b, new) /\ \A t \in Scopes : t # s => issues'[t] = issues[t]
  BY <1>1, <1>2 DEF TypeOK
<1>5. /\ Len(d) = Len(c) + 1 /\ d[Len(d)] = new
      /\ \A k \in DOMAIN c : d[k] = b[k]
  <2> HIDE DEF b, new, c
  <2> QED
    BY <1>2, <1>3, <1>4
<1>6. new = [number |-> Len(c) + 1, document |-> FrozenDocument(q),
             supersedes |-> Len(c), standing |-> "ready", events |-> {}]
  BY <1>2
<1>7. \A k \in DOMAIN c :
        d[k] = IF k = Len(c) THEN [c[k] EXCEPT !.standing = "superseded"] ELSE c[k]
  <2> HIDE DEF b, c, d
  <2> QED
    BY <1>2, <1>3, <1>5
<1> HIDE DEF new, b
<1>8. d[Len(d)] = [number |-> Len(c) + 1, document |-> FrozenDocument(q),
                   supersedes |-> Len(c), standing |-> "ready", events |-> {}]
  BY <1>5, <1>6
<1> QED
  BY <1>1, <1>4, <1>5, <1>7, <1>8

(* Everything else leaves the number of issues alone. *)
LEMMA Quiet ==
  ASSUME TypeOK, Times, RequestsBacked, [Next]_vars, \A h \in Handlers : ~CommitIssue(h)
  PROVE  \A s \in Scopes : Len(issues'[s]) = Len(issues[s])
<1>1. CASE issues' = issues
  BY <1>1
<1>2. ASSUME NEW h \in Handlers, CommitView(h)
      PROVE  \A s \in Scopes : Len(issues'[s]) = Len(issues[s])
  <2>1. PICK reasons : issues' = [issues EXCEPT ![req[h].scope][req[h].latest] = FoundStale(@, reasons)]
    BY <1>2 DEF CommitView
  <2> QED
    BY <2>1 DEF TypeOK, Request
<1>3. ASSUME NEW r, NEW state, NEW mark, Edit(r, state, mark)
      PROVE  \A s \in Scopes : Len(issues'[s]) = Len(issues[s])
  <2>1. issues' = issues \/ issues' = MarkIssues
    BY <1>3 DEF Edit
  <2> QED
    BY <2>1, MarkedType
<1>4. ASSUME NEW h \in Handlers, Step(h) PROVE CommitView(h) \/ issues' = issues
  BY <1>4 DEF Step, Provision, CommitEvaluate, CommitOverride, DecideIssue, ReadIssue, EndView,
              Drop, records
<1>5. ASSUME NEW h \in Handlers, NEW s \in Scopes, Start(h, s) PROVE issues' = issues
  BY <1>5, StartType
<1> QED
  BY <1>1, <1>2, <1>3, <1>4, <1>5 DEF Next, vars, SetDay, Tick, records

LEMMA ChainsStep ==
  ASSUME TypeOK, Times, RequestsBacked, HistoryGrows, FreshRequests, Chains, [Next]_vars
  PROVE  Chains'
<1>1. Growing /\ TypeOK'
  BY Grows, TypeStep
<1>2. ASSUME NEW s \in Scopes, Len(issues'[s]) = Len(issues[s]), NEW k \in DOMAIN issues'[s]
      PROVE  /\ issues'[s][k].number = k
             /\ k < Len(issues'[s]) => issues'[s][k].standing = "superseded"
  <2>1. k \in DOMAIN issues[s]
    BY <1>1, <1>2 DEF TypeOK
  <2> QED
    BY <1>1, <1>2, <2>1 DEF Growing, Continues, Chains
<1>3. CASE \A h \in Handlers : ~CommitIssue(h)
  BY <1>2, <1>3, Quiet DEF Chains
<1>4. ASSUME NEW h \in Handlers, CommitIssue(h) PROVE Chains'
  <2> DEFINE z == req[h].scope
             c == issues[z]
             d == issues'[z]
  <2>1. /\ z \in Scopes
        /\ Len(d) = Len(c) + 1
        /\ d[Len(d)].number = Len(c) + 1
        /\ \A k \in DOMAIN c :
             d[k] = IF k = Len(c) THEN [c[k] EXCEPT !.standing = "superseded"] ELSE c[k]
        /\ \A s \in Scopes : s # z => issues'[s] = issues[s]
    <3>1. z \in Scopes
      BY DEF TypeOK, Request
    <3>2. d[Len(d)] = [number |-> Len(c) + 1, document |-> FrozenDocument(req[h]),
                       supersedes |-> Len(c), standing |-> "ready", events |-> {}]
      BY <1>4, <3>1, Freezing
    <3>3. Len(d) = Len(c) + 1 /\ \A s \in Scopes : s # z => issues'[s] = issues[s]
      BY <1>4, <3>1, Freezing
    <3>4. \A k \in DOMAIN c :
            d[k] = IF k = Len(c) THEN [c[k] EXCEPT !.standing = "superseded"] ELSE c[k]
      BY <1>4, <3>1, Freezing
    <3> HIDE DEF c, d
    <3>5. d[Len(d)].number = Len(c) + 1
      BY <3>2
    <3> QED
      BY <3>1, <3>3, <3>4, <3>5
  <2>2. c \in Seq(Issue) /\ d \in Seq(Issue)
    BY <1>1, <2>1 DEF TypeOK
  <2>3. ASSUME NEW k \in DOMAIN d
        PROVE  d[k].number = k /\ (k < Len(d) => d[k].standing = "superseded")
    <3>1. CASE k = Len(d)
      BY <2>1, <2>2, <3>1
    <3>2. CASE k \in DOMAIN c
      <4>1. c[k] \in Issue /\ c[k].number = k /\ (k < Len(c) => c[k].standing = "superseded")
        BY <2>1, <2>2, <3>2 DEF Chains
      <4>2. k \in 1 .. Len(c)
        BY <2>2, <3>2
      <4>3. CASE k = Len(c)
        <5>1. d[k] = [c[k] EXCEPT !.standing = "superseded"]
          BY <2>1, <3>2, <4>3
        <5> HIDE DEF c, d
        <5> QED
          BY <4>1, <5>1 DEF Issue
      <4>4. CASE k # Len(c)
        <5>1. d[k] = c[k]
          BY <2>1, <3>2, <4>4
        <5>2. k < Len(c)
          BY <2>2, <4>2, <4>4
        <5> QED
          BY <4>1, <5>1, <5>2
      <4> QED
        BY <4>3, <4>4
    <3> QED
      BY <2>1, <2>2, <3>1, <3>2
  <2> QED
    BY <1>2, <2>1, <2>3 DEF Chains
<1> QED
  BY <1>3, <1>4

(* A frozen document says what was true. *)
LEMMA WasTrueStep ==
  ASSUME TypeOK, Times, RequestsBacked, HistoryGrows, FreshRequests, IssueWasTrue, [Next]_vars
  PROVE  IssueWasTrue'
<1>1. Growing /\ TypeOK'
  BY Grows, TypeStep
<1>2. DOMAIN past \subseteq DOMAIN past' /\ \A i \in DOMAIN past : past'[i] = past[i]
  BY <1>1 DEF Growing, TypeOK
<1>3. ASSUME NEW s \in Scopes, NEW k \in DOMAIN issues[s]
      PROVE  LET d == issues'[s][k].document
             IN  /\ \E i \in DOMAIN past' : past'[i] = d.pins
                 /\ \A r \in Rules : d.pins[r].state = "met" \/ d.frozen[r] # 0
  <2>1. issues'[s][k].document = issues[s][k].document
    BY <1>1 DEF Growing, Continues
  <2> QED
    BY <1>2, <2>1 DEF IssueWasTrue
<1>4. CASE \A h \in Handlers : ~CommitIssue(h)
  <2>1. \A s \in Scopes : DOMAIN issues'[s] = DOMAIN issues[s]
    BY <1>1, <1>4, Quiet DEF TypeOK
  <2> QED
    BY <1>3, <2>1 DEF IssueWasTrue
<1>5. ASSUME NEW h \in Handlers, CommitIssue(h) PROVE IssueWasTrue'
  <2> DEFINE q == req[h]
             e == EvaluationOf(q.scope, q.eval)
             n == FrozenDocument(q)
  <2>1. /\ h \in fresh /\ q.scope \in Scopes /\ q.kind = "publish"
        /\ Len(issues'[q.scope]) = Len(issues[q.scope]) + 1
        /\ issues'[q.scope][Len(issues'[q.scope])].document = n
        /\ \A s \in Scopes : s # q.scope => issues'[s] = issues[s]
    <3>1. q.scope \in Scopes
      BY DEF TypeOK, Request
    <3>2. issues'[q.scope][Len(issues'[q.scope])] =
            [number |-> Len(issues[q.scope]) + 1, document |-> n,
             supersedes |-> Len(issues[q.scope]), standing |-> "ready", events |-> {}]
      BY <1>5, <3>1, Freezing
    <3> HIDE DEF n
    <3>3. issues'[q.scope][Len(issues'[q.scope])].document = n
      BY <3>2
    <3> QED
      BY <1>5, <3>1, <3>3, Freezing
  <2>2. /\ e.pins = past[q.from]
        /\ SummaryReady(e.pins, OverridesOf(q.scope, q.known), e.profile, q.now)
    BY <2>1 DEF FreshRequests, FreshRequest
  <2>3. n.pins = e.pins
        /\ \A r \in Rules : n.frozen[r] = ActiveOverride(OverridesOf(q.scope, q.known), e.profile, r, q.now)
    BY DEF FrozenDocument
  <2>4. \A r \in Rules : n.pins[r].state = "met" \/ n.frozen[r] # 0
    BY <2>2, <2>3 DEF SummaryReady, StoredResult
  <2>5. \E i \in DOMAIN past' : past'[i] = n.pins
    <3>1. q.from \in DOMAIN past
      BY <2>1 DEF RequestsBacked, Backed
    <3> QED
      BY <1>2, <2>2, <2>3, <3>1
  <2> HIDE DEF n
  <2>6. \A k \in DOMAIN issues'[q.scope] : k \in DOMAIN issues[q.scope] \/ k = Len(issues'[q.scope])
    <3>1. issues[q.scope] \in Seq(Issue) /\ issues'[q.scope] \in Seq(Issue)
      BY <1>1, <2>1 DEF TypeOK
    <3>2. /\ DOMAIN issues[q.scope] = 1 .. Len(issues[q.scope])
          /\ DOMAIN issues'[q.scope] = 1 .. Len(issues'[q.scope])
          /\ Len(issues[q.scope]) \in Nat
      BY <3>1
    <3> QED
      BY <2>1, <3>2
  <2>7. \A s \in Scopes : \A k \in DOMAIN issues'[s] :
          k \in DOMAIN issues[s] \/ issues'[s][k].document = n
    BY <2>1, <2>6
  <2> QED
    BY <1>3, <2>4, <2>5, <2>7 DEF IssueWasTrue
<1> QED
  BY <1>4, <1>5

-----------------------------------------------------------------------------
LEMMA IndInit == Init => IndInv
<1> SUFFICES ASSUME Init PROVE IndInv
  OBVIOUS
<1>1. TypeOK
  BY TypeInit
<1>2. PICK sources : past = <<sources>>
  BY DEF Init
<1>3. Len(past) = 1 /\ DOMAIN past = {1} /\ past # << >>
  BY <1>2
<1>4. HistoryGrows
  BY <1>1, <1>3 DEF HistoryGrows, TypeOK, Source
<1>5. Times /\ RequestsBacked /\ EvaluationsSeen /\ FreshRequests /\ Chains /\ IssueWasTrue
  BY DEF Init, Idle, Times, RequestsBacked, Backed, EvaluationsSeen, FreshRequests, Chains, IssueWasTrue
<1> QED
  BY <1>1, <1>4, <1>5 DEF IndInv

LEMMA IndStep == IndInv /\ [Next]_vars => IndInv'
  BY TypeStep, BackedStep, HistoryStep, EvaluationsStep, FreshStep, ChainsStep, WasTrueStep DEF IndInv

(* The inductive invariant holds: types, the times of captures, what requests *)
(* know, the growth of the history, and what issues and fresh requests rest   *)
(* on.                                                                        *)
THEOREM Invariance == Spec => []IndInv
  BY IndInit, IndStep, PTL DEF Spec

(* The variables of readiness always have their types. *)
THEOREM TypeCorrect == Spec => []TypeOK
<1>1. IndInv => TypeOK
  BY DEF IndInv
<1> QED
  BY <1>1, Invariance, PTL

(* Whatever interleaving of reads, edits and decisions, the sources a frozen  *)
(* issue pins were all true together, and every gate was met or overridden.   *)
THEOREM FrozenWasTrue == Spec => []IssueWasTrue
<1>1. IndInv => IssueWasTrue
  BY DEF IndInv
<1> QED
  BY <1>1, Invariance, PTL

-----------------------------------------------------------------------------
(* An issue freezes the evaluation that is the latest of its scope when it is *)
(* written: an evaluation committed meanwhile raises the project's version,   *)
(* and the guard row then refuses the freeze.                                 *)
THEOREM LatestFrozen == Spec => IssueOfLatest
<1> DEFINE A == \A s \in Scopes :
                  Len(issues'[s]) > Len(issues[s]) =>
                    issues'[s][Len(issues'[s])].document.eval = LatestEvaluation(s).at
<1>1. IndInv /\ [Next]_vars => A
  <2> SUFFICES ASSUME IndInv, [Next]_vars,
                      NEW s \in Scopes, Len(issues'[s]) > Len(issues[s])
               PROVE  issues'[s][Len(issues'[s])].document.eval = LatestEvaluation(s).at
    OBVIOUS
  <2>1. TypeOK /\ Times /\ RequestsBacked /\ HistoryGrows /\ FreshRequests
    BY DEF IndInv
  <2>2. Len(issues[s]) \in Nat
    BY <2>1 DEF TypeOK
  <2>3. PICK h \in Handlers : CommitIssue(h)
    BY <2>1, <2>2, Quiet
  <2>4. req[h].scope \in Scopes
    BY <2>1 DEF TypeOK, Request
  <2>5. s = req[h].scope
    <3>1. \A t \in Scopes : t # req[h].scope => issues'[t] = issues[t]
      BY <2>1, <2>3, <2>4, Freezing
    <3>2. issues'[s] # issues[s]
      BY <2>2
    <3> QED
      BY <3>1, <3>2
  <2>6. /\ h \in fresh /\ req[h].kind = "publish"
        /\ issues'[s][Len(issues'[s])] =
             [number |-> Len(issues[s]) + 1, document |-> FrozenDocument(req[h]),
              supersedes |-> Len(issues[s]), standing |-> "ready", events |-> {}]
    BY <2>1, <2>3, <2>5, Freezing
  <2>7. issues'[s][Len(issues'[s])].document = FrozenDocument(req[h])
    BY <2>6
  <2>8. FrozenDocument(req[h]).eval = req[h].eval
    BY <2>1, <2>6, EvaluationType DEF FrozenDocument
  <2>9. req[h].eval = LatestEvaluation(s).at
    BY <2>1, <2>5, <2>6 DEF FreshRequests, FreshRequest
  <2> QED
    BY <2>7, <2>8, <2>9
<1> QED
  BY <1>1, Invariance, PTL DEF Spec, IssueOfLatest

-----------------------------------------------------------------------------
(* Chains of issues as entries of the register. *)

LEMMA EntriesType ==
  ASSUME NEW c \in Seq(Issue)
  PROVE  /\ Entries(c) \in Seq(Register!Entry)
         /\ Len(Entries(c)) = Len(c)
         /\ \A k \in DOMAIN c :
              Entries(c)[k] = [number |-> c[k].number, document |-> c[k].document,
                               supersedes |-> c[k].supersedes, standing |-> c[k].standing]
<1> DEFINE x == [k \in 1 .. Len(c) |->
                   [number |-> c[k].number, document |-> c[k].document,
                    supersedes |-> c[k].supersedes, standing |-> c[k].standing]]
<1>1. \A k \in 1 .. Len(c) :
        [number |-> c[k].number, document |-> c[k].document,
         supersedes |-> c[k].supersedes, standing |-> c[k].standing] \in Register!Entry
  <2> TAKE k \in 1 .. Len(c)
  <2>1. c[k] \in Issue
    OBVIOUS
  <2> QED
    BY <2>1 DEF Issue, Register!Entry, Register!Standings
<1>2. x \in Seq(Register!Entry) /\ Len(x) = Len(c)
  BY <1>1
<1>3. Entries(c) = x
  BY DEF Entries
<1> QED
  BY <1>2, <1>3

LEMMA ClosedType ==
  ASSUME NEW x \in Seq(Register!Entry)
  PROVE  /\ Register!Closed(x) \in Seq(Register!Entry)
         /\ Len(Register!Closed(x)) = Len(x)
         /\ \A k \in 1 .. Len(x) :
              Register!Closed(x)[k] =
                [number |-> x[k].number, document |-> x[k].document,
                 supersedes |-> x[k].supersedes, standing |-> "superseded"]
<1> DEFINE y == [k \in 1 .. Len(x) |-> [x[k] EXCEPT !.standing = "superseded"]]
<1>1. ASSUME NEW k \in 1 .. Len(x)
      PROVE  /\ [x[k] EXCEPT !.standing = "superseded"] =
                   [number |-> x[k].number, document |-> x[k].document,
                    supersedes |-> x[k].supersedes, standing |-> "superseded"]
             /\ [x[k] EXCEPT !.standing = "superseded"] \in Register!Entry
  <2>1. x[k] \in Register!Entry
    OBVIOUS
  <2> QED
    BY <2>1 DEF Register!Entry, Register!Standings
<1>2. y \in Seq(Register!Entry) /\ Len(y) = Len(x)
  <2>1. \A k \in 1 .. Len(x) : [x[k] EXCEPT !.standing = "superseded"] \in Register!Entry
    BY <1>1
  <2>2. y \in [1 .. Len(x) -> Register!Entry] /\ Len(x) \in Nat
    BY <2>1
  <2> HIDE DEF y
  <2> QED
    BY <2>2
<1>3. Register!Closed(x) = y
  BY DEF Register!Closed
<1> QED
  BY <1>1, <1>2, <1>3

(* Freezing is publishing. *)
LEMMA Published ==
  ASSUME NEW c \in Seq(Issue), NEW d \in Seq(Issue), NEW document,
         Len(d) = Len(c) + 1,
         d[Len(d)] = [number |-> Len(c) + 1, document |-> document,
                      supersedes |-> Len(c), standing |-> "ready", events |-> {}],
         \A k \in DOMAIN c :
           d[k] = IF k = Len(c) THEN [c[k] EXCEPT !.standing = "superseded"] ELSE c[k],
         \A k \in DOMAIN c : k < Len(c) => c[k].standing = "superseded"
  PROVE  Entries(d) = Append(Register!Closed(Entries(c)),
                             [number |-> Len(c) + 1, document |-> document,
                              supersedes |-> Len(c), standing |-> "ready"])
<1> DEFINE x == Entries(c)
           y == Register!Closed(x)
           new == [number |-> Len(c) + 1, document |-> document,
                   supersedes |-> Len(c), standing |-> "ready"]
<1>1. x \in Seq(Register!Entry) /\ Len(x) = Len(c)
  BY EntriesType
<1>3. /\ y \in Seq(Register!Entry) /\ Len(y) = Len(c)
      /\ \A k \in 1 .. Len(c) :
           y[k] = [number |-> x[k].number, document |-> x[k].document,
                   supersedes |-> x[k].supersedes, standing |-> "superseded"]
  BY <1>1, ClosedType
<1>4. \A k \in 1 .. Len(c) : Entries(d)[k] = y[k]
  <2> TAKE k \in 1 .. Len(c)
  <2>1. /\ x[k] = [number |-> c[k].number, document |-> c[k].document,
                   supersedes |-> c[k].supersedes, standing |-> c[k].standing]
        /\ Entries(d)[k] = [number |-> d[k].number, document |-> d[k].document,
                            supersedes |-> d[k].supersedes, standing |-> d[k].standing]
    BY EntriesType
  <2>2. y[k] = [number |-> c[k].number, document |-> c[k].document,
                supersedes |-> c[k].supersedes, standing |-> "superseded"]
    <3>1. y[k] = [number |-> x[k].number, document |-> x[k].document,
                  supersedes |-> x[k].supersedes, standing |-> "superseded"]
      BY <1>3
    <3> HIDE DEF y, x
    <3> QED
      BY <2>1, <3>1
  <2>3. c[k] \in Issue /\ (k # Len(c) => k < Len(c))
    OBVIOUS
  <2>4. /\ d[k].number = c[k].number /\ d[k].document = c[k].document
        /\ d[k].supersedes = c[k].supersedes /\ d[k].standing = "superseded"
    <3>1. CASE k = Len(c)
      <4>1. d[k] = [c[k] EXCEPT !.standing = "superseded"]
        BY <3>1
      <4> QED
        BY <2>3, <4>1 DEF Issue
    <3>2. CASE k # Len(c)
      <4>1. k \in DOMAIN c
        OBVIOUS
      <4>2. d[k] = c[k]
        BY <3>2, <4>1
      <4> QED
        BY <2>3, <3>2, <4>1, <4>2
    <3> QED
      BY <3>1, <3>2
  <2> QED
    BY <2>1, <2>2, <2>4
<1>5. Entries(d)[Len(c) + 1] = new
  <2>1. Len(c) + 1 \in DOMAIN d
    OBVIOUS
  <2>2. /\ d[Len(c) + 1].number = Len(c) + 1 /\ d[Len(c) + 1].document = document
        /\ d[Len(c) + 1].supersedes = Len(c) /\ d[Len(c) + 1].standing = "ready"
    OBVIOUS
  <2> QED
    BY <2>1, <2>2, EntriesType
<1>6. /\ Entries(d) \in Seq(Register!Entry) /\ Len(Entries(d)) = Len(c) + 1
      /\ Len(c) \in Nat
  BY EntriesType
<1>7. new \in Register!Entry
  BY <1>5, <1>6
<1> DEFINE w == Entries(d)
<1>8. w \in Seq(Register!Entry) /\ Append(y, new) \in Seq(Register!Entry)
  <2> HIDE DEF y, new
  <2> QED
    BY <1>3, <1>6, <1>7
<1> HIDE DEF y, new, w
<1>9. Len(w) = Len(Append(y, new)) /\ \A k \in 1 .. Len(w) : w[k] = Append(y, new)[k]
  BY <1>3, <1>4, <1>5, <1>6, <1>7 DEF w
<1> QED
  BY <1>8, <1>9, SeqEqual DEF w, y, new, x

(* A step that freezes nothing marks the current issue of some scopes, or none. *)
LEMMA Marking ==
  ASSUME TypeOK, Times, RequestsBacked, Chains, [Next]_vars, \A h \in Handlers : ~CommitIssue(h)
  PROVE  \E S \in SUBSET Scopes : \A s \in Scopes : \A k \in DOMAIN issues[s] :
           /\ issues'[s][k].number = issues[s][k].number
           /\ issues'[s][k].document = issues[s][k].document
           /\ issues'[s][k].supersedes = issues[s][k].supersedes
           /\ issues'[s][k].standing = IF s \in S /\ issues[s][k].standing = "ready"
                                         THEN "stale" ELSE issues[s][k].standing
<1> DEFINE Marked(S) == \A s \in Scopes : \A k \in DOMAIN issues[s] :
             /\ issues'[s][k].number = issues[s][k].number
             /\ issues'[s][k].document = issues[s][k].document
             /\ issues'[s][k].supersedes = issues[s][k].supersedes
             /\ issues'[s][k].standing = IF s \in S /\ issues[s][k].standing = "ready"
                                           THEN "stale" ELSE issues[s][k].standing
<1> HIDE DEF Marked
<1>1. ASSUME issues' = issues PROVE \E S \in SUBSET Scopes : Marked(S)
  <2>1. Marked({})
    BY <1>1 DEF Marked
  <2> QED
    BY <2>1
<1>2. ASSUME issues' = MarkIssues PROVE \E S \in SUBSET Scopes : Marked(S)
  <2>1. ASSUME NEW s \in Scopes, NEW k \in DOMAIN issues[s]
        PROVE  /\ issues'[s][k].number = issues[s][k].number
               /\ issues'[s][k].document = issues[s][k].document
               /\ issues'[s][k].supersedes = issues[s][k].supersedes
               /\ issues'[s][k].standing = IF issues[s][k].standing = "ready"
                                             THEN "stale" ELSE issues[s][k].standing
    <3>1. issues'[s][k] = IF issues[s][k].standing = "ready"
                            THEN [issues[s][k] EXCEPT !.standing = "stale"] ELSE issues[s][k]
      BY <1>2, MarkedType
    <3>2. issues[s][k] \in Issue
      BY DEF TypeOK
    <3> QED
      BY <3>1, <3>2 DEF Issue
  <2>2. Marked(Scopes)
    BY <2>1 DEF Marked
  <2> QED
    BY <2>2
<1>3. ASSUME NEW h \in Handlers, CommitView(h)
      PROVE  \E S \in SUBSET Scopes : Marked(S)
  <2> DEFINE z == req[h].scope
             n == req[h].latest
             c == issues[z]
  <2>1. PICK reasons : issues' = [issues EXCEPT ![z][n] = FoundStale(@, reasons)]
    BY <1>3 DEF CommitView
  <2>2. z \in Scopes /\ n \in DOMAIN c
    BY <1>3 DEF CommitView, RequestsBacked, Backed, TypeOK, Request
  <2>3. c \in Seq(Issue) /\ c[n] \in Issue
    BY <2>2 DEF TypeOK
  <2>4. /\ \A s \in Scopes : s # z => issues'[s] = issues[s]
        /\ \A k \in DOMAIN c : issues'[z][k] = IF k = n THEN FoundStale(c[n], reasons) ELSE c[k]
    BY <2>1, <2>2, <2>3 DEF TypeOK
  <2>5. /\ FoundStale(c[n], reasons).number = c[n].number
        /\ FoundStale(c[n], reasons).document = c[n].document
        /\ FoundStale(c[n], reasons).supersedes = c[n].supersedes
        /\ FoundStale(c[n], reasons).standing =
             IF c[n].standing = "ready" THEN "stale" ELSE c[n].standing
    BY <2>3 DEF FoundStale, Issue
  <2>6. CASE c[n].standing # "ready"
    <3>1. Marked({})
      BY <2>4, <2>5, <2>6 DEF Marked
    <3> QED
      BY <3>1
  <2>7. CASE c[n].standing = "ready"
    <3>1. \A k \in DOMAIN c : k # n => c[k].standing # "ready"
      <4>1. n \in Nat /\ Len(c) \in Nat /\ n <= Len(c) /\ \A k \in DOMAIN c : k \in Nat /\ k <= Len(c)
        BY <2>2, <2>3
      <4>2. \A k \in DOMAIN c : k < Len(c) => c[k].standing = "superseded"
        BY <2>2 DEF Chains
      <4>3. n = Len(c)
        BY <2>2, <2>7, <4>1, <4>2
      <4>4. \A k \in DOMAIN c : k # n => k < Len(c)
        BY <4>1, <4>3
      <4> QED
        BY <4>2, <4>4
    <3>2. ASSUME NEW s \in Scopes, NEW k \in DOMAIN issues[s]
          PROVE  /\ issues'[s][k].number = issues[s][k].number
                 /\ issues'[s][k].document = issues[s][k].document
                 /\ issues'[s][k].supersedes = issues[s][k].supersedes
                 /\ issues'[s][k].standing = IF s \in {z} /\ issues[s][k].standing = "ready"
                                               THEN "stale" ELSE issues[s][k].standing
      <4>1. CASE s # z
        BY <2>4, <4>1
      <4>2. CASE s = z /\ k = n
        BY <2>2, <2>4, <2>5, <4>2
      <4>3. CASE s = z /\ k # n
        BY <2>4, <3>1, <4>3
      <4> QED
        BY <4>1, <4>2, <4>3
    <3>3. Marked({z})
      BY <3>2 DEF Marked
    <3> QED
      BY <2>2, <3>3
  <2> QED
    BY <2>6, <2>7
<1>4. \/ issues' = issues
      \/ issues' = MarkIssues
      \/ \E h \in Handlers : CommitView(h)
  <2>1. ASSUME NEW h \in Handlers, Step(h) PROVE CommitView(h) \/ issues' = issues
    BY <2>1 DEF Step, Provision, CommitEvaluate, CommitOverride, DecideIssue, ReadIssue, EndView,
                Drop, records
  <2>2. ASSUME NEW h \in Handlers, NEW s \in Scopes, Start(h, s) PROVE issues' = issues
    BY <2>2, StartType
  <2>3. ASSUME NEW r, NEW state, NEW mark, Edit(r, state, mark)
        PROVE  issues' = issues \/ issues' = MarkIssues
    BY <2>3 DEF Edit
  <2> QED
    BY <2>1, <2>2, <2>3 DEF Next, vars, SetDay, Tick, records
<1>5. \E S \in SUBSET Scopes : Marked(S)
  <2>1. CASE issues' = issues \/ issues' = MarkIssues
    BY <1>1, <1>2, <2>1
  <2>2. CASE \E h \in Handlers : CommitView(h)
    BY <1>3, <2>2
  <2> QED
    BY <1>4, <2>1, <2>2
<1> QED
  BY <1>5 DEF Marked

(* Every step of readiness is one of the register, or leaves it alone. *)
LEMMA RegisterStep == IndInv /\ [Next]_vars => [Register!Next]_Chain
<1> SUFFICES ASSUME IndInv, [Next]_vars PROVE Register!Next
  OBVIOUS
<1>1. /\ TypeOK /\ Times /\ RequestsBacked /\ HistoryGrows /\ FreshRequests /\ Chains
      /\ TypeOK'
  BY TypeStep DEF IndInv
<1>2. /\ Chain = [s \in Scopes |-> Entries(issues[s])]
      /\ Chain' = [s \in Scopes |-> Entries(issues'[s])]
  BY DEF Chain
<1>3. \A s \in Scopes : issues[s] \in Seq(Issue) /\ issues'[s] \in Seq(Issue)
  BY <1>1 DEF TypeOK
<1>4. CASE \A h \in Handlers : ~CommitIssue(h)
  <2>1. PICK S \in SUBSET Scopes : \A s \in Scopes : \A k \in DOMAIN issues[s] :
           /\ issues'[s][k].number = issues[s][k].number
           /\ issues'[s][k].document = issues[s][k].document
           /\ issues'[s][k].supersedes = issues[s][k].supersedes
           /\ issues'[s][k].standing = IF s \in S /\ issues[s][k].standing = "ready"
                                         THEN "stale" ELSE issues[s][k].standing
    BY <1>1, <1>4, Marking
  <2> DEFINE M(c, s) == [k \in DOMAIN c |->
                           IF s \in S /\ c[k].standing = "ready"
                             THEN [c[k] EXCEPT !.standing = "stale"] ELSE c[k]]
  <2>2. ASSUME NEW s \in Scopes PROVE Entries(issues'[s]) = M(Entries(issues[s]), s)
    <3> DEFINE c == issues[s]
               d == issues'[s]
               E(i) == [number |-> i.number, document |-> i.document,
                        supersedes |-> i.supersedes, standing |-> i.standing]
    <3>1. c \in Seq(Issue) /\ d \in Seq(Issue) /\ Len(d) = Len(c)
      BY <1>1, <1>3, <1>4, Quiet
    <3>2. Entries(d) = [k \in 1 .. Len(c) |-> E(d[k])] /\ Entries(c) = [k \in 1 .. Len(c) |-> E(c[k])]
      BY <3>1 DEF Entries
    <3>3. ASSUME NEW k \in 1 .. Len(c)
          PROVE  E(d[k]) = IF s \in S /\ E(c[k]).standing = "ready"
                             THEN [E(c[k]) EXCEPT !.standing = "stale"] ELSE E(c[k])
      <4>1. k \in DOMAIN issues[s]
        BY <3>1
      <4> QED
        BY <2>1, <4>1
    <3>4. Entries(d) = M(Entries(c), s)
      <4> HIDE DEF c, d, E
      <4> QED
        BY <3>2, <3>3
    <3> QED
      BY <3>4
  <2>3. Chain' = [s \in Scopes |-> M(Chain[s], s)]
    BY <1>2, <2>2
  <2>4. Register!MarkStale
    BY <2>3 DEF Register!MarkStale
  <2> QED
    BY <2>4 DEF Register!Next
<1>5. ASSUME NEW h \in Handlers, CommitIssue(h) PROVE Register!Next
  <2> DEFINE z == req[h].scope
             c == issues[z]
             d == issues'[z]
             n == FrozenDocument(req[h])
             new == [number |-> Len(c) + 1, document |-> n,
                     supersedes |-> Len(c), standing |-> "ready"]
  <2>1. z \in Scopes /\ c \in Seq(Issue) /\ d \in Seq(Issue)
    BY <1>1, <1>3 DEF TypeOK, Request
  <2>2. /\ req[h].kind = "publish" /\ Len(d) = Len(c) + 1
        /\ \A s \in Scopes : s # z => issues'[s] = issues[s]
    BY <1>1, <1>5, <2>1, Freezing
  <2>3. d[Len(d)] = [number |-> Len(c) + 1, document |-> n,
                     supersedes |-> Len(c), standing |-> "ready", events |-> {}]
    BY <1>1, <1>5, <2>1, Freezing
  <2>4. \A k \in DOMAIN c :
          d[k] = IF k = Len(c) THEN [c[k] EXCEPT !.standing = "superseded"] ELSE c[k]
    BY <1>1, <1>5, <2>1, Freezing
  <2>5. \A k \in DOMAIN c : k < Len(c) => c[k].standing = "superseded"
    BY <1>1, <2>1 DEF Chains
  <2>6. n \in Document
    BY <1>1, <2>2, FrozenType
  <2>7. Entries(d) = Append(Register!Closed(Entries(c)), new)
    <3> HIDE DEF c, d, n
    <3> QED
      BY <2>1, <2>2, <2>3, <2>4, <2>5, Published DEF new
  <2>8. /\ Chain[z] = Entries(c) /\ Chain'[z] = Entries(d)
        /\ Len(Entries(c)) = Len(c) /\ Len(Entries(d)) = Len(c) + 1
    BY <1>2, <2>1, <2>2, EntriesType
  <2>9. Chain' = [Chain EXCEPT ![z] = Entries(d)]
    BY <1>2, <2>1, <2>2
  <2>10. Entries(d)[Len(Entries(d))].document = n
    <3>1. Entries(d)[Len(d)].document = d[Len(d)].document
      <4>1. Len(d) \in DOMAIN d
        BY <2>1, <2>2
      <4>2. Entries(d)[Len(d)] =
              [number |-> d[Len(d)].number, document |-> d[Len(d)].document,
               supersedes |-> d[Len(d)].supersedes, standing |-> d[Len(d)].standing]
        BY <2>1, <4>1, EntriesType
      <4> QED
        BY <4>2
    <3> HIDE DEF n
    <3> QED
      BY <2>2, <2>3, <2>8, <3>1
  <2>11. Register!Published(z, n) = [Chain EXCEPT ![z] = Append(Register!Closed(Entries(c)), new)]
    BY <2>8 DEF Register!Published
  <2>12. Register!Publish(z)
    <3> HIDE DEF n, d, c, new
    <3> QED
      BY <2>6, <2>7, <2>8, <2>9, <2>10, <2>11 DEF Register!Publish
  <2> QED
    BY <2>1, <2>12 DEF Register!Next
<1> QED
  BY <1>4, <1>5

(* The issues of every scope implement the register: a chain of immutable     *)
(* documents, numbered without gaps, of which only the last is not superseded. *)
THEOREM Refinement == Spec => IssuesAreARegister
<1>1. Init => Register!Init
  <2> SUFFICES ASSUME Init PROVE Chain = [s \in Scopes |-> << >>]
    BY DEF Register!Init
  <2>1. issues = [s \in Scopes |-> << >>]
    BY DEF Init
  <2>2. ASSUME NEW s \in Scopes PROVE Entries(issues[s]) = << >>
    <3>1. issues[s] = << >> /\ issues[s] \in Seq(Issue) /\ Len(issues[s]) = 0
      BY <2>1
    <3>2. Entries(issues[s]) \in Seq(Register!Entry) /\ Len(Entries(issues[s])) = 0
      BY <3>1, EntriesType
    <3> QED
      BY <3>2, EmptySeq
  <2> QED
    BY <2>2 DEF Chain
<1> QED
  BY <1>1, Invariance, RegisterStep, PTL DEF Spec, IssuesAreARegister, Register!Spec

-----------------------------------------------------------------------------
(* No two overrides are of one time, those that are being given included. *)
OverrideTimes ==
  /\ \A i \in DOMAIN overrides : overrides[i].at # 0
  /\ \A i, j \in DOMAIN overrides : overrides[i].at = overrides[j].at => i = j
  /\ \A h \in Handlers : req[h].kind = "override" =>
       req[h].now # 0 /\ \A i \in DOMAIN overrides : overrides[i].at # req[h].now
  /\ \A g, h \in Handlers :
       g # h /\ req[g].kind = "override" /\ req[h].kind = "override" => req[g].now # req[h].now

(* A document was outdated when request q began. *)
OutdatedSince(d, q) ==
  \/ \E r \in Rules : d.pins[r].version < past[q.from][r].version
  \/ \E r \in Rules : \E i \in DOMAIN overrides :
       overrides[i].at = d.frozen[r] /\ overrides[i].expires \in 1 .. q.now

(* What a view knows of the issue that was outdated when it began: it is still *)
(* there, and was not ready or not superseded when it was read. *)
ViewOK(q) ==
  LET c == issues[q.scope]
  IN  q.kind \in {"view", "found"} /\ q.outdated # 0 =>
        /\ q.outdated \in DOMAIN c
        /\ OutdatedSince(c[q.outdated].document, q)
        /\ q.kind = "found" =>
             /\ q.standing # "none"
             /\ q.outdated <= q.latest
             /\ q.standing # "ready" => c[q.latest].standing # "ready"

ViewInv == OverrideTimes /\ \A h \in Handlers : ViewOK(req[h])

(* Steps that give no override. *)
LEMMA OverrideTimesKept ==
  ASSUME OverrideTimes, UNCHANGED overrides,
         \A g \in Handlers : req'[g] = req[g] \/ req'[g].kind # "override"
  PROVE  OverrideTimes'
  BY DEF OverrideTimes

LEMMA OverrideTimesStep ==
  ASSUME TypeOK, Times, RequestsBacked, OverrideTimes, [Next]_vars
  PROVE  OverrideTimes'
<1>0. ASSUME NEW h \in Handlers, NEW x, req' = [req EXCEPT ![h] = x], x.kind # "override",
             UNCHANGED overrides
      PROVE  OverrideTimes'
  <2>1. \A g \in Handlers : req'[g] = req[g] \/ req'[g].kind # "override"
    BY <1>0 DEF TypeOK
  <2> QED
    BY <1>0, <2>1, OverrideTimesKept
<1>e. ASSUME NEW h \in Handlers, End(h), UNCHANGED overrides PROVE OverrideTimes'
  <2>1. Idle.kind # "override"
    BY DEF Idle
  <2> QED
    BY <1>0, <1>e, <2>1 DEF End
<1>1. CASE UNCHANGED <<overrides, req>>
  BY <1>1, OverrideTimesKept
<1>2. ASSUME NEW h \in Handlers, NEW s \in Scopes, Start(h, s) PROVE OverrideTimes'
  <2>1. PICK q \in Request : Begin(h, q) /\ (q.kind = "override" => q.now = clock + 1)
    <3>1. CASE \E r \in Rules : StartOverride(h, s, r)
      <4>1. PICK r \in Rules : StartOverride(h, s, r)
        BY <3>1
      <4>2. PICK q : q = [Idle EXCEPT !.kind = "override", !.scope = s, !.rule = {r},
                           !.eval = LatestEvaluation(s).at, !.profile = profile, !.now = clock + 1]
        OBVIOUS
      <4>3. LatestEvaluation(s) \in Evaluation
        BY <4>1, LatestType DEF StartOverride
      <4>4. LatestEvaluation(s).at \in Nat
        BY <4>3 DEF Evaluation
      <4>5. q \in Request /\ q.now = clock + 1
        <5>1. PICK l, p, n \in Nat : l = LatestEvaluation(s).at /\ p = profile /\ n = clock + 1
          BY <4>4 DEF TypeOK
        <5>2. PICK i \in Request : i = Idle
          BY IdleType
        <5>3. q = [i EXCEPT !.kind = "override", !.scope = s, !.rule = {r}, !.eval = l,
                            !.profile = p, !.now = n]
          BY <4>2, <5>1, <5>2
        <5>4. q \in Request /\ q.now = n
          BY <5>3 DEF Request
        <5> QED
          BY <5>1, <5>4
      <4> QED
        BY <4>1, <4>2, <4>5 DEF StartOverride
    <3>2. CASE ~\E r \in Rules : StartOverride(h, s, r)
      <4>1. PICK q \in Request : Begin(h, q)
        BY <1>2, StartType
      <4>2. req'[h].kind # "override"
        <5>1. StartEvaluate(h, s) \/ FindNoProfile(h, s) \/ StartIssue(h, s) \/ StartView(h, s)
          BY <1>2, <3>2 DEF Start
        <5>2. ASSUME NEW r, Begin(h, r), r.kind # "override", DOMAIN r = DOMAIN Idle
              PROVE  req'[h].kind # "override"
          BY <5>2 DEF Begin, TypeOK, Idle
        <5> QED
          BY <5>1, <5>2 DEF StartEvaluate, FindNoProfile, StartIssue, StartView, Evaluating, Idle
      <4>3. q.kind # "override"
        <5>1. req'[h] = [q EXCEPT !.from = Len(past), !.known = Len(overrides)]
          BY <4>1, BeginType
        <5> QED
          BY <4>2, <5>1 DEF Request
      <4> QED
        BY <4>1, <4>3
    <3> QED
      BY <3>1, <3>2
  <2> DEFINE x == [q EXCEPT !.from = Len(past), !.known = Len(overrides)]
  <2>2. /\ \A g \in Handlers : g # h => req'[g] = req[g]
        /\ req'[h] = x
    BY <2>1, BeginType
  <2>3. x.kind = q.kind /\ x.now = q.now
    BY DEF Request
  <2> HIDE DEF x
  <2>4. UNCHANGED overrides
    BY <1>2, StartType
  <2>5. \A i \in DOMAIN overrides : overrides[i].at # clock + 1
    BY TimeTypes DEF Times, TypeOK
  <2>6. \A g \in Handlers : req[g].now # clock + 1
    BY TimeTypes DEF Times, TypeOK
  <2>7. clock + 1 # 0
    BY DEF TypeOK
  <2> QED
    BY <2>1, <2>2, <2>3, <2>4, <2>5, <2>6, <2>7 DEF OverrideTimes
<1>3. ASSUME NEW h \in Handlers, NEW life \in 0 .. 1, CommitOverride(h, life) PROVE OverrideTimes'
  <2>1. PICK o : overrides' = Append(overrides, o) /\ o.at = req[h].now
    BY <1>3 DEF CommitOverride
  <2>2. req[h].kind = "override" /\ End(h)
    BY <1>3 DEF CommitOverride
  <2>3. req'[h] = Idle /\ \A g \in Handlers : g # h => req'[g] = req[g]
    BY <2>2, EndType
  <2>4. Len(overrides) \in Nat /\ DOMAIN overrides = 1 .. Len(overrides)
    BY DEF TypeOK
  <2>5. /\ DOMAIN overrides' = 1 .. Len(overrides) + 1 /\ overrides'[Len(overrides) + 1] = o
        /\ \A i \in 1 .. Len(overrides) : overrides'[i] = overrides[i]
    BY <2>1 DEF TypeOK
  <2>6. \A i \in DOMAIN overrides' : i \in DOMAIN overrides \/ (i = Len(overrides) + 1 /\ i \notin DOMAIN overrides)
    BY <2>4, <2>5
  <2>7. Idle.kind # "override"
    BY DEF Idle
  <2>8. \A i \in DOMAIN overrides' : overrides'[i].at # 0
    BY <2>1, <2>2, <2>4, <2>5, <2>6 DEF OverrideTimes
  <2>9. \A i, j \in DOMAIN overrides' : overrides'[i].at = overrides'[j].at => i = j
    BY <2>1, <2>2, <2>4, <2>5, <2>6 DEF OverrideTimes
  <2>10. \A g \in Handlers : req'[g].kind = "override" =>
           req'[g].now # 0 /\ \A i \in DOMAIN overrides' : overrides'[i].at # req'[g].now
    BY <2>1, <2>2, <2>3, <2>4, <2>5, <2>6, <2>7 DEF OverrideTimes
  <2>11. \A f, g \in Handlers :
           f # g /\ req'[f].kind = "override" /\ req'[g].kind = "override" => req'[f].now # req'[g].now
    BY <2>3, <2>7 DEF OverrideTimes
  <2> QED
    BY <2>8, <2>9, <2>10, <2>11 DEF OverrideTimes
<1>4. ASSUME NEW h \in Handlers, Step(h), \A life \in 0 .. 1 : ~CommitOverride(h, life)
      PROVE  OverrideTimes'
  <2>1. req[h] \in Request
    BY DEF TypeOK
  <2>2. CASE Provision(h)
    <3>1. PICK x : /\ x = [Evaluating(req[h].scope, profile + 1) EXCEPT
                             !.from = Len(past), !.known = Len(overrides)]
                   /\ req' = [req EXCEPT ![h] = x]
      BY <2>2 DEF Provision
    <3>2. x.kind # "override"
      BY <3>1 DEF Evaluating, Idle
    <3> QED
      BY <1>0, <2>2, <3>1, <3>2 DEF Provision
  <2>3. CASE DecideIssue(h)
    <3>1. PICK k, l : req' = [req EXCEPT ![h] = [req[h] EXCEPT !.kind = "publish", !.known = k, !.latest = l]]
      BY <2>3 DEF DecideIssue, TypeOK
    <3>2. PICK x : x = [req[h] EXCEPT !.kind = "publish", !.known = k, !.latest = l]
      OBVIOUS
    <3>3. x.kind # "override"
      BY <2>1, <3>2 DEF Request
    <3> QED
      BY <1>0, <2>3, <3>1, <3>2, <3>3 DEF DecideIssue, records
  <2>4. CASE ReadIssue(h)
    <3>1. PICK l, st : req' = [req EXCEPT ![h] = [req[h] EXCEPT !.kind = "found", !.latest = l, !.standing = st]]
      BY <2>4 DEF ReadIssue, TypeOK
    <3>2. PICK x : x = [req[h] EXCEPT !.kind = "found", !.latest = l, !.standing = st]
      OBVIOUS
    <3>3. x.kind # "override"
      BY <2>1, <3>2 DEF Request
    <3> QED
      BY <1>0, <2>4, <3>1, <3>2, <3>3 DEF ReadIssue, records
  <2>5. CASE CommitEvaluate(h) \/ CommitIssue(h) \/ EndView(h) \/ CommitView(h) \/ Drop(h)
    BY <1>e, <2>5 DEF CommitEvaluate, CommitIssue, EndView, CommitView, Drop, records
  <2> QED
    BY <1>4, <2>2, <2>3, <2>4, <2>5 DEF Step
<1>5. ASSUME NEW r, NEW state, NEW mark, Edit(r, state, mark) PROVE UNCHANGED <<overrides, req>>
  BY <1>5 DEF Edit
<1>6. ASSUME NEW d, NEW state, SetDay(d, state) PROVE UNCHANGED <<overrides, req>>
  BY <1>6 DEF SetDay
<1>7. Tick => UNCHANGED <<overrides, req>>
  BY DEF Tick, records
<1>8. UNCHANGED vars => UNCHANGED <<overrides, req>>
  BY DEF vars
<1> QED
  BY <1>1, <1>2, <1>3, <1>4, <1>5, <1>6, <1>7, <1>8 DEF Next

LEMMA FrozenPins ==
  ASSUME TypeOK, HistoryGrows, IssueWasTrue, NEW s \in Scopes, NEW k \in DOMAIN issues[s],
         issues[s][k].document.pins # Now
  PROVE  \E r \in Rules : issues[s][k].document.pins[r].version < Now[r].version
<1> DEFINE d == issues[s][k].document
<1>1. PICK i \in DOMAIN past : past[i] = d.pins
  BY DEF IssueWasTrue
<1>2. /\ Len(past) \in Nat /\ DOMAIN past = 1 .. Len(past) /\ Len(past) \in DOMAIN past
      /\ Now = past[Len(past)] /\ i <= Len(past)
  BY DEF TypeOK, HistoryGrows, Now
<1>3. past[i] \in [Rules -> Source] /\ Now \in [Rules -> Source]
  BY <1>1, <1>2 DEF TypeOK
<1>4. PICK r \in Rules : past[i][r] # Now[r]
  BY <1>1, <1>3
<1>5. /\ past[i][r].version <= Now[r].version
      /\ past[i][r].version = Now[r].version => past[i][r] = Now[r]
  BY <1>2 DEF HistoryGrows
<1>6. past[i][r].version \in Nat /\ Now[r].version \in Nat
  BY <1>3 DEF Source
<1> QED
  BY <1>1, <1>4, <1>5, <1>6

(* What was outdated stays so, and the issue stays there. *)
LEMMA ViewKept ==
  ASSUME TypeOK, TypeOK', Growing, RequestsBacked, NEW h \in Handlers, NEW q \in Request, q = req[h], ViewOK(q)
  PROVE  ViewOK(q)'
<1> SUFFICES ASSUME q.kind \in {"view", "found"}, q.outdated # 0
             PROVE  ViewOK(q)'
  BY DEF ViewOK
<1>1. PICK s \in Scopes : s = q.scope
  BY DEF Request
<1>2. Continues(issues[s], issues'[s])
  BY DEF Growing
<1>3. PICK k, d : /\ k = q.outdated /\ k \in DOMAIN issues[s]
                  /\ d = issues[s][k].document /\ OutdatedSince(d, q)
  BY <1>1 DEF ViewOK
<1>4. issues[s] \in Seq(Issue) /\ DOMAIN issues[s] = 1 .. Len(issues[s]) /\ Len(issues[s]) \in Nat
  BY <1>1 DEF TypeOK
<1>5. issues'[s][k].document = d
  BY <1>2, <1>3 DEF Continues
<1>6. q.from \in DOMAIN past /\ (q.kind = "found" /\ q.standing # "none" => q.latest \in DOMAIN issues[s])
  BY <1>1 DEF RequestsBacked, Backed
<1>7. OutdatedSince(d, q)'
  <2>1. past'[q.from] = past[q.from]
    BY <1>6 DEF Growing
  <2>2. \A i \in DOMAIN overrides : i \in DOMAIN overrides' /\ overrides'[i] = overrides[i]
    <3>1. DOMAIN overrides = 1 .. Len(overrides) /\ Len(overrides) \in Nat
      BY DEF TypeOK
    <3>2. DOMAIN overrides' = 1 .. Len(overrides') /\ Len(overrides') \in Nat
      BY DEF TypeOK
    <3> QED
      BY <3>1, <3>2 DEF Growing
  <2> QED
    BY <1>3, <2>1, <2>2 DEF OutdatedSince
<1>8. q.outdated \in DOMAIN issues'[s]
  <2>1. DOMAIN issues'[s] = 1 .. Len(issues'[s]) /\ Len(issues'[s]) \in Nat
    BY <1>1 DEF TypeOK
  <2> QED
    BY <1>2, <1>3, <1>4, <2>1 DEF Continues
<1>9. q.kind = "found" =>
        /\ q.standing # "none"
        /\ q.outdated <= q.latest
        /\ q.standing # "ready" => issues'[s][q.latest].standing # "ready"
  BY <1>1, <1>2, <1>4, <1>6 DEF ViewOK, Continues
<1> QED
  BY <1>1, <1>3, <1>5, <1>7, <1>8, <1>9 DEF ViewOK

(* A view that begins. *)
LEMMA ViewStarts ==
  ASSUME TypeOK, HistoryGrows, IssueWasTrue, NEW h \in Handlers, NEW s \in Scopes, StartView(h, s)
  PROVE  \A q : req'[h] = q => ViewOK(q)'
<1>1. PICK e, p, n, o :
        /\ e = LatestEvaluation(s).at /\ p = profile /\ n = clock
        /\ o = IF issues[s] # << >> /\ Outdated(LastIssue(s).document) THEN Len(issues[s]) ELSE 0
  OBVIOUS
<1>2. PICK f, k : f = Len(past) /\ k = Len(overrides)
  OBVIOUS
<1>3. PICK q : q = [Idle EXCEPT !.kind = "view", !.scope = s, !.eval = e, !.profile = p, !.now = n,
                                !.outdated = o, !.from = f, !.known = k]
  OBVIOUS
<1>4. req' = [req EXCEPT ![h] = q] /\ UNCHANGED <<past, overrides, issues>>
  BY <1>1, <1>2, <1>3 DEF StartView, Begin, records
<1>5. req'[h] = q
  BY <1>4 DEF TypeOK
<1>6. q.kind = "view" /\ q.scope = s /\ q.now = clock /\ q.from = Len(past) /\ q.outdated = o
  BY <1>1, <1>2, <1>3 DEF Idle
<1>7. ASSUME o # 0
      PROVE  /\ o \in DOMAIN issues[s]
             /\ \A d : d = issues[s][o].document => OutdatedSince(d, q)
  <2>1. /\ issues[s] # << >> /\ Outdated(LastIssue(s).document) /\ o = Len(issues[s])
        /\ LastIssue(s) = issues[s][o]
    BY <1>1, <1>7 DEF LastIssue
  <2>2. o \in DOMAIN issues[s]
    BY <2>1 DEF TypeOK
  <2>3. PICK d : d = issues[s][o].document /\ Outdated(d)
    BY <2>1
  <2>4. CASE d.pins # Now
    <3>1. \E r \in Rules : d.pins[r].version < Now[r].version
      BY <2>2, <2>3, <2>4, FrozenPins
    <3> QED
      BY <1>6, <2>2, <2>3, <3>1 DEF OutdatedSince, Now
  <2>5. CASE \E i \in DOMAIN overrides :
               overrides[i].at \in {d.frozen[r] : r \in Rules} /\ overrides[i].expires \in 1 .. clock
    BY <1>6, <2>2, <2>3, <2>5 DEF OutdatedSince
  <2> QED
    BY <2>3, <2>4, <2>5 DEF Outdated
<1>8. ViewOK(q)
  BY <1>6, <1>7 DEF ViewOK
<1>9. ViewOK(q)'
  BY <1>4, <1>8 DEF ViewOK, OutdatedSince
<1> QED
  BY <1>5, <1>9

(* A view that reads the latest issue. *)
LEMMA ViewReads ==
  ASSUME TypeOK, NEW h \in Handlers, \A q : req[h] = q => ViewOK(q), ReadIssue(h)
  PROVE  \A q : req'[h] = q => ViewOK(q)'
<1>1. PICK q \in Request : q = req[h] /\ ViewOK(q) /\ q.kind = "view"
  BY DEF TypeOK, ReadIssue
<1>2. PICK s \in Scopes : s = q.scope
  BY DEF Request
<1>3. PICK l, st : /\ l = Len(issues[s])
                   /\ st = IF issues[s] = << >> THEN "none" ELSE LastIssue(s).standing
  OBVIOUS
<1>4. PICK x : x = [q EXCEPT !.kind = "found", !.latest = l, !.standing = st]
  OBVIOUS
<1>5. req' = [req EXCEPT ![h] = x] /\ UNCHANGED <<past, overrides, issues>>
  BY <1>1, <1>2, <1>3, <1>4 DEF ReadIssue, records, TypeOK
<1>6. req'[h] = x
  BY <1>5 DEF TypeOK
<1>7. /\ x.kind = "found" /\ x.scope = s /\ x.from = q.from /\ x.now = q.now
      /\ x.outdated = q.outdated /\ x.latest = l /\ x.standing = st
  BY <1>1, <1>2, <1>4 DEF Request
<1>8. ASSUME q.outdated # 0
      PROVE  /\ q.outdated \in DOMAIN issues[s] /\ OutdatedSince(issues[s][q.outdated].document, x)
             /\ st # "none" /\ q.outdated <= l /\ (st # "ready" => issues[s][l].standing # "ready")
  <2>1. q.outdated \in DOMAIN issues[s] /\ OutdatedSince(issues[s][q.outdated].document, q)
    BY <1>1, <1>2, <1>8 DEF ViewOK
  <2>2. issues[s] \in Seq(Issue) /\ DOMAIN issues[s] = 1 .. Len(issues[s]) /\ Len(issues[s]) \in Nat
    BY DEF TypeOK
  <2>3. issues[s] # << >> /\ Len(issues[s]) \in DOMAIN issues[s]
    BY <2>1, <2>2
  <2>4. st = issues[s][l].standing
    BY <1>3, <2>3 DEF LastIssue
  <2>5. issues[s][l] \in Issue
    BY <1>3, <2>2, <2>3
  <2>6. st # "none"
    BY <2>4, <2>5 DEF Issue
  <2>7. OutdatedSince(issues[s][q.outdated].document, x)
    BY <1>7, <2>1 DEF OutdatedSince
  <2> QED
    BY <1>3, <2>1, <2>2, <2>4, <2>6, <2>7
<1>9. ViewOK(x)
  BY <1>7, <1>8 DEF ViewOK
<1>10. ViewOK(x)'
  BY <1>5, <1>9 DEF ViewOK, OutdatedSince
<1> QED
  BY <1>6, <1>10

LEMMA ViewStep ==
  ASSUME IndInv, ViewInv, [Next]_vars
  PROVE  ViewInv'
<1>0. TypeOK /\ Times /\ RequestsBacked /\ HistoryGrows /\ IssueWasTrue /\ Chains
  BY DEF IndInv
<1>1. Growing /\ TypeOK' /\ OverrideTimes'
  BY <1>0, Grows, TypeStep, OverrideTimesStep DEF ViewInv
<1>2. ASSUME NEW g \in Handlers, req'[g] = req[g] PROVE \A q : req'[g] = q => ViewOK(q)'
  <2>1. PICK q \in Request : q = req[g] /\ ViewOK(q)
    BY <1>0 DEF TypeOK, ViewInv
  <2>2. ViewOK(q)'
    BY <1>0, <1>1, <2>1, ViewKept
  <2> QED
    BY <1>2, <2>1, <2>2
<1>3. ASSUME NEW q, q.kind \notin {"view", "found"} PROVE ViewOK(q)'
  BY <1>3 DEF ViewOK
<1>4. ASSUME NEW h \in Handlers, NEW x, req' = [req EXCEPT ![h] = x], ViewOK(x)'
      PROVE  \A g \in Handlers : \A q : req'[g] = q => ViewOK(q)'
  <2>1. req'[h] = x /\ \A g \in Handlers : g # h => req'[g] = req[g]
    BY <1>0, <1>4 DEF TypeOK
  <2> QED
    BY <1>2, <1>4, <2>1
<1>5. ASSUME NEW h \in Handlers, End(h)
      PROVE  \A g \in Handlers : \A q : req'[g] = q => ViewOK(q)'
  <2>1. PICK x : x = Idle
    OBVIOUS
  <2>2. x.kind \notin {"view", "found"}
    BY <2>1 DEF Idle
  <2> QED
    BY <1>3, <1>4, <1>5, <2>1, <2>2 DEF End
<1>6. ASSUME NEW h \in Handlers, NEW s \in Scopes, Start(h, s)
      PROVE  \A g \in Handlers : \A q : req'[g] = q => ViewOK(q)'
  <2>1. CASE StartView(h, s)
    <3>1. \A q : req'[h] = q => ViewOK(q)'
      BY <1>0, <2>1, ViewStarts
    <3>2. \A g \in Handlers : g # h => req'[g] = req[g]
      BY <1>0, <1>6, StartType, BeginType
    <3> QED
      BY <1>2, <3>1, <3>2
  <2>2. CASE ~StartView(h, s)
    <3>1. \A g \in Handlers : g # h => req'[g] = req[g]
      BY <1>0, <1>6, StartType, BeginType
    <3>2. req'[h].kind \notin {"view", "found"}
      <4>1. ASSUME NEW r, Begin(h, r), r.kind \notin {"view", "found"}, DOMAIN r = DOMAIN Idle
            PROVE  req'[h].kind \notin {"view", "found"}
        BY <1>0, <4>1 DEF Begin, TypeOK, Idle
      <4>2. StartEvaluate(h, s) \/ FindNoProfile(h, s) \/ StartIssue(h, s) \/ \E r \in Rules : StartOverride(h, s, r)
        BY <1>6, <2>2 DEF Start
      <4> QED
        BY <4>1, <4>2 DEF StartEvaluate, FindNoProfile, StartIssue, StartOverride, Evaluating, Idle
    <3>3. \A q : req'[h] = q => ViewOK(q)'
      BY <1>3, <3>2
    <3> QED
      BY <1>2, <3>1, <3>3
  <2> QED
    BY <2>1, <2>2
<1>7. ASSUME NEW h \in Handlers, Step(h)
      PROVE  \A g \in Handlers : \A q : req'[g] = q => ViewOK(q)'
  <2>1. req[h] \in Request
    BY <1>0 DEF TypeOK
  <2>2. CASE Provision(h)
    <3>1. PICK x : /\ x = [Evaluating(req[h].scope, profile + 1) EXCEPT
                             !.from = Len(past), !.known = Len(overrides)]
                   /\ req' = [req EXCEPT ![h] = x]
      BY <2>2 DEF Provision
    <3>2. x.kind \notin {"view", "found"}
      BY <3>1 DEF Evaluating, Idle
    <3> QED
      BY <1>3, <1>4, <3>1, <3>2
  <2>3. CASE DecideIssue(h)
    <3>1. PICK k, l : req' = [req EXCEPT ![h] = [req[h] EXCEPT !.kind = "publish", !.known = k, !.latest = l]]
      BY <1>0, <2>3 DEF DecideIssue, TypeOK
    <3>2. PICK x : x = [req[h] EXCEPT !.kind = "publish", !.known = k, !.latest = l]
      OBVIOUS
    <3>3. x.kind \notin {"view", "found"}
      BY <2>1, <3>2 DEF Request
    <3> QED
      BY <1>3, <1>4, <3>1, <3>2, <3>3
  <2>4. CASE ReadIssue(h)
    <3>1. \A q : req[h] = q => ViewOK(q)
      BY DEF ViewInv
    <3>2. \A q : req'[h] = q => ViewOK(q)'
      BY <1>0, <2>4, <3>1, ViewReads
    <3>3. \A g \in Handlers : g # h => req'[g] = req[g]
      BY <1>0, <2>4 DEF ReadIssue, TypeOK
    <3> QED
      BY <1>2, <3>2, <3>3
  <2>5. CASE \/ CommitEvaluate(h) \/ CommitIssue(h) \/ EndView(h) \/ CommitView(h) \/ Drop(h)
             \/ \E life \in 0 .. 1 : CommitOverride(h, life)
    BY <1>5, <2>5 DEF CommitEvaluate, CommitIssue, EndView, CommitView, Drop, CommitOverride
  <2> QED
    BY <1>7, <2>2, <2>3, <2>4, <2>5 DEF Step
<1>8. UNCHANGED req => \A g \in Handlers : \A q : req'[g] = q => ViewOK(q)'
  BY <1>2
<1>9. \A g \in Handlers : \A q : req'[g] = q => ViewOK(q)'
  BY <1>6, <1>7, <1>8 DEF Next, vars, Edit, SetDay, Tick
<1>10. \A g \in Handlers : ViewOK(req[g])'
  BY <1>9 DEF ViewOK
<1> QED
  BY <1>1, <1>10 DEF ViewInv

(* An override that expired is not the one a result rests on. *)
LEMMA ExpiredOverride ==
  ASSUME TypeOK, Times, OverrideTimes, NEW s, NEW n \in Nat, n <= Len(overrides), NEW p, NEW r,
         NEW now \in Nat, NEW i \in DOMAIN overrides, overrides[i].expires \in 1 .. now
  PROVE  ActiveOverride(OverridesOf(s, n), p, r, now) # overrides[i].at
<1> DEFINE active == ActiveOverrides(OverridesOf(s, n), p, r, now)
<1>1. \A o \in active : o.at \in Nat /\ o.at <= clock
  BY OverridesType DEF ActiveOverrides
<1>2. CASE active = {}
  BY <1>2 DEF ActiveOverride, OverrideTimes
<1>3. CASE active # {}
  <2>1. clock \in Nat
    BY DEF TypeOK
  <2>2. \E o \in active : \A q \in active : q.at <= o.at
    <3> HIDE DEF active
    <3> QED
      BY <1>1, <1>3, <2>1, NewestExists
  <2>3. PICK o \in active : ActiveOverride(OverridesOf(s, n), p, r, now) = o.at
    BY <1>3, <2>2 DEF ActiveOverride
  <2>4. PICK j \in 1 .. n : o = overrides[j] /\ (o.expires = 0 \/ o.expires > now)
    BY <2>3 DEF ActiveOverrides, OverridesOf
  <2>5. j \in DOMAIN overrides
    BY DEF TypeOK
  <2>6. j # i
    BY <2>4
  <2> QED
    BY <2>3, <2>4, <2>5, <2>6 DEF OverrideTimes
<1> QED
  BY <1>2, <1>3

(* Whoever began to look at an outdated document finds a reason. *)
LEMMA ReasonFound ==
  ASSUME TypeOK, Times, RequestsBacked, HistoryGrows, OverrideTimes,
         NEW h \in Handlers, req[h].kind = "found", NEW d \in Document, OutdatedSince(d, req[h]),
         NEW seen \in Readings(req[h]), NEW n \in req[h].known .. Len(overrides), NEW ep
  PROVE  StaleReasons(d, seen, req[h].profile, OverridesOf(req[h].scope, n), ep, req[h].now) # {}
<1>1. PICK q \in Request : q = req[h]
  BY DEF TypeOK
<1>2. CASE \E r \in Rules : d.pins[r].version < past[q.from][r].version
  <2>1. PICK r \in Rules : d.pins[r].version < past[q.from][r].version
    BY <1>2
  <2>2. /\ q.from \in DOMAIN past /\ q.from \in Nat /\ DOMAIN past = 1 .. Len(past) /\ Len(past) \in Nat
        /\ seen \in [Rules -> Source]
    BY <1>1, FromType, ReadingsType
  <2>3. PICK i \in q.from .. Len(past) : seen[r] = past[i][r]
    BY <1>1, ReadingsType
  <2>4. past[q.from][r].version <= past[i][r].version
    BY <2>2, <2>3 DEF HistoryGrows
  <2>5. past[q.from] \in [Rules -> Source] /\ d.pins \in [Rules -> Source]
    BY <2>2 DEF TypeOK, Document
  <2>6. past[q.from][r].version \in Nat /\ d.pins[r].version \in Nat /\ seen[r].version \in Nat
    BY <2>2, <2>5 DEF Source
  <2>7. seen[r] # d.pins[r]
    BY <2>1, <2>3, <2>4, <2>6
  <2>8. <<"gone", r>> \in Changed(d.pins, d.profile, seen, q.profile)
        \/ <<"source", r>> \in Changed(d.pins, d.profile, seen, q.profile)
    BY <2>7 DEF Changed
  <2> QED
    BY <1>1, <2>8 DEF StaleReasons
<1>3. CASE \E r \in Rules : \E i \in DOMAIN overrides :
             overrides[i].at = d.frozen[r] /\ overrides[i].expires \in 1 .. q.now
  <2>1. PICK r \in Rules, i \in DOMAIN overrides :
          overrides[i].at = d.frozen[r] /\ overrides[i].expires \in 1 .. q.now
    BY <1>3
  <2>2. d.frozen[r] # 0
    BY <2>1 DEF OverrideTimes
  <2>3. n \in Nat /\ n <= Len(overrides) /\ q.now \in Nat
    BY <1>1 DEF TypeOK, Request
  <2>4. ActiveOverride(OverridesOf(q.scope, n), ep, r, q.now) # d.frozen[r]
    BY <2>1, <2>3, ExpiredOverride
  <2>5. <<"override", r>> \in StaleReasons(d, seen, q.profile, OverridesOf(q.scope, n), ep, q.now)
    BY <2>2, <2>4 DEF StaleReasons
  <2> QED
    BY <1>1, <2>5
<1> QED
  BY <1>1, <1>2, <1>3 DEF OutdatedSince

(* The answer is given, and the issue that was outdated is not ready. *)
LEMMA FoundOutdated ==
  ASSUME IndInv, ViewInv, [Next]_vars, NEW h \in Handlers, EndView(h) \/ CommitView(h),
         NEW k, k \in DOMAIN issues'[req[h].scope], k = req[h].outdated
  PROVE  issues'[req[h].scope][k].standing # "ready"
<1>0. TypeOK /\ Times /\ RequestsBacked /\ HistoryGrows /\ Chains /\ Growing /\ TypeOK' /\ OverrideTimes
  BY Grows, TypeStep DEF IndInv, ViewInv
<1>1. PICK q \in Request : q = req[h] /\ q.kind = "found" /\ ViewOK(q)
  BY <1>0 DEF TypeOK, ViewInv, EndView, CommitView
<1>2. PICK s \in Scopes : s = q.scope
  BY DEF Request
<1>3. k # 0
  <2>1. DOMAIN issues'[s] = 1 .. Len(issues'[s])
    BY <1>0 DEF TypeOK
  <2> QED
    BY <1>1, <1>2, <2>1
<1>4. /\ k \in DOMAIN issues[s] /\ OutdatedSince(issues[s][k].document, q)
      /\ q.standing # "none" /\ k <= q.latest
      /\ q.standing # "ready" => issues[s][q.latest].standing # "ready"
  BY <1>1, <1>2, <1>3 DEF ViewOK
<1>5. q.latest \in DOMAIN issues[s]
  BY <1>0, <1>1, <1>2, <1>4 DEF RequestsBacked, Backed
<1>6. issues[s] \in Seq(Issue) /\ DOMAIN issues[s] = 1 .. Len(issues[s]) /\ Len(issues[s]) \in Nat
  BY <1>0 DEF TypeOK
<1>7. Continues(issues[s], issues'[s])
  BY <1>0 DEF Growing
<1>8. CASE k < q.latest
  <2>1. issues[s][k].standing = "superseded"
    BY <1>0, <1>4, <1>5, <1>6, <1>8 DEF Chains
  <2> QED
    BY <1>1, <1>2, <1>4, <1>7, <2>1 DEF Continues
<1>9. CASE k = q.latest /\ q.standing # "ready"
  BY <1>1, <1>2, <1>4, <1>7, <1>9 DEF Continues
<1>10. CASE k = q.latest /\ q.standing = "ready"
  <2>1. issues[s][k] \in Issue
    BY <1>4, <1>6
  <2>2. PICK d \in Document : d = issues[s][k].document /\ OutdatedSince(d, q)
    BY <1>4, <2>1 DEF Issue
  <2>3. ASSUME {} \in ViewReasons(q) PROVE FALSE
    <3>1. PICK ep, p, os : ep = EvaluationOf(q.scope, q.eval).profile /\ p = q.profile /\ os = q.scope
      OBVIOUS
    <3>2. PICK seen \in Readings(q), n \in q.known .. Len(overrides) :
            {} = StaleReasons(d, seen, p, OverridesOf(os, n), ep, q.now)
      BY <1>2, <1>10, <2>2, <2>3, <3>1 DEF ViewReasons
    <3>3. StaleReasons(d, seen, req[h].profile, OverridesOf(req[h].scope, n), ep, req[h].now) # {}
      BY <1>0, <1>1, <2>2, <3>2, ReasonFound
    <3> QED
      BY <1>1, <3>1, <3>2, <3>3
  <2>4. ~EndView(h)
    BY <1>1, <1>10, <2>3 DEF EndView, NothingNew
  <2>5. CommitView(h)
    BY <2>4
  <2>6. PICK reasons : issues' = [issues EXCEPT ![s][k] = FoundStale(@, reasons)]
    BY <1>1, <1>2, <1>10, <2>5 DEF CommitView
  <2>7. issues'[s][k] = FoundStale(issues[s][k], reasons)
    BY <1>0, <1>4, <2>6 DEF TypeOK
  <2>8. PICK i \in Issue : i = issues[s][k]
    BY <2>1
  <2>9. FoundStale(i, reasons).standing # "ready"
    BY DEF FoundStale, Issue
  <2> QED
    BY <1>1, <1>2, <2>7, <2>8, <2>9
<1>11. k \in Nat /\ q.latest \in Nat
  BY <1>4, <1>5, <1>6
<1> QED
  BY <1>4, <1>8, <1>9, <1>10, <1>11

LEMMA ViewInit == Init => ViewInv
<1> SUFFICES ASSUME Init PROVE ViewInv
  OBVIOUS
<1>1. \A h \in Handlers : req[h].kind = "idle"
  BY DEF Init, Idle
<1>2. DOMAIN overrides = {}
  BY DEF Init
<1> QED
  BY <1>1, <1>2 DEF ViewInv, OverrideTimes, ViewOK

LEMMA Views == Spec => []ViewInv
<1>1. IndInv /\ ViewInv /\ [Next]_vars => ViewInv'
  BY ViewStep
<1> QED
  BY <1>1, ViewInit, Invariance, PTL DEF Spec

(* Whoever looks at readiness finds what was outdated when he began, although *)
(* each source and the overrides are read at times of their own: a version    *)
(* never comes back, no two overrides are of one time, and what another view  *)
(* or a later issue did to the issue meanwhile makes it no more ready         *)
(* (routes/readiness.ts:252-324, :1521-1648).                                *)
THEOREM OutdatedIsFound == Spec => ViewFindsOutdated
<1> DEFINE A == \A h \in Handlers :
                  EndView(h) \/ CommitView(h) =>
                    \A k \in DOMAIN issues'[req[h].scope] :
                      k = req[h].outdated => issues'[req[h].scope][k].standing # "ready"
<1>1. IndInv /\ ViewInv /\ [Next]_vars => A
  BY FoundOutdated
<1> QED
  BY <1>1, Invariance, Views, PTL DEF Spec, ViewFindsOutdated

-----------------------------------------------------------------------------
(* The verdicts: what a rule makes of a project, and what the two engines  *)
(* make of the same observations and overrides.                            *)

(* What a rule passes, it passes for what is there. *)
Earned(code, p) ==
  Passes(code, p) =>
    /\ ObservationDraft(code, p).present
    /\ \A g \in RegistersOf(p) \ MayBeEmpty : ~Passes(code, Without(p, g))

(* No row makes up for a gap in another one. *)
NoneCovered(code, p) ==
  Passes(code, p) =>
    \A q \in Less(p) : ObservationDraft(code, q).present => Passes(code, q)

(* A rule nobody wrote passes nothing. *)
LEMMA Unknown ==
  ASSUME NEW p, NEW code, code \notin DOMAIN RegistersRead
  PROVE  ObservationDraft(code, p) = Observation(FALSE, FALSE)
BY DEF ObservationDraft, RegistersRead

LEMMA EarnedDevelopment ==
  ASSUME NEW p, DOMAIN p = {"documents"}
  PROVE  Earned("development_approved", p)
<1>1. \A q : ObservationDraft("development_approved", q) = DevelopmentObservation(q)
  BY DEF ObservationDraft
<1>2. DevelopmentObservation(p).satisfied => DevelopmentObservation(p).present
  BY DEF DevelopmentObservation, Observation
<1>3. \A q : q.documents = {} => ~DevelopmentObservation(q).satisfied
  BY DEF DevelopmentObservation, Observation
<1>4. \A g \in RegistersOf(p) \ MayBeEmpty :
        Without(p, g).documents = {}
  BY DEF RegistersOf, Without, MayBeEmpty
<1> QED
  BY <1>1, <1>2, <1>3, <1>4 DEF Earned, Passes

LEMMA EarnedWriting ==
  ASSUME NEW p, DOMAIN p = {"documents", "syncs"}
  PROVE  Earned("writing_approved_synced", p)
<1>1. \A q : ObservationDraft("writing_approved_synced", q) = WritingObservation(q)
  BY DEF ObservationDraft
<1>2. WritingObservation(p).satisfied => WritingObservation(p).present
  BY DEF WritingObservation, Observation
<1>3. \A q : q.documents = {} => ~WritingObservation(q).satisfied
  BY DEF WritingObservation, Observation
<1>4. \A g \in RegistersOf(p) \ MayBeEmpty :
        Without(p, g).documents = {}
  BY DEF RegistersOf, Without, MayBeEmpty
<1> QED
  BY <1>1, <1>2, <1>3, <1>4 DEF Earned, Passes

LEMMA EarnedBreakdown ==
  ASSUME NEW p, DOMAIN p = {"scenes"}
  PROVE  Earned("breakdown_complete", p)
<1>1. \A q : ObservationDraft("breakdown_complete", q) = BreakdownObservation(q)
  BY DEF ObservationDraft
<1>2. BreakdownObservation(p).satisfied => BreakdownObservation(p).present
  BY DEF BreakdownObservation, Observation, AllOfSome
<1>3. \A q : q.scenes = {} => ~BreakdownObservation(q).satisfied
  BY DEF BreakdownObservation, Observation, AllOfSome
<1>4. \A g \in RegistersOf(p) \ MayBeEmpty :
        Without(p, g).scenes = {}
  BY DEF RegistersOf, Without, MayBeEmpty
<1> QED
  BY <1>1, <1>2, <1>3, <1>4 DEF Earned, Passes

LEMMA EarnedCast ==
  ASSUME NEW p, DOMAIN p = {"characters"}
  PROVE  Earned("cast_ready", p)
<1>1. \A q : ObservationDraft("cast_ready", q) = CastObservation(q)
  BY DEF ObservationDraft
<1>2. CastObservation(p).satisfied => CastObservation(p).present
  BY DEF CastObservation, Observation, AllOfSome
<1>3. \A q : q.characters = {} => ~CastObservation(q).satisfied
  BY DEF CastObservation, Observation, AllOfSome
<1>4. \A g \in RegistersOf(p) \ MayBeEmpty :
        Without(p, g).characters = {}
  BY DEF RegistersOf, Without, MayBeEmpty
<1> QED
  BY <1>1, <1>2, <1>3, <1>4 DEF Earned, Passes

LEMMA EarnedCrew ==
  ASSUME NEW p, DOMAIN p = {"crew"}
  PROVE  Earned("crew_ready", p)
<1>1. \A q : ObservationDraft("crew_ready", q) = CrewObservation(q)
  BY DEF ObservationDraft
<1>2. CrewObservation(p).satisfied => CrewObservation(p).present
  BY DEF CrewObservation, Observation, CrewDepartments
<1>3. \A q : q.crew = {} => ~CrewObservation(q).satisfied
  BY DEF CrewObservation, Observation, CrewDepartments
<1>4. \A g \in RegistersOf(p) \ MayBeEmpty :
        Without(p, g).crew = {}
  BY DEF RegistersOf, Without, MayBeEmpty
<1> QED
  BY <1>1, <1>2, <1>3, <1>4 DEF Earned, Passes

LEMMA EarnedLocations ==
  ASSUME NEW p, DOMAIN p = {"locations"}
  PROVE  Earned("locations_ready", p)
<1>1. \A q : ObservationDraft("locations_ready", q) = LocationsObservation(q)
  BY DEF ObservationDraft
<1>2. LocationsObservation(p).satisfied => LocationsObservation(p).present
  BY DEF LocationsObservation, Observation, AllOfSome
<1>3. \A q : q.locations = {} => ~LocationsObservation(q).satisfied
  BY DEF LocationsObservation, Observation, AllOfSome
<1>4. \A g \in RegistersOf(p) \ MayBeEmpty :
        Without(p, g).locations = {}
  BY DEF RegistersOf, Without, MayBeEmpty
<1> QED
  BY <1>1, <1>2, <1>3, <1>4 DEF Earned, Passes

LEMMA EarnedBudget ==
  ASSUME NEW p, DOMAIN p = {"budgets"}
  PROVE  Earned("budget_ready", p)
<1>1. \A q : ObservationDraft("budget_ready", q) = BudgetObservation(q)
  BY DEF ObservationDraft
<1>2. BudgetObservation(p).satisfied => BudgetObservation(p).present
  BY DEF BudgetObservation, Observation
<1>3. \A q : q.budgets = {} => ~BudgetObservation(q).satisfied
  BY DEF BudgetObservation, Observation
<1>4. \A g \in RegistersOf(p) \ MayBeEmpty :
        Without(p, g).budgets = {}
  BY DEF RegistersOf, Without, MayBeEmpty
<1> QED
  BY <1>1, <1>2, <1>3, <1>4 DEF Earned, Passes

LEMMA EarnedLegal ==
  ASSUME NEW p, DOMAIN p = {"requirements", "now"}
  PROVE  Earned("legal_rights_clearance", p)
<1>1. \A q : ObservationDraft("legal_rights_clearance", q) = LegalObservation(q)
  BY DEF ObservationDraft
<1>2. LegalObservation(p).satisfied => LegalObservation(p).present
  BY DEF LegalObservation, Observation, AllOfSome
<1>3. \A q : q.requirements = {} => ~LegalObservation(q).satisfied
  BY DEF LegalObservation, Observation, AllOfSome
<1>4. \A g \in RegistersOf(p) \ MayBeEmpty :
        Without(p, g).requirements = {}
  BY DEF RegistersOf, Without, MayBeEmpty
<1> QED
  BY <1>1, <1>2, <1>3, <1>4 DEF Earned, Passes

LEMMA EarnedInsurance ==
  ASSUME NEW p, DOMAIN p = {"insurances", "now"}
  PROVE  Earned("insurance_current", p)
<1>1. \A q : ObservationDraft("insurance_current", q) = InsuranceObservation(q)
  BY DEF ObservationDraft
<1>2. InsuranceObservation(p).satisfied => InsuranceObservation(p).present
  BY DEF InsuranceObservation, Observation
<1>3. \A q : q.insurances = {} => ~InsuranceObservation(q).satisfied
  BY DEF InsuranceObservation, Observation
<1>4. \A g \in RegistersOf(p) \ MayBeEmpty :
        Without(p, g).insurances = {}
  BY DEF RegistersOf, Without, MayBeEmpty
<1> QED
  BY <1>1, <1>2, <1>3, <1>4 DEF Earned, Passes

LEMMA EarnedSafety ==
  ASSUME NEW p, DOMAIN p = {"risks", "plans", "hazards"}
  PROVE  Earned("safety_ready", p)
<1>1. \A q : ObservationDraft("safety_ready", q) = SafetyObservation(q)
  BY DEF ObservationDraft
<1>2. SafetyObservation(p).satisfied => SafetyObservation(p).present
  BY DEF SafetyObservation, Observation, AllOfSome
<1>3. \A q : q.risks = {} \/ q.plans = {} \/ q.hazards = {} => ~SafetyObservation(q).satisfied
  BY DEF SafetyObservation, Observation, AllOfSome
<1>4. \A g \in RegistersOf(p) \ MayBeEmpty :
        Without(p, g).risks = {} \/ Without(p, g).plans = {} \/ Without(p, g).hazards = {}
  BY DEF RegistersOf, Without, MayBeEmpty
<1> QED
  BY <1>1, <1>2, <1>3, <1>4 DEF Earned, Passes

LEMMA EarnedEquipment ==
  ASSUME NEW p, DOMAIN p = {"reservations", "conflicts", "day"}
  PROVE  Earned("equipment_ready", p)
<1>1. \A q : ObservationDraft("equipment_ready", q) = EquipmentObservation(q)
  BY DEF ObservationDraft
<1>2. EquipmentObservation(p).satisfied => EquipmentObservation(p).present
  BY DEF EquipmentObservation, Observation, AllOfSome
<1>3. \A q : q.reservations = {} => ~EquipmentObservation(q).satisfied
  BY DEF EquipmentObservation, Observation, AllOfSome
<1>4. \A g \in RegistersOf(p) \ MayBeEmpty :
        Without(p, g).reservations = {}
  BY DEF RegistersOf, Without, MayBeEmpty
<1> QED
  BY <1>1, <1>2, <1>3, <1>4 DEF Earned, Passes

LEMMA EarnedResources ==
  ASSUME NEW p, DOMAIN p = {"elements"}
  PROVE  Earned("department_resources_ready", p)
<1>1. \A q : ObservationDraft("department_resources_ready", q) = DepartmentResourcesObservation(q)
  BY DEF ObservationDraft
<1>2. DepartmentResourcesObservation(p).satisfied => DepartmentResourcesObservation(p).present
  BY DEF DepartmentResourcesObservation, Observation, AllOfSome
<1>3. \A q : q.elements = {} => ~DepartmentResourcesObservation(q).satisfied
  BY DEF DepartmentResourcesObservation, Observation, AllOfSome
<1>4. \A g \in RegistersOf(p) \ MayBeEmpty :
        Without(p, g).elements = {}
  BY DEF RegistersOf, Without, MayBeEmpty
<1> QED
  BY <1>1, <1>2, <1>3, <1>4 DEF Earned, Passes

LEMMA EarnedLogistics ==
  ASSUME NEW p, DOMAIN p = {"logistics"}
  PROVE  Earned("logistics_ready", p)
<1>1. \A q : ObservationDraft("logistics_ready", q) = LogisticsObservation(q)
  BY DEF ObservationDraft
<1>2. LogisticsObservation(p).satisfied => LogisticsObservation(p).present
  BY DEF LogisticsObservation, Observation
<1>3. \A q : q.logistics = {} => ~LogisticsObservation(q).satisfied
  BY DEF LogisticsObservation, Observation
<1>4. \A g \in RegistersOf(p) \ MayBeEmpty :
        Without(p, g).logistics = {}
  BY DEF RegistersOf, Without, MayBeEmpty
<1> QED
  BY <1>1, <1>2, <1>3, <1>4 DEF Earned, Passes

LEMMA EarnedSchedule ==
  ASSUME NEW p, DOMAIN p = {"schedules", "days", "conflicts", "day"}
  PROVE  Earned("schedule_ready", p)
<1>1. \A q : ObservationDraft("schedule_ready", q) = ScheduleObservation(q)
  BY DEF ObservationDraft
<1>2. ScheduleObservation(p).satisfied => ScheduleObservation(p).present
  BY DEF ScheduleObservation, Observation
<1>3. \A q : q.schedules = {} \/ q.days = {} => ~ScheduleObservation(q).satisfied
  BY DEF ScheduleObservation, Observation
<1>4. \A g \in RegistersOf(p) \ MayBeEmpty :
        Without(p, g).schedules = {} \/ Without(p, g).days = {}
  BY DEF RegistersOf, Without, MayBeEmpty
<1> QED
  BY <1>1, <1>2, <1>3, <1>4 DEF Earned, Passes

LEMMA EarnedVisual ==
  ASSUME NEW p, DOMAIN p = {"plans", "shots"}
  PROVE  Earned("visual_plan_ready", p)
<1>1. \A q : ObservationDraft("visual_plan_ready", q) = VisualObservation(q)
  BY DEF ObservationDraft
<1>2. VisualObservation(p).satisfied => VisualObservation(p).present
  BY DEF VisualObservation, Observation, AllOfSome, VisualKinds
<1>3. \A q : q.plans = {} \/ q.shots = {} => ~VisualObservation(q).satisfied
  BY DEF VisualObservation, Observation, AllOfSome, VisualKinds
<1>4. \A g \in RegistersOf(p) \ MayBeEmpty :
        Without(p, g).plans = {} \/ Without(p, g).shots = {}
  BY DEF RegistersOf, Without, MayBeEmpty
<1> QED
  BY <1>1, <1>2, <1>3, <1>4 DEF Earned, Passes

LEMMA EarnedIssued ==
  ASSUME NEW p, DOMAIN p = {"issues", "day"}
  PROVE  Earned("issued_documents_ready", p)
<1>1. \A q : ObservationDraft("issued_documents_ready", q) = IssuedDocumentsObservation(q)
  BY DEF ObservationDraft
<1>2. IssuedDocumentsObservation(p).satisfied => IssuedDocumentsObservation(p).present
  BY DEF IssuedDocumentsObservation, Observation
<1>3. \A q : q.issues = {} => ~IssuedDocumentsObservation(q).satisfied
  BY DEF IssuedDocumentsObservation, Observation
<1>4. \A g \in RegistersOf(p) \ MayBeEmpty :
        Without(p, g).issues = {}
  BY DEF RegistersOf, Without, MayBeEmpty
<1> QED
  BY <1>1, <1>2, <1>3, <1>4 DEF Earned, Passes

LEMMA EarnedArchive ==
  ASSUME NEW p, DOMAIN p = {"snapshots"}
  PROVE  Earned("archive_integrity", p)
<1>1. \A q : ObservationDraft("archive_integrity", q) = ArchiveObservation(q)
  BY DEF ObservationDraft
<1>2. ArchiveObservation(p).satisfied => ArchiveObservation(p).present
  BY DEF ArchiveObservation, Observation
<1>3. \A q : q.snapshots = {} => ~ArchiveObservation(q).satisfied
  BY DEF ArchiveObservation, Observation
<1>4. \A g \in RegistersOf(p) \ MayBeEmpty :
        Without(p, g).snapshots = {}
  BY DEF RegistersOf, Without, MayBeEmpty
<1> QED
  BY <1>1, <1>2, <1>3, <1>4 DEF Earned, Passes

LEMMA EarnedHolds ==
  ASSUME NEW p, DOMAIN p = {"holds", "id"}
  PROVE  Earned("legal_hold", p)
<1>1. ObservationDraft("legal_hold", p) = LegalHoldObservation(p)
  BY DEF ObservationDraft
<1>2. LegalHoldObservation(p).present
  BY DEF LegalHoldObservation, Observation
<1>3. RegistersOf(p) \ MayBeEmpty = {}
  BY DEF RegistersOf, MayBeEmpty
<1> QED
  BY <1>1, <1>2, <1>3 DEF Earned

LEMMA EarnedUsers ==
  ASSUME NEW p, DOMAIN p = {"users"}
  PROVE  Earned("workspace_security", p)
<1>1. \A q : ObservationDraft("workspace_security", q) = WorkspaceSecurityObservation(q)
  BY DEF ObservationDraft
<1>2. WorkspaceSecurityObservation(p).present
  BY DEF WorkspaceSecurityObservation, Observation
<1>3. ASSUME NEW q, q.users = {} PROVE ~WorkspaceSecurityObservation(q).satisfied
  <2>1. Cardinality({u \in q.users : u.active}) # 3
    <3>1. {u \in q.users : u.active} = {}
      BY <1>3
    <3> QED
      BY <3>1, FS_EmptySet
  <2> QED
    BY <2>1 DEF WorkspaceSecurityObservation, Observation
<1>4. \A g \in RegistersOf(p) \ MayBeEmpty : Without(p, g).users = {}
  BY DEF RegistersOf, Without
<1> QED
  BY <1>1, <1>2, <1>3, <1>4 DEF Earned, Passes

(* A project one row away has the registers, but for that row. *)
LEMMA OneRowLess ==
  ASSUME NEW p, NEW q \in Less(p)
  PROVE  \E g \in RegistersOf(p) : \E r \in p[g] : q = [p EXCEPT ![g] = @ \ {r}]
BY DEF Less

LEMMA BreakdownNotCovered ==
  ASSUME NEW p, DOMAIN p = {"scenes"}
  PROVE  NoneCovered("breakdown_complete", p)
<1>1. \A q : ObservationDraft("breakdown_complete", q) = BreakdownObservation(q)
  BY DEF ObservationDraft
<1>2. \A q \in Less(p) : q.scenes \subseteq p.scenes
  BY DEF Less, RegistersOf
<1>3. ASSUME NEW q, BreakdownObservation(p).satisfied, q.scenes \subseteq p.scenes,
             BreakdownObservation(q).present
      PROVE  BreakdownObservation(q).satisfied
  <2> DEFINE Ready(s) == s.readiness = "ready" /\ s.status \in Complete /\ s.source = s.revision
  <2>1. \A s \in p.scenes : ~s.omitted => Ready(s)
    BY <1>3 DEF BreakdownObservation, Observation, AllOfSome
  <2>2. {s \in q.scenes : ~s.omitted} # {}
    BY <1>3 DEF BreakdownObservation, Observation
  <2>3. \A s \in q.scenes : ~s.omitted => Ready(s)
    BY <1>3, <2>1
  <2> QED
    BY <2>2, <2>3 DEF BreakdownObservation, Observation, AllOfSome
<1> QED
  BY <1>1, <1>2, <1>3 DEF NoneCovered, Passes

LEMMA CastNotCovered ==
  ASSUME NEW p, DOMAIN p = {"characters"}
  PROVE  NoneCovered("cast_ready", p)
<1>1. \A q : ObservationDraft("cast_ready", q) = CastObservation(q)
  BY DEF ObservationDraft
<1>2. \A q \in Less(p) : q.characters \subseteq p.characters
  BY DEF Less, RegistersOf
<1>3. ASSUME NEW q, CastObservation(p).satisfied, q.characters \subseteq p.characters,
             CastObservation(q).present
      PROVE  CastObservation(q).satisfied
  <2> DEFINE Ready(c) == \E a \in c.assignments :
               /\ a.status \in {"booked", "confirmed"} /\ a.confirmed
               /\ a.requirement \in Complete
               /\ a.signed \in {"signed", "executed", "complete", "completed"}
  <2>1. \A c \in p.characters : c.speaking => Ready(c)
    BY <1>3 DEF CastObservation, Observation, AllOfSome
  <2>2. {c \in q.characters : c.speaking} # {}
    BY <1>3 DEF CastObservation, Observation
  <2>3. \A c \in q.characters : c.speaking => Ready(c)
    BY <1>3, <2>1
  <2> QED
    BY <2>2, <2>3 DEF CastObservation, Observation, AllOfSome
<1> QED
  BY <1>1, <1>2, <1>3 DEF NoneCovered, Passes

LEMMA ResourcesNotCovered ==
  ASSUME NEW p, DOMAIN p = {"elements"}
  PROVE  NoneCovered("department_resources_ready", p)
<1>1. \A q : ObservationDraft("department_resources_ready", q) = DepartmentResourcesObservation(q)
  BY DEF ObservationDraft
<1>2. \A q \in Less(p) : q.elements \subseteq p.elements
  BY DEF Less, RegistersOf
<1>3. ASSUME NEW q, DepartmentResourcesObservation(p).satisfied, q.elements \subseteq p.elements,
             DepartmentResourcesObservation(q).present
      PROVE  DepartmentResourcesObservation(q).satisfied
  <2> DEFINE Tracked(e) == e.category \in {"props", "wardrobe", "hair_makeup", "set_dressing"}
             Ready(e) == {e.status, e.procurement} \cup e.records \subseteq ResourceReady
  <2>1. \A e \in p.elements : Tracked(e) => Ready(e)
    BY <1>3 DEF DepartmentResourcesObservation, Observation, AllOfSome
  <2>2. {e \in q.elements : Tracked(e)} # {}
    BY <1>3 DEF DepartmentResourcesObservation, Observation
  <2>3. \A e \in q.elements : Tracked(e) => Ready(e)
    BY <1>3, <2>1
  <2> QED
    BY <2>2, <2>3 DEF DepartmentResourcesObservation, Observation, AllOfSome
<1> QED
  BY <1>1, <1>2, <1>3 DEF NoneCovered, Passes

LEMMA HoldsNotCovered ==
  ASSUME NEW p, DOMAIN p = {"holds", "id"}
  PROVE  NoneCovered("legal_hold", p)
<1>1. \A q : ObservationDraft("legal_hold", q) = LegalHoldObservation(q)
  BY DEF ObservationDraft
<1>2. \A q \in Less(p) : q.holds \subseteq p.holds /\ q.id = p.id
  BY DEF Less, RegistersOf
<1>3. \A q : LegalHoldObservation(p).satisfied /\ q.holds \subseteq p.holds /\ q.id = p.id =>
               LegalHoldObservation(q).satisfied
  BY DEF LegalHoldObservation, Observation
<1> QED
  BY <1>1, <1>2, <1>3 DEF NoneCovered, Passes

LEMMA EquipmentNotCovered ==
  ASSUME NEW p, DOMAIN p = {"reservations", "conflicts", "day"}
  PROVE  NoneCovered("equipment_ready", p)
<1>1. \A q : ObservationDraft("equipment_ready", q) = EquipmentObservation(q)
  BY DEF ObservationDraft
<1>2. \A q \in Less(p) : /\ q.reservations \subseteq p.reservations
                         /\ q.conflicts \subseteq p.conflicts /\ q.day = p.day
  BY DEF Less, RegistersOf
<1>3. \A q : q.conflicts \subseteq p.conflicts /\ q.day = p.day => OpenBlockers(q) \subseteq OpenBlockers(p)
  BY DEF OpenBlockers
<1>4. ASSUME NEW q, EquipmentObservation(p).satisfied, q.reservations \subseteq p.reservations,
             OpenBlockers(q) \subseteq OpenBlockers(p), EquipmentObservation(q).present
      PROVE  EquipmentObservation(q).satisfied
  <2> DEFINE Ready(r) ==
               /\ r.status \in {"confirmed", "ready", "reserved"}
               /\ r.equipment \in {"active", "available", "ready", "reserved"}
               /\ ConditionRecorded(r)
  <2>1. /\ \A r \in p.reservations : Ready(r)
        /\ ~\E c \in OpenBlockers(p) : c.type = "equipment"
    BY <1>4 DEF EquipmentObservation, Observation, AllOfSome
  <2>2. q.reservations # {}
    BY <1>4 DEF EquipmentObservation, Observation
  <2>3. /\ \A r \in q.reservations : Ready(r)
        /\ ~\E c \in OpenBlockers(q) : c.type = "equipment"
    BY <1>4, <2>1
  <2> QED
    BY <2>2, <2>3 DEF EquipmentObservation, Observation, AllOfSome
<1> QED
  BY <1>1, <1>2, <1>3, <1>4 DEF NoneCovered, Passes

(* The next day completes no requirement. *)
LEMMA StaysExpired ==
  ASSUME NEW p, DOMAIN p = {"requirements", "now"}, p.now \in Nat,
         \A r \in p.requirements : r.expires \in Nat
  PROVE  Passes("legal_rights_clearance", [p EXCEPT !.now = @ + 1]) =>
           Passes("legal_rights_clearance", p)
<1> DEFINE later == [p EXCEPT !.now = @ + 1]
<1>1. \A q : ObservationDraft("legal_rights_clearance", q) = LegalObservation(q)
  BY DEF ObservationDraft
<1>2. later.now = p.now + 1 /\ later.requirements = p.requirements
  OBVIOUS
<1>3. \A r \in p.requirements : RequirementComplete(r, p.now + 1) => RequirementComplete(r, p.now)
  BY DEF RequirementComplete, Unexpired
<1> HIDE DEF later
<1>4. LegalObservation(later).satisfied => LegalObservation(p).satisfied
  BY <1>2, <1>3 DEF LegalObservation, Observation, AllOfSome
<1> QED
  BY <1>1, <1>4 DEF Passes, later

(* A row that a later one follows is not the latest, nor missed as such. *)
LEMMA LatestWithout ==
  ASSUME NEW rows, \A x \in rows : x.at \in Nat, NEW r \in rows, NEW s \in rows, s.at > r.at
  PROVE  Latest(rows \ {r}) = Latest(rows)
<1>1. \A x : (x \in rows \ {r} /\ \A y \in rows \ {r} : y.at <= x.at)
               <=> (x \in rows /\ \A y \in rows : y.at <= x.at)
  <2>1. s \in rows \ {r}
    OBVIOUS
  <2>2. \A x \in rows \ {r} : (\A y \in rows \ {r} : y.at <= x.at) => r.at <= x.at
    BY <2>1
  <2>3. \A x \in rows : (\A y \in rows : y.at <= x.at) => x # r
    OBVIOUS
  <2> QED
    BY <2>2, <2>3
<1> QED
  BY <1>1 DEF Latest

(* What was issued is judged the same without an issue that a later one    *)
(* replaced.                                                               *)
LEMMA IssuedByLatest ==
  ASSUME NEW p, DOMAIN p = {"issues", "day"}, \A i \in p.issues : i.at \in Nat,
         NEW r \in p.issues, NEW s \in p.issues, s.at > r.at, s.kind = r.kind, s.day = r.day
  PROVE  Passes("issued_documents_ready", [p EXCEPT !["issues"] = @ \ {r}])
           = Passes("issued_documents_ready", p)
<1> DEFINE q == [p EXCEPT !["issues"] = @ \ {r}]
           Counts(i) == i.kind = "call_sheet" => p.day \in {Nil, i.day}
           counted == {i \in p.issues : Counts(i)}
           left == {i \in p.issues \ {r} : Counts(i)}
           Of(rows, kind) == {i \in rows : i.kind = kind}
<1>1. \A o : ObservationDraft("issued_documents_ready", o) = IssuedDocumentsObservation(o)
  BY DEF ObservationDraft
<1>2. q.issues = p.issues \ {r} /\ q.day = p.day
  OBVIOUS
<1>3. Counts(r) <=> Counts(s)
  OBVIOUS
<1>4. {i.kind : i \in left} = {i.kind : i \in counted}
  <2>1. left \subseteq counted
    OBVIOUS
  <2>2. \A i \in counted : \E j \in left : j.kind = i.kind
    <3> SUFFICES ASSUME NEW i \in counted PROVE \E j \in left : j.kind = i.kind
      OBVIOUS
    <3>1. CASE i = r
      <4>1. s \in left
        BY <1>3, <3>1
      <4> QED
        BY <4>1, <3>1
    <3>2. CASE i # r
      BY <3>2
    <3> QED
      BY <3>1, <3>2
  <2> HIDE DEF left, counted
  <2> QED
    BY <2>1, <2>2
<1>5. ASSUME NEW kind PROVE Latest(Of(left, kind)) = Latest(Of(counted, kind))
  <2>1. Of(left, kind) = Of(counted, kind) \ {r}
    OBVIOUS
  <2>2. CASE r \in Of(counted, kind)
    <3>1. s \in Of(counted, kind) /\ \A x \in Of(counted, kind) : x.at \in Nat
      BY <2>2, <1>3
    <3> HIDE DEF Of, counted, left
    <3>2. Latest(Of(counted, kind) \ {r}) = Latest(Of(counted, kind))
      BY <2>2, <3>1, LatestWithout
    <3> QED
      BY <3>2, <2>1
  <2>3. CASE r \notin Of(counted, kind)
    <3>1. Of(left, kind) = Of(counted, kind)
      BY <2>1, <2>3
    <3> QED
      BY <3>1
  <2> QED
    BY <2>2, <2>3
<1> DEFINE Holds(rows) ==
      /\ {"sides", "call_sheet", "pack"} \subseteq {i.kind : i \in rows}
      /\ Latest(Of(rows, "sides")).sourceCurrent
      /\ Latest(Of(rows, "call_sheet")).sourceCurrent
      /\ Latest(Of(rows, "call_sheet")).required > 0
      /\ Latest(Of(rows, "call_sheet")).confirmed = Latest(Of(rows, "call_sheet")).required
<1>6. IssuedDocumentsObservation(p).satisfied = Holds(counted)
  BY DEF IssuedDocumentsObservation, Observation
<1>7. IssuedDocumentsObservation(q).satisfied = Holds(left)
  <2> HIDE DEF q
  <2> QED
    BY <1>2 DEF IssuedDocumentsObservation, Observation
<1>8. Holds(left) = Holds(counted)
  <2> HIDE DEF left, counted, Of
  <2>1. /\ Latest(Of(left, "sides")) = Latest(Of(counted, "sides"))
        /\ Latest(Of(left, "call_sheet")) = Latest(Of(counted, "call_sheet"))
    BY <1>5
  <2> HIDE <1>5
  <2> QED
    BY <1>4, <2>1
<1> QED
  <2> HIDE DEF q, Holds, left, counted
  <2>1. Passes("issued_documents_ready", q) = Passes("issued_documents_ready", p)
    BY <1>1, <1>6, <1>7, <1>8 DEF Passes
  <2> QED
    BY <2>1 DEF q

(* The archive is judged the same without an export that a later one       *)
(* followed.                                                               *)
LEMMA ArchivedByLatest ==
  ASSUME NEW p, DOMAIN p = {"snapshots"}, \A i \in p.snapshots : i.at \in Nat,
         NEW r \in p.snapshots, NEW s \in p.snapshots, s.at > r.at
  PROVE  Passes("archive_integrity", [p EXCEPT !["snapshots"] = @ \ {r}])
           = Passes("archive_integrity", p)
<1> DEFINE q == [p EXCEPT !["snapshots"] = @ \ {r}]
<1>1. \A o : ObservationDraft("archive_integrity", o) = ArchiveObservation(o)
  BY DEF ObservationDraft
<1>2. q.snapshots = p.snapshots \ {r}
  OBVIOUS
<1>3. Latest(p.snapshots \ {r}) = Latest(p.snapshots)
  BY LatestWithout
<1>4. p.snapshots \ {r} # {} /\ p.snapshots # {}
  OBVIOUS
<1>5. ArchiveObservation(q).satisfied = ArchiveObservation(p).satisfied
  <2> HIDE DEF q
  <2> QED
    BY <1>2, <1>3, <1>4 DEF ArchiveObservation, Observation
<1> QED
  <2> HIDE DEF q
  <2>1. Passes("archive_integrity", q) = Passes("archive_integrity", p)
    BY <1>1, <1>5 DEF Passes
  <2> QED
    BY <2>1 DEF q

(* The override that counts is one of those that stand. *)
LEMMA LatestStands ==
  ASSUME NEW q, Judged(q), NEW c, Standing(q, c) # {}
  PROVE  Latest(Standing(q, c)) \in Standing(q, c)
<1>1. q.now \in Nat /\ \A o \in Standing(q, c) : o.at \in Nat /\ o.at <= q.now
  BY DEF Judged, Standing
<1>2. \E o \in Standing(q, c) : \A f \in Standing(q, c) : f.at <= o.at
  BY <1>1, NewestExists
<1> QED
  BY <1>2 DEF Latest

(* An override that was accepted is never one the evaluation rejects. *)
LEMMA NeverThrows ==
  ASSUME NEW q, Judged(q)
  PROVE  ~EvaluateReadiness(q).throws
<1>1. ASSUME NEW c PROVE Authorized(q, c)
  <2> SUFFICES ASSUME c \in OwnerOnlyCodes, Standing(q, c) # {}
               PROVE  Latest(Standing(q, c)).role = "workspace_owner"
    BY DEF Authorized
  <2>1. Latest(Standing(q, c)) \in Standing(q, c)
    BY LatestStands
  <2> QED
    BY <2>1 DEF Standing, Judged
<1> QED
  BY <1>1 DEF EvaluateReadiness

(* What a rule comes to: met, overridden, or what its source and severity  *)
(* make of it.                                                             *)
LEMMA Results ==
  ASSUME NEW q, Judged(q), NEW c \in DOMAIN q.rules
  PROVE  /\ EffectiveResult(q, c) \in {"pass", "overridden", "unavailable", "blocker", "warning"}
         /\ EvaluatedStatus(q, c) \in Fulfilled <=> EffectiveResult(q, c) \in {"pass", "overridden"}
         /\ q.rules[c].severity = "blocker" =>
              (EffectiveResult(q, c) \in {"blocker", "unavailable"}
                 <=> EvaluatedStatus(q, c) \notin Fulfilled)
<1>1. /\ q.rules[c].severity \in {"blocker", "warning"}
      /\ q.sources[c].present \in BOOLEAN /\ q.sources[c].satisfied \in BOOLEAN
  BY DEF Judged
<1> DEFINE met == q.sources[c].present /\ q.sources[c].satisfied
<1>2. CASE met
  <2>1. EffectiveResult(q, c) = "pass" /\ EvaluatedStatus(q, c) = "satisfied"
    BY <1>1, <1>2 DEF EffectiveResult, ResultFromObservation, EvaluatedStatus
  <2> QED
    BY <2>1 DEF Fulfilled
<1>3. CASE ~met /\ Standing(q, c) # {}
  <2>1. EffectiveResult(q, c) = "overridden" /\ EvaluatedStatus(q, c) = "overridden"
    BY <1>1, <1>3 DEF EffectiveResult, ResultFromObservation, EvaluatedStatus
  <2> QED
    BY <2>1 DEF Fulfilled
<1>4. CASE ~met /\ Standing(q, c) = {}
  <2>1. EffectiveResult(q, c) \in {"unavailable", q.rules[c].severity}
    BY <1>1, <1>4 DEF EffectiveResult, ResultFromObservation
  <2>2. EvaluatedStatus(q, c) \in {"blocked", "warning"}
    BY <1>1, <1>4 DEF EvaluatedStatus
  <2> QED
    BY <1>1, <2>1, <2>2 DEF Fulfilled
<1> QED
  BY <1>2, <1>3, <1>4

(* What is written into an issue reads back as what was judged. *)
LEMMA ReadsBack ==
  ASSUME NEW e \in {"pass", "overridden", "unavailable", "blocker", "warning"}
  PROVE  /\ IssueValue(DomainStatus(e)) = e
         /\ DomainStatus(e) \in Fulfilled <=> e \in {"pass", "overridden"}
<1>1. /\ DomainStatus("pass") = "satisfied" /\ DomainStatus("overridden") = "overridden"
      /\ DomainStatus("unavailable") = "missing" /\ DomainStatus("blocker") = "blocked"
      /\ DomainStatus("warning") = "warning"
  BY DEF DomainStatus
<1>2. /\ IssueValue("satisfied") = "pass" /\ IssueValue("overridden") = "overridden"
      /\ IssueValue("missing") = "unavailable" /\ IssueValue("blocked") = "blocker"
      /\ IssueValue("warning") = "warning"
  BY DEF IssueValue
<1> QED
  BY <1>1, <1>2 DEF Fulfilled

LEMMA UiTells ==
  ASSUME NEW q, Judged(q), NEW c \in DOMAIN q.rules
  PROVE  /\ ~q.rules[c].required => UiStatus(q, c) = "not_applicable"
         /\ q.rules[c].required =>
              /\ EffectiveResult(q, c) = "pass" => UiStatus(q, c) = "passed"
              /\ EffectiveResult(q, c) \in {"overridden", "warning"} => UiStatus(q, c) = EffectiveResult(q, c)
              /\ EffectiveResult(q, c) \in {"blocker", "unavailable"} => UiStatus(q, c) = "blocking"
BY DEF UiStatus

LEMMA VerdictIsOne ==
  ASSUME Judged(Question)
  PROVE  OneVerdict
<1> DEFINE q == Question
           required == Required(q)
           blocking == {c \in required : EffectiveResult(q, c) \in {"blocker", "unavailable"}}
           passed == {c \in required : EffectiveResult(q, c) \in {"pass", "overridden"}}
           fulfilled == {c \in required : EvaluatedStatus(q, c) \in Fulfilled}
<1>1. \A c \in required :
        /\ EffectiveResult(q, c) \in {"pass", "overridden", "unavailable", "blocker", "warning"}
        /\ EvaluatedStatus(q, c) \in Fulfilled <=> EffectiveResult(q, c) \in {"pass", "overridden"}
        /\ q.rules[c].severity = "blocker" =>
             (EffectiveResult(q, c) \in {"blocker", "unavailable"}
                <=> EvaluatedStatus(q, c) \notin Fulfilled)
        /\ DomainStatus(EffectiveResult(q, c)) \in Fulfilled
             <=> EffectiveResult(q, c) \in {"pass", "overridden"}
  BY Results, ReadsBack DEF Required
<1>2. /\ SummarizeReadiness(q).ready <=> blocking = {}
      /\ SummarizeReadiness(q).score = Percent(passed, required)
  BY DEF SummarizeReadiness
<1>3. /\ EvaluateReadiness(q).ready
           <=> {c \in required \ fulfilled : q.rules[c].severity = "blocker"} = {}
      /\ EvaluateReadiness(q).score = Percent(fulfilled, required)
  BY DEF EvaluateReadiness
<1>4. CanBeIssued(q) <=> \A c \in required : q.rules[c].severity = "blocker" => c \in passed
  BY <1>1 DEF CanBeIssued
<1>5. passed = fulfilled
  BY <1>1
<1>6. blocking = {} => EvaluateReadiness(q).ready /\ CanBeIssued(q)
  BY <1>1, <1>3, <1>4
<1>7. ASSUME \A c \in required : q.rules[c].severity = "blocker"
      PROVE  (blocking = {} <=> EvaluateReadiness(q).ready) /\ (blocking = {} <=> CanBeIssued(q))
  BY <1>1, <1>3, <1>4, <1>7
<1> HIDE DEF required, blocking, passed, fulfilled
<1> QED
  BY <1>2, <1>3, <1>5, <1>6, <1>7 DEF OneVerdict, required

LEMMA PageIsOne ==
  ASSUME Judged(Question)
  PROVE  PageTellsTheVerdict
<1> DEFINE q == Question
           being(results) == {c \in Required(q) : EffectiveResult(q, c) \in results}
           of(status) == {c \in DOMAIN q.rules : UiStatus(q, c) = status}
<1>1. \A c \in DOMAIN q.rules :
        /\ EffectiveResult(q, c) \in {"pass", "overridden", "unavailable", "blocker", "warning"}
        /\ IssueValue(DomainStatus(EffectiveResult(q, c))) = EffectiveResult(q, c)
        /\ ~q.rules[c].required => UiStatus(q, c) = "not_applicable"
        /\ q.rules[c].required =>
             /\ EffectiveResult(q, c) = "pass" => UiStatus(q, c) = "passed"
             /\ EffectiveResult(q, c) \in {"overridden", "warning"} => UiStatus(q, c) = EffectiveResult(q, c)
             /\ EffectiveResult(q, c) \in {"blocker", "unavailable"} => UiStatus(q, c) = "blocking"
  BY Results, ReadsBack, UiTells
<1>2. /\ of("blocking") = being({"blocker", "unavailable"})
      /\ of("warning") = being({"warning"})
      /\ of("passed") \cup of("overridden") = being({"pass", "overridden"})
      /\ of("not_applicable") = DOMAIN q.rules \ Required(q)
  BY <1>1 DEF Required
<1>3. ASSUME NEW c \in DOMAIN q.rules, NEW role \in {"workspace_owner", "producer"},
             OverrideOffered(q, c, role)
      PROVE  OverrideAccepted(q, c, role)
  BY <1>3 DEF OverrideOffered, OverrideAccepted, EffectiveResult
<1>4. /\ SummarizeReadiness(q).blocking = being({"blocker", "unavailable"})
      /\ SummarizeReadiness(q).warnings = being({"warning"})
      /\ SummarizeReadiness(q).passed = being({"pass", "overridden"})
      /\ SummarizeReadiness(q).notApplicable = DOMAIN q.rules \ Required(q)
  BY DEF SummarizeReadiness
<1> HIDE DEF being
<1> QED
  BY <1>1, <1>2, <1>3, <1>4 DEF PageTellsTheVerdict

(* An observation is that of the rule and the project that was asked for; a *)
(* verdict is that of both engines.                                         *)
VerdictsInv ==
  /\ asked \in Projects
  /\ observed = NotObserved \/
       (IF asked.code = "judge"
        THEN observed = [made |-> TRUE, satisfied |-> SummarizeReadiness(asked.of).ready,
                         present |-> ~EvaluateReadiness(asked.of).throws]
        ELSE observed = ObservationDraft(asked.code, asked.of))

LEMMA VerdictsInvInit == SourcesInit => VerdictsInv
BY DEF SourcesInit, VerdictsInv

LEMMA VerdictsInvStep == VerdictsInv /\ [VerdictsNext]_sourcesVars => VerdictsInv'
<1> SUFFICES ASSUME VerdictsInv, [VerdictsNext]_sourcesVars PROVE VerdictsInv'
  OBVIOUS
<1>1. CASE asked.code # "judge" /\ ObserveRule
  BY <1>1 DEF VerdictsInv, ObserveRule
<1>2. CASE Judge
  BY <1>2 DEF VerdictsInv, Judge
<1>3. CASE UNCHANGED sourcesVars
  BY <1>3 DEF VerdictsInv, sourcesVars
<1> QED
  BY <1>1, <1>2, <1>3 DEF VerdictsNext, SourcesNext

(* Whatever is asked, a pass is earned.                                    *)
LEMMA EveryPassEarned ==
  ASSUME NEW q \in Projects
  PROVE  Earned(q.code, q.of)
<1> USE ProjectsAssumption DEF ProjectsAssumption
<1>1. CASE q.code \notin DOMAIN RegistersRead
  <2>1. \A p : ~Passes(q.code, p)
    BY <1>1, Unknown DEF Passes, Observation
  <2> QED
    BY <2>1 DEF Earned
<1>2. CASE q.code \in DOMAIN RegistersRead
  <2>1. DOMAIN q.of = RegistersRead[q.code]
    BY <1>2
  <2>2. /\ RegistersRead["development_approved"] = {"documents"}
        /\ RegistersRead["writing_approved_synced"] = {"documents", "syncs"}
        /\ RegistersRead["breakdown_complete"] = {"scenes"}
        /\ RegistersRead["cast_ready"] = {"characters"}
        /\ RegistersRead["crew_ready"] = {"crew"}
        /\ RegistersRead["locations_ready"] = {"locations"}
        /\ RegistersRead["budget_ready"] = {"budgets"}
        /\ RegistersRead["legal_rights_clearance"] = {"requirements", "now"}
        /\ RegistersRead["legal_hold"] = {"holds", "id"}
        /\ RegistersRead["insurance_current"] = {"insurances", "now"}
        /\ RegistersRead["safety_ready"] = {"risks", "plans", "hazards"}
        /\ RegistersRead["equipment_ready"] = {"reservations", "conflicts", "day"}
        /\ RegistersRead["department_resources_ready"] = {"elements"}
        /\ RegistersRead["logistics_ready"] = {"logistics"}
        /\ RegistersRead["schedule_ready"] = {"schedules", "days", "conflicts", "day"}
        /\ RegistersRead["visual_plan_ready"] = {"plans", "shots"}
        /\ RegistersRead["issued_documents_ready"] = {"issues", "day"}
        /\ RegistersRead["archive_integrity"] = {"snapshots"}
        /\ RegistersRead["workspace_security"] = {"users"}
    BY DEF RegistersRead
  <2>3. CASE q.code = "development_approved"
    BY <2>1, <2>2, <2>3, EarnedDevelopment
  <2>4. CASE q.code = "writing_approved_synced"
    BY <2>1, <2>2, <2>4, EarnedWriting
  <2>5. CASE q.code = "breakdown_complete"
    BY <2>1, <2>2, <2>5, EarnedBreakdown
  <2>6. CASE q.code = "cast_ready"
    BY <2>1, <2>2, <2>6, EarnedCast
  <2>7. CASE q.code = "crew_ready"
    BY <2>1, <2>2, <2>7, EarnedCrew
  <2>8. CASE q.code = "locations_ready"
    BY <2>1, <2>2, <2>8, EarnedLocations
  <2>9. CASE q.code = "budget_ready"
    BY <2>1, <2>2, <2>9, EarnedBudget
  <2>10. CASE q.code = "legal_rights_clearance"
    BY <2>1, <2>2, <2>10, EarnedLegal
  <2>11. CASE q.code = "legal_hold"
    BY <2>1, <2>2, <2>11, EarnedHolds
  <2>12. CASE q.code = "insurance_current"
    BY <2>1, <2>2, <2>12, EarnedInsurance
  <2>13. CASE q.code = "safety_ready"
    BY <2>1, <2>2, <2>13, EarnedSafety
  <2>14. CASE q.code = "equipment_ready"
    BY <2>1, <2>2, <2>14, EarnedEquipment
  <2>15. CASE q.code = "department_resources_ready"
    BY <2>1, <2>2, <2>15, EarnedResources
  <2>16. CASE q.code = "logistics_ready"
    BY <2>1, <2>2, <2>16, EarnedLogistics
  <2>17. CASE q.code = "schedule_ready"
    BY <2>1, <2>2, <2>17, EarnedSchedule
  <2>18. CASE q.code = "visual_plan_ready"
    BY <2>1, <2>2, <2>18, EarnedVisual
  <2>19. CASE q.code = "issued_documents_ready"
    BY <2>1, <2>2, <2>19, EarnedIssued
  <2>20. CASE q.code = "archive_integrity"
    BY <2>1, <2>2, <2>20, EarnedArchive
  <2>21. CASE q.code = "workspace_security"
    BY <2>1, <2>2, <2>21, EarnedUsers
  <2> QED
    BY <1>2, <2>3, <2>4, <2>5, <2>6, <2>7, <2>8, <2>9, <2>10, <2>11,
       <2>12, <2>13, <2>14, <2>15, <2>16, <2>17, <2>18, <2>19, <2>20, <2>21 DEF RegistersRead
<1> QED
  BY <1>1, <1>2

LEMMA NoGapCovered ==
  ASSUME NEW q \in Projects, q.code \in EveryRowCounts
  PROVE  NoneCovered(q.code, q.of)
<1>1. q.code \in DOMAIN RegistersRead /\ DOMAIN q.of = RegistersRead[q.code]
  BY ProjectsAssumption DEF ProjectsAssumption, EveryRowCounts, RegistersRead
<1> QED
  BY <1>1, BreakdownNotCovered, CastNotCovered, EquipmentNotCovered, ResourcesNotCovered,
     HoldsNotCovered DEF EveryRowCounts, RegistersRead

LEMMA PassesEarned == VerdictsInv => PassesAreEarned
<1> SUFFICES ASSUME VerdictsInv PROVE PassesAreEarned
  OBVIOUS
<1>1. asked \in Projects
  BY DEF VerdictsInv
<1>2. MissingNeverPasses
  <2> SUFFICES ASSUME observed # NotObserved, observed.satisfied
               PROVE  /\ observed.present
                      /\ \A g \in RegistersOf(asked.of) \ MayBeEmpty :
                           ~Passes(asked.code, Without(asked.of, g))
    BY DEF MissingNeverPasses
  <2>1. CASE asked.code = "judge"
    <3>1. observed.present
      <4>1. ~EvaluateReadiness(asked.of).throws
        BY <1>1, <2>1, QuestionsAssumption, NeverThrows DEF QuestionsAssumption
      <4>2. observed = [made |-> TRUE, satisfied |-> SummarizeReadiness(asked.of).ready,
                        present |-> ~EvaluateReadiness(asked.of).throws]
        BY <2>1 DEF VerdictsInv
      <4> QED
        BY <4>1, <4>2
    <3>2. \A p : ~Passes("judge", p)
      BY Unknown DEF Passes, Observation, RegistersRead
    <3> QED
      BY <2>1, <3>1, <3>2
  <2>2. CASE asked.code # "judge"
    <3>1. observed = ObservationDraft(asked.code, asked.of)
      BY <2>2 DEF VerdictsInv
    <3>2. Passes(asked.code, asked.of)
      BY <3>1 DEF Passes
    <3> QED
      BY <1>1, <3>1, <3>2, EveryPassEarned DEF Earned
  <2> QED
    BY <2>1, <2>2
<1>3. GapsAreNotCovered
  <2> SUFFICES ASSUME observed # NotObserved, asked.code \in EveryRowCounts, observed.satisfied,
                      NEW p \in Less(asked.of), ObservationDraft(asked.code, p).present
               PROVE  Passes(asked.code, p)
    BY DEF GapsAreNotCovered
  <2>1. asked.code # "judge"
    BY DEF EveryRowCounts
  <2>2. Passes(asked.code, asked.of)
    BY <2>1 DEF VerdictsInv, Passes
  <2> QED
    BY <1>1, <2>2, NoGapCovered DEF NoneCovered
<1>4. ExpiredStaysExpired
  <2> SUFFICES ASSUME asked.code = "legal_rights_clearance",
                      Passes(asked.code, [asked.of EXCEPT !.now = @ + 1])
               PROVE  Passes(asked.code, asked.of)
    BY DEF ExpiredStaysExpired
  <2>1. /\ DOMAIN asked.of = {"requirements", "now"} /\ asked.of.now \in Nat
        /\ \A r \in asked.of.requirements : r.expires \in Nat
    BY <1>1, ProjectsAssumption DEF ProjectsAssumption, RegistersRead
  <2> QED
    BY <2>1, StaysExpired
<1>5. ASSUME asked.code = "issued_documents_ready" PROVE LatestDecides("issues")
  <2>1. /\ DOMAIN asked.of = {"issues", "day"} /\ \A i \in asked.of["issues"] : i.at \in Nat
    BY <1>1, <1>5, ProjectsAssumption DEF ProjectsAssumption, RegistersRead
  <2> SUFFICES ASSUME NEW r \in asked.of["issues"], NEW s \in asked.of["issues"],
                      s.at > r.at, s.kind = r.kind, s.day = r.day
               PROVE  Passes(asked.code, [asked.of EXCEPT !["issues"] = @ \ {r}])
                        = Passes(asked.code, asked.of)
    BY DEF LatestDecides
  <2> QED
    BY <1>5, <2>1, IssuedByLatest
<1>6. ASSUME asked.code = "archive_integrity" PROVE LatestDecides("snapshots")
  <2>1. /\ DOMAIN asked.of = {"snapshots"} /\ \A i \in asked.of["snapshots"] : i.at \in Nat
    BY <1>1, <1>6, ProjectsAssumption DEF ProjectsAssumption, RegistersRead
  <2> SUFFICES ASSUME NEW r \in asked.of["snapshots"], NEW s \in asked.of["snapshots"], s.at > r.at
               PROVE  Passes(asked.code, [asked.of EXCEPT !["snapshots"] = @ \ {r}])
                        = Passes(asked.code, asked.of)
    BY DEF LatestDecides
  <2> QED
    BY <1>6, <2>1, ArchivedByLatest
<1> QED
  BY <1>2, <1>3, <1>4, <1>5, <1>6 DEF PassesAreEarned

LEMMA VerdictsAreOne == VerdictsInv => VerdictsAgree
<1> SUFFICES ASSUME VerdictsInv, asked.code = "judge"
             PROVE  OneVerdict /\ PageTellsTheVerdict
  BY DEF VerdictsAgree
<1>1. Judged(Question)
  BY QuestionsAssumption DEF QuestionsAssumption, VerdictsInv, Question
<1> QED
  BY <1>1, VerdictIsOne, PageIsOne

(* A rule that passes found what it passes: it has a source, would not pass *)
(* without the rows it rests on, covers no gap of one row with another, and *)
(* neither the clock nor a replaced issue or export makes it pass; and the  *)
(* page, the evaluation, the gate of an issue and the colours of the rows   *)
(* give one verdict (readiness/sources.ts:46, domain readiness.ts:105,      *)
(* routes/readiness.ts:378).                                                *)
THEOREM ReadinessEarned == VerdictsSpec => []ReadinessIsEarned
<1>1. VerdictsInv => ReadinessIsEarned
  BY PassesEarned, VerdictsAreOne DEF ReadinessIsEarned
<1> QED
  BY <1>1, VerdictsInvInit, VerdictsInvStep, PTL DEF VerdictsSpec
=============================================================================
