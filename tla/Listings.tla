------------------------------ MODULE Listings ------------------------------
(***************************************************************************)
(* The lists of projects and records that a client reads page by page      *)
(* while others write (GET / of apps/web/src/server/routes/projects.ts and *)
(* GET /:recordType of records.ts), and the creative status of a project,  *)
(* which the list computes in SQL and the project's own page from four     *)
(* reads.                                                                  *)
(*                                                                         *)
(* A page is one SELECT; the cursor of the next one is the time and the id *)
(* of its last row.  Every request that writes a row takes Date.now(),     *)
(* which is assumed not to go back, and sets the row's time to it in a     *)
(* batch that runs later.  The batch of a member's edit checks that nobody *)
(* has written the row since the member read it; that of an evaluation of  *)
(* readiness does not, and may set the row's time back.  A search text, a  *)
(* status and the state are all conditions on the row; the state stands    *)
(* for them.                                                               *)
(***************************************************************************)
EXTENDS Integers, FiniteSets, Sequences, Functions

CONSTANTS
  ListIds,   \* the ids of rows, ordered as text: naturals here
  Limits,    \* `limit` of a query
  Readers,   \* clients that read a list
  ListWriters, \* concurrent requests that write rows
  MaxNow     \* bound: the last millisecond

ASSUME ListingsAssumption ==
  /\ ListIds \cup Limits \subseteq Nat /\ IsFiniteSet(ListIds) /\ 0 \notin Limits
  /\ MaxNow \in Nat

VARIABLES
  shelf,     \* shelf[x]: the row with id x, or none
  clock,     \* Date.now()
  writing,   \* writing[w]: the row that request w writes, and the time it took
  listing,   \* listing[r]: what reader r was given, and what was written since
  creative   \* the flags and the content behind a creative status

listingsVars == <<shelf, clock, writing, listing, creative>>

NoShelf == [at |-> -1, archived |-> FALSE]
NoListing == [phase |-> "none", state |-> "all", limit |-> 0, cursor |-> {}, shown |-> <<>>,
              total |-> 0, untouched |-> {}, back |-> {}, quiet |-> TRUE]

\* `fresh` while nobody has written the row since the member read it.
NoWriting == [on |-> {}, at |-> 0, fresh |-> FALSE]

Modules == {"overview", "idea_box", "story", "screenplay"}

ListingsInit ==
  /\ shelf \in [ListIds -> {NoShelf} \cup [at : {0}, archived : {FALSE}]]
  /\ clock = 0
  /\ writing = [w \in ListWriters |-> NoWriting]
  /\ listing = [r \in Readers |-> NoListing]
  /\ creative = [completed |-> [m \in Modules |-> FALSE], content |-> [m \in Modules |-> FALSE]]

----------------------------------------------------------------------------
(* Rows.                                                                   *)

OnShelf == {x \in ListIds : shelf[x] # NoShelf}

\* archiveClause.
Selected(state) ==
  {x \in OnShelf : state = "all" \/ (state = "archived") = shelf[x].archived}

\* ORDER BY updated_at DESC, id DESC.
Newer(x, y) == shelf[x].at > shelf[y].at \/ (shelf[x].at = shelf[y].at /\ x > y)

\* Mutant of Past: the cursor is a time alone.
PastTime(x, cursor) == \A c \in cursor : shelf[x].at < c.at

\* cursorClause: the row comes after the last one of the page before.
Past(x, cursor) == \A c \in cursor : shelf[x].at < c.at \/ (shelf[x].at = c.at /\ x < c.id)

\* Sorted: the row in place i has i - 1 rows ahead of it.
Sorted(rows) ==
  [i \in 1 .. Cardinality(rows) |->
     CHOOSE x \in rows : Cardinality({y \in rows : Newer(y, x)}) = i - 1]

FirstOf(rows, n) == [i \in 1 .. (IF Len(rows) < n THEN Len(rows) ELSE n) |-> rows[i]]

\* LIMIT is one more than asked for: the row too many says that there are more.
Page(state, cursor, limit) ==
  LET rows == FirstOf(Sorted({x \in Selected(state) : Past(x, cursor)}), limit + 1)
      items == FirstOf(rows, limit)
      last == items[Len(items)]
  IN  [items |-> items,
       next |-> IF Len(rows) > limit THEN {[at |-> shelf[last].at, id |-> last]} ELSE {}]

\* Mutant of RecordCount: the count misses the archive clause.
CountAll(state) == Cardinality(OnShelf)

RecordCount(state) == Cardinality(Selected(state))

----------------------------------------------------------------------------
(* Readers and writers.                                                    *)

\* The first page of GET /.
StartListing(r, state, limit) ==
  LET page == Page(state, {}, limit) IN
  /\ listing[r].phase = "none"
  /\ listing' = [listing EXCEPT ![r] =
       [phase |-> "read", state |-> state, limit |-> limit, cursor |-> page.next,
        shown |-> page.items, total |-> 0, untouched |-> Selected(state), back |-> {},
        quiet |-> TRUE]]
  /\ UNCHANGED <<shelf, clock, writing, creative>>

\* `total` is a SELECT of its own, after that of the page.
CountListed(r) ==
  /\ listing[r].phase = "read"
  /\ listing' = [listing EXCEPT ![r].total = RecordCount(listing[r].state),
       ![r].phase = IF listing[r].cursor = {} THEN "ended" ELSE "page"]
  /\ UNCHANGED <<shelf, clock, writing, creative>>

\* GET / with the cursor of the page before.
NextPage(r) ==
  LET l == listing[r]
      page == Page(l.state, l.cursor, l.limit)
  IN  /\ l.phase = "page"
      /\ listing' = [listing EXCEPT ![r].phase = "read", ![r].cursor = page.next,
                                    ![r].shown = @ \o page.items]
      /\ UNCHANGED <<shelf, clock, writing, creative>>

CloseListing(r) ==
  /\ listing[r].phase = "ended"
  /\ listing' = [listing EXCEPT ![r] = NoListing]
  /\ UNCHANGED <<shelf, clock, writing, creative>>

\* A request takes its time before its batch.
StartWrite(w, x) ==
  /\ writing[w] = NoWriting
  /\ writing' = [writing EXCEPT ![w] = [on |-> {x}, at |-> clock, fresh |-> TRUE]]
  /\ UNCHANGED <<shelf, clock, listing, creative>>

\* Row x is written with the time that w took; `back` tells whether that is news
\* from before the last write of x.
Store(w, x, archived, back) ==
  /\ shelf' = [shelf EXCEPT ![x] = [at |-> writing[w].at, archived |-> archived]]
  /\ listing' = [r \in Readers |->
       [listing[r] EXCEPT !.untouched = @ \ {x}, !.quiet = FALSE, !.back = @ \cup back]]
  /\ writing' = [v \in ListWriters |->
       IF v = w THEN NoWriting
       ELSE [writing[v] EXCEPT !.fresh = @ /\ x \notin writing[v].on]]
  /\ UNCHANGED <<clock, creative>>

\* A row is created, edited, archived or restored, under the version guard.
CommitWrite(w, x, archived) ==
  /\ writing[w].on = {x} /\ writing[w].fresh
  /\ Store(w, x, archived, {})

\* POST /readiness/evaluate and what marks a readiness stale: an UPDATE of the
\* project whoever has written it since.
CommitUnguarded(w, x) ==
  /\ writing[w].on = {x} /\ x \in OnShelf
  /\ Store(w, x, shelf[x].archived, {y \in {x} : writing[w].at < shelf[y].at})

\* The guard refuses the batch, or the request ends before it.
AbandonWrite(w) ==
  /\ writing[w] # NoWriting
  /\ writing' = [writing EXCEPT ![w] = NoWriting]
  /\ UNCHANGED <<shelf, clock, listing, creative>>

Tick == clock < MaxNow /\ clock' = clock + 1 /\ UNCHANGED <<shelf, writing, listing, creative>>

----------------------------------------------------------------------------
(* The creative status.                                                    *)

\* PATCH /creative-progress/:moduleKey.
SetCompleted(m, completed) ==
  /\ creative' = [creative EXCEPT !.completed[m] = completed]
  /\ UNCHANGED <<shelf, clock, writing, listing>>

\* A module gets its first content, or loses the last of it.
SetContent(m, content) ==
  /\ creative' = [creative EXCEPT !.content[m] = content]
  /\ UNCHANGED <<shelf, clock, writing, listing>>

\* Mutant of ListStatus: a module that has content counts as completed.
StatusByContent(c) ==
  IF \A m \in Modules : c.completed[m] \/ c.content[m] THEN "writing_completed"
  ELSE IF \E m \in Modules : c.completed[m] \/ (m # "overview" /\ c.content[m]) THEN "in_progress"
  ELSE "just_started"

\* creativeStatusSelect: the CASE of the list's SELECT.
ListStatus(c) ==
  IF \A m \in Modules : c.completed[m] THEN "writing_completed"
  ELSE IF \E m \in Modules : c.completed[m] \/ (m # "overview" /\ c.content[m]) THEN "in_progress"
  ELSE "just_started"

ModuleStatus(c, m) ==
  IF c.completed[m] THEN "completed" ELSE IF c.content[m] THEN "in_progress" ELSE "not_yet_started"

\* creativeProgressView: the project's page.
PageStatus(c) ==
  IF \A m \in Modules : ModuleStatus(c, m) = "completed" THEN "writing_completed"
  ELSE IF \E m \in Modules : ModuleStatus(c, m) # "not_yet_started" THEN "in_progress"
  ELSE "just_started"

ListingsNext ==
  \/ \E r \in Readers :
       \/ \E state \in {"active", "archived", "all"}, limit \in Limits : StartListing(r, state, limit)
       \/ CountListed(r) \/ NextPage(r) \/ CloseListing(r)
  \/ \E w \in ListWriters :
       \/ \E x \in ListIds :
            \/ StartWrite(w, x) \/ CommitUnguarded(w, x)
            \/ \E archived \in BOOLEAN : CommitWrite(w, x, archived)
       \/ AbandonWrite(w)
  \/ Tick
  \/ \E m \in Modules, b \in BOOLEAN : SetCompleted(m, b) \/ SetContent(m, b)

ListingsSpec == ListingsInit /\ [][ListingsNext]_listingsVars

----------------------------------------------------------------------------
(* Properties.                                                             *)

\* A list read page by page shows no row twice, whatever members write meanwhile,
\* unless a write without a guard has set the row's time back since the list began
\* (readiness.ts:487); when it has ended, it has shown every row that nobody wrote
\* since it began, however late, and if nobody wrote at all its total is the number
\* of rows shown (projects.ts:147, records.ts:83).
ListsAreWhole ==
  \A r \in Readers : LET l == listing[r] IN
    /\ \A i, j \in DOMAIN l.shown : l.shown[i] = l.shown[j] => i = j \/ l.shown[i] \in l.back
    /\ l.phase = "ended" => l.untouched \subseteq Range(l.shown)
    /\ l.phase = "ended" /\ l.quiet => l.total = Len(l.shown)

\* The list and the page call the same projects completed, what is in progress
\* in the list is so on the page, and they differ only over a project of which
\* nothing but the overview is filled in (projects.ts:88, :776).
StatusesAgree ==
  /\ ListStatus(creative) = "writing_completed" <=> PageStatus(creative) = "writing_completed"
  /\ ListStatus(creative) = "in_progress" => PageStatus(creative) = "in_progress"
  /\ ListStatus(creative) # PageStatus(creative) =>
       \A m \in Modules : ~creative.completed[m] /\ (creative.content[m] <=> m = "overview")

=============================================================================
