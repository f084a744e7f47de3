----------------------------- MODULE Discussions -----------------------------
(***************************************************************************)
(* Comments on one object, the activities written beside them and the      *)
(* notifications of who is mentioned:                                      *)
(* apps/web/src/server/routes/collaboration.ts, app.ts and the panel       *)
(* apps/web/src/collaboration/ObjectCollaborationPanel.tsx.                *)
(*                                                                         *)
(* Every request is one batch; what may be outdated is the page it was     *)
(* sent from, which shows the comments as they were when it was loaded.    *)
(***************************************************************************)
EXTENDS Integers, FiniteSets, Sequences

CONSTANTS
  CommentIds,     \* comments on the object
  Writers,        \* active members of the project
  MaxActivities   \* bound: activities of the object

ASSUME DiscussionsAssumption == MaxActivities \in Nat

VARIABLES
  comment,   \* comment[c]: the comments row
  activity,  \* the activities of the object, oldest first: <<verb, comment>>
  notice,    \* notice[w]: the notifications of w: [about, read]
  page       \* page[w]: the comments as w's panel shows them

discussionsVars == <<comment, activity, notice, page>>

NoComment == [version |-> 0, resolved |-> FALSE, under |-> {}]

DiscussionsInit ==
  /\ comment = [c \in CommentIds |-> NoComment]
  /\ activity = << >>
  /\ notice = [w \in Writers |-> {}]
  /\ page = [w \in Writers |-> comment]

\* commentById.
Posted(c) == comment[c] # NoComment

\* activityStatement.
WithActivity(verb, c) ==
  /\ Len(activity) < MaxActivities
  /\ activity' = Append(activity, <<verb, c>>)

\* notificationStatement: nobody is told of their own comment.
Notified(w, c, mentioned) ==
  [m \in Writers |-> notice[m] \cup
     IF m \in mentioned \ {w} THEN {[about |-> c, read |-> FALSE]} ELSE {}]

\* The comments a reply may name: those of this discussion, or none.
Parents == {{}} \cup {{c} : c \in {d \in CommentIds : Posted(d)}}

NewComment(under) == [version |-> 1, resolved |-> FALSE, under |-> under]

\* POST /comments has no key: sent again, it is another comment.
PostComment(w, c, under, mentioned) ==
  /\ ~Posted(c) /\ under \in Parents
  /\ comment' = [comment EXCEPT ![c] = NewComment(under)]
  /\ WithActivity("commented", c)
  /\ notice' = Notified(w, c, mentioned)
  /\ UNCHANGED page

\* A comment through a secure link is no activity and notifies nobody.
PostThroughLink(c) ==
  /\ ~Posted(c)
  /\ comment' = [comment EXCEPT ![c] = NewComment({})]
  /\ UNCHANGED <<activity, notice, page>>

\* Mutant of SettleHolds: the batch carries no version guard.
SettleUnguarded(w, c) == TRUE

\* The guard row: the comment still has the version that the panel sent.
SettleHolds(w, c) == comment[c].version = page[w][c].version

\* POST /comments/:id/resolve: the panel asks for the opposite of what it
\* shows.  A request whose guard fails changes nothing.
SettleComment(w, c) ==
  LET resolved == ~page[w][c].resolved IN
  /\ page[w][c] # NoComment
  /\ SettleHolds(w, c)
  /\ comment' = [comment EXCEPT ![c].resolved = resolved, ![c].version = @ + 1]
  /\ WithActivity(IF resolved THEN "comment_resolved" ELSE "comment_reopened", c)
  /\ UNCHANGED <<notice, page>>

\* GET: the panel shows what there is.
LoadPanel(w) ==
  /\ page' = [page EXCEPT ![w] = comment]
  /\ UNCHANGED <<comment, activity, notice>>

\* POST /notifications/read takes all of them, listed in the drawer or not.
MarkRead(w) ==
  /\ notice' = [notice EXCEPT ![w] = {[n EXCEPT !.read = TRUE] : n \in @}]
  /\ UNCHANGED <<comment, activity, page>>

DiscussionsNext ==
  \/ \E c \in CommentIds : PostThroughLink(c)
  \/ \E w \in Writers :
       \/ \E c \in CommentIds, mentioned \in SUBSET Writers, under \in Parents :
            PostComment(w, c, under, mentioned)
       \/ \E c \in CommentIds : SettleComment(w, c)
       \/ LoadPanel(w) \/ MarkRead(w)

DiscussionsSpec == DiscussionsInit /\ [][DiscussionsNext]_discussionsVars

----------------------------------------------------------------------------
(* Properties.                                                             *)

Told(verb, c) == Cardinality({n \in DOMAIN activity : activity[n] = <<verb, c>>})

\* The activities of an object tell the story of each comment: it is resolved
\* and reopened in turn, however old the panels are that ask for it, and is now
\* as the last of them left it (collaboration.ts:329, ObjectCollaborationPanel.tsx:273).
ActivitiesTellTheComments ==
  \A c \in CommentIds :
    Told("comment_resolved", c) - Told("comment_reopened", c) =
      IF comment[c].resolved THEN 1 ELSE 0
=============================================================================
