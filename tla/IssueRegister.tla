---------------------------- MODULE IssueRegister ----------------------------
(* What freezing Ready to Shoot promises, without the requests: every scope   *)
(* has a numbered chain of issues.  An issue never changes, only its standing *)
(* does; a new one takes the next number, names the one it replaces, and      *)
(* leaves it as the only issue of the chain that is not superseded.           *)
EXTENDS Naturals, Sequences

CONSTANTS Scopes, Documents

VARIABLE chain

Standings == {"ready", "stale", "superseded"}

Entry == [number : Nat, document : Documents, supersedes : Nat, standing : Standings]

RegisterType == chain \in [Scopes -> Seq(Entry)]

Init == chain = [s \in Scopes |-> << >>]

\* The chain c without a current issue.
Closed(c) == [k \in DOMAIN c |-> [c[k] EXCEPT !.standing = "superseded"]]

Published(s, d) ==
  [chain EXCEPT ![s] =
    Append(Closed(@), [number |-> Len(@) + 1, document |-> d,
                       supersedes |-> Len(@), standing |-> "ready"])]

\* Written over chain', so that it can be evaluated for any set of documents.
Publish(s) ==
  LET d == chain'[s][Len(chain'[s])].document
  IN  /\ Len(chain'[s]) = Len(chain[s]) + 1
      /\ d \in Documents
      /\ chain' = Published(s, d)

\* The current issues of some scopes are found to rest on something else now.
MarkStale ==
  \E S \in SUBSET Scopes :
    chain' = [s \in Scopes |->
      [k \in DOMAIN chain[s] |->
         IF s \in S /\ chain[s][k].standing = "ready"
           THEN [chain[s][k] EXCEPT !.standing = "stale"]
           ELSE chain[s][k]]]

Next == MarkStale \/ \E s \in Scopes : Publish(s)

Spec == Init /\ [][Next]_chain
=============================================================================
