---------------------------- MODULE FrozenIssues ----------------------------
(* What issuing a draft promises, without the requests: a draft says         *)
(* something that may be rewritten; an issue freezes what it says at that    *)
(* moment, for ever, and a key freezes at most one issue of a draft.         *)
EXTENDS Naturals, Sequences

CONSTANTS Documents, Texts, Keys

VARIABLES says, frozen

vars == <<says, frozen>>

Init ==
  /\ says \in [Documents -> Texts]
  /\ frozen = [d \in Documents |-> << >>]

\* Written over says', so that it can be evaluated for any set of texts.
Write(d) ==
  /\ says'[d] \in Texts
  /\ says' = [says EXCEPT ![d] = says'[d]]
  /\ UNCHANGED frozen

Freeze(d, k) ==
  /\ \A n \in DOMAIN frozen[d] : frozen[d][n].key # k
  /\ frozen' = [frozen EXCEPT ![d] = Append(@, [text |-> says[d], key |-> k])]
  /\ UNCHANGED says

Next == \E d \in Documents : Write(d) \/ \E k \in Keys : Freeze(d, k)

Spec == Init /\ [][Next]_vars
=============================================================================
