----------------------------- MODULE FencedLock -----------------------------
(***************************************************************************)
(* What the lease of an archive job promises, without clocks, requests or  *)
(* rows: a lock with fencing numbers and a ledger.  Every grant raises the *)
(* epoch and supersedes the holder.  Only the current holder signs, an     *)
(* entry is signed once and for good, and it names the epoch that signed   *)
(* it.  Signing may end the holder's tenure.                               *)
(***************************************************************************)
EXTENDS Naturals

CONSTANTS Keys, MaxEpoch

VARIABLES epoch, holder, ledger

vars == <<epoch, holder, ledger>>

Init ==
    /\ epoch = 0
    /\ holder = 0
    /\ ledger = [k \in Keys |-> 0]

Grant ==
    /\ epoch < MaxEpoch
    /\ epoch' = epoch + 1
    /\ holder' = epoch'
    /\ UNCHANGED ledger

Sign(k) ==
    /\ holder # 0
    /\ ledger[k] = 0
    /\ ledger' = [ledger EXCEPT ![k] = holder]
    /\ holder' \in {holder, 0}
    /\ UNCHANGED epoch

Release ==
    /\ holder # 0
    /\ holder' = 0
    /\ UNCHANGED <<epoch, ledger>>

Next == Grant \/ Release \/ \E k \in Keys : Sign(k)

Spec == Init /\ [][Next]_vars

=============================================================================
