----------------------------- MODULE NasInstall -----------------------------
(***************************************************************************)
(* How the NAS agent brings the items of one leased manifest onto a disk:  *)
(* apps/nas-agent/src/archive-agent.ts, processLease and what it calls.    *)
(*                                                                         *)
(* An item is downloaded into a staging path, verified, and linked to its  *)
(* destination; then it is acknowledged.  Paths name inodes: between the   *)
(* link and the unlink both paths name the same one, and an open handle    *)
(* keeps writing to an inode that has meanwhile been given another name.   *)
(***************************************************************************)
EXTENDS Integers, Sequences, FiniteSets

CONSTANTS
  ItemCount,     \* items of the manifest, 1..ItemCount, taken in this order
  Size,          \* bytes of an item
  Processes,     \* agent processes on this disk; one dies and starts again
  Inodes,        \* files on the disk, by number
  MaxDownloads   \* downloadAttempts

ASSUME NasInstallAssumption ==
  {ItemCount, Size, MaxDownloads} \subseteq Nat \ {0} /\ Inodes \subseteq Nat

VARIABLES
  bytes,        \* bytes[n]: the content of inode n, TRUE for a right byte
  partial,      \* partial[i]: the inode at the staging path of item i, as a set
  destination,  \* destination[i]: the inode at its final path, as a set
  foreign,      \* items whose destination somebody else has put there
  holder,       \* the process that holds the lease, as a set
  acked,        \* items acknowledged
  proc          \* proc[p]: what process p is doing

nasVars == <<bytes, partial, destination, foreign, holder, acked, proc>>
disk == <<bytes, partial, destination, foreign>>

ManifestItems == 1..ItemCount
NoProc == [at |-> "idle", item |-> 1, verified |-> {}, offset |-> 0, fd |-> {}, attempt |-> 1]

NasInit ==
  /\ bytes = [n \in Inodes |-> << >>]
  /\ partial = [i \in ManifestItems |-> {}]
  /\ destination = [i \in ManifestItems |-> {}]
  /\ foreign = {}
  /\ holder = {}
  /\ acked = {}
  /\ proc = [p \in Processes |-> NoProc]

NasGoto(p, at) == proc' = [proc EXCEPT ![p].at = at]

Whole == [b \in 1..Size |-> TRUE]
At(path) == CHOOSE n \in path : TRUE

\* verifyFile: size and digest.
Verifies(path) == path # {} /\ bytes[At(path)] = Whole

Unused == {n \in Inodes :
             /\ \A i \in ManifestItems : n \notin partial[i] \cup destination[i]
             /\ \A p \in Processes : n \notin proc[p].fd}

\* A new file takes the first free number; which one makes no difference.
NewInode == {n \in Unused : \A m \in Unused : n <= m}

\* leaseNextJob; the first heartbeat finds the lease live.
TakeLease(p) ==
  /\ proc[p].at = "idle"
  /\ holder = {} /\ acked # ManifestItems
  /\ holder' = {p}
  /\ NasGoto(p, "prepare")
  /\ UNCHANGED <<disk, acked>>

\* The lease expires on the server; the process does not notice by itself.
LoseHold ==
  /\ holder # {}
  /\ holder' = {}
  /\ UNCHANGED <<disk, acked, proc>>

\* The process dies or fails: runOnce is left, the disk is as it is.
Leave(p) == proc' = [proc EXCEPT ![p] = NoProc]
Die(p) ==
  /\ proc[p].at # "idle"
  /\ Leave(p)
  /\ UNCHANGED <<disk, holder, acked>>

\* failJob gives the lease back.
FailRun(p) ==
  /\ proc[p].at = "fail"
  /\ Leave(p)
  /\ holder' = holder \ {p}
  /\ UNCHANGED <<disk, acked>>

\* Two failed heartbeats abort the run.
NoticeLoss(p) ==
  /\ proc[p].at \notin {"idle", "fail"}
  /\ p \notin holder
  /\ NasGoto(p, "fail")
  /\ UNCHANGED <<disk, holder, acked>>

\* prepareItems: a destination that exists must verify already.
Prepare(p) ==
  /\ proc[p].at = "prepare"
  /\ LET there == {i \in ManifestItems : destination[i] # {}} IN
       proc' = [proc EXCEPT
         ![p].at = IF \A i \in there : Verifies(destination[i]) THEN "item" ELSE "fail",
         ![p].verified = there]
  /\ UNCHANGED <<disk, holder, acked>>

NextItem(p) ==
  /\ proc[p].at = "item"
  /\ NasGoto(p, IF proc[p].item \in proc[p].verified THEN "acknowledge" ELSE "stage")
  /\ UNCHANGED <<disk, holder, acked>>

\* A retryable failure of an attempt.
RetryItem(p) ==
  proc' = [proc EXCEPT ![p].at = IF @ = "fail" \/ proc[p].attempt >= MaxDownloads
                                   THEN "fail" ELSE "stage",
                       ![p].attempt = @ + 1, ![p].fd = {}]

\* An attempt looks at what is staged: a whole file is installed, a wrong one
\* of full size is removed, and anything shorter is to be continued.
Stage(p) ==
  LET i == proc[p].item IN
  /\ proc[p].at = "stage"
  /\ \/ /\ Verifies(partial[i])
        /\ NasGoto(p, "install")
        /\ UNCHANGED disk
     \/ /\ partial[i] # {} /\ ~Verifies(partial[i]) /\ Len(bytes[At(partial[i])]) = Size
        /\ partial' = [partial EXCEPT ![i] = {}]
        /\ RetryItem(p)
        /\ UNCHANGED <<bytes, destination, foreign>>
     \/ /\ partial[i] # {} => Len(bytes[At(partial[i])]) < Size
        /\ proc' = [proc EXCEPT ![p].at = "download",
                      ![p].offset = IF partial[i] = {} THEN 0 ELSE Len(bytes[At(partial[i])])]
        /\ UNCHANGED disk
  /\ UNCHANGED <<holder, acked>>

\* open(partial, "w"): makes the file, or empties the inode that is there.
Emptied(i) ==
  IF partial[i] = {}
    THEN \E n \in NewInode :
           /\ partial' = [partial EXCEPT ![i] = {n}]
           /\ bytes' = [bytes EXCEPT ![n] = << >>]
    ELSE /\ bytes' = [bytes EXCEPT ![At(partial[i])] = << >>]
         /\ partial' = partial

\* The service answers a live lease: with the rest (206), or, ignoring the
\* range, with everything (200), for which validateDownloadResponse empties
\* the staged file.  Anything else fails the attempt.
DownloadAnswered(p, all) ==
  /\ proc[p].at = "download"
  /\ p \in holder
  /\ IF all /\ proc[p].offset > 0 THEN Emptied(proc[p].item) ELSE UNCHANGED <<bytes, partial>>
  /\ proc' = [proc EXCEPT ![p].at = "open", ![p].offset = IF all THEN 0 ELSE @]
  /\ UNCHANGED <<destination, foreign, holder, acked>>

DownloadFails(p) ==
  /\ proc[p].at = "download"
  /\ IF p \in holder THEN RetryItem(p) ELSE NasGoto(p, "fail")
  /\ UNCHANGED <<disk, holder, acked>>

\* writeResponseBody opens the file: "w" at offset 0, and else "r+", which
\* needs it to be there.
OpenPartial(p) ==
  LET i == proc[p].item IN
  /\ proc[p].at = "open"
  /\ IF proc[p].offset = 0 THEN Emptied(i) ELSE UNCHANGED <<bytes, partial>>
  /\ IF partial'[i] = {} THEN NasGoto(p, "fail")
     ELSE proc' = [proc EXCEPT ![p].at = "write", ![p].fd = partial'[i]]
  /\ UNCHANGED <<destination, foreign, holder, acked>>

\* handle.write at the position, past the end if another has cut the file.
Written(content, at, right) ==
  [b \in 1..(IF Len(content) > at THEN Len(content) ELSE at + 1) |->
     IF b = at + 1 THEN right ELSE b <= Len(content) /\ content[b]]

WriteByte(p, right) ==
  LET n == At(proc[p].fd) IN
  /\ proc[p].at = "write" /\ proc[p].offset < Size
  /\ bytes' = [bytes EXCEPT ![n] = Written(@, proc[p].offset, right)]
  /\ proc' = [proc EXCEPT ![p].offset = @ + 1]
  /\ UNCHANGED <<partial, destination, foreign, holder, acked>>

\* The body ends, early or not: truncate at the position, sync and close.
EndBody(p) ==
  LET n == At(proc[p].fd) IN
  /\ proc[p].at = "write"
  /\ bytes' = [bytes EXCEPT ![n] = [b \in 1..proc[p].offset |-> b <= Len(@) /\ @[b]]]
  /\ proc' = [proc EXCEPT ![p].at = "verify", ![p].fd = {}]
  /\ UNCHANGED <<partial, destination, foreign, holder, acked>>

\* The body breaks off with an error: nothing is cut.
BreakBody(p) ==
  /\ proc[p].at = "write"
  /\ RetryItem(p)
  /\ UNCHANGED <<disk, holder, acked>>

\* Mutant of Accepts: the size is enough.
AcceptsBySize(path) == path # {} /\ Len(bytes[At(path)]) = Size
Accepts(path) == Verifies(path)

\* A short file is kept for the next attempt, a wrong one is removed.
VerifyPartial(p) ==
  LET i == proc[p].item IN
  /\ proc[p].at = "verify"
  /\ \/ /\ Accepts(partial[i])
        /\ NasGoto(p, "install")
        /\ UNCHANGED partial
     \/ /\ ~Accepts(partial[i])
        /\ partial' = IF partial[i] # {} /\ Len(bytes[At(partial[i])]) = Size
                        THEN [partial EXCEPT ![i] = {}] ELSE partial
        /\ RetryItem(p)
  /\ UNCHANGED <<bytes, destination, foreign, holder, acked>>

\* Mutant of InstallExisting: the staged file goes before the other is verified.
UnlinkFirst(p) ==
  LET i == proc[p].item IN
  /\ proc[p].at = "install" /\ destination[i] # {}
  /\ partial' = [partial EXCEPT ![i] = {}]
  /\ NasGoto(p, IF Verifies(destination[i]) THEN "unlink" ELSE "fail")
  /\ UNCHANGED <<bytes, destination, foreign, holder, acked>>

\* installVerifiedFile finds the destination there, before or at the link
\* (EEXIST): it must verify.
InstallExisting(p) ==
  LET i == proc[p].item IN
  /\ proc[p].at = "install" /\ destination[i] # {}
  /\ NasGoto(p, IF Verifies(destination[i]) THEN "unlink" ELSE "fail")
  /\ UNCHANGED <<disk, holder, acked>>

\* link(partial, destination) fails if the destination is there.
Link(p) ==
  LET i == proc[p].item IN
  /\ proc[p].at = "install" /\ destination[i] = {}
  /\ destination' = [destination EXCEPT ![i] = partial[i]]
  /\ NasGoto(p, IF partial[i] = {} THEN "fail" ELSE "unlink")
  /\ UNCHANGED <<bytes, partial, foreign, holder, acked>>

\* A file system without links: renameFallback looks, and then renames.
NoLinks(p) ==
  /\ proc[p].at = "install" /\ destination[proc[p].item] = {}
  /\ NasGoto(p, "rename")
  /\ UNCHANGED <<disk, holder, acked>>

Rename(p) ==
  LET i == proc[p].item IN
  /\ proc[p].at = "rename"
  /\ destination' = [destination EXCEPT ![i] = IF partial[i] = {} THEN @ ELSE partial[i]]
  /\ foreign' = IF partial[i] = {} THEN foreign ELSE foreign \ {i}
  /\ partial' = [partial EXCEPT ![i] = {}]
  /\ NasGoto(p, IF partial[i] = {} THEN "fail" ELSE "acknowledge")
  /\ UNCHANGED <<bytes, holder, acked>>

Unlink(p) ==
  /\ proc[p].at = "unlink"
  /\ partial' = [partial EXCEPT ![proc[p].item] = {}]
  /\ NasGoto(p, "acknowledge")
  /\ UNCHANGED <<bytes, destination, foreign, holder, acked>>

\* acknowledgeItem, under a key made of the job and the item: again is the same.
AcknowledgeItem(p) ==
  LET i == proc[p].item IN
  /\ proc[p].at = "acknowledge"
  /\ IF p \in holder
       THEN /\ acked' = acked \cup {i}
            /\ IF i = ItemCount
                 THEN Leave(p) /\ holder' = {}  \* acknowledgeManifest ends the job
                 ELSE /\ proc' = [proc EXCEPT ![p].at = "item", ![p].item = @ + 1,
                                              ![p].attempt = 1, ![p].offset = 0]
                      /\ UNCHANGED holder
       ELSE NasGoto(p, "fail") /\ UNCHANGED <<holder, acked>>
  /\ UNCHANGED disk

\* Somebody puts another file where an item is to be.
PutForeign(i) ==
  /\ destination[i] = {}
  /\ \E n \in NewInode :
       /\ destination' = [destination EXCEPT ![i] = {n}]
       /\ bytes' = [bytes EXCEPT ![n] = << >>]
  /\ foreign' = foreign \cup {i}
  /\ UNCHANGED <<partial, holder, acked, proc>>

NasNext ==
  \/ LoseHold
  \/ \E i \in ManifestItems : PutForeign(i)
  \/ \E p \in Processes :
       \/ TakeLease(p) \/ Die(p) \/ FailRun(p) \/ NoticeLoss(p) \/ Prepare(p) \/ NextItem(p)
       \/ Stage(p) \/ DownloadFails(p) \/ OpenPartial(p) \/ EndBody(p) \/ BreakBody(p)
       \/ \E all \in BOOLEAN : DownloadAnswered(p, all)
       \/ \E right \in BOOLEAN : WriteByte(p, right)
       \/ VerifyPartial(p) \/ InstallExisting(p) \/ Link(p) \/ NoLinks(p) \/ Rename(p)
       \/ Unlink(p) \/ AcknowledgeItem(p)

NasSpec == NasInit /\ [][NasNext]_nasVars

----------------------------------------------------------------------------
(* Properties.                                                             *)

\* What the agent puts at a destination is the whole item from its first
\* moment on, whatever was cut, broken off, resumed or killed, and an item is
\* acknowledged only while that is so (archive-agent.ts:576).
InstalledIsWhole ==
  /\ \A i \in ManifestItems \ foreign : destination[i] # {} => Verifies(destination[i])
  /\ \A i \in acked : destination[i] # {} /\ i \notin foreign

\* A file staged whole is never lost: it stays until the destination is whole,
\* though the process dies or somebody else's file is in the way
\* (archive-agent.ts:385, :405).
StagedWholeIsKept ==
  [][\A i \in ManifestItems : Verifies(partial[i]) =>
       Verifies(partial[i])' \/ Verifies(destination[i])']_nasVars

=============================================================================
