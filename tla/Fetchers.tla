------------------------------ MODULE Fetchers ------------------------------
(***************************************************************************)
(* Invocations of the program that fetch at the same time: one alone, or    *)
(* several.  Each planned while the store was empty, takes the fetches of   *)
(* its plan one by one and stops at the first that fails, as the loop of    *)
(* calculus_main.c does.                                                    *)
(***************************************************************************)
EXTENDS Fetch

VARIABLES
    crowd,      \* the processes that were started (constant)
    plan,       \* per process: the fetches it still has to do
    done        \* history: the fetches that returned 0 to a process

runVars == <<vars, crowd, plan, done>>

RunInit ==
    /\ Init
    /\ crowd \in SUBSET Proc \ {{}}
    /\ plan = [p \in Proc |-> IF p \in crowd THEN Node ELSE {}]
    /\ done = {}

Take(p) ==
    \E n \in plan[p] :
        /\ Begin(p, n)
        /\ plan' = [plan EXCEPT ![p] = @ \ {n}]
        /\ UNCHANGED <<crowd, done>>

Finish(p) ==
    /\ job[p].pc = "returned"
    /\ IF job[p].result = "ok"
         THEN done' = done \cup {job[p].n} /\ UNCHANGED plan
         ELSE plan' = [plan EXCEPT ![p] = {}] /\ UNCHANGED done
    /\ job' = [job EXCEPT ![p] = NoJob]
    /\ UNCHANGED <<store, tmp, faults, crowd>>

Work(p) == (Step(p) /\ UNCHANGED <<crowd, plan, done>>) \/ Take(p) \/ Finish(p)

Ended == \A p \in Proc : job[p].pc = "idle" /\ plan[p] = {}

RunNext == (\E p \in Proc : Work(p)) \/ (Ended /\ UNCHANGED runVars)

\* Safety only: that an invocation comes to an end is checked in Calculus.
RunSpec == RunInit /\ [][RunNext]_runVars

-----------------------------------------------------------------------------
TypeOK ==
    /\ store \in [Node -> Object]
    /\ tmp \in Object
    /\ job \in [Proc -> Job]
    /\ faults \in 0..MaxFaults
    /\ crowd \subseteq Proc
    /\ plan \in [Proc -> SUBSET Node]
    /\ done \subseteq Node

Extracting(p) == job[p].pc \in {"unpack", "extract", "extracted"}

(* mkdir() of the store path is the lock of an archive: of all invocations  *)
(* fetching it, at most one gets to extract into its directory.             *)
OneExtractor ==
    \A p, q \in Proc :
        Extracting(p) /\ Extracting(q) /\ job[p].n = job[q].n => p = q

\* The invocation has the machine to itself.
Alone == \A p, q \in crowd : p = q

(* A file that fetch() reported as fetched has exactly the expected bytes,  *)
(* whatever the server sent before and whichever call failed.  For one      *)
(* invocation: a second one may truncate the file.                          *)
FetchedFileVerified ==
    Alone => \A n \in done \ Archive : store[n].kind = "file" /\ store[n].has = Whole(n)

(* No entry of any other derivative or of an unverified download gets into  *)
(* the directory of an archive ("Fixed - Which we verify hashes of").       *)
ArchivePure ==
    \A n \in Archive : store[n].has \subseteq Whole(n)

(* It is so for one invocation, whatever fails: the hash of the download    *)
(* stands between the network and the store.                                *)
ArchivePureAlone == Alone => ArchivePure

(* A directory in the store is never unlinked, emptied or replaced.         *)
DirOnlyGrows ==
    [][\A n \in Node : store[n].kind = "dir" =>
          store'[n].kind = "dir" /\ store[n].has \subseteq store'[n].has]_runVars
=============================================================================
