------------------------------ MODULE Builders ------------------------------
(***************************************************************************)
(* Invocations of the program that build standard derivatives at the same   *)
(* time, one or several, each after planning on an empty store (compare     *)
(* Fetchers).                                                               *)
(***************************************************************************)
EXTENDS BuildStandard

VARIABLES
    crowd,      \* the processes that were started (constant)
    plan,       \* per process: the derivatives it still has to build
    done        \* history: the derivatives whose build returned 0

runVars == <<vars, crowd, plan, done>>

RunInit ==
    /\ Init
    /\ crowd \in SUBSET Proc \ {{}}
    /\ plan = [p \in Proc |-> IF p \in crowd THEN Node ELSE {}]
    /\ done = {}

Take(p) ==
    \E n \in plan[p] :
        /\ Begin(p, n)
        /\ plan' = [plan EXCEPT ![p] = @ \ {n}]
        /\ UNCHANGED <<crowd, done>>

Finish(p) ==
    /\ job[p].pc = "returned"
    /\ IF job[p].code = "ok"
         THEN done' = done \cup {job[p].n} /\ UNCHANGED plan
         ELSE plan' = [plan EXCEPT ![p] = {}] /\ UNCHANGED done
    /\ job' = [job EXCEPT ![p] = NoJob]
    /\ UNCHANGED <<store, bdir, faults, crowd>>

Work(p) ==
    \/ Step(p, TRUE) /\ UNCHANGED <<crowd, plan, done>>
    \/ Take(p) \/ Finish(p)

\* A jail that blocked on its pipe has stopped the invocation for good, a pipe()
\* that failed has ended it.
Ended == \A p \in Proc :
            job[p].pc \in {"stuck", "exited"} \/ (job[p].pc = "idle" /\ plan[p] = {})

RunNext == (\E p \in Proc : Work(p)) \/ (Ended /\ UNCHANGED runVars)

\* Safety only: that an invocation comes to an end is checked in Calculus.
RunSpec == RunInit /\ [][RunNext]_runVars

-----------------------------------------------------------------------------
TypeOK ==
    /\ store \in [Node -> Object]
    /\ bdir \in [Node -> BuildDir]
    /\ job \in [Proc -> Job]
    /\ faults \in 0..MaxFaults
    /\ crowd \subseteq Proc
    /\ plan \in [Proc -> SUBSET Node]
    /\ done \subseteq Node

(* Nothing outside reaches into the root of a script that runs (build.c:    *)
(* "a completely isolated 'new' linux system from the host").               *)
Isolated == \A p \in Proc : job[p].pc = "running" => job[p].root = "path"

(* A directory in the store is filled by one process only.                  *)
OneCopier ==
    \A p, q \in Proc : Copying(p) /\ Copying(q) /\ job[p].n = job[q].n => p = q

\* The invocation has the machine to itself.
Alone == \A p, q \in crowd : p = q

(* When no call fails, what one invocation reports as built is complete; a  *)
(* second one could remove the build directory under it.                    *)
BuiltWhole == Alone /\ faults = 0 => \A n \in done : store[n].has = Whole(n)

(* A build that is reported as done left an object, whatever failed on the  *)
(* way and whoever else was at work; one invocation by itself never lets    *)
(* anything into it that is not the derivative's own.                       *)
BuiltExists ==
    \A n \in done : /\ Exists(store[n])
                    /\ Alone => store[n].has \subseteq Whole(n)
=============================================================================
