------------------------------ MODULE Calculus ------------------------------
(***************************************************************************)
(* One user's invocations of the program, one after the other: main() of    *)
(* src/src/calculus_main.c plans with BuildStack, then takes the plan from  *)
(* the front and hands each derivative to Fetch or BuildStandard, until it  *)
(* is done or one of them fails.  The invocation may be killed at any       *)
(* point, after which the user starts another with the same script.         *)
(*                                                                          *)
(* The store, the temporary file and the build directories survive; all     *)
(* other state is the process's.  MaxRuns and MaxCrashes are bounds.        *)
(***************************************************************************)
EXTENDS Naturals, Sequences, FiniteSets

CONSTANTS
    N, K,           \* see ObjectStore
    Parts,          \* see BuildStandard
    Deps,           \* Deps[n]: the dependency list of derivative n
    Archive,        \* the fetches with extract = true
    PlainFile,      \* the fetches with extract = false
    Wanted,         \* the requested derivatives, in order
    MaxFaults, MaxCrashes, MaxRuns

VARIABLES
    store, tmp, bdir, faults,           \* see Fetch and BuildStandard
    w, visited, found, stack, queue,    \* see BuildStack
    fetching, building,                 \* the jobs of Fetch and BuildStandard
    phase,          \* where main() is
    current,        \* the derivative build_derivative() was called for
    sealed,         \* history: derivatives for which it returned 0
    runs, crashes   \* invocations and kills so far

disk == <<store, tmp, bdir>>
planner == <<w, visited, found, stack, queue>>
jobs == <<fetching, building>>
history == <<sealed, runs, crashes>>
vars == <<disk, faults, planner, jobs, phase, current, history>>

Plan == INSTANCE BuildStack
            WITH deps <- Deps, wanted <- Wanted, env <- 0,
                 MaxDeps <- N, MaxEnv <- 0,
                 present <- {n \in 1..N : store[n].kind # "none"}

Main == "main"

F == INSTANCE Fetch WITH Proc <- {Main}, job <- fetching
B == INSTANCE BuildStandard WITH Proc <- {Main}, job <- building

Node == 1..N
Standard == Node \ (Archive \cup PlainFile)
DepSet(n) == {Deps[n][i] : i \in DOMAIN Deps[n]}

ASSUME GraphAssumption ==
    /\ Deps \in Plan!Graphs
    /\ Wanted \in Plan!Requests
    /\ Archive \cap PlainFile = {}
    /\ \A n \in Archive \cup PlainFile : Deps[n] = <<>>

ASSUME SizeAssumption == N \in Nat /\ K \in Nat \ {0} /\ Parts \in Nat \ {0}

Phases == {"idle", "plan", "loop", "build"}

Intact(n) == store[n].has = F!Whole(n)

-----------------------------------------------------------------------------
Init ==
    /\ F!Init
    /\ bdir = [n \in Node |-> B!NoDir]
    /\ building = [p \in {Main} |-> B!NoJob]
    /\ w = 1 /\ visited = {} /\ found = {} /\ stack = <<>> /\ queue = <<>>
    /\ phase = "idle"
    /\ current = 0
    /\ sealed = {}
    /\ runs = 0
    /\ crashes = 0

(* The user starts the program; the script requests the same derivatives.   *)
Start ==
    /\ phase = "idle"
    /\ runs < MaxRuns
    /\ runs' = runs + 1
    /\ phase' = "plan"
    /\ w' = 1 /\ visited' = {} /\ found' = {} /\ stack' = <<>> /\ queue' = <<>>
    /\ UNCHANGED <<disk, faults, jobs, current, sealed, crashes>>

(* get_buildstack()                                                         *)
PlanStep ==
    /\ phase = "plan"
    /\ UNCHANGED <<disk, faults, jobs, phase, current, history>>
    /\ Plan!Walk

Planned ==
    /\ phase = "plan"
    /\ Plan!Done
    /\ phase' = "loop"
    /\ UNCHANGED <<disk, faults, planner, jobs, current, history>>

\* Mutant: the front of the plan is read but not deleted.
TakePeek ==
    /\ phase = "loop"
    /\ queue # <<>>
    /\ current' = Head(queue)
    /\ phase' = "build"
    /\ IF current' \in Standard
         THEN B!Begin(Main, current') /\ UNCHANGED <<tmp, fetching>>
         ELSE F!Begin(Main, current') /\ UNCHANGED <<bdir, building>>
    /\ UNCHANGED <<planner, history>>

\* Mutant: the plan is taken from its end, as the stack it once was.
TakeLast ==
    /\ phase = "loop"
    /\ queue # <<>>
    /\ current' = queue[Len(queue)]
    /\ queue' = SubSeq(queue, 1, Len(queue) - 1)
    /\ phase' = "build"
    /\ IF current' \in Standard
         THEN B!Begin(Main, current') /\ UNCHANGED <<tmp, fetching>>
         ELSE F!Begin(Main, current') /\ UNCHANGED <<bdir, building>>
    /\ UNCHANGED <<w, visited, found, stack, history>>

(* buildstack_next(), and build_derivative() dispatches.                    *)
Take ==
    /\ phase = "loop"
    /\ queue # <<>>
    /\ current' = Head(queue)
    /\ queue' = Tail(queue)
    /\ phase' = "build"
    /\ IF current' \in Standard
         THEN B!Begin(Main, current') /\ UNCHANGED <<tmp, fetching>>
         ELSE F!Begin(Main, current') /\ UNCHANGED <<bdir, building>>
    /\ UNCHANGED <<w, visited, found, stack, history>>

(* The builders at work.  A standard build is sound if its dependencies are *)
(* what they should be.                                                     *)
FetchStep ==
    /\ phase = "build"
    /\ F!Step(Main)
    /\ UNCHANGED <<bdir, building, planner, phase, current, history>>

BuildStep ==
    /\ phase = "build"
    /\ B!Step(Main, \A d \in DepSet(current) : Intact(d))
    /\ UNCHANGED <<tmp, fetching, planner, phase, current, history>>

Succeeded == \/ fetching[Main].pc = "returned" /\ fetching[Main].result = "ok"
             \/ building[Main].pc = "returned" /\ building[Main].code = "ok"

Failed == \/ fetching[Main].pc = "returned" /\ fetching[Main].result = "fail"
          \/ building[Main].pc = "returned" /\ building[Main].code = "fail"
          \/ building[Main].pc = "exited"

NoJobs == fetching' = [p \in {Main} |-> F!NoJob] /\ building' = [p \in {Main} |-> B!NoJob]

\* Mutant: the loop goes on after a failure.
ReturnedAnyhow ==
    /\ phase = "build"
    /\ Succeeded \/ Failed
    /\ sealed' = IF Succeeded THEN sealed \cup {current} ELSE sealed
    /\ phase' = "loop"
    /\ current' = 0
    /\ NoJobs
    /\ UNCHANGED <<disk, faults, planner, runs, crashes>>

(* build_derivative() returns: the loop goes on or breaks.                  *)
Returned ==
    /\ phase = "build"
    /\ \/ Succeeded /\ sealed' = sealed \cup {current} /\ phase' = "loop"
       \/ Failed /\ sealed' = sealed /\ phase' = "idle"
    /\ current' = 0
    /\ NoJobs
    /\ UNCHANGED <<disk, faults, planner, runs, crashes>>

(* The plan is used up: main() returns.                                     *)
Finish ==
    /\ phase = "loop"
    /\ queue = <<>>
    /\ phase' = "idle"
    /\ UNCHANGED <<disk, faults, planner, jobs, current, history>>

(* The invocation and its jail are killed, or the machine stops.            *)
Crash ==
    /\ phase # "idle"
    /\ crashes < MaxCrashes
    /\ crashes' = crashes + 1
    /\ phase' = "idle"
    /\ current' = 0
    /\ NoJobs
    /\ UNCHANGED <<disk, faults, planner, sealed, runs>>

Work == PlanStep \/ Planned \/ Take \/ FetchStep \/ BuildStep \/ Returned \/ Finish

\* A jail that blocked on its pipe has stopped the invocation for good.
Stuck == building[Main].pc = "stuck"

UserDone == (Stuck \/ (phase = "idle" /\ runs = MaxRuns)) /\ UNCHANGED vars

Next == Work \/ Start \/ Crash \/ UserDone

\* The program is sequential code whose calls return; the user starts it
\* again as long as MaxRuns allows.
Spec == Init /\ [][Next]_vars /\ WF_vars(Work) /\ WF_vars(Start)

-----------------------------------------------------------------------------
TypeOK ==
    /\ store \in [Node -> F!Object]
    /\ tmp \in F!Object
    /\ bdir \in [Node -> B!BuildDir]
    /\ faults \in 0..MaxFaults
    /\ fetching \in [{Main} -> F!Job]
    /\ building \in [{Main} -> B!Job]
    /\ phase \in Phases
    /\ current \in 0..N
    /\ (phase = "build" <=> current # 0)
    /\ sealed \subseteq Node
    /\ runs \in 0..MaxRuns
    /\ crashes \in 0..MaxCrashes

(* When a jail is started, the store holds an object for each of the        *)
(* dependencies it will mount: whatever failed or was killed before.        *)
DepsPresent ==
    building[Main].pc \in B!JailPcs =>
        \A d \in DepSet(current) : F!Exists(store[d])

(* A derivative for which build_derivative() returned 0 is never touched    *)
(* again: not rebuilt, truncated or removed by this or a later invocation.  *)
SealedImmutable ==
    [][\A n \in sealed : store'[n] = store[n]]_vars

(* Without failing calls and kills, the store only ever holds complete      *)
(* objects, apart from the one being made, and a finished invocation has    *)
(* provided all that was requested.                                         *)
CleanStore ==
    faults = 0 /\ crashes = 0 =>
        /\ \A n \in Node \ {current} : F!Exists(store[n]) => Intact(n)
        /\ phase = "idle" /\ runs > 0 =>
              \A i \in DOMAIN Wanted : F!Exists(store[Wanted[i]])

(* A plan contains every derivative the requests need and the store does    *)
(* not hold complete (derivative.h: "the set of derivatives that actually   *)
(* need to be built").                                                      *)
PlanCoversIncomplete ==
    phase = "loop" /\ current = 0 /\ w > Len(Wanted) =>
        \A n \in visited : Intact(n) \/ n \in sealed \/ \E i \in DOMAIN queue : queue[i] = n

(* Every invocation ends, unless its jail prints more than a pipe holds     *)
(* while no log could be opened to read it.                                 *)
RunEnds == phase # "idle" ~> phase = "idle" \/ (Stuck /\ building[Main].log = "unread")

-----------------------------------------------------------------------------
\* The life of each object, as StoreSpec sees it.
StatusOf(n) ==
    CASE ~F!Exists(store[n]) -> "absent"
      [] F!Exists(store[n]) /\ n \in sealed -> "sealed"
      [] F!Exists(store[n]) /\ n \notin sealed /\ n = current -> "open"
      [] OTHER -> "residue"

Abstract == INSTANCE StoreSpec
                WITH Item <- Node, Needs <- [n \in Node |-> DepSet(n)],
                     status <- [n \in Node |-> StatusOf(n)]

(* The program implements StoreSpec: objects are started in dependency      *)
(* order, one at a time, and left alone for ever once sealed or given up.   *)
StoreLifecycle == Abstract!Spec
=============================================================================
