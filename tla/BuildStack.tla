----------------------------- MODULE BuildStack -----------------------------
(***************************************************************************)
(* The build planner: get_buildstack() and resolve_dependencies() of       *)
(* src/src/calculus/derivative.c.  Given the requested derivatives it       *)
(* walks the dependency graph depth first and queues, in postorder, every   *)
(* derivative whose store path does not exist yet.  calculus_main.c then    *)
(* builds the queue from the front, so the order of the queue is what       *)
(* guarantees that a build finds its dependencies in the store.             *)
(*                                                                          *)
(* Derivatives are numbered in the order in which they were registered.     *)
(* create_standard_derivative() receives the pointers of its dependencies,  *)
(* so a dependency always has a smaller number (module Registry checks this *)
(* as PlannerInput).  A fetch has no dependencies: it is a node with an     *)
(* empty list here.                                                         *)
(*                                                                          *)
(* The C recursion is an explicit stack of frames.  The only shared state   *)
(* the walk reads is the store, through fs_exists(): `present' may change   *)
(* between two steps, because another process of the program (or a person)  *)
(* may be adding or removing store paths.  MaxEnv bounds how often.         *)
(***************************************************************************)
EXTENDS Naturals, Sequences, SequencesExt

CONSTANTS
    N,          \* number of registered derivatives
    MaxDeps,    \* longest dependency list considered
    MaxEnv      \* how many changes of the store by others are considered

ASSUME NAssumption == N \in Nat
ASSUME MaxDepsAssumption == MaxDeps \in Nat
ASSUME MaxEnvAssumption == MaxEnv \in Nat

VARIABLES
    deps,       \* deps[n]: the dependency list of derivative n (constant)
    wanted,     \* the requested derivatives, in request order (constant)
    present,    \* derivatives whose store path exists
    w,          \* index of the next requested derivative to resolve
    visited,    \* the `visited' array of resolve_dependencies()
    found,      \* history: the nodes fs_exists() answered true for
    stack,      \* active calls of resolve_dependencies(): node, next index
    queue,      \* the `out_queue' array: the plan
    env         \* changes made by others so far

graph == <<deps, wanted>>
walk == <<w, visited, found, stack, queue>>
vars == <<graph, walk, present, env>>

Node == 1..N

\* Lists may repeat an entry: derivative() of luaenv.c does not look for
\* duplicates in its `deps' table.
Graphs == {g \in [Node -> BoundedSeq(Node, MaxDeps)] :
              \A n \in Node : \A i \in DOMAIN g[n] : g[n][i] < n}

\* request_derivative() never queues the same pointer twice.
Requests == {s \in BoundedSeq(Node, N) : IsInjective(s)}

Frames == [node : Node, i : Nat \ {0}]

Resolving == {stack[k].node : k \in DOMAIN stack}

Top == Last(stack)

Done == stack = <<>> /\ w > Len(wanted)

-----------------------------------------------------------------------------
Init ==
    /\ deps \in Graphs
    /\ wanted \in Requests
    /\ present \in SUBSET Node
    /\ w = 1
    /\ visited = {}
    /\ found = {}
    /\ stack = <<>>
    /\ queue = <<>>
    /\ env = 0

\* Mutant: the `visited' array is searched but never extended.
EnterUnmarked(n, callers) ==
    /\ visited' = visited
    /\ IF n \in present
         THEN found' = found \cup {n} /\ stack' = callers
         ELSE found' = found /\ stack' = Append(callers, [node |-> n, i |-> 1])

\* Mutant: the early return for an existing path is missing.
EnterPresent(n, callers) ==
    /\ visited' = visited \cup {n}
    /\ found' = IF n \in present \ visited THEN found \cup {n} ELSE found
    /\ stack' = IF n \in visited THEN callers
                ELSE Append(callers, [node |-> n, i |-> 1])

\* Mutant: the dependency loop starts at the wrong index.
EnterFromZero(n, callers) ==
    /\ visited' = visited \cup {n}
    /\ found' = IF n \in present \ visited THEN found \cup {n} ELSE found
    /\ stack' = IF n \in visited \cup present THEN callers
                ELSE Append(callers, [node |-> n, i |-> 0])

(* Entering resolve_dependencies(n) with the callers' frames `callers'.  It *)
(* returns at once for a visited node and for one whose path exists.        *)
Enter(n, callers) ==
    /\ visited' = visited \cup {n}
    /\ IF n \in visited
         THEN found' = found /\ stack' = callers
         ELSE IF n \in present
         THEN found' = found \cup {n} /\ stack' = callers
         ELSE found' = found /\ stack' = Append(callers, [node |-> n, i |-> 1])

(* The loop of get_buildstack() over the requested derivatives. *)
ResolveRoot ==
    /\ stack = <<>>
    /\ w <= Len(wanted)
    /\ w' = w + 1
    /\ Enter(wanted[w], <<>>)
    /\ UNCHANGED <<graph, queue, present, env>>

\* Mutant: the loop index is not advanced.
ResolveDepForever ==
    /\ stack # <<>>
    /\ Top.i <= Len(deps[Top.node])
    /\ Enter(deps[Top.node][Top.i], stack)
    /\ UNCHANGED <<graph, w, queue, present, env>>

(* The loop of resolve_dependencies() over the node's dependencies. *)
ResolveDep ==
    /\ stack # <<>>
    /\ Top.i <= Len(deps[Top.node])
    /\ Enter(deps[Top.node][Top.i], Append(Front(stack), [Top EXCEPT !.i = @ + 1]))
    /\ UNCHANGED <<graph, w, queue, present, env>>

\* Mutant: off by one, the last dependency is not waited for.
PushEarly ==
    /\ stack # <<>>
    /\ Top.i >= Len(deps[Top.node])
    /\ queue' = Append(queue, Top.node)
    /\ stack' = Front(stack)
    /\ UNCHANGED <<graph, w, visited, found, present, env>>

(* All dependencies resolved: the node is queued and the call returns. *)
Push ==
    /\ stack # <<>>
    /\ Top.i > Len(deps[Top.node])
    /\ queue' = Append(queue, Top.node)
    /\ stack' = Front(stack)
    /\ UNCHANGED <<graph, w, visited, found, present, env>>

(* Somebody else adds or removes a store path while the walk is running:    *)
(* a second process building, or its fetch() unlinking a bad download.      *)
Others ==
    /\ ~Done
    /\ env < MaxEnv
    /\ env' = env + 1
    /\ \E n \in Node : present' = IF n \in present THEN present \ {n}
                                                   ELSE present \cup {n}
    /\ UNCHANGED <<graph, walk>>

Walk == ResolveRoot \/ ResolveDep \/ Push

\* get_buildstack() has returned.
Planned == Done /\ UNCHANGED vars

Next == Walk \/ Others \/ Planned

Spec == Init /\ [][Next]_vars

\* The walk is plain sequential code: it keeps running.
FairSpec == Spec /\ WF_vars(Walk)

-----------------------------------------------------------------------------
TypeOK ==
    /\ deps \in Graphs
    /\ wanted \in Requests
    /\ present \subseteq Node
    /\ w \in 1..(Len(wanted) + 1)
    /\ visited \subseteq Node
    /\ found \subseteq Node
    /\ stack \in Seq(Frames)
    /\ queue \in Seq(Node)
    /\ env \in 0..MaxEnv

(* The order of the plan is usable: whenever a derivative is queued, each   *)
(* of its dependencies either was in the store when the walk asked for it   *)
(* or stands earlier in the queue.  (The comment of derivative.c, "Postorder *)
(* dependency sort instead of the accidental preorder one I had before".)   *)
PlanClosed ==
    \A q \in DOMAIN queue : \A i \in DOMAIN deps[queue[q]] :
        \/ deps[queue[q]][i] \in found
        \/ \E p \in 1..(q - 1) : queue[p] = deps[queue[q]][i]

(* No derivative is planned, and hence built, twice, however many paths of  *)
(* the graph and requests lead to it; and none is planned whose path the    *)
(* walk saw in the store.                                                   *)
PlanOnce ==
    /\ IsInjective(queue)
    /\ ToSet(queue) \cap found = {}

\* A set that contains every request and every dependency of its members,
\* the ones seen in the store excepted.
Demand(S) ==
    /\ \A k \in DOMAIN wanted : wanted[k] \in S \cup found
    /\ \A n \in S : \A i \in DOMAIN deps[n] : deps[n][i] \in S \cup found

(* A finished plan is exact: it satisfies the demand of the requests and    *)
(* every derivative in it is in every set that does (derivative.h: "the set *)
(* of derivatives that actually need to be built").                         *)
PlanExact ==
    Done => /\ Demand(ToSet(queue))
            /\ \A S \in SUBSET Node : Demand(S) => ToSet(queue) \subseteq S

(* Planning ends, even if the store changes all the time.                   *)
PlanEnds == <>Done
=============================================================================
