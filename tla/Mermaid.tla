------------------------------- MODULE Mermaid -------------------------------
(***************************************************************************)
(* The diagram of the build graph that mermaid() of src/src/calculus_main.c *)
(* prints: one walk writes a line for every node, a second one a line for   *)
(* every dependency.                                                        *)
(*                                                                          *)
(* Derivatives are numbered in the order of their registration, as in       *)
(* BuildStack.  `stack' is the C recursion.  sha256_to_hex() returns a      *)
(* buffer that its next call overwrites; a hash is its derivative.          *)
(***************************************************************************)
EXTENDS Naturals, Sequences, FiniteSets, SequencesExt

CONSTANTS
    Nodes,      \* number of derivatives
    MaxEdges    \* bound: dependencies of one derivative

VARIABLES
    deps,       \* dependency lists (constant)
    wanted,     \* the requested derivatives (constant)
    pass,       \* which walk it is, 3 once mermaid() has returned
    next,       \* requests this walk has begun with
    stack,      \* active calls: node, loop index, copy of the hash
    visited,    \* mermaid_visited
    hex,        \* what the buffer of sha256_to_hex() holds, 0 at first
    nodes,      \* the lines of the first walk
    edges       \* the lines of the second

vars == <<deps, wanted, pass, next, stack, visited, hex, nodes, edges>>

Node == 1..Nodes

Graphs == {g \in [Node -> BoundedSeq(Node, MaxEdges)] :
              \A n \in Node : \A i \in DOMAIN g[n] : g[n][i] < n}

Top == Last(stack)

Init ==
    /\ deps \in Graphs
    /\ wanted \in {w \in BoundedSeq(Node, Nodes) : IsInjective(w)}
    /\ pass = 1 /\ next = 0
    /\ stack = <<>> /\ visited = <<>>
    /\ hex = 0
    /\ nodes = <<>> /\ edges = <<>>

\* A frame of mermaid_step2() has a strdup() of its hash.
Frame(n) == [node |-> n, i |-> 0, hash |-> n]

(* The head of mermaid_step1() and mermaid_step2(): a node that was visited *)
(* is left alone.                                                           *)
Visit(n, callers) ==
    IF Contains(visited, n)
      THEN stack' = callers /\ UNCHANGED <<visited, nodes>>
      ELSE /\ stack' = Append(callers, Frame(n))
           /\ visited' = Append(visited, n)
           /\ nodes' = IF pass = 1 THEN Append(nodes, n) ELSE nodes

\* The calls leave the last hash they converted in the buffer.
Converts(n) == hex' = IF Contains(visited, n) THEN hex ELSE n

(* The loops of mermaid() over the requests.                                *)
VisitWanted ==
    /\ pass \in {1, 2} /\ stack = <<>> /\ next < Len(wanted)
    /\ next' = next + 1
    /\ Visit(wanted[next'], <<>>)
    /\ Converts(wanted[next'])
    /\ UNCHANGED <<deps, wanted, pass, edges>>

\* The caller's frame, one dependency further.
Advanced == Append(Front(stack), [Top EXCEPT !.i = @ + 1])

MoreDeps == stack # <<>> /\ Top.i < Len(deps[Top.node])

\* Mutant: the hash of the node is not copied, only its address kept.
EdgeAliased(d) == hex' = d /\ edges' = Append(edges, <<hex', hex'>>)

(* The line of a dependency: its hash is converted for the line, that of    *)
(* the node was copied when the frame was made.                             *)
Edge(d) == hex' = d /\ edges' = Append(edges, <<hex', Top.hash>>)

(* One turn of the loop over the dependencies.                              *)
VisitDep ==
    /\ MoreDeps
    /\ LET d == deps[Top.node][Top.i + 1] IN
       /\ Visit(d, Advanced)
       /\ \/ pass = 1 /\ Converts(d) /\ UNCHANGED edges
          \/ pass = 2 /\ Edge(d)
    /\ UNCHANGED <<deps, wanted, pass, next>>

LeaveNode ==
    /\ stack # <<>> /\ ~MoreDeps
    /\ stack' = Front(stack)
    /\ UNCHANGED <<deps, wanted, pass, next, visited, hex, nodes, edges>>

(* The end of a walk; the visited list is freed between the two.            *)
EndPass ==
    /\ pass \in {1, 2} /\ stack = <<>> /\ next = Len(wanted)
    /\ pass' = pass + 1
    /\ next' = 0
    /\ visited' = IF pass = 1 THEN <<>> ELSE visited
    /\ UNCHANGED <<deps, wanted, stack, hex, nodes, edges>>

Drawn == pass = 3

Next == VisitWanted \/ VisitDep \/ LeaveNode \/ EndPass \/ (Drawn /\ UNCHANGED vars)

Fairness == WF_vars(Next)

Spec == Init /\ [][Next]_vars /\ Fairness

-----------------------------------------------------------------------------
TypeOK ==
    /\ deps \in Graphs /\ wanted \in Seq(Node)
    /\ pass \in 1..3 /\ next \in 0..Len(wanted)
    /\ stack \in Seq([node : Node, i : Nat, hash : Node])
    /\ visited \in Seq(Node) /\ hex \in 0..Nodes
    /\ nodes \in Seq(Node) /\ edges \in Seq(Node \X Node)

\* What the requests need, whatever the store holds.
Needed ==
    LET Closed(S) == ToSet(wanted) \subseteq S
                     /\ \A n \in S : ToSet(deps[n]) \subseteq S
    IN {n \in Node : \A S \in SUBSET Node : Closed(S) => n \in S}

\* How often a sequence has an element.
Times(e, s) == Cardinality({k \in DOMAIN s : s[k] = e})

(* The diagram is the graph: every derivative the requests need, and no     *)
(* other, has one line, and the arrows between them are the dependencies,   *)
(* as often as the recipe lists them, from what is used to its user.        *)
DiagramRight ==
    Drawn =>
        /\ IsInjective(nodes) /\ ToSet(nodes) = Needed
        /\ \A d, g \in Node :
              Times(<<d, g>>, edges) = IF g \in Needed THEN Times(d, deps[g]) ELSE 0
=============================================================================
