-------------------------- MODULE BuildStackProofs --------------------------
(***************************************************************************)
(* The planner of derivative.c proved correct for every dependency graph,  *)
(* every list of requests and any interference of others with the store.   *)
(***************************************************************************)
EXTENDS BuildStack, SequenceTheorems, TLAPS

(* visited is split between the active calls, the queue and the store hits. *)
VisitedSplit ==
    /\ visited = Resolving \cup ToSet(queue) \cup found
    /\ Resolving \cap ToSet(queue) = {}
    /\ Resolving \cap found = {}

(* A call is made by the frame below it, for a dependency: numbers go down. *)
StackDescends ==
    \A j, k \in DOMAIN stack : j < k => stack[k].node < stack[j].node

(* The dependencies a frame has passed are settled or, for the last one     *)
(* passed, being resolved by the frame above.                               *)
FramesSettled ==
    \A k \in DOMAIN stack :
        /\ stack[k].i <= Len(deps[stack[k].node]) + 1
        /\ \A i \in 1..(stack[k].i - 1) :
              \/ deps[stack[k].node][i] \in ToSet(queue) \cup found
              \/ k < Len(stack) /\ deps[stack[k].node][i] = stack[k + 1].node

(* The inductive invariant.                                                 *)
PlanInv ==
    /\ TypeOK
    /\ VisitedSplit
    /\ StackDescends
    /\ FramesSettled
    /\ PlanClosed
    /\ PlanOnce

-----------------------------------------------------------------------------
(* The graph and the requests are what their types say.                     *)
LEMMA GraphFacts ==
    ASSUME TypeOK
    PROVE  /\ \A n \in Node : deps[n] \in Seq(Node)
           /\ \A n \in Node : \A i \in 1..Len(deps[n]) :
                 deps[n][i] \in Node /\ deps[n][i] < n
           /\ wanted \in Seq(Node)
<1>1. deps \in [Node -> BoundedSeq(Node, MaxDeps)]
  BY DEF TypeOK, Graphs
<1>2. \A n \in Node : deps[n] \in Seq(Node)
  BY <1>1, MaxDepsAssumption DEF BoundedSeq, SeqOf
<1>3. \A n \in Node : \A i \in 1..Len(deps[n]) :
         deps[n][i] \in Node /\ deps[n][i] < n
  BY <1>2 DEF TypeOK, Graphs
<1>4. wanted \in Seq(Node)
  BY NAssumption DEF TypeOK, Requests, BoundedSeq, SeqOf
<1> QED BY <1>2, <1>3, <1>4

(* The planner starts in a state that satisfies the invariant.              *)
LEMMA PlanInit == Init => PlanInv
<1> SUFFICES ASSUME Init PROVE PlanInv
  OBVIOUS
<1>1. wanted \in Seq(Node)
  BY NAssumption DEF Init, Requests, BoundedSeq, SeqOf
<1>2. TypeOK
  BY <1>1, MaxEnvAssumption DEF Init, TypeOK
<1>3. ToSet(queue) = {} /\ Resolving = {}
  BY DEF Init, ToSet, Resolving
<1>4. VisitedSplit /\ StackDescends /\ FramesSettled
  BY <1>3 DEF Init, VisitedSplit, StackDescends, FramesSettled
<1>5. PlanClosed /\ PlanOnce
  BY <1>3 DEF Init, PlanClosed, PlanOnce, IsInjective
<1> QED BY <1>2, <1>4, <1>5 DEF PlanInv

(* What a call of resolve_dependencies() does, for any callers' frames that *)
(* hold the nodes being resolved: the three ways Enter can go.              *)
LEMMA EnterCases ==
    ASSUME NEW n, NEW callers, Enter(n, callers)
    PROVE  \/ n \in visited /\ stack' = callers
              /\ visited' = visited /\ found' = found
           \/ n \notin visited /\ stack' = callers
              /\ visited' = visited \cup {n} /\ found' = found \cup {n}
           \/ n \notin visited /\ stack' = Append(callers, [node |-> n, i |-> 1])
              /\ visited' = visited \cup {n} /\ found' = found
BY DEF Enter

(* A node enters the walk from the list of requests.                        *)
LEMMA RootStep == PlanInv /\ ResolveRoot => PlanInv'
<1> SUFFICES ASSUME PlanInv, ResolveRoot PROVE PlanInv'
  OBVIOUS
<1> DEFINE n == wanted[w]
<1> USE DEF PlanInv
<1>1. wanted \in Seq(Node) /\ w \in 1..Len(wanted) /\ n \in Node
  BY GraphFacts DEF TypeOK, ResolveRoot
<1>2. UNCHANGED <<deps, wanted, present, queue, env>> /\ w' = w + 1 /\ stack = <<>>
  BY DEF ResolveRoot, graph
<1>3. Resolving = {}
  BY <1>2 DEF Resolving
<1> HIDE DEF n
<1>4. CASE n \in visited /\ stack' = <<>> /\ visited' = visited /\ found' = found
  BY <1>1, <1>2, <1>4 DEF TypeOK, VisitedSplit, StackDescends, FramesSettled,
       PlanClosed, PlanOnce, Resolving, ToSet
<1>5. CASE /\ n \notin visited /\ stack' = <<>>
           /\ visited' = visited \cup {n} /\ found' = found \cup {n}
  <2>1. TypeOK' /\ StackDescends' /\ FramesSettled'
    BY <1>1, <1>2, <1>5 DEF TypeOK, StackDescends, FramesSettled
  <2>2. Resolving' = {} /\ ToSet(queue)' = ToSet(queue)
    BY <1>2, <1>5 DEF Resolving, ToSet
  <2>3. VisitedSplit'
    BY <1>3, <1>5, <2>2 DEF VisitedSplit
  <2>4. PlanClosed'
    BY <1>2, <1>5 DEF PlanClosed
  <2>5. PlanOnce'
    BY <1>2, <1>5, <2>2 DEF PlanOnce, VisitedSplit
  <2> QED BY <2>1, <2>3, <2>4, <2>5
<1>6. CASE /\ n \notin visited /\ stack' = <<[node |-> n, i |-> 1]>>
           /\ visited' = visited \cup {n} /\ found' = found
  <2>1. TypeOK'
    BY <1>1, <1>2, <1>6 DEF TypeOK, Frames
  <2>2. Resolving' = {n} /\ ToSet(queue)' = ToSet(queue)
    BY <1>2, <1>6 DEF Resolving, ToSet
  <2>3. VisitedSplit'
    BY <1>3, <1>6, <2>2 DEF VisitedSplit
  <2>4. StackDescends'
    BY <1>6 DEF StackDescends
  <2>5. FramesSettled'
    BY <1>1, <1>2, <1>6, GraphFacts DEF FramesSettled
  <2>6. PlanClosed' /\ PlanOnce'
    BY <1>2, <1>6, <2>2 DEF PlanClosed, PlanOnce
  <2> QED BY <2>1, <2>3, <2>4, <2>5, <2>6
<1>7. Append(<<>>, [node |-> n, i |-> 1]) = <<[node |-> n, i |-> 1]>>
  OBVIOUS
<1> QED BY <1>4, <1>5, <1>6, <1>7, EnterCases DEF ResolveRoot, n

(* A node enters the walk as a dependency of the node on top of the stack.  *)
LEMMA DepStep == PlanInv /\ ResolveDep => PlanInv'
<1> SUFFICES ASSUME PlanInv, ResolveDep PROVE PlanInv'
  OBVIOUS
<1> DEFINE L == Len(stack)
           p == stack[L].node
           j == stack[L].i
           n == deps[p][j]
           callers == Append(Front(stack), [Top EXCEPT !.i = @ + 1])
<1> USE DEF PlanInv
<1>1. /\ stack \in Seq(Frames) /\ L \in Nat \ {0}
      /\ p \in Node /\ j \in 1..Len(deps[p]) /\ n \in Node /\ n < p
  <2>1. stack \in Seq(Frames) /\ L \in Nat \ {0} /\ stack[L] \in Frames
    BY DEF TypeOK, ResolveDep
  <2>2. p \in Node /\ j \in Nat \ {0}
    BY <2>1 DEF Frames
  <2>3. j <= Len(deps[p])
    BY DEF ResolveDep, Top, Last
  <2> QED BY <2>1, <2>2, <2>3, GraphFacts
<1>2. UNCHANGED <<deps, wanted, w, present, queue, env>>
  BY DEF ResolveDep, graph
<1>3. /\ callers \in Seq(Frames) /\ Len(callers) = L
      /\ \A k \in 1..L : callers[k].node = stack[k].node
      /\ \A k \in 1..(L - 1) : callers[k] = stack[k]
      /\ callers[L].i = j + 1 /\ callers[L].node = p
  <2>1. Top = stack[L] /\ Top \in Frames
    BY <1>1 DEF Top, Last
  <2>2. /\ Front(stack) \in Seq(Frames) /\ Len(Front(stack)) = L - 1
        /\ \A k \in 1..(L - 1) : Front(stack)[k] = stack[k]
    <3>1. \A k \in 1..(L - 1) : stack[k] \in Frames
      BY <1>1
    <3>2. 1 \in Int /\ L - 1 \in Int /\ Front(stack) = SubSeq(stack, 1, L - 1)
      BY <1>1 DEF Front
    <3> HIDE DEF L
    <3> QED BY <1>1, <3>1, <3>2, SubSeqProperties
  <2>3. [Top EXCEPT !.i = @ + 1] = [node |-> p, i |-> j + 1]
    BY <2>1 DEF Frames
  <2>4. [node |-> p, i |-> j + 1] \in Frames
    BY <1>1 DEF Frames
  <2> QED BY <1>1, <2>2, <2>3, <2>4
<1>4. Enter(n, callers)
  BY DEF ResolveDep, Top, Last
<1>5. /\ DOMAIN stack = 1..L /\ DOMAIN callers = 1..L
      /\ \A k \in 1..L : stack[k].node \in Node /\ stack[k].i \in Nat \ {0}
      /\ stack[L].node = p /\ stack[L].i = j /\ deps[p][j] = n /\ Len(stack) = L
  <2>1. DOMAIN stack = 1..L /\ DOMAIN callers = 1..L
    BY <1>1, <1>3
  <2>2. \A k \in 1..L : stack[k] \in Frames
    BY <1>1
  <2> QED BY <2>1, <2>2 DEF Frames
<1> HIDE DEF L, p, j, n, callers
<1>6. Resolving = {stack[k].node : k \in 1..L} /\ Resolving = {callers[k].node : k \in 1..L}
  BY <1>3, <1>5 DEF Resolving
<1>11. /\ p \in Nat /\ n \in Nat /\ \A k \in 1..L : stack[k].node \in Nat
       /\ \A k \in 1..L : k = L \/ p < stack[k].node
       /\ \A k \in 1..L : n < stack[k].node
  <2>1. p \in Nat /\ n \in Nat /\ \A k \in 1..L : stack[k].node \in Nat
    BY <1>1, <1>5, NAssumption DEF Node
  <2>2. \A i, k \in 1..L : i < k => stack[k].node < stack[i].node
    BY <1>5 DEF StackDescends
  <2>3. ASSUME NEW k \in 1..L PROVE k = L \/ p < stack[k].node
    <3>1. CASE k < L
      <4>1. stack[L].node < stack[k].node
        BY <1>1, <2>2, <3>1
      <4> QED BY <1>5, <4>1
    <3> QED BY <1>1, <3>1
  <2> QED BY <1>1, <1>5, <2>1, <2>3
<1>12. \A k \in 1..L :
          /\ stack[k].i <= Len(deps[stack[k].node]) + 1
          /\ \A i \in 1..(stack[k].i - 1) :
                \/ deps[stack[k].node][i] \in ToSet(queue) \cup found
                \/ k < L /\ deps[stack[k].node][i] = stack[k + 1].node
  BY <1>5 DEF FramesSettled
<1>13. /\ j \in Nat \ {0} /\ j + 1 <= Len(deps[p]) + 1
       /\ \A i \in 1..(j - 1) : deps[p][i] \in ToSet(queue) \cup found
  <2>1. j \in Nat \ {0} /\ Len(deps[p]) \in Nat /\ j <= Len(deps[p])
    BY <1>1, GraphFacts
  <2>2. L \in 1..L /\ ~(L < L)
    BY <1>1
  <2> HIDE DEF PlanInv
  <2>3. \A i \in 1..(j - 1) : deps[p][i] \in ToSet(queue) \cup found
    BY <1>5, <1>12, <2>2
  <2> QED BY <2>1, <2>3
<1>7. p \in Resolving /\ n \notin Resolving
  <2>1. p \in Resolving
    BY <1>1, <1>5, <1>6
  <2>2. \A k \in 1..L : n < stack[k].node
    BY <1>1, <1>11
  <2> QED BY <1>1, <1>6, <1>11, <2>1, <2>2
<1>8. ToSet(queue)' = ToSet(queue)
  BY <1>2 DEF ToSet
<1>9. CASE stack' = callers
           /\ \/ n \in visited /\ visited' = visited /\ found' = found
              \/ n \notin visited /\ visited' = visited \cup {n} /\ found' = found \cup {n}
  <2>1. TypeOK'
    BY <1>1, <1>2, <1>3, <1>9 DEF TypeOK
  <2>2. Resolving' = Resolving
    BY <1>5, <1>6, <1>9 DEF Resolving
  <2>3. VisitedSplit'
    BY <1>7, <1>8, <1>9, <2>2 DEF VisitedSplit
  <2>4. StackDescends'
    BY <1>3, <1>5, <1>9 DEF StackDescends
  <2>5. n \in ToSet(queue) \cup found'
    BY <1>7, <1>9 DEF VisitedSplit
  <2>6. FramesSettled'
    <3> SUFFICES ASSUME NEW k \in 1..L
                 PROVE  /\ callers[k].i <= Len(deps[callers[k].node]) + 1
                        /\ \A i \in 1..(callers[k].i - 1) :
                             \/ deps[callers[k].node][i] \in ToSet(queue) \cup found'
                             \/ k < L /\ deps[callers[k].node][i] = callers[k + 1].node
      BY <1>2, <1>3, <1>5, <1>8, <1>9 DEF FramesSettled
    <3> HIDE DEF PlanInv
    <3>1. CASE k = L
      <4>1. callers[k].i = j + 1 /\ callers[k].node = p
        BY <1>3, <3>1
      <4>2. ASSUME NEW i \in 1..j PROVE deps[p][i] \in ToSet(queue) \cup found'
        <5>1. i = j \/ i \in 1..(j - 1)
          BY <1>13
        <5>2. found \subseteq found'
          BY <1>9
        <5> QED BY <1>5, <1>13, <2>5, <5>1, <5>2
      <4>3. (j + 1) - 1 = j
        BY <1>13
      <4> QED BY <1>13, <4>1, <4>2, <4>3
    <3>2. CASE k < L
      <4>1. k \in 1..(L - 1) /\ k + 1 \in 1..L
        BY <1>1, <3>2
      <4>2. /\ callers[k].node = stack[k].node /\ callers[k].i = stack[k].i
            /\ callers[k + 1].node = stack[k + 1].node
        BY <1>3, <4>1
      <4>3. found \subseteq found'
        BY <1>9
      <4> QED BY <1>12, <3>2, <4>2, <4>3
    <3> QED BY <1>1, <3>1, <3>2
  <2>7. PlanClosed'
    BY <1>2, <1>9 DEF PlanClosed
  <2>8. PlanOnce'
    BY <1>2, <1>8, <1>9 DEF PlanOnce, VisitedSplit
  <2> QED BY <2>1, <2>3, <2>4, <2>6, <2>7, <2>8
<1>10. CASE /\ n \notin visited /\ stack' = Append(callers, [node |-> n, i |-> 1])
            /\ visited' = visited \cup {n} /\ found' = found
  <2>1. /\ stack' \in Seq(Frames) /\ Len(stack') = L + 1 /\ DOMAIN stack' = 1..(L + 1)
        /\ \A k \in 1..L : stack'[k] = callers[k]
        /\ stack'[L + 1].node = n /\ stack'[L + 1].i = 1
    <3>1. [node |-> n, i |-> 1] \in Frames
      BY <1>1 DEF Frames
    <3> QED BY <1>1, <1>3, <1>10, <3>1, AppendProperties
  <2>8. /\ \A k \in 1..L : stack'[k].node = stack[k].node
        /\ \A k \in 1..(L - 1) : stack'[k].i = stack[k].i
        /\ stack'[L].i = j + 1 /\ stack'[L].node = p
    BY <1>1, <1>3, <2>1
  <2>2. TypeOK'
    BY <1>1, <1>2, <1>10, <2>1 DEF TypeOK
  <2>3. Resolving' = Resolving \cup {n}
    <3>1. Resolving' = {stack'[k].node : k \in 1..(L + 1)}
      BY <2>1 DEF Resolving
    <3>2. 1..(L + 1) = (1..L) \cup {L + 1}
      BY <1>1
    <3>3. Resolving' = {stack'[k].node : k \in 1..L} \cup {n}
      BY <2>1, <3>1, <3>2
    <3>4. {stack'[k].node : k \in 1..L} = {stack[k].node : k \in 1..L}
      BY <2>8
    <3> QED BY <1>6, <3>3, <3>4
  <2>4. VisitedSplit'
    BY <1>7, <1>8, <1>10, <2>3 DEF VisitedSplit
  <2>5. StackDescends'
    <3>1. \A i, k \in 1..L : i < k => stack[k].node < stack[i].node
      BY <1>5 DEF StackDescends
    <3>2. ASSUME NEW i \in 1..(L + 1), NEW k \in 1..(L + 1), i < k
          PROVE  stack'[k].node < stack'[i].node
      <4>1. CASE k = L + 1
        <5>1. i \in 1..L
          BY <1>1, <3>2, <4>1
        <5> QED BY <1>11, <2>1, <2>8, <4>1, <5>1
      <4>2. CASE k \in 1..L
        <5>1. i \in 1..L
          BY <1>1, <3>2, <4>2
        <5> QED BY <2>8, <3>1, <3>2, <4>2, <5>1
      <4> QED BY <1>1, <4>1, <4>2
    <3> QED BY <2>1, <3>2 DEF StackDescends
  <2>6. FramesSettled'
    <3> SUFFICES ASSUME NEW k \in 1..(L + 1)
                 PROVE  /\ stack'[k].i <= Len(deps[stack'[k].node]) + 1
                        /\ \A i \in 1..(stack'[k].i - 1) :
                             \/ deps[stack'[k].node][i] \in ToSet(queue) \cup found
                             \/ k < L + 1 /\ deps[stack'[k].node][i] = stack'[k + 1].node
      BY <1>2, <1>8, <1>10, <2>1 DEF FramesSettled
    <3>1. CASE k = L + 1
      BY <1>1, <2>1, <3>1, GraphFacts
    <3> HIDE DEF PlanInv
    <3>2. CASE k = L
      <4>1. /\ stack'[k].i = j + 1 /\ stack'[k].node = p
            /\ stack'[k + 1].node = n /\ k < L + 1
        BY <1>1, <2>1, <2>8, <3>2
      <4>2. ASSUME NEW i \in 1..j
            PROVE  deps[p][i] \in ToSet(queue) \cup found \/ deps[p][i] = n
        <5>1. i = j \/ i \in 1..(j - 1)
          BY <1>13
        <5> QED BY <1>5, <1>13, <5>1
      <4>3. (j + 1) - 1 = j
        BY <1>13
      <4> QED BY <1>13, <4>1, <4>2, <4>3
    <3>3. CASE k < L
      <4>1. k \in 1..(L - 1) /\ k \in 1..L /\ k + 1 \in 1..L
        BY <1>1, <3>3
      <4>2. /\ stack'[k].node = stack[k].node /\ stack'[k].i = stack[k].i
            /\ stack'[k + 1].node = stack[k + 1].node
        BY <2>8, <4>1
      <4>3. k < L + 1
        BY <1>1, <3>3
      <4>4. /\ stack[k].i <= Len(deps[stack[k].node]) + 1
            /\ \A i \in 1..(stack[k].i - 1) :
                  \/ deps[stack[k].node][i] \in ToSet(queue) \cup found
                  \/ deps[stack[k].node][i] = stack[k + 1].node
        BY <1>12, <4>1
      <4> QED BY <4>2, <4>3, <4>4
    <3> QED BY <1>1, <3>1, <3>2, <3>3
  <2>7. PlanClosed' /\ PlanOnce'
    BY <1>2, <1>8, <1>10 DEF PlanClosed, PlanOnce
  <2> QED BY <2>2, <2>4, <2>5, <2>6, <2>7
<1> QED BY <1>4, <1>9, <1>10, EnterCases

(* The node on top of the stack is settled and queued.                      *)
LEMMA PushStep == PlanInv /\ Push => PlanInv'
<1> SUFFICES ASSUME PlanInv, Push PROVE PlanInv'
  OBVIOUS
<1> DEFINE L == Len(stack)
           p == stack[L].node
           Q == Len(queue)
<1> USE DEF PlanInv
<1>1. /\ stack \in Seq(Frames) /\ L \in Nat \ {0} /\ DOMAIN stack = 1..L
      /\ queue \in Seq(Node) /\ Q \in Nat /\ DOMAIN queue = 1..Q
      /\ stack[L] \in Frames /\ p \in Node
  <2>1. stack \in Seq(Frames) /\ L \in Nat \ {0} /\ stack[L] \in Frames
    BY DEF TypeOK, Push
  <2> QED BY <2>1 DEF TypeOK, Frames
<1>2. /\ UNCHANGED <<deps, wanted, w, visited, found, present, env>>
      /\ Top = stack[L] /\ stack[L].i > Len(deps[p])
      /\ queue' = Append(queue, p) /\ stack' = Front(stack)
  BY DEF Push, graph, Top, Last
<1>3. /\ stack' \in Seq(Frames) /\ Len(stack') = L - 1 /\ DOMAIN stack' = 1..(L - 1)
      /\ \A k \in 1..(L - 1) : stack'[k] = stack[k]
  <2>1. \A k \in 1..(L - 1) : stack[k] \in Frames
    BY <1>1
  <2>2. 1 \in Int /\ L - 1 \in Int /\ stack' = SubSeq(stack, 1, L - 1)
    BY <1>1, <1>2 DEF Front
  <2> HIDE DEF L
  <2>3. /\ stack' \in Seq(Frames) /\ Len(stack') = L - 1
        /\ \A k \in 1..(L - 1) : stack'[k] = stack[k]
    BY <1>1, <2>1, <2>2, SubSeqProperties
  <2> QED BY <1>1, <2>3
<1>4. /\ queue' \in Seq(Node) /\ Len(queue') = Q + 1 /\ DOMAIN queue' = 1..(Q + 1)
      /\ \A k \in 1..Q : queue'[k] = queue[k]
      /\ queue'[Q + 1] = p
  BY <1>1, <1>2, AppendProperties
<1>5. /\ \A k \in 1..L : /\ stack[k].node \in Nat
                         /\ stack[k].i <= Len(deps[stack[k].node]) + 1
                         /\ \A i \in 1..(stack[k].i - 1) :
                              \/ deps[stack[k].node][i] \in ToSet(queue) \cup found
                              \/ k < L /\ deps[stack[k].node][i] = stack[k + 1].node
      /\ \A i, k \in 1..L : i < k => stack[k].node < stack[i].node
  <2>1. \A k \in 1..L : stack[k].node \in Nat
    <3>1. \A k \in 1..L : stack[k] \in Frames
      BY <1>1
    <3>2. \A f \in Frames : f.node \in Nat
      BY NAssumption DEF Frames, Node
    <3> QED BY <3>1, <3>2
  <2> QED BY <1>1, <2>1 DEF FramesSettled, StackDescends
<1>6. ToSet(queue)' = ToSet(queue) \cup {p}
  <2>1. ToSet(queue) = {queue[k] : k \in 1..Q}
    BY <1>1 DEF ToSet
  <2>2. ToSet(queue)' = {queue'[k] : k \in 1..(Q + 1)}
    BY <1>4 DEF ToSet
  <2>3. 1..(Q + 1) = (1..Q) \cup {Q + 1}
    BY <1>1
  <2> HIDE DEF Q, p
  <2> QED BY <1>4, <2>1, <2>2, <2>3
<1>7. Len(stack) = L /\ stack[L].node = p /\ L \in 1..L
  BY <1>1
<1> HIDE DEF L, p, Q
<1>8. Resolving = Resolving' \cup {p} /\ p \notin Resolving'
  <2>1. Resolving = {stack[k].node : k \in 1..L}
    BY <1>1 DEF Resolving
  <2>2. Resolving' = {stack[k].node : k \in 1..(L - 1)}
    BY <1>3 DEF Resolving
  <2>3. 1..L = (1..(L - 1)) \cup {L}
    BY <1>1
  <2>4. \A k \in 1..(L - 1) : k \in 1..L /\ k < L
    BY <1>1
  <2>5. \A k \in 1..(L - 1) : p < stack[k].node /\ p \in Nat
    BY <1>5, <1>7, <2>4
  <2>6. p \notin Resolving'
    BY <2>2, <2>5
  <2> QED BY <1>7, <2>1, <2>2, <2>3, <2>6
<1>9. p \notin ToSet(queue) /\ p \notin found
  BY <1>8 DEF VisitedSplit
<1>10. TypeOK'
  BY <1>1, <1>2, <1>3, <1>4 DEF TypeOK
<1>11. VisitedSplit'
  BY <1>2, <1>6, <1>8, <1>9 DEF VisitedSplit
<1>12. StackDescends'
  BY <1>1, <1>3, <1>5 DEF StackDescends
<1>13. FramesSettled'
  <2> SUFFICES ASSUME NEW k \in 1..(L - 1)
               PROVE  /\ stack[k].i <= Len(deps[stack[k].node]) + 1
                      /\ \A i \in 1..(stack[k].i - 1) :
                           \/ deps[stack[k].node][i] \in ToSet(queue)' \cup found
                           \/ k < L - 1 /\ deps[stack[k].node][i] = stack[k + 1].node
    BY <1>1, <1>2, <1>3 DEF FramesSettled
  <2>1. k \in 1..L /\ k < L /\ (k < L - 1 \/ k + 1 = L)
    BY <1>1
  <2> QED BY <1>5, <1>6, <1>7, <2>1
<1>14. PlanClosed'
  <2> SUFFICES ASSUME NEW q \in 1..(Q + 1), NEW i \in DOMAIN deps[queue'[q]]
               PROVE  \/ deps[queue'[q]][i] \in found
                      \/ \E r \in 1..(q - 1) : queue'[r] = deps[queue'[q]][i]
    BY <1>2, <1>4 DEF PlanClosed
  <2>1. CASE q \in 1..Q
    <3>1. \/ deps[queue[q]][i] \in found
          \/ \E r \in 1..(q - 1) : queue[r] = deps[queue[q]][i]
      BY <1>1, <1>4, <2>1 DEF PlanClosed
    <3>2. \A r \in 1..(q - 1) : r \in 1..Q
      BY <1>1, <2>1
    <3> QED BY <1>4, <2>1, <3>1, <3>2
  <2>2. CASE q = Q + 1
    <3>1. deps[p] \in Seq(Node) /\ stack[L].i \in Nat
      BY <1>1, GraphFacts DEF Frames
    <3>2. i \in 1..(stack[L].i - 1)
      BY <1>2, <1>4, <2>2, <3>1
    <3>3. deps[p][i] \in ToSet(queue) \cup found
      BY <1>1, <1>5, <1>7, <3>2
    <3>4. deps[p][i] \in ToSet(queue) => \E r \in 1..Q : queue[r] = deps[p][i]
      BY <1>1 DEF ToSet
    <3> QED BY <1>1, <1>4, <2>2, <3>3, <3>4
  <2> QED BY <1>1, <2>1, <2>2
<1>15. PlanOnce'
  <2>1. \A r \in 1..Q : queue[r] # p
    BY <1>1, <1>9 DEF ToSet
  <2>2. IsInjective(queue)'
    <3> SUFFICES ASSUME NEW a \in 1..(Q + 1), NEW b \in 1..(Q + 1),
                        queue'[a] = queue'[b]
                 PROVE  a = b
      BY <1>4 DEF IsInjective
    <3>1. \A r, s \in 1..Q : queue[r] = queue[s] => r = s
      BY <1>1 DEF PlanOnce, IsInjective
    <3>2. (a \in 1..Q \/ a = Q + 1) /\ (b \in 1..Q \/ b = Q + 1)
      BY <1>1
    <3> QED BY <1>4, <2>1, <3>1, <3>2
  <2> QED BY <1>2, <1>6, <1>9, <2>2 DEF PlanOnce
<1> QED BY <1>10, <1>11, <1>12, <1>13, <1>14, <1>15

(* Others only change which paths exist, which the invariant does not       *)
(* mention: what the walk has read is remembered in `found'.                *)
LEMMA OthersStep == PlanInv /\ (Others \/ Planned \/ UNCHANGED vars) => PlanInv'
<1> SUFFICES ASSUME PlanInv, Others \/ Planned \/ UNCHANGED vars PROVE PlanInv'
  OBVIOUS
<1>1. UNCHANGED <<deps, wanted, w, visited, found, stack, queue>>
  BY DEF Others, Planned, vars, graph, walk
<1>2. present' \subseteq Node /\ env' \in 0..MaxEnv
  BY MaxEnvAssumption DEF PlanInv, TypeOK, Others, Planned, vars
<1>3. TypeOK'
  BY <1>1, <1>2 DEF PlanInv, TypeOK
<1>4. VisitedSplit'
  BY <1>1 DEF PlanInv, VisitedSplit, Resolving, ToSet
<1>5. StackDescends'
  BY <1>1 DEF PlanInv, StackDescends
<1>6. FramesSettled'
  BY <1>1 DEF PlanInv, FramesSettled, ToSet
<1>7. PlanClosed'
  BY <1>1 DEF PlanInv, PlanClosed
<1>8. PlanOnce'
  BY <1>1 DEF PlanInv, PlanOnce, ToSet, IsInjective
<1> QED BY <1>3, <1>4, <1>5, <1>6, <1>7, <1>8 DEF PlanInv

(* The invariant holds in every reachable state, for every graph.           *)
THEOREM PlanInvariant == Spec => []PlanInv
<1>1. PlanInv /\ [Next]_vars => PlanInv'
  BY RootStep, DepStep, PushStep, OthersStep DEF Next, Walk
<1> QED BY PlanInit, <1>1, PTL DEF Spec

(* Type correctness of the planner.                                         *)
THEOREM PlanTypeOK == Spec => []TypeOK
<1>1. PlanInv => TypeOK
  BY DEF PlanInv
<1> QED BY PlanInvariant, <1>1, PTL

(* The plan is ordered: what resolve_dependencies() queues finds each       *)
(* dependency earlier in the queue, unless the store held it when asked.    *)
THEOREM PlanIsClosed == Spec => []PlanClosed
<1>1. PlanInv => PlanClosed
  BY DEF PlanInv
<1> QED BY PlanInvariant, <1>1, PTL

(* The plan has no duplicates and nothing that the store was seen to hold.  *)
THEOREM PlanIsOnce == Spec => []PlanOnce
<1>1. PlanInv => PlanOnce
  BY DEF PlanInv
<1> QED BY PlanInvariant, <1>1, PTL

-----------------------------------------------------------------------------
(***************************************************************************)
(* The plan of derivative.c is exact: it contains what the requests need    *)
(* and nothing else.  That it contains no more is the hard part: it needs   *)
(* an invariant that says why each visited derivative was visited, without  *)
(* naming the path that led there.                                          *)
(***************************************************************************)

(* The set S has every request the walk has begun with, and with a member   *)
(* that is queued or being resolved the dependencies passed so far.         *)
Passed(S) ==
    /\ \A k \in 1..(w - 1) : wanted[k] \in S
    /\ \A q \in DOMAIN queue : queue[q] \in S =>
          \A i \in 1..Len(deps[queue[q]]) : deps[queue[q]][i] \in S
    /\ \A k \in DOMAIN stack : stack[k].node \in S =>
          \A i \in 1..(stack[k].i - 1) : deps[stack[k].node][i] \in S

(* Nothing was visited without a reason: the visited derivatives are in     *)
(* every such set.                                                          *)
Reached == \A S \in SUBSET Node : Passed(S) => visited \subseteq S

(* Every request the walk has begun with was visited.                       *)
RequestsVisited == \A k \in 1..(w - 1) : wanted[k] \in visited

ReachInv == PlanInv /\ Reached /\ RequestsVisited

-----------------------------------------------------------------------------
(* The walk starts with nothing visited.                                    *)
LEMMA ReachInit == Init => ReachInv
<1> SUFFICES ASSUME Init PROVE ReachInv
  OBVIOUS
<1>1. visited = {} /\ w = 1
  BY DEF Init
<1>2. Reached /\ RequestsVisited
  BY <1>1 DEF Reached, RequestsVisited
<1> QED BY <1>2, PlanInit DEF ReachInv

(* A request enters the walk and joins the sets at the same time.           *)
LEMMA RootReach ==
    ASSUME PlanInv, Reached, RequestsVisited, ResolveRoot
    PROVE  Reached' /\ RequestsVisited'
<1>1. /\ w \in Nat \ {0} /\ w' = w + 1 /\ stack = <<>>
      /\ UNCHANGED <<deps, wanted, queue>>
  BY DEF PlanInv, TypeOK, ResolveRoot, graph
<1>2. visited' = visited \cup {wanted[w]}
  BY EnterCases DEF ResolveRoot, Enter
<1>3. 1..(w' - 1) = (1..(w - 1)) \cup {w}
  BY <1>1
<1>4. ASSUME NEW S \in SUBSET Node, Passed(S)'
      PROVE  visited' \subseteq S
  <2>1. \A k \in 1..(w' - 1) : wanted[k] \in S
    BY <1>1, <1>4 DEF Passed
  <2>2. Passed(S)
    <3>1. \A k \in 1..(w - 1) : wanted[k] \in S
      BY <1>3, <2>1
    <3>2. \A q \in DOMAIN queue : queue[q] \in S =>
             \A i \in 1..Len(deps[queue[q]]) : deps[queue[q]][i] \in S
      BY <1>1, <1>4 DEF Passed
    <3>3. DOMAIN stack = {}
      BY <1>1
    <3> QED BY <3>1, <3>2, <3>3 DEF Passed
  <2>3. visited \subseteq S
    BY <2>2 DEF Reached
  <2> QED BY <1>2, <1>3, <2>1, <2>3
<1>5. RequestsVisited'
  <2>1. \A k \in 1..(w' - 1) : wanted[k] \in visited'
    BY <1>2, <1>3 DEF RequestsVisited
  <2> QED BY <1>1, <2>1 DEF RequestsVisited
<1> QED BY <1>4, <1>5 DEF Reached

(* What ResolveDep leaves on the stack: the frames there were, the index of *)
(* the last one advanced.                                                   *)
LEMMA DepShape ==
    ASSUME PlanInv, ResolveDep, NEW L, L = Len(stack)
    PROVE  /\ L \in Nat \ {0} /\ DOMAIN stack = 1..L /\ 1..L \subseteq DOMAIN stack'
           /\ stack[L].i \in Nat \ {0}
           /\ \A k \in 1..L : stack'[k].node = stack[k].node
           /\ \A k \in 1..(L - 1) : stack'[k].i = stack[k].i
           /\ stack'[L].i = stack[L].i + 1
           /\ visited' = visited \cup {deps[stack[L].node][stack[L].i]}
           /\ stack[L].node \in visited
           /\ UNCHANGED <<deps, wanted, w, queue>>
<1> DEFINE j == stack[L].i
           p == stack[L].node
           callers == Append(Front(stack), [Top EXCEPT !.i = @ + 1])
<1>1. stack \in Seq(Frames) /\ L \in Nat \ {0} /\ DOMAIN stack = 1..L
  BY DEF PlanInv, TypeOK, ResolveDep
<1>2. stack[L] \in Frames /\ Top = stack[L]
  BY <1>1 DEF Top, Last
<1>3. p \in Node /\ j \in Nat \ {0} /\ [Top EXCEPT !.i = @ + 1] = [node |-> p, i |-> j + 1]
  BY <1>2 DEF Frames
<1>4. [node |-> p, i |-> j + 1] \in Frames
  BY <1>3 DEF Frames
<1>5. /\ Front(stack) \in Seq(Frames) /\ Len(Front(stack)) = L - 1
      /\ \A k \in 1..(L - 1) : Front(stack)[k] = stack[k]
  <2>1. \A k \in 1..(L - 1) : stack[k] \in Frames
    BY <1>1
  <2>2. 1 \in Int /\ L - 1 \in Int /\ Front(stack) = SubSeq(stack, 1, L - 1)
    BY <1>1 DEF Front
  <2> QED BY <1>1, <2>1, <2>2, SubSeqProperties
<1>6. /\ callers \in Seq(Frames) /\ Len(callers) = L /\ DOMAIN callers = 1..L
      /\ \A k \in 1..(L - 1) : callers[k] = stack[k]
      /\ callers[L] = [node |-> p, i |-> j + 1]
  BY <1>1, <1>3, <1>4, <1>5
<1>7. Enter(deps[p][j], callers) /\ UNCHANGED <<deps, wanted, w, queue>>
  BY <1>2 DEF ResolveDep, graph
<1> HIDE DEF callers, p, j
<1>8. /\ 1..L \subseteq DOMAIN stack'
      /\ \A k \in 1..L : stack'[k] = callers[k]
  <2>1. CASE stack' = callers
    BY <1>6, <2>1
  <2>2. CASE stack' = Append(callers, [node |-> deps[p][j], i |-> 1])
    <3>1. DOMAIN stack' = 1..(L + 1) /\ \A k \in 1..L : stack'[k] = callers[k]
      BY <1>1, <1>6, <2>2
    <3> QED BY <1>1, <3>1
  <2> QED BY <1>7, <2>1, <2>2, EnterCases
<1>9. visited' = visited \cup {deps[p][j]}
  BY <1>7, EnterCases
<1>10. p \in visited
  BY <1>1 DEF p, PlanInv, VisitedSplit, Resolving
<1>11. \A k \in 1..L : k = L \/ k \in 1..(L - 1)
  BY <1>1
<1>12. \A k \in 1..L : stack'[k].node = stack[k].node
  BY <1>6, <1>8, <1>11 DEF p
<1>13. \A k \in 1..(L - 1) : stack'[k].i = stack[k].i
  <2>1. \A k \in 1..(L - 1) : k \in 1..L
    BY <1>1
  <2> QED BY <1>6, <1>8, <2>1
<1>14. stack'[L].i = j + 1
  BY <1>1, <1>6, <1>8
<1> QED BY <1>1, <1>3, <1>7, <1>8, <1>9, <1>10, <1>12, <1>13, <1>14 DEF p, j

(* A dependency enters the walk and joins the sets that hold its user.      *)
LEMMA DepReach ==
    ASSUME PlanInv, Reached, RequestsVisited, ResolveDep
    PROVE  Reached' /\ RequestsVisited'
<1> DEFINE L == Len(stack)
           n == deps[stack[L].node][stack[L].i]
<1>1. /\ L \in Nat \ {0} /\ DOMAIN stack = 1..L /\ 1..L \subseteq DOMAIN stack'
      /\ stack[L].i \in Nat \ {0}
      /\ \A k \in 1..L : stack'[k].node = stack[k].node
      /\ \A k \in 1..(L - 1) : stack'[k].i = stack[k].i
      /\ stack'[L].i = stack[L].i + 1
      /\ visited' = visited \cup {n}
      /\ stack[L].node \in visited
      /\ UNCHANGED <<deps, wanted, w, queue>>
  BY DepShape
<1> HIDE DEF L
<1>2. ASSUME NEW S \in SUBSET Node, Passed(S)'
      PROVE  visited' \subseteq S
  <2>1. ASSUME NEW k \in 1..L, stack[k].node \in S
        PROVE  \A i \in 1..(stack'[k].i - 1) : deps[stack[k].node][i] \in S
    BY <1>1, <1>2, <2>1 DEF Passed
  <2>2. Passed(S)
    <3>1. ASSUME NEW k \in 1..L, stack[k].node \in S
          PROVE  \A i \in 1..(stack[k].i - 1) : deps[stack[k].node][i] \in S
      <4>1. CASE k = L
        <5>1. \A i \in 1..(stack[L].i - 1) : i \in 1..((stack[L].i + 1) - 1)
          BY <1>1
        <5> QED BY <1>1, <2>1, <3>1, <4>1, <5>1
      <4>2. CASE k \in 1..(L - 1)
        BY <1>1, <2>1, <3>1, <4>2
      <4> QED BY <1>1, <4>1, <4>2
    <3>2. /\ \A k \in 1..(w - 1) : wanted[k] \in S
          /\ \A q \in DOMAIN queue : queue[q] \in S =>
                \A i \in 1..Len(deps[queue[q]]) : deps[queue[q]][i] \in S
      BY <1>1, <1>2 DEF Passed
    <3> QED BY <1>1, <3>1, <3>2 DEF Passed
  <2>3. visited \subseteq S
    BY <2>2 DEF Reached
  <2>4. n \in S
    <3>1. L \in 1..L /\ stack[L].i \in 1..((stack[L].i + 1) - 1)
      BY <1>1
    <3> QED BY <1>1, <2>1, <2>3, <3>1
  <2> QED BY <1>1, <2>3, <2>4
<1>3. RequestsVisited'
  BY <1>1 DEF RequestsVisited
<1> QED BY <1>2, <1>3 DEF Reached

(* A node leaves the stack for the queue: its loop is over, so that the     *)
(* sets that hold it hold all its dependencies either way.                  *)
LEMMA PushReach ==
    ASSUME PlanInv, Reached, RequestsVisited, Push
    PROVE  Reached' /\ RequestsVisited'
<1> DEFINE L == Len(stack)
           p == stack[L].node
           Q == Len(queue)
<1>1. /\ stack \in Seq(Frames) /\ L \in Nat \ {0} /\ DOMAIN stack = 1..L
      /\ queue \in Seq(Node) /\ Q \in Nat /\ DOMAIN queue = 1..Q
      /\ stack[L] \in Frames
  BY DEF PlanInv, TypeOK, Push
<1>2. /\ UNCHANGED <<deps, wanted, w, visited>>
      /\ queue' = Append(queue, p) /\ stack' = Front(stack)
  BY DEF Push, graph, Top, Last
<1>3. stack[L].i \in Nat /\ p \in Node /\ Len(deps[p]) \in Nat /\ stack[L].i <= Len(deps[p]) + 1
  <2>1. stack[L].i \in Nat /\ p \in Node
    BY <1>1 DEF Frames
  <2>2. Len(deps[p]) \in Nat
    BY <2>1, GraphFacts DEF PlanInv
  <2>3. stack[L].i <= Len(deps[p]) + 1
    BY <1>1 DEF PlanInv, FramesSettled
  <2> QED BY <2>1, <2>2, <2>3
<1>4. DOMAIN stack' = 1..(L - 1) /\ \A k \in 1..(L - 1) : stack'[k] = stack[k]
  <2>1. \A k \in 1..(L - 1) : stack[k] \in Frames
    BY <1>1
  <2>2. 1 \in Int /\ L - 1 \in Int /\ stack' = SubSeq(stack, 1, L - 1)
    BY <1>1, <1>2 DEF Front
  <2> HIDE DEF L
  <2>3. /\ stack' \in Seq(Frames) /\ Len(stack') = L - 1
        /\ \A k \in 1..(L - 1) : stack'[k] = stack[k]
    BY <1>1, <2>1, <2>2, SubSeqProperties
  <2> QED BY <1>1, <2>3
<1>5. /\ DOMAIN queue' = 1..(Q + 1) /\ queue'[Q + 1] = p
      /\ \A q \in 1..Q : queue'[q] = queue[q]
  BY <1>1, <1>2, <1>3, AppendProperties
<1>6. ASSUME NEW S \in SUBSET Node, Passed(S)'
      PROVE  visited' \subseteq S
  <2>1. /\ \A k \in 1..(w - 1) : wanted[k] \in S
        /\ \A q \in 1..(Q + 1) : queue'[q] \in S =>
              \A i \in 1..Len(deps[queue'[q]]) : deps[queue'[q]][i] \in S
        /\ \A k \in 1..(L - 1) : stack'[k].node \in S =>
              \A i \in 1..(stack'[k].i - 1) : deps[stack'[k].node][i] \in S
    BY <1>2, <1>4, <1>5, <1>6 DEF Passed
  <2>2. \A q \in DOMAIN queue : queue[q] \in S =>
           \A i \in 1..Len(deps[queue[q]]) : deps[queue[q]][i] \in S
    <3>1. \A q \in 1..Q : q \in 1..(Q + 1)
      BY <1>1
    <3> QED BY <1>1, <1>5, <2>1, <3>1
  <2>3. ASSUME NEW k \in 1..L, stack[k].node \in S
        PROVE  \A i \in 1..(stack[k].i - 1) : deps[stack[k].node][i] \in S
    <3>1. CASE k = L
      <4>1. \A i \in 1..Len(deps[p]) : deps[p][i] \in S
        <5>1. Q + 1 \in 1..(Q + 1)
          BY <1>1
        <5> QED BY <1>5, <2>1, <2>3, <3>1, <5>1
      <4>2. \A i \in 1..(stack[L].i - 1) : i \in 1..Len(deps[p])
        BY <1>3
      <4> QED BY <3>1, <4>1, <4>2
    <3>2. CASE k \in 1..(L - 1)
      BY <1>4, <2>1, <2>3, <3>2
    <3>3. k = L \/ k \in 1..(L - 1)
      <4>1. L \in Nat /\ k \in 1..L
        BY <1>1
      <4> HIDE DEF L
      <4> QED BY <4>1
    <3> QED BY <3>1, <3>2, <3>3
  <2>4. Passed(S)
    BY <1>1, <2>1, <2>2, <2>3 DEF Passed
  <2> QED BY <1>2, <2>4 DEF Reached
<1>7. RequestsVisited'
  BY <1>2 DEF RequestsVisited
<1> QED BY <1>6, <1>7 DEF Reached

(* What others do to the store changes nothing the walk remembers.          *)
LEMMA OthersReach ==
    ASSUME Reached, RequestsVisited, Others \/ Planned \/ UNCHANGED vars
    PROVE  Reached' /\ RequestsVisited'
<1>1. UNCHANGED <<deps, wanted, w, visited, stack, queue>>
  BY DEF Others, Planned, vars, graph, walk
<1>2. \A S \in SUBSET Node : Passed(S)' => Passed(S)
  BY <1>1 DEF Passed
<1> QED BY <1>1, <1>2 DEF Reached, RequestsVisited

LEMMA ReachStep == ReachInv /\ [Next]_vars => ReachInv'
<1> SUFFICES ASSUME ReachInv, [Next]_vars PROVE ReachInv'
  OBVIOUS
<1>1. PlanInv'
  BY RootStep, DepStep, PushStep, OthersStep DEF ReachInv, Next, Walk
<1>2. Reached' /\ RequestsVisited'
  BY RootReach, DepReach, PushReach, OthersReach DEF ReachInv, Next, Walk
<1> QED BY <1>1, <1>2 DEF ReachInv

(* When the walk is over, the sets the invariant speaks of are those that   *)
(* satisfy the demand, with what was found in the store.                    *)
LEMMA ReachedIsExact == ReachInv => PlanExact
<1> SUFFICES ASSUME ReachInv, Done
             PROVE  /\ Demand(ToSet(queue))
                    /\ \A S \in SUBSET Node : Demand(S) => ToSet(queue) \subseteq S
  BY DEF PlanExact
<1>1. /\ TypeOK /\ VisitedSplit /\ PlanClosed /\ PlanOnce
      /\ Reached /\ RequestsVisited
  BY DEF ReachInv, PlanInv
<1>2. /\ stack = <<>> /\ wanted \in Seq(Node) /\ queue \in Seq(Node)
      /\ w \in Nat /\ w = Len(wanted) + 1
  BY <1>1, GraphFacts DEF TypeOK, Done
<1>3. visited = ToSet(queue) \cup found /\ ToSet(queue) \cap found = {}
  <2>1. Resolving = {}
    BY <1>2 DEF Resolving
  <2> QED BY <1>1, <2>1 DEF VisitedSplit, PlanOnce
<1>4. \A q \in DOMAIN queue : queue[q] \in ToSet(queue) /\ queue[q] \in Node
  BY <1>2 DEF ToSet
<1>5. \A n \in ToSet(queue) : \E q \in DOMAIN queue : queue[q] = n
  BY DEF ToSet
<1>6. \A n \in Node : deps[n] \in Seq(Node)
  BY <1>1, GraphFacts
<1>7. Demand(ToSet(queue))
  <2>1. \A k \in DOMAIN wanted : wanted[k] \in ToSet(queue) \cup found
    <3>1. \A k \in DOMAIN wanted : k \in 1..(w - 1)
      BY <1>2
    <3> QED BY <1>1, <1>3, <3>1 DEF RequestsVisited
  <2>2. ASSUME NEW n \in ToSet(queue), NEW i \in DOMAIN deps[n]
        PROVE  deps[n][i] \in ToSet(queue) \cup found
    <3>1. PICK q \in DOMAIN queue : queue[q] = n
      BY <1>5
    <3>2. \/ deps[n][i] \in found
          \/ \E r \in 1..(q - 1) : queue[r] = deps[n][i]
      BY <1>1, <3>1 DEF PlanClosed
    <3>3. \A r \in 1..(q - 1) : r \in DOMAIN queue
      BY <1>2
    <3> QED BY <1>4, <3>2, <3>3
  <2> QED BY <2>1, <2>2 DEF Demand
<1>8. ASSUME NEW S \in SUBSET Node, Demand(S)
      PROVE  ToSet(queue) \subseteq S
  <2>1. S \cup found \in SUBSET Node
    BY <1>1 DEF TypeOK
  <2>2. Passed(S \cup found)
    <3>1. \A k \in 1..(w - 1) : wanted[k] \in S \cup found
      <4>1. \A k \in 1..(w - 1) : k \in DOMAIN wanted
        BY <1>2
      <4> QED BY <1>8, <4>1 DEF Demand
    <3>2. ASSUME NEW q \in DOMAIN queue, queue[q] \in S \cup found,
                 NEW i \in 1..Len(deps[queue[q]])
          PROVE  deps[queue[q]][i] \in S \cup found
      <4>1. queue[q] \in S
        BY <1>3, <1>4, <3>2
      <4>2. i \in DOMAIN deps[queue[q]]
        BY <1>4, <1>6
      <4> QED BY <1>8, <4>1, <4>2 DEF Demand
    <3> QED BY <1>2, <3>1, <3>2 DEF Passed
  <2>3. visited \subseteq S \cup found
    BY <1>1, <2>1, <2>2 DEF Reached
  <2> QED BY <1>3, <2>3
<1> QED BY <1>7, <1>8

(* For every graph, every list of requests and any interference: a finished *)
(* plan is exactly what get_buildstack() owes, what the requests need and   *)
(* the store did not hold.                                                  *)
THEOREM PlanIsExact == Spec => []PlanExact
<1> QED BY ReachInit, ReachStep, ReachedIsExact, PTL DEF Spec
=============================================================================
