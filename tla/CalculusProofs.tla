--------------------------- MODULE CalculusProofs ---------------------------
(***************************************************************************)
(* The program implements StoreSpec: for every dependency graph, every list *)
(* of requests, any number of invocations, failing calls and kills, an      *)
(* object is started only when its dependencies have objects, one at a      *)
(* time, and is left alone for ever once it is sealed or given up.  As long  *)
(* as nothing fails and nothing is killed, the store is clean.              *)
(***************************************************************************)
EXTENDS Calculus, SequenceTheorems, TLAPS

(* The derivatives with something at their store path.                      *)
There == {n \in Node : store[n].kind # "none"}

Frame == [node : Node, i : Nat \ {0}]

Resolving == {stack[k].node : k \in 1..Len(stack)}

Queued == {queue[q] : q \in 1..Len(queue)}

-----------------------------------------------------------------------------
(* The plan.  The store does not change while the program plans, so what    *)
(* the walk found is what is there.                                         *)

(* No derivative is queued twice, none that is there or being made, and     *)
(* the dependencies of each are there, being made or queued before it.      *)
QueueGood ==
    /\ queue \in Seq(Node)
    /\ \A p, q \in 1..Len(queue) : p < q => queue[p] # queue[q]
    /\ Queued \cap (There \cup {current}) = {}
    /\ \A q \in 1..Len(queue) : \A i \in 1..Len(Deps[queue[q]]) :
          \/ Deps[queue[q]][i] \in There \cup {current}
          \/ \E p \in 1..(q - 1) : queue[p] = Deps[queue[q]][i]

(* What is missing of the visited nodes is queued or on the stack.          *)
VisitedSplit ==
    /\ visited \ There = Resolving \cup Queued
    /\ Resolving \cap Queued = {}

Descends == \A j, k \in 1..Len(stack) : j < k => stack[k].node < stack[j].node

(* The dependencies a frame has passed are there, queued or, the last one,  *)
(* being resolved by the next frame.                                        *)
FramesSettled ==
    \A k \in 1..Len(stack) :
        /\ stack[k].i <= Len(Deps[stack[k].node]) + 1
        /\ \A i \in 1..(stack[k].i - 1) :
              \/ Deps[stack[k].node][i] \in There \cup Queued
              \/ k < Len(stack) /\ Deps[stack[k].node][i] = stack[k + 1].node

WalkGood ==
    /\ stack \in Seq(Frame) /\ w \in Nat \ {0} /\ current = 0
    /\ VisitedSplit /\ Descends /\ FramesSettled

(* The graph is acyclic, as a dependency is registered before its user.     *)
LEMMA GraphFacts ==
    /\ \A n \in Node : Deps[n] \in Seq(Node)
    /\ \A n \in Node : \A i \in 1..Len(Deps[n]) : Deps[n][i] \in Node /\ Deps[n][i] < n
    /\ Wanted \in Seq(Node)
<1>1. /\ Deps \in [Node -> Plan!BoundedSeq(Node, N)]
      /\ \A n \in Node : \A i \in DOMAIN Deps[n] : Deps[n][i] < n
  BY GraphAssumption DEF Plan!Graphs, Plan!Node, Node
<1>2. \A n \in Node : Deps[n] \in Seq(Node)
  BY <1>1, SizeAssumption DEF Plan!BoundedSeq, Plan!SeqOf
<1>3. Wanted \in Seq(Node)
  BY GraphAssumption, SizeAssumption DEF Plan!Requests, Plan!BoundedSeq, Plan!SeqOf, Plan!Node, Node
<1> QED BY <1>1, <1>2, <1>3

(* The ways resolve_dependencies() can go.                                  *)
LEMMA EnterCases ==
    ASSUME NEW n \in Node, NEW callers, Plan!Enter(n, callers)
    PROVE  /\ visited' = visited \cup {n}
           /\ \/ n \in visited \cup There /\ stack' = callers
              \/ n \notin visited \cup There
                   /\ stack' = Append(callers, [node |-> n, i |-> 1])
BY DEF Plan!Enter, There, Node

(* A visited node that is not pushed is settled; one that is was missing.   *)
LEMMA VisitSettled ==
    ASSUME VisitedSplit, NEW n, visited' = visited \cup {n}, n \in visited \cup There,
           There' = There, Queued' = Queued, Resolving' = Resolving
    PROVE  VisitedSplit' /\ n \in There \cup Queued \cup Resolving
<1>1. visited' \ There' = visited \ There
  OBVIOUS
<1> QED BY <1>1 DEF VisitedSplit

LEMMA VisitMissing ==
    ASSUME VisitedSplit, NEW n, visited' = visited \cup {n}, n \notin visited \cup There,
           There' = There, Queued' = Queued, Resolving' = Resolving \cup {n}
    PROVE  VisitedSplit'
<1>1. visited' \ There' = (visited \ There) \cup {n}
  OBVIOUS
<1>2. n \notin Queued
  BY DEF VisitedSplit
<1> QED BY <1>1, <1>2 DEF VisitedSplit

(* A request enters the walk.                                               *)
LEMMA RootWalk ==
    ASSUME WalkGood, Plan!ResolveRoot, UNCHANGED <<store, current>>
    PROVE  WalkGood' /\ UNCHANGED queue
<1> DEFINE n == Wanted[w]
<1>1. n \in Node /\ w' \in Nat \ {0} /\ stack = <<>> /\ queue' = queue
  BY GraphFacts DEF WalkGood, Plan!ResolveRoot
<1>2. Plan!Enter(n, <<>>)
  BY DEF Plan!ResolveRoot
<1> HIDE DEF n
<1>3. Append(<<>>, [node |-> n, i |-> 1]) = <<[node |-> n, i |-> 1]>>
  OBVIOUS
<1>4. There' = There /\ Queued' = Queued /\ Resolving = {} /\ visited' = visited \cup {n}
  <2>1. There' = There /\ Queued' = Queued /\ Resolving = {}
    BY <1>1 DEF There, Queued, Resolving
  <2>2. visited' = visited \cup {n}
    BY <1>1, <1>2, EnterCases
  <2> QED BY <2>1, <2>2
<1>5. CASE stack' = <<>> /\ n \in visited \cup There
  <2>1. Resolving' = {}
    BY <1>5 DEF Resolving
  <2>2. VisitedSplit'
    BY <1>4, <1>5, <2>1, VisitSettled DEF WalkGood
  <2> QED BY <1>1, <1>5, <2>2 DEF WalkGood, Descends, FramesSettled
<1>6. CASE stack' = <<[node |-> n, i |-> 1]>> /\ n \notin visited \cup There
  <2>1. stack' \in Seq(Frame) /\ Len(stack') = 1 /\ stack'[1].node = n /\ stack'[1].i = 1
    BY <1>1, <1>6 DEF Frame
  <2>2. Resolving' = {n}
    BY <2>1 DEF Resolving
  <2>3. VisitedSplit'
    BY <1>4, <1>6, <2>2, VisitMissing DEF WalkGood
  <2>4. Descends'
    BY <2>1 DEF Descends
  <2>5. FramesSettled'
    <3>1. \A k \in 1..Len(stack') : k = 1
      BY <2>1
    <3>2. Len(Deps[n]) \in Nat /\ 1 <= Len(Deps[n]) + 1 /\ 1..(1 - 1) = {}
      BY <1>1, GraphFacts, SMTT(30)
    <3> QED BY <2>1, <3>1, <3>2 DEF FramesSettled
  <2> QED BY <1>1, <2>1, <2>3, <2>4, <2>5 DEF WalkGood
<1> QED BY <1>1, <1>2, <1>3, <1>5, <1>6, EnterCases

(* What resolving a dependency leaves on the stack: the frames there were,  *)
(* the index of the last one advanced.                                      *)
LEMMA DepShape ==
    ASSUME WalkGood, Plan!ResolveDep, NEW L, L = Len(stack),
           NEW p, p = stack[L].node, NEW j, j = stack[L].i
    PROVE  /\ L \in Nat \ {0} /\ p \in Node /\ j \in 1..Len(Deps[p])
           /\ Deps[p][j] \in Node /\ Deps[p][j] < p
           /\ \E callers \in Seq(Frame) :
                 /\ Len(callers) = L
                 /\ \A k \in 1..L : callers[k].node = stack[k].node
                 /\ \A k \in 1..(L - 1) : callers[k].i = stack[k].i
                 /\ callers[L].i = j + 1
                 /\ Plan!Enter(Deps[p][j], callers)
           /\ UNCHANGED <<w, queue>>
<1> DEFINE callers == Append(Plan!Front(stack), [Plan!Top EXCEPT !.i = @ + 1])
<1>1. stack \in Seq(Frame) /\ L \in Nat \ {0} /\ stack[L] \in Frame
  BY DEF WalkGood, Plan!ResolveDep
<1>2. Plan!Top = stack[L] /\ p \in Node /\ j \in Nat \ {0} /\ stack[L] = [node |-> p, i |-> j]
  BY <1>1 DEF Plan!Top, Plan!Last, Frame
<1>3. j \in 1..Len(Deps[p]) /\ Deps[p][j] \in Node /\ Deps[p][j] < p
  BY <1>2, GraphFacts DEF Plan!ResolveDep
<1>4. /\ Plan!Front(stack) \in Seq(Frame) /\ Len(Plan!Front(stack)) = L - 1
      /\ \A k \in 1..(L - 1) : Plan!Front(stack)[k] = stack[k]
  <2>1. \A k \in 1..(L - 1) : stack[k] \in Frame
    BY <1>1
  <2>2. 1 \in Int /\ L - 1 \in Int /\ Plan!Front(stack) = SubSeq(stack, 1, L - 1)
    BY <1>1 DEF Plan!Front
  <2> QED BY <1>1, <2>1, <2>2, SubSeqProperties
<1>5. [Plan!Top EXCEPT !.i = @ + 1] = [node |-> p, i |-> j + 1]
  BY <1>2
<1>6. [node |-> p, i |-> j + 1] \in Frame
  BY <1>2 DEF Frame
<1>7. /\ callers \in Seq(Frame) /\ Len(callers) = L
      /\ \A k \in 1..(L - 1) : callers[k] = stack[k]
      /\ callers[L] = [node |-> p, i |-> j + 1]
  BY <1>1, <1>4, <1>5, <1>6
<1>8. Plan!Enter(Deps[p][j], callers) /\ UNCHANGED <<w, queue>>
  BY <1>2 DEF Plan!ResolveDep
<1> HIDE DEF callers
<1>9. \A k \in 1..L : k = L \/ k \in 1..(L - 1)
  BY <1>1
<1>10. /\ \A k \in 1..L : callers[k].node = stack[k].node
       /\ \A k \in 1..(L - 1) : callers[k].i = stack[k].i
       /\ callers[L].i = j + 1
  BY <1>2, <1>7, <1>9
<1>11. \E c \in Seq(Frame) :
          /\ Len(c) = L
          /\ \A k \in 1..L : c[k].node = stack[k].node
          /\ \A k \in 1..(L - 1) : c[k].i = stack[k].i
          /\ c[L].i = j + 1
          /\ Plan!Enter(Deps[p][j], c)
  BY <1>7, <1>8, <1>10
<1> QED BY <1>1, <1>2, <1>3, <1>8, <1>11

(* The nodes of the stack descend to the one on top, and below that is any  *)
(* dependency of it.                                                        *)
LEMMA TopIsLeast ==
    ASSUME WalkGood, NEW L \in Nat \ {0}, L = Len(stack)
    PROVE  /\ \A k \in 1..L : stack[k].node \in Nat
           /\ \A k \in 1..(L - 1) : stack[L].node < stack[k].node
<1>1. \A k \in 1..L : stack[k] \in Frame
  BY DEF WalkGood
<1>2. \A f \in Frame : f.node \in Nat
  BY SizeAssumption DEF Frame, Node
<1>3. \A k \in 1..(L - 1) : k \in 1..L /\ L \in 1..L /\ k < L
  OBVIOUS
<1> QED BY <1>1, <1>2, <1>3 DEF WalkGood, Descends

(* A dependency of the node on top of the stack enters the walk.            *)
LEMMA DepWalk ==
    ASSUME WalkGood, Plan!ResolveDep, UNCHANGED <<store, current>>
    PROVE  WalkGood' /\ UNCHANGED queue
<1>0. PICK L, p, j : L = Len(stack) /\ p = stack[L].node /\ j = stack[L].i
  OBVIOUS
<1> DEFINE n == Deps[p][j]
<1>1. /\ L \in Nat \ {0} /\ p \in Node /\ j \in 1..Len(Deps[p]) /\ Len(Deps[p]) \in Nat
      /\ n \in Node /\ n < p /\ UNCHANGED <<w, queue>>
  BY <1>0, DepShape, GraphFacts
<1>2. PICK callers \in Seq(Frame) :
         /\ Len(callers) = L
         /\ \A k \in 1..L : callers[k].node = stack[k].node
         /\ \A k \in 1..(L - 1) : callers[k].i = stack[k].i
         /\ callers[L].i = j + 1
         /\ Plan!Enter(n, callers)
  BY <1>0, DepShape
<1>3. n = Deps[p][j]
  OBVIOUS
<1> HIDE DEF n
<1>4. There' = There /\ Queued' = Queued /\ visited' = visited \cup {n}
  <2>1. There' = There /\ Queued' = Queued
    BY <1>1 DEF There, Queued
  <2>2. visited' = visited \cup {n}
    BY <1>1, <1>2, EnterCases
  <2> QED BY <2>1, <2>2
<1>5. /\ Resolving = {stack[k].node : k \in 1..L}
      /\ \A k \in 1..L : stack[k].node \in Nat
      /\ \A k \in 1..(L - 1) : p < stack[k].node
      /\ p \in Nat /\ n \in Nat
  BY <1>0, <1>1, TopIsLeast, SizeAssumption DEF Resolving, Node
<1>6. \A k \in 1..L : n < stack[k].node
  <2>1. \A k \in 1..(L - 1) : n < stack[k].node
    <3>1. \A k \in 1..(L - 1) : k \in 1..L
      BY <1>1
    <3> QED BY <1>1, <1>5, <3>1
  <2>2. \A k \in 1..L : k = L \/ k \in 1..(L - 1)
    BY <1>1
  <2> QED BY <1>0, <1>1, <2>1, <2>2
<1>7. n \notin Resolving
  BY <1>5, <1>6
<1>8. /\ \A k \in 1..L : k # L =>
            /\ stack[k].i <= Len(Deps[stack[k].node]) + 1
            /\ \A i \in 1..(stack[k].i - 1) :
                  \/ Deps[stack[k].node][i] \in There \cup Queued
                  \/ Deps[stack[k].node][i] = stack[k + 1].node
      /\ \A i \in 1..(j - 1) : Deps[p][i] \in There \cup Queued
  <2>1. FramesSettled
    BY DEF WalkGood
  <2>2. L \in 1..Len(stack) /\ ~(L < Len(stack))
    BY <1>0, <1>1
  <2>3. \A i \in 1..(j - 1) : Deps[p][i] \in There \cup Queued
    BY <1>0, <2>1, <2>2 DEF FramesSettled
  <2> QED BY <1>0, <2>1, <2>3 DEF FramesSettled
(* The frames below the top are as settled as before, and so is the top     *)
(* one, if n is.                                                            *)
<1>9. ASSUME NEW k \in 1..L, k # L
      PROVE  /\ callers[k].i <= Len(Deps[callers[k].node]) + 1
             /\ \A i \in 1..(callers[k].i - 1) :
                   \/ Deps[callers[k].node][i] \in There \cup Queued
                   \/ Deps[callers[k].node][i] = callers[k + 1].node
  <2>1. k \in 1..(L - 1) /\ k + 1 \in 1..L
    BY <1>1, <1>9
  <2>2. /\ callers[k].node = stack[k].node /\ callers[k].i = stack[k].i
        /\ callers[k + 1].node = stack[k + 1].node
    BY <1>2, <2>1
  <2> QED BY <1>8, <1>9, <2>2
<1>10. /\ callers[L].node = p /\ callers[L].i = j + 1
       /\ callers[L].i <= Len(Deps[p]) + 1
       /\ \A i \in 1..(callers[L].i - 1) :
             Deps[p][i] \in There \cup Queued \/ Deps[p][i] = n
  <2>1. callers[L].node = p /\ callers[L].i = j + 1 /\ (j + 1) - 1 = j
    BY <1>0, <1>1, <1>2
  <2>2. \A i \in 1..j : i = j \/ i \in 1..(j - 1)
    BY <1>1
  <2> QED BY <1>1, <1>3, <1>8, <2>1, <2>2
<1>11. CASE stack' = callers /\ n \in visited \cup There
  <2>1. Resolving' = Resolving
    <3>1. Resolving' = {callers[k].node : k \in 1..L}
      BY <1>2, <1>11 DEF Resolving
    <3>2. \A k \in 1..L : callers[k].node = stack[k].node
      BY <1>2
    <3> QED BY <1>5, <3>1, <3>2
  <2>2. VisitedSplit' /\ n \in There \cup Queued
    BY <1>4, <1>7, <1>11, <2>1, VisitSettled DEF WalkGood
  <2>3. Descends'
    BY <1>0, <1>2, <1>11 DEF WalkGood, Descends
  <2>4. FramesSettled'
    <3> SUFFICES ASSUME NEW k \in 1..L
                 PROVE  /\ callers[k].i <= Len(Deps[callers[k].node]) + 1
                        /\ \A i \in 1..(callers[k].i - 1) :
                             \/ Deps[callers[k].node][i] \in There \cup Queued
                             \/ k < L /\ Deps[callers[k].node][i] = callers[k + 1].node
      BY <1>2, <1>4, <1>11 DEF FramesSettled
    <3>1. CASE k = L
      BY <1>10, <2>2, <3>1
    <3>2. CASE k # L
      <4>1. k < L
        BY <1>1, <3>2
      <4> QED BY <1>9, <3>2, <4>1
    <3> QED BY <3>1, <3>2
  <2> QED BY <1>1, <1>2, <1>11, <2>2, <2>3, <2>4 DEF WalkGood
<1>12. CASE stack' = Append(callers, [node |-> n, i |-> 1]) /\ n \notin visited \cup There
  <2>1. /\ stack' \in Seq(Frame) /\ Len(stack') = L + 1
        /\ \A k \in 1..L : stack'[k] = callers[k]
        /\ stack'[L + 1].node = n /\ stack'[L + 1].i = 1
    <3>1. [node |-> n, i |-> 1] \in Frame
      BY <1>1 DEF Frame
    <3> QED BY <1>1, <1>2, <1>12, <3>1, AppendProperties
  <2>2. Resolving' = Resolving \cup {n}
    <3>1. Resolving' = {stack'[k].node : k \in 1..(L + 1)}
      BY <2>1 DEF Resolving
    <3>2. 1..(L + 1) = (1..L) \cup {L + 1}
      BY <1>1
    <3>3. \A k \in 1..L : stack'[k].node = stack[k].node
      BY <1>2, <2>1
    <3> QED BY <1>5, <2>1, <3>1, <3>2, <3>3, SMTT(30)
  <2>3. VisitedSplit'
    BY <1>4, <1>12, <2>2, VisitMissing DEF WalkGood
  <2>4. Descends'
    <3> SUFFICES ASSUME NEW i \in 1..(L + 1), NEW k \in 1..(L + 1), i < k
                 PROVE  stack'[k].node < stack'[i].node
      BY <2>1 DEF Descends
    <3>1. i \in 1..L /\ (k = L + 1 \/ k \in 1..L)
      BY <1>1
    <3>2. CASE k = L + 1
      BY <1>2, <1>6, <2>1, <3>1, <3>2
    <3>3. CASE k \in 1..L
      BY <1>0, <1>2, <2>1, <3>1, <3>3 DEF WalkGood, Descends
    <3> QED BY <3>1, <3>2, <3>3
  <2>5. FramesSettled'
    <3> SUFFICES ASSUME NEW k \in 1..(L + 1)
                 PROVE  /\ stack'[k].i <= Len(Deps[stack'[k].node]) + 1
                        /\ \A i \in 1..(stack'[k].i - 1) :
                             \/ Deps[stack'[k].node][i] \in There \cup Queued
                             \/ k < L + 1 /\ Deps[stack'[k].node][i] = stack'[k + 1].node
      BY <1>4, <2>1 DEF FramesSettled
    <3>1. CASE k = L + 1
      BY <1>1, <2>1, <3>1, GraphFacts
    <3>2. CASE k = L
      <4>1. stack'[k] = callers[L] /\ stack'[k + 1].node = n /\ k < L + 1
        BY <1>1, <2>1, <3>2
      <4> QED BY <1>10, <4>1
    <3>3. CASE k \in 1..L /\ k # L
      <4>1. k + 1 \in 1..L /\ k < L + 1
        BY <1>1, <3>3
      <4>2. stack'[k] = callers[k] /\ stack'[k + 1] = callers[k + 1]
        BY <2>1, <3>3, <4>1
      <4> QED BY <1>9, <3>3, <4>1, <4>2
    <3> QED BY <1>1, <3>1, <3>2, <3>3
  <2> QED BY <1>1, <2>1, <2>3, <2>4, <2>5 DEF WalkGood
<1> QED BY <1>1, <1>2, <1>11, <1>12, EnterCases

(* The node on top of the stack is settled and is queued.                   *)
LEMMA PushWalk ==
    ASSUME WalkGood, QueueGood, Plan!Push, UNCHANGED <<store, current>>
    PROVE  WalkGood' /\ QueueGood'
<1>0. PICK L, p, j, Q : L = Len(stack) /\ p = stack[L].node /\ j = stack[L].i /\ Q = Len(queue)
  OBVIOUS
<1>1. /\ stack \in Seq(Frame) /\ L \in Nat \ {0} /\ stack[L] \in Frame
      /\ p \in Node /\ p \in Nat /\ j \in Nat
      /\ queue \in Seq(Node) /\ Q \in Nat
  <2>1. stack \in Seq(Frame) /\ L \in Nat \ {0} /\ stack[L] \in Frame
    BY <1>0 DEF WalkGood, Plan!Push
  <2>2. p \in Node /\ p \in Nat /\ j \in Nat
    BY <1>0, <2>1, SizeAssumption DEF Frame, Node
  <2> QED BY <1>0, <2>1, <2>2 DEF QueueGood
<1>2. /\ j > Len(Deps[p]) /\ queue' = Append(queue, p)
      /\ stack' = SubSeq(stack, 1, L - 1) /\ UNCHANGED <<w, visited>>
  BY <1>0 DEF Plan!Push, Plan!Top, Plan!Last, Plan!Front
<1>3. /\ stack' \in Seq(Frame) /\ Len(stack') = L - 1
      /\ \A k \in 1..(L - 1) : stack'[k] = stack[k]
  <2>1. \A k \in 1..(L - 1) : stack[k] \in Frame
    BY <1>0, <1>1
  <2>2. 1 \in Int /\ L - 1 \in Int
    BY <1>1
  <2> QED BY <1>0, <1>1, <1>2, <2>1, <2>2, SubSeqProperties
<1>4. /\ queue' \in Seq(Node) /\ Len(queue') = Q + 1
      /\ \A k \in 1..Q : queue'[k] = queue[k]
      /\ queue'[Q + 1] = p
  BY <1>0, <1>1, <1>2, AppendProperties
<1>5. There' = There /\ current' = current /\ current = 0 /\ current \notin Node
  BY SizeAssumption DEF There, WalkGood, Node
<1>6. Queued' = Queued \cup {p}
  <2>1. Queued = {queue[k] : k \in 1..Q} /\ Queued' = {queue'[k] : k \in 1..(Q + 1)}
    BY <1>0, <1>4 DEF Queued
  <2>2. 1..(Q + 1) = (1..Q) \cup {Q + 1}
    BY <1>1
  <2> QED BY <1>4, <2>1, <2>2
<1>7. \A k \in 1..(L - 1) : p < stack[k].node /\ stack[k].node \in Nat
  <2>1. \A k \in 1..(L - 1) : k \in 1..L
    BY <1>1
  <2> QED BY <1>0, <1>1, <2>1, TopIsLeast
<1>8. Resolving = Resolving' \cup {p} /\ p \notin Resolving'
  <2>1. Resolving = {stack[k].node : k \in 1..L} /\ Resolving' = {stack[k].node : k \in 1..(L - 1)}
    BY <1>0, <1>3 DEF Resolving
  <2>2. 1..L = (1..(L - 1)) \cup {L}
    BY <1>1
  <2>3. p \notin Resolving'
    BY <1>1, <1>7, <2>1
  <2> QED BY <1>0, <2>1, <2>2, <2>3
<1>9. p \notin Queued /\ p \notin There
  BY <1>8 DEF WalkGood, VisitedSplit
<1>10. VisitedSplit'
  BY <1>2, <1>5, <1>6, <1>8, <1>9 DEF WalkGood, VisitedSplit
<1>11. Descends'
  <2>1. \A k \in 1..(L - 1) : k \in 1..L
    BY <1>1
  <2> QED BY <1>0, <1>3, <2>1 DEF WalkGood, Descends
<1>12. /\ \A k \in 1..(L - 1) :
            /\ stack[k].i <= Len(Deps[stack[k].node]) + 1
            /\ \A i \in 1..(stack[k].i - 1) :
                  \/ Deps[stack[k].node][i] \in There \cup Queued
                  \/ Deps[stack[k].node][i] = stack[k + 1].node
       /\ \A i \in 1..Len(Deps[p]) : Deps[p][i] \in There \cup Queued
  <2>1. Len(Deps[p]) \in Nat
    BY <1>1, GraphFacts
  <2>2. \A i \in 1..Len(Deps[p]) : i \in 1..(j - 1)
    BY <1>1, <1>2, <2>1
  <2>3. \A k \in 1..(L - 1) : k \in 1..Len(stack)
    BY <1>0, <1>1
  <2>4. L \in 1..Len(stack) /\ ~(L < Len(stack))
    BY <1>0, <1>1
  <2>5. FramesSettled
    BY DEF WalkGood
  <2>6. \A i \in 1..(j - 1) : Deps[p][i] \in There \cup Queued
    BY <1>0, <2>4, <2>5 DEF FramesSettled
  <2> QED BY <2>2, <2>3, <2>5, <2>6 DEF FramesSettled
<1>13. FramesSettled'
  <2> SUFFICES ASSUME NEW k \in 1..(L - 1)
               PROVE  /\ stack[k].i <= Len(Deps[stack[k].node]) + 1
                      /\ \A i \in 1..(stack[k].i - 1) :
                           \/ Deps[stack[k].node][i] \in There \cup Queued'
                           \/ k < L - 1 /\ Deps[stack[k].node][i] = stack[k + 1].node
    <3>1. \A k \in 1..(L - 1) : k < L - 1 => k + 1 \in 1..(L - 1)
      BY <1>1
    <3>2. Len(stack') = L - 1 /\ (There \cup Queued)' = There \cup Queued'
      BY <1>3, <1>5
    <3>3. \A k \in 1..(L - 1) : stack'[k] = stack[k]
      BY <1>3
    <3> QED BY <3>1, <3>2, <3>3, SMTT(30) DEF FramesSettled
  <2>1. k < L - 1 \/ k + 1 = L
    BY <1>1
  <2> QED BY <1>0, <1>6, <1>12, <2>1
<1>14. WalkGood'
  BY <1>2, <1>3, <1>5, <1>10, <1>11, <1>13 DEF WalkGood
<1>15. \A q, r \in 1..Len(queue') : q < r => queue'[q] # queue'[r]
  <2> SUFFICES ASSUME NEW q \in 1..(Q + 1), NEW r \in 1..(Q + 1), q < r
               PROVE  queue'[q] # queue'[r]
    BY <1>4
  <2>1. q \in 1..Q /\ (r \in 1..Q \/ r = Q + 1)
    BY <1>1
  <2>2. queue[q] \in Queued
    BY <1>0, <2>1 DEF Queued
  <2> QED BY <1>0, <1>4, <1>9, <2>1, <2>2 DEF QueueGood
<1>16. Queued' \cap (There \cup {current})' = {}
  BY <1>1, <1>5, <1>6, <1>9 DEF QueueGood
<1>17. ASSUME NEW q \in 1..(Q + 1), NEW i \in 1..Len(Deps[queue'[q]])
       PROVE  \/ Deps[queue'[q]][i] \in There
              \/ \E r \in 1..(q - 1) : queue'[r] = Deps[queue'[q]][i]
  <2>1. CASE q \in 1..Q
    <3>1. queue'[q] = queue[q] /\ \A r \in 1..(q - 1) : queue'[r] = queue[r]
      BY <1>1, <1>4, <2>1
    <3>2. queue[q] \in Node
      BY <1>0, <1>1, <2>1
    <3>3. i \in 1..Len(Deps[queue[q]]) /\ Deps[queue[q]][i] \in Node
      BY <3>1, <3>2, GraphFacts
    <3>4. \/ Deps[queue[q]][i] \in There \cup {current}
          \/ \E r \in 1..(q - 1) : queue[r] = Deps[queue[q]][i]
      BY <1>0, <2>1, <3>3 DEF QueueGood
    <3> QED BY <1>5, <3>1, <3>3, <3>4
  <2>2. CASE q = Q + 1
    <3>1. Deps[p][i] \in There \cup Queued /\ queue'[q] = p
      BY <1>4, <1>12, <2>2
    <3>2. Queued = {queue'[k] : k \in 1..Q} /\ q - 1 = Q
      BY <1>0, <1>1, <1>4, <2>2 DEF Queued
    <3> QED BY <3>1, <3>2
  <2>3. q \in 1..Q \/ q = Q + 1
    BY <1>1
  <2> QED BY <2>1, <2>2, <2>3
<1> QED BY <1>4, <1>5, <1>14, <1>15, <1>16, <1>17 DEF QueueGood

-----------------------------------------------------------------------------
(* The builders.  Of all they do, these matter here: which object they      *)
(* write, and whether it is there when they report success.                 *)

IsObject(x) == DOMAIN x = {"kind", "has"}

StoreShape == DOMAIN store = Node /\ \A n \in Node : IsObject(store[n])

IsFetchJob(j) == DOMAIN j = {"pc", "n", "k", "fd", "data", "last", "result"}

IsBuildJob(j) == DOMAIN j = {"pc", "n", "k", "root", "log", "data", "last", "code"}

(* fetch(): archives are extracted into a directory that is there.          *)
FetchGoodFor(c, j, object) ==
    /\ IsFetchJob(j)
    /\ j.pc # "idle" => j.n = c
    /\ j.pc \in {"mkdir", "unpack", "extract", "extracted"} => j.n \in Archive
    /\ \/ j.pc \in {"unpack", "extract", "extracted"}
       \/ j.pc = "returned" /\ j.result = "ok"
       => object.kind # "none"

(* build_standard(): the exit code is success only if there is an object.   *)
BuildGoodFor(c, j, object) ==
    /\ IsBuildJob(j)
    /\ j.pc # "idle" => j.n = c
    /\ j.pc \in {"clear", "ensure"} => j.code = "fail"
    /\ \/ j.pc \in {"copydir", "copied", "copyfile", "close", "chmod"}
       \/ j.pc \in {"finalize", "returned"} /\ j.code = "ok"
       => object.kind # "none"

FetchGood == DOMAIN fetching = {Main} /\ FetchGoodFor(current, fetching[Main], store[current])

BuildGood == DOMAIN building = {Main} /\ BuildGoodFor(current, building[Main], store[current])

(* A step of a builder leaves alone all objects but the one being made.     *)
OnlyCurrent ==
    /\ StoreShape'
    /\ \A m \in Node : m # current => store'[m] = store[m]

LEMMA StorePut ==
    ASSUME StoreShape, current \in Node, NEW x, IsObject(x),
           store' = [store EXCEPT ![current] = x]
    PROVE  OnlyCurrent /\ store'[current] = x
BY DEF StoreShape, OnlyCurrent

LEMMA StoreSame ==
    ASSUME StoreShape, current \in Node, UNCHANGED store
    PROVE  OnlyCurrent /\ store'[current] = store[current]
BY DEF StoreShape, OnlyCurrent

LEMMA OutPut ==
    ASSUME StoreShape, current \in Node, NEW x, IsObject(x), F!SetOut(current, x)
    PROVE  /\ OnlyCurrent
           /\ current \in Archive => store'[current] = store[current]
BY StorePut, StoreSame DEF F!SetOut

(* fetch() has returned: the file is removed or left as it is.              *)
LEMMA FetchFails ==
    ASSUME FetchGood, StoreShape, current \in Node, UNCHANGED current,
           fetching[Main].n = current,
           F!Fail(Main) \/ F!RemoveAndReturn(Main, "fail")
    PROVE  OnlyCurrent /\ FetchGood'
<1>1. IsObject(F!Absent)
  BY DEF IsObject, F!Absent
<1>2. OnlyCurrent
  BY <1>1, StoreSame, OutPut DEF F!Fail, F!RemoveAndReturn
<1>3. DOMAIN fetching' = {Main} /\ fetching'[Main] = F!Returning(fetching[Main], "fail")
  BY DEF FetchGood, F!Fail, F!RemoveAndReturn, F!Orphaned
<1>4. FetchGoodFor(current, F!Returning(fetching[Main], "fail"), store'[current])
  <2>1. IsFetchJob(fetching[Main])
    BY DEF FetchGood, FetchGoodFor
  <2> QED BY <2>1 DEF FetchGoodFor, IsFetchJob, F!Returning
<1> QED BY <1>2, <1>3, <1>4 DEF FetchGood

(* fetch() goes on, its locals being r.                                     *)
LEMMA FetchGoes ==
    ASSUME UNCHANGED current, NEW r, r = fetching'[Main], DOMAIN fetching' = {Main},
           IsFetchJob(r), r.n = current, r.pc \notin {"idle", "returned"},
           r.pc \in {"mkdir", "unpack", "extract", "extracted"} => current \in Archive,
           r.pc \in {"unpack", "extract", "extracted"} => store'[current].kind # "none"
    PROVE  FetchGood'
<1>1. FetchGoodFor(current, r, store'[current])
  BY DEF FetchGoodFor
<1> QED BY <1>1 DEF FetchGood

(* Every call of fetch() writes only the object of its own derivative.      *)
LEMMA FetchEffect ==
    ASSUME FetchGood, StoreShape, current \in Node, UNCHANGED current, F!Step(Main)
    PROVE  OnlyCurrent /\ FetchGood' /\ fetching[Main].pc # "idle"
<1> DEFINE j == fetching[Main]
<1>1. /\ DOMAIN fetching = {Main} /\ IsFetchJob(j)
      /\ FetchGoodFor(current, j, store[current])
  <2>1. DOMAIN fetching = {Main} /\ FetchGoodFor(current, j, store[current])
    BY SMTT(30) DEF FetchGood
  <2> QED BY <2>1 DEF FetchGoodFor
<1>2. j.pc # "idle"
  BY DEF F!Step, F!Open, F!Transfer, F!Status, F!Verify, F!Seal, F!MakeDir, F!Unpack,
         F!Extract, F!Extracted
<1> SUFFICES OnlyCurrent /\ FetchGood'
  BY <1>2
<1>3. j.n = current
  BY <1>1, <1>2 DEF FetchGoodFor
<1>4. IsObject(F!EmptyFile) /\ IsObject(F!EmptyDir) /\ IsObject(F!Absent)
  BY DEF IsObject, F!EmptyFile, F!EmptyDir, F!Absent
<1>5. CASE F!Fail(Main) \/ F!RemoveAndReturn(Main, "fail")
  BY <1>3, <1>5, FetchFails
<1>6. CASE F!Open(Main) /\ ~F!Fail(Main)
  <2> DEFINE r == [j EXCEPT !.pc = "transfer", !.fd = "path"]
  <2>1. F!SetOut(current, F!EmptyFile) /\ DOMAIN fetching' = {Main} /\ fetching'[Main] = r
    BY <1>1, <1>3, <1>6 DEF F!Open
  <2>2. IsFetchJob(r) /\ r.n = current /\ r.pc = "transfer"
    BY <1>1, <1>3 DEF IsFetchJob
  <2> HIDE DEF r
  <2> QED BY <1>4, <2>1, <2>2, OutPut, FetchGoes
<1>7. CASE F!Transfer(Main) /\ ~F!Fail(Main)
  <2>1. OnlyCurrent
    <3>1. CASE UNCHANGED store
      BY <3>1, StoreSame
    <3>2. CASE \E b : F!SetOut(current, F!Write(F!Out(current), b)) /\ ~UNCHANGED store
      <4>1. PICK b : F!SetOut(current, F!Write(store[current], b)) /\ ~UNCHANGED store
        BY <3>2 DEF F!Out, F!SetOut
      <4>2. IsObject(F!Write(store[current], b))
        BY DEF StoreShape, IsObject, F!Write
      <4> QED BY <4>1, <4>2, OutPut
    <3> QED BY <1>3, <1>7, <3>1, <3>2 DEF F!Transfer
  <2>2. /\ DOMAIN fetching' = {Main} /\ IsFetchJob(fetching'[Main])
        /\ fetching'[Main].n = current /\ fetching'[Main].pc \in {"transfer", "status"}
    BY <1>1, <1>3, <1>7 DEF F!Transfer, IsFetchJob
  <2> QED BY <2>1, <2>2, FetchGoes
<1>8. CASE F!Status(Main) /\ ~F!RemoveAndReturn(Main, "fail")
  <2> DEFINE r == [j EXCEPT !.pc = "verify", !.fd = "closed", !.data = {}, !.k = 1]
  <2>1. UNCHANGED store /\ DOMAIN fetching' = {Main} /\ fetching'[Main] = r
    BY <1>1, <1>3, <1>8 DEF F!Status
  <2>2. IsFetchJob(r) /\ r.n = current /\ r.pc = "verify"
    BY <1>1, <1>3 DEF IsFetchJob
  <2> HIDE DEF r
  <2> QED BY <2>1, <2>2, StoreSame, FetchGoes
<1>9. CASE F!Verify(Main) /\ ~F!RemoveAndReturn(Main, "fail") /\ ~F!Fail(Main)
  <2> DEFINE r == [j EXCEPT !.pc = IF current \in Archive THEN "mkdir" ELSE "seal"]
  <2>1. UNCHANGED store /\ DOMAIN fetching' = {Main} /\ fetching'[Main] = r
    BY <1>1, <1>3, <1>9 DEF F!Verify
  <2>2. IsFetchJob(r) /\ r.n = current /\ r.pc = IF current \in Archive THEN "mkdir" ELSE "seal"
    BY <1>1, <1>3 DEF IsFetchJob
  <2> HIDE DEF r
  <2> QED BY <2>1, <2>2, StoreSame, FetchGoes
<1>10. CASE F!Seal(Main) /\ ~F!RemoveAndReturn(Main, "fail") /\ ~F!Fail(Main)
  <2>1. /\ UNCHANGED store /\ store[current].kind # "none"
        /\ fetching' = [fetching EXCEPT ![Main] = F!Returning(j, "ok")]
    BY <1>1, <1>3, <1>10 DEF F!Seal, F!Exists
  <2>3. FetchGoodFor(current, F!Returning(j, "ok"), store[current])
    BY <1>1, <1>3, <2>1 DEF FetchGoodFor, IsFetchJob, F!Returning
  <2> QED BY <1>1, <2>1, <2>3, StoreSame DEF FetchGood
<1>11. CASE F!MakeDir(Main) /\ ~F!RemoveAndReturn(Main, "fail")
  <2> DEFINE r == [j EXCEPT !.pc = "unpack"]
  <2>1. /\ store' = [store EXCEPT ![current] = F!EmptyDir]
        /\ DOMAIN fetching' = {Main} /\ fetching'[Main] = r /\ current \in Archive
    BY <1>1, <1>3, <1>11 DEF F!MakeDir, FetchGoodFor
  <2>2. IsFetchJob(r) /\ r.n = current /\ r.pc = "unpack"
    BY <1>1, <1>3 DEF IsFetchJob
  <2> HIDE DEF r
  <2>3. OnlyCurrent /\ store'[current].kind # "none"
    <3>1. OnlyCurrent /\ store'[current] = F!EmptyDir
      BY <1>4, <2>1, StorePut
    <3> QED BY <3>1 DEF F!EmptyDir
  <2> QED BY <2>1, <2>2, <2>3, FetchGoes
<1>12. CASE F!Unpack(Main) /\ ~F!RemoveAndReturn(Main, "fail") /\ ~F!Fail(Main)
  <2> DEFINE r == [j EXCEPT !.pc = "extract", !.fd = "path", !.k = 1]
  <2>1. /\ UNCHANGED store /\ store[current].kind # "none" /\ current \in Archive
        /\ DOMAIN fetching' = {Main} /\ fetching'[Main] = r
    BY <1>1, <1>3, <1>12 DEF F!Unpack, FetchGoodFor
  <2>2. IsFetchJob(r) /\ r.n = current /\ r.pc = "extract"
    BY <1>1, <1>3 DEF IsFetchJob
  <2> HIDE DEF r
  <2> QED BY <2>1, <2>2, StoreSame, FetchGoes
<1>13. CASE F!Extract(Main)
  <2>1. store[current].kind # "none" /\ current \in Archive
    BY <1>1, <1>3, <1>13 DEF F!Extract, FetchGoodFor
  <2>2. OnlyCurrent /\ store'[current].kind # "none"
    <3>1. CASE UNCHANGED store
      BY <2>1, <3>1, StoreSame
    <3>2. CASE \E b : store' = [store EXCEPT ![current].has = @ \cup {b}]
      <4>1. PICK x : store' = [store EXCEPT ![current] = x] /\ x.kind = store[current].kind
                       /\ IsObject(x)
        <5>1. PICK b : store' = [store EXCEPT ![current].has = @ \cup {b}]
          BY <3>2
        <5>2. LET x == [store[current] EXCEPT !.has = @ \cup {b}]
              IN  store' = [store EXCEPT ![current] = x] /\ x.kind = store[current].kind
                    /\ IsObject(x)
          BY <5>1 DEF StoreShape, IsObject
        <5> QED BY <5>2
      <4> QED BY <2>1, <4>1, StorePut
    <3> QED BY <1>3, <1>13, <3>1, <3>2 DEF F!Extract
  <2>3. /\ DOMAIN fetching' = {Main} /\ IsFetchJob(fetching'[Main])
        /\ fetching'[Main].n = current /\ fetching'[Main].pc \in {"extract", "extracted"}
    BY <1>1, <1>3, <1>13 DEF F!Extract, IsFetchJob
  <2> QED BY <2>1, <2>2, <2>3, FetchGoes
<1>14. CASE F!Extracted(Main) /\ ~F!RemoveAndReturn(Main, "fail")
  <2>1. /\ F!RemoveAndReturn(Main, "ok")
        /\ store[current].kind # "none" /\ current \in Archive
    BY <1>1, <1>3, <1>14 DEF F!Extracted, FetchGoodFor
  <2>2. OnlyCurrent /\ store'[current].kind # "none"
    BY <1>3, <1>4, <2>1, OutPut DEF F!RemoveAndReturn
  <2>3. DOMAIN fetching' = {Main} /\ fetching'[Main] = F!Returning(j, "ok")
    BY <1>1, <2>1 DEF F!RemoveAndReturn, F!Orphaned
  <2>5. FetchGoodFor(current, F!Returning(j, "ok"), store'[current])
    BY <1>1, <1>3, <2>2 DEF FetchGoodFor, IsFetchJob, F!Returning
  <2> QED BY <2>2, <2>3, <2>5 DEF FetchGood
<1> QED BY <1>5, <1>6, <1>7, <1>8, <1>9, <1>10, <1>11, <1>12, <1>13, <1>14 DEF F!Step

(* build_standard() goes on, its locals being r.                            *)
LEMMA BuildGoes ==
    ASSUME UNCHANGED current, NEW r, r = building'[Main], DOMAIN building' = {Main},
           IsBuildJob(r), r.n = current,
           r.pc \in {"clear", "ensure"} => r.code = "fail",
           \/ r.pc \in {"copydir", "copied", "copyfile", "close", "chmod"}
           \/ r.pc \in {"finalize", "returned"} /\ r.code = "ok"
           => store'[current].kind # "none"
    PROVE  BuildGood'
<1>1. BuildGoodFor(current, r, store'[current])
  BY DEF BuildGoodFor
<1> QED BY <1>1 DEF BuildGood

(* fs_rmdir(), by the only invocation there is.                             *)
LEMMA OneRemoves ==
    ASSUME DOMAIN building = {Main}, NEW after, B!RemoveDir(Main, after)
    PROVE  /\ DOMAIN building' = {Main}
           /\ LET n == building[Main].n IN
              \/ /\ building'[Main] = building[Main]
                 /\ \E e \in B!Less(bdir[n]) : bdir' = [bdir EXCEPT ![n] = e]
              \/ building'[Main] = after /\ bdir' = [bdir EXCEPT ![n] = B!NoDir]
              \/ building'[Main] = after /\ UNCHANGED bdir /\ B!Fault
<1>1. \A e : DOMAIN B!Robbed(Main, e) = {Main} /\ B!Robbed(Main, e)[Main] = building[Main]
  BY DEF B!Robbed
<1>2. ~B!Company(Main)
  BY DEF B!Company
<1> QED BY <1>1, <1>2 DEF B!RemoveDir

(* Every call of build_standard() writes only the object of its own         *)
(* derivative.                                                              *)
LEMMA BuildEffect ==
    ASSUME BuildGood, StoreShape, current \in Node, UNCHANGED current,
           NEW sound, B!Step(Main, sound)
    PROVE  OnlyCurrent /\ BuildGood' /\ building[Main].pc # "idle"
<1> DEFINE j == building[Main]
           r == building'[Main]
<1>1. /\ DOMAIN building = {Main} /\ IsBuildJob(j)
      /\ BuildGoodFor(current, j, store[current])
  <2>1. DOMAIN building = {Main} /\ BuildGoodFor(current, j, store[current])
    BY DEF BuildGood
  <2> QED BY <2>1 DEF BuildGoodFor
<1>2. j.pc # "idle"
  <2> SUFFICES ASSUME j.pc = "idle" PROVE FALSE
    OBVIOUS
  <2>1. ~(B!Clear(Main) \/ B!Ensure(Main) \/ B!Fork(Main) \/ B!OpenLog(Main))
    BY DEF B!Clear, B!Ensure, B!Fork, B!OpenLog
  <2>5. ~(B!JailBind(Main) \/ B!JailMkdir(Main) \/ B!JailPivot(Main) \/ B!JailInside(Main))
    BY DEF B!JailBind, B!JailMkdir, B!JailPivot, B!JailInside
  <2>6. ~(B!Script(Main, sound) \/ B!LogBreaks(Main) \/ B!JailBlocks(Main)
            \/ B!JailEnd(Main, sound))
    BY DEF B!Script, B!LogBreaks, B!JailBlocks, B!JailEnd
  <2>2. ~(B!Wait(Main) \/ B!Publish(Main) \/ B!CopyDir(Main))
    BY DEF B!Wait, B!Publish, B!CopyDir
  <2>3. ~(B!Copied(Main) \/ B!OpenOut(Main) \/ B!CopyFile(Main) \/ B!Close(Main))
    BY DEF B!Copied, B!OpenOut, B!CopyFile, B!Close
  <2>4. ~(B!Chmod(Main) \/ B!Finalize(Main))
    BY DEF B!Chmod, B!Finalize
  <2> QED BY <2>1, <2>2, <2>3, <2>4, <2>5, <2>6 DEF B!Step
<1> SUFFICES OnlyCurrent /\ BuildGood'
  BY <1>2
<1>3. j.n = current
  BY <1>1, <1>2 DEF BuildGoodFor
<1>4. IsObject(B!EmptyFile) /\ IsObject(B!EmptyDir)
  BY DEF IsObject, B!EmptyFile, B!EmptyDir
(* The ways on: to another place, out with a failure, out for good.         *)
<1>5. ASSUME NEW pc, B!Goto(Main, pc)
      PROVE  /\ DOMAIN building' = {Main} /\ IsBuildJob(r)
             /\ r.n = current /\ r.pc = pc /\ r.code = j.code
  BY <1>1, <1>3, <1>5 DEF B!Goto, IsBuildJob
<1>6. ASSUME B!Fail(Main)
      PROVE  /\ DOMAIN building' = {Main} /\ IsBuildJob(r)
             /\ r.n = current /\ r.pc = "finalize" /\ r.code = "fail"
  BY <1>1, <1>3, <1>6 DEF B!Fail, IsBuildJob
<1>7. /\ IsBuildJob(B!Return(j)) /\ B!Return(j).n = current
      /\ B!Return(j).pc = "returned" /\ B!Return(j).code = j.code
  BY <1>3 DEF IsBuildJob, B!Return, B!NoJob
<1>8. CASE B!Clear(Main)
  <2> DEFINE after == [j EXCEPT !.pc = "ensure"]
  <2>1. B!RemoveDir(Main, after) /\ j.pc = "clear" /\ UNCHANGED store
    BY <1>8 DEF B!Clear
  <2>2. /\ IsBuildJob(after) /\ j.code = "fail" /\ after.n = current /\ after.pc = "ensure"
        /\ after.code = j.code
    BY <1>1, <1>3, <2>1 DEF IsBuildJob, BuildGoodFor
  <2> HIDE DEF after
  <2>3. DOMAIN building' = {Main} /\ r \in {j, after}
    BY <1>1, <2>1, OneRemoves
  <2>4. IsBuildJob(r) /\ r.n = current /\ r.pc \in {"clear", "ensure"} /\ r.code = "fail"
    BY <1>1, <1>3, <2>1, <2>2, <2>3
  <2> QED BY <2>1, <2>3, <2>4, StoreSame, BuildGoes
<1>9. CASE B!Ensure(Main)
  <2>1. /\ DOMAIN building' = {Main} /\ IsBuildJob(r) /\ j.code = "fail"
        /\ r.n = current /\ r.pc \in {"fork", "returned"} /\ r.code = j.code
        /\ UNCHANGED store
    BY <1>1, <1>5, <1>7, <1>9 DEF B!Ensure, BuildGoodFor
  <2> QED BY <2>1, StoreSame, BuildGoes
<1>10. CASE B!Fork(Main)
  <2>1. /\ DOMAIN building' = {Main} /\ IsBuildJob(r) /\ r.n = current /\ UNCHANGED store
        /\ \/ r.pc \in {"log", "exited"}
           \/ r.pc = "finalize" /\ r.code = "fail"
    BY <1>5, <1>6, <1>10 DEF B!Fork
  <2> QED BY <2>1, StoreSame, BuildGoes
<1>11. CASE \/ B!OpenLog(Main) \/ B!JailBind(Main) \/ B!JailMkdir(Main)
            \/ B!JailPivot(Main) \/ B!JailInside(Main)
  <2>0. ASSUME B!JailFails(Main)
        PROVE  DOMAIN building' = {Main} /\ IsBuildJob(r) /\ r.n = current /\ r.pc = "wait"
    BY <1>1, <1>3, <2>0 DEF B!JailFails, IsBuildJob
  <2>1. CASE B!OpenLog(Main)
    <3>1. /\ DOMAIN building' = {Main} /\ IsBuildJob(r) /\ r.n = current /\ UNCHANGED store
          /\ r.pc = "jail"
      BY <1>1, <1>3, <2>1 DEF B!OpenLog, IsBuildJob
    <3> QED BY <3>1, StoreSame, BuildGoes
  <2>2. CASE B!JailBind(Main) \/ B!JailMkdir(Main)
    <3>1. /\ DOMAIN building' = {Main} /\ IsBuildJob(r) /\ r.n = current /\ UNCHANGED store
          /\ r.pc \in {"setup", "wait"}
      BY <1>1, <1>3, <2>0, <2>2 DEF B!JailBind, B!JailMkdir, IsBuildJob
    <3> QED BY <3>1, StoreSame, BuildGoes
  <2>3. CASE B!JailPivot(Main) \/ B!JailInside(Main)
    <3>1. /\ DOMAIN building' = {Main} /\ IsBuildJob(r) /\ r.n = current /\ UNCHANGED store
          /\ r.pc \in {"inside", "running", "wait"}
      BY <1>1, <1>3, <1>5, <2>0, <2>3 DEF B!JailPivot, B!JailInside, IsBuildJob
    <3> QED BY <3>1, StoreSame, BuildGoes
  <2> QED BY <1>11, <2>1, <2>2, <2>3
<1>12. CASE \/ B!Script(Main, sound) \/ B!LogBreaks(Main) \/ B!JailBlocks(Main)
            \/ B!JailEnd(Main, sound)
  <2>1. CASE B!Script(Main, sound) \/ B!LogBreaks(Main)
    <3>1. /\ DOMAIN building' = {Main} /\ IsBuildJob(r) /\ r.n = current /\ UNCHANGED store
          /\ r.pc = "running"
      BY <1>1, <1>3, <2>1 DEF B!Script, B!LogBreaks, IsBuildJob
    <3> QED BY <3>1, StoreSame, BuildGoes
  <2>2. CASE B!JailBlocks(Main) \/ B!JailEnd(Main, sound)
    <3>1. /\ DOMAIN building' = {Main} /\ IsBuildJob(r) /\ r.n = current /\ UNCHANGED store
          /\ r.pc \in {"stuck", "wait"}
      BY <1>1, <1>3, <1>5, <2>2 DEF B!JailBlocks, B!JailEnd, B!JailFails, IsBuildJob
    <3> QED BY <3>1, StoreSame, BuildGoes
  <2> QED BY <1>12, <2>1, <2>2
<1>13. CASE B!Wait(Main)
  <2>1. UNCHANGED store /\ (B!Fail(Main) \/ B!Goto(Main, "publish") \/ B!Goto(Main, "openout"))
    BY <1>13 DEF B!Wait
  <2>2. /\ DOMAIN building' = {Main} /\ IsBuildJob(r) /\ r.n = current
        /\ r.pc \in {"publish", "openout"} \/ (r.pc = "finalize" /\ r.code = "fail")
    BY <1>5, <1>6, <2>1
  <2> QED BY <2>1, <2>2, StoreSame, BuildGoes
<1>14. CASE B!Publish(Main)
  <2>1. CASE store' = [store EXCEPT ![current] = B!EmptyDir]
    <3>1. OnlyCurrent /\ store'[current] = B!EmptyDir
      BY <1>4, <2>1, StorePut
    <3>2. /\ DOMAIN building' = {Main} /\ IsBuildJob(r) /\ r.n = current
          /\ r.pc = "copydir" \/ (r.pc = "finalize" /\ r.code = "fail")
      BY <1>1, <1>3, <1>6, <1>14 DEF B!Publish, IsBuildJob
    <3>3. store'[current].kind # "none"
      BY <3>1 DEF B!EmptyDir
    <3> QED BY <3>1, <3>2, <3>3, BuildGoes
  <2>2. CASE B!Fail(Main) /\ UNCHANGED store
    BY <1>6, <2>2, StoreSame, BuildGoes
  <2> QED BY <1>3, <1>14, <2>1, <2>2 DEF B!Publish
<1>15. CASE B!CopyDir(Main)
  <2>1. store[current].kind # "none"
    BY <1>1, <1>15 DEF B!CopyDir, BuildGoodFor
  <2>2. OnlyCurrent /\ store'[current].kind # "none"
    <3>1. CASE UNCHANGED store
      BY <2>1, <3>1, StoreSame
    <3>2. ASSUME NEW b, store' = [store EXCEPT ![current].has = @ \cup {b}]
          PROVE  OnlyCurrent /\ store'[current].kind # "none"
      BY <2>1, <3>2 DEF StoreShape, OnlyCurrent, IsObject
    <3> QED BY <1>3, <1>15, <3>1, <3>2 DEF B!CopyDir
  <2>3. /\ DOMAIN building' = {Main} /\ IsBuildJob(r) /\ r.n = current
        /\ r.pc \in {"copydir", "copied"}
    BY <1>1, <1>3, <1>5, <1>15 DEF B!CopyDir, IsBuildJob
  <2> QED BY <2>2, <2>3, BuildGoes
<1>16. CASE B!Copied(Main)
  <2>1. /\ UNCHANGED store /\ store[current].kind # "none"
        /\ B!Fail(Main) \/ B!Goto(Main, "chmod")
    BY <1>1, <1>16 DEF B!Copied, BuildGoodFor
  <2>2. /\ DOMAIN building' = {Main} /\ IsBuildJob(r) /\ r.n = current
        /\ r.pc \in {"finalize", "chmod"}
    BY <1>5, <1>6, <2>1
  <2> QED BY <2>1, <2>2, StoreSame, BuildGoes
<1>17. CASE B!OpenOut(Main)
  <2>1. CASE store' = [store EXCEPT ![current] = B!EmptyFile]
    <3>1. OnlyCurrent /\ store'[current] = B!EmptyFile
      BY <1>4, <2>1, StorePut
    <3>2. /\ DOMAIN building' = {Main} /\ IsBuildJob(r) /\ r.n = current
          /\ r.pc = "copyfile" \/ (r.pc = "finalize" /\ r.code = "fail")
      BY <1>1, <1>3, <1>6, <1>17 DEF B!OpenOut, IsBuildJob
    <3>3. store'[current].kind # "none"
      BY <3>1 DEF B!EmptyFile
    <3> QED BY <3>1, <3>2, <3>3, BuildGoes
  <2>2. CASE B!Fail(Main) /\ UNCHANGED store
    BY <1>6, <2>2, StoreSame, BuildGoes
  <2> QED BY <1>3, <1>17, <2>1, <2>2 DEF B!OpenOut
<1>18. CASE B!CopyFile(Main)
  <2>1. store[current].kind # "none"
    BY <1>1, <1>18 DEF B!CopyFile, BuildGoodFor
  <2>2. OnlyCurrent /\ store'[current].kind # "none"
    <3>1. CASE UNCHANGED store
      BY <2>1, <3>1, StoreSame
    <3>2. ASSUME NEW b, store' = [store EXCEPT ![current] = B!Write(@, b)]
          PROVE  OnlyCurrent /\ store'[current].kind # "none"
      BY <2>1, <3>2 DEF StoreShape, OnlyCurrent, IsObject, B!Write
    <3> QED BY <1>3, <1>18, <3>1, <3>2 DEF B!CopyFile
  <2>3. /\ DOMAIN building' = {Main} /\ IsBuildJob(r) /\ r.n = current
        /\ r.pc \in {"copyfile", "close", "finalize"}
    BY <1>1, <1>3, <1>5, <1>6, <1>18 DEF B!CopyFile, IsBuildJob
  <2> QED BY <2>2, <2>3, BuildGoes
<1>19. CASE B!Close(Main)
  <2>1. store[current].kind # "none" /\ B!Goto(Main, "chmod")
    BY <1>1, <1>19 DEF B!Close, BuildGoodFor
  <2>2. OnlyCurrent /\ store'[current].kind # "none"
    <3>1. CASE UNCHANGED store
      BY <2>1, <3>1, StoreSame
    <3>2. CASE store' = [store EXCEPT ![current].has = @ \ B!BlocksAt(@, K)]
      BY <2>1, <3>2 DEF StoreShape, OnlyCurrent, IsObject
    <3> QED BY <1>3, <1>19, <3>1, <3>2 DEF B!Close
  <2> QED BY <1>5, <2>1, <2>2, BuildGoes
<1>20. CASE B!Chmod(Main)
  <2>1. /\ UNCHANGED store /\ store[current].kind # "none"
        /\ B!Fail(Main) \/ B!Goto(Main, "finalize")
    BY <1>1, <1>20 DEF B!Chmod, BuildGoodFor
  <2>2. /\ DOMAIN building' = {Main} /\ IsBuildJob(r) /\ r.n = current
        /\ r.pc = "finalize"
    BY <1>5, <1>6, <2>1
  <2> QED BY <2>1, <2>2, StoreSame, BuildGoes
<1>21. CASE B!Finalize(Main)
  <2>1. /\ UNCHANGED store /\ j.pc = "finalize" /\ B!RemoveDir(Main, B!Return(j))
        /\ j.code = "ok" => store[current].kind # "none"
    BY <1>1, <1>21 DEF B!Finalize, BuildGoodFor
  <2>2. DOMAIN building' = {Main} /\ r \in {j, B!Return(j)}
    BY <1>1, <2>1, OneRemoves
  <2>3. /\ IsBuildJob(r) /\ r.n = current /\ r.pc \in {"finalize", "returned"}
        /\ r.code = j.code
    BY <1>1, <1>3, <1>7, <2>1, <2>2
  <2> QED BY <2>1, <2>2, <2>3, StoreSame, BuildGoes
<1> QED BY <1>8, <1>9, <1>10, <1>11, <1>12, <1>13, <1>14, <1>15, <1>16, <1>17, <1>18,
           <1>19, <1>20, <1>21 DEF B!Step

-----------------------------------------------------------------------------
(* The inductive invariant.  The program works on one missing derivative at *)
(* a time, all of whose dependencies are there; a sealed one is there, so   *)
(* it is never that one.                                                    *)
CalcInv ==
    /\ phase \in Phases
    /\ StoreShape /\ FetchGood /\ BuildGood
    /\ sealed \subseteq There
    /\ phase \in {"plan", "loop", "build"} => QueueGood
    /\ phase = "plan" => WalkGood
    /\ fetching[Main].pc = "idle" \/ building[Main].pc = "idle"
    /\ phase # "build" =>
         /\ current = 0
         /\ fetching[Main].pc = "idle" /\ building[Main].pc = "idle"
    /\ phase = "build" =>
         /\ current \in Node \ sealed
         /\ DepSet(current) \subseteq There \ {current}

(* No file, no job, no plan.                                                *)
LEMMA CalcInit == Init => CalcInv
<1> SUFFICES ASSUME Init PROVE CalcInv
  OBVIOUS
<1>1. StoreShape
  BY DEF Init, F!Init, F!Absent, F!Node, Node, StoreShape, IsObject
<1>2. FetchGood /\ fetching[Main].pc = "idle"
  BY DEF Init, F!Init, F!NoJob, FetchGood, FetchGoodFor, IsFetchJob
<1>3. BuildGood /\ building[Main].pc = "idle"
  BY DEF Init, B!NoJob, BuildGood, BuildGoodFor, IsBuildJob
<1> QED BY <1>1, <1>2, <1>3 DEF Init, CalcInv, Phases, There

(* Steps that leave the files and the jobs alone.                           *)
LEMMA DiskSame ==
    ASSUME CalcInv, UNCHANGED <<store, jobs, current>>
    PROVE  /\ StoreShape' /\ FetchGood' /\ BuildGood' /\ There' = There
           /\ fetching' = fetching /\ building' = building
BY DEF CalcInv, StoreShape, FetchGood, BuildGood, There, jobs

(* The plan stays good when what was being made turns out to be there.      *)
LEMMA QueueKept ==
    ASSUME QueueGood, UNCHANGED queue, NEW T, T = (There \cup {current})',
           There \cup {current} \subseteq T, Queued \cap T = {}
    PROVE  QueueGood'
<1>1. Queued' = Queued
  BY DEF Queued
<1>2. \A q \in 1..Len(queue) : \A i \in 1..Len(Deps[queue[q]]) :
         \/ Deps[queue[q]][i] \in T
         \/ \E p \in 1..(q - 1) : queue[p] = Deps[queue[q]][i]
  BY DEF QueueGood
<1>3. queue \in Seq(Node) /\ \A p, q \in 1..Len(queue) : p < q => queue[p] # queue[q]
  BY DEF QueueGood
<1> QED BY <1>1, <1>2, <1>3 DEF QueueGood

(* A step of get_buildstack().                                              *)
LEMMA PlanStepInv == CalcInv /\ PlanStep => CalcInv'
<1> SUFFICES ASSUME CalcInv, PlanStep PROVE CalcInv'
  OBVIOUS
<1>1. /\ phase = "plan" /\ phase' = "plan" /\ QueueGood /\ WalkGood
      /\ UNCHANGED <<store, jobs, current, sealed>> /\ Plan!Walk
  BY DEF CalcInv, PlanStep, disk, history
<1>2. StoreShape' /\ FetchGood' /\ BuildGood' /\ There' = There
  BY <1>1, DiskSame
<1>3. QueueGood' /\ WalkGood'
  <2>1. CASE WalkGood' /\ UNCHANGED queue
    <3>1. (There \cup {current})' = There \cup {current}
      BY <1>1, <1>2
    <3>2. Queued \cap (There \cup {current}) = {}
      BY <1>1 DEF QueueGood
    <3> QED BY <1>1, <2>1, <3>1, <3>2, QueueKept
  <2> QED BY <1>1, <2>1, RootWalk, DepWalk, PushWalk DEF Plan!Walk
<1> QED BY <1>1, <1>2, <1>3, DiskSame DEF CalcInv

(* The front of the plan is missing and has all its dependencies; of the    *)
(* rest, what depends on it finds it being made.                            *)
LEMMA TakeFront ==
    ASSUME QueueGood, current = 0, queue # <<>>, UNCHANGED store,
           current' = Head(queue), queue' = Tail(queue)
    PROVE  /\ current' \in Node /\ current' \notin There
           /\ DepSet(current') \subseteq There
           /\ QueueGood'
<1> DEFINE c == Head(queue)
<1>1. /\ queue \in Seq(Node) /\ Len(queue) \in Nat \ {0}
      /\ c = queue[1] /\ c \in Node /\ c \in Queued
  BY DEF QueueGood, Queued
<1>2. /\ Tail(queue) \in Seq(Node) /\ Len(Tail(queue)) = Len(queue) - 1
      /\ \A q \in 1..(Len(queue) - 1) : Tail(queue)[q] = queue[q + 1]
  BY <1>1
<1>3. There' = There /\ 0 \notin Node /\ current' = c
  BY SizeAssumption DEF There, Node
<1> HIDE DEF c
<1>4. c \notin There
  BY <1>1 DEF QueueGood
<1>5. DepSet(c) \subseteq There
  <2>1. \A i \in 1..Len(Deps[c]) : Deps[c][i] \in There
    <3>1. 1 \in 1..Len(queue) /\ \A p : ~(p \in 1..(1 - 1))
      BY <1>1
    <3>2. \A i \in 1..Len(Deps[c]) : Deps[c][i] \in Node
      BY <1>1, GraphFacts
    <3> QED BY <1>1, <1>3, <3>1, <3>2 DEF QueueGood
  <2>2. DOMAIN Deps[c] = 1..Len(Deps[c])
    BY <1>1, GraphFacts
  <2> QED BY <2>1, <2>2 DEF DepSet
<1>6. \A p, q \in 1..Len(queue') : p < q => queue'[p] # queue'[q]
  <2>1. \A p \in 1..Len(queue') : p + 1 \in 1..Len(queue) /\ queue'[p] = queue[p + 1]
    BY <1>1, <1>2
  <2>2. \A p, q \in 1..Len(queue') : p < q => p + 1 < q + 1
    BY <1>2
  <2> QED BY <2>1, <2>2 DEF QueueGood
<1>7. Queued' \subseteq Queued /\ c \notin Queued'
  <2>1. \A p \in 1..Len(queue') :
           p + 1 \in 1..Len(queue) /\ 1 < p + 1 /\ queue'[p] = queue[p + 1]
    BY <1>1, <1>2
  <2>2. 1 \in 1..Len(queue)
    BY <1>1
  <2> QED BY <1>1, <2>1, <2>2 DEF QueueGood, Queued
<1>8. ASSUME NEW q \in 1..Len(queue'), NEW i \in 1..Len(Deps[queue'[q]])
      PROVE  \/ Deps[queue'[q]][i] \in There \cup {c}
             \/ \E p \in 1..(q - 1) : queue'[p] = Deps[queue'[q]][i]
  <2>1. q + 1 \in 1..Len(queue) /\ queue'[q] = queue[q + 1]
    BY <1>1, <1>2
  <2>2. Deps[queue'[q]][i] \in Node
    BY <1>1, <2>1, GraphFacts
  <2>3. \/ Deps[queue'[q]][i] \in There
        \/ \E p \in 1..q : queue[p] = Deps[queue'[q]][i]
    BY <1>3, <2>1, <2>2 DEF QueueGood
  <2>4. ASSUME NEW p \in 1..q, p # 1
        PROVE  p - 1 \in 1..(q - 1) /\ queue'[p - 1] = queue[p]
    BY <1>1, <1>2, <2>4
  <2>5. CASE Deps[queue'[q]][i] \in There
    BY <2>5
  <2>6. ASSUME NEW p \in 1..q, queue[p] = Deps[queue'[q]][i]
        PROVE  \/ Deps[queue'[q]][i] = c
               \/ \E k \in 1..(q - 1) : queue'[k] = Deps[queue'[q]][i]
    BY <1>1, <2>4, <2>6
  <2> QED BY <2>3, <2>5, <2>6
<1>9. Queued' \cap (There \cup {current})' = {}
  BY <1>3, <1>7 DEF QueueGood
<1>10. QueueGood'
  <2>1. queue' \in Seq(Node)
    BY <1>2
  <2>2. (There \cup {current})' = There \cup {c}
    BY <1>3
  <2>3. \A q \in 1..Len(queue') : \A i \in 1..Len(Deps[queue'[q]]) :
           \/ Deps[queue'[q]][i] \in (There \cup {current})'
           \/ \E p \in 1..(q - 1) : queue'[p] = Deps[queue'[q]][i]
    <3> SUFFICES ASSUME NEW q \in 1..Len(queue'), NEW i \in 1..Len(Deps[queue'[q]])
                 PROVE  \/ Deps[queue'[q]][i] \in There \cup {c}
                        \/ \E p \in 1..(q - 1) : queue'[p] = Deps[queue'[q]][i]
      BY <2>2, ZenonT(30)
    <3> QED BY <1>8
  <2> QED BY <1>6, <1>9, <2>1, <2>3 DEF QueueGood
<1> QED BY <1>1, <1>3, <1>4, <1>5, <1>10

(* The plan is started on.                                                  *)
LEMMA TakeInv == CalcInv /\ Take => CalcInv'
<1> SUFFICES ASSUME CalcInv, Take PROVE CalcInv'
  OBVIOUS
<1>1. /\ phase' = "build" /\ QueueGood /\ current = 0 /\ queue # <<>>
      /\ current' = Head(queue) /\ queue' = Tail(queue) /\ UNCHANGED sealed
      /\ StoreShape /\ FetchGood /\ BuildGood /\ sealed \subseteq There
      /\ fetching[Main].pc = "idle" /\ building[Main].pc = "idle"
  BY DEF CalcInv, Take, history
<1>2. UNCHANGED store
  BY DEF Take, B!Begin, F!Begin
<1>3. /\ current' \in Node /\ current' \notin There /\ DepSet(current') \subseteq There
      /\ QueueGood'
  BY <1>1, <1>2, TakeFront
<1>4. There' = There /\ StoreShape'
  BY <1>1, <1>2 DEF There, StoreShape
<1>5. FetchGood'
  <2>1. CASE UNCHANGED fetching
    BY <1>1, <2>1 DEF FetchGood, FetchGoodFor
  <2>2. CASE F!Begin(Main, current')
    BY <1>1, <2>2 DEF F!Begin, F!NoJob, FetchGood, FetchGoodFor, IsFetchJob
  <2> QED BY <2>1, <2>2 DEF Take
<1>6. BuildGood'
  <2>1. CASE UNCHANGED building
    BY <1>1, <2>1 DEF BuildGood, BuildGoodFor
  <2>2. CASE B!Begin(Main, current')
    BY <1>1, <2>2 DEF B!Begin, B!NoJob, BuildGood, BuildGoodFor, IsBuildJob
  <2> QED BY <2>1, <2>2 DEF Take
<1>7. (fetching[Main].pc = "idle" \/ building[Main].pc = "idle")'
  BY <1>1 DEF Take
<1>8. sealed' \subseteq There' /\ current' \notin sealed'
      /\ DepSet(current') \subseteq There' \ {current'}
  BY <1>1, <1>3, <1>4
<1> QED BY <1>1, <1>3, <1>4, <1>5, <1>6, <1>7, <1>8 DEF CalcInv, Phases

(* A builder at work.                                                       *)
LEMMA BuilderInv ==
    ASSUME CalcInv, FetchStep \/ BuildStep
    PROVE  CalcInv' /\ OnlyCurrent /\ phase = "build" /\ UNCHANGED <<current, sealed>>
<1>1. /\ phase = "build" /\ UNCHANGED <<phase, current, sealed, queue>>
      /\ StoreShape /\ FetchGood /\ BuildGood /\ QueueGood
      /\ current \in Node /\ current \notin sealed
      /\ sealed \subseteq There /\ DepSet(current) \subseteq There \ {current}
      /\ fetching[Main].pc = "idle" \/ building[Main].pc = "idle"
  BY DEF CalcInv, FetchStep, BuildStep, planner, history
<1>2. /\ OnlyCurrent /\ FetchGood' /\ BuildGood'
      /\ (fetching[Main].pc = "idle" \/ building[Main].pc = "idle")'
  <2>1. CASE FetchStep
    <3>1. OnlyCurrent /\ FetchGood' /\ fetching[Main].pc # "idle" /\ UNCHANGED building
      BY <1>1, <2>1, FetchEffect DEF FetchStep
    <3>2. BuildGood'
      BY <1>1, <3>1 DEF BuildGood, BuildGoodFor
    <3> QED BY <1>1, <3>1, <3>2
  <2>2. CASE BuildStep
    <3>1. OnlyCurrent /\ BuildGood' /\ building[Main].pc # "idle" /\ UNCHANGED fetching
      BY <1>1, <2>2, BuildEffect DEF BuildStep
    <3>2. FetchGood'
      BY <1>1, <3>1 DEF FetchGood, FetchGoodFor
    <3> QED BY <1>1, <3>1, <3>2
  <2> QED BY <2>1, <2>2
<1>3. /\ There' \ {current} = There \ {current}
      /\ There' \cup {current} = There \cup {current} /\ StoreShape'
  BY <1>1, <1>2 DEF There, OnlyCurrent
<1>4. QueueGood'
  BY <1>1, <1>3 DEF QueueGood, Queued
<1>5. sealed' \subseteq There' /\ current' \in Node \ sealed'
      /\ DepSet(current)' \subseteq (There \ {current})'
  BY <1>1, <1>3 DEF DepSet
<1> QED BY <1>1, <1>2, <1>3, <1>4, <1>5 DEF CalcInv

(* Both jobs are over when build_derivative() returns or is killed.         *)
LEMMA JobsOver ==
    ASSUME NoJobs
    PROVE  /\ FetchGood' /\ BuildGood'
           /\ (fetching[Main].pc = "idle" /\ building[Main].pc = "idle")'
BY DEF NoJobs, F!NoJob, B!NoJob, FetchGood, FetchGoodFor, BuildGood, BuildGoodFor,
       IsFetchJob, IsBuildJob

(* A builder that reports success has left an object.                       *)
LEMMA SucceededIsThere ==
    ASSUME CalcInv, phase = "build", Succeeded
    PROVE  current \in There
BY DEF CalcInv, Succeeded, FetchGood, FetchGoodFor, BuildGood, BuildGoodFor, There

LEMMA ReturnedInv == CalcInv /\ Returned => CalcInv'
<1> SUFFICES ASSUME CalcInv, Returned PROVE CalcInv'
  OBVIOUS
<1>1. /\ phase = "build" /\ UNCHANGED <<store, queue>> /\ current' = 0 /\ NoJobs
      /\ \/ Succeeded /\ sealed' = sealed \cup {current} /\ phase' = "loop"
         \/ sealed' = sealed /\ phase' = "idle"
  BY DEF Returned, disk, planner
<1>2. FetchGood' /\ BuildGood' /\ (fetching[Main].pc = "idle" /\ building[Main].pc = "idle")'
  BY <1>1, JobsOver
<1>3. There' = There /\ StoreShape' /\ sealed \subseteq There
  BY <1>1 DEF CalcInv, There, StoreShape
<1>4. CASE Succeeded /\ sealed' = sealed \cup {current} /\ phase' = "loop"
  <2>1. current \in There
    BY <1>1, <1>4, SucceededIsThere
  <2>2. QueueGood'
    <3>1. QueueGood /\ Queued' = Queued
      BY <1>1 DEF CalcInv, Queued
    <3>2. Queued \cap (There \cup {current})' = {}
      <4>1. Queued \subseteq Node /\ 0 \notin Node
        BY <3>1, SizeAssumption DEF QueueGood, Queued, Node
      <4> QED BY <1>1, <1>3, <3>1, <4>1 DEF QueueGood
    <3>3. There \cup {current} \subseteq (There \cup {current})'
      BY <1>3, <2>1
    <3>4. queue' = queue
      BY <1>1
    <3> QED BY <3>1, <3>2, <3>3, <3>4, QueueKept
  <2> QED BY <1>1, <1>2, <1>3, <1>4, <2>1, <2>2 DEF CalcInv, Phases
<1>5. CASE sealed' = sealed /\ phase' = "idle"
  BY <1>1, <1>2, <1>3, <1>5 DEF CalcInv, Phases
<1> QED BY <1>1, <1>4, <1>5

LEMMA CrashInv == CalcInv /\ Crash => CalcInv'
<1> SUFFICES ASSUME CalcInv, Crash PROVE CalcInv'
  OBVIOUS
<1>1. /\ UNCHANGED <<store, sealed>> /\ current' = 0 /\ NoJobs /\ phase' = "idle"
  BY DEF Crash, disk
<1>2. FetchGood' /\ BuildGood' /\ (fetching[Main].pc = "idle" /\ building[Main].pc = "idle")'
  BY <1>1, JobsOver
<1>3. There' = There /\ StoreShape' /\ sealed \subseteq There
  BY <1>1 DEF CalcInv, There, StoreShape
<1> QED BY <1>1, <1>2, <1>3 DEF CalcInv, Phases

(* The steps of main() between plan and builds, and the user's.             *)
LEMMA MainInv ==
    ASSUME CalcInv, Start \/ Planned \/ Finish
    PROVE  CalcInv' /\ phase # "build" /\ UNCHANGED <<store, current, sealed>>
<1>1. /\ phase # "build" /\ UNCHANGED <<store, jobs, current, sealed>>
  BY DEF Start, Planned, Finish, disk, history
<1>2. /\ StoreShape' /\ FetchGood' /\ BuildGood' /\ There' = There
      /\ fetching' = fetching /\ building' = building
  BY <1>1, DiskSame
<1>3. CASE Start
  <2>1. /\ phase' = "plan" /\ w' = 1 /\ visited' = {} /\ stack' = <<>> /\ queue' = <<>>
        /\ current' = 0
    BY <1>1, <1>3 DEF Start, CalcInv
  <2>2. QueueGood' /\ WalkGood'
    BY <2>1 DEF QueueGood, WalkGood, VisitedSplit, Descends, FramesSettled, Resolving, Queued
  <2> QED BY <1>1, <1>2, <2>1, <2>2 DEF CalcInv, Phases
<1>4. CASE Planned
  <2>1. QueueGood' /\ phase' = "loop"
    <3>1. QueueGood /\ phase' = "loop" /\ UNCHANGED <<queue, current>>
      BY <1>1, <1>4 DEF Planned, planner, CalcInv
    <3>2. (There \cup {current})' = There \cup {current}
      BY <1>2, <3>1
    <3>3. Queued \cap (There \cup {current}) = {}
      BY <3>1 DEF QueueGood
    <3> QED BY <3>1, <3>2, <3>3, QueueKept
  <2> QED BY <1>1, <1>2, <2>1 DEF CalcInv, Phases
<1>5. CASE Finish
  BY <1>1, <1>2, <1>5 DEF Finish, CalcInv, Phases
<1> QED BY <1>1, <1>3, <1>4, <1>5

-----------------------------------------------------------------------------
(* The refinement.                                                          *)

Life == [n \in Node |-> StatusOf(n)]

(* The life of a derivative in terms of what the invariant speaks of.       *)
LEMMA LifeIs ==
    ASSUME NEW n \in Node
    PROVE  /\ n \notin There => Life[n] = "absent"
           /\ n \in There /\ n \in sealed => Life[n] = "sealed"
           /\ n \in There /\ n \notin sealed /\ n = current => Life[n] = "open"
           /\ n \in There /\ n \notin sealed /\ n # current => Life[n] = "residue"
BY DEF Life, StatusOf, There, F!Exists

LEMMA LifeIsNext ==
    ASSUME NEW n \in Node
    PROVE  /\ n \notin There' => Life'[n] = "absent"
           /\ n \in There' /\ n \in sealed' => Life'[n] = "sealed"
           /\ n \in There' /\ n \notin sealed' /\ n = current' => Life'[n] = "open"
           /\ n \in There' /\ n \notin sealed' /\ n # current' => Life'[n] = "residue"
BY DEF Life, StatusOf, There, F!Exists

LEMMA NoChange ==
    ASSUME \A m \in Node : Life'[m] = Life[m]
    PROVE  Life' = Life
BY DEF Life

(* One derivative changes, or none.                                         *)
LEMMA ChangeIs ==
    ASSUME NEW c \in Node, \A m \in Node : m # c => Life'[m] = Life[m]
    PROVE  /\ Abstract!Change(c, Life[c], Life'[c])
           /\ Life'[c] = Life[c] => Life' = Life
<1>1. Life' = [Life EXCEPT ![c] = Life'[c]]
  BY DEF Life
<1>2. ASSUME Life'[c] = Life[c] PROVE Life' = Life
  <2>1. \A m \in Node : Life'[m] = Life[m]
    BY <1>2
  <2> QED BY <2>1, NoChange
<1> QED BY <1>1, <1>2 DEF Abstract!Change, Life

LEMMA LifeInit == Init => Abstract!Init
<1> SUFFICES ASSUME Init PROVE Abstract!Init
  OBVIOUS
<1>1. There = {}
  BY DEF Init, F!Init, F!Absent, F!Node, Node, There
<1>2. \A n \in Node : Life[n] = "absent"
  BY <1>1, LifeIs
<1> QED BY <1>2 DEF Abstract!Init, Life

(* A builder's step starts the object, takes it back, or fills it.          *)
LEMMA BuilderLife ==
    ASSUME CalcInv, FetchStep \/ BuildStep
    PROVE  Abstract!Next \/ Life' = Life
<1>1. /\ CalcInv' /\ OnlyCurrent /\ phase = "build" /\ current' = current /\ sealed' = sealed
  BY BuilderInv
<1>2. /\ current \in Node /\ current \notin sealed
      /\ DepSet(current) \subseteq There \ {current} /\ There \subseteq Node
  BY <1>1 DEF CalcInv, There
<1>3. \A m \in Node : m # current => (m \in There' <=> m \in There)
  BY <1>1 DEF OnlyCurrent, There
<1>4. \A m \in Node : m # current => Life'[m] = Life[m]
  BY <1>1, <1>3, LifeIs, LifeIsNext
<1>5. CASE current \in There' <=> current \in There
  <2>1. Life'[current] = Life[current]
    BY <1>1, <1>2, <1>5, LifeIs, LifeIsNext
  <2> QED BY <1>2, <1>4, <2>1, ChangeIs
<1>6. CASE current \notin There /\ current \in There'
  <2>1. Life[current] = "absent" /\ Life'[current] = "open"
    BY <1>1, <1>2, <1>6, LifeIs, LifeIsNext
  <2>2. \A m \in Node : Life[m] # "open"
    BY <1>2, <2>1, LifeIs
  <2>3. \A d \in DepSet(current) : d \in Node /\ Life[d] \in {"sealed", "residue"}
    BY <1>2, LifeIs
  <2>4. Abstract!Change(current, "absent", "open")
    BY <1>2, <1>4, <2>1, ChangeIs
  <2>5. Abstract!Start(current)
    BY <1>2, <2>2, <2>3, <2>4 DEF Abstract!Start, Life
  <2> QED BY <1>2, <2>5 DEF Abstract!Next
<1>7. CASE current \in There /\ current \notin There'
  <2>1. Life[current] = "open" /\ Life'[current] = "absent"
    BY <1>1, <1>2, <1>7, LifeIs, LifeIsNext
  <2>2. Abstract!TakeBack(current)
    BY <1>2, <1>4, <2>1, ChangeIs DEF Abstract!TakeBack
  <2> QED BY <1>2, <2>2 DEF Abstract!Next
<1> QED BY <1>5, <1>6, <1>7

(* When build_derivative() is over, what is there is sealed or given up.    *)
LEMMA OverLife ==
    ASSUME CalcInv, UNCHANGED store, current' = 0,
           \/ UNCHANGED sealed
           \/ phase = "build" /\ Succeeded /\ sealed' = sealed \cup {current}
    PROVE  Abstract!Next \/ Life' = Life
<1>1. There' = There /\ There \subseteq Node /\ current' \notin Node
  BY SizeAssumption DEF There, Node
<1>2. \A m \in Node : m # current => Life'[m] = Life[m]
  BY <1>1, LifeIs, LifeIsNext
<1>3. CASE current \notin Node
  <2>1. sealed' = sealed /\ \A m \in Node : Life'[m] = Life[m]
    BY <1>2, <1>3 DEF CalcInv
  <2> QED BY <2>1, NoChange
<1>4. CASE current \in Node \ There
  <2>1. ~(phase = "build" /\ Succeeded)
    BY <1>4, SucceededIsThere
  <2>2. Life'[current] = Life[current]
    BY <1>1, <1>4, LifeIs, LifeIsNext
  <2> QED BY <1>2, <1>4, <2>2, ChangeIs
<1>5. CASE current \in There
  <2>1. phase = "build" /\ current \in Node /\ current \notin sealed
    BY <1>1, <1>5, SizeAssumption DEF CalcInv, Node
  <2>2. Life[current] = "open" /\ Life'[current] \in {"sealed", "residue"}
    BY <1>1, <1>5, <2>1, LifeIs, LifeIsNext
  <2>3. Abstract!Seal(current) \/ Abstract!GiveUp(current)
    BY <1>2, <2>1, <2>2, ChangeIs DEF Abstract!Seal, Abstract!GiveUp
  <2> QED BY <2>1, <2>3 DEF Abstract!Next
<1> QED BY <1>3, <1>4, <1>5

(* Every step preserves the invariant, changes the life of at most one      *)
(* derivative as StoreSpec allows, and leaves sealed objects alone.         *)
LEMMA CalcStep ==
    ASSUME CalcInv, [Next]_vars
    PROVE  /\ CalcInv'
           /\ Abstract!Next \/ Life' = Life
           /\ \A n \in sealed : store'[n] = store[n]
<1>1. CASE FetchStep \/ BuildStep
  <2>1. CalcInv' /\ OnlyCurrent /\ phase = "build"
    BY <1>1, BuilderInv
  <2>2. \A n \in sealed : n \in Node /\ n # current
    BY <2>1 DEF CalcInv, There
  <2> QED BY <1>1, <2>1, <2>2, BuilderLife DEF OnlyCurrent
<1>2. CASE Returned
  <2>1. UNCHANGED store /\ current' = 0
        /\ \/ UNCHANGED sealed
           \/ phase = "build" /\ Succeeded /\ sealed' = sealed \cup {current}
    BY <1>2 DEF Returned, disk
  <2> QED BY <1>2, <2>1, ReturnedInv, OverLife
<1>3. CASE Crash
  <2>1. UNCHANGED <<store, sealed>> /\ current' = 0
    BY <1>3 DEF Crash, disk
  <2> QED BY <1>3, <2>1, CrashInv, OverLife
<1>4. CASE Start \/ Planned \/ Finish
  <2>1. CalcInv' /\ UNCHANGED <<store, sealed>> /\ current' = 0
    BY <1>4, MainInv DEF CalcInv
  <2> QED BY <2>1, OverLife
<1>5. CASE PlanStep
  <2>1. UNCHANGED <<store, sealed>> /\ current' = 0
    BY <1>5 DEF PlanStep, disk, history, CalcInv
  <2> QED BY <1>5, <2>1, PlanStepInv, OverLife
<1>6. CASE Take
  <2>1. /\ UNCHANGED <<store, sealed>> /\ current = 0 /\ QueueGood
        /\ queue # <<>> /\ current' = Head(queue) /\ queue' = Tail(queue)
    BY <1>6 DEF Take, B!Begin, F!Begin, history, CalcInv
  <2>2. current' \notin There /\ There' = There /\ 0 \notin Node
    BY <2>1, TakeFront, SizeAssumption DEF There, Node
  <2>3. \A m \in Node : Life'[m] = Life[m]
    BY <2>1, <2>2, LifeIs, LifeIsNext
  <2>4. Life' = Life
    BY <2>3, NoChange
  <2> QED BY <1>6, <2>1, <2>4, TakeInv
<1>7. CASE UNCHANGED vars
  <2>1. /\ UNCHANGED <<store, fetching, building, queue, stack, w, visited, phase, current, sealed>>
    BY <1>7 DEF vars, disk, planner, jobs, history
  <2>2. There' = There /\ Queued' = Queued /\ Resolving' = Resolving
    BY <2>1 DEF There, Queued, Resolving
  <2>3. StoreShape' /\ FetchGood' /\ BuildGood'
    BY <2>1 DEF CalcInv, StoreShape, FetchGood, BuildGood
  <2>4. QueueGood => QueueGood'
    BY <2>1, <2>2 DEF QueueGood
  <2>5. WalkGood => WalkGood'
    BY <2>1, <2>2 DEF WalkGood, VisitedSplit, Descends, FramesSettled
  <2>6. CalcInv'
    BY <2>1, <2>2, <2>3, <2>4, <2>5 DEF CalcInv
  <2>7. \A m \in Node : Life'[m] = Life[m]
    BY <2>1, <2>2, LifeIs, LifeIsNext
  <2> QED BY <2>1, <2>6, <2>7, NoChange
<1> QED BY <1>1, <1>2, <1>3, <1>4, <1>5, <1>6, <1>7 DEF Next, Work, UserDone

(* What the theorems below rest on: whatever fails or is killed, the        *)
(* program only ever works on a missing derivative whose dependencies have  *)
(* objects.                                                                 *)
THEOREM CalculusInvariant == Spec => []CalcInv
<1>1. CalcInv /\ [Next]_vars => CalcInv'
  BY CalcStep
<1> QED BY <1>1, CalcInit, PTL DEF Spec

(* The program implements StoreSpec: objects are started in dependency      *)
(* order, one at a time, and left alone for ever once sealed or given up,   *)
(* over any number of invocations, failing calls and kills.                 *)
THEOREM ImplementsStoreSpec == Spec => StoreLifecycle
<1>1. CalcInv /\ [Next]_vars => [Abstract!Next]_Life
  BY CalcStep
<1>2. Init => Abstract!Init
  BY LifeInit
<1> QED BY <1>1, <1>2, CalculusInvariant, PTL DEF Spec, StoreLifecycle, Abstract!Spec, Life

(* A jail is only started when every dependency it will mount has an object *)
(* in the store (the order in which main() builds the plan).                *)
THEOREM JailsHaveDeps == Spec => []DepsPresent
<1>1. CalcInv => DepsPresent
  <2>1. building[Main].pc \in B!JailPcs => building[Main].pc # "idle"
    BY DEF B!JailPcs
  <2> QED BY <2>1 DEF CalcInv, DepsPresent, There, F!Exists
<1> QED BY <1>1, CalculusInvariant, PTL

(* No later step of this or another invocation changes an object for which  *)
(* build_derivative() returned 0.                                           *)
THEOREM SealedStays == Spec => SealedImmutable
<1>1. CalcInv /\ [Next]_vars => [\A n \in sealed : store'[n] = store[n]]_vars
  BY CalcStep
<1> QED BY <1>1, CalculusInvariant, PTL DEF Spec, SealedImmutable
-----------------------------------------------------------------------------
(* Without failing calls and kills nothing goes wrong, which is to say that  *)
(* each step finds the files as the steps before have left them.            *)
Clean == faults = 0 /\ crashes = 0

(* What there is of c when block k is next.                                 *)
Upto(c, k) == {c} \X (1..(k - 1))

(* How far fetch() has come with c: out is the file it downloads to, object *)
(* what is at the store path.                                               *)
FetchOnCourse(c, j, out, object) ==
    j.pc # "idle" =>
        /\ j.last = "ok"
        /\ j.pc = "open" => object.kind = "none" /\ j.k = 1
        /\ c \in Archive /\ j.pc \in {"transfer", "status", "verify", "mkdir"} =>
              object.kind = "none"
        /\ j.pc = "seal" => c \notin Archive
        /\ j.pc \in {"transfer", "status", "verify", "seal", "mkdir", "unpack", "extract"} =>
              out.kind = "file"
        /\ j.pc \in {"transfer", "extract"} => j.fd = "path" /\ j.k \in 1..(K + 1)
        /\ j.pc = "transfer" => out.has = Upto(c, j.k)
        /\ j.pc \in {"status", "verify", "seal", "mkdir", "unpack", "extract"} =>
              out.has = F!Whole(c)
        /\ j.pc = "unpack" => object.has = {}
        /\ j.pc = "extract" => object.has = Upto(c, j.k)
        /\ j.pc \in {"extracted", "returned"} => object.has = F!Whole(c)
        /\ j.pc = "returned" => j.result = "ok"

(* How far build_standard() has come with c: dir is its build directory.    *)
BuildOnCourse(c, j, dir, object) ==
    j.pc # "idle" =>
        /\ j.last = "ok" /\ j.root = "path" /\ j.log = "read" /\ j.pc \notin {"exited", "stuck"}
        /\ j.pc \in {"clear", "ensure", "fork", "log", "jail", "setup", "inside", "running",
                     "wait", "publish", "openout"} => object.kind = "none"
        /\ j.pc \in {"ensure", "fork", "log", "jail", "setup", "inside"} => dir.out.kind = "none"
        /\ j.pc \in {"ensure", "fork", "log", "jail"} => dir.parts = {}
        /\ j.pc \in {"fork", "log", "jail", "setup", "inside"} => dir.there
        /\ j.pc = "setup" => j.k \in 1..(Parts + 1) /\ dir.parts = 1..(j.k - 1)
        /\ j.pc = "inside" => dir.parts = 1..Parts
        /\ j.pc = "running" => j.k \in 1..(K + 1) /\ dir.out.has = Upto(c, j.k)
        /\ j.pc \in {"running", "wait"} => dir.out.kind \in {"file", "dir"}
        /\ j.pc \in {"publish", "copydir"} => dir.out.kind = "dir"
        /\ j.pc = "openout" => dir.out.kind = "file"
        /\ j.pc \in {"wait", "publish", "openout", "copydir"} => dir.out.has = F!Whole(c)
        /\ j.pc \in {"wait", "publish", "openout", "copydir", "copied", "copyfile", "close",
                     "chmod", "finalize", "returned"} => j.code = "ok"
        /\ j.pc \in {"copydir", "copyfile"} => j.k \in 1..(K + 1) /\ object.has = Upto(c, j.k)
        /\ j.pc = "copyfile" => j.data = F!Whole(c)
        /\ j.pc \in {"copied", "close", "chmod", "finalize", "returned"} =>
              object.has = F!Whole(c)

(* The files besides the store; the archive of an earlier run may be left.  *)
TmpGood == IsObject(tmp) /\ tmp.kind # "dir"

IsDir(d) == DOMAIN d = {"there", "parts", "out"} /\ IsObject(d.out)

DirShape == DOMAIN bdir = Node /\ \A n \in Node : IsDir(bdir[n])

FetchClean == FetchOnCourse(current, fetching[Main], F!Out(current), store[current])

BuildClean == BuildOnCourse(current, building[Main], bdir[current], store[current])

OthersIntact == \A n \in There \ {current} : Intact(n)

AllProvided == \A i \in 1..Len(Wanted) : Wanted[i] \in There

(* No request is forgotten between script and store.                        *)
RequestsKept ==
    /\ phase = "plan" => \A i \in 1..Len(Wanted) : i < w => Wanted[i] \in visited
    /\ phase \in {"loop", "build"} =>
          \A i \in 1..Len(Wanted) : Wanted[i] \in There \cup Queued \cup {current}

(* The inductive invariant, with CalcInv.                                   *)
CleanInv ==
    /\ faults \in Nat /\ crashes \in Nat
    /\ RequestsKept
    /\ Clean =>
         /\ TmpGood /\ FetchClean
         /\ DirShape /\ BuildClean
         /\ OthersIntact
         /\ phase = "idle" /\ runs > 0 => AllProvided

-----------------------------------------------------------------------------
(* Both builders make an object block by block, in order.                   *)
LEMMA InOrder ==
    ASSUME NEW c \in Node
    PROVE  /\ Upto(c, 1) = {} /\ Upto(c, K + 1) = F!Whole(c)
           /\ \A k \in 1..(K + 1) :
                 /\ k = K + 1 => F!BlocksAt(F!Whole(c), k) = {}
                 /\ k # K + 1 => /\ F!BlocksAt(F!Whole(c), k) = {<<c, k>>}
                                 /\ k + 1 \in 1..(K + 1)
                                 /\ Upto(c, k) \cup {<<c, k>>} = Upto(c, k + 1)
                                 /\ {b \in Upto(c, k) : b[2] # k} = Upto(c, k)
<1>1. K \in Nat /\ K >= 1
  BY SizeAssumption
<1>2. Upto(c, 1) = {} /\ Upto(c, K + 1) = F!Whole(c)
  BY <1>1 DEF Upto, F!Whole
<1>3. ASSUME NEW k \in 1..(K + 1), k = K + 1
      PROVE  F!BlocksAt(F!Whole(c), k) = {}
  BY <1>1, <1>3 DEF F!BlocksAt, F!Whole
<1>4. ASSUME NEW k \in 1..(K + 1), k # K + 1
      PROVE  /\ F!BlocksAt(F!Whole(c), k) = {<<c, k>>}
             /\ k + 1 \in 1..(K + 1)
             /\ Upto(c, k) \cup {<<c, k>>} = Upto(c, k + 1)
             /\ {b \in Upto(c, k) : b[2] # k} = Upto(c, k)
  <2>1. k \in 1..K /\ k + 1 \in 1..(K + 1)
    BY <1>1, <1>4
  <2>2. 1..((k + 1) - 1) = 1..(k - 1) \cup {k} /\ k \notin 1..(k - 1)
    BY <2>1
  <2>3. Upto(c, k) \cup {<<c, k>>} = Upto(c, k + 1)
    BY <2>2 DEF Upto
  <2>4. {b \in Upto(c, k) : b[2] # k} = Upto(c, k)
    BY <2>2 DEF Upto
  <2>5. F!BlocksAt(F!Whole(c), k) = {<<c, k>>}
    BY <2>1 DEF F!BlocksAt, F!Whole
  <2> QED BY <2>1, <2>3, <2>4, <2>5
<1> QED BY <1>2, <1>3, <1>4

LEMMA SameBlocks ==
    /\ \A n : B!Whole(n) = F!Whole(n)
    /\ \A S, k : B!BlocksAt(S, k) = F!BlocksAt(S, k)
BY DEF B!Whole, F!Whole, B!BlocksAt, F!BlocksAt

LEMMA NoneFails ==
    ASSUME faults = 0, faults' = 0
    PROVE  ~F!Fault /\ ~B!Fault
BY DEF F!Fault, B!Fault

(* Failures are only counted.                                               *)
LEMMA FaultsCount ==
    ASSUME faults \in Nat, NEW sound, F!Step(Main) \/ B!Step(Main, sound)
    PROVE  faults' \in Nat /\ faults' >= faults
<1>1. ASSUME F!Fault \/ F!NoFault \/ B!Fault \/ B!NoFault \/ UNCHANGED faults
      PROVE  faults' \in Nat /\ faults' >= faults
  BY <1>1 DEF F!Fault, F!NoFault, B!Fault, B!NoFault
<1>2. F!Step(Main) => F!Fault \/ F!NoFault
  <2>1. F!Open(Main) \/ F!Transfer(Main) \/ F!Status(Main) \/ F!Verify(Main)
          => F!Fault \/ F!NoFault
    BY DEF F!Open, F!Transfer, F!Status, F!Verify
  <2>2. F!Seal(Main) \/ F!MakeDir(Main) \/ F!Unpack(Main) \/ F!Extract(Main)
          \/ F!Extracted(Main) => F!Fault \/ F!NoFault
    BY DEF F!Seal, F!MakeDir, F!Unpack, F!Extract, F!Extracted
  <2> QED BY <2>1, <2>2 DEF F!Step
<1>3. B!Step(Main, sound) => B!Fault \/ B!NoFault \/ UNCHANGED faults
  <2>1. B!Clear(Main) \/ B!Ensure(Main) \/ B!Fork(Main) \/ B!OpenLog(Main)
          => B!Fault \/ B!NoFault
    BY DEF B!Clear, B!RemoveDir, B!Ensure, B!Fork, B!OpenLog
  <2>2. B!JailBind(Main) \/ B!JailMkdir(Main) \/ B!JailPivot(Main) \/ B!JailInside(Main)
          => B!Fault \/ B!NoFault
    BY DEF B!JailBind, B!JailMkdir, B!JailPivot, B!JailInside, B!Hit
  <2>4. B!Script(Main, sound) \/ B!LogBreaks(Main) \/ B!JailBlocks(Main)
          \/ B!JailEnd(Main, sound) => B!Fault \/ B!NoFault \/ UNCHANGED faults
    BY DEF B!Script, B!LogBreaks, B!JailBlocks, B!JailEnd, B!Hit
  <2>5. B!Wait(Main) \/ B!Publish(Main) \/ B!CopyDir(Main) => B!Fault \/ B!NoFault
    BY DEF B!Wait, B!Publish, B!CopyDir, B!Hit
  <2>3. B!Copied(Main) \/ B!OpenOut(Main) \/ B!CopyFile(Main) \/ B!Close(Main)
          \/ B!Chmod(Main) \/ B!Finalize(Main) => B!Fault \/ B!NoFault
    BY DEF B!Copied, B!OpenOut, B!CopyFile, B!Close, B!Chmod, B!Finalize, B!RemoveDir
  <2> QED BY <2>1, <2>2, <2>3, <2>4, <2>5 DEF B!Step
<1> QED BY <1>1, <1>2, <1>3

-----------------------------------------------------------------------------
(* What a write to the output file leaves.                                  *)
LEMMA OutIs ==
    ASSUME StoreShape, current \in Node, UNCHANGED current, NEW x, F!SetOut(current, x)
    PROVE  /\ F!Out(current)' = x
           /\ current \in Archive => tmp' = x /\ store'[current] = store[current]
           /\ current \notin Archive => tmp' = tmp /\ store'[current] = x
BY DEF F!SetOut, F!Out, StoreShape

LEMMA OutSame ==
    ASSUME UNCHANGED <<store, tmp, current>>
    PROVE  F!Out(current)' = F!Out(current) /\ store'[current] = store[current]
BY DEF F!Out

(* fetch() up to the verified download.                                     *)
LEMMA DownloadClean ==
    ASSUME FetchGood, StoreShape, current \in Node, UNCHANGED current,
           faults = 0, faults' = 0, TmpGood, FetchClean,
           F!Open(Main) \/ F!Transfer(Main) \/ F!Status(Main) \/ F!Verify(Main)
    PROVE  TmpGood' /\ FetchClean'
<1> DEFINE j == fetching[Main]
           c == current
<1>0. /\ ~F!Fault /\ DOMAIN fetching = {Main} /\ IsFetchJob(j) /\ j.pc # "idle"
      /\ FetchOnCourse(c, j, F!Out(c), store[c])
      /\ j.n = c
  <2>1. FetchGoodFor(c, j, store[c]) /\ DOMAIN fetching = {Main}
    BY DEF FetchGood
  <2>2. j.pc # "idle"
    BY DEF F!Open, F!Transfer, F!Status, F!Verify
  <2> QED BY <2>1, <2>2, NoneFails DEF FetchGoodFor, FetchClean
<1>1. CASE F!Open(Main)
  <2> DEFINE r == [j EXCEPT !.pc = "transfer", !.fd = "path"]
  <2>1. F!Out(c).kind # "dir" /\ (c \in Archive => store[c].kind = "none")
        /\ j.k = 1 /\ j.last = "ok"
    BY <1>0, <1>1 DEF F!Open, F!Out, FetchOnCourse, TmpGood
  <2>2. F!SetOut(c, F!EmptyFile) /\ fetching'[Main] = r
    BY <1>0, <1>1, <2>1 DEF F!Open
  <2>3. r.pc = "transfer" /\ r.fd = "path" /\ r.k = 1 /\ r.last = "ok"
    BY <1>0, <2>1 DEF IsFetchJob
  <2> HIDE DEF r
  <2>4. /\ F!Out(c)' = F!EmptyFile /\ (c \in Archive => store'[c].kind = "none")
        /\ tmp' = tmp \/ tmp' = F!EmptyFile
    BY <2>1, <2>2, OutIs
  <2>5. /\ IsObject(F!EmptyFile) /\ F!EmptyFile.kind = "file"
        /\ F!EmptyFile.has = Upto(c, 1) /\ 1 \in 1..(K + 1)
    BY InOrder, SizeAssumption DEF F!EmptyFile, IsObject
  <2>6. FetchOnCourse(c, r, F!EmptyFile, store'[c])
    BY <2>3, <2>4, <2>5 DEF FetchOnCourse
  <2> QED BY <2>2, <2>4, <2>5, <2>6 DEF TmpGood, FetchClean
<1>2. CASE F!Transfer(Main)
  <2> DEFINE k == j.k
  <2>1. /\ j.last = "ok" /\ j.fd = "path" /\ k \in 1..(K + 1) /\ j.pc = "transfer"
        /\ F!Out(c).kind = "file" /\ F!Out(c).has = Upto(c, k)
        /\ c \in Archive => store[c].kind = "none"
    BY <1>0, <1>2 DEF F!Transfer, FetchOnCourse
  <2>2. CASE k # K + 1
    <3> DEFINE r == [j EXCEPT !.k = k + 1]
               x == F!Write(F!Out(c), <<c, k>>)
    <3>1. F!SetOut(c, x) /\ fetching'[Main] = r
      <4>1. /\ k <= K
            /\ \E b \in {<<c, k>>, <<0, k>>} :
                  /\ IF b[1] = 0 THEN F!Fault ELSE F!NoFault
                  /\ fetching' = [fetching EXCEPT ![Main].k = k + 1]
                  /\ F!SetOut(c, F!Write(F!Out(c), b))
        BY <1>0, <1>2, <2>1, <2>2 DEF F!Transfer
      <4>2. F!SetOut(c, F!Write(F!Out(c), <<c, k>>))
        BY <1>0, <4>1
      <4> QED BY <1>0, <4>1, <4>2
    <3>2. r.pc = "transfer" /\ r.fd = "path" /\ r.k = k + 1 /\ r.last = "ok"
      BY <1>0, <2>1 DEF IsFetchJob
    <3>3. IsObject(F!Out(c))
      BY DEF F!Out, TmpGood, StoreShape
    <3>4. /\ x.kind = "file" /\ IsObject(x)
          /\ x.has = {b \in Upto(c, k) : b[2] # k} \cup {<<c, k>>}
      BY <2>1, <3>3 DEF F!Write, IsObject
    <3>5. x.has = Upto(c, k + 1) /\ k + 1 \in 1..(K + 1)
      BY <2>1, <2>2, <3>4, InOrder
    <3> HIDE DEF r, x
    <3>6. /\ F!Out(c)' = x /\ (c \in Archive => store'[c].kind = "none")
          /\ tmp' = tmp \/ tmp' = x
      BY <2>1, <3>1, OutIs
    <3>7. FetchOnCourse(c, r, x, store'[c])
      BY <3>2, <3>4, <3>5, <3>6 DEF FetchOnCourse
    <3> QED BY <3>1, <3>4, <3>6, <3>7 DEF TmpGood, FetchClean
  <2>3. CASE k = K + 1
    <3> DEFINE r == [j EXCEPT !.pc = "status"]
    <3>1. UNCHANGED <<store, tmp>> /\ fetching'[Main] = r
      BY <1>0, <1>2, <2>1, <2>3, SizeAssumption DEF F!Transfer
    <3>2. r.pc = "status" /\ r.last = "ok" /\ F!Out(c).has = F!Whole(c)
      BY <1>0, <2>1, <2>3, InOrder DEF IsFetchJob
    <3> HIDE DEF r
    <3>3. FetchOnCourse(c, r, F!Out(c), store[c])
      BY <2>1, <3>2 DEF FetchOnCourse
    <3> QED BY <3>1, <3>3, OutSame DEF TmpGood, FetchClean
  <2> QED BY <2>2, <2>3
<1>3. CASE F!Status(Main)
  <2> DEFINE r == [j EXCEPT !.pc = "verify", !.fd = "closed", !.data = {}, !.k = 1]
  <2>1. UNCHANGED <<store, tmp>> /\ fetching'[Main] = r /\ j.pc = "status"
    BY <1>0, <1>3 DEF F!Status
  <2>2. r.pc = "verify" /\ r.last = j.last
    BY <1>0 DEF IsFetchJob
  <2> HIDE DEF r
  <2>3. FetchOnCourse(c, r, F!Out(c), store[c])
    BY <1>0, <2>1, <2>2 DEF FetchOnCourse
  <2> QED BY <2>1, <2>3, OutSame DEF TmpGood, FetchClean
<1>4. CASE F!Verify(Main)
  <2> DEFINE r == [j EXCEPT !.pc = IF c \in Archive THEN "mkdir" ELSE "seal"]
  <2>1. F!Exists(F!Out(c)) /\ F!Out(c).has = F!Whole(c) /\ j.pc = "verify"
    BY <1>0, <1>4 DEF F!Verify, FetchOnCourse, F!Exists
  <2>2. UNCHANGED <<store, tmp>> /\ fetching'[Main] = r
    BY <1>0, <1>4, <2>1 DEF F!Verify
  <2>3. r.pc = (IF c \in Archive THEN "mkdir" ELSE "seal") /\ r.last = j.last
    BY <1>0 DEF IsFetchJob
  <2> HIDE DEF r
  <2>4. FetchOnCourse(c, r, F!Out(c), store[c])
    BY <1>0, <2>1, <2>3 DEF FetchOnCourse
  <2> QED BY <2>2, <2>4, OutSame DEF TmpGood, FetchClean
<1> QED BY <1>1, <1>2, <1>3, <1>4

(* ... and to the end: the file is sealed, or the archive extracted.        *)
LEMMA UnpackClean ==
    ASSUME FetchGood, StoreShape, current \in Node, UNCHANGED current,
           faults = 0, faults' = 0, TmpGood, FetchClean,
           \/ F!Seal(Main) \/ F!MakeDir(Main) \/ F!Unpack(Main) \/ F!Extract(Main)
           \/ F!Extracted(Main)
    PROVE  TmpGood' /\ FetchClean'
<1> DEFINE j == fetching[Main]
           c == current
<1>0. /\ ~F!Fault /\ DOMAIN fetching = {Main} /\ IsFetchJob(j) /\ j.pc # "idle"
      /\ FetchOnCourse(c, j, F!Out(c), store[c])
      /\ j.n = c /\ FetchGoodFor(c, j, store[c]) /\ j.last = "ok"
  <2>1. FetchGoodFor(c, j, store[c]) /\ DOMAIN fetching = {Main}
    BY DEF FetchGood
  <2>2. j.pc # "idle"
    BY DEF F!Seal, F!MakeDir, F!Unpack, F!Extract, F!Extracted
  <2> QED BY <2>1, <2>2, NoneFails DEF FetchGoodFor, FetchClean, FetchOnCourse
<1>1. CASE F!Seal(Main)
  <2> DEFINE r == F!Returning(j, "ok")
  <2>1. c \notin Archive /\ F!Out(c).kind = "file" /\ F!Out(c).has = F!Whole(c)
    BY <1>0, <1>1 DEF F!Seal, FetchOnCourse
  <2>2. store[c].kind = "file" /\ store[c].has = F!Whole(c)
    BY <2>1 DEF F!Out
  <2>3. UNCHANGED <<store, tmp>> /\ fetching'[Main] = r
    BY <1>0, <1>1, <2>2 DEF F!Seal, F!Exists
  <2>4. r.pc = "returned" /\ r.last = "ok" /\ r.result = "ok"
    BY <1>0 DEF F!Returning, IsFetchJob
  <2> HIDE DEF r
  <2>5. FetchOnCourse(c, r, F!Out(c), store[c])
    BY <2>2, <2>4 DEF FetchOnCourse
  <2> QED BY <2>3, <2>5, OutSame DEF TmpGood, FetchClean
<1>2. CASE F!MakeDir(Main)
  <2> DEFINE r == [j EXCEPT !.pc = "unpack"]
  <2>1. c \in Archive /\ store[c].kind = "none"
        /\ F!Out(c).kind = "file" /\ F!Out(c).has = F!Whole(c)
    BY <1>0, <1>2 DEF F!MakeDir, FetchOnCourse, FetchGoodFor
  <2>2. /\ store' = [store EXCEPT ![c] = F!EmptyDir] /\ tmp' = tmp
        /\ fetching'[Main] = r
    BY <1>0, <1>2, <2>1 DEF F!MakeDir, F!Exists
  <2>3. r.pc = "unpack" /\ r.last = "ok"
    BY <1>0 DEF IsFetchJob
  <2> HIDE DEF r
  <2>4. store'[c].has = {} /\ F!Out(c)' = F!Out(c)
    BY <2>1, <2>2 DEF F!EmptyDir, StoreShape, F!Out
  <2>5. FetchOnCourse(c, r, F!Out(c), store'[c])
    BY <2>1, <2>3, <2>4 DEF FetchOnCourse
  <2> QED BY <2>2, <2>4, <2>5 DEF TmpGood, FetchClean
<1>3. CASE F!Unpack(Main)
  <2> DEFINE r == [j EXCEPT !.pc = "extract", !.fd = "path", !.k = 1]
  <2>1. /\ c \in Archive /\ store[c].has = {}
        /\ F!Out(c).kind = "file" /\ F!Out(c).has = F!Whole(c)
    BY <1>0, <1>3 DEF F!Unpack, FetchOnCourse, FetchGoodFor
  <2>2. UNCHANGED <<store, tmp>> /\ fetching'[Main] = r
    BY <1>0, <1>3, <2>1 DEF F!Unpack, F!Exists, F!Out
  <2>3. r.pc = "extract" /\ r.last = "ok" /\ r.fd = "path" /\ r.k = 1
    BY <1>0 DEF IsFetchJob
  <2>4. store[c].has = Upto(c, 1) /\ 1 \in 1..(K + 1)
    BY <2>1, InOrder, SizeAssumption
  <2> HIDE DEF r
  <2>5. FetchOnCourse(c, r, F!Out(c), store[c])
    BY <2>1, <2>3, <2>4 DEF FetchOnCourse
  <2> QED BY <2>2, <2>5, OutSame DEF TmpGood, FetchClean
<1>4. CASE F!Extract(Main)
  <2> DEFINE k == j.k
  <2>1. /\ c \in Archive /\ j.fd = "path" /\ k \in 1..(K + 1) /\ j.pc = "extract"
        /\ F!Out(c).kind = "file" /\ F!Out(c).has = F!Whole(c)
        /\ store[c].has = Upto(c, k)
    BY <1>0, <1>4 DEF F!Extract, FetchOnCourse, FetchGoodFor
  <2>2. F!Readable(Main) = F!Whole(c) /\ F!Out(c) = tmp
    BY <1>0, <2>1 DEF F!Readable, F!Out
  <2>3. CASE k # K + 1
    <3> DEFINE r == [j EXCEPT !.k = k + 1, !.last = "ok"]
    <3>1. F!BlocksAt(F!Readable(Main), k) = {<<c, k>>} /\ Upto(c, k) \cup {<<c, k>>} = Upto(c, k + 1)
          /\ k + 1 \in 1..(K + 1)
      BY <2>1, <2>2, <2>3, InOrder
    <3>2. /\ store' = [store EXCEPT ![c].has = @ \cup {<<c, k>>}]
          /\ fetching'[Main] = r /\ tmp' = tmp
      BY <1>0, <1>4, <3>1 DEF F!Extract
    <3>3. store'[c].has = Upto(c, k + 1)
      BY <2>1, <3>1, <3>2 DEF StoreShape, IsObject
    <3>4. r.pc = "extract" /\ r.last = "ok" /\ r.fd = "path" /\ r.k = k + 1
      BY <1>0, <2>1 DEF IsFetchJob
    <3> HIDE DEF r
    <3>5. F!Out(c)' = F!Out(c)
      BY <2>1, <3>2 DEF F!Out
    <3>6. FetchOnCourse(c, r, F!Out(c), store'[c])
      BY <2>1, <3>1, <3>3, <3>4 DEF FetchOnCourse
    <3> QED BY <3>2, <3>5, <3>6 DEF TmpGood, FetchClean
  <2>4. CASE k = K + 1
    <3> DEFINE r == [j EXCEPT !.pc = "extracted"]
    <3>1. F!BlocksAt(F!Readable(Main), k) = {} /\ store[c].has = F!Whole(c)
      BY <2>1, <2>2, <2>4, InOrder
    <3>2. UNCHANGED <<store, tmp>> /\ fetching'[Main] = r
      BY <1>0, <1>4, <3>1 DEF F!Extract
    <3>3. r.pc = "extracted" /\ r.last = "ok"
      BY <1>0 DEF IsFetchJob
    <3> HIDE DEF r
    <3>4. FetchOnCourse(c, r, F!Out(c), store[c])
      BY <3>1, <3>3 DEF FetchOnCourse
    <3> QED BY <3>2, <3>4, OutSame DEF TmpGood, FetchClean
  <2> QED BY <2>3, <2>4
<1>5. CASE F!Extracted(Main)
  <2> DEFINE r == F!Returning(j, "ok")
  <2>1. c \in Archive /\ store[c].has = F!Whole(c)
    BY <1>0, <1>5 DEF F!Extracted, FetchOnCourse, FetchGoodFor
  <2>2. F!SetOut(c, F!Absent) /\ fetching'[Main] = r
    BY <1>0, <1>5 DEF F!Extracted, F!RemoveAndReturn, F!Orphaned
  <2>3. r.pc = "returned" /\ r.last = "ok" /\ r.result = "ok"
    BY <1>0 DEF F!Returning, IsFetchJob
  <2> HIDE DEF r
  <2>4. tmp' = F!Absent /\ store'[c] = store[c]
    BY <2>1, <2>2, OutIs
  <2>5. FetchOnCourse(c, r, F!Out(c)', store'[c])
    BY <2>1, <2>3, <2>4 DEF FetchOnCourse
  <2> QED BY <2>2, <2>4, <2>5 DEF TmpGood, FetchClean, F!Absent, IsObject
<1> QED BY <1>1, <1>2, <1>3, <1>4, <1>5

LEMMA FetchStaysClean ==
    ASSUME FetchGood, StoreShape, current \in Node, UNCHANGED current,
           faults = 0, faults' = 0, TmpGood, FetchClean, F!Step(Main)
    PROVE  TmpGood' /\ FetchClean'
BY DownloadClean, UnpackClean DEF F!Step

-----------------------------------------------------------------------------
(* fs_rmdir() leaves a directory less, or none.                             *)
LEMMA RemoveShape ==
    ASSUME DOMAIN building = {Main}, DirShape, building[Main].n \in Node,
           NEW after, B!RemoveDir(Main, after)
    PROVE  DirShape'
<1> DEFINE n == building[Main].n
<1>1. IsDir(B!NoDir) /\ IsObject(B!Absent)
  BY DEF IsDir, IsObject, B!NoDir, B!Absent
<1>2. IsDir(bdir[n])
  BY DEF DirShape
<1>3. \A e \in B!Less(bdir[n]) : IsDir(e)
  BY <1>1, <1>2 DEF B!Less, IsDir, IsObject
<1>4. \/ \E d : IsDir(d) /\ bdir' = [bdir EXCEPT ![n] = d]
      \/ UNCHANGED bdir
  BY <1>1, <1>3, OneRemoves
<1> QED BY <1>4 DEF DirShape

(* build_standard() up to the jail.                                         *)
LEMMA BeforeClean ==
    ASSUME BuildGood, StoreShape, current \in Node, UNCHANGED current,
           faults = 0, faults' = 0, DirShape, BuildClean,
           B!Clear(Main) \/ B!Ensure(Main) \/ B!Fork(Main) \/ B!OpenLog(Main)
    PROVE  DirShape' /\ BuildClean'
<1> DEFINE j == building[Main]
           c == current
<1>0. /\ ~B!Fault /\ DOMAIN building = {Main} /\ IsBuildJob(j) /\ j.pc # "idle"
      /\ BuildOnCourse(c, j, bdir[c], store[c]) /\ IsDir(bdir[c])
      /\ j.n = c /\ j.last = "ok" /\ j.root = "path" /\ j.log = "read"
  <2>1. BuildGoodFor(c, j, store[c]) /\ DOMAIN building = {Main}
    BY DEF BuildGood
  <2>2. j.pc # "idle"
    BY DEF B!Clear, B!Ensure, B!Fork, B!OpenLog
  <2> QED BY <2>1, <2>2, NoneFails DEF BuildGoodFor, BuildClean, BuildOnCourse, DirShape
<1>1. store[c].kind = "none" /\ UNCHANGED store
  BY <1>0 DEF B!Clear, B!Ensure, B!Fork, B!OpenLog, BuildOnCourse
<1>2. CASE B!Clear(Main)
  <2> DEFINE r == [j EXCEPT !.pc = "ensure"]
  <2>1. B!RemoveDir(Main, r) /\ j.pc = "clear"
    BY <1>2 DEF B!Clear
  <2>2. r.pc = "ensure" /\ r.last = "ok" /\ r.root = "path" /\ r.log = "read"
    BY <1>0 DEF IsBuildJob
  <2> HIDE DEF r
  <2>3. DirShape'
    BY <1>0, <2>1, RemoveShape
  <2>4. \/ building'[Main] = j
        \/ building'[Main] = r /\ bdir' = [bdir EXCEPT ![c] = B!NoDir]
    BY <1>0, <2>1, OneRemoves
  <2>5. CASE building'[Main] = j
    <3>1. BuildOnCourse(c, j, bdir'[c], store[c])
      BY <1>0, <1>1, <2>1 DEF BuildOnCourse
    <3> QED BY <1>1, <2>3, <2>5, <3>1 DEF BuildClean
  <2>6. CASE building'[Main] = r /\ bdir' = [bdir EXCEPT ![c] = B!NoDir]
    <3>1. bdir'[c].parts = {} /\ bdir'[c].out.kind = "none"
      BY <2>6 DEF DirShape, B!NoDir, B!Absent
    <3>2. BuildOnCourse(c, r, bdir'[c], store[c])
      BY <1>1, <2>2, <3>1 DEF BuildOnCourse
    <3> QED BY <1>1, <2>3, <2>6, <3>2 DEF BuildClean
  <2> QED BY <2>4, <2>5, <2>6
<1>3. CASE B!Ensure(Main)
  <2> DEFINE r == [j EXCEPT !.pc = "fork"]
             d == [bdir[c] EXCEPT !.there = TRUE]
  <2>1. bdir[c].parts = {} /\ bdir[c].out.kind = "none"
    BY <1>0, <1>3 DEF B!Ensure, BuildOnCourse
  <2>2. bdir' = [bdir EXCEPT ![c] = d] /\ building'[Main] = r
    BY <1>0, <1>3 DEF B!Ensure, B!Goto, DirShape
  <2>3. r.pc = "fork" /\ r.last = "ok" /\ r.root = "path" /\ r.log = "read"
    BY <1>0 DEF IsBuildJob
  <2>4. IsDir(d) /\ d.there /\ d.parts = {} /\ d.out.kind = "none"
    BY <1>0, <2>1 DEF IsDir
  <2> HIDE DEF r, d
  <2>5. DirShape' /\ bdir'[c] = d
    BY <2>2, <2>4 DEF DirShape
  <2>6. BuildOnCourse(c, r, bdir'[c], store[c])
    BY <1>1, <2>3, <2>4, <2>5 DEF BuildOnCourse
  <2> QED BY <1>1, <2>2, <2>5, <2>6 DEF BuildClean
<1>4. CASE B!Fork(Main)
  <2> DEFINE r == [j EXCEPT !.pc = "log"]
  <2>1. /\ bdir' = bdir /\ building'[Main] = r /\ bdir[c].there
        /\ bdir[c].parts = {} /\ bdir[c].out.kind = "none"
    BY <1>0, <1>4 DEF B!Fork, B!Goto, BuildOnCourse
  <2>2. r.pc = "log" /\ r.last = "ok" /\ r.root = "path" /\ r.log = "read"
    BY <1>0 DEF IsBuildJob
  <2> HIDE DEF r
  <2>3. BuildOnCourse(c, r, bdir[c], store[c])
    BY <1>1, <2>1, <2>2 DEF BuildOnCourse
  <2> QED BY <1>1, <2>1, <2>3 DEF BuildClean, DirShape
<1>5. CASE B!OpenLog(Main)
  <2> DEFINE r == [j EXCEPT !.pc = "jail", !.log = "read"]
  <2>1. /\ bdir' = bdir /\ building'[Main] = r /\ bdir[c].there
        /\ bdir[c].parts = {} /\ bdir[c].out.kind = "none"
    BY <1>0, <1>5 DEF B!OpenLog, BuildOnCourse
  <2>2. r.pc = "jail" /\ r.last = "ok" /\ r.root = "path" /\ r.log = "read"
    BY <1>0 DEF IsBuildJob
  <2> HIDE DEF r
  <2>3. BuildOnCourse(c, r, bdir[c], store[c])
    BY <1>1, <2>1, <2>2 DEF BuildOnCourse
  <2> QED BY <1>1, <2>1, <2>3 DEF BuildClean, DirShape
<1> QED BY <1>2, <1>3, <1>4, <1>5

(* The jail finds nothing in the way of the directories it makes.           *)
LEMMA SetupClean ==
    ASSUME BuildGood, StoreShape, current \in Node, UNCHANGED current,
           faults = 0, faults' = 0, DirShape, BuildClean,
           B!JailBind(Main) \/ B!JailMkdir(Main) \/ B!JailPivot(Main) \/ B!JailInside(Main)
    PROVE  DirShape' /\ BuildClean'
<1> DEFINE j == building[Main]
           c == current
           k == j.k
<1>0. /\ ~B!Fault /\ DOMAIN building = {Main} /\ IsBuildJob(j) /\ j.pc # "idle"
      /\ BuildOnCourse(c, j, bdir[c], store[c]) /\ IsDir(bdir[c])
      /\ j.n = c /\ j.last = "ok" /\ j.root = "path" /\ j.log = "read"
  <2>1. BuildGoodFor(c, j, store[c]) /\ DOMAIN building = {Main}
    BY DEF BuildGood
  <2>2. j.pc # "idle"
    BY DEF B!JailBind, B!JailMkdir, B!JailPivot, B!JailInside
  <2> QED BY <2>1, <2>2, NoneFails DEF BuildGoodFor, BuildClean, BuildOnCourse, DirShape
<1>1. /\ store[c].kind = "none" /\ UNCHANGED store /\ ~B!Hit(Main)
      /\ bdir[c].there /\ bdir[c].out.kind = "none"
  BY <1>0 DEF B!JailBind, B!JailMkdir, B!JailPivot, B!JailInside, B!Hit, BuildOnCourse
<1>2. CASE B!JailBind(Main)
  <2> DEFINE r == [j EXCEPT !.pc = "setup", !.k = 1, !.root = "path"]
  <2>1. bdir' = bdir /\ building'[Main] = r /\ bdir[c].parts = {}
    BY <1>0, <1>1, <1>2 DEF B!JailBind, BuildOnCourse
  <2>2. r.pc = "setup" /\ r.last = "ok" /\ r.root = "path" /\ r.log = "read" /\ r.k = 1
    BY <1>0 DEF IsBuildJob
  <2>3. 1 \in 1..(Parts + 1) /\ 1..(1 - 1) = {}
    BY SizeAssumption
  <2> HIDE DEF r
  <2>4. BuildOnCourse(c, r, bdir[c], store[c])
    BY <1>1, <2>1, <2>2, <2>3 DEF BuildOnCourse
  <2> QED BY <1>1, <2>1, <2>4 DEF BuildClean, DirShape
<1>3. CASE B!JailMkdir(Main)
  <2> DEFINE r == [j EXCEPT !.k = k + 1]
             d == [bdir[c] EXCEPT !.parts = @ \cup {k}]
  <2>1. k <= Parts /\ k \in 1..(Parts + 1) /\ bdir[c].parts = 1..(k - 1) /\ j.pc = "setup"
    BY <1>0, <1>3 DEF B!JailMkdir, BuildOnCourse
  <2>2. k \notin 1..(k - 1) /\ k + 1 \in 1..(Parts + 1) /\ 1..(k - 1) \cup {k} = 1..((k + 1) - 1)
    BY <2>1, SizeAssumption
  <2>3. bdir' = [bdir EXCEPT ![c] = d] /\ building'[Main] = r
    BY <1>0, <1>1, <1>3, <2>1, <2>2 DEF B!JailMkdir, DirShape
  <2>4. /\ r.pc = "setup" /\ r.last = "ok" /\ r.root = "path" /\ r.log = "read"
        /\ r.k = k + 1
    BY <1>0, <2>1 DEF IsBuildJob
  <2>5. IsDir(d) /\ d.there /\ d.parts = 1..((k + 1) - 1) /\ d.out.kind = "none"
    BY <1>0, <1>1, <2>1, <2>2 DEF IsDir
  <2> HIDE DEF r, d
  <2>6. DirShape' /\ bdir'[c] = d
    BY <2>3, <2>5 DEF DirShape
  <2>7. BuildOnCourse(c, r, bdir'[c], store[c])
    BY <1>1, <2>2, <2>4, <2>5, <2>6 DEF BuildOnCourse
  <2> QED BY <1>1, <2>3, <2>6, <2>7 DEF BuildClean
<1>4. CASE B!JailPivot(Main)
  <2> DEFINE r == [j EXCEPT !.pc = "inside"]
  <2>1. bdir' = bdir /\ building'[Main] = r
    BY <1>0, <1>1, <1>4 DEF B!JailPivot, B!Goto
  <2>2. r.pc = "inside" /\ r.last = "ok" /\ r.root = "path" /\ r.log = "read"
    BY <1>0 DEF IsBuildJob
  <2>3. bdir[c].parts = 1..Parts
    <3>1. k \in 1..(Parts + 1) /\ k > Parts /\ bdir[c].parts = 1..(k - 1)
      BY <1>0, <1>4 DEF B!JailPivot, BuildOnCourse
    <3>2. k - 1 = Parts
      BY <3>1, SizeAssumption
    <3> QED BY <3>1, <3>2
  <2> HIDE DEF r
  <2>4. BuildOnCourse(c, r, bdir[c], store[c])
    BY <1>1, <2>2, <2>3 DEF BuildOnCourse
  <2> QED BY <1>1, <2>1, <2>4 DEF BuildClean, DirShape
<1>5. CASE B!JailInside(Main)
  <2> DEFINE r == [j EXCEPT !.pc = "running", !.k = 1]
             d == [bdir[c] EXCEPT !.out = B!EmptyDir]
  <2>1. Parts \in bdir[c].parts /\ ~B!Exists(bdir[c].out)
    <3>1. bdir[c].parts = 1..Parts
      BY <1>0, <1>5 DEF B!JailInside, BuildOnCourse
    <3> QED BY <1>1, <3>1, SizeAssumption DEF B!Exists
  <2>2. bdir' = [bdir EXCEPT ![c] = d] /\ building'[Main] = r
    BY <1>0, <1>1, <1>5, <2>1 DEF B!JailInside, DirShape
  <2>3. r.pc = "running" /\ r.last = "ok" /\ r.root = "path" /\ r.log = "read" /\ r.k = 1
    BY <1>0 DEF IsBuildJob
  <2>4. IsDir(d) /\ d.out.kind = "dir" /\ d.out.has = Upto(c, 1) /\ 1 \in 1..(K + 1)
    <3>1. Upto(c, 1) = {}
      BY InOrder
    <3>2. IsDir(d) /\ d.out = B!EmptyDir
      BY <1>0 DEF IsDir, IsObject, B!EmptyDir
    <3> HIDE DEF d
    <3> QED BY <3>1, <3>2, SizeAssumption DEF B!EmptyDir
  <2> HIDE DEF r, d
  <2>5. DirShape' /\ bdir'[c] = d
    BY <2>2, <2>4 DEF DirShape
  <2>6. BuildOnCourse(c, r, bdir'[c], store[c])
    BY <1>1, <2>3, <2>4, <2>5 DEF BuildOnCourse
  <2> QED BY <1>1, <2>2, <2>5, <2>6 DEF BuildClean
<1> QED BY <1>2, <1>3, <1>4, <1>5

(* The script writes the whole output, block by block.                      *)
LEMMA ScriptClean ==
    ASSUME BuildGood, StoreShape, current \in Node, UNCHANGED current,
           faults = 0, faults' = 0, DirShape, BuildClean,
           \/ B!Script(Main, TRUE) \/ B!LogBreaks(Main) \/ B!JailBlocks(Main)
           \/ B!JailEnd(Main, TRUE)
    PROVE  DirShape' /\ BuildClean'
<1> DEFINE j == building[Main]
           c == current
           k == j.k
<1>0. /\ ~B!Fault /\ DOMAIN building = {Main} /\ IsBuildJob(j) /\ j.pc = "running"
      /\ BuildOnCourse(c, j, bdir[c], store[c]) /\ IsDir(bdir[c])
      /\ j.n = c /\ j.last = "ok" /\ j.root = "path" /\ j.log = "read"
  <2>1. BuildGoodFor(c, j, store[c]) /\ DOMAIN building = {Main}
    BY DEF BuildGood
  <2>2. j.pc = "running"
    BY DEF B!Script, B!LogBreaks, B!JailBlocks, B!JailEnd
  <2> QED BY <2>1, <2>2, NoneFails DEF BuildGoodFor, BuildClean, BuildOnCourse, DirShape
<1>1. /\ store[c].kind = "none" /\ UNCHANGED store /\ ~B!Hit(Main) /\ k \in 1..(K + 1)
      /\ bdir[c].out.has = Upto(c, k) /\ bdir[c].out.kind \in {"file", "dir"}
  BY <1>0 DEF B!Script, B!LogBreaks, B!JailBlocks, B!JailEnd, B!Hit, BuildOnCourse
<1>2. ~B!LogBreaks(Main) /\ ~B!JailBlocks(Main)
  BY <1>0 DEF B!LogBreaks, B!JailBlocks
<1>3. CASE B!Script(Main, TRUE)
  <2>1. PICK o \in {bdir[c].out} \cup
                    (IF bdir[c].out = B!EmptyDir THEN {B!EmptyFile} ELSE {}) :
            bdir' = [bdir EXCEPT ![c].out = B!Write(o, <<c, k>>)]
    <3>1. PICK o \in {bdir[c].out} \cup
                     (IF bdir[c].out = B!EmptyDir THEN {B!EmptyFile} ELSE {}),
               of \in {c} \cup (IF j.root = "path" THEN {} ELSE {0}) :
             bdir' = IF j.root = "gone" \/ ~B!Exists(bdir[c].out) THEN bdir
                     ELSE [bdir EXCEPT ![c].out = B!Write(o, <<of, k>>)]
      <4>1. \E o \in {bdir[j.n].out} \cup
                      (IF bdir[j.n].out = B!EmptyDir THEN {B!EmptyFile} ELSE {}),
               of \in {j.n} \cup (IF j.root = "path" THEN {} ELSE {0}) :
             bdir' = IF j.root = "gone" \/ ~B!Exists(bdir[j.n].out) THEN bdir
                     ELSE [bdir EXCEPT ![j.n].out = B!Write(o, <<of, k>>)]
        BY <1>3, Zenon DEF B!Script
      <4> HIDE DEF k
      <4> QED BY <1>0, <4>1
    <3>2. of = c
      BY <1>0
    <3>3. B!Exists(bdir[c].out) /\ j.root # "gone"
      BY <1>0, <1>1 DEF B!Exists
    <3> QED BY <3>1, <3>2, <3>3
  <2> DEFINE r == [j EXCEPT !.k = k + 1]
             out == B!Write(o, <<c, k>>)
             d == [bdir[c] EXCEPT !.out = out]
  <2>2. k <= K /\ building'[Main] = r
    BY <1>0, <1>3 DEF B!Script
  <2>3. /\ k # K + 1 /\ k + 1 \in 1..(K + 1) /\ Upto(c, k) \cup {<<c, k>>} = Upto(c, k + 1)
        /\ {b \in Upto(c, k) : b[2] # k} = Upto(c, k)
    <3>1. k # K + 1
      BY <1>1, <2>2, SizeAssumption
    <3> QED BY <1>1, <3>1, InOrder
  <2>4. IsObject(o) /\ o.has = Upto(c, k) /\ o.kind \in {"file", "dir"}
    <3>1. CASE o = bdir[c].out
      BY <1>0, <1>1, <3>1 DEF IsDir
    <3>2. CASE o = B!EmptyFile /\ bdir[c].out = B!EmptyDir
      BY <1>1, <3>2 DEF IsObject, B!EmptyDir, B!EmptyFile
    <3>3. o = bdir[c].out \/ (o = B!EmptyFile /\ bdir[c].out = B!EmptyDir)
      BY <2>1
    <3> QED BY <3>1, <3>2, <3>3
  <2>5. IsObject(out) /\ out.kind = o.kind /\ out.has = {b \in o.has : b[2] # k} \cup {<<c, k>>}
    BY <2>4 DEF B!Write, IsObject
  <2>6. out.has = Upto(c, k + 1)
    BY <2>3, <2>4, <2>5
  <2>7. /\ r.pc = "running" /\ r.last = "ok" /\ r.root = "path" /\ r.log = "read"
        /\ r.k = k + 1
    BY <1>0 DEF IsBuildJob
  <2> HIDE DEF out, r
  <2>8. IsDir(d) /\ d.out = out /\ bdir' = [bdir EXCEPT ![c] = d]
    BY <1>0, <2>1, <2>5 DEF IsDir, DirShape, out
  <2> HIDE DEF d
  <2>9. DirShape' /\ bdir'[c] = d
    BY <2>8 DEF DirShape
  <2>10. BuildOnCourse(c, r, bdir'[c], store[c])
    BY <1>1, <2>3, <2>4, <2>5, <2>6, <2>7, <2>8, <2>9 DEF BuildOnCourse
  <2> QED BY <1>1, <2>2, <2>9, <2>10 DEF BuildClean
<1>4. CASE B!JailEnd(Main, TRUE)
  <2> DEFINE r == [j EXCEPT !.pc = "wait", !.code = "ok"]
  <2>1. building'[Main] = r /\ bdir' = bdir /\ k > K
    BY <1>0, <1>1, <1>4 DEF B!JailEnd
  <2>2. r.pc = "wait" /\ r.last = "ok" /\ r.root = "path" /\ r.log = "read" /\ r.code = "ok"
    BY <1>0 DEF IsBuildJob
  <2>3. bdir[c].out.has = F!Whole(c)
    <3>1. k = K + 1
      BY <1>1, <2>1, SizeAssumption
    <3> QED BY <1>1, <3>1, InOrder
  <2> HIDE DEF r
  <2>4. BuildOnCourse(c, r, bdir[c], store[c])
    BY <1>1, <2>2, <2>3 DEF BuildOnCourse
  <2> QED BY <1>1, <2>1, <2>4 DEF BuildClean, DirShape
<1> QED BY <1>2, <1>3, <1>4

(* The output is found, and its target begun with.                          *)
LEMMA TargetClean ==
    ASSUME BuildGood, StoreShape, current \in Node, UNCHANGED current,
           faults = 0, faults' = 0, DirShape, BuildClean,
           B!Wait(Main) \/ B!Publish(Main) \/ B!OpenOut(Main)
    PROVE  DirShape' /\ BuildClean'
<1> DEFINE j == building[Main]
           c == current
<1>0. /\ ~B!Fault /\ DOMAIN building = {Main} /\ IsBuildJob(j) /\ j.pc # "idle"
      /\ BuildOnCourse(c, j, bdir[c], store[c])
      /\ j.n = c /\ j.last = "ok" /\ j.root = "path" /\ j.log = "read"
  <2>1. BuildGoodFor(c, j, store[c]) /\ DOMAIN building = {Main}
    BY DEF BuildGood
  <2>2. j.pc # "idle"
    BY DEF B!Wait, B!Publish, B!OpenOut
  <2> QED BY <2>1, <2>2, NoneFails DEF BuildGoodFor, BuildClean, BuildOnCourse
<1>1. /\ store[c].kind = "none" /\ bdir' = bdir /\ DirShape' /\ j.code = "ok"
      /\ bdir[c].out.has = F!Whole(c)
  BY <1>0 DEF B!Wait, B!Publish, B!OpenOut, BuildOnCourse, DirShape
<1>2. CASE B!Wait(Main)
  <2>1. PICK pc \in {"publish", "openout"} :
            /\ B!Goto(Main, pc)
            /\ pc = "publish" => bdir[c].out.kind = "dir"
            /\ pc = "openout" => bdir[c].out.kind = "file"
    BY <1>0, <1>1, <1>2 DEF B!Wait, BuildOnCourse
  <2> DEFINE r == [j EXCEPT !.pc = pc]
  <2>2. building'[Main] = r /\ UNCHANGED store
    BY <1>0, <1>2, <2>1 DEF B!Goto, B!Wait
  <2>3. r.pc = pc /\ r.last = "ok" /\ r.root = "path" /\ r.log = "read" /\ r.code = "ok"
    BY <1>0, <1>1 DEF IsBuildJob
  <2> HIDE DEF r
  <2>4. BuildOnCourse(c, r, bdir[c], store[c])
    BY <1>1, <2>1, <2>3 DEF BuildOnCourse
  <2> QED BY <1>1, <2>2, <2>4 DEF BuildClean
<1>3. CASE B!Publish(Main)
  <2> DEFINE r == [j EXCEPT !.pc = "copydir", !.k = 1, !.root = "path"]
  <2>1. bdir[c].out.kind = "dir"
    BY <1>0, <1>3 DEF B!Publish, BuildOnCourse
  <2>2. store' = [store EXCEPT ![c] = B!EmptyDir] /\ building'[Main] = r
    BY <1>0, <1>1, <1>3, <2>1 DEF B!Publish, B!Exists
  <2>3. r.pc = "copydir" /\ r.last = "ok" /\ r.root = "path" /\ r.log = "read" /\ r.code = "ok" /\ r.k = 1
    BY <1>0, <1>1 DEF IsBuildJob
  <2> HIDE DEF r
  <2>4. store'[c].has = Upto(c, 1) /\ 1 \in 1..(K + 1)
    BY <2>2, InOrder, SizeAssumption DEF B!EmptyDir, StoreShape
  <2>5. BuildOnCourse(c, r, bdir[c], store'[c])
    BY <1>1, <2>1, <2>3, <2>4 DEF BuildOnCourse
  <2> QED BY <1>1, <2>2, <2>5 DEF BuildClean
<1>4. CASE B!OpenOut(Main)
  <2> DEFINE r == [j EXCEPT !.pc = "copyfile", !.k = 1, !.data = bdir[c].out.has]
  <2>1. bdir[c].out.kind = "file"
    BY <1>0, <1>4 DEF B!OpenOut, BuildOnCourse
  <2>2. store' = [store EXCEPT ![c] = B!EmptyFile] /\ building'[Main] = r
    BY <1>0, <1>1, <1>4, <2>1 DEF B!OpenOut
  <2>3. /\ r.pc = "copyfile" /\ r.last = "ok" /\ r.root = "path" /\ r.log = "read" /\ r.code = "ok"
        /\ r.k = 1 /\ r.data = F!Whole(c)
    BY <1>0, <1>1 DEF IsBuildJob
  <2> HIDE DEF r
  <2>4. store'[c].has = Upto(c, 1) /\ 1 \in 1..(K + 1)
    BY <2>2, InOrder, SizeAssumption DEF B!EmptyFile, StoreShape
  <2>5. BuildOnCourse(c, r, bdir[c], store'[c])
    BY <1>1, <2>3, <2>4 DEF BuildOnCourse
  <2> QED BY <1>1, <2>2, <2>5 DEF BuildClean
<1> QED BY <1>2, <1>3, <1>4

(* The loops of copy_directory() and copy_file().                           *)
LEMMA CopyClean ==
    ASSUME BuildGood, StoreShape, current \in Node, UNCHANGED current,
           faults = 0, faults' = 0, DirShape, BuildClean,
           B!CopyDir(Main) \/ B!CopyFile(Main)
    PROVE  DirShape' /\ BuildClean'
<1> DEFINE j == building[Main]
           c == current
           k == j.k
<1>0. /\ ~B!Fault /\ DOMAIN building = {Main} /\ IsBuildJob(j) /\ j.pc # "idle"
      /\ BuildOnCourse(c, j, bdir[c], store[c])
      /\ j.n = c /\ j.last = "ok" /\ j.root = "path" /\ j.log = "read"
  <2>1. BuildGoodFor(c, j, store[c]) /\ DOMAIN building = {Main}
    BY DEF BuildGood
  <2>2. j.pc # "idle"
    BY DEF B!CopyDir, B!CopyFile
  <2> QED BY <2>1, <2>2, NoneFails DEF BuildGoodFor, BuildClean, BuildOnCourse
<1>1. /\ bdir' = bdir /\ DirShape' /\ j.code = "ok" /\ k \in 1..(K + 1)
      /\ store[c].has = Upto(c, k)
  BY <1>0 DEF B!CopyDir, B!CopyFile, BuildOnCourse, DirShape
<1>2. CASE B!CopyDir(Main)
  <2>1. /\ B!Readable(Main) = F!Whole(c) /\ bdir[c].out.kind = "dir"
        /\ bdir[c].out.has = F!Whole(c) /\ j.pc = "copydir"
    BY <1>0, <1>2 DEF B!CopyDir, B!Readable, BuildOnCourse
  <2>2. CASE k # K + 1
    <3> DEFINE r == [j EXCEPT !.k = k + 1, !.last = "ok"]
    <3>1. /\ B!BlocksAt(B!Readable(Main), k) = {<<c, k>>} /\ k + 1 \in 1..(K + 1)
          /\ Upto(c, k) \cup {<<c, k>>} = Upto(c, k + 1) /\ k <= K
      BY <1>1, <2>1, <2>2, InOrder, SameBlocks, SizeAssumption
    <3>2. /\ store' = [store EXCEPT ![c].has = @ \cup {<<c, k>>}]
          /\ building'[Main] = r
      <4> DEFINE entry == B!BlocksAt(B!Readable(Main), k)
      <4>1. entry # {} /\ ~B!Hit(Main) /\ ~(k > K)
        BY <1>0, <1>1, <3>1, SizeAssumption DEF B!Hit
      <4>2. /\ \E b \in entry : store' = [store EXCEPT ![c].has = @ \cup {b}]
            /\ building' = [building EXCEPT ![Main] = [j EXCEPT !.k = k + 1, !.last = "ok"]]
        <5> HIDE DEF entry
        <5> QED BY <1>0, <1>2, <4>1 DEF B!CopyDir, entry
      <4> QED BY <1>0, <3>1, <4>2
    <3>3. store'[c].has = Upto(c, k + 1)
      BY <1>1, <3>1, <3>2 DEF StoreShape, IsObject
    <3>4. r.pc = "copydir" /\ r.last = "ok" /\ r.root = "path" /\ r.log = "read" /\ r.code = "ok" /\ r.k = k + 1
      BY <1>0, <1>1, <2>1 DEF IsBuildJob
    <3> HIDE DEF r
    <3>5. BuildOnCourse(c, r, bdir[c], store'[c])
      BY <2>1, <3>1, <3>3, <3>4 DEF BuildOnCourse
    <3> QED BY <1>1, <3>2, <3>5 DEF BuildClean
  <2>3. CASE k = K + 1
    <3> DEFINE r == [j EXCEPT !.pc = "copied"]
    <3>1. ~(k <= K) /\ store[c].has = F!Whole(c)
      BY <1>1, <2>1, <2>3, InOrder, SizeAssumption
    <3>2. UNCHANGED store /\ building'[Main] = r
      BY <1>0, <1>2, <3>1 DEF B!CopyDir, B!Goto
    <3>3. r.pc = "copied" /\ r.last = "ok" /\ r.root = "path" /\ r.log = "read" /\ r.code = "ok"
      BY <1>0, <1>1 DEF IsBuildJob
    <3> HIDE DEF r
    <3>4. BuildOnCourse(c, r, bdir[c], store[c])
      BY <3>1, <3>3 DEF BuildOnCourse
    <3> QED BY <1>1, <3>2, <3>4 DEF BuildClean
  <2> QED BY <2>2, <2>3
<1>3. CASE B!CopyFile(Main)
  <2>1. j.data = F!Whole(c) /\ j.pc = "copyfile"
    BY <1>0, <1>3 DEF B!CopyFile, BuildOnCourse
  <2>2. CASE k # K + 1
    <3> DEFINE r == [j EXCEPT !.k = k + 1]
    <3>1. /\ B!BlocksAt(j.data, k) = {<<c, k>>} /\ k + 1 \in 1..(K + 1)
          /\ {b \in Upto(c, k) : b[2] # k} \cup {<<c, k>>} = Upto(c, k + 1)
      BY <1>1, <2>1, <2>2, InOrder, SameBlocks
    <3>2. /\ store' = [store EXCEPT ![c] = B!Write(@, <<c, k>>)]
          /\ building'[Main] = r
      BY <1>0, <1>3, <3>1 DEF B!CopyFile, B!Goto
    <3>3. store'[c].has = Upto(c, k + 1)
      <4>1. store'[c] = [store[c] EXCEPT !.has = {b \in @ : b[2] # k} \cup {<<c, k>>}]
        BY <3>2 DEF StoreShape, B!Write
      <4>2. IsObject(store[c])
        BY DEF StoreShape
      <4> QED BY <1>1, <3>1, <4>1, <4>2 DEF IsObject
    <3>4. /\ r.pc = "copyfile" /\ r.last = "ok" /\ r.root = "path" /\ r.log = "read" /\ r.code = "ok"
          /\ r.k = k + 1 /\ r.data = F!Whole(c)
      BY <1>0, <1>1, <2>1 DEF IsBuildJob
    <3> HIDE DEF r
    <3>5. BuildOnCourse(c, r, bdir[c], store'[c])
      BY <3>1, <3>3, <3>4 DEF BuildOnCourse
    <3> QED BY <1>1, <3>2, <3>5 DEF BuildClean
  <2>3. CASE k = K + 1
    <3> DEFINE r == [j EXCEPT !.pc = "close"]
    <3>1. B!BlocksAt(j.data, k) = {} /\ store[c].has = F!Whole(c)
      BY <1>1, <2>1, <2>3, InOrder, SameBlocks
    <3>2. UNCHANGED store /\ building'[Main] = r
      BY <1>0, <1>3, <3>1 DEF B!CopyFile, B!Goto
    <3>3. r.pc = "close" /\ r.last = "ok" /\ r.root = "path" /\ r.log = "read" /\ r.code = "ok"
      BY <1>0, <1>1 DEF IsBuildJob
    <3> HIDE DEF r
    <3>4. BuildOnCourse(c, r, bdir[c], store[c])
      BY <3>1, <3>3 DEF BuildOnCourse
    <3> QED BY <1>1, <3>2, <3>4 DEF BuildClean
  <2> QED BY <2>2, <2>3
<1> QED BY <1>2, <1>3

(* What is left once the output is copied.                                  *)
LEMMA EndClean ==
    ASSUME BuildGood, StoreShape, current \in Node, UNCHANGED current,
           faults = 0, faults' = 0, DirShape, BuildClean,
           B!Copied(Main) \/ B!Close(Main) \/ B!Chmod(Main) \/ B!Finalize(Main)
    PROVE  DirShape' /\ BuildClean'
<1> DEFINE j == building[Main]
           c == current
<1>0. /\ ~B!Fault /\ DOMAIN building = {Main} /\ IsBuildJob(j)
      /\ j.n = c /\ j.last = "ok" /\ j.root = "path" /\ j.log = "read" /\ j.code = "ok"
      /\ store[c].has = F!Whole(c)
  <2>1. BuildGoodFor(c, j, store[c]) /\ DOMAIN building = {Main}
    BY DEF BuildGood
  <2>2. j.pc \in {"copied", "close", "chmod", "finalize"}
    BY DEF B!Copied, B!Close, B!Chmod, B!Finalize
  <2> QED BY <2>1, <2>2, NoneFails DEF BuildGoodFor, BuildClean, BuildOnCourse
<1>1. UNCHANGED store
  BY <1>0 DEF B!Copied, B!Close, B!Chmod, B!Finalize
<1>2. DirShape'
  <2>1. CASE UNCHANGED bdir
    BY <2>1 DEF DirShape
  <2>2. CASE B!Finalize(Main)
    BY <1>0, <2>2, RemoveShape DEF B!Finalize
  <2> QED BY <2>1, <2>2 DEF B!Copied, B!Close, B!Chmod
<1>3. \/ \E pc \in {"chmod", "finalize"} : B!Goto(Main, pc)
      \/ building'[Main] = B!Return(j)
      \/ building'[Main] = j /\ j.pc = "finalize"
  <2>1. CASE B!Copied(Main) \/ B!Close(Main) \/ B!Chmod(Main)
    BY <1>0, <2>1 DEF B!Copied, B!Close, B!Chmod
  <2>2. CASE B!Finalize(Main)
    BY <1>0, <2>2, OneRemoves DEF B!Finalize
  <2> QED BY <2>1, <2>2
<1>4. PICK r : r = building'[Main]
  OBVIOUS
<1>5. /\ r.pc \in {"chmod", "finalize", "returned"}
      /\ r.last = "ok" /\ r.root = "path" /\ r.log = "read" /\ r.code = "ok"
  BY <1>0, <1>3, <1>4 DEF B!Goto, IsBuildJob, B!Return, B!NoJob
<1>6. BuildOnCourse(c, r, bdir'[c], store[c])
  BY <1>0, <1>5 DEF BuildOnCourse
<1> QED BY <1>1, <1>2, <1>4, <1>6 DEF BuildClean

LEMMA BuildStaysClean ==
    ASSUME BuildGood, StoreShape, current \in Node, UNCHANGED current,
           faults = 0, faults' = 0, DirShape, BuildClean, B!Step(Main, TRUE)
    PROVE  DirShape' /\ BuildClean'
BY BeforeClean, SetupClean, ScriptClean, TargetClean, CopyClean, EndClean DEF B!Step

-----------------------------------------------------------------------------
(* Between two builds nothing is on its way.                                *)
LEMMA IdleClean ==
    ASSUME (fetching[Main].pc = "idle" /\ building[Main].pc = "idle")'
    PROVE  FetchClean' /\ BuildClean'
BY DEF FetchClean, FetchOnCourse, BuildClean, BuildOnCourse

LEMMA DiskClean ==
    ASSUME UNCHANGED <<store, tmp, bdir>>
    PROVE  /\ TmpGood => TmpGood'
           /\ DirShape => DirShape'
           /\ There' = There
           /\ OthersIntact /\ There' \ {current'} \subseteq There \ {current} => OthersIntact'
           /\ \A n : Intact(n) => Intact(n)'
BY DEF TmpGood, DirShape, There, OthersIntact, Intact

LEMMA CleanInit == Init => CleanInv
<1> SUFFICES ASSUME Init PROVE CleanInv
  OBVIOUS
<1>1. fetching[Main].pc = "idle" /\ building[Main].pc = "idle"
  BY DEF Init, F!Init, F!NoJob, B!NoJob
<1>2. There = {} /\ faults = 0 /\ crashes = 0 /\ phase = "idle" /\ runs = 0
  BY DEF Init, F!Init, F!Absent, F!Node, Node, There
<1>3. TmpGood /\ DirShape
  BY DEF Init, F!Init, F!Absent, TmpGood, IsObject, DirShape, IsDir, B!NoDir, B!Absent
<1>4. FetchClean /\ BuildClean
  BY <1>1 DEF FetchClean, FetchOnCourse, BuildClean, BuildOnCourse
<1>5. RequestsKept /\ OthersIntact
  BY <1>2 DEF RequestsKept, OthersIntact
<1> QED BY <1>2, <1>3, <1>4, <1>5 DEF CleanInv

(* The builders: dependencies that are intact make the output sound.        *)
LEMMA BuilderClean ==
    ASSUME CalcInv, CleanInv, FetchStep \/ BuildStep
    PROVE  CleanInv'
<1>1. /\ CalcInv' /\ OnlyCurrent /\ phase = "build" /\ current' = current /\ sealed' = sealed
      /\ phase' = phase /\ crashes' = crashes /\ queue' = queue
      /\ StoreShape /\ FetchGood /\ BuildGood /\ current \in Node
      /\ DepSet(current) \subseteq There \ {current}
  BY BuilderInv DEF CalcInv, FetchStep, BuildStep, history, planner
<1>2. faults' \in Nat /\ faults' >= faults
  BY FaultsCount DEF FetchStep, BuildStep, CleanInv
<1>3. /\ There' \cup {current} = There \cup {current}
      /\ There' \ {current} = There \ {current}
      /\ Queued' = Queued
  BY <1>1 DEF There, OnlyCurrent, Queued
<1>4. RequestsKept'
  BY <1>1, <1>3 DEF CleanInv, RequestsKept
<1>5. ASSUME Clean'
      PROVE  TmpGood' /\ FetchClean' /\ DirShape' /\ BuildClean' /\ OthersIntact'
  <2>1. faults = 0 /\ faults' = 0 /\ Clean
    BY <1>1, <1>2, <1>5 DEF Clean, CleanInv
  <2>2. TmpGood /\ FetchClean /\ DirShape /\ BuildClean /\ OthersIntact
    BY <2>1 DEF CleanInv
  <2>3. OthersIntact'
    <3>1. \A n \in There \ {current} : n \in Node /\ store'[n] = store[n]
      BY <1>1 DEF There, OnlyCurrent
    <3> QED BY <1>1, <1>3, <2>2, <3>1 DEF OthersIntact, Intact
  <2>4. CASE FetchStep
    <3>1. F!Step(Main) /\ UNCHANGED <<bdir, building>>
      BY <2>4 DEF FetchStep
    <3>2. TmpGood' /\ FetchClean'
      BY <1>1, <2>1, <2>2, <3>1, FetchStaysClean
    <3>3. building[Main].pc = "idle"
      BY <1>1, <3>1, FetchEffect DEF CalcInv
    <3>4. DirShape' /\ BuildClean'
      BY <2>2, <3>1, <3>3 DEF DirShape, BuildClean, BuildOnCourse
    <3> QED BY <2>3, <3>2, <3>4
  <2>5. CASE BuildStep
    <3>1. B!Step(Main, \A d \in DepSet(current) : Intact(d)) /\ UNCHANGED <<tmp, fetching>>
      BY <2>5 DEF BuildStep
    <3>2. \A d \in DepSet(current) : Intact(d)
      BY <1>1, <2>2 DEF OthersIntact
    <3>3. B!Step(Main, TRUE)
      <4>1. B!JailEnd(Main, \A d \in DepSet(current) : Intact(d)) => B!JailEnd(Main, TRUE)
        BY <3>2 DEF B!JailEnd
      <4>2. B!Script(Main, \A d \in DepSet(current) : Intact(d)) => B!Script(Main, TRUE)
        BY <3>2 DEF B!Script
      <4> QED BY <3>1, <4>1, <4>2 DEF B!Step
    <3>4. DirShape' /\ BuildClean'
      BY <1>1, <2>1, <2>2, <3>3, BuildStaysClean
    <3>5. fetching[Main].pc = "idle"
      BY <1>1, <3>3, BuildEffect DEF CalcInv
    <3>6. TmpGood' /\ FetchClean'
      BY <2>2, <3>1, <3>5 DEF TmpGood, FetchClean, FetchOnCourse
    <3> QED BY <2>3, <3>4, <3>6
  <2> QED BY <2>4, <2>5
<1> QED BY <1>1, <1>2, <1>4, <1>5 DEF CleanInv

(* The next of the plan is begun with.                                      *)
LEMMA TakeClean ==
    ASSUME CalcInv, CleanInv, Take
    PROVE  CleanInv'
<1>1. /\ QueueGood /\ current = 0 /\ phase' = "build"
      /\ queue # <<>> /\ current' = Head(queue) /\ queue' = Tail(queue)
      /\ UNCHANGED <<store, tmp, bdir, faults, crashes, runs>> /\ phase = "loop"
      /\ StoreShape /\ FetchGood /\ BuildGood
      /\ fetching[Main].pc = "idle" /\ building[Main].pc = "idle"
  BY DEF CalcInv, Take, B!Begin, F!Begin, history
<1>2. current' \in Node /\ current' \notin There
  BY <1>1, TakeFront
<1>3. Queued \subseteq Queued' \cup {current'}
  <2>1. queue \in Seq(Node) /\ Len(queue) \in Nat \ {0} /\ Head(queue) = queue[1]
    BY <1>1 DEF QueueGood
  <2>2. /\ Len(queue') = Len(queue) - 1
        /\ \A q \in 1..(Len(queue) - 1) : queue'[q] = queue[q + 1]
    BY <1>1, <2>1
  <2>3. ASSUME NEW q \in 1..Len(queue), q # 1
        PROVE  q - 1 \in 1..Len(queue') /\ queue'[q - 1] = queue[q]
    BY <2>1, <2>2, <2>3
  <2> QED BY <1>1, <2>1, <2>3 DEF Queued
<1>4. There' = There /\ \A i \in 1..Len(Wanted) : Wanted[i] \in Node
  BY <1>1, GraphFacts DEF There
<1>5. RequestsKept'
  <2>1. \A i \in 1..Len(Wanted) : Wanted[i] \in There \cup Queued
    BY <1>1, <1>4, SizeAssumption DEF CleanInv, RequestsKept, Node
  <2> QED BY <1>1, <1>3, <1>4, <2>1 DEF RequestsKept
<1>6. ASSUME Clean'
      PROVE  TmpGood' /\ FetchClean' /\ DirShape' /\ BuildClean' /\ OthersIntact'
  <2>1. TmpGood /\ DirShape /\ OthersIntact
    BY <1>1, <1>6 DEF Clean, CleanInv
  <2>2. TmpGood' /\ DirShape' /\ OthersIntact'
    <3>1. 0 \notin There
      BY SizeAssumption DEF There, Node
    <3> QED BY <1>1, <1>4, <2>1, <3>1, DiskClean
  <2>3. store'[current'].kind = "none"
    BY <1>1, <1>2 DEF There
  <2>4. CASE current' \in Standard
    <3>1. B!Begin(Main, current') /\ fetching' = fetching
      BY <2>4 DEF Take
    <3>2. building'[Main] = [B!NoJob EXCEPT !.pc = "clear", !.n = current']
      BY <1>1, <3>1 DEF B!Begin, BuildGood
    <3>3. BuildClean' /\ FetchClean'
      BY <1>1, <2>3, <3>1, <3>2
         DEF B!NoJob, BuildClean, BuildOnCourse, FetchClean, FetchOnCourse
    <3> QED BY <2>2, <3>3
  <2>5. CASE current' \notin Standard
    <3>1. F!Begin(Main, current') /\ building' = building
      BY <2>5 DEF Take
    <3>2. fetching'[Main] = [F!NoJob EXCEPT !.pc = "open", !.n = current']
      BY <1>1, <3>1 DEF F!Begin, FetchGood
    <3>3. BuildClean' /\ FetchClean'
      BY <1>1, <2>3, <3>1, <3>2
         DEF F!NoJob, BuildClean, BuildOnCourse, FetchClean, FetchOnCourse
    <3> QED BY <2>2, <3>3
  <2> QED BY <2>4, <2>5
<1> QED BY <1>1, <1>5, <1>6 DEF CleanInv

(* build_derivative() returns, and with success.                            *)
LEMMA ReturnedClean ==
    ASSUME CalcInv, CleanInv, Returned
    PROVE  CleanInv'
<1>1. /\ phase = "build" /\ UNCHANGED <<store, tmp, bdir, queue, faults, crashes>>
      /\ current' = 0 /\ NoJobs
      /\ \/ Succeeded /\ phase' = "loop"
         \/ Failed /\ phase' = "idle"
  BY DEF Returned, disk, planner
<1>2. (fetching[Main].pc = "idle" /\ building[Main].pc = "idle")'
  BY <1>1, JobsOver
<1>3. There' = There /\ Queued' = Queued
  BY <1>1 DEF There, Queued
<1>4. RequestsKept'
  <2>1. CASE Succeeded /\ phase' = "loop"
    <3>1. current \in There
      BY <1>1, <2>1, SucceededIsThere
    <3> QED BY <1>1, <1>3, <2>1, <3>1 DEF CleanInv, RequestsKept
  <2>2. CASE phase' = "idle"
    BY <2>2 DEF RequestsKept
  <2> QED BY <1>1, <2>1, <2>2
<1>5. ASSUME Clean'
      PROVE  /\ TmpGood' /\ FetchClean' /\ DirShape' /\ BuildClean' /\ OthersIntact'
             /\ phase' = "loop"
  <2>1. Clean /\ TmpGood /\ FetchClean /\ DirShape /\ BuildClean /\ OthersIntact
    BY <1>1, <1>5 DEF Clean, CleanInv
  <2>2. ~Failed
    BY <2>1 DEF Failed, FetchClean, FetchOnCourse, BuildClean, BuildOnCourse
  <2>3. phase' = "loop" /\ Succeeded
    BY <1>1, <2>2
  <2>4. Intact(current)
    BY <2>1, <2>3 DEF Succeeded, FetchClean, FetchOnCourse, BuildClean, BuildOnCourse, Intact
  <2>5. OthersIntact'
    BY <1>1, <1>3, <2>1, <2>4 DEF OthersIntact, Intact
  <2>6. FetchClean' /\ BuildClean'
    BY <1>2, IdleClean
  <2>7. TmpGood' /\ DirShape'
    BY <1>1, <2>1, DiskClean
  <2> QED BY <2>3, <2>5, <2>6, <2>7
<1> QED BY <1>1, <1>4, <1>5 DEF CleanInv

(* The steps of main() between plan and builds, the walk and the user's.    *)
LEMMA MainClean ==
    ASSUME CalcInv, CleanInv, Start \/ PlanStep \/ Planned \/ Finish
    PROVE  CleanInv'
<1>1. /\ UNCHANGED <<store, tmp, bdir, faults, crashes, jobs, current>> /\ phase # "build"
      /\ current = 0 /\ fetching[Main].pc = "idle" /\ building[Main].pc = "idle"
  BY DEF Start, PlanStep, Planned, Finish, disk, history, CalcInv
<1>2. There' = There /\ 0 \notin Node /\ \A i \in 1..Len(Wanted) : Wanted[i] \in Node
  BY <1>1, GraphFacts, SizeAssumption DEF There, Node
<1>3. Len(Wanted) \in Nat
  BY GraphFacts
<1>4. ASSUME Clean'
      PROVE  /\ TmpGood' /\ FetchClean' /\ DirShape' /\ BuildClean' /\ OthersIntact'
  <2>1. TmpGood /\ DirShape /\ OthersIntact
    BY <1>1, <1>4 DEF Clean, CleanInv
  <2>2. (fetching[Main].pc = "idle" /\ building[Main].pc = "idle")'
    BY <1>1 DEF jobs
  <2>3. FetchClean' /\ BuildClean'
    BY <2>2, IdleClean
  <2> QED BY <1>1, <1>2, <2>1, <2>3, DiskClean
<1>5. CASE Start
  <2>1. RequestsKept' /\ phase' = "plan"
    BY <1>5 DEF Start, RequestsKept
  <2> QED BY <1>1, <1>4, <2>1 DEF CleanInv
<1>6. CASE PlanStep
  <2>1. /\ phase = "plan" /\ phase' = "plan" /\ WalkGood /\ Plan!Walk
        /\ \A i \in 1..Len(Wanted) : i < w => Wanted[i] \in visited
    BY <1>6 DEF PlanStep, CalcInv, CleanInv, RequestsKept
  <2>2. \A i \in 1..Len(Wanted) : i < w' => Wanted[i] \in visited'
    <3>1. CASE Plan!ResolveRoot
      <4>1. visited' = visited \cup {Wanted[w]} /\ w' = w + 1 /\ w \in Nat
        BY <2>1, <3>1 DEF Plan!ResolveRoot, Plan!Enter, WalkGood
      <4>2. \A i \in 1..Len(Wanted) : i < w + 1 => i < w \/ i = w
        BY <4>1
      <4> QED BY <2>1, <4>1, <4>2
    <3>2. CASE Plan!ResolveDep \/ Plan!Push
      <4>1. visited \subseteq visited' /\ w' = w
        BY <3>2 DEF Plan!ResolveDep, Plan!Push, Plan!Enter
      <4> QED BY <2>1, <4>1
    <3> QED BY <2>1, <3>1, <3>2 DEF Plan!Walk
  <2>3. RequestsKept'
    BY <2>1, <2>2 DEF RequestsKept
  <2> QED BY <1>1, <1>4, <2>1, <2>3 DEF CleanInv
<1>7. CASE Planned
  <2>1. /\ phase = "plan" /\ phase' = "loop" /\ WalkGood /\ Plan!Done
        /\ queue' = queue
        /\ \A i \in 1..Len(Wanted) : i < w => Wanted[i] \in visited
    BY <1>7 DEF Planned, planner, CalcInv, CleanInv, RequestsKept
  <2>2. visited \subseteq There \cup Queued
    <3>1. Resolving = {}
      BY <2>1 DEF Plan!Done, Resolving
    <3> QED BY <2>1, <3>1 DEF WalkGood, VisitedSplit
  <2>3. \A i \in 1..Len(Wanted) : Wanted[i] \in visited
    BY <1>3, <2>1 DEF Plan!Done, WalkGood
  <2>4. RequestsKept'
    BY <1>2, <2>1, <2>2, <2>3 DEF RequestsKept, Queued
  <2> QED BY <1>1, <1>4, <2>1, <2>4 DEF CleanInv
<1>8. CASE Finish
  <2>1. /\ phase = "loop" /\ phase' = "idle" /\ queue = <<>>
        /\ \A i \in 1..Len(Wanted) : Wanted[i] \in There \cup Queued \cup {current}
    BY <1>8 DEF Finish, CleanInv, RequestsKept
  <2>2. Queued = {}
    BY <2>1 DEF Queued
  <2>3. AllProvided'
    BY <1>1, <1>2, <2>1, <2>2 DEF AllProvided
  <2>4. RequestsKept'
    BY <2>1 DEF RequestsKept
  <2> QED BY <1>1, <1>4, <2>3, <2>4 DEF CleanInv
<1> QED BY <1>5, <1>6, <1>7, <1>8

LEMMA CleanStep ==
    ASSUME CalcInv, CleanInv, [Next]_vars
    PROVE  CleanInv'
<1>1. CASE Crash
  <2>1. crashes' = crashes + 1 /\ faults' = faults /\ phase' = "idle"
    BY <1>1 DEF Crash
  <2>2. ~Clean' /\ RequestsKept'
    BY <2>1 DEF Clean, CleanInv, RequestsKept
  <2> QED BY <2>1, <2>2 DEF CleanInv
<1>2. CASE UNCHANGED vars
  <2>1. UNCHANGED <<store, tmp, bdir, faults, crashes, fetching, building, current,
                    phase, runs, w, visited, queue>>
    BY <1>2 DEF vars, disk, planner, jobs, history
  <2>2. There' = There /\ Queued' = Queued
    BY <2>1 DEF There, Queued
  <2>3. RequestsKept' /\ (AllProvided => AllProvided') /\ (Clean' => Clean)
    BY <2>1, <2>2 DEF CleanInv, RequestsKept, AllProvided, Clean
  <2>4. (FetchClean => FetchClean') /\ (BuildClean => BuildClean')
    BY <2>1 DEF FetchClean, BuildClean, F!Out
  <2> QED BY <2>1, <2>2, <2>3, <2>4, DiskClean DEF CleanInv
<1> QED BY <1>1, <1>2, BuilderClean, TakeClean, ReturnedClean, MainClean
        DEF Next, Work, UserDone

(* The inductive invariant of runs without failures and kills: where        *)
(* fetch() and build_standard() are tells what the files hold.              *)
THEOREM CleanInvariant == Spec => [](CalcInv /\ CleanInv)
<1>1. CalcInv /\ CleanInv /\ [Next]_vars => (CalcInv /\ CleanInv)'
  BY CalcStep, CleanStep
<1> QED BY <1>1, CalcInit, CleanInit, PTL DEF Spec

(* As long as no call fails and nothing is killed, the store holds nothing   *)
(* but complete objects and the one being made, and an invocation that is   *)
(* over has provided what was requested (main(), for any graph).            *)
THEOREM StoreStaysClean == Spec => []CleanStore
<1>1. CalcInv /\ CleanInv => CleanStore
  <2> SUFFICES ASSUME CalcInv, CleanInv, Clean PROVE CleanStore
    BY DEF CleanStore, Clean
  <2>1. \A n \in Node \ {current} : F!Exists(store[n]) => Intact(n)
    BY DEF CleanInv, OthersIntact, There, F!Exists
  <2>2. ASSUME phase = "idle", runs > 0
        PROVE  \A i \in DOMAIN Wanted : F!Exists(store[Wanted[i]])
    <3>1. DOMAIN Wanted = 1..Len(Wanted) /\ AllProvided
      BY <2>2, GraphFacts DEF CleanInv
    <3> QED BY <3>1 DEF AllProvided, There, F!Exists
  <2> QED BY <2>1, <2>2 DEF CleanStore
<1> QED BY <1>1, CleanInvariant, PTL
=============================================================================
