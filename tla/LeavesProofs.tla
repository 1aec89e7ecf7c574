---------------------------- MODULE LeavesProofs ----------------------------
(***************************************************************************)
(* Theorems about the parts that call no other modelled part: the recipe    *)
(* registry, the recipe reader, the cache of git libraries, the script      *)
(* environment and the diagram, each for every instance of its constants.   *)
(* Each has an inductive invariant of its own, which the steps of the       *)
(* others leave alone.  The theorems about the registry are about it by     *)
(* itself, for any scripts and files, any number of registrations and       *)
(* dependency lists of any length: a pointer stands for a recipe, a store   *)
(* path pins the closure, and the planner gets an acyclic graph without     *)
(* repeated requests.                                                       *)
(***************************************************************************)
EXTENDS Leaves, SequenceTheorems, FiniteSetTheorems,
        WellFoundedInduction, TLAPS

(* What is registered, when the hashes of dependencies are in H and there   *)
(* are n derivatives.                                                       *)
Hash(H) == [type : {"STANDARD", "FETCH"}, of : Scripts \cup Files, deps : Seq(H)]

Registration(H, n) == [dtype : {"STANDARD", "FETCH"}, dhash : Hash(H), deps : Seq(1..n)]

Hashes == {registered[h].dhash : h \in Handle}

Spelled == [kind : {"derivative", "fetch"}, of : Scripts \cup Files, deps : Seq(Handle)]

(* The hash of a recipe, whose dependencies are named by pointers.          *)
HashOf(spec) ==
    [type |-> IF spec.kind = "fetch" THEN "FETCH" ELSE "STANDARD", of |-> spec.of,
     deps |-> [i \in DOMAIN spec.deps |-> registered[spec.deps[i]].dhash]]

(* Dependencies are older, and a hash holds those of its dependencies.      *)
DepsOlder ==
    \A h \in Handle : \A i \in DOMAIN registered[h].deps : registered[h].deps[i] < h

HashHoldsDeps ==
    \A h \in Handle : \A i \in DOMAIN registered[h].deps :
        registered[h].dhash.deps[i] = registered[registered[h].deps[i]].dhash

(* No two derivatives have the same hash.                                   *)
NoTwins ==
    \A g, h \in Handle : registered[g].dhash = registered[h].dhash => g = h

(* What a script was handed has the hash of what it asked for.              *)
HandedRight ==
    \A x \in handed : /\ x.handle \in Handle /\ x.spec \in Spelled
                      /\ registered[x.handle].dhash = HashOf(x.spec)

(* The inductive invariant.                                                 *)
RegistryInv ==
    /\ TypeOK
    /\ DepsOlder /\ HashHoldsDeps /\ NoTwins
    /\ HandedRight
    /\ IsInjective(requested)

-----------------------------------------------------------------------------
LEMMA SameInterval ==
    ASSUME NEW a \in Nat, NEW b \in Nat, 1..a = 1..b
    PROVE  a = b
<1>1. a # 0 => a \in 1..b
  OBVIOUS
<1>2. b # 0 => b \in 1..a
  OBVIOUS
<1> QED BY <1>1, <1>2

(* Dependency lists and their hashes.                                       *)
LEMMA HashTypes ==
    ASSUME TypeOK
    PROVE  /\ Len(registered) \in Nat
           /\ registered \in Seq(Registration(Hashes, Len(registered)))
           /\ \A h \in Handle : registered[h] \in Registration(Hashes, Len(registered))
           /\ BoundedSeq(Handle, MaxDeps) \subseteq Seq(Handle)
           /\ \A deps \in Seq(Handle) :
                 /\ \A i \in DOMAIN deps : deps[i] \in Handle
                 /\ [i \in DOMAIN deps |-> registered[deps[i]].dhash] \in Seq(Hashes)
<1>1. registered \in Seq(Registration(Hashes, Len(registered)))
  BY DEF TypeOK, Registration, Hash, Hashes, Handle
<1>2. Len(registered) \in Nat /\ \A h \in Handle : registered[h] \in Registration(Hashes, Len(registered))
  BY <1>1, LenProperties, ElementOfSeq DEF Handle
<1>3. BoundedSeq(Handle, MaxDeps) \subseteq Seq(Handle)
  BY RegistryBounds DEF BoundedSeq, SeqOf
<1>4. ASSUME NEW deps \in Seq(Handle)
      PROVE  /\ \A i \in DOMAIN deps : deps[i] \in Handle
             /\ [i \in DOMAIN deps |-> registered[deps[i]].dhash] \in Seq(Hashes)
  <2>1. Len(deps) \in Nat /\ DOMAIN deps = 1..Len(deps) /\ \A i \in DOMAIN deps : deps[i] \in Handle
    BY LenProperties, ElementOfSeq
  <2>2. [i \in 1..Len(deps) |-> registered[deps[i]].dhash] \in [1..Len(deps) -> Hashes]
    BY <2>1 DEF Hashes
  <2> QED BY <2>1, <2>2
<1> QED BY <1>1, <1>2, <1>3, <1>4

(* Registering: what was there stays, the new derivative is the last one.   *)
LEMMA RegisterGrows ==
    ASSUME TypeOK, NEW dtype \in {"STANDARD", "FETCH"}, NEW hash \in Hash(Hashes),
           NEW deps \in Seq(Handle), Register(dtype, hash, deps)
    PROVE  /\ Len(registered') = Len(registered) + 1
           /\ \A h \in Handle : registered'[h] = registered[h]
           /\ registered'[Len(registered) + 1] = [dtype |-> dtype, dhash |-> hash, deps |-> deps]
           /\ Handle' = Handle \cup {Len(registered) + 1}
           /\ Hashes \subseteq Hashes'
           /\ registered' \in Seq(Registration(Hashes', Len(registered')))
<1> DEFINE L == Len(registered)
           new == [dtype |-> dtype, dhash |-> hash, deps |-> deps]
           Both == Registration(Hashes, L) \cup {new}
<1>1. registered \in Seq(Registration(Hashes, L)) /\ L \in Nat
  BY HashTypes
<1>2. registered \in Seq(Both) /\ new \in Both
  BY <1>1, SeqMonotonic
<1>3. /\ registered' = Append(registered, new)
      /\ Append(registered, new) \in Seq(Both) /\ Len(Append(registered, new)) = L + 1
      /\ \A i \in 1..L : Append(registered, new)[i] = registered[i]
      /\ Append(registered, new)[L + 1] = new
  <2> HIDE DEF Both, new
  <2>1. registered' = Append(registered, new)
    BY DEF Register, new
  <2> QED BY <1>2, <2>1, AppendProperties
<1>4. Handle' = Handle \cup {L + 1} /\ \A h \in Handle : registered'[h] = registered[h]
  BY <1>1, <1>3 DEF Handle
<1>5. Hashes \subseteq Hashes'
  BY <1>4 DEF Hashes
<1>6. Both \subseteq Registration(Hashes', Len(registered'))
  <2>1. Seq(Hashes) \subseteq Seq(Hashes')
    BY <1>5, SeqMonotonic
  <2>2. Seq(1..L) \subseteq Seq(1..(L + 1))
    <3>1. 1..L \subseteq 1..(L + 1)
      BY <1>1
    <3> QED BY <3>1, SeqMonotonic
  <2>3. new \in Registration(Hashes, L)
    BY DEF Registration, Handle
  <2>4. Registration(Hashes, L) \subseteq Registration(Hashes', L + 1)
    BY <2>1, <2>2 DEF Registration, Hash
  <2> QED BY <2>3, <2>4, <1>3
<1>7. registered' \in Seq(Registration(Hashes', Len(registered')))
  BY <1>3, <1>6, SeqMonotonic
<1> QED BY <1>3, <1>4, <1>5, <1>7

(* Hashes of recipes that were there before stay what they were.            *)
LEMMA HashStays ==
    ASSUME TypeOK, NEW spec \in Spelled, Handle \subseteq Handle',
           \A h \in Handle : registered'[h] = registered[h]
    PROVE  HashOf(spec)' = HashOf(spec) /\ spec \in Spelled'
<1>1. spec.deps \in Seq(Handle) /\ \A i \in DOMAIN spec.deps : spec.deps[i] \in Handle
  BY HashTypes DEF Spelled
<1>2. spec.deps \in Seq(Handle')
  BY <1>1, SeqMonotonic
<1> QED BY <1>1, <1>2 DEF HashOf, Spelled

(* A recipe that is spelled out hashes to a hash over what is registered.   *)
LEMMA HashOfTypes ==
    ASSUME TypeOK, NEW spec \in Spelled
    PROVE  HashOf(spec) \in Hash(Hashes)
<1>1. spec.deps \in Seq(Handle)
  BY DEF Spelled
<1>2. [i \in DOMAIN spec.deps |-> registered[spec.deps[i]].dhash] \in Seq(Hashes)
  BY <1>1, HashTypes
<1> QED BY <1>2 DEF HashOf, Hash, Spelled

(* A new derivative: its dependencies were there, its hash was not.         *)
LEMMA NewKeeps ==
    ASSUME RegistryInv, NEW spec \in Spelled, NEW dtype \in {"STANDARD", "FETCH"},
           Known(HashOf(spec)) = {},
           Register(dtype, HashOf(spec), spec.deps),
           Hand(spec, Len(registered) + 1),
           UNCHANGED <<requested, outcome>>
    PROVE  RegistryInv'
<1> DEFINE L == Len(registered)
           hash == HashOf(spec)
<1>1. /\ TypeOK /\ L \in Nat /\ hash \in Hash(Hashes) /\ spec.deps \in Seq(Handle)
      /\ \A h \in Handle : registered[h] \in Registration(Hashes, L)
      /\ \A i \in DOMAIN spec.deps : spec.deps[i] \in Handle
  BY HashTypes, HashOfTypes DEF RegistryInv, Spelled
<1>2. /\ Len(registered') = L + 1
      /\ \A h \in Handle : registered'[h] = registered[h]
      /\ registered'[L + 1] = [dtype |-> dtype, dhash |-> hash, deps |-> spec.deps]
      /\ Handle' = Handle \cup {L + 1}
      /\ registered' \in Seq(Registration(Hashes', Len(registered')))
  BY <1>1, RegisterGrows
<1>3. TypeOK'
  <2>1. registered' \in Seq([dtype : {"STANDARD", "FETCH"},
                           dhash : [type : {"STANDARD", "FETCH"},
                                    of : Scripts \cup Files,
                                    deps : Seq({registered[h].dhash : h \in Handle})],
                           deps : Seq(Handle)])'
    BY <1>2 DEF Registration, Hash, Hashes, Handle
  <2>2. requested' \in Seq(Handle')
    BY <1>1, <1>2, SeqMonotonic DEF TypeOK
  <2>3. \A x \in handed' : x.handle \in Handle'
    BY <1>1, <1>2 DEF TypeOK, Hand
  <2> QED BY <1>1, <2>1, <2>2, <2>3 DEF TypeOK
<1>4. DepsOlder'
  <2>1. \A h \in Handle : h < L + 1
    BY <1>1 DEF Handle
  <2>2. ASSUME NEW h \in Handle', NEW i \in DOMAIN registered'[h].deps
        PROVE  registered'[h].deps[i] < h
    <3>1. CASE h \in Handle
      BY <1>2, <3>1 DEF RegistryInv, DepsOlder
    <3>2. CASE h = L + 1
      <4>1. registered'[h].deps = spec.deps
        BY <1>2, <3>2
      <4>2. spec.deps[i] \in Handle
        BY <1>1, <2>2, <4>1
      <4> QED BY <2>1, <3>2, <4>1, <4>2
    <3> QED BY <1>2, <3>1, <3>2
  <2> QED BY <2>2 DEF DepsOlder
<1>5. HashHoldsDeps'
  <2>1. ASSUME NEW h \in Handle', NEW i \in DOMAIN registered'[h].deps
        PROVE  registered'[h].dhash.deps[i] = registered'[registered'[h].deps[i]].dhash
    <3>1. CASE h \in Handle
      <4>1. registered[h].deps \in Seq(Handle)
        BY <1>1, <3>1 DEF Registration, Handle
      <4>2. registered[h].deps[i] \in Handle
        BY <1>1, <1>2, <2>1, <3>1, <4>1, HashTypes
      <4> QED BY <1>2, <2>1, <3>1, <4>2 DEF RegistryInv, HashHoldsDeps
    <3>2. CASE h = L + 1
      <4>1. registered'[h].deps = spec.deps /\ registered'[h].dhash = hash
        BY <1>2, <3>2
      <4>2. i \in DOMAIN spec.deps /\ spec.deps[i] \in Handle
        BY <1>1, <2>1, <4>1
      <4>3. hash.deps[i] = registered[spec.deps[i]].dhash
        BY <4>2 DEF HashOf
      <4> QED BY <1>2, <4>1, <4>2, <4>3
    <3> QED BY <1>2, <3>1, <3>2
  <2> QED BY <2>1 DEF HashHoldsDeps
<1>6. NoTwins'
  <2>1. \A h \in Handle : registered[h].dhash # hash
    BY DEF Known
  <2> QED BY <1>2, <2>1 DEF RegistryInv, NoTwins
<1>7. HandedRight'
  <2>1. Handle \subseteq Handle'
    BY <1>2
  <2>2. ASSUME NEW x \in handed
        PROVE  /\ x.handle \in Handle' /\ x.spec \in Spelled'
               /\ registered'[x.handle].dhash = HashOf(x.spec)'
    <3>1. x.handle \in Handle /\ x.spec \in Spelled /\ registered[x.handle].dhash = HashOf(x.spec)
      BY DEF RegistryInv, HandedRight
    <3> QED BY <1>1, <1>2, <2>1, <3>1, HashStays
  <2>3. spec \in Spelled' /\ HashOf(spec)' = hash
    BY <1>1, <1>2, <2>1, HashStays
  <2>4. handed' = handed \cup {[spec |-> spec, handle |-> L + 1]}
    BY DEF Hand
  <2> QED BY <1>2, <2>2, <2>3, <2>4 DEF HandedRight
<1>8. IsInjective(requested)'
  BY DEF RegistryInv, IsInjective
<1> QED BY <1>3, <1>4, <1>5, <1>6, <1>7, <1>8 DEF RegistryInv

(* A recipe that is known: the old pointer is handed out, or the program    *)
(* panics.                                                                  *)
LEMMA OldKeeps ==
    ASSUME RegistryInv, UNCHANGED <<registered, requested>>, outcome' \in Outcomes,
           \/ UNCHANGED handed
           \/ \E spec \in Spelled : \E h \in Known(HashOf(spec)) : Hand(spec, h)
    PROVE  RegistryInv'
<1>1. Handle' = Handle /\ Spelled' = Spelled /\ \A spec : HashOf(spec)' = HashOf(spec)
  BY DEF Handle, Spelled, HashOf
<1>2. ASSUME NEW x \in handed'
      PROVE  x.handle \in Handle /\ x.spec \in Spelled /\ registered[x.handle].dhash = HashOf(x.spec)
  BY DEF RegistryInv, HandedRight, Known, Hand
<1>3. TypeOK'
  BY <1>1, <1>2 DEF RegistryInv, TypeOK
<1>4. HandedRight'
  BY <1>1, <1>2 DEF HandedRight
<1> QED BY <1>1, <1>3, <1>4 DEF RegistryInv, DepsOlder, HashHoldsDeps, NoTwins, IsInjective

(* The common end of the two create functions.                              *)
LEMMA InternKeeps ==
    ASSUME RegistryInv, NEW spec \in Spelled, Intern("STANDARD", HashOf(spec), spec.deps, spec),
           UNCHANGED requested
    PROVE  RegistryInv'
<1>1. CASE /\ Known(HashOf(spec)) = {}
           /\ Register("STANDARD", HashOf(spec), spec.deps)
           /\ Hand(spec, Len(registered) + 1)
           /\ UNCHANGED outcome
  BY <1>1, NewKeeps
<1>2. CASE \E h \in Known(HashOf(spec)) :
              /\ UNCHANGED registered
              /\ \/ Hand(spec, h) /\ UNCHANGED outcome
                 \/ outcome' = "collision_panic" /\ UNCHANGED handed
  BY <1>2, OldKeeps DEF RegistryInv, TypeOK, Outcomes
<1> QED BY <1>1, <1>2 DEF Intern

(* d:request() adds to the end what is not there.                           *)
LEMMA RequestKeeps ==
    ASSUME RegistryInv, NEW h \in Handle, Request(h)
    PROVE  RegistryInv'
<1>1. UNCHANGED <<registered, handed, outcome>> /\ Handle' = Handle /\ Spelled' = Spelled
      /\ \A spec : HashOf(spec)' = HashOf(spec)
  BY DEF Request, Handle, Spelled, HashOf
<1>2. requested' \in Seq(Handle) /\ IsInjective(requested')
  <2>1. CASE Contains(requested, h)
    BY <2>1 DEF Request, RegistryInv, TypeOK
  <2>2. CASE ~Contains(requested, h)
    <3>1. requested \in Seq(Handle) /\ Len(requested) \in Nat /\ DOMAIN requested = 1..Len(requested)
      BY LenProperties DEF RegistryInv, TypeOK
    <3>2. /\ requested' \in Seq(Handle) /\ Len(requested') = Len(requested) + 1
          /\ \A i \in 1..Len(requested) : requested'[i] = requested[i]
          /\ requested'[Len(requested) + 1] = h
      BY <2>2, <3>1, AppendProperties DEF Request
    <3>3. DOMAIN requested' = 1..(Len(requested) + 1)
      BY <3>2, LenProperties
    <3>4. \A i \in 1..Len(requested) : requested[i] # h
      BY <2>2 DEF Contains
    <3> QED BY <3>1, <3>2, <3>3, <3>4 DEF RegistryInv, IsInjective
  <2> QED BY <2>1, <2>2
<1> QED BY <1>1, <1>2 DEF RegistryInv, TypeOK, DepsOlder, HashHoldsDeps, NoTwins, HandedRight

-----------------------------------------------------------------------------
LEMMA RegistryInit == Init => RegistryInv
<1> SUFFICES ASSUME Init PROVE RegistryInv
  OBVIOUS
<1>1. Handle = {} /\ handed = {} /\ requested = <<>> /\ registered = <<>>
  BY EmptySeq DEF Init, Handle
<1>2. TypeOK
  BY <1>1, EmptySeq DEF Init, TypeOK, Outcomes
<1> QED BY <1>1, <1>2 DEF RegistryInv, DepsOlder, HashHoldsDeps, NoTwins, HandedRight, IsInjective

LEMMA RegistryNext == RegistryInv /\ [Next]_vars => RegistryInv'
<1> SUFFICES ASSUME RegistryInv, [Next]_vars PROVE RegistryInv'
  OBVIOUS
<1>0. TypeOK
  BY DEF RegistryInv
<1>1. ASSUME NEW script \in Scripts, NEW deps \in BoundedSeq(Handle, MaxDeps),
             CreateStandard(script, deps)
      PROVE  RegistryInv'
  <2> DEFINE spec == [kind |-> "derivative", of |-> script, deps |-> deps]
  <2>1. spec \in Spelled
    BY <1>0, HashTypes DEF Spelled
  <2>2. StandardHash(script, deps) = HashOf(spec)
    BY DEF StandardHash, HashOf
  <2> QED BY <1>1, <2>1, <2>2, InternKeeps DEF CreateStandard
<1>2. ASSUME NEW file \in Files, CreateFetch(file)
      PROVE  RegistryInv'
  <2> DEFINE spec == [kind |-> "fetch", of |-> file, deps |-> <<>>]
  <2>1. spec \in Spelled
    BY EmptySeq DEF Spelled
  <2>2. FetchHash(file) = HashOf(spec)
    BY DEF FetchHash, HashOf
  <2>3. CASE file \in Malformed
    BY <1>2, <2>3, OldKeeps DEF CreateFetch, Outcomes
  <2>4. CASE file \notin Malformed
    BY <1>2, <2>1, <2>2, <2>4, InternKeeps DEF CreateFetch
  <2> QED BY <2>3, <2>4
<1>3. ASSUME NEW h \in Handle, Request(h)
      PROVE  RegistryInv'
  BY <1>3, RequestKeeps
<1>4. CASE ScriptEnds
  BY <1>4, OldKeeps DEF ScriptEnds, Outcomes
<1>5. CASE UNCHANGED vars
  BY <1>0, <1>5, OldKeeps DEF vars, TypeOK
<1> QED BY <1>1, <1>2, <1>3, <1>4, <1>5 DEF Next, Stopped

(* The inductive invariant holds of every script.                           *)
THEOREM RegistryInvariant == Spec => []RegistryInv
<1> QED BY RegistryInit, RegistryNext, PTL DEF Spec

(* A pointer stands for a recipe: what compares derivatives by pointer      *)
(* compares names, scripts, urls and dependencies, however many there are   *)
(* and however they were come by.                                           *)
THEOREM PointersAreRecipes == Spec => []HandleIsRecipe
<1>1. RegistryInv => HandleIsRecipe
  <2> SUFFICES ASSUME RegistryInv, NEW x \in handed, NEW y \in handed
               PROVE  x.handle = y.handle <=> x.spec = y.spec
    BY DEF HandleIsRecipe
  <2>1. /\ x.handle \in Handle /\ x.spec \in Spelled /\ registered[x.handle].dhash = HashOf(x.spec)
        /\ y.handle \in Handle /\ y.spec \in Spelled /\ registered[y.handle].dhash = HashOf(y.spec)
    BY DEF RegistryInv, HandedRight
  <2>2. ASSUME x.spec = y.spec PROVE x.handle = y.handle
    BY <2>1, <2>2 DEF RegistryInv, NoTwins
  <2>3. ASSUME x.handle = y.handle PROVE x.spec = y.spec
    <3>1. HashOf(x.spec) = HashOf(y.spec)
      BY <2>1, <2>3
    <3>2. x.spec.kind = y.spec.kind /\ x.spec.of = y.spec.of
      BY <2>1, <3>1 DEF HashOf, Spelled
    <3>3. x.spec.deps \in Seq(Handle) /\ y.spec.deps \in Seq(Handle)
      BY <2>1 DEF Spelled
    <3>4. /\ DOMAIN x.spec.deps = DOMAIN y.spec.deps
          /\ \A i \in DOMAIN x.spec.deps :
                registered[x.spec.deps[i]].dhash = registered[y.spec.deps[i]].dhash
      <4>1. HashOf(x.spec).deps = HashOf(y.spec).deps
        BY <3>1
      <4> DEFINE f == [i \in DOMAIN x.spec.deps |-> registered[x.spec.deps[i]].dhash]
                 g == [i \in DOMAIN y.spec.deps |-> registered[y.spec.deps[i]].dhash]
      <4>2. f = g
        BY <4>1 DEF HashOf
      <4>3. DOMAIN f = DOMAIN g
        BY <4>2
      <4>4. DOMAIN x.spec.deps = DOMAIN y.spec.deps
        BY <4>3
      <4>5. \A i \in DOMAIN x.spec.deps : f[i] = g[i]
        BY <4>2
      <4> QED BY <4>4, <4>5
    <3>5. \A i \in DOMAIN x.spec.deps : x.spec.deps[i] \in Handle /\ y.spec.deps[i] \in Handle
      BY <3>3, <3>4, HashTypes DEF RegistryInv
    <3>6. \A i \in DOMAIN x.spec.deps : x.spec.deps[i] = y.spec.deps[i]
      BY <3>4, <3>5 DEF RegistryInv, NoTwins
    <3>7. x.spec.deps = y.spec.deps
      <4>1. /\ DOMAIN x.spec.deps = 1..Len(x.spec.deps) /\ Len(x.spec.deps) \in Nat
            /\ DOMAIN y.spec.deps = 1..Len(y.spec.deps) /\ Len(y.spec.deps) \in Nat
        BY <3>3, LenProperties
      <4>2. Len(x.spec.deps) = Len(y.spec.deps)
        BY <3>4, <4>1, SameInterval
      <4> QED BY <3>3, <3>6, <4>1, <4>2, SeqEqual
    <3> QED BY <2>1, <3>2, <3>7 DEF Spelled
  <2> QED BY <2>2, <2>3
<1> QED BY <1>1, RegistryInvariant, PTL

(* What the planner needs: an acyclic graph, no request twice.              *)
THEOREM PlannerGetsItsInput == Spec => []PlannerInput
<1>1. RegistryInv => PlannerInput
  BY DEF RegistryInv, DepsOlder, PlannerInput
<1> QED BY <1>1, RegistryInvariant, PTL

(* The path of a derivative in the store pins its closure.                  *)
THEOREM PathsPinClosures == Spec => []PathPinsClosure
<1>1. RegistryInv => PathPinsClosure
  BY DEF RegistryInv, NoTwins, HashHoldsDeps, PathPinsClosure
<1> QED BY <1>1, RegistryInvariant, PTL

-----------------------------------------------------------------------------
(* A sequence loses or gets a last element.                                 *)
LEMMA FrontOfSeq ==
    ASSUME NEW S, NEW s \in Seq(S), s # <<>>
    PROVE  /\ Len(s) \in Nat /\ Len(s) >= 1
           /\ SubSeq(s, 1, Len(s) - 1) \in Seq(S)
           /\ Len(SubSeq(s, 1, Len(s) - 1)) = Len(s) - 1
           /\ \A k \in 1..(Len(s) - 1) : SubSeq(s, 1, Len(s) - 1)[k] = s[k]
<1>1. Len(s) \in Nat /\ Len(s) >= 1
  BY EmptySeq, LenProperties
<1>2. \A k \in 1..(Len(s) - 1) : s[k] \in S
  BY <1>1, ElementOfSeq
<1> DEFINE m == Len(s) - 1
           f == SubSeq(s, 1, m)
<1>3. m \in Nat /\ m \in Int /\ 1 \in Int
  BY <1>1
<1>4. /\ f \in Seq(S)
      /\ Len(f) = IF 1 <= m THEN m - 1 + 1 ELSE 0
      /\ \A k \in 1..(m - 1 + 1) : f[k] = s[1 + k - 1]
  <2> HIDE DEF m
  <2> QED BY <1>2, <1>3, SubSeqProperties DEF m
<1>5. Len(f) = m
  <2> HIDE DEF f, m
  <2> QED BY <1>3, <1>4
<1>6. ASSUME NEW k \in 1..m
      PROVE  f[k] = s[k]
  <2>1. k \in 1..(m - 1 + 1) /\ 1 + k - 1 = k
    <3> HIDE DEF m
    <3> QED BY <1>3
  <2>2. f[k] = s[1 + k - 1]
    BY <1>4, <2>1
  <2> QED BY <2>1, <2>2
<1> QED BY <1>1, <1>4, <1>5, <1>6

(* A last element is put in the place of another.                           *)
LEMMA LastReplaced ==
    ASSUME NEW S, NEW s \in Seq(S), s # <<>>, NEW e \in S
    PROVE  /\ Append(Front(s), e) \in Seq(S)
           /\ Len(Append(Front(s), e)) = Len(s)
           /\ \A k \in 1..(Len(s) - 1) : Append(Front(s), e)[k] = s[k]
           /\ Append(Front(s), e)[Len(s)] = e
<1> DEFINE f == Front(s)
<1>1. /\ Len(s) \in Nat /\ Len(s) >= 1
      /\ f \in Seq(S) /\ Len(f) = Len(s) - 1
      /\ \A k \in 1..(Len(s) - 1) : f[k] = s[k]
  BY FrontOfSeq DEF Front
<1>2. /\ Append(f, e) \in Seq(S)
      /\ Len(Append(f, e)) = Len(f) + 1
      /\ \A k \in 1..Len(f) : Append(f, e)[k] = f[k]
      /\ Append(f, e)[Len(f) + 1] = e
  BY <1>1, AppendProperties
<1> HIDE DEF f
<1>3. Len(f) + 1 = Len(s) /\ 1..Len(f) = 1..(Len(s) - 1)
  BY <1>1
<1>4. /\ Append(f, e) \in Seq(S)
      /\ Len(Append(f, e)) = Len(s)
      /\ \A k \in 1..(Len(s) - 1) : Append(f, e)[k] = s[k]
      /\ Append(f, e)[Len(s)] = e
  BY <1>1, <1>2, <1>3
<1> QED BY <1>4 DEF f

-----------------------------------------------------------------------------
(* The cache of git libraries.  Only an absent directory is made and only   *)
(* an unfinished one is fetched into, which needs that a process that       *)
(* fetches has made its directory.                                          *)
Fetched(p) == at[p] \in {"fetch", "failed"} => dir[entry[p]] # "absent"

CacheInv == Cache!TypeOK /\ \A p \in Proc : Fetched(p)

LEMMA CacheInit == LeavesInit => CacheInv
<1>1. Cache!Init => CacheInv
  BY CacheBounds DEF Cache!Init, CacheInv, Fetched, Cache!TypeOK, Cache!DirStates
<1>2. CacheRests => CacheInv
  BY CacheBounds DEF CacheRests, CacheInv, Fetched, Cache!TypeOK, Cache!DirStates
<1> QED BY <1>1, <1>2 DEF LeavesInit

\* A return hands out a directory that is there.
LEMMA CacheReturn ==
    ASSUME CacheInv, NEW p \in Proc, dir[entry[p]] # "absent",
           Cache!Return(p), UNCHANGED <<dir, entry, uses, faults>>
    PROVE  CacheInv'
<1>1. <<entry[p], dir[entry[p]]>> \in Entry \X (Cache!DirStates \ {"absent"})
  BY DEF CacheInv, Cache!TypeOK
<1>2. Cache!TypeOK'
  BY <1>1 DEF CacheInv, Cache!TypeOK, Cache!Return, Cache!Goto
<1>3. \A q \in Proc : Fetched(q)'
  BY DEF CacheInv, Cache!TypeOK, Fetched, Cache!Return, Cache!Goto
<1> QED BY <1>2, <1>3 DEF CacheInv

LEMMA CacheNext ==
    ASSUME CacheInv, Cache!Next
    PROVE  CacheInv'
<1> USE DEF Cache!Goto, Cache!Fault
<1>1. ASSUME NEW p \in Proc, NEW e \in Entry, Cache!Resolve(p, e)
      PROVE  CacheInv'
  <2>1. uses[p] + 1 \in 0..MaxUses
    BY <1>1, CacheBounds DEF CacheInv, Cache!TypeOK, Cache!Resolve
  <2>2. Cache!TypeOK'
    BY <1>1, <2>1 DEF CacheInv, Cache!TypeOK, Cache!Resolve
  <2>3. \A q \in Proc : Fetched(q)'
    BY <1>1 DEF CacheInv, Cache!TypeOK, Fetched, Cache!Resolve
  <2> QED BY <2>2, <2>3 DEF CacheInv
<1>2. ASSUME NEW p \in Proc, Cache!ExistsDir(p)
      PROVE  CacheInv'
  <2>1. CASE dir[entry[p]] # "absent"
    BY <1>2, <2>1, CacheReturn DEF Cache!ExistsDir
  <2>2. CASE dir[entry[p]] = "absent"
    BY <1>2, <2>2 DEF CacheInv, Cache!TypeOK, Fetched, Cache!ExistsDir
  <2> QED BY <2>1, <2>2
<1>3. ASSUME NEW p \in Proc, Cache!Make(p)
      PROVE  CacheInv'
  <2>1. faults' \in 0..MaxFaults
    BY <1>3, CacheBounds DEF CacheInv, Cache!TypeOK, Cache!Make
  <2>2. Cache!TypeOK'
    BY <1>3, <2>1 DEF CacheInv, Cache!TypeOK, Cache!Make, Cache!DirStates
  <2>3. \A q \in Proc : Fetched(q)'
    BY <1>3 DEF CacheInv, Cache!TypeOK, Fetched, Cache!Make
  <2> QED BY <2>2, <2>3 DEF CacheInv
<1>4. ASSUME NEW p \in Proc, Cache!Fetch(p)
      PROVE  CacheInv'
  <2> DEFINE e == entry[p]
  <2>1. e \in Entry /\ dir[e] \in Cache!DirStates /\ dir[e] # "absent"
    BY <1>4 DEF CacheInv, Cache!TypeOK, Fetched, Cache!Fetch
  <2>2. CASE dir[e] = "complete"
    BY <1>4, <2>1, <2>2, CacheReturn DEF Cache!Fetch
  <2>3. CASE dir[e] # "complete"
    <3>1. Cache!NextState[dir[e]] \in Cache!DirStates \ {"absent"}
      BY <2>1, <2>3 DEF Cache!NextState, Cache!DirStates
    <3>2. faults' \in 0..MaxFaults
      BY <1>4, <2>3, CacheBounds DEF CacheInv, Cache!TypeOK, Cache!Fetch
    <3>3. Cache!TypeOK'
      BY <1>4, <2>3, <3>1, <3>2 DEF CacheInv, Cache!TypeOK, Cache!Fetch
    <3>4. \A q \in Proc : Fetched(q)'
      BY <1>4, <2>3, <3>1 DEF CacheInv, Cache!TypeOK, Fetched, Cache!Fetch
    <3> QED BY <3>3, <3>4 DEF CacheInv
  <2> QED BY <2>2, <2>3
<1>5. ASSUME NEW p \in Proc, Cache!Cleanup(p)
      PROVE  CacheInv'
  BY <1>5 DEF CacheInv, Cache!TypeOK, Fetched, Cache!Cleanup
<1>6. CASE UNCHANGED Cache!vars
  BY <1>6 DEF CacheInv, Cache!TypeOK, Fetched, Cache!vars
<1> QED BY <1>1, <1>2, <1>3, <1>4, <1>5, <1>6 DEF Cache!Next, Cache!Work

(* The cache holds together whatever the invocations do: a process that     *)
(* fetches or cleans up has a directory, and nothing absent is handed out   *)
(* (git_commit(), git_tag()).                                               *)
THEOREM CacheInvariant == LeavesSpec => []CacheInv
<1>1. ASSUME CacheInv, [LeavesNext]_leafVars
      PROVE  CacheInv'
  <2>1. CASE CacheStep
    BY <1>1, <2>1, CacheNext DEF CacheStep
  <2>2. CASE UNCHANGED cacheVars
    BY <1>1, <2>2 DEF CacheInv, Cache!TypeOK, Fetched, cacheVars
  <2> QED BY <1>1, <2>1, <2>2
        DEF LeavesNext, leafVars, RegistryStep, ReaderStep, EnvStep, DiagramStep
<1> QED BY CacheInit, <1>1, PTL DEF LeavesSpec

(* A library that is complete stays so, whoever resolves it again and       *)
(* whatever fails (git_commit(), git_tag()).                                *)
THEOREM CompleteStaysComplete == LeavesSpec => CompleteForGood
<1>1. ASSUME CacheInv, Cache!Next, NEW e \in Entry, dir[e] = "complete"
      PROVE  dir'[e] = "complete"
  <2>1. ASSUME NEW p \in Proc, Cache!Work(p)
        PROVE  dir'[e] = "complete"
    <3>1. CASE Cache!Make(p)
      BY <1>1, <3>1 DEF Cache!Make, CacheInv, Cache!TypeOK
    <3>2. CASE Cache!Fetch(p)
      BY <1>1, <3>2 DEF Cache!Fetch, CacheInv, Cache!TypeOK
    <3> QED BY <1>1, <2>1, <3>1, <3>2
          DEF Cache!Work, Cache!Resolve, Cache!ExistsDir, Cache!Cleanup
  <2> QED BY <1>1, <2>1 DEF Cache!Next, Cache!vars
<1>2. ASSUME CacheInv, [LeavesNext]_leafVars
      PROVE  [\A e \in Entry : dir[e] = "complete" => dir'[e] = "complete"]_(Cache!vars)
  <2>1. CASE CacheStep
    BY <1>1, <1>2, <2>1 DEF CacheStep
  <2>2. CASE UNCHANGED cacheVars
    BY <2>2 DEF cacheVars, Cache!vars
  <2> QED BY <1>2, <2>1, <2>2
        DEF LeavesNext, leafVars, RegistryStep, ReaderStep, EnvStep, DiagramStep
<1> QED BY CacheInvariant, <1>2, PTL DEF LeavesSpec, CompleteForGood, Cache!CompleteForGood
-----------------------------------------------------------------------------
(* The recipe reader.  What the recursion keeps, of a stack s while the      *)
(* recipes K are registered: each frame has looked up a part of its          *)
(* dependencies, with 0 for those that were read from a file; all but the    *)
(* innermost wait for the recipe of the next frame.  Recipes get smaller     *)
(* from frame to frame as long as the files hold what they are named after.  *)
DepsAt(h) == needs[recipes[h].holds]

LookedUp(f, K) ==
    /\ Len(f.deps) <= Len(DepsAt(f.of))
    /\ \A i \in 1..Len(f.deps) :
          f.deps[i] = 0 \/ (f.deps[i] = DepsAt(f.of)[i] /\ f.deps[i] \in K)

WaitsFor(f, g) ==
    /\ Len(f.deps) < Len(DepsAt(f.of))
    /\ g.of = DepsAt(f.of)[Len(f.deps) + 1]

(* The recipes S are well named, and enough for the wanted one.             *)
Enough(S) ==
    /\ wanted \in S
    /\ \A h \in S : /\ recipes[h].holds = h
                    /\ \A d \in Reader!DepSet(h) : d \in S \/ d \in before

Descends(s, S) ==
    /\ \A k \in 1..Len(s) : s[k].of \in S
    /\ \A i, j \in 1..Len(s) : i < j => s[j].of < s[i].of

StackRight(s, K) ==
    /\ s \in Seq(Reader!Frame)
    /\ \A k \in 1..Len(s) : LookedUp(s[k], K)
    /\ \A k \in 1..(Len(s) - 1) : WaitsFor(s[k], s[k+1])
    /\ s # <<>> => s[1].of = wanted
    /\ \A S \in SUBSET Reader!Recipe : Enough(S) => Descends(s, S)

RecipesRight == /\ needs \in Reader!Graph /\ Reader!Acyclic(needs)
                /\ recipes \in [Reader!Recipe -> Reader!File]

ReaderInv ==
    /\ RecipesRight
    /\ before \subseteq known /\ known \subseteq Reader!Recipe
    /\ Len(reading) <= MaxOpen
    /\ array \in [Reader!Recipe -> Reader!Arrays]
    /\ wanted \in Reader!Recipe
    /\ result \in Reader!Outcomes
    /\ StackRight(reading, known)
    /\ Reader!RegisteredClosed
    /\ Reader!GivesUpForAReason

\* Dependencies are recipes with smaller numbers than what the file holds.
LEMMA DepsOfRecipe ==
    ASSUME RecipesRight, NEW h \in Reader!Recipe
    PROVE  /\ recipes[h].holds \in 0..N
           /\ DepsAt(h) \in Seq(Reader!Recipe)
           /\ \A i \in 1..Len(DepsAt(h)) :
                 DepsAt(h)[i] \in Reader!DepSet(recipes[h].holds)
           /\ \A d \in Reader!DepSet(recipes[h].holds) :
                 d \in Reader!Recipe /\ d < recipes[h].holds
           /\ \A d \in Reader!DepSet(recipes[h].holds) :
                 \E i \in 1..Len(DepsAt(h)) : d = DepsAt(h)[i]
<1>1. ASSUME NEW q \in BoundedSeq(Reader!Recipe, MaxDeps)
      PROVE  q \in Seq(Reader!Recipe)
  <2>1. PICK m \in 0..MaxDeps : q \in [1..m -> Reader!Recipe]
    BY <1>1 DEF BoundedSeq, SeqOf
  <2>2. m \in Nat
    BY <2>1, RegistryBounds
  <2> QED BY <2>1, <2>2
<1>2. recipes[h].holds \in 0..N
  <2>1. recipes[h] \in Reader!File
    BY DEF RecipesRight
  <2>2. recipes[h].holds \in Reader!Recipe \/ recipes[h].holds = 0
    BY <2>1 DEF Reader!File
  <2> QED BY <2>2, ReaderBounds DEF Reader!Recipe
<1>3. DepsAt(h) \in Seq(Reader!Recipe)
  <2>1. needs \in [0..N -> BoundedSeq(Reader!Recipe, MaxDeps)]
    BY DEF RecipesRight, Reader!Graph, Reader!BoundedSeq, Reader!SeqOf, BoundedSeq, SeqOf
  <2> QED BY <1>1, <1>2, <2>1 DEF DepsAt
<1>4. DOMAIN DepsAt(h) = 1..Len(DepsAt(h))
  BY <1>3
<1>5. Reader!DepSet(recipes[h].holds) = {DepsAt(h)[i] : i \in 1..Len(DepsAt(h))}
  BY <1>4 DEF Reader!DepSet, Reader!ToSet, DepsAt
<1>6. ASSUME NEW i \in 1..Len(DepsAt(h))
      PROVE  DepsAt(h)[i] \in Reader!Recipe /\ DepsAt(h)[i] < recipes[h].holds
  BY <1>2, <1>3, <1>4 DEF RecipesRight, Reader!Acyclic, DepsAt
<1> QED BY <1>2, <1>3, <1>5, <1>6

\* A call for a recipe that the innermost frame, or derivative_read_recipe(),
\* looks up in a file.
LEMMA CallKeepsStack ==
    ASSUME RecipesRight, NEW s, NEW K, StackRight(s, K), NEW h \in Reader!Recipe,
           before \subseteq K, s # <<>> => h \notin K,
           s = <<>> => h = wanted,
           s # <<>> => WaitsFor(s[Len(s)], [of |-> h, deps |-> <<>>])
    PROVE  StackRight(Append(s, [of |-> h, deps |-> <<>>]), K)
<1> DEFINE g == [of |-> h, deps |-> <<>>]
           t == Append(s, g)
<1>1. g \in Reader!Frame /\ g.of = h /\ g.deps = <<>> /\ Len(g.deps) = 0
  <2>1. <<>> \in Seq(0..N)
    OBVIOUS
  <2> QED BY <2>1 DEF Reader!Frame
<1>2. s \in Seq(Reader!Frame) /\ Len(s) \in Nat
  BY DEF StackRight
<1> HIDE DEF g
<1>3. /\ t \in Seq(Reader!Frame)
      /\ Len(t) = Len(s) + 1
      /\ \A k \in 1..Len(s) : t[k] = s[k]
      /\ t[Len(s) + 1] = g
  BY <1>1, <1>2, AppendProperties
<1>4. s = <<>> <=> Len(s) = 0
  BY <1>2, EmptySeq
<1> HIDE DEF t
<1>5. LookedUp(g, K)
  BY <1>1, DepsOfRecipe DEF LookedUp
<1>6. \A k \in 1..Len(t) : LookedUp(t[k], K)
  BY <1>2, <1>3, <1>5 DEF StackRight
<1>7. ASSUME NEW k \in 1..(Len(t) - 1)
      PROVE  WaitsFor(t[k], t[k+1])
  <2>1. CASE k < Len(s)
    BY <1>2, <1>3, <2>1 DEF StackRight
  <2>2. CASE k = Len(s)
    <3>1. s # <<>> /\ t[k] = s[Len(s)] /\ t[k+1] = g
      BY <1>2, <1>3, <1>4, <1>7, <2>2
    <3> QED BY <3>1 DEF g
  <2> QED BY <1>2, <1>3, <1>7, <2>1, <2>2
<1>8. t[1].of = wanted
  <2>1. CASE s = <<>>
    BY <1>1, <1>3, <1>4, <2>1
  <2>2. CASE s # <<>>
    BY <1>2, <1>3, <1>4, <2>2 DEF StackRight
  <2> QED BY <2>1, <2>2
<1>9. ASSUME s # <<>>
      PROVE  /\ s[Len(s)].of \in Reader!Recipe
             /\ h \in Reader!DepSet(recipes[s[Len(s)].of].holds)
             /\ h < recipes[s[Len(s)].of].holds /\ h \notin before
  <2>1. s[Len(s)] \in Reader!Frame
    BY <1>2, <1>4, <1>9
  <2>2. s[Len(s)].of \in Reader!Recipe /\ Len(s[Len(s)].deps) \in Nat
    BY <2>1 DEF Reader!Frame
  <2>3. WaitsFor(s[Len(s)], g)
    BY <1>9 DEF g
  <2>4. DepsAt(s[Len(s)].of) \in Seq(Reader!Recipe)
    BY <2>2, DepsOfRecipe
  <2>5. Len(s[Len(s)].deps) + 1 \in 1..Len(DepsAt(s[Len(s)].of))
    <3>1. Len(DepsAt(s[Len(s)].of)) \in Nat
      BY <2>4
    <3>2. Len(s[Len(s)].deps) < Len(DepsAt(s[Len(s)].of))
      BY <2>3 DEF WaitsFor
    <3> QED BY <2>2, <3>1, <3>2
  <2>6. h \notin before
    BY <1>9
  <2> QED BY <1>1, <2>2, <2>3, <2>5, <2>6, DepsOfRecipe DEF WaitsFor
<1>10. ASSUME NEW S \in SUBSET Reader!Recipe, Enough(S), s # <<>>
       PROVE  h \in S /\ s[Len(s)].of \in S /\ h < s[Len(s)].of
  <2>1. Len(s) \in 1..Len(s)
    BY <1>2, <1>4, <1>10
  <2>2. s[Len(s)].of \in S
    BY <1>10, <2>1 DEF StackRight, Descends
  <2> QED BY <1>9, <1>10, <2>2 DEF Enough
<1>11. ASSUME NEW S \in SUBSET Reader!Recipe, Enough(S)
       PROVE  Descends(t, S)
  <2>1. ASSUME NEW k \in 1..Len(t)
        PROVE  t[k].of \in S
    <3>1. CASE k <= Len(s)
      BY <1>2, <1>3, <1>11, <2>1, <3>1 DEF StackRight, Descends
    <3>2. CASE k = Len(s) + 1 /\ s = <<>>
      BY <1>1, <1>3, <1>11, <3>2 DEF Enough
    <3>3. CASE k = Len(s) + 1 /\ s # <<>>
      BY <1>1, <1>3, <1>10, <1>11, <3>3
    <3> QED BY <1>2, <1>3, <2>1, <3>1, <3>2, <3>3
  <2>2. ASSUME NEW i \in 1..Len(t), NEW j \in 1..Len(t), i < j
        PROVE  t[j].of < t[i].of
    <3>1. CASE j <= Len(s)
      <4>1. /\ i \in 1..Len(s) /\ j \in 1..Len(s) /\ t[i] = s[i] /\ t[j] = s[j]
        BY <1>2, <1>3, <2>2, <3>1
      <4>2. Descends(s, S)
        BY <1>11 DEF StackRight
      <4> QED BY <2>2, <4>1, <4>2 DEF Descends
    <3>2. CASE j = Len(s) + 1
      <4>1. /\ s # <<>> /\ i \in 1..Len(s) /\ Len(s) \in 1..Len(s)
            /\ t[i] = s[i] /\ t[j].of = h
        BY <1>1, <1>2, <1>3, <1>4, <2>2, <3>2
      <4>2. i = Len(s) \/ s[Len(s)].of < s[i].of
        BY <1>2, <1>11, <4>1 DEF StackRight, Descends
      <4>3. s[i].of \in Nat /\ s[Len(s)].of \in Nat /\ h \in Nat
        <5>1. s[i] \in Reader!Frame /\ s[Len(s)] \in Reader!Frame
          BY <1>2, <4>1, ElementOfSeq
        <5>2. s[i].of \in Reader!Recipe /\ s[Len(s)].of \in Reader!Recipe
          BY <5>1 DEF Reader!Frame
        <5>3. \A q \in Reader!Recipe : q \in Nat
          BY ReaderBounds DEF Reader!Recipe
        <5> QED BY <5>2, <5>3
      <4>4. h < s[Len(s)].of
        BY <1>10, <1>11, <4>1
      <4> QED BY <4>1, <4>2, <4>3, <4>4
    <3> QED BY <1>2, <1>3, <2>2, <3>1, <3>2
  <2> QED BY <2>1, <2>2 DEF Descends
<1>12. StackRight(t, K)
  BY <1>3, <1>6, <1>7, <1>8, <1>11 DEF StackRight
<1> QED BY <1>12 DEF t, g

\* The innermost frame notes what became of the dependency it has looked up.
LEMMA NoteKeepsStack ==
    ASSUME RecipesRight, NEW s, NEW K, StackRight(s, K), s # <<>>, NEW d,
           Len(s[Len(s)].deps) < Len(DepsAt(s[Len(s)].of)),
           \/ d = 0
           \/ d = DepsAt(s[Len(s)].of)[Len(s[Len(s)].deps) + 1] /\ d \in K
    PROVE  LET t == Append(Front(s), [Last(s) EXCEPT !.deps = Append(@, d)])
           IN  StackRight(t, K) /\ Len(t) = Len(s)
<1> DEFINE f == s[Len(s)]
           g == [of |-> f.of, deps |-> Append(f.deps, d)]
           t == Append(Front(s), g)
<1>1. /\ s \in Seq(Reader!Frame) /\ Len(s) \in Nat /\ Len(s) >= 1
      /\ Len(s) \in 1..Len(s) /\ f \in Reader!Frame
  <2>1. s \in Seq(Reader!Frame)
    BY DEF StackRight
  <2>2. Len(s) \in Nat /\ Len(s) >= 1
    BY <2>1, EmptySeq
  <2> QED BY <2>1, <2>2
<1>2. f.of \in Reader!Recipe /\ f.deps \in Seq(0..N) /\ Len(f.deps) \in Nat
  BY <1>1 DEF Reader!Frame
<1>3. d \in 0..N
  <2>1. DepsAt(f.of) \in Seq(Reader!Recipe)
    BY <1>2, DepsOfRecipe
  <2>2. Len(f.deps) + 1 \in 1..Len(DepsAt(f.of))
    BY <1>2, <2>1
  <2>3. DepsAt(f.of)[Len(f.deps) + 1] \in Reader!Recipe
    BY <2>1, <2>2
  <2> QED BY <2>3, ReaderBounds DEF Reader!Recipe
<1>4. /\ Append(f.deps, d) \in Seq(0..N)
      /\ Len(Append(f.deps, d)) = Len(f.deps) + 1
      /\ \A i \in 1..Len(f.deps) : Append(f.deps, d)[i] = f.deps[i]
      /\ Append(f.deps, d)[Len(f.deps) + 1] = d
  BY <1>2, <1>3, AppendProperties
<1>5. /\ g \in Reader!Frame /\ g.of = f.of
      /\ g.deps = Append(f.deps, d)
      /\ g = [Last(s) EXCEPT !.deps = Append(@, d)]
  <2>1. Last(s) = f /\ f = [of |-> f.of, deps |-> f.deps]
    BY <1>1 DEF Last, Reader!Frame
  <2>2. g = [Last(s) EXCEPT !.deps = Append(@, d)]
    <3> DEFINE e == Append(f.deps, d)
    <3> HIDE DEF f, e
    <3>1. [[of |-> f.of, deps |-> f.deps] EXCEPT !.deps = e] = [of |-> f.of, deps |-> e]
      OBVIOUS
    <3>2. [Last(s) EXCEPT !.deps = e] = [of |-> f.of, deps |-> e]
      BY <2>1, <3>1
    <3> QED BY <2>1, <3>2 DEF e
  <2> QED BY <1>2, <1>4, <2>2 DEF Reader!Frame
<1>6. LookedUp(f, K)
  BY <1>1 DEF StackRight
<1> HIDE DEF f
<1>7. LookedUp(g, K)
  <2>1. Len(g.deps) <= Len(DepsAt(g.of))
    BY <1>2, <1>4, <1>5, DepsOfRecipe DEF f
  <2>2. ASSUME NEW i \in 1..Len(g.deps)
        PROVE  g.deps[i] = 0 \/ (g.deps[i] = DepsAt(g.of)[i] /\ g.deps[i] \in K)
    <3>1. CASE i <= Len(f.deps)
      BY <1>2, <1>4, <1>5, <1>6, <2>2, <3>1 DEF LookedUp
    <3>2. CASE i = Len(f.deps) + 1
      BY <1>4, <1>5, <3>2 DEF f
    <3> QED BY <1>2, <1>4, <1>5, <2>2, <3>1, <3>2
  <2> QED BY <2>1, <2>2 DEF LookedUp
<1> HIDE DEF g
<1>8. /\ t \in Seq(Reader!Frame)
      /\ Len(t) = Len(s)
      /\ \A k \in 1..(Len(s) - 1) : t[k] = s[k]
      /\ t[Len(s)] = g
  BY <1>1, <1>5, LastReplaced
<1> HIDE DEF t
<1>9. \A k \in 1..Len(s) : t[k].of = s[k].of
  <2>1. ASSUME NEW k \in 1..Len(s)
        PROVE  k = Len(s) \/ k \in 1..(Len(s) - 1)
    BY <1>1
  <2>2. g.of = s[Len(s)].of
    BY <1>5 DEF f
  <2> QED BY <1>8, <2>1, <2>2
<1>10. \A k \in 1..Len(t) : LookedUp(t[k], K)
  BY <1>1, <1>7, <1>8 DEF StackRight
<1>11. ASSUME NEW k \in 1..(Len(t) - 1)
       PROVE  WaitsFor(t[k], t[k+1])
  <2>1. WaitsFor(s[k], s[k+1]) /\ t[k] = s[k] /\ t[k+1].of = s[k+1].of
    BY <1>1, <1>8, <1>9 DEF StackRight
  <2> QED BY <2>1 DEF WaitsFor
<1>12. t[1].of = wanted
  BY <1>1, <1>9 DEF StackRight
<1>13. \A S \in SUBSET Reader!Recipe : Enough(S) => Descends(t, S)
  BY <1>8, <1>9 DEF StackRight, Descends
<1>14. StackRight(t, K)
  BY <1>8, <1>10, <1>11, <1>12, <1>13 DEF StackRight
<1> QED BY <1>5, <1>8, <1>14 DEF t

\* The innermost frame returns; recipes are not unregistered.
LEMMA ReturnKeepsStack ==
    ASSUME RecipesRight, NEW s, NEW K, NEW M, StackRight(s, K), s # <<>>, K \subseteq M
    PROVE  StackRight(Front(s), M)
<1> DEFINE t == Front(s)
<1>1. /\ s \in Seq(Reader!Frame) /\ Len(s) \in Nat /\ Len(s) >= 1
      /\ t \in Seq(Reader!Frame) /\ Len(t) = Len(s) - 1
      /\ \A k \in 1..(Len(s) - 1) : t[k] = s[k]
  <2>1. s \in Seq(Reader!Frame)
    BY DEF StackRight
  <2> QED BY <2>1, FrontOfSeq DEF Front
<1>2. /\ \A k \in 1..Len(t) : k \in 1..Len(s) /\ t[k] = s[k] /\ k < Len(s)
      /\ Len(t) \in Nat /\ Len(s) \in 1..Len(s)
  BY <1>1
<1> HIDE DEF t
<1>3. \A k \in 1..Len(t) : LookedUp(t[k], M)
  BY <1>2 DEF StackRight, LookedUp
<1>4. ASSUME NEW k \in 1..(Len(t) - 1)
      PROVE  WaitsFor(t[k], t[k+1])
  <2>1. k \in 1..Len(t) /\ k + 1 \in 1..Len(t) /\ k \in 1..(Len(s) - 1)
    BY <1>1, <1>2
  <2> QED BY <1>2, <2>1 DEF StackRight
<1>5. ASSUME t # <<>>
      PROVE  t[1].of = wanted
  <2>1. 1 \in 1..Len(t)
    BY <1>1, <1>2, <1>5, EmptySeq
  <2> QED BY <1>1, <1>2, <2>1 DEF StackRight
<1>6. \A S \in SUBSET Reader!Recipe : Enough(S) => Descends(t, S)
  BY <1>2 DEF StackRight, Descends
<1>7. StackRight(t, M)
  BY <1>1, <1>3, <1>4, <1>5, <1>6 DEF StackRight
<1> QED BY <1>7 DEF t

\* Frames of different recipes of S are not more than S has.
LEMMA DepthBounded ==
    ASSUME NEW s \in Seq(Reader!Frame), NEW S \in SUBSET Reader!Recipe, Descends(s, S)
    PROVE  Len(s) <= Cardinality(S)
<1> DEFINE f == [k \in 1..Len(s) |-> s[k].of]
<1>1. IsFiniteSet(S) /\ Cardinality(S) \in Nat
  <2>1. IsFiniteSet(Reader!Recipe)
    BY ReaderBounds, FS_Interval DEF Reader!Recipe
  <2> QED BY <2>1, FS_Subset, FS_CardinalityType
<1>2. IsFiniteSet(1..Len(s)) /\ Cardinality(1..Len(s)) = Len(s) /\ Len(s) \in Nat
  <2>1. Len(s) \in Nat
    BY LenProperties
  <2>2. 1 \in Int /\ Len(s) \in Int
    BY <2>1
  <2>3. IsFiniteSet(1..Len(s)) /\
        Cardinality(1..Len(s)) = IF 1 > Len(s) THEN 0 ELSE Len(s) - 1 + 1
    BY <2>2, FS_Interval
  <2>4. (IF 1 > Len(s) THEN 0 ELSE Len(s) - 1 + 1) = Len(s)
    BY <2>1
  <2> QED BY <2>1, <2>3, <2>4
<1>3. f \in [1..Len(s) -> S]
  BY DEF Descends
<1>4. ASSUME NEW i \in 1..Len(s), NEW j \in 1..Len(s), i # j
      PROVE  f[i] # f[j]
  <2>1. \A k \in 1..Len(s) : s[k].of \in Nat
    <3>1. \A x \in S : x \in Nat
      BY ReaderBounds DEF Reader!Recipe
    <3> QED BY <3>1 DEF Descends
  <2>2. s[i].of # s[j].of
    BY <1>2, <1>4, <2>1 DEF Descends
  <2> QED BY <2>2
<1> HIDE DEF f
<1>5. ~(Cardinality(S) < Cardinality(1..Len(s)))
  BY <1>1, <1>2, <1>3, <1>4, FS_PigeonHole
<1> QED BY <1>1, <1>2, <1>5

\* Nothing is being read.
LEMMA EmptyStackRight == \A K : StackRight(<<>>, K)
<1>1. <<>> \in Seq(Reader!Frame) /\ Len(<<>>) = 0
  OBVIOUS
<1>2. \A K : \A k \in 1..0 : LookedUp(<<>>[k], K)
  OBVIOUS
<1>3. 1..0 = {} /\ 1..(0 - 1) = {}
  OBVIOUS
<1> QED BY <1>1, <1>3 DEF StackRight, Descends

LEMMA ReaderInit == LeavesInit => ReaderInv
<1>1. ASSUME Reader!Init
      PROVE  ReaderInv
  <2>1. RecipesRight
    BY <1>1 DEF Reader!Init, RecipesRight
  <2>2. /\ before \subseteq known /\ known \subseteq Reader!Recipe
        /\ Reader!RegisteredClosed /\ Len(reading) <= MaxOpen
    BY <1>1, ReaderBounds DEF Reader!Init, Reader!RegisteredClosed
  <2>3. array \in [Reader!Recipe -> Reader!Arrays]
    BY <1>1 DEF Reader!Init, Reader!Arrays
  <2>4. /\ wanted \in Reader!Recipe /\ result \in Reader!Outcomes
        /\ Reader!GivesUpForAReason
    BY <1>1 DEF Reader!Init, Reader!Outcomes, Reader!GivesUpForAReason
  <2>5. StackRight(reading, known)
    BY <1>1, EmptyStackRight DEF Reader!Init
  <2> QED BY <2>1, <2>2, <2>3, <2>4, <2>5 DEF ReaderInv
<1>2. ASSUME ReaderRests
      PROVE  ReaderInv
  <2> DEFINE B == Reader!BoundedSeq(Reader!Recipe, MaxDeps)
  <2>1. <<>> \in B
    <3>1. 0 \in 0..MaxDeps /\ <<>> \in [1..0 -> Reader!Recipe]
      BY RegistryBounds
    <3> QED BY <3>1 DEF Reader!BoundedSeq, Reader!SeqOf
  <2> HIDE DEF B
  <2>2. needs \in [0..N -> B] /\ \A c \in 0..N : needs[c] = <<>> /\ DOMAIN needs[c] = {}
    BY <1>2, <2>1 DEF ReaderRests
  <2>3. ASSUME NEW h \in Reader!Recipe
        PROVE  [place |-> "cookbook", kind |-> "standard", holds |-> h] \in Reader!File
    BY DEF Reader!File
  <2>4. RecipesRight
    <3>1. needs \in Reader!Graph /\ Reader!Acyclic(needs)
      BY <2>2 DEF Reader!Graph, Reader!Acyclic, B
    <3>2. recipes \in [Reader!Recipe -> Reader!File]
      BY <1>2, <2>3 DEF ReaderRests
    <3> QED BY <3>1, <3>2 DEF RecipesRight
  <2>5. /\ before \subseteq known /\ known \subseteq Reader!Recipe
        /\ Reader!RegisteredClosed /\ Len(reading) <= MaxOpen
    <3>1. \A h \in Reader!Recipe : h \in 0..N
      BY ReaderBounds DEF Reader!Recipe
    <3> QED BY <1>2, <2>2, <3>1, ReaderBounds
          DEF ReaderRests, Reader!RegisteredClosed, Reader!DepSet, Reader!ToSet
  <2>6. array \in [Reader!Recipe -> Reader!Arrays]
    BY <1>2 DEF ReaderRests, Reader!Arrays
  <2>7. /\ wanted \in Reader!Recipe /\ result \in Reader!Outcomes
        /\ Reader!GivesUpForAReason
    BY <1>2, ReaderBounds
    DEF ReaderRests, Reader!Outcomes, Reader!GivesUpForAReason, Reader!Recipe
  <2>8. StackRight(reading, known)
    BY <1>2, EmptyStackRight DEF ReaderRests
  <2> QED BY <2>4, <2>5, <2>6, <2>7, <2>8 DEF ReaderInv
<1> QED BY <1>1, <1>2 DEF LeavesInit

\* What the reader needs is there: every file that is read is found and whole.
AllThere(S) ==
    /\ S \in SUBSET Reader!Recipe
    /\ wanted \in S /\ Reader!Good(S) /\ Reader!Cardinality(S) <= MaxOpen
    /\ \A h \in S : recipes[h].place = "cookbook" =>
          \A d \in Reader!DepSet(h) \ before : recipes[d].place = "cookbook"

\* The innermost frame, by the names of the model and by position.
LEMMA InnermostFrame ==
    ASSUME ReaderInv, reading # <<>>
    PROVE  /\ Len(reading) \in 1..Len(reading)
           /\ reading \in Seq(Reader!Frame)
           /\ Reader!Top = reading[Len(reading)] /\ Last(reading) = Reader!Top
           /\ Reader!Top.of \in Reader!Recipe
           /\ Reader!Top.deps \in Seq(0..N)
           /\ LookedUp(Reader!Top, known)
           /\ DepsAt(Reader!Top.of) \in Seq(Reader!Recipe)
<1>1. reading \in Seq(Reader!Frame)
  BY DEF ReaderInv, StackRight
<1>2. Len(reading) \in 1..Len(reading)
  BY <1>1, EmptySeq
<1>3. Reader!Top = reading[Len(reading)] /\ Last(reading) = Reader!Top
  BY DEF Reader!Top, Reader!Last, Last
<1>4. reading[Len(reading)] \in Reader!Frame
  BY <1>1, <1>2
<1>5. Reader!Top.of \in Reader!Recipe /\ Reader!Top.deps \in Seq(0..N)
  BY <1>3, <1>4 DEF Reader!Frame
<1>6. LookedUp(Reader!Top, known)
  BY <1>2, <1>3 DEF ReaderInv, StackRight
<1> QED BY <1>1, <1>2, <1>3, <1>5, <1>6, DepsOfRecipe DEF ReaderInv

\* The dependency that comes next.
LEMMA NextDependency ==
    ASSUME ReaderInv, reading # <<>>, Reader!MoreDeps
    PROVE  /\ Reader!NextDep = DepsAt(Reader!Top.of)[Len(Reader!Top.deps) + 1]
           /\ Len(Reader!Top.deps) < Len(DepsAt(Reader!Top.of))
           /\ Reader!NextDep \in Reader!Recipe
           /\ Reader!NextDep \in Reader!DepSet(recipes[Reader!Top.of].holds)
<1>1. Reader!NextDep = DepsAt(Reader!Top.of)[Len(Reader!Top.deps) + 1]
  BY DEF Reader!NextDep, Reader!Content, DepsAt
<1>2. Len(Reader!Top.deps) < Len(DepsAt(Reader!Top.of))
  BY DEF Reader!MoreDeps, Reader!Content, DepsAt
<1>3. /\ Len(Reader!Top.deps) \in Nat /\ Len(DepsAt(Reader!Top.of)) \in Nat
      /\ Reader!Top.of \in Reader!Recipe
  BY InnermostFrame, LenProperties
<1>4. Len(Reader!Top.deps) + 1 \in 1..Len(DepsAt(Reader!Top.of))
  BY <1>2, <1>3
<1>5. Reader!NextDep \in Reader!DepSet(recipes[Reader!Top.of].holds)
  BY <1>1, <1>3, <1>4, DepsOfRecipe DEF ReaderInv
<1> QED BY <1>1, <1>2, <1>3, <1>5, DepsOfRecipe DEF ReaderInv

\* The call for a pending recipe.
LEMMA CallOfPending ==
    ASSUME ReaderInv, NEW h \in Reader!Recipe, h \in Reader!Pending
    PROVE  StackRight(Append(reading, [of |-> h, deps |-> <<>>]), known)
<1>1. reading = <<>> => h = wanted
  BY DEF Reader!Pending
<1>2. ASSUME reading # <<>>
      PROVE  /\ WaitsFor(reading[Len(reading)], [of |-> h, deps |-> <<>>])
             /\ h \notin known
  <2>1. Reader!MoreDeps /\ h = Reader!NextDep /\ h \notin known
    BY <1>2 DEF Reader!Pending
  <2> QED BY <1>2, <2>1, InnermostFrame, NextDependency DEF WaitsFor
<1> QED BY <1>1, <1>2, CallKeepsStack DEF ReaderInv

\* A reader that has all it needs does not meet a bad file, and has a file left.
LEMMA NothingBad ==
    ASSUME ReaderInv, NEW S, AllThere(S)
    PROVE  /\ reading # <<>> => /\ Reader!Top.of \in S
                                /\ recipes[Reader!Top.of].kind = "standard"
           /\ \A h \in Reader!Pending :
                 Reader!Openable(h) /\ recipes[h].kind = "standard"
<1>1. S \in SUBSET Reader!Recipe /\ Enough(S)
  BY DEF AllThere, Enough, Reader!Good
<1>2. \A h \in S : /\ recipes[h].kind = "standard" /\ recipes[h].place # "none"
                   /\ recipes[h].holds = h
                   /\ recipes[h].place \in {"none", "local", "cookbook"}
  <2>1. ASSUME NEW h \in S
        PROVE  recipes[h].place \in {"none", "local", "cookbook"}
    <3>1. recipes[h] \in Reader!File
      BY <1>1 DEF ReaderInv, RecipesRight
    <3> QED BY <3>1 DEF Reader!File
  <2> QED BY <2>1 DEF AllThere, Reader!Good
<1>3. ASSUME reading # <<>>
      PROVE  Reader!Top.of \in S
  BY <1>1, <1>3, InnermostFrame DEF ReaderInv, StackRight, Descends
<1>4. ASSUME NEW h \in Reader!Pending
      PROVE  h \in Reader!Recipe /\ Reader!Findable(h) /\ recipes[h].kind = "standard"
  <2>1. CASE reading = <<>>
    <3>1. h = wanted
      BY <1>4, <2>1 DEF Reader!Pending
    <3> QED BY <1>1, <1>2, <2>1, <3>1 DEF AllThere, Reader!Findable
  <2>2. CASE reading # <<>>
    <3> DEFINE g == Reader!Top.of
    <3>1. Reader!MoreDeps /\ h = Reader!NextDep /\ h \notin known
      BY <1>4, <2>2 DEF Reader!Pending
    <3>2. g \in S /\ h \in Reader!DepSet(g) /\ h \notin before
      BY <1>2, <1>3, <2>2, <3>1, NextDependency DEF ReaderInv
    <3>3. h \in S
      BY <1>1, <3>2 DEF Enough
    <3>4. CASE recipes[g].place = "cookbook"
      <4>1. recipes[h].place = "cookbook"
        BY <3>1, <3>2, <3>4 DEF AllThere
      <4> QED BY <1>1, <1>2, <3>3, <4>1 DEF Reader!Findable
    <3>5. CASE recipes[g].place = "local"
      BY <1>1, <1>2, <3>3, <3>5 DEF Reader!Findable
    <3> QED BY <1>2, <3>2, <3>4, <3>5
  <2> QED BY <2>1, <2>2
<1>5. ASSUME NEW h \in Reader!Pending
      PROVE  Len(reading) < MaxOpen
  <2> DEFINE t == Append(reading, [of |-> h, deps |-> <<>>])
  <2>1. StackRight(t, known)
    BY <1>4, <1>5, CallOfPending
  <2>2. Len(t) = Len(reading) + 1 /\ Len(reading) \in Nat
    <3>1. reading \in Seq(Reader!Frame)
      BY DEF ReaderInv, StackRight
    <3> QED BY <3>1, LenProperties
  <2> HIDE DEF t
  <2>3. Len(t) <= Cardinality(S)
    BY <1>1, <2>1, DepthBounded DEF StackRight
  <2>4. Cardinality(S) <= MaxOpen
    BY DEF AllThere, Reader!Cardinality, Cardinality
  <2>5. Cardinality(S) \in Nat
    <3>1. IsFiniteSet(Reader!Recipe)
      BY ReaderBounds, FS_Interval DEF Reader!Recipe
    <3> QED BY <1>1, <3>1, FS_Subset, FS_CardinalityType
  <2> QED BY <2>2, <2>3, <2>4, <2>5, ReaderBounds
<1> QED BY <1>2, <1>3, <1>4, <1>5 DEF Reader!Openable

\* What is said of a stack depends on the files and on what is wanted only.
LEMMA StackPrimed ==
    ASSUME UNCHANGED <<needs, recipes, before, wanted>>, StackRight(reading', known')
    PROVE  StackRight(reading, known)'
<1>1. (reading \in Seq(Reader!Frame))'
  BY DEF StackRight, Reader!Frame, Reader!Recipe
<1>2. (\A k \in 1..Len(reading) : LookedUp(reading[k], known))'
  BY DEF StackRight, LookedUp, DepsAt
<1>3. (\A k \in 1..(Len(reading) - 1) : WaitsFor(reading[k], reading[k+1]))'
  BY DEF StackRight, WaitsFor, DepsAt
<1>4. (reading # <<>> => reading[1].of = wanted)'
  BY DEF StackRight
<1>5. ASSUME NEW S \in SUBSET Reader!Recipe, Enough(S)'
      PROVE  Descends(reading, S)'
  <2>1. Enough(S)
    BY <1>5 DEF Enough, Reader!DepSet, Reader!ToSet
  <2> QED BY <1>5, <2>1 DEF StackRight, Descends
<1>6. (\A S \in SUBSET Reader!Recipe : Enough(S) => Descends(reading, S))'
  BY <1>5 DEF Reader!Recipe
<1> QED BY <1>1, <1>2, <1>3, <1>4, <1>6 DEF StackRight

\* A pointer is returned to the innermost frame of s, if there is one.
LEMMA ReturnToKeepsStack ==
    ASSUME RecipesRight, NEW s, NEW K, StackRight(s, K), Reader!ReturnTo(s),
           s # <<>> => Len(s[Len(s)].deps) < Len(DepsAt(s[Len(s)].of))
    PROVE  StackRight(reading', K) /\ Len(reading') = Len(s)
<1>1. CASE s = <<>>
  BY <1>1, EmptyStackRight DEF Reader!ReturnTo
<1>2. CASE s # <<>>
  <2>1. reading' = Append(Front(s), [Last(s) EXCEPT !.deps = Append(@, 0)])
    BY <1>2 DEF Reader!ReturnTo, Reader!Front, Reader!Last, Front, Last
  <2> QED BY <1>2, <2>1, NoteKeepsStack
<1> QED BY <1>1, <1>2

\* Giving up is for a reason if a file was bad.
LEMMA GivingUp ==
    ASSUME ReaderInv, Reader!GiveUp,
           UNCHANGED <<needs, recipes, before, known, array, wanted>>,
           \/ \E h \in Reader!Pending :
                 ~Reader!Openable(h) \/ recipes[h].kind # "standard"
           \/ reading # <<>> /\ recipes[Reader!Top.of].kind # "standard"
    PROVE  ReaderInv'
<1>1. StackRight(reading, known)'
  BY EmptyStackRight, StackPrimed DEF Reader!GiveUp
<1>2. Reader!GivesUpForAReason'
  <2>1. \A S : ~AllThere(S)
    BY NothingBad
  <2>2. ASSUME NEW S, AllThere(S)'
        PROVE  AllThere(S)
    BY <2>2 DEF AllThere, Reader!Good, Reader!DepSet, Reader!ToSet, Reader!Recipe,
                Reader!Cardinality
  <2>3. \A S : ~AllThere(S)'
    BY <2>1, <2>2
  <2> QED BY <2>3 DEF AllThere, Reader!GivesUpForAReason
<1>3. /\ RecipesRight' /\ (before \subseteq known /\ known \subseteq Reader!Recipe)'
      /\ (array \in [Reader!Recipe -> Reader!Arrays])'
      /\ (wanted \in Reader!Recipe)' /\ Reader!RegisteredClosed'
  BY DEF ReaderInv, RecipesRight, Reader!RegisteredClosed, Reader!DepSet,
         Reader!ToSet, Reader!Recipe, Reader!File, Reader!Graph, Reader!Acyclic,
         Reader!Arrays
<1>4. (result \in Reader!Outcomes)' /\ Len(reading') <= MaxOpen
  BY ReaderBounds DEF Reader!GiveUp, Reader!Outcomes
<1> QED BY <1>1, <1>2, <1>3, <1>4 DEF ReaderInv

\* The rest of the invariant where only the stack changes.
LEMMA GoingOn ==
    ASSUME ReaderInv, UNCHANGED <<needs, recipes, before, known, array, wanted>>,
           result' \in Reader!Outcomes, result' # "null",
           StackRight(reading', known), Len(reading') <= MaxOpen
    PROVE  ReaderInv'
<1>1. StackRight(reading, known)'
  BY StackPrimed
<1>2. /\ RecipesRight' /\ (before \subseteq known /\ known \subseteq Reader!Recipe)'
      /\ (array \in [Reader!Recipe -> Reader!Arrays])'
      /\ (wanted \in Reader!Recipe)' /\ Reader!RegisteredClosed'
  BY DEF ReaderInv, RecipesRight, Reader!RegisteredClosed, Reader!DepSet,
         Reader!ToSet, Reader!Recipe, Reader!File, Reader!Graph, Reader!Acyclic,
         Reader!Arrays
<1>3. (result \in Reader!Outcomes)' /\ Reader!GivesUpForAReason'
  BY DEF Reader!GivesUpForAReason, Reader!Outcomes
<1> QED BY <1>1, <1>2, <1>3 DEF ReaderInv

LEMMA OpenNext ==
    ASSUME ReaderInv, NEW h \in Reader!Recipe, Reader!Open(h)
    PROVE  ReaderInv'
<1>1. /\ result = "reading" /\ h \in Reader!Pending
      /\ UNCHANGED <<needs, recipes, before, known, array, wanted>>
      /\ RecipesRight /\ StackRight(reading, known) /\ Len(reading) <= MaxOpen
  BY DEF Reader!Open, Reader!Reading, Reader!constantVars, ReaderInv
<1>2. reading \in Seq(Reader!Frame) /\ Len(reading) \in Nat
  BY <1>1, LenProperties DEF StackRight
<1>3. ASSUME reading # <<>>
      PROVE  Len(reading[Len(reading)].deps) < Len(DepsAt(reading[Len(reading)].of))
  <2>1. Reader!MoreDeps
    BY <1>1, <1>3 DEF Reader!Pending
  <2> QED BY <1>3, <2>1, InnermostFrame, NextDependency
<1>4. CASE Reader!GiveUp /\ (~Reader!Openable(h) \/ recipes[h].kind # "standard")
  BY <1>1, <1>4, GivingUp
<1>5. CASE Reader!ReturnTo(reading)
  <2>1. StackRight(reading', known) /\ Len(reading') <= MaxOpen
    BY <1>1, <1>3, <1>5, ReturnToKeepsStack
  <2>2. result' \in {"found", "reading"}
    BY <1>1, <1>5 DEF Reader!ReturnTo
  <2> QED BY <1>1, <2>1, <2>2, GoingOn DEF Reader!Outcomes
<1>6. CASE /\ reading' = Append(reading, [of |-> h, deps |-> <<>>])
           /\ Reader!Openable(h) /\ UNCHANGED result
  <2>1. StackRight(reading', known)
    BY <1>1, <1>6, CallOfPending
  <2>2. Len(reading') <= MaxOpen
    BY <1>2, <1>6, ReaderBounds, AppendProperties DEF Reader!Openable
  <2> QED BY <1>1, <1>6, <2>1, <2>2, GoingOn DEF Reader!Outcomes
<1>7. \/ Reader!GiveUp /\ (~Reader!Openable(h) \/ recipes[h].kind # "standard")
      \/ Reader!ReturnTo(reading)
      \/ /\ reading' = Append(reading, [of |-> h, deps |-> <<>>])
         /\ Reader!Openable(h) /\ UNCHANGED result
  <2>1. CASE ~Reader!Openable(h) \/ recipes[h].kind = "not_a_recipe"
    BY <2>1 DEF Reader!Open
  <2>2. CASE Reader!Openable(h) /\ recipes[h].kind = "fetch"
    BY <2>2 DEF Reader!Open
  <2>3. CASE /\ Reader!Openable(h)
             /\ recipes[h].kind \notin {"not_a_recipe", "fetch"}
    BY <2>3 DEF Reader!Open
  <2> QED BY <2>1, <2>2, <2>3
<1> QED BY <1>4, <1>5, <1>6, <1>7

LEMMA UseRegisteredNext ==
    ASSUME ReaderInv, Reader!UseRegistered
    PROVE  ReaderInv'
<1>1. /\ Reader!MoreDeps /\ reading # <<>> /\ Reader!NextDep \in known
      /\ reading' = Append(Front(reading),
                           [Last(reading) EXCEPT !.deps = Append(@, Reader!NextDep)])
      /\ UNCHANGED <<needs, recipes, before, known, array, wanted, result>>
      /\ result = "reading" /\ Len(reading) <= MaxOpen
  BY DEF ReaderInv, Reader!UseRegistered, Reader!constantVars, Reader!MoreDeps, Reader!Front, Reader!Top,
         Reader!Last, Front, Last, Reader!Reading
<1>2. StackRight(reading', known) /\ Len(reading') <= MaxOpen
  <2>1. /\ Len(reading[Len(reading)].deps) < Len(DepsAt(reading[Len(reading)].of))
        /\ Reader!NextDep = DepsAt(reading[Len(reading)].of)
                              [Len(reading[Len(reading)].deps) + 1]
    BY <1>1, InnermostFrame, NextDependency
  <2> QED BY <1>1, <2>1, NoteKeepsStack DEF ReaderInv
<1> QED BY <1>1, <1>2, GoingOn DEF Reader!Outcomes

\* A recipe is registered when all that it needs has been looked up.
LEMMA CreateNext ==
    ASSUME ReaderInv, Reader!Create
    PROVE  ReaderInv'
<1> DEFINE h == Reader!Top.of
           c == recipes[h].holds
<1>1. /\ result = "reading" /\ reading # <<>> /\ ~Reader!MoreDeps
      /\ UNCHANGED <<needs, recipes, before, wanted>>
      /\ RecipesRight /\ StackRight(reading, known) /\ known \subseteq Reader!Recipe
      /\ before \subseteq known /\ Len(reading) <= MaxOpen /\ Len(reading) \in Nat
      /\ recipes[h].kind = "standard"
  BY LenProperties
  DEF Reader!Create, Reader!Reading, Reader!constantVars, ReaderInv, StackRight
<1>2. h \in Reader!Recipe /\ c \in Reader!Recipe
  <2>1. h \in Reader!Recipe
    BY <1>1, InnermostFrame
  <2>2. recipes[h] \in Reader!File
    BY <1>1, <2>1 DEF RecipesRight
  <2> QED BY <1>1, <2>1, <2>2 DEF Reader!File
<1>3. CASE result' = "null_pointer" /\ UNCHANGED <<reading, known, array>>
  BY <1>1, <1>3, GoingOn DEF Reader!Outcomes
<1>4. CASE /\ ~Reader!Contains(Reader!Top.deps, 0)
           /\ known' = known \cup {c}
           /\ array' = [array EXCEPT ![c] = IF c \in known THEN "freed_twice"
                                                            ELSE "freed"]
           /\ Reader!ReturnTo(Front(reading))
  <2>2. StackRight(Front(reading), known \cup {c})
    BY <1>1, ReturnKeepsStack
  <2> DEFINE f == Front(reading)
  <2>3. ASSUME f # <<>>
        PROVE  Len(f[Len(f)].deps) < Len(DepsAt(f[Len(f)].of))
    <3>1. /\ f \in Seq(Reader!Frame) /\ Len(f) = Len(reading) - 1
          /\ \A k \in 1..(Len(reading) - 1) : f[k] = reading[k]
      BY <1>1, InnermostFrame, FrontOfSeq DEF Front
    <3> HIDE DEF f
    <3>2. Len(f) \in 1..(Len(reading) - 1)
      BY <2>3, <3>1, EmptySeq
    <3>3. WaitsFor(reading[Len(f)], reading[Len(f) + 1])
      BY <1>1, <3>2 DEF StackRight
    <3> QED BY <3>1, <3>2, <3>3 DEF WaitsFor
  <2>4. StackRight(reading', known \cup {c}) /\ Len(reading') <= MaxOpen
    <3>1. Len(f) = Len(reading) - 1
      BY <1>1, InnermostFrame, FrontOfSeq DEF Front
    <3> HIDE DEF f
    <3>2. StackRight(f, known \cup {c}) /\ Reader!ReturnTo(f)
      BY <1>4, <2>2 DEF f
    <3>3. StackRight(reading', known \cup {c}) /\ Len(reading') = Len(f)
      BY <1>1, <2>3, <3>2, ReturnToKeepsStack
    <3> QED BY <1>1, <3>1, <3>3, ReaderBounds
  <2>5. StackRight(reading, known)'
    BY <1>1, <1>4, <2>4, StackPrimed
  <2>6. \A d \in Reader!DepSet(c) : d \in known
    <3>1. ASSUME NEW i \in 1..Len(DepsAt(h))
          PROVE  DepsAt(h)[i] \in known
      <4>1. /\ Len(Reader!Top.deps) \in Nat /\ Len(DepsAt(h)) \in Nat
            /\ LookedUp(Reader!Top, known)
        BY <1>1, InnermostFrame, LenProperties
      <4>2. ~ (Len(Reader!Top.deps) < Len(DepsAt(h)))
        BY <1>1 DEF Reader!MoreDeps, Reader!Content, DepsAt
      <4>3. i \in 1..Len(Reader!Top.deps)
        BY <4>1, <4>2
      <4>4. Reader!Top.deps[i] # 0
        BY <1>4, <4>3 DEF Reader!Contains
      <4> QED BY <4>1, <4>3, <4>4 DEF LookedUp
    <3>2. \A d \in Reader!DepSet(c) : \E i \in 1..Len(DepsAt(h)) : d = DepsAt(h)[i]
      BY <1>1, <1>2, DepsOfRecipe
    <3> HIDE DEF h, c
    <3> QED BY <3>1, <3>2
  <2>7. Reader!RegisteredClosed'
    <3>1. \A g \in known \cup {c} : Reader!DepSet(g) \subseteq known \cup {c}
      BY <2>6 DEF ReaderInv, Reader!RegisteredClosed
    <3> HIDE DEF h, c
    <3>2. \A g \in known \cup {c} : Reader!DepSet(g)' = Reader!DepSet(g)
      BY <1>1 DEF Reader!DepSet, Reader!ToSet
    <3> QED BY <1>4, <3>1, <3>2 DEF Reader!RegisteredClosed
  <2>8. /\ RecipesRight' /\ (before \subseteq known /\ known \subseteq Reader!Recipe)'
        /\ (array \in [Reader!Recipe -> Reader!Arrays])'
        /\ (wanted \in Reader!Recipe)'
    <3> HIDE DEF h, c
    <3> QED BY <1>1, <1>2, <1>4
          DEF ReaderInv, RecipesRight, Reader!Recipe, Reader!File,
              Reader!Graph, Reader!Acyclic, Reader!Arrays
  <2>9. result' \in {"found", "reading"}
    BY <1>1, <1>4 DEF Reader!ReturnTo
  <2>10. (result \in Reader!Outcomes)' /\ Reader!GivesUpForAReason'
    BY <2>9 DEF Reader!GivesUpForAReason, Reader!Outcomes
  <2> QED BY <2>4, <2>5, <2>7, <2>8, <2>10 DEF ReaderInv
<1> QED BY <1>3, <1>4 DEF Reader!Create, Reader!Content, Reader!Front, Front

LEMMA CutOffNext ==
    ASSUME ReaderInv, Reader!CutOff
    PROVE  ReaderInv'
BY GivingUp DEF Reader!CutOff, Reader!constantVars

(* The recipe reader, wherever its recursion is and whatever it has         *)
(* registered (derivative_read_recipe()).                                   *)
THEOREM ReaderInvariant == LeavesSpec => []ReaderInv
<1>1. ASSUME ReaderInv, UNCHANGED readerVars
      PROVE  ReaderInv'
  <2>1. StackRight(reading', known) /\ Len(reading') <= MaxOpen
    BY <1>1 DEF readerVars, ReaderInv
  <2>2. CASE result = "null"
    <3>1. StackRight(reading, known)'
      BY <1>1, <2>1, StackPrimed DEF readerVars
    <3>2. /\ RecipesRight' /\ (before \subseteq known /\ known \subseteq Reader!Recipe)'
          /\ Len(reading') <= MaxOpen
          /\ (array \in [Reader!Recipe -> Reader!Arrays])'
          /\ (wanted \in Reader!Recipe)' /\ Reader!RegisteredClosed'
          /\ (result \in Reader!Outcomes)'
      BY <1>1 DEF readerVars, ReaderInv, RecipesRight, Reader!RegisteredClosed,
         Reader!DepSet, Reader!ToSet, Reader!Recipe, Reader!File, Reader!Graph,
         Reader!Acyclic, Reader!Arrays, Reader!Outcomes
    <3>3. ASSUME NEW S, AllThere(S)'
          PROVE  AllThere(S)
      BY <1>1, <3>3 DEF AllThere, Reader!Good, Reader!DepSet, Reader!ToSet,
         Reader!Recipe, Reader!Cardinality, readerVars
    <3>4. \A S : ~AllThere(S)
      BY <1>1, <2>2 DEF ReaderInv, AllThere, Reader!GivesUpForAReason
    <3>5. Reader!GivesUpForAReason'
      BY <3>3, <3>4 DEF AllThere, Reader!GivesUpForAReason
    <3> QED BY <3>1, <3>2, <3>5 DEF ReaderInv
  <2>3. CASE result # "null"
    BY <1>1, <2>1, <2>3, GoingOn DEF readerVars, ReaderInv
  <2> QED BY <2>2, <2>3
<1>2. ASSUME ReaderInv, Reader!Next
      PROVE  ReaderInv'
  BY <1>1, <1>2, OpenNext, CutOffNext, UseRegisteredNext, CreateNext
  DEF Reader!Next, Reader!Returned, Reader!vars, Reader!constantVars, readerVars
<1>3. ASSUME ReaderInv, [LeavesNext]_leafVars
      PROVE  ReaderInv'
  <2>1. CASE ReaderStep
    BY <1>2, <1>3, <2>1 DEF ReaderStep
  <2>2. CASE UNCHANGED readerVars
    BY <1>1, <1>3, <2>2
  <2> QED BY <1>3, <2>1, <2>2
        DEF LeavesNext, leafVars, RegistryStep, CacheStep, EnvStep, DiagramStep
<1> QED BY ReaderInit, <1>3, PTL DEF LeavesSpec

(* Whatever is read in whatever order and wherever it breaks off, and       *)
(* whatever the files hold, a recipe in the registry has all its            *)
(* dependencies there (derivative.c).                                       *)
THEOREM RegistryStaysClosed == LeavesSpec => []RegisteredClosed
<1>1. ReaderInv => RegisteredClosed
  BY DEF ReaderInv, RegisteredClosed
<1> QED BY ReaderInvariant, <1>1, PTL

(* A reader that has given up has met a missing, damaged or wrongly named   *)
(* file or too many at once: there are no readable recipes that would have  *)
(* been enough (derivative.c).                                              *)
THEOREM ReaderNeedsAReason == LeavesSpec => []GivesUpForAReason
<1>1. ReaderInv => GivesUpForAReason
  BY DEF ReaderInv, GivesUpForAReason
<1> QED BY ReaderInvariant, <1>1, PTL

-----------------------------------------------------------------------------
(* The script environment.  Its invariant has a part for each thing that    *)
(* the C code keeps: the stack, the slots of the pool, the set of loaded    *)
(* libraries, the teardown stack and the import cache.                      *)
Slot == 0..(Slots - 1)

LogType == [ready : SUBSET Libraries, posted : Seq(Libraries),
            inside : SUBSET (Libraries \X Libraries),
            ran : [Modules -> Nat],
            unready : SUBSET Libraries, leaked : Nat]

EnvTypes == Env!TypeOK /\ log \in LogType

\* The script of env_run() is at the bottom, and calls only above it.
StackInv ==
    \A k \in 1..Len(frames) :
        /\ frames[k].kind \in {"main", "post"} <=> k = 1
        /\ frames[k].kind = "import" => frames[k].of \in Modules
        /\ frames[k].kind = "pre" => frames[k].of \in Libraries

\* The marks are nested, and what is in use beyond them was left behind.
SlotsInv ==
    /\ Cardinality(used) <= log.leaked
    /\ \A k \in 1..Len(frames) : frames[k].mark \subseteq used
    /\ \A i, j \in 1..Len(frames) : i <= j => frames[i].mark \subseteq frames[j].mark
    /\ \A k \in 1..Len(frames) : frames[k].kind \in {"main", "post"} => frames[k].mark = {}
    /\ phase = "done" => used = {} /\ frames = <<>> /\ teardown = <<>>

\* A library is marked as loaded before it is set up, and is so only once.
SetUpInv ==
    /\ log.ready \subseteq loaded
    /\ \A k \in 1..Len(frames) : frames[k].kind = "pre" =>
          frames[k].of \in loaded /\ frames[k].of \notin log.ready
    /\ \A i, j \in 1..Len(frames) :
          frames[i].kind = "pre" /\ frames[j].kind = "pre"
            /\ frames[i].of = frames[j].of => i = j

Holds(s, x) == \E i \in 1..Len(s) : s[i] = x
OnceIn(s) == \A i, j \in 1..Len(s) : s[i] = s[j] => i = j

\* A library to be torn down either waits for it or has had it.
TeardownInv ==
    /\ OnceIn(teardown) /\ OnceIn(log.posted)
    /\ \A x : ~(Holds(teardown, x) /\ Holds(log.posted, x))
    /\ \A l \in Libraries :
          l \in Env!Posts <=> Holds(teardown, l) \/ Holds(log.posted, l)

Before(s, x, y) == \E i, j \in 1..Len(s) : i < j /\ s[i] = x /\ s[j] = y

SettingUp(u) == \E k \in 1..Len(frames) : frames[k].kind = "pre" /\ frames[k].of = u

\* A user u and the library l that it set up while it was being set up: until
\* u is set up l is not torn down, and then u comes first.
InOrder(u, l) ==
    /\ u # l /\ u \in loaded /\ l \in log.ready
    /\ SettingUp(u) => ~Holds(log.posted, l)
    /\ {u, l} \subseteq Env!Posts =>
          \/ Before(teardown, l, u)
          \/ Holds(teardown, l) /\ Holds(log.posted, u)
          \/ Before(log.posted, u, l)

OrderInv == \A x \in log.inside : InOrder(x[1], x[2])

Importing(k, x) == frames[k].kind = "import" /\ frames[k].of = x

\* A module whose outermost run is over is cached and not running.
ImportInv ==
    \A x \in Modules :
        /\ log.ran[x] <= 1
        /\ log.ran[x] >= 1 => x \in cached
        /\ \A k \in 1..Len(frames) : Importing(k, x) => log.ran[x] = 0

EnvInv == /\ EnvTypes /\ StackInv /\ SlotsInv /\ SetUpInv
          /\ TeardownInv /\ OrderInv /\ ImportInv

\* The first free slot is a slot.
LEMMA FirstFree ==
    ASSUME Env!Free # {}
    PROVE  Env!FreeSlot \in Env!Free /\ Env!FreeSlot \in Slot /\ Env!FreeSlot \notin used
<1>1. Env!Free \subseteq Nat
  BY LuaBounds DEF Env!Free
<1>2. PICK s \in Env!Free : \A t \in Env!Free : s <= t
  <2> DEFINE less == OpToRel(<, Nat)
  <2>1. IsWellFoundedOn(less, Nat)
    BY NatLessThanWellFounded
  <2>2. \A m, n \in Nat : m < n => <<m, n>> \in less
    BY DEF OpToRel
  <2> HIDE DEF less
  <2>3. PICK s \in Env!Free : \A t \in Env!Free : ~(<<t, s>> \in less)
    BY <1>1, <2>1, WFMin
  <2>4. ASSUME NEW t \in Env!Free
        PROVE  s <= t
    <3>1. s \in Nat /\ t \in Nat
      BY <1>1
    <3>2. ~(t < s)
      BY <2>2, <2>3, <3>1
    <3> QED BY <3>1, <3>2
  <2> QED BY <2>4
<1>3. Env!FreeSlot \in Env!Free
  BY <1>2 DEF Env!FreeSlot
<1> QED BY <1>3 DEF Env!Free, Slot

LEMMA SlotsFinite ==
    ASSUME EnvTypes
    PROVE  /\ used \subseteq Slot /\ IsFiniteSet(used)
           /\ Cardinality(used) \in Nat
<1>1. IsFiniteSet(Slot)
  BY LuaBounds, FS_Interval DEF Slot
<1>2. used \subseteq Slot
  BY DEF EnvTypes, Env!TypeOK, Slot
<1> QED BY <1>1, <1>2, FS_Subset, FS_CardinalityType

-----------------------------------------------------------------------------
\* What the history keeps of the modules and libraries.
LogKept == /\ log'.ready = log.ready /\ log'.posted = log.posted
           /\ log'.inside = log.inside /\ log'.ran = log.ran

\* A step in which no script is called or comes to its end.
Quiet ==
    /\ phase = "running" /\ phase' \in {"running", "panic"}
    /\ UNCHANGED <<shape, frames, cached, teardown>>
    /\ LogKept
    /\ loaded \subseteq loaded'
    /\ \/ used' = used /\ log'.leaked = log.leaked
       \/ /\ Env!Free # {} /\ used' = used \cup {Env!FreeSlot}
          /\ log'.leaked = log.leaked + 1

\* A step in which a script calls one that is run.
Called(kind, x) ==
    /\ phase = "running" /\ frames # <<>>
    /\ \E g \in BOOLEAN : frames' = Append(frames,
            [kind |-> kind, of |-> x, guarded |-> g, mark |-> used])
    /\ UNCHANGED <<shape, used, cached, teardown, phase>>
    /\ LogKept /\ log'.leaked = log.leaked
    /\ \/ /\ kind = "import" /\ x \in Modules \ cached
          /\ loaded' = loaded
       \/ /\ kind = "pre" /\ x \in Libraries \ loaded
          /\ loaded' = loaded \cup {x}

\* Every step is one of those, or the end of a script.
EnvSteps ==
    \/ Quiet
    \/ \E x \in Modules : Called("import", x)
    \/ \E l \in Libraries : Called("pre", l)
    \/ Env!ImportDone \/ Env!PreDone \/ Env!ScriptDone
    \/ UNCHANGED envVars

LEMMA StepsOfEnv ==
    ASSUME EnvTypes, Env!Next
    PROVE  EnvSteps
<1> USE DEF Env!Calling, Env!Counted, Env!Error, LogKept
<1>0. /\ log = [ready |-> log.ready, posted |-> log.posted, inside |-> log.inside,
                ran |-> log.ran, unready |-> log.unready,
                leaked |-> log.leaked]
      /\ log \in LogType
  BY DEF EnvTypes, LogType
<1>1. ASSUME NEW g \in BOOLEAN, Env!BadPath(g)
      PROVE  /\ LogKept
             /\ \/ used' = used /\ log'.leaked = log.leaked
                \/ used' = used \cup {Env!FreeSlot} /\ log'.leaked = log.leaked + 1
  BY <1>0, <1>1 DEF Env!BadPath, Env!Leak
<1>2. ASSUME NEW g \in BOOLEAN, Env!PathCall(g)
      PROVE  EnvSteps
  BY <1>1, <1>2 DEF Env!PathCall, Env!env, EnvSteps, Quiet
<1>3. ASSUME NEW g \in BOOLEAN, Env!UseBadPath(g)
      PROVE  EnvSteps
  BY <1>1, <1>3 DEF Env!UseBadPath, Env!env, EnvSteps, Quiet
<1>4. ASSUME NEW g \in BOOLEAN, NEW x \in Modules, Env!Import(x, g)
      PROVE  EnvSteps
  <2>1. CASE x \notin cached /\ Env!Enter("import", x, g) /\ UNCHANGED <<used, log>>
    <3>1. Called("import", x)
      BY <1>4, <2>1 DEF Env!Import, Env!env, Env!Enter, Called
    <3> QED BY <3>1 DEF EnvSteps
  <2>2. CASE Env!BadPath(g) /\ UNCHANGED frames
    BY <1>1, <1>4, <2>2 DEF Env!Import, Env!env, EnvSteps, Quiet
  <2>3. CASE UNCHANGED <<frames, raising, used, log>>
    BY <1>4, <2>3 DEF Env!Import, Env!env, EnvSteps, Quiet
  <2> QED BY <1>4, <2>1, <2>2, <2>3 DEF Env!Import
<1>5. ASSUME NEW g \in BOOLEAN, NEW l \in Libraries, Env!Use(l, g)
      PROVE  EnvSteps
  <2>1. CASE Env!Enter("pre", l, g)
    <3>1. Called("pre", l)
      BY <1>5, <2>1 DEF Env!Use, Env!Enter, Called
    <3> QED BY <3>1 DEF EnvSteps
  <2>2. CASE UNCHANGED frames
    BY <1>5, <2>2 DEF Env!Use, EnvSteps, Quiet
  <2> QED BY <1>5, <2>1, <2>2 DEF Env!Use
<1>6. ASSUME NEW l \in Libraries, Env!Reuse(l)
      PROVE  EnvSteps
  <2>1. LogKept /\ log'.leaked = log.leaked
    BY <1>0, <1>6 DEF Env!Reuse
  <2> QED BY <1>6, <2>1 DEF Env!Reuse, Env!env, EnvSteps, Quiet
<1>7. CASE Env!Panic
  BY <1>7 DEF Env!Panic, Env!env, EnvSteps, Quiet
<1>8. CASE Env!Raise
  BY <1>8 DEF Env!Raise, Env!env, EnvSteps, Quiet
<1>9. CASE Env!Stopped
  BY <1>9 DEF Env!Stopped, Env!vars, envVars, EnvSteps
<1> QED BY <1>2, <1>3, <1>4, <1>5, <1>6, <1>7, <1>8, <1>9 DEF Env!Next, EnvSteps

-----------------------------------------------------------------------------
\* The frames, and the innermost one.
LEMMA FramesTyped ==
    ASSUME EnvTypes
    PROVE  /\ frames \in Seq(Env!Frame) /\ Len(frames) \in Nat
           /\ frames = <<>> <=> Len(frames) = 0
           /\ frames # <<>> => /\ Len(frames) \in 1..Len(frames)
                               /\ Env!Top = frames[Len(frames)]
           /\ \A k \in 1..Len(frames) : /\ frames[k] \in Env!Frame
                                        /\ frames[k].mark \subseteq Slot
                                        /\ frames[k].guarded \in BOOLEAN
<1>1. frames \in Seq(Env!Frame)
  BY DEF EnvTypes, Env!TypeOK
<1>2. Len(frames) \in Nat /\ (frames = <<>> <=> Len(frames) = 0)
  BY <1>1, EmptySeq, LenProperties
<1>3. ASSUME NEW k \in 1..Len(frames)
      PROVE  /\ frames[k] \in Env!Frame /\ frames[k].mark \subseteq Slot
             /\ frames[k].guarded \in BOOLEAN
  <2>1. frames[k] \in Env!Frame
    BY <1>1, <1>3
  <2> QED BY <2>1 DEF Env!Frame, Slot
<1> QED BY <1>1, <1>2, <1>3 DEF Env!Top, Env!Last

\* A call adds a frame.
LEMMA CallPushes ==
    ASSUME EnvTypes, NEW kind, NEW x, Called(kind, x)
    PROVE  /\ Len(frames) \in Nat /\ Len(frames) >= 1
           /\ Len(frames') = Len(frames) + 1
           /\ \A k \in 1..Len(frames) : k \in 1..Len(frames') /\ frames'[k] = frames[k]
           /\ \A k \in 1..Len(frames') : k \in 1..Len(frames) \/ k = Len(frames')
           /\ frames'[Len(frames')].kind = kind /\ frames'[Len(frames')].of = x
           /\ frames'[Len(frames')].mark = used
           /\ Len(frames') # 1 /\ Len(frames') \notin 1..Len(frames)
           /\ frames' \in Seq(Env!Frame)
<1>1. PICK g \in BOOLEAN : frames' = Append(frames,
          [kind |-> kind, of |-> x, guarded |-> g, mark |-> used])
  BY DEF Called
<1> DEFINE f == [kind |-> kind, of |-> x, guarded |-> g, mark |-> used]
<1>2. f \in Env!Frame /\ f.kind = kind /\ f.of = x /\ f.mark = used
  <2>1. used \subseteq Slot
    BY SlotsFinite
  <2>2. kind \in {"main", "import", "pre", "post"}
        /\ x \in Modules \cup Libraries \cup {"script"}
    BY DEF Called
  <2> QED BY <2>1, <2>2 DEF Env!Frame, Slot
<1> HIDE DEF f
<1>3. frames \in Seq(Env!Frame) /\ Len(frames) \in Nat /\ Len(frames) >= 1
  BY FramesTyped DEF Called
<1>4. /\ frames' \in Seq(Env!Frame) /\ Len(frames') = Len(frames) + 1
      /\ \A k \in 1..Len(frames) : frames'[k] = frames[k]
      /\ frames'[Len(frames) + 1] = f
  <2>1. frames' = Append(frames, f)
    BY <1>1 DEF f
  <2> QED BY <1>2, <1>3, <2>1, AppendProperties
<1> QED BY <1>2, <1>3, <1>4

\* The end of a script that was called takes its frame away.
LEMMA EndPops ==
    ASSUME EnvTypes, frames # <<>>, frames' = Env!Front(frames)
    PROVE  /\ Len(frames) \in 1..Len(frames) /\ Len(frames) \in Nat
           /\ Env!Top = frames[Len(frames)]
           /\ Len(frames') = Len(frames) - 1
           /\ \A k \in 1..Len(frames') : /\ k \in 1..Len(frames) /\ k < Len(frames)
                                         /\ frames'[k] = frames[k]
           /\ \A k \in 1..Len(frames) : k \in 1..Len(frames') \/ k = Len(frames)
           /\ frames' \in Seq(Env!Frame)
<1>1. /\ frames \in Seq(Env!Frame) /\ Len(frames) \in 1..Len(frames)
      /\ Env!Top = frames[Len(frames)] /\ Len(frames) \in Nat
  BY FramesTyped
<1>2. /\ frames' \in Seq(Env!Frame) /\ Len(frames') = Len(frames) - 1
      /\ \A k \in 1..(Len(frames) - 1) : frames'[k] = frames[k]
  BY <1>1, FrontOfSeq DEF Env!Front
<1> QED BY <1>1, <1>2

\* env_run() goes on with the next teardown script or ends.
Finish ==
    \/ teardown = <<>> /\ phase' = "done" /\ frames' = <<>>
       /\ UNCHANGED <<teardown, log>>
    \/ /\ teardown # <<>> /\ phase' = phase
       /\ frames' = <<[kind |-> "post", of |-> Last(teardown),
                       guarded |-> TRUE, mark |-> {}]>>
       /\ teardown' = Front(teardown)
       /\ log' = [log EXCEPT !.posted = Append(@, Last(teardown))]

LEMMA RunGoesOn ==
    ASSUME EnvTypes, StackInv, SlotsInv, Env!ScriptDone
    PROVE  /\ Finish /\ used' = {} /\ raising' = FALSE /\ phase = "running"
           /\ UNCHANGED <<shape, cached, loaded, calls>>
           /\ Len(frames) = 1
<1>1. /\ frames # <<>> /\ Env!Top.kind \in {"main", "post"}
      /\ Len(frames) \in 1..Len(frames) /\ Env!Top = frames[Len(frames)]
  BY FramesTyped DEF Env!ScriptDone
<1>2. Env!Top.mark = {} /\ Len(frames) = 1
  BY <1>1 DEF StackInv, SlotsInv
<1> QED BY <1>2 DEF Env!ScriptDone, Env!Unmark, Env!NextTeardown, Finish,
                    Env!Front, Env!Last, Front, Last

\* The last of the libraries to be torn down.
LEMMA TeardownPops ==
    ASSUME EnvTypes, teardown # <<>>
    PROVE  /\ Last(teardown) \in Libraries
           /\ Len(teardown) \in 1..Len(teardown) /\ Last(teardown) = teardown[Len(teardown)]
           /\ Front(teardown) \in Seq(Libraries)
           /\ Len(Front(teardown)) = Len(teardown) - 1
           /\ \A k \in 1..(Len(teardown) - 1) : Front(teardown)[k] = teardown[k]
<1>1. teardown \in Seq(Libraries)
  BY DEF EnvTypes, Env!TypeOK
<1>2. Len(teardown) \in Nat /\ Len(teardown) >= 1
  BY <1>1, FrontOfSeq
<1>3. Len(teardown) \in 1..Len(teardown)
  BY <1>2
<1>4. Last(teardown) \in Libraries
  BY <1>1, <1>3, ElementOfSeq DEF Last
<1> QED BY <1>1, <1>3, <1>4, FrontOfSeq DEF Last, Front

-----------------------------------------------------------------------------
LEMMA TypesNext ==
    ASSUME EnvTypes, StackInv, SlotsInv, Env!Next
    PROVE  EnvTypes'
<1> USE DEF Env!Calling, Env!Counted, Env!Error
<1> DEFINE Rest == /\ shape' = shape /\ raising' \in BOOLEAN
                   /\ cached' \subseteq Modules /\ loaded' \subseteq Libraries
                   /\ calls' \in 0..MaxCalls /\ phase' \in Env!Phases
<1>1. /\ shape \in [Libraries -> Env!Shapes] /\ raising \in BOOLEAN
      /\ cached \subseteq Modules /\ loaded \subseteq Libraries
      /\ calls \in 0..MaxCalls /\ phase \in Env!Phases
      /\ frames \in Seq(Env!Frame) /\ Len(frames) <= MaxDepth /\ used \subseteq Slot
      /\ teardown \in Seq(Libraries)
  BY DEF EnvTypes, Env!TypeOK, Slot
<1>2. /\ log \in LogType
      /\ log.ready \subseteq Libraries /\ log.posted \in Seq(Libraries)
      /\ log.inside \subseteq Libraries \X Libraries
      /\ log.ran \in [Modules -> Nat]
      /\ log.unready \subseteq Libraries /\ log.leaked \in Nat
  BY DEF EnvTypes, LogType
<1>3. calls < MaxCalls => calls + 1 \in 0..MaxCalls
  BY <1>1, LuaBounds
<1>4. ASSUME Rest, frames' \in Seq(Env!Frame), Len(frames') <= MaxDepth,
             used' \subseteq Slot, teardown' \in Seq(Libraries), log' \in LogType
      PROVE  EnvTypes'
  <2>1. /\ (shape \in [Libraries -> Env!Shapes])' /\ (phase \in Env!Phases)'
        /\ (frames \in Seq(Env!Frame))'
    BY <1>1, <1>4 DEF Env!Shapes, Env!Phases, Env!Frame
  <2>2. (log \in LogType)'
    BY <1>4 DEF LogType
  <2> QED BY <1>4, <2>1, <2>2 DEF EnvTypes, Env!TypeOK, Slot
<1>5. ASSUME NEW g \in BOOLEAN, Env!BadPath(g), Env!Free # {}
      PROVE  log' \in LogType /\ used' \subseteq Slot /\ raising' \in BOOLEAN
  <2>1. log.leaked + 1 \in Nat
    BY <1>2
  <2> QED BY <1>1, <1>2, <1>5, <2>1, FirstFree DEF Env!BadPath, Env!Leak, LogType
<1>6. ASSUME NEW g \in BOOLEAN, Env!PathCall(g) \/ Env!UseBadPath(g)
      PROVE  EnvTypes'
  BY <1>1, <1>2, <1>3, <1>4, <1>5, <1>6 DEF Env!PathCall, Env!UseBadPath, Env!env
<1>7. ASSUME NEW g \in BOOLEAN, NEW x \in Modules \cup Libraries,
             NEW kind \in {"import", "pre"}, Env!Enter(kind, x, g), Len(frames) < MaxDepth
      PROVE  frames' \in Seq(Env!Frame) /\ Len(frames') <= MaxDepth
  <2>1. [kind |-> kind, of |-> x, guarded |-> g, mark |-> used] \in Env!Frame
    BY <1>1 DEF Env!Frame, Slot
  <2>2. frames' \in Seq(Env!Frame) /\ Len(frames') = Len(frames) + 1 /\ Len(frames) \in Nat
    BY <1>1, <1>7, <2>1, AppendProperties, LenProperties DEF Env!Enter
  <2> QED BY <1>7, <2>2, LuaBounds
<1>8. ASSUME NEW g \in BOOLEAN, NEW x \in Modules, Env!Import(x, g)
      PROVE  EnvTypes'
  <2>1. Rest \/ Env!BadPath(g)
    BY <1>1, <1>3, <1>8 DEF Env!Import, Env!env
  <2>2. shape' = shape /\ cached' = cached /\ loaded' = loaded /\ phase' = phase
        /\ teardown' = teardown /\ calls' \in 0..MaxCalls /\ Env!Free # {}
    BY <1>1, <1>3, <1>8 DEF Env!Import, Env!env
  <2>3. CASE Env!BadPath(g) /\ UNCHANGED frames
    BY <1>1, <1>4, <1>5, <2>2, <2>3
  <2>4. CASE UNCHANGED <<frames, raising, used, log>>
    BY <1>1, <1>2, <1>4, <2>2, <2>4
  <2>5. CASE /\ Len(frames) < MaxDepth /\ Env!Enter("import", x, g)
             /\ UNCHANGED <<raising, used, log>>
    <3>1. frames' \in Seq(Env!Frame) /\ Len(frames') <= MaxDepth
      BY <1>7, <2>5
    <3> QED BY <1>1, <1>2, <1>4, <2>2, <2>5, <3>1
  <2> QED BY <1>8, <2>3, <2>4, <2>5 DEF Env!Import
<1>9. ASSUME NEW g \in BOOLEAN, NEW l \in Libraries, Env!Use(l, g)
      PROVE  EnvTypes'
  <2>1. /\ shape' = shape /\ cached' = cached /\ loaded' \subseteq Libraries
        /\ phase' = phase /\ teardown' = teardown /\ calls' \in 0..MaxCalls
        /\ log' = log /\ used' = used /\ raising' \in BOOLEAN
    BY <1>1, <1>3, <1>9 DEF Env!Use
  <2>2. frames' \in Seq(Env!Frame) /\ Len(frames') <= MaxDepth
    <3>1. CASE UNCHANGED frames
      BY <1>1, <3>1
    <3>2. CASE Env!Enter("pre", l, g) /\ ~(Len(frames) >= MaxDepth)
      <4>1. Len(frames) < MaxDepth
        BY <1>1, <3>2, LuaBounds
      <4> QED BY <1>7, <3>2, <4>1
    <3> QED BY <1>9, <3>1, <3>2 DEF Env!Use
  <2> QED BY <1>1, <1>2, <1>4, <2>1, <2>2
<1>10. ASSUME NEW l \in Libraries, Env!Reuse(l)
       PROVE  EnvTypes'
  <2>1. log' \in LogType
    BY <1>2, <1>10 DEF Env!Reuse, LogType
  <2> QED BY <1>1, <1>3, <1>4, <1>10, <2>1 DEF Env!Reuse, Env!env
<1>11. CASE Env!Panic \/ Env!Raise
  BY <1>1, <1>2, <1>4, <1>11 DEF Env!Panic, Env!Raise, Env!env, Env!Phases
<1>12. CASE Env!ImportDone
  <2>1. /\ frames # <<>> /\ frames' = Env!Front(frames) /\ Env!Top.kind = "import"
        /\ used' = Env!Top.mark
    BY <1>12 DEF Env!ImportDone, Env!Unmark
  <2>2. /\ frames' \in Seq(Env!Frame) /\ Len(frames') <= MaxDepth
        /\ used' \subseteq Slot /\ Env!Top.of \in Modules /\ Env!Top.guarded \in BOOLEAN
    BY <1>1, <2>1, EndPops, FramesTyped, LuaBounds DEF StackInv
  <2>3. log' \in LogType
    <3>1. log.ran[Env!Top.of] + 1 \in Nat
      BY <1>2, <2>2
    <3>2. [log.ran EXCEPT ![Env!Top.of] = log.ran[Env!Top.of] + 1] \in [Modules -> Nat]
      BY <1>2, <3>1
    <3> QED BY <1>2, <1>12, <3>2 DEF Env!ImportDone, LogType
  <2> QED BY <1>1, <1>4, <1>12, <2>2, <2>3 DEF Env!ImportDone
<1>13. CASE Env!PreDone
  <2>1. /\ frames # <<>> /\ frames' = Env!Front(frames) /\ Env!Top.kind = "pre"
        /\ used' = Env!Top.mark
    BY <1>13 DEF Env!PreDone, Env!Unmark
  <2>2. /\ frames' \in Seq(Env!Frame) /\ Len(frames') <= MaxDepth
        /\ used' \subseteq Slot /\ Env!Top.of \in Libraries /\ Env!Top.guarded \in BOOLEAN
    BY <1>1, <2>1, EndPops, FramesTyped, LuaBounds DEF StackInv
  <2>3. Env!Users(Env!Top.of) \subseteq Libraries
    <3>1. \A k \in 1..Len(frames) : frames[k].kind = "pre" => frames[k].of \in Libraries
      BY DEF StackInv
    <3>2. DOMAIN frames = 1..Len(frames)
      BY <1>1
    <3> QED BY <3>1, <3>2 DEF Env!Users, Env!Live
  <2>4. log' \in LogType
    <3>1. CASE raising
      BY <1>2, <1>13, <3>1 DEF Env!PreDone
    <3>2. CASE ~raising
      <4>1. /\ log.ready \cup {Env!Top.of} \subseteq Libraries
            /\ log.inside \cup {<<user, Env!Top.of>> : user \in Env!Users(Env!Top.of)}
                 \subseteq Libraries \X Libraries
        BY <1>2, <2>2, <2>3
      <4> QED BY <1>2, <1>13, <3>2, <4>1 DEF Env!PreDone, Env!PreLog, LogType
    <3> QED BY <3>1, <3>2
  <2>5. teardown' \in Seq(Libraries) /\ raising' \in BOOLEAN
    <3>1. Append(teardown, Env!Top.of) \in Seq(Libraries)
      BY <1>1, <2>2, AppendProperties
    <3> QED BY <1>1, <1>13, <2>2, <3>1 DEF Env!PreDone
  <2> QED BY <1>1, <1>4, <1>13, <2>2, <2>4, <2>5 DEF Env!PreDone
<1>14. CASE Env!ScriptDone
  <2>1. /\ Finish /\ used' = {} /\ raising' = FALSE /\ phase = "running"
        /\ UNCHANGED <<shape, cached, loaded, calls>>
    BY <1>14, RunGoesOn
  <2>2. CASE teardown = <<>> /\ phase' = "done" /\ frames' = <<>>
               /\ UNCHANGED <<teardown, log>>
    <3>1. <<>> \in Seq(Env!Frame) /\ Len(<<>>) <= MaxDepth
      BY LuaBounds
    <3> QED BY <1>1, <1>2, <1>4, <2>1, <2>2, <3>1 DEF Env!Phases
  <2>3. CASE /\ teardown # <<>> /\ phase' = phase
             /\ frames' = <<[kind |-> "post", of |-> Last(teardown),
                             guarded |-> TRUE, mark |-> {}]>>
             /\ teardown' = Front(teardown)
             /\ log' = [log EXCEPT !.posted = Append(@, Last(teardown))]
    <3>1. Last(teardown) \in Libraries /\ Front(teardown) \in Seq(Libraries)
      BY <2>3, TeardownPops
    <3>2. [kind |-> "post", of |-> Last(teardown), guarded |-> TRUE, mark |-> {}]
            \in Env!Frame
      BY <3>1 DEF Env!Frame
    <3>3. frames' \in Seq(Env!Frame) /\ Len(frames') = 1 /\ 1 <= MaxDepth
      BY <2>3, <3>2, LuaBounds
    <3>4. log' \in LogType
      <4>1. Append(log.posted, Last(teardown)) \in Seq(Libraries)
        BY <1>2, <3>1, AppendProperties
      <4> QED BY <1>2, <2>3, <4>1 DEF LogType
    <3> QED BY <1>1, <1>4, <2>1, <2>3, <3>1, <3>3, <3>4
  <2> QED BY <2>1, <2>2, <2>3 DEF Finish
<1>15. CASE Env!Stopped
  BY <1>1, <1>2, <1>4, <1>15 DEF Env!Stopped, Env!vars
<1> QED BY <1>6, <1>8, <1>9, <1>10, <1>11, <1>12, <1>13, <1>14, <1>15 DEF Env!Next

-----------------------------------------------------------------------------
\* The ends of the scripts that were called, field by field.
Popped ==
    /\ frames # <<>> /\ frames' = Env!Front(frames)
    /\ used' = Env!Top.mark /\ log'.leaked = log.leaked
    /\ phase = "running"
    /\ UNCHANGED <<shape, loaded, phase>>
    /\ log'.posted = log.posted

ImportEnds ==
    /\ Popped /\ Env!Top.kind = "import"
    /\ UNCHANGED teardown /\ log'.ready = log.ready /\ log'.inside = log.inside
    /\ \/ cached' = cached /\ log'.ran = log.ran
       \/ /\ cached' = cached \cup {Env!Top.of}
          /\ log'.ran = IF Env!Outermost(Env!Top.of)
                          THEN [log.ran EXCEPT ![Env!Top.of] = @ + 1] ELSE log.ran

PreEnds ==
    /\ Popped /\ Env!Top.kind = "pre"
    /\ UNCHANGED cached /\ log'.ran = log.ran
    /\ \/ UNCHANGED teardown /\ log'.ready = log.ready /\ log'.inside = log.inside
       \/ /\ log'.ready = log.ready \cup {Env!Top.of}
          /\ log'.inside = log.inside \cup
                {<<user, Env!Top.of>> : user \in Env!Users(Env!Top.of)}
          /\ teardown' = IF shape[Env!Top.of] = "post"
                           THEN Append(teardown, Env!Top.of) ELSE teardown

LEMMA EndsOfCalls ==
    ASSUME EnvTypes
    PROVE  /\ Env!ImportDone => ImportEnds
           /\ Env!PreDone => PreEnds
<1>1. /\ log = [ready |-> log.ready, posted |-> log.posted, inside |-> log.inside,
                ran |-> log.ran, unready |-> log.unready,
                leaked |-> log.leaked]
      /\ log \in LogType
  BY DEF EnvTypes, LogType
<1>2. ASSUME Env!ImportDone
      PROVE  ImportEnds
  <2>1. Popped
    BY <1>1, <1>2 DEF Env!ImportDone, Env!Unmark, Popped
  <2> QED BY <1>1, <1>2, <2>1 DEF Env!ImportDone, ImportEnds
<1>3. ASSUME Env!PreDone
      PROVE  PreEnds
  <2>1. Popped
    BY <1>1, <1>3 DEF Env!PreDone, Env!Unmark, Env!PreLog, Popped
  <2> QED BY <1>1, <1>3, <2>1 DEF Env!PreDone, Env!PreLog, PreEnds
<1> QED BY <1>2, <1>3

\* The frames that are left, and what they were.
LEMMA WhatIsLeft ==
    ASSUME EnvTypes, Popped
    PROVE  /\ Len(frames) \in 1..Len(frames) /\ Len(frames) \in Nat
           /\ Env!Top = frames[Len(frames)]
           /\ Len(frames') = Len(frames) - 1
           /\ \A k \in 1..Len(frames') : /\ k \in 1..Len(frames) /\ k < Len(frames)
                                         /\ frames'[k] = frames[k]
BY EndPops DEF Popped

LEMMA StackNext ==
    ASSUME EnvTypes, StackInv, SlotsInv, EnvSteps
    PROVE  StackInv'
<1>1. CASE Quiet
  BY <1>1 DEF Quiet, StackInv
<1>2. ASSUME NEW kind, NEW x, Called(kind, x)
      PROVE  StackInv'
  <2>1. ASSUME NEW k \in 1..Len(frames')
        PROVE  /\ frames'[k].kind \in {"main", "post"} <=> k = 1
               /\ frames'[k].kind = "import" => frames'[k].of \in Modules
               /\ frames'[k].kind = "pre" => frames'[k].of \in Libraries
    <3>1. CASE k \in 1..Len(frames)
      BY <1>2, <3>1, CallPushes DEF StackInv
    <3>2. CASE k = Len(frames')
      BY <1>2, <3>2, CallPushes DEF Called
    <3> QED BY <1>2, <2>1, <3>1, <3>2, CallPushes
  <2> QED BY <2>1 DEF StackInv
<1>3. CASE Popped
  BY <1>3, WhatIsLeft DEF StackInv
<1>4. CASE Env!ScriptDone
  <2>1. CASE frames' = <<>>
    BY <2>1 DEF StackInv
  <2>2. CASE frames' = <<[kind |-> "post", of |-> Last(teardown),
                          guarded |-> TRUE, mark |-> {}]>>
    BY <2>2 DEF StackInv
  <2> QED BY <1>4, <2>1, <2>2, RunGoesOn DEF Finish
<1>5. CASE UNCHANGED envVars
  BY <1>5 DEF envVars, StackInv
<1> QED BY <1>1, <1>2, <1>3, <1>4, <1>5, EndsOfCalls DEF EnvSteps, ImportEnds, PreEnds

LEMMA SlotsNext ==
    ASSUME EnvTypes, StackInv, SlotsInv, EnvSteps
    PROVE  SlotsInv'
<1>0. IsFiniteSet(used) /\ Cardinality(used) \in Nat /\ log.leaked \in Nat
  BY SlotsFinite DEF EnvTypes, LogType
<1>1. CASE Quiet
  <2>1. used \subseteq used' /\ Cardinality(used') <= log'.leaked
    <3>1. CASE used' = used /\ log'.leaked = log.leaked
      BY <3>1 DEF SlotsInv
    <3>2. CASE Env!Free # {} /\ used' = used \cup {Env!FreeSlot}
                 /\ log'.leaked = log.leaked + 1
      <4>1. Cardinality(used') <= Cardinality(used) + 1
        BY <1>0, <3>2, FS_AddElement
      <4>2. Cardinality(used) <= log.leaked
        BY DEF SlotsInv
      <4>3. Cardinality(used') \in Nat
        <5>1. IsFiniteSet(used')
          BY <1>0, <3>2, FS_AddElement
        <5> QED BY <5>1, FS_CardinalityType
      <4> QED BY <1>0, <3>2, <4>1, <4>2, <4>3
    <3> QED BY <1>1, <3>1, <3>2 DEF Quiet
  <2> QED BY <1>1, <2>1 DEF Quiet, SlotsInv
<1>2. ASSUME NEW kind, NEW x, Called(kind, x)
      PROVE  SlotsInv'
  <2>1. used' = used /\ Cardinality(used') <= log'.leaked /\ phase' # "done"
    BY <1>2 DEF Called, SlotsInv
  <2>2. ASSUME NEW k \in 1..Len(frames')
        PROVE  /\ frames'[k].mark \subseteq used
               /\ frames'[k].kind \in {"main", "post"} => frames'[k].mark = {}
    <3>1. CASE k \in 1..Len(frames)
      BY <1>2, <3>1, CallPushes DEF SlotsInv
    <3>2. CASE k = Len(frames')
      BY <1>2, <3>2, CallPushes DEF Called
    <3> QED BY <1>2, <2>2, <3>1, <3>2, CallPushes
  <2>3. ASSUME NEW i \in 1..Len(frames'), NEW j \in 1..Len(frames'), i <= j
        PROVE  frames'[i].mark \subseteq frames'[j].mark
    <3>1. CASE j \in 1..Len(frames)
      <4>1. i \in 1..Len(frames)
        BY <2>3, <3>1
      <4> QED BY <1>2, <2>3, <3>1, <4>1, CallPushes DEF SlotsInv
    <3>2. CASE j = Len(frames')
      BY <1>2, <2>2, <3>2, CallPushes
    <3> QED BY <1>2, <2>3, <3>1, <3>2, CallPushes
  <2> QED BY <2>1, <2>2, <2>3 DEF SlotsInv
<1>3. CASE Popped
  <2>1. used' \subseteq used
    BY <1>3, WhatIsLeft DEF Popped, SlotsInv
  <2>2. Cardinality(used') <= Cardinality(used) /\ Cardinality(used') \in Nat
    BY <1>0, <2>1, FS_Subset, FS_CardinalityType
  <2>3. Cardinality(used') <= log'.leaked
    BY <1>0, <1>3, <2>2 DEF Popped, SlotsInv
  <2>4. ASSUME NEW k \in 1..Len(frames')
        PROVE  frames'[k].mark \subseteq used'
    <3>1. frames[k].mark \subseteq frames[Len(frames)].mark
      BY <1>3, WhatIsLeft DEF SlotsInv
    <3> QED BY <1>3, <3>1, WhatIsLeft DEF Popped
  <2>5. \A i, j \in 1..Len(frames') : i <= j => frames'[i].mark \subseteq frames'[j].mark
    BY <1>3, WhatIsLeft DEF SlotsInv
  <2>6. \A k \in 1..Len(frames') :
            frames'[k].kind \in {"main", "post"} => frames'[k].mark = {}
    BY <1>3, WhatIsLeft DEF SlotsInv
  <2>7. phase' # "done"
    BY <1>3 DEF Popped
  <2> QED BY <2>3, <2>4, <2>5, <2>6, <2>7 DEF SlotsInv
<1>4. CASE Env!ScriptDone
  <2>1. used' = {} /\ Cardinality(used') = 0 /\ Finish
        /\ (phase = "running")
    BY <1>4, RunGoesOn, FS_EmptySet
  <2>2. CASE frames' = <<>> /\ phase' = "done" /\ UNCHANGED <<teardown, log>>
               /\ teardown = <<>>
    BY <1>0, <2>1, <2>2 DEF SlotsInv
  <2>3. CASE /\ phase' = phase
             /\ frames' = <<[kind |-> "post", of |-> Last(teardown),
                             guarded |-> TRUE, mark |-> {}]>>
             /\ log' = [log EXCEPT !.posted = Append(@, Last(teardown))]
    <3>1. log'.leaked = log.leaked
      BY <2>3 DEF EnvTypes, LogType
    <3>2. /\ Len(frames') = 1 /\ frames'[1].mark = {}
      BY <2>3
    <3> QED BY <1>0, <2>1, <2>3, <3>1, <3>2 DEF SlotsInv
  <2> QED BY <2>1, <2>2, <2>3 DEF Finish
<1>5. CASE UNCHANGED envVars
  BY <1>5 DEF envVars, SlotsInv
<1> QED BY <1>1, <1>2, <1>3, <1>4, <1>5, EndsOfCalls DEF EnvSteps, ImportEnds, PreEnds

LEMMA SetUpNext ==
    ASSUME EnvTypes, StackInv, SlotsInv, SetUpInv, EnvSteps
    PROVE  SetUpInv'
<1>1. CASE Quiet
  BY <1>1 DEF Quiet, LogKept, SetUpInv
<1>2. ASSUME NEW kind, NEW x, Called(kind, x)
      PROVE  SetUpInv'
  <2>1. /\ log'.ready = log.ready /\ loaded \subseteq loaded'
        /\ kind = "pre" => x \in loaded' /\ x \notin loaded
    BY <1>2 DEF Called, LogKept
  <2>2. ASSUME NEW k \in 1..Len(frames'), frames'[k].kind = "pre"
        PROVE  frames'[k].of \in loaded' /\ frames'[k].of \notin log'.ready
    <3>1. CASE k \in 1..Len(frames)
      BY <1>2, <2>1, <2>2, <3>1, CallPushes DEF SetUpInv
    <3>2. CASE k = Len(frames')
      BY <1>2, <2>1, <2>2, <3>2, CallPushes DEF SetUpInv
    <3> QED BY <1>2, <2>2, <3>1, <3>2, CallPushes
  <2>3. ASSUME NEW i \in 1..Len(frames'), NEW j \in 1..Len(frames'),
               frames'[i].kind = "pre", frames'[j].kind = "pre",
               frames'[i].of = frames'[j].of
        PROVE  i = j
    <3>1. CASE i \in 1..Len(frames) /\ j \in 1..Len(frames)
      BY <1>2, <2>3, <3>1, CallPushes DEF SetUpInv
    <3>2. CASE i \in 1..Len(frames) /\ j = Len(frames')
      BY <1>2, <2>1, <2>3, <3>2, CallPushes DEF SetUpInv
    <3>3. CASE i = Len(frames') /\ j \in 1..Len(frames)
      BY <1>2, <2>1, <2>3, <3>3, CallPushes DEF SetUpInv
    <3> QED BY <1>2, <2>3, <3>1, <3>2, <3>3, CallPushes
  <2> QED BY <2>1, <2>2, <2>3 DEF SetUpInv
<1>3. CASE ImportEnds
  <2>1. Popped /\ log'.ready = log.ready /\ loaded' = loaded
    BY <1>3 DEF ImportEnds, Popped
  <2> QED BY <2>1, WhatIsLeft DEF SetUpInv
<1>4. CASE PreEnds
  <2>1. /\ Popped /\ loaded' = loaded /\ Env!Top.kind = "pre"
        /\ log'.ready \subseteq log.ready \cup {Env!Top.of}
    BY <1>4 DEF PreEnds, Popped
  <2>2. Env!Top.of \in loaded
    BY <2>1, WhatIsLeft DEF SetUpInv
  <2>3. \A k \in 1..Len(frames') : frames'[k].kind = "pre" => frames'[k].of # Env!Top.of
    BY <2>1, WhatIsLeft DEF SetUpInv
  <2> QED BY <2>1, <2>2, <2>3, WhatIsLeft DEF SetUpInv
<1>5. CASE Env!ScriptDone
  <2>1. Finish /\ loaded' = loaded
    BY <1>5, RunGoesOn
  <2>2. log'.ready = log.ready
    BY <2>1 DEF Finish, EnvTypes, LogType
  <2>3. CASE frames' = <<>>
    BY <2>1, <2>2, <2>3 DEF SetUpInv
  <2>4. CASE frames' = <<[kind |-> "post", of |-> Last(teardown),
                          guarded |-> TRUE, mark |-> {}]>>
    <3>1. Len(frames') = 1 /\ frames'[1].kind = "post"
      BY <2>4
    <3> QED BY <2>1, <2>2, <3>1 DEF SetUpInv
  <2> QED BY <2>1, <2>3, <2>4 DEF Finish
<1>6. CASE UNCHANGED envVars
  BY <1>6 DEF envVars, SetUpInv
<1> QED BY <1>1, <1>2, <1>3, <1>4, <1>5, <1>6, EndsOfCalls DEF EnvSteps

\* The posted scripts grow by the last of those that wait.
LEMMA PostedGrows ==
    ASSUME EnvTypes, teardown # <<>>, teardown' = Front(teardown),
           log' = [log EXCEPT !.posted = Append(@, Last(teardown))]
    PROVE  /\ log'.ready = log.ready /\ log'.inside = log.inside
           /\ log'.ran = log.ran
           /\ Len(teardown) \in Nat /\ Len(log.posted) \in Nat
           /\ Len(teardown) \in 1..Len(teardown)
           /\ Len(teardown') = Len(teardown) - 1
           /\ \A k \in 1..Len(teardown') : k \in 1..Len(teardown) /\ k < Len(teardown)
                                           /\ teardown'[k] = teardown[k]
           /\ \A k \in 1..Len(teardown) : k \in 1..Len(teardown') \/ k = Len(teardown)
           /\ Len(log'.posted) = Len(log.posted) + 1
           /\ \A k \in 1..Len(log.posted) : k \in 1..Len(log'.posted)
                                            /\ log'.posted[k] = log.posted[k]
           /\ \A k \in 1..Len(log'.posted) :
                 k \in 1..Len(log.posted) \/ k = Len(log'.posted)
           /\ Len(log'.posted) \in 1..Len(log'.posted)
           /\ log'.posted[Len(log'.posted)] = teardown[Len(teardown)]
<1>1. /\ log.posted \in Seq(Libraries) /\ teardown \in Seq(Libraries)
      /\ Len(teardown) \in Nat /\ Len(log.posted) \in Nat
  BY LenProperties DEF EnvTypes, LogType, Env!TypeOK
<1>2. /\ log'.posted = Append(log.posted, Last(teardown))
      /\ log'.ready = log.ready /\ log'.inside = log.inside
      /\ log'.ran = log.ran
  BY DEF EnvTypes, LogType
<1>3. /\ Len(log'.posted) = Len(log.posted) + 1
      /\ \A k \in 1..Len(log.posted) : log'.posted[k] = log.posted[k]
      /\ log'.posted[Len(log.posted) + 1] = Last(teardown)
  BY <1>1, <1>2, TeardownPops, AppendProperties
<1>4. /\ Len(teardown) \in 1..Len(teardown) /\ Last(teardown) = teardown[Len(teardown)]
      /\ Len(teardown') = Len(teardown) - 1
      /\ \A k \in 1..(Len(teardown) - 1) : teardown'[k] = teardown[k]
  BY TeardownPops
<1> QED BY <1>1, <1>2, <1>3, <1>4

\* A library that has been set up joins those that wait.
LEMMA TeardownPushed ==
    ASSUME EnvTypes, NEW l \in Libraries, teardown' = Append(teardown, l)
    PROVE  /\ Len(teardown) \in Nat
           /\ Len(teardown') = Len(teardown) + 1
           /\ \A k \in 1..Len(teardown) : k \in 1..Len(teardown')
                                          /\ teardown'[k] = teardown[k]
           /\ \A k \in 1..Len(teardown') : k \in 1..Len(teardown) \/ k = Len(teardown')
           /\ Len(teardown') \in 1..Len(teardown') /\ Len(teardown') > Len(teardown)
           /\ teardown'[Len(teardown')] = l
<1>1. teardown \in Seq(Libraries) /\ Len(teardown) \in Nat
  BY LenProperties DEF EnvTypes, Env!TypeOK
<1>2. /\ Len(teardown') = Len(teardown) + 1
      /\ \A k \in 1..Len(teardown) : teardown'[k] = teardown[k]
      /\ teardown'[Len(teardown) + 1] = l
  BY <1>1, AppendProperties
<1> QED BY <1>1, <1>2

LEMMA TeardownNext ==
    ASSUME EnvTypes, StackInv, SlotsInv, SetUpInv, TeardownInv, EnvSteps
    PROVE  TeardownInv'
<1>1. ASSUME UNCHANGED <<teardown, shape>>, log'.posted = log.posted, log'.ready = log.ready
      PROVE  TeardownInv'
  BY <1>1 DEF TeardownInv, OnceIn, Holds, Env!Posts
<1>2. ASSUME Quiet \/ (\E kind, x : Called(kind, x)) \/ ImportEnds \/ UNCHANGED envVars
      PROVE  TeardownInv'
  BY <1>1, <1>2 DEF Quiet, Called, ImportEnds, Popped, LogKept, envVars
<1>3. CASE PreEnds
  <2> DEFINE l == Env!Top.of
  <2>1. Popped /\ Env!Top.kind = "pre" /\ shape' = shape /\ log'.posted = log.posted
    BY <1>3 DEF PreEnds, Popped
  <2>2. l \in Libraries /\ l \notin log.ready
    BY <2>1, WhatIsLeft DEF SetUpInv, StackInv
  <2>3. CASE UNCHANGED teardown /\ log'.ready = log.ready
    BY <1>1, <2>1, <2>3
  <2>4. CASE /\ log'.ready = log.ready \cup {l} /\ shape[l] # "post"
             /\ teardown' = teardown
    BY <2>1, <2>2, <2>4 DEF TeardownInv, OnceIn, Holds, Env!Posts
  <2>5. CASE /\ log'.ready = log.ready \cup {l} /\ shape[l] = "post"
             /\ teardown' = Append(teardown, l)
    <3> HIDE DEF l
    <3>1. ~Holds(teardown, l) /\ ~Holds(log.posted, l)
      BY <2>2 DEF TeardownInv, Env!Posts
    <3>2. \A x : Holds(teardown, x)' <=> Holds(teardown, x) \/ x = l
      BY <2>2, <2>5, TeardownPushed DEF Holds
    <3>3. OnceIn(teardown)'
      <4>1. ASSUME NEW i \in 1..Len(teardown'), NEW j \in 1..Len(teardown'),
                   teardown'[i] = teardown'[j]
            PROVE  i = j
        <5>1. CASE i \in 1..Len(teardown) /\ j \in 1..Len(teardown)
          BY <2>2, <2>5, <4>1, <5>1, TeardownPushed DEF TeardownInv, OnceIn
        <5>2. CASE i \in 1..Len(teardown) /\ j = Len(teardown')
          BY <2>2, <2>5, <3>1, <4>1, <5>2, TeardownPushed DEF Holds
        <5>3. CASE i = Len(teardown') /\ j \in 1..Len(teardown)
          BY <2>2, <2>5, <3>1, <4>1, <5>3, TeardownPushed DEF Holds
        <5> QED BY <2>2, <2>5, <4>1, <5>1, <5>2, <5>3, TeardownPushed
      <4> QED BY <4>1 DEF OnceIn
    <3>4. OnceIn(log.posted)' /\ \A x : Holds(log.posted, x)' <=> Holds(log.posted, x)
      BY <2>1 DEF TeardownInv, OnceIn, Holds
    <3>5. \A x : ~(Holds(teardown, x) /\ Holds(log.posted, x))'
      BY <3>1, <3>2, <3>4 DEF TeardownInv
    <3>6. \A x \in Libraries : (x \in Env!Posts)' <=> x \in Env!Posts \/ x = l
      BY <2>1, <2>2, <2>5 DEF Env!Posts
    <3>7. \A x \in Libraries :
             (x \in Env!Posts)' <=> (Holds(teardown, x) \/ Holds(log.posted, x))'
      BY <3>2, <3>4, <3>6 DEF TeardownInv
    <3> QED BY <3>3, <3>4, <3>5, <3>7 DEF TeardownInv
  <2> QED BY <1>3, <2>3, <2>4, <2>5 DEF PreEnds
<1>4. CASE Env!ScriptDone
  <2>1. Finish /\ shape' = shape
    BY <1>4, RunGoesOn
  <2>2. CASE UNCHANGED <<teardown, log>>
    BY <1>1, <2>1, <2>2
  <2>3. CASE /\ teardown # <<>> /\ teardown' = Front(teardown)
             /\ log' = [log EXCEPT !.posted = Append(@, Last(teardown))]
    <3>0. PICK l : l = teardown[Len(teardown)]
      OBVIOUS
    <3>1. \A x : Holds(log.posted, x)' <=> Holds(log.posted, x) \/ x = l
      BY <2>3, <3>0, PostedGrows DEF Holds
    <3>2. \A x : Holds(teardown, x) <=> Holds(teardown, x)' \/ x = l
      BY <2>3, <3>0, PostedGrows DEF Holds
    <3>3. ~Holds(teardown, l)' /\ ~Holds(log.posted, l)
      <4>1. Holds(teardown, l)
        BY <2>3, <3>0, PostedGrows DEF Holds
      <4>2. ~Holds(log.posted, l)
        BY <4>1 DEF TeardownInv
      <4>3. ASSUME Holds(teardown, l)'
            PROVE  FALSE
        <5>1. PICK k \in 1..Len(teardown') : teardown'[k] = l
          BY <4>3 DEF Holds
        <5> QED BY <2>3, <3>0, <5>1, PostedGrows DEF TeardownInv, OnceIn
      <4> QED BY <4>2, <4>3
    <3>4. OnceIn(teardown)'
      BY <2>3, PostedGrows DEF TeardownInv, OnceIn
    <3>5. OnceIn(log.posted)'
      <4>1. ASSUME NEW i \in 1..Len(log'.posted), NEW j \in 1..Len(log'.posted),
                   log'.posted[i] = log'.posted[j]
            PROVE  i = j
        <5>1. CASE i \in 1..Len(log.posted) /\ j \in 1..Len(log.posted)
          BY <2>3, <4>1, <5>1, PostedGrows DEF TeardownInv, OnceIn
        <5>2. CASE i \in 1..Len(log.posted) /\ j = Len(log'.posted)
          BY <2>3, <3>0, <3>3, <4>1, <5>2, PostedGrows DEF Holds
        <5>3. CASE i = Len(log'.posted) /\ j \in 1..Len(log.posted)
          BY <2>3, <3>0, <3>3, <4>1, <5>3, PostedGrows DEF Holds
        <5> QED BY <2>3, <4>1, <5>1, <5>2, <5>3, PostedGrows
      <4> QED BY <4>1 DEF OnceIn
    <3>6. \A x : (x \in Env!Posts)' <=> x \in Env!Posts
      BY <2>1, <2>3, PostedGrows DEF Env!Posts
    <3>7. ASSUME NEW x, (Holds(teardown, x) /\ Holds(log.posted, x))'
          PROVE  FALSE
      <4>1. Holds(teardown, x) /\ (Holds(log.posted, x) \/ x = l)
        BY <3>1, <3>2, <3>7
      <4> QED BY <3>3, <3>7, <4>1 DEF TeardownInv
    <3>8. \A x \in Libraries :
             (x \in Env!Posts)' <=> (Holds(teardown, x) \/ Holds(log.posted, x))'
      BY <3>1, <3>2, <3>6 DEF TeardownInv
    <3> QED BY <3>4, <3>5, <3>7, <3>8 DEF TeardownInv
  <2> QED BY <2>1, <2>2, <2>3 DEF Finish
<1> QED BY <1>2, <1>3, <1>4, EndsOfCalls DEF EnvSteps

\* Nothing is said of a library that is being set up but that it is marked.
LEMMA OrderKept ==
    ASSUME OrderInv, UNCHANGED <<teardown, shape>>, log'.posted = log.posted,
           log'.ready = log.ready, log'.inside = log.inside, loaded \subseteq loaded',
           \A u \in loaded : SettingUp(u)' => SettingUp(u)
    PROVE  OrderInv'
<1>1. ASSUME NEW u, NEW l, InOrder(u, l)
      PROVE  InOrder(u, l)'
  <2>1. (u # l /\ u \in loaded /\ l \in log.ready)'
    BY <1>1 DEF InOrder
  <2>2. (SettingUp(u) => ~Holds(log.posted, l))'
    BY <1>1 DEF InOrder, Holds
  <2>3. ({u, l} \subseteq Env!Posts =>
           \/ Before(teardown, l, u)
           \/ Holds(teardown, l) /\ Holds(log.posted, u)
           \/ Before(log.posted, u, l))'
    BY <1>1 DEF InOrder, Holds, Before, Env!Posts
  <2> QED BY <2>1, <2>2, <2>3 DEF InOrder
<1> QED BY <1>1 DEF OrderInv

\* The libraries that another one is set up by.
LEMMA UsersAre ==
    ASSUME EnvTypes, NEW l, NEW u \in Env!Users(l)
    PROVE  u # l /\ SettingUp(u)
<1>1. u # l /\ \E f \in Env!Live : f.kind = "pre" /\ f.of = u
  BY DEF Env!Users
<1>2. PICK k \in DOMAIN frames : frames[k].kind = "pre" /\ frames[k].of = u
  BY <1>1 DEF Env!Live
<1>3. k \in 1..Len(frames)
  BY <1>2, FramesTyped
<1> QED BY <1>1, <1>2, <1>3 DEF SettingUp

LEMMA OrderOfSetUp ==
    ASSUME EnvTypes, StackInv, SetUpInv, TeardownInv, OrderInv, PreEnds
    PROVE  OrderInv'
<1>0. PICK t : t = Env!Top.of
  OBVIOUS
<1>1. /\ Popped /\ Env!Top.kind = "pre"
      /\ shape' = shape /\ loaded' = loaded /\ log'.posted = log.posted
  BY DEF PreEnds, Popped
<1>2. t \in Libraries /\ t \in loaded /\ t \notin log.ready /\ SettingUp(t)
  BY <1>0, <1>1, WhatIsLeft DEF StackInv, SetUpInv, SettingUp
<1>3. \A u : SettingUp(u)' => SettingUp(u)
  BY <1>1, WhatIsLeft DEF SettingUp
<1>4. \A x : Holds(log.posted, x)' <=> Holds(log.posted, x)
  BY <1>1 DEF Holds
<1>5. CASE UNCHANGED teardown /\ log'.ready = log.ready /\ log'.inside = log.inside
  BY <1>1, <1>3, <1>5, OrderKept
<1>6. CASE /\ log'.ready = log.ready \cup {t}
           /\ log'.inside = log.inside \cup {<<user, t>> : user \in Env!Users(t)}
           /\ teardown' = IF shape[t] = "post" THEN Append(teardown, t) ELSE teardown
  <2>1. /\ \A x : Holds(teardown, x) => Holds(teardown, x)'
        /\ \A x, y : Before(teardown, x, y) => Before(teardown, x, y)'
        /\ \A x : shape[t] = "post" /\ Holds(teardown, x) => Before(teardown, x, t)'
    <3>1. CASE shape[t] # "post"
      BY <1>6, <3>1 DEF Holds, Before
    <3>2. CASE shape[t] = "post"
      BY <1>2, <1>6, <3>2, TeardownPushed DEF Holds, Before
    <3> QED BY <3>1, <3>2
  <2>2. ASSUME NEW u, NEW l, InOrder(u, l)
        PROVE  InOrder(u, l)'
    <3>1. (u # l /\ u \in loaded /\ l \in log.ready)' /\ l # t /\ l \in log.ready
      BY <1>1, <1>2, <1>6, <2>2 DEF InOrder
    <3>2. (SettingUp(u) => ~Holds(log.posted, l))'
      BY <1>3, <1>4, <2>2 DEF InOrder
    <3>3. ASSUME ({u, l} \subseteq Env!Posts)'
          PROVE  (\/ Before(teardown, l, u)
                  \/ Holds(teardown, l) /\ Holds(log.posted, u)
                  \/ Before(log.posted, u, l))'
      <4>1. l \in Env!Posts /\ (u \in Env!Posts \/ (u = t /\ shape[t] = "post"))
        BY <1>1, <1>6, <3>1, <3>3 DEF Env!Posts
      <4>2. CASE u \in Env!Posts
        <5>1. \/ Before(teardown, l, u)
              \/ Holds(teardown, l) /\ Holds(log.posted, u)
              \/ Before(log.posted, u, l)
          BY <2>2, <4>1, <4>2 DEF InOrder
        <5>2. Before(log.posted, u, l) => Before(log.posted, u, l)'
          BY <1>1 DEF Before
        <5> QED BY <1>4, <2>1, <5>1, <5>2
      <4>3. CASE u = t /\ shape[t] = "post"
        <5>1. ~Holds(log.posted, l)
          BY <1>2, <2>2, <4>3 DEF InOrder
        <5>2. Holds(teardown, l)
          BY <4>1, <5>1 DEF TeardownInv, EnvTypes, LogType, Env!Posts
        <5> QED BY <2>1, <4>3, <5>2
      <4> QED BY <4>1, <4>2, <4>3
    <3> QED BY <3>1, <3>2, <3>3 DEF InOrder
  <2>3. ASSUME NEW u \in Env!Users(t)
        PROVE  InOrder(u, t)'
    <3>1. u # t /\ SettingUp(u)
      BY <2>3, UsersAre
    <3>2. u \in loaded /\ u \notin log.ready
      BY <3>1 DEF SettingUp, SetUpInv
    <3>3. ~Holds(log.posted, t)
      BY <1>2 DEF TeardownInv, Env!Posts
    <3>4. (u \notin Env!Posts)'
      BY <1>6, <3>1, <3>2 DEF Env!Posts
    <3>5. u # t /\ (u \in loaded)' /\ (t \in log.ready)'
      BY <1>1, <1>6, <3>1, <3>2
    <3> QED BY <1>4, <3>3, <3>4, <3>5 DEF InOrder
  <2>4. ASSUME NEW x \in log'.inside
        PROVE  InOrder(x[1], x[2])'
    <3>1. CASE x \in log.inside
      BY <2>2, <3>1 DEF OrderInv
    <3>2. CASE x \in {<<user, t>> : user \in Env!Users(t)}
      BY <2>3, <3>2
    <3> QED BY <1>6, <2>4, <3>1, <3>2
  <2> QED BY <2>4 DEF OrderInv
<1> QED BY <1>0, <1>5, <1>6 DEF PreEnds

LEMMA OrderOfTeardown ==
    ASSUME EnvTypes, StackInv, SlotsInv, SetUpInv, TeardownInv, OrderInv, Env!ScriptDone
    PROVE  OrderInv'
<1>1. Finish /\ shape' = shape /\ loaded' = loaded
  BY RunGoesOn
<1>2. \A u : ~SettingUp(u)'
  <2>1. CASE frames' = <<>>
    BY <2>1 DEF SettingUp
  <2>2. CASE frames' = <<[kind |-> "post", of |-> Last(teardown),
                          guarded |-> TRUE, mark |-> {}]>>
    <3>1. Len(frames') = 1 /\ frames'[1].kind = "post"
      BY <2>2
    <3> QED BY <3>1 DEF SettingUp
  <2> QED BY <1>1, <2>1, <2>2 DEF Finish
<1>3. CASE UNCHANGED <<teardown, log>>
  BY <1>1, <1>2, <1>3, OrderKept
<1>4. CASE /\ teardown # <<>> /\ teardown' = Front(teardown)
           /\ log' = [log EXCEPT !.posted = Append(@, Last(teardown))]
  <2>0. PICK t : t = teardown[Len(teardown)]
    OBVIOUS
  <2>1. /\ \A x : Holds(log.posted, x) => Holds(log.posted, x)'
        /\ Holds(log.posted, t)'
    BY <1>4, <2>0, PostedGrows DEF Holds
  <2>2. \A x, y : Before(log.posted, x, y) => Before(log.posted, x, y)'
    BY <1>4, PostedGrows DEF Before
  <2>3. \A x : Holds(log.posted, x) => Before(log.posted, x, t)'
    <3>1. ASSUME NEW x, NEW k \in 1..Len(log.posted), log.posted[k] = x
          PROVE  Before(log.posted, x, t)'
      <4>1. /\ k \in 1..Len(log'.posted) /\ Len(log'.posted) \in 1..Len(log'.posted)
            /\ k < Len(log'.posted) /\ log'.posted[k] = x
            /\ log'.posted[Len(log'.posted)] = t
        BY <1>4, <2>0, <3>1, PostedGrows
      <4> QED BY <4>1 DEF Before
    <3> QED BY <3>1 DEF Holds
  <2>4. \A x : Holds(teardown, x) => Holds(teardown, x)' \/ x = t
    BY <1>4, <2>0, PostedGrows DEF Holds
  <2>5. \A x, y : Before(teardown, x, y) =>
           Before(teardown, x, y)' \/ (y = t /\ Holds(teardown, x)')
    <3>1. ASSUME NEW i \in 1..Len(teardown), NEW j \in 1..Len(teardown), i < j
          PROVE  /\ i \in 1..Len(teardown') /\ teardown'[i] = teardown[i]
                 /\ \/ j \in 1..Len(teardown') /\ teardown'[j] = teardown[j]
                    \/ teardown[j] = t
      BY <1>4, <2>0, <3>1, PostedGrows
    <3> QED BY <3>1 DEF Before, Holds
  <2>6. \A x : (x \in Env!Posts)' <=> x \in Env!Posts
    BY <1>1, <1>4, PostedGrows DEF Env!Posts
  <2>7. ASSUME NEW u, NEW l, InOrder(u, l)
        PROVE  InOrder(u, l)'
    <3>1. (u # l /\ u \in loaded /\ l \in log.ready)'
      BY <1>1, <1>4, <2>7, PostedGrows DEF InOrder
    <3>2. ({u, l} \subseteq Env!Posts)' =>
             \/ Before(teardown, l, u)
             \/ Holds(teardown, l) /\ Holds(log.posted, u)
             \/ Before(log.posted, u, l)
      BY <2>6, <2>7 DEF InOrder
    <3>3. ({u, l} \subseteq Env!Posts)' =>
             (\/ Before(teardown, l, u)
              \/ Holds(teardown, l) /\ Holds(log.posted, u)
              \/ Before(log.posted, u, l))'
      <4>1. Before(teardown, l, u) =>
               Before(teardown, l, u)' \/ (Holds(teardown, l)' /\ Holds(log.posted, u)')
        BY <2>1, <2>5
      <4>2. Holds(teardown, l) /\ Holds(log.posted, u) =>
               \/ Holds(teardown, l)' /\ Holds(log.posted, u)'
               \/ Before(log.posted, u, l)'
        BY <2>1, <2>3, <2>4
      <4> QED BY <2>2, <3>2, <4>1, <4>2
    <3> QED BY <1>2, <3>1, <3>3 DEF InOrder
  <2>8. log'.inside = log.inside
    BY <1>4, PostedGrows
  <2> QED BY <2>7, <2>8 DEF OrderInv
<1> QED BY <1>1, <1>3, <1>4 DEF Finish

LEMMA OrderNext ==
    ASSUME EnvTypes, StackInv, SlotsInv, SetUpInv, TeardownInv, OrderInv, EnvSteps
    PROVE  OrderInv'
<1>1. CASE Quiet
  BY <1>1, OrderKept DEF Quiet, LogKept, SettingUp
<1>2. ASSUME NEW kind, NEW x, Called(kind, x)
      PROVE  OrderInv'
  <2>1. \A u \in loaded : SettingUp(u)' => SettingUp(u)
    <3>1. ASSUME NEW u \in loaded, NEW k \in 1..Len(frames'),
                 frames'[k].kind = "pre", frames'[k].of = u
          PROVE  SettingUp(u)
      <4>1. k # Len(frames')
        BY <1>2, <3>1, CallPushes DEF Called
      <4>2. k \in 1..Len(frames) /\ frames[k] = frames'[k]
        BY <1>2, <4>1, CallPushes
      <4> QED BY <3>1, <4>2 DEF SettingUp
    <3> QED BY <3>1 DEF SettingUp
  <2> QED BY <1>2, <2>1, OrderKept DEF Called, LogKept
<1>3. CASE ImportEnds
  <2>1. \A u : SettingUp(u)' => SettingUp(u)
    BY <1>3, WhatIsLeft DEF ImportEnds, SettingUp
  <2> QED BY <1>3, <2>1, OrderKept DEF ImportEnds, Popped
<1>4. CASE UNCHANGED envVars
  BY <1>4, OrderKept DEF envVars, SettingUp
<1> QED BY <1>1, <1>2, <1>3, <1>4, OrderOfSetUp, OrderOfTeardown, EndsOfCalls DEF EnvSteps

LEMMA ImportNext ==
    ASSUME EnvTypes, StackInv, SlotsInv, ImportInv, EnvSteps
    PROVE  ImportInv'
<1>0. log.ran \in [Modules -> Nat]
  BY DEF EnvTypes, LogType
<1>1. CASE Quiet
  BY <1>1 DEF Quiet, LogKept, ImportInv, Importing
<1>2. ASSUME NEW kind, NEW y, Called(kind, y)
      PROVE  ImportInv'
  <2>1. log'.ran = log.ran /\ cached' = cached
    BY <1>2 DEF Called, LogKept
  <2>2. ASSUME NEW x \in Modules, NEW k \in 1..Len(frames'), Importing(k, x)'
        PROVE  log.ran[x] = 0
    <3>1. CASE k \in 1..Len(frames)
      <4>1. Importing(k, x)
        BY <1>2, <2>2, <3>1, CallPushes DEF Importing
      <4> QED BY <3>1, <4>1 DEF ImportInv
    <3>2. CASE k \notin 1..Len(frames)
      <4>1. kind = "import" /\ y = x
        BY <1>2, <2>2, <3>2, CallPushes DEF Importing
      <4>2. x \notin cached
        BY <1>2, <4>1 DEF Called
      <4> QED BY <1>0, <4>2 DEF ImportInv
    <3> QED BY <3>1, <3>2
  <2> QED BY <2>1, <2>2 DEF ImportInv
<1>3. CASE Popped /\ log'.ran = log.ran /\ cached \subseteq cached'
  <2>1. \A k \in 1..Len(frames') : \A x : Importing(k, x)' <=> Importing(k, x)
    BY <1>3, WhatIsLeft DEF Importing
  <2>2. \A k \in 1..Len(frames') : k \in 1..Len(frames)
    BY <1>3, WhatIsLeft
  <2> QED BY <1>3, <2>1, <2>2 DEF ImportInv
<1>4. CASE /\ Popped /\ Env!Top.kind = "import" /\ Env!Outermost(Env!Top.of)
           /\ cached' = cached \cup {Env!Top.of}
           /\ log'.ran = [log.ran EXCEPT ![Env!Top.of] = @ + 1]
  <2>0. PICK t : t = Env!Top.of
    OBVIOUS
  <2>1. /\ t \in Modules
        /\ Len(frames) \in 1..Len(frames) /\ Importing(Len(frames), t)
    BY <1>4, <2>0, WhatIsLeft DEF Popped, StackInv, Importing
  <2>2. \A k \in 1..Len(frames') : \A x : Importing(k, x)' <=> Importing(k, x)
    BY <1>4, WhatIsLeft DEF Importing
  <2>3. \A k \in 1..Len(frames') : k \in 1..Len(frames) /\ k \in 1..(Len(frames) - 1)
    BY <1>4, WhatIsLeft
  <2>4. ASSUME NEW x \in Modules
        PROVE  /\ log'.ran[x] <= 1
               /\ log'.ran[x] >= 1 => x \in cached'
               /\ \A k \in 1..Len(frames') : Importing(k, x)' => log'.ran[x] = 0
    <3>1. CASE x # t
      <4>1. log'.ran[x] = log.ran[x]
        BY <1>0, <1>4, <2>0, <3>1
      <4> QED BY <1>4, <2>2, <2>3, <4>1 DEF ImportInv
    <3>2. CASE x = t
      <4>1. log.ran[x] = 0
        BY <2>1, <3>2 DEF ImportInv
      <4>2. log'.ran[x] = 1
        BY <1>0, <1>4, <2>0, <3>2, <4>1
      <4>3. \A k \in 1..Len(frames') : ~Importing(k, x)'
        BY <1>4, <2>0, <2>2, <2>3, <3>2 DEF Env!Outermost, Importing
      <4> QED BY <1>4, <2>0, <3>2, <4>2, <4>3
    <3> QED BY <3>1, <3>2
  <2> QED BY <2>4 DEF ImportInv
<1>5. CASE Env!ScriptDone
  <2>1. Finish /\ cached' = cached
    BY <1>5, RunGoesOn
  <2>2. log'.ran = log.ran
    BY <2>1 DEF Finish, EnvTypes, LogType
  <2>3. \A k \in 1..Len(frames') : frames'[k].kind # "import"
    <3>1. CASE frames' = <<>>
      BY <3>1
    <3>2. CASE frames' = <<[kind |-> "post", of |-> Last(teardown),
                            guarded |-> TRUE, mark |-> {}]>>
      BY <3>2
    <3> QED BY <2>1, <3>1, <3>2 DEF Finish
  <2>4. \A k \in 1..Len(frames') : \A x : ~Importing(k, x)'
    BY <2>3 DEF Importing
  <2> QED BY <2>1, <2>2, <2>4 DEF ImportInv
<1>6. CASE UNCHANGED envVars
  BY <1>6 DEF envVars, ImportInv, Importing
<1> QED BY <1>1, <1>2, <1>3, <1>4, <1>5, <1>6, EndsOfCalls DEF EnvSteps, ImportEnds, PreEnds

\* Nothing has been done yet.
EnvFresh ==
    /\ log = [ready |-> {}, posted |-> <<>>, inside |-> {},
              ran |-> [x \in Modules |-> 0],
              unready |-> {}, leaked |-> 0]
    /\ used = {} /\ cached = {} /\ loaded = {} /\ teardown = <<>>
    /\ raising = FALSE /\ calls = 0 /\ phase \in {"running", "done"}
    /\ shape \in [Libraries -> Env!Shapes]
    /\ frames \in Seq(Env!Frame) /\ Len(frames) <= 1
    /\ phase = "done" => frames = <<>>
    /\ \A k \in 1..Len(frames) : /\ frames[k].kind = "main" /\ k = 1
                                  /\ frames[k].mark = {}

LEMMA EnvInit == LeavesInit => EnvInv
<1>1. <<>> \in Seq(Libraries) /\ Len(<<>>) = 0 /\ <<>> \in Seq(Env!Frame)
  OBVIOUS
<1>2. ASSUME EnvFresh
      PROVE  EnvInv
  <2>0. /\ log.ready = {} /\ log.posted = <<>> /\ log.inside = {}
        /\ log.ran = [x \in Modules |-> 0] /\ log.leaked = 0
    BY <1>2 DEF EnvFresh
  <2>1. EnvTypes
    <3>1. log \in LogType
      BY <1>1, <1>2 DEF LogType, EnvFresh
    <3>2. Len(frames) <= MaxDepth
      BY <1>2, LuaBounds, LenProperties DEF EnvFresh
    <3>3. raising \in BOOLEAN
      BY <1>2 DEF EnvFresh
    <3>4. calls \in 0..MaxCalls
      BY <1>2, LuaBounds DEF EnvFresh
    <3>5. /\ used \subseteq 0..(Slots - 1) /\ cached \subseteq Modules
          /\ loaded \subseteq Libraries /\ teardown \in Seq(Libraries)
          /\ phase \in Env!Phases
      BY <1>1, <1>2 DEF EnvFresh, Env!Phases
    <3>6. shape \in [Libraries -> Env!Shapes] /\ frames \in Seq(Env!Frame)
      BY <1>2 DEF EnvFresh
    <3>7. Env!TypeOK
      BY <3>2, <3>3, <3>4, <3>5, <3>6 DEF Env!TypeOK
    <3> QED BY <3>1, <3>7 DEF EnvTypes
  <2>2. StackInv
    BY <1>2 DEF EnvFresh, StackInv
  <2>3. SlotsInv
    BY <1>2, <2>0, FS_EmptySet DEF EnvFresh, SlotsInv
  <2>4. SetUpInv
    BY <1>2, <2>0 DEF EnvFresh, SetUpInv
  <2>5. TeardownInv
    BY <1>1, <1>2, <2>0 DEF EnvFresh, TeardownInv, OnceIn, Holds, Env!Posts
  <2>6. OrderInv
    BY <2>0 DEF OrderInv
  <2>7. ImportInv
    BY <1>2, <2>0 DEF EnvFresh, ImportInv, Importing
  <2> QED BY <2>1, <2>2, <2>3, <2>4, <2>5, <2>6, <2>7 DEF EnvInv
<1>3. ASSUME Env!Init
      PROVE  EnvInv
  <2> DEFINE f == [kind |-> "main", of |-> "script", guarded |-> TRUE, mark |-> {}]
  <2>1. f \in Env!Frame
    BY DEF Env!Frame
  <2>2. frames \in Seq(Env!Frame) /\ Len(frames) = 1 /\ frames[1] = f
    BY <1>3, <2>1 DEF Env!Init
  <2>3. \A k \in 1..Len(frames) : k = 1
    BY <2>2
  <2>4. \A k \in 1..Len(frames) : frames[k].kind = "main" /\ frames[k].mark = {}
    BY <2>2, <2>3
  <2>5. EnvFresh
    <3> HIDE DEF f
    <3> QED BY <1>3, <2>2, <2>3, <2>4 DEF Env!Init, EnvFresh
  <2> QED BY <1>2, <2>5
<1>4. ASSUME EnvRests
      PROVE  EnvInv
  <2>1. shape \in [Libraries -> Env!Shapes]
    BY <1>4 DEF EnvRests, Env!Shapes
  <2>2. EnvFresh
    BY <1>1, <1>4, <2>1 DEF EnvRests, EnvFresh
  <2> QED BY <1>2, <2>2
<1> QED BY <1>3, <1>4 DEF LeavesInit

(* The script environment, at any depth of nesting and after any failures   *)
(* (import(), use(), env_run(), and the string pool they draw on).          *)
THEOREM EnvInvariant == LeavesSpec => []EnvInv
<1>1. ASSUME EnvInv, EnvSteps, EnvTypes'
      PROVE  EnvInv'
  BY <1>1, StackNext, SlotsNext, SetUpNext, TeardownNext, OrderNext, ImportNext DEF EnvInv
<1>2. ASSUME EnvInv, Env!Next
      PROVE  EnvInv'
  BY <1>1, <1>2, StepsOfEnv, TypesNext DEF EnvInv
<1>3. ASSUME EnvInv, UNCHANGED envVars
      PROVE  EnvInv'
  <2>1. EnvSteps
    BY <1>3 DEF EnvSteps
  <2>2. EnvTypes'
    BY <1>3 DEF EnvInv, EnvTypes, envVars, Env!TypeOK, LogType, Env!Shapes,
                Env!Phases, Env!Frame
  <2> QED BY <1>1, <1>3, <2>1, <2>2
<1>4. ASSUME EnvInv, [LeavesNext]_leafVars
      PROVE  EnvInv'
  <2>1. CASE EnvStep
    BY <1>2, <1>4, <2>1 DEF EnvStep
  <2>2. CASE UNCHANGED envVars
    BY <1>3, <1>4, <2>2
  <2> QED BY <1>4, <2>1, <2>2
        DEF LeavesNext, leafVars, RegistryStep, ReaderStep, CacheStep, DiagramStep
<1> QED BY EnvInit, <1>4, PTL DEF LeavesSpec

(* Nesting costs no slots, the slots of a mark outlive what is nested in    *)
(* it, and env_run() leaves none behind (luaenv.c, string.c).               *)
THEOREM NestingCostsNoSlots == LeavesSpec => []PoolBalanced
<1>1. ASSUME EnvInv
      PROVE  PoolBalanced
  <2>1. DOMAIN frames = 1..Len(frames)
    BY <1>1, FramesTyped DEF EnvInv
  <2>2. frames # <<>> => Env!MarkIntact
    BY <1>1, FramesTyped DEF EnvInv, SlotsInv, Env!MarkIntact
  <2>3. SlotsInv
    BY <1>1 DEF EnvInv
  <2>4. phase = "done" => used = {}
    BY <2>3 DEF SlotsInv
  <2>5. phase # "panic" /\ frames # <<>> => Env!MarkIntact
    BY <2>2
  <2>6. \A i, j \in DOMAIN frames : i <= j => frames[i].mark \subseteq frames[j].mark
    BY <2>1, <2>3 DEF SlotsInv
  <2>7. \A i \in DOMAIN frames :
           frames[i].kind \in {"main", "post"} => frames[i].mark = {}
    BY <2>1, <2>3 DEF SlotsInv
  <2>8. Cardinality(used) <= log.leaked
    BY <2>3 DEF SlotsInv
  <2>9. Env!Cardinality(used) = Cardinality(used)
    BY DEF Env!Cardinality, Cardinality
  <2> QED BY <2>4, <2>5, <2>6, <2>7, <2>8, <2>9 DEF PoolBalanced, Env!PoolBalanced
<1> QED BY EnvInvariant, <1>1, PTL

(* Every library that was set up is torn down exactly once, and not before  *)
(* one that set it up (env_run()).                                          *)
THEOREM TeardownIsOrdered == LeavesSpec => []TeardownOrder
<1>1. ASSUME EnvInv
      PROVE  TeardownOrder
  <2> DEFINE s == teardown \o log.posted
  <2>1. /\ teardown \in Seq(Libraries) /\ log.posted \in Seq(Libraries)
        /\ Len(teardown) \in Nat /\ Len(log.posted) \in Nat
    BY <1>1, LenProperties DEF EnvInv, EnvTypes, LogType, Env!TypeOK
  <2>2. /\ s \in Seq(Libraries)
        /\ Len(s) = Len(teardown) + Len(log.posted)
        /\ \A i \in 1..(Len(teardown) + Len(log.posted)) :
              s[i] = IF i <= Len(teardown) THEN teardown[i]
                                           ELSE log.posted[i - Len(teardown)]
    BY <2>1, ConcatProperties
  <2> HIDE DEF s
  <2>3. DOMAIN s = 1..Len(s)
    BY <2>2
  <2>4. ASSUME NEW i \in 1..Len(s)
        PROVE  \/ i \in 1..Len(teardown) /\ s[i] = teardown[i]
               \/ /\ i > Len(teardown) /\ i - Len(teardown) \in 1..Len(log.posted)
                  /\ s[i] = log.posted[i - Len(teardown)]
    BY <2>1, <2>2
  <2>5. Env!IsInjective(s)
    <3>1. ASSUME NEW i \in 1..Len(s), NEW j \in 1..Len(s), s[i] = s[j]
          PROVE  i = j
      <4>1. CASE i \in 1..Len(teardown) /\ j \in 1..Len(teardown)
        BY <1>1, <2>1, <2>4, <3>1, <4>1 DEF EnvInv, TeardownInv, OnceIn
      <4>2. CASE i > Len(teardown) /\ j > Len(teardown)
        <5> DEFINE m == i - Len(teardown)
                   n == j - Len(teardown)
        <5>1. /\ m \in 1..Len(log.posted) /\ s[i] = log.posted[m]
              /\ n \in 1..Len(log.posted) /\ s[j] = log.posted[n]
          BY <2>1, <2>4, <4>2
        <5>2. m = n => i = j
          BY <2>1, <3>1
        <5> HIDE DEF m, n
        <5>3. m = n
          BY <1>1, <3>1, <5>1 DEF EnvInv, TeardownInv, OnceIn
        <5> QED BY <5>2, <5>3
      <4>3. ASSUME NEW m \in 1..Len(s), NEW n \in 1..Len(s), m \in 1..Len(teardown),
                   n > Len(teardown), s[m] = s[n]
            PROVE  FALSE
        <5>1. s[m] = teardown[m]
          BY <2>1, <2>4, <4>3
        <5>2. Holds(teardown, s[m])
          BY <4>3, <5>1 DEF Holds
        <5>3. /\ n - Len(teardown) \in 1..Len(log.posted)
              /\ s[m] = log.posted[n - Len(teardown)]
          BY <2>1, <2>4, <4>3
        <5>4. Holds(log.posted, s[m])
          <6> DEFINE q == n - Len(teardown)
          <6> HIDE DEF q
          <6>1. q \in 1..Len(log.posted) /\ log.posted[q] = s[m]
            BY <5>3 DEF q
          <6> QED BY <6>1 DEF Holds
        <5> QED BY <1>1, <5>2, <5>4 DEF EnvInv, TeardownInv
      <4> QED BY <2>1, <2>4, <3>1, <4>1, <4>2, <4>3
    <3> QED BY <2>3, <3>1 DEF Env!IsInjective
  <2>6. Env!Posts = Env!ToSet(s)
    <3>1. ASSUME NEW x
          PROVE  x \in Env!ToSet(s) <=> Holds(teardown, x) \/ Holds(log.posted, x)
      <4>1. ASSUME x \in Env!ToSet(s)
            PROVE  Holds(teardown, x) \/ Holds(log.posted, x)
        <5>1. PICK i \in 1..Len(s) : s[i] = x
          BY <2>3, <4>1 DEF Env!ToSet
        <5> QED BY <2>4, <5>1 DEF Holds
      <4>2. ASSUME NEW i \in 1..Len(teardown)
            PROVE  teardown[i] \in Env!ToSet(s)
        <5>1. i \in 1..Len(s) /\ s[i] = teardown[i]
          BY <2>1, <2>2
        <5> QED BY <2>3, <5>1 DEF Env!ToSet
      <4>3. ASSUME NEW i \in 1..Len(log.posted)
            PROVE  log.posted[i] \in Env!ToSet(s)
        <5>1. /\ i + Len(teardown) \in 1..(Len(teardown) + Len(log.posted))
              /\ ~(i + Len(teardown) <= Len(teardown))
              /\ i + Len(teardown) - Len(teardown) = i
          BY <2>1
        <5>2. i + Len(teardown) \in 1..Len(s) /\ s[i + Len(teardown)] = log.posted[i]
          BY <2>2, <5>1
        <5> QED BY <2>3, <5>2 DEF Env!ToSet
      <4> QED BY <4>1, <4>2, <4>3 DEF Holds
    <3>2. ASSUME NEW x
          PROVE  x \in Env!Posts <=> Holds(teardown, x) \/ Holds(log.posted, x)
      <4>1. x \in Env!Posts => x \in Libraries
        BY <1>1 DEF Env!Posts, EnvInv, EnvTypes, LogType
      <4>2. Holds(teardown, x) \/ Holds(log.posted, x) => x \in Libraries
        BY <2>1, ElementOfSeq DEF Holds
      <4> QED BY <1>1, <4>1, <4>2 DEF EnvInv, TeardownInv
    <3> QED BY <3>1, <3>2
  <2>7. ASSUME phase = "done"
        PROVE  Env!Posts = Env!ToSet(log.posted)
    <3>1. teardown = <<>>
      BY <1>1, <2>7 DEF EnvInv, SlotsInv
    <3>2. s = log.posted
      BY <2>1, <3>1, ConcatEmptySeq DEF s
    <3> QED BY <2>6, <3>2
  <2>8. Env!TornDownOnce
    BY <2>5, <2>6, <2>7 DEF Env!TornDownOnce, s
  <2>9. Env!UsersFirst
    <3>1. ASSUME NEW x \in log.inside, {x[1], x[2]} \subseteq Env!Posts,
                 Env!Contains(log.posted, x[2])
          PROVE  \E i, j \in DOMAIN log.posted :
                    i < j /\ log.posted[i] = x[1] /\ log.posted[j] = x[2]
      <4>1. InOrder(x[1], x[2])
        BY <1>1 DEF EnvInv, OrderInv
      <4>2. Holds(log.posted, x[2]) /\ ~Holds(teardown, x[2])
        BY <1>1, <3>1 DEF Env!Contains, Holds, EnvInv, TeardownInv
      <4>3. ~Before(teardown, x[2], x[1])
        BY <4>2 DEF Before, Holds
      <4>4. Before(log.posted, x[1], x[2])
        BY <3>1, <4>1, <4>2, <4>3 DEF InOrder
      <4>5. DOMAIN log.posted = 1..Len(log.posted)
        BY <2>1
      <4> QED BY <4>4, <4>5 DEF Before
    <3> QED BY <3>1 DEF Env!UsersFirst
  <2> QED BY <2>8, <2>9 DEF TeardownOrder, Env!TeardownOrder
<1> QED BY EnvInvariant, <1>1, PTL

(* Under one path, no module is run again after a run that was not inside   *)
(* another, and a library is never being set up twice (import(), use()).    *)
THEOREM ScriptsRunOnce == LeavesSpec => []RunOnce
<1>1. ASSUME EnvInv
      PROVE  RunOnce
  <2>1. DOMAIN frames = 1..Len(frames)
    BY FramesTyped DEF EnvInv
  <2>2. Env!SetUpOnce
    BY <1>1, <2>1 DEF EnvInv, SetUpInv, Env!SetUpOnce
  <2>3. Env!ImportedOnce
    BY <1>1 DEF EnvInv, ImportInv, Env!ImportedOnce
  <2> QED BY <2>2, <2>3 DEF RunOnce, Env!RunOnce
<1> QED BY EnvInvariant, <1>1, PTL

-----------------------------------------------------------------------------
(* The turns that the loop over the dependencies of n has made, when w are  *)
(* the active calls and v is the visited list.                              *)
Turns(n, w, v) ==
    IF \E k \in DOMAIN w : w[k].node = n
      THEN w[CHOOSE k \in DOMAIN w : w[k].node = n].i
      ELSE IF n \in ToSet(v) THEN Len(graph[n]) ELSE 0

DrawnNode == 1..Nodes

DiagramTypes ==
    /\ graph \in [DrawnNode -> Seq(DrawnNode)]
    /\ \A n \in DrawnNode : \A i \in 1..Len(graph[n]) : graph[n][i] < n
    /\ asked \in Seq(DrawnNode)
    /\ pass \in 1..3 /\ begun \in 0..Len(asked)
    /\ walk \in Seq([node : DrawnNode, i : Nat, hash : DrawnNode])
    /\ visited \in Seq(DrawnNode)
    /\ lines \in Seq(DrawnNode) /\ arrows \in Seq(DrawnNode \X DrawnNode)

(* The active calls are for different nodes, a dependency above its user,   *)
(* and each has kept the hash of its own.                                   *)
WalkDescends(w, v) ==
    /\ \A k \in 1..Len(w) : /\ w[k].node \in ToSet(v)
                            /\ w[k].hash = w[k].node
                            /\ w[k].i <= Len(graph[w[k].node])
    /\ \A j, k \in 1..Len(w) : j < k => w[k].node < w[j].node

\* A call for n would be made by calls for its users.
Under(n, w) == \A k \in 1..Len(w) : n < w[k].node

(* S holds the requests begun with, and of the nodes in it what their loops *)
(* have come to.                                                            *)
CameTo(S, b, w, v) ==
    /\ \A k \in 1..b : asked[k] \in S
    /\ \A n \in S : \A i \in 1..Turns(n, w, v) : graph[n][i] \in S

(* That is what has been visited: everything, ...                           *)
VisitedAll == pass < 3 => CameTo(ToSet(visited), begun, walk, visited)

(* ... and nothing without a reason.                                        *)
VisitedOnly ==
    pass < 3 => \A S \in SUBSET DrawnNode :
                    CameTo(S, begun, walk, visited) => ToSet(visited) \subseteq S

(* One line for each node visited in the first walk.                        *)
LinesDrawn ==
    /\ IsInjective(lines)
    /\ pass = 1 => lines = visited
    /\ pass > 1 => ToSet(lines) = Diagram!Needed

\* How many of the first m elements of s are e.
Among(s, m, e) == Cardinality({k \in 1..m : s[k] = e})

(* One arrow for each turn of the loops in the second.                      *)
ArrowsDrawn ==
    /\ pass = 1 => arrows = <<>>
    /\ pass > 1 => \A d, g \in DrawnNode :
          Among(arrows, Len(arrows), <<d, g>>)
            = Among(graph[g], Turns(g, walk, visited), d)

(* The diagram is drawn when all calls are over.                            *)
WalkOver == pass = 3 => walk = <<>> /\ ToSet(visited) = Diagram!Needed

(* The inductive invariant of the diagram.                                  *)
DiagramInv ==
    /\ DiagramTypes
    /\ WalkDescends(walk, visited)
    /\ VisitedAll
    /\ VisitedOnly
    /\ LinesDrawn
    /\ ArrowsDrawn
    /\ WalkOver

-----------------------------------------------------------------------------
DrawnFrame == [node : DrawnNode, i : Nat, hash : DrawnNode]

\* The frame of a new call.
NewCall(n) == [node |-> n, i |-> 0, hash |-> n]

(* What Turns means, when no node is active twice.                          *)
LEMMA TurnsAre ==
    ASSUME NEW w \in Seq(DrawnFrame), NEW v, WalkDescends(w, v)
    PROVE  /\ \A k \in 1..Len(w) : Turns(w[k].node, w, v) = w[k].i
           /\ \A n \in DrawnNode :
                 (\A k \in 1..Len(w) : w[k].node # n) =>
                     Turns(n, w, v) = IF n \in ToSet(v) THEN Len(graph[n]) ELSE 0
<1>1. Len(w) \in Nat /\ DOMAIN w = 1..Len(w)
  BY LenProperties
<1>2. \A k \in 1..Len(w) : w[k] \in DrawnFrame
  BY ElementOfSeq
<1>3. ASSUME NEW k \in 1..Len(w)
      PROVE  Turns(w[k].node, w, v) = w[k].i
  <2> DEFINE j == CHOOSE j \in DOMAIN w : w[j].node = w[k].node
  <2>1. j \in DOMAIN w /\ w[j].node = w[k].node
    BY <1>1
  <2>2. Turns(w[k].node, w, v) = w[j].i
    BY <1>1 DEF Turns
  <2> HIDE DEF j
  <2>3. w[j].node \in Nat /\ w[k].node \in Nat
    BY <1>1, <1>2, <2>1, DiagramBounds DEF DrawnFrame, DrawnNode
  <2>4. ~(j < k) /\ ~(k < j)
    BY <1>1, <2>1, <2>3 DEF WalkDescends
  <2>5. j = k
    BY <1>1, <2>1, <2>4
  <2> QED BY <2>2, <2>5
<1>4. ASSUME NEW n \in DrawnNode, \A k \in 1..Len(w) : w[k].node # n
      PROVE  Turns(n, w, v) = IF n \in ToSet(v) THEN Len(graph[n]) ELSE 0
  BY <1>1, <1>4 DEF Turns
<1> QED BY <1>3, <1>4

(* No loop goes beyond the list, and that of a node not visited has not     *)
(* begun.                                                                   *)
LEMMA TurnsBounded ==
    ASSUME DiagramTypes, NEW w \in Seq(DrawnFrame), NEW v, WalkDescends(w, v),
           NEW n \in DrawnNode
    PROVE  /\ Turns(n, w, v) \in Nat /\ Turns(n, w, v) <= Len(graph[n])
           /\ n \notin ToSet(v) => Turns(n, w, v) = 0
<1>1. Len(graph[n]) \in Nat
  BY LenProperties DEF DiagramTypes
<1>2. CASE \E k \in 1..Len(w) : w[k].node = n
  <2>1. PICK k \in 1..Len(w) : w[k].node = n
    BY <1>2
  <2>2. Turns(n, w, v) = w[k].i /\ w[k] \in DrawnFrame
    BY <2>1, TurnsAre, ElementOfSeq
  <2>3. n \in ToSet(v) /\ w[k].i <= Len(graph[n])
    BY <2>1 DEF WalkDescends
  <2> QED BY <2>2, <2>3 DEF DrawnFrame
<1>3. CASE \A k \in 1..Len(w) : w[k].node # n
  BY <1>1, <1>3, TurnsAre
<1> QED BY <1>2, <1>3

(* The visited list with one node more.                                     *)
LEMMA OneMoreVisited ==
    ASSUME NEW S, NEW v \in Seq(S), NEW n \in S
    PROVE  Append(v, n) \in Seq(S) /\ ToSet(Append(v, n)) = ToSet(v) \cup {n}
<1>1. /\ Len(v) \in Nat /\ DOMAIN v = 1..Len(v)
      /\ Append(v, n) \in Seq(S)
      /\ DOMAIN Append(v, n) = 1..(Len(v) + 1)
      /\ \A k \in 1..Len(v) : Append(v, n)[k] = v[k]
      /\ Append(v, n)[Len(v) + 1] = n
  BY AppendProperties, LenProperties
<1>2. ToSet(Append(v, n)) \subseteq ToSet(v) \cup {n}
  BY <1>1 DEF ToSet
<1>3. ToSet(v) \subseteq ToSet(Append(v, n))
  BY <1>1 DEF ToSet
<1>4. n \in ToSet(Append(v, n))
  BY <1>1 DEF ToSet
<1> QED BY <1>1, <1>2, <1>3, <1>4

(* A call for a node that was not visited begins with its loop at the start.*)
LEMMA CallMade ==
    ASSUME DiagramTypes, NEW w \in Seq(DrawnFrame), NEW v \in Seq(DrawnNode),
           WalkDescends(w, v), NEW n \in DrawnNode, n \notin ToSet(v),
           Under(n, w)
    PROVE  /\ Append(w, NewCall(n)) \in Seq(DrawnFrame)
           /\ WalkDescends(Append(w, NewCall(n)), Append(v, n))
           /\ \A m \in DrawnNode :
                 Turns(m, Append(w, NewCall(n)), Append(v, n)) = Turns(m, w, v)
<1>w. PICK w2 : w2 = Append(w, NewCall(n))
  OBVIOUS
<1>v. PICK v2 : v2 = Append(v, n)
  OBVIOUS
<1> DEFINE f == NewCall(n)
<1>0. f \in DrawnFrame /\ f.node = n /\ f.i = 0 /\ f.hash = n
  BY DEF DrawnFrame, NewCall
<1> HIDE DEF f
<1>1. /\ Len(w) \in Nat /\ w2 \in Seq(DrawnFrame)
      /\ Len(w2) = Len(w) + 1
      /\ \A k \in 1..Len(w) : w2[k] = w[k]
      /\ w2[Len(w) + 1] = f
  BY <1>0, <1>w, AppendProperties, LenProperties DEF f
<1>2. ToSet(v2) = ToSet(v) \cup {n}
  BY <1>v, OneMoreVisited
<1>3. Len(graph[n]) \in Nat /\ n \in Nat
  BY LenProperties, DiagramBounds DEF DiagramTypes, DrawnNode
<1>4. ASSUME NEW k \in 1..Len(w2)
      PROVE  /\ w2[k].node \in ToSet(v2) /\ w2[k].hash = w2[k].node
             /\ w2[k].i <= Len(graph[w2[k].node])
  <2>1. CASE k \in 1..Len(w)
    BY <1>1, <1>2, <2>1 DEF WalkDescends
  <2>2. CASE k = Len(w) + 1
    BY <1>0, <1>1, <1>2, <1>3, <2>2
  <2> QED BY <1>1, <2>1, <2>2
<1>5. ASSUME NEW j \in 1..Len(w2), NEW k \in 1..Len(w2), j < k
      PROVE  w2[k].node < w2[j].node
  <2>1. CASE k \in 1..Len(w)
    BY <1>1, <1>5, <2>1 DEF WalkDescends
  <2>2. CASE k = Len(w) + 1
    BY <1>0, <1>1, <1>5, <2>2 DEF Under
  <2> QED BY <1>1, <2>1, <2>2
<1>6. WalkDescends(w2, v2)
  BY <1>4, <1>5 DEF WalkDescends
<1>7. ASSUME NEW m \in DrawnNode
      PROVE  Turns(m, w2, v2) = Turns(m, w, v)
  <2>1. CASE m = n
    <3>1. Turns(n, w2, v2) = 0
      <4>1. Len(w) + 1 \in 1..Len(w2)
        BY <1>1
      <4>3. \A k \in 1..Len(w2) : Turns(w2[k].node, w2, v2) = w2[k].i
        BY <1>1, <1>6, TurnsAre
      <4>2. Turns(w2[Len(w) + 1].node, w2, v2) = w2[Len(w) + 1].i
        BY <4>1, <4>3
      <4> QED BY <1>0, <1>1, <4>2
    <3>2. Turns(n, w, v) = 0
      BY TurnsBounded
    <3> QED BY <2>1, <3>1, <3>2
  <2>2. CASE m # n /\ \E k \in 1..Len(w) : w[k].node = m
    <3>1. PICK k \in 1..Len(w) : w[k].node = m
      BY <2>2
    <3>2. k \in 1..Len(w2) /\ w2[k] = w[k]
      BY <1>1
    <3>0. \A l \in 1..Len(w2) : Turns(w2[l].node, w2, v2) = w2[l].i
      BY <1>1, <1>6, TurnsAre
    <3>3. Turns(w2[k].node, w2, v2) = w2[k].i
      BY <3>0, <3>2
    <3>4. Turns(w[k].node, w, v) = w[k].i
      BY TurnsAre
    <3> QED BY <3>1, <3>2, <3>3, <3>4
  <2>3. CASE m # n /\ \A k \in 1..Len(w) : w[k].node # m
    <3>1. \A k \in 1..Len(w2) : w2[k].node # m
      BY <1>0, <1>1, <2>3
    <3>2. Turns(m, w2, v2) = IF m \in ToSet(v2) THEN Len(graph[m]) ELSE 0
      BY <1>1, <1>6, <3>1, TurnsAre
    <3>3. Turns(m, w, v) = IF m \in ToSet(v) THEN Len(graph[m]) ELSE 0
      BY <2>3, TurnsAre
    <3> QED BY <1>2, <2>3, <3>2, <3>3
  <2> QED BY <2>1, <2>2, <2>3
<1> QED BY <1>w, <1>v, <1>1, <1>6, <1>7

(* A turn of the loop on top.                                               *)
LEMMA TurnMade ==
    ASSUME DiagramTypes, NEW w \in Seq(DrawnFrame), NEW v, w # <<>>,
           WalkDescends(w, v), w[Len(w)].i < Len(graph[w[Len(w)].node]),
           NEW w2 \in Seq(DrawnFrame), Len(w2) = Len(w),
           \A k \in 1..(Len(w) - 1) : w2[k] = w[k],
           w2[Len(w)] = [w[Len(w)] EXCEPT !.i = @ + 1]
    PROVE  /\ WalkDescends(w2, v)
           /\ \A m \in DrawnNode : Turns(m, w2, v) =
                 IF m = w[Len(w)].node THEN Turns(m, w, v) + 1 ELSE Turns(m, w, v)
<1> DEFINE n == Len(w)
<1>1. n \in Nat /\ n >= 1 /\ n \in 1..n
  BY EmptySeq, LenProperties
<1>2. \A k \in 1..n : w[k] \in DrawnFrame
  BY ElementOfSeq
<1>3. /\ w2[n].node = w[n].node /\ w2[n].hash = w[n].hash
      /\ w2[n].i = w[n].i + 1 /\ w[n].i \in Nat
  <2>1. w[n] \in DrawnFrame
    BY <1>1, <1>2
  <2> QED BY <2>1 DEF DrawnFrame
<1>4. \A k \in 1..n : w2[k].node = w[k].node /\ w2[k].hash = w[k].hash
  <2> SUFFICES ASSUME NEW k \in 1..n
               PROVE  w2[k].node = w[k].node /\ w2[k].hash = w[k].hash
    OBVIOUS
  <2>1. k \in 1..(n - 1) \/ k = n
    BY <1>1
  <2> QED BY <1>3, <2>1
<1>5. w[n].node \in DrawnNode /\ Len(graph[w[n].node]) \in Nat
  BY <1>1, <1>2, LenProperties DEF DrawnFrame, DiagramTypes
<1>6. \A k \in 1..n : w2[k].i <= Len(graph[w2[k].node])
  <2>1. w2[n].i <= Len(graph[w2[n].node])
    BY <1>3, <1>5
  <2>2. \A k \in 1..(n - 1) : w2[k].i <= Len(graph[w2[k].node])
    <3> SUFFICES ASSUME NEW k \in 1..(n - 1)
                 PROVE  w2[k].i <= Len(graph[w2[k].node])
      OBVIOUS
    <3>1. k \in 1..n /\ w2[k] = w[k]
      BY <1>1
    <3> QED BY <3>1 DEF WalkDescends
  <2>3. \A k \in 1..n : k \in 1..(n - 1) \/ k = n
    BY <1>1
  <2> QED BY <2>1, <2>2, <2>3
<1>7. WalkDescends(w2, v)
  BY <1>4, <1>6 DEF WalkDescends
<1>8. ASSUME NEW m \in DrawnNode
      PROVE  Turns(m, w2, v) = IF m = w[n].node THEN Turns(m, w, v) + 1 ELSE Turns(m, w, v)
  <2>1. CASE m = w[n].node
    <3>1. Turns(w2[n].node, w2, v) = w2[n].i
      <4>1. n \in 1..Len(w2)
        BY <1>1
      <4>2. \A k \in 1..Len(w2) : Turns(w2[k].node, w2, v) = w2[k].i
        BY <1>7, TurnsAre
      <4> QED BY <4>1, <4>2
    <3>2. Turns(w[n].node, w, v) = w[n].i
      BY <1>1, TurnsAre
    <3> QED BY <1>3, <2>1, <3>1, <3>2
  <2>2. CASE m # w[n].node /\ \E k \in 1..n : w[k].node = m
    <3>1. PICK k \in 1..n : w[k].node = m
      BY <2>2
    <3>2. w2[k] = w[k]
      BY <1>1, <2>2, <3>1
    <3>3. Turns(w2[k].node, w2, v) = w2[k].i
      BY <1>7, TurnsAre
    <3>4. Turns(w[k].node, w, v) = w[k].i
      BY TurnsAre
    <3> QED BY <2>2, <3>1, <3>2, <3>3, <3>4
  <2>3. CASE m # w[n].node /\ \A k \in 1..n : w[k].node # m
    <3>1. \A k \in 1..Len(w2) : w2[k].node # m
      BY <1>4, <2>3
    <3>2. Turns(m, w2, v) = IF m \in ToSet(v) THEN Len(graph[m]) ELSE 0
      BY <1>7, <3>1, TurnsAre
    <3>3. Turns(m, w, v) = IF m \in ToSet(v) THEN Len(graph[m]) ELSE 0
      BY <2>3, TurnsAre
    <3> QED BY <2>3, <3>2, <3>3
  <2> QED BY <2>1, <2>2, <2>3
<1> QED BY <1>7, <1>8

(* A call returns when its loop has come to the end of the list.            *)
LEMMA CallReturned ==
    ASSUME DiagramTypes, NEW w \in Seq(DrawnFrame), NEW v, w # <<>>,
           WalkDescends(w, v), w[Len(w)].i = Len(graph[w[Len(w)].node]),
           NEW w2 \in Seq(DrawnFrame), Len(w2) = Len(w) - 1,
           \A k \in 1..(Len(w) - 1) : w2[k] = w[k]
    PROVE  /\ WalkDescends(w2, v)
           /\ \A m \in DrawnNode : Turns(m, w2, v) = Turns(m, w, v)
<1> DEFINE n == Len(w)
<1>1. n \in Nat /\ n >= 1 /\ n \in 1..n
  BY EmptySeq, LenProperties
<1>2. \A k \in 1..n : w[k] \in DrawnFrame
  BY ElementOfSeq
<1>3. WalkDescends(w2, v)
  <2>1. \A k \in 1..(n - 1) : k \in 1..n
    BY <1>1
  <2> QED BY <2>1 DEF WalkDescends
<1>4. ASSUME NEW m \in DrawnNode
      PROVE  Turns(m, w2, v) = Turns(m, w, v)
  <2>1. CASE m = w[n].node
    <3>1. Turns(m, w, v) = Len(graph[m])
      BY <1>1, <2>1, TurnsAre
    <3>2. m \in ToSet(v)
      BY <1>1, <2>1 DEF WalkDescends
    <3>3. \A k \in 1..(n - 1) : w2[k].node # m
      <4> SUFFICES ASSUME NEW k \in 1..(n - 1) PROVE w2[k].node # m
        OBVIOUS
      <4>1. k \in 1..n /\ k < n
        BY <1>1
      <4>2. w[n].node < w[k].node
        BY <1>1, <4>1 DEF WalkDescends
      <4>3. m \in Nat
        BY DiagramBounds DEF DrawnNode
      <4> QED BY <2>1, <4>2, <4>3
    <3>4. Turns(m, w2, v) = Len(graph[m])
      BY <1>3, <3>2, <3>3, TurnsAre
    <3> QED BY <3>1, <3>4
  <2>2. CASE m # w[n].node /\ \E k \in 1..n : w[k].node = m
    <3>1. PICK k \in 1..n : w[k].node = m
      BY <2>2
    <3>2. k \in 1..(n - 1)
      BY <1>1, <2>2, <3>1
    <3>3. Turns(w2[k].node, w2, v) = w2[k].i
      BY <1>3, <3>2, TurnsAre
    <3>4. Turns(w[k].node, w, v) = w[k].i
      BY TurnsAre
    <3> QED BY <3>1, <3>2, <3>3, <3>4
  <2>3. CASE \A k \in 1..n : w[k].node # m
    <3>1. \A k \in 1..Len(w2) : w2[k].node # m
      BY <1>1, <2>3
    <3>2. Turns(m, w2, v) = IF m \in ToSet(v) THEN Len(graph[m]) ELSE 0
      BY <1>3, <3>1, TurnsAre
    <3>3. Turns(m, w, v) = IF m \in ToSet(v) THEN Len(graph[m]) ELSE 0
      BY <2>3, TurnsAre
    <3> QED BY <3>2, <3>3
  <2> QED BY <1>1, <2>1, <2>2, <2>3
<1> QED BY <1>3, <1>4

(* One element more to count.                                               *)
LEMMA OneMoreCounted ==
    ASSUME NEW s, NEW m \in Nat, NEW e
    PROVE  Among(s, m + 1, e) = IF s[m + 1] = e THEN Among(s, m, e) + 1 ELSE Among(s, m, e)
<1> DEFINE C == {k \in 1..m : s[k] = e}
           D == {k \in 1..(m + 1) : s[k] = e}
<1>1. IsFiniteSet(C)
  <2>1. C \subseteq 1..m /\ IsFiniteSet(1..m)
    BY FS_Interval
  <2> QED BY <2>1, FS_Subset
<1>2. CASE s[m + 1] = e
  <2>1. D = C \cup {m + 1} /\ m + 1 \notin C
    BY <1>2
  <2>2. Cardinality(C \cup {m + 1}) = Cardinality(C) + 1
    BY <1>1, <2>1, FS_AddElement
  <2> QED BY <1>2, <2>1, <2>2 DEF Among
<1>3. CASE s[m + 1] # e
  <2>1. D = C
    BY <1>3
  <2> QED BY <1>3, <2>1 DEF Among
<1> QED BY <1>2, <1>3

\* Only the elements counted matter.
LEMMA SameCounted ==
    ASSUME NEW s, NEW r, NEW m \in Nat, NEW e, \A k \in 1..m : r[k] = s[k]
    PROVE  Among(r, m, e) = Among(s, m, e)
<1>1. {k \in 1..m : r[k] = e} = {k \in 1..m : s[k] = e}
  OBVIOUS
<1> QED BY <1>1 DEF Among

-----------------------------------------------------------------------------
\* What follows from the types.
DiagramFacts ==
    /\ walk \in Seq(DrawnFrame) /\ visited \in Seq(DrawnNode)
    /\ Len(asked) \in Nat
    /\ \A k \in 1..Len(asked) : asked[k] \in DrawnNode
    /\ \A n \in DrawnNode : Len(graph[n]) \in Nat
    /\ \A n \in DrawnNode : \A i \in 1..Len(graph[n]) :
          graph[n][i] \in DrawnNode /\ graph[n][i] < n
    /\ ToSet(visited) \subseteq DrawnNode
    /\ DrawnNode \subseteq Nat

LEMMA DiagramFactsHold == DiagramTypes => DiagramFacts
<1> SUFFICES ASSUME DiagramTypes PROVE DiagramFacts
  OBVIOUS
<1>1. walk \in Seq(DrawnFrame) /\ visited \in Seq(DrawnNode)
  BY DEF DiagramTypes, DrawnFrame
<1>2. Len(asked) \in Nat /\ \A k \in 1..Len(asked) : asked[k] \in DrawnNode
  BY ElementOfSeq, LenProperties DEF DiagramTypes
<1>3. ASSUME NEW n \in DrawnNode
      PROVE  /\ Len(graph[n]) \in Nat
             /\ \A i \in 1..Len(graph[n]) :
                   graph[n][i] \in DrawnNode /\ graph[n][i] < n
  <2>1. graph[n] \in Seq(DrawnNode)
    BY DEF DiagramTypes
  <2> QED BY <2>1, ElementOfSeq, LenProperties DEF DiagramTypes
<1>4. ToSet(visited) \subseteq DrawnNode
  BY <1>1, ElementOfSeq, LenProperties DEF ToSet
<1>5. DrawnNode \subseteq Nat
  BY DiagramBounds DEF DrawnNode
<1> QED BY <1>1, <1>2, <1>3, <1>4, <1>5 DEF DiagramFacts

(* The head of mermaid_step1() and mermaid_step2().                         *)
LEMMA Visits ==
    ASSUME DiagramTypes, NEW n \in DrawnNode, NEW w \in Seq(DrawnFrame),
           WalkDescends(w, visited), Under(n, w),
           Diagram!Visit(n, w)
    PROVE  /\ walk' \in Seq(DrawnFrame) /\ visited' \in Seq(DrawnNode)
           /\ WalkDescends(walk', visited')
           /\ \A m \in DrawnNode : Turns(m, walk', visited') = Turns(m, w, visited)
           /\ ToSet(visited') = ToSet(visited) \cup {n}
           /\ IF n \in ToSet(visited)
                THEN visited' = visited /\ lines' = lines
                ELSE visited' = Append(visited, n)
                     /\ lines' = IF pass = 1 THEN Append(lines, n) ELSE lines
<1>0. visited \in Seq(DrawnNode)
  BY DEF DiagramTypes
<1>1. Diagram!Contains(visited, n) <=> n \in ToSet(visited)
  BY DEF Diagram!Contains, ToSet
<1>2. CASE n \in ToSet(visited)
  <2>1. walk' = w /\ visited' = visited /\ lines' = lines
    BY <1>1, <1>2 DEF Diagram!Visit
  <2> QED BY <1>0, <1>2, <2>1
<1>3. CASE n \notin ToSet(visited)
  <2>1. /\ walk' = Append(w, [node |-> n, i |-> 0, hash |-> n])
        /\ visited' = Append(visited, n)
        /\ lines' = IF pass = 1 THEN Append(lines, n) ELSE lines
    BY <1>1, <1>3 DEF Diagram!Visit, Diagram!Frame
  <2>2. /\ walk' \in Seq(DrawnFrame) /\ WalkDescends(walk', visited')
        /\ \A m \in DrawnNode : Turns(m, walk', visited') = Turns(m, w, visited)
    <3>1. /\ Append(w, NewCall(n)) \in Seq(DrawnFrame)
          /\ WalkDescends(Append(w, NewCall(n)), Append(visited, n))
          /\ \A m \in DrawnNode :
                Turns(m, Append(w, NewCall(n)), Append(visited, n)) = Turns(m, w, visited)
      BY <1>0, <1>3, CallMade
    <3>2. walk' = Append(w, NewCall(n)) /\ visited' = Append(visited, n)
      BY <2>1 DEF NewCall
    <3> QED BY <3>1, <3>2
  <2>3. visited' \in Seq(DrawnNode) /\ ToSet(visited') = ToSet(visited) \cup {n}
    BY <1>0, <2>1, OneMoreVisited
  <2> QED BY <1>3, <2>1, <2>2, <2>3
<1> QED BY <1>2, <1>3

(* A visit draws a line in the first walk only, and none twice.             *)
LEMMA LinesNext ==
    ASSUME DiagramTypes, LinesDrawn, NEW n \in DrawnNode,
           pass \in {1, 2}, UNCHANGED <<pass, graph, asked>>,
           IF n \in ToSet(visited)
             THEN visited' = visited /\ lines' = lines
             ELSE visited' = Append(visited, n)
                  /\ lines' = IF pass = 1 THEN Append(lines, n) ELSE lines
    PROVE  LinesDrawn' /\ lines' \in Seq(DrawnNode)
<1>0. lines \in Seq(DrawnNode) /\ visited \in Seq(DrawnNode)
  BY DEF DiagramTypes
<1>1. Diagram!Needed' = Diagram!Needed
  BY DEF Diagram!Needed, Diagram!Node, Diagram!ToSet
<1>2. CASE lines' = lines
  <2>1. pass = 1 => visited' = visited
    <3> SUFFICES ASSUME pass = 1, visited' # visited PROVE FALSE
      OBVIOUS
    <3>1. lines' = Append(lines, n)
      OBVIOUS
    <3>2. Len(lines') = Len(lines) + 1 /\ Len(lines) \in Nat
      BY <1>0, <3>1, AppendProperties, LenProperties
    <3> QED BY <1>2, <3>2
  <2> QED BY <1>0, <1>1, <1>2, <2>1 DEF LinesDrawn
<1>3. CASE lines' # lines
  <2>1. n \notin ToSet(lines) /\ lines' = Append(lines, n) /\ pass = 1
        /\ visited' = Append(visited, n)
    BY <1>3 DEF LinesDrawn
  <2>2. /\ Len(lines) \in Nat /\ DOMAIN lines = 1..Len(lines)
        /\ lines' \in Seq(DrawnNode)
        /\ DOMAIN lines' = 1..(Len(lines) + 1)
        /\ \A k \in 1..Len(lines) : lines'[k] = lines[k]
        /\ lines'[Len(lines) + 1] = n
    BY <1>0, <2>1, AppendProperties, LenProperties
  <2>3. \A k \in 1..Len(lines) : lines[k] # n
    BY <2>1, <2>2, Zenon DEF ToSet
  <2>4. IsInjective(lines')
    BY <2>2, <2>3 DEF LinesDrawn, IsInjective
  <2> QED BY <2>1, <2>2, <2>4 DEF LinesDrawn
<1> QED BY <1>2, <1>3

(* What is visited by the next request was asked for, ...                   *)
LEMMA RequestCame ==
    ASSUME DiagramTypes, VisitedAll, VisitedOnly, pass < 3, begun < Len(asked),
           NEW w, NEW v, ToSet(v) = ToSet(visited) \cup {asked[begun + 1]},
           WalkDescends(walk, visited),
           \A m \in DrawnNode : Turns(m, w, v) = Turns(m, walk, visited)
    PROVE  /\ CameTo(ToSet(v), begun + 1, w, v)
           /\ \A S \in SUBSET DrawnNode :
                 CameTo(S, begun + 1, w, v) => ToSet(v) \subseteq S
<1>0. /\ DiagramFacts /\ begun \in Nat /\ asked[begun + 1] \in DrawnNode
      /\ ToSet(visited) \subseteq DrawnNode
  BY DiagramFactsHold DEF DiagramFacts, DiagramTypes
<1>1. CameTo(ToSet(visited), begun, walk, visited)
  BY DEF VisitedAll
<1>2. ASSUME NEW k \in 1..(begun + 1)
      PROVE  asked[k] \in ToSet(v)
  BY <1>0, <1>1, <1>2 DEF CameTo
<1>3. ASSUME NEW m \in ToSet(v), NEW i \in 1..Turns(m, w, v)
      PROVE  graph[m][i] \in ToSet(v)
  <2>1. m \in DrawnNode
    BY <1>0
  <2>0. i \in 1..Turns(m, walk, visited)
    BY <2>1
  <2>2. CASE m \in ToSet(visited)
    BY <1>1, <2>0, <2>2 DEF CameTo
  <2>3. CASE m \notin ToSet(visited)
    <3>1. Turns(m, walk, visited) = 0
      BY <2>1, <2>3, <1>0, TurnsBounded DEF DiagramFacts
    <3> QED BY <2>0, <3>1
  <2> QED BY <2>2, <2>3
<1>4. ASSUME NEW S \in SUBSET DrawnNode, CameTo(S, begun + 1, w, v)
      PROVE  ToSet(v) \subseteq S
  <2>1. CameTo(S, begun, walk, visited)
    <3>1. \A k \in 1..begun : asked[k] \in S
      BY <1>0, <1>4 DEF CameTo
    <3>2. \A m \in S : \A i \in 1..Turns(m, walk, visited) : graph[m][i] \in S
      BY <1>4 DEF CameTo
    <3> QED BY <3>1, <3>2 DEF CameTo
  <2>2. ToSet(visited) \subseteq S
    BY <2>1 DEF VisitedOnly
  <2>3. asked[begun + 1] \in S
    BY <1>0, <1>4 DEF CameTo
  <2> QED BY <2>2, <2>3
<1> QED BY <1>2, <1>3, <1>4 DEF CameTo

(* ... and what is visited by a turn of a loop is a dependency of a node    *)
(* that was visited.                                                        *)
LEMMA DependencyCame ==
    ASSUME DiagramTypes, VisitedAll, VisitedOnly, pass < 3,
           WalkDescends(walk, visited), NEW t \in ToSet(visited),
           Turns(t, walk, visited) < Len(graph[t]),
           NEW w, NEW v,
           ToSet(v) = ToSet(visited) \cup {graph[t][Turns(t, walk, visited) + 1]},
           \A m \in DrawnNode : Turns(m, w, v) =
              IF m = t THEN Turns(m, walk, visited) + 1 ELSE Turns(m, walk, visited)
    PROVE  /\ CameTo(ToSet(v), begun, w, v)
           /\ \A S \in SUBSET DrawnNode : CameTo(S, begun, w, v) => ToSet(v) \subseteq S
<1> DEFINE d == graph[t][Turns(t, walk, visited) + 1]
<1>0. /\ DiagramFacts /\ walk \in Seq(DrawnFrame)
      /\ ToSet(visited) \subseteq DrawnNode /\ t \in DrawnNode
  BY DiagramFactsHold DEF DiagramFacts
<1>1. \A m \in DrawnNode : /\ Turns(m, walk, visited) \in Nat
                           /\ m \notin ToSet(visited) => Turns(m, walk, visited) = 0
  BY <1>0, TurnsBounded
<1>2. d \in DrawnNode
  <2>1. Len(graph[t]) \in Nat
    BY <1>0 DEF DiagramFacts
  <2>2. Turns(t, walk, visited) + 1 \in 1..Len(graph[t])
    BY <1>0, <1>1, <2>1
  <2> QED BY <1>0, <2>2 DEF DiagramFacts
<1>3. CameTo(ToSet(visited), begun, walk, visited)
  BY DEF VisitedAll
<1>4. \A k \in 1..begun : asked[k] \in ToSet(v)
  BY <1>3 DEF CameTo
<1>5. ASSUME NEW m \in ToSet(v), NEW i \in 1..Turns(m, w, v)
      PROVE  graph[m][i] \in ToSet(v)
  <2>1. m \in DrawnNode
    BY <1>0, <1>2
  <2>2. CASE i \in 1..Turns(m, walk, visited)
    <3>1. m \in ToSet(visited)
      BY <1>1, <2>1, <2>2
    <3> QED BY <1>3, <2>2, <3>1 DEF CameTo
  <2>3. CASE i \notin 1..Turns(m, walk, visited)
    <3>1. m = t /\ i = Turns(m, walk, visited) + 1
      BY <1>1, <2>1, <2>3
    <3> QED BY <3>1
  <2> QED BY <2>2, <2>3
<1>6. ASSUME NEW S \in SUBSET DrawnNode, CameTo(S, begun, w, v)
      PROVE  ToSet(v) \subseteq S
  <2>1. CameTo(S, begun, walk, visited)
    <3>1. \A k \in 1..begun : asked[k] \in S
      BY <1>6 DEF CameTo
    <3>2. ASSUME NEW m \in S, NEW i \in 1..Turns(m, walk, visited)
          PROVE  graph[m][i] \in S
      <4>1. i \in 1..Turns(m, w, v)
        BY <1>1
      <4> QED BY <1>6, <4>1 DEF CameTo
    <3> QED BY <3>1, <3>2 DEF CameTo
  <2>2. ToSet(visited) \subseteq S
    BY <2>1 DEF VisitedOnly
  <2>3. d \in S
    <3>1. t \in S
      BY <2>2
    <3>2. Turns(t, walk, visited) + 1 \in 1..Turns(t, w, v)
      BY <1>0, <1>1
    <3> QED BY <1>6, <3>1, <3>2 DEF CameTo
  <2> QED BY <2>2, <2>3
<1> QED BY <1>4, <1>5, <1>6 DEF CameTo

(* When all calls are over and all requests begun with, what was visited is *)
(* what the requests need.                                                  *)
LEMMA AllIsNeeded ==
    ASSUME DiagramTypes, VisitedAll, VisitedOnly, pass < 3,
           WalkDescends(walk, visited), walk = <<>>, begun = Len(asked)
    PROVE  ToSet(visited) = Diagram!Needed
<1> DEFINE V == ToSet(visited)
<1>0. /\ DiagramFacts /\ walk \in Seq(DrawnFrame) /\ V \subseteq DrawnNode
      /\ Len(walk) = 0
  BY DiagramFactsHold, EmptySeq DEF DiagramFacts
<1>1. \A n \in DrawnNode : Turns(n, walk, visited) = IF n \in V THEN Len(graph[n]) ELSE 0
  <2>1. \A n \in DrawnNode : \A k \in 1..Len(walk) : walk[k].node # n
    BY <1>0
  <2> QED BY <1>0, <2>1, TurnsAre
<1>2. /\ Diagram!ToSet(asked) = {asked[k] : k \in 1..Len(asked)}
      /\ \A n \in DrawnNode :
            Diagram!ToSet(graph[n]) = {graph[n][i] : i \in 1..Len(graph[n])}
  <2>1. asked \in Seq(DrawnNode) /\ \A n \in DrawnNode : graph[n] \in Seq(DrawnNode)
    BY DEF DiagramTypes
  <2>2. /\ DOMAIN asked = 1..Len(asked)
        /\ \A n \in DrawnNode : DOMAIN graph[n] = 1..Len(graph[n])
    BY <2>1, LenProperties
  <2> QED BY <2>2 DEF Diagram!ToSet
<1>3. ASSUME NEW n \in Diagram!Needed
      PROVE  n \in V
  <2>1. CameTo(V, begun, walk, visited)
    BY DEF VisitedAll
  <2>2. Diagram!ToSet(asked) \subseteq V
    BY <1>2, <2>1 DEF CameTo
  <2>3. \A m \in V : Diagram!ToSet(graph[m]) \subseteq V
    <3> SUFFICES ASSUME NEW m \in V PROVE Diagram!ToSet(graph[m]) \subseteq V
      OBVIOUS
    <3>1. Turns(m, walk, visited) = Len(graph[m]) /\ m \in DrawnNode
      BY <1>0, <1>1
    <3>2. \A i \in 1..Len(graph[m]) : graph[m][i] \in V
      BY <2>1, <3>1 DEF CameTo
    <3>3. Diagram!ToSet(graph[m]) = {graph[m][i] : i \in 1..Len(graph[m])}
      BY <1>2, <3>1
    <3> HIDE DEF V
    <3> QED BY <3>2, <3>3
  <2>4. V \in SUBSET Diagram!Node
    BY <1>0 DEF Diagram!Node, DrawnNode
  <2> HIDE DEF V
  <2> QED BY <2>2, <2>3, <2>4 DEF Diagram!Needed
<1>4. ASSUME NEW n \in V, NEW S \in SUBSET DrawnNode,
             Diagram!ToSet(asked) \subseteq S,
             \A m \in S : Diagram!ToSet(graph[m]) \subseteq S
      PROVE  n \in S
  <2>1. \A k \in 1..begun : asked[k] \in S
    BY <1>2, <1>4
  <2>2. ASSUME NEW m \in S, NEW i \in 1..Turns(m, walk, visited)
        PROVE  graph[m][i] \in S
    <3>1. m \in DrawnNode
      OBVIOUS
    <3>2. i \in 1..Len(graph[m])
      BY <1>1, <3>1
    <3>3. graph[m][i] \in Diagram!ToSet(graph[m])
      BY <1>2, <3>1, <3>2
    <3> QED BY <1>4, <3>3
  <2>3. CameTo(S, begun, walk, visited)
    BY <2>1, <2>2 DEF CameTo
  <2> QED BY <2>3 DEF VisitedOnly
<1>5. ASSUME NEW n \in V
      PROVE  n \in Diagram!Needed
  <2>1. n \in Diagram!Node /\ Diagram!Node = DrawnNode
    BY <1>0 DEF Diagram!Node, DrawnNode
  <2> QED BY <1>4, <2>1 DEF Diagram!Needed
<1> QED BY <1>3, <1>5

(* What a step that leaves graph and requests alone leaves alone.           *)
LEMMA DrawnAlike ==
    ASSUME UNCHANGED <<graph, asked>>
    PROVE  /\ Diagram!Needed' = Diagram!Needed
           /\ WalkDescends(walk, visited)' = WalkDescends(walk', visited')
           /\ \A m \in DrawnNode : Turns(m, walk, visited)' = Turns(m, walk', visited')
           /\ \A S \in SUBSET DrawnNode :
                 CameTo(S, begun, walk, visited)' = CameTo(S, begun', walk', visited')
           /\ CameTo(ToSet(visited), begun, walk, visited)'
                = CameTo(ToSet(visited'), begun', walk', visited')
<1>1. Diagram!Needed' = Diagram!Needed
  BY DEF Diagram!Needed, Diagram!Node, Diagram!ToSet
<1>2. WalkDescends(walk, visited)' = WalkDescends(walk', visited')
  BY DEF WalkDescends, ToSet
<1>3. ASSUME NEW m \in DrawnNode
      PROVE  Turns(m, walk, visited)' = Turns(m, walk', visited')
  BY DEF Turns, ToSet
<1>4. ASSUME NEW S \in SUBSET DrawnNode
      PROVE  CameTo(S, begun, walk, visited)' = CameTo(S, begun', walk', visited')
  BY DEF CameTo, Turns, ToSet
<1>5. CameTo(ToSet(visited), begun, walk, visited)'
        = CameTo(ToSet(visited'), begun', walk', visited')
  BY DEF CameTo, Turns, ToSet
<1> QED BY <1>1, <1>2, <1>3, <1>4, <1>5

\* Arrows are only drawn by a turn of a loop.
LEMMA ArrowsKept ==
    ASSUME ArrowsDrawn, pass' = pass \/ (pass > 1 /\ pass' # 1),
           graph' = graph, arrows' = arrows,
           \A g \in DrawnNode : Turns(g, walk, visited)' = Turns(g, walk, visited)
    PROVE  ArrowsDrawn'
<1>1. ASSUME NEW d \in DrawnNode, NEW g \in DrawnNode, pass > 1
      PROVE  Among(arrows, Len(arrows), <<d, g>>)'
               = Among(graph[g], Turns(g, walk, visited), d)'
  <2>1. Among(arrows, Len(arrows), <<d, g>>) = Among(graph[g], Turns(g, walk, visited), d)
    BY <1>1 DEF ArrowsDrawn
  <2>2. Among(arrows, Len(arrows), <<d, g>>)' = Among(arrows, Len(arrows), <<d, g>>)
    BY DEF Among
  <2>3. Among(graph[g], Turns(g, walk, visited), d)'
          = Among(graph[g], Turns(g, walk, visited), d)
    <3>1. Turns(g, walk, visited)' = Turns(g, walk, visited) /\ graph' = graph
      OBVIOUS
    <3> QED BY <3>1 DEF Among
  <2> QED BY <2>1, <2>2, <2>3
<1> QED BY <1>1 DEF ArrowsDrawn

-----------------------------------------------------------------------------
(* The loop of mermaid() over the requests.                                 *)
LEMMA RequestVisited ==
    ASSUME DiagramInv, Diagram!VisitWanted
    PROVE  DiagramInv'
<1> DEFINE n == asked[begun + 1]
<1>1. /\ pass \in {1, 2} /\ walk = <<>> /\ begun < Len(asked)
      /\ begun' = begun + 1 /\ UNCHANGED <<graph, asked, pass, arrows>>
      /\ Diagram!Visit(n, walk)
  BY DEF Diagram!VisitWanted
<1>2. /\ DiagramTypes /\ DiagramFacts /\ WalkDescends(walk, visited)
      /\ begun \in Nat /\ pass < 3
  BY <1>1, DiagramFactsHold DEF DiagramInv, DiagramTypes
<1>3. walk \in Seq(DrawnFrame) /\ Len(walk) = 0 /\ n \in DrawnNode
  BY <1>1, <1>2, EmptySeq DEF DiagramFacts
<1>4. Under(n, walk)
  BY <1>3 DEF Under
<1> HIDE DEF n
<1>5. /\ walk' \in Seq(DrawnFrame) /\ visited' \in Seq(DrawnNode)
      /\ WalkDescends(walk', visited')
      /\ \A m \in DrawnNode : Turns(m, walk', visited') = Turns(m, walk, visited)
      /\ ToSet(visited') = ToSet(visited) \cup {n}
      /\ IF n \in ToSet(visited)
           THEN visited' = visited /\ lines' = lines
           ELSE visited' = Append(visited, n)
                /\ lines' = IF pass = 1 THEN Append(lines, n) ELSE lines
  BY <1>1, <1>2, <1>3, <1>4, Visits
<1>6. LinesDrawn' /\ lines' \in Seq(DrawnNode)
  BY <1>1, <1>2, <1>3, <1>5, LinesNext DEF DiagramInv
<1>7. PICK w, v : w = walk' /\ v = visited'
  OBVIOUS
<1>8. /\ CameTo(ToSet(v), begun + 1, w, v)
      /\ \A S \in SUBSET DrawnNode :
            CameTo(S, begun + 1, w, v) => ToSet(v) \subseteq S
  BY <1>1, <1>2, <1>5, <1>7, RequestCame DEF DiagramInv, n
<1>9. VisitedAll' /\ VisitedOnly'
  BY <1>1, <1>7, <1>8, DrawnAlike DEF VisitedAll, VisitedOnly
<1>10. DiagramTypes'
  BY <1>1, <1>2, <1>5, <1>6 DEF DiagramTypes, DrawnFrame
<1>11. ArrowsDrawn'
  <2>1. ArrowsDrawn
    BY DEF DiagramInv
  <2>2. \A g \in DrawnNode : Turns(g, walk, visited)' = Turns(g, walk, visited)
    BY <1>1, <1>5, DrawnAlike
  <2>3. pass' = pass /\ graph' = graph /\ arrows' = arrows
    BY <1>1
  <2> QED BY <2>1, <2>2, <2>3, ArrowsKept
<1>12. WalkOver' /\ WalkDescends(walk, visited)'
  BY <1>1, <1>5, DrawnAlike DEF WalkOver
<1> QED BY <1>6, <1>9, <1>10, <1>11, <1>12 DEF DiagramInv

(* One turn of the loop over the dependencies.                              *)
LEMMA TurnTaken ==
    ASSUME DiagramInv, Diagram!VisitDep
    PROVE  DiagramInv'
<1> DEFINE top == walk[Len(walk)]
           t == top.node
           d == graph[t][top.i + 1]
           w == Append(Front(walk), [top EXCEPT !.i = @ + 1])
<1>1. /\ walk # <<>> /\ top.i < Len(graph[t])
      /\ UNCHANGED <<graph, asked, pass, begun>>
      /\ Diagram!Visit(d, w)
      /\ \/ pass = 1 /\ arrows' = arrows
         \/ pass = 2 /\ arrows' = Append(arrows, <<d, top.hash>>)
  BY DEF Diagram!VisitDep, Diagram!MoreDeps, Diagram!Top, Diagram!Last, Diagram!Advanced,
         Diagram!Front, Diagram!Edge, Front
<1>2. /\ DiagramTypes /\ DiagramFacts /\ WalkDescends(walk, visited)
      /\ walk \in Seq(DrawnFrame) /\ pass < 3
  BY <1>1, DiagramFactsHold DEF DiagramInv, DiagramFacts
<1>3. Len(walk) \in Nat /\ Len(walk) \in 1..Len(walk) /\ top \in DrawnFrame
  BY <1>1, <1>2, EmptySeq, LenProperties, ElementOfSeq
<1>4. /\ t \in ToSet(visited) /\ t \in DrawnNode /\ top.hash = t
      /\ top.i \in Nat /\ Turns(t, walk, visited) = top.i
  BY <1>2, <1>3, TurnsAre DEF WalkDescends, DrawnFrame
<1>5. d \in DrawnNode /\ d < t
  <2>1. Len(graph[t]) \in Nat /\ top.i + 1 \in 1..Len(graph[t])
    BY <1>1, <1>2, <1>4 DEF DiagramFacts
  <2> QED BY <1>2, <1>4, <2>1 DEF DiagramFacts
<1>6. /\ w \in Seq(DrawnFrame) /\ Len(w) = Len(walk)
      /\ \A k \in 1..(Len(walk) - 1) : w[k] = walk[k]
      /\ w[Len(walk)] = [top EXCEPT !.i = @ + 1]
  <2>1. [top EXCEPT !.i = @ + 1] \in DrawnFrame
    BY <1>3 DEF DrawnFrame
  <2> QED BY <1>1, <1>2, <2>1, LastReplaced
<1> HIDE DEF w
<1>7. /\ WalkDescends(w, visited)
      /\ \A m \in DrawnNode : Turns(m, w, visited) =
            IF m = t THEN Turns(m, walk, visited) + 1 ELSE Turns(m, walk, visited)
  <2>1. /\ DiagramTypes /\ walk \in Seq(DrawnFrame) /\ walk # <<>>
        /\ WalkDescends(walk, visited)
        /\ walk[Len(walk)].i < Len(graph[walk[Len(walk)].node])
    BY <1>1, <1>2
  <2>2. /\ w \in Seq(DrawnFrame) /\ Len(w) = Len(walk)
        /\ \A k \in 1..(Len(walk) - 1) : w[k] = walk[k]
        /\ w[Len(walk)] = [walk[Len(walk)] EXCEPT !.i = @ + 1]
    BY <1>6
  <2> QED BY ONLY <2>1, <2>2, TurnMade
<1>8. Under(d, w)
  <2> SUFFICES ASSUME NEW k \in 1..Len(walk) PROVE d < w[k].node
    BY <1>6 DEF Under
  <2>1. w[k].node = walk[k].node
    <3>1. k \in 1..(Len(walk) - 1) \/ k = Len(walk)
      BY <1>3
    <3>2. [top EXCEPT !.i = @ + 1].node = top.node
      BY <1>3 DEF DrawnFrame
    <3> QED BY <1>6, <3>1, <3>2
  <2>2. k = Len(walk) \/ t < walk[k].node
    <3>1. k = Len(walk) \/ k < Len(walk)
      BY <1>3
    <3> QED BY <1>2, <1>3, <3>1 DEF WalkDescends
  <2>3. walk[k] \in DrawnFrame /\ walk[k].node \in DrawnNode
    <3>1. walk[k] \in DrawnFrame
      BY <1>2, ElementOfSeq
    <3> QED BY <3>1 DEF DrawnFrame
  <2>4. d \in Nat /\ t \in Nat /\ walk[k].node \in Nat
    BY <1>2, <1>4, <1>5, <2>3 DEF DiagramFacts
  <2> QED BY <1>5, <2>1, <2>2, <2>4
<1>9. PICK e : e = d
  OBVIOUS
<1>10. /\ walk' \in Seq(DrawnFrame) /\ visited' \in Seq(DrawnNode)
       /\ WalkDescends(walk', visited')
       /\ \A m \in DrawnNode : Turns(m, walk', visited') = Turns(m, w, visited)
       /\ ToSet(visited') = ToSet(visited) \cup {e}
       /\ IF e \in ToSet(visited)
            THEN visited' = visited /\ lines' = lines
            ELSE visited' = Append(visited, e)
                 /\ lines' = IF pass = 1 THEN Append(lines, e) ELSE lines
  <2>1. Diagram!Visit(e, w) /\ Under(e, w) /\ e \in DrawnNode
    BY <1>1, <1>5, <1>8, <1>9
  <2> QED BY <1>2, <1>6, <1>7, <2>1, Visits
<1>11. pass \in {1, 2}
  BY <1>1
<1>12. LinesDrawn' /\ lines' \in Seq(DrawnNode)
  <2>1. e \in DrawnNode
    BY <1>5, <1>9
  <2> QED BY <1>1, <1>2, <1>10, <1>11, <2>1, LinesNext DEF DiagramInv
<1>13. VisitedAll' /\ VisitedOnly'
  <2>1. PICK x, v : x = walk' /\ v = visited'
    OBVIOUS
  <2>2. ToSet(v) = ToSet(visited) \cup {graph[t][Turns(t, walk, visited) + 1]}
    BY <1>4, <1>9, <1>10, <2>1
  <2>3. \A m \in DrawnNode : Turns(m, x, v) =
           IF m = t THEN Turns(m, walk, visited) + 1 ELSE Turns(m, walk, visited)
    BY <1>7, <1>10, <2>1
  <2>4. Turns(t, walk, visited) < Len(graph[t])
    BY <1>1, <1>4
  <2>5. VisitedAll /\ VisitedOnly
    BY DEF DiagramInv
  <2>6. PICK u : u = t
    OBVIOUS
  <2>7. /\ CameTo(ToSet(v), begun, x, v)
        /\ \A S \in SUBSET DrawnNode : CameTo(S, begun, x, v) => ToSet(v) \subseteq S
    BY <1>2, <1>4, <2>2, <2>3, <2>4, <2>5, <2>6, DependencyCame
  <2> QED BY <1>1, <2>1, <2>7, DrawnAlike DEF VisitedAll, VisitedOnly
<1>14. arrows' \in Seq(DrawnNode \X DrawnNode)
  <2>1. arrows \in Seq(DrawnNode \X DrawnNode) /\ <<d, top.hash>> \in DrawnNode \X DrawnNode
    BY <1>2, <1>4, <1>5 DEF DiagramTypes
  <2> QED BY <1>1, <2>1, AppendProperties
<1>15. DiagramTypes'
  BY <1>1, <1>2, <1>10, <1>12, <1>14 DEF DiagramTypes, DrawnFrame
<1>16. ArrowsDrawn'
  <2>0. ArrowsDrawn
    BY DEF DiagramInv
  <2>1. CASE pass = 1
    BY <1>1, <2>0, <2>1 DEF ArrowsDrawn
  <2>2. CASE pass = 2
    <3>1. /\ arrows \in Seq(DrawnNode \X DrawnNode) /\ arrows' = Append(arrows, <<d, t>>)
      <4>1. arrows' = Append(arrows, <<d, top.hash>>) /\ top.hash = t
        BY <1>1, <1>4, <2>2
      <4>2. arrows \in Seq(DrawnNode \X DrawnNode)
        BY <1>2 DEF DiagramTypes
      <4> HIDE DEF d, t
      <4> QED BY <4>1, <4>2
    <3>2. /\ Len(arrows) \in Nat /\ Len(arrows') = Len(arrows) + 1
          /\ \A k \in 1..Len(arrows) : arrows'[k] = arrows[k]
          /\ arrows'[Len(arrows) + 1] = <<d, t>>
      <4>1. <<d, t>> \in DrawnNode \X DrawnNode
        BY <1>4, <1>5
      <4> QED BY <3>1, <4>1, AppendProperties, LenProperties
    <3>3. PICK s : s = arrows'
      OBVIOUS
    <3>4. ASSUME NEW x \in DrawnNode, NEW g \in DrawnNode
          PROVE  Among(s, Len(s), <<x, g>>) = Among(graph[g], Turns(g, walk', visited'), x)
      <4>1. Among(arrows, Len(arrows), <<x, g>>)
              = Among(graph[g], Turns(g, walk, visited), x)
        BY <2>0, <2>2 DEF ArrowsDrawn
      <4>2. Among(s, Len(arrows), <<x, g>>) = Among(arrows, Len(arrows), <<x, g>>)
        <5>1. PICK r : r = arrows
          OBVIOUS
        <5>2. Len(r) \in Nat /\ \A k \in 1..Len(r) : s[k] = r[k]
          BY <3>2, <3>3, <5>1
        <5>3. Among(s, Len(r), <<x, g>>) = Among(r, Len(r), <<x, g>>)
          BY <5>2, SameCounted
        <5> QED BY <5>1, <5>3
      <4>3. Among(s, Len(s), <<x, g>>) =
              IF d = x /\ t = g THEN Among(s, Len(arrows), <<x, g>>) + 1
                               ELSE Among(s, Len(arrows), <<x, g>>)
        <5>1. Among(s, Len(arrows) + 1, <<x, g>>) =
                IF s[Len(arrows) + 1] = <<x, g>>
                  THEN Among(s, Len(arrows), <<x, g>>) + 1
                  ELSE Among(s, Len(arrows), <<x, g>>)
          BY <3>2, OneMoreCounted
        <5>2. s[Len(arrows) + 1] = <<x, g>> <=> d = x /\ t = g
          BY <3>2, <3>3
        <5>3. Len(s) = Len(arrows) + 1
          BY <3>2, <3>3
        <5> QED BY <5>1, <5>2, <5>3
      <4>4. CASE g = t
        <5>1. Turns(g, walk', visited') = top.i + 1 /\ Turns(g, walk, visited) = top.i
          BY <1>4, <1>7, <1>10, <4>4
        <5>2. Among(graph[t], top.i + 1, x) =
                IF d = x THEN Among(graph[t], top.i, x) + 1 ELSE Among(graph[t], top.i, x)
          BY <1>4, OneMoreCounted
        <5> QED BY <4>1, <4>2, <4>3, <4>4, <5>1, <5>2
      <4>5. CASE g # t
        <5>1. Turns(g, walk', visited') = Turns(g, walk, visited)
          BY <1>7, <1>10, <4>5
        <5> QED BY <4>1, <4>2, <4>3, <4>5, <5>1
      <4> QED BY <4>4, <4>5
    <3> QED BY <1>1, <2>2, <3>3, <3>4, DrawnAlike DEF ArrowsDrawn
  <2> QED BY <1>11, <2>1, <2>2
<1>17. WalkOver' /\ WalkDescends(walk, visited)'
  BY <1>1, <1>10, <1>11, DrawnAlike DEF WalkOver
<1> QED BY <1>12, <1>13, <1>15, <1>16, <1>17 DEF DiagramInv

(* The return of a call.                                                    *)
LEMMA NodeLeft ==
    ASSUME DiagramInv, Diagram!LeaveNode
    PROVE  DiagramInv'
<1> DEFINE top == walk[Len(walk)]
           w == SubSeq(walk, 1, Len(walk) - 1)
<1>1. /\ walk # <<>> /\ ~(top.i < Len(graph[top.node])) /\ walk' = w
      /\ UNCHANGED <<graph, asked, pass, begun, visited, lines, arrows>>
  BY DEF Diagram!LeaveNode, Diagram!MoreDeps, Diagram!Top, Diagram!Last, Diagram!Front
<1>2. /\ DiagramTypes /\ DiagramFacts /\ WalkDescends(walk, visited)
      /\ walk \in Seq(DrawnFrame) /\ pass # 3
  BY <1>1, DiagramFactsHold DEF DiagramInv, DiagramFacts, WalkOver
<1>3. Len(walk) \in Nat /\ Len(walk) \in 1..Len(walk) /\ top \in DrawnFrame
  BY <1>1, <1>2, EmptySeq, LenProperties, ElementOfSeq
<1>4. top.i = Len(graph[top.node])
  <2>1. top.i \in Nat /\ top.node \in DrawnNode
    BY <1>3 DEF DrawnFrame
  <2>2. top.i <= Len(graph[top.node]) /\ Len(graph[top.node]) \in Nat
    BY <1>2, <1>3, <2>1 DEF WalkDescends, DiagramFacts
  <2> QED BY <1>1, <2>1, <2>2
<1>5. /\ w \in Seq(DrawnFrame) /\ Len(w) = Len(walk) - 1
      /\ \A k \in 1..(Len(walk) - 1) : w[k] = walk[k]
  BY <1>1, <1>2, FrontOfSeq
<1> HIDE DEF w
<1>6. /\ WalkDescends(w, visited)
      /\ \A m \in DrawnNode : Turns(m, w, visited) = Turns(m, walk, visited)
  BY <1>1, <1>2, <1>4, <1>5, CallReturned
<1>7. /\ WalkDescends(walk, visited)'
      /\ \A m \in DrawnNode : Turns(m, walk, visited)' = Turns(m, walk, visited)
  BY <1>1, <1>6, DrawnAlike
<1>8. DiagramTypes'
  BY <1>1, <1>2, <1>5 DEF DiagramTypes, DrawnFrame
<1>9. LinesDrawn' /\ ArrowsDrawn'
  <2>1. LinesDrawn' = LinesDrawn
    BY <1>1, DrawnAlike DEF LinesDrawn
  <2>2. LinesDrawn /\ ArrowsDrawn
    BY DEF DiagramInv
  <2>3. pass' = pass /\ graph' = graph /\ arrows' = arrows
    BY <1>1
  <2>4. ArrowsDrawn'
    BY <1>7, <2>2, <2>3, ArrowsKept
  <2> QED BY <2>1, <2>2, <2>4
<1>10. VisitedAll' /\ VisitedOnly'
  <2>1. PICK x : x = walk'
    OBVIOUS
  <2>2. \A S \in SUBSET DrawnNode :
           CameTo(S, begun, x, visited) <=> CameTo(S, begun, walk, visited)
    <3>1. \A m \in DrawnNode : Turns(m, x, visited) = Turns(m, walk, visited)
      BY <1>1, <1>6, <2>1
    <3> QED BY <3>1 DEF CameTo
  <2>3. ToSet(visited) \in SUBSET DrawnNode
    BY <1>2 DEF DiagramFacts
  <2>4. ToSet(visited') = ToSet(visited)
    BY <1>1
  <2>5. VisitedAll /\ VisitedOnly
    BY DEF DiagramInv
  <2>6. VisitedAll'
    BY <1>1, <2>1, <2>2, <2>3, <2>4, <2>5, DrawnAlike DEF VisitedAll
  <2>7. VisitedOnly'
    BY <1>1, <2>1, <2>2, <2>4, <2>5, DrawnAlike DEF VisitedOnly
  <2> QED BY <2>6, <2>7
<1>11. WalkOver'
  BY <1>1, <1>2 DEF WalkOver
<1> QED BY <1>7, <1>8, <1>9, <1>10, <1>11 DEF DiagramInv

(* The end of the first walk, with the lists of the second empty, and of    *)
(* the second.                                                              *)
LEMMA PassEnds ==
    ASSUME DiagramInv, Diagram!EndPass
    PROVE  DiagramInv'
<1>1. /\ pass \in {1, 2} /\ walk = <<>> /\ begun = Len(asked)
      /\ pass' = pass + 1 /\ begun' = 0
      /\ visited' = IF pass = 1 THEN <<>> ELSE visited
      /\ UNCHANGED <<graph, asked, walk, lines, arrows>>
  BY DEF Diagram!EndPass
<1>2. /\ DiagramTypes /\ DiagramFacts /\ WalkDescends(walk, visited)
      /\ VisitedAll /\ VisitedOnly /\ LinesDrawn /\ ArrowsDrawn
  BY DiagramFactsHold DEF DiagramInv
<1>3. ToSet(visited) = Diagram!Needed
  BY <1>1, <1>2, AllIsNeeded
<1>4. visited' \in Seq(DrawnNode) /\ Len(walk) = 0
  BY <1>1, <1>2, EmptySeq DEF DiagramTypes
<1>5. DiagramTypes'
  BY <1>1, <1>2, <1>4, LenProperties DEF DiagramTypes
<1>6. WalkDescends(walk, visited)'
  <2>1. Len(walk') = 0
    BY <1>1, <1>4
  <2> QED BY <2>1 DEF WalkDescends
<1>7. LinesDrawn'
  <2>1. pass = 1 => ToSet(lines) = Diagram!Needed
    BY <1>2, <1>3 DEF LinesDrawn
  <2>2. lines' = lines /\ Diagram!Needed' = Diagram!Needed /\ pass' > 1 /\ pass' # 1
    BY <1>1, DrawnAlike
  <2> QED BY <1>1, <1>2, <2>1, <2>2 DEF LinesDrawn
<1>8. CASE pass = 1
  <2>1. pass' = 2 /\ visited' = <<>> /\ walk' = <<>> /\ arrows = <<>> /\ arrows' = arrows
    BY <1>1, <1>2, <1>8 DEF ArrowsDrawn
  <2>2. Len(<<>>) = 0 /\ <<>> \in Seq(DrawnFrame) /\ ToSet(<<>>) = {}
    BY EmptySeq, LenProperties DEF ToSet
  <2>3. \A m \in DrawnNode : Turns(m, <<>>, <<>>) = 0
    BY <2>2 DEF Turns
  <2>4. CameTo({}, 0, <<>>, <<>>)
    BY SMT DEF CameTo
  <2>5. VisitedAll' /\ VisitedOnly'
    BY <1>1, <2>1, <2>2, <2>4, DrawnAlike DEF VisitedAll, VisitedOnly
  <2>6. ArrowsDrawn'
    <3>2. \A g \in DrawnNode : Turns(g, walk, visited)' = 0
      BY <1>1, <2>1, <2>3, DrawnAlike
    <3>3. \A d, g \in DrawnNode : Among(arrows, Len(arrows), <<d, g>>)'
             = Among(graph[g], Turns(g, walk, visited), d)'
      <4> SUFFICES ASSUME NEW d \in DrawnNode, NEW g \in DrawnNode
                   PROVE  Among(arrows, Len(arrows), <<d, g>>)'
                            = Among(graph[g], Turns(g, walk, visited), d)'
        OBVIOUS
      <4>1. Among(arrows, Len(arrows), <<d, g>>)' = Cardinality({})
        BY <2>1, <2>2 DEF Among
      <4>2. Among(graph[g], Turns(g, walk, visited), d)' = Cardinality({})
        BY <3>2 DEF Among
      <4> QED BY <4>1, <4>2
    <3> QED BY <2>1, <3>3 DEF ArrowsDrawn
  <2>7. WalkOver'
    BY <2>1 DEF WalkOver
  <2> QED BY <1>5, <1>6, <1>7, <2>5, <2>6, <2>7 DEF DiagramInv
<1>9. CASE pass = 2
  <2>1. pass' = 3 /\ visited' = visited /\ walk' = walk
    BY <1>1, <1>9
  <2>2. VisitedAll' /\ VisitedOnly'
    BY <2>1 DEF VisitedAll, VisitedOnly
  <2>3. \A g \in DrawnNode : Turns(g, walk, visited)' = Turns(g, walk, visited)
    BY <1>1, <2>1, DrawnAlike
  <2>4. ArrowsDrawn'
    BY <1>1, <1>2, <1>9, <2>1, <2>3, ArrowsKept
  <2>5. WalkOver'
    BY <1>1, <1>3, <2>1, DrawnAlike DEF WalkOver
  <2> QED BY <1>5, <1>6, <1>7, <2>2, <2>4, <2>5 DEF DiagramInv
<1> QED BY <1>1, <1>8, <1>9

(* The walk starts in a state that satisfies the invariant, and rests in one.*)
LEMMA DiagramInit == LeavesInit => DiagramInv
<1>0. /\ 0 \in Nat /\ ToSet(<<>>) = {} /\ Len(<<>>) = 0
      /\ \A S : <<>> \in Seq(S)
      /\ DrawnNode = Diagram!Node
  BY EmptySeq, LenProperties DEF ToSet, DrawnNode, Diagram!Node
<1>1. ASSUME graph \in Diagram!Graphs, asked \in BoundedSeq(Diagram!Node, Nodes)
      PROVE  /\ graph \in [DrawnNode -> Seq(DrawnNode)]
             /\ \A n \in DrawnNode : \A i \in 1..Len(graph[n]) : graph[n][i] < n
             /\ asked \in Seq(DrawnNode)
  <2>1. \A m \in Nat : \A q \in BoundedSeq(DrawnNode, m) : q \in Seq(DrawnNode)
    BY DEF BoundedSeq, SeqOf
  <2>2. Diagram!BoundedSeq(DrawnNode, MaxEdges) = BoundedSeq(DrawnNode, MaxEdges)
    BY DEF Diagram!BoundedSeq, Diagram!SeqOf, BoundedSeq, SeqOf
  <2>3. graph \in [DrawnNode -> BoundedSeq(DrawnNode, MaxEdges)]
    BY <1>0, <1>1, <2>2 DEF Diagram!Graphs
  <2>4. graph \in [DrawnNode -> Seq(DrawnNode)]
    BY <2>1, <2>3, DiagramBounds
  <2>5. \A n \in DrawnNode : DOMAIN graph[n] = 1..Len(graph[n])
    BY <2>4, LenProperties
  <2>6. \A n \in DrawnNode : \A i \in 1..Len(graph[n]) : graph[n][i] < n
    BY <1>0, <1>1, <2>5 DEF Diagram!Graphs
  <2> QED BY <1>0, <1>1, <2>1, <2>4, <2>6, DiagramBounds
<1>2. ASSUME walk = <<>>, visited = <<>>
      PROVE  /\ WalkDescends(walk, visited)
             /\ \A n \in DrawnNode : Turns(n, walk, visited) = 0
  BY <1>0, <1>2 DEF WalkDescends, Turns
<1>3. ASSUME Diagram!Init
      PROVE  DiagramInv
  <2>1. /\ graph \in Diagram!Graphs /\ asked \in BoundedSeq(Diagram!Node, Nodes)
        /\ pass = 1 /\ begun = 0 /\ walk = <<>> /\ visited = <<>>
        /\ lines = <<>> /\ arrows = <<>>
    BY <1>3 DEF Diagram!Init, Diagram!BoundedSeq, Diagram!SeqOf, BoundedSeq, SeqOf
  <2>2. DiagramTypes
    BY <1>0, <1>1, <2>1, LenProperties DEF DiagramTypes
  <2>3. VisitedAll /\ VisitedOnly
    BY <1>0, <2>1 DEF VisitedAll, VisitedOnly, CameTo
  <2>4. LinesDrawn /\ ArrowsDrawn /\ WalkOver
    <3>1. IsInjective(lines)
      BY <1>0, <2>1 DEF IsInjective
    <3> QED BY <2>1, <3>1 DEF LinesDrawn, ArrowsDrawn, WalkOver
  <2> QED BY <1>2, <2>1, <2>2, <2>3, <2>4 DEF DiagramInv
<1>4. ASSUME DiagramRests
      PROVE  DiagramInv
  <2>1. /\ graph = [n \in DrawnNode |-> <<>>] /\ asked = <<>>
        /\ pass = 3 /\ begun = 0 /\ walk = <<>> /\ visited = <<>>
        /\ lines = <<>> /\ arrows = <<>>
    BY <1>0, <1>4 DEF DiagramRests
  <2>2. DiagramTypes
    BY <1>0, <2>1 DEF DiagramTypes
  <2>3. VisitedAll /\ VisitedOnly
    BY <2>1 DEF VisitedAll, VisitedOnly
  <2>4. Diagram!Needed = {}
    <3>1. Diagram!ToSet(asked) \subseteq {}
      BY <2>1 DEF Diagram!ToSet
    <3> QED BY <3>1 DEF Diagram!Needed
  <2>5. LinesDrawn /\ WalkOver
    <3>1. IsInjective(lines)
      BY <1>0, <2>1 DEF IsInjective
    <3> QED BY <1>0, <2>1, <2>4, <3>1 DEF LinesDrawn, WalkOver
  <2>6. ArrowsDrawn
    <3> SUFFICES ASSUME NEW d \in DrawnNode, NEW g \in DrawnNode
                 PROVE  Among(arrows, Len(arrows), <<d, g>>)
                          = Among(graph[g], Turns(g, walk, visited), d)
      BY <2>1 DEF ArrowsDrawn
    <3>1. Among(arrows, Len(arrows), <<d, g>>) = Cardinality({})
      BY <1>0, <2>1 DEF Among
    <3>2. Among(graph[g], Turns(g, walk, visited), d) = Cardinality({})
      <4>1. Turns(g, walk, visited) = 0
        BY <1>2, <2>1
      <4>2. {k \in 1..0 : graph[g][k] = d} = {}
        OBVIOUS
      <4> QED BY <4>1, <4>2 DEF Among
    <3> QED BY <3>1, <3>2
  <2> QED BY <1>2, <2>1, <2>2, <2>3, <2>5, <2>6 DEF DiagramInv
<1> QED BY <1>3, <1>4 DEF LeavesInit

(* The inductive invariant of the diagram holds (calculus_main.c).          *)
THEOREM DiagramInvariant == LeavesSpec => []DiagramInv
<1>1. ASSUME DiagramInv, UNCHANGED diagramVars
      PROVE  DiagramInv'
  <2>1. UNCHANGED <<graph, asked, pass, begun, walk, visited, lines, arrows>>
    BY <1>1 DEF diagramVars
  <2>2. /\ DiagramTypes' /\ WalkDescends(walk, visited)' /\ WalkOver'
        /\ LinesDrawn' /\ VisitedAll' /\ VisitedOnly'
    BY <1>1, <2>1, DrawnAlike DEF DiagramInv, DiagramTypes, WalkOver, LinesDrawn,
       VisitedAll, VisitedOnly
  <2>3. \A g \in DrawnNode : Turns(g, walk, visited)' = Turns(g, walk, visited)
    BY <2>1, DrawnAlike
  <2>4. ArrowsDrawn'
    <3>1. ArrowsDrawn /\ pass' = pass /\ graph' = graph /\ arrows' = arrows
      BY <1>1, <2>1 DEF DiagramInv
    <3> QED BY <2>3, <3>1, ArrowsKept
  <2> QED BY <2>2, <2>4 DEF DiagramInv
<1>2. ASSUME DiagramInv, Diagram!Next
      PROVE  DiagramInv'
  <2>1. CASE Diagram!VisitWanted
    BY <1>2, <2>1, RequestVisited
  <2>2. CASE Diagram!VisitDep
    BY <1>2, <2>2, TurnTaken
  <2>3. CASE Diagram!LeaveNode
    BY <1>2, <2>3, NodeLeft
  <2>4. CASE Diagram!EndPass
    BY <1>2, <2>4, PassEnds
  <2>5. CASE UNCHANGED Diagram!vars
    BY <1>1, <1>2, <2>5 DEF Diagram!vars, diagramVars
  <2> QED BY <1>2, <2>1, <2>2, <2>3, <2>4, <2>5 DEF Diagram!Next
<1>3. ASSUME DiagramInv, [LeavesNext]_leafVars
      PROVE  DiagramInv'
  <2>1. CASE DiagramStep
    BY <1>2, <1>3, <2>1 DEF DiagramStep
  <2>2. CASE UNCHANGED diagramVars
    BY <1>1, <1>3, <2>2
  <2> QED BY <1>3, <2>1, <2>2
        DEF LeavesNext, leafVars, RegistryStep, ReaderStep, CacheStep, EnvStep
<1> QED BY DiagramInit, <1>3, PTL DEF LeavesSpec

(* Whatever the graph and the requests: the diagram has one line for each   *)
(* derivative that the requests need and for no other, and as many arrows   *)
(* between two of them as the recipe of the user lists the other            *)
(* (calculus_main.c).                                                       *)
THEOREM DiagramIsTheGraph == LeavesSpec => []DiagramRight
<1>1. DiagramInv => DiagramRight
  <2> SUFFICES ASSUME DiagramInv, pass = 3 PROVE
        /\ Diagram!IsInjective(lines) /\ Diagram!ToSet(lines) = Diagram!Needed
        /\ \A d, g \in DrawnNode :
              Diagram!Times(<<d, g>>, arrows)
                = IF g \in Diagram!Needed THEN Diagram!Times(d, graph[g]) ELSE 0
    BY DEF DiagramRight, Diagram!DiagramRight, Diagram!Drawn, Diagram!Node, DrawnNode
  <2>1. /\ DiagramTypes /\ DiagramFacts /\ WalkDescends(walk, visited)
        /\ walk = <<>> /\ ToSet(visited) = Diagram!Needed
    BY DiagramFactsHold DEF DiagramInv, WalkOver
  <2>2. Diagram!IsInjective(lines) /\ Diagram!ToSet(lines) = Diagram!Needed
    BY DEF DiagramInv, LinesDrawn, IsInjective, Diagram!IsInjective, ToSet, Diagram!ToSet
  <2>3. ASSUME NEW d \in DrawnNode, NEW g \in DrawnNode
        PROVE  Diagram!Times(<<d, g>>, arrows)
                 = IF g \in Diagram!Needed THEN Diagram!Times(d, graph[g]) ELSE 0
    <3>1. Among(arrows, Len(arrows), <<d, g>>) = Among(graph[g], Turns(g, walk, visited), d)
      BY DEF DiagramInv, ArrowsDrawn
    <3>2. Turns(g, walk, visited) = IF g \in Diagram!Needed THEN Len(graph[g]) ELSE 0
      <4>1. walk \in Seq(DrawnFrame) /\ Len(walk) = 0
        BY <2>1, EmptySeq DEF DiagramFacts
      <4>2. \A k \in 1..Len(walk) : walk[k].node # g
        BY <4>1
      <4> QED BY <2>1, <4>1, <4>2, TurnsAre
    <3>3. Diagram!Times(<<d, g>>, arrows) = Among(arrows, Len(arrows), <<d, g>>)
      <4>1. DOMAIN arrows = 1..Len(arrows)
        BY <2>1, LenProperties DEF DiagramTypes
      <4> QED BY <4>1 DEF Diagram!Times, Among, Diagram!Cardinality, Cardinality
    <3>4. Diagram!Times(d, graph[g]) = Among(graph[g], Len(graph[g]), d)
      <4>1. DOMAIN graph[g] = 1..Len(graph[g])
        BY <2>1, LenProperties DEF DiagramTypes
      <4> QED BY <4>1 DEF Diagram!Times, Among, Diagram!Cardinality, Cardinality
    <3>5. Among(graph[g], 0, d) = 0
      <4>1. {k \in 1..0 : graph[g][k] = d} = {}
        OBVIOUS
      <4> QED BY <4>1, FS_EmptySet DEF Among
    <3> QED BY <3>1, <3>2, <3>3, <3>4, <3>5
  <2> QED BY <2>2, <2>3
<1> QED BY DiagramInvariant, <1>1, PTL
=============================================================================
