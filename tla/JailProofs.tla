----------------------------- MODULE JailProofs -----------------------------
(***************************************************************************)
(* The three processes of a standard build proved correct for any list of   *)
(* dependencies, size of the pipe and amount of output: the log is          *)
(* complete, success is the script's own, and the order of the dependencies *)
(* decides which programs are used.                                         *)
(***************************************************************************)
EXTENDS Jail, SequenceTheorems, TLAPS

(* Until the parent stops reading, nothing that was printed is lost.        *)
NothingLost ==
    /\ parent \in {"open", "copy"} => reader = "open" /\ ~logFailed /\ written = logged + pipe
    /\ LogComplete

(* Success is passed on only by a process whose child succeeded.            *)
PassedOn ==
    /\ code = "ok" => parent = "done" /\ ostatus = "ok"
    /\ ostatus = "ok" => outer = "exited" /\ builder = "exited" /\ bstatus = "ok"

(* The dependencies seen so far that have a shell, and that have env.       *)
Shells == {d \in 1..(i - 1) : deps[d].programs \cap {"bash", "sh"} # {}}
Envs == {d \in 1..(i - 1) : "env" \in deps[d].programs}

Smallest(d, S) == d \in S /\ \A e \in S : d <= e

ShellOf(d) == <<d, IF "bash" \in deps[d].programs THEN "bash" ELSE "sh">>

(* What was taken so far is what the list up to here decides.               *)
OrderSoFar ==
    /\ \/ sh = <<>> /\ Shells = {}
       \/ \E d \in Shells : Smallest(d, Shells) /\ sh = ShellOf(d)
    /\ \/ env = <<>> /\ Envs = {}
       \/ \E d \in Envs : Smallest(d, Envs) /\ env = <<d, "env">>
    /\ Len(packages) = i - 1 /\ \A d \in 1..(i - 1) : packages[d] = d

(* Past the check, all dependencies were seen and both programs found.      *)
AllSeen ==
    builder \in {"pivot", "exec", "script"} =>
        i = Len(deps) + 1 /\ sh # <<>> /\ env # <<>>

(* The inductive invariant.                                                 *)
JailInv == TypeOK /\ NothingLost /\ PassedOn /\ OrderSoFar /\ AllSeen

-----------------------------------------------------------------------------
LEMMA DepsTypes ==
    ASSUME TypeOK
    PROVE  /\ Len(deps) \in Nat /\ DOMAIN deps = 1..Len(deps)
           /\ \A d \in 1..Len(deps) : deps[d] \in Object
           /\ i \in Nat /\ i >= 1 /\ i <= Len(deps) + 1
<1>1. deps \in Seq(Object) /\ i \in 1..(Len(deps) + 1)
  BY DEF TypeOK
<1> HIDE DEF Object
<1> QED BY <1>1, LenProperties, ElementOfSeq

(* What leaves the dependencies and the new root alone.                     *)
LEMMA SameRoot ==
    ASSUME OrderSoFar, UNCHANGED <<deps, rootVars>>
    PROVE  OrderSoFar'
BY DEF OrderSoFar, Shells, Envs, Smallest, ShellOf, rootVars

LEMMA JailInit == Init => JailInv
<1> SUFFICES ASSUME Init PROVE JailInv
  OBVIOUS
<1>1. deps \in Seq(Object)
  BY JailAssumption DEF Init, BoundedSeq, SeqOf
<1>2. Len(deps) \in Nat /\ DOMAIN deps = 1..Len(deps)
  BY <1>1, LenProperties
<1>3. TypeOK
  <2>1. packages \in Seq(DOMAIN deps) /\ i \in 1..(Len(deps) + 1)
    BY <1>2, EmptySeq DEF Init
  <2>2. pipe \in 0..PipeSize /\ logged \in Nat /\ written \in Nat
    BY JailAssumption DEF Init
  <2>3. /\ parent = "open" /\ logFailed = FALSE /\ reader = "open" /\ code = "fail"
        /\ outer = "setup" /\ builder = "unborn" /\ ostatus = "none" /\ bstatus = "none"
        /\ mounted = {}
    BY DEF Init
  <2> QED BY <1>1, <2>1, <2>2, <2>3 DEF TypeOK, Statuses, Steps
<1>4. NothingLost /\ PassedOn /\ AllSeen
  BY DEF Init, NothingLost, LogComplete, PassedOn, AllSeen
<1>5. OrderSoFar
  <2>1. 1..(i - 1) = {} /\ Len(packages) = 0
    BY DEF Init
  <2> QED BY <2>1 DEF Init, OrderSoFar, Shells, Envs
<1> QED BY <1>3, <1>4, <1>5 DEF JailInv

(* The parent.                                                              *)
LEMMA ParentKeeps ==
    ASSUME JailInv, Parent
    PROVE  JailInv'
<1>1. UNCHANGED <<deps, rootVars, builder, bstatus, outer, ostatus, written>>
  BY DEF Parent, OpenLog, CopyLog, EndOfLog, BreakLog, Reap, outerVars, builderVars
<1>2. OrderSoFar'
  BY <1>1, SameRoot DEF JailInv
<1>3. TypeOK'
  <2>1. CASE OpenLog
    BY <2>1 DEF OpenLog, JailInv, TypeOK, outerVars, builderVars, rootVars
  <2>2. CASE CopyLog
    <3>1. pipe \in 0..PipeSize /\ logged \in Nat
      BY DEF JailInv, TypeOK
    <3>2. pipe' \in 0..PipeSize /\ logged' \in Nat
      BY <2>2, <3>1, JailAssumption DEF CopyLog
    <3> QED BY <2>2, <3>2 DEF CopyLog, JailInv, TypeOK, outerVars, builderVars, rootVars
  <2>3. CASE EndOfLog
    BY <2>3 DEF EndOfLog, JailInv, TypeOK, outerVars, builderVars, rootVars
  <2>4. CASE BreakLog
    BY <2>4 DEF BreakLog, JailInv, TypeOK, outerVars, builderVars, rootVars
  <2>5. CASE Reap
    BY <2>5 DEF Reap, JailInv, TypeOK, outerVars, builderVars, rootVars
  <2> QED BY <2>1, <2>2, <2>3, <2>4, <2>5 DEF Parent
<1>4. NothingLost'
  <2>1. pipe \in Nat /\ logged \in Nat /\ written \in Nat
    BY JailAssumption DEF JailInv, TypeOK
  <2>2. CASE OpenLog \/ CopyLog \/ EndOfLog \/ BreakLog
    BY <1>1, <2>1, <2>2 DEF OpenLog, CopyLog, EndOfLog, BreakLog, JailInv, NothingLost, LogComplete
  <2>3. CASE Reap
    BY <1>1, <2>3 DEF Reap, JailInv, NothingLost, LogComplete
  <2> QED BY <2>2, <2>3 DEF Parent
<1>5. PassedOn' /\ AllSeen'
  BY <1>1 DEF JailInv, PassedOn, AllSeen, Parent, OpenLog, CopyLog, EndOfLog, BreakLog, Reap, rootVars
<1> QED BY <1>2, <1>3, <1>4, <1>5 DEF JailInv

(* A chunk more in the pipe is a chunk more that was written.               *)
LEMMA PutKeeps ==
    ASSUME JailInv, CanWrite, Put
    PROVE  /\ pipe' \in 0..PipeSize /\ written' \in Nat
           /\ written = logged + pipe => written' = logged + pipe'
BY JailAssumption DEF JailInv, TypeOK, CanWrite, Put

(* The outer process.                                                       *)
LEMMA OuterKeeps ==
    ASSUME JailInv, Outer
    PROVE  JailInv'
<1>1. /\ UNCHANGED <<deps, parentVars, rootVars, bstatus>>
      /\ outer \in {"setup", "waiting"} /\ outer' \in {"waiting", "exited"}
      /\ builder' = builder \/ (builder' = "root" /\ outer' = "waiting" /\ ostatus' = ostatus)
      /\ ostatus' = ostatus \/ ostatus' \in {"fail", "killed"}
            \/ (ostatus' = "ok" /\ outer' = "exited" /\ builder' = "exited" /\ bstatus = "ok")
  BY DEF Outer, Unshare, WaitBuilder, OuterExit, builderVars
<1>2. UNCHANGED <<pipe, written>> \/ (CanWrite /\ Put)
  BY DEF Outer, Unshare, WaitBuilder, OuterExit
<1>3. /\ pipe' \in 0..PipeSize /\ written' \in Nat
      /\ written = logged + pipe => written' = logged + pipe'
  BY <1>2, PutKeeps DEF JailInv, TypeOK
<1>4. OrderSoFar'
  BY <1>1, SameRoot DEF JailInv
<1>5. TypeOK'
  BY <1>1, <1>3 DEF JailInv, TypeOK, parentVars, rootVars, Steps, Statuses
<1>6. NothingLost'
  BY <1>1, <1>3 DEF JailInv, NothingLost, LogComplete, parentVars
<1>7. PassedOn' /\ AllSeen'
  BY <1>1 DEF JailInv, PassedOn, AllSeen, parentVars, rootVars
<1> QED BY <1>4, <1>5, <1>6, <1>7 DEF JailInv

(* One more dependency: a program that was found stays, the first one that  *)
(* is found is the smallest so far.                                         *)
LEMMA MountDepKeeps ==
    ASSUME JailInv, MountDep, i' = i + 1
    PROVE  OrderSoFar'
<1>1. /\ Len(deps) \in Nat /\ i \in Nat /\ i >= 1 /\ i <= Len(deps)
      /\ deps[i] \in Object /\ deps' = deps
  BY DepsTypes DEF JailInv, MountDep
<1>2. /\ 1..(i' - 1) = 1..(i - 1) \cup {i} /\ i \notin 1..(i - 1)
      /\ \A d \in 1..(i - 1) : d <= i
  BY <1>1
<1>3. deps[i].kind = "file" => deps[i].programs = {}
  BY <1>1 DEF Object
<1>4. /\ Len(packages') = i /\ \A d \in 1..i : packages'[d] = d
  <2>1. packages \in Seq(Nat) /\ packages' = Append(packages, i)
    <3>1. DOMAIN deps \subseteq Nat
      BY DepsTypes DEF JailInv
    <3>2. packages \in Seq(DOMAIN deps)
      BY DEF JailInv, TypeOK
    <3>3. packages' = Append(packages, i)
      BY <1>1 DEF MountDep, rootVars
    <3> QED BY <3>1, <3>2, <3>3, SeqMonotonic
  <2>2. Len(packages) = i - 1 /\ \A d \in 1..(i - 1) : packages[d] = d
    BY DEF JailInv, OrderSoFar
  <2>3. /\ Len(packages') = Len(packages) + 1
        /\ \A d \in 1..Len(packages) : packages'[d] = packages[d]
        /\ packages'[Len(packages) + 1] = i
    BY <1>1, <2>1, AppendProperties
  <2> QED BY <1>1, <1>2, <2>2, <2>3
<1>5. /\ Shells' = Shells \cup (IF deps[i].programs \cap {"bash", "sh"} # {} THEN {i} ELSE {})
      /\ Envs' = Envs \cup (IF "env" \in deps[i].programs THEN {i} ELSE {})
      /\ \A d : ShellOf(d)' = ShellOf(d)
  <2>1. \A d \in 1..(i - 1) : deps'[d] = deps[d]
    BY <1>1
  <2> QED BY <1>1, <1>2, <2>1 DEF Shells, Envs, ShellOf
<1>6. Shells \subseteq 1..(i - 1) /\ Envs \subseteq 1..(i - 1)
  BY DEF Shells, Envs
<1>7. \/ deps[i].kind = "dir" /\ sh' = Shell(i) /\ env' = EnvProgram(i)
      \/ deps[i].kind = "file" /\ UNCHANGED <<sh, env>>
  BY <1>1 DEF MountDep, rootVars
<1>8. \/ sh' = <<>> /\ Shells' = {}
      \/ \E d \in Shells' : Smallest(d, Shells') /\ sh' = ShellOf(d)
  <2>1. CASE sh # <<>>
    <3>1. sh' = sh
      BY <1>7, <2>1 DEF Shell
    <3>2. PICK d \in Shells : Smallest(d, Shells) /\ sh = ShellOf(d)
      BY <2>1 DEF JailInv, OrderSoFar
    <3>3. Smallest(d, Shells')
      BY <1>2, <1>5, <1>6, <3>2 DEF Smallest
    <3> QED BY <1>5, <3>1, <3>2, <3>3
  <2>2. CASE sh = <<>>
    <3>1. Shells = {}
      BY <2>2 DEF JailInv, OrderSoFar, ShellOf
    <3>2. CASE deps[i].programs \cap {"bash", "sh"} # {}
      <4>1. deps[i].kind = "dir" /\ sh' = Shell(i)
        BY <1>3, <1>7, <3>2
      <4>2. sh' = ShellOf(i)
        BY <2>2, <3>2, <4>1 DEF Shell, ShellOf
      <4>3. Smallest(i, Shells')
        BY <1>1, <1>5, <3>1, <3>2 DEF Smallest
      <4> QED BY <1>5, <3>2, <4>2, <4>3
    <3>3. CASE deps[i].programs \cap {"bash", "sh"} = {}
      <4>1. Shells' = {}
        BY <1>5, <3>1, <3>3
      <4>2. sh' = <<>>
        BY <1>7, <2>2, <3>3 DEF Shell
      <4> QED BY <4>1, <4>2
    <3> QED BY <3>2, <3>3
  <2> QED BY <2>1, <2>2
<1>9. \/ env' = <<>> /\ Envs' = {}
      \/ \E d \in Envs' : Smallest(d, Envs') /\ env' = <<d, "env">>
  <2>1. CASE env # <<>>
    <3>1. env' = env
      BY <1>7, <2>1 DEF EnvProgram
    <3>2. PICK d \in Envs : Smallest(d, Envs) /\ env = <<d, "env">>
      BY <2>1 DEF JailInv, OrderSoFar
    <3>3. Smallest(d, Envs')
      BY <1>2, <1>5, <1>6, <3>2 DEF Smallest
    <3> QED BY <1>5, <3>1, <3>2, <3>3
  <2>2. CASE env = <<>>
    <3>1. Envs = {}
      BY <2>2 DEF JailInv, OrderSoFar
    <3>2. CASE "env" \in deps[i].programs
      <4>1. env' = <<i, "env">>
        BY <1>3, <1>7, <2>2, <3>2 DEF EnvProgram
      <4>2. Smallest(i, Envs')
        BY <1>1, <1>5, <3>1, <3>2 DEF Smallest
      <4> QED BY <1>5, <3>2, <4>1, <4>2
    <3>3. CASE "env" \notin deps[i].programs
      BY <1>5, <1>7, <2>2, <3>1, <3>3 DEF EnvProgram
    <3> QED BY <3>2, <3>3
  <2> QED BY <2>1, <2>2
<1>10. i' - 1 = i
  BY <1>1
<1> QED BY <1>1, <1>4, <1>8, <1>9, <1>10 DEF OrderSoFar, Smallest, ShellOf

(* The builder.                                                             *)
LEMMA BuilderKeeps ==
    ASSUME JailInv, Builder
    PROVE  JailInv'
<1>1. /\ UNCHANGED <<deps, parentVars, outerVars>>
      /\ builder \notin {"unborn", "exited"} /\ builder' \in Steps \ {"unborn"}
      /\ bstatus' = bstatus \/ (bstatus' \in {"ok", "fail", "killed"} /\ builder' = "exited")
  BY DEF Builder, MountRoot, MountDep, CheckPrograms, Pivot, Exec, Complain, ScriptPrints,
         ScriptExits, Trouble, Steps
<1>2. UNCHANGED <<pipe, written>> \/ (CanWrite /\ Put)
  BY DEF Builder, MountRoot, MountDep, CheckPrograms, Pivot, Exec, Complain, ScriptPrints,
         ScriptExits
<1>3. /\ pipe' \in 0..PipeSize /\ written' \in Nat
      /\ written = logged + pipe => written' = logged + pipe'
  BY <1>2, PutKeeps DEF JailInv, TypeOK
<1>4. \/ UNCHANGED rootVars
      \/ MountDep /\ i' = i + 1
  BY DEF Builder, MountRoot, MountDep, CheckPrograms, Pivot, Exec, Complain, ScriptPrints,
         ScriptExits
<1>5. OrderSoFar'
  BY <1>1, <1>4, SameRoot, MountDepKeeps DEF JailInv
<1>6. i' \in 1..(Len(deps) + 1) /\ mounted' \subseteq DOMAIN deps /\ packages' \in Seq(DOMAIN deps)
  <2>1. CASE UNCHANGED rootVars
    BY <2>1 DEF JailInv, TypeOK, rootVars
  <2>2. CASE MountDep /\ i' = i + 1
    <3>1. /\ i \in DOMAIN deps /\ i + 1 \in 1..(Len(deps) + 1)
          /\ mounted \subseteq DOMAIN deps /\ packages \in Seq(DOMAIN deps)
      BY <2>2, DepsTypes DEF JailInv, TypeOK, MountDep
    <3>2. packages' = Append(packages, i) /\ mounted' \subseteq mounted \cup {i}
      <4>1. i \in Nat /\ i + 1 # i
        BY DepsTypes DEF JailInv
      <4> QED BY <2>2, <4>1 DEF MountDep, rootVars
    <3> QED BY <2>2, <3>1, <3>2, AppendProperties
  <2> QED BY <1>4, <2>1, <2>2
<1>7. TypeOK'
  BY <1>1, <1>3, <1>6 DEF JailInv, TypeOK, parentVars, outerVars, Statuses
<1>8. NothingLost'
  BY <1>1, <1>3 DEF JailInv, NothingLost, LogComplete, parentVars, outerVars
<1>9. PassedOn'
  BY <1>1 DEF JailInv, PassedOn, parentVars, outerVars
<1>10. AllSeen'
  BY <1>1 DEF JailInv, AllSeen, Builder, MountRoot, MountDep, CheckPrograms, Pivot, Exec, Complain,
         ScriptPrints, ScriptExits, Trouble, rootVars
<1> QED BY <1>5, <1>7, <1>8, <1>9, <1>10 DEF JailInv

LEMMA JailNext == JailInv /\ [Next]_vars => JailInv'
<1> SUFFICES ASSUME JailInv, [Next]_vars PROVE JailInv'
  OBVIOUS
<1>1. CASE UNCHANGED vars
  <2>1. UNCHANGED <<deps, parentVars, outerVars, builderVars, pipe, written>>
    BY <1>1 DEF vars
  <2>2. OrderSoFar'
    BY <2>1, SameRoot DEF JailInv, builderVars
  <2>3. TypeOK'
    BY <2>1 DEF JailInv, TypeOK, parentVars, outerVars, builderVars, rootVars
  <2>4. NothingLost' /\ PassedOn' /\ AllSeen'
    BY <2>1 DEF JailInv, NothingLost, LogComplete, PassedOn, AllSeen, parentVars, outerVars,
                builderVars, rootVars
  <2> QED BY <2>2, <2>3, <2>4 DEF JailInv
<1> QED BY <1>1, ParentKeeps, OuterKeeps, BuilderKeeps DEF Next, Returned

-----------------------------------------------------------------------------
(* The inductive invariant, with type correctness.                          *)
THEOREM JailInvariant == Spec => []JailInv
<1> QED BY JailInit, JailNext, PTL DEF Spec

(* However the three processes are scheduled and whatever fails: a log that *)
(* was read without an error holds all that was ever printed.               *)
THEOREM LogsAreComplete == Spec => []LogComplete
<1>1. JailInv => LogComplete
  BY DEF JailInv, NothingLost
<1> QED BY <1>1, JailInvariant, PTL

(* monitor_jail() returns 0 only if the build script itself exited with 0.  *)
THEOREM SuccessIsReal == Spec => []SuccessIsTheScripts
<1>1. JailInv => SuccessIsTheScripts
  BY DEF JailInv, PassedOn, SuccessIsTheScripts
<1> QED BY <1>1, JailInvariant, PTL

(* For lists of any length, the first dependency that has a shell and the   *)
(* first that has env provide them, and $packages is the list.              *)
THEOREM OrderDecides == Spec => []ListOrderDecides
<1>1. JailInv => ListOrderDecides
  <2> SUFFICES ASSUME JailInv, builder \in {"pivot", "exec", "script"}
               PROVE  LET shells == {d \in DOMAIN deps : deps[d].programs \cap {"bash", "sh"} # {}}
                          envs == {d \in DOMAIN deps : "env" \in deps[d].programs}
                          First(S) == CHOOSE d \in S : \A e \in S : d <= e
                      IN /\ sh = <<First(shells), IF "bash" \in deps[First(shells)].programs
                                                    THEN "bash" ELSE "sh">>
                         /\ env = <<First(envs), "env">>
                         /\ packages = [d \in DOMAIN deps |-> d]
    BY DEF ListOrderDecides
  <2> DEFINE shells == {d \in DOMAIN deps : deps[d].programs \cap {"bash", "sh"} # {}}
             envs == {d \in DOMAIN deps : "env" \in deps[d].programs}
             First(S) == CHOOSE d \in S : \A e \in S : d <= e
  <2>1. /\ i = Len(deps) + 1 /\ sh # <<>> /\ env # <<>>
        /\ Len(deps) \in Nat /\ DOMAIN deps = 1..Len(deps) /\ 1..(i - 1) = DOMAIN deps
    BY DepsTypes DEF JailInv, AllSeen
  <2>2. shells = Shells /\ envs = Envs /\ shells \subseteq Nat /\ envs \subseteq Nat
    BY <2>1 DEF Shells, Envs
  <2>3. \A S \in SUBSET Nat : \A d \in S : Smallest(d, S) => First(S) = d
    <3> SUFFICES ASSUME NEW S \in SUBSET Nat, NEW d \in S, Smallest(d, S)
                 PROVE  First(S) = d
      OBVIOUS
    <3>1. First(S) \in S /\ \A e \in S : First(S) <= e
      <4>1. \E x \in S : \A e \in S : x <= e
        BY DEF Smallest
      <4> QED BY <4>1
    <3>2. First(S) <= d /\ d <= First(S)
      BY <3>1 DEF Smallest
    <3>3. First(S) \in Nat /\ d \in Nat
      BY <3>1
    <3> QED BY <3>2, <3>3
  <2>4. sh = ShellOf(First(shells))
    <3>1. PICK d \in Shells : Smallest(d, Shells) /\ sh = ShellOf(d)
      BY <2>1 DEF JailInv, OrderSoFar
    <3> QED BY <2>2, <2>3, <3>1
  <2>5. env = <<First(envs), "env">>
    <3>1. PICK d \in Envs : Smallest(d, Envs) /\ env = <<d, "env">>
      BY <2>1 DEF JailInv, OrderSoFar
    <3> QED BY <2>2, <2>3, <3>1
  <2>6. packages = [d \in DOMAIN deps |-> d]
    <3>1. DOMAIN packages = 1..Len(packages) /\ packages \in [1..Len(packages) -> DOMAIN deps]
      BY LenProperties DEF JailInv, TypeOK
    <3>2. Len(packages) = Len(deps) /\ \A d \in DOMAIN deps : packages[d] = d
      BY <2>1 DEF JailInv, OrderSoFar
    <3> QED BY <2>1, <3>1, <3>2
  <2> QED BY <2>4, <2>5, <2>6 DEF ShellOf
<1> QED BY <1>1, JailInvariant, PTL
=============================================================================
