--------------------------- MODULE BuildersProofs ---------------------------
(***************************************************************************)
(* Theorems about building, for any set of invocations, any number of       *)
(* derivatives, blocks and parts of a jail and any number of failures.      *)
(***************************************************************************)
EXTENDS Builders, TLAPS

(* A running job has a derivative.                                          *)
Busy == \A p \in Proc : job[p].pc # "idle" => job[p].n \in Node

(* Who copies a directory does so into one that is there.                   *)
DirMade == \A p \in Proc : Copying(p) => store[job[p].n].kind = "dir"

(* Who was not started does nothing.                                        *)
NobodyElse == \A q \in Proc \ crowd : job[q] = NoJob /\ plan[q] = {}

(* The inductive invariant.                                                 *)
BuildInv == TypeOK /\ Busy /\ DirMade /\ OneCopier /\ NobodyElse

-----------------------------------------------------------------------------
(* The part of the types that a step of build_standard() could disturb.     *)
Types ==
    /\ store \in [Node -> Object] /\ bdir \in [Node -> BuildDir]
    /\ job \in [Proc -> Job] /\ faults \in 0..MaxFaults

StepInv == Types /\ Busy /\ DirMade /\ OneCopier

(* The parts of a job have their types.                                     *)
LEMMA JobParts ==
    ASSUME Types, NEW p \in Proc
    PROVE  /\ job[p] \in Job
           /\ job[p].pc \in Pcs /\ job[p].n \in 0..N /\ job[p].k \in 1..(K + Parts + 1)
           /\ job[p].root \in {"path", "torn", "gone"} /\ job[p].data \in SUBSET Blocks
           /\ job[p].last \in {"ok", "fail"} /\ job[p].code \in {"ok", "fail"}
<1>1. job[p] \in Job
  BY DEF Types
<1> QED BY <1>1 DEF Job

(* A build directory and a store object have theirs.                        *)
LEMMA DirParts ==
    ASSUME Types, NEW n \in Node
    PROVE  /\ bdir[n] \in BuildDir /\ bdir[n].there \in BOOLEAN
           /\ bdir[n].parts \in SUBSET (1..Parts)
           /\ bdir[n].out \in Object /\ bdir[n].out.has \in SUBSET Blocks
           /\ store[n] \in Object /\ store[n].has \in SUBSET Blocks
<1>1. bdir[n] \in BuildDir /\ store[n] \in Object
  BY DEF Types
<1>2. /\ bdir[n].out \in Object /\ bdir[n].there \in BOOLEAN
      /\ bdir[n].parts \in SUBSET (1..Parts)
  BY <1>1 DEF BuildDir
<1> QED BY <1>1, <1>2 DEF Object

(* A failing call takes one from the budget.                                *)
LEMMA FaultType ==
    ASSUME Types, NoFault \/ Fault
    PROVE  faults' \in 0..MaxFaults
BY FaultsAssumption DEF Types, NoFault, Fault

(* Counting starts at the first part and block.                             *)
LEMMA Counts ==
    /\ 1 \in 1..(K + Parts + 1)
    /\ \A k \in 1..(K + Parts + 1) : k <= K \/ k <= Parts => k + 1 \in 1..(K + Parts + 1)
BY KAssumption, PartsAssumption

(* A job that returns.                                                      *)
LEMMA ReturnType ==
    ASSUME NEW j \in Job
    PROVE  /\ Return(j) \in Job /\ Return(j).pc = "returned" /\ Return(j).n = j.n
           /\ Return(j).code = j.code /\ Return(j).data = {} /\ Return(j).root = "path"
<1>1. 1 \in 1..(K + Parts + 1) /\ {} \in SUBSET Blocks
  BY Counts
<1> QED BY <1>1 DEF Return, NoJob, Job, Pcs

(* No build directory, and what one remove() makes of one.                  *)
LEMMA NoDirType ==
    NoDir \in BuildDir /\ ~NoDir.there /\ NoDir.out = Absent /\ Absent.has = {}
BY DEF NoDir, BuildDir, Absent, Object

LEMMA LessType ==
    ASSUME NEW d \in BuildDir, NEW e \in Less(d)
    PROVE  e \in BuildDir /\ e.out.has \subseteq d.out.has
<1>1. Absent \in Object /\ Absent.has = {} /\ d.out \in Object
  BY DEF Absent, Object, BuildDir
<1>2. CASE \E k \in 1..Parts : e = [d EXCEPT !.parts = @ \ {k}]
  BY <1>2 DEF BuildDir
<1>3. CASE \E b \in d.out.has : e = [d EXCEPT !.out.has = @ \ {b}]
  <2>1. PICK b \in d.out.has : e = [d EXCEPT !.out.has = @ \ {b}]
    BY <1>3
  <2>2. e.out = [d.out EXCEPT !.has = @ \ {b}] /\ e.there = d.there /\ e.parts = d.parts
    BY <2>1 DEF BuildDir
  <2>3. e.out \in Object /\ e.out.has = d.out.has \ {b}
    BY <1>1, <2>2 DEF Object
  <2> QED BY <2>1, <2>2, <2>3 DEF BuildDir
<1>4. CASE e = [d EXCEPT !.out = Absent]
  BY <1>1, <1>4 DEF BuildDir
<1>5. d.parts \subseteq 1..Parts
  BY DEF BuildDir
<1> QED BY <1>2, <1>3, <1>4, <1>5 DEF Less

-----------------------------------------------------------------------------
(* What p may do to the jobs: its own becomes j, and those that share its   *)
(* build directory learn that something was taken from it.                  *)
Rest(p) ==
    \A q \in Proc \ {p} :
        \/ job'[q] = job[q]
        \/ /\ job[q].n = job[p].n
           /\ \E r \in {"torn", "gone"} : job'[q] = [job[q] EXCEPT !.root = r]

Moves(p, j) == job' \in [Proc -> Job] /\ job'[p] = j /\ Rest(p)

LEMMA MoveTo ==
    ASSUME Types, NEW p \in Proc, NEW j \in Job, job' = [job EXCEPT ![p] = j]
    PROVE  Moves(p, j)
BY DEF Types, Moves, Rest

LEMMA RobTo ==
    ASSUME Types, NEW p \in Proc, NEW e, NEW j \in Job,
           job' = [Robbed(p, e) EXCEPT ![p] = j] \/ (job' = Robbed(p, e) /\ j = job[p])
    PROVE  Moves(p, j)
<1>1. \A q \in Proc \ {p} :
         /\ Robbed(p, e)[q] \in Job
         /\ \/ Robbed(p, e)[q] = job[q]
            \/ /\ job[q].n = job[p].n
               /\ \E r \in {"torn", "gone"} : Robbed(p, e)[q] = [job[q] EXCEPT !.root = r]
  <2> SUFFICES ASSUME NEW q \in Proc \ {p}
               PROVE  /\ Robbed(p, e)[q] \in Job
                      /\ \/ Robbed(p, e)[q] = job[q]
                         \/ /\ job[q].n = job[p].n
                            /\ \E r \in {"torn", "gone"} :
                                  Robbed(p, e)[q] = [job[q] EXCEPT !.root = r]
    OBVIOUS
  <2>1. job[q] \in Job
    BY JobParts
  <2>2. CASE job[q].n # job[p].n
    BY <2>1, <2>2 DEF Robbed
  <2>3. CASE job[q].n = job[p].n
    <3>1. PICK r \in {"torn", "gone"} : Robbed(p, e)[q] = [job[q] EXCEPT !.root = r]
      BY <2>3 DEF Robbed
    <3> QED BY <2>1, <2>3, <3>1 DEF Job
  <2> QED BY <2>2, <2>3
<1>2. Robbed(p, e) = [q \in Proc |-> Robbed(p, e)[q]] /\ Robbed(p, e)[p] = job[p]
  BY DEF Robbed
<1>3. job' = [q \in Proc |-> IF q = p THEN j ELSE Robbed(p, e)[q]]
  BY <1>2
<1> HIDE DEF Robbed
<1> QED BY <1>1, <1>3 DEF Moves, Rest

(* The jobs of the others keep all but that.                                *)
LEMMA OthersKeep ==
    ASSUME Types, NEW p \in Proc, NEW j, Moves(p, j), NEW q \in Proc \ {p}
    PROVE  /\ job'[q].pc = job[q].pc /\ job'[q].n = job[q].n
           /\ job'[q].code = job[q].code /\ job'[q].data = job[q].data
<1>1. job[q] \in Job
  BY JobParts
<1>2. CASE job'[q] = job[q]
  BY <1>2
<1>3. CASE \E r \in {"torn", "gone"} : job'[q] = [job[q] EXCEPT !.root = r]
  BY <1>1, <1>3 DEF Job
<1> QED BY <1>2, <1>3 DEF Moves, Rest

-----------------------------------------------------------------------------
(* What a step may do to the files: no directory of the store goes.         *)
Files ==
    /\ store' \in [Node -> Object] /\ bdir' \in [Node -> BuildDir]
    /\ \A n \in Node : store[n].kind = "dir" => store'[n].kind = "dir"

(* Then p may go on, anywhere but to copying a directory.                   *)
LEMMA MoveKeeps ==
    ASSUME StepInv, NEW p \in Proc, job[p].n \in Node, Files, NoFault \/ Fault,
           NEW j, Moves(p, j), j.n = job[p].n, j.pc # "idle",
           j.pc \in {"copydir", "copied"} => Copying(p)
    PROVE  StepInv'
<1> USE DEF StepInv
<1>1. /\ job' \in [Proc -> Job] /\ job'[p] = j
      /\ \A q \in Proc \ {p} : job'[q].pc = job[q].pc /\ job'[q].n = job[q].n
  BY OthersKeep DEF Moves
<1>2. faults' \in 0..MaxFaults
  BY FaultType
<1>3. Types' /\ Busy'
  BY <1>1, <1>2 DEF Types, Files, Busy
<1>4. \A q \in Proc : job'[q].n = job[q].n /\ (Copying(q)' => Copying(q))
  BY <1>1 DEF Copying
<1>5. DirMade'
  <2> SUFFICES ASSUME NEW q \in Proc, Copying(q)'
               PROVE  store'[job'[q].n].kind = "dir"
    BY DEF DirMade
  <2>1. Copying(q) /\ job[q].n \in Node
    BY <1>4 DEF Busy, Copying
  <2> QED BY <1>4, <2>1 DEF DirMade, Files
<1>6. OneCopier'
  BY <1>4 DEF OneCopier
<1> QED BY <1>3, <1>5, <1>6

(* Nothing but the job changes.                                             *)
LEMMA FilesStay ==
    ASSUME StepInv, UNCHANGED <<store, bdir>>
    PROVE  Files
BY DEF StepInv, Types, Files

(* A write to the store object.                                             *)
LEMMA StoreWrite ==
    ASSUME StepInv, NEW n \in Node, NEW o \in Object, store' = [store EXCEPT ![n] = o],
           store[n].kind = "dir" => o.kind = "dir", UNCHANGED bdir
    PROVE  Files
BY DEF StepInv, Types, Files

(* A write to the build directory.                                          *)
LEMMA DirWrite ==
    ASSUME StepInv, NEW n \in Node, NEW d \in BuildDir, bdir' = [bdir EXCEPT ![n] = d],
           UNCHANGED store
    PROVE  Files
BY DEF StepInv, Types, Files

(* Moving on with nothing changed but the place.                            *)
LEMMA GotoKeeps ==
    ASSUME StepInv, NEW p \in Proc, job[p].n \in Node, Files, NoFault \/ Fault,
           NEW pc \in Pcs \ {"idle", "copydir"}, Goto(p, pc),
           pc = "copied" => Copying(p)
    PROVE  StepInv'
<1> DEFINE j == [job[p] EXCEPT !.pc = pc]
<1>1. job[p] \in Job /\ Types
  BY JobParts DEF StepInv
<1>2. j \in Job /\ j.pc = pc /\ j.n = job[p].n
  BY <1>1 DEF Job
<1>3. job' = [job EXCEPT ![p] = j]
  BY DEF Goto, StepInv, Types
<1> HIDE DEF j
<1> QED BY <1>1, <1>2, <1>3, MoveTo, MoveKeeps

(* The error paths of monitor_jail().                                       *)
LEMMA FailKeeps ==
    ASSUME StepInv, NEW p \in Proc, job[p].n \in Node, Files, NoFault \/ Fault, Fail(p)
    PROVE  StepInv'
<1> DEFINE j == [job[p] EXCEPT !.pc = "finalize", !.code = "fail"]
<1>1. job[p] \in Job /\ Types
  BY JobParts DEF StepInv
<1>2. j \in Job /\ j.pc = "finalize" /\ j.n = job[p].n
  BY <1>1 DEF Job, Pcs
<1>3. job' = [job EXCEPT ![p] = j]
  BY DEF Fail, StepInv, Types
<1> HIDE DEF j
<1> QED BY <1>1, <1>2, <1>3, MoveTo, MoveKeeps

(* The jail exits, with this code or that.                                  *)
LEMMA ExitKeeps ==
    ASSUME StepInv, NEW p \in Proc, job[p].n \in Node, UNCHANGED <<store, bdir>>,
           NoFault \/ Fault, NEW code \in {"ok", "fail"},
           job' = [job EXCEPT ![p].pc = "wait", ![p].code = code]
    PROVE  StepInv'
<1> DEFINE j == [job[p] EXCEPT !.pc = "wait", !.code = code]
<1>1. job[p] \in Job /\ Types
  BY JobParts DEF StepInv
<1>2. j \in Job /\ j.pc = "wait" /\ j.n = job[p].n
  BY <1>1 DEF Job, Pcs
<1>3. job' = [job EXCEPT ![p] = j]
  BY DEF StepInv, Types
<1> HIDE DEF j
<1> QED BY <1>1, <1>2, <1>3, MoveTo, MoveKeeps, FilesStay

(* The ends of build_standard().                                            *)
LEMMA ReturnKeeps ==
    ASSUME StepInv, NEW p \in Proc, job[p].n \in Node, Files, NoFault \/ Fault,
           job' = [job EXCEPT ![p] = Return(job[p])]
    PROVE  StepInv'
<1>1. Return(job[p]) \in Job /\ Return(job[p]).pc = "returned"
      /\ Return(job[p]).n = job[p].n /\ Types
  BY JobParts, ReturnType DEF StepInv
<1> QED BY <1>1, MoveTo, MoveKeeps

-----------------------------------------------------------------------------
(* fs_rmdir(): the job stays or goes on as `after', and build directories   *)
(* only ever hold less.                                                     *)
LEMMA RemoveEffect ==
    ASSUME Types, NEW p \in Proc, job[p].n \in Node, NEW after \in Job,
           RemoveDir(p, after)
    PROVE  /\ bdir' \in [Node -> BuildDir]
           /\ \A m \in Node : bdir'[m].out.has \subseteq bdir[m].out.has
           /\ Moves(p, job[p]) \/ Moves(p, after)
           /\ NoFault \/ Fault
<1> DEFINE n == job[p].n
<1>1. bdir[n] \in BuildDir /\ bdir \in [Node -> BuildDir] /\ job[p] \in Job
  BY DirParts, JobParts DEF Types
<1>2. ASSUME NEW e \in Less(bdir[n]), bdir' = [bdir EXCEPT ![n] = e], job' = Robbed(p, e),
             NoFault
      PROVE  /\ bdir' \in [Node -> BuildDir] /\ Moves(p, job[p])
             /\ \A m \in Node : bdir'[m].out.has \subseteq bdir[m].out.has
  <2>1. e \in BuildDir /\ e.out.has \subseteq bdir[n].out.has
    BY <1>1, LessType
  <2>2. bdir' \in [Node -> BuildDir]
        /\ \A m \in Node : bdir'[m].out.has \subseteq bdir[m].out.has
    BY <1>1, <1>2, <2>1
  <2>3. Moves(p, job[p])
    BY <1>1, <1>2, RobTo
  <2> QED BY <2>2, <2>3
<1>3. CASE /\ bdir' = [bdir EXCEPT ![n] = NoDir]
           /\ job' = [Robbed(p, NoDir) EXCEPT ![p] = after] /\ NoFault
  <2>1. bdir' \in [Node -> BuildDir]
        /\ \A m \in Node : bdir'[m].out.has \subseteq bdir[m].out.has
    BY <1>1, <1>3, NoDirType
  <2>2. Moves(p, after)
    BY <1>3, RobTo
  <2> QED BY <1>3, <2>1, <2>2
<1>4. CASE /\ UNCHANGED bdir /\ job' = [job EXCEPT ![p] = after]
           /\ IF Company(p) THEN NoFault ELSE Fault
  BY <1>1, <1>4, MoveTo
<1> QED BY <1>2, <1>3, <1>4 DEF RemoveDir

(* So it keeps the invariant.                                               *)
LEMMA RemoveKeeps ==
    ASSUME StepInv, NEW p \in Proc, job[p].n \in Node, UNCHANGED store,
           job[p].pc \in {"clear", "finalize"},
           NEW after \in Job, RemoveDir(p, after),
           after.n = job[p].n, after.pc \notin {"idle", "copydir", "copied"}
    PROVE  StepInv'
<1>1. /\ Types /\ bdir' \in [Node -> BuildDir] /\ (NoFault \/ Fault)
      /\ Moves(p, job[p]) \/ Moves(p, after)
  BY RemoveEffect DEF StepInv
<1>2. Files
  BY <1>1 DEF Files, Types
<1>3. CASE Moves(p, job[p])
  BY <1>1, <1>2, <1>3, MoveKeeps
<1>4. CASE Moves(p, after)
  BY <1>1, <1>2, <1>4, MoveKeeps
<1> QED BY <1>1, <1>3, <1>4

(* fs_rmdir() of an old build directory.                                    *)
LEMMA ClearKeeps ==
    ASSUME StepInv, NEW p \in Proc, Clear(p)
    PROVE  StepInv'
<1> DEFINE j == [job[p] EXCEPT !.pc = "ensure"]
<1>1. job[p].n \in Node /\ job[p] \in Job /\ RemoveDir(p, j)
  BY JobParts DEF StepInv, Busy, Clear
<1>2. j \in Job /\ j.pc = "ensure" /\ j.n = job[p].n
  BY <1>1 DEF Job, Pcs
<1> HIDE DEF j
<1> QED BY <1>1, <1>2, RemoveKeeps DEF Clear

(* fs_ensure_dir().                                                         *)
LEMMA EnsureKeeps ==
    ASSUME StepInv, NEW p \in Proc, Ensure(p)
    PROVE  StepInv'
<1> DEFINE n == job[p].n
<1>1. Types /\ n \in Node /\ job[p] \in Job /\ UNCHANGED store
  BY JobParts DEF StepInv, Busy, Ensure
<1>2. CASE bdir' = [bdir EXCEPT ![n].there = TRUE] /\ Goto(p, "fork") /\ NoFault
  <2> DEFINE d == [bdir[n] EXCEPT !.there = TRUE]
  <2>1. bdir[n] \in BuildDir
    BY <1>1, DirParts
  <2>2. d \in BuildDir
    BY <2>1 DEF BuildDir
  <2>3. bdir' = [bdir EXCEPT ![n] = d]
    BY <1>1, <1>2 DEF Types
  <2> HIDE DEF d
  <2>4. Files
    BY <1>1, <2>2, <2>3, DirWrite
  <2> QED BY <1>1, <1>2, <2>4, GotoKeeps DEF Pcs
<1>3. CASE UNCHANGED bdir /\ Goto(p, "fork") /\ Fault
  BY <1>1, <1>3, FilesStay, GotoKeeps DEF Pcs
<1>4. CASE UNCHANGED bdir /\ Fault /\ job' = [job EXCEPT ![p] = Return(@)]
  BY <1>1, <1>4, FilesStay, ReturnKeeps
<1> QED BY <1>2, <1>3, <1>4 DEF Ensure

(* pipe() and fork(), and opening the log.                                  *)
LEMMA ForkKeeps ==
    ASSUME StepInv, NEW p \in Proc, Fork(p)
    PROVE  StepInv'
<1>1. job[p].n \in Node /\ UNCHANGED <<store, bdir>>
  BY DEF StepInv, Busy, Fork
<1>2. CASE Goto(p, "log") /\ NoFault
  BY <1>1, <1>2, FilesStay, GotoKeeps DEF Pcs
<1>3. CASE Goto(p, "exited") /\ Fault
  BY <1>1, <1>3, FilesStay, GotoKeeps DEF Pcs
<1>4. CASE Fail(p) /\ Fault
  BY <1>1, <1>4, FilesStay, FailKeeps
<1> QED BY <1>2, <1>3, <1>4 DEF Fork

LEMMA OpenLogKeeps ==
    ASSUME StepInv, NEW p \in Proc, OpenLog(p)
    PROVE  StepInv'
<1>1. Types /\ job[p].n \in Node /\ job[p] \in Job /\ UNCHANGED <<store, bdir>>
  BY JobParts DEF StepInv, Busy, OpenLog
<1>2. PICK log \in {"read", "unread"} :
         job' = [job EXCEPT ![p].pc = "jail", ![p].log = log] /\ (NoFault \/ Fault)
  BY DEF OpenLog
<1> DEFINE j == [job[p] EXCEPT !.pc = "jail", !.log = log]
<1>3. j \in Job /\ j.pc = "jail" /\ j.n = job[p].n
  BY <1>1 DEF Job, Pcs, JailPcs
<1>4. job' = [job EXCEPT ![p] = j]
  BY <1>1, <1>2 DEF Types
<1> HIDE DEF j
<1> QED BY <1>1, <1>2, <1>3, <1>4, FilesStay, MoveTo, MoveKeeps

-----------------------------------------------------------------------------
(* The jail gives up.                                                       *)
LEMMA JailFailsKeeps ==
    ASSUME StepInv, NEW p \in Proc, job[p].n \in Node, JailFails(p), UNCHANGED store,
           NoFault \/ Fault
    PROVE  StepInv'
BY ExitKeeps DEF JailFails

(* The jail takes the build directory for its root.                         *)
LEMMA JailBindKeeps ==
    ASSUME StepInv, NEW p \in Proc, JailBind(p)
    PROVE  StepInv'
<1>1. Types /\ job[p].n \in Node /\ job[p] \in Job /\ UNCHANGED store
  BY JobParts DEF StepInv, Busy, JailBind
<1>2. CASE JailFails(p) /\ (NoFault \/ Fault)
  BY <1>1, <1>2, JailFailsKeeps
<1>3. CASE /\ job' = [job EXCEPT ![p].pc = "setup", ![p].k = 1, ![p].root = "path"]
           /\ UNCHANGED bdir /\ NoFault
  <2> DEFINE j == [job[p] EXCEPT !.pc = "setup", !.k = 1, !.root = "path"]
  <2>1. j \in Job /\ j.pc = "setup" /\ j.n = job[p].n
    BY <1>1, Counts DEF Job, Pcs, JailPcs
  <2>2. job' = [job EXCEPT ![p] = j]
    BY <1>1, <1>3 DEF Types
  <2> HIDE DEF j
  <2> QED BY <1>1, <1>3, <2>1, <2>2, FilesStay, MoveTo, MoveKeeps
<1> QED BY <1>2, <1>3 DEF JailBind

(* A step of the jail that makes something in it.                           *)
LEMMA JailMakes ==
    ASSUME StepInv, NEW p \in Proc, job[p].n \in Node, NEW d \in BuildDir,
           bdir' = [bdir EXCEPT ![job[p].n] = d], UNCHANGED store, NoFault,
           NEW pc \in JailPcs, NEW k \in 1..(K + Parts + 1),
           job' = [job EXCEPT ![p].pc = pc, ![p].k = k]
    PROVE  StepInv'
<1> DEFINE j == [job[p] EXCEPT !.pc = pc, !.k = k]
<1>1. job[p] \in Job /\ Types
  BY JobParts DEF StepInv
<1>2. j \in Job /\ j.n = job[p].n /\ j.pc = pc
  BY <1>1 DEF Job, Pcs
<1>3. job' = [job EXCEPT ![p] = j]
  BY DEF StepInv, Types
<1> HIDE DEF j
<1>4. Moves(p, j) /\ Files
  BY <1>1, <1>2, <1>3, MoveTo, DirWrite
<1> QED BY <1>2, <1>4, MoveKeeps DEF JailPcs

LEMMA JailMkdirKeeps ==
    ASSUME StepInv, NEW p \in Proc, JailMkdir(p)
    PROVE  StepInv'
<1> DEFINE n == job[p].n
           k == job[p].k
<1>1. /\ Types /\ n \in Node /\ job[p] \in Job /\ UNCHANGED store
      /\ bdir[n] \in BuildDir /\ k \in 1..(K + Parts + 1) /\ k <= Parts
      /\ job[p].pc = "setup"
  BY JobParts, DirParts DEF StepInv, Busy, JailMkdir
<1>2. CASE JailFails(p) /\ (NoFault \/ Fault)
  BY <1>1, <1>2, JailFailsKeeps
<1>3. CASE /\ bdir' = [bdir EXCEPT ![n].parts = @ \cup {k}]
           /\ job' = [job EXCEPT ![p].k = k + 1] /\ NoFault
  <2> DEFINE d == [bdir[n] EXCEPT !.parts = @ \cup {k}]
  <2>1. k \in 1..Parts /\ k + 1 \in 1..(K + Parts + 1)
    BY <1>1, PartsAssumption, Counts
  <2>2. d \in BuildDir
    BY <1>1, <2>1 DEF BuildDir
  <2>3. /\ bdir' = [bdir EXCEPT ![n] = d]
        /\ job' = [job EXCEPT ![p].pc = "setup", ![p].k = k + 1]
    BY <1>1, <1>3 DEF Types, Job
  <2> HIDE DEF d
  <2> QED BY <1>1, <1>3, <2>1, <2>2, <2>3, JailMakes DEF JailPcs
<1> QED BY <1>2, <1>3 DEF JailMkdir, Hit

LEMMA JailPivotKeeps ==
    ASSUME StepInv, NEW p \in Proc, JailPivot(p)
    PROVE  StepInv'
<1>1. job[p].n \in Node /\ UNCHANGED <<store, bdir>>
  BY DEF StepInv, Busy, JailPivot, JailFails
<1>2. CASE JailFails(p) /\ (NoFault \/ Fault)
  BY <1>1, <1>2, JailFailsKeeps
<1>3. CASE Goto(p, "inside") /\ NoFault
  BY <1>1, <1>3, FilesStay, GotoKeeps DEF Pcs, JailPcs
<1> QED BY <1>2, <1>3 DEF JailPivot, Hit

LEMMA JailInsideKeeps ==
    ASSUME StepInv, NEW p \in Proc, JailInside(p)
    PROVE  StepInv'
<1> DEFINE n == job[p].n
<1>1. Types /\ n \in Node /\ UNCHANGED store /\ bdir[n] \in BuildDir
  BY DirParts DEF StepInv, Busy, JailInside
<1>2. CASE JailFails(p) /\ (NoFault \/ Fault)
  BY <1>1, <1>2, JailFailsKeeps
<1>3. CASE /\ bdir' = [bdir EXCEPT ![n].out = EmptyDir]
           /\ job' = [job EXCEPT ![p].pc = "running", ![p].k = 1] /\ NoFault
  <2> DEFINE d == [bdir[n] EXCEPT !.out = EmptyDir]
  <2>1. d \in BuildDir
    BY <1>1 DEF BuildDir, EmptyDir, Object
  <2>2. bdir' = [bdir EXCEPT ![n] = d]
    BY <1>1, <1>3 DEF Types
  <2> HIDE DEF d
  <2> QED BY <1>1, <1>3, <2>1, <2>2, Counts, JailMakes DEF JailPcs
<1> QED BY <1>2, <1>3 DEF JailInside, Hit

(* A block written by the script is one of the derivative or of nobody.     *)
LEMMA ScriptBlock ==
    ASSUME Types, NEW p \in Proc, job[p].n \in Node, NEW of \in {job[p].n, 0},
           NEW k \in 1..K, NEW o \in {bdir[job[p].n].out, EmptyFile}
    PROVE  /\ o \in Object /\ Write(o, <<of, k>>) \in Object
           /\ Write(o, <<of, k>>).kind = o.kind
           /\ Write(o, <<of, k>>).has = {c \in o.has : c[2] # k} \cup {<<of, k>>}
<1>1. o \in Object
  BY DirParts DEF EmptyFile, Object
<1>2. <<of, k>> \in Blocks
  BY NAssumption DEF Blocks, Node
<1> QED BY <1>1, <1>2 DEF Write, Object

LEMMA ScriptKeeps ==
    ASSUME StepInv, NEW p \in Proc, NEW sound \in BOOLEAN, Script(p, sound)
    PROVE  StepInv'
<1> DEFINE n == job[p].n
           k == job[p].k
<1>1. /\ Types /\ n \in Node /\ job[p] \in Job /\ UNCHANGED store /\ NoFault
      /\ bdir[n] \in BuildDir /\ k \in 1..(K + Parts + 1) /\ k <= K
      /\ job[p].pc = "running" /\ job' = [job EXCEPT ![p].k = k + 1]
  BY JobParts, DirParts DEF StepInv, Busy, Script, NoFault
<1>2. PICK o \in {bdir[n].out, EmptyFile}, of \in {n, 0} :
         bdir' = bdir \/ bdir' = [bdir EXCEPT ![n].out = Write(o, <<of, k>>)]
  BY DEF Script
<1>3. k \in 1..K /\ k + 1 \in 1..(K + Parts + 1)
  BY <1>1, KAssumption, Counts
<1>4. Write(o, <<of, k>>) \in Object
  BY <1>1, <1>2, <1>3, ScriptBlock
<1> DEFINE d == [bdir[n] EXCEPT !.out = Write(o, <<of, k>>)]
<1>5. d \in BuildDir
  BY <1>1, <1>4 DEF BuildDir
<1>6. bdir' = [bdir EXCEPT ![n] = bdir[n]] \/ bdir' = [bdir EXCEPT ![n] = d]
  BY <1>1, <1>2 DEF Types
<1>7. job' = [job EXCEPT ![p].pc = "running", ![p].k = k + 1]
  BY <1>1 DEF Types, Job
<1> HIDE DEF d
<1> QED BY <1>1, <1>3, <1>5, <1>6, <1>7, JailMakes DEF JailPcs

(* Nobody reads what it prints any more, and it blocks or ends.             *)
LEMMA LogBreaksKeeps ==
    ASSUME StepInv, NEW p \in Proc, LogBreaks(p)
    PROVE  StepInv'
<1> DEFINE j == [job[p] EXCEPT !.log = "closed"]
<1>1. Types /\ job[p].n \in Node /\ job[p] \in Job /\ UNCHANGED <<store, bdir>> /\ Fault
  BY JobParts DEF StepInv, Busy, LogBreaks
<1>2. j \in Job /\ j.pc = "running" /\ j.n = job[p].n /\ job' = [job EXCEPT ![p] = j]
  BY <1>1 DEF Job, Types, LogBreaks
<1> HIDE DEF j
<1> QED BY <1>1, <1>2, FilesStay, MoveTo, MoveKeeps

LEMMA JailBlocksKeeps ==
    ASSUME StepInv, NEW p \in Proc, JailBlocks(p)
    PROVE  StepInv'
<1>1. job[p].n \in Node /\ UNCHANGED <<store, bdir>> /\ NoFault /\ Goto(p, "stuck")
  BY DEF StepInv, Busy, JailBlocks, NoFault
<1> QED BY <1>1, FilesStay, GotoKeeps DEF Pcs

LEMMA JailEndKeeps ==
    ASSUME StepInv, NEW p \in Proc, NEW sound \in BOOLEAN, JailEnd(p, sound)
    PROVE  StepInv'
<1>1. job[p].n \in Node /\ UNCHANGED <<store, bdir>>
  BY DEF StepInv, Busy, JailEnd, JailFails
<1>2. CASE JailFails(p) /\ (NoFault \/ Fault)
  BY <1>1, <1>2, JailFailsKeeps
<1>3. CASE job' = [job EXCEPT ![p].pc = "wait", ![p].code = "ok"] /\ (NoFault \/ Fault)
  BY <1>1, <1>3, ExitKeeps
<1> QED BY <1>2, <1>3 DEF JailEnd, Hit

(* waitpid(), and the kind of the output.                                   *)
LEMMA WaitKeeps ==
    ASSUME StepInv, NEW p \in Proc, Wait(p)
    PROVE  StepInv'
<1>1. job[p].n \in Node /\ UNCHANGED <<store, bdir>>
  BY DEF StepInv, Busy, Wait
<1>2. /\ NoFault \/ Fault
      /\ Fail(p) \/ Goto(p, "publish") \/ Goto(p, "openout")
  <2> DEFINE out == bdir[job[p].n].out
  <2>1. CASE out.kind = "dir"
    BY <2>1 DEF Wait
  <2>2. CASE out.kind = "file"
    BY <2>2 DEF Wait
  <2>3. CASE out.kind \notin {"dir", "file"}
    BY <2>3 DEF Wait
  <2> QED BY <2>1, <2>2, <2>3
<1>3. CASE Fail(p)
  BY <1>1, <1>2, <1>3, FilesStay, FailKeeps
<1>4. CASE Goto(p, "publish")
  BY <1>1, <1>2, <1>4, FilesStay, GotoKeeps DEF Pcs
<1>5. CASE Goto(p, "openout")
  BY <1>1, <1>2, <1>5, FilesStay, GotoKeeps DEF Pcs
<1> QED BY <1>2, <1>3, <1>4, <1>5

(* Who makes the directory in the store finds none, so nobody copies to it. *)
LEMMA PublishKeeps ==
    ASSUME StepInv, NEW p \in Proc, Publish(p)
    PROVE  StepInv'
<1> DEFINE n == job[p].n
<1>1. Types /\ n \in Node /\ job[p] \in Job /\ UNCHANGED bdir
  BY JobParts DEF StepInv, Busy, Publish
<1>2. EmptyDir \in Object /\ EmptyDir.kind = "dir"
  BY DEF EmptyDir, Object
<1>3. CASE Fail(p) /\ store' = [store EXCEPT ![n] = EmptyDir] /\ NoFault
  BY <1>1, <1>2, <1>3, StoreWrite, FailKeeps
<1>4. CASE Fail(p) /\ UNCHANGED store /\ (NoFault \/ Fault)
  BY <1>1, <1>4, FilesStay, FailKeeps
<1>5. CASE /\ ~Exists(store[n]) /\ store' = [store EXCEPT ![n] = EmptyDir] /\ NoFault
           /\ job' = [job EXCEPT ![p].pc = "copydir", ![p].k = 1, ![p].root = "path"]
  <2> DEFINE j == [job[p] EXCEPT !.pc = "copydir", !.k = 1, !.root = "path"]
  <2>1. j \in Job /\ j.pc = "copydir" /\ j.n = n
    BY <1>1, Counts DEF Job, Pcs
  <2>2. job' = [job EXCEPT ![p] = j]
    BY <1>1, <1>5 DEF Types
  <2> HIDE DEF j
  <2>3. job'[p] = j /\ \A q \in Proc \ {p} : job'[q] = job[q]
    BY <1>1, <2>2 DEF Types
  <2>4. Types' /\ Busy'
    BY <1>1, <1>2, <1>5, <2>1, <2>2, FaultType DEF Types, Busy, StepInv
  <2>5. \A q \in Proc \ {p} : Copying(q) => job[q].n \in Node /\ job[q].n # n
    BY <1>5 DEF StepInv, DirMade, Busy, Copying, Exists
  <2>6. DirMade'
    <3> SUFFICES ASSUME NEW q \in Proc, Copying(q)'
                 PROVE  store'[job'[q].n].kind = "dir"
      BY DEF DirMade
    <3>1. CASE q = p
      BY <1>1, <1>2, <1>5, <2>1, <2>3, <3>1 DEF Types
    <3>2. CASE q # p
      BY <1>1, <1>5, <2>3, <2>5, <3>2 DEF Types, StepInv, DirMade, Copying
    <3> QED BY <3>1, <3>2
  <2>7. OneCopier'
    BY <2>1, <2>3, <2>5 DEF OneCopier, Copying, StepInv
  <2> QED BY <2>4, <2>6, <2>7 DEF StepInv
<1> QED BY <1>3, <1>4, <1>5 DEF Publish

(* An entry of copy_directory().                                            *)
LEMMA CopyDirKeeps ==
    ASSUME StepInv, NEW p \in Proc, CopyDir(p)
    PROVE  StepInv'
<1> DEFINE n == job[p].n
           k == job[p].k
           entry == BlocksAt(Readable(p), k)
<1>1. /\ Types /\ n \in Node /\ job[p] \in Job /\ store[n] \in Object
      /\ UNCHANGED bdir /\ Copying(p) /\ k \in 1..(K + Parts + 1)
  BY JobParts, DirParts DEF StepInv, Busy, CopyDir, Copying
<1>2. ASSUME NEW b \in entry
      PROVE  b \in Blocks
  BY <1>1, DirParts DEF BlocksAt, Readable
<1>3. ASSUME NEW last \in {"ok", "fail"}, k <= K, Files, NoFault \/ Fault,
             job' = [job EXCEPT ![p].k = k + 1, ![p].last = last]
      PROVE  StepInv'
  <2> DEFINE j == [job[p] EXCEPT !.k = k + 1, !.last = last]
  <2>1. j \in Job /\ j.pc = "copydir" /\ j.n = n
    BY <1>1, <1>3, Counts DEF Job, CopyDir
  <2>2. job' = [job EXCEPT ![p] = j]
    BY <1>1, <1>3 DEF Types
  <2> HIDE DEF j
  <2> QED BY <1>1, <1>3, <2>1, <2>2, MoveTo, MoveKeeps
<1>4. CASE /\ k <= K /\ NoFault
           /\ \E b \in entry : store' = [store EXCEPT ![n].has = @ \cup {b}]
           /\ job' = [job EXCEPT ![p].k = k + 1, ![p].last = "ok"]
  <2>1. PICK b \in entry : store' = [store EXCEPT ![n].has = @ \cup {b}]
    BY <1>4
  <2> DEFINE o == [store[n] EXCEPT !.has = @ \cup {b}]
  <2>2. o \in Object /\ o.kind = store[n].kind
    BY <1>1, <1>2 DEF Object
  <2>3. store' = [store EXCEPT ![n] = o]
    BY <1>1, <2>1 DEF Types
  <2> HIDE DEF o
  <2>4. Files
    BY <1>1, <2>2, <2>3, StoreWrite
  <2> QED BY <1>3, <1>4, <2>4
<1>5. CASE /\ k <= K /\ NoFault /\ UNCHANGED store
           /\ job' = [job EXCEPT ![p].k = k + 1]
  <2>1. job' = [job EXCEPT ![p].k = k + 1, ![p].last = job[p].last]
    BY <1>1, <1>5 DEF Types, Job
  <2>2. job[p].last \in {"ok", "fail"}
    BY <1>1 DEF Job
  <2> QED BY <1>1, <1>3, <1>5, <2>1, <2>2, FilesStay
<1>6. CASE /\ k <= K /\ UNCHANGED store /\ Hit(p)
           /\ job' = [job EXCEPT ![p].k = k + 1, ![p].last = "fail"]
  BY <1>1, <1>3, <1>6, FilesStay DEF Hit
<1>7. CASE Goto(p, "copied") /\ UNCHANGED store /\ (NoFault \/ Fault)
  BY <1>1, <1>7, FilesStay, GotoKeeps DEF Pcs
<1> QED BY <1>4, <1>5, <1>6, <1>7 DEF CopyDir, Hit

(* The result of copy_directory().                                          *)
LEMMA CopiedKeeps ==
    ASSUME StepInv, NEW p \in Proc, Copied(p)
    PROVE  StepInv'
<1>1. job[p].n \in Node /\ UNCHANGED <<store, bdir>> /\ NoFault
  BY DEF StepInv, Busy, Copied
<1>2. CASE Fail(p)
  BY <1>1, <1>2, FilesStay, FailKeeps
<1>3. CASE Goto(p, "chmod")
  BY <1>1, <1>3, FilesStay, GotoKeeps DEF Pcs
<1> QED BY <1>2, <1>3 DEF Copied

(* The two fopen() of a plain file.                                         *)
LEMMA OpenOutKeeps ==
    ASSUME StepInv, NEW p \in Proc, OpenOut(p)
    PROVE  StepInv'
<1> DEFINE n == job[p].n
<1>1. /\ Types /\ n \in Node /\ job[p] \in Job /\ bdir[n].out.has \in SUBSET Blocks
      /\ UNCHANGED bdir
  BY JobParts, DirParts DEF StepInv, Busy, OpenOut
<1>2. CASE Fail(p) /\ UNCHANGED store /\ (NoFault \/ Fault)
  BY <1>1, <1>2, FilesStay, FailKeeps
<1>3. CASE store[n].kind # "dir" /\ store' = [store EXCEPT ![n] = EmptyFile]
  <2>1. EmptyFile \in Object
    BY DEF EmptyFile, Object
  <2>2. Files
    BY <1>1, <1>3, <2>1, StoreWrite
  <2>3. CASE Fail(p) /\ (NoFault \/ Fault)
    BY <1>1, <2>2, <2>3, FailKeeps
  <2>4. CASE /\ job' = [job EXCEPT ![p].pc = "copyfile", ![p].k = 1,
                                   ![p].data = bdir[n].out.has]
             /\ NoFault
    <3> DEFINE j == [job[p] EXCEPT !.pc = "copyfile", !.k = 1, !.data = bdir[n].out.has]
    <3>1. j \in Job /\ j.pc = "copyfile" /\ j.n = n
      BY <1>1, Counts DEF Job, Pcs
    <3>2. job' = [job EXCEPT ![p] = j]
      BY <1>1, <2>4 DEF Types
    <3> HIDE DEF j
    <3> QED BY <1>1, <2>2, <2>4, <3>1, <3>2, MoveTo, MoveKeeps
  <2> QED BY <1>1, <1>2, <1>3, <2>3, <2>4 DEF OpenOut
<1> QED BY <1>2, <1>3 DEF OpenOut

(* A block of copy_file().                                                  *)
LEMMA CopyFileKeeps ==
    ASSUME StepInv, NEW p \in Proc, CopyFile(p)
    PROVE  StepInv'
<1> DEFINE n == job[p].n
           k == job[p].k
<1>1. /\ Types /\ n \in Node /\ job[p] \in Job /\ store[n] \in Object
      /\ UNCHANGED bdir /\ job[p].pc = "copyfile" /\ job[p].data \in SUBSET Blocks
  BY JobParts, DirParts DEF StepInv, Busy, CopyFile
<1>2. ASSUME NEW b \in BlocksAt(job[p].data, k), NoFault,
             store' = [store EXCEPT ![n] = Write(@, b)],
             job' = [job EXCEPT ![p].k = k + 1]
      PROVE  StepInv'
  <2>1. b \in Blocks /\ k + 1 \in 1..(K + Parts + 1)
    <3>1. b \in Blocks /\ b[2] = k
      BY <1>1 DEF BlocksAt
    <3>2. k \in 1..K
      BY <3>1 DEF Blocks
    <3>3. k \in 1..(K + Parts + 1) /\ k <= K
      BY <3>2, KAssumption, PartsAssumption
    <3> QED BY <3>1, <3>3, Counts
  <2> DEFINE o == Write(store[n], b)
             j == [job[p] EXCEPT !.k = k + 1]
  <2>2. o \in Object /\ o.kind = store[n].kind
    BY <1>1, <2>1 DEF Write, Object
  <2>3. j \in Job /\ j.pc = "copyfile" /\ j.n = n
    BY <1>1, <2>1 DEF Job
  <2>4. store' = [store EXCEPT ![n] = o] /\ job' = [job EXCEPT ![p] = j]
    BY <1>1, <1>2 DEF Types
  <2> HIDE DEF o, j
  <2>5. Files
    BY <1>1, <2>2, <2>4, StoreWrite
  <2> QED BY <1>1, <1>2, <2>3, <2>4, <2>5, MoveTo, MoveKeeps
<1>3. CASE Goto(p, "close") /\ UNCHANGED store /\ NoFault
  BY <1>1, <1>3, FilesStay, GotoKeeps DEF Pcs
<1>4. CASE Fail(p) /\ UNCHANGED store /\ Fault
  BY <1>1, <1>4, FilesStay, FailKeeps
<1> QED BY <1>2, <1>3, <1>4 DEF CopyFile

(* fclose().                                                                *)
LEMMA CloseKeeps ==
    ASSUME StepInv, NEW p \in Proc, Close(p)
    PROVE  StepInv'
<1> DEFINE n == job[p].n
<1>1. /\ Types /\ n \in Node /\ store[n] \in Object /\ UNCHANGED bdir
      /\ Goto(p, "chmod")
  BY DirParts DEF StepInv, Busy, Close
<1>2. CASE UNCHANGED store /\ NoFault
  BY <1>1, <1>2, FilesStay, GotoKeeps DEF Pcs
<1>3. CASE store' = [store EXCEPT ![n].has = @ \ BlocksAt(@, K)] /\ Fault
  <2> DEFINE o == [store[n] EXCEPT !.has = @ \ BlocksAt(@, K)]
  <2>1. o \in Object /\ o.kind = store[n].kind
    BY <1>1 DEF Object
  <2>2. store' = [store EXCEPT ![n] = o]
    BY <1>1, <1>3 DEF Types
  <2> HIDE DEF o
  <2>3. Files
    BY <1>1, <2>1, <2>2, StoreWrite
  <2> QED BY <1>1, <1>3, <2>3, GotoKeeps DEF Pcs
<1> QED BY <1>2, <1>3 DEF Close

(* chmod().                                                                 *)
LEMMA ChmodKeeps ==
    ASSUME StepInv, NEW p \in Proc, Chmod(p)
    PROVE  StepInv'
<1>1. job[p].n \in Node /\ UNCHANGED <<store, bdir>>
  BY DEF StepInv, Busy, Chmod
<1>2. CASE Fail(p) /\ Fault
  BY <1>1, <1>2, FilesStay, FailKeeps
<1>3. CASE Goto(p, "finalize") /\ NoFault
  BY <1>1, <1>3, FilesStay, GotoKeeps DEF Pcs
<1> QED BY <1>2, <1>3 DEF Chmod

(* The build directory is removed at the end.                               *)
LEMMA FinalizeKeeps ==
    ASSUME StepInv, NEW p \in Proc, Finalize(p)
    PROVE  StepInv'
<1>1. /\ Types /\ job[p].n \in Node /\ job[p] \in Job
      /\ RemoveDir(p, Return(job[p])) /\ UNCHANGED store
  BY JobParts DEF StepInv, Busy, Finalize
<1>2. /\ Return(job[p]) \in Job /\ Return(job[p]).pc = "returned"
      /\ Return(job[p]).n = job[p].n
  BY <1>1, ReturnType
<1> QED BY <1>1, <1>2, RemoveKeeps DEF Finalize

(* All of build_standard() and monitor_jail().                              *)
LEMMA BuildStep ==
    ASSUME StepInv, NEW p \in Proc, NEW sound \in BOOLEAN, Step(p, sound)
    PROVE  StepInv'
BY ClearKeeps, EnsureKeeps, ForkKeeps, OpenLogKeeps, JailBindKeeps, JailMkdirKeeps,
   JailPivotKeeps, JailInsideKeeps, ScriptKeeps, LogBreaksKeeps, JailBlocksKeeps,
   JailEndKeeps, WaitKeeps, PublishKeeps, CopyDirKeeps, CopiedKeeps, OpenOutKeeps,
   CopyFileKeeps, CloseKeeps, ChmodKeeps, FinalizeKeeps DEF Step

(* A step is one of a job, ...                                              *)
LEMMA StepIsBusy ==
    ASSUME NEW p \in Proc, NEW sound \in BOOLEAN, Step(p, sound)
    PROVE  job[p].pc # "idle"
BY DEF Step, Clear, Ensure, Fork, OpenLog, JailBind, JailMkdir, JailPivot, JailInside,
       Script, LogBreaks, JailBlocks, JailEnd, Wait, Publish, CopyDir, Copied, OpenOut,
       CopyFile, Close, Chmod, Finalize

(* ... and touches no job but its own and those on the same derivative.     *)
LEMMA StepRest ==
    ASSUME StepInv, NEW p \in Proc, NEW sound \in BOOLEAN, Step(p, sound)
    PROVE  Rest(p) /\ (NoFault \/ Fault)
<1>1. Types /\ job[p].n \in Node /\ job[p] \in Job
  BY StepIsBusy, JobParts DEF StepInv, Busy
<1>2. CASE Clear(p)
  <2>1. [job[p] EXCEPT !.pc = "ensure"] \in Job
    BY <1>1 DEF Job, Pcs
  <2> QED BY <1>1, <1>2, <2>1, RemoveEffect DEF Clear, Moves
<1>3. CASE Finalize(p)
  <2>1. Return(job[p]) \in Job
    BY <1>1, ReturnType
  <2> QED BY <1>1, <1>3, <2>1, RemoveEffect DEF Finalize, Moves
<1>4. CASE ~Clear(p) /\ ~Finalize(p)
  <2>1. (\A q \in Proc \ {p} : job'[q] = job[q]) /\ (NoFault \/ Fault)
    <3>1. CASE Ensure(p) \/ Fork(p) \/ OpenLog(p) \/ Wait(p)
      BY <1>1, <3>1 DEF Ensure, Fork, OpenLog, Wait, Goto, Fail, Types
    <3>2. CASE JailBind(p) \/ JailMkdir(p) \/ JailPivot(p) \/ JailInside(p)
      BY <1>1, <3>2 DEF JailBind, JailMkdir, JailPivot, JailInside, JailFails, Hit, Goto,
                        Types
    <3>3. CASE Script(p, sound) \/ LogBreaks(p) \/ JailBlocks(p) \/ JailEnd(p, sound)
      BY <1>1, <3>3 DEF Script, LogBreaks, JailBlocks, JailEnd, JailFails, Hit, Goto,
                        NoFault, Types
    <3>4. CASE Publish(p) \/ CopyDir(p) \/ Copied(p)
      BY <1>1, <3>4 DEF Publish, CopyDir, Copied, Goto, Fail, Hit, Types
    <3>5. CASE OpenOut(p) \/ CopyFile(p) \/ Close(p) \/ Chmod(p)
      BY <1>1, <3>5 DEF OpenOut, CopyFile, Close, Chmod, Goto, Fail, Types
    <3> QED BY <1>4, <3>1, <3>2, <3>3, <3>4, <3>5 DEF Step
  <2> QED BY <2>1 DEF Rest
<1> QED BY <1>2, <1>3, <1>4

-----------------------------------------------------------------------------
(* A job is begun or put away: it copies nothing.                           *)
LEMMA JobKeeps ==
    ASSUME StepInv, NEW p \in Proc, NEW j \in Job, job' = [job EXCEPT ![p] = j],
           j.pc \notin {"copydir", "copied"}, j.pc # "idle" => j.n \in Node,
           UNCHANGED <<store, bdir, faults>>
    PROVE  StepInv'
<1> USE DEF StepInv
<1>1. job'[p] = j /\ \A q \in Proc \ {p} : job'[q] = job[q]
  BY DEF Types
<1>2. Types' /\ Busy'
  BY <1>1 DEF Types, Busy
<1>3. \A q \in Proc : Copying(q)' => Copying(q) /\ job'[q].n = job[q].n
  BY <1>1 DEF Copying
<1>4. DirMade' /\ OneCopier'
  BY <1>3 DEF DirMade, OneCopier
<1> QED BY <1>2, <1>4

(* A process that builds nothing.                                           *)
LEMMA NoJobType ==
    /\ NoJob \in Job /\ NoJob.pc = "idle" /\ NoJob.n = 0 /\ NoJob.code = "fail"
    /\ NoJob.data = {} /\ NoJob.root = "path"
<1>1. {} \in SUBSET Blocks /\ 0 \in 0..N
  BY NAssumption
<1> QED BY <1>1, Counts DEF NoJob, Job, Pcs

(* Invocations on an empty store.                                           *)
LEMMA BuildInit == RunInit => BuildInv
<1> SUFFICES ASSUME RunInit PROVE BuildInv
  OBVIOUS
<1> USE DEF RunInit, Init
<1>1. Absent \in Object
  BY DEF Absent, Object
<1>2. TypeOK
  BY <1>1, NoDirType, NoJobType, FaultsAssumption DEF TypeOK
<1>3. \A p \in Proc : job[p].pc = "idle" /\ job[p] = NoJob
  BY NoJobType
<1>4. NobodyElse
  BY <1>3 DEF NobodyElse
<1> QED BY <1>2, <1>3, <1>4 DEF BuildInv, Busy, DirMade, OneCopier, Copying

(* build_derivative() for one derivative of a plan after the other.         *)
LEMMA BuildNext == BuildInv /\ [RunNext]_runVars => BuildInv'
<1> SUFFICES ASSUME BuildInv, [RunNext]_runVars PROVE BuildInv'
  OBVIOUS
<1>1. StepInv
  BY DEF BuildInv, StepInv, TypeOK, Types
<1>2. CASE UNCHANGED runVars
  BY <1>2 DEF runVars, vars, BuildInv, TypeOK, Busy, DirMade, OneCopier, NobodyElse, Copying
<1>3. ASSUME NEW p \in Proc, Work(p) PROVE BuildInv'
  <2>1. CASE Step(p, TRUE) /\ UNCHANGED <<crowd, plan, done>>
    <3>1. StepInv' /\ Rest(p) /\ job[p].pc # "idle"
      BY <1>1, <2>1, BuildStep, StepRest, StepIsBusy
    <3>2. p \in crowd /\ job[p].n \in Node
      BY <3>1, NoJobType DEF BuildInv, NobodyElse, Busy
    <3>3. \A q \in Proc \ crowd : job'[q] = NoJob
      <4> SUFFICES ASSUME NEW q \in Proc \ crowd PROVE job'[q] = NoJob
        OBVIOUS
      <4>1. job[q] = NoJob /\ q # p /\ job[q].n # job[p].n
        BY <3>2, NoJobType DEF BuildInv, NobodyElse, Node
      <4> QED BY <3>1, <4>1 DEF Rest
    <3>4. NobodyElse'
      BY <2>1, <3>3 DEF NobodyElse, BuildInv
    <3> QED BY <2>1, <3>1, <3>4 DEF BuildInv, StepInv, TypeOK, Types
  <2>2. CASE Take(p)
    <3>1. PICK n \in plan[p] : /\ Begin(p, n) /\ plan' = [plan EXCEPT ![p] = @ \ {n}]
                               /\ UNCHANGED <<crowd, done>>
      BY <2>2 DEF Take
    <3>2. n \in Node /\ p \in crowd
      BY <3>1 DEF BuildInv, TypeOK, NobodyElse
    <3> DEFINE j == [NoJob EXCEPT !.pc = "clear", !.n = n]
    <3>3. j \in Job /\ j.pc = "clear" /\ j.n = n
      <4>1. n \in 0..N
        BY <3>2, NAssumption DEF Node
      <4> QED BY <4>1, NoJobType DEF Job, Pcs
    <3>4. job' = [job EXCEPT ![p] = j] /\ UNCHANGED <<store, bdir, faults>>
      BY <3>1 DEF Begin
    <3> HIDE DEF j
    <3>5. StepInv'
      BY <1>1, <3>2, <3>3, <3>4, JobKeeps
    <3>6. NobodyElse'
      BY <3>1, <3>2, <3>4 DEF NobodyElse, BuildInv, TypeOK
    <3> QED BY <3>1, <3>5, <3>6 DEF BuildInv, StepInv, TypeOK, Types
  <2>3. CASE Finish(p)
    <3>1. StepInv'
      BY <1>1, <2>3, NoJobType, JobKeeps DEF Finish
    <3>2. plan' \in [Proc -> SUBSET Node] /\ done' \subseteq Node /\ UNCHANGED crowd
      BY <2>3 DEF Finish, BuildInv, TypeOK, Busy
    <3>3. NobodyElse'
      <4>1. \A q \in Proc : /\ job'[q] \in {job[q], NoJob}
                            /\ plan'[q] \in {plan[q], {}}
        BY <2>3 DEF Finish, BuildInv, TypeOK
      <4> QED BY <3>2, <4>1 DEF NobodyElse, BuildInv
    <3> QED BY <3>1, <3>2, <3>3 DEF BuildInv, StepInv, TypeOK, Types
  <2> QED BY <1>3, <2>1, <2>2, <2>3 DEF Work
<1> QED BY <1>2, <1>3 DEF RunNext

-----------------------------------------------------------------------------
(* However many invocations build at once, one removing what the other is   *)
(* at work in, and whatever fails: every job is at a place of               *)
(* build_standard() with a derivative of its own, who copies a directory    *)
(* has made one, and who was not started does nothing.                      *)
THEOREM BuildInvariant == RunSpec => []BuildInv
<1> QED BY BuildInit, BuildNext, PTL DEF RunSpec

(* No two processes fill the directory of one store object.                 *)
THEOREM OnlyOneCopies == RunSpec => []OneCopier
<1>1. BuildInv => OneCopier
  BY DEF BuildInv
<1> QED BY <1>1, BuildInvariant, PTL

-----------------------------------------------------------------------------
(* What stands in the output directories and in the store is of the         *)
(* derivative it is kept for.                                               *)
FilesSound ==
    \A n \in Node : store[n].has \subseteq Whole(n) /\ bdir[n].out.has \subseteq Whole(n)

(* The places where the object has been made.                               *)
HasObject(j) ==
    \/ j.pc \in {"copydir", "copied", "copyfile", "close", "chmod"}
    \/ j.pc \in {"finalize", "returned"} /\ j.code = "ok"

(* Before the jail has run a build has not succeeded; after it, it has only *)
(* with an object in the store.                                             *)
JobSound(p) ==
    /\ job[p].pc \in {"idle", "clear", "ensure"} => job[p].code = "fail"
    /\ HasObject(job[p]) => Exists(store[job[p].n])

(* Nobody took anything from its directory, nor from what it read of it.    *)
JobOwn(p) == job[p].root = "path" /\ job[p].data \subseteq Whole(job[p].n)

(* The inductive invariant for BuiltExists.                                 *)
ExistInv ==
    /\ \A p \in Proc : JobSound(p)
    /\ Alone => FilesSound /\ \A p \in Proc : JobOwn(p)
    /\ BuiltExists

(* The files stay sound, and no object goes.                                *)
Kept ==
    /\ \A n \in Node : Exists(store[n]) => Exists(store'[n])
    /\ Alone => FilesSound'

\* What a step of p may do to it.
SoundStep(p) == Rest(p) /\ Kept /\ JobSound(p)' /\ (Alone => JobOwn(p)')

(* An invocation by itself shares its build directories with nobody.        *)
LEMMA AloneKeeps ==
    ASSUME BuildInv, Alone, NEW p \in Proc, job[p].n \in Node \/ job' = [job EXCEPT ![p] = job'[p]],
           Rest(p), NEW q \in Proc \ {p}
    PROVE  job'[q] = job[q]
<1>1. CASE job[q].n # job[p].n
  BY <1>1 DEF Rest
<1>2. CASE job' = [job EXCEPT ![p] = job'[p]]
  BY <1>2 DEF BuildInv, TypeOK
<1>3. CASE job[q].n = job[p].n /\ job[p].n \in Node
  <2>1. job[q] # NoJob /\ job[p] # NoJob
    BY <1>3, NoJobType DEF Node
  <2>2. p \in crowd /\ q \in crowd
    BY <2>1 DEF BuildInv, NobodyElse
  <2> QED BY <2>2 DEF Alone
<1> QED BY <1>1, <1>2, <1>3

(* Then the jobs of the others are as sound as before.                      *)
LEMMA SoundKeeps ==
    ASSUME BuildInv, ExistInv, NEW p \in Proc, SoundStep(p), UNCHANGED <<done, crowd>>,
           job[p].n \in Node \/ job' = [job EXCEPT ![p] = job'[p]]
    PROVE  ExistInv'
<1>1. Alone' <=> Alone
  BY DEF Alone
<1>2. ASSUME NEW q \in Proc PROVE JobSound(q)' /\ (Alone => JobOwn(q)')
  <2>1. CASE q = p
    BY <2>1 DEF SoundStep
  <2>2. CASE q # p
    <3>1. /\ job'[q].pc = job[q].pc /\ job'[q].n = job[q].n /\ job'[q].code = job[q].code
      <4>1. job[q] \in Job
        BY DEF BuildInv, TypeOK
      <4>2. CASE job'[q] = job[q]
        BY <4>2
      <4>3. CASE \E r \in {"torn", "gone"} : job'[q] = [job[q] EXCEPT !.root = r]
        BY <4>1, <4>3 DEF Job
      <4> QED BY <2>2, <4>2, <4>3 DEF SoundStep, Rest
    <3>2. HasObject(job[q]) => job[q].n \in Node
      BY DEF BuildInv, Busy, HasObject
    <3>3. JobSound(q)'
      BY <3>1, <3>2 DEF SoundStep, Kept, ExistInv, JobSound, HasObject
    <3>4. Alone => JobOwn(q)'
      BY <2>2, AloneKeeps DEF SoundStep, ExistInv, JobOwn
    <3> QED BY <3>3, <3>4
  <2> QED BY <2>1, <2>2
<1>3. BuiltExists'
  BY <1>1 DEF SoundStep, Kept, ExistInv, BuiltExists, FilesSound, BuildInv, TypeOK
<1> QED BY <1>1, <1>2, <1>3 DEF SoundStep, Kept, ExistInv

(* The job becomes one that is sound.                                       *)
LEMMA RobSound ==
    ASSUME NEW p \in Proc, NEW j, job'[p] = j, Rest(p), Kept,
           j.pc \in {"idle", "clear", "ensure"} => j.code = "fail",
           HasObject(j) => Exists(store'[j.n]),
           Alone => j.root = "path" /\ j.data \subseteq Whole(j.n)
    PROVE  SoundStep(p)
BY DEF SoundStep, JobSound, JobOwn

LEMMA MoveSound ==
    ASSUME BuildInv, NEW p \in Proc, NEW j, job' = [job EXCEPT ![p] = j], Kept,
           j.pc \in {"idle", "clear", "ensure"} => j.code = "fail",
           HasObject(j) => Exists(store'[j.n]),
           Alone => j.root = "path" /\ j.data \subseteq Whole(j.n)
    PROVE  SoundStep(p)
<1>1. job'[p] = j /\ Rest(p)
  BY DEF BuildInv, TypeOK, Rest
<1> QED BY <1>1, RobSound

(* It goes on to another place, ...                                         *)
LEMMA GotoSound ==
    ASSUME BuildInv, ExistInv, NEW p \in Proc,
           NEW pc \in Pcs \ {"idle", "clear", "ensure", "finalize", "returned"},
           Goto(p, pc), Kept,
           pc \in {"copydir", "copied", "copyfile", "close", "chmod"} =>
               Exists(store'[job[p].n])
    PROVE  SoundStep(p)
<1> DEFINE j == [job[p] EXCEPT !.pc = pc]
<1>1. job[p] \in Job /\ job' = [job EXCEPT ![p] = j]
  BY DEF BuildInv, TypeOK, Goto
<1>2. j.pc = pc /\ j.n = job[p].n /\ j.data = job[p].data /\ j.root = job[p].root
  BY <1>1 DEF Job
<1> HIDE DEF j
<1> QED BY <1>1, <1>2, MoveSound DEF ExistInv, JobOwn, HasObject

(* ... ends with a code ...                                                 *)
LEMMA ExitSound ==
    ASSUME BuildInv, ExistInv, NEW p \in Proc, NEW code \in {"ok", "fail"}, Kept,
           job' = [job EXCEPT ![p].pc = "wait", ![p].code = code]
    PROVE  SoundStep(p)
<1> DEFINE j == [job[p] EXCEPT !.pc = "wait", !.code = code]
<1>1. job[p] \in Job /\ job' = [job EXCEPT ![p] = j]
  BY DEF BuildInv, TypeOK
<1>2. j.pc = "wait" /\ j.n = job[p].n /\ j.data = job[p].data /\ j.root = job[p].root
  BY <1>1 DEF Job
<1> HIDE DEF j
<1> QED BY <1>1, <1>2, MoveSound DEF ExistInv, JobOwn, HasObject

(* ... fails ...                                                            *)
LEMMA FailSound ==
    ASSUME BuildInv, ExistInv, NEW p \in Proc, Fail(p), Kept
    PROVE  SoundStep(p)
<1> DEFINE j == [job[p] EXCEPT !.pc = "finalize", !.code = "fail"]
<1>1. job[p] \in Job /\ job' = [job EXCEPT ![p] = j]
  BY DEF BuildInv, TypeOK, Fail
<1>2. /\ j.pc = "finalize" /\ j.code = "fail" /\ j.n = job[p].n /\ j.data = job[p].data
      /\ j.root = job[p].root
  BY <1>1 DEF Job
<1> HIDE DEF j
<1> QED BY <1>1, <1>2, MoveSound DEF ExistInv, JobOwn, HasObject

(* ... or returns the code it has.                                          *)
LEMMA ReturnSound ==
    ASSUME BuildInv, ExistInv, NEW p \in Proc, job[p].pc \in {"ensure", "finalize"},
           job' = [job EXCEPT ![p] = Return(job[p])], Kept, UNCHANGED store
    PROVE  SoundStep(p)
<1> DEFINE j == Return(job[p])
<1>1. /\ j.pc = "returned" /\ j.n = job[p].n /\ j.data = {} /\ j.code = job[p].code
      /\ j.root = "path"
  BY DEF Return, NoJob
<1>2. HasObject(j) => Exists(store'[j.n])
  BY <1>1 DEF ExistInv, JobSound, HasObject
<1> HIDE DEF j
<1> QED BY <1>1, <1>2, MoveSound DEF j

(* Files that do not change are kept.                                       *)
LEMMA SameKept ==
    ASSUME ExistInv, UNCHANGED <<store, bdir>>
    PROVE  Kept
BY DEF Kept, ExistInv, FilesSound

(* So are a store object written to with what is sound, ...                 *)
LEMMA StoreKept ==
    ASSUME BuildInv, ExistInv, NEW n \in Node, NEW o, store' = [store EXCEPT ![n] = o],
           Alone => o.has \subseteq Whole(n), Exists(o), UNCHANGED bdir
    PROVE  Kept /\ store'[n] = o
BY DEF BuildInv, TypeOK, Kept, ExistInv, FilesSound

(* ... and a build directory with a sound output.                           *)
LEMMA DirKept ==
    ASSUME BuildInv, ExistInv, NEW n \in Node, NEW d, bdir' = [bdir EXCEPT ![n] = d],
           Alone => d.out.has \subseteq Whole(n), UNCHANGED store
    PROVE  Kept
BY DEF BuildInv, TypeOK, Kept, ExistInv, FilesSound

(* fs_rmdir() adds nothing to what it leaves.                               *)
LEMMA RemoveSound ==
    ASSUME BuildInv, ExistInv, NEW p \in Proc, job[p].n \in Node, UNCHANGED store,
           NEW after \in Job, RemoveDir(p, after),
           after.pc \in {"idle", "clear", "ensure"} => after.code = "fail",
           HasObject(after) => Exists(store[after.n]),
           Alone => after.root = "path" /\ after.data \subseteq Whole(after.n)
    PROVE  SoundStep(p)
<1>1. /\ \A m \in Node : bdir'[m].out.has \subseteq bdir[m].out.has
      /\ Moves(p, job[p]) \/ Moves(p, after)
  BY RemoveEffect DEF BuildInv, TypeOK, Types
<1>2. Kept
  BY <1>1 DEF Kept, ExistInv, FilesSound
<1>3. CASE Moves(p, job[p])
  BY <1>2, <1>3 DEF Moves, SoundStep, ExistInv, JobSound, JobOwn, HasObject
<1>4. CASE Moves(p, after)
  BY <1>2, <1>4, RobSound DEF Moves
<1> QED BY <1>1, <1>3, <1>4

-----------------------------------------------------------------------------
(* Every step of build_standard() is sound, as its dependencies are.        *)
LEMMA StepSound ==
    ASSUME BuildInv, ExistInv, NEW p \in Proc, Step(p, TRUE)
    PROVE  SoundStep(p)
<1> DEFINE n == job[p].n
           k == job[p].k
<1>0. job[p].pc # "idle" /\ Types
  BY StepIsBusy DEF BuildInv, TypeOK, Types
<1>1. /\ n \in Node /\ job[p] \in Job /\ JobSound(p) /\ store[n] \in Object
      /\ bdir[n] \in BuildDir /\ bdir[n].out \in Object
      /\ Alone => /\ JobOwn(p) /\ store[n].has \subseteq Whole(n)
                  /\ bdir[n].out.has \subseteq Whole(n)
  BY <1>0, JobParts, DirParts DEF BuildInv, Busy, ExistInv, FilesSound
<1>2. CASE Clear(p)
  <2> DEFINE j == [job[p] EXCEPT !.pc = "ensure"]
  <2>1. /\ j \in Job /\ j.pc = "ensure" /\ j.code = "fail" /\ j.data = job[p].data
        /\ j.n = n /\ j.root = job[p].root
    BY <1>1, <1>2 DEF Job, Clear, JobSound, Pcs
  <2>2. RemoveDir(p, j) /\ UNCHANGED store
    BY <1>2 DEF Clear
  <2> HIDE DEF j
  <2> QED BY <1>1, <2>1, <2>2, RemoveSound DEF JobOwn, HasObject
<1>3. CASE Ensure(p)
  <2>1. CASE bdir' = [bdir EXCEPT ![n].there = TRUE] /\ Goto(p, "fork")
    <3> DEFINE d == [bdir[n] EXCEPT !.there = TRUE]
    <3>1. d.out = bdir[n].out /\ bdir' = [bdir EXCEPT ![n] = d] /\ UNCHANGED store
      BY <1>0, <1>1, <1>3, <2>1 DEF BuildDir, Types, Ensure
    <3> HIDE DEF d
    <3> QED BY <1>1, <2>1, <3>1, DirKept, GotoSound DEF Pcs
  <2>2. CASE UNCHANGED bdir /\ Goto(p, "fork")
    BY <1>3, <2>2, SameKept, GotoSound DEF Ensure, Pcs
  <2>3. CASE UNCHANGED bdir /\ job' = [job EXCEPT ![p] = Return(@)]
    BY <1>3, <2>3, SameKept, ReturnSound DEF Ensure
  <2> QED BY <1>3, <2>1, <2>2, <2>3 DEF Ensure
<1>4. CASE Fork(p)
  <2>1. CASE Goto(p, "log")
    BY <1>4, <2>1, SameKept, GotoSound DEF Fork, Pcs
  <2>2. CASE Goto(p, "exited")
    BY <1>4, <2>2, SameKept, GotoSound DEF Fork, Pcs
  <2>3. CASE Fail(p)
    BY <1>4, <2>3, SameKept, FailSound DEF Fork
  <2> QED BY <1>4, <2>1, <2>2, <2>3 DEF Fork
<1>5. CASE OpenLog(p)
  <2>1. PICK log \in {"read", "unread"} : job' = [job EXCEPT ![p].pc = "jail", ![p].log = log]
    BY <1>5 DEF OpenLog
  <2> DEFINE j == [job[p] EXCEPT !.pc = "jail", !.log = log]
  <2>2. /\ j.pc = "jail" /\ j.n = n /\ j.data = job[p].data /\ j.root = job[p].root
        /\ job' = [job EXCEPT ![p] = j] /\ UNCHANGED <<store, bdir>>
    BY <1>0, <1>1, <1>5, <2>1 DEF Job, Types, OpenLog
  <2> HIDE DEF j
  <2> QED BY <1>1, <2>2, SameKept, MoveSound DEF JobOwn, HasObject
<1>20. ASSUME JailFails(p), UNCHANGED store PROVE SoundStep(p)
  BY <1>20, SameKept, ExitSound DEF JailFails
<1>21. CASE JailBind(p)
  <2>1. CASE /\ job' = [job EXCEPT ![p].pc = "setup", ![p].k = 1, ![p].root = "path"]
             /\ UNCHANGED bdir
    <3> DEFINE j == [job[p] EXCEPT !.pc = "setup", !.k = 1, !.root = "path"]
    <3>1. /\ j.pc = "setup" /\ j.n = n /\ j.data = job[p].data /\ j.root = "path"
          /\ job' = [job EXCEPT ![p] = j] /\ UNCHANGED <<store, bdir>>
      BY <1>0, <1>1, <1>21, <2>1 DEF Job, Types, JailBind
    <3> HIDE DEF j
    <3> QED BY <1>1, <3>1, SameKept, MoveSound DEF JobOwn, HasObject
  <2> QED BY <1>20, <1>21, <2>1 DEF JailBind
<1>22. CASE JailMkdir(p)
  <2>1. CASE /\ bdir' = [bdir EXCEPT ![n].parts = @ \cup {k}]
             /\ job' = [job EXCEPT ![p].k = k + 1]
    <3> DEFINE j == [job[p] EXCEPT !.k = k + 1]
               d == [bdir[n] EXCEPT !.parts = @ \cup {k}]
    <3>1. /\ j.pc = "setup" /\ j.n = n /\ j.data = job[p].data /\ j.root = job[p].root
          /\ job' = [job EXCEPT ![p] = j]
      BY <1>0, <1>1, <1>22, <2>1 DEF Job, Types, JailMkdir
    <3>2. d.out = bdir[n].out /\ bdir' = [bdir EXCEPT ![n] = d] /\ UNCHANGED store
      BY <1>0, <1>1, <1>22, <2>1 DEF BuildDir, Types, JailMkdir
    <3> HIDE DEF j, d
    <3> QED BY <1>1, <3>1, <3>2, DirKept, MoveSound DEF JobOwn, HasObject
  <2> QED BY <1>20, <1>22, <2>1 DEF JailMkdir
<1>23. CASE JailPivot(p)
  <2>1. CASE Goto(p, "inside") /\ UNCHANGED bdir
    BY <1>23, <2>1, SameKept, GotoSound DEF JailPivot, Pcs, JailPcs
  <2> QED BY <1>20, <1>23, <2>1 DEF JailPivot
<1>24. CASE JailInside(p)
  <2>1. CASE /\ bdir' = [bdir EXCEPT ![n].out = EmptyDir]
             /\ job' = [job EXCEPT ![p].pc = "running", ![p].k = 1]
    <3> DEFINE j == [job[p] EXCEPT !.pc = "running", !.k = 1]
               d == [bdir[n] EXCEPT !.out = EmptyDir]
    <3>1. /\ j.pc = "running" /\ j.n = n /\ j.data = job[p].data /\ j.root = job[p].root
          /\ job' = [job EXCEPT ![p] = j]
      BY <1>0, <1>1, <2>1 DEF Job, Types
    <3>2. d.out.has = {} /\ bdir' = [bdir EXCEPT ![n] = d] /\ UNCHANGED store
      BY <1>0, <1>1, <1>24, <2>1 DEF BuildDir, Types, JailInside, EmptyDir
    <3> HIDE DEF j, d
    <3> QED BY <1>1, <3>1, <3>2, DirKept, MoveSound DEF JobOwn, HasObject
  <2> QED BY <1>20, <1>24, <2>1 DEF JailInside
<1>25. CASE Script(p, TRUE)
  <2>1. PICK o \in {bdir[n].out} \cup (IF bdir[n].out = EmptyDir THEN {EmptyFile} ELSE {}),
             of \in {n} \cup (IF job[p].root = "path" THEN {} ELSE {0}) :
                bdir' = IF job[p].root = "gone" \/ ~Exists(bdir[n].out) THEN bdir
                        ELSE [bdir EXCEPT ![n].out = Write(o, <<of, k>>)]
    BY <1>25 DEF Script
  <2>2. UNCHANGED store /\ job' = [job EXCEPT ![p].k = k + 1] /\ k \in 1..K
    <3>1. k \in 1..(K + Parts + 1) /\ k <= K
      BY <1>0, <1>25, JobParts DEF Script
    <3>2. k \in 1..K
      BY <3>1, KAssumption, PartsAssumption
    <3> QED BY <1>25, <3>2 DEF Script
  <2> DEFINE j == [job[p] EXCEPT !.k = k + 1]
             w == Write(o, <<of, k>>)
             d == [bdir[n] EXCEPT !.out = w]
  <2>3. /\ j.pc = "running" /\ j.n = n /\ j.data = job[p].data /\ j.root = job[p].root
        /\ job' = [job EXCEPT ![p] = j]
    BY <1>0, <1>1, <1>25, <2>2 DEF Job, Types, Script
  <2>4. Alone => w.has \subseteq Whole(n)
    <3> SUFFICES ASSUME Alone PROVE w.has \subseteq Whole(n)
      OBVIOUS
    <3>1. of = n
      BY <1>1, <2>1 DEF JobOwn
    <3>2. o.has \subseteq Whole(n) /\ o \in Object
      BY <1>1, <2>1 DEF EmptyFile, Object
    <3>3. w.has \subseteq o.has \cup {<<n, k>>}
      BY <3>1, <3>2 DEF Write, Object
    <3>4. <<n, k>> \in Whole(n)
      BY <2>2 DEF Whole
    <3> HIDE DEF w
    <3> QED BY <3>2, <3>3, <3>4
  <2> HIDE DEF j, w
  <2>5. Kept
    <3>1. CASE bdir' = bdir
      BY <2>2, <3>1, SameKept
    <3>2. CASE bdir' = [bdir EXCEPT ![n].out = w]
      <4>1. d.out = w /\ bdir' = [bdir EXCEPT ![n] = d]
        BY <1>0, <1>1, <3>2 DEF BuildDir, Types
      <4> HIDE DEF d
      <4> QED BY <1>1, <2>2, <2>4, <4>1, DirKept
    <3> QED BY <2>1, <3>1, <3>2 DEF w
  <2> QED BY <1>1, <2>3, <2>5, MoveSound DEF JobOwn, HasObject
<1>26. CASE LogBreaks(p)
  <2> DEFINE j == [job[p] EXCEPT !.log = "closed"]
  <2>1. /\ j.pc = "running" /\ j.n = n /\ j.data = job[p].data /\ j.root = job[p].root
        /\ job' = [job EXCEPT ![p] = j] /\ UNCHANGED <<store, bdir>>
    BY <1>0, <1>1, <1>26 DEF Job, Types, LogBreaks
  <2> HIDE DEF j
  <2> QED BY <1>1, <2>1, SameKept, MoveSound DEF JobOwn, HasObject
<1>27. CASE JailBlocks(p)
  BY <1>27, SameKept, GotoSound DEF JailBlocks, Pcs
<1>6. CASE JailEnd(p, TRUE)
  <2>1. CASE UNCHANGED bdir /\ job' = [job EXCEPT ![p].pc = "wait", ![p].code = "ok"]
    BY <1>6, <2>1, SameKept, ExitSound DEF JailEnd
  <2> QED BY <1>6, <1>20, <2>1 DEF JailEnd
<1>7. CASE Wait(p)
  <2>1. Kept
    BY <1>7, SameKept DEF Wait
  <2>2. Fail(p) \/ Goto(p, "publish") \/ Goto(p, "openout")
    BY <1>7 DEF Wait
  <2>3. CASE Fail(p)
    BY <2>1, <2>3, FailSound
  <2>4. CASE Goto(p, "publish")
    BY <2>1, <2>4, GotoSound DEF Pcs
  <2>5. CASE Goto(p, "openout")
    BY <2>1, <2>5, GotoSound DEF Pcs
  <2> QED BY <2>2, <2>3, <2>4, <2>5
<1>8. CASE Publish(p)
  <2>1. CASE UNCHANGED store
    <3>1. Fail(p)
      <4>1. CASE Exists(store[n])
        BY <1>8, <4>1 DEF Publish
      <4>2. CASE ~Exists(store[n])
        <5>1. store' # [store EXCEPT ![n] = EmptyDir]
          BY <1>0, <1>1, <2>1, <4>2 DEF Exists, EmptyDir, Types
        <5> QED BY <1>8, <5>1 DEF Publish
      <4> QED BY <4>1, <4>2
    <3> QED BY <1>8, <2>1, <3>1, SameKept, FailSound DEF Publish
  <2>2. CASE store' = [store EXCEPT ![n] = EmptyDir]
    <3>1. Exists(EmptyDir) /\ EmptyDir.has = {}
      BY DEF Exists, EmptyDir
    <3>2. Kept /\ store'[n] = EmptyDir
      BY <1>1, <1>8, <2>2, <3>1, StoreKept DEF Publish
    <3>3. CASE Fail(p)
      BY <3>2, <3>3, FailSound
    <3>4. CASE job' = [job EXCEPT ![p].pc = "copydir", ![p].k = 1, ![p].root = "path"]
      <4> DEFINE j == [job[p] EXCEPT !.pc = "copydir", !.k = 1, !.root = "path"]
      <4>1. /\ j.pc = "copydir" /\ j.n = n /\ j.data = job[p].data /\ j.root = "path"
            /\ job' = [job EXCEPT ![p] = j]
        BY <1>0, <1>1, <3>4 DEF Job, Types
      <4> HIDE DEF j
      <4> QED BY <1>1, <3>1, <3>2, <4>1, MoveSound DEF JobSound, JobOwn
    <3> QED BY <1>8, <3>3, <3>4 DEF Publish
  <2> QED BY <1>8, <2>1, <2>2 DEF Publish
<1>9. CASE CopyDir(p)
  <2>0. HasObject(job[p]) /\ Exists(store[n])
    BY <1>1, <1>9 DEF CopyDir, HasObject, JobSound
  <2>1. ASSUME NEW last \in {"ok", "fail"}, Kept,
               job' = [job EXCEPT ![p].k = k + 1, ![p].last = last]
        PROVE  SoundStep(p)
    <3> DEFINE j == [job[p] EXCEPT !.k = k + 1, !.last = last]
    <3>1. /\ j.pc = "copydir" /\ j.n = n /\ j.data = job[p].data /\ j.root = job[p].root
          /\ job' = [job EXCEPT ![p] = j]
      BY <1>0, <1>1, <1>9, <2>1 DEF Job, Types, CopyDir
    <3> HIDE DEF j
    <3> QED BY <1>1, <2>0, <2>1, <3>1, MoveSound DEF JobOwn, Kept
  <2>2. CASE \E b \in BlocksAt(Readable(p), k) :
               /\ store' = [store EXCEPT ![n].has = @ \cup {b}]
               /\ job' = [job EXCEPT ![p].k = k + 1, ![p].last = "ok"]
    <3>1. PICK b \in BlocksAt(Readable(p), k) :
               /\ store' = [store EXCEPT ![n].has = @ \cup {b}]
               /\ job' = [job EXCEPT ![p].k = k + 1, ![p].last = "ok"]
      BY <2>2
    <3>2. Alone => b \in Whole(n)
      BY <1>1, <3>1 DEF BlocksAt, Readable
    <3> DEFINE o == [store[n] EXCEPT !.has = @ \cup {b}]
    <3>3. /\ Alone => o.has \subseteq Whole(n)
          /\ Exists(o) /\ store' = [store EXCEPT ![n] = o] /\ UNCHANGED bdir
      BY <1>0, <1>1, <1>9, <2>0, <3>1, <3>2 DEF Object, Exists, Types, CopyDir
    <3> HIDE DEF o
    <3> QED BY <1>1, <2>1, <3>1, <3>3, StoreKept
  <2>3. CASE UNCHANGED store /\ job' = [job EXCEPT ![p].k = k + 1, ![p].last = "fail"]
    BY <1>9, <2>1, <2>3, SameKept DEF CopyDir
  <2>4. CASE UNCHANGED store /\ Goto(p, "copied")
    BY <1>9, <2>0, <2>4, SameKept, GotoSound DEF CopyDir, Pcs
  <2>5. CASE UNCHANGED store /\ job' = [job EXCEPT ![p].k = k + 1]
    <3>1. /\ job[p].last \in {"ok", "fail"}
          /\ job' = [job EXCEPT ![p].k = k + 1, ![p].last = job[p].last]
      BY <1>0, <1>1, <2>5 DEF Job, Types
    <3> QED BY <1>9, <2>1, <2>5, <3>1, SameKept DEF CopyDir
  <2> QED BY <1>9, <2>2, <2>3, <2>4, <2>5 DEF CopyDir
<1>10. CASE Copied(p)
  <2>0. Exists(store[n]) /\ UNCHANGED <<store, bdir>>
    BY <1>1, <1>10 DEF Copied, HasObject, JobSound
  <2>1. CASE Fail(p)
    BY <2>0, <2>1, SameKept, FailSound
  <2>2. CASE Goto(p, "chmod")
    BY <2>0, <2>2, SameKept, GotoSound DEF Pcs
  <2> QED BY <1>10, <2>1, <2>2 DEF Copied
<1>11. CASE OpenOut(p)
  <2>1. CASE UNCHANGED store /\ Fail(p)
    BY <1>11, <2>1, SameKept, FailSound DEF OpenOut
  <2>2. CASE store' = [store EXCEPT ![n] = EmptyFile]
    <3>1. Exists(EmptyFile) /\ EmptyFile.has = {}
      BY DEF Exists, EmptyFile
    <3>2. Kept /\ store'[n] = EmptyFile
      BY <1>1, <1>11, <2>2, <3>1, StoreKept DEF OpenOut
    <3>3. CASE Fail(p)
      BY <3>2, <3>3, FailSound
    <3>4. CASE job' = [job EXCEPT ![p].pc = "copyfile", ![p].k = 1,
                                  ![p].data = bdir[n].out.has]
      <4> DEFINE j == [job[p] EXCEPT !.pc = "copyfile", !.k = 1, !.data = bdir[n].out.has]
      <4>1. /\ j.pc = "copyfile" /\ j.n = n /\ j.data = bdir[n].out.has
            /\ j.root = job[p].root
            /\ job' = [job EXCEPT ![p] = j]
        BY <1>0, <1>1, <3>4 DEF Job, Types
      <4> HIDE DEF j
      <4> QED BY <1>1, <3>1, <3>2, <4>1, MoveSound DEF JobOwn
    <3> QED BY <1>11, <2>1, <3>3, <3>4 DEF OpenOut
  <2> QED BY <1>11, <2>1, <2>2 DEF OpenOut
<1>12. CASE CopyFile(p)
  <2>0. Exists(store[n]) /\ UNCHANGED bdir
    BY <1>1, <1>12 DEF CopyFile, HasObject, JobSound
  <2>1. CASE \E b \in BlocksAt(job[p].data, k) :
               /\ store' = [store EXCEPT ![n] = Write(@, b)]
               /\ job' = [job EXCEPT ![p].k = k + 1]
    <3>1. PICK b \in BlocksAt(job[p].data, k) :
               /\ store' = [store EXCEPT ![n] = Write(@, b)]
               /\ job' = [job EXCEPT ![p].k = k + 1]
      BY <2>1
    <3>2. Alone => b \in Whole(n)
      BY <1>1, <3>1 DEF BlocksAt, JobOwn
    <3> DEFINE o == Write(store[n], b)
               j == [job[p] EXCEPT !.k = k + 1]
    <3>3. (Alone => o.has \subseteq Whole(n)) /\ Exists(o)
      BY <1>1, <2>0, <3>2 DEF Object, Exists, Write
    <3>4. store' = [store EXCEPT ![n] = o] /\ job' = [job EXCEPT ![p] = j]
      BY <1>0, <1>1, <3>1 DEF Types
    <3>5. j.pc = "copyfile" /\ j.n = n /\ j.data = job[p].data /\ j.root = job[p].root
      BY <1>1, <1>12 DEF Job, CopyFile
    <3> HIDE DEF o, j
    <3>6. Kept /\ store'[n] = o
      BY <1>1, <2>0, <3>3, <3>4, StoreKept
    <3> QED BY <1>1, <3>3, <3>4, <3>5, <3>6, MoveSound DEF JobSound, JobOwn
  <2>2. CASE UNCHANGED store /\ Goto(p, "close")
    BY <2>0, <2>2, SameKept, GotoSound DEF Pcs
  <2>3. CASE UNCHANGED store /\ Fail(p)
    BY <2>0, <2>3, SameKept, FailSound
  <2> QED BY <1>12, <2>1, <2>2, <2>3 DEF CopyFile
<1>13. CASE Close(p)
  <2>0. Exists(store[n]) /\ UNCHANGED bdir /\ Goto(p, "chmod")
    BY <1>1, <1>13 DEF Close, HasObject, JobSound
  <2>1. CASE UNCHANGED store
    BY <2>0, <2>1, SameKept, GotoSound DEF Pcs
  <2>2. CASE store' = [store EXCEPT ![n].has = @ \ BlocksAt(@, K)]
    <3> DEFINE o == [store[n] EXCEPT !.has = @ \ BlocksAt(@, K)]
    <3>1. /\ Alone => o.has \subseteq Whole(n)
          /\ Exists(o) /\ store' = [store EXCEPT ![n] = o]
      BY <1>0, <1>1, <2>0, <2>2 DEF Object, Exists, Types
    <3> HIDE DEF o
    <3>2. Kept /\ store'[n] = o
      BY <1>1, <2>0, <3>1, StoreKept
    <3> QED BY <2>0, <3>1, <3>2, GotoSound DEF Pcs
  <2> QED BY <1>13, <2>1, <2>2 DEF Close
<1>14. CASE Chmod(p)
  <2>0. Exists(store[n]) /\ UNCHANGED <<store, bdir>>
    BY <1>1, <1>14 DEF Chmod, HasObject, JobSound
  <2>1. CASE Fail(p)
    BY <2>0, <2>1, SameKept, FailSound
  <2>2. CASE Goto(p, "finalize")
    <3> DEFINE j == [job[p] EXCEPT !.pc = "finalize"]
    <3>1. /\ j.pc = "finalize" /\ j.n = n /\ j.data = job[p].data /\ j.root = job[p].root
          /\ job' = [job EXCEPT ![p] = j]
      BY <1>0, <1>1, <2>2 DEF Goto, Job, Types
    <3> HIDE DEF j
    <3> QED BY <1>1, <2>0, <3>1, SameKept, MoveSound DEF JobSound, JobOwn
  <2> QED BY <1>14, <2>1, <2>2 DEF Chmod
<1>15. CASE Finalize(p)
  <2> DEFINE j == Return(job[p])
  <2>1. /\ j \in Job /\ j.pc = "returned" /\ j.n = n /\ j.data = {} /\ j.code = job[p].code
        /\ j.root = "path"
    BY <1>1, ReturnType
  <2>2. HasObject(j) => Exists(store[n])
    BY <1>1, <1>15, <2>1 DEF Finalize, JobSound, HasObject
  <2>3. RemoveDir(p, j) /\ UNCHANGED store
    BY <1>15 DEF Finalize
  <2> HIDE DEF j
  <2> QED BY <1>1, <2>1, <2>2, <2>3, RemoveSound
<1> QED BY <1>2, <1>3, <1>4, <1>5, <1>6, <1>7, <1>8, <1>9, <1>10, <1>11, <1>12, <1>13,
           <1>14, <1>15, <1>21, <1>22, <1>23, <1>24, <1>25, <1>26, <1>27 DEF Step

-----------------------------------------------------------------------------
(* An empty store is sound, ...                                             *)
LEMMA ExistInit == RunInit => ExistInv
<1> SUFFICES ASSUME RunInit PROVE ExistInv
  OBVIOUS
<1>1. Absent.has = {} /\ NoDir.out = Absent
  BY DEF Absent, NoDir
<1>2. FilesSound
  BY <1>1 DEF RunInit, Init, FilesSound
<1>4. \A p \in Proc : JobSound(p) /\ JobOwn(p)
  BY NoJobType DEF RunInit, Init, JobSound, JobOwn, HasObject
<1>5. BuiltExists
  BY DEF RunInit, BuiltExists
<1> QED BY <1>2, <1>4, <1>5 DEF ExistInv

(* ... and stays so; a build that has returned 0 has made its object.       *)
LEMMA ExistNext == BuildInv /\ ExistInv /\ [RunNext]_runVars => ExistInv'
<1> SUFFICES ASSUME BuildInv, ExistInv, [RunNext]_runVars PROVE ExistInv'
  OBVIOUS
<1>1. CASE UNCHANGED <<store, bdir, job, done, crowd>>
  BY <1>1 DEF ExistInv, FilesSound, JobSound, JobOwn, HasObject, BuiltExists, Alone
<1>2. ASSUME NEW p \in Proc, Work(p) PROVE ExistInv'
  <2>1. CASE Step(p, TRUE) /\ UNCHANGED <<crowd, plan, done>>
    BY <2>1, StepSound, StepIsBusy, SoundKeeps DEF BuildInv, Busy
  <2>2. CASE Take(p)
    <3>1. PICK n \in plan[p] : Begin(p, n) /\ UNCHANGED <<crowd, done>>
      BY <2>2 DEF Take
    <3> DEFINE j == [NoJob EXCEPT !.pc = "clear", !.n = n]
    <3>2. /\ j.pc = "clear" /\ j.n = n /\ j.data = {} /\ j.code = "fail"
          /\ j.root = "path"
      BY DEF NoJob
    <3>3. job' = [job EXCEPT ![p] = j] /\ UNCHANGED <<store, bdir>>
      BY <3>1 DEF Begin
    <3> HIDE DEF j
    <3>4. SoundStep(p)
      BY <3>2, <3>3, SameKept, MoveSound DEF HasObject
    <3>5. job' = [job EXCEPT ![p] = job'[p]]
      BY <3>3 DEF BuildInv, TypeOK
    <3> QED BY <3>1, <3>4, <3>5, SoundKeeps
  <2>3. CASE Finish(p)
    <3>1. job' = [job EXCEPT ![p] = NoJob] /\ UNCHANGED <<store, bdir, crowd>>
      BY <2>3 DEF Finish
    <3>2. /\ \A q \in Proc : JobSound(q)'
          /\ (Alone => FilesSound /\ \A q \in Proc : JobOwn(q))'
      <4>1. job'[p] = NoJob /\ \A q \in Proc \ {p} : job'[q] = job[q]
        BY <3>1 DEF BuildInv, TypeOK
      <4> QED BY <3>1, <4>1, NoJobType DEF ExistInv, FilesSound, JobSound, JobOwn,
                                           HasObject, Alone
    <3>3. \A n \in done' : n \in done \/ (n = job[p].n /\ HasObject(job[p]))
      BY <2>3 DEF Finish, HasObject
    <3>4. HasObject(job[p]) => job[p].n \in Node /\ Exists(store[job[p].n])
      BY DEF ExistInv, JobSound, BuildInv, Busy, HasObject
    <3>5. BuiltExists'
      BY <3>1, <3>3, <3>4 DEF BuiltExists, ExistInv, FilesSound, Alone
    <3> QED BY <3>2, <3>5 DEF ExistInv
  <2> QED BY <1>2, <2>1, <2>2, <2>3 DEF Work
<1> QED BY <1>1, <1>2 DEF RunNext, runVars, vars

(* A build that build_standard() reports as done has left an object in the  *)
(* store, whatever calls failed, in whatever number of invocations at once; *)
(* when there is one, with nothing in the object that is not its own.       *)
THEOREM DoneExists == RunSpec => []BuiltExists
<1>1. BuildInv /\ ExistInv => BuiltExists
  BY DEF ExistInv
<1>2. RunSpec => [](BuildInv /\ ExistInv)
  <2>1. RunInit => BuildInv /\ ExistInv
    BY BuildInit, ExistInit
  <2>2. BuildInv /\ ExistInv /\ [RunNext]_runVars => (BuildInv /\ ExistInv)'
    BY BuildNext, ExistNext
  <2> QED BY <2>1, <2>2, PTL DEF RunSpec
<1> QED BY <1>1, <1>2, PTL

-----------------------------------------------------------------------------
(***************************************************************************)
(* Theorem about a build with the machine to itself, when no call fails:    *)
(* what it reports as done is complete, for any number of derivatives and   *)
(* of blocks.  The blocks are copied in order, so that the block number of  *)
(* the loop tells what is in the store.                                     *)
(***************************************************************************)

(* The blocks of n before the k-th.                                         *)
Upto(n, k) == {n} \X (1..(k - 1))

(* A build that was reported is not repeated.                               *)
NotAgain ==
    \A p \in crowd :
        /\ plan[p] \cap done = {}
        /\ job[p].pc # "idle" => job[p].n \notin done \cup plan[p]

(* What has come of the derivative of job j at each place of monitor_jail() *)
(* and build_standard(), in the build directory and in the store.           *)
ProgressOf(j, object, out) ==
    /\ j.root = "path"
    /\ j.pc \in {"running", "copydir", "copyfile"} => j.k <= K + 1
    /\ j.pc = "running" => Exists(out) /\ out.has = Upto(j.n, j.k)
    /\ j.pc \in {"publish", "openout", "copydir"} \/ (j.pc = "wait" /\ j.code = "ok")
       => out.has = Whole(j.n)
    /\ j.pc = "copyfile" => j.data = Whole(j.n)
    /\ j.pc \in {"copydir", "copyfile"} => object.has = Upto(j.n, j.k)
    /\ \/ j.pc \in {"copied", "close", "chmod"}
       \/ j.pc \in {"finalize", "returned"} /\ j.code = "ok"
       => object.has = Whole(j.n)

Progress(p) == ProgressOf(job[p], store[job[p].n], bdir[job[p].n].out)

ObjectsWhole == \A n \in done : store[n].has = Whole(n)

(* The invariant: of one invocation, and until a call fails.                *)
WholeGood == NotAgain /\ (\A p \in crowd : Progress(p)) /\ ObjectsWhole

WholeInv == BuildInv /\ (Alone /\ faults = 0 => WholeGood)

-----------------------------------------------------------------------------
(* The k-th block of an object is the only one of its number ...            *)
LEMMA BlockOfWhole ==
    ASSUME NEW n \in Node, NEW k \in 1..(K + 1)
    PROVE  /\ \A b \in BlocksAt(Whole(n), k) : k \in 1..K /\ b = <<n, k>>
           /\ BlocksAt(Whole(n), k) = {} => k = K + 1
<1>1. ASSUME NEW b \in BlocksAt(Whole(n), k)
      PROVE  k \in 1..K /\ b = <<n, k>>
  BY <1>1 DEF BlocksAt, Whole
<1>2. k \in 1..K => <<n, k>> \in BlocksAt(Whole(n), k)
  BY DEF BlocksAt, Whole
<1>3. k \in 1..K \/ k = K + 1
  BY KAssumption
<1> QED BY <1>1, <1>2, <1>3

(* ... and comes after those before it, until all are there.                *)
LEMMA BlocksInOrder ==
    ASSUME NEW n \in Node
    PROVE  /\ Upto(n, 1) = {} /\ Upto(n, K + 1) = Whole(n)
           /\ \A k \in 1..K : /\ Upto(n, k) \cup {<<n, k>>} = Upto(n, k + 1)
                              /\ {c \in Upto(n, k) : c[2] # k} = Upto(n, k)
<1>1. Upto(n, 1) = {}
  BY DEF Upto
<1>2. Upto(n, K + 1) = Whole(n)
  BY KAssumption DEF Upto, Whole
<1>3. ASSUME NEW k \in 1..K
      PROVE  Upto(n, k) \cup {<<n, k>>} = Upto(n, k + 1)
  <2>1. 1..((k + 1) - 1) = 1..(k - 1) \cup {k}
    BY KAssumption
  <2> QED BY <2>1 DEF Upto
<1>4. ASSUME NEW k \in 1..K
      PROVE  {c \in Upto(n, k) : c[2] # k} = Upto(n, k)
  BY KAssumption DEF Upto
<1> QED BY <1>1, <1>2, <1>3, <1>4

-----------------------------------------------------------------------------
(* What a step of p leaves alone: the other jobs and the other objects.     *)
Local(p) ==
    /\ job'[p].n = job[p].n
    /\ \A q \in Proc \ {p} : job'[q] = job[q]
    /\ \A m \in Node : m # job[p].n => store'[m] = store[m]

(* A step that does so and makes progress preserves the invariant.          *)
LEMMA LocalGood ==
    ASSUME BuildInv, Alone, WholeGood, NEW p \in crowd, job[p].pc # "idle",
           Local(p), Progress(p)', UNCHANGED <<crowd, plan, done>>
    PROVE  WholeGood'
<1>1. \A q \in crowd : q = p
  BY DEF Alone
<1>2. crowd \subseteq Proc /\ done \subseteq Node
  BY DEF BuildInv, TypeOK
<1>4. job[p].n \notin done \cup plan[p] /\ plan[p] \cap done = {}
  BY DEF WholeGood, NotAgain
<1>5. NotAgain'
  BY <1>1, <1>4 DEF NotAgain, Local
<1>6. (\A q \in crowd : Progress(q))'
  BY <1>1
<1>7. ObjectsWhole'
  BY <1>2, <1>4 DEF WholeGood, ObjectsWhole, Local
<1> QED BY <1>5, <1>6, <1>7 DEF WholeGood

(* What is known of the build that p is in.                                 *)
Running(p) ==
    /\ Types /\ p \in Proc /\ p \in crowd
    /\ job[p] \in Job /\ job[p].n \in Node
    /\ Progress(p)
    /\ \A q \in Proc \ {p} : job[q] = NoJob

(* Who is at work was started, and nobody else was.                         *)
LEMMA IsRunning ==
    ASSUME BuildInv, Alone, WholeGood, NEW p \in Proc, job[p].pc # "idle"
    PROVE  Running(p)
<1>1. Types
  BY DEF BuildInv, TypeOK, Types
<1>2. job[p] \in Job /\ job[p].n \in Node
  BY <1>1, JobParts DEF BuildInv, Busy
<1>3. p \in crowd
  BY NoJobType DEF BuildInv, NobodyElse
<1>4. \A q \in Proc \ {p} : job[q] = NoJob
  BY <1>3 DEF BuildInv, NobodyElse, Alone
<1> QED BY <1>1, <1>2, <1>3, <1>4 DEF Running, WholeGood

(* The job of p goes on as j.                                               *)
LEMMA MoveWhole ==
    ASSUME NEW p, Running(p), NEW j, job' = [job EXCEPT ![p] = j], j.n = job[p].n,
           \A m \in Node : m # job[p].n => store'[m] = store[m],
           ProgressOf(j, store'[j.n], bdir'[j.n].out)
    PROVE  Local(p) /\ Progress(p)'
<1>1. job'[p] = j /\ \A q \in Proc \ {p} : job'[q] = job[q]
  BY DEF Running, Types
<1> QED BY <1>1 DEF Local, Progress

(* The same while the build directory of its derivative is removed: nobody  *)
(* else is at work in it, so that nothing is in the way.                    *)
LEMMA RemoveWhole ==
    ASSUME NEW p, Running(p), ~Fault, UNCHANGED store, job[p].pc \in {"clear", "finalize"},
           NEW j, RemoveDir(p, j), j.n = job[p].n,
           \A out : ProgressOf(j, store[j.n], out)
    PROVE  Local(p) /\ Progress(p)'
<1>1. ASSUME NEW e PROVE Robbed(p, e) = job
  <2>1. \A q \in Proc \ {p} : job[q].n # job[p].n
    BY NoJobType DEF Running, Node
  <2>2. Robbed(p, e) = [q \in Proc |-> job[q]]
    BY <2>1 DEF Robbed
  <2> QED BY <2>2 DEF Running, Types
<1>2. ~Company(p)
  BY NoJobType DEF Running, Node, Company
<1>3. CASE \E e \in Less(bdir[job[p].n]) : job' = Robbed(p, e)
  <2>1. job' = job
    BY <1>1, <1>3
  <2>2. Progress(p)'
    BY <2>1 DEF Running, Progress, ProgressOf
  <2> QED BY <2>1, <2>2 DEF Local
<1>4. CASE job' = [Robbed(p, NoDir) EXCEPT ![p] = j]
  <2>1. job' = [job EXCEPT ![p] = j]
    BY <1>1, <1>4
  <2> QED BY <2>1, MoveWhole
<1> QED BY <1>2, <1>3, <1>4 DEF RemoveDir

(* monitor_jail() gives up: nothing will be reported as done.               *)
LEMMA FailWhole ==
    ASSUME NEW p, Running(p), Fail(p),
           \A m \in Node : m # job[p].n => store'[m] = store[m]
    PROVE  Local(p) /\ Progress(p)'
<1> DEFINE j == [job[p] EXCEPT !.pc = "finalize", !.code = "fail"]
<1>1. j.pc = "finalize" /\ j.code = "fail" /\ j.n = job[p].n /\ j.root = "path"
  BY DEF Running, Job, Progress, ProgressOf
<1>2. job' = [job EXCEPT ![p] = j]
  BY DEF Fail, Running, Types
<1> HIDE DEF j
<1>3. ProgressOf(j, store'[j.n], bdir'[j.n].out)
  BY <1>1 DEF ProgressOf
<1> QED BY <1>1, <1>2, <1>3, MoveWhole

(* Going on with everything but the place as it was.                        *)
LEMMA GotoWhole ==
    ASSUME NEW p, Running(p), NEW pc, Goto(p, pc),
           \A m \in Node : m # job[p].n => store'[m] = store[m],
           pc \in {"publish", "openout"} => bdir'[job[p].n].out.has = Whole(job[p].n),
           pc \notin {"wait", "running", "copydir", "copyfile"},
           pc \in {"copied", "close", "chmod", "finalize", "returned"}
               => store'[job[p].n].has = Whole(job[p].n)
    PROVE  Local(p) /\ Progress(p)'
<1> DEFINE j == [job[p] EXCEPT !.pc = pc]
<1>1. j.pc = pc /\ j.n = job[p].n /\ j.root = "path"
  BY DEF Running, Job, Progress, ProgressOf
<1>2. job' = [job EXCEPT ![p] = j]
  BY DEF Goto, Running, Types
<1> HIDE DEF j
<1>3. ProgressOf(j, store'[j.n], bdir'[j.n].out)
  BY <1>1 DEF ProgressOf
<1> QED BY <1>1, <1>2, <1>3, MoveWhole

-----------------------------------------------------------------------------
(* No call fails.                                                           *)
Clean == faults = 0 /\ faults' = 0

LEMMA NoneFails ==
    ASSUME Clean
    PROVE  ~Fault
BY DEF Clean, Fault

(* The jail gives up, and so will monitor_jail().                           *)
LEMMA JailFailsWhole ==
    ASSUME NEW p, Running(p), JailFails(p), UNCHANGED store
    PROVE  Local(p) /\ Progress(p)'
<1> DEFINE j == [job[p] EXCEPT !.pc = "wait", !.code = "fail"]
<1>1. j.pc = "wait" /\ j.code = "fail" /\ j.n = job[p].n /\ j.root = "path"
  BY DEF Running, Job, Progress, ProgressOf
<1>2. job' = [job EXCEPT ![p] = j]
  BY DEF JailFails, Running, Types
<1> HIDE DEF j
<1>3. ProgressOf(j, store'[j.n], bdir'[j.n].out)
  BY <1>1 DEF ProgressOf
<1> QED BY <1>1, <1>2, <1>3, MoveWhole

(* Before the jail.                                                         *)
LEMMA BeforeWhole ==
    ASSUME NEW p, Running(p), Clean, Clear(p) \/ Ensure(p) \/ Fork(p) \/ OpenLog(p)
    PROVE  Local(p) /\ Progress(p)'
<1> DEFINE n == job[p].n
<1>0. ~Fault /\ UNCHANGED store
  BY NoneFails DEF Clear, Ensure, Fork, OpenLog
<1>1. job[p].root = "path"
  BY DEF Running, Progress, ProgressOf
<1>2. CASE Clear(p)
  <2> DEFINE j == [job[p] EXCEPT !.pc = "ensure"]
  <2>1. j.pc = "ensure" /\ j.n = n /\ j.root = "path"
    BY <1>1 DEF Running, Job
  <2>2. RemoveDir(p, j) /\ job[p].pc = "clear"
    BY <1>2 DEF Clear
  <2> HIDE DEF j
  <2>3. \A out : ProgressOf(j, store[j.n], out)
    BY <2>1 DEF ProgressOf
  <2> QED BY <1>0, <2>1, <2>2, <2>3, RemoveWhole
<1>3. CASE Ensure(p)
  <2>1. Goto(p, "fork")
    BY <1>0, <1>3 DEF Ensure
  <2> QED BY <1>0, <2>1, GotoWhole
<1>4. CASE Fork(p)
  <2>1. Goto(p, "log")
    BY <1>0, <1>4 DEF Fork
  <2> QED BY <1>0, <2>1, GotoWhole
<1>5. CASE OpenLog(p)
  <2> DEFINE j == [job[p] EXCEPT !.pc = "jail", !.log = "read"]
  <2>1. j.pc = "jail" /\ j.n = n /\ j.root = "path"
    BY <1>1 DEF Running, Job
  <2>2. job' = [job EXCEPT ![p] = j]
    BY <1>0, <1>5 DEF Running, Types, OpenLog
  <2> HIDE DEF j
  <2>3. ProgressOf(j, store'[j.n], bdir'[j.n].out)
    BY <2>1 DEF ProgressOf
  <2> QED BY <1>0, <2>1, <2>2, <2>3, MoveWhole
<1> QED BY <1>2, <1>3, <1>4, <1>5

(* The jail until its script runs, in an output directory that is empty.    *)
LEMMA JailWhole ==
    ASSUME NEW p, Running(p), Clean,
           JailBind(p) \/ JailMkdir(p) \/ JailPivot(p) \/ JailInside(p)
    PROVE  Local(p) /\ Progress(p)'
<1> DEFINE n == job[p].n
           k == job[p].k
<1>0. ~Fault /\ UNCHANGED store
  BY NoneFails DEF JailBind, JailMkdir, JailPivot, JailInside
<1>1. job[p].root = "path" /\ job[p] \in Job /\ n \in Node
  BY DEF Running, Progress, ProgressOf
<1>2. CASE JailFails(p)
  BY <1>0, <1>2, JailFailsWhole
<1>3. CASE JailBind(p) /\ job' = [job EXCEPT ![p].pc = "setup", ![p].k = 1, ![p].root = "path"]
  <2> DEFINE j == [job[p] EXCEPT !.pc = "setup", !.k = 1, !.root = "path"]
  <2>1. j.pc = "setup" /\ j.n = n /\ j.root = "path"
    BY <1>1 DEF Job
  <2>2. job' = [job EXCEPT ![p] = j]
    BY <1>3 DEF Running, Types
  <2> HIDE DEF j
  <2>3. ProgressOf(j, store'[j.n], bdir'[j.n].out)
    BY <2>1 DEF ProgressOf
  <2> QED BY <1>0, <2>1, <2>2, <2>3, MoveWhole
<1>4. CASE JailMkdir(p) /\ job' = [job EXCEPT ![p].k = k + 1]
  <2> DEFINE j == [job[p] EXCEPT !.k = k + 1]
  <2>1. j.pc = "setup" /\ j.n = n /\ j.root = "path"
    BY <1>1, <1>4 DEF Job, JailMkdir
  <2>2. job' = [job EXCEPT ![p] = j]
    BY <1>4 DEF Running, Types
  <2> HIDE DEF j
  <2>3. ProgressOf(j, store'[j.n], bdir'[j.n].out)
    BY <2>1 DEF ProgressOf
  <2> QED BY <1>0, <2>1, <2>2, <2>3, MoveWhole
<1>5. CASE Goto(p, "inside")
  BY <1>0, <1>5, GotoWhole
<1>6. CASE /\ bdir' = [bdir EXCEPT ![n].out = EmptyDir]
           /\ job' = [job EXCEPT ![p].pc = "running", ![p].k = 1]
  <2> DEFINE j == [job[p] EXCEPT !.pc = "running", !.k = 1]
  <2>1. j.pc = "running" /\ j.n = n /\ j.root = "path" /\ j.k = 1
    BY <1>1 DEF Job
  <2>2. job' = [job EXCEPT ![p] = j]
    BY <1>6 DEF Running, Types
  <2>3. Exists(bdir'[n].out) /\ bdir'[n].out.has = Upto(n, 1)
    <3>1. Upto(n, 1) = {} /\ bdir[n] \in BuildDir
      BY <1>1, BlocksInOrder, DirParts DEF Running
    <3>2. bdir'[n].out = EmptyDir
      BY <1>1, <1>6, <3>1 DEF Running, Types, BuildDir
    <3> QED BY <3>1, <3>2 DEF EmptyDir, Exists
  <2>4. 1 <= K + 1
    BY KAssumption
  <2> HIDE DEF j
  <2>5. ProgressOf(j, store'[j.n], bdir'[j.n].out)
    BY <2>1, <2>3, <2>4 DEF ProgressOf
  <2> QED BY <1>0, <2>1, <2>2, <2>5, MoveWhole
<1> QED BY <1>2, <1>3, <1>4, <1>5, <1>6 DEF JailBind, JailMkdir, JailPivot, JailInside

(* The script, which leaves the whole output.                               *)
LEMMA ScriptWhole ==
    ASSUME NEW p, Running(p), Clean,
           Script(p, TRUE) \/ LogBreaks(p) \/ JailBlocks(p) \/ JailEnd(p, TRUE)
    PROVE  Local(p) /\ Progress(p)'
<1> DEFINE n == job[p].n
           k == job[p].k
<1>0. ~Fault /\ UNCHANGED store
  BY NoneFails DEF Script, LogBreaks, JailBlocks, JailEnd
<1>1. /\ job[p].root = "path" /\ job[p].pc = "running" /\ n \in Node /\ job[p] \in Job
      /\ k \in Nat \ {0} /\ k <= K + 1 /\ bdir[n] \in BuildDir /\ bdir[n].out \in Object
      /\ Exists(bdir[n].out) /\ bdir[n].out.has = Upto(n, k)
  BY JobParts, DirParts DEF Running, Progress, ProgressOf, Script, LogBreaks, JailBlocks, JailEnd
<1>2. CASE Script(p, TRUE)
  <2>1. PICK o \in {bdir[n].out} \cup (IF bdir[n].out = EmptyDir THEN {EmptyFile} ELSE {}) :
            bdir' = [bdir EXCEPT ![n].out = Write(o, <<n, k>>)]
    BY <1>1, <1>2 DEF Script
  <2>2. k \in 1..K /\ job' = [job EXCEPT ![p].k = k + 1]
    BY <1>1, <1>2, KAssumption DEF Script
  <2>3. o \in Object /\ Exists(o) /\ o.has = Upto(n, k)
    BY <1>1, <2>1 DEF EmptyFile, EmptyDir, Exists, Object
  <2> DEFINE j == [job[p] EXCEPT !.k = k + 1]
             w == Write(o, <<n, k>>)
  <2>4. Exists(w) /\ w.has = {c \in Upto(n, k) : c[2] # k} \cup {<<n, k>>}
    BY <2>3 DEF Write, Object, Exists
  <2>5. Upto(n, k) \cup {<<n, k>>} = Upto(n, k + 1) /\ {c \in Upto(n, k) : c[2] # k} = Upto(n, k)
    BY <1>1, <2>2, BlocksInOrder
  <2>6. bdir'[n].out = w
    BY <1>1, <2>1 DEF Running, Types, BuildDir
  <2>7. j.pc = "running" /\ j.n = n /\ j.root = "path" /\ j.k = k + 1
    BY <1>1 DEF Job
  <2>8. job' = [job EXCEPT ![p] = j]
    BY <2>2 DEF Running, Types
  <2> HIDE DEF j, w
  <2>9. k + 1 <= K + 1
    BY <2>2, KAssumption
  <2>10. ProgressOf(j, store'[j.n], bdir'[j.n].out)
    BY <2>4, <2>5, <2>6, <2>7, <2>9 DEF ProgressOf
  <2> QED BY <1>0, <2>7, <2>8, <2>10, MoveWhole
<1>3. CASE JailBlocks(p)
  <2>1. Goto(p, "stuck")
    BY <1>3 DEF JailBlocks
  <2> QED BY <1>0, <2>1, GotoWhole
<1>4. CASE JailEnd(p, TRUE)
  <2>1. CASE job' = [job EXCEPT ![p].pc = "wait", ![p].code = "ok"] /\ UNCHANGED bdir /\ k > K
    <3> DEFINE j == [job[p] EXCEPT !.pc = "wait", !.code = "ok"]
    <3>1. j.pc = "wait" /\ j.n = n /\ j.root = "path"
      BY <1>1 DEF Job
    <3>2. job' = [job EXCEPT ![p] = j]
      BY <2>1 DEF Running, Types
    <3>3. k = K + 1
      BY <1>1, <2>1, KAssumption
    <3>4. bdir'[n].out.has = Whole(n)
      BY <1>1, <2>1, <3>3, BlocksInOrder
    <3> HIDE DEF j
    <3>5. ProgressOf(j, store'[j.n], bdir'[j.n].out)
      BY <3>1, <3>4 DEF ProgressOf
    <3> QED BY <1>0, <3>1, <3>2, <3>5, MoveWhole
  <2> QED BY <1>0, <1>4, <2>1, JailFailsWhole DEF JailEnd
<1>5. ~LogBreaks(p)
  BY <1>0 DEF LogBreaks
<1> QED BY <1>2, <1>3, <1>4, <1>5

(* The kind of the output tells how it is copied, from nothing.             *)
LEMMA StartWhole ==
    ASSUME NEW p, Running(p), Clean, Wait(p) \/ Publish(p) \/ OpenOut(p)
    PROVE  Local(p) /\ Progress(p)'
<1> DEFINE n == job[p].n
<1>0. ~Fault /\ UNCHANGED bdir
  BY NoneFails DEF Wait, Publish, OpenOut
<1>1. /\ job[p].root = "path" /\ n \in Node
      /\ (Wait(p) /\ job[p].code = "fail") \/ bdir[n].out.has = Whole(n)
      /\ store \in [Node -> Object] /\ Upto(n, 1) = {} /\ 1 <= K + 1
  <2>1. Upto(n, 1) = {} /\ 1 <= K + 1
    BY BlocksInOrder, KAssumption DEF Running
  <2>2. CASE Wait(p)
    BY <2>1, <2>2 DEF Running, Types, Progress, ProgressOf, Job, Wait
  <2>3. CASE Publish(p) \/ OpenOut(p)
    BY <2>1, <2>3 DEF Running, Types, Progress, ProgressOf, Publish, OpenOut
  <2> QED BY <2>2, <2>3
<1>2. CASE Wait(p)
  <2>1. UNCHANGED store
    BY <1>2 DEF Wait
  <2>2. \/ Fail(p)
        \/ (Goto(p, "publish") \/ Goto(p, "openout")) /\ bdir[n].out.has = Whole(n)
    BY <1>0, <1>1, <1>2 DEF Wait
  <2>3. CASE Fail(p)
    BY <2>1, <2>3, FailWhole
  <2>4. CASE Goto(p, "publish") /\ bdir[n].out.has = Whole(n)
    BY <1>0, <2>1, <2>4, GotoWhole
  <2>5. CASE Goto(p, "openout") /\ bdir[n].out.has = Whole(n)
    BY <1>0, <2>1, <2>5, GotoWhole
  <2> QED BY <2>2, <2>3, <2>4, <2>5
<1>3. CASE Publish(p)
  <2>1. \A m \in Node : m # n => store'[m] = store[m]
    BY <1>1, <1>3 DEF Publish
  <2>2. CASE Fail(p)
    BY <2>1, <2>2, FailWhole
  <2>3. CASE /\ store' = [store EXCEPT ![n] = EmptyDir]
             /\ job' = [job EXCEPT ![p].pc = "copydir", ![p].k = 1, ![p].root = "path"]
    <3> DEFINE j == [job[p] EXCEPT !.pc = "copydir", !.k = 1, !.root = "path"]
    <3>1. j.pc = "copydir" /\ j.n = n /\ j.root = "path" /\ j.k = 1
      BY DEF Running, Job
    <3>2. job' = [job EXCEPT ![p] = j]
      BY <2>3 DEF Running, Types
    <3>3. store'[n].has = {}
      BY <1>1, <2>3 DEF EmptyDir
    <3> HIDE DEF j
    <3>4. ProgressOf(j, store'[j.n], bdir'[j.n].out)
      <4>1. bdir[n].out.has = Whole(n)
        BY <1>1, <1>3 DEF Publish, Wait
      <4> QED BY <1>0, <1>1, <3>1, <3>3, <4>1 DEF ProgressOf
    <3> QED BY <2>1, <3>1, <3>2, <3>4, MoveWhole
  <2> QED BY <1>3, <2>2, <2>3 DEF Publish
<1>4. CASE OpenOut(p)
  <2>1. \A m \in Node : m # n => store'[m] = store[m]
    BY <1>1, <1>4 DEF OpenOut
  <2>2. CASE Fail(p)
    BY <2>1, <2>2, FailWhole
  <2>3. CASE /\ store' = [store EXCEPT ![n] = EmptyFile]
             /\ job' = [job EXCEPT ![p].pc = "copyfile", ![p].k = 1,
                                   ![p].data = bdir[n].out.has]
    <3> DEFINE j == [job[p] EXCEPT !.pc = "copyfile", !.k = 1, !.data = bdir[n].out.has]
    <3>1. /\ j.pc = "copyfile" /\ j.n = n /\ j.root = "path" /\ j.k = 1
          /\ j.data = Whole(n)
      BY <1>1, <1>4 DEF Running, Job, OpenOut, Wait
    <3>2. job' = [job EXCEPT ![p] = j]
      BY <2>3 DEF Running, Types
    <3>3. store'[n].has = {}
      BY <1>1, <2>3 DEF EmptyFile
    <3> HIDE DEF j
    <3>4. ProgressOf(j, store'[j.n], bdir'[j.n].out)
      BY <1>1, <3>1, <3>3 DEF ProgressOf
    <3> QED BY <2>1, <3>1, <3>2, <3>4, MoveWhole
  <2> QED BY <1>0, <1>4, <2>2, <2>3 DEF OpenOut
<1> QED BY <1>2, <1>3, <1>4

(* copy_directory(): the k-th entry follows those before it, and the loop   *)
(* ends after the last.                                                     *)
LEMMA CopyDirWhole ==
    ASSUME NEW p, Running(p), Clean, CopyDir(p)
    PROVE  Local(p) /\ Progress(p)'
<1> DEFINE n == job[p].n
           k == job[p].k
<1>0. /\ Types /\ p \in Proc /\ job[p].root = "path" /\ job[p].pc = "copydir"
      /\ n \in Node /\ k <= K + 1 /\ store[n].has = Upto(n, k)
      /\ bdir[n].out.has = Whole(n) /\ UNCHANGED bdir /\ ~Fault
  BY NoneFails DEF Running, Progress, ProgressOf, CopyDir
<1>1. k \in 1..(K + 1) /\ store[n] \in Object
  <2>1. k \in 1..(K + Parts + 1) /\ store[n] \in Object
    BY <1>0, JobParts, DirParts
  <2> QED BY <1>0, <2>1, KAssumption, PartsAssumption
<1>2. BlocksAt(Readable(p), k) = BlocksAt(Whole(n), k)
  BY <1>0 DEF Readable
<1>3. CASE \E b \in BlocksAt(Readable(p), k) :
              /\ store' = [store EXCEPT ![n].has = @ \cup {b}]
              /\ job' = [job EXCEPT ![p].k = k + 1, ![p].last = "ok"]
  <2>1. /\ store' = [store EXCEPT ![n].has = @ \cup {<<n, k>>}]
        /\ job' = [job EXCEPT ![p].k = k + 1, ![p].last = "ok"]
        /\ k \in 1..K
    BY <1>0, <1>1, <1>2, <1>3, BlockOfWhole
  <2> DEFINE j == [job[p] EXCEPT !.k = k + 1, !.last = "ok"]
             o == [store[n] EXCEPT !.has = @ \cup {<<n, k>>}]
  <2>2. j.pc = "copydir" /\ j.n = n /\ j.root = "path" /\ j.k = k + 1
    BY <1>0 DEF Running, Job
  <2>3. o.has = Upto(n, k) \cup {<<n, k>>}
    BY <1>0, <1>1 DEF Object
  <2>4. job' = [job EXCEPT ![p] = j] /\ store' = [store EXCEPT ![n] = o]
    BY <2>1 DEF Running, Types
  <2> HIDE DEF j, o
  <2>5. store'[n] = o /\ \A m \in Node : m # n => store'[m] = store[m]
    BY <1>0, <2>4 DEF Running, Types
  <2>6. o.has = Upto(n, k + 1)
    BY <1>0, <2>1, <2>3, BlocksInOrder
  <2>7. k + 1 <= K + 1
    BY <2>1, KAssumption
  <2>8. ProgressOf(j, store'[j.n], bdir'[j.n].out)
    BY <1>0, <2>2, <2>5, <2>6, <2>7 DEF ProgressOf
  <2> QED BY <2>2, <2>4, <2>5, <2>8, MoveWhole
<1>4. CASE Goto(p, "copied") /\ UNCHANGED store /\ k > K
  <2>1. k = K + 1
    BY <1>1, <1>4, KAssumption
  <2>2. store[n].has = Whole(n)
    BY <1>0, <2>1, BlocksInOrder
  <2> QED BY <1>4, <2>2, GotoWhole
<1>5. k <= K => BlocksAt(Readable(p), k) # {}
  <2> SUFFICES ASSUME k <= K PROVE <<n, k>> \in BlocksAt(Whole(n), k)
    BY <1>2
  <2>1. k \in 1..K
    BY <1>1, KAssumption
  <2> QED BY <2>1 DEF BlocksAt, Whole
<1> HIDE DEF n, k
<1> QED BY <1>0, <1>3, <1>4, <1>5 DEF CopyDir, Hit, n, k

(* copy_file() the same.                                                    *)
LEMMA CopyFileWhole ==
    ASSUME NEW p, Running(p), Clean, CopyFile(p)
    PROVE  Local(p) /\ Progress(p)'
<1> DEFINE n == job[p].n
           k == job[p].k
<1>0. /\ Types /\ p \in Proc /\ n \in Node /\ k <= K + 1
      /\ job[p].root = "path" /\ job[p].pc = "copyfile" /\ store[n].has = Upto(n, k)
      /\ job[p].data = Whole(n) /\ ~Fault
  BY NoneFails DEF Running, Progress, ProgressOf, CopyFile
<1>1. k \in 1..(K + 1) /\ store[n] \in Object
  <2>1. k \in 1..(K + Parts + 1) /\ store[n] \in Object
    BY <1>0, JobParts, DirParts
  <2> QED BY <1>0, <2>1, KAssumption, PartsAssumption
<1>2. CASE \E b \in BlocksAt(job[p].data, k) :
              /\ store' = [store EXCEPT ![n] = Write(@, b)]
              /\ job' = [job EXCEPT ![p].k = k + 1]
  <2>1. /\ store' = [store EXCEPT ![n] = Write(@, <<n, k>>)]
        /\ job' = [job EXCEPT ![p].k = k + 1]
        /\ k \in 1..K
    BY <1>0, <1>1, <1>2, BlockOfWhole
  <2> DEFINE j == [job[p] EXCEPT !.k = k + 1]
             o == Write(store[n], <<n, k>>)
  <2>2. /\ j.pc = "copyfile" /\ j.n = n /\ j.root = "path" /\ j.k = k + 1
        /\ j.data = Whole(n)
    BY <1>0, <1>1 DEF Running, Job
  <2>3. o.has = {c \in Upto(n, k) : c[2] # k} \cup {<<n, k>>}
    BY <1>0, <1>1 DEF Object, Write
  <2>4. job' = [job EXCEPT ![p] = j] /\ store' = [store EXCEPT ![n] = o]
    BY <2>1 DEF Running, Types
  <2> HIDE DEF j, o
  <2>5. store'[n] = o /\ \A m \in Node : m # n => store'[m] = store[m]
    BY <1>0, <1>1, <2>4 DEF Running, Types
  <2>6. o.has = Upto(n, k + 1)
    BY <1>0, <1>1, <2>1, <2>3, BlocksInOrder
  <2>7. k + 1 <= K + 1
    BY <2>1, KAssumption
  <2>8. ProgressOf(j, store'[j.n], bdir'[j.n].out)
    BY <1>0, <2>2, <2>5, <2>6, <2>7 DEF ProgressOf
  <2> QED BY <2>2, <2>4, <2>5, <2>8, MoveWhole
<1>3. CASE BlocksAt(job[p].data, k) = {} /\ Goto(p, "close") /\ UNCHANGED store
  <2>1. k = K + 1
    BY <1>0, <1>1, <1>3, BlockOfWhole
  <2>2. store[n].has = Whole(n)
    BY <1>0, <1>1, <2>1, BlocksInOrder
  <2> QED BY <1>3, <2>2, GotoWhole
<1> QED BY <1>0, <1>1, <1>2, <1>3 DEF CopyFile

(* Closing, publishing and returning keep what was copied.                  *)
LEMMA EndWhole ==
    ASSUME NEW p, Running(p), Clean, Copied(p) \/ Close(p) \/ Chmod(p) \/ Finalize(p)
    PROVE  Local(p) /\ Progress(p)'
<1> DEFINE n == job[p].n
<1>1. /\ ~Fault /\ UNCHANGED store
      /\ job[p].pc \in {"copied", "close", "chmod"} => store[n].has = Whole(n)
  BY NoneFails DEF Running, Progress, ProgressOf, Copied, Close, Chmod, Finalize
<1>2. CASE Copied(p)
  <2>1. Fail(p) \/ Goto(p, "chmod")
    BY <1>2 DEF Copied
  <2>2. job[p].pc = "copied"
    BY <1>2 DEF Copied
  <2> QED BY <1>1, <2>1, <2>2, FailWhole, GotoWhole
<1>3. CASE Close(p)
  <2>1. job[p].pc = "close" /\ Goto(p, "chmod")
    BY <1>3 DEF Close
  <2> QED BY <1>1, <2>1, GotoWhole
<1>4. CASE Chmod(p)
  <2>1. job[p].pc = "chmod" /\ Goto(p, "finalize")
    BY <1>1, <1>4 DEF Chmod
  <2> QED BY <1>1, <2>1, GotoWhole
<1>5. CASE Finalize(p)
  <2> DEFINE j == Return(job[p])
  <2>1. RemoveDir(p, j) /\ job[p].pc = "finalize"
    BY <1>5 DEF Finalize
  <2>2. j.pc = "returned" /\ j.n = n /\ j.root = "path" /\ j.code = job[p].code
    BY DEF Return, NoJob
  <2> HIDE DEF j
  <2>3. \A out : ProgressOf(j, store[j.n], out)
    BY <2>1, <2>2 DEF Running, Progress, ProgressOf
  <2> QED BY <1>1, <2>1, <2>2, <2>3, RemoveWhole
<1> QED BY <1>2, <1>3, <1>4, <1>5

-----------------------------------------------------------------------------
(* A step of build_standard().                                              *)
LEMMA StepWhole ==
    ASSUME BuildInv, Alone, WholeGood, Clean, NEW p \in Proc, Step(p, TRUE),
           UNCHANGED <<crowd, plan, done>>
    PROVE  WholeGood'
<1>1. job[p].pc # "idle"
  BY StepIsBusy
<1>2. Running(p)
  BY <1>1, IsRunning
<1>3. Local(p) /\ Progress(p)'
  BY <1>2, BeforeWhole, JailWhole, ScriptWhole, StartWhole, CopyDirWhole, CopyFileWhole, EndWhole DEF Step
<1> QED BY <1>1, <1>2, <1>3, LocalGood DEF Running

(* The next build begins; it is not one that is done.                       *)
LEMMA TakeWhole ==
    ASSUME BuildInv, Alone, WholeGood, NEW p \in Proc, Take(p)
    PROVE  WholeGood'
<1>1. PICK n \in plan[p] : /\ Begin(p, n) /\ UNCHANGED <<crowd, done>>
                           /\ plan' = [plan EXCEPT ![p] = @ \ {n}]
  BY DEF Take
<1> DEFINE j == [NoJob EXCEPT !.pc = "clear", !.n = n]
<1>2. j.pc = "clear" /\ j.n = n /\ j.root = "path"
  BY DEF NoJob
<1>3. job' = [job EXCEPT ![p] = j] /\ UNCHANGED <<store, bdir>>
  BY <1>1 DEF Begin
<1> HIDE DEF j
<1>4. /\ job'[p] = j /\ \A q \in Proc \ {p} : job'[q] = job[q]
      /\ plan'[p] = plan[p] \ {n} /\ \A q \in Proc \ {p} : plan'[q] = plan[q]
  BY <1>1, <1>3 DEF BuildInv, TypeOK
<1>5. p \in crowd /\ crowd \subseteq Proc /\ (\A q \in crowd : q = p)
  BY <1>1 DEF NobodyElse, Alone, BuildInv, TypeOK
<1>7. NotAgain'
  BY <1>1, <1>2, <1>4, <1>5 DEF WholeGood, NotAgain
<1>8. (\A q \in crowd : Progress(q))'
  BY <1>1, <1>2, <1>4, <1>5 DEF Progress, ProgressOf
<1>9. ObjectsWhole'
  BY <1>1, <1>3 DEF WholeGood, ObjectsWhole
<1> QED BY <1>7, <1>8, <1>9 DEF WholeGood

(* build_standard() has returned; what it reports as done is complete.      *)
LEMMA FinishWhole ==
    ASSUME BuildInv, Alone, WholeGood, NEW p \in Proc, Finish(p)
    PROVE  WholeGood'
<1> DEFINE n == job[p].n
<1>1. /\ job[p].pc = "returned" /\ job' = [job EXCEPT ![p] = NoJob]
      /\ UNCHANGED <<store, bdir, crowd>>
  BY DEF Finish
<1>2. Running(p)
  BY <1>1, IsRunning
<1>3. /\ p \in crowd /\ (\A q \in crowd : q = p) /\ crowd \subseteq Proc
      /\ plan[p] \cap done = {} /\ n \notin plan[p]
  BY <1>1, <1>2 DEF Running, Alone, WholeGood, NotAgain, BuildInv, TypeOK
<1>4. job'[p] = NoJob /\ \A q \in Proc \ {p} : job'[q] = job[q]
  BY <1>1 DEF BuildInv, TypeOK
<1>5. /\ \A q \in Proc \ {p} : plan'[q] = plan[q]
      /\ plan'[p] \cap done' = {}
      /\ done' \subseteq done \cup {n} /\ (n \in done' /\ n \notin done => job[p].code = "ok")
  <2>1. CASE job[p].code = "ok"
    BY <1>3, <2>1 DEF Finish
  <2>2. CASE job[p].code # "ok"
    BY <1>3, <2>2 DEF Finish, BuildInv, TypeOK
  <2> QED BY <2>1, <2>2
<1>7. NoJob.pc = "idle" /\ NoJob.root = "path"
  BY DEF NoJob
<1>8. NotAgain'
  BY <1>1, <1>3, <1>4, <1>5, <1>7 DEF NotAgain
<1>9. (\A q \in crowd : Progress(q))'
  BY <1>1, <1>3, <1>4, <1>7 DEF Progress, ProgressOf
<1>10. ObjectsWhole'
  BY <1>1, <1>2, <1>5 DEF Running, Progress, ProgressOf, WholeGood, ObjectsWhole
<1> QED BY <1>8, <1>9, <1>10 DEF WholeGood

-----------------------------------------------------------------------------
(* Nothing is built at first.                                               *)
LEMMA WholeInit == RunInit => WholeInv
<1> SUFFICES ASSUME RunInit PROVE WholeGood
  BY BuildInit DEF WholeInv
<1>1. \A q \in Proc : job[q] = NoJob
  BY DEF RunInit, Init
<1>2. NoJob.pc = "idle" /\ NoJob.root = "path"
  BY DEF NoJob
<1>3. crowd \subseteq Proc /\ done = {} /\ \A q \in Proc \ crowd : plan[q] = {}
  BY DEF RunInit
<1>4. NotAgain /\ ObjectsWhole
  BY <1>1, <1>2, <1>3 DEF NotAgain, ObjectsWhole
<1>5. \A p \in crowd : Progress(p)
  BY <1>1, <1>2, <1>3 DEF Progress, ProgressOf
<1> QED BY <1>4, <1>5 DEF WholeGood

(* A call that has failed is not forgotten.                                 *)
LEMMA FaultsStay ==
    ASSUME BuildInv, [RunNext]_runVars, faults' = 0
    PROVE  Clean
<1>1. faults \in Nat
  BY FaultsAssumption DEF BuildInv, TypeOK
<1>2. CASE UNCHANGED faults
  BY <1>2 DEF Clean
<1>3. CASE Fault
  BY <1>1, <1>3 DEF Fault
<1>4. UNCHANGED faults \/ Fault
  <2>1. CASE UNCHANGED runVars
    BY <2>1 DEF runVars, vars
  <2>2. ASSUME NEW p \in Proc, Step(p, TRUE)
        PROVE  UNCHANGED faults \/ Fault
    <3>1. StepInv
      BY DEF BuildInv, StepInv, TypeOK, Types
    <3> QED BY <2>2, <3>1, StepRest DEF NoFault
  <2>3. ASSUME NEW p \in Proc, Take(p) \/ Finish(p)
        PROVE  UNCHANGED faults
    BY <2>3 DEF Take, Begin, Finish, vars
  <2> QED BY <2>1, <2>2, <2>3 DEF RunNext, Work
<1> QED BY <1>2, <1>3, <1>4

(* Every step of a single invocation whose calls succeed preserves it.      *)
LEMMA WholeNext == WholeInv /\ [RunNext]_runVars => WholeInv'
<1> SUFFICES ASSUME WholeInv, [RunNext]_runVars PROVE WholeInv'
  OBVIOUS
<1>1. BuildInv /\ BuildInv'
  BY BuildNext DEF WholeInv
<1>2. crowd' = crowd
  BY DEF RunNext, Work, Take, Finish, runVars
<1>3. SUFFICES ASSUME Alone, faults' = 0 PROVE WholeGood'
  BY <1>1, <1>2 DEF WholeInv, Alone
<1>4. Clean
  BY <1>1, <1>3, FaultsStay
<1>5. WholeGood
  BY <1>3, <1>4 DEF WholeInv, Clean
<1>6. CASE UNCHANGED runVars
  BY <1>5, <1>6 DEF runVars, vars, WholeGood, NotAgain, Progress, ObjectsWhole
<1>7. ASSUME NEW p \in Proc, Work(p) PROVE WholeGood'
  BY <1>1, <1>3, <1>4, <1>5, <1>7, StepWhole, TakeWhole, FinishWhole DEF Work
<1> QED BY <1>6, <1>7 DEF RunNext

(* One invocation of the program, any number of derivatives and blocks: as  *)
(* long as no call fails, what build_standard() reports as done is complete *)
(* in the store.                                                            *)
THEOREM DoneIsWhole == RunSpec => []BuiltWhole
<1>1. RunInit => WholeInv
  BY WholeInit
<1>2. WholeInv /\ [RunNext]_runVars => WholeInv'
  BY WholeNext
<1>3. WholeInv => BuiltWhole
  BY DEF WholeInv, WholeGood, ObjectsWhole, BuiltWhole
<1> QED BY <1>1, <1>2, <1>3, PTL DEF RunSpec
=============================================================================
