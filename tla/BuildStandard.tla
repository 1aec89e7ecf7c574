---------------------------- MODULE BuildStandard ---------------------------
(***************************************************************************)
(* build_standard() and monitor_jail() of src/src/calculus/build.c, with    *)
(* copy_directory() and copy_file(), run by any number of processes.  A     *)
(* build gets a directory of its own under /calc/build, a forked jail       *)
(* builds in it, and the parent copies the output to the store.             *)
(*                                                                          *)
(* The jail itself is module Jail.  Here it is what it does to the files    *)
(* others can reach: it makes directories by their paths from outside until *)
(* it pivots into the build directory, then the output, which the script    *)
(* fills, and exits with some status.  Nothing keeps a second invocation    *)
(* from removing that directory, entry by entry, and making it again.       *)
(* Every failing call takes one from the budget MaxFaults; a build script   *)
(* that fails does too.                                                     *)
(***************************************************************************)
EXTENDS ObjectStore

CONSTANTS
    Proc,       \* processes of the program
    Parts,      \* directories a jail makes by their paths from outside
    MaxFaults   \* bound: failing calls and failing build scripts

ASSUME PartsAssumption == Parts \in Nat \ {0}
ASSUME FaultsAssumption == MaxFaults \in Nat

VARIABLES
    store,      \* the objects under /calc/str
    bdir,       \* per derivative: its directory under /calc/build
    job,        \* per process: where it is in build_standard(), and its locals
    faults      \* failures so far

vars == <<store, bdir, job, faults>>

\* What stands at the path of a build directory: the directories a jail
\* makes there from outside, the last of them the store the output is in.
BuildDir == [there : BOOLEAN, parts : SUBSET (1..Parts), out : Object]

NoDir == [there |-> FALSE, parts |-> {}, out |-> Absent]

JailPcs == {"jail", "setup", "inside", "running"}

Pcs == JailPcs \cup
       {"idle", "clear", "ensure", "fork", "log", "stuck", "wait",
        "publish", "copydir", "copied", "openout", "copyfile", "close",
        "chmod", "finalize", "returned", "exited"}

Job == [pc : Pcs,
        n : 0..N,                       \* the derivative being built
        k : 1..(K + Parts + 1),         \* next part to make, block to write or copy
        root : {"path", "torn", "gone"},\* did another process take from the directory
                                        \* it uses, or remove it?
        log : {"read", "closed", "unread"},     \* is what the jail prints read?
        data : SUBSET Blocks,           \* what the open output file holds
        last : {"ok", "fail"},          \* `result' of copy_directory()
        code : {"ok", "fail"}]          \* `code' of monitor_jail()

NoJob == [pc |-> "idle", n |-> 0, k |-> 1, root |-> "path", log |-> "read",
          data |-> {}, last |-> "ok", code |-> "fail"]

Fault == faults < MaxFaults /\ faults' = faults + 1
NoFault == UNCHANGED faults

Goto(p, pc) == job' = [job EXCEPT ![p].pc = pc]

\* code = EXIT_FAILURE; goto true_finalize, then build_standard() goes on.
Fail(p) == job' = [job EXCEPT ![p].pc = "finalize", ![p].code = "fail"]

Copying(p) == job[p].pc \in {"copydir", "copied"}

\* Another process is at work on the derivative of p.
Company(p) == \E q \in Proc \ {p} : job[q].n = job[p].n

\* The jobs after p has made e of their build directory.
Robbed(p, e) ==
    [q \in Proc |->
        IF q # p /\ job[q].n = job[p].n
          THEN [job[q] EXCEPT !.root =
                    IF @ = "gone" \/ ~e.there \/ (Copying(q) /\ ~Exists(e.out))
                      THEN "gone" ELSE "torn"]
          ELSE job[q]]

Return(j) == [NoJob EXCEPT !.pc = "returned", !.n = j.n, !.code = j.code]

-----------------------------------------------------------------------------
Init ==
    /\ store = [n \in Node |-> Absent]
    /\ bdir = [n \in Node |-> NoDir]
    /\ job = [p \in Proc |-> NoJob]
    /\ faults = 0

(* build_derivative() dispatches n to build_standard().                     *)
Begin(p, n) ==
    /\ job[p].pc = "idle"
    /\ job' = [job EXCEPT ![p] = [NoJob EXCEPT !.pc = "clear", !.n = n]]
    /\ UNCHANGED <<store, bdir, faults>>

\* What one remove() of an entry makes of build directory d.
Less(d) ==
    {[d EXCEPT !.parts = @ \ {k}] :
        k \in IF Exists(d.out) THEN d.parts \ {Parts} ELSE d.parts}
    \cup (IF d.out.kind = "dir" THEN {[d EXCEPT !.out.has = @ \ {b}] : b \in d.out.has} ELSE {})
    \cup (IF d.out.kind = "file" \/ d.out = EmptyDir THEN {[d EXCEPT !.out = Absent]} ELSE {})

(* fs_rmdir() of the build directory: entry by entry, then the directory,   *)
(* up to the first error; an entry that another process makes or removes    *)
(* meanwhile is one.  The result is not looked at: p goes on as `after'.    *)
RemoveDir(p, after) ==
    LET n == job[p].n  d == bdir[n] IN
    \/ /\ d.there
       /\ \E e \in Less(d) :
             /\ bdir' = [bdir EXCEPT ![n] = e]
             /\ job' = Robbed(p, e)
       /\ NoFault
    \/ /\ d.there => d.parts = {} /\ ~Exists(d.out)
       /\ bdir' = [bdir EXCEPT ![n] = NoDir]
       /\ job' = [Robbed(p, NoDir) EXCEPT ![p] = after]
       /\ NoFault
    \/ /\ d.there
       /\ UNCHANGED bdir
       /\ job' = [job EXCEPT ![p] = after]
       /\ IF Company(p) THEN NoFault ELSE Fault

(* fs_rmdir() of an old build directory.                                    *)
Clear(p) ==
    /\ job[p].pc = "clear"
    /\ RemoveDir(p, [job[p] EXCEPT !.pc = "ensure"])
    /\ UNCHANGED store

(* fs_ensure_dir(): only a result of -1 (fork failed, mkdir was killed) is  *)
(* an error; a mkdir that exits with 1 goes unnoticed.                      *)
Ensure(p) ==
    LET n == job[p].n IN
    /\ job[p].pc = "ensure"
    /\ \/ /\ bdir' = [bdir EXCEPT ![n].there = TRUE]
          /\ Goto(p, "fork")
          /\ NoFault
       \/ ~bdir[n].there /\ UNCHANGED bdir /\ Goto(p, "fork") /\ Fault
       \/ /\ ~bdir[n].there /\ UNCHANGED bdir /\ Fault
          /\ job' = [job EXCEPT ![p] = Return(@)]
    /\ UNCHANGED store

(* pipe(), whose failure exits the program, and fork(), whose failure       *)
(* removes the directory again.                                             *)
Fork(p) ==
    /\ job[p].pc = "fork"
    /\ \/ Goto(p, "log") /\ NoFault
       \/ Goto(p, "exited") /\ Fault
       \/ Fail(p) /\ Fault
    /\ UNCHANGED <<store, bdir>>

(* monitor_jail() opens the log.  If it cannot, it goes on without: nobody  *)
(* will read what the jail prints.                                          *)
OpenLog(p) ==
    /\ job[p].pc = "log"
    /\ \/ job' = [job EXCEPT ![p].pc = "jail", ![p].log = "read"] /\ NoFault
       \/ job' = [job EXCEPT ![p].pc = "jail", ![p].log = "unread"] /\ Fault
    /\ UNCHANGED <<store, bdir>>

\* The jail exits, and its parent with it.
JailFails(p) ==
    /\ job' = [job EXCEPT ![p].pc = "wait", ![p].code = "fail"]
    /\ UNCHANGED bdir

\* Whose directory another process is taking away may fail at no fault.
Hit(p) == IF job[p].root = "path" THEN Fault ELSE NoFault

(* The jail mounts the build directory on itself.                           *)
JailBind(p) ==
    /\ job[p].pc = "jail"
    /\ \/ /\ bdir[job[p].n].there
          /\ job' = [job EXCEPT ![p].pc = "setup", ![p].k = 1, ![p].root = "path"]
          /\ UNCHANGED bdir /\ NoFault
       \/ JailFails(p) /\ IF bdir[job[p].n].there THEN Fault ELSE NoFault
    /\ UNCHANGED store

(* checked_mkdir() of the next directory, by its path: in the directory the *)
(* jail has mounted, or in the one that took its place.                     *)
JailMkdir(p) ==
    LET n == job[p].n  k == job[p].k
        free == bdir[n].there /\ k \notin bdir[n].parts
    IN
    /\ job[p].pc = "setup"
    /\ k <= Parts
    /\ \/ /\ free
          /\ bdir' = [bdir EXCEPT ![n].parts = @ \cup {k}]
          /\ job' = [job EXCEPT ![p].k = k + 1]
          /\ NoFault
       \/ JailFails(p) /\ IF free THEN Hit(p) ELSE NoFault
    /\ UNCHANGED store

(* pivot_root(): the new root has to be a mount, which goes with the        *)
(* directory that was mounted.                                              *)
JailPivot(p) ==
    /\ job[p].pc = "setup"
    /\ job[p].k > Parts
    /\ \/ job[p].root # "gone" /\ Goto(p, "inside") /\ UNCHANGED bdir /\ NoFault
       \/ JailFails(p) /\ Hit(p)
    /\ UNCHANGED store

(* What is made inside the new root, the output directory last of all;      *)
(* then the script runs.                                                    *)
JailInside(p) ==
    LET n == job[p].n
        free == job[p].root # "gone" /\ Parts \in bdir[n].parts /\ ~Exists(bdir[n].out)
    IN
    /\ job[p].pc = "inside"
    /\ \/ /\ free
          /\ bdir' = [bdir EXCEPT ![n].out = EmptyDir]
          /\ job' = [job EXCEPT ![p].pc = "running", ![p].k = 1]
          /\ NoFault
       \/ JailFails(p) /\ IF free THEN Hit(p) ELSE NoFault
    /\ UNCHANGED store

(* The script writes a block of its output, a directory or the file it puts *)
(* in its place.  It is worth what the dependencies are, `sound' telling if *)
(* they all are what they should be, and what is left of its root; once its *)
(* directory is removed, nothing it writes is at the path.                  *)
Script(p, sound) ==
    LET n == job[p].n  k == job[p].k  out == bdir[n].out IN
    /\ job[p].pc = "running"
    /\ k <= K
    /\ \E o \in {out} \cup (IF out = EmptyDir THEN {EmptyFile} ELSE {}),
          of \in (IF sound THEN {n} ELSE {0}) \cup (IF job[p].root = "path" THEN {} ELSE {0}) :
          bdir' = IF job[p].root = "gone" \/ ~Exists(out) THEN bdir
                  ELSE [bdir EXCEPT ![n].out = Write(o, <<of, k>>)]
    /\ job' = [job EXCEPT ![p].k = k + 1]
    /\ UNCHANGED <<store, faults>>

(* Copying what the jail prints breaks off: the pipe is closed on it.       *)
LogBreaks(p) ==
    /\ job[p].pc = "running" /\ job[p].log = "read"
    /\ job' = [job EXCEPT ![p].log = "closed"]
    /\ Fault
    /\ UNCHANGED <<store, bdir>>

(* The script prints more than a pipe holds that nobody reads.              *)
JailBlocks(p) ==
    /\ job[p].pc = "running" /\ job[p].log = "unread"
    /\ Goto(p, "stuck")
    /\ UNCHANGED <<store, bdir, faults>>

(* The script ends: when it has written all, too early without noticing, or *)
(* with a failure.                                                          *)
JailEnd(p, sound) ==
    /\ job[p].pc = "running"
    /\ \/ /\ job' = [job EXCEPT ![p].pc = "wait", ![p].code = "ok"]
          /\ UNCHANGED bdir
          /\ IF job[p].k > K THEN NoFault ELSE Fault
       \/ /\ JailFails(p)
          /\ IF sound /\ job[p].log # "closed" THEN Hit(p) ELSE NoFault
    /\ UNCHANGED store

(* waitpid(), and the kind of the output.                                   *)
Wait(p) ==
    LET out == bdir[job[p].n].out IN
    /\ job[p].pc = "wait"
    /\ \/ job[p].code = "fail" /\ Fail(p) /\ NoFault
       \/ /\ job[p].code = "ok" /\ NoFault
          /\ CASE out.kind = "dir" -> Goto(p, "publish")
               [] out.kind = "file" -> Goto(p, "openout")
               [] OTHER -> Fail(p)
       \/ Fail(p) /\ Fault
    /\ UNCHANGED <<store, bdir>>

\* Mutant: an existing object is accepted as the target.
PublishOver(p) ==
    /\ job[p].pc = "publish"
    /\ store' = [store EXCEPT ![job[p].n].kind = "dir"]
    /\ job' = [job EXCEPT ![p].pc = "copydir", ![p].k = 1, ![p].root = "path"]
    /\ UNCHANGED <<bdir, faults>>

(* mkdir() of the store path; copy_directory() opens the output.            *)
Publish(p) ==
    LET n == job[p].n IN
    /\ job[p].pc = "publish"
    /\ \/ /\ ~Exists(store[n])
          /\ store' = [store EXCEPT ![n] = EmptyDir]
          /\ \/ /\ bdir[n].out.kind = "dir"
                /\ job' = [job EXCEPT ![p].pc = "copydir", ![p].k = 1,
                                      ![p].root = "path"]
             \/ bdir[n].out.kind # "dir" /\ Fail(p)
          /\ NoFault
       \/ Exists(store[n]) /\ Fail(p) /\ UNCHANGED store /\ NoFault
       \/ Fail(p) /\ UNCHANGED store /\ Fault
    /\ UNCHANGED bdir

\* What the traversal of the output directory still finds.
Readable(p) == IF job[p].root = "gone" THEN {} ELSE bdir[job[p].n].out.has

(* copy_directory(), one entry at a time; `last' is overwritten by every    *)
(* entry, and a traversal that breaks off ends the loop like its end does.  *)
CopyDir(p) ==
    LET n == job[p].n  k == job[p].k  entry == BlocksAt(Readable(p), k) IN
    /\ job[p].pc = "copydir"
    /\ \/ /\ k <= K
          /\ \E b \in entry : store' = [store EXCEPT ![n].has = @ \cup {b}]
          /\ job' = [job EXCEPT ![p].k = k + 1, ![p].last = "ok"]
          /\ NoFault
       \/ /\ k <= K /\ entry = {}
          /\ job' = [job EXCEPT ![p].k = k + 1]
          /\ UNCHANGED store /\ NoFault
       \/ /\ k <= K /\ (entry # {} \/ job[p].root # "path")
          /\ job' = [job EXCEPT ![p].k = k + 1, ![p].last = "fail"]
          /\ UNCHANGED store /\ Hit(p)
       \/ /\ Goto(p, "copied")
          /\ UNCHANGED store
          /\ IF k > K THEN NoFault ELSE Hit(p)
    /\ UNCHANGED bdir

(* The result of copy_directory(), then chmod().                            *)
Copied(p) ==
    /\ job[p].pc = "copied"
    /\ \/ job[p].last = "fail" /\ Fail(p) /\ NoFault
       \/ job[p].last = "ok" /\ Goto(p, "chmod") /\ NoFault
    /\ UNCHANGED <<store, bdir>>

(* A plain file: stat(), fopen() of the target, fopen() of the output.      *)
OpenOut(p) ==
    LET n == job[p].n  isreg == bdir[n].out.kind = "file" IN
    /\ job[p].pc = "openout"
    /\ \/ /\ Fail(p) /\ UNCHANGED store
          /\ IF isreg /\ store[n].kind # "dir" THEN Fault ELSE NoFault
       \/ /\ store[n].kind # "dir"
          /\ store' = [store EXCEPT ![n] = EmptyFile]
          /\ \/ /\ isreg
                /\ job' = [job EXCEPT ![p].pc = "copyfile", ![p].k = 1,
                                      ![p].data = bdir[n].out.has]
                /\ NoFault
             \/ Fail(p) /\ IF isreg THEN Fault ELSE NoFault
    /\ UNCHANGED bdir

\* Mutant: the first block read is not written.
CopyFileSkips(p) ==
    LET n == job[p].n  k == job[p].k IN
    /\ job[p].pc = "copyfile"
    /\ \/ \E b \in BlocksAt(job[p].data, k) :
             /\ store' = IF k = 1 THEN store ELSE [store EXCEPT ![n] = Write(@, b)]
             /\ job' = [job EXCEPT ![p].k = k + 1]
       \/ BlocksAt(job[p].data, k) = {} /\ Goto(p, "close") /\ UNCHANGED store
    /\ UNCHANGED <<bdir, faults>>

(* copy_file(): stops at the first error.                                   *)
CopyFile(p) ==
    LET n == job[p].n  k == job[p].k IN
    /\ job[p].pc = "copyfile"
    /\ \/ \E b \in BlocksAt(job[p].data, k) :
             /\ store' = [store EXCEPT ![n] = Write(@, b)]
             /\ job' = [job EXCEPT ![p].k = k + 1]
             /\ NoFault
       \/ BlocksAt(job[p].data, k) = {} /\ Goto(p, "close") /\ UNCHANGED store /\ NoFault
       \/ Fail(p) /\ UNCHANGED store /\ Fault
    /\ UNCHANGED bdir

(* fclose(): it may lose what was still buffered, and is not checked.       *)
Close(p) ==
    LET n == job[p].n IN
    /\ job[p].pc = "close"
    /\ \/ UNCHANGED store /\ NoFault
       \/ store' = [store EXCEPT ![n].has = @ \ BlocksAt(@, K)] /\ Fault
    /\ Goto(p, "chmod")
    /\ UNCHANGED bdir

(* chmod() of the object: it is published.                                  *)
Chmod(p) ==
    /\ job[p].pc = "chmod"
    /\ \/ Goto(p, "finalize") /\ NoFault
       \/ Fail(p) /\ Fault
    /\ UNCHANGED <<store, bdir>>

\* Mutant: the exit status is forgotten on the way.
FinalizeOk(p) ==
    LET n == job[p].n IN
    /\ job[p].pc = "finalize"
    /\ bdir' = [bdir EXCEPT ![n] = NoDir]
    /\ job' = [job EXCEPT ![p] = [Return(@) EXCEPT !.code = "ok"]]
    /\ UNCHANGED <<store, faults>>

(* build_standard() removes the build directory and returns the code.       *)
Finalize(p) ==
    /\ job[p].pc = "finalize"
    /\ RemoveDir(p, Return(job[p]))
    /\ UNCHANGED store

Step(p, sound) ==
    \/ Clear(p) \/ Ensure(p) \/ Fork(p) \/ OpenLog(p)
    \/ JailBind(p) \/ JailMkdir(p) \/ JailPivot(p) \/ JailInside(p)
    \/ Script(p, sound) \/ LogBreaks(p) \/ JailBlocks(p) \/ JailEnd(p, sound)
    \/ Wait(p) \/ Publish(p) \/ CopyDir(p) \/ Copied(p) \/ OpenOut(p)
    \/ CopyFile(p) \/ Close(p) \/ Chmod(p) \/ Finalize(p)
=============================================================================
