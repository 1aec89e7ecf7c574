-------------------------------- MODULE Jail --------------------------------
(***************************************************************************)
(* The three processes of a standard build in src/src/calculus/build.c: the *)
(* parent in monitor_jail(), copying the jail's output from a pipe to the   *)
(* log; the outer jail process in enter_jail(), which waits for the         *)
(* builder; and the builder, which mounts the dependencies, pivots into the *)
(* new root and becomes the build script.                                   *)
(*                                                                          *)
(* Output is counted in chunks; the pipe holds PipeSize of them and a       *)
(* writer waits while it is full.  A writer is killed by SIGPIPE when the   *)
(* parent has closed its end.  The builder is process 1 of its namespace:   *)
(* nothing it started outlives it.                                          *)
(***************************************************************************)
EXTENDS Naturals, Sequences, SequencesExt

CONSTANTS
    MaxDeps,        \* bound: dependencies of the derivative
    PipeSize,       \* chunks the pipe can hold
    MaxOutput,      \* bound: chunks the build script prints
    DirsMounted     \* FALSE: mount_dependencies() as it is, which leaves
                    \* directories unmounted, so that no script can start;
                    \* TRUE: as if directories were mounted like files, to
                    \* reach what the other two processes do meanwhile

ASSUME JailAssumption ==
    /\ MaxDeps \in Nat
    /\ PipeSize \in Nat \ {0}
    /\ MaxOutput \in Nat
    /\ DirsMounted \in BOOLEAN

VARIABLES
    deps,       \* what the store holds for each dependency (constant)
    parent,     \* monitor_jail()
    logFailed,  \* the log could not be opened, or reading or writing failed
    reader,     \* the parent's end of the pipe
    logged,     \* chunks in the log
    code,       \* what monitor_jail() makes of the jail's status
    outer,      \* enter_jail(), the parent of the builder
    ostatus,    \* its exit status
    builder,    \* the builder
    bstatus,    \* its exit status
    i,          \* next dependency to mount
    mounted,    \* dependencies visible in the new root
    sh, env,    \* bin_sh, bin_env: <<dependency, program>>, or <<>>
    packages,   \* env_var: the dependencies in $packages
    pipe,       \* chunks in the pipe
    written     \* history: chunks ever written to the pipe

parentVars == <<parent, logFailed, reader, logged, code>>
outerVars == <<outer, ostatus>>
rootVars == <<i, mounted, sh, env, packages>>
builderVars == <<builder, bstatus, rootVars>>
vars == <<deps, parentVars, outerVars, builderVars, pipe, written>>

Object == [kind : {"file", "missing"}, programs : {{}}]
          \cup [kind : {"dir"}, programs : SUBSET {"bash", "sh", "env"}]

Statuses == {"none", "ok", "fail", "killed"}

Steps == {"unborn", "root", "deps", "check", "pivot", "exec", "script",
          "error", "exited"}

-----------------------------------------------------------------------------
Init ==
    /\ deps \in BoundedSeq(Object, MaxDeps) \ {<<>>}
    /\ parent = "open" /\ logFailed = FALSE /\ reader = "open" /\ logged = 0
    /\ code = "fail"
    /\ outer = "setup" /\ ostatus = "none"
    /\ builder = "unborn" /\ bstatus = "none"
    /\ i = 1 /\ mounted = {} /\ sh = <<>> /\ env = <<>> /\ packages = <<>>
    /\ pipe = 0
    /\ written = 0

\* One chunk goes into the pipe; the writer must check CanWrite or Broken.
CanWrite == reader # "closed" /\ pipe < PipeSize
Broken == reader = "closed"
Put == pipe' = pipe + 1 /\ written' = written + 1

-----------------------------------------------------------------------------
(* The parent.                                                              *)

(* fopen() of the log; without it the parent skips to waitpid() and leaves  *)
(* the pipe open and unread.                                                *)
OpenLog ==
    /\ parent = "open"
    /\ \/ parent' = "copy" /\ UNCHANGED <<logFailed, reader>>
       \/ parent' = "wait" /\ logFailed' = TRUE /\ reader' = "unread"
    /\ UNCHANGED <<deps, logged, code, outerVars, builderVars, pipe, written>>

\* Mutant: one read is taken for the whole output, the pipe stays open.
CopyLogOnce ==
    /\ parent = "copy"
    /\ pipe > 0
    /\ pipe' = 0 /\ logged' = logged + pipe
    /\ parent' = "wait" /\ reader' = "unread"
    /\ UNCHANGED <<deps, logFailed, code, outerVars, builderVars, written>>

(* copy_file() moves what the pipe holds to the log.                        *)
CopyLog ==
    /\ parent = "copy"
    /\ pipe > 0
    /\ \E k \in 1..pipe : pipe' = pipe - k /\ logged' = logged + k
    /\ UNCHANGED <<deps, parent, logFailed, reader, code, outerVars,
                   builderVars, written>>

\* Mutant: an empty pipe is taken for the end of the output.
EndOfLogEmpty ==
    /\ parent = "copy"
    /\ pipe = 0
    /\ parent' = "wait" /\ reader' = "closed"
    /\ UNCHANGED <<deps, logFailed, logged, code, outerVars, builderVars, pipe, written>>

(* End of file: the pipe is empty and nobody is left who could write.       *)
EndOfLog ==
    /\ parent = "copy"
    /\ pipe = 0 /\ outer = "exited" /\ builder \in {"unborn", "exited"}
    /\ parent' = "wait" /\ reader' = "closed"
    /\ UNCHANGED <<deps, logFailed, logged, code, outerVars, builderVars, pipe, written>>

(* Reading or writing fails: the pipe is closed, what it held is lost.      *)
BreakLog ==
    /\ parent = "copy"
    /\ parent' = "wait" /\ reader' = "closed" /\ logFailed' = TRUE
    /\ UNCHANGED <<deps, logged, code, outerVars, builderVars, pipe, written>>

(* waitpid() for the outer process; it may fail, then -1 is returned.       *)
Reap ==
    /\ parent = "wait"
    /\ outer = "exited"
    /\ parent' = "done"
    /\ \/ code' = IF ostatus = "ok" THEN "ok" ELSE "fail"
       \/ code' = "fail"
    /\ UNCHANGED <<deps, logFailed, reader, logged, outerVars, builderVars, pipe, written>>

Parent == OpenLog \/ CopyLog \/ EndOfLog \/ BreakLog \/ Reap

-----------------------------------------------------------------------------
(* The outer process.                                                       *)

\* exit(), after a message if `says': the message needs the pipe.
OuterExit(status, says) ==
    \/ /\ ~says \/ CanWrite
       /\ outer' = "exited" /\ ostatus' = status
       /\ IF says THEN Put ELSE UNCHANGED <<pipe, written>>
    \/ /\ says /\ Broken
       /\ outer' = "exited" /\ ostatus' = "killed"
       /\ UNCHANGED <<pipe, written>>

(* unshare(), setup_uid_map() and fork() of the builder.                    *)
Unshare ==
    /\ outer = "setup"
    /\ \/ /\ outer' = "waiting" /\ builder' = "root"
          /\ UNCHANGED <<ostatus, pipe, written>>
       \/ OuterExit("fail", TRUE) /\ UNCHANGED builder
    /\ UNCHANGED <<deps, parentVars, bstatus, rootVars>>

\* Mutant: a builder killed by a signal counts as one that returned 0.
WaitBuilderSignal ==
    /\ outer = "waiting"
    /\ builder = "exited"
    /\ IF bstatus = "fail" THEN OuterExit("fail", TRUE) ELSE OuterExit("ok", FALSE)
    /\ UNCHANGED <<deps, parentVars, builderVars>>

(* waitpid() for the builder: its exit code is passed on, a signal or an    *)
(* error counts as a failure.  A failing code and an error are reported.    *)
WaitBuilder ==
    /\ outer = "waiting"
    /\ builder = "exited"
    /\ \/ bstatus = "ok" /\ OuterExit("ok", FALSE)
       \/ bstatus = "killed" /\ OuterExit("fail", FALSE)
       \/ bstatus = "fail" /\ OuterExit("fail", TRUE)
       \/ OuterExit("fail", TRUE)
    /\ UNCHANGED <<deps, parentVars, builderVars>>

Outer == Unshare \/ WaitBuilder

-----------------------------------------------------------------------------
(* The builder.                                                             *)

\* A checked call failed: a message is due, then exit(EXIT_FAILURE).
Trouble == builder' = "error"

(* Private mounts, /proc, /sys, /tmp, /dev and the devices.                 *)
MountRoot ==
    /\ builder = "root"
    /\ builder' = "deps" \/ Trouble
    /\ UNCHANGED <<deps, parentVars, outerVars, bstatus, rootVars, pipe, written>>

\* Mutant: the search goes on, so that a later dependency wins.
ShellLast(d) ==
    CASE "bash" \in deps[d].programs -> <<d, "bash">>
      [] "bash" \notin deps[d].programs /\ "sh" \in deps[d].programs -> <<d, "sh">>
      [] OTHER -> sh

\* The shell and env found in dependency d, if none was found before.
Shell(d) ==
    CASE sh # <<>> -> sh
      [] sh = <<>> /\ "bash" \in deps[d].programs -> <<d, "bash">>
      [] sh = <<>> /\ "bash" \notin deps[d].programs /\ "sh" \in deps[d].programs -> <<d, "sh">>
      [] OTHER -> <<>>

EnvProgram(d) ==
    IF env = <<>> /\ "env" \in deps[d].programs THEN <<d, "env">> ELSE env

(* One turn of the loop of mount_dependencies().  A file is mounted; a      *)
(* directory is only searched for the programs the new root needs.          *)
MountDep ==
    /\ builder = "deps"
    /\ i <= Len(deps)
    /\ \/ /\ deps[i].kind = "file"
          /\ mounted' = mounted \cup {i}
          /\ packages' = Append(packages, i)
          /\ i' = i + 1
          /\ UNCHANGED <<builder, sh, env>>
       \/ /\ deps[i].kind = "dir"
          /\ mounted' = IF DirsMounted THEN mounted \cup {i} ELSE mounted
          /\ sh' = Shell(i)
          /\ env' = EnvProgram(i)
          /\ packages' = Append(packages, i)
          /\ i' = i + 1
          /\ UNCHANGED builder
       \/ /\ deps[i].kind \in {"missing", "file"}
          /\ Trouble
          /\ UNCHANGED rootVars
    /\ UNCHANGED <<deps, parentVars, outerVars, bstatus, pipe, written>>

(* All dependencies seen: without a shell and an env there is no build.     *)
CheckPrograms ==
    /\ builder = "deps"
    /\ i = Len(deps) + 1
    /\ IF sh = <<>> \/ env = <<>> THEN Trouble ELSE builder' = "pivot"
    /\ UNCHANGED <<deps, parentVars, outerVars, bstatus, rootVars, pipe, written>>

(* pivot_root(), the old root detached, /build, the links and the output.   *)
Pivot ==
    /\ builder = "pivot"
    /\ builder' = "exec" \/ Trouble
    /\ UNCHANGED <<deps, parentVars, outerVars, bstatus, rootVars, pipe, written>>

(* execvpe() of /bin/sh, a link to the shell inside its dependency.         *)
Exec ==
    /\ builder = "exec"
    /\ IF sh[1] \in mounted THEN builder' = "script" ELSE Trouble
    /\ UNCHANGED <<deps, parentVars, outerVars, bstatus, rootVars, pipe, written>>

(* The message of a failed call, and the exit.                              *)
Complain ==
    /\ builder = "error"
    /\ builder' = "exited"
    /\ \/ CanWrite /\ Put /\ bstatus' = "fail"
       \/ Broken /\ bstatus' = "killed" /\ UNCHANGED <<pipe, written>>
    /\ UNCHANGED <<deps, parentVars, outerVars, rootVars>>

(* The build script prints, and finally exits or is killed.                 *)
ScriptPrints ==
    /\ builder = "script"
    /\ written < MaxOutput
    /\ \/ CanWrite /\ Put /\ UNCHANGED <<builder, bstatus>>
       \/ /\ Broken
          /\ builder' = "exited" /\ bstatus' = "killed"
          /\ UNCHANGED <<pipe, written>>
    /\ UNCHANGED <<deps, parentVars, outerVars, rootVars>>

ScriptExits ==
    /\ builder = "script"
    /\ builder' = "exited"
    /\ bstatus' \in {"ok", "fail", "killed"}
    /\ UNCHANGED <<deps, parentVars, outerVars, rootVars, pipe, written>>

Builder == \/ MountRoot \/ MountDep \/ CheckPrograms \/ Pivot \/ Exec
           \/ Complain \/ ScriptPrints \/ ScriptExits

Returned == parent = "done" /\ UNCHANGED vars

Next == Parent \/ Outer \/ Builder \/ Returned

\* The three processes are scheduled; a script that wants to print or to
\* exit eventually does.
Spec == Init /\ [][Next]_vars /\ WF_vars(Parent) /\ WF_vars(Outer) /\ WF_vars(Builder)

-----------------------------------------------------------------------------
TypeOK ==
    /\ deps \in Seq(Object)
    /\ parent \in {"open", "copy", "wait", "done"}
    /\ logFailed \in BOOLEAN
    /\ reader \in {"open", "closed", "unread"}
    /\ logged \in Nat /\ written \in Nat
    /\ code \in {"ok", "fail"}
    /\ outer \in {"setup", "waiting", "exited"}
    /\ builder \in Steps
    /\ ostatus \in Statuses /\ bstatus \in Statuses
    /\ i \in 1..(Len(deps) + 1)
    /\ mounted \subseteq DOMAIN deps
    /\ packages \in Seq(DOMAIN deps)
    /\ pipe \in 0..PipeSize

(* When the parent has stopped reading without an error, the log holds all  *)
(* that the jail and the script ever printed, and both are gone.            *)
LogComplete ==
    parent \in {"wait", "done"} /\ ~logFailed =>
        logged = written /\ outer = "exited" /\ builder \in {"unborn", "exited"}

(* Success is never made up on the way through three processes: monitor_jail *)
(* returns 0 only if the build script itself exited with 0.                 *)
SuccessIsTheScripts ==
    parent = "done" /\ code = "ok" => builder = "exited" /\ bstatus = "ok"

(* The order of the dependency list decides (derivative.h: "order matters   *)
(* here"): the shell is that of the first directory that has one, bash      *)
(* before sh, env that of the first that has env, and $packages lists every *)
(* dependency in order.                                                     *)
ListOrderDecides ==
    builder \in {"pivot", "exec", "script"} =>
        LET shells == {d \in DOMAIN deps : deps[d].programs \cap {"bash", "sh"} # {}}
            envs == {d \in DOMAIN deps : "env" \in deps[d].programs}
            First(S) == CHOOSE d \in S : \A e \in S : d <= e
        IN /\ sh = <<First(shells), IF "bash" \in deps[First(shells)].programs
                                      THEN "bash" ELSE "sh">>
           /\ env = <<First(envs), "env">>
           /\ packages = [d \in DOMAIN deps |-> d]

(* If the log can be opened, monitor_jail() returns: nobody waits for ever  *)
(* for a full pipe or for a process that waits itself.                      *)
MonitorReturns == [](parent = "copy" => <>(parent = "done"))

(* A log that cannot be opened is worth a warning ("Warning, unable to      *)
(* create log file", build.c:782), after which the build goes on and ends.  *)
(* Not so at this commit: nobody reads what the jail prints.                *)
BuildReturns == [](parent = "open" => <>(parent = "done"))

(* The new root holds every dependency (build.c:393: "Mount all the         *)
(* dependencies of a derivative").                                          *)
AllMounted ==
    builder \in {"pivot", "exec", "script"} => mounted = DOMAIN deps
=============================================================================
