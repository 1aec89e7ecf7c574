------------------------------- MODULE LuaEnv -------------------------------
(***************************************************************************)
(* Evaluation of a script by src/src/calculus/luaenv.c: import(), use(),    *)
(* the path functions and env_run() with its teardown scripts, together     *)
(* with the pool of temporary strings of src/src/common/string.c that they  *)
(* draw on.                                                                 *)
(*                                                                          *)
(* What a script does is arbitrary: it may call any of the functions, guard *)
(* a call with pcall(), raise an error or return, at any point.  `stack' is *)
(* the C and Lua stack: one frame per script that import(), load_library()  *)
(* or env_run() is executing.                                               *)
(*                                                                          *)
(* What import() and use() have done before they know by a path: the        *)
(* directory of the caller, "/" and what the script wrote.  Only the first  *)
(* part is in canonical form, so one file has many of these.                *)
(***************************************************************************)
EXTENDS Naturals, FiniteSets, Sequences, SequencesExt

CONSTANTS
    Modules,    \* paths of files, as the calls of import() make them
    Libraries,  \* paths of directories, as the calls of use() make them
    Aliases,    \* sets of these paths that lead to one file or directory
    Slots,      \* number of pool slots (64 in string.c)
    MaxDepth,   \* nested calls after which Lua raises "C stack overflow"
    MaxCalls    \* bound: calls made by all the scripts of a run

VARIABLES
    shape,      \* what _pre.lua and _post.lua of a library are
    stack,      \* the scripts being run, innermost last
    raising,    \* an error is on its way up the stack
    used,       \* used_slots
    cached,     \* keys of import_cache
    loaded,     \* library_set
    teardown,   \* teardown_stack
    phase,      \* where env_run() is
    calls,      \* calls so far
    log         \* history: what has been completed

vars == <<shape, stack, raising, used, cached, loaded, teardown, phase, calls, log>>
env == <<cached, loaded, teardown>>

Shapes == {"no_pre", "no_post", "post", "bad_post"}
Phases == {"running", "done", "panic"}

Frame == [kind : {"main", "import", "pre", "post"},
          of : Modules \cup Libraries \cup {"script"},
          guarded : BOOLEAN,            \* the call was made under pcall()
          mark : SUBSET (0..(Slots - 1))]

\* Two paths lead to the same place.
Same(x, y) == x = y \/ \E A \in Aliases : {x, y} \subseteq A

Top == Last(stack)
Live == {stack[i] : i \in DOMAIN stack}
Running(kind, x) == \E f \in Live : f.kind = kind /\ f.of = x

Free == (0..(Slots - 1)) \ used

FreeSlot == CHOOSE s \in Free : \A t \in Free : s <= t

\* A script of the innermost frame is executing and may make another call.
Calling == phase = "running" /\ ~raising /\ calls < MaxCalls /\ stack # <<>>

Counted == calls' = calls + 1

\* luaL_error(): caught where the failing call was guarded, or passed on.
Error(guarded) == raising' = ~guarded

Leak == /\ used' = used \cup {FreeSlot}
        /\ log' = [log EXCEPT !.leaked = @ + 1]

(* caller_relative() fails: if it was realpath() that did, in               *)
(* caller_source(), the slot of the path is left behind.                    *)
BadPath(guarded) ==
    /\ Error(guarded)
    /\ Leak \/ UNCHANGED <<used, log>>

(* Every function first gets a slot for the path it is given; if there is   *)
(* none left get_free_pool_index() panics, wherever the program is.         *)
Panic ==
    /\ Calling
    /\ Free = {}
    /\ phase' = "panic"
    /\ UNCHANGED <<shape, stack, raising, used, env, calls, log>>

-----------------------------------------------------------------------------
Init ==
    /\ shape \in {s \in [Libraries -> Shapes] :
                    \A l, m \in Libraries : Same(l, m) => s[l] = s[m]}
    /\ stack = <<[kind |-> "main", of |-> "script", guarded |-> TRUE, mark |-> {}]>>
    /\ raising = FALSE
    /\ used = {}
    /\ cached = {}
    /\ loaded = {}
    /\ teardown = <<>>
    /\ phase = "running"
    /\ calls = 0
    /\ log = [ready |-> {}, posted |-> <<>>, inside |-> {},
              ran |-> [x \in Modules |-> 0],
              unready |-> {}, leaked |-> 0]

(* relpath(), exists(), isdir(), isfile(), readfile(), listdir(): the slot  *)
(* is released on success and by the errors of isdir() and isfile(); those  *)
(* of readfile() and listdir() leave it behind.                             *)
PathCall(guarded) ==
    /\ Calling /\ Free # {} /\ Counted
    /\ UNCHANGED <<used, raising, log>> \/ BadPath(guarded)
    /\ UNCHANGED <<shape, stack, env, phase>>

Enter(kind, x, guarded) ==
    stack' = Append(stack, [kind |-> kind, of |-> x, guarded |-> guarded, mark |-> used])

(* import(): the cached value, or the file is run.  The slot of the path is *)
(* released before that, and left behind only if realpath() fails.          *)
Import(x, guarded) ==
    /\ Calling /\ Free # {} /\ Counted
    /\ \/ x \in cached /\ UNCHANGED <<stack, raising, used, log>>
       \/ /\ x \notin cached /\ Len(stack) < MaxDepth
          /\ Enter("import", x, guarded)
          /\ UNCHANGED <<raising, used, log>>
       \/ BadPath(guarded) /\ UNCHANGED stack
    /\ UNCHANGED <<shape, env, phase>>

(* use() of a library that is in library_set: nothing is done.              *)
Reuse(l) ==
    /\ Calling /\ Free # {} /\ Counted
    /\ l \in loaded
    /\ log' = IF l \in log.ready \/ Running("pre", l)
                THEN log ELSE [log EXCEPT !.unready = @ \cup {l}]
    /\ UNCHANGED <<shape, stack, raising, used, env, phase>>

(* use() of another one: it is entered in library_set, and its _pre.lua is  *)
(* run if it can be.                                                        *)
Use(l, guarded) ==
    /\ Calling /\ Free # {} /\ Counted
    /\ l \notin loaded
    /\ loaded' = loaded \cup {l}
    /\ IF shape[l] = "no_pre" \/ Len(stack) >= MaxDepth
         THEN Error(guarded) /\ UNCHANGED stack
         ELSE Enter("pre", l, guarded) /\ UNCHANGED raising
    /\ UNCHANGED <<shape, used, cached, teardown, phase, log>>

(* The path given to use() cannot be resolved.                              *)
UseBadPath(guarded) ==
    /\ Calling /\ Free # {} /\ Counted
    /\ BadPath(guarded)
    /\ UNCHANGED <<shape, stack, env, phase>>

(* error(), anywhere in a script.                                           *)
Raise ==
    /\ phase = "running" /\ ~raising /\ stack # <<>>
    /\ raising' = TRUE
    /\ UNCHANGED <<shape, stack, used, env, phase, calls, log>>

-----------------------------------------------------------------------------
\* Mutant: the slots are not released when the script failed.
UnmarkUnlessFailed == used' = IF raising THEN used ELSE Top.mark

(* lua_pcall() has returned to the function that ran the innermost script,  *)
(* which releases the slots taken since its mark.                           *)
Unmark == used' = Top.mark

\* s_pool_unmark() panics if a slot of the mark has been released meanwhile.
MarkIntact == Top.mark \subseteq used

\* A run of module x ends, and it is not inside another run of x.
Outermost(x) == \A i \in 1..(Len(stack) - 1) : stack[i].kind = "import" => stack[i].of # x

\* Mutant: what a module returned is not kept.
ImportForgets ==
    /\ phase = "running" /\ stack # <<>> /\ Top.kind = "import"
    /\ Unmark
    /\ stack' = Front(stack)
    /\ IF raising
         THEN Error(Top.guarded) /\ UNCHANGED log
         ELSE /\ log' = IF Outermost(Top.of)
                          THEN [log EXCEPT !.ran[Top.of] = @ + 1] ELSE log
              /\ UNCHANGED raising
    /\ UNCHANGED <<shape, env, phase, calls>>

(* The rest of import(): a file that failed is not cached.                  *)
ImportDone ==
    /\ phase = "running" /\ stack # <<>> /\ Top.kind = "import"
    /\ Unmark
    /\ stack' = Front(stack)
    /\ IF raising
         THEN Error(Top.guarded) /\ UNCHANGED <<cached, log>>
         ELSE /\ cached' = cached \cup {Top.of}
              /\ log' = IF Outermost(Top.of)
                          THEN [log EXCEPT !.ran[Top.of] = @ + 1] ELSE log
              /\ UNCHANGED raising
    /\ UNCHANGED <<shape, loaded, teardown, phase, calls>>

\* The scripts that were being set up when library l became ready.
Users(l) == {f.of : f \in {g \in Live : g.kind = "pre"}} \ {l}

PreLog(l) == [log EXCEPT !.ready = @ \cup {l},
                         !.inside = @ \cup {<<user, l>> : user \in Users(l)}]

\* Mutant: the teardown script is queued behind those of earlier libraries.
PreDoneFifo ==
    /\ phase = "running" /\ stack # <<>> /\ Top.kind = "pre"
    /\ Unmark
    /\ stack' = Front(stack)
    /\ IF raising
         THEN Error(Top.guarded) /\ UNCHANGED <<teardown, log>>
         ELSE /\ log' = PreLog(Top.of)
              /\ teardown' = IF shape[Top.of] = "post" THEN <<Top.of>> \o teardown ELSE teardown
              /\ raising' = (shape[Top.of] = "bad_post" /\ ~Top.guarded)
    /\ UNCHANGED <<shape, cached, loaded, phase, calls>>

(* The rest of load_library(): _post.lua goes on the teardown stack if it   *)
(* exists; it is an error if it exists and is not a file.                   *)
PreDone ==
    /\ phase = "running" /\ stack # <<>> /\ Top.kind = "pre"
    /\ Unmark
    /\ stack' = Front(stack)
    /\ IF raising
         THEN Error(Top.guarded) /\ UNCHANGED <<teardown, log>>
         ELSE /\ log' = PreLog(Top.of)
              /\ teardown' = IF shape[Top.of] = "post"
                               THEN Append(teardown, Top.of) ELSE teardown
              /\ raising' = (shape[Top.of] = "bad_post" /\ ~Top.guarded)
    /\ UNCHANGED <<shape, cached, loaded, phase, calls>>

\* The next turn of the teardown loop of env_run().
NextTeardown ==
    IF teardown = <<>>
      THEN /\ phase' = "done"
           /\ stack' = <<>>
           /\ UNCHANGED <<teardown, log>>
      ELSE /\ stack' = <<[kind |-> "post", of |-> Last(teardown),
                          guarded |-> TRUE, mark |-> Top.mark]>>
           /\ teardown' = Front(teardown)
           /\ log' = [log EXCEPT !.posted = Append(@, Last(teardown))]
           /\ UNCHANGED phase

(* env_run(): the script or a teardown script is over, well or not.         *)
ScriptDone ==
    /\ phase = "running" /\ stack # <<>> /\ Top.kind \in {"main", "post"}
    /\ Unmark
    /\ raising' = FALSE
    /\ NextTeardown
    /\ UNCHANGED <<shape, cached, loaded, calls>>

Stopped == phase # "running" /\ UNCHANGED vars

Next ==
    \/ \E guarded \in BOOLEAN :
          \/ PathCall(guarded) \/ UseBadPath(guarded)
          \/ \E x \in Modules : Import(x, guarded)
          \/ \E l \in Libraries : Use(l, guarded)
    \/ \E l \in Libraries : Reuse(l)
    \/ Panic \/ Raise
    \/ ImportDone \/ PreDone \/ ScriptDone
    \/ Stopped

\* Whether scripts come to an end is up to them.
Spec == Init /\ [][Next]_vars

-----------------------------------------------------------------------------
TypeOK ==
    /\ shape \in [Libraries -> Shapes]
    /\ stack \in Seq(Frame) /\ Len(stack) <= MaxDepth
    /\ raising \in BOOLEAN
    /\ used \subseteq 0..(Slots - 1)
    /\ cached \subseteq Modules
    /\ loaded \subseteq Libraries
    /\ teardown \in Seq(Libraries)
    /\ phase \in Phases
    /\ calls \in 0..MaxCalls

Posts == {l \in log.ready : shape[l] = "post"}

(* Every library that was set up and has a _post.lua is either still on the *)
(* teardown stack or has been torn down, exactly once; so env_run() ends    *)
(* with all of them torn down, whatever failed.                             *)
TornDownOnce ==
    /\ IsInjective(teardown \o log.posted)
    /\ Posts = ToSet(teardown \o log.posted)
    /\ phase = "done" => Posts = ToSet(log.posted)

(* A library that was set up by the _pre.lua of another, however deep, is   *)
(* torn down after it.                                                      *)
UsersFirst ==
    \A x \in log.inside :
        LET user == x[1]  library == x[2] IN
        ({user, library} \subseteq Posts /\ Contains(log.posted, library)) =>
            \E i, j \in DOMAIN log.posted :
                i < j /\ log.posted[i] = user /\ log.posted[j] = library

(* Teardown is complete, and in the reverse order of the nested set-ups.    *)
TeardownOrder == TornDownOnce /\ UsersFirst

(* Nesting costs no slots: at any depth the slots in use were left behind   *)
(* by failed calls, those before a mark survive until it is restored (so    *)
(* s_pool_unmark() never panics), and env_run() leaves none.                *)
PoolBalanced ==
    /\ Cardinality(used) <= log.leaked
    /\ phase # "panic" /\ stack # <<>> => MarkIntact
    /\ \A i, j \in DOMAIN stack : i <= j => stack[i].mark \subseteq stack[j].mark
    /\ phase = "done" => used = {}
    /\ \A i \in DOMAIN stack : stack[i].kind \in {"main", "post"} => stack[i].mark = {}

(* However modules import each other and fail, a module is run again under  *)
(* one path only inside itself, or if no run of it has come to an end: once *)
(* its outermost run has, all who import it by that path share one value.   *)
ImportedOnce == \A x \in Modules : log.ran[x] <= 1

(* A use() that returns without doing anything found a library that is set  *)
(* up, or one whose _pre.lua is being run ("Check if this one has been      *)
(* loaded already").  Not so at this commit: a use() that failed and was    *)
(* caught leaves the library marked as loaded.                              *)
ReuseIsReady == log.unready = {}

(* The set-up of a library is attempted at most once, also if libraries use *)
(* each other: no _pre.lua is ever run inside itself.                       *)
SetUpOnce ==
    \A i, j \in DOMAIN stack :
        stack[i].kind = "pre" /\ stack[j].kind = "pre" /\ stack[i].of = stack[j].of => i = j

(* Modules and set-ups that scripts share by one path are run once.         *)
RunOnce == ImportedOnce /\ SetUpOnce

(* Nor are they run twice by different paths: the "cache is keyed on        *)
(* absolute path", and libraries "are cached based off of their final path" *)
(* (comments of luaenv.c).  Not so at this commit: the paths are not in     *)
(* canonical form.                                                          *)
RunOncePerFile ==
    /\ \A x, y \in Modules : Same(x, y) /\ log.ran[x] > 0 /\ log.ran[y] > 0 => x = y
    /\ \A l, m \in log.ready : Same(l, m) => l = m
=============================================================================
