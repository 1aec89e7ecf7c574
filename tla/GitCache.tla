------------------------------ MODULE GitCache ------------------------------
(***************************************************************************)
(* The cache of git libraries: git_commit() and git_tag() of                *)
(* src/src/calculus/luaenv.c, with git_setup_directory() and the fetches of *)
(* src/src/calculus/gittools.c, in any number of invocations at once.       *)
(*                                                                          *)
(* A cache entry is a directory named by the digest of the remote and the   *)
(* commit or tag.  Every process resolves entries one after another; each   *)
(* call of libgit2 or the system may fail.                                  *)
(***************************************************************************)
EXTENDS Naturals, FiniteSets

CONSTANTS
    Proc,       \* processes of the program
    Entry,      \* remotes with a commit or tag
    MaxUses,    \* bound: resolutions by one process
    MaxFaults   \* bound: failing calls

VARIABLES
    dir,        \* the directory of each entry
    pc, entry,  \* per process: where it is, and the entry it resolves
    uses,       \* per process: resolutions so far
    faults,     \* failures so far
    handed      \* history: the entries that were returned, with their state

vars == <<dir, pc, entry, uses, faults, handed>>

\* What git has done in a directory: created, initialised, fetched into,
\* checked out.
DirStates == {"absent", "empty", "init", "fetched", "complete"}

NextState == [empty |-> "init", init |-> "fetched", fetched |-> "complete"]

Goto(p, label) == pc' = [pc EXCEPT ![p] = label]
Fault == faults < MaxFaults /\ faults' = faults + 1

Init ==
    /\ dir = [e \in Entry |-> "absent"]
    /\ pc = [p \in Proc |-> "idle"]
    /\ entry \in [Proc -> Entry]
    /\ uses = [p \in Proc |-> 0]
    /\ faults = 0
    /\ handed = {}

(* get_gitpath() yields the path of the entry.                              *)
Resolve(p, e) ==
    /\ pc[p] = "idle"
    /\ uses[p] < MaxUses
    /\ uses' = [uses EXCEPT ![p] = @ + 1]
    /\ entry' = [entry EXCEPT ![p] = e]
    /\ Goto(p, "exists")
    /\ UNCHANGED <<dir, faults, handed>>

\* The path is returned to use().
Return(p) ==
    /\ Goto(p, "idle")
    /\ handed' = handed \cup {<<entry[p], dir[entry[p]]>>}

(* exists_dir(): a directory that is there is taken as it is.               *)
ExistsDir(p) ==
    /\ pc[p] = "exists"
    /\ IF dir[entry[p]] # "absent"
         THEN Return(p)
         ELSE Goto(p, "mkdir") /\ UNCHANGED handed
    /\ UNCHANGED <<dir, entry, uses, faults>>

\* Mutant: the directory is made anew, whoever has made it meanwhile.
MakeFresh(p) ==
    /\ pc[p] = "mkdir"
    /\ dir' = [dir EXCEPT ![entry[p]] = "empty"]
    /\ Goto(p, "fetch")
    /\ UNCHANGED <<entry, uses, faults, handed>>

(* mkdir(): an error of the script if somebody else was faster.             *)
Make(p) ==
    /\ pc[p] = "mkdir"
    /\ \/ /\ dir[entry[p]] = "absent"
          /\ dir' = [dir EXCEPT ![entry[p]] = "empty"]
          /\ Goto(p, "fetch")
          /\ UNCHANGED faults
       \/ /\ dir[entry[p]] # "absent"
          /\ Goto(p, "idle")
          /\ UNCHANGED <<dir, faults>>
       \/ Goto(p, "idle") /\ Fault /\ UNCHANGED dir
    /\ UNCHANGED <<entry, uses, handed>>

\* Mutant: the fetch starts over instead of going on.
FetchAgain(p) ==
    /\ pc[p] = "fetch"
    /\ dir' = [dir EXCEPT ![entry[p]] = "init"]
    /\ UNCHANGED <<pc, entry, uses, faults, handed>>

(* One step of fetch_sha() or fetch_tag(): initialise, fetch, check out.    *)
Fetch(p) ==
    LET e == entry[p] IN
    /\ pc[p] = "fetch"
    /\ \/ /\ dir[e] # "complete"
          /\ dir' = [dir EXCEPT ![e] = NextState[@]]
          /\ UNCHANGED <<pc, faults, handed>>
       \/ dir[e] = "complete" /\ Return(p) /\ UNCHANGED <<dir, faults>>
       \/ dir[e] # "complete" /\ Goto(p, "failed") /\ Fault /\ UNCHANGED <<dir, handed>>
    /\ UNCHANGED <<entry, uses>>

(* The error path frees the path before it hands it to fs_rmdir(): s_free() *)
(* has emptied the string, so whatever the freed memory holds by then, the  *)
(* path of the directory it is not, and the directory stays.                *)
Cleanup(p) ==
    /\ pc[p] = "failed"
    /\ Goto(p, "idle")
    /\ UNCHANGED <<dir, entry, uses, faults, handed>>

Work(p) ==
    \/ \E e \in Entry : Resolve(p, e)
    \/ ExistsDir(p) \/ Make(p) \/ Fetch(p) \/ Cleanup(p)

Ended == \A p \in Proc : pc[p] = "idle" /\ uses[p] = MaxUses

Next == (\E p \in Proc : Work(p)) \/ (Ended /\ UNCHANGED vars)

\* Every invocation is sequential code, and the calls of libgit2 return.
Fairness == \A p \in Proc : WF_vars(Work(p))

Spec == Init /\ [][Next]_vars /\ Fairness

-----------------------------------------------------------------------------
TypeOK ==
    /\ dir \in [Entry -> DirStates]
    /\ pc \in [Proc -> {"idle", "exists", "mkdir", "fetch", "failed"}]
    /\ entry \in [Proc -> Entry]
    /\ uses \in [Proc -> 0..MaxUses]
    /\ faults \in 0..MaxFaults
    /\ handed \subseteq Entry \X (DirStates \ {"absent"})

(* A cache directory once handed out does not change or vanish while        *)
(* scripts read it, unless it was handed out unfinished.                    *)
CompleteForGood ==
    [][\A e \in Entry : dir[e] = "complete" => dir'[e] = "complete"]_vars

(* What use() gets from the cache is a checked-out tree ("Resolve a git     *)
(* directory, cloning and caching it").  Not so at this commit: one failed  *)
(* fetch and a second use() are enough, since Cleanup removes nothing.      *)
HandedComplete == \A x \in handed : x[2] = "complete"
=============================================================================
