---------------------------- MODULE RecipeReader ----------------------------
(***************************************************************************)
(* derivative_read_recipe() of src/src/calculus/derivative.c: reading a     *)
(* recipe file, and the recipes it depends on, into the registry.  Nothing  *)
(* in the program calls it yet.                                             *)
(*                                                                          *)
(* Recipes are numbered so that dependencies have smaller numbers: what a   *)
(* recipe is known by is the hash of its content, and no content holds its  *)
(* own hash.  Files are another matter: the file of recipe h is found by    *)
(* its name, and nothing checks that what it holds is recipe h, so reading  *)
(* may come back to a file that is being read.  Every call keeps its file   *)
(* open meanwhile.                                                          *)
(*                                                                          *)
(* The C recursion is a stack of frames; a frame's array of dependencies    *)
(* holds 0 where calloc() left a null pointer.                              *)
(***************************************************************************)
EXTENDS Naturals, FiniteSets, Sequences, SequencesExt

CONSTANTS
    N,          \* number of recipes
    MaxDeps,    \* bound: dependencies of a recipe
    MaxOpen,    \* files that the process can have open
    MaxBad      \* bound: files that are not what they should be

VARIABLES
    needs,      \* the dependencies of each recipe (constant)
    file,       \* the recipe files by their names (constant)
    before,     \* what was registered before the call (constant)
    registered, \* the keys of registered_derivatives
    array,      \* what became of the dependency array of each derivative
    stack,      \* active calls of read_standard_derivative()
    wanted,     \* the recipe whose file is to be read
    outcome     \* what derivative_read_recipe() has come to

constantVars == <<needs, file, before, wanted>>
vars == <<constantVars, registered, array, stack, outcome>>

Recipe == 1..N

\* Of a file that is missing or no standard recipe, no dependencies are read:
\* it holds 0, which needs none.
File == [place : {"local", "cookbook"}, kind : {"standard", "cut_off"}, holds : Recipe]
        \cup [place : {"local", "cookbook"}, kind : {"not_a_recipe", "fetch"}, holds : {0}]
        \cup [place : {"none"}, kind : {"not_a_recipe"}, holds : {0}]

Graph == [0..N -> BoundedSeq(Recipe, MaxDeps)]

Acyclic(g) == \A c \in 0..N : \A k \in DOMAIN g[c] : g[c][k] < c

\* The files that are not the recipe they are named after.
Bad(f) == {h \in Recipe : f[h].kind # "standard" \/ f[h].holds # h}

DepSet(c) == ToSet(needs[c])

Arrays == {"none", "owned", "freed", "freed_twice"}

Top == Last(stack)

Frame == [of : Recipe, deps : Seq(0..N)]

Outcomes == {"reading", "found", "null", "null_pointer"}

Init ==
    /\ needs \in {g \in Graph : Acyclic(g)}
    /\ file \in {f \in [Recipe -> File] : Cardinality(Bad(f)) <= MaxBad}
    /\ before \in {R \in SUBSET Recipe : \A c \in R : DepSet(c) \subseteq R}
    /\ registered = before
    /\ array = [c \in Recipe |-> IF c \in registered THEN "owned" ELSE "none"]
    /\ stack = <<>>
    /\ wanted \in {h \in Recipe : file[h].place # "none"}
    /\ outcome = "reading"

Reading == outcome = "reading"

\* What the innermost frame reads, and the next dependency it looks up.
Content == file[Top.of].holds
NextDep == needs[Content][Len(Top.deps) + 1]
MoreDeps == stack # <<>> /\ Len(Top.deps) < Len(needs[Content])

(* `goto err': everything unwinds, since every caller gives up on a null    *)
(* pointer; the arrays of the frames are freed and nothing was made of them.*)
GiveUp == stack' = <<>> /\ outcome' = "null"

\* A value other than a null pointer is returned to the innermost frame,
\* which goes on with the next dependency; it does not store the value.
ReturnTo(frames) ==
    IF frames = <<>>
      THEN stack' = <<>> /\ outcome' = "found"
      ELSE /\ stack' = Append(Front(frames), [Last(frames) EXCEPT !.deps = Append(@, 0)])
           /\ UNCHANGED outcome

(* The recipe file that is to be read next: the outermost one, or that of a *)
(* dependency that is not registered.  A dependency is looked for in the    *)
(* folder of the recipe that names it, then in the cookbook.                *)
Pending ==
    IF stack = <<>> THEN {wanted}
    ELSE IF MoreDeps /\ NextDep \notin registered THEN {NextDep} ELSE {}

\* Mutant: the cookbook is not looked into from another folder.
FindableHere(h) ==
    stack = <<>> \/ (file[h].place # "none" /\ file[h].place = file[Top.of].place)

Findable(h) ==
    \/ stack = <<>>
    \/ file[h].place = "cookbook"
    \/ file[h].place = "local" /\ file[Top.of].place = "local"

\* fopen() works: the file is there, and each frame has one open.
Openable(h) == Findable(h) /\ Len(stack) < MaxOpen

(* fopen(), the magic number and the type; read_fetch_derivative() has no   *)
(* return statement, so its result is any pointer, null or not.             *)
Open(h) ==
    /\ Reading
    /\ h \in Pending
    /\ CASE ~Openable(h) \/ file[h].kind = "not_a_recipe" -> GiveUp
         [] Openable(h) /\ file[h].kind = "fetch" -> GiveUp \/ ReturnTo(stack)
         [] OTHER -> stack' = Append(stack, [of |-> h, deps |-> <<>>])
                     /\ UNCHANGED outcome
    /\ UNCHANGED <<constantVars, registered, array>>

(* The file ends before the recipe does.                                    *)
CutOff ==
    /\ Reading
    /\ stack # <<>> /\ file[Top.of].kind = "cut_off"
    /\ GiveUp
    /\ UNCHANGED <<constantVars, registered, array>>

(* A dependency that is registered already.                                 *)
UseRegistered ==
    /\ Reading
    /\ MoreDeps /\ NextDep \in registered
    /\ stack' = Append(Front(stack), [Top EXCEPT !.deps = Append(@, NextDep)])
    /\ UNCHANGED <<constantVars, registered, array, outcome>>

\* Mutant: null pointers are left out instead of being serialised.
CreateAnyway ==
    /\ Reading
    /\ stack # <<>> /\ ~MoreDeps
    /\ registered' = registered \cup {Content}
    /\ array' = [array EXCEPT ![Content] = "freed"]
    /\ ReturnTo(Front(stack))
    /\ UNCHANGED constantVars

(* The build script, then create_standard_derivative(): it serialises the   *)
(* hash behind every pointer, and registers the recipe by what it holds; it *)
(* takes the array over, or frees it if the recipe is registered.  The      *)
(* reader frees the array after that.                                       *)
Create ==
    /\ Reading
    /\ stack # <<>> /\ ~MoreDeps /\ file[Top.of].kind = "standard"
    /\ \/ /\ Contains(Top.deps, 0)
          /\ outcome' = "null_pointer"
          /\ UNCHANGED <<stack, registered, array>>
       \/ /\ ~Contains(Top.deps, 0)
          /\ registered' = registered \cup {Content}
          /\ array' = [array EXCEPT ![Content] =
                          IF Content \in registered THEN "freed_twice" ELSE "freed"]
          /\ ReturnTo(Front(stack))
    /\ UNCHANGED constantVars

Returned == ~Reading /\ UNCHANGED vars

Next == (\E h \in Recipe : Open(h)) \/ CutOff \/ UseRegistered \/ Create \/ Returned

\* The reader is sequential code.
Fairness == WF_vars(Next)

Spec == Init /\ [][Next]_vars /\ Fairness

-----------------------------------------------------------------------------
TypeOK ==
    /\ needs \in Graph /\ Acyclic(needs)
    /\ file \in [Recipe -> File]
    /\ before \subseteq registered /\ registered \subseteq Recipe
    /\ array \in [Recipe -> Arrays]
    /\ stack \in Seq(Frame) /\ Len(stack) <= MaxOpen
    /\ \A k \in DOMAIN stack : Len(stack[k].deps) <= Len(needs[file[stack[k].of].holds])
    /\ wanted \in Recipe
    /\ outcome \in Outcomes

(* Whatever is read in whatever order and wherever it breaks off, and       *)
(* whatever the files hold, a recipe in the registry has all its            *)
(* dependencies there.                                                      *)
RegisteredClosed == \A c \in registered : DepSet(c) \subseteq registered

\* Good(S): the files S can be read, are what they are named after, and need
\* only each other and what was registered before.
Good(S) ==
    \A h \in S : /\ h = wanted \/ file[h].place = "cookbook" \/ file[wanted].place = "local"
                 /\ file[h].place # "none"
                 /\ file[h].kind = "standard" /\ file[h].holds = h
                 /\ \A d \in DepSet(h) : d \in S \/ d \in before

(* The reader gives up only on a file that is missing, damaged or named     *)
(* after another recipe, or when too many files are open: if every recipe   *)
(* it needs is in the folder or in the cookbook, it does not.               *)
GivesUpForAReason ==
    outcome = "null" =>
        ~ \E S \in SUBSET Recipe :
            /\ wanted \in S /\ Good(S) /\ Cardinality(S) <= MaxOpen
            /\ \A h \in S : file[h].place = "cookbook" =>
                  \A d \in DepSet(h) \ before : file[d].place = "cookbook"

(* "Now we validate the hash is in the filename" (comment of derivative.c): *)
(* reading a recipe ends with that recipe in the registry.  Not so at this  *)
(* commit: the comment stands where the check should be.                    *)
ReadsWhatIsNamed ==
    outcome = "found" /\ file[wanted].kind = "standard" => wanted \in registered

(* "The newly allocated or interned derivative read from the file, nullptr  *)
(* if it fails" (derivative.h:125): reading always comes to one of the two. *)
(* Not so at this commit: one dependency that is read from a file is enough.*)
PointerOrNull == outcome # "null_pointer"

(* The dependency array of a registered derivative is the registry's: "will *)
(* get free()'d by this function or ownership taken over" (derivative.h:54).*)
(* Not so at this commit: every recipe with dependencies that is read is a  *)
(* counterexample.                                                          *)
ArraysOwned == \A c \in registered : DepSet(c) # {} => array[c] = "owned"
=============================================================================
