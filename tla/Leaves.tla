------------------------------- MODULE Leaves -------------------------------
(***************************************************************************)
(* The parts of src/src/calculus that call no other modelled part: the      *)
(* recipe registry, the recipe reader, the cache of git libraries, the      *)
(* script environment and the diagram.  They share no state in this model,  *)
(* so they are checked side by side: `leaf' names the one that runs in a    *)
(* behaviour, the others rest in a state in which they have nothing to do.  *)
(***************************************************************************)
EXTENDS Registry

CONSTANTS
    N, MaxOpen, MaxBad,                 \* of RecipeReader, with MaxDeps
    Proc, Entry, MaxUses, MaxFaults,    \* of GitCache
    Modules, Libraries, Aliases, Slots, MaxDepth, MaxCalls,     \* of LuaEnv
    Nodes, MaxEdges                     \* of Mermaid

ASSUME LuaBounds == /\ Slots \in Nat /\ MaxDepth \in Nat \ {0}
                    /\ MaxCalls \in Nat
ASSUME ReaderBounds == N \in Nat \ {0} /\ MaxOpen \in Nat \ {0}
ASSUME CacheBounds == /\ Entry # {} /\ MaxUses \in Nat
                      /\ MaxFaults \in Nat
ASSUME DiagramBounds == Nodes \in Nat /\ MaxEdges \in Nat

VARIABLES
    leaf,
    needs, recipes, before, known, array, reading, wanted, result,
    dir, at, entry, uses, faults, taken,
    shape, frames, raising, used, cached, loaded, teardown, phase, calls, log,
    graph, asked, pass, begun, walk, visited, hex, lines, arrows

Reader == INSTANCE RecipeReader WITH
    file <- recipes, registered <- known, stack <- reading, outcome <- result
Cache == INSTANCE GitCache WITH pc <- at, handed <- taken
Env == INSTANCE LuaEnv WITH stack <- frames
Diagram == INSTANCE Mermaid WITH
    deps <- graph, wanted <- asked, next <- begun, stack <- walk,
    nodes <- lines, edges <- arrows

readerVars == <<needs, recipes, before, known, array, reading, wanted, result>>
cacheVars == <<dir, at, entry, uses, faults, taken>>
envVars == <<shape, frames, raising, used, cached, loaded, teardown, phase, calls, log>>
diagramVars == <<graph, asked, pass, begun, walk, visited, hex, lines, arrows>>
leafVars == <<leaf, vars, readerVars, cacheVars, envVars, diagramVars>>

\* A script that has been evaluated without a call.
RegistryRests ==
    /\ registered = <<>> /\ requested = <<>> /\ handed = {}
    /\ outcome = "evaluated"

\* A call of the reader that has returned.
ReaderRests ==
    /\ needs = [c \in 0..N |-> <<>>]
    /\ recipes = [h \in Reader!Recipe |->
                    [place |-> "cookbook", kind |-> "standard", holds |-> h]]
    /\ before = Reader!Recipe
    /\ known = Reader!Recipe
    /\ array = [h \in Reader!Recipe |-> "owned"]
    /\ reading = <<>>
    /\ wanted = 1
    /\ result = "found"

\* Invocations that have used all they want.
CacheRests ==
    /\ dir = [e \in Entry |-> "absent"]
    /\ at = [p \in Proc |-> "idle"]
    /\ entry = [p \in Proc |-> CHOOSE e \in Entry : TRUE]
    /\ uses = [p \in Proc |-> MaxUses]
    /\ faults = 0
    /\ taken = {}

\* A run of the script environment that is over.
EnvRests ==
    /\ shape = [l \in Libraries |-> "no_post"]
    /\ frames = <<>> /\ teardown = <<>>
    /\ raising = FALSE
    /\ used = {} /\ cached = {} /\ loaded = {}
    /\ phase = "done"
    /\ calls = 0
    /\ log = [ready |-> {}, posted |-> <<>>, inside |-> {},
              ran |-> [m \in Modules |-> 0],
              unready |-> {}, leaked |-> 0]

\* The diagram of nothing.
DiagramRests ==
    /\ graph = [n \in Diagram!Node |-> <<>>]
    /\ asked = <<>> /\ walk = <<>> /\ visited = <<>>
    /\ lines = <<>> /\ arrows = <<>>
    /\ pass = 3 /\ begun = 0 /\ hex = 0

LeavesInit ==
    \/ leaf = "registry" /\ Init /\ ReaderRests /\ CacheRests /\ EnvRests /\ DiagramRests
    \/ leaf = "recipes" /\ RegistryRests /\ Reader!Init /\ CacheRests /\ EnvRests /\ DiagramRests
    \/ leaf = "git" /\ RegistryRests /\ ReaderRests /\ Cache!Init /\ EnvRests /\ DiagramRests
    \/ leaf = "scripts" /\ RegistryRests /\ ReaderRests /\ CacheRests /\ Env!Init /\ DiagramRests
    \/ leaf = "diagram" /\ RegistryRests /\ ReaderRests /\ CacheRests /\ EnvRests /\ Diagram!Init

RegistryStep == /\ leaf = "registry" /\ Next
                /\ UNCHANGED <<leaf, readerVars, cacheVars, envVars, diagramVars>>
ReaderStep == /\ leaf = "recipes" /\ Reader!Next
              /\ UNCHANGED <<leaf, vars, cacheVars, envVars, diagramVars>>
CacheStep == /\ leaf = "git" /\ Cache!Next
             /\ UNCHANGED <<leaf, vars, readerVars, envVars, diagramVars>>
EnvStep == /\ leaf = "scripts" /\ Env!Next
           /\ UNCHANGED <<leaf, vars, readerVars, cacheVars, diagramVars>>
DiagramStep == /\ leaf = "diagram" /\ Diagram!Next
               /\ UNCHANGED <<leaf, vars, readerVars, cacheVars, envVars>>

LeavesNext == RegistryStep \/ ReaderStep \/ CacheStep \/ EnvStep \/ DiagramStep

LeavesSpec == LeavesInit /\ [][LeavesNext]_leafVars
                /\ Reader!Fairness /\ Cache!Fairness /\ Diagram!Fairness

-----------------------------------------------------------------------------
(* The properties of the instances, under names a configuration can     *)
(* use; they are stated and explained in their modules.                     *)

(* A registered recipe has all its dependencies registered (derivative.c).  *)
RegisteredClosed == Reader!RegisteredClosed

(* The reader gives up only on a missing, damaged or wrongly named file, or *)
(* for want of open files (derivative.c).                                   *)
GivesUpForAReason == Reader!GivesUpForAReason

(* A complete library stays as it is (luaenv.c).                            *)
CompleteForGood == Cache!CompleteForGood

(* Every library set up is torn down exactly once, users before what they   *)
(* use (luaenv.c).                                                          *)
TeardownOrder == Env!TeardownOrder

(* Nesting costs no slots of the string pool (luaenv.c, string.c).          *)
PoolBalanced == Env!PoolBalanced

(* Under one path, no module is run again after a run that was not inside   *)
(* another, and no set-up of a library is nested in itself (luaenv.c).      *)
RunOnce == Env!RunOnce

(* The diagram is the graph that the requests need (calculus_main.c).       *)
DiagramRight == Diagram!DiagramRight

(* Whatever is left over from earlier calls, every call returns: the reader *)
(* with its recursion, also over files that lead back to themselves         *)
(* (derivative.c), each use of the git cache (luaenv.c) and the two walks   *)
(* of the diagram (calculus_main.c).                                        *)
CallsEnd == []<>(~Reader!Reading /\ Cache!Ended /\ Diagram!Drawn)
=============================================================================
