------------------------------- MODULE Common -------------------------------
(***************************************************************************)
(* The library of src/src/common: hashing, directory archives, streams,     *)
(* strings and paths.  They share no state in this model (each of them has  *)
(* buffers of its own), so they are checked side by side: `part' names the  *)
(* one that runs in a behaviour, the others rest in a state in which they   *)
(* have nothing to do.                                                      *)
(***************************************************************************)
EXTENDS Sha256, FiniteSets

CONSTANTS
    EntryPaths, Contents, Buffer, MaxName, MaxFails,    \* of CarArchive
    NumberBytes, HashBytes, Labels, Hashes, MaxInputs,
    FirstCapacity, Buffers, MaxErrors,                  \* of Streams
    Chars, PoolSlots, MaxHeld, MaxLen,                  \* of Strings
    Letters, StackSize, Cwds, MaxPath, MaxPart          \* of Paths

\* A directory is finite; names and contents are bytes.
ASSUME ArchiveBounds ==
    /\ IsFiniteSet(EntryPaths) /\ EntryPaths \subseteq Seq(Nat)
    /\ Contents \subseteq Seq(Nat)

\* Characters are bytes other than the null byte.
ASSUME StringBounds ==
    /\ Chars \subseteq Nat \ {0}
    /\ PoolSlots \in Nat /\ MaxHeld \in Nat /\ MaxLen \in Nat

VARIABLES
    part,
    tree, ro, op, todo, hashed, archive, codes, lost, ex, out, fails,
    recipe, medium, writes, capacity, content, place, rest, atEnd, got, owned, errors,
    str, live, value, end,
    path, cwd, given, si, bytes, size

Car == INSTANCE CarArchive WITH Paths <- EntryPaths
Recipes == INSTANCE Streams WITH todo <- writes
Dynamic == INSTANCE Strings
Pathnames == INSTANCE Paths

\* Labels are bytes; their lengths, and the number of dependencies, fit into the
\* numbers they are written as.
ASSUME StreamBounds ==
    /\ NumberBytes \in Nat \ {0} /\ HashBytes \in Nat \ {0}
    /\ Labels \subseteq Seq(Nat) /\ Hashes \subseteq Nat
    /\ MaxInputs \in Nat /\ MaxErrors \in Nat
    /\ FirstCapacity \in Nat /\ Buffers \subseteq Nat
    /\ MaxInputs < Recipes!PlaceValue[NumberBytes]
    /\ \A t \in Labels : Len(t) < Recipes!PlaceValue[NumberBytes]

\* Letters are what is neither a dot nor a slash nor a null byte; getcwd()
\* returns an absolute path.
ASSUME PathBounds ==
    /\ Letters \subseteq Nat \ {0, Pathnames!Dot, Pathnames!Slash}
    /\ StackSize \in Nat /\ MaxPath \in Nat /\ MaxPart \in Nat
    /\ \A c \in Cwds : /\ c \in Seq(Letters \cup {Pathnames!Slash, Pathnames!Dot})
                       /\ c # <<>> /\ c[1] = Pathnames!Slash

carVars == <<tree, ro, op, todo, hashed, archive, codes, lost, ex, out, fails>>
streamVars == <<recipe, medium, writes, capacity, content, place, rest, atEnd, got, owned, errors>>
stringVars == <<str, live, value, end>>
pathVars == <<path, cwd, given, si, bytes, size>>
commonVars == <<part, vars, carVars, streamVars, stringVars, pathVars>>

\* An empty directory that was archived and extracted.
CarRests ==
    /\ tree = <<>> /\ out = <<>> /\ todo = <<>>
    /\ ro = FALSE /\ lost = FALSE
    /\ op = "returned"
    /\ hashed = <<Car!Magic, Car!Nul>> /\ archive = hashed
    /\ codes = [hash |-> "ok", write |-> "ok", extract |-> "ok"]
    /\ ex = Car!Start
    /\ fails = 0

\* A recipe that could not be written.
StreamRests ==
    /\ recipe = [type |-> "standard", name |-> <<>>, deps |-> <<>>, build |-> <<>>]
    /\ medium = "file" /\ place = "panic"
    /\ writes = <<>> /\ content = <<>> /\ rest = <<>>
    /\ capacity = 0 /\ errors = 0
    /\ atEnd = FALSE
    /\ got = Recipes!NothingRead /\ owned = Recipes!NothingOwned

\* No call has been made yet.
StringRests == Dynamic!Init

PathRests ==
    /\ path = <<>> /\ cwd = <<Pathnames!Slash>>
    /\ given = [op |-> "none", path |-> <<>>, part |-> <<>>]
    /\ si = 0 /\ bytes = <<>> /\ size = 0

CommonInit ==
    \/ part = "hashing" /\ Init /\ CarRests /\ StreamRests /\ StringRests /\ PathRests
    \/ part = "archives" /\ Init /\ Car!Init /\ StreamRests /\ StringRests /\ PathRests
    \/ part = "streams" /\ Init /\ CarRests /\ Recipes!Init /\ StringRests /\ PathRests
    \/ part = "strings" /\ Init /\ CarRests /\ StreamRests /\ Dynamic!Init /\ PathRests
    \/ part = "paths" /\ Init /\ CarRests /\ StreamRests /\ StringRests /\ Pathnames!Init

HashingStep == /\ part = "hashing" /\ Next
               /\ UNCHANGED <<part, carVars, streamVars, stringVars, pathVars>>
CarStep == /\ part = "archives" /\ Car!Next
           /\ UNCHANGED <<part, vars, streamVars, stringVars, pathVars>>
StreamStep == /\ part = "streams" /\ Recipes!Next
              /\ UNCHANGED <<part, vars, carVars, stringVars, pathVars>>
StringStep == /\ part = "strings" /\ Dynamic!Next
              /\ UNCHANGED <<part, vars, carVars, streamVars, pathVars>>
PathStep == /\ part = "paths" /\ Pathnames!Next
            /\ UNCHANGED <<part, vars, carVars, streamVars, stringVars>>

CommonNext == HashingStep \/ CarStep \/ StreamStep \/ StringStep \/ PathStep

CommonSpec == CommonInit /\ [][CommonNext]_commonVars
                /\ Fairness /\ Car!Fairness /\ Recipes!Fairness /\ Pathnames!Fairness

\* Where the archived directories have entries, what their files contain;
\* names and build scripts; the root, and directories with equal names.
SomePaths == {<<97>>, <<98>>, <<97, 97>>}
SomeContents == {<<>>, <<0, 98>>}
SomeLabels == {<<>>, <<1>>, <<1, 2>>}
SomeCwds == {<<47>>, <<47, 97>>, <<47, 97, 97, 47, 97>>}

-----------------------------------------------------------------------------
(* The properties of the instances, under names a configuration can     *)
(* use; they are stated and explained in their modules.                     *)

(* The hash of a directory is that of its archive (archive.c).              *)
HashIsOfArchive == Car!HashIsOfArchive

(* An archive read in one go restores its directory (archive.c).            *)
OneBufferRestores == Car!OneBufferRestores

(* A recipe survives being written and read back (stream.c, stream_aux.c,   *)
(* derivative.c).                                                           *)
RecipeSurvives == Recipes!RecipeSurvives

(* Strings are what they should be, terminated and inside their buffers     *)
(* (string.c).                                                              *)
StringsSound == Dynamic!StringsSound

(* All operations on paths keep what a path means (path.c).                 *)
PathMeans == Pathnames!PathMeans

(* Every call returns: the two append functions and sha256_finalize()       *)
(* (crypto.c), the walks and the extraction of an archive, whatever bytes   *)
(* it takes for what (archive.c), writing and reading a recipe (stream.c),  *)
(* and p_norm() (path.c).                                                   *)
CommonCallsEnd ==
    []<>(NoCall /\ Car!AllReturned /\ Recipes!Over /\ Pathnames!Idle)
=============================================================================
