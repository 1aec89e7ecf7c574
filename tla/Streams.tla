------------------------------- MODULE Streams -------------------------------
(***************************************************************************)
(* The streams of src/src/common/stream.c and stream_aux.c, used the way    *)
(* src/src/calculus/derivative.c uses them: a recipe is written, to a       *)
(* buffer in memory or to a file, and what is there in the end, which may   *)
(* have been cut off, is read back by derivative_read_recipe().             *)
(*                                                                          *)
(* One step is one call of sm_write() or sm_read().  Numbers and hashes     *)
(* have fewer bytes than in C; all dependencies are registered already      *)
(* (RecipeReader has the others).                                           *)
(***************************************************************************)
EXTENDS Texts

CONSTANTS
    NumberBytes,    \* bytes of a number: 4
    HashBytes,      \* bytes of a hash: 32
    Labels,         \* names, build scripts and URLs: sequences of bytes
    Hashes,         \* hashes, named by a byte
    MaxInputs,      \* bound: dependencies of a recipe
    FirstCapacity,  \* smallest buffer of sm_memwrite(): 64
    Buffers,        \* capacities of the buffers sm_memwrite() may be given
    MaxErrors       \* bound: failing calls

VARIABLES
    recipe,     \* what is written (constant)
    medium,     \* "memory" or "file"
    todo,       \* writes still to be made
    capacity,   \* capacity of the memory buffer
    content,    \* the bytes of the buffer or the file
    place,      \* what is read next, or what it has come to
    rest,       \* what is left of the content
    atEnd,      \* the status is STREAM_END
    got,        \* what has been read
    owned,      \* the texts the reader has allocated
    errors      \* failing calls so far

vars == <<recipe, medium, todo, capacity, content, place, rest, atEnd, got, owned, errors>>

CalcMagic == 67
TypeNumber == [standard |-> 0, fetch |-> 1]

Recipes ==
    [type : {"standard"}, name : Labels, deps : BoundedSeq(Hashes, MaxInputs), build : Labels]
      \cup [type : {"fetch"}, url : Labels, hash : Hashes, extract : BOOLEAN]

Media == {"memory", "file"}

\* What the i-th byte of a number counts, from 0.
PlaceValue[i \in Nat] == IF i = 0 THEN 1 ELSE 256 * PlaceValue[i - 1]

\* A number as it stands in memory: least byte first.
Number(n) == [i \in 1..NumberBytes |-> (n \div PlaceValue[i - 1]) % 256]

\* The number that stands in memory as these bytes.
ValueOf(bytes) == CHOOSE n \in 0..(PlaceValue[NumberBytes] - 1) : Number(n) = bytes

HashValue(h) == [i \in 1..HashBytes |-> h]

(* sm_wcstr(): the length, then the text without a null byte.               *)
TextWrites(t) == <<Number(Len(t)), t>>

(* write_standard_derivative() and write_fetch_derivative(), one write      *)
(* after the other.                                                         *)
Writes(r) ==
    <<Number(CalcMagic), Number(TypeNumber[r.type])>> \o
    IF r.type = "standard"
      THEN TextWrites(r.name) \o <<Number(Len(r.deps))>>
             \o [i \in DOMAIN r.deps |-> HashValue(r.deps[i])] \o TextWrites(r.build)
      ELSE TextWrites(r.url) \o <<HashValue(r.hash), <<IF r.extract THEN 255 ELSE 0>>>>

(* What that comes to: the fields one behind the other.                     *)
Encoding(r) ==
    Number(CalcMagic) \o Number(TypeNumber[r.type]) \o
    IF r.type = "standard"
      THEN Number(Len(r.name)) \o r.name \o Number(Len(r.deps))
             \o [i \in 1..(HashBytes * Len(r.deps)) |-> r.deps[1 + (i - 1) \div HashBytes]]
             \o Number(Len(r.build)) \o r.build
      ELSE Number(Len(r.url)) \o r.url \o HashValue(r.hash)
             \o <<IF r.extract THEN 255 ELSE 0>>

NothingRead == [name |-> <<>>, n |-> 0, deps |-> <<>>, length |-> 0, build |-> <<>>]
NothingOwned == [name |-> "none", build |-> "none"]

(* sm_memwrite() makes a buffer or takes the one it is given; sm_file().    *)
Init ==
    /\ recipe \in Recipes
    /\ todo = Writes(recipe)
    /\ \/ medium = "file" /\ capacity = 0
       \/ medium = "memory" /\ capacity \in Buffers \cup {BitCeil(FirstCapacity)}
    /\ content = <<>> /\ rest = <<>>
    /\ place = "writing"
    /\ atEnd = FALSE
    /\ got = NothingRead /\ owned = NothingOwned
    /\ errors = 0

Error == errors < MaxErrors /\ errors' = errors + 1
NoError == UNCHANGED errors

NotReading == UNCHANGED <<rest, atEnd, got, owned>>

\* The capacity after mw_write() of n bytes.
Grown(n) ==
    IF Len(content) + n > capacity THEN BitCeil(Len(content) + n) ELSE capacity

(* sm_write(), with mw_write() or file_write(); a failure (of realloc() or  *)
(* fwrite()) is the status of the stream, at which the writers panic.  At   *)
(* this commit derivative.c writes to memory only, to hash a recipe, and    *)
(* nothing calls sm_flush().                                                *)
Write ==
    /\ place = "writing" /\ todo # <<>>
    /\ \/ /\ content' = content \o Head(todo)
          /\ todo' = Tail(todo)
          /\ capacity' = IF medium = "memory" THEN Grown(Len(Head(todo))) ELSE 0
          /\ NoError /\ UNCHANGED place
       \/ /\ medium = "file" \/ Grown(Len(Head(todo))) # capacity
          /\ place' = "panic"
          /\ Error /\ UNCHANGED <<content, todo, capacity>>
    /\ NotReading
    /\ UNCHANGED <<recipe, medium>>

(* The recipe is hashed in memory, or the file is closed: sm_close() does   *)
(* not say whether the last bytes could be written.                         *)
Close ==
    /\ place = "writing" /\ todo = <<>>
    /\ place' = "written"
    /\ \/ NoError /\ UNCHANGED content
       \/ medium = "file" /\ Error
          /\ \E n \in 0..(Len(content) - 1) : content' = SubSeq(content, 1, n)
    /\ NotReading
    /\ UNCHANGED <<recipe, medium, todo, capacity>>

-----------------------------------------------------------------------------
\* Files that are no recipes of this kind.
Foreign == {Number(CalcMagic + 1), Number(CalcMagic) \o Number(7)}

(* A file is opened, which may be cut off or another one by now; a stream   *)
(* over memory (sm_memread()) is read the same way.                         *)
Open ==
    /\ place = "written"
    /\ medium' \in Media
    /\ content' \in {SubSeq(content, 1, n) : n \in 0..Len(content)} \cup Foreign
    /\ rest' = content'
    /\ place' = "magic"
    /\ capacity' = 0
    /\ UNCHANGED <<recipe, todo, atEnd, got, owned, errors>>

Steps == {"magic", "type", "name_length", "name", "count", "hash", "build_length", "build"}

\* The bytes the next call of sm_read() asks for.
Asked ==
    CASE place \in {"name", "build"} -> got.length
      [] place = "hash" -> HashBytes
      [] OTHER -> NumberBytes

\* Of those, what it gets.
Got == IF atEnd THEN 0 ELSE Min({Asked, Len(rest)})

(* file_read() finds the end only when it reads beyond it, mr_read() when   *)
(* it has read the last byte.                                               *)
EndsNow == IF medium = "file" THEN Got < Asked ELSE Got = Len(rest)

\* The texts when the reader gives up: each that is not null is freed, also
\* one that sm_rcstr() has freed, whose pointer is still there.
Freed(texts) ==
    [f \in DOMAIN texts |->
        CASE texts[f] = "held" -> "freed" [] texts[f] = "freed" -> "freed_twice" [] OTHER -> texts[f]]

GiveUp(texts) == place' = "null" /\ owned' = Freed(texts) /\ UNCHANGED got

Holds(state) == IF place \in {"name", "build"} THEN [owned EXCEPT ![place] = state] ELSE owned

Advance(next, new) ==
    place' = next /\ got' = new /\ owned' = Holds("held")

AfterHash(n) == IF Len(got.deps) + n < got.n THEN "hash" ELSE "build_length"

(* The reader with the bytes of a field; read_fetch_derivative() has no     *)
(* return statement, so that its result is any.                             *)
Take(bytes) ==
    CASE place = "magic" ->
           IF ValueOf(bytes) = CalcMagic THEN Advance("type", got) ELSE GiveUp(owned)
      [] place = "type" ->
           IF ValueOf(bytes) = TypeNumber.standard THEN Advance("name_length", got)
           ELSE IF ValueOf(bytes) = TypeNumber.fetch
             THEN place' \in {"found", "null"} /\ UNCHANGED <<got, owned>>
             ELSE GiveUp(owned)
      [] place = "name_length" -> Advance("name", [got EXCEPT !.length = ValueOf(bytes)])
      [] place = "name" -> Advance("count", [got EXCEPT !.name = bytes])
      [] place = "count" ->
           /\ got' = [got EXCEPT !.n = ValueOf(bytes)]
           /\ place' = IF ValueOf(bytes) > 0 THEN "hash" ELSE "build_length"
           /\ UNCHANGED owned
      [] place = "hash" ->
           Advance(AfterHash(1), [got EXCEPT !.deps = Append(@, bytes)])
      [] place = "build_length" -> Advance("build", [got EXCEPT !.length = ValueOf(bytes)])
      [] place = "build" ->
           /\ place' = "found"
           /\ got' = [got EXCEPT !.build = bytes]
           /\ owned' = Freed(Holds("held"))

\* Mutant: nobody looks at the flag that a text is truncated.
ShortTextTaken == Got < Asked /\ place \notin {"name", "build"}

\* The `truncated' flag of the sm_r functions.
Truncated == Got < Asked

(* One call of sm_read() by an sm_r function, and what checked_r makes of   *)
(* the result: an error, an unexpected end, or the next field.              *)
Read ==
    /\ place \in Steps
    /\ \/ /\ rest' = SubSeq(rest, Got + 1, Len(rest))
          /\ atEnd' = (atEnd \/ EndsNow)
          /\ IF Truncated THEN GiveUp(Holds("held")) ELSE Take(SubSeq(rest, 1, Got))
          /\ NoError
       \/ /\ medium = "file" /\ ~atEnd /\ Error
          /\ GiveUp(Holds("freed"))
          /\ UNCHANGED <<rest, atEnd>>
    /\ UNCHANGED <<recipe, medium, todo, capacity, content>>

Over == place \in {"panic", "found", "null"}

Next == Write \/ Close \/ Open \/ Read \/ (Over /\ UNCHANGED vars)

Fairness == WF_vars(Write \/ Close \/ Open \/ Read)

Spec == Init /\ [][Next]_vars /\ Fairness

-----------------------------------------------------------------------------
TypeOK ==
    /\ recipe \in Recipes /\ medium \in Media
    /\ capacity \in Nat /\ errors \in 0..MaxErrors
    /\ place \in Steps \cup {"writing", "written", "panic", "found", "null"}
    /\ IsSuffix(rest, content)
    /\ atEnd \in BOOLEAN

(* A recipe is written inside the buffer, whole unless a call failed, and   *)
(* no other recipe has the same bytes: so that its hash stands for it.      *)
WrittenIsRecipe ==
    /\ medium = "memory" /\ place \in {"writing", "written"} => Len(content) <= capacity
    /\ place = "written" /\ errors = 0 =>
          \A r \in Recipes : Encoding(r) = content <=> r = recipe

\* What has been read, as a recipe.
ReadRecipe ==
    [type |-> "standard", name |-> got.name, build |-> got.build,
     deps |-> [i \in DOMAIN got.deps |-> got.deps[i][1]]]

(* "The newly allocated or interned derivative read from the file, nullptr  *)
(* if it fails" (derivative.h:125): what is read is the recipe that was     *)
(* written, however the file was cut off, and a whole file is read.         *)
ReadBackOrNull ==
    place \in {"found", "null"} /\ recipe.type = "standard" =>
        /\ place = "found" => ReadRecipe = recipe
        /\ place = "null" => errors > 0 \/ content # Encoding(recipe)

(* Every text the reader has allocated is freed when it returns, once, as   *)
(* long as no call fails.                                                   *)
TextsFreed ==
    place \in {"found", "null"} /\ errors = 0 =>
        \A f \in DOMAIN owned : owned[f] \in {"none", "freed"}

(* A recipe survives being written and read back.                           *)
RecipeSurvives == WrittenIsRecipe /\ ReadBackOrNull /\ TextsFreed

(* No text is freed twice.  Not so at this commit: sm_rcstr() frees the     *)
(* text it could not read, and its caller frees it again.                   *)
FreedOnce == \A f \in DOMAIN owned : owned[f] # "freed_twice"
=============================================================================
