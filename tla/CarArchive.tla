----------------------------- MODULE CarArchive -----------------------------
(***************************************************************************)
(* The archive format of src/src/common/archive.c: a directory is hashed by *)
(* car_hash(), written by car_archive() or car_archive_ro(), and what was   *)
(* written is read back by car_extract().                                   *)
(*                                                                          *)
(* A path is the sequence of its components, one byte each; "./" and "/"    *)
(* are left out.  The header "CAR" is one byte and the length field of a    *)
(* file two.  Of the permissions only the write bit is kept; who extracts   *)
(* may write to the directories it makes.                                   *)
(***************************************************************************)
EXTENDS Naturals, Sequences, FiniteSets, SequencesExt

CONSTANTS
    Paths,      \* where entries may be
    Contents,   \* what files may contain: sequences of bytes
    Buffer,     \* buffer of car_extract(): 4096
    MaxName,    \* longest name: PATH_MAX without the root
    MaxFails    \* bound: failing calls

VARIABLES
    tree,       \* the directory
    ro,         \* car_archive_ro() rather than car_archive()
    op,         \* the function that runs
    todo,       \* entries iterate() has still to call back for
    hashed,     \* what car_hash() has given to sha256_append()
    archive,    \* what was written to the archive
    codes,      \* results of the three functions
    lost,       \* history: an unchecked write has failed or was incomplete
    ex,          \* the static variables of car_extract()
    out,        \* the directory extracted into
    fails       \* failing calls so far

vars == <<tree, ro, op, todo, hashed, archive, codes, lost, ex, out, fails>>
walk == <<todo, hashed, archive, lost>>

Nul == 0
Magic == 67
SizeBytes == 2

ArchiveEntry == [kind : {"file"}, data : Contents, w : BOOLEAN]
                  \cup [kind : {"link", "other"}, data : {<<97>>}, w : {TRUE}]
                  \cup [kind : {"dir"}, data : {<<>>}, w : {TRUE}]

\* Every entry is in a directory of the tree.
IsTree(t) == \A p \in DOMAIN t :
                Len(p) > 1 => Front(p) \in DOMAIN t /\ t[Front(p)].kind = "dir"

Trees == {t \in UNION {[S -> ArchiveEntry] : S \in SUBSET Paths} : IsTree(t)}

Fault == fails < MaxFails /\ fails' = fails + 1
NoFault == UNCHANGED fails

\* The attribute byte: ATTR_LINK, ATTR_DIR, ATTR_FILE, then r and w.
Attr(e, readonly) ==
    CASE e.kind = "link" -> 128
      [] e.kind = "dir" -> 64 + 4 + (IF e.w /\ ~readonly THEN 2 ELSE 0)
      [] OTHER -> 32 + 4 + (IF e.w /\ ~readonly THEN 2 ELSE 0)

KindOf(byte) ==
    CASE (byte \div 64) % 2 = 1 -> "dir"
      [] (byte \div 64) % 2 = 0 /\ (byte \div 128) % 2 = 1 -> "link"
      [] (byte \div 64) % 4 = 0 /\ (byte \div 32) % 2 = 1 -> "file"
      [] OTHER -> "invalid"

Lead(p, e, readonly) == p \o <<Nul, Attr(e, readonly)>>

\* What follows name and attribute: a link's target, a file's length and data.
Body(e) ==
    CASE e.kind = "link" -> e.data \o <<Nul>>
      [] e.kind = "file" -> <<Len(e.data) % 256, Len(e.data) \div 256>> \o e.data
      [] OTHER -> <<>>

Entries(p) == {q \in DOMAIN tree : Len(q) = Len(p) + 1 /\ Front(q) = p}

\* scandir() of a directory, in the order of strcmp(): as many entries come
\* before one as are less.
Listing(p) ==
    [i \in 1..Cardinality(Entries(p)) |->
        CHOOSE q \in Entries(p) :
            Cardinality({r \in Entries(p) : Last(r) < Last(q)}) = i - 1]

-----------------------------------------------------------------------------
Start == [rest |-> <<>>, eof |-> FALSE, buffer |-> [i \in 1..Buffer |-> 0],
          after |-> 0, pos |-> 1, n |-> 0, state |-> "header", at |-> "read",
          name |-> <<>>, left |-> 0, got |-> 0, link |-> 0]

\* `after' is what stands in memory after the buffer.
Init ==
    /\ tree \in Trees
    /\ ro \in BOOLEAN
    /\ op = "hash" /\ todo = Listing(<<>>)
    /\ hashed = <<Magic>> /\ archive = <<Magic>>
    /\ codes = [hash |-> "none", write |-> "none", extract |-> "none"]
    /\ lost = FALSE
    /\ \E b \in {0, 97} : ex = [Start EXCEPT !.after = b]
    /\ out = <<>>
    /\ fails = 0

\* The result of the function that runs, and the next one.
Return(f, code, next) == op' = next /\ codes' = [codes EXCEPT ![f] = code]

\* The rest of the walk: the contents of a directory come right after it.
Visit(p) == (IF tree[p].kind = "dir" THEN Listing(p) ELSE <<>>) \o Tail(todo)

\* Mutant: an entry that can not be read is left out.
HashEntrySkips ==
    /\ op = "hash" /\ todo # <<>>
    /\ LET p == Head(todo)  e == tree[p] IN
       \/ /\ hashed' = IF e.kind = "other" THEN hashed
                       ELSE hashed \o Lead(p, e, FALSE) \o Body(e)
          /\ todo' = Visit(p)
          /\ NoFault
       \/ Fault /\ todo' = Tail(todo) /\ UNCHANGED hashed
    /\ UNCHANGED <<tree, ro, op, codes, archive, lost, ex, out>>

(* hash_single(); a failing call ends the walk, and sha256_appendf() panics *)
(* if a file can not be read.                                               *)
HashEntry ==
    /\ op = "hash" /\ todo # <<>>
    /\ LET p == Head(todo)  e == tree[p] IN
       \/ /\ hashed' = IF e.kind = "other" THEN hashed
                       ELSE hashed \o Lead(p, e, FALSE) \o Body(e)
          /\ todo' = Visit(p)
          /\ NoFault /\ UNCHANGED <<op, codes>>
       \/ Fault /\ Return("hash", "fail", "write") /\ todo' = Listing(<<>>)
                /\ UNCHANGED hashed
       \/ e.kind = "file" /\ Fault /\ Return("hash", "panic", "returned")
                           /\ UNCHANGED <<todo, hashed>>
    /\ UNCHANGED <<tree, ro, archive, lost, ex, out>>

HashDone ==
    /\ op = "hash" /\ todo = <<>>
    /\ hashed' = Append(hashed, Nul)
    /\ Return("hash", "ok", "write")
    /\ todo' = Listing(<<>>)
    /\ UNCHANGED <<tree, ro, archive, lost, ex, out, fails>>

\* car_extract() is called with what there is of the archive.
Extract(code, bytes) ==
    /\ Return("write", code, "extract")
    /\ archive' = bytes
    /\ ex' = [ex EXCEPT !.rest = bytes]

(* archive_single() and archive_single_ro().  fwrite() of name and          *)
(* attribute is not checked.  For a link the number of bytes of its target  *)
(* is returned, which ends the walk as an error does.                       *)
WriteEntry ==
    /\ op = "write" /\ todo # <<>>
    /\ LET p == Head(todo)  e == tree[p]  head == Lead(p, e, ro) IN
       \/ /\ e.kind = "other"
          /\ todo' = Visit(p)
          /\ NoFault /\ UNCHANGED <<op, codes, archive, lost, ex>>
       \/ /\ e.kind \in {"dir", "file"}
          /\ todo' = Visit(p)
          /\ \/ NoFault /\ UNCHANGED lost /\ archive' = archive \o head \o Body(e)
             \/ Fault /\ lost' = TRUE /\ archive' = archive \o Body(e)
          /\ UNCHANGED <<op, codes, ex>>
       \/ /\ e.kind = "link"
          /\ Extract("fail", archive \o head \o Body(e))
          /\ todo' = <<>> /\ NoFault /\ UNCHANGED lost
       \/ /\ \E bytes \in {<<>>, head} : Extract("fail", archive \o bytes)
          /\ todo' = <<>> /\ Fault /\ UNCHANGED lost
    /\ UNCHANGED <<tree, ro, hashed, out>>

WriteDone ==
    /\ op = "write" /\ todo = <<>>
    /\ \/ Extract("ok", Append(archive, Nul)) /\ NoFault
       \/ Extract("fail", archive) /\ Fault
    /\ UNCHANGED <<tree, ro, todo, hashed, lost, out>>

-----------------------------------------------------------------------------
Memory(i) == IF i <= Buffer THEN ex.buffer[i] ELSE ex.after
Byte == Memory(ex.pos)
Least(a, b) == IF a < b THEN a ELSE b

\* data++ and n--.
Eat(y) == [y EXCEPT !.pos = @ + 1, !.n = @ - 1]

\* `break' out of the switch: the next turn of the loop, if n > 0, goes
\* where extract_state says.
Again(y) == [y EXCEPT !.at = IF y.n = 0 THEN "read" ELSE y.state]

\* Mutant: ent_read_count is not reset.
NextEntryAppends(y) == Again([y EXCEPT !.state = "name"])

NextEntry(y) == Again([y EXCEPT !.state = "name", !.name = <<>>])

Ended(code) == Return("extract", code, "returned") /\ UNCHANGED <<ex, out>>

At(place) == op = "extract" /\ ex.at = place

\* What stands still while car_extract() goes on.
Going == UNCHANGED <<tree, ro, walk, op, codes, fails>>

\* `return EXTRACT_CONTINUE' in the middle of an entry.
More == ex' = [ex EXCEPT !.at = "read"] /\ UNCHANGED out /\ Going

CanMake(p) == /\ p \notin DOMAIN out
              /\ Len(p) > 1 => Front(p) \in DOMAIN out /\ out[Front(p)].kind = "dir"

Put(p, e) == out' = [q \in DOMAIN out \cup {p} |-> IF q = p THEN e ELSE out[q]]

(* fread() of the next buffer; what the read does not fill keeps its bytes. *)
Read ==
    LET k == Least(Buffer, Len(ex.rest)) IN
    /\ At("read") /\ ~ex.eof
    /\ ex' = Again([ex EXCEPT !.buffer = [i \in 1..Buffer |-> IF i <= k THEN ex.rest[i] ELSE @[i]],
                            !.rest = SubSeq(@, k + 1, Len(@)),
                            !.eof = k < Buffer, !.pos = 1, !.n = k])
    /\ UNCHANGED out /\ Going

HeaderByte ==
    /\ At("header") /\ Byte = Magic
    /\ ex' = [Eat(ex) EXCEPT !.state = "name", !.at = "name"]
    /\ UNCHANGED out /\ Going

NameByte ==
    /\ At("name") /\ ex.n > 0
    /\ \/ Byte # Nul /\ Len(ex.name) + 1 < MaxName
          /\ ex' = [Eat(ex) EXCEPT !.name = Append(@, Byte)]
       \/ Byte = Nul /\ ex.name # <<>>
          /\ ex' = [Eat(ex) EXCEPT !.state = "mode", !.at = "mode"]
    /\ UNCHANGED out /\ Going

(* The attribute byte: data is advanced, n is not.                          *)
Mode ==
    LET y == [ex EXCEPT !.pos = @ + 1]
        made == [kind |-> KindOf(Byte), data |-> <<>>, w |-> (Byte \div 2) % 2 = 1]
    IN
    /\ At("mode") /\ ex.n > 0
    /\ \/ KindOf(Byte) = "dir" /\ CanMake(ex.name)
          /\ Put(ex.name, made) /\ ex' = NextEntry(y)
       \/ KindOf(Byte) = "link"
          /\ ex' = Again([y EXCEPT !.state = "target", !.link = 0]) /\ UNCHANGED out
       \/ KindOf(Byte) = "file" /\ CanMake(ex.name)
          /\ Put(ex.name, made) /\ ex' = [y EXCEPT !.at = "length", !.got = 0, !.left = 0]
    /\ Going

(* The length of the file; extract_state still says "mode".                 *)
LengthByte ==
    /\ At("length") /\ ex.n > 0
    /\ ex' = [Eat(ex) EXCEPT !.left = @ + Byte * 256 ^ ex.got, !.got = @ + 1,
                           !.at = IF ex.got + 1 = SizeBytes THEN "data" ELSE @]
    /\ UNCHANGED out /\ Going

(* write(); if it takes only j bytes, nothing is said, and the next turn of *)
(* the loop goes on with the others as extract_state says.                  *)
Data ==
    LET k == Least(ex.n, ex.left)
        After(j) == [ex EXCEPT !.pos = @ + j, !.n = @ - j, !.left = @ - j]
    IN
    /\ At("data") /\ ex.n > 0
    /\ \E j \in 0..k :
        /\ Put(ex.name, [out[ex.name] EXCEPT !.data = @ \o [i \in 1..j |-> Memory(ex.pos + i - 1)]])
        /\ ex' = IF ex.left = j THEN NextEntry(After(j)) ELSE Again(After(j))
        /\ IF j = k THEN NoFault /\ UNCHANGED lost ELSE Fault /\ lost' = TRUE
    /\ UNCHANGED <<tree, ro, op, codes, todo, hashed, archive>>

(* The target of a link, then symlink() with its arguments exchanged: it    *)
(* makes a link at the target, not in the directory.                        *)
TargetByte ==
    /\ At("target") /\ ex.n > 0
    /\ \/ Byte # Nul /\ ex.link + 1 < MaxName /\ ex' = Again([Eat(ex) EXCEPT !.link = @ + 1])
       \/ Byte = Nul /\ ex.link > 0 /\ ex' = NextEntry(Eat(ex))
    /\ UNCHANGED out /\ Going

(* The input ends, inside a buffer, between entries or for good.            *)
Pause == (\E place \in {"name", "mode", "length", "data"} : At(place)) /\ ex.n = 0 /\ More

Success == At("name") /\ ex.n > 0 /\ Byte = Nul /\ ex.name = <<>> /\ Ended("ok")
             /\ UNCHANGED <<tree, ro, walk, fails>>

\* What the input itself makes impossible.
Bad ==
    \/ At("read") /\ ex.eof
    \/ At("header") /\ Byte # Magic
    \/ At("name") /\ ex.n > 0 /\ Byte # Nul /\ Len(ex.name) + 1 = MaxName
    \/ At("mode") /\ ex.n > 0 /\ KindOf(Byte) = "invalid"
    \/ At("mode") /\ ex.n > 0 /\ KindOf(Byte) \in {"dir", "file"} /\ ~CanMake(ex.name)
    \/ At("target") /\ Byte # Nul /\ ex.link + 1 = MaxName
    \/ At("target") /\ Byte = Nul /\ ex.link = 0

(* Everything else that fails: fread(), mkdir(), open(), write(), symlink() *)
Failure ==
    /\ \/ Bad /\ NoFault
       \/ (\E place \in {"read", "mode", "data", "target"} : At(place)) /\ Fault
    /\ Ended("fail")
    /\ UNCHANGED <<tree, ro, walk>>

Walk == HashEntry \/ HashDone \/ WriteEntry \/ WriteDone

Reading == \/ Read \/ HeaderByte \/ NameByte \/ Mode \/ LengthByte \/ Data
           \/ TargetByte \/ Pause \/ Success \/ Failure

\* All three functions have returned.
AllReturned == op = "returned"

Rest == AllReturned /\ UNCHANGED vars

Next == Walk \/ Reading \/ Rest

Fairness == WF_vars(Walk \/ Reading)

Spec == Init /\ [][Next]_vars

-----------------------------------------------------------------------------
\* What an extraction should make: special files are not archived, and the
\* read-only variant takes the write bits away.
Expected == [p \in {q \in DOMAIN tree : tree[q].kind # "other"} |->
                [tree[p] EXCEPT !.w = @ /\ ~ro]]

(* car_hash() is the hash of the archive car_archive() writes (archive.h:   *)
(* "in the same manner that `car` archiving it will give"), and neither     *)
(* hides a failure of a call it checks.  At this commit a link ends the     *)
(* archive: then it is a beginning of what was hashed.                      *)
HashIsOfArchive ==
    codes.write # "none" /\ codes.hash = "ok" /\ ~lost /\ ~ro =>
        /\ codes.write = "ok" => archive = hashed
        /\ fails = 0 => IsPrefix(archive, hashed)

(* An archive that was written without error and is read in one go is       *)
(* extracted to the directory it was made from as long as write() takes all *)
(* it is given, and only a failing call can stop that.                      *)
OneBufferRestores ==
    codes.extract # "none" /\ codes.write = "ok" /\ ~lost /\ Len(archive) <= Buffer =>
        /\ codes.extract = "ok" => out = Expected
        /\ fails = 0 => codes.extract = "ok"

(* The same without regard to the size: what car_archive() has written      *)
(* car_extract() restores (archive.h: "Extract a calculus archive into a    *)
(* directory").  Not so at this commit.                                     *)
ExtractRestores ==
    codes.extract # "none" /\ codes.write = "ok" /\ fails = 0 =>
        codes.extract = "ok" /\ out = Expected

(* If car_extract() returns 0 ("0 on success, -1 on failure", archive.h:41) *)
(* for a whole archive, read in one go, the directory is there again.  Not  *)
(* so at this commit: a write() that takes only a part is not noticed.      *)
SuccessRestores ==
    codes.extract = "ok" /\ codes.hash = "ok" /\ ~ro /\ archive = hashed
        /\ Len(archive) <= Buffer => out = Expected
=============================================================================
