-------------------------------- MODULE Paths --------------------------------
(***************************************************************************)
(* The paths of src/src/common/path.c: taking them apart, joining them, and *)
(* p_norm(), which makes the canonical form of a path.                      *)
(*                                                                          *)
(* Every function comes in place, as a new string (_a) and as one from the  *)
(* pool (_p), with the same text; what happens to the buffers is in         *)
(* Strings.  p_norm() goes through the path one component per step, with    *)
(* the names it has seen on a stack of bytes that grows.                    *)
(***************************************************************************)
EXTENDS Texts

CONSTANTS
    Letters,    \* characters of names other than the dot
    StackSize,  \* first size of the stack of p_norm(): 256
    Cwds,       \* what getcwd() may return
    MaxPath,    \* bound: length of a path that is operated on
    MaxPart     \* bound: length of a path that is joined to it

Slash == 47
Dot == 46

VARIABLES
    path,       \* the path
    cwd,        \* the current directory (constant)
    given,      \* history: the operation, and what it was given
    si,         \* p_norm(): position in the path, 0 when it does not run
    bytes,      \* p_norm(): the stack up to its cursor
    size        \* p_norm(): its size

vars == <<path, cwd, given, si, bytes, size>>

PathsTo(n) == BoundedSeq(Letters \cup {Slash, Dot}, n)

LastSlash(p) == FindLast(p, <<Slash>>)
LastDot(p) == FindLast(p, <<Dot>>)

(* p_dir()                                                                  *)
Dir(p) ==
    CASE LastSlash(p) = 0 -> <<Slash, Dot>>
      [] LastSlash(p) < 0 -> <<Dot>>
      [] OTHER -> Sub(p, 0, LastSlash(p))

(* p_file()                                                                 *)
File(p) == IF LastSlash(p) < 0 THEN p ELSE SubEnd(p, LastSlash(p) + 1)

(* p_filename()                                                             *)
Filename(p) == IF LastDot(File(p)) < 0 THEN File(p) ELSE Sub(File(p), 0, LastDot(File(p)))

(* p_extension(): the dot must be in the name of the file.                  *)
Extension(p) ==
    SubEnd(p, IF LastDot(p) < 0 \/ LastDot(p) < LastSlash(p) THEN Len(p) ELSE LastDot(p))

(* p_cat()                                                                  *)
Joined(p, part) ==
    LET front == IF EndsWith(p, <<Slash>>) THEN p ELSE Append(p, Slash)
    IN TrimRight(front \o TrimLeft(part, {Slash}), {Slash})

(* p_pre(); for an empty path in front the byte before it is looked at.     *)
Prefixed(p, part) ==
    LET bare == TrimLeft(p, {Slash})
        close == part \o bare
        apart == part \o Cons(Slash, bare)
    IN CASE part = <<>> -> {close, apart}
         [] part # <<>> /\ Last(part) = Slash -> {close}
         [] OTHER -> {apart}

-----------------------------------------------------------------------------
Init ==
    /\ path \in PathsTo(MaxPath)
    /\ cwd \in Cwds
    /\ given = [op |-> "none", path |-> path, part |-> <<>>]
    /\ si = 0 /\ bytes = <<>> /\ size = 0

Idle == si = 0

Call(op, part) == /\ Idle /\ Len(path) <= MaxPath
                  /\ given' = [op |-> op, path |-> path, part |-> part]
                  /\ UNCHANGED cwd

NotNorm == UNCHANGED <<si, bytes, size>>

TakeApart ==
    /\ \/ Call("dir", <<>>) /\ path' = Dir(path)
       \/ Call("file", <<>>) /\ path' = File(path)
       \/ Call("filename", <<>>) /\ path' = Filename(path)
       \/ Call("extension", <<>>) /\ path' = Extension(path)
    /\ NotNorm

Join(part) ==
    /\ \/ Call("cat", part) /\ path' = Joined(path, part)
       \/ Call("pre", part) /\ path' \in Prefixed(path, part)
    /\ NotNorm

(* p_norm(): a relative path is put behind the current directory.           *)
NormStart ==
    /\ Call("norm", <<>>)
    /\ IF StartsWith(path, <<Slash>>) THEN UNCHANGED path ELSE path' \in Prefixed(path, cwd)
    /\ si' = 1 /\ bytes' = <<>> /\ size' = StackSize

\* Mutant: the cursor stops in the middle of the name before.
PoppedOne == SubSeq(bytes, 1, Max({0, Len(bytes) - 2}))

\* The cursor goes back over the last name, to the null byte before it.
Popped == SubSeq(bytes, 1, Max({0} \cup {i \in 1..(Len(bytes) - 1) : bytes[i] = Nul}))

NextSlash == LET at == FindFrom(path, <<Slash>>, si) IN IF at < si THEN Len(path) ELSE at

(* One turn of the loop of p_norm(): an empty name and "." are left out,    *)
(* ".." takes the last name off the stack, any other is put on it.          *)
NormName ==
    LET name == SubSeq(path, si + 1, NextSlash)
        full == Len(name) + Len(bytes) >= size
    IN
    /\ ~Idle /\ si <= Len(path)
    /\ si' = NextSlash + 1
    /\ CASE name \in {<<>>, <<Dot>>} -> UNCHANGED <<bytes, size>>
         [] name = <<Dot, Dot>> -> bytes' = Popped /\ UNCHANGED size
         [] OTHER -> /\ bytes' = Append(bytes \o name, Nul)
                     /\ size' = IF full THEN BitCeil(size + Len(name) + Len(bytes) + 1)
                                        ELSE size
    /\ UNCHANGED <<path, cwd, given>>

\* A slash before each name, the null bytes between them gone.
Slashed(b) == [i \in 1..Len(b) |-> IF i = 1 \/ b[i - 1] = Nul THEN Slash ELSE b[i - 1]]

(* The path is made of the stack.                                           *)
NormEnd ==
    /\ ~Idle /\ si > Len(path)
    /\ path' = IF bytes = <<>> THEN <<Slash>> ELSE Slashed(bytes)
    /\ si' = 0 /\ bytes' = <<>> /\ size' = 0
    /\ UNCHANGED <<cwd, given>>

Next ==
    \/ TakeApart \/ (\E part \in PathsTo(MaxPart) : Join(part))
    \/ NormStart \/ NormName \/ NormEnd
    \/ Idle /\ UNCHANGED vars

Fairness == WF_vars(NormName \/ NormEnd)

Spec == Init /\ [][Next]_vars /\ Fairness

-----------------------------------------------------------------------------
TypeOK ==
    /\ path \in Seq(Letters \cup {Slash, Dot})
    /\ cwd \in Cwds
    /\ given.op \in {"none", "dir", "file", "filename", "extension", "cat", "pre", "norm"}
    /\ si \in 0..(Len(path) + 1) /\ size \in Nat
    /\ bytes \in Seq(Letters \cup {Dot, Nul})

\* A directory is the sequence of the names that lead to it from the root.
Enter(dir, name) ==
    CASE name \in {<<>>, <<Dot>>} -> dir
      [] name = <<Dot, Dot>> -> IF dir = <<>> THEN dir ELSE Front(dir)
      [] OTHER -> Append(dir, name)

\* Where one is on the way: in a directory, with a part of a name.
Passed(at, char) ==
    IF char = Slash THEN [dir |-> Enter(at.dir, at.name), name |-> <<>>]
                    ELSE [at EXCEPT !.name = Append(@, char)]

Way(dir, p) ==
    LET way[i \in 0..Len(p)] ==
          IF i = 0 THEN [dir |-> dir, name |-> <<>>] ELSE Passed(way[i - 1], p[i])
    IN way

\* Where a path leads from a directory.
Follow(dir, p) == Enter(Way(dir, p)[Len(p)].dir, Way(dir, p)[Len(p)].name)

\* What a path means: where it leads from the root or the current directory.
Meaning(p) ==
    IF IsPrefix(<<Slash>>, p) THEN Follow(<<>>, p) ELSE Follow(Follow(<<>>, cwd), p)

Canonical(names) ==
    LET text[k \in 0..Len(names)] ==
          IF k = 0 THEN <<>> ELSE text[k - 1] \o Cons(Slash, names[k])
    IN IF names = <<>> THEN <<Slash>> ELSE text[Len(names)]

(* A path and its parts mean the same: the file in the directory is where   *)
(* the path leads, and its name and extension are its whole name.           *)
PartsRejoin ==
    /\ given.op = "dir" => Follow(Meaning(path), File(given.path)) = Meaning(given.path)
    /\ given.op = "file" => IsSuffix(path, given.path) /\ LastSlash(path) < 0
    /\ given.op = "filename" => path \o Extension(given.path) = File(given.path)

(* A joined path leads where the second leads from the first; an empty path *)
(* in front, and a join that comes out empty, are left out.                 *)
JoinFollows ==
    /\ given.op = "cat" /\ given.path # <<>> /\ path # <<>> =>
          Meaning(path) = Follow(Meaning(given.path), given.part)
    /\ given.op = "pre" /\ given.part # <<>> =>
          Meaning(path) = Follow(Meaning(given.part), given.path)

(* p_norm() ends with the one canonical form of where the path leads, and   *)
(* never writes beyond its stack.                                           *)
NormCanonical ==
    /\ Idle /\ given.op = "norm" => path = Canonical(Meaning(given.path))
    /\ Len(bytes) <= size

(* All operations keep what a path means (path.h: "Normalize a path",       *)
(* "Combine a path with another path").                                     *)
PathMeans == NormCanonical /\ (Idle => PartsRejoin /\ JoinFollows)

(* Joining always does.  Not so at this commit: p_cat("/", "") is empty,    *)
(* and an empty path in front makes the join an absolute one.               *)
JoinAlwaysFollows ==
    Idle /\ given.op = "cat" => Meaning(path) = Follow(Meaning(given.path), given.part)

(* "Get the directory from a path without the trailing /" (path.h).  Not so *)
(* at this commit: of two slashes one is left.                              *)
DirBare == Idle /\ given.op = "dir" => ~IsSuffix(<<Slash>>, path)
=============================================================================
