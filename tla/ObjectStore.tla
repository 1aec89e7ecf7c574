---------------------------- MODULE ObjectStore -----------------------------
(***************************************************************************)
(* The files that the builders of src/src/calculus/build.c work on.  The    *)
(* content of a file or directory is a set of blocks <<n, k>>: the k-th     *)
(* piece (a stretch of a file, an entry of a directory) of what derivative  *)
(* n should contain.  Blocks of 0 are bytes no derivative asked for.        *)
(***************************************************************************)
EXTENDS Naturals

CONSTANTS
    N,      \* number of derivatives
    K       \* blocks of a complete object

ASSUME NAssumption == N \in Nat
ASSUME KAssumption == K \in Nat \ {0}

Node == 1..N
Blocks == (0..N) \X (1..K)

Object == [kind : {"none", "file", "dir"}, has : SUBSET Blocks]

Absent == [kind |-> "none", has |-> {}]
EmptyFile == [kind |-> "file", has |-> {}]
EmptyDir == [kind |-> "dir", has |-> {}]

\* What derivative n should contain, and what it contains if it is built
\* from damaged dependencies or by a server that sends something else.
Whole(n) == {n} \X (1..K)
Garbage == {0} \X (1..K)

\* fs_exists() and, for an object, stat().
Exists(object) == object.kind # "none"

\* Writing block b at its offset: it replaces what was there.
Write(object, b) == [object EXCEPT !.has = {c \in @ : c[2] # b[2]} \cup {b}]

BlocksAt(data, k) == {b \in data : b[2] = k}
=============================================================================
