---------------------------- MODULE CommonProofs ----------------------------
(***************************************************************************)
(* Theorems about the library: the incremental digest, for every chunk      *)
(* size, every size of a read and every way of cutting up a message of any  *)
(* length; the walks over a directory that is hashed and archived, for      *)
(* every directory; and the paths, for every path and working directory.    *)
(***************************************************************************)
EXTENDS Common, SequenceTheorems, FiniteSetTheorems, WellFoundedInduction, TLAPS

(* What a sequence of the specification consists of: bytes of a message,    *)
(* and of a length.                                                         *)
Symbols == Nat \cup {LengthField(b)[i] : b \in Nat, i \in 1..LengthBytes}

-----------------------------------------------------------------------------
(* Multiples of Chunk that are less than Chunk apart are equal.             *)
LEMMA MultiplesApart ==
    ASSUME NEW c \in Nat \ {0}, NEW a \in Int, NEW b \in Int,
           a * c - b * c < c, b * c - a * c < c
    PROVE  a = b
<1>1. CASE a >= b + 1
  <2>1. PICK d \in Nat : a = b + 1 + d
    BY <1>1, a - b - 1 \in Nat, a = b + 1 + (a - b - 1)
  <2>2. a * c = b * c + c + d * c
    BY <2>1
  <2>3. d * c >= 0
    BY <2>1
  <2> QED BY <2>2, <2>3
<1>2. CASE b >= a + 1
  <2>1. PICK d \in Nat : b = a + 1 + d
    BY <1>2, b - a - 1 \in Nat, b = a + 1 + (b - a - 1)
  <2>2. b * c = a * c + c + d * c
    BY <2>1
  <2>3. d * c >= 0
    BY <2>1
  <2> QED BY <2>2, <2>3
<1> QED BY <1>1, <1>2

(* Quotient and remainder.                                                  *)
LEMMA Division ==
    ASSUME NEW c \in Nat \ {0}, NEW n \in Nat
    PROVE  /\ n \div c \in Int /\ n % c \in 0..(c - 1)
           /\ n = (n \div c) * c + (n % c)
OBVIOUS

(* The quotient of a multiple.                                              *)
LEMMA MultipleDiv ==
    ASSUME NEW c \in Nat \ {0}, NEW k \in Nat
    PROVE  (k * c) \div c = k /\ (k * c) % c = 0
<1>1. k * c \in Nat
  OBVIOUS
<1>2. /\ (k * c) \div c \in Int /\ (k * c) % c \in 0..(c - 1)
      /\ k * c = ((k * c) \div c) * c + ((k * c) % c)
  BY <1>1, Division
<1> DEFINE q == (k * c) \div c
           r == (k * c) % c
<1>3. q \in Int /\ r \in 0..(c - 1) /\ k * c = q * c + r
  BY <1>2
<1> HIDE DEF q, r
<1>4. k = q
  <2>1. k * c - q * c < c /\ q * c - k * c < c
    <3>1. k * c \in Int /\ q * c \in Int
      BY <1>3
    <3> QED BY <1>3, <3>1
  <2> QED BY <2>1, <1>3, MultiplesApart
<1>5. r = 0
  BY <1>3, <1>4
<1> QED BY <1>4, <1>5 DEF q, r

-----------------------------------------------------------------------------
(* The length at the end.                                                   *)
LEMMA FieldIs ==
    ASSUME NEW b \in Nat
    PROVE  LengthField(b) \in Seq(Symbols) /\ Len(LengthField(b)) = LengthBytes
<1> DEFINE F == LengthField(b)
<1>1. LengthBytes \in Nat
  BY ShaAssumption
<1>2. F = [i \in 1..LengthBytes |-> F[i]]
  BY DEF LengthField
<1>3. \A i \in 1..LengthBytes : F[i] \in Symbols
  BY DEF Symbols
<1> HIDE DEF F
<1>4. F \in Seq(Symbols) /\ Len(F) = LengthBytes
  BY <1>1, <1>2, <1>3
<1> QED BY <1>4 DEF F

(* The padding of the code is a marker, zeros and the length.               *)
LEMMA PaddingIs ==
    ASSUME NEW b \in Nat, NEW z \in Nat
    PROVE  /\ Padding(1 + z + LengthBytes, b) = <<128>> \o Zeros(z) \o LengthField(b)
           /\ Padding(1 + z + LengthBytes, b) \in Seq(Symbols)
           /\ Len(Padding(1 + z + LengthBytes, b)) = 1 + z + LengthBytes
<1> DEFINE F == LengthField(b)
           P == Padding(1 + z + LengthBytes, b)
           M == <<128>>
           Z == Zeros(z)
<1>1. LengthBytes \in Nat \ {0}
  BY ShaAssumption
<1>2. F \in Seq(Symbols) /\ Len(F) = LengthBytes
  BY FieldIs
<1>3. M \in Seq(Symbols) /\ Len(M) = 1 /\ M[1] = 128
  BY DEF Symbols
<1>4. Z \in Seq(Symbols) /\ Len(Z) = z /\ \A i \in 1..z : Z[i] = 0
  BY DEF Zeros, Symbols
<1>5. P = [i \in 1..(1 + z + LengthBytes) |->
              IF i > 1 + z THEN F[i - (1 + z)] ELSE IF i = 1 THEN 128 ELSE 0]
  BY <1>1 DEF Padding
<1> HIDE DEF F, P, M, Z
<1>6. \A i \in 1..(1 + z + LengthBytes) :
          P[i] = IF i > 1 + z THEN F[i - (1 + z)] ELSE IF i = 1 THEN 128 ELSE 0
  BY <1>5
<1>7. P \in Seq(Symbols) /\ Len(P) = 1 + z + LengthBytes
  <2>1. \A i \in 1..(1 + z + LengthBytes) : P[i] \in Symbols
    <3> SUFFICES ASSUME NEW i \in 1..(1 + z + LengthBytes) PROVE P[i] \in Symbols
      OBVIOUS
    <3>1. CASE i > 1 + z
      <4>1. i - (1 + z) \in 1..Len(F)
        BY <1>1, <1>2, <3>1
      <4>2. F[i - (1 + z)] \in Symbols
        BY <4>1, <1>2, ElementOfSeq
      <4> QED BY <1>6, <3>1, <4>2
    <3>2. CASE ~(i > 1 + z)
      BY <1>6, <3>2 DEF Symbols
    <3> QED BY <3>1, <3>2
  <2>2. P = [i \in 1..(1 + z + LengthBytes) |-> P[i]]
    BY <1>5
  <2> QED BY <1>1, <2>1, <2>2
<1>8. /\ M \o Z \in Seq(Symbols) /\ Len(M \o Z) = 1 + z
      /\ \A i \in 1..(1 + z) : (M \o Z)[i] = IF i = 1 THEN 128 ELSE 0
  <2>1. /\ M \o Z \in Seq(Symbols) /\ Len(M \o Z) = Len(M) + Len(Z)
        /\ \A i \in 1..(Len(M) + Len(Z)) :
              (M \o Z)[i] = IF i <= Len(M) THEN M[i] ELSE Z[i - Len(M)]
    <3>1. M \in Seq(Symbols) /\ Z \in Seq(Symbols)
      BY <1>3, <1>4
    <3> QED BY <3>1, ConcatProperties, Zenon
  <2>2. ASSUME NEW i \in 1..(1 + z), i # 1 PROVE i - 1 \in 1..z
    BY <2>2
  <2> QED BY <1>3, <1>4, <2>1, <2>2
<1>9. /\ M \o Z \o F \in Seq(Symbols) /\ Len(M \o Z \o F) = 1 + z + LengthBytes
      /\ \A i \in 1..(1 + z + LengthBytes) :
            (M \o Z \o F)[i] = IF i <= 1 + z THEN (M \o Z)[i] ELSE F[i - (1 + z)]
  <2>1. /\ (M \o Z) \o F \in Seq(Symbols) /\ Len((M \o Z) \o F) = Len(M \o Z) + Len(F)
        /\ \A i \in 1..(Len(M \o Z) + Len(F)) :
              ((M \o Z) \o F)[i] = IF i <= Len(M \o Z) THEN (M \o Z)[i]
                                   ELSE F[i - Len(M \o Z)]
    BY <1>2, <1>8, ConcatProperties, Zenon
  <2> QED BY <1>1, <1>2, <1>8, <2>1
<1>10. \A i \in 1..(1 + z + LengthBytes) : P[i] = (M \o Z \o F)[i]
  BY <1>1, <1>6, <1>8, <1>9
<1>11. P = M \o Z \o F
  BY <1>7, <1>9, <1>10, SeqEqual
<1> QED BY <1>7, <1>11 DEF P, M, Z, F

(* How many zeros there are: the padding of k whole chunks and u bytes more *)
(* ends with a chunk, and no fewer zeros would do.                          *)
LEMMA PaddedIs ==
    ASSUME NEW m, NEW k \in Nat, NEW u \in 0..(Chunk - 1), Len(m) = k * Chunk + u
    PROVE  \E z \in Nat : /\ Remaining(u) = 1 + z + LengthBytes
                          /\ Padded(m) = m \o <<128>> \o Zeros(z) \o LengthField(Len(m))
<1> DEFINE z0 == Remaining(u) - 1 - LengthBytes
           Fits(z) == (Len(m) + 1 + z + LengthBytes) % Chunk = 0
           z1 == CHOOSE z \in 0..(Chunk - 1) : Fits(z)
<1>1. Chunk \in Nat \ {0} /\ LengthBytes \in Nat \ {0} /\ Chunk > LengthBytes
  BY ShaAssumption
<1>2. z0 \in 0..(Chunk - 1)
  BY <1>1 DEF Remaining
<1> DEFINE j == IF u < Chunk - LengthBytes THEN 1 ELSE 2
<1>3. j \in Nat /\ u + Remaining(u) = j * Chunk
  BY <1>1 DEF Remaining
<1>4. Len(m) + 1 + z0 + LengthBytes = (k + j) * Chunk
  <2>1. Len(m) + 1 + z0 + LengthBytes = k * Chunk + (u + Remaining(u))
    <3>1. Remaining(u) \in Int /\ k * Chunk \in Int
      BY <1>1 DEF Remaining
    <3> QED BY <1>1, <3>1
  <2>2. (k + j) * Chunk = k * Chunk + j * Chunk
    BY <1>1
  <2> QED BY <2>1, <2>2, <1>3
<1> HIDE DEF z0, j
<1>5. Fits(z0) /\ k + j \in Nat
  <2>1. k + j \in Nat
    BY <1>3
  <2> QED BY <1>1, <1>4, <2>1, MultipleDiv
<1>6. ASSUME NEW z \in 0..(Chunk - 1), Fits(z) PROVE z = z0
  <2> DEFINE n == Len(m) + 1 + z + LengthBytes
             q == n \div Chunk
  <2>1. n \in Nat /\ n - z \in Nat
    <3>1. k * Chunk \in Nat
      BY <1>1
    <3> QED BY <1>1, <3>1
  <2>2. q \in Int /\ n = q * Chunk
    <3>1. q \in Int /\ n = q * Chunk + (n % Chunk)
      BY <1>1, <2>1, Division
    <3>2. n % Chunk = 0
      BY <1>6
    <3>3. q * Chunk \in Int
      BY <1>1, <3>1
    <3> HIDE DEF q, n
    <3> QED BY <3>1, <3>2, <3>3
  <2>3. (k + j) * Chunk - n = z0 - z
    BY <1>1, <1>2, <1>4, <2>1
  <2> HIDE DEF n, q
  <2>4. k + j = q
    <3>1. /\ (k + j) * Chunk - q * Chunk < Chunk
          /\ q * Chunk - (k + j) * Chunk < Chunk
      <4>1. (k + j) * Chunk \in Int
        BY <1>1, <1>5
      <4> QED BY <1>1, <1>2, <2>1, <2>2, <2>3, <4>1
    <3> QED BY <1>1, <1>5, <2>2, <3>1, MultiplesApart
  <2> QED BY <1>2, <2>1, <2>2, <2>3, <2>4
<1>7. z1 = z0
  BY <1>2, <1>5, <1>6
<1>8. Padded(m) = m \o <<128>> \o Zeros(z1) \o LengthField(Len(m))
  BY DEF Padded
<1>9. Remaining(u) = 1 + z0 + LengthBytes /\ z0 \in Nat
  <2>1. Remaining(u) \in Int
    BY <1>1 DEF Remaining
  <2> QED BY <1>1, <1>2, <2>1 DEF z0
<1> QED BY <1>7, <1>8, <1>9

-----------------------------------------------------------------------------
(* The state has its types: bytes, and a chunk that is never full.         *)
Typed ==
    /\ consumed \in Seq(Symbols) /\ pending \in Seq(Symbols)
    /\ input \in Seq(Symbols) /\ file \in Seq(Symbols)
    /\ message \in Seq(Symbols) /\ tail \in Seq(Symbols)
    /\ Len(pending) < Chunk
    /\ pc \in Pcs

(* What each function has behind it: no copying is left where none runs,    *)
(* no file but in sha256_appendf(), no padding before sha256_finalize().    *)
Behind ==
    /\ pc \in {"idle", "appendf", "completed"} => input = <<>>
    /\ pc \in {"idle", "append", "finalize", "completed"} => file = <<>>
    /\ pc \in {"idle", "append", "appendf", "block"} => tail = <<>>

(* consume_chunk() is given whole chunks.                                   *)
WholeChunks == \E k \in Nat : Len(consumed) = k * Chunk

(* The padding was made for the whole message and for where it ends.        *)
TailMade ==
    pc \in {"finalize", "completed"} =>
        \E k \in Nat, u \in 0..(Chunk - 1) :
            /\ Len(message) = k * Chunk + u
            /\ tail = Padding(Remaining(u), Len(message))

(* The initial hash values are put in before anything is compressed.        *)
Started ==
    /\ pc = "idle" => iv \/ (pending = <<>> /\ consumed = <<>>)
    /\ pc # "idle" => iv

(* The inductive invariant.                                                 *)
DigestInv == Typed /\ NothingLost /\ Behind /\ WholeChunks /\ TailMade /\ Started

-----------------------------------------------------------------------------
(* What is assumed of the constants, for short.                             *)
LEMMA ConstantsOK ==
    Chunk \in Nat \ {0} /\ LengthBytes \in Nat \ {0} /\ Chunk > LengthBytes
    /\ ReadSize \in Nat \ {0}
BY ShaAssumption

(* A sequence cut in two is the two.                                        *)
LEMMA Cut ==
    ASSUME NEW S, NEW s \in Seq(S), NEW n \in 0..Len(s)
    PROVE  /\ SubSeq(s, 1, n) \in Seq(S) /\ SubSeq(s, n + 1, Len(s)) \in Seq(S)
           /\ Len(SubSeq(s, 1, n)) = n /\ Len(SubSeq(s, n + 1, Len(s))) = Len(s) - n
           /\ SubSeq(s, 1, n) \o SubSeq(s, n + 1, Len(s)) = s
<1>1. Len(s) \in Nat /\ n \in Nat
  BY LenProperties
<1>2. \A i \in 1..Len(s) : s[i] \in S
  BY ElementOfSeq
<1>3. SubSeq(s, 1, n) \in Seq(S) /\ Len(SubSeq(s, 1, n)) = n
  BY <1>1, <1>2, SubSeqProperties
<1>4. SubSeq(s, n + 1, Len(s)) \in Seq(S) /\ Len(SubSeq(s, n + 1, Len(s))) = Len(s) - n
  BY <1>1, <1>2, SubSeqProperties
<1>5. SubSeq(s, 1, n) \o SubSeq(s, n + 1, Len(s)) = SubSeq(s, 1, Len(s))
  <2>1. 1 \in 1..(Len(s) + 1) /\ n \in (1 - 1)..Len(s) /\ Len(s) \in n..Len(s)
    BY <1>1
  <2> QED BY <2>1, ConcatAdjacentSubSeq
<1> QED BY <1>3, <1>4, <1>5, SubSeqFull

(* The length of a sequence of two parts.                                   *)
LEMMA Joined ==
    ASSUME NEW S, NEW a \in Seq(S), NEW b \in Seq(S)
    PROVE  /\ a \o b \in Seq(S) /\ Len(a \o b) = Len(a) + Len(b)
           /\ Len(a) \in Nat /\ Len(b) \in Nat
BY ConcatProperties, LenProperties

(* Parts may be joined in any order of joining.  (Joined by an operator of  *)
(* its own, which the provers leave alone.)                                 *)
Join(a, b) == a \o b

LEMMA JoinOrder ==
    \A a, b, c \in Seq(Symbols) : Join(Join(a, b), c) = Join(a, Join(b, c))
<1> SUFFICES ASSUME NEW a \in Seq(Symbols), NEW b \in Seq(Symbols), NEW c \in Seq(Symbols)
             PROVE  (a \o b) \o c = a \o (b \o c)
  BY DEF Join
<1> QED BY ConcatAssociative

(* Nothing joined to a sequence.                                            *)
LEMMA NoneLeft ==
    ASSUME NEW S, NEW a \in Seq(S)
    PROVE  a \o <<>> = a /\ <<>> \o a = a /\ <<>> \in Seq(S) /\ Len(<<>>) = 0
BY ConcatEmptySeq, EmptySeq

(* What the append functions are given.                                     *)
LEMMA FreshOK ==
    ASSUME Typed, NEW k \in Nat
    PROVE  Fresh(k) \in Seq(Symbols) /\ message \o Fresh(k) \in Seq(Symbols)
<1>1. Len(message) \in Nat
  BY LenProperties DEF Typed
<1>2. Fresh(k) \in Seq(Symbols)
  BY <1>1 DEF Fresh, Symbols
<1> QED BY <1>2, Joined DEF Typed

-----------------------------------------------------------------------------
(* A digest not yet begun.                                                  *)
LEMMA DigestInit == Init => DigestInv
<1> SUFFICES ASSUME Init PROVE DigestInv
  OBVIOUS
<1> USE DEF Init
<1>1. <<>> \in Seq(Symbols) /\ Len(<<>>) = 0 /\ <<>> \o <<>> = <<>>
  <2>1. <<>> \in Seq(Symbols)
    BY EmptySeq
  <2> QED BY <2>1, NoneLeft
<1>2. Typed
  BY <1>1, ConstantsOK DEF Typed, Pcs
<1>3. NothingLost
  BY <1>1 DEF NothingLost
<1>4. WholeChunks
  <2>1. Len(consumed) = 0 * Chunk
    BY <1>1, ConstantsOK
  <2> QED BY <2>1 DEF WholeChunks
<1> QED BY <1>2, <1>3, <1>4 DEF DigestInv, Behind, TailMade, Started

(* Both append functions add their bytes at the end of what is to come.     *)
LEMMA DigestAppend ==
    ASSUME DigestInv, NEW k \in 0..MaxBytes, AppendData(k) \/ AppendFile(k)
    PROVE  DigestInv'
<1> USE DEF DigestInv
<1>1. k \in Nat
  BY ShaAssumption
<1>2. Fresh(k) \in Seq(Symbols) /\ message \o Fresh(k) \in Seq(Symbols)
  BY <1>1, FreshOK
<1>3. pc = "idle" /\ input = <<>> /\ file = <<>> /\ tail = <<>>
  BY DEF Behind, AppendData, AppendFile
<1>4. Typed'
  BY <1>2, <1>3 DEF Typed, AppendData, AppendFile, Pcs
<1>5. consumed \o pending = message
  BY <1>3, NoneLeft, Joined DEF NothingLost, Typed
<1>6. NothingLost'
  <2>1. (consumed \o pending) \o Fresh(k) = (message \o Fresh(k)) \o <<>>
    BY <1>2, <1>5, NoneLeft
  <2>2. ((consumed \o pending) \o Fresh(k)) \o <<>> = (consumed \o pending) \o Fresh(k)
    BY <1>2, <1>5, NoneLeft
  <2>3. ((consumed \o pending) \o <<>>) \o Fresh(k) = (consumed \o pending) \o Fresh(k)
    BY <1>5, NoneLeft DEF Typed
  <2> QED BY <1>3, <2>1, <2>2, <2>3 DEF NothingLost, AppendData, AppendFile
<1>7. Behind' /\ WholeChunks' /\ TailMade' /\ Started'
  BY <1>3 DEF Behind, WholeChunks, TailMade, Started, AppendData, AppendFile,
              StartFromInitial
<1> QED BY <1>4, <1>6, <1>7

(* A read takes from the front of the file; after a short one none is left. *)
LEMMA DigestRead ==
    ASSUME DigestInv, Read
    PROVE  DigestInv'
<1> USE DEF DigestInv
<1> DEFINE n == Minimum(ReadSize, Len(file))
<1>1. /\ pc = "appendf" /\ input = <<>> /\ tail = <<>>
      /\ input' = SubSeq(file, 1, n) /\ file' = SubSeq(file, n + 1, Len(file))
      /\ pc' = IF n < ReadSize THEN "append" ELSE "block"
      /\ UNCHANGED <<consumed, pending, iv, message, tail>>
  BY DEF Behind, Read
<1>2. Len(file) \in Nat /\ n \in 0..Len(file) /\ (n < ReadSize => n = Len(file))
  <2>1. Len(file) \in Nat
    BY LenProperties DEF Typed
  <2> QED BY <2>1, ConstantsOK DEF Minimum
<1> HIDE DEF n
<1>3. /\ input' \in Seq(Symbols) /\ file' \in Seq(Symbols)
      /\ input' \o file' = file /\ Len(file') = Len(file) - n
  BY <1>1, <1>2, Cut DEF Typed
<1>4. Typed'
  BY <1>1, <1>3 DEF Typed, Pcs
<1>5. NothingLost'
  <2>1. consumed \o pending \o <<>> = consumed \o pending
    BY Joined, NoneLeft DEF Typed
  <2>2. (consumed \o pending) \o input' \o file' = (consumed \o pending) \o (input' \o file')
    <3>1. /\ consumed \in Seq(Symbols) /\ pending \in Seq(Symbols)
          /\ input' \in Seq(Symbols) /\ file' \in Seq(Symbols)
      BY <1>3 DEF Typed
    <3>2. consumed \o pending \in Seq(Symbols)
      BY <3>1, Joined
    <3>3. Join(Join(consumed \o pending, input'), file') =
             Join(consumed \o pending, Join(input', file'))
      BY <3>1, <3>2, JoinOrder
    <3> QED BY <3>3 DEF Join
  <2> QED BY <1>1, <1>3, <2>1, <2>2 DEF NothingLost
<1>6. Behind'
  <2>1. n < ReadSize => file' = <<>>
    BY <1>2, <1>3, EmptySeq
  <2> QED BY <1>1, <2>1 DEF Behind
<1>7. WholeChunks' /\ TailMade' /\ Started'
  BY <1>1 DEF WholeChunks, TailMade, Started
<1> QED BY <1>4, <1>5, <1>6, <1>7

(* A turn of the copying loop moves bytes over the seam of input and chunk, *)
(* and a full chunk over the next one.                                      *)
LEMMA DigestCopy ==
    ASSUME DigestInv, Copy
    PROVE  DigestInv'
<1> USE DEF DigestInv
<1> DEFINE n == Minimum(Len(input), Chunk - Len(pending))
           head == SubSeq(input, 1, n)
           chunk == pending \o head
<1>1. /\ pc \in {"append", "block", "finalize"} /\ input # <<>>
      /\ input' = SubSeq(input, n + 1, Len(input))
      /\ IF Len(chunk) = Chunk
           THEN consumed' = consumed \o chunk /\ pending' = <<>>
           ELSE pending' = chunk /\ UNCHANGED consumed
      /\ UNCHANGED <<file, pc, iv, message, tail>>
  BY DEF Copy
<1>2. /\ Len(input) \in Nat /\ Len(pending) \in Nat
      /\ n \in 0..Len(input) /\ n + Len(pending) <= Chunk
  <2>1. Len(input) \in Nat /\ Len(pending) \in Nat
    BY LenProperties DEF Typed
  <2> QED BY <2>1, ConstantsOK DEF Minimum, Typed
<1> HIDE DEF n
<1>3. /\ head \in Seq(Symbols) /\ input' \in Seq(Symbols)
      /\ head \o input' = input /\ Len(head) = n
  BY <1>1, <1>2, Cut DEF Typed
<1> HIDE DEF head
<1>4. /\ chunk \in Seq(Symbols) /\ Len(chunk) = Len(pending) + n
      /\ consumed \o chunk \in Seq(Symbols)
      /\ Len(consumed \o chunk) = Len(consumed) + Len(chunk)
  <2>1. consumed \in Seq(Symbols) /\ pending \in Seq(Symbols)
    BY DEF Typed
  <2>2. chunk \in Seq(Symbols) /\ Len(chunk) = Len(pending) + Len(head)
    BY <1>3, <2>1, Joined, Zenon
  <2> HIDE DEF chunk
  <2>3. /\ consumed \o chunk \in Seq(Symbols)
        /\ Len(consumed \o chunk) = Len(consumed) + Len(chunk)
    BY <2>1, <2>2, Joined, Zenon
  <2> QED BY <1>3, <2>2, <2>3
<1>5. consumed \o pending \o input = (consumed \o chunk) \o input'
  <2>1. consumed \in Seq(Symbols) /\ pending \in Seq(Symbols)
    BY DEF Typed
  <2>2. consumed \o pending \in Seq(Symbols)
    BY <2>1, Joined
  <2>3. ((consumed \o pending) \o head) \o input' = (consumed \o pending) \o (head \o input')
    <3>1. head \in Seq(Symbols) /\ input' \in Seq(Symbols)
      BY <1>3
    <3>2. Join(Join(consumed \o pending, head), input') =
             Join(consumed \o pending, Join(head, input'))
      BY <2>2, <3>1, JoinOrder
    <3> QED BY <3>2 DEF Join
  <2>4. (consumed \o pending) \o head = consumed \o (pending \o head)
    <3>1. head \in Seq(Symbols)
      BY <1>3
    <3>2. Join(Join(consumed, pending), head) = Join(consumed, Join(pending, head))
      BY <2>1, <3>1, JoinOrder
    <3> QED BY <3>2 DEF Join
  <2> QED BY <1>3, <2>3, <2>4
<1> HIDE DEF chunk
<1>6. CASE Len(chunk) = Chunk
  <2>1. consumed' = consumed \o chunk /\ pending' = <<>>
    BY <1>1, <1>6
  <2>2. Typed'
    BY <1>1, <1>3, <1>4, <2>1, ConstantsOK, EmptySeq DEF Typed
  <2>3. consumed' \o pending' = consumed \o chunk
    BY <1>4, <2>1, NoneLeft
  <2>4. NothingLost'
    BY <1>1, <1>5, <2>3 DEF NothingLost
  <2>5. WholeChunks'
    <3>1. PICK k \in Nat : Len(consumed) = k * Chunk
      BY DEF WholeChunks
    <3>2. Len(consumed') = (k + 1) * Chunk
      BY <1>4, <1>6, <2>1, <3>1, ConstantsOK
    <3> QED BY <3>1, <3>2 DEF WholeChunks
  <2>6. Behind' /\ TailMade' /\ Started'
    BY <1>1 DEF Behind, TailMade, Started
  <2> QED BY <2>2, <2>4, <2>5, <2>6
<1>7. CASE Len(chunk) # Chunk
  <2>1. consumed' = consumed /\ pending' = chunk
    BY <1>1, <1>7
  <2>2. Len(chunk) < Chunk
    BY <1>2, <1>4, <1>7, ConstantsOK
  <2>3. Typed'
    BY <1>1, <1>3, <1>4, <2>1, <2>2 DEF Typed
  <2>4. NothingLost'
    BY <1>1, <1>5, <2>1 DEF NothingLost
  <2>5. WholeChunks'
    BY <2>1 DEF WholeChunks
  <2>6. Behind' /\ TailMade' /\ Started'
    BY <1>1 DEF Behind, TailMade, Started
  <2> QED BY <2>3, <2>4, <2>5, <2>6
<1> QED BY <1>6, <1>7

(* sha256_finalize() starts with nothing left to copy, so chunk_count and   *)
(* chunk_ptr give the length of the message.                                *)
LEMMA DigestFinalize ==
    ASSUME DigestInv, Finalize
    PROVE  DigestInv'
<1> USE DEF DigestInv
<1> DEFINE u == Len(pending)
           padding == Padding(Remaining(u), ChunkCount * Chunk + u)
<1>1. /\ pc = "idle" /\ input = <<>> /\ file = <<>> /\ tail = <<>>
      /\ tail' = padding /\ input' = padding /\ pc' = "finalize"
      /\ UNCHANGED <<consumed, pending, file, message>>
  BY DEF Behind, Finalize
<1>2. /\ consumed \in Seq(Symbols) /\ pending \in Seq(Symbols)
      /\ message \in Seq(Symbols) /\ u \in 0..(Chunk - 1)
  <2>1. u \in Nat
    BY LenProperties DEF Typed
  <2> QED BY <2>1, ConstantsOK DEF Typed
<1>3. consumed \o pending = message /\ consumed \o pending \in Seq(Symbols)
      /\ Len(message) = Len(consumed) + u
  <2>1. consumed \o pending \in Seq(Symbols)
        /\ Len(consumed \o pending) = Len(consumed) + u
    BY <1>2, Joined, Zenon
  <2>2. ((consumed \o pending) \o <<>>) \o <<>> = message \o <<>>
    BY <1>1 DEF NothingLost
  <2>3. consumed \o pending = message
    BY <1>2, <2>1, <2>2, NoneLeft
  <2> QED BY <2>1, <2>3
<1>4. PICK k \in Nat : Len(consumed) = k * Chunk
  BY DEF WholeChunks
<1>5. /\ ChunkCount * Chunk + u = Len(message) /\ Len(message) = k * Chunk + u
      /\ Len(message) \in Nat
  <2>1. ChunkCount = k
    BY <1>4, ConstantsOK, MultipleDiv DEF ChunkCount
  <2> QED BY <1>2, <1>3, <1>4, <2>1, LenProperties
<1>6. padding = Padding(Remaining(u), Len(message)) /\ padding \in Seq(Symbols)
  <2>1. PICK z \in Nat : Remaining(u) = 1 + z + LengthBytes
    BY <1>2, <1>5, PaddedIs
  <2> QED BY <1>5, <2>1, PaddingIs
<1> HIDE DEF padding
<1>7. Typed'
  BY <1>1, <1>6 DEF Typed, Pcs
<1>8. NothingLost'
  <2>1. (message \o padding) \o <<>> = message \o padding
    <3>1. message \o padding \in Seq(Symbols)
      BY <1>2, <1>6, Joined
    <3> QED BY <3>1, NoneLeft
  <2> QED BY <1>1, <1>3, <2>1 DEF NothingLost
<1>9. TailMade'
  <2>1. Len(message) = k * Chunk + u /\ tail' = Padding(Remaining(u), Len(message))
    BY <1>1, <1>5, <1>6
  <2> QED BY <1>1, <1>2, <1>4, <2>1 DEF TailMade
<1>10. Behind' /\ WholeChunks'
  BY <1>1 DEF Behind, WholeChunks
<1>11. Started'
  BY <1>1 DEF Started, Finalize, StartFromInitial
<1> QED BY <1>7, <1>8, <1>9, <1>10, <1>11

(* One step for each function, and for each turn of its loop.               *)
LEMMA DigestStep == DigestInv /\ [Next]_vars => DigestInv'
<1> SUFFICES ASSUME DigestInv, [Next]_vars PROVE DigestInv'
  OBVIOUS
<1>1. ASSUME NEW k \in 0..MaxBytes, AppendData(k) \/ AppendFile(k) PROVE DigestInv'
  BY <1>1, DigestAppend
<1>2. CASE Read
  BY <1>2, DigestRead
<1>3. CASE ReadFails
  BY <1>3 DEF DigestInv, Typed, NothingLost, Behind, WholeChunks, TailMade, Started,
              ReadFails, Pcs
<1>4. CASE Copy
  BY <1>4, DigestCopy
<1>5. CASE Appended
  BY <1>5 DEF DigestInv, Typed, NothingLost, Behind, WholeChunks, TailMade, Started,
              Appended, Pcs
<1>6. CASE Finalize
  BY <1>6, DigestFinalize
<1>7. CASE UNCHANGED vars
  BY <1>7 DEF DigestInv, Typed, NothingLost, Behind, WholeChunks, TailMade, Started, vars
<1> QED BY <1>1, <1>2, <1>3, <1>4, <1>5, <1>6, <1>7 DEF Next, Completed

(* When the padding has been copied the last chunk is full, for message and *)
(* padding together are whole chunks: so all has been compressed.           *)
LEMMA DigestWhole == DigestInv => DigestOfPadded
<1> SUFFICES ASSUME DigestInv PROVE DigestOfPadded
  OBVIOUS
<1> USE DEF DigestInv
<1>1. ASSUME pc = "completed" PROVE consumed = Padded(message) /\ pending = <<>> /\ iv
  <2> DEFINE p == Len(pending)
  <2>1. /\ consumed \in Seq(Symbols) /\ pending \in Seq(Symbols)
        /\ message \in Seq(Symbols) /\ tail \in Seq(Symbols) /\ p \in 0..(Chunk - 1)
    <3>1. p \in Nat
      BY LenProperties DEF Typed
    <3> QED BY <3>1, ConstantsOK DEF Typed
  <2>2. PICK k \in Nat, u \in 0..(Chunk - 1) :
            Len(message) = k * Chunk + u /\ tail = Padding(Remaining(u), Len(message))
    BY <1>1 DEF TailMade
  <2>3. PICK j \in Nat : Len(consumed) = j * Chunk
    BY DEF WholeChunks
  <2>4. PICK z \in Nat :
            /\ Remaining(u) = 1 + z + LengthBytes
            /\ Padded(message) = message \o <<128>> \o Zeros(z) \o LengthField(Len(message))
    BY <2>2, PaddedIs
  <2>5. /\ tail = <<128>> \o Zeros(z) \o LengthField(Len(message))
        /\ Len(tail) = Remaining(u)
    <3>1. Len(message) \in Nat
      BY <2>1, LenProperties
    <3>2. tail = Padding(1 + z + LengthBytes, Len(message))
      BY <2>2, <2>4, Zenon
    <3>3. /\ tail = <<128>> \o Zeros(z) \o LengthField(Len(message))
          /\ Len(tail) = 1 + z + LengthBytes
      BY <3>1, <3>2, PaddingIs, Zenon
    <3> QED BY <2>4, <3>3
  <2>6. consumed \o pending = message \o tail
    <3>1. input = <<>> /\ file = <<>>
      BY <1>1 DEF Behind
    <3>2. consumed \o pending \in Seq(Symbols)
      BY <2>1, Joined
    <3> QED BY <3>1, <3>2, NoneLeft DEF NothingLost
  <2>7. j * Chunk + p = k * Chunk + u + Remaining(u)
    <3>1. /\ Len(consumed \o pending) = Len(consumed) + p
          /\ Len(message \o tail) = Len(message) + Len(tail)
      BY <2>1, Joined, Zenon
    <3> QED BY <2>2, <2>3, <2>5, <2>6, <3>1
  <2>8. p = 0
    <3> DEFINE i == IF u < Chunk - LengthBytes THEN 1 ELSE 2
    <3>1. i \in Nat /\ u + Remaining(u) = i * Chunk /\ Remaining(u) \in Int
      BY ConstantsOK DEF Remaining
    <3> HIDE DEF i
    <3>2. (k + i) * Chunk = k * Chunk + i * Chunk
      BY <3>1, ConstantsOK
    <3>3. /\ k * Chunk \in Int /\ j * Chunk \in Int /\ i * Chunk \in Int
          /\ (k + i) * Chunk \in Int /\ k + i \in Int
      BY <3>1, ConstantsOK
    <3> HIDE DEF p
    <3>4. (k + i) * Chunk - j * Chunk = p
      <4>1. u \in Int /\ p \in Int
        BY <2>1, ConstantsOK
      <4>2. j * Chunk + p = k * Chunk + (u + Remaining(u))
        BY <2>7, <3>1, <3>3, <4>1
      <4> QED BY <3>1, <3>2, <3>3, <4>1, <4>2
    <3>5. k + i = j
      <4>1. /\ (k + i) * Chunk - j * Chunk < Chunk
            /\ j * Chunk - (k + i) * Chunk < Chunk
        BY <2>1, <3>3, <3>4, ConstantsOK
      <4>2. k + i \in Int /\ j \in Int /\ Chunk \in Nat \ {0}
        BY <3>3, ConstantsOK
      <4> QED BY ONLY <4>1, <4>2, MultiplesApart, Zenon
    <3> QED BY <3>3, <3>4, <3>5
  <2>9. pending = <<>>
    BY <2>1, <2>8, EmptySeq
  <2>10. consumed = message \o tail
    BY <2>1, <2>6, <2>9, NoneLeft
  <2>11. message \o tail = Padded(message)
    <3> DEFINE M == <<128>>
               Z == Zeros(z)
               F == LengthField(Len(message))
    <3>1. M \in Seq(Symbols) /\ Z \in Seq(Symbols) /\ F \in Seq(Symbols)
      <4>1. Len(message) \in Nat
        BY <2>1, LenProperties
      <4>2. F \in Seq(Symbols)
        BY <4>1, FieldIs
      <4> QED BY <4>2 DEF Zeros, Symbols
    <3> HIDE DEF M, Z, F
    <3>2. M \o Z \in Seq(Symbols)
      BY <3>1, Joined
    <3>3. (message \o (M \o Z)) \o F = message \o ((M \o Z) \o F)
      <4>1. message \in Seq(Symbols)
        BY <2>1
      <4>2. Join(Join(message, M \o Z), F) = Join(message, Join(M \o Z, F))
        BY <3>1, <3>2, <4>1, JoinOrder
      <4> QED BY <4>2 DEF Join
    <3>4. (message \o M) \o Z = message \o (M \o Z)
      <4>1. message \in Seq(Symbols)
        BY <2>1
      <4>2. Join(Join(message, M), Z) = Join(message, Join(M, Z))
        BY <3>1, <4>1, JoinOrder
      <4> QED BY <4>2 DEF Join
    <3>5. tail = (M \o Z) \o F
      BY <2>5 DEF M, Z, F
    <3>6. Padded(message) = ((message \o M) \o Z) \o F
      BY <2>4 DEF M, Z, F
    <3> QED BY <3>3, <3>4, <3>5, <3>6
  <2>12. iv
    BY <1>1 DEF Started
  <2> QED BY <2>9, <2>10, <2>11, <2>12
<1> QED BY <1>1 DEF DigestOfPadded

-----------------------------------------------------------------------------
(* All through the calls of a digest, its parts fit together.               *)
THEOREM DigestInvariant == Spec => []DigestInv
<1> QED BY DigestInit, DigestStep, PTL DEF Spec

(* However a message is cut up into calls and reads, nothing of it is lost, *)
(* repeated or reordered on its way through input, chunk and compression,   *)
(* and sha256_finalize() ends with exactly the padded message compressed.   *)
THEOREM DigestIsOfPadded == Spec => []DigestOfPadded
<1> QED BY DigestInvariant, DigestWhole, PTL
-----------------------------------------------------------------------------
(* Archives.  As many elements of a finite set come before the i-th one, in *)
(* the order of their keys, as there should.                                *)
LEMMA RankTaken ==
    ASSUME NEW S, IsFiniteSet(S), NEW key \in [S -> Int],
           \A q, r \in S : key[q] = key[r] => q = r,
           NEW i \in 1..Cardinality(S)
    PROVE  \E q \in S : Cardinality({r \in S : key[r] < key[q]}) = i - 1
<1> DEFINE Below(q) == {r \in S : key[r] < key[q]}
           rank == [q \in S |-> Cardinality(Below(q))]
           n == Cardinality(S)
<1>1. n \in Nat
  BY FS_CardinalityType
<1>2. \A q \in S : /\ IsFiniteSet(Below(q)) /\ Cardinality(Below(q)) \in Nat
                   /\ Cardinality(Below(q)) < n
  <2> TAKE q \in S
  <2>1. Below(q) \in SUBSET S
    OBVIOUS
  <2>2. q \notin Below(q)
    OBVIOUS
  <2>3. Below(q) # S
    BY <2>2
  <2>4. /\ IsFiniteSet(Below(q)) /\ Cardinality(Below(q)) <= n
        /\ (n = Cardinality(Below(q)) => S = Below(q))
    <3> HIDE DEF Below
    <3> QED BY <2>1, FS_Subset
  <2>5. Cardinality(Below(q)) \in Nat
    BY <2>4, FS_CardinalityType
  <2> HIDE DEF Below, n
  <2> QED BY <1>1, <2>3, <2>4, <2>5
<1>3. \A q, r \in S : key[q] < key[r] => Cardinality(Below(q)) # Cardinality(Below(r))
  <2> SUFFICES ASSUME NEW q \in S, NEW r \in S, key[q] < key[r]
               PROVE  Cardinality(Below(q)) # Cardinality(Below(r))
    OBVIOUS
  <2>1. Below(q) \in SUBSET Below(r)
    <3>1. ASSUME NEW t \in S, key[t] < key[q] PROVE key[t] < key[r]
      <4>1. key[t] \in Int /\ key[q] \in Int /\ key[r] \in Int
        OBVIOUS
      <4> QED BY <3>1, <4>1
    <3> QED BY <3>1
  <2>2. q \in Below(r) /\ q \notin Below(q)
    OBVIOUS
  <2>3. Below(r) # Below(q)
    BY <2>2
  <2> HIDE DEF Below
  <2> QED BY <1>2, <2>1, <2>3, FS_Subset
<1>4. rank \in [S -> 0..(n - 1)]
  <2> HIDE DEF Below, n
  <2>1. \A q \in S : Cardinality(Below(q)) \in 0..(n - 1)
    BY <1>1, <1>2
  <2> QED BY <2>1
<1>5. \A q, r \in S : q # r => rank[q] # rank[r]
  <2> SUFFICES ASSUME NEW q \in S, NEW r \in S, q # r
               PROVE  rank[q] # rank[r]
    OBVIOUS
  <2>1. key[q] < key[r] \/ key[r] < key[q]
    BY key[q] \in Int, key[r] \in Int
  <2> HIDE DEF Below
  <2> QED BY <1>3, <2>1
<1>6. rank \in Injection(S, 0..(n - 1))
  <2> HIDE DEF rank
  <2> QED BY <1>4, <1>5 DEF Injection, IsInjective
<1>7. IsFiniteSet(0..(n - 1)) /\ Cardinality(0..(n - 1)) = n
  <2> HIDE DEF n
  <2>1. 0 \in Int /\ n - 1 \in Int
    BY <1>1
  <2>2. /\ IsFiniteSet(0..(n - 1))
        /\ Cardinality(0..(n - 1)) = IF 0 > n - 1 THEN 0 ELSE n - 1 - 0 + 1
    BY <2>1, FS_Interval
  <2> QED BY <1>1, <2>2
<1>8. rank \in Surjection(S, 0..(n - 1))
  <2> HIDE DEF rank
  <2> QED BY <1>6, <1>7, FS_Injection
<1>9. i - 1 \in 0..(n - 1)
  BY <1>1
<1>10. PICK q \in S : rank[q] = i - 1
  <2> HIDE DEF rank, n
  <2> QED BY <1>8, <1>9 DEF Surjection
<1> QED BY <1>10

\* The directory, with the types of all that a walk keeps.
Place == Seq(DOMAIN tree) \X Seq(Nat)

Result == {"none", "ok", "fail", "panic"}

Codes == [hash : Result, write : Result, extract : Result]

CarTypes ==
    /\ tree \in Car!Trees
    /\ todo \in Seq(DOMAIN tree)
    /\ hashed \in Seq(Nat) /\ archive \in Seq(Nat)
    /\ codes \in Codes
    /\ ro \in BOOLEAN /\ lost \in BOOLEAN
    /\ fails \in Nat

LEMMA TreeIs ==
    ASSUME tree \in Car!Trees
    PROVE  /\ IsFiniteSet(DOMAIN tree) /\ DOMAIN tree \subseteq Seq(Nat)
           /\ \A p \in DOMAIN tree :
                 /\ tree[p] \in Car!ArchiveEntry
                 /\ tree[p].kind \in {"file", "dir", "link", "other"}
                 /\ tree[p].data \in Seq(Nat) /\ tree[p].w \in BOOLEAN
<1>1. PICK S \in SUBSET EntryPaths : tree \in [S -> Car!ArchiveEntry]
  BY DEF Car!Trees
<1>2. DOMAIN tree \subseteq EntryPaths
  BY <1>1
<1>3. IsFiniteSet(DOMAIN tree)
  BY <1>2, ArchiveBounds, FS_Subset
<1>4. <<>> \in Seq(Nat) /\ <<97>> \in Seq(Nat)
  OBVIOUS
<1>5. ASSUME NEW e \in Car!ArchiveEntry
      PROVE  /\ e.kind \in {"file", "dir", "link", "other"}
             /\ e.data \in Seq(Nat) /\ e.w \in BOOLEAN
  BY <1>4, ArchiveBounds DEF Car!ArchiveEntry
<1> QED BY <1>1, <1>2, <1>3, <1>5, ArchiveBounds

(* scandir() gives the entries of a directory and no others.                *)
LEMMA ListingIs ==
    ASSUME tree \in Car!Trees, NEW p
    PROVE  Car!Listing(p) \in Seq(DOMAIN tree)
<1> DEFINE S == Car!Entries(p)
           key == [q \in S |-> Last(q)]
<1>1. S \subseteq DOMAIN tree /\ IsFiniteSet(S) /\ S \subseteq Seq(Nat)
  <2>1. S \in SUBSET (DOMAIN tree)
    BY DEF Car!Entries
  <2> HIDE DEF S
  <2> QED BY <2>1, TreeIs, FS_Subset
<1>2. Cardinality(S) \in Nat
  BY <1>1, FS_CardinalityType
<1>3. \A q \in S : q \in Seq(Nat) /\ Len(q) = Len(p) + 1 /\ Front(q) = p
  BY <1>1 DEF Car!Entries, Car!Front, Front
<1>4. \A q \in S : q # <<>>
  <2> SUFFICES ASSUME <<>> \in S
               PROVE  FALSE
    OBVIOUS
  <2>1. Front(<<>>) = p /\ Len(<<>>) = Len(p) + 1
    BY <1>3
  <2>2. Front(<<>>) = SubSeq(<<>>, 1, Len(<<>>) - 1)
    BY DEF Front
  <2>3. SubSeq(<<>>, 1, Len(<<>>) - 1) = <<>>
    BY SMT
  <2> QED BY <2>1, <2>2, <2>3
<1>5. key \in [S -> Int]
  <2> SUFFICES ASSUME NEW q \in S
               PROVE  Last(q) \in Int
    OBVIOUS
  <2>1. q \in Seq(Nat) /\ q # <<>>
    BY <1>3, <1>4
  <2> HIDE DEF S
  <2> QED BY <2>1 DEF Last
<1>6. ASSUME NEW q \in S, NEW r \in S, key[q] = key[r]
      PROVE  q = r
  <2>1. /\ q \in Seq(Nat) /\ r \in Seq(Nat) /\ q # <<>> /\ Len(q) = Len(r)
        /\ Front(q) = Front(r) /\ Last(q) = Last(r)
    BY <1>3, <1>4, <1>6
  <2> HIDE DEF S, key
  <2>2. Len(q) \in Nat /\ Len(q) >= 1
    BY <2>1
  <2>3. ASSUME NEW k \in 1..Len(q) PROVE q[k] = r[k]
    <3>1. CASE k = Len(q)
      BY <2>1, <3>1 DEF Last
    <3>2. CASE k < Len(q)
      <4>1. Front(q)[k] = q[k] /\ Front(r)[k] = r[k]
        BY <2>1, <2>2, <3>2 DEF Front
      <4> QED BY <4>1, <2>1
    <3> QED BY <2>2, <3>1, <3>2
  <2> QED BY <2>1, <2>3, SeqEqual
<1>7. ASSUME NEW i \in 1..Cardinality(S)
      PROVE  \E q \in S : Cardinality({r \in S : Last(r) < Last(q)}) = i - 1
  <2>1. PICK q \in S : Cardinality({r \in S : key[r] < key[q]}) = i - 1
    <3> HIDE DEF S, key
    <3>1. \A q, r \in S : key[q] = key[r] => q = r
      BY <1>6
    <3>2. IsFiniteSet(S) /\ i \in 1..Cardinality(S)
      BY <1>1, <1>7
    <3> QED BY <1>5, <3>1, <3>2, RankTaken
  <2>2. {r \in S : key[r] < key[q]} = {r \in S : Last(r) < Last(q)}
    OBVIOUS
  <2> QED BY <2>1, <2>2
<1>8. ASSUME NEW i \in 1..Cardinality(S)
      PROVE  (CHOOSE q \in S : Cardinality({r \in S : Last(r) < Last(q)}) = i - 1)
                \in DOMAIN tree
  <2> HIDE DEF S
  <2> QED BY <1>1, <1>7
<1>9. Car!Listing(p) = [i \in 1..Cardinality(S) |->
          CHOOSE q \in S : Cardinality({r \in S : Last(r) < Last(q)}) = i - 1]
  BY DEF Car!Listing, Car!Last, Last, Car!Cardinality, Cardinality
<1> HIDE DEF S
<1> DEFINE E(i) == CHOOSE q \in S : Cardinality({r \in S : Last(r) < Last(q)}) = i - 1
<1>10. \A i \in 1..Cardinality(S) : E(i) \in DOMAIN tree
  BY <1>8
<1>11. Car!Listing(p) = [i \in 1..Cardinality(S) |-> E(i)]
  BY <1>9
<1> HIDE DEF E
<1> QED BY <1>2, <1>10, <1>11

-----------------------------------------------------------------------------
(* A walk that keeps the permissions has come to a place: what is left of   *)
(* it, and the bytes so far.  One step of it:                               *)
After(x) ==
    LET p == Head(x[1])  e == tree[p] IN
    <<(IF e.kind = "dir" THEN Car!Listing(p) ELSE <<>>) \o Tail(x[1]),
      IF e.kind = "other" THEN x[2] ELSE x[2] \o Car!Lead(p, e, FALSE) \o Car!Body(e)>>

Begin == <<Car!Listing(<<>>), <<Car!Magic>>>>

\* Places that no walk leaves.  A walk that is in such a set ends in it:
\* that takes the place of an induction on its length.
Closed(C) == C \subseteq Place /\ \A x \in C : x[1] # <<>> => After(x) \in C

\* Hashing goes where every walk goes from the start.  From where writing is,
\* one ends with the bytes that were hashed.
Hashing ==
    /\ archive = <<Car!Magic>> /\ codes.hash = "none" /\ codes.write = "none"
    /\ \A C : Closed(C) /\ Begin \in C => <<todo, hashed>> \in C

Writing ==
    /\ codes.write = "none"
    /\ codes.hash = "ok" /\ ~lost /\ ~ro =>
          \A C : Closed(C) /\ <<todo, archive>> \in C =>
              \E h \in Seq(Nat) : <<<<>>, h>> \in C /\ hashed = Append(h, Car!Nul)

ArchiveInv ==
    /\ HashIsOfArchive
    /\ part = "archives" =>
          /\ CarTypes
          /\ op = "hash" => Hashing
          /\ op = "write" => Writing

LEMMA PrefixExtended ==
    ASSUME NEW a \in Seq(Nat), NEW b \in Seq(Nat), NEW c \in Seq(Nat),
           Car!IsPrefix(a, b)
    PROVE  Car!IsPrefix(a, b \o c)
<1>1. /\ b \o c \in Seq(Nat) /\ Len(b \o c) = Len(b) + Len(c)
      /\ \A i \in 1..Len(b) : (b \o c)[i] = b[i]
  BY ConcatProperties
<1>2. Len(a) \in Nat /\ Len(b) \in Nat /\ Len(c) \in Nat
  OBVIOUS
<1>3. Len(a) <= Len(b) /\ SubSeq(a, 1, Len(a)) = SubSeq(b, 1, Len(a))
  BY DEF Car!IsPrefix
<1>4. SubSeq(b, 1, Len(a)) = SubSeq(b \o c, 1, Len(a))
  <2> DEFINE d == b \o c
  <2>1. d \in Seq(Nat) /\ Len(b) <= Len(d) /\ \A i \in 1..Len(b) : d[i] = b[i]
    BY <1>1, <1>2
  <2> HIDE DEF d
  <2>2. SubSeq(b, 1, Len(a)) = SubSeq(d, 1, Len(a))
    BY <1>2, <1>3, <2>1
  <2> QED BY <2>2 DEF d
<1> QED BY <1>1, <1>2, <1>3, <1>4 DEF Car!IsPrefix

LEMMA PrefixSelf ==
    ASSUME NEW a \in Seq(Nat)
    PROVE  Car!IsPrefix(a, a)
BY Len(a) \in Nat DEF Car!IsPrefix

\* What is written of an entry.
LEMMA EntryBytes ==
    ASSUME tree \in Car!Trees, NEW p \in DOMAIN tree
    PROVE  \A readonly \in BOOLEAN :
              /\ Car!Lead(p, tree[p], readonly) \in Seq(Nat)
              /\ Car!Body(tree[p]) \in Seq(Nat)
<1> TAKE readonly \in BOOLEAN
<1>1. p \in Seq(Nat) /\ tree[p].data \in Seq(Nat)
  BY TreeIs
<1>2. Car!Attr(tree[p], readonly) \in Nat /\ Car!Nul \in Nat
  BY DEF Car!Attr, Car!Nul
<1>3. Car!Lead(p, tree[p], readonly) \in Seq(Nat)
  <2>1. <<Car!Nul, Car!Attr(tree[p], readonly)>> \in Seq(Nat)
    BY <1>2
  <2> QED BY <1>1, <2>1, ConcatProperties DEF Car!Lead
<1>4. Car!Body(tree[p]) \in Seq(Nat)
  <2>1. \A n \in Nat : n % 256 \in Nat /\ n \div 256 \in Nat
    OBVIOUS
  <2>2. /\ <<Car!Nul>> \in Seq(Nat) /\ <<>> \in Seq(Nat)
        /\ <<Len(tree[p].data) % 256, Len(tree[p].data) \div 256>> \in Seq(Nat)
    <3>1. Len(tree[p].data) \in Nat
      BY <1>1, LenProperties
    <3> DEFINE n == Len(tree[p].data)
    <3> HIDE DEF n
    <3>2. n % 256 \in Nat /\ n \div 256 \in Nat
      BY <2>1, <3>1 DEF n
    <3>3. <<n % 256, n \div 256>> \in Seq(Nat)
      BY <3>2
    <3>4. <<Car!Nul>> \in Seq(Nat) /\ <<>> \in Seq(Nat)
      BY <1>2
    <3>5. <<Len(tree[p].data) % 256, Len(tree[p].data) \div 256>> \in Seq(Nat)
      BY <3>3 DEF n
    <3> QED BY <3>4, <3>5
  <2>3. CASE tree[p].kind = "link"
    BY <2>3, <1>1, <2>2, ConcatProperties DEF Car!Body
  <2>4. CASE tree[p].kind = "file"
    <3> DEFINE length == <<Len(tree[p].data) % 256, Len(tree[p].data) \div 256>>
    <3>1. Car!Body(tree[p]) = length \o tree[p].data
      BY <2>4 DEF Car!Body
    <3> HIDE DEF length
    <3>2. length \in Seq(Nat)
      BY <2>2 DEF length
    <3> QED BY <1>1, <3>1, <3>2, ConcatProperties
  <2>5. CASE tree[p].kind \notin {"link", "file"}
    BY <2>5, <2>2 DEF Car!Body
  <2> QED BY <2>3, <2>4, <2>5
<1> QED BY <1>3, <1>4

LEMMA AfterIs ==
    ASSUME tree \in Car!Trees, NEW x \in Place, x[1] # <<>>
    PROVE  /\ Head(x[1]) \in DOMAIN tree
           /\ After(x) \in Place
           /\ \A a \in Seq(Nat) : Car!IsPrefix(a, x[2]) => Car!IsPrefix(a, After(x)[2])
<1> DEFINE p == Head(x[1])
           e == tree[p]
           m == Car!Lead(p, e, FALSE)
           b == Car!Body(e)
           t == (IF e.kind = "dir" THEN Car!Listing(p) ELSE <<>>) \o Tail(x[1])
           h == IF e.kind = "other" THEN x[2] ELSE x[2] \o m \o b
<1>1. x[1] \in Seq(DOMAIN tree) /\ x[2] \in Seq(Nat)
  BY DEF Place
<1>2. p \in DOMAIN tree /\ Tail(x[1]) \in Seq(DOMAIN tree)
  BY <1>1, HeadTailProperties
<1>3. m \in Seq(Nat) /\ b \in Seq(Nat)
  <2> HIDE DEF p
  <2> QED BY <1>2, EntryBytes
<1>4. t \in Seq(DOMAIN tree)
  <2>1. Car!Listing(p) \in Seq(DOMAIN tree) /\ <<>> \in Seq(DOMAIN tree)
    BY ListingIs
  <2> QED BY <1>2, <2>1, ConcatProperties
<1>5. /\ x[2] \o m \in Seq(Nat) /\ (x[2] \o m) \o b \in Seq(Nat)
  <2> HIDE DEF m, b
  <2> QED BY <1>1, <1>3, ConcatProperties
<1>6. \A a \in Seq(Nat) : Car!IsPrefix(a, x[2]) => Car!IsPrefix(a, h)
  <2> TAKE a \in Seq(Nat)
  <2> HIDE DEF m, b
  <2>1. Car!IsPrefix(a, x[2]) => Car!IsPrefix(a, (x[2] \o m) \o b)
    BY <1>1, <1>3, <1>5, PrefixExtended
  <2> QED BY <2>1
<1>7. After(x) = <<t, h>>
  BY DEF After
<1>8. h \in Seq(Nat)
  BY <1>1, <1>5
<1> HIDE DEF t, h
<1> QED BY <1>2, <1>4, <1>6, <1>7, <1>8 DEF Place

\* Two sets no walk leaves: what goes on from given bytes, and one with a
\* place from which a step leads into it.
LEMMA GoesOn ==
    ASSUME tree \in Car!Trees, NEW a \in Seq(Nat)
    PROVE  Closed({x \in Place : Car!IsPrefix(a, x[2])})
BY AfterIs DEF Closed

LEMMA ComesFrom ==
    ASSUME tree \in Car!Trees, NEW C, Closed(C), NEW x \in Place, After(x) \in C
    PROVE  Closed(C \cup {x})
BY DEF Closed

LEMMA EndsThere ==
    ASSUME NEW h \in Seq(Nat)
    PROVE  Closed({<<<<>>, h>>})
<1>1. <<<<>>, h>> \in Place
  BY <<>> \in Seq(DOMAIN tree) DEF Place
<1> QED BY <1>1 DEF Closed

-----------------------------------------------------------------------------
LEMMA ArchiveInit == CommonInit => ArchiveInv
<1>1. CASE part = "archives" /\ Car!Init
  <2>1. tree \in Car!Trees /\ todo = Car!Listing(<<>>)
    BY <1>1 DEF Car!Init
  <2>2. hashed = <<Car!Magic>> /\ archive = <<Car!Magic>> /\ <<Car!Magic>> \in Seq(Nat)
    BY <1>1 DEF Car!Init, Car!Magic
  <2>3. /\ op = "hash" /\ codes = [hash |-> "none", write |-> "none", extract |-> "none"]
        /\ ro \in BOOLEAN /\ lost \in BOOLEAN /\ fails \in Nat
    BY <1>1 DEF Car!Init
  <2>4. CarTypes
    <3>1. todo \in Seq(DOMAIN tree)
      BY <2>1, ListingIs
    <3>2. codes \in Codes
      BY <2>3 DEF Codes, Result
    <3> QED BY <2>1, <2>2, <2>3, <3>1, <3>2 DEF CarTypes
  <2>5. Hashing
    BY <2>1, <2>2, <2>3 DEF Hashing, Begin
  <2>6. HashIsOfArchive
    BY <2>3 DEF HashIsOfArchive, Car!HashIsOfArchive
  <2> QED BY <1>1, <2>3, <2>4, <2>5, <2>6 DEF ArchiveInv
<1>2. CASE part # "archives" /\ CarRests
  <2>1. /\ codes.write = "ok" /\ archive = hashed /\ hashed = <<Car!Magic, Car!Nul>>
    BY <1>2 DEF CarRests
  <2>2. hashed \in Seq(Nat)
    BY <2>1 DEF Car!Magic, Car!Nul
  <2>3. HashIsOfArchive
    BY <2>1, <2>2, PrefixSelf DEF HashIsOfArchive, Car!HashIsOfArchive
  <2> QED BY <1>2, <2>3 DEF ArchiveInv
<1> QED BY <1>1, <1>2 DEF CommonInit

\* What the actions of writing and reading make of the codes.
LEMMA CodesSet ==
    ASSUME codes \in Codes,
           NEW f \in {"hash", "write", "extract"}, NEW c \in Result,
           codes' = [codes EXCEPT ![f] = c]
    PROVE  /\ codes' \in Codes
           /\ codes'[f] = c
           /\ \A g \in {"hash", "write", "extract"} : g # f => codes'[g] = codes[g]
BY DEF Codes, Result

LEMMA HashEntryInv ==
    ASSUME ArchiveInv, part = "archives", part' = part, Car!HashEntry
    PROVE  ArchiveInv'
<1>1. CarTypes /\ Hashing /\ op = "hash" /\ todo # <<>>
  BY DEF ArchiveInv, Car!HashEntry
<1> DEFINE x == <<todo, hashed>>
<1>2. x \in Place /\ x[1] = todo /\ x[2] = hashed
  BY <1>1 DEF CarTypes, Place
<1>3. UNCHANGED <<tree, ro, archive, lost>>
  BY DEF Car!HashEntry
<1>4. CASE /\ <<todo', hashed'>> = After(x)
           /\ UNCHANGED <<fails, op, codes>>
  <2>1. CarTypes'
    <3>1. <<todo', hashed'>> \in Place
      BY <1>1, <1>2, <1>4, AfterIs DEF CarTypes
    <3>2. todo' \in Seq(DOMAIN tree) /\ hashed' \in Seq(Nat)
      BY <3>1 DEF Place
    <3> QED BY <1>1, <1>3, <1>4, <3>2 DEF CarTypes
  <2>2. Hashing'
    <3>1. \A C : Closed(C) /\ Begin \in C => <<todo, hashed>> \in C
      BY <1>1 DEF Hashing
    <3>2. \A C : Closed(C) /\ Begin \in C => <<todo', hashed'>> \in C
      BY <1>1, <1>2, <1>4, <3>1 DEF Closed
    <3>3. \A C : Closed(C)' <=> Closed(C)
      BY <1>3 DEF Closed, Place, After, Car!Listing, Car!Entries
    <3>4. Begin' = Begin
      BY <1>3 DEF Begin, Car!Listing, Car!Entries
    <3> QED BY <1>1, <1>3, <1>4, <3>2, <3>3, <3>4 DEF Hashing
  <2>3. HashIsOfArchive'
    BY <1>1, <1>4 DEF Hashing, HashIsOfArchive, Car!HashIsOfArchive
  <2> QED BY <1>1, <1>4, <2>1, <2>2, <2>3 DEF ArchiveInv
<1>5. CASE /\ op' = "write" /\ codes' = [codes EXCEPT !["hash"] = "fail"]
           /\ fails' = fails + 1 /\ todo' = Car!Listing(<<>>) /\ hashed' = hashed
  <2>1. CarTypes'
    <3>1. todo' \in Seq(DOMAIN tree)
      BY <1>1, <1>5, ListingIs DEF CarTypes
    <3>2. codes' \in Codes
      <4>1. codes \in Codes /\ "fail" \in Result
        BY <1>1 DEF CarTypes, Result
      <4>2. codes' = [codes EXCEPT !["hash"] = "fail"]
        BY <1>5
      <4> QED BY <4>1, <4>2, CodesSet
    <3> QED BY <1>1, <1>3, <1>5, <3>1, <3>2 DEF CarTypes
  <2>2. codes'.hash = "fail" /\ codes'.write = "none"
    BY <1>1, <1>5, CodesSet DEF CarTypes, Hashing, Codes, Result
  <2>3. Writing'
    BY <2>2 DEF Writing
  <2>4. HashIsOfArchive'
    BY <2>2 DEF HashIsOfArchive, Car!HashIsOfArchive
  <2> QED BY <1>5, <2>1, <2>3, <2>4 DEF ArchiveInv
<1>6. CASE /\ op' = "returned" /\ codes' = [codes EXCEPT !["hash"] = "panic"]
           /\ fails' = fails + 1 /\ todo' = todo /\ hashed' = hashed
  <2>1. /\ codes' \in Codes
        /\ codes'.hash = "panic" /\ codes'.write = "none"
    BY <1>1, <1>6, CodesSet DEF CarTypes, Hashing, Codes, Result
  <2>2. CarTypes'
    BY <1>1, <1>3, <1>6, <2>1 DEF CarTypes
  <2>3. HashIsOfArchive'
    BY <2>1 DEF HashIsOfArchive, Car!HashIsOfArchive
  <2> QED BY <1>6, <2>2, <2>3 DEF ArchiveInv
<1>7. \/ /\ <<todo', hashed'>> = After(x) /\ UNCHANGED <<fails, op, codes>>
      \/ /\ op' = "write" /\ codes' = [codes EXCEPT !["hash"] = "fail"]
         /\ fails' = fails + 1 /\ todo' = Car!Listing(<<>>) /\ hashed' = hashed
      \/ /\ op' = "returned" /\ codes' = [codes EXCEPT !["hash"] = "panic"]
         /\ fails' = fails + 1 /\ todo' = todo /\ hashed' = hashed
  <2>1. CASE /\ hashed' = IF tree[Head(todo)].kind = "other" THEN hashed
                          ELSE hashed \o Car!Lead(Head(todo), tree[Head(todo)], FALSE)
                                 \o Car!Body(tree[Head(todo)])
             /\ todo' = Car!Visit(Head(todo))
             /\ UNCHANGED <<fails, op, codes>>
    BY <2>1, <1>2 DEF After, Car!Visit
  <2>2. CASE Car!Fault /\ Car!Return("hash", "fail", "write")
             /\ todo' = Car!Listing(<<>>) /\ UNCHANGED hashed
    BY <2>2 DEF Car!Fault, Car!Return
  <2>3. CASE Car!Fault /\ Car!Return("hash", "panic", "returned")
             /\ UNCHANGED <<todo, hashed>>
    BY <2>3 DEF Car!Fault, Car!Return
  <2> HIDE DEF x
  <2> QED BY <2>1, <2>2, <2>3 DEF Car!HashEntry, Car!NoFault
<1> QED BY <1>4, <1>5, <1>6, <1>7

LEMMA HashDoneInv ==
    ASSUME ArchiveInv, part = "archives", part' = part, Car!HashDone
    PROVE  ArchiveInv'
<1>1. CarTypes /\ Hashing /\ op = "hash" /\ todo = <<>>
  BY DEF ArchiveInv, Car!HashDone
<1>2. /\ UNCHANGED <<tree, ro, archive, lost, fails>>
      /\ hashed' = Append(hashed, Car!Nul) /\ todo' = Car!Listing(<<>>)
      /\ op' = "write" /\ codes' = [codes EXCEPT !["hash"] = "ok"]
  BY DEF Car!HashDone, Car!Return
<1>3. CarTypes'
  <2>1. hashed' \in Seq(Nat)
    BY <1>1, <1>2 DEF CarTypes, Car!Nul
  <2>2. todo' \in Seq(DOMAIN tree)
    BY <1>1, <1>2, ListingIs DEF CarTypes
  <2>3. codes' \in Codes
    <3>1. codes \in Codes /\ "ok" \in Result
      BY <1>1 DEF CarTypes, Result
    <3>2. codes' = [codes EXCEPT !["hash"] = "ok"]
      BY <1>2
    <3> QED BY <3>1, <3>2, CodesSet
  <2> QED BY <1>1, <1>2, <2>1, <2>2, <2>3 DEF CarTypes
<1>4. codes'.write = "none"
  BY <1>1, <1>2 DEF CarTypes, Hashing
<1>5. Writing'
  <2>1. \A C : Closed(C) /\ Begin \in C => <<<<>>, hashed>> \in C
    BY <1>1 DEF Hashing
  <2>2. \A C : Closed(C)' <=> Closed(C)
    BY <1>2 DEF Closed, Place, After, Car!Listing, Car!Entries
  <2>3. <<todo', archive'>> = Begin
    BY <1>1, <1>2 DEF Hashing, Begin
  <2>4. hashed \in Seq(Nat)
    BY <1>1 DEF CarTypes
  <2> QED BY <1>2, <1>4, <2>1, <2>2, <2>3, <2>4 DEF Writing
<1>6. HashIsOfArchive'
  BY <1>4 DEF HashIsOfArchive, Car!HashIsOfArchive
<1> QED BY <1>2, <1>3, <1>5, <1>6 DEF ArchiveInv

LEMMA WriteEntryInv ==
    ASSUME ArchiveInv, part = "archives", part' = part, Car!WriteEntry
    PROVE  ArchiveInv'
<1>1. CarTypes /\ Writing /\ op = "write" /\ todo # <<>>
  BY DEF ArchiveInv, Car!WriteEntry
<1> DEFINE p == Head(todo)
           e == tree[p]
           head == Car!Lead(p, e, ro)
           x == <<todo, archive>>
<1>2. x \in Place /\ x[1] = todo /\ x[2] = archive
  BY <1>1 DEF CarTypes, Place
<1>3. UNCHANGED <<tree, ro, hashed>>
  BY DEF Car!WriteEntry
<1>4. /\ p \in DOMAIN tree /\ head \in Seq(Nat) /\ Car!Body(e) \in Seq(Nat)
      /\ e.kind \in {"file", "dir", "link", "other"}
  <2>1. p \in DOMAIN tree
    BY <1>1, HeadTailProperties DEF CarTypes
  <2> HIDE DEF p
  <2> QED BY <1>1, <2>1, EntryBytes, TreeIs DEF CarTypes
<1>5. archive \o head \in Seq(Nat) /\ (archive \o head) \o Car!Body(e) \in Seq(Nat)
      /\ archive \o Car!Body(e) \in Seq(Nat)
  <2> HIDE DEF head, e
  <2> QED BY <1>1, <1>4, ConcatProperties DEF CarTypes
<1>6. ~ro => After(x) = <<Car!Visit(p), IF e.kind = "other" THEN archive
                                        ELSE archive \o head \o Car!Body(e)>>
  BY <1>1 DEF After, Car!Visit, CarTypes
<1>7. Car!Visit(p) \in Seq(DOMAIN tree)
  <2>1. Tail(todo) \in Seq(DOMAIN tree) /\ <<>> \in Seq(DOMAIN tree)
    BY <1>1, HeadTailProperties DEF CarTypes
  <2>2. Car!Listing(p) \in Seq(DOMAIN tree)
    BY <1>1, ListingIs DEF CarTypes
  <2> HIDE DEF p
  <2> QED BY <2>1, <2>2, ConcatProperties DEF Car!Visit
<1>8. CASE /\ todo' = Car!Visit(p) /\ op' = op /\ codes' = codes
           /\ \/ lost' = lost /\ fails' = fails
                 /\ archive' = IF e.kind = "other" THEN archive
                               ELSE archive \o head \o Car!Body(e)
              \/ lost' = TRUE /\ fails' = fails + 1 /\ archive' = archive \o Car!Body(e)
  <2>1. CarTypes'
    <3>1. archive' \in Seq(Nat)
      <4> HIDE DEF head, e
      <4> QED BY <1>1, <1>5, <1>8 DEF CarTypes
    <3>2. lost' \in BOOLEAN /\ fails' \in Nat
      <4> HIDE DEF head, e, p
      <4>1. fails' \in {fails, fails + 1} /\ lost' \in {lost, TRUE}
        BY <1>8, Zenon
      <4>2. fails \in Nat /\ lost \in BOOLEAN
        BY <1>1 DEF CarTypes
      <4>3. fails' \in Nat
        BY <4>1, <4>2
      <4>4. lost' \in BOOLEAN
        BY <4>1, <4>2, Zenon
      <4> QED BY <4>3, <4>4
    <3>3. todo' \in Seq(DOMAIN tree)
      BY <1>7, <1>8
    <3> HIDE DEF head, e, p
    <3> QED BY <1>1, <1>3, <1>8, <3>1, <3>2, <3>3 DEF CarTypes
  <2>2. Writing'
    <3>1. codes'.write = "none"
      BY <1>1, <1>8 DEF Writing
    <3>2. SUFFICES ASSUME codes'.hash = "ok", ~lost', ~ro', NEW C,
                          Closed(C)', <<todo', archive'>> \in C
                   PROVE  \E h \in Seq(Nat) : <<<<>>, h>> \in C
                                                /\ hashed' = Append(h, Car!Nul)
      BY <3>1 DEF Writing
    <3>3. Closed(C)
      <4>1. Place' = Place /\ \A y : After(y)' = After(y)
        BY <1>3 DEF Place, After, Car!Listing, Car!Entries
      <4> QED BY <3>2, <4>1 DEF Closed
    <3>4. <<todo', archive'>> = After(x)
      <4>1. lost' = lost /\ archive' = IF e.kind = "other" THEN archive
                                       ELSE archive \o head \o Car!Body(e)
        BY <1>8, <3>2
      <4> QED BY <1>3, <1>6, <1>8, <3>2, <4>1
    <3>5. Closed(C \cup {x}) /\ x \in C \cup {x}
      <4> HIDE DEF x
      <4> QED BY <1>1, <1>2, <3>2, <3>3, <3>4, ComesFrom DEF CarTypes
    <3>6. codes.hash = "ok" /\ ~lost /\ ~ro
      BY <1>3, <1>8, <3>2
    <3>7. PICK h \in Seq(Nat) : <<<<>>, h>> \in C \cup {x} /\ hashed = Append(h, Car!Nul)
      BY <1>1, <3>5, <3>6 DEF Writing
    <3>8. <<<<>>, h>> # x
      BY <1>1
    <3>9. <<<<>>, h>> \in C /\ hashed' = Append(h, Car!Nul)
      BY <1>3, <3>7, <3>8
    <3> QED BY <3>9
  <2>3. HashIsOfArchive'
    BY <1>1, <1>8 DEF Writing, HashIsOfArchive, Car!HashIsOfArchive
  <2> QED BY <1>1, <1>8, <2>1, <2>2, <2>3 DEF ArchiveInv
<1>9. CASE /\ op' = "extract" /\ codes' = [codes EXCEPT !["write"] = "fail"]
           /\ todo' = <<>> /\ lost' = lost
           /\ \/ /\ e.kind = "link" /\ fails' = fails
                 /\ archive' = archive \o head \o Car!Body(e)
              \/ fails' = fails + 1 /\ archive' \in {archive \o <<>>, archive \o head}
  <2>1. archive' \in Seq(Nat) /\ fails' \in Nat
    <3>1. archive \o <<>> = archive
      BY <1>1 DEF CarTypes
    <3> HIDE DEF head, e
    <3>2. archive' \in {archive, archive \o head, archive \o head \o Car!Body(e)}
      BY <1>9, <3>1
    <3>3. fails \in Nat /\ archive \in Seq(Nat)
      BY <1>1 DEF CarTypes
    <3>4. fails' \in Nat
      BY <1>9, <3>3
    <3> QED BY <1>5, <3>2, <3>3, <3>4
  <2>2. /\ codes' \in Codes
        /\ codes'.write = "fail" /\ codes'.hash = codes.hash
    BY <1>1, <1>9 DEF CarTypes, Codes, Result
  <2>3. CarTypes'
    <3> HIDE DEF head, e, p
    <3> QED BY <1>1, <1>3, <1>9, <2>1, <2>2 DEF CarTypes
  <2>4. ASSUME codes'.hash = "ok", ~lost', ~ro', fails' = 0
        PROVE  Car!IsPrefix(archive', hashed')
    <3>1. /\ e.kind = "link" /\ archive' = archive \o head \o Car!Body(e)
      BY <1>1, <1>9, <2>4 DEF CarTypes
    <3> DEFINE C == {y \in Place : Car!IsPrefix(archive', y[2])}
    <3>2. Closed(C)
      BY <1>1, <2>1, GoesOn DEF CarTypes
    <3>3. After(x) \in C
      <4>1. After(x) \in Place
        <5> HIDE DEF x
        <5> QED BY <1>1, <1>2, AfterIs DEF CarTypes
      <4>2. After(x)[2] = archive'
        <5>1. After(x)[2] = archive \o head \o Car!Body(e)
          <6> DEFINE b == archive \o head \o Car!Body(e)
          <6>1. After(x) = <<Car!Visit(p), b>>
            BY <1>3, <1>6, <2>4, <3>1
          <6> HIDE DEF b, x
          <6> QED BY <6>1 DEF b
        <5> QED BY <3>1, <5>1
      <4> QED BY <2>1, <4>1, <4>2, PrefixSelf
    <3>4. Closed(C \cup {x}) /\ x \in C \cup {x}
      <4> HIDE DEF x, C
      <4> QED BY <1>1, <1>2, <3>2, <3>3, ComesFrom DEF CarTypes
    <3>5. codes.hash = "ok" /\ ~lost /\ ~ro
      BY <1>3, <1>9, <2>2, <2>4
    <3>6. PICK h \in Seq(Nat) : <<<<>>, h>> \in C \cup {x} /\ hashed = Append(h, Car!Nul)
      <4> HIDE DEF C
      <4> QED BY <1>1, <3>4, <3>5 DEF Writing
    <3>7. <<<<>>, h>> # x
      BY <1>1
    <3>8. Car!IsPrefix(archive', h)
      BY <3>6, <3>7
    <3>9. hashed' = h \o <<Car!Nul>> /\ <<Car!Nul>> \in Seq(Nat)
      <4>1. \A g \in Seq(Nat) : Append(g, 0) = g \o <<0>>
        BY AppendIsConcat
      <4> QED BY <1>3, <3>6, <4>1 DEF Car!Nul
    <3> QED BY <2>1, <3>8, <3>9, PrefixExtended
  <2>5. HashIsOfArchive'
    <3>1. codes'.write # "ok"
      BY <2>2, Zenon
    <3> QED BY <2>4, <3>1, Zenon DEF HashIsOfArchive, Car!HashIsOfArchive
  <2> QED BY <1>9, <2>3, <2>5 DEF ArchiveInv
<1>10. \/ /\ todo' = Car!Visit(p) /\ op' = op /\ codes' = codes
          /\ \/ lost' = lost /\ fails' = fails
                /\ archive' = IF e.kind = "other" THEN archive
                              ELSE archive \o head \o Car!Body(e)
             \/ lost' = TRUE /\ fails' = fails + 1 /\ archive' = archive \o Car!Body(e)
       \/ /\ op' = "extract" /\ codes' = [codes EXCEPT !["write"] = "fail"]
          /\ todo' = <<>> /\ lost' = lost
          /\ \/ /\ e.kind = "link" /\ fails' = fails
                /\ archive' = archive \o head \o Car!Body(e)
             \/ fails' = fails + 1 /\ archive' \in {archive \o <<>>, archive \o head}
  BY DEF Car!WriteEntry, Car!Fault, Car!NoFault, Car!Extract, Car!Return
<1> QED BY <1>8, <1>9, <1>10

LEMMA WriteDoneInv ==
    ASSUME ArchiveInv, part = "archives", part' = part, Car!WriteDone
    PROVE  ArchiveInv'
<1>1. CarTypes /\ Writing /\ op = "write" /\ todo = <<>>
  BY DEF ArchiveInv, Car!WriteDone
<1>2. UNCHANGED <<tree, ro, todo, hashed, lost>> /\ op' = "extract"
  BY DEF Car!WriteDone, Car!Extract, Car!Return
<1>3. \/ /\ codes' = [codes EXCEPT !["write"] = "ok"]
         /\ archive' = Append(archive, Car!Nul) /\ fails' = fails
      \/ /\ codes' = [codes EXCEPT !["write"] = "fail"]
         /\ archive' = archive /\ fails' = fails + 1
  BY DEF Car!WriteDone, Car!Extract, Car!Return, Car!NoFault, Car!Fault
<1>4. archive' \in Seq(Nat) /\ fails' \in Nat
  <2>1. Append(archive, Car!Nul) \in Seq(Nat) /\ archive \in Seq(Nat)
    BY <1>1 DEF CarTypes, Car!Nul
  <2>2. fails \in Nat /\ fails + 1 \in Nat
    BY <1>1 DEF CarTypes
  <2>3. /\ archive' \in {Append(archive, Car!Nul), archive}
        /\ fails' \in {fails, fails + 1}
    BY <1>3, Zenon
  <2> QED BY <2>1, <2>2, <2>3
<1>5. /\ codes' \in Codes
      /\ codes'.hash = codes.hash
      /\ \/ codes'.write = "ok" /\ archive' = Append(archive, Car!Nul)
         \/ codes'.write = "fail" /\ fails' # 0
  BY <1>1, <1>3 DEF CarTypes, Codes, Result
<1>6. CarTypes'
  BY <1>1, <1>2, <1>4, <1>5 DEF CarTypes
<1>7. ASSUME codes'.hash = "ok", ~lost', ~ro', codes'.write = "ok"
      PROVE  archive' = hashed'
  <2>1. Closed({<<<<>>, archive>>}) /\ <<todo, archive>> \in {<<<<>>, archive>>}
    BY <1>1, EndsThere DEF CarTypes
  <2>2. PICK h \in Seq(Nat) : <<<<>>, h>> \in {<<<<>>, archive>>}
                                /\ hashed = Append(h, Car!Nul)
    BY <1>1, <1>2, <1>5, <1>7, <2>1 DEF Writing
  <2> QED BY <1>2, <1>5, <1>7, <2>2
<1>8. HashIsOfArchive'
  <2>1. archive' = hashed' => Car!IsPrefix(archive', hashed')
    BY <1>4, PrefixSelf
  <2> QED BY <1>5, <1>7, <2>1 DEF HashIsOfArchive, Car!HashIsOfArchive
<1> QED BY <1>2, <1>6, <1>8 DEF ArchiveInv

\* What the reader of an archive does makes no difference any more.
LEMMA ReadingInv ==
    ASSUME ArchiveInv, part = "archives", part' = part, Car!Reading
    PROVE  ArchiveInv'
<1>1. CarTypes
  BY DEF ArchiveInv
<1>2. /\ op = "extract" /\ UNCHANGED <<tree, ro, todo, hashed, archive>>
      /\ lost' = lost \/ lost' = TRUE
      /\ \/ op' = op /\ codes' = codes
         \/ /\ op' = "returned"
            /\ \E c \in {"ok", "fail"} : codes' = [codes EXCEPT !["extract"] = c]
      /\ fails' = fails \/ fails' = fails + 1
  BY DEF Car!Reading, Car!Read, Car!HeaderByte, Car!NameByte, Car!Mode, Car!LengthByte,
         Car!Data, Car!TargetByte, Car!Pause, Car!Success, Car!Failure, Car!Bad, Car!At,
         Car!Going, Car!More, Car!Ended, Car!Return, Car!walk, Car!Fault, Car!NoFault
<1>3. /\ codes' \in Codes
      /\ codes'.hash = codes.hash /\ codes'.write = codes.write
  BY <1>1, <1>2 DEF CarTypes, Codes, Result
<1>6. lost' \in BOOLEAN
  <2>1. lost \in BOOLEAN
    BY <1>1 DEF CarTypes
  <2>2. lost' = lost \/ lost' = TRUE
    BY <1>2
  <2> QED BY <2>1, <2>2, Zenon
<1>4. CarTypes'
  BY <1>1, <1>2, <1>3, <1>6 DEF CarTypes
<1>5. HashIsOfArchive'
  <2>1. HashIsOfArchive /\ (fails' = 0 => fails = 0)
    BY <1>1, <1>2 DEF ArchiveInv, CarTypes
  <2> QED BY <1>2, <1>3, <2>1 DEF HashIsOfArchive, Car!HashIsOfArchive
<1> QED BY <1>2, <1>4, <1>5 DEF ArchiveInv

LEMMA ArchiveKept ==
    ASSUME ArchiveInv, UNCHANGED <<part, carVars>>
    PROVE  ArchiveInv'
<1>1. /\ part' = part /\ tree' = tree /\ ro' = ro /\ op' = op /\ todo' = todo
      /\ hashed' = hashed /\ archive' = archive /\ codes' = codes /\ lost' = lost
      /\ fails' = fails
  BY DEF carVars
<1>2. HashIsOfArchive' <=> HashIsOfArchive
  BY <1>1 DEF HashIsOfArchive, Car!HashIsOfArchive
<1>3. CarTypes' <=> CarTypes
  BY <1>1 DEF CarTypes, Car!Trees, Car!ArchiveEntry, Car!IsTree
<1>4. \A C : Closed(C)' <=> Closed(C)
  BY <1>1 DEF Closed, Place, After, Car!Listing, Car!Entries
<1>5. Begin' = Begin
  BY <1>1 DEF Begin, Car!Listing, Car!Entries
<1>6. (Hashing' <=> Hashing) /\ (Writing' <=> Writing)
  BY <1>1, <1>4, <1>5 DEF Hashing, Writing
<1> QED BY <1>1, <1>2, <1>3, <1>6 DEF ArchiveInv

LEMMA ArchiveStep == ArchiveInv /\ [CommonNext]_commonVars => ArchiveInv'
<1> SUFFICES ASSUME ArchiveInv, [CommonNext]_commonVars
             PROVE  ArchiveInv'
  OBVIOUS
<1>1. CASE CarStep
  <2>1. part = "archives" /\ part' = part /\ Car!Next
    BY <1>1 DEF CarStep
  <2>2. CASE Car!Walk
    BY <2>1, <2>2, HashEntryInv, HashDoneInv, WriteEntryInv, WriteDoneInv DEF Car!Walk
  <2>3. CASE Car!Reading
    BY <2>1, <2>3, ReadingInv
  <2>4. CASE Car!Rest
    BY <2>1, <2>4, ArchiveKept DEF Car!Rest, Car!vars, carVars
  <2> QED BY <2>1, <2>2, <2>3, <2>4 DEF Car!Next
<1>2. CASE UNCHANGED <<part, carVars>>
  BY <1>2, ArchiveKept
<1>3. ~CarStep => UNCHANGED <<part, carVars>>
  BY DEF CommonNext, commonVars, HashingStep, StreamStep, StringStep, PathStep
<1> QED BY <1>1, <1>2, <1>3

(* All through the walks over a directory, the place each has come to is    *)
(* where the other walk was or will be (archive.c, iterate()).              *)
THEOREM ArchiveInvariant == CommonSpec => []ArchiveInv
<1> QED BY ArchiveInit, ArchiveStep, PTL DEF CommonSpec

(* Whatever is in a directory: car_hash() gives the hash of what            *)
(* car_archive() writes, all of it or, if a link ends the archive early, of *)
(* something it is a beginning of.                                          *)
THEOREM ArchivesHashed == CommonSpec => []HashIsOfArchive
<1>1. ArchiveInv => HashIsOfArchive
  BY DEF ArchiveInv
<1> QED BY <1>1, ArchiveInvariant, PTL

-----------------------------------------------------------------------------
(* Least and greatest elements, and the capacity that s_reserve() asks for. *)
LEMMA LeastNatural ==
    ASSUME NEW S, S \subseteq Nat, S # {}
    PROVE  /\ Dynamic!Min(S) \in S
           /\ \A k \in S : Dynamic!Min(S) <= k
<1> DEFINE less == OpToRel(<, Nat)
<1>1. IsWellFoundedOn(less, Nat)
  BY NatLessThanWellFounded
<1>2. \A m, n \in Nat : m < n => <<m, n>> \in less
  BY DEF OpToRel
<1> HIDE DEF less
<1>3. PICK s \in S : \A t \in S : ~(<<t, s>> \in less)
  BY <1>1, WFMin
<1>4. \A t \in S : s <= t
  <2> TAKE t \in S
  <2>1. s \in Nat /\ t \in Nat
    OBVIOUS
  <2>2. ~(t < s)
    BY <1>2, <1>3, <2>1
  <2> QED BY <2>1, <2>2
<1> QED BY <1>4 DEF Dynamic!Min

LEMMA GreatestBelow ==
    ASSUME NEW n \in Nat, NEW S, S \subseteq 0..n, S # {}
    PROVE  /\ Dynamic!Max(S) \in S
           /\ \A k \in S : k <= Dynamic!Max(S)
<1> DEFINE D == {n - k : k \in S}
<1>1. D \subseteq Nat /\ D # {}
  <2>1. \A k \in S : n - k \in Nat
    <3>1. \A k \in 0..n : n - k \in Nat
      OBVIOUS
    <3> QED BY <3>1
  <2> QED BY <2>1
<1> HIDE DEF D
<1>2. PICK d \in D : \A e \in D : d <= e
  BY <1>1, LeastNatural
<1>3. PICK k \in S : d = n - k
  BY <1>2 DEF D
<1>4. \A j \in S : k >= j
  <2> TAKE j \in S
  <2>1. n - j \in D
    BY DEF D
  <2>2. d <= n - j
    BY <1>2, <2>1
  <2> QED BY <1>3, <2>2
<1>5. \E m \in S : \A j \in S : m >= j
  BY <1>4
<1>6. Dynamic!Max(S) \in S /\ \A j \in S : Dynamic!Max(S) >= j
  BY <1>5 DEF Dynamic!Max
<1> QED BY <1>6

LEMMA OfTwo ==
    ASSUME NEW a \in Int, NEW b \in Int
    PROVE  /\ Dynamic!Min({a, b}) = IF a <= b THEN a ELSE b
           /\ Dynamic!Max({a, b}) = IF a <= b THEN b ELSE a
<1>1. Dynamic!Min({a, b}) = IF a <= b THEN a ELSE b
  <2> DEFINE m == Dynamic!Min({a, b})
  <2>1. \E k \in {a, b} : \A y \in {a, b} : k <= y
    OBVIOUS
  <2>2. m \in {a, b} /\ \A y \in {a, b} : m <= y
    BY <2>1 DEF Dynamic!Min
  <2> HIDE DEF m
  <2>3. m = IF a <= b THEN a ELSE b
    BY <2>2
  <2> QED BY <2>3 DEF m
<1>2. Dynamic!Max({a, b}) = IF a <= b THEN b ELSE a
  <2> DEFINE m == Dynamic!Max({a, b})
  <2>1. \E k \in {a, b} : \A y \in {a, b} : k >= y
    OBVIOUS
  <2>2. m \in {a, b} /\ \A y \in {a, b} : m >= y
    BY <2>1 DEF Dynamic!Max
  <2> HIDE DEF m
  <2>3. m = IF a <= b THEN b ELSE a
    BY <2>2
  <2> QED BY <2>3 DEF m
<1> QED BY <1>1, <1>2

LEMMA Doubled ==
    ASSUME NEW p \in Nat \ {0}, Dynamic!PowerOfTwo(p)
    PROVE  Dynamic!PowerOfTwo(2 * p)
<1> SUFFICES ASSUME NEW d \in 2..(2 * p), (2 * p) % d = 0
             PROVE  d % 2 = 0
  BY DEF Dynamic!PowerOfTwo
<1>1. d \in Nat \ {0} /\ d >= 2
  OBVIOUS
<1>2. PICK k \in Int : 2 * p = k * d
  <2>1. 2 * p \in Nat
    OBVIOUS
  <2>2. /\ (2 * p) \div d \in Int
        /\ 2 * p = ((2 * p) \div d) * d + ((2 * p) % d)
    BY <1>1, <2>1, Division
  <2>3. 2 * p = ((2 * p) \div d) * d
    <3> DEFINE q == (2 * p) \div d
               r == (2 * p) % d
    <3>1. r = 0 /\ q * d \in Int /\ 2 * p = q * d + r
      BY <1>1, <2>2
    <3> HIDE DEF q, r
    <3>2. 2 * p = q * d
      BY <3>1
    <3> QED BY <3>2 DEF q
  <2> QED BY <2>2, <2>3
<1>3. d % 2 = 0 \/ d % 2 = 1
  BY <1>1
<1>4. CASE d % 2 = 1
  <2>1. PICK e \in Nat : d = 2 * e + 1
    <3>1. d = 2 * (d \div 2) + 1 /\ d \div 2 \in Nat
      BY <1>1, <1>4
    <3> QED BY <3>1
  <2>2. k * d = 2 * (k * e) + k
    <3>1. k * (2 * e + 1) = 2 * (k * e) + k
      BY <1>2, <2>1
    <3> QED BY <2>1, <3>1
  <2> DEFINE j == p - k * e
  <2>3. j \in Int /\ k = 2 * j
    <3>1. k * e \in Int
      BY <1>2, <2>1
    <3> QED BY <1>2, <2>2, <3>1
  <2>4. p = j * d
    <3> HIDE DEF j
    <3>1. 2 * p = 2 * (j * d)
      <4>1. (2 * j) * d = 2 * (j * d) /\ j * d \in Int
        BY <1>1, <2>3
      <4> QED BY <1>2, <2>3, <4>1
    <3>2. j * d \in Int
      BY <1>1, <2>3
    <3> QED BY <3>1, <3>2
  <2> HIDE DEF j
  <2>5. p % d = 0
    <3>1. (j * d) % d = 0
      <4>1. j * d = ((j * d) \div d) * d + ((j * d) % d) /\ (j * d) % d \in 0..(d - 1)
            /\ (j * d) \div d \in Int
        <5>1. j * d \in Nat
          BY <2>4
        <5> QED BY <1>1, <5>1, Division
      <4> DEFINE q == (j * d) \div d
                 r == (j * d) % d
      <4>2. q = j
        <5>1. j * d = q * d + r /\ r \in 0..(d - 1) /\ q \in Int
          BY <4>1
        <5> HIDE DEF q, r
        <5>2. j * d - q * d < d /\ q * d - j * d < d
          <6>1. j * d \in Int /\ q * d \in Int
            BY <1>1, <2>3, <5>1
          <6> QED BY <1>1, <5>1, <6>1
        <5> QED BY <1>1, <2>3, <5>1, <5>2, MultiplesApart
      <4>3. j * d \in Int
        BY <1>1, <2>3
      <4>4. j * d = q * d + r /\ r \in Int
        BY <4>1
      <4> HIDE DEF q, r
      <4>5. r = 0
        BY <4>2, <4>3, <4>4
      <4> QED BY <4>5 DEF r
    <3> QED BY <2>4, <3>1
  <2>6. d <= p
    <3>1. j >= 1
      <4>1. CASE j <= 0
        <5>1. j * d <= 0
          BY <1>1, <2>3, <4>1
        <5> QED BY <2>4, <5>1
      <4> QED BY <2>3, <4>1
    <3>2. j * d >= d
      BY <1>1, <2>3, <3>1
    <3> QED BY <2>4, <3>2
  <2>7. d \in 2..p
    BY <1>1, <2>6
  <2> QED BY <2>5, <2>7, <1>4 DEF Dynamic!PowerOfTwo
<1> QED BY <1>3, <1>4

(* There is a power of two not below any number, and not twice as large.    *)
LEMMA PowerAbove ==
    ASSUME NEW n \in Nat
    PROVE  \E p \in 1..(2 * n + 1) : p >= n /\ Dynamic!PowerOfTwo(p)
<1> DEFINE Has(m) == \E p \in 1..(2 * m + 1) : p >= m /\ Dynamic!PowerOfTwo(p)
           Bad == {m \in Nat : ~Has(m)}
<1>1. SUFFICES ASSUME n \in Bad
               PROVE  FALSE
  BY <1>1
<1>2. Has(0) /\ Has(1)
  <2>1. Dynamic!PowerOfTwo(1)
    BY DEF Dynamic!PowerOfTwo
  <2> QED BY <2>1
<1>3. PICK m \in Bad : \A k \in Bad : m <= k
  <2> HIDE DEF Has
  <2>1. Bad \subseteq Nat /\ Bad # {}
    BY <1>1
  <2> HIDE DEF Bad
  <2> QED BY <2>1, LeastNatural
<1>4. m \in Nat /\ m >= 2
  <2> HIDE DEF Has
  <2>1. m \in Nat /\ m # 0 /\ m # 1
    BY <1>2
  <2> QED BY <2>1
<1>5. Has(m - 1)
  <2> HIDE DEF Has
  <2>1. m - 1 \in Nat /\ ~(m <= m - 1)
    BY <1>4
  <2> QED BY <1>3, <2>1
<1>6. PICK p \in 1..(2 * (m - 1) + 1) : p >= m - 1 /\ Dynamic!PowerOfTwo(p)
  BY <1>5
<1>7. CASE p >= m
  <2>1. p \in 1..(2 * m + 1)
    BY <1>4
  <2>2. Has(m)
    BY <1>6, <1>7, <2>1
  <2> QED BY <2>2
<1>8. CASE p = m - 1
  <2>1. Dynamic!PowerOfTwo(2 * p)
    <3>1. p \in Nat \ {0}
      BY <1>4
    <3> QED BY <1>6, <3>1, Doubled
  <2>2. 2 * p \in 1..(2 * m + 1) /\ 2 * p >= m
    BY <1>4, <1>8
  <2>3. Has(m)
    BY <2>1, <2>2
  <2> QED BY <2>3
<1> QED BY <1>4, <1>6, <1>7, <1>8

LEMMA CeilIs ==
    ASSUME NEW n \in Nat
    PROVE  Dynamic!BitCeil(n) \in Nat /\ Dynamic!BitCeil(n) >= n
<1> DEFINE S == {p \in 1..(2 * n + 1) : p >= n /\ Dynamic!PowerOfTwo(p)}
<1>1. S # {}
  BY PowerAbove
<1>2. S \subseteq Nat
  OBVIOUS
<1>3. Dynamic!Min(S) \in S
  <2> HIDE DEF S
  <2> QED BY <1>1, <1>2, LeastNatural
<1> QED BY <1>3 DEF Dynamic!BitCeil

\* Sequences of numbers that agree everywhere.
LEMMA SameText ==
    ASSUME NEW v \in Seq(Nat), NEW w \in Seq(Nat), Len(v) = Len(w),
           \A i \in 1..Len(v) : v[i] = w[i]
    PROVE  v = w
BY SeqEqual


-----------------------------------------------------------------------------
(* Induction, and parts of sequences.  A set of natural numbers without a    *)
(* least element is empty: this is how the proofs argue by induction.       *)
LEMMA NoLeast ==
    ASSUME NEW S, S \subseteq Nat, \A n \in S : \E m \in S : m < n
    PROVE  S = {}
<1>1. CASE S # {}
  <2>1. Dynamic!Min(S) \in S /\ \A k \in S : Dynamic!Min(S) <= k
    BY <1>1, LeastNatural
  <2> DEFINE n == Dynamic!Min(S)
  <2> HIDE DEF n
  <2>2. n \in S /\ \A k \in S : n <= k
    BY <2>1 DEF n
  <2>3. PICK m \in S : m < n
    BY <2>2
  <2>4. n \in Nat /\ m \in Nat /\ n <= m
    BY <2>2
  <2> QED BY <2>3, <2>4
<1> QED BY <1>1

(* A function can be defined by recursion on the natural numbers.           *)
Recursive(f, V, v, g) ==
    f \in [Nat -> V] /\ f[0] = v /\ \A n \in Nat : f[n + 1] = g[n][f[n]]

LEMMA Recursion ==
    ASSUME NEW V, NEW v \in V, NEW g \in [Nat -> [V -> V]]
    PROVE  \E f : Recursive(f, V, v, g)
<1> DEFINE Begun(n) == {h \in [0..n -> V] : /\ h[0] = v
                                            /\ \A i \in 0..n : i < n => h[i + 1] = g[i][h[i]]}
<1>1. \A n \in Nat : Begun(n) # {}
  <2> DEFINE S == {n \in Nat : Begun(n) = {}}
  <2>1. ASSUME NEW n \in S
        PROVE  \E m \in S : m < n
    <3>1. n # 0
      <4>1. [i \in 0..0 |-> v] \in Begun(0)
        OBVIOUS
      <4> QED BY <4>1
    <3>2. n - 1 \in Nat /\ n - 1 < n
      BY <3>1
    <3>3. CASE Begun(n - 1) # {}
      <4>1. PICK h \in [0..(n - 1) -> V] :
                /\ h[0] = v
                /\ \A i \in 0..(n - 1) : i < n - 1 => h[i + 1] = g[i][h[i]]
        BY <3>3
      <4> DEFINE k == [i \in 0..n |-> IF i = n THEN g[n - 1][h[n - 1]] ELSE h[i]]
      <4>2. h[n - 1] \in V /\ g[n - 1][h[n - 1]] \in V
        BY <3>2, <4>1
      <4>3. \A i \in 0..n : i # n => i \in 0..(n - 1)
        BY <3>2
      <4>4. k \in [0..n -> V]
        BY <4>1, <4>2, <4>3
      <4>5. k[0] = v
        BY <3>1, <3>2, <4>1
      <4>6. ASSUME NEW i \in 0..n, i < n
            PROVE  k[i + 1] = g[i][k[i]]
        <5>1. i + 1 \in 0..n /\ i \in 0..(n - 1) /\ i # n
          BY <3>2, <4>6
        <5>2. k[i] = h[i]
          BY <5>1
        <5>3. CASE i = n - 1
          BY <3>2, <5>1, <5>2, <5>3
        <5>4. CASE i # n - 1
          <6>1. i < n - 1 /\ i + 1 # n
            BY <3>2, <5>1, <5>4
          <6>2. k[i + 1] = h[i + 1]
            BY <5>1, <6>1
          <6> QED BY <4>1, <5>1, <5>2, <6>1, <6>2
        <5> QED BY <5>3, <5>4
      <4> HIDE DEF k
      <4>7. k \in Begun(n)
        BY <4>4, <4>5, <4>6
      <4> QED BY <4>7
    <3>4. CASE Begun(n - 1) = {}
      BY <3>2, <3>4
    <3> QED BY <3>3, <3>4
  <2> HIDE DEF Begun
  <2>2. S = {}
    <3>1. S \subseteq Nat
      OBVIOUS
    <3> HIDE DEF S
    <3> QED BY <2>1, <3>1, NoLeast
  <2> QED BY <2>2
<1>2. ASSUME NEW m \in Nat, NEW n \in Nat, m <= n, NEW h \in Begun(m), NEW k \in Begun(n)
      PROVE  \A i \in 0..m : h[i] = k[i]
  <2> DEFINE S == {i \in 0..m : h[i] # k[i]}
  <2>1. ASSUME NEW i \in S
        PROVE  \E j \in S : j < i
    <3>1. i # 0
      BY <1>2
    <3>2. i - 1 \in 0..m /\ i - 1 \in 0..n /\ i - 1 < m /\ i - 1 < n /\ i - 1 + 1 = i /\ i - 1 < i
      BY <1>2, <3>1
    <3>3. h[i] = g[i - 1][h[i - 1]] /\ k[i] = g[i - 1][k[i - 1]]
      BY <1>2, <3>2
    <3>4. h[i - 1] # k[i - 1]
      BY <3>3
    <3> QED BY <3>2, <3>4
  <2>2. S = {}
    <3>1. S \subseteq Nat
      OBVIOUS
    <3> HIDE DEF S
    <3> QED BY <2>1, <3>1, NoLeast
  <2> QED BY <2>2
<1> DEFINE c(n) == CHOOSE h \in Begun(n) : TRUE
           f == [n \in Nat |-> c(n)[n]]
<1>3. \A n \in Nat : c(n) \in Begun(n)
  <2> HIDE DEF Begun
  <2> QED BY <1>1
<1>4. f \in [Nat -> V]
  <2> HIDE DEF c
  <2>1. \A n \in Nat : n \in 0..n
    OBVIOUS
  <2>2. \A n \in Nat : c(n)[n] \in V
    BY <1>3, <2>1
  <2> QED BY <2>2
<1>5. f[0] = v
  <2> HIDE DEF c
  <2>1. c(0)[0] = v
    BY <1>3
  <2> QED BY <2>1
<1>6. ASSUME NEW n \in Nat
      PROVE  f[n + 1] = g[n][f[n]]
  <2> HIDE DEF c
  <2>1. n + 1 \in Nat /\ n <= n + 1 /\ n \in 0..n /\ n \in 0..(n + 1) /\ n < n + 1
    OBVIOUS
  <2>2. c(n + 1)[n + 1] = g[n][c(n + 1)[n]]
    BY <1>3, <2>1
  <2> HIDE DEF Begun
  <2>3. c(n)[n] = c(n + 1)[n]
    BY <1>2, <1>3, <2>1
  <2> QED BY <2>1, <2>2, <2>3
<1> HIDE DEF f
<1>7. Recursive(f, V, v, g)
  BY <1>4, <1>5, <1>6 DEF Recursive
<1> QED BY <1>7

(* A sequence holds another one behind its first o elements.                *)
HasAt(e, o, x) ==
    /\ o \in Nat /\ o + Len(x) <= Len(e)
    /\ \A i \in 1..Len(x) : e[o + i] = x[i]

LEMMA HoldsMore ==
    ASSUME NEW a \in Seq(Nat), NEW b \in Seq(Nat)
    PROVE  /\ a \o b \in Seq(Nat) /\ Len(a \o b) = Len(a) + Len(b)
           /\ HasAt(a \o b, Len(a), b)
           /\ \A x \in Seq(Nat), o \in Nat : HasAt(a, o, x) => HasAt(a \o b, o, x)
           /\ \A x \in Seq(Nat), o \in Nat : HasAt(b, o, x) => HasAt(a \o b, Len(a) + o, x)
<1> DEFINE e == a \o b
<1>1. /\ e \in Seq(Nat) /\ Len(e) = Len(a) + Len(b) /\ Len(a) \in Nat /\ Len(b) \in Nat
      /\ \A i \in 1..(Len(a) + Len(b)) : e[i] = IF i <= Len(a) THEN a[i] ELSE b[i - Len(a)]
  BY ConcatProperties, LenProperties
<1> HIDE DEF e
<1>2. \A i \in 1..Len(a) : e[i] = a[i]
  BY <1>1
<1>3. \A i \in 1..Len(b) : e[Len(a) + i] = b[i]
  <2> TAKE i \in 1..Len(b)
  <2>1. Len(a) + i \in 1..(Len(a) + Len(b)) /\ ~(Len(a) + i <= Len(a)) /\ (Len(a) + i) - Len(a) = i
    BY <1>1
  <2> QED BY <1>1, <2>1
<1>4. HasAt(e, Len(a), b)
  BY <1>1, <1>3 DEF HasAt
<1>5. ASSUME NEW x \in Seq(Nat), NEW o \in Nat, HasAt(a, o, x)
      PROVE  HasAt(e, o, x)
  <2> DEFINE n == Len(x)
             l == Len(a)
  <2>1. n \in Nat /\ l \in Nat /\ o + n <= l /\ \A i \in 1..n : a[o + i] = x[i]
    BY <1>1, <1>5, LenProperties DEF HasAt
  <2>2. \A i \in 1..l : e[i] = a[i]
    BY <1>2
  <2>3. o + n <= Len(e)
    BY <1>1, <2>1
  <2> HIDE DEF n, l
  <2>4. \A i \in 1..n : o + i \in 1..l
    BY <2>1
  <2>5. \A i \in 1..n : e[o + i] = x[i]
    BY <2>1, <2>2, <2>4
  <2> QED BY <2>3, <2>5 DEF HasAt, n
<1>6. ASSUME NEW x \in Seq(Nat), NEW o \in Nat, HasAt(b, o, x)
      PROVE  HasAt(e, Len(a) + o, x)
  <2> DEFINE n == Len(x)
             l == Len(a)
             k == Len(b)
  <2>1. n \in Nat /\ l \in Nat /\ k \in Nat /\ o + n <= k /\ \A i \in 1..n : b[o + i] = x[i]
    BY <1>1, <1>6, LenProperties DEF HasAt
  <2>2. \A i \in 1..k : e[l + i] = b[i]
    BY <1>3
  <2>3. (l + o) + n <= Len(e) /\ l + o \in Nat
    BY <1>1, <2>1
  <2> HIDE DEF n, l, k
  <2>4. \A i \in 1..n : o + i \in 1..k /\ (l + o) + i = l + (o + i)
    BY <2>1
  <2>5. \A i \in 1..n : e[(l + o) + i] = x[i]
    BY <2>1, <2>2, <2>4
  <2> QED BY <2>3, <2>5 DEF HasAt, n, l
<1> QED BY <1>1, <1>4, <1>5, <1>6 DEF e

(* The hashes of the dependencies, one behind the other.                    *)
HashList(deps) == [i \in 1..(HashBytes * Len(deps)) |-> deps[1 + (i - 1) \div HashBytes]]

(* A beginning of a sequence, and what follows it.                          *)
LEMMA NextPart ==
    ASSUME NEW e \in Seq(Nat), NEW o \in Nat, NEW x \in Seq(Nat), HasAt(e, o, x)
    PROVE  SubSeq(e, 1, o) \o x = SubSeq(e, 1, o + Len(x))
<1> DEFINE n == Len(x)
           l == Len(e)
<1>1. n \in Nat /\ l \in Nat /\ o + n <= l /\ \A i \in 1..n : e[o + i] = x[i]
  BY LenProperties DEF HasAt
<1> DEFINE a == SubSeq(e, 1, o)
           b == SubSeq(e, 1, o + n)
<1>2. /\ a \in Seq(Nat) /\ Len(a) = o /\ \A i \in 1..o : a[i] = e[i]
  <2>1. \A i \in 1..o : e[i] \in Nat
    BY <1>1, ElementOfSeq
  <2> HIDE DEF n, l
  <2> QED BY <2>1, SubSeqProperties
<1>3. /\ b \in Seq(Nat) /\ Len(b) = o + n /\ \A i \in 1..(o + n) : b[i] = e[i]
  <2>1. \A i \in 1..(o + n) : e[i] \in Nat
    BY <1>1, ElementOfSeq
  <2>2. o + n \in Nat
    BY <1>1
  <2> HIDE DEF n, l
  <2> QED BY <2>1, <2>2, SubSeqProperties
<1> HIDE DEF a, b
<1>4. /\ a \o x \in Seq(Nat) /\ Len(a \o x) = o + n
      /\ \A i \in 1..(o + n) : (a \o x)[i] = IF i <= o THEN a[i] ELSE x[i - o]
  BY <1>2, ConcatProperties
<1>5. ASSUME NEW i \in 1..(o + n)
      PROVE  (a \o x)[i] = b[i]
  <2> HIDE DEF n, l
  <2>1. CASE i <= o
    <3>1. i \in 1..o
      BY <2>1
    <3> QED BY <1>2, <1>3, <1>4, <2>1, <3>1
  <2>2. CASE ~(i <= o)
    <3>1. i - o \in 1..n /\ o + (i - o) = i
      BY <1>1, <2>2
    <3> QED BY <1>1, <1>3, <1>4, <2>2, <3>1
  <2> QED BY <2>1, <2>2
<1> QED BY <1>3, <1>4, <1>5, SameText DEF a, b

-----------------------------------------------------------------------------
(* Paths.  Where one is on the way along a path.                            *)
OnTheWay == [dir : Seq(Seq(Nat)), name : Seq(Nat)]
InDir(d) == [dir |-> d, name |-> <<>>]

LEMMA EnterIs ==
    ASSUME NEW d \in Seq(Seq(Nat)), NEW n \in Seq(Nat)
    PROVE  Pathnames!Enter(d, n) \in Seq(Seq(Nat)) /\ Pathnames!Enter(d, <<>>) = d
<1> DEFINE S == Seq(Nat)
           e == Pathnames!Enter(d, n)
           f == Pathnames!Front(d)
<1>1. Pathnames!Enter(d, <<>>) = d
  BY Zenon DEF Pathnames!Enter
<1>2. d # <<>> => f \in Seq(S)
  <2> SUFFICES ASSUME d # <<>> PROVE f \in Seq(S)
    OBVIOUS
  <2>1. Len(d) \in Nat /\ Len(d) - 1 \in Int /\ \A i \in 1..(Len(d) - 1) : i \in 1..Len(d)
    BY LenProperties
  <2>2. \A i \in 1..(Len(d) - 1) : d[i] \in S
    BY <2>1, ElementOfSeq
  <2>3. SubSeq(d, 1, Len(d) - 1) \in Seq(S)
    BY <2>1, <2>2, SubSeqProperties
  <2> QED BY <2>3 DEF Pathnames!Front
<1>3. Append(d, n) \in Seq(S) /\ d \in Seq(S)
  BY AppendProperties
<1>4. e = d \/ e = Append(d, n) \/ (d # <<>> /\ e = f)
  <2>1. e = CASE n \in {<<>>, <<Pathnames!Dot>>} -> d
              [] n = <<Pathnames!Dot, Pathnames!Dot>> -> IF d = <<>> THEN d ELSE f
              [] OTHER -> Append(d, n)
    BY DEF Pathnames!Enter
  <2>2. <<Pathnames!Dot, Pathnames!Dot>> \notin {<<>>, <<Pathnames!Dot>>}
    OBVIOUS
  <2> DEFINE p == n \in {<<>>, <<Pathnames!Dot>>}
             q == n = <<Pathnames!Dot, Pathnames!Dot>>
             a == Append(d, n)
             b == IF d = <<>> THEN d ELSE f
  <2>3. ~(p /\ q) /\ e = CASE p -> d [] q -> b [] OTHER -> a
    BY <2>1, <2>2
  <2>4. b = d \/ (d # <<>> /\ b = f)
    OBVIOUS
  <2> HIDE DEF p, q, a, b, e, f
  <2>5. e = d \/ e = b \/ e = a
    BY <2>3
  <2> QED BY <2>4, <2>5 DEF a
<1> HIDE DEF S, e, f
<1>5. e \in Seq(S)
  BY <1>2, <1>3, <1>4, Zenon
<1> QED BY <1>1, <1>5 DEF S, e

LEMMA PassedIs ==
    ASSUME NEW a \in OnTheWay, NEW c \in Nat
    PROVE  /\ Pathnames!Passed(a, c) \in OnTheWay
           /\ c = 47 => Pathnames!Passed(a, c) = InDir(Pathnames!Enter(a.dir, a.name))
           /\ c # 47 => Pathnames!Passed(a, c) = [dir |-> a.dir, name |-> Append(a.name, c)]
<1>1. a.dir \in Seq(Seq(Nat)) /\ a.name \in Seq(Nat) /\ a = [dir |-> a.dir, name |-> a.name]
  BY DEF OnTheWay
<1>2. CASE c = 47
  <2>1. Pathnames!Passed(a, c) = InDir(Pathnames!Enter(a.dir, a.name))
    BY <1>2 DEF Pathnames!Passed, Pathnames!Slash, InDir
  <2>2. Pathnames!Enter(a.dir, a.name) \in Seq(Seq(Nat))
    BY <1>1, EnterIs
  <2>3. <<>> \in Seq(Nat)
    BY EmptySeq
  <2>4. InDir(Pathnames!Enter(a.dir, a.name)) \in OnTheWay
    <3> DEFINE d == Pathnames!Enter(a.dir, a.name)
    <3> HIDE DEF d
    <3>1. d \in Seq(Seq(Nat))
      BY <2>2 DEF d
    <3>2. InDir(d) \in OnTheWay
      BY <2>3, <3>1 DEF InDir, OnTheWay
    <3> QED BY <3>2 DEF d
  <2> QED BY <1>2, <2>1, <2>4
<1>3. CASE c # 47
  <2>1. Pathnames!Passed(a, c) = [a EXCEPT !.name = Append(@, c)]
    BY <1>3 DEF Pathnames!Passed, Pathnames!Slash
  <2>2. Append(a.name, c) \in Seq(Nat)
    BY <1>1, AppendProperties
  <2>3. Pathnames!Passed(a, c) = [dir |-> a.dir, name |-> Append(a.name, c)]
    BY <1>1, <2>1
  <2> QED BY <1>1, <1>3, <2>2, <2>3 DEF OnTheWay
<1> QED BY <1>2, <1>3

LEMMA WayIs ==
    ASSUME NEW d \in Seq(Seq(Nat)), NEW p \in Seq(Nat)
    PROVE  /\ \A i \in 0..Len(p) : Pathnames!Way(d, p)[i] \in OnTheWay
           /\ Pathnames!Way(d, p)[0] = InDir(d)
           /\ \A i \in 1..Len(p) :
                 Pathnames!Way(d, p)[i] = Pathnames!Passed(Pathnames!Way(d, p)[i - 1], p[i])
<1> DEFINE n == Len(p)
           V == OnTheWay
           v == InDir(d)
           g == [i \in Nat |-> [a \in V |-> IF i < n THEN Pathnames!Passed(a, p[i + 1]) ELSE a]]
           way == Pathnames!Way(d, p)
<1>1. n \in Nat /\ \A i \in 1..n : p[i] \in Nat
  BY LenProperties, ElementOfSeq
<1>2. v \in V
  BY EmptySeq DEF InDir, OnTheWay
<1>3. g \in [Nat -> [V -> V]]
  <2>1. ASSUME NEW i \in Nat, NEW a \in V
        PROVE  (IF i < n THEN Pathnames!Passed(a, p[i + 1]) ELSE a) \in V
    <3> HIDE DEF n
    <3>1. CASE i < n
      <4>1. p[i + 1] \in Nat
        BY <1>1, <3>1
      <4> QED BY <3>1, <4>1, PassedIs
    <3> QED BY <3>1
  <2> HIDE DEF V, n
  <2> QED BY <2>1
<1>4. PICK f : Recursive(f, V, v, g)
  <2> HIDE DEF V, v, g
  <2> QED BY <1>2, <1>3, Recursion
<1>5. /\ f \in [Nat -> V] /\ f[0] = v
      /\ \A i \in Nat : i < n => f[i + 1] = Pathnames!Passed(f[i], p[i + 1])
  BY <1>4 DEF Recursive
<1> DEFINE w == [i \in 0..n |-> f[i]]
<1> HIDE DEF V, g, n
<1>6. ASSUME NEW i \in 0..n
      PROVE  w[i] = IF i = 0 THEN v ELSE Pathnames!Passed(w[i - 1], p[i])
  <2>1. CASE i = 0
    BY <1>1, <1>5, <2>1
  <2>2. CASE i # 0
    <3>1. i - 1 \in Nat /\ i - 1 < n /\ (i - 1) + 1 = i /\ i - 1 \in 0..n
      BY <1>1, <2>2
    <3>2. f[(i - 1) + 1] = Pathnames!Passed(f[i - 1], p[(i - 1) + 1])
      BY <1>5, <3>1
    <3>3. w[i] = f[i] /\ w[i - 1] = f[i - 1]
      BY <3>1
    <3> HIDE DEF w
    <3> QED BY <2>2, <3>1, <3>2, <3>3
  <2> QED BY <2>1, <2>2
<1>7. w = [i \in 0..n |-> IF i = 0 THEN v ELSE Pathnames!Passed(w[i - 1], p[i])]
  <2> DEFINE u == [i \in 0..n |-> IF i = 0 THEN v ELSE Pathnames!Passed(w[i - 1], p[i])]
  <2>1. \A i \in 0..n : w[i] = u[i]
    <3> HIDE DEF w
    <3> QED BY <1>6
  <2>2. w = u
    <3>1. w = [i \in 0..n |-> w[i]] /\ u = [i \in 0..n |-> u[i]]
      OBVIOUS
    <3> HIDE DEF w, u
    <3> QED BY <2>1, <3>1
  <2> QED BY <2>2
<1> HIDE DEF w
<1>8. way = [i \in 0..n |-> IF i = 0 THEN v ELSE Pathnames!Passed(way[i - 1], p[i])]
  <2>1. way = CHOOSE x : x = [i \in 0..n |-> IF i = 0 THEN v ELSE Pathnames!Passed(x[i - 1], p[i])]
    BY DEF Pathnames!Way, InDir, n
  <2> HIDE DEF way, v
  <2> QED BY <1>7, <2>1
<1> HIDE DEF way, v
<1>9. way[0] = v /\ \A i \in 1..n : way[i] = Pathnames!Passed(way[i - 1], p[i])
  <2>1. 0 \in 0..n /\ \A i \in 1..n : i \in 0..n /\ i # 0
    BY <1>1
  <2> QED BY <1>8, <2>1
<1>10. \A i \in 0..n : way[i] \in V
  <2> DEFINE S == {i \in 0..n : way[i] \notin V}
  <2>1. ASSUME NEW i \in S
        PROVE  \E j \in S : j < i
    <3>1. i \in 0..n /\ way[i] \notin V
      OBVIOUS
    <3>2. i # 0
      BY <1>2, <1>9, <3>1
    <3>3. i \in 1..n /\ i - 1 \in 0..n /\ i - 1 < i
      BY <1>1, <3>1, <3>2
    <3>4. way[i] = Pathnames!Passed(way[i - 1], p[i]) /\ p[i] \in Nat
      BY <1>1, <1>9, <3>3
    <3>5. way[i - 1] \notin V
      BY <3>1, <3>4, PassedIs DEF V
    <3> QED BY <3>3, <3>5
  <2>2. S \subseteq Nat
    BY <1>1
  <2>3. S = {}
    <3> HIDE DEF S
    <3> QED BY <2>1, <2>2, NoLeast
  <2> QED BY <2>3
<1> QED BY <1>9, <1>10 DEF way, v, n, V

LEMMA FollowIs ==
    ASSUME NEW d \in Seq(Seq(Nat)), NEW p \in Seq(Nat)
    PROVE  /\ Pathnames!Follow(d, p) \in Seq(Seq(Nat))
           /\ \A c : Pathnames!Way(d, p)[Len(p)] = InDir(c) => Pathnames!Follow(d, p) = c
           /\ Pathnames!Follow(d, <<>>) = d
<1> DEFINE a == Pathnames!Way(d, p)[Len(p)]
<1>1. Len(p) \in Nat /\ Len(p) \in 0..Len(p)
  BY LenProperties
<1>2. a \in OnTheWay
  BY <1>1, WayIs
<1>3. a.dir \in Seq(Seq(Nat)) /\ a.name \in Seq(Nat)
  BY <1>2 DEF OnTheWay
<1>4. Pathnames!Follow(d, p) = Pathnames!Enter(a.dir, a.name)
  BY DEF Pathnames!Follow
<1> HIDE DEF a
<1>5. Pathnames!Follow(d, p) \in Seq(Seq(Nat))
  BY <1>3, <1>4, EnterIs
<1>6. ASSUME NEW c, a = InDir(c)
      PROVE  Pathnames!Follow(d, p) = c
  <2>1. a.dir = c /\ a.name = <<>>
    BY <1>6 DEF InDir
  <2> QED BY <1>3, <1>4, <2>1, EnterIs
<1>7. Pathnames!Follow(d, <<>>) = d
  <2> DEFINE b == Pathnames!Way(d, <<>>)[Len(<<>>)]
  <2>1. Len(<<>>) = 0 /\ <<>> \in Seq(Nat)
    BY EmptySeq
  <2>2. b = InDir(d)
    <3>1. Pathnames!Way(d, <<>>)[0] = InDir(d)
      BY <2>1, WayIs
    <3> QED BY <2>1, <3>1
  <2>3. Pathnames!Follow(d, <<>>) = Pathnames!Enter(b.dir, b.name)
    BY DEF Pathnames!Follow
  <2> HIDE DEF b
  <2>4. b.dir = d /\ b.name = <<>>
    BY <2>2 DEF InDir
  <2> QED BY <2>1, <2>3, <2>4, EnterIs
<1> QED BY <1>5, <1>6, <1>7 DEF a

(* From a directory one goes on as if one had started there.                *)
LEMMA WayFrom ==
    ASSUME NEW d \in Seq(Seq(Nat)), NEW p \in Seq(Nat), NEW c \in Seq(Seq(Nat)), NEW q \in Seq(Nat),
           NEW o \in Nat, HasAt(p, o, q), Pathnames!Way(d, p)[o] = InDir(c)
    PROVE  \A i \in 0..Len(q) : Pathnames!Way(d, p)[o + i] = Pathnames!Way(c, q)[i]
<1> DEFINE u == Pathnames!Way(d, p)
           v == Pathnames!Way(c, q)
           n == Len(q)
           S == {i \in 0..n : u[o + i] # v[i]}
<1>1. /\ n \in Nat /\ Len(p) \in Nat /\ o + n <= Len(p)
      /\ \A i \in 1..n : p[o + i] = q[i]
  BY LenProperties DEF HasAt
<1>2. /\ v[0] = InDir(c) /\ u[o] = InDir(c)
      /\ \A i \in 1..n : v[i] = Pathnames!Passed(v[i - 1], q[i])
      /\ \A i \in 1..Len(p) : u[i] = Pathnames!Passed(u[i - 1], p[i])
  BY WayIs
<1> HIDE DEF u, v, n
<1>3. ASSUME NEW i \in S
      PROVE  \E j \in S : j < i
  <2>1. i \in 0..n /\ u[o + i] # v[i]
    OBVIOUS
  <2>2. i # 0
    BY <1>2, <2>1
  <2>3. /\ i \in 1..n /\ i - 1 \in 0..n /\ i - 1 < i
        /\ o + i \in 1..Len(p) /\ (o + i) - 1 = o + (i - 1)
    <3>1. n \in Int /\ Len(p) \in Int /\ o \in Int /\ o >= 0 /\ o + n <= Len(p)
      BY <1>1
    <3>2. i \in Int /\ 1 <= i /\ i <= n
      BY <1>1, <2>1, <2>2
    <3> DEFINE l == Len(p)
    <3> HIDE DEF l
    <3>3. i \in 1..n /\ i - 1 \in 0..n /\ i - 1 < i
      BY <3>1, <3>2
    <3>4. o + i \in 1..l /\ (o + i) - 1 = o + (i - 1)
      BY <3>1, <3>2 DEF l
    <3> QED BY <3>3, <3>4 DEF l
  <2>4. u[o + i] = Pathnames!Passed(u[o + (i - 1)], q[i]) /\ v[i] = Pathnames!Passed(v[i - 1], q[i])
    BY <1>1, <1>2, <2>3
  <2>5. u[o + (i - 1)] # v[i - 1]
    BY <2>1, <2>4
  <2> QED BY <2>3, <2>5
<1>4. S \subseteq Nat
  BY <1>1
<1>5. S = {}
  <2> HIDE DEF S
  <2> QED BY <1>3, <1>4, NoLeast
<1> QED BY <1>5 DEF u, v, n

(* The same where the path ends.                                            *)
LEMMA FollowFrom ==
    ASSUME NEW d \in Seq(Seq(Nat)), NEW p \in Seq(Nat), NEW c \in Seq(Seq(Nat)), NEW q \in Seq(Nat),
           NEW o \in Nat, HasAt(p, o, q), Pathnames!Way(d, p)[o] = InDir(c), o + Len(q) = Len(p)
    PROVE  Pathnames!Follow(d, p) = Pathnames!Follow(c, q)
<1>1. Len(q) \in Nat /\ Len(q) \in 0..Len(q)
  BY LenProperties
<1>2. Pathnames!Way(d, p)[o + Len(q)] = Pathnames!Way(c, q)[Len(q)]
  BY <1>1, WayFrom
<1>3. Pathnames!Way(d, p)[Len(p)] = Pathnames!Way(c, q)[Len(q)]
  BY <1>2
<1> QED BY <1>3 DEF Pathnames!Follow

(* A beginning of a path leads where the path comes by.                     *)
LEMMA WayOfFront ==
    ASSUME NEW d \in Seq(Seq(Nat)), NEW p \in Seq(Nat), NEW q \in Seq(Nat), HasAt(p, 0, q)
    PROVE  \A i \in 0..Len(q) : Pathnames!Way(d, p)[i] = Pathnames!Way(d, q)[i]
<1>1. Pathnames!Way(d, p)[0] = InDir(d)
  BY WayIs
<1>2. \A i \in 0..Len(q) : Pathnames!Way(d, p)[0 + i] = Pathnames!Way(d, q)[i]
  BY <1>1, WayFrom
<1>3. \A i \in 0..Len(q) : 0 + i = i
  BY LenProperties
<1> QED BY <1>2, <1>3

(* What is behind a slash is followed from where one is in front of it.     *)
LEMMA WaySplit ==
    ASSUME NEW d \in Seq(Seq(Nat)), NEW p \in Seq(Nat), NEW a \in Seq(Nat),
           HasAt(p, 0, a), Len(a) < Len(p), p[Len(a) + 1] = 47
    PROVE  Pathnames!Way(d, p)[Len(a) + 1] = InDir(Pathnames!Follow(d, a))
<1> DEFINE n == Len(a)
           u == Pathnames!Way(d, p)
           at == Pathnames!Way(d, a)[n]
<1>1. n \in Nat /\ Len(p) \in Nat /\ n \in 0..n /\ n + 1 \in 1..Len(p) /\ (n + 1) - 1 = n
  BY LenProperties
<1>2. u[n] = at /\ at \in OnTheWay
  BY <1>1, WayOfFront, WayIs
<1>3. u[n + 1] = Pathnames!Passed(u[n], p[n + 1])
  BY <1>1, WayIs
<1>4. Pathnames!Follow(d, a) = Pathnames!Enter(at.dir, at.name)
  BY DEF Pathnames!Follow
<1> HIDE DEF n, u, at
<1>5. Pathnames!Passed(at, 47) = InDir(Pathnames!Enter(at.dir, at.name))
  BY <1>2, PassedIs
<1>6. p[n + 1] = 47
  BY DEF n
<1>7. u[n + 1] = InDir(Pathnames!Follow(d, a))
  BY <1>2, <1>3, <1>4, <1>5, <1>6
<1> QED BY <1>7 DEF u, n

LEMMA FollowSplit ==
    ASSUME NEW d \in Seq(Seq(Nat)), NEW p \in Seq(Nat), NEW a \in Seq(Nat), NEW b \in Seq(Nat),
           HasAt(p, 0, a), HasAt(p, Len(a) + 1, b), Len(p) = Len(a) + 1 + Len(b),
           p[Len(a) + 1] = 47
    PROVE  Pathnames!Follow(d, p) = Pathnames!Follow(Pathnames!Follow(d, a), b)
<1> DEFINE o == Len(a) + 1
           c == Pathnames!Follow(d, a)
<1>1. o \in Nat /\ Len(a) < Len(p) /\ o + Len(b) = Len(p)
  BY LenProperties
<1>2. c \in Seq(Seq(Nat))
  BY FollowIs
<1>3. Pathnames!Way(d, p)[o] = InDir(c)
  BY <1>1, WaySplit, ZenonT(30)
<1>4. HasAt(p, o, b)
  OBVIOUS
<1> HIDE DEF o, c
<1>5. Pathnames!Follow(d, p) = Pathnames!Follow(c, b)
  BY <1>1, <1>2, <1>3, <1>4, FollowFrom
<1> QED BY <1>5 DEF c

(* Slashes in front and behind lead nowhere.                                *)
LEMMA SlashesInFront ==
    ASSUME NEW d \in Seq(Seq(Nat)), NEW p \in Seq(Nat), NEW k \in 0..Len(p),
           \A i \in 1..k : p[i] = 47
    PROVE  /\ Pathnames!Way(d, p)[k] = InDir(d)
           /\ \A q \in Seq(Nat) : HasAt(p, k, q) /\ k + Len(q) = Len(p)
                 => Pathnames!Follow(d, p) = Pathnames!Follow(d, q)
<1> DEFINE u == Pathnames!Way(d, p)
           S == {i \in 0..k : u[i] # InDir(d)}
<1>1. k \in Nat /\ Len(p) \in Nat
  BY LenProperties
<1>2. u[0] = InDir(d) /\ \A i \in 1..Len(p) : u[i] = Pathnames!Passed(u[i - 1], p[i])
  BY WayIs
<1>3. Pathnames!Passed(InDir(d), 47) = InDir(d)
  <2> DEFINE a == InDir(d)
  <2>1. a.dir = d /\ a.name = <<>>
    BY DEF InDir
  <2>2. <<>> \in Seq(Nat)
    BY EmptySeq
  <2>3. a \in OnTheWay
    BY <2>2 DEF InDir, OnTheWay
  <2> HIDE DEF a
  <2>4. Pathnames!Passed(a, 47) = InDir(Pathnames!Enter(a.dir, a.name))
    BY <2>3, PassedIs
  <2>5. Pathnames!Enter(d, <<>>) = d
    BY <2>2, EnterIs
  <2>6. Pathnames!Passed(a, 47) = InDir(d)
    BY <2>1, <2>4, <2>5
  <2> QED BY <2>6 DEF a
<1> HIDE DEF u
<1>4. ASSUME NEW i \in S
      PROVE  \E j \in S : j < i
  <2>1. i \in 0..k /\ u[i] # InDir(d)
    OBVIOUS
  <2>2. i # 0
    BY <1>2, <2>1
  <2>3. i \in 1..k /\ i \in 1..Len(p) /\ i - 1 \in 0..k /\ i - 1 < i
    BY <1>1, <2>1, <2>2
  <2>4. u[i] = Pathnames!Passed(u[i - 1], 47)
    BY <1>2, <2>3
  <2>5. u[i - 1] # InDir(d)
    BY <1>3, <2>1, <2>4
  <2> QED BY <2>3, <2>5
<1>5. S = {}
  <2>1. S \subseteq Nat
    BY <1>1
  <2> HIDE DEF S
  <2> QED BY <1>4, <2>1, NoLeast
<1>6. u[k] = InDir(d)
  BY <1>1, <1>5
<1>7. ASSUME NEW q \in Seq(Nat), HasAt(p, k, q), k + Len(q) = Len(p)
      PROVE  Pathnames!Follow(d, p) = Pathnames!Follow(d, q)
  BY <1>1, <1>6, <1>7, FollowFrom DEF u
<1> QED BY <1>6, <1>7 DEF u

LEMMA SlashesBehind ==
    ASSUME NEW d \in Seq(Seq(Nat)), NEW p \in Seq(Nat), NEW q \in Seq(Nat), HasAt(p, 0, q),
           \A i \in (Len(q) + 1)..Len(p) : p[i] = 47
    PROVE  Pathnames!Follow(d, p) = Pathnames!Follow(d, q)
<1> DEFINE u == Pathnames!Way(d, p)
           n == Len(q)
           E(i) == Pathnames!Enter(u[i].dir, u[i].name)
           S == {i \in Nat : n + i <= Len(p) /\ E(n + i) # Pathnames!Follow(d, q)}
<1>1. n \in Nat /\ Len(p) \in Nat /\ n <= Len(p) /\ n \in 0..n
  BY LenProperties DEF HasAt
<1>2. \A i \in 1..Len(p) : u[i] = Pathnames!Passed(u[i - 1], p[i])
  BY WayIs
<1>3. \A i \in 0..Len(p) : u[i] \in OnTheWay
  BY WayIs
<1>4. E(n) = Pathnames!Follow(d, q)
  <2>1. u[n] = Pathnames!Way(d, q)[n]
    BY <1>1, WayOfFront
  <2> QED BY <2>1 DEF Pathnames!Follow
<1>5. \A i \in (n + 1)..Len(p) : p[i] = 47
  OBVIOUS
<1>6. Pathnames!Follow(d, p) = E(Len(p))
  BY DEF Pathnames!Follow
<1> HIDE DEF u, n
<1>7. ASSUME NEW i \in S
      PROVE  \E j \in S : j < i
  <2>1. i \in Nat /\ n + i <= Len(p) /\ E(n + i) # Pathnames!Follow(d, q)
    OBVIOUS
  <2>2. i # 0
    <3> SUFFICES ASSUME i = 0 PROVE FALSE
      OBVIOUS
    <3>1. n + i = n
      BY <1>1
    <3>2. E(n + i) = E(n)
      BY <3>1
    <3> HIDE DEF E
    <3> QED BY <1>4, <2>1, <3>2
  <2>3. /\ i - 1 \in Nat /\ i - 1 < i /\ n + (i - 1) = (n + i) - 1 /\ n + (i - 1) <= Len(p)
        /\ n + i \in 1..Len(p) /\ n + i \in (n + 1)..Len(p) /\ n + (i - 1) \in 0..Len(p)
    BY <1>1, <2>1, <2>2
  <2> DEFINE a == u[n + (i - 1)]
  <2>4. a \in OnTheWay
    BY <1>3, <2>3
  <2>5. u[n + i] = Pathnames!Passed(a, 47)
    BY <1>2, <1>5, <2>3, ZenonT(30)
  <2> HIDE DEF a
  <2>6. u[n + i] = InDir(Pathnames!Enter(a.dir, a.name))
    BY <2>4, <2>5, PassedIs
  <2> DEFINE c == Pathnames!Enter(a.dir, a.name)
  <2>7. c \in Seq(Seq(Nat))
    BY <2>4, EnterIs DEF OnTheWay
  <2> HIDE DEF c
  <2>8. E(n + i) = c
    <3>1. u[n + i].dir = c /\ u[n + i].name = <<>>
      BY <2>6 DEF InDir, c
    <3>2. <<>> \in Seq(Nat)
      BY EmptySeq
    <3>3. Pathnames!Enter(c, <<>>) = c
      BY <2>7, <3>2, EnterIs
    <3> QED BY <3>1, <3>3
  <2>9. E(n + (i - 1)) # Pathnames!Follow(d, q)
    BY <2>1, <2>8 DEF a, c
  <2> QED BY <2>3, <2>9
<1>8. S = {}
  <2>1. S \subseteq Nat
    OBVIOUS
  <2> HIDE DEF S
  <2> QED BY <1>7, <2>1, NoLeast
<1>9. E(Len(p)) = Pathnames!Follow(d, q)
  <2>1. Len(p) - n \in Nat /\ n + (Len(p) - n) = Len(p)
    BY <1>1
  <2> DEFINE i == Len(p) - n
  <2>2. i \in Nat /\ n + i <= Len(p) /\ n + i = Len(p)
    BY <1>1, <2>1
  <2> HIDE DEF i
  <2>3. E(n + i) = Pathnames!Follow(d, q)
    BY <1>8, <2>2
  <2> QED BY <2>2, <2>3
<1> QED BY <1>6, <1>9

(* The operations on texts, as paths use them.                              *)
LEMMA SameLimits ==
    \A S : Pathnames!Min(S) = Dynamic!Min(S) /\ Pathnames!Max(S) = Dynamic!Max(S)
BY DEF Pathnames!Min, Dynamic!Min, Pathnames!Max, Dynamic!Max

LEMMA PartIs ==
    ASSUME NEW X, X \subseteq Nat, NEW v \in Seq(X), NEW a \in Nat, NEW b \in Nat, a <= b, b <= Len(v)
    PROVE  /\ SubSeq(v, a + 1, b) \in Seq(X) /\ SubSeq(v, a + 1, b) \in Seq(Nat) /\ v \in Seq(Nat)
           /\ Len(SubSeq(v, a + 1, b)) = b - a
           /\ \A i \in 1..(b - a) : SubSeq(v, a + 1, b)[i] = v[a + i]
           /\ HasAt(v, a, SubSeq(v, a + 1, b))
<1> DEFINE u == SubSeq(v, a + 1, b)
<1>1. Len(v) \in Nat /\ a + 1 \in Int /\ b \in Int /\ v \in Seq(Nat)
  <2>1. v \in Seq(Nat)
    BY SeqMonotonic, Zenon
  <2> QED BY <2>1, LenProperties
<1>2. \A i \in (a + 1)..b : v[i] \in X
  <2>1. \A i \in (a + 1)..b : i \in 1..Len(v)
    BY <1>1
  <2> QED BY <2>1, ElementOfSeq
<1>3. /\ u \in Seq(X) /\ Len(u) = IF a + 1 <= b THEN b - (a + 1) + 1 ELSE 0
      /\ \A i \in 1..(b - (a + 1) + 1) : u[i] = v[a + 1 + i - 1]
  BY <1>1, <1>2, SubSeqProperties
<1>4. u \in Seq(Nat)
  BY <1>3, SeqMonotonic
<1> HIDE DEF u
<1>5. Len(u) = b - a /\ \A i \in 1..(b - a) : u[i] = v[a + i]
  <2>1. Len(u) = b - a /\ b - (a + 1) + 1 = b - a
    BY <1>3
  <2>2. \A i \in 1..(b - a) : a + 1 + i - 1 = a + i
    OBVIOUS
  <2> QED BY <1>3, <2>1, <2>2
<1>6. HasAt(v, a, u)
  BY <1>1, <1>5 DEF HasAt
<1> QED BY <1>1, <1>3, <1>4, <1>5, <1>6 DEF u

\* Nothing is cut off a position that lies in the text.
LEMMA ClampedInside ==
    ASSUME NEW v \in Seq(Nat), NEW k \in Nat, k <= Len(v)
    PROVE  Pathnames!Clamped(v, k) = k
<1>1. Len(v) \in Int /\ k \in Int /\ 0 \in Int /\ ~(k < 0)
  BY LenProperties
<1>2. Dynamic!Min({k, Len(v)}) = IF k <= Len(v) THEN k ELSE Len(v)
  BY <1>1, OfTwo, Zenon
<1>3. Dynamic!Max({0, k}) = IF 0 <= k THEN k ELSE 0
  BY <1>1, OfTwo, Zenon
<1>4. Pathnames!Clamped(v, k) = Dynamic!Max({0, Dynamic!Min({k, Len(v)})})
  BY <1>1, SameLimits DEF Pathnames!Clamped
<1>5. Dynamic!Min({k, Len(v)}) = k
  BY <1>2
<1>6. Dynamic!Max({0, k}) = k
  <2>1. 0 <= k
    OBVIOUS
  <2> QED BY <1>3, <2>1, Zenon
<1> QED BY <1>4, <1>5, <1>6

LEMMA SubText ==
    ASSUME NEW v \in Seq(Nat), NEW a \in Nat, NEW b \in Nat, a <= b, b <= Len(v)
    PROVE  Pathnames!Sub(v, a, b) = SubSeq(v, a + 1, b)
<1>1. Len(v) \in Nat /\ a <= Len(v)
  BY LenProperties
<1>2. Pathnames!Clamped(v, a) = a /\ Pathnames!Clamped(v, b) = b
  BY <1>1, ClampedInside
<1> QED BY <1>2 DEF Pathnames!Sub

\* One character in a text.
LEMMA MatchIs ==
    ASSUME NEW v \in Seq(Nat), NEW c, NEW P, P \subseteq 0..Len(v)
    PROVE  /\ Pathnames!Matches(v, <<c>>, P) \subseteq P
           /\ \A i \in P : i \in Pathnames!Matches(v, <<c>>, P) <=> i < Len(v) /\ v[i + 1] = c
<1> DEFINE M == Pathnames!Matches(v, <<c>>, P)
<1>1. Len(v) \in Nat /\ Len(<<c>>) = 1
  BY LenProperties
<1>2. M = {i \in P : i + 1 <= Len(v) /\ SubSeq(v, i + 1, i + 1) = <<c>>}
  BY <1>1 DEF Pathnames!Matches
<1>3. ASSUME NEW i \in P, i + 1 <= Len(v)
      PROVE  SubSeq(v, i + 1, i + 1) = <<c>> <=> v[i + 1] = c
  <2> DEFINE s == SubSeq(v, i + 1, i + 1)
  <2>1. i \in Nat /\ i + 1 \in Nat /\ i <= i + 1 /\ (i + 1) - i = 1
    BY <1>1
  <2>2. s \in Seq(Nat) /\ Len(s) = 1 /\ s[1] = v[i + 1]
    <3>1. /\ s \in Seq(Nat) /\ Len(s) = (i + 1) - i
          /\ \A j \in 1..((i + 1) - i) : s[j] = v[i + j]
      BY <1>3, <2>1, PartIs
    <3> HIDE DEF s
    <3> QED BY <2>1, <3>1
  <2> HIDE DEF s
  <2>3. s = <<v[i + 1]>>
    <3>1. v[i + 1] \in Nat
      BY <1>1, <1>3, <2>1, ElementOfSeq
    <3> DEFINE w == <<v[i + 1]>>
    <3>2. w \in Seq(Nat) /\ Len(w) = 1 /\ w[1] = v[i + 1]
      BY <3>1
    <3> HIDE DEF w
    <3>3. \A j \in 1..1 : s[j] = w[j]
      BY <2>2, <3>2
    <3>4. s = w
      BY <2>2, <3>2, <3>3, SameText
    <3> QED BY <3>4 DEF w
  <2> QED BY <2>3 DEF s
<1> HIDE DEF M
<1>4. \A i \in P : i + 1 <= Len(v) <=> i < Len(v)
  BY <1>1
<1>5. \A i \in P : i \in M <=> i < Len(v) /\ v[i + 1] = c
  BY <1>2, <1>3, <1>4
<1>6. M \subseteq P
  BY <1>2
<1> QED BY <1>5, <1>6 DEF M

\* The last one of a text, as a position from 0.
LEMMA LastIs ==
    ASSUME NEW v \in Seq(Nat), NEW c
    PROVE  LET k == Pathnames!FindLast(v, <<c>>) IN
           \/ k = -1 /\ \A i \in 1..Len(v) : v[i] # c
           \/ /\ k \in Nat /\ k < Len(v) /\ v[k + 1] = c
              /\ \A i \in (k + 2)..Len(v) : v[i] # c
<1> DEFINE k == Pathnames!FindLast(v, <<c>>)
           l == Pathnames!Clamped(v, Len(v))
           P == 0..Len(v)
           M == Pathnames!Matches(v, <<c>>, P)
<1>1. Len(v) \in Nat
  BY LenProperties
<1>2. l = Len(v)
  BY <1>1, ClampedInside
<1>3. k = IF M = {} THEN -1 ELSE Dynamic!Max(M)
  <2>1. k = IF Pathnames!Matches(v, <<c>>, 0..l) = {} THEN -1
            ELSE Pathnames!Max(Pathnames!Matches(v, <<c>>, 0..l))
    BY DEF Pathnames!FindLast, Pathnames!FindLastTo
  <2> HIDE DEF k, l
  <2> QED BY <1>2, <2>1, SameLimits
<1>4. M \subseteq P /\ \A i \in P : i \in M <=> i < Len(v) /\ v[i + 1] = c
  BY MatchIs
<1> HIDE DEF k, M
<1>5. CASE M = {}
  <2>1. k = -1
    BY <1>3, <1>5
  <2>2. ASSUME NEW i \in 1..Len(v)
        PROVE  v[i] # c
    <3>1. i - 1 \in P /\ i - 1 < Len(v) /\ (i - 1) + 1 = i
      BY <1>1
    <3>2. i - 1 \notin M
      BY <1>5
    <3> HIDE DEF P
    <3> QED BY <1>4, <3>1, <3>2
  <2> QED BY <2>1, <2>2 DEF k
<1>6. CASE M # {}
  <2>1. k \in M /\ \A i \in M : i <= k
    BY <1>1, <1>3, <1>4, <1>6, GreatestBelow
  <2>2. k \in P /\ k < Len(v) /\ v[k + 1] = c
    BY <1>4, <2>1
  <2>3. ASSUME NEW i \in (k + 2)..Len(v)
        PROVE  v[i] # c
    <3>1. k \in Nat
      BY <1>1, <2>2
    <3>2. i - 1 \in P /\ i - 1 < Len(v) /\ (i - 1) + 1 = i /\ ~(i - 1 <= k)
      BY <1>1, <3>1
    <3>3. i - 1 \notin M
      BY <2>1, <3>2
    <3> HIDE DEF P
    <3> QED BY <1>4, <3>2, <3>3
  <2>4. k \in Nat
    BY <1>1, <2>2
  <2> QED BY <2>2, <2>3, <2>4 DEF k
<1> QED BY <1>5, <1>6

\* The first one at or behind a position.
LEMMA FirstIs ==
    ASSUME NEW v \in Seq(Nat), NEW c, NEW s \in 0..Len(v)
    PROVE  LET k == Pathnames!FindFrom(v, <<c>>, s) IN
           \/ k = -1 /\ \A i \in (s + 1)..Len(v) : v[i] # c
           \/ /\ k \in s..(Len(v) - 1) /\ v[k + 1] = c
              /\ \A i \in (s + 1)..k : v[i] # c
<1> DEFINE k == Pathnames!FindFrom(v, <<c>>, s)
           o == Pathnames!Clamped(v, s)
           P == s..Len(v)
           M == Pathnames!Matches(v, <<c>>, P)
<1>1. Len(v) \in Nat /\ s \in Nat /\ s <= Len(v)
  BY LenProperties
<1>2. o = s
  BY <1>1, ClampedInside
<1>3. k = IF M = {} THEN -1 ELSE Dynamic!Min(M)
  <2>1. k = IF Pathnames!Matches(v, <<c>>, o..Len(v)) = {} THEN -1
            ELSE Pathnames!Min(Pathnames!Matches(v, <<c>>, o..Len(v)))
    BY DEF Pathnames!FindFrom
  <2> HIDE DEF k, o
  <2> QED BY <1>2, <2>1, SameLimits
<1>4. M \subseteq P /\ \A i \in P : i \in M <=> i < Len(v) /\ v[i + 1] = c
  <2>1. P \subseteq 0..Len(v)
    BY <1>1
  <2> QED BY <2>1, MatchIs
<1> HIDE DEF k, M
<1>5. CASE M = {}
  <2>1. k = -1
    BY <1>3, <1>5
  <2>2. ASSUME NEW i \in (s + 1)..Len(v)
        PROVE  v[i] # c
    <3>1. i - 1 \in P /\ i - 1 < Len(v) /\ (i - 1) + 1 = i
      BY <1>1
    <3>2. i - 1 \notin M
      BY <1>5
    <3> HIDE DEF P
    <3> QED BY <1>4, <3>1, <3>2
  <2> QED BY <2>1, <2>2 DEF k
<1>6. CASE M # {}
  <2>1. k \in M /\ \A i \in M : k <= i
    <3>1. M \subseteq Nat
      BY <1>1, <1>4
    <3> QED BY <1>3, <1>6, <3>1, LeastNatural
  <2>2. k \in P /\ k < Len(v) /\ v[k + 1] = c
    BY <1>4, <2>1
  <2>3. ASSUME NEW i \in (s + 1)..k
        PROVE  v[i] # c
    <3>1. k \in Nat
      BY <1>1, <2>2
    <3>2. i - 1 \in P /\ i - 1 < Len(v) /\ (i - 1) + 1 = i /\ ~(k <= i - 1)
      BY <1>1, <2>2, <3>1
    <3>3. i - 1 \notin M
      BY <2>1, <3>2
    <3> HIDE DEF P
    <3> QED BY <1>4, <3>2, <3>3
  <2>4. k \in s..(Len(v) - 1)
    BY <1>1, <2>2
  <2> QED BY <2>2, <2>3, <2>4 DEF k
<1> QED BY <1>5, <1>6

\* Slashes at the ends.
LEMMA TrimRightIs ==
    ASSUME NEW v \in Seq(Nat), NEW c
    PROVE  \E l \in 0..Len(v) :
               /\ Pathnames!TrimRight(v, {c}) = SubSeq(v, 1, l)
               /\ \A i \in (l + 1)..Len(v) : v[i] = c
<1> DEFINE S == {0} \cup {i \in DOMAIN v : v[i] \notin {c}}
           l == Pathnames!RightLength(v, {c})
<1>1. Len(v) \in Nat /\ DOMAIN v = 1..Len(v)
  BY LenProperties
<1>2. l = Dynamic!Max(S)
  BY SameLimits DEF Pathnames!RightLength
<1>3. S \subseteq 0..Len(v) /\ S # {} /\ \A i \in 1..Len(v) : v[i] # c => i \in S
  BY <1>1
<1> HIDE DEF S, l
<1>4. l \in S /\ \A k \in S : k <= l
  BY <1>1, <1>2, <1>3, GreatestBelow
<1>5. l \in 0..Len(v)
  BY <1>3, <1>4
<1>6. ASSUME NEW i \in (l + 1)..Len(v)
      PROVE  v[i] = c
  <2>1. i \in 1..Len(v) /\ ~(i <= l)
    BY <1>1, <1>5
  <2> QED BY <1>3, <1>4, <2>1
<1>7. Pathnames!TrimRight(v, {c}) = SubSeq(v, 1, l)
  BY DEF Pathnames!TrimRight, l
<1> QED BY <1>5, <1>6, <1>7

LEMMA TrimLeftIs ==
    ASSUME NEW v \in Seq(Nat), NEW c
    PROVE  \E o \in 0..Len(v) :
               /\ Pathnames!TrimLeft(v, {c}) = SubSeq(v, o + 1, Len(v))
               /\ \A i \in 1..o : v[i] = c
<1> DEFINE S == {Len(v)} \cup {i - 1 : i \in {j \in DOMAIN v : v[j] \notin {c}}}
           o == Pathnames!LeftOffset(v, {c})
<1>1. Len(v) \in Nat /\ DOMAIN v = 1..Len(v)
  BY LenProperties
<1>2. o = Dynamic!Min(S)
  BY SameLimits DEF Pathnames!LeftOffset
<1>3. S \subseteq 0..Len(v) /\ S # {} /\ S \subseteq Nat
  <2>1. \A i \in 1..Len(v) : i - 1 \in 0..Len(v)
    BY <1>1
  <2> QED BY <1>1, <2>1
<1>4. \A i \in 1..Len(v) : v[i] # c => i - 1 \in S
  BY <1>1
<1> HIDE DEF S, o
<1>5. o \in S /\ \A k \in S : o <= k
  BY <1>2, <1>3, LeastNatural
<1>6. o \in 0..Len(v)
  BY <1>3, <1>5
<1>7. ASSUME NEW i \in 1..o
      PROVE  v[i] = c
  <2>1. i \in 1..Len(v) /\ ~(o <= i - 1)
    BY <1>1, <1>6
  <2> QED BY <1>4, <1>5, <2>1
<1>8. Pathnames!TrimLeft(v, {c}) = SubSeq(v, o + 1, Len(v))
  BY DEF Pathnames!TrimLeft, o
<1> QED BY <1>6, <1>7, <1>8

(* Texts of paths, and what they mean.                                      *)
PathChars == Letters \cup {47, 46}
PathText == Seq(PathChars)

LEMMA PathCharsAre ==
    PathChars \subseteq Nat \ {0} /\ PathChars \subseteq Nat
BY PathBounds DEF PathChars, Pathnames!Dot, Pathnames!Slash

LEMMA PathTextIs ==
    ASSUME NEW p \in PathText
    PROVE  /\ p \in Seq(Nat) /\ Len(p) \in Nat
           /\ \A i \in 1..Len(p) : p[i] \in PathChars /\ p[i] \in Nat
<1>1. p \in Seq(PathChars)
  BY DEF PathText
<1>2. p \in Seq(Nat)
  BY <1>1, PathCharsAre, SeqMonotonic, Zenon
<1>3. Len(p) \in Nat /\ \A i \in 1..Len(p) : p[i] \in PathChars
  BY <1>1, LenProperties, ElementOfSeq
<1> QED BY <1>2, <1>3, PathCharsAre

LEMMA PathPart ==
    ASSUME NEW p \in PathText, NEW a \in Nat, NEW b \in Nat, a <= b, b <= Len(p)
    PROVE  /\ SubSeq(p, a + 1, b) \in PathText /\ SubSeq(p, a + 1, b) \in Seq(Nat)
           /\ Len(SubSeq(p, a + 1, b)) = b - a
           /\ \A i \in 1..(b - a) : SubSeq(p, a + 1, b)[i] = p[a + i]
           /\ HasAt(p, a, SubSeq(p, a + 1, b))
           /\ Pathnames!Sub(p, a, b) = SubSeq(p, a + 1, b)
<1>1. p \in Seq(PathChars) /\ p \in Seq(Nat)
  BY PathTextIs DEF PathText
<1>2. PathChars \subseteq Nat
  BY PathCharsAre
<1> HIDE DEF PathChars
<1>3. /\ SubSeq(p, a + 1, b) \in Seq(PathChars) /\ SubSeq(p, a + 1, b) \in Seq(Nat)
      /\ Len(SubSeq(p, a + 1, b)) = b - a
      /\ \A i \in 1..(b - a) : SubSeq(p, a + 1, b)[i] = p[a + i]
      /\ HasAt(p, a, SubSeq(p, a + 1, b))
  BY <1>1, <1>2, PartIs
<1>4. Pathnames!Sub(p, a, b) = SubSeq(p, a + 1, b)
  BY <1>1, SubText
<1> QED BY <1>3, <1>4 DEF PathText

LEMMA TextPart ==
    ASSUME NEW v \in Seq(Nat), NEW a \in Nat, NEW b \in Nat, a <= b, b <= Len(v)
    PROVE  /\ SubSeq(v, a + 1, b) \in Seq(Nat) /\ Len(SubSeq(v, a + 1, b)) = b - a
           /\ \A i \in 1..(b - a) : SubSeq(v, a + 1, b)[i] = v[a + i]
           /\ HasAt(v, a, SubSeq(v, a + 1, b))
<1>1. Nat \subseteq Nat
  OBVIOUS
<1> QED BY <1>1, PartIs

\* The whole of a text is a part of it.
LEMMA WholeText ==
    ASSUME NEW v \in Seq(Nat)
    PROVE  SubSeq(v, 1, Len(v)) = v
<1> DEFINE u == SubSeq(v, 0 + 1, Len(v))
<1>1. 0 \in Nat /\ Len(v) \in Nat /\ 0 <= Len(v)  /\ v \in Seq(Nat)
  BY LenProperties
<1>2. /\ u \in Seq(Nat) /\ Len(u) = Len(v) - 0
      /\ \A i \in 1..(Len(v) - 0) : u[i] = v[0 + i]
  BY <1>1, TextPart
<1> HIDE DEF u
<1>3. Len(u) = Len(v) /\ \A i \in 1..Len(u) : u[i] = v[i]
  <2>1. Len(v) - 0 = Len(v) /\ \A i \in 1..Len(v) : 0 + i = i
    BY <1>1
  <2> QED BY <1>2, <2>1
<1>4. u = v
  BY <1>2, <1>3, SameText
<1> QED BY <1>4 DEF u

\* A path that begins with a slash is absolute.
Absolute(p) == p # <<>> /\ p[1] = 47

\* Where the way of a path begins, and where it leads, from a directory c.
Base(c, p) == IF Absolute(p) THEN <<>> ELSE Pathnames!Follow(<<>>, c)
Meant(c, p) == Pathnames!Follow(Base(c, p), p)

LEMMA AbsoluteIs ==
    ASSUME NEW p \in Seq(Nat)
    PROVE  /\ Pathnames!StartsWith(p, <<Pathnames!Slash>>) <=> Absolute(p)
           /\ Pathnames!IsPrefix(<<Pathnames!Slash>>, p) <=> Absolute(p)
<1> DEFINE s == <<47>>
<1>1. Pathnames!Slash = 47
  BY DEF Pathnames!Slash
<1>2. s \in Seq(Nat) /\ Len(s) = 1 /\ s[1] = 47 /\ DOMAIN s = 1..1
  OBVIOUS
<1>3. Len(p) \in Nat /\ (p # <<>> <=> Len(p) >= 1)
  BY LenProperties, EmptySeq
<1>4. Pathnames!StartsWith(p, s) <=> Absolute(p)
  <2>1. Pathnames!StartsWith(p, s) <=> \A i \in 1..1 : i <= Len(p) /\ p[i] = s[i]
    BY <1>2 DEF Pathnames!StartsWith
  <2> HIDE DEF s
  <2>2. Pathnames!StartsWith(p, s) <=> 1 <= Len(p) /\ p[1] = s[1]
    BY <2>1
  <2> QED BY <1>2, <1>3, <2>2 DEF Absolute
<1>5. Pathnames!IsPrefix(s, p) <=> Absolute(p)
  <2>1. Pathnames!IsPrefix(s, p) <=> Len(s) <= Len(p) /\ SubSeq(s, 1, Len(s)) = SubSeq(p, 1, Len(s))
    BY DEF Pathnames!IsPrefix
  <2>2. SubSeq(s, 1, Len(s)) = s
    <3> HIDE DEF s
    <3> QED BY <1>2, WholeText
  <2>3. CASE Len(p) >= 1
    <3> DEFINE u == SubSeq(p, 0 + 1, 1)
    <3>1. u \in Seq(Nat) /\ Len(u) = 1 - 0 /\ \A i \in 1..(1 - 0) : u[i] = p[0 + i]
      <4>1. 0 \in Nat /\ 1 \in Nat /\ 0 <= 1 /\ 1 <= Len(p)
        BY <1>3, <2>3
      <4> QED BY <4>1, TextPart
    <3> HIDE DEF u
    <3>2. Len(u) = 1 /\ u[1] = p[1]
      BY <3>1
    <3> HIDE DEF s
    <3>3. s = u <=> p[1] = 47
      <4>1. p[1] = 47 => \A i \in 1..Len(s) : s[i] = u[i]
        BY <1>2, <3>2
      <4>2. p[1] = 47 => s = u
        BY <1>2, <3>1, <3>2, <4>1, SameText
      <4> QED BY <1>2, <3>2, <4>2
    <3>4. Pathnames!IsPrefix(s, p) <=> s = u
      <4>1. 0 + 1 = 1 /\ Len(s) <= Len(p)
        BY <1>2, <2>3
      <4> QED BY <1>2, <2>1, <2>2, <4>1 DEF u
    <3> QED BY <1>3, <2>3, <3>3, <3>4 DEF Absolute
  <2>4. CASE ~(Len(p) >= 1)
    BY <1>2, <1>3, <2>1, <2>4 DEF Absolute
  <2> QED BY <2>3, <2>4
<1> QED BY <1>1, <1>4, <1>5

LEMMA MeaningIs ==
    ASSUME NEW p \in Seq(Nat)
    PROVE  Pathnames!Meaning(p) = Meant(cwd, p)
<1>1. Pathnames!Meaning(p) = IF Absolute(p) THEN Pathnames!Follow(<<>>, p)
                             ELSE Pathnames!Follow(Pathnames!Follow(<<>>, cwd), p)
  BY AbsoluteIs DEF Pathnames!Meaning
<1> QED BY <1>1 DEF Base, Meant

(* What is added behind a path is followed from where the path leads.       *)
Behinds(w, p, b) ==
    \/ w = p \o Pathnames!Cons(47, b)
    \/ p[Len(p)] = 47 /\ w = p \o b

LEMMA TwoParts ==
    ASSUME NEW d \in Seq(Seq(Nat)), NEW p \in Seq(Nat), p # <<>>, NEW q \in Seq(Nat),
           NEW w, Behinds(w, p, Pathnames!TrimLeft(q, {47}))
    PROVE  /\ w \in Seq(Nat) /\ w # <<>> /\ w[1] = p[1]
           /\ Pathnames!Follow(d, w) = Pathnames!Follow(Pathnames!Follow(d, p), q)
<1> DEFINE b == Pathnames!TrimLeft(q, {47})
           c == Pathnames!Follow(d, p)
<1>1. Len(p) \in Nat /\ Len(p) >= 1 /\ Len(q) \in Nat
  BY LenProperties, EmptySeq
<1>2. c \in Seq(Seq(Nat))
  BY FollowIs
<1>3. b \in Seq(Nat) /\ Pathnames!Follow(c, q) = Pathnames!Follow(c, b)
  <2>1. PICK o \in 0..Len(q) :
            /\ Pathnames!TrimLeft(q, {47}) = SubSeq(q, o + 1, Len(q))
            /\ \A i \in 1..o : q[i] = 47
    BY TrimLeftIs
  <2>2. b = SubSeq(q, o + 1, Len(q)) /\ o \in Nat /\ o <= Len(q)
    BY <1>1, <2>1
  <2>3. /\ SubSeq(q, o + 1, Len(q)) \in Seq(Nat) /\ Len(SubSeq(q, o + 1, Len(q))) = Len(q) - o
        /\ HasAt(q, o, SubSeq(q, o + 1, Len(q)))
    <3>1. Len(q) \in Nat /\ Len(q) <= Len(q)
      BY <1>1
    <3> QED BY <2>2, <3>1, TextPart
  <2>4. b \in Seq(Nat) /\ HasAt(q, o, b) /\ o + Len(b) = Len(q)
    <3>1. b \in Seq(Nat) /\ HasAt(q, o, b) /\ Len(b) = Len(q) - o
      BY <2>2, <2>3
    <3> QED BY <1>1, <2>2, <3>1
  <2> HIDE DEF b, c
  <2> QED BY <1>2, <2>1, <2>4, SlashesInFront
<1> HIDE DEF b, c
<1>4. CASE w = p \o Pathnames!Cons(47, b)
  <2> DEFINE x == <<47>> \o b
  <2>1. w = p \o x
    BY <1>4 DEF Pathnames!Cons
  <2>2. <<47>> \in Seq(Nat) /\ Len(<<47>>) = 1 /\ <<47>>[1] = 47
    OBVIOUS
  <2>3. /\ x \in Seq(Nat) /\ Len(x) = 1 + Len(b) /\ Len(b) \in Nat
        /\ \A i \in 1..(1 + Len(b)) : x[i] = IF i <= 1 THEN 47 ELSE b[i - 1]
    <3> DEFINE s == <<47>>
    <3>1. s \in Seq(Nat) /\ Len(s) = 1 /\ s[1] = 47 /\ Len(b) \in Nat
      BY <1>3, LenProperties
    <3> HIDE DEF s
    <3>2. /\ s \o b \in Seq(Nat) /\ Len(s \o b) = Len(s) + Len(b)
          /\ \A i \in 1..(Len(s) + Len(b)) : (s \o b)[i] = IF i <= Len(s) THEN s[i] ELSE b[i - Len(s)]
      <4>1. s \in Seq(Nat) /\ b \in Seq(Nat)
        BY <1>3, <3>1
      <4> QED BY <4>1, ConcatProperties
    <3>3. x = s \o b
      BY DEF s
    <3> HIDE DEF x
    <3>4. /\ x \in Seq(Nat) /\ Len(x) = 1 + Len(b) /\ Len(b) \in Nat
          /\ \A i \in 1..(1 + Len(b)) : x[i] = IF i <= 1 THEN s[i] ELSE b[i - 1]
      BY <3>1, <3>2, <3>3
    <3>5. \A i \in 1..(1 + Len(b)) : x[i] = IF i <= 1 THEN 47 ELSE b[i - 1]
      <4> TAKE i \in 1..(1 + Len(b))
      <4>1. x[i] = (IF i <= 1 THEN s[i] ELSE b[i - 1]) /\ (i <= 1 => i = 1)
        BY <3>4
      <4> QED BY <3>1, <4>1
    <3> QED BY <3>4, <3>5
  <2> HIDE DEF x
  <2>4. /\ w \in Seq(Nat) /\ Len(w) = Len(p) + Len(x)
        /\ \A i \in 1..(Len(p) + Len(x)) : w[i] = IF i <= Len(p) THEN p[i] ELSE x[i - Len(p)]
    BY <2>1, <2>3, ConcatProperties
  <2> DEFINE n == Len(p)
             m == Len(b)
  <2>5. /\ n \in Nat /\ n >= 1 /\ m \in Nat /\ Len(w) = n + 1 + m
        /\ \A i \in 1..n : w[i] = p[i]
        /\ w[n + 1] = 47
        /\ \A i \in 1..m : w[(n + 1) + i] = b[i]
    <3>1. n \in Nat /\ n >= 1 /\ m \in Nat /\ Len(x) = 1 + m
      BY <1>1, <2>3
    <3> HIDE DEF n, m
    <3>2. Len(w) = n + 1 + m /\ \A i \in 1..(n + 1 + m) : w[i] = IF i <= n THEN p[i] ELSE x[i - n]
      <4>1. Len(w) = n + Len(x) /\ \A i \in 1..(n + Len(x)) : w[i] = IF i <= n THEN p[i] ELSE x[i - n]
        BY <2>4 DEF n
      <4>2. n + Len(x) = n + 1 + m
        BY <3>1
      <4> QED BY <4>1, <4>2
    <3>3. \A i \in 1..n : w[i] = p[i]
      BY <3>1, <3>2
    <3>4. \A i \in 1..(1 + m) : x[i] = IF i <= 1 THEN 47 ELSE b[i - 1]
      BY <2>3 DEF m
    <3>5. w[n + 1] = 47
      <4>1. n + 1 \in 1..(n + 1 + m) /\ ~(n + 1 <= n) /\ (n + 1) - n = 1 /\ 1 \in 1..(1 + m)
        BY <3>1
      <4> QED BY <3>2, <3>4, <4>1
    <3>6. ASSUME NEW i \in 1..m
          PROVE  w[(n + 1) + i] = b[i]
      <4>1. /\ (n + 1) + i \in 1..(n + 1 + m) /\ ~((n + 1) + i <= n) /\ ((n + 1) + i) - n = 1 + i
            /\ 1 + i \in 1..(1 + m) /\ ~(1 + i <= 1) /\ (1 + i) - 1 = i
        BY <3>1
      <4> QED BY <3>2, <3>4, <4>1
    <3> QED BY <3>1, <3>2, <3>3, <3>5, <3>6
  <2>6. HasAt(w, 0, p) /\ HasAt(w, Len(p) + 1, b)
    <3> HIDE DEF n, m
    <3>1. 0 \in Nat /\ n + 1 \in Nat /\ 0 + n <= Len(w) /\ (n + 1) + m <= Len(w)
      BY <2>5
    <3>2. \A i \in 1..n : 0 + i = i
      BY <2>5
    <3> QED BY <2>5, <3>1, <3>2 DEF HasAt, n, m
  <2>7. Len(w) = Len(p) + 1 + Len(b) /\ w[Len(p) + 1] = 47
    BY <2>5
  <2>8. Pathnames!Follow(d, w) = Pathnames!Follow(c, b)
    <3>1. w \in Seq(Nat) /\ p \in Seq(Nat) /\ b \in Seq(Nat)
      BY <1>3, <2>4
    <3>2. Pathnames!Follow(d, w) = Pathnames!Follow(Pathnames!Follow(d, p), b)
      BY <2>6, <2>7, <3>1, FollowSplit, SMTT(30)
    <3> QED BY <3>2 DEF c
  <2>9. w # <<>> /\ w[1] = p[1]
    <3>1. Len(w) # 0 /\ 1 \in 1..n
      BY <2>5
    <3> QED BY <2>4, <2>5, <3>1, EmptySeq
  <2> QED BY <1>3, <2>4, <2>8, <2>9 DEF c
<1>5. CASE p[Len(p)] = 47 /\ w = p \o b
  <2> DEFINE n == Len(p)
             m == Len(b)
             a == SubSeq(p, 0 + 1, n - 1)
  <2>1. n \in Nat /\ n >= 1 /\ m \in Nat /\ n - 1 \in Nat /\ 0 <= n - 1 /\ n - 1 <= Len(p)
    BY <1>1, <1>3, LenProperties
  <2>2. /\ a \in Seq(Nat) /\ Len(a) = n - 1 /\ HasAt(p, 0, a)
        /\ \A i \in 1..(n - 1) : a[i] = p[0 + i]
    <3> DEFINE m1 == n - 1
    <3>1. 0 \in Nat /\ m1 \in Nat /\ 0 <= m1 /\ m1 <= Len(p) /\ m1 - 0 = m1
      BY <2>1
    <3> HIDE DEF n, m1
    <3>2. /\ SubSeq(p, 0 + 1, m1) \in Seq(Nat) /\ Len(SubSeq(p, 0 + 1, m1)) = m1
          /\ HasAt(p, 0, SubSeq(p, 0 + 1, m1))
          /\ \A i \in 1..m1 : SubSeq(p, 0 + 1, m1)[i] = p[0 + i]
      BY <3>1, TextPart
    <3> QED BY <3>2 DEF m1
  <2>3. /\ w \in Seq(Nat) /\ Len(w) = n + m
        /\ \A i \in 1..(n + m) : w[i] = IF i <= n THEN p[i] ELSE b[i - n]
    BY <1>3, <1>5, ConcatProperties
  <2> HIDE DEF a
  <2>4. p[n] = 47
    BY <1>5
  <2> HIDE DEF n, m
  <2>5. HasAt(w, 0, a)
    <3>1. 0 \in Nat /\ 0 + Len(a) <= Len(w)
      BY <2>1, <2>2, <2>3
    <3>2. \A i \in 1..(n - 1) : i \in 1..(n + m) /\ i <= n /\ 0 + i = i
      BY <2>1
    <3>3. \A i \in 1..Len(a) : w[0 + i] = a[i]
      BY <2>2, <2>3, <3>2
    <3> QED BY <3>1, <3>3 DEF HasAt
  <2>6. HasAt(w, Len(a) + 1, b)
    <3>1. Len(a) + 1 = n /\ n \in Nat /\ n + m <= Len(w)
      BY <2>1, <2>2, <2>3
    <3>2. \A i \in 1..m : n + i \in 1..(n + m) /\ ~(n + i <= n) /\ (n + i) - n = i
      BY <2>1
    <3>3. \A i \in 1..m : w[n + i] = b[i]
      BY <2>3, <3>2
    <3> QED BY <3>1, <3>3 DEF HasAt, m
  <2>7. Len(a) + 1 = n /\ w[n] = 47 /\ w[1] = p[1] /\ Len(w) # 0
    <3>1. Len(a) + 1 = n /\ 1 \in 1..(n + m) /\ 1 <= n /\ n \in 1..(n + m) /\ n <= n /\ n + m # 0
      BY <2>1, <2>2
    <3> QED BY <2>3, <2>4, <3>1
  <2>8. Len(w) = Len(a) + 1 + Len(b) /\ w[Len(a) + 1] = 47
    BY <2>3, <2>7 DEF m
  <2>9. Pathnames!Follow(d, w) = Pathnames!Follow(Pathnames!Follow(d, a), b)
    <3>1. w \in Seq(Nat) /\ a \in Seq(Nat) /\ b \in Seq(Nat)
      BY <1>3, <2>2, <2>3
    <3> QED BY <2>5, <2>6, <2>8, <3>1, FollowSplit, SMTT(30)
  <2>10. Pathnames!Follow(d, p) = Pathnames!Follow(d, a)
    <3>1. \A i \in (Len(a) + 1)..Len(p) : i = n
      BY <2>1, <2>7 DEF n
    <3>2. \A i \in (Len(a) + 1)..Len(p) : p[i] = 47
      BY <2>4, <3>1
    <3> QED BY <2>2, <3>2, SlashesBehind
  <2>11. w # <<>>
    BY <2>3, <2>7, EmptySeq
  <2> QED BY <1>3, <2>3, <2>7, <2>9, <2>10, <2>11 DEF c
<1> QED BY <1>4, <1>5 DEF b, Behinds

(* The texts that the joins make are texts of paths.                        *)
LEMMA JoinedTexts ==
    ASSUME NEW p \in PathText, NEW q \in PathText
    PROVE  /\ p \o q \in PathText
           /\ p \o Pathnames!Cons(47, q) \in PathText
           /\ Append(p, 47) \in PathText
           /\ Append(p, 47) \o q = p \o Pathnames!Cons(47, q)
<1>1. p \in Seq(PathChars) /\ q \in Seq(PathChars) /\ 47 \in PathChars
  BY DEF PathText, PathChars
<1> HIDE DEF PathChars
<1> DEFINE s == <<47>>
<1>2. s \in Seq(PathChars) /\ Append(p, 47) = p \o s
  <2>1. s \in Seq(PathChars)
    BY <1>1
  <2>2. Append(p, 47) = p \o s
    BY <1>1
  <2> QED BY <2>1, <2>2
<1> HIDE DEF s
<1>3. p \o q \in Seq(PathChars) /\ s \o q \in Seq(PathChars) /\ p \o s \in Seq(PathChars)
  BY <1>1, <1>2, ConcatProperties
<1>4. p \o (s \o q) \in Seq(PathChars)
  BY <1>1, <1>3, ConcatProperties
<1>5. (p \o s) \o q = p \o (s \o q)
  BY <1>1, <1>2, ConcatAssociative
<1>6. Pathnames!Cons(47, q) = s \o q
  BY DEF Pathnames!Cons, s
<1> QED BY <1>2, <1>3, <1>4, <1>5, <1>6 DEF PathText

LEMMA BareIs ==
    ASSUME NEW q \in PathText
    PROVE  Pathnames!TrimLeft(q, {47}) \in PathText
<1>1. q \in Seq(Nat) /\ Len(q) \in Nat
  BY PathTextIs
<1>2. PICK o \in 0..Len(q) : Pathnames!TrimLeft(q, {47}) = SubSeq(q, o + 1, Len(q))
  BY <1>1, TrimLeftIs
<1>3. o \in Nat /\ o <= Len(q)
  BY <1>1
<1>4. SubSeq(q, o + 1, Len(q)) \in PathText
  <2>1. Len(q) \in Nat /\ Len(q) <= Len(q)
    BY <1>1
  <2> QED BY <1>3, <2>1, PathPart
<1> QED BY <1>2, <1>4

\* What p_pre() makes.
LEMMA PrefixedIs ==
    ASSUME NEW p \in PathText, NEW q \in PathText, NEW w \in Pathnames!Prefixed(p, q)
    PROVE  /\ w \in PathText
           /\ q # <<>> => /\ w # <<>> /\ w[1] = q[1]
                          /\ \A d \in Seq(Seq(Nat)) :
                                Pathnames!Follow(d, w) = Pathnames!Follow(Pathnames!Follow(d, q), p)
<1> DEFINE b == Pathnames!TrimLeft(p, {47})
<1>1. b \in PathText
  BY BareIs
<1>2. Pathnames!TrimLeft(p, {Pathnames!Slash}) = b
  BY DEF Pathnames!Slash
<1> HIDE DEF b
<1>3. /\ w = q \o b \/ w = q \o Pathnames!Cons(47, b)
      /\ q # <<>> => w = q \o Pathnames!Cons(47, b) \/ (q[Len(q)] = 47 /\ w = q \o b)
  <2>1. w \in LET close == q \o b
                  apart == q \o Pathnames!Cons(47, b)
              IN CASE q = <<>> -> {close, apart}
                   [] q # <<>> /\ q[Len(q)] = 47 -> {close}
                   [] OTHER -> {apart}
    BY <1>2 DEF Pathnames!Prefixed, Pathnames!Slash, Pathnames!Last
  <2> DEFINE close == q \o b
             apart == q \o Pathnames!Cons(47, b)
             empty == q = <<>>
             ends == q[Len(q)] = 47
  <2>2. w \in CASE empty -> {close, apart}
                [] ~empty /\ ends -> {close}
                [] OTHER -> {apart}
    BY <2>1
  <2>3. /\ w = close \/ w = apart
        /\ ~empty => w = apart \/ (ends /\ w = close)
    <3> HIDE DEF close, apart, empty, ends
    <3> QED BY <2>2
  <2> QED BY <2>3
<1>4. w \in PathText
  <2>1. q \o b \in PathText /\ q \o Pathnames!Cons(47, b) \in PathText
    BY <1>1, JoinedTexts
  <2> QED BY <1>3, <2>1, Zenon
<1>5. ASSUME q # <<>>
      PROVE  /\ w # <<>> /\ w[1] = q[1]
             /\ \A d \in Seq(Seq(Nat)) :
                    Pathnames!Follow(d, w) = Pathnames!Follow(Pathnames!Follow(d, q), p)
  <2>1. Behinds(w, q, b)
    BY <1>3, <1>5 DEF Behinds
  <2>2. p \in Seq(Nat) /\ q \in Seq(Nat)
    BY PathTextIs
  <2>3. <<>> \in Seq(Seq(Nat))
    BY EmptySeq
  <2>4. \A d \in Seq(Seq(Nat)) :
            /\ w # <<>> /\ w[1] = q[1]
            /\ Pathnames!Follow(d, w) = Pathnames!Follow(Pathnames!Follow(d, q), p)
    BY <1>5, <2>1, <2>2, TwoParts DEF b
  <2> QED BY <2>3, <2>4
<1> QED BY <1>4, <1>5

\* What p_cat() makes.
LEMMA JoinedIs ==
    ASSUME NEW p \in PathText, NEW q \in PathText
    PROVE  /\ Pathnames!Joined(p, q) \in PathText
           /\ p # <<>> /\ Pathnames!Joined(p, q) # <<>> =>
                 /\ Pathnames!Joined(p, q)[1] = p[1]
                 /\ \A d \in Seq(Seq(Nat)) :
                       Pathnames!Follow(d, Pathnames!Joined(p, q))
                         = Pathnames!Follow(Pathnames!Follow(d, p), q)
<1> DEFINE b == Pathnames!TrimLeft(q, {47})
           s == <<47>>
           f == IF Pathnames!EndsWith(p, s) THEN p ELSE Append(p, 47)
           w == f \o b
           r == Pathnames!Joined(p, q)
<1>1. b \in PathText /\ p \in Seq(Nat) /\ q \in Seq(Nat) /\ Len(p) \in Nat
  BY BareIs, PathTextIs
<1>2. r = Pathnames!TrimRight(w, {47})
  BY DEF Pathnames!Joined, Pathnames!Slash
<1>3. w = p \o b \/ w = p \o Pathnames!Cons(47, b)
  <2> HIDE DEF b
  <2> QED BY <1>1, JoinedTexts
<1>4. Pathnames!EndsWith(p, s) /\ p # <<>> => p[Len(p)] = 47
  <2> SUFFICES ASSUME Pathnames!EndsWith(p, s), p # <<>>
               PROVE  p[Len(p)] = 47
    OBVIOUS
  <2>1. s \in Seq(Nat) /\ Len(s) = 1 /\ s[1] = 47
    OBVIOUS
  <2>2. SubSeq(p, Len(p) - Len(s) + 1, Len(p)) = s
    BY DEF Pathnames!EndsWith
  <2>3. Len(p) >= 1
    BY <1>1, EmptySeq
  <2> DEFINE n == Len(p)
             u == SubSeq(p, (n - 1) + 1, n)
  <2>4. n - 1 \in Nat /\ n \in Nat /\ n - 1 <= n /\ n <= Len(p)
        /\ n - (n - 1) = 1 /\ (n - 1) + 1 = n
    BY <1>1, <2>3
  <2>5. \A i \in 1..(n - (n - 1)) : u[i] = p[(n - 1) + i]
    <3> HIDE DEF n
    <3> QED BY <1>1, <2>4, TextPart
  <2>6. u = s
    <3>1. Len(p) - Len(s) + 1 = (n - 1) + 1
      BY <1>1, <2>1
    <3> QED BY <2>2, <3>1
  <2> HIDE DEF u, n, s
  <2>7. u[1] = p[n]
    BY <2>4, <2>5
  <2> QED BY <2>1, <2>6, <2>7 DEF n
<1>5. w \in PathText
  <2> HIDE DEF b, w
  <2>1. p \o b \in PathText /\ p \o Pathnames!Cons(47, b) \in PathText
    BY <1>1, JoinedTexts
  <2> QED BY <1>3, <2>1, Zenon
<1>6. w \in Seq(Nat) /\ Len(w) \in Nat
  <2> HIDE DEF w
  <2> QED BY <1>5, PathTextIs
<1>7. p # <<>> => Behinds(w, p, b)
  <2>1. CASE Pathnames!EndsWith(p, s)
    <3>1. w = p \o b
      BY <2>1
    <3> HIDE DEF w, s
    <3> QED BY <1>4, <2>1, <3>1 DEF Behinds
  <2>2. CASE ~Pathnames!EndsWith(p, s)
    <3>1. w = Append(p, 47) \o b
      BY <2>2
    <3> HIDE DEF w, s, b
    <3>2. w = p \o Pathnames!Cons(47, b)
      BY <1>1, <3>1, JoinedTexts
    <3> QED BY <3>2 DEF Behinds
  <2> QED BY <2>1, <2>2
<1> HIDE DEF w, r, s
<1>8. PICK l \in 0..Len(w) :
          /\ Pathnames!TrimRight(w, {47}) = SubSeq(w, 1, l)
          /\ \A i \in (l + 1)..Len(w) : w[i] = 47
  BY <1>6, TrimRightIs
<1>9. /\ r \in PathText /\ r \in Seq(Nat) /\ Len(r) = l /\ HasAt(w, 0, r)
      /\ \A i \in 1..l : r[i] = w[i]
  <2> DEFINE u == SubSeq(w, 0 + 1, l)
  <2>1. r = u
    BY <1>2, <1>8
  <2>2. 0 \in Nat /\ l \in Nat /\ 0 <= l /\ l <= Len(w)
    BY <1>6
  <2>3. /\ u \in PathText /\ u \in Seq(Nat) /\ Len(u) = l - 0 /\ HasAt(w, 0, u)
        /\ \A i \in 1..(l - 0) : u[i] = w[0 + i]
    BY <1>5, <2>2, PathPart
  <2> HIDE DEF u
  <2>4. l - 0 = l /\ \A i \in 1..l : 0 + i = i
    BY <2>2
  <2> QED BY <2>1, <2>3, <2>4
<1>10. ASSUME p # <<>>, r # <<>>
       PROVE  /\ r[1] = p[1]
              /\ \A d \in Seq(Seq(Nat)) :
                    Pathnames!Follow(d, r) = Pathnames!Follow(Pathnames!Follow(d, p), q)
  <2>1. \A d \in Seq(Seq(Nat)) :
            /\ w # <<>> /\ w[1] = p[1]
            /\ Pathnames!Follow(d, w) = Pathnames!Follow(Pathnames!Follow(d, p), q)
    BY <1>1, <1>7, <1>10, TwoParts DEF b
  <2>2. \A d \in Seq(Seq(Nat)) : Pathnames!Follow(d, w) = Pathnames!Follow(d, r)
    <3>1. \A i \in (Len(r) + 1)..Len(w) : w[i] = 47
      BY <1>8, <1>9
    <3> QED BY <1>6, <1>9, <3>1, SlashesBehind
  <2>3. r[1] = p[1]
    <3>1. l # 0 /\ 1 \in 1..l
      BY <1>6, <1>9, <1>10, EmptySeq
    <3>2. <<>> \in Seq(Seq(Nat))
      BY EmptySeq
    <3> QED BY <1>9, <2>1, <3>1, <3>2
  <2> QED BY <2>1, <2>2, <2>3
<1> QED BY <1>9, <1>10 DEF r

(* The file of a path: what is behind its last slash.                       *)
LEMMA FileIs ==
    ASSUME NEW p \in PathText
    PROVE  LET o == Pathnames!LastSlash(p) + 1 IN
           /\ o \in 0..Len(p)
           /\ Pathnames!File(p) = SubSeq(p, o + 1, Len(p))
           /\ Pathnames!File(p) \in PathText
           /\ o # 0 => p[o] = 47
           /\ \A i \in (o + 1)..Len(p) : p[i] # 47
<1> DEFINE k == Pathnames!LastSlash(p)
           o == k + 1
           f == Pathnames!File(p)
<1>1. p \in Seq(Nat) /\ Len(p) \in Nat
  BY PathTextIs
<1>2. \/ k = -1 /\ \A i \in 1..Len(p) : p[i] # 47
      \/ /\ k \in Nat /\ k < Len(p) /\ p[k + 1] = 47
         /\ \A i \in (k + 2)..Len(p) : p[i] # 47
  <2>1. k = Pathnames!FindLast(p, <<47>>)
    BY DEF Pathnames!LastSlash, Pathnames!Slash
  <2> HIDE DEF k
  <2> QED BY <1>1, <2>1, LastIs
<1>3. f = IF k < 0 THEN p ELSE Pathnames!Sub(p, k + 1, Len(p))
  BY DEF Pathnames!File, Pathnames!SubEnd
<1> HIDE DEF k, f
<1>4. CASE k = -1
  <2>1. o = 0 /\ o + 1 = 1 /\ k < 0
    BY <1>4
  <2>2. f = SubSeq(p, o + 1, Len(p))
    BY <1>1, <1>3, <2>1, WholeText
  <2>3. \A i \in (o + 1)..Len(p) : p[i] # 47
    BY <1>2, <1>4, <2>1
  <2>4. f = p
    BY <1>3, <2>1
  <2>5. f \in PathText /\ o \in 0..Len(p)
    BY <1>1, <2>1, <2>4
  <2> HIDE DEF o
  <2> QED BY <2>1, <2>2, <2>3, <2>5 DEF o, k, f
<1>5. CASE k # -1
  <2>1. /\ o \in Nat /\ o <= Len(p) /\ p[o] = 47 /\ o \in 0..Len(p)
        /\ \A i \in (o + 1)..Len(p) : p[i] # 47
    <3>1. k \in Nat /\ k < Len(p) /\ k + 2 = (k + 1) + 1
      BY <1>2, <1>5
    <3>2. o \in Nat /\ o <= Len(p) /\ o \in 0..Len(p)
      BY <1>1, <3>1
    <3>3. p[o] = 47 /\ \A i \in (o + 1)..Len(p) : p[i] # 47
      BY <1>2, <1>5, <3>1
    <3> QED BY <3>2, <3>3
  <2>2. ~(k < 0)
    BY <1>2, <1>5
  <2>3. Len(p) <= Len(p)
    BY <1>1
  <2>4. /\ SubSeq(p, o + 1, Len(p)) \in PathText
        /\ Pathnames!Sub(p, o, Len(p)) = SubSeq(p, o + 1, Len(p))
    <3> HIDE DEF o
    <3> QED BY <1>1, <2>1, <2>3, PathPart, ZenonT(30)
  <2>5. f = SubSeq(p, o + 1, Len(p))
    BY <1>3, <2>2, <2>4
  <2> QED BY <2>1, <2>4, <2>5 DEF k, f
<1> QED BY <1>4, <1>5

\* A part that reaches to the end of a text is its end.
LEMMA SuffixIs ==
    ASSUME NEW v \in Seq(Nat), NEW o \in 0..Len(v)
    PROVE  Pathnames!IsSuffix(SubSeq(v, o + 1, Len(v)), v)
<1> DEFINE n == Len(v)
           m == n - o
           u == SubSeq(v, o + 1, n)
           x == Pathnames!Reverse(u)
           y == Pathnames!Reverse(v)
<1>1. n \in Nat /\ o \in Nat /\ o <= n /\ n <= Len(v) /\ m \in Nat /\ m <= n
  BY LenProperties
<1>2. u \in Seq(Nat) /\ Len(u) = m /\ \A i \in 1..m : u[i] = v[o + i]
  <2> HIDE DEF n
  <2> QED BY <1>1, TextPart
<1>3. \A i \in 1..n : v[i] \in Nat
  BY ElementOfSeq
<1>4. n = Len(v)
  OBVIOUS
<1> HIDE DEF u, n
<1>5. x = [i \in 1..m |-> u[(m - i) + 1]]
  BY <1>2 DEF Pathnames!Reverse
<1>6. y = [i \in 1..n |-> v[(n - i) + 1]]
  BY <1>4 DEF Pathnames!Reverse
<1>7. /\ x \in Seq(Nat) /\ Len(x) = m
      /\ \A i \in 1..m : x[i] = v[(n - i) + 1]
  <2>1. \A i \in 1..m : (m - i) + 1 \in 1..m /\ o + ((m - i) + 1) = (n - i) + 1 /\ (n - i) + 1 \in 1..n
    BY <1>1
  <2>2. ASSUME NEW i \in 1..m
        PROVE  u[(m - i) + 1] = v[(n - i) + 1] /\ u[(m - i) + 1] \in Nat
    <3> DEFINE j == (m - i) + 1
               l == (n - i) + 1
    <3>1. j \in 1..m /\ o + j = l /\ l \in 1..n
      BY <2>1
    <3> HIDE DEF j, l, m
    <3>2. u[j] = v[l] /\ u[j] \in Nat
      BY <1>2, <1>3, <3>1
    <3> QED BY <3>2 DEF j, l
  <2> HIDE DEF x, m
  <2>3. \A i \in 1..m : x[i] = v[(n - i) + 1]
    BY <1>5, <2>2
  <2>4. x \in Seq(Nat) /\ Len(x) = m
    BY <1>1, <1>5, <2>2
  <2> QED BY <2>3, <2>4
<1>8. /\ y \in Seq(Nat) /\ Len(y) = n
      /\ \A i \in 1..n : y[i] = v[(n - i) + 1]
  <2>1. \A i \in 1..n : (n - i) + 1 \in 1..n
    BY <1>1
  <2> HIDE DEF y
  <2>2. y \in Seq(Nat) /\ Len(y) = n
    BY <1>1, <1>3, <1>6, <2>1
  <2> QED BY <1>6, <2>2
<1> HIDE DEF x, y, m
<1> DEFINE z == SubSeq(y, 0 + 1, m)
<1>9. z \in Seq(Nat) /\ Len(z) = m - 0 /\ \A i \in 1..(m - 0) : z[i] = y[0 + i]
  <2>1. 0 \in Nat /\ 0 <= m /\ m <= Len(y)
    BY <1>1, <1>8
  <2> QED BY <1>1, <1>8, <2>1, TextPart
<1> HIDE DEF z
<1>10. x = z
  <2>1. Len(x) = Len(z)
    BY <1>1, <1>7, <1>9
  <2>2. ASSUME NEW i \in 1..Len(x)
        PROVE  x[i] = z[i]
    <3>1. i \in 1..m
      BY <1>7
    <3>2. i \in 1..(m - 0) /\ 0 + i = i /\ i \in 1..n
      BY <1>1, <3>1
    <3> QED BY <1>7, <1>8, <1>9, <3>1, <3>2
  <2> QED BY <1>7, <1>9, <2>1, <2>2, SameText
<1>11. SubSeq(x, 1, Len(x)) = x
  BY <1>7, WholeText
<1>12. Pathnames!IsPrefix(x, y)
  <2>1. SubSeq(y, 1, Len(x)) = z /\ Len(x) <= Len(y)
    <3>1. 0 + 1 = 1 /\ Len(x) = m
      BY <1>7
    <3> QED BY <1>1, <1>8, <3>1 DEF z
  <2> QED BY <1>10, <1>11, <2>1 DEF Pathnames!IsPrefix
<1> QED BY <1>12 DEF Pathnames!IsSuffix, x, y, u, n

LEMMA FileRejoins ==
    ASSUME NEW p \in PathText
    PROVE  Pathnames!IsSuffix(Pathnames!File(p), p) /\ Pathnames!LastSlash(Pathnames!File(p)) < 0
<1> DEFINE o == Pathnames!LastSlash(p) + 1
           f == Pathnames!File(p)
           k == Pathnames!LastSlash(f)
<1>1. p \in Seq(Nat) /\ Len(p) \in Nat
  BY PathTextIs
<1>2. /\ o \in 0..Len(p) /\ f = SubSeq(p, o + 1, Len(p)) /\ f \in PathText
      /\ \A i \in (o + 1)..Len(p) : p[i] # 47
  BY FileIs
<1> HIDE DEF o, f
<1>3. Pathnames!IsSuffix(f, p)
  BY <1>1, <1>2, SuffixIs
<1>4. o \in Nat /\ o <= Len(p) /\ Len(p) <= Len(p)
  BY <1>1, <1>2
<1>5. Len(f) = Len(p) - o /\ \A i \in 1..(Len(p) - o) : f[i] = p[o + i]
  BY <1>1, <1>2, <1>4, PathPart
<1>6. \A i \in 1..Len(f) : f[i] # 47
  <2>1. \A i \in 1..Len(f) : i \in 1..(Len(p) - o) /\ o + i \in (o + 1)..Len(p)
    BY <1>1, <1>4, <1>5
  <2> QED BY <1>2, <1>5, <2>1
<1>7. f \in Seq(Nat) /\ Len(f) \in Nat
  BY <1>2, PathTextIs
<1>8. \/ k = -1 /\ \A i \in 1..Len(f) : f[i] # 47
      \/ /\ k \in Nat /\ k < Len(f) /\ f[k + 1] = 47
         /\ \A i \in (k + 2)..Len(f) : f[i] # 47
  <2>1. k = Pathnames!FindLast(f, <<47>>)
    BY DEF Pathnames!LastSlash, Pathnames!Slash
  <2> HIDE DEF k
  <2> QED BY <1>7, <2>1, LastIs
<1> HIDE DEF k
<1>9. k < 0
  <2>1. CASE k \in Nat /\ k < Len(f) /\ f[k + 1] = 47
    <3>1. k + 1 \in 1..Len(f)
      BY <1>7, <2>1
    <3> QED BY <1>6, <2>1, <3>1
  <2>2. CASE k = -1
    BY <2>2
  <2> QED BY <1>8, <2>1, <2>2
<1> QED BY <1>3, <1>9 DEF f, k

(* The name and the extension of a file are its whole name.                 *)
LEMMA NameRejoins ==
    ASSUME NEW p \in PathText
    PROVE  /\ Pathnames!Filename(p) \o Pathnames!Extension(p) = Pathnames!File(p)
           /\ Pathnames!Filename(p) \in PathText /\ Pathnames!Extension(p) \in PathText
<1> DEFINE ls == Pathnames!LastSlash(p)
           o == ls + 1
           n == Len(p)
           f == Pathnames!File(p)
           j == Pathnames!LastDot(f)
           k == Pathnames!LastDot(p)
           e == IF k < 0 \/ k < ls THEN n ELSE k
<1>1. p \in Seq(Nat) /\ n \in Nat /\ n <= Len(p)
  BY PathTextIs
<1>2. /\ o \in 0..n /\ f = SubSeq(p, o + 1, n) /\ f \in PathText
      /\ o # 0 => p[o] = 47
  BY FileIs
<1>3. Pathnames!Filename(p) = IF j < 0 THEN f ELSE Pathnames!Sub(f, 0, j)
  BY DEF Pathnames!Filename
<1>4. Pathnames!Extension(p) = Pathnames!Sub(p, e, n)
  BY DEF Pathnames!Extension, Pathnames!SubEnd
<1>5. ls \in Int /\ ls = o - 1 /\ o \in Nat /\ o <= n
  <2>1. \/ ls = -1
        \/ ls \in Nat
    <3>1. ls = Pathnames!FindLast(p, <<47>>)
      BY DEF Pathnames!LastSlash, Pathnames!Slash
    <3> HIDE DEF ls
    <3> QED BY <1>1, <3>1, LastIs
  <2> HIDE DEF ls
  <2> QED BY <1>1, <1>2, <2>1
<1> HIDE DEF ls, o, f, n
<1>6. /\ f \in Seq(Nat) /\ Len(f) = n - o /\ Len(f) \in Nat
      /\ \A i \in 1..(n - o) : f[i] = p[o + i]
  <2>1. f \in Seq(Nat) /\ Len(f) \in Nat
    BY <1>2, PathTextIs
  <2> QED BY <1>1, <1>2, <1>5, <2>1, PathPart
<1>7. \/ j = -1 /\ \A i \in 1..Len(f) : f[i] # 46
      \/ /\ j \in Nat /\ j < Len(f) /\ f[j + 1] = 46
         /\ \A i \in (j + 2)..Len(f) : f[i] # 46
  <2>1. j = Pathnames!FindLast(f, <<46>>)
    BY DEF Pathnames!LastDot, Pathnames!Dot
  <2> HIDE DEF j
  <2> QED BY <1>6, <2>1, LastIs
<1>8. \/ k = -1 /\ \A i \in 1..n : p[i] # 46
      \/ /\ k \in Nat /\ k < n /\ p[k + 1] = 46
         /\ \A i \in (k + 2)..n : p[i] # 46
  <2>1. k = Pathnames!FindLast(p, <<46>>)
    BY DEF Pathnames!LastDot, Pathnames!Dot
  <2> HIDE DEF k
  <2> QED BY <1>1, <2>1, LastIs DEF n
<1> HIDE DEF j, k
<1>9. CASE j = -1
  <2>1. e = n
    <3>1. CASE k = -1
      BY <3>1
    <3>2. CASE k \in Nat /\ k < n /\ p[k + 1] = 46
      <4>1. k < o
        <5> SUFFICES ASSUME ~(k < o) PROVE FALSE
          OBVIOUS
        <5>1. k + 1 - o \in 1..(n - o) /\ o + (k + 1 - o) = k + 1
          BY <1>1, <1>5, <3>2
        <5>2. f[k + 1 - o] = 46
          BY <1>6, <3>2, <5>1
        <5>3. k + 1 - o \in 1..Len(f)
          BY <1>6, <5>1
        <5> QED BY <1>7, <1>9, <5>2, <5>3
      <4>2. k # o - 1
        <5> SUFFICES ASSUME k = o - 1 PROVE FALSE
          OBVIOUS
        <5>1. k + 1 = o /\ o # 0
          BY <1>5, <3>2
        <5> QED BY <1>2, <3>2, <5>1
      <4>3. k < ls
        BY <1>5, <3>2, <4>1, <4>2
      <4> QED BY <4>3
    <3> QED BY <1>8, <3>1, <3>2
  <2> HIDE DEF e
  <2> DEFINE x == SubSeq(p, n + 1, n)
  <2>2. /\ x \in PathText /\ x \in Seq(Nat) /\ Len(x) = n - n
        /\ Pathnames!Sub(p, n, n) = x
    <3>1. n <= n
      BY <1>1
    <3> QED BY <1>1, <3>1, PathPart
  <2> HIDE DEF x
  <2>3. Pathnames!Extension(p) = x /\ Pathnames!Filename(p) = f
    BY <1>3, <1>4, <1>9, <2>1, <2>2
  <2>4. x = <<>>
    <3>1. Len(x) = 0
      BY <1>1, <2>2
    <3> QED BY <2>2, <3>1, EmptySeq
  <2>5. f \o x = f
    BY <1>6, <2>4, ConcatEmptySeq
  <2> QED BY <1>2, <2>2, <2>3, <2>5 DEF f
<1>10. CASE j \in Nat /\ j < Len(f) /\ f[j + 1] = 46 /\ \A i \in (j + 2)..Len(f) : f[i] # 46
  <2>1. /\ j \in Nat /\ o + j \in Nat /\ o + j < n /\ o + j <= n /\ p[(o + j) + 1] = 46
        /\ \A i \in ((o + j) + 2)..n : p[i] # 46
    <3>1. j \in Nat /\ o + j \in Nat /\ o + j < n /\ o + j <= n
      BY <1>1, <1>5, <1>6, <1>10
    <3>2. p[(o + j) + 1] = 46
      <4>1. j + 1 \in 1..(n - o) /\ o + (j + 1) = (o + j) + 1
        BY <1>1, <1>5, <1>6, <1>10
      <4> QED BY <1>6, <1>10, <4>1
    <3>3. ASSUME NEW i \in ((o + j) + 2)..n
          PROVE  p[i] # 46
      <4>1. i - o \in 1..(n - o) /\ o + (i - o) = i /\ i - o \in (j + 2)..Len(f)
        BY <1>1, <1>5, <1>6, <1>10
      <4> QED BY <1>6, <1>10, <4>1
    <3> QED BY <3>1, <3>2, <3>3
  <2>2. k = o + j
    <3>1. k \in Nat /\ k < n /\ p[k + 1] = 46 /\ \A i \in (k + 2)..n : p[i] # 46
      <4>1. (o + j) + 1 \in 1..n
        BY <1>1, <2>1
      <4> QED BY <1>8, <2>1, <4>1
    <3>2. ~(k < o + j)
      <4> SUFFICES ASSUME k < o + j PROVE FALSE
        OBVIOUS
      <4>1. (o + j) + 1 \in (k + 2)..n
        BY <1>1, <2>1, <3>1
      <4> QED BY <2>1, <3>1, <4>1
    <3>3. ~(o + j < k)
      <4> SUFFICES ASSUME o + j < k PROVE FALSE
        OBVIOUS
      <4>1. k + 1 \in ((o + j) + 2)..n
        BY <1>1, <2>1, <3>1
      <4> QED BY <2>1, <3>1, <4>1
    <3> QED BY <2>1, <3>1, <3>2, <3>3
  <2>3. e = o + j
    <3>1. ~(k < 0) /\ ~(k < ls)
      BY <1>5, <2>1, <2>2
    <3> QED BY <2>2, <3>1
  <2> HIDE DEF e
  <2> DEFINE a == SubSeq(f, 0 + 1, j)
             x == SubSeq(p, (o + j) + 1, n)
  <2>4. /\ a \in PathText /\ a \in Seq(Nat) /\ Len(a) = j
        /\ \A i \in 1..j : a[i] = f[i]
        /\ Pathnames!Sub(f, 0, j) = a
    <3>1. 0 \in Nat /\ 0 <= j /\ j <= Len(f) /\ j \in Nat
      BY <1>6, <1>10
    <3>2. /\ a \in PathText /\ a \in Seq(Nat) /\ Len(a) = j - 0
          /\ \A i \in 1..(j - 0) : a[i] = f[0 + i]
          /\ Pathnames!Sub(f, 0, j) = a
      BY <1>2, <3>1, PathPart
    <3> HIDE DEF a
    <3>3. j - 0 = j /\ \A i \in 1..j : 0 + i = i
      BY <3>1
    <3> QED BY <3>2, <3>3
  <2>5. /\ x \in PathText /\ x \in Seq(Nat) /\ Len(x) = n - (o + j)
        /\ \A i \in 1..(n - (o + j)) : x[i] = p[(o + j) + i]
        /\ Pathnames!Sub(p, o + j, n) = x
    <3> DEFINE a1 == o + j
    <3>1. a1 \in Nat /\ a1 <= n
      BY <2>1
    <3> HIDE DEF a1
    <3>2. /\ SubSeq(p, a1 + 1, n) \in PathText /\ SubSeq(p, a1 + 1, n) \in Seq(Nat)
          /\ Len(SubSeq(p, a1 + 1, n)) = n - a1
          /\ \A i \in 1..(n - a1) : SubSeq(p, a1 + 1, n)[i] = p[a1 + i]
          /\ Pathnames!Sub(p, a1, n) = SubSeq(p, a1 + 1, n)
      BY <1>1, <3>1, PathPart
    <3> QED BY <3>2 DEF a1
  <2> HIDE DEF a, x
  <2>6. Pathnames!Filename(p) = a /\ Pathnames!Extension(p) = x
    <3>1. ~(j < 0)
      BY <1>10
    <3> QED BY <1>3, <1>4, <2>3, <2>4, <2>5, <3>1
  <2>7. HasAt(f, j, x)
    <3>1. j \in Nat /\ j + Len(x) <= Len(f)
      BY <1>1, <1>5, <1>6, <2>1, <2>5
    <3>2. ASSUME NEW i \in 1..Len(x)
          PROVE  f[j + i] = x[i]
      <4>1. i \in 1..(n - (o + j)) /\ j + i \in 1..(n - o) /\ o + (j + i) = (o + j) + i
        BY <1>1, <1>5, <2>1, <2>5
      <4> QED BY <1>6, <2>5, <4>1
    <3> QED BY <3>1, <3>2 DEF HasAt
  <2>8. SubSeq(f, 1, j) \o x = SubSeq(f, 1, j + Len(x))
    BY <1>6, <2>1, <2>5, <2>7, NextPart
  <2>9. j + Len(x) = Len(f) /\ SubSeq(f, 1, j) = a
    <3>1. 0 + 1 = 1
      OBVIOUS
    <3> QED BY <1>1, <1>5, <1>6, <2>1, <2>5, <3>1 DEF a
  <2>10. a \o x = f
    BY <1>6, <2>8, <2>9, WholeText
  <2> QED BY <2>4, <2>5, <2>6, <2>10 DEF f
<1> QED BY <1>7, <1>9, <1>10

(* The file in the directory is where the path leads.                       *)
LEMMA DotStays ==
    ASSUME NEW d \in Seq(Seq(Nat))
    PROVE  Pathnames!Follow(d, <<46>>) = d
<1> DEFINE s == <<46>>
           u == Pathnames!Way(d, s)
<1>1. s \in Seq(Nat) /\ Len(s) = 1 /\ s[1] = 46 /\ <<>> \in Seq(Nat)
  OBVIOUS
<1>2. u[0] = InDir(d) /\ \A i \in 1..1 : u[i] = Pathnames!Passed(u[i - 1], s[i])
  <2> HIDE DEF s
  <2> QED BY <1>1, WayIs
<1> HIDE DEF u
<1>3. u[1] = Pathnames!Passed(InDir(d), 46)
  <2>1. 1 \in 1..1 /\ 1 - 1 = 0
    OBVIOUS
  <2> HIDE DEF s
  <2> QED BY <1>1, <1>2, <2>1
<1>4. Pathnames!Passed(InDir(d), 46) = [dir |-> d, name |-> <<46>>]
  <2> DEFINE a == InDir(d)
  <2>1. a.dir = d /\ a.name = <<>> /\ a \in OnTheWay
    BY <1>1 DEF InDir, OnTheWay
  <2> HIDE DEF a
  <2>2. Pathnames!Passed(a, 46) = [dir |-> a.dir, name |-> Append(a.name, 46)]
    <3>1. 46 \in Nat /\ 46 # 47
      OBVIOUS
    <3> QED BY <2>1, <3>1, PassedIs
  <2>3. Append(<<>>, 46) = <<46>>
    OBVIOUS
  <2> QED BY <2>1, <2>2, <2>3 DEF a
<1>5. u[1].dir = d /\ u[1].name = <<46>>
  BY <1>3, <1>4
<1>6. Pathnames!Follow(d, s) = Pathnames!Enter(u[1].dir, u[1].name)
  <2>1. Pathnames!Follow(d, s) = Pathnames!Enter(u[Len(s)].dir, u[Len(s)].name)
    BY DEF Pathnames!Follow, u
  <2> HIDE DEF s
  <2> QED BY <1>1, <2>1
<1>7. Pathnames!Enter(d, <<46>>) = d
  BY DEF Pathnames!Enter, Pathnames!Dot
<1> QED BY <1>5, <1>6, <1>7

LEMMA DirRejoins ==
    ASSUME NEW c \in PathText, NEW p \in PathText
    PROVE  /\ Pathnames!Dir(p) \in PathText
           /\ Pathnames!Follow(Meant(c, Pathnames!Dir(p)), Pathnames!File(p))
                = Meant(c, p)
<1> DEFINE o == Pathnames!LastSlash(p) + 1
           k == Pathnames!LastSlash(p)
           n == Len(p)
           f == Pathnames!File(p)
           r == Pathnames!Dir(p)
           h == Pathnames!Follow(<<>>, c)
<1>1. p \in Seq(Nat) /\ n \in Nat /\ n <= Len(p) /\ (p # <<>> <=> n # 0)
  BY PathTextIs, EmptySeq
<1>2. /\ k + 1 \in 0..n /\ f = SubSeq(p, (k + 1) + 1, n) /\ f \in PathText
      /\ k + 1 # 0 => p[k + 1] = 47
      /\ \A i \in ((k + 1) + 1)..n : p[i] # 47
  BY FileIs
<1>3. k \in Int
  <2>1. k = Pathnames!FindLast(p, <<47>>)
    BY DEF Pathnames!LastSlash, Pathnames!Slash
  <2> HIDE DEF k
  <2>2. k = -1 \/ k \in Nat
    BY <1>1, <2>1, LastIs
  <2> QED BY <2>2
<1>4. f \in Seq(Nat) /\ Meant(c, p) = Pathnames!Follow(Base(c, p), p)
  <2> HIDE DEF f
  <2> QED BY <1>2, PathTextIs DEF Meant
<1>5. r = CASE k = 0 -> <<47, 46>>
            [] k < 0 -> <<46>>
            [] OTHER -> Pathnames!Sub(p, 0, k)
  BY DEF Pathnames!Dir, Pathnames!Slash, Pathnames!Dot
<1>6. <<>> \in Seq(Seq(Nat)) /\ <<>> \in Seq(Nat)
  BY EmptySeq
<1>7. h \in Seq(Seq(Nat))
  <2>1. c \in Seq(Nat)
    BY PathTextIs
  <2> QED BY <1>6, <2>1, FollowIs
<1> HIDE DEF k, f, r, h
<1>8. CASE k < 0
  <2>1. k = -1 /\ k + 1 = 0 /\ r = <<46>>
    BY <1>2, <1>3, <1>5, <1>8
  <2>2. f = p
    BY <1>1, <1>2, <2>1, WholeText DEF n
  <2>3. ~Absolute(p)
    <3> SUFFICES ASSUME Absolute(p) PROVE FALSE
      OBVIOUS
    <3>1. n # 0 /\ p[1] = 47
      BY <1>1 DEF Absolute
    <3>2. 1 \in ((k + 1) + 1)..n
      BY <1>1, <2>1, <3>1
    <3> QED BY <1>2, <3>1, <3>2
  <2>4. <<46>> \in PathText /\ <<46>> \in Seq(Nat)
    BY DEF PathText, PathChars
  <2>5. ~Absolute(<<46>>)
    BY DEF Absolute
  <2>6. Meant(c, r) = Pathnames!Follow(h, <<46>>)
    BY <2>1, <2>5 DEF Meant, Base, h
  <2>7. Meant(c, r) = h
    BY <1>7, <2>6, DotStays
  <2>8. Meant(c, p) = Pathnames!Follow(h, p)
    BY <1>4, <2>3 DEF Base, h
  <2> QED BY <2>1, <2>2, <2>4, <2>7, <2>8 DEF r, f
<1>9. CASE k = 0
  <2>1. k + 1 = 1 /\ n >= 1 /\ p[1] = 47 /\ r = <<47, 46>>
    BY <1>1, <1>2, <1>3, <1>5, <1>9
  <2>2. Absolute(p) /\ Meant(c, p) = Pathnames!Follow(<<>>, p)
    <3>1. Absolute(p)
      BY <1>1, <2>1 DEF Absolute
    <3> QED BY <1>4, <3>1 DEF Base
  <2> DEFINE w == <<47, 46>>
             s == <<46>>
             e == <<>>
  <2>3. /\ w \in PathText /\ w \in Seq(Nat) /\ Len(w) = 2 /\ w[1] = 47 /\ w[2] = 46 /\ w # <<>>
        /\ s \in Seq(Nat) /\ Len(s) = 1 /\ s[1] = 46
    BY DEF PathText, PathChars
  <2>4. e \in Seq(Nat) /\ Len(e) = 0 /\ e \in Seq(Seq(Nat))
    BY EmptySeq
  <2>5. Pathnames!Follow(e, e) = e
    BY <2>4, FollowIs
  <2>6. Pathnames!Follow(e, w) = e
    <3> HIDE DEF w, s, e
    <3>1. HasAt(w, 0, e)
      BY <2>3, <2>4 DEF HasAt
    <3>2. HasAt(w, Len(e) + 1, s)
      <4>1. \A i \in 1..1 : w[1 + i] = s[i]
        BY <2>3
      <4> QED BY <2>3, <2>4, <4>1 DEF HasAt
    <3>3. Len(w) = Len(e) + 1 + Len(s) /\ w[Len(e) + 1] = 47
      BY <2>3, <2>4
    <3>4. Pathnames!Follow(e, w) = Pathnames!Follow(Pathnames!Follow(e, e), s)
      BY <2>3, <2>4, <3>1, <3>2, <3>3, FollowSplit
    <3> QED BY <2>4, <2>5, <3>4, DotStays DEF s
  <2>7. Meant(c, r) = e
    <3>1. Absolute(w)
      BY <2>3 DEF Absolute
    <3>2. Meant(c, w) = Pathnames!Follow(<<>>, w)
      BY <3>1 DEF Meant, Base
    <3> QED BY <2>1, <2>6, <3>2
  <2>8. Len(f) = n - 1 /\ HasAt(p, 1, f)
    <3>1. 1 \in Nat /\ 1 <= n /\ f = SubSeq(p, 1 + 1, n)
      BY <1>1, <1>2, <2>1
    <3> QED BY <1>1, <3>1, PathPart
  <2>9. Pathnames!Follow(e, p) = Pathnames!Follow(Pathnames!Follow(e, e), f)
    <3> HIDE DEF e
    <3>1. HasAt(p, 0, e)
      BY <1>1, <2>4 DEF HasAt, n
    <3>2. HasAt(p, Len(e) + 1, f) /\ p[Len(e) + 1] = 47
      <4>1. Len(e) + 1 = 1
        BY <2>4
      <4> QED BY <2>1, <2>8, <4>1
    <3>3. Len(p) = Len(e) + 1 + Len(f)
      BY <1>1, <2>4, <2>8 DEF n
    <3> QED BY <1>1, <1>4, <2>4, <3>1, <3>2, <3>3, FollowSplit
  <2>10. Pathnames!Follow(Meant(c, r), f) = Meant(c, p)
    BY <2>2, <2>5, <2>7, <2>9
  <2> QED BY <2>1, <2>3, <2>10 DEF r, f
<1>10. CASE k > 0
  <2>1. k \in Nat /\ k < n /\ k <= n /\ p[k + 1] = 47 /\ k + 1 # 0
    <3>1. k \in Nat /\ k + 1 # 0
      BY <1>3, <1>10
    <3>2. k < n /\ k <= n
      BY <1>1, <1>2, <3>1
    <3> QED BY <1>2, <3>1, <3>2
  <2>2. r = Pathnames!Sub(p, 0, k)
    <3>1. ~(k = 0) /\ ~(k < 0)
      BY <1>3, <1>10
    <3> QED BY <1>5, <3>1
  <2>3. /\ r \in PathText /\ r \in Seq(Nat) /\ Len(r) = k /\ HasAt(p, 0, r)
        /\ \A i \in 1..k : r[i] = p[i]
    <3> DEFINE u == SubSeq(p, 0 + 1, k)
    <3>1. 0 \in Nat /\ 0 <= k /\ k <= Len(p)
      BY <1>1, <2>1 DEF n
    <3>2. /\ u \in PathText /\ u \in Seq(Nat) /\ Len(u) = k - 0 /\ HasAt(p, 0, u)
          /\ \A i \in 1..(k - 0) : u[i] = p[0 + i]
          /\ Pathnames!Sub(p, 0, k) = u
      BY <2>1, <3>1, PathPart
    <3> HIDE DEF u
    <3>3. k - 0 = k /\ \A i \in 1..k : 0 + i = i
      BY <2>1
    <3> QED BY <2>2, <3>2, <3>3
  <2>4. Len(f) = n - (k + 1) /\ HasAt(p, k + 1, f)
    <3>1. k + 1 \in Nat /\ k + 1 <= n
      BY <1>1, <2>1
    <3> QED BY <1>1, <1>2, <3>1, PathPart
  <2>5. Base(c, r) = Base(c, p) /\ Base(c, p) \in Seq(Seq(Nat))
    <3>1. r # <<>> /\ p # <<>>
      <4>1. Len(r) # 0 /\ n # 0
        BY <1>1, <1>10, <2>1, <2>3
      <4> QED BY <1>1, <2>3, <4>1, EmptySeq
    <3>2. r[1] = p[1]
      <4>1. 1 \in 1..k
        BY <1>10, <2>1
      <4> QED BY <2>3, <4>1
    <3> QED BY <1>6, <1>7, <3>1, <3>2 DEF Base, Absolute, h
  <2>6. Meant(c, r) = Pathnames!Follow(Base(c, p), r)
    BY <2>5 DEF Meant
  <2>7. Pathnames!Follow(Base(c, p), p) = Pathnames!Follow(Pathnames!Follow(Base(c, p), r), f)
    <3>1. Len(p) = Len(r) + 1 + Len(f)
      BY <1>1, <2>1, <2>3, <2>4 DEF n
    <3>2. HasAt(p, Len(r) + 1, f) /\ p[Len(r) + 1] = 47
      BY <2>1, <2>3, <2>4
    <3> QED BY <1>1, <1>4, <2>3, <2>5, <3>1, <3>2, FollowSplit, ZenonT(30)
  <2> QED BY <1>4, <2>3, <2>6, <2>7 DEF r, f
<1> QED BY <1>3, <1>8, <1>9, <1>10

(* A name without a slash is gathered on the way, and entered behind it.    *)
LEMMA NameGathered ==
    ASSUME NEW d \in Seq(Seq(Nat)), NEW q \in Seq(Nat), \A i \in 1..Len(q) : q[i] # 47
    PROVE  Pathnames!Way(d, q)[Len(q)] = [dir |-> d, name |-> q]
<1> DEFINE u == Pathnames!Way(d, q)
           n == Len(q)
           b(i) == SubSeq(q, 0 + 1, i)
           S == {i \in 0..n : u[i] # [dir |-> d, name |-> b(i)]}
<1>1. n \in Nat /\ \A i \in 1..n : q[i] \in Nat
  BY LenProperties, ElementOfSeq
<1>2. /\ u[0] = InDir(d) /\ \A i \in 1..n : u[i] = Pathnames!Passed(u[i - 1], q[i])
      /\ \A i \in 0..n : u[i] \in OnTheWay
  BY WayIs
<1>3. \A i \in 0..n : /\ b(i) \in Seq(Nat) /\ Len(b(i)) = i
                      /\ \A j \in 1..i : b(i)[j] = q[j]
  <2> TAKE i \in 0..n
  <2> DEFINE v == SubSeq(q, 0 + 1, i)
  <2>1. 0 \in Nat /\ i \in Nat /\ 0 <= i /\ i <= Len(q)
    BY <1>1
  <2>2. v \in Seq(Nat) /\ Len(v) = i - 0 /\ \A j \in 1..(i - 0) : v[j] = q[0 + j]
    BY <2>1, TextPart
  <2> HIDE DEF v
  <2>3. i - 0 = i /\ \A j \in 1..i : 0 + j = j
    BY <2>1
  <2>4. v \in Seq(Nat) /\ Len(v) = i /\ \A j \in 1..i : v[j] = q[j]
    BY <2>2, <2>3
  <2> QED BY <2>4 DEF v
<1>4. \A i \in 1..n : q[i] # 47
  OBVIOUS
<1> HIDE DEF u, n, b
<1>5. ASSUME NEW i \in 1..n
      PROVE  b(i) = Append(b(i - 1), q[i])
  <2> DEFINE v == b(i)
             w == Append(b(i - 1), q[i])
  <2>1. i \in 0..n /\ i - 1 \in 0..n /\ (i - 1) + 1 = i /\ i \in Nat
    BY <1>1
  <2>2. v \in Seq(Nat) /\ Len(v) = i /\ \A j \in 1..i : v[j] = q[j]
    BY <1>3, <2>1
  <2>3. /\ b(i - 1) \in Seq(Nat) /\ Len(b(i - 1)) = i - 1 /\ q[i] \in Nat
        /\ \A j \in 1..(i - 1) : b(i - 1)[j] = q[j]
    BY <1>1, <1>3, <2>1
  <2> DEFINE x == b(i - 1)
  <2>4. /\ w \in Seq(Nat) /\ Len(w) = Len(x) + 1
        /\ \A j \in 1..Len(x) : w[j] = x[j]
        /\ w[Len(x) + 1] = q[i]
    <3>1. x \in Seq(Nat) /\ q[i] \in Nat
      BY <2>3
    <3>2. w = Append(x, q[i])
      OBVIOUS
    <3> HIDE DEF x, w
    <3> QED BY <3>1, <3>2, AppendProperties
  <2>5. Len(x) = i - 1 /\ \A j \in 1..(i - 1) : x[j] = q[j]
    BY <2>3
  <2> HIDE DEF v, w, x
  <2>6. /\ Len(w) = i /\ w[i] = q[i]
        /\ \A j \in 1..(i - 1) : w[j] = q[j]
    BY <2>1, <2>4, <2>5
  <2>7. ASSUME NEW j \in 1..Len(v)
        PROVE  v[j] = w[j]
    <3>1. j = i \/ j \in 1..(i - 1)
      BY <2>1, <2>2
    <3>2. j \in 1..i
      BY <2>2
    <3> QED BY <2>2, <2>6, <3>1, <3>2
  <2>8. v = w
    BY <2>2, <2>4, <2>6, <2>7, SameText
  <2> QED BY <2>8 DEF v, w
<1>6. ASSUME NEW i \in S
      PROVE  \E j \in S : j < i
  <2>1. i \in 0..n /\ u[i] # [dir |-> d, name |-> b(i)]
    OBVIOUS
  <2>2. i # 0
    <3> SUFFICES ASSUME i = 0 PROVE FALSE
      OBVIOUS
    <3>1. 0 \in 0..n
      BY <1>1
    <3>2. b(0) \in Seq(Nat) /\ Len(b(0)) = 0
      BY <1>3, <3>1
    <3>3. b(0) = <<>>
      BY <3>2, EmptySeq
    <3> QED BY <1>2, <2>1, <3>3 DEF InDir
  <2>3. i \in 1..n /\ i - 1 \in 0..n /\ i - 1 < i
    BY <1>1, <2>1, <2>2
  <2>4. u[i - 1] # [dir |-> d, name |-> b(i - 1)]
    <3> SUFFICES ASSUME u[i - 1] = [dir |-> d, name |-> b(i - 1)] PROVE FALSE
      OBVIOUS
    <3> DEFINE a == u[i - 1]
    <3>1. a \in OnTheWay /\ a.dir = d /\ a.name = b(i - 1)
      BY <1>2, <2>3
    <3>2. u[i] = Pathnames!Passed(a, q[i]) /\ q[i] \in Nat /\ q[i] # 47
      BY <1>1, <1>2, <1>4, <2>3
    <3> HIDE DEF a
    <3>3. Pathnames!Passed(a, q[i]) = [dir |-> a.dir, name |-> Append(a.name, q[i])]
      BY <3>1, <3>2, PassedIs
    <3> QED BY <1>5, <2>1, <2>3, <3>1, <3>2, <3>3
  <2> QED BY <2>3, <2>4
<1>7. S = {}
  <2>1. S \subseteq Nat
    BY <1>1
  <2> HIDE DEF S
  <2> QED BY <1>6, <2>1, NoLeast
<1>8. b(n) = q
  <2>1. 0 + 1 = 1
    OBVIOUS
  <2> QED BY <2>1, WholeText DEF b, n
<1>9. n \in 0..n
  BY <1>1
<1>10. u[n] = [dir |-> d, name |-> b(n)]
  BY <1>7, <1>9
<1> QED BY <1>8, <1>10 DEF u, n

LEMMA NameEntered ==
    ASSUME NEW p \in Seq(Nat), NEW c \in Seq(Seq(Nat)), NEW s \in Nat, NEW e \in Nat,
           s <= e, e <= Len(p), Pathnames!Way(<<>>, p)[s] = InDir(c),
           \A i \in (s + 1)..e : p[i] # 47, e < Len(p) => p[e + 1] = 47
    PROVE  LET q == SubSeq(p, s + 1, e) IN
           /\ e < Len(p) => Pathnames!Way(<<>>, p)[e + 1] = InDir(Pathnames!Enter(c, q))
           /\ e = Len(p) => Pathnames!Follow(<<>>, p) = Pathnames!Enter(c, q)
<1> DEFINE q == SubSeq(p, s + 1, e)
           u == Pathnames!Way(<<>>, p)
           m == e - s
<1>1. Len(p) \in Nat /\ m \in Nat /\ s + m = e  /\ <<>> \in Seq(Seq(Nat))
  BY LenProperties, EmptySeq
<1>2. /\ q \in Seq(Nat) /\ Len(q) = m /\ HasAt(p, s, q)
      /\ \A i \in 1..m : q[i] = p[s + i]
  <2>1. /\ q \in Seq(Nat) /\ Len(q) = e - s /\ HasAt(p, s, q)
        /\ \A i \in 1..(e - s) : q[i] = p[s + i]
    BY TextPart, ZenonT(30)
  <2> QED BY <2>1
<1> HIDE DEF q, m
<1>3. \A i \in 1..Len(q) : q[i] # 47
  <2> TAKE i \in 1..Len(q)
  <2>1. i \in 1..m
    BY <1>2
  <2>2. s + i \in (s + 1)..e
    BY <1>1, <2>1
  <2> QED BY <1>2, <2>1, <2>2, ZenonT(30)
<1>4. u[e] = [dir |-> c, name |-> q]
  <2>1. Pathnames!Way(c, q)[Len(q)] = [dir |-> c, name |-> q]
    BY <1>2, <1>3, NameGathered
  <2>2. \A i \in 0..Len(q) : u[s + i] = Pathnames!Way(c, q)[i]
    <3> DEFINE d == <<>>
    <3>1. d \in Seq(Seq(Nat)) /\ Pathnames!Way(d, p)[s] = InDir(c)
      BY <1>1
    <3> HIDE DEF d
    <3>2. \A i \in 0..Len(q) : Pathnames!Way(d, p)[s + i] = Pathnames!Way(c, q)[i]
      BY <1>2, <3>1, WayFrom
    <3> QED BY <3>2 DEF d
  <2>3. m \in 0..Len(q)
    BY <1>1, <1>2
  <2>4. u[s + m] = Pathnames!Way(c, q)[m]
    BY <2>2, <2>3
  <2> QED BY <1>1, <1>2, <2>1, <2>4
<1>5. ASSUME e < Len(p)
      PROVE  u[e + 1] = InDir(Pathnames!Enter(c, q))
  <2>1. e + 1 \in 1..Len(p) /\ (e + 1) - 1 = e /\ e \in 0..Len(p)
    BY <1>1, <1>5
  <2>2. u[e + 1] = Pathnames!Passed(u[e], p[e + 1]) /\ u[e] \in OnTheWay
    <3>1. /\ \A i \in 0..Len(p) : u[i] \in OnTheWay
          /\ \A i \in 1..Len(p) : u[i] = Pathnames!Passed(u[i - 1], p[i])
      BY <1>1, WayIs
    <3> HIDE DEF u
    <3> QED BY <2>1, <3>1
  <2> DEFINE a == u[e]
  <2>3. a \in OnTheWay /\ a.dir = c /\ a.name = q /\ p[e + 1] = 47
    BY <1>4, <1>5, <2>2
  <2>4. u[e + 1] = Pathnames!Passed(a, 47)
    BY <2>2, <2>3
  <2> HIDE DEF a, u
  <2>5. Pathnames!Passed(a, 47) = InDir(Pathnames!Enter(a.dir, a.name))
    BY <2>3, PassedIs
  <2> QED BY <2>3, <2>4, <2>5
<1>6. ASSUME e = Len(p)
      PROVE  Pathnames!Follow(<<>>, p) = Pathnames!Enter(c, q)
  <2>1. Pathnames!Follow(<<>>, p) = Pathnames!Enter(u[e].dir, u[e].name)
    BY <1>6 DEF Pathnames!Follow
  <2>2. u[e].dir = c /\ u[e].name = q
    BY <1>4
  <2> QED BY <2>1, <2>2
<1> QED BY <1>5, <1>6 DEF u, q

(* The stack of p_norm(): the names, each with its null byte.               *)
Names == Seq(PathText)
StackChars == PathChars \cup {0}
StackText == Seq(StackChars)

Reaches(e, b, names) ==
    /\ e \in [Nat -> Nat]
    /\ e[0] = 0 /\ e[Len(names)] = Len(b)
    /\ \A k \in 0..Len(names) : \A j \in 0..k : e[j] <= e[k]
    /\ \A k \in 1..Len(names) : /\ e[k] = e[k - 1] + Len(names[k]) + 1
                                /\ HasAt(b, e[k - 1], Append(names[k], 0))

Stack(b, names) == \E e : Reaches(e, b, names)

LEMMA StackTextIs ==
    ASSUME NEW b \in StackText
    PROVE  b \in Seq(Nat) /\ Len(b) \in Nat /\ \A i \in 1..Len(b) : b[i] \in StackChars
<1>1. StackChars \subseteq Nat
  BY PathCharsAre DEF StackChars
<1>2. b \in Seq(StackChars)
  BY DEF StackText
<1> HIDE DEF StackChars
<1>3. b \in Seq(Nat)
  BY <1>1, <1>2, SeqMonotonic, Zenon
<1>4. Len(b) \in Nat /\ \A i \in 1..Len(b) : b[i] \in StackChars
  BY <1>2, LenProperties, ElementOfSeq
<1> QED BY <1>3, <1>4

LEMMA NamesAre ==
    ASSUME NEW names \in Names
    PROVE  /\ Len(names) \in Nat /\ names \in Seq(Seq(Nat))
           /\ \A k \in 1..Len(names) :
                 /\ names[k] \in PathText /\ names[k] \in Seq(Nat) /\ Len(names[k]) \in Nat
                 /\ \A i \in 1..Len(names[k]) : names[k][i] \in Nat \ {0}
<1>1. Len(names) \in Nat /\ \A k \in 1..Len(names) : names[k] \in PathText
  BY LenProperties, ElementOfSeq DEF Names
<1>2. PathText \subseteq Seq(Nat)
  BY PathTextIs
<1>3. names \in Seq(Seq(Nat))
  <2> DEFINE S == Seq(Nat)
  <2> HIDE DEF S
  <2>1. PathText \subseteq S
    BY <1>2 DEF S
  <2>2. names \in Seq(S)
    BY <2>1, SeqMonotonic, Zenon DEF Names
  <2> QED BY <2>2 DEF S
<1>4. ASSUME NEW k \in 1..Len(names)
      PROVE  \A i \in 1..Len(names[k]) : names[k][i] \in Nat \ {0}
  <2>1. \A i \in 1..Len(names[k]) : names[k][i] \in PathChars
    BY <1>1, PathTextIs
  <2> QED BY <2>1, PathCharsAre
<1>5. \A k \in 1..Len(names) : names[k] \in Seq(Nat) /\ Len(names[k]) \in Nat
  BY <1>1, PathTextIs
<1> QED BY <1>1, <1>3, <1>4, <1>5

\* A name with its null byte.
LEMMA EndedIs ==
    ASSUME NEW q \in Seq(Nat)
    PROVE  /\ Append(q, 0) \in Seq(Nat) /\ Len(Append(q, 0)) = Len(q) + 1 /\ Len(q) \in Nat
           /\ \A i \in 1..Len(q) : Append(q, 0)[i] = q[i]
           /\ Append(q, 0)[Len(q) + 1] = 0
<1>1. 0 \in Nat
  OBVIOUS
<1> QED BY <1>1, AppendProperties, LenProperties

LEMMA StackPush ==
    ASSUME NEW names \in Names, NEW b \in StackText, Stack(b, names), NEW q \in PathText
    PROVE  /\ Append(names, q) \in Names
           /\ Append(b \o q, 0) \in StackText
           /\ Len(Append(b \o q, 0)) = Len(b) + Len(q) + 1
           /\ Stack(Append(b \o q, 0), Append(names, q))
<1> DEFINE n == Len(names)
           x == Append(q, 0)
           w == Append(b \o q, 0)
           more == Append(names, q)
<1>1. n \in Nat /\ \A k \in 1..n : names[k] \in Seq(Nat) /\ Len(names[k]) \in Nat
  BY NamesAre
<1>2. b \in Seq(Nat) /\ q \in Seq(Nat) /\ Len(b) \in Nat /\ Len(q) \in Nat
  BY StackTextIs, PathTextIs
<1>3. x \in Seq(Nat) /\ Len(x) = Len(q) + 1
  BY <1>2, EndedIs
<1>4. w = b \o x
  <2> DEFINE z == <<0>>
  <2>1. z \in Seq(Nat) /\ b \o q \in Seq(Nat)
    BY <1>2, ConcatProperties
  <2>2. w = (b \o q) \o z
    <3> DEFINE v == b \o q
    <3> HIDE DEF v
    <3>1. Append(v, 0) = v \o <<0>>
      BY <2>1 DEF v
    <3> QED BY <3>1 DEF v
  <2>3. x = q \o z
    BY <1>2
  <2> HIDE DEF z, w, x
  <2>4. (b \o q) \o z = b \o (q \o z)
    BY <1>2, <2>1, ConcatAssociative
  <2> QED BY <2>2, <2>3, <2>4
<1>5. w \in StackText
  <2>1. b \in Seq(StackChars) /\ 0 \in StackChars /\ PathChars \subseteq StackChars /\ q \in Seq(PathChars)
    BY DEF StackText, StackChars, PathText
  <2>2. q \in Seq(StackChars)
    <3> HIDE DEF StackChars, PathChars
    <3> QED BY <2>1, SeqMonotonic, Zenon
  <2> HIDE DEF StackChars
  <2>3. b \o q \in Seq(StackChars)
    BY <2>1, <2>2, ConcatProperties
  <2> QED BY <2>1, <2>3, AppendProperties DEF StackText
<1>6. /\ Len(w) = Len(b) + Len(x) /\ HasAt(w, Len(b), x)
      /\ \A y \in Seq(Nat), o \in Nat : HasAt(b, o, y) => HasAt(w, o, y)
  <2> HIDE DEF w, x
  <2> QED BY <1>2, <1>3, <1>4, HoldsMore
<1>7. /\ more \in Names /\ Len(more) = n + 1 /\ more[n + 1] = q
      /\ \A k \in 1..n : more[k] = names[k]
  BY AppendProperties DEF Names
<1> HIDE DEF x, w, more, n
<1>8. PICK e : Reaches(e, b, names)
  BY DEF Stack
<1>9. /\ e \in [Nat -> Nat] /\ e[0] = 0 /\ e[n] = Len(b)
      /\ \A k \in 0..n : \A j \in 0..k : e[j] <= e[k]
      /\ \A k \in 1..n : e[k] = e[k - 1] + Len(names[k]) + 1 /\ HasAt(b, e[k - 1], Append(names[k], 0))
  BY <1>8 DEF Reaches, n
<1> DEFINE l == Len(b) + Len(q) + 1
           g == [k \in Nat |-> IF k = n + 1 THEN l ELSE e[k]]
<1>10. l \in Nat /\ Len(w) = l
  BY <1>2, <1>3, <1>6
<1> HIDE DEF l
<1>11. /\ g \in [Nat -> Nat] /\ g[n + 1] = l /\ \A k \in 0..n : g[k] = e[k]
  <2>1. \A k \in Nat : (IF k = n + 1 THEN l ELSE e[k]) \in Nat
    BY <1>9, <1>10
  <2>2. n + 1 \in Nat /\ \A k \in 0..n : k \in Nat /\ k # n + 1
    BY <1>1
  <2> QED BY <2>1, <2>2
<1> HIDE DEF g
<1>12. g[0] = 0 /\ g[Len(more)] = Len(w)
  <2>1. 0 \in 0..n
    BY <1>1
  <2> QED BY <1>7, <1>9, <1>10, <1>11, <2>1
<1>13. ASSUME NEW k \in 1..Len(more)
       PROVE  g[k] = g[k - 1] + Len(more[k]) + 1 /\ HasAt(w, g[k - 1], Append(more[k], 0))
  <2>1. CASE k = n + 1
    <3>1. k - 1 = n /\ n \in 0..n
      BY <1>1, <2>1
    <3>2. more[k] = q /\ g[k] = l /\ g[k - 1] = Len(b)
      BY <1>7, <1>9, <1>11, <2>1, <3>1
    <3> QED BY <1>6, <3>2 DEF l, x
  <2>2. CASE k # n + 1
    <3>1. k \in 1..n /\ k \in 0..n /\ k - 1 \in 0..n /\ k - 1 \in Nat
      BY <1>1, <1>7, <2>2
    <3>2. more[k] = names[k] /\ g[k] = e[k] /\ g[k - 1] = e[k - 1] /\ e[k - 1] \in Nat
      BY <1>7, <1>9, <1>11, <3>1
    <3>3. Append(names[k], 0) \in Seq(Nat)
      BY <1>1, <3>1, EndedIs
    <3>4. HasAt(w, e[k - 1], Append(names[k], 0))
      BY <1>6, <1>9, <3>1, <3>2, <3>3
    <3> QED BY <1>9, <3>1, <3>2, <3>4
  <2> QED BY <2>1, <2>2
<1>14. ASSUME NEW k \in 0..Len(more), NEW j \in 0..k
       PROVE  g[j] <= g[k]
  <2>1. CASE k = n + 1 /\ j # n + 1
    <3>1. j \in 0..n /\ n \in 0..n
      BY <1>1, <2>1
    <3>2. g[j] = e[j] /\ e[j] <= e[n] /\ g[k] = l /\ j \in Nat
      BY <1>9, <1>11, <2>1, <3>1
    <3>3. e[j] \in Nat
      BY <1>9, <3>2
    <3>4. Len(b) <= l
      BY <1>2 DEF l
    <3> QED BY <1>2, <1>9, <1>10, <3>2, <3>3, <3>4
  <2>2. CASE k # n + 1
    <3>1. k \in 0..n /\ j \in 0..n
      BY <1>1, <1>7, <2>2
    <3> QED BY <1>9, <1>11, <3>1
  <2>3. CASE k = n + 1 /\ j = n + 1
    BY <1>10, <1>11, <2>3
  <2> QED BY <2>1, <2>2, <2>3
<1>15. Stack(w, more)
  BY <1>11, <1>12, <1>13, <1>14 DEF Stack, Reaches
<1> QED BY <1>5, <1>7, <1>10, <1>15 DEF w, more, l

LEMMA StackEmpty ==
    ASSUME NEW names \in Names, NEW b \in StackText, Stack(b, names)
    PROVE  b = <<>> <=> names = <<>>
<1> DEFINE n == Len(names)
<1>1. n \in Nat /\ \A k \in 1..n : names[k] \in Seq(Nat) /\ Len(names[k]) \in Nat
  BY NamesAre
<1>2. b \in Seq(Nat) /\ Len(b) \in Nat
  BY StackTextIs
<1>3. PICK e : Reaches(e, b, names)
  BY DEF Stack
<1>4. /\ e \in [Nat -> Nat] /\ e[0] = 0 /\ e[n] = Len(b)
      /\ \A k \in 1..n : e[k] = e[k - 1] + Len(names[k]) + 1
  BY <1>3 DEF Reaches
<1>5. n = 0 => Len(b) = 0
  BY <1>4
<1> HIDE DEF n
<1>6. n # 0 => Len(b) # 0
  <2> SUFFICES ASSUME n # 0 PROVE Len(b) # 0
    OBVIOUS
  <2>1. n \in 1..n /\ n - 1 \in Nat
    BY <1>1
  <2>2. e[n - 1] \in Nat /\ Len(names[n]) \in Nat /\ e[n] = e[n - 1] + Len(names[n]) + 1
    BY <1>1, <1>4, <2>1
  <2>3. e[n] = Len(b)
    BY <1>4
  <2> DEFINE u == e[n - 1]
             l == Len(names[n])
  <2>4. u \in Nat /\ l \in Nat /\ Len(b) = u + l + 1
    BY <2>2, <2>3
  <2> HIDE DEF u, l
  <2> QED BY <2>4
<1>7. names = <<>> <=> n = 0
  BY EmptySeq DEF n, Names
<1>8. b = <<>> <=> Len(b) = 0
  BY <1>2, EmptySeq
<1> QED BY <1>5, <1>6, <1>7, <1>8

\* Where one name ends and the next begins there is a null byte.
LEMMA NulBetween ==
    ASSUME NEW names \in Names, NEW b \in StackText, NEW e, Reaches(e, b, names),
           NEW k \in 1..Len(names)
    PROVE  /\ e[k - 1] \in Nat /\ (e[k - 1] # 0 => b[e[k - 1]] = 0)
           /\ e[k] = e[k - 1] + Len(names[k]) + 1 /\ e[k] <= Len(b)
           /\ \A j \in 1..Len(names[k]) : b[e[k - 1] + j] = names[k][j]
<1> DEFINE n == Len(names)
<1>1. n \in Nat /\ k \in 1..n /\ \A i \in 1..n : names[i] \in Seq(Nat) /\ Len(names[i]) \in Nat
  BY NamesAre
<1>2. /\ e \in [Nat -> Nat] /\ e[0] = 0 /\ e[n] = Len(b)
      /\ \A i \in 0..n : \A j \in 0..i : e[j] <= e[i]
      /\ \A i \in 1..n : e[i] = e[i - 1] + Len(names[i]) + 1 /\ HasAt(b, e[i - 1], Append(names[i], 0))
  BY DEF Reaches
<1> HIDE DEF n
<1>3. k - 1 \in Nat /\ e[k - 1] \in Nat
  BY <1>1, <1>2
<1>4. e[k] <= Len(b)
  <2>1. n \in 0..n /\ k \in 0..n
    BY <1>1
  <2> QED BY <1>2, <2>1
<1>5. ASSUME NEW j \in 1..Len(names[k])
      PROVE  b[e[k - 1] + j] = names[k][j]
  <2> DEFINE q == names[k]
             x == Append(q, 0)
             o == e[k - 1]
  <2>1. q \in Seq(Nat) /\ HasAt(b, o, x)
    BY <1>1, <1>2
  <2>2. Len(x) = Len(q) + 1 /\ Len(q) \in Nat /\ \A i \in 1..Len(q) : x[i] = q[i]
    <3> HIDE DEF q
    <3> QED BY <2>1, EndedIs
  <2> HIDE DEF x, o
  <2>3. j \in 1..Len(x) /\ j \in 1..Len(q)
    <3> DEFINE m == Len(q)
    <3>1. j \in 1..m /\ m \in Nat /\ Len(x) = m + 1
      BY <2>2
    <3> HIDE DEF m
    <3>2. j \in 1..(m + 1)
      BY <3>1
    <3> QED BY <3>1, <3>2 DEF m
  <2>4. b[o + j] = x[j]
    BY <2>1, <2>3 DEF HasAt
  <2> QED BY <2>2, <2>3, <2>4 DEF o
<1>6. ASSUME e[k - 1] # 0
      PROVE  b[e[k - 1]] = 0
  <2>1. k - 1 # 0
    BY <1>2, <1>6
  <2> DEFINE i == k - 1
  <2>2. i \in 1..n /\ i - 1 \in Nat
    BY <1>1, <2>1
  <2> HIDE DEF i
  <2> DEFINE q == names[i]
             x == Append(q, 0)
             o == e[i - 1]
  <2>3. q \in Seq(Nat) /\ HasAt(b, o, x) /\ o \in Nat /\ e[i] = o + Len(q) + 1
    BY <1>1, <1>2, <2>2
  <2>4. Len(x) = Len(q) + 1 /\ Len(q) \in Nat /\ x[Len(q) + 1] = 0
    <3> HIDE DEF q
    <3> QED BY <2>3, EndedIs
  <2> HIDE DEF x, o, q
  <2>5. Len(q) + 1 \in 1..Len(x) /\ o + (Len(q) + 1) = o + Len(q) + 1
    BY <2>3, <2>4
  <2>6. b[o + (Len(q) + 1)] = 0
    BY <2>3, <2>4, <2>5 DEF HasAt
  <2>7. b[e[i]] = 0
    BY <2>3, <2>5, <2>6
  <2> QED BY <2>7 DEF i
<1> QED BY <1>1, <1>2, <1>3, <1>4, <1>5, <1>6

PopOf(b) == SubSeq(b, 1, Dynamic!Max({0} \cup {i \in 1..(Len(b) - 1) : b[i] = 0}))

LEMMA StackPop ==
    ASSUME NEW names \in Names, names # <<>>, NEW b \in StackText, Stack(b, names)
    PROVE  /\ Pathnames!Front(names) \in Names
           /\ PopOf(b) \in StackText /\ Len(PopOf(b)) <= Len(b)
           /\ Stack(PopOf(b), Pathnames!Front(names))
<1> DEFINE n == Len(names)
           S == {0} \cup {i \in 1..(Len(b) - 1) : b[i] = 0}
           m == Dynamic!Max(S)
           less == Pathnames!Front(names)
           r == PopOf(b)
<1>1. /\ n \in Nat /\ n # 0
      /\ \A k \in 1..n : /\ names[k] \in Seq(Nat) /\ Len(names[k]) \in Nat
                         /\ \A i \in 1..Len(names[k]) : names[k][i] \in Nat \ {0}
  BY NamesAre, EmptySeq
<1>2. b \in Seq(Nat) /\ Len(b) \in Nat /\ b \in Seq(StackChars)
  BY StackTextIs DEF StackText
<1>3. PICK e : Reaches(e, b, names)
  BY DEF Stack
<1>4. /\ e \in [Nat -> Nat] /\ e[0] = 0 /\ e[n] = Len(b)
      /\ \A k \in 0..n : \A j \in 0..k : e[j] <= e[k]
      /\ \A k \in 1..n : e[k] = e[k - 1] + Len(names[k]) + 1 /\ HasAt(b, e[k - 1], Append(names[k], 0))
  BY <1>3 DEF Reaches
<1>5. n \in 1..n /\ n - 1 \in Nat /\ n - 1 \in 0..n
  BY <1>1
<1> DEFINE o == e[n - 1]
           q == names[n]
<1>6. /\ o \in Nat /\ (o # 0 => b[o] = 0)
      /\ Len(b) = o + Len(q) + 1 /\ Len(q) \in Nat
      /\ \A j \in 1..Len(q) : b[o + j] = q[j] /\ q[j] # 0
  <2>1. /\ e[n - 1] \in Nat /\ (e[n - 1] # 0 => b[e[n - 1]] = 0)
        /\ e[n] = e[n - 1] + Len(names[n]) + 1
        /\ \A j \in 1..Len(names[n]) : b[e[n - 1] + j] = names[n][j]
    BY <1>3, <1>5, NulBetween
  <2>2. Len(names[n]) \in Nat /\ \A j \in 1..Len(names[n]) : names[n][j] # 0
    BY <1>1, <1>5
  <2> HIDE DEF n
  <2> QED BY <1>4, <2>1, <2>2
<1>7. r = SubSeq(b, 1, m)
  BY DEF PopOf
<1>8. less = SubSeq(names, 1, n - 1)
  BY DEF Pathnames!Front
<1> HIDE DEF m, r, less, o, q, n
<1>9. S \subseteq 0..Len(b) /\ S # {}
  BY <1>2
<1>10. m \in S /\ \A i \in S : i <= m
  <2> HIDE DEF S
  <2> QED BY <1>2, <1>9, GreatestBelow DEF m
<1>11. o \in S
  <2>1. o # 0 => o \in 1..(Len(b) - 1)
    BY <1>6
  <2> QED BY <1>6, <2>1
<1>12. \A i \in S : i <= o
  <2> TAKE i \in S
  <2>1. CASE i = 0
    BY <1>6, <2>1
  <2>2. CASE i \in 1..(Len(b) - 1) /\ b[i] = 0
    <3> SUFFICES ASSUME ~(i <= o) PROVE FALSE
      OBVIOUS
    <3>1. i - o \in 1..Len(q) /\ o + (i - o) = i
      BY <1>2, <1>6, <2>2
    <3> QED BY <1>6, <2>2, <3>1
  <2> QED BY <2>1, <2>2
<1>13. m = o
  <2>1. o <= m /\ m <= o
    BY <1>10, <1>11, <1>12
  <2>2. m \in Nat
    BY <1>2, <1>9, <1>10
  <2> QED BY <1>6, <2>1, <2>2
<1> HIDE DEF S
<1>14. o <= Len(b) /\ 0 \in Nat /\ 0 <= o /\ StackChars \subseteq Nat
  BY <1>2, <1>6, PathCharsAre DEF StackChars
<1>15. /\ r \in StackText /\ r \in Seq(Nat) /\ Len(r) = o
       /\ \A i \in 1..o : r[i] = b[i]
  <2> DEFINE u == SubSeq(b, 0 + 1, o)
  <2> HIDE DEF StackChars
  <2>1. /\ u \in Seq(StackChars) /\ u \in Seq(Nat) /\ Len(u) = o - 0
        /\ \A i \in 1..(o - 0) : u[i] = b[0 + i]
    BY <1>2, <1>6, <1>14, PartIs
  <2>2. r = u
    BY <1>7, <1>13
  <2> HIDE DEF u
  <2>3. o - 0 = o /\ \A i \in 1..o : 0 + i = i
    BY <1>6
  <2> QED BY <2>1, <2>2, <2>3 DEF StackText
<1>16. less \in Names /\ Len(less) = n - 1 /\ \A i \in 1..(n - 1) : less[i] = names[i]
  <2>1. \A i \in 1..(n - 1) : names[i] \in PathText
    <3>1. \A i \in 1..(n - 1) : i \in 1..Len(names)
      BY <1>1 DEF n
    <3> QED BY <3>1, NamesAre
  <2> QED BY <1>5, <1>8, <2>1, SubSeqProperties DEF Names
<1>17. /\ e[Len(less)] = Len(r)
       /\ \A k \in 0..Len(less) : \A j \in 0..k : e[j] <= e[k]
  <2>1. \A k \in 0..(n - 1) : k \in 0..n
    BY <1>1
  <2> QED BY <1>4, <1>15, <1>16, <2>1 DEF o
<1>18. ASSUME NEW k \in 1..Len(less)
       PROVE  e[k] = e[k - 1] + Len(less[k]) + 1 /\ HasAt(r, e[k - 1], Append(less[k], 0))
  <2>1. k \in 1..n /\ k \in 0..(n - 1) /\ n - 1 \in 0..n /\ k - 1 \in Nat /\ less[k] = names[k]
    BY <1>1, <1>16
  <2> DEFINE t == names[k]
             x == Append(t, 0)
             s == e[k - 1]
             l == Len(t)
  <2>2. /\ t \in Seq(Nat) /\ l \in Nat /\ s \in Nat
        /\ e[k] = s + l + 1 /\ e[k] <= o /\ HasAt(b, s, x)
    BY <1>1, <1>4, <2>1 DEF o
  <2>3. Len(x) = l + 1
    <3> HIDE DEF t
    <3> QED BY <2>2, EndedIs
  <2> HIDE DEF t, x, s, l
  <2>4. HasAt(r, s, x)
    <3>1. s + Len(x) <= Len(r)
      BY <1>6, <1>15, <2>2, <2>3
    <3>2. ASSUME NEW i \in 1..Len(x)
          PROVE  r[s + i] = x[i]
      <4>1. s + i \in 1..o
        <5>1. i \in Nat /\ 1 <= i /\ i <= l + 1
          BY <2>2, <2>3
        <5> QED BY <1>6, <2>2, <5>1
      <4> QED BY <1>15, <2>2, <4>1 DEF HasAt
    <3> QED BY <2>2, <3>1, <3>2 DEF HasAt
  <2> QED BY <2>1, <2>2, <2>4 DEF t, x, s, l
<1>19. Stack(r, less)
  BY <1>4, <1>17, <1>18 DEF Stack, Reaches
<1> QED BY <1>14, <1>15, <1>16, <1>19 DEF r, less

(* The text that is made of the stack.                                      *)
LEMMA SlashedIs ==
    ASSUME NEW b \in StackText
    PROVE  /\ Pathnames!Slashed(b) \in PathText /\ Len(Pathnames!Slashed(b)) = Len(b)
           /\ \A i \in 1..Len(b) : Pathnames!Slashed(b)[i] =
                  IF i = 1 \/ b[i - 1] = 0 THEN 47 ELSE b[i - 1]
<1> DEFINE r == Pathnames!Slashed(b)
<1>1. Len(b) \in Nat /\ \A i \in 1..Len(b) : b[i] \in StackChars
  BY StackTextIs
<1>2. r = [i \in 1..Len(b) |-> IF i = 1 \/ b[i - 1] = 0 THEN 47 ELSE b[i - 1]]
  BY DEF Pathnames!Slashed, Pathnames!Slash, Pathnames!Nul
<1> HIDE DEF r
<1>3. \A i \in 1..Len(b) : r[i] = IF i = 1 \/ b[i - 1] = 0 THEN 47 ELSE b[i - 1]
  BY <1>2
<1>4. ASSUME NEW i \in 1..Len(b)
      PROVE  r[i] \in PathChars
  <2>1. CASE i = 1 \/ b[i - 1] = 0
    BY <1>3, <2>1 DEF PathChars
  <2>2. CASE ~(i = 1 \/ b[i - 1] = 0)
    <3>1. i - 1 \in 1..Len(b)
      BY <1>1, <2>2
    <3>2. r[i] = b[i - 1] /\ b[i - 1] \in StackChars
      BY <1>1, <1>3, <2>2, <3>1
    <3> QED BY <2>2, <3>2 DEF StackChars
  <2> QED BY <2>1, <2>2
<1>5. r \in PathText /\ Len(r) = Len(b)
  <2>1. r = [i \in 1..Len(b) |-> r[i]]
    BY <1>2
  <2> HIDE DEF PathChars
  <2> QED BY <1>1, <1>4, <2>1 DEF PathText
<1> QED BY <1>3, <1>5 DEF r

LEMMA StackSlashed ==
    ASSUME NEW names \in Names, names # <<>>, NEW b \in StackText, Stack(b, names)
    PROVE  Pathnames!Slashed(b) = Pathnames!Canonical(names)
<1> DEFINE n == Len(names)
           r == Pathnames!Slashed(b)
           x(k) == Pathnames!Cons(47, names[k])
<1>1. /\ n \in Nat
      /\ \A k \in 1..n : /\ names[k] \in Seq(Nat) /\ Len(names[k]) \in Nat
                         /\ \A i \in 1..Len(names[k]) : names[k][i] \in Nat \ {0}
  BY NamesAre
<1>2. Len(b) \in Nat
  BY StackTextIs
<1>3. /\ r \in Seq(Nat) /\ Len(r) = Len(b)
      /\ \A i \in 1..Len(b) : r[i] = IF i = 1 \/ b[i - 1] = 0 THEN 47 ELSE b[i - 1]
  <2>1. /\ r \in PathText /\ Len(r) = Len(b)
        /\ \A i \in 1..Len(b) : r[i] = IF i = 1 \/ b[i - 1] = 0 THEN 47 ELSE b[i - 1]
    BY SlashedIs
  <2> HIDE DEF r
  <2> QED BY <2>1, PathTextIs
<1>4. PICK e : Reaches(e, b, names)
  BY DEF Stack
<1>5. e \in [Nat -> Nat] /\ e[0] = 0 /\ e[n] = Len(b)
  BY <1>4 DEF Reaches
<1> HIDE DEF r
<1>6. ASSUME NEW k \in 1..n
      PROVE  /\ e[k - 1] \in Nat /\ x(k) \in Seq(Nat) /\ e[k] = e[k - 1] + Len(x(k))
             /\ HasAt(r, e[k - 1], x(k))
  <2> DEFINE q == names[k]
             l == Len(q)
             o == e[k - 1]
             y == x(k)
             s == <<47>>
  <2>1. /\ o \in Nat /\ (o # 0 => b[o] = 0)
        /\ e[k] = o + l + 1 /\ e[k] <= Len(b)
        /\ \A j \in 1..l : b[o + j] = q[j]
    BY <1>4, NulBetween
  <2>2. q \in Seq(Nat) /\ l \in Nat /\ \A j \in 1..l : q[j] # 0
    BY <1>1
  <2>3. s \in Seq(Nat) /\ Len(s) = 1 /\ s[1] = 47 /\ y = s \o q
    BY DEF Pathnames!Cons
  <2>4. /\ y \in Seq(Nat) /\ Len(y) = 1 + l
        /\ \A i \in 1..(1 + l) : y[i] = IF i <= 1 THEN s[i] ELSE q[i - 1]
    <3> HIDE DEF s, q, y
    <3>1. /\ s \o q \in Seq(Nat) /\ Len(s \o q) = Len(s) + Len(q)
          /\ \A i \in 1..(Len(s) + Len(q)) :
                (s \o q)[i] = IF i <= Len(s) THEN s[i] ELSE q[i - Len(s)]
      <4>1. s \in Seq(Nat) /\ q \in Seq(Nat)
        BY <2>2, <2>3
      <4> QED BY <4>1, ConcatProperties
    <3> QED BY <2>3, <3>1
  <2> HIDE DEF q, l, o, y, s
  <2>5. o + Len(y) <= Len(r)
    BY <1>2, <1>3, <2>1, <2>2, <2>4
  <2>6. ASSUME NEW i \in 1..Len(y)
        PROVE  r[o + i] = y[i]
    <3>1. i \in Nat /\ 1 <= i /\ i <= 1 + l /\ i \in 1..(1 + l) /\ o + i \in 1..Len(b)
      BY <1>2, <2>1, <2>2, <2>4
    <3>2. CASE i = 1
      <4>1. y[i] = 47
        BY <2>3, <2>4, <3>1, <3>2
      <4>2. o + i = 1 \/ b[(o + i) - 1] = 0
        <5>1. (o + i) - 1 = o
          BY <2>1, <3>2
        <5>2. o = 0 => o + i = 1
          BY <3>2
        <5> QED BY <2>1, <5>1, <5>2
      <4> QED BY <1>3, <3>1, <4>1, <4>2
    <3>3. CASE i # 1
      <4>1. /\ ~(i <= 1) /\ i - 1 \in 1..l /\ (o + i) - 1 = o + (i - 1) /\ o + i # 1
        BY <2>1, <2>2, <3>1, <3>3
      <4>2. y[i] = q[i - 1]
        BY <2>4, <3>1, <4>1
      <4>3. b[(o + i) - 1] = q[i - 1] /\ q[i - 1] # 0
        BY <2>1, <2>2, <4>1
      <4> QED BY <1>3, <3>1, <4>1, <4>2, <4>3
    <3> QED BY <3>2, <3>3
  <2>7. HasAt(r, o, y)
    BY <2>1, <2>5, <2>6 DEF HasAt
  <2>8. e[k] = o + Len(y)
    BY <2>1, <2>2, <2>4
  <2> QED BY <2>1, <2>4, <2>7, <2>8 DEF o, y
<1> HIDE DEF x, n
<1> DEFINE w == [k \in 0..n |-> SubSeq(r, 1, e[k])]
           text == CHOOSE f : f = [k \in 0..n |-> IF k = 0 THEN <<>> ELSE f[k - 1] \o x(k)]
<1>7. w[0] = <<>> /\ \A k \in 1..n : w[k] = w[k - 1] \o x(k)
  <2>1. w[0] = <<>>
    <3>1. w[0] = SubSeq(r, 1, 0)
      BY <1>1, <1>5
    <3>2. SubSeq(r, 1, 0) = <<>>
      <4> DEFINE u == SubSeq(r, 0 + 1, 0)
      <4>1. 0 \in Nat /\ 0 <= 0 /\ 0 <= Len(r)
        BY <1>2, <1>3
      <4>2. u \in Seq(Nat) /\ Len(u) = 0 - 0
        BY <1>3, <4>1, TextPart
      <4> HIDE DEF u
      <4>3. u = <<>>
        BY <4>2, EmptySeq
      <4> QED BY <4>3 DEF u
    <3> QED BY <3>1, <3>2
  <2>2. ASSUME NEW k \in 1..n
        PROVE  w[k] = w[k - 1] \o x(k)
    <3>1. k \in 0..n /\ k - 1 \in 0..n
      BY <1>1
    <3>2. w[k] = SubSeq(r, 1, e[k]) /\ w[k - 1] = SubSeq(r, 1, e[k - 1])
      BY <3>1
    <3>3. SubSeq(r, 1, e[k - 1]) \o x(k) = SubSeq(r, 1, e[k - 1] + Len(x(k)))
      BY <1>3, <1>6, NextPart
    <3> HIDE DEF w
    <3> QED BY <1>6, <3>2, <3>3
  <2> HIDE DEF w
  <2> QED BY <2>1, <2>2
<1>8. w = [k \in 0..n |-> IF k = 0 THEN <<>> ELSE w[k - 1] \o x(k)]
  <2> DEFINE u == [k \in 0..n |-> IF k = 0 THEN <<>> ELSE w[k - 1] \o x(k)]
  <2>1. \A k \in 0..n : w[k] = u[k]
    <3> TAKE k \in 0..n
    <3> HIDE DEF w
    <3>1. k # 0 => k \in 1..n
      BY <1>1
    <3> QED BY <1>7, <3>1
  <2>2. w = [k \in 0..n |-> w[k]]
    OBVIOUS
  <2> HIDE DEF w
  <2>4. u = [k \in 0..n |-> u[k]]
    BY Zenon
  <2> HIDE DEF u
  <2>3. w = u
    BY <2>1, <2>2, <2>4
  <2> QED BY <2>3 DEF u
<1> HIDE DEF w
<1>9. text = [k \in 0..n |-> IF k = 0 THEN <<>> ELSE text[k - 1] \o x(k)]
  BY <1>8
<1>10. Pathnames!Canonical(names) = text[n]
  BY DEF Pathnames!Canonical, Pathnames!Slash, n, x
<1> HIDE DEF text
<1>11. \A k \in 0..n : text[k] = IF k = 0 THEN <<>> ELSE text[k - 1] \o x(k)
  BY <1>9
<1> DEFINE S == {k \in 0..n : text[k] # w[k]}
<1>12. ASSUME NEW k \in S
       PROVE  \E j \in S : j < k
  <2>1. k \in 0..n /\ text[k] # w[k]
    OBVIOUS
  <2>2. k # 0
    BY <1>7, <1>11, <2>1
  <2>3. k \in 1..n /\ k - 1 \in 0..n /\ k - 1 < k
    BY <1>1, <2>1, <2>2
  <2>4. text[k] = text[k - 1] \o x(k) /\ w[k] = w[k - 1] \o x(k)
    BY <1>7, <1>11, <2>1, <2>2, <2>3
  <2>5. text[k - 1] # w[k - 1]
    BY <2>1, <2>4
  <2> QED BY <2>3, <2>5
<1>13. S = {}
  <2>1. S \subseteq Nat
    BY <1>1
  <2> HIDE DEF S
  <2> QED BY <1>12, <2>1, NoLeast
<1>14. text[n] = w[n] /\ w[n] = SubSeq(r, 1, e[n])
  <2>1. n \in 0..n
    BY <1>1
  <2> QED BY <1>13, <2>1 DEF w
<1>15. SubSeq(r, 1, Len(r)) = r
  BY <1>3, WholeText
<1> QED BY <1>3, <1>5, <1>10, <1>14, <1>15 DEF r

(* What an operation has to make of a path, and how far p_norm() has come.  *)
Right(call, p, q, c, r) ==
    /\ call = "dir" => Pathnames!Follow(Meant(c, r), Pathnames!File(p)) = Meant(c, p)
    /\ call = "file" => Pathnames!IsSuffix(r, p) /\ Pathnames!LastSlash(r) < 0
    /\ call = "filename" => r \o Pathnames!Extension(p) = Pathnames!File(p)
    /\ call = "cat" /\ p # <<>> /\ r # <<>> => Meant(c, r) = Pathnames!Follow(Meant(c, p), q)
    /\ call = "pre" /\ q # <<>> => Meant(c, r) = Pathnames!Follow(Meant(c, q), p)
    /\ call = "norm" => r = Pathnames!Canonical(Meant(c, p))

Entered(p, s, names) ==
    /\ s <= Len(p) => Pathnames!Way(<<>>, p)[s] = InDir(names)
    /\ s = Len(p) + 1 => Pathnames!Follow(<<>>, p) = names

Norming(p, c, r, s, b) ==
    /\ s \in 1..(Len(r) + 1)
    /\ Pathnames!Follow(<<>>, r) = Meant(c, p)
    /\ \E names \in Names : Stack(b, names) /\ Entered(r, s, names)

PathInv ==
    /\ cwd \in PathText /\ Absolute(cwd)
    /\ path \in PathText /\ given.path \in PathText /\ given.part \in PathText
    /\ si \in Nat /\ bytes \in StackText /\ size \in Nat /\ Len(bytes) <= size
    /\ si = 0 => Right(given.op, given.path, given.part, cwd, path)
    /\ si # 0 => given.op = "norm" /\ Norming(given.path, cwd, path, si, bytes)

LEMMA SomeText ==
    ASSUME NEW n \in Nat, NEW p \in Pathnames!PathsTo(n)
    PROVE  p \in PathText
<1>1. PICK m \in 0..n : p \in [1..m -> Letters \cup {Pathnames!Slash, Pathnames!Dot}]
  BY DEF Pathnames!PathsTo, Pathnames!BoundedSeq, Pathnames!SeqOf
<1>2. m \in Nat /\ Letters \cup {Pathnames!Slash, Pathnames!Dot} = PathChars
  BY <1>1 DEF Pathnames!Slash, Pathnames!Dot, PathChars
<1>3. p \in [1..m -> PathChars]
  BY <1>1, <1>2
<1> HIDE DEF PathChars
<1> QED BY <1>2, <1>3 DEF PathText

LEMMA NothingStacked ==
    <<>> \in Names /\ <<>> \in StackText /\ <<>> \in PathText /\ Stack(<<>>, <<>>) /\ Len(<<>>) = 0
<1> DEFINE e == [i \in Nat |-> 0]
           t == <<>>
<1>1. t \in Names /\ t \in StackText /\ t \in PathText /\ Len(t) = 0
  <2>1. Len(t) = 0 /\ \A S : t \in Seq(S)
    BY EmptySeq
  <2> QED BY <2>1 DEF Names, StackText, PathText
<1>2. e \in [Nat -> Nat] /\ \A i \in Nat : e[i] = 0
  OBVIOUS
<1> HIDE DEF e, t
<1>3. Reaches(e, t, t)
  BY <1>1, <1>2 DEF Reaches
<1> QED BY <1>1, <1>3 DEF Stack, t

LEMMA MeantIs ==
    ASSUME NEW c \in PathText, NEW p \in PathText
    PROVE  Base(c, p) \in Seq(Seq(Nat)) /\ Meant(c, p) \in Seq(Seq(Nat))
<1>1. c \in Seq(Nat) /\ p \in Seq(Nat) /\ <<>> \in Seq(Seq(Nat))
  BY PathTextIs, EmptySeq
<1>2. Pathnames!Follow(<<>>, c) \in Seq(Seq(Nat))
  BY <1>1, FollowIs
<1>3. Base(c, p) \in Seq(Seq(Nat))
  BY <1>1, <1>2 DEF Base
<1> QED BY <1>1, <1>3, FollowIs DEF Meant

LEMMA CalledIs ==
    ASSUME PathInv, NEW name, NEW q \in PathText, Pathnames!Call(name, q), Pathnames!NotNorm,
           path' \in PathText, Right(name, path, q, cwd, path')
    PROVE  PathInv'
<1>1. si = 0 /\ given' = [op |-> name, path |-> path, part |-> q] /\ cwd' = cwd
  BY DEF Pathnames!Call, Pathnames!Idle
<1>2. given'.op = name /\ given'.path = path /\ given'.part = q
  BY <1>1
<1>3. si' = si /\ bytes' = bytes /\ size' = size
  BY DEF Pathnames!NotNorm
<1> QED BY <1>1, <1>2, <1>3 DEF PathInv

LEMMA TakeApartIs ==
    ASSUME PathInv, Pathnames!TakeApart
    PROVE  PathInv'
<1> DEFINE e == <<>>
<1>1. path \in PathText /\ cwd \in PathText /\ e \in PathText
  BY NothingStacked DEF PathInv
<1>2. Pathnames!NotNorm
  BY DEF Pathnames!TakeApart
<1> HIDE DEF e
<1>3. CASE Pathnames!Call("dir", e) /\ path' = Pathnames!Dir(path)
  <2>1. /\ Pathnames!Dir(path) \in PathText
        /\ Pathnames!Follow(Meant(cwd, Pathnames!Dir(path)), Pathnames!File(path)) = Meant(cwd, path)
    BY <1>1, DirRejoins
  <2>2. Right("dir", path, e, cwd, path')
    BY <1>3, <2>1 DEF Right
  <2> QED BY <1>1, <1>2, <1>3, <2>1, <2>2, CalledIs
<1>4. CASE Pathnames!Call("file", e) /\ path' = Pathnames!File(path)
  <2>1. /\ Pathnames!File(path) \in PathText
        /\ Pathnames!IsSuffix(Pathnames!File(path), path)
        /\ Pathnames!LastSlash(Pathnames!File(path)) < 0
    BY <1>1, FileIs, FileRejoins
  <2>2. Right("file", path, e, cwd, path')
    BY <1>4, <2>1 DEF Right
  <2> QED BY <1>1, <1>2, <1>4, <2>1, <2>2, CalledIs
<1>5. CASE Pathnames!Call("filename", e) /\ path' = Pathnames!Filename(path)
  <2>1. /\ Pathnames!Filename(path) \in PathText
        /\ Pathnames!Filename(path) \o Pathnames!Extension(path) = Pathnames!File(path)
    BY <1>1, NameRejoins
  <2>2. Right("filename", path, e, cwd, path')
    BY <1>5, <2>1 DEF Right
  <2> QED BY <1>1, <1>2, <1>5, <2>1, <2>2, CalledIs
<1>6. CASE Pathnames!Call("extension", e) /\ path' = Pathnames!Extension(path)
  <2>1. Pathnames!Extension(path) \in PathText
    BY <1>1, NameRejoins
  <2>2. Right("extension", path, e, cwd, path')
    BY DEF Right
  <2> QED BY <1>1, <1>2, <1>6, <2>1, <2>2, CalledIs
<1> QED BY <1>3, <1>4, <1>5, <1>6 DEF Pathnames!TakeApart, e

LEMMA JoinIs ==
    ASSUME PathInv, NEW q \in PathText, Pathnames!Join(q)
    PROVE  PathInv'
<1>1. path \in PathText /\ cwd \in PathText
  BY DEF PathInv
<1>2. Pathnames!NotNorm
  BY DEF Pathnames!Join
<1>3. CASE Pathnames!Call("cat", q) /\ path' = Pathnames!Joined(path, q)
  <2> DEFINE r == Pathnames!Joined(path, q)
  <2>1. /\ r \in PathText
        /\ path # <<>> /\ r # <<>> =>
              /\ r[1] = path[1]
              /\ \A d \in Seq(Seq(Nat)) :
                    Pathnames!Follow(d, r) = Pathnames!Follow(Pathnames!Follow(d, path), q)
    BY <1>1, JoinedIs
  <2> HIDE DEF r
  <2>2. ASSUME path # <<>>, r # <<>>
        PROVE  Meant(cwd, r) = Pathnames!Follow(Meant(cwd, path), q)
    <3>1. Base(cwd, r) = Base(cwd, path)
      BY <2>1, <2>2 DEF Base, Absolute
    <3>2. Base(cwd, path) \in Seq(Seq(Nat))
      BY <1>1, MeantIs
    <3> QED BY <2>1, <2>2, <3>1, <3>2 DEF Meant
  <2>3. path' = r
    BY <1>3 DEF r
  <2>4. Right("cat", path, q, cwd, path')
    BY <2>2, <2>3 DEF Right
  <2> QED BY <1>1, <1>2, <1>3, <2>1, <2>3, <2>4, CalledIs
<1>4. CASE Pathnames!Call("pre", q) /\ path' \in Pathnames!Prefixed(path, q)
  <2> DEFINE r == path'
  <2>1. /\ r \in PathText
        /\ q # <<>> =>
              /\ r # <<>> /\ r[1] = q[1]
              /\ \A d \in Seq(Seq(Nat)) :
                    Pathnames!Follow(d, r) = Pathnames!Follow(Pathnames!Follow(d, q), path)
    BY <1>1, <1>4, PrefixedIs
  <2> HIDE DEF r
  <2>2. ASSUME q # <<>>
        PROVE  Meant(cwd, r) = Pathnames!Follow(Meant(cwd, q), path)
    <3>1. Base(cwd, r) = Base(cwd, q)
      BY <2>1, <2>2 DEF Base, Absolute
    <3>2. Base(cwd, q) \in Seq(Seq(Nat))
      BY <1>1, MeantIs
    <3> QED BY <2>1, <2>2, <3>1, <3>2 DEF Meant
  <2>3. Right("pre", path, q, cwd, r)
    BY <2>2 DEF Right
  <2> QED BY <1>1, <1>2, <1>4, <2>1, <2>3, CalledIs DEF r
<1> QED BY <1>3, <1>4 DEF Pathnames!Join

LEMMA NormStartIs ==
    ASSUME PathInv, Pathnames!NormStart
    PROVE  PathInv'
<1>1. /\ path \in PathText /\ cwd \in PathText /\ Absolute(cwd) /\ <<>> \in PathText
      /\ path \in Seq(Nat) /\ cwd \in Seq(Nat) /\ <<>> \in Seq(Seq(Nat))
  BY NothingStacked, PathTextIs, EmptySeq DEF PathInv
<1>2. /\ given' = [op |-> "norm", path |-> path, part |-> <<>>] /\ cwd' = cwd
      /\ si' = 1 /\ bytes' = <<>> /\ size' = StackSize /\ StackSize \in Nat
  BY PathBounds DEF Pathnames!NormStart, Pathnames!Call
<1>3. given'.op = "norm" /\ given'.path = path /\ given'.part = <<>>
  BY <1>2
<1>4. path' \in PathText /\ Absolute(path') /\ Pathnames!Follow(<<>>, path') = Meant(cwd, path)
  <2>1. CASE Absolute(path)
    <3>1. path' = path
      BY <1>1, <2>1, AbsoluteIs DEF Pathnames!NormStart
    <3> QED BY <1>1, <2>1, <3>1 DEF Meant, Base
  <2>2. CASE ~Absolute(path)
    <3>1. path' \in Pathnames!Prefixed(path, cwd)
      BY <1>1, <2>2, AbsoluteIs DEF Pathnames!NormStart
    <3>2. cwd # <<>> /\ cwd[1] = 47
      BY <1>1 DEF Absolute
    <3> DEFINE r == path'
               d == <<>>
    <3>3. r \in Pathnames!Prefixed(path, cwd) /\ d \in Seq(Seq(Nat))
      BY <1>1, <3>1
    <3> HIDE DEF r, d
    <3>4. /\ r \in PathText /\ r # <<>> /\ r[1] = cwd[1]
          /\ Pathnames!Follow(d, r) = Pathnames!Follow(Pathnames!Follow(d, cwd), path)
      BY <1>1, <3>2, <3>3, PrefixedIs
    <3> QED BY <2>2, <3>2, <3>4 DEF Meant, Base, Absolute, r, d
  <2> QED BY <2>1, <2>2
<1> DEFINE r == path'
<1>5. r \in Seq(Nat) /\ Len(r) \in Nat /\ Len(r) >= 1 /\ r[1] = 47
  <2>1. r \in Seq(Nat) /\ Len(r) \in Nat
    BY <1>4, PathTextIs
  <2>2. Len(r) # 0
    BY <1>4, <2>1, EmptySeq DEF Absolute
  <2> QED BY <1>4, <2>1, <2>2 DEF Absolute
<1> HIDE DEF r
<1>6. Pathnames!Way(<<>>, r)[1] = InDir(<<>>)
  <2>1. 1 \in 0..Len(r) /\ \A i \in 1..1 : r[i] = 47
    BY <1>5
  <2> QED BY <1>1, <1>5, <2>1, SlashesInFront, ZenonT(30)
<1>7. Norming(path, cwd, r, 1, <<>>)
  <2>1. Entered(r, 1, <<>>)
    BY <1>5, <1>6 DEF Entered
  <2>2. 1 \in 1..(Len(r) + 1)
    BY <1>5
  <2> QED BY <1>4, <2>1, <2>2, NothingStacked DEF Norming, r
<1> QED BY <1>1, <1>2, <1>3, <1>4, <1>7, NothingStacked DEF PathInv, r

\* Where the name ends that p_norm() is at.
LEMMA NextSlashIs ==
    ASSUME path \in PathText, si \in 1..Len(path)
    PROVE  /\ Pathnames!NextSlash \in si..Len(path)
           /\ \A i \in (si + 1)..Pathnames!NextSlash : path[i] # 47
           /\ Pathnames!NextSlash < Len(path) => path[Pathnames!NextSlash + 1] = 47
<1> DEFINE k == Pathnames!FindFrom(path, <<47>>, si)
           e == Pathnames!NextSlash
           n == Len(path)
<1>1. path \in Seq(Nat) /\ n \in Nat /\ si \in 0..n /\ si \in 1..n
  BY PathTextIs
<1>2. \/ k = -1 /\ \A i \in (si + 1)..n : path[i] # 47
      \/ /\ k \in si..(n - 1) /\ path[k + 1] = 47
         /\ \A i \in (si + 1)..k : path[i] # 47
  <2> HIDE DEF k
  <2> QED BY <1>1, FirstIs DEF k, n
<1>3. e = IF k < si THEN n ELSE k
  BY DEF Pathnames!NextSlash, Pathnames!Slash
<1> HIDE DEF k, e, n
<1>4. CASE k = -1 /\ \A i \in (si + 1)..n : path[i] # 47
  <2>1. e = n
    BY <1>1, <1>3, <1>4
  <2> QED BY <1>1, <1>4, <2>1 DEF e, n
<1>5. CASE /\ k \in si..(n - 1) /\ path[k + 1] = 47
           /\ \A i \in (si + 1)..k : path[i] # 47
  <2>1. e = k /\ k \in si..n
    BY <1>1, <1>3, <1>5
  <2> QED BY <1>5, <2>1 DEF e, n
<1> QED BY <1>2, <1>4, <1>5

LEMMA PoppedIs ==
    ASSUME NEW names \in Names, bytes \in StackText, Stack(bytes, names)
    PROVE  LET less == IF names = <<>> THEN names ELSE Pathnames!Front(names) IN
           /\ less \in Names /\ Stack(Pathnames!Popped, less)
           /\ Pathnames!Popped \in StackText /\ Len(Pathnames!Popped) <= Len(bytes)
<1>1. Pathnames!Popped = PopOf(bytes)
  BY SameLimits DEF Pathnames!Popped, Pathnames!Nul, PopOf
<1>2. CASE names # <<>>
  BY <1>1, <1>2, StackPop
<1>3. CASE names = <<>>
  <2>1. bytes = <<>>
    BY <1>3, StackEmpty
  <2> DEFINE m == Dynamic!Max({0} \cup {i \in 1..(Len(bytes) - 1) : bytes[i] = 0})
             e == <<>>
  <2>2. m = 0
    <3>1. {0} \cup {i \in 1..(Len(bytes) - 1) : bytes[i] = 0} = {0, 0}
      BY <2>1, NothingStacked
    <3>2. m = Dynamic!Max({0, 0})
      BY <3>1
    <3>3. Dynamic!Max({0, 0}) = 0
      BY OfTwo
    <3> QED BY <3>2, <3>3
  <2>3. PopOf(bytes) = SubSeq(e, 1, 0)
    BY <2>1, <2>2 DEF PopOf
  <2>4. e \in Seq(Nat) /\ Len(e) = 0
    BY EmptySeq
  <2> HIDE DEF m, e
  <2>5. SubSeq(e, 1, 0) = e
    BY <2>4, WholeText
  <2>6. Pathnames!Popped = <<>>
    BY <1>1, <2>3, <2>5 DEF e
  <2> QED BY <1>3, <2>1, <2>6, NothingStacked
<1> QED BY <1>2, <1>3

LEMMA NormNameIs ==
    ASSUME PathInv, Pathnames!NormName
    PROVE  PathInv'
<1> DEFINE e == Pathnames!NextSlash
           q == SubSeq(path, si + 1, e)
           n == Len(path)
<1>1. /\ path \in PathText /\ path \in Seq(Nat) /\ n \in Nat
      /\ cwd \in PathText /\ given.path \in PathText
      /\ si \in Nat /\ bytes \in StackText /\ size \in Nat /\ Len(bytes) <= size
  BY PathTextIs DEF PathInv
<1>2. si # 0 /\ si <= n /\ si \in 1..n /\ UNCHANGED <<path, cwd, given>> /\ si' = e + 1
  BY <1>1 DEF Pathnames!NormName, Pathnames!Idle
<1>3. /\ given.op = "norm" /\ Pathnames!Follow(<<>>, path) = Meant(cwd, given.path)
  BY <1>2 DEF PathInv, Norming
<1>4. PICK names \in Names : Stack(bytes, names) /\ Entered(path, si, names)
  BY <1>2 DEF PathInv, Norming
<1>5. /\ e \in si..n /\ e \in Nat /\ si <= e /\ e <= n
      /\ \A i \in (si + 1)..e : path[i] # 47
      /\ e < n => path[e + 1] = 47
  <2>1. /\ e \in si..n /\ \A i \in (si + 1)..e : path[i] # 47
        /\ e < n => path[e + 1] = 47
    BY <1>1, <1>2, NextSlashIs
  <2> HIDE DEF e, n
  <2> QED BY <1>1, <2>1
<1>6. q \in PathText /\ q \in Seq(Nat) /\ Len(q) \in Nat
  <2> HIDE DEF e, n
  <2>1. q \in PathText
    BY <1>1, <1>5, PathPart DEF n
  <2> HIDE DEF q
  <2> QED BY <2>1, PathTextIs
<1> DEFINE new == Pathnames!Enter(names, q)
<1>7. Entered(path, e + 1, new)
  <2>1. names \in Seq(Seq(Nat)) /\ Pathnames!Way(<<>>, path)[si] = InDir(names)
    BY <1>2, <1>4, NamesAre DEF Entered
  <2>2. /\ e < Len(path) => Pathnames!Way(<<>>, path)[e + 1] = InDir(Pathnames!Enter(names, q))
        /\ e = Len(path) => Pathnames!Follow(<<>>, path) = Pathnames!Enter(names, q)
    <3> HIDE DEF e
    <3> QED BY <1>1, <1>5, <2>1, NameEntered
  <2> HIDE DEF e, new
  <2>3. (e + 1 <= Len(path) => e < Len(path)) /\ (e + 1 = Len(path) + 1 => e = Len(path))
    BY <1>1, <1>5
  <2> QED BY <2>2, <2>3 DEF Entered, new
<1> DEFINE full == Len(q) + Len(bytes) >= size
<1>8. /\ q \in {<<>>, <<46>>} => bytes' = bytes /\ size' = size
      /\ q = <<46, 46>> => bytes' = Pathnames!Popped /\ size' = size
      /\ q \notin {<<>>, <<46>>} /\ q # <<46, 46>> =>
            /\ bytes' = Append(bytes \o q, 0)
            /\ size' = IF full THEN Pathnames!BitCeil(size + Len(q) + Len(bytes) + 1) ELSE size
  <2>1. (CASE q \in {<<>>, <<Pathnames!Dot>>} -> UNCHANGED <<bytes, size>>
          [] q = <<Pathnames!Dot, Pathnames!Dot>> -> bytes' = Pathnames!Popped /\ UNCHANGED size
          [] OTHER -> /\ bytes' = Append(bytes \o q, Pathnames!Nul)
                      /\ size' = IF full THEN Pathnames!BitCeil(size + Len(q) + Len(bytes) + 1)
                                         ELSE size)
    BY DEF Pathnames!NormName
  <2> DEFINE A == q \in {<<>>, <<46>>}
             B == q = <<46, 46>>
             X == bytes' = bytes /\ size' = size
             Y == bytes' = Pathnames!Popped /\ size' = size
             Z == /\ bytes' = Append(bytes \o q, 0)
                  /\ size' = IF full THEN Pathnames!BitCeil(size + Len(q) + Len(bytes) + 1) ELSE size
  <2>2. (CASE A -> X [] B -> Y [] OTHER -> Z)
    BY <2>1 DEF Pathnames!Dot, Pathnames!Nul
  <2>3. ~(A /\ B)
    <3>1. <<46, 46>> \notin {<<>>, <<46>>}
      OBVIOUS
    <3> HIDE DEF q
    <3> QED BY <3>1
  <2> HIDE DEF A, B, X, Y, Z
  <2>4. (A => X) /\ (B => Y) /\ (~A /\ ~B => Z)
    BY <2>2, <2>3
  <2> QED BY <2>4 DEF A, B, X, Y, Z
<1>9. /\ q \in {<<>>, <<46>>} => new = names
      /\ q = <<46, 46>> => new = IF names = <<>> THEN names ELSE Pathnames!Front(names)
      /\ q \notin {<<>>, <<46>>} /\ q # <<46, 46>> => new = Append(names, q)
  <2> DEFINE A == q \in {<<>>, <<46>>}
             B == q = <<46, 46>>
             less == IF names = <<>> THEN names ELSE Pathnames!Front(names)
             more == Append(names, q)
  <2>1. new = CASE A -> names [] B -> less [] OTHER -> more
    BY DEF Pathnames!Enter, Pathnames!Dot
  <2>2. ~(A /\ B)
    <3>1. <<46, 46>> \notin {<<>>, <<46>>}
      OBVIOUS
    <3> HIDE DEF q
    <3> QED BY <3>1
  <2> HIDE DEF A, B, less, more, new
  <2>3. (A => new = names) /\ (B => new = less) /\ (~A /\ ~B => new = more)
    BY <2>1, <2>2
  <2> QED BY <2>3 DEF A, B, less, more
<1> HIDE DEF new, q, e, full
<1>10. /\ new \in Names /\ Stack(bytes', new) /\ bytes' \in StackText
       /\ size' \in Nat /\ Len(bytes') <= size'
  <2>1. CASE q \in {<<>>, <<46>>}
    BY <1>1, <1>4, <1>8, <1>9, <2>1
  <2>2. CASE q = <<46, 46>>
    <3> DEFINE less == IF names = <<>> THEN names ELSE Pathnames!Front(names)
    <3>1. /\ less \in Names /\ Stack(Pathnames!Popped, less)
          /\ Pathnames!Popped \in StackText /\ Len(Pathnames!Popped) <= Len(bytes)
      BY <1>1, <1>4, PoppedIs
    <3>2. new = less /\ bytes' = Pathnames!Popped /\ size' = size
      BY <1>8, <1>9, <2>2
    <3> HIDE DEF less
    <3>3. Len(bytes') \in Nat /\ Len(bytes) \in Nat
      BY <1>1, <3>1, <3>2, StackTextIs
    <3> QED BY <1>1, <3>1, <3>2, <3>3
  <2>3. CASE q \notin {<<>>, <<46>>} /\ q # <<46, 46>>
    <3> DEFINE b == Append(bytes \o q, 0)
               l == Len(bytes)
               m == Len(q)
    <3>1. /\ Append(names, q) \in Names /\ b \in StackText
          /\ Len(b) = l + m + 1 /\ Stack(b, Append(names, q))
      BY <1>1, <1>4, <1>6, StackPush
    <3>2. /\ new = Append(names, q) /\ bytes' = b
          /\ size' = IF full THEN Pathnames!BitCeil(size + m + l + 1) ELSE size
      BY <1>8, <1>9, <2>3
    <3>3. l \in Nat /\ m \in Nat
      BY <1>1, <1>6, StackTextIs
    <3>4. full <=> m + l >= size
      BY DEF full
    <3> HIDE DEF b, l, m
    <3>5. CASE full
      <4>1. size + m + l + 1 \in Nat
        BY <1>1, <3>3
      <4> DEFINE c == size + m + l + 1
      <4>2. c \in Nat /\ c >= l + m + 1
        BY <1>1, <3>3
      <4> HIDE DEF c
      <4>3. Pathnames!BitCeil(c) = Dynamic!BitCeil(c)
        BY SameLimits DEF Pathnames!BitCeil, Dynamic!BitCeil, Pathnames!PowerOfTwo, Dynamic!PowerOfTwo
      <4>4. Dynamic!BitCeil(c) \in Nat /\ Dynamic!BitCeil(c) >= c
        BY <4>2, CeilIs
      <4>5. size' \in Nat /\ size' >= c
        BY <3>2, <3>5, <4>3, <4>4 DEF c
      <4>6. Len(b) <= size'
        BY <3>1, <3>3, <4>2, <4>5
      <4> QED BY <3>1, <3>2, <4>5, <4>6
    <3>6. CASE ~full
      <4>1. Len(b) <= size
        BY <1>1, <3>1, <3>3, <3>4, <3>6
      <4> QED BY <1>1, <3>1, <3>2, <3>6, <4>1
    <3> QED BY <3>5, <3>6
  <2> QED BY <2>1, <2>2, <2>3
<1>11. e + 1 \in 1..(n + 1) /\ e + 1 \in Nat /\ e + 1 # 0
  BY <1>1, <1>2, <1>5
<1>12. Norming(given.path, cwd, path, e + 1, bytes')
  BY <1>3, <1>7, <1>10, <1>11 DEF Norming, n
<1>13. Norming(given.path, cwd, path, si, bytes)'
  BY <1>2, <1>12
<1> QED BY <1>2, <1>3, <1>10, <1>11, <1>13 DEF PathInv

LEMMA NormEndIs ==
    ASSUME PathInv, Pathnames!NormEnd
    PROVE  PathInv'
<1> DEFINE n == Len(path)
           r == path'
<1>1. /\ path \in PathText /\ n \in Nat /\ bytes \in StackText
      /\ given.op = "norm" /\ given.path \in PathText /\ cwd \in PathText
      /\ Norming(given.path, cwd, path, si, bytes)
  BY PathTextIs DEF PathInv, Pathnames!NormEnd, Pathnames!Idle
<1>2. /\ si > n /\ r = IF bytes = <<>> THEN <<47>> ELSE Pathnames!Slashed(bytes)
      /\ si' = 0 /\ bytes' = <<>> /\ size' = 0 /\ UNCHANGED <<cwd, given>>
  BY DEF Pathnames!NormEnd, Pathnames!Slash
<1> HIDE DEF r
<1>3. PICK names \in Names : Stack(bytes, names) /\ Entered(path, si, names)
  BY <1>1 DEF Norming
<1>4. si = n + 1
  BY <1>1, <1>2 DEF Norming
<1>5. names = Meant(cwd, given.path)
  BY <1>1, <1>3, <1>4 DEF Norming, Entered
<1>6. r \in PathText /\ r = Pathnames!Canonical(names)
  <2>1. CASE bytes = <<>>
    <3>1. names = <<>>
      BY <1>1, <1>3, <2>1, StackEmpty
    <3>2. Pathnames!Canonical(names) = <<47>>
      BY <3>1 DEF Pathnames!Canonical, Pathnames!Slash
    <3>3. <<47>> \in PathText
      BY DEF PathText, PathChars
    <3> QED BY <1>2, <2>1, <3>2, <3>3
  <2>2. CASE bytes # <<>>
    <3>1. names # <<>>
      BY <1>1, <1>3, <2>2, StackEmpty
    <3>2. Pathnames!Slashed(bytes) = Pathnames!Canonical(names)
      BY <1>1, <1>3, <3>1, StackSlashed
    <3>3. Pathnames!Slashed(bytes) \in PathText
      BY <1>1, SlashedIs
    <3> QED BY <1>2, <2>2, <3>2, <3>3
  <2> QED BY <2>1, <2>2
<1>7. Right("norm", given.path, given.part, cwd, r)
  BY <1>5, <1>6 DEF Right
<1>8. Right(given.op, given.path, given.part, cwd, path)'
  BY <1>1, <1>2, <1>7 DEF r
<1>9. bytes' \in StackText /\ Len(bytes') <= size' /\ size' \in Nat /\ si' \in Nat
  BY <1>2, NothingStacked
<1> QED BY <1>1, <1>2, <1>6, <1>8, <1>9 DEF PathInv, r

LEMMA PathInit ==
    ASSUME CommonInit
    PROVE  PathInv
<1>1. <<>> \in PathText /\ <<>> \in StackText /\ Len(<<>>) = 0
  BY NothingStacked
<1>2. CASE Pathnames!Init
  <2>1. path \in PathText
    BY <1>2, PathBounds, SomeText DEF Pathnames!Init
  <2>2. cwd \in PathText /\ Absolute(cwd)
    BY <1>2, PathBounds DEF Pathnames!Init, PathText, PathChars, Absolute, Pathnames!Dot, Pathnames!Slash
  <2>3. given.op = "none" /\ given.path = path /\ given.part = <<>>
    BY <1>2 DEF Pathnames!Init
  <2>4. si = 0 /\ bytes = <<>> /\ size = 0
    BY <1>2 DEF Pathnames!Init
  <2>5. Right(given.op, given.path, given.part, cwd, path)
    BY <2>3 DEF Right
  <2> QED BY <1>1, <2>1, <2>2, <2>3, <2>4, <2>5 DEF PathInv
<1>3. CASE PathRests
  <2>1. path = <<>> /\ cwd = <<47>> /\ si = 0 /\ bytes = <<>> /\ size = 0
    BY <1>3 DEF PathRests, Pathnames!Slash
  <2>2. given.op = "none" /\ given.path = <<>> /\ given.part = <<>>
    BY <1>3 DEF PathRests
  <2>3. <<47>> \in PathText /\ Absolute(<<47>>)
    BY DEF PathText, PathChars, Absolute
  <2>4. Right(given.op, given.path, given.part, cwd, path)
    BY <2>2 DEF Right
  <2> QED BY <1>1, <2>1, <2>2, <2>3, <2>4 DEF PathInv
<1> QED BY <1>2, <1>3 DEF CommonInit

LEMMA PathKept ==
    ASSUME PathInv, [CommonNext]_commonVars
    PROVE  PathInv'
<1>1. CASE UNCHANGED pathVars
  <2>1. UNCHANGED <<path, cwd, given, si, bytes, size>>
    BY <1>1 DEF pathVars
  <2> QED BY <2>1 DEF PathInv
<1>2. CASE Pathnames!Next
  <2>1. CASE \E q \in Pathnames!PathsTo(MaxPart) : Pathnames!Join(q)
    <3>1. PICK q \in Pathnames!PathsTo(MaxPart) : Pathnames!Join(q)
      BY <2>1
    <3>2. q \in PathText
      BY PathBounds, SomeText
    <3> QED BY <3>1, <3>2, JoinIs
  <2>2. CASE UNCHANGED Pathnames!vars
    BY <1>1, <2>2 DEF Pathnames!vars, pathVars
  <2> QED BY <1>2, <2>1, <2>2, TakeApartIs, NormStartIs, NormNameIs, NormEndIs DEF Pathnames!Next
<1>3. CASE CommonNext
  BY <1>1, <1>2, <1>3
     DEF CommonNext, HashingStep, CarStep, StreamStep, StringStep, PathStep
<1>4. CASE UNCHANGED commonVars
  BY <1>1, <1>4 DEF commonVars
<1> QED BY <1>3, <1>4

(* In every behaviour, for all names, current directories and sizes of the  *)
(* stack: the stack of p_norm() holds the names that lead to where the path *)
(* has come by, and what an operation made of a path is right (path.c).     *)
THEOREM PathInvariant == CommonSpec => []PathInv
<1> USE DEF CommonSpec
<1>1. CommonInit => PathInv
  BY PathInit
<1>2. PathInv /\ [CommonNext]_commonVars => PathInv'
  BY PathKept
<1> QED BY <1>1, <1>2, PTL

(* All operations keep what a path means: the parts lead where the path     *)
(* leads, a joined path where the second leads from the first, and p_norm() *)
(* ends with the canonical form of where its path leads and never writes    *)
(* beyond its stack (path.c).                                               *)
THEOREM PathsMeanTheSame == CommonSpec => []PathMeans
<1>1. PathInv => PathMeans
  <2> SUFFICES ASSUME PathInv
               PROVE  PathMeans
    OBVIOUS
  <2>1. /\ path \in PathText /\ given.path \in PathText /\ given.part \in PathText
        /\ path \in Seq(Nat) /\ given.path \in Seq(Nat) /\ given.part \in Seq(Nat)
    BY PathTextIs DEF PathInv
  <2>2. /\ Pathnames!Meaning(path) = Meant(cwd, path)
        /\ Pathnames!Meaning(given.path) = Meant(cwd, given.path)
        /\ Pathnames!Meaning(given.part) = Meant(cwd, given.part)
    BY <2>1, MeaningIs
  <2>3. Pathnames!Idle => Right(given.op, given.path, given.part, cwd, path)
    BY DEF PathInv, Pathnames!Idle
  <2>4. Pathnames!NormCanonical
    BY <2>2, <2>3 DEF Right, Pathnames!NormCanonical, PathInv
  <2>5. Pathnames!Idle => Pathnames!PartsRejoin
    BY <2>2, <2>3 DEF Right, Pathnames!PartsRejoin
  <2>6. Pathnames!Idle => Pathnames!JoinFollows
    BY <2>2, <2>3 DEF Right, Pathnames!JoinFollows
  <2> QED BY <2>4, <2>5, <2>6 DEF PathMeans, Pathnames!PathMeans
<1> QED BY <1>1, PathInvariant, PTL
=============================================================================
