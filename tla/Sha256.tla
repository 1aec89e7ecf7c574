------------------------------- MODULE Sha256 -------------------------------
(***************************************************************************)
(* The incremental interface of src/src/common/crypto.c: sha256_append(),   *)
(* sha256_appendf() and sha256_finalize() cut what they are given into      *)
(* chunks, whatever the pieces, and pad the end.                            *)
(*                                                                          *)
(* The compression function is not modelled: consume_chunk() appends the    *)
(* bytes of its chunk to `consumed', so that two digests are equal exactly  *)
(* if the same chunks were compressed.  64, 8 and 4096 are constants here.  *)
(***************************************************************************)
EXTENDS Integers, Sequences, SequencesExt

CONSTANTS
    Chunk,          \* bytes of a chunk: 64
    LengthBytes,    \* bytes of the length at the end: 8
    ReadSize,       \* buffer of sha256_appendf(): 4096
    MaxBytes        \* bound: bytes of a message

ASSUME ShaAssumption ==
    /\ LengthBytes \in Nat \ {0}
    /\ Chunk \in Nat /\ Chunk > LengthBytes
    /\ ReadSize \in Nat \ {0}
    /\ MaxBytes \in Nat

VARIABLES
    consumed,   \* the bytes of the chunks compressed, one after the other
    pending,    \* chunk[0 .. chunk_ptr - 1]
    input,      \* data still to be copied by append_unsafe()
    file,       \* what is left of the file sha256_appendf() reads
    pc,         \* which function runs
    iv,         \* whether result.h started from the initial hash values
    message,    \* history: all that was given to the two append functions
    tail        \* history: the padding, once it is made

vars == <<consumed, pending, input, file, pc, iv, message, tail>>

Pcs == {"idle", "append", "appendf", "block", "finalize", "completed", "panic"}

\* chunk_count, until the digest is completed.
ChunkCount == Len(consumed) \div Chunk

Minimum(a, b) == IF a < b THEN a ELSE b

Zeros(n) == [i \in 1..n |-> 0]

\* The last bytes: the length in bits, most significant byte first.
LengthField(bytes) ==
    [i \in 1..LengthBytes |-> ((bytes * 8) \div (256 ^ (LengthBytes - i))) % 256]

\* A message of k more bytes; each byte is told from all others.
Fresh(k) == [i \in 1..k |-> Len(message) + i]

Init ==
    /\ consumed = <<>> /\ pending = <<>> /\ input = <<>> /\ file = <<>>
    /\ pc = "idle"
    /\ iv = FALSE
    /\ message = <<>> /\ tail = <<>>

\* The test the functions make before they touch result.h.
StartFromInitial == iv' = (iv \/ (pending = <<>> /\ consumed = <<>>))

(* sha256_append() of k bytes.                                              *)
AppendData(k) ==
    /\ pc = "idle"
    /\ Len(message) + k <= MaxBytes
    /\ StartFromInitial
    /\ input' = Fresh(k)
    /\ message' = message \o Fresh(k)
    /\ pc' = "append"
    /\ UNCHANGED <<consumed, pending, file, tail>>

(* sha256_appendf() of a file of k bytes.                                   *)
AppendFile(k) ==
    /\ pc = "idle"
    /\ Len(message) + k <= MaxBytes
    /\ StartFromInitial
    /\ file' = Fresh(k)
    /\ message' = message \o Fresh(k)
    /\ pc' = "appendf"
    /\ UNCHANGED <<consumed, pending, input, tail>>

\* Mutant: a short read, even one of no bytes, is not the last.
ReadAgain ==
    /\ pc = "appendf"
    /\ LET n == Minimum(ReadSize, Len(file)) IN
        /\ input' = SubSeq(file, 1, n)
        /\ file' = SubSeq(file, n + 1, Len(file))
        /\ pc' = "block"
    /\ UNCHANGED <<consumed, pending, iv, message, tail>>

(* One fread(): the last block is the first that is shorter than the buffer.*)
Read ==
    /\ pc = "appendf"
    /\ LET n == Minimum(ReadSize, Len(file)) IN
        /\ input' = SubSeq(file, 1, n)
        /\ file' = SubSeq(file, n + 1, Len(file))
        /\ pc' = IF n < ReadSize THEN "append" ELSE "block"
    /\ UNCHANGED <<consumed, pending, iv, message, tail>>

(* A read error panics.                                                     *)
ReadFails ==
    /\ pc = "appendf"
    /\ pc' = "panic"
    /\ UNCHANGED <<consumed, pending, input, file, iv, message, tail>>

(* One turn of the loop of append_unsafe(), with consume_chunk().           *)
Copy ==
    /\ pc \in {"append", "block", "finalize"}
    /\ input # <<>>
    /\ LET n == Minimum(Len(input), Chunk - Len(pending))
           chunk == pending \o SubSeq(input, 1, n)
       IN /\ input' = SubSeq(input, n + 1, Len(input))
          /\ IF Len(chunk) = Chunk
               THEN consumed' = consumed \o chunk /\ pending' = <<>>
               ELSE pending' = chunk /\ UNCHANGED consumed
    /\ UNCHANGED <<file, pc, iv, message, tail>>

(* The loop ends and the function returns, or reads on.                     *)
Appended ==
    /\ input = <<>>
    /\ \/ pc = "append" /\ pc' = "idle"
       \/ pc = "block" /\ pc' = "appendf"
       \/ pc = "finalize" /\ pc' = "completed"
    /\ UNCHANGED <<consumed, pending, input, file, iv, message, tail>>

\* Mutant: off by one, a chunk with no room for the marker is used.
RemainingTight(used) ==
    IF used <= Chunk - LengthBytes THEN Chunk - used ELSE 2 * Chunk - used

\* Bytes of padding after `used' bytes in the chunk.
Remaining(used) ==
    IF used < Chunk - LengthBytes THEN Chunk - used ELSE 2 * Chunk - used

\* The block of `remaining' zeros with the marker and then the length put in.
Padding(remaining, bytes) ==
    [i \in 1..remaining |->
        IF i > remaining - LengthBytes
          THEN LengthField(bytes)[i - (remaining - LengthBytes)]
          ELSE IF i = 1 THEN 128 ELSE 0]

(* sha256_finalize() pads with a call of sha256_append(), which makes the   *)
(* test of StartFromInitial again.                                          *)
Finalize ==
    /\ pc = "idle"
    /\ StartFromInitial
    /\ tail' = Padding(Remaining(Len(pending)), ChunkCount * Chunk + Len(pending))
    /\ input' = tail'
    /\ pc' = "finalize"
    /\ UNCHANGED <<consumed, pending, file, message>>

\* Any further call on a completed digest panics.
Completed == pc \in {"completed", "panic"} /\ UNCHANGED vars

Next ==
    \/ \E k \in 0..MaxBytes : AppendData(k) \/ AppendFile(k)
    \/ Read \/ ReadFails \/ Copy \/ Appended \/ Finalize \/ Completed

Spec == Init /\ [][Next]_vars

\* The functions are sequential code.
Fairness == WF_vars(Read \/ Copy \/ Appended)

-----------------------------------------------------------------------------
TypeOK ==
    /\ consumed \in Seq(Nat) /\ pending \in Seq(Nat) /\ input \in Seq(Nat)
    /\ file \in Seq(Nat) /\ message \in Seq(Nat) /\ tail \in Seq(Nat)
    /\ Len(pending) < Chunk
    /\ pc \in Pcs
    /\ iv \in BOOLEAN

(* Nothing is lost, repeated or reordered at the seams between calls, reads *)
(* and chunks: what was compressed, what is in the chunk and what is still  *)
(* to come are together the message and its padding.                        *)
NothingLost ==
    consumed \o pending \o input \o file = message \o tail

(* The padding of FIPS 180-4: a marker, as few zeros as fill the last       *)
(* chunk, the length of the message in bits.                                *)
Padded(m) ==
    LET zeros == CHOOSE z \in 0..(Chunk - 1) :
                    (Len(m) + 1 + z + LengthBytes) % Chunk = 0
    IN m \o <<128>> \o Zeros(zeros) \o LengthField(Len(m))

(* At no time is anything lost, and what a completed digest has compressed  *)
(* depends on the message only, not on how it was cut up: it is the padded  *)
(* message of the standard.                                                 *)
DigestOfPadded ==
    /\ NothingLost
    /\ pc = "completed" => consumed = Padded(message) /\ pending = <<>> /\ iv

\* No call is running.
NoCall == pc \in {"idle", "completed", "panic"}
=============================================================================
