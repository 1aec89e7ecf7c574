-------------------------------- MODULE Texts --------------------------------
(***************************************************************************)
(* What the searching, cutting and comparing functions of                   *)
(* src/src/common/string.c compute.  A text is the sequence of the          *)
(* characters of a string without the null byte; positions count from 0,    *)
(* as they do in C.                                                         *)
(***************************************************************************)
EXTENDS Integers, Sequences, SequencesExt, FiniteSetsExt

Nul == 0

\* No odd number but 1 divides it.
PowerOfTwo(p) == \A d \in 2..p : p % d = 0 => d % 2 = 0

\* stdc_bit_ceil(): the least power of two that is not below n.
BitCeil(n) == Min({p \in 1..(2 * n + 1) : p >= n /\ PowerOfTwo(p)})

\* A position the way a caller may give it: from the end if negative, and
\* never outside the text.
Clamped(t, n) ==
    LET m == IF n < 0 THEN n + Len(t) ELSE n
    IN Max({0, Min({m, Len(t)})})

\* Where the needle is found, of the positions P.
Matches(t, needle, P) ==
    {i \in P : i + Len(needle) <= Len(t)
                 /\ SubSeq(t, i + 1, i + Len(needle)) = needle}

(* s_lfindn() and s_lfind(): the first occurrence at or after n, or -1.     *)
FindFrom(t, needle, n) ==
    LET at == Matches(t, needle, Clamped(t, n)..Len(t))
    IN IF at = {} THEN -1 ELSE Min(at)

(* s_rfindn() and s_rfind(): the last occurrence that begins at n or before.*)
FindLastTo(t, needle, n) ==
    LET at == Matches(t, needle, 0..Clamped(t, n))
    IN IF at = {} THEN -1 ELSE Max(at)

FindLast(t, needle) == FindLastTo(t, needle, Len(t))

(* s_startswith(): character by character, the null byte last.              *)
StartsWith(t, prefix) ==
    \A i \in DOMAIN prefix : i <= Len(t) /\ t[i] = prefix[i]

(* s_endswith() and s_endswiths().                                          *)
EndsWith(t, postfix) ==
    /\ Len(postfix) <= Len(t)
    /\ SubSeq(t, Len(t) - Len(postfix) + 1, Len(t)) = postfix

(* s_sub(): from start to before end.                                       *)
Sub(t, start, end) == SubSeq(t, Clamped(t, start) + 1, Clamped(t, end))

SubEnd(t, start) == Sub(t, start, Len(t))

(* trimr_length(): what is left without the characters C at the end.        *)
RightLength(t, C) == Max({0} \cup {i \in DOMAIN t : t[i] \notin C})

(* triml_offset(): how many of the characters C there are at the front.     *)
LeftOffset(t, C) == Min({Len(t)} \cup {i - 1 : i \in {j \in DOMAIN t : t[j] \notin C}})

TrimRight(t, C) == SubSeq(t, 1, RightLength(t, C))
TrimLeft(t, C) == SubSeq(t, LeftOffset(t, C) + 1, Len(t))

(* s_cmp() and s_cmps(): memcmp() of the bytes of two strings, with the     *)
(* null byte of the shorter one.                                            *)
Compare(a, b, n) ==
    LET differ == {i \in 1..(n + 1) : a[i] # b[i]}
    IN IF differ = {} THEN 0 ELSE a[Min(differ)] - b[Min(differ)]
=============================================================================
