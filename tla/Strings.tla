------------------------------- MODULE Strings -------------------------------
(***************************************************************************)
(* The dynamic strings of src/src/common/string.c: their buffers, lengths   *)
(* and capacities, in the pool and outside, under any sequence of calls.    *)
(*                                                                          *)
(* Each operation of the library comes in place, as a new string (_a) and   *)
(* as one from the pool (_p), and for a C string, a string or a format; the *)
(* text it is given is any short one, or another string.  Of a buffer the   *)
(* bytes up to the length and one more are kept, the others are unknown.    *)
(* An argument is never the string it is added to (memcpy() does not allow  *)
(* that).  A failing realloc() or vasprintf() ends the program and is left  *)
(* out.                                                                     *)
(***************************************************************************)
EXTENDS Texts

CONSTANTS
    Chars,      \* characters, none of them 0
    PoolSlots,  \* strings in the pool: 64
    MaxHeld,    \* STRINGPOOL_MAX_HELD_CAPACITY
    MaxLen      \* bound: length of a text or capacity asked for

VARIABLES
    str,        \* the pool, and one string outside of it
    live,       \* used_slots, and whether there is a string outside
    value,      \* history: what each string should be; with what s_sub_p()
                \* reads beyond the end of a string taken as it is
    end         \* why no more calls are made

vars == <<str, live, value, end>>

Outside == PoolSlots
Slot == 0..(PoolSlots - 1)
String == Slot \cup {Outside}

Ends == {"none", "panic", "null_write", "overread"}

Given == BoundedSeq(Chars, MaxLen)
Held == BoundedSeq(Chars \cup {Nul}, MaxLen)
Unknown == -1

\* A string that has no buffer yet: the pool is zeroed at first.
Blank == [len |-> 0, cap |-> 0, size |-> 0, mem |-> <<>>, fixed |-> FALSE]

Init ==
    /\ str = [x \in String |-> Blank]
    /\ live = {}
    /\ value = [x \in String |-> <<>>]
    /\ end = "none"

\* memcpy() of bytes to a position of a buffer.
Write(mem, at, bytes) ==
    [i \in 1..Max({Len(mem), at + Len(bytes)}) |->
        IF i > at /\ i <= at + Len(bytes) THEN bytes[i - at]
        ELSE IF i <= Len(mem) THEN mem[i] ELSE Unknown]

\* A string whose buffer was written to and whose length was set.
Sized(s, mem, len) ==
    [s EXCEPT !.mem = [i \in 1..(len + 1) |-> IF i <= Len(mem) THEN mem[i] ELSE Unknown],
              !.len = len]

Text(x) == SubSeq(str[x].mem, 1, str[x].len)

\* realloc() of a buffer to a capacity of n.
Resized(s, n) == [s EXCEPT !.cap = n, !.size = n + 1]

(* s_reserve(): the next power of two, and one byte more for the null byte. *)
Reserved(s, n) == IF s.cap >= n THEN s ELSE Resized(s, BitCeil(n))

Stop(why) == end' = why /\ UNCHANGED <<str, live, value>>

\* An operation in place: it needs a capacity n and makes of the string `new'.
InPlace(x, n, new(_), text) ==
    \/ /\ str[x].cap >= n \/ ~str[x].fixed
       /\ str' = [str EXCEPT ![x] = new(Reserved(@, n))]
       /\ value' = [value EXCEPT ![x] = text]
       /\ UNCHANGED <<live, end>>
    \/ str[x].cap < n /\ str[x].fixed /\ Stop("panic")

(* s_new_a(): a string outside the pool.                                    *)
NewOutside(cap, mem, text) ==
    /\ Outside \notin live
    /\ str' = [str EXCEPT ![Outside] =
                 Sized(Resized(Blank, cap), mem, Len(text))]
    /\ value' = [value EXCEPT ![Outside] = text]
    /\ live' = live \cup {Outside}
    /\ UNCHANGED end

FreeSlots == Slot \ live

(* s_new_p(): the lowest free slot, whose buffer is kept if it is large     *)
(* enough; a slot that never had one has no byte for the null byte.         *)
NewInPool(cap, mem, text) ==
    \/ FreeSlots = {} /\ Stop("panic")
    \/ /\ FreeSlots # {}
       /\ LET x == Min(FreeSlots)
              s == IF str[x].cap < cap THEN Resized(str[x], cap) ELSE str[x]
          IN IF s.size = 0
               THEN Stop("null_write")
               ELSE /\ str' = [str EXCEPT ![x] = Sized(s, mem, Len(text))]
                    /\ value' = [value EXCEPT ![x] = text]
                    /\ live' = live \cup {x}
                    /\ UNCHANGED end

\* The forms with _a and _p.
New(cap, mem, text) == NewOutside(cap, mem, text) \/ NewInPool(cap, mem, text)

Terminated(text) == Append(text, Nul)

-----------------------------------------------------------------------------
(* s_new_*(), s_own_*(), s_fmt_a(): a new string, empty or of the length of *)
(* its text.                                                                *)
Create(cap, text) ==
    /\ text = <<>> \/ Len(text) = cap
    /\ New(cap, Terminated(text), text)

\* vsnprintf() with a limit: what it writes.
Cut(text, n) == SubSeq(text, 1, Min({n, Len(text)}))

(* s_fmt_p(): a format cut to n characters.                                 *)
Format(n, text) == NewInPool(n, Terminated(Cut(text, n)), Cut(text, n))

(* s_wrap() of a buffer of n bytes, s_view() of a C string.                 *)
WrapBuffer(n, text) ==
    /\ Outside \notin live /\ n > 0
    /\ \/ text = <<>>
       \/ Len(text) = n - 1
    /\ str' = [str EXCEPT ![Outside] =
                 [len |-> Len(text), cap |-> n - 1, size |-> n,
                  mem |-> Terminated(text), fixed |-> TRUE]]
    /\ value' = [value EXCEPT ![Outside] = text]
    /\ live' = live \cup {Outside}
    /\ UNCHANGED end

(* s_set() and its kin with n the length of the text, s_setfn() with any;   *)
(* s_clear() is the same with an empty text.                                *)
Set(x, n, text) ==
    InPlace(x, n, LAMBDA s : Sized(s, Terminated(Cut(text, n)), Len(Cut(text, n))),
            Cut(text, n))

Reserve(x, n) == InPlace(x, n, LAMBDA s : s, value[x])

(* s_cat(), s_cats(), s_catfa() with n the length of the text, s_catfn()    *)
(* with any: over the null byte, with a new one.                            *)
Cat(x, n, text) ==
    InPlace(x, str[x].len + n,
            LAMBDA s : Sized(s, Write(s.mem, s.len, Terminated(Cut(text, n))),
                             s.len + Len(Cut(text, n))),
            value[x] \o Cut(text, n))

CatNew(x, n, text) ==
    New(str[x].len + n, Write(Text(x), str[x].len, Terminated(Cut(text, n))),
        value[x] \o Cut(text, n))

\* Mutant: the null byte is not moved along.
PreShort(x, text) ==
    InPlace(x, str[x].len + Len(text),
            LAMBDA s : Sized(s, Write(Write(s.mem, Len(text), SubSeq(s.mem, 1, s.len)), 0, text),
                             s.len + Len(text)),
            text \o value[x])

(* s_pre() and its kin: the string is moved with its null byte.             *)
Pre(x, text) ==
    InPlace(x, str[x].len + Len(text),
            LAMBDA s : Sized(s, Write(Write(s.mem, Len(text), s.mem), 0, text),
                             s.len + Len(text)),
            text \o value[x])

PreNew(x, text) ==
    New(str[x].len + Len(text), Write(text, Len(text), str[x].mem), text \o value[x])

(* s_copy_a() and s_copy_p().                                               *)
CopyNew(x) == New(str[x].len, str[x].mem, value[x])

TrimR(x, C) ==
    LET l == RightLength(Text(x), C) IN
    InPlace(x, 0, LAMBDA s : Sized(s, Write(s.mem, l, <<Nul>>), l), TrimRight(value[x], C))

TrimRNew(x, C) ==
    LET l == RightLength(Text(x), C) IN
    New(l, Write(SubSeq(str[x].mem, 1, l), l, <<Nul>>), TrimRight(value[x], C))

TrimL(x, C) ==
    LET o == LeftOffset(Text(x), C) IN
    InPlace(x, 0, LAMBDA s : Sized(s, SubSeq(s.mem, o + 1, s.len + 1), s.len - o),
            TrimLeft(value[x], C))

TrimLNew(x, C) ==
    LET o == LeftOffset(Text(x), C) IN
    New(str[x].len - o, SubSeq(str[x].mem, o + 1, str[x].len + 1), TrimLeft(value[x], C))

(* s_trimlr_a(), s_trimlr_p(): both ends measured before either is cut;     *)
(* s_trimlr() is TrimR and then TrimL.                                      *)
TrimLRNew(x, C) ==
    LET l == RightLength(Text(x), C)
        o == LeftOffset(Text(x), C)
        n == IF o >= l THEN 0 ELSE l - o
    IN New(n, Write(SubSeq(str[x].mem, o + 1, o + n), n, <<Nul>>),
           TrimLeft(TrimRight(value[x], C), C))

(* s_sub(): the bytes are moved to the front.                               *)
SubInPlace(x, a, b) ==
    LET from == Clamped(Text(x), a)
        n == Max({0, Clamped(Text(x), b) - from})
    IN InPlace(x, 0,
               LAMBDA s : Sized(s, Write(Write(s.mem, 0, SubSeq(s.mem, from + 1, from + n)),
                                         n, <<Nul>>), n),
               Sub(value[x], a, b))

SubOutside(x, a, b) ==
    LET from == Clamped(Text(x), a)
        n == Max({0, Clamped(Text(x), b) - from})
    IN NewOutside(n, Write(SubSeq(str[x].mem, from + 1, from + n), n, <<Nul>>),
                  Sub(value[x], a, b))

\* What n bytes of a buffer are: past the null byte at its end, anything.
ReadOn(x, from, n) ==
    {t \in [1..n -> Chars \cup {Nul}] :
        \A i \in 1..n : from + i <= str[x].len + 1 => t[i] = str[x].mem[from + i]}

(* s_sub_p(): positions beyond the length are not brought back to it, and   *)
(* what follows the null byte in the buffer is part of the new string.      *)
SubInPool(x, a, b) ==
    LET from == Max({0, IF a < 0 THEN a + str[x].len ELSE a})
        to == Max({0, IF b < 0 THEN b + str[x].len ELSE b})
        n == Max({0, to - from})
    IN \/ /\ n = 0 \/ to <= str[x].len
          /\ NewInPool(n, Write(SubSeq(str[x].mem, from + 1, from + n), n, <<Nul>>),
                       Sub(value[x], a, b))
       \/ /\ n > 0 /\ to > str[x].len
          /\ \/ to > str[x].size /\ Stop("overread")
             \/ /\ to <= str[x].size /\ n <= MaxLen
                /\ \E t \in ReadOn(x, from, n) : NewInPool(n, Terminated(t), t)

(* s_shrink(): strings of the pool only if they are too long for it.        *)
Shrink(x) ==
    /\ str' = [str EXCEPT ![x] =
                 IF (x \in Slot /\ @.len <= MaxHeld) \/ @.fixed \/ @.cap = @.len
                   THEN @ ELSE Resized(@, @.len)]
    /\ UNCHANGED <<live, value, end>>

(* s_free(), also at the end of s_take() and s_taken(): a slot keeps its    *)
(* buffer, or a smaller one.                                                *)
FreeString(x) ==
    /\ str' = [str EXCEPT ![x] =
                 IF x = Outside THEN Blank
                 ELSE Sized(IF @.cap > MaxHeld THEN Resized(@, MaxHeld) ELSE @, <<Nul>>, 0)]
    /\ live' = live \ {x}
    /\ value' = [value EXCEPT ![x] = <<>>]
    /\ UNCHANGED end

(* s_copy_cn() and s_taken(): into a buffer of n bytes; s_copy_c() and      *)
(* s_take() make one that is large enough.                                  *)
CopiedOut(x, n) ==
    LET m == Min({n, str[x].len + 1}) IN ReplaceAt(SubSeq(str[x].mem, 1, m), m, Nul)

-----------------------------------------------------------------------------
Positions == -1..(MaxLen + 1)

\* No null byte in the text: to C it is as long as its length says.
Plain(x) == Nul \notin ToSet(value[x])

Fits(x, n) == Len(value[x]) + n <= MaxLen

Use(x) ==
    \/ \E text \in Given, n \in 0..MaxLen :
          \/ Set(x, n, text)
          \/ Fits(x, n) /\ (Cat(x, n, text) \/ CatNew(x, n, text))
    \/ \E text \in Given : Fits(x, Len(text)) /\ (Pre(x, text) \/ PreNew(x, text))
    \/ \E y \in live \ {x} :
          \/ Set(x, Len(value[y]), value[y])
          \/ /\ Fits(x, Len(value[y]))
             /\ \/ Cat(x, Len(value[y]), value[y]) \/ CatNew(x, Len(value[y]), value[y])
                \/ Pre(x, value[y]) \/ PreNew(x, value[y])
    \/ \E n \in 0..(MaxLen + 1) : Reserve(x, n)
    \/ \E C \in (SUBSET Chars) \ {{}} :
          \/ TrimR(x, C) \/ TrimL(x, C)
          \/ TrimRNew(x, C) \/ TrimLNew(x, C) \/ TrimLRNew(x, C)
    \/ \E a, b \in Positions : SubInPlace(x, a, b) \/ SubOutside(x, a, b) \/ SubInPool(x, a, b)
    \/ CopyNew(x) \/ Shrink(x) \/ FreeString(x)

Next ==
    \/ /\ end = "none"
       /\ \/ \E x \in live : Use(x)
          \/ \E text \in Given, n \in 0..MaxLen :
                Create(n, text) \/ Format(n, text) \/ WrapBuffer(n, text)
    \/ end # "none" /\ UNCHANGED vars

Spec == Init /\ [][Next]_vars

-----------------------------------------------------------------------------
TypeOK ==
    /\ \A x \in String :
          /\ str[x].len \in 0..MaxLen /\ str[x].cap \in Nat /\ str[x].size \in Nat
          /\ str[x].mem \in Seq(Chars \cup {Nul, Unknown})
          /\ str[x].fixed \in BOOLEAN
    /\ live \subseteq String
    /\ value \in [String -> Held]
    /\ end \in Ends

\* Lexicographic order.
Before(v, w) ==
    \/ IsStrictPrefix(v, w)
    \/ \E i \in DOMAIN v \cap DOMAIN w :
          SubSeq(v, 1, i - 1) = SubSeq(w, 1, i - 1) /\ v[i] < w[i]

(* After any sequence of calls, in every form, a string is what it should   *)
(* be, with its null byte, inside what is allocated for it ("This always    *)
(* has a null byte at the end", string.h), one that s_sub_p() read on too;  *)
(* copies into a C buffer are its beginning with a null byte, and s_cmp()   *)
(* puts the strings without a null byte in their text in their order.       *)
StringsSound ==
    \A x \in live :
        /\ str[x].mem = Terminated(value[x]) /\ str[x].len = Len(value[x])
        /\ str[x].len <= str[x].cap /\ str[x].cap < str[x].size
        /\ \A n \in 1..(MaxLen + 1) : CopiedOut(x, n) = Terminated(Cut(value[x], n - 1))
        /\ \A y \in live : Plain(x) /\ Plain(y) =>
              LET c == Compare(str[x].mem, str[y].mem, Min({str[x].len, str[y].len})) IN
              /\ c < 0 <=> Before(value[x], value[y])
              /\ c = 0 <=> value[x] = value[y]

(* "Creates a substring of s from [start,end)" (string.h, of each form of   *)
(* s_sub()): what is made of strings without null bytes has none, and every *)
(* string is as long as C finds it.  Not so for s_sub_p() at this commit.   *)
LengthIsOfText == \A x \in live : Plain(x)

(* No call reads or writes where there is no buffer.  Not so at this        *)
(* commit: s_new_p(0) of a slot that was never used has no byte to clear,   *)
(* and s_sub_p() takes positions beyond the end as they are.                *)
NoUndefined == end \notin {"null_write", "overread"}
=============================================================================
