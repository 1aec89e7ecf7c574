---------------------------- MODULE StreamsProofs ----------------------------
(***************************************************************************)
(* Theorems about the strings of the library, for every pool and every      *)
(* text; and about its streams and the recipe files that derivative.c       *)
(* writes and reads through them, for every recipe, every width of its      *)
(* numbers and every place where the file is cut off.                       *)
(***************************************************************************)
EXTENDS CommonProofs

(* A string: what a buffer has to hold, and what there has to be for it.    *)
(* s_sub_p() makes null bytes part of a text.                               *)
Byte == Chars \cup {0}
TextOver == Seq(Byte)

Holds(mem, v) ==
    /\ Len(mem) \in Nat /\ Len(mem) >= Len(v) + 1
    /\ \A i \in 1..(Len(v) + 1) : mem[i] = Dynamic!Terminated(v)[i]

Fields(s) == [len |-> s.len, cap |-> s.cap, size |-> s.size, mem |-> s.mem, fixed |-> s.fixed]

IsString(s) ==
    /\ s = Fields(s)
    /\ s.cap \in Nat /\ s.size \in Nat
    /\ s.size = 0 \/ s.cap < s.size

Good(s, v) ==
    /\ s.mem = Dynamic!Terminated(v) /\ s.len = Len(v)
    /\ s.len <= s.cap /\ s.cap < s.size

\* The slots that are not in use matter too: they keep their buffers.
StringInv ==
    /\ live \subseteq Dynamic!String
    /\ DOMAIN str = Dynamic!String /\ str = [x \in Dynamic!String |-> str[x]]
    /\ DOMAIN value = Dynamic!String /\ value = [x \in Dynamic!String |-> value[x]]
    /\ \A x \in Dynamic!String : IsString(str[x])
    /\ \A x \in live : value[x] \in TextOver /\ Good(str[x], value[x])

LEMMA TextIs ==
    ASSUME NEW v \in TextOver
    PROVE  /\ Len(v) \in Nat /\ v \in Seq(Nat)
           /\ \A i \in 1..Len(v) : v[i] \in Byte /\ v[i] \in Nat
<1>1. Len(v) \in Nat /\ \A i \in 1..Len(v) : v[i] \in Byte
  BY LenProperties, ElementOfSeq DEF TextOver
<1>2. \A i \in 1..Len(v) : v[i] \in Nat
  <2>1. Byte \subseteq Nat
    BY StringBounds DEF Byte
  <2> HIDE DEF Byte
  <2> QED BY <1>1, <2>1
<1>3. v = [i \in 1..Len(v) |-> v[i]]
  BY DEF TextOver
<1>4. v \in Seq(Nat)
  BY <1>1, <1>2, <1>3
<1> QED BY <1>1, <1>2, <1>4

LEMMA TermIs ==
    ASSUME NEW v \in TextOver
    PROVE  /\ Dynamic!Terminated(v) \in Seq(Nat)
           /\ Len(Dynamic!Terminated(v)) = Len(v) + 1
           /\ \A i \in 1..Len(v) : Dynamic!Terminated(v)[i] = v[i]
           /\ Dynamic!Terminated(v)[Len(v) + 1] = 0
<1>1. v \in Seq(Nat) /\ 0 \in Nat
  BY TextIs
<1> QED BY <1>1, AppendProperties DEF Dynamic!Terminated, Dynamic!Nul

LEMMA SizedIs ==
    ASSUME NEW s, IsString(s), NEW v \in TextOver, NEW mem, Holds(mem, v)
    PROVE  /\ IsString(Dynamic!Sized(s, mem, Len(v)))
           /\ Dynamic!Sized(s, mem, Len(v)).mem = Dynamic!Terminated(v)
           /\ Dynamic!Sized(s, mem, Len(v)).len = Len(v)
           /\ Dynamic!Sized(s, mem, Len(v)).cap = s.cap
           /\ Dynamic!Sized(s, mem, Len(v)).size = s.size
<1> DEFINE l == Len(v)
           m == [i \in 1..(l + 1) |-> IF i <= Len(mem) THEN mem[i] ELSE Dynamic!Unknown]
           t == Dynamic!Terminated(v)
<1>1. l \in Nat
  BY TextIs
<1>2. m = t
  <2>1. t \in Seq(Nat) /\ Len(t) = l + 1
    BY TermIs
  <2>2. \A i \in 1..(l + 1) : mem[i] = t[i] /\ i <= Len(mem)
    BY <1>1 DEF Holds
  <2>3. DOMAIN t = 1..(l + 1) /\ t = [i \in 1..(l + 1) |-> t[i]]
    <3> HIDE DEF t, l
    <3> QED BY <1>1, <2>1
  <2>4. m = [i \in 1..(l + 1) |-> t[i]]
    <3> HIDE DEF t, l
    <3> QED BY <2>2
  <2> QED BY <2>3, <2>4
<1>3. Dynamic!Sized(s, mem, l) = [s EXCEPT !.mem = m, !.len = l]
  BY DEF Dynamic!Sized
<1> HIDE DEF m, t, l
<1>4. Dynamic!Sized(s, mem, l) =
        [len |-> l, cap |-> s.cap, size |-> s.size, mem |-> m, fixed |-> s.fixed]
  BY <1>3 DEF IsString, Fields
<1>5. /\ IsString(Dynamic!Sized(s, mem, l))
      /\ Dynamic!Sized(s, mem, l).mem = t /\ Dynamic!Sized(s, mem, l).len = l
      /\ Dynamic!Sized(s, mem, l).cap = s.cap /\ Dynamic!Sized(s, mem, l).size = s.size
  BY <1>2, <1>4 DEF IsString, Fields
<1> QED BY <1>5 DEF t, l

LEMMA ResizedIs ==
    ASSUME NEW s, IsString(s), NEW n \in Nat
    PROVE  LET r == Dynamic!Resized(s, n) IN
           /\ IsString(r) /\ r.cap = n /\ r.cap < r.size
           /\ r.mem = s.mem /\ r.len = s.len
<1> DEFINE r == Dynamic!Resized(s, n)
<1>1. r = [s EXCEPT !.cap = n, !.size = n + 1]
  BY DEF Dynamic!Resized
<1>2. r = [len |-> s.len, cap |-> n, size |-> n + 1, mem |-> s.mem, fixed |-> s.fixed]
  <2> HIDE DEF r
  <2> QED BY <1>1 DEF IsString, Fields
<1> HIDE DEF r
<1>3. /\ IsString(r) /\ r.cap = n /\ r.cap < r.size
      /\ r.mem = s.mem /\ r.len = s.len
  BY <1>2 DEF IsString, Fields
<1> QED BY <1>3 DEF r

LEMMA ReservedIs ==
    ASSUME NEW s, IsString(s), s.cap < s.size, NEW n \in Nat
    PROVE  LET r == Dynamic!Reserved(s, n) IN
           /\ IsString(r) /\ n <= r.cap /\ s.cap <= r.cap /\ r.cap < r.size
           /\ r.mem = s.mem /\ r.len = s.len
<1>1. s.cap \in Nat
  BY DEF IsString
<1>2. CASE s.cap >= n
  <2>1. Dynamic!Reserved(s, n) = s
    BY <1>2 DEF Dynamic!Reserved
  <2> QED BY <1>1, <1>2, <2>1
<1>3. CASE ~(s.cap >= n)
  <2> DEFINE c == Dynamic!BitCeil(n)
  <2>1. c \in Nat /\ c >= n
    BY CeilIs
  <2>2. Dynamic!Reserved(s, n) = Dynamic!Resized(s, c)
    BY <1>3 DEF Dynamic!Reserved
  <2> DEFINE r == Dynamic!Resized(s, c)
  <2>3. /\ IsString(r) /\ r.cap = c /\ r.cap < r.size
        /\ r.mem = s.mem /\ r.len = s.len
    <3> HIDE DEF c
    <3> QED BY <2>1, ResizedIs
  <2>4. s.cap <= c
    BY <1>1, <1>3, <2>1
  <2> HIDE DEF c, r
  <2>5. /\ n <= r.cap /\ s.cap <= r.cap
    BY <2>1, <2>3, <2>4
  <2> QED BY <2>2, <2>3, <2>5 DEF r
<1> QED BY <1>2, <1>3

(* An operation sets one string and leaves the others alone.                *)
LEMMA OneSet ==
    ASSUME StringInv, NEW x \in Dynamic!String, live' = live \cup {x},
           NEW s, NEW v \in TextOver, IsString(s), Good(s, v),
           str' = [str EXCEPT ![x] = s], value' = [value EXCEPT ![x] = v]
    PROVE  StringInv'
<1>1. Dynamic!String' = Dynamic!String
  BY DEF Dynamic!String, Dynamic!Slot, Dynamic!Outside
<1>2. str' = [y \in Dynamic!String |-> IF y = x THEN s ELSE str[y]]
  BY DEF StringInv
<1>3. value' = [y \in Dynamic!String |-> IF y = x THEN v ELSE value[y]]
  BY DEF StringInv
<1>4. live' \subseteq Dynamic!String /\ DOMAIN str' = Dynamic!String
      /\ str' = [y \in Dynamic!String |-> str'[y]]
      /\ DOMAIN value' = Dynamic!String /\ value' = [y \in Dynamic!String |-> value'[y]]
  BY <1>2, <1>3 DEF StringInv
<1>5. \A y \in Dynamic!String : IsString(str'[y])
  <2> TAKE y \in Dynamic!String
  <2>1. str'[y] = s \/ str'[y] = str[y]
    BY <1>2
  <2> QED BY <2>1 DEF StringInv
<1>6. \A y \in live' : value'[y] \in TextOver /\ Good(str'[y], value'[y])
  <2> TAKE y \in live'
  <2>1. y \in Dynamic!String
    BY DEF StringInv
  <2>2. CASE y = x
    BY <1>2, <1>3, <2>1, <2>2
  <2>3. CASE y # x
    <3>1. str'[y] = str[y] /\ value'[y] = value[y] /\ y \in live
      BY <1>2, <1>3, <2>1, <2>3
    <3> QED BY <3>1 DEF StringInv
  <2> QED BY <2>2, <2>3
<1> QED BY <1>1, <1>4, <1>5, <1>6 DEF StringInv, Good, IsString, Fields, Dynamic!Terminated, TextOver

LEMMA NoneSet ==
    ASSUME StringInv, UNCHANGED <<str, live, value>>
    PROVE  StringInv'
<1>1. Dynamic!String' = Dynamic!String
  BY DEF Dynamic!String, Dynamic!Slot, Dynamic!Outside
<1> QED BY <1>1 DEF StringInv, Good, IsString, Fields, Dynamic!Terminated, TextOver

(* An operation in place is right if it puts the new text into the buffer,  *)
(* and reserves as much as that needs.                                      *)
LEMMA InPlaceIs ==
    ASSUME StringInv, NEW x \in live, NEW n \in Nat, NEW v \in TextOver,
           NEW mem, Holds(mem, v), Len(v) <= n \/ Len(v) <= str[x].len,
           \/ UNCHANGED <<str, live, value>>
           \/ /\ str' = [str EXCEPT ![x] =
                            Dynamic!Sized(Dynamic!Reserved(str[x], n), mem, Len(v))]
              /\ value' = [value EXCEPT ![x] = v]
              /\ live' = live
    PROVE  StringInv'
<1> DEFINE r == Dynamic!Reserved(str[x], n)
           s == Dynamic!Sized(r, mem, Len(v))
<1>1. /\ IsString(str[x]) /\ Good(str[x], value[x]) /\ x \in Dynamic!String
      /\ value[x] \in TextOver
  BY DEF StringInv
<1>2. /\ IsString(r) /\ n <= r.cap /\ str[x].cap <= r.cap /\ r.cap < r.size
  BY <1>1, ReservedIs DEF Good
<1>3. IsString(s) /\ s.mem = Dynamic!Terminated(v) /\ s.len = Len(v) /\ s.cap = r.cap
      /\ s.size = r.size
  <2> HIDE DEF r
  <2> QED BY <1>2, SizedIs
<1>4. Good(s, v)
  <2>1. /\ Len(v) \in Nat /\ r.cap \in Nat /\ str[x].cap \in Nat
        /\ str[x].len \in Nat /\ str[x].len <= str[x].cap
    BY <1>1, <1>2, TextIs DEF Good, IsString
  <2>2. Len(v) <= r.cap
    <3> HIDE DEF r
    <3> QED BY <1>2, <2>1
  <2> HIDE DEF r, s
  <2> QED BY <1>2, <1>3, <2>2 DEF Good
<1>5. CASE UNCHANGED <<str, live, value>>
  BY <1>5, NoneSet
<1>6. CASE str' = [str EXCEPT ![x] = s] /\ value' = [value EXCEPT ![x] = v] /\ live' = live
  <2>1. live' = live \cup {x}
    BY <1>6
  <2> HIDE DEF s
  <2> QED BY <1>1, <1>3, <1>4, <1>6, <2>1, OneSet
<1> QED BY <1>5, <1>6

(* The same of a new string, outside the pool or in it.                     *)
LEMMA NewIs ==
    ASSUME StringInv, NEW n \in Nat, NEW v \in TextOver, Len(v) <= n,
           NEW mem, Holds(mem, v),
           Dynamic!NewOutside(n, mem, v) \/ Dynamic!NewInPool(n, mem, v)
    PROVE  StringInv'
<1>1. Len(v) \in Nat
  BY TextIs
<1>2. CASE Dynamic!NewOutside(n, mem, v)
  <2> DEFINE x == Dynamic!Outside
             r == Dynamic!Resized(Dynamic!Blank, n)
             s == Dynamic!Sized(r, mem, Len(v))
  <2>1. x \in Dynamic!String
    BY DEF Dynamic!String
  <2>2. IsString(Dynamic!Blank)
    BY DEF IsString, Fields, Dynamic!Blank
  <2>3. IsString(r) /\ r.cap = n /\ r.cap < r.size
    <3> QED BY <2>2, ResizedIs
  <2>4. /\ IsString(s) /\ s.mem = Dynamic!Terminated(v) /\ s.len = Len(v)
        /\ s.cap = r.cap /\ s.size = r.size
    <3> HIDE DEF r
    <3> QED BY <2>3, SizedIs
  <2>5. Good(s, v)
    <3> HIDE DEF s, r
    <3> QED BY <2>3, <2>4 DEF Good
  <2>6. /\ str' = [str EXCEPT ![x] = s] /\ value' = [value EXCEPT ![x] = v]
        /\ live' = live \cup {x}
    BY <1>2 DEF Dynamic!NewOutside
  <2> HIDE DEF s, r, x
  <2> QED BY <2>1, <2>4, <2>5, <2>6, OneSet
<1>3. CASE Dynamic!NewInPool(n, mem, v)
  <2>1. CASE UNCHANGED <<str, live, value>>
    BY <2>1, NoneSet
  <2>2. CASE ~UNCHANGED <<str, live, value>>
    <3> DEFINE F == Dynamic!FreeSlots
               x == Dynamic!Min(F)
               r == IF str[x].cap < n THEN Dynamic!Resized(str[x], n) ELSE str[x]
               s == Dynamic!Sized(r, mem, Len(v))
    <3>1. /\ F # {} /\ r.size # 0
          /\ str' = [str EXCEPT ![x] = s] /\ value' = [value EXCEPT ![x] = v]
          /\ live' = live \cup {x}
      BY <1>3, <2>2 DEF Dynamic!NewInPool, Dynamic!Stop
    <3>2. x \in Dynamic!String
      <4>1. F \subseteq Nat
        BY StringBounds DEF Dynamic!FreeSlots, Dynamic!Slot
      <4>2. x \in F
        <5> HIDE DEF F
        <5> QED BY <3>1, <4>1, LeastNatural
      <4> QED BY <4>2 DEF Dynamic!FreeSlots, Dynamic!String
    <3> HIDE DEF F, x
    <3>3. IsString(str[x]) /\ str[x].cap \in Nat
      BY <3>2 DEF StringInv, IsString
    <3>4. IsString(r) /\ n <= r.cap
      <4>1. CASE str[x].cap < n
        <5> DEFINE q == Dynamic!Resized(str[x], n)
        <5>1. IsString(q) /\ q.cap = n
          BY <3>3, ResizedIs
        <5>2. r = q
          BY <4>1
        <5> HIDE DEF q, r
        <5> QED BY <5>1, <5>2
      <4>2. CASE ~(str[x].cap < n)
        <5>1. r = str[x]
          BY <4>2
        <5> HIDE DEF r
        <5> QED BY <3>3, <4>2, <5>1
      <4> QED BY <4>1, <4>2
    <3> HIDE DEF r
    <3>5. r.cap < r.size /\ r.cap \in Nat
      BY <3>1, <3>4 DEF IsString
    <3>6. /\ IsString(s) /\ s.mem = Dynamic!Terminated(v) /\ s.len = Len(v)
          /\ s.cap = r.cap /\ s.size = r.size
      BY <3>4, SizedIs
    <3> HIDE DEF s
    <3>7. Good(s, v)
      BY <1>1, <3>4, <3>5, <3>6 DEF Good
    <3> QED BY <3>1, <3>2, <3>6, <3>7, OneSet
  <2> QED BY <2>1, <2>2
<1> QED BY <1>2, <1>3

-----------------------------------------------------------------------------
(* What the operations write is the text they should make.                  *)
LEMMA JoinedText ==
    ASSUME NEW v \in TextOver, NEW w \in TextOver
    PROVE  /\ v \o w \in TextOver /\ Len(v \o w) = Len(v) + Len(w)
           /\ \A i \in 1..Len(v) : (v \o w)[i] = v[i]
           /\ \A i \in (Len(v) + 1)..(Len(v) + Len(w)) : (v \o w)[i] = w[i - Len(v)]
<1>1. v \in Seq(Byte) /\ w \in Seq(Byte)
  BY DEF TextOver
<1>2. /\ v \o w \in Seq(Byte) /\ Len(v \o w) = Len(v) + Len(w)
      /\ \A i \in 1..(Len(v) + Len(w)) :
            (v \o w)[i] = IF i <= Len(v) THEN v[i] ELSE w[i - Len(v)]
  BY <1>1, ConcatProperties
<1>3. Len(v) \in Nat /\ Len(w) \in Nat
  BY TextIs
<1> QED BY <1>2, <1>3 DEF TextOver

\* A part of a text, and of a buffer that holds it.
LEMMA PartOfText ==
    ASSUME NEW v \in TextOver, NEW a \in Nat, NEW b \in Nat, a <= b, b <= Len(v)
    PROVE  /\ SubSeq(v, a + 1, b) \in TextOver /\ Len(SubSeq(v, a + 1, b)) = b - a
           /\ \A i \in 1..(b - a) : SubSeq(v, a + 1, b)[i] = v[a + i]
           /\ Len(SubSeq(Dynamic!Terminated(v), a + 1, b)) = b - a
           /\ \A i \in 1..(b - a) : SubSeq(Dynamic!Terminated(v), a + 1, b)[i] = v[a + i]
<1>1. Len(v) \in Nat /\ v \in Seq(Byte)
  BY TextIs DEF TextOver
<1>2. \A i \in (a + 1)..b : v[i] \in Byte
  BY <1>1, ElementOfSeq
<1>3. a + 1 \in Int /\ b \in Int
  OBVIOUS
<1>4. /\ SubSeq(v, a + 1, b) \in Seq(Byte)
      /\ Len(SubSeq(v, a + 1, b)) = IF a + 1 <= b THEN b - (a + 1) + 1 ELSE 0
      /\ \A i \in 1..(b - (a + 1) + 1) : SubSeq(v, a + 1, b)[i] = v[a + 1 + i - 1]
  BY <1>1, <1>2, <1>3, SubSeqProperties
<1> DEFINE t == Dynamic!Terminated(v)
<1>5. t \in Seq(Nat) /\ Len(t) = Len(v) + 1 /\ \A i \in 1..Len(v) : t[i] = v[i]
  BY TermIs
<1> HIDE DEF t
<1>6. \A i \in (a + 1)..b : t[i] \in Nat
  BY <1>1, <1>5, ElementOfSeq
<1>7. /\ Len(SubSeq(t, a + 1, b)) = IF a + 1 <= b THEN b - (a + 1) + 1 ELSE 0
      /\ \A i \in 1..(b - (a + 1) + 1) : SubSeq(t, a + 1, b)[i] = t[a + 1 + i - 1]
  BY <1>3, <1>5, <1>6, SubSeqProperties
<1>8. \A i \in 1..(b - a) : SubSeq(v, a + 1, b)[i] = v[a + i]
  <2> TAKE i \in 1..(b - a)
  <2>1. i \in 1..(b - (a + 1) + 1) /\ a + 1 + i - 1 = a + i
    OBVIOUS
  <2>2. SubSeq(v, a + 1, b)[i] = v[a + 1 + i - 1]
    BY <1>4, <2>1
  <2> QED BY <2>1, <2>2
<1>9. \A i \in 1..(b - a) : SubSeq(t, a + 1, b)[i] = v[a + i]
  <2> TAKE i \in 1..(b - a)
  <2>1. i \in 1..(b - (a + 1) + 1) /\ a + 1 + i - 1 = a + i /\ a + i \in 1..Len(v)
    BY <1>1
  <2>2. SubSeq(t, a + 1, b)[i] = t[a + 1 + i - 1]
    BY <1>7, <2>1
  <2> QED BY <1>5, <2>1, <2>2
<1>10. (IF a + 1 <= b THEN b - (a + 1) + 1 ELSE 0) = b - a
  OBVIOUS
<1> QED BY <1>4, <1>7, <1>8, <1>9, <1>10 DEF t, TextOver

LEMMA CutIs ==
    ASSUME NEW t \in TextOver, NEW n \in Nat
    PROVE  /\ Dynamic!Cut(t, n) \in TextOver
           /\ Len(Dynamic!Cut(t, n)) <= n
           /\ Len(Dynamic!Cut(t, n)) = IF n <= Len(t) THEN n ELSE Len(t)
           /\ \A i \in 1..Len(Dynamic!Cut(t, n)) : Dynamic!Cut(t, n)[i] = t[i]
<1> DEFINE m == Dynamic!Min({n, Len(t)})
<1>1. Len(t) \in Nat
  BY TextIs
<1>2. m = IF n <= Len(t) THEN n ELSE Len(t)
  BY <1>1, OfTwo
<1>3. Dynamic!Cut(t, n) = SubSeq(t, 0 + 1, m)
  BY DEF Dynamic!Cut
<1> HIDE DEF m
<1>4. m \in Nat /\ 0 <= m /\ m <= Len(t) /\ m <= n
  BY <1>1, <1>2
<1>5. /\ SubSeq(t, 0 + 1, m) \in TextOver /\ Len(SubSeq(t, 0 + 1, m)) = m - 0
      /\ \A i \in 1..(m - 0) : SubSeq(t, 0 + 1, m)[i] = t[0 + i]
  BY <1>4, PartOfText
<1>6. m - 0 = m /\ \A i \in 1..m : 0 + i = i
  BY <1>4
<1> QED BY <1>2, <1>3, <1>4, <1>5, <1>6

LEMMA WriteIs ==
    ASSUME NEW mem, Len(mem) \in Nat, NEW at \in Nat, NEW seq, Len(seq) \in Nat
    PROVE  /\ Len(Dynamic!Write(mem, at, seq)) \in Nat
           /\ Len(Dynamic!Write(mem, at, seq)) >= Len(mem)
           /\ Len(Dynamic!Write(mem, at, seq)) >= at + Len(seq)
           /\ \A i \in 1..Len(Dynamic!Write(mem, at, seq)) :
                 Dynamic!Write(mem, at, seq)[i] =
                    IF i > at /\ i <= at + Len(seq) THEN seq[i - at]
                    ELSE IF i <= Len(mem) THEN mem[i] ELSE Dynamic!Unknown
<1> DEFINE m == Dynamic!Max({Len(mem), at + Len(seq)})
<1>1. m = IF Len(mem) <= at + Len(seq) THEN at + Len(seq) ELSE Len(mem)
  <2>1. Len(mem) \in Int /\ at + Len(seq) \in Int
    OBVIOUS
  <2> DEFINE a == Len(mem)  b == at + Len(seq)
  <2> HIDE DEF a, b
  <2>2. Dynamic!Max({a, b}) = IF a <= b THEN b ELSE a
    BY <2>1, OfTwo DEF a, b
  <2> QED BY <2>2 DEF a, b
<1> HIDE DEF m
<1>2. m \in Nat /\ m >= Len(mem) /\ m >= at + Len(seq)
  BY <1>1
<1>3. Dynamic!Write(mem, at, seq) =
        [i \in 1..m |-> IF i > at /\ i <= at + Len(seq) THEN seq[i - at]
                        ELSE IF i <= Len(mem) THEN mem[i] ELSE Dynamic!Unknown]
  BY DEF Dynamic!Write, m
<1> DEFINE w == Dynamic!Write(mem, at, seq)
<1> HIDE DEF w
<1>4. Len(w) = m
  BY <1>2, <1>3 DEF w
<1> QED BY <1>2, <1>3, <1>4 DEF w

(* Text and null byte written behind a text.                                *)
LEMMA WrittenBehind ==
    ASSUME NEW v \in TextOver, NEW w \in TextOver,
           NEW mem, Len(mem) \in Nat, Len(mem) >= Len(v),
           \A i \in 1..Len(v) : mem[i] = v[i]
    PROVE  Holds(Dynamic!Write(mem, Len(v), Dynamic!Terminated(w)), v \o w)
<1> DEFINE t == Dynamic!Terminated(w)
           h == Dynamic!Write(mem, Len(v), t)
           j == v \o w
           u == Dynamic!Terminated(j)
<1>1. Len(v) \in Nat /\ Len(w) \in Nat
  BY TextIs
<1>2. /\ Len(t) = Len(w) + 1 /\ t[Len(w) + 1] = 0
      /\ \A i \in 1..Len(w) : t[i] = w[i]
  BY TermIs
<1>3. /\ Len(j) = Len(v) + Len(w) /\ j \in TextOver
      /\ \A i \in 1..Len(v) : j[i] = v[i]
      /\ \A i \in (Len(v) + 1)..(Len(v) + Len(w)) : j[i] = w[i - Len(v)]
  BY JoinedText
<1> HIDE DEF j
<1>4. /\ Len(u) = Len(j) + 1 /\ u[Len(j) + 1] = 0
      /\ \A i \in 1..Len(j) : u[i] = j[i]
  BY <1>3, TermIs
<1> HIDE DEF t, u
<1>5. /\ Len(h) \in Nat /\ Len(h) >= Len(v) + Len(t)
      /\ \A i \in 1..Len(h) :
            h[i] = IF i > Len(v) /\ i <= Len(v) + Len(t) THEN t[i - Len(v)]
                   ELSE IF i <= Len(mem) THEN mem[i] ELSE Dynamic!Unknown
  BY <1>1, <1>2, WriteIs
<1> HIDE DEF h
<1>6. ASSUME NEW i \in 1..(Len(j) + 1)
      PROVE  h[i] = u[i]
  <2>1. i \in 1..Len(h) /\ i <= Len(v) + Len(t)
    BY <1>1, <1>2, <1>3, <1>5
  <2>2. CASE i <= Len(v)
    BY <1>1, <1>3, <1>4, <1>5, <2>1, <2>2
  <2>3. CASE i > Len(v) /\ i <= Len(v) + Len(w)
    <3>1. h[i] = t[i - Len(v)] /\ i - Len(v) \in 1..Len(w)
      BY <1>1, <1>5, <2>1, <2>3
    <3>2. i \in 1..Len(j) /\ i \in (Len(v) + 1)..(Len(v) + Len(w))
      BY <1>1, <1>3, <2>3
    <3>3. u[i] = j[i] /\ j[i] = w[i - Len(v)]
      BY <1>3, <1>4, <3>2
    <3> QED BY <1>2, <3>1, <3>3
  <2>4. CASE i = Len(v) + Len(w) + 1
    <3>1. h[i] = t[Len(w) + 1]
      BY <1>1, <1>2, <1>5, <2>1, <2>4
    <3> QED BY <1>2, <1>3, <1>4, <2>4, <3>1
  <2>5. \/ i <= Len(v) \/ (i > Len(v) /\ i <= Len(v) + Len(w))
        \/ i = Len(v) + Len(w) + 1
    BY <1>1, <1>3
  <2> QED BY <2>2, <2>3, <2>4, <2>5
<1>7. Len(h) >= Len(j) + 1
  BY <1>1, <1>2, <1>3, <1>5
<1>8. Holds(h, j)
  BY <1>5, <1>6, <1>7 DEF Holds, u
<1> QED BY <1>8 DEF h, j, t

\* A null byte written at the end of a text.
LEMMA WrittenEnd ==
    ASSUME NEW v \in TextOver, NEW mem, Len(mem) \in Nat, Len(mem) >= Len(v),
           \A i \in 1..Len(v) : mem[i] = v[i]
    PROVE  Holds(Dynamic!Write(mem, Len(v), <<Dynamic!Nul>>), v)
<1>1. <<>> \in TextOver
  BY DEF TextOver
<1>2. Holds(Dynamic!Write(mem, Len(v), Dynamic!Terminated(<<>>)), v \o <<>>)
  BY <1>1, WrittenBehind
<1>3. Dynamic!Terminated(<<>>) = <<Dynamic!Nul>> /\ v \o <<>> = v
  BY ConcatEmptySeq DEF Dynamic!Terminated, TextOver
<1> QED BY <1>2, <1>3

(* A text and its null byte moved along, another one written before it.     *)
LEMMA WrittenBefore ==
    ASSUME NEW v \in TextOver, NEW w \in TextOver
    PROVE  LET t == Dynamic!Terminated(v) IN
           Holds(Dynamic!Write(Dynamic!Write(t, Len(w), t), 0, w), w \o v)
<1> DEFINE t == Dynamic!Terminated(v)
           g == Dynamic!Write(t, Len(w), t)
           h == Dynamic!Write(g, 0, w)
           j == w \o v
           u == Dynamic!Terminated(j)
<1>1. Len(v) \in Nat /\ Len(w) \in Nat
  BY TextIs
<1>2. /\ Len(t) = Len(v) + 1 /\ t[Len(v) + 1] = 0
      /\ \A i \in 1..Len(v) : t[i] = v[i]
  BY TermIs
<1>3. /\ Len(j) = Len(w) + Len(v) /\ j \in TextOver
      /\ \A i \in 1..Len(w) : j[i] = w[i]
      /\ \A i \in (Len(w) + 1)..(Len(w) + Len(v)) : j[i] = v[i - Len(w)]
  BY JoinedText
<1> HIDE DEF j
<1>4. /\ Len(u) = Len(j) + 1 /\ u[Len(j) + 1] = 0
      /\ \A i \in 1..Len(j) : u[i] = j[i]
  BY <1>3, TermIs
<1> HIDE DEF t, u
<1>5. /\ Len(g) \in Nat /\ Len(g) >= Len(w) + Len(t)
      /\ \A i \in 1..Len(g) :
            g[i] = IF i > Len(w) /\ i <= Len(w) + Len(t) THEN t[i - Len(w)]
                   ELSE IF i <= Len(t) THEN t[i] ELSE Dynamic!Unknown
  BY <1>1, <1>2, WriteIs
<1> HIDE DEF g
<1>6. /\ Len(h) \in Nat /\ Len(h) >= Len(g)
      /\ \A i \in 1..Len(h) :
            h[i] = IF i > 0 /\ i <= 0 + Len(w) THEN w[i - 0]
                   ELSE IF i <= Len(g) THEN g[i] ELSE Dynamic!Unknown
  BY <1>1, <1>5, WriteIs
<1> HIDE DEF h
<1>7. ASSUME NEW i \in 1..(Len(j) + 1)
      PROVE  h[i] = u[i]
  <2>1. i \in 1..Len(g) /\ i \in 1..Len(h) /\ i <= Len(w) + Len(t)
    BY <1>1, <1>2, <1>3, <1>5, <1>6
  <2>2. CASE i <= Len(w)
    <3>1. h[i] = w[i]
      BY <1>1, <1>6, <2>1, <2>2
    <3> QED BY <1>1, <1>3, <1>4, <2>2, <3>1
  <2>3. CASE i > Len(w)
    <3>1. h[i] = t[i - Len(w)]
      <4>1. h[i] = g[i]
        BY <1>1, <1>6, <2>1, <2>3
      <4> QED BY <1>5, <2>1, <2>3, <4>1
    <3>2. CASE i <= Len(w) + Len(v)
      <4>1. i - Len(w) \in 1..Len(v)
        BY <1>1, <2>3, <3>2
      <4>2. u[i] = j[i] /\ j[i] = v[i - Len(w)]
        BY <1>1, <1>3, <1>4, <2>3, <3>2
      <4> QED BY <1>2, <3>1, <4>1, <4>2
    <3>3. CASE i = Len(w) + Len(v) + 1
      <4>1. i - Len(w) = Len(v) + 1 /\ i = Len(j) + 1
        BY <1>1, <1>3, <3>3
      <4> QED BY <1>2, <1>4, <3>1, <4>1
    <3> QED BY <1>1, <1>3, <3>2, <3>3
  <2> QED BY <1>1, <2>2, <2>3
<1>8. Len(h) >= Len(j) + 1
  BY <1>1, <1>2, <1>3, <1>5, <1>6
<1>9. Holds(h, j)
  BY <1>6, <1>7, <1>8 DEF Holds, u
<1> QED BY <1>9 DEF h, g, j, t

\* A text and its null byte moved to the front.
LEMMA MovedToFront ==
    ASSUME NEW v \in TextOver, NEW o \in 0..Len(v)
    PROVE  Holds(SubSeq(Dynamic!Terminated(v), o + 1, Len(v) + 1), SubSeq(v, o + 1, Len(v)))
<1> DEFINE t == Dynamic!Terminated(v)
           n == Len(v)
           w == SubSeq(v, o + 1, n)
           u == Dynamic!Terminated(w)
<1>1. n \in Nat /\ o \in Nat /\ o <= n
  BY TextIs
<1>2. /\ t \in Seq(Nat) /\ Len(t) = n + 1 /\ t[n + 1] = 0
      /\ \A i \in 1..n : t[i] = v[i]
  BY TermIs
<1>3. /\ w \in TextOver /\ Len(w) = n - o
      /\ \A i \in 1..(n - o) : w[i] = v[o + i]
  <2> HIDE DEF n
  <2>1. n <= Len(v)
    BY <1>1 DEF n
  <2> QED BY <1>1, <2>1, PartOfText
<1> HIDE DEF w
<1>4. /\ Len(u) = Len(w) + 1 /\ u[Len(w) + 1] = 0
      /\ \A i \in 1..Len(w) : u[i] = w[i]
  BY <1>3, TermIs
<1> HIDE DEF t, u, n
<1>5. \A i \in (o + 1)..(n + 1) : t[i] \in Nat
  BY <1>1, <1>2, ElementOfSeq
<1> DEFINE h == SubSeq(t, o + 1, n + 1)
<1>6. /\ Len(h) = IF o + 1 <= n + 1 THEN (n + 1) - (o + 1) + 1 ELSE 0
      /\ \A i \in 1..((n + 1) - (o + 1) + 1) : h[i] = t[o + 1 + i - 1]
  <2> DEFINE a == o + 1  b == n + 1
  <2>1. a \in Int /\ b \in Int
    BY <1>1
  <2>2. \A i \in a..b : t[i] \in Nat
    BY <1>5
  <2> HIDE DEF a, b
  <2>3. /\ Len(SubSeq(t, a, b)) = IF a <= b THEN b - a + 1 ELSE 0
        /\ \A i \in 1..(b - a + 1) : SubSeq(t, a, b)[i] = t[a + i - 1]
    BY <1>2, <2>1, <2>2, SubSeqProperties
  <2> QED BY <2>3 DEF a, b
<1> HIDE DEF h
<1>7. Len(h) = n - o + 1
  BY <1>1, <1>6
<1>8. ASSUME NEW i \in 1..(Len(w) + 1)
      PROVE  h[i] = u[i]
  <2>1. h[i] = t[o + i]
    <3>1. i \in 1..((n + 1) - (o + 1) + 1) /\ o + 1 + i - 1 = o + i
      BY <1>1, <1>3
    <3>2. h[i] = t[o + 1 + i - 1]
      BY <1>6, <3>1
    <3> QED BY <3>1, <3>2
  <2>2. CASE i <= n - o
    BY <1>1, <1>2, <1>3, <1>4, <2>1, <2>2
  <2>3. CASE i = n - o + 1
    <3>1. o + i = n + 1 /\ i = Len(w) + 1
      BY <1>1, <1>3, <2>3
    <3> QED BY <1>2, <1>4, <2>1, <3>1
  <2> QED BY <1>1, <1>3, <2>2, <2>3
<1>9. Holds(h, w)
  BY <1>1, <1>3, <1>7, <1>8 DEF Holds, u
<1> QED BY <1>9 DEF h, t, n, w

-----------------------------------------------------------------------------
(* Trimming, parts of a text, copies and order.                             *)
LEMMA RightIs ==
    ASSUME NEW v \in TextOver, NEW C
    PROVE  /\ Dynamic!RightLength(v, C) \in 0..Len(v)
           /\ \A i \in (Dynamic!RightLength(v, C) + 1)..Len(v) : v[i] \in C
           /\ Dynamic!RightLength(v, C) > 0 => v[Dynamic!RightLength(v, C)] \notin C
<1> DEFINE S == {0} \cup {i \in DOMAIN v : v[i] \notin C}
<1>1. Len(v) \in Nat /\ DOMAIN v = 1..Len(v)
  BY TextIs DEF TextOver
<1>2. S \subseteq 0..Len(v) /\ S # {}
  BY <1>1
<1>3. Dynamic!Max(S) \in S /\ \A k \in S : k <= Dynamic!Max(S)
  <2> HIDE DEF S
  <2> QED BY <1>1, <1>2, GreatestBelow
<1> DEFINE l == Dynamic!RightLength(v, C)
<1>4. l = Dynamic!Max(S)
  BY DEF Dynamic!RightLength
<1> HIDE DEF l
<1>5. l \in 0..Len(v) /\ (l > 0 => v[l] \notin C)
  BY <1>2, <1>3, <1>4
<1>6. ASSUME NEW i \in (l + 1)..Len(v)
      PROVE  v[i] \in C
  <2>1. i \in DOMAIN v /\ ~(i <= l)
    BY <1>1, <1>5
  <2>2. i \notin S
    <3> HIDE DEF S
    <3> QED BY <1>3, <1>4, <2>1
  <2> QED BY <2>1, <2>2
<1> QED BY <1>5, <1>6 DEF l

LEMMA LeftIs ==
    ASSUME NEW v \in TextOver, NEW C
    PROVE  /\ Dynamic!LeftOffset(v, C) \in 0..Len(v)
           /\ \A i \in 1..Dynamic!LeftOffset(v, C) : v[i] \in C
           /\ Dynamic!LeftOffset(v, C) < Len(v) => v[Dynamic!LeftOffset(v, C) + 1] \notin C
<1> DEFINE S == {Len(v)} \cup {i - 1 : i \in {j \in DOMAIN v : v[j] \notin C}}
<1>1. Len(v) \in Nat /\ DOMAIN v = 1..Len(v)
  BY TextIs DEF TextOver
<1>2. S \subseteq 0..Len(v) /\ S # {}
  <2>1. \A i \in 1..Len(v) : i - 1 \in 0..Len(v)
    BY <1>1
  <2> QED BY <1>1, <2>1
<1>3. Dynamic!Min(S) \in S /\ \A k \in S : Dynamic!Min(S) <= k
  <2> HIDE DEF S
  <2>1. S \subseteq Nat
    BY <1>1, <1>2
  <2> QED BY <1>2, <2>1, LeastNatural
<1> DEFINE o == Dynamic!LeftOffset(v, C)
<1>4. o = Dynamic!Min(S)
  BY DEF Dynamic!LeftOffset
<1> HIDE DEF o
<1>5. o \in 0..Len(v)
  <2> HIDE DEF S
  <2> QED BY <1>2, <1>3, <1>4
<1>6. o < Len(v) => v[o + 1] \notin C
  <2> SUFFICES ASSUME o < Len(v)
               PROVE  v[o + 1] \notin C
    OBVIOUS
  <2>1. PICK i \in {j \in DOMAIN v : v[j] \notin C} : o = i - 1
    BY <1>1, <1>3, <1>4
  <2>2. i = o + 1
    BY <1>1, <1>5, <2>1
  <2> QED BY <2>1, <2>2
<1>7. ASSUME NEW i \in 1..o
      PROVE  v[i] \in C
  <2>1. i \in DOMAIN v /\ ~(o <= i - 1)
    BY <1>1, <1>5
  <2>2. i - 1 \notin S
    <3> HIDE DEF S
    <3> QED BY <1>3, <1>4, <2>1
  <2> QED BY <2>1, <2>2
<1> QED BY <1>5, <1>6, <1>7 DEF o

\* Both ends measured first: the same as one after the other.
LEMMA BothEnds ==
    ASSUME NEW v \in TextOver, NEW C
    PROVE  LET l == Dynamic!RightLength(v, C)
               o == Dynamic!LeftOffset(v, C)
               n == IF o >= l THEN 0 ELSE l - o
           IN /\ n \in Nat /\ o \in Nat /\ o + n <= Len(v)
              /\ Dynamic!TrimLeft(Dynamic!TrimRight(v, C), C) = SubSeq(v, o + 1, o + n)
<1> DEFINE l == Dynamic!RightLength(v, C)
           o == Dynamic!LeftOffset(v, C)
           n == IF o >= l THEN 0 ELSE l - o
           w == SubSeq(v, 0 + 1, l)
           p == Dynamic!LeftOffset(w, C)
           u == SubSeq(w, p + 1, Len(w))
           r == SubSeq(v, o + 1, o + n)
<1>1. /\ l \in 0..Len(v) /\ (l > 0 => v[l] \notin C)
  BY RightIs
<1>2. /\ o \in 0..Len(v) /\ (\A i \in 1..o : v[i] \in C)
      /\ (o < Len(v) => v[o + 1] \notin C)
  BY LeftIs
<1>3. Len(v) \in Nat
  BY TextIs
<1>4. Dynamic!TrimLeft(Dynamic!TrimRight(v, C), C) = u
  BY DEF Dynamic!TrimLeft, Dynamic!TrimRight
<1> HIDE DEF l, o
<1>5. n \in Nat /\ o \in Nat /\ l \in Nat /\ o + n <= Len(v)
  BY <1>1, <1>2, <1>3
<1>6. w \in TextOver /\ Len(w) = l /\ \A i \in 1..l : w[i] = v[i]
  <2>1. 0 \in Nat /\ 0 <= l /\ l <= Len(v)
    BY <1>1, <1>3
  <2>2. /\ w \in TextOver /\ Len(w) = l - 0
        /\ \A i \in 1..(l - 0) : w[i] = v[0 + i]
    BY <1>5, <2>1, PartOfText
  <2> HIDE DEF w
  <2>3. l - 0 = l /\ \A i \in 1..l : 0 + i = i
    BY <1>5
  <2> QED BY <2>2, <2>3
<1> HIDE DEF w
<1>7. /\ p \in 0..l /\ (\A i \in 1..p : w[i] \in C) /\ (p < l => w[p + 1] \notin C)
  BY <1>6, LeftIs
<1> HIDE DEF p
<1>8. /\ u \in TextOver /\ Len(u) = l - p /\ \A i \in 1..(l - p) : u[i] = w[p + i]
  <2>1. p \in Nat /\ p <= Len(w) /\ Len(w) <= Len(w) /\ Len(w) \in Nat
    BY <1>5, <1>6, <1>7
  <2> QED BY <1>6, <2>1, PartOfText
<1>9. /\ r \in TextOver /\ Len(r) = n /\ \A i \in 1..n : r[i] = v[o + i]
  <2> DEFINE b == o + n
  <2>1. b \in Nat /\ o <= b /\ b <= Len(v) /\ b - o = n
    BY <1>5
  <2> HIDE DEF n, b
  <2>2. /\ SubSeq(v, o + 1, b) \in TextOver /\ Len(SubSeq(v, o + 1, b)) = b - o
        /\ \A i \in 1..(b - o) : SubSeq(v, o + 1, b)[i] = v[o + i]
    BY <1>5, <2>1, PartOfText
  <2> QED BY <2>1, <2>2 DEF b
<1> HIDE DEF u, r
<1>10. l - p = n /\ \A i \in 1..n : w[p + i] = v[o + i]
  <2>1. CASE o >= l
    <3>1. l = 0
      <4>1. ~(l > 0)
        <5>1. l > 0 => l \in 1..o
          BY <1>5, <2>1
        <5> QED BY <1>1, <1>2, <5>1
      <4> QED BY <1>5, <4>1
    <3>2. p = 0 /\ n = 0
      BY <1>7, <2>1, <3>1
    <3> QED BY <3>1, <3>2
  <2>2. CASE o < l
    <3>1. p = o
      <4>1. CASE p < o
        <5>1. p + 1 \in 1..o /\ p + 1 \in 1..l /\ p < l
          BY <1>5, <1>7, <2>2, <4>1
        <5> QED BY <1>2, <1>6, <1>7, <5>1
      <4>2. CASE p > o
        <5>1. o + 1 \in 1..p /\ o + 1 \in 1..l /\ o < Len(v)
          BY <1>1, <1>3, <1>5, <1>7, <2>2, <4>2
        <5> QED BY <1>2, <1>6, <1>7, <5>1
      <4> QED BY <1>5, <1>7, <4>1, <4>2
    <3>2. n = l - o
      BY <1>5, <2>2
    <3>3. \A i \in 1..n : o + i \in 1..l
      BY <1>5, <2>2, <3>2
    <3> QED BY <1>6, <3>1, <3>2, <3>3
  <2> QED BY <1>5, <2>1, <2>2
<1>11. u = r
  <2> HIDE DEF n
  <2>1. u \in Seq(Nat) /\ r \in Seq(Nat) /\ Len(u) = Len(r)
    BY <1>8, <1>9, <1>10, TextIs
  <2>2. \A i \in 1..Len(u) : u[i] = r[i]
    BY <1>8, <1>9, <1>10
  <2> QED BY <2>1, <2>2, SameText
<1> QED BY <1>4, <1>5, <1>11 DEF r, o, l

LEMMA ClampedIs ==
    ASSUME NEW v \in TextOver, NEW k \in Int
    PROVE  LET m == IF k < 0 THEN k + Len(v) ELSE k IN
           Dynamic!Clamped(v, k) = IF m < 0 THEN 0 ELSE IF m <= Len(v) THEN m ELSE Len(v)
<1> DEFINE m == IF k < 0 THEN k + Len(v) ELSE k
           q == Dynamic!Min({m, Len(v)})
<1>1. Len(v) \in Nat /\ m \in Int
  BY TextIs
<1>2. Dynamic!Clamped(v, k) = Dynamic!Max({0, q})
  BY DEF Dynamic!Clamped
<1> HIDE DEF m
<1>3. q = IF m <= Len(v) THEN m ELSE Len(v)
  BY <1>1, OfTwo
<1> HIDE DEF q
<1>4. q \in Int
  BY <1>1, <1>3
<1>5. Dynamic!Max({0, q}) = IF 0 <= q THEN q ELSE 0
  BY <1>4, OfTwo
<1>6. Dynamic!Clamped(v, k) = IF m < 0 THEN 0 ELSE IF m <= Len(v) THEN m ELSE Len(v)
  BY <1>1, <1>2, <1>3, <1>5
<1> QED BY <1>6 DEF m

LEMMA SubIs ==
    ASSUME NEW v \in TextOver, NEW a \in Int, NEW b \in Int
    PROVE  LET from == Dynamic!Clamped(v, a)
               n == Dynamic!Max({0, Dynamic!Clamped(v, b) - from})
           IN /\ from \in Nat /\ n \in Nat /\ from + n <= Len(v)
              /\ n = IF from <= Dynamic!Clamped(v, b) THEN Dynamic!Clamped(v, b) - from ELSE 0
              /\ Dynamic!Sub(v, a, b) = SubSeq(v, from + 1, from + n)
<1> DEFINE f == Dynamic!Clamped(v, a)
           t == Dynamic!Clamped(v, b)
           n == Dynamic!Max({0, t - f})
<1>1. Len(v) \in Nat
  BY TextIs
<1>2. f \in 0..Len(v) /\ t \in 0..Len(v)
  BY <1>1, ClampedIs
<1>3. Dynamic!Sub(v, a, b) = SubSeq(v, f + 1, t)
  BY DEF Dynamic!Sub
<1> HIDE DEF f, t
<1>4. n = IF f <= t THEN t - f ELSE 0
  <2> DEFINE d == t - f
  <2>1. d \in Int
    BY <1>2
  <2> HIDE DEF d
  <2>2. Dynamic!Max({0, d}) = IF 0 <= d THEN d ELSE 0
    BY <2>1, OfTwo
  <2> QED BY <1>2, <2>2 DEF d
<1> HIDE DEF n
<1>5. f \in Nat /\ n \in Nat /\ f + n <= Len(v)
  BY <1>1, <1>2, <1>4
<1>6. SubSeq(v, f + 1, t) = SubSeq(v, f + 1, f + n)
  <2>1. CASE f <= t
    <3>1. f + n = t
      BY <1>2, <1>4, <2>1
    <3> QED BY <3>1
  <2>2. CASE ~(f <= t)
    <3>1. /\ f + 1 \in Int /\ t \in Int /\ t < f + 1
          /\ f + n \in Int /\ f + n < f + 1
      BY <1>2, <1>4, <2>2
    <3> QED BY <3>1, SubSeqEmpty
  <2> QED BY <2>1, <2>2
<1> QED BY <1>3, <1>4, <1>5, <1>6 DEF f, t, n

LEMMA CopiedOutIs ==
    ASSUME NEW x, NEW v \in TextOver, Good(str[x], v), NEW n \in Nat \ {0}
    PROVE  Dynamic!CopiedOut(x, n) = Dynamic!Terminated(Dynamic!Cut(v, n - 1))
<1> DEFINE t == Dynamic!Terminated(v)
           m == Dynamic!Min({n, Len(v) + 1})
           s == SubSeq(t, 1, m)
           c == Dynamic!Cut(v, n - 1)
           u == Dynamic!Terminated(c)
           r == [s EXCEPT ![m] = 0]
<1>1. Len(v) \in Nat /\ n - 1 \in Nat
  BY TextIs
<1>2. m = IF n <= Len(v) + 1 THEN n ELSE Len(v) + 1
  <2>1. n \in Int /\ Len(v) + 1 \in Int
    BY <1>1
  <2> QED BY <2>1, OfTwo
<1>3. t \in Seq(Nat) /\ Len(t) = Len(v) + 1 /\ \A i \in 1..Len(v) : t[i] = v[i]
  BY TermIs
<1>4. Dynamic!CopiedOut(x, n) = r
  BY DEF Dynamic!CopiedOut, Dynamic!ReplaceAt, Dynamic!Nul, Good
<1> HIDE DEF m, t
<1>5. m \in 1..(Len(v) + 1)
  BY <1>1, <1>2
<1>6. s \in Seq(Nat) /\ Len(s) = m /\ \A i \in 1..m : s[i] = t[i]
  <2>1. 1 \in Int /\ m \in Int /\ \A i \in 1..m : t[i] \in Nat
    BY <1>1, <1>3, <1>5, ElementOfSeq
  <2>2. /\ s \in Seq(Nat) /\ Len(s) = IF 1 <= m THEN m - 1 + 1 ELSE 0
        /\ \A i \in 1..(m - 1 + 1) : s[i] = t[1 + i - 1]
    BY <2>1, SubSeqProperties
  <2> HIDE DEF s
  <2>3. \A i \in 1..m : i \in 1..(m - 1 + 1) /\ 1 + i - 1 = i
    BY <1>5
  <2>4. \A i \in 1..m : s[i] = t[i]
    <3> TAKE i \in 1..m
    <3>1. s[i] = t[1 + i - 1]
      BY <2>2, <2>3
    <3> QED BY <2>3, <3>1
  <2> QED BY <1>5, <2>2, <2>4
<1>7. c \in TextOver /\ Len(c) = m - 1 /\ \A i \in 1..Len(c) : c[i] = v[i]
  <2>1. /\ c \in TextOver /\ Len(c) = IF n - 1 <= Len(v) THEN n - 1 ELSE Len(v)
        /\ \A i \in 1..Len(c) : c[i] = v[i]
    BY <1>1, CutIs
  <2> HIDE DEF c
  <2> QED BY <1>1, <1>2, <2>1
<1> HIDE DEF s, c
<1>8. /\ u \in Seq(Nat) /\ Len(u) = Len(c) + 1 /\ u[Len(c) + 1] = 0
      /\ \A i \in 1..Len(c) : u[i] = c[i]
  BY <1>7, TermIs
<1> HIDE DEF u
<1>9. r \in Seq(Nat) /\ Len(r) = m /\ \A j \in 1..m : r[j] = IF j = m THEN 0 ELSE s[j]
  <2>1. m \in 1..Len(s) /\ 0 \in Nat
    BY <1>5, <1>6
  <2> QED BY <1>6, <2>1, ExceptSeq
<1> HIDE DEF r
<1>10. Len(u) = m /\ Len(c) + 1 = m /\ m \in Nat
  BY <1>5, <1>7, <1>8
<1>11. ASSUME NEW i \in 1..Len(r)
       PROVE  r[i] = u[i]
  <2>1. CASE i = m
    BY <1>8, <1>9, <1>10, <2>1
  <2>2. CASE i # m
    <3>1. i \in 1..Len(c) /\ i \in 1..m /\ i \in 1..Len(v)
      BY <1>1, <1>2, <1>9, <1>10, <2>2
    <3>2. r[i] = s[i] /\ s[i] = t[i] /\ t[i] = v[i]
      BY <1>3, <1>6, <1>9, <2>2, <3>1
    <3>3. u[i] = c[i] /\ c[i] = v[i]
      BY <1>7, <1>8, <3>1
    <3> QED BY <3>2, <3>3
  <2> QED BY <2>1, <2>2
<1>12. r = u
  <2>1. Len(r) = Len(u)
    BY <1>9, <1>10
  <2> QED BY <1>8, <1>9, <1>11, <2>1, SameText
<1> QED BY <1>4, <1>12 DEF u, c

-----------------------------------------------------------------------------
(* The order of strings.  Two texts have the same beginning if they agree   *)
(* position by position.                                                    *)
LEMMA SameBeginning ==
    ASSUME NEW v \in TextOver, NEW w \in TextOver, NEW k \in Nat,
           k <= Len(v), k <= Len(w)
    PROVE  SubSeq(v, 1, k) = SubSeq(w, 1, k) <=> \A i \in 1..k : v[i] = w[i]
<1>1. 0 \in Nat /\ 0 <= k
  OBVIOUS
<1> DEFINE p == SubSeq(v, 0 + 1, k)
           q == SubSeq(w, 0 + 1, k)
<1>2. /\ p \in TextOver /\ Len(p) = k - 0 /\ \A i \in 1..(k - 0) : p[i] = v[0 + i]
  BY <1>1, PartOfText
<1>3. /\ q \in TextOver /\ Len(q) = k - 0 /\ \A i \in 1..(k - 0) : q[i] = w[0 + i]
  BY <1>1, PartOfText
<1> HIDE DEF p, q
<1>4. /\ p \in Seq(Nat) /\ q \in Seq(Nat) /\ Len(p) = k /\ Len(q) = k
      /\ \A i \in 1..k : p[i] = v[i] /\ q[i] = w[i]
  <2>1. k - 0 = k /\ \A i \in 1..k : 0 + i = i
    OBVIOUS
  <2> QED BY <1>2, <1>3, <2>1, TextIs
<1>5. ASSUME \A i \in 1..k : v[i] = w[i]
      PROVE  p = q
  <2>1. \A i \in 1..Len(p) : p[i] = q[i]
    BY <1>4, <1>5
  <2> QED BY <1>4, <2>1, SameText
<1>6. p = q <=> \A i \in 1..k : v[i] = w[i]
  BY <1>4, <1>5
<1>7. 0 + 1 = 1
  OBVIOUS
<1> QED BY <1>6, <1>7 DEF p, q

\* Which of two texts comes first is decided where they first differ, or
\* where the shorter one ends; if no null byte is part of them.
LEMMA CompareIs ==
    ASSUME NEW v \in TextOver, NEW w \in TextOver,
           \A i \in 1..Len(v) : v[i] # 0, \A i \in 1..Len(w) : w[i] # 0
    PROVE  LET c == Dynamic!Compare(Dynamic!Terminated(v), Dynamic!Terminated(w),
                                    Dynamic!Min({Len(v), Len(w)})) IN
           /\ c < 0 <=> Dynamic!Before(v, w)
           /\ c = 0 <=> v = w
<1> DEFINE a == Dynamic!Terminated(v)
           b == Dynamic!Terminated(w)
           n == Dynamic!Min({Len(v), Len(w)})
           D == {i \in 1..(n + 1) : a[i] # b[i]}
           c == Dynamic!Compare(a, b, n)
<1>1. Len(v) \in Nat /\ Len(w) \in Nat
  BY TextIs
<1>2. n = IF Len(v) <= Len(w) THEN Len(v) ELSE Len(w)
  <2>1. Len(v) \in Int /\ Len(w) \in Int
    BY <1>1
  <2> QED BY <2>1, OfTwo
<1>3. /\ Len(a) = Len(v) + 1 /\ a[Len(v) + 1] = 0
      /\ \A i \in 1..Len(v) : a[i] = v[i] /\ v[i] \in Nat \ {0}
  <2>1. \A i \in 1..Len(v) : v[i] \in Nat /\ v[i] # 0
    BY TextIs
  <2> QED BY <2>1, TermIs
<1>4. /\ Len(b) = Len(w) + 1 /\ b[Len(w) + 1] = 0
      /\ \A i \in 1..Len(w) : b[i] = w[i] /\ w[i] \in Nat \ {0}
  <2>1. \A i \in 1..Len(w) : w[i] \in Nat /\ w[i] # 0
    BY TextIs
  <2> QED BY <2>1, TermIs
<1>5. c = IF D = {} THEN 0 ELSE a[Dynamic!Min(D)] - b[Dynamic!Min(D)]
  BY DEF Dynamic!Compare
<1> HIDE DEF a, b, c
<1>6. n \in Nat /\ n <= Len(v) /\ n <= Len(w) /\ (n = Len(v) \/ n = Len(w))
  <2> HIDE DEF n
  <2> QED BY <1>1, <1>2
<1> HIDE DEF n
<1>7. \A i \in 1..n : a[i] = v[i] /\ b[i] = w[i] /\ v[i] \in Nat \ {0} /\ w[i] \in Nat \ {0}
  <2>1. \A i \in 1..n : i \in 1..Len(v) /\ i \in 1..Len(w)
    BY <1>1, <1>6
  <2> QED BY <1>3, <1>4, <2>1
<1>8. a[n + 1] \in Nat /\ b[n + 1] \in Nat
      /\ (a[n + 1] = 0 <=> n = Len(v)) /\ (b[n + 1] = 0 <=> n = Len(w))
  <2>1. a[n + 1] \in Nat /\ (a[n + 1] = 0 <=> n = Len(v))
    <3>1. CASE n = Len(v)
      BY <1>3, <3>1
    <3>2. CASE n # Len(v)
      <4>1. n + 1 \in 1..Len(v)
        BY <1>1, <1>6, <3>2
      <4>2. a[n + 1] = v[n + 1] /\ v[n + 1] \in Nat \ {0}
        BY <1>3, <4>1
      <4> QED BY <3>2, <4>2
    <3> QED BY <3>1, <3>2
  <2>2. b[n + 1] \in Nat /\ (b[n + 1] = 0 <=> n = Len(w))
    <3>1. CASE n = Len(w)
      BY <1>4, <3>1
    <3>2. CASE n # Len(w)
      <4>1. n + 1 \in 1..Len(w)
        BY <1>1, <1>6, <3>2
      <4>2. b[n + 1] = w[n + 1] /\ w[n + 1] \in Nat \ {0}
        BY <1>4, <4>1
      <4> QED BY <3>2, <4>2
    <3> QED BY <3>1, <3>2
  <2> QED BY <2>1, <2>2
<1>9. DOMAIN v = 1..Len(v) /\ DOMAIN w = 1..Len(w) /\ v \in Seq(Nat) /\ w \in Seq(Nat)
  BY TextIs DEF TextOver
<1>10. CASE D = {}
  <2>1. \A i \in 1..(n + 1) : a[i] = b[i]
    BY <1>10
  <2>2. a[n + 1] = b[n + 1] /\ \A i \in 1..n : v[i] = w[i]
    <3>1. n + 1 \in 1..(n + 1) /\ \A i \in 1..n : i \in 1..(n + 1)
      BY <1>6
    <3> QED BY <1>7, <2>1, <3>1
  <2>3. n = Len(v) /\ n = Len(w)
    BY <1>6, <1>8, <2>2
  <2>4. v = w
    BY <1>9, <2>2, <2>3, SameText
  <2>5. c = 0
    BY <1>5, <1>10
  <2>6. ~Dynamic!Before(v, w)
    <3>1. \A i \in 1..Len(v) : ~(v[i] < v[i])
      BY <1>3
    <3> QED BY <1>9, <2>4, <3>1 DEF Dynamic!Before, Dynamic!IsStrictPrefix
  <2> QED BY <2>4, <2>5, <2>6 DEF a, b, c, n
<1>11. CASE D # {}
  <2> DEFINE d == Dynamic!Min(D)
  <2>1. d \in D /\ \A k \in D : d <= k
    <3>1. D \subseteq Nat
      BY <1>6
    <3> HIDE DEF D
    <3> QED BY <1>11, <3>1, LeastNatural
  <2>2. c = a[d] - b[d]
    BY <1>5, <1>11
  <2> HIDE DEF d
  <2>3. d \in 1..(n + 1) /\ a[d] # b[d] /\ \A i \in 1..(d - 1) : a[i] = b[i]
    <3>1. d \in 1..(n + 1) /\ a[d] # b[d]
      BY <2>1
    <3>2. \A i \in 1..(d - 1) : a[i] = b[i]
      <4> TAKE i \in 1..(d - 1)
      <4>1. i \in 1..(n + 1) /\ ~(d <= i)
        BY <1>6, <3>1
      <4> QED BY <2>1, <4>1
    <3> QED BY <3>1, <3>2
  <2> HIDE DEF D
  <2>4. \A i \in 1..(d - 1) : v[i] = w[i]
    <3>1. \A i \in 1..(d - 1) : i \in 1..n
      BY <1>6, <2>3
    <3> QED BY <1>7, <2>3, <3>1
  <2>5. v # w
    <3>1. CASE v = w
      <4>1. a = b
        BY <3>1 DEF a, b
      <4> QED BY <2>3, <4>1
    <3> QED BY <3>1
  <2>6. a[d] \in Nat /\ b[d] \in Nat
    <3>1. d \in 1..n \/ d = n + 1
      BY <1>6, <2>3
    <3> QED BY <1>7, <1>8, <3>1
  <2>7. c # 0 /\ (c < 0 <=> a[d] < b[d])
    BY <2>2, <2>3, <2>6
  <2>8. CASE d <= n
    <3>1. a[d] = v[d] /\ b[d] = w[d] /\ d \in DOMAIN v \cap DOMAIN w
          /\ d \in 1..n
      <4>1. d \in 1..n /\ d \in 1..Len(v) /\ d \in 1..Len(w)
        BY <1>1, <1>6, <2>3, <2>8
      <4> QED BY <1>7, <1>9, <4>1
    <3>2. d - 1 \in Nat /\ d - 1 <= Len(v) /\ d - 1 <= Len(w)
      BY <1>1, <1>6, <3>1
    <3>3. a[d] < b[d] => Dynamic!Before(v, w)
      <4>1. SubSeq(v, 1, d - 1) = SubSeq(w, 1, d - 1)
        BY <2>4, <3>2, SameBeginning
      <4> QED BY <3>1, <4>1 DEF Dynamic!Before
    <3>4. ASSUME Dynamic!Before(v, w)
          PROVE  a[d] < b[d]
      <4>1. CASE Dynamic!IsStrictPrefix(v, w)
        <5>1. Len(v) <= Len(w) /\ SubSeq(v, 1, Len(v)) = SubSeq(w, 1, Len(v))
          BY <4>1 DEF Dynamic!IsStrictPrefix, Dynamic!IsPrefix
        <5>2. Len(v) <= Len(v)
          BY <1>1
        <5>3. \A i \in 1..Len(v) : v[i] = w[i]
          BY <1>1, <5>1, <5>2, SameBeginning
        <5>4. v[d] = w[d]
          BY <1>9, <3>1, <5>3
        <5> QED BY <2>3, <3>1, <5>4
      <4>2. ASSUME NEW i \in DOMAIN v \cap DOMAIN w,
                   SubSeq(v, 1, i - 1) = SubSeq(w, 1, i - 1), v[i] < w[i]
            PROVE  a[d] < b[d]
        <5>1. i \in 1..Len(v) /\ i \in 1..Len(w)
          BY <1>9
        <5>2. i - 1 \in Nat /\ i - 1 <= Len(v) /\ i - 1 <= Len(w)
          BY <1>1, <5>1
        <5>3. \A j \in 1..(i - 1) : v[j] = w[j]
          BY <4>2, <5>2, SameBeginning
        <5>4. CASE i < d
          <6>1. i \in 1..(d - 1)
            BY <1>1, <3>1, <5>1, <5>4
          <6>2. v[i] = w[i] /\ v[i] \in Nat
            BY <1>3, <2>4, <5>1, <6>1
          <6> QED BY <4>2, <6>2
        <5>5. CASE i > d
          <6>1. d \in 1..(i - 1)
            BY <1>1, <3>1, <5>1, <5>5
          <6> QED BY <2>3, <3>1, <5>3, <6>1
        <5>6. CASE i = d
          BY <3>1, <4>2, <5>6
        <5> QED BY <1>1, <3>1, <5>1, <5>4, <5>5, <5>6
      <4> QED BY <3>4, <4>1, <4>2 DEF Dynamic!Before
    <3> QED BY <2>5, <2>7, <3>3, <3>4 DEF a, b, c, n
  <2>9. CASE d = n + 1
    <3>1. a[n + 1] # b[n + 1] /\ (c < 0 <=> a[n + 1] < b[n + 1])
      BY <2>3, <2>7, <2>9
    <3>2. \A i \in 1..n : v[i] = w[i]
      <4>1. d - 1 = n
        BY <1>6, <2>9
      <4> QED BY <2>4, <4>1
    <3>3. ~\E i \in DOMAIN v \cap DOMAIN w : v[i] < w[i]
      <4>1. ASSUME NEW i \in DOMAIN v \cap DOMAIN w
            PROVE  ~(v[i] < w[i])
        <5>1. i \in 1..Len(v) /\ i \in 1..Len(w)
          BY <1>9, Zenon
        <5>2. i \in 1..n
          <6>1. n = Len(v) \/ n = Len(w)
            BY <1>6
          <6> QED BY <5>1, <6>1, Zenon
        <5>3. v[i] = w[i] /\ v[i] \in Nat
          BY <1>3, <3>2, <5>1, <5>2
        <5> QED BY <5>3
      <4> QED BY <4>1, Zenon
    <3>4. CASE n = Len(v)
      <4>1. c < 0
        BY <1>8, <3>1, <3>4
      <4>2. Len(v) <= Len(v) /\ Len(v) <= Len(w)
        BY <1>1, <1>6, <3>4
      <4>3. SubSeq(v, 1, Len(v)) = SubSeq(w, 1, Len(v))
        BY <1>1, <3>2, <3>4, <4>2, SameBeginning
      <4>4. Dynamic!Before(v, w)
        BY <2>5, <4>2, <4>3 DEF Dynamic!Before, Dynamic!IsStrictPrefix, Dynamic!IsPrefix
      <4> QED BY <2>5, <2>7, <4>1, <4>4 DEF a, b, c, n
    <3>5. CASE n = Len(w) /\ n # Len(v)
      <4>1. ~(c < 0)
        BY <1>8, <3>1, <3>5
      <4>2. ~(Len(v) <= Len(w))
        BY <1>1, <1>6, <3>5
      <4>3. ~Dynamic!Before(v, w)
        BY <3>3, <4>2 DEF Dynamic!Before, Dynamic!IsStrictPrefix, Dynamic!IsPrefix
      <4> QED BY <2>5, <2>7, <4>1, <4>3 DEF a, b, c, n
    <3> QED BY <1>6, <3>4, <3>5
  <2> QED BY <1>6, <2>3, <2>8, <2>9
<1> QED BY <1>10, <1>11

-----------------------------------------------------------------------------
(* The operations, one by one.                                              *)
LEMMA LiveIs ==
    ASSUME StringInv, NEW x \in live
    PROVE  /\ value[x] \in TextOver /\ Len(value[x]) \in Nat /\ Good(str[x], value[x])
           /\ str[x].mem = Dynamic!Terminated(value[x]) /\ str[x].len = Len(value[x])
           /\ Dynamic!Text(x) = value[x]
           /\ \A n \in Nat : /\ Dynamic!Reserved(str[x], n).mem = str[x].mem
                             /\ Dynamic!Reserved(str[x], n).len = str[x].len
<1> DEFINE v == value[x]
           t == Dynamic!Terminated(v)
           s == SubSeq(t, 1, Len(v))
<1>1. /\ v \in TextOver /\ Good(str[x], v) /\ IsString(str[x])
  BY DEF StringInv
<1>2. str[x].cap < str[x].size /\ str[x].mem = t /\ str[x].len = Len(v)
  BY <1>1 DEF Good
<1>3. \A n \in Nat : /\ Dynamic!Reserved(str[x], n).mem = str[x].mem
                     /\ Dynamic!Reserved(str[x], n).len = str[x].len
  BY <1>1, <1>2, ReservedIs
<1>4. Len(v) \in Nat /\ v \in Seq(Nat)
  BY <1>1, TextIs
<1>5. s = v
  <2>1. t = v \o <<Dynamic!Nul>>
    <3>1. Dynamic!Nul \in Nat
      BY DEF Dynamic!Nul
    <3> QED BY <1>4, <3>1, AppendIsConcat DEF Dynamic!Terminated
  <2>2. CASE v = <<>>
    <3>1. Len(v) = 0
      BY <2>2
    <3>2. s = <<>>
      <4> HIDE DEF t, v
      <4>1. 1 \in Int /\ 0 \in Int /\ 0 < 1
        OBVIOUS
      <4> QED BY <3>1, <4>1, SubSeqEmpty
    <3> QED BY <2>2, <3>2
  <2>3. CASE v # <<>>
    <3> HIDE DEF v
    <3>1. 1 \in 1..Len(v) /\ Len(v) \in 1..Len(v)
      BY <1>4, <2>3, EmptySeq
    <3>2. <<Dynamic!Nul>> \in Seq(Nat)
      BY DEF Dynamic!Nul
    <3>3. SubSeq(v \o <<Dynamic!Nul>>, 1, Len(v)) = SubSeq(v, 1, Len(v))
      BY <1>4, <3>1, <3>2, SubSeqOfConcat1
    <3> QED BY <1>4, <2>1, <3>3, SubSeqFull
  <2> QED BY <2>2, <2>3
<1>6. Dynamic!Text(x) = s
  BY <1>2 DEF Dynamic!Text
<1> QED BY <1>1, <1>2, <1>3, <1>4, <1>5, <1>6

LEMMA TermHolds ==
    ASSUME NEW v \in TextOver
    PROVE  Holds(Dynamic!Terminated(v), v)
<1>1. Len(v) \in Nat /\ Len(Dynamic!Terminated(v)) = Len(v) + 1
  BY TextIs, TermIs
<1> QED BY <1>1 DEF Holds

LEMMA CreateIs ==
    ASSUME StringInv, NEW n \in Nat, NEW v \in TextOver, Dynamic!Create(n, v)
    PROVE  StringInv'
<1>1. Len(v) <= n
  <2>1. Len(<<>>) = 0
    OBVIOUS
  <2> QED BY <2>1 DEF Dynamic!Create
<1>2. Dynamic!NewOutside(n, Dynamic!Terminated(v), v) \/ Dynamic!NewInPool(n, Dynamic!Terminated(v), v)
  BY DEF Dynamic!Create, Dynamic!New
<1> QED BY <1>1, <1>2, TermHolds, NewIs

LEMMA FormatIs ==
    ASSUME StringInv, NEW n \in Nat, NEW w \in TextOver, Dynamic!Format(n, w)
    PROVE  StringInv'
<1> DEFINE v == Dynamic!Cut(w, n)
<1>1. v \in TextOver /\ Len(v) <= n
  BY CutIs
<1>2. Dynamic!NewInPool(n, Dynamic!Terminated(v), v)
  BY DEF Dynamic!Format
<1> HIDE DEF v
<1> QED BY <1>1, <1>2, TermHolds, NewIs

LEMMA WrapBufferIs ==
    ASSUME StringInv, NEW n \in Nat, NEW v \in TextOver, Dynamic!WrapBuffer(n, v)
    PROVE  StringInv'
<1> DEFINE x == Dynamic!Outside
           s == [len |-> Len(v), cap |-> n - 1, size |-> n,
                 mem |-> Dynamic!Terminated(v), fixed |-> TRUE]
<1>1. /\ str' = [str EXCEPT ![x] = s] /\ value' = [value EXCEPT ![x] = v]
      /\ live' = live \cup {x} /\ n > 0 /\ (v = <<>> \/ Len(v) = n - 1)
  BY DEF Dynamic!WrapBuffer
<1>2. x \in Dynamic!String
  BY DEF Dynamic!String
<1>3. n - 1 \in Nat /\ Len(v) \in Nat /\ Len(v) <= n - 1
  <2>1. Len(<<>>) = 0
    OBVIOUS
  <2> QED BY <1>1, <2>1, TextIs
<1>4. IsString(s) /\ Good(s, v)
  BY <1>3 DEF IsString, Fields, Good
<1> HIDE DEF s, x
<1> QED BY <1>1, <1>2, <1>4, OneSet

LEMMA SetIs ==
    ASSUME StringInv, NEW x \in live, NEW n \in Nat, NEW w \in TextOver, Dynamic!Set(x, n, w)
    PROVE  StringInv'
<1> DEFINE v == Dynamic!Cut(w, n)
           t == Dynamic!Terminated(v)
<1>1. v \in TextOver /\ Len(v) <= n
  BY CutIs
<1>2. \/ UNCHANGED <<str, live, value>>
      \/ /\ str' = [str EXCEPT ![x] = Dynamic!Sized(Dynamic!Reserved(str[x], n), t, Len(v))]
         /\ value' = [value EXCEPT ![x] = v]
         /\ live' = live
  BY DEF Dynamic!Set, Dynamic!InPlace, Dynamic!Stop
<1>3. Holds(t, v)
  BY <1>1, TermHolds
<1> HIDE DEF v, t
<1> QED BY <1>1, <1>2, <1>3, InPlaceIs

LEMMA ReserveIs ==
    ASSUME StringInv, NEW x \in live, NEW n \in Nat, Dynamic!Reserve(x, n)
    PROVE  StringInv'
<1> DEFINE v == value[x]
           r == Dynamic!Reserved(str[x], n)
<1>1. v \in TextOver /\ Len(v) \in Nat /\ Good(str[x], v) /\ r.mem = str[x].mem
      /\ r.len = str[x].len
  BY LiveIs
<1>2. IsString(str[x]) /\ x \in Dynamic!String
  BY DEF StringInv
<1>3. IsString(r) /\ str[x].cap <= r.cap /\ r.cap < r.size
  BY <1>1, <1>2, ReservedIs DEF Good
<1>4. \/ UNCHANGED <<str, live, value>>
      \/ str' = [str EXCEPT ![x] = r] /\ value' = [value EXCEPT ![x] = v] /\ live' = live
  BY DEF Dynamic!Reserve, Dynamic!InPlace, Dynamic!Stop
<1> HIDE DEF v, r
<1>5. Good(r, v)
  <2>1. r.cap \in Nat /\ str[x].cap \in Nat
    BY <1>2, <1>3 DEF IsString
  <2> QED BY <1>1, <1>3, <2>1 DEF Good
<1>6. live = live \cup {x}
  OBVIOUS
<1> QED BY <1>1, <1>2, <1>3, <1>4, <1>5, <1>6, NoneSet, OneSet

LEMMA CatIs ==
    ASSUME StringInv, NEW x \in live, NEW n \in Nat, NEW w \in TextOver, Dynamic!Cat(x, n, w)
    PROVE  StringInv'
<1> DEFINE c == Dynamic!Cut(w, n)
           k == str[x].len + n
           r == Dynamic!Reserved(str[x], k)
           v == value[x] \o c
           h == Dynamic!Write(r.mem, r.len, Dynamic!Terminated(c))
<1>1. c \in TextOver /\ Len(c) <= n /\ Len(c) \in Nat
  BY CutIs, TextIs
<1>2. \/ UNCHANGED <<str, live, value>>
      \/ /\ str' = [str EXCEPT ![x] = Dynamic!Sized(r, h, r.len + Len(c))]
         /\ value' = [value EXCEPT ![x] = v]
         /\ live' = live
  BY DEF Dynamic!Cat, Dynamic!InPlace, Dynamic!Stop
<1> HIDE DEF c
<1>3. /\ value[x] \in TextOver /\ Len(value[x]) \in Nat
      /\ str[x].mem = Dynamic!Terminated(value[x]) /\ str[x].len = Len(value[x])
  BY LiveIs
<1>4. k \in Nat
  BY <1>3
<1>5. r.mem = Dynamic!Terminated(value[x]) /\ r.len = Len(value[x])
  <2> HIDE DEF k
  <2> QED BY <1>3, <1>4, LiveIs
<1>6. v \in TextOver /\ Len(v) = Len(value[x]) + Len(c)
  BY <1>1, <1>3, JoinedText
<1>7. Holds(h, v)
  <2>1. /\ Len(r.mem) \in Nat /\ Len(r.mem) >= Len(value[x])
        /\ \A i \in 1..Len(value[x]) : r.mem[i] = value[x][i]
    <3> HIDE DEF r
    <3> QED BY <1>3, <1>5, TermIs
  <2> HIDE DEF r
  <2>2. Holds(Dynamic!Write(r.mem, Len(value[x]), Dynamic!Terminated(c)), v)
    BY <1>1, <1>3, <2>1, WrittenBehind
  <2> QED BY <1>5, <2>2
<1>8. Dynamic!Sized(r, h, r.len + Len(c)) = Dynamic!Sized(r, h, Len(v))
  <2> HIDE DEF r, h, v
  <2> QED BY <1>5, <1>6
<1>9. Len(v) <= k
  <2> HIDE DEF v
  <2> QED BY <1>1, <1>3, <1>6
<1>10. \/ UNCHANGED <<str, live, value>>
       \/ /\ str' = [str EXCEPT ![x] = Dynamic!Sized(Dynamic!Reserved(str[x], k), h, Len(v))]
          /\ value' = [value EXCEPT ![x] = v]
          /\ live' = live
  BY <1>2, <1>8
<1> HIDE DEF v, h, k, r
<1> QED BY <1>4, <1>6, <1>7, <1>9, <1>10, InPlaceIs

LEMMA CatNewIs ==
    ASSUME StringInv, NEW x \in live, NEW n \in Nat, NEW w \in TextOver,
           Dynamic!CatNew(x, n, w)
    PROVE  StringInv'
<1> DEFINE c == Dynamic!Cut(w, n)
           k == str[x].len + n
           v == value[x] \o c
           h == Dynamic!Write(Dynamic!Text(x), str[x].len, Dynamic!Terminated(c))
<1>1. c \in TextOver /\ Len(c) <= n /\ Len(c) \in Nat
  BY CutIs, TextIs
<1>2. Dynamic!NewOutside(k, h, v) \/ Dynamic!NewInPool(k, h, v)
  BY DEF Dynamic!CatNew, Dynamic!New
<1> HIDE DEF c
<1>3. /\ value[x] \in TextOver /\ Len(value[x]) \in Nat /\ str[x].len = Len(value[x])
      /\ Dynamic!Text(x) = value[x]
  BY LiveIs
<1>4. v \in TextOver /\ Len(v) = Len(value[x]) + Len(c)
  BY <1>1, <1>3, JoinedText
<1>5. Holds(h, v)
  <2>1. Len(value[x]) >= Len(value[x])
    BY <1>3
  <2>2. Holds(Dynamic!Write(value[x], Len(value[x]), Dynamic!Terminated(c)), v)
    BY <1>1, <1>3, <2>1, WrittenBehind
  <2> QED BY <1>3, <2>2
<1> HIDE DEF v, h
<1>6. k \in Nat /\ Len(v) <= k
  BY <1>1, <1>3, <1>4
<1> HIDE DEF k
<1> QED BY <1>2, <1>4, <1>5, <1>6, NewIs

LEMMA PreIs ==
    ASSUME StringInv, NEW x \in live, NEW w \in TextOver, Dynamic!Pre(x, w)
    PROVE  StringInv'
<1> DEFINE k == str[x].len + Len(w)
           r == Dynamic!Reserved(str[x], k)
           v == w \o value[x]
           h == Dynamic!Write(Dynamic!Write(r.mem, Len(w), r.mem), 0, w)
<1>1. Len(w) \in Nat
  BY TextIs
<1>2. \/ UNCHANGED <<str, live, value>>
      \/ /\ str' = [str EXCEPT ![x] = Dynamic!Sized(r, h, r.len + Len(w))]
         /\ value' = [value EXCEPT ![x] = v]
         /\ live' = live
  BY DEF Dynamic!Pre, Dynamic!InPlace, Dynamic!Stop
<1>3. /\ value[x] \in TextOver /\ Len(value[x]) \in Nat
      /\ str[x].mem = Dynamic!Terminated(value[x]) /\ str[x].len = Len(value[x])
  BY LiveIs
<1>4. k \in Nat
  BY <1>1, <1>3
<1>5. r.mem = Dynamic!Terminated(value[x]) /\ r.len = Len(value[x])
  <2> HIDE DEF k
  <2> QED BY <1>3, <1>4, LiveIs
<1>6. v \in TextOver /\ Len(v) = Len(w) + Len(value[x])
  BY <1>3, JoinedText
<1>7. Holds(h, v)
  <2> HIDE DEF r
  <2> QED BY <1>3, <1>5, WrittenBefore
<1>8. Dynamic!Sized(r, h, r.len + Len(w)) = Dynamic!Sized(r, h, Len(v))
  <2> HIDE DEF r, h, v
  <2>1. r.len + Len(w) = Len(v)
    BY <1>1, <1>3, <1>5, <1>6
  <2> QED BY <2>1
<1>9. Len(v) <= k
  <2> HIDE DEF v
  <2> QED BY <1>1, <1>3, <1>6
<1>10. \/ UNCHANGED <<str, live, value>>
       \/ /\ str' = [str EXCEPT ![x] = Dynamic!Sized(Dynamic!Reserved(str[x], k), h, Len(v))]
          /\ value' = [value EXCEPT ![x] = v]
          /\ live' = live
  BY <1>2, <1>8
<1> HIDE DEF v, h, k, r
<1> QED BY <1>4, <1>6, <1>7, <1>9, <1>10, InPlaceIs

LEMMA PreNewIs ==
    ASSUME StringInv, NEW x \in live, NEW w \in TextOver, Dynamic!PreNew(x, w)
    PROVE  StringInv'
<1> DEFINE k == str[x].len + Len(w)
           v == w \o value[x]
           h == Dynamic!Write(w, Len(w), str[x].mem)
<1>1. Len(w) \in Nat
  BY TextIs
<1>2. Dynamic!NewOutside(k, h, v) \/ Dynamic!NewInPool(k, h, v)
  BY DEF Dynamic!PreNew, Dynamic!New
<1>3. /\ value[x] \in TextOver /\ Len(value[x]) \in Nat
      /\ str[x].mem = Dynamic!Terminated(value[x]) /\ str[x].len = Len(value[x])
  BY LiveIs
<1>4. v \in TextOver /\ Len(v) = Len(w) + Len(value[x])
  BY <1>3, JoinedText
<1>5. Holds(h, v)
  <2>1. Len(w) >= Len(w)
    BY <1>1
  <2> QED BY <1>1, <1>3, <2>1, WrittenBehind
<1> HIDE DEF v, h
<1>6. k \in Nat /\ Len(v) <= k
  BY <1>1, <1>3, <1>4
<1> HIDE DEF k
<1> QED BY <1>2, <1>4, <1>5, <1>6, NewIs

LEMMA CopyNewIs ==
    ASSUME StringInv, NEW x \in live, Dynamic!CopyNew(x)
    PROVE  StringInv'
<1> DEFINE v == value[x]
           h == str[x].mem
           k == str[x].len
<1>1. v \in TextOver /\ Len(v) \in Nat /\ h = Dynamic!Terminated(v) /\ k = Len(v)
  BY LiveIs
<1>2. Dynamic!NewOutside(k, h, v) \/ Dynamic!NewInPool(k, h, v)
  BY DEF Dynamic!CopyNew, Dynamic!New
<1> HIDE DEF v, h, k
<1>3. Holds(h, v) /\ Len(v) <= k
  BY <1>1, TermHolds
<1> QED BY <1>1, <1>2, <1>3, NewIs

\* A part of a buffer copied and closed.
LEMMA PartHolds ==
    ASSUME NEW v \in TextOver, NEW a \in Nat, NEW n \in Nat, a + n <= Len(v)
    PROVE  LET w == SubSeq(v, a + 1, a + n) IN
           /\ w \in TextOver /\ Len(w) = n
           /\ Holds(Dynamic!Write(SubSeq(Dynamic!Terminated(v), a + 1, a + n), n,
                                  <<Dynamic!Nul>>), w)
           /\ Holds(Dynamic!Write(Dynamic!Write(Dynamic!Terminated(v), 0,
                                      SubSeq(Dynamic!Terminated(v), a + 1, a + n)),
                                  n, <<Dynamic!Nul>>), w)
<1> DEFINE b == a + n
           t == Dynamic!Terminated(v)
           w == SubSeq(v, a + 1, b)
           p == SubSeq(t, a + 1, b)
           g == Dynamic!Write(t, 0, p)
<1>1. b \in Nat /\ a <= b /\ b <= Len(v) /\ b - a = n /\ Len(v) \in Nat
  BY TextIs
<1>2. Len(t) \in Nat /\ Len(t) = Len(v) + 1
  BY <1>1, TermIs
<1> HIDE DEF b
<1>3. /\ w \in TextOver /\ Len(w) = n /\ \A i \in 1..n : w[i] = v[a + i]
      /\ Len(p) = n /\ \A i \in 1..n : p[i] = v[a + i]
  <2>1. /\ w \in TextOver /\ Len(w) = b - a /\ \A i \in 1..(b - a) : w[i] = v[a + i]
        /\ Len(p) = b - a /\ \A i \in 1..(b - a) : p[i] = v[a + i]
    BY <1>1, PartOfText
  <2> HIDE DEF w, p
  <2> QED BY <1>1, <2>1
<1> HIDE DEF w, p, t
<1>4. Holds(Dynamic!Write(p, n, <<Dynamic!Nul>>), w)
  <2>1. Len(p) \in Nat /\ Len(p) >= Len(w) /\ \A i \in 1..Len(w) : p[i] = w[i]
    BY <1>3
  <2>2. Holds(Dynamic!Write(p, Len(w), <<Dynamic!Nul>>), w)
    BY <1>3, <2>1, WrittenEnd
  <2> QED BY <1>3, <2>2
<1>5. Holds(Dynamic!Write(g, n, <<Dynamic!Nul>>), w)
  <2>1. /\ Len(g) \in Nat /\ Len(g) >= 0 + Len(p)
        /\ \A i \in 1..Len(g) :
              g[i] = IF i > 0 /\ i <= 0 + Len(p) THEN p[i - 0]
                     ELSE IF i <= Len(t) THEN t[i] ELSE Dynamic!Unknown
    BY <1>2, <1>3, WriteIs
  <2> HIDE DEF g
  <2>2. Len(g) >= Len(w) /\ \A i \in 1..Len(w) : g[i] = w[i]
    <3>1. Len(g) >= n
      BY <1>3, <2>1
    <3>2. \A i \in 1..n : g[i] = p[i]
      <4> TAKE i \in 1..n
      <4>1. i \in 1..Len(g) /\ i > 0 /\ i <= 0 + Len(p) /\ i - 0 = i
        BY <1>3, <2>1, <3>1
      <4>2. g[i] = p[i - 0]
        BY <2>1, <4>1
      <4> QED BY <4>1, <4>2
    <3> QED BY <1>3, <3>1, <3>2
  <2>3. Holds(Dynamic!Write(g, Len(w), <<Dynamic!Nul>>), w)
    BY <1>3, <2>1, <2>2, WrittenEnd
  <2> QED BY <1>3, <2>3
<1> QED BY <1>3, <1>4, <1>5 DEF b, w, p, t, g

LEMMA TrimRIs ==
    ASSUME StringInv, NEW x \in live, NEW C, Dynamic!TrimR(x, C) \/ Dynamic!TrimRNew(x, C)
    PROVE  StringInv'
<1> DEFINE l == Dynamic!RightLength(Dynamic!Text(x), C)
           v == value[x]
           t == str[x].mem
           r == Dynamic!Reserved(str[x], 0)
           w == SubSeq(v, 1, l)
           h == Dynamic!Write(t, l, <<Dynamic!Nul>>)
           g == Dynamic!Write(SubSeq(t, 1, l), l, <<Dynamic!Nul>>)
<1>1. /\ v \in TextOver /\ Len(v) \in Nat /\ t = Dynamic!Terminated(v) /\ str[x].len = Len(v)
      /\ Dynamic!Text(x) = v
  BY LiveIs
<1>2. r.mem = t
  <2>1. 0 \in Nat
    OBVIOUS
  <2> QED BY <2>1, LiveIs
<1>3. l \in Nat /\ l <= Len(v)
  <2>1. Dynamic!RightLength(v, C) \in 0..Len(v)
    BY <1>1, RightIs
  <2> QED BY <1>1, <2>1
<1>4. Dynamic!TrimRight(v, C) = w
  BY <1>1 DEF Dynamic!TrimRight
<1>5. \/ UNCHANGED <<str, live, value>>
      \/ /\ str' = [str EXCEPT ![x] = Dynamic!Sized(r, Dynamic!Write(r.mem, l, <<Dynamic!Nul>>), l)]
         /\ value' = [value EXCEPT ![x] = Dynamic!TrimRight(v, C)]
         /\ live' = live
      \/ Dynamic!NewOutside(l, g, Dynamic!TrimRight(v, C))
      \/ Dynamic!NewInPool(l, g, Dynamic!TrimRight(v, C))
  BY DEF Dynamic!TrimR, Dynamic!TrimRNew, Dynamic!InPlace, Dynamic!Stop, Dynamic!New
<1> HIDE DEF l, v, t
<1>6. w \in TextOver /\ Len(w) = l /\ Holds(g, w) /\ Holds(h, w)
  <2> DEFINE o == 0
  <2>1. o \in Nat /\ o + l <= Len(v) /\ o + l = l /\ o + 1 = 1
    BY <1>1, <1>3
  <2> HIDE DEF o
  <2>2. /\ SubSeq(v, o + 1, o + l) \in TextOver /\ Len(SubSeq(v, o + 1, o + l)) = l
        /\ Holds(Dynamic!Write(SubSeq(Dynamic!Terminated(v), o + 1, o + l), l,
                               <<Dynamic!Nul>>), SubSeq(v, o + 1, o + l))
    BY <1>1, <1>3, <2>1, PartHolds
  <2>3. w \in TextOver /\ Len(w) = l /\ Holds(g, w)
    BY <1>1, <2>1, <2>2
  <2>4. Len(t) \in Nat /\ Len(t) >= Len(w) /\ \A i \in 1..Len(w) : t[i] = w[i]
    <3>1. \A i \in 1..l : w[i] = v[i]
      <4>1. o <= l /\ l - o = l /\ \A i \in 1..l : o + i = i
        BY <1>3 DEF o
      <4>2. \A i \in 1..(l - o) : SubSeq(v, o + 1, l)[i] = v[o + i]
        BY <1>1, <1>3, <2>1, <4>1, PartOfText
      <4>3. w = SubSeq(v, o + 1, l)
        BY <2>1
      <4> HIDE DEF w
      <4> QED BY <4>1, <4>2, <4>3
    <3>2. Len(t) = Len(v) + 1 /\ \A i \in 1..Len(v) : t[i] = v[i]
      BY <1>1, TermIs
    <3> HIDE DEF w
    <3> QED BY <1>1, <1>3, <2>3, <3>1, <3>2
  <2>5. Holds(Dynamic!Write(t, Len(w), <<Dynamic!Nul>>), w)
    BY <2>3, <2>4, WrittenEnd
  <2> QED BY <2>3, <2>5
<1>7. \/ UNCHANGED <<str, live, value>>
      \/ /\ str' = [str EXCEPT ![x] = Dynamic!Sized(Dynamic!Reserved(str[x], 0), h, Len(w))]
         /\ value' = [value EXCEPT ![x] = w]
         /\ live' = live
      \/ Dynamic!NewOutside(l, g, w) \/ Dynamic!NewInPool(l, g, w)
  BY <1>2, <1>4, <1>5, <1>6
<1>8. 0 \in Nat /\ Len(w) <= l /\ Len(w) <= str[x].len
  BY <1>1, <1>3, <1>6
<1> HIDE DEF w, g, h, r
<1>9. CASE Dynamic!NewOutside(l, g, w) \/ Dynamic!NewInPool(l, g, w)
  BY <1>3, <1>6, <1>8, <1>9, NewIs
<1>10. CASE \/ UNCHANGED <<str, live, value>>
            \/ /\ str' = [str EXCEPT ![x] = Dynamic!Sized(Dynamic!Reserved(str[x], 0), h, Len(w))]
               /\ value' = [value EXCEPT ![x] = w]
               /\ live' = live
  BY <1>6, <1>8, <1>10, InPlaceIs
<1> QED BY <1>7, <1>9, <1>10

LEMMA TrimLIs ==
    ASSUME StringInv, NEW x \in live, NEW C, Dynamic!TrimL(x, C) \/ Dynamic!TrimLNew(x, C)
    PROVE  StringInv'
<1> DEFINE o == Dynamic!LeftOffset(Dynamic!Text(x), C)
           v == value[x]
           t == str[x].mem
           r == Dynamic!Reserved(str[x], 0)
           w == SubSeq(v, o + 1, Len(v))
           h == SubSeq(t, o + 1, Len(v) + 1)
<1>1. /\ v \in TextOver /\ Len(v) \in Nat /\ t = Dynamic!Terminated(v) /\ str[x].len = Len(v)
      /\ Dynamic!Text(x) = v
  BY LiveIs
<1>2. r.mem = t /\ r.len = Len(v)
  <2>1. 0 \in Nat
    OBVIOUS
  <2> QED BY <1>1, <2>1, LiveIs
<1>3. o \in 0..Len(v)
  BY <1>1, LeftIs
<1>4. Dynamic!TrimLeft(v, C) = w
  BY <1>1 DEF Dynamic!TrimLeft
<1>5. \/ UNCHANGED <<str, live, value>>
      \/ /\ str' = [str EXCEPT ![x] = Dynamic!Sized(r, SubSeq(r.mem, o + 1, r.len + 1), r.len - o)]
         /\ value' = [value EXCEPT ![x] = Dynamic!TrimLeft(v, C)]
         /\ live' = live
      \/ Dynamic!NewOutside(str[x].len - o, SubSeq(t, o + 1, str[x].len + 1), Dynamic!TrimLeft(v, C))
      \/ Dynamic!NewInPool(str[x].len - o, SubSeq(t, o + 1, str[x].len + 1), Dynamic!TrimLeft(v, C))
  BY DEF Dynamic!TrimL, Dynamic!TrimLNew, Dynamic!InPlace, Dynamic!Stop, Dynamic!New
<1> HIDE DEF o, v, t
<1>6. w \in TextOver /\ Len(w) = Len(v) - o
  <2>1. o \in Nat /\ o <= Len(v) /\ Len(v) <= Len(v)
    BY <1>1, <1>3
  <2> QED BY <1>1, <2>1, PartOfText
<1>7. Holds(h, w)
  BY <1>1, <1>3, MovedToFront
<1>8. 0 \in Nat /\ Len(v) - o \in Nat /\ Len(w) <= Len(v) - o /\ Len(w) <= str[x].len
  <2> HIDE DEF w
  <2> QED BY <1>1, <1>3, <1>6
<1>9. \/ UNCHANGED <<str, live, value>>
      \/ /\ str' = [str EXCEPT ![x] = Dynamic!Sized(Dynamic!Reserved(str[x], 0), h, Len(w))]
         /\ value' = [value EXCEPT ![x] = w]
         /\ live' = live
      \/ Dynamic!NewOutside(Len(v) - o, h, w) \/ Dynamic!NewInPool(Len(v) - o, h, w)
  BY <1>1, <1>2, <1>4, <1>5, <1>6
<1> HIDE DEF w, h, r
<1>10. CASE Dynamic!NewOutside(Len(v) - o, h, w) \/ Dynamic!NewInPool(Len(v) - o, h, w)
  <2> DEFINE k == Len(v) - o
  <2>1. k \in Nat /\ Len(w) <= k /\ (Dynamic!NewOutside(k, h, w) \/ Dynamic!NewInPool(k, h, w))
    BY <1>8, <1>10
  <2> HIDE DEF k
  <2> QED BY <1>6, <1>7, <2>1, NewIs
<1>11. CASE \/ UNCHANGED <<str, live, value>>
            \/ /\ str' = [str EXCEPT ![x] = Dynamic!Sized(Dynamic!Reserved(str[x], 0), h, Len(w))]
               /\ value' = [value EXCEPT ![x] = w]
               /\ live' = live
  BY <1>6, <1>7, <1>8, <1>11, InPlaceIs
<1> QED BY <1>9, <1>10, <1>11

LEMMA TrimLRIs ==
    ASSUME StringInv, NEW x \in live, NEW C, Dynamic!TrimLRNew(x, C)
    PROVE  StringInv'
<1> DEFINE v == value[x]
           t == str[x].mem
           l == Dynamic!RightLength(v, C)
           o == Dynamic!LeftOffset(v, C)
           n == IF o >= l THEN 0 ELSE l - o
           w == SubSeq(v, o + 1, o + n)
           h == Dynamic!Write(SubSeq(t, o + 1, o + n), n, <<Dynamic!Nul>>)
<1>1. /\ v \in TextOver /\ t = Dynamic!Terminated(v) /\ Dynamic!Text(x) = v
  BY LiveIs
<1>2. /\ n \in Nat /\ o \in Nat /\ o + n <= Len(v)
      /\ Dynamic!TrimLeft(Dynamic!TrimRight(v, C), C) = w
  BY <1>1, BothEnds
<1>3. \/ Dynamic!NewOutside(n, h, Dynamic!TrimLeft(Dynamic!TrimRight(v, C), C))
      \/ Dynamic!NewInPool(n, h, Dynamic!TrimLeft(Dynamic!TrimRight(v, C), C))
  BY <1>1 DEF Dynamic!TrimLRNew, Dynamic!New
<1>4. Dynamic!NewOutside(n, h, w) \/ Dynamic!NewInPool(n, h, w)
  BY <1>2, <1>3
<1> HIDE DEF v, t, l, o, n
<1>5. w \in TextOver /\ Len(w) = n /\ Holds(h, w)
  BY <1>1, <1>2, PartHolds
<1>6. Len(w) <= n
  BY <1>2, <1>5
<1> HIDE DEF w, h
<1> QED BY <1>2, <1>4, <1>5, <1>6, NewIs

LEMMA SubInPlaceIs ==
    ASSUME StringInv, NEW x \in live, NEW a \in Int, NEW b \in Int,
           Dynamic!SubInPlace(x, a, b) \/ Dynamic!SubOutside(x, a, b)
    PROVE  StringInv'
<1> DEFINE v == value[x]
           t == str[x].mem
           r == Dynamic!Reserved(str[x], 0)
           f == Dynamic!Clamped(v, a)
           n == Dynamic!Max({0, Dynamic!Clamped(v, b) - f})
           w == SubSeq(v, f + 1, f + n)
           h == Dynamic!Write(Dynamic!Write(t, 0, SubSeq(t, f + 1, f + n)), n, <<Dynamic!Nul>>)
           g == Dynamic!Write(SubSeq(t, f + 1, f + n), n, <<Dynamic!Nul>>)
<1>1. /\ v \in TextOver /\ t = Dynamic!Terminated(v) /\ Dynamic!Text(x) = v
      /\ str[x].len = Len(v) /\ Len(v) \in Nat
  BY LiveIs
<1>2. f \in Nat /\ n \in Nat /\ f + n <= Len(v) /\ Dynamic!Sub(v, a, b) = w
  BY <1>1, SubIs
<1>3. r.mem = t
  <2>1. 0 \in Nat
    OBVIOUS
  <2> QED BY <2>1, LiveIs
<1>4. \/ UNCHANGED <<str, live, value>>
      \/ /\ str' = [str EXCEPT ![x] =
                Dynamic!Sized(r, Dynamic!Write(Dynamic!Write(r.mem, 0, SubSeq(r.mem, f + 1, f + n)),
                                               n, <<Dynamic!Nul>>), n)]
         /\ value' = [value EXCEPT ![x] = Dynamic!Sub(v, a, b)]
         /\ live' = live
      \/ Dynamic!NewOutside(n, g, Dynamic!Sub(v, a, b))
  BY <1>1 DEF Dynamic!SubInPlace, Dynamic!SubOutside, Dynamic!InPlace, Dynamic!Stop
<1> HIDE DEF v, t, f, n
<1>5. w \in TextOver /\ Len(w) = n /\ Holds(h, w) /\ Holds(g, w)
  BY <1>1, <1>2, PartHolds
<1>6. 0 \in Nat /\ Len(w) <= n /\ Len(w) <= str[x].len
  BY <1>1, <1>2, <1>5
<1>7. \/ UNCHANGED <<str, live, value>>
      \/ /\ str' = [str EXCEPT ![x] = Dynamic!Sized(Dynamic!Reserved(str[x], 0), h, Len(w))]
         /\ value' = [value EXCEPT ![x] = w]
         /\ live' = live
      \/ Dynamic!NewOutside(n, g, w)
  BY <1>2, <1>3, <1>4, <1>5
<1> HIDE DEF w, h, g, r
<1>8. CASE Dynamic!NewOutside(n, g, w)
  BY <1>2, <1>5, <1>6, <1>8, NewIs
<1>9. CASE \/ UNCHANGED <<str, live, value>>
           \/ /\ str' = [str EXCEPT ![x] = Dynamic!Sized(Dynamic!Reserved(str[x], 0), h, Len(w))]
              /\ value' = [value EXCEPT ![x] = w]
              /\ live' = live
  BY <1>5, <1>6, <1>9, InPlaceIs
<1> QED BY <1>7, <1>8, <1>9

\* Positions beyond the end mean the same as the end, or what is read there is
\* the text.
LEMMA SubInPoolIs ==
    ASSUME StringInv, NEW x \in live, NEW a \in Int, NEW b \in Int,
           Dynamic!SubInPool(x, a, b)
    PROVE  StringInv'
<1> DEFINE v == value[x]
           t == str[x].mem
           p == IF a < 0 THEN a + str[x].len ELSE a
           q == IF b < 0 THEN b + str[x].len ELSE b
           f == Dynamic!Max({0, p})
           e == Dynamic!Max({0, q})
           n == Dynamic!Max({0, e - f})
           g == Dynamic!Write(SubSeq(t, f + 1, f + n), n, <<Dynamic!Nul>>)
           w == Dynamic!Sub(v, a, b)
<1>1. /\ v \in TextOver /\ t = Dynamic!Terminated(v)
      /\ str[x].len = Len(v) /\ Len(v) \in Nat
  BY LiveIs
<1>2. \/ UNCHANGED <<str, live, value>>
      \/ (n = 0 \/ e <= str[x].len) /\ Dynamic!NewInPool(n, g, w)
      \/ \E u \in Dynamic!ReadOn(x, f, n) : Dynamic!NewInPool(n, Dynamic!Terminated(u), u)
  BY DEF Dynamic!SubInPool, Dynamic!Stop
<1>3. p \in Int /\ q \in Int
  BY <1>1
<1> DEFINE c == Dynamic!Clamped(v, a)
           d == Dynamic!Clamped(v, b)
           m == Dynamic!Max({0, d - c})
<1>4. /\ c \in Nat /\ m \in Nat /\ c + m <= Len(v)
      /\ m = IF c <= d THEN d - c ELSE 0
      /\ w = SubSeq(v, c + 1, c + m)
  BY <1>1, SubIs
<1>5. /\ c = IF p < 0 THEN 0 ELSE IF p <= Len(v) THEN p ELSE Len(v)
      /\ d = IF q < 0 THEN 0 ELSE IF q <= Len(v) THEN q ELSE Len(v)
  <2>1. /\ c = IF (IF a < 0 THEN a + Len(v) ELSE a) < 0 THEN 0
               ELSE IF (IF a < 0 THEN a + Len(v) ELSE a) <= Len(v)
                      THEN (IF a < 0 THEN a + Len(v) ELSE a) ELSE Len(v)
        /\ d = IF (IF b < 0 THEN b + Len(v) ELSE b) < 0 THEN 0
               ELSE IF (IF b < 0 THEN b + Len(v) ELSE b) <= Len(v)
                      THEN (IF b < 0 THEN b + Len(v) ELSE b) ELSE Len(v)
    BY <1>1, ClampedIs
  <2> QED BY <1>1, <2>1
<1> HIDE DEF c, d, m, w, v, t, p, q
<1>6. f = (IF 0 <= p THEN p ELSE 0) /\ e = (IF 0 <= q THEN q ELSE 0)
  <2>1. ASSUME NEW k \in Int
        PROVE  Dynamic!Max({0, k}) = IF 0 <= k THEN k ELSE 0
    BY OfTwo
  <2> QED BY <1>3, <2>1
<1> HIDE DEF f, e
<1>7. n = IF f <= e THEN e - f ELSE 0
  <2> DEFINE k == e - f
  <2>1. k \in Int
    BY <1>3, <1>6
  <2> HIDE DEF k
  <2>2. Dynamic!Max({0, k}) = IF 0 <= k THEN k ELSE 0
    BY <2>1, OfTwo
  <2> QED BY <1>3, <1>6, <2>2 DEF k
<1> HIDE DEF n
<1>8. n \in Nat /\ f \in Nat /\ e \in Nat
  BY <1>3, <1>6, <1>7
<1>9. CASE UNCHANGED <<str, live, value>>
  BY <1>9, NoneSet
<1>10. CASE n > 0 /\ e <= str[x].len /\ Dynamic!NewInPool(n, g, w)
  <2>1. e <= Len(v) /\ f < e /\ f + n = e
    BY <1>1, <1>7, <1>8, <1>10
  <2>2. c = f /\ d = e
    BY <1>1, <1>3, <1>5, <1>6, <2>1
  <2>3. m = n
    BY <1>4, <1>7, <2>2
  <2>4. w = SubSeq(v, f + 1, f + n) /\ f + n <= Len(v)
    BY <1>4, <2>2, <2>3
  <2>5. w \in TextOver /\ Len(w) = n /\ Holds(g, w)
    BY <1>1, <1>8, <2>4, PartHolds
  <2>6. Len(w) <= n
    BY <1>8, <2>5
  <2> HIDE DEF g
  <2> QED BY <1>8, <1>10, <2>5, <2>6, NewIs
<1>11. CASE n = 0 /\ Dynamic!NewInPool(n, g, w)
  <2>1. e <= f
    BY <1>7, <1>8, <1>11
  <2>2. d <= c
    BY <1>1, <1>3, <1>5, <1>6, <2>1
  <2>3. m = 0
    BY <1>1, <1>3, <1>4, <1>5, <2>2
  <2>4. w = <<>>
    <3>1. c + 1 \in Int /\ c + m \in Int /\ c + m < c + 1
      BY <1>4, <2>3
    <3> QED BY <1>4, <3>1, SubSeqEmpty
  <2>5. SubSeq(t, f + 1, f + n) = <<>>
    <3>1. f + 1 \in Int /\ f + n \in Int /\ f + n < f + 1
      BY <1>8, <1>11
    <3> QED BY <3>1, SubSeqEmpty
  <2>6. w \in TextOver /\ Len(w) = 0 /\ Len(w) <= n
    BY <1>11, <2>4 DEF TextOver
  <2>7. Holds(g, w)
    <3>1. Len(<<>>) \in Nat /\ Len(<<>>) >= Len(w) /\ \A i \in 1..Len(w) : <<>>[i] = w[i]
      BY <2>6
    <3>2. Holds(Dynamic!Write(<<>>, Len(w), <<Dynamic!Nul>>), w)
      BY <2>6, <3>1, WrittenEnd
    <3> QED BY <1>11, <2>5, <2>6, <3>2
  <2> HIDE DEF g
  <2> QED BY <1>8, <1>11, <2>6, <2>7, NewIs
<1>12. CASE \E u \in Dynamic!ReadOn(x, f, n) : Dynamic!NewInPool(n, Dynamic!Terminated(u), u)
  <2>1. PICK u \in Dynamic!ReadOn(x, f, n) : Dynamic!NewInPool(n, Dynamic!Terminated(u), u)
    BY <1>12
  <2>2. u \in [1..n -> Byte]
    BY DEF Dynamic!ReadOn, Dynamic!Nul, Byte
  <2> HIDE DEF g
  <2>3. u \in TextOver /\ Len(u) = n
    <3> HIDE DEF Byte
    <3> QED BY <1>8, <2>2 DEF TextOver
  <2>4. Holds(Dynamic!Terminated(u), u) /\ Len(u) <= n
    BY <1>8, <2>3, TermHolds
  <2> DEFINE h == Dynamic!Terminated(u)
  <2>5. Holds(h, u) /\ Dynamic!NewInPool(n, h, u)
    BY <2>1, <2>4
  <2> HIDE DEF h
  <2> QED BY <1>8, <2>3, <2>4, <2>5, NewIs
<1>13. n = 0 \/ n > 0
  BY <1>8
<1> QED BY <1>2, <1>9, <1>10, <1>11, <1>12, <1>13

LEMMA ShrinkIs ==
    ASSUME StringInv, NEW x \in live, Dynamic!Shrink(x)
    PROVE  StringInv'
<1> DEFINE v == value[x]
           r == Dynamic!Resized(str[x], str[x].len)
           s == IF (x \in Dynamic!Slot /\ str[x].len <= MaxHeld) \/ str[x].fixed \/ str[x].cap = str[x].len
                  THEN str[x] ELSE r
<1>1. /\ v \in TextOver /\ Good(str[x], v) /\ IsString(str[x]) /\ x \in Dynamic!String
  BY DEF StringInv
<1>2. str[x].len \in Nat
  BY LiveIs
<1>3. IsString(r) /\ r.cap = str[x].len /\ r.cap < r.size /\ r.mem = str[x].mem
      /\ r.len = str[x].len
  BY <1>1, <1>2, ResizedIs
<1>4. str' = [str EXCEPT ![x] = s] /\ live' = live /\ value' = value
  BY DEF Dynamic!Shrink
<1>5. value' = [value EXCEPT ![x] = v]
  BY <1>1, <1>4 DEF StringInv
<1>6. s = str[x] \/ s = r
  OBVIOUS
<1> HIDE DEF s, r
<1>7. Good(r, v)
  BY <1>1, <1>2, <1>3 DEF Good
<1>8. IsString(s) /\ Good(s, v)
  BY <1>1, <1>3, <1>6, <1>7
<1>9. live' = live \cup {x}
  BY <1>4
<1> HIDE DEF v
<1> QED BY <1>1, <1>4, <1>5, <1>8, <1>9, OneSet

LEMMA FreeStringIs ==
    ASSUME StringInv, NEW x \in live, Dynamic!FreeString(x)
    PROVE  StringInv'
<1> DEFINE q == IF str[x].cap > MaxHeld THEN Dynamic!Resized(str[x], MaxHeld) ELSE str[x]
           s == IF x = Dynamic!Outside THEN Dynamic!Blank
                ELSE Dynamic!Sized(q, <<Dynamic!Nul>>, 0)
           v == <<>>
<1>1. /\ str' = [str EXCEPT ![x] = s] /\ live' = live \ {x}
      /\ value' = [value EXCEPT ![x] = v]
  BY DEF Dynamic!FreeString
<1>2. IsString(str[x]) /\ x \in Dynamic!String
  BY DEF StringInv
<1>3. IsString(q)
  <2>1. IsString(Dynamic!Resized(str[x], MaxHeld))
    BY <1>2, StringBounds, ResizedIs
  <2>2. q = Dynamic!Resized(str[x], MaxHeld) \/ q = str[x]
    OBVIOUS
  <2> HIDE DEF q
  <2> QED BY <1>2, <2>1, <2>2
<1>4. IsString(Dynamic!Sized(q, <<Dynamic!Nul>>, 0))
  <2> DEFINE u == <<>>
             h == Dynamic!Terminated(u)
  <2>1. u \in TextOver /\ Len(u) = 0 /\ h = <<Dynamic!Nul>>
    BY DEF TextOver, Dynamic!Terminated
  <2>2. Holds(h, u)
    BY <2>1, TermHolds
  <2> HIDE DEF q, u, h
  <2>3. IsString(Dynamic!Sized(q, h, Len(u)))
    BY <1>3, <2>1, <2>2, SizedIs
  <2> QED BY <2>1, <2>3
<1>5. IsString(s)
  <2>1. IsString(Dynamic!Blank)
    BY DEF IsString, Fields, Dynamic!Blank
  <2>2. s = Dynamic!Blank \/ s = Dynamic!Sized(q, <<Dynamic!Nul>>, 0)
    OBVIOUS
  <2> HIDE DEF s, q
  <2> QED BY <1>4, <2>1, <2>2
<1> HIDE DEF s, v, q
<1>6. Dynamic!String' = Dynamic!String
  BY DEF Dynamic!String, Dynamic!Slot, Dynamic!Outside
<1>7. str' = [y \in Dynamic!String |-> IF y = x THEN s ELSE str[y]]
  BY <1>1 DEF StringInv
<1>8. value' = [y \in Dynamic!String |-> IF y = x THEN v ELSE value[y]]
  BY <1>1 DEF StringInv
<1>9. live' \subseteq Dynamic!String /\ DOMAIN str' = Dynamic!String
      /\ str' = [y \in Dynamic!String |-> str'[y]]
      /\ DOMAIN value' = Dynamic!String /\ value' = [y \in Dynamic!String |-> value'[y]]
  BY <1>1, <1>7, <1>8 DEF StringInv
<1>10. \A y \in Dynamic!String : IsString(str'[y])
  <2> TAKE y \in Dynamic!String
  <2>1. str'[y] = s \/ str'[y] = str[y]
    BY <1>7
  <2> QED BY <1>5, <2>1 DEF StringInv
<1>11. \A y \in live' : value'[y] \in TextOver /\ Good(str'[y], value'[y])
  <2> TAKE y \in live'
  <2>1. y \in Dynamic!String /\ y \in live /\ y # x
    BY <1>1 DEF StringInv
  <2>2. str'[y] = str[y] /\ value'[y] = value[y]
    BY <1>7, <1>8, <2>1
  <2> QED BY <2>1, <2>2 DEF StringInv
<1> QED BY <1>6, <1>9, <1>10, <1>11
     DEF StringInv, Good, IsString, Fields, Dynamic!Terminated, TextOver

-----------------------------------------------------------------------------
(* All together.                                                            *)
LEMMA StringInit ==
    ASSUME CommonInit
    PROVE  StringInv
<1>1. Dynamic!Init
  BY DEF CommonInit, StringRests
<1>2. \A x \in Dynamic!String : IsString(Dynamic!Blank)
  BY DEF IsString, Fields, Dynamic!Blank
<1>3. /\ str = [x \in Dynamic!String |-> Dynamic!Blank] /\ live = {}
      /\ value = [x \in Dynamic!String |-> <<>>]
  BY <1>1 DEF Dynamic!Init
<1>4. \A x \in Dynamic!String : str[x] = Dynamic!Blank /\ value[x] = <<>>
  BY <1>3
<1>5. DOMAIN str = Dynamic!String /\ str = [x \in Dynamic!String |-> str[x]]
  BY <1>3
<1>6. DOMAIN value = Dynamic!String /\ value = [x \in Dynamic!String |-> value[x]]
  BY <1>3
<1> QED BY <1>2, <1>3, <1>4, <1>5, <1>6 DEF StringInv

LEMMA GivenIs ==
    ASSUME NEW t \in Dynamic!Given
    PROVE  t \in TextOver
<1>1. PICK m \in 0..MaxLen : t \in [1..m -> Chars]
  BY DEF Dynamic!Given, Dynamic!BoundedSeq, Dynamic!SeqOf
<1>2. m \in Nat
  BY <1>1, StringBounds
<1>3. t \in [1..m -> Byte]
  BY <1>1 DEF Byte
<1> HIDE DEF Byte
<1> QED BY <1>2, <1>3 DEF TextOver

LEMMA UseIs ==
    ASSUME StringInv, NEW x \in live, Dynamic!Use(x)
    PROVE  StringInv'
<1>1. CASE \E t \in Dynamic!Given, n \in 0..MaxLen :
              \/ Dynamic!Set(x, n, t)
              \/ Dynamic!Cat(x, n, t) \/ Dynamic!CatNew(x, n, t)
  <2>1. PICK t \in Dynamic!Given, n \in 0..MaxLen :
              \/ Dynamic!Set(x, n, t)
              \/ Dynamic!Cat(x, n, t) \/ Dynamic!CatNew(x, n, t)
    BY <1>1
  <2>2. n \in Nat /\ t \in TextOver
    BY StringBounds, GivenIs
  <2> QED BY <2>1, <2>2, SetIs, CatIs, CatNewIs
<1>2. CASE \E t \in Dynamic!Given : Dynamic!Pre(x, t) \/ Dynamic!PreNew(x, t)
  <2>1. PICK t \in Dynamic!Given : Dynamic!Pre(x, t) \/ Dynamic!PreNew(x, t)
    BY <1>2
  <2>2. t \in TextOver
    BY GivenIs
  <2> QED BY <2>1, <2>2, PreIs, PreNewIs
<1>6. CASE \E y \in live \ {x} :
              \/ Dynamic!Set(x, Len(value[y]), value[y])
              \/ Dynamic!Cat(x, Len(value[y]), value[y]) \/ Dynamic!CatNew(x, Len(value[y]), value[y])
              \/ Dynamic!Pre(x, value[y]) \/ Dynamic!PreNew(x, value[y])
  <2>1. PICK y \in live \ {x} :
              \/ Dynamic!Set(x, Len(value[y]), value[y])
              \/ Dynamic!Cat(x, Len(value[y]), value[y]) \/ Dynamic!CatNew(x, Len(value[y]), value[y])
              \/ Dynamic!Pre(x, value[y]) \/ Dynamic!PreNew(x, value[y])
    BY <1>6
  <2> DEFINE t == value[y]
             n == Len(t)
  <2>2. n \in Nat /\ t \in TextOver
    BY LiveIs
  <2>3. \/ Dynamic!Set(x, n, t) \/ Dynamic!Cat(x, n, t) \/ Dynamic!CatNew(x, n, t)
        \/ Dynamic!Pre(x, t) \/ Dynamic!PreNew(x, t)
    BY <2>1
  <2> HIDE DEF t, n
  <2> QED BY <2>2, <2>3, SetIs, CatIs, CatNewIs, PreIs, PreNewIs
<1>3. CASE \E n \in 0..(MaxLen + 1) : Dynamic!Reserve(x, n)
  <2>1. PICK n \in 0..(MaxLen + 1) : Dynamic!Reserve(x, n)
    BY <1>3
  <2>2. n \in Nat
    BY StringBounds
  <2> QED BY <2>1, <2>2, ReserveIs
<1>4. CASE \E C \in (SUBSET Chars) \ {{}} :
              \/ Dynamic!TrimR(x, C) \/ Dynamic!TrimL(x, C)
              \/ Dynamic!TrimRNew(x, C) \/ Dynamic!TrimLNew(x, C) \/ Dynamic!TrimLRNew(x, C)
  <2>1. PICK C \in (SUBSET Chars) \ {{}} :
              \/ Dynamic!TrimR(x, C) \/ Dynamic!TrimL(x, C)
              \/ Dynamic!TrimRNew(x, C) \/ Dynamic!TrimLNew(x, C) \/ Dynamic!TrimLRNew(x, C)
    BY <1>4
  <2> QED BY <2>1, TrimRIs, TrimLIs, TrimLRIs
<1>5. CASE \E a, b \in Dynamic!Positions :
              Dynamic!SubInPlace(x, a, b) \/ Dynamic!SubOutside(x, a, b) \/ Dynamic!SubInPool(x, a, b)
  <2>1. PICK a \in Dynamic!Positions, b \in Dynamic!Positions :
              Dynamic!SubInPlace(x, a, b) \/ Dynamic!SubOutside(x, a, b) \/ Dynamic!SubInPool(x, a, b)
    BY <1>5
  <2>2. a \in Int /\ b \in Int
    BY StringBounds DEF Dynamic!Positions
  <2> QED BY <2>1, <2>2, SubInPlaceIs, SubInPoolIs
<1> QED BY <1>1, <1>2, <1>3, <1>4, <1>5, <1>6, CopyNewIs, ShrinkIs, FreeStringIs DEF Dynamic!Use

LEMMA StringKept ==
    ASSUME StringInv, [CommonNext]_commonVars
    PROVE  StringInv'
<1>1. CASE UNCHANGED <<str, live, value>>
  BY <1>1, NoneSet
<1>2. CASE Dynamic!Next
  <2>1. CASE \E x \in live : Dynamic!Use(x)
    BY <2>1, UseIs
  <2>2. CASE \E t \in Dynamic!Given, n \in 0..MaxLen :
                Dynamic!Create(n, t) \/ Dynamic!Format(n, t) \/ Dynamic!WrapBuffer(n, t)
    <3>1. PICK t \in Dynamic!Given, n \in 0..MaxLen :
                Dynamic!Create(n, t) \/ Dynamic!Format(n, t) \/ Dynamic!WrapBuffer(n, t)
      BY <2>2
    <3>2. n \in Nat /\ t \in TextOver
      BY StringBounds, GivenIs
    <3> QED BY <3>1, <3>2, CreateIs, FormatIs, WrapBufferIs
  <2>3. CASE UNCHANGED Dynamic!vars
    BY <1>1, <2>3 DEF Dynamic!vars
  <2> QED BY <1>2, <2>1, <2>2, <2>3 DEF Dynamic!Next
<1>3. CASE CommonNext
  BY <1>1, <1>2, <1>3
     DEF CommonNext, HashingStep, CarStep, StreamStep, StringStep, PathStep, stringVars
<1>4. CASE UNCHANGED commonVars
  BY <1>1, <1>4 DEF commonVars, stringVars
<1> QED BY <1>3, <1>4

(* In every behaviour, and for any pool, characters and bounds: the slots   *)
(* of the pool have sound buffers whether they are in use or not, and a     *)
(* string in use holds its text, which is what the calls should have made   *)
(* or what s_sub_p() read past an end, and the null byte inside what is     *)
(* allocated for it (string.c).                                             *)
THEOREM StringInvariant == CommonSpec => []StringInv
<1> USE DEF CommonSpec
<1>1. CommonInit => StringInv
  BY StringInit
<1>2. StringInv /\ [CommonNext]_commonVars => StringInv'
  BY StringKept
<1> QED BY <1>1, <1>2, PTL

(* After any sequence of calls a string is what it should be, terminated    *)
(* and inside its buffer, also one that s_sub_p() read past the end of      *)
(* another; its copies are its beginnings, and s_cmp() orders any two that  *)
(* have no null byte in their text by their characters (string.c).          *)
THEOREM StringsAreSound == CommonSpec => []StringsSound
<1>1. StringInv => StringsSound
  <2> SUFFICES ASSUME StringInv
               PROVE  StringsSound
    OBVIOUS
  <2>1. ASSUME NEW x \in live
        PROVE  /\ str[x].mem = Dynamic!Terminated(value[x]) /\ str[x].len = Len(value[x])
               /\ str[x].len <= str[x].cap /\ str[x].cap < str[x].size
               /\ value[x] \in TextOver /\ Good(str[x], value[x])
    BY LiveIs DEF Good
  <2>2. ASSUME NEW x \in live, NEW n \in 1..(MaxLen + 1)
        PROVE  Dynamic!CopiedOut(x, n) = Dynamic!Terminated(Dynamic!Cut(value[x], n - 1))
    <3>1. n \in Nat \ {0}
      BY <2>2, StringBounds
    <3> QED BY <2>1, <3>1, CopiedOutIs
  <2>3. ASSUME NEW x \in live, NEW y \in live, Dynamic!Plain(x), Dynamic!Plain(y)
        PROVE  LET c == Dynamic!Compare(str[x].mem, str[y].mem,
                                        Dynamic!Min({str[x].len, str[y].len})) IN
               /\ c < 0 <=> Dynamic!Before(value[x], value[y])
               /\ c = 0 <=> value[x] = value[y]
    <3> DEFINE v == value[x]
               w == value[y]
    <3>1. /\ v \in TextOver /\ str[x].mem = Dynamic!Terminated(v) /\ str[x].len = Len(v)
          /\ w \in TextOver /\ str[y].mem = Dynamic!Terminated(w) /\ str[y].len = Len(w)
      BY <2>1
    <3>4. (\A i \in 1..Len(v) : v[i] # 0) /\ (\A i \in 1..Len(w) : w[i] # 0)
      <4>1. (\A i \in DOMAIN v : v[i] # 0) /\ (\A i \in DOMAIN w : w[i] # 0)
        BY <2>3 DEF Dynamic!Plain, Dynamic!ToSet, Dynamic!Nul
      <4> HIDE DEF v, w
      <4>2. DOMAIN v = 1..Len(v) /\ DOMAIN w = 1..Len(w)
        BY <3>1 DEF TextOver
      <4> QED BY <4>1, <4>2
    <3> HIDE DEF v, w
    <3> DEFINE c == Dynamic!Compare(Dynamic!Terminated(v), Dynamic!Terminated(w),
                                    Dynamic!Min({Len(v), Len(w)}))
    <3>2. (c < 0 <=> Dynamic!Before(v, w)) /\ (c = 0 <=> v = w)
      BY <3>1, <3>4, CompareIs
    <3>3. c = Dynamic!Compare(str[x].mem, str[y].mem, Dynamic!Min({str[x].len, str[y].len}))
      BY <3>1
    <3> HIDE DEF c
    <3> QED BY <3>2, <3>3 DEF v, w
  <2> QED BY <2>1, <2>2, <2>3 DEF StringsSound, Dynamic!StringsSound
<1> QED BY <1>1, StringInvariant, PTL

-----------------------------------------------------------------------------
(* What the bytes of a number count.                                        *)
LEMMA PlaceValues ==
    /\ Recipes!PlaceValue[0] = 1
    /\ \A i \in Nat : /\ Recipes!PlaceValue[i] \in Nat \ {0}
                       /\ Recipes!PlaceValue[i + 1] = 256 * Recipes!PlaceValue[i]
<1> DEFINE V == Nat \ {0}
           g == [n \in Nat |-> [v \in V |-> 256 * v]]
<1>1. 1 \in V /\ g \in [Nat -> [V -> V]]
  OBVIOUS
<1>2. PICK f : Recursive(f, V, 1, g)
  <2> HIDE DEF V, g
  <2> QED BY <1>1, Recursion
<1>3. ASSUME NEW n \in Nat PROVE f[n + 1] = 256 * f[n] /\ f[n] \in V
  <2>1. n + 1 \in Nat /\ f[n] \in V
    BY <1>2 DEF Recursive
  <2> QED BY <1>2, <2>1 DEF Recursive
<1>4. f = [i \in Nat |-> IF i = 0 THEN 1 ELSE 256 * f[i - 1]]
  <2>1. ASSUME NEW i \in Nat, i # 0
        PROVE  f[i] = 256 * f[i - 1]
    <3>1. i - 1 \in Nat /\ (i - 1) + 1 = i
      BY <2>1
    <3> QED BY <3>1, <1>3
  <2> QED BY <1>2, <2>1 DEF Recursive
<1> DEFINE pv == Recipes!PlaceValue
<1>5. pv = [i \in Nat |-> IF i = 0 THEN 1 ELSE 256 * pv[i - 1]]
  BY <1>4 DEF Recipes!PlaceValue
<1> HIDE DEF pv
<1>6. pv[0] = 1
  BY <1>5
<1>7. ASSUME NEW i \in Nat
      PROVE  pv[i + 1] = 256 * pv[i]
  <2>1. i + 1 \in Nat /\ i + 1 # 0 /\ (i + 1) - 1 = i
    OBVIOUS
  <2> QED BY <1>5, <2>1
<1>8. ASSUME NEW i \in Nat
      PROVE  pv[i] \in Nat \ {0}
  <2> DEFINE S == {j \in Nat : pv[j] \notin Nat \ {0}}
  <2>1. ASSUME NEW j \in S
        PROVE  \E k \in S : k < j
    <3>1. j # 0
      BY <1>6
    <3>2. j - 1 \in Nat /\ (j - 1) + 1 = j /\ j - 1 < j
      BY <3>1
    <3>3. pv[j] = 256 * pv[j - 1]
      BY <1>7, <3>2
    <3>4. pv[j - 1] \notin Nat \ {0}
      BY <3>3
    <3> QED BY <3>2, <3>4
  <2>2. S \subseteq Nat
    OBVIOUS
  <2>3. S = {}
    <3> HIDE DEF S
    <3> QED BY <2>1, <2>2, NoLeast
  <2> QED BY <2>3
<1>9. pv[0] = 1 /\ \A i \in Nat : pv[i] \in Nat \ {0} /\ pv[i + 1] = 256 * pv[i]
  BY <1>6, <1>7, <1>8
<1> QED BY <1>9 DEF pv

(* One byte more of a number.                                               *)
LEMMA NextByte ==
    ASSUME NEW p \in Nat \ {0}, NEW a \in Nat
    PROVE  a % (256 * p) = (a % p) + p * ((a \div p) % 256)
<1> DEFINE q == a \div p
           r == a % p
           d == q % 256
           h == q \div 256
           Q == a \div (256 * p)
           R == a % (256 * p)
<1>1. q \in Int /\ r \in 0..(p - 1) /\ a = q * p + r
  BY Division
<1>2. q \in Nat
  <2> HIDE DEF q, r
  <2>1. CASE q <= -1
    <3>1. q * p <= -p
      BY <1>1, <2>1
    <3> QED BY <1>1, <3>1
  <2> QED BY <1>1, <2>1
<1>3. d \in 0..255 /\ h \in Int /\ q = 256 * h + d
  <2> HIDE DEF q
  <2> QED BY <1>2
<1>4. 256 * p \in Nat \ {0}
  OBVIOUS
<1>5. Q \in Int /\ R \in 0..((256 * p) - 1) /\ a = Q * (256 * p) + R
  <2> DEFINE c == 256 * p
  <2>1. c \in Nat \ {0}
    BY <1>4
  <2> HIDE DEF c
  <2>2. a \div c \in Int /\ a % c \in 0..(c - 1) /\ a = (a \div c) * c + (a % c)
    BY <2>1, Division
  <2> QED BY <2>2 DEF c
<1> HIDE DEF q, r, d, h, Q, R
<1>6. p * d \in 0..(255 * p)
  <2>1. PICK e \in Nat : 255 = d + e
    BY <1>3, 255 - d \in Nat, 255 = d + (255 - d)
  <2>2. p * 255 = p * d + p * e /\ p * e >= 0 /\ p * d >= 0 /\ p * d \in Int
    BY <1>3, <2>1
  <2> QED BY <2>2
<1>7. a = h * (256 * p) + (p * d + r)
  <2>1. q * p = (256 * h) * p + d * p
    BY <1>3
  <2>2. (256 * h) * p = h * (256 * p) /\ d * p = p * d
    BY <1>3
  <2>3. h * (256 * p) \in Int /\ p * d \in Int /\ r \in Int
    BY <1>1, <1>3, <1>6
  <2> QED BY <1>1, <2>1, <2>2, <2>3
<1> DEFINE c == 256 * p
           m == p * d + r
<1>8. c \in Nat \ {0} /\ m \in 0..(c - 1) /\ R \in 0..(c - 1) /\ h \in Int /\ Q \in Int
      /\ a = h * c + m /\ a = Q * c + R
  BY <1>1, <1>3, <1>4, <1>5, <1>6, <1>7
<1> HIDE DEF c, m
<1>9. h = Q
  <2>1. h * c - Q * c < c /\ Q * c - h * c < c
    <3>1. h * c \in Int /\ Q * c \in Int
      BY <1>8
    <3> QED BY <1>8, <3>1
  <2> QED BY <1>8, <2>1, MultiplesApart
<1>10. R = m
  <2>1. h * c \in Int
    BY <1>8
  <2> QED BY <1>8, <1>9, <2>1
<1> QED BY <1>10 DEF R, m, r, d, q

(* The bytes of a number are those of no other one.                         *)
LEMMA SameBytes ==
    ASSUME NEW a \in Nat, NEW b \in Nat, NEW k \in Nat,
           \A i \in 1..k : (a \div Recipes!PlaceValue[i - 1]) % 256
                             = (b \div Recipes!PlaceValue[i - 1]) % 256
    PROVE  a % Recipes!PlaceValue[k] = b % Recipes!PlaceValue[k]
<1> DEFINE pv == Recipes!PlaceValue
           S == {i \in 0..k : a % pv[i] # b % pv[i]}
<1>1. pv[0] = 1 /\ \A i \in Nat : pv[i] \in Nat \ {0} /\ pv[i + 1] = 256 * pv[i]
  BY PlaceValues
<1> HIDE DEF pv
<1>2. ASSUME NEW i \in S
      PROVE  \E j \in S : j < i
  <2>1. i # 0
    <3>1. a % 1 = 0 /\ b % 1 = 0
      OBVIOUS
    <3> QED BY <1>1, <3>1
  <2>2. i - 1 \in Nat /\ i - 1 \in 0..k /\ (i - 1) + 1 = i /\ i - 1 < i /\ i \in 1..k
    BY <2>1
  <2> DEFINE p == pv[i - 1]
  <2>3. p \in Nat \ {0} /\ pv[i] = 256 * p
    BY <1>1, <2>2
  <2>4. (a \div p) % 256 = (b \div p) % 256
    BY <2>2 DEF pv
  <2> HIDE DEF p
  <2>5. \A x \in Nat : x % (256 * p) = (x % p) + p * ((x \div p) % 256)
    BY <2>3, NextByte, Zenon
  <2>6. /\ a % (256 * p) = (a % p) + p * ((a \div p) % 256)
        /\ b % (256 * p) = (b % p) + p * ((b \div p) % 256)
    <3>1. a % (256 * p) = (a % p) + p * ((a \div p) % 256)
      BY <2>5, Zenon
    <3>2. b % (256 * p) = (b % p) + p * ((b \div p) % 256)
      BY <2>5, Zenon
    <3> QED BY <3>1, <3>2
  <2>7. CASE a % p = b % p
    BY <2>3, <2>4, <2>6, <2>7
  <2>8. CASE a % p # b % p
    BY <2>2, <2>8 DEF p
  <2> QED BY <2>7, <2>8
<1>3. S \subseteq Nat
  OBVIOUS
<1>4. S = {}
  <2> HIDE DEF S
  <2> QED BY <1>2, <1>3, NoLeast
<1>5. k \in 0..k
  OBVIOUS
<1>6. a % pv[k] = b % pv[k]
  BY <1>4, <1>5
<1> QED BY <1>6 DEF pv

(* A number that its bytes can hold is read as it was written.              *)
LEMMA NumberIs ==
    ASSUME NEW a \in 0..(Recipes!PlaceValue[NumberBytes] - 1)
    PROVE  /\ Recipes!Number(a) \in Seq(Nat) /\ Len(Recipes!Number(a)) = NumberBytes
           /\ Recipes!ValueOf(Recipes!Number(a)) = a
           /\ \A b \in 0..(Recipes!PlaceValue[NumberBytes] - 1) :
                  Recipes!Number(a) = Recipes!Number(b) => a = b
<1> DEFINE pv == Recipes!PlaceValue
           limit == pv[NumberBytes]
<1>1. /\ NumberBytes \in Nat \ {0}
      /\ pv[0] = 1 /\ \A i \in Nat : pv[i] \in Nat \ {0} /\ pv[i + 1] = 256 * pv[i]
  BY PlaceValues, StreamBounds
<1>2. ASSUME NEW b \in Nat
      PROVE  Recipes!Number(b) \in [1..NumberBytes -> Nat]
  <2> SUFFICES ASSUME NEW i \in 1..NumberBytes
               PROVE  (b \div Recipes!PlaceValue[i - 1]) % 256 \in Nat
    BY DEF Recipes!Number
  <2> DEFINE p == Recipes!PlaceValue[i - 1]
  <2>1. i - 1 \in Nat
    OBVIOUS
  <2>2. p \in Nat \ {0}
    BY <2>1, PlaceValues
  <2> HIDE DEF p
  <2>3. b \div p \in Int
    BY <2>2, Division
  <2>4. (b \div p) % 256 \in Nat
    BY <2>3
  <2> QED BY <2>4 DEF p
<1>3. a \in Nat /\ limit \in Nat \ {0}
  BY <1>1
<1>4. Recipes!Number(a) \in Seq(Nat) /\ Len(Recipes!Number(a)) = NumberBytes
  <2> DEFINE s == Recipes!Number(a)
  <2>1. s \in [1..NumberBytes -> Nat] /\ NumberBytes \in Nat
    BY <1>1, <1>2, <1>3
  <2> HIDE DEF s
  <2>2. s \in Seq(Nat) /\ Len(s) = NumberBytes
    BY <2>1
  <2> QED BY <2>2 DEF s
<1>5. ASSUME NEW b \in 0..(limit - 1), NEW c \in 0..(limit - 1),
             Recipes!Number(b) = Recipes!Number(c)
      PROVE  b = c
  <2>1. b \in Nat /\ c \in Nat /\ NumberBytes \in Nat
    BY <1>1, <1>5
  <2>2. ASSUME NEW i \in 1..NumberBytes
        PROVE  (b \div Recipes!PlaceValue[i - 1]) % 256 = (c \div Recipes!PlaceValue[i - 1]) % 256
    <3>1. Recipes!Number(b)[i] = Recipes!Number(c)[i]
      BY <1>5
    <3> QED BY <3>1 DEF Recipes!Number
  <2>3. b % Recipes!PlaceValue[NumberBytes] = c % Recipes!PlaceValue[NumberBytes]
    BY <2>1, <2>2, SameBytes
  <2>4. b % limit = c % limit
    BY <2>3
  <2> HIDE DEF limit
  <2>5. b % limit = b /\ c % limit = c
    BY <1>3, <1>5
  <2> QED BY <2>4, <2>5
<1>6. a \in 0..(limit - 1)
  OBVIOUS
<1>7. Recipes!ValueOf(Recipes!Number(a)) = a
  <2> DEFINE v == Recipes!ValueOf(Recipes!Number(a))
  <2>1. v \in 0..(limit - 1) /\ Recipes!Number(v) = Recipes!Number(a)
    BY <1>6 DEF Recipes!ValueOf
  <2> HIDE DEF v, limit
  <2>2. v = a
    BY <1>5, <1>6, <2>1
  <2> QED BY <2>2 DEF v
<1> HIDE DEF limit
<1>8. \A b \in 0..(limit - 1) : Recipes!Number(a) = Recipes!Number(b) => a = b
  BY <1>5, <1>6
<1> QED BY <1>4, <1>7, <1>8 DEF limit

-----------------------------------------------------------------------------
(* The numbers of a recipe file.                                            *)
Fits(n) == n \in 0..(Recipes!PlaceValue[NumberBytes] - 1)

LEMMA SmallFit == \A n \in 0..255 : Fits(n)
<1> DEFINE pv == Recipes!PlaceValue
<1>1. NumberBytes \in Nat \ {0}
  BY StreamBounds
<1>2. NumberBytes - 1 \in Nat /\ (NumberBytes - 1) + 1 = NumberBytes
  BY <1>1
<1>3. pv[NumberBytes - 1] \in Nat \ {0} /\ pv[NumberBytes] = 256 * pv[NumberBytes - 1]
  <2>1. \A i \in Nat : pv[i] \in Nat \ {0} /\ pv[i + 1] = 256 * pv[i]
    BY PlaceValues
  <2> HIDE DEF pv
  <2> QED BY <1>2, <2>1
<1> HIDE DEF pv
<1>4. pv[NumberBytes] \in Nat /\ pv[NumberBytes] >= 256
  BY <1>3
<1> QED BY <1>4 DEF Fits, pv

LEMMA FittingNumber ==
    ASSUME NEW n, Fits(n)
    PROVE  /\ Recipes!Number(n) \in Seq(Nat) /\ Len(Recipes!Number(n)) = NumberBytes
           /\ Recipes!ValueOf(Recipes!Number(n)) = n
           /\ \A m : Fits(m) /\ Recipes!Number(n) = Recipes!Number(m) => n = m
BY NumberIs DEF Fits

(* What a recipe consists of, and that it fits into the numbers.            *)
LEMMA StandardIs ==
    ASSUME NEW r \in Recipes!Recipes, r.type = "standard"
    PROVE  /\ r = [type |-> "standard", name |-> r.name, deps |-> r.deps, build |-> r.build]
           /\ r.name \in Seq(Nat) /\ r.build \in Seq(Nat)
           /\ r.deps \in Seq(Nat)
           /\ Len(r.name) \in Nat /\ Len(r.build) \in Nat /\ Len(r.deps) \in Nat
           /\ Fits(Len(r.name)) /\ Fits(Len(r.deps)) /\ Fits(Len(r.build))
<1>1. r \in [type : {"standard"}, name : Labels,
             deps : Recipes!BoundedSeq(Hashes, MaxInputs), build : Labels]
  BY DEF Recipes!Recipes
<1>2. r.name \in Labels /\ r.build \in Labels
      /\ r.deps \in Recipes!BoundedSeq(Hashes, MaxInputs)
      /\ r = [type |-> "standard", name |-> r.name, deps |-> r.deps, build |-> r.build]
  BY <1>1
<1>3. PICK m \in 0..MaxInputs : r.deps \in [1..m -> Hashes]
  BY <1>2 DEF Recipes!BoundedSeq, Recipes!SeqOf
<1>4. m \in Nat /\ m <= MaxInputs /\ MaxInputs \in Nat /\ Hashes \subseteq Nat /\ Labels \subseteq Seq(Nat)
  BY StreamBounds
<1>5. r.deps \in Seq(Nat) /\ Len(r.deps) = m
  <2> DEFINE d == r.deps
  <2>1. d \in [1..m -> Nat]
    BY <1>3, <1>4
  <2> HIDE DEF d
  <2>2. d \in Seq(Nat) /\ Len(d) = m
    BY <1>4, <2>1
  <2> QED BY <2>2 DEF d
<1>6. Recipes!PlaceValue[NumberBytes] \in Nat
  BY StreamBounds, PlaceValues
<1>7. Fits(m)
  BY <1>4, <1>6, StreamBounds DEF Fits
<1>8. \A t \in Labels : Len(t) \in Nat /\ Fits(Len(t))
  <2> TAKE t \in Labels
  <2>1. Len(t) \in Nat
    BY <1>4, LenProperties
  <2> QED BY <1>6, <2>1, StreamBounds DEF Fits
<1> QED BY <1>2, <1>4, <1>5, <1>7, <1>8

LEMMA FetchIs ==
    ASSUME NEW r \in Recipes!Recipes, r.type # "standard"
    PROVE  /\ r = [type |-> "fetch", url |-> r.url, hash |-> r.hash, extract |-> r.extract]
           /\ r.type = "fetch"
           /\ r.url \in Seq(Nat) /\ Len(r.url) \in Nat /\ Fits(Len(r.url))
           /\ r.hash \in Nat /\ r.extract \in BOOLEAN
<1>1. r \in [type : {"fetch"}, url : Labels, hash : Hashes, extract : BOOLEAN]
  BY DEF Recipes!Recipes
<1>2. r.url \in Labels /\ r.hash \in Hashes /\ r.extract \in BOOLEAN /\ r.type = "fetch"
      /\ r = [type |-> "fetch", url |-> r.url, hash |-> r.hash, extract |-> r.extract]
  BY <1>1
<1>3. Hashes \subseteq Nat /\ Labels \subseteq Seq(Nat)
  BY StreamBounds
<1>4. Recipes!PlaceValue[NumberBytes] \in Nat
  BY StreamBounds, PlaceValues
<1>5. Len(r.url) \in Nat
  BY <1>2, <1>3, LenProperties
<1>6. Fits(Len(r.url))
  BY <1>2, <1>4, <1>5, StreamBounds DEF Fits
<1> QED BY <1>2, <1>3, <1>5, <1>6

LEMMA HashIs ==
    ASSUME NEW h \in Nat
    PROVE  /\ Recipes!HashValue(h) \in Seq(Nat) /\ Len(Recipes!HashValue(h)) = HashBytes
           /\ \A i \in 1..HashBytes : Recipes!HashValue(h)[i] = h
           /\ Recipes!HashValue(h)[1] = h
<1>1. HashBytes \in Nat \ {0}
  BY StreamBounds
<1> DEFINE s == Recipes!HashValue(h)
<1>2. s \in [1..HashBytes -> Nat] /\ \A i \in 1..HashBytes : s[i] = h
  BY DEF Recipes!HashValue
<1> HIDE DEF s
<1>3. s \in Seq(Nat) /\ Len(s) = HashBytes /\ s[1] = h
  BY <1>1, <1>2
<1> QED BY <1>2, <1>3 DEF s

LEMMA HashListIs ==
    ASSUME NEW d \in Seq(Nat)
    PROVE  /\ HashList(d) \in Seq(Nat) /\ Len(HashList(d)) = HashBytes * Len(d)
           /\ HashBytes * Len(d) \in Nat
           /\ \A k \in 1..Len(d) :
                 /\ HashBytes * (k - 1) \in Nat
                 /\ HashBytes * k = HashBytes * (k - 1) + HashBytes
                 /\ HashBytes * k <= HashBytes * Len(d)
                 /\ HasAt(HashList(d), HashBytes * (k - 1), Recipes!HashValue(d[k]))
<1> DEFINE H == HashBytes
           s == HashList(d)
           n == Len(d)
<1>1. H \in Nat \ {0} /\ n \in Nat
  BY StreamBounds, LenProperties
<1> HIDE DEF H, n
<1>2. H * n \in Nat
  BY <1>1
<1>3. ASSUME NEW i \in 1..(H * n)
      PROVE  /\ (i - 1) \div H \in 0..(n - 1)
             /\ \E j \in 0..(H - 1) : i - 1 = ((i - 1) \div H) * H + j
  <2> DEFINE m == i - 1
             q == m \div H
             j == m % H
  <2>1. m \in Nat /\ m < H * n
    BY <1>2
  <2> HIDE DEF m
  <2>2. q \in Int /\ j \in 0..(H - 1) /\ m = q * H + j
    BY <1>1, <2>1, Division
  <2> HIDE DEF q, j
  <2>3. q >= 0
    <3>1. CASE q <= -1
      <4>1. q * H <= -H
        BY <1>1, <2>2, <3>1
      <4> QED BY <1>1, <2>1, <2>2, <4>1
    <3> QED BY <2>2, <3>1
  <2>4. q < n
    <3>1. CASE q >= n
      <4>1. PICK e \in Nat : q = n + e
        BY <1>1, <2>2, <3>1, q - n \in Nat, q = n + (q - n)
      <4>2. q * H = H * n + e * H /\ e * H >= 0
        BY <1>1, <4>1
      <4> QED BY <1>1, <1>2, <2>1, <2>2, <4>2
    <3> QED BY <1>1, <2>2, <3>1
  <2>5. q \in 0..(n - 1)
    BY <1>1, <2>2, <2>3, <2>4
  <2> QED BY <2>2, <2>5 DEF q, j, m
<1>4. s = [i \in 1..(H * n) |-> d[1 + (i - 1) \div H]]
  BY DEF HashList, H, n
<1> HIDE DEF s
<1>5. \A i \in 1..(H * n) : 1 + (i - 1) \div H \in 1..n
  <2> TAKE i \in 1..(H * n)
  <2> DEFINE q == (i - 1) \div H
  <2>1. q \in 0..(n - 1)
    BY <1>3
  <2> HIDE DEF q
  <2>2. 1 + q \in 1..n
    BY <1>1, <2>1
  <2> QED BY <2>2 DEF q
<1>6. \A k \in 1..n : d[k] \in Nat
  BY ElementOfSeq DEF n
<1>7. s \in [1..(H * n) -> Nat]
  BY <1>4, <1>5, <1>6
<1>8. s \in Seq(Nat) /\ Len(s) = H * n
  <2> DEFINE l == H * n
  <2>1. l \in Nat /\ s \in [1..l -> Nat]
    BY <1>2, <1>7
  <2> HIDE DEF l
  <2>2. s \in Seq(Nat) /\ Len(s) = l
    BY <2>1
  <2> QED BY <2>2 DEF l
<1>9. ASSUME NEW k \in 1..n
      PROVE  /\ H * (k - 1) \in Nat /\ H * k = H * (k - 1) + H /\ H * k <= H * n
             /\ HasAt(s, H * (k - 1), Recipes!HashValue(d[k]))
  <2>1. H * (k - 1) \in Nat /\ H * k = H * (k - 1) + H /\ H * k \in Nat
    BY <1>1
  <2>2. H * k <= H * n
    <3>1. PICK e \in Nat : n = k + e
      BY <1>1, n - k \in Nat, n = k + (n - k)
    <3>2. H * n = H * k + H * e /\ H * e >= 0
      BY <1>1, <3>1
    <3> QED BY <1>1, <2>1, <3>2
  <2>3. /\ Len(Recipes!HashValue(d[k])) = H
        /\ \A i \in 1..H : Recipes!HashValue(d[k])[i] = d[k]
    BY <1>6, HashIs DEF H
  <2>4. ASSUME NEW i \in 1..H
        PROVE  s[H * (k - 1) + i] = d[k]
    <3> DEFINE p == H * (k - 1) + i
               q == (p - 1) \div H
    <3>1. p \in 1..(H * n)
      BY <1>1, <1>2, <2>1, <2>2
    <3>2. s[p] = d[1 + (p - 1) \div H]
      BY <1>4, <3>1
    <3>3. q \in 0..(n - 1) /\ \E j \in 0..(H - 1) : p - 1 = q * H + j
      BY <1>3, <3>1
    <3>4. PICK j \in 0..(H - 1) : p - 1 = q * H + j
      BY <3>3
    <3>5. q \in Int /\ q * H \in Int /\ j \in 0..(H - 1)
      BY <1>1, <3>3
    <3> HIDE DEF q
    <3>6. H * (k - 1) + (i - 1) = q * H + j
      BY <2>1, <3>4, <3>5
    <3>7. (k - 1) * H = H * (k - 1)
      BY <1>1
    <3>8. (k - 1) * H - q * H < H /\ q * H - (k - 1) * H < H
      BY <1>1, <2>1, <3>5, <3>6, <3>7
    <3>9. k - 1 = q
      BY <1>1, <3>5, <3>8, MultiplesApart
    <3>10. 1 + q = k
      BY <3>5, <3>9
    <3> QED BY <3>2, <3>10 DEF q
  <2> QED BY <1>1, <1>8, <2>1, <2>2, <2>3, <2>4 DEF HasAt
<1> QED BY <1>2, <1>8, <1>9 DEF H, s, n

(* Where the fields of a recipe file are: those of a standard recipe, and    *)
(* of a fetch recipe.                                                       *)
LEMMA StandardFields ==
    ASSUME NEW r \in Recipes!Recipes, r.type = "standard"
    PROVE  /\ Recipes!Encoding(r) \in Seq(Nat)
           /\ Len(Recipes!Encoding(r)) = 5 * NumberBytes + Len(r.name) + HashBytes * Len(r.deps) + Len(r.build)
           /\ HasAt(Recipes!Encoding(r), 0, Recipes!Number(67))
           /\ HasAt(Recipes!Encoding(r), NumberBytes, Recipes!Number(0))
           /\ HasAt(Recipes!Encoding(r), 2 * NumberBytes, Recipes!Number(Len(r.name)))
           /\ HasAt(Recipes!Encoding(r), 3 * NumberBytes, r.name)
           /\ HasAt(Recipes!Encoding(r), 3 * NumberBytes + Len(r.name), Recipes!Number(Len(r.deps)))
           /\ HasAt(Recipes!Encoding(r), 4 * NumberBytes + Len(r.name), HashList(r.deps))
           /\ HasAt(Recipes!Encoding(r), 4 * NumberBytes + Len(r.name) + HashBytes * Len(r.deps), Recipes!Number(Len(r.build)))
           /\ HasAt(Recipes!Encoding(r), 5 * NumberBytes + Len(r.name) + HashBytes * Len(r.deps), r.build)
<1> DEFINE e == Recipes!Encoding(r)
           m == Recipes!Number(67)
           y == Recipes!Number(0)
           f1 == Recipes!Number(Len(r.name))
           f2 == r.name
           f3 == Recipes!Number(Len(r.deps))
           f4 == HashList(r.deps)
           f5 == Recipes!Number(Len(r.build))
           f6 == r.build
           t1 == f1
           t2 == t1 \o f2
           t3 == t2 \o f3
           t4 == t3 \o f4
           t5 == t4 \o f5
           t6 == t5 \o f6
           h == m \o y
<1>1. e = h \o t6
  <2>1. Recipes!TypeNumber[r.type] = 0
    BY StandardIs DEF Recipes!TypeNumber
  <2>2. e = (m \o Recipes!Number(Recipes!TypeNumber[r.type])) \o t6
    BY StandardIs, Zenon DEF Recipes!Encoding, Recipes!CalcMagic, HashList
  <2> QED BY <2>1, <2>2
<1>2. /\ m \in Seq(Nat) /\ Len(m) = NumberBytes /\ y \in Seq(Nat) /\ Len(y) = NumberBytes
  BY SmallFit, FittingNumber
<1>3. /\ f1 \in Seq(Nat)
      /\ f2 \in Seq(Nat)
      /\ f3 \in Seq(Nat)
      /\ f4 \in Seq(Nat)
      /\ f5 \in Seq(Nat)
      /\ f6 \in Seq(Nat)
  BY StandardIs, FittingNumber, HashListIs
<1>4. /\ Len(f1) = NumberBytes
      /\ Len(f2) = Len(r.name)
      /\ Len(f3) = NumberBytes
      /\ Len(f4) = HashBytes * Len(r.deps)
      /\ Len(f5) = NumberBytes
      /\ Len(f6) = Len(r.build)
  BY StandardIs, FittingNumber, HashListIs
<1> HIDE DEF e, m, y, h, f1, f2, f3, f4, f5, f6
<1>5. /\ h \in Seq(Nat) /\ Len(h) = NumberBytes + NumberBytes
      /\ HasAt(h, 0, m) /\ HasAt(h, NumberBytes, y)
  <2>1. HasAt(m, 0, m)
    BY <1>2 DEF HasAt
  <2> QED BY <1>2, <2>1, HoldsMore DEF h
<1>6. t1 \in Seq(Nat) /\ Len(t1) = Len(f1) /\ HasAt(t1, 0, f1)
  BY <1>3 DEF HasAt
<1> HIDE DEF t1
<1>7. /\ t2 \in Seq(Nat) /\ Len(t2) = Len(t1) + Len(f2)
      /\ HasAt(t2, 0, f1)
      /\ HasAt(t2, Len(t1), f2)
  <2>1. \A o \in Nat, x \in Seq(Nat) : HasAt(t1, o, x) => HasAt(t2, o, x)
    BY <1>3, <1>6, HoldsMore
  <2>2. t2 \in Seq(Nat) /\ Len(t2) = Len(t1) + Len(f2) /\ HasAt(t2, Len(t1), f2)
    BY <1>3, <1>6, HoldsMore
  <2>3. 0 \in Nat /\ Len(t1) \in Nat
    BY <1>6, LenProperties
  <2> HIDE DEF t2
  <2> QED BY <1>3, <1>6, <2>1, <2>2, <2>3
<1> HIDE DEF t2
<1>8. /\ t3 \in Seq(Nat) /\ Len(t3) = Len(t2) + Len(f3)
      /\ HasAt(t3, 0, f1)
      /\ HasAt(t3, Len(t1), f2)
      /\ HasAt(t3, Len(t2), f3)
  <2>1. \A o \in Nat, x \in Seq(Nat) : HasAt(t2, o, x) => HasAt(t3, o, x)
    BY <1>3, <1>7, HoldsMore
  <2>2. t3 \in Seq(Nat) /\ Len(t3) = Len(t2) + Len(f3) /\ HasAt(t3, Len(t2), f3)
    BY <1>3, <1>7, HoldsMore
  <2>3. 0 \in Nat /\ Len(t1) \in Nat /\ Len(t2) \in Nat
    BY <1>6, <1>7, LenProperties
  <2> HIDE DEF t3
  <2> QED BY <1>3, <1>7, <2>1, <2>2, <2>3
<1> HIDE DEF t3
<1>9. /\ t4 \in Seq(Nat) /\ Len(t4) = Len(t3) + Len(f4)
      /\ HasAt(t4, 0, f1)
      /\ HasAt(t4, Len(t1), f2)
      /\ HasAt(t4, Len(t2), f3)
      /\ HasAt(t4, Len(t3), f4)
  <2>1. \A o \in Nat, x \in Seq(Nat) : HasAt(t3, o, x) => HasAt(t4, o, x)
    BY <1>3, <1>8, HoldsMore
  <2>2. t4 \in Seq(Nat) /\ Len(t4) = Len(t3) + Len(f4) /\ HasAt(t4, Len(t3), f4)
    BY <1>3, <1>8, HoldsMore
  <2>3. 0 \in Nat /\ Len(t1) \in Nat /\ Len(t2) \in Nat /\ Len(t3) \in Nat
    BY <1>6, <1>7, <1>8, LenProperties
  <2> HIDE DEF t4
  <2> QED BY <1>3, <1>8, <2>1, <2>2, <2>3
<1> HIDE DEF t4
<1>10. /\ t5 \in Seq(Nat) /\ Len(t5) = Len(t4) + Len(f5)
      /\ HasAt(t5, 0, f1)
      /\ HasAt(t5, Len(t1), f2)
      /\ HasAt(t5, Len(t2), f3)
      /\ HasAt(t5, Len(t3), f4)
      /\ HasAt(t5, Len(t4), f5)
  <2>1. \A o \in Nat, x \in Seq(Nat) : HasAt(t4, o, x) => HasAt(t5, o, x)
    BY <1>3, <1>9, HoldsMore
  <2>2. t5 \in Seq(Nat) /\ Len(t5) = Len(t4) + Len(f5) /\ HasAt(t5, Len(t4), f5)
    BY <1>3, <1>9, HoldsMore
  <2>3. 0 \in Nat /\ Len(t1) \in Nat /\ Len(t2) \in Nat /\ Len(t3) \in Nat /\ Len(t4) \in Nat
    BY <1>6, <1>7, <1>8, <1>9, LenProperties
  <2> HIDE DEF t5
  <2> QED BY <1>3, <1>9, <2>1, <2>2, <2>3
<1> HIDE DEF t5
<1>11. /\ t6 \in Seq(Nat) /\ Len(t6) = Len(t5) + Len(f6)
      /\ HasAt(t6, 0, f1)
      /\ HasAt(t6, Len(t1), f2)
      /\ HasAt(t6, Len(t2), f3)
      /\ HasAt(t6, Len(t3), f4)
      /\ HasAt(t6, Len(t4), f5)
      /\ HasAt(t6, Len(t5), f6)
  <2>1. \A o \in Nat, x \in Seq(Nat) : HasAt(t5, o, x) => HasAt(t6, o, x)
    BY <1>3, <1>10, HoldsMore
  <2>2. t6 \in Seq(Nat) /\ Len(t6) = Len(t5) + Len(f6) /\ HasAt(t6, Len(t5), f6)
    BY <1>3, <1>10, HoldsMore
  <2>3. 0 \in Nat /\ Len(t1) \in Nat /\ Len(t2) \in Nat /\ Len(t3) \in Nat /\ Len(t4) \in Nat /\ Len(t5) \in Nat
    BY <1>6, <1>7, <1>8, <1>9, <1>10, LenProperties
  <2> HIDE DEF t6
  <2> QED BY <1>3, <1>10, <2>1, <2>2, <2>3
<1> HIDE DEF t6
<1>12. /\ e \in Seq(Nat) /\ Len(e) = Len(h) + Len(t6)
      /\ HasAt(e, 0, m) /\ HasAt(e, NumberBytes, y)
      /\ HasAt(e, Len(h), f1)
      /\ HasAt(e, Len(h) + Len(t1), f2)
      /\ HasAt(e, Len(h) + Len(t2), f3)
      /\ HasAt(e, Len(h) + Len(t3), f4)
      /\ HasAt(e, Len(h) + Len(t4), f5)
      /\ HasAt(e, Len(h) + Len(t5), f6)
  <2>1. NumberBytes \in Nat /\ 0 \in Nat /\ Len(t1) \in Nat /\ Len(t2) \in Nat /\ Len(t3) \in Nat /\ Len(t4) \in Nat /\ Len(t5) \in Nat /\ Len(t6) \in Nat
    BY StreamBounds, <1>6, <1>7, <1>8, <1>9, <1>10, <1>11, LenProperties
  <2>2. \A o \in Nat, x \in Seq(Nat) : HasAt(h, o, x) => HasAt(e, o, x)
    BY <1>1, <1>5, <1>11, HoldsMore
  <2>3. \A o \in Nat, x \in Seq(Nat) : HasAt(t6, o, x) => HasAt(e, Len(h) + o, x)
    BY <1>1, <1>5, <1>11, HoldsMore
  <2>4. e \in Seq(Nat) /\ Len(e) = Len(h) + Len(t6)
    BY <1>1, <1>5, <1>11, HoldsMore
  <2>5. Len(h) + 0 = Len(h)
    BY <1>5, LenProperties
  <2> QED BY <1>2, <1>3, <1>5, <1>11, <2>1, <2>2, <2>3, <2>4, <2>5
<1>13. /\ Len(h) = 2 * NumberBytes
      /\ Len(h) + Len(t1) = 3 * NumberBytes
      /\ Len(h) + Len(t2) = 3 * NumberBytes + Len(r.name)
      /\ Len(h) + Len(t3) = 4 * NumberBytes + Len(r.name)
      /\ Len(h) + Len(t4) = 4 * NumberBytes + Len(r.name) + HashBytes * Len(r.deps)
      /\ Len(h) + Len(t5) = 5 * NumberBytes + Len(r.name) + HashBytes * Len(r.deps)
      /\ Len(h) + Len(t6) = 5 * NumberBytes + Len(r.name) + HashBytes * Len(r.deps) + Len(r.build)
  <2> DEFINE N == NumberBytes
             H == HashBytes
             a == Len(r.name)
             d == HashBytes * Len(r.deps)
             b == Len(r.build)
  <2>1. N \in Nat /\ H \in Nat /\ a \in Nat /\ d \in Nat /\ b \in Nat
    BY StandardIs, HashListIs, StreamBounds
  <2>2. Len(h) = N + N /\ Len(t1) = Len(f1) /\ Len(t2) = Len(t1) + Len(f2) /\ Len(t3) = Len(t2) + Len(f3) /\ Len(t4) = Len(t3) + Len(f4) /\ Len(t5) = Len(t4) + Len(f5) /\ Len(t6) = Len(t5) + Len(f6)
    BY <1>5, <1>6, <1>7, <1>8, <1>9, <1>10, <1>11
  <2>3. Len(f1) = N /\ Len(f2) = a /\ Len(f3) = N /\ Len(f4) = d /\ Len(f5) = N /\ Len(f6) = b
    BY <1>4
  <2> HIDE DEF N, H, a, d, b
  <2>4. /\ Len(h) = 2 * N
        /\ Len(h) + Len(t1) = 3 * N
        /\ Len(h) + Len(t2) = 3 * N + a
        /\ Len(h) + Len(t3) = 4 * N + a
        /\ Len(h) + Len(t4) = 4 * N + a + d
        /\ Len(h) + Len(t5) = 5 * N + a + d
        /\ Len(h) + Len(t6) = 5 * N + a + d + b
    BY <2>1, <2>2, <2>3
  <2> QED BY <2>4 DEF N, H, a, d, b
<1> QED BY <1>12, <1>13 DEF e, m, y, f1, f2, f3, f4, f5, f6

(* A recipe of something to fetch.                                         *)
LEMMA FetchFields ==
    ASSUME NEW r \in Recipes!Recipes, r.type # "standard"
    PROVE  /\ Recipes!Encoding(r) \in Seq(Nat)
           /\ Len(Recipes!Encoding(r)) = 3 * NumberBytes + Len(r.url) + HashBytes + 1
           /\ HasAt(Recipes!Encoding(r), 0, Recipes!Number(67))
           /\ HasAt(Recipes!Encoding(r), NumberBytes, Recipes!Number(1))
           /\ HasAt(Recipes!Encoding(r), 2 * NumberBytes, Recipes!Number(Len(r.url)))
           /\ HasAt(Recipes!Encoding(r), 3 * NumberBytes, r.url)
           /\ HasAt(Recipes!Encoding(r), 3 * NumberBytes + Len(r.url), Recipes!HashValue(r.hash))
           /\ HasAt(Recipes!Encoding(r), 3 * NumberBytes + Len(r.url) + HashBytes, <<IF r.extract THEN 255 ELSE 0>>)
<1> DEFINE e == Recipes!Encoding(r)
           m == Recipes!Number(67)
           y == Recipes!Number(1)
           f1 == Recipes!Number(Len(r.url))
           f2 == r.url
           f3 == Recipes!HashValue(r.hash)
           f4 == <<IF r.extract THEN 255 ELSE 0>>
           t1 == f1
           t2 == t1 \o f2
           t3 == t2 \o f3
           t4 == t3 \o f4
           h == m \o y
<1>1. e = h \o t4
  <2>1. Recipes!TypeNumber[r.type] = 1
    BY FetchIs DEF Recipes!TypeNumber
  <2>2. e = (m \o Recipes!Number(Recipes!TypeNumber[r.type])) \o t4
    BY FetchIs, Zenon DEF Recipes!Encoding, Recipes!CalcMagic, HashList
  <2> QED BY <2>1, <2>2
<1>2. /\ m \in Seq(Nat) /\ Len(m) = NumberBytes /\ y \in Seq(Nat) /\ Len(y) = NumberBytes
  BY SmallFit, FittingNumber
<1>3. /\ f1 \in Seq(Nat)
      /\ f2 \in Seq(Nat)
      /\ f3 \in Seq(Nat)
      /\ f4 \in Seq(Nat)
  BY FetchIs, FittingNumber, HashIs
<1>4. /\ Len(f1) = NumberBytes
      /\ Len(f2) = Len(r.url)
      /\ Len(f3) = HashBytes
      /\ Len(f4) = 1
  BY FetchIs, FittingNumber, HashIs
<1> HIDE DEF e, m, y, h, f1, f2, f3, f4
<1>5. /\ h \in Seq(Nat) /\ Len(h) = NumberBytes + NumberBytes
      /\ HasAt(h, 0, m) /\ HasAt(h, NumberBytes, y)
  <2>1. HasAt(m, 0, m)
    BY <1>2 DEF HasAt
  <2> QED BY <1>2, <2>1, HoldsMore DEF h
<1>6. t1 \in Seq(Nat) /\ Len(t1) = Len(f1) /\ HasAt(t1, 0, f1)
  BY <1>3 DEF HasAt
<1> HIDE DEF t1
<1>7. /\ t2 \in Seq(Nat) /\ Len(t2) = Len(t1) + Len(f2)
      /\ HasAt(t2, 0, f1)
      /\ HasAt(t2, Len(t1), f2)
  <2>1. \A o \in Nat, x \in Seq(Nat) : HasAt(t1, o, x) => HasAt(t2, o, x)
    BY <1>3, <1>6, HoldsMore
  <2>2. t2 \in Seq(Nat) /\ Len(t2) = Len(t1) + Len(f2) /\ HasAt(t2, Len(t1), f2)
    BY <1>3, <1>6, HoldsMore
  <2>3. 0 \in Nat /\ Len(t1) \in Nat
    BY <1>6, LenProperties
  <2> HIDE DEF t2
  <2> QED BY <1>3, <1>6, <2>1, <2>2, <2>3
<1> HIDE DEF t2
<1>8. /\ t3 \in Seq(Nat) /\ Len(t3) = Len(t2) + Len(f3)
      /\ HasAt(t3, 0, f1)
      /\ HasAt(t3, Len(t1), f2)
      /\ HasAt(t3, Len(t2), f3)
  <2>1. \A o \in Nat, x \in Seq(Nat) : HasAt(t2, o, x) => HasAt(t3, o, x)
    BY <1>3, <1>7, HoldsMore
  <2>2. t3 \in Seq(Nat) /\ Len(t3) = Len(t2) + Len(f3) /\ HasAt(t3, Len(t2), f3)
    BY <1>3, <1>7, HoldsMore
  <2>3. 0 \in Nat /\ Len(t1) \in Nat /\ Len(t2) \in Nat
    BY <1>6, <1>7, LenProperties
  <2> HIDE DEF t3
  <2> QED BY <1>3, <1>7, <2>1, <2>2, <2>3
<1> HIDE DEF t3
<1>9. /\ t4 \in Seq(Nat) /\ Len(t4) = Len(t3) + Len(f4)
      /\ HasAt(t4, 0, f1)
      /\ HasAt(t4, Len(t1), f2)
      /\ HasAt(t4, Len(t2), f3)
      /\ HasAt(t4, Len(t3), f4)
  <2>1. \A o \in Nat, x \in Seq(Nat) : HasAt(t3, o, x) => HasAt(t4, o, x)
    BY <1>3, <1>8, HoldsMore
  <2>2. t4 \in Seq(Nat) /\ Len(t4) = Len(t3) + Len(f4) /\ HasAt(t4, Len(t3), f4)
    BY <1>3, <1>8, HoldsMore
  <2>3. 0 \in Nat /\ Len(t1) \in Nat /\ Len(t2) \in Nat /\ Len(t3) \in Nat
    BY <1>6, <1>7, <1>8, LenProperties
  <2> HIDE DEF t4
  <2> QED BY <1>3, <1>8, <2>1, <2>2, <2>3
<1> HIDE DEF t4
<1>10. /\ e \in Seq(Nat) /\ Len(e) = Len(h) + Len(t4)
      /\ HasAt(e, 0, m) /\ HasAt(e, NumberBytes, y)
      /\ HasAt(e, Len(h), f1)
      /\ HasAt(e, Len(h) + Len(t1), f2)
      /\ HasAt(e, Len(h) + Len(t2), f3)
      /\ HasAt(e, Len(h) + Len(t3), f4)
  <2>1. NumberBytes \in Nat /\ 0 \in Nat /\ Len(t1) \in Nat /\ Len(t2) \in Nat /\ Len(t3) \in Nat /\ Len(t4) \in Nat
    BY StreamBounds, <1>6, <1>7, <1>8, <1>9, LenProperties
  <2>2. \A o \in Nat, x \in Seq(Nat) : HasAt(h, o, x) => HasAt(e, o, x)
    BY <1>1, <1>5, <1>9, HoldsMore
  <2>3. \A o \in Nat, x \in Seq(Nat) : HasAt(t4, o, x) => HasAt(e, Len(h) + o, x)
    BY <1>1, <1>5, <1>9, HoldsMore
  <2>4. e \in Seq(Nat) /\ Len(e) = Len(h) + Len(t4)
    BY <1>1, <1>5, <1>9, HoldsMore
  <2>5. Len(h) + 0 = Len(h)
    BY <1>5, LenProperties
  <2> QED BY <1>2, <1>3, <1>5, <1>9, <2>1, <2>2, <2>3, <2>4, <2>5
<1>11. /\ Len(h) = 2 * NumberBytes
      /\ Len(h) + Len(t1) = 3 * NumberBytes
      /\ Len(h) + Len(t2) = 3 * NumberBytes + Len(r.url)
      /\ Len(h) + Len(t3) = 3 * NumberBytes + Len(r.url) + HashBytes
      /\ Len(h) + Len(t4) = 3 * NumberBytes + Len(r.url) + HashBytes + 1
  <2> DEFINE N == NumberBytes
             H == HashBytes
             a == Len(r.url)
  <2>1. N \in Nat /\ H \in Nat /\ a \in Nat
    BY FetchIs, HashListIs, StreamBounds
  <2>2. Len(h) = N + N /\ Len(t1) = Len(f1) /\ Len(t2) = Len(t1) + Len(f2) /\ Len(t3) = Len(t2) + Len(f3) /\ Len(t4) = Len(t3) + Len(f4)
    BY <1>5, <1>6, <1>7, <1>8, <1>9
  <2>3. Len(f1) = N /\ Len(f2) = a /\ Len(f3) = H /\ Len(f4) = 1
    BY <1>4
  <2> HIDE DEF N, H, a
  <2>4. /\ Len(h) = 2 * N
        /\ Len(h) + Len(t1) = 3 * N
        /\ Len(h) + Len(t2) = 3 * N + a
        /\ Len(h) + Len(t3) = 3 * N + a + H
        /\ Len(h) + Len(t4) = 3 * N + a + H + 1
    BY <2>1, <2>2, <2>3
  <2> QED BY <2>4 DEF N, H, a
<1> QED BY <1>10, <1>11 DEF e, m, y, f1, f2, f3, f4

(* The writes of a recipe.                                                  *)
LEMMA StandardWrites ==
    ASSUME NEW r \in Recipes!Recipes, r.type = "standard"
    PROVE  /\ Recipes!Writes(r) \in Seq(Seq(Nat)) /\ Len(Recipes!Writes(r)) = 7 + Len(r.deps)
           /\ Recipes!Writes(r)[1] = Recipes!Number(67)
           /\ Recipes!Writes(r)[2] = Recipes!Number(0)
           /\ Recipes!Writes(r)[3] = Recipes!Number(Len(r.name))
           /\ Recipes!Writes(r)[4] = r.name
           /\ Recipes!Writes(r)[5] = Recipes!Number(Len(r.deps))
           /\ \A k \in 1..Len(r.deps) : Recipes!Writes(r)[5 + k] = Recipes!HashValue(r.deps[k])
           /\ Recipes!Writes(r)[6 + Len(r.deps)] = Recipes!Number(Len(r.build))
           /\ Recipes!Writes(r)[7 + Len(r.deps)] = r.build
<1> DEFINE w == Recipes!Writes(r)
           m == Recipes!Number(67)
           y == Recipes!Number(0)
           f1 == Recipes!Number(Len(r.name))
           f2 == r.name
           f3 == Recipes!Number(Len(r.deps))
           f5 == Recipes!Number(Len(r.build))
           f6 == r.build
           n == Len(r.deps)
           q == [i \in DOMAIN r.deps |-> Recipes!HashValue(r.deps[i])]
           S == Seq(Nat)
           x1 == <<f1, f2>> \o <<f3>>
           x2 == x1 \o q
           x3 == x2 \o <<f5, f6>>
<1>1. w = <<m, y>> \o x3
  <2>1. Recipes!TypeNumber[r.type] = 0
    BY StandardIs DEF Recipes!TypeNumber
  <2>2. w = <<m, Recipes!Number(Recipes!TypeNumber[r.type])>> \o x3
    BY StandardIs, Zenon DEF Recipes!Writes, Recipes!TextWrites, Recipes!CalcMagic
  <2> QED BY <2>1, <2>2
<1>2. m \in S /\ y \in S /\ f1 \in S /\ f2 \in S /\ f3 \in S /\ f5 \in S /\ f6 \in S /\ n \in Nat
  <2>1. m \in S /\ y \in S
    BY SmallFit, FittingNumber
  <2>2. f1 \in S /\ f3 \in S /\ f5 \in S
    BY StandardIs, FittingNumber
  <2>3. f2 \in S /\ f6 \in S /\ n \in Nat
    BY StandardIs
  <2> HIDE DEF m, y, f1, f2, f3, f5, f6, S, n
  <2> QED BY <2>1, <2>2, <2>3
<1>3. q \in Seq(S) /\ Len(q) = n /\ \A k \in 1..n : q[k] = Recipes!HashValue(r.deps[k])
  <2>1. DOMAIN r.deps = 1..n /\ \A k \in 1..n : r.deps[k] \in Nat
    BY StandardIs, LenProperties, ElementOfSeq
  <2>2. \A k \in 1..n : Recipes!HashValue(r.deps[k]) \in S
    BY <2>1, HashIs
  <2>3. q \in [1..n -> S] /\ \A k \in 1..n : q[k] = Recipes!HashValue(r.deps[k])
    BY <2>1, <2>2
  <2> HIDE DEF q, n, S
  <2> QED BY <1>2, <2>3
<1> HIDE DEF w, m, y, f1, f2, f3, f5, f6, n, q, S, x1, x2, x3
<1>4. x1 \in Seq(S) /\ Len(x1) = 3 /\ x1[1] = f1 /\ x1[2] = f2 /\ x1[3] = f3
  BY <1>2 DEF x1
<1>5. /\ x2 \in Seq(S) /\ Len(x2) = 3 + n
      /\ \A i \in 1..(3 + n) : x2[i] = IF i <= 3 THEN x1[i] ELSE q[i - 3]
  <2>1. /\ x1 \o q \in Seq(S) /\ Len(x1 \o q) = Len(x1) + Len(q)
        /\ \A i \in 1..(Len(x1) + Len(q)) :
              (x1 \o q)[i] = IF i <= Len(x1) THEN x1[i] ELSE q[i - Len(x1)]
    BY <1>3, <1>4, ConcatProperties
  <2>2. Len(x1) = 3 /\ Len(q) = n
    BY <1>3, <1>4
  <2> QED BY <2>1, <2>2 DEF x2
<1>6. <<f5, f6>> \in Seq(S) /\ Len(<<f5, f6>>) = 2 /\ <<m, y>> \in Seq(S) /\ Len(<<m, y>>) = 2
  BY <1>2
<1>7. /\ x3 \in Seq(S) /\ Len(x3) = (3 + n) + 2
      /\ \A i \in 1..((3 + n) + 2) : x3[i] = IF i <= 3 + n THEN x2[i] ELSE <<f5, f6>>[i - (3 + n)]
  BY <1>5, <1>6, ConcatProperties DEF x3
<1>8. /\ w \in Seq(S) /\ Len(w) = 2 + ((3 + n) + 2)
      /\ \A i \in 1..(2 + ((3 + n) + 2)) : w[i] = IF i <= 2 THEN <<m, y>>[i] ELSE x3[i - 2]
  BY <1>1, <1>6, <1>7, ConcatProperties
<1>9. w[1] = m /\ w[2] = y
  BY <1>2, <1>8
<1>10. \A i \in 1..(5 + n) : w[i + 2] = x3[i]
  <2> TAKE i \in 1..(5 + n)
  <2>1. i + 2 \in 1..(2 + ((3 + n) + 2)) /\ ~(i + 2 <= 2) /\ (i + 2) - 2 = i
    BY <1>2
  <2> QED BY <1>8, <2>1
<1>11. w[3] = f1 /\ w[4] = f2 /\ w[5] = f3
  BY <1>2, <1>4, <1>5, <1>7, <1>10
<1>12. \A k \in 1..n : w[5 + k] = q[k]
  <2> TAKE k \in 1..n
  <2>1. /\ k + 3 \in 1..(5 + n) /\ k + 3 \in 1..(3 + n) /\ k + 3 \in 1..((3 + n) + 2)
        /\ k + 3 <= 3 + n /\ ~(k + 3 <= 3) /\ (k + 3) - 3 = k /\ (k + 3) + 2 = 5 + k
    BY <1>2
  <2>2. w[5 + k] = x3[k + 3]
    BY <1>10, <2>1
  <2> QED BY <1>5, <1>7, <2>1, <2>2
<1>13. w[6 + n] = f5 /\ w[7 + n] = f6
  <2>1. /\ 4 + n \in 1..(5 + n) /\ (4 + n) + 2 = 6 + n /\ ~(4 + n <= 3 + n) /\ (4 + n) - (3 + n) = 1
        /\ 5 + n \in 1..(5 + n) /\ (5 + n) + 2 = 7 + n /\ ~(5 + n <= 3 + n) /\ (5 + n) - (3 + n) = 2
        /\ 4 + n \in 1..((3 + n) + 2) /\ 5 + n \in 1..((3 + n) + 2)
    BY <1>2
  <2>2. w[6 + n] = x3[4 + n] /\ w[7 + n] = x3[5 + n]
    BY <1>10, <2>1
  <2>3. x3[4 + n] = <<f5, f6>>[1] /\ x3[5 + n] = <<f5, f6>>[2]
    BY <1>7, <2>1
  <2> QED BY <2>2, <2>3
<1>14. Len(w) = 7 + n
  BY <1>2, <1>8
<1> QED BY <1>3, <1>8, <1>9, <1>11, <1>12, <1>13, <1>14
        DEF w, m, y, f1, f2, f3, f5, f6, n, S

LEMMA FetchWrites ==
    ASSUME NEW r \in Recipes!Recipes, r.type # "standard"
    PROVE  /\ Recipes!Writes(r) \in Seq(Seq(Nat)) /\ Len(Recipes!Writes(r)) = 6
           /\ Recipes!Writes(r)[1] = Recipes!Number(67)
           /\ Recipes!Writes(r)[2] = Recipes!Number(1)
           /\ Recipes!Writes(r)[3] = Recipes!Number(Len(r.url))
           /\ Recipes!Writes(r)[4] = r.url
           /\ Recipes!Writes(r)[5] = Recipes!HashValue(r.hash)
           /\ Recipes!Writes(r)[6] = <<IF r.extract THEN 255 ELSE 0>>
<1> DEFINE w == Recipes!Writes(r)
           m == Recipes!Number(67)
           y == Recipes!Number(1)
           f1 == Recipes!Number(Len(r.url))
           f2 == r.url
           f3 == Recipes!HashValue(r.hash)
           f4 == <<IF r.extract THEN 255 ELSE 0>>
           S == Seq(Nat)
           x == <<f1, f2>> \o <<f3, f4>>
<1>1. w = <<m, y>> \o x
  <2>1. Recipes!TypeNumber[r.type] = 1
    BY FetchIs DEF Recipes!TypeNumber
  <2>2. w = <<m, Recipes!Number(Recipes!TypeNumber[r.type])>> \o x
    BY FetchIs, Zenon DEF Recipes!Writes, Recipes!TextWrites, Recipes!CalcMagic
  <2> QED BY <2>1, <2>2
<1>2. m \in S /\ y \in S /\ f1 \in S /\ f2 \in S /\ f3 \in S /\ f4 \in S
  <2>1. m \in S /\ y \in S
    BY SmallFit, FittingNumber
  <2>2. f1 \in S /\ f2 \in S
    BY FetchIs, FittingNumber
  <2>3. f3 \in S
    BY FetchIs, HashIs
  <2>4. f4 \in S
    OBVIOUS
  <2> HIDE DEF m, y, f1, f2, f3, f4, S
  <2> QED BY <2>1, <2>2, <2>3, <2>4
<1> HIDE DEF w, m, y, f1, f2, f3, f4, S, x
<1>3. x \in Seq(S) /\ Len(x) = 4 /\ x[1] = f1 /\ x[2] = f2 /\ x[3] = f3 /\ x[4] = f4
  BY <1>2 DEF x
<1>4. <<m, y>> \in Seq(S) /\ Len(<<m, y>>) = 2
  BY <1>2
<1>5. /\ w \in Seq(S) /\ Len(w) = 6
      /\ \A i \in 1..6 : w[i] = IF i <= 2 THEN <<m, y>>[i] ELSE x[i - 2]
  <2> DEFINE p == <<m, y>>
  <2>1. Len(p) = 2 /\ Len(x) = 4 /\ p \in Seq(S) /\ x \in Seq(S)
    BY <1>3, <1>4
  <2> HIDE DEF p
  <2>2. /\ p \o x \in Seq(S) /\ Len(p \o x) = Len(p) + Len(x)
        /\ \A i \in 1..(Len(p) + Len(x)) :
              (p \o x)[i] = IF i <= Len(p) THEN p[i] ELSE x[i - Len(p)]
    BY <2>1, ConcatProperties
  <2>3. Len(p) + Len(x) = 6
    BY <2>1
  <2>4. w = p \o x
    BY <1>1 DEF p
  <2>5. \A i \in 1..6 : w[i] = IF i <= 2 THEN p[i] ELSE x[i - 2]
    BY <2>1, <2>2, <2>3, <2>4
  <2> QED BY <2>2, <2>3, <2>4, <2>5 DEF p
<1>6. w[1] = m /\ w[2] = y /\ w[3] = x[1] /\ w[4] = x[2] /\ w[5] = x[3] /\ w[6] = x[4]
  BY <1>2, <1>5
<1> QED BY <1>3, <1>5, <1>6 DEF w, m, y, f1, f2, f3, f4, S

(* Where the first j writes of a recipe end.                                *)
StandardEnd(r, j) ==
    IF j <= 3 THEN j * NumberBytes
    ELSE IF j = 4 THEN 3 * NumberBytes + Len(r.name)
    ELSE IF j <= 5 + Len(r.deps)
      THEN 4 * NumberBytes + Len(r.name) + HashBytes * (j - 5)
    ELSE IF j = 6 + Len(r.deps)
      THEN 5 * NumberBytes + Len(r.name) + HashBytes * Len(r.deps)
    ELSE 5 * NumberBytes + Len(r.name) + HashBytes * Len(r.deps) + Len(r.build)

FetchEnd(r, j) ==
    IF j <= 3 THEN j * NumberBytes
    ELSE IF j = 4 THEN 3 * NumberBytes + Len(r.url)
    ELSE IF j = 5 THEN 3 * NumberBytes + Len(r.url) + HashBytes
    ELSE 3 * NumberBytes + Len(r.url) + HashBytes + 1

FieldEnd(r, j) == IF r.type = "standard" THEN StandardEnd(r, j) ELSE FetchEnd(r, j)

LEMMA StandardField ==
    ASSUME NEW r \in Recipes!Recipes, r.type = "standard",
           NEW j \in 0..(Len(Recipes!Writes(r)) - 1)
    PROVE  /\ FieldEnd(r, j) \in Nat
           /\ FieldEnd(r, j + 1) = FieldEnd(r, j) + Len(Recipes!Writes(r)[j + 1])
           /\ HasAt(Recipes!Encoding(r), FieldEnd(r, j), Recipes!Writes(r)[j + 1])
<1> DEFINE w == Recipes!Writes(r)
           e == Recipes!Encoding(r)
           N == NumberBytes
           H == HashBytes
           n == Len(r.deps)
           a == Len(r.name)
           b == Len(r.build)
           d == H * n
           End(i) == StandardEnd(r, i)
           Fine == /\ End(j) \in Nat /\ End(j + 1) = End(j) + Len(w[j + 1])
                   /\ HasAt(e, End(j), w[j + 1])
<1>1. N \in Nat /\ H \in Nat /\ n \in Nat /\ a \in Nat /\ b \in Nat /\ d \in Nat
      /\ Len(w) = 7 + n /\ j \in 0..(6 + n)
  <2>1. N \in Nat /\ H \in Nat
    BY StreamBounds
  <2>2. n \in Nat /\ a \in Nat /\ b \in Nat
    BY StandardIs
  <2>3. Len(w) = 7 + n
    BY StandardWrites
  <2>4. j \in 0..(Len(w) - 1)
    OBVIOUS
  <2> HIDE DEF w, N, H, n, a, b
  <2> QED BY <2>1, <2>2, <2>3, <2>4
<1>2. /\ HasAt(e, 0, w[1]) /\ HasAt(e, N, w[2]) /\ HasAt(e, 2 * N, w[3])
      /\ HasAt(e, 3 * N, w[4]) /\ HasAt(e, 3 * N + a, w[5])
      /\ HasAt(e, 4 * N + a, HashList(r.deps))
      /\ HasAt(e, 4 * N + a + d, w[6 + n]) /\ HasAt(e, 5 * N + a + d, w[7 + n])
  BY StandardFields, StandardWrites
<1>3. /\ Len(w[1]) = N /\ Len(w[2]) = N /\ Len(w[3]) = N /\ Len(w[4]) = a /\ Len(w[5]) = N
      /\ Len(w[6 + n]) = N /\ Len(w[7 + n]) = b
  <2>1. Len(w[1]) = N /\ Len(w[2]) = N
    <3>1. w[1] = Recipes!Number(67) /\ w[2] = Recipes!Number(0)
      BY StandardWrites
    <3>2. \A i \in 0..255 : Len(Recipes!Number(i)) = N
      BY SmallFit, FittingNumber
    <3> HIDE DEF w, N
    <3> QED BY <3>1, <3>2
  <2>2. Len(w[3]) = N /\ Len(w[5]) = N /\ Len(w[6 + n]) = N
    <3>1. w[3] = Recipes!Number(a) /\ w[5] = Recipes!Number(n) /\ w[6 + n] = Recipes!Number(b)
      BY StandardWrites
    <3>2. Fits(a) /\ Fits(n) /\ Fits(b)
      BY StandardIs
    <3>3. \A i : Fits(i) => Len(Recipes!Number(i)) = N
      BY FittingNumber
    <3> HIDE DEF w, N, a, b, n
    <3> QED BY <3>1, <3>2, <3>3
  <2>3. Len(w[4]) = a /\ Len(w[7 + n]) = b
    BY StandardWrites
  <2> QED BY <2>1, <2>2, <2>3
<1>4. \A k \in 1..n : /\ H * (k - 1) \in Nat
                      /\ H * k = H * (k - 1) + H
                      /\ Len(w[5 + k]) = H
                      /\ HasAt(HashList(r.deps), H * (k - 1), w[5 + k])
  <2> TAKE k \in 1..n
  <2>1. r.deps \in Seq(Nat) /\ r.deps[k] \in Nat /\ w[5 + k] = Recipes!HashValue(r.deps[k])
    BY StandardIs, StandardWrites, ElementOfSeq
  <2> QED BY <2>1, HashListIs, HashIs
<1>5. /\ \A i \in 0..3 : End(i) = i * N
      /\ End(4) = 3 * N + a
      /\ \A k \in 0..n : End(5 + k) = 4 * N + a + H * k
      /\ End(6 + n) = 5 * N + a + d /\ End(7 + n) = 5 * N + a + d + b
  <2>1. \A i \in 0..3 : End(i) = i * N
    BY DEF StandardEnd
  <2>2. End(4) = 3 * N + a
    BY DEF StandardEnd
  <2>3. ASSUME NEW k \in 0..n
        PROVE  End(5 + k) = 4 * N + a + H * k
    <3>1. ~(5 + k <= 3) /\ 5 + k # 4 /\ 5 + k <= 5 + n /\ (5 + k) - 5 = k
      BY <1>1
    <3> QED BY <3>1, Zenon DEF StandardEnd
  <2>4. ~(6 + n <= 3) /\ 6 + n # 4 /\ ~(6 + n <= 5 + n)
        /\ ~(7 + n <= 3) /\ 7 + n # 4 /\ ~(7 + n <= 5 + n) /\ 7 + n # 6 + n
    BY <1>1
  <2>5. End(6 + n) = 5 * N + a + d
    BY <2>4, Zenon DEF StandardEnd
  <2>6. End(7 + n) = 5 * N + a + d + b
    BY <2>4, Zenon DEF StandardEnd
  <2> QED BY <2>1, <2>2, <2>3, <2>5, <2>6
<1> SUFFICES Fine
  BY DEF FieldEnd
<1> HIDE DEF N, H, n, a, b, d, End, w, e
<1>6. CASE j \in 0..4
  <2>1. End(0) = 0 /\ End(1) = N /\ End(2) = 2 * N /\ End(3) = 3 * N
    BY <1>1, <1>5
  <2>2. End(4) = 3 * N + a
    BY <1>5
  <2>3. End(5) = 4 * N + a
    <3>1. 0 \in 0..n /\ 5 + 0 = 5 /\ H * 0 = 0
      BY <1>1
    <3>2. End(5 + 0) = 4 * N + a + H * 0
      BY <1>5, <3>1
    <3> QED BY <1>1, <3>1, <3>2
  <2>4. CASE j = 0
    BY <1>1, <1>2, <1>3, <2>1, <2>4
  <2>5. CASE j = 1
    BY <1>1, <1>2, <1>3, <2>1, <2>5
  <2>6. CASE j = 2
    BY <1>1, <1>2, <1>3, <2>1, <2>6
  <2>7. CASE j = 3
    BY <1>1, <1>2, <1>3, <2>1, <2>2, <2>7
  <2>8. CASE j = 4
    BY <1>1, <1>2, <1>3, <2>2, <2>3, <2>8
  <2> QED BY <1>6, <2>4, <2>5, <2>6, <2>7, <2>8
<1>7. CASE j \in 5..(4 + n)
  <2> DEFINE k == j - 4
  <2>1. /\ k \in 1..n /\ k - 1 \in 0..n /\ k \in 0..n
        /\ 5 + (k - 1) = j /\ 5 + k = j + 1
    BY <1>1, <1>7
  <2> HIDE DEF k
  <2>2. End(j) = 4 * N + a + H * (k - 1) /\ End(j + 1) = 4 * N + a + H * k
    BY <1>5, <2>1
  <2>3. /\ H * (k - 1) \in Nat /\ H * k = H * (k - 1) + H /\ Len(w[j + 1]) = H
        /\ HasAt(HashList(r.deps), H * (k - 1), w[j + 1])
    BY <1>4, <2>1
  <2>4. End(j) \in Nat /\ End(j + 1) = End(j) + H
    BY <1>1, <2>2, <2>3
  <2>5. HasAt(e, (4 * N + a) + H * (k - 1), w[j + 1])
    <3> DEFINE o == 4 * N + a
               p == H * (k - 1)
               x == w[j + 1]
               l == HashList(r.deps)
    <3>1. o \in Nat /\ p \in Nat /\ Len(x) = H /\ H \in Nat
      BY <1>1, <2>3
    <3>2. HasAt(e, o, l) /\ HasAt(l, p, x)
      BY <1>2, <2>3
    <3>3. Len(l) \in Nat
      BY HashListIs, StandardIs, LenProperties
    <3>4. Len(e) \in Nat
      BY StandardFields, LenProperties DEF e
    <3> HIDE DEF o, p, x, l
    <3>5. /\ o + Len(l) <= Len(e) /\ p + H <= Len(l)
          /\ \A i \in 1..Len(l) : e[o + i] = l[i]
          /\ \A i \in 1..H : l[p + i] = x[i]
      BY <3>1, <3>2 DEF HasAt
    <3>6. (o + p) + H <= Len(e) /\ o + p \in Nat
      BY <3>1, <3>3, <3>4, <3>5
    <3>7. \A i \in 1..H : p + i \in 1..Len(l) /\ (o + p) + i = o + (p + i)
      BY <3>1, <3>3, <3>5
    <3>8. \A i \in 1..H : e[(o + p) + i] = x[i]
      BY <3>5, <3>7
    <3>9. HasAt(e, o + p, x)
      BY <3>1, <3>6, <3>8 DEF HasAt
    <3> QED BY <3>9 DEF o, p, x
  <2> QED BY <2>2, <2>3, <2>4, <2>5
<1>8. CASE j = 5 + n
  <2>1. n \in 0..n /\ j + 1 = 6 + n
    BY <1>1, <1>8
  <2>2. End(j) = 4 * N + a + d /\ End(j + 1) = 5 * N + a + d
    BY <1>5, <1>8, <2>1 DEF d
  <2>3. End(j) \in Nat /\ End(j + 1) = End(j) + N
    BY <1>1, <2>2
  <2>4. HasAt(e, End(j), w[j + 1]) /\ Len(w[j + 1]) = N
    BY <1>2, <1>3, <2>1, <2>2
  <2> QED BY <2>3, <2>4
<1>9. CASE j = 6 + n
  <2>1. j + 1 = 7 + n
    BY <1>1, <1>9
  <2>2. End(j) = 5 * N + a + d /\ End(j + 1) = 5 * N + a + d + b
    BY <1>5, <1>9, <2>1
  <2>3. End(j) \in Nat /\ End(j + 1) = End(j) + b
    BY <1>1, <2>2
  <2>4. HasAt(e, End(j), w[j + 1]) /\ Len(w[j + 1]) = b
    BY <1>2, <1>3, <2>1, <2>2
  <2> QED BY <2>3, <2>4
<1>10. Fine
  BY <1>1, <1>6, <1>7, <1>8, <1>9
<1> QED BY <1>10

LEMMA FetchField ==
    ASSUME NEW r \in Recipes!Recipes, r.type # "standard",
           NEW j \in 0..(Len(Recipes!Writes(r)) - 1)
    PROVE  /\ FieldEnd(r, j) \in Nat
           /\ FieldEnd(r, j + 1) = FieldEnd(r, j) + Len(Recipes!Writes(r)[j + 1])
           /\ HasAt(Recipes!Encoding(r), FieldEnd(r, j), Recipes!Writes(r)[j + 1])
<1> DEFINE w == Recipes!Writes(r)
           e == Recipes!Encoding(r)
           N == NumberBytes
           H == HashBytes
           a == Len(r.url)
           End(i) == FetchEnd(r, i)
           Fine == /\ End(j) \in Nat /\ End(j + 1) = End(j) + Len(w[j + 1])
                   /\ HasAt(e, End(j), w[j + 1])
<1>1. N \in Nat /\ H \in Nat /\ a \in Nat /\ j \in 0..5
  <2>1. N \in Nat /\ H \in Nat /\ a \in Nat
    BY FetchIs, StreamBounds
  <2>2. Len(w) = 6
    BY FetchWrites
  <2> HIDE DEF w
  <2> QED BY <2>1, <2>2 DEF w
<1>2. /\ HasAt(e, 0, w[1]) /\ HasAt(e, N, w[2]) /\ HasAt(e, 2 * N, w[3])
      /\ HasAt(e, 3 * N, w[4]) /\ HasAt(e, 3 * N + a, w[5])
      /\ HasAt(e, 3 * N + a + H, w[6])
  BY FetchFields, FetchWrites
<1>3. /\ Len(w[1]) = N /\ Len(w[2]) = N /\ Len(w[3]) = N /\ Len(w[4]) = a /\ Len(w[5]) = H
      /\ Len(w[6]) = 1
  <2>1. Len(w[1]) = N /\ Len(w[2]) = N
    <3>1. w[1] = Recipes!Number(67) /\ w[2] = Recipes!Number(1)
      BY FetchWrites
    <3>2. \A i \in 0..255 : Len(Recipes!Number(i)) = N
      BY SmallFit, FittingNumber
    <3> HIDE DEF w, N
    <3> QED BY <3>1, <3>2
  <2>2. Len(w[3]) = N /\ Len(w[4]) = a
    BY FetchIs, FetchWrites, FittingNumber
  <2>3. Len(w[5]) = H
    BY FetchIs, FetchWrites, HashIs
  <2>4. Len(w[6]) = 1
    <3>1. w[6] = <<IF r.extract THEN 255 ELSE 0>>
      BY FetchWrites
    <3> HIDE DEF w
    <3> QED BY <3>1
  <2> QED BY <2>1, <2>2, <2>3, <2>4
<1>4. /\ End(0) = 0 /\ End(1) = N /\ End(2) = 2 * N /\ End(3) = 3 * N
      /\ End(4) = 3 * N + a /\ End(5) = 3 * N + a + H /\ End(6) = 3 * N + a + H + 1
  BY <1>1 DEF FetchEnd
<1> SUFFICES Fine
  BY DEF FieldEnd
<1> HIDE DEF N, H, a, End, w, e
<1>5. Fine
  <2>1. CASE j = 0
    <3>1. j + 1 = 1
      BY <2>1
    <3>2. End(0) \in Nat /\ End(1) = End(0) + Len(w[1])
      BY <1>1, <1>3, <1>4
    <3>3. HasAt(e, End(0), w[1])
      BY <1>2, <1>4
    <3> QED BY <2>1, <3>1, <3>2, <3>3
  <2>2. CASE j = 1
    <3>1. j + 1 = 2
      BY <2>2
    <3>2. End(1) \in Nat /\ End(2) = End(1) + Len(w[2])
      BY <1>1, <1>3, <1>4
    <3>3. HasAt(e, End(1), w[2])
      BY <1>2, <1>4
    <3> QED BY <2>2, <3>1, <3>2, <3>3
  <2>3. CASE j = 2
    <3>1. j + 1 = 3
      BY <2>3
    <3>2. End(2) \in Nat /\ End(3) = End(2) + Len(w[3])
      BY <1>1, <1>3, <1>4
    <3>3. HasAt(e, End(2), w[3])
      BY <1>2, <1>4
    <3> QED BY <2>3, <3>1, <3>2, <3>3
  <2>4. CASE j = 3
    <3>1. j + 1 = 4
      BY <2>4
    <3>2. End(3) \in Nat /\ End(4) = End(3) + Len(w[4])
      BY <1>1, <1>3, <1>4
    <3>3. HasAt(e, End(3), w[4])
      BY <1>2, <1>4
    <3> QED BY <2>4, <3>1, <3>2, <3>3
  <2>5. CASE j = 4
    <3>1. j + 1 = 5
      BY <2>5
    <3>2. End(4) \in Nat /\ End(5) = End(4) + Len(w[5])
      BY <1>1, <1>3, <1>4
    <3>3. HasAt(e, End(4), w[5])
      BY <1>2, <1>4
    <3> QED BY <2>5, <3>1, <3>2, <3>3
  <2>6. CASE j = 5
    <3>1. j + 1 = 6
      BY <2>6
    <3>2. End(5) \in Nat /\ End(6) = End(5) + Len(w[6])
      BY <1>1, <1>3, <1>4
    <3>3. HasAt(e, End(5), w[6])
      BY <1>2, <1>4
    <3> QED BY <2>6, <3>1, <3>2, <3>3
  <2> QED BY <1>1, <2>1, <2>2, <2>3, <2>4, <2>5, <2>6
<1> QED BY <1>5

(* Every write goes where its field is, and the last one ends the file.     *)
LEMMA FieldOfWrite ==
    ASSUME NEW r \in Recipes!Recipes
    PROVE  /\ Recipes!Encoding(r) \in Seq(Nat) /\ Len(Recipes!Encoding(r)) \in Nat
           /\ Recipes!Writes(r) \in Seq(Seq(Nat)) /\ Len(Recipes!Writes(r)) \in Nat
           /\ FieldEnd(r, 0) = 0
           /\ FieldEnd(r, Len(Recipes!Writes(r))) = Len(Recipes!Encoding(r))
           /\ \A j \in 0..(Len(Recipes!Writes(r)) - 1) :
                 /\ FieldEnd(r, j) \in Nat
                 /\ Recipes!Writes(r)[j + 1] \in Seq(Nat)
                 /\ FieldEnd(r, j + 1) = FieldEnd(r, j) + Len(Recipes!Writes(r)[j + 1])
                 /\ HasAt(Recipes!Encoding(r), FieldEnd(r, j), Recipes!Writes(r)[j + 1])
<1>1. Recipes!Encoding(r) \in Seq(Nat) /\ Recipes!Writes(r) \in Seq(Seq(Nat))
  BY StandardFields, FetchFields, StandardWrites, FetchWrites
<1>2. Len(Recipes!Encoding(r)) \in Nat /\ Len(Recipes!Writes(r)) \in Nat
  BY <1>1, LenProperties
<1>3. \A j \in 0..(Len(Recipes!Writes(r)) - 1) :
                 /\ FieldEnd(r, j) \in Nat
                 /\ FieldEnd(r, j + 1) = FieldEnd(r, j) + Len(Recipes!Writes(r)[j + 1])
                 /\ HasAt(Recipes!Encoding(r), FieldEnd(r, j), Recipes!Writes(r)[j + 1])
  BY StandardField, FetchField
<1>4. \A j \in 0..(Len(Recipes!Writes(r)) - 1) : Recipes!Writes(r)[j + 1] \in Seq(Nat)
  <2> TAKE j \in 0..(Len(Recipes!Writes(r)) - 1)
  <2>1. j + 1 \in 1..Len(Recipes!Writes(r))
    BY <1>2
  <2> QED BY <1>1, <2>1, ElementOfSeq
<1>5. FieldEnd(r, 0) = 0
  BY StreamBounds DEF FieldEnd, StandardEnd, FetchEnd
<1>6. FieldEnd(r, Len(Recipes!Writes(r))) = Len(Recipes!Encoding(r))
  <2>1. CASE r.type = "standard"
    <3> DEFINE n == Len(r.deps)
    <3>1. n \in Nat /\ Len(Recipes!Writes(r)) = 7 + n
      BY <2>1, StandardIs, StandardWrites
    <3>2. ~(7 + n <= 3) /\ 7 + n # 4 /\ ~(7 + n <= 5 + n) /\ 7 + n # 6 + n
      BY <3>1
    <3>3. StandardEnd(r, 7 + n) = 5 * NumberBytes + Len(r.name) + HashBytes * Len(r.deps) + Len(r.build)
      BY <3>2, Zenon DEF StandardEnd
    <3>4. FieldEnd(r, 7 + n) = StandardEnd(r, 7 + n)
      BY <2>1 DEF FieldEnd
    <3> QED BY <2>1, <3>1, <3>3, <3>4, StandardFields
  <2>2. CASE r.type # "standard"
    <3>1. FieldEnd(r, 6) = 3 * NumberBytes + Len(r.url) + HashBytes + 1
      BY <2>2 DEF FieldEnd, FetchEnd
    <3> QED BY <2>2, <3>1, FetchFields, FetchWrites
  <2> QED BY <2>1, <2>2
<1> QED BY <1>1, <1>2, <1>3, <1>4, <1>5, <1>6

(* What the streams keep.  A file may be cut off; where the writer and the  *)
(* reader are is where a field ends; what has been read is what was written.*)
IsCutOff(c) == \E l \in 0..Len(Recipes!Encoding(recipe)) : c = SubSeq(Recipes!Encoding(recipe), 1, l)

Unread == rest = <<>> /\ atEnd = FALSE /\ got = Recipes!NothingRead /\ owned = Recipes!NothingOwned

InBuffer == medium = "memory" => Len(content) <= capacity

WritingRecipe ==
    /\ place = "writing" /\ Unread /\ InBuffer
    /\ \E j \in 0..Len(Recipes!Writes(recipe)) :
          /\ writes = SubSeq(Recipes!Writes(recipe), j + 1, Len(Recipes!Writes(recipe)))
          /\ content = SubSeq(Recipes!Encoding(recipe), 1, FieldEnd(recipe, j))

WrittenRecipe ==
    /\ place = "written" /\ Unread /\ InBuffer
    /\ IsCutOff(content)
    /\ errors = 0 => content = Recipes!Encoding(recipe)

\* What the first j writes have written has been read.
Past(j) ==
    /\ FieldEnd(recipe, j) <= Len(content)
    /\ rest = SubSeq(content, FieldEnd(recipe, j) + 1, Len(content))
    /\ atEnd => rest = <<>>

\* A text has been allocated for the name, or not yet.
ReadAt(p, j, g, name) ==
    /\ place = p /\ got = g /\ owned = [name |-> name, build |-> "none"]
    /\ Past(j)

Obtained(name, n, deps, length) ==
    [name |-> name, n |-> n, deps |-> deps, length |-> length, build |-> <<>>]

Hashed(k) == [i \in 1..k |-> Recipes!HashValue(recipe.deps[i])]

ReadingKind ==
    /\ \/ ReadAt("magic", 0, Recipes!NothingRead, "none")
       \/ ReadAt("type", 1, Recipes!NothingRead, "none") /\ content # Recipes!Number(68)
    /\ IsCutOff(content) \/ content \in Recipes!Foreign

ReadingName ==
    /\ recipe.type = "standard" /\ IsCutOff(content)
    /\ \/ ReadAt("name_length", 2, Recipes!NothingRead, "none")
       \/ ReadAt("name", 3, Obtained(<<>>, 0, <<>>, Len(recipe.name)), "none")
       \/ ReadAt("count", 4, Obtained(recipe.name, 0, <<>>, Len(recipe.name)), "held")

ReadingHash ==
    /\ recipe.type = "standard" /\ IsCutOff(content)
    /\ \E k \in 0..(Len(recipe.deps) - 1) :
          ReadAt("hash", 5 + k, Obtained(recipe.name, Len(recipe.deps), Hashed(k), Len(recipe.name)), "held")

ReadingBuild ==
    /\ recipe.type = "standard" /\ IsCutOff(content)
    /\ \/ ReadAt("build_length", 5 + Len(recipe.deps),
                 Obtained(recipe.name, Len(recipe.deps), Hashed(Len(recipe.deps)), Len(recipe.name)), "held")
       \/ ReadAt("build", 6 + Len(recipe.deps),
                 Obtained(recipe.name, Len(recipe.deps), Hashed(Len(recipe.deps)), Len(recipe.build)), "held")

Finished ==
    place \in {"found", "null"} /\ Recipes!ReadBackOrNull /\ Recipes!TextsFreed

StreamTyped ==
    /\ recipe \in Recipes!Recipes /\ medium \in Recipes!Media
    /\ capacity \in Nat /\ errors \in Nat /\ content \in Seq(Nat)

StreamInv ==
    \/ place = "panic"
    \/ /\ StreamTyped
       /\ \/ WritingRecipe \/ WrittenRecipe
          \/ ReadingKind \/ ReadingName \/ ReadingHash \/ ReadingBuild
          \/ Finished

-----------------------------------------------------------------------------
(* What is at one place of a sequence is one thing.                         *)
LEMMA HasOne ==
    ASSUME NEW e, NEW x \in Seq(Nat), NEW y \in Seq(Nat), NEW o, NEW p, o = p,
           Len(x) = Len(y), HasAt(e, o, x), HasAt(e, p, y)
    PROVE  x = y
<1>1. \A i \in 1..Len(x) : x[i] = y[i]
  BY DEF HasAt
<1> QED BY <1>1, SameText

(* No two recipes are written with the same bytes.                          *)
LEMMA SameNumber ==
    ASSUME NEW e, NEW o, NEW m, NEW n, Fits(m), Fits(n),
           HasAt(e, o, Recipes!Number(m)), HasAt(e, o, Recipes!Number(n))
    PROVE  m = n
<1>1. /\ Recipes!Number(m) \in Seq(Nat) /\ Recipes!Number(n) \in Seq(Nat)
      /\ Len(Recipes!Number(m)) = Len(Recipes!Number(n))
  BY FittingNumber
<1>2. Recipes!Number(m) = Recipes!Number(n)
  BY <1>1, HasOne
<1> QED BY <1>2, FittingNumber

LEMMA SameHashes ==
    ASSUME NEW c \in Seq(Nat), NEW d \in Seq(Nat), Len(c) = Len(d), HashList(c) = HashList(d)
    PROVE  c = d
<1>1. ASSUME NEW k \in 1..Len(c)
      PROVE  c[k] = d[k]
  <2> DEFINE o == HashBytes * (k - 1)
             l == HashList(c)
  <2>1. HasAt(l, o, Recipes!HashValue(c[k])) /\ HasAt(l, o, Recipes!HashValue(d[k]))
    BY HashListIs
  <2>2. c[k] \in Nat /\ d[k] \in Nat
    BY ElementOfSeq
  <2>3. /\ Len(Recipes!HashValue(c[k])) = HashBytes /\ Recipes!HashValue(c[k])[1] = c[k]
        /\ Len(Recipes!HashValue(d[k])) = HashBytes /\ Recipes!HashValue(d[k])[1] = d[k]
    BY <2>2, HashIs
  <2>5. 1 \in 1..HashBytes
    BY StreamBounds
  <2> HIDE DEF o, l
  <2>4. l[o + 1] = Recipes!HashValue(c[k])[1] /\ l[o + 1] = Recipes!HashValue(d[k])[1]
    BY <2>1, <2>3, <2>5 DEF HasAt
  <2> QED BY <2>3, <2>4
<1> QED BY <1>1, SameText

LEMMA SameRecipe ==
    ASSUME NEW r \in Recipes!Recipes, NEW s \in Recipes!Recipes,
           Recipes!Encoding(r) = Recipes!Encoding(s)
    PROVE  r = s
<1> DEFINE e == Recipes!Encoding(r)
           N == NumberBytes
<1>1. e = Recipes!Encoding(s)
  OBVIOUS
<1> HIDE DEF e
<1>2. Fits(0) /\ Fits(1)
  BY SmallFit
<1>3. CASE r.type = "standard" /\ s.type = "standard"
  <2>1. Len(r.name) = Len(s.name)
    <3>1. HasAt(e, 2 * N, Recipes!Number(Len(r.name)))
      BY <1>3, StandardFields DEF e
    <3>2. HasAt(e, 2 * N, Recipes!Number(Len(s.name)))
      BY <1>1, <1>3, StandardFields
    <3>3. Fits(Len(r.name)) /\ Fits(Len(s.name))
      BY <1>3, StandardIs
    <3> QED BY <3>1, <3>2, <3>3, SameNumber
  <2> DEFINE a == Len(r.name)
  <2>2. r.name = s.name
    <3>1. HasAt(e, 3 * N, r.name)
      BY <1>3, StandardFields DEF e
    <3>2. HasAt(e, 3 * N, s.name)
      BY <1>1, <1>3, StandardFields
    <3>3. r.name \in Seq(Nat) /\ s.name \in Seq(Nat)
      BY <1>3, StandardIs
    <3> QED BY <2>1, <3>1, <3>2, <3>3, HasOne
  <2>3. Len(r.deps) = Len(s.deps)
    <3>1. HasAt(e, 3 * N + a, Recipes!Number(Len(r.deps)))
      BY <1>3, StandardFields DEF e
    <3>2. HasAt(e, 3 * N + a, Recipes!Number(Len(s.deps)))
      BY <1>1, <1>3, <2>1, StandardFields
    <3>3. Fits(Len(r.deps)) /\ Fits(Len(s.deps))
      BY <1>3, StandardIs
    <3> QED BY <3>1, <3>2, <3>3, SameNumber
  <2>4. r.deps = s.deps
    <3>1. HasAt(e, 4 * N + a, HashList(r.deps))
      BY <1>3, StandardFields DEF e
    <3>2. HasAt(e, 4 * N + a, HashList(s.deps))
      BY <1>1, <1>3, <2>1, StandardFields
    <3>3. r.deps \in Seq(Nat) /\ s.deps \in Seq(Nat)
      BY <1>3, StandardIs
    <3>4. /\ HashList(r.deps) \in Seq(Nat) /\ HashList(s.deps) \in Seq(Nat)
          /\ Len(HashList(r.deps)) = Len(HashList(s.deps))
      BY <2>3, <3>3, HashListIs
    <3>5. HashList(r.deps) = HashList(s.deps)
      BY <3>1, <3>2, <3>4, HasOne
    <3> QED BY <2>3, <3>3, <3>5, SameHashes
  <2> DEFINE d == HashBytes * Len(r.deps)
  <2>5. Len(r.build) = Len(s.build)
    <3>1. HasAt(e, 4 * N + a + d, Recipes!Number(Len(r.build)))
      BY <1>3, StandardFields DEF e
    <3>2. HasAt(e, 4 * N + a + d, Recipes!Number(Len(s.build)))
      BY <1>1, <1>3, <2>1, <2>3, StandardFields
    <3>3. Fits(Len(r.build)) /\ Fits(Len(s.build))
      BY <1>3, StandardIs
    <3> QED BY <3>1, <3>2, <3>3, SameNumber
  <2>6. r.build = s.build
    <3>1. HasAt(e, 5 * N + a + d, r.build)
      BY <1>3, StandardFields DEF e
    <3>2. HasAt(e, 5 * N + a + d, s.build)
      BY <1>1, <1>3, <2>1, <2>3, StandardFields
    <3>3. r.build \in Seq(Nat) /\ s.build \in Seq(Nat)
      BY <1>3, StandardIs
    <3> QED BY <2>5, <3>1, <3>2, <3>3, HasOne
  <2>7. /\ r = [type |-> "standard", name |-> r.name, deps |-> r.deps, build |-> r.build]
        /\ s = [type |-> "standard", name |-> s.name, deps |-> s.deps, build |-> s.build]
    BY <1>3, StandardIs
  <2> HIDE DEF a, d
  <2> QED BY <2>2, <2>4, <2>6, <2>7, Zenon
<1>4. CASE r.type # "standard" /\ s.type # "standard"
  <2>1. Len(r.url) = Len(s.url)
    <3>1. HasAt(e, 2 * N, Recipes!Number(Len(r.url)))
      BY <1>4, FetchFields DEF e
    <3>2. HasAt(e, 2 * N, Recipes!Number(Len(s.url)))
      BY <1>1, <1>4, FetchFields
    <3>3. Fits(Len(r.url)) /\ Fits(Len(s.url))
      BY <1>4, FetchIs
    <3> QED BY <3>1, <3>2, <3>3, SameNumber
  <2> DEFINE a == Len(r.url)
             f(x) == <<IF x.extract THEN 255 ELSE 0>>
  <2>2. r.url = s.url
    <3>1. HasAt(e, 3 * N, r.url)
      BY <1>4, FetchFields DEF e
    <3>2. HasAt(e, 3 * N, s.url)
      BY <1>1, <1>4, FetchFields
    <3>3. r.url \in Seq(Nat) /\ s.url \in Seq(Nat)
      BY <1>4, FetchIs
    <3> QED BY <2>1, <3>1, <3>2, <3>3, HasOne
  <2>3. r.hash = s.hash
    <3>1. HasAt(e, 3 * N + a, Recipes!HashValue(r.hash))
      BY <1>4, FetchFields DEF e
    <3>2. HasAt(e, 3 * N + a, Recipes!HashValue(s.hash))
      BY <1>1, <1>4, <2>1, FetchFields
    <3>3. r.hash \in Nat /\ s.hash \in Nat
      BY <1>4, FetchIs
    <3>4. /\ Recipes!HashValue(r.hash) \in Seq(Nat) /\ Recipes!HashValue(s.hash) \in Seq(Nat)
          /\ Len(Recipes!HashValue(r.hash)) = Len(Recipes!HashValue(s.hash))
          /\ Recipes!HashValue(r.hash)[1] = r.hash /\ Recipes!HashValue(s.hash)[1] = s.hash
      BY <3>3, HashIs
    <3>5. Recipes!HashValue(r.hash) = Recipes!HashValue(s.hash)
      BY <3>1, <3>2, <3>4, HasOne
    <3> QED BY <3>4, <3>5
  <2>4. r.extract = s.extract
    <3>1. HasAt(e, 3 * N + a + HashBytes, f(r))
      BY <1>4, FetchFields DEF e
    <3>2. HasAt(e, 3 * N + a + HashBytes, f(s))
      BY <1>1, <1>4, <2>1, FetchFields
    <3>3. r.extract \in BOOLEAN /\ s.extract \in BOOLEAN
      BY <1>4, FetchIs
    <3>4. f(r) \in Seq(Nat) /\ f(s) \in Seq(Nat) /\ Len(f(r)) = Len(f(s))
      OBVIOUS
    <3>5. f(r) = f(s)
      <4> HIDE DEF f
      <4> QED BY <3>1, <3>2, <3>4, HasOne
    <3>6. f(r)[1] = f(s)[1]
      BY <3>5
    <3> QED BY <3>3, <3>6
  <2>5. /\ r = [type |-> "fetch", url |-> r.url, hash |-> r.hash, extract |-> r.extract]
        /\ s = [type |-> "fetch", url |-> s.url, hash |-> s.hash, extract |-> s.extract]
    BY <1>4, FetchIs
  <2> HIDE DEF a, f
  <2> QED BY <2>2, <2>3, <2>4, <2>5, Zenon
<1>5. CASE r.type = "standard" /\ s.type # "standard"
  <2>1. HasAt(e, N, Recipes!Number(0))
    BY <1>5, StandardFields DEF e
  <2>2. HasAt(e, N, Recipes!Number(1))
    BY <1>1, <1>5, FetchFields
  <2>3. 0 = 1
    BY <1>2, <2>1, <2>2, SameNumber
  <2> QED BY <2>3
<1>6. CASE r.type # "standard" /\ s.type = "standard"
  <2>1. HasAt(e, N, Recipes!Number(1))
    BY <1>6, FetchFields DEF e
  <2>2. HasAt(e, N, Recipes!Number(0))
    BY <1>1, <1>6, StandardFields
  <2>3. 0 = 1
    BY <1>2, <2>1, <2>2, SameNumber
  <2> QED BY <2>3
<1> QED BY <1>3, <1>4, <1>5, <1>6


(* What is read next of a sequence that may be cut off: t, all that is left *)
(* of c, begins with x.                                                     *)
IsNext(c, t, l, o, x) ==
    /\ c \in Seq(Nat) /\ Len(c) = l /\ t \in Seq(Nat) /\ Len(t) = l - o
    /\ Len(x) <= Len(t) =>
          /\ SubSeq(t, 1, Len(x)) = x
          /\ o + Len(x) <= Len(c)
          /\ SubSeq(t, Len(x) + 1, Len(t)) = SubSeq(c, (o + Len(x)) + 1, Len(c))

LEMMA NextRead ==
    ASSUME NEW e \in Seq(Nat), NEW l \in 0..Len(e), NEW o \in Nat, NEW x \in Seq(Nat),
           HasAt(e, o, x), o <= l
    PROVE  LET c == SubSeq(e, 1, l)
               t == SubSeq(c, o + 1, Len(c))
           IN  IsNext(c, t, l, o, x)
<1> DEFINE n == Len(x)
           c == SubSeq(e, 1, l)
           t == SubSeq(c, o + 1, Len(c))
<1>1. /\ n \in Nat /\ Len(e) \in Nat /\ l \in Nat /\ l <= Len(e)
      /\ o + n <= Len(e) /\ \A i \in 1..n : e[o + i] = x[i]
  BY LenProperties DEF HasAt
<1>2. c \in Seq(Nat) /\ Len(c) = l /\ \A i \in 1..l : c[i] = e[i]
  <2>1. \A i \in 1..l : e[i] \in Nat
    BY <1>1, ElementOfSeq
  <2> QED BY <1>1, <2>1, SubSeqProperties
<1> HIDE DEF n, c
<1>3. /\ t \in Seq(Nat) /\ Len(t) = l - o /\ \A i \in 1..(l - o) : t[i] = c[o + i]
  <2>1. \A i \in (o + 1)..l : c[i] \in Nat
    <3>1. \A i \in 1..l : c[i] \in Nat
      BY <1>2, ElementOfSeq
    <3> QED BY <1>1, <3>1
  <2> DEFINE p == o + 1
  <2>2. /\ p \in Int /\ l \in Int /\ \A i \in p..l : c[i] \in Nat
    BY <1>1, <2>1
  <2> HIDE DEF p
  <2>3. /\ SubSeq(c, p, l) \in Seq(Nat)
        /\ Len(SubSeq(c, p, l)) = IF p <= l THEN l - p + 1 ELSE 0
        /\ \A i \in 1..(l - p + 1) : SubSeq(c, p, l)[i] = c[p + i - 1]
    BY <2>2, SubSeqProperties
  <2>4. t = SubSeq(c, p, l)
    BY <1>2 DEF p
  <2>5. Len(t) = l - o
    BY <1>1, <2>3, <2>4 DEF p
  <2>6. \A i \in 1..(l - o) : i \in 1..(l - p + 1) /\ p + i - 1 = o + i
    BY <1>1 DEF p
  <2>7. \A i \in 1..(l - o) : t[i] = c[o + i]
    BY <2>3, <2>4, <2>6
  <2> QED BY <2>3, <2>4, <2>5, <2>7
<1> HIDE DEF t
<1>4. ASSUME n <= Len(t)
      PROVE  /\ SubSeq(t, 1, n) = x /\ o + n <= Len(c)
             /\ SubSeq(t, n + 1, Len(t)) = SubSeq(c, (o + n) + 1, Len(c))
  <2>1. n <= l - o /\ o + n <= l
    BY <1>1, <1>3, <1>4
  <2>2. SubSeq(t, 1, n) = x
    <3> DEFINE u == SubSeq(t, 1, n)
    <3>1. \A i \in 1..n : t[i] \in Nat
      <4>1. \A i \in 1..n : i \in 1..Len(t)
        BY <1>1, <1>3, <1>4
      <4> QED BY <1>3, <4>1, ElementOfSeq
    <3>2. u \in Seq(Nat) /\ Len(u) = n /\ \A i \in 1..n : u[i] = t[i]
      BY <1>1, <3>1, SubSeqProperties
    <3> HIDE DEF u
    <3>3. \A i \in 1..n : u[i] = x[i]
      <4> TAKE i \in 1..n
      <4>1. n \in Int /\ i \in Int /\ 1 <= i /\ i <= n /\ o \in Int /\ l \in Int /\ o >= 0
        BY <1>1
      <4>2. i \in 1..(l - o)
        BY <2>1, <4>1
      <4>3. o + i \in 1..l
        BY <2>1, <4>1
      <4> QED BY <1>1, <1>2, <1>3, <3>2, <4>2, <4>3
    <3>4. u = x
      <4>1. Len(u) = Len(x)
        BY <3>2 DEF n
      <4>2. \A i \in 1..Len(u) : u[i] = x[i]
        BY <3>2, <3>3
      <4> QED BY <3>2, <4>1, <4>2, SameText
    <3> QED BY <3>4 DEF u
  <2>3. SubSeq(t, n + 1, Len(t)) = SubSeq(c, (o + n) + 1, Len(c))
    <3> DEFINE u == SubSeq(t, n + 1, Len(t))
               v == SubSeq(c, (o + n) + 1, Len(c))
               k == l - o
               p == n + 1
               q == (o + n) + 1
    <3>1. k \in Int /\ p \in Int /\ q \in Int /\ p >= 1 /\ q >= 1 /\ k - p = l - q
          /\ Len(t) = k /\ Len(c) = l
      BY <1>1, <1>2, <1>3
    <3>2. (\A i \in p..k : t[i] \in Nat) /\ (\A i \in q..l : c[i] \in Nat)
      <4>1. (\A i \in 1..k : t[i] \in Nat) /\ (\A i \in 1..l : c[i] \in Nat)
        BY <3>1, <1>2, <1>3, ElementOfSeq
      <4> HIDE DEF k, p, q
      <4> QED BY <3>1, <4>1
    <3>3. u = SubSeq(t, p, k) /\ v = SubSeq(c, q, l)
      BY <3>1
    <3> HIDE DEF u, v, p, q, k
    <3>4. /\ u \in Seq(Nat) /\ Len(u) = IF p <= k THEN k - p + 1 ELSE 0
          /\ \A i \in 1..(k - p + 1) : u[i] = t[p + i - 1]
      BY <3>1, <3>2, <3>3, SubSeqProperties
    <3>5. /\ v \in Seq(Nat) /\ Len(v) = IF q <= l THEN l - q + 1 ELSE 0
          /\ \A i \in 1..(l - q + 1) : v[i] = c[q + i - 1]
      <4>1. q \in Int /\ l \in Int /\ \A i \in q..l : c[i] \in Nat
        BY <1>1, <3>1, <3>2
      <4>2. /\ SubSeq(c, q, l) \in Seq(Nat)
            /\ Len(SubSeq(c, q, l)) = IF q <= l THEN l - q + 1 ELSE 0
            /\ \A i \in 1..(l - q + 1) : SubSeq(c, q, l)[i] = c[q + i - 1]
        BY <4>1, SubSeqProperties
      <4> QED BY <3>3, <4>2
    <3>6. Len(u) = Len(v) /\ l \in Int
      BY <1>1, <3>1, <3>4, <3>5
    <3>7. ASSUME NEW i \in 1..Len(u)
          PROVE  u[i] = v[i]
      <4>1. i \in 1..(k - p + 1) /\ i \in 1..(l - q + 1)
        BY <3>1, <3>4, <3>6
      <4>2. p + i - 1 \in 1..k /\ q + i - 1 = o + (p + i - 1)
        <5>1. p + i - 1 \in 1..k
          BY <3>1, <4>1
        <5>2. q + i - 1 = o + (p + i - 1)
          BY <1>1, <3>1, <4>1 DEF p, q
        <5> QED BY <5>1, <5>2
      <4>3. t[p + i - 1] = c[o + (p + i - 1)]
        BY <1>3, <4>2 DEF k
      <4> QED BY <3>4, <3>5, <4>1, <4>2, <4>3
    <3>8. u = v
      BY <3>4, <3>5, <3>6, <3>7, SameText
    <3> QED BY <3>8 DEF u, v
  <2> QED BY <1>2, <2>1, <2>2, <2>3
<1>5. IsNext(c, t, l, o, x)
  BY <1>2, <1>3, <1>4 DEF IsNext, n
<1> QED BY <1>5 DEF c, t

-----------------------------------------------------------------------------
(* The numbers of the streams.                                              *)
LEMMA CapacityIs ==
    ASSUME NEW n \in Nat
    PROVE  Recipes!BitCeil(n) \in Nat /\ Recipes!BitCeil(n) >= n
<1>1. Recipes!BitCeil(n) = Dynamic!BitCeil(n)
  BY DEF Recipes!BitCeil, Dynamic!BitCeil, Recipes!PowerOfTwo, Dynamic!PowerOfTwo,
         Recipes!Min, Dynamic!Min
<1> QED BY <1>1, CeilIs

LEMMA LesserIs ==
    ASSUME NEW a \in Int, NEW b \in Int
    PROVE  Recipes!Min({a, b}) = IF a <= b THEN a ELSE b
<1>1. Recipes!Min({a, b}) = Dynamic!Min({a, b})
  BY DEF Recipes!Min, Dynamic!Min
<1> QED BY <1>1, OfTwo

LEMMA CutTwice ==
    ASSUME NEW e \in Seq(Nat), NEW l \in 0..Len(e), NEW n \in 0..l
    PROVE  SubSeq(SubSeq(e, 1, l), 1, n) = SubSeq(e, 1, n)
<1> DEFINE c == SubSeq(e, 1, l)
           u == SubSeq(c, 1, n)
           v == SubSeq(e, 1, n)
<1>1. Len(e) \in Nat /\ l \in Nat /\ n \in Nat /\ n <= l /\ l <= Len(e)
  BY LenProperties
<1>2. \A i \in 1..Len(e) : e[i] \in Nat
  BY ElementOfSeq
<1>3. c \in Seq(Nat) /\ Len(c) = l /\ \A i \in 1..l : c[i] = e[i]
  <2>1. \A i \in 1..l : e[i] \in Nat
    BY <1>1, <1>2
  <2> QED BY <1>1, <2>1, SubSeqProperties
<1>4. v \in Seq(Nat) /\ Len(v) = n /\ \A i \in 1..n : v[i] = e[i]
  <2>1. \A i \in 1..n : e[i] \in Nat
    BY <1>1, <1>2
  <2> QED BY <1>1, <2>1, SubSeqProperties
<1> HIDE DEF c
<1>5. u \in Seq(Nat) /\ Len(u) = n /\ \A i \in 1..n : u[i] = c[i]
  <2>1. \A i \in 1..l : c[i] \in Nat
    BY <1>3, ElementOfSeq
  <2>2. \A i \in 1..n : c[i] \in Nat
    BY <1>1, <2>1
  <2> QED BY <1>1, <2>2, SubSeqProperties
<1> HIDE DEF u, v
<1>6. \A i \in 1..n : u[i] = v[i]
  <2> TAKE i \in 1..n
  <2>1. i \in 1..l
    BY <1>1
  <2> QED BY <1>3, <1>4, <1>5, <2>1
<1>7. u = v
  BY <1>4, <1>5, <1>6, SameText
<1> QED BY <1>7 DEF u, v, c

(* Files that are no recipes.                                               *)
LEMMA ForeignIs ==
    ASSUME recipe \in Recipes!Recipes, content \in Recipes!Foreign
    PROVE  /\ content \in Seq(Nat) /\ content # Recipes!Encoding(recipe)
           /\ \/ content = Recipes!Number(68) /\ HasAt(content, 0, Recipes!Number(68))
              \/ /\ HasAt(content, 0, Recipes!Number(67))
                 /\ HasAt(content, NumberBytes, Recipes!Number(7))
<1> DEFINE e == Recipes!Encoding(recipe)
           s == Recipes!Number(68)
           m == Recipes!Number(67)
           y == Recipes!Number(7)
<1>1. content = s \/ content = m \o y
  BY DEF Recipes!Foreign, Recipes!CalcMagic
<1>2. Fits(0) /\ Fits(1) /\ Fits(7) /\ Fits(67) /\ Fits(68)
  BY SmallFit
<1>3. /\ s \in Seq(Nat) /\ m \in Seq(Nat) /\ y \in Seq(Nat)
      /\ Len(s) = NumberBytes /\ Len(m) = NumberBytes /\ Len(y) = NumberBytes
  BY <1>2, FittingNumber
<1>4. /\ HasAt(e, 0, m)
      /\ HasAt(e, NumberBytes, Recipes!Number(0)) \/ HasAt(e, NumberBytes, Recipes!Number(1))
  BY StandardFields, FetchFields
<1>5. \A x \in Seq(Nat) : HasAt(x, 0, x)
  BY LenProperties DEF HasAt
<1> HIDE DEF e
<1>6. CASE content = s
  <2>1. HasAt(s, 0, s)
    BY <1>3, <1>5
  <2>2. s # e
    <3> SUFFICES ASSUME s = e PROVE FALSE
      OBVIOUS
    <3>1. HasAt(e, 0, s)
      BY <2>1
    <3>2. 67 = 68
      BY <1>2, <1>4, <3>1, SameNumber
    <3> QED BY <3>2
  <2> QED BY <1>3, <1>6, <2>1, <2>2 DEF e
<1>7. CASE content = m \o y
  <2> DEFINE c == m \o y
  <2>1. c \in Seq(Nat) /\ HasAt(c, Len(m), y) /\ \A x \in Seq(Nat), o \in Nat : HasAt(m, o, x) => HasAt(c, o, x)
    BY <1>3, HoldsMore
  <2> HIDE DEF c
  <2>2. HasAt(m, 0, m)
    BY <1>3, <1>5
  <2>3. HasAt(c, 0, m) /\ HasAt(c, NumberBytes, y)
    BY <1>3, <2>1, <2>2
  <2>4. c # e
    <3> SUFFICES ASSUME c = e PROVE FALSE
      OBVIOUS
    <3>1. HasAt(e, NumberBytes, y)
      BY <2>3
    <3>2. 0 = 7 \/ 1 = 7
      BY <1>2, <1>4, <3>1, SameNumber
    <3> QED BY <3>2
  <2> QED BY <1>7, <2>1, <2>3, <2>4 DEF c, e
<1> QED BY <1>1, <1>6, <1>7

(* What has been read of the dependencies.                                  *)
LEMMA HashedIs ==
    ASSUME recipe \in Recipes!Recipes, recipe.type = "standard"
    PROVE  /\ Hashed(0) = <<>>
           /\ \A k \in 0..Len(recipe.deps) : Hashed(k) \in Seq(Seq(Nat)) /\ Len(Hashed(k)) = k
           /\ \A k \in 0..(Len(recipe.deps) - 1) :
                 Append(Hashed(k), Recipes!HashValue(recipe.deps[k + 1])) = Hashed(k + 1)
           /\ [i \in DOMAIN Hashed(Len(recipe.deps)) |-> Hashed(Len(recipe.deps))[i][1]]
              = recipe.deps
<1> DEFINE d == recipe.deps
           n == Len(d)
           S == Seq(Nat)
<1>1. d \in Seq(Nat) /\ n \in Nat /\ \A i \in 1..n : d[i] \in Nat
  BY StandardIs, ElementOfSeq
<1>2. \A i \in 1..n : Recipes!HashValue(d[i]) \in S /\ Recipes!HashValue(d[i])[1] = d[i]
  BY <1>1, HashIs
<1>3. ASSUME NEW k \in 0..n
      PROVE  /\ Hashed(k) \in Seq(S) /\ Len(Hashed(k)) = k
             /\ \A i \in 1..k : Hashed(k)[i] = Recipes!HashValue(d[i])
  <2> DEFINE h == Hashed(k)
  <2> HIDE DEF n, S
  <2>1. k \in Nat /\ \A i \in 1..k : i \in 1..n
    BY <1>1
  <2>2. h = [i \in 1..k |-> Recipes!HashValue(d[i])]
    BY DEF Hashed
  <2> HIDE DEF h, d
  <2>3. h \in [1..k -> S] /\ \A i \in 1..k : h[i] = Recipes!HashValue(d[i])
    BY <1>2, <2>1, <2>2
  <2>4. h \in Seq(S) /\ Len(h) = k
    BY <2>1, <2>3
  <2> QED BY <2>3, <2>4 DEF h
<1>4. Hashed(0) = <<>>
  <2>1. 0 \in 0..n
    BY <1>1
  <2> DEFINE h == Hashed(0)
  <2>2. h \in Seq(S) /\ Len(h) = 0
    BY <1>3, <2>1
  <2> HIDE DEF h, S
  <2>3. h = <<>>
    BY <2>2, EmptySeq
  <2> QED BY <2>3 DEF h
<1>5. ASSUME NEW k \in 0..(n - 1)
      PROVE  Append(Hashed(k), Recipes!HashValue(d[k + 1])) = Hashed(k + 1)
  <2> DEFINE h == Hashed(k)
             g == Hashed(k + 1)
             x == Recipes!HashValue(d[k + 1])
             a == Append(h, x)
  <2>1. k \in 0..n /\ k + 1 \in 0..n /\ k + 1 \in 1..n /\ k \in Nat
    <3> HIDE DEF n
    <3> QED BY <1>1
  <2>2. h \in Seq(S) /\ Len(h) = k /\ \A i \in 1..k : h[i] = Recipes!HashValue(d[i])
    BY <1>3, <2>1
  <2>3. g \in Seq(S) /\ Len(g) = k + 1 /\ \A i \in 1..(k + 1) : g[i] = Recipes!HashValue(d[i])
    BY <1>3, <2>1
  <2>4. x \in S
    BY <1>2, <2>1
  <2> HIDE DEF h, g, x, S, n
  <2>5. a \in Seq(S) /\ Len(a) = k + 1 /\ a[k + 1] = x /\ \A i \in 1..k : a[i] = h[i]
    BY <2>1, <2>2, <2>4, AppendProperties
  <2> HIDE DEF a
  <2>6. ASSUME NEW i \in 1..(k + 1)
        PROVE  a[i] = g[i]
    <3>1. CASE i = k + 1
      BY <2>3, <2>5, <3>1 DEF x
    <3>2. CASE i # k + 1
      <4>1. i \in 1..k
        BY <2>1, <3>2
      <4> QED BY <2>2, <2>3, <2>5, <4>1
    <3> QED BY <3>1, <3>2
  <2>7. a = g
    BY <2>3, <2>5, <2>6, SeqEqual
  <2> QED BY <2>7 DEF a, g, h, x
<1>6. [i \in DOMAIN Hashed(n) |-> Hashed(n)[i][1]] = d
  <2> DEFINE h == Hashed(n)
  <2>1. n \in 0..n
    BY <1>1
  <2>2. h \in Seq(S) /\ Len(h) = n /\ \A i \in 1..n : h[i] = Recipes!HashValue(d[i])
    BY <1>3, <2>1
  <2> HIDE DEF h
  <2>3. DOMAIN h = 1..n /\ \A i \in 1..n : h[i][1] = d[i]
    BY <1>2, <2>2, LenProperties
  <2>4. d = [i \in 1..n |-> d[i]]
    BY <1>1, LenProperties
  <2>5. [i \in DOMAIN h |-> h[i][1]] = d
    BY <2>3, <2>4
  <2> QED BY <2>5 DEF h
<1> QED BY <1>3, <1>4, <1>5, <1>6

-----------------------------------------------------------------------------
(* Writing.                                                                 *)
LEMMA StreamInit ==
    ASSUME CommonInit
    PROVE  StreamInv
<1>1. CASE StreamRests
  BY <1>1 DEF StreamRests, StreamInv
<1>2. CASE Recipes!Init
  <2> DEFINE W == Recipes!Writes(recipe)
             e == Recipes!Encoding(recipe)
  <2>1. /\ recipe \in Recipes!Recipes /\ writes = W /\ content = <<>>
        /\ rest = <<>> /\ place = "writing" /\ atEnd = FALSE
        /\ got = Recipes!NothingRead /\ owned = Recipes!NothingOwned /\ errors = 0
    BY <1>2 DEF Recipes!Init
  <2>2. medium \in Recipes!Media /\ capacity \in Nat
    <3>1. Recipes!BitCeil(FirstCapacity) \in Nat /\ Buffers \subseteq Nat
      BY CapacityIs, StreamBounds
    <3>2. \/ medium = "file" /\ capacity = 0
          \/ medium = "memory" /\ capacity \in Buffers \cup {Recipes!BitCeil(FirstCapacity)}
      BY <1>2, Zenon DEF Recipes!Init
    <3> DEFINE b == Recipes!BitCeil(FirstCapacity)
    <3>3. b \in Nat /\ Buffers \subseteq Nat /\ (capacity = 0 \/ capacity \in Buffers \cup {b})
      BY <3>1, <3>2
    <3> HIDE DEF b
    <3>4. capacity \in Nat
      <4>1. CASE capacity \in Buffers
        BY <3>3, <4>1
      <4>2. CASE capacity = 0 \/ capacity = b
        BY <3>3, <4>2
      <4> QED BY <3>3, <4>1, <4>2
    <3>5. medium \in Recipes!Media
      BY <3>2 DEF Recipes!Media
    <3> QED BY <3>4, <3>5
  <2>3. StreamTyped
    BY <2>1, <2>2 DEF StreamTyped
  <2>4. /\ W \in Seq(Seq(Nat)) /\ Len(W) \in Nat /\ FieldEnd(recipe, 0) = 0
    BY <2>1, FieldOfWrite
  <2> HIDE DEF W, e
  <2>5. W = SubSeq(W, 0 + 1, Len(W))
    <3>1. 0 + 1 = 1
      OBVIOUS
    <3> QED BY <2>4, <3>1, SubSeqFull
  <2>6. SubSeq(e, 1, 0) = <<>>
    BY SubSeqEmpty
  <2>7. 0 \in 0..Len(W)
    BY <2>4
  <2>8. writes = SubSeq(W, 0 + 1, Len(W)) /\ content = SubSeq(e, 1, FieldEnd(recipe, 0))
    BY <2>1, <2>4, <2>5, <2>6
  <2>9. InBuffer
    BY <2>1, <2>2 DEF InBuffer
  <2>10. WritingRecipe
    BY <2>1, <2>7, <2>8, <2>9 DEF WritingRecipe, Unread, W, e
  <2> QED BY <2>3, <2>10 DEF StreamInv
<1> QED BY <1>1, <1>2 DEF CommonInit

LEMMA WriteKept ==
    ASSUME StreamTyped, WritingRecipe, Recipes!Write
    PROVE  StreamInv'
<1> DEFINE W == Recipes!Writes(recipe)
           e == Recipes!Encoding(recipe)
           x == Head(writes)
<1>1. PICK j \in 0..Len(W) :
          /\ writes = SubSeq(W, j + 1, Len(W))
          /\ content = SubSeq(e, 1, FieldEnd(recipe, j))
  BY DEF WritingRecipe
<1>2. /\ recipe \in Recipes!Recipes /\ medium \in Recipes!Media
      /\ capacity \in Nat /\ errors \in Nat /\ content \in Seq(Nat)
  BY DEF StreamTyped
<1>3. /\ recipe' = recipe /\ medium' = medium /\ rest' = rest /\ atEnd' = atEnd
      /\ got' = got /\ owned' = owned /\ writes # <<>>
  BY DEF Recipes!Write, Recipes!NotReading
<1>4. CASE place' = "panic"
  BY <1>4 DEF StreamInv
<1>5. CASE /\ content' = content \o x /\ writes' = Tail(writes)
           /\ capacity' = IF medium = "memory" THEN Recipes!Grown(Len(x)) ELSE 0
           /\ errors' = errors /\ place' = place
  <2>1. /\ e \in Seq(Nat) /\ Len(e) \in Nat /\ W \in Seq(Seq(Nat)) /\ Len(W) \in Nat
        /\ \A i \in 0..(Len(W) - 1) :
               /\ FieldEnd(recipe, i) \in Nat /\ W[i + 1] \in Seq(Nat)
               /\ FieldEnd(recipe, i + 1) = FieldEnd(recipe, i) + Len(W[i + 1])
               /\ HasAt(e, FieldEnd(recipe, i), W[i + 1])
    BY <1>2, FieldOfWrite
  <2> HIDE DEF W, e
  <2>2. j # Len(W)
    <3> SUFFICES ASSUME j = Len(W) PROVE FALSE
      OBVIOUS
    <3>1. SubSeq(W, j + 1, Len(W)) = <<>>
      BY <2>1, SubSeqEmpty
    <3> QED BY <1>1, <1>3, <3>1
  <2>3. /\ j \in 0..(Len(W) - 1) /\ j + 1 \in 1..Len(W) /\ j + 1 \in 0..Len(W)
        /\ Len(W) \in (j + 1)..Len(W)
    BY <2>1, <2>2
  <2>4. x = W[j + 1] /\ writes' = SubSeq(W, (j + 1) + 1, Len(W))
    BY <1>1, <1>5, <2>1, <2>3, HeadTailOfSubSeq
  <2>5. /\ x \in Seq(Nat) /\ FieldEnd(recipe, j) \in Nat /\ HasAt(e, FieldEnd(recipe, j), x)
        /\ FieldEnd(recipe, j + 1) = FieldEnd(recipe, j) + Len(x)
    BY <2>1, <2>3, <2>4
  <2> HIDE DEF x
  <2>6. content' = SubSeq(e, 1, FieldEnd(recipe, j + 1))
    <3> DEFINE o == FieldEnd(recipe, j)
    <3>1. o \in Nat /\ HasAt(e, o, x) /\ content = SubSeq(e, 1, o) /\ FieldEnd(recipe, j + 1) = o + Len(x)
      BY <1>1, <2>5
    <3> HIDE DEF o
    <3>2. SubSeq(e, 1, o) \o x = SubSeq(e, 1, o + Len(x))
      BY <2>1, <2>5, <3>1, NextPart
    <3> QED BY <1>5, <3>1, <3>2
  <2>7. content' \in Seq(Nat) /\ Len(content') = Len(content) + Len(x)
        /\ Len(content) \in Nat /\ Len(x) \in Nat
    BY <1>2, <1>5, <2>5, Joined
  <2>8. capacity' \in Nat /\ (medium = "memory" => Len(content') <= capacity')
    <3> DEFINE n == Len(content) + Len(x)
    <3>1. n \in Nat
      BY <2>7
    <3>2. Recipes!BitCeil(n) \in Nat /\ Recipes!BitCeil(n) >= n
      BY <3>1, CapacityIs
    <3>3. Recipes!Grown(Len(x)) = IF n > capacity THEN Recipes!BitCeil(n) ELSE capacity
      BY DEF Recipes!Grown
    <3>4. Len(content') = n
      BY <2>7
    <3> HIDE DEF n
    <3> QED BY <1>2, <1>5, <3>1, <3>2, <3>3, <3>4
  <2>9. StreamTyped'
    BY <1>2, <1>3, <1>5, <2>7, <2>8 DEF StreamTyped, Recipes!Media
  <2>10. Unread' /\ InBuffer' /\ place' = "writing"
    BY <1>3, <1>5, <2>8 DEF WritingRecipe, Unread, InBuffer, Recipes!NothingRead, Recipes!NothingOwned
  <2>11. WritingRecipe'
    BY <1>3, <2>3, <2>4, <2>6, <2>10 DEF WritingRecipe, W, e
  <2> QED BY <2>9, <2>11 DEF StreamInv
<1> QED BY <1>4, <1>5 DEF Recipes!Write, Recipes!NoError

LEMMA CloseKept ==
    ASSUME StreamTyped, WritingRecipe, Recipes!Close
    PROVE  StreamInv'
<1> DEFINE W == Recipes!Writes(recipe)
           e == Recipes!Encoding(recipe)
<1>1. PICK j \in 0..Len(W) :
          /\ writes = SubSeq(W, j + 1, Len(W))
          /\ content = SubSeq(e, 1, FieldEnd(recipe, j))
  BY DEF WritingRecipe
<1>2. /\ recipe \in Recipes!Recipes /\ medium \in Recipes!Media
      /\ capacity \in Nat /\ errors \in Nat /\ content \in Seq(Nat)
  BY DEF StreamTyped
<1>3. /\ recipe' = recipe /\ medium' = medium /\ rest' = rest /\ atEnd' = atEnd
      /\ got' = got /\ owned' = owned /\ writes = <<>> /\ place' = "written" /\ capacity' = capacity
  BY DEF Recipes!Close, Recipes!NotReading
<1>4. /\ e \in Seq(Nat) /\ Len(e) \in Nat /\ W \in Seq(Seq(Nat)) /\ Len(W) \in Nat
      /\ FieldEnd(recipe, Len(W)) = Len(e)
  BY <1>2, FieldOfWrite
<1> HIDE DEF W, e
<1>5. j = Len(W)
  <2> SUFFICES ASSUME j # Len(W) PROVE FALSE
    OBVIOUS
  <2>1. j + 1 \in 1..Len(W) /\ Len(W) \in (j + 1)..Len(W)
    BY <1>4
  <2>2. \A i \in (j + 1)..Len(W) : W[i] \in Seq(Nat)
    <3>1. \A i \in (j + 1)..Len(W) : i \in 1..Len(W)
      BY <1>4
    <3> QED BY <1>4, <3>1, ElementOfSeq
  <2> DEFINE p == j + 1
  <2>3. p \in Int /\ Len(W) \in Int /\ p <= Len(W)
    BY <1>4, <2>1
  <2> HIDE DEF p
  <2>4. Len(SubSeq(W, p, Len(W))) = Len(W) - p + 1
    <3>1. \A i \in p..Len(W) : W[i] \in Seq(Nat)
      BY <2>2 DEF p
    <3> QED BY <2>3, <3>1, SubSeqProperties
  <2>5. SubSeq(W, p, Len(W)) = <<>>
    BY <1>1, <1>3 DEF p
  <2>6. Len(W) - p + 1 = 0
    BY <2>4, <2>5
  <2> QED BY <2>3, <2>6
<1>6. content = e
  BY <1>1, <1>4, <1>5, SubSeqFull
<1>7. CASE content' = content /\ errors' = errors
  <2>1. Len(e) \in 0..Len(e) /\ content' = SubSeq(e, 1, Len(e))
    BY <1>4, <1>6, <1>7, SubSeqFull
  <2>2. IsCutOff(content)'
    BY <1>3, <2>1 DEF IsCutOff, e
  <2>3. StreamTyped'
    BY <1>2, <1>3, <1>7 DEF StreamTyped, Recipes!Media
  <2>4. Unread' /\ InBuffer'
    BY <1>3, <1>7 DEF WritingRecipe, Unread, InBuffer, Recipes!NothingRead, Recipes!NothingOwned
  <2>5. content' = Recipes!Encoding(recipe')
    BY <1>3, <1>6, <1>7 DEF e
  <2>6. WrittenRecipe'
    BY <1>3, <2>2, <2>4, <2>5 DEF WrittenRecipe
  <2> QED BY <2>3, <2>6 DEF StreamInv
<1>8. CASE /\ medium = "file" /\ errors' = errors + 1
           /\ \E n \in 0..(Len(content) - 1) : content' = SubSeq(content, 1, n)
  <2>1. PICK n \in 0..(Len(e) - 1) : content' = SubSeq(e, 1, n)
    BY <1>6, <1>8
  <2>2. n \in 0..Len(e)
    BY <1>4
  <2>3. IsCutOff(content)'
    BY <1>3, <2>1, <2>2 DEF IsCutOff, e
  <2>4. content' \in Seq(Nat)
    BY <1>4, <2>1, <2>2, Cut
  <2>5. StreamTyped'
    BY <1>2, <1>3, <1>8, <2>4 DEF StreamTyped, Recipes!Media
  <2>6. Unread' /\ InBuffer' /\ errors' # 0
    BY <1>2, <1>3, <1>8 DEF WritingRecipe, Unread, InBuffer, Recipes!NothingRead, Recipes!NothingOwned
  <2>7. WrittenRecipe'
    BY <1>3, <2>3, <2>6 DEF WrittenRecipe
  <2> QED BY <2>5, <2>7 DEF StreamInv
<1> QED BY <1>7, <1>8 DEF Recipes!Close, Recipes!NoError, Recipes!Error

LEMMA OpenKept ==
    ASSUME StreamTyped, WrittenRecipe, Recipes!Open
    PROVE  StreamInv'
<1> DEFINE e == Recipes!Encoding(recipe)
<1>1. /\ recipe \in Recipes!Recipes /\ medium \in Recipes!Media
      /\ capacity \in Nat /\ errors \in Nat /\ content \in Seq(Nat)
  BY DEF StreamTyped
<1>2. /\ recipe' = recipe /\ medium' \in Recipes!Media /\ rest' = content' /\ atEnd' = FALSE
      /\ got' = Recipes!NothingRead /\ owned' = Recipes!NothingOwned
      /\ place' = "magic" /\ capacity' = 0 /\ errors' = errors
      /\ content' \in {SubSeq(content, 1, n) : n \in 0..Len(content)} \cup Recipes!Foreign
  BY DEF Recipes!Open, WrittenRecipe, Unread
<1>3. e \in Seq(Nat) /\ Len(e) \in Nat /\ FieldEnd(recipe, 0) = 0
  BY <1>1, FieldOfWrite
<1> HIDE DEF e
<1>4. ASSUME content' \in Recipes!Foreign
      PROVE  content' \in Seq(Nat)
  <2>1. content' = Recipes!Number(68) \/ content' = Recipes!Number(67) \o Recipes!Number(7)
    BY <1>4 DEF Recipes!Foreign, Recipes!CalcMagic
  <2>2. Fits(7) /\ Fits(67) /\ Fits(68)
    BY SmallFit
  <2>3. /\ Recipes!Number(67) \in Seq(Nat) /\ Recipes!Number(68) \in Seq(Nat)
        /\ Recipes!Number(7) \in Seq(Nat)
    BY <2>2, FittingNumber
  <2> QED BY <2>1, <2>3, Joined
<1>5. ASSUME content' \in {SubSeq(content, 1, n) : n \in 0..Len(content)}
      PROVE  content' \in Seq(Nat) /\ IsCutOff(content)'
  <2>1. PICK l \in 0..Len(e) : content = SubSeq(e, 1, l)
    BY DEF WrittenRecipe, IsCutOff, e
  <2>2. PICK n \in 0..Len(content) : content' = SubSeq(content, 1, n)
    BY <1>5
  <2>3. Len(content) = l
    BY <1>3, <2>1, Cut
  <2>4. n \in 0..l /\ n \in 0..Len(e)
    BY <1>3, <2>2, <2>3
  <2>5. content' = SubSeq(e, 1, n)
    BY <1>3, <2>1, <2>2, <2>4, CutTwice
  <2>6. content' \in Seq(Nat)
    BY <1>3, <2>4, <2>5, Cut
  <2>7. IsCutOff(content)'
    BY <1>2, <2>4, <2>5 DEF IsCutOff, e
  <2> QED BY <2>6, <2>7
<1>6. content' \in Seq(Nat) /\ (IsCutOff(content)' \/ content' \in Recipes!Foreign)
  BY <1>2, <1>4, <1>5
<1>7. StreamTyped'
  BY <1>1, <1>2, <1>6 DEF StreamTyped, Recipes!Media
<1>8. ReadAt("magic", 0, Recipes!NothingRead, "none")'
  <2>1. FieldEnd(recipe', 0) = 0
    BY <1>2, <1>3
  <2>2. Len(content') \in Nat /\ rest' = SubSeq(content', 1, Len(content'))
    BY <1>2, <1>6, LenProperties, SubSeqFull
  <2>3. Past(0)'
    BY <1>2, <2>1, <2>2 DEF Past
  <2> QED BY <1>2, <2>3 DEF ReadAt, Recipes!NothingRead, Recipes!NothingOwned
<1>9. ReadingKind'
  BY <1>6, <1>8 DEF ReadingKind
<1> QED BY <1>7, <1>9 DEF StreamInv

-----------------------------------------------------------------------------
(* Reading.  What one call reads of a file that begins as e does.           *)
LEMMA ReadFrom ==
    ASSUME NEW e \in Seq(Nat), NEW l \in 0..Len(e), NEW o \in Nat, NEW x \in Seq(Nat),
           HasAt(e, o, x), o <= l, content = SubSeq(e, 1, l),
           rest = SubSeq(content, o + 1, Len(content)), atEnd => rest = <<>>,
           Recipes!Asked = Len(x)
    PROVE  /\ Recipes!Truncated => content # e
           /\ ~Recipes!Truncated =>
                 /\ SubSeq(rest, 1, Recipes!Got) = x
                 /\ o + Len(x) <= Len(content)
                 /\ SubSeq(rest, Recipes!Got + 1, Len(rest))
                      = SubSeq(content, (o + Len(x)) + 1, Len(content))
                 /\ atEnd \/ Recipes!EndsNow => SubSeq(rest, Recipes!Got + 1, Len(rest)) = <<>>
<1> DEFINE n == Len(x)
           g == Recipes!Got
<1>1. /\ content \in Seq(Nat) /\ Len(content) = l /\ rest \in Seq(Nat) /\ Len(rest) = l - o
      /\ n <= Len(rest) =>
            /\ SubSeq(rest, 1, n) = x /\ o + n <= Len(content)
            /\ SubSeq(rest, n + 1, Len(rest)) = SubSeq(content, (o + n) + 1, Len(content))
  <2>1. IsNext(content, rest, l, o, x)
    BY NextRead
  <2> QED BY <2>1 DEF IsNext
<1>2. n \in Nat /\ Len(rest) \in Nat /\ Len(e) \in Nat /\ o + n <= Len(e) /\ Recipes!Asked = n
      /\ Len(content) \in Nat
  BY <1>1, LenProperties DEF HasAt
<1>3. g = IF n <= Len(rest) THEN n ELSE Len(rest)
  <2>1. CASE atEnd
    <3>1. Len(rest) = 0
      BY <2>1
    <3>2. g = 0
      BY <2>1 DEF Recipes!Got
    <3> QED BY <1>2, <3>1, <3>2
  <2>2. CASE ~atEnd
    <3>1. g = Recipes!Min({n, Len(rest)})
      BY <1>2, <2>2 DEF Recipes!Got
    <3> DEFINE r == Len(rest)
    <3>2. n \in Int /\ r \in Int
      BY <1>2
    <3> HIDE DEF n, r
    <3>3. Recipes!Min({n, r}) = IF n <= r THEN n ELSE r
      BY <3>2, LesserIs
    <3> QED BY <3>1, <3>3 DEF r
  <2> QED BY <2>1, <2>2
<1>4. Recipes!Truncated <=> g < n
  BY <1>2 DEF Recipes!Truncated
<1>5. Recipes!EndsNow => IF medium = "file" THEN g < n ELSE g = Len(rest)
  BY <1>2 DEF Recipes!EndsNow
<1> HIDE DEF n, g
<1>6. ASSUME g < n
      PROVE  content # e
  <2>1. Len(rest) < n
    BY <1>2, <1>3, <1>6
  <2>2. Len(content) < Len(e)
    BY <1>1, <1>2, <2>1
  <2> QED BY <1>2, <2>2
<1>7. ASSUME ~(g < n)
      PROVE  /\ SubSeq(rest, 1, g) = x /\ o + n <= Len(content)
             /\ SubSeq(rest, g + 1, Len(rest)) = SubSeq(content, (o + n) + 1, Len(content))
             /\ atEnd \/ Recipes!EndsNow => SubSeq(rest, g + 1, Len(rest)) = <<>>
  <2>1. g = n /\ n <= Len(rest)
    BY <1>2, <1>3, <1>7
  <2>2. ASSUME atEnd \/ Recipes!EndsNow
        PROVE  g = Len(rest)
    <3>1. CASE atEnd
      <4>1. Len(rest) = 0
        BY <3>1
      <4> QED BY <1>2, <2>1, <4>1
    <3>2. CASE Recipes!EndsNow
      BY <1>5, <1>7, <3>2
    <3> QED BY <2>2, <3>1, <3>2
  <2>3. SubSeq(rest, Len(rest) + 1, Len(rest)) = <<>>
    <3>1. Len(rest) + 1 \in Int /\ Len(rest) \in Int /\ Len(rest) < Len(rest) + 1
      BY <1>2
    <3> QED BY <3>1, SubSeqEmpty
  <2> QED BY <1>1, <2>1, <2>2, <2>3
<1> QED BY <1>4, <1>6, <1>7 DEF n, g

(* The reader gives up: what it has allocated is freed.                     *)
LEMMA GivenUp ==
    ASSUME StreamTyped, NEW name \in {"none", "held"}, owned = [name |-> name, build |-> "none"],
           content # Recipes!Encoding(recipe),
           UNCHANGED <<recipe, medium, writes, capacity, content>>, errors' \in Nat,
           Recipes!GiveUp(owned) \/ Recipes!GiveUp(Recipes!Holds("held"))
    PROVE  StreamInv'
<1>1. place' = "null" /\ recipe' = recipe /\ content' = content
  BY DEF Recipes!GiveUp
<1>2. \A f \in DOMAIN owned' : owned'[f] \in {"none", "freed"}
  <2> DEFINE o == Recipes!Holds("held")
  <2>1. /\ DOMAIN o = {"name", "build"} /\ DOMAIN owned = {"name", "build"}
        /\ \A f \in {"name", "build"} : o[f] \in {"none", "held"} /\ owned[f] \in {"none", "held"}
    BY DEF Recipes!Holds
  <2> HIDE DEF o
  <2>2. owned' = Recipes!Freed(owned) \/ owned' = Recipes!Freed(o)
    BY DEF Recipes!GiveUp, o
  <2>3. CASE owned' = Recipes!Freed(owned)
    BY <2>1, <2>3 DEF Recipes!Freed
  <2>4. CASE owned' = Recipes!Freed(o)
    BY <2>1, <2>4 DEF Recipes!Freed
  <2> QED BY <2>2, <2>3, <2>4
<1>3. content' # Recipes!Encoding(recipe')
  BY <1>1
<1>4. Recipes!ReadBackOrNull'
  BY <1>1, <1>3 DEF Recipes!ReadBackOrNull
<1>5. Recipes!TextsFreed'
  BY <1>2 DEF Recipes!TextsFreed
<1>6. StreamTyped'
  BY DEF StreamTyped, Recipes!Media
<1> QED BY <1>1, <1>4, <1>5, <1>6 DEF StreamInv, Finished

(* A call fails.                                                            *)
LEMMA ReadFailed ==
    ASSUME StreamTyped, Recipes!Error, Recipes!GiveUp(Recipes!Holds("freed")),
           UNCHANGED <<recipe, medium, writes, capacity, content>>
    PROVE  StreamInv'
<1>1. place' = "null" /\ errors' = errors + 1
  BY DEF Recipes!GiveUp, Recipes!Error
<1>2. errors' \in Nat /\ errors' > 0
  BY <1>1 DEF StreamTyped
<1>3. Recipes!ReadBackOrNull' /\ Recipes!TextsFreed'
  BY <1>1, <1>2 DEF Recipes!ReadBackOrNull, Recipes!TextsFreed
<1>4. StreamTyped'
  BY <1>2 DEF StreamTyped, Recipes!Media
<1> QED BY <1>1, <1>3, <1>4 DEF StreamInv, Finished

(* One call on a file that may be cut off: the reader ends, or it gets what *)
(* has been written there.                                                  *)
LEMMA FieldRead ==
    ASSUME StreamTyped, IsCutOff(content), Recipes!Read,
           NEW j \in 0..(Len(Recipes!Writes(recipe)) - 1), Past(j),
           Recipes!Asked = Len(Recipes!Writes(recipe)[j + 1]),
           NEW name \in {"none", "held"}, owned = [name |-> name, build |-> "none"]
    PROVE  \/ StreamInv'
           \/ /\ Recipes!Take(Recipes!Writes(recipe)[j + 1])
              /\ UNCHANGED <<recipe, medium, writes, capacity, content, errors>>
              /\ StreamTyped' /\ IsCutOff(content)' /\ Past(j + 1)'
<1> DEFINE W == Recipes!Writes(recipe)
           e == Recipes!Encoding(recipe)
           x == W[j + 1]
           o == FieldEnd(recipe, j)
<1>1. recipe \in Recipes!Recipes
  BY DEF StreamTyped
<1>2. /\ e \in Seq(Nat) /\ o \in Nat /\ x \in Seq(Nat) /\ HasAt(e, o, x)
      /\ FieldEnd(recipe, j + 1) = o + Len(x)
  BY <1>1, FieldOfWrite
<1>3. PICK l \in 0..Len(e) : content = SubSeq(e, 1, l)
  BY DEF IsCutOff
<1>4. /\ o <= Len(content) /\ rest = SubSeq(content, o + 1, Len(content))
      /\ atEnd => rest = <<>>
  BY DEF Past
<1>5. UNCHANGED <<recipe, medium, writes, capacity, content>>
  BY DEF Recipes!Read
<1>6. CASE Recipes!Error /\ Recipes!GiveUp(Recipes!Holds("freed"))
  BY <1>5, <1>6, ReadFailed
<1>7. CASE /\ rest' = SubSeq(rest, Recipes!Got + 1, Len(rest))
           /\ atEnd' = (atEnd \/ Recipes!EndsNow)
           /\ IF Recipes!Truncated THEN Recipes!GiveUp(Recipes!Holds("held"))
              ELSE Recipes!Take(SubSeq(rest, 1, Recipes!Got))
           /\ errors' = errors
  <2> HIDE DEF W, e, x, o
  <2>1. o <= l
    BY <1>2, <1>3, <1>4, Cut
  <2>2. Recipes!Asked = Len(x)
    BY DEF x, W
  <2>3. /\ Recipes!Truncated => content # e
        /\ ~Recipes!Truncated =>
              /\ SubSeq(rest, 1, Recipes!Got) = x
              /\ o + Len(x) <= Len(content)
              /\ SubSeq(rest, Recipes!Got + 1, Len(rest))
                   = SubSeq(content, (o + Len(x)) + 1, Len(content))
              /\ atEnd \/ Recipes!EndsNow => SubSeq(rest, Recipes!Got + 1, Len(rest)) = <<>>
    BY <1>2, <1>3, <1>4, <2>1, <2>2, ReadFrom
  <2>4. CASE Recipes!Truncated
    <3>1. content # Recipes!Encoding(recipe) /\ Recipes!GiveUp(Recipes!Holds("held"))
      BY <1>7, <2>3, <2>4 DEF e
    <3>2. errors' \in Nat
      BY <1>7 DEF StreamTyped
    <3> QED BY <1>5, <3>1, <3>2, GivenUp
  <2>5. CASE ~Recipes!Truncated
    <3>1. Recipes!Take(x)
      BY <1>7, <2>3, <2>5
    <3>2. StreamTyped'
      BY <1>5, <1>7 DEF StreamTyped, Recipes!Media
    <3>3. IsCutOff(content)'
      BY <1>5 DEF IsCutOff
    <3>4. /\ FieldEnd(recipe, j + 1) <= Len(content)
          /\ rest' = SubSeq(content, FieldEnd(recipe, j + 1) + 1, Len(content))
          /\ atEnd' => rest' = <<>>
      BY <1>2, <1>7, <2>3, <2>5
    <3>5. Past(j + 1)'
      BY <1>5, <3>4 DEF Past
    <3> QED BY <1>5, <1>7, <3>1, <3>2, <3>3, <3>5 DEF x, W
  <2> QED BY <2>4, <2>5
<1> QED BY <1>6, <1>7 DEF Recipes!Read, Recipes!NoError

(* Of another file all of it is what it is.                                 *)
LEMMA ForeignRead ==
    ASSUME StreamTyped, content \in Recipes!Foreign, Recipes!Read,
           NEW o \in Nat, NEW x \in Seq(Nat), HasAt(content, o, x), o <= Len(content),
           rest = SubSeq(content, o + 1, Len(content)), atEnd => rest = <<>>,
           Recipes!Asked = Len(x), owned = [name |-> "none", build |-> "none"]
    PROVE  \/ StreamInv'
           \/ /\ Recipes!Take(x)
              /\ UNCHANGED <<recipe, medium, writes, capacity, content, errors>>
              /\ StreamTyped' /\ o + Len(x) <= Len(content)
              /\ rest' = SubSeq(content, (o + Len(x)) + 1, Len(content))
              /\ atEnd' => rest' = <<>>
<1>1. UNCHANGED <<recipe, medium, writes, capacity, content>>
  BY DEF Recipes!Read
<1>2. CASE Recipes!Error /\ Recipes!GiveUp(Recipes!Holds("freed"))
  BY <1>1, <1>2, ReadFailed
<1>3. CASE /\ rest' = SubSeq(rest, Recipes!Got + 1, Len(rest))
           /\ atEnd' = (atEnd \/ Recipes!EndsNow)
           /\ IF Recipes!Truncated THEN Recipes!GiveUp(Recipes!Holds("held"))
              ELSE Recipes!Take(SubSeq(rest, 1, Recipes!Got))
           /\ errors' = errors
  <2>1. content \in Seq(Nat) /\ Len(content) \in Nat /\ Len(content) \in 0..Len(content)
    BY LenProperties DEF StreamTyped
  <2>2. content = SubSeq(content, 1, Len(content))
    BY <2>1, SubSeqFull, Zenon
  <2>3. /\ Recipes!Truncated => content # content
        /\ ~Recipes!Truncated =>
              /\ SubSeq(rest, 1, Recipes!Got) = x
              /\ o + Len(x) <= Len(content)
              /\ SubSeq(rest, Recipes!Got + 1, Len(rest))
                   = SubSeq(content, (o + Len(x)) + 1, Len(content))
              /\ atEnd \/ Recipes!EndsNow => SubSeq(rest, Recipes!Got + 1, Len(rest)) = <<>>
    BY <2>1, <2>2, ReadFrom
  <2>4. Recipes!Take(x)
    BY <1>3, <2>3
  <2>5. StreamTyped'
    BY <1>1, <1>3 DEF StreamTyped, Recipes!Media
  <2> QED BY <1>1, <1>3, <2>3, <2>4, <2>5
<1> QED BY <1>2, <1>3 DEF Recipes!Read, Recipes!NoError

(* What a beginning has.                                                    *)
LEMMA CutHas ==
    ASSUME NEW e \in Seq(Nat), NEW l \in 0..Len(e), NEW o, NEW x \in Seq(Nat),
           HasAt(e, o, x), o + Len(x) <= l
    PROVE  HasAt(SubSeq(e, 1, l), o, x)
<1> DEFINE c == SubSeq(e, 1, l)
           n == Len(x)
<1>1. /\ Len(e) \in Nat /\ n \in Nat /\ o \in Nat /\ \A i \in 1..n : e[o + i] = x[i]
  BY LenProperties DEF HasAt
<1>2. Len(c) = l /\ \A i \in 1..l : c[i] = e[i]
  <2>1. \A i \in 1..Len(e) : e[i] \in Nat
    BY ElementOfSeq
  <2>2. \A i \in 1..l : e[i] \in Nat
    BY <1>1, <2>1
  <2> QED BY <1>1, <2>2, SubSeqProperties
<1> HIDE DEF c, n
<1>3. ASSUME NEW i \in 1..n
      PROVE  c[o + i] = x[i]
  <2>1. o + i \in 1..l
    BY <1>1 DEF n
  <2> QED BY <1>1, <1>2, <2>1
<1>4. o + n <= Len(c)
  BY <1>2 DEF n
<1>5. HasAt(c, o, x)
  BY <1>1, <1>3, <1>4 DEF HasAt, n
<1> QED BY <1>5 DEF c

(* The magic number and the kind of recipe.                                 *)
LEMMA MagicKept ==
    ASSUME StreamTyped, IsCutOff(content) \/ content \in Recipes!Foreign,
           ReadAt("magic", 0, Recipes!NothingRead, "none"), Recipes!Read
    PROVE  StreamInv'
<1> DEFINE W == Recipes!Writes(recipe)
           m == Recipes!Number(67)
           s == Recipes!Number(68)
           N == NumberBytes
<1>1. recipe \in Recipes!Recipes /\ content \in Seq(Nat) /\ errors \in Nat
  BY DEF StreamTyped
<1>2. /\ place = "magic" /\ got = Recipes!NothingRead /\ Past(0)
      /\ owned = [name |-> "none", build |-> "none"] /\ Recipes!Asked = N
  BY DEF ReadAt, Recipes!Asked
<1>3. /\ W[1] = m /\ Len(W) \in Nat /\ 0 \in 0..(Len(W) - 1)
      /\ FieldEnd(recipe, 0) = 0 /\ FieldEnd(recipe, 1) = N /\ N \in Nat
  <2>1. /\ Len(W) \in Nat /\ FieldEnd(recipe, 0) = 0
    BY <1>1, FieldOfWrite
  <2>2. W[1] = m /\ Len(W) >= 1
    <3>1. CASE recipe.type = "standard"
      <4>1. W[1] = m /\ Len(W) = 7 + Len(recipe.deps) /\ Len(recipe.deps) \in Nat
        BY <1>1, <3>1, StandardWrites, StandardIs
      <4> HIDE DEF W, m
      <4> QED BY <4>1
    <3>2. CASE recipe.type # "standard"
      <4>1. W[1] = m /\ Len(W) = 6
        BY <1>1, <3>2, FetchWrites
      <4> HIDE DEF W, m
      <4> QED BY <4>1
    <3> QED BY <3>1, <3>2
  <2>3. FieldEnd(recipe, 1) = N /\ N \in Nat
    BY StreamBounds DEF FieldEnd, StandardEnd, FetchEnd
  <2> QED BY <2>1, <2>2, <2>3
<1>4. Fits(67) /\ Fits(68)
  BY SmallFit
<1>5. /\ m \in Seq(Nat) /\ Len(m) = N /\ Recipes!ValueOf(m) = 67
      /\ s \in Seq(Nat) /\ Len(s) = N /\ Recipes!ValueOf(s) = 68
  BY <1>4, FittingNumber
<1> HIDE DEF W, m, s, N
<1>6. ASSUME Recipes!Take(m)
      PROVE  /\ place' = "type" /\ got' = Recipes!NothingRead
             /\ owned' = [name |-> "none", build |-> "none"]
  BY <1>2, <1>5, <1>6 DEF Recipes!Take, Recipes!Advance, Recipes!Holds, Recipes!CalcMagic
<1>7. ASSUME HasAt(content, 0, m)
      PROVE  content # s
  <2> SUFFICES ASSUME content = s PROVE FALSE
    OBVIOUS
  <2>1. HasAt(content, 0, s)
    BY <1>5, LenProperties DEF HasAt
  <2>2. 67 = 68
    BY <1>4, <1>7, <2>1, SameNumber DEF m, s
  <2> QED BY <2>2
<1>8. ASSUME place' = "type", got' = Recipes!NothingRead, owned' = [name |-> "none", build |-> "none"],
             content' = content, recipe' = recipe, HasAt(content, 0, m),
             StreamTyped', Past(1)'
      PROVE  StreamInv'
  <2>1. ReadAt("type", 1, Recipes!NothingRead, "none")'
    BY <1>8 DEF ReadAt, Recipes!NothingRead
  <2>2. content' # Recipes!Number(68)
    BY <1>7, <1>8 DEF s
  <2>3. IsCutOff(content)' \/ content' \in Recipes!Foreign
    BY <1>8 DEF IsCutOff
  <2>4. ReadingKind'
    BY <2>1, <2>2, <2>3 DEF ReadingKind
  <2> QED BY <1>8, <2>4 DEF StreamInv
<1>9. CASE IsCutOff(content)
  <2>1. 0 + 1 = 1 /\ "none" \in {"none", "held"}
    OBVIOUS
  <2>2. Recipes!Asked = Len(W[0 + 1])
    BY <1>2, <1>3, <1>5, <2>1
  <2>3. \/ StreamInv'
        \/ /\ Recipes!Take(W[0 + 1])
           /\ UNCHANGED <<recipe, medium, writes, capacity, content, errors>>
           /\ StreamTyped' /\ IsCutOff(content)' /\ Past(0 + 1)'
    BY <1>2, <1>3, <1>9, <2>1, <2>2, FieldRead DEF W
  <2>4. CASE /\ Recipes!Take(m)
             /\ UNCHANGED <<recipe, medium, writes, capacity, content, errors>>
             /\ StreamTyped' /\ IsCutOff(content)' /\ Past(1)'
    <3> DEFINE e == Recipes!Encoding(recipe)
    <3>1. PICK l \in 0..Len(e) : content = SubSeq(e, 1, l)
      BY <1>9 DEF IsCutOff
    <3>2. e \in Seq(Nat) /\ HasAt(e, 0, m)
      <4>1. e \in Seq(Nat) /\ HasAt(e, FieldEnd(recipe, 0), W[0 + 1])
        BY <1>1, <1>3, FieldOfWrite DEF W
      <4> QED BY <1>3, <2>1, <4>1
    <3> HIDE DEF e
    <3>3. Len(content) = l
      BY <3>1, <3>2, Cut
    <3>4. FieldEnd(recipe', 1) <= Len(content')
      BY <2>4 DEF Past
    <3>5. 0 + Len(m) <= l
      BY <1>3, <1>5, <2>4, <3>3, <3>4
    <3>6. HasAt(content, 0, m)
      BY <1>5, <3>1, <3>2, <3>5, CutHas
    <3> QED BY <1>6, <1>8, <2>4, <3>6
  <2> QED BY <1>3, <2>1, <2>3, <2>4
<1>10. CASE content \in Recipes!Foreign
  <2>1. /\ 0 <= Len(content) /\ rest = SubSeq(content, 0 + 1, Len(content))
        /\ atEnd => rest = <<>>
    BY <1>2, <1>3 DEF Past
  <2>2. ASSUME HasAt(content, 0, s)
        PROVE  StreamInv'
    <3>1. \/ StreamInv'
          \/ /\ Recipes!Take(s)
             /\ UNCHANGED <<recipe, medium, writes, capacity, content, errors>>
      BY <1>2, <1>5, <1>10, <2>1, <2>2, ForeignRead
    <3>2. CASE /\ Recipes!Take(s)
               /\ UNCHANGED <<recipe, medium, writes, capacity, content, errors>>
      <4>1. Recipes!GiveUp(owned)
        BY <1>2, <1>5, <3>2 DEF Recipes!Take, Recipes!CalcMagic
      <4>2. content # Recipes!Encoding(recipe)
        BY <1>1, <1>10, ForeignIs
      <4>3. "none" \in {"none", "held"} /\ errors' \in Nat
        BY <1>1, <3>2
      <4>4. UNCHANGED <<recipe, medium, writes, capacity, content>>
        BY <3>2
      <4> QED BY <1>2, <4>1, <4>2, <4>3, <4>4, GivenUp
    <3> QED BY <3>1, <3>2
  <2>3. ASSUME HasAt(content, 0, m)
        PROVE  StreamInv'
    <3>1. \/ StreamInv'
          \/ /\ Recipes!Take(m)
             /\ UNCHANGED <<recipe, medium, writes, capacity, content, errors>>
             /\ StreamTyped' /\ 0 + Len(m) <= Len(content)
             /\ rest' = SubSeq(content, (0 + Len(m)) + 1, Len(content))
             /\ atEnd' => rest' = <<>>
      BY <1>2, <1>5, <1>10, <2>1, <2>3, ForeignRead
    <3>2. CASE /\ Recipes!Take(m)
               /\ UNCHANGED <<recipe, medium, writes, capacity, content, errors>>
               /\ StreamTyped' /\ 0 + Len(m) <= Len(content)
               /\ rest' = SubSeq(content, (0 + Len(m)) + 1, Len(content))
               /\ atEnd' => rest' = <<>>
      <4>1. FieldEnd(recipe', 1) = N
        BY <1>3, <3>2
      <4>2. 0 + Len(m) = N
        BY <1>3, <1>5
      <4>3. Past(1)'
        BY <3>2, <4>1, <4>2 DEF Past
      <4> QED BY <1>6, <1>8, <2>3, <3>2, <4>3
    <3> QED BY <3>1, <3>2
  <2> QED BY <1>1, <1>10, <2>2, <2>3, ForeignIs DEF m, s
<1> QED BY <1>9, <1>10

LEMMA TypeKept ==
    ASSUME StreamTyped, IsCutOff(content) \/ content \in Recipes!Foreign,
           content # Recipes!Number(68),
           ReadAt("type", 1, Recipes!NothingRead, "none"), Recipes!Read
    PROVE  StreamInv'
<1> DEFINE W == Recipes!Writes(recipe)
           y == Recipes!Number(7)
           N == NumberBytes
<1>1. recipe \in Recipes!Recipes /\ content \in Seq(Nat) /\ errors \in Nat
  BY DEF StreamTyped
<1>2. /\ place = "type" /\ got = Recipes!NothingRead /\ Past(1)
      /\ owned = [name |-> "none", build |-> "none"] /\ Recipes!Asked = N
  BY DEF ReadAt, Recipes!Asked
<1>3. Fits(0) /\ Fits(1) /\ Fits(7)
  BY SmallFit
<1>4. /\ Len(Recipes!Number(0)) = N /\ Recipes!ValueOf(Recipes!Number(0)) = 0
      /\ Len(Recipes!Number(1)) = N /\ Recipes!ValueOf(Recipes!Number(1)) = 1
      /\ y \in Seq(Nat) /\ Len(y) = N /\ Recipes!ValueOf(y) = 7
  BY <1>3, FittingNumber
<1>5. /\ Len(W) >= 2
      /\ W[2] = IF recipe.type = "standard" THEN Recipes!Number(0) ELSE Recipes!Number(1)
  <2>1. CASE recipe.type = "standard"
    <3>1. /\ W[2] = Recipes!Number(0) /\ Len(W) = 7 + Len(recipe.deps)
          /\ Len(recipe.deps) \in Nat
      BY <1>1, <2>1, StandardWrites, StandardIs
    <3> HIDE DEF W
    <3> QED BY <2>1, <3>1
  <2>2. CASE recipe.type # "standard"
    <3>1. W[2] = Recipes!Number(1) /\ Len(W) = 6
      BY <1>1, <2>2, FetchWrites
    <3> HIDE DEF W
    <3> QED BY <2>2, <3>1
  <2> QED BY <2>1, <2>2
<1>6. Len(W) \in Nat /\ 1 \in 0..(Len(W) - 1)
  BY <1>1, <1>5, FieldOfWrite
<1>7. FieldEnd(recipe, 1) = N /\ N \in Nat
  BY StreamBounds DEF FieldEnd, StandardEnd, FetchEnd
<1> HIDE DEF W, y, N
<1>8. CASE IsCutOff(content)
  <2>1. 1 + 1 = 2 /\ "none" \in {"none", "held"}
    OBVIOUS
  <2>2. Recipes!Asked = Len(W[1 + 1])
    BY <1>2, <1>4, <1>5, <2>1
  <2>3. \/ StreamInv'
        \/ /\ Recipes!Take(W[1 + 1])
           /\ UNCHANGED <<recipe, medium, writes, capacity, content, errors>>
           /\ StreamTyped' /\ IsCutOff(content)' /\ Past(1 + 1)'
    BY <1>2, <1>6, <1>8, <2>1, <2>2, FieldRead DEF W
  <2>4. CASE /\ Recipes!Take(W[2])
             /\ UNCHANGED <<recipe, medium, writes, capacity, content, errors>>
             /\ StreamTyped' /\ IsCutOff(content)' /\ Past(2)'
    <3>1. CASE recipe.type = "standard"
      <4>1. Recipes!ValueOf(W[2]) = 0
        BY <1>4, <1>5, <3>1
      <4>2. /\ place' = "name_length" /\ got' = Recipes!NothingRead
            /\ owned' = [name |-> "none", build |-> "none"]
        BY <1>2, <2>4, <4>1 DEF Recipes!Take, Recipes!Advance, Recipes!Holds, Recipes!TypeNumber
      <4>3. ReadAt("name_length", 2, Recipes!NothingRead, "none")'
        BY <2>4, <4>2 DEF ReadAt, Recipes!NothingRead
      <4>4. ReadingName'
        BY <2>4, <3>1, <4>3 DEF ReadingName
      <4> QED BY <2>4, <4>4 DEF StreamInv
    <3>2. CASE recipe.type # "standard"
      <4>1. Recipes!ValueOf(W[2]) = 1
        BY <1>4, <1>5, <3>2
      <4>2. place' \in {"found", "null"} /\ owned' = owned
        BY <1>2, <2>4, <4>1 DEF Recipes!Take, Recipes!TypeNumber
      <4>3. Recipes!ReadBackOrNull'
        BY <2>4, <3>2 DEF Recipes!ReadBackOrNull
      <4>4. Recipes!TextsFreed'
        BY <1>2, <4>2 DEF Recipes!TextsFreed
      <4> QED BY <2>4, <4>2, <4>3, <4>4 DEF StreamInv, Finished
    <3> QED BY <3>1, <3>2
  <2> QED BY <2>1, <2>3, <2>4
<1>9. CASE content \in Recipes!Foreign
  <2>1. HasAt(content, N, y) /\ content # Recipes!Encoding(recipe)
    BY <1>1, <1>9, ForeignIs DEF N, y
  <2>2. /\ N <= Len(content) /\ rest = SubSeq(content, N + 1, Len(content))
        /\ atEnd => rest = <<>>
    BY <1>2, <1>7 DEF Past
  <2>3. \/ StreamInv'
        \/ /\ Recipes!Take(y)
           /\ UNCHANGED <<recipe, medium, writes, capacity, content, errors>>
    BY <1>2, <1>4, <1>7, <1>9, <2>1, <2>2, ForeignRead
  <2>4. CASE /\ Recipes!Take(y)
             /\ UNCHANGED <<recipe, medium, writes, capacity, content, errors>>
    <3>1. Recipes!GiveUp(owned)
      BY <1>2, <1>4, <2>4 DEF Recipes!Take, Recipes!TypeNumber
    <3>2. "none" \in {"none", "held"} /\ errors' \in Nat
      BY <1>1, <2>4
    <3>3. UNCHANGED <<recipe, medium, writes, capacity, content>>
      BY <2>4
    <3> QED BY <1>2, <2>1, <3>1, <3>2, <3>3, GivenUp
  <2> QED BY <2>3, <2>4
<1> QED BY <1>8, <1>9

(* The name and the number of dependencies.                                 *)
LEMMA NameKept ==
    ASSUME StreamTyped, ReadingName, Recipes!Read
    PROVE  StreamInv'
<1> DEFINE W == Recipes!Writes(recipe)
           a == Len(recipe.name)
           n == Len(recipe.deps)
           E == UNCHANGED <<recipe, medium, writes, capacity, content, errors>>
<1>1. recipe \in Recipes!Recipes /\ recipe.type = "standard" /\ IsCutOff(content)
  BY DEF StreamTyped, ReadingName
<1>2. /\ a \in Nat /\ n \in Nat /\ Fits(a) /\ Fits(n)
      /\ Len(W) = 7 + n /\ W[3] = Recipes!Number(a) /\ W[4] = recipe.name /\ W[5] = Recipes!Number(n)
  BY <1>1, StandardIs, StandardWrites
<1>3. /\ Recipes!ValueOf(Recipes!Number(a)) = a /\ Len(Recipes!Number(a)) = NumberBytes
      /\ Recipes!ValueOf(Recipes!Number(n)) = n /\ Len(Recipes!Number(n)) = NumberBytes
  BY <1>2, FittingNumber
<1> HIDE DEF W, a, n
<1>4. /\ 2 \in 0..(Len(W) - 1) /\ 3 \in 0..(Len(W) - 1) /\ 4 \in 0..(Len(W) - 1)
      /\ 2 + 1 = 3 /\ 3 + 1 = 4 /\ 4 + 1 = 5
      /\ "none" \in {"none", "held"} /\ "held" \in {"none", "held"}
  BY <1>2
<1>5. CASE ReadAt("name_length", 2, Recipes!NothingRead, "none")
  <2>1. /\ place = "name_length" /\ got = Recipes!NothingRead /\ Past(2)
        /\ owned = [name |-> "none", build |-> "none"] /\ Recipes!Asked = NumberBytes
    BY <1>5 DEF ReadAt, Recipes!Asked
  <2>2. Recipes!Asked = Len(W[2 + 1])
    BY <1>2, <1>3, <1>4, <2>1
  <2>3. \/ StreamInv'
        \/ Recipes!Take(W[2 + 1]) /\ E /\ StreamTyped' /\ IsCutOff(content)' /\ Past(2 + 1)'
    BY <1>1, <1>4, <2>1, <2>2, FieldRead DEF W
  <2>4. CASE Recipes!Take(Recipes!Number(a)) /\ E /\ StreamTyped' /\ IsCutOff(content)' /\ Past(3)'
    <3>1. /\ place' = "name" /\ got' = Obtained(<<>>, 0, <<>>, a)
          /\ owned' = [name |-> "none", build |-> "none"]
      BY <1>3, <2>1, <2>4
      DEF Recipes!Take, Recipes!Advance, Recipes!Holds, Recipes!NothingRead, Obtained
    <3>2. recipe' = recipe
      BY <2>4
    <3>3. ReadAt("name", 3, Obtained(<<>>, 0, <<>>, Len(recipe.name)), "none")'
      BY <2>4, <3>1, <3>2 DEF ReadAt, Obtained, a
    <3>4. ReadingName'
      BY <1>1, <2>4, <3>2, <3>3 DEF ReadingName
    <3> QED BY <2>4, <3>4 DEF StreamInv
  <2> QED BY <1>2, <1>4, <2>3, <2>4
<1>6. CASE ReadAt("name", 3, Obtained(<<>>, 0, <<>>, Len(recipe.name)), "none")
  <2>1. /\ place = "name" /\ got = Obtained(<<>>, 0, <<>>, a) /\ Past(3)
        /\ owned = [name |-> "none", build |-> "none"] /\ Recipes!Asked = a
    BY <1>6 DEF ReadAt, Recipes!Asked, Obtained, a
  <2>2. Recipes!Asked = Len(W[3 + 1])
    BY <1>2, <1>4, <2>1 DEF a
  <2>3. \/ StreamInv'
        \/ Recipes!Take(W[3 + 1]) /\ E /\ StreamTyped' /\ IsCutOff(content)' /\ Past(3 + 1)'
    BY <1>1, <1>4, <2>1, <2>2, FieldRead DEF W
  <2>4. CASE Recipes!Take(recipe.name) /\ E /\ StreamTyped' /\ IsCutOff(content)' /\ Past(4)'
    <3>1. /\ place' = "count" /\ got' = Obtained(recipe.name, 0, <<>>, a)
          /\ owned' = [name |-> "held", build |-> "none"]
      BY <2>1, <2>4
      DEF Recipes!Take, Recipes!Advance, Recipes!Holds, Obtained
    <3>2. recipe' = recipe
      BY <2>4
    <3>3. ReadAt("count", 4, Obtained(recipe.name, 0, <<>>, Len(recipe.name)), "held")'
      BY <2>4, <3>1, <3>2 DEF ReadAt, Obtained, a
    <3>4. ReadingName'
      BY <1>1, <2>4, <3>2, <3>3 DEF ReadingName
    <3> QED BY <2>4, <3>4 DEF StreamInv
  <2> QED BY <1>2, <1>4, <2>3, <2>4
<1>7. CASE ReadAt("count", 4, Obtained(recipe.name, 0, <<>>, Len(recipe.name)), "held")
  <2>1. /\ place = "count" /\ got = Obtained(recipe.name, 0, <<>>, a) /\ Past(4)
        /\ owned = [name |-> "held", build |-> "none"] /\ Recipes!Asked = NumberBytes
    BY <1>7 DEF ReadAt, Recipes!Asked, a
  <2>2. Recipes!Asked = Len(W[4 + 1])
    BY <1>2, <1>3, <1>4, <2>1
  <2>3. \/ StreamInv'
        \/ Recipes!Take(W[4 + 1]) /\ E /\ StreamTyped' /\ IsCutOff(content)' /\ Past(4 + 1)'
    BY <1>1, <1>4, <2>1, <2>2, FieldRead DEF W
  <2>4. CASE Recipes!Take(Recipes!Number(n)) /\ E /\ StreamTyped' /\ IsCutOff(content)' /\ Past(5)'
    <3>1. /\ place' = IF n > 0 THEN "hash" ELSE "build_length"
          /\ got' = Obtained(recipe.name, n, <<>>, a)
          /\ owned' = [name |-> "held", build |-> "none"]
      BY <1>3, <2>1, <2>4 DEF Recipes!Take, Obtained
    <3>2. recipe' = recipe /\ Hashed(0)' = <<>>
      BY <1>1, <2>4, HashedIs DEF Hashed
    <3>3. CASE n > 0
      <4>1. 5 + 0 = 5 /\ 0 \in 0..(Len(recipe.deps) - 1)
        BY <1>2, <3>3 DEF n
      <4>2. Past(5 + 0)'
        BY <2>4, <4>1 DEF Past
      <4>3. ReadAt("hash", 5 + 0, Obtained(recipe.name, Len(recipe.deps), Hashed(0), Len(recipe.name)), "held")'
        BY <3>1, <3>2, <3>3, <4>2 DEF ReadAt, Obtained, a, n
      <4>4. ReadingHash'
        BY <1>1, <2>4, <3>2, <4>1, <4>3 DEF ReadingHash
      <4> QED BY <2>4, <4>4 DEF StreamInv
    <3>4. CASE ~(n > 0)
      <4>1. n = 0 /\ 5 + n = 5
        BY <1>2, <3>4
      <4>2. Past(5 + n)'
        <5>1. n' = n
          BY <3>2 DEF n
        <5> QED BY <2>4, <4>1, <5>1 DEF Past
      <4>3. ReadAt("build_length", 5 + Len(recipe.deps),
                   Obtained(recipe.name, Len(recipe.deps), Hashed(Len(recipe.deps)), Len(recipe.name)), "held")'
        BY <2>4, <3>1, <3>2, <3>4, <4>1, <4>2 DEF ReadAt, Obtained, a, n
      <4>4. ReadingBuild'
        BY <1>1, <2>4, <3>2, <4>3 DEF ReadingBuild
      <4> QED BY <2>4, <4>4 DEF StreamInv
    <3> QED BY <3>3, <3>4
  <2> QED BY <1>2, <1>4, <2>3, <2>4
<1> QED BY <1>5, <1>6, <1>7 DEF ReadingName

(* The hashes of the dependencies, one after the other.                     *)
LEMMA HashKept ==
    ASSUME StreamTyped, ReadingHash, Recipes!Read
    PROVE  StreamInv'
<1> DEFINE W == Recipes!Writes(recipe)
           a == Len(recipe.name)
           n == Len(recipe.deps)
           E == UNCHANGED <<recipe, medium, writes, capacity, content, errors>>
<1>1. recipe \in Recipes!Recipes /\ recipe.type = "standard" /\ IsCutOff(content)
  BY DEF StreamTyped, ReadingHash
<1>2. PICK k \in 0..(n - 1) :
          ReadAt("hash", 5 + k, Obtained(recipe.name, n, Hashed(k), a), "held")
  BY DEF ReadingHash
<1>3. /\ n \in Nat /\ Len(W) = 7 + n /\ recipe.deps \in Seq(Nat)
      /\ \A i \in 1..n : W[5 + i] = Recipes!HashValue(recipe.deps[i])
  BY <1>1, StandardIs, StandardWrites
<1> HIDE DEF W, a, n
<1> DEFINE j == 5 + k
           x == W[j + 1]
           h == Hashed(k)
           g == Hashed(k + 1)
<1>4. /\ k \in Nat /\ k + 1 \in 1..n /\ j \in 0..(Len(W) - 1) /\ j + 1 = 5 + (k + 1)
      /\ "held" \in {"none", "held"} /\ k \in 0..n /\ k + 1 \in 0..n
  BY <1>3
<1>5. x = Recipes!HashValue(recipe.deps[k + 1])
  BY <1>3, <1>4
<1>6. Len(x) = HashBytes
  <2>1. recipe.deps[k + 1] \in Nat
    BY <1>3, <1>4, ElementOfSeq DEF n
  <2> QED BY <1>5, <2>1, HashIs
<1>7. Append(h, x) = g /\ Len(g) = k + 1
  BY <1>1, <1>4, <1>5, HashedIs DEF n
<1> HIDE DEF j, x, h, g
<1>8. /\ place = "hash" /\ got = Obtained(recipe.name, n, h, a) /\ Past(j)
      /\ owned = [name |-> "held", build |-> "none"] /\ Recipes!Asked = HashBytes
  BY <1>2 DEF ReadAt, Recipes!Asked, h, j
<1>9. Recipes!Asked = Len(Recipes!Writes(recipe)[j + 1])
  BY <1>6, <1>8 DEF x, W
<1>10. \/ StreamInv'
       \/ Recipes!Take(x) /\ E /\ StreamTyped' /\ IsCutOff(content)' /\ Past(j + 1)'
  BY <1>1, <1>4, <1>8, <1>9, FieldRead DEF W, x
<1>11. CASE Recipes!Take(x) /\ E /\ StreamTyped' /\ IsCutOff(content)' /\ Past(j + 1)'
  <2>1. /\ place' = Recipes!AfterHash(1) /\ got' = [got EXCEPT !.deps = Append(@, x)]
        /\ owned' = Recipes!Holds("held")
    BY <1>8, <1>11 DEF Recipes!Take, Recipes!Advance
  <2>2. got.deps = h /\ got.n = n
    BY <1>8 DEF Obtained
  <2>3. got' = Obtained(recipe.name, n, g, a)
    <3>1. Append(got.deps, x) = g
      BY <1>7, <2>2
    <3>2. got' = [got EXCEPT !.deps = g]
      BY <2>1, <3>1
    <3> QED BY <1>8, <3>2 DEF Obtained
  <2>4. owned' = [name |-> "held", build |-> "none"]
    BY <1>8, <2>1 DEF Recipes!Holds
  <2>5. place' = IF k + 1 < n THEN "hash" ELSE "build_length"
    <3>1. Len(h) = k
      BY <1>1, <1>4, HashedIs DEF h, n
    <3> QED BY <2>1, <2>2, <3>1 DEF Recipes!AfterHash
  <2>6. recipe' = recipe /\ Past(5 + (k + 1))'
    BY <1>4, <1>11
  <2>7. CASE k + 1 < n
    <3>1. k + 1 \in 0..(n - 1)
      BY <1>3, <1>4, <2>7
    <3> DEFINE q == k + 1
    <3>2. ReadAt("hash", 5 + q, Obtained(recipe.name, n, Hashed(q), a), "held")'
      BY <2>3, <2>4, <2>5, <2>6, <2>7 DEF ReadAt, Obtained, a, n, g, Hashed
    <3>3. q \in 0..(Len(recipe'.deps) - 1)
      BY <2>6, <3>1 DEF n
    <3> HIDE DEF q
    <3>4. ReadingHash'
      BY <1>1, <1>11, <2>6, <3>2, <3>3 DEF ReadingHash, a, n
    <3> QED BY <1>11, <3>4 DEF StreamInv
  <2>8. CASE ~(k + 1 < n)
    <3>1. k + 1 = n
      BY <1>3, <1>4, <2>8
    <3>2. Past(5 + n)' /\ got' = Obtained(recipe.name, n, Hashed(n), a) /\ place' = "build_length"
      <4>1. n' = n
        BY <2>6 DEF n
      <4>2. Past(5 + n)'
        BY <2>6, <3>1, <4>1 DEF Past
      <4> QED BY <2>3, <2>5, <2>8, <3>1, <4>1, <4>2 DEF g, Hashed
    <3>3. ReadAt("build_length", 5 + n, Obtained(recipe.name, n, Hashed(n), a), "held")'
      BY <2>4, <2>6, <3>2 DEF ReadAt, Obtained, a, n, Hashed
    <3>4. ReadingBuild'
      BY <1>1, <1>11, <2>6, <3>3 DEF ReadingBuild, a, n
    <3> QED BY <1>11, <3>4 DEF StreamInv
  <2> QED BY <2>7, <2>8
<1> QED BY <1>10, <1>11

(* The build script, with which the recipe is complete.                     *)
LEMMA BuildKept ==
    ASSUME StreamTyped, ReadingBuild, Recipes!Read
    PROVE  StreamInv'
<1> DEFINE W == Recipes!Writes(recipe)
           a == Len(recipe.name)
           b == Len(recipe.build)
           E == UNCHANGED <<recipe, medium, writes, capacity, content, errors>>
<1>1. recipe \in Recipes!Recipes /\ recipe.type = "standard" /\ IsCutOff(content)
  BY DEF StreamTyped, ReadingBuild
<1> SUFFICES ASSUME NEW n \in Nat, n = Len(recipe.deps)
             PROVE  StreamInv'
  BY <1>1, StandardIs
<1> DEFINE h == Hashed(n)
           j == 5 + n
           i == 6 + n
<1>2. /\ n \in Nat /\ Len(W) = 7 + n /\ Fits(b)
      /\ W[i] = Recipes!Number(b) /\ W[7 + n] = recipe.build
  BY <1>1, StandardIs, StandardWrites
<1>3. Recipes!ValueOf(Recipes!Number(b)) = b /\ Len(Recipes!Number(b)) = NumberBytes
  BY <1>2, FittingNumber
<1> HIDE DEF W
<1>4. /\ j \in 0..(Len(W) - 1) /\ j + 1 = i /\ i \in 0..(Len(W) - 1) /\ i + 1 = 7 + n
      /\ "held" \in {"none", "held"}
  BY <1>2
<1> HIDE DEF j, i, h, a, b
<1>5. CASE ReadAt("build_length", 5 + n, Obtained(recipe.name, n, Hashed(n), a), "held")
  <2>1. /\ place = "build_length" /\ got = Obtained(recipe.name, n, h, a) /\ Past(j)
        /\ owned = [name |-> "held", build |-> "none"] /\ Recipes!Asked = NumberBytes
    BY <1>5 DEF ReadAt, Recipes!Asked, h, j
  <2>2. Recipes!Asked = Len(Recipes!Writes(recipe)[j + 1])
    BY <1>2, <1>3, <1>4, <2>1 DEF W
  <2>3. \/ StreamInv'
        \/ Recipes!Take(W[j + 1]) /\ E /\ StreamTyped' /\ IsCutOff(content)' /\ Past(j + 1)'
    BY <1>1, <1>4, <2>1, <2>2, FieldRead DEF W
  <2>4. CASE Recipes!Take(Recipes!Number(b)) /\ E /\ StreamTyped' /\ IsCutOff(content)' /\ Past(i)'
    <3>1. /\ place' = "build" /\ got' = Obtained(recipe.name, n, h, b)
          /\ owned' = [name |-> "held", build |-> "none"]
      BY <1>3, <2>1, <2>4 DEF Recipes!Take, Recipes!Advance, Recipes!Holds, Obtained
    <3>2. recipe' = recipe
      BY <2>4
    <3>3. ReadAt("build", 6 + n, Obtained(recipe.name, n, Hashed(n), b), "held")'
      BY <2>4, <3>1, <3>2 DEF ReadAt, Obtained, b, i, h, Hashed
    <3>4. ReadingBuild'
      BY <1>1, <2>4, <3>2, <3>3 DEF ReadingBuild, b
    <3> QED BY <2>4, <3>4 DEF StreamInv
  <2> QED BY <1>2, <1>4, <2>3, <2>4
<1>6. CASE ReadAt("build", 6 + n, Obtained(recipe.name, n, Hashed(n), b), "held")
  <2>1. /\ place = "build" /\ got = Obtained(recipe.name, n, h, b) /\ Past(i)
        /\ owned = [name |-> "held", build |-> "none"] /\ Recipes!Asked = b
    BY <1>6 DEF ReadAt, Recipes!Asked, Obtained, h, i
  <2>2. Recipes!Asked = Len(Recipes!Writes(recipe)[i + 1])
    BY <1>2, <1>4, <2>1 DEF W, b
  <2>3. \/ StreamInv'
        \/ Recipes!Take(W[i + 1]) /\ E /\ StreamTyped' /\ IsCutOff(content)' /\ Past(i + 1)'
    BY <1>1, <1>4, <2>1, <2>2, FieldRead DEF W
  <2>4. CASE Recipes!Take(recipe.build) /\ E /\ StreamTyped'
    <3>1. /\ place' = "found" /\ got' = [got EXCEPT !.build = recipe.build]
          /\ owned' = Recipes!Freed(Recipes!Holds("held"))
      BY <2>1, <2>4 DEF Recipes!Take
    <3>2. /\ recipe' = recipe /\ got'.name = recipe.name /\ got'.build = recipe.build /\ got'.deps = h
      BY <2>1, <2>4, <3>1 DEF Obtained
    <3>3. \A f \in DOMAIN owned' : owned'[f] \in {"none", "freed"}
      BY <2>1, <3>1 DEF Recipes!Freed, Recipes!Holds
    <3>4. Recipes!ReadRecipe' = recipe
      <4>1. [q \in DOMAIN h |-> h[q][1]] = recipe.deps
        BY <1>1, HashedIs DEF h
      <4>2. recipe = [type |-> "standard", name |-> recipe.name, deps |-> recipe.deps,
                      build |-> recipe.build]
        BY <1>1, StandardIs
      <4>3. Recipes!ReadRecipe' = [type |-> "standard", name |-> recipe.name,
                                   build |-> recipe.build, deps |-> recipe.deps]
        BY <3>2, <4>1 DEF Recipes!ReadRecipe
      <4> QED BY <4>2, <4>3
    <3>5. Recipes!ReadBackOrNull'
      BY <3>1, <3>2, <3>4 DEF Recipes!ReadBackOrNull
    <3>6. Recipes!TextsFreed'
      BY <3>3 DEF Recipes!TextsFreed
    <3> QED BY <2>4, <3>1, <3>5, <3>6 DEF StreamInv, Finished
  <2> QED BY <1>2, <1>4, <2>3, <2>4
<1> QED BY <1>5, <1>6 DEF ReadingBuild, a, b, h

-----------------------------------------------------------------------------
(* No step of the streams disturbs that, and no other step reaches them.    *)
LEMMA StreamKept == StreamInv /\ [CommonNext]_commonVars => StreamInv'
<1> SUFFICES ASSUME StreamInv, [CommonNext]_commonVars PROVE StreamInv'
  OBVIOUS
<1>1. ASSUME UNCHANGED streamVars
      PROVE  StreamInv'
  <2>1. /\ recipe' = recipe /\ medium' = medium /\ writes' = writes /\ capacity' = capacity
        /\ content' = content /\ place' = place /\ rest' = rest /\ atEnd' = atEnd
        /\ got' = got /\ owned' = owned /\ errors' = errors
    BY <1>1 DEF streamVars
  <2>2. CASE place = "panic"
    BY <2>1, <2>2 DEF StreamInv
  <2>3. CASE place # "panic"
    <3>1. StreamTyped'
      BY <2>1, <2>3 DEF StreamInv, StreamTyped, Recipes!Media
    <3>2. (Unread => Unread') /\ (InBuffer => InBuffer') /\ (IsCutOff(content) => IsCutOff(content)')
      BY <2>1 DEF Unread, InBuffer, IsCutOff, Recipes!NothingRead, Recipes!NothingOwned
    <3>3. ASSUME WritingRecipe PROVE WritingRecipe'
      BY <2>1, <3>2, <3>3 DEF WritingRecipe
    <3>4. ASSUME WrittenRecipe PROVE WrittenRecipe'
      BY <2>1, <3>2, <3>4 DEF WrittenRecipe
    <3>5. ASSUME ReadingKind PROVE ReadingKind'
      BY <2>1, <3>2, <3>5 DEF ReadingKind, ReadAt, Past, Recipes!NothingRead
    <3>6. ASSUME ReadingName PROVE ReadingName'
      BY <2>1, <3>2, <3>6 DEF ReadingName, ReadAt, Past, Recipes!NothingRead, Obtained
    <3>7. ASSUME ReadingHash PROVE ReadingHash'
      BY <2>1, <3>2, <3>7 DEF ReadingHash, ReadAt, Past, Obtained, Hashed
    <3>8. ASSUME ReadingBuild PROVE ReadingBuild'
      BY <2>1, <3>2, <3>8 DEF ReadingBuild, ReadAt, Past, Obtained, Hashed
    <3>9. ASSUME Finished PROVE Finished'
      BY <2>1, <3>9 DEF Finished, Recipes!ReadBackOrNull, Recipes!TextsFreed, Recipes!ReadRecipe
    <3> QED BY <2>3, <3>1, <3>3, <3>4, <3>5, <3>6, <3>7, <3>8, <3>9 DEF StreamInv
  <2> QED BY <2>2, <2>3 DEF StreamInv
<1>2. CASE UNCHANGED commonVars
  BY <1>1, <1>2 DEF commonVars
<1>3. CASE HashingStep \/ CarStep \/ StringStep \/ PathStep
  BY <1>1, <1>3 DEF HashingStep, CarStep, StringStep, PathStep
<1>4. CASE StreamStep
  <2>1. place = "panic" \/ StreamTyped
    BY DEF StreamInv
  <2>2. CASE Recipes!Write
    <3>1. place = "writing"
      BY <2>2 DEF Recipes!Write
    <3>2. StreamTyped /\ WritingRecipe
      BY <3>1 DEF StreamInv, WrittenRecipe, ReadingKind, ReadingName, ReadingHash, ReadingBuild,
                  ReadAt, Finished
    <3> QED BY <2>2, <3>2, WriteKept
  <2>3. CASE Recipes!Close
    <3>1. place = "writing"
      BY <2>3 DEF Recipes!Close
    <3>2. StreamTyped /\ WritingRecipe
      BY <3>1 DEF StreamInv, WrittenRecipe, ReadingKind, ReadingName, ReadingHash, ReadingBuild,
                  ReadAt, Finished
    <3> QED BY <2>3, <3>2, CloseKept
  <2>4. CASE Recipes!Open
    <3>1. place = "written"
      BY <2>4 DEF Recipes!Open
    <3>2. StreamTyped /\ WrittenRecipe
      BY <3>1 DEF StreamInv, WritingRecipe, ReadingKind, ReadingName, ReadingHash, ReadingBuild,
                  ReadAt, Finished
    <3> QED BY <2>4, <3>2, OpenKept
  <2>5. CASE Recipes!Read
    <3>1. place \in Recipes!Steps
      BY <2>5 DEF Recipes!Read
    <3>2. StreamTyped /\ (ReadingKind \/ ReadingName \/ ReadingHash \/ ReadingBuild)
      BY <3>1 DEF StreamInv, WritingRecipe, WrittenRecipe, Finished, Recipes!Steps
    <3>3. CASE ReadingKind
      <4>1. /\ IsCutOff(content) \/ content \in Recipes!Foreign
            /\ \/ ReadAt("magic", 0, Recipes!NothingRead, "none")
               \/ /\ ReadAt("type", 1, Recipes!NothingRead, "none")
                  /\ content # Recipes!Number(68)
        BY <3>3 DEF ReadingKind
      <4> QED BY <2>5, <3>2, <4>1, MagicKept, TypeKept
    <3>4. CASE ReadingName
      BY <2>5, <3>2, <3>4, NameKept
    <3>5. CASE ReadingHash
      BY <2>5, <3>2, <3>5, HashKept
    <3>6. CASE ReadingBuild
      BY <2>5, <3>2, <3>6, BuildKept
    <3> QED BY <3>2, <3>3, <3>4, <3>5, <3>6
  <2>6. CASE UNCHANGED Recipes!vars
    BY <1>1, <2>6 DEF Recipes!vars, streamVars
  <2> QED BY <1>4, <2>2, <2>3, <2>4, <2>5, <2>6 DEF StreamStep, Recipes!Next
<1> QED BY <1>2, <1>3, <1>4 DEF CommonNext

(* The streams are always where a field of the recipe ends, and have read   *)
(* what was written (stream.c, stream_aux.c, derivative.c).                 *)
THEOREM StreamInvariant == CommonSpec => []StreamInv
BY StreamInit, StreamKept, PTL DEF CommonSpec

(* A recipe survives being written and read back, whatever its texts and    *)
(* dependencies, wherever the file is cut off and whichever call fails.     *)
THEOREM RecipesSurvive == CommonSpec => []RecipeSurvives
<1>1. StreamInv => RecipeSurvives
  <2> SUFFICES ASSUME StreamInv PROVE RecipeSurvives
    OBVIOUS
  <2>1. Recipes!WrittenIsRecipe
    <3>1. ASSUME medium = "memory", place \in {"writing", "written"}
          PROVE  Len(content) <= capacity
      BY <3>1 DEF StreamInv, WritingRecipe, WrittenRecipe, InBuffer, ReadingKind, ReadingName,
                  ReadingHash, ReadingBuild, ReadAt, Finished
    <3>2. ASSUME place = "written", errors = 0
          PROVE  \A r \in Recipes!Recipes : Recipes!Encoding(r) = content <=> r = recipe
      <4>1. recipe \in Recipes!Recipes /\ content = Recipes!Encoding(recipe)
        BY <3>2 DEF StreamInv, StreamTyped, WritingRecipe, WrittenRecipe, ReadingKind, ReadingName,
                    ReadingHash, ReadingBuild, ReadAt, Finished
      <4> QED BY <4>1, SameRecipe
    <3> QED BY <3>1, <3>2 DEF Recipes!WrittenIsRecipe
  <2>2. Recipes!ReadBackOrNull /\ Recipes!TextsFreed
    <3>1. CASE place \in {"found", "null"}
      <4>1. Finished
        BY <3>1 DEF StreamInv, WritingRecipe, WrittenRecipe, ReadingKind, ReadingName,
                    ReadingHash, ReadingBuild, ReadAt
      <4> QED BY <4>1 DEF Finished
    <3>2. CASE place \notin {"found", "null"}
      BY <3>2 DEF Recipes!ReadBackOrNull, Recipes!TextsFreed
    <3> QED BY <3>1, <3>2
  <2> QED BY <2>1, <2>2 DEF RecipeSurvives, Recipes!RecipeSurvives
<1> QED BY <1>1, StreamInvariant, PTL
=============================================================================
