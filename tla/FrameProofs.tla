----------------------------- MODULE FrameProofs -----------------------------
(***************************************************************************)
(* Lemmas about the recursive operators of HaierFrame, for sequences of any*)
(* length, and with them that parse_buffer undoes what fill_buffer does.   *)
(* The induction they need is the fact that the natural numbers are well   *)
(* founded, applied to the set of numbers for which a claim holds.         *)
(***************************************************************************)
EXTENDS HaierFrame, SequenceTheorems, FiniteSetTheorems, NaturalsInduction,
        TLAPS

(***************************************************************************)
(* What the bytes are is of no consequence here: a buffer is a sequence of *)
(* whatever it contains.                                                   *)
(***************************************************************************)
IsSequence(s) == s \in Seq({s[i] : i \in DOMAIN s})

\* The elements of a sequence over any set make it one in this sense.
LEMMA OverSomeSet ==
    ASSUME NEW S, NEW s \in Seq(S)
    PROVE  IsSequence(s)
<1>1. Len(s) \in Nat /\ DOMAIN s = 1 .. Len(s)
    BY LenProperties
<1>2. s = [i \in 1 .. Len(s) |-> s[i]]
    BY LenProperties
<1>3. s \in [1 .. Len(s) -> {s[i] : i \in DOMAIN s}]
    BY <1>1, <1>2
<1> QED  BY <1>1, <1>3, SeqDef DEF IsSequence

\* A function on 1 .. n is a sequence in the sense of the model.
LEMMA FunctionIsSequence ==
    ASSUME NEW n \in Nat, NEW S, NEW f \in [1 .. n -> S]
    PROVE  IsSequence(f)
<1>1. f \in Seq(S)
    BY SeqDef
<1> QED  BY <1>1, OverSomeSet

\* Joining two sequences.
LEMMA JoinedSequence ==
    ASSUME NEW s, NEW t, IsSequence(s), IsSequence(t)
    PROVE  /\ IsSequence(s \o t)
           /\ Len(s) \in Nat /\ Len(t) \in Nat
           /\ Len(s \o t) = Len(s) + Len(t)
           /\ \A i \in 1 .. Len(s) : (s \o t)[i] = s[i]
<1> DEFINE S == {s[i] : i \in DOMAIN s} \cup {t[i] : i \in DOMAIN t}
<1>1. s \in Seq(S)
    BY SeqMonotonic DEF IsSequence
<1>2. t \in Seq(S)
    BY SeqMonotonic DEF IsSequence
<1>3. Len(s) \in Nat /\ Len(t) \in Nat
    BY <1>1, <1>2, LenProperties
<1> HIDE DEF S
<1>4. /\ s \o t \in Seq(S)
      /\ Len(s \o t) = Len(s) + Len(t)
      /\ \A i \in 1 .. Len(s) + Len(t) :
            (s \o t)[i] = IF i <= Len(s) THEN s[i] ELSE t[i - Len(s)]
    BY <1>1, <1>2, ConcatProperties
<1>5. IsSequence(s \o t)
    BY <1>4, OverSomeSet
<1> QED  BY <1>3, <1>4, <1>5

\* Cutting a piece out of one.
LEMMA PieceOfSequence ==
    ASSUME NEW s, IsSequence(s),
           NEW m \in Nat \ {0}, NEW n \in Nat, n <= Len(s)
    PROVE  /\ IsSequence(SubSeq(s, m, n))
           /\ Len(s) \in Nat
           /\ Len(SubSeq(s, m, n)) = IF m <= n THEN n - m + 1 ELSE 0
           /\ \A i \in 1 .. n - m + 1 : SubSeq(s, m, n)[i] = s[m + i - 1]
<1> DEFINE S == {s[i] : i \in DOMAIN s}
<1>1. s \in Seq(S)
    BY DEF IsSequence
<1>2. Len(s) \in Nat /\ DOMAIN s = 1 .. Len(s)
    BY <1>1, LenProperties
<1>3. \A i \in m .. n : s[i] \in S
    BY <1>2
<1> HIDE DEF S
<1>4. /\ SubSeq(s, m, n) \in Seq(S)
      /\ Len(SubSeq(s, m, n)) = IF m <= n THEN n - m + 1 ELSE 0
      /\ \A i \in 1 .. n - m + 1 : SubSeq(s, m, n)[i] = s[m + i - 1]
    BY <1>3, SubSeqProperties
<1>5. IsSequence(SubSeq(s, m, n))
    BY <1>4, OverSomeSet
<1> QED  BY <1>2, <1>4, <1>5

\* One sequence consists of two others.
ConcatOf(c, a, b) ==
    /\ Len(c) = Len(a) + Len(b)
    /\ \A i \in 1 .. Len(a) : c[i] = a[i]
    /\ \A i \in 1 .. Len(b) : c[Len(a) + i] = b[i]

LEMMA ConcatIs ==
    ASSUME NEW T, NEW a \in Seq(T), NEW b \in Seq(T), NEW c \in Seq(T),
           ConcatOf(c, a, b)
    PROVE  c = a \o b
<1>1. /\ a \o b \in Seq(T) /\ Len(a \o b) = Len(a) + Len(b)
      /\ Len(a) \in Nat /\ Len(b) \in Nat
      /\ \A i \in 1 .. Len(a) + Len(b) :
            (a \o b)[i] = IF i <= Len(a) THEN a[i] ELSE b[i - Len(a)]
    BY ConcatProperties, LenProperties
<1>2. ASSUME NEW i \in 1 .. Len(a) + Len(b) PROVE c[i] = (a \o b)[i]
  <2>1. CASE i <= Len(a)
      BY <1>1, <2>1 DEF ConcatOf
  <2>2. CASE i > Len(a)
    <3>1. i - Len(a) \in 1 .. Len(b) /\ Len(a) + (i - Len(a)) = i
        BY <1>1, <2>2
    <3>2. c[Len(a) + (i - Len(a))] = b[i - Len(a)]
        BY <3>1 DEF ConcatOf
    <3> QED  BY <1>1, <2>2, <3>1, <3>2
  <2> QED  BY <1>1, <2>1, <2>2
<1>3. Len(c) = Len(a) + Len(b)
    BY DEF ConcatOf
<1> QED  BY <1>1, <1>2, <1>3, SeqEqual

-----------------------------------------------------------------------------
(***************************************************************************)
(* Counting separators                                                     *)
(***************************************************************************)
\* What a piece of a sequence contains.
LEMMA PieceContains ==
    ASSUME NEW s, IsSequence(s),
           NEW m \in Nat \ {0}, NEW n \in Nat, n <= Len(s), m <= n + 1
    PROVE  /\ DOMAIN SubSeq(s, m, n) = 1 .. n - m + 1
           /\ \A i \in 1 .. n - m + 1 : SubSeq(s, m, n)[i] = s[m + i - 1]
<1> DEFINE piece == SubSeq(s, m, n)
<1>1. /\ IsSequence(piece)
      /\ Len(piece) = IF m <= n THEN n - m + 1 ELSE 0
      /\ \A i \in 1 .. n - m + 1 : piece[i] = s[m + i - 1]
    BY PieceOfSequence
<1>2. DOMAIN piece = 1 .. Len(piece)
    BY <1>1, LenProperties DEF IsSequence
<1>3. Len(piece) = n - m + 1
    BY <1>1
<1> QED  BY <1>1, <1>2, <1>3

\* The count is a number, for any sequence.
LEMMA CountIsNumber ==
    ASSUME NEW s, IsSequence(s)
    PROVE  /\ IsFiniteSet({i \in DOMAIN s : s[i] = SEPARATOR_BYTE})
           /\ Separators(s) \in Nat
<1>1. Len(s) \in Nat /\ DOMAIN s = 1 .. Len(s)
    BY LenProperties DEF IsSequence
<1>2. IsFiniteSet(1 .. Len(s))
    BY <1>1, FS_Interval
<1>3. IsFiniteSet({i \in DOMAIN s : s[i] = SEPARATOR_BYTE})
    BY <1>1, <1>2, FS_Subset
<1> QED  BY <1>3, FS_CardinalityType DEF Separators

\* Extending a piece by one byte.
LEMMA OneMoreByte ==
    ASSUME NEW s, IsSequence(s),
           NEW m \in Nat \ {0}, NEW n \in Nat, n + 1 <= Len(s), m <= n + 1
    PROVE  Separators(SubSeq(s, m, n + 1)) =
             IF s[n + 1] = SEPARATOR_BYTE
             THEN Separators(SubSeq(s, m, n)) + 1
             ELSE Separators(SubSeq(s, m, n))
<1> DEFINE piece  == SubSeq(s, m, n)
           longer == SubSeq(s, m, n + 1)
           here   == {i \in DOMAIN piece : piece[i] = SEPARATOR_BYTE}
           there  == {i \in DOMAIN longer : longer[i] = SEPARATOR_BYTE}
           last   == n - m + 2
<1>1. /\ Len(s) \in Nat
      /\ n <= Len(s)
    BY LenProperties DEF IsSequence
<1>2. /\ DOMAIN piece = 1 .. n - m + 1
      /\ \A i \in 1 .. n - m + 1 : piece[i] = s[m + i - 1]
    BY <1>1, PieceContains
<1>3. /\ DOMAIN longer = 1 .. (n + 1) - m + 1
      /\ \A i \in 1 .. (n + 1) - m + 1 : longer[i] = s[m + i - 1]
    BY <1>1, PieceContains, m <= (n + 1) + 1
<1>4. IsSequence(piece)
    BY <1>1, PieceOfSequence
<1>5. IsFiniteSet(here)
    BY <1>4, CountIsNumber
<1> HIDE DEF piece, longer
<1>6. last \notin here
    BY <1>2
<1>7. there = IF s[n + 1] = SEPARATOR_BYTE THEN here \cup {last} ELSE here
  <2>1. (n + 1) - m + 1 = last /\ last - 1 = n - m + 1 /\ m + last - 1 = n + 1
      OBVIOUS
  <2>2. last \in Nat \ {0}
      OBVIOUS
  <2> HIDE DEF last
  <2>3. 1 .. last = 1 .. (last - 1) \cup {last}
      BY <2>2
  <2>4. \A i \in 1 .. last - 1 : longer[i] = piece[i]
      BY <1>2, <1>3, <2>1, <2>2
  <2>5. longer[last] = s[n + 1]
      BY <1>3, <2>1, <2>2
  <2>6. DOMAIN longer = 1 .. last /\ DOMAIN piece = 1 .. last - 1
      BY <1>2, <1>3, <2>1
  <2> QED  BY <2>3, <2>4, <2>5, <2>6
<1> HIDE DEF here, last, there
<1>8. Cardinality(there) = IF s[n + 1] = SEPARATOR_BYTE
                           THEN Cardinality(here) + 1 ELSE Cardinality(here)
    BY <1>5, <1>6, <1>7, FS_AddElement
<1> QED  BY <1>8 DEF Separators, here, there, piece, longer

\* The piece is the same in a sequence that agrees so far.
LEMMA SamePiece ==
    ASSUME NEW s, NEW t, IsSequence(s), IsSequence(t),
           NEW m \in Nat \ {0}, NEW n \in Nat,
           n <= Len(s), n <= Len(t), m <= n + 1,
           \A i \in 1 .. n : s[i] = t[i]
    PROVE  Separators(SubSeq(s, m, n)) = Separators(SubSeq(t, m, n))
<1> DEFINE first  == SubSeq(s, m, n)
           second == SubSeq(t, m, n)
<1>1. /\ DOMAIN first = 1 .. n - m + 1
      /\ \A i \in 1 .. n - m + 1 : first[i] = s[m + i - 1]
    BY PieceContains
<1>2. /\ DOMAIN second = 1 .. n - m + 1
      /\ \A i \in 1 .. n - m + 1 : second[i] = t[m + i - 1]
    BY PieceContains
<1> HIDE DEF first, second
<1>3. \A i \in 1 .. n - m + 1 : m + i - 1 \in 1 .. n
    OBVIOUS
<1>4. {i \in DOMAIN first : first[i] = SEPARATOR_BYTE}
        = {i \in DOMAIN second : second[i] = SEPARATOR_BYTE}
    BY <1>1, <1>2, <1>3
<1> QED  BY <1>4 DEF Separators, first, second

\* No bytes, no separators.
LEMMA NoneInNothing ==
    ASSUME NEW s, NEW m \in Nat, NEW n \in Nat, n < m
    PROVE  Separators(SubSeq(s, m, n)) = 0
<1>1. SubSeq(s, m, n) = <<>>
    BY SubSeqEmpty
<1>2. {i \in DOMAIN <<>> : <<>>[i] = SEPARATOR_BYTE} = {}
    OBVIOUS
<1> QED  BY <1>1, <1>2, FS_EmptySet DEF Separators

\* One byte that is no separator.
LEMMA NoneInOther ==
    ASSUME NEW s, IsSequence(s), NEW m \in Nat \ {0}, m <= Len(s),
           s[m] # SEPARATOR_BYTE
    PROVE  Separators(SubSeq(s, m, m)) = 0
<1>1. m - 1 \in Nat /\ (m - 1) + 1 = m
    OBVIOUS
<1>2. Separators(SubSeq(s, m, m)) = Separators(SubSeq(s, m, m - 1))
    BY <1>1, OneMoreByte
<1> QED  BY <1>1, <1>2, NoneInNothing

-----------------------------------------------------------------------------
\* Strong induction: S is the set of the numbers for which the claim holds.
LEMMA StrongInduction ==
    ASSUME NEW S,
           \A n \in Nat : (\A m \in Nat : m < n => m \in S) => n \in S
    PROVE  Nat \subseteq S
<1> SUFFICES ASSUME Nat \ S # {} PROVE FALSE
    OBVIOUS
<1>1. PICK x \in Nat \ S : \A y \in Nat \ S : <<y, x>> \notin OpToRel(<, Nat)
    BY NatLessThanWellFounded, WFMin, Zenon
<1>2. ASSUME NEW y \in Nat, y < x PROVE y \in S
  <2>1. <<y, x>> \in Nat \X Nat /\ <<y, x>>[1] < <<y, x>>[2]
      BY <1>1, <1>2
  <2>2. <<y, x>> \in OpToRel(<, Nat)
      BY <2>1, Zenon DEF OpToRel
  <2> QED  BY <1>1, <2>2
<1> QED  BY <1>1, <1>2

-----------------------------------------------------------------------------
(***************************************************************************)
(* Recursion by halves over positions 1 .. n, with an element of S at each *)
(* of them and an operation on S.                                          *)
(***************************************************************************)
Middle(i, j) == (i + j) \div 2

Halving(f, n, base, op) ==
    \A i, j \in 1 .. n :
        f[<<i, j>>] = IF i >= j THEN base[i]
                      ELSE op[<<f[<<i, Middle(i, j)>>],
                                f[<<Middle(i, j) + 1, j>>]>>]

\* The same, said only of operands in S.
HalvingOnS(f, S, n, base, op) ==
    \A i, j \in 1 .. n :
        IF i >= j THEN f[<<i, j>>] = base[i]
        ELSE f[<<i, Middle(i, j)>>] \in S /\ f[<<Middle(i, j) + 1, j>>] \in S
               => f[<<i, j>>] = op[<<f[<<i, Middle(i, j)>>],
                                     f[<<Middle(i, j) + 1, j>>]>>]

\* Over all positions of a sequence, and the result for the whole of it.
HalvingOf(f, s, op) == Halving(f, Len(s), s, op)
Whole(f, s)         == f[<<1, Len(s)>>]

Associative(S, op) ==
    \A a, b, c \in S : op[<<op[<<a, b>>], c>>] = op[<<a, op[<<b, c>>]>>]

\* The elements that base has at 1 .. n are found in other, d positions on.
HasAt(other, base, n, d) == \A i \in 1 .. n : other[i + d] = base[i]

\* What they say of the results for spans of 1 .. n.
Agrees(g, f, n, d) ==
    \A i, j \in 1 .. n : g[<<i + d, j + d>>] = f[<<i, j>>]

\* A span may be cut anywhere.
CutAnywhere(f, n, op) ==
    \A i, j, k \in 1 .. n : i <= k /\ k < j =>
        f[<<i, j>>] = op[<<f[<<i, k>>], f[<<k + 1, j>>]>>]

LEMMA MiddleBetween ==
    ASSUME NEW i \in Int, NEW j \in Int, i < j
    PROVE  /\ Middle(i, j) \in Int
           /\ i <= Middle(i, j)
           /\ Middle(i, j) < j
BY DEF Middle

\* Such a function exists: from one that is right on spans shorter than n.
LEMMA HalvingExists ==
    ASSUME NEW S, NEW n \in Nat, NEW base \in [1 .. n -> S],
           NEW op \in [S \X S -> S]
    PROVE  \E f \in [(1 .. n) \X (1 .. n) -> S] : Halving(f, n, base, op)
<1> DEFINE D == (1 .. n) \X (1 .. n)
           Right(f, i, j) ==
               f[<<i, j>>] = IF i >= j THEN base[i]
                             ELSE op[<<f[<<i, Middle(i, j)>>],
                                       f[<<Middle(i, j) + 1, j>>]>>]
           UpTo(f, m) == \A i, j \in 1 .. n : j - i < m => Right(f, i, j)
           Done == {m \in Nat : \E f \in [D -> S] : UpTo(f, m)}
<1>1. ASSUME NEW m \in Nat, m \in Done PROVE m + 1 \in Done
  <2>1. PICK f \in [D -> S] : UpTo(f, m)
      BY <1>1
  <2> DEFINE g == [s \in D |->
                     IF s[1] >= s[2] THEN base[s[1]]
                     ELSE op[<<f[<<s[1], Middle(s[1], s[2])>>],
                               f[<<Middle(s[1], s[2]) + 1, s[2]>>]>>]]
  <2>2. ASSUME NEW i \in 1 .. n, NEW j \in 1 .. n, i < j
        PROVE  /\ <<i, Middle(i, j)>> \in D
               /\ <<Middle(i, j) + 1, j>> \in D
               /\ Middle(i, j) \in 1 .. n
               /\ Middle(i, j) + 1 \in 1 .. n
    <3>1. Middle(i, j) \in Int /\ i <= Middle(i, j) /\ Middle(i, j) < j
        BY <2>2, MiddleBetween
    <3> QED  BY <3>1
  <2>3. g \in [D -> S]
    <3> SUFFICES ASSUME NEW i \in 1 .. n, NEW j \in 1 .. n
                 PROVE  (IF i >= j THEN base[i]
                         ELSE op[<<f[<<i, Middle(i, j)>>],
                                   f[<<Middle(i, j) + 1, j>>]>>]) \in S
        OBVIOUS
    <3>1. CASE i >= j
        BY <3>1
    <3>2. CASE i < j
      <4>1. f[<<i, Middle(i, j)>>] \in S /\ f[<<Middle(i, j) + 1, j>>] \in S
          BY <2>2, <3>2
      <4> QED  BY <3>2, <4>1
    <3> QED  BY <3>1, <3>2
  <2>4. \A i, j \in 1 .. n :
          g[<<i, j>>] = IF i >= j THEN base[i]
                        ELSE op[<<f[<<i, Middle(i, j)>>],
                                  f[<<Middle(i, j) + 1, j>>]>>]
      OBVIOUS
  <2> HIDE DEF g
  <2>5. ASSUME NEW i \in 1 .. n, NEW j \in 1 .. n, j - i < m
        PROVE  g[<<i, j>>] = f[<<i, j>>]
    <3>1. f[<<i, j>>] = IF i >= j THEN base[i]
                        ELSE op[<<f[<<i, Middle(i, j)>>],
                                  f[<<Middle(i, j) + 1, j>>]>>]
        BY <2>1, <2>5
    <3> QED  BY <2>4, <3>1, Zenon
  <2>6. ASSUME NEW i \in 1 .. n, NEW j \in 1 .. n, j - i < m + 1
        PROVE  Right(g, i, j)
    <3>1. CASE i >= j
        BY <2>4, <3>1
    <3>2. CASE i < j
      <4> DEFINE k == Middle(i, j)
      <4>1. k \in Int /\ i <= k /\ k < j
          BY <3>2, MiddleBetween
      <4>2. k \in 1 .. n /\ k + 1 \in 1 .. n
          BY <2>2, <3>2
      <4> HIDE DEF k
      <4>3. k - i < m /\ j - (k + 1) < m
          BY <2>6, <4>1
      <4>4. /\ g[<<i, k>>] = f[<<i, k>>]
            /\ g[<<k + 1, j>>] = f[<<k + 1, j>>]
          BY <2>5, <4>2, <4>3
      <4> QED  BY <2>4, <3>2, <4>4 DEF k
    <3> QED  BY <3>1, <3>2
  <2>7. UpTo(g, m + 1)
      BY <2>6
  <2>8. m + 1 \in Nat
      OBVIOUS
  <2> HIDE DEF UpTo
  <2> QED  BY <2>3, <2>7, <2>8
<1>2. 0 \in Done
  <2> DEFINE f == [s \in D |-> base[s[1]]]
  <2>1. f \in [D -> S] /\ \A i, j \in 1 .. n : f[<<i, j>>] = base[i]
      OBVIOUS
  <2> HIDE DEF f
  <2>2. UpTo(f, 0)
      BY <2>1
  <2> QED  BY <2>1, <2>2
<1> HIDE DEF Done
<1>3. Nat \subseteq Done
  <2>1. ASSUME NEW m \in Nat, \A k \in Nat : k < m => k \in Done
        PROVE  m \in Done
    <3>1. CASE m = 0
        BY <1>2, <3>1
    <3>2. CASE m # 0
      <4>1. m - 1 \in Nat /\ m - 1 < m /\ (m - 1) + 1 = m
          BY <3>2
      <4>2. m - 1 \in Done
          BY <2>1, <4>1
      <4>3. (m - 1) + 1 \in Done
          BY <1>1, <4>1, <4>2
      <4> QED  BY <4>1, <4>3
    <3> QED  BY <3>1, <3>2
  <2> QED  BY <2>1, StrongInduction
<1>4. n \in Done
    BY <1>3
<1>5. PICK f \in [D -> S] : UpTo(f, n)
    BY <1>4 DEF Done
<1>6. \A i, j \in 1 .. n : j - i < n
    OBVIOUS
<1>7. Halving(f, n, base, op)
    BY <1>5, <1>6 DEF Halving
<1> QED  BY <1>5, <1>7

\* Induction over the length of a span: P is the set of the spans for which
\* the claim holds.
LEMMA SpanInduction ==
    ASSUME NEW n \in Nat, NEW P,
           \A i, j \in 1 .. n :
              (\A k, l \in 1 .. n : l - k < j - i => <<k, l>> \in P)
                 => <<i, j>> \in P
    PROVE  \A i, j \in 1 .. n : <<i, j>> \in P
<1> DEFINE S == {m \in Nat : \A i, j \in 1 .. n :
                                   j - i <= m - n => <<i, j>> \in P}
<1>1. ASSUME NEW m \in Nat, \A k \in Nat : k < m => k \in S
      PROVE  m \in S
  <2> SUFFICES ASSUME NEW i \in 1 .. n, NEW j \in 1 .. n, j - i <= m - n
               PROVE  <<i, j>> \in P
      OBVIOUS
  <2>1. ASSUME NEW k \in 1 .. n, NEW l \in 1 .. n, l - k < j - i
        PROVE  <<k, l>> \in P
    <3>1. l - k + n \in Nat /\ l - k + n < m
        BY <2>1
    <3>2. l - k + n \in S
        BY <1>1, <3>1
    <3> QED  BY <3>2
  <2> QED  BY <2>1
<1> HIDE DEF S
<1>2. Nat \subseteq S
    BY <1>1, StrongInduction
<1> SUFFICES ASSUME NEW i \in 1 .. n, NEW j \in 1 .. n PROVE <<i, j>> \in P
    OBVIOUS
<1>3. j - i + n \in Nat /\ j - i <= (j - i + n) - n
    OBVIOUS
<1>4. j - i + n \in S
    BY <1>2, <1>3
<1> QED  BY <1>3, <1>4 DEF S

\* A function that recurs by halves takes its values in S.
LEMMA HalvingTyped ==
    ASSUME NEW S, NEW n \in Nat, NEW base \in [1 .. n -> S],
           NEW op \in [S \X S -> S], NEW f, Halving(f, n, base, op)
    PROVE  \A i, j \in 1 .. n : f[<<i, j>>] \in S
<1> DEFINE P == {s \in (1 .. n) \X (1 .. n) : f[s] \in S}
<1>1. ASSUME NEW i \in 1 .. n, NEW j \in 1 .. n,
             \A k, l \in 1 .. n : l - k < j - i => <<k, l>> \in P
      PROVE  <<i, j>> \in P
  <2>1. CASE i >= j
    <3>1. f[<<i, j>>] = base[i]
        BY <2>1 DEF Halving
    <3> QED  BY <3>1
  <2>2. CASE i < j
    <3> DEFINE k == Middle(i, j)
    <3>1. k \in Int /\ i <= k /\ k < j
        BY <2>2, MiddleBetween
    <3>2. ~(i >= j)
        BY <2>2
    <3>3. f[<<i, j>>] = op[<<f[<<i, k>>], f[<<k + 1, j>>]>>]
        BY <3>2 DEF Halving
    <3> HIDE DEF k
    <3>4. k \in 1 .. n /\ k + 1 \in 1 .. n /\ k - i < j - i /\ j - (k + 1) < j - i
        BY <3>1
    <3>5. <<i, k>> \in P /\ <<k + 1, j>> \in P
        BY <1>1, <3>4
    <3>6. f[<<i, k>>] \in S /\ f[<<k + 1, j>>] \in S
        BY <3>5
    <3> QED  BY <3>3, <3>6
  <2> QED  BY <2>1, <2>2
<1> HIDE DEF P
<1>2. \A i, j \in 1 .. n : <<i, j>> \in P
    BY <1>1, SpanInduction
<1> QED  BY <1>2 DEF P

\* If the operation is associative, a span may be cut anywhere.
LEMMA HalvingCut ==
    ASSUME NEW S, NEW n \in Nat, NEW base \in [1 .. n -> S],
           NEW op \in [S \X S -> S], NEW f, Halving(f, n, base, op),
           Associative(S, op)
    PROVE  CutAnywhere(f, n, op)
<1> DEFINE Cut(i, j) == \A k \in 1 .. n : i <= k /\ k < j =>
               f[<<i, j>>] = op[<<f[<<i, k>>], f[<<k + 1, j>>]>>]
           P == {s \in (1 .. n) \X (1 .. n) : Cut(s[1], s[2])}
<1>1. ASSUME NEW i \in 1 .. n, NEW j \in 1 .. n,
             \A k, l \in 1 .. n : l - k < j - i => <<k, l>> \in P
      PROVE  <<i, j>> \in P
  <2>1. ASSUME NEW k \in 1 .. n, NEW l \in 1 .. n, l - k < j - i
        PROVE  Cut(k, l)
    <3>1. <<k, l>> \in P
        BY <1>1, <2>1
    <3> QED  BY <3>1
  <2> SUFFICES ASSUME NEW k \in 1 .. n, i <= k, k < j
               PROVE  f[<<i, j>>] = op[<<f[<<i, k>>], f[<<k + 1, j>>]>>]
      OBVIOUS
  <2> DEFINE m == Middle(i, j)
  <2>2. m \in Int /\ i <= m /\ m < j
      BY MiddleBetween
  <2>3. ~(i >= j)
      OBVIOUS
  <2>4. f[<<i, j>>] = op[<<f[<<i, m>>], f[<<m + 1, j>>]>>]
      BY <2>3 DEF Halving
  <2> HIDE DEF m, P
  <2>5. m \in 1 .. n /\ m + 1 \in 1 .. n /\ k + 1 \in 1 .. n
      BY <2>2
  <2>6. \A a, b \in 1 .. n : f[<<a, b>>] \in S
      BY HalvingTyped
  <2>7. CASE k = m
      BY <2>4, <2>7
  <2>8. CASE k < m
    <3>1. m - i < j - i /\ j - (k + 1) < j - i /\ k + 1 <= m
        BY <2>2, <2>5, <2>8
    <3>2. f[<<i, m>>] = op[<<f[<<i, k>>], f[<<k + 1, m>>]>>]
        BY <2>1, <2>5, <2>8, <3>1
    <3>3. f[<<k + 1, j>>] = op[<<f[<<k + 1, m>>], f[<<m + 1, j>>]>>]
        BY <2>1, <2>2, <2>5, <3>1
    <3> DEFINE a == f[<<i, k>>]
               b == f[<<k + 1, m>>]
               c == f[<<m + 1, j>>]
    <3>4. a \in S /\ b \in S /\ c \in S
        BY <2>5, <2>6
    <3>5. op[<<op[<<a, b>>], c>>] = op[<<a, op[<<b, c>>]>>]
        BY <3>4 DEF Associative
    <3> QED  BY <2>4, <3>2, <3>3, <3>5, Zenon
  <2>9. CASE k > m
    <3>1. k - i < j - i /\ j - (m + 1) < j - i /\ m + 1 <= k
        BY <2>2, <2>5, <2>9
    <3>2. f[<<i, k>>] = op[<<f[<<i, m>>], f[<<m + 1, k>>]>>]
        BY <2>1, <2>2, <2>5, <2>9, <3>1
    <3>3. f[<<m + 1, j>>] = op[<<f[<<m + 1, k>>], f[<<k + 1, j>>]>>]
        BY <2>1, <2>5, <3>1
    <3> DEFINE a == f[<<i, m>>]
               b == f[<<m + 1, k>>]
               c == f[<<k + 1, j>>]
    <3>4. a \in S /\ b \in S /\ c \in S
        BY <2>5, <2>6
    <3>5. op[<<op[<<a, b>>], c>>] = op[<<a, op[<<b, c>>]>>]
        BY <3>4 DEF Associative
    <3> QED  BY <2>4, <3>2, <3>3, <3>5, Zenon
  <2> QED  BY <2>2, <2>7, <2>8, <2>9
<1> HIDE DEF P
<1>2. \A i, j \in 1 .. n : <<i, j>> \in P
    BY <1>1, SpanInduction
<1> QED  BY <1>2 DEF P, CutAnywhere

\* The result for a span depends on the elements in it and on nothing else.
LEMMA HalvingSame ==
    ASSUME NEW n \in Nat, NEW m \in Nat, NEW base, NEW other, NEW op,
           NEW f, Halving(f, n, base, op),
           NEW g, Halving(g, m, other, op),
           NEW d \in Nat, d + n <= m,
           HasAt(other, base, n, d)
    PROVE  Agrees(g, f, n, d)
<1> DEFINE P == {s \in (1 .. n) \X (1 .. n) :
                    g[<<s[1] + d, s[2] + d>>] = f[s]}
<1>1. ASSUME NEW i \in 1 .. n, NEW j \in 1 .. n,
             \A k, l \in 1 .. n : l - k < j - i => <<k, l>> \in P
      PROVE  <<i, j>> \in P
  <2>1. i + d \in 1 .. m /\ j + d \in 1 .. m
      OBVIOUS
  <2>2. CASE i >= j
    <3>1. f[<<i, j>>] = base[i]
        BY <2>2 DEF Halving
    <3>2. i + d >= j + d
        BY <2>2
    <3>3. g[<<i + d, j + d>>] = other[i + d]
        BY <2>1, <3>2 DEF Halving
    <3> QED  BY <3>1, <3>3 DEF HasAt
  <2>3. CASE i < j
    <3> DEFINE k == Middle(i, j)
               l == Middle(i + d, j + d)
    <3>1. k \in Int /\ i <= k /\ k < j
        BY <2>3, MiddleBetween
    <3>2. l = k + d
        BY DEF Middle
    <3>3. ~(i >= j) /\ ~(i + d >= j + d)
        BY <2>3
    <3>4. f[<<i, j>>] = op[<<f[<<i, k>>], f[<<k + 1, j>>]>>]
        BY <3>3 DEF Halving
    <3>5. g[<<i + d, j + d>>] = op[<<g[<<i + d, l>>], g[<<l + 1, j + d>>]>>]
        BY <2>1, <3>3 DEF Halving
    <3> HIDE DEF k, l
    <3>6. k \in 1 .. n /\ k + 1 \in 1 .. n /\ k - i < j - i /\ j - (k + 1) < j - i
        BY <3>1
    <3>7. <<i, k>> \in P /\ <<k + 1, j>> \in P
        BY <1>1, <3>6
    <3>8. /\ g[<<i + d, k + d>>] = f[<<i, k>>]
          /\ g[<<(k + 1) + d, j + d>>] = f[<<k + 1, j>>]
        BY <3>7
    <3>9. (k + 1) + d = l + 1
        BY <3>1, <3>2
    <3>10. g[<<i + d, j + d>>] = f[<<i, j>>]
        BY <3>2, <3>4, <3>5, <3>8, <3>9, Zenon
    <3> QED  BY <3>10
  <2> QED  BY <2>2, <2>3
<1> HIDE DEF P
<1>2. \A i, j \in 1 .. n : <<i, j>> \in P
    BY <1>1, SpanInduction
<1> QED  BY <1>2 DEF P, Agrees

\* It is enough to know that.
LEMMA WeakIsHalving ==
    ASSUME NEW S, NEW n \in Nat, NEW base \in [1 .. n -> S],
           NEW op \in [S \X S -> S], NEW f, HalvingOnS(f, S, n, base, op)
    PROVE  Halving(f, n, base, op)
<1> DEFINE P == {s \in (1 .. n) \X (1 .. n) : f[s] \in S}
<1>1. ASSUME NEW i \in 1 .. n, NEW j \in 1 .. n,
             \A k, l \in 1 .. n : l - k < j - i => <<k, l>> \in P
      PROVE  <<i, j>> \in P
  <2>1. CASE i >= j
    <3>1. f[<<i, j>>] = base[i]
        BY <2>1 DEF HalvingOnS
    <3> QED  BY <3>1
  <2>2. CASE i < j
    <3> DEFINE k == Middle(i, j)
    <3>1. k \in Int /\ i <= k /\ k < j
        BY <2>2, MiddleBetween
    <3>2. ~(i >= j)
        BY <2>2
    <3>3. f[<<i, k>>] \in S /\ f[<<k + 1, j>>] \in S =>
            f[<<i, j>>] = op[<<f[<<i, k>>], f[<<k + 1, j>>]>>]
        BY <3>2 DEF HalvingOnS
    <3> HIDE DEF k
    <3>4. k \in 1 .. n /\ k + 1 \in 1 .. n /\ k - i < j - i /\ j - (k + 1) < j - i
        BY <3>1
    <3>5. <<i, k>> \in P /\ <<k + 1, j>> \in P
        BY <1>1, <3>4
    <3>6. f[<<i, k>>] \in S /\ f[<<k + 1, j>>] \in S
        BY <3>5
    <3> QED  BY <3>3, <3>6
  <2> QED  BY <2>1, <2>2
<1> HIDE DEF P
<1>2. \A i, j \in 1 .. n : <<i, j>> \in P
    BY <1>1, SpanInduction
<1>3. \A i, j \in 1 .. n : f[<<i, j>>] \in S
    BY <1>2 DEF P
<1> SUFFICES ASSUME NEW i \in 1 .. n, NEW j \in 1 .. n
             PROVE  f[<<i, j>>] = IF i >= j THEN base[i]
                                  ELSE op[<<f[<<i, Middle(i, j)>>],
                                            f[<<Middle(i, j) + 1, j>>]>>]
    BY DEF Halving
<1>4. CASE i >= j
    BY <1>4 DEF HalvingOnS
<1>5. CASE i < j
  <2>1. Middle(i, j) \in Int /\ i <= Middle(i, j) /\ Middle(i, j) < j
      BY <1>5, MiddleBetween
  <2>2. Middle(i, j) \in 1 .. n /\ Middle(i, j) + 1 \in 1 .. n
      BY <2>1
  <2>3. f[<<i, Middle(i, j)>>] \in S /\ f[<<Middle(i, j) + 1, j>>] \in S
      BY <1>3, <2>2
  <2> QED  BY <1>5, <2>3 DEF HalvingOnS
<1> QED  BY <1>4, <1>5

\* The result for two sequences, one after the other.
LEMMA HalvingJoin ==
    ASSUME NEW S, NEW op \in [S \X S -> S], Associative(S, op),
           NEW s \in Seq(S), s # <<>>, NEW t \in Seq(S), t # <<>>,
           NEW f, HalvingOf(f, s, op), NEW g, HalvingOf(g, t, op),
           NEW h, HalvingOf(h, s \o t, op)
    PROVE  /\ Whole(h, s \o t) = op[<<Whole(f, s), Whole(g, t)>>]
           /\ Whole(f, s) \in S
           /\ Whole(g, t) \in S
<1> DEFINE n == Len(s)
           m == Len(t)
           st == s \o t
<1>1. n \in Nat \ {0} /\ m \in Nat \ {0}
    BY LenProperties
<1>2. /\ st \in Seq(S)
      /\ Len(st) = n + m
      /\ \A i \in 1 .. n : st[i] = s[i]
      /\ \A i \in 1 .. m : st[n + i] = t[i]
    BY <1>1, ConcatProperties
<1>3. st \in [1 .. n + m -> S]
    BY <1>2, LenProperties
<1> HIDE DEF st, n, m
<1>4. /\ Halving(f, n, s, op)
      /\ Halving(g, m, t, op)
      /\ Halving(h, n + m, st, op)
    BY <1>2 DEF n, m, st, HalvingOf
<1>5. Agrees(h, f, n, 0)
  <2>1. 0 \in Nat /\ 0 + n <= n + m /\ n + m \in Nat /\ n \in Nat
      BY <1>1
  <2>2. HasAt(st, s, n, 0)
      BY <1>1, <1>2 DEF HasAt
  <2> QED  BY <1>4, <2>1, <2>2, HalvingSame
<1>6. Agrees(h, g, m, n)
  <2>1. n \in Nat /\ n + m <= n + m /\ n + m \in Nat /\ m \in Nat
      BY <1>1
  <2>2. HasAt(st, t, m, n)
      BY <1>1, <1>2 DEF HasAt
  <2> QED  BY <1>4, <2>1, <2>2, HalvingSame
<1>7. CutAnywhere(h, n + m, op)
  <2>1. n + m \in Nat
      BY <1>1
  <2> QED  BY <1>3, <1>4, <2>1, HalvingCut
<1>8. h[<<1, n + m>>] = op[<<h[<<1, n>>], h[<<n + 1, n + m>>]>>]
  <2>1. 1 \in 1 .. n + m /\ n \in 1 .. n + m /\ 1 <= n /\ n < n + m
      BY <1>1
  <2>2. n + m \in 1 .. n + m
      BY <1>1
  <2> QED  BY <1>7, <2>1, <2>2 DEF CutAnywhere
<1>9. h[<<1, n>>] = f[<<1, n>>]
  <2>1. 1 + 0 = 1 /\ n + 0 = n /\ 1 \in 1 .. n /\ n \in 1 .. n
      BY <1>1
  <2> QED  BY <1>5, <2>1 DEF Agrees
<1>10. h[<<n + 1, n + m>>] = g[<<1, m>>]
  <2>1. 1 + n = n + 1 /\ m + n = n + m /\ 1 \in 1 .. m /\ m \in 1 .. m
      BY <1>1
  <2> QED  BY <1>6, <2>1 DEF Agrees
<1>11. h[<<1, Len(st)>>] = op[<<f[<<1, n>>], g[<<1, m>>]>>]
    BY <1>2, <1>8, <1>9, <1>10
<1>12. s \in [1 .. n -> S] /\ t \in [1 .. m -> S]
    BY LenProperties DEF n, m
<1>13. f[<<1, n>>] \in S
  <2>1. \A i, j \in 1 .. n : f[<<i, j>>] \in S
      BY <1>1, <1>4, <1>12, HalvingTyped
  <2>2. 1 \in 1 .. n /\ n \in 1 .. n
      BY <1>1
  <2> QED  BY <2>1, <2>2
<1>14. g[<<1, m>>] \in S
  <2>1. \A i, j \in 1 .. m : g[<<i, j>>] \in S
      BY <1>1, <1>4, <1>12, HalvingTyped
  <2>2. 1 \in 1 .. m /\ m \in 1 .. m
      BY <1>1
  <2> QED  BY <2>1, <2>2
<1> QED  BY <1>11, <1>13, <1>14 DEF n, m, st, Whole

-----------------------------------------------------------------------------
(***************************************************************************)
(* Sums                                                                    *)
(***************************************************************************)
Plus == [p \in Nat \X Nat |-> p[1] + p[2]]

\* Joined adds by halves.
LEMMA SumByHalves ==
    ASSUME NEW seq \in Seq(Nat), seq # <<>>
    PROVE  \E f : HalvingOf(f, seq, Plus) /\ Joined(+, seq) = Whole(f, seq)
<1> DEFINE n == Len(seq)
           D == (DOMAIN seq) \X (DOMAIN seq)
           body(f) == [s \in D |->
                         IF s[1] >= s[2] THEN seq[s[1]]
                         ELSE f[<<s[1], (s[1] + s[2]) \div 2>>] + f[<<(s[1] + s[2]) \div 2 + 1, s[2]>>]]
           chosen == CHOOSE f : f = body(f)
<1>1. n \in Nat \ {0} /\ DOMAIN seq = 1 .. n /\ seq \in [1 .. n -> Nat]
    BY LenProperties
<1>2. Joined(+, seq) = chosen[<<1, n>>]
    BY Zenon DEF Joined
<1>3. Plus \in [Nat \X Nat -> Nat]
    BY DEF Plus
<1>4. \A a, b \in Nat : Plus[<<a, b>>] = a + b
    BY DEF Plus
<1>5. D = (1 .. n) \X (1 .. n)
    BY <1>1
<1> HIDE DEF n, D
<1>6. PICK f \in [(1 .. n) \X (1 .. n) -> Nat] : Halving(f, n, seq, Plus)
    BY <1>1, <1>3, HalvingExists
<1>7. ASSUME NEW g, NEW i \in 1 .. n, NEW j \in 1 .. n
      PROVE  body(g)[<<i, j>>] =
               IF i >= j THEN seq[i]
               ELSE g[<<i, Middle(i, j)>>] + g[<<Middle(i, j) + 1, j>>]
    BY <1>5 DEF Middle
<1>8. f = body(f)
  <2>1. ASSUME NEW i \in 1 .. n, NEW j \in 1 .. n
        PROVE  f[<<i, j>>] = body(f)[<<i, j>>]
    <3> HIDE DEF body
    <3>1. CASE i >= j
        BY <1>6, <1>7, <3>1 DEF Halving
    <3>2. CASE i < j
      <4> DEFINE k == Middle(i, j)
      <4>1. k \in Int /\ i <= k /\ k < j
          BY <3>2, MiddleBetween
      <4>2. ~(i >= j)
          BY <3>2
      <4>3. f[<<i, j>>] = Plus[<<f[<<i, k>>], f[<<k + 1, j>>]>>]
          BY <1>6, <4>2 DEF Halving
      <4>4. body(f)[<<i, j>>] = f[<<i, k>>] + f[<<k + 1, j>>]
          BY <1>7, <4>2
      <4> HIDE DEF k
      <4>5. k \in 1 .. n /\ k + 1 \in 1 .. n
          BY <1>1, <4>1
      <4>6. f[<<i, k>>] \in Nat /\ f[<<k + 1, j>>] \in Nat
          BY <1>6, <4>5
      <4> QED  BY <1>4, <4>3, <4>4, <4>6
    <3> QED  BY <3>1, <3>2
  <2>2. f \in [D -> Nat]
      BY <1>5, <1>6
  <2>3. \A s \in D : f[s] = body(f)[s]
    <3> SUFFICES ASSUME NEW s \in D PROVE f[s] = body(f)[s]
        OBVIOUS
    <3>1. PICK i \in 1 .. n, j \in 1 .. n : s = <<i, j>>
        BY <1>5
    <3> HIDE DEF body
    <3> QED  BY <2>1, <3>1
  <2> QED  BY <2>2, <2>3
<1>9. chosen = body(chosen)
    BY <1>8
<1> HIDE DEF chosen
<1>10. HalvingOnS(chosen, Nat, n, seq, Plus)
  <2> SUFFICES ASSUME NEW i \in 1 .. n, NEW j \in 1 .. n
               PROVE  IF i >= j THEN chosen[<<i, j>>] = seq[i]
                      ELSE chosen[<<i, Middle(i, j)>>] \in Nat
                             /\ chosen[<<Middle(i, j) + 1, j>>] \in Nat
                             => chosen[<<i, j>>]
                                  = Plus[<<chosen[<<i, Middle(i, j)>>],
                                           chosen[<<Middle(i, j) + 1, j>>]>>]
      BY DEF HalvingOnS
  <2> HIDE DEF body
  <2>1. chosen[<<i, j>>] = IF i >= j THEN seq[i]
          ELSE chosen[<<i, Middle(i, j)>>] + chosen[<<Middle(i, j) + 1, j>>]
      BY <1>7, <1>9
  <2> QED  BY <1>4, <2>1
<1>11. Halving(chosen, n, seq, Plus)
    BY <1>1, <1>3, <1>10, WeakIsHalving
<1> QED  BY <1>2, <1>11 DEF n, HalvingOf, Whole

\* The sum of a sequence that is not empty, and of two in a row.
LEMMA SumJoin ==
    ASSUME NEW s \in Seq(Nat), s # <<>>, NEW t \in Seq(Nat), t # <<>>
    PROVE  /\ Joined(+, s) \in Nat
           /\ Joined(+, t) \in Nat
           /\ Joined(+, s \o t) = Joined(+, s) + Joined(+, t)
<1> DEFINE first  == Joined(+, s)
           second == Joined(+, t)
           both   == Joined(+, s \o t)
<1>1. /\ Plus \in [Nat \X Nat -> Nat]
      /\ \A a, b \in Nat : Plus[<<a, b>>] = a + b
    BY DEF Plus
<1>2. Associative(Nat, Plus)
  <2> SUFFICES ASSUME NEW a \in Nat, NEW b \in Nat, NEW c \in Nat
               PROVE  Plus[<<Plus[<<a, b>>], c>>] = Plus[<<a, Plus[<<b, c>>]>>]
      BY DEF Associative
  <2>1. a + b \in Nat /\ b + c \in Nat
      OBVIOUS
  <2>2. (a + b) + c = a + (b + c)
      OBVIOUS
  <2>3. Plus[<<a, b>>] = a + b /\ Plus[<<b, c>>] = b + c
      BY <1>1, Zenon
  <2>4. /\ Plus[<<a + b, c>>] = (a + b) + c
        /\ Plus[<<a, b + c>>] = a + (b + c)
      BY <1>1, <2>1, Zenon
  <2> QED  BY <2>2, <2>3, <2>4, Zenon
<1>3. s \o t \in Seq(Nat) /\ s \o t # <<>>
    BY ConcatProperties
<1>4. PICK f : HalvingOf(f, s, Plus) /\ first = Whole(f, s)
    BY SumByHalves, Zenon
<1>5. PICK g : HalvingOf(g, t, Plus) /\ second = Whole(g, t)
    BY SumByHalves, Zenon
<1>6. PICK h : HalvingOf(h, s \o t, Plus) /\ both = Whole(h, s \o t)
    BY <1>3, SumByHalves, Zenon
<1> HIDE DEF first, second, both
<1>7. /\ Whole(h, s \o t) = Plus[<<Whole(f, s), Whole(g, t)>>]
      /\ Whole(f, s) \in Nat /\ Whole(g, t) \in Nat
    BY <1>1, <1>2, <1>4, <1>5, <1>6, HalvingJoin
<1>8. first \in Nat /\ second \in Nat /\ both = first + second
    BY <1>1, <1>4, <1>5, <1>6, <1>7
<1> QED  BY <1>8, Zenon DEF first, second, both

-----------------------------------------------------------------------------
(***************************************************************************)
(* Concatenation                                                           *)
(***************************************************************************)
Append2(T) == [p \in Seq(T) \X Seq(T) |-> p[1] \o p[2]]

\* Concatenated concatenates by halves.
LEMMA ConcatByHalves ==
    ASSUME NEW T, NEW seq \in Seq(Seq(T)), seq # <<>>
    PROVE  \E f : HalvingOf(f, seq, Append2(T)) /\ Concatenated(seq) = Whole(f, seq)
<1> DEFINE n == Len(seq)
           D == (DOMAIN seq) \X (DOMAIN seq)
           body(f) == [s \in D |->
                         IF s[1] >= s[2] THEN seq[s[1]]
                         ELSE f[<<s[1], (s[1] + s[2]) \div 2>>] \o f[<<(s[1] + s[2]) \div 2 + 1, s[2]>>]]
           chosen == CHOOSE f : f = body(f)
<1>1. n \in Nat \ {0} /\ DOMAIN seq = 1 .. n /\ seq \in [1 .. n -> Seq(T)]
    BY LenProperties
<1>2. Concatenated(seq) = chosen[<<1, n>>]
    BY Zenon DEF Joined, Concatenated
<1>3. Append2(T) \in [Seq(T) \X Seq(T) -> Seq(T)]
    BY DEF Append2
<1>4. \A a, b \in Seq(T) : Append2(T)[<<a, b>>] = a \o b
    BY DEF Append2
<1>5. D = (1 .. n) \X (1 .. n)
    BY <1>1
<1> HIDE DEF n, D
<1>6. PICK f \in [(1 .. n) \X (1 .. n) -> Seq(T)] : Halving(f, n, seq, Append2(T))
    BY <1>1, <1>3, HalvingExists
<1>7. ASSUME NEW g, NEW i \in 1 .. n, NEW j \in 1 .. n
      PROVE  body(g)[<<i, j>>] =
               IF i >= j THEN seq[i]
               ELSE g[<<i, Middle(i, j)>>] \o g[<<Middle(i, j) + 1, j>>]
    BY <1>5 DEF Middle
<1>8. f = body(f)
  <2>1. ASSUME NEW i \in 1 .. n, NEW j \in 1 .. n
        PROVE  f[<<i, j>>] = body(f)[<<i, j>>]
    <3> HIDE DEF body
    <3>1. CASE i >= j
        BY <1>6, <1>7, <3>1 DEF Halving
    <3>2. CASE i < j
      <4> DEFINE k == Middle(i, j)
      <4>1. k \in Int /\ i <= k /\ k < j
          BY <3>2, MiddleBetween
      <4>2. ~(i >= j)
          BY <3>2
      <4>3. f[<<i, j>>] = Append2(T)[<<f[<<i, k>>], f[<<k + 1, j>>]>>]
          BY <1>6, <4>2 DEF Halving
      <4>4. body(f)[<<i, j>>] = f[<<i, k>>] \o f[<<k + 1, j>>]
          BY <1>7, <4>2
      <4> HIDE DEF k
      <4>5. k \in 1 .. n /\ k + 1 \in 1 .. n
          BY <1>1, <4>1
      <4>6. f[<<i, k>>] \in Seq(T) /\ f[<<k + 1, j>>] \in Seq(T)
          BY <1>6, <4>5
      <4> QED  BY <1>4, <4>3, <4>4, <4>6
    <3> QED  BY <3>1, <3>2
  <2>2. f \in [D -> Seq(T)]
      BY <1>5, <1>6
  <2>3. \A s \in D : f[s] = body(f)[s]
    <3> SUFFICES ASSUME NEW s \in D PROVE f[s] = body(f)[s]
        OBVIOUS
    <3>1. PICK i \in 1 .. n, j \in 1 .. n : s = <<i, j>>
        BY <1>5
    <3> HIDE DEF body
    <3> QED  BY <2>1, <3>1
  <2> QED  BY <2>2, <2>3
<1>9. chosen = body(chosen)
    BY <1>8
<1> HIDE DEF chosen
<1>10. HalvingOnS(chosen, Seq(T), n, seq, Append2(T))
  <2> SUFFICES ASSUME NEW i \in 1 .. n, NEW j \in 1 .. n
               PROVE  IF i >= j THEN chosen[<<i, j>>] = seq[i]
                      ELSE chosen[<<i, Middle(i, j)>>] \in Seq(T)
                             /\ chosen[<<Middle(i, j) + 1, j>>] \in Seq(T)
                             => chosen[<<i, j>>]
                                  = Append2(T)[<<chosen[<<i, Middle(i, j)>>],
                                           chosen[<<Middle(i, j) + 1, j>>]>>]
      BY DEF HalvingOnS
  <2> HIDE DEF body
  <2>1. chosen[<<i, j>>] = IF i >= j THEN seq[i]
          ELSE chosen[<<i, Middle(i, j)>>] \o chosen[<<Middle(i, j) + 1, j>>]
      BY <1>7, <1>9
  <2> QED  BY <1>4, <2>1
<1>11. Halving(chosen, n, seq, Append2(T))
    BY <1>1, <1>3, <1>10, WeakIsHalving
<1> QED  BY <1>2, <1>11 DEF n, HalvingOf, Whole

LEMMA ConcatAssociates ==
    ASSUME NEW T, NEW a \in Seq(T), NEW b \in Seq(T), NEW c \in Seq(T)
    PROVE  (a \o b) \o c = a \o (b \o c)
<1>1. /\ a \o b \in Seq(T) /\ b \o c \in Seq(T)
      /\ Len(a) \in Nat /\ Len(b) \in Nat /\ Len(c) \in Nat
      /\ Len(a \o b) = Len(a) + Len(b) /\ Len(b \o c) = Len(b) + Len(c)
    BY ConcatProperties, LenProperties
<1>2. /\ (a \o b) \o c \in Seq(T) /\ a \o (b \o c) \in Seq(T)
      /\ Len((a \o b) \o c) = Len(a) + Len(b) + Len(c)
      /\ Len(a \o (b \o c)) = Len(a) + Len(b) + Len(c)
    BY <1>1, ConcatProperties
<1>3. ASSUME NEW i \in 1 .. Len(a) + Len(b) + Len(c)
      PROVE  ((a \o b) \o c)[i] = (a \o (b \o c))[i]
  <2>1. CASE i <= Len(a)
      BY <1>1, <2>1
  <2>2. CASE i > Len(a) /\ i <= Len(a) + Len(b)
      BY <1>1, <2>2
  <2>3. CASE i > Len(a) + Len(b)
      BY <1>1, <2>3
  <2> QED  BY <1>1, <2>1, <2>2, <2>3
<1> QED  BY <1>1, <1>2, <1>3, SeqEqual

\* As an operation on sequences.
LEMMA Appending ==
    ASSUME NEW T
    PROVE  /\ Append2(T) \in [Seq(T) \X Seq(T) -> Seq(T)]
           /\ \A a, b \in Seq(T) : Append2(T)[<<a, b>>] = a \o b
           /\ Associative(Seq(T), Append2(T))
<1>1. /\ Append2(T) \in [Seq(T) \X Seq(T) -> Seq(T)]
      /\ \A a, b \in Seq(T) : Append2(T)[<<a, b>>] = a \o b
  <2>1. \A a, b \in Seq(T) : a \o b \in Seq(T)
      BY ConcatProperties
  <2>2. Append2(T) \in [Seq(T) \X Seq(T) -> Seq(T)]
      BY <2>1, Zenon DEF Append2
  <2>3. \A a, b \in Seq(T) : Append2(T)[<<a, b>>] = a \o b
      BY Zenon DEF Append2
  <2> QED  BY <2>2, <2>3
<1>2. Associative(Seq(T), Append2(T))
  <2> SUFFICES ASSUME NEW a \in Seq(T), NEW b \in Seq(T), NEW c \in Seq(T)
               PROVE  Append2(T)[<<Append2(T)[<<a, b>>], c>>] =
                       Append2(T)[<<a, Append2(T)[<<b, c>>]>>]
      BY DEF Associative
  <2>1. a \o b \in Seq(T) /\ b \o c \in Seq(T)
      OBVIOUS
  <2>2. (a \o b) \o c = a \o (b \o c)
      BY ConcatAssociates
  <2>3. /\ Append2(T)[<<a, b>>] = a \o b
        /\ Append2(T)[<<b, c>>] = b \o c
      BY <1>1, Zenon
  <2>4. /\ Append2(T)[<<a \o b, c>>] = (a \o b) \o c
        /\ Append2(T)[<<a, b \o c>>] = a \o (b \o c)
      BY <1>1, <2>1, Zenon
  <2> QED  BY <2>2, <2>3, <2>4, Zenon
<1> QED  BY <1>1, <1>2

\* The concatenation of sequences, and of twice as many.
LEMMA ConcatJoin ==
    ASSUME NEW T, NEW s \in Seq(Seq(T)), s # <<>>, NEW t \in Seq(Seq(T)), t # <<>>
    PROVE  /\ Concatenated(s) \in Seq(T)
           /\ Concatenated(t) \in Seq(T)
           /\ Concatenated(s \o t) = Concatenated(s) \o Concatenated(t)
<1> DEFINE first  == Concatenated(s)
           second == Concatenated(t)
           both   == Concatenated(s \o t)
<1>1. /\ Append2(T) \in [Seq(T) \X Seq(T) -> Seq(T)]
      /\ \A a, b \in Seq(T) : Append2(T)[<<a, b>>] = a \o b
    BY Appending, Zenon
<1>2. Associative(Seq(T), Append2(T))
    BY Appending, Zenon
<1>3. s \o t \in Seq(Seq(T)) /\ s \o t # <<>>
    BY ConcatProperties
<1>4. PICK f : HalvingOf(f, s, Append2(T)) /\ first = Whole(f, s)
    BY ConcatByHalves, Zenon
<1>5. PICK g : HalvingOf(g, t, Append2(T)) /\ second = Whole(g, t)
    BY ConcatByHalves, Zenon
<1>6. PICK h : HalvingOf(h, s \o t, Append2(T)) /\ both = Whole(h, s \o t)
    BY <1>3, ConcatByHalves, Zenon
<1> HIDE DEF first, second, both
<1>7. /\ Whole(h, s \o t) = Append2(T)[<<Whole(f, s), Whole(g, t)>>]
      /\ Whole(f, s) \in Seq(T) /\ Whole(g, t) \in Seq(T)
    BY <1>1, <1>2, <1>4, <1>5, <1>6, HalvingJoin
<1>8. first \in Seq(T) /\ second \in Seq(T) /\ both = first \o second
    BY <1>1, <1>4, <1>5, <1>6, <1>7
<1> QED  BY <1>8, Zenon DEF first, second, both

-----------------------------------------------------------------------------
(***************************************************************************)
(* Check codes                                                             *)
(***************************************************************************)
Coding == [Code -> Code]
Compose == [p \in Coding \X Coding |-> Then(p[1], p[2])]

\* Crc passes codes on by halves.
LEMMA CodeByHalves ==
    ASSUME NEW seq \in Seq(Coding), seq # <<>>
    PROVE  \E f : HalvingOf(f, seq, Compose) /\ Joined(Then, seq) = Whole(f, seq)
<1> DEFINE n == Len(seq)
           D == (DOMAIN seq) \X (DOMAIN seq)
           body(f) == [s \in D |->
                         IF s[1] >= s[2] THEN seq[s[1]]
                         ELSE Then(f[<<s[1], (s[1] + s[2]) \div 2>>], f[<<(s[1] + s[2]) \div 2 + 1, s[2]>>])]
           chosen == CHOOSE f : f = body(f)
<1>1. n \in Nat \ {0} /\ DOMAIN seq = 1 .. n /\ seq \in [1 .. n -> Coding]
    BY LenProperties
<1>2. Joined(Then, seq) = chosen[<<1, n>>]
    BY Zenon DEF Joined
<1>3. Compose \in [Coding \X Coding -> Coding]
  <2>1. \A a, b \in Coding : Then(a, b) \in Coding
      BY DEF Coding, Then
  <2> QED  BY <2>1, Zenon DEF Compose
<1>4. \A a, b \in Coding : Compose[<<a, b>>] = Then(a, b)
    BY DEF Compose
<1>5. D = (1 .. n) \X (1 .. n)
    BY <1>1
<1> HIDE DEF n, D
<1>6. PICK f \in [(1 .. n) \X (1 .. n) -> Coding] : Halving(f, n, seq, Compose)
    BY <1>1, <1>3, HalvingExists
<1>7. ASSUME NEW g, NEW i \in 1 .. n, NEW j \in 1 .. n
      PROVE  body(g)[<<i, j>>] =
               IF i >= j THEN seq[i]
               ELSE Then(g[<<i, Middle(i, j)>>], g[<<Middle(i, j) + 1, j>>])
    BY <1>5 DEF Middle
<1>8. f = body(f)
  <2>1. ASSUME NEW i \in 1 .. n, NEW j \in 1 .. n
        PROVE  f[<<i, j>>] = body(f)[<<i, j>>]
    <3> HIDE DEF body
    <3>1. CASE i >= j
        BY <1>6, <1>7, <3>1 DEF Halving
    <3>2. CASE i < j
      <4> DEFINE k == Middle(i, j)
      <4>1. k \in Int /\ i <= k /\ k < j
          BY <3>2, MiddleBetween
      <4>2. ~(i >= j)
          BY <3>2
      <4>3. f[<<i, j>>] = Compose[<<f[<<i, k>>], f[<<k + 1, j>>]>>]
          BY <1>6, <4>2 DEF Halving
      <4>4. body(f)[<<i, j>>] = Then(f[<<i, k>>], f[<<k + 1, j>>])
          BY <1>7, <4>2
      <4> HIDE DEF k
      <4>5. k \in 1 .. n /\ k + 1 \in 1 .. n
          BY <1>1, <4>1
      <4>6. f[<<i, k>>] \in Coding /\ f[<<k + 1, j>>] \in Coding
          BY <1>6, <4>5
      <4> QED  BY <1>4, <4>3, <4>4, <4>6
    <3> QED  BY <3>1, <3>2
  <2>2. f \in [D -> Coding]
      BY <1>5, <1>6
  <2>3. \A s \in D : f[s] = body(f)[s]
    <3> SUFFICES ASSUME NEW s \in D PROVE f[s] = body(f)[s]
        OBVIOUS
    <3>1. PICK i \in 1 .. n, j \in 1 .. n : s = <<i, j>>
        BY <1>5
    <3> HIDE DEF body
    <3> QED  BY <2>1, <3>1
  <2> QED  BY <2>2, <2>3
<1>9. chosen = body(chosen)
    BY <1>8
<1> HIDE DEF chosen
<1>10. HalvingOnS(chosen, Coding, n, seq, Compose)
  <2> SUFFICES ASSUME NEW i \in 1 .. n, NEW j \in 1 .. n
               PROVE  IF i >= j THEN chosen[<<i, j>>] = seq[i]
                      ELSE chosen[<<i, Middle(i, j)>>] \in Coding
                             /\ chosen[<<Middle(i, j) + 1, j>>] \in Coding
                             => chosen[<<i, j>>]
                                  = Compose[<<chosen[<<i, Middle(i, j)>>],
                                           chosen[<<Middle(i, j) + 1, j>>]>>]
      BY DEF HalvingOnS
  <2> HIDE DEF body
  <2>1. chosen[<<i, j>>] = IF i >= j THEN seq[i]
          ELSE Then(chosen[<<i, Middle(i, j)>>], chosen[<<Middle(i, j) + 1, j>>])
      BY <1>7, <1>9
  <2> QED  BY <1>4, <2>1
<1>11. Halving(chosen, n, seq, Compose)
    BY <1>1, <1>3, <1>10, WeakIsHalving
<1> QED  BY <1>2, <1>11 DEF n, HalvingOf, Whole

\* The coding of bytes, and of more bytes after them.
LEMMA CodeJoin ==
    ASSUME NEW s \in Seq(Coding), s # <<>>, NEW t \in Seq(Coding), t # <<>>
    PROVE  /\ Joined(Then, s) \in Coding
           /\ Joined(Then, t) \in Coding
           /\ Joined(Then, s \o t) = Then(Joined(Then, s), Joined(Then, t))
<1> DEFINE first  == Joined(Then, s)
           second == Joined(Then, t)
           both   == Joined(Then, s \o t)
<1>1. /\ Compose \in [Coding \X Coding -> Coding]
      /\ \A a, b \in Coding : Compose[<<a, b>>] = Then(a, b)
  <2>1. \A a, b \in Coding : Then(a, b) \in Coding
      BY DEF Coding, Then
  <2> QED  BY <2>1, Zenon DEF Compose
<1>2. Associative(Coding, Compose)
  <2> SUFFICES ASSUME NEW a \in Coding, NEW b \in Coding, NEW c \in Coding
               PROVE  Compose[<<Compose[<<a, b>>], c>>] =
                       Compose[<<a, Compose[<<b, c>>]>>]
      BY DEF Associative
  <2>1. Then(a, b) \in Coding /\ Then(b, c) \in Coding
      BY DEF Coding, Then
  <2>2. Then((Then(a, b)), c) = Then(a, (Then(b, c)))
      BY DEF Coding, Then
  <2> QED  BY <1>1, <2>1, <2>2
<1>3. s \o t \in Seq(Coding) /\ s \o t # <<>>
    BY ConcatProperties
<1>4. PICK f : HalvingOf(f, s, Compose) /\ first = Whole(f, s)
    BY CodeByHalves, Zenon
<1>5. PICK g : HalvingOf(g, t, Compose) /\ second = Whole(g, t)
    BY CodeByHalves, Zenon
<1>6. PICK h : HalvingOf(h, s \o t, Compose) /\ both = Whole(h, s \o t)
    BY <1>3, CodeByHalves, Zenon
<1> HIDE DEF first, second, both
<1>7. /\ Whole(h, s \o t) = Compose[<<Whole(f, s), Whole(g, t)>>]
      /\ Whole(f, s) \in Coding /\ Whole(g, t) \in Coding
    BY <1>1, <1>2, <1>4, <1>5, <1>6, HalvingJoin
<1>8. first \in Coding /\ second \in Coding /\ both = Then(first, second)
    BY <1>1, <1>4, <1>5, <1>6, <1>7
<1> QED  BY <1>8, Zenon DEF first, second, both

-----------------------------------------------------------------------------
(***************************************************************************)
(* Types                                                                   *)
(***************************************************************************)
\* crc16 takes and returns a uint16_t.
CodesAre16Bits == \A byte \in Byte, code \in Code : crc16(byte, code) \in Code

LEMMA ConcatType ==
    ASSUME NEW T, NEW s \in Seq(Seq(T)), s # <<>>
    PROVE  Concatenated(s) \in Seq(T)
BY ConcatJoin, Zenon

\* The concatenation of one sequence is that sequence.
LEMMA ConcatOne ==
    ASSUME NEW T, NEW a \in Seq(T)
    PROVE  Concatenated(<<a>>) = a
<1> DEFINE s == <<a>>
<1>1. s \in Seq(Seq(T)) /\ s # <<>> /\ Len(s) = 1 /\ s[1] = a
    OBVIOUS
<1> HIDE DEF s
<1>2. PICK f : HalvingOf(f, s, Append2(T)) /\ Concatenated(s) = Whole(f, s)
    BY <1>1, ConcatByHalves, Zenon
<1>3. f[<<1, 1>>] = s[1]
    BY <1>1, <1>2 DEF HalvingOf, Halving
<1>4. Whole(f, s) = a
    BY <1>1, <1>3 DEF Whole
<1>5. Concatenated(s) = a
    BY <1>2, <1>4, Zenon
<1> QED  BY <1>5, Zenon DEF s

\* A sum of bytes and a start, kept in a byte.
LEMMA ChecksumType ==
    ASSUME NEW bytes \in Seq(Nat), NEW start \in Nat
    PROVE  checksum(bytes, start) \in Byte
<1> DEFINE s == <<start>> \o bytes
           sum == Joined(+, s)
<1>1. s \in Seq(Nat) /\ Len(s) = 1 + Len(bytes) /\ Len(bytes) \in Nat
    OBVIOUS
<1>2. s # <<>>
    BY <1>1
<1>3. sum \in Nat
    BY <1>1, <1>2, SumJoin, Zenon
<1>4. checksum(bytes, start) = Narrow(sum)
    BY Zenon DEF checksum
<1> HIDE DEF sum
<1>5. Narrow(sum) \in Byte
    BY <1>3 DEF Narrow, Byte
<1> QED  BY <1>4, <1>5, Zenon

\* What the bytes of a sequence make of codes.
Steps(bytes) == [i \in DOMAIN bytes |-> OneByte(bytes[i])]

LEMMA StepsType ==
    ASSUME CodesAre16Bits, NEW bytes \in Seq(Byte)
    PROVE  /\ Steps(bytes) \in Seq(Coding)
           /\ Len(Steps(bytes)) = Len(bytes)
           /\ \A i \in 1 .. Len(bytes) : Steps(bytes)[i] = OneByte(bytes[i])
<1>1. Len(bytes) \in Nat /\ DOMAIN bytes = 1 .. Len(bytes)
      /\ \A i \in 1 .. Len(bytes) : bytes[i] \in Byte
    OBVIOUS
<1>2. \A byte \in Byte : OneByte(byte) \in Coding
    BY DEF OneByte, Coding, CodesAre16Bits
<1>3. Steps(bytes) \in [1 .. Len(bytes) -> Coding]
    BY <1>1, <1>2 DEF Steps
<1>4. Steps(bytes) \in Seq(Coding)
    BY <1>1, <1>3, SeqDef
<1>5. DOMAIN Steps(bytes) = 1 .. Len(bytes)
    BY <1>3
<1>6. Len(Steps(bytes)) = Len(bytes)
    BY <1>1, <1>4, <1>5, LenProperties
<1> QED  BY <1>1, <1>4, <1>6 DEF Steps

LEMMA CrcType ==
    ASSUME CodesAre16Bits, NEW bytes \in Seq(Byte), NEW start \in Code
    PROVE  Crc(bytes, start) \in Code
<1> DEFINE steps == Steps(bytes)
           all   == Joined(Then, steps)
<1>1. CASE bytes = <<>>
    BY <1>1, Zenon DEF Crc
<1>2. CASE bytes # <<>>
  <2>1. steps \in Seq(Coding) /\ steps # <<>>
      BY <1>2, StepsType
  <2>2. all \in Coding
      BY <2>1, CodeJoin, Zenon
  <2>3. Crc(bytes, start) = all[start]
      BY <1>2, Zenon DEF Crc, Steps
  <2> HIDE DEF all
  <2>4. all[start] \in Code
      BY <2>2 DEF Coding
  <2> QED  BY <2>3, <2>4, Zenon
<1> QED  BY <1>1, <1>2

-----------------------------------------------------------------------------
(***************************************************************************)
(* Escaping                                                                *)
(***************************************************************************)
\* One byte on the line, and each byte of a sequence.
Written(byte) ==
    IF byte = SEPARATOR_BYTE THEN <<SEPARATOR_BYTE, SEPARATOR_POST_BYTE>>
    ELSE <<byte>>

EachWritten(bytes) == [i \in DOMAIN bytes |-> Written(bytes[i])]

LEMMA WrittenType ==
    ASSUME NEW byte \in Byte
    PROVE  /\ Written(byte) \in Seq(Byte)
           /\ Len(Written(byte)) = IF byte = SEPARATOR_BYTE THEN 2 ELSE 1
<1>1. SEPARATOR_BYTE \in Byte /\ SEPARATOR_POST_BYTE \in Byte
    BY DEF SEPARATOR_BYTE, SEPARATOR_POST_BYTE, Byte
<1> QED  BY <1>1 DEF Written

LEMMA EachWrittenType ==
    ASSUME NEW bytes \in Seq(Byte)
    PROVE  /\ EachWritten(bytes) \in Seq(Seq(Byte))
           /\ Len(EachWritten(bytes)) = Len(bytes)
           /\ \A i \in 1 .. Len(bytes) :
                 EachWritten(bytes)[i] = Written(bytes[i])
<1>1. Len(bytes) \in Nat /\ DOMAIN bytes = 1 .. Len(bytes)
      /\ \A i \in 1 .. Len(bytes) : bytes[i] \in Byte
    OBVIOUS
<1>2. \A byte \in Byte : Written(byte) \in Seq(Byte)
    BY WrittenType
<1>3. EachWritten(bytes) \in [1 .. Len(bytes) -> Seq(Byte)]
    BY <1>1, <1>2 DEF EachWritten
<1>4. EachWritten(bytes) \in Seq(Seq(Byte))
    BY <1>1, <1>3, SeqDef
<1>5. DOMAIN EachWritten(bytes) = 1 .. Len(bytes)
    BY <1>3
<1>6. Len(EachWritten(bytes)) = Len(bytes)
    BY <1>1, <1>4, <1>5, LenProperties
<1> QED  BY <1>1, <1>4, <1>6 DEF EachWritten

LEMMA EscapedIs ==
    ASSUME NEW bytes
    PROVE  Escaped(bytes) = Concatenated(EachWritten(bytes))
BY Zenon DEF Escaped, EachWritten, Written

\* Escaping goes byte by byte.
LEMMA EscapedJoin ==
    ASSUME NEW s \in Seq(Byte), s # <<>>, NEW t \in Seq(Byte), t # <<>>
    PROVE  /\ Escaped(s) \in Seq(Byte)
           /\ Escaped(t) \in Seq(Byte)
           /\ Escaped(s \o t) = Escaped(s) \o Escaped(t)
<1> DEFINE first  == EachWritten(s)
           second == EachWritten(t)
           both   == EachWritten(s \o t)
<1>1. /\ first \in Seq(Seq(Byte)) /\ Len(first) = Len(s)
      /\ \A i \in 1 .. Len(s) : first[i] = Written(s[i])
    BY EachWrittenType
<1>2. /\ second \in Seq(Seq(Byte)) /\ Len(second) = Len(t)
      /\ \A i \in 1 .. Len(t) : second[i] = Written(t[i])
    BY EachWrittenType
<1>3. /\ s \o t \in Seq(Byte) /\ Len(s \o t) = Len(s) + Len(t)
      /\ Len(s) \in Nat /\ Len(t) \in Nat
      /\ \A i \in 1 .. Len(s) + Len(t) :
            (s \o t)[i] = IF i <= Len(s) THEN s[i] ELSE t[i - Len(s)]
    BY ConcatProperties, LenProperties
<1>4. /\ both \in Seq(Seq(Byte)) /\ Len(both) = Len(s) + Len(t)
      /\ \A i \in 1 .. Len(s) + Len(t) : both[i] = Written((s \o t)[i])
    BY <1>3, EachWrittenType
<1>5. s # <<>> /\ t # <<>> => first # <<>> /\ second # <<>>
    BY <1>1, <1>2, EmptySeq
<1> HIDE DEF first, second, both
<1>6. both = first \o second
  <2>1. \A i \in 1 .. Len(first) : both[i] = first[i]
      BY <1>1, <1>3, <1>4
  <2>2. ASSUME NEW i \in 1 .. Len(second)
        PROVE  both[Len(first) + i] = second[i]
    <3>1. /\ Len(s) + i \in 1 .. Len(s) + Len(t)
          /\ ~(Len(s) + i <= Len(s)) /\ Len(s) + i - Len(s) = i
        BY <1>2, <1>3
    <3> DEFINE k == Len(s) + i
    <3>2. k \in 1 .. Len(s) + Len(t) /\ ~(k <= Len(s)) /\ k - Len(s) = i
        BY <3>1
    <3> HIDE DEF k
    <3>3. (s \o t)[k] = t[i]
        BY <1>3, <3>2
    <3>4. both[k] = second[i]
        BY <1>2, <1>4, <3>2, <3>3
    <3> QED  BY <1>1, <3>4 DEF k
  <2>3. ConcatOf(both, first, second)
      BY <1>1, <1>2, <1>4, <2>1, <2>2 DEF ConcatOf
  <2> HIDE DEF first, second, both
  <2> QED  BY <1>1, <1>2, <1>4, <2>3, ConcatIs, Zenon
<1>7. /\ Concatenated(first) \in Seq(Byte)
      /\ Concatenated(second) \in Seq(Byte)
      /\ Concatenated(first \o second)
           = Concatenated(first) \o Concatenated(second)
    BY <1>1, <1>2, <1>5, ConcatJoin, Zenon
<1>8. /\ Escaped(s) = Concatenated(first)
      /\ Escaped(t) = Concatenated(second)
      /\ Escaped(s \o t) = Concatenated(both)
    BY EscapedIs, Zenon DEF first, second, both
<1> QED  BY <1>6, <1>7, <1>8, Zenon

LEMMA EscapedOne ==
    ASSUME NEW byte \in Byte
    PROVE  Escaped(<<byte>>) = Written(byte)
<1>1. EachWritten(<<byte>>) = <<Written(byte)>>
    BY DEF EachWritten
<1>2. Concatenated(<<Written(byte)>>) = Written(byte)
    BY WrittenType, ConcatOne, Zenon
<1> QED  BY <1>1, <1>2, EscapedIs, Zenon

\* One byte more.
LEMMA OneMoreCounted ==
    ASSUME NEW s \in Seq(Byte), NEW byte \in Byte
    PROVE  Separators(s \o <<byte>>)
             = Separators(s) + (IF byte = SEPARATOR_BYTE THEN 1 ELSE 0)
<1> DEFINE t == s \o <<byte>>
           n == Len(s)
<1>1. /\ t \in Seq(Byte) /\ n \in Nat /\ Len(t) = n + 1
      /\ \A i \in 1 .. n : t[i] = s[i]
      /\ t[n + 1] = byte
    OBVIOUS
<1>2. IsSequence(s) /\ IsSequence(t)
    BY <1>1, OverSomeSet
<1> HIDE DEF t, n
<1>3. Separators(SubSeq(t, 1, n + 1))
        = IF byte = SEPARATOR_BYTE THEN Separators(SubSeq(t, 1, n)) + 1
          ELSE Separators(SubSeq(t, 1, n))
    BY <1>1, <1>2, OneMoreByte
<1>4. Separators(SubSeq(t, 1, n)) = Separators(SubSeq(s, 1, n))
    BY <1>1, <1>2, SamePiece DEF n
<1>5. SubSeq(s, 1, n) = s /\ SubSeq(t, 1, n + 1) = t
    BY <1>1, SubSeqFull DEF n
<1>6. Separators(s) \in Nat
    BY <1>2, CountIsNumber
<1>7. Separators(t) = Separators(s) + (IF byte = SEPARATOR_BYTE THEN 1 ELSE 0)
  <2> DEFINE count == Separators(s)
             more  == Separators(t)
  <2>1. more = IF byte = SEPARATOR_BYTE THEN count + 1 ELSE count
      BY <1>3, <1>4, <1>5
  <2> HIDE DEF count, more
  <2>2. count \in Nat
      BY <1>6 DEF count
  <2>3. more = count + (IF byte = SEPARATOR_BYTE THEN 1 ELSE 0)
      BY <2>1, <2>2
  <2> QED  BY <2>3 DEF count, more
<1> QED  BY <1>7 DEF t

\* A sequence that is not empty ends with a byte.
LEMMA SplitLast ==
    ASSUME NEW T, NEW s \in Seq(T), s # <<>>
    PROVE  \E front \in Seq(T), last \in T :
               Len(front) = Len(s) - 1 /\ s = front \o <<last>>
<1> DEFINE n     == Len(s)
           front == SubSeq(s, 1, n - 1)
<1>1. n \in Nat \ {0} /\ \A i \in 1 .. n : s[i] \in T
    BY EmptySeq, LenProperties
<1> HIDE DEF n
<1>2. n - 1 \in Nat /\ 1 .. n - 1 \subseteq 1 .. n
    BY <1>1
<1>3. /\ front \in Seq(T) /\ Len(front) = n - 1
      /\ \A i \in 1 .. n - 1 : front[i] = s[i]
  <2>1. \A i \in 1 .. n - 1 : s[i] \in T
      BY <1>1, <1>2
  <2>2. /\ front \in Seq(T)
        /\ Len(front) = IF 1 <= n - 1 THEN n - 1 - 1 + 1 ELSE 0
        /\ \A i \in 1 .. n - 1 - 1 + 1 : front[i] = s[1 + i - 1]
      BY <1>1, <1>2, <2>1, SubSeqProperties
  <2> QED  BY <1>1, <1>2, <2>2
<1>4. s[n] \in T
    BY <1>1
<1> HIDE DEF front
<1>5. /\ <<s[n]>> \in Seq(T) /\ Len(<<s[n]>>) = 1
      /\ \A i \in 1 .. 1 : s[Len(front) + i] = <<s[n]>>[i]
    BY <1>1, <1>2, <1>3, <1>4
<1>6. ConcatOf(s, front, <<s[n]>>)
    BY <1>1, <1>2, <1>3, <1>5 DEF ConcatOf, n
<1>7. s = front \o <<s[n]>>
    BY <1>3, <1>5, <1>6, ConcatIs, Zenon
<1> QED  BY <1>3, <1>4, <1>7 DEF n

\* Every separator costs one byte more.
LEMMA EscapedLength ==
    ASSUME NEW s \in Seq(Byte), s # <<>>
    PROVE  /\ Escaped(s) \in Seq(Byte)
           /\ Len(Escaped(s)) = Len(s) + Separators(s)
           /\ Separators(s) \in Nat
           /\ Separators(s) <= Len(s)
<1> DEFINE Claim(t) ==
             /\ Escaped(t) \in Seq(Byte)
             /\ Len(Escaped(t)) = Len(t) + Separators(t)
             /\ Separators(t) <= Len(t)
           S == {n \in Nat : \A t \in Seq(Byte) : Len(t) = n /\ n # 0 => Claim(t)}
<1>1. \A t \in Seq(Byte) : Len(t) \in Nat /\ (Len(t) = 0 <=> t = <<>>)
    BY EmptySeq, LenProperties
<1>2. \A t \in Seq(Byte) : Separators(t) \in Nat
    BY OverSomeSet, CountIsNumber
<1>3. ASSUME NEW n \in Nat, \A m \in Nat : m < n => m \in S
      PROVE  n \in S
  <2> SUFFICES ASSUME NEW t \in Seq(Byte), Len(t) = n, n # 0
               PROVE  Claim(t)
      OBVIOUS
  <2>1. PICK front \in Seq(Byte), last \in Byte :
            Len(front) = n - 1 /\ t = front \o <<last>>
    <3>1. t # <<>>
        BY <1>1
    <3>2. \E front \in Seq(Byte), last \in Byte :
              Len(front) = Len(t) - 1 /\ t = front \o <<last>>
        BY <3>1, SplitLast, Zenon
    <3> QED  BY <3>2
  <2>2. Separators(t)
          = Separators(front) + (IF last = SEPARATOR_BYTE THEN 1 ELSE 0)
      BY <2>1, OneMoreCounted
  <2>3. /\ Escaped(<<last>>) \in Seq(Byte)
        /\ Len(Escaped(<<last>>)) = IF last = SEPARATOR_BYTE THEN 2 ELSE 1
      BY EscapedOne, WrittenType
  <2>4. CASE n = 1
    <3>1. front = <<>> /\ t = <<last>>
        BY <1>1, <2>1, <2>4
    <3>2. Separators(front) = 0
      <4>1. {i \in DOMAIN <<>> : <<>>[i] = SEPARATOR_BYTE} = {}
          OBVIOUS
      <4> QED  BY <3>1, <4>1, FS_EmptySet DEF Separators
    <3> QED  BY <2>2, <2>3, <2>4, <3>1, <3>2
  <2>5. CASE n # 1
    <3>1. n - 1 \in Nat /\ n - 1 < n /\ n - 1 # 0
        BY <2>5
    <3>2. n - 1 \in S
        BY <1>3, <3>1
    <3>3. Claim(front)
        BY <2>1, <3>1, <3>2
    <3>4. front # <<>>
        BY <1>1, <2>1, <3>1
    <3>5. /\ Escaped(t) = Escaped(front) \o Escaped(<<last>>)
          /\ <<last>> \in Seq(Byte) /\ <<last>> # <<>>
      <4>1. <<last>> \in Seq(Byte) /\ <<last>> # <<>>
          OBVIOUS
      <4> QED  BY <2>1, <3>4, <4>1, EscapedJoin
    <3>6. /\ Escaped(t) \in Seq(Byte)
          /\ Len(Escaped(t)) = Len(Escaped(front)) + Len(Escaped(<<last>>))
        BY <2>3, <3>3, <3>5, ConcatProperties
    <3>7. Separators(front) \in Nat
        BY <1>2
    <3> DEFINE c == Separators(front)
               e == Len(Escaped(front))
               d == Len(Escaped(<<last>>))
    <3>8. e = n - 1 + c /\ c <= n - 1 /\ c \in Nat
        BY <2>1, <3>3, <3>7
    <3>9. /\ Separators(t) = c + (IF last = SEPARATOR_BYTE THEN 1 ELSE 0)
          /\ Len(Escaped(t)) = e + d
          /\ d = IF last = SEPARATOR_BYTE THEN 2 ELSE 1
        BY <2>2, <2>3, <3>6
    <3> DEFINE f == Len(Escaped(t))
               g == Separators(t)
    <3>10. g = c + (IF last = SEPARATOR_BYTE THEN 1 ELSE 0) /\ f = e + d
        BY <3>9
    <3> HIDE DEF c, e, d, f, g
    <3>11. f = n + g /\ g <= n
        BY <3>8, <3>9, <3>10
    <3> QED  BY <3>6, <3>11 DEF f, g
  <2> QED  BY <2>4, <2>5
<1>4. Nat \subseteq S
  <2> HIDE DEF S
  <2> QED  BY <1>3, StrongInduction
<1>5. Len(s) \in S /\ Len(s) # 0
    BY <1>1, <1>4
<1>6. Claim(s)
    BY <1>5
<1> QED  BY <1>2, <1>6

\* Separators in two sequences.
LEMMA SeparatorsJoin ==
    ASSUME NEW s \in Seq(Byte), NEW t \in Seq(Byte)
    PROVE  /\ Separators(s) \in Nat
           /\ Separators(t) \in Nat
           /\ Separators(s \o t) = Separators(s) + Separators(t)
<1> DEFINE Claim(u) == Separators(s \o u) = Separators(s) + Separators(u)
           S == {n \in Nat : \A u \in Seq(Byte) : Len(u) = n => Claim(u)}
<1>1. \A u \in Seq(Byte) : Len(u) \in Nat /\ (Len(u) = 0 <=> u = <<>>)
    BY EmptySeq, LenProperties
<1>2. \A u \in Seq(Byte) : Separators(u) \in Nat
    BY OverSomeSet, CountIsNumber
<1>3. ASSUME NEW n \in Nat, \A m \in Nat : m < n => m \in S
      PROVE  n \in S
  <2> SUFFICES ASSUME NEW u \in Seq(Byte), Len(u) = n
               PROVE  Claim(u)
      OBVIOUS
  <2>1. CASE n = 0
    <3>1. u = <<>> /\ s \o u = s
        BY <1>1, <2>1, ConcatEmptySeq
    <3>2. Separators(<<>>) = 0
      <4>1. {i \in DOMAIN <<>> : <<>>[i] = SEPARATOR_BYTE} = {}
          OBVIOUS
      <4> QED  BY <4>1, FS_EmptySet DEF Separators
    <3> QED  BY <1>2, <3>1, <3>2
  <2>2. CASE n # 0
    <3>1. u # <<>>
        BY <1>1, <2>2
    <3>2. PICK front \in Seq(Byte), last \in Byte :
              Len(front) = Len(u) - 1 /\ u = front \o <<last>>
        BY <3>1, SplitLast, Zenon
    <3>3. n - 1 \in Nat /\ n - 1 < n
        BY <2>2
    <3>4. Claim(front)
        BY <1>3, <3>2, <3>3
    <3>5. s \o u = (s \o front) \o <<last>> /\ s \o front \in Seq(Byte)
      <4>1. <<last>> \in Seq(Byte)
          OBVIOUS
      <4>2. s \o (front \o <<last>>) = (s \o front) \o <<last>>
          BY <4>1, ConcatAssociates
      <4> QED  BY <3>2, <4>2, ConcatProperties
    <3> DEFINE one == IF last = SEPARATOR_BYTE THEN 1 ELSE 0
               a == Separators(s)
               b == Separators(front)
               c == Separators(u)
               d == Separators(s \o u)
               e == Separators(s \o front)
    <3>6. d = e + one /\ c = b + one
        BY <3>2, <3>5, OneMoreCounted
    <3>7. e = a + b
        BY <3>4
    <3>8. a \in Nat /\ b \in Nat /\ one \in Nat
        BY <1>2
    <3> HIDE DEF one, a, b, c, d, e
    <3>9. d = a + c
        BY <3>6, <3>7, <3>8
    <3> QED  BY <3>9 DEF a, c, d
  <2> QED  BY <2>1, <2>2
<1>4. Nat \subseteq S
  <2> HIDE DEF S
  <2> QED  BY <1>3, StrongInduction
<1>5. Claim(t)
    BY <1>1, <1>4
<1> QED  BY <1>2, <1>5

\* One byte, and two.
LEMMA SeparatorsOne ==
    ASSUME NEW byte \in Byte
    PROVE  Separators(<<byte>>) = IF byte = SEPARATOR_BYTE THEN 1 ELSE 0
<1>1. <<byte>> = <<>> \o <<byte>> /\ <<>> \in Seq(Byte)
    BY ConcatEmptySeq, EmptySeq
<1>2. Separators(<<>>) = 0
  <2>1. {i \in DOMAIN <<>> : <<>>[i] = SEPARATOR_BYTE} = {}
      OBVIOUS
  <2> QED  BY <2>1, FS_EmptySet DEF Separators
<1>3. Separators(<<>> \o <<byte>>)
        = Separators(<<>>) + (IF byte = SEPARATOR_BYTE THEN 1 ELSE 0)
    BY <1>1, OneMoreCounted
<1>4. Separators(<<byte>>) = 0 + (IF byte = SEPARATOR_BYTE THEN 1 ELSE 0)
    BY <1>1, <1>2, <1>3, Zenon
<1> DEFINE one == Separators(<<byte>>)
<1> HIDE DEF one
<1>5. one = 0 + (IF byte = SEPARATOR_BYTE THEN 1 ELSE 0)
    BY <1>4 DEF one
<1>6. one = IF byte = SEPARATOR_BYTE THEN 1 ELSE 0
    BY <1>5
<1> QED  BY <1>6 DEF one

LEMMA SeparatorsTwo ==
    ASSUME NEW first \in Byte, NEW second \in Byte
    PROVE  Separators(<<first, second>>)
             = (IF first = SEPARATOR_BYTE THEN 1 ELSE 0)
               + (IF second = SEPARATOR_BYTE THEN 1 ELSE 0)
<1>1. <<first>> \in Seq(Byte) /\ <<second>> \in Seq(Byte)
      /\ <<first, second>> \in Seq(Byte)
    OBVIOUS
<1>2. ConcatOf(<<first, second>>, <<first>>, <<second>>)
  <2> DEFINE both == <<first, second>>
             one  == <<first>>
             two  == <<second>>
  <2>1. /\ Len(both) = 2 /\ Len(one) = 1 /\ Len(two) = 1
        /\ both[1] = first /\ both[2] = second
        /\ one[1] = first /\ two[1] = second
      OBVIOUS
  <2> HIDE DEF both, one, two
  <2>2. ConcatOf(both, one, two)
      BY <2>1 DEF ConcatOf
  <2> QED  BY <2>2 DEF both, one, two
<1>3. <<first, second>> = <<first>> \o <<second>>
    BY <1>1, <1>2, ConcatIs, Zenon
<1> DEFINE one == Separators(<<first>>)
<1>4. Separators(<<first, second>>)
        = one + (IF second = SEPARATOR_BYTE THEN 1 ELSE 0)
    BY <1>1, <1>3, OneMoreCounted
<1>5. one = IF first = SEPARATOR_BYTE THEN 1 ELSE 0
    BY SeparatorsOne
<1> HIDE DEF one
<1> QED  BY <1>4, <1>5

-----------------------------------------------------------------------------
(***************************************************************************)
(* A frame to send                                                         *)
(***************************************************************************)
LEMMA PureHeaderType ==
    ASSUME NEW frame_type \in Byte, NEW use_crc \in BOOLEAN,
           NEW data_size \in Nat
    PROVE  /\ PureHeader(frame_type, use_crc, data_size) \in Seq(Byte)
           /\ Len(PureHeader(frame_type, use_crc, data_size)) = PURE_HEADER_SIZE
<1> DEFINE e1 == Narrow(PURE_HEADER_SIZE + data_size)
           e2 == IF use_crc THEN USE_CRC_MASK ELSE 0
<1>1. e1 \in Byte
    BY DEF Narrow, PURE_HEADER_SIZE, FRAME_HEADER_SIZE,
           FRAME_SEPARATORS_COUNT, Byte
<1>2. e2 \in Byte /\ 0 \in Byte
    BY DEF USE_CRC_MASK, Byte
<1>3. PureHeader(frame_type, use_crc, data_size)
        = <<e1, e2, 0, 0, 0, 0, 0, frame_type>>
    BY Zenon DEF PureHeader
<1> HIDE DEF e1, e2
<1>4. <<e1, e2, 0, 0, 0, 0, 0, frame_type>> \in Seq(Byte)
      /\ Len(<<e1, e2, 0, 0, 0, 0, 0, frame_type>>) = 8
    BY <1>1, <1>2
<1> QED  BY <1>3, <1>4
            DEF PURE_HEADER_SIZE, FRAME_HEADER_SIZE, FRAME_SEPARATORS_COUNT

\* The bytes that the checksum and the check code are computed of.
Covered(frame_type, data, use_crc) ==
    PureHeader(frame_type, use_crc, Len(data)) \o data

LEMMA CoveredType ==
    ASSUME NEW frame_type \in Byte, NEW data \in Seq(Byte),
           NEW use_crc \in BOOLEAN
    PROVE  LET covered == Covered(frame_type, data, use_crc) IN
           /\ covered \in Seq(Byte)
           /\ covered # <<>>
           /\ Len(covered) = PURE_HEADER_SIZE + Len(data)
           /\ Separators(covered) \in Nat
           /\ Separators(covered) <= Len(covered)
<1> DEFINE header  == PureHeader(frame_type, use_crc, Len(data))
           covered == Covered(frame_type, data, use_crc)
<1>1. Len(data) \in Nat
    OBVIOUS
<1>2. header \in Seq(Byte) /\ Len(header) = PURE_HEADER_SIZE
    BY <1>1, PureHeaderType
<1>3. covered = header \o data
    BY Zenon DEF Covered
<1> HIDE DEF header, covered
<1>4. covered \in Seq(Byte) /\ Len(covered) = PURE_HEADER_SIZE + Len(data)
    BY <1>2, <1>3, ConcatProperties
<1>5. Len(covered) # 0
    BY <1>1, <1>4 DEF PURE_HEADER_SIZE, FRAME_HEADER_SIZE,
                      FRAME_SEPARATORS_COUNT
<1>6. covered # <<>>
    BY <1>5, EmptySeq
<1>7. Separators(covered) \in Nat /\ Separators(covered) <= Len(covered)
    BY <1>4, <1>6, EscapedLength
<1> QED  BY <1>4, <1>6, <1>7 DEF covered

\* What the constructor makes of data that send_data accepts: the number of
\* additional bytes is not cut off.
LEMMA NewFrameType ==
    ASSUME CodesAre16Bits, NEW frame_type \in Byte, NEW data \in Seq(Byte),
           NEW use_crc \in BOOLEAN,
           Len(data) <= MAX_FRAME_SIZE - PURE_HEADER_SIZE
    PROVE  LET new == NewFrame(frame_type, data, use_crc) IN
           /\ new.frame_type = frame_type
           /\ new.use_crc = use_crc
           /\ new.data = data
           /\ new.data_size = Len(data)
           /\ new.additional_bytes
                = Separators(Covered(frame_type, data, use_crc))
           /\ new.checksum \in Byte
           /\ new.crc \in Code
<1> DEFINE new     == NewFrame(frame_type, data, use_crc)
           covered == Covered(frame_type, data, use_crc)
           count   == Separators(covered)
<1>1. /\ covered \in Seq(Byte) /\ Len(covered) = PURE_HEADER_SIZE + Len(data)
      /\ count \in Nat /\ count <= Len(covered)
    BY CoveredType
<1>2. new = [status |-> "FRAME_COMPLETE", frame_type |-> frame_type,
             use_crc |-> use_crc, data_size |-> Len(data), data |-> data,
             checksum |-> checksum(covered, count * SEPARATOR_POST_BYTE),
             crc |-> IF use_crc THEN Crc(covered, INITIAL_CRC)
                     ELSE INITIAL_CRC,
             additional_bytes |-> Narrow(count)]
    BY Zenon DEF NewFrame, Covered
<1> HIDE DEF new, covered, count
<1>3. count <= 241
    BY <1>1 DEF MAX_FRAME_SIZE, PURE_HEADER_SIZE, FRAME_HEADER_SIZE,
                FRAME_SEPARATORS_COUNT
<1>4. Narrow(count) = count
    BY <1>1, <1>3 DEF Narrow
<1>5. checksum(covered, count * SEPARATOR_POST_BYTE) \in Byte
  <2>1. covered \in Seq(Nat)
    <3>1. Byte \subseteq Nat
        BY DEF Byte
    <3> QED  BY <1>1, <3>1, SeqMonotonic
  <2>2. count * SEPARATOR_POST_BYTE \in Nat
      BY <1>1 DEF SEPARATOR_POST_BYTE
  <2> QED  BY <2>1, <2>2, ChecksumType
<1>6. INITIAL_CRC \in Code /\ Crc(covered, INITIAL_CRC) \in Code
  <2>1. INITIAL_CRC \in Code
      BY DEF INITIAL_CRC, Code
  <2> QED  BY <1>1, <2>1, CrcType
<1>7. /\ new.frame_type = frame_type
      /\ new.use_crc = use_crc
      /\ new.data = data
      /\ new.data_size = Len(data)
      /\ new.additional_bytes = count
      /\ new.checksum \in Byte
      /\ new.crc \in Code
    BY <1>2, <1>4, <1>5, <1>6, Zenon
<1> QED  BY <1>7 DEF new, covered, count

LEMMA HalvesOfCode ==
    ASSUME NEW code \in Code
    PROVE  LowByte(code) \in Byte /\ HighByte(code) \in Byte
<1> DEFINE low  == code % 256
           high == code \div 256
<1>1. code \in 0 .. 65535
    BY SMTT(20) DEF Code
<1>2. low \in 0 .. 255
    BY <1>1, SMTT(20)
<1>3. high \in Int
    BY <1>1, SMTT(20)
<1>4. high >= 0
    BY <1>1, SMTT(20)
<1>5. high <= 255
    BY <1>1, SMTT(20)
<1>6. LowByte(code) = low /\ HighByte(code) = high
    BY Zenon DEF LowByte, HighByte
<1> HIDE DEF low, high
<1> QED  BY <1>2, <1>3, <1>4, <1>5, <1>6 DEF Byte

\* The size of the buffer is the number of bytes to be written.
LEMMA EncodedLength ==
    ASSUME CodesAre16Bits, NEW frame_type \in Byte, NEW data \in Seq(Byte),
           NEW use_crc \in BOOLEAN,
           Len(data) <= MAX_FRAME_SIZE - PURE_HEADER_SIZE
    PROVE  LET new == NewFrame(frame_type, data, use_crc) IN
           /\ Encoded(new) \in Seq(Byte)
           /\ Len(Encoded(new)) = get_buffer_size(new)
           /\ get_buffer_size(new) \in Nat
<1> DEFINE new     == NewFrame(frame_type, data, use_crc)
           covered == Covered(frame_type, data, use_crc)
           count   == Separators(covered)
           sum     == new.checksum
           low     == LowByte(new.crc)
           high    == HighByte(new.crc)
           summed  == covered \o <<sum>>
           body    == summed \o (IF use_crc THEN <<high, low>> ELSE <<>>)
           size    == get_buffer_size(new)
           IsSep(byte) == IF byte = SEPARATOR_BYTE THEN 1 ELSE 0
<1>1. /\ new.frame_type = frame_type /\ new.use_crc = use_crc
      /\ new.data = data /\ new.data_size = Len(data)
      /\ new.additional_bytes = count
      /\ sum \in Byte /\ new.crc \in Code
    BY NewFrameType
<1>2. /\ covered \in Seq(Byte) /\ covered # <<>> /\ Len(data) \in Nat
      /\ Len(covered) = PURE_HEADER_SIZE + Len(data)
      /\ count \in Nat
    BY CoveredType
<1>3. Encoded(new) = <<SEPARATOR_BYTE, SEPARATOR_BYTE>> \o Escaped(body)
    BY <1>1, Zenon DEF Encoded, Covered
<1>4. size = FRAME_HEADER_SIZE + Len(data) + count
             + (IF sum = SEPARATOR_BYTE THEN 2 ELSE 1)
             + (IF use_crc THEN 2 + Separators(<<low, high>>) ELSE 0)
    BY <1>1, Zenon DEF get_buffer_size
<1>5. low \in Byte /\ high \in Byte
    BY <1>1, HalvesOfCode, Zenon
<1> HIDE DEF new, covered, count, sum, low, high
<1>6. /\ summed \in Seq(Byte) /\ Len(summed) = PURE_HEADER_SIZE + Len(data) + 1
      /\ Separators(summed) = count + IsSep(sum)
  <2>1. <<sum>> \in Seq(Byte) /\ Len(<<sum>>) = 1
      BY <1>1
  <2>2. Separators(<<sum>>) = IsSep(sum)
      BY <1>1, SeparatorsOne
  <2>3. Separators(summed) = Separators(covered) + Separators(<<sum>>)
      BY <1>2, <2>1, SeparatorsJoin
  <2>4. summed \in Seq(Byte) /\ Len(summed) = Len(covered) + Len(<<sum>>)
      BY <1>2, <2>1, ConcatProperties
  <2> QED  BY <1>2, <2>1, <2>2, <2>3, <2>4 DEF count
<1> HIDE DEF summed
<1>7. /\ body \in Seq(Byte)
      /\ Len(body) = PURE_HEADER_SIZE + Len(data) + 1
                     + (IF use_crc THEN 2 ELSE 0)
      /\ Separators(body) = count + IsSep(sum)
                            + (IF use_crc THEN IsSep(high) + IsSep(low) ELSE 0)
  <2>1. CASE use_crc
    <3>1. <<high, low>> \in Seq(Byte) /\ Len(<<high, low>>) = 2
        BY <1>5
    <3>2. Separators(<<high, low>>) = IsSep(high) + IsSep(low)
        BY <1>5, SeparatorsTwo
    <3>3. body = summed \o <<high, low>>
        BY <2>1
    <3>4. Separators(body) = Separators(summed) + Separators(<<high, low>>)
        BY <1>6, <3>1, <3>3, SeparatorsJoin
    <3>5. body \in Seq(Byte) /\ Len(body) = Len(summed) + Len(<<high, low>>)
        BY <1>6, <3>1, <3>3, ConcatProperties
    <3> QED  BY <1>6, <2>1, <3>1, <3>2, <3>4, <3>5
  <2>2. CASE ~use_crc
    <3>1. body = summed
        BY <1>6, <2>2, ConcatEmptySeq
    <3> QED  BY <1>1, <1>2, <1>6, <2>2, <3>1
  <2> QED  BY <2>1, <2>2
<1> HIDE DEF body
<1>8. Separators(<<low, high>>) = IsSep(low) + IsSep(high)
    BY <1>5, SeparatorsTwo
<1>9. /\ Escaped(body) \in Seq(Byte)
      /\ Len(Escaped(body)) = Len(body) + Separators(body)
  <2>1. Len(body) # 0
      BY <1>2, <1>7 DEF PURE_HEADER_SIZE, FRAME_HEADER_SIZE,
                        FRAME_SEPARATORS_COUNT
  <2>2. body # <<>>
      BY <2>1, EmptySeq
  <2> QED  BY <1>7, <2>2, EscapedLength
<1>10. /\ Encoded(new) \in Seq(Byte)
       /\ Len(Encoded(new)) = 2 + Len(Escaped(body))
  <2>1. SEPARATOR_BYTE \in Byte
      BY DEF SEPARATOR_BYTE, Byte
  <2>2. <<SEPARATOR_BYTE, SEPARATOR_BYTE>> \in Seq(Byte)
        /\ Len(<<SEPARATOR_BYTE, SEPARATOR_BYTE>>) = 2
      BY <2>1
  <2> QED  BY <1>3, <1>9, <2>2, ConcatProperties
<1>11. Len(Encoded(new)) = size /\ size \in Nat
  <2> DEFINE l == Len(data)
             m == Len(Encoded(new))
             a == IsSep(sum)
             b == IsSep(low)
             c == IsSep(high)
  <2>1. a \in Nat /\ b \in Nat /\ c \in Nat /\ l \in Nat /\ count \in Nat
      BY <1>2
  <2>2. m = 2 + (8 + l + 1 + (IF use_crc THEN 2 ELSE 0))
              + (count + a + (IF use_crc THEN c + b ELSE 0))
    <3> DEFINE e == Len(Escaped(body))
               k == Len(body)
               z == Separators(body)
    <3>1. m = 2 + e /\ e = k + z
        BY <1>9, <1>10
    <3>2. k = 8 + l + 1 + (IF use_crc THEN 2 ELSE 0)
        BY <1>7 DEF PURE_HEADER_SIZE, FRAME_HEADER_SIZE,
                    FRAME_SEPARATORS_COUNT
    <3>3. z = count + a + (IF use_crc THEN c + b ELSE 0)
        BY <1>7
    <3> HIDE DEF e, k, z, l, m, a, b, c
    <3> QED  BY <2>1, <3>1, <3>2, <3>3
  <2>3. size = 10 + l + count + (1 + a) + (IF use_crc THEN 2 + (b + c) ELSE 0)
    <3>1. (IF sum = SEPARATOR_BYTE THEN 2 ELSE 1) = 1 + a
        OBVIOUS
    <3> QED  BY <1>4, <1>8, <3>1 DEF FRAME_HEADER_SIZE
  <2> HIDE DEF l, m, a, b, c, size
  <2>4. m = size /\ size \in Nat
      BY <2>1, <2>2, <2>3
  <2> QED  BY <2>4 DEF m
<1> QED  BY <1>10, <1>11 DEF new

\* The position wraps around at most once, so that each place of the buffer
\* gets a byte.
LEMMA FillBufferType ==
    ASSUME CodesAre16Bits, NEW frame_type \in Byte, NEW data \in Seq(Byte),
           NEW use_crc \in BOOLEAN,
           Len(data) <= MAX_FRAME_SIZE - PURE_HEADER_SIZE,
           NEW garbage \in Byte
    PROVE  fill_buffer(NewFrame(frame_type, data, use_crc), garbage)
             \in Seq(Byte)
<1> DEFINE new   == NewFrame(frame_type, data, use_crc)
           bytes == Encoded(new)
           size  == get_buffer_size(new)
           at(i) == IF i > 256 THEN garbage
                    ELSE IF Overwritten(i, size) THEN bytes[i + 256]
                    ELSE bytes[i]
<1>1. bytes \in Seq(Byte) /\ Len(bytes) = size /\ size \in Nat
    BY EncodedLength
<1>2. fill_buffer(new, garbage) = [i \in 1 .. size |-> at(i)]
    BY Zenon DEF fill_buffer
<1> HIDE DEF new, bytes, size
<1>3. ASSUME NEW i \in 1 .. size PROVE at(i) \in Byte
  <2>1. \A k \in 1 .. size : bytes[k] \in Byte
      BY <1>1
  <2>2. CASE Overwritten(i, size)
    <3>1. i + 256 \in 1 .. size
        BY <1>1, <2>2 DEF Overwritten
    <3> QED  BY <2>1, <3>1
  <2> QED  BY <2>1, <2>2
<1> HIDE DEF at
<1>4. [i \in 1 .. size |-> at(i)] \in [1 .. size -> Byte]
    BY <1>3
<1>5. [i \in 1 .. size |-> at(i)] \in Seq(Byte)
    BY <1>1, <1>4, SeqDef
<1> QED  BY <1>2, <1>5, Zenon DEF new

-----------------------------------------------------------------------------
(***************************************************************************)
(* What escaping leaves for the receiver                                   *)
(***************************************************************************)
\* Concatenation of bytes is associative.
LEMMA BytesAssociate ==
    \A a, b, c \in Seq(Byte) : (a \o b) \o c = a \o (b \o c)
BY ConcatAssociates

LEMMA ConcatTwo ==
    ASSUME NEW T, NEW a \in Seq(T), NEW b \in Seq(T)
    PROVE  Concatenated(<<a, b>>) = a \o b
<1> DEFINE one == <<a>>
           two == <<b>>
           both == <<a, b>>
<1>1. /\ one \in Seq(Seq(T)) /\ one # <<>> /\ two \in Seq(Seq(T)) /\ two # <<>>
      /\ both \in Seq(Seq(T))
    OBVIOUS
<1>2. ConcatOf(both, one, two)
  <2>1. /\ Len(both) = 2 /\ Len(one) = 1 /\ Len(two) = 1
        /\ both[1] = a /\ both[2] = b /\ one[1] = a /\ two[1] = b
      OBVIOUS
  <2> HIDE DEF both, one, two
  <2> QED  BY <2>1 DEF ConcatOf
<1>3. Concatenated(one) = a /\ Concatenated(two) = b
    BY ConcatOne, Zenon
<1> HIDE DEF one, two
<1>4. both = one \o two
    BY <1>1, <1>2, ConcatIs, Zenon
<1>5. Concatenated(one \o two) = Concatenated(one) \o Concatenated(two)
    BY <1>1, ConcatJoin, Zenon
<1> QED  BY <1>3, <1>4, <1>5, Zenon

\* The two parts of a concatenation.
LEMMA ConcatSplits ==
    ASSUME NEW T, NEW a \in Seq(T), NEW b \in Seq(T)
    PROVE  /\ a \o b \in Seq(T)
           /\ ConcatOf(a \o b, a, b)
<1> DEFINE c == a \o b
           m == Len(a)
           n == Len(b)
<1>1. /\ c \in Seq(T) /\ Len(c) = m + n
      /\ \A i \in 1 .. m + n : c[i] = IF i <= m THEN a[i] ELSE b[i - m]
    BY ConcatProperties
<1>2. m \in Nat /\ n \in Nat
    BY LenProperties
<1> HIDE DEF c, m, n
<1>3. \A i \in 1 .. m : c[i] = a[i]
  <2>1. \A i \in 1 .. m : i \in 1 .. m + n /\ i <= m
      BY <1>2
  <2> QED  BY <1>1, <2>1
<1>4. ASSUME NEW i \in 1 .. n PROVE c[m + i] = b[i]
  <2> DEFINE k == m + i
  <2>1. k \in 1 .. m + n /\ ~(k <= m) /\ k - m = i
      BY <1>2
  <2> HIDE DEF k
  <2>2. c[k] = b[i]
      BY <1>1, <2>1
  <2> QED  BY <2>2 DEF k
<1> QED  BY <1>1, <1>3, <1>4 DEF ConcatOf, c, m, n

\* What follows the first bytes.
LEMMA BackPiece ==
    ASSUME NEW T, NEW a \in Seq(T), NEW b \in Seq(T)
    PROVE  SubSeq(a \o b, Len(a) + 1, Len(a) + Len(b)) = b
<1> DEFINE c == a \o b
           m == Len(a)
           n == Len(b)
           first == m + 1
           last  == m + n
           p == SubSeq(c, first, last)
<1>1. c \in Seq(T) /\ Len(c) = m + n /\ \A i \in 1 .. n : c[m + i] = b[i]
    BY ConcatSplits DEF ConcatOf
<1>2. m \in Nat /\ n \in Nat
    BY LenProperties
<1> HIDE DEF c, m, n
<1>3. /\ first \in Nat \ {0} /\ last \in Nat /\ last <= Len(c)
      /\ last - first + 1 = n /\ \A i \in 1 .. n : first + i - 1 = m + i
      /\ (IF first <= last THEN last - first + 1 ELSE 0) = n
    BY <1>1, <1>2
<1>4. \A i \in first .. last : c[i] \in T
  <2>1. \A i \in 1 .. m + n : c[i] \in T
      BY <1>1
  <2>2. \A i \in first .. last : i \in 1 .. m + n
      BY <1>2
  <2> QED  BY <2>1, <2>2
<1>5. IsSequence(c)
    BY <1>1, OverSomeSet
<1> HIDE DEF first, last
<1>6. /\ Len(p) = IF first <= last THEN last - first + 1 ELSE 0
      /\ \A i \in 1 .. last - first + 1 : p[i] = c[first + i - 1]
    BY <1>3, <1>5, PieceOfSequence
<1>7. p \in Seq(T)
    BY <1>1, <1>3, <1>4, SubSeqProperties
<1> HIDE DEF p
<1>8. Len(p) = n /\ \A i \in 1 .. n : p[i] = b[i]
    BY <1>1, <1>3, <1>6
<1>9. p = b
    BY <1>7, <1>8, SeqEqual DEF n
<1> QED  BY <1>9 DEF p, c, m, n, first, last

\* Induction over the bytes of a sequence: P is the set of the sequences for
\* which the claim holds.
LEMMA ByteByByte ==
    ASSUME NEW P, \A x \in Byte : <<x>> \in P,
           \A front \in Seq(Byte), x \in Byte :
               front # <<>> /\ front \in P => front \o <<x>> \in P
    PROVE  \A s \in Seq(Byte) : s # <<>> => s \in P
<1> DEFINE S == {n \in Nat : \A t \in Seq(Byte) : Len(t) = n /\ n # 0 => t \in P}
<1>1. \A t \in Seq(Byte) : Len(t) \in Nat /\ (Len(t) = 0 <=> t = <<>>)
    BY EmptySeq, LenProperties
<1>2. ASSUME NEW n \in Nat, \A m \in Nat : m < n => m \in S
      PROVE  n \in S
  <2> SUFFICES ASSUME NEW t \in Seq(Byte), Len(t) = n, n # 0
               PROVE  t \in P
      OBVIOUS
  <2>1. t # <<>>
      BY <1>1
  <2>2. PICK front \in Seq(Byte), last \in Byte :
            Len(front) = Len(t) - 1 /\ t = front \o <<last>>
      BY <2>1, SplitLast, Zenon
  <2>3. CASE n = 1
    <3>1. front = <<>> /\ t = <<last>>
        BY <1>1, <2>2, <2>3
    <3> QED  BY <3>1
  <2>4. CASE n # 1
    <3>1. n - 1 \in Nat /\ n - 1 < n /\ n - 1 # 0
        BY <2>4
    <3>2. front \in P /\ front # <<>>
        BY <1>1, <1>2, <2>2, <3>1
    <3> QED  BY <2>2, <3>2
  <2> QED  BY <2>3, <2>4
<1>3. Nat \subseteq S
  <2> HIDE DEF S
  <2> QED  BY <1>2, StrongInduction
<1> QED  BY <1>1, <1>3

\* The first byte written is the first of the sequence, the last is none that
\* asks for another, and a separator is followed by a post byte.
LEMMA EscapedEnds ==
    ASSUME NEW s \in Seq(Byte), s # <<>>
    PROVE  LET e == Escaped(s) IN
           /\ e \in Seq(Byte)
           /\ Len(e) \in Nat \ {0}
           /\ e[1] = s[1]
           /\ e[Len(e)] # SEPARATOR_BYTE
           /\ \A i \in 1 .. Len(e) - 1 :
                e[i] = SEPARATOR_BYTE => e[i + 1] = SEPARATOR_POST_BYTE
<1> DEFINE Ends(e) ==
             /\ e \in Seq(Byte)
             /\ Len(e) \in Nat \ {0}
             /\ e[Len(e)] # SEPARATOR_BYTE
             /\ \A i \in 1 .. Len(e) - 1 :
                  e[i] = SEPARATOR_BYTE => e[i + 1] = SEPARATOR_POST_BYTE
           Claim(t) == Ends(Escaped(t)) /\ Escaped(t)[1] = t[1]
           P == {t \in Seq(Byte) : Claim(t)}
<1>2. ASSUME NEW x \in Byte
      PROVE  Ends(Written(x)) /\ Written(x)[1] = x
  <2>1. CASE x = SEPARATOR_BYTE
    <3> DEFINE w == <<SEPARATOR_BYTE, SEPARATOR_POST_BYTE>>
    <3>1. /\ Written(x) = w /\ w \in Seq(Byte) /\ Len(w) = 2
          /\ w[1] = SEPARATOR_BYTE /\ w[2] = SEPARATOR_POST_BYTE
        BY <2>1 DEF Written, SEPARATOR_BYTE, SEPARATOR_POST_BYTE, Byte
    <3> HIDE DEF w
    <3>2. SEPARATOR_BYTE # SEPARATOR_POST_BYTE
        BY DEF SEPARATOR_BYTE, SEPARATOR_POST_BYTE
    <3>3. \A i \in 1 .. 2 - 1 : i = 1
        OBVIOUS
    <3> QED  BY <2>1, <3>1, <3>2, <3>3
  <2>2. CASE x # SEPARATOR_BYTE
    <3> DEFINE w == <<x>>
    <3>1. /\ Written(x) = w /\ w \in Seq(Byte) /\ Len(w) = 1
          /\ w[1] = x
        BY <2>2 DEF Written
    <3> HIDE DEF w
    <3> QED  BY <2>2, <3>1
  <2> QED  BY <2>1, <2>2
<1>3. ASSUME NEW a, NEW b, Ends(a), Ends(b)
      PROVE  Ends(a \o b) /\ (a \o b)[1] = a[1]
  <2> DEFINE c == a \o b
  <2>1. /\ c \in Seq(Byte) /\ Len(c) = Len(a) + Len(b)
        /\ \A i \in 1 .. Len(a) + Len(b) :
              c[i] = IF i <= Len(a) THEN a[i] ELSE b[i - Len(a)]
      BY <1>3, ConcatProperties
  <2> HIDE DEF c
  <2> DEFINE m == Len(a)
             n == Len(b)
  <2>2. m \in Nat \ {0} /\ n \in Nat \ {0}
      BY <1>3
  <2> HIDE DEF m, n
  <2>3. c[m + n] = b[n]
    <3>1. m + n \in 1 .. m + n /\ ~(m + n <= m) /\ m + n - m = n
        BY <2>2
    <3> QED  BY <2>1, <3>1 DEF m, n
  <2>4. ASSUME NEW i \in 1 .. m + n - 1, c[i] = SEPARATOR_BYTE
        PROVE  c[i + 1] = SEPARATOR_POST_BYTE
    <3>1. CASE i < m
      <4>1. i \in 1 .. m - 1 /\ i \in 1 .. m + n /\ i + 1 \in 1 .. m + n
            /\ i <= m /\ i + 1 <= m
          BY <2>2, <3>1
      <4>2. c[i] = a[i] /\ c[i + 1] = a[i + 1]
          BY <2>1, <4>1 DEF m, n
      <4> QED  BY <1>3, <2>4, <4>1, <4>2 DEF m
    <3>2. CASE i = m
      <4>1. i \in 1 .. m + n /\ i <= m
          BY <2>2, <3>2
      <4>2. c[i] = a[m]
          BY <2>1, <3>2, <4>1 DEF m, n
      <4> QED  BY <1>3, <2>4, <4>2 DEF m
    <3>3. CASE i > m
      <4>1. /\ i \in 1 .. m + n /\ i + 1 \in 1 .. m + n
            /\ ~(i <= m) /\ ~(i + 1 <= m) /\ i - m \in 1 .. n - 1
            /\ i + 1 - m = (i - m) + 1
          BY <2>2, <3>3
      <4>2. c[i] = b[i - m] /\ c[i + 1] = b[(i - m) + 1]
          BY <2>1, <4>1 DEF m, n
      <4> QED  BY <1>3, <2>4, <4>1, <4>2 DEF n
    <3> QED  BY <2>2, <3>1, <3>2, <3>3
  <2>5. c[1] = a[1]
    <3>1. 1 \in 1 .. m + n /\ 1 <= m
        BY <2>2
    <3> QED  BY <2>1, <3>1 DEF m, n
  <2>6. Len(c) = m + n /\ m + n \in Nat \ {0}
      BY <2>1, <2>2 DEF m, n
  <2>7. c[Len(c)] # SEPARATOR_BYTE
      BY <1>3, <2>3, <2>6 DEF n
  <2>8. \A i \in 1 .. Len(c) - 1 :
            c[i] = SEPARATOR_BYTE => c[i + 1] = SEPARATOR_POST_BYTE
    <3> DEFINE l == Len(c)
    <3>1. l = m + n
        BY <2>6
    <3> HIDE DEF l
    <3>2. 1 .. l - 1 = 1 .. m + n - 1
        BY <2>2, <3>1
    <3> QED  BY <2>4, <3>2, Zenon DEF l
  <2> QED  BY <2>1, <2>5, <2>6, <2>7, <2>8 DEF c
<1> HIDE DEF Ends
<1>4. ASSUME NEW x \in Byte
      PROVE  <<x>> \in P
  <2>1. <<x>> \in Seq(Byte) /\ <<x>>[1] = x
      OBVIOUS
  <2> QED  BY <1>2, <2>1, EscapedOne
<1>5. ASSUME NEW front \in Seq(Byte), NEW x \in Byte, front # <<>>, front \in P
      PROVE  front \o <<x>> \in P
  <2>1. <<x>> \in Seq(Byte) /\ <<x>> # <<>> /\ Len(<<x>>) = 1
      OBVIOUS
  <2>2. Escaped(front \o <<x>>) = Escaped(front) \o Escaped(<<x>>)
      BY <1>5, <2>1, EscapedJoin
  <2>3. Ends(Escaped(<<x>>)) /\ Ends(Escaped(front))
      BY <1>2, <1>5, EscapedOne
  <2>4. (front \o <<x>>)[1] = front[1] /\ front \o <<x>> \in Seq(Byte)
    <3>1. Len(front) \in Nat \ {0}
        BY <1>5, EmptySeq, LenProperties
    <3>2. 1 \in 1 .. Len(front) + Len(<<x>>) /\ 1 <= Len(front)
        BY <2>1, <3>1
    <3> QED  BY <2>1, <3>2, ConcatProperties
  <2>5. Ends(Escaped(front \o <<x>>))
      BY <1>3, <2>2, <2>3
  <2>6. Escaped(front \o <<x>>)[1] = (front \o <<x>>)[1]
    <3>1. Escaped(front \o <<x>>)[1] = Escaped(front)[1]
      <4>1. (Escaped(front) \o Escaped(<<x>>))[1] = Escaped(front)[1]
        <5> DEFINE a == Escaped(front)
                   b == Escaped(<<x>>)
        <5>1. a \in Seq(Byte) /\ b \in Seq(Byte) /\ Len(a) \in Nat \ {0}
            BY <2>3 DEF Ends
        <5> HIDE DEF a, b
        <5>2. ConcatOf(a \o b, a, b) /\ 1 \in 1 .. Len(a)
            BY <5>1, ConcatSplits
        <5>3. (a \o b)[1] = a[1]
            BY <5>2, Zenon DEF ConcatOf
        <5> QED  BY <5>3, Zenon DEF a, b
      <4> QED  BY <2>2, <4>1, Zenon
    <3>2. Escaped(front)[1] = front[1]
        BY <1>5
    <3> QED  BY <2>4, <3>1, <3>2
  <2> QED  BY <2>4, <2>5, <2>6
<1>6. s \in P
  <2> HIDE DEF P
  <2> QED  BY <1>4, <1>5, ByteByByte
<1> QED  BY <1>6 DEF Ends

(***************************************************************************)
(* Dropping post bytes.  Before the position q there are none.             *)
(***************************************************************************)
PostPlaces(raw, q) == {i \in q + 2 .. Len(raw) : raw[i - 1] = SEPARATOR_BYTE}

Pieces(raw, q) ==
    [i \in 1 .. Len(raw) |-> IF i \in PostPlaces(raw, q) THEN <<>> ELSE <<raw[i]>>]

Stripped(raw, q) == Concatenated(Pieces(raw, q))

\* What is left of each byte is a sequence.
LEMMA PiecesType ==
    ASSUME NEW raw \in Seq(Byte), NEW q \in Nat
    PROVE  /\ Pieces(raw, q) \in Seq(Seq(Byte))
           /\ Len(Pieces(raw, q)) = Len(raw)
           /\ \A i \in 1 .. Len(raw) :
                Pieces(raw, q)[i] =
                  IF i \in q + 2 .. Len(raw) /\ raw[i - 1] = SEPARATOR_BYTE
                  THEN <<>> ELSE <<raw[i]>>
<1> DEFINE at(i) == IF i \in PostPlaces(raw, q) THEN <<>> ELSE <<raw[i]>>
           f == [i \in 1 .. Len(raw) |-> at(i)]
<1>1. Len(raw) \in Nat /\ \A i \in 1 .. Len(raw) : raw[i] \in Byte
    OBVIOUS
<1>2. \A i \in 1 .. Len(raw) : at(i) \in Seq(Byte)
    BY <1>1
<1>3. \A i \in 1 .. Len(raw) : at(i) =
          IF i \in q + 2 .. Len(raw) /\ raw[i - 1] = SEPARATOR_BYTE
          THEN <<>> ELSE <<raw[i]>>
    BY DEF PostPlaces
<1>4. Pieces(raw, q) = f
    BY Zenon DEF Pieces
<1> HIDE DEF at
<1>5. f \in [1 .. Len(raw) -> Seq(Byte)] /\ DOMAIN f = 1 .. Len(raw)
      /\ \A i \in 1 .. Len(raw) : f[i] = at(i)
    BY <1>2
<1> HIDE DEF f
<1>6. f \in Seq(Seq(Byte))
    BY <1>1, <1>5, SeqDef
<1>7. Len(f) = Len(raw)
    BY <1>1, <1>5, <1>6, LenProperties
<1> QED  BY <1>3, <1>4, <1>5, <1>6, <1>7, Zenon

\* What one byte, as it is written, is stripped to.
LastPieces(x) ==
    IF x = SEPARATOR_BYTE THEN <<<<SEPARATOR_BYTE>>, <<>>>> ELSE <<<<x>>>>

LEMMA LastPiecesType ==
    ASSUME NEW x \in Byte
    PROVE  /\ LastPieces(x) \in Seq(Seq(Byte))
           /\ LastPieces(x) # <<>>
           /\ Len(LastPieces(x)) = Len(Written(x))
           /\ LastPieces(x)[1] = <<x>>
           /\ Concatenated(LastPieces(x)) = <<x>>
<1>1. CASE x = SEPARATOR_BYTE
  <2>1. <<x>> \in Seq(Byte) /\ <<>> \in Seq(Byte) /\ <<x>> \o <<>> = <<x>>
      OBVIOUS
  <2>2. Concatenated(<<<<x>>, <<>>>>) = <<x>>
      BY <2>1, ConcatTwo, Zenon
  <2>3. LastPieces(x) = <<<<x>>, <<>>>>
      BY <1>1, Zenon DEF LastPieces
  <2>4. /\ <<<<x>>, <<>>>> \in Seq(Seq(Byte)) /\ <<<<x>>, <<>>>> # <<>>
        /\ Len(<<<<x>>, <<>>>>) = 2 /\ <<<<x>>, <<>>>>[1] = <<x>>
      BY <2>1
  <2>5. Len(Written(x)) = 2
      BY <1>1 DEF Written
  <2> QED  BY <2>2, <2>3, <2>4, <2>5, Zenon
<1>2. CASE x # SEPARATOR_BYTE
  <2>1. <<x>> \in Seq(Byte)
      OBVIOUS
  <2>2. Concatenated(<<<<x>>>>) = <<x>>
      BY <2>1, ConcatOne, Zenon
  <2>3. LastPieces(x) = <<<<x>>>>
      BY <1>2, Zenon DEF LastPieces
  <2>4. /\ <<<<x>>>> \in Seq(Seq(Byte)) /\ <<<<x>>>> # <<>>
        /\ Len(<<<<x>>>>) = 1 /\ <<<<x>>>>[1] = <<x>>
      BY <2>1
  <2>5. Len(Written(x)) = 1
      BY <1>2 DEF Written
  <2> QED  BY <2>2, <2>3, <2>4, <2>5, Zenon
<1> QED  BY <1>1, <1>2

\* Of one byte alone.
LEMMA StripsOne ==
    ASSUME NEW x \in Byte
    PROVE  Stripped(Written(x), 0) = <<x>>
<1> DEFINE raw == Written(x)
<1>1. raw \in Seq(Byte)
    BY WrittenType
<1>2. /\ Pieces(raw, 0) \in Seq(Seq(Byte))
      /\ Len(Pieces(raw, 0)) = Len(raw)
      /\ \A i \in 1 .. Len(raw) :
           Pieces(raw, 0)[i] =
             IF i \in 0 + 2 .. Len(raw) /\ raw[i - 1] = SEPARATOR_BYTE
             THEN <<>> ELSE <<raw[i]>>
    BY <1>1, PiecesType
<1>3. LastPieces(x) \in Seq(Seq(Byte)) /\ Len(LastPieces(x)) = Len(raw)
    BY LastPiecesType
<1>4. \A i \in 1 .. Len(raw) : Pieces(raw, 0)[i] = LastPieces(x)[i]
  <2>1. CASE x = SEPARATOR_BYTE
    <3>1. /\ raw = <<SEPARATOR_BYTE, SEPARATOR_POST_BYTE>>
          /\ LastPieces(x) = <<<<SEPARATOR_BYTE>>, <<>>>>
        BY <2>1, Zenon DEF Written, LastPieces
    <3>2. /\ Len(raw) = 2 /\ raw[1] = SEPARATOR_BYTE
          /\ LastPieces(x)[1] = <<SEPARATOR_BYTE>> /\ LastPieces(x)[2] = <<>>
        BY <3>1
    <3> HIDE DEF raw
    <3>3. \A i \in 1 .. 2 : i = 1 \/ i = 2
        OBVIOUS
    <3>4. Pieces(raw, 0)[1] = <<raw[1]>> /\ Pieces(raw, 0)[2] = <<>>
        BY <1>2, <3>2
    <3> QED  BY <3>2, <3>3, <3>4
  <2>2. CASE x # SEPARATOR_BYTE
    <3>1. raw = <<x>> /\ LastPieces(x) = <<<<x>>>>
        BY <2>2, Zenon DEF Written, LastPieces
    <3>2. Len(raw) = 1 /\ raw[1] = x /\ LastPieces(x)[1] = <<x>>
        BY <3>1
    <3> HIDE DEF raw
    <3>3. \A i \in 1 .. 1 : i = 1
        OBVIOUS
    <3>4. Pieces(raw, 0)[1] = <<raw[1]>>
        BY <1>2, <3>2
    <3> QED  BY <3>2, <3>3, <3>4
  <2> QED  BY <2>1, <2>2
<1> HIDE DEF raw
<1>5. Pieces(raw, 0) = LastPieces(x)
    BY <1>2, <1>3, <1>4, SeqEqual, Zenon
<1> QED  BY <1>5, LastPiecesType, Zenon DEF Stripped, raw

\* Of one byte after others.
LEMMA StripsLast ==
    ASSUME NEW raw \in Seq(Byte), raw # <<>>, NEW x \in Byte,
           NEW q \in Nat, q <= Len(raw),
           Len(raw) = q \/ raw[Len(raw)] # SEPARATOR_BYTE
    PROVE  /\ Stripped(raw, q) \in Seq(Byte)
           /\ Stripped(raw \o Written(x), q) = Stripped(raw, q) \o <<x>>
<1> DEFINE w    == Written(x)
           more == raw \o w
           tail == LastPieces(x)
           m    == Len(raw)
           n    == Len(w)
           whole == Pieces(more, q)
           first == Pieces(raw, q)
<1>1. /\ w \in Seq(Byte) /\ n \in Nat /\ m \in Nat \ {0} /\ w[1] = x
      /\ n = IF x = SEPARATOR_BYTE THEN 2 ELSE 1
    BY WrittenType, EmptySeq, LenProperties DEF Written
<1>2. /\ more \in Seq(Byte) /\ Len(more) = m + n
      /\ \A i \in 1 .. m + n : more[i] = IF i <= m THEN raw[i] ELSE w[i - m]
    BY <1>1, ConcatProperties
<1>3. /\ whole \in Seq(Seq(Byte)) /\ Len(whole) = m + n
      /\ \A i \in 1 .. m + n :
           whole[i] = IF i \in q + 2 .. m + n /\ more[i - 1] = SEPARATOR_BYTE
                      THEN <<>> ELSE <<more[i]>>
    BY <1>2, PiecesType
<1>4. /\ first \in Seq(Seq(Byte)) /\ Len(first) = m
      /\ \A i \in 1 .. m :
           first[i] = IF i \in q + 2 .. m /\ raw[i - 1] = SEPARATOR_BYTE
                      THEN <<>> ELSE <<raw[i]>>
    BY PiecesType
<1>5. /\ tail \in Seq(Seq(Byte)) /\ tail # <<>> /\ Len(tail) = n
      /\ tail[1] = <<x>> /\ Concatenated(tail) = <<x>>
    BY LastPiecesType
<1>6. x = SEPARATOR_BYTE => tail[2] = <<>>
    BY DEF LastPieces
<1> HIDE DEF w, more, tail, m, n, whole, first
<1>7. ASSUME NEW i \in 1 .. m
      PROVE  whole[i] = first[i]
  <2>1. i \in 1 .. m + n /\ i <= m
      BY <1>1
  <2>2. more[i] = raw[i]
      BY <1>2, <2>1
  <2>3. CASE i = 1
    <3>1. i \notin q + 2 .. m + n /\ i \notin q + 2 .. m
        BY <2>3
    <3> QED  BY <1>3, <1>4, <2>1, <2>2, <3>1
  <2>4. CASE i # 1
    <3>1. i - 1 \in 1 .. m + n /\ i - 1 <= m
        BY <1>1, <2>4
    <3>2. more[i - 1] = raw[i - 1]
        BY <1>2, <3>1
    <3>3. i \in q + 2 .. m + n <=> i \in q + 2 .. m
        BY <1>1
    <3> QED  BY <1>3, <1>4, <2>1, <2>2, <3>2, <3>3
  <2> QED  BY <2>3, <2>4
<1> DEFINE k == m + 1
           l == m + 2
<1>13. /\ k \in 1 .. m + n /\ ~(k <= m) /\ k - m = 1
       /\ m \in 1 .. m + n /\ k - 1 = m /\ l - 1 = k
       /\ x = SEPARATOR_BYTE => l \in 1 .. m + n /\ l \in q + 2 .. m + n
  <2>1. q <= m
      BY DEF m
  <2> QED  BY <1>1, <2>1
<1> HIDE DEF k, l
<1>14. more[k] = x /\ more[m] = raw[m]
  <2>1. more[k] = w[k - m]
      BY <1>2, <1>13
  <2>2. m <= m
      BY <1>1
  <2>3. more[m] = raw[m]
      BY <1>2, <1>13, <2>2
  <2> QED  BY <1>1, <1>13, <2>1, <2>3
<1>8. whole[k] = tail[1]
  <2>1. ~(k \in q + 2 .. m + n /\ more[k - 1] = SEPARATOR_BYTE)
    <3>1. CASE m = q
        BY <1>1, <1>13, <3>1
    <3>2. CASE raw[m] # SEPARATOR_BYTE
        BY <1>13, <1>14, <3>2
    <3> QED  BY <3>1, <3>2 DEF m
  <2>2. whole[k] = <<more[k]>>
      BY <1>3, <1>13, <2>1
  <2> QED  BY <1>5, <1>14, <2>2
<1>9. x = SEPARATOR_BYTE => whole[l] = tail[2]
  <2> SUFFICES ASSUME x = SEPARATOR_BYTE PROVE whole[l] = <<>>
      BY <1>6
  <2>1. more[l - 1] = SEPARATOR_BYTE
      BY <1>13, <1>14
  <2> QED  BY <1>3, <1>13, <2>1
<1>10. whole = first \o tail
  <2>1. ASSUME NEW i \in 1 .. n PROVE whole[m + i] = tail[i]
    <3>1. i = 1 \/ (x = SEPARATOR_BYTE /\ i = 2)
        BY <1>1
    <3> QED  BY <1>8, <1>9, <3>1 DEF k, l
  <2>2. ConcatOf(whole, first, tail)
      BY <1>3, <1>4, <1>5, <1>7, <2>1 DEF ConcatOf
  <2> QED  BY <1>3, <1>4, <1>5, <2>2, ConcatIs, Zenon
<1>11. first # <<>>
    BY <1>1, <1>4, EmptySeq
<1>12. /\ Concatenated(first) \in Seq(Byte)
       /\ Concatenated(first \o tail) = Concatenated(first) \o Concatenated(tail)
    BY <1>4, <1>5, <1>11, ConcatJoin, Zenon
<1> QED  BY <1>5, <1>10, <1>12, Zenon DEF Stripped, whole, first, more, w

\* All of a sequence, behind q bytes that are not looked at.
LEMMA StripsEscaped ==
    ASSUME NEW front \in Seq(Byte), NEW s \in Seq(Byte), s # <<>>,
           front = <<>> \/ Stripped(front, Len(front)) = front
    PROVE  Stripped(front \o Escaped(s), Len(front)) = front \o s
<1> DEFINE q == Len(front)
           Claim(t) == Stripped(front \o Escaped(t), q) = front \o t
           P == {t \in Seq(Byte) : Claim(t)}
<1>1. q \in Nat
    OBVIOUS
<1>2. ASSUME NEW x \in Byte
      PROVE  /\ Escaped(<<x>>) = Written(x) /\ Written(x) \in Seq(Byte)
             /\ <<x>> \in Seq(Byte) /\ <<x>> # <<>>
    BY EscapedOne, WrittenType
<1>3. ASSUME NEW x \in Byte
      PROVE  <<x>> \in P
  <2>1. CASE front = <<>>
    <3>1. /\ q = 0 /\ front \o Escaped(<<x>>) = Written(x)
          /\ front \o <<x>> = <<x>>
        BY <1>2, <2>1, ConcatEmptySeq
    <3> QED  BY <1>2, <3>1, StripsOne
  <2>2. CASE front # <<>>
    <3>1. q <= Len(front) /\ Len(front) = q
        BY <1>1
    <3>2. Stripped(front \o Written(x), q) = Stripped(front, q) \o <<x>>
        BY <1>1, <2>2, <3>1, StripsLast
    <3>3. Stripped(front, q) = front
        BY <2>2
    <3> QED  BY <1>2, <3>2, <3>3, Zenon
  <2> QED  BY <2>1, <2>2
<1>4. ASSUME NEW init \in Seq(Byte), NEW x \in Byte, init # <<>>, init \in P
      PROVE  init \o <<x>> \in P
  <2> DEFINE e == Escaped(init)
             m == Len(e)
             raw == front \o e
  <2>1. /\ e \in Seq(Byte) /\ m \in Nat \ {0} /\ e[m] # SEPARATOR_BYTE
      BY <1>4, EscapedEnds
  <2>2. /\ raw \in Seq(Byte) /\ Len(raw) = q + m
        /\ \A i \in 1 .. m : raw[q + i] = e[i]
      BY <2>1, ConcatSplits DEF ConcatOf
  <2>3. Stripped(raw, q) = front \o init
      BY <1>4
  <2>4. Escaped(init \o <<x>>) = e \o Written(x)
      BY <1>2, <1>4, EscapedJoin
  <2> HIDE DEF e, m, q, raw
  <2>5. raw[Len(raw)] # SEPARATOR_BYTE /\ raw # <<>> /\ q <= Len(raw)
    <3>1. q + m # 0 /\ q <= q + m /\ m \in 1 .. m
        BY <1>1, <2>1
    <3>2. raw[q + m] = e[m]
        BY <2>2, <3>1
    <3> QED  BY <2>1, <2>2, <3>1, <3>2, EmptySeq
  <2>6. Stripped(raw \o Written(x), q) = Stripped(raw, q) \o <<x>>
      BY <1>1, <2>2, <2>5, StripsLast
  <2>7. front \o (e \o Written(x)) = raw \o Written(x)
    <3> DEFINE more == Written(x)
    <3>1. e \in Seq(Byte) /\ more \in Seq(Byte)
        BY <1>2, <2>1
    <3> HIDE DEF more
    <3>2. (front \o e) \o more = front \o (e \o more)
        BY <3>1, BytesAssociate, Zenon
    <3> QED  BY <3>2, Zenon DEF raw, more
  <2>8. front \o (init \o <<x>>) = (front \o init) \o <<x>>
      BY <1>2, BytesAssociate, Zenon
  <2>9. init \o <<x>> \in Seq(Byte)
      BY <1>2, ConcatProperties
  <2>10. Claim(init \o <<x>>)
      BY <2>3, <2>4, <2>6, <2>7, <2>8, Zenon
  <2> QED  BY <2>9, <2>10
<1>5. s \in P
  <2> HIDE DEF P
  <2> QED  BY <1>3, <1>4, ByteByByte
<1> QED  BY <1>5

\* Escaping adds no separators.
LEMMA EscapedSeparators ==
    ASSUME NEW s \in Seq(Byte), s # <<>>
    PROVE  Separators(Escaped(s)) = Separators(s)
<1> DEFINE P == {t \in Seq(Byte) : Separators(Escaped(t)) = Separators(t)}
<1>1. ASSUME NEW x \in Byte
      PROVE  <<x>> \in P
  <2>1. <<x>> \in Seq(Byte)
      OBVIOUS
  <2>2. Separators(Written(x)) = Separators(<<x>>)
    <3>1. CASE x = SEPARATOR_BYTE
      <4>1. /\ SEPARATOR_POST_BYTE \in Byte
            /\ SEPARATOR_POST_BYTE # SEPARATOR_BYTE
          BY DEF SEPARATOR_POST_BYTE, SEPARATOR_BYTE, Byte
      <4>2. Written(x) = <<x, SEPARATOR_POST_BYTE>>
          BY <3>1, Zenon DEF Written
      <4>3. Separators(<<x, SEPARATOR_POST_BYTE>>) = 1 + 0
          BY <3>1, <4>1, SeparatorsTwo
      <4>4. Separators(<<x>>) = 1
          BY <3>1, SeparatorsOne
      <4> QED  BY <4>2, <4>3, <4>4
    <3>2. CASE x # SEPARATOR_BYTE
        BY <3>2 DEF Written
    <3> QED  BY <3>1, <3>2
  <2> QED  BY <2>1, <2>2, EscapedOne
<1>2. ASSUME NEW front \in Seq(Byte), NEW x \in Byte, front # <<>>, front \in P
      PROVE  front \o <<x>> \in P
  <2>1. <<x>> \in Seq(Byte) /\ <<x>> # <<>> /\ front \o <<x>> \in Seq(Byte)
      OBVIOUS
  <2>2. /\ Escaped(front \o <<x>>) = Escaped(front) \o Escaped(<<x>>)
        /\ Escaped(front) \in Seq(Byte) /\ Escaped(<<x>>) \in Seq(Byte)
      BY <1>2, <2>1, EscapedJoin
  <2>3. Separators(Escaped(front) \o Escaped(<<x>>))
          = Separators(Escaped(front)) + Separators(Escaped(<<x>>))
      BY <2>2, SeparatorsJoin
  <2>4. Separators(front \o <<x>>) = Separators(front) + Separators(<<x>>)
      BY <2>1, SeparatorsJoin
  <2>5. /\ Separators(Escaped(<<x>>)) = Separators(<<x>>)
        /\ Separators(Escaped(front)) = Separators(front)
      BY <1>1, <1>2
  <2> QED  BY <2>1, <2>2, <2>3, <2>4, <2>5
<1>3. s \in P
  <2> HIDE DEF P
  <2> QED  BY <1>1, <1>2, ByteByByte
<1> QED  BY <1>3

(***************************************************************************)
(* Counting collected bytes.  As many are needed as there are bytes before *)
(* escaping, and that many there are at the last byte written, not before. *)
(***************************************************************************)
Complete(raw, q, n) == n - Separators(SubSeq(raw, q + 1, n))

\* Without post bytes an escaped sequence has its length at its last byte
\* and not before.
LEMMA CompletesAtEnd ==
    ASSUME NEW front \in Seq(Byte), NEW s \in Seq(Byte), s # <<>>
    PROVE  LET raw == front \o Escaped(s)
               q   == Len(front)
           IN  /\ Complete(raw, q, Len(raw)) = q + Len(s)
               /\ \A n \in q .. Len(raw) - 1 : Complete(raw, q, n) < q + Len(s)
<1> DEFINE e   == Escaped(s)
           raw == front \o e
           q   == Len(front)
           m   == Len(e)
           d(n) == n - Separators(SubSeq(raw, q + 1, n))
<1>1. /\ e \in Seq(Byte) /\ m \in Nat \ {0} /\ e[m] # SEPARATOR_BYTE
    BY EscapedEnds
<1>2. /\ q \in Nat /\ raw \in Seq(Byte) /\ Len(raw) = q + m
      /\ \A i \in 1 .. m : raw[q + i] = e[i]
    BY <1>1, ConcatSplits DEF ConcatOf
<1>3. /\ m = Len(s) + Separators(s) /\ Separators(s) \in Nat /\ Len(s) \in Nat
    BY EscapedLength
<1>4. IsSequence(raw) /\ IsSequence(e)
    BY <1>1, <1>2, OverSomeSet
<1>5. SubSeq(raw, q + 1, q + m) = e
    BY <1>1, BackPiece
<1> HIDE DEF e, raw, q, m
<1>6. m - Separators(e) = Len(s)
  <2>1. Separators(e) = Separators(s)
      BY EscapedSeparators DEF e
  <2> QED  BY <1>3, <2>1
<1>7. d(q + m) = q + Len(s)
  <2> DEFINE k == Separators(e)
  <2>1. k \in Nat
      BY <1>4, CountIsNumber
  <2>2. m - k = Len(s)
      BY <1>6
  <2>3. d(q + m) = (q + m) - k
      BY <1>5
  <2> HIDE DEF k
  <2> DEFINE z == Len(s)
  <2>4. z \in Nat /\ m - k = z
      BY <1>3, <2>2
  <2> HIDE DEF z
  <2>5. (q + m) - k = q + z
      BY <1>1, <1>2, <2>1, <2>4
  <2> QED  BY <2>3, <2>5 DEF z
<1>8. ASSUME NEW n \in Nat, q <= n, n < q + m
      PROVE  /\ d(n) \in Int /\ d(n + 1) \in Int
             /\ d(n) <= d(n + 1)
             /\ raw[n + 1] # SEPARATOR_BYTE => d(n + 1) = d(n) + 1
  <2>1. /\ q + 1 \in Nat \ {0} /\ n + 1 <= Len(raw) /\ q + 1 <= n + 1
        /\ n <= Len(raw) /\ n + 1 \in Nat
      BY <1>1, <1>2, <1>8
  <2> DEFINE a == Separators(SubSeq(raw, q + 1, n))
             b == Separators(SubSeq(raw, q + 1, n + 1))
  <2>2. b = IF raw[n + 1] = SEPARATOR_BYTE THEN a + 1 ELSE a
      BY <1>4, <2>1, OneMoreByte
  <2>3. IsSequence(SubSeq(raw, q + 1, n))
      BY <1>4, <2>1, PieceOfSequence
  <2>4. a \in Nat
      BY <2>3, CountIsNumber
  <2>5. d(n) = n - a /\ d(n + 1) = (n + 1) - b
      OBVIOUS
  <2> HIDE DEF a, b
  <2>6. b \in Nat
      BY <2>2, <2>4
  <2> QED  BY <2>2, <2>4, <2>5, <2>6
<1>9. \A n \in q .. q + m - 1 : d(n) < q + Len(s)
  <2> DEFINE T == {k \in Nat : k < m => d(q + m - 1 - k) < q + Len(s)}
  <2>1. ASSUME NEW k \in Nat, \A j \in Nat : j < k => j \in T
        PROVE  k \in T
    <3> SUFFICES ASSUME k < m PROVE d(q + m - 1 - k) < q + Len(s)
        OBVIOUS
    <3> DEFINE n == q + m - 1 - k
    <3>1. n \in Nat /\ q <= n /\ n < q + m /\ n + 1 = q + m - k
        BY <1>1, <1>2
    <3> HIDE DEF n, d
    <3>2. /\ d(n) \in Int /\ d(n + 1) \in Int /\ d(n) <= d(n + 1)
          /\ raw[n + 1] # SEPARATOR_BYTE => d(n + 1) = d(n) + 1
        BY <1>8, <3>1
    <3>3. CASE k = 0
      <4>1. n + 1 = q + m
          BY <1>1, <1>2, <3>1, <3>3
      <4>2. raw[q + m] = e[m]
          BY <1>1, <1>2
      <4>3. d(n + 1) = d(n) + 1 /\ d(n + 1) = q + Len(s)
          BY <1>1, <1>7, <3>2, <4>1, <4>2
      <4>4. d(n) < q + Len(s)
          BY <3>2, <4>3
      <4> QED  BY <4>4 DEF n
    <3>4. CASE k # 0
      <4>1. k - 1 \in Nat /\ k - 1 < k /\ k - 1 < m
            /\ q + m - 1 - (k - 1) = q + m - k
          BY <1>1, <1>2, <3>4
      <4>2. d(q + m - 1 - (k - 1)) < q + Len(s)
          BY <2>1, <4>1
      <4>3. d(n + 1) < q + Len(s)
          BY <3>1, <4>1, <4>2
      <4>4. d(n) < q + Len(s)
        <5>1. q + Len(s) \in Int
            BY <1>2, <1>3
        <5> DEFINE z == q + Len(s)
        <5> HIDE DEF z
        <5>2. d(n + 1) < z /\ z \in Int
            BY <4>3, <5>1 DEF z
        <5>3. d(n) < z
            BY <3>2, <5>2
        <5> QED  BY <5>3 DEF z
      <4> QED  BY <4>4 DEF n
    <3> QED  BY <3>3, <3>4
  <2>2. Nat \subseteq T
    <3> HIDE DEF T
    <3> QED  BY <2>1, StrongInduction
  <2> SUFFICES ASSUME NEW n \in q .. q + m - 1 PROVE d(n) < q + Len(s)
      OBVIOUS
  <2> DEFINE k == q + m - 1 - n
  <2>3. k \in Nat /\ k < m /\ q + m - 1 - k = n
      BY <1>1, <1>2
  <2> HIDE DEF k, d
  <2>4. d(q + m - 1 - k) < q + Len(s)
      BY <2>2, <2>3
  <2> QED  BY <2>3, <2>4
<1> QED  BY <1>2, <1>7, <1>9 DEF raw, q, m, e, Complete

-----------------------------------------------------------------------------
(***************************************************************************)
(* Sums and codes of what is received in two pieces                        *)
(***************************************************************************)
SumOf(s) == IF s = <<>> THEN 0 ELSE Joined(+, s)

\* The sum of one number.
LEMMA SumOne ==
    ASSUME NEW n \in Nat
    PROVE  Joined(+, <<n>>) = n
<1> DEFINE s == <<n>>
<1>1. s \in Seq(Nat) /\ s # <<>> /\ Len(s) = 1 /\ s[1] = n
    OBVIOUS
<1> HIDE DEF s
<1>2. PICK f : HalvingOf(f, s, Plus) /\ Joined(+, s) = Whole(f, s)
    BY <1>1, SumByHalves, Zenon
<1>3. f[<<1, 1>>] = s[1]
  <2>1. 1 \in 1 .. Len(s) /\ 1 >= 1
      BY <1>1
  <2> QED  BY <1>2, <2>1, Zenon DEF HalvingOf, Halving
<1>4. Whole(f, s) = n
    BY <1>1, <1>3 DEF Whole
<1>5. Joined(+, s) = n
    BY <1>2, <1>4, Zenon
<1> QED  BY <1>5, Zenon DEF s

\* The sum of two pieces.
LEMMA SumOfJoin ==
    ASSUME NEW s \in Seq(Nat), NEW t \in Seq(Nat)
    PROVE  /\ SumOf(s) \in Nat
           /\ SumOf(t) \in Nat
           /\ SumOf(s \o t) = SumOf(s) + SumOf(t)
<1>1. CASE s = <<>> /\ t = <<>>
  <2>1. s \o t = <<>>
      BY <1>1, ConcatEmptySeq
  <2>2. SumOf(s) = 0 /\ SumOf(t) = 0 /\ SumOf(s \o t) = 0
      BY <1>1, <2>1, Zenon DEF SumOf
  <2> QED  BY <2>2
<1>2. CASE s = <<>> /\ t # <<>>
  <2>1. s \o t = t
      BY <1>2, ConcatEmptySeq
  <2>2. Joined(+, t) \in Nat
      BY <1>2, SumJoin, Zenon
  <2> DEFINE a == Joined(+, t)
  <2>3. SumOf(s) = 0 /\ SumOf(t) = a /\ SumOf(s \o t) = a
      BY <1>2, <2>1, Zenon DEF SumOf
  <2> HIDE DEF a
  <2>4. a \in Nat
      BY <2>2 DEF a
  <2> QED  BY <2>3, <2>4
<1>3. CASE s # <<>> /\ t = <<>>
  <2>1. s \o t = s
      BY <1>3, ConcatEmptySeq
  <2>2. Joined(+, s) \in Nat
      BY <1>3, SumJoin, Zenon
  <2> DEFINE a == Joined(+, s)
  <2>3. SumOf(t) = 0 /\ SumOf(s) = a /\ SumOf(s \o t) = a
      BY <1>3, <2>1, Zenon DEF SumOf
  <2> HIDE DEF a
  <2>4. a \in Nat
      BY <2>2 DEF a
  <2> QED  BY <2>3, <2>4
<1>4. CASE s # <<>> /\ t # <<>>
  <2>1. s \o t # <<>>
      BY <1>4, ConcatProperties
  <2>2. /\ Joined(+, s) \in Nat /\ Joined(+, t) \in Nat
        /\ Joined(+, s \o t) = Joined(+, s) + Joined(+, t)
      BY <1>4, SumJoin, Zenon
  <2> QED  BY <1>4, <2>1, <2>2, Zenon DEF SumOf
<1> QED  BY <1>1, <1>2, <1>3, <1>4

\* The checksum is a sum.
LEMMA ChecksumIs ==
    ASSUME NEW s \in Seq(Nat), NEW start \in Nat
    PROVE  checksum(s, start) = Narrow(start + SumOf(s))
<1> DEFINE one == <<start>>
<1>1. one \in Seq(Nat) /\ one # <<>>
    OBVIOUS
<1>2. SumOf(one) = start
    BY <1>1, SumOne, Zenon DEF SumOf
<1>3. SumOf(one \o s) = SumOf(one) + SumOf(s)
    BY <1>1, SumOfJoin
<1>4. one \o s # <<>>
    BY <1>1, ConcatProperties
<1>5. Joined(+, one \o s) = start + SumOf(s)
    BY <1>2, <1>3, <1>4, Zenon DEF SumOf
<1>6. checksum(s, start) = Narrow(Joined(+, one \o s))
    BY Zenon DEF checksum
<1> QED  BY <1>5, <1>6, Zenon

\* The checksum may be cut to eight bits in between.
LEMMA NarrowTwice ==
    ASSUME NEW a \in Nat, NEW b \in Nat, NEW c \in Nat
    PROVE  Narrow((Narrow(a) + b) + c) = Narrow(b + (a + c))
<1> DEFINE r == a % 256
           q == a \div 256
           x == (r + b) + c
<1>1. r \in 0 .. 255 /\ q \in Int /\ a = 256 * q + r
    OBVIOUS
<1> HIDE DEF r, q
<1>2. b + (a + c) = x + 256 * q /\ x \in Int
    BY <1>1
<1> HIDE DEF x
<1>3. (x + 256 * q) % 256 = x % 256
    BY <1>1, <1>2
<1> QED  BY <1>2, <1>3 DEF Narrow, r, x

\* The check code is carried on from one piece to the next.
LEMMA CrcJoin ==
    ASSUME CodesAre16Bits, NEW s \in Seq(Byte), s # <<>>,
           NEW t \in Seq(Byte), NEW start \in Code
    PROVE  Crc(s \o t, start) = Crc(t, Crc(s, start))
<1>1. CASE t = <<>>
  <2>1. s \o t = s
      BY <1>1, ConcatEmptySeq
  <2> QED  BY <1>1, <2>1, Zenon DEF Crc
<1>2. CASE t # <<>>
  <2> DEFINE first  == Steps(s)
             second == Steps(t)
             both   == Steps(s \o t)
  <2>1. /\ first \in Seq(Coding) /\ Len(first) = Len(s)
        /\ \A i \in 1 .. Len(s) : first[i] = OneByte(s[i])
      BY StepsType
  <2>2. /\ second \in Seq(Coding) /\ Len(second) = Len(t)
        /\ \A i \in 1 .. Len(t) : second[i] = OneByte(t[i])
      BY StepsType
  <2>3. s \o t \in Seq(Byte) /\ ConcatOf(s \o t, s, t)
      BY ConcatSplits
  <2>4. /\ both \in Seq(Coding) /\ Len(both) = Len(s \o t)
        /\ \A i \in 1 .. Len(s \o t) : both[i] = OneByte((s \o t)[i])
      BY <2>3, StepsType
  <2>5. first # <<>> /\ second # <<>> /\ s \o t # <<>>
      BY <1>2, <2>1, <2>2, EmptySeq, ConcatProperties
  <2> HIDE DEF first, second, both
  <2>6. both = first \o second
    <3>1. /\ Len(s) \in Nat /\ Len(t) \in Nat /\ Len(s \o t) = Len(s) + Len(t)
          /\ \A i \in 1 .. Len(s) : (s \o t)[i] = s[i]
          /\ \A i \in 1 .. Len(t) : (s \o t)[Len(s) + i] = t[i]
        BY <2>3, LenProperties DEF ConcatOf
    <3>2. \A i \in 1 .. Len(first) : both[i] = first[i]
      <4>1. \A i \in 1 .. Len(s) : i \in 1 .. Len(s \o t)
          BY <3>1
      <4> QED  BY <2>1, <2>4, <3>1, <4>1
    <3>3. \A i \in 1 .. Len(second) : both[Len(first) + i] = second[i]
      <4>1. \A i \in 1 .. Len(t) : Len(s) + i \in 1 .. Len(s \o t)
          BY <3>1
      <4>2. Len(first) = Len(s) /\ Len(second) = Len(t)
          BY <2>1, <2>2, Zenon
      <4>3. \A i \in 1 .. Len(t) : both[Len(s) + i] = second[i]
          BY <2>2, <2>4, <3>1, <4>1, Zenon
      <4> QED  BY <4>2, <4>3, Zenon
    <3>4. ConcatOf(both, first, second)
        BY <2>1, <2>2, <2>4, <3>1, <3>2, <3>3 DEF ConcatOf
    <3> QED  BY <2>1, <2>2, <2>4, <3>4, ConcatIs, Zenon
  <2> DEFINE A == Joined(Then, first)
             B == Joined(Then, second)
             C == Joined(Then, first \o second)
  <2>7. A \in Coding /\ B \in Coding /\ C = Then(A, B)
      BY <2>1, <2>2, <2>5, CodeJoin, Zenon
  <2>8. /\ Crc(s \o t, start) = C[start] /\ Crc(s, start) = A[start]
        /\ Crc(t, A[start]) = B[A[start]]
      BY <1>2, <2>5, <2>6, Zenon DEF Crc, Steps, first, second, both
  <2> HIDE DEF A, B, C
  <2>9. C[start] = B[A[start]]
      BY <2>7 DEF Then
  <2> QED  BY <2>8, <2>9, Zenon
<1> QED  BY <1>1, <1>2

-----------------------------------------------------------------------------
(***************************************************************************)
(* What parse_buffer makes of what fill_buffer wrote                       *)
(***************************************************************************)
TwoSeparators == <<SEPARATOR_BYTE, SEPARATOR_BYTE>>

\* A length that send_data accepts, and no separator.
Fits(data) == Len(data) <= MAX_FRAME_SIZE - PURE_HEADER_SIZE

\* The header and what follows it, before escaping.
HeaderOf(frame_type, data, use_crc) ==
    PureHeader(frame_type, use_crc, Len(data))

BodyOf(frame_type, data, use_crc) ==
    LET new == NewFrame(frame_type, data, use_crc) IN
    (data \o <<new.checksum>>)
    \o IF use_crc THEN <<HighByte(new.crc), LowByte(new.crc)>> ELSE <<>>

\* The frame once its header was parsed.
HeaderOnly(frame_type, data, use_crc) ==
    LET header == HeaderOf(frame_type, data, use_crc) IN
    [status |-> "FRAME_HEADER_ONLY", frame_type |-> frame_type,
     use_crc |-> use_crc, data_size |-> Len(data), data |-> <<>>,
     checksum |-> checksum(header, 0),
     crc |-> IF use_crc THEN Crc(header, INITIAL_CRC) ELSE INITIAL_CRC,
     additional_bytes |-> IF frame_type = SEPARATOR_BYTE THEN 1 ELSE 0]

\* The bytes of the header that parse_buffer reads.
LEMMA HeaderBytes ==
    ASSUME NEW frame_type \in Byte, NEW data \in Seq(Byte),
           NEW use_crc \in BOOLEAN, Fits(data)
    PROVE  LET header == HeaderOf(frame_type, data, use_crc) IN
           /\ header \in Seq(Byte) /\ Len(header) = 8
           /\ header[1] = 8 + Len(data)
           /\ header[2] = IF use_crc THEN 64 ELSE 0
           /\ header[8] = frame_type
           /\ Separators(header) = IF frame_type = SEPARATOR_BYTE THEN 1 ELSE 0
<1> DEFINE l == Len(data)
           header == HeaderOf(frame_type, data, use_crc)
           flags == IF use_crc THEN 64 ELSE 0
           seven == <<8 + l, flags, 0, 0, 0, 0, 0>>
<1>1. l \in Nat /\ l <= 233
    BY DEF Fits, MAX_FRAME_SIZE, PURE_HEADER_SIZE, FRAME_HEADER_SIZE,
           FRAME_SEPARATORS_COUNT
<1>2. header = <<Narrow(8 + l), flags, 0, 0, 0, 0, 0, frame_type>>
  <2>1. PURE_HEADER_SIZE = 8
      BY DEF PURE_HEADER_SIZE, FRAME_HEADER_SIZE, FRAME_SEPARATORS_COUNT
  <2>2. USE_CRC_MASK = 64
      BY DEF USE_CRC_MASK
  <2> QED  BY <2>1, <2>2, Zenon DEF HeaderOf, PureHeader
<1> HIDE DEF l, flags, header
<1>3. Narrow(8 + l) = 8 + l
    BY <1>1 DEF Narrow
<1>4. flags \in Byte /\ 8 + l \in Byte /\ 0 \in Byte
      /\ flags # SEPARATOR_BYTE /\ 8 + l # SEPARATOR_BYTE /\ 0 # SEPARATOR_BYTE
    BY <1>1 DEF flags, Byte, SEPARATOR_BYTE
<1>5. header = <<8 + l, flags, 0, 0, 0, 0, 0, frame_type>>
    BY <1>2, <1>3
<1>6. /\ header \in Seq(Byte) /\ Len(header) = 8 /\ header[1] = 8 + l
      /\ header[2] = flags /\ header[8] = frame_type
    BY <1>4, <1>5
<1>7. seven \in Seq(Byte) /\ Len(seven) = 7
    BY <1>4
<1>8. \A i \in DOMAIN seven : seven[i] # SEPARATOR_BYTE
  <2>1. DOMAIN seven = 1 .. 7
      BY <1>7
  <2>2. /\ seven[1] = 8 + l /\ seven[2] = flags /\ seven[3] = 0
        /\ seven[4] = 0 /\ seven[5] = 0 /\ seven[6] = 0 /\ seven[7] = 0
      OBVIOUS
  <2> HIDE DEF seven
  <2>3. \A i \in 1 .. 7 :
            i = 1 \/ i = 2 \/ i = 3 \/ i = 4 \/ i = 5 \/ i = 6 \/ i = 7
      OBVIOUS
  <2> QED  BY <1>4, <2>1, <2>2, <2>3
<1>9. Separators(seven) = 0
  <2>1. {i \in DOMAIN seven : seven[i] = SEPARATOR_BYTE} = {}
      BY <1>8, Zenon
  <2> QED  BY <2>1, FS_EmptySet, Zenon DEF Separators
<1>10. header = seven \o <<frame_type>>
    BY <1>4, <1>5
<1> HIDE DEF seven
<1>11. Separators(seven \o <<frame_type>>)
         = Separators(seven) + (IF frame_type = SEPARATOR_BYTE THEN 1 ELSE 0)
    BY <1>7, OneMoreCounted
<1>12. Separators(header) = 0 + (IF frame_type = SEPARATOR_BYTE THEN 1 ELSE 0)
    BY <1>9, <1>10, <1>11, Zenon
<1>13. 0 + (IF frame_type = SEPARATOR_BYTE THEN 1 ELSE 0)
         = IF frame_type = SEPARATOR_BYTE THEN 1 ELSE 0
    OBVIOUS
<1>14. Separators(header) = IF frame_type = SEPARATOR_BYTE THEN 1 ELSE 0
    BY <1>12, <1>13, Zenon
<1> QED  BY <1>6, <1>14 DEF header, l, flags

\* parse_buffer accepts the header of a frame that send_data accepts.
LEMMA HeaderParsed ==
    ASSUME NEW frame_type \in Byte, NEW data \in Seq(Byte),
           NEW use_crc \in BOOLEAN, Fits(data)
    PROVE  LET header == TwoSeparators \o HeaderOf(frame_type, data, use_crc)
           IN  /\ HeaderError(header) = "HEADER_ONLY"
               /\ ParsedHeader(header) = HeaderOnly(frame_type, data, use_crc)
<1> DEFINE h == HeaderOf(frame_type, data, use_crc)
           header == TwoSeparators \o h
<1>1. /\ h \in Seq(Byte) /\ Len(h) = 8
      /\ h[1] = 8 + Len(data)
      /\ h[2] = IF use_crc THEN 64 ELSE 0
      /\ h[8] = frame_type
    BY HeaderBytes
<1>2. /\ TwoSeparators \in Seq(Byte) /\ Len(TwoSeparators) = 2
      /\ TwoSeparators[1] = SEPARATOR_BYTE /\ TwoSeparators[2] = SEPARATOR_BYTE
    BY DEF TwoSeparators, SEPARATOR_BYTE, Byte
<1>3. Len(data) \in Nat /\ Len(data) <= 233
    BY DEF Fits, MAX_FRAME_SIZE, PURE_HEADER_SIZE, FRAME_HEADER_SIZE,
           FRAME_SEPARATORS_COUNT
<1>4. header \in Seq(Byte) /\ ConcatOf(header, TwoSeparators, h)
    BY <1>1, <1>2, ConcatSplits
<1> HIDE DEF h, header
<1>5. Len(header) = 10
    BY <1>1, <1>2, <1>4 DEF ConcatOf
<1>6. header[1] = SEPARATOR_BYTE /\ header[2] = SEPARATOR_BYTE
  <2>1. 1 \in 1 .. 2 /\ 2 \in 1 .. 2
      OBVIOUS
  <2> QED  BY <1>2, <1>4, <2>1, Zenon DEF ConcatOf
<1>7. header[3] = h[1] /\ header[4] = h[2] /\ header[10] = h[8]
  <2>1. \A i \in 1 .. 8 : header[2 + i] = h[i]
      BY <1>1, <1>2, <1>4 DEF ConcatOf
  <2>2. 1 \in 1 .. 8 /\ 2 \in 1 .. 8 /\ 8 \in 1 .. 8
        /\ 2 + 1 = 3 /\ 2 + 2 = 4 /\ 2 + 8 = 10
      OBVIOUS
  <2>3. header[2 + 1] = h[1] /\ header[2 + 2] = h[2] /\ header[2 + 8] = h[8]
      BY <2>1, <2>2, Zenon
  <2> QED  BY <2>2, <2>3
<1>8. SubSeq(header, FRAME_SEPARATORS_COUNT + 1, FRAME_HEADER_SIZE) = h
  <2>1. SubSeq(header, Len(TwoSeparators) + 1, Len(TwoSeparators) + Len(h)) = h
      BY <1>1, <1>2, BackPiece, Zenon DEF header
  <2>2. /\ FRAME_SEPARATORS_COUNT + 1 = Len(TwoSeparators) + 1
        /\ FRAME_HEADER_SIZE = Len(TwoSeparators) + Len(h)
      BY <1>1, <1>2 DEF FRAME_SEPARATORS_COUNT, FRAME_HEADER_SIZE
  <2> QED  BY <2>1, <2>2, Zenon
<1>9. /\ Field(header, 2) = 8 + Len(data)
      /\ Field(header, 3) = IF use_crc THEN 64 ELSE 0
      /\ Field(header, 9) = frame_type
  <2>1. 2 + 1 = 3 /\ 3 + 1 = 4 /\ 9 + 1 = 10
      OBVIOUS
  <2>2. /\ Field(header, 2) = header[2 + 1] /\ Field(header, 3) = header[3 + 1]
        /\ Field(header, 9) = header[9 + 1]
      BY Zenon DEF Field
  <2> QED  BY <1>1, <1>7, <2>1, <2>2
<1>10. HasCrc(header) = use_crc
  <2>1. (64 \div 64) % 2 = 1 /\ (0 \div 64) % 2 = 0
      OBVIOUS
  <2>2. (Field(header, 3) \div USE_CRC_MASK) % 2 = 1 <=> use_crc
      BY <1>9, <2>1 DEF USE_CRC_MASK
  <2> QED  BY <2>2 DEF HasCrc
<1>11. HeaderError(header) = "HEADER_ONLY"
  <2>1. ~(Len(header) < FRAME_HEADER_SIZE)
      BY <1>5 DEF FRAME_HEADER_SIZE
  <2>2. ~ \E i \in 1 .. FRAME_SEPARATORS_COUNT : header[i] # SEPARATOR_BYTE
    <3>1. \A i \in 1 .. FRAME_SEPARATORS_COUNT : i = 1 \/ i = 2
        BY DEF FRAME_SEPARATORS_COUNT
    <3> QED  BY <1>6, <3>1
  <2>3. ~(Field(header, 2) < PURE_HEADER_SIZE) /\ ~TooBig(Field(header, 2))
      BY <1>3, <1>9 DEF PURE_HEADER_SIZE, FRAME_HEADER_SIZE,
                        FRAME_SEPARATORS_COUNT, TooBig, MAX_FRAME_SIZE
  <2> QED  BY <2>1, <2>2, <2>3, Zenon DEF HeaderError
<1>12. Field(header, 2) - PURE_HEADER_SIZE = Len(data)
    BY <1>3, <1>9 DEF PURE_HEADER_SIZE, FRAME_HEADER_SIZE,
                      FRAME_SEPARATORS_COUNT
<1>13. ParsedHeader(header) = HeaderOnly(frame_type, data, use_crc)
  <2> DEFINE sum == checksum(h, 0)
             code == IF use_crc THEN Crc(h, INITIAL_CRC) ELSE INITIAL_CRC
             more == IF frame_type = SEPARATOR_BYTE THEN 1 ELSE 0
  <2>1. ParsedHeader(header) =
          [EmptyFrame EXCEPT
             !.status = "FRAME_HEADER_ONLY",
             !.frame_type = frame_type,
             !.use_crc = use_crc,
             !.data_size = Len(data),
             !.checksum = sum,
             !.crc = code,
             !.additional_bytes = more]
      BY <1>8, <1>9, <1>10, <1>12, Zenon DEF ParsedHeader
  <2>2. HeaderOnly(frame_type, data, use_crc) =
          [status |-> "FRAME_HEADER_ONLY", frame_type |-> frame_type,
           use_crc |-> use_crc, data_size |-> Len(data), data |-> <<>>,
           checksum |-> sum, crc |-> code, additional_bytes |-> more]
      BY Zenon DEF HeaderOnly, h
  <2> HIDE DEF sum, code, more
  <2> QED  BY <2>1, <2>2 DEF EmptyFrame
<1> QED  BY <1>11, <1>13 DEF header, h

\* The checksum and the check code go on from the header.
LEMMA ChecksGoOn ==
    ASSUME CodesAre16Bits,
           NEW frame_type \in Byte, NEW data \in Seq(Byte),
           NEW use_crc \in BOOLEAN, Fits(data)
    PROVE  LET frame == HeaderOnly(frame_type, data, use_crc)
               new   == NewFrame(frame_type, data, use_crc)
           IN  /\ ExpectedChecksum(frame, data) = new.checksum
               /\ use_crc => Crc(data, frame.crc) = new.crc
               /\ new.checksum \in Byte
               /\ new.crc \in Code
<1> DEFINE h     == HeaderOf(frame_type, data, use_crc)
           frame == HeaderOnly(frame_type, data, use_crc)
           new   == NewFrame(frame_type, data, use_crc)
           bytes == h \o data
           more  == IF frame_type = SEPARATOR_BYTE THEN 1 ELSE 0
<1>1. /\ h \in Seq(Byte) /\ Len(h) = 8 /\ Separators(h) = more
    BY HeaderBytes
<1>2. h # <<>>
  <2>1. Len(h) # 0
      BY <1>1
  <2> QED  BY <1>1, <2>1, EmptySeq, Zenon
<1>3. /\ frame.checksum = checksum(h, 0)
      /\ frame.crc = IF use_crc THEN Crc(h, INITIAL_CRC) ELSE INITIAL_CRC
      /\ frame.additional_bytes = more
    BY DEF HeaderOnly
<1>4. /\ new.checksum
           = checksum(bytes, Separators(bytes) * SEPARATOR_POST_BYTE)
      /\ new.crc = IF use_crc THEN Crc(bytes, INITIAL_CRC) ELSE INITIAL_CRC
    BY DEF NewFrame, HeaderOf
<1>5. new.checksum \in Byte /\ new.crc \in Code
    BY NewFrameType DEF Fits
<1> HIDE DEF frame, new
<1>6. h \in Seq(Nat) /\ data \in Seq(Nat) /\ bytes \in Seq(Nat)
      /\ bytes \in Seq(Byte)
  <2>1. bytes \in Seq(Byte)
      BY <1>1, ConcatSplits
  <2>2. Byte \subseteq Nat
      BY DEF Byte
  <2> HIDE DEF h, bytes
  <2> QED  BY <1>1, <2>1, <2>2, SeqMonotonic
<1>7. SumOf(bytes) = SumOf(h) + SumOf(data) /\ SumOf(h) \in Nat
      /\ SumOf(data) \in Nat /\ SumOf(bytes) \in Nat
    BY <1>6, SumOfJoin
<1>8. Separators(bytes) = more + Separators(data) /\ Separators(data) \in Nat
    BY <1>1, SeparatorsJoin
<1> DEFINE count == more + Separators(data)
           start == count * SEPARATOR_POST_BYTE
<1>9. count \in Nat /\ start \in Nat
    BY <1>8 DEF SEPARATOR_POST_BYTE
<1> HIDE DEF h, bytes, more
<1>10. new.checksum = Narrow(start + SumOf(bytes))
  <2>1. checksum(bytes, start) = Narrow(start + SumOf(bytes))
      BY <1>6, <1>9, ChecksumIs, Zenon
  <2> QED  BY <1>4, <1>8, <2>1, Zenon
<1>11. frame.checksum = Narrow(SumOf(h))
  <2>1. checksum(h, 0) = Narrow(0 + SumOf(h))
      BY <1>6, ChecksumIs
  <2>2. 0 + SumOf(h) = SumOf(h)
      BY <1>7
  <2> QED  BY <1>3, <2>1, <2>2, Zenon
<1>12. Narrow(SumOf(h)) \in Nat
    BY <1>7 DEF Narrow
<1>13. ExpectedChecksum(frame, data)
         = checksum(data, Narrow(SumOf(h)) + start)
    BY <1>3, <1>11, Zenon DEF ExpectedChecksum
<1> HIDE DEF start, count
<1>14. checksum(data, Narrow(SumOf(h)) + start)
         = Narrow((Narrow(SumOf(h)) + start) + SumOf(data))
  <2>1. Narrow(SumOf(h)) + start \in Nat
      BY <1>9, <1>12
  <2> QED  BY <1>6, <2>1, ChecksumIs, Zenon
<1>15. Narrow((Narrow(SumOf(h)) + start) + SumOf(data))
         = Narrow(start + (SumOf(h) + SumOf(data)))
    BY <1>7, <1>9, NarrowTwice
<1>16. ExpectedChecksum(frame, data) = new.checksum
    BY <1>7, <1>10, <1>13, <1>14, <1>15, Zenon
<1>17. use_crc => Crc(data, frame.crc) = new.crc
  <2>1. INITIAL_CRC \in Code
      BY DEF INITIAL_CRC, Code
  <2>2. Crc(bytes, INITIAL_CRC) = Crc(data, Crc(h, INITIAL_CRC))
      BY <1>1, <1>2, <2>1, CrcJoin, Zenon DEF bytes
  <2> QED  BY <1>3, <1>4, <2>2, Zenon
<1> QED  BY <1>5, <1>16, <1>17, Zenon DEF frame, new

\* A check code is put together from its halves.
LEMMA CodeOfHalves ==
    ASSUME NEW code \in Code
    PROVE  HighByte(code) * 256 + LowByte(code) = code
BY SMTT(40) DEF Code, HighByte, LowByte

\* It accepts the rest, too: its checksum and its check code, each taken in
\* two pieces, are those that were written.
LEMMA BodyParsed ==
    ASSUME CodesAre16Bits,
           NEW frame_type \in Byte, NEW data \in Seq(Byte),
           NEW use_crc \in BOOLEAN, Fits(data)
    PROVE  LET frame == HeaderOnly(frame_type, data, use_crc)
               body  == BodyOf(frame_type, data, use_crc)
               got   == ParsedData(frame, body)
           IN  /\ body \in Seq(Byte)
               /\ Len(body) = frame.data_size + TrailerSize(frame)
               /\ DataError(frame, body) = "COMPLETE_FRAME"
               /\ got.frame_type = frame_type
               /\ got.data = data
               /\ got.use_crc = use_crc
<1> DEFINE frame == HeaderOnly(frame_type, data, use_crc)
           new   == NewFrame(frame_type, data, use_crc)
           body  == BodyOf(frame_type, data, use_crc)
           n     == Len(data)
           sum   == <<new.checksum>>
           halves == IF use_crc
                     THEN <<HighByte(new.crc), LowByte(new.crc)>> ELSE <<>>
           most  == data \o sum
<1>1. /\ ExpectedChecksum(frame, data) = new.checksum
      /\ use_crc => Crc(data, frame.crc) = new.crc
      /\ new.checksum \in Byte
      /\ new.crc \in Code
    BY ChecksGoOn, Zenon
<1>2. frame.data_size = n /\ frame.use_crc = use_crc
      /\ frame.frame_type = frame_type
    BY DEF HeaderOnly
<1>3. body = most \o halves
    BY Zenon DEF BodyOf
<1>4. HighByte(new.crc) \in Byte /\ LowByte(new.crc) \in Byte
    BY <1>1, HalvesOfCode
<1>5. TrailerSize(frame) = IF use_crc THEN 3 ELSE 1
    BY <1>2 DEF TrailerSize
<1>6. n \in Nat
    OBVIOUS
<1> HIDE DEF frame, new, body
<1>7. /\ sum \in Seq(Byte) /\ Len(sum) = 1 /\ sum[1] = new.checksum
      /\ halves \in Seq(Byte)
      /\ Len(halves) = IF use_crc THEN 2 ELSE 0
      /\ use_crc => halves[1] = HighByte(new.crc) /\ halves[2] = LowByte(new.crc)
  <2>1. sum \in Seq(Byte) /\ Len(sum) = 1 /\ sum[1] = new.checksum
      BY <1>1
  <2>2. CASE use_crc
      BY <1>4, <2>1, <2>2
  <2>3. CASE ~use_crc
    <3>1. halves = <<>>
        BY <2>3
    <3>2. halves \in Seq(Byte) /\ Len(halves) = 0
        BY <3>1
    <3> HIDE DEF sum, halves
    <3> QED  BY <2>1, <2>3, <3>2
  <2> QED  BY <2>2, <2>3
<1> HIDE DEF sum, halves
<1>8. most \in Seq(Byte) /\ ConcatOf(most, data, sum)
    BY <1>7, ConcatSplits
<1>9. body \in Seq(Byte) /\ ConcatOf(body, most, halves)
    BY <1>3, <1>7, <1>8, ConcatSplits
<1> HIDE DEF most
<1>10. /\ Len(most) = n + 1
       /\ \A i \in 1 .. n : most[i] = data[i]
       /\ most[n + 1] = new.checksum
    BY <1>6, <1>7, <1>8 DEF ConcatOf
<1>11. Len(body) = n + (IF use_crc THEN 3 ELSE 1)
    BY <1>6, <1>7, <1>9, <1>10 DEF ConcatOf
<1>12. \A i \in 1 .. n + 1 : body[i] = most[i]
    BY <1>9, <1>10 DEF ConcatOf
<1>13. \A i \in 1 .. n : body[i] = data[i]
  <2>1. \A i \in 1 .. n : i \in 1 .. n + 1
      BY <1>6
  <2> QED  BY <1>10, <1>12, <2>1, Zenon
<1>14. body[n + 1] = new.checksum
  <2>1. n + 1 \in 1 .. n + 1
      BY <1>6
  <2> QED  BY <1>10, <1>12, <2>1, Zenon
<1>15. use_crc => body[n + 2] = HighByte(new.crc)
                  /\ body[n + 3] = LowByte(new.crc)
  <2> SUFFICES ASSUME use_crc
               PROVE  body[n + 2] = HighByte(new.crc)
                      /\ body[n + 3] = LowByte(new.crc)
      OBVIOUS
  <2>1. \A i \in 1 .. 2 : body[Len(most) + i] = halves[i]
      BY <1>7, <1>9 DEF ConcatOf
  <2>2. 1 \in 1 .. 2 /\ 2 \in 1 .. 2
        /\ Len(most) + 1 = n + 2 /\ Len(most) + 2 = n + 3
      BY <1>6, <1>10
  <2>3. body[Len(most) + 1] = halves[1] /\ body[Len(most) + 2] = halves[2]
      BY <2>1, <2>2, Zenon
  <2> QED  BY <1>7, <2>2, <2>3, Zenon
<1>16. SubSeq(body, 1, n) = data
  <2>1. n <= Len(body)
      BY <1>6, <1>11
  <2>2. /\ SubSeq(body, 1, n) \in Seq(Byte)
        /\ Len(SubSeq(body, 1, n)) = n
        /\ \A i \in 1 .. n : SubSeq(body, 1, n)[i] = body[i]
    BY <1>6, <1>9, <2>1, SubSeqProperties
  <2> DEFINE p == SubSeq(body, 1, n)
  <2> HIDE DEF p
  <2>3. p \in Seq(Byte) /\ Len(p) = n /\ \A i \in 1 .. n : p[i] = data[i]
      BY <1>13, <2>2 DEF p
  <2>4. p = data
      BY <2>3, SeqEqual
  <2> QED  BY <2>4 DEF p
<1>17. DataError(frame, body) = "COMPLETE_FRAME"
  <2>1. ~(Len(body) < frame.data_size + TrailerSize(frame))
      BY <1>2, <1>5, <1>6, <1>11
  <2>2. ~(frame.use_crc /\ Crc(data, frame.crc) # ReceivedCrc(body, n))
    <3>1. CASE use_crc
      <4>1. ReceivedCrc(body, n) = HighByte(new.crc) * 256 + LowByte(new.crc)
          BY <1>15, <3>1, Zenon DEF ReceivedCrc
      <4>2. HighByte(new.crc) * 256 + LowByte(new.crc) = new.crc
          BY <1>1, CodeOfHalves
      <4> QED  BY <1>1, <3>1, <4>1, <4>2, Zenon
    <3>2. CASE ~use_crc
        BY <1>2, <3>2
    <3> QED  BY <3>1, <3>2
  <2>3. ~Differs(ExpectedChecksum(frame, data), body[n + 1])
      BY <1>1, <1>14, Zenon DEF Differs
  <2> QED  BY <1>2, <1>16, <2>1, <2>2, <2>3, Zenon DEF DataError
<1>18. LET got == ParsedData(frame, body) IN
       got.frame_type = frame_type /\ got.data = data /\ got.use_crc = use_crc
  <2>1. SubSeq(body, 1, frame.data_size) = data
      BY <1>2, <1>16, Zenon
  <2> DEFINE any == ExpectedChecksum(frame, data)
             code == IF use_crc THEN Crc(data, frame.crc) ELSE INITIAL_CRC
             more == Narrow(frame.additional_bytes + Separators(data))
  <2>2. ParsedData(frame, body) =
          [frame EXCEPT !.status = "FRAME_COMPLETE", !.data = data,
                        !.checksum = any, !.crc = code,
                        !.additional_bytes = more]
      BY <1>2, <2>1, Zenon DEF ParsedData
  <2> HIDE DEF any, code, more
  <2> DEFINE head  == HeaderOf(frame_type, data, use_crc)
             sum0  == checksum(head, 0)
             code0 == IF use_crc THEN Crc(head, INITIAL_CRC) ELSE INITIAL_CRC
             more0 == IF frame_type = SEPARATOR_BYTE THEN 1 ELSE 0
  <2>3. frame = [status |-> "FRAME_HEADER_ONLY", frame_type |-> frame_type,
                 use_crc |-> use_crc, data_size |-> Len(data), data |-> <<>>,
                 checksum |-> sum0, crc |-> code0, additional_bytes |-> more0]
      BY Zenon DEF HeaderOnly, frame
  <2> HIDE DEF head, sum0, code0, more0, frame
  <2> DEFINE got == [frame EXCEPT !.status = "FRAME_COMPLETE", !.data = data,
                                  !.checksum = any, !.crc = code,
                                  !.additional_bytes = more]
  <2>4. /\ got.frame_type = frame_type /\ got.data = data
        /\ got.use_crc = use_crc
      BY <2>3
  <2> HIDE DEF got
  <2>5. ParsedData(frame, body) = got
      BY <2>2 DEF got
  <2> HIDE DEF body
  <2> QED  BY <2>4, <2>5, Zenon
<1>19. Len(body) = frame.data_size + TrailerSize(frame)
    BY <1>2, <1>5, <1>11
<1> QED  BY <1>9, <1>17, <1>18, <1>19, Zenon DEF frame, body

RawHeader(frame_type, data, use_crc) ==
    TwoSeparators \o Escaped(HeaderOf(frame_type, data, use_crc))

RawBody(frame_type, data, use_crc) == Escaped(BodyOf(frame_type, data, use_crc))

\* Two separators are not escaped.
LEMMA TwoSeparatorsStay ==
    /\ TwoSeparators \in Seq(Byte)
    /\ Len(TwoSeparators) = 2
    /\ TwoSeparators[1] = SEPARATOR_BYTE /\ TwoSeparators[2] = SEPARATOR_BYTE
    /\ Stripped(TwoSeparators, 2) = TwoSeparators
<1> DEFINE two == TwoSeparators
           one == <<SEPARATOR_BYTE>>
<1>1. /\ two \in Seq(Byte) /\ Len(two) = 2
      /\ two[1] = SEPARATOR_BYTE /\ two[2] = SEPARATOR_BYTE
      /\ one \in Seq(Byte) /\ two = one \o one /\ 2 \in Nat
    BY DEF TwoSeparators, SEPARATOR_BYTE, Byte
<1> HIDE DEF two, one
<1>2. /\ Pieces(two, 2) \in Seq(Seq(Byte))
      /\ Len(Pieces(two, 2)) = Len(two)
      /\ \A i \in 1 .. Len(two) :
            Pieces(two, 2)[i] =
              IF i \in 2 + 2 .. Len(two) /\ two[i - 1] = SEPARATOR_BYTE
              THEN <<>> ELSE <<two[i]>>
    BY <1>1, PiecesType, Zenon
<1>3. Pieces(two, 2)[1] = one /\ Pieces(two, 2)[2] = one
  <2>1. 1 \in 1 .. Len(two) /\ 2 \in 1 .. Len(two)
        /\ ~(1 \in 2 + 2 .. Len(two)) /\ ~(2 \in 2 + 2 .. Len(two))
      BY <1>1
  <2>2. Pieces(two, 2)[1] = <<two[1]>> /\ Pieces(two, 2)[2] = <<two[2]>>
      BY <1>2, <2>1, Zenon
  <2> QED  BY <1>1, <2>2, Zenon DEF one
<1> DEFINE p == Pieces(two, 2)
<1>4. p = <<one, one>>
  <2> HIDE DEF p
  <2>1. /\ p \in Seq(Seq(Byte)) /\ Len(p) = 2 /\ p[1] = one /\ p[2] = one
      BY <1>1, <1>2, <1>3 DEF p
  <2> QED  BY <1>1, <2>1
<1>5. Stripped(two, 2) = one \o one
    BY <1>1, <1>4, ConcatTwo, Zenon DEF Stripped
<1> QED  BY <1>1, <1>5, Zenon DEF two

\* The header as it is written: without its post bytes it has ten bytes, the
\* last of which makes them ten; every separator after the first two has its
\* post byte, and the third byte is none.
LEMMA RawHeaderShape ==
    ASSUME NEW frame_type \in Byte, NEW data \in Seq(Byte),
           NEW use_crc \in BOOLEAN, Fits(data)
    PROVE  LET raw == RawHeader(frame_type, data, use_crc)
           IN  /\ raw \in Seq(Byte)
               /\ Len(raw) \in Nat /\ Len(raw) >= 10
               /\ raw[1] = SEPARATOR_BYTE /\ raw[2] = SEPARATOR_BYTE
               /\ raw[3] # SEPARATOR_BYTE /\ raw[Len(raw)] # SEPARATOR_BYTE
               /\ \A i \in 3 .. Len(raw) - 1 :
                     raw[i] = SEPARATOR_BYTE => raw[i + 1] = SEPARATOR_POST_BYTE
               /\ Stripped(raw, 2)
                    = TwoSeparators \o HeaderOf(frame_type, data, use_crc)
               /\ \A n \in 2 .. Len(raw) - 1 :
                     Complete(raw, 2, n) < FRAME_HEADER_SIZE
               /\ Complete(raw, 2, Len(raw)) = FRAME_HEADER_SIZE
<1> DEFINE two == TwoSeparators
           h   == HeaderOf(frame_type, data, use_crc)
           e   == Escaped(h)
           raw == RawHeader(frame_type, data, use_crc)
           m   == Len(e)
<1>1. /\ h \in Seq(Byte) /\ Len(h) = 8 /\ h[1] = 8 + Len(data)
    BY HeaderBytes
<1>2. h # <<>>
  <2>1. Len(h) # 0
      BY <1>1
  <2> QED  BY <1>1, <2>1, EmptySeq, Zenon
<1>3. h[1] # SEPARATOR_BYTE
    BY <1>1 DEF Fits, MAX_FRAME_SIZE, PURE_HEADER_SIZE, FRAME_HEADER_SIZE,
                FRAME_SEPARATORS_COUNT, SEPARATOR_BYTE
<1>4. /\ two \in Seq(Byte) /\ Len(two) = 2
      /\ two[1] = SEPARATOR_BYTE /\ two[2] = SEPARATOR_BYTE
      /\ Stripped(two, 2) = two
    BY TwoSeparatorsStay
<1>5. raw = two \o e
    BY Zenon DEF RawHeader
<1> HIDE DEF two, h
<1>6. /\ e \in Seq(Byte) /\ m \in Nat \ {0}
      /\ e[1] # SEPARATOR_BYTE /\ e[m] # SEPARATOR_BYTE
      /\ \A i \in 1 .. m - 1 :
            e[i] = SEPARATOR_BYTE => e[i + 1] = SEPARATOR_POST_BYTE
    BY <1>1, <1>2, <1>3, EscapedEnds
<1> HIDE DEF e
<1>7. raw \in Seq(Byte) /\ ConcatOf(raw, two, e)
    BY <1>4, <1>5, <1>6, ConcatSplits
<1>8. /\ Stripped(raw, 2) = two \o h
      /\ Complete(raw, 2, Len(raw)) = 2 + 8
      /\ \A n \in 2 .. Len(raw) - 1 : Complete(raw, 2, n) < 2 + 8
  <2>1. Stripped(two \o Escaped(h), Len(two)) = two \o h
      BY <1>1, <1>2, <1>4, StripsEscaped
  <2>2. /\ Complete(two \o Escaped(h), Len(two), Len(two \o Escaped(h)))
             = Len(two) + Len(h)
        /\ \A n \in Len(two) .. Len(two \o Escaped(h)) - 1 :
              Complete(two \o Escaped(h), Len(two), n) < Len(two) + Len(h)
      BY <1>1, <1>2, <1>4, CompletesAtEnd
  <2> QED  BY <1>1, <1>4, <1>5, <2>1, <2>2, Zenon DEF e
<1> HIDE DEF raw
<1>9. Len(raw) = 2 + m /\ Len(raw) \in Nat /\ Len(raw) >= 10 /\ m >= 8
  <2>1. m = Len(h) + Separators(h) /\ Separators(h) \in Nat
      BY <1>1, <1>2, EscapedLength, Zenon DEF e
  <2>2. Len(raw) = 2 + m
      BY <1>4, <1>7, Zenon DEF ConcatOf
  <2> HIDE DEF m
  <2> QED  BY <1>1, <2>1, <2>2
<1>10. \A i \in 1 .. m : raw[2 + i] = e[i]
    BY <1>4, <1>6, <1>7 DEF ConcatOf
<1>11. raw[1] = SEPARATOR_BYTE /\ raw[2] = SEPARATOR_BYTE
  <2>1. 1 \in 1 .. 2 /\ 2 \in 1 .. 2
      OBVIOUS
  <2> QED  BY <1>4, <1>7, <2>1, Zenon DEF ConcatOf
<1> HIDE DEF m
<1>12. raw[3] # SEPARATOR_BYTE /\ raw[Len(raw)] # SEPARATOR_BYTE
  <2>1. 1 \in 1 .. m /\ m \in 1 .. m /\ 2 + 1 = 3
      BY <1>6
  <2> QED  BY <1>6, <1>9, <1>10, <2>1, Zenon
<1>13. ASSUME NEW i \in 3 .. Len(raw) - 1, raw[i] = SEPARATOR_BYTE
       PROVE  raw[i + 1] = SEPARATOR_POST_BYTE
  <2> DEFINE j == i - 2
             k == j + 1
  <2>1. /\ j \in 1 .. m - 1 /\ j \in 1 .. m /\ k \in 1 .. m
        /\ 2 + j = i /\ 2 + k = i + 1
      BY <1>6, <1>9
  <2>2. raw[2 + j] = e[j] /\ raw[2 + k] = e[k]
    <3> HIDE DEF j, k
    <3> QED  BY <1>10, <2>1, Zenon
  <2> QED  BY <1>6, <1>13, <2>1, <2>2
<1>14. 2 + 8 = FRAME_HEADER_SIZE
    BY DEF FRAME_HEADER_SIZE
<1> QED  BY <1>7, <1>8, <1>9, <1>11, <1>12, <1>13, <1>14, Zenon DEF raw, two, h

\* The rest as it is written, likewise.
LEMMA RawBodyShape ==
    ASSUME CodesAre16Bits,
           NEW frame_type \in Byte, NEW data \in Seq(Byte),
           NEW use_crc \in BOOLEAN, Fits(data)
    PROVE  LET raw  == RawBody(frame_type, data, use_crc)
               body == BodyOf(frame_type, data, use_crc)
           IN  /\ raw \in Seq(Byte)
               /\ Len(raw) \in Nat \ {0}
               /\ raw[Len(raw)] # SEPARATOR_BYTE
               /\ \A i \in 1 .. Len(raw) - 1 :
                     raw[i] = SEPARATOR_BYTE => raw[i + 1] = SEPARATOR_POST_BYTE
               /\ Stripped(raw, 0) = body
               /\ \A n \in 0 .. Len(raw) - 1 : Complete(raw, 0, n) < Len(body)
               /\ Complete(raw, 0, Len(raw)) = Len(body)
<1> DEFINE body == BodyOf(frame_type, data, use_crc)
           frame == HeaderOnly(frame_type, data, use_crc)
           raw  == RawBody(frame_type, data, use_crc)
           none == <<>>
<1>1. body \in Seq(Byte) /\ Len(body) = frame.data_size + TrailerSize(frame)
    BY BodyParsed, Zenon
<1>2. Len(body) \in Nat \ {0}
  <2>1. frame.data_size = Len(data) /\ Len(data) \in Nat
      BY DEF HeaderOnly
  <2>2. TrailerSize(frame) \in {1, 3}
      BY DEF TrailerSize
  <2> HIDE DEF frame
  <2> QED  BY <1>1, <2>1, <2>2
<1>3. body # <<>>
  <2>1. Len(body) # 0
      BY <1>2
  <2> QED  BY <1>1, <2>1, EmptySeq, Zenon
<1>4. raw = Escaped(body)
    BY Zenon DEF RawBody
<1> HIDE DEF body, raw
<1>5. /\ raw \in Seq(Byte) /\ Len(raw) \in Nat \ {0}
      /\ raw[Len(raw)] # SEPARATOR_BYTE
      /\ \A i \in 1 .. Len(raw) - 1 :
            raw[i] = SEPARATOR_BYTE => raw[i + 1] = SEPARATOR_POST_BYTE
    BY <1>1, <1>3, <1>4, EscapedEnds, Zenon
<1>6. none \in Seq(Byte) /\ Len(none) = 0
    OBVIOUS
<1>7. none \o raw = raw /\ none \o body = body
    BY <1>1, <1>5, ConcatEmptySeq
<1>8. Stripped(raw, 0) = body
  <2>1. Stripped(none \o Escaped(body), Len(none)) = none \o body
      BY <1>1, <1>3, <1>6, StripsEscaped
  <2> HIDE DEF none
  <2> QED  BY <1>4, <1>6, <1>7, <2>1, Zenon
<1>9. /\ Complete(raw, 0, Len(raw)) = 0 + Len(body)
      /\ \A n \in 0 .. Len(raw) - 1 : Complete(raw, 0, n) < 0 + Len(body)
  <2>1. /\ Complete(none \o Escaped(body), Len(none), Len(none \o Escaped(body)))
             = Len(none) + Len(body)
        /\ \A n \in Len(none) .. Len(none \o Escaped(body)) - 1 :
              Complete(none \o Escaped(body), Len(none), n)
                < Len(none) + Len(body)
      BY <1>1, <1>3, <1>6, CompletesAtEnd
  <2> HIDE DEF none
  <2> QED  BY <1>4, <1>6, <1>7, <2>1, Zenon
<1>10. 0 + Len(body) = Len(body)
    BY <1>2
<1> QED  BY <1>5, <1>8, <1>9, <1>10, Zenon DEF raw, body

\* The bytes of a frame are those of the header and those of the rest.
LEMMA EncodedIs ==
    ASSUME CodesAre16Bits,
           NEW frame_type \in Byte, NEW data \in Seq(Byte),
           NEW use_crc \in BOOLEAN, Fits(data)
    PROVE  Encoded(NewFrame(frame_type, data, use_crc))
             = RawHeader(frame_type, data, use_crc)
               \o RawBody(frame_type, data, use_crc)
<1> DEFINE new  == NewFrame(frame_type, data, use_crc)
           h    == HeaderOf(frame_type, data, use_crc)
           sum  == <<new.checksum>>
           halves == IF use_crc
                     THEN <<HighByte(new.crc), LowByte(new.crc)>> ELSE <<>>
           body == BodyOf(frame_type, data, use_crc)
           most == data \o sum
<1>1. /\ new.frame_type = frame_type /\ new.use_crc = use_crc
      /\ new.data = data /\ new.data_size = Len(data)
      /\ new.checksum \in Byte /\ new.crc \in Code
    BY NewFrameType DEF Fits
<1>2. HighByte(new.crc) \in Byte /\ LowByte(new.crc) \in Byte
    BY <1>1, HalvesOfCode
<1>3. h \in Seq(Byte) /\ Len(h) = 8
    BY HeaderBytes
<1>4. body = most \o halves /\ body \in Seq(Byte)
    BY BodyParsed, Zenon DEF BodyOf
<1>5. Encoded(new) = TwoSeparators \o Escaped(((h \o data) \o sum) \o halves)
    BY <1>1, Zenon DEF Encoded, TwoSeparators, HeaderOf
<1> HIDE DEF new, h, body
<1>6. sum \in Seq(Byte)
    BY <1>1
<1>7. halves \in Seq(Byte)
    BY <1>2
<1> HIDE DEF sum, halves
<1>8. most \in Seq(Byte)
    BY <1>6, ConcatSplits
<1>9. ((h \o data) \o sum) \o halves = h \o body
  <2>1. (h \o data) \o sum = h \o most
      BY <1>3, <1>6, BytesAssociate, Zenon
  <2> HIDE DEF most
  <2>2. (h \o most) \o halves = h \o (most \o halves)
      BY <1>3, <1>7, <1>8, BytesAssociate, Zenon
  <2> QED  BY <1>4, <2>1, <2>2, Zenon
<1>10. h # <<>> /\ body # <<>>
  <2>1. Len(h) # 0
      BY <1>3
  <2>2. Len(body) # 0
    <3> DEFINE frame == HeaderOnly(frame_type, data, use_crc)
    <3>1. Len(body) = frame.data_size + TrailerSize(frame)
        BY BodyParsed, Zenon DEF body
    <3>2. frame.data_size \in Nat /\ TrailerSize(frame) \in {1, 3}
        BY DEF HeaderOnly, TrailerSize
    <3> HIDE DEF frame
    <3> QED  BY <3>1, <3>2
  <2> QED  BY <1>3, <1>4, <2>1, <2>2, EmptySeq, Zenon
<1>11. /\ Escaped(h) \in Seq(Byte) /\ Escaped(body) \in Seq(Byte)
       /\ Escaped(h \o body) = Escaped(h) \o Escaped(body)
    BY <1>3, <1>4, <1>10, EscapedJoin, Zenon
<1>12. TwoSeparators \o (Escaped(h) \o Escaped(body))
         = (TwoSeparators \o Escaped(h)) \o Escaped(body)
    BY <1>11, TwoSeparatorsStay, BytesAssociate, Zenon
<1> QED  BY <1>5, <1>9, <1>11, <1>12, Zenon DEF RawHeader, RawBody, h, body, new

\* A frame that the position of fill_buffer is wide enough for is written
\* as it is encoded.
LEMMA FillBufferIs ==
    ASSUME CodesAre16Bits,
           NEW frame_type \in Byte, NEW data \in Seq(Byte),
           NEW use_crc \in BOOLEAN, Fits(data), NEW garbage,
           get_buffer_size(NewFrame(frame_type, data, use_crc)) <= 256
    PROVE  fill_buffer(NewFrame(frame_type, data, use_crc), garbage)
             = RawHeader(frame_type, data, use_crc)
               \o RawBody(frame_type, data, use_crc)
<1> DEFINE new   == NewFrame(frame_type, data, use_crc)
           bytes == Encoded(new)
           size  == get_buffer_size(new)
           fill  == fill_buffer(new, garbage)
<1>1. bytes \in Seq(Byte) /\ Len(bytes) = size /\ size \in Nat
    BY EncodedLength, Zenon DEF Fits
<1>2. fill = [i \in 1 .. size |->
                IF i > 256 THEN garbage
                ELSE IF Overwritten(i, size) THEN bytes[i + 256] ELSE bytes[i]]
    BY Zenon DEF fill_buffer
<1>3. size <= 256
    OBVIOUS
<1> HIDE DEF new, bytes, size, fill
<1>4. \A i \in 1 .. size : ~(i > 256) /\ ~Overwritten(i, size)
    BY <1>1, <1>3 DEF Overwritten
<1>5. fill = [i \in 1 .. size |-> bytes[i]]
    BY <1>2, <1>4, Zenon
<1>6. bytes = [i \in 1 .. size |-> bytes[i]]
    BY <1>1, LenProperties
<1>7. fill = bytes
    BY <1>5, <1>6, Zenon
<1> QED  BY <1>7, EncodedIs, Zenon DEF fill, bytes, new

(***************************************************************************)
(* Whatever the type and the data of a frame that send_data accepts, with  *)
(* a check code or without: what fill_buffer writes is a header and a rest *)
(* that parse_buffer, given one after the other without the post bytes,    *)
(* accepts, with the same type and the same data.  It takes crc16 to return*)
(* sixteen bits, and a frame short enough for the eight bits in which      *)
(* fill_buffer keeps its position.                                         *)
(***************************************************************************)
THEOREM WrittenIsParsed ==
    ASSUME CodesAre16Bits,
           NEW frame_type \in Byte, NEW data \in Seq(Byte),
           NEW use_crc \in BOOLEAN, Fits(data), NEW garbage,
           get_buffer_size(NewFrame(frame_type, data, use_crc)) <= 256
    PROVE  LET first  == RawHeader(frame_type, data, use_crc)
               second == RawBody(frame_type, data, use_crc)
               frame  == ParsedHeader(Stripped(first, FRAME_SEPARATORS_COUNT))
               body   == Stripped(second, 0)
               got    == ParsedData(frame, body)
           IN  /\ fill_buffer(NewFrame(frame_type, data, use_crc), garbage)
                    = first \o second
               /\ HeaderError(Stripped(first, FRAME_SEPARATORS_COUNT))
                    = "HEADER_ONLY"
               /\ DataError(frame, body) = "COMPLETE_FRAME"
               /\ got.frame_type = frame_type
               /\ got.data = data
               /\ got.use_crc = use_crc
<1> DEFINE first  == RawHeader(frame_type, data, use_crc)
           second == RawBody(frame_type, data, use_crc)
           header == Stripped(first, FRAME_SEPARATORS_COUNT)
           body   == Stripped(second, 0)
           frame  == HeaderOnly(frame_type, data, use_crc)
           got    == ParsedData(frame, body)
<1>1. fill_buffer(NewFrame(frame_type, data, use_crc), garbage)
        = first \o second
    BY FillBufferIs, Zenon
<1>2. header = TwoSeparators \o HeaderOf(frame_type, data, use_crc)
    BY RawHeaderShape, Zenon DEF FRAME_SEPARATORS_COUNT
<1>3. HeaderError(header) = "HEADER_ONLY" /\ ParsedHeader(header) = frame
    BY <1>2, HeaderParsed, Zenon
<1>4. body = BodyOf(frame_type, data, use_crc)
    BY RawBodyShape, Zenon
<1>5. /\ DataError(frame, body) = "COMPLETE_FRAME"
      /\ got.frame_type = frame_type
      /\ got.data = data
      /\ got.use_crc = use_crc
  <2> HIDE DEF got, body
  <2>1. body = BodyOf(frame_type, data, use_crc)
      BY <1>4
  <2> QED  BY <2>1, BodyParsed DEF got
<1> QED  BY <1>1, <1>3, <1>5, Zenon

=============================================================================
