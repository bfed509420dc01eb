------------------------ MODULE CircularBufferProofs ------------------------
(***************************************************************************)
(* Proofs about CircularBuffer, for every capacity and every item type: its*)
(* invariants, and that it implements a bounded first-in first-out queue.  *)
(*                                                                         *)
(* All arithmetic modulo the capacity is dealt with by the first lemma;    *)
(* from there on positions are compared by cases.                          *)
(***************************************************************************)
EXTENDS CircularBuffer, SequenceTheorems, TLAPS

(***************************************************************************)
(* The flag may say "empty" only where the size is in doubt.  With the     *)
(* types of the variables, this is inductive.                              *)
(***************************************************************************)
FlagOK == is_empty => head = tail

IndInv == TypeOK /\ FlagOK

-----------------------------------------------------------------------------
(***************************************************************************)
(* Positions and sizes                                                     *)
(***************************************************************************)

\* Going on from a cell by at most a whole round wraps at most once.
LEMMA AfterWraps ==
    ASSUME NEW cell \in Cell, NEW n \in 0 .. Capacity
    PROVE  /\ After(cell, n) \in Cell
           /\ After(cell, n) = IF cell + n < Capacity THEN cell + n
                               ELSE cell + n - Capacity
  <1>1. Capacity \in Nat \ {0}
        BY CircularBufferAssumption
  <1>. QED
        BY <1>1 DEF After, Cell

\* What a piece of a sequence consists of.
LEMMA PieceOfSeq ==
    ASSUME NEW S, NEW s \in Seq(S), NEW m \in 0 .. Len(s), NEW n \in m .. Len(s)
    PROVE  /\ SubSeq(s, m + 1, n) \in Seq(S)
           /\ Len(SubSeq(s, m + 1, n)) = n - m
           /\ \A i \in 1 .. n - m : SubSeq(s, m + 1, n)[i] = s[m + i]
  <1>1. Len(s) \in Nat /\ \A i \in 1 .. Len(s) : s[i] \in S
        BY LenProperties, ElementOfSeq
  <1>2. m + 1 \in Int /\ n \in Int /\ \A i \in m + 1 .. n : s[i] \in S
        BY <1>1
  <1>. DEFINE piece == SubSeq(s, m + 1, n)
  <1>3. /\ piece \in Seq(S)
        /\ Len(piece) = IF m + 1 <= n THEN n - (m + 1) + 1 ELSE 0
        /\ \A i \in 1 .. n - (m + 1) + 1 : piece[i] = s[(m + 1) + i - 1]
        BY <1>2, SubSeqProperties
  <1>. HIDE DEF piece
  <1>4. Len(piece) = n - m
        BY <1>1, <1>3
  <1>5. \A i \in 1 .. n - m : piece[i] = s[m + i]
    <2>. SUFFICES ASSUME NEW i \in 1 .. n - m
                  PROVE  piece[i] = s[m + i]
          OBVIOUS
    <2>1. i \in 1 .. n - (m + 1) + 1 /\ (m + 1) + i - 1 = m + i
          BY <1>1
    <2>. QED
          BY <1>3, <2>1
  <1>. QED
        BY <1>3, <1>4, <1>5 DEF piece

\* The size never exceeds the capacity, and is zero only when the flag says so.
LEMMA SizeRange ==
    ASSUME IndInv
    PROVE  /\ Size \in 0 .. Capacity
           /\ Space \in 0 .. Capacity
           /\ Size + Space = Capacity
           /\ is_empty <=> Size = 0
           /\ tail = After(head, Size)
  <1>1. Capacity \in Nat \ {0}
        BY CircularBufferAssumption
  <1>2. head \in 0 .. Capacity - 1 /\ tail \in 0 .. Capacity - 1
        BY DEF IndInv, TypeOK, Cell
  <1>3. is_empty \in BOOLEAN /\ (is_empty => head = tail)
        BY DEF IndInv, TypeOK, FlagOK
  <1>4. Size \in 0 .. Capacity /\ (is_empty <=> Size = 0)
        BY <1>1, <1>2, <1>3 DEF Size
  <1>5. tail = After(head, Size)
    <2>1. After(head, Size) = IF head + Size < Capacity THEN head + Size
                              ELSE head + Size - Capacity
          BY <1>2, <1>4, AfterWraps DEF Cell
    <2>. QED
          BY <1>1, <1>2, <2>1 DEF Size
  <1>. QED
        BY <1>1, <1>4, <1>5 DEF Space

\* The contents are a sequence of items.
LEMMA ContentsType ==
    ASSUME IndInv
    PROVE  /\ Contents \in Seq(Value)
           /\ Len(Contents) = Size
           /\ \A i \in 1 .. Size : Contents[i] = buffer[After(head, i - 1)]
  <1>1. Size \in 0 .. Capacity /\ Capacity \in Nat \ {0}
        BY SizeRange, CircularBufferAssumption
  <1>2. \A i \in 1 .. Size : buffer[After(head, i - 1)] \in Value
    <2>. SUFFICES ASSUME NEW i \in 1 .. Size
                  PROVE  buffer[After(head, i - 1)] \in Value
          OBVIOUS
    <2>1. After(head, i - 1) \in Cell
          BY <1>1, AfterWraps DEF IndInv, TypeOK
    <2>. QED
          BY <2>1 DEF IndInv, TypeOK
  <1>3. Contents = [i \in 1 .. Size |-> buffer[After(head, i - 1)]]
        BY DEF Contents, At
  <1>4. Contents \in [1 .. Size -> Value]
        BY <1>2, <1>3
  <1>. QED
        BY <1>1, <1>3, <1>4

-----------------------------------------------------------------------------
(***************************************************************************)
(* Storing and removing                                                    *)
(***************************************************************************)

\* An item that is stored lands behind the contents, and nothing that was
\* stored before is overwritten, as long as no more is stored than fits.
LEMMA StoredCells ==
    ASSUME IndInv, NEW items \in Seq(Value), NEW n \in 0 .. Space,
           n <= Len(items), NEW i \in 1 .. Size + n
    PROVE  Stored(items, n)[After(head, i - 1)] =
             IF i <= Size THEN buffer[After(head, i - 1)] ELSE items[i - Size]
  <1>1. Capacity \in Nat \ {0} /\ Size \in 0 .. Capacity
        /\ Space \in 0 .. Capacity /\ Size + Space = Capacity
        BY SizeRange, CircularBufferAssumption
  <1>2. head \in 0 .. Capacity - 1 /\ tail \in 0 .. Capacity - 1
        BY DEF IndInv, TypeOK, Cell
  <1>. DEFINE c == After(head, i - 1)
  <1>3. /\ c \in 0 .. Capacity - 1
        /\ c = IF head + i - 1 < Capacity THEN head + i - 1
               ELSE head + i - 1 - Capacity
    <2>1. head \in Cell /\ i - 1 \in 0 .. Capacity
          BY <1>1, <1>2 DEF Cell
    <2>2. /\ After(head, i - 1) \in Cell
          /\ After(head, i - 1) = IF head + (i - 1) < Capacity
                                  THEN head + (i - 1)
                                  ELSE head + (i - 1) - Capacity
          BY <2>1, AfterWraps
    <2>. QED
          BY <1>1, <1>2, <2>2 DEF Cell
  <1>4. tail = IF head + Size < Capacity THEN head + Size
               ELSE head + Size - Capacity
        BY <1>1, <1>2, SizeRange, AfterWraps DEF Cell
  <1>5. Stored(items, n)[c] = IF Distance(tail, c) < n
                              THEN items[Distance(tail, c) + 1] ELSE buffer[c]
        BY <1>3 DEF Stored, Cell
  <1>. HIDE DEF c
  <1>6. CASE i <= Size
    <2>1. ~(Distance(tail, c) < n)
          BY <1>1, <1>2, <1>3, <1>4, <1>6 DEF Distance
    <2>. QED
          BY <1>5, <1>6, <2>1 DEF c
  <1>7. CASE i > Size
    <2>1. Distance(tail, c) = i - 1 - Size
          BY <1>1, <1>2, <1>3, <1>4, <1>7 DEF Distance
    <2>2. i - 1 - Size < n /\ ~(i <= Size) /\ i - 1 - Size + 1 = i - Size
          BY <1>1, <1>7
    <2>. QED
          BY <1>5, <2>1, <2>2 DEF c
  <1>. QED
        BY <1>1, <1>6, <1>7

\* What the storing operations do to the state.
LEMMA StoringKeeps ==
    ASSUME IndInv, NEW items \in Seq(Value), NEW n \in 0 .. Space,
           n <= Len(items), StoreAtTail(items, n)
    PROVE  /\ IndInv'
           /\ Size' = Size + n
           /\ Contents' = Contents \o SubSeq(items, 1, n)
           /\ result' = Fifo!Moved(n)
  <1>1. Capacity \in Nat \ {0} /\ Size \in 0 .. Capacity
        /\ Space \in 0 .. Capacity /\ Size + Space = Capacity
        BY SizeRange, CircularBufferAssumption
  <1>2. head \in 0 .. Capacity - 1 /\ tail \in 0 .. Capacity - 1
        /\ is_empty \in BOOLEAN /\ buffer \in [Cell -> Value]
        BY DEF IndInv, TypeOK, Cell
  <1>3. /\ tail' = IF tail + n < Capacity THEN tail + n ELSE tail + n - Capacity
        /\ tail' \in Cell
    <2>1. tail \in Cell /\ n \in 0 .. Capacity /\ tail' = After(tail, n)
          BY <1>1, <1>2 DEF StoreAtTail, Cell
    <2>. QED
          BY <2>1, AfterWraps
  <1>4. head' = head
        BY DEF StoreAtTail
  <1>5. /\ n = 0 => is_empty' = is_empty
        /\ n # 0 => is_empty' = FALSE
        BY <1>2 DEF StoreAtTail, Filled
  <1>6. is_empty' \in BOOLEAN /\ FlagOK'
    <2>1. CASE n = 0
          BY <1>1, <1>2, <1>3, <1>4, <1>5, <2>1 DEF IndInv, FlagOK
    <2>2. CASE n # 0
          BY <1>5, <2>2 DEF FlagOK
    <2>. QED
          BY <2>1, <2>2
  <1>7. buffer' \in [Cell -> Value]
    <2>1. buffer' = Stored(items, n)
          BY DEF StoreAtTail
    <2>2. \A c \in Cell : Stored(items, n)[c] \in Value
      <3>. SUFFICES ASSUME NEW c \in Cell, Distance(tail, c) < n
                    PROVE  items[Distance(tail, c) + 1] \in Value
            BY <1>2 DEF Stored
      <3>1. Distance(tail, c) + 1 \in 1 .. Len(items)
            BY <1>1, <1>2, LenProperties DEF Distance, Cell
      <3>. QED
            BY <3>1, ElementOfSeq
    <2>3. Stored(items, n) = [c \in Cell |-> Stored(items, n)[c]]
          BY DEF Stored
    <2>. QED
          BY <2>1, <2>2, <2>3
  <1>8. result' = [size |-> n, items |-> <<>>]
        BY DEF StoreAtTail, Moved
  <1>9. IndInv'
    <2>1. <<>> \in Seq(Value) /\ n \in Nat
          BY <1>1, EmptySeq
    <2>. QED
          BY <1>2, <1>3, <1>4, <1>6, <1>7, <1>8, <2>1 DEF IndInv, TypeOK, Cell
  <1>10. Size' = Size + n
    <2>1. tail = IF head + Size < Capacity THEN head + Size
                 ELSE head + Size - Capacity
          BY <1>1, <1>2, SizeRange, AfterWraps DEF Cell
    <2>2. CASE n = 0
          BY <1>1, <1>2, <1>3, <1>4, <1>5, <2>2 DEF Size
    <2>3. CASE n # 0
          BY <1>1, <1>2, <1>3, <1>4, <1>5, <2>1, <2>3 DEF Size
    <2>. QED
          BY <2>2, <2>3
  <1>11. Contents' = Contents \o SubSeq(items, 1, n)
    <2>. DEFINE added == SubSeq(items, 1, n)
    <2>1. /\ added \in Seq(Value)
          /\ Len(added) = n
          /\ \A i \in 1 .. n : added[i] = items[i]
      <3>1. 0 \in 0 .. Len(items) /\ n \in 0 .. Len(items)
            BY <1>1, LenProperties
      <3>. QED
            BY <3>1, PieceOfSeq
    <2>. HIDE DEF added
    <2>2. /\ Contents \in Seq(Value)
          /\ Len(Contents) = Size
          /\ \A i \in 1 .. Size : Contents[i] = buffer[After(head, i - 1)]
          BY ContentsType
    <2>3. /\ Contents \o added \in Seq(Value)
          /\ Len(Contents \o added) = Size + n
          /\ \A i \in 1 .. Size + n : (Contents \o added)[i] =
               IF i <= Size THEN Contents[i] ELSE added[i - Size]
      <3>1. Contents \in Seq(Value) /\ added \in Seq(Value)
            BY <2>1, <2>2
      <3>2. /\ Contents \o added \in Seq(Value)
            /\ Len(Contents \o added) = Len(Contents) + Len(added)
            /\ \A i \in 1 .. Len(Contents) + Len(added) :
                 (Contents \o added)[i] = IF i <= Len(Contents)
                   THEN Contents[i] ELSE added[i - Len(Contents)]
            BY <3>1, ConcatProperties
      <3>3. Len(Contents) = Size /\ Len(added) = n
            BY <2>1, <2>2
      <3>. QED
            BY <3>2, <3>3
    <2>4. Contents' = [i \in 1 .. Size + n |-> Stored(items, n)[After(head, i - 1)]]
          BY <1>4, <1>10 DEF Contents, At, After, StoreAtTail
    <2>5. \A i \in 1 .. Size + n :
            Stored(items, n)[After(head, i - 1)] = (Contents \o added)[i]
      <3>. SUFFICES ASSUME NEW i \in 1 .. Size + n
                    PROVE  Stored(items, n)[After(head, i - 1)]
                             = (Contents \o added)[i]
            OBVIOUS
      <3>1. Stored(items, n)[After(head, i - 1)] =
              IF i <= Size THEN buffer[After(head, i - 1)] ELSE items[i - Size]
            BY StoredCells
      <3>2. CASE i <= Size
        <4>1. i \in 1 .. Size
              BY <1>1, <3>2
        <4>. QED
              BY <2>2, <2>3, <3>1, <3>2, <4>1
      <3>3. CASE ~(i <= Size)
        <4>1. i - Size \in 1 .. n
              BY <1>1, <3>3
        <4>. QED
              BY <2>1, <2>3, <3>1, <3>3, <4>1
      <3>. QED
            BY <3>2, <3>3
    <2>6. Contents \o added = [i \in 1 .. Size + n |-> (Contents \o added)[i]]
          BY <2>3, LenProperties
    <2>. QED
          BY <2>4, <2>5, <2>6 DEF added
  <1>. QED
        BY <1>8, <1>9, <1>10, <1>11 DEF Fifo!Moved

\* What the removing operations do to the state.
LEMMA RemovingKeeps ==
    ASSUME IndInv, NEW n \in 0 .. Size, Remove(n),
           result' \in [size: Nat, items: Seq(Value)]
    PROVE  /\ IndInv'
           /\ Size' = Size - n
           /\ Contents' = SubSeq(Contents, n + 1, Size)
  <1>1. Capacity \in Nat \ {0} /\ Size \in 0 .. Capacity
        /\ (is_empty <=> Size = 0)
        BY SizeRange, CircularBufferAssumption
  <1>2. head \in 0 .. Capacity - 1 /\ tail \in 0 .. Capacity - 1
        /\ is_empty \in BOOLEAN /\ buffer \in [Cell -> Value]
        BY DEF IndInv, TypeOK, Cell
  <1>3. /\ head' = IF head + n < Capacity THEN head + n ELSE head + n - Capacity
        /\ head' \in Cell
    <2>1. head \in Cell /\ n \in 0 .. Capacity /\ head' = After(head, n)
          BY <1>1, <1>2 DEF Remove, Cell
    <2>. QED
          BY <2>1, AfterWraps
  <1>4. tail' = tail /\ buffer' = buffer
        BY DEF Remove
  <1>5. tail = IF head + Size < Capacity THEN head + Size
               ELSE head + Size - Capacity
        BY <1>1, <1>2, SizeRange, AfterWraps DEF Cell
  <1>6. /\ n = Size => is_empty' = TRUE
        /\ n # Size => is_empty' = FALSE
    <2>1. is_empty' = (is_empty \/ n = Size)
          BY DEF Remove, Emptied
    <2>2. CASE n = Size
          BY <2>1, <2>2
    <2>3. CASE n # Size
      <3>1. ~is_empty
            BY <1>1, <2>3
      <3>. QED
            BY <2>1, <2>3, <3>1
    <2>. QED
          BY <2>2, <2>3
  <1>7. n = Size => head' = tail'
        BY <1>1, <1>2, <1>3, <1>4, <1>5
  <1>8. IndInv'
    <2>1. is_empty' \in BOOLEAN /\ FlagOK'
          BY <1>6, <1>7 DEF FlagOK
    <2>. QED
          BY <1>2, <1>3, <1>4, <2>1 DEF IndInv, TypeOK, Cell
  <1>9. Size' = Size - n
    <2>1. CASE n = Size
          BY <1>1, <1>6, <1>7, <2>1 DEF Size
    <2>2. CASE n # Size
          BY <1>1, <1>2, <1>3, <1>4, <1>5, <1>6, <2>2 DEF Size
    <2>. QED
          BY <2>1, <2>2
  <1>10. Contents' = SubSeq(Contents, n + 1, Size)
    <2>. DEFINE left == SubSeq(Contents, n + 1, Size)
    <2>1. /\ Contents \in Seq(Value)
          /\ Len(Contents) = Size
          /\ \A i \in 1 .. Size : Contents[i] = buffer[After(head, i - 1)]
          BY ContentsType
    <2>2. /\ left \in Seq(Value)
          /\ Len(left) = Size - n
          /\ \A i \in 1 .. Size - n : left[i] = Contents[n + i]
      <3>1. n \in 0 .. Len(Contents) /\ Size \in n .. Len(Contents)
            BY <1>1, <2>1
      <3>. QED
            BY <2>1, <3>1, PieceOfSeq
    <2>. HIDE DEF left
    <2>3. Contents' = [i \in 1 .. Size - n |-> buffer[After(head', i - 1)]]
          BY <1>4, <1>9 DEF Contents, At, After
    <2>4. \A i \in 1 .. Size - n : buffer[After(head', i - 1)] = left[i]
      <3>. SUFFICES ASSUME NEW i \in 1 .. Size - n
                    PROVE  buffer[After(head', i - 1)] = left[i]
            OBVIOUS
      <3>1. n + i \in 1 .. Size /\ n + i - 1 \in 0 .. Capacity
            /\ i - 1 \in 0 .. Capacity
            BY <1>1
      <3>2. /\ After(head', i - 1) = IF head' + (i - 1) < Capacity
                                     THEN head' + (i - 1)
                                     ELSE head' + (i - 1) - Capacity
            /\ After(head, n + i - 1) = IF head + (n + i - 1) < Capacity
                                        THEN head + (n + i - 1)
                                        ELSE head + (n + i - 1) - Capacity
            BY <1>2, <1>3, <3>1, AfterWraps DEF Cell
      <3>3. After(head', i - 1) = After(head, n + i - 1)
            BY <1>1, <1>2, <1>3, <3>1, <3>2
      <3>. QED
            BY <2>1, <2>2, <3>1, <3>3
    <2>5. left = [i \in 1 .. Size - n |-> left[i]]
          BY <2>2, LenProperties
    <2>. QED
          BY <2>3, <2>4, <2>5 DEF left
  <1>. QED
        BY <1>8, <1>9, <1>10

-----------------------------------------------------------------------------
(***************************************************************************)
(* Every step keeps the invariant and is a step of the queue               *)
(***************************************************************************)

\* The items that an operation is called with are a sequence.
LEMMA ItemsType ==
    ASSUME NEW items \in Items
    PROVE  items \in Seq(Value) /\ Len(items) \in Request
           /\ items \in Fifo!Items
  <1>1. PICK n \in Request : items \in [1 .. n -> Value]
        BY DEF Items
  <1>2. n \in Nat
        BY CircularBufferAssumption
  <1>3. items \in Fifo!Items
        BY <1>1 DEF Fifo!Items
  <1>. QED
        BY <1>1, <1>2, <1>3

LEMMA InitEstablishes ==
    ASSUME Init
    PROVE  IndInv /\ Fifo!Init
  <1>1. Capacity \in Nat \ {0}
        BY CircularBufferAssumption
  <1>2. IndInv
    <2>1. <<>> \in Seq(Value) /\ 0 \in Cell
          BY <1>1, EmptySeq DEF Cell
    <2>. QED
          BY <2>1 DEF Init, IndInv, TypeOK, FlagOK, Moved
  <1>3. Contents = <<>>
    <2>1. Len(Contents) = 0 /\ Contents \in Seq(Value)
          BY <1>2, ContentsType DEF Init, Size
    <2>. QED
          BY <2>1, EmptySeq
  <1>. QED
        BY <1>2, <1>3 DEF Init, Fifo!Init, Moved, Fifo!Moved

\* push(items, size), and push(item) while there is room.
LEMMA PushIsPush ==
    ASSUME IndInv, NEW items \in Seq(Value),
           StoreAtTail(items, Lesser(Space, Len(items)))
    PROVE  IndInv' /\ Fifo!Push(items)
  <1>. DEFINE n == Lesser(Space, Len(items))
  <1>1. Capacity \in Nat \ {0} /\ Space \in 0 .. Capacity
        /\ Size \in 0 .. Capacity /\ Size + Space = Capacity
        /\ Len(items) \in Nat
        BY SizeRange, CircularBufferAssumption, LenProperties
  <1>2. n \in 0 .. Space /\ n <= Len(items) /\ (n < Len(items) => n = Space)
        BY <1>1 DEF Lesser
  <1>. HIDE DEF n
  <1>3. StoreAtTail(items, n)
        BY DEF n
  <1>4. /\ IndInv'
        /\ Contents' = Contents \o SubSeq(items, 1, n)
        /\ result' = Fifo!Moved(n)
        BY <1>2, <1>3, StoringKeeps
  <1>5. Len(Contents) = Size
        BY ContentsType
  <1>6. n \in 0 .. Len(items) /\ Len(Contents) + n <= Capacity
        /\ (n < Len(items) => Len(Contents) + n = Capacity)
        BY <1>1, <1>2, <1>5
  <1>. QED
        BY <1>4, <1>6 DEF Fifo!Push

LEMMA PushOneIsPush ==
    ASSUME IndInv, NEW item \in Value, PushOne(item)
    PROVE  IndInv' /\ Fifo!Push(<<item>>)
  <1>1. <<item>> \in Seq(Value) /\ Len(<<item>>) = 1
        OBVIOUS
  <1>2. Capacity \in Nat \ {0} /\ Space \in 0 .. Capacity
        /\ Size \in 0 .. Capacity /\ Size + Space = Capacity
        /\ (is_empty <=> Size = 0)
        BY SizeRange, CircularBufferAssumption
  <1>3. head \in 0 .. Capacity - 1 /\ tail \in 0 .. Capacity - 1
        BY DEF IndInv, TypeOK, Cell
  <1>4. CASE is_empty \/ tail # head
    <2>1. Size # Capacity
      <3>1. CASE is_empty
            BY <1>2, <3>1
      <3>2. CASE tail # head
            BY <1>2, <1>3, <3>2 DEF Size
      <3>. QED
            BY <1>4, <3>1, <3>2
    <2>2. Lesser(Space, Len(<<item>>)) = 1
          BY <1>1, <1>2, <2>1 DEF Lesser
    <2>3. StoreAtTail(<<item>>, 1)
          BY <1>4 DEF PushOne
    <2>. QED
          BY <1>1, <2>2, <2>3, PushIsPush
  <1>5. CASE ~(is_empty \/ tail # head)
    <2>1. Size = Capacity
          BY <1>5 DEF Size
    <2>2. UNCHANGED <<is_empty, head, tail, buffer>> /\ result' = Moved(0)
          BY <1>5 DEF PushOne
    <2>3. Contents' = Contents
          BY <2>2 DEF Contents, Size, At, After
    <2>4. /\ Contents \in Seq(Value)
          /\ Len(Contents) = Capacity
          BY <2>1, ContentsType
    <2>5. Contents \o SubSeq(<<item>>, 1, 0) = Contents
      <3>1. SubSeq(<<item>>, 1, 0) = <<>>
            BY SubSeqEmpty
      <3>. QED
            BY <2>4, <3>1, ConcatEmptySeq
    <2>6. IndInv'
      <3>1. <<>> \in Seq(Value)
            BY EmptySeq
      <3>. QED
            BY <2>2, <3>1 DEF IndInv, TypeOK, FlagOK, Moved
    <2>7. 0 \in 0 .. Len(<<item>>) /\ Len(Contents) + 0 <= Capacity
          /\ Len(Contents) + 0 = Capacity
          BY <1>1, <1>2, <2>4
    <2>. QED
          BY <2>2, <2>3, <2>5, <2>6, <2>7 DEF Fifo!Push, Moved, Fifo!Moved
  <1>. QED
        BY <1>4, <1>5

\* What is granted reaches at most to the end of the buffer, and is nothing
\* only if nothing was asked for.
LEMMA ReservedRange ==
    ASSUME IndInv, NEW cell \in Cell, NEW size \in Nat
    PROVE  /\ Reserved(cell, size) = Lesser(size, Capacity - cell)
           /\ Reserved(cell, size) \in 0 .. size
           /\ cell + Reserved(cell, size) <= Capacity
           /\ Reserved(cell, size) = 0 => size = 0
  <1>1. Capacity \in Nat \ {0} /\ cell \in 0 .. Capacity - 1
        BY CircularBufferAssumption DEF Cell
  <1>. QED
        BY <1>1 DEF Reserved, Lesser

LEMMA ReserveIsReserve ==
    ASSUME IndInv, NEW items \in Seq(Value), Reserve(items)
    PROVE  IndInv' /\ Fifo!Reserve(items)
  <1>. DEFINE n == Reserved(tail, Len(items))
  <1>1. Capacity \in Nat \ {0} /\ Space \in 0 .. Capacity
        /\ Size \in 0 .. Capacity /\ Size + Space = Capacity
        /\ Len(items) \in Nat /\ Len(items) <= Space
        BY SizeRange, CircularBufferAssumption, LenProperties DEF Reserve
  <1>2. tail \in Cell
        BY DEF IndInv, TypeOK
  <1>3. n \in 0 .. Len(items) /\ (n = 0 => Len(items) = 0)
        BY <1>1, <1>2, ReservedRange
  <1>. HIDE DEF n
  <1>4. StoreAtTail(items, n)
        BY DEF Reserve, n
  <1>5. n \in 0 .. Space /\ n <= Len(items)
        BY <1>1, <1>3
  <1>6. /\ IndInv'
        /\ Contents' = Contents \o SubSeq(items, 1, n)
        /\ result' = Fifo!Moved(n)
        BY <1>4, <1>5, StoringKeeps
  <1>7. Len(Contents) + n <= Capacity
        BY <1>1, <1>5, ContentsType
  <1>. QED
        BY <1>3, <1>6, <1>7 DEF Fifo!Reserve

LEMMA RemovedIsLesser ==
    ASSUME IndInv, NEW size \in Nat
    PROVE  /\ Fifo!Removed(size) = Lesser(Size, size)
           /\ Lesser(Size, size) \in 0 .. Size
  <1>1. Capacity \in Nat \ {0} /\ Size \in 0 .. Capacity
        BY SizeRange, CircularBufferAssumption
  <1>2. Len(Contents) = Size
        BY ContentsType
  <1>. QED
        BY <1>1, <1>2 DEF Fifo!Removed, Lesser

LEMMA DropIsDrop ==
    ASSUME IndInv, NEW size \in Request, Drop(size)
    PROVE  IndInv' /\ Fifo!Drop(size)
  <1>. DEFINE n == Lesser(Size, size)
  <1>1. size \in Nat
        BY CircularBufferAssumption
  <1>2. n \in 0 .. Size /\ n = Fifo!Removed(size)
        BY <1>1, RemovedIsLesser
  <1>. HIDE DEF n
  <1>3. Remove(n) /\ result' = Moved(n)
        BY DEF Drop, n
  <1>4. result' \in [size: Nat, items: Seq(Value)]
    <2>1. n \in Nat /\ <<>> \in Seq(Value)
      <3>1. Size \in 0 .. Capacity /\ Capacity \in Nat
            BY SizeRange, CircularBufferAssumption
      <3>. QED
            BY <1>2, <3>1, EmptySeq
    <2>. QED
          BY <1>3, <2>1 DEF Moved
  <1>5. IndInv' /\ Contents' = SubSeq(Contents, n + 1, Size)
        BY <1>2, <1>3, <1>4, RemovingKeeps
  <1>6. Len(Contents) = Size
        BY ContentsType
  <1>. QED
        BY <1>2, <1>3, <1>5, <1>6
        DEF Fifo!Drop, Fifo!Remaining, Moved, Fifo!Moved

LEMMA PopIsPop ==
    ASSUME IndInv, NEW size \in Request, Pop(size)
    PROVE  IndInv' /\ Fifo!Pop(size)
  <1>. DEFINE n == Lesser(Size, size)
  <1>1. size \in Nat
        BY CircularBufferAssumption
  <1>2. n \in 0 .. Size /\ n = Fifo!Removed(size)
        BY <1>1, RemovedIsLesser
  <1>. HIDE DEF n
  <1>3. Remove(n)
        /\ result' = [size |-> n, items |-> [i \in 1 .. n |-> At(i - 1)]]
        BY DEF Pop, n
  <1>4. Size \in 0 .. Capacity /\ Capacity \in Nat
        BY SizeRange, CircularBufferAssumption
  <1>5. /\ Contents \in Seq(Value)
        /\ Len(Contents) = Size
        /\ \A i \in 1 .. Size : Contents[i] = At(i - 1)
        BY ContentsType DEF At
  <1>. DEFINE handed == SubSeq(Contents, 1, n)
  <1>6. /\ handed \in Seq(Value)
        /\ Len(handed) = n
        /\ \A i \in 1 .. n : handed[i] = Contents[i]
    <2>1. 0 \in 0 .. Len(Contents) /\ n \in 0 .. Len(Contents)
          BY <1>2, <1>4, <1>5
    <2>. QED
          BY <1>5, <2>1, PieceOfSeq
  <1>. HIDE DEF handed
  <1>7. [i \in 1 .. n |-> At(i - 1)] = handed
    <2>1. \A i \in 1 .. n : At(i - 1) = handed[i]
          BY <1>2, <1>4, <1>5, <1>6
    <2>2. handed = [i \in 1 .. n |-> handed[i]]
          BY <1>6, LenProperties
    <2>. QED
          BY <2>1, <2>2
  <1>8. result' = [size |-> n, items |-> handed] /\ n \in Nat
    <2>1. n \in Nat
          BY <1>2, <1>4
    <2>. QED
          BY <1>3, <1>7, <2>1, Zenon
  <1>9. IndInv' /\ Contents' = SubSeq(Contents, n + 1, Size)
        BY <1>2, <1>3, <1>6, <1>8, RemovingKeeps
  <1>. QED
        BY <1>2, <1>5, <1>8, <1>9 DEF Fifo!Pop, Fifo!Remaining, handed

\* Clearing and copying.
LEMMA ClearIsClear ==
    ASSUME IndInv, Clear
    PROVE  IndInv' /\ Fifo!Clear
  <1>1. 0 \in Cell
        BY CircularBufferAssumption DEF Cell
  <1>2. IndInv'
        BY <1>1 DEF Clear, IndInv, TypeOK, FlagOK
  <1>3. Size' = 0
        BY DEF Clear, Size
  <1>4. Contents' = [i \in 1 .. 0 |-> At(i - 1)']
        BY <1>3 DEF Contents
  <1>5. Contents' = <<>>
        BY <1>4
  <1>. QED
        BY <1>2, <1>5 DEF Clear, Fifo!Clear

LEMMA CopyIsStutter ==
    ASSUME IndInv, Copy
    PROVE  IndInv' /\ UNCHANGED Fifo!vars
  <1>1. PICK memory \in [Cell -> Value] :
          buffer' = [c \in Cell |-> IF Distance(head, c) < Size THEN buffer[c]
                                                                ELSE memory[c]]
        BY DEF Copy
  <1>2. Size' = Size
        BY DEF Copy, Size
  <1>3. Capacity \in Nat \ {0} /\ Size \in 0 .. Capacity
        /\ head \in 0 .. Capacity - 1
        BY SizeRange, CircularBufferAssumption DEF IndInv, TypeOK, Cell
  <1>4. IndInv'
    <2>1. buffer' \in [Cell -> Value]
          BY <1>1 DEF IndInv, TypeOK
    <2>. QED
          BY <2>1 DEF Copy, IndInv, TypeOK, FlagOK
  <1>5. \A i \in 1 .. Size : buffer'[After(head, i - 1)]
                               = buffer[After(head, i - 1)]
    <2>. SUFFICES ASSUME NEW i \in 1 .. Size
                  PROVE  buffer'[After(head, i - 1)]
                           = buffer[After(head, i - 1)]
          OBVIOUS
    <2>1. /\ After(head, i - 1) \in 0 .. Capacity - 1
          /\ After(head, i - 1) = IF head + (i - 1) < Capacity
                                  THEN head + (i - 1)
                                  ELSE head + (i - 1) - Capacity
      <3>1. head \in Cell /\ i - 1 \in 0 .. Capacity
            BY <1>3 DEF Cell
      <3>. QED
            BY <3>1, AfterWraps DEF Cell
    <2>2. Distance(head, After(head, i - 1)) < Size
          BY <1>3, <2>1 DEF Distance
    <2>. QED
          BY <1>1, <2>1, <2>2 DEF Cell
  <1>6. Contents' = [i \in 1 .. Size |-> buffer'[After(head, i - 1)]]
        BY <1>2 DEF Copy, Contents, At, After
  <1>7. Contents' = Contents
        BY <1>5, <1>6 DEF Contents, At
  <1>. QED
        BY <1>4, <1>7 DEF Copy, Fifo!vars

LEMMA NextPreserves ==
    ASSUME IndInv, [Next]_vars
    PROVE  IndInv' /\ [Fifo!Next]_(Fifo!vars)
  <1>1. CASE UNCHANGED vars
    <2>1. IndInv'
          BY <1>1 DEF vars, IndInv, TypeOK, FlagOK
    <2>2. UNCHANGED Fifo!vars
          BY <1>1 DEF vars, Fifo!vars, Contents, Size, At, After
    <2>. QED
          BY <2>1, <2>2
  <1>2. ASSUME NEW item \in Value, PushOne(item)
        PROVE  IndInv' /\ Fifo!Next
    <2>1. <<item>> \in Fifo!Items
          BY DEF Fifo!Items
    <2>. QED
          BY <1>2, <2>1, PushOneIsPush DEF Fifo!Next
  <1>3. ASSUME NEW items \in Items, Push(items)
        PROVE  IndInv' /\ Fifo!Next
        BY <1>3, ItemsType, PushIsPush DEF Push, Fifo!Next
  <1>4. ASSUME NEW items \in Items, Reserve(items)
        PROVE  IndInv' /\ Fifo!Next
        BY <1>4, ItemsType, ReserveIsReserve DEF Fifo!Next
  <1>5. ASSUME NEW size \in Request, Pop(size)
        PROVE  IndInv' /\ Fifo!Next
        BY <1>5, PopIsPop DEF Fifo!Next
  <1>6. ASSUME NEW size \in Request, Drop(size)
        PROVE  IndInv' /\ Fifo!Next
        BY <1>6, DropIsDrop DEF Fifo!Next
  <1>7. CASE Clear
        BY <1>7, ClearIsClear DEF Fifo!Next
  <1>8. CASE Copy
        BY <1>8, CopyIsStutter
  <1>. QED
        BY <1>1, <1>2, <1>3, <1>4, <1>5, <1>6, <1>7, <1>8 DEF Next

-----------------------------------------------------------------------------
(***************************************************************************)
(* The flag and the positions never contradict each other.                 *)
(***************************************************************************)
THEOREM Invariance == Spec => []IndInv
  <1>1. Init => IndInv
        BY InitEstablishes
  <1>2. IndInv /\ [Next]_vars => IndInv'
        BY NextPreserves
  <1>. QED
        BY <1>1, <1>2, PTL DEF Spec

(***************************************************************************)
(* The variables keep their types: no operation leaves head_ or tail_ out  *)
(* of the buffer.                                                          *)
(***************************************************************************)
THEOREM TypeCorrect == Spec => []TypeOK
  <1>1. IndInv => TypeOK
        BY DEF IndInv
  <1>. QED
        BY <1>1, Invariance, PTL

(***************************************************************************)
(* empty() and get_size() agree after any sequence of operations.          *)
(***************************************************************************)
THEOREM EmptyAgreesWithSize == Spec => []EmptyMeansSizeZero
  <1>1. IndInv => EmptyMeansSizeZero
        BY SizeRange DEF EmptyMeansSizeZero
  <1>. QED
        BY <1>1, Invariance, PTL

(***************************************************************************)
(* Two calls of reserve, the way read_data makes them, grant all that fits.*)
(***************************************************************************)
THEOREM TwoPiecesSuffice == Spec => []TwoReservesSuffice
  <1>1. IndInv => TwoReservesSuffice
    <2>. SUFFICES ASSUME IndInv, NEW size \in 0 .. Space
                  PROVE  LET first  == Reserved(tail, size)
                             second == Reserved(After(tail, first), size - first)
                         IN  /\ first + second = size
                             /\ tail + first <= Capacity
                             /\ After(tail, first) + second <= Capacity
          BY DEF TwoReservesSuffice
    <2>. DEFINE first == Reserved(tail, size)
    <2>1. Capacity \in Nat \ {0} /\ tail \in 0 .. Capacity - 1
          /\ size \in 0 .. Capacity
          BY SizeRange, CircularBufferAssumption DEF IndInv, TypeOK, Cell
    <2>2. /\ first = Lesser(size, Capacity - tail)
          /\ first \in 0 .. size
          /\ tail + first <= Capacity
          BY <2>1, ReservedRange DEF Cell
    <2>3. /\ After(tail, first) \in 0 .. Capacity - 1
          /\ After(tail, first) = IF tail + first < Capacity THEN tail + first
                                  ELSE tail + first - Capacity
      <3>1. tail \in Cell /\ first \in 0 .. Capacity
            BY <2>1, <2>2 DEF Cell
      <3>. QED
            BY <3>1, AfterWraps DEF Cell
    <2>. DEFINE second == Reserved(After(tail, first), size - first)
    <2>4. /\ second = Lesser(size - first, Capacity - After(tail, first))
          /\ After(tail, first) + second <= Capacity
      <3>1. After(tail, first) \in Cell /\ size - first \in Nat
            BY <2>1, <2>2, <2>3 DEF Cell
      <3>. QED
            BY <3>1, ReservedRange
    <2>. HIDE DEF first, second
    <2>5. first + second = size
          BY <2>1, <2>2, <2>3, <2>4 DEF Lesser
    <2>. QED
          BY <2>2, <2>4, <2>5 DEF first, second
  <1>. QED
        BY <1>1, Invariance, PTL

(***************************************************************************)
(* The circular buffer is a bounded first-in first-out queue.              *)
(***************************************************************************)
THEOREM FifoImplemented == Spec => ImplementsFifo
  <1>1. Init => Fifo!Init
        BY InitEstablishes
  <1>2. IndInv /\ [Next]_vars => [Fifo!Next]_(Fifo!vars)
        BY NextPreserves
  <1>. QED
        BY <1>1, <1>2, Invariance, PTL DEF Spec, Fifo!Spec, ImplementsFifo
=============================================================================
