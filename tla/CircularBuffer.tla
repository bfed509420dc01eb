--------------------------- MODULE CircularBuffer ---------------------------
(***************************************************************************)
(* CircularBuffer<T>: the ring in which the transport keeps received bytes *)
(* and on which the streams of the tests and tools are built.  head == tail*)
(* means either full or empty, and is_empty_ alone tells which.            *)
(*                                                                         *)
(* The assignment operator is left out: no code of the repository assigns  *)
(* a buffer.                                                               *)
(***************************************************************************)
EXTENDS Integers, Sequences

CONSTANTS
    Capacity,   \* capacity_, never less than CIRCULAR_BUFFER_MINIMUM_SIZE
    Value,      \* T
    Request     \* the sizes that operations are called with

ASSUME CircularBufferAssumption ==
    /\ Capacity \in Nat \ {0}
    /\ Request \subseteq Nat

VARIABLES
    is_empty,   \* is_empty_
    head,       \* head_
    tail,       \* tail_
    buffer,     \* buffer_
    result      \* what the last operation returned and handed out

vars == <<is_empty, head, tail, buffer, result>>

Cell == 0 .. Capacity - 1

Lesser(a, b) == IF a < b THEN a ELSE b

PastTheEnd(cell, n) == cell + n          \* mutant of After
After(cell, n) == (cell + n) % Capacity

\* get_size and get_space
Size ==
    IF tail = head
    THEN IF is_empty THEN 0 ELSE Capacity
    ELSE IF head < tail THEN tail - head ELSE Capacity - head + tail

Space == Capacity - Size

At(index) == buffer[After(head, index)]  \* operator[]

Moved(n) == [size |-> n, items |-> <<>>]

\* new T[capacity_] initialises nothing.
Init ==
    /\ is_empty = TRUE
    /\ head = 0
    /\ tail = 0
    /\ buffer \in [Cell -> Value]
    /\ result = Moved(0)

-----------------------------------------------------------------------------
\* The loop that stores n items from tail on.
Distance(from, to) == IF from <= to THEN to - from ELSE Capacity - from + to

Stored(items, n) ==
    [c \in Cell |-> IF Distance(tail, c) < n THEN items[Distance(tail, c) + 1]
                                             ELSE buffer[c]]

FlagKept(n) == UNCHANGED is_empty        \* mutant of Filled
Filled(n) == is_empty' = (is_empty /\ n = 0)

StoreAtTail(items, n) ==
    /\ buffer' = Stored(items, n)
    /\ tail' = After(tail, n)
    /\ Filled(n)
    /\ result' = Moved(n)
    /\ UNCHANGED head

\* push(item)
PushOne(item) ==
    IF is_empty \/ tail # head
    THEN StoreAtTail(<<item>>, 1)
    ELSE result' = Moved(0) /\ UNCHANGED <<is_empty, head, tail, buffer>>

\* push(items, size)
Push(items) == StoreAtTail(items, Lesser(Space, Len(items)))

\* What reserve grants: the cells from tail to the end of the buffer.  Where
\* the unread items begin is not looked at.
ReservedAll(cell, size) == size          \* mutant of Reserved
Reserved(cell, size) ==
    LET limit == IF head = 0 THEN Capacity ELSE 0 IN
    Lesser(size, IF limit > cell THEN limit - cell ELSE Capacity - cell)

\* reserve(size) and the caller's writes to the cells it got.  Its only
\* caller, read_data, asks for no more than there is space for.
Reserve(items) ==
    /\ Len(items) <= Space
    /\ StoreAtTail(items, Reserved(tail, Len(items)))

-----------------------------------------------------------------------------
\* Mutant of Emptied: the positions are compared instead of the sizes.
TailReached(n) == is_empty' = (is_empty \/ After(head, n) = tail)
Emptied(n) == is_empty' = (is_empty \/ n = Size)

Remove(n) ==
    /\ head' = After(head, n)
    /\ Emptied(n)
    /\ UNCHANGED <<tail, buffer>>

Pop(size) ==
    LET n == Lesser(Size, size) IN
    /\ Remove(n)
    /\ result' = [size |-> n, items |-> [i \in 1 .. n |-> At(i - 1)]]

Drop(size) ==
    LET n == Lesser(Size, size) IN
    /\ Remove(n)
    /\ result' = Moved(n)

Clear ==
    /\ is_empty' = TRUE
    /\ head' = 0
    /\ tail' = 0
    /\ UNCHANGED <<buffer, result>>

\* The copy constructor: the copy has the same items in the same cells, and
\* anything in the others.
Copy ==
    /\ \E memory \in [Cell -> Value] :
         buffer' = [c \in Cell |-> IF Distance(head, c) < Size THEN buffer[c]
                                                               ELSE memory[c]]
    /\ UNCHANGED <<is_empty, head, tail, result>>

Items == UNION {[1 .. n -> Value] : n \in Request}

Next ==
    \/ \E item \in Value : PushOne(item)
    \/ \E items \in Items : Push(items)
    \/ \E items \in Items : Reserve(items)
    \/ \E size \in Request : Pop(size)
    \/ \E size \in Request : Drop(size)
    \/ Clear
    \/ Copy

Spec == Init /\ [][Next]_vars

-----------------------------------------------------------------------------
(***************************************************************************)
(* Every variable has a value of its type.                                 *)
(***************************************************************************)
TypeOK ==
    /\ is_empty \in BOOLEAN
    /\ head \in Cell
    /\ tail \in Cell
    /\ buffer \in [Cell -> Value]
    /\ result \in [size: Nat, items: Seq(Value)]

(***************************************************************************)
(* empty(), which only reads the flag, and get_size(), which mostly does   *)
(* not, agree after any sequence of operations.                            *)
(***************************************************************************)
EmptyMeansSizeZero == is_empty <=> Size = 0

(***************************************************************************)
(* read_data reserves twice and fills what it got, trusting that whatever  *)
(* fits in the buffer fits in two pieces, wherever head and tail are.      *)
(***************************************************************************)
TwoReservesSuffice ==
    \A size \in 0 .. Space :
        LET first  == Reserved(tail, size)
            second == Reserved(After(tail, first), size - first)
        IN  /\ first + second = size
            /\ tail + first <= Capacity
            /\ After(tail, first) + second <= Capacity

(***************************************************************************)
(* The buffer is a bounded first-in first-out queue.                       *)
(***************************************************************************)
Contents == [i \in 1 .. Size |-> At(i - 1)]

Fifo == INSTANCE BoundedFifo WITH
            contents <- Contents, Request <- Request \union {1}

ImplementsFifo == Fifo!Spec

=============================================================================
