---------------------------- MODULE BoundedFifo ----------------------------
(***************************************************************************)
(* What the circular buffer promises: a queue of at most Capacity items    *)
(* that takes as much of what it is given as fits, gives back the oldest   *)
(* items first, and reports how many items an operation moved.             *)
(***************************************************************************)
EXTENDS Integers, Sequences

CONSTANTS
    Capacity,
    Value,
    Request     \* the numbers of items that may be asked for at once

VARIABLES
    contents,   \* the items, oldest first
    result      \* what the last operation returned and handed out

vars == <<contents, result>>

Moved(n) == [size |-> n, items |-> <<>>]

Init == contents = <<>> /\ result = Moved(0)

\* A prefix is taken; it is all of the items when they fit.
Push(items) ==
    \E n \in 0 .. Len(items) :
        /\ Len(contents) + n <= Capacity
        /\ n < Len(items) => Len(contents) + n = Capacity
        /\ contents' = contents \o SubSeq(items, 1, n)
        /\ result' = Moved(n)

\* Space for some of the items at least, which the caller fills.
Reserve(items) ==
    \E n \in 0 .. Len(items) :
        /\ Len(contents) + n <= Capacity
        /\ n = 0 => Len(items) = 0
        /\ contents' = contents \o SubSeq(items, 1, n)
        /\ result' = Moved(n)

Removed(size) == IF size < Len(contents) THEN size ELSE Len(contents)

Remaining(n) == SubSeq(contents, n + 1, Len(contents))

Pop(size) ==
    /\ contents' = Remaining(Removed(size))
    /\ result' = [size |-> Removed(size),
                  items |-> SubSeq(contents, 1, Removed(size))]

Drop(size) ==
    /\ contents' = Remaining(Removed(size))
    /\ result' = Moved(Removed(size))

Clear == contents' = <<>> /\ UNCHANGED result

Items == UNION {[1 .. n -> Value] : n \in Request}

Next ==
    \/ \E items \in Items : Push(items) \/ Reserve(items)
    \/ \E size \in Request : Pop(size) \/ Drop(size)
    \/ Clear

Spec == Init /\ [][Next]_vars

=============================================================================
