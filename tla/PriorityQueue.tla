--------------------------- MODULE PriorityQueue ---------------------------
(***************************************************************************)
(* PriorityQueueT: a binary heap of events, the earliest first.  Position 1 *)
(* of the sequence is mEvents[0]; the length is mSize, and the parent of a  *)
(* position is its half.  Both operations are a loop that moves a free      *)
(* position along a path of the tree and puts an event where it ends.       *)
(***************************************************************************)
EXTENDS Integers, SequencesExt

\* Where the loop of Add goes from the free position me, to percolate e up:
\* to the parent, or nowhere.
Up(heap, e) ==
    [me \in DOMAIN heap |->
        IF me > 1 /\ e.time < heap[me \div 2].time THEN me \div 2 ELSE me]

\* (faulty variant: the two children are not compared)
OnlyLeft(heap, left) == left

\* Where the loop of Remove goes to demote temp: to the earlier child, or
\* nowhere.
Earlier(heap, left) ==
    IF left + 1 <= Len(heap) /\ heap[left].time > heap[left + 1].time
    THEN left + 1 ELSE left
Down(heap, temp) ==
    [mom \in DOMAIN heap |->
        IF 2 * mom <= Len(heap) /\ temp.time > heap[Earlier(heap, 2 * mom)].time
        THEN Earlier(heap, 2 * mom) ELSE mom]

\* The positions that a loop from start is at, if next says where it goes.
Trail(next, start) ==
    {i \in DOMAIN next : \A S \in SUBSET DOMAIN next :
        start \in S /\ (\A j \in S : next[j] \in S) => i \in S}

\* What such a loop leaves: the events it has moved, and e at its end.
Sift(heap, next, start, e) ==
    LET trail == Trail(next, start) IN
    [i \in DOMAIN heap |->
        IF i \notin trail THEN heap[i]
        ELSE IF next[i] = i THEN e
        ELSE heap[next[i]]]

HeapAdd(heap, e) ==
    LET room == Append(heap, e) IN Sift(room, Up(room, e), Len(room), e)

HeapRemove(heap) ==
    LET rest == Front(heap)
        temp == Last(heap)
    IN IF rest = <<>> THEN <<>> ELSE Sift(rest, Down(rest, temp), 1, temp)
=============================================================================
