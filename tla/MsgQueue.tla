------------------------------ MODULE MsgQueue ------------------------------
(***************************************************************************)
(* What the message fifos between the audio thread and the other threads   *)
(* promise (include/common/MsgFifo.h): a bounded queue whose messages are   *)
(* performed by the consumer in the order they were accepted, each exactly  *)
(* once, and given back to the producer, in the same order, only after they *)
(* were performed.  A message that was performed but not yet reclaimed      *)
(* still takes up room.                                                     *)
(***************************************************************************)
EXTENDS Naturals, Sequences

CONSTANTS Msg,        \* the messages that can be written
          Capacity    \* how many messages the queue holds

VARIABLES pending,    \* accepted, not yet performed (oldest first)
          spent       \* performed, not yet reclaimed (oldest first)

qvars == <<pending, spent>>

Init == pending = <<>> /\ spent = <<>>

Put(m) == /\ Len(pending) + Len(spent) < Capacity
          /\ pending' = Append(pending, m)
          /\ UNCHANGED spent

PerformHead == /\ pending # <<>>
               /\ pending' = Tail(pending)
               /\ spent' = Append(spent, Head(pending))

Reclaim == /\ spent # <<>>
           /\ spent' = Tail(spent)
           /\ UNCHANGED pending

Next == (\E m \in Msg : Put(m)) \/ PerformHead \/ Reclaim

=============================================================================
