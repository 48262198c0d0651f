------------------------------ MODULE MCMsgFifo ------------------------------
(* Bounds for MsgFifo: four slots, so that the cursors wrap and the fifo    *)
(* fills, and two socket threads competing for mDriverLock.                 *)
EXTENDS MsgFifo
CONSTANTS a, b, udp, tcp

MCMsg == {a, b}
MCProducers == {udp, tcp}
=============================================================================
