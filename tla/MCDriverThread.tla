--------------------------- MODULE MCDriverThread ---------------------------
(* The specification has no constants and finitely many states.            *)
EXTENDS DriverThread
=============================================================================
