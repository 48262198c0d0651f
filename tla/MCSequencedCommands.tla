------------------------ MODULE MCSequencedCommands -------------------------
(* Three commands, among them completion messages and a /sync that may     *)
(* come first, between or last.                                            *)
EXTENDS SequencedCommands

AllKinds == {"sync", "done", "plugin"}
SomeKinds == {"sync", "done"}
=============================================================================
