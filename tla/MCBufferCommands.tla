-------------------------- MODULE MCBufferCommands --------------------------
(* Up to four buffer commands, of which one may start with the completion  *)
(* message of another; the configurations choose which.                    *)
EXTENDS BufferCommands

CONSTANTS b1, b2
MCKinds == {"done"}
AllOps == {"alloc", "allocRead", "free", "gen", "copy", "zero", "read",
           "write", "close"}
FileOps == {"alloc", "write", "close", "gen"}
RateOps == {"alloc", "allocRead", "read"}
CopyOps == {"alloc", "copy"}
AllocOps == {"alloc", "free"}
=============================================================================
