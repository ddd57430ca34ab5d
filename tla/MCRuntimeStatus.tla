-------------------------- MODULE MCRuntimeStatus --------------------------
(* A small instance of RuntimeStatus for TLC. *)
EXTENDS RuntimeStatus

\* The clock advances, jumps beyond timeout and window, or is set back.
MCJumps == {1, 2, -2}
=============================================================================
