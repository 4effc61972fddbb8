--------------------------- MODULE MCMazeGenerator ---------------------------
(* An instance of MazeGenerator and MazeSolver for TLC. *)
EXTENDS MazeSolver

TwoKeys == <<"blue", "yellow">>
=============================================================================
