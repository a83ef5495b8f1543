--------------------------- MODULE MCConsoleStream ---------------------------
(* Instances of the console stream for model checking. *)
EXTENDS ConsoleStream, TLC
=============================================================================
