-------------------------- MODULE MCComposedStack --------------------------
(* Two runs with one output directory, and three edits: enough to replace  *)
(* a file, put it back and replace another one.                            *)
EXTENDS ComposedStack
=============================================================================
