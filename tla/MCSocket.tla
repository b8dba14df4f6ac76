------------------------------- MODULE MCSocket -------------------------------
(***************************************************************************)
(* An instance of Socket for TLC: texts of the lengths on both sides of the *)
(* two boundaries of the length encoding.                                  *)
(***************************************************************************)
EXTENDS Socket

Boundaries == {125, 126, 65535, 65536}
===============================================================================
