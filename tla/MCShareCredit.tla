---------------------------- MODULE MCShareCredit -----------------------------
(***************************************************************************)
(* ShareCredit on small instances.  The connections are interchangeable    *)
(* model values.                                                           *)
(***************************************************************************)
EXTENDS ShareCredit, TLC

Symmetry == Permutations(Conns)
================================================================================
