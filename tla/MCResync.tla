------------------------------ MODULE MCResync ------------------------------
(***************************************************************************)
(* Resync for TLC: the addresses are interchangeable (no property names    *)
(* one), and so are the write handlers.                                    *)
(***************************************************************************)
EXTENDS Resync, TLC

Symmetry == Permutations(Address) \union Permutations(Writer)
=============================================================================
