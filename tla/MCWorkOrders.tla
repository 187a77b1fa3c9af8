---------------------------- MODULE MCWorkOrders ----------------------------
(***************************************************************************)
(* Instances of WorkOrders for TLC.                                        *)
(***************************************************************************)
EXTENDS WorkOrders, TLC

CONSTANTS c1, c2

\* Children are interchangeable.
ChildSymmetry == Permutations(Children)
=============================================================================
