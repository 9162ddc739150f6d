---------------------------- MODULE MCGridKernel -----------------------------
(***************************************************************************)
(* Instances of GridKernel for TLC.                                        *)
(***************************************************************************)
EXTENDS GridKernel

CONSTANTS gridloop, gridsh, escape

\* gridloop is the small image; the others need two data pages.
MCDataNeed == [img \in Images |-> IF img = gridloop THEN 1 ELSE 2]
==============================================================================
