----------------------------- MODULE MCGridVault ------------------------------
(***************************************************************************)
(* Values for the instances of GridVault: a short one, which has no tail.  *)
(***************************************************************************)
EXTENDS GridVault

Short(n) == [front |-> n, tail |-> 0]

NoValue == {}
OneValue == {Short(1)}
==============================================================================
