-------------------------- MODULE MCContextBudget ---------------------------
(***************************************************************************)
(* ContextBudget with two texts: one that no budget hurts, and one that    *)
(* half of the window cannot hold and that is cut in pieces of three.      *)
(***************************************************************************)
EXTENDS ContextBudget

MCCbTexts == {[size |-> 1, grain |-> 1], [size |-> 6, grain |-> 3]}
=============================================================================
