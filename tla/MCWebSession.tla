------------------------------ MODULE MCWebSession -----------------------------
(* An instance of WebSession for TLC: the requests are alike.               *)
EXTENDS WebSession, TLC

MCSymmetry == Permutations(Requests)
================================================================================
