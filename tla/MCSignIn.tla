------------------------------- MODULE MCSignIn -------------------------------
(* Instances of SignIn for TLC. *)
EXTENDS SignIn, TLC

\* requests are interchangeable; the other keys are taken in a fixed order
Symmetry == Permutations(Request)
=============================================================================
