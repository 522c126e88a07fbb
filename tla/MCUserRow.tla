------------------------------ MODULE MCUserRow ------------------------------
(* Instances of UserRow for TLC. *)
EXTENDS UserRow, TLC

\* requests, and sockets, are interchangeable, and so are texts
Symmetry == Permutations(Request) \cup Permutations(Socket) \cup Permutations(Text)
=============================================================================
