------------------------ MODULE MCSessionAdmission ------------------------
(* Instances of SessionAdmission for TLC.                                  *)
EXTENDS SessionAdmission

\* Connections are interchangeable: no definition names one.
Symmetry == Permutations(Sessions) \cup Permutations(Accounts)
===========================================================================
