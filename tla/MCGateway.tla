----------------------------- MODULE MCGateway -----------------------------
(* Instance of Gateway for TLC: the symmetry of the requests.              *)
EXTENDS Gateway, TLC

MCSymmetry == Permutations(Requests)
=============================================================================
