----------------------------- MODULE MCLruCache -----------------------------
(* Instance of LruCache for TLC: the symmetry of the model values.         *)
EXTENDS LruCache, TLC

MCSymmetry == Permutations(Keys) \cup Permutations(Values) \cup Permutations(Ids)
=============================================================================
