----------------------------- MODULE MCSessions -----------------------------
(* Instance of Sessions for TLC.                                           *)
EXTENDS Sessions, TLC

MCSymmetry ==
    Permutations(Names) \cup Permutations(Passwords) \cup Permutations(Browsers)
        \cup Permutations(Calls)
=============================================================================
