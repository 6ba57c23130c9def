--------------------------- MODULE MCModelGroups ---------------------------
(* Instance of ModelGroups for TLC: the forms administrators submit.       *)
EXTENDS ModelGroups, TLC

Group(name, strategy, models) ==
    [name |-> name, enabled |-> TRUE, models |-> models, strategy |-> strategy]

\* Two names; lists of two lengths for one of them, once in a disabled group.
MCForms == {Group("a", "round_robin", 3), Group("b", "failover", 1),
            [Group("a", "round_robin", 1) EXCEPT !.enabled = FALSE]}

MCSymmetry == Permutations(Admins) \cup Permutations(Requests)
=============================================================================
