---------------------------- MODULE MCTaskSystem ----------------------------
(* TaskSystem for TLC: model values and their symmetries. *)
EXTENDS TaskSystem, TLC

Symmetry ==
    UNION {Permutations(Tasks), Permutations(Workers), Permutations(Handlers),
           Permutations(Sessions \ UserSessions)}

=============================================================================
