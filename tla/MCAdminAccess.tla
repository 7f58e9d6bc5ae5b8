---------------------------- MODULE MCAdminAccess ----------------------------
(* The access run: all settings given by flags or none, and symmetry. *)
EXTENDS AdminAccess, TLC

MCFlags == {[f \in Settings |-> x] : x \in {Empty, "flag"}}

MCSymmetry ==
    Permutations(Requests) \cup Permutations(Clients)
        \cup Permutations(Sessions) \cup Permutations(Tokens)

=============================================================================
