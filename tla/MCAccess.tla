------------------------------ MODULE MCAccess ------------------------------
(* Small instances of Access. *)
EXTENDS Access, TLC

\* No password and no tier is told apart by the code.
Symmetry ==
    Permutations(Clients) \cup Permutations(Passwords) \cup Permutations(Tiers)
=============================================================================
