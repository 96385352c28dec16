-------------------------- MODULE MCServiceRegistry --------------------------
(* Instances of ServiceRegistry for TLC. *)
EXTENDS ServiceRegistry, TLC

\* Nothing distinguishes the members of these sets.
Symmetry ==
  Permutations(Applications) \cup Permutations(Services) \cup
  Permutations(Credentials) \cup Permutations(Handlers)
=============================================================================
