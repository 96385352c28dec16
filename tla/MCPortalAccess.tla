---------------------------- MODULE MCPortalAccess ----------------------------
(* Instances of PortalAccess for TLC. *)
EXTENDS PortalAccess, TLC

\* Nothing distinguishes the handlers.
Symmetry == Permutations(Handlers)
=============================================================================
