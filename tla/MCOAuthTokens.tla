---------------------------- MODULE MCOAuthTokens ----------------------------
(* Instances of OAuthTokens for TLC. *)
EXTENDS OAuthTokens, TLC

\* Nothing distinguishes the members of these sets.
Symmetry ==
  Permutations(Grants) \cup Permutations(Families) \cup
  Permutations(RefreshTokens) \cup Permutations(AccessTokens) \cup
  Permutations(Handlers) \cup Permutations(Services)
=============================================================================
