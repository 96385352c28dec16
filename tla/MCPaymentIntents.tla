-------------------------- MODULE MCPaymentIntents --------------------------
(* Instances of PaymentIntents for TLC. *)
EXTENDS PaymentIntents, TLC

\* Nothing distinguishes the members of these sets.
Symmetry ==
  Permutations(IntentIds) \cup Permutations(Handlers) \cup
  Permutations(Keys) \cup Permutations(References) \cup
  Permutations(Services) \cup Permutations(Amounts)

AlikeHere == Permutations(Handlers) \cup Permutations(Challenges)
=============================================================================
