------------------------- MODULE MCOAuthAuthorization -------------------------
(* Instances of OAuthAuthorization for TLC. *)
EXTENDS OAuthAuthorization
=============================================================================
