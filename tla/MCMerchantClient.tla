---------------------------- MODULE MCMerchantClient ----------------------------
(* An instance of MerchantClient for TLC. *)
EXTENDS MerchantClient
=============================================================================
