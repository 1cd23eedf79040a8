--------------------------- MODULE MCWalletCustody ---------------------------
(* Small instances of WalletCustody. *)
EXTENDS WalletCustody, TLC

CONSTANTS sat, usd

MCKeysets == {sat, usd}
MCFaults == {"proofs_write", "proofs_read", "keyset_read"}
MCAllFaults == FaultKinds
===============================================================================
