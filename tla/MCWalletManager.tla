-------------------------- MODULE MCWalletManager ---------------------------
(* Two wallets, one of them the default.                                    *)
EXTENDS WalletManager

CONSTANTS w1, w2

MCWallets == {w1, w2}
=============================================================================
