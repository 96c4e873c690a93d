---------------------------- MODULE MCWalletDb ----------------------------
(* One password, since no property tells passwords apart from the object    *)
(* they are in; a look-ahead of two positions instead of ten; the three     *)
(* keys of one creation, over up to two keys already in use; one abort,     *)
(* load or throw.                                                           *)
EXTENDS WalletDb
=============================================================================
