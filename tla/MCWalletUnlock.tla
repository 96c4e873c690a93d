--------------------------- MODULE MCWalletUnlock ---------------------------
(* Model checking of the session with interchangeable callers.             *)
EXTENDS WalletUnlock, TLC

AnyCaller == Permutations(Requests)
=============================================================================
