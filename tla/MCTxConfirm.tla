---------------------------- MODULE MCTxConfirm -----------------------------
(* Two transactions and three broadcasts: one transaction answered while the *)
(* dialog shows the other, and one broadcast twice.                          *)
EXTENDS TxConfirm
=============================================================================
