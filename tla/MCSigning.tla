----------------------------- MODULE MCSigning ------------------------------
(* Model checking of the signing pipeline: an import and a transfer          *)
(* with at most one broadcast; the cross-talk of broadcasts is the subject   *)
(* of MCTxConfirm.                                                           *)
EXTENDS Signing
=============================================================================
