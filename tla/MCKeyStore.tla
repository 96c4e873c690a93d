---------------------------- MODULE MCKeyStore ----------------------------
(* Two keys, one of them also the cloud login's, and one import at a time.          *)
EXTENDS KeyStore
=============================================================================
