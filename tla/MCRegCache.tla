----------------------------- MODULE MCRegCache -----------------------------
(* Four registers of three values.                                         *)
EXTENDS RegCache
=============================================================================
