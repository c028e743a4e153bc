---------------------------- MODULE MCPromotion -----------------------------
(* A small instance of Promotion, and of the Outbox under it, for TLC.     *)
EXTENDS Promotion
=============================================================================
