--------------------------- MODULE MCModeration -----------------------------
(* A small instance of Moderation for TLC.                                 *)
EXTENDS Moderation
=============================================================================
