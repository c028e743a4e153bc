----------------------------- MODULE MCPrivacy ------------------------------
(* Small instances of Privacy for TLC.                                     *)
EXTENDS Privacy, TLC

=============================================================================
