---------------------------- MODULE MCSafetyAlert ----------------------------
(* Small instances of SafetyAlert for TLC.                                 *)
EXTENDS SafetyAlert, TLC

=============================================================================
