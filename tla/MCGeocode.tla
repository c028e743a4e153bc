----------------------------- MODULE MCGeocode ------------------------------
(* Small instances of Geocode for TLC.                                     *)
EXTENDS Geocode, TLC
=============================================================================
