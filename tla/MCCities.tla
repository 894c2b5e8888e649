------------------------------ MODULE MCCities ------------------------------
(* A small instance of Cities for TLC.                                      *)
EXTENDS Cities

CONSTANTS lund, umea, latin1, copy

=============================================================================
