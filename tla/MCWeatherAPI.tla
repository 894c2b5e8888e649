---------------------------- MODULE MCWeatherAPI ----------------------------
(* Small instances of WeatherAPI for TLC.                                   *)
EXTENDS WeatherAPI

CONSTANTS stockholm, here

=============================================================================
