--------------------------- MODULE MCWeatherClient ---------------------------
(* Small instances of WeatherClient for TLC.                                *)
EXTENDS WeatherClient

CONSTANTS stockholm

(* Coordinates as the sequences of their characters.                        *)
OnePlace == {<< <<5>>, <<1>> >>}

=============================================================================
