--------------------------- MODULE MCWeatherServer ---------------------------
(* Small instances of WeatherServer for TLC.                                *)
EXTENDS WeatherServer, TLC

CONSTANTS c1, c2

OneConn == {c1}
TwoConns == {c1, c2}

MCContexts == Conns \cup {HTTPServer, TCPServer}

(* Connections differ in nothing but their name.                            *)
Symmetric == Permutations(Conns)

Request(hdr, kind) == [hdr |-> hdr, kind |-> kind]

(* One request of every outcome; 3 is HeaderMax + 1, 4 is RecvCap + 1.      *)
AllRequests ==
  {Request(2, kind) : kind \in Kinds} \cup {Request(3, "route"), Request(4, "route")}

(* The server treats a POST as it treats any header it refuses.             *)
DistinctRequests == {r \in AllRequests : r.kind # "POST"}

OneRequest == {Request(1, "route")}

=============================================================================
