-------------------------- MODULE MCPostgresServer --------------------------
(* Two requests around a stop, a kill and a restart, and a database that    *)
(* answers with a retriable code, another code, or not at all.              *)
EXTENDS PostgresServer, TLC

CONSTANTS a, b, v

Counter(k, d) == [id |-> k, mtype |-> "counter", delta |-> d, value |-> NULL]
Gauge(k, x)   == [id |-> k, mtype |-> "gauge", delta |-> NULL, value |-> x]

MCCodes  == {"40001", "23514"}
NoCodes    == {}
OneCounter == {<<Counter(a, 1)>>}
MCInputs == {<<Counter(a, 1)>>, <<Gauge(b, v), Counter(a, 2)>>}
=============================================================================
