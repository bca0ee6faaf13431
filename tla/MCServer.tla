------------------------------ MODULE MCServer ------------------------------
(* One or two requests around a stop, a kill and a restart. *)
EXTENDS Server, TLC

CONSTANTS a, b, v

Symmetry == Permutations(Reqs)

Counter(k, d) == [id |-> k, mtype |-> "counter", delta |-> d, value |-> NULL]
Gauge(k, x)   == [id |-> k, mtype |-> "gauge", delta |-> NULL, value |-> x]
Request(kind, items) == [kind |-> kind, items |-> items, ip |-> FALSE]

MCSavers == Reqs \cup {Ticker, Main}

\* Two names, so that a restore has a middle.
TwoNames == {Request("url", <<Counter(a, 2)>>), Request("batch", <<Gauge(b, v), Counter(a, 1)>>)}
\* With an address, so that it is audited.
OneName  == {[Request("json", <<Counter(a, 1)>>) EXCEPT !.ip = TRUE]}
=============================================================================
