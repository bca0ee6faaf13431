-------------------------- MODULE MCMetricsService --------------------------
(* Inputs for the runs of MetricsService: one or two names, and of each    *)
(* kind of request the cases its handler tells apart.                      *)
EXTENDS MetricsService, TLC

CONSTANTS a, b, v, nan

Counter(k, d) == [id |-> k, mtype |-> "counter", delta |-> d, value |-> NULL]
Gauge(k, x)   == [id |-> k, mtype |-> "gauge", delta |-> NULL, value |-> x]
\* A JSON body may carry both payloads whatever its type.
Both(k, t, d, x) == [id |-> k, mtype |-> t, delta |-> d, value |-> x]
Ask(k, t)     == [id |-> k, mtype |-> t, delta |-> NULL, value |-> NULL]

Request(kind, items) == [kind |-> kind, items |-> items, ip |-> TRUE]
NoAddress(in) == [in EXCEPT !.ip = FALSE]

\* A name that changes its type, a NaN, which only the URL can carry, updates
\* that are saved (json) and that are not.  Three of them have an address.
ServiceInputs ==
    {Request("url", <<Gauge(a, nan)>>), Request("json", <<Counter(a, 1)>>),
     Request("batch", <<Gauge(a, v), Counter(a, 1)>>)}
    \cup {NoAddress(in) : in \in
        {Request("url", <<Counter(a, 3)>>),  Request("url", <<Gauge(a, NULL)>>),
         Request("json", <<Counter(a, 1)>>), Request("json", <<Both(a, "gauge", 2, v)>>),
         Request("json", <<Ask(a, "other")>>), Request("json", NULL),
         Request("json", <<Both(a, "counter", 1, v)>>),
         Request("batch", <<>>), Request("batch", NULL),
         Request("batch", <<Counter(a, 2), Gauge(a, v)>>),
         Request("batch", <<Gauge(a, v), Counter(a, 1), Gauge(a, v)>>),
         Request("geturl", <<Ask(a, "counter")>>), Request("geturl", <<Ask(a, NULL)>>),
         Request("getjson", <<Ask(a, NULL)>>), Request("getjson", NULL),
         Request("list", NULL)}}

\* Two names, one at a time.
SerialInputs ==
    {Request("url", <<Counter(a, 3)>>), Request("json", <<Gauge(b, v)>>),
     Request("json", <<Both(b, "gauge", 1, v)>>),
     Request("batch", <<Counter(b, 2), Counter(a, -3), Counter(b, 3)>>),
     Request("batch", <<Gauge(b, v), Counter(b, 1)>>)}
=============================================================================
