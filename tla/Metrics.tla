------------------------------ MODULE Metrics ------------------------------
(***************************************************************************)
(* The metric of internal/model/metrics.go and the arithmetic with which   *)
(* internal/service combines an update with what is stored.  A metric name *)
(* is a member of IDs, a float64 payload a member of Values, and NULL is   *)
(* the nil pointer, the empty name and the missing map entry.  A delta is  *)
(* an integer of the width of int64: HalfRange stands for 2^63.            *)
(***************************************************************************)
EXTENDS Integers

CONSTANTS IDs, Values, HalfRange, NULL,
          Unencodable   \* NaN and the infinities: values JSON cannot express

ASSUME MetricsAssumption ==
    /\ HalfRange \in Nat \ {0}
    /\ NULL \notin IDs \cup Values
    /\ Unencodable \subseteq Values
    /\ NULL \notin -HalfRange .. HalfRange - 1
    /\ NULL \notin [mtype : {"counter", "gauge"},
                    delta : (-HalfRange .. HalfRange - 1) \cup {NULL},
                    value : Values \cup {NULL}]

Deltas == -HalfRange .. HalfRange - 1
Types  == {"counter", "gauge"}

\* What the storage keeps under a name: models.Metrics without its ID.
Metric == [mtype : Types, delta : Deltas \cup {NULL}, value : Values \cup {NULL}]

\* The content of a storage, and of a saved file: NULL where a name is absent.
MetricMaps == [IDs -> Metric \cup {NULL}]
EmptyMap   == [k \in IDs |-> NULL]

\* json.MarshalIndent accepts the metrics.
Encodable(m) == \A k \in IDs : m[k] # NULL => m[k].value \notin Unencodable

\* One metric of a request, as the handlers decode it; a number in the URL
\* that does not parse leaves its payload NULL.
Items == [id : IDs \cup {NULL}, mtype : Types \cup {"other", NULL},
          delta : Deltas \cup {NULL}, value : Values \cup {NULL}]

-----------------------------------------------------------------------------
\* int64 addition of two values in range: it wraps by at most one period.
Wrap(n) == IF n >= HalfRange THEN n - 2 * HalfRange
           ELSE IF n < -HalfRange THEN n + 2 * HalfRange ELSE n

AddTwice(base, d) == Wrap(base + d + d)
AddUnbounded(base, d) == base + d
Add(base, d) == Wrap(base + d)

\* The checks SetMetric and SetNewMetric make before they touch the storage.
ValidMutant(it) ==
    /\ it.id # NULL
    /\ \/ it.mtype = "counter" /\ it.delta # NULL
       \/ it.mtype = "gauge"
Valid(it) ==
    /\ it.id # NULL
    /\ \/ it.mtype = "counter" /\ it.delta # NULL
       \/ it.mtype = "gauge"   /\ it.value # NULL

\* The field that carries the value of a metric of this type is nil.
NilPayload(m) == IF m.mtype = "counter" THEN m.delta = NULL ELSE m.value = NULL

BaseMutant(m) == IF m = NULL THEN NULL ELSE m.delta

\* The delta a counter update adds to: that of the metric found under the
\* name, 0 when there is none, NULL when what is found has no delta.
Base(m) == IF m = NULL THEN 0 ELSE m.delta

\* The struct handed to SetMetric: the item with the delta computed for it.
Stored(it, d) == [mtype |-> it.mtype, delta |-> d, value |-> it.value]
=============================================================================
