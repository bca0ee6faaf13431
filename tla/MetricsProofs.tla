--------------------------- MODULE MetricsProofs ---------------------------
(***************************************************************************)
(* What the operators of Metrics return, for any names, payloads and width *)
(* of the integers.                                                        *)
(***************************************************************************)
EXTENDS Metrics, TLAPS

\* int64 addition stays in range, and is exact as long as the sum fits.
LEMMA AddInRange ==
    ASSUME NEW x \in Deltas, NEW y \in Deltas
    PROVE  /\ Add(x, y) \in Deltas
           /\ x + y \in Deltas => Add(x, y) = x + y
BY MetricsAssumption DEF Deltas, Add, Wrap

\* What a valid item is stored as is a metric, and carries its payload.
LEMMA StoredIsMetric ==
    ASSUME NEW it \in Items, Valid(it), NEW d \in Deltas \cup {NULL},
           it.mtype = "counter" => d # NULL
    PROVE  Stored(it, d) \in Metric /\ Stored(it, d) # NULL /\ ~NilPayload(Stored(it, d))
<1>1. it.id \in IDs /\ it.mtype \in Types /\ it.value \in Values \cup {NULL}
  BY DEF Items, Valid, Types
<1>2. Stored(it, d) \in Metric
  BY <1>1 DEF Stored, Metric
<1>3. Stored(it, d) # NULL
  BY <1>2, MetricsAssumption DEF Metric, Deltas, Types
<1>4. ~NilPayload(Stored(it, d))
  BY <1>1 DEF NilPayload, Stored, Valid
<1>5. QED
  BY <1>2, <1>3, <1>4

\* A valid item names an entry of the storage.
LEMMA ValidNamed ==
    ASSUME NEW it \in Items, Valid(it)
    PROVE  it.id \in IDs /\ it.mtype \in Types
BY DEF Items, Valid, Types

\* The empty storage is one of the contents, before any save.
LEMMA EmptyIsMetrics == EmptyMap \in MetricMaps
BY DEF EmptyMap, MetricMaps
=============================================================================
