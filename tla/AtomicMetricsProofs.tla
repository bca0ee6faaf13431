------------------------ MODULE AtomicMetricsProofs ------------------------
(***************************************************************************)
(* Proofs about the atomic service, for any names, payloads, requests and  *)
(* width of the integers: its counters are the sums of their updates.      *)
(* Whatever implements it has that from here.                              *)
(***************************************************************************)
EXTENDS AtomicMetrics, MetricsProofs

-----------------------------------------------------------------------------
\* Arithmetic modulo 2 * HalfRange, which stands for 2^64.
Congruent(x, y) == \E z \in Int : x = y + z * (2 * HalfRange)

LEMMA CongruentSums ==
    ASSUME NEW x \in Int, NEW y \in Deltas, NEW d \in Deltas, Congruent(x, y)
    PROVE  Congruent(x + d, Add(y, d))
<1>0. HalfRange \in Nat \ {0} /\ y \in Int /\ d \in Int
  BY MetricsAssumption DEF Deltas
<1>. DEFINE P == 2 * HalfRange
<1>1. PICK z \in Int : x = y + z * P
  BY DEF Congruent
<1>2. PICK e \in {-1, 0, 1} : Add(y, d) = y + d + e * P
  BY <1>0 DEF Add, Wrap
<1>3. (z - e) * P = z * P - e * P
  BY <1>0, <1>2
<1>4. x + d = Add(y, d) + (z - e) * P
  BY <1>0, <1>1, <1>2, <1>3
<1>5. QED
  BY <1>2, <1>4 DEF Congruent

LEMMA CongruentInRange ==
    ASSUME NEW x \in Deltas, NEW y \in Deltas, Congruent(x, y)
    PROVE  x = y
<1>0. HalfRange \in Nat \ {0} /\ x \in Int /\ y \in Int
  BY MetricsAssumption DEF Deltas
<1>. DEFINE P == 2 * HalfRange
<1>1. PICK z \in Int : x = y + z * P
  BY DEF Congruent
<1>2. x - y < P /\ y - x < P /\ P \in Nat
  BY <1>0 DEF Deltas
<1>3. (z >= 1 => z * P >= P) /\ (z <= -1 => z * P <= -P)
  BY <1>2
<1>4. z = 0
  BY <1>0, <1>1, <1>2, <1>3
<1>5. QED
  BY <1>0, <1>1, <1>4

-----------------------------------------------------------------------------
RequestsOK ==
    /\ NULL \notin Inputs
    /\ \A in \in Inputs : in.items = NULL \/ in.items \in Seq(Items)

AbsInv ==
    /\ store \in MetricMaps
    /\ total \in [IDs -> Int]
    /\ asked \in [Reqs -> Inputs \cup {NULL}]
    /\ applied \subseteq {r \in Reqs : asked[r] # NULL} \X Nat

\* The sum of the counters is what is stored, but for multiples of 2^64.
SumInv ==
    \A k \in IDs : (\A it \in AppliedTo(k) : it.mtype = "counter") =>
        IF AppliedTo(k) = {} THEN store[k] = NULL /\ total[k] = 0
        ELSE /\ store[k] # NULL /\ store[k].delta \in Deltas
             /\ Congruent(total[k], store[k].delta)

LEMMA AskKeeps ==
    ASSUME AbsInv, SumInv, NEW r \in Reqs, NEW in \in Inputs, RequestsOK, Ask(r, in)
    PROVE  AbsInv' /\ SumInv'
<1>1. /\ UNCHANGED <<store, applied, total>> /\ asked[r] = NULL
      /\ asked' = [asked EXCEPT ![r] = in] /\ in # NULL
  BY DEF Ask, RequestsOK
<1>2. \A q \in Reqs : asked[q] # NULL => asked'[q] = asked[q]
  BY <1>1 DEF AbsInv
<1>3. AbsInv'
  BY <1>1, <1>2 DEF AbsInv
<1>4. \A w \in applied : asked'[w[1]] = asked[w[1]]
  BY <1>2 DEF AbsInv
<1>5. {asked'[w[1]].items[w[2]] : w \in applied} = {asked[w[1]].items[w[2]] : w \in applied}
  BY <1>4
<1>6. \A k \in IDs : AppliedTo(k)' = AppliedTo(k)
  BY <1>1, <1>5 DEF AppliedTo
<1>7. QED
  BY <1>1, <1>3, <1>6 DEF SumInv

\* The item that is applied, and what it changes.
LEMMA ApplyEffect ==
    ASSUME AbsInv, RequestsOK, NEW r \in Reqs, NEW k \in Wanted(r), Apply(r, k),
           NEW it, it = asked[r].items[k]
    PROVE  /\ it \in Items /\ Valid(it) /\ it.id \in IDs
           /\ AbsInv'
           /\ AppliedTo(it.id)' = AppliedTo(it.id) \cup {it}
           /\ \A j \in IDs \ {it.id} : /\ AppliedTo(j)' = AppliedTo(j)
                                       /\ store'[j] = store[j] /\ total'[j] = total[j]
<1>1. asked[r] # NULL /\ asked[r].items # NULL /\ k \in 1 .. Len(asked[r].items)
  BY DEF Wanted
<1>2. asked[r] \in Inputs /\ asked[r].items \in Seq(Items)
  BY <1>1 DEF AbsInv, RequestsOK
<1>3. it \in Items /\ Valid(it) /\ k \in Nat
  BY <1>1, <1>2 DEF Apply, Update
<1>4. it.id \in IDs /\ it.delta \in Deltas \cup {NULL}
  BY <1>3, ValidNamed DEF Items
<1>5. applied' = applied \cup {<<r, k>>} /\ asked' = asked /\ Update(it)
  BY DEF Apply
<1>6. PICK d \in Deltas \cup {NULL} : /\ store' = [store EXCEPT ![it.id] = Stored(it, d)]
                                      /\ it.mtype = "counter" => d # NULL
  <2>1. CASE it.mtype = "counter" /\ Base(store[it.id]) # NULL
                /\ store' = [store EXCEPT ![it.id] = Stored(it, Add(Base(store[it.id]), it.delta))]
    <3>1. it.delta \in Deltas
      BY <1>3, <1>4, <2>1 DEF Valid
    <3>2. Base(store[it.id]) \in Deltas
      BY <1>4, <2>1, MetricsAssumption DEF AbsInv, MetricMaps, Metric, Base, Deltas
    <3>3. Add(Base(store[it.id]), it.delta) \in Deltas
      BY <3>1, <3>2, AddInRange
    <3>4. NULL \notin Deltas
      BY MetricsAssumption DEF Deltas
    <3>5. QED
      BY <2>1, <3>3, <3>4
  <2>2. CASE it.mtype = "gauge" /\ store' = [store EXCEPT ![it.id] = Stored(it, it.delta)]
    BY <1>4, <2>2
  <2>3. QED
    BY <1>5, <2>1, <2>2 DEF Update
<1>7. Stored(it, d) \in Metric
  BY <1>3, <1>6, StoredIsMetric
<1>8. store' \in MetricMaps /\ \A j \in IDs \ {it.id} : store'[j] = store[j]
  BY <1>4, <1>6, <1>7 DEF AbsInv, MetricMaps
<1>9. total' \in [IDs -> Int] /\ \A j \in IDs \ {it.id} : total'[j] = total[j]
  <2>1. total' = [total EXCEPT ![it.id] = IF it.delta = NULL THEN @ ELSE @ + it.delta]
    BY <1>5 DEF Update
  <2>2. it.delta # NULL => it.delta \in Int
    BY <1>4, MetricsAssumption DEF Deltas
  <2>3. QED
    BY <1>4, <2>1, <2>2 DEF AbsInv
<1>10. AbsInv'
  BY <1>1, <1>3, <1>5, <1>8, <1>9 DEF AbsInv
<1>11. {asked'[w[1]].items[w[2]] : w \in applied'} = {asked[w[1]].items[w[2]] : w \in applied} \cup {it}
  <2>1. asked[<<r, k>>[1]].items[<<r, k>>[2]] = it
    OBVIOUS
  <2>2. {asked[w[1]].items[w[2]] : w \in applied \cup {<<r, k>>}}
           = {asked[w[1]].items[w[2]] : w \in applied} \cup {asked[<<r, k>>[1]].items[<<r, k>>[2]]}
    BY Zenon
  <2>3. QED
    BY <1>5, <2>1, <2>2
<1>12. /\ AppliedTo(it.id)' = AppliedTo(it.id) \cup {it}
       /\ \A j \in IDs \ {it.id} : AppliedTo(j)' = AppliedTo(j)
  BY <1>11 DEF AppliedTo
<1>13. QED
  BY <1>3, <1>4, <1>8, <1>9, <1>10, <1>12

LEMMA ApplyKeeps ==
    ASSUME AbsInv, SumInv, RequestsOK, NEW r \in Reqs, NEW k \in Wanted(r), Apply(r, k)
    PROVE  AbsInv' /\ SumInv'
<1>0. PICK it : it = asked[r].items[k]
  OBVIOUS
<1>1. /\ it \in Items /\ Valid(it) /\ it.id \in IDs
      /\ AbsInv'
      /\ AppliedTo(it.id)' = AppliedTo(it.id) \cup {it}
      /\ \A j \in IDs \ {it.id} : /\ AppliedTo(j)' = AppliedTo(j)
                                  /\ store'[j] = store[j] /\ total'[j] = total[j]
  BY <1>0, ApplyEffect
<1>2. ASSUME \A x \in AppliedTo(it.id)' : x.mtype = "counter"
      PROVE  /\ store'[it.id] # NULL /\ store'[it.id].delta \in Deltas
             /\ Congruent(total'[it.id], store'[it.id].delta)
  <2>. DEFINE b == Base(store[it.id])
              t == total[it.id]
  <2>1. it.mtype = "counter" /\ \A x \in AppliedTo(it.id) : x.mtype = "counter"
    BY <1>1, <1>2
  <2>2. it.delta \in Deltas /\ it.delta # NULL
    BY <1>1, <2>1 DEF Valid, Items
  <2>3. t \in Int /\ b \in Deltas /\ Congruent(t, b)
    <3>1. CASE AppliedTo(it.id) = {}
      <4>1. b = 0 /\ t = 0
        BY <1>1, <2>1, <3>1 DEF SumInv, Base
      <4>2. 0 \in Deltas /\ 0 = 0 + 0 * (2 * HalfRange)
        BY MetricsAssumption DEF Deltas
      <4>3. QED
        BY <4>1, <4>2 DEF Congruent
    <3>2. CASE AppliedTo(it.id) # {}
      BY <1>1, <2>1, <3>2 DEF SumInv, Base, AbsInv
    <3>3. QED
      BY <3>1, <3>2
  <2>4. /\ store'[it.id] = Stored(it, Add(b, it.delta))
        /\ total'[it.id] = t + it.delta
    <3>1. Update(it)
      BY <1>0 DEF Apply
    <3>2. QED
      BY <1>1, <2>1, <2>2, <3>1 DEF Update, AbsInv, MetricMaps
  <2>5. Add(b, it.delta) \in Deltas /\ Congruent(t + it.delta, Add(b, it.delta))
    BY <2>2, <2>3, AddInRange, CongruentSums
  <2>6. Stored(it, Add(b, it.delta)) # NULL
    <3>1. Add(b, it.delta) # NULL
      BY <2>5, MetricsAssumption DEF Deltas
    <3>2. QED
      BY <1>1, <2>5, <3>1, StoredIsMetric
  <2>7. QED
    BY <2>4, <2>5, <2>6 DEF Stored
<1>3. AppliedTo(it.id)' # {}
  BY <1>1
<1>4. QED
  BY <1>1, <1>2, <1>3 DEF SumInv

(* For any requests and any width of the integers: where every item is     *)
(* applied at one instant, a counter is the sum of its updates.            *)
THEOREM AtomicCountersSum == RequestsOK => (AMSpec => []SumOfCounters)
<1>. SUFFICES ASSUME RequestsOK PROVE AMSpec => []SumOfCounters
  OBVIOUS
<1>1. AMInit => AbsInv /\ SumInv
  BY EmptyIsMetrics DEF AMInit, AbsInv, SumInv, AppliedTo, EmptyMap
<1>2. AbsInv /\ SumInv /\ [AMNext]_absVars => AbsInv' /\ SumInv'
  <2>. SUFFICES ASSUME AbsInv, SumInv, [AMNext]_absVars PROVE AbsInv' /\ SumInv'
    OBVIOUS
  <2>1. CASE UNCHANGED absVars
    BY <2>1 DEF absVars, AbsInv, SumInv, AppliedTo
  <2>2. CASE AMNext
    BY <2>2, AskKeeps, ApplyKeeps DEF AMNext
  <2>3. QED
    BY <2>1, <2>2
<1>3. AbsInv /\ SumInv => SumOfCounters
  <2>. SUFFICES ASSUME SumInv, NEW k \in IDs, AppliedTo(k) # {},
                       \A it \in AppliedTo(k) : it.mtype = "counter", total[k] \in Deltas
                PROVE  store[k].delta = total[k]
    BY DEF SumOfCounters
  <2>1. store[k].delta \in Deltas /\ Congruent(total[k], store[k].delta)
    BY DEF SumInv
  <2>2. QED
    BY <2>1, CongruentInRange
<1>4. QED
  BY <1>1, <1>2, <1>3, PTL DEF AMSpec
=============================================================================
