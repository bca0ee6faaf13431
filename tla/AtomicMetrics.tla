--------------------------- MODULE AtomicMetrics ---------------------------
(***************************************************************************)
(* What the update handlers promise (internal/service/metrics.go:47-56):   *)
(* an update of a counter adds its delta to what is stored, an update of a *)
(* gauge replaces it.  Each item of a request is applied at one instant,   *)
(* at most once, and after the items before it.                            *)
(***************************************************************************)
EXTENDS Metrics, Sequences

CONSTANTS Reqs, Inputs

VARIABLES
    store,
    asked,      \* what each request asked
    applied,    \* <<r, k>> for each item k of r that was applied
    total       \* history: the sum of the deltas applied under each name

absVars == <<store, asked, applied, total>>

AMInit ==
    /\ store = EmptyMap
    /\ asked = [r \in Reqs |-> NULL]
    /\ applied = {}
    /\ total = [k \in IDs |-> 0]

Ask(r, in) ==
    /\ asked[r] = NULL
    /\ asked' = [asked EXCEPT ![r] = in]
    /\ UNCHANGED <<store, applied, total>>

\* The items that r wants applied.
Wanted(r) ==
    IF asked[r] # NULL /\ asked[r].kind \in {"url", "json", "batch"} /\ asked[r].items # NULL
    THEN 1 .. Len(asked[r].items) ELSE {}

Update(it) ==
    /\ Valid(it)
    /\ \/ /\ it.mtype = "counter"
          /\ Base(store[it.id]) # NULL
          /\ store' = [store EXCEPT ![it.id] =
                         Stored(it, Add(Base(store[it.id]), it.delta))]
       \/ /\ it.mtype = "gauge"
          /\ store' = [store EXCEPT ![it.id] = Stored(it, it.delta)]
    /\ total' = [total EXCEPT ![it.id] = IF it.delta = NULL THEN @ ELSE @ + it.delta]

Apply(r, k) ==
    /\ \A j \in 1 .. k : <<r, j>> \in applied <=> j < k
    /\ Update(asked[r].items[k])
    /\ applied' = applied \cup {<<r, k>>}
    /\ UNCHANGED asked

AMNext ==
    \E r \in Reqs : (\E in \in Inputs : Ask(r, in)) \/ (\E k \in Wanted(r) : Apply(r, k))

AMSpec == AMInit /\ [][AMNext]_absVars

-----------------------------------------------------------------------------
\* The items applied under the name k.
AppliedTo(k) == {it \in {asked[w[1]].items[w[2]] : w \in applied} : it.id = k}

(* What a service that applies every item at one instant owes its clients: *)
(* a name that only counters were applied to holds their sum, also when    *)
(* the sum left the range of an int64 in between and came back.            *)
SumOfCounters ==
    \A k \in IDs :
        /\ AppliedTo(k) # {} /\ \A it \in AppliedTo(k) : it.mtype = "counter"
        /\ total[k] \in Deltas
        => store[k].delta = total[k]
=============================================================================
