------------------------ MODULE CheckpointedMetrics ------------------------
(***************************************************************************)
(* What a server with a file promises of its metrics.  Now and then it     *)
(* takes a checkpoint of the whole map, which is saved later or not at     *)
(* all; when the process ends, however it does, the next one begins with   *)
(* the checkpoint that was saved last: never with a part of one, a mixture *)
(* of two, or an older one.  It begins with nothing when it cannot read    *)
(* that.                                                                   *)
(***************************************************************************)
EXTENDS Metrics, Sequences

CONSTANTS Reqs, Inputs

VARIABLES
    up,         \* a process serves the metrics
    asked,      \* what each request asked
    store,
    taken,      \* the checkpoints that are being saved
    saved       \* the last one that was

cmVars == <<up, asked, store, taken, saved>>

CMInit ==
    /\ up = FALSE
    /\ asked = [r \in Reqs |-> NULL]
    /\ store = EmptyMap
    /\ taken = {}
    /\ saved = EmptyMap

Ask(r, in) ==
    /\ up
    /\ asked[r] = NULL
    /\ asked' = [asked EXCEPT ![r] = in]
    /\ UNCHANGED <<up, store, taken, saved>>

\* The valid items that r asked to store.
Wanted(r) ==
    IF asked[r] # NULL /\ asked[r].kind \in {"url", "json", "batch"} /\ asked[r].items # NULL
    THEN {k \in 1 .. Len(asked[r].items) : Valid(asked[r].items[k])} ELSE {}

\* A gauge is stored as it was asked, a counter with the sum that its handler
\* made, under its name and no other.
Put(it) ==
    /\ up
    /\ \E d \in IF it.mtype = "counter" THEN Deltas ELSE {it.delta} :
          store' = [store EXCEPT ![it.id] = Stored(it, d)]
    /\ UNCHANGED <<up, asked, taken, saved>>

Take ==
    /\ up
    /\ taken' = taken \cup {store}
    /\ UNCHANGED <<up, asked, store, saved>>

\* A checkpoint has been saved, or given up.
Settle(m) ==
    /\ taken' = taken \ {m}
    /\ saved' \in {saved, m}
    /\ UNCHANGED <<up, asked, store>>

\* The process ends; the metrics are those that the next one can find.
Ends ==
    /\ up' = FALSE
    /\ store' = saved
    /\ taken' = {}
    /\ UNCHANGED <<asked, saved>>

Begins ==
    /\ ~up /\ up' = TRUE
    /\ store' \in {store, EmptyMap}
    /\ UNCHANGED <<asked, taken, saved>>

CMNext ==
    \/ \E r \in Reqs : \/ \E in \in Inputs : Ask(r, in)
                       \/ \E k \in Wanted(r) : Put(asked[r].items[k])
    \/ Take
    \/ \E m \in taken : Settle(m)
    \/ Ends \/ Begins

CMSpec == CMInit /\ [][CMNext]_cmVars
=============================================================================
