------------------------ MODULE PostgresServerProofs ------------------------
(***************************************************************************)
(* Proofs about the server over Postgres, for any requests, names, codes,  *)
(* attempts, lost connections and starts.  PInv ties a pending statement   *)
(* to the item it was prepared for; each property then needs an invariant  *)
(* of its own that says what the pending statements may still do.          *)
(***************************************************************************)
EXTENDS PostgresServer, MetricsProofs

-----------------------------------------------------------------------------
\* Statements that the database may still execute.
Pending(s) == s \in late \/ \E c \in Callers : At(c, "upsert") /\ stmt[c] = s

RequestOK(r) ==
    /\ pc[r] # "new" => req[r] \in Inputs
    /\ pc[r] = "new" => idx[r] = 1
    /\ pc[r] \in {"item", "upsert"} => idx[r] \in 1 .. Len(req[r])
    /\ status[r] # NULL => pc[r] = "done"

CallerOK(c) ==
    pc[c] = "upsert" => /\ stmt[c] \in Statements
                        /\ stmt[c].by = c
                        /\ c \in Reqs => stmt[c].item = idx[c]

StatementOK(s) ==
    s.by \in Reqs => /\ pc[s.by] # "new"
                     /\ s.item \in 1 .. Len(req[s.by])
                     /\ req[s.by][s.item].id = s.id

PInv ==
    /\ TypeOK
    /\ pc[Main] \in {"new", "upsert"}
    /\ \A r \in Reqs : RequestOK(r)
    /\ \A c \in Callers : CallerOK(c)
    /\ \A s \in Statements : Pending(s) => StatementOK(s)

LEMMA CallersAre == Main \in Callers /\ Main \notin Reqs /\ Reqs \subseteq Callers
BY PostgresAssumption DEF Callers

LEMMA InputItems ==
    ASSUME NEW in \in Inputs
    PROVE  /\ in \in Seq(Items) /\ Len(in) \in Nat /\ 1 \in 1 .. Len(in)
           /\ \A k \in 1 .. Len(in) : in[k] \in Items /\ Valid(in[k]) /\ in[k].id \in IDs
<1>1. in \in Seq(Items) /\ in # <<>> /\ \A k \in 1 .. Len(in) : Valid(in[k])
  BY PostgresAssumption
<1>2. Len(in) \in Nat /\ 1 \in 1 .. Len(in)
  BY <1>1
<1>3. \A k \in 1 .. Len(in) : in[k] \in Items
  BY <1>1
<1>4. QED
  BY <1>1, <1>2, <1>3, ValidNamed

LEMMA PInvInit == Init => PInv
<1>. SUFFICES ASSUME Init PROVE PInv
  OBVIOUS
<1>1. 0 \in 0 .. RetryAttempts /\ 0 \in 0 .. MaxStarts
  BY PostgresAssumption
<1>2. TypeOK
  <2>1. /\ req \in [Reqs -> Inputs \cup {NULL}]
        /\ pc \in [Callers -> {"new", "item", "upsert", "done"}]
        /\ idx \in [Reqs -> Nat]
        /\ status \in [Reqs -> {"ok", "error", NULL}]
        /\ stmt \in [Callers -> Statements \cup {NULL}]
        /\ attempt \in [Callers -> 0 .. RetryAttempts]
    BY <1>1 DEF Init
  <2>2. /\ given \in [IDs -> Int] /\ wrote \subseteq Reqs \X Nat
        /\ before \in [Reqs -> SUBSET Reqs]
        /\ writer \in [IDs -> Reqs \cup {NULL}]
        /\ late \subseteq Statements
    BY DEF Init
  <2>3. /\ rows \in MetricMaps /\ toLoad \in MetricMaps
        /\ file \in MetricMaps \cup {NULL} /\ kept \in MetricMaps \cup {NULL}
        /\ expired \in BOOLEAN /\ stale \in BOOLEAN /\ phase \in Phases
    BY EmptyIsMetrics DEF Init, Phases
  <2>4. starts \in 0 .. MaxStarts
    BY <1>1 DEF Init
  <2>5. QED
    BY <2>1, <2>2, <2>3, <2>4 DEF TypeOK
<1>3. \A c \in Callers : pc[c] = "new"
  BY DEF Init
<1>4. \A r \in Reqs : idx[r] = 1 /\ status[r] = NULL
  BY DEF Init
<1>5. ASSUME NEW r \in Reqs PROVE RequestOK(r)
  BY <1>3, <1>4, CallersAre DEF RequestOK
<1>6. \A s : ~Pending(s)
  BY <1>3 DEF Init, Pending, At
<1>7. QED
  BY <1>2, <1>3, <1>5, <1>6, CallersAre DEF PInv, CallerOK

-----------------------------------------------------------------------------
\* The parts of a step of a caller.

LEMMA PreparedIsStatement ==
    ASSUME NEW c \in Callers, NEW k \in Nat, NEW id \in IDs, NEW metric \in Metric
    PROVE  [by |-> c, item |-> k, id |-> id, metric |-> metric] \in Statements
BY DEF Statements

LEMMA FinishKeeps ==
    ASSUME PInv, NEW c \in Callers, pc[c] # "new", NEW st \in {"ok", "error"}, Finish(c, st)
    PROVE  /\ pc' \in [Callers -> {"new", "item", "upsert", "done"}]
           /\ status' \in [Reqs -> {"ok", "error", NULL}]
           /\ stmt' \in [Callers -> Statements \cup {NULL}]
           /\ attempt' \in [Callers -> 0 .. RetryAttempts]
           /\ toLoad' \in MetricMaps
           /\ req' = req /\ idx' = idx
           /\ \A d \in Callers : pc'[d] # pc[d] => d = c /\ pc'[c] = IF c = Main THEN "new" ELSE "done"
           /\ pc'[c] # "upsert"
           /\ \A d \in Callers \ {c} : stmt'[d] = stmt[d]
           /\ \A r \in Reqs : status'[r] = IF r = c THEN st ELSE status[r]
           /\ toLoad' \in {toLoad, EmptyMap}
<1>1. 0 \in 0 .. RetryAttempts
  BY PostgresAssumption
<1>2. QED
  BY <1>1, CallersAre, EmptyIsMetrics DEF PInv, TypeOK, Finish, GoTo

LEMMA NextItemKeeps ==
    ASSUME PInv, NEW c \in Callers, pc[c] = "upsert", NextItem(c)
    PROVE  /\ pc' \in [Callers -> {"new", "item", "upsert", "done"}]
           /\ status' \in [Reqs -> {"ok", "error", NULL}]
           /\ stmt' \in [Callers -> Statements \cup {NULL}]
           /\ attempt' \in [Callers -> 0 .. RetryAttempts]
           /\ toLoad' \in MetricMaps
           /\ idx' \in [Reqs -> Nat]
           /\ req' = req
           /\ \A d \in Callers \ {c} : pc'[d] = pc[d] /\ stmt'[d] = stmt[d]
           /\ \A r \in Reqs \ {c} : idx'[r] = idx[r] /\ status'[r] = status[r]
           /\ c = Main => pc'[c] = "new"
           /\ c \in Reqs => \/ /\ idx[c] = Len(req[c]) /\ idx'[c] = idx[c]
                               /\ pc'[c] = "done" /\ status'[c] = "ok"
                            \/ /\ idx'[c] = idx[c] + 1 /\ idx'[c] \in 1 .. Len(req[c])
                               /\ pc'[c] = "item" /\ status'[c] = status[c]
           /\ toLoad' = toLoad
<1>1. CASE c \in Reqs /\ idx[c] = Len(req[c])
  <2>1. Finish(c, "ok") /\ c # Main
    BY <1>1, CallersAre DEF NextItem
  <2>2. /\ pc' \in [Callers -> {"new", "item", "upsert", "done"}]
        /\ status' \in [Reqs -> {"ok", "error", NULL}]
        /\ stmt' \in [Callers -> Statements \cup {NULL}]
        /\ attempt' \in [Callers -> 0 .. RetryAttempts]
        /\ toLoad' \in MetricMaps /\ req' = req /\ idx' = idx
        /\ \A d \in Callers \ {c} : stmt'[d] = stmt[d]
        /\ \A r \in Reqs : status'[r] = IF r = c THEN "ok" ELSE status[r]
    BY <2>1, FinishKeeps
  <2>3. toLoad' = toLoad /\ pc'[c] = "done" /\ \A d \in Callers \ {c} : pc'[d] = pc[d]
    BY <2>1 DEF Finish, GoTo, PInv, TypeOK
  <2>4. idx' \in [Reqs -> Nat]
    BY <2>2 DEF PInv, TypeOK
  <2>5. QED
    BY <1>1, <2>1, <2>2, <2>3, <2>4
<1>2. CASE ~(c \in Reqs /\ idx[c] = Len(req[c]))
  <2>1. 0 \in 0 .. RetryAttempts
    BY PostgresAssumption
  <2>2. c \in Reqs => /\ idx[c] \in 1 .. Len(req[c]) /\ Len(req[c]) \in Nat
                      /\ idx[c] + 1 \in 1 .. Len(req[c])
    BY <1>2, InputItems DEF PInv, RequestOK
  <2>3. c \notin Reqs => c = Main
    BY DEF Callers
  <2>4. CASE c \in Reqs
    <3>1. idx' = [idx EXCEPT ![c] = @ + 1] /\ pc' = [pc EXCEPT ![c] = "item"]
      BY <1>2, <2>4, CallersAre DEF NextItem, GoTo
    <3>2. idx[c] + 1 \in Nat
      BY <2>2, <2>4
    <3>3. idx' \in [Reqs -> Nat] /\ idx'[c] = idx[c] + 1 /\ \A r \in Reqs \ {c} : idx'[r] = idx[r]
      BY <2>4, <3>1, <3>2 DEF PInv, TypeOK
    <3>4. /\ stmt' = [stmt EXCEPT ![c] = NULL] /\ attempt' = [attempt EXCEPT ![c] = 0]
          /\ req' = req /\ status' = status /\ toLoad' = toLoad
      BY <1>2 DEF NextItem
    <3>5. /\ pc' \in [Callers -> {"new", "item", "upsert", "done"}]
          /\ pc'[c] = "item" /\ \A d \in Callers \ {c} : pc'[d] = pc[d] /\ stmt'[d] = stmt[d]
          /\ stmt' \in [Callers -> Statements \cup {NULL}]
          /\ attempt' \in [Callers -> 0 .. RetryAttempts]
      BY <2>1, <3>1, <3>4 DEF PInv, TypeOK
    <3>6. status' \in [Reqs -> {"ok", "error", NULL}] /\ toLoad' \in MetricMaps
      BY <3>4 DEF PInv, TypeOK
    <3>7. QED
      BY <2>2, <2>4, <3>3, <3>4, <3>5, <3>6, CallersAre
  <2>5. CASE c = Main
    BY <2>1, <2>5, CallersAre DEF NextItem, GoTo, PInv, TypeOK
  <2>6. QED
    BY <2>3, <2>4, <2>5
<1>3. QED
  BY <1>1, <1>2

LEMMA ExecuteTypes ==
    ASSUME PInv, NEW s \in Statements, Pending(s), Execute(s)
    PROVE  /\ rows' \in MetricMaps
           /\ given' \in [IDs -> Int]
           /\ wrote' \subseteq Reqs \X Nat
           /\ writer' \in [IDs -> Reqs \cup {NULL}]
<1>0. s.id \in IDs /\ s.metric \in Metric /\ s.item \in Nat
  BY DEF Statements
<1>1. rows' \in MetricMaps
  BY <1>0 DEF PInv, TypeOK, Execute, Upsert, MetricMaps
<1>2. CASE s.by \in Reqs
  <2>1. req[s.by] \in Inputs /\ s.item \in 1 .. Len(req[s.by])
    BY <1>2 DEF PInv, StatementOK, RequestOK
  <2>2. req[s.by][s.item].delta \in Deltas \cup {NULL}
    BY <2>1, InputItems DEF Items
  <2>3. given' \in [IDs -> Int]
    <3> DEFINE d == req[s.by][s.item].delta
    <3>1. d # NULL => d \in Int
      BY <2>2, MetricsAssumption DEF Deltas
    <3>2. given' = given \/ (d # NULL /\ given' = [given EXCEPT ![s.id] = @ + d])
      BY <1>2 DEF Execute
    <3>3. given \in [IDs -> Int]
      BY DEF PInv, TypeOK
    <3>. HIDE DEF d
    <3>4. d # NULL => given[s.id] + d \in Int
      BY <1>0, <3>1, <3>3
    <3>5. QED
      BY <1>0, <3>2, <3>3, <3>4
  <2>4. wrote' = wrote \cup {<<s.by, s.item>>} /\ writer' = [writer EXCEPT ![s.id] = s.by]
    BY <1>2 DEF Execute
  <2>5. wrote' \subseteq Reqs \X Nat
    BY <1>0, <1>2, <2>4 DEF PInv, TypeOK
  <2>6. writer' \in [IDs -> Reqs \cup {NULL}]
    BY <1>0, <1>2, <2>4 DEF PInv, TypeOK
  <2>7. QED
    BY <1>1, <2>3, <2>5, <2>6
<1>3. CASE s.by \notin Reqs
  BY <1>0, <1>1, <1>3 DEF PInv, TypeOK, Execute
<1>4. QED
  BY <1>2, <1>3

\* What the database did in a step of Exec, and where that left the statement.
LEMMA DatabaseSteps ==
    ASSUME PInv, NEW c \in Callers, At(c, "upsert"), NEW nil \in BOOLEAN, NEW e,
           AtDatabase(c, nil, e)
    PROVE  \/ Execute(stmt[c]) /\ UNCHANGED <<late, stale>>
           \/ ~nil /\ UNCHANGED dbVars
           \/ ~nil /\ Lose({stmt[c]})
BY DEF AtDatabase

DBTypes ==
    /\ rows \in MetricMaps
    /\ late \subseteq Statements
    /\ given \in [IDs -> Int]
    /\ wrote \subseteq Reqs \X Nat
    /\ writer \in [IDs -> Reqs \cup {NULL}]
    /\ stale \in BOOLEAN

LEMMA DatabaseTypes ==
    ASSUME PInv, NEW c \in Callers, At(c, "upsert"), NEW nil \in BOOLEAN, NEW e,
           AtDatabase(c, nil, e)
    PROVE  DBTypes' /\ late' \subseteq late \cup {stmt[c]}
<1>0. stmt[c] \in Statements /\ Pending(stmt[c])
  BY DEF PInv, CallerOK, Pending, At
<1>1. CASE Execute(stmt[c]) /\ UNCHANGED <<late, stale>>
  BY <1>0, <1>1, ExecuteTypes DEF DBTypes, PInv, TypeOK
<1>2. CASE UNCHANGED dbVars
  BY <1>2 DEF DBTypes, PInv, TypeOK, dbVars
<1>3. CASE Lose({stmt[c]})
  BY <1>0, <1>3 DEF DBTypes, PInv, TypeOK, Lose
<1>4. QED
  BY <1>1, <1>2, <1>3, DatabaseSteps

-----------------------------------------------------------------------------
\* A step keeps what is known of the pending statements if it adds none that
\* is not known, and takes back nothing a request has brought.
LEMMA StatementsStay ==
    ASSUME PInv,
           \A s \in Statements : Pending(s)' => Pending(s) \/ StatementOK(s)',
           \A r \in Reqs : pc[r] # "new" => pc'[r] # "new" /\ req'[r] = req[r]
    PROVE  \A s \in Statements : Pending(s)' => StatementOK(s)'
BY DEF PInv, StatementOK

\* Run's own steps, which leave the callers alone.
LEMMA CallersKept ==
    ASSUME PInv, UNCHANGED callVars, late' = late
    PROVE  /\ pc'[Main] \in {"new", "upsert"}
           /\ \A r \in Reqs : RequestOK(r)'
           /\ \A c \in Callers : CallerOK(c)'
           /\ \A s \in Statements : Pending(s)' => StatementOK(s)'
BY DEF PInv, callVars, RequestOK, CallerOK, Pending, StatementOK, At

RunStep == Start \/ Restored \/ Signal \/ Drain \/ Tick

LEMMA PInvRun ==
    ASSUME PInv, RunStep
    PROVE  PInv'
<1>1. UNCHANGED <<callVars, dbVars, before, kept>>
  BY DEF RunStep, Start, Restored, Signal, Drain, Tick, Proceed
<1>2. late' = late
  BY <1>1 DEF dbVars
<1>3. /\ phase' \in Phases /\ file' \in MetricMaps \cup {NULL} /\ toLoad' \in MetricMaps
      /\ expired' \in BOOLEAN /\ starts' \in 0 .. MaxStarts
  <2>1. CASE Start
    <3>1. starts' \in 0 .. MaxStarts
      BY <2>1, PostgresAssumption DEF Start, PInv, TypeOK
    <3>2. QED
      BY <2>1, <3>1, EmptyIsMetrics DEF Start, PInv, TypeOK, Phases
  <2>2. CASE Restored \/ Signal \/ Drain
    BY <2>2 DEF Restored, Signal, Drain, Proceed, PInv, TypeOK, Phases
  <2>3. CASE Tick
    BY <2>3 DEF Tick, PInv, TypeOK
  <2>4. QED
    BY <2>1, <2>2, <2>3 DEF RunStep
<1>4. TypeOK'
  BY <1>1, <1>3 DEF PInv, TypeOK, callVars, dbVars
<1>5. QED
  BY <1>1, <1>2, <1>4, CallersKept DEF PInv

LEMMA PInvArrive ==
    ASSUME PInv, NEW r \in Reqs, NEW in \in Inputs, Arrive(r, in)
    PROVE  PInv'
<1>1. TypeOK'
  BY CallersAre DEF Arrive, GoTo, At, dbVars, PInv, TypeOK
<1>2. /\ r # Main /\ pc[r] = "new" /\ pc' = [pc EXCEPT ![r] = "item"]
      /\ req' = [req EXCEPT ![r] = in] /\ UNCHANGED <<idx, status, stmt, late>>
  BY CallersAre DEF Arrive, GoTo, At, dbVars
<1>3. ASSUME NEW q \in Reqs PROVE RequestOK(q)'
  BY <1>2, CallersAre, InputItems DEF PInv, TypeOK, RequestOK
<1>4. ASSUME NEW c \in Callers PROVE CallerOK(c)'
  BY <1>2, CallersAre DEF PInv, TypeOK, CallerOK
<1>5. \A s \in Statements : Pending(s)' => StatementOK(s)'
  BY <1>2, CallersAre, StatementsStay DEF PInv, TypeOK, Pending, At
<1>6. QED
  BY <1>1, <1>2, <1>3, <1>4, <1>5, CallersAre DEF PInv, TypeOK

\* The statement of an item, or of a metric of the file.
LEMMA PInvPrepare ==
    ASSUME PInv, NEW c \in Callers, pc[c] \in {"new", "item"}, pc[c] = "new" => c = Main,
           NEW k \in Nat, NEW id \in IDs, NEW metric \in Metric, Prepare(c, k, id, metric),
           c \in Reqs => k = idx[c] /\ req[c][k].id = id,
           toLoad' \in MetricMaps,
           UNCHANGED <<req, idx, status, dbVars, phase, file, expired, starts, kept, before>>
    PROVE  PInv'
<1>1. /\ pc' = [pc EXCEPT ![c] = "upsert"]
      /\ stmt' = [stmt EXCEPT ![c] = [by |-> c, item |-> k, id |-> id, metric |-> metric]]
      /\ attempt' = attempt
  BY DEF Prepare, GoTo
<1>2. stmt'[c] = [by |-> c, item |-> k, id |-> id, metric |-> metric] /\ stmt'[c] \in Statements
  BY <1>1, PreparedIsStatement DEF PInv, TypeOK
<1>3. TypeOK'
  BY <1>1, <1>2 DEF PInv, TypeOK, dbVars
<1>4. ASSUME NEW q \in Reqs PROVE RequestOK(q)'
  BY <1>1, CallersAre DEF PInv, TypeOK, RequestOK
<1>5. ASSUME NEW d \in Callers PROVE CallerOK(d)'
  BY <1>1, <1>2 DEF PInv, TypeOK, CallerOK
<1>6. ASSUME NEW s \in Statements, s = stmt'[c] PROVE StatementOK(s)'
  <2>1. s.by = c /\ s.item = k /\ s.id = id
    BY <1>2, <1>6
  <2>2. c \in Reqs => pc[c] # "new" /\ RequestOK(c)
    BY CallersAre DEF PInv
  <2>3. c \in Reqs => k \in 1 .. Len(req[c])
    BY <2>2 DEF RequestOK
  <2>4. pc'[c] = "upsert"
    BY <1>1 DEF PInv, TypeOK
  <2>5. QED
    BY <2>1, <2>3, <2>4 DEF StatementOK
<1>7. \A s \in Statements : Pending(s)' => Pending(s) \/ StatementOK(s)'
  <2>1. late' = late /\ \A d \in Callers \ {c} : pc'[d] = pc[d] /\ stmt'[d] = stmt[d]
    BY <1>1 DEF PInv, TypeOK, dbVars
  <2>2. QED
    BY <1>6, <2>1 DEF Pending, At
<1>8. \A s \in Statements : Pending(s)' => StatementOK(s)'
  BY <1>1, <1>7, CallersAre, StatementsStay DEF PInv, TypeOK
<1>9. QED
  BY <1>1, <1>3, <1>4, <1>5, <1>8, CallersAre DEF PInv, TypeOK

\* The handler is over, or the restore, without another statement.
LEMMA PInvFinish ==
    ASSUME PInv, NEW c \in Callers, pc[c] # "new", NEW st \in {"ok", "error"}, Finish(c, st),
           DBTypes', late' \subseteq late \cup (IF At(c, "upsert") THEN {stmt[c]} ELSE {}),
           UNCHANGED <<phase, file, expired, starts, kept, before>>
    PROVE  PInv'
<1>. USE FinishKeeps
<1>1. TypeOK'
  BY DEF PInv, TypeOK, DBTypes
<1>2. pc'[c] = (IF c = Main THEN "new" ELSE "done") /\ \A d \in Callers \ {c} : pc'[d] = pc[d]
  BY DEF Finish, GoTo, PInv, TypeOK
<1>3. ASSUME NEW q \in Reqs PROVE RequestOK(q)'
  <2>1. RequestOK(q)
    BY DEF PInv
  <2>2. CASE q = c
    BY <1>2, <2>1, <2>2, CallersAre DEF RequestOK
  <2>3. CASE q # c
    BY <1>2, <2>1, <2>3, CallersAre DEF RequestOK
  <2>4. QED
    BY <2>2, <2>3
<1>4. ASSUME NEW d \in Callers PROVE CallerOK(d)'
  BY <1>2 DEF PInv, CallerOK
<1>5. \A s \in Statements : Pending(s)' => Pending(s)
  BY <1>2 DEF Pending, At
<1>6. \A s \in Statements : Pending(s)' => StatementOK(s)'
  BY <1>2, <1>5, CallersAre, StatementsStay
<1>7. QED
  BY <1>1, <1>2, <1>3, <1>4, <1>6, CallersAre DEF PInv, TypeOK

LEMMA PInvNextItem ==
    ASSUME PInv, NEW c \in Callers, At(c, "upsert"), NextItem(c),
           DBTypes', late' \subseteq late \cup {stmt[c]},
           UNCHANGED <<phase, file, expired, starts, kept, before>>
    PROVE  PInv'
<1>. USE NextItemKeeps DEF At
<1>1. TypeOK'
  BY DEF PInv, TypeOK, DBTypes
<1>2. pc'[c] \in {"new", "item", "done"} /\ (c \in Reqs => pc'[c] # "new")
  BY CallersAre DEF Callers
<1>3. ASSUME NEW q \in Reqs PROVE RequestOK(q)'
  <2>1. RequestOK(q)
    BY DEF PInv
  <2>2. CASE q = c
    BY <2>1, <2>2, CallersAre DEF RequestOK
  <2>3. CASE q # c
    BY <2>1, <2>3, CallersAre DEF RequestOK
  <2>4. QED
    BY <2>2, <2>3
<1>4. ASSUME NEW d \in Callers PROVE CallerOK(d)'
  BY <1>2 DEF PInv, CallerOK
<1>5. \A s \in Statements : Pending(s)' => Pending(s)
  BY <1>2 DEF Pending
<1>6. \A s \in Statements : Pending(s)' => StatementOK(s)'
  BY <1>2, <1>5, CallersAre, StatementsStay
<1>7. QED
  BY <1>1, <1>2, <1>3, <1>4, <1>6, CallersAre DEF PInv, TypeOK

LEMMA PInvRetry ==
    ASSUME PInv, NEW c \in Callers, At(c, "upsert"), NEW e, RetryLater(c, e), Retry(c),
           DBTypes', late' \subseteq late \cup {stmt[c]},
           UNCHANGED <<phase, file, expired, starts, kept, before>>
    PROVE  PInv'
<1>1. attempt' \in [Callers -> 0 .. RetryAttempts]
  <2>1. attempt[c] + 1 \in 0 .. RetryAttempts
    BY PostgresAssumption DEF PInv, TypeOK, RetryLater
  <2>2. QED
    BY <2>1 DEF PInv, TypeOK, Retry
<1>2. TypeOK'
  BY <1>1 DEF PInv, TypeOK, DBTypes, Retry
<1>3. \A s \in Statements : Pending(s)' => Pending(s)
  BY DEF Pending, At, Retry
<1>4. \A s \in Statements : Pending(s)' => StatementOK(s)'
  BY <1>3, StatementsStay DEF Retry
<1>5. QED
  BY <1>2, <1>4 DEF PInv, RequestOK, CallerOK, Retry

LEMMA PInvExec ==
    ASSUME PInv, NEW c \in Callers, Exec(c)
    PROVE  PInv'
<1>. USE DEF Exec
<1>1. CASE AtDatabase(c, TRUE, NULL) /\ NextItem(c)
  BY <1>1, DatabaseTypes, PInvNextItem
<1>2. ASSUME NEW e \in Errors, AtDatabase(c, FALSE, e), RetryLater(c, e), Retry(c)
      PROVE  PInv'
  BY <1>2, DatabaseTypes, PInvRetry
<1>3. ASSUME NEW e \in Errors, AtDatabase(c, FALSE, e), GiveUp(c, e)
      PROVE  PInv'
  BY <1>3, DatabaseTypes, PInvFinish DEF GiveUp, At
<1>4. QED
  BY <1>1, <1>2, <1>3

\* The metric a statement is prepared with.
LEMMA ItemIsItem ==
    ASSUME PInv, NEW r \in Reqs, pc[r] = "item"
    PROVE  Item(r) \in Items /\ Valid(Item(r)) /\ Item(r).id \in IDs
BY InputItems DEF PInv, RequestOK, Item

LEMMA CounterSum ==
    ASSUME PInv, NEW r \in Reqs, pc[r] = "item", Item(r).mtype = "counter",
           Base(rows[Item(r).id]) # NULL
    PROVE  /\ Base(rows[Item(r).id]) \in Deltas
           /\ Item(r).delta \in Deltas
           /\ Stored(Item(r), Add(Base(rows[Item(r).id]), Item(r).delta)) \in Metric
<1>1. Item(r) \in Items /\ Valid(Item(r)) /\ Item(r).id \in IDs
  BY ItemIsItem
<1>2. Item(r).delta \in Deltas
  BY <1>1 DEF Items, Valid
<1>3. Base(rows[Item(r).id]) \in Deltas
  <2>1. 0 \in Deltas
    BY MetricsAssumption DEF Deltas
  <2>2. rows[Item(r).id] \in Metric \cup {NULL}
    BY <1>1 DEF PInv, TypeOK, MetricMaps
  <2>3. QED
    BY <2>1, <2>2 DEF Base, Metric
<1>4. Add(Base(rows[Item(r).id]), Item(r).delta) \in Deltas
  BY <1>2, <1>3, AddInRange
<1>5. Add(Base(rows[Item(r).id]), Item(r).delta) # NULL
  BY <1>4, MetricsAssumption DEF Deltas
<1>6. QED
  BY <1>1, <1>2, <1>3, <1>4, <1>5, StoredIsMetric

LEMMA PInvHandler ==
    ASSUME PInv, NEW r \in Reqs, Handler(r)
    PROVE  PInv'
<1>0. /\ pc[r] = "item" /\ r \in Callers /\ r # Main /\ idx[r] \in Nat
      /\ toLoad \in MetricMaps /\ DBTypes
  BY CallersAre DEF Handler, SelectCounter, SetGauge, At, PInv, TypeOK, DBTypes
<1>1. Item(r) \in Items /\ Valid(Item(r)) /\ Item(r).id \in IDs
  BY <1>0, ItemIsItem
<1>2. CASE SetGauge(r)
  <2>1. Stored(Item(r), Item(r).delta) \in Metric
    BY <1>1, <1>2, StoredIsMetric DEF SetGauge, Items
  <2>2. QED
    BY <1>0, <1>1, <1>2, <2>1, PInvPrepare DEF SetGauge, runVars, Item
<1>3. CASE SelectCounter(r) /\ Finish(r, "error")
  <2>1. DBTypes' /\ late' = late
    BY <1>0, <1>3 DEF SelectCounter, dbVars, DBTypes
  <2>2. QED
    BY <1>0, <1>3, <2>1, PInvFinish DEF SelectCounter
<1>4. ASSUME SelectCounter(r), Base(rows[Item(r).id]) # NULL,
             Prepare(r, idx[r], Item(r).id,
                     Stored(Item(r), Add(Base(rows[Item(r).id]), Item(r).delta))),
             UNCHANGED <<req, idx, status, toLoad>>
      PROVE  PInv'
  BY <1>0, <1>1, <1>4, CounterSum, PInvPrepare DEF SelectCounter, Item
<1>5. QED
  BY <1>2, <1>3, <1>4 DEF Handler, SelectCounter

LEMMA PInvRestoreOne ==
    ASSUME PInv, NEW k \in IDs, RestoreOne(k)
    PROVE  PInv'
<1>1. toLoad[k] \in Metric /\ toLoad' \in MetricMaps
  BY DEF RestoreOne, PInv, TypeOK, MetricMaps
<1>2. QED
  BY <1>1, CallersAre, PInvPrepare DEF RestoreOne, At

LEMMA PInvLate ==
    ASSUME PInv, NEW s \in late, ExecuteLate(s)
    PROVE  PInv'
<1>1. s \in Statements /\ Pending(s)
  BY DEF PInv, TypeOK, Pending
<1>2. TypeOK'
  BY <1>1, ExecuteTypes DEF ExecuteLate, PInv, TypeOK, callVars, runVars
<1>3. UNCHANGED callVars /\ late' \subseteq late
  BY DEF ExecuteLate
<1>4. \A t \in Statements : Pending(t)' => Pending(t)
  BY <1>3 DEF Pending, At, callVars
<1>5. \A t \in Statements : Pending(t)' => StatementOK(t)'
  BY <1>3, <1>4, StatementsStay DEF callVars
<1>6. QED
  BY <1>2, <1>3, <1>5 DEF PInv, RequestOK, CallerOK, callVars

LEMMA PInvEnds ==
    ASSUME PInv, Stop \/ Crash
    PROVE  PInv'
<1>1. ProcessEnds /\ file' \in MetricMaps \cup {NULL} /\ kept' \in MetricMaps \cup {NULL}
  BY DEF Stop, Crash, PInv, TypeOK
<1>2. PICK S \in SUBSET {stmt[c] : c \in {d \in Callers : At(d, "upsert")}} : Lose(S)
  BY <1>1 DEF ProcessEnds
<1>3. \A s \in S : s \in Statements /\ Pending(s)
  BY <1>2 DEF PInv, CallerOK, Pending, At
<1>4. late' = late \cup S /\ UNCHANGED <<rows, given, wrote, writer, stale>>
  BY <1>2 DEF Lose
<1>5. /\ pc' = [c \in Callers |-> IF c = Main \/ At(c, "new") THEN "new" ELSE "done"]
      /\ UNCHANGED <<req, idx, status>>
  BY <1>1 DEF ProcessEnds
<1>6. TypeOK'
  <2>1. /\ stmt' \in [Callers -> Statements \cup {NULL}]
        /\ attempt' \in [Callers -> 0 .. RetryAttempts]
    BY <1>1, PostgresAssumption DEF ProcessEnds
  <2>2. pc' \in [Callers -> {"new", "item", "upsert", "done"}]
    BY <1>5
  <2>3. phase' \in Phases /\ toLoad' \in MetricMaps /\ UNCHANGED <<expired, starts, before>>
    BY <1>1, EmptyIsMetrics DEF ProcessEnds, Phases
  <2>4. late' \subseteq Statements
    BY <1>3, <1>4 DEF PInv, TypeOK
  <2>5. QED
    BY <1>1, <1>4, <1>5, <2>1, <2>2, <2>3, <2>4 DEF PInv, TypeOK
<1>7. ASSUME NEW q \in Reqs PROVE RequestOK(q)'
  BY <1>5, CallersAre DEF PInv, TypeOK, RequestOK, At
<1>8. ASSUME NEW c \in Callers PROVE CallerOK(c)' /\ pc'[c] # "upsert"
  BY <1>5 DEF CallerOK
<1>9. \A s \in Statements : Pending(s)' => Pending(s)
  BY <1>3, <1>4, <1>8 DEF Pending, At
<1>10. \A s \in Statements : Pending(s)' => StatementOK(s)'
  BY <1>5, <1>9, CallersAre, StatementsStay DEF At
<1>11. QED
  BY <1>5, <1>6, <1>7, <1>8, <1>10, CallersAre DEF PInv

LEMMA PInvStutter == PInv /\ UNCHANGED vars => PInv'
BY DEF PInv, TypeOK, RequestOK, CallerOK, StatementOK, Pending, At, Callers, Statements,
       vars, callVars, dbVars, runVars

LEMMA PInvStep == PInv /\ [Next]_vars => PInv'
<1>. SUFFICES ASSUME PInv, [Next]_vars PROVE PInv'
  OBVIOUS
<1>1. CASE RunStep
  BY <1>1, PInvRun
<1>2. ASSUME NEW k \in IDs, RestoreOne(k) PROVE PInv'
  BY <1>2, PInvRestoreOne
<1>3. ASSUME NEW r \in Reqs, NEW in \in Inputs, Arrive(r, in) PROVE PInv'
  BY <1>3, PInvArrive
<1>4. ASSUME NEW r \in Reqs, Handler(r) PROVE PInv'
  BY <1>4, PInvHandler
<1>5. ASSUME NEW c \in Callers, Exec(c) PROVE PInv'
  BY <1>5, PInvExec
<1>6. ASSUME NEW s \in late, ExecuteLate(s) PROVE PInv'
  BY <1>6, PInvLate
<1>7. CASE Stop \/ Crash
  BY <1>7, PInvEnds
<1>8. CASE UNCHANGED vars
  BY <1>8, PInvStutter
<1>9. QED
  BY <1>1, <1>2, <1>3, <1>4, <1>5, <1>6, <1>7, <1>8 DEF Next, RunStep, Off

LEMMA PostgresInvariant == Spec => []PInv
BY PInvInit, PInvStep, PTL DEF Spec

(* Through retries, lost connections, kills and restarts every variable    *)
(* keeps its type; in particular no caller makes more than RetryAttempts   *)
(* extra attempts, and every delta in the table fits its width.            *)
THEOREM PostgresTypes == Spec => []TypeOK
<1>1. PInv => TypeOK
  BY DEF PInv
<1>2. QED
  BY PostgresInvariant, <1>1, PTL

-----------------------------------------------------------------------------
\* What a step may do to the table and to the pending statements.

Fewer == \A s \in Statements : Pending(s)' => Pending(s)

\* One pending statement is executed, at its caller's call or behind its back.
Executes(s) ==
    /\ Pending(s) /\ Execute(s) /\ Fewer
    /\ UNCHANGED <<req, before, file, kept, phase, expired>>
    /\ toLoad' \in {toLoad, EmptyMap}
    /\ stale' = TRUE \/ (s.by \in Callers /\ At(s.by, "upsert") /\ s = stmt[s.by] /\ stale' = stale)

\* Nothing is executed and no statement is prepared.
Rests ==
    /\ Fewer
    /\ UNCHANGED <<rows, given, wrote, writer, stale, req, before>>
    /\ file' \in {file, rows}
    /\ toLoad' \in {toLoad, EmptyMap} \/ (toLoad' = file /\ file # NULL)

Prepares(c) ==
    /\ UNCHANGED <<rows, late, given, wrote, writer, stale, req, before, file, kept, phase, expired>>
    /\ \/ c \in Reqs /\ Handler(c) /\ UNCHANGED toLoad
       \/ c = Main /\ \E k \in IDs : RestoreOne(k)
    /\ pc'[c] = "upsert" /\ stmt'[c] \in Statements /\ stmt'[c].by = c
    /\ \A s \in Statements : Pending(s)' => Pending(s) \/ s = stmt'[c]

LEMMA ExecKind ==
    ASSUME PInv, NEW c \in Callers, Exec(c)
    PROVE  Executes(stmt[c]) \/ Rests
<1>. USE DEF Exec
<1>0. /\ pc[c] = "upsert" /\ stmt[c] \in Statements /\ stmt[c].by = c /\ Pending(stmt[c])
      /\ UNCHANGED <<phase, file, expired, starts, kept, before>>
  BY DEF PInv, CallerOK, Pending, At
<1>1. /\ req' = req /\ toLoad' \in {toLoad, EmptyMap}
      /\ \A d \in Callers \ {c} : pc'[d] = pc[d] /\ stmt'[d] = stmt[d]
      /\ pc'[c] = "upsert" => stmt'[c] = stmt[c]
  <2>1. CASE NextItem(c)
    BY <1>0, <2>1, NextItemKeeps DEF Callers
  <2>2. CASE Finish(c, "error")
    BY <1>0, <2>2, FinishKeeps
  <2>3. CASE Retry(c)
    BY <2>3 DEF Retry
  <2>4. QED
    BY <2>1, <2>2, <2>3 DEF GiveUp
<1>2. \/ Execute(stmt[c]) /\ UNCHANGED <<late, stale>>
      \/ UNCHANGED dbVars
      \/ Lose({stmt[c]})
  BY DatabaseSteps
<1>3. Fewer
  BY <1>0, <1>1, <1>2 DEF Fewer, Pending, At, dbVars, Lose
<1>4. QED
  BY <1>0, <1>1, <1>2, <1>3 DEF Executes, Rests, At, dbVars, Lose

LEMMA LateKind ==
    ASSUME PInv, NEW s \in late, ExecuteLate(s)
    PROVE  Executes(s)
<1>1. Pending(s) /\ Fewer
  BY DEF ExecuteLate, Pending, Fewer, At, callVars
<1>2. QED
  BY <1>1 DEF ExecuteLate, Executes, callVars, runVars

LEMMA PrepareKind ==
    ASSUME PInv, NEW c \in Callers, NEW k \in Nat, NEW id \in IDs, NEW metric \in Metric,
           Prepare(c, k, id, metric)
    PROVE  /\ pc'[c] = "upsert" /\ stmt'[c] \in Statements /\ stmt'[c].by = c
           /\ late' = late => \A s \in Statements : Pending(s)' => Pending(s) \/ s = stmt'[c]
<1>1. /\ pc' = [pc EXCEPT ![c] = "upsert"]
      /\ stmt' = [stmt EXCEPT ![c] = [by |-> c, item |-> k, id |-> id, metric |-> metric]]
  BY DEF Prepare, GoTo
<1>2. stmt'[c] = [by |-> c, item |-> k, id |-> id, metric |-> metric] /\ stmt'[c] \in Statements
  BY <1>1, PreparedIsStatement DEF PInv, TypeOK
<1>3. \A d \in Callers \ {c} : pc'[d] = pc[d] /\ stmt'[d] = stmt[d]
  BY <1>1 DEF PInv, TypeOK
<1>4. QED
  BY <1>1, <1>2, <1>3 DEF PInv, TypeOK, Pending, At

LEMMA HandlerKind ==
    ASSUME PInv, NEW r \in Reqs, Handler(r)
    PROVE  Prepares(r) \/ (Rests /\ Finish(r, "error"))
<1>0. /\ pc[r] = "item" /\ r \in Callers /\ r # Main /\ idx[r] \in Nat
  BY CallersAre DEF Handler, SelectCounter, SetGauge, At, PInv, TypeOK
<1>1. Item(r) \in Items /\ Valid(Item(r)) /\ Item(r).id \in IDs
  BY <1>0, ItemIsItem
<1>2. CASE SetGauge(r)
  <2>1. Stored(Item(r), Item(r).delta) \in Metric
    BY <1>1, <1>2, StoredIsMetric DEF SetGauge, Items
  <2>2. QED
    BY <1>0, <1>1, <1>2, <2>1, PrepareKind DEF SetGauge, Prepares, Handler, dbVars, runVars
<1>3. CASE SelectCounter(r) /\ Finish(r, "error")
  <2>1. Fewer
    BY <1>0, <1>3, FinishKeeps DEF SelectCounter, Fewer, Pending, At, dbVars
  <2>2. QED
    BY <1>0, <1>3, <2>1, FinishKeeps DEF SelectCounter, Rests, dbVars
<1>4. ASSUME SelectCounter(r), Base(rows[Item(r).id]) # NULL,
             Prepare(r, idx[r], Item(r).id,
                     Stored(Item(r), Add(Base(rows[Item(r).id]), Item(r).delta))),
             UNCHANGED <<req, idx, status, toLoad>>
      PROVE  Prepares(r)
  <2>1. Stored(Item(r), Add(Base(rows[Item(r).id]), Item(r).delta)) \in Metric
    BY <1>0, <1>4, CounterSum DEF SelectCounter
  <2>2. UNCHANGED <<dbVars, phase, file, expired, starts, kept, before>>
    BY <1>4 DEF SelectCounter
  <2>3. QED
    BY <1>0, <1>1, <1>4, <2>1, <2>2, PrepareKind DEF Prepares, Handler, dbVars
<1>5. QED
  BY <1>2, <1>3, <1>4 DEF Handler, SelectCounter

LEMMA RestoreKind ==
    ASSUME PInv, NEW k \in IDs, RestoreOne(k)
    PROVE  Prepares(Main)
<1>1. toLoad[k] \in Metric
  BY DEF RestoreOne, PInv, TypeOK, MetricMaps
<1>2. QED
  BY <1>1, CallersAre, PrepareKind DEF RestoreOne, Prepares, dbVars

LEMMA EndKind ==
    ASSUME PInv, Stop \/ Crash
    PROVE  Rests
<1>1. ProcessEnds /\ file' \in {file, rows}
  BY DEF Stop, Crash
<1>2. PICK S \in SUBSET {stmt[c] : c \in {d \in Callers : At(d, "upsert")}} : Lose(S)
  BY <1>1 DEF ProcessEnds
<1>3. \A c \in Callers : pc'[c] # "upsert"
  BY <1>1 DEF ProcessEnds
<1>4. Fewer
  BY <1>2, <1>3 DEF Fewer, Pending, At, Lose
<1>5. QED
  BY <1>1, <1>2, <1>4 DEF Rests, ProcessEnds, Lose

LEMMA RunKind ==
    ASSUME PInv, RunStep
    PROVE  Rests
<1>1. UNCHANGED <<callVars, dbVars, before>>
  BY DEF RunStep, Start, Restored, Signal, Drain, Tick, Proceed
<1>2. Fewer
  BY <1>1 DEF Fewer, Pending, At, callVars, dbVars
<1>3. /\ file' \in {file, rows}
      /\ toLoad' \in {toLoad, EmptyMap} \/ (toLoad' = file /\ file # NULL)
  BY DEF RunStep, Start, Restored, Signal, Drain, Tick, Proceed
<1>4. QED
  BY <1>1, <1>2, <1>3 DEF Rests, callVars, dbVars

LEMMA StepKinds ==
    ASSUME PInv, [Next]_vars
    PROVE  \/ \E s \in Statements : Executes(s)
           \/ Rests
           \/ \E c \in Callers : Prepares(c)
           \/ \E r \in Reqs, in \in Inputs : Arrive(r, in)
<1>1. CASE RunStep \/ Stop \/ Crash
  BY <1>1, RunKind, EndKind
<1>2. ASSUME NEW k \in IDs, RestoreOne(k) PROVE Prepares(Main)
  BY <1>2, RestoreKind
<1>3. ASSUME NEW r \in Reqs, Handler(r) PROVE Prepares(r) \/ Rests
  BY <1>3, HandlerKind
<1>4. ASSUME NEW c \in Callers, Exec(c) PROVE Executes(stmt[c]) \/ Rests
  BY <1>4, ExecKind
<1>5. ASSUME NEW c \in Callers, Exec(c) PROVE stmt[c] \in Statements
  BY <1>5 DEF Exec, PInv, CallerOK, At
<1>6. ASSUME NEW s \in late, ExecuteLate(s) PROVE s \in Statements /\ Executes(s)
  BY <1>6, LateKind DEF PInv, TypeOK
<1>7. CASE UNCHANGED vars
  BY <1>7 DEF vars, callVars, dbVars, runVars, Rests, Fewer, Pending, At
<1>8. QED
  BY <1>1, <1>2, <1>3, <1>4, <1>5, <1>6, <1>7, CallersAre DEF Next, RunStep, Off

-----------------------------------------------------------------------------
\* A handler that is over stays over, and keeps what it was asked.
LEMMA DoneStays ==
    ASSUME PInv, [Next]_vars, NEW r \in Reqs
    PROVE  /\ pc[r] = "done" => pc'[r] = "done"
           /\ pc[r] # "new" => pc'[r] # "new" /\ req'[r] = req[r]
<1>. USE CallersAre
<1>1. CASE RunStep
  BY <1>1 DEF RunStep, Start, Restored, Signal, Drain, Tick, Proceed, callVars
<1>2. CASE Stop \/ Crash
  BY <1>2 DEF Stop, Crash, ProcessEnds, At
<1>3. ASSUME NEW k \in IDs, RestoreOne(k)
      PROVE  req' = req /\ pc'[r] = pc[r]
  BY <1>3 DEF RestoreOne, Prepare, GoTo, PInv, TypeOK
<1>4. ASSUME NEW q \in Reqs, NEW in \in Inputs, Arrive(q, in)
      PROVE  pc[r] # "new" => req'[r] = req[r] /\ pc'[r] = pc[r]
  BY <1>4 DEF Arrive, GoTo, At, PInv, TypeOK
<1>5. ASSUME NEW q \in Reqs, Handler(q)
      PROVE  req' = req /\ (r # q => pc'[r] = pc[r]) /\ pc'[q] # "new" /\ pc[q] = "item"
  BY <1>5, FinishKeeps
  DEF Handler, SelectCounter, SetGauge, Prepare, GoTo, At, PInv, TypeOK
<1>6. ASSUME NEW c \in Callers, Exec(c)
      PROVE  req' = req /\ (r # c => pc'[r] = pc[r]) /\ (c \in Reqs => pc'[c] # "new") /\ pc[c] = "upsert"
  <2>1. pc[c] = "upsert"
    BY <1>6 DEF Exec, At
  <2>2. CASE NextItem(c)
    BY <2>1, <2>2, NextItemKeeps
  <2>3. CASE Finish(c, "error")
    BY <2>1, <2>3, FinishKeeps DEF Finish, GoTo, PInv, TypeOK
  <2>4. CASE Retry(c)
    BY <2>1, <2>4 DEF Retry
  <2>5. QED
    BY <1>6, <2>1, <2>2, <2>3, <2>4 DEF Exec, GiveUp
<1>7. ASSUME NEW s \in late, ExecuteLate(s) PROVE UNCHANGED callVars
  BY <1>7 DEF ExecuteLate
<1>8. CASE UNCHANGED vars
  BY <1>8 DEF vars, callVars
<1>9. QED
  BY <1>1, <1>2, <1>3, <1>4, <1>5, <1>6, <1>7, <1>8 DEF Next, RunStep, Off, callVars

-----------------------------------------------------------------------------
\* Who is answered before another arrives never executes anything after, but
\* through a lost connection.
OrderInv ==
    /\ \A q \in Reqs : \A r \in before[q] : pc[r] = "done"
    /\ \A w \in wrote : pc[w[1]] # "new"
    /\ NoLateOverwrite

\* Written(r) read off the pairs of wrote, in this state and in the next.
LEMMA PairsOf ==
    ASSUME NEW r, NEW k
    PROVE  /\ wrote \subseteq Reqs \X Nat => (k \in Written(r) <=> <<r, k>> \in wrote)
           /\ wrote' \subseteq Reqs \X Nat => (k \in Written(r)' <=> <<r, k>> \in wrote')
BY DEF Written

LEMMA OrderStep == PInv /\ OrderInv /\ [Next]_vars => OrderInv'
<1>. SUFFICES ASSUME PInv, OrderInv, [Next]_vars PROVE OrderInv'
  OBVIOUS
<1>0. /\ \A q \in Reqs : before[q] \subseteq Reqs
      /\ wrote \subseteq Reqs \X Nat /\ writer \in [IDs -> Reqs \cup {NULL}]
      /\ \A w \in wrote : w[1] \in Reqs
  BY DEF PInv, TypeOK
<1>1. ASSUME NEW s \in Statements, Executes(s) PROVE OrderInv'
  <2>1. \A q \in Reqs : \A r \in before'[q] : pc'[r] = "done"
    BY <1>0, <1>1, DoneStays DEF Executes, OrderInv
  <2>2. StatementOK(s) /\ Execute(s) /\ req' = req /\ before' = before /\ s.id \in IDs
    BY <1>1 DEF Executes, PInv, Statements
  <2>3. wrote' = wrote \/ (s.by \in Reqs /\ wrote' = wrote \cup {<<s.by, s.item>>})
    BY <2>2 DEF Execute
  <2>4. \A w \in wrote' : pc'[w[1]] # "new"
    BY <1>0, <2>2, <2>3, DoneStays DEF OrderInv, StatementOK
  <2>5. NoLateOverwrite'
    <3>. SUFFICES ASSUME ~stale', NEW k \in IDs, writer'[k] # NULL, NEW q \in Reqs,
                         NEW i \in Written(q)', req[q][i].id = k
                  PROVE  writer'[k] \notin before[q]
      BY <2>2 DEF NoLateOverwrite
    <3>0. <<q, i>> \in wrote'
      BY <1>0, <2>2, <2>3, PairsOf DEF StatementOK, Statements
    <3>1. ~stale /\ pc[s.by] = "upsert" /\ s.by \in Callers
      BY <1>1 DEF Executes, At
    <3>2. CASE k = s.id
      <4>1. writer'[k] = (IF s.by \in Reqs THEN s.by ELSE NULL)
        BY <1>0, <2>2, <3>2 DEF Execute
      <4>2. QED
        BY <3>1, <4>1 DEF OrderInv
    <3>3. CASE k # s.id
      <4>1. writer'[k] = writer[k]
        BY <1>0, <2>2, <3>3 DEF Execute
      <4>2. <<q, i>> \in wrote
        BY <2>2, <2>3, <3>0, <3>3 DEF StatementOK
      <4>3. i \in Written(q)
        BY <1>0, <4>2, PairsOf
      <4>4. QED
        BY <3>1, <4>1, <4>3 DEF OrderInv, NoLateOverwrite
    <3>4. QED
      BY <3>2, <3>3
  <2>6. QED
    BY <2>1, <2>4, <2>5 DEF OrderInv
<1>2. ASSUME Rests \/ \E c \in Callers : Prepares(c) PROVE OrderInv'
  <2>1. UNCHANGED <<wrote, writer, stale, req, before>>
    BY <1>2 DEF Rests, Prepares
  <2>2. QED
    BY <1>0, <2>1, DoneStays DEF OrderInv, NoLateOverwrite, Written
<1>3. ASSUME NEW r \in Reqs, NEW in \in Inputs, Arrive(r, in) PROVE OrderInv'
  <2>1. /\ UNCHANGED <<wrote, writer, stale>> /\ pc[r] = "new"
        /\ before' = [before EXCEPT ![r] = {q \in Reqs : status[q] # NULL}]
        /\ req' = [req EXCEPT ![r] = in]
    BY <1>3 DEF Arrive, At, dbVars
  <2>2. \A q \in Reqs : \A p \in before'[q] : pc'[p] = "done"
    <3>1. ASSUME NEW p \in Reqs, status[p] # NULL PROVE pc'[p] = "done"
      BY <3>1, DoneStays DEF PInv, RequestOK
    <3>2. ASSUME NEW q \in Reqs, NEW p \in before[q] PROVE pc'[p] = "done"
      BY <1>0, DoneStays DEF OrderInv
    <3>3. QED
      BY <2>1, <3>1, <3>2 DEF PInv, TypeOK
  <2>3. \A w \in wrote' : pc'[w[1]] # "new"
    BY <1>0, <2>1, DoneStays DEF OrderInv
  <2>4. Written(r) = {} /\ \A q \in Reqs : Written(q)' = Written(q)
    BY <2>1 DEF Written, OrderInv
  <2>5. \A q \in Reqs \ {r} : before'[q] = before[q] /\ req'[q] = req[q]
    BY <2>1 DEF PInv, TypeOK
  <2>6. NoLateOverwrite'
    BY <2>1, <2>4, <2>5 DEF OrderInv, NoLateOverwrite
  <2>7. QED
    BY <2>2, <2>3, <2>6 DEF OrderInv
<1>4. QED
  BY <1>1, <1>2, <1>3, StepKinds

(* However upserts are repeated, and whatever the process does in between, *)
(* a row is never overwritten by a request that had been answered before   *)
(* the row's other writer arrived, unless a lost connection comes back.    *)
THEOREM NeverOverwritesLate == Spec => []NoLateOverwrite
<1>1. Init => OrderInv
  BY DEF Init, OrderInv, NoLateOverwrite, Written
<1>2. Spec => []OrderInv
  BY <1>1, OrderStep, PostgresInvariant, PTL DEF Spec
<1>3. OrderInv => NoLateOverwrite
  BY DEF OrderInv
<1>4. QED
  BY <1>2, <1>3, PTL

-----------------------------------------------------------------------------
\* What has been executed so far, against what was asked and answered: the
\* items of a request run in their order, no increment is counted twice, and
\* a restart after a clean stop changes no row.

\* The items of r that were executed are the first n, and the statements that
\* are still pending are of those or of the one after.
FirstItems(r, n) ==
    /\ Written(r) = 1 .. n
    /\ pc[r] = "new" => n = 0
    /\ pc[r] = "item" => n = idx[r] - 1
    /\ pc[r] = "upsert" => n \in {idx[r] - 1, idx[r]}
    /\ pc[r] = "done" => n <= Len(req[r])
    /\ status[r] = "ok" => n = Len(req[r])

PendingItems(r, n) ==
    \A s \in Statements : Pending(s) /\ s.by = r =>
        /\ s.item <= n + 1
        /\ pc[r] = "item" => s.item <= n
        /\ pc[r] = "upsert" => s.item <= idx[r]

AnswerInv == \A r \in Reqs : \E n \in Nat : FirstItems(r, n) /\ PendingItems(r, n)

LEMMA WrittenAfter ==
    ASSUME PInv, NEW s \in Statements, Execute(s), NEW r \in Reqs
    PROVE  Written(r)' = IF s.by = r THEN Written(r) \cup {s.item} ELSE Written(r)
<1>1. wrote' = IF s.by \in Reqs THEN wrote \cup {<<s.by, s.item>>} ELSE wrote
  BY DEF Execute
<1>2. wrote \subseteq Reqs \X Nat /\ s.item \in Nat
  BY DEF PInv, TypeOK, Statements
<1>3. wrote' \subseteq Reqs \X Nat
  BY <1>1, <1>2
<1>4. ASSUME NEW k PROVE k \in Written(r)' <=> k \in Written(r) \/ (s.by = r /\ k = s.item)
  BY <1>1, <1>2, <1>3, PairsOf
<1>5. QED
  BY <1>4 DEF Written

\* One more item, of the first n and the one after, leaves a first part.
LEMMA OneMore ==
    ASSUME NEW n \in Nat, NEW k \in 1 .. n + 1
    PROVE  (1 .. n) \cup {k} = IF k = n + 1 THEN 1 .. n + 1 ELSE 1 .. n
OBVIOUS

\* A step that executes nothing of r and prepares nothing for it, and moves it
\* at most to its end without an answer of 200.
LEMMA AnswerKept ==
    ASSUME PInv, NEW r \in Reqs, NEW n \in Nat, FirstItems(r, n), PendingItems(r, n),
           Written(r)' = Written(r), UNCHANGED <<idx[r], req[r]>>,
           \A s \in Statements : Pending(s)' /\ s.by = r => Pending(s),
           \/ pc'[r] = pc[r] /\ status'[r] = status[r]
           \/ pc[r] # "new" /\ pc'[r] = "done" /\ status'[r] \in {"error", status[r]}
    PROVE  FirstItems(r, n)' /\ PendingItems(r, n)'
<1>1. /\ pc[r] # "new" => Len(req[r]) \in Nat
      /\ pc[r] \in {"item", "upsert"} => idx[r] \in 1 .. Len(req[r])
  BY InputItems DEF PInv, RequestOK
<1>2. pc[r] # "new" => n <= Len(req[r])
  BY <1>1 DEF FirstItems, PInv, TypeOK, Callers
<1>3. FirstItems(r, n)'
  BY <1>2 DEF FirstItems
<1>4. PendingItems(r, n)'
  BY DEF PendingItems
<1>5. QED
  BY <1>3, <1>4

\* A statement of r executed behind its back.
LEMMA AnswerLate ==
    ASSUME PInv, NEW r \in Reqs, NEW n \in Nat, FirstItems(r, n), PendingItems(r, n),
           NEW s \in Statements, Pending(s), s.by = r, Execute(s), Fewer, UNCHANGED callVars
    PROVE  \E m \in Nat : FirstItems(r, m)' /\ PendingItems(r, m)'
<1>1. /\ pc[r] # "new" /\ s.item \in 1 .. Len(req[r]) /\ Len(req[r]) \in Nat
      /\ pc[r] \in {"item", "upsert"} => idx[r] \in 1 .. Len(req[r])
  BY InputItems DEF PInv, StatementOK, RequestOK
<1>2. s.item \in 1 .. n + 1 /\ (pc[r] = "item" => s.item <= n) /\ (pc[r] = "upsert" => s.item <= idx[r])
  BY <1>1 DEF PendingItems
<1>3. Written(r)' = IF s.item = n + 1 THEN 1 .. n + 1 ELSE 1 .. n
  <2>1. Written(r)' = (1 .. n) \cup {s.item}
    BY WrittenAfter DEF FirstItems
  <2>2. (1 .. n) \cup {s.item} = IF s.item = n + 1 THEN 1 .. n + 1 ELSE 1 .. n
    BY <1>2, OneMore
  <2>3. QED
    BY <2>1, <2>2
<1>4. CASE s.item = n + 1
  <2>1. FirstItems(r, n + 1)'
    BY <1>1, <1>2, <1>3, <1>4 DEF FirstItems, callVars, PInv, RequestOK
  <2>2. PendingItems(r, n + 1)'
    BY <1>2, <1>4 DEF PendingItems, Fewer, callVars, Statements
  <2>3. QED
    BY <2>1, <2>2
<1>5. CASE s.item # n + 1
  <2>1. FirstItems(r, n)' /\ PendingItems(r, n)'
    BY <1>3, <1>5, AnswerKept DEF FirstItems, Fewer, callVars
  <2>2. QED
    BY <2>1
<1>6. QED
  BY <1>4, <1>5

\* The call of r at its own statement.
LEMMA AnswerExec ==
    ASSUME PInv, NEW r \in Reqs, NEW n \in Nat, FirstItems(r, n), PendingItems(r, n), Exec(r)
    PROVE  \E m \in Nat : FirstItems(r, m)' /\ PendingItems(r, m)'
<1>. DEFINE s == stmt[r]
<1>0. /\ pc[r] = "upsert" /\ r \in Callers /\ r # Main
      /\ s \in Statements /\ s.by = r /\ s.item = idx[r] /\ Pending(s)
      /\ req[r] \in Inputs /\ Len(req[r]) \in Nat /\ idx[r] \in 1 .. Len(req[r])
      /\ n \in {idx[r] - 1, idx[r]} /\ status[r] = NULL
  BY CallersAre, InputItems
  DEF Exec, At, PInv, TypeOK, CallerOK, RequestOK, Pending, FirstItems
<1>1. Fewer
  BY <1>0, ExecKind DEF Executes, Rests
<1>2. Execute(s) => Written(r)' = 1 .. idx[r]
  <2>1. ASSUME Execute(s) PROVE Written(r)' = (1 .. n) \cup {idx[r]}
    <3>1. Written(r)' = Written(r) \cup {s.item}
      BY <1>0, <2>1, WrittenAfter
    <3>2. QED
      BY <1>0, <3>1 DEF FirstItems
  <2>2. (1 .. n) \cup {idx[r]} = 1 .. idx[r]
    BY <1>0
  <2>3. QED
    BY <2>1, <2>2
<1>3. \/ Execute(s) /\ Written(r)' = 1 .. idx[r]
      \/ Written(r)' = Written(r)
  BY <1>0, <1>2, DatabaseSteps DEF Exec, Written, Lose, dbVars
<1>4. CASE AtDatabase(r, TRUE, NULL) /\ NextItem(r)
  <2>1. Written(r)' = 1 .. idx[r]
    BY <1>0, <1>2, <1>4, DatabaseSteps DEF Exec
  <2>2. /\ req'[r] = req[r]
        /\ \/ pc'[r] = "done" /\ status'[r] = "ok" /\ idx[r] = Len(req[r])
           \/ pc'[r] = "item" /\ status'[r] = NULL /\ idx'[r] = idx[r] + 1
    BY <1>0, <1>4, NextItemKeeps
  <2>4. PICK m \in Nat : m = idx[r]
    BY <1>0
  <2>5. FirstItems(r, m)'
    BY <1>0, <2>1, <2>2, <2>4 DEF FirstItems
  <2>6. \A t \in Statements : Pending(t)' /\ t.by = r => t.item <= m
    BY <1>0, <1>1, <2>4 DEF PendingItems, Fewer
  <2>7. PendingItems(r, m)'
    BY <2>2, <2>4, <2>6 DEF PendingItems, Statements
  <2>8. QED
    BY <2>4, <2>5, <2>7
<1>5. CASE Retry(r) \/ Finish(r, "error")
  <2>1. /\ req'[r] = req[r] /\ idx'[r] = idx[r]
        /\ \/ pc'[r] = "upsert" /\ status'[r] = NULL
           \/ pc'[r] = "done" /\ status'[r] = "error"
    BY <1>0, <1>5, FinishKeeps DEF Retry, Finish, GoTo, PInv, TypeOK
  <2>2. CASE Written(r)' = Written(r)
    <3>1. FirstItems(r, n)' /\ PendingItems(r, n)'
      BY <1>0, <1>1, <2>1, <2>2, AnswerKept DEF Fewer
    <3>2. QED
      BY <3>1
  <2>3. CASE Written(r)' = 1 .. idx[r]
    <3>1. PICK m \in Nat : m = idx[r]
      BY <1>0
    <3>2. FirstItems(r, m)'
      BY <1>0, <2>1, <2>3, <3>1 DEF FirstItems
    <3>3. \A t \in Statements : Pending(t)' /\ t.by = r => t.item <= m
      BY <1>0, <1>1, <3>1 DEF PendingItems, Fewer
    <3>4. PendingItems(r, m)'
      BY <2>1, <3>1, <3>3 DEF PendingItems, Statements
    <3>5. QED
      BY <3>2, <3>4
  <2>4. QED
    BY <1>3, <2>2, <2>3
<1>6. QED
  BY <1>4, <1>5 DEF Exec, GiveUp

LEMMA AnswerStep == PInv /\ AnswerInv /\ [Next]_vars => AnswerInv'
<1>. SUFFICES ASSUME PInv, AnswerInv, [Next]_vars, NEW r \in Reqs
              PROVE  \E m \in Nat : FirstItems(r, m)' /\ PendingItems(r, m)'
  BY DEF AnswerInv
<1>. PICK n \in Nat : FirstItems(r, n) /\ PendingItems(r, n)
  BY DEF AnswerInv
<1>0. r \in Callers /\ r # Main
  BY CallersAre
<1>. DEFINE Kept == FirstItems(r, n)' /\ PendingItems(r, n)'
<1>1. CASE RunStep \/ UNCHANGED vars
  <2>1. UNCHANGED <<callVars, dbVars>>
    BY <1>1 DEF RunStep, Start, Restored, Signal, Drain, Tick, Proceed, vars
  <2>2. Kept
    BY <2>1, AnswerKept DEF callVars, dbVars, Written, Pending, At
  <2>3. QED
    BY <2>2
<1>2. CASE Stop \/ Crash
  <2>1. ProcessEnds
    BY <1>2 DEF Stop, Crash
  <2>2. Fewer /\ Written(r)' = Written(r)
    BY <1>2, EndKind DEF Rests, Written
  <2>3. /\ UNCHANGED <<idx, req, status>>
        /\ pc'[r] = IF pc[r] = "new" THEN "new" ELSE "done"
    BY <1>0, <2>1 DEF ProcessEnds, At
  <2>4. Kept
    BY <2>2, <2>3, AnswerKept DEF Fewer
  <2>5. QED
    BY <2>4
<1>3. ASSUME NEW k \in IDs, RestoreOne(k) PROVE Kept
  <2>1. Prepares(Main) /\ Written(r)' = Written(r) /\ UNCHANGED <<idx, req, status>>
    BY <1>3, RestoreKind DEF Prepares, RestoreOne, Written
  <2>2. pc'[r] = pc[r]
    BY <1>0, <1>3 DEF RestoreOne, Prepare, GoTo, PInv, TypeOK
  <2>3. \A s \in Statements : Pending(s)' /\ s.by = r => Pending(s)
    BY <1>0, <2>1 DEF Prepares
  <2>4. QED
    BY <2>1, <2>2, <2>3, AnswerKept
<1>4. ASSUME NEW q \in Reqs, NEW in \in Inputs, Arrive(q, in)
      PROVE  Kept
  <2>1. /\ Written(r)' = Written(r) /\ pc[q] = "new" /\ UNCHANGED <<idx, status, late, stmt>>
        /\ pc' = [pc EXCEPT ![q] = "item"] /\ req' = [req EXCEPT ![q] = in]
    BY <1>4 DEF Arrive, At, GoTo, dbVars, Written
  <2>2. \A s \in Statements : Pending(s)' => Pending(s)
    BY <2>1, CallersAre DEF Pending, At, PInv, TypeOK
  <2>3. CASE q # r
    BY <1>0, <2>1, <2>2, <2>3, AnswerKept DEF PInv, TypeOK
  <2>4. CASE q = r
    <3>1. pc'[r] = "item" /\ idx'[r] = 1 /\ n = 0 /\ Written(r) = 1 .. 0 /\ status'[r] = NULL
      BY <1>0, <2>1, <2>4 DEF PInv, TypeOK, RequestOK, FirstItems
    <3>2. FirstItems(r, n)'
      <4>1. pc'[r] # "done" /\ status'[r] # "ok" /\ n = idx'[r] - 1 /\ Written(r)' = 1 .. n
        BY <2>1, <3>1, PostgresAssumption
      <4>2. QED
        BY <3>1, <4>1 DEF FirstItems
    <3>3. \A s \in Statements : ~(Pending(s)' /\ s.by = r)
      BY <2>1, <2>2, <2>4 DEF PInv, StatementOK
    <3>4. PendingItems(r, n)'
      BY <3>3 DEF PendingItems
    <3>5. QED
      BY <3>2, <3>4
  <2>5. QED
    BY <2>3, <2>4
<1>5. ASSUME NEW q \in Reqs, Handler(q) PROVE Kept
  <2>0. /\ Prepares(q) \/ (Rests /\ Finish(q, "error"))
        /\ pc[q] = "item" /\ UNCHANGED <<req, idx>> /\ Written(r)' = Written(r) /\ q \in Callers
    BY <1>5, HandlerKind, CallersAre
    DEF Handler, SelectCounter, SetGauge, Prepare, Finish, At, dbVars, Written
  <2>1. CASE q = r /\ ~Finish(r, "error")
    <3>1. /\ pc'[r] = "upsert" /\ status' = status /\ stmt'[r].item = idx[r]
          /\ stmt'[r] \in Statements
          /\ \A s \in Statements : Pending(s)' => Pending(s) \/ s = stmt'[r]
      <4>1. /\ pc' = [pc EXCEPT ![r] = "upsert"] /\ status' = status
            /\ stmt'[r].item = idx[r]
        BY <1>0, <1>5, <2>1 DEF Handler, SelectCounter, SetGauge, Prepare, GoTo, PInv, TypeOK
      <4>2. pc'[r] = "upsert"
        BY <1>0, <4>1 DEF PInv, TypeOK
      <4>3. Prepares(r)
        BY <2>0, <2>1
      <4>4. QED
        BY <4>1, <4>2, <4>3 DEF Prepares
    <3>2. FirstItems(r, n)'
      BY <2>0, <2>1, <3>1 DEF FirstItems, PInv, RequestOK
    <3>3. n = idx[r] - 1 /\ idx[r] \in Nat
      BY <2>0, <2>1 DEF FirstItems, PInv, TypeOK
    <3>4. ASSUME NEW s \in Statements, Pending(s)', s.by = r
          PROVE  s.item <= n + 1
      <4>1. s.item \in Nat
        BY DEF Statements
      <4>2. CASE Pending(s)
        BY <3>4, <4>2 DEF PendingItems
      <4>3. CASE s = stmt'[r]
        BY <3>1, <3>3, <4>3
      <4>4. QED
        BY <3>1, <3>4, <4>2, <4>3
    <3>5. PendingItems(r, n)'
      BY <2>0, <3>1, <3>3, <3>4 DEF PendingItems
    <3>6. QED
      BY <3>2, <3>5
  <2>2. CASE q = r /\ Finish(r, "error")
    <3>1. pc'[r] = "done" /\ status'[r] = "error" /\ Rests
      BY <1>0, <2>0, <2>2, FinishKeeps DEF Finish, GoTo, PInv, TypeOK, Prepares
    <3>2. QED
      BY <2>0, <2>2, <3>1, AnswerKept DEF Rests, Fewer
  <2>3. CASE q # r
    <3>1. pc'[r] = pc[r] /\ status'[r] = status[r]
      BY <1>0, <1>5, <2>0, <2>3, FinishKeeps
      DEF Handler, SelectCounter, SetGauge, Prepare, GoTo, PInv, TypeOK
    <3>2. \A s \in Statements : Pending(s)' /\ s.by = r => Pending(s)
      BY <2>0, <2>3 DEF Prepares, Rests, Fewer
    <3>3. QED
      BY <2>0, <3>1, <3>2, AnswerKept
  <2>4. QED
    BY <2>1, <2>2, <2>3
<1>6. ASSUME NEW c \in Callers \ {r}, Exec(c) PROVE Kept
  <2>1. /\ stmt[c] \in Statements /\ stmt[c].by = c /\ pc[c] = "upsert"
        /\ Executes(stmt[c]) \/ Rests
    BY <1>6, ExecKind DEF Exec, PInv, CallerOK, At
  <2>2. Fewer /\ Written(r)' = Written(r) /\ req' = req
    BY <2>1, WrittenAfter DEF Executes, Rests, Written
  <2>3. idx'[r] = idx[r] /\ pc'[r] = pc[r] /\ status'[r] = status[r]
    <3>1. CASE NextItem(c)
      BY <1>0, <1>6, <2>1, <3>1, NextItemKeeps
    <3>2. CASE Finish(c, "error")
      BY <1>0, <1>6, <2>1, <3>2, FinishKeeps
    <3>3. CASE Retry(c)
      BY <3>3 DEF Retry
    <3>4. QED
      BY <1>6, <3>1, <3>2, <3>3 DEF Exec, GiveUp
  <2>4. QED
    BY <2>2, <2>3, AnswerKept DEF Fewer
<1>7. ASSUME Exec(r) PROVE \E m \in Nat : FirstItems(r, m)' /\ PendingItems(r, m)'
  BY <1>7, AnswerExec
<1>8. ASSUME NEW s \in late, ExecuteLate(s)
      PROVE  \E m \in Nat : FirstItems(r, m)' /\ PendingItems(r, m)'
  <2>1. s \in Statements /\ Pending(s) /\ Execute(s) /\ Fewer /\ UNCHANGED callVars
    BY <1>8, LateKind DEF PInv, TypeOK, Executes, ExecuteLate
  <2>2. CASE s.by = r
    BY <2>1, <2>2, AnswerLate
  <2>3. CASE s.by # r
    <3>1. Written(r)' = Written(r)
      BY <2>1, <2>3, WrittenAfter
    <3>2. Kept
      BY <2>1, <3>1, AnswerKept DEF Fewer, callVars
    <3>3. QED
      BY <3>2
  <2>4. QED
    BY <2>2, <2>3
<1>9. QED
  BY <1>1, <1>2, <1>3, <1>4, <1>5, <1>6, <1>7, <1>8 DEF Next, RunStep, Off

LEMMA AnswerInvariant == Spec => []AnswerInv
<1>1. Init => AnswerInv
  <2>. SUFFICES ASSUME Init, NEW r \in Reqs PROVE FirstItems(r, 0) /\ PendingItems(r, 0)
    BY DEF AnswerInv
  <2>1. pc[r] = "new" /\ Written(r) = {} /\ status[r] # "ok"
    BY CallersAre, PostgresAssumption DEF Init, Written
  <2>2. \A s : ~Pending(s)
    BY DEF Init, Pending, At
  <2>3. QED
    BY <2>1, <2>2 DEF FirstItems, PendingItems
<1>2. QED
  BY <1>1, AnswerStep, PostgresInvariant, PTL DEF Spec

(* Through retries, lost connections and kills: a request answered 200 has *)
(* had every item executed, and one that was not has had its first ones,   *)
(* in their order, and no other.                                           *)
THEOREM AnswersMeanExecution == Spec => []AnswerMeansExecuted
<1>1. PInv /\ AnswerInv => AnswerMeansExecuted
  <2>. SUFFICES ASSUME PInv, AnswerInv, NEW r \in Reqs, status[r] # NULL
                PROVE  /\ \E n \in 0 .. Len(req[r]) : Written(r) = 1 .. n
                       /\ status[r] = "ok" => Written(r) = 1 .. Len(req[r])
    BY DEF AnswerMeansExecuted
  <2>1. PICK n \in Nat : FirstItems(r, n)
    BY DEF AnswerInv
  <2>2. pc[r] = "done" /\ Len(req[r]) \in Nat
    BY InputItems DEF PInv, RequestOK
  <2>3. QED
    BY <2>1, <2>2 DEF FirstItems
<1>2. QED
  BY <1>1, AnswerInvariant, PostgresInvariant, PTL

-----------------------------------------------------------------------------
\* Every delta the server holds for a name lies between 0 and the sum of the
\* increments executed for it, and that of a pending statement exceeds it at
\* most by the statement's own increment while that is not counted yet.
Within(m, bound) == m # NULL /\ m.delta # NULL => m.delta \in 0 .. bound

Owed(s) ==
    IF s.by \in Reqs /\ <<s.by, s.item>> \notin wrote /\ req[s.by][s.item].delta # NULL
    THEN req[s.by][s.item].delta ELSE 0

DueTo(s) == given[s.id] + Owed(s)

HeldWithin ==
    \A k \in IDs : given[k] < HalfRange =>
        /\ Within(rows[k], given[k])
        /\ Within(toLoad[k], given[k])
        /\ file # NULL => Within(file[k], given[k])

CountInv ==
    /\ \A k \in IDs : given[k] >= 0
    /\ HeldWithin
    /\ \A s \in Statements : Pending(s) /\ DueTo(s) < HalfRange => Within(s.metric, DueTo(s))

LEMMA OwedIsNat ==
    ASSUME NonNegative, PInv, NEW s \in Statements, Pending(s)
    PROVE  Owed(s) \in Nat
<1>. SUFFICES ASSUME s.by \in Reqs, req[s.by][s.item].delta # NULL
              PROVE  req[s.by][s.item].delta \in Nat
  BY DEF Owed
<1>1. req[s.by] \in Inputs /\ s.item \in 1 .. Len(req[s.by])
  BY DEF PInv, StatementOK, RequestOK
<1>2. req[s.by][s.item].delta \in Int
  BY <1>1, InputItems, MetricsAssumption DEF Items, Deltas
<1>3. req[s.by][s.item].delta >= 0
  BY <1>1 DEF NonNegative
<1>4. QED
  BY <1>2, <1>3

LEMMA WithinMore ==
    ASSUME NEW m, NEW a \in Int, NEW b \in Int, a <= b, Within(m, a)
    PROVE  Within(m, b)
BY DEF Within

\* Executing s counts what s owed, and nothing else.
LEMMA GivenAfter ==
    ASSUME NonNegative, PInv, NEW s \in Statements, Pending(s), Execute(s)
    PROVE  /\ given'[s.id] = given[s.id] + Owed(s)
           /\ \A k \in IDs \ {s.id} : given'[k] = given[k]
           /\ s.by \in Reqs => <<s.by, s.item>> \in wrote'
           /\ wrote \subseteq wrote'
           /\ \A w \in wrote' : w \in wrote \/ (s.by \in Reqs /\ w = <<s.by, s.item>>)
<1>1. given \in [IDs -> Int] /\ s.id \in IDs
  BY DEF PInv, TypeOK, Statements
<1>2. Owed(s) \in Nat
  BY OwedIsNat
<1>3. CASE s.by \in Reqs
  <2>. DEFINE d == req[s.by][s.item].delta
  <2>1. given' = IF d = NULL \/ <<s.by, s.item>> \in wrote THEN given
                 ELSE [given EXCEPT ![s.id] = @ + d]
    BY <1>3 DEF Execute
  <2>2. Owed(s) = IF d = NULL \/ <<s.by, s.item>> \in wrote THEN 0 ELSE d
    BY <1>3 DEF Owed
  <2>. HIDE DEF d
  <2>3. /\ given'[s.id] = given[s.id] + Owed(s)
        /\ \A k \in IDs \ {s.id} : given'[k] = given[k]
    BY <1>1, <2>1, <2>2
  <2>4. QED
    BY <1>3, <2>3 DEF Execute
<1>4. CASE s.by \notin Reqs
  BY <1>1, <1>4 DEF Execute, Owed
<1>5. QED
  BY <1>3, <1>4

\* A statement that stays pending is due at least as much.
LEMMA DueGrows ==
    ASSUME NonNegative, PInv, NEW s \in Statements, Pending(s), Execute(s), req' = req,
           NEW t \in Statements, Pending(t)
    PROVE  DueTo(t) \in Int /\ DueTo(t)' \in Int /\ DueTo(t) <= DueTo(t)'
<1>1. given \in [IDs -> Int] /\ s.id \in IDs /\ t.id \in IDs
  BY DEF PInv, TypeOK, Statements
<1>2. Owed(s) \in Nat /\ Owed(t) \in Nat
  BY OwedIsNat
<1>3. CASE Owed(t)' = Owed(t)
  <2>0. /\ given'[s.id] = given[s.id] + Owed(s)
        /\ \A k \in IDs \ {s.id} : given'[k] = given[k]
    BY GivenAfter
  <2>1. given[t.id] <= given'[t.id] /\ given'[t.id] \in Int
    BY <1>1, <1>2, <2>0
  <2>2. QED
    BY <1>1, <1>2, <1>3, <2>1 DEF DueTo
<1>4. CASE Owed(t)' # Owed(t)
  <2>1. t.by \in Reqs /\ s.by = t.by /\ s.item = t.item /\ <<t.by, t.item>> \in wrote'
        /\ <<t.by, t.item>> \notin wrote
    BY <1>4, GivenAfter DEF Owed
  <2>2. s.id = t.id /\ Owed(s) = Owed(t) /\ Owed(t)' = 0
    BY <2>1 DEF Owed, PInv, StatementOK
  <2>3. given'[t.id] = given[t.id] + Owed(t)
    BY <2>2, GivenAfter
  <2>4. QED
    BY <1>1, <1>2, <2>2, <2>3 DEF DueTo
<1>5. QED
  BY <1>3, <1>4

LEMMA CountExecutes ==
    ASSUME NonNegative, PInv, CountInv, NEW s \in Statements, Executes(s)
    PROVE  CountInv'
<1>0. /\ Pending(s) /\ Execute(s) /\ Fewer /\ req' = req /\ file' = file
      /\ toLoad' \in {toLoad, EmptyMap} /\ s.id \in IDs /\ given \in [IDs -> Int]
  BY DEF Executes, Statements, PInv, TypeOK
<1>1. Owed(s) \in Nat
  BY <1>0, OwedIsNat
<1>2. /\ given'[s.id] = DueTo(s)
      /\ \A k \in IDs \ {s.id} : given'[k] = given[k]
  BY <1>0, GivenAfter DEF DueTo
<1>3. \A k \in IDs : given'[k] \in Int /\ given[k] <= given'[k]
  BY <1>0, <1>1, <1>2 DEF DueTo
<1>4. rows' = [rows EXCEPT ![s.id] = s.metric]
  BY <1>0 DEF Execute, Upsert
<1>5. HeldWithin'
  <2>. SUFFICES ASSUME NEW k \in IDs, given'[k] < HalfRange
                PROVE  /\ Within(rows'[k], given'[k])
                       /\ Within(toLoad'[k], given'[k])
                       /\ file # NULL => Within(file[k], given'[k])
    BY <1>0 DEF HeldWithin, Within
  <2>1. given[k] < HalfRange /\ given[k] \in Int /\ given'[k] \in Int /\ given[k] <= given'[k]
    BY <1>0, <1>3, MetricsAssumption
  <2>2. Within(toLoad[k], given'[k]) /\ (file # NULL => Within(file[k], given'[k]))
    BY <2>1, WithinMore DEF CountInv, HeldWithin
  <2>3. Within(toLoad'[k], given'[k])
    BY <1>0, <2>2 DEF Within, EmptyMap
  <2>4. Within(rows'[k], given'[k])
    <3>1. CASE k = s.id
      <4>1. rows'[k] = s.metric /\ DueTo(s) < HalfRange
        BY <1>0, <1>2, <1>4, <3>1 DEF PInv, TypeOK, MetricMaps
      <4>2. QED
        BY <1>0, <1>2, <3>1, <4>1 DEF CountInv
    <3>2. CASE k # s.id
      <4>1. rows'[k] = rows[k] /\ given'[k] = given[k]
        BY <1>0, <1>2, <1>4, <3>2 DEF PInv, TypeOK, MetricMaps
      <4>2. QED
        BY <2>1, <4>1 DEF CountInv, HeldWithin
    <3>3. QED
      BY <3>1, <3>2
  <2>5. QED
    BY <2>2, <2>3, <2>4
<1>6. ASSUME NEW t \in Statements, Pending(t)', DueTo(t)' < HalfRange
      PROVE  Within(t.metric, DueTo(t)')
  <2>1. Pending(t)
    BY <1>0, <1>6 DEF Fewer
  <2>2. DueTo(t) \in Int /\ DueTo(t)' \in Int /\ DueTo(t) <= DueTo(t)'
    BY <1>0, <2>1, DueGrows
  <2>3. DueTo(t) < HalfRange
    BY <1>6, <2>2, MetricsAssumption
  <2>4. QED
    BY <2>1, <2>2, <2>3, WithinMore DEF CountInv
<1>7. \A k \in IDs : given'[k] >= 0
  BY <1>0, <1>3 DEF CountInv
<1>8. QED
  BY <1>5, <1>6, <1>7 DEF CountInv, Within

\* The statement a handler prepares owes its item, which is not counted yet.
LEMMA HandlerOwes ==
    ASSUME NonNegative, PInv, AnswerInv, CountInv, NEW r \in Reqs, Handler(r), Prepares(r),
           NEW t, t = stmt'[r], DueTo(t)' < HalfRange
    PROVE  Within(t.metric, DueTo(t)')
<1>0. /\ pc[r] = "item" /\ idx[r] \in Nat /\ r \in Callers /\ r # Main
      /\ UNCHANGED <<wrote, req, given>> /\ ~Finish(r, "error")
  BY FinishKeeps, CallersAre DEF Handler, SelectCounter, SetGauge, At, Prepares, PInv, TypeOK
<1>. DEFINE it == Item(r)
            d  == it.delta
<1>1. it \in Items /\ Valid(it) /\ it.id \in IDs /\ it = req[r][idx[r]]
  BY <1>0, ItemIsItem DEF Item
<1>2. d # NULL => d \in Nat
  <2>1. req[r] \in Inputs /\ idx[r] \in 1 .. Len(req[r])
    BY <1>0 DEF PInv, RequestOK
  <2>2. QED
    BY <1>1, <2>1, MetricsAssumption DEF NonNegative, Items, Deltas
<1>3. <<r, idx[r]>> \notin wrote
  <2>1. PICK n \in Nat : FirstItems(r, n)
    BY DEF AnswerInv
  <2>2. idx[r] \notin Written(r)
    BY <1>0, <2>1 DEF FirstItems
  <2>3. QED
    BY <2>2, PairsOf DEF PInv, TypeOK
<1>4. \E m : /\ t = [by |-> r, item |-> idx[r], id |-> it.id, metric |-> m]
             /\ \/ it.mtype = "gauge" /\ m = Stored(it, d)
                \/ it.mtype = "counter" /\ Base(rows[it.id]) # NULL
                   /\ m = Stored(it, Add(Base(rows[it.id]), d))
  BY <1>0 DEF Handler, SetGauge, SelectCounter, Prepare, PInv, TypeOK
<1>5. PICK m : /\ t = [by |-> r, item |-> idx[r], id |-> it.id, metric |-> m]
               /\ \/ it.mtype = "gauge" /\ m = Stored(it, d)
                  \/ it.mtype = "counter" /\ Base(rows[it.id]) # NULL
                     /\ m = Stored(it, Add(Base(rows[it.id]), d))
  BY <1>4
<1>6. DueTo(t)' = given[it.id] + (IF d = NULL THEN 0 ELSE d)
  BY <1>0, <1>1, <1>3, <1>5 DEF DueTo, Owed
<1>7. given[it.id] \in Nat
  BY <1>1 DEF CountInv, PInv, TypeOK
<1>. HIDE DEF it
<1>8. CASE it.mtype = "gauge"
  <2>1. t.metric.delta = d
    BY <1>5, <1>8 DEF Stored
  <2>2. QED
    BY <1>2, <1>6, <1>7, <2>1 DEF Within
<1>9. CASE it.mtype = "counter"
  <2>. DEFINE b == Base(rows[it.id])
  <2>1. t.metric.delta = Add(b, d) /\ b # NULL
    BY <1>5, <1>9 DEF Stored
  <2>2. d \in Deltas /\ d \in Nat /\ d # NULL
    BY <1>1, <1>2, <1>9 DEF Valid, Items
  <2>3. given[it.id] < HalfRange /\ given[it.id] + d < HalfRange
    BY <1>6, <1>7, <2>2, MetricsAssumption
  <2>4. b \in 0 .. given[it.id]
    BY <1>1, <1>7, <2>1, <2>3 DEF CountInv, HeldWithin, Within, Base
  <2>. HIDE DEF b
  <2>5. b \in Deltas /\ b + d \in Deltas
    BY <1>7, <2>2, <2>3, <2>4, MetricsAssumption DEF Deltas
  <2>6. Add(b, d) = b + d
    BY <2>2, <2>5, AddInRange
  <2>7. QED
    BY <1>6, <1>7, <2>1, <2>2, <2>4, <2>6 DEF Within
<1>10. QED
  BY <1>5, <1>8, <1>9

LEMMA CountStep == NonNegative /\ PInv /\ AnswerInv /\ CountInv /\ [Next]_vars => CountInv'
<1>. SUFFICES ASSUME NonNegative, PInv, AnswerInv, CountInv, [Next]_vars PROVE CountInv'
  OBVIOUS
<1>1. ASSUME NEW s \in Statements, Executes(s) PROVE CountInv'
  BY <1>1, CountExecutes
<1>2. CASE Rests
  <2>1. UNCHANGED <<rows, given, wrote, req>> /\ Fewer
    BY <1>2 DEF Rests
  <2>2. HeldWithin'
    BY <1>2, <2>1 DEF Rests, CountInv, HeldWithin, Within, EmptyMap
  <2>3. \A s : DueTo(s)' = DueTo(s)
    BY <2>1 DEF DueTo, Owed
  <2>4. QED
    BY <2>1, <2>2, <2>3 DEF CountInv, Fewer, Within
<1>3. ASSUME NEW r \in Reqs, NEW in \in Inputs, Arrive(r, in) PROVE CountInv'
  <2>1. /\ UNCHANGED <<rows, toLoad, file, given, wrote, late, stmt>> /\ pc[r] = "new"
        /\ pc' = [pc EXCEPT ![r] = "item"] /\ req' = [req EXCEPT ![r] = in]
    BY <1>3 DEF Arrive, At, GoTo, dbVars
  <2>2. HeldWithin'
    BY <2>1 DEF CountInv, HeldWithin, Within
  <2>3. ASSUME NEW s \in Statements, Pending(s)' PROVE Pending(s) /\ DueTo(s)' = DueTo(s)
    <3>1. Pending(s)
      BY <2>1, <2>3, CallersAre DEF Pending, At, PInv, TypeOK
    <3>2. s.by \in Reqs => s.by # r
      BY <2>1, <3>1 DEF PInv, StatementOK
    <3>3. s.by \in Reqs => req'[s.by] = req[s.by]
      BY <2>1, <3>2 DEF PInv, TypeOK
    <3>4. QED
      BY <2>1, <3>1, <3>3 DEF DueTo, Owed
  <2>4. QED
    BY <2>1, <2>2, <2>3 DEF CountInv, Within
<1>4. ASSUME NEW c \in Callers, Prepares(c) PROVE CountInv'
  <2>0. PICK t \in Statements : t = stmt'[c]
    BY <1>4 DEF Prepares
  <2>1. /\ UNCHANGED <<rows, given, wrote, req, file>> /\ t.by = c
        /\ \A s \in Statements : Pending(s)' => Pending(s) \/ s = t
    BY <1>4, <2>0 DEF Prepares
  <2>2. \A s : DueTo(s)' = DueTo(s)
    BY <2>1 DEF DueTo, Owed
  <2>3. \A k \in IDs : toLoad'[k] \in {toLoad[k], NULL}
    BY <1>4 DEF Prepares, RestoreOne, PInv, TypeOK, MetricMaps
  <2>4. HeldWithin'
    BY <2>1, <2>3 DEF CountInv, HeldWithin, Within
  <2>5. ASSUME DueTo(t)' < HalfRange PROVE Within(t.metric, DueTo(t)')
    <3>1. CASE c \in Reqs
      <4>1. Handler(c)
        BY <1>4, <3>1, CallersAre DEF Prepares
      <4>2. QED
        BY <1>4, <2>0, <2>5, <3>1, <4>1, HandlerOwes
    <3>2. CASE c = Main
      <4>1. PICK k \in IDs : RestoreOne(k)
        BY <1>4, <3>2, CallersAre DEF Prepares
      <4>2. t.id = k /\ t.metric = toLoad[k] /\ t.by = Main
        BY <2>0, <3>2, <4>1 DEF RestoreOne, Prepare, PInv, TypeOK
      <4>3. DueTo(t)' = given[k] /\ given[k] \in Int
        BY <2>1, <4>2, CallersAre DEF DueTo, Owed, PInv, TypeOK
      <4>4. QED
        BY <2>5, <4>2, <4>3 DEF CountInv, HeldWithin
    <3>3. QED
      BY <3>1, <3>2 DEF Callers
  <2>6. ASSUME NEW s \in Statements, Pending(s)', DueTo(s)' < HalfRange
        PROVE  Within(s.metric, DueTo(s)')
    BY <2>1, <2>2, <2>5, <2>6 DEF CountInv
  <2>7. QED
    BY <2>1, <2>4, <2>6 DEF CountInv, Within
<1>5. QED
  BY <1>1, <1>2, <1>3, <1>4, StepKinds

(* With increments of no negative value, however often an upsert is        *)
(* repeated, executed late or restored from the file, no name's delta      *)
(* exceeds what was executed under it, until that sum leaves int64.        *)
THEOREM NothingCountedTwice == Spec => []RetriesCountOnce
<1>1. CASE NonNegative
  <2>1. Init => CountInv
    <3>. SUFFICES ASSUME Init PROVE CountInv
      OBVIOUS
    <3>1. \A k \in IDs : given[k] = 0 /\ rows[k] = NULL /\ toLoad[k] = NULL
      BY DEF Init, EmptyMap
    <3>2. file = NULL /\ \A s : ~Pending(s)
      BY DEF Init, Pending, At
    <3>3. QED
      BY <3>1, <3>2 DEF CountInv, HeldWithin, Within
  <2>2. PInv /\ AnswerInv /\ CountInv /\ [Next]_vars => CountInv'
    BY <1>1, CountStep
  <2>3. CountInv => RetriesCountOnce
    BY DEF CountInv, HeldWithin, Within, RetriesCountOnce
  <2>4. QED
    BY <2>1, <2>2, <2>3, AnswerInvariant, PostgresInvariant, PTL DEF Spec
<1>2. CASE ~NonNegative
  <2>1. RetriesCountOnce
    BY <1>2 DEF RetriesCountOnce
  <2>2. QED
    BY <2>1, PTL
<1>3. QED
  BY <1>1, <1>2

-----------------------------------------------------------------------------
\* After a stop that saved the rows, the file and what is read of it agree with
\* them until a request arrives or a lost connection comes back.
CleanInv ==
    /\ phase = "closing" /\ ~expired => InFlight = {}
    /\ kept # NULL => InFlight = {}
    /\ kept # NULL /\ ~stale =>
         /\ rows = kept /\ file = kept
         /\ \A k \in IDs : toLoad[k] \in {NULL, kept[k]}
         /\ pc[Main] = "upsert" => stmt[Main].metric = kept[stmt[Main].id]

\* While no handler runs only Main is at a statement.
LEMMA MainExec ==
    ASSUME PInv, CleanInv, Exec(Main)
    PROVE  CleanInv'
<1>0. /\ pc[Main] = "upsert" /\ stmt[Main] \in Statements /\ stmt[Main].by = Main
      /\ UNCHANGED <<phase, file, expired, kept>>
      /\ Main \in Callers /\ Main \notin Reqs
  BY CallersAre DEF Exec, At, PInv, CallerOK
<1>1. /\ \A r \in Reqs : pc'[r] = pc[r]
      /\ toLoad' \in {toLoad, EmptyMap}
      /\ pc'[Main] = "upsert" => stmt'[Main] = stmt[Main]
  <2>1. CASE NextItem(Main)
    BY <1>0, <2>1, NextItemKeeps DEF Callers
  <2>2. CASE Finish(Main, "error")
    BY <1>0, <2>2, FinishKeeps DEF Callers
  <2>3. CASE Retry(Main)
    BY <2>3 DEF Retry
  <2>4. QED
    BY <2>1, <2>2, <2>3 DEF Exec, GiveUp
<1>2. InFlight' = InFlight
  BY <1>1 DEF InFlight
<1>3. stale' = stale /\ rows' \in {rows, [rows EXCEPT ![stmt[Main].id] = stmt[Main].metric]}
  BY <1>0, DatabaseSteps DEF Exec, Execute, Upsert, Lose, dbVars
<1>4. ASSUME kept # NULL, ~stale PROVE rows' = rows
  BY <1>0, <1>3, <1>4 DEF CleanInv, PInv, TypeOK, MetricMaps, Statements
<1>5. QED
  BY <1>0, <1>1, <1>2, <1>3, <1>4 DEF CleanInv, EmptyMap

LEMMA CleanRun ==
    ASSUME PInv, CleanInv, RunStep
    PROVE  CleanInv'
<1>1. UNCHANGED <<callVars, dbVars, kept>> /\ InFlight' = InFlight
  BY DEF RunStep, Start, Restored, Signal, Drain, Tick, Proceed, callVars, InFlight
<1>2. phase' = "closing" /\ ~expired' => InFlight = {}
  BY DEF RunStep, Start, Restored, Signal, Drain, Tick, Proceed, CleanInv
<1>3. file' = file \/ file' = rows
  BY DEF RunStep, Start, Restored, Signal, Drain, Tick, Proceed
<1>4. toLoad' \in {toLoad, EmptyMap, file}
  BY DEF RunStep, Start, Restored, Signal, Drain, Tick, Proceed
<1>5. QED
  BY <1>1, <1>2, <1>3, <1>4 DEF CleanInv, EmptyMap, callVars, dbVars

LEMMA CleanEnds ==
    ASSUME PInv, CleanInv, Stop \/ Crash
    PROVE  CleanInv'
<1>1. ProcessEnds
  BY DEF Stop, Crash
<1>2. /\ rows' = rows /\ stale' = stale /\ toLoad' = EmptyMap /\ phase' = "down"
      /\ \A c \in Callers : pc'[c] \in {"new", "done"}
  BY <1>1 DEF ProcessEnds, Lose
<1>3. InFlight' = {}
  BY <1>2, CallersAre DEF InFlight
<1>4. \/ UNCHANGED <<file, kept>>
      \/ file' = rows /\ kept' = rows
      \/ kept' = NULL
  BY DEF Stop, Crash
<1>5. QED
  BY <1>2, <1>3, <1>4, CallersAre DEF CleanInv, EmptyMap

\* A step of a request: once kept is set none is under way.
LEMMA CleanRequest ==
    ASSUME PInv, CleanInv, NEW r \in Reqs,
           Handler(r) \/ Exec(r) \/ \E in \in Inputs : Arrive(r, in)
    PROVE  CleanInv'
<1>1. CASE Handler(r) \/ Exec(r)
  <2>1. r \in InFlight /\ UNCHANGED <<phase, expired, kept>>
    BY <1>1 DEF Handler, SelectCounter, SetGauge, Exec, At, InFlight, runVars
  <2>2. kept = NULL /\ ~(phase = "closing" /\ ~expired)
    BY <2>1 DEF CleanInv
  <2>3. QED
    BY <2>1, <2>2 DEF CleanInv
<1>2. ASSUME NEW in \in Inputs, Arrive(r, in) PROVE CleanInv'
  BY <1>2 DEF Arrive, CleanInv
<1>3. QED
  BY <1>1, <1>2

LEMMA CleanRestore ==
    ASSUME PInv, CleanInv, NEW k \in IDs, RestoreOne(k)
    PROVE  CleanInv'
<1>0. Main \in Callers /\ Main \notin Reqs
  BY CallersAre
<1>1. /\ UNCHANGED <<dbVars, phase, file, expired, kept>>
      /\ toLoad[k] # NULL /\ toLoad' = [toLoad EXCEPT ![k] = NULL]
      /\ pc' = [pc EXCEPT ![Main] = "upsert"]
      /\ stmt' = [stmt EXCEPT ![Main] = [by |-> Main, item |-> 0, id |-> k, metric |-> toLoad[k]]]
  BY DEF RestoreOne, Prepare, GoTo
<1>2. stmt'[Main].id = k /\ stmt'[Main].metric = toLoad[k]
  BY <1>0, <1>1 DEF PInv, TypeOK
<1>3. InFlight' = InFlight
  BY <1>0, <1>1 DEF InFlight, PInv, TypeOK
<1>4. \A n \in IDs : toLoad'[n] \in {toLoad[n], NULL}
  BY <1>1 DEF PInv, TypeOK, MetricMaps
<1>5. QED
  BY <1>1, <1>2, <1>3, <1>4 DEF CleanInv, dbVars

LEMMA CleanStep == PInv /\ CleanInv /\ [Next]_vars => CleanInv'
<1>. SUFFICES ASSUME PInv, CleanInv, [Next]_vars PROVE CleanInv'
  OBVIOUS
<1>1. ASSUME NEW s \in late, ExecuteLate(s) PROVE CleanInv'
  BY <1>1 DEF ExecuteLate, CleanInv, callVars, runVars, InFlight
<1>2. CASE UNCHANGED vars
  BY <1>2 DEF vars, CleanInv, callVars, dbVars, runVars, InFlight
<1>3. ASSUME NEW r \in Reqs,
             Handler(r) \/ Exec(r) \/ \E in \in Inputs : Arrive(r, in)
      PROVE  CleanInv'
  BY <1>3, CleanRequest
<1>4. ASSUME NEW k \in IDs, RestoreOne(k) PROVE CleanInv'
  BY <1>4, CleanRestore
<1>5. QED
  BY <1>1, <1>2, <1>3, <1>4, CleanRun, CleanEnds, MainExec
  DEF Next, RunStep, Off, Callers

(* The file is restored over the rows at every start: after a stop that    *)
(* could save them this changes none, wherever the restore is cut short    *)
(* and whatever ticks save in its middle.                                  *)
THEOREM RestartKeepsRows == Spec => []CleanRestartKeepsRows
<1>1. Init => CleanInv
  BY DEF Init, CleanInv
<1>2. CleanInv => CleanRestartKeepsRows
  BY DEF CleanInv, CleanRestartKeepsRows
<1>3. QED
  BY <1>1, <1>2, CleanStep, PostgresInvariant, PTL DEF Spec

-----------------------------------------------------------------------------
\* What a statement of a request was prepared with, and when Main is at one.
PreparedInv ==
    /\ \A r \in Reqs : pc[r] = "new" => req[r] = NULL
    /\ pc[Main] = "upsert" => phase = "restoring"
    /\ \A r \in Reqs : pc[r] = "upsert" =>
          /\ stmt[r].metric = Stored(Item(r), stmt[r].metric.delta)
          /\ Item(r).mtype = "gauge" => stmt[r].metric.delta = Item(r).delta

\* A caller keeps its statement as long as it stays at it.
LEMMA StatementKept ==
    ASSUME PInv, NEW c \in Callers, Exec(c)
    PROVE  /\ UNCHANGED <<req, phase>>
           /\ \A d \in Callers \ {c} : pc'[d] = pc[d] /\ stmt'[d] = stmt[d]
           /\ \A r \in Reqs \ {c} : idx'[r] = idx[r]
           /\ pc[c] = "upsert" /\ (c \in Reqs => pc'[c] # "new")
           /\ pc'[c] = "upsert" => stmt'[c] = stmt[c] /\ (c \in Reqs => idx'[c] = idx[c])
<1>0. pc[c] = "upsert" /\ UNCHANGED phase
  BY DEF Exec, At
<1>1. CASE NextItem(c)
  BY <1>0, <1>1, NextItemKeeps DEF Callers
<1>2. CASE Finish(c, "error")
  BY <1>0, <1>2, FinishKeeps DEF Finish, GoTo, PInv, TypeOK
<1>3. CASE Retry(c)
  BY <1>0, <1>3 DEF Retry
<1>4. QED
  BY <1>1, <1>2, <1>3 DEF Exec, GiveUp

LEMMA PreparedStep == PInv /\ PreparedInv /\ [Next]_vars => PreparedInv'
<1>. SUFFICES ASSUME PInv, PreparedInv, [Next]_vars PROVE PreparedInv'
  OBVIOUS
<1>0. Main \in Callers /\ Main \notin Reqs /\ Reqs \subseteq Callers
  BY CallersAre
<1>1. CASE RunStep \/ UNCHANGED vars
  <2>1. UNCHANGED callVars
    BY <1>1 DEF RunStep, Start, Restored, Signal, Drain, Tick, Proceed, vars
  <2>2. pc[Main] = "upsert" => phase' = phase
    BY <1>1 DEF RunStep, Start, Restored, Signal, Drain, Tick, Proceed, vars, runVars, At, PreparedInv
  <2>3. QED
    BY <2>1, <2>2 DEF PreparedInv, callVars, Item
<1>2. CASE Stop \/ Crash
  <2>1. /\ req' = req
        /\ \A c \in Callers : pc'[c] # "upsert" /\ (pc'[c] = "new" /\ c # Main => pc[c] = "new")
    BY <1>2 DEF Stop, Crash, ProcessEnds, At
  <2>2. QED
    BY <1>0, <2>1 DEF PreparedInv
<1>3. ASSUME NEW s \in late, ExecuteLate(s) PROVE PreparedInv'
  BY <1>3 DEF ExecuteLate, PreparedInv, callVars, runVars, Item
<1>4. ASSUME NEW c \in Callers, Exec(c) PROVE PreparedInv'
  BY <1>0, <1>4, StatementKept DEF PreparedInv, Item
<1>5. ASSUME NEW q \in Reqs, NEW in \in Inputs, Arrive(q, in) PROVE PreparedInv'
  <2>1. /\ UNCHANGED <<idx, stmt, phase>> /\ pc'[q] = "item"
        /\ \A d \in Callers \ {q} : pc'[d] = pc[d]
        /\ \A r \in Reqs \ {q} : req'[r] = req[r]
    BY <1>0, <1>5 DEF Arrive, GoTo, PInv, TypeOK
  <2>2. QED
    BY <1>0, <2>1 DEF PreparedInv, Item
<1>6. ASSUME NEW c \in Callers, NEW k, NEW id, NEW m, Prepare(c, k, id, m), UNCHANGED <<req, idx>>,
             c = Main => phase' = "restoring",
             c \in Reqs => /\ phase' = phase
                           /\ m = Stored(Item(c), m.delta)
                           /\ Item(c).mtype = "gauge" => m.delta = Item(c).delta
      PROVE  PreparedInv'
  <2>1. /\ pc'[c] = "upsert" /\ stmt'[c].metric = m
        /\ \A d \in Callers \ {c} : pc'[d] = pc[d] /\ stmt'[d] = stmt[d]
    BY <1>6 DEF Prepare, GoTo, PInv, TypeOK
  <2>2. \A r \in Reqs : Item(r)' = Item(r) /\ req'[r] = req[r]
    BY <1>6 DEF Item
  <2>3. ASSUME NEW r \in Reqs, pc'[r] = "upsert"
        PROVE  /\ stmt'[r].metric = Stored(Item(r), stmt'[r].metric.delta)
               /\ Item(r).mtype = "gauge" => stmt'[r].metric.delta = Item(r).delta
    <3>1. CASE r = c
      BY <1>6, <2>1, <3>1
    <3>2. CASE r # c
      <4>1. pc[r] = "upsert" /\ stmt'[r] = stmt[r]
        BY <1>0, <2>1, <2>3, <3>2
      <4>2. QED
        BY <4>1 DEF PreparedInv
    <3>3. QED
      BY <3>1, <3>2
  <2>4. ASSUME NEW r \in Reqs, pc'[r] = "new" PROVE req'[r] = NULL
    BY <1>0, <2>1, <2>2, <2>4 DEF PreparedInv
  <2>5. pc'[Main] = "upsert" => phase' = "restoring"
    BY <1>0, <1>6, <2>1 DEF PreparedInv, Callers
  <2>6. QED
    BY <2>2, <2>3, <2>4, <2>5 DEF PreparedInv
<1>7. ASSUME NEW k \in IDs, RestoreOne(k) PROVE PreparedInv'
  BY <1>0, <1>6, <1>7 DEF RestoreOne
<1>8. ASSUME NEW r \in Reqs, Handler(r) PROVE PreparedInv'
  <2>1. CASE SetGauge(r)
    BY <1>0, <1>6, <1>8, <2>1 DEF SetGauge, Stored, runVars
  <2>2. CASE SelectCounter(r) /\ Finish(r, "error")
    <3>1. pc[r] # "new" /\ UNCHANGED phase
      BY <2>2 DEF SelectCounter, At
    <3>2. /\ req' = req /\ idx' = idx
          /\ \A d \in Callers : pc'[d] # pc[d] => d = r /\ pc'[r] = "done"
          /\ pc'[r] = "done"
          /\ \A d \in Callers \ {r} : stmt'[d] = stmt[d]
      BY <1>0, <2>2, <3>1, FinishKeeps DEF Finish, GoTo, PInv, TypeOK
    <3>3. QED
      BY <1>0, <3>1, <3>2 DEF PreparedInv, Item
  <2>3. CASE SelectCounter(r) /\ ~Finish(r, "error")
    <3>1. PICK d : Prepare(r, idx[r], Item(r).id, Stored(Item(r), d))
      BY <2>3 DEF SelectCounter
    <3>2. UNCHANGED <<req, idx, phase>> /\ Item(r).mtype = "counter"
      BY <2>3 DEF SelectCounter
    <3>3. QED
      BY <1>0, <1>6, <3>1, <3>2 DEF Stored
  <2>4. QED
    BY <1>8, <2>1, <2>2, <2>3 DEF Handler
<1>9. QED
  BY <1>1, <1>2, <1>3, <1>4, <1>5, <1>7, <1>8 DEF Next, RunStep, Off

Requested == [r \in Reqs |-> IF req[r] = NULL THEN NULL ELSE Batch(req[r])]

\* The first execution of an upsert applies its item, any later one nothing.
LEMMA ExecuteApplies ==
    ASSUME PInv, AnswerInv, PreparedInv, Undisturbed, NEW r \in Reqs,
           pc[r] = "upsert", Execute(stmt[r]), req' = req
    PROVE  UNCHANGED <<rows, wrote, given>> \/ Table!AMNext
<1>. DEFINE k  == idx[r]
            it == Item(r)
            s  == stmt[r]
<1>1. /\ s \in Statements /\ s.by = r /\ s.item = k /\ Pending(s) /\ r \in Callers
      /\ k \in 1 .. Len(req[r]) /\ req[r] \in Inputs
      /\ s.id = it.id
  <2>1. /\ s \in Statements /\ s.by = r /\ s.item = k /\ r \in Callers
        /\ k \in 1 .. Len(req[r]) /\ req[r] \in Inputs
    BY CallersAre DEF PInv, CallerOK, RequestOK
  <2>2. Pending(s)
    BY <2>1 DEF Pending, At
  <2>3. req[r][k].id = s.id
    BY <2>1, <2>2 DEF PInv, StatementOK
  <2>4. QED
    BY <2>1, <2>2, <2>3 DEF Item
<1>2. it \in Items /\ Valid(it) /\ it.id \in IDs /\ k \in Nat /\ req[r] # NULL
  BY <1>1, InputItems, PostgresAssumption DEF Item
<1>3. rows \in MetricMaps /\ given \in [IDs -> Int] /\ wrote \subseteq Reqs \X Nat
  BY DEF PInv, TypeOK
<1>4. /\ rows' = [rows EXCEPT ![it.id] = s.metric]
      /\ wrote' = wrote \cup {<<r, k>>}
      /\ given' = IF it.delta = NULL \/ <<r, k>> \in wrote THEN given
                  ELSE [given EXCEPT ![it.id] = @ + it.delta]
  BY <1>1 DEF Execute, Upsert, Item
<1>5. CASE <<r, k>> \in wrote
  <2>1. rows[it.id] = s.metric
    BY <1>5 DEF Undisturbed, Intact, At
  <2>2. rows' = rows
    BY <1>2, <1>3, <1>4, <2>1 DEF MetricMaps
  <2>3. QED
    BY <1>4, <1>5, <2>2
<1>6. CASE <<r, k>> \notin wrote
  <2>1. /\ Requested[r] = Batch(req[r]) /\ Requested[r] # NULL
        /\ Requested[r].kind = "batch" /\ Requested[r].items = req[r] /\ req[r][k] = it
    BY <1>1, <1>2, PostgresAssumption DEF Requested, Batch, Item
  <2>2. k \in Table!Wanted(r)
    BY <1>1, <1>2, <2>1 DEF Table!Wanted, Requested
  <2>3. \A j \in 1 .. k : <<r, j>> \in wrote <=> j < k
    <3>1. PICK n \in Nat : FirstItems(r, n)
      BY DEF AnswerInv
    <3>2. n \in {k - 1, k} /\ \A j \in Nat : <<r, j>> \in wrote <=> j \in 1 .. n
      BY <1>3, <3>1, PairsOf DEF FirstItems
    <3>3. k \notin 1 .. n
      BY <1>2, <1>6, <3>2
    <3>4. n = k - 1
      BY <1>1, <1>2, <3>2, <3>3
    <3>5. QED
      BY <1>2, <3>2, <3>4
  <2>4. Table!Update(it)
    <3>1. /\ Table!Valid(it) /\ \A m : Table!Base(m) = Base(m)
          /\ \A x, y : Table!Add(x, y) = Add(x, y)
          /\ \A i, d : Table!Stored(i, d) = Stored(i, d)
      BY <1>2 DEF Table!Valid, Valid, Table!Base, Base, Table!Add, Add, Table!Wrap, Wrap,
                  Table!Stored, Stored
    <3>2. given' = [given EXCEPT ![it.id] = IF it.delta = NULL THEN @ ELSE @ + it.delta]
      BY <1>2, <1>3, <1>4, <1>6
    <3>3. s.metric = Stored(it, s.metric.delta)
      BY DEF PreparedInv
    <3>4. CASE it.mtype = "counter"
      <4>1. Base(rows[it.id]) # NULL /\ s.metric.delta = Add(Base(rows[it.id]), it.delta)
        BY <1>6, <3>4 DEF Undisturbed, Intact, At
      <4>2. rows' = [rows EXCEPT ![it.id] = Stored(it, Add(Base(rows[it.id]), it.delta))]
        BY <1>4, <3>3, <4>1
      <4>3. QED
        BY <3>1, <3>2, <3>4, <4>1, <4>2 DEF Table!Update
    <3>5. CASE it.mtype = "gauge"
      <4>1. s.metric.delta = it.delta
        BY <3>5 DEF PreparedInv
      <4>2. rows' = [rows EXCEPT ![it.id] = Stored(it, it.delta)]
        BY <1>4, <3>3, <4>1
      <4>3. QED
        BY <3>1, <3>2, <3>5, <4>2 DEF Table!Update
    <3>6. QED
      BY <1>2, <3>4, <3>5 DEF Valid
  <2>5. Table!Apply(r, k)
    BY <1>4, <2>1, <2>3, <2>4 DEF Table!Apply, Requested
  <2>6. QED
    BY <2>2, <2>5 DEF Table!AMNext
<1>7. QED
  BY <1>5, <1>6

\* What is restored after a clean stop is there already.
LEMMA RestoreChangesNothing ==
    ASSUME PInv, CleanInv, PreparedInv, Calm, pc[Main] = "upsert", Execute(stmt[Main])
    PROVE  UNCHANGED <<rows, wrote, given>>
<1>1. /\ stmt[Main] \in Statements /\ stmt[Main].by = Main /\ Main \notin Reqs
  BY CallersAre DEF PInv, CallerOK
<1>2. kept # NULL /\ ~stale
  BY DEF PreparedInv, Calm, CleanRuns, At
<1>3. rows = kept /\ stmt[Main].metric = kept[stmt[Main].id]
  BY <1>2 DEF CleanInv
<1>4. rows' = [rows EXCEPT ![stmt[Main].id] = rows[stmt[Main].id]]
  BY <1>3 DEF Execute, Upsert
<1>5. rows' = rows
  BY <1>1, <1>4 DEF PInv, TypeOK, MetricMaps
<1>6. QED
  BY <1>1, <1>5 DEF Execute

LEMMA TableStep ==
    ASSUME PInv, AnswerInv, CleanInv, PreparedInv, [Next]_vars, Calm, Calm'
    PROVE  [Table!AMNext]_(Table!absVars)
<1>1. ASSUME UNCHANGED <<rows, wrote, given, req>> PROVE UNCHANGED Table!absVars
  BY <1>1 DEF Table!absVars
<1>2. ASSUME NEW s \in Statements, Executes(s) PROVE [Table!AMNext]_(Table!absVars)
  <2>1. /\ s.by \in Callers /\ pc[s.by] = "upsert" /\ s = stmt[s.by]
        /\ Execute(stmt[s.by]) /\ req' = req
    BY <1>2 DEF Executes, Calm, CleanRuns, At
  <2>2. CASE s.by = Main
    BY <1>1, <2>1, <2>2, RestoreChangesNothing
  <2>3. CASE s.by \in Reqs
    BY <1>1, <2>1, <2>3, ExecuteApplies DEF Calm
  <2>4. QED
    BY <2>1, <2>2, <2>3 DEF Callers
<1>3. ASSUME NEW r \in Reqs, NEW in \in Inputs, Arrive(r, in) PROVE Table!AMNext
  <2>1. /\ req[r] = NULL /\ req' = [req EXCEPT ![r] = in] /\ in # NULL
        /\ UNCHANGED <<rows, wrote, given>>
    BY <1>3, PostgresAssumption DEF Arrive, PreparedInv, At, dbVars
  <2>2. req \in [Reqs -> Inputs \cup {NULL}]
    BY DEF PInv, TypeOK
  <2>3. Requested[r] = NULL /\ Requested' = [Requested EXCEPT ![r] = Batch(in)]
    BY <2>1, <2>2 DEF Requested
  <2>4. Table!Ask(r, Batch(in))
    BY <2>1, <2>3 DEF Table!Ask, Requested
  <2>5. QED
    BY <2>4 DEF Table!AMNext
<1>4. Rests \/ (\E c \in Callers : Prepares(c)) => UNCHANGED <<rows, wrote, given, req>>
  BY DEF Rests, Prepares
<1>5. QED
  BY StepKinds, <1>1, <1>2, <1>3, <1>4

LEMMA TableInvariant == Spec => [](PInv /\ AnswerInv /\ CleanInv /\ PreparedInv)
<1>1. Init => CleanInv /\ PreparedInv
  BY CallersAre DEF Init, CleanInv, PreparedInv
<1>2. QED
  BY <1>1, PostgresInvariant, AnswerInvariant, CleanStep, PreparedStep, PTL DEF Spec

(* Whatever error the database answers with and whether or not it had      *)
(* executed the upsert, between calm states the table takes a step of the  *)
(* atomic service or none: for any retries, kills, restores and ticks.     *)
THEOREM FailuresAreInvisible == Spec => FailuresInvisible
<1>1. PInv /\ AnswerInv /\ CleanInv /\ PreparedInv /\ [Next]_vars
      => [Calm /\ Calm' => [Table!AMNext]_(Table!absVars)]_vars
  BY TableStep
<1>2. QED
  BY TableInvariant, <1>1, PTL DEF Spec, FailuresInvisible

(* Over Postgres, too, the server implements the atomic service as long as *)
(* it stays calm, with the batches as its requests.                        *)
LEMMA CalmTableIsAtomic == Spec /\ []Calm => Table!AMSpec
<1>1. Init => Table!AMInit
  <2> SUFFICES ASSUME Init PROVE Table!AMInit
    OBVIOUS
  <2>1. \A r \in Reqs : req[r] = NULL
    BY DEF Init
  <2>2. [r \in Reqs |-> IF req[r] = NULL THEN NULL ELSE Batch(req[r])]
        = [r \in Reqs |-> NULL]
    BY <2>1
  <2>3. rows = Table!EmptyMap /\ wrote = {} /\ given = [k \in IDs |-> 0]
    BY DEF Init, EmptyMap, Table!EmptyMap
  <2>4. QED
    BY <2>2, <2>3 DEF Table!AMInit
<1>2. PInv /\ AnswerInv /\ CleanInv /\ PreparedInv /\ [Next]_vars
      => (Calm /\ Calm' => [Table!AMNext]_(Table!absVars))
  BY TableStep
<1>3. QED
  BY TableInvariant, <1>1, <1>2, PTL DEF Spec, Table!AMSpec

-----------------------------------------------------------------------------
\* Only a server that serves has handlers.
IdleInv == phase \in {"down", "restoring"} => InFlight = {}

LEMMA IdleStep == PInv /\ IdleInv /\ [Next]_vars => IdleInv'
<1>. SUFFICES ASSUME PInv, IdleInv, [Next]_vars PROVE IdleInv'
  OBVIOUS
<1>1. CASE RunStep \/ UNCHANGED vars
  BY <1>1 DEF RunStep, Start, Restored, Signal, Drain, Tick, Proceed, vars, callVars, runVars,
              IdleInv, InFlight
<1>2. CASE Stop \/ Crash
  <2>1. \A r \in Reqs : pc'[r] \in {"new", "done"}
    BY <1>2, CallersAre DEF Stop, Crash, ProcessEnds, At
  <2>2. QED
    BY <2>1 DEF IdleInv, InFlight
<1>3. ASSUME NEW s \in late, ExecuteLate(s) PROVE IdleInv'
  BY <1>3 DEF ExecuteLate, callVars, runVars, IdleInv, InFlight
<1>4. ASSUME NEW c \in Callers, Exec(c) PROVE IdleInv'
  BY <1>4, CallersAre, StatementKept DEF IdleInv, InFlight
<1>5. ASSUME NEW r \in Reqs, NEW in \in Inputs, Arrive(r, in) PROVE IdleInv'
  BY <1>5 DEF Arrive, IdleInv
<1>6. ASSUME NEW r \in Reqs, Handler(r) PROVE IdleInv'
  <2>1. phase' = phase /\ r \in InFlight
    BY <1>6 DEF Handler, SelectCounter, SetGauge, runVars, At, InFlight
  <2>2. QED
    BY <2>1 DEF IdleInv
<1>7. ASSUME NEW k \in IDs, RestoreOne(k) PROVE IdleInv'
  BY <1>7, CallersAre DEF RestoreOne, Prepare, GoTo, PInv, TypeOK, IdleInv, InFlight
<1>8. QED
  BY <1>1, <1>2, <1>3, <1>4, <1>5, <1>6, <1>7 DEF Next, RunStep, Off

\* Unless two requests race for a row, it stays as its handler knows it.
LEMMA UndisturbedStep ==
    ASSUME PInv, AnswerInv, PreparedInv, IdleInv, Raceless, Undisturbed, [Next]_vars, ~stale'
    PROVE  Undisturbed'
<1>0. Main \in Callers /\ Main \notin Reqs /\ Reqs \subseteq Callers
  BY CallersAre
<1>. SUFFICES ASSUME NEW r \in Reqs, pc'[r] = "upsert" PROVE Intact(r)'
  BY DEF Undisturbed, At
<1>1. ASSUME pc[r] = "upsert", stmt'[r] = stmt[r], idx'[r] = idx[r], req'[r] = req[r],
             rows'[Item(r).id] = rows[Item(r).id], <<r, idx[r]>> \in wrote' <=> <<r, idx[r]>> \in wrote
      PROVE  Intact(r)'
  <2>1. Intact(r) /\ Item(r)' = Item(r)
    BY <1>1 DEF Undisturbed, At, Item
  <2>2. QED
    BY <1>1, <2>1 DEF Intact
<1>2. CASE RunStep \/ UNCHANGED vars
  <2>1. UNCHANGED <<callVars, dbVars>>
    BY <1>2 DEF RunStep, Start, Restored, Signal, Drain, Tick, Proceed, vars
  <2>2. QED
    BY <1>1, <2>1 DEF callVars, dbVars
<1>3. CASE Stop \/ Crash
  <2>1. pc'[r] # "upsert"
    BY <1>0, <1>3 DEF Stop, Crash, ProcessEnds
  <2>2. QED
    BY <2>1
<1>4. ASSUME NEW s \in late, ExecuteLate(s) PROVE Intact(r)'
  BY <1>4 DEF ExecuteLate
<1>5. ASSUME NEW q \in Reqs, NEW in \in Inputs, Arrive(q, in) PROVE Intact(r)'
  <2>1. /\ UNCHANGED <<idx, stmt, rows, wrote>> /\ pc'[q] = "item" /\ pc'[r] # "item"
        /\ \A d \in Reqs \ {q} : pc'[d] = pc[d] /\ req'[d] = req[d]
    BY <1>0, <1>5 DEF Arrive, GoTo, PInv, TypeOK, dbVars
  <2>2. QED
    BY <1>1, <2>1
<1>6. ASSUME NEW k \in IDs, RestoreOne(k) PROVE Intact(r)'
  <2>1. UNCHANGED <<req, idx, rows, wrote>> /\ pc'[r] = pc[r] /\ stmt'[r] = stmt[r]
    BY <1>0, <1>6 DEF RestoreOne, Prepare, GoTo, PInv, TypeOK, dbVars
  <2>2. QED
    BY <1>1, <2>1
<1>7. ASSUME NEW q \in Reqs, Handler(q) PROVE Intact(r)'
  <2>1. UNCHANGED <<req, rows, wrote>> /\ pc[q] = "item" /\ Item(q).mtype \in {"counter", "gauge"}
    BY <1>7 DEF Handler, SelectCounter, SetGauge, Prepare, Finish, At, dbVars
  <2>2. \/ Finish(q, "error")
        \/ \E d : /\ Prepare(q, idx[q], Item(q).id, Stored(Item(q), d)) /\ idx' = idx
                  /\ Item(q).mtype = "counter" =>
                        Base(rows[Item(q).id]) # NULL /\ d = Add(Base(rows[Item(q).id]), Item(q).delta)
    BY <1>7 DEF Handler, SelectCounter, SetGauge
  <2>3. CASE q # r
    <3>1. pc'[r] = pc[r] /\ stmt'[r] = stmt[r] /\ idx'[r] = idx[r]
      BY <1>0, <2>2, <2>3 DEF Finish, Prepare, GoTo, PInv, TypeOK
    <3>2. QED
      BY <1>1, <2>1, <3>1
  <2>4. CASE q = r
    <3>1. pc'[r] # "upsert" \/ ~Finish(r, "error")
      BY <1>0 DEF Finish, GoTo, PInv, TypeOK
    <3>2. PICK d : /\ Prepare(r, idx[r], Item(r).id, Stored(Item(r), d)) /\ idx' = idx
                   /\ Item(r).mtype = "counter" =>
                         Base(rows[Item(r).id]) # NULL /\ d = Add(Base(rows[Item(r).id]), Item(r).delta)
      BY <2>2, <2>4, <3>1
    <3>3. stmt'[r].metric = Stored(Item(r), d) /\ Stored(Item(r), d).delta = d
      BY <1>0, <3>2 DEF Prepare, PInv, TypeOK, Stored
    <3>4. <<r, idx[r]>> \notin wrote
      <4>1. PICK n \in Nat : FirstItems(r, n)
        BY DEF AnswerInv
      <4>2. n = idx[r] - 1 /\ idx[r] \in Nat /\ Written(r) = 1 .. n
        BY <2>1, <2>4, <4>1 DEF FirstItems, PInv, TypeOK
      <4>3. wrote \subseteq Reqs \X Nat
        BY DEF PInv, TypeOK
      <4>4. QED
        BY <4>2, <4>3, PairsOf
    <3>5. Item(r)' = Item(r) /\ idx'[r] = idx[r]
      BY <2>1, <3>2 DEF Item
    <3>6. QED
      BY <2>1, <3>2, <3>3, <3>4, <3>5 DEF Intact
  <2>5. QED
    BY <2>3, <2>4
<1>8. ASSUME NEW c \in Callers, Exec(c) PROVE Intact(r)'
  <2>1. /\ pc[c] = "upsert" /\ UNCHANGED req
        /\ pc[r] = "upsert" /\ stmt'[r] = stmt[r] /\ idx'[r] = idx[r]
    BY <1>0, <1>8, StatementKept
  <2>2. c \in Reqs
    <3>1. pc[Main] # "upsert"
      BY <2>1 DEF PreparedInv, IdleInv, InFlight
    <3>2. QED
      BY <2>1, <3>1 DEF Callers
  <2>3. UNCHANGED <<rows, wrote>> \/ Execute(stmt[c])
    BY <1>8 DEF Exec, AtDatabase, Lose, dbVars
  <2>4. CASE UNCHANGED <<rows, wrote>>
    BY <1>1, <2>1, <2>4
  <2>5. CASE Execute(stmt[c])
    <3>1. stmt[c] \in Statements /\ stmt[c].by = c /\ stmt[c].item = idx[c] /\ Pending(stmt[c])
      BY <2>1, <2>2 DEF PInv, CallerOK, Pending, At
    <3>2. stmt[c].id = Item(c).id
      BY <2>2, <3>1 DEF PInv, StatementOK, Item
    <3>3. /\ rows' = [rows EXCEPT ![Item(c).id] = stmt[c].metric]
          /\ wrote' = wrote \cup {<<c, idx[c]>>}
      BY <2>2, <2>5, <3>1, <3>2 DEF Execute, Upsert
    <3>4. rows \in [IDs -> Metric \cup {NULL}] /\ Item(c).id \in IDs
      BY <3>1, <3>2 DEF PInv, TypeOK, MetricMaps, Statements
    <3>5. CASE c = r
      <4>1. rows'[Item(r).id] = stmt[r].metric /\ <<r, idx[r]>> \in wrote'
        BY <3>3, <3>4, <3>5
      <4>2. Item(r)' = Item(r)
        BY <2>1 DEF Item
      <4>3. QED
        BY <2>1, <4>1, <4>2 DEF Intact
    <3>6. CASE c # r
      <4>1. Item(c).id # Item(r).id
        BY <2>1, <2>2, <3>6 DEF Raceless, At
      <4>2. rows'[Item(r).id] = rows[Item(r).id]
        BY <3>3, <3>4, <4>1
      <4>3. <<r, idx[r]>> \in wrote' <=> <<r, idx[r]>> \in wrote
        BY <3>3, <3>6
      <4>4. QED
        BY <1>1, <2>1, <4>2, <4>3
    <3>7. QED
      BY <3>5, <3>6
  <2>6. QED
    BY <2>3, <2>4, <2>5
<1>9. QED
  BY <1>2, <1>3, <1>4, <1>5, <1>6, <1>7, <1>8 DEF Next, RunStep, Off

(* Three things only lose an update over Postgres: a statement that is     *)
(* executed on a lost connection, a restore of a file older than the rows, *)
(* and two requests at an upsert of one row at the same time.  In every    *)
(* behaviour without them, through any errors, retries and kills, the      *)
(* server implements the atomic service.                                   *)
THEOREM RacelessTableIsAtomic == Spec /\ [](CleanRuns /\ Raceless) => Table!AMSpec
<1>1. Init => IdleInv /\ Undisturbed
  BY CallersAre DEF Init, IdleInv, InFlight, Undisturbed, At
<1>2. /\ PInv /\ AnswerInv /\ PreparedInv /\ IdleInv /\ Raceless /\ CleanRuns' /\ [Next]_vars
      => (Undisturbed => Undisturbed')
  BY UndisturbedStep DEF CleanRuns
<1>3. CleanRuns /\ Undisturbed => Calm
  BY DEF Calm
<1>4. QED
  BY TableInvariant, CalmTableIsAtomic, IdleStep, <1>1, <1>2, <1>3, PTL DEF Spec

\* What is proved about the atomic service.
TableP == INSTANCE AtomicMetricsProofs
          WITH store <- rows, applied <- wrote, total <- given,
               Inputs <- {Batch(in) : in \in Inputs}, asked <- Requested

LEMMA TableSums == Table!AMSpec => []Table!SumOfCounters
<1>1. TableP!RequestsOK
  <2>1. TableP!Items = Items
    BY DEF TableP!Items, Items, TableP!Types, Types, TableP!Deltas, Deltas
  <2>2. \A in \in Inputs : Batch(in).items = in /\ in \in Seq(Items)
    BY PostgresAssumption DEF Batch
  <2>3. \A in \in Inputs : Batch(in).items \in Seq(TableP!Items) \cup {NULL}
    BY <2>1, <2>2
  <2>4. QED
    BY <2>3, PostgresAssumption DEF TableP!RequestsOK
<1>2. TableP!AMSpec => []TableP!SumOfCounters
  BY <1>1, TableP!AtomicCountersSum, MetricsAssumption
<1>3. Table!AMInit => TableP!AMInit
  BY DEF Table!AMInit, TableP!AMInit, Table!EmptyMap, TableP!EmptyMap, Requested
<1>4. [Table!AMNext]_(Table!absVars) => [TableP!AMNext]_(TableP!absVars)
  <2>1. \A it : Table!Update(it) => TableP!Update(it)
    BY DEF Table!Update, TableP!Update, Table!Valid, TableP!Valid, Table!Base, TableP!Base,
           Table!Add, TableP!Add, Table!Wrap, TableP!Wrap, Table!Stored, TableP!Stored
  <2>2. Table!AMNext => TableP!AMNext
    BY <2>1 DEF Table!AMNext, TableP!AMNext, Table!Ask, TableP!Ask, Requested,
                Table!Wanted, TableP!Wanted, Table!Apply, TableP!Apply
  <2>3. QED
    BY <2>2 DEF Table!absVars, TableP!absVars, Requested
<1>5. TableP!SumOfCounters => Table!SumOfCounters
  BY DEF TableP!SumOfCounters, TableP!AppliedTo, TableP!Deltas,
         Table!SumOfCounters, Table!AppliedTo, Table!Deltas, Requested
<1>6. QED
  BY <1>2, <1>3, <1>4, <1>5, PTL DEF Table!AMSpec, TableP!AMSpec

(* The rows then hold the sums of all updates that were executed: an error *)
(* or a retry neither loses an increment nor counts one twice.             *)
THEOREM TableCountersSum ==
    Spec /\ [](CleanRuns /\ Raceless) => []Table!SumOfCounters
BY RacelessTableIsAtomic, TableSums, PTL
=============================================================================
