--------------------------- MODULE PostgresServer ---------------------------
(***************************************************************************)
(* The server over Postgres: PGStorage (internal/repository) behind the    *)
(* update handlers, and the life of Run around it.  The rows outlive the   *)
(* process.  An upsert is run again after some errors (pkg/helpers/retry), *)
(* and an error need not mean that the database did nothing: the statement *)
(* may have been executed, or be executed later on its lost connection.    *)
(* Run still has its file: it is restored OVER the rows at a start, saved  *)
(* from them by the ticker and at a stop.  What the steps of a save do to  *)
(* the file is the subject of FileStorage; here a save is one step.        *)
(***************************************************************************)
EXTENDS Metrics, Sequences, FiniteSets

CONSTANTS
    Reqs,             \* update requests: each is sent once
    Inputs,           \* the metrics an update may carry
    Main,             \* the goroutine of Run, which restores the file
    Codes,            \* SQLSTATEs the database may answer with
    RetryAttempts,    \* extra attempts of WithBackoff, 3 in the code
    DrainMayTimeOut,  \* whether handlers may outlast Shutdown's 10 seconds
    MaxLate,          \* bound: statements on lost connections at a time
    MaxStarts         \* bound: starts of the process

\* An update as a request of AtomicMetrics.
Batch(in) == [kind |-> "batch", items |-> in]

ASSUME PostgresAssumption ==
    /\ Main \notin Reqs
    /\ Inputs \subseteq Seq(Items) \ {<<>>}
    /\ \A in \in Inputs : \A k \in 1 .. Len(in) : Valid(in[k])
    /\ NULL \notin Inputs \cup Reqs \cup MetricMaps \cup {"ok", "error"}
    /\ NULL \notin {Batch(in) : in \in Inputs}
    /\ RetryAttempts \in Nat
    /\ MaxLate \in Nat
    /\ MaxStarts \in Nat
    /\ DrainMayTimeOut \in BOOLEAN

VARIABLES
    rows,        \* the table of metrics
    late,        \* statements still to be executed on connections that are lost
    req, pc, idx,\* the requests: what was asked, where the handler is, its item
    status,      \* what the client was answered
    stmt,        \* the upsert a goroutine is at
    attempt,     \* attempts of it that failed
    phase,       \* where Run is
    file,        \* the metrics in the file, NULL when there is none
    toLoad,      \* what LoadMetrics read and has not stored yet
    expired,     \* Shutdown used up the 10 seconds of the context it was given
    starts,
    given,       \* history: the sum of the deltas executed under each name
    wrote,       \* history: <<r, k>> for each item k of r that was executed
    before,      \* history: the requests that were answered when r arrived
    writer,      \* history: the request whose upsert a row is from
    kept,        \* history: the rows at the last stop that saved them with no
                 \* handler running; NULL once a request has arrived since
    stale        \* history: a statement was executed on a lost connection

callVars    == <<req, pc, idx, status, stmt, attempt>>
dbVars      == <<rows, late, given, wrote, writer, stale>>
runVars     == <<phase, file, toLoad, expired, starts, kept>>
vars        == <<callVars, dbVars, runVars, before>>

Callers    == Reqs \cup {Main}
Statements == [by : Callers, item : Nat, id : IDs, metric : Metric]
Phases     == {"down", "restoring", "serving", "draining", "closing"}

TypeOK ==
    /\ rows \in MetricMaps
    /\ late \subseteq Statements
    /\ req \in [Reqs -> Inputs \cup {NULL}]
    /\ pc \in [Callers -> {"new", "item", "upsert", "done"}]
    /\ idx \in [Reqs -> Nat]
    /\ status \in [Reqs -> {"ok", "error", NULL}]
    /\ stmt \in [Callers -> Statements \cup {NULL}]
    /\ attempt \in [Callers -> 0 .. RetryAttempts]
    /\ phase \in Phases
    /\ file \in MetricMaps \cup {NULL}
    /\ toLoad \in MetricMaps
    /\ expired \in BOOLEAN
    /\ starts \in 0 .. MaxStarts
    /\ given \in [IDs -> Int]
    /\ wrote \subseteq Reqs \X Nat
    /\ before \in [Reqs -> SUBSET Reqs]
    /\ writer \in [IDs -> Reqs \cup {NULL}]
    /\ kept \in MetricMaps \cup {NULL}
    /\ stale \in BOOLEAN

Init ==
    /\ rows = EmptyMap
    /\ late = {}
    /\ req = [r \in Reqs |-> NULL]
    /\ pc = [c \in Callers |-> "new"]
    /\ idx = [r \in Reqs |-> 1]
    /\ status = [r \in Reqs |-> NULL]
    /\ stmt = [c \in Callers |-> NULL]
    /\ attempt = [c \in Callers |-> 0]
    /\ phase = "down"
    /\ file = NULL
    /\ toLoad = EmptyMap
    /\ expired = FALSE
    /\ starts = 0
    /\ given = [k \in IDs |-> 0]
    /\ wrote = {}
    /\ before = [r \in Reqs |-> {}]
    /\ writer = [k \in IDs |-> NULL]
    /\ kept = NULL
    /\ stale = FALSE

-----------------------------------------------------------------------------
\* The database, and what may go wrong between it and pgx.

\* The codes that ClassifyPgError calls Retriable: a lost connection (08), a
\* rolled back transaction (40) and a database that is starting (57P03).
RetriableCodes == {"08000", "08003", "08006", "40000", "40001", "40P01", "57P03"}

\* timeout: of the network.  reset: any other end of the connection.
\* canceled: the client of the request has gone.
Errors == Codes \cup {"timeout", "reset", "canceled"}

IsRetriable(e) == e \in RetriableCodes \cup {"timeout"}

RetryLaterMutant(c, e) == IsRetriable(e) /\ attempt[c] <= RetryAttempts

\* WithBackoff sleeps and calls again.
RetryLater(c, e) == IsRetriable(e) /\ attempt[c] < RetryAttempts

Running == phase # "down"

\* INSERT ... ON CONFLICT (id) DO UPDATE: the whole row is replaced.
Upsert(s) == rows' = [rows EXCEPT ![s.id] = s.metric]

\* The database executes s.
Execute(s) ==
    /\ Upsert(s)
    /\ IF s.by \in Reqs
       THEN LET d == req[s.by][s.item].delta IN
            /\ given' = IF d = NULL \/ <<s.by, s.item>> \in wrote THEN given
                        ELSE [given EXCEPT ![s.id] = @ + d]
            /\ wrote' = wrote \cup {<<s.by, s.item>>}
            /\ writer' = [writer EXCEPT ![s.id] = s.by]
       ELSE /\ writer' = [writer EXCEPT ![s.id] = NULL]
            /\ UNCHANGED <<given, wrote>>

\* The connection is lost before the database gets to s.
Lose(S) ==
    /\ late' = late \cup S
    /\ Cardinality(late') <= MaxLate
    /\ UNCHANGED <<rows, given, wrote, writer, stale>>

\* What the database does with c's upsert when c is told nil or an error: an
\* SQLSTATE means that it was rolled back, any other error nothing.
AtDatabase(c, nil, e) ==
    \/ (nil \/ e \notin Codes) /\ Execute(stmt[c]) /\ UNCHANGED <<late, stale>>
    \/ ~nil /\ UNCHANGED dbVars
    \/ ~nil /\ e \notin Codes /\ Lose({stmt[c]})

ExecuteLate(s) ==
    /\ s \in late
    /\ Execute(s)
    /\ late' = late \ {s}
    /\ stale' = TRUE
    /\ UNCHANGED <<callVars, runVars, before>>

-----------------------------------------------------------------------------
\* SetNewMetric and setCounterMetric of one item after the other, as UpdateBatch
\* calls them, and SetMetric of a restore.

At(c, stage)   == pc[c] = stage
GoTo(c, stage) == pc' = [pc EXCEPT ![c] = stage]
InFlight == {r \in Reqs : pc[r] \notin {"new", "done"}}
Item(r)  == req[r][idx[r]]

Arrive(r, in) ==
    /\ phase = "serving"
    /\ At(r, "new")
    /\ req' = [req EXCEPT ![r] = in]
    /\ before' = [before EXCEPT ![r] = {q \in Reqs : status[q] # NULL}]
    /\ GoTo(r, "item")
    /\ kept' = NULL
    /\ UNCHANGED <<idx, status, stmt, attempt, dbVars, phase, file, toLoad, expired, starts>>

\* SetMetric is called: its first attempt comes next.
Prepare(c, k, id, metric) ==
    /\ stmt' = [stmt EXCEPT ![c] = [by |-> c, item |-> k, id |-> id, metric |-> metric]]
    /\ GoTo(c, "upsert")
    /\ UNCHANGED attempt

\* The handler answers; a restore ends, with the rest of the file not stored.
Finish(c, st) ==
    /\ GoTo(c, IF c = Main THEN "new" ELSE "done")
    /\ status' = IF c = Main THEN status ELSE [status EXCEPT ![c] = st]
    /\ stmt' = [stmt EXCEPT ![c] = NULL]
    /\ attempt' = [attempt EXCEPT ![c] = 0]
    /\ toLoad' = IF c = Main THEN EmptyMap ELSE toLoad
    /\ UNCHANGED <<req, idx>>

\* storage.GetMetric is one SELECT, without retries; any error but a missing
\* row refuses the update, as does a row without a delta.
SelectCounter(r) ==
    /\ Running /\ At(r, "item")
    /\ Item(r).mtype = "counter"
    /\ \/ /\ Base(rows[Item(r).id]) # NULL
          /\ Prepare(r, idx[r], Item(r).id,
                     Stored(Item(r), Add(Base(rows[Item(r).id]), Item(r).delta)))
          /\ UNCHANGED <<req, idx, status, toLoad>>
       \/ Finish(r, "error")
    /\ UNCHANGED <<dbVars, phase, file, expired, starts, kept, before>>

SetGauge(r) ==
    /\ Running /\ At(r, "item")
    /\ Item(r).mtype = "gauge"
    /\ Prepare(r, idx[r], Item(r).id, Stored(Item(r), Item(r).delta))
    /\ UNCHANGED <<req, idx, status, dbVars, runVars, before>>

\* db.Exec returned nil: the next item, or the next metric of the file.
NextItem(c) ==
    IF c \in Reqs /\ idx[c] = Len(req[c]) THEN Finish(c, "ok")
    ELSE /\ GoTo(c, IF c = Main THEN "new" ELSE "item")
         /\ idx' = IF c = Main THEN idx ELSE [idx EXCEPT ![c] = @ + 1]
         /\ stmt' = [stmt EXCEPT ![c] = NULL]
         /\ attempt' = [attempt EXCEPT ![c] = 0]
         /\ UNCHANGED <<req, status, toLoad>>

RetryMutant(c) ==
    /\ attempt' = [attempt EXCEPT ![c] = @ + 1]
    /\ status' = IF c = Main THEN status ELSE [status EXCEPT ![c] = "ok"]
    /\ UNCHANGED <<req, pc, idx, stmt, toLoad>>

RetryReadsAgainMutant(c) ==
    /\ attempt' = [attempt EXCEPT ![c] = @ + 1]
    /\ stmt' = IF c \in Reqs /\ Item(c).mtype = "counter" /\ Base(rows'[Item(c).id]) # NULL
               THEN [stmt EXCEPT ![c].metric =
                       Stored(Item(c), Add(Base(rows'[Item(c).id]), Item(c).delta))]
               ELSE stmt
    /\ UNCHANGED <<req, pc, idx, status, toLoad>>

\* The upsert is run again, with the same values.
Retry(c) ==
    /\ attempt' = [attempt EXCEPT ![c] = @ + 1]
    /\ UNCHANGED <<req, pc, idx, status, stmt, toLoad>>

GiveUpMutant(c, e) == Finish(c, IF IsRetriable(e) THEN "ok" ELSE "error")

\* The error is not retriable, or of the last attempt.
GiveUp(c, e) == Finish(c, "error")

Exec(c) ==
    /\ Running /\ At(c, "upsert")
    /\ \/ AtDatabase(c, TRUE, NULL) /\ NextItem(c)
       \/ \E e \in Errors :
             /\ AtDatabase(c, FALSE, e)
             /\ IF RetryLater(c, e) THEN Retry(c) ELSE GiveUp(c, e)
    /\ UNCHANGED <<phase, file, expired, starts, kept, before>>

-----------------------------------------------------------------------------
\* Run.  The file path and Restore are set, StoreInterval is positive.

\* The rows are there; LoadMetrics reads the file, if there is one.  When that
\* fails the error is only logged, and nothing is restored.
Start ==
    /\ phase = "down"
    /\ starts < MaxStarts
    /\ starts' = starts + 1
    /\ phase' = "restoring"
    /\ toLoad' \in {EmptyMap, IF file = NULL THEN EmptyMap ELSE file}
    /\ expired' = FALSE
    /\ UNCHANGED <<callVars, dbVars, file, kept, before>>

RestoreOneMutant(k) ==
    /\ phase = "restoring" /\ At(Main, "new")
    /\ toLoad[k] # NULL
    /\ Prepare(Main, 0, k,
               IF toLoad[k].delta = NULL \/ Base(rows[k]) = NULL THEN toLoad[k]
               ELSE [toLoad[k] EXCEPT !.delta = Add(Base(rows[k]), @)])
    /\ toLoad' = [toLoad EXCEPT ![k] = NULL]
    /\ UNCHANGED <<req, idx, status, dbVars, phase, file, expired, starts, kept, before>>

\* LoadMetrics hands one metric of the file to SetMetric.
RestoreOne(k) ==
    /\ phase = "restoring" /\ At(Main, "new")
    /\ toLoad[k] # NULL
    /\ Prepare(Main, 0, k, toLoad[k])
    /\ toLoad' = [toLoad EXCEPT ![k] = NULL]
    /\ UNCHANGED <<req, idx, status, dbVars, phase, file, expired, starts, kept, before>>

Proceed(from, to) ==
    /\ phase = from
    /\ phase' = to
    /\ UNCHANGED <<callVars, dbVars, file, toLoad, starts, kept, before>>

Restored == toLoad = EmptyMap /\ At(Main, "new") /\ Proceed("restoring", "serving") /\ UNCHANGED expired
Signal   == Proceed("serving", "draining") /\ UNCHANGED expired

\* Shutdown waits for the handlers until the context it shares with the final
\* save has expired.
Drain ==
    /\ Proceed("draining", "closing")
    /\ \/ InFlight = {} /\ UNCHANGED expired
       \/ DrainMayTimeOut /\ InFlight # {} /\ expired' = TRUE

\* The ticker's SaveToFile; when it fails nothing happens.
Tick ==
    /\ Running
    /\ file' = rows
    /\ UNCHANGED <<callVars, dbVars, phase, toLoad, expired, starts, kept, before>>

\* The process ends.  Of the statements under way some are lost, and some of
\* those will still be executed.
ProcessEnds ==
    /\ phase' = "down"
    /\ \E S \in SUBSET {stmt[c] : c \in {d \in Callers : At(d, "upsert")}} : Lose(S)
    /\ pc' = [c \in Callers |-> IF c = Main \/ At(c, "new") THEN "new" ELSE "done"]
    /\ stmt' = [c \in Callers |-> NULL]
    /\ attempt' = [c \in Callers |-> 0]
    /\ toLoad' = EmptyMap
    /\ UNCHANGED <<req, idx, status, expired, starts, before>>

\* The final save reads the rows under the context of Shutdown: it fails when
\* that has expired, and may fail otherwise.
Stop ==
    /\ phase = "closing"
    /\ \/ ~expired /\ file' = rows /\ kept' = rows
       \/ UNCHANGED file /\ kept' = NULL
    /\ ProcessEnds

Crash ==
    /\ Running
    /\ ProcessEnds
    /\ UNCHANGED <<file, kept>>

Off ==
    /\ phase = "down" /\ starts = MaxStarts /\ late = {}
    /\ UNCHANGED vars

-----------------------------------------------------------------------------
Handler(r) == SelectCounter(r) \/ SetGauge(r)

Next ==
    \/ Start \/ (\E k \in IDs : RestoreOne(k)) \/ Restored
    \/ \E r \in Reqs : (\E in \in Inputs : Arrive(r, in)) \/ Handler(r)
    \/ \E c \in Callers : Exec(c)
    \/ \E s \in late : ExecuteLate(s)
    \/ Tick \/ Signal \/ Drain \/ Stop \/ Crash
    \/ Off

Spec == Init /\ [][Next]_vars

-----------------------------------------------------------------------------
NonNegative == \A in \in Inputs : \A k \in 1 .. Len(in) : in[k].delta = NULL \/ in[k].delta >= 0

Written(r) == {w[2] : w \in {x \in wrote : x[1] = r}}

(* However often an upsert is repeated, executed behind the handler's back *)
(* or restored from the file, no increment is counted twice: SetMetric     *)
(* repeats the sum it was given and does not read again.                   *)
RetriesCountOnce ==
    NonNegative => \A k \in IDs : given[k] < HalfRange =>
        \A m \in {rows[k], toLoad[k]} \cup (IF file = NULL THEN {} ELSE {file[k]}) :
            m # NULL /\ m.delta # NULL => m.delta \in 0 .. given[k]

(* An answer of 200 means that every item was executed, after whatever     *)
(* errors and retries; otherwise those executed are the first ones, and    *)
(* the item that failed may be among them.                                 *)
AnswerMeansExecuted ==
    \A r \in Reqs : status[r] # NULL =>
        /\ \E n \in 0 .. Len(req[r]) : Written(r) = 1 .. n
        /\ status[r] = "ok" => Written(r) = 1 .. Len(req[r])

(* A retry may overwrite what a concurrent request stored, but never that  *)
(* of a request that arrived after the retrying one was answered, as long  *)
(* as no statement is executed after its connection was lost.              *)
NoLateOverwrite ==
    ~stale => \A k \in IDs : writer[k] # NULL =>
        \A q \in Reqs : \A i \in Written(q) :
            req[q][i].id = k => writer[k] \notin before[q]

(* Restoring the file over the rows changes nothing after a stop whose     *)
(* final save succeeded: not when the restore is cut short by an error or  *)
(* a kill or because the file could not be read, nor when ticks fall into  *)
(* it: SetMetric replaces a row by the same row and adds nothing to it.    *)
CleanRestartKeepsRows == kept # NULL /\ ~stale => rows = kept

(* service/metrics.go:50 says a counter is summed, and storage_test.go:107 *)
(* that SetMetric accumulates: when no request is in flight, a row that    *)
(* only counters were written to holds their sum (within one start of the  *)
(* process, and with nothing left on a lost connection).                   *)
CountersAccumulate ==
    InFlight = {} /\ late = {} /\ starts = 1 =>
        \A k \in IDs : LET items == {it \in {req[w[1]][w[2]] : w \in wrote} : it.id = k} IN
            /\ items # {} /\ \A it \in items : it.mtype = "counter"
            /\ given[k] \in Deltas
            => rows[k].delta = given[k]

Table == INSTANCE AtomicMetrics
         WITH store <- rows, applied <- wrote, total <- given,
              Inputs <- {Batch(in) : in \in Inputs},
              asked <- [r \in Reqs |-> IF req[r] = NULL THEN NULL ELSE Batch(req[r])]

\* The row of r's upsert is as r read it or, once executed, as r wrote it.
Intact(r) ==
    LET row == rows[Item(r).id]
        new == stmt[r].metric
    IN  IF <<r, idx[r]>> \in wrote THEN row = new
        ELSE Item(r).mtype = "counter" => Base(row) # NULL /\ new.delta = Add(Base(row), Item(r).delta)

Undisturbed == \A r \in Reqs : At(r, "upsert") => Intact(r)

\* No two requests are at an upsert of one row.
Raceless ==
    \A r, q \in Reqs :
        At(r, "upsert") /\ At(q, "upsert") /\ Item(q).id = Item(r).id => q = r

\* No statement was executed on a lost connection, and no file is restored that
\* may be older than the rows.
CleanRuns ==
    /\ ~stale
    /\ phase = "restoring" => kept # NULL \/ (toLoad = EmptyMap /\ At(Main, "new"))

\* None of what may lose an update has happened.
Calm == CleanRuns /\ Undisturbed

(* Errors after an execution, retries, kills and restores are invisible:   *)
(* from one calm state to the next the table takes a step of the service   *)
(* that applies each item of a request at one instant and once, or none.   *)
FailuresInvisible == [][Calm /\ Calm' => [Table!AMNext]_(Table!absVars)]_vars
=============================================================================
