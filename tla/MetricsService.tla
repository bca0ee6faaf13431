--------------------------- MODULE MetricsService ---------------------------
(***************************************************************************)
(* The HTTP API of the server: the handlers of internal/handler and the    *)
(* MetricsService behind them (internal/service), over the in-memory map   *)
(* that both MemStorage and FileStorage keep under a RWMutex.              *)
(*                                                                         *)
(* Each request runs in a goroutine of its own.  A call on the storage is  *)
(* atomic (it holds the mutex); between two calls the other requests run.  *)
(* A counter update is two calls: GetMetric and then SetMetric.            *)
(***************************************************************************)
EXTENDS FileStorage, Audit, Sequences, FiniteSets

CONSTANTS
    Reqs,           \* requests: each is sent once
    Inputs,         \* what a request can be
    StoreInterval,  \* seconds; 0 is "save after every operation"
    HasFile,        \* FileStoragePath is set: the service has a fileStorage
    MaxInFlight     \* bound: requests the clients have open at a time

Updates == {"url", "json", "batch"}
Queries == {"geturl", "getjson", "list"}

\* items: the metrics of the body; NULL when it does not decode.
\* ip: whether getIPAddress finds an address, without which nothing is audited.
Requests == [kind : Updates \cup Queries, items : Seq(Items) \cup {NULL}, ip : BOOLEAN]

ASSUME ServiceAssumption ==
    /\ Reqs \subseteq Savers
    /\ IsFiniteSet(Reqs)
    /\ Inputs \subseteq Requests
    /\ \A in \in Inputs :
          /\ in.kind \in {"url", "geturl"}   => in.items # NULL /\ Len(in.items) = 1
          /\ in.kind \in {"json", "getjson"} => in.items = NULL \/ Len(in.items) = 1
    /\ NULL \notin Inputs
    /\ NULL \notin Seq(Items)
    /\ StoreInterval \in Int
    /\ HasFile \in BOOLEAN
    /\ MaxInFlight \in Nat \ {0}

VARIABLES
    metrics,        \* the storage
    req,            \* what each request asked
    pc,             \* where its handler is
    idx,            \* the item of the request it is at
    seen,           \* the metric its last GetMetric returned
    status,         \* what the client was answered
    given,          \* history: the sum of the deltas written under each name
    wrote           \* history: <<r, k>> for each item k of r that was written

reqVars == <<req, pc, idx, seen, status>>
serviceVars == <<metrics, reqVars, given, wrote>>
vars == <<serviceVars, fsVars, auditVars>>

Statuses == {"ok", "bad", "notfound", "error", "panic"}
Stages   == {"new", "item", "write", "finish", "saving", "get", "done"}

ServiceTypeOK ==
    /\ metrics \in MetricMaps
    /\ req \in [Reqs -> Inputs \cup {NULL}]
    /\ pc \in [Reqs -> Stages]
    /\ idx \in [Reqs -> Nat]
    /\ seen \in [Reqs -> Metric \cup {NULL}]
    /\ status \in [Reqs -> Statuses \cup {NULL}]
    /\ given \in [IDs -> Int]
    /\ wrote \subseteq Reqs \X Nat

\* One goroutine of Notify: the item it tells about (0: the batch), to whom.
AuditTasks == (Reqs \X Nat) \X Subs
AuditTypeOK == pending \subseteq AuditTasks /\ sent \subseteq AuditTasks /\ lost \subseteq AuditTasks

TypeOK == ServiceTypeOK /\ FSTypeOK /\ AuditTypeOK

ServiceInit ==
    /\ metrics = EmptyMap
    /\ req = [r \in Reqs |-> NULL]
    /\ pc = [r \in Reqs |-> "new"]
    /\ idx = [r \in Reqs |-> 1]
    /\ seen = [r \in Reqs |-> NULL]
    /\ status = [r \in Reqs |-> NULL]
    /\ given = [k \in IDs |-> 0]
    /\ wrote = {}

Init == ServiceInit /\ FSInit /\ AuditInit

-----------------------------------------------------------------------------
InFlight  == {r \in Reqs : pc[r] \notin {"new", "done"}}
Item(r)   == req[r].items[idx[r]]
Failure(r) == IF req[r].kind = "batch" THEN "error" ELSE "bad"

LastMutant(r) == idx[r] >= Len(req[r].items) - 1
Last(r) == idx[r] = Len(req[r].items)

At(r, stage) == pc[r] = stage
GoTo(r, stage) == pc' = [pc EXCEPT ![r] = stage]

Reply(r, st) ==
    /\ GoTo(r, "done")
    /\ status' = [status EXCEPT ![r] = st]

\* The handler replies, and stores, saves and audits nothing in this step.
End(r, st) ==
    /\ Reply(r, st)
    /\ seen' = [seen EXCEPT ![r] = NULL]
    /\ UNCHANGED <<metrics, req, idx, given, wrote, fsVars, auditVars>>

NotifyAlways(r, k) == Notify(r, k)

\* auditOperation: without an address there is no event.
NotifyIf(r, k) == IF req[r].ip THEN Notify(r, k) ELSE UNCHANGED auditVars

\* The router calls a handler.
Arrive(r, in) ==
    /\ At(r, "new")
    /\ Cardinality(InFlight) < MaxInFlight
    /\ req' = [req EXCEPT ![r] = in]
    /\ GoTo(r, IF in.kind \in Queries THEN "get" ELSE "item")
    /\ UNCHANGED <<metrics, idx, seen, status, given, wrote, fsVars, auditVars>>

-----------------------------------------------------------------------------
\* Queries read the storage once.

Asked(r, kind) == At(r, "get") /\ req[r].kind = kind

\* GET /value/{type}/{name}.
GetMetricHandler(r) ==
    /\ Asked(r, "geturl")
    /\ LET it == req[r].items[1]
           m  == metrics[it.id]
       IN  End(r, IF NULL \in {it.id, it.mtype} THEN "bad"
                  ELSE IF m = NULL              THEN "notfound"
                  ELSE IF m.mtype # it.mtype    THEN "bad"
                  ELSE IF NilPayload(m)         THEN "error"
                  ELSE "ok")

\* POST /value/: the type may be left out.
GetMetric(r) ==
    /\ Asked(r, "getjson")
    /\ \/ req[r].items = NULL /\ End(r, "bad")
       \/ /\ req[r].items # NULL
          /\ LET it == req[r].items[1]
                 m  == metrics[it.id]
             IN  End(r, IF it.id = NULL                        THEN "bad"
                        ELSE IF m = NULL                       THEN "notfound"
                        ELSE IF it.mtype \notin {NULL, m.mtype} THEN "bad"
                        ELSE "ok")

\* GET /: a page of all metrics, "N/A" for a missing payload.
ListMetricsHandler(r) == Asked(r, "list") /\ End(r, "ok")

-----------------------------------------------------------------------------
\* Updates: SetMetric of one item, SetMetricWithSync of one, UpdateBatch of many.

\* The body does not decode, or a batch is empty and needs nothing done.
NothingToDo(r) ==
    /\ At(r, "item")
    /\ \/ req[r].items = NULL /\ End(r, "bad")
       \/ req[r].items = <<>> /\ End(r, "ok")

HasItem(r) == At(r, "item") /\ req[r].items \notin {NULL, <<>>}

\* The name is empty, the type unknown or the payload missing.  The items of
\* a batch before this one stay written.
RejectItem(r) == HasItem(r) /\ ~Valid(Item(r)) /\ End(r, Failure(r))

\* The first half of a counter update: storage.GetMetric.
ReadCounter(r) ==
    /\ HasItem(r)
    /\ Valid(Item(r))
    /\ Item(r).mtype = "counter"
    /\ seen' = [seen EXCEPT ![r] = metrics[Item(r).id]]
    /\ GoTo(r, "write")
    /\ UNCHANGED <<metrics, req, idx, status, given, wrote, fsVars, auditVars>>

RefuseCounterMutant(r) ==
    /\ At(r, "write")
    /\ Base(seen[r]) = NULL
    /\ GoTo(r, "item")
    /\ seen' = [seen EXCEPT ![r] = NULL]
    /\ UNCHANGED <<metrics, req, idx, status, given, wrote, fsVars, auditVars>>

\* "existing counter has nil delta": a gauge is stored under the name.
RefuseCounter(r) ==
    /\ At(r, "write")
    /\ Base(seen[r]) = NULL
    /\ End(r, Failure(r))

\* storage.SetMetric replaces the whole entry; the item is audited and the
\* request goes on to the next one.
Store(r, m) ==
    /\ metrics' = [metrics EXCEPT ![Item(r).id] = m]
    /\ given' = [given EXCEPT ![Item(r).id] =
                    IF Item(r).delta = NULL THEN @ ELSE @ + Item(r).delta]
    /\ wrote' = wrote \cup {<<r, idx[r]>>}
    /\ NotifyIf(r, idx[r])
    /\ seen' = [seen EXCEPT ![r] = NULL]
    /\ IF Last(r) THEN GoTo(r, "finish") /\ UNCHANGED idx
                  ELSE GoTo(r, "item") /\ idx' = [idx EXCEPT ![r] = @ + 1]
    /\ UNCHANGED <<req, status, fsVars>>

WriteCounterMutant(r) ==
    /\ At(r, "write")
    /\ Base(seen[r]) # NULL
    /\ Store(r, Stored(Item(r), Item(r).delta))

\* The second half of a counter update writes the sum of what was READ.
WriteCounter(r) ==
    /\ At(r, "write")
    /\ Base(seen[r]) # NULL
    /\ Store(r, Stored(Item(r), Add(Base(seen[r]), Item(r).delta)))

WriteGauge(r) ==
    /\ HasItem(r)
    /\ Valid(Item(r))
    /\ Item(r).mtype = "gauge"
    /\ Store(r, Stored(Item(r), Item(r).delta))

SynchronousMutant(r) == req[r].kind = "json" /\ StoreInterval > 0
Synchronous(r) == req[r].kind = "json" /\ StoreInterval = 0

\* All items are written and nothing is to be saved.  A batch is audited once
\* more as a whole.
Finish(r) ==
    /\ At(r, "finish")
    /\ ~Synchronous(r)
    /\ IF req[r].kind = "batch" THEN NotifyIf(r, 0) ELSE UNCHANGED auditVars
    /\ Reply(r, "ok")
    /\ UNCHANGED <<metrics, req, idx, seen, given, wrote, fsVars>>

\* Only SetMetricWithSync saves, and only when storeInterval is 0.
BeginSync(r) ==
    /\ At(r, "finish")
    /\ Synchronous(r)
    /\ HasFile
    /\ BeginSave(r, metrics)
    /\ GoTo(r, "saving")
    /\ UNCHANGED <<metrics, req, idx, seen, status, given, wrote, auditVars>>

\* SaveMetrics of a nil fileStorage: the metrics are encoded before its
\* filePath is read, which panics; net/http recovers and drops the connection.
NoFileToSync(r) ==
    /\ At(r, "finish")
    /\ Synchronous(r)
    /\ ~HasFile
    /\ End(r, IF Encodable(metrics) THEN "panic" ELSE "bad")

\* A step of SaveMetrics by any goroutine.
Save(s) == SaveStep(s) /\ UNCHANGED <<serviceVars, auditVars>>

EndSync(r) ==
    /\ At(r, "saving")
    /\ ~Saving(r)
    /\ End(r, IF spc[r] = "saved" THEN "ok" ELSE "bad")

-----------------------------------------------------------------------------
Handler(r) ==
    \/ GetMetricHandler(r) \/ GetMetric(r) \/ ListMetricsHandler(r)
    \/ NothingToDo(r) \/ RejectItem(r)
    \/ ReadCounter(r) \/ RefuseCounter(r) \/ WriteCounter(r)
    \/ WriteGauge(r)
    \/ Finish(r) \/ BeginSync(r) \/ NoFileToSync(r) \/ EndSync(r)

Auditing ==
    /\ \E t \in pending : Deliver(t) \/ Drop(t, At(t[1][1], "done"))
    /\ UNCHANGED <<serviceVars, fsVars>>

\* Every request is answered and no goroutine is left.
Terminated ==
    /\ \A r \in Reqs : At(r, "done")
    /\ pending = {}
    /\ UNCHANGED vars

Next ==
    \/ \E r \in Reqs : (\E in \in Inputs : Arrive(r, in)) \/ Handler(r) \/ Save(r)
    \/ Auditing
    \/ Terminated

Spec == Init /\ [][Next]_vars

\* The Go scheduler runs every goroutine that can run; it is up to the clients
\* whether a request is ever sent.
Fairness ==
    /\ \A r \in Reqs : WF_vars(Handler(r)) /\ WF_vars(Save(r))
    /\ WF_vars(Auditing)

FairSpec == Spec /\ Fairness

-----------------------------------------------------------------------------
\* What the properties speak of.

NumItems(r) == Len(req[r].items)
Written(r)  == {w[2] : w \in {x \in wrote : x[1] = r}}

\* The items written under the name k.
ItemsOf(k) == {it \in {req[w[1]].items[w[2]] : w \in wrote} : it.id = k}

\* r has been answered, and its body was a list of metrics to update.
Updated(r) == At(r, "done") /\ req[r].kind \in Updates /\ req[r].items # NULL

NonNegative ==
    \A in \in Inputs : in.items # NULL =>
        \A i \in 1 .. Len(in.items) :
            in.items[i].delta = NULL \/ in.items[i].delta >= 0

(* A stored counter always has a delta and a stored gauge a value, however *)
(* the updates of several requests interleave and the types of a name      *)
(* alternate: GetMetricHandler's two 500 replies ("Metric value is nil",   *)
(* "Metric delta is nil") are never sent.                                  *)
NoNilPayload ==
    /\ \A k \in IDs : metrics[k] # NULL => ~NilPayload(metrics[k])
    /\ \A r \in Reqs : At(r, "done") /\ req[r].kind \in Queries => status[r] # "error"

(* Concurrent updates may lose an increment but never count one twice: as  *)
(* long as no update has a negative delta and the sum fits an int64, what  *)
(* setCounterMetric and SetNewMetric keep under a name lies between 0 and  *)
(* the sum of the deltas that were written under it.                       *)
NoOvercount ==
    NonNegative => \A k \in IDs :
        metrics[k] # NULL /\ metrics[k].delta # NULL /\ given[k] < HalfRange
            => metrics[k].delta \in 0 .. given[k]

(* What a client may conclude from its answer.  A request writes its items *)
(* in order and stops at the first that fails, so what is written is       *)
(* always a prefix, all of it if the answer is 200; everything may be      *)
(* written and the answer still be an error only for a JSON update whose   *)
(* synchronous save did not succeed.                                       *)
AnswerMeansWritten ==
    \A r \in Reqs : Updated(r) =>
        /\ \E n \in 0 .. NumItems(r) : Written(r) = 1 .. n
        /\ status[r] = "ok" => Written(r) = 1 .. NumItems(r)
        /\ status[r] # "ok" /\ Written(r) = 1 .. NumItems(r)
              => Synchronous(r) /\ spc[r] # "saved"

(* A valid counter update is refused only because a gauge update replaced  *)
(* the entry by one without a delta ("existing counter has nil delta").    *)
RefusedOnlyByGauge ==
    \A r \in Reqs : Updated(r) /\ status[r] # "ok" =>
        \A k \in 1 .. NumItems(r) : LET it == req[r].items[k] IN
            Written(r) = 1 .. k - 1 /\ Valid(it) =>
                \E old \in ItemsOf(it.id) : old.mtype = "gauge" /\ old.delta = NULL

(* The audit trail tells what was written and nothing else: each subscriber *)
(* gets one event for each item written by a request with an address, and  *)
(* one more for a batch that was written to its end (UpdateBatch), though  *)
(* the goroutines of Notify run at any later time and may fail.            *)
Audited ==
    {w \in wrote : req[w[1]].ip}
        \cup {<<r, 0>> : r \in {q \in Reqs : /\ Updated(q) /\ req[q].kind = "batch"
                                            /\ status[q] = "ok" /\ req[q].ip
                                            /\ req[q].items # <<>>}}
AuditTrail ==
    /\ pending \cup sent \cup lost = Audited \X Subs
    /\ {} = (pending \cap sent) \cup (pending \cap lost) \cup (sent \cap lost)

(* With storeInterval 0, once no request is in flight the file holds the   *)
(* stored metrics, provided all that was written came by the JSON endpoint *)
(* whose saves succeeded, and no two saves overlapped.                     *)
SyncSaved ==
    /\ StoreInterval = 0 /\ HasFile /\ InFlight = {} /\ ~overlap /\ wrote # {}
    /\ \A r \in Reqs : Written(r) # {} => req[r].kind = "json" /\ status[r] = "ok"
    => file = metrics

Atomic == INSTANCE AtomicMetrics
          WITH store <- metrics, asked <- req, applied <- wrote, total <- given

\* What a handler has read of a counter is still there when it writes.
Undisturbed == \A r \in Reqs : At(r, "write") => seen[r] = metrics[Item(r).id]

\* No request is at an item of a name that another one has read a counter of
\* and not written yet.
Raceless ==
    \A r, q \in Reqs :
        At(r, "write") /\ q # r /\ (HasItem(q) \/ At(q, "write")) => Item(q).id # Item(r).id

(* When requests come one at a time, the service behaves as one that       *)
(* applies each item of a request at a single instant, once and in order,  *)
(* as the comment of SetMetric describes an update: GetMetric followed by  *)
(* SetMetric is then as good as an atomic addition.                        *)
AppliesAtomically == Atomic!AMSpec

(* That is so with any number of requests, until one of them writes a name *)
(* between the GetMetric and the SetMetric of another one's update of it:  *)
(* nothing else, no refusal, failing batch or failing save, makes a step   *)
(* of the service anything but the next item of a request applied once.    *)
AppliesUnlessRaced == [][Undisturbed => [Atomic!AMNext]_(Atomic!absVars)]_vars

(* service/metrics.go:50 says a counter is summed: when no request is in   *)
(* flight, a name that only counters were written to holds their sum.      *)
CounterSums ==
    InFlight = {} => \A k \in IDs :
        /\ ItemsOf(k) # {} /\ \A it \in ItemsOf(k) : it.mtype = "counter"
        /\ given[k] \in Deltas
        => metrics[k].delta = given[k]

(* Every request that reached a handler is answered, whatever the others   *)
(* do, which disks fail and which types the names change to.               *)
Answered == \A r \in Reqs : ~At(r, "new") ~> At(r, "done")

(* As long as writes to the audit file succeed, every item written by an   *)
(* answered request gets its line, although nobody waits for FileSub.Send. *)
FileAudited ==
    \A r \in Reqs : At(r, "done") ~>
        \A k \in Written(r) : req[r].ip => <<<<r, k>>, "file">> \in sent
=============================================================================
