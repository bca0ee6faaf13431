------------------------ MODULE MetricsServiceProofs ------------------------
(***************************************************************************)
(* Proofs about the update and query handlers, for any set of requests,    *)
(* names, payloads and int64 range, and any number of requests in flight.  *)
(***************************************************************************)
EXTENDS MetricsService, FileStorageProofs, FiniteSetTheorems

-----------------------------------------------------------------------------
\* What a request is known to be at each stage of its handler.
RequestOK(r) ==
    /\ pc[r] = "new" => idx[r] = 1
    /\ pc[r] # "new" => req[r] \in Inputs
    /\ pc[r] \in {"item", "write", "finish", "saving"} => req[r].kind \in Updates
    /\ pc[r] \in {"item", "write"} /\ req[r].items # NULL /\ req[r].items # <<>> =>
          idx[r] \in 1 .. Len(req[r].items)
    /\ pc[r] = "write" => /\ req[r].items # NULL /\ req[r].items # <<>>
                          /\ Valid(Item(r)) /\ Item(r).mtype = "counter"

Inv == TypeOK /\ FSInv /\ \A r \in Reqs : RequestOK(r)

LEMMA InvInit == Init => Inv
BY FSInvInit, EmptyIsMetrics
DEF Init, ServiceInit, AuditInit, Inv, TypeOK, ServiceTypeOK, AuditTypeOK, FSInv,
    RequestOK, Stages

\* The item a handler is at is one of those the request brought.
LEMMA ItemIsItem ==
    ASSUME Inv, NEW r \in Reqs, pc[r] \in {"item", "write"},
           req[r].items # NULL, req[r].items # <<>>
    PROVE  /\ Item(r) \in Items
           /\ req[r] \in Requests
           /\ req[r].items \in Seq(Items)
           /\ idx[r] \in 1 .. Len(req[r].items)
<1>1. RequestOK(r)
  BY DEF Inv
<1>2. req[r] \in Requests /\ idx[r] \in 1 .. Len(req[r].items)
  BY <1>1, ServiceAssumption DEF RequestOK
<1>3. req[r].items \in Seq(Items)
  BY <1>2 DEF Requests
<1>4. QED
  BY <1>2, <1>3 DEF Item

-----------------------------------------------------------------------------
\* The reply of any handler.
LEMMA InvEnd ==
    ASSUME Inv, NEW r \in Reqs, pc[r] # "new", NEW st \in Statuses, End(r, st)
    PROVE  Inv'
<1>1. ServiceTypeOK'
  BY DEF Inv, TypeOK, ServiceTypeOK, End, Reply, GoTo, Stages
<1>2. AuditTypeOK'
  BY DEF Inv, TypeOK, AuditTypeOK, End, auditVars
<1>3. FSInv'
  BY FSInvStutter DEF Inv, End
<1>4. ASSUME NEW q \in Reqs PROVE RequestOK(q)'
  BY DEF Inv, TypeOK, ServiceTypeOK, RequestOK, End, Reply, GoTo, Item
<1>5. QED
  BY <1>1, <1>2, <1>3, <1>4 DEF Inv, TypeOK, FSInv

LEMMA InvArrive ==
    ASSUME Inv, NEW r \in Reqs, NEW in \in Inputs, Arrive(r, in)
    PROVE  Inv'
<1>0. in \in Requests
  BY ServiceAssumption
<1>1. ServiceTypeOK'
  BY DEF Inv, TypeOK, ServiceTypeOK, Arrive, GoTo, Stages
<1>2. AuditTypeOK'
  BY DEF Inv, TypeOK, AuditTypeOK, Arrive, auditVars
<1>3. FSInv'
  BY FSInvStutter DEF Inv, Arrive
<1>4. in.items # NULL /\ in.items # <<>> => 1 \in 1 .. Len(in.items)
  BY <1>0 DEF Requests
<1>5. in.kind \notin Queries => in.kind \in Updates
  BY <1>0 DEF Requests
<1>6. ASSUME NEW q \in Reqs PROVE RequestOK(q)'
  BY <1>4, <1>5 DEF Inv, TypeOK, ServiceTypeOK, RequestOK, Arrive, GoTo, At, Item
<1>7. QED
  BY <1>1, <1>2, <1>3, <1>6 DEF Inv, TypeOK, FSInv

LEMMA InvReadCounter ==
    ASSUME Inv, NEW r \in Reqs, ReadCounter(r)
    PROVE  Inv'
<1>0. Item(r) \in Items /\ Item(r).id \in IDs
  BY ItemIsItem, ValidNamed DEF ReadCounter, HasItem, At
<1>1. ServiceTypeOK'
  BY <1>0 DEF Inv, TypeOK, ServiceTypeOK, ReadCounter, GoTo, Stages, MetricMaps
<1>2. AuditTypeOK'
  BY DEF Inv, TypeOK, AuditTypeOK, ReadCounter, auditVars
<1>3. FSInv'
  BY FSInvStutter DEF Inv, ReadCounter
<1>4. ASSUME NEW q \in Reqs PROVE RequestOK(q)'
  BY DEF Inv, TypeOK, ServiceTypeOK, RequestOK, ReadCounter, HasItem, GoTo, At, Item
<1>5. QED
  BY <1>1, <1>2, <1>3, <1>4 DEF Inv, TypeOK, FSInv

LEMMA AuditNotified ==
    ASSUME Inv, NEW r \in Reqs, NEW k \in Nat, NotifyIf(r, k)
    PROVE  AuditTypeOK'
BY DEF Inv, TypeOK, AuditTypeOK, AuditTasks, NotifyIf, Notify, auditVars

LEMMA InvStore ==
    ASSUME Inv, NEW r \in Reqs, pc[r] \in {"item", "write"},
           req[r].items # NULL, req[r].items # <<>>, Valid(Item(r)),
           NEW m \in Metric, Store(r, m)
    PROVE  Inv'
<1>0. /\ Item(r) \in Items /\ Item(r).id \in IDs
      /\ req[r] \in Requests /\ req[r].items \in Seq(Items)
      /\ idx[r] \in 1 .. Len(req[r].items)
      /\ Item(r).delta \in Deltas \cup {NULL}
  <2>1. Item(r) \in Items /\ req[r] \in Requests /\ req[r].items \in Seq(Items)
        /\ idx[r] \in 1 .. Len(req[r].items)
    BY ItemIsItem
  <2>2. QED
    BY <2>1, ValidNamed DEF Items
<1>1. ServiceTypeOK'
  <2>1. metrics' \in MetricMaps
    BY <1>0 DEF Inv, TypeOK, ServiceTypeOK, Store, MetricMaps
  <2>2. given' \in [IDs -> Int]
    BY <1>0, MetricsAssumption DEF Inv, TypeOK, ServiceTypeOK, Store, Deltas
  <2>3. pc' \in [Reqs -> Stages] /\ idx' \in [Reqs -> Nat]
    <3>1. pc \in [Reqs -> Stages] /\ idx \in [Reqs -> Nat]
      BY DEF Inv, TypeOK, ServiceTypeOK
    <3>2. idx' = idx \/ idx' = [idx EXCEPT ![r] = idx[r] + 1]
      BY DEF Store
    <3>3. \E stage \in Stages : pc' = [pc EXCEPT ![r] = stage]
      BY DEF Store, GoTo, Stages
    <3>4. QED
      BY <3>1, <3>2, <3>3
  <2>4. seen' \in [Reqs -> Metric \cup {NULL}] /\ wrote' \subseteq Reqs \X Nat
    BY <1>0 DEF Inv, TypeOK, ServiceTypeOK, Store
  <2>5. QED
    BY <2>1, <2>2, <2>3, <2>4 DEF Inv, TypeOK, ServiceTypeOK, Store
<1>2. AuditTypeOK'
  BY <1>0, AuditNotified DEF Store
<1>3. FSInv'
  BY FSInvStutter DEF Inv, Store
<1>4. ASSUME NEW q \in Reqs PROVE RequestOK(q)'
  <2>1. CASE q # r
    BY <2>1 DEF Inv, TypeOK, ServiceTypeOK, RequestOK, Store, GoTo, Item
  <2>2. CASE q = r
    <3>1. req' = req /\ req[r] \in Inputs /\ req[r].kind \in Updates
      BY DEF Inv, RequestOK, Store
    <3>2. CASE Last(r)
      BY <2>2, <3>1, <3>2 DEF Inv, TypeOK, ServiceTypeOK, RequestOK, Store, GoTo
    <3>3. CASE ~Last(r)
      <4>1. pc'[r] = "item" /\ idx'[r] = idx[r] + 1
        BY <3>3 DEF Inv, TypeOK, ServiceTypeOK, Store, GoTo
      <4>2. idx'[r] \in 1 .. Len(req[r].items)
        BY <1>0, <3>3, <4>1 DEF Last
      <4>3. QED
        BY <2>2, <3>1, <4>1, <4>2 DEF RequestOK
    <3>4. QED
      BY <3>2, <3>3
  <2>3. QED
    BY <2>1, <2>2
<1>5. QED
  BY <1>1, <1>2, <1>3, <1>4 DEF Inv, TypeOK, FSInv

\* What the two writing actions store.
LEMMA WrittenMetric ==
    ASSUME Inv, NEW r \in Reqs, WriteCounter(r) \/ WriteGauge(r)
    PROVE  /\ pc[r] \in {"item", "write"} /\ req[r].items # NULL /\ req[r].items # <<>>
           /\ Valid(Item(r)) /\ Item(r) \in Items
           /\ \E d \in Deltas \cup {NULL} :
                 /\ Item(r).mtype = "counter" => d # NULL
                 /\ Store(r, Stored(Item(r), d))
<1>1. CASE WriteCounter(r)
  <2>1. /\ pc[r] = "write" /\ req[r].items # NULL /\ req[r].items # <<>>
        /\ Valid(Item(r)) /\ Item(r).mtype = "counter"
    BY <1>1 DEF Inv, RequestOK, WriteCounter, At
  <2>2. Item(r) \in Items
    BY <2>1, ItemIsItem
  <2>3. Base(seen[r]) \in Deltas
    BY <1>1, MetricsAssumption
    DEF Inv, TypeOK, ServiceTypeOK, WriteCounter, Base, Metric, Deltas
  <2>4. Item(r).delta \in Deltas
    BY <2>1, <2>2 DEF Items, Valid
  <2>5. Add(Base(seen[r]), Item(r).delta) \in Deltas
    BY <2>3, <2>4, AddInRange
  <2>6. NULL \notin Deltas
    BY MetricsAssumption DEF Deltas
  <2>7. QED
    BY <1>1, <2>1, <2>2, <2>5, <2>6 DEF WriteCounter
<1>2. CASE WriteGauge(r)
  <2>1. /\ pc[r] = "item" /\ req[r].items # NULL /\ req[r].items # <<>>
        /\ Valid(Item(r)) /\ Item(r).mtype = "gauge"
    BY <1>2 DEF WriteGauge, HasItem, At
  <2>2. Item(r) \in Items
    BY <2>1, ItemIsItem
  <2>3. Item(r).delta \in Deltas \cup {NULL}
    BY <2>2 DEF Items
  <2>4. QED
    BY <1>2, <2>1, <2>2, <2>3 DEF WriteGauge
<1>3. QED
  BY <1>1, <1>2

LEMMA InvWrite ==
    ASSUME Inv, NEW r \in Reqs, WriteCounter(r) \/ WriteGauge(r)
    PROVE  Inv'
<1>1. PICK d \in Deltas \cup {NULL} : /\ Item(r).mtype = "counter" => d # NULL
                                      /\ Store(r, Stored(Item(r), d))
  BY WrittenMetric
<1>2. Stored(Item(r), d) \in Metric
  BY <1>1, WrittenMetric, StoredIsMetric
<1>3. QED
  BY <1>1, <1>2, WrittenMetric, InvStore

LEMMA InvFinish ==
    ASSUME Inv, NEW r \in Reqs, Finish(r)
    PROVE  Inv'
<1>1. ServiceTypeOK'
  BY DEF Inv, TypeOK, ServiceTypeOK, Finish, Reply, GoTo, Stages, Statuses
<1>2. AuditTypeOK'
  <2>1. CASE req[r].kind = "batch"
    BY <2>1, AuditNotified DEF Finish
  <2>2. CASE req[r].kind # "batch"
    BY <2>2 DEF Inv, TypeOK, AuditTypeOK, Finish, auditVars
  <2>3. QED
    BY <2>1, <2>2
<1>3. FSInv'
  BY FSInvStutter DEF Inv, Finish
<1>4. ASSUME NEW q \in Reqs PROVE RequestOK(q)'
  BY DEF Inv, TypeOK, ServiceTypeOK, RequestOK, Finish, Reply, GoTo, At, Item
<1>5. QED
  BY <1>1, <1>2, <1>3, <1>4 DEF Inv, TypeOK, FSInv

LEMMA InvBeginSync ==
    ASSUME Inv, NEW r \in Reqs, BeginSync(r)
    PROVE  Inv'
<1>1. ServiceTypeOK'
  BY DEF Inv, TypeOK, ServiceTypeOK, BeginSync, GoTo, Stages
<1>2. AuditTypeOK'
  BY DEF Inv, TypeOK, AuditTypeOK, BeginSync, auditVars
<1>3. FSInv'
  BY FSInvBegin, ServiceAssumption DEF Inv, TypeOK, ServiceTypeOK, BeginSync
<1>4. ASSUME NEW q \in Reqs PROVE RequestOK(q)'
  BY DEF Inv, TypeOK, ServiceTypeOK, RequestOK, BeginSync, GoTo, At, Item
<1>5. QED
  BY <1>1, <1>2, <1>3, <1>4 DEF Inv, TypeOK, FSInv

LEMMA InvSave ==
    ASSUME Inv, NEW s \in Savers, Save(s)
    PROVE  Inv'
<1>1. FSInv'
  BY FSInvStep DEF Inv, Save
<1>2. ServiceTypeOK' /\ AuditTypeOK'
  BY DEF Inv, TypeOK, ServiceTypeOK, AuditTypeOK, Save, serviceVars, reqVars, auditVars
<1>3. ASSUME NEW q \in Reqs PROVE RequestOK(q)'
  BY DEF Inv, RequestOK, Save, serviceVars, reqVars, Item
<1>4. QED
  BY <1>1, <1>2, <1>3 DEF Inv, TypeOK, FSInv

LEMMA InvAuditing ==
    ASSUME Inv, Auditing
    PROVE  Inv'
<1>1. AuditTypeOK'
  BY DEF Inv, TypeOK, AuditTypeOK, Auditing, Deliver, Drop
<1>2. FSInv'
  BY FSInvStutter DEF Inv, Auditing
<1>3. ServiceTypeOK'
  BY DEF Inv, TypeOK, ServiceTypeOK, Auditing, serviceVars, reqVars
<1>4. ASSUME NEW q \in Reqs PROVE RequestOK(q)'
  BY DEF Inv, RequestOK, Auditing, serviceVars, reqVars, Item
<1>5. QED
  BY <1>1, <1>2, <1>3, <1>4 DEF Inv, TypeOK, FSInv

LEMMA InvStutter == Inv /\ UNCHANGED vars => Inv'
<1>. SUFFICES ASSUME Inv, UNCHANGED vars PROVE Inv'
  OBVIOUS
<1>1. ServiceTypeOK' /\ AuditTypeOK'
  BY DEF Inv, TypeOK, ServiceTypeOK, AuditTypeOK, vars, serviceVars, reqVars, auditVars
<1>2. FSInv'
  BY FSInvStutter DEF Inv, vars
<1>3. ASSUME NEW q \in Reqs PROVE RequestOK(q)'
  BY DEF Inv, RequestOK, vars, serviceVars, reqVars, Item
<1>4. QED
  BY <1>1, <1>2, <1>3 DEF Inv, TypeOK, FSInv

-----------------------------------------------------------------------------
\* The steps of a handler that only reply.
Ends(r) ==
    \/ GetMetricHandler(r) \/ GetMetric(r) \/ ListMetricsHandler(r)
    \/ NothingToDo(r) \/ RejectItem(r) \/ RefuseCounter(r)
    \/ NoFileToSync(r) \/ EndSync(r)

\* They reply with a status, and "error" only for a batch or a nil payload.
LEMMA EndsReply ==
    ASSUME Inv, NEW r \in Reqs, Ends(r)
    PROVE  /\ pc[r] # "new"
           /\ \E st \in Statuses : End(r, st) /\
                 (st = "error" /\ req[r].kind \in Queries =>
                    \E k \in IDs : metrics[k] # NULL /\ NilPayload(metrics[k]))
<1>0. RequestOK(r)
  BY DEF Inv
<1>1. CASE GetMetricHandler(r)
  <2>1. req[r] \in Inputs /\ req[r].kind = "geturl" /\ At(r, "get")
    BY <1>0, <1>1 DEF RequestOK, GetMetricHandler, Asked, At
  <2>2. req[r].items \in Seq(Items) /\ Len(req[r].items) = 1
    BY <2>1, ServiceAssumption DEF Requests
  <2>3. req[r].items[1] \in Items
    BY <2>2
  <2> DEFINE it == req[r].items[1]
             m  == metrics[it.id]
  <2>4. it.id # NULL => it.id \in IDs
    BY <2>3 DEF Items
  <2>5. CASE it.id # NULL /\ m # NULL /\ NilPayload(m)
    BY <1>1, <2>1, <2>4, <2>5 DEF GetMetricHandler, At, Statuses
  <2>6. CASE ~(it.id # NULL /\ m # NULL /\ NilPayload(m))
    <3>1. PICK st \in {"bad", "notfound", "ok"} : End(r, st)
      BY <1>1, <2>6 DEF GetMetricHandler
    <3>2. QED
      BY <2>1, <3>1 DEF At, Statuses
  <2>7. QED
    BY <2>5, <2>6
<1>2. CASE GetMetric(r)
  BY <1>2 DEF GetMetric, Asked, At, Statuses
<1>3. CASE ListMetricsHandler(r)
  BY <1>3 DEF ListMetricsHandler, Asked, At, Statuses
<1>4. CASE NothingToDo(r)
  BY <1>4 DEF NothingToDo, At, Statuses
<1>5. CASE RejectItem(r)
  BY <1>0, <1>5 DEF RequestOK, RejectItem, HasItem, At, Statuses, Failure, Updates, Queries
<1>6. CASE RefuseCounter(r)
  BY <1>0, <1>6 DEF RequestOK, RefuseCounter, At, Statuses, Failure, Updates, Queries
<1>7. CASE NoFileToSync(r)
  BY <1>7 DEF NoFileToSync, At, Statuses
<1>8. CASE EndSync(r)
  BY <1>8 DEF EndSync, At, Statuses
<1>9. QED
  BY <1>1, <1>2, <1>3, <1>4, <1>5, <1>6, <1>7, <1>8 DEF Ends

\* The steps of the service, sorted by what they do to the storage.
LEMMA StepKinds ==
    ASSUME [Next]_vars
    PROVE  \/ \E r \in Reqs : \/ \E in \in Inputs : Arrive(r, in)
                             \/ Ends(r) \/ ReadCounter(r) \/ Finish(r)
                             \/ WriteCounter(r) \/ WriteGauge(r)
                             \/ BeginSync(r) \/ Save(r)
           \/ Auditing
           \/ UNCHANGED vars
BY DEF Next, Handler, Ends, Terminated

LEMMA InvStep == Inv /\ [Next]_vars => Inv'
<1>. SUFFICES ASSUME Inv, [Next]_vars PROVE Inv'
  OBVIOUS
<1>1. ASSUME NEW r \in Reqs, Ends(r) PROVE Inv'
  BY <1>1, EndsReply, InvEnd
<1>2. ASSUME NEW r \in Reqs, Save(r) PROVE Inv'
  BY <1>2, InvSave, ServiceAssumption
<1>3. QED
  BY StepKinds, <1>1, <1>2, InvArrive, InvReadCounter, InvFinish, InvWrite,
     InvBeginSync, InvAuditing, InvStutter

LEMMA ServiceInvariant == Spec => []Inv
BY InvInit, InvStep, PTL DEF Spec

(* Every variable of the service keeps its type; in particular no stored   *)
(* delta leaves the range of int64.                                        *)
THEOREM ServiceTypes == Spec => []TypeOK
<1>1. Inv => TypeOK
  BY DEF Inv
<1>2. QED
  BY ServiceInvariant, <1>1, PTL

(* Whatever the handlers do and however many run, without overlapping      *)
(* saves the file is exactly the last successful synchronous save.         *)
THEOREM ServiceFileExact == Spec => []SavedExact
<1>1. Inv => SavedExact
  BY DEF Inv, FSInv, SavedExact
<1>2. QED
  BY ServiceInvariant, <1>1, PTL

-----------------------------------------------------------------------------
LEMMA NoNilStep == Inv /\ NoNilPayload /\ [Next]_vars => NoNilPayload'
<1>. SUFFICES ASSUME Inv, NoNilPayload, [Next]_vars PROVE NoNilPayload'
  OBVIOUS
<1>a. metrics \in MetricMaps /\ pc \in [Reqs -> Stages] /\ status \in [Reqs -> Statuses \cup {NULL}]
  BY DEF Inv, TypeOK, ServiceTypeOK
<1>1. ASSUME NEW r \in Reqs, WriteCounter(r) \/ WriteGauge(r) PROVE NoNilPayload'
  <2>1. PICK d \in Deltas \cup {NULL} : /\ Item(r).mtype = "counter" => d # NULL
                                        /\ Store(r, Stored(Item(r), d))
    BY <1>1, WrittenMetric
  <2>2. ~NilPayload(Stored(Item(r), d))
    BY <1>1, <2>1, WrittenMetric, StoredIsMetric
  <2>3. \A k \in IDs : metrics'[k] # NULL => ~NilPayload(metrics'[k])
    BY <1>a, <2>1, <2>2 DEF NoNilPayload, Store, MetricMaps
  <2>4. \A q \in Reqs : pc'[q] = "done" => pc[q] = "done"
    BY <1>a, <2>1 DEF Store, GoTo
  <2>5. QED
    BY <2>1, <2>3, <2>4 DEF NoNilPayload, Store, At
<1>2. ASSUME NEW r \in Reqs, Ends(r) PROVE NoNilPayload'
  <2>1. PICK st \in Statuses :
           End(r, st) /\ (st = "error" /\ req[r].kind \in Queries =>
                             \E k \in IDs : metrics[k] # NULL /\ NilPayload(metrics[k]))
    BY <1>2, EndsReply
  <2>2. st = "error" => req[r].kind \notin Queries
    BY <2>1 DEF NoNilPayload
  <2>3. QED
    BY <1>a, <2>1, <2>2 DEF NoNilPayload, End, Reply, GoTo, At
<1>3. ASSUME NEW r \in Reqs, NEW in \in Inputs, Arrive(r, in) PROVE NoNilPayload'
  BY <1>a, <1>3 DEF NoNilPayload, Arrive, GoTo, At, Inv, TypeOK, ServiceTypeOK
<1>4. ASSUME NEW r \in Reqs, ReadCounter(r) \/ BeginSync(r) PROVE NoNilPayload'
  BY <1>a, <1>4 DEF NoNilPayload, ReadCounter, BeginSync, GoTo, At
<1>5. ASSUME NEW r \in Reqs, Finish(r) PROVE NoNilPayload'
  BY <1>a, <1>5 DEF NoNilPayload, Finish, Reply, GoTo, At
<1>6. ASSUME UNCHANGED serviceVars PROVE NoNilPayload'
  BY <1>6 DEF NoNilPayload, serviceVars, reqVars, At
<1>7. (\E r \in Reqs : Save(r)) \/ Auditing \/ UNCHANGED vars => UNCHANGED serviceVars
  BY DEF Save, Auditing, vars
<1>8. QED
  BY StepKinds, <1>1, <1>2, <1>3, <1>4, <1>5, <1>6, <1>7

(* No interleaving of updates that change the types of names leaves a      *)
(* counter without a delta or a gauge without a value, so the two "is nil" *)
(* replies of GetMetricHandler are dead code.                              *)
THEOREM NilPayloadNeverServed == Spec => []NoNilPayload
<1>1. Init => NoNilPayload
  BY DEF Init, ServiceInit, NoNilPayload, EmptyMap, At
<1>2. QED
  BY ServiceInvariant, <1>1, NoNilStep, PTL DEF Spec

-----------------------------------------------------------------------------
\* m, found under the name k, holds at most what was given under k.
Within(k, m) == m # NULL /\ m.delta # NULL => m.delta \in 0 .. given[k]

\* Not only what is stored but also what a handler has read and not yet added to.
CountInv ==
    NonNegative => \A k \in IDs :
        /\ given[k] \in Nat
        /\ given[k] < HalfRange =>
              /\ Within(k, metrics[k])
              /\ \A r \in Reqs : pc[r] = "write" /\ Item(r).id = k => Within(k, seen[r])

\* Every other step leaves the storage and its history alone, and of a handler
\* about to write what it has read and what it was asked.
LEMMA OthersKeep ==
    ASSUME Inv, [Next]_vars, NEW r \in Reqs,
           ~\E q \in Reqs : ReadCounter(q) \/ WriteCounter(q) \/ WriteGauge(q)
    PROVE  /\ UNCHANGED <<metrics, given>>
           /\ pc'[r] = "write" => pc[r] = "write" /\ seen'[r] = seen[r] /\ Item(r)' = Item(r)
<1>a. pc \in [Reqs -> Stages] /\ seen \in [Reqs -> Metric \cup {NULL}]
      /\ req \in [Reqs -> Inputs \cup {NULL}]
  BY DEF Inv, TypeOK, ServiceTypeOK
<1>1. ASSUME NEW q \in Reqs, Ends(q)
      PROVE  /\ UNCHANGED <<metrics, given>>
             /\ pc'[r] = "write" => pc[r] = "write" /\ seen'[r] = seen[r] /\ Item(r)' = Item(r)
  <2>1. PICK st \in Statuses : End(q, st)
    BY <1>1, EndsReply
  <2>2. QED
    BY <1>a, <2>1 DEF End, Reply, GoTo, Item
<1>2. ASSUME NEW q \in Reqs, NEW in \in Inputs, Arrive(q, in)
      PROVE  /\ UNCHANGED <<metrics, given>>
             /\ pc'[r] = "write" => pc[r] = "write" /\ seen'[r] = seen[r] /\ Item(r)' = Item(r)
  BY <1>a, <1>2 DEF Arrive, GoTo, Item
<1>3. ASSUME NEW q \in Reqs, Finish(q) \/ BeginSync(q)
      PROVE  /\ UNCHANGED <<metrics, given>>
             /\ pc'[r] = "write" => pc[r] = "write" /\ seen'[r] = seen[r] /\ Item(r)' = Item(r)
  BY <1>a, <1>3 DEF Finish, BeginSync, Reply, GoTo, Item
<1>4. ASSUME UNCHANGED serviceVars
      PROVE  /\ UNCHANGED <<metrics, given>>
             /\ pc'[r] = "write" => pc[r] = "write" /\ seen'[r] = seen[r] /\ Item(r)' = Item(r)
  BY <1>4 DEF serviceVars, reqVars, Item
<1>5. (\E q \in Reqs : Save(q)) \/ Auditing \/ UNCHANGED vars => UNCHANGED serviceVars
  BY DEF Save, Auditing, vars
<1>6. QED
  BY StepKinds, <1>1, <1>2, <1>3, <1>4, <1>5

\* A write adds its delta to the sum of what was given, which never shrinks.
LEMMA WriteGives ==
    ASSUME Inv, CountInv, NonNegative, NEW r \in Reqs, WriteCounter(r) \/ WriteGauge(r),
           NEW k \in IDs
    PROVE  LET it == Item(r)
               d  == IF it.delta = NULL THEN 0 ELSE it.delta
           IN  /\ Valid(it) /\ it \in Items /\ it.id \in IDs /\ it.delta \in Deltas \cup {NULL}
               /\ d \in Nat /\ given'[it.id] = given[it.id] + d
               /\ given[k] \in Nat /\ given'[k] \in Nat /\ given'[k] >= given[k]
<1> DEFINE it == Item(r)
           d  == IF it.delta = NULL THEN 0 ELSE it.delta
<1>a. given \in [IDs -> Int]
  BY DEF Inv, TypeOK, ServiceTypeOK
<1>b. HalfRange \in Nat \ {0}
  BY MetricsAssumption
<1>1. /\ pc[r] \in {"item", "write"} /\ req[r].items # NULL /\ req[r].items # <<>>
      /\ Valid(it) /\ it \in Items
  BY WrittenMetric
<1>2. it.id \in IDs /\ it.delta \in Deltas \cup {NULL}
  BY <1>1, ValidNamed DEF Items
<1>3. d \in Nat
  <2>1. req[r] \in Inputs /\ idx[r] \in 1 .. Len(req[r].items)
    BY <1>1, ItemIsItem DEF Inv, RequestOK
  <2>2. it.delta = NULL \/ it.delta >= 0
    BY <1>1, <2>1 DEF NonNegative, Item
  <2>3. QED
    BY <1>2, <2>2, <1>b DEF Deltas
<1>4. given' = [given EXCEPT ![it.id] = @ + d]
  BY <1>a, <1>2 DEF WriteCounter, WriteGauge, Store
<1>5. /\ given[k] \in Nat /\ given'[k] \in Nat /\ given'[k] >= given[k]
      /\ given'[it.id] = given[it.id] + d
  BY <1>a, <1>2, <1>3, <1>4 DEF CountInv
<1>6. QED
  BY <1>1, <1>2, <1>3, <1>5

LEMMA CountStep == Inv /\ CountInv /\ [Next]_vars => CountInv'
<1>. SUFFICES ASSUME Inv, CountInv, [Next]_vars, NonNegative, NEW k \in IDs
     PROVE  /\ given'[k] \in Nat
            /\ given'[k] < HalfRange =>
                  /\ Within(k, metrics[k])'
                  /\ \A r \in Reqs : pc'[r] = "write" /\ Item(r)'.id = k => Within(k, seen[r])'
  BY DEF CountInv, NonNegative
<1>a. /\ metrics \in MetricMaps /\ given \in [IDs -> Int] /\ pc \in [Reqs -> Stages]
      /\ seen \in [Reqs -> Metric \cup {NULL}] /\ req \in [Reqs -> Inputs \cup {NULL}]
      /\ idx \in [Reqs -> Nat]
  BY DEF Inv, TypeOK, ServiceTypeOK
<1>b. HalfRange \in Nat \ {0} /\ NULL \notin Deltas
  BY MetricsAssumption DEF Deltas
<1>1. ASSUME NEW r \in Reqs, ReadCounter(r)
      PROVE  /\ given'[k] \in Nat
             /\ given'[k] < HalfRange =>
                   /\ Within(k, metrics[k])'
                   /\ \A q \in Reqs : pc'[q] = "write" /\ Item(q)'.id = k => Within(k, seen[q])'
  <2>1. UNCHANGED <<metrics, given, req, idx>> /\ seen' = [seen EXCEPT ![r] = metrics[Item(r).id]]
        /\ pc' = [pc EXCEPT ![r] = "write"]
    BY <1>1 DEF ReadCounter, GoTo
  <2>2. \A q \in Reqs : Item(q)' = Item(q)
    BY <2>1 DEF Item
  <2>3. \A q \in Reqs : q # r /\ pc'[q] = "write" => pc[q] = "write" /\ seen'[q] = seen[q]
    BY <1>a, <2>1
  <2>4. seen'[r] = metrics[Item(r).id]
    BY <1>a, <2>1
  <2>5. QED
    BY <2>1, <2>2, <2>3, <2>4 DEF CountInv, Within
<1>2. ASSUME NEW r \in Reqs, WriteCounter(r) \/ WriteGauge(r)
      PROVE  /\ given'[k] \in Nat
             /\ given'[k] < HalfRange =>
                   /\ Within(k, metrics[k])'
                   /\ \A q \in Reqs : pc'[q] = "write" /\ Item(q)'.id = k => Within(k, seen[q])'
  <2> DEFINE it == Item(r)
             d  == IF it.delta = NULL THEN 0 ELSE it.delta
  <2>1. /\ Valid(it) /\ it \in Items /\ it.id \in IDs /\ it.delta \in Deltas \cup {NULL}
        /\ d \in Nat /\ given'[it.id] = given[it.id] + d
        /\ given[k] \in Nat /\ given'[k] \in Nat /\ given'[k] >= given[k]
    BY <1>2, WriteGives
  <2>2. \A q \in Reqs : pc'[q] = "write" =>
            pc[q] = "write" /\ seen'[q] = seen[q] /\ Item(q)' = Item(q)
    BY <1>a, <1>2 DEF WriteCounter, WriteGauge, Store, GoTo, Item
  <2>3. ASSUME NEW m, Within(k, m) PROVE Within(k, m)'
    <3>1. CASE m # NULL /\ m.delta # NULL
      BY <2>1, <2>3, <3>1 DEF Within
    <3>2. CASE ~(m # NULL /\ m.delta # NULL)
      BY <3>2 DEF Within
    <3>3. QED
      BY <3>1, <3>2
  <2>4. given'[k] < HalfRange => given[k] < HalfRange
    BY <1>b, <2>1
  <2>5. given'[k] < HalfRange =>
           \A q \in Reqs : pc'[q] = "write" /\ Item(q)'.id = k => Within(k, seen[q])'
    <3>. SUFFICES ASSUME given'[k] < HalfRange, NEW q \in Reqs, pc'[q] = "write", Item(q)'.id = k
         PROVE Within(k, seen[q])'
      OBVIOUS
    <3>1. Within(k, seen[q])
      BY <2>2, <2>4 DEF CountInv
    <3>2. QED
      BY <2>1, <2>2, <3>1 DEF Within
  <2>6. given'[k] < HalfRange => Within(k, metrics[k])'
    <3>. SUFFICES ASSUME given'[k] < HalfRange PROVE Within(k, metrics[k])'
      OBVIOUS
    <3>1. CASE k # it.id
      <4>1. metrics'[k] = metrics[k]
        BY <1>a, <1>2, <3>1 DEF WriteCounter, WriteGauge, Store, MetricMaps
      <4>2. Within(k, metrics[k])
        BY <2>4 DEF CountInv
      <4>3. QED
        BY <2>1, <4>1, <4>2 DEF Within
    <3>2. CASE k = it.id /\ WriteGauge(r)
      <4>1. metrics'[k] = Stored(it, it.delta)
        BY <1>a, <3>2 DEF WriteGauge, Store, MetricMaps
      <4>2. it.delta # NULL => it.delta \in 0 .. given'[k]
        BY <1>b, <2>1, <3>2 DEF Deltas
      <4>3. QED
        BY <4>1, <4>2 DEF Within, Stored
    <3>3. CASE k = it.id /\ WriteCounter(r)
      <4>1. metrics'[k] = Stored(it, Add(Base(seen[r]), it.delta))
        BY <1>a, <3>3 DEF WriteCounter, Store, MetricMaps
      <4>2. Within(k, seen[r]) /\ Base(seen[r]) # NULL
        BY <2>4, <3>3 DEF CountInv, WriteCounter, At
      <4>3. Base(seen[r]) \in 0 .. given[k]
        BY <2>1, <4>2 DEF Within, Base
      <4>4. it.delta \in Deltas /\ d = it.delta
        <5>1. it.mtype = "counter"
          BY <3>3 DEF Inv, RequestOK, WriteCounter, At
        <5>2. QED
          BY <2>1, <5>1 DEF Valid
      <4>5. Base(seen[r]) \in Deltas /\ Base(seen[r]) + d \in 0 .. given'[k]
            /\ Base(seen[r]) + d \in Deltas
        BY <1>b, <2>1, <3>3, <4>3 DEF Deltas
      <4>6. Add(Base(seen[r]), it.delta) \in 0 .. given'[k]
        BY <4>4, <4>5, AddInRange
      <4>7. QED
        BY <4>1, <4>6 DEF Within, Stored
    <3>4. QED
      BY <1>2, <3>1, <3>2, <3>3
  <2>7. QED
    BY <2>1, <2>5, <2>6
<1>3. ASSUME ~\E r \in Reqs : ReadCounter(r) \/ WriteCounter(r) \/ WriteGauge(r)
      PROVE  /\ given'[k] \in Nat
             /\ given'[k] < HalfRange =>
                   /\ Within(k, metrics[k])'
                   /\ \A q \in Reqs : pc'[q] = "write" /\ Item(q)'.id = k => Within(k, seen[q])'
  <2>1. UNCHANGED <<metrics, given>> \/ Reqs = {}
    BY <1>3, OthersKeep
  <2>2. \A q \in Reqs : pc'[q] = "write" =>
            pc[q] = "write" /\ seen'[q] = seen[q] /\ Item(q)' = Item(q)
    BY <1>3, OthersKeep
  <2>3. Reqs = {} => UNCHANGED <<metrics, given>>
    BY StepKinds DEF Auditing, serviceVars, vars
  <2>4. QED
    BY <2>1, <2>2, <2>3 DEF CountInv, Within
<1>4. QED
  BY <1>1, <1>2, <1>3

(* No interleaving of handlers counts an increment twice.  The bound needs *)
(* the strengthening to what handlers have read and not yet written.       *)
THEOREM NeverOvercounts == Spec => []NoOvercount
<1>1. ASSUME Init PROVE CountInv
  <2>1. \A k \in IDs : given[k] = 0 /\ metrics[k] = NULL
    BY <1>1 DEF Init, ServiceInit, EmptyMap
  <2>2. \A r \in Reqs : pc[r] = "new"
    BY <1>1 DEF Init, ServiceInit
  <2>3. \A k \in IDs : given[k] \in Nat /\ Within(k, metrics[k])
    <3>1. ASSUME NEW k \in IDs PROVE given[k] \in Nat
      <4>1. given[k] = 0
        BY <2>1
      <4>2. QED
        BY <4>1
    <3>2. \A k \in IDs : Within(k, metrics[k])
      BY <2>1, Zenon DEF Within
    <3>3. QED
      BY <3>1, <3>2
  <2>4. \A r \in Reqs : pc[r] # "write"
    BY <2>2
  <2>5. QED
    BY <2>3, <2>4, Zenon DEF CountInv
<1>2. Inv /\ CountInv => NoOvercount
  BY DEF CountInv, NoOvercount, Within
<1>3. QED
  BY ServiceInvariant, <1>1, <1>2, CountStep, PTL DEF Spec

-----------------------------------------------------------------------------
\* Unless two requests race for a counter, what a handler has read stays.
LEMMA UndisturbedStep ==
    ASSUME Inv, Raceless, Undisturbed, [Next]_vars
    PROVE  Undisturbed'
<1>a. /\ metrics \in MetricMaps /\ pc \in [Reqs -> Stages]
      /\ seen \in [Reqs -> Metric \cup {NULL}] /\ req \in [Reqs -> Inputs \cup {NULL}]
      /\ idx \in [Reqs -> Nat]
  BY DEF Inv, TypeOK, ServiceTypeOK
<1>. SUFFICES ASSUME NEW r \in Reqs, pc'[r] = "write" PROVE seen'[r] = metrics'[Item(r)'.id]
  BY DEF Undisturbed, At
<1>1. ASSUME NEW q \in Reqs, ReadCounter(q) PROVE seen'[r] = metrics'[Item(r)'.id]
  <2>1. UNCHANGED <<metrics, req, idx>> /\ Item(r)' = Item(r)
    BY <1>1 DEF ReadCounter, Item
  <2>2. CASE q = r
    BY <1>a, <1>1, <2>1, <2>2 DEF ReadCounter
  <2>3. CASE q # r
    BY <1>a, <1>1, <2>1, <2>3 DEF ReadCounter, GoTo, Undisturbed, At
  <2>4. QED
    BY <2>2, <2>3
<1>2. ASSUME NEW q \in Reqs, WriteCounter(q) \/ WriteGauge(q)
      PROVE  seen'[r] = metrics'[Item(r)'.id]
  <2>1. PICK m : Store(q, m)
    BY <1>2, WrittenMetric
  <2>2. q # r /\ pc[r] = "write" /\ seen'[r] = seen[r] /\ Item(r)' = Item(r)
    <3>1. pc'[q] # "write"
      BY <1>a, <2>1 DEF Store, GoTo
    <3>2. QED
      BY <1>a, <2>1, <3>1 DEF Store, GoTo, Item
  <2>3. HasItem(q) \/ At(q, "write")
    BY <1>2 DEF WriteCounter, WriteGauge
  <2>4. Item(q).id # Item(r).id
    BY <2>2, <2>3 DEF Raceless, At
  <2>5. metrics'[Item(r).id] = metrics[Item(r).id]
    BY <1>a, <2>1, <2>4 DEF Store, MetricMaps
  <2>6. QED
    BY <2>2, <2>5 DEF Undisturbed, At
<1>3. ASSUME ~\E q \in Reqs : ReadCounter(q) \/ WriteCounter(q) \/ WriteGauge(q)
      PROVE  seen'[r] = metrics'[Item(r)'.id]
  BY <1>3, OthersKeep DEF Undisturbed, At
<1>4. QED
  BY <1>1, <1>2, <1>3

\* With one request in flight at a time there is no race.
OneInFlight == \A q, r \in InFlight : q = r

LEMMA OneIsRaceless == ASSUME OneInFlight PROVE Raceless
BY DEF OneInFlight, Raceless, InFlight, HasItem, At

LEMMA SerialStep ==
    ASSUME MaxInFlight = 1, Inv, OneInFlight, [Next]_vars
    PROVE  OneInFlight'
<1>a. pc \in [Reqs -> Stages]
  BY DEF Inv, TypeOK, ServiceTypeOK
<1>1. ASSUME NEW r \in Reqs, NEW in \in Inputs, Arrive(r, in) PROVE \A p, q \in InFlight' : p = q
  <2>1. InFlight \in SUBSET Reqs
    BY DEF InFlight
  <2>2. Cardinality(InFlight) < 1 /\ IsFiniteSet(InFlight)
    BY <1>1, <2>1, FS_Subset, ServiceAssumption DEF Arrive
  <2>3. InFlight = {}
    <3>1. Cardinality(InFlight) \in Nat
      BY <2>2, FS_CardinalityType
    <3>2. QED
      BY <2>2, <3>1, FS_EmptySet
  <2>4. \A q \in Reqs \ {r} : pc'[q] = pc[q]
    BY <1>a, <1>1 DEF Arrive, GoTo
  <2>5. QED
    BY <2>3, <2>4 DEF InFlight
<1>2. ASSUME ~\E r \in Reqs : \E in \in Inputs : Arrive(r, in)
      PROVE  \A r \in Reqs : pc[r] \in {"new", "done"} => pc'[r] = pc[r]
  <2>1. ASSUME NEW q \in Reqs, Ends(q), NEW r \in Reqs, pc[r] \in {"new", "done"}
        PROVE  pc'[r] = pc[r]
    <3>1. PICK st \in Statuses : End(q, st)
      BY <2>1, EndsReply
    <3>2. pc[q] # "new"
      BY <2>1, EndsReply
    <3>3. QED
      BY <1>a, <2>1, <3>1, <3>2 DEF End, Reply, GoTo
  <2>2. ASSUME NEW q \in Reqs, ReadCounter(q) \/ BeginSync(q) \/ Finish(q),
               NEW r \in Reqs, pc[r] \in {"new", "done"}
        PROVE  pc'[r] = pc[r]
    BY <1>a, <2>2 DEF ReadCounter, HasItem, BeginSync, Finish, Reply, GoTo, At
  <2>3. ASSUME NEW q \in Reqs, WriteCounter(q) \/ WriteGauge(q),
               NEW r \in Reqs, pc[r] \in {"new", "done"}
        PROVE  pc'[r] = pc[r]
    BY <1>a, <2>3 DEF WriteCounter, WriteGauge, Store, HasItem, GoTo, At
  <2>4. (\E q \in Reqs : Save(q)) \/ Auditing \/ UNCHANGED vars => pc' = pc
    BY DEF Save, Auditing, vars, serviceVars, reqVars
  <2>5. QED
    BY StepKinds, <1>2, <2>1, <2>2, <2>3, <2>4
<1>3. ASSUME ~\E r \in Reqs : \E in \in Inputs : Arrive(r, in)
      PROVE  \A p, q \in InFlight' : p = q
  <2>1. InFlight' \subseteq InFlight
    BY <1>2, <1>3 DEF InFlight
  <2>2. QED
    BY <2>1 DEF OneInFlight
<1>4. QED
  BY <1>1, <1>3 DEF OneInFlight

\* What was written of a request that is at its items: those before idx.
Early == {"new", "item", "write"}
Ordered ==
    \A r \in Reqs :
        /\ pc[r] = "new" => req[r] = NULL
        /\ pc[r] \in Early => \A k \in Nat : <<r, k>> \in wrote <=> k \in 1 .. idx[r] - 1

\* The steps that neither bring a request nor write an item.
LEMMA Untouched ==
    ASSUME Inv, [Next]_vars,
           ~\E q \in Reqs : \/ \E in \in Inputs : Arrive(q, in)
                            \/ WriteCounter(q) \/ WriteGauge(q)
    PROVE  /\ UNCHANGED <<metrics, req, wrote, idx, given>>
           /\ \A r \in Reqs : pc'[r] \in Early => pc[r] \in Early
           /\ \A r \in Reqs : pc'[r] = "new" => pc[r] = "new"
<1>a. pc \in [Reqs -> Stages]
  BY DEF Inv, TypeOK, ServiceTypeOK
<1> DEFINE Same == /\ UNCHANGED <<metrics, req, wrote, idx, given>>
                   /\ \A r \in Reqs : pc'[r] \in Early => pc[r] \in Early
                   /\ \A r \in Reqs : pc'[r] = "new" => pc[r] = "new"
<1>1. ASSUME NEW q \in Reqs, Ends(q) PROVE Same
  <2>1. PICK st \in Statuses : End(q, st)
    BY <1>1, EndsReply
  <2>2. QED
    BY <1>a, <2>1 DEF End, Reply, GoTo, Early
<1>2. ASSUME NEW q \in Reqs, ReadCounter(q) PROVE Same
  BY <1>a, <1>2 DEF ReadCounter, HasItem, At, GoTo, Early
<1>3. ASSUME NEW q \in Reqs, Finish(q) \/ BeginSync(q) PROVE Same
  BY <1>a, <1>3 DEF Finish, BeginSync, Reply, GoTo, Early
<1>4. (\E q \in Reqs : Save(q)) \/ Auditing \/ UNCHANGED vars => Same
  BY DEF Save, Auditing, vars, serviceVars, reqVars
<1>5. QED
  BY StepKinds, <1>1, <1>2, <1>3, <1>4

LEMMA OrderStep ==
    ASSUME Inv, Ordered, [Next]_vars
    PROVE  Ordered'
<1>a. /\ pc \in [Reqs -> Stages] /\ idx \in [Reqs -> Nat]
      /\ req \in [Reqs -> Inputs \cup {NULL}]
  BY DEF Inv, TypeOK, ServiceTypeOK
<1>1. ASSUME NEW q \in Reqs, NEW in \in Inputs, Arrive(q, in) PROVE Ordered'
  <2>1. pc[q] \in Early /\ pc'[q] # "new" /\ UNCHANGED <<wrote, idx>>
    BY <1>a, <1>1 DEF Arrive, At, GoTo, Early
  <2>2. \A r \in Reqs \ {q} : pc'[r] = pc[r] /\ req'[r] = req[r]
    BY <1>a, <1>1 DEF Arrive, GoTo
  <2>3. QED
    BY <2>1, <2>2 DEF Ordered
<1>2. ASSUME NEW q \in Reqs, WriteCounter(q) \/ WriteGauge(q) PROVE Ordered'
  <2>1. PICK m : Store(q, m)
    BY <1>2, WrittenMetric
  <2>2. /\ pc[q] \in Early /\ idx[q] \in 1 .. Len(req[q].items)
    BY <1>2, WrittenMetric, ItemIsItem DEF Early
  <2>3. /\ req' = req /\ wrote' = wrote \cup {<<q, idx[q]>>}
        /\ pc'[q] # "new"
        /\ pc'[q] \in Early => idx'[q] = idx[q] + 1
        /\ \A r \in Reqs \ {q} : pc'[r] = pc[r] /\ idx'[r] = idx[r]
    BY <1>a, <2>1 DEF Store, GoTo, Early
  <2>4. ASSUME NEW r \in Reqs, NEW k \in Nat, pc'[r] \in Early
        PROVE  <<r, k>> \in wrote' <=> k \in 1 .. idx'[r] - 1
    <3>1. CASE r # q
      BY <2>3, <2>4, <3>1 DEF Ordered
    <3>2. CASE r = q
      <4>1. <<q, k>> \in wrote <=> k \in 1 .. idx[q] - 1
        BY <2>2 DEF Ordered
      <4>2. <<q, k>> \in wrote' <=> (k \in 1 .. idx[q] - 1 \/ k = idx[q])
        BY <2>3, <4>1
      <4>3. idx[q] \in Nat \ {0} /\ idx'[q] = idx[q] + 1
        BY <1>a, <2>2, <2>3, <2>4, <3>2
      <4>4. QED
        BY <3>2, <4>2, <4>3
    <3>3. QED
      BY <3>1, <3>2
  <2>5. ASSUME NEW r \in Reqs, pc'[r] = "new" PROVE req'[r] = NULL
    BY <2>3, <2>5 DEF Ordered
  <2>6. QED
    BY <2>4, <2>5 DEF Ordered
<1>3. ASSUME ~\E q \in Reqs : \/ \E in \in Inputs : Arrive(q, in)
                              \/ WriteCounter(q) \/ WriteGauge(q)
      PROVE  Ordered'
  BY <1>3, Untouched DEF Ordered
<1>4. QED
  BY <1>1, <1>2, <1>3

\* The abstract specification uses the operators of Metrics as the service does.
LEMMA SameOperators ==
    /\ Atomic!EmptyMap = EmptyMap
    /\ \A it : Atomic!Valid(it) <=> Valid(it)
    /\ \A m : Atomic!Base(m) = Base(m)
    /\ \A x, y : Atomic!Add(x, y) = Add(x, y)
    /\ \A it, d : Atomic!Stored(it, d) = Stored(it, d)
BY DEF Atomic!EmptyMap, EmptyMap, Atomic!Valid, Valid,
       Atomic!Base, Base, Atomic!Add, Add, Atomic!Wrap, Wrap, Atomic!Stored, Stored

\* An item that is written is the next one its request wants.
LEMMA WritesNext ==
    ASSUME Inv, Ordered, NEW r \in Reqs, WriteCounter(r) \/ WriteGauge(r)
    PROVE  /\ idx[r] \in Atomic!Wanted(r)
           /\ \A j \in 1 .. idx[r] : <<r, j>> \in wrote <=> j < idx[r]
<1>1. /\ pc[r] \in {"item", "write"} /\ idx[r] \in 1 .. Len(req[r].items)
      /\ req[r].items # NULL /\ req[r].items \in Seq(Items)
  BY WrittenMetric, ItemIsItem
<1>2. req[r] \in Inputs /\ req[r].kind \in Updates
  BY <1>1 DEF Inv, RequestOK
<1>3. req[r] # NULL
  BY <1>2, ServiceAssumption
<1>4. idx[r] \in Atomic!Wanted(r)
  BY <1>1, <1>2, <1>3 DEF Atomic!Wanted, Updates
<1>5. \A k \in Nat : <<r, k>> \in wrote <=> k \in 1 .. idx[r] - 1
  BY <1>1 DEF Ordered, Early
<1>6. idx[r] \in Nat
  BY DEF Inv, TypeOK, ServiceTypeOK
<1>7. QED
  BY <1>4, <1>5, <1>6

LEMMA AtomicStep ==
    ASSUME Inv, Undisturbed, Ordered, [Next]_vars
    PROVE  [Atomic!AMNext]_<<metrics, req, wrote, given>>
<1>1. ASSUME NEW r \in Reqs, WriteCounter(r) PROVE Atomic!AMNext
  <2>1. Valid(Item(r)) /\ Item(r).mtype = "counter"
    BY <1>1 DEF Inv, RequestOK, WriteCounter, At
  <2>2. seen[r] = metrics[Item(r).id]
    BY <1>1 DEF Undisturbed, WriteCounter, At
  <2>3. Atomic!Update(Item(r))
    BY <1>1, <2>1, <2>2, SameOperators DEF Atomic!Update, WriteCounter, Store
  <2>4. Atomic!Apply(r, idx[r])
    BY <1>1, <2>3, WritesNext DEF Atomic!Apply, WriteCounter, Store, Item
  <2>5. QED
    BY <1>1, <2>4, WritesNext DEF Atomic!AMNext
<1>2. ASSUME NEW r \in Reqs, WriteGauge(r) PROVE Atomic!AMNext
  <2>1. Valid(Item(r)) /\ Item(r).mtype = "gauge"
    BY <1>2 DEF WriteGauge
  <2>2. Atomic!Update(Item(r))
    BY <1>2, <2>1, SameOperators DEF Atomic!Update, WriteGauge, Store
  <2>3. Atomic!Apply(r, idx[r])
    BY <1>2, <2>2, WritesNext DEF Atomic!Apply, WriteGauge, Store, Item
  <2>4. QED
    BY <1>2, <2>3, WritesNext DEF Atomic!AMNext
<1>3. ASSUME NEW r \in Reqs, NEW in \in Inputs, Arrive(r, in) PROVE Atomic!AMNext
  <2>1. Atomic!Ask(r, in)
    BY <1>3 DEF Atomic!Ask, Arrive, At, Ordered
  <2>2. QED
    BY <2>1 DEF Atomic!AMNext
<1>4. QED
  BY <1>1, <1>2, <1>3, Untouched

LEMMA AtomicInit == Init => Undisturbed /\ OneInFlight /\ Ordered /\ Atomic!AMInit
BY DEF Init, ServiceInit, Undisturbed, At, OneInFlight, InFlight, Ordered, Early, Atomic!AMInit,
       EmptyMap, Atomic!EmptyMap

(* The handlers implement the atomic service, each item of each request    *)
(* applied at one instant, once and in order, however many requests are in *)
(* flight, as long as none gets between the two storage calls with which   *)
(* another one updates a counter of the same name.  That is all an         *)
(* increment can be lost to.                                               *)
THEOREM RacelessServiceIsAtomic == Spec /\ []Raceless => AppliesAtomically
<1>1. Inv /\ Raceless /\ Undisturbed /\ [Next]_vars => Undisturbed'
  BY UndisturbedStep
<1>2. Inv /\ Ordered /\ [Next]_vars => Ordered'
  BY OrderStep
<1>3. Inv /\ Undisturbed /\ Ordered /\ [Next]_vars => [Atomic!AMNext]_(Atomic!absVars)
  BY AtomicStep DEF Atomic!absVars
<1>4. QED
  BY ServiceInvariant, AtomicInit, <1>1, <1>2, <1>3, PTL
  DEF Spec, AppliesAtomically, Atomic!AMSpec

(* Step by step: for any number of requests in flight, a step taken while  *)
(* what every handler has read of a counter is still stored is one of the  *)
(* atomic service, or none (ReadCounter, WriteCounter and every other step *)
(* of the handlers, savers and audit goroutines).                          *)
THEOREM UnracedStepsAreAtomic == Spec => AppliesUnlessRaced
<1>1. Inv /\ Ordered /\ [Next]_vars => Ordered'
  BY OrderStep
<1>2. Inv /\ Undisturbed /\ Ordered /\ [Next]_vars => [Atomic!AMNext]_(Atomic!absVars)
  BY AtomicStep DEF Atomic!absVars
<1>3. Inv /\ Ordered /\ [Next]_vars => [Undisturbed => [Atomic!AMNext]_(Atomic!absVars)]_vars
  BY <1>2
<1>4. QED
  BY ServiceInvariant, AtomicInit, <1>1, <1>3, PTL DEF Spec, AppliesUnlessRaced

(* With one request in flight at a time there is no such race.             *)
THEOREM SerialServiceIsAtomic ==
    ASSUME MaxInFlight = 1
    PROVE  Spec => AppliesAtomically
<1>1. Inv /\ OneInFlight /\ [Next]_vars => OneInFlight'
  BY SerialStep
<1>2. OneInFlight => Raceless
  BY OneIsRaceless
<1>3. Spec => []Raceless
  BY ServiceInvariant, AtomicInit, <1>1, <1>2, PTL DEF Spec
<1>4. QED
  BY <1>3, RacelessServiceIsAtomic, PTL

\* What is proved about the atomic service.
AtomicP == INSTANCE AtomicMetricsProofs
           WITH store <- metrics, asked <- req, applied <- wrote, total <- given

LEMMA SameAtomic == AppliesAtomically => AtomicP!AMSpec
<1>1. Atomic!AMInit => AtomicP!AMInit
  BY DEF Atomic!AMInit, AtomicP!AMInit, Atomic!EmptyMap, AtomicP!EmptyMap
<1>2. \A it : Atomic!Update(it) => AtomicP!Update(it)
  BY DEF Atomic!Update, AtomicP!Update, Atomic!Valid, AtomicP!Valid, Atomic!Base, AtomicP!Base,
         Atomic!Add, AtomicP!Add, Atomic!Wrap, AtomicP!Wrap, Atomic!Stored, AtomicP!Stored
<1>3. Atomic!AMNext => AtomicP!AMNext
  BY <1>2 DEF Atomic!AMNext, AtomicP!AMNext, Atomic!Ask, AtomicP!Ask,
              Atomic!Wanted, AtomicP!Wanted, Atomic!Apply, AtomicP!Apply
<1>4. [Atomic!AMNext]_(Atomic!absVars) => [AtomicP!AMNext]_(AtomicP!absVars)
  BY <1>3 DEF Atomic!absVars, AtomicP!absVars
<1>5. QED
  BY <1>1, <1>4, PTL DEF AppliesAtomically, Atomic!AMSpec, AtomicP!AMSpec

(* Hence the only way to lose an increment is that race of two requests:   *)
(* in every behaviour without it, of any number of requests at a time, a   *)
(* name that only counters were written to holds their sum.                *)
THEOREM RacelessCountersSum == Spec /\ []Raceless => []CounterSums
<1>1. AtomicP!RequestsOK
  BY ServiceAssumption
  DEF AtomicP!RequestsOK, Requests, AtomicP!Items, Items,
      AtomicP!Types, Types, AtomicP!Deltas, Deltas
<1>2. AtomicP!AMSpec => []AtomicP!SumOfCounters
  BY <1>1, AtomicP!AtomicCountersSum, MetricsAssumption
<1>3. AtomicP!SumOfCounters => CounterSums
  BY DEF AtomicP!SumOfCounters, AtomicP!AppliedTo, AtomicP!Deltas, CounterSums, ItemsOf, Deltas
<1>4. QED
  BY <1>2, <1>3, SameAtomic, RacelessServiceIsAtomic, PTL

(* One request at a time loses none.                                       *)
THEOREM SerialCountersSum ==
    ASSUME MaxInFlight = 1
    PROVE  Spec => []CounterSums
<1>1. Inv /\ OneInFlight /\ [Next]_vars => OneInFlight'
  BY SerialStep
<1>2. OneInFlight => Raceless
  BY OneIsRaceless
<1>3. QED
  BY ServiceInvariant, AtomicInit, RacelessCountersSum, <1>1, <1>2, PTL DEF Spec

-----------------------------------------------------------------------------
\* The numbers of the written items, as a client counts them.
LEMMA WrittenIs ==
    ASSUME Inv, NEW r \in Reqs
    PROVE  /\ Written(r) \subseteq Nat
           /\ \A k \in Nat : k \in Written(r) <=> <<r, k>> \in wrote
BY DEF Inv, TypeOK, ServiceTypeOK, Written

\* What an answer tells, for one request.
Tells(r) ==
    /\ \E n \in 0 .. NumItems(r) : Written(r) = 1 .. n
    /\ status[r] = "ok" => Written(r) = 1 .. NumItems(r)
    /\ status[r] # "ok" /\ Written(r) = 1 .. NumItems(r) => Synchronous(r) /\ spc[r] # "saved"

\* A request past its items has written all of them; it saves only between
\* "finish" and its answer.
AnswerInv ==
    \A r \in Reqs :
        /\ pc[r] \in {"item", "write"} /\ req[r].items = <<>> => idx[r] = 1
        /\ pc[r] \in {"finish", "saving"} =>
              /\ req[r].items # NULL
              /\ \A k \in Nat : <<r, k>> \in wrote <=> k \in 1 .. NumItems(r)
        /\ pc[r] = "saving" => Synchronous(r)
        /\ pc[r] # "saving" => ~Saving(r)
        /\ pc[r] \notin {"saving", "done"} => spc[r] = "idle"
        /\ Updated(r) => Tells(r)

\* Intervals from 1 are equal only if they end at the same number.
LEMMA SamePrefix ==
    ASSUME NEW m \in Nat, NEW n \in Nat, 1 .. m = 1 .. n
    PROVE  m = n
<1>1. m <= n
  <2>1. m = 0 \/ m \in 1 .. n
    OBVIOUS
  <2>2. QED
    BY <2>1
<1>2. n <= m
  <2>1. n = 0 \/ n \in 1 .. m
    OBVIOUS
  <2>2. QED
    BY <2>1
<1>3. QED
  BY <1>1, <1>2

\* What is written up to n.
LEMMA WrittenUpTo ==
    ASSUME Inv, NEW r \in Reqs, NEW n \in Int,
           \A k \in Nat : <<r, k>> \in wrote <=> k \in 1 .. n
    PROVE  Written(r) = 1 .. n
<1>1. Written(r) \subseteq Nat /\ \A k \in Nat : k \in Written(r) <=> k \in 1 .. n
  BY WrittenIs
<1>2. 1 .. n \subseteq Nat
  OBVIOUS
<1>3. \A k : k \in Written(r) <=> k \in 1 .. n
  BY <1>1, <1>2
<1>4. QED
  BY <1>3

\* An update is answered only in these ways.
LEMMA EndTells ==
    ASSUME Inv, Ordered, AnswerInv, NEW r \in Reqs, NEW st \in Statuses,
           End(r, st), req[r].kind \in Updates, req[r].items # NULL,
           \/ NothingToDo(r) \/ RejectItem(r) \/ RefuseCounter(r)
           \/ NoFileToSync(r) \/ EndSync(r)
    PROVE  Tells(r)'
<1> DEFINE N == Len(req[r].items)
<1>a. /\ pc \in [Reqs -> Stages] /\ idx \in [Reqs -> Nat]
      /\ status \in [Reqs -> Statuses \cup {NULL}]
  BY DEF Inv, TypeOK, ServiceTypeOK
<1>b. /\ UNCHANGED <<req, idx, wrote, spc>> /\ status'[r] = st
      /\ (NumItems(r))' = N /\ (Synchronous(r))' = Synchronous(r)
      /\ (Written(r))' = Written(r)
  BY <1>a DEF End, Reply, fsVars, NumItems, Synchronous, Written
<1>d. req[r] \in Requests
  <2>1. pc[r] # "new"
    BY DEF NothingToDo, RejectItem, HasItem, RefuseCounter, NoFileToSync, EndSync, At
  <2>2. QED
    BY <2>1, ServiceAssumption DEF Inv, RequestOK
<1>e. N \in Nat
  BY <1>d DEF Requests
<1>1. CASE NothingToDo(r)
  <2>1. req[r].items = <<>> /\ pc[r] = "item"
    BY <1>1 DEF NothingToDo, At
  <2>2. st = "ok"
    BY <1>1, <1>a, <2>1 DEF NothingToDo, End, Reply, GoTo
  <2>3. idx[r] = 1
    BY <2>1 DEF AnswerInv
  <2>4. Written(r) = {}
    <3>1. \A k \in Nat : <<r, k>> \in wrote <=> k \in 1 .. 0
      BY <2>1, <2>3 DEF Ordered, Early
    <3>2. QED
      BY <3>1, WrittenUpTo
  <2>5. N = 0 /\ 1 .. 0 = {}
    BY <2>1
  <2>6. QED
    BY <1>b, <2>2, <2>4, <2>5 DEF Tells
<1>2. CASE RejectItem(r) \/ RefuseCounter(r)
  <2>1. /\ pc[r] \in {"item", "write"} /\ req[r].items # <<>>
    BY <1>2 DEF RejectItem, HasItem, RefuseCounter, At, Inv, RequestOK
  <2>2. idx[r] \in 1 .. N
    BY <2>1, ItemIsItem
  <2>3. st # "ok"
    BY <1>2, <1>a DEF RejectItem, RefuseCounter, End, Reply, Failure
  <2>4. Written(r) = 1 .. idx[r] - 1
    <3>1. idx[r] - 1 \in Int /\ \A k \in Nat : <<r, k>> \in wrote <=> k \in 1 .. idx[r] - 1
      BY <1>a, <2>1 DEF Ordered, Early
    <3>2. QED
      BY <3>1, WrittenUpTo
  <2>5. idx[r] - 1 \in 0 .. N /\ idx[r] - 1 # N
    BY <1>e, <2>2
  <2>6. Written(r) # 1 .. N
    BY <1>e, <2>4, <2>5, SamePrefix
  <2>7. QED
    BY <1>b, <2>3, <2>4, <2>5, <2>6 DEF Tells
<1>3. CASE NoFileToSync(r) \/ EndSync(r)
  <2>1. /\ pc[r] \in {"finish", "saving"} /\ Synchronous(r)
        /\ pc[r] = "finish" => spc[r] = "idle"
    BY <1>3 DEF NoFileToSync, EndSync, At, AnswerInv
  <2>2. Written(r) = 1 .. N
    <3>1. \A k \in Nat : <<r, k>> \in wrote <=> k \in 1 .. N
      BY <2>1 DEF AnswerInv, NumItems
    <3>2. QED
      BY <1>e, <3>1, WrittenUpTo
  <2>3. st # "ok" => spc[r] # "saved"
    BY <1>3, <1>a, <2>1 DEF NoFileToSync, EndSync, End, Reply, At
  <2>4. N \in 0 .. N
    BY <1>e
  <2>5. QED
    BY <1>b, <2>1, <2>2, <2>3, <2>4 DEF Tells
<1>4. QED
  BY <1>1, <1>2, <1>3
LEMMA AnswerEnds ==
    ASSUME Inv, Ordered, AnswerInv, NEW q \in Reqs, Ends(q)
    PROVE  AnswerInv'
<1>a. /\ pc \in [Reqs -> Stages] /\ status \in [Reqs -> Statuses \cup {NULL}]
  BY DEF Inv, TypeOK, ServiceTypeOK
<1>1. PICK st \in Statuses : End(q, st)
  BY EndsReply
<1>2. /\ UNCHANGED <<req, idx, wrote, spc>> /\ pc'[q] = "done"
      /\ \A r \in Reqs \ {q} : pc'[r] = pc[r] /\ status'[r] = status[r]
  BY <1>a, <1>1 DEF End, Reply, GoTo, fsVars
<1>3. ASSUME NEW r \in Reqs \ {q}
      PROVE  /\ (NumItems(r))' = NumItems(r) /\ (Synchronous(r))' = Synchronous(r)
             /\ (Written(r))' = Written(r) /\ (Saving(r))' = Saving(r)
             /\ (Updated(r))' = Updated(r) /\ (Tells(r))' = Tells(r)
  BY <1>2 DEF NumItems, Synchronous, Written, Saving, Updated, At, Tells
<1>4. ~(Saving(q))'
  <2>1. CASE EndSync(q)
    BY <1>2, <2>1 DEF EndSync, Saving
  <2>2. CASE ~EndSync(q)
    <3>1. pc[q] # "saving"
      BY <2>2 DEF Ends, GetMetricHandler, GetMetric, ListMetricsHandler, Asked, NothingToDo,
                  RejectItem, HasItem, RefuseCounter, NoFileToSync, At
    <3>2. QED
      BY <1>2, <3>1 DEF AnswerInv, Saving
  <2>3. QED
    BY <2>1, <2>2
<1>5. (Updated(q))' => (Tells(q))'
  <2>1. SUFFICES ASSUME req[q].kind \in Updates, req[q].items # NULL PROVE (Tells(q))'
    BY <1>2 DEF Updated
  <2>2. ~(GetMetricHandler(q) \/ GetMetric(q) \/ ListMetricsHandler(q))
    BY <2>1 DEF GetMetricHandler, GetMetric, ListMetricsHandler, Asked, Updates
  <2>3. QED
    BY <1>1, <2>1, <2>2, EndTells DEF Ends
<1>6. QED
  BY <1>2, <1>3, <1>4, <1>5 DEF AnswerInv

LEMMA AnswerStores ==
    ASSUME Inv, Ordered, AnswerInv, NEW q \in Reqs, WriteCounter(q) \/ WriteGauge(q)
    PROVE  AnswerInv'
<1>a. /\ pc \in [Reqs -> Stages] /\ idx \in [Reqs -> Nat]
  BY DEF Inv, TypeOK, ServiceTypeOK
<1>1. PICK m : Store(q, m)
  BY WrittenMetric
<1>2. /\ pc[q] \in {"item", "write"} /\ req[q].items # NULL /\ req[q].items # <<>>
      /\ idx[q] \in 1 .. Len(req[q].items)
  BY WrittenMetric, ItemIsItem
<1>3. /\ UNCHANGED <<req, status, spc>> /\ wrote' = wrote \cup {<<q, idx[q]>>}
      /\ pc'[q] = IF idx[q] = NumItems(q) THEN "finish" ELSE "item"
      /\ \A r \in Reqs \ {q} : pc'[r] = pc[r] /\ idx'[r] = idx[r]
  BY <1>a, <1>1 DEF Store, GoTo, Last, NumItems, fsVars
<1>4. ASSUME NEW r \in Reqs \ {q}
      PROVE  /\ (NumItems(r))' = NumItems(r) /\ (Synchronous(r))' = Synchronous(r)
             /\ (Written(r))' = Written(r) /\ (Saving(r))' = Saving(r)
             /\ (Updated(r))' = Updated(r) /\ (Tells(r))' = Tells(r)
             /\ \A k : <<r, k>> \in wrote' <=> <<r, k>> \in wrote
  BY <1>3 DEF NumItems, Synchronous, Written, Saving, Updated, At, Tells
<1>5. pc'[q] = "finish" => \A k \in Nat : <<q, k>> \in wrote' <=> k \in 1 .. (NumItems(q))'
  <2>1. SUFFICES ASSUME pc'[q] = "finish", NEW k \in Nat
                 PROVE  <<q, k>> \in wrote' <=> k \in 1 .. (NumItems(q))'
    OBVIOUS
  <2>2. idx[q] = (NumItems(q))'
    BY <1>3, <2>1 DEF NumItems
  <2>3. <<q, k>> \in wrote <=> k \in 1 .. idx[q] - 1
    BY <1>2 DEF Ordered, Early
  <2>4. <<q, k>> \in wrote' <=> (k \in 1 .. idx[q] - 1 \/ k = idx[q])
    BY <1>3, <2>3
  <2>5. idx[q] \in Nat \ {0}
    BY <1>a, <1>2
  <2>6. k \in 1 .. idx[q] <=> (k \in 1 .. idx[q] - 1 \/ k = idx[q])
    BY <2>5
  <2>7. QED
    BY <2>2, <2>4, <2>6
<1>6. spc'[q] = "idle" /\ ~(Saving(q))'
  BY <1>2, <1>3 DEF AnswerInv, Saving, Active
<1>7. QED
  BY <1>2, <1>3, <1>4, <1>5, <1>6 DEF AnswerInv, Updated, At

LEMMA AnswerFinishes ==
    ASSUME Inv, Ordered, AnswerInv, NEW q \in Reqs, Finish(q) \/ BeginSync(q)
    PROVE  AnswerInv'
<1>a. /\ pc \in [Reqs -> Stages] /\ status \in [Reqs -> Statuses \cup {NULL}]
      /\ spc \in [Savers -> Active \cup {"idle", "refused", "saved", "failed"}]
      /\ Reqs \subseteq Savers
  BY ServiceAssumption DEF Inv, TypeOK, ServiceTypeOK, FSTypeOK
<1>1. /\ UNCHANGED <<req, idx, wrote>> /\ pc[q] = "finish"
      /\ \A r \in Reqs \ {q} : pc'[r] = pc[r] /\ status'[r] = status[r] /\ spc'[r] = spc[r]
  BY <1>a DEF Finish, BeginSync, BeginSave, Reply, GoTo, At, fsVars
<1>2. ASSUME NEW r \in Reqs \ {q}
      PROVE  /\ (NumItems(r))' = NumItems(r) /\ (Synchronous(r))' = Synchronous(r)
             /\ (Written(r))' = Written(r) /\ (Saving(r))' = Saving(r)
             /\ (Updated(r))' = Updated(r) /\ (Tells(r))' = Tells(r)
  BY <1>1 DEF NumItems, Synchronous, Written, Saving, Updated, At, Tells
<1>3. CASE Finish(q)
  <2>1. pc'[q] = "done" /\ status'[q] = "ok" /\ spc' = spc /\ spc[q] = "idle"
    BY <1>a, <1>1, <1>3 DEF Finish, Reply, GoTo, fsVars, AnswerInv
  <2>2. Written(q) = 1 .. NumItems(q) /\ NumItems(q) \in Nat
    <3>1. req[q] \in Requests /\ req[q].items # NULL
      BY <1>1, ServiceAssumption DEF Inv, RequestOK, AnswerInv
    <3>2. NumItems(q) \in Nat
      BY <3>1 DEF Requests, NumItems
    <3>3. QED
      BY <1>1, <3>2, WrittenUpTo DEF AnswerInv
  <2>3. (Written(q))' = Written(q) /\ (NumItems(q))' = NumItems(q)
    BY <1>1 DEF Written, NumItems
  <2>4. (Tells(q))'
    BY <2>1, <2>2, <2>3 DEF Tells
  <2>5. ~(Saving(q))'
    BY <2>1 DEF Saving, Active
  <2>6. QED
    BY <1>1, <1>2, <2>1, <2>4, <2>5 DEF AnswerInv
<1>4. CASE BeginSync(q)
  <2>1. pc'[q] = "saving" /\ Synchronous(q)
    BY <1>a, <1>4 DEF BeginSync, GoTo
  <2>2. (Synchronous(q))' = Synchronous(q) /\ (NumItems(q))' = NumItems(q)
    BY <1>1 DEF Synchronous, NumItems
  <2>3. QED
    BY <1>1, <1>2, <2>1, <2>2 DEF AnswerInv, Updated, At
<1>5. QED
  BY <1>3, <1>4

\* A save runs only for a request that waits for it.
LEMMA AnswerSaves ==
    ASSUME Inv, AnswerInv, NEW q \in Reqs, Save(q)
    PROVE  AnswerInv'
<1>a. /\ spc \in [Savers -> Active \cup {"idle", "refused", "saved", "failed"}]
      /\ Reqs \subseteq Savers
  BY ServiceAssumption DEF Inv, TypeOK, FSTypeOK
<1>1. UNCHANGED <<req, idx, wrote, pc, status>> /\ Saving(q)
  BY DEF Save, SaveStep, OpenTmp, WriteTmp, RenameTmp, SaveFails, serviceVars, reqVars,
         Saving, Active
<1>2. pc[q] = "saving"
  BY <1>1 DEF AnswerInv
<1>3. \A r \in Reqs \ {q} : spc'[r] = spc[r]
  BY <1>a DEF Save, SaveStep, OpenTmp, WriteTmp, RenameTmp, SaveFails
<1>4. ASSUME NEW r \in Reqs \ {q}
      PROVE  /\ (NumItems(r))' = NumItems(r) /\ (Synchronous(r))' = Synchronous(r)
             /\ (Written(r))' = Written(r) /\ (Saving(r))' = Saving(r)
             /\ (Updated(r))' = Updated(r) /\ (Tells(r))' = Tells(r)
  BY <1>1, <1>3 DEF NumItems, Synchronous, Written, Saving, Updated, At, Tells
<1>5. (Synchronous(q))' = Synchronous(q) /\ (NumItems(q))' = NumItems(q)
  BY <1>1 DEF Synchronous, NumItems
<1>6. QED
  BY <1>1, <1>2, <1>3, <1>4, <1>5 DEF AnswerInv, Updated, At

LEMMA AnswerStep == Inv /\ Ordered /\ AnswerInv /\ [Next]_vars => AnswerInv'
<1>. SUFFICES ASSUME Inv, Ordered, AnswerInv, [Next]_vars PROVE AnswerInv'
  OBVIOUS
<1>a. pc \in [Reqs -> Stages] /\ req \in [Reqs -> Inputs \cup {NULL}] /\ idx \in [Reqs -> Nat]
  BY DEF Inv, TypeOK, ServiceTypeOK
<1>1. ASSUME NEW q \in Reqs, NEW in \in Inputs, Arrive(q, in) PROVE AnswerInv'
  <2>1. /\ UNCHANGED <<idx, wrote, spc, status>>
        /\ pc[q] = "new" /\ pc'[q] \in {"get", "item"} /\ idx[q] = 1
        /\ \A r \in Reqs \ {q} : pc'[r] = pc[r] /\ req'[r] = req[r]
    BY <1>a, <1>1 DEF Arrive, GoTo, At, fsVars, Inv, RequestOK
  <2>2. ASSUME NEW r \in Reqs \ {q}
        PROVE  /\ (NumItems(r))' = NumItems(r) /\ (Synchronous(r))' = Synchronous(r)
               /\ (Written(r))' = Written(r) /\ (Saving(r))' = Saving(r)
               /\ (Updated(r))' = Updated(r) /\ (Tells(r))' = Tells(r)
    BY <2>1 DEF NumItems, Synchronous, Written, Saving, Updated, At, Tells
  <2>3. spc'[q] = "idle" /\ ~(Saving(q))'
    BY <2>1 DEF AnswerInv, Saving, Active
  <2>4. QED
    BY <2>1, <2>2, <2>3 DEF AnswerInv, Updated, At
<1>2. ASSUME NEW q \in Reqs, ReadCounter(q) PROVE AnswerInv'
  <2>1. /\ UNCHANGED <<req, idx, wrote, spc, status>>
        /\ pc[q] = "item" /\ pc'[q] = "write"
        /\ \A r \in Reqs \ {q} : pc'[r] = pc[r]
    BY <1>a, <1>2 DEF ReadCounter, HasItem, GoTo, At, fsVars
  <2>2. ASSUME NEW r \in Reqs \ {q}
        PROVE  /\ (NumItems(r))' = NumItems(r) /\ (Synchronous(r))' = Synchronous(r)
               /\ (Written(r))' = Written(r) /\ (Saving(r))' = Saving(r)
               /\ (Updated(r))' = Updated(r) /\ (Tells(r))' = Tells(r)
    BY <2>1 DEF NumItems, Synchronous, Written, Saving, Updated, At, Tells
  <2>3. (Saving(q))' = Saving(q)
    BY <2>1 DEF Saving
  <2>4. QED
    BY <2>1, <2>2, <2>3 DEF AnswerInv, Updated, At
<1>3. Auditing \/ UNCHANGED vars => AnswerInv'
  <2>1. SUFFICES ASSUME Auditing \/ UNCHANGED vars PROVE AnswerInv'
    OBVIOUS
  <2>2. UNCHANGED <<req, idx, wrote, spc, status, pc>>
    BY <2>1 DEF Auditing, vars, serviceVars, reqVars, fsVars
  <2>3. QED
    BY <2>2 DEF AnswerInv, NumItems, Synchronous, Written, Saving, Updated, At, Tells
<1>4. QED
  BY StepKinds, <1>1, <1>2, <1>3, AnswerEnds, AnswerStores, AnswerFinishes, AnswerSaves

LEMMA AnswersInvariant == Spec => [](Inv /\ Ordered /\ AnswerInv)
<1>1. Init => Ordered /\ AnswerInv
  <2>1. Init => Ordered
    BY DEF Init, ServiceInit, Ordered, Early
  <2>2. Init => AnswerInv
    BY ServiceAssumption DEF Init, ServiceInit, FSInit, AnswerInv, Updated, At, Saving, Active
  <2>3. QED
    BY <2>1, <2>2
<1>2. Inv /\ Ordered /\ [Next]_vars => Ordered'
  BY OrderStep
<1>3. QED
  BY ServiceInvariant, <1>1, <1>2, AnswerStep, PTL DEF Spec

(* What a client may conclude from its answer, for any requests, batches   *)
(* and interleavings: what is written of its request is a prefix, all of   *)
(* it if the answer is 200; and all of it under an error only where the    *)
(* synchronous save did not succeed.                                       *)
THEOREM AnswersTell == Spec => []AnswerMeansWritten
<1>1. AnswerInv => AnswerMeansWritten
  BY DEF AnswerInv, AnswerMeansWritten, Tells
<1>2. QED
  BY AnswersInvariant, <1>1, PTL

-----------------------------------------------------------------------------
\* A request that was answered stays as it is.
LEMMA DoneStays ==
    ASSUME Inv, [Next]_vars, NEW r \in Reqs, pc[r] = "done"
    PROVE  pc'[r] = "done" /\ status'[r] = status[r] /\ req'[r] = req[r] /\ Written(r)' = Written(r)
<1>a. /\ pc \in [Reqs -> Stages] /\ status \in [Reqs -> Statuses \cup {NULL}]
      /\ req \in [Reqs -> Inputs \cup {NULL}]
  BY DEF Inv, TypeOK, ServiceTypeOK
<1> DEFINE Same == /\ pc'[r] = "done" /\ status'[r] = status[r] /\ req'[r] = req[r]
                   /\ Written(r)' = Written(r)
<1>1. ASSUME NEW q \in Reqs, Ends(q) PROVE Same
  <2>1. PICK st \in Statuses : End(q, st)
    BY <1>1, EndsReply
  <2>2. pc[q] # "done"
    BY <1>1 DEF Ends, GetMetricHandler, GetMetric, ListMetricsHandler, Asked, NothingToDo,
                RejectItem, HasItem, RefuseCounter, NoFileToSync, EndSync, At
  <2>3. QED
    BY <1>a, <2>1, <2>2 DEF End, Reply, GoTo, Written
<1>2. ASSUME NEW q \in Reqs, NEW in \in Inputs, Arrive(q, in) PROVE Same
  BY <1>a, <1>2 DEF Arrive, At, GoTo, Written
<1>3. ASSUME NEW q \in Reqs, ReadCounter(q) \/ Finish(q) \/ BeginSync(q) PROVE Same
  BY <1>a, <1>3 DEF ReadCounter, HasItem, Finish, BeginSync, At, Reply, GoTo, Written
<1>4. ASSUME NEW q \in Reqs, WriteCounter(q) \/ WriteGauge(q) PROVE Same
  <2>1. PICK m : Store(q, m)
    BY <1>4, WrittenMetric
  <2>2. q # r
    BY <1>4, WrittenMetric
  <2>3. QED
    BY <1>a, <2>1, <2>2 DEF Store, GoTo, Written
<1>5. (\E q \in Reqs : Save(q)) \/ Auditing \/ UNCHANGED vars => Same
  BY DEF Save, Auditing, vars, serviceVars, reqVars, Written
<1>6. QED
  BY StepKinds, <1>1, <1>2, <1>3, <1>4, <1>5

\* The steps that answer a request.
LEMMA NewlyDone ==
    ASSUME Inv, [Next]_vars, NEW r \in Reqs, pc[r] # "done", pc'[r] = "done"
    PROVE  Ends(r) \/ Finish(r)
<1>a. pc \in [Reqs -> Stages]
  BY DEF Inv, TypeOK, ServiceTypeOK
<1>1. ASSUME NEW q \in Reqs, Ends(q), q # r PROVE FALSE
  <2>1. PICK st \in Statuses : End(q, st)
    BY <1>1, EndsReply
  <2>2. QED
    BY <1>a, <1>1, <2>1 DEF End, Reply, GoTo
<1>2. ASSUME NEW q \in Reqs, \/ \E in \in Inputs : Arrive(q, in)
                             \/ ReadCounter(q) \/ BeginSync(q) \/ (Finish(q) /\ q # r)
      PROVE  FALSE
  BY <1>a, <1>2 DEF Arrive, ReadCounter, BeginSync, Finish, Reply, GoTo, Queries
<1>3. ASSUME NEW q \in Reqs, WriteCounter(q) \/ WriteGauge(q) PROVE FALSE
  <2>1. PICK m : Store(q, m)
    BY <1>3, WrittenMetric
  <2>2. QED
    BY <1>a, <2>1 DEF Store, GoTo
<1>4. (\E q \in Reqs : Save(q)) \/ Auditing \/ UNCHANGED vars => pc' = pc
  BY DEF Save, Auditing, vars, serviceVars, reqVars
<1>5. QED
  BY StepKinds, <1>1, <1>2, <1>3, <1>4

\* What was written stays written, with the request that brought it.
LEMMA WroteStays ==
    ASSUME Inv, Ordered, [Next]_vars, NEW w \in wrote
    PROVE  w \in wrote' /\ w[1] \in Reqs /\ req'[w[1]] = req[w[1]]
<1>a. wrote \subseteq Reqs \X Nat /\ req \in [Reqs -> Inputs \cup {NULL}]
  BY DEF Inv, TypeOK, ServiceTypeOK
<1>b. w[1] \in Reqs
  BY <1>a
<1>1. ASSUME NEW q \in Reqs, NEW in \in Inputs, Arrive(q, in)
      PROVE  wrote' = wrote /\ req'[w[1]] = req[w[1]]
  <2>1. pc[q] = "new" /\ idx[q] = 1 /\ wrote' = wrote
    BY <1>1 DEF Arrive, At, Inv, RequestOK
  <2>2. ~\E k \in Nat : <<q, k>> \in wrote
    <3>1. \A k \in Nat : <<q, k>> \in wrote <=> k \in 1 .. idx[q] - 1
      BY <2>1 DEF Ordered, Early
    <3>2. 1 .. idx[q] - 1 = {}
      BY <2>1
    <3>3. QED
      BY <3>1, <3>2
  <2>3. w = <<w[1], w[2]>> /\ w[2] \in Nat
    BY <1>a
  <2>4. w[1] # q
    BY <2>2, <2>3
  <2>5. QED
    BY <1>1, <1>a, <2>1, <2>4 DEF Arrive
<1>2. ASSUME NEW q \in Reqs, WriteCounter(q) \/ WriteGauge(q)
      PROVE  wrote \subseteq wrote' /\ req' = req
  <2>1. PICK m : Store(q, m)
    BY <1>2, WrittenMetric
  <2>2. QED
    BY <2>1 DEF Store
<1>3. CASE ~\E q \in Reqs : \/ \E in \in Inputs : Arrive(q, in)
                            \/ WriteCounter(q) \/ WriteGauge(q)
  <2>1. UNCHANGED <<metrics, req, wrote, idx>>
    BY <1>3, Untouched
  <2>2. QED
    BY <1>b, <2>1
<1>4. QED
  BY <1>b, <1>1, <1>2, <1>3

-----------------------------------------------------------------------------
\* A gauge without a delta was written under the name k.
GaugeWritten(k) == \E old \in ItemsOf(k) : old.mtype = "gauge" /\ old.delta = NULL

\* What is stored, or was read, without a delta comes from such a gauge.
CauseInv ==
    /\ \A k \in IDs : metrics[k] # NULL /\ metrics[k].delta = NULL => GaugeWritten(k)
    /\ \A r \in Reqs : pc[r] = "write" /\ Base(seen[r]) = NULL => GaugeWritten(Item(r).id)
    /\ RefusedOnlyByGauge

LEMMA GaugeStays ==
    ASSUME Inv, Ordered, [Next]_vars, NEW k, GaugeWritten(k)
    PROVE  GaugeWritten(k)'
<1>1. PICK w \in wrote : LET it == req[w[1]].items[w[2]] IN
                            it.id = k /\ it.mtype = "gauge" /\ it.delta = NULL
  BY DEF GaugeWritten, ItemsOf
<1>2. w \in wrote' /\ req'[w[1]] = req[w[1]]
  BY WroteStays
<1>3. QED
  BY <1>1, <1>2 DEF GaugeWritten, ItemsOf

LEMMA CauseStored ==
    ASSUME Inv, Ordered, CauseInv, [Next]_vars, NEW k \in IDs,
           metrics'[k] # NULL, metrics'[k].delta = NULL
    PROVE  GaugeWritten(k)'
<1>a. metrics \in MetricMaps /\ req \in [Reqs -> Inputs \cup {NULL}]
  BY DEF Inv, TypeOK, ServiceTypeOK
<1>1. CASE metrics'[k] = metrics[k]
  BY <1>1, GaugeStays DEF CauseInv
<1>2. ASSUME NEW q \in Reqs, WriteCounter(q) \/ WriteGauge(q), metrics'[k] # metrics[k]
      PROVE  GaugeWritten(k)'
  <2>1. PICK d \in Deltas \cup {NULL} : /\ Item(q).mtype = "counter" => d # NULL
                                        /\ Store(q, Stored(Item(q), d))
    BY <1>2, WrittenMetric
  <2>2. Item(q).id = k /\ metrics'[k] = Stored(Item(q), d)
    BY <1>a, <1>2, <2>1 DEF Store, MetricMaps
  <2>3. d = NULL /\ Item(q).mtype # "counter" /\ Valid(Item(q))
    BY <1>2, <2>1, <2>2, WrittenMetric DEF Stored
  <2>4. Item(q).mtype = "gauge"
    BY <2>3 DEF Valid
  <2>5. WriteGauge(q)
    BY <1>2, <2>4 DEF WriteCounter, At, Inv, RequestOK
  <2>6. Item(q).delta = NULL
    <3>1. metrics' = [metrics EXCEPT ![Item(q).id] = Stored(Item(q), Item(q).delta)]
      BY <2>5 DEF WriteGauge, Store
    <3>2. metrics'[k] = Stored(Item(q), Item(q).delta)
      BY <1>a, <2>2, <3>1 DEF MetricMaps
    <3>3. QED
      BY <3>2 DEF Stored
  <2>7. <<q, idx[q]>> \in wrote' /\ req' = req /\ Item(q) = req[q].items[idx[q]]
    BY <2>1 DEF Store, Item
  <2>8. QED
    BY <2>2, <2>4, <2>6, <2>7 DEF GaugeWritten, ItemsOf
<1>3. CASE ~\E q \in Reqs : \/ \E in \in Inputs : Arrive(q, in)
                            \/ WriteCounter(q) \/ WriteGauge(q)
  BY <1>3, <1>1, Untouched
<1>4. CASE \E q \in Reqs : \E in \in Inputs : Arrive(q, in)
  BY <1>4, <1>1 DEF Arrive
<1>5. QED
  BY <1>1, <1>2, <1>3, <1>4

LEMMA CauseRead ==
    ASSUME Inv, Ordered, CauseInv, [Next]_vars, NEW r \in Reqs,
           pc'[r] = "write", Base(seen'[r]) = NULL
    PROVE  GaugeWritten(Item(r).id)' /\ Item(r)' = Item(r)
<1>a. /\ metrics \in MetricMaps /\ req \in [Reqs -> Inputs \cup {NULL}]
      /\ pc \in [Reqs -> Stages] /\ seen \in [Reqs -> Metric \cup {NULL}] /\ idx \in [Reqs -> Nat]
  BY DEF Inv, TypeOK, ServiceTypeOK
<1>1. CASE pc[r] = "write" /\ seen'[r] = seen[r] /\ Item(r)' = Item(r)
  BY <1>1, GaugeStays DEF CauseInv
<1>2. CASE ReadCounter(r)
  <2>1. seen'[r] = metrics[Item(r).id] /\ Item(r)' = Item(r)
    BY <1>2, <1>a DEF ReadCounter, Item
  <2>2. Item(r).id \in IDs
    BY <1>2, ItemIsItem, ValidNamed DEF ReadCounter, HasItem, At
  <2>3. metrics[Item(r).id] # NULL /\ metrics[Item(r).id].delta = NULL
    BY <2>1, MetricsAssumption DEF Base
  <2>4. GaugeWritten(Item(r).id)
    BY <2>2, <2>3 DEF CauseInv
  <2>5. QED
    BY <2>1, <2>4, GaugeStays
<1>3. ASSUME NEW q \in Reqs \ {r}, ReadCounter(q)
      PROVE  pc[r] = "write" /\ seen'[r] = seen[r] /\ Item(r)' = Item(r)
  BY <1>3, <1>a DEF ReadCounter, GoTo, Item
<1>4. ASSUME NEW q \in Reqs, WriteCounter(q) \/ WriteGauge(q)
      PROVE  pc[r] = "write" /\ seen'[r] = seen[r] /\ Item(r)' = Item(r)
  <2>1. PICK m : Store(q, m)
    BY <1>4, WrittenMetric
  <2>2. q # r
    BY <1>a, <2>1 DEF Store, GoTo
  <2>3. QED
    BY <1>a, <2>1, <2>2 DEF Store, GoTo, Item
<1>5. CASE ~\E q \in Reqs : ReadCounter(q) \/ WriteCounter(q) \/ WriteGauge(q)
  BY <1>1, <1>5, OthersKeep
<1>6. QED
  BY <1>1, <1>2, <1>3, <1>4, <1>5

LEMMA CauseStep == Inv /\ Ordered /\ AnswerInv /\ CauseInv /\ [Next]_vars => CauseInv'
<1>. SUFFICES ASSUME Inv, Ordered, AnswerInv, CauseInv, [Next]_vars PROVE CauseInv'
  OBVIOUS
<1>a. idx \in [Reqs -> Nat] /\ status \in [Reqs -> Statuses \cup {NULL}]
  BY DEF Inv, TypeOK, ServiceTypeOK
<1> DEFINE Refused(r) == Updated(r) /\ status[r] # "ok"
           Explained(r) ==
              \A k \in 1 .. NumItems(r) :
                 Written(r) = 1 .. k - 1 /\ Valid(req[r].items[k])
                    => GaugeWritten(req[r].items[k].id)
<1>1. RefusedOnlyByGauge <=> \A r \in Reqs : Refused(r) => Explained(r)
  BY DEF RefusedOnlyByGauge, GaugeWritten
<1>2. RefusedOnlyByGauge' <=> \A r \in Reqs : Refused(r)' => Explained(r)'
  BY DEF RefusedOnlyByGauge, GaugeWritten
<1>3. ASSUME NEW r \in Reqs, Refused(r)', pc[r] = "done" PROVE Explained(r)'
  <2>1. pc'[r] = "done" /\ status'[r] = status[r] /\ req'[r] = req[r] /\ Written(r)' = Written(r)
    BY <1>3, DoneStays
  <2>2. Refused(r)
    BY <1>3, <2>1 DEF Updated, At
  <2>3. Explained(r)
    BY <1>1, <2>2 DEF CauseInv
  <2>4. QED
    BY <2>1, <2>3, GaugeStays DEF NumItems
<1>4. ASSUME NEW r \in Reqs, Refused(r)', pc[r] # "done" PROVE Explained(r)'
  <2>1. pc'[r] = "done" /\ req'[r].kind \in Updates /\ req'[r].items # NULL /\ status'[r] # "ok"
    BY <1>4 DEF Updated, At
  <2>2. Ends(r) \/ Finish(r)
    BY <1>4, <2>1, NewlyDone
  <2>3. ~Finish(r)
    BY <1>a, <2>1 DEF Finish, Reply
  <2>4. PICK st \in Statuses : End(r, st)
    BY <2>2, <2>3, EndsReply
  <2>5. UNCHANGED <<req, idx, wrote>> /\ Written(r)' = Written(r) /\ status'[r] = st
    BY <1>a, <2>4 DEF End, Reply, Written
  <2>6. NothingToDo(r) \/ RejectItem(r) \/ RefuseCounter(r) \/ NoFileToSync(r) \/ EndSync(r)
    BY <2>1, <2>2, <2>3, <2>5
    DEF Ends, GetMetricHandler, GetMetric, ListMetricsHandler, Asked, Updates
  <2>7. CASE NothingToDo(r)
    BY <1>a, <2>1, <2>5, <2>7 DEF NothingToDo, End, Reply
  <2>8. ASSUME NoFileToSync(r) \/ EndSync(r), NEW k \in 1 .. NumItems(r), Written(r) = 1 .. k - 1
        PROVE  FALSE
    <3>1. pc[r] \in {"finish", "saving"}
      BY <2>8 DEF NoFileToSync, EndSync, At
    <3>2. NumItems(r) \in Nat
      BY <2>1, <2>5, <3>1, ServiceAssumption DEF Inv, RequestOK, Requests, NumItems
    <3>3. Written(r) = 1 .. NumItems(r)
      BY <3>1, <3>2, WrittenUpTo DEF AnswerInv
    <3>4. k - 1 = NumItems(r)
      BY <2>8, <3>2, <3>3, SamePrefix
    <3>5. QED
      BY <3>2, <3>4
  <2>9. ASSUME RejectItem(r) \/ RefuseCounter(r), NEW k \in 1 .. NumItems(r),
               Written(r) = 1 .. k - 1, Valid(req[r].items[k])
        PROVE  GaugeWritten(req[r].items[k].id)
    <3>1. pc[r] \in {"item", "write"} /\ req[r].items # <<>>
      BY <2>9 DEF RejectItem, HasItem, RefuseCounter, At, Inv, RequestOK
    <3>2. idx[r] \in 1 .. NumItems(r) /\ NumItems(r) \in Nat
      BY <2>1, <2>5, <3>1, ItemIsItem DEF NumItems
    <3>3. Written(r) = 1 .. idx[r] - 1
      <4>1. idx[r] - 1 \in Int /\ \A n \in Nat : <<r, n>> \in wrote <=> n \in 1 .. idx[r] - 1
        BY <1>a, <3>1 DEF Ordered, Early
      <4>2. QED
        BY <4>1, WrittenUpTo
    <3>4. k = idx[r]
      <4>1. k - 1 \in Nat /\ idx[r] - 1 \in Nat
        BY <3>2
      <4>2. k - 1 = idx[r] - 1
        BY <2>9, <3>3, <4>1, SamePrefix
      <4>3. QED
        BY <3>2, <4>2
    <3>5. RefuseCounter(r)
      BY <2>9, <3>4 DEF RejectItem, Item
    <3>6. QED
      BY <3>4, <3>5 DEF RefuseCounter, At, Item, CauseInv
  <2>10. QED
    <3>1. SUFFICES ASSUME NEW k \in 1 .. NumItems(r), Written(r) = 1 .. k - 1,
                          Valid(req[r].items[k])
                   PROVE  GaugeWritten(req[r].items[k].id)'
      BY <2>5 DEF NumItems
    <3>2. ~NothingToDo(r)
      BY <1>a, <2>1, <2>5 DEF NothingToDo, End, Reply
    <3>3. GaugeWritten(req[r].items[k].id)
      BY <2>6, <2>8, <2>9, <3>1, <3>2
    <3>4. QED
      BY <2>5, <3>3, GaugeStays
<1>5. QED
  BY <1>2, <1>3, <1>4, CauseStored, CauseRead DEF CauseInv

(* A valid counter update is refused only because a gauge without a delta  *)
(* was written under its name, for any requests and interleavings.         *)
THEOREM RefusedByGauges == Spec => []RefusedOnlyByGauge
<1>1. Init => CauseInv
  <2>1. Init => /\ \A k \in IDs : metrics[k] = NULL
                /\ \A r \in Reqs : pc[r] = "new"
    BY DEF Init, ServiceInit, EmptyMap
  <2>2. QED
    BY <2>1 DEF CauseInv, RefusedOnlyByGauge, Updated, At
<1>2. CauseInv => RefusedOnlyByGauge
  BY DEF CauseInv
<1>3. QED
  BY AnswersInvariant, <1>1, <1>2, CauseStep, PTL DEF Spec

-----------------------------------------------------------------------------
\* The batches that were written to their end and are audited as a whole.
Closed(r) == /\ Updated(r) /\ req[r].kind = "batch" /\ status[r] = "ok"
             /\ req[r].ip /\ req[r].items # <<>>

TrailInv ==
    /\ AuditTrail
    /\ \A r \in Reqs : pc[r] \in {"finish", "saving"} => req[r].items # <<>>

\* An event in the trail is of a written item or of a closed batch.
LEMMA AuditedIs ==
    /\ Audited = {w \in wrote : req[w[1]].ip} \cup {<<r, 0>> : r \in {q \in Reqs : Closed(q)}}
    /\ Audited' = {w \in wrote' : req'[w[1]].ip} \cup {<<r, 0>> : r \in {q \in Reqs : Closed(q)'}}
BY DEF Audited, Closed

\* A step that writes nothing audited and closes no batch.
LEMMA TrailSame ==
    ASSUME AuditTrail, Audited' = Audited, UNCHANGED auditVars
    PROVE  AuditTrail'
BY DEF AuditTrail, auditVars

\* Notify adds one event to the trail, for each subscriber.
LEMMA TrailNotified ==
    ASSUME AuditTrail, NEW r, NEW k, <<r, k>> \notin Audited,
           Audited' = Audited \cup {<<r, k>>}, Notify(r, k)
    PROVE  AuditTrail'
<1> DEFINE new == {<<<<r, k>>, sub>> : sub \in Subs}
<1>1. pending' = pending \cup new /\ sent' = sent /\ lost' = lost
  BY DEF Notify
<1>2. Audited' \X Subs = (Audited \X Subs) \cup new
  OBVIOUS
<1>3. \A t \in new : t \notin Audited \X Subs
  OBVIOUS
<1>. HIDE DEF new
<1>4. \A t \in new : t \notin sent \cup lost
  BY <1>3 DEF AuditTrail
<1>5. QED
  BY <1>1, <1>2, <1>4 DEF AuditTrail

\* Only Finish closes a batch, and nothing opens one again.
LEMMA BatchesClose ==
    ASSUME Inv, AnswerInv, TrailInv, [Next]_vars, NEW r \in Reqs, ~Finish(r)
    PROVE  Closed(r)' <=> Closed(r)
<1>a. status \in [Reqs -> Statuses \cup {NULL}]
  BY DEF Inv, TypeOK, ServiceTypeOK
<1>1. CASE pc[r] = "done"
  BY <1>1, DoneStays DEF Closed, Updated, At
<1>2. CASE pc[r] # "done"
  <2>1. SUFFICES ASSUME Closed(r)' PROVE FALSE
    BY <1>2 DEF Closed, Updated, At
  <2>2. pc'[r] = "done" /\ req'[r].kind = "batch" /\ status'[r] = "ok" /\ req'[r].items \notin {NULL, <<>>}
    BY <2>1 DEF Closed, Updated, At
  <2>3. Ends(r)
    BY <1>2, <2>2, NewlyDone
  <2>4. PICK st \in Statuses : End(r, st)
    BY <2>3, EndsReply
  <2>5. req' = req /\ status'[r] = st /\ req[r].kind = "batch"
    BY <1>a, <2>2, <2>4 DEF End, Reply
  <2>6. ~Synchronous(r)
    BY <2>5 DEF Synchronous
  <2>7. RejectItem(r) \/ RefuseCounter(r)
    BY <2>2, <2>3, <2>5, <2>6
    DEF Ends, GetMetricHandler, GetMetric, ListMetricsHandler, Asked, NothingToDo,
        NoFileToSync, EndSync, At, AnswerInv
  <2>8. status'[r] # "ok"
    BY <1>a, <2>5, <2>7 DEF RejectItem, RefuseCounter, End, Reply, Failure
  <2>9. QED
    BY <2>2, <2>8
<1>3. QED
  BY <1>1, <1>2

\* A step that writes no item and finishes no request leaves the trail alone.
LEMMA TrailQuiet ==
    ASSUME Inv, Ordered, AnswerInv, TrailInv, [Next]_vars, wrote' = wrote,
           ~\E q \in Reqs : Finish(q)
    PROVE  Audited' = Audited
<1>1. \A w \in wrote : req'[w[1]] = req[w[1]]
  BY WroteStays
<1>2. \A r \in Reqs : Closed(r)' <=> Closed(r)
  BY BatchesClose
<1>3. QED
  BY <1>1, <1>2, AuditedIs

LEMMA TrailStores ==
    ASSUME Inv, Ordered, AnswerInv, TrailInv, [Next]_vars,
           NEW q \in Reqs, WriteCounter(q) \/ WriteGauge(q)
    PROVE  AuditTrail'
<1>a. idx \in [Reqs -> Nat]
  BY DEF Inv, TypeOK, ServiceTypeOK
<1>1. PICK m : Store(q, m)
  BY WrittenMetric
<1>2. req' = req /\ status' = status /\ wrote' = wrote \cup {<<q, idx[q]>>} /\ NotifyIf(q, idx[q])
  BY <1>1 DEF Store
<1>3. pc[q] \in {"item", "write"} /\ idx[q] \in 1 .. Len(req[q].items)
  BY WrittenMetric, ItemIsItem
<1>4. <<q, idx[q]>> \notin wrote
  <2>1. <<q, idx[q]>> \in wrote <=> idx[q] \in 1 .. idx[q] - 1
    BY <1>a, <1>3 DEF Ordered, Early
  <2>2. idx[q] \notin 1 .. idx[q] - 1
    BY <1>a
  <2>3. QED
    BY <2>1, <2>2
<1>5. idx[q] # 0
  BY <1>3
<1>6. \A r \in Reqs : Closed(r)' <=> Closed(r)
  <2>1. \A r \in Reqs : ~Finish(r)
    <3>1. ASSUME NEW r \in Reqs, Finish(r) PROVE FALSE
      <4>1. wrote' = wrote
        BY <3>1 DEF Finish
      <4>2. QED
        BY <1>2, <1>4, <4>1
    <3>2. QED
      BY <3>1
  <2>2. QED
    BY <2>1, BatchesClose
<1>7. CASE req[q].ip
  <2>1. Audited' = Audited \cup {<<q, idx[q]>>}
    BY <1>2, <1>6, <1>7, AuditedIs
  <2>2. <<q, idx[q]>> \notin Audited
    BY <1>4, <1>5, AuditedIs
  <2>3. QED
    BY <1>2, <1>7, <2>1, <2>2, TrailNotified DEF NotifyIf, TrailInv
<1>8. CASE ~req[q].ip
  <2>1. Audited' = Audited
    BY <1>2, <1>6, <1>8, AuditedIs
  <2>2. QED
    BY <1>2, <1>8, <2>1, TrailSame DEF NotifyIf, TrailInv
<1>9. QED
  BY <1>7, <1>8

LEMMA TrailFinishes ==
    ASSUME Inv, Ordered, AnswerInv, TrailInv, [Next]_vars, NEW q \in Reqs, Finish(q)
    PROVE  AuditTrail'
<1>a. pc \in [Reqs -> Stages] /\ status \in [Reqs -> Statuses \cup {NULL}]
  BY DEF Inv, TypeOK, ServiceTypeOK
<1>1. /\ UNCHANGED <<req, wrote>> /\ pc[q] = "finish"
      /\ pc'[q] = "done" /\ status'[q] = "ok"
      /\ \A r \in Reqs \ {q} : pc'[r] = pc[r] /\ status'[r] = status[r]
  BY <1>a DEF Finish, Reply, GoTo, At
<1>2. \A r \in Reqs \ {q} : Closed(r)' <=> Closed(r)
  BY <1>1 DEF Closed, Updated, At
<1>3. ~Closed(q) /\ req[q].items \notin {NULL, <<>>}
  BY <1>1 DEF Closed, Updated, At, AnswerInv, TrailInv
<1>4. Closed(q)' <=> req[q].kind = "batch" /\ req[q].ip
  BY <1>1, <1>3 DEF Closed, Updated, At, Updates
<1>5. CASE req[q].kind = "batch" /\ req[q].ip
  <2>1. Audited' = Audited \cup {<<q, 0>>}
    BY <1>1, <1>2, <1>4, <1>5, AuditedIs
  <2>2. <<q, 0>> \notin wrote
    <3>1. <<q, 0>> \in wrote <=> 0 \in 1 .. NumItems(q)
      BY <1>1 DEF AnswerInv
    <3>2. QED
      BY <3>1
  <2>3. <<q, 0>> \notin Audited
    BY <1>3, <2>2, AuditedIs
  <2>4. Notify(q, 0)
    BY <1>5 DEF Finish, NotifyIf
  <2>5. QED
    BY <2>1, <2>3, <2>4, TrailNotified DEF TrailInv
<1>6. CASE ~(req[q].kind = "batch" /\ req[q].ip)
  <2>1. Audited' = Audited
    BY <1>1, <1>2, <1>3, <1>4, <1>6, AuditedIs
  <2>2. UNCHANGED auditVars
    BY <1>6 DEF Finish, NotifyIf
  <2>3. QED
    BY <2>1, <2>2, TrailSame DEF TrailInv
<1>7. QED
  BY <1>5, <1>6

LEMMA TrailStep == Inv /\ Ordered /\ AnswerInv /\ TrailInv /\ [Next]_vars => TrailInv'
<1>. SUFFICES ASSUME Inv, Ordered, AnswerInv, TrailInv, [Next]_vars PROVE TrailInv'
  OBVIOUS
<1>a. pc \in [Reqs -> Stages] /\ req \in [Reqs -> Inputs \cup {NULL}]
  BY DEF Inv, TypeOK, ServiceTypeOK
<1> DEFINE Full == \A r \in Reqs : pc'[r] \in {"finish", "saving"} => req'[r].items # <<>>
<1>1. ASSUME NEW q \in Reqs, NEW in \in Inputs, Arrive(q, in)
      PROVE  wrote' = wrote /\ UNCHANGED auditVars /\ Full
  BY <1>a, <1>1 DEF Arrive, GoTo, TrailInv
<1>2. ASSUME NEW q \in Reqs, Ends(q)
      PROVE  wrote' = wrote /\ UNCHANGED auditVars /\ Full
  <2>1. PICK st \in Statuses : End(q, st)
    BY <1>2, EndsReply
  <2>2. QED
    BY <1>a, <2>1 DEF End, Reply, GoTo, TrailInv
<1>3. ASSUME NEW q \in Reqs, ReadCounter(q) \/ BeginSync(q)
      PROVE  wrote' = wrote /\ UNCHANGED auditVars /\ Full
  BY <1>a, <1>3 DEF ReadCounter, BeginSync, GoTo, At, TrailInv
<1>4. ASSUME (\E q \in Reqs : Save(q)) \/ UNCHANGED vars
      PROVE  wrote' = wrote /\ UNCHANGED auditVars /\ Full
  BY <1>4 DEF Save, vars, serviceVars, reqVars, TrailInv
<1>5. ASSUME wrote' = wrote, UNCHANGED auditVars, Full, ~\E q \in Reqs : Finish(q) PROVE TrailInv'
  BY <1>5, TrailQuiet, TrailSame DEF TrailInv
<1>6. ASSUME NEW q \in Reqs, Finish(q) PROVE TrailInv'
  <2>1. Full
    BY <1>a, <1>6 DEF Finish, Reply, GoTo, TrailInv
  <2>2. QED
    BY <1>6, <2>1, TrailFinishes DEF TrailInv
<1>7. ASSUME NEW q \in Reqs, WriteCounter(q) \/ WriteGauge(q) PROVE TrailInv'
  <2>1. PICK m : Store(q, m)
    BY <1>7, WrittenMetric
  <2>2. Full
    BY <1>a, <1>7, <2>1, WrittenMetric DEF Store, GoTo, TrailInv
  <2>3. QED
    BY <1>7, <2>2, TrailStores DEF TrailInv
<1>8. CASE Auditing
  <2>1. UNCHANGED <<wrote, req, pc, status>>
    BY <1>8 DEF Auditing, serviceVars, reqVars
  <2>2. Audited' = Audited
    BY <2>1 DEF Audited, Updated, At
  <2>3. PICK t \in pending : /\ pending' = pending \ {t}
                             /\ \/ sent' = sent \cup {t} /\ lost' = lost
                                \/ lost' = lost \cup {t} /\ sent' = sent
    BY <1>8 DEF Auditing, Deliver, Drop
  <2>4. AuditTrail'
    BY <2>2, <2>3 DEF AuditTrail, TrailInv
  <2>5. QED
    BY <2>1, <2>4 DEF TrailInv
<1>9. QED
  BY StepKinds, <1>1, <1>2, <1>3, <1>4, <1>5, <1>6, <1>7, <1>8

(* For any requests, subscribers and failures of the logs, the audit trail *)
(* has one event of each written item and closed batch for each            *)
(* subscriber, and no other.                                               *)
THEOREM TrailIsExact == Spec => []AuditTrail
<1>1. Init => TrailInv
  <2>1. Init => wrote = {} /\ pending = {} /\ sent = {} /\ lost = {} /\ \A r \in Reqs : pc[r] = "new"
    BY DEF Init, ServiceInit, AuditInit
  <2>2. QED
    BY <2>1 DEF TrailInv, AuditTrail, Audited, Updated, At
<1>2. TrailInv => AuditTrail
  BY DEF TrailInv
<1>3. QED
  BY AnswersInvariant, <1>1, <1>2, TrailStep, PTL DEF Spec

-----------------------------------------------------------------------------
\* Only the JSON endpoint has written, and none of its saves has failed so far.
CleanSync ==
    /\ StoreInterval = 0 /\ HasFile /\ ~overlap /\ wrote # {}
    /\ \A r \in Reqs : Written(r) # {} => req[r].kind = "json" /\ (pc[r] = "done" => status[r] = "ok")

\* q has written and not begun its save, or will report that it failed.
Doubtful(q) == pc[q] = "finish" \/ (pc[q] = "saving" /\ spc[q] \in {"refused", "failed"})

\* Without such a request, the save that runs has what is stored, and so has
\* the file when none runs.
SyncFile ==
    CleanSync /\ (\A q \in Reqs : ~Doubtful(q)) =>
        /\ \A s \in Reqs : Saving(s) => snap[s] = metrics
        /\ file = metrics \/ \E s \in Reqs : Saving(s)

SyncInv ==
    /\ SyncFile
    /\ \A r \in Reqs : pc[r] \in {"finish", "saving"} => Written(r) # {}

\* No request is past its items with nothing written.
LEMMA SyncStages ==
    ASSUME Inv, Ordered, SyncInv, [Next]_vars, NEW r \in Reqs
    PROVE  pc'[r] \in {"finish", "saving"} => Written(r)' # {}
<1>a. pc \in [Reqs -> Stages]
  BY DEF Inv, TypeOK, ServiceTypeOK
<1> DEFINE Good == pc'[r] \in {"finish", "saving"} => Written(r)' # {}
<1>1. ASSUME NEW q \in Reqs, Ends(q) PROVE Good
  <2>1. PICK st \in Statuses : End(q, st)
    BY <1>1, EndsReply
  <2>2. QED
    BY <1>a, <2>1 DEF End, Reply, GoTo, Written, SyncInv
<1>2. ASSUME NEW q \in Reqs, NEW in \in Inputs, Arrive(q, in) PROVE Good
  BY <1>a, <1>2 DEF Arrive, At, GoTo, Written, SyncInv
<1>3. ASSUME NEW q \in Reqs, ReadCounter(q) \/ Finish(q) \/ BeginSync(q) PROVE Good
  BY <1>a, <1>3 DEF ReadCounter, HasItem, Finish, BeginSync, At, Reply, GoTo, Written, SyncInv
<1>4. ASSUME NEW q \in Reqs, WriteCounter(q) \/ WriteGauge(q) PROVE Good
  <2>1. PICK m : Store(q, m)
    BY <1>4, WrittenMetric
  <2>2. wrote' = wrote \cup {<<q, idx[q]>>}
    BY <2>1 DEF Store
  <2>3. \A p \in Reqs \ {q} : pc'[p] = pc[p]
    BY <1>a, <2>1 DEF Store, GoTo
  <2>4. Written(q)' # {}
    <3>1. Inv'
      BY InvStep
    <3>2. <<q, idx[q]>> \in wrote' /\ idx[q] \in Nat
      BY <2>2 DEF Inv, TypeOK, ServiceTypeOK
    <3>3. idx[q] \in Written(q)'
      BY <3>2 DEF Written
    <3>4. QED
      BY <3>3
  <2>5. Written(r) \subseteq Written(r)'
    BY <2>2 DEF Written
  <2>6. CASE r = q
    BY <2>2, <2>4, <2>6 DEF SyncInv
  <2>7. CASE r # q
    BY <2>2, <2>3, <2>5, <2>7 DEF SyncInv
  <2>8. QED
    BY <2>6, <2>7
<1>5. (\E q \in Reqs : Save(q)) \/ Auditing \/ UNCHANGED vars => Good
  BY DEF Save, Auditing, vars, serviceVars, reqVars, Written, SyncInv
<1>6. QED
  BY StepKinds, <1>1, <1>2, <1>3, <1>4, <1>5

\* A step that leaves the storage, the file and the savers alone.
LEMMA SyncQuiet ==
    ASSUME SyncFile, UNCHANGED <<metrics, wrote, fsVars>>, CleanSync' => CleanSync,
           CleanSync' => \A q \in Reqs : Doubtful(q) => Doubtful(q)'
    PROVE  SyncFile'
BY DEF SyncFile, CleanSync, fsVars, Saving

LEMMA SyncEnds ==
    ASSUME Inv, AnswerInv, SyncInv, NEW q \in Reqs, Ends(q)
    PROVE  SyncFile'
<1>a. pc \in [Reqs -> Stages] /\ status \in [Reqs -> Statuses \cup {NULL}]
  BY DEF Inv, TypeOK, ServiceTypeOK
<1>1. PICK st \in Statuses : End(q, st)
  BY EndsReply
<1>2. /\ UNCHANGED <<metrics, req, wrote, fsVars>> /\ status'[q] = st /\ pc'[q] = "done"
      /\ \A r \in Reqs \ {q} : status'[r] = status[r] /\ pc'[r] = pc[r]
      /\ \A r \in Reqs : Written(r)' = Written(r)
  BY <1>a, <1>1 DEF End, Reply, GoTo, Written
<1>3. pc[q] # "done"
  BY DEF Ends, GetMetricHandler, GetMetric, ListMetricsHandler, Asked, NothingToDo,
         RejectItem, HasItem, RefuseCounter, NoFileToSync, EndSync, At
<1>4. CleanSync' => CleanSync
  BY <1>2, <1>3 DEF CleanSync, SyncInv, fsVars
<1>5. ASSUME CleanSync', Doubtful(q) PROVE FALSE
  <2>1. pc[q] \in {"finish", "saving"} /\ Written(q) # {}
    BY <1>5 DEF Doubtful, SyncInv
  <2>2. NoFileToSync(q) \/ EndSync(q)
    BY <2>1 DEF Ends, GetMetricHandler, GetMetric, ListMetricsHandler, Asked, NothingToDo,
                RejectItem, HasItem, RefuseCounter, At
  <2>3. EndSync(q)
    BY <1>5, <2>2 DEF CleanSync, NoFileToSync
  <2>4. spc[q] # "saved"
    BY <1>5, <2>3 DEF EndSync, At, Doubtful
  <2>5. status'[q] = "bad"
    BY <1>a, <2>3, <2>4 DEF EndSync, End, Reply
  <2>6. QED
    BY <1>2, <1>5, <2>1, <2>5 DEF CleanSync
<1>6. ASSUME CleanSync', NEW r \in Reqs, Doubtful(r) PROVE Doubtful(r)'
  BY <1>2, <1>5, <1>6 DEF Doubtful, fsVars
<1>7. QED
  BY <1>2, <1>4, <1>6, SyncQuiet DEF SyncInv

LEMMA SyncStores ==
    ASSUME Inv, SyncInv, NEW q \in Reqs, WriteCounter(q) \/ WriteGauge(q),
           Written(q)' # {}
    PROVE  SyncFile'
<1>a. pc \in [Reqs -> Stages]
  BY DEF Inv, TypeOK, ServiceTypeOK
<1>1. PICK m : Store(q, m)
  BY WrittenMetric
<1>2. /\ pc[q] \in {"item", "write"} /\ req[q].items # NULL /\ req[q].items # <<>>
      /\ idx[q] \in 1 .. Len(req[q].items)
  BY WrittenMetric, ItemIsItem
<1>3. req' = req
  BY <1>1 DEF Store
<1>4. CASE req[q].kind # "json"
  BY <1>3, <1>4 DEF SyncFile, CleanSync
<1>5. CASE req[q].kind = "json"
  <2>1. Len(req[q].items) = 1
    BY <1>2, <1>5, ServiceAssumption DEF Inv, RequestOK
  <2>2. Last(q)
    BY <1>2, <2>1 DEF Last
  <2>3. pc'[q] = "finish"
    BY <1>a, <1>1, <2>2 DEF Store, GoTo
  <2>4. QED
    BY <2>3 DEF SyncFile, Doubtful
<1>6. QED
  BY <1>4, <1>5

LEMMA SyncBegins ==
    ASSUME Inv, SyncInv, NEW q \in Reqs, BeginSync(q)
    PROVE  SyncFile'
<1>a. /\ pc \in [Reqs -> Stages] /\ q \in Savers /\ Reqs \subseteq Savers
      /\ spc \in [Savers -> Active \cup {"idle", "refused", "saved", "failed"}]
      /\ snap \in [Savers -> MetricMaps]
  BY ServiceAssumption DEF Inv, TypeOK, ServiceTypeOK, FSTypeOK
<1>1. UNCHANGED <<metrics, file>> /\ BeginSave(q, metrics) /\ pc'[q] = "saving"
  BY <1>a DEF BeginSync, BeginSave, GoTo
<1>2. CASE Encodable(metrics)
  <2>1. /\ spc' = [spc EXCEPT ![q] = "open"] /\ snap' = [snap EXCEPT ![q] = metrics]
        /\ overlap' = (overlap \/ \E t \in Savers \ {q} : Saving(t))
    BY <1>1, <1>2 DEF BeginSave
  <2>2. Saving(q)' /\ snap'[q] = metrics'
    BY <1>a, <1>1, <2>1 DEF Saving, Active
  <2>3. \A s \in Reqs \ {q} : Saving(s)' => Saving(s)
    BY <1>a, <2>1 DEF Saving
  <2>4. ~overlap' => \A s \in Reqs \ {q} : ~Saving(s)
    BY <1>a, <2>1
  <2>5. QED
    BY <2>2, <2>3, <2>4 DEF SyncFile, CleanSync
<1>3. CASE ~Encodable(metrics)
  <2>1. spc'[q] = "refused"
    BY <1>a, <1>1, <1>3 DEF BeginSave
  <2>2. QED
    BY <1>1, <2>1 DEF SyncFile, Doubtful
<1>4. QED
  BY <1>2, <1>3

LEMMA SyncSaves ==
    ASSUME Inv, AnswerInv, SyncInv, NEW q \in Reqs, Save(q)
    PROVE  SyncFile'
<1>a. /\ q \in Savers /\ Reqs \subseteq Savers
      /\ spc \in [Savers -> Active \cup {"idle", "refused", "saved", "failed"}]
      /\ snap \in [Savers -> MetricMaps]
  BY ServiceAssumption DEF Inv, TypeOK, FSTypeOK
<1>1. UNCHANGED <<metrics, req, pc, status, wrote>> /\ SaveStep(q)
  BY DEF Save, serviceVars, reqVars
<1>2. Saving(q) /\ overlap' = overlap
  BY <1>1 DEF SaveStep, OpenTmp, WriteTmp, RenameTmp, SaveFails, Saving, Active
<1>3. pc[q] = "saving"
  BY <1>2 DEF AnswerInv
<1>4. CleanSync' <=> CleanSync
  BY <1>1, <1>2 DEF CleanSync, Written
<1>5. \A r \in Reqs \ {q} : /\ spc'[r] = spc[r] /\ snap'[r] = snap[r]
                            /\ Doubtful(r)' <=> Doubtful(r)
                            /\ Saving(r)' <=> Saving(r)
  <2>1. \A r \in Reqs \ {q} : spc'[r] = spc[r] /\ snap'[r] = snap[r]
    BY <1>a, <1>1 DEF SaveStep, OpenTmp, WriteTmp, RenameTmp, SaveFails
  <2>2. QED
    BY <1>1, <2>1 DEF Doubtful, Saving
<1>6. ~Doubtful(q)
  BY <1>2, <1>3 DEF Doubtful, Saving, Active
<1>7. CASE OpenTmp(q) \/ WriteTmp(q)
  <2>1. Saving(q)' /\ snap' = snap
    BY <1>a, <1>7 DEF OpenTmp, WriteTmp, Saving, Active
  <2>2. QED
    BY <1>1, <1>2, <1>4, <1>5, <1>6, <2>1 DEF SyncInv, SyncFile
<1>8. CASE RenameTmp(q) \/ SaveFails(q)
  <2>1. CASE spc'[q] = "failed"
    BY <1>1, <1>3, <2>1 DEF SyncFile, Doubtful
  <2>2. CASE spc'[q] # "failed"
    <3>1. RenameTmp(q) /\ spc[q] = "rename" /\ file' = tmp /\ spc'[q] = "saved"
      BY <1>a, <1>8, <2>2 DEF RenameTmp, SaveFails
    <3>2. ~overlap => tmp = snap[q]
      BY <1>a, <3>1 DEF Inv, FSInv, Alone
    <3>3. ~Saving(q)'
      BY <3>1 DEF Saving, Active
    <3>4. SUFFICES ASSUME CleanSync', \A r \in Reqs : ~Doubtful(r)'
                   PROVE  /\ \A s \in Reqs : Saving(s)' => snap'[s] = metrics'
                          /\ file' = metrics'
      BY DEF SyncFile
    <3>5. \A s \in Reqs : Saving(s) => snap[s] = metrics
      BY <1>4, <1>5, <1>6, <3>4 DEF SyncInv, SyncFile
    <3>6. file' = metrics
      BY <1>2, <1>4, <3>1, <3>2, <3>4, <3>5 DEF CleanSync
    <3>7. QED
      BY <1>1, <1>5, <3>3, <3>5, <3>6
  <2>3. QED
    BY <2>1, <2>2
<1>9. QED
  BY <1>1, <1>7, <1>8 DEF SaveStep

LEMMA SyncStep == Inv /\ Ordered /\ AnswerInv /\ SyncInv /\ [Next]_vars => SyncInv'
<1>. SUFFICES ASSUME Inv, Ordered, AnswerInv, SyncInv, [Next]_vars PROVE SyncInv'
  OBVIOUS
<1>a. pc \in [Reqs -> Stages] /\ req \in [Reqs -> Inputs \cup {NULL}]
      /\ status \in [Reqs -> Statuses \cup {NULL}] /\ wrote \subseteq Reqs \X Nat
  BY DEF Inv, TypeOK, ServiceTypeOK
<1>1. ASSUME NEW q \in Reqs, NEW in \in Inputs, Arrive(q, in) PROVE SyncFile'
  <2>1. /\ UNCHANGED <<metrics, wrote, status, fsVars>>
        /\ pc[q] = "new" /\ pc'[q] \notin {"finish", "done"}
        /\ \A r \in Reqs \ {q} : pc'[r] = pc[r] /\ req'[r] = req[r]
        /\ \A r \in Reqs : Written(r)' = Written(r)
    BY <1>a, <1>1 DEF Arrive, At, GoTo, Written, Queries
  <2>2. Written(q) = {}
    <3>1. idx[q] = 1 /\ \A k \in Nat : <<q, k>> \in wrote <=> k \in 1 .. idx[q] - 1
      BY <2>1 DEF Inv, RequestOK, Ordered, Early
    <3>2. Written(q) = 1 .. 0
      BY <3>1, WrittenUpTo
    <3>3. QED
      BY <3>2
  <2>3. CleanSync' => CleanSync
    BY <2>1, <2>2 DEF CleanSync, fsVars
  <2>4. \A r \in Reqs : Doubtful(r) => Doubtful(r)'
    BY <2>1 DEF Doubtful, fsVars
  <2>5. QED
    BY <2>1, <2>3, <2>4, SyncQuiet DEF SyncInv
<1>2. ASSUME NEW q \in Reqs, ReadCounter(q) PROVE SyncFile'
  <2>1. /\ UNCHANGED <<metrics, req, wrote, status, fsVars>>
        /\ pc[q] = "item" /\ pc'[q] = "write"
        /\ \A r \in Reqs \ {q} : pc'[r] = pc[r]
        /\ \A r \in Reqs : Written(r)' = Written(r)
    BY <1>a, <1>2 DEF ReadCounter, HasItem, At, GoTo, Written
  <2>2. CleanSync' => CleanSync
    BY <2>1 DEF CleanSync, fsVars
  <2>3. \A r \in Reqs : Doubtful(r) => Doubtful(r)'
    BY <2>1 DEF Doubtful, fsVars
  <2>4. QED
    BY <2>1, <2>2, <2>3, SyncQuiet DEF SyncInv
<1>3. ASSUME NEW q \in Reqs, Finish(q) PROVE SyncFile'
  <2>1. req' = req /\ Written(q)' = Written(q) /\ pc[q] = "finish" /\ ~Synchronous(q)
    BY <1>3 DEF Finish, At, Written
  <2>2. Written(q)' # {}
    BY <2>1 DEF SyncInv
  <2>3. QED
    BY <2>1, <2>2 DEF SyncFile, CleanSync, Synchronous
<1>4. ASSUME NEW q \in Reqs, WriteCounter(q) \/ WriteGauge(q) PROVE SyncFile'
  <2>1. PICK m : Store(q, m)
    BY <1>4, WrittenMetric
  <2>2. <<q, idx[q]>> \in wrote'
    BY <2>1 DEF Store
  <2>3. idx[q] \in Written(q)'
    BY <2>2 DEF Written
  <2>4. QED
    BY <1>4, <2>3, SyncStores
<1>5. Auditing \/ UNCHANGED vars => SyncFile'
  <2>1. SUFFICES ASSUME Auditing \/ UNCHANGED vars PROVE SyncFile'
    OBVIOUS
  <2>2. UNCHANGED <<metrics, req, wrote, status, pc, fsVars>>
    BY <2>1 DEF Auditing, vars, serviceVars, reqVars
  <2>3. CleanSync' => CleanSync
    BY <2>2 DEF CleanSync, fsVars, Written
  <2>4. \A r \in Reqs : Doubtful(r) => Doubtful(r)'
    BY <2>2 DEF Doubtful, fsVars
  <2>5. QED
    BY <2>2, <2>3, <2>4, SyncQuiet DEF SyncInv
<1>6. SyncFile'
  BY StepKinds, <1>1, <1>2, <1>3, <1>4, <1>5, SyncEnds, SyncBegins, SyncSaves
<1>7. QED
  BY <1>6, SyncStages DEF SyncInv

(* With storeInterval 0, for any requests and disk errors: when no request *)
(* is in flight, all that was written came by the JSON endpoint, no save   *)
(* failed and no two overlapped, the file holds what is stored.            *)
THEOREM SynchronousSavesKeepUp == Spec => []SyncSaved
<1>1. Init => SyncInv
  <2>1. Init => wrote = {} /\ \A r \in Reqs : pc[r] = "new"
    BY DEF Init, ServiceInit
  <2>2. QED
    BY <2>1 DEF SyncInv, SyncFile, CleanSync
<1>2. Inv /\ AnswerInv /\ SyncInv => SyncSaved
  <2>. SUFFICES ASSUME Inv, AnswerInv, SyncInv, StoreInterval = 0, HasFile, InFlight = {},
                       ~overlap, wrote # {},
                       \A r \in Reqs : Written(r) # {} => req[r].kind = "json" /\ status[r] = "ok"
                PROVE  file = metrics
    BY DEF SyncSaved
  <2>1. \A r \in Reqs : pc[r] \in {"new", "done"}
    BY DEF InFlight
  <2>2. \A r \in Reqs : ~Doubtful(r) /\ ~Saving(r)
    BY <2>1 DEF Doubtful, AnswerInv
  <2>3. CleanSync
    BY DEF CleanSync
  <2>4. QED
    BY <2>2, <2>3 DEF SyncInv, SyncFile
<1>3. QED
  BY AnswersInvariant, <1>1, <1>2, SyncStep, PTL DEF Spec
=============================================================================
