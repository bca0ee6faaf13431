---------------------------- MODULE ServerProofs ----------------------------
(***************************************************************************)
(* Proofs about the life of the server process, for any number of starts,  *)
(* kills, requests, names and periodic saves.                              *)
(***************************************************************************)
EXTENDS Server, MetricsServiceProofs

-----------------------------------------------------------------------------
RunTypeOK ==
    /\ phase \in Phases
    /\ toLoad \in MetricMaps
    /\ drained \in BOOLEAN
    /\ starts \in 0 .. MaxStarts
    /\ kept \in MetricMaps \cup {NULL}
    /\ earlyTick \in BOOLEAN
    /\ unread \in BOOLEAN

\* The service keeps its own invariant through every step of Run.
SInv == Inv /\ RunTypeOK

\* Steps of Run that leave the service, the disk and the audit trail alone.
QuietStep == Start \/ LoadFile \/ Restored \/ Signal \/ Drain

LEMMA QuietKeeps == QuietStep => UNCHANGED vars
BY DEF QuietStep, Start, LoadFile, Restored, Signal, Drain, Proceed

\* A save by the ticker or by Run.
LEMMA InvBegin ==
    ASSUME Inv, NEW s \in Savers, BeginSave(s, metrics), UNCHANGED <<serviceVars, auditVars>>
    PROVE  Inv'
<1>1. FSInv'
  BY FSInvBegin DEF Inv, TypeOK, ServiceTypeOK
<1>2. ServiceTypeOK' /\ AuditTypeOK'
  BY DEF Inv, TypeOK, ServiceTypeOK, AuditTypeOK, serviceVars, reqVars, auditVars
<1>3. ASSUME NEW q \in Reqs PROVE RequestOK(q)'
  BY DEF Inv, RequestOK, serviceVars, reqVars, Item
<1>4. QED
  BY <1>1, <1>2, <1>3 DEF Inv, TypeOK, FSInv

LEMMA InvRestoreOne ==
    ASSUME Inv, toLoad \in MetricMaps, NEW k \in IDs, RestoreOne(k)
    PROVE  Inv' /\ (toLoad \in MetricMaps)'
<1>1. metrics' \in MetricMaps /\ toLoad' \in MetricMaps
  BY DEF Inv, TypeOK, ServiceTypeOK, MetricMaps, RestoreOne
<1>2. ServiceTypeOK' /\ AuditTypeOK'
  BY <1>1 DEF Inv, TypeOK, ServiceTypeOK, AuditTypeOK, RestoreOne, reqVars, auditVars
<1>3. FSInv'
  BY FSInvStutter DEF Inv, RestoreOne
<1>4. ASSUME NEW q \in Reqs PROVE RequestOK(q)'
  BY DEF Inv, RequestOK, RestoreOne, reqVars, Item
<1>5. QED
  BY <1>1, <1>2, <1>3, <1>4 DEF Inv, TypeOK, FSInv

\* The end of the process, in whatever state its goroutines are.
LEMMA InvProcessEnds ==
    ASSUME Inv, ProcessEnds
    PROVE  Inv'
<1>1. ServiceTypeOK'
  BY EmptyIsMetrics
  DEF Inv, TypeOK, ServiceTypeOK, ProcessEnds, Stages, At
<1>2. AuditTypeOK'
  BY DEF Inv, TypeOK, AuditTypeOK, ProcessEnds, AuditKilled
<1>3. FSInv'
  BY FSInvCrash DEF Inv, ProcessEnds
<1>4. ASSUME NEW q \in Reqs PROVE RequestOK(q)'
  <2>1. pc'[q] \in {"new", "done"} /\ (pc'[q] = "new" => pc[q] = "new")
    BY DEF ProcessEnds, At
  <2>2. idx' = idx /\ req' = req
    BY DEF ProcessEnds
  <2>3. pc[q] = "done" \/ pc[q] # "new" => req[q] \in Inputs
    BY DEF Inv, RequestOK
  <2>4. pc'[q] # "new" => pc[q] # "new"
    BY DEF ProcessEnds, At
  <2>5. QED
    BY <2>1, <2>2, <2>3, <2>4 DEF Inv, RequestOK
<1>5. QED
  BY <1>1, <1>2, <1>3, <1>4 DEF Inv, TypeOK, FSInv

-----------------------------------------------------------------------------
\* The steps of Run that are steps of the service.
LEMMA ServesNext ==
    /\ \A r \in Reqs, in \in Inputs : Accept(r, in) => Next
    /\ \A r \in Reqs : Serve(r) => Next
    /\ Trail => Next
BY DEF Accept, Serve, Trail, Next

LEMMA MaxStartsNat == MaxStarts \in Nat
BY ServerAssumption

LEMMA QuietTypes ==
    ASSUME Inv, RunTypeOK, QuietStep
    PROVE  RunTypeOK'
<1>1. CASE Start
  <2>1. starts' \in 0 .. MaxStarts
    BY <1>1, MaxStartsNat DEF Start, RunTypeOK
  <2>2. phase' \in Phases /\ kept' \in MetricMaps \cup {NULL} /\ drained' \in BOOLEAN
    BY <1>1 DEF Start, RunTypeOK, Phases
  <2>3. toLoad' = toLoad /\ UNCHANGED <<earlyTick, unread>>
    BY <1>1 DEF Start
  <2>4. QED
    BY <2>1, <2>2, <2>3 DEF RunTypeOK
<1>2. CASE LoadFile
  <2>1. ~Damaged => Load \in MetricMaps
    BY EmptyIsMetrics DEF Damaged, Load, Inv, FSInv, FSTypeOK, Contents
  <2>2. QED
    BY <1>2, <2>1 DEF LoadFile, RunTypeOK, Phases
<1>3. CASE Restored \/ Signal
  BY <1>3 DEF Restored, Signal, Proceed, RunTypeOK, Phases
<1>4. CASE Drain
  BY <1>4 DEF Drain, RunTypeOK, Phases
<1>5. QED
  BY <1>1, <1>2, <1>3, <1>4 DEF QuietStep

LEMMA SInvStep == SInv /\ [ServerNext]_serverVars => SInv'
<1>. SUFFICES ASSUME SInv, [ServerNext]_serverVars PROVE SInv'
  OBVIOUS
<1>. USE DEF SInv
<1>1. ASSUME QuietStep PROVE SInv'
  <2>1. Inv'
    BY <1>1, QuietKeeps, InvStutter
  <2>2. RunTypeOK'
    BY <1>1, QuietTypes
  <2>3. QED
    BY <2>1, <2>2
<1>2. ASSUME NEW k \in IDs, RestoreOne(k) PROVE SInv'
  BY <1>2, InvRestoreOne DEF RunTypeOK, RestoreOne
<1>3. ASSUME Tick \/ FinalSave PROVE SInv'
  BY <1>3, InvBegin, ServerAssumption DEF Tick, FinalSave, RunTypeOK, Phases
<1>4. ASSUME NEW r \in Reqs, NEW in \in Inputs, Accept(r, in) PROVE SInv'
  BY <1>4, ServesNext, InvStep DEF Accept, RunTypeOK
<1>5. ASSUME NEW r \in Reqs, Serve(r) PROVE SInv'
  BY <1>5, ServesNext, InvStep DEF Serve, runVars, RunTypeOK
<1>6. ASSUME Trail PROVE SInv'
  BY <1>6, ServesNext, InvStep DEF Trail, runVars, RunTypeOK
<1>7. ASSUME NEW s \in Savers, Disk(s) PROVE SInv'
  BY <1>7, InvSave DEF Disk, runVars, RunTypeOK
<1>8. ASSUME Exit \/ Crash PROVE SInv'
  <2>1. /\ ProcessEnds /\ (kept' \in MetricMaps \cup {NULL})
        /\ earlyTick' \in BOOLEAN /\ unread' \in BOOLEAN
    BY <1>8 DEF Exit, Crash, RunTypeOK, Inv, TypeOK, ServiceTypeOK
  <2>2. RunTypeOK'
    BY <2>1, EmptyIsMetrics DEF ProcessEnds, RunTypeOK, Phases
  <2>3. QED
    BY <2>1, <2>2, InvProcessEnds
<1>9. ASSUME UNCHANGED serverVars PROVE SInv'
  BY <1>9, InvStutter DEF serverVars, runVars, RunTypeOK
<1>10. QED
  BY <1>1, <1>2, <1>3, <1>4, <1>5, <1>6, <1>7, <1>8, <1>9
  DEF ServerNext, QuietStep, Off

LEMMA ServerInvariant == ServerSpec => []SInv
<1>1. ServerInit => SInv
  <2>1. ServerInit => RunTypeOK
    <3>1. 0 \in 0 .. MaxStarts
      BY MaxStartsNat
    <3>2. QED
      BY <3>1, EmptyIsMetrics DEF ServerInit, RunTypeOK, Phases
  <2>2. ServerInit => Init
    BY DEF ServerInit
  <2>3. QED
    BY <2>1, <2>2, InvInit DEF SInv
<1>2. QED
  BY <1>1, SInvStep, PTL DEF ServerSpec

(* The variables of the whole server keep their types through starts,      *)
(* restores, kills and stops.                                              *)
THEOREM ServerTypes == ServerSpec => []ServerTypeOK
<1>1. SInv => ServerTypeOK
  BY DEF SInv, RunTypeOK, Inv, ServerTypeOK
<1>2. QED
  BY ServerInvariant, <1>1, PTL

(* Through any sequence of requests, periodic saves, kills and restarts,   *)
(* as long as no two saves overlapped the file is exactly the last         *)
(* successful save.                                                        *)
THEOREM ServerFileExact == ServerSpec => []SavedExact
<1>1. SInv => SavedExact
  BY DEF SInv, Inv, FSInv, SavedExact
<1>2. QED
  BY ServerInvariant, <1>1, PTL

-----------------------------------------------------------------------------
\* The steps of Run and of its goroutines, sorted by what they touch.
LEMMA RunKinds ==
    ASSUME [ServerNext]_serverVars
    PROVE  \/ QuietStep
           \/ \E k \in IDs : RestoreOne(k)
           \/ Tick \/ FinalSave
           \/ \E r \in Reqs : (\E in \in Inputs : Accept(r, in)) \/ Serve(r)
           \/ \E s \in Savers : Disk(s)
           \/ Trail \/ Exit \/ Crash
           \/ UNCHANGED serverVars
BY DEF ServerNext, QuietStep, Off

\* Only a request in flight is served.
LEMMA ServedIsOpen ==
    ASSUME NEW r \in Reqs, Handler(r)
    PROVE  r \in InFlight
BY DEF Handler, GetMetricHandler, GetMetric, ListMetricsHandler, Asked, NothingToDo,
       RejectItem, HasItem, ReadCounter, RefuseCounter, WriteCounter, WriteGauge,
       Finish, BeginSync, NoFileToSync, EndSync, At, InFlight

\* What a step of a save does to the other savers and to the file.
LEMMA DiskEffect ==
    ASSUME FSInv, NEW s \in Savers, SaveStep(s)
    PROVE  /\ Saving(s) /\ overlap' = overlap
           /\ \A t \in Savers : spc'[t] \in Active => spc[t] \in Active /\ snap'[t] = snap[t]
           /\ \A t \in Savers \ {s} : spc'[t] = spc[t]
           /\ ~overlap => file' \in {file, snap[s]}
           /\ ~overlap /\ spc'[s] = "saved" => file' = snap[s]
<1>a. spc \in [Savers -> Active \cup {"idle", "refused", "saved", "failed"}]
      /\ snap \in [Savers -> MetricMaps]
  BY DEF FSInv, FSTypeOK
<1>1. FSInv'
  BY FSInvStep
<1>2. CASE OpenTmp(s)
  BY <1>a, <1>2 DEF OpenTmp, Saving, Active
<1>3. CASE WriteTmp(s)
  <2>1. /\ Saving(s) /\ overlap' = overlap /\ lastSaved' = lastSaved /\ snap' = snap
        /\ spc' = [spc EXCEPT ![s] = "rename"] /\ spc[s] = "write"
    BY <1>3 DEF WriteTmp, Saving, Active
  <2>2. ~overlap => file' = file
    BY <1>1, <2>1 DEF FSInv
  <2>3. QED
    BY <1>a, <2>1, <2>2 DEF Active
<1>4. CASE RenameTmp(s)
  <2>1. Saving(s) /\ overlap' = overlap /\ snap' = [snap EXCEPT ![s] = EmptyMap]
    BY <1>4 DEF RenameTmp, Saving, Active
  <2>2. \/ spc' = [spc EXCEPT ![s] = "saved"] /\ lastSaved' = snap[s]
        \/ spc' = [spc EXCEPT ![s] = "failed"] /\ file' = file
    BY <1>4 DEF RenameTmp
  <2>3. ~overlap => file' = lastSaved'
    BY <1>1, <2>1 DEF FSInv
  <2>4. \A t \in Savers \ {s} : spc'[t] = spc[t] /\ snap'[t] = snap[t]
    BY <1>a, <2>1, <2>2
  <2>5. spc'[s] \in {"saved", "failed"} /\ (spc'[s] = "saved" => lastSaved' = snap[s])
        /\ (spc'[s] = "failed" => file' = file)
    BY <1>a, <2>2
  <2>6. spc'[s] \notin Active
    BY <2>5 DEF Active
  <2>7. QED
    BY <2>1, <2>3, <2>4, <2>5, <2>6
<1>5. CASE SaveFails(s)
  <2>1. /\ Saving(s) /\ overlap' = overlap /\ lastSaved' = lastSaved
        /\ snap' = [snap EXCEPT ![s] = EmptyMap] /\ spc' = [spc EXCEPT ![s] = "failed"]
    BY <1>5 DEF SaveFails
  <2>2. ~overlap => file' = file
    BY <1>1, <2>1 DEF FSInv
  <2>3. QED
    BY <1>a, <2>1, <2>2 DEF Active
<1>6. QED
  BY <1>2, <1>3, <1>4, <1>5 DEF SaveStep

\* What the beginning of a save does.
LEMMA BeginEffect ==
    ASSUME FSInv, NEW s \in Savers, BeginSave(s, metrics)
    PROVE  /\ file' = file /\ (overlap => overlap')
           /\ \A t \in Savers \ {s} : spc'[t] = spc[t] /\ snap'[t] = snap[t]
           /\ \/ /\ spc'[s] = "open" /\ snap'[s] = metrics
                 /\ ~overlap' => \A t \in Savers \ {s} : spc[t] \notin Active
              \/ spc'[s] = "refused" /\ snap'[s] = snap[s]
<1>a. spc \in [Savers -> Active \cup {"idle", "refused", "saved", "failed"}]
      /\ snap \in [Savers -> MetricMaps]
  BY DEF FSInv, FSTypeOK
<1>1. CASE ~Encodable(metrics)
  BY <1>a, <1>1 DEF BeginSave
<1>2. CASE Encodable(metrics)
  BY <1>a, <1>2 DEF BeginSave, Saving
<1>3. QED
  BY <1>1, <1>2

-----------------------------------------------------------------------------
\* In which phases there may be metrics, requests and saves.
ShapeInv ==
    /\ phase \in {"down", "boot"} => metrics = EmptyMap
    /\ phase \in {"down", "boot", "restoring"} \/ drained \/ kept # NULL => InFlight = {}
    /\ drained => phase \in {"closing", "finalsave", "down"}
    /\ phase = "down" => \A s \in Savers : spc[s] \notin Active
    /\ kept # NULL => HasFile

\* While a request is served, nothing is kept and nothing drained.
LEMMA ServeFree ==
    ASSUME ShapeInv, NEW r \in Reqs, Serve(r)
    PROVE  /\ phase \notin {"down", "boot", "restoring"} /\ ~drained /\ kept = NULL
           /\ UNCHANGED runVars
<1>1. InFlight # {}
  BY ServedIsOpen DEF Serve
<1>2. QED
  BY <1>1 DEF ShapeInv, Serve

LEMMA ShapeStep == SInv /\ ShapeInv /\ [ServerNext]_serverVars => ShapeInv'
<1>. SUFFICES ASSUME SInv, ShapeInv, [ServerNext]_serverVars PROVE ShapeInv'
  OBVIOUS
<1>a. pc \in [Reqs -> Stages] /\ FSInv /\ drained \in BOOLEAN
  BY DEF SInv, RunTypeOK, Inv, TypeOK, ServiceTypeOK
<1>1. CASE QuietStep
  <2>1. UNCHANGED <<metrics, pc, spc>>
    BY <1>1, QuietKeeps DEF vars, serviceVars, reqVars, fsVars
  <2>2. InFlight' = InFlight
    BY <2>1 DEF InFlight
  <2>3. CASE Drain
    <3>1. phase' = "closing" /\ kept' = kept /\ (drained' <=> InFlight = {})
      BY <2>3 DEF Drain
    <3>2. QED
      BY <2>1, <2>2, <3>1 DEF ShapeInv
  <2>4. CASE ~Drain
    <3>1. /\ phase' # "down" /\ (phase' = "boot" => phase = "down")
          /\ phase' = "restoring" => phase = "boot"
          /\ kept' # NULL => kept # NULL
      BY <1>1, <2>4 DEF QuietStep, Start, LoadFile, Restored, Signal, Proceed
    <3>2. ~drained'
      BY <1>1, <2>4 DEF ShapeInv, QuietStep, Start, LoadFile, Restored, Signal, Proceed
    <3>3. QED
      BY <2>1, <2>2, <3>1, <3>2 DEF ShapeInv
  <2>5. QED
    BY <2>3, <2>4
<1>2. ASSUME NEW k \in IDs, RestoreOne(k) PROVE ShapeInv'
  <2>1. InFlight' = InFlight /\ UNCHANGED <<spc, phase, drained, kept>> /\ phase = "restoring"
    BY <1>2 DEF RestoreOne, InFlight, reqVars, fsVars
  <2>2. QED
    BY <2>1 DEF ShapeInv
<1>3. CASE Tick \/ FinalSave
  <2>1. /\ UNCHANGED <<metrics, pc, drained, kept>> /\ phase # "down" /\ phase' # "down"
        /\ phase' = phase \/ (phase = "closing" /\ phase' = "finalsave")
    BY <1>3 DEF Tick, FinalSave, Running, serviceVars, reqVars
  <2>2. InFlight' = InFlight
    BY <2>1 DEF InFlight
  <2>3. QED
    BY <2>1, <2>2 DEF ShapeInv
<1>4. ASSUME NEW r \in Reqs, NEW in \in Inputs, Accept(r, in) PROVE ShapeInv'
  <2>1. phase = "serving" /\ phase' = phase /\ kept' = NULL /\ drained' = drained
    BY <1>4 DEF Accept
  <2>2. QED
    BY <2>1 DEF ShapeInv
<1>5. ASSUME NEW r \in Reqs, Serve(r) PROVE ShapeInv'
  BY <1>5, ServeFree DEF ShapeInv, runVars
<1>6. ASSUME NEW s \in Savers, Disk(s) PROVE ShapeInv'
  <2>1. InFlight' = InFlight /\ UNCHANGED <<metrics, phase, drained, kept>> /\ phase # "down"
    BY <1>6 DEF Disk, Save, Running, InFlight, serviceVars, reqVars, runVars
  <2>2. QED
    BY <2>1 DEF ShapeInv
<1>7. CASE Trail \/ UNCHANGED serverVars
  <2>1. InFlight' = InFlight /\ UNCHANGED <<metrics, spc, phase, drained, kept>>
    BY <1>7 DEF Trail, Auditing, InFlight, serviceVars, reqVars, runVars, serverVars, vars, fsVars
  <2>2. QED
    BY <2>1 DEF ShapeInv
<1>8. CASE Exit \/ Crash
  <2>1. ProcessEnds /\ (kept' # NULL => HasFile)
    BY <1>8 DEF Exit, Crash, ShapeInv
  <2>2. /\ phase' = "down" /\ metrics' = EmptyMap /\ drained' = drained
        /\ \A s \in Savers : spc'[s] = "idle"
    BY <2>1 DEF ProcessEnds, FSCrash
  <2>3. \A q \in Reqs : pc'[q] \in {"new", "done"}
    BY <2>1 DEF ProcessEnds
  <2>4. InFlight' = {}
    BY <2>3 DEF InFlight
  <2>5. QED
    BY <2>1, <2>2, <2>4 DEF ShapeInv, Active
<1>9. QED
  BY RunKinds, <1>1, <1>2, <1>3, <1>4, <1>5, <1>6, <1>7, <1>8

-----------------------------------------------------------------------------
\* Once the final save of a drained server has begun, every save under way has
\* the metrics as they are, and so has the file when the final save is done.
FinalInv ==
    phase = "finalsave" /\ drained /\ ~overlap /\ spc[Main] \in Active \cup {"saved"} =>
        /\ \A s \in Savers : spc[s] \in Active => snap[s] = metrics
        /\ spc[Main] = "saved" => file = metrics

LEMMA FinalStep == SInv /\ ShapeInv /\ FinalInv /\ [ServerNext]_serverVars => FinalInv'
<1>. SUFFICES ASSUME SInv, ShapeInv, FinalInv, [ServerNext]_serverVars,
                     phase' = "finalsave", drained', ~overlap',
                     spc'[Main] \in Active \cup {"saved"}
              PROVE  /\ \A s \in Savers : spc'[s] \in Active => snap'[s] = metrics'
                     /\ spc'[Main] = "saved" => file' = metrics'
  BY DEF FinalInv
<1>a. FSInv /\ Main \in Savers /\ Ticker \in Savers /\ Ticker # Main
  BY ServerAssumption DEF SInv, Inv
<1>1. CASE Tick
  <2>1. BeginSave(Ticker, metrics) /\ UNCHANGED <<phase, drained, metrics>>
    BY <1>1 DEF Tick, serviceVars
  <2>2. /\ file' = file /\ (overlap => overlap')
        /\ \A t \in Savers \ {Ticker} : spc'[t] = spc[t] /\ snap'[t] = snap[t]
        /\ \/ spc'[Ticker] = "open" /\ snap'[Ticker] = metrics
           \/ spc'[Ticker] = "refused"
    BY <1>a, <2>1, BeginEffect
  <2>3. spc'[Main] = spc[Main]
    BY <1>a, <2>2
  <2>4. QED
    BY <2>1, <2>2, <2>3 DEF FinalInv, Active
<1>2. CASE FinalSave
  <2>1. BeginSave(Main, metrics) /\ metrics' = metrics
    BY <1>2 DEF FinalSave, serviceVars
  <2>2. /\ \A t \in Savers \ {Main} : spc'[t] = spc[t]
        /\ \/ /\ spc'[Main] = "open" /\ snap'[Main] = metrics
              /\ \A t \in Savers \ {Main} : spc[t] \notin Active
           \/ spc'[Main] = "refused"
    BY <1>a, <2>1, BeginEffect
  <2>3. QED
    BY <2>1, <2>2 DEF Active
<1>3. ASSUME NEW s \in Savers, Disk(s)
      PROVE  /\ \A t \in Savers : spc'[t] \in Active => snap'[t] = metrics'
             /\ spc'[Main] = "saved" => file' = metrics'
  <2>1. SaveStep(s) /\ UNCHANGED <<metrics, phase, drained>>
    BY <1>3 DEF Disk, Save, serviceVars, runVars
  <2>2. /\ spc[s] \in Active /\ overlap' = overlap
        /\ \A t \in Savers : spc'[t] \in Active => spc[t] \in Active /\ snap'[t] = snap[t]
        /\ \A t \in Savers \ {s} : spc'[t] = spc[t]
        /\ ~overlap => file' \in {file, snap[s]}
        /\ ~overlap /\ spc'[s] = "saved" => file' = snap[s]
    BY <1>a, <2>1, DiskEffect DEF Saving
  <2>3. spc[Main] \in Active \cup {"saved"}
    BY <1>a, <2>2
  <2>4. \A t \in Savers : spc[t] \in Active => snap[t] = metrics
    BY <2>1, <2>2, <2>3 DEF FinalInv
  <2>5. spc[Main] = "saved" => file = metrics
    BY <2>1, <2>2, <2>3 DEF FinalInv
  <2>6. spc'[Main] = "saved" => s = Main \/ spc[Main] = "saved"
    BY <1>a, <2>2
  <2>7. QED
    BY <2>1, <2>2, <2>4, <2>5, <2>6
<1>4. ASSUME NEW r \in Reqs, Serve(r) PROVE FALSE
  BY <1>4, ServeFree DEF runVars
<1>5. CASE Trail \/ UNCHANGED serverVars
  <2>1. UNCHANGED <<metrics, spc, snap, file, overlap, phase, drained>>
    BY <1>5 DEF Trail, Auditing, serviceVars, runVars, serverVars, vars, fsVars
  <2>2. QED
    BY <2>1 DEF FinalInv
<1>6. ~QuietStep /\ ~Exit /\ ~Crash
  BY DEF QuietStep, Start, LoadFile, Restored, Signal, Drain, Proceed, Exit, Crash, ProcessEnds
<1>7. ASSUME NEW k \in IDs PROVE ~RestoreOne(k)
  BY DEF RestoreOne
<1>8. ASSUME NEW r \in Reqs, NEW in \in Inputs PROVE ~Accept(r, in)
  BY DEF Accept
<1>9. QED
  BY RunKinds, <1>1, <1>2, <1>3, <1>4, <1>5, <1>6, <1>7, <1>8

-----------------------------------------------------------------------------
Faithful(m) == \A k \in IDs : AsKept(m, k)

\* What a clean stop kept is in the file, in every save under way, and in the
\* storage as far as it was restored.
KeptInv ==
    kept # NULL /\ ~overlap =>
        /\ ~Damaged /\ Faithful(Load)
        /\ \A s \in Savers : spc[s] \in Active => Faithful(snap[s])
        /\ phase = "restoring" => \A k \in IDs :
              IF toLoad[k] = NULL THEN AsKept(metrics, k)
                                  ELSE metrics[k] = NULL /\ AsKept(toLoad, k)
        /\ phase \in {"serving", "draining", "closing", "finalsave"} => Faithful(metrics)

\* A clean stop: the file is exactly what is kept.
LEMMA ExitKeeps ==
    ASSUME SInv, ShapeInv, FinalInv, Exit
    PROVE  KeptInv'
<1>. SUFFICES ASSUME kept' # NULL, ~overlap' PROVE KeptInv'
  BY DEF KeptInv
<1>1. phase = "finalsave" /\ spc[Main] = "saved" /\ drained /\ kept' = metrics
  <2>1. HasFile /\ spc[Main] = "saved" /\ drained /\ kept' = metrics
    BY DEF Exit
  <2>2. QED
    BY <2>1 DEF Exit
<1>2. ~overlap /\ file' = file
  BY DEF Exit, ProcessEnds, FSCrash
<1>3. file = metrics
  BY <1>1, <1>2 DEF FinalInv
<1>4. metrics \in MetricMaps
  BY DEF SInv, Inv, TypeOK, ServiceTypeOK
<1>5. file' = kept' /\ file' \in MetricMaps
  BY <1>1, <1>2, <1>3, <1>4
<1>6. ~Damaged' /\ Load' = kept'
  BY <1>5, FileAssumption DEF Damaged, Load
<1>7. Faithful(Load)'
  BY <1>6 DEF Faithful, AsKept
<1>8. phase' = "down" /\ \A s \in Savers : spc'[s] = "idle"
  BY DEF Exit, ProcessEnds, FSCrash
<1>9. QED
  BY <1>6, <1>7, <1>8 DEF KeptInv, Active

\* Restore: from the file to the storage, name by name.
LEMMA RestoreKeeps ==
    ASSUME SInv, ShapeInv, KeptInv, kept' # NULL, ~overlap',
           QuietStep \/ \E k \in IDs : RestoreOne(k)
    PROVE  KeptInv'
<1>1. CASE QuietStep
  <2>1. /\ UNCHANGED <<metrics, spc, snap, file, overlap>>
        /\ UNCHANGED <<kept, earlyTick>> /\ (unread => unread')
    <3>1. UNCHANGED <<metrics, spc, snap, file, overlap>>
      BY <1>1, QuietKeeps DEF vars, serviceVars, fsVars
    <3>2. UNCHANGED <<kept, earlyTick>>
      BY <1>1 DEF QuietStep, Start, LoadFile, Restored, Signal, Drain, Proceed
    <3>3. unread' = unread \/ unread' = TRUE
      BY <1>1 DEF QuietStep, Start, LoadFile, Restored, Signal, Drain, Proceed
    <3>4. unread => unread'
      BY <3>3, Zenon
    <3>5. QED
      BY <3>1, <3>2, <3>4
  <2>2. /\ ~Damaged' /\ Faithful(Load)'
        /\ \A s \in Savers : spc'[s] \in Active => Faithful(snap[s])'
        /\ Faithful(metrics) => Faithful(metrics)'
    BY <2>1 DEF KeptInv, Damaged, Load, Faithful, AsKept
  <2>3. CASE Start
    <3>1. phase' = "boot"
      BY <2>1, <2>3 DEF Start, ShapeInv
    <3>2. QED
      BY <2>2, <3>1 DEF KeptInv
  <2>4. CASE LoadFile
    <3>1. metrics' = EmptyMap /\ ~overlap /\ Faithful(Load)
      BY <2>1, <2>4 DEF LoadFile, KeptInv, ShapeInv
    <3>2. CASE phase' = "restoring"
      <4>1. toLoad' = Load
        BY <2>4, <3>2 DEF LoadFile
      <4>2. ASSUME NEW k \in IDs
            PROVE  IF toLoad'[k] = NULL THEN AsKept(metrics, k)'
                                        ELSE metrics'[k] = NULL /\ AsKept(toLoad, k)'
        BY <2>1, <3>1, <4>1 DEF Faithful, AsKept, EmptyMap
      <4>3. QED
        BY <2>2, <3>2, <4>2 DEF KeptInv
    <3>3. CASE phase' = "serving" /\ unread' = TRUE
      <4>1. Faithful(metrics)'
        BY <3>1, <3>3 DEF Faithful, AsKept, EmptyMap
      <4>2. QED
        BY <2>2, <3>3, <4>1 DEF KeptInv
    <3>4. QED
      BY <2>4, <3>2, <3>3 DEF LoadFile
  <2>5. CASE Restored
    <3>1. phase = "restoring" /\ phase' = "serving" /\ \A k \in IDs : toLoad[k] = NULL
      BY <2>5 DEF Restored, Proceed, EmptyMap
    <3>2. Faithful(metrics)
      BY <2>1, <3>1 DEF KeptInv, Faithful
    <3>3. QED
      BY <2>2, <3>1, <3>2 DEF KeptInv
  <2>6. CASE Signal \/ Drain
    <3>1. phase \in {"serving", "draining"} /\ phase' \in {"draining", "closing"}
      BY <2>6 DEF Signal, Drain, Proceed
    <3>2. QED
      BY <2>1, <2>2, <3>1 DEF KeptInv
  <2>7. QED
    BY <1>1, <2>3, <2>4, <2>5, <2>6 DEF QuietStep
<1>2. ASSUME NEW j \in IDs, RestoreOne(j) PROVE KeptInv'
  <2>1. /\ UNCHANGED <<spc, snap, file, overlap>>
        /\ UNCHANGED <<kept, earlyTick, unread, phase>>
        /\ phase = "restoring" /\ toLoad[j] # NULL
        /\ metrics' = [metrics EXCEPT ![j] = toLoad[j]]
        /\ toLoad' = [toLoad EXCEPT ![j] = NULL]
    BY <1>2 DEF RestoreOne, fsVars
  <2>2. /\ ~Damaged' /\ Faithful(Load)'
        /\ \A s \in Savers : spc'[s] \in Active => Faithful(snap[s])'
    BY <2>1 DEF KeptInv, Damaged, Load, Faithful, AsKept
  <2>3. metrics \in MetricMaps /\ toLoad \in MetricMaps
    BY DEF SInv, RunTypeOK, Inv, TypeOK, ServiceTypeOK
  <2>4. metrics'[j] = toLoad[j] /\ toLoad'[j] = NULL
        /\ \A k \in IDs \ {j} : metrics'[k] = metrics[k] /\ toLoad'[k] = toLoad[k]
    BY <2>1, <2>3 DEF MetricMaps
  <2>5. ASSUME NEW k \in IDs
        PROVE  IF toLoad'[k] = NULL THEN AsKept(metrics, k)'
                                    ELSE metrics'[k] = NULL /\ AsKept(toLoad, k)'
    <3>1. IF toLoad[k] = NULL THEN AsKept(metrics, k)
                              ELSE metrics[k] = NULL /\ AsKept(toLoad, k)
      BY <2>1 DEF KeptInv
    <3>2. QED
      BY <2>1, <2>4, <3>1 DEF AsKept
  <2>6. QED
    BY <2>1, <2>2, <2>5 DEF KeptInv
<1>3. QED
  BY <1>1, <1>2

\* A save begins with what there is of the kept metrics; one that begins before
\* the restore has ended is an early tick.
LEMMA BeginKeeps ==
    ASSUME SInv, ShapeInv, KeptInv, kept' # NULL, ~overlap', Tick \/ FinalSave
    PROVE  KeptInv'
<1>a. FSInv /\ Main \in Savers /\ Ticker \in Savers
  BY ServerAssumption DEF SInv, Inv
<1>1. /\ UNCHANGED <<metrics, toLoad, kept, unread>> /\ (earlyTick => earlyTick')
      /\ phase # "down"
      /\ phase' = phase \/ (phase = "closing" /\ phase' = "finalsave")
      /\ phase \in {"boot", "restoring"} => earlyTick'
  <2>1. CASE Tick
    <3>1. earlyTick' = (earlyTick \/ phase \in {"boot", "restoring"})
      BY <2>1 DEF Tick
    <3>2. (earlyTick => earlyTick') /\ (phase \in {"boot", "restoring"} => earlyTick')
      BY <3>1, Zenon
    <3>3. QED
      BY <2>1, <3>2 DEF Tick, Running, serviceVars
  <2>2. CASE FinalSave
    BY <2>2 DEF FinalSave, serviceVars
  <2>3. QED
    BY <2>1, <2>2
<1>2. PICK s \in Savers : BeginSave(s, metrics)
  BY <1>a DEF Tick, FinalSave
<1>3. /\ file' = file /\ ~overlap
      /\ \A t \in Savers : spc'[t] \in Active =>
            \/ spc[t] \in Active /\ snap'[t] = snap[t]
            \/ snap'[t] = metrics
  <2>1. /\ file' = file /\ (overlap => overlap')
        /\ \A t \in Savers \ {s} : spc'[t] = spc[t] /\ snap'[t] = snap[t]
        /\ \/ spc'[s] = "open" /\ snap'[s] = metrics
           \/ spc'[s] = "refused"
    BY <1>a, <1>2, BeginEffect
  <2>2. QED
    BY <2>1 DEF Active
<1>4. ASSUME NEW m, Faithful(m) PROVE Faithful(m)'
  BY <1>1, <1>4 DEF Faithful, AsKept
<1>5. ASSUME NEW k \in IDs, NEW m, AsKept(m, k) PROVE AsKept(m, k)'
  BY <1>1, <1>5 DEF AsKept
<1>6. ~Damaged' /\ Faithful(Load)'
  BY <1>1, <1>3 DEF KeptInv, Damaged, Load, Faithful, AsKept
<1>7. Faithful(metrics)'
  <2>1. CASE phase = "boot"
    BY <1>1, <2>1 DEF ShapeInv, Faithful, AsKept, EmptyMap
  <2>2. CASE phase = "restoring"
    BY <1>1, <1>3, <2>2 DEF KeptInv, Faithful, AsKept
  <2>3. CASE phase \in {"serving", "draining", "closing", "finalsave"}
    BY <1>1, <1>3, <2>3 DEF KeptInv, Faithful, AsKept
  <2>4. QED
    BY <1>1, <2>1, <2>2, <2>3 DEF SInv, RunTypeOK, Phases
<1>8. ASSUME NEW t \in Savers, spc'[t] \in Active PROVE Faithful(snap[t])'
  <2>1. CASE snap'[t] = metrics
    BY <1>1, <1>7, <2>1 DEF Faithful, AsKept
  <2>2. CASE spc[t] \in Active /\ snap'[t] = snap[t]
    BY <1>1, <1>3, <2>2 DEF KeptInv, Faithful, AsKept
  <2>3. QED
    BY <1>3, <1>8, <2>1, <2>2
<1>9. phase' = "restoring" => \A k \in IDs :
          IF toLoad'[k] = NULL THEN AsKept(metrics, k)'
                               ELSE metrics'[k] = NULL /\ AsKept(toLoad, k)'
  BY <1>1, <1>3 DEF KeptInv, AsKept
<1>10. QED
  BY <1>6, <1>7, <1>8, <1>9 DEF KeptInv

LEMMA KeptStep == SInv /\ ShapeInv /\ FinalInv /\ KeptInv /\ [ServerNext]_serverVars => KeptInv'
<1>. SUFFICES ASSUME SInv, ShapeInv, FinalInv, KeptInv, [ServerNext]_serverVars,
                     kept' # NULL, ~overlap'
              PROVE  KeptInv'
  BY DEF KeptInv
<1>1. ASSUME NEW s \in Savers, Disk(s) PROVE KeptInv'
  <2>1. SaveStep(s) /\ UNCHANGED metrics /\ UNCHANGED runVars
    BY <1>1 DEF Disk, Save, serviceVars
  <2>2. /\ spc[s] \in Active /\ ~overlap
        /\ \A t \in Savers : spc'[t] \in Active => spc[t] \in Active /\ snap'[t] = snap[t]
        /\ file' \in {file, snap[s]}
    BY <2>1, DiskEffect DEF Saving, SInv, Inv
  <2>3. snap[s] \in MetricMaps
    BY DEF SInv, Inv, FSInv, FSTypeOK
  <2>4. ~Damaged' /\ Load' \in {Load, snap[s]}
    BY <2>1, <2>2, <2>3, FileAssumption DEF KeptInv, Damaged, Load, runVars
  <2>5. Faithful(Load)'
    BY <2>1, <2>2, <2>4 DEF KeptInv, Faithful, AsKept, runVars
  <2>6. \A t \in Savers : spc'[t] \in Active => Faithful(snap[t])'
    BY <2>1, <2>2 DEF KeptInv, Faithful, AsKept, runVars
  <2>7. QED
    BY <2>1, <2>2, <2>4, <2>5, <2>6 DEF KeptInv, Faithful, AsKept, runVars
<1>2. CASE Trail \/ UNCHANGED serverVars
  <2>1. UNCHANGED <<metrics, spc, snap, file, overlap>> /\ UNCHANGED runVars
    BY <1>2 DEF Trail, Auditing, serviceVars, serverVars, vars, fsVars
  <2>2. QED
    BY <2>1 DEF KeptInv, Damaged, Load, Faithful, AsKept, runVars
<1>3. CASE Crash
  <2>1. /\ phase' = "down" /\ UNCHANGED <<kept, earlyTick, unread, file, overlap>>
        /\ \A s \in Savers : spc'[s] = "idle"
    BY <1>3 DEF Crash, ProcessEnds, FSCrash
  <2>2. QED
    BY <2>1 DEF KeptInv, Damaged, Load, Faithful, AsKept, Active
<1>4. ASSUME NEW r \in Reqs, Serve(r) PROVE FALSE
  BY <1>4, ServeFree DEF runVars
<1>5. ASSUME NEW r \in Reqs, NEW in \in Inputs PROVE ~Accept(r, in)
  BY DEF Accept
<1>6. QED
  BY RunKinds, <1>1, <1>2, <1>3, <1>4, <1>5, ExitKeeps, RestoreKeeps, BeginKeeps

LEMMA RunInvariant == ServerSpec => [](SInv /\ ShapeInv /\ FinalInv /\ KeptInv)
<1>1. ASSUME ServerInit PROVE ShapeInv /\ FinalInv /\ KeptInv
  <2>1. /\ phase = "down" /\ ~drained /\ kept = NULL /\ metrics = EmptyMap
        /\ \A r \in Reqs : pc[r] = "new"
        /\ \A s \in Savers : spc[s] = "idle"
    BY <1>1 DEF ServerInit, Init, ServiceInit, FSInit
  <2>2. InFlight = {}
    BY <2>1 DEF InFlight
  <2>3. QED
    BY <2>1, <2>2 DEF ShapeInv, FinalInv, KeptInv, Active
<1>2. QED
  BY ServerInvariant, <1>1, ShapeStep, FinalStep, KeptStep, PTL DEF ServerSpec

(* For any number of starts, kills, ticks and failing disks: a clean stop  *)
(* leaves exactly what was stored in the file, and later starts take       *)
(* nothing of it away but names that a tick cut out during a restore, or a *)
(* save after a start that failed to read the file.                        *)
THEOREM StopsKeep == ServerSpec => []StopKeeps
<1>1. KeptInv => StopKeeps
  BY DEF KeptInv, StopKeeps, Faithful
<1>2. QED
  BY RunInvariant, <1>1, PTL

(* Until a request arrives, a server that was restarted any number of      *)
(* times serves what the last clean stop saved, whole unless a tick fell   *)
(* into a restore or a start failed to read the file.                      *)
THEOREM RestartsBringBack == ServerSpec => []RestartBringsBack
<1>1. KeptInv => RestartBringsBack
  BY DEF KeptInv, RestartBringsBack, Faithful
<1>2. QED
  BY RunInvariant, <1>1, PTL

-----------------------------------------------------------------------------
\* Every copy of the metrics there is: stored, being restored, being saved,
\* and in the two files.
Copies == {metrics, toLoad} \cup {snap[s] : s \in Savers} \cup ({tmp, file} \cap MetricMaps)

\* No copy holds more under a name than was given.
HeldInv ==
    NonNegative => \A k \in IDs : given[k] < HalfRange =>
        \A c \in Copies : Within(k, c[k])

\* Where nothing is given, it is enough that what a copy holds was held by one.
LEMMA HeldFrom ==
    ASSUME HeldInv, given' = given,
           \A c \in Copies', k \in IDs : c[k] = NULL \/ \E old \in Copies : c[k] = old[k]
    PROVE  HeldInv'
BY DEF HeldInv, NonNegative, Within

\* A step of a save moves copies between snapshot and files, or drops them.
LEMMA CopiesOfSave ==
    ASSUME FSInv, NEW s \in Savers, SaveStep(s), UNCHANGED <<metrics, toLoad>>
    PROVE  Copies' \subseteq Copies \cup {EmptyMap}
<1>a. snap \in [Savers -> MetricMaps] /\ snap[s] \in Copies
  BY DEF FSInv, FSTypeOK, Copies
<1>b. {Empty, Mixed, Absent} \cap MetricMaps = {}
  BY FileAssumption
<1>1. \A t \in Savers : snap'[t] \in {snap[t], EmptyMap}
  BY <1>a DEF SaveStep, OpenTmp, WriteTmp, RenameTmp, SaveFails
<1>2. {tmp', file'} \subseteq {tmp, file, snap[s], Empty, Mixed, Absent}
  <2>1. CASE OpenTmp(s)
    BY <2>1 DEF OpenTmp
  <2>2. CASE WriteTmp(s)
    BY <2>2 DEF WriteTmp, PutContent, Overlay
  <2>3. CASE RenameTmp(s)
    BY <2>3 DEF RenameTmp
  <2>4. CASE SaveFails(s)
    BY <2>4 DEF SaveFails, PutContent, OpenContent
  <2>5. QED
    BY <2>1, <2>2, <2>3, <2>4 DEF SaveStep
<1>3. ASSUME NEW c \in {snap'[t] : t \in Savers} PROVE c \in Copies \cup {EmptyMap}
  BY <1>1, <1>3 DEF Copies
<1>4. ASSUME NEW c \in {tmp', file'} \cap MetricMaps PROVE c \in Copies
  BY <1>a, <1>b, <1>2, <1>4 DEF Copies
<1>5. {metrics', toLoad'} \subseteq Copies
  BY DEF Copies
<1>6. QED
  BY <1>3, <1>4, <1>5 DEF Copies

\* The beginning of a save copies what is stored.
LEMMA CopiesOfBegin ==
    ASSUME FSInv, NEW s \in Savers, BeginSave(s, metrics), UNCHANGED <<metrics, toLoad>>
    PROVE  Copies' \subseteq Copies
<1>1. snap \in [Savers -> MetricMaps]
  BY DEF FSInv, FSTypeOK
<1>2. \A t \in Savers : snap'[t] \in {snap[t], metrics}
  BY <1>1 DEF BeginSave
<1>3. UNCHANGED <<tmp, file>>
  BY DEF BeginSave
<1>4. ASSUME NEW c \in {snap'[t] : t \in Savers} PROVE c \in Copies
  BY <1>2, <1>4 DEF Copies
<1>5. QED
  BY <1>3, <1>4 DEF Copies

\* What a handler does: it writes, saves, or leaves every copy as it is.
LEMMA HandlerKinds ==
    ASSUME Inv, NEW r \in Reqs, Handler(r)
    PROVE  \/ WriteCounter(r) \/ WriteGauge(r)
           \/ BeginSave(r, metrics) /\ UNCHANGED <<metrics, given>>
           \/ UNCHANGED <<metrics, given, fsVars>>
<1>1. ASSUME Ends(r) PROVE UNCHANGED <<metrics, given, fsVars>>
  <2>1. PICK st \in Statuses : End(r, st)
    BY <1>1, EndsReply
  <2>2. QED
    BY <2>1 DEF End
<1>2. Handler(r) => Ends(r) \/ ReadCounter(r) \/ WriteCounter(r) \/ WriteGauge(r)
                            \/ Finish(r) \/ BeginSync(r)
  BY DEF Handler, Ends
<1>3. QED
  BY <1>1, <1>2 DEF ReadCounter, Finish, BeginSync

LEMMA ServiceCounts ==
    ASSUME SInv, CountInv, [ServerNext]_serverVars, ~Exit, ~Crash,
           ~\E k \in IDs : RestoreOne(k)
    PROVE  CountInv'
<1>1. ASSUME UNCHANGED serviceVars PROVE CountInv'
  <2>1. UNCHANGED <<metrics, given, pc, seen>> /\ \A r \in Reqs : Item(r)' = Item(r)
    BY <1>1 DEF serviceVars, reqVars, Item
  <2>2. QED
    BY <2>1 DEF CountInv, NonNegative, Within
<1>2. QuietStep \/ Tick \/ FinalSave \/ (\E s \in Savers : Disk(s)) \/ UNCHANGED serverVars
          => UNCHANGED serviceVars
  BY QuietKeeps DEF vars, Tick, FinalSave, Disk, Save, serverVars
<1>3. QED
  BY RunKinds, <1>1, <1>2, ServesNext, CountStep DEF SInv

LEMMA CountedStep ==
    ASSUME SInv, CountInv, HeldInv, [ServerNext]_serverVars
    PROVE  CountInv' /\ HeldInv'
<1>a. FSInv /\ Inv /\ Main \in Savers /\ Ticker \in Savers /\ Reqs \subseteq Savers
  BY ServerAssumption, ServiceAssumption DEF SInv, Inv
<1>b. metrics \in MetricMaps /\ toLoad \in MetricMaps
  BY DEF SInv, RunTypeOK, Inv, TypeOK, ServiceTypeOK
<1>c. {metrics, toLoad} \subseteq Copies /\ \A k \in IDs : EmptyMap[k] = NULL
  BY DEF Copies, EmptyMap
<1>1. ASSUME UNCHANGED <<metrics, given, toLoad, fsVars>> PROVE HeldInv'
  BY <1>1 DEF HeldInv, NonNegative, Within, Copies, fsVars
<1>2. ASSUME NEW s \in Savers, BeginSave(s, metrics), UNCHANGED <<metrics, given, toLoad>>
      PROVE  HeldInv'
  BY <1>a, <1>2, CopiesOfBegin, HeldFrom
<1>3. ASSUME NEW k \in IDs, RestoreOne(k) PROVE CountInv' /\ HeldInv'
  <2>1. /\ UNCHANGED <<given, pc, seen, req, idx, fsVars>>
        /\ metrics' = [metrics EXCEPT ![k] = toLoad[k]]
        /\ toLoad' = [toLoad EXCEPT ![k] = NULL]
    BY <1>3 DEF RestoreOne, reqVars
  <2>2. \A j \in IDs : /\ metrics'[j] \in {metrics[j], toLoad[j]}
                       /\ toLoad'[j] \in {toLoad[j], NULL}
    BY <1>b, <2>1 DEF MetricMaps
  <2>3. CountInv'
    <3>1. \A j \in IDs : given[j] < HalfRange /\ NonNegative =>
              Within(j, metrics[j]) /\ Within(j, toLoad[j])
      BY <1>c DEF HeldInv
    <3>2. \A r \in Reqs : Item(r)' = Item(r)
      BY <2>1 DEF Item
    <3>3. QED
      BY <2>1, <2>2, <3>1, <3>2 DEF CountInv, NonNegative, Within
  <2>4. Copies' \subseteq Copies \cup {metrics', toLoad'}
    BY <2>1 DEF Copies, fsVars
  <2>5. \A c \in Copies', j \in IDs : c[j] = NULL \/ \E old \in Copies : c[j] = old[j]
    BY <1>c, <2>2, <2>4
  <2>6. QED
    BY <2>1, <2>3, <2>5, HeldFrom
<1>4. ASSUME NEW s \in Savers, Disk(s) PROVE HeldInv'
  <2>1. SaveStep(s) /\ UNCHANGED <<metrics, given, toLoad>>
    BY <1>4 DEF Disk, Save, serviceVars, runVars
  <2>2. Copies' \subseteq Copies \cup {EmptyMap}
    BY <1>a, <2>1, CopiesOfSave
  <2>3. QED
    BY <1>c, <2>1, <2>2, HeldFrom
<1>5. ASSUME NEW r \in Reqs, Serve(r) PROVE HeldInv'
  <2>1. CASE WriteCounter(r) \/ WriteGauge(r)
    <3>1. CountInv'
      BY <1>a, <1>5, ServesNext, CountStep
    <3>2. UNCHANGED <<toLoad, tmp, file, snap>>
      BY <1>5, <2>1 DEF Serve, runVars, WriteCounter, WriteGauge, Store, fsVars
    <3>3. SUFFICES ASSUME NonNegative, NEW k \in IDs, given'[k] < HalfRange, NEW c \in Copies'
                   PROVE  Within(k, c[k])'
      BY DEF HeldInv, NonNegative
    <3>4. given[k] \in Nat /\ given'[k] \in Nat /\ given'[k] >= given[k]
      BY <1>a, <2>1, <3>3, WriteGives
    <3>5. CASE c = metrics'
      BY <3>1, <3>3, <3>5 DEF CountInv, NonNegative, Within
    <3>6. CASE c \in Copies
      <4>1. Within(k, c[k])
        BY <3>3, <3>4, <3>6, MetricsAssumption DEF HeldInv
      <4>2. QED
        BY <3>4, <4>1 DEF Within
    <3>7. QED
      BY <3>2, <3>3, <3>5, <3>6 DEF Copies
  <2>2. CASE ~(WriteCounter(r) \/ WriteGauge(r))
    <3>1. toLoad' = toLoad /\ Handler(r)
      BY <1>5 DEF Serve, runVars
    <3>2. QED
      BY <1>1, <1>2, <1>a, <2>2, <3>1, HandlerKinds
  <2>3. QED
    BY <2>1, <2>2
<1>6. CASE Exit \/ Crash
  <2>1. /\ metrics' = EmptyMap /\ toLoad' = EmptyMap /\ UNCHANGED <<given, tmp, file>>
        /\ \A r \in Reqs : pc'[r] \in {"new", "done"}
        /\ \A s \in Savers : snap'[s] = EmptyMap
    BY <1>6 DEF Exit, Crash, ProcessEnds, FSCrash
  <2>2. CountInv'
    BY <1>c, <2>1 DEF CountInv, NonNegative, Within
  <2>3. Copies' \subseteq Copies \cup {EmptyMap}
    BY <2>1 DEF Copies
  <2>4. QED
    BY <1>c, <2>1, <2>2, <2>3, HeldFrom
<1>7. ASSUME Tick \/ FinalSave PROVE HeldInv'
  BY <1>2, <1>7, <1>a DEF Tick, FinalSave, serviceVars
<1>8. ASSUME NEW r \in Reqs, NEW in \in Inputs, Accept(r, in) PROVE HeldInv'
  BY <1>1, <1>8 DEF Accept, Arrive
<1>9. ASSUME Trail \/ UNCHANGED serverVars PROVE HeldInv'
  BY <1>1, <1>9 DEF Trail, Auditing, serviceVars, runVars, serverVars, vars
<1>10. ASSUME QuietStep PROVE HeldInv'
  <2>1. UNCHANGED <<metrics, given, fsVars>>
    BY <1>10, QuietKeeps DEF vars, serviceVars
  <2>2. toLoad' = toLoad \/ (~Damaged /\ toLoad' = Load)
    BY <1>10 DEF QuietStep, Start, LoadFile, Restored, Signal, Drain, Proceed
  <2>3. ~Damaged => Load \in Copies \cup {EmptyMap}
    BY <1>a DEF Damaged, Load, Copies, FSInv, FSTypeOK, Contents
  <2>4. Copies' \subseteq Copies \cup {EmptyMap}
    BY <1>c, <2>1, <2>2, <2>3 DEF Copies, fsVars
  <2>5. QED
    BY <1>c, <2>1, <2>4, HeldFrom
<1>11. QED
  BY RunKinds, ServiceCounts, <1>3, <1>4, <1>5, <1>6, <1>7, <1>8, <1>9, <1>10

(* No restore, kill or save in between makes any copy of the metrics hold  *)
(* more than clients gave: the bound of NoOvercount extended to what is    *)
(* being restored, being saved, and in either file.                        *)
THEOREM CountsOnce == ServerSpec => []CountedOnce
<1>1. ASSUME ServerInit PROVE CountInv /\ HeldInv
  <2>1. /\ metrics = EmptyMap /\ toLoad = EmptyMap /\ tmp = Absent /\ file = Absent
        /\ \A s \in Savers : snap[s] = EmptyMap
        /\ \A r \in Reqs : pc[r] = "new"
        /\ \A k \in IDs : given[k] = 0
    BY <1>1 DEF ServerInit, Init, ServiceInit, FSInit
  <2>2. Copies \subseteq {EmptyMap}
    BY <2>1, FileAssumption DEF Copies
  <2>3. \A k \in IDs : Within(k, EmptyMap[k])
    BY DEF Within, EmptyMap
  <2>4. HeldInv
    BY <2>2, <2>3 DEF HeldInv
  <2>5. ASSUME NEW k \in IDs PROVE given[k] \in Nat
    <3>1. given[k] = 0
      BY <2>1
    <3>2. QED
      BY <3>1
  <2>6. /\ \A k \in IDs : given[k] \in Nat /\ Within(k, metrics[k])
        /\ \A r \in Reqs : pc[r] # "write"
    BY <2>1, <2>3, <2>5
  <2>7. QED
    BY <2>4, <2>6, Zenon DEF CountInv
<1>2. ASSUME SInv, HeldInv PROVE CountedOnce
  <2>1. ~Damaged => \A k \in IDs : Load[k] = NULL \/ Load \in Copies
    BY <1>2 DEF Damaged, Load, EmptyMap, Copies, SInv, Inv, FSInv, FSTypeOK, Contents
  <2>2. QED
    BY <1>2, <2>1 DEF HeldInv, CountedOnce, Copies, Within
<1>3. QED
  BY ServerInvariant, <1>1, <1>2, CountedStep, PTL DEF ServerSpec

-----------------------------------------------------------------------------
\* In the first start there is no file, nor any save that could write one.
FreshInv ==
    /\ Running => starts # 0
    /\ FirstStart /\ ~earlyTick =>
          /\ phase \in {"down", "boot"} => file = Absent /\ \A s \in Savers : spc[s] \notin Active
          /\ phase = "restoring" => toLoad = EmptyMap

LEMMA FreshStep == SInv /\ ShapeInv /\ FreshInv /\ [ServerNext]_serverVars => FreshInv'
<1>. SUFFICES ASSUME SInv, ShapeInv, FreshInv, [ServerNext]_serverVars PROVE FreshInv'
  OBVIOUS
<1>a. starts \in Nat /\ FSInv /\ Ticker \in Savers
  BY MaxStartsNat, ServerAssumption DEF SInv, RunTypeOK, Inv
<1>1. CASE QuietStep
  <2>1. UNCHANGED <<file, spc, earlyTick>>
    <3>1. UNCHANGED <<file, spc>>
      BY <1>1, QuietKeeps DEF vars, fsVars
    <3>2. UNCHANGED earlyTick
      BY <1>1 DEF QuietStep, Start, LoadFile, Restored, Signal, Drain, Proceed
    <3>3. QED
      BY <3>1, <3>2
  <2>2. CASE Start
    <3>1. phase = "down" /\ phase' # "down" /\ phase' # "restoring" /\ starts' = starts + 1
      BY <2>2 DEF Start
    <3>2. FirstStart' => starts = 0
      BY <1>a, <3>1 DEF FirstStart
    <3>3. QED
      BY <1>a, <2>1, <3>1, <3>2 DEF FreshInv, FirstStart
  <2>3. CASE LoadFile
    <3>1. phase = "boot" /\ phase' \in {"serving", "restoring"} /\ starts' = starts
          /\ (phase' = "restoring" => toLoad' = Load)
      BY <2>3 DEF LoadFile
    <3>2. QED
      BY <2>1, <3>1 DEF FreshInv, FirstStart, Running, Load
  <2>4. CASE Restored \/ Signal \/ Drain
    <3>1. phase' \in {"serving", "draining", "closing"} /\ phase # "down" /\ starts' = starts
      BY <2>4 DEF Restored, Signal, Drain, Proceed
    <3>2. QED
      BY <3>1 DEF FreshInv, Running
  <2>5. QED
    BY <1>1, <2>2, <2>3, <2>4 DEF QuietStep
<1>2. ASSUME NEW k \in IDs, RestoreOne(k) PROVE FreshInv'
  <2>1. /\ phase = "restoring" /\ toLoad[k] # NULL
        /\ UNCHANGED <<phase, starts, earlyTick>>
    BY <1>2 DEF RestoreOne
  <2>2. ~(FirstStart /\ ~earlyTick)
    BY <2>1 DEF FreshInv, EmptyMap
  <2>3. QED
    BY <2>1, <2>2 DEF FreshInv, FirstStart, Running
<1>3. CASE Tick
  <2>1. /\ UNCHANGED <<phase, starts, toLoad>> /\ phase # "down"
        /\ earlyTick' = (earlyTick \/ phase \in {"boot", "restoring"})
    BY <1>3 DEF Tick, Running
  <2>2. phase' \in {"boot", "restoring"} => earlyTick'
    BY <2>1, Zenon
  <2>3. QED
    BY <2>1, <2>2 DEF FreshInv, Running
<1>4. CASE FinalSave
  BY <1>4 DEF FinalSave, FreshInv, Running
<1>5. ASSUME NEW s \in Savers, Disk(s) PROVE FreshInv'
  <2>1. UNCHANGED runVars /\ SaveStep(s)
    BY <1>5 DEF Disk, Save
  <2>2. Saving(s)
    BY <1>a, <2>1, DiskEffect
  <2>3. FirstStart /\ ~earlyTick => phase \notin {"down", "boot"}
    BY <2>2 DEF FreshInv, Saving
  <2>4. QED
    BY <2>1, <2>3 DEF FreshInv, FirstStart, Running, runVars
<1>6. ASSUME NEW r \in Reqs, NEW in \in Inputs, Accept(r, in) PROVE FreshInv'
  BY <1>6 DEF Accept, FreshInv, Running
<1>7. ASSUME NEW r \in Reqs, Serve(r) PROVE FreshInv'
  <2>1. UNCHANGED runVars /\ phase \notin {"down", "boot", "restoring"}
    BY <1>7, ServeFree
  <2>2. QED
    BY <2>1 DEF FreshInv, FirstStart, Running, runVars
<1>8. CASE Trail \/ UNCHANGED serverVars
  <2>1. UNCHANGED runVars /\ UNCHANGED <<file, spc>>
    BY <1>8 DEF Trail, Auditing, serverVars, vars, fsVars
  <2>2. QED
    BY <2>1 DEF FreshInv, FirstStart, Running, runVars
<1>9. CASE Exit \/ Crash
  <2>1. phase' = "down" /\ starts' = starts /\ Running
    BY <1>9 DEF Exit, Crash, ProcessEnds, Running
  <2>2. ~FirstStart'
    BY <2>1 DEF FreshInv, FirstStart, Running
  <2>3. QED
    BY <2>1, <2>2 DEF FreshInv, Running
<1>10. QED
  BY RunKinds, <1>1, <1>2, <1>3, <1>4, <1>5, <1>6, <1>7, <1>8, <1>9

\* The order of the items survives the steps of Run.
LEMMA OrderKept == SInv /\ Ordered /\ [ServerNext]_serverVars => Ordered'
<1>. SUFFICES ASSUME SInv, Ordered, [ServerNext]_serverVars PROVE Ordered'
  OBVIOUS
<1>1. ASSUME UNCHANGED <<req, pc, idx, wrote>> PROVE Ordered'
  BY <1>1 DEF Ordered
<1>2. ASSUME Next PROVE Ordered'
  BY <1>2, OrderStep DEF SInv
<1>3. CASE Exit \/ Crash
  <2>1. UNCHANGED <<req, idx, wrote>> /\ \A r \in Reqs : pc'[r] \in Early => pc[r] = "new" /\ pc'[r] = "new"
    BY <1>3 DEF Exit, Crash, ProcessEnds, At, Early
  <2>2. QED
    BY <2>1 DEF Ordered, Early
<1>4. QuietStep \/ (\E k \in IDs : RestoreOne(k)) \/ Tick \/ FinalSave
         \/ (\E s \in Savers : Disk(s)) \/ UNCHANGED serverVars
      => UNCHANGED <<req, pc, idx, wrote>>
  BY QuietKeeps DEF vars, RestoreOne, Tick, FinalSave, Disk, Save, serverVars, serviceVars, reqVars
<1>5. QED
  BY RunKinds, ServesNext, <1>1, <1>2, <1>3, <1>4

\* While the metrics that last are those stored, the service's steps are theirs.
LEMMA ServiceLasts ==
    ASSUME Inv, Undisturbed, Ordered, Next, Lasting = metrics, Lasting' = metrics'
    PROVE  [Durable!AMNext]_(Durable!absVars)
<1>1. \A it : Atomic!Update(it) => Durable!Update(it)
  BY DEF Atomic!Update, Durable!Update, Atomic!Valid, Durable!Valid, Atomic!Base, Durable!Base,
         Atomic!Add, Durable!Add, Atomic!Wrap, Durable!Wrap, Atomic!Stored, Durable!Stored
<1>2. Atomic!AMNext => Durable!AMNext
  BY <1>1 DEF Atomic!AMNext, Durable!AMNext, Atomic!Ask, Durable!Ask,
              Atomic!Wanted, Durable!Wanted, Atomic!Apply, Durable!Apply
<1>3. [Atomic!AMNext]_<<metrics, req, wrote, given>>
  BY AtomicStep
<1>4. QED
  BY <1>2, <1>3 DEF Durable!absVars

\* Once a restore is over, the metrics that last are those stored.
LEMMA StoredIsLasting ==
    ASSUME SInv, KeptInv, Calm, phase \in {"serving", "draining", "closing", "finalsave"}
    PROVE  Lasting = metrics
<1>1. CASE kept # NULL
  <2>1. \A k \in IDs : metrics[k] = kept[k]
    BY <1>1 DEF KeptInv, Calm, CleanRuns, Faithful, AsKept
  <2>2. metrics \in MetricMaps /\ kept \in MetricMaps
    BY <1>1 DEF SInv, RunTypeOK, Inv, TypeOK, ServiceTypeOK
  <2>3. metrics = kept
    BY <2>1, <2>2 DEF MetricMaps
  <2>4. QED
    BY <1>1, <2>3 DEF Lasting
<1>2. QED
  BY <1>1 DEF Lasting

LEMMA CalmStep ==
    ASSUME SInv, ShapeInv, KeptInv, FreshInv, Ordered, [ServerNext]_serverVars, Calm, Calm'
    PROVE  [Durable!AMNext]_(Durable!absVars)
<1>1. SUFFICES ASSUME ~UNCHANGED <<Lasting, req, wrote, given>>
               PROVE  [Durable!AMNext]_(Durable!absVars)
  BY DEF Durable!absVars
<1>2. CASE QuietStep
  <2>1. UNCHANGED <<metrics, req, wrote, given>>
    BY <1>2, QuietKeeps DEF vars, serviceVars, reqVars
  <2>2. kept' = kept
    BY <1>2 DEF QuietStep, Start, LoadFile, Restored, Signal, Drain, Proceed, Calm, CleanRuns
  <2>3. QED
    BY <1>1, <2>1, <2>2 DEF Lasting
<1>3. ASSUME NEW k \in IDs, RestoreOne(k) PROVE FALSE
  <2>1. /\ phase = "restoring" /\ toLoad[k] # NULL
        /\ UNCHANGED <<req, wrote, given, kept>>
    BY <1>3 DEF RestoreOne, reqVars
  <2>2. kept # NULL
    BY <2>1 DEF Calm, CleanRuns, FreshInv, EmptyMap
  <2>3. QED
    BY <1>1, <2>1, <2>2 DEF Lasting
<1>4. Tick \/ FinalSave \/ (\E s \in Savers : Disk(s)) \/ UNCHANGED serverVars => FALSE
  BY <1>1 DEF Tick, FinalSave, Disk, Save, serverVars, vars, serviceVars, reqVars, runVars, Lasting
<1>5. ASSUME NEW r \in Reqs, NEW in \in Inputs, Accept(r, in)
      PROVE  [Durable!AMNext]_(Durable!absVars)
  <2>1. phase = "serving" /\ kept' = NULL /\ Next
    BY <1>5, ServesNext DEF Accept
  <2>2. Lasting = metrics /\ Lasting' = metrics'
    BY <2>1, StoredIsLasting DEF Lasting
  <2>3. QED
    BY <2>1, <2>2, ServiceLasts DEF SInv, Calm
<1>6. ASSUME Trail \/ \E r \in Reqs : Serve(r)
      PROVE  [Durable!AMNext]_(Durable!absVars)
  <2>1. CASE Trail
    BY <1>1, <2>1 DEF Trail, Auditing, serviceVars, reqVars, runVars, Lasting
  <2>2. CASE \E r \in Reqs : Serve(r)
    <3>1. kept = NULL /\ UNCHANGED runVars /\ Next
      BY <2>2, ServeFree, ServesNext
    <3>2. Lasting = metrics /\ Lasting' = metrics'
      BY <3>1 DEF Lasting, runVars
    <3>3. QED
      BY <3>1, <3>2, ServiceLasts DEF SInv, Calm
  <2>3. QED
    BY <1>6, <2>1, <2>2
<1>7. ASSUME Exit \/ Crash PROVE FALSE
  <2>1. phase' = "down" /\ starts' = starts /\ Running /\ UNCHANGED <<req, wrote, given>>
    BY <1>7 DEF Exit, Crash, ProcessEnds, Running
  <2>2. kept' # NULL
    BY <2>1 DEF Calm, CleanRuns, FirstStart, FreshInv, Running
  <2>3. CASE Exit
    <3>1. kept' = metrics /\ phase \in {"closing", "finalsave"}
      BY <2>2, <2>3 DEF Exit
    <3>2. Lasting = metrics
      BY <3>1, StoredIsLasting
    <3>3. QED
      BY <1>1, <2>1, <2>2, <3>1, <3>2 DEF Lasting
  <2>4. CASE Crash
    BY <1>1, <2>1, <2>2, <2>4 DEF Crash, Lasting
  <2>5. QED
    BY <1>7, <2>3, <2>4
<1>8. QED
  BY RunKinds, <1>2, <1>3, <1>4, <1>5, <1>6, <1>7

LEMMA CalmInvariant ==
    ServerSpec => [](SInv /\ ShapeInv /\ KeptInv /\ FreshInv /\ Ordered)
<1>1. ASSUME ServerInit PROVE FreshInv /\ Ordered
  <2>1. phase = "down" /\ starts = 0 /\ file = Absent /\ (\A s \in Savers : spc[s] = "idle") /\ Init
    BY <1>1 DEF ServerInit, Init, FSInit
  <2>2. QED
    BY <2>1, AtomicInit DEF FreshInv, Running, Active
<1>2. QED
  BY RunInvariant, <1>1, FreshStep, OrderKept, PTL DEF ServerSpec

(* For any requests, starts, kills, ticks and failing disks: between calm  *)
(* states no step of Run can be told from a step, or none, of a service    *)
(* that never goes down.                                                   *)
THEOREM RestartsAreInvisible == ServerSpec => RestartsInvisible
<1>1. /\ SInv /\ ShapeInv /\ KeptInv /\ FreshInv /\ Ordered
      /\ [ServerNext]_serverVars
      => [Calm /\ Calm' => [Durable!AMNext]_(Durable!absVars)]_serverVars
  BY CalmStep
<1>2. QED
  BY CalmInvariant, <1>1, PTL DEF ServerSpec, RestartsInvisible

(* A server that stays calm implements the atomic service from its first   *)
(* start on, through every later one.                                      *)
LEMMA CalmServerIsAtomic == ServerSpec /\ []Calm => Durable!AMSpec
<1>1. ServerInit => Durable!AMInit
  BY DEF ServerInit, Init, ServiceInit, Durable!AMInit, Lasting, EmptyMap, Durable!EmptyMap
<1>2. /\ SInv /\ ShapeInv /\ KeptInv /\ FreshInv /\ Ordered
      /\ [ServerNext]_serverVars
      => (Calm /\ Calm' => [Durable!AMNext]_(Durable!absVars))
  BY CalmStep
<1>3. QED
  BY CalmInvariant, <1>1, <1>2, PTL DEF ServerSpec, Durable!AMSpec

-----------------------------------------------------------------------------
\* Starts, saves and restores leave alone what a handler has read.
LEMMA UndisturbedRun ==
    ASSUME SInv, ShapeInv, Raceless, Undisturbed, [ServerNext]_serverVars
    PROVE  Undisturbed'
<1>1. ASSUME UNCHANGED <<metrics, req, pc, idx, seen>> PROVE Undisturbed'
  BY <1>1 DEF Undisturbed, At, Item
<1>2. ASSUME Next PROVE Undisturbed'
  BY <1>2, UndisturbedStep DEF SInv
<1>3. CASE QuietStep \/ UNCHANGED serverVars
  BY <1>1, <1>3, QuietKeeps DEF vars, serverVars, serviceVars, reqVars
<1>4. CASE Tick \/ FinalSave \/ (\E s \in Savers : Disk(s))
  BY <1>1, <1>4 DEF Tick, FinalSave, Disk, Save, serviceVars, reqVars
<1>5. ASSUME NEW k \in IDs, RestoreOne(k) PROVE Undisturbed'
  <2>1. InFlight = {} /\ pc' = pc
    BY <1>5 DEF RestoreOne, ShapeInv, reqVars
  <2>2. \A r \in Reqs : pc'[r] # "write"
    BY <2>1 DEF InFlight, At
  <2>3. QED
    BY <2>2 DEF Undisturbed, At
<1>6. CASE Exit \/ Crash
  <2>1. \A r \in Reqs : pc'[r] # "write"
    BY <1>6 DEF Exit, Crash, ProcessEnds
  <2>2. QED
    BY <2>1 DEF Undisturbed, At
<1>7. QED
  BY RunKinds, ServesNext, <1>2, <1>3, <1>4, <1>5, <1>6

(* Five things only lose an update: two saves that overlap, a tick during  *)
(* a restore, a start that cannot read the file, a restore of anything but *)
(* the last clean stop, and requests that race for a counter.  In every    *)
(* behaviour without them, through any number of starts, the server        *)
(* implements the atomic service.                                          *)
THEOREM RacelessServerIsAtomic == ServerSpec /\ [](CleanRuns /\ Raceless) => Durable!AMSpec
<1>1. ServerInit => Undisturbed
  BY AtomicInit DEF ServerInit
<1>2. SInv /\ ShapeInv /\ Raceless /\ Undisturbed /\ [ServerNext]_serverVars => Undisturbed'
  BY UndisturbedRun
<1>3. CleanRuns /\ Undisturbed => Calm
  BY DEF Calm
<1>4. QED
  BY CalmInvariant, CalmServerIsAtomic, <1>1, <1>2, <1>3, PTL DEF ServerSpec

\* What is proved about the atomic service.
DurableP == INSTANCE AtomicMetricsProofs
            WITH store <- Lasting, asked <- req, applied <- wrote, total <- given

LEMMA DurableSums == Durable!AMSpec => []Durable!SumOfCounters
<1>1. DurableP!RequestsOK
  BY ServiceAssumption
  DEF DurableP!RequestsOK, Requests, DurableP!Items, Items,
      DurableP!Types, Types, DurableP!Deltas, Deltas
<1>2. DurableP!AMSpec => []DurableP!SumOfCounters
  BY <1>1, DurableP!AtomicCountersSum, MetricsAssumption
<1>3. Durable!AMInit => DurableP!AMInit
  BY DEF Durable!AMInit, DurableP!AMInit, Durable!EmptyMap, DurableP!EmptyMap
<1>4. [Durable!AMNext]_(Durable!absVars) => [DurableP!AMNext]_(DurableP!absVars)
  <2>1. \A it : Durable!Update(it) => DurableP!Update(it)
    BY DEF Durable!Update, DurableP!Update, Durable!Valid, DurableP!Valid,
           Durable!Base, DurableP!Base, Durable!Add, DurableP!Add,
           Durable!Wrap, DurableP!Wrap, Durable!Stored, DurableP!Stored
  <2>2. Durable!AMNext => DurableP!AMNext
    BY <2>1 DEF Durable!AMNext, DurableP!AMNext, Durable!Ask, DurableP!Ask,
                Durable!Wanted, DurableP!Wanted, Durable!Apply, DurableP!Apply
  <2>3. QED
    BY <2>2 DEF Durable!absVars, DurableP!absVars
<1>5. DurableP!SumOfCounters => Durable!SumOfCounters
  BY DEF DurableP!SumOfCounters, DurableP!AppliedTo, DurableP!Deltas,
         Durable!SumOfCounters, Durable!AppliedTo, Durable!Deltas
<1>6. QED
  BY <1>2, <1>3, <1>4, <1>5, PTL DEF Durable!AMSpec, DurableP!AMSpec

(* Without these a counter is the sum of all the updates that were written *)
(* to it, those of earlier starts included.                                *)
THEOREM CountersOutliveRestarts ==
    ServerSpec /\ [](CleanRuns /\ Raceless) => []Durable!SumOfCounters
BY RacelessServerIsAtomic, DurableSums, PTL
-----------------------------------------------------------------------------
\* Before the restore has ended nothing is saved but by an early tick.
RestInv ==
    phase \in {"down", "boot", "restoring"} /\ ~earlyTick =>
        \A s \in Savers : spc[s] \notin Active

LEMMA RestStep == SInv /\ ShapeInv /\ RestInv /\ [ServerNext]_serverVars => RestInv'
<1>. SUFFICES ASSUME SInv, ShapeInv, RestInv, [ServerNext]_serverVars PROVE RestInv'
  OBVIOUS
<1>a. FSInv
  BY DEF SInv, Inv
<1>1. CASE QuietStep
  <2>1. spc' = spc
    BY <1>1, QuietKeeps DEF vars, fsVars
  <2>2. /\ earlyTick' = earlyTick
        /\ phase' \in {"down", "boot", "restoring"} => phase \in {"down", "boot"}
    BY <1>1 DEF QuietStep, Start, LoadFile, Restored, Signal, Drain, Proceed
  <2>3. QED
    BY <2>1, <2>2 DEF RestInv
<1>2. ASSUME NEW k \in IDs, RestoreOne(k) PROVE RestInv'
  BY <1>2 DEF RestoreOne, RestInv, fsVars
<1>3. CASE Tick
  <2>1. phase' = phase /\ earlyTick' = (earlyTick \/ phase \in {"boot", "restoring"}) /\ phase # "down"
    BY <1>3 DEF Tick, Running
  <2>2. phase' \in {"down", "boot", "restoring"} => earlyTick'
    BY <2>1, Zenon
  <2>3. QED
    BY <2>2 DEF RestInv
<1>4. CASE FinalSave
  BY <1>4 DEF FinalSave, RestInv
<1>5. ASSUME NEW s \in Savers, Disk(s) PROVE RestInv'
  <2>1. SaveStep(s) /\ UNCHANGED runVars
    BY <1>5 DEF Disk, Save
  <2>2. \A t \in Savers : spc'[t] \in Active => spc[t] \in Active
    BY <1>a, <2>1, DiskEffect
  <2>3. QED
    BY <2>1, <2>2 DEF RestInv, runVars
<1>6. ASSUME NEW r \in Reqs, NEW in \in Inputs, Accept(r, in) PROVE RestInv'
  BY <1>6 DEF Accept, RestInv
<1>7. ASSUME NEW r \in Reqs, Serve(r) PROVE RestInv'
  BY <1>7, ServeFree DEF RestInv, runVars
<1>8. CASE Trail \/ UNCHANGED serverVars
  <2>1. UNCHANGED <<spc, phase, earlyTick>>
    BY <1>8 DEF Trail, Auditing, serverVars, vars, fsVars, runVars
  <2>2. QED
    BY <2>1 DEF RestInv
<1>9. CASE Exit \/ Crash
  <2>1. \A s \in Savers : spc'[s] \notin Active
    BY <1>9 DEF Exit, Crash, ProcessEnds, FSCrash, Active
  <2>2. QED
    BY <2>1 DEF RestInv
<1>10. QED
  BY RunKinds, <1>1, <1>2, <1>3, <1>4, <1>5, <1>6, <1>7, <1>8, <1>9

\* Unless saves overlapped there are metrics in the file, or none.
LEMMA LoadIsMetrics ==
    ASSUME SInv, ~overlap
    PROVE  ~Damaged /\ Load \in MetricMaps
<1>1. file \in MetricMaps \cup {Absent}
  BY DEF SInv, Inv, FSInv, FSTypeOK
<1>2. QED
  BY <1>1, FileAssumption, EmptyIsMetrics DEF Damaged, Load

\* The beginning of a save takes a checkpoint of what is served.
LEMMA BeginTakes ==
    ASSUME SInv, NEW s \in Savers, BeginSave(s, metrics), Served = metrics, Served' = metrics,
           Up, Up', req' = req
    PROVE  [Checkpointed!CMNext]_(Checkpointed!cmVars)
<1>1. /\ file' = file /\ ~Saving(s)
      /\ \A t \in Savers \ {s} : spc'[t] = spc[t] /\ snap'[t] = snap[t]
      /\ \/ spc'[s] = "open" /\ snap'[s] = metrics
         \/ spc'[s] = "refused" /\ snap'[s] = snap[s]
  BY BeginEffect DEF SInv, Inv, BeginSave
<1>2. Load' = Load
  BY <1>1 DEF Load
<1>3. CASE spc'[s] = "open" /\ snap'[s] = metrics
  <2>1. Taken' = Taken \cup {Served}
    BY <1>1, <1>3 DEF Taken, Saving, Active
  <2>2. QED
    BY <1>2, <2>1 DEF Checkpointed!CMNext, Checkpointed!Take
<1>4. CASE spc'[s] = "refused"
  <2>1. Taken' = Taken
    BY <1>1, <1>4 DEF Taken, Saving, Active
  <2>2. QED
    BY <1>2, <2>1 DEF Checkpointed!cmVars
<1>5. QED
  BY <1>1, <1>3, <1>4

\* A system call leaves what is saved alone, or is the last one of a save.
LEMMA DiskSettles ==
    ASSUME SInv, ~overlap, NEW s \in Savers, SaveStep(s), Served' = Served, Up, Up', req' = req
    PROVE  [Checkpointed!CMNext]_(Checkpointed!cmVars)
<1>a. FSInv /\ FSInv'
  BY FSInvStep DEF SInv, Inv
<1>1. /\ Saving(s) /\ ~overlap'
      /\ \A t \in Savers : spc'[t] \in Active => spc[t] \in Active /\ snap'[t] = snap[t]
      /\ \A t \in Savers \ {s} : spc'[t] = spc[t]
      /\ file' \in {file, snap[s]}
  BY <1>a, DiskEffect
<1>2. \A t \in Savers : Saving(t) => t = s
  BY <1>a, <1>1 DEF FSInv, Alone
<1>3. Taken = {snap[s]}
  BY <1>1, <1>2 DEF Taken
<1>4. CASE spc'[s] \in Active
  <2>1. lastSaved' = lastSaved
    BY <1>a, <1>4 DEF SaveStep, OpenTmp, WriteTmp, RenameTmp, SaveFails, FSInv, FSTypeOK, Active
  <2>2. file' = file
    BY <1>a, <1>1, <2>1 DEF FSInv
  <2>3. Taken' = {snap[s]}
    BY <1>1, <1>2, <1>4 DEF Taken, Saving
  <2>4. QED
    BY <1>3, <2>2, <2>3 DEF Load, Checkpointed!cmVars
<1>5. CASE spc'[s] \notin Active
  <2>1. Taken' = Taken \ {snap[s]}
    BY <1>1, <1>2, <1>3, <1>5 DEF Taken, Saving
  <2>2. snap[s] \in MetricMaps
    BY <1>a DEF FSInv, FSTypeOK
  <2>3. Load' \in {Load, snap[s]}
    BY <1>1, <2>2, FileAssumption DEF Load
  <2>4. Checkpointed!Settle(snap[s])
    BY <2>1, <2>3 DEF Checkpointed!Settle
  <2>5. QED
    BY <1>3, <2>4 DEF Checkpointed!CMNext
<1>6. QED
  BY <1>4, <1>5

\* The steps of Run by which the next process starts and restores.
Restoring == Start \/ Restored \/ Signal \/ Drain \/ \E k \in IDs : RestoreOne(k)

\* What is served stays the same while the next process starts and restores.
LEMMA RestoreServes ==
    ASSUME SInv, ShapeInv, Restore, HasFile, ~overlap, Restoring
    PROVE  Served' = Served /\ (Up' <=> Up)
<1>a. metrics \in MetricMaps /\ toLoad \in MetricMaps
  BY DEF SInv, RunTypeOK, Inv, TypeOK, ServiceTypeOK
<1>1. Start \/ Restored \/ Signal \/ Drain => metrics' = metrics /\ Load' = Load
  BY QuietKeeps DEF QuietStep, vars, serviceVars, fsVars, Load
<1>2. CASE Start
  BY <1>1, <1>2 DEF Start, Served, Up
<1>3. CASE Restored
  <2>1. phase = "restoring" /\ phase' = "serving" /\ \A k \in IDs : toLoad[k] = NULL
    BY <1>3 DEF Restored, Proceed, EmptyMap
  <2>2. [k \in IDs |-> IF toLoad[k] = NULL THEN metrics[k] ELSE toLoad[k]] = metrics
    BY <1>a, <2>1 DEF MetricMaps
  <2>3. QED
    BY <1>1, <1>3, <2>1, <2>2 DEF Served, Up
<1>4. CASE Signal \/ Drain
  <2>1. phase \in {"serving", "draining"} /\ phase' \in {"draining", "closing"}
    BY <1>4 DEF Signal, Drain, Proceed
  <2>2. QED
    BY <1>1, <1>4, <2>1 DEF Served, Up
<1>5. ASSUME NEW k \in IDs, RestoreOne(k) PROVE Served' = Served /\ (Up' <=> Up)
  <2>1. /\ phase = "restoring" /\ phase' = "restoring" /\ toLoad[k] # NULL
        /\ metrics' = [metrics EXCEPT ![k] = toLoad[k]]
        /\ toLoad' = [toLoad EXCEPT ![k] = NULL]
    BY <1>5 DEF RestoreOne
  <2>2. \A j \in IDs : (IF toLoad'[j] = NULL THEN metrics'[j] ELSE toLoad'[j])
                       = (IF toLoad[j] = NULL THEN metrics[j] ELSE toLoad[j])
    BY <1>a, <2>1 DEF MetricMaps
  <2>3. QED
    BY <2>1, <2>2 DEF Served, Up
<1>6. QED
  BY <1>2, <1>3, <1>4, <1>5 DEF Restoring

\* The next process begins with what is saved, or with nothing.
LEMMA LoadBegins ==
    ASSUME SInv, ShapeInv, ~overlap, LoadFile
    PROVE  Checkpointed!Begins
<1>1. /\ phase = "boot" /\ metrics = EmptyMap /\ Served = Load /\ Load \in MetricMaps
      /\ phase' \in {"serving", "restoring"}
  BY LoadIsMetrics DEF LoadFile, ShapeInv, Served
<1>2. UNCHANGED vars
  BY QuietKeeps DEF QuietStep
<1>3. metrics' = EmptyMap /\ Load' = Load /\ Taken' = Taken /\ req' = req
  BY <1>1, <1>2 DEF vars, serviceVars, reqVars, fsVars, Load, Taken, Saving
<1>4. Served' \in {Served, EmptyMap}
  <2>1. CASE phase' = "serving"
    BY <1>3, <2>1 DEF Served
  <2>2. CASE phase' = "restoring"
    <3>1. toLoad' = Load
      BY <2>2 DEF LoadFile
    <3>2. [k \in IDs |-> IF Load[k] = NULL THEN metrics'[k] ELSE Load[k]] = Load
      BY <1>1, <1>3 DEF MetricMaps, EmptyMap
    <3>3. QED
      BY <1>1, <2>2, <3>1, <3>2 DEF Served
  <2>3. QED
    BY <1>1, <2>1, <2>2
<1>5. ~Up /\ Up' = TRUE
  BY <1>1 DEF Up
<1>6. Checkpointed!EmptyMap = EmptyMap
  BY DEF Checkpointed!EmptyMap, EmptyMap
<1>7. QED
  BY <1>3, <1>4, <1>5, <1>6 DEF Checkpointed!Begins

\* A handler puts an item of its request, takes a checkpoint, or does neither.
LEMMA ServePuts ==
    ASSUME SInv, ShapeInv, Ordered, NEW r \in Reqs, Serve(r)
    PROVE  [Checkpointed!CMNext]_(Checkpointed!cmVars)
<1>1. phase \notin {"down", "boot", "restoring"} /\ phase' = phase /\ Handler(r) /\ Inv
  BY ServeFree DEF runVars, Serve, SInv
<1>2. Served = metrics /\ Served' = metrics' /\ Up /\ Up'
  BY <1>1 DEF Served, Up
<1>3. CASE Ends(r) \/ ReadCounter(r) \/ Finish(r)
  <2>1. Ends(r) => UNCHANGED <<metrics, req, fsVars>>
    BY <1>1, EndsReply DEF End
  <2>2. UNCHANGED <<metrics, req, fsVars>>
    BY <1>3, <2>1 DEF ReadCounter, Finish
  <2>3. QED
    BY <1>2, <2>2 DEF fsVars, Checkpointed!cmVars, Load, Taken, Saving
<1>4. CASE WriteCounter(r) \/ WriteGauge(r)
  <2>1. Valid(Item(r)) /\ idx[r] \in Atomic!Wanted(r) /\ Item(r) = req[r].items[idx[r]]
    BY <1>1, <1>4, WrittenMetric, WritesNext DEF Item
  <2>2. idx[r] \in Checkpointed!Wanted(r)
    <3>1. Checkpointed!Valid(Item(r))
      BY <2>1 DEF Checkpointed!Valid, Valid
    <3>2. QED
      BY <2>1, <3>1 DEF Checkpointed!Wanted, Atomic!Wanted
  <2>3. PICK d \in Deltas \cup {NULL} : /\ Item(r).mtype = "counter" => d # NULL
                                        /\ Store(r, Stored(Item(r), d))
                                        /\ Item(r).mtype = "gauge" => d = Item(r).delta
    <3>1. CASE WriteCounter(r)
      <4>1. Item(r).mtype = "counter"
        BY <1>1, <3>1 DEF Inv, RequestOK, WriteCounter, At
      <4>2. PICK d \in Deltas \cup {NULL} : /\ Item(r).mtype = "counter" => d # NULL
                                            /\ Store(r, Stored(Item(r), d))
        BY <1>1, <3>1, WrittenMetric
      <4>3. QED
        BY <4>1, <4>2
    <3>2. CASE WriteGauge(r)
      <4>1. pc[r] \in {"item", "write"} /\ req[r].items # NULL /\ req[r].items # <<>>
        BY <1>1, <3>2, WrittenMetric
      <4>2. Item(r).delta \in Deltas \cup {NULL}
        BY <1>1, <4>1, ItemIsItem DEF Items, Deltas
      <4>3. QED
        BY <3>2, <4>2 DEF WriteGauge
    <3>3. QED
      BY <1>4, <3>1, <3>2
  <2>4. d \in IF Item(r).mtype = "counter" THEN Checkpointed!Deltas ELSE {Item(r).delta}
    BY <2>1, <2>3 DEF Valid, Checkpointed!Deltas, Deltas
  <2>5. /\ Load' = Load /\ Taken' = Taken /\ req' = req
        /\ metrics' = [metrics EXCEPT ![Item(r).id] = Checkpointed!Stored(Item(r), d)]
    BY <2>3 DEF Store, fsVars, Load, Taken, Saving, Stored, Checkpointed!Stored
  <2>6. Checkpointed!Put(req[r].items[idx[r]])
    BY <1>2, <2>1, <2>4, <2>5 DEF Checkpointed!Put
  <2>7. QED
    BY <2>2, <2>6 DEF Checkpointed!CMNext
<1>5. CASE BeginSync(r)
  <2>1. BeginSave(r, metrics) /\ UNCHANGED <<metrics, req>> /\ r \in Savers
    BY <1>5, ServiceAssumption DEF BeginSync
  <2>2. QED
    BY <1>2, <2>1, BeginTakes
<1>6. QED
  BY <1>1, <1>3, <1>4, <1>5 DEF Handler, Ends

LEMMA CheckpointStep ==
    ASSUME SInv, ShapeInv, RestInv, Ordered, [ServerNext]_serverVars,
           Restore, HasFile, ~overlap', ~earlyTick'
    PROVE  [Checkpointed!CMNext]_(Checkpointed!cmVars)
<1>a. FSInv /\ Main \in Savers /\ Ticker \in Savers
  BY ServerAssumption DEF SInv, Inv
<1>b. /\ phase \notin {"down", "boot", "restoring"} => Served = metrics /\ Up
      /\ phase' \notin {"down", "boot", "restoring"} => Served' = metrics' /\ Up'
  BY DEF Served, Up
<1>c. UNCHANGED <<fsVars, req, Served>> /\ (Up' <=> Up) => UNCHANGED Checkpointed!cmVars
  BY DEF fsVars, Checkpointed!cmVars, Load, Taken, Saving, Up
<1>1. CASE Restoring
  <2>1. UNCHANGED <<fsVars, req>>
    BY <1>1, QuietKeeps DEF Restoring, QuietStep, vars, serviceVars, reqVars, RestoreOne
  <2>2. ~overlap
    BY <2>1 DEF fsVars
  <2>3. QED
    BY <1>1, <1>c, <2>1, <2>2, RestoreServes
<1>2. CASE LoadFile
  <2>1. ~overlap
    BY <1>2, QuietKeeps DEF QuietStep, vars, fsVars
  <2>2. QED
    BY <1>2, <2>1, LoadBegins DEF Checkpointed!CMNext
<1>3. CASE Tick
  <2>1. /\ BeginSave(Ticker, metrics) /\ UNCHANGED <<metrics, req, phase>> /\ phase # "down"
        /\ earlyTick' = (earlyTick \/ phase \in {"boot", "restoring"})
    BY <1>3 DEF Tick, Running, serviceVars, reqVars
  <2>2. phase \notin {"boot", "restoring"}
    BY <2>1, Zenon
  <2>3. QED
    BY <1>a, <1>b, <2>1, <2>2, BeginTakes
<1>4. CASE FinalSave
  <2>1. /\ BeginSave(Main, metrics) /\ UNCHANGED <<metrics, req>>
        /\ phase = "closing" /\ phase' = "finalsave"
    BY <1>4 DEF FinalSave, serviceVars, reqVars
  <2>2. QED
    BY <1>a, <1>b, <2>1, BeginTakes
<1>5. ASSUME NEW r \in Reqs, NEW in \in Inputs, Accept(r, in)
      PROVE  Checkpointed!CMNext
  <2>1. /\ UNCHANGED <<fsVars, metrics, phase>> /\ phase = "serving"
        /\ req' = [req EXCEPT ![r] = in] /\ pc[r] = "new"
    BY <1>5 DEF Accept, Arrive, At
  <2>2. req[r] = NULL /\ Taken' = Taken /\ Load' = Load
    BY <2>1 DEF Ordered, fsVars, Taken, Saving, Load
  <2>3. Checkpointed!Ask(r, in)
    BY <1>b, <2>1, <2>2 DEF Checkpointed!Ask
  <2>4. QED
    BY <2>3 DEF Checkpointed!CMNext
<1>6. ASSUME NEW r \in Reqs, Serve(r) PROVE [Checkpointed!CMNext]_(Checkpointed!cmVars)
  BY <1>6, ServePuts
<1>7. ASSUME NEW s \in Savers, Disk(s) PROVE [Checkpointed!CMNext]_(Checkpointed!cmVars)
  <2>1. SaveStep(s) /\ UNCHANGED <<metrics, req, phase, earlyTick>>
    BY <1>7 DEF Disk, Save, serviceVars, reqVars, runVars
  <2>2. Saving(s) /\ ~overlap
    BY <1>a, <2>1, DiskEffect
  <2>3. phase \notin {"down", "boot", "restoring"}
    BY <2>1, <2>2 DEF RestInv, Saving
  <2>4. QED
    BY <1>b, <2>1, <2>2, <2>3, DiskSettles
<1>8. CASE Trail \/ UNCHANGED serverVars
  <2>1. UNCHANGED <<fsVars, metrics, req, runVars>>
    BY <1>8 DEF Trail, Auditing, serviceVars, reqVars, serverVars, vars
  <2>2. Served' = Served /\ (Up' <=> Up)
    BY <2>1 DEF Served, Up, runVars, fsVars, Load
  <2>3. QED
    BY <1>c, <2>1, <2>2
<1>9. CASE Exit \/ Crash
  <2>1. phase' = "down" /\ UNCHANGED <<file, req>> /\ \A s \in Savers : spc'[s] = "idle"
    BY <1>9 DEF Exit, Crash, ProcessEnds, FSCrash
  <2>2. Served' = Load /\ Load' = Load /\ Taken' = {} /\ Up' = FALSE
    BY <2>1 DEF Served, Load, Taken, Saving, Active, Up
  <2>3. Checkpointed!Ends
    BY <2>1, <2>2 DEF Checkpointed!Ends
  <2>4. QED
    BY <2>3 DEF Checkpointed!CMNext
<1>10. QED
  BY RunKinds, <1>1, <1>2, <1>3, <1>4, <1>5, <1>6, <1>7, <1>8, <1>9 DEF QuietStep, Restoring

LEMMA CheckpointInvariant == ServerSpec => [](SInv /\ ShapeInv /\ RestInv /\ Ordered)
<1>1. ASSUME ServerInit PROVE RestInv
  <2>1. \A s \in Savers : spc[s] = "idle"
    BY <1>1 DEF ServerInit, Init, FSInit
  <2>2. QED
    BY <2>1 DEF RestInv, Active
<1>2. QED
  BY CalmInvariant, <1>1, RestStep, PTL DEF ServerSpec

(* For any requests, savers, kills and disk errors: the end of a process   *)
(* takes the metrics back to the last save that succeeded, whole, or the   *)
(* next one begins with none because it cannot read that save; in between  *)
(* only items that were asked for change them, each under its own name.    *)
THEOREM KillsRevertToSave == ServerSpec => KillsRevert
<1>1. SInv /\ ShapeInv /\ RestInv /\ Ordered /\ [ServerNext]_serverVars
      => [Restore /\ HasFile /\ ~overlap' /\ ~earlyTick'
             => [Checkpointed!CMNext]_(Checkpointed!cmVars)]_serverVars
  BY CheckpointStep
<1>2. QED
  BY CheckpointInvariant, <1>1, PTL DEF ServerSpec, KillsRevert

(* So a server with a file that it restores is a checkpointed store, from  *)
(* its first start on, in every behaviour without an overlap of saves and  *)
(* a tick before the end of a restore, reads that fail included.           *)
THEOREM ServerIsCheckpointed ==
    ASSUME Restore, HasFile
    PROVE  ServerSpec /\ [](~overlap /\ ~earlyTick) => Checkpointed!CMSpec
<1>1. ServerInit => Checkpointed!CMInit
  <2> SUFFICES ASSUME ServerInit PROVE Checkpointed!CMInit
    OBVIOUS
  <2>1. /\ phase = "down" /\ file = Absent /\ \A s \in Savers : spc[s] = "idle"
        /\ req = [r \in Reqs |-> NULL]
    BY DEF ServerInit, Init, ServiceInit, FSInit
  <2>2. Load = EmptyMap /\ Served = Load /\ Taken = {} /\ Up = FALSE
    BY <2>1 DEF Load, Served, Taken, Saving, Active, Up
  <2>3. QED
    BY <2>1, <2>2 DEF Checkpointed!CMInit, EmptyMap, Checkpointed!EmptyMap
<1>2. /\ SInv /\ ShapeInv /\ RestInv /\ Ordered /\ [ServerNext]_serverVars
      => ((~overlap /\ ~earlyTick)' => [Checkpointed!CMNext]_(Checkpointed!cmVars))
  BY CheckpointStep
<1>3. QED
  BY CheckpointInvariant, <1>1, <1>2, PTL DEF ServerSpec, Checkpointed!CMSpec
=============================================================================
