------------------------------- MODULE Server -------------------------------
(***************************************************************************)
(* The life of the server process (Run in internal/server/server.go): it   *)
(* starts the periodic save, restores the metrics from the file, serves    *)
(* requests (MetricsService), and on a signal drains them, saves once more *)
(* and exits.  It can also be killed at any point; what is in memory is    *)
(* then gone and the files stay.                                           *)
(***************************************************************************)
EXTENDS MetricsService

CONSTANTS
    Ticker, Main,      \* the savers of startPeriodicSave and of Run
    Restore,           \* the option of that name
    DrainMayTimeOut,   \* whether handlers may outlast Shutdown's 10 seconds
    MaxStarts          \* bound: starts of the process

ASSUME ServerAssumption ==
    /\ Savers = Reqs \cup {Ticker, Main}
    /\ Ticker # Main /\ Ticker \notin Reqs /\ Main \notin Reqs
    /\ Restore \in BOOLEAN
    /\ DrainMayTimeOut \in BOOLEAN
    /\ MaxStarts \in Nat

VARIABLES
    phase,       \* where Run is
    toLoad,      \* what LoadMetrics read and has not stored yet
    drained,     \* Shutdown returned with every handler finished
    starts,
    kept,        \* history: the metrics at the last exit that logged "saved
                 \* successfully" with no handler running; NULL once a request
                 \* has arrived since, or a start did not restore
    earlyTick,   \* history: since the last exit a periodic save began before
                 \* the restore had ended
    unread       \* history: since the last exit a start could not read the file

runVars == <<phase, toLoad, drained, starts, kept, earlyTick, unread>>
serverVars == <<vars, runVars>>

Phases == {"down", "boot", "restoring", "serving", "draining", "closing", "finalsave"}

ServerTypeOK ==
    /\ TypeOK
    /\ phase \in Phases
    /\ toLoad \in MetricMaps
    /\ drained \in BOOLEAN
    /\ starts \in 0 .. MaxStarts
    /\ kept \in MetricMaps \cup {NULL}
    /\ earlyTick \in BOOLEAN
    /\ unread \in BOOLEAN

ServerInit ==
    /\ Init
    /\ phase = "down"
    /\ toLoad = EmptyMap
    /\ drained = FALSE
    /\ starts = 0
    /\ kept = NULL
    /\ earlyTick = FALSE
    /\ unread = FALSE

-----------------------------------------------------------------------------
Running == phase # "down"

\* From one phase of Run to the next, which changes nothing else.
Proceed(from, to) ==
    /\ phase = from
    /\ phase' = to
    /\ UNCHANGED <<vars, toLoad, drained, starts, kept, earlyTick, unread>>

\* The goroutine of the periodic save runs from here on; then LoadMetrics.
Start ==
    /\ phase = "down"
    /\ starts < MaxStarts
    /\ starts' = starts + 1
    /\ phase' = IF Restore /\ HasFile THEN "boot" ELSE "serving"
    /\ drained' = FALSE
    /\ kept' = IF Restore THEN kept ELSE NULL
    /\ UNCHANGED <<vars, toLoad, earlyTick, unread>>

\* LoadMetrics reads the file.  Run only logs its error and serves what there
\* is, nothing: the next save replaces the file.
LoadFile ==
    /\ phase = "boot"
    /\ \/ /\ LoadFails
          /\ phase' = "serving"
          /\ unread' = TRUE
          /\ UNCHANGED toLoad
       \/ /\ ~Damaged
          /\ phase' = "restoring"
          /\ toLoad' = Load
          /\ UNCHANGED unread
    /\ UNCHANGED <<vars, drained, starts, kept, earlyTick>>

RestoreOneMutant(k) ==
    /\ phase = "restoring"
    /\ toLoad[k] # NULL
    /\ metrics' = [j \in IDs |-> IF j = k THEN toLoad[k] ELSE NULL]
    /\ toLoad' = [toLoad EXCEPT ![k] = NULL]
    /\ UNCHANGED <<reqVars, given, wrote, fsVars, auditVars>>
    /\ UNCHANGED <<phase, drained, starts, kept, earlyTick, unread>>

\* One SetMetric of the restore.
RestoreOne(k) ==
    /\ phase = "restoring"
    /\ toLoad[k] # NULL
    /\ metrics' = [metrics EXCEPT ![k] = toLoad[k]]
    /\ toLoad' = [toLoad EXCEPT ![k] = NULL]
    /\ UNCHANGED <<reqVars, given, wrote, fsVars, auditVars>>
    /\ UNCHANGED <<phase, drained, starts, kept, earlyTick, unread>>

Restored == toLoad = EmptyMap /\ Proceed("restoring", "serving")

TickMutant ==
    /\ phase = "draining"
    /\ StoreInterval > 0 /\ HasFile
    /\ BeginSave(Ticker, metrics)
    /\ earlyTick' = (earlyTick \/ phase \in {"boot", "restoring"})
    /\ UNCHANGED <<serviceVars, auditVars, phase, toLoad, drained, starts, kept, unread>>

\* A tick of startPeriodicSave, at any time the process runs.
Tick ==
    /\ Running
    /\ StoreInterval > 0 /\ HasFile
    /\ BeginSave(Ticker, metrics)
    /\ earlyTick' = (earlyTick \/ phase \in {"boot", "restoring"})
    /\ UNCHANGED <<serviceVars, auditVars, phase, toLoad, drained, starts, kept, unread>>

\* New requests are accepted until the signal; those in flight go on.
Accept(r, in) ==
    /\ phase = "serving"
    /\ Arrive(r, in)
    /\ kept' = NULL
    /\ UNCHANGED <<phase, toLoad, drained, starts, earlyTick, unread>>

Serve(r) == Running /\ Handler(r) /\ UNCHANGED runVars
Disk(s)  == Running /\ Save(s) /\ UNCHANGED runVars
Trail    == Running /\ Auditing /\ UNCHANGED runVars

Signal == Proceed("serving", "draining")

\* server.Shutdown returns: all handlers have finished, or its context expired.
Drain ==
    /\ phase = "draining"
    /\ InFlight = {} \/ DrainMayTimeOut
    /\ phase' = "closing"
    /\ drained' = (InFlight = {})
    /\ UNCHANGED <<vars, toLoad, starts, kept, earlyTick, unread>>

FinalSaveMutant ==
    /\ phase = "closing"
    /\ HasFile
    /\ BeginSave(Main, EmptyMap)
    /\ phase' = "finalsave"
    /\ UNCHANGED <<serviceVars, auditVars, toLoad, drained, starts, kept, earlyTick, unread>>

FinalSave ==
    /\ phase = "closing"
    /\ HasFile
    /\ BeginSave(Main, metrics)
    /\ phase' = "finalsave"
    /\ UNCHANGED <<serviceVars, auditVars, toLoad, drained, starts, kept, earlyTick, unread>>

\* The process ends: its memory and its goroutines are gone, the files stay.
ProcessEnds ==
    /\ phase' = "down"
    /\ metrics' = EmptyMap
    /\ toLoad' = EmptyMap
    /\ pc' = [r \in Reqs |-> IF At(r, "new") THEN "new" ELSE "done"]
    /\ seen' = [r \in Reqs |-> NULL]
    /\ FSCrash
    /\ AuditKilled
    /\ UNCHANGED <<req, idx, status, given, wrote, drained, starts>>

ExitMutant ==
    /\ phase = "finalsave" /\ spc[Main] = "saved" /\ drained
    /\ kept' = metrics
    /\ earlyTick' = FALSE
    /\ unread' = FALSE
    /\ ProcessEnds

Exit ==
    /\ \/ phase = "closing" /\ ~HasFile
       \/ phase = "finalsave" /\ ~Saving(Main)
    /\ kept' = IF HasFile /\ spc[Main] = "saved" /\ drained THEN metrics ELSE NULL
    /\ earlyTick' = FALSE
    /\ unread' = FALSE
    /\ ProcessEnds

\* Killed, or a return of Run before the final save (a bad key, no port).
Crash == Running /\ ProcessEnds /\ UNCHANGED <<kept, earlyTick, unread>>

Off ==
    /\ phase = "down" /\ starts = MaxStarts
    /\ UNCHANGED serverVars

-----------------------------------------------------------------------------
ServerNext ==
    \/ Start \/ LoadFile \/ (\E k \in IDs : RestoreOne(k)) \/ Restored
    \/ Tick
    \/ \E r \in Reqs : (\E in \in Inputs : Accept(r, in)) \/ Serve(r)
    \/ \E s \in Savers : Disk(s)
    \/ Trail
    \/ Signal \/ Drain \/ FinalSave \/ Exit
    \/ Crash
    \/ Off

ServerSpec == ServerInit /\ [][ServerNext]_serverVars

\* Run and every goroutine it started go on; signals, kills, restarts and
\* requests come or do not.
ServerFairness ==
    /\ WF_serverVars(LoadFile) /\ WF_serverVars(\E k \in IDs : RestoreOne(k))
    /\ WF_serverVars(Restored) /\ WF_serverVars(Tick)
    /\ \A r \in Reqs : WF_serverVars(Serve(r))
    /\ \A s \in Savers : WF_serverVars(Disk(s))
    /\ WF_serverVars(Drain) /\ WF_serverVars(FinalSave) /\ WF_serverVars(Exit)

FairServerSpec == ServerSpec /\ ServerFairness

-----------------------------------------------------------------------------
\* m holds under k what the last clean stop kept there.  A tick before the
\* restore has ended, or a start that cannot read the file, may drop a name;
\* neither ever changes one.
AsKept(m, k) == m[k] = kept[k] \/ ((earlyTick \/ unread) /\ m[k] = NULL)

(* A clean stop loses nothing: when Run logged "Metrics saved successfully  *)
(* on shutdown" and no handler outlived the drain, the file holds exactly  *)
(* the metrics that were stored, unless two saves overlapped.  Kills in a  *)
(* later start leave it so; a tick during that start's restore, or a save  *)
(* after that start failed to read the file, may replace it by a part of   *)
(* it, never by anything else.                                             *)
StopKeeps ==
    phase = "down" /\ kept # NULL /\ ~overlap =>
        ~Damaged /\ \A k \in IDs : AsKept(Load, k)

(* A start with Restore brings back what the last clean stop saved, also   *)
(* after kills during or after the restore, until a request arrives; names *)
(* are missing only when a tick fell into a restore or a start could not   *)
(* read the file, which Run logs and then serves an empty map.             *)
RestartBringsBack ==
    Restore /\ phase = "serving" /\ kept # NULL /\ ~overlap =>
        \A k \in IDs : AsKept(metrics, k)

(* Neither a restore nor a kill between any two steps counts an update     *)
(* twice: with non-negative deltas what is stored, being restored or in    *)
(* the file never exceeds the sum of what the clients sent.                *)
CountedOnce ==
    NonNegative => \A k \in IDs : given[k] < HalfRange =>
        \A m \in {metrics[k], toLoad[k]} \cup (IF Damaged THEN {} ELSE {Load[k]}) :
            m # NULL /\ m.delta # NULL => m.delta \in 0 .. given[k]

\* What a client may count on: what is stored, or will be when the process is
\* up again.
Lasting == IF kept = NULL THEN metrics ELSE kept

Durable == INSTANCE AtomicMetrics
           WITH store <- Lasting, asked <- req, applied <- wrote, total <- given

\* Nothing is there yet to restore.
FirstStart == starts = 0 \/ (starts = 1 /\ Running)

\* No two saves overlapped, no tick fell into a restore, every start could read
\* the file, and what is restored is from a stop that saved.
CleanRuns ==
    /\ Restore /\ ~overlap /\ ~earlyTick /\ ~unread
    /\ phase \in {"down", "boot", "restoring"} => kept # NULL \/ FirstStart

\* None of what may lose an update has happened.
Calm == CleanRuns /\ Undisturbed

(* Stops, kills and restarts are invisible: from one calm state to the     *)
(* next the server takes a step of the service that keeps its metrics for  *)
(* ever and applies each item of a request at one instant, or none.        *)
RestartsInvisible == [][Calm /\ Calm' => [Durable!AMNext]_(Durable!absVars)]_serverVars

\* Run has read the file and the metrics may be served.
Up == phase \notin {"down", "boot"}

\* The metrics as the clients see them, or will when the process is up again.
Served ==
    CASE phase \in {"down", "boot"} -> Load
      [] phase = "restoring" -> [k \in IDs |-> IF toLoad[k] = NULL THEN metrics[k] ELSE toLoad[k]]
      [] OTHER -> metrics

\* The checkpoints on their way to the file.
Taken == {snap[s] : s \in {t \in Savers : Saving(t)}}

Checkpointed == INSTANCE CheckpointedMetrics
                WITH up <- Up, asked <- req, store <- Served, taken <- Taken,
                     saved <- Load

(* Whenever the process ends, by a stop or a kill at any step of a request *)
(* or of a save or restore, the metrics are back as the last successful    *)
(* save found them, all of them at one time, or all of them are gone since *)
(* the file cannot be read; nothing else changes what is served but the    *)
(* items that clients asked for.  Overlapping saves and ticks that begin   *)
(* before the restore has ended break this promise.                        *)
KillsRevert ==
    [][Restore /\ HasFile /\ ~overlap' /\ ~earlyTick'
          => [Checkpointed!CMNext]_(Checkpointed!cmVars)]_serverVars

(* The periodic save keeps up: while the server goes on serving, what is   *)
(* stored gets into the file.                                              *)
PeriodicallySaved == phase = "serving" ~> (file = metrics \/ phase # "serving")

(* A signal ends the process, whatever handlers and saves are under way.   *)
ShutdownCompletes == phase = "draining" ~> phase = "down"
=============================================================================
