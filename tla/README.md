# A verification project for observy

observy is a metrics system in Go. An **agent** samples the machine it runs on and posts
gauges and counters over HTTP to a **server**, which keeps the latest gauge and the sum of
the counters under each name, saves them to a file (or in Postgres), and tells an audit log
who changed what. This directory holds TLA+ models of both programs, the TLC runs that check
them on small instances, and TLAPS proofs of the results that hold for every instance. Paths
below are relative to the repository.

How to run, from this directory:

    tlc -workers 4 -config MCServer.cfg MCServer      # any pair listed under "Runs"
    tlapm ServerProofs.tla                            # any of the *Proofs modules

`PROJECT.json` maps every definition to the lines it models, lists the runs, the mutations
each property is known to detect, the hazards, the findings and the theorems.

## 1. Inventory

| Component (code) | State | Operations | Talks to | What is hard, and what correct means |
|---|---|---|---|---|
| Metric model and arithmetic (`internal/model`, `internal/service`) | none | validate an update, add an int64 delta, replace a gauge | storages, JSON | nil payload pointers, JSON bodies that carry both payloads, wrap-around. A stored metric has the payload of its type |
| In-memory storages (`internal/repository/memstorage.go`, `filestorage.go`) | a map under a RWMutex | SetMetric, GetMetric, GetAllMetrics | called by the service | each call is atomic, a sequence of calls is not |
| Saved file (`filestorage.go:26-59`) | the target and one temporary name | SaveMetrics (encode, open, write, rename), LoadMetrics | requests, ticker, final save, restore | overlapping saves share the temporary name; crash or disk error between system calls. The file is always one complete save, the last one that succeeded; a start may fail to read it |
| Metrics service and handlers (`internal/service/metrics.go`, `internal/handler`) | the storage, one goroutine per request | three updates (URL, JSON, batch), three queries, SaveToFile | storage, saved file, audit | read-modify-write in two storage calls, batches that stop half-way, saves that fail after the write. No increment counts twice; the answer tells what was written |
| Audit (`internal/audit`) | goroutines, file, remote log | Notify, FileSub.Send, HTTPSub.Send | service | fire-and-forget goroutines that use a context which ends with the request. One event per written item and subscriber |
| Server life cycle (`internal/server/server.go`) | where Run is, ticker goroutine | start, restore, tick, signal, drain, final save, exit, kill | all of the above | the ticker runs during restore and shutdown; handlers may outlast the drain. A clean stop loses nothing, a restart brings it back |
| Middleware chain (`pkg/middleware`) | the request and its answer | gunzip, subnet, decrypt, verify and sign, compress | handlers, agent | five transformations that must mirror the sender's. What reaches an update handler is covered by the sender's hash |
| Agent (`cmd/agent/main.go`, `internal/agent`) | a bounded channel, workers, producers | collect, enqueue, send by metric, send as batch, retry, shut down | server | a full channel, retries after an unknown outcome, a channel closed under its senders. Unless it panics, no sample is lost inside the agent; it ends after a signal |
| Retry (`pkg/helpers/retry` as used by the sender) | attempt number | WithBackoff | sender, Postgres | a retry of what was already done |
| Postgres storage (`repository/postgresstorage.go`, `pkg/helpers/pg`) | a table | upsert with retries, selects without | service | an upsert that was executed and reported as failed runs again, or runs after its connection was lost; Restore writes the file over newer rows. No increment counts twice; an answer of 200 means that every item was executed |
| Configuration (`internal/config`) | none | flags, environment, JSON file, validation | both programs | which of three sources wins, what is refused. What the JSON file gives is used when nothing else gives it |
| Key loading (`internal/crypto/keys.go`) | none | which PEM blocks are accepted | configuration, middleware, sender | both programs read one variable and want different keys |
| Migrations, object pool, generator, linter, logger, build info | none that the system depends on | | | not modelled, see section 8 |

The interactions that matter are of four kinds. Goroutines of one process share memory: requests
share the map, requests, ticker and `Run` share the two file names, producers and workers share
the channel. Processes share the network: agent and server agree on bodies and hashes only
through headers. A process shares the disk with its own next start. And `Notify` leaves
goroutines behind that nobody waits for.

## 2. Modules

    Metrics ── FileStorage ──┐
       │         Audit ──────┴── MetricsService ── Server
       ├── AtomicMetrics (abstract) ◄── implemented by MetricsService, Server and PostgresServer
       ├── CheckpointedMetrics (abstract) ◄── implemented by Server
       └── PostgresServer
    Config ── RequestPipeline          Agent

    MetricsProofs ◄── FileStorageProofs ◄── MetricsServiceProofs ◄── ServerProofs
      ▲   ▲
      │   └── AtomicMetricsProofs
      └── PostgresServerProofs      RequestPipelineProofs      AgentProofs

An arrow leads from a proof module to the one it extends. The proof modules of the three implementations instantiate
AtomicMetricsProofs with their refinement mappings.

- **Metrics**: the metric record (type, delta or NULL, value or NULL), int64 addition with width
  `HalfRange` in the place of 2^63, `Valid` (the checks before a storage is touched), `Base` (what a
  counter update adds to, NULL where the code says "existing counter has nil delta"). A payload is a
  model value; `Unencodable` are NaN and the infinities, which the URL form accepts and JSON cannot
  express. A storage and a file have the same type, `MetricMaps`.
- **FileStorage**: `SaveMetrics` system call by system call: `BeginSave` (snapshot and encoding),
  `OpenTmp` (create or truncate), `WriteTmp`, `RenameTmp`, `SaveFails` (any of them returns an error, a
  write perhaps after a part of its data), `FSCrash`. `fd` follows a file that is renamed while open, so
  a saver may find its file under the target name or nowhere. `LoadFails` and `Load` are `LoadMetrics`: a file
  that is no JSON (`Damaged`) cannot be loaded, nor any file when the disk may fail.
- **Audit**: one task per event and subscriber; `Deliver`, and `Drop` when the log fails or, for the
  HTTP subscriber, when the request's context has ended.
- **MetricsService**: each request is a process. `Arrive` is the router, then one action per
  storage call or answer: `ReadCounter` and `WriteCounter` are the two halves of a counter update, with
  other requests in between; `WriteGauge`; `RejectItem` and `RefuseCounter` end a request with what it
  wrote before; `Finish`, `BeginSync`, `NoFileToSync` and `EndSync` are what follows the last item. The
  storing of an item, its audit event and the step to the next item are one action (`Store`), as nothing
  in between reads or writes what others share.
- **AtomicMetrics**: the abstract specification: each item of a request is applied at one instant, at most once, and after
  the items before it. `total` sums what was applied under each name, and `SumOfCounters` is what such a service owes its clients.
  Three modules are mapped to it. In MetricsService the store is the map of metrics, and an item is applied when it is
  written. In Server it is `Lasting`: the metrics, or, between a clean stop and the end of the next restore, what the stop
  kept; so a restart is no step at all. In PostgresServer (`Table`) it is the rows, and an item is applied when its upsert is executed for the
  first time.
- **CheckpointedMetrics**: the abstract specification of a server with a file: a map that now and then takes a checkpoint of itself,
  whose checkpoints are saved later or given up, and which reverts to the last saved one when its process ends, or to the empty map when the next one cannot read it. In Server the map is `Served`
  (the file until it has been read, then each name that is still to be restored as it was read, then the metrics), the checkpoints are `Taken`, the
  snapshots of the saves under way, and what is saved is the file. So the four steps of a save, and a restore name by name, are one step or none.
- **Server**: extends MetricsService with `Run`: `Start`, `LoadFile`, which may fail and is then only logged (the server goes on empty, and the next
  save replaces the file), `RestoreOne` for one name at a time, `Tick`, `Signal`, `Drain`, `FinalSave`, `Exit` and `Crash`, around the handlers, the
  saves and the audit goroutines. The model covers the two in-memory storages, which behave alike.
  A request has its process only once: a kill ends those in flight.
- **Agent**: `poll` and `system` are the two producers, `CollectCPUData` fills `cpuData`.
  A sample is known by its producer, number and size. A POST by a worker has one of six outcomes;
  the server part of it (`AtServer`) may happen, not happen, or happen after the agent gave up (`late`).
  `Cancel`, `Close` and `Exit` are main's shutdown.
- **PostgresServer**: the update handlers over a table whose rows outlive the process, and Run around them.
  Each handler is a call of its own; a select (`SelectCounter`) is one step, and an upsert is pending from the step that
  prepares it until `Exec` ends it with a success, an error that is retried, or one that is not. An error need not mean that the
  database did nothing: `Lose` leaves the statement in `late`, where `ExecuteLate` may still run it, after the answer or the
  end of the process. `RetriableCodes` are those of `ClassifyPgError`; they decide what is run again. The
  goroutine of Run restores with the same upserts, or nothing when it cannot read the file. The steps of a save are the subject of FileStorage; a save is one step here, and the final one fails
  when Shutdown used up the context both share (`expired`).
- **Config**: what both programs make of flags, environment and JSON file, in the order of the assignments in `NewServerConfig` and
  `NewAgentConfig`, what their validation refuses, and which PEM block each loads. A text is a member of a small set (unset, 0, malformed, negative, set).
- **RequestPipeline**: the server and the agent are started from any of the given sources, then one POST goes through the chain in the order of the `router.Use` calls. A body is the sequence of encodings around its JSON, a hash is a
  record of its key and the bytes it covers, so that a hash of the compressed bytes and one of the
  plain bytes are different things. Whether the handler accepts what it decodes is the business of MetricsService: here it answers "ok" or "refused".
- **MC\*** modules hold the inputs of the runs and the symmetry sets.

History variables (never read by a guard): `given`, `wrote`, `overlap`, `lastSaved`, `kept`,
`earlyTick`, `unread`, `finished`, `failed`, `handled`, `total`, and in PostgresServer `before`, `writer`, `stale`. Definitions whose names end in `Mutant` (and
`AddTwice`, `AddUnbounded`, `NotifyAlways`) are plausible bugs; no specification uses them. Each
property in `PROJECT.json` names the one that breaks it.

## 3. Runs

| Run | Config of module | Question | Result |
|---|---|---|---|
| service | MCService of MCMetricsService | two requests of every kind on one name that changes its type, StoreInterval 0, a disk that may fail, a NaN, both audit subscribers, fairness | holds: types, no nil payload is stored or met by a query, no increment counts twice, an answer tells what was written, a valid counter is refused only after a gauge, one audit event per written item, with no overlap and only successful JSON updates the file is what is stored; every request is answered and every written item gets its audit line; a step is one item applied once unless two requests raced for a counter |
| service_serial | MCServiceSerial of MCMetricsService | one request at a time, two names, batches | refines AtomicMetrics; counters are the sums of their updates; a JSON update whose save panics is stored and not answered 200 |
| server_life | MCServer of MCServer | two starts, kills anywhere, ticks, a disk that fails to write or to be read, a drain that may time out | holds: a stop keeps everything, a restart that can read the file brings it back, nothing counts twice, the file is the last successful save, restarts cannot be told from a service that goes on, a kill at any step takes the metrics back to the last save, whole, or to none when it cannot be read |
| server_live | MCServerLive of MCServer | fairness, a disk that works | holds: the periodic save keeps up, a signal ends the process |
| postgres | MCPostgresServer of MCPostgresServer | two requests, a batch among them, a stop, a kill and a restart, retriable and other errors, connections lost before or after the statement runs | holds: repeated and late upserts count once, an answer tells what was executed, no retry overwrites what came after its answer, a restart after a stop that saved changes no row, failures cannot be told from updates applied once |
| pipeline | MCRequestPipeline of MCRequestPipeline | both programs started from 47 and 28 combinations of flags, files and environment; the agent and other clients | holds: verified bodies, verifiable answers, what an agent with fitting options sends (without encryption) reaches the handler as JSON |
| agent | MCAgent of MCAgent | two workers, every outcome of a POST, a signal at any time | holds: nothing left behind unless the agent panics, the channel is drained by a return of main, PollCount counted exactly twice without failures and within bounds with them |
| agent_one_worker | MCAgentOneWorker of MCAgent | RateLimit 1 with retries, fairness | holds: gauges stay in order, the agent ends after a signal |
| lost_update | MCLostUpdate of MCPostgresServer | two requests over Postgres and nothing that fails: is a counter the sum of its updates? | **violated** |
| agent_panic | MCAgentPanic of MCAgent | does a signal never make the agent panic? | **violated** |
| encrypted_agent | MCEncryptedAgent of MCRequestPipeline | is what an agent sends with encryption delivered? | **violated** |
| ignored_file | MCIgnoredFile of MCRequestPipeline | does an agent use the key that only its JSON file gives? | **violated** |

Deadlock is checked in every run: `Terminated`, `Off`, `Over` and the last disjunct of Agent's `Next`
are the only places where a system may stop, and each says what has to be finished there.

### Bounds

- `HalfRange = 4` (8 over Postgres): deltas are -4..3, so that two increments of 3 wrap and three of 1 do not. Nothing
  depends on the width but wrapping.
- Two or three requests, one or two names. A lost update, an overlap of saves and a type change
  between a read and a write need two requests; a third sees the result of both. Two names give a
  restore and a batch a middle. `MaxInFlight` limits the requests open at once.
- `Inputs`: for each kind of request the cases its handler tells apart: no body, bad item, counter,
  gauge, both payloads, empty batch, a batch that fails in the middle, no client address.
- `MaxStarts = 2`: a stop (or a kill) and the start after it.
- `MaxLate = 1`: one statement on a lost connection at a time, `RetryAttempts = 1`; `Codes` is one code that is retried and one that is not.
- `MCServerSources`, `MCAgentSources`: each of key, RSA key and subnet from the environment, a flag, a JSON file or none, a file that is
  no JSON, and each value that a parser or `Validate` refuses.
- `QueueCap` is 1 or 2 in the place of 100: the producers fill the channel and wait; with 2 it has an order.
  `SampleLen` (1) metrics in a sample stand for the counter and for the last gauge, `RetryAttempts = 1` for 3.
  `MaxSamples` is one sample of each producer with two workers (the drain), and two polls with one worker (order).
- `OtherPosts`: 51 messages that are rightly and wrongly encoded, labelled and signed.
- Symmetry is used over requests and workers, in runs of safety properties only.

### Fairness

`WF` of each goroutine that can run: the Go scheduler is fair to runnable goroutines, a system call
returns, and every POST of the agent ends because its client has a timeout. Nothing is assumed of
clients (`Arrive`, `Accept`), of signals and kills, or of the ticker in the agent's sampling beyond
that a sleep ends. `Tick` is fair in Server because a ticker fires again and again. In server_live the
disk works and handlers end within the drain: with a disk that always fails nothing is ever saved.
In service the audit logs
work (`AuditMayFail = FALSE`), so that an event is lost only to its context; `FileAudited` is about the file subscriber. Nothing is assumed strongly fair.

## 4. What the properties say

The comment above each property states it in full. The ones that carry the project:

- `NoOvercount`, `CountedOnce`: with non-negative deltas, what is stored, loaded, or in the file under a
  name never exceeds what clients sent. The code loses increments (see findings), and this is the half
  of correctness that survives: neither an interleaving, nor a kill in the middle of a restore, nor
  restoring from an older save, counts anything twice.
- `SavedExact`: as long as no two saves overlapped, the target holds exactly the last successful save, through
  any crash or disk error. The proviso is needed: two overlapping saves do mix, truncate or rename
  away each other's temporary file.
- `StopKeeps` and `RestartBringsBack`: a stop that logged "Metrics saved successfully on shutdown" with
  all handlers finished keeps everything, and a start restores it, also after a kill
  during the restore. Three provisos are needed and each is a real behaviour: `~overlap` (a periodic save that is under
  way when the final save begins can put an older snapshot in place of the final one, which is
  still logged as saved), `~earlyTick` (the ticker starts before the restore, so a tick can save the empty
  storage over the file before it is read) and `~unread` (a start whose `os.ReadFile` fails logs it, serves an empty map, and saves that over
  the intact file). After an early tick or a failed read names may be missing, but none is changed (`AsKept`).
- `KillsRevert`: what a kill costs. Where `StopKeeps` speaks of clean stops, this is about every end of the process, in the middle of requests, saves
  and restores: the next process serves exactly what the last successful save found, all of it read at one time, or nothing when it cannot read the file; and until then
  nothing changes what is served but an item that a client asked for, under its name and with its payload (for a counter, with some sum). The provisos are `~overlap` and `~earlyTick`: overlapping saves can put a mixture, or an older checkpoint, in the file, and a tick
  during a restore saves a part of one.
- `AnswerMeansWritten`: an error answer may follow a complete write only where a
  synchronous save failed.
- `AuditTrail`: no event is invented, doubled or forgotten by the server; each one is under way, recorded or reported
  as lost. It does not say that events arrive: an HTTP event whose request ends first is dropped,
  because `Notify` passes on the context of the request.
- `AppliesUnlessRaced`: with any number of requests in flight, a step of the service applies one item once, or none, unless another request has written a name
  between the two storage calls of a counter update. So the race of finding 1 is the only thing that loses an update in memory.
- `AppliesAtomically`, `CounterSums`: the service refines `AtomicMetrics` when requests come one at a time, and counters are then the
  sums of their updates; concurrent requests may break both (finding 1). The proofs say when: `Raceless`, no request is at an item of a name
  of which another one has read the counter and not written it yet, is enough.
- `RestartsInvisible`, `FailuresInvisible`: in terms of the same abstract service, every step of `Run` between two states
  that are `Calm` applies an item, accepts a request, or is not to be seen. `Calm` lists what does lose updates. Over the memory
  storages: overlapping saves, a tick during a restore, a start that cannot read the file, a start that restores anything but the last clean stop (`CleanRuns`), and a
  counter that changed after its handler read it (`Undisturbed`). Over Postgres: a statement executed on a lost connection, a restore of a file
  that may be older than the rows, and a row that changed after the handler of a pending upsert read or wrote it. Each is needed: the real program does lose updates in each of these ways.
- `NothingLeftBehind`, `Drained`, `Terminates`: the close of the channel drains it. A panic (finding 3) loses the samples in the channel, in the workers' hands and in the producers';
  `NothingLeftBehind` excludes it, `Drained` speaks of a return of main, and `Terminates` counts it as an end.
- `CountedTwice`: each sample of a poll reaches the server by metric and as a batch, so its PollCount is added
  exactly twice even when nothing fails, and once per attempt at worst.
- `RetriesCountOnce`: the sum of a counter is computed before the upsert and repeated as it is, so that an upsert that runs twice, or
  late, writes a sum that was due anyway; it may undo another request, which is not counting twice. Restores of older files are included.
- `NoLateOverwrite`: a retry overwrites only rows of requests that were under way together with its own. `~stale` is needed:
  a statement left on a lost connection can run at any later time.
- `AnswerMeansExecuted`: unlike in memory, the item that failed may have been stored all the same.
- `CleanRestartKeepsRows`: Restore writes the file over the rows; that is harmless after a stop that saved them with no handler at work,
  even when the restore is cut short and ticks save in the middle of it. After a kill, or when the drain used up the context of the
  final save, the file is older than the rows and the restore does take them back; `kept` says when it cannot.
- `AgentAccepted`: `Agreed` compares the options both programs run with, wherever they come from. It says that no middleware refuses the agent's messages and that the handler can decode them;
  the handler may still answer 400 or 500, for what MetricsService says of the update.
- `VerifiedBody`: the exceptions are exactly the ones in the code: clients whose User-Agent
  contains "go-resty", and paths other than the two JSON updates.

## 5. Findings

1. **Lost counter updates** (lost_update). `SetMetric` and `SetNewMetric` read and write a counter in two
   storage calls (`internal/service/metrics.go:124`, `:168`). Two requests that both read first keep one increment;
   `:50` says a counter is summed. It is so over every storage; the run shows it over Postgres, because it shows finding 2 too.
2. **SetMetric of Postgres does not accumulate** (lost_update). The upsert replaces the whole row (`internal/repository/postgresstorage.go:29`), while
   `TestPGStorage_CounterAccumulation` (`internal/repository/storage_test.go:107-136`, which needs a database) stores 5, then 3, and asserts 8; the code gives 3. The service does the adding, so
   an upsert that added would count twice wherever the service calls it. `RetriesCountOnce`, `CleanRestartKeepsRows` and `FailuresInvisible` are about the
   upsert of the code: with the one of the test, retries and restores would count twice.
3. **A signal can panic the agent** (agent_panic). main closes the channel right after it cancels the context, while
   producers may be about to send on it (`cmd/agent/main.go:121`).
4. **Encryption does not work end to end** (encrypted_agent). The agent compresses and then
   encrypts under the label "rsa"; the server skips decompression for that label, decrypts, and hands gzip bytes to the
   JSON decoder.
5. **The JSON file sets no option** (ignored_file). `internal/config/json.go:110-111` applies its values "only if they were not set by flags or env";
   `NewAgentConfig` then assigns every option again from the environment or the flag's default (`internal/config/agent.go:69-92`), and
   `NewServerConfig` does the same (`internal/config/server.go:108-143`). A file has no effect but through failing to be read.

Two more disagreements between code and docs have no run. With StoreInterval 0 only the JSON form of a single update is saved: `UpdateBatch` and the URL form are not, although
`internal/config/server.go:26` promises a synchronous save after every operation; `SyncSaved` therefore speaks of JSON updates only. And the help of the
agent's flag `-crypto-key` says "path to private key file for decryption" (`internal/config/agent.go:53`), the text of the server's flag, while the agent encrypts and
`LoadPublicKey` accepts a PUBLIC KEY block only (`internal/crypto/keys.go:29`): an agent started with a private key, as its help says, ends at once. As both programs read the
same variable CRYPTO_KEY, one environment that sets it does not serve both.

Behaviours met while modelling that no doc contradicts, and that the model contains: a failed
synchronous save answers 400 after the write (`AnswerMeansWritten`); StoreInterval 0 with an empty file
path panics in the handler on a nil storage (`NoFileToSync`), after the update was stored; one NaN gauge makes every later save
fail until it is overwritten (`Encodable`); concurrent synchronous saves can leave an older snapshot on disk; the three behaviours named
under `StopKeeps`; over Postgres a start after a kill writes an older file over newer rows. `STORE_INTERVAL` may be negative: then neither the ticker
(`internal/server/server.go:104`) nor a handler (`internal/service/metrics.go:236`) saves, and only the final save is left.
`internal/service/metrics.go:29` says of the interval "0 = disabled", where 0 saves synchronously (`:236`).

## 6. Proofs

Eight modules, checked by tlapm to the last leaf, for every value of the constants that satisfies the named
assumptions (which say only that the special values NULL, Absent, Empty, Mixed are not metrics, that options are
Booleans or integers, that inputs are well-formed requests, that requests are finitely many, and that keys, messages and sources
are what the modules say they are). TLC evaluates the
assumptions in every run.

- **FileStorageProofs** (any savers and metrics). `SavedExact` is not inductive: nothing in it says what the temporary
  file holds before the rename. `FSInv` adds that without overlap at most one saver is active (`Alone`), that it
  finds the temporary file truncated before it writes and equal to its snapshot before it renames, and that no saver
  between saves has a file open. Each system call preserves it; `FileTypes` and `FileExact` follow.
- **MetricsServiceProofs** (any requests, names, payloads, width and number of requests in flight).
  `Inv` adds to the types and to FSInv what is known of a request at each stage (`RequestOK`: its item index is in range,
  an update at its second half has a valid counter item). From it follow `ServiceTypes`, `ServiceFileExact` and, with
  the payloads of what is stored and of what was read, `NilPayloadNeverServed`. `NeverOvercounts` needs `CountInv`,
  which also bounds the metric a request has READ by what was written so far. `RacelessServiceIsAtomic` proves
  the refinement from `Undisturbed` (what a handler has read of a counter is still what is stored), which is inductive as long as the
  behaviour is `Raceless`, and `Ordered` (a request at item idx has written exactly the items before it), which always is, for
  any number of requests in flight; `UnracedStepsAreAtomic` is the same step by step; with the theorem about the abstract service it gives `RacelessCountersSum`. `SerialServiceIsAtomic` and
  `SerialCountersSum` are the case MaxInFlight = 1 that the run checks: one request at a time is raceless.
  `AnswersTell` needs `Ordered` and `AnswerInv`: a request past its items has written all of them, and its save runs only between the last
  item and the answer. `RefusedByGauges`: by `CauseInv` a metric that is stored or was read without a delta comes from a gauge
  written under its name. `TrailIsExact`: by `TrailInv` what is pending, sent or lost is exactly `Audited` at every step, and only
  `Finish` answers a batch with 200. `SynchronousSavesKeepUp`: by `SyncInv`, as long as no request has yet to save or will report a failed
  save, the save under way has what is stored, and the file has it when none is.
- **ServerProofs** (any number of starts, kills, ticks). `SInv` is `Inv` with the types of Run's variables. The steps of Run are sorted into those that leave
  the service alone (`QuietStep`), those that begin a save, the restore, the end of the process, and the steps of the service,
  for which the lemmas of MetricsServiceProofs are reused. It gives `ServerTypes` and `ServerFileExact`.
  `StopsKeep` and `RestartsBringBack` need three more parts. `ShapeInv`: there are no metrics before the restore, and no open request before
  it, after a drain, or while anything is `kept`. `FinalInv`: once the final save of a drained server has begun, every save under way has
  the metrics as they are. `KeptInv`: while nothing arrives, what a clean stop kept is in the file, in the snapshot of every save, and in the storage
  or still to be restored, name by name (`AsKept`). `CountsOnce` extends `CountInv` to every copy there is (`Copies`: storage, list to restore, snapshots,
  both files): a step that gives nothing only moves entries from copy to copy (`HeldFrom`).
  `RestartsAreInvisible` maps each step: `KeptInv` makes `Lasting` equal to the metrics once a restore is over, `FreshInv` says
  that the first start finds nothing to restore, and steps of the service are those of MetricsServiceProofs. `RacelessServerIsAtomic` is the refinement of the whole: `[](CleanRuns /\ Raceless)` is a
  hypothesis about saves, ticks, kills and the scheduling of handlers, and `Undisturbed`, so `Calm`, follows from it (`UndisturbedRun`).
  `CountersOutliveRestarts` is what it means for a counter.
  A `LoadFile` that fails sets `unread`, after which `KeptInv` lets names be missing; to CheckpointedMetrics it is a beginning with the empty map. `KillsRevertToSave` maps each step to CheckpointedMetrics, and `ServerIsCheckpointed` is the refinement. It needs `RestInv`, that before a restore has ended no save
  is under way but by an early tick, so that no save replaces the file while the file still is what is served; and, from FSInv, that
  without overlap the file changes only at the rename of the one save there is (`DiskSettles`).

- **MetricsProofs**: what addition, `Base` and the update of a map return; used by the services.
- **AtomicMetricsProofs** (any requests). `AtomicCountersSum`: a name that only counters were applied to holds their sum. `SumInv` is the inductive form: equality
  modulo 2 * HalfRange, which every addition preserves, and which is equality for a sum within the range.
- **PostgresServerProofs** (any requests, codes, attempts, lost connections, starts). `PInv` ties each statement that may
  still run (`Pending`: a goroutine is at it, or it is on a lost connection) to the item it was prepared for, and
  gives `PostgresTypes`. `NeverOverwritesLate` needs `OrderInv`: a request that was
  answered before another arrived stays at its end, and one that has not arrived has written nothing.
  `AnswersMeanExecution`: for each request there is an n such that the items executed are the first n and
  the pending statements are of those or of the next (`FirstItems`, `PendingItems`). `NothingCountedTwice`: `CountInv` bounds
  the metric of each pending statement by what is `DueTo` it, the sum executed so far and its own delta if it has not been executed.
  `RestartKeepsRows`: `CleanInv` says that rows, file, what is still to be restored and the restoring statement all agree with `kept`.
  `FailuresAreInvisible` maps the first execution of an upsert to the application of its item (`ExecuteApplies`), and every repeated one and every
  restored row to nothing, as the row is what it was (`RestoreChangesNothing`); `PreparedInv` says what an upsert was prepared with. In `RacelessTableIsAtomic`, `CleanRuns` and
  `Raceless` (no two requests at an upsert of one row) replace `Undisturbed`, which is inductive under them (`UndisturbedStep`). `TableCountersSum` follows.
- **RequestPipelineProofs** (any keys, clients and sources). `ServerConfigIs` and `AgentConfigIs` compute the options both programs end up with; `OptInv` carries the types and the server's key
  along. The chain is then followed station by station: `AnswerInv` for the answer on its way back (`AnswersCanBeVerified`), `VerifyInv` for what
  a checked hash covers (`OnlyVerifiedBodies`), `AcceptInv` for what is left of the agent's message at each
  middleware (`PlainAgentAccepted`).
- **AgentProofs** (any workers, capacity, samples, outcomes). `AgentInv` says what each goroutine has in hand and that a worker stops
  only at the closed and empty channel. With it a sample that is `Placed` (in the producer's hand, the channel, a worker's hand, or finished)
  stays so through every step (`EveryPlace`, from which `NoSampleLost`: a panic moves no sample, but ends the process that holds it), and `ShutdownDrains` follows, as main returns only when all have stopped.
  `CountsTwice` needs that a sample is in one place only (`UniqueInv`) and that a worker is at a first attempt unless one has
  failed (`WorkInv`). `TwiceInv` then gives for each sample a set of attempts, all over and none of them among the late ones, whose cardinality
  is what `counted` holds; without a failure it is the first attempt of each of the two POSTs that carry PollCount.
  `GaugesStayInOrder`: with one worker (`InTurn`) the sample in hand is not after those in the channel, which are in the order they were made (`OrderInv`).

The theorems of the form `Spec /\ []H => P` are about the behaviours in which H always holds; H excludes scheduling and failures that
the code does not exclude, and without it P can fail. The three `...CountersSum` and `CountersOutliveRestarts` thus say
what finding 1 comes to: an increment is lost to two handlers between each other's storage calls, or to one of the named failures, and to nothing else.

Out of the prover's reach, and left to TLC: liveness under fairness and ENABLED (`Answered`, `FileAudited`,
`PeriodicallySaved`, `ShutdownCompletes`, `Terminates`), and induction over data.
Every other property of a passing run is stated by a theorem.

## 7. Plan

Done, in this order: Metrics, FileStorage, Audit, MetricsService with AtomicMetrics, Server with CheckpointedMetrics, Agent, RequestPipeline, PostgresServer,
Config, and the eight proof modules.

Nothing of the plan is left.

## 8. Not modelled

- **Migrations**: one library call at start, whose error ends `Run` before anything else happens; PostgresServer starts from its tables.
  **Object pool**: no caller in the program. **Generator and linter** (`cmd/reset`,
  `cmd/staticlint`): build-time tools over syntax trees. **Logger, build info, the pprof server**: no state.
- Inside modelled components: the retry delays, the pool of database connections, RSA and PEM bytes, gzip and JSON byte formats, the HTML page of `ListMetricsHandler`, the text of errors, `sendMetric` and
  `newCompressedJSONRequest`, which have no caller, and `AddSub`, which is never called after start.
