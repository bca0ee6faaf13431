------------------------------- MODULE Agent -------------------------------
(***************************************************************************)
(* The agent: cmd/agent/main.go with internal/agent.  Two producers sample *)
(* the machine and put each sample in a bounded channel; RateLimit workers *)
(* take samples and send each one TWICE, metric by metric (Send) and as a  *)
(* batch (SendBatchMetrics), every POST with retries.  On a signal main    *)
(* cancels the context, closes the channel and waits for all of them.      *)
(* The server counts a POST when it handles it, whatever the agent hears.  *)
(***************************************************************************)
EXTENDS Integers, Sequences, SequencesExt

CONSTANTS
    Workers,         \* RateLimit of them
    QueueCap,        \* the capacity of the channel, 100 in the code
    RetryAttempts,   \* extra attempts of WithBackoff, 3 in the code
    Outcomes,        \* how a POST may end
    SampleLen,       \* bound: metrics in a sample that is not empty
    MaxSamples,      \* bound: how many samples each producer makes
    None

\* ok: 200.  rejected: any other status.  refused: no connection.  reset: the
\* connection is reset.  timeout: no answer within 10 seconds.  broken: another
\* network error.
AllOutcomes == {"ok", "rejected", "refused", "reset", "timeout", "broken"}

ASSUME AgentAssumption ==
    /\ Workers # {}
    /\ QueueCap \in Nat \ {0}
    /\ RetryAttempts \in Nat
    /\ Outcomes \subseteq AllOutcomes /\ Outcomes # {}
    /\ SampleLen \in Nat \ {0}
    /\ MaxSamples \in [{"poll", "system"} -> Nat]

Producers == {"poll", "system"}

\* The num-th sample of a producer: its size is all the senders depend on.
Numbers == UNION {1 .. MaxSamples[p] : p \in Producers}
Samples == [from : Producers, num : Numbers, size : {0, SampleLen}]

ASSUME NoneAssumption == None \notin Samples

VARIABLES
    ppc,             \* where each producer is in its loop
    made,            \* the samples each producer has made
    sample,          \* the sample a producer has in hand
    cpuDone,         \* CollectCPUData has returned
    cpuData,         \* cpuDataChan, of capacity 1, holds data
    queue, closed,   \* the tasks channel
    mpc,             \* main: "wait", "cancelled", "closed", "exit"
    panicked,
    wpc,             \* where each worker is in its loop
    task,            \* the sample it sends
    item,            \* the POST it is at: item size + 1 is the batch
    attempt,         \* attempts of this POST that failed
    late,            \* POSTs the agent gave up on and the server has yet to handle
    counted,         \* server: how often each sample's counter was added
    latest,          \* server: the sample whose gauges were stored last
    finished,        \* history: samples a worker is through with
    failed           \* history: samples with a POST that was not answered 200

producerVars == <<ppc, made, sample>>
workerVars   == <<wpc, task, item, attempt>>
serverState  == <<late, counted, latest>>
mainVars     == <<mpc, closed, panicked>>
cpuVars      == <<cpuDone, cpuData>>
history == <<finished, failed>>
vars == <<producerVars, cpuVars, queue, mainVars, workerVars, serverState, history>>

Posts == [task : Samples, item : 1 .. SampleLen + 1, attempt : 0 .. RetryAttempts]

TypeOK ==
    /\ ppc \in [Producers -> {"check", "send", "sleep", "done"}]
    /\ made \in [Producers -> Numbers \cup {0}]
    /\ sample \in [Producers -> Samples \cup {None}]
    /\ cpuDone \in BOOLEAN /\ cpuData \in BOOLEAN
    /\ queue \in Seq(Samples) /\ Len(queue) <= QueueCap
    /\ mpc \in {"wait", "cancelled", "closed", "exit"}
    /\ closed \in BOOLEAN
    /\ panicked \in BOOLEAN
    /\ wpc \in [Workers -> {"receive", "post", "sleep", "done"}]
    /\ task \in [Workers -> Samples \cup {None}]
    /\ item \in [Workers -> 1 .. SampleLen + 1]
    /\ attempt \in [Workers -> 0 .. RetryAttempts]
    /\ late \subseteq Posts
    /\ counted \in [Producers \X Numbers -> Nat]
    /\ latest \in [Producers -> Numbers \cup {0}]
    /\ finished \subseteq Samples
    /\ failed \subseteq Samples

Init ==
    /\ ppc = [p \in Producers |-> "check"]
    /\ made = [p \in Producers |-> 0]
    /\ sample = [p \in Producers |-> None]
    /\ cpuDone = FALSE /\ cpuData = FALSE
    /\ queue = <<>> /\ closed = FALSE
    /\ mpc = "wait"
    /\ panicked = FALSE
    /\ wpc = [w \in Workers |-> "receive"]
    /\ task = [w \in Workers |-> None]
    /\ item = [w \in Workers |-> 1]
    /\ attempt = [w \in Workers |-> 0]
    /\ late = {}
    /\ counted = [s \in Producers \X Numbers |-> 0]
    /\ latest = [p \in Producers |-> 0]
    /\ finished = {}
    /\ failed = {}

-----------------------------------------------------------------------------
\* The producers.

Cancelled == mpc # "wait"

\* select: <-ctx.Done().
ProducerStops(p) ==
    /\ ppc[p] = "check"
    /\ Cancelled
    /\ ppc' = [ppc EXCEPT ![p] = "done"]
    /\ UNCHANGED <<made, sample, cpuVars, queue, mainVars, workerVars, serverState, history>>

\* default: Collect, or CollectSystemMetrics, whose sample is empty when the
\* memory cannot be read and no CPU data are waiting.
Collect(p) ==
    /\ ppc[p] = "check"
    /\ ~Cancelled
    /\ made[p] < MaxSamples[p]
    /\ \E size \in IF p = "system" /\ ~cpuData THEN {0, SampleLen} ELSE {SampleLen} :
          sample' = [sample EXCEPT ![p] = [from |-> p, num |-> made[p] + 1, size |-> size]]
    /\ made' = [made EXCEPT ![p] = @ + 1]
    /\ cpuData' = (cpuData /\ p # "system")
    /\ ppc' = [ppc EXCEPT ![p] = "send"]
    /\ UNCHANGED <<cpuDone, queue, mainVars, workerVars, serverState, history>>

EnqueueMutant(p) ==
    /\ ppc[p] = "send"
    /\ \/ /\ ~closed
          /\ queue' = IF Len(queue) < QueueCap THEN Append(queue, sample[p]) ELSE queue
          /\ sample' = [sample EXCEPT ![p] = None]
          /\ ppc' = [ppc EXCEPT ![p] = "sleep"]
          /\ UNCHANGED panicked
       \/ /\ closed
          /\ panicked' = TRUE
          /\ UNCHANGED <<queue, sample, ppc>>
    /\ UNCHANGED <<made, cpuVars, mpc, closed, workerVars, serverState, history>>

\* tasks <- metrics: waits while the channel is full, panics once it is closed.
Enqueue(p) ==
    /\ ppc[p] = "send"
    /\ \/ /\ ~closed
          /\ Len(queue) < QueueCap
          /\ queue' = Append(queue, sample[p])
          /\ sample' = [sample EXCEPT ![p] = None]
          /\ ppc' = [ppc EXCEPT ![p] = "sleep"]
          /\ UNCHANGED panicked
       \/ /\ closed
          /\ panicked' = TRUE
          /\ UNCHANGED <<queue, sample, ppc>>
    /\ UNCHANGED <<made, cpuVars, mpc, closed, workerVars, serverState, history>>

Wake(p) ==
    /\ ppc[p] = "sleep"
    /\ ppc' = [ppc EXCEPT ![p] = "check"]
    /\ UNCHANGED <<made, sample, cpuVars, queue, mainVars, workerVars, serverState, history>>

\* CollectCPUData drops its data when the channel still holds the last ones.
MeasureCPU ==
    /\ ~cpuDone
    /\ ~cpuData
    /\ cpuData' = TRUE
    /\ UNCHANGED <<cpuDone, producerVars, queue, mainVars, workerVars, serverState, history>>

CPUStops ==
    /\ Cancelled /\ ~cpuDone
    /\ cpuDone' = TRUE
    /\ UNCHANGED <<cpuData, producerVars, queue, mainVars, workerVars, serverState, history>>

-----------------------------------------------------------------------------
\* The workers.

ReceiveMutant(w) ==
    /\ wpc[w] = "receive"
    /\ queue # <<>>
    /\ task' = [task EXCEPT ![w] = Last(queue)]
    /\ queue' = Front(queue)
    /\ wpc' = [wpc EXCEPT ![w] = IF Last(queue).size = 0 THEN "sleep" ELSE "post"]
    /\ finished' = IF Last(queue).size = 0 THEN finished \cup {Last(queue)} ELSE finished
    /\ UNCHANGED <<producerVars, cpuVars, mainVars, item, attempt, serverState, failed>>

\* range jobs: the next sample, also after close until the channel is empty.
Receive(w) ==
    /\ wpc[w] = "receive"
    /\ queue # <<>>
    /\ task' = [task EXCEPT ![w] = Head(queue)]
    /\ queue' = Tail(queue)
    /\ wpc' = [wpc EXCEPT ![w] = IF Head(queue).size = 0 THEN "sleep" ELSE "post"]
    /\ finished' = IF Head(queue).size = 0 THEN finished \cup {Head(queue)} ELSE finished
    /\ UNCHANGED <<producerVars, cpuVars, mainVars, item, attempt, serverState, failed>>

WorkerStopsMutant(w) ==
    /\ wpc[w] = "receive"
    /\ closed
    /\ wpc' = [wpc EXCEPT ![w] = "done"]
    /\ UNCHANGED <<producerVars, cpuVars, queue, mainVars, task, item, attempt, serverState, history>>

WorkerStops(w) ==
    /\ wpc[w] = "receive"
    /\ closed /\ queue = <<>>
    /\ wpc' = [wpc EXCEPT ![w] = "done"]
    /\ UNCHANGED <<producerVars, cpuVars, queue, mainVars, task, item, attempt, serverState, history>>

\* What the server does with a POST it handles: one metric of a poll's sample,
\* the first here, is its counter PollCount, the last one stands for its
\* gauges, and the batch has all of them.
Handle(t, i) ==
    /\ counted' = IF t.from = "poll" /\ i \in {1, t.size + 1}
                  THEN [counted EXCEPT ![<<t.from, t.num>>] = @ + 1] ELSE counted
    /\ latest' = IF i >= t.size THEN [latest EXCEPT ![t.from] = t.num] ELSE latest

Unhandled == UNCHANGED <<counted, latest>>

\* The server's part of a POST that ends in outcome o for the agent.
AtServer(o, p) ==
    \/ o # "refused" /\ Handle(p.task, p.item) /\ UNCHANGED late
    \/ o # "ok" /\ Unhandled /\ UNCHANGED late
    \/ o = "timeout" /\ Unhandled /\ late' = late \cup {p}

\* isRetriable: timeouts, ECONNREFUSED and ECONNRESET, not a reply.
IsRetriable(o) == o \in {"timeout", "refused", "reset"}

NextPostMutant(w) ==
    /\ attempt' = [attempt EXCEPT ![w] = 0]
    /\ IF item[w] < task[w].size
       THEN /\ item' = [item EXCEPT ![w] = @ + 1]
            /\ UNCHANGED <<wpc, finished>>
       ELSE /\ item' = [item EXCEPT ![w] = 1]
            /\ wpc' = [wpc EXCEPT ![w] = "sleep"]
            /\ finished' = finished \cup {task[w]}

\* The POST is over, for better or worse: Send goes on with the next metric
\* and after the last one SendBatchMetrics posts the batch.
NextPost(w) ==
    /\ attempt' = [attempt EXCEPT ![w] = 0]
    /\ IF item[w] <= task[w].size
       THEN /\ item' = [item EXCEPT ![w] = @ + 1]
            /\ UNCHANGED <<wpc, finished>>
       ELSE /\ item' = [item EXCEPT ![w] = 1]
            /\ wpc' = [wpc EXCEPT ![w] = "sleep"]
            /\ finished' = finished \cup {task[w]}

RetryLaterMutant(w, o) == IsRetriable(o) /\ attempt[w] <= RetryAttempts

\* WithBackoff runs the POST again after a retriable error, RetryAttempts
\* times at most.
RetryLater(w, o) == IsRetriable(o) /\ attempt[w] < RetryAttempts

Post(w, o) ==
    /\ wpc[w] = "post"
    /\ AtServer(o, [task |-> task[w], item |-> item[w], attempt |-> attempt[w]])
    /\ IF RetryLater(w, o)
       THEN /\ attempt' = [attempt EXCEPT ![w] = @ + 1]
            /\ UNCHANGED <<wpc, item, finished>>
       ELSE NextPost(w)
    /\ failed' = IF o = "ok" THEN failed ELSE failed \cup {task[w]}
    /\ UNCHANGED <<producerVars, cpuVars, queue, mainVars, task>>

\* time.Sleep(reportInterval), then the next sample.
Rest(w) ==
    /\ wpc[w] = "sleep"
    /\ wpc' = [wpc EXCEPT ![w] = "receive"]
    /\ task' = [task EXCEPT ![w] = None]
    /\ UNCHANGED <<producerVars, cpuVars, queue, mainVars, item, attempt, serverState, history>>

\* The server gets to a POST after the agent's timeout.
HandleLate(p) ==
    /\ p \in late
    /\ Handle(p.task, p.item)
    /\ late' = late \ {p}
    /\ UNCHANGED <<producerVars, cpuVars, queue, mainVars, workerVars, history>>

-----------------------------------------------------------------------------
\* main after the signal: cancel(), close(tasks), wg.Wait().

MainStep(from, to) ==
    /\ mpc = from
    /\ mpc' = to
    /\ closed' = (closed \/ to = "closed")
    /\ UNCHANGED <<producerVars, cpuVars, queue, panicked, workerVars, serverState, history>>

Cancel == MainStep("wait", "cancelled")
CloseMutant == MainStep("cancelled", "cancelled")
Close  == MainStep("cancelled", "closed")

AllDone ==
    /\ \A p \in Producers : ppc[p] = "done"
    /\ \A w \in Workers : wpc[w] = "done"
    /\ cpuDone
Exit   == AllDone /\ MainStep("closed", "exit")

Producer(p) == ProducerStops(p) \/ Collect(p) \/ Enqueue(p) \/ Wake(p)
Worker(w)   == Receive(w) \/ WorkerStops(w) \/ Rest(w) \/ \E o \in Outcomes : Post(w, o)

\* The process is gone; what the server still has to handle, it handles.
Ended == panicked \/ mpc = "exit"

Next ==
    \/ /\ ~Ended
       /\ \/ \E p \in Producers : Producer(p)
          \/ \E w \in Workers : Worker(w)
          \/ MeasureCPU \/ CPUStops
          \/ Cancel \/ Close \/ Exit
    \/ \E p \in late : HandleLate(p)
    \/ Ended /\ late = {} /\ UNCHANGED vars

Spec == Init /\ [][Next]_vars

\* The goroutines of a running agent go on; POSTs end (the client has a timeout).
Fairness ==
    /\ \A p \in Producers : WF_vars(~Ended /\ Producer(p))
    /\ \A w \in Workers : WF_vars(~Ended /\ Worker(w))
    /\ WF_vars(~Ended /\ CPUStops)
    /\ WF_vars(~Ended /\ (Close \/ Exit))

FairSpec == Spec /\ Fairness

-----------------------------------------------------------------------------
(* As long as the agent does not panic no sample is lost inside it: what   *)
(* the producers made is in their hands, in the channel, with a worker, or *)
(* a worker has been through with it, through the shutdown too, where the  *)
(* workers empty the closed channel before they stop.  A panic (a send on  *)
(* the closed channel, main.go:83) ends the process and loses the rest.    *)
NothingLeftBehind ==
    \/ panicked
    \/ \A p \in Producers : \A n \in 1 .. made[p] :
           \/ \E t \in finished \cup ToSet(queue) : t.from = p /\ t.num = n
           \/ \E w \in Workers : wpc[w] = "post" /\ task[w].from = p /\ task[w].num = n
           \/ ppc[p] = "send" /\ sample[p].num = n

(* When main returns after a signal the channel is empty and a worker has  *)
(* been through with every sample that was ever made: close lets them      *)
(* drain the channel, and wg.Wait waits for them.                          *)
Drained == mpc = "exit" => queue = <<>> /\ \A p \in Producers :
               \A n \in 1 .. made[p] : \E t \in finished : t.from = p /\ t.num = n

(* What the server adds to PollCount for one sample of a runtime poll:     *)
(* exactly twice the delta when each of its POSTs was answered 200, since  *)
(* Send and SendBatchMetrics both carry it, and at most once per attempt   *)
(* of both otherwise, as a POST that timed out may have been handled.      *)
CountedTwice ==
    \A t \in Samples : t.from = "poll" /\ t.size > 0 =>
        /\ counted[<<t.from, t.num>>] <= 2 * (RetryAttempts + 1)
        /\ t \in finished \ failed => counted[<<t.from, t.num>>] = 2

(* With one worker, and unless a POST that timed out is handled late, the  *)
(* gauges at the server never go back to an older sample.                  *)
GaugesInOrder ==
    [][ \/ \E w, x \in Workers : w # x
        \/ "timeout" \in Outcomes
        \/ \A p \in Producers : latest[p] <= latest'[p] ]_vars

(* cmd/README.md:13: the program handles the termination signals.  None of *)
(* them makes it panic.                                                    *)
NoPanic == ~panicked

(* After a signal the agent ends: no producer, worker or main waits for    *)
(* ever, whatever the network does and however full the channel is.        *)
Terminates == Cancelled ~> Ended
=============================================================================
