---------------------------- MODULE AgentProofs ----------------------------
(***************************************************************************)
(* Proofs about the agent, for any number of workers, capacity of the      *)
(* channel, samples, retries and outcomes of the POSTs: no sample is lost  *)
(* between the producers, the channel and the workers, through the         *)
(* shutdown too; and a sample of a poll whose POSTs all succeed is counted *)
(* exactly twice by the server; and one worker keeps the gauges in order.  *)
(***************************************************************************)
EXTENDS Agent, SequenceTheorems, FiniteSetTheorems, TLAPS

-----------------------------------------------------------------------------
\* What a worker has in hand, and the order of the shutdown.
WorkerOK(w) ==
    /\ wpc[w] \in {"post", "sleep"} => task[w] \in Samples
    /\ wpc[w] = "post" => item[w] \in 1 .. task[w].size + 1
    /\ wpc[w] = "done" => closed /\ queue = <<>>

ProducerOK(p) ==
    ppc[p] = "send" => /\ sample[p] \in Samples
                       /\ sample[p].from = p /\ sample[p].num = made[p]

\* Where a sample that was made may be.
Placed(p, n) ==
    \/ \E t \in finished \cup ToSet(queue) : t.from = p /\ t.num = n
    \/ \E w \in Workers : wpc[w] = "post" /\ task[w].from = p /\ task[w].num = n
    \/ ppc[p] = "send" /\ sample[p].num = n

AgentInv ==
    /\ TypeOK
    /\ (closed <=> mpc \in {"closed", "exit"})
    /\ \A w \in Workers : WorkerOK(w)
    /\ \A p \in Producers : ProducerOK(p)
    /\ mpc = "exit" => AllDone

LEMMA Constants ==
    /\ SampleLen \in Nat \ {0} /\ RetryAttempts \in Nat /\ QueueCap \in Nat \ {0}
    /\ \A p \in Producers : MaxSamples[p] \in Nat /\ 1 .. MaxSamples[p] \subseteq Numbers
    /\ \A n \in Numbers \cup {0} : n \in Nat
    /\ \A t \in Samples : t.from \in Producers /\ t.num \in Numbers /\ t.size \in {0, SampleLen}
    /\ None \notin Samples
<1>1. \A p \in Producers : MaxSamples[p] \in Nat
  BY AgentAssumption DEF Producers
<1>2. \A p \in Producers : 1 .. MaxSamples[p] \subseteq Numbers
  BY DEF Numbers
<1>3. Numbers \subseteq Nat
  BY <1>1 DEF Numbers
<1>4. \A n \in Numbers \cup {0} : n \in Nat
  BY <1>3
<1>5. QED
  BY <1>1, <1>2, <1>4, AgentAssumption, NoneAssumption DEF Samples

\* The channel before and after a send or a receive.
LEMMA InSeq ==
    ASSUME NEW q \in Seq(Samples), NEW t
    PROVE  t \in ToSet(q) <=> \E i \in 1 .. Len(q) : t = q[i]
BY DEF ToSet

LEMMA QueueAppend ==
    ASSUME NEW q \in Seq(Samples), NEW x \in Samples
    PROVE  /\ Append(q, x) \in Seq(Samples) /\ Len(Append(q, x)) = Len(q) + 1
           /\ ToSet(Append(q, x)) = ToSet(q) \cup {x}
<1>1. /\ Append(q, x) \in Seq(Samples) /\ Len(Append(q, x)) = Len(q) + 1 /\ Len(q) \in Nat
      /\ \A i \in 1 .. Len(q) : Append(q, x)[i] = q[i]
      /\ Append(q, x)[Len(q) + 1] = x
  BY AppendProperties
<1>2. ASSUME NEW t \in ToSet(Append(q, x)) PROVE t \in ToSet(q) \cup {x}
  <2>0. \E i \in 1 .. Len(Append(q, x)) : t = Append(q, x)[i]
    BY <1>1, InSeq
  <2>1. PICK i \in 1 .. Len(q) + 1 : t = Append(q, x)[i]
    BY <1>1, <2>0
  <2>2. i \in 1 .. Len(q) \/ i = Len(q) + 1
    BY <1>1
  <2>3. QED
    BY <1>1, <2>1, <2>2, InSeq
<1>3. ASSUME NEW t \in ToSet(q) PROVE t \in ToSet(Append(q, x))
  <2>1. PICK i \in 1 .. Len(q) : t = q[i]
    BY <1>1, InSeq
  <2>2. i \in 1 .. Len(q) + 1 /\ t = Append(q, x)[i]
    BY <1>1, <2>1
  <2>3. QED
    BY <1>1, <2>2, InSeq
<1>4. x \in ToSet(Append(q, x))
  <2>1. Len(q) + 1 \in 1 .. Len(Append(q, x))
    BY <1>1
  <2>2. QED
    BY <1>1, <2>1, InSeq
<1>5. QED
  BY <1>1, <1>2, <1>3, <1>4

LEMMA QueueReceive ==
    ASSUME NEW q \in Seq(Samples), q # <<>>
    PROVE  /\ Head(q) \in Samples
           /\ Tail(q) \in Seq(Samples) /\ Len(Tail(q)) = Len(q) - 1
           /\ ToSet(q) = ToSet(Tail(q)) \cup {Head(q)}
<1>1. /\ Head(q) \in Samples /\ Head(q) = q[1]
      /\ Tail(q) \in Seq(Samples) /\ Len(Tail(q)) = Len(q) - 1
      /\ \A i \in 1 .. Len(Tail(q)) : Tail(q)[i] = q[i + 1]
      /\ Len(q) \in Nat \ {0}
  BY HeadTailProperties, EmptySeq
<1>2. ASSUME NEW t \in ToSet(q) PROVE t \in ToSet(Tail(q)) \cup {Head(q)}
  <2>1. PICK i \in 1 .. Len(q) : t = q[i]
    BY InSeq
  <2>2. i # 1 => i - 1 \in 1 .. Len(Tail(q)) /\ Tail(q)[i - 1] = q[i]
    BY <1>1
  <2>3. QED
    BY <1>1, <2>1, <2>2, InSeq
<1>3. ASSUME NEW t \in ToSet(Tail(q)) PROVE t \in ToSet(q)
  <2>1. PICK i \in 1 .. Len(Tail(q)) : t = Tail(q)[i]
    BY <1>1, InSeq
  <2>2. i + 1 \in 1 .. Len(q) /\ t = q[i + 1]
    BY <1>1, <2>1
  <2>3. QED
    BY <2>2, InSeq
<1>4. Head(q) \in ToSet(q)
  BY <1>1, InSeq
<1>5. QED
  BY <1>1, <1>2, <1>3, <1>4

-----------------------------------------------------------------------------
\* The steps, by what they leave alone.

LEMMA ProducerTypes ==
    ASSUME AgentInv, NEW p \in Producers, Producer(p), ~Ended
    PROVE  TypeOK' /\ \A q \in Producers : ProducerOK(q)'
<1>. USE DEF AgentInv
<1>1. CASE ProducerStops(p) \/ Wake(p)
  BY <1>1 DEF ProducerStops, Wake, TypeOK, ProducerOK, cpuVars, mainVars, workerVars, serverState, history
<1>2. CASE Collect(p)
  <2>1. PICK size \in {0, SampleLen} :
           sample' = [sample EXCEPT ![p] = [from |-> p, num |-> made[p] + 1, size |-> size]]
    BY <1>2 DEF Collect
  <2>2. made[p] + 1 \in Numbers
    <3>0. made[p] \in Numbers \cup {0}
      BY DEF TypeOK
    <3>1. made[p] \in Nat /\ MaxSamples[p] \in Nat /\ made[p] < MaxSamples[p]
      <4>1. MaxSamples[p] \in Nat /\ \A n \in Numbers \cup {0} : n \in Nat
        BY Constants
      <4>2. made[p] \in Nat
        BY <3>0, <4>1
      <4>3. made[p] < MaxSamples[p]
        BY <1>2 DEF Collect
      <4>4. QED
        BY <4>1, <4>2, <4>3
    <3>2. made[p] + 1 \in 1 .. MaxSamples[p]
      BY <3>1
    <3>3. QED
      BY <3>2, Constants
  <2>3. [from |-> p, num |-> made[p] + 1, size |-> size] \in Samples
    BY <2>2 DEF Samples
  <2>4. /\ made' = [made EXCEPT ![p] = @ + 1] /\ ppc' = [ppc EXCEPT ![p] = "send"]
        /\ cpuData' \in BOOLEAN
        /\ UNCHANGED <<cpuDone, queue, mainVars, workerVars, serverState, history>>
    BY <1>2 DEF Collect
  <2>5. TypeOK'
    BY <2>1, <2>2, <2>3, <2>4 DEF TypeOK, mainVars, workerVars, serverState, history
  <2>6. \A q \in Producers : ProducerOK(q)'
    BY <2>1, <2>3, <2>4 DEF TypeOK, ProducerOK
  <2>7. QED
    BY <2>5, <2>6
<1>3. CASE Enqueue(p)
  <2>1. sample[p] \in Samples
    BY <1>3 DEF Enqueue, ProducerOK
  <2>2. queue' = queue \/ (Len(queue) < QueueCap /\ queue' = Append(queue, sample[p]))
    BY <1>3 DEF Enqueue
  <2>3. queue' \in Seq(Samples) /\ Len(queue') <= QueueCap
    <3>1. CASE queue' = queue
      BY <3>1 DEF TypeOK
    <3>2. CASE Len(queue) < QueueCap /\ queue' = Append(queue, sample[p])
      <4>1. queue \in Seq(Samples) /\ Len(queue) \in Nat
        BY DEF TypeOK
      <4>2. QED
        BY <2>1, <3>2, <4>1, QueueAppend, Constants
    <3>3. QED
      BY <2>2, <3>1, <3>2
  <2>4. /\ sample' \in {sample, [sample EXCEPT ![p] = None]}
        /\ ppc' \in {ppc, [ppc EXCEPT ![p] = "sleep"]}
        /\ panicked' \in {panicked, TRUE}
        /\ UNCHANGED <<made, cpuVars, mpc, closed, workerVars, serverState, history>>
    BY <1>3 DEF Enqueue
  <2>5. TypeOK'
    BY <2>3, <2>4 DEF TypeOK, cpuVars, workerVars, serverState, history
  <2>6. \A q \in Producers : ProducerOK(q)'
    BY <1>3 DEF Enqueue, TypeOK, ProducerOK
  <2>7. QED
    BY <2>5, <2>6
<1>4. QED
  BY <1>1, <1>2, <1>3 DEF Producer

\* The server's part of a POST.
LEMMA HandleTypes ==
    ASSUME TypeOK, NEW t \in Samples, NEW i, Handle(t, i) \/ Unhandled
    PROVE  /\ counted' \in [Producers \X Numbers -> Nat]
           /\ latest' \in [Producers -> Numbers \cup {0}]
<1>1. t.from \in Producers /\ t.num \in Numbers
  BY Constants
<1>2. counted' \in {counted, [counted EXCEPT ![<<t.from, t.num>>] = @ + 1]}
  BY DEF Handle, Unhandled
<1>3. latest' \in {latest, [latest EXCEPT ![t.from] = t.num]}
  BY DEF Handle, Unhandled
<1>4. counted' \in [Producers \X Numbers -> Nat]
  <2>1. <<t.from, t.num>> \in Producers \X Numbers
    BY <1>1
  <2>2. counted[<<t.from, t.num>>] + 1 \in Nat
    BY <2>1 DEF TypeOK
  <2>3. QED
    BY <1>2, <2>1, <2>2 DEF TypeOK
<1>5. QED
  BY <1>1, <1>3, <1>4 DEF TypeOK

LEMMA PostTypes ==
    ASSUME AgentInv, NEW w \in Workers, NEW o \in Outcomes, Post(w, o)
    PROVE  /\ TypeOK'
           /\ wpc[w] = "post" /\ task' = task /\ item' \in [Workers -> 1 .. SampleLen + 1]
           /\ \/ wpc' = wpc /\ item'[w] \in 1 .. task[w].size + 1 /\ finished' = finished
              \/ wpc' = [wpc EXCEPT ![w] = "sleep"] /\ finished' = finished \cup {task[w]}
           /\ \A x \in Workers \ {w} : item'[x] = item[x]
<1>. USE DEF AgentInv
<1>0. /\ wpc[w] = "post" /\ task[w] \in Samples /\ item[w] \in 1 .. task[w].size + 1
      /\ task[w].size \in {0, SampleLen} /\ attempt[w] \in 0 .. RetryAttempts
      /\ item[w] \in 1 .. SampleLen + 1
  BY Constants DEF Post, WorkerOK, TypeOK
<1>1. /\ counted' \in [Producers \X Numbers -> Nat]
      /\ latest' \in [Producers -> Numbers \cup {0}]
  BY <1>0, HandleTypes DEF Post, AtServer
<1>2. [task |-> task[w], item |-> item[w], attempt |-> attempt[w]] \in Posts
  BY <1>0 DEF Posts
<1>3. late' \subseteq Posts
  BY <1>2 DEF Post, AtServer, TypeOK
<1>4. /\ failed' \subseteq Samples
      /\ UNCHANGED <<producerVars, cpuVars, queue, mainVars, task>>
  BY <1>0 DEF Post, TypeOK
<1>5. /\ attempt' \in [Workers -> 0 .. RetryAttempts]
      /\ item' \in [Workers -> 1 .. SampleLen + 1]
      /\ \/ wpc' = wpc /\ item'[w] \in 1 .. task[w].size + 1 /\ finished' = finished
         \/ wpc' = [wpc EXCEPT ![w] = "sleep"] /\ finished' = finished \cup {task[w]}
      /\ \A x \in Workers \ {w} : item'[x] = item[x]
  <2>1. CASE RetryLater(w, o)
    <3>1. attempt[w] + 1 \in 0 .. RetryAttempts
      BY <1>0, <2>1, Constants DEF RetryLater
    <3>2. QED
      BY <1>0, <2>1, <3>1 DEF Post, TypeOK
  <2>2. CASE ~RetryLater(w, o) /\ item[w] <= task[w].size
    <3>1. item[w] + 1 \in 1 .. task[w].size + 1 /\ item[w] + 1 \in 1 .. SampleLen + 1
      BY <1>0, <2>2, Constants
    <3>2. /\ attempt' = [attempt EXCEPT ![w] = 0] /\ item' = [item EXCEPT ![w] = @ + 1]
          /\ wpc' = wpc /\ finished' = finished
      BY <2>2 DEF Post, NextPost
    <3>3. QED
      BY <3>1, <3>2, Constants DEF TypeOK
  <2>3. CASE ~RetryLater(w, o) /\ ~(item[w] <= task[w].size)
    <3>1. /\ attempt' = [attempt EXCEPT ![w] = 0] /\ item' = [item EXCEPT ![w] = 1]
          /\ wpc' = [wpc EXCEPT ![w] = "sleep"] /\ finished' = finished \cup {task[w]}
      BY <2>3 DEF Post, NextPost
    <3>2. 1 \in 1 .. SampleLen + 1 /\ 0 \in 0 .. RetryAttempts
      BY Constants
    <3>3. QED
      BY <3>1, <3>2 DEF TypeOK
  <2>4. QED
    BY <2>1, <2>2, <2>3
<1>6. TypeOK'
  BY <1>0, <1>1, <1>3, <1>4, <1>5 DEF TypeOK, producerVars, cpuVars, mainVars
<1>7. QED
  BY <1>0, <1>4, <1>5, <1>6

LEMMA WorkerTypes ==
    ASSUME AgentInv, NEW w \in Workers, Worker(w)
    PROVE  /\ TypeOK' /\ UNCHANGED <<producerVars, cpuVars, mainVars>>
           /\ \A x \in Workers : WorkerOK(x)'
<1>. USE DEF AgentInv
<1>1. CASE Receive(w)
  <2>1. /\ Head(queue) \in Samples /\ Tail(queue) \in Seq(Samples)
        /\ Len(Tail(queue)) <= QueueCap /\ Head(queue).size \in {0, SampleLen}
    BY <1>1, QueueReceive, Constants DEF Receive, TypeOK
  <2>2. /\ task' = [task EXCEPT ![w] = Head(queue)] /\ queue' = Tail(queue)
        /\ wpc' = [wpc EXCEPT ![w] = IF Head(queue).size = 0 THEN "sleep" ELSE "post"]
        /\ finished' \in {finished, finished \cup {Head(queue)}}
        /\ UNCHANGED <<producerVars, cpuVars, mainVars, item, attempt, serverState, failed>>
        /\ wpc[w] = "receive" /\ queue # <<>>
    BY <1>1 DEF Receive
  <2>3. TypeOK'
    BY <2>1, <2>2 DEF TypeOK, producerVars, cpuVars, mainVars, serverState
  <2>4. \A x \in Workers : wpc[x] # "done"
    BY <2>2 DEF WorkerOK
  <2>5. wpc'[w] = "post" => item'[w] \in 1 .. task'[w].size + 1
    BY <2>1, <2>2 DEF TypeOK
  <2>6. \A x \in Workers : WorkerOK(x)'
    BY <2>1, <2>2, <2>4, <2>5 DEF WorkerOK, TypeOK
  <2>7. QED
    BY <2>2, <2>3, <2>6
<1>2. CASE WorkerStops(w)
  BY <1>2 DEF WorkerStops, TypeOK, WorkerOK, producerVars, cpuVars, mainVars, serverState, history
<1>3. CASE Rest(w)
  BY <1>3 DEF Rest, TypeOK, WorkerOK, producerVars, cpuVars, mainVars, serverState, history
<1>4. ASSUME NEW o \in Outcomes, Post(w, o)
      PROVE  /\ TypeOK' /\ UNCHANGED <<producerVars, cpuVars, mainVars>>
             /\ \A x \in Workers : WorkerOK(x)'
  <2>1. UNCHANGED <<producerVars, cpuVars, queue, mainVars, task>>
    BY <1>4 DEF Post
  <2>2. \A x \in Workers : WorkerOK(x)'
    BY <1>4, <2>1, PostTypes DEF WorkerOK, TypeOK, mainVars
  <2>3. QED
    BY <1>4, <2>1, <2>2, PostTypes
<1>5. QED
  BY <1>1, <1>2, <1>3, <1>4 DEF Worker

LEMMA OthersTypes ==
    ASSUME AgentInv,
           \/ MeasureCPU \/ CPUStops \/ Cancel \/ Close \/ Exit
           \/ \E p \in late : HandleLate(p)
    PROVE  TypeOK' /\ UNCHANGED <<producerVars, queue, panicked, workerVars, history>>
<1>. USE DEF AgentInv
<1>1. CASE MeasureCPU \/ CPUStops \/ Cancel \/ Close \/ Exit
  BY <1>1 DEF MeasureCPU, CPUStops, Cancel, Close, Exit, MainStep, TypeOK,
              producerVars, workerVars, serverState, history, cpuVars, mainVars
<1>2. ASSUME NEW p \in late, HandleLate(p)
      PROVE  TypeOK' /\ UNCHANGED <<producerVars, queue, panicked, workerVars, history>>
  <2>1. p \in Posts /\ p.task \in Samples
    BY DEF TypeOK, Posts
  <2>2. /\ counted' \in [Producers \X Numbers -> Nat]
        /\ latest' \in [Producers -> Numbers \cup {0}]
    BY <1>2, <2>1, HandleTypes DEF HandleLate
  <2>3. QED
    BY <1>2, <2>2 DEF HandleLate, TypeOK, producerVars, workerVars, history, cpuVars, mainVars
<1>3. QED
  BY <1>1, <1>2

LEMMA AgentStep == AgentInv /\ [Next]_vars => AgentInv'
<1>. SUFFICES ASSUME AgentInv, [Next]_vars PROVE AgentInv'
  OBVIOUS
<1>1. ASSUME ~Ended, NEW p \in Producers, Producer(p) PROVE AgentInv'
  <2>1. TypeOK' /\ \A q \in Producers : ProducerOK(q)'
    BY <1>1, ProducerTypes
  <2>2. UNCHANGED <<workerVars, mpc, closed>> /\ (closed => queue' = queue)
    BY <1>1 DEF Producer, ProducerStops, Collect, Enqueue, Wake, mainVars
  <2>3. \A w \in Workers : WorkerOK(w)'
    BY <2>2 DEF AgentInv, WorkerOK, workerVars
  <2>4. mpc # "exit"
    BY <1>1 DEF Ended
  <2>5. QED
    BY <2>1, <2>2, <2>3, <2>4 DEF AgentInv
<1>2. ASSUME ~Ended, NEW w \in Workers, Worker(w) PROVE AgentInv'
  <2>1. /\ TypeOK' /\ UNCHANGED <<producerVars, cpuVars, mainVars>>
        /\ \A x \in Workers : WorkerOK(x)'
    BY <1>2, WorkerTypes
  <2>2. mpc # "exit"
    BY <1>2 DEF Ended
  <2>3. QED
    BY <2>1, <2>2 DEF AgentInv, ProducerOK, producerVars, mainVars
<1>3. ASSUME MeasureCPU \/ CPUStops \/ Cancel \/ Close \/ Exit \/ \E p \in late : HandleLate(p)
      PROVE  AgentInv'
  <2>1. TypeOK' /\ UNCHANGED <<producerVars, queue, panicked, workerVars, history>>
    BY <1>3, OthersTypes
  <2>2. (closed' <=> mpc' \in {"closed", "exit"}) /\ (closed => closed')
    <3>1. closed \in BOOLEAN /\ (closed <=> mpc \in {"closed", "exit"})
      BY DEF AgentInv, TypeOK
    <3>2. \/ UNCHANGED <<mpc, closed>>
          \/ mpc = "wait" /\ mpc' = "cancelled" /\ (closed' <=> closed)
          \/ mpc = "cancelled" /\ mpc' = "closed" /\ closed'
          \/ mpc = "closed" /\ mpc' = "exit" /\ (closed' <=> closed)
      BY <1>3 DEF MeasureCPU, CPUStops, Cancel, Close, Exit, MainStep, HandleLate, mainVars
    <3>3. QED
      BY <3>1, <3>2
  <2>3. mpc' = "exit" => AllDone'
    BY <1>3, <2>1
    DEF AgentInv, MeasureCPU, CPUStops, Cancel, Close, Exit, MainStep, HandleLate, mainVars,
        cpuVars, AllDone, producerVars, workerVars
  <2>4. \A w \in Workers : WorkerOK(w)'
    BY <2>1, <2>2 DEF AgentInv, WorkerOK, workerVars
  <2>5. QED
    BY <2>1, <2>2, <2>3, <2>4 DEF AgentInv, ProducerOK, producerVars
<1>4. CASE UNCHANGED vars
  BY <1>4 DEF vars, AgentInv, TypeOK, WorkerOK, ProducerOK, AllDone,
              producerVars, cpuVars, mainVars, workerVars, serverState, history
<1>5. QED
  BY <1>1, <1>2, <1>3, <1>4 DEF Next

LEMMA AgentInvariant == Spec => []AgentInv
<1>1. Init => AgentInv
  <2>. SUFFICES ASSUME Init PROVE AgentInv
    OBVIOUS
  <2>1. 1 \in 1 .. SampleLen + 1 /\ 0 \in 0 .. RetryAttempts
    BY Constants
  <2>2. queue \in Seq(Samples) /\ Len(queue) <= QueueCap
    BY Constants DEF Init
  <2>3. TypeOK
    BY <2>1, <2>2 DEF Init, TypeOK
  <2>4. (closed <=> mpc \in {"closed", "exit"}) /\ mpc # "exit"
    BY DEF Init
  <2>5. \A w \in Workers : WorkerOK(w)
    BY DEF Init, WorkerOK
  <2>6. \A p \in Producers : ProducerOK(p)
    BY DEF Init, ProducerOK
  <2>7. QED
    BY <2>3, <2>4, <2>5, <2>6 DEF AgentInv
<1>2. QED
  BY <1>1, AgentStep, PTL DEF Spec

(* Whatever the network does and whenever the signal comes, the agent's    *)
(* variables keep their types; the channel never holds more than it can    *)
(* and no POST is tried more than RetryAttempts extra times.               *)
THEOREM AgentTypes == Spec => []TypeOK
BY AgentInvariant, PTL DEF AgentInv

-----------------------------------------------------------------------------
\* A sample stays placed: from the producer's hand into the channel, from the
\* channel to one worker, from there to the finished ones.
LEMMA PlacedStays ==
    ASSUME AgentInv, [Next]_vars, NEW p \in Producers, NEW n, Placed(p, n)
    PROVE  Placed(p, n)'
<1>. USE DEF AgentInv
<1>0. queue \in Seq(Samples)
  BY DEF TypeOK
<1>1. ASSUME NEW q \in Producers, ProducerStops(q) \/ Collect(q) \/ Wake(q)
      PROVE  Placed(p, n)'
  BY <1>1 DEF ProducerStops, Collect, Wake, Placed, TypeOK, workerVars, history, mainVars
<1>2. ASSUME NEW q \in Producers, Enqueue(q) PROVE Placed(p, n)'
  <2>1. sample[q] \in Samples /\ ppc[q] = "send"
    BY <1>2 DEF Enqueue, ProducerOK
  <2>2. UNCHANGED <<finished, wpc, task>>
    BY <1>2 DEF Enqueue, workerVars, history
  <2>3. CASE UNCHANGED <<queue, sample, ppc>>
    BY <2>2, <2>3 DEF Placed
  <2>4. CASE queue' = Append(queue, sample[q]) /\ ppc' = [ppc EXCEPT ![q] = "sleep"]
             /\ sample' = [sample EXCEPT ![q] = None]
    <3>1. ToSet(queue') = ToSet(queue) \cup {sample[q]}
      BY <1>0, <2>1, <2>4, QueueAppend
    <3>2. \A r \in Producers \ {q} : ppc'[r] = ppc[r] /\ sample'[r] = sample[r]
      BY <2>4 DEF TypeOK
    <3>3. sample[q].from = q
      BY <2>1 DEF ProducerOK
    <3>4. QED
      BY <2>2, <3>1, <3>2, <3>3 DEF Placed
  <2>5. QED
    BY <1>2, <2>3, <2>4 DEF Enqueue
<1>3. ASSUME NEW w \in Workers, Receive(w) PROVE Placed(p, n)'
  <2>1. /\ wpc[w] = "receive" /\ queue # <<>> /\ queue' = Tail(queue)
        /\ task' = [task EXCEPT ![w] = Head(queue)]
        /\ wpc' = [wpc EXCEPT ![w] = IF Head(queue).size = 0 THEN "sleep" ELSE "post"]
        /\ finished' = IF Head(queue).size = 0 THEN finished \cup {Head(queue)} ELSE finished
        /\ UNCHANGED <<ppc, sample>>
    BY <1>3 DEF Receive, producerVars
  <2>2. ToSet(queue) = ToSet(queue') \cup {Head(queue)}
    BY <1>0, <2>1, QueueReceive
  <2>3. \/ Head(queue) \in finished'
        \/ wpc'[w] = "post" /\ task'[w] = Head(queue)
    BY <2>1 DEF TypeOK
  <2>4. \A x \in Workers \ {w} : wpc'[x] = wpc[x] /\ task'[x] = task[x]
    BY <2>1 DEF TypeOK
  <2>5. finished \subseteq finished'
    BY <2>1
  <2>6. QED
    BY <2>1, <2>2, <2>3, <2>4, <2>5 DEF Placed
<1>4. ASSUME NEW w \in Workers, WorkerStops(w) \/ Rest(w) PROVE Placed(p, n)'
  BY <1>4 DEF WorkerStops, Rest, Placed, TypeOK, producerVars, history
<1>5. ASSUME NEW w \in Workers, NEW o \in Outcomes, Post(w, o) PROVE Placed(p, n)'
  <2>1. UNCHANGED <<ppc, sample, queue, task>>
    BY <1>5 DEF Post, producerVars
  <2>2. \/ wpc' = wpc /\ finished' = finished
        \/ wpc' = [wpc EXCEPT ![w] = "sleep"] /\ finished' = finished \cup {task[w]}
    BY <1>5, PostTypes
  <2>3. QED
    BY <2>1, <2>2 DEF Placed, TypeOK
<1>6. ASSUME MeasureCPU \/ CPUStops \/ Cancel \/ Close \/ Exit \/ \E l \in late : HandleLate(l)
      PROVE  Placed(p, n)'
  BY <1>6, OthersTypes DEF Placed, producerVars, workerVars, history
<1>7. CASE UNCHANGED vars
  BY <1>7 DEF vars, Placed, producerVars, workerVars, history
<1>8. QED
  BY <1>1, <1>2, <1>3, <1>4, <1>5, <1>6, <1>7 DEF Next, Producer, Worker

\* A panic moves no sample; it ends the process that holds them.
AllPlaced == \A p \in Producers : \A n \in 1 .. made[p] : Placed(p, n)

LEMMA AllPlacedStep == AgentInv /\ AllPlaced /\ [Next]_vars => AllPlaced'
<1>. SUFFICES ASSUME AgentInv, AllPlaced, [Next]_vars, NEW p \in Producers,
                     NEW n \in 1 .. made'[p]
              PROVE  Placed(p, n)'
  BY DEF AllPlaced
<1>1. CASE n \in 1 .. made[p]
  <2>1. Placed(p, n)
    BY <1>1 DEF AllPlaced
  <2>2. QED
    BY <2>1, PlacedStays
<1>2. CASE n \notin 1 .. made[p]
  <2>0. made[p] \in Nat
    <3>1. made[p] \in Numbers \cup {0}
      BY DEF AgentInv, TypeOK
    <3>2. \A k \in Numbers \cup {0} : k \in Nat
      BY Constants
    <3>3. QED
      BY <3>1, <3>2
  <2>1. made' # made
    BY <1>2
  <2>2. PICK q \in Producers : Collect(q)
    BY <2>1, OthersTypes, WorkerTypes
    DEF Next, Producer, ProducerStops, Enqueue, Wake, vars, producerVars
  <2>3. made' = [made EXCEPT ![q] = @ + 1] /\ ppc' = [ppc EXCEPT ![q] = "send"]
        /\ sample'[q].num = made[q] + 1
    BY <2>2 DEF Collect, AgentInv, TypeOK
  <2>4. q = p /\ n = made[p] + 1
    BY <1>2, <2>0, <2>3 DEF AgentInv, TypeOK
  <2>5. ppc'[p] = "send" /\ sample'[p].num = n
    BY <2>3, <2>4 DEF AgentInv, TypeOK
  <2>6. QED
    BY <2>5 DEF Placed
<1>3. QED
  BY <1>1, <1>2

LEMMA EveryPlace == Spec => []AllPlaced
<1>1. Init => AllPlaced
  BY DEF Init, AllPlaced
<1>2. QED
  BY <1>1, AllPlacedStep, AgentInvariant, PTL DEF Spec

(* As long as the agent does not panic no sample is lost inside it: what a *)
(* producer has made is with it, in the channel or with a worker, or one   *)
(* has been through with it, through the shutdown too.                     *)
THEOREM NoSampleLost == Spec => []NothingLeftBehind
<1>1. AllPlaced => NothingLeftBehind
  BY DEF AllPlaced, Placed, NothingLeftBehind
<1>2. QED
  BY <1>1, EveryPlace, PTL

(* When main returns after a signal the channel is empty and a worker has  *)
(* been through with every sample that was ever made.                      *)
THEOREM ShutdownDrains == Spec => []Drained
<1>1. AgentInv /\ AllPlaced => Drained
  <2>. SUFFICES ASSUME AgentInv, AllPlaced, mpc = "exit"
                PROVE  queue = <<>> /\ \A p \in Producers : \A n \in 1 .. made[p] :
                           \E t \in finished : t.from = p /\ t.num = n
    BY DEF Drained
  <2>1. AllDone
    BY DEF AgentInv
  <2>2. queue = <<>>
    BY <2>1, AgentAssumption DEF AllDone, AgentInv, WorkerOK
  <2>3. ToSet(queue) = {}
    BY <2>2 DEF ToSet
  <2>4. QED
    BY <2>1, <2>2, <2>3 DEF AllPlaced, Placed, AllDone
<1>2. QED
  BY <1>1, EveryPlace, AgentInvariant, PTL

-----------------------------------------------------------------------------
Posting == {w \in Workers : wpc[w] = "post"}

\* How many samples of p have left its hand, and what has left any hand.
Sent(p) == IF ppc[p] = "send" THEN made[p] - 1 ELSE made[p]
Out == finished \cup ToSet(queue) \cup {task[w] : w \in Posting}

\* A sample is in one place: once in the channel, or with one worker, or
\* finished.
UniqueInv ==
    /\ \A t \in Out : t.num <= Sent(t.from)
    /\ \A i, j \in 1 .. Len(queue) : queue[i] = queue[j] => i = j
    /\ \A w, x \in Posting : task[w] = task[x] => w = x
    /\ \A w \in Posting : task[w] \notin ToSet(queue) \cup finished
    /\ ToSet(queue) \cap finished = {}

LEMMA SampleNumbers ==
    ASSUME AgentInv
    PROVE  /\ \A t \in Out : t \in Samples /\ t.from \in Producers /\ t.num \in Nat
           /\ \A p \in Producers : made[p] \in Nat /\ Sent(p) \in Int /\ Sent(p) <= made[p]
<1>0. queue \in Seq(Samples) /\ finished \subseteq Samples
      /\ \A p \in Producers : made[p] \in Numbers \cup {0}
  BY DEF AgentInv, TypeOK
<1>1. \A p \in Producers : made[p] \in Nat
  BY <1>0, Constants
<1>2. ASSUME NEW t \in Out PROVE t \in Samples
  <2>1. t \in ToSet(queue) => t \in Samples
    BY <1>0, InSeq
  <2>2. QED
    BY <1>0, <1>2, <2>1 DEF Out, Posting, AgentInv, WorkerOK
<1>3. \A t \in Out : t.from \in Producers /\ t.num \in Nat
  BY <1>2, Constants
<1>4. QED
  BY <1>1, <1>2, <1>3 DEF Sent

\* Steps that move no sample.
LEMMA UniqueKept ==
    ASSUME AgentInv, UniqueInv, UNCHANGED <<queue, finished>>,
           \A w \in Workers : wpc'[w] = "post" => wpc[w] = "post" /\ task'[w] = task[w],
           \A p \in Producers : Sent(p)' = Sent(p)
    PROVE  UniqueInv'
<1>1. Posting' \subseteq Posting /\ \A w \in Posting' : task'[w] = task[w]
  BY DEF Posting
<1>2. Out' \subseteq Out
  BY <1>1 DEF Out
<1>3. \A t \in Out' : t.num <= Sent(t.from)'
  BY <1>2, SampleNumbers DEF UniqueInv
<1>4. QED
  BY <1>1, <1>3 DEF UniqueInv

LEMMA UniqueProduces ==
    ASSUME AgentInv, UniqueInv, NEW p \in Producers, Producer(p)
    PROVE  UniqueInv'
<1>a. /\ ppc \in [Producers -> {"check", "send", "sleep", "done"}]
      /\ made \in [Producers -> Numbers \cup {0}] /\ queue \in Seq(Samples)
      /\ made[p] \in Nat
  BY SampleNumbers DEF AgentInv, TypeOK
<1>1. CASE ProducerStops(p) \/ Collect(p) \/ Wake(p)
  <2>1. UNCHANGED <<queue, finished, wpc, task>>
    BY <1>1 DEF ProducerStops, Collect, Wake, workerVars, history
  <2>2. CASE ProducerStops(p) \/ Wake(p)
    <3>1. made' = made /\ \A q \in Producers : ppc'[q] = "send" <=> ppc[q] = "send"
      BY <1>a, <2>2 DEF ProducerStops, Wake
    <3>2. QED
      BY <2>1, <3>1, UniqueKept DEF Sent
  <2>3. CASE Collect(p)
    <3>1. /\ ppc[p] = "check" /\ ppc'[p] = "send" /\ made'[p] = made[p] + 1
          /\ \A q \in Producers \ {p} : ppc'[q] = ppc[q] /\ made'[q] = made[q]
      BY <1>a, <2>3 DEF Collect
    <3>2. Sent(p)' = Sent(p)
      BY <1>a, <3>1 DEF Sent
    <3>3. \A q \in Producers : Sent(q)' = Sent(q)
      BY <3>1, <3>2 DEF Sent
    <3>4. QED
      BY <2>1, <3>3, UniqueKept
  <2>4. QED
    BY <1>1, <2>2, <2>3
<1>2. CASE Enqueue(p)
  <2>1. UNCHANGED <<finished, wpc, task, made>> /\ ppc[p] = "send"
        /\ sample[p] \in Samples /\ sample[p].from = p /\ sample[p].num = made[p]
    BY <1>2 DEF Enqueue, workerVars, history, AgentInv, ProducerOK
  <2>2. CASE UNCHANGED <<queue, sample, ppc>>
    BY <2>1, <2>2, UniqueKept DEF Sent
  <2>3. CASE queue' = Append(queue, sample[p]) /\ ppc' = [ppc EXCEPT ![p] = "sleep"]
    <3>1. ToSet(queue') = ToSet(queue) \cup {sample[p]}
      BY <1>a, <2>1, <2>3, QueueAppend
    <3>2. /\ Len(queue') = Len(queue) + 1 /\ Len(queue) \in Nat
          /\ \A i \in 1 .. Len(queue) : queue'[i] = queue[i]
          /\ queue'[Len(queue) + 1] = sample[p]
      BY <1>a, <2>1, <2>3, AppendProperties
    <3>3. Sent(p) = made[p] - 1 /\ Sent(p)' = made[p]
          /\ \A q \in Producers \ {p} : Sent(q)' = Sent(q)
      BY <1>a, <2>1, <2>3 DEF Sent
    <3>4. sample[p] \notin Out
      BY <1>a, <2>1, <3>3 DEF UniqueInv
    <3>5. Posting' = Posting /\ Out' = Out \cup {sample[p]}
      BY <2>1, <3>1 DEF Out, Posting
    <3>6. ASSUME NEW t \in Out' PROVE t.num <= Sent(t.from)'
      <4>1. CASE t = sample[p]
        BY <1>a, <2>1, <3>3, <4>1
      <4>2. CASE t \in Out /\ t.from = p
        BY <1>a, <3>3, <4>2, SampleNumbers DEF UniqueInv
      <4>3. CASE t \in Out /\ t.from # p
        BY <3>3, <4>3, SampleNumbers DEF UniqueInv
      <4>4. QED
        BY <3>5, <3>6, <4>1, <4>2, <4>3
    <3>7. ASSUME NEW i \in 1 .. Len(queue'), NEW j \in 1 .. Len(queue'), queue'[i] = queue'[j]
          PROVE  i = j
      <4>1. \A k \in 1 .. Len(queue) : queue[k] # sample[p]
        BY <1>a, <3>4, InSeq DEF Out
      <4>2. /\ i \in 1 .. Len(queue) \/ i = Len(queue) + 1
            /\ j \in 1 .. Len(queue) \/ j = Len(queue) + 1
        BY <3>2
      <4>3. QED
        BY <3>2, <3>7, <4>1, <4>2 DEF UniqueInv
    <3>8. \A w \in Posting : task[w] # sample[p]
      BY <3>4 DEF Out
    <3>9. sample[p] \notin finished
      BY <3>4 DEF Out
    <3>10. QED
      BY <2>1, <3>1, <3>5, <3>6, <3>7, <3>8, <3>9 DEF UniqueInv
  <2>4. QED
    BY <1>2, <2>2, <2>3 DEF Enqueue
<1>3. QED
  BY <1>1, <1>2 DEF Producer

LEMMA UniqueWorks ==
    ASSUME AgentInv, UniqueInv, NEW w \in Workers, Worker(w)
    PROVE  UniqueInv'
<1>a. /\ wpc \in [Workers -> {"receive", "post", "sleep", "done"}]
      /\ task \in [Workers -> Samples \cup {None}] /\ queue \in Seq(Samples)
  BY DEF AgentInv, TypeOK
<1>b. \A p \in Producers : Sent(p)' = Sent(p)
  BY WorkerTypes DEF producerVars, Sent
<1>1. CASE Receive(w)
  <2>1. /\ wpc[w] = "receive" /\ queue # <<>> /\ queue' = Tail(queue)
        /\ task' = [task EXCEPT ![w] = Head(queue)]
        /\ wpc' = [wpc EXCEPT ![w] = IF Head(queue).size = 0 THEN "sleep" ELSE "post"]
        /\ finished' = IF Head(queue).size = 0 THEN finished \cup {Head(queue)} ELSE finished
    BY <1>1 DEF Receive
  <2>2. ToSet(queue) = ToSet(queue') \cup {Head(queue)}
    BY <1>a, <2>1, QueueReceive
  <2>3. /\ Tail(queue) \in Seq(Samples) /\ Len(Tail(queue)) = Len(queue) - 1
        /\ \A i \in 1 .. Len(Tail(queue)) : Tail(queue)[i] = queue[i + 1]
        /\ Len(queue) \in Nat \ {0} /\ Head(queue) = queue[1]
    BY <1>a, <2>1, HeadTailProperties, EmptySeq
  <2>4. Head(queue) \notin ToSet(queue')
    <3>1. \A i \in 1 .. Len(Tail(queue)) : i + 1 \in 1 .. Len(queue) /\ i + 1 # 1
      BY <2>3
    <3>2. \A i \in 1 .. Len(Tail(queue)) : Tail(queue)[i] # queue[1]
      BY <2>3, <3>1 DEF UniqueInv
    <3>3. QED
      BY <2>1, <2>3, <3>2, InSeq
  <2>5. ASSUME NEW i \in 1 .. Len(queue'), NEW j \in 1 .. Len(queue'), queue'[i] = queue'[j]
        PROVE  i = j
    <3>1. i + 1 \in 1 .. Len(queue) /\ j + 1 \in 1 .. Len(queue)
      BY <2>1, <2>3
    <3>2. i + 1 = j + 1
      BY <2>1, <2>3, <2>5, <3>1 DEF UniqueInv
    <3>3. QED
      BY <3>2
  <2>6. \/ /\ finished' = finished \cup {Head(queue)} /\ Posting' = Posting
           /\ \A x \in Posting : task'[x] = task[x]
        \/ /\ finished' = finished /\ Posting' = Posting \cup {w} /\ w \notin Posting
           /\ task'[w] = Head(queue) /\ \A x \in Posting : task'[x] = task[x]
    BY <1>a, <2>1 DEF Posting
  <2>7. Out' \subseteq Out
    BY <2>2, <2>6 DEF Out
  <2>8. \A t \in Out' : t.num <= Sent(t.from)'
    BY <1>b, <2>7, SampleNumbers DEF UniqueInv
  <2>9. /\ \A x \in Posting : task[x] # Head(queue)
        /\ Head(queue) \notin finished
    BY <2>2 DEF UniqueInv
  <2>10. QED
    BY <2>2, <2>4, <2>5, <2>6, <2>8, <2>9 DEF UniqueInv
<1>2. CASE WorkerStops(w) \/ Rest(w)
  BY <1>2, <1>a, <1>b, UniqueKept DEF WorkerStops, Rest, history
<1>3. ASSUME NEW o \in Outcomes, Post(w, o) PROVE UniqueInv'
  <2>1. /\ w \in Posting /\ task' = task /\ queue' = queue
        /\ \/ wpc' = wpc /\ finished' = finished
           \/ wpc' = [wpc EXCEPT ![w] = "sleep"] /\ finished' = finished \cup {task[w]}
    BY <1>3, PostTypes DEF Post, Posting
  <2>2. CASE wpc' = wpc /\ finished' = finished
    BY <1>b, <2>1, <2>2, UniqueKept
  <2>3. CASE wpc' = [wpc EXCEPT ![w] = "sleep"] /\ finished' = finished \cup {task[w]}
    <3>1. Posting' = Posting \ {w}
      BY <1>a, <2>3 DEF Posting
    <3>2. Out' \subseteq Out
      BY <2>1, <2>3, <3>1 DEF Out
    <3>3. \A t \in Out' : t.num <= Sent(t.from)'
      BY <1>b, <3>2, SampleNumbers DEF UniqueInv
    <3>4. QED
      BY <2>1, <2>3, <3>1, <3>3 DEF UniqueInv
  <2>4. QED
    BY <2>1, <2>2, <2>3
<1>4. QED
  BY <1>1, <1>2, <1>3 DEF Worker

LEMMA UniqueStep == AgentInv /\ UniqueInv /\ [Next]_vars => UniqueInv'
<1>. SUFFICES ASSUME AgentInv, UniqueInv, [Next]_vars PROVE UniqueInv'
  OBVIOUS
<1>1. ASSUME MeasureCPU \/ CPUStops \/ Cancel \/ Close \/ Exit \/ \E p \in late : HandleLate(p)
      PROVE  UniqueInv'
  BY <1>1, OthersTypes, UniqueKept DEF producerVars, workerVars, history, Sent
<1>2. CASE UNCHANGED vars
  BY <1>2, UniqueKept DEF vars, producerVars, workerVars, history, Sent
<1>3. QED
  BY <1>1, <1>2, UniqueProduces, UniqueWorks DEF Next

-----------------------------------------------------------------------------
\* Where a worker is in its sample: at the first POST unless it is posting, and
\* at a first attempt unless an attempt of this sample has failed.
WorkInv == \A w \in Workers :
    /\ wpc[w] # "post" => item[w] = 1 /\ attempt[w] = 0
    /\ wpc[w] = "post" => /\ task[w].size > 0
                          /\ task[w] \notin failed => attempt[w] = 0

LEMMA WorkStep == AgentInv /\ WorkInv /\ [Next]_vars => WorkInv'
<1>. SUFFICES ASSUME AgentInv, WorkInv, [Next]_vars PROVE WorkInv'
  OBVIOUS
<1>a. /\ wpc \in [Workers -> {"receive", "post", "sleep", "done"}]
      /\ task \in [Workers -> Samples \cup {None}]
      /\ item \in [Workers -> 1 .. SampleLen + 1]
      /\ attempt \in [Workers -> 0 .. RetryAttempts] /\ queue \in Seq(Samples)
  BY DEF AgentInv, TypeOK
<1>1. ASSUME UNCHANGED <<workerVars, failed>> PROVE WorkInv'
  BY <1>1 DEF WorkInv, workerVars
<1>2. ASSUME NEW p \in Producers, Producer(p) PROVE WorkInv'
  BY <1>1, <1>2 DEF Producer, ProducerStops, Collect, Enqueue, Wake, history
<1>3. ASSUME NEW w \in Workers, Receive(w) PROVE WorkInv'
  <2>1. Head(queue) \in Samples /\ Head(queue).size \in Nat
    BY <1>a, <1>3, QueueReceive, Constants DEF Receive
  <2>2. /\ wpc[w] = "receive" /\ task' = [task EXCEPT ![w] = Head(queue)]
        /\ wpc' = [wpc EXCEPT ![w] = IF Head(queue).size = 0 THEN "sleep" ELSE "post"]
        /\ UNCHANGED <<item, attempt, failed>>
    BY <1>3 DEF Receive
  <2>3. QED
    BY <1>a, <2>1, <2>2 DEF WorkInv
<1>4. ASSUME NEW w \in Workers, WorkerStops(w) \/ Rest(w) PROVE WorkInv'
  BY <1>a, <1>4 DEF WorkerStops, Rest, WorkInv, history
<1>5. ASSUME NEW w \in Workers, NEW o \in Outcomes, Post(w, o) PROVE WorkInv'
  <2>1. /\ task' = task /\ wpc[w] = "post"
        /\ failed' = IF o = "ok" THEN failed ELSE failed \cup {task[w]}
    BY <1>5 DEF Post
  <2>2. CASE RetryLater(w, o)
    <3>1. o # "ok" /\ attempt' = [attempt EXCEPT ![w] = @ + 1] /\ UNCHANGED <<wpc, item>>
      BY <1>5, <2>2 DEF Post, RetryLater, IsRetriable
    <3>2. QED
      BY <1>a, <2>1, <3>1 DEF WorkInv
  <2>3. CASE ~RetryLater(w, o)
    <3>1. /\ attempt' = [attempt EXCEPT ![w] = 0]
          /\ \/ item' = [item EXCEPT ![w] = @ + 1] /\ wpc' = wpc
             \/ item' = [item EXCEPT ![w] = 1] /\ wpc' = [wpc EXCEPT ![w] = "sleep"]
      BY <1>5, <2>3 DEF Post, NextPost
    <3>2. QED
      BY <1>a, <2>1, <3>1 DEF WorkInv
  <2>4. QED
    BY <2>2, <2>3
<1>6. ASSUME MeasureCPU \/ CPUStops \/ Cancel \/ Close \/ Exit \/ \E p \in late : HandleLate(p)
      PROVE  WorkInv'
  BY <1>1, <1>6, OthersTypes DEF history
<1>7. CASE UNCHANGED vars
  BY <1>1, <1>7 DEF vars, history
<1>8. QED
  BY <1>2, <1>3, <1>4, <1>5, <1>6, <1>7 DEF Next, Worker

-----------------------------------------------------------------------------
\* Attempt a of POST i of the sample t is over for the agent.
Over(t, i, a) ==
    \/ t \in finished
    \/ \E w \in Posting : task[w] = t /\ (item[w] > i \/ (item[w] = i /\ attempt[w] > a))

\* Only a step of a POST ends an attempt.
LEMMA OverSame ==
    ASSUME AgentInv, UniqueInv, WorkInv, [Next]_vars,
           ~\E w \in Workers, o \in Outcomes : Post(w, o),
           NEW t \in Samples, t.size > 0, NEW i \in Nat \ {0}, NEW a \in Nat
    PROVE  Over(t, i, a)' <=> Over(t, i, a)
<1>a. /\ wpc \in [Workers -> {"receive", "post", "sleep", "done"}]
      /\ task \in [Workers -> Samples \cup {None}] /\ queue \in Seq(Samples)
  BY DEF AgentInv, TypeOK
<1>1. ASSUME NEW w \in Workers, Receive(w) PROVE Over(t, i, a)' <=> Over(t, i, a)
  <2>1. /\ wpc[w] = "receive" /\ queue # <<>> /\ task' = [task EXCEPT ![w] = Head(queue)]
        /\ wpc' = [wpc EXCEPT ![w] = IF Head(queue).size = 0 THEN "sleep" ELSE "post"]
        /\ finished' = IF Head(queue).size = 0 THEN finished \cup {Head(queue)} ELSE finished
        /\ UNCHANGED <<item, attempt>> /\ item[w] = 1 /\ attempt[w] = 0
    BY <1>1 DEF Receive, WorkInv
  <2>2. Head(queue) \in ToSet(queue)
    BY <1>a, <2>1, QueueReceive
  <2>3. CASE Head(queue).size = 0
    <3>1. Posting' = Posting /\ \A x \in Posting : task'[x] = task[x]
      BY <1>a, <2>1, <2>3 DEF Posting
    <3>2. t \in finished' <=> t \in finished
      BY <2>1, <2>3
    <3>3. QED
      BY <2>1, <3>1, <3>2 DEF Over
  <2>4. CASE Head(queue).size # 0
    <3>1. /\ Posting' = Posting \cup {w} /\ \A x \in Posting : task'[x] = task[x]
          /\ finished' = finished
      BY <1>a, <2>1, <2>4 DEF Posting
    <3>2. ~(item[w] > i \/ (item[w] = i /\ attempt[w] > a))
      BY <2>1
    <3>3. QED
      BY <2>1, <3>1, <3>2 DEF Over
  <2>5. QED
    BY <2>3, <2>4
<1>2. ASSUME UNCHANGED <<finished, item, attempt>>,
             \A w \in Workers : (wpc'[w] = "post" <=> wpc[w] = "post")
                                /\ (wpc[w] = "post" => task'[w] = task[w])
      PROVE  Over(t, i, a)' <=> Over(t, i, a)
  BY <1>2 DEF Over, Posting
<1>3. ASSUME NEW w \in Workers, WorkerStops(w) \/ Rest(w)
      PROVE  Over(t, i, a)' <=> Over(t, i, a)
  BY <1>a, <1>2, <1>3 DEF WorkerStops, Rest, history
<1>4. ASSUME UNCHANGED <<workerVars, finished>> PROVE Over(t, i, a)' <=> Over(t, i, a)
  BY <1>2, <1>4 DEF workerVars
<1>5. ASSUME NEW p \in Producers, Producer(p) PROVE Over(t, i, a)' <=> Over(t, i, a)
  BY <1>4, <1>5 DEF Producer, ProducerStops, Collect, Enqueue, Wake, history
<1>6. ASSUME MeasureCPU \/ CPUStops \/ Cancel \/ Close \/ Exit \/ \E p \in late : HandleLate(p)
      PROVE  Over(t, i, a)' <=> Over(t, i, a)
  BY <1>4, <1>6, OthersTypes DEF history
<1>7. CASE UNCHANGED vars
  BY <1>4, <1>7 DEF vars, history
<1>8. QED
  BY <1>1, <1>3, <1>5, <1>6, <1>7 DEF Next, Worker

\* The attempt of a POST is over with it, and was not before.
LEMMA OverPost ==
    ASSUME AgentInv, UniqueInv, WorkInv, NEW w \in Workers, NEW o \in Outcomes, Post(w, o),
           NEW s, NEW j, NEW b, s = task[w], j = item[w], b = attempt[w]
    PROVE  /\ ~Over(s, j, b) /\ Over(s, j, b)'
           /\ \A t \in Samples, i, a \in Nat : Over(t, i, a) => Over(t, i, a)'
           /\ \A t \in Samples \ {s}, i, a \in Nat : Over(t, i, a)' => Over(t, i, a)
           /\ o = "ok" => \A i \in {1, SampleLen + 1} :
                 Over(s, i, 0)' => Over(s, i, 0) \/ i = j
<1>a. /\ wpc \in [Workers -> {"receive", "post", "sleep", "done"}]
      /\ item \in [Workers -> 1 .. SampleLen + 1]
      /\ attempt \in [Workers -> 0 .. RetryAttempts]
      /\ \A x \in Workers : item[x] \in Nat /\ attempt[x] \in Nat
  BY Constants DEF AgentInv, TypeOK
<1>b. /\ wpc[w] = "post" /\ w \in Posting /\ task' = task /\ task[w] \in Samples
      /\ item[w] \in 1 .. task[w].size + 1 /\ task[w].size = SampleLen
  BY Constants DEF Post, Posting, AgentInv, WorkerOK, WorkInv
<1>1. ~Over(s, j, b)
  <2>1. task[w] \notin finished /\ \A x \in Posting : task[x] = task[w] => x = w
    BY <1>b DEF UniqueInv
  <2>2. QED
    BY <1>a, <2>1 DEF Over
<1>2. \/ /\ wpc' = wpc /\ finished' = finished /\ item' = item
         /\ attempt' = [attempt EXCEPT ![w] = @ + 1] /\ o # "ok"
      \/ /\ wpc' = wpc /\ finished' = finished /\ item' = [item EXCEPT ![w] = @ + 1]
         /\ attempt' = [attempt EXCEPT ![w] = 0]
      \/ /\ wpc' = [wpc EXCEPT ![w] = "sleep"] /\ finished' = finished \cup {task[w]}
         /\ item' = [item EXCEPT ![w] = 1] /\ attempt' = [attempt EXCEPT ![w] = 0]
         /\ item[w] = SampleLen + 1
  <2>1. CASE RetryLater(w, o)
    BY <2>1 DEF Post, RetryLater, IsRetriable
  <2>2. CASE ~RetryLater(w, o) /\ item[w] <= task[w].size
    BY <2>2 DEF Post, NextPost
  <2>3. CASE ~RetryLater(w, o) /\ ~(item[w] <= task[w].size)
    <3>1. item[w] = SampleLen + 1
      BY <1>b, <2>3, Constants
    <3>2. QED
      BY <2>3, <3>1 DEF Post, NextPost
  <2>4. QED
    BY <2>1, <2>2, <2>3
<1>3. CASE /\ wpc' = wpc /\ finished' = finished
           /\ \/ item' = item /\ attempt' = [attempt EXCEPT ![w] = @ + 1] /\ o # "ok"
              \/ item' = [item EXCEPT ![w] = @ + 1] /\ attempt' = [attempt EXCEPT ![w] = 0]
  <2>1. /\ Posting' = Posting /\ \A x \in Posting \ {w} : item'[x] = item[x] /\ attempt'[x] = attempt[x]
        /\ \/ item'[w] = item[w] /\ attempt'[w] = attempt[w] + 1 /\ o # "ok"
           \/ item'[w] = item[w] + 1 /\ attempt'[w] = 0
    BY <1>3, <1>a DEF Posting
  <2>2. Over(s, j, b)'
    BY <1>a, <1>b, <2>1 DEF Over
  <2>3. ASSUME NEW t \in Samples, NEW i \in Nat, NEW a \in Nat, Over(t, i, a)
        PROVE  Over(t, i, a)'
    <3>1. CASE t \in finished
      BY <1>3, <3>1 DEF Over
    <3>2. CASE t \notin finished
      <4>1. PICK x \in Posting :
               task[x] = t /\ (item[x] > i \/ (item[x] = i /\ attempt[x] > a))
        BY <2>3, <3>2 DEF Over
      <4>2. x \in Workers
        BY DEF Posting
      <4>3. item'[x] > i \/ (item'[x] = i /\ attempt'[x] > a)
        BY <1>a, <2>1, <4>1, <4>2
      <4>4. QED
        BY <1>b, <2>1, <4>1, <4>3 DEF Over
    <3>3. QED
      BY <3>1, <3>2
  <2>4. \A t \in Samples \ {s}, i, a \in Nat : Over(t, i, a)' => Over(t, i, a)
    BY <1>3, <1>b, <2>1 DEF Over
  <2>5. ASSUME o = "ok", NEW i \in {1, SampleLen + 1}, Over(s, i, 0)'
        PROVE  Over(s, i, 0) \/ i = j
    <3>1. task[w] \notin finished /\ \A x \in Posting : task[x] = task[w] => x = w
      BY <1>b DEF UniqueInv
    <3>2. item'[w] > i \/ (item'[w] = i /\ attempt'[w] > 0)
      BY <1>3, <1>b, <2>1, <2>5, <3>1 DEF Over
    <3>3. i \in Nat
      BY Constants
    <3>4. item[w] >= i
      BY <1>a, <2>1, <2>5, <3>2, <3>3
    <3>5. QED
      BY <1>a, <1>b, <3>3, <3>4 DEF Over
  <2>6. QED
    BY <1>1, <2>2, <2>3, <2>4, <2>5
<1>4. CASE /\ wpc' = [wpc EXCEPT ![w] = "sleep"] /\ finished' = finished \cup {task[w]}
           /\ item' = [item EXCEPT ![w] = 1] /\ attempt' = [attempt EXCEPT ![w] = 0]
           /\ item[w] = SampleLen + 1
  <2>1. /\ Posting' = Posting \ {w} /\ \A x \in Posting' : item'[x] = item[x] /\ attempt'[x] = attempt[x]
    BY <1>4, <1>a DEF Posting
  <2>2. \A i, a \in Nat : Over(s, i, a)'
    BY <1>4 DEF Over
  <2>3. \A t \in Samples \ {s}, i, a \in Nat : Over(t, i, a)' <=> Over(t, i, a)
    BY <1>4, <1>b, <2>1 DEF Over
  <2>4. ASSUME NEW i \in {1, SampleLen + 1} PROVE Over(s, i, 0) \/ i = j
    <3>1. CASE i = 1
      <4>1. item[w] > 1
        BY <1>4, Constants
      <4>2. QED
        BY <1>b, <3>1, <4>1 DEF Over
    <3>2. QED
      BY <1>4, <2>4, <3>1
  <2>5. Over(s, j, b)'
    BY <1>4 DEF Over
  <2>6. \A t \in Samples, i, a \in Nat : Over(t, i, a) => Over(t, i, a)'
    BY <2>2, <2>3
  <2>7. QED
    BY <1>1, <2>3, <2>4, <2>5, <2>6
<1>5. QED
  BY <1>2, <1>3, <1>4

-----------------------------------------------------------------------------
\* The samples that carry PollCount, and the attempts of the two POSTs of each
\* that do: metric 1 of Send and the batch.
Polled == {t \in Samples : t.from = "poll" /\ t.size > 0}
Carrying == {1, SampleLen + 1}
Slots == Carrying \X (0 .. RetryAttempts)
PostOf(t, i, a) == [task |-> t, item |-> i, attempt |-> a]

\* H is the attempts for t that the server has handled: each once, all of them
\* over, none of them still to come; unless one failed, the first of each POST.
HandledBy(t, H) ==
    /\ H \in SUBSET Slots
    /\ counted[<<t.from, t.num>>] = Cardinality(H)
    /\ \A i \in Carrying, a \in 0 .. RetryAttempts :
          <<i, a>> \in H => Over(t, i, a) /\ PostOf(t, i, a) \notin late
    /\ t \notin failed => \A i \in Carrying, a \in 0 .. RetryAttempts :
          <<i, a>> \in H <=> a = 0 /\ Over(t, i, 0)

TwiceInv ==
    /\ \A p \in late : p.task.size > 0 /\ p.task \in failed /\ Over(p.task, p.item, p.attempt)
    /\ \A t \in Polled : \E H : HandledBy(t, H)

LEMMA SlotFacts ==
    /\ IsFiniteSet(Slots) /\ Cardinality(Slots) = 2 * (RetryAttempts + 1)
    /\ \A H \in SUBSET Slots : IsFiniteSet(H) /\ Cardinality(H) <= 2 * (RetryAttempts + 1)
    /\ Carrying \subseteq Nat \ {0} /\ 0 .. RetryAttempts \subseteq Nat /\ 0 \in 0 .. RetryAttempts
<1>1. 1 # SampleLen + 1 /\ RetryAttempts \in Nat /\ SampleLen + 1 \in Nat \ {0}
  BY Constants
<1>2. IsFiniteSet(Carrying) /\ Cardinality(Carrying) = 2
  <2>1. IsFiniteSet({1}) /\ Cardinality({1}) = 1
    BY FS_Singleton
  <2>2. Carrying = {1} \cup {SampleLen + 1} /\ SampleLen + 1 \notin {1}
    BY <1>1 DEF Carrying
  <2>3. QED
    BY <2>1, <2>2, FS_AddElement
<1>3. IsFiniteSet(0 .. RetryAttempts) /\ Cardinality(0 .. RetryAttempts) = RetryAttempts + 1
  BY <1>1, FS_Interval
<1>4. IsFiniteSet(Slots) /\ Cardinality(Slots) = 2 * (RetryAttempts + 1)
  BY <1>2, <1>3, FS_Product DEF Slots
<1>5. \A H \in SUBSET Slots : IsFiniteSet(H) /\ Cardinality(H) <= 2 * (RetryAttempts + 1)
  BY <1>4, FS_Subset
<1>6. QED
  BY <1>1, <1>4, <1>5 DEF Carrying

\* A POST that the server handles counts for its own sample only.
LEMMA HandleCounts ==
    ASSUME TypeOK, NEW t \in Polled, NEW u \in Samples, u.size > 0, NEW i, Handle(u, i)
    PROVE  counted'[<<t.from, t.num>>] = IF t = u /\ i \in Carrying
                                         THEN counted[<<t.from, t.num>>] + 1
                                         ELSE counted[<<t.from, t.num>>]
<1>1. /\ t \in Samples /\ t.from = "poll" /\ t.size = SampleLen /\ u.size = SampleLen
      /\ <<t.from, t.num>> \in Producers \X Numbers
  BY Constants DEF Polled
<1>2. u.from = "poll" /\ u.num = t.num => u = t
  BY <1>1 DEF Samples
<1>3. counted' = IF u.from = "poll" /\ i \in Carrying
                 THEN [counted EXCEPT ![<<u.from, u.num>>] = @ + 1] ELSE counted
  BY <1>1 DEF Handle, Carrying
<1>4. QED
  BY <1>1, <1>2, <1>3 DEF TypeOK

\* One more attempt is handled.
LEMMA OneMore ==
    ASSUME NEW H \in SUBSET Slots, NEW i \in Carrying, NEW a \in 0 .. RetryAttempts, <<i, a>> \notin H
    PROVE  /\ H \cup {<<i, a>>} \in SUBSET Slots
           /\ Cardinality(H \cup {<<i, a>>}) = Cardinality(H) + 1
<1>1. IsFiniteSet(H)
  BY SlotFacts
<1>2. QED
  BY <1>1, FS_AddElement DEF Slots

LEMMA LateCounts ==
    ASSUME AgentInv, UniqueInv, WorkInv, TwiceInv, [Next]_vars,
           ~\E w \in Workers, o \in Outcomes : Post(w, o)
    PROVE  TwiceInv'
<1>a. TypeOK
  BY DEF AgentInv
<1>b. \A p \in late : /\ p.task \in Samples /\ p.item \in Nat \ {0}
                      /\ p.attempt \in 0 .. RetryAttempts /\ p.attempt \in Nat
                      /\ p = PostOf(p.task, p.item, p.attempt)
  BY <1>a, Constants DEF TypeOK, Posts, PostOf
<1>c. \A t \in Samples, i \in Nat \ {0}, a \in Nat : t.size > 0 => (Over(t, i, a)' <=> Over(t, i, a))
  BY OverSame
<1>d. /\ \A t \in Polled, i \in Carrying, a \in 0 .. RetryAttempts : Over(t, i, a)' <=> Over(t, i, a)
      /\ \A t \in Polled, i \in Carrying : Over(t, i, 0)' <=> Over(t, i, 0)
  BY <1>c, SlotFacts DEF Polled
<1>1. CASE UNCHANGED <<late, counted, failed>>
  <2>1. ASSUME NEW p \in late'
        PROVE  p.task.size > 0 /\ p.task \in failed' /\ Over(p.task, p.item, p.attempt)'
    BY <1>1, <1>b, <1>c, <2>1 DEF TwiceInv
  <2>2. ASSUME NEW t \in Polled PROVE \E H : HandledBy(t, H)'
    <3>1. PICK H : HandledBy(t, H)
      BY DEF TwiceInv
    <3>2. HandledBy(t, H)'
      BY <1>1, <1>d, <3>1 DEF HandledBy
    <3>3. QED
      BY <3>2
  <2>3. QED
    BY <2>1, <2>2 DEF TwiceInv
<1>2. ASSUME NEW p \in late, HandleLate(p) PROVE TwiceInv'
  <2>1. /\ Handle(p.task, p.item) /\ late' = late \ {p} /\ failed' = failed
        /\ p.task.size > 0 /\ p.task \in failed
    BY <1>2 DEF HandleLate, history, TwiceInv
  <2>2. ASSUME NEW q \in late'
        PROVE  q.task.size > 0 /\ q.task \in failed' /\ Over(q.task, q.item, q.attempt)'
    BY <1>b, <1>c, <2>1, <2>2 DEF TwiceInv
  <2>3. ASSUME NEW t \in Polled PROVE \E H : HandledBy(t, H)'
    <3>1. PICK H : HandledBy(t, H)
      BY DEF TwiceInv
    <3>2. CASE t = p.task /\ p.item \in Carrying
      <4> DEFINE K == H \cup {<<p.item, p.attempt>>}
      <4>1. <<p.item, p.attempt>> \notin H
        BY <1>b, <3>1, <3>2 DEF HandledBy
      <4>2. K \in SUBSET Slots /\ Cardinality(K) = Cardinality(H) + 1
        BY <1>b, <3>1, <3>2, <4>1, OneMore DEF HandledBy
      <4>3. counted'[<<t.from, t.num>>] = counted[<<t.from, t.num>>] + 1
        BY <1>a, <1>b, <2>1, <3>2, HandleCounts
      <4>4. t \in failed'
        BY <2>1, <3>2
      <4>5. ASSUME NEW i \in Carrying, NEW a \in 0 .. RetryAttempts, <<i, a>> \in K
            PROVE  Over(t, i, a)' /\ PostOf(t, i, a) \notin late'
        <5>1. CASE <<i, a>> \in H
          BY <1>d, <2>1, <3>1, <5>1 DEF HandledBy
        <5>2. CASE i = p.item /\ a = p.attempt
          BY <1>b, <1>d, <2>1, <3>2, <5>2 DEF TwiceInv
        <5>3. QED
          BY <4>5, <5>1, <5>2
      <4>6. HandledBy(t, K)'
        BY <3>1, <4>2, <4>3, <4>4, <4>5 DEF HandledBy
      <4>7. QED
        BY <4>6
    <3>3. CASE ~(t = p.task /\ p.item \in Carrying)
      <4>1. counted'[<<t.from, t.num>>] = counted[<<t.from, t.num>>]
        BY <1>a, <1>b, <2>1, <3>3, HandleCounts
      <4>2. HandledBy(t, H)'
        BY <1>d, <2>1, <3>1, <4>1 DEF HandledBy
      <4>3. QED
        BY <4>2
    <3>4. QED
      BY <3>2, <3>3
  <2>4. QED
    BY <2>2, <2>3 DEF TwiceInv
<1>3. CASE ~\E p \in late : HandleLate(p)
  <2>1. UNCHANGED <<late, counted, failed>>
    BY <1>3 DEF Next, vars, Producer, ProducerStops, Collect, Enqueue, Wake, Worker, Receive,
                WorkerStops, Rest, MeasureCPU, CPUStops, Cancel, Close, Exit, MainStep,
                serverState, history
  <2>2. QED
    BY <1>1, <2>1
<1>4. QED
  BY <1>2, <1>3

LEMMA PostCounts ==
    ASSUME AgentInv, UniqueInv, WorkInv, TwiceInv, NEW w \in Workers, NEW o \in Outcomes, Post(w, o)
    PROVE  TwiceInv'
<1>a. TypeOK
  BY DEF AgentInv
<1>b. \A p \in late : /\ p.task \in Samples /\ p.item \in Nat /\ p.attempt \in Nat
                      /\ p = PostOf(p.task, p.item, p.attempt)
  BY <1>a, Constants DEF TypeOK, Posts, PostOf
<1>c. \A t, u, i, j, a, b : PostOf(t, i, a) = PostOf(u, j, b) => t = u /\ i = j /\ a = b
  BY DEF PostOf
<1> DEFINE s == task[w]
           j == item[w]
           b == attempt[w]
<1>1. /\ s \in Samples /\ s.size > 0 /\ j \in Nat /\ b \in 0 .. RetryAttempts /\ b \in Nat
      /\ s \notin failed => b = 0
  <2>1. wpc[w] = "post"
    BY DEF Post
  <2>2. s \in Samples /\ j \in 1 .. SampleLen + 1 /\ b \in 0 .. RetryAttempts
    BY <1>a, <2>1 DEF AgentInv, WorkerOK, TypeOK
  <2>3. QED
    BY <2>1, <2>2, Constants DEF WorkInv
<1>2. PICK t0, j0, b0 : t0 = s /\ j0 = j /\ b0 = b
  OBVIOUS
<1>3. /\ ~Over(t0, j0, b0) /\ Over(t0, j0, b0)'
      /\ \A t \in Samples, i, a \in Nat : Over(t, i, a) => Over(t, i, a)'
      /\ \A t \in Samples \ {t0}, i, a \in Nat : Over(t, i, a)' => Over(t, i, a)
      /\ o = "ok" => \A i \in {1, SampleLen + 1} : Over(t0, i, 0)' => Over(t0, i, 0) \/ i = j0
  BY <1>2, OverPost
<1>4. /\ failed' = IF o = "ok" THEN failed ELSE failed \cup {t0}
      /\ \/ Handle(t0, j0) /\ late' = late
         \/ /\ o # "ok" /\ counted' = counted
            /\ late' = late \/ late' = late \cup {PostOf(t0, j0, b0)}
  BY <1>2 DEF Post, AtServer, Unhandled, PostOf
<1>5. PostOf(t0, j0, b0) \notin late
  BY <1>3 DEF TwiceInv, PostOf
<1>6. Carrying \subseteq Nat /\ 0 .. RetryAttempts \subseteq Nat /\ 0 \in Nat
  BY SlotFacts
<1>7. ASSUME NEW p \in late'
      PROVE  p.task.size > 0 /\ p.task \in failed' /\ Over(p.task, p.item, p.attempt)'
  <2>1. CASE p \in late
    BY <1>b, <1>3, <1>4, <2>1 DEF TwiceInv
  <2>2. CASE p \notin late
    BY <1>1, <1>2, <1>3, <1>4, <1>7, <2>2 DEF PostOf
  <2>3. QED
    BY <2>1, <2>2
<1>8. ASSUME NEW t \in Polled, t # t0 PROVE \E H : HandledBy(t, H)'
  <2>1. PICK H : HandledBy(t, H)
    BY DEF TwiceInv
  <2>2. counted'[<<t.from, t.num>>] = counted[<<t.from, t.num>>]
    BY <1>a, <1>1, <1>2, <1>4, <1>8, HandleCounts
  <2>3. \A i \in Carrying, a \in 0 .. RetryAttempts : PostOf(t, i, a) \in late' => PostOf(t, i, a) \in late
    BY <1>c, <1>4, <1>8
  <2>4. \A i \in Carrying, a \in Nat : Over(t, i, a)' <=> Over(t, i, a)
    BY <1>3, <1>6, <1>8 DEF Polled
  <2>5. t \in failed' <=> t \in failed
    BY <1>4, <1>8
  <2>6. HandledBy(t, H)'
    BY <1>6, <2>1, <2>2, <2>3, <2>4, <2>5 DEF HandledBy
  <2>7. QED
    BY <2>6
<1>9. ASSUME t0 \in Polled PROVE \E H : HandledBy(t0, H)'
  <2>1. PICK H : HandledBy(t0, H)
    BY <1>9 DEF TwiceInv
  <2>2. \A i \in Carrying, a \in 0 .. RetryAttempts : Over(t0, i, a) => Over(t0, i, a)'
    BY <1>3, <1>6, <1>9 DEF Polled
  <2>3. <<j0, b0>> \in H => FALSE
    BY <1>3, <2>1 DEF HandledBy, Slots
  <2>4. CASE j0 \in Carrying /\ Handle(t0, j0) /\ late' = late
    <3> DEFINE K == H \cup {<<j0, b0>>}
    <3>1. K \in SUBSET Slots /\ Cardinality(K) = Cardinality(H) + 1
      BY <1>1, <1>2, <2>1, <2>3, <2>4, OneMore DEF HandledBy
    <3>2. counted'[<<t0.from, t0.num>>] = counted[<<t0.from, t0.num>>] + 1
      BY <1>a, <1>1, <1>2, <1>9, <2>4, HandleCounts
    <3>3. ASSUME NEW i \in Carrying, NEW a \in 0 .. RetryAttempts, <<i, a>> \in K
          PROVE  Over(t0, i, a)' /\ PostOf(t0, i, a) \notin late'
      <4>1. CASE <<i, a>> \in H
        BY <2>1, <2>2, <2>4, <4>1 DEF HandledBy
      <4>2. CASE i = j0 /\ a = b0
        BY <1>3, <1>5, <2>4, <4>2
      <4>3. QED
        BY <3>3, <4>1, <4>2
    <3>4. ASSUME t0 \notin failed', NEW i \in Carrying, NEW a \in 0 .. RetryAttempts
          PROVE  <<i, a>> \in K <=> a = 0 /\ Over(t0, i, 0)'
      <4>1. o = "ok" /\ t0 \notin failed /\ b0 = 0
        BY <1>1, <1>2, <1>4, <3>4
      <4>2. <<i, a>> \in H <=> a = 0 /\ Over(t0, i, 0)
        BY <2>1, <4>1 DEF HandledBy
      <4>3. Over(t0, i, 0)' <=> Over(t0, i, 0) \/ i = j0
        BY <1>3, <1>6, <1>9, <4>1 DEF Polled, Carrying
      <4>4. QED
        BY <4>1, <4>2, <4>3
    <3>5. HandledBy(t0, K)'
      BY <2>1, <3>1, <3>2, <3>3, <3>4 DEF HandledBy
    <3>6. QED
      BY <3>5
  <2>5. CASE j0 \notin Carrying /\ Handle(t0, j0) /\ late' = late
    <3>1. counted'[<<t0.from, t0.num>>] = counted[<<t0.from, t0.num>>]
      BY <1>a, <1>1, <1>2, <1>9, <2>5, HandleCounts
    <3>2. ASSUME t0 \notin failed', NEW i \in Carrying
          PROVE  Over(t0, i, 0)' <=> Over(t0, i, 0)
      BY <1>3, <1>4, <1>6, <1>9, <2>5, <3>2 DEF Polled, Carrying
    <3>3. failed \subseteq failed'
      BY <1>4
    <3>4. HandledBy(t0, H)'
      BY <2>1, <2>2, <2>5, <3>1, <3>2, <3>3 DEF HandledBy
    <3>5. QED
      BY <3>4
  <2>6. CASE o # "ok" /\ counted' = counted
    <3>1. t0 \in failed'
      BY <1>4, <2>6
    <3>2. \A i \in Carrying, a \in 0 .. RetryAttempts :
              <<i, a>> \in H => PostOf(t0, i, a) \notin late'
      BY <1>c, <1>4, <2>1, <2>3 DEF HandledBy
    <3>3. HandledBy(t0, H)'
      BY <2>1, <2>2, <2>6, <3>1, <3>2 DEF HandledBy
    <3>4. QED
      BY <3>3
  <2>7. QED
    BY <1>4, <2>4, <2>5, <2>6
<1>10. QED
  BY <1>7, <1>8, <1>9 DEF TwiceInv

LEMMA TwiceInvariant == Spec => [](AgentInv /\ UniqueInv /\ WorkInv /\ TwiceInv)
<1>1. ASSUME Init PROVE UniqueInv /\ WorkInv /\ TwiceInv
  <2>1. /\ queue = <<>> /\ finished = {} /\ late = {} /\ failed = {}
        /\ \A w \in Workers : wpc[w] = "receive" /\ item[w] = 1 /\ attempt[w] = 0
        /\ \A c \in Producers \X Numbers : counted[c] = 0
    BY <1>1 DEF Init
  <2>2. Posting = {} /\ ToSet(queue) = {} /\ Len(queue) = 0
    BY <2>1 DEF Posting, ToSet
  <2>3. UniqueInv
    BY <2>1, <2>2 DEF UniqueInv, Out
  <2>4. WorkInv
    BY <2>1 DEF WorkInv
  <2>5. ASSUME NEW t \in Polled PROVE HandledBy(t, {})
    <3>1. <<t.from, t.num>> \in Producers \X Numbers
      BY Constants DEF Polled
    <3>2. counted[<<t.from, t.num>>] = 0 /\ Cardinality({}) = 0
      BY <2>1, <3>1, FS_EmptySet
    <3>3. \A i, a : ~Over(t, i, a)
      BY <2>1, <2>2 DEF Over
    <3>4. QED
      BY <2>1, <3>2, <3>3 DEF HandledBy
  <2>6. QED
    BY <2>1, <2>3, <2>4, <2>5 DEF TwiceInv
<1>2. AgentInv /\ UniqueInv /\ WorkInv /\ TwiceInv /\ [Next]_vars => TwiceInv'
  BY LateCounts, PostCounts
<1>3. QED
  BY AgentInvariant, <1>1, <1>2, UniqueStep, WorkStep, PTL DEF Spec

(* For any number of workers, retries and samples: a sample whose POSTs    *)
(* were all answered 200 adds its PollCount exactly twice, and no sample   *)
(* more often than once per attempt of the two POSTs that carry it.        *)
THEOREM CountsTwice == Spec => []CountedTwice
<1>1. ASSUME UniqueInv, TwiceInv PROVE CountedTwice
  <2>. SUFFICES ASSUME NEW t \in Polled
                PROVE  /\ counted[<<t.from, t.num>>] <= 2 * (RetryAttempts + 1)
                       /\ t \in finished \ failed => counted[<<t.from, t.num>>] = 2
    BY DEF CountedTwice, Polled
  <2>1. PICK H : HandledBy(t, H)
    BY <1>1 DEF TwiceInv
  <2>2. counted[<<t.from, t.num>>] <= 2 * (RetryAttempts + 1)
    BY <2>1, SlotFacts DEF HandledBy
  <2>3. ASSUME t \in finished \ failed PROVE counted[<<t.from, t.num>>] = 2
    <3>1. \A i \in Carrying : Over(t, i, 0)
      BY <2>3 DEF Over
    <3>2. \A i \in Carrying, a \in 0 .. RetryAttempts : <<i, a>> \in H <=> a = 0
      BY <2>1, <2>3, <3>1 DEF HandledBy
    <3>3. H = {<<1, 0>>} \cup {<<SampleLen + 1, 0>>}
      BY <2>1, <3>2, SlotFacts DEF HandledBy, Slots, Carrying
    <3>4. <<SampleLen + 1, 0>> \notin {<<1, 0>>}
      BY Constants
    <3>5. IsFiniteSet({<<1, 0>>}) /\ Cardinality({<<1, 0>>}) = 1
      BY FS_Singleton
    <3>. DEFINE First == {<<1, 0>>}
                Second == <<SampleLen + 1, 0>>
    <3>6. IsFiniteSet(First) /\ Cardinality(First) = 1 /\ Second \notin First
      BY <3>4, <3>5
    <3>7. Cardinality(H) = 2
      <4>. HIDE DEF First, Second
      <4>1. Cardinality(First \cup {Second}) = Cardinality(First) + 1
        BY <3>6, FS_AddElement
      <4>2. Cardinality(First \cup {Second}) = 2
        BY <3>6, <4>1
      <4>3. H = First \cup {Second}
        BY <3>3 DEF First, Second
      <4>4. QED
        BY <4>2, <4>3
    <3>8. QED
      BY <2>1, <3>7 DEF HandledBy
  <2>4. QED
    BY <2>2, <2>3
<1>2. QED
  BY TwiceInvariant, <1>1, PTL

-----------------------------------------------------------------------------
\* One worker and no late POST: what the worker has in hand comes before what
\* is in the channel, which is in the order it was made; the server's gauges
\* are of none of them, or of the one in hand.
InTurn == (\A w, x \in Workers : w = x) /\ "timeout" \notin Outcomes

NotAfter(t, u) == t.from = u.from => t.num <= u.num

OrderInv ==
    /\ late = {}
    /\ \A p \in Producers : latest[p] <= made[p]
    /\ \A i, j \in 1 .. Len(queue) : i <= j => NotAfter(queue[i], queue[j])
    /\ \A w \in Posting, t \in ToSet(queue) : NotAfter(task[w], t)
    /\ \A w \in Posting : latest[task[w].from] <= task[w].num
    /\ \A t \in ToSet(queue) : latest[t.from] <= t.num

LatestGrows == \A p \in Producers : latest[p] <= latest'[p]

\* Steps that leave the channel, the workers and the server alone.
LEMMA OrderKept ==
    ASSUME AgentInv, OrderInv, UNCHANGED <<queue, serverState>>,
           \A w \in Workers : wpc'[w] = "post" => wpc[w] = "post" /\ task'[w] = task[w],
           \A p \in Producers : made'[p] = made[p] \/ made'[p] = made[p] + 1
    PROVE  OrderInv' /\ LatestGrows
<1>1. \A p \in Producers : latest[p] \in Nat /\ made[p] \in Nat
  BY Constants DEF AgentInv, TypeOK
<1>2. Posting' \subseteq Posting /\ \A w \in Posting' : task'[w] = task[w]
  BY DEF Posting
<1>3. UNCHANGED <<late, latest>>
  BY DEF serverState
<1>4. \A p \in Producers : latest'[p] <= made'[p]
  BY <1>1, <1>3 DEF OrderInv
<1>5. QED
  BY <1>1, <1>2, <1>3, <1>4 DEF OrderInv, LatestGrows, NotAfter

LEMMA OrderProduces ==
    ASSUME AgentInv, UniqueInv, OrderInv, NEW p \in Producers, Producer(p)
    PROVE  OrderInv' /\ LatestGrows
<1>a. /\ made \in [Producers -> Numbers \cup {0}] /\ queue \in Seq(Samples)
      /\ \A q \in Producers : latest[q] \in Nat /\ made[q] \in Nat
  BY Constants DEF AgentInv, TypeOK
<1>1. CASE ProducerStops(p) \/ Collect(p) \/ Wake(p)
  <2>1. UNCHANGED <<queue, serverState, wpc, task>>
    BY <1>1 DEF ProducerStops, Collect, Wake, workerVars
  <2>2. \A q \in Producers : made'[q] = made[q] \/ made'[q] = made[q] + 1
    BY <1>1, <1>a DEF ProducerStops, Collect, Wake
  <2>3. QED
    BY <2>1, <2>2, OrderKept
<1>2. CASE Enqueue(p)
  <2>1. UNCHANGED <<late, latest, wpc, task, made>>
        /\ sample[p] \in Samples /\ sample[p].from = p /\ sample[p].num = made[p]
    BY <1>2 DEF Enqueue, workerVars, serverState, AgentInv, ProducerOK
  <2>2. CASE queue' = queue
    BY <1>2, <2>1, <2>2, OrderKept DEF Enqueue
  <2>3. CASE queue' = Append(queue, sample[p])
    <3>1. ToSet(queue') = ToSet(queue) \cup {sample[p]}
      BY <1>a, <2>1, <2>3, QueueAppend
    <3>2. /\ Len(queue') = Len(queue) + 1 /\ Len(queue) \in Nat
          /\ \A i \in 1 .. Len(queue) : queue'[i] = queue[i]
          /\ queue'[Len(queue) + 1] = sample[p]
      BY <1>a, <2>1, <2>3, AppendProperties
    <3>3. ASSUME NEW t \in Out PROVE NotAfter(t, sample[p])
      <4>1. t.num \in Nat /\ Sent(t.from) \in Int /\ t.num <= Sent(t.from)
            /\ Sent(t.from) <= made[t.from] /\ made[t.from] \in Nat
        BY SampleNumbers DEF UniqueInv
      <4>2. QED
        BY <2>1, <4>1 DEF NotAfter
    <3>4. ASSUME NEW i \in 1 .. Len(queue'), NEW j \in 1 .. Len(queue'), i <= j
          PROVE  NotAfter(queue'[i], queue'[j])
      <4>1. CASE j \in 1 .. Len(queue)
        <5>1. i \in 1 .. Len(queue)
          BY <3>2, <3>4, <4>1
        <5>2. QED
          BY <3>2, <3>4, <4>1, <5>1 DEF OrderInv
      <4>2. CASE j = Len(queue) + 1 /\ i \in 1 .. Len(queue)
        <5>1. queue[i] \in Out
          BY <1>a, <4>2, InSeq DEF Out
        <5>2. QED
          BY <3>2, <3>3, <4>2, <5>1
      <4>3. CASE j = Len(queue) + 1 /\ i = j
        BY <1>a, <2>1, <3>2, <4>3 DEF NotAfter
      <4>4. QED
        BY <3>2, <4>1, <4>2, <4>3
    <3>5. \A w \in Posting, t \in ToSet(queue') : NotAfter(task[w], t)
      BY <3>1, <3>3 DEF OrderInv, Out
    <3>6. \A t \in ToSet(queue') : latest[t.from] <= t.num
      BY <2>1, <3>1 DEF OrderInv
    <3>7. Posting' = Posting
      BY <2>1 DEF Posting
    <3>8. QED
      BY <1>a, <2>1, <3>4, <3>5, <3>6, <3>7 DEF OrderInv, LatestGrows
  <2>4. QED
    BY <1>2, <2>2, <2>3 DEF Enqueue
<1>3. QED
  BY <1>1, <1>2 DEF Producer

LEMMA OrderReceives ==
    ASSUME AgentInv, OrderInv, InTurn, NEW w \in Workers, Receive(w)
    PROVE  OrderInv' /\ LatestGrows
<1>a. /\ wpc \in [Workers -> {"receive", "post", "sleep", "done"}]
      /\ task \in [Workers -> Samples \cup {None}] /\ queue \in Seq(Samples)
      /\ \A p \in Producers : latest[p] \in Nat
  BY Constants DEF AgentInv, TypeOK
<1>1. /\ queue # <<>> /\ queue' = Tail(queue) /\ task'[w] = Head(queue)
      /\ UNCHANGED <<late, latest, made>>
  BY <1>a DEF Receive, producerVars, serverState
<1>2. ToSet(queue) = ToSet(queue') \cup {Head(queue)}
  BY <1>a, <1>1, QueueReceive
<1>3. /\ Tail(queue) \in Seq(Samples) /\ Len(Tail(queue)) = Len(queue) - 1
      /\ \A i \in 1 .. Len(Tail(queue)) : Tail(queue)[i] = queue[i + 1]
      /\ Len(queue) \in Nat \ {0} /\ Head(queue) = queue[1]
  BY <1>a, <1>1, HeadTailProperties, EmptySeq
<1>4. ASSUME NEW i \in 1 .. Len(queue'), NEW j \in 1 .. Len(queue'), i <= j
      PROVE  NotAfter(queue'[i], queue'[j])
  <2>1. i + 1 \in 1 .. Len(queue) /\ j + 1 \in 1 .. Len(queue) /\ i + 1 <= j + 1
    BY <1>1, <1>3, <1>4
  <2>2. NotAfter(queue[i + 1], queue[j + 1])
    BY <2>1 DEF OrderInv
  <2>3. QED
    BY <1>1, <1>3, <2>2
<1>5. \A x \in Posting' : task'[x] = Head(queue)
  BY <1>1 DEF InTurn, Posting
<1>6. ASSUME NEW t \in ToSet(queue') PROVE NotAfter(Head(queue), t)
  <2>1. PICK i \in 1 .. Len(queue') : t = queue'[i]
    BY <1>1, <1>3, InSeq
  <2>2. 1 \in 1 .. Len(queue) /\ i + 1 \in 1 .. Len(queue) /\ 1 <= i + 1
    BY <1>1, <1>3
  <2>3. NotAfter(queue[1], queue[i + 1])
    BY <2>2 DEF OrderInv
  <2>4. QED
    BY <1>1, <1>3, <2>1, <2>3
<1>7. QED
  BY <1>a, <1>1, <1>2, <1>4, <1>5, <1>6 DEF OrderInv, LatestGrows

LEMMA OrderPosts ==
    ASSUME AgentInv, UniqueInv, OrderInv, InTurn,
           NEW w \in Workers, NEW o \in Outcomes, Post(w, o)
    PROVE  OrderInv' /\ LatestGrows
<1>a. /\ queue \in Seq(Samples) /\ latest \in [Producers -> Numbers \cup {0}]
      /\ \A p \in Producers : latest[p] \in Nat /\ made[p] \in Nat
      /\ wpc \in [Workers -> {"receive", "post", "sleep", "done"}]
  BY Constants DEF AgentInv, TypeOK
<1>1. /\ w \in Posting /\ UNCHANGED <<task, queue, made>>
      /\ \/ wpc' = wpc
         \/ wpc' = [wpc EXCEPT ![w] = "sleep"]
  BY PostTypes DEF Post, Posting, producerVars
<1>2. Posting' \subseteq Posting
  BY <1>1, <1>a DEF Posting
<1>3. late' = late
  BY DEF Post, AtServer, InTurn
<1>4. \/ latest' = latest
      \/ latest' = [latest EXCEPT ![task[w].from] = task[w].num]
  BY DEF Post, AtServer, Handle, Unhandled
<1>5. /\ task[w] \in Out /\ task[w].from \in Producers /\ task[w].num \in Nat
      /\ task[w].num <= made[task[w].from]
  <2>1. task[w] \in Out
    BY <1>1 DEF Out
  <2>2. QED
    BY <2>1, SampleNumbers, <1>a DEF UniqueInv
<1>6. latest[task[w].from] <= task[w].num
  BY <1>1 DEF OrderInv
<1>7. \A p \in Producers : latest[p] <= latest'[p] /\ latest'[p] <= made[p]
  BY <1>a, <1>4, <1>5, <1>6 DEF OrderInv
<1>8. \A x \in Posting : x = w
  BY DEF InTurn, Posting
<1>9. latest'[task[w].from] <= task[w].num
  BY <1>a, <1>4, <1>5, <1>6
<1>10. ASSUME NEW t \in ToSet(queue) PROVE latest'[t.from] <= t.num
  <2>1. t \in Samples /\ t.from \in Producers /\ t.num \in Nat
    BY SampleNumbers DEF Out
  <2>2. NotAfter(task[w], t) /\ latest[t.from] <= t.num
    BY <1>1 DEF OrderInv
  <2>3. QED
    BY <1>a, <1>4, <1>5, <2>1, <2>2 DEF NotAfter
<1>11. QED
  BY <1>1, <1>2, <1>3, <1>7, <1>8, <1>9, <1>10 DEF OrderInv, LatestGrows

LEMMA OrderStep ==
    AgentInv /\ UniqueInv /\ OrderInv /\ InTurn /\ [Next]_vars => OrderInv' /\ LatestGrows
<1>. SUFFICES ASSUME AgentInv, UniqueInv, OrderInv, InTurn, [Next]_vars
              PROVE  OrderInv' /\ LatestGrows
  OBVIOUS
<1>1. CASE MeasureCPU \/ CPUStops \/ Cancel \/ Close \/ Exit \/ UNCHANGED vars
  <2>1. UNCHANGED <<producerVars, queue, workerVars, serverState>>
    BY <1>1 DEF MeasureCPU, CPUStops, Cancel, Close, Exit, MainStep, vars
  <2>2. QED
    BY <2>1, OrderKept DEF producerVars, workerVars
<1>2. ASSUME NEW w \in Workers, WorkerStops(w) \/ Rest(w) PROVE OrderInv' /\ LatestGrows
  <2>1. wpc \in [Workers -> {"receive", "post", "sleep", "done"}]
        /\ task \in [Workers -> Samples \cup {None}]
    BY DEF AgentInv, TypeOK
  <2>2. /\ UNCHANGED <<producerVars, queue, serverState>>
        /\ \A x \in Workers : wpc'[x] = "post" => wpc[x] = "post" /\ task'[x] = task[x]
    BY <1>2, <2>1 DEF WorkerStops, Rest
  <2>3. QED
    BY <2>2, OrderKept DEF producerVars
<1>3. late = {}
  BY DEF OrderInv
<1>4. QED
  BY <1>1, <1>2, <1>3, OrderProduces, OrderReceives, OrderPosts DEF Next, Worker

LEMMA OrderInvariant == Spec => [](AgentInv /\ UniqueInv /\ (InTurn => OrderInv))
<1>1. ASSUME Init PROVE UniqueInv /\ OrderInv
  <2>1. /\ queue = <<>> /\ finished = {} /\ late = {} /\ Posting = {}
        /\ \A p \in Producers : latest[p] = 0 /\ made[p] = 0
    BY <1>1 DEF Init, Posting
  <2>2. Len(queue) = 0 /\ ToSet(queue) = {}
    BY <2>1 DEF ToSet
  <2>3. QED
    BY <2>1, <2>2 DEF UniqueInv, OrderInv, Out
<1>2. AgentInv /\ UniqueInv /\ (InTurn => OrderInv) /\ [Next]_vars => (InTurn => OrderInv)'
  BY OrderStep DEF InTurn
<1>3. QED
  BY <1>1, <1>2, AgentInvariant, UniqueStep, PTL DEF Spec

(* For any capacity, samples and retries, with one worker and no POST that *)
(* is handled late: the server's gauges never go back to an older sample.  *)
THEOREM GaugesStayInOrder == Spec => GaugesInOrder
<1>1. ASSUME AgentInv, UniqueInv, InTurn => OrderInv, [Next]_vars
      PROVE  [ \/ \E w, x \in Workers : w # x
               \/ "timeout" \in Outcomes
               \/ \A p \in Producers : latest[p] <= latest'[p] ]_vars
  BY <1>1, OrderStep DEF InTurn, LatestGrows
<1>2. QED
  BY <1>1, OrderInvariant, PTL DEF Spec, GaugesInOrder
=============================================================================
