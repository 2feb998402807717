---------------------------- MODULE LuaWorkerPool ----------------------------
(***************************************************************************)
(* A pool of Lua worker threads (src/data/core/worker_pool.lua, workers run *)
(* worker_bootstrap.lua). The main thread and each worker share nothing but *)
(* two channels, input and output (src/src/api/channel.c), and a cancel     *)
(* token for each job. The main thread pushes to an input and goes on; a    *)
(* worker supplies to its output: it waits until the main thread has        *)
(* received the value. The main thread drains the outputs in each frame,    *)
(* until nothing is left or the time for it is spent.                       *)
(*                                                                          *)
(* A step is one section under a channel's mutex; what the main thread does *)
(* with a message that it popped is part of that step, as no other thread   *)
(* reads the pool. Left out: jobs that the pool hands to its native pool    *)
(* (NativePool), and the cancel channel, which says what the token says.    *)
(***************************************************************************)
EXTENDS Integers, FiniteSets, Sequences

CONSTANTS
  Jobs,       \* bound: the jobs that can be submitted
  NoJob,      \* the job of a message that names none
  Count,      \* the number of workers
  MaxSends    \* bound: messages that a handler sends itself

ASSUME LuaPoolAssumption ==
  /\ IsFiniteSet(Jobs) /\ NoJob \notin Jobs
  /\ Count \in Nat \ {0} /\ MaxSends \in Nat

Workers == 1..Count
Ends == {"complete", "error", "cancelled"}
Outcomes == {"complete", "failed", "cancelled", "stale"}

VARIABLES
  phase,        \* open, closing, waiting for acknowledgements, joining, down
  status,       \* what pool:status tells of each job
  jobs,         \* the jobs that the pool keeps
  asked,        \* the jobs whose cancel token is set
  worker_id,    \* the worker that each job went to, or 0
  next_worker,  \* the worker that the last submission took
  turn,         \* the worker whose output the drain looks at next, or 0 between drains
  acked,        \* workers whose worker_shutdown arrived
  joined,       \* workers that the shutdown has done with
  late,         \* the wait for acknowledgements ran out of time
  input, output,    \* the values in each worker's channels, oldest first
  unreceived,   \* sent - received of each output channel
  pc,           \* where each worker is: start, wait, run, supply, stopped
  after,        \* where it goes on when its supply returns
  job,          \* the job whose handler it runs
  terminal_sent,    \* that handler has sent an ending message itself
  sends         \* counter for the bound

poolVars == <<status, jobs, asked, worker_id, next_worker>>
mainVars == <<phase, turn, acked, joined, late>>
channelVars == <<input, output, unreceived>>
handlerVars == <<job, terminal_sent, sends>>
workerVars == <<pc, after, handlerVars>>
vars == <<poolVars, mainVars, channelVars, workerVars>>

Message(type, j) == [type |-> type, job |-> j]

Init ==
  /\ phase = "open" /\ turn = 0 /\ acked = {} /\ joined = {} /\ late = FALSE
  /\ status = [j \in Jobs |-> "none"] /\ jobs = {} /\ asked = {}
  /\ worker_id = [j \in Jobs |-> 0] /\ next_worker = 0
  /\ input = [w \in Workers |-> <<>>] /\ output = [w \in Workers |-> <<>>]
  /\ unreceived = [w \in Workers |-> 0]
  /\ pc = [w \in Workers |-> "start"] /\ after = [w \in Workers |-> "wait"]
  /\ job = [w \in Workers |-> NoJob] /\ terminal_sent = [w \in Workers |-> FALSE]
  /\ sends = [w \in Workers |-> 0]

-----------------------------------------------------------------------------
\* The main thread's operations. Callbacks may call them too, during a drain.
Load(w) == Cardinality({j \in jobs : worker_id[j] = w})

\* The lane of a priority: interactive jobs have the first worker, background jobs the others.
Lane(priority) ==
  IF Count = 1 THEN Workers
  ELSE CASE priority = "background" -> 2..Count
         [] priority = "interactive" -> {1}
         [] OTHER -> Workers

\* Mutant: the round goes on behind the end of the lane.
NthWithoutEnd(first, size, offset) == first + ((next_worker + offset - first) % (size + 1))

\* The worker that is the offset-th to be tried.
Nth(first, size, offset) == first + ((next_worker + offset - first) % size)

\* choose_worker: the first of the least loaded, from the worker after the last choice.
Choice(priority) ==
  LET lane == Lane(priority)
      first == CHOOSE w \in lane : \A v \in lane : w <= v
      nth(offset) == Nth(first, Cardinality(lane), offset)
      Best(o) == \A p \in 1..Cardinality(lane) :
        Load(nth(o)) < Load(nth(p)) \/ (Load(nth(o)) = Load(nth(p)) /\ o <= p)
  IN  nth(CHOOSE o \in 1..Cardinality(lane) : Best(o))

Submit(j, priority) ==
  /\ phase = "open" /\ status[j] = "none"
  /\ LET w == Choice(priority)
     IN  /\ worker_id' = [worker_id EXCEPT ![j] = w]
         /\ next_worker' = w
         /\ input' = [input EXCEPT ![w] = Append(@, Message("run", j))]
  /\ status' = [status EXCEPT ![j] = "queued"]
  /\ jobs' = jobs \cup {j}
  /\ UNCHANGED <<asked, mainVars, output, unreceived, workerVars>>

\* cancel for the jobs of S. The worker ignores a cancel message in its input, and a job
\* that was asked before changes no more.
Ask(S) ==
  /\ asked' = asked \cup S
  /\ status' = [j \in Jobs |-> IF j \in S /\ status[j] = "queued" THEN "cancelling" ELSE status[j]]

Cancel(j) ==
  /\ phase \in {"open", "closing", "waiting"} /\ j \in jobs \ asked
  /\ Ask({j})
  /\ UNCHANGED <<jobs, worker_id, next_worker, mainVars, channelVars, workerVars>>

\* The first part of shutdown.
StartShutdown ==
  /\ phase = "open" /\ turn = 0
  /\ phase' = "closing"
  /\ Ask(jobs)
  /\ input' = [w \in Workers |-> Append(input[w], Message("shutdown", NoJob))]
  /\ UNCHANGED <<jobs, worker_id, next_worker, turn, acked, joined, late,
                 output, unreceived, workerVars>>

-----------------------------------------------------------------------------
\* Draining.
AllAcked == acked = Workers

BeginDrain ==
  /\ turn = 0 /\ phase \in {"open", "closing", "waiting"} /\ ~AllAcked
  /\ turn' = 1
  /\ phase' = IF phase = "closing" THEN "waiting" ELSE phase
  /\ UNCHANGED <<poolVars, acked, joined, late, channelVars, workerVars>>

Following(w) == IF w = Count THEN 0 ELSE w + 1

Outcome(type) == IF type = "error" THEN "failed" ELSE type

\* Mutant: an ended job stays in the pool.
ReleasedNever(j) == jobs

\* release_terminal_job.
Released(j) == jobs \ {j}

\* dispatch_message for a message of job j, which its owner may call stale.
Dispatch(m, stale) ==
  LET j == m.job
      seen == IF status[j] \notin {"queued", "cancelling"} THEN status[j]
              ELSE IF j \in asked THEN "cancelling" ELSE "running"
  IN  /\ status' = [status EXCEPT ![j] =
           IF m.type \notin Ends THEN seen ELSE IF stale THEN "stale" ELSE Outcome(m.type)]
      /\ jobs' = IF m.type \in Ends THEN Released(j) ELSE jobs

\* Mutant: the value is popped, and nobody counts it.
NotAcknowledged(w) == unreceived

\* channelPop counts the value as received.
Acknowledged(w) == [unreceived EXCEPT ![w] = @ - 1]

\* The drain looks at the output of worker `turn`. After a message it may be out of time;
\* a round that found something is followed by another one, which is a drain of its own here.
Drain(stale, more) ==
  LET w == turn
      m == Head(output[w])
  IN  /\ w \in Workers
      /\ IF output[w] = <<>>
           THEN /\ more /\ ~stale
                /\ UNCHANGED <<poolVars, acked, output, unreceived>>
           ELSE /\ output' = [output EXCEPT ![w] = Tail(@)]
                /\ unreceived' = Acknowledged(w)
                /\ acked' = IF m.type = "shutdown" THEN acked \cup {w} ELSE acked
                /\ IF m.job \in jobs THEN Dispatch(m, stale) ELSE ~stale /\ UNCHANGED <<status, jobs>>
                /\ UNCHANGED <<asked, worker_id, next_worker>>
      /\ turn' = IF more THEN Following(w) ELSE 0
      /\ UNCHANGED <<phase, joined, late, input, workerVars>>

\* The end of shutdown's wait.
EndWait ==
  /\ phase = "waiting" /\ turn = 0 /\ AllAcked
  /\ phase' = "joining"
  /\ UNCHANGED <<poolVars, turn, acked, joined, late, channelVars, workerVars>>

TimeOut ==
  /\ phase = "waiting" /\ turn = 0 /\ ~AllAcked
  /\ phase' = "joining" /\ late' = TRUE
  /\ UNCHANGED <<poolVars, turn, acked, joined, channelVars, workerVars>>

\* Worker by worker: join it if it acknowledged, and clear its channels. A clear
\* acknowledges nothing.
Join(w) ==
  /\ phase = "joining" /\ w \notin joined /\ (\A v \in Workers : v < w => v \in joined)
  /\ w \in acked => pc[w] = "stopped"
  /\ joined' = joined \cup {w}
  /\ phase' = IF w = Count THEN "down" ELSE phase
  /\ input' = [input EXCEPT ![w] = <<>>] /\ output' = [output EXCEPT ![w] = <<>>]
  /\ UNCHANGED <<poolVars, turn, acked, late, unreceived, workerVars>>

-----------------------------------------------------------------------------
\* The worker threads.

\* Mutant: a worker pushes and goes on.
SupplyPushes(w, m, then) ==
  /\ output' = [output EXCEPT ![w] = Append(@, m)]
  /\ unreceived' = [unreceived EXCEPT ![w] = @ + 1]
  /\ pc' = [pc EXCEPT ![w] = then] /\ after' = after

\* channelSupply: push, then wait until as many values were received as were sent.
Supply(w, m, then) ==
  /\ output' = [output EXCEPT ![w] = Append(@, m)]
  /\ unreceived' = [unreceived EXCEPT ![w] = @ + 1]
  /\ pc' = [pc EXCEPT ![w] = "supply"] /\ after' = [after EXCEPT ![w] = then]

Given(w) ==
  /\ pc[w] = "supply" /\ unreceived[w] = 0
  /\ pc' = [pc EXCEPT ![w] = after[w]]
  /\ UNCHANGED <<poolVars, mainVars, channelVars, after, handlerVars>>

Ready(w) ==
  /\ pc[w] = "start"
  /\ Supply(w, Message("ready", NoJob), "wait")
  /\ UNCHANGED <<poolVars, mainVars, input, handlerVars>>

\* The worker waits for its next message, pops it and looks at the token of its job. A job
\* that was cancelled before its start ends without its handler.
Take(w) ==
  LET m == Head(input[w])
  IN  /\ pc[w] = "wait" /\ input[w] # <<>>
      /\ input' = [input EXCEPT ![w] = Tail(@)]
      /\ IF m.type = "shutdown"
           THEN Supply(w, Message("shutdown", NoJob), "stopped") /\ UNCHANGED handlerVars
         ELSE IF m.job \in asked
           THEN Supply(w, Message("cancelled", m.job), "wait") /\ UNCHANGED handlerVars
         ELSE /\ pc' = [pc EXCEPT ![w] = "run"]
              /\ job' = [job EXCEPT ![w] = m.job]
              /\ UNCHANGED <<output, unreceived, after, terminal_sent, sends>>
      /\ UNCHANGED <<poolVars, mainVars>>

\* The handler sends: progress and results, or how it ended. A cancelled job's messages are
\* refused but for the cancellation; handlers report one only when they were asked.
Send(w, type) ==
  /\ pc[w] = "run" /\ sends[w] < MaxSends
  /\ type = "cancelled" <=> job[w] \in asked
  /\ Supply(w, Message(type, job[w]), "run")
  /\ terminal_sent' = [terminal_sent EXCEPT ![w] = @ \/ type \in Ends]
  /\ sends' = [sends EXCEPT ![w] = @ + 1]
  /\ UNCHANGED <<poolVars, mainVars, input, job>>

\* Mutant: a cancelled handler is trusted to have said so.
ClosingIfComplete(w) ==
  IF terminal_sent[w] \/ job[w] \in asked THEN <<>> ELSE <<Message("complete", job[w])>>

\* What the worker sends for a handler that returned.
Closing(w) ==
  IF terminal_sent[w] THEN <<>>
  ELSE <<Message(IF job[w] \in asked THEN "cancelled" ELSE "complete", job[w])>>

EndJob(w) ==
  /\ job' = [job EXCEPT ![w] = NoJob]
  /\ terminal_sent' = [terminal_sent EXCEPT ![w] = FALSE]
  /\ sends' = [sends EXCEPT ![w] = 0]
  /\ UNCHANGED <<poolVars, mainVars, input>>

Return(w) ==
  /\ pc[w] = "run"
  /\ IF Closing(w) = <<>>
       THEN pc' = [pc EXCEPT ![w] = "wait"] /\ UNCHANGED <<output, unreceived, after>>
       ELSE Supply(w, Head(Closing(w)), "wait")
  /\ EndJob(w)

\* The handler fails, whatever it has sent.
Throw(w) ==
  /\ pc[w] = "run"
  /\ Supply(w, Message("error", job[w]), "wait")
  /\ EndJob(w)

-----------------------------------------------------------------------------
MainStep ==
  \/ BeginDrain
  \/ \E stale, more \in BOOLEAN : Drain(stale, more)
  \/ EndWait
  \/ \E w \in Workers : Join(w)

WorkerStep(w) ==
  \/ Ready(w) \/ Given(w) \/ Take(w)
  \/ \E type \in Ends \cup {"progress"} : Send(w, type)
  \/ Return(w) \/ Throw(w)

Next ==
  \/ \E j \in Jobs : Cancel(j) \/ \E p \in {"background", "interactive", "normal"} : Submit(j, p)
  \/ StartShutdown \/ TimeOut
  \/ MainStep
  \/ \E w \in Workers : WorkerStep(w)

Spec == Init /\ [][Next]_vars

\* Each frame drains, threads run, and handlers return. Nobody need cancel or shut down, and
\* no shutdown need run out of time.
FairSpec == Spec /\ WF_vars(MainStep) /\ \A w \in Workers : WF_vars(WorkerStep(w))

-----------------------------------------------------------------------------
TypeOK ==
  /\ phase \in {"open", "closing", "waiting", "joining", "down"} /\ late \in BOOLEAN
  /\ status \in [Jobs -> {"none", "queued", "cancelling", "running"} \cup Outcomes]
  /\ jobs \subseteq Jobs /\ asked \subseteq Jobs
  /\ worker_id \in [Jobs -> Workers \cup {0}] /\ {turn, next_worker} \subseteq Workers \cup {0}
  /\ acked \subseteq Workers /\ joined \subseteq Workers
  /\ unreceived \in [Workers -> Nat]
  /\ pc \in [Workers -> {"start", "wait", "run", "supply", "stopped"}]
  /\ job \in [Workers -> Jobs \cup {NoJob}] /\ terminal_sent \in [Workers -> BOOLEAN]
  /\ sends \in [Workers -> 0..MaxSends]

\* worker_bootstrap.lua: "a worker cannot enqueue unbounded output". However slowly the main
\* thread drains, a worker has one value in its output, and as long as it runs its handler, none.
Backpressure ==
  \A w \in Workers :
    Len(output[w]) <= 1 /\ (pc[w] = "run" => output[w] = <<>>)

\* The pool keeps what a job service promises: each accepted job ends once, with one outcome,
\* although handlers may report several ends and messages arrive after the end.
Promise == INSTANCE JobService WITH
  accepted <- {j \in Jobs : status[j] # "none"},
  outcome <- [j \in Jobs |-> IF status[j] \in Outcomes THEN status[j] ELSE "none"]
KeepsPromise == Promise!Spec

\* Every job that the pool took ends, with a shutdown too, unless its wait ran out of time.
JobsEnd == \A j \in Jobs : (j \in jobs) ~> (j \notin jobs \/ late)

\* A shutdown needs no time limit: every worker that waits for the main thread is answered,
\* acknowledges and is joined.
ShutdownEnds == phase # "open" ~> phase = "down"

=============================================================================
