------------------------------ MODULE NativePool ------------------------------
(***************************************************************************)
(* The native worker pool (src/src/worker_pool.c): one queue of jobs with   *)
(* priorities, worker threads that wait on a condition variable, a limit on *)
(* background jobs, one Project run at a time, cancellation, and a          *)
(* destruction that races the workers. The main thread owns the pool: it    *)
(* submits, cancels, drains results, releases its handles and destroys.     *)
(*                                                                          *)
(* A step is one section under queue_mutex or result_mutex, or one atomic   *)
(* read or write of a job. The queue is a list in submission order; job ids *)
(* grow in that order, so the queue is the set of its jobs here. Progress   *)
(* messages and the payload of jobs are left out.                           *)
(***************************************************************************)
EXTENDS Integers, FiniteSets

CONSTANTS
  Jobs, Workers,
  NoJob,
  Kinds,         \* what a job is submitted with: its priority, and whether it is a Project run
  DestroyModes   \* values of cancel_running: {TRUE} is every caller in data/

\* "background", "normal" and "interactive", the only ones that src/src/api/worker_pool.c makes.
Priorities == {-1, 0, 1}

ASSUME PoolAssumption ==
  /\ IsFiniteSet(Workers) /\ Workers # {}
  /\ NoJob \notin Jobs
  /\ Kinds \subseteq [priority : Priorities, project : BOOLEAN]
  /\ DestroyModes \subseteq BOOLEAN

VARIABLES
  spec,          \* the AnvilWorkerJobSpec that each job is submitted with
  status, id,    \* of the AnvilWorkerJob of each submitted job
  refs,          \* its references
  flagged,       \* the jobs with their cancel flag set
  handles,       \* the jobs that the main thread has a handle of
  queue,         \* pool->input_first
  running,       \* pool->running_first
  backgrounds,   \* pool->active_background_jobs
  projects,      \* pool->active_project_runs
  lastId,        \* pool->next_job_id
  terminate,     \* pool->terminate
  pc, held,      \* the place of each worker in worker_main, and its job
  main, target,  \* what the main thread is in the middle of, and the job that it cancels
  detached,      \* the queue that the destruction took
  results,       \* the jobs with a terminal result that nobody has popped
  ended          \* history: the terminal results of each job, popped or not

job == <<spec, status, id, refs, flagged, handles>>
lanes == <<running, backgrounds, projects, held>>
vars == <<job, lanes, queue, lastId, terminate, pc, main, target, detached, results, ended>>

Terminal == {"complete", "failed", "cancelled"}

Init ==
  /\ spec \in [Jobs -> Kinds]
  /\ status = [j \in Jobs |-> "none"] /\ id = [j \in Jobs |-> 0]
  /\ refs = [j \in Jobs |-> 0] /\ flagged = {} /\ handles = {}
  /\ queue = {} /\ running = {} /\ backgrounds = 0 /\ projects = 0 /\ lastId = 0
  /\ terminate = FALSE
  /\ pc = [w \in Workers |-> "select"] /\ held = [w \in Workers |-> NoJob]
  /\ main = "idle" /\ target = NoJob
  /\ detached = {} /\ results = {} /\ ended = [j \in Jobs |-> 0]

-----------------------------------------------------------------------------
\* The choice of a worker, under queue_mutex.

\* Mutant: background work can take every worker.
LimitOfAll == Cardinality(Workers)

Limit == IF Cardinality(Workers) > 1 THEN Cardinality(Workers) - 1 ELSE 1

Background(j) == ~spec[j].project /\ spec[j].priority < 0
Eligible == {j \in queue : ~spec[j].project /\ (Background(j) => backgrounds < Limit)}

\* The list's order counts among jobs of one priority.
Before(i, j) == \/ spec[i].priority > spec[j].priority
                \/ spec[i].priority = spec[j].priority /\ id[i] < id[j]

\* The first job of the highest priority. A Project run starts only when no other job can.
Selected ==
  IF Eligible # {} THEN {j \in Eligible : \A i \in Eligible \ {j} : Before(j, i)}
  ELSE IF projects = 0
  THEN {j \in queue : spec[j].project /\ \A i \in queue : spec[i].project => id[j] <= id[i]}
  ELSE {}

\* Mutant: a submission wakes nobody.
SignalNobody == UNCHANGED pc

\* SDL_SignalCondition wakes one waiting worker, SDL_BroadcastCondition every one. A woken
\* worker then waits for the mutex.
Waiting == {w \in Workers : pc[w] = "wait"}
Signal == IF Waiting = {} THEN UNCHANGED pc
          ELSE \E w \in Waiting : pc' = [pc EXCEPT ![w] = "select"]

\* Mutant: a worker that ends a job or a pool that ends wakes nobody.
NobodyAwake(places) == places

Awake(places) == [w \in Workers |-> IF places[w] = "wait" THEN "select" ELSE places[w]]

-----------------------------------------------------------------------------
\* The main thread.

Submit(j) ==
  /\ main = "idle" /\ ~terminate /\ status[j] = "none"
  /\ lastId' = lastId + 1 /\ id' = [id EXCEPT ![j] = lastId + 1]
  /\ status' = [status EXCEPT ![j] = "queued"]
  /\ refs' = [refs EXCEPT ![j] = 2] /\ handles' = handles \cup {j}
  /\ queue' = queue \cup {j}
  /\ Signal
  /\ UNCHANGED <<spec, flagged, lanes, terminate, main, target, detached, results, ended>>

\* anvil_worker_pool_cancel reads the status, and then sets the flag.
Cancel(j) ==
  /\ main = "idle" /\ j \in handles /\ status[j] \notin Terminal
  /\ main' = "cancel" /\ target' = j
  /\ UNCHANGED <<job, lanes, queue, lastId, terminate, pc, detached, results, ended>>

SetCancel ==
  /\ main = "cancel"
  /\ flagged' = flagged \cup {target}
  /\ main' = "idle" /\ target' = NoJob
  /\ UNCHANGED <<spec, status, id, refs, handles, lanes, queue, lastId, terminate, pc, detached,
                 results, ended>>

Pop(j) ==
  /\ main = "idle" /\ j \in results
  /\ results' = results \ {j}
  /\ UNCHANGED <<job, lanes, queue, lastId, terminate, pc, main, target, detached, ended>>

\* job_gc. The last release frees the job. Handles can outlive the pool.
ReleaseHandle(j) ==
  /\ main \in {"idle", "gone"} /\ j \in handles
  /\ handles' = handles \ {j} /\ refs' = [refs EXCEPT ![j] = @ - 1]
  /\ UNCHANGED <<spec, status, id, flagged, lanes, queue, lastId, terminate, pc, main, target,
                 detached, results, ended>>

Destroy(cancel_running) ==
  /\ main = "idle" /\ ~terminate
  /\ terminate' = TRUE /\ main' = "detached"
  /\ IF cancel_running
     THEN detached' = queue /\ queue' = {} /\ flagged' = flagged \cup running
     ELSE UNCHANGED <<detached, queue, flagged>>
  /\ pc' = Awake(pc)
  /\ UNCHANGED <<spec, status, id, refs, handles, lanes, lastId, target, results, ended>>

\* cancel_and_release_detached_queued, one job: its result, and the queue's reference.
CancelDetached(j) ==
  /\ main = "detached" /\ j \in detached
  /\ detached' = detached \ {j}
  /\ flagged' = flagged \cup {j} /\ status' = [status EXCEPT ![j] = "cancelled"]
  /\ results' = results \cup {j} /\ ended' = [ended EXCEPT ![j] = @ + 1]
  /\ refs' = [refs EXCEPT ![j] = @ - 1]
  /\ UNCHANGED <<spec, id, handles, lanes, queue, lastId, terminate, pc, main, target>>

\* The destruction joins the workers, pops the results and frees the pool.
Join ==
  /\ main = "detached" /\ detached = {} /\ \A w \in Workers : pc[w] = "exited"
  /\ main' = "gone" /\ results' = {}
  /\ UNCHANGED <<job, lanes, queue, lastId, terminate, pc, target, detached, ended>>

-----------------------------------------------------------------------------
\* The worker w.

Goes(w, place) == pc' = [pc EXCEPT ![w] = place]

\* Takes a job, waits, or ends. A woken worker comes back here.
Select(w) ==
  /\ pc[w] = "select"
  /\ IF terminate THEN Goes(w, "exited") /\ UNCHANGED <<queue, lanes>>
     ELSE IF Selected = {} THEN Goes(w, "wait") /\ UNCHANGED <<queue, lanes>>
     ELSE \E j \in Selected :
            /\ queue' = queue \ {j}
            /\ held' = [held EXCEPT ![w] = j]
            /\ projects' = IF spec[j].project THEN projects + 1 ELSE projects
            /\ backgrounds' = IF Background(j) THEN backgrounds + 1 ELSE backgrounds
            /\ running' = running \cup {j}
            /\ Goes(w, "start")
  /\ UNCHANGED <<job, lastId, terminate, main, target, detached, results, ended>>

\* run_job sets the status, which nobody tells from "queued", and looks at the cancel flag.
Start(w) ==
  /\ pc[w] = "start"
  /\ IF held[w] \in flagged
     THEN Goes(w, "report") /\ status' = [status EXCEPT ![held[w]] = "cancelled"]
     ELSE Goes(w, "work") /\ status' = [status EXCEPT ![held[w]] = "running"]
  /\ UNCHANGED <<spec, id, refs, flagged, handles, lanes, queue, lastId, terminate, main, target,
                 detached, results, ended>>

\* Mutant: work that stops for any reason reports that it was cancelled.
EndWorkAnyhow(w, outcome) ==
  /\ pc[w] = "work"
  /\ status' = [status EXCEPT ![held[w]] = outcome]
  /\ Goes(w, "report")
  /\ UNCHANGED <<spec, id, refs, flagged, handles, lanes, queue, lastId, terminate, main, target,
                 detached, results, ended>>

\* The job's work ends. It looks at the flag between its parts, or not at all.
EndWork(w, outcome) ==
  /\ pc[w] = "work"
  /\ outcome = "cancelled" => held[w] \in flagged
  /\ status' = [status EXCEPT ![held[w]] = outcome]
  /\ Goes(w, "report")
  /\ UNCHANGED <<spec, id, refs, flagged, handles, lanes, queue, lastId, terminate, main, target,
                 detached, results, ended>>

\* The terminal result, after the status.
Report(w) ==
  /\ pc[w] = "report"
  /\ results' = results \cup {held[w]} /\ ended' = [ended EXCEPT ![held[w]] = @ + 1]
  /\ Goes(w, "leave")
  /\ UNCHANGED <<job, lanes, queue, lastId, terminate, main, target, detached>>

\* Mutant: a job that was cancelled stays in the list of running jobs.
LeaveListed(w) ==
  /\ pc[w] = "leave"
  /\ running' = IF status[held[w]] = "cancelled" THEN running ELSE running \ {held[w]}
  /\ projects' = IF spec[held[w]].project THEN projects - 1 ELSE projects
  /\ backgrounds' = IF Background(held[w]) THEN backgrounds - 1 ELSE backgrounds
  /\ pc' = [Awake(pc) EXCEPT ![w] = "release"]
  /\ UNCHANGED <<job, queue, held, lastId, terminate, main, target, detached, results, ended>>

\* The code's test that the counters are not zero never decides: TypeOK.
Leave(w) ==
  /\ pc[w] = "leave"
  /\ running' = running \ {held[w]}
  /\ projects' = IF spec[held[w]].project THEN projects - 1 ELSE projects
  /\ backgrounds' = IF Background(held[w]) THEN backgrounds - 1 ELSE backgrounds
  /\ pc' = [Awake(pc) EXCEPT ![w] = "release"]
  /\ UNCHANGED <<job, queue, held, lastId, terminate, main, target, detached, results, ended>>

ReleaseJob(w) ==
  /\ pc[w] = "release"
  /\ refs' = [refs EXCEPT ![held[w]] = @ - 1]
  /\ held' = [held EXCEPT ![w] = NoJob]
  /\ Goes(w, "select")
  /\ UNCHANGED <<spec, status, id, flagged, handles, queue, running, backgrounds, projects, lastId,
                 terminate, main, target, detached, results, ended>>

-----------------------------------------------------------------------------
Main == \/ \E j \in Jobs : Submit(j) \/ Cancel(j) \/ Pop(j) \/ ReleaseHandle(j) \/ CancelDetached(j)
        \/ SetCancel \/ Join
        \/ \E cancel_running \in DestroyModes : Destroy(cancel_running)
Work(w) == \/ Select(w) \/ Start(w) \/ Report(w) \/ Leave(w) \/ ReleaseJob(w)
           \/ \E outcome \in Terminal : EndWork(w, outcome)

Next == Main \/ \E w \in Workers : Work(w)

Spec == Init /\ [][Next]_vars

\* Threads that can run do run, a job's work ends, and the main thread ends what it began.
FairSpec ==
  /\ Spec
  /\ \A w \in Workers : WF_vars(Work(w))
  /\ WF_vars(SetCancel \/ Join \/ \E j \in Jobs : CancelDetached(j))

-----------------------------------------------------------------------------
Busy == {"start", "work", "report", "leave"}
Places == {"select", "wait", "release", "exited"} \cup Busy

TypeOK ==
  /\ spec \in [Jobs -> [priority : Priorities, project : BOOLEAN]]
  /\ status \in [Jobs -> {"none", "queued", "running"} \cup Terminal] /\ id \in [Jobs -> Nat]
  /\ refs \in [Jobs -> 0..2] /\ flagged \subseteq Jobs /\ handles \subseteq Jobs
  /\ queue \subseteq Jobs /\ running \subseteq Jobs /\ detached \subseteq Jobs /\ results \subseteq Jobs
  /\ backgrounds \in Nat /\ projects \in Nat /\ lastId \in Nat
  /\ terminate \in BOOLEAN
  /\ pc \in [Workers -> Places] /\ held \in [Workers -> Jobs \cup {NoJob}]
  /\ main \in {"idle", "cancel", "detached", "gone"} /\ target \in Jobs \cup {NoJob}
  /\ ended \in [Jobs -> Nat]

\* A job that a thread or a list of the pool still uses is not freed: its last reference
\* goes only after the worker has left the list of running jobs, in which the destruction
\* sets the cancel flags, and after the result.
NoUseAfterFree ==
  /\ \A j \in queue \cup detached \cup running : refs[j] > 0
  /\ \A w \in Workers : held[w] # NoJob => refs[held[w]] > 0
  /\ main = "cancel" => refs[target] > 0

\* No job reports its end twice, although its worker and the destruction both can.
EndsOnce == \A j \in Jobs : ended[j] <= 1

\* A job that the pool has let go has reported its end, and a job whose end is reported
\* has a terminal status.
ReleasedJobEnded ==
  \A j \in Jobs :
    /\ status[j] # "none" /\ refs[j] = 0 => ended[j] = 1
    /\ ended[j] = 1 => status[j] \in Terminal

\* Background jobs leave a worker to other work, and at most one Project run is active,
\* however starts and ends of jobs interleave.
OnBackground == {w \in Workers : pc[w] \in Busy /\ Background(held[w])}
OnProject == {w \in Workers : pc[w] \in Busy /\ spec[held[w]].project}
LanesKept ==
  /\ Cardinality(Workers) > 1 => Cardinality(OnBackground) < Cardinality(Workers)
  /\ Cardinality(OnProject) <= 1

\* No lost wakeup: while a job could start, a worker is awake to take it, or all are busy.
NoLostWakeup == Selected # {} /\ ~terminate /\ Waiting # {} => \E w \in Workers : pc[w] = "select"

\* Every accepted job reports its end, also when the pool is destroyed meanwhile.
JobsEnd == \A j \in Jobs : status[j] = "queued" ~> ended[j] = 1

\* A destruction ends.
DestroyEnds == terminate ~> main = "gone"

-----------------------------------------------------------------------------
\* The promise of a pool. A job's outcome is the status that its result was made with.
Service == INSTANCE JobService WITH
  Outcomes <- Terminal,
  accepted <- {j \in Jobs : status[j] # "none"},
  asked <- flagged,
  outcome <- [j \in Jobs |-> IF ended[j] = 0 THEN "none" ELSE status[j]]

KeepsPromise == Service!Spec
=============================================================================
