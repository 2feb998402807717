-------------------------- MODULE TreeSitterService --------------------------
(***************************************************************************)
(* Syntax trees of Buffers: the main thread schedules parses of a Buffer's  *)
(* text and polls their results (src/data/core/treesitter/init.lua), worker *)
(* threads parse and free (src/src/treesitter/service.c).                   *)
(*                                                                          *)
(* A text is its revision. A tree has the revision it was parsed from (of)  *)
(* and the one its positions fit after ts_tree_edit (at); 0 is no text of   *)
(* the Buffer. Each action is a section under the service's mutex, or code  *)
(* between two of them that only its own thread sees.                       *)
(***************************************************************************)
EXTENDS Naturals, Sequences, SequencesExt, FiniteSets

CONSTANTS
  Buffers, Workers,
  States,        \* document states. A Buffer takes a new one when it attaches
  Jobs,          \* bound: the jobs that exist at one time
  NoState, NoJob, NoTree,   \* NULL in their fields
  MaxRevision    \* bound: edits and loads of one Buffer

ASSUME ValuesAssumption == NoState \notin States /\ NoJob \notin Jobs
ASSUME BoundsAssumption == MaxRevision \in Nat \ {0} /\ IsFiniteSet(Jobs)

VARIABLES
  revision,      \* text_revision of each Buffer
  ts,            \* the state that each Buffer is attached to
  lua,           \* the Buffer's table of a state: its status there, its generation, the
                 \* scheduled revision, latest_parse_pending, pending_parse_thread
  doc,           \* AnvilTSBufferState
  job,           \* AnvilTSParseJob
  queue,         \* the jobs for the workers, in order
  completed,     \* the finished jobs. The order of that list tells nothing
  held, pc,      \* each worker's job, and where it stands
  signalled,     \* complete_event_pending: the event is in SDL's queue
  unheard,       \* the attached states with a result, since their last poll, for which no
                 \* event could be pushed. No code reads it
  polling,       \* the states that poll_all has still to poll
  followup,      \* the state whose poll goes on to a new parse
  main           \* "run", "join" in anvil_ts_service_shutdown, "stopped"

textvars == <<revision, ts, lua>>
service == <<doc, job, queue, completed>>
workers == <<held, pc>>
loop == <<signalled, unheard, polling, followup, main>>
vars == <<textvars, service, workers, loop>>

Tree(of, at) == [of |-> of, at |-> at]

Attached == {ts[b] : b \in Buffers} \ {NoState}
Outstanding == ToSet(queue) \cup completed \cup ({held[w] : w \in Workers} \ {NoJob})
FreeJobs == Jobs \ Outstanding
FreeStates == {s \in States : doc[s].status = "none"}

\* Memory that is free or has just been allocated.
NewTable == [status |-> "idle", generation |-> 0, scheduled |-> 0, pending |-> FALSE, thread |-> FALSE]
NewDoc == [status |-> "none", closed |-> FALSE, tree |-> NoTree, active |-> NoJob,
           refs |-> 0, owned |-> FALSE]
NewJob == [doc |-> NoState, generation |-> 0, revision |-> 0, old |-> NoTree, tree |-> NoTree,
           outcome |-> "none", cancel |-> FALSE, cleanup |-> FALSE]

\* A job that only frees what it holds.
Cleanup(s) == [NewJob EXCEPT !.doc = s, !.cleanup = TRUE]

Init ==
  /\ revision = [b \in Buffers |-> 1]
  /\ ts = [b \in Buffers |-> NoState]
  /\ lua = [s \in States |-> NewTable]
  /\ doc = [s \in States |-> NewDoc]
  /\ job = [j \in Jobs |-> NewJob]
  /\ queue = <<>> /\ completed = {}
  /\ held = [w \in Workers |-> NoJob] /\ pc = [w \in Workers |-> "look"]
  /\ signalled = FALSE /\ unheard = {} /\ polling = {} /\ followup = NoState /\ main = "run"

-----------------------------------------------------------------------------
\* treesitter.schedule_parse.

Busy(s) == doc[s].status \in {"queued", "parsing"}

\* The table t of s after a request to parse revision r. A request during another parse
\* waits for the end of that one.
Requested(s, t, r) ==
  IF Busy(s) THEN [t EXCEPT !.pending = @ \/ t.scheduled # r]
  ELSE [t EXCEPT !.generation = @ + 1, !.scheduled = r, !.pending = FALSE, !.status = "queued"]

\* ts_tree_edit: the positions fit the next text if they fitted the one before the edit.
Edited(tree, r) == [tree EXCEPT !.at = IF @ = r - 1 THEN r ELSE 0]

Cancelled(jobs, j) == IF j = NoJob THEN jobs ELSE [jobs EXCEPT ![j].cancel = TRUE]

\* buffer_state_schedule_parse_internal, when the request does not wait. d is the state's
\* document, single is whether an edit comes with the text.
Parse(s, d, generation, r, single) ==
  LET tree == IF single /\ d.tree # NoTree THEN Edited(d.tree, r) ELSE d.tree
  IN \E j \in FreeJobs :
       /\ doc' = [doc EXCEPT ![s] = [d EXCEPT !.status = "queued", !.active = j,
                                              !.refs = d.refs + 1, !.tree = tree]]
       /\ job' = [Cancelled(job, d.active) EXCEPT
                    ![j] = [NewJob EXCEPT !.doc = s, !.generation = generation, !.revision = r,
                                          !.old = IF single THEN tree ELSE NoTree]]
       /\ queue' = Append(queue, j)

Schedule(s, t, r, single) ==
  IF Busy(s) THEN UNCHANGED <<doc, job, queue>>
  ELSE Parse(s, doc[s], t.generation + 1, r, single)

-----------------------------------------------------------------------------
\* The Buffers. Lua code runs while no poll does.
Running == main = "run" /\ polling = {} /\ followup = NoState

\* A text changed in a way that no single edit of a ready tree describes.
Stale(t) == [t EXCEPT !.status = "stale", !.pending = TRUE, !.thread = TRUE]

\* Mutant: an edit goes to the tree whatever text that tree is for.
EditsAnyTree(s, single) == single /\ doc[s].tree # NoTree

\* edit_for_transaction.
EditsTree(s, single) == single /\ doc[s].tree # NoTree /\ lua[s].status = "ready"

\* Buffer:on_text_transaction: a transaction of one edit, or of several.
Edit(b, single) ==
  LET s == ts[b]  r == revision[b] + 1
  IN /\ Running /\ revision[b] < MaxRevision
     /\ revision' = [revision EXCEPT ![b] = r]
     /\ IF s = NoState THEN UNCHANGED <<lua, doc, job, queue>>
        ELSE IF EditsTree(s, single)
        THEN /\ lua' = [lua EXCEPT ![s] = Requested(s, [@ EXCEPT !.status = "stale"], r)]
             /\ Schedule(s, lua[s], r, TRUE)
        ELSE /\ lua' = [lua EXCEPT ![s] = Stale(@)]
             /\ UNCHANGED <<doc, job, queue>>
     /\ UNCHANGED <<ts, completed, workers, loop>>

\* A new state, with its first parse of revision r. The transaction of a load follows.
AttachNew(b, r, loading) ==
  \E s \in FreeStates :
    /\ ts' = [ts EXCEPT ![b] = s]
    /\ lua' = [lua EXCEPT ![s] = IF loading THEN Stale(Requested(s, @, r)) ELSE Requested(s, @, r)]
    /\ Parse(s, [doc[s] EXCEPT !.status = "idle", !.refs = 1, !.owned = TRUE], 1, r, FALSE)

\* attach_or_update_buffer after a change of name or syntax, a save, or a symbol search.
AttachOrUpdate(b) ==
  LET s == ts[b]
  IN /\ Running
     /\ IF s = NoState THEN AttachNew(b, revision[b], FALSE)
        ELSE /\ lua[s].scheduled # revision[b]
             /\ lua' = [lua EXCEPT ![s] = Requested(s, @, revision[b])]
             /\ Schedule(s, lua[s], revision[b], FALSE)
             /\ UNCHANGED ts
     /\ UNCHANGED <<revision, completed, workers, loop>>

\* publish_snapshot: reset_syntax attaches or updates, and then the transaction of the
\* load comes, which has no edits.
Load(b) ==
  LET s == ts[b]  r == revision[b] + 1
  IN /\ Running /\ revision[b] < MaxRevision
     /\ revision' = [revision EXCEPT ![b] = r]
     /\ IF s = NoState THEN AttachNew(b, r, TRUE)
        ELSE /\ lua' = [lua EXCEPT ![s] = Stale(Requested(s, @, r))]
             /\ Schedule(s, lua[s], r, FALSE)
             /\ UNCHANGED ts
     /\ UNCHANGED <<completed, workers, loop>>

\* The thread of schedule_coalesced_parse.
Coalesced(s) ==
  /\ Running /\ lua[s].thread
  /\ \/ /\ s \notin Attached
        /\ lua' = [lua EXCEPT ![s].thread = FALSE]
        /\ UNCHANGED <<doc, job, queue>>
     \/ \E b \in Buffers :
          LET t == [lua[s] EXCEPT !.thread = FALSE]
          IN /\ ts[b] = s
             /\ IF t.scheduled = revision[b]
                THEN lua' = [lua EXCEPT ![s] = t] /\ UNCHANGED <<doc, job, queue>>
                ELSE /\ lua' = [lua EXCEPT ![s] = Requested(s, t, revision[b])]
                     /\ Schedule(s, t, revision[b], FALSE)
  /\ UNCHANGED <<revision, ts, completed, workers, loop>>

\* A closed state keeps what its jobs need, and the cleanup job has a reference too.
Closed(d) == [d EXCEPT !.closed = TRUE, !.status = "closed", !.tree = NoTree, !.refs = @ + 1]

\* treesitter.close_buffer, with anvil_ts_buffer_state_close. Only the thread still has
\* the table.
Close(b) ==
  LET s == ts[b]
  IN /\ Running /\ s # NoState
     /\ ts' = [ts EXCEPT ![b] = NoState]
     /\ \E j \in FreeJobs :
          /\ job' = [Cancelled(job, doc[s].active) EXCEPT ![j] = Cleanup(s)]
          /\ queue' = Append(queue, j)
     /\ doc' = [doc EXCEPT ![s] = Closed(doc[s])]
     /\ lua' = [lua EXCEPT ![s] = [NewTable EXCEPT !.thread = lua[s].thread]]
     /\ unheard' = unheard \ {s}
     /\ UNCHANGED <<revision, completed, workers, signalled, polling, followup, main>>

\* n references less: the last one frees the state.
Released(d, n) == IF d.refs = n THEN NewDoc ELSE [d EXCEPT !.refs = @ - n]

\* The garbage collector finalizes a state that nothing in Lua reaches: state_gc.
Finalize(s) ==
  /\ Running /\ doc[s].owned /\ doc[s].closed /\ s \notin Attached /\ ~lua[s].thread
  /\ doc' = [doc EXCEPT ![s] = Released([@ EXCEPT !.owned = FALSE], 1)]
  /\ UNCHANGED <<textvars, job, queue, completed, workers, loop>>

-----------------------------------------------------------------------------
\* Polls.

\* core.on_event with treesitter_complete: ack_complete_event, and then poll_all.
CompleteEvent ==
  /\ Running /\ signalled /\ signalled' = FALSE
  /\ polling' = Attached
  /\ UNCHANGED <<textvars, service, workers, unheard, followup, main>>

Mine(s) == {j \in completed : job[j].doc = s}

\* The result that a poll may publish.
Current(s) ==
  {j \in Mine(s) : /\ doc[s].active = j /\ ~doc[s].closed
                   /\ job[j].generation = lua[s].generation}

\* anvil_ts_buffer_state_poll: the state d after its results.
Polled(s) ==
  LET d == [doc[s] EXCEPT !.active = IF @ \in Mine(s) THEN NoJob ELSE @]
  IN IF Current(s) = {} THEN d
     ELSE LET j == CHOOSE x \in Current(s) : TRUE
          IN CASE job[j].outcome = "tree" -> [d EXCEPT !.tree = job[j].tree, !.status = "ready"]
               [] job[j].outcome = "canceled" -> [d EXCEPT !.status = "canceled"]
               [] OTHER -> [d EXCEPT !.status = "failed"]

\* Mutant: the tree of the previous text is published, and the latest text waits.
PublishFirst(s, status) == FALSE

\* The completed tree belongs to the previous text: it is not published, and the latest
\* text is parsed.
ParsesAgain(s, status) == lua[s].pending /\ status \notin {"queued", "parsing"}

\* poll_buffer. The polled results go back to the workers, which free them.
Poll(s) ==
  LET status == Polled(s).status
  IN /\ doc' = [doc EXCEPT ![s] = Polled(s)]
     /\ completed' = completed \ Mine(s)
     /\ \E freed \in SetToSeqs(Mine(s)) : queue' = queue \o freed
     /\ job' = [j \in Jobs |-> IF j \in Mine(s) THEN Cleanup(s) ELSE job[j]]
     /\ IF ParsesAgain(s, status)
        THEN followup' = s /\ UNCHANGED lua
        ELSE followup' = NoState /\ lua' = [lua EXCEPT ![s].status = status]
     /\ unheard' = unheard \ {s}
     /\ UNCHANGED <<revision, ts, workers, signalled, main>>

PollNext ==
  /\ main = "run" /\ followup = NoState
  /\ \E s \in polling : Poll(s) /\ polling' = polling \ {s}

\* The symbol search polls a Buffer by itself until its tree is ready.
PollOne(s) == Running /\ s \in Attached /\ lua[s].status # "ready" /\ Poll(s) /\ UNCHANGED polling

\* The rest of poll_buffer: schedule_parse with the latest text.
FollowUp ==
  /\ followup # NoState /\ main = "run"
  /\ \E b \in Buffers :
       /\ ts[b] = followup
       /\ lua' = [lua EXCEPT ![followup] = Requested(followup, @, revision[b])]
       /\ Schedule(followup, lua[followup], revision[b], FALSE)
  /\ followup' = NoState
  /\ UNCHANGED <<revision, ts, completed, workers, signalled, unheard, polling, main>>

-----------------------------------------------------------------------------
\* The workers: service_worker_main.

To(w, where) == pc' = [pc EXCEPT ![w] = where]

Take(w) ==
  /\ pc[w] = "look" /\ main = "run" /\ queue # <<>>
  /\ LET j == Head(queue)  s == job[j].doc
     IN /\ queue' = Tail(queue)
        /\ held' = [held EXCEPT ![w] = j]
        /\ IF job[j].cleanup THEN To(w, "free") /\ UNCHANGED doc
           ELSE /\ To(w, "parse")
                /\ doc' = IF doc[s].active = j /\ ~doc[s].closed /\ ~job[j].cancel
                          THEN [doc EXCEPT ![s].status = "parsing"] ELSE doc
  /\ UNCHANGED <<textvars, job, completed, loop>>

Leave(w) ==
  /\ pc[w] = "look" /\ main = "join"
  /\ To(w, "gone")
  /\ UNCHANGED <<textvars, service, held, loop>>

\* The tree of the job's text. With an old tree that does not fit the text, the result
\* is a tree of no text.
ParsedTree(j) ==
  LET r == job[j].revision
  IN IF job[j].old = NoTree \/ job[j].old.at = r THEN Tree(r, r) ELSE Tree(0, 0)

\* The parse, without the mutex. It ends when it has a tree, fails, or sees the cancel flag.
ParseText(w) ==
  /\ pc[w] = "parse" /\ To(w, "finish")
  /\ LET j == held[w]
     IN job' = IF job[j].cancel THEN [job EXCEPT ![j].outcome = "canceled"]
               ELSE [job EXCEPT ![j] = [@ EXCEPT !.outcome = "tree", !.tree = ParsedTree(j)]]
  /\ UNCHANGED <<textvars, doc, queue, completed, held, loop>>

ParseFails(w) ==
  /\ pc[w] = "parse" /\ ~job[held[w]].cancel /\ To(w, "finish")
  /\ job' = [job EXCEPT ![held[w]].outcome = "failed"]
  /\ UNCHANGED <<textvars, doc, queue, completed, held, loop>>

\* push_complete_event_if_registered, for a result of s. If SDL refuses the event, then
\* complete_event_pending is taken back and the result waits for another event.
SignalMain(s) ==
  \/ signalled' = TRUE /\ UNCHANGED unheard
  \/ ~signalled /\ unheard' = unheard \cup {s} /\ UNCHANGED signalled

\* The result goes to the completed list, or, of a closed state, is freed at once.
Finish(w) ==
  /\ pc[w] = "finish"
  /\ LET j == held[w]  s == job[j].doc
     IN IF doc[s].closed
        THEN /\ doc' = [doc EXCEPT ![s].active = IF @ = j THEN NoJob ELSE @]
             /\ To(w, "free")
             /\ UNCHANGED <<completed, held, signalled, unheard>>
        ELSE /\ completed' = completed \cup {j}
             /\ SignalMain(s)
             /\ held' = [held EXCEPT ![w] = NoJob]
             /\ To(w, "look")
             /\ UNCHANGED doc
  /\ UNCHANGED <<textvars, job, queue, polling, followup, main>>

\* Mutant: a freed job keeps its reference to the state.
FreeKeeps(s) == UNCHANGED doc

\* Mutant: the worker releases the state, and job_free releases it again.
FreeTwice(s) == doc' = [doc EXCEPT ![s] = Released(@, 2)]

\* job_free releases the state.
FreeJob(s) == doc' = [doc EXCEPT ![s] = Released(@, 1)]

Free(w) ==
  /\ pc[w] = "free"
  /\ FreeJob(job[held[w]].doc)
  /\ job' = [job EXCEPT ![held[w]] = NewJob]
  /\ held' = [held EXCEPT ![w] = NoJob]
  /\ To(w, "look")
  /\ UNCHANGED <<textvars, queue, completed, loop>>

-----------------------------------------------------------------------------
\* anvil_ts_service_shutdown: cancel everything and wake the workers, join them, free
\* what is left.
Shutdown ==
  /\ Running /\ main' = "join"
  /\ job' = [j \in Jobs |-> IF j \in Outstanding THEN [job[j] EXCEPT !.cancel = TRUE] ELSE job[j]]
  /\ UNCHANGED <<textvars, doc, queue, completed, workers, signalled, unheard, polling, followup>>

Join ==
  /\ main = "join" /\ \A w \in Workers : pc[w] = "gone"
  /\ main' = "stopped"
  /\ LET left == ToSet(queue) \cup completed
         Of(s) == {j \in left : job[j].doc = s}
     IN /\ doc' = [s \in States |->
             IF Of(s) = {} THEN doc[s]
             ELSE Released([doc[s] EXCEPT !.active = IF @ \in left THEN NoJob ELSE @],
                           Cardinality(Of(s)))]
        /\ job' = [j \in Jobs |-> NewJob]
  /\ queue' = <<>> /\ completed' = {}
  /\ UNCHANGED <<textvars, workers, signalled, unheard, polling, followup>>

-----------------------------------------------------------------------------
User == \/ \E b \in Buffers, single \in BOOLEAN : Edit(b, single)
        \/ \E b \in Buffers : AttachOrUpdate(b) \/ Load(b) \/ Close(b)
Polls == CompleteEvent \/ PollNext \/ FollowUp
Threads == \E s \in States : Coalesced(s)
Worker(w) == Take(w) \/ Leave(w) \/ ParseText(w) \/ ParseFails(w) \/ Finish(w) \/ Free(w)

Next == \/ User \/ Polls \/ Threads \/ Shutdown \/ Join
        \/ \E s \in States : PollOne(s) \/ Finalize(s)
        \/ \E w \in Workers : Worker(w)

Spec == Init /\ [][Next]_vars

-----------------------------------------------------------------------------
Trees == [of : 0..MaxRevision, at : 0..MaxRevision] \cup {NoTree}

Tables == [status : {"idle", "queued", "parsing", "stale", "ready", "canceled", "failed", "closed"},
           generation : Nat, scheduled : 0..MaxRevision, pending : BOOLEAN, thread : BOOLEAN]
Documents == [status : {"none", "idle", "queued", "parsing", "ready", "canceled", "failed", "closed"},
              closed : BOOLEAN, tree : Trees, active : Jobs \cup {NoJob}, refs : Nat, owned : BOOLEAN]
ParseJobs == [doc : States \cup {NoState}, generation : Nat, revision : 0..MaxRevision,
              old : Trees, tree : Trees, outcome : {"none", "tree", "canceled", "failed"},
              cancel : BOOLEAN, cleanup : BOOLEAN]

TypeOK ==
  /\ revision \in [Buffers -> 1..MaxRevision]
  /\ ts \in [Buffers -> States \cup {NoState}]
  /\ lua \in [States -> Tables] /\ doc \in [States -> Documents] /\ job \in [Jobs -> ParseJobs]
  /\ queue \in Seq(Jobs) /\ completed \subseteq Jobs
  /\ held \in [Workers -> Jobs \cup {NoJob}]
  /\ pc \in [Workers -> {"look", "parse", "finish", "free", "gone"}]
  /\ signalled \in BOOLEAN /\ unheard \subseteq States /\ polling \subseteq States
  /\ followup \in States \cup {NoState} /\ main \in {"run", "join", "stopped"}

\* A Buffer whose highlights are ready has the tree of its text, whatever was edited,
\* loaded, saved and searched while parses ran, and whichever trees were reused.
ReadyIsCurrent ==
  \A b \in Buffers : ts[b] # NoState /\ lua[ts[b]].status = "ready" /\ main = "run"
    => doc[ts[b]].tree = Tree(revision[b], revision[b])

\* A state has one reference of its userdata and one of each job. So a job that a list,
\* a worker or active_job names, and a state that a Buffer or a job names, is not freed.
ReferencesCounted ==
  \A s \in States :
    /\ doc[s].refs = Cardinality({j \in Outstanding : job[j].doc = s}) + (IF doc[s].owned THEN 1 ELSE 0)
    /\ doc[s].active \in Outstanding \cup {NoJob}
    /\ s \in Attached => doc[s].owned

\* When the workers, the event and the threads have nothing left to do, each attached
\* Buffer has the tree of its text, or a failed parse of it. The exception is a Buffer with a
\* result whose event SDL refused, which waits for the next event or search.
SettledIsCurrent ==
  (/\ Running /\ ~signalled /\ queue = <<>>
   /\ \A w \in Workers : held[w] = NoJob
   /\ \A s \in Attached : ~lua[s].thread)
    => \A b \in Buffers : ts[b] # NoState /\ ts[b] \notin unheard =>
         lua[ts[b]].scheduled = revision[b] /\ lua[ts[b]].status \in {"ready", "failed"}
=============================================================================
