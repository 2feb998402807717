# Anvil editor: specifications, model checks and proofs

Anvil is a code editor. A C core (`src/`, built on SDL) draws, parses, runs native
worker pools, hosts terminals and talks to Machines; it runs a Lua program
(`data/core`, `data/plugins`) that owns Buffers, Views, Panes and commands. The
repository root is the `src/` directory that `PROJECT.json` names, so C files are
`src/src/...` and Lua files `src/data/...`.

These modules specify the parts where order, concurrency and failure decide
whether the user's text and work survive, and leave drawing and layout alone.

## Inventory

| Component | Code | State | Operations | Who it talks to |
|---|---|---|---|---|
| Buffer history and saves | `data/core/buffer/init.lua` | lines, `undo_stack`, `redo_stack`, `clean_change_id`, `new_file`, `text_revision`, `pending_save`, `pending_load` | edit, undo, redo, join, save, background save, load, reload, mark missing | `file_io` worker pool (jobs, messages), the file, autosave (guard), reload plugin |
| Machine saves | `buffer/init.lua`, `core/fs.lua`, `src/machine_client` and `serve.lua` | `machine_version`, `machine_save`, `machine_conflict`, recovery record; on the server the file and the table of save results | save, answer, offline, unknown save resolved, reconnect, restore after a crash, accept | a connection that drops, a server that restarts |
| Durable writes | `buffer/init.lua` `write_file_safely`, `src/src/api/system.c` | target, temporary file, staging file, backups, the state of the file that the Buffer knows | guard, write, sync, replace, back up, write in place, restore; load, ask about a stale backup, answer | file system, other programs, a crash between any two calls |
| Native worker pool | `src/src/worker_pool.c` | queue, running list, results, `terminate`, per-job status, cancel flag and reference count | submit, select, run, cancel, pop a result, destroy | worker threads, the Lua poller |
| Thread channels | `src/src/api/channel.c` | counters and a queue of values, registry of named channels | push, supply, wait, pop, clear, open, close | Lua threads |
| Lua worker pools | `data/core/worker_pool.lua`, `worker_bootstrap.lua` | jobs, statuses, per-worker load | submit, cancel, dispatch messages, drain, shut down | thread channels |
| Tree-sitter service | `src/src/treesitter/service.c`, `data/core/treesitter/init.lua` | per-Buffer document state, job queue, completed list, completion event; in Lua status, generation, scheduled revision, pending mark | attach, edit, load, schedule, parse, poll, close, shut down | two worker threads, Buffers, the event loop |
| Autosave and auto reload | `data/plugins/autosave_fast.lua`, `autoreload.lua` | dirty set, disk state, failures, retries, prompts | idle save, retry, focus loss, conflict prompt, reload | Buffers, directory watches |
| Terminal host | `src/src/terminal_host.c`, `api/terminal_native.c` | screen, size, generation, Controller; per Client its queue, role, flags and threads; the session's record and saved screen | attach, broadcast, take control, type, resize, clear, close, reap, save, record | the shell, Clients on this PC and others, the disk |
| Surfaces, shell adoption, single instance, session end, IPC pipe | `src/src/*.c`, `data/core/*.lua` | shared surfaces, handles, records | attach, resize, adopt, close, hand over a launch | other processes |
| Project index, LSP client, Markdown vault | `data/core/*` | snapshots, requests, documents | index, query, sync | workers, language servers |

Hard behaviours: undo steps that only fit one text while indices are reused;
results of workers that arrive after the state they were computed from has
changed; connections that drop with a save in flight; a pool that stops with jobs
queued and running; queues and counters shared by threads; a loop that releases its
lock in the middle because one queue is full; a value that is supplied and never
received; crashes between two file operations.

What makes each component correct:

- *History*: a step is only undone or redone on the text it fits; a Buffer that
  shows as saved has the text of its file; a late result never brings older text back.
- *Machine saves*: the Machine's file is replaced only when the user has seen what is
  there; a Buffer that looks saved has the Machine's text; a crash loses no unsaved
  text; saves resolve.
- *Native pool*: each accepted job ends once, nothing is used after it is freed,
  background work leaves a worker free, no wakeup is lost, a destruction ends.
- *Tree-sitter*: a tree that shows as ready is the tree of the text, the last text is
  parsed, states are freed once.
- *Durable writes*: at each crash point the file or its backup is complete; a save with a guard
  takes no other program's text; a save leaves a whole file, and no other one but what it could not
  remove; a torn file's backup is offered.
- *Terminal host*: one Client controls; each Client sees all output in order after its
  snapshot; a keystroke never reaches the shell after another Client took control; a record
  that nobody is attached has what Clients were sent, as far as the host knew, on disk.
- *Channels and Lua pools*: a worker's output is bounded, each job ends once, messages
  after an end change nothing, a shutdown ends.

## Modules

| Module | What it is | Instances | Proofs |
|---|---|---|---|
| `BufferHistory` | one Buffer, its undo history, saves, background saves, loads, reloads, its file | `MCBufferHistory` | `BufferHistoryProofs` |
| `SafeWrite` | one file on disk and the file operations of a save; implements `AtomicSave` | `MCSafeWrite` | `SafeWriteProofs` |
| `AtomicSave` | what a save promises for the text of its file | | |
| `MachineSave` | one Buffer of a Machine file, the connection, the server, the recovery record | `MCMachineSave` | `MachineSaveProofs` |
| `NativePool` | the native worker pool and the main thread that owns it | `MCNativePool` | `NativePoolProofs`, `NativePoolWakeups` |
| `JobService` | what a pool promises for each job; both pools implement it | | |
| `TreeSitterService` | Buffers, their document states, the parser threads | `MCTreeSitterService` | `TreeSitterServiceProofs` |
| `TerminalHost` | the host of a shell, its Clients, their queues, roles and input, the monitor and the record | `MCTerminalHost` | `TerminalHostProofs` |
| `LuaWorkerPool` | a pool of Lua workers with its channels; implements `JobService` too | `MCLuaWorkerPool` | `LuaWorkerPoolProofs` |

`PROJECT.json` maps each definition to the lines it models. In every module a text is
a value or a revision, never characters. A definition preceded by "Mutant:" is the form
another definition takes with a plausible bug; the specification does not use it.

### BufferHistory

The two stacks of the code are one line of steps `step[lo..hi]` with the cursor
`undo_idx` between them, since a step that leaves one stack enters the other.
`clean_change_id` is an index into the same line. `pending_save` and `jobs` are the
Buffer's and the worker's views of a background save: `SaveAsync` submits it,
`WriteTemporary` is the worker, and `AsyncSaved`, `AsyncSaveFails` and `DropResult` are
the three ways its message is handled. The guard that autosave passes is `GuardAllows`.
`Publish` is `publish_snapshot`, shared by `Load`, `LoadAsyncDone` and (for its text)
`Reload`. `ExternalWrite` is any other program. Three history variables
serve properties: `external` (another program changed the file), `foreign` (the clean
change id names a step that replaced the saved one during a background save) and
`disk_revision`.

### SafeWrite and AtomicSave

A step is one file operation, or one that no other program can see the inside of. `pc` is the
place in `write_file_safely`. A save goes one of three ways: a temporary file replaces the
target (`WriteTemp`, `Check`, `Identify`, `Rename`); a file with several links is written in
place behind a backup (`Guard`, `Copy`, `Install`, `Recheck`, `Open`, `Write`, `Sync`), and so is
one that the file system cannot replace (`FallBack`); or a background save brings a temporary
file that a worker wrote (`Prepare`, `WriteTemporary`, `BeginPrepared`). Each operation may fail:
before the file is opened the save gives up (`GiveUp`), later the backup comes back (`WriteFails`,
`Restore`, `RestoreFails`). Every end removes what the save has made (`Remove`), and each of those
removals may fail: the code ignores the result of `os.remove`, or shows an error at most
(`init.lua:779, 784, 847, 851, 860, 880`). `Load` asks about the newest backup, and the answers are actions.

A file is its text, whether a power failure keeps it (`synced`), its identity, and a stamp that
stands for its time, size and text as `disk_states_differ` compares them; a guard expects a stamp. Not every
save has a guard: `run_guard` (`init.lua:769`) checks nothing for a Save As to another file, for `init.lua` and
`.anvil_project.lua`, and when the autosave plugin is off (`autosave_fast.lua:13-21`, 728-735). Such a
save expects `NoBase`, and each save chooses. A file that was opened and not written to its end has the text `Torn`. `Crash` ends the
program, or the power as well, and then what was not synced is torn. Other programs write the
file, replace it or remove it at any time but while the save has it open. The identities and
stamps that the program remembers are not given to other files.

`AtomicSave` has only the text that can be had (`Content`: the file's if it is complete and
synced, otherwise that of the backup), the text before the save, the text of the save
and whether it is `guarded`. A save that is not may look again (`Look`): it takes what others have
written by then for the text that comes back if it fails. `KeepsText` is the refinement.
`keeper`, `began`, `late`, `stuck`, `piled` and `outside` are history: `late` marks what
other programs write after the last look of a save, which no guard can see; `stuck` is the set of the
files of a save (its temporary file, the copy being made, the backup) that
could not be removed, or restored; `piled` marks a torn file that was saved again, or an older backup
that was restored, while a question about a newer backup was open. What a save leaves of its temporary
file or copy stays in the model until the next save, which uses new names.

### MachineSave

`client` is the Buffer with its records on disk; the undo history is reduced to
whether the Buffer stands at its clean change id, and the text there. A version is a
hash of bytes in the code and the bytes here. `Save` includes the wrapper that autosave
puts around `Buffer:save`. Requests and replies are queues that a lost connection
(`Lose`, `Drop`) cuts at any place; with `LateWrites` a sent write can still
reach the server afterwards. The server's write is two steps, `BeginWrite` (its
check) and `FinishWrite`, because it holds no lock in between; `Restart` and `ForgetSave`
drop its save results. `Crash` keeps only the records, and `Open` restores from them.
`promised` and `seen` are history. The types of the messages, of a save and of a record are
named (`WriteType`, `SaveType`, `RecordType`), and the special values are none of them. `moves` counts the steps of users, other
programs and failures together, which is the bound on environments.

### NativePool and JobService

A step is one section under `queue_mutex` or `result_mutex`, or one atomic access. `pc`
is the place of a worker in `worker_main`: it selects or waits, starts the job
(`Start`), works (`EndWork`), enqueues the result (`Report`), leaves the running list
(`Leave`) and drops its reference (`ReleaseJob`). The main thread's `Cancel` and
`Destroy` span several sections, so they are several actions (`SetCancel`,
`CancelDetached`, `Join`). A job that has been freed has no references; the property
is that nobody still names it. `JobService` says only that an accepted job ends once
and is cancelled only when asked; `KeepsPromise` is the refinement, with the set
`flagged` as `asked` and the status at the result as `outcome`.

### TreeSitterService

`lua` is the Buffer's table for a document state (its status there, generation,
scheduled revision, `latest_parse_pending`, `pending_parse_thread`), `doc` is the native
state, `job` a parse or cleanup job. A tree carries the revision it was parsed from and
the one its positions fit, so that an edit applied to a tree of another text, or a
reuse of such a tree, gives a tree of no text. `Poll` is `poll_buffer` up to the unlock
of the service, `FollowUp` the parse that it may ask for after it. Free memory is a
`NewDoc` or `NewJob`, and both are allocated again. The list of completed jobs is a set, since
`Poll` takes all of one state's and nothing depends on their order; the jobs that a poll frees
enter the queue in any order. The event that tells the main thread of a result (`SignalMain`) may
be refused by the queue of events, and then nothing is sent (`service.c:202`); `unheard`, which the code does
not have, names the attached states with a result whose event was refused, until their next poll. Left out: the time limit after which a
parse resumes, schedules that fail, queries, and a state that is finalized while its
Buffer is attached.

### TerminalHost

A step is what a thread of the host does between two releases of `host->lock`. The code
releases it in one place only, `queue_record`, when the queue of the Controller is full:
then a loop over the Clients (`broadcast_output`, `send_roles`, the greeting in
`attach_client`) stops in its middle. The variable `wait` keeps, for each thread, the record
in hand and the rest of that loop; `Resume` and `Stall` go on with it for the Clients that are
attached by then, and may stop again. The Viewers of a loop that need no wait get their
records in one step (`Send`), since nobody else runs in between.

`Records` are the records of a queue and `Waits` what a waiting thread keeps.
`stream[c]` is all that was queued for the Client in slot `c` and `written[c]` how much of it
the Client has, so that properties see the whole history; `Full` is the bound of the queue. A
record carries `at`, the number of changes the screen had when it was made. `mind[c]` is what
the Client knows: it decides whether a keystroke goes out as `INPUT` or behind a `TAKE`
(`write_typed`). `inbox[c]` is the pipe to the host. `controller` and `controls` are the two
places where the code keeps who controls. A size is a counter (`grid`), since properties only
ask whether a Client knows the newest one. `doing` spans the sections of one message: the
input that is being written to the shell under `input_lock`, and a close that counted the
others and has not acted yet. `monitor` is the order in which the monitor reaps, saves the screen
(`SaveSnapshot`, or `SaveFails`) and writes the record.

`write_registry` is two steps, since Clients attach and are sent output while it runs. `ReadFlags`
is its look at `attached` and `writer` of each slot (322-323), without `host->lock`; it reads
them one by one, but only the monitor frees a slot, so what it finds is what was there at one
moment. `Publish` is the replacement of the record (384-389), after file operations and retries,
and it may fail (392-398). `report` is what the record on its way says, `recorded` what the one on disk
says, and `saved` what the screen on disk shows. Two history variables serve
`RecordedDetachIsSaved`: `owed` is what Clients had been sent when the host found nobody, and `unsaved` says
that the last save failed and the disk lacks some of it.

External or abstracted: the shell's output is any number of changes; a snapshot is the state it
was made from; the saves of the screen at intervals (1706-1707) are left out, since they only make
the disk newer. `PromptWakeups` says that a thread waiting for a Client runs before that Client's slot
is used again; see the same list.

### LuaWorkerPool

A channel is a sequence. `channelSupply` is `Supply`, which appends and counts, and `Given`,
which returns when as many values were received as sent; the two counters of the code only
matter by their difference `unreceived`. The drain is one step for each worker it looks at
(`turn`), because workers and callbacks run between two of them, and stops whenever its budget
is spent (`more`). `Dispatch` is `dispatch_message` with the owner's answer about staleness as
an input. A cancellation is the job's token; the second channel that says the same is left
out, and so are jobs handed to the native pool. `StartShutdown`,
`EndWait`, `TimeOut` and `Join` are the parts of `shutdown`. Between them the drain runs
as always; callbacks may submit and cancel during a drain.

## Runs

Each run finishes on two threads in under four minutes. "(violated)" marks the runs
whose property is the wording of a comment that the code does not keep.

| Run | Question | Bounds |
|---|---|---|
| `history` | Do steps always fit, does a Buffer with later edits stay dirty, without background saves? | 2 texts, 2 settings, `max_undos` 3, 5 revisions |
| `async` | What do late results of background saves do; do they end? | 2 texts, 2 background saves, 4 revisions, fair worker |
| `async_later` (violated) | "Later edits remain dirty", `init.lua:1326` | 1 background save |
| `safe_write` | Can an entire text be had at every crash; do other texts stay when there is a guard; does a save end whole, also when removals fail; is the backup offered? | 2 texts, 2 backups, 3 identities, 4 stamps, saves with and without a guard |
| `machine_save` | Are unseen versions safe, and unsaved text, through drops, late writes, restarts, crashes? | 1 file, 2 texts, 6 moves |
| `machine_save_as` | Does a Save As, also during another save, go out, and leave no record of a closed Buffer? | 2 files, 3 texts, 4 moves |
| `machine_resolves` | Do saves come to an end? | 2 formats, 4 moves, fair |
| `machine_read_fails` (violated) | The same when the server can fail to read | 2 moves, fair |
| `native_pool` | Nothing freed is used, lanes, wakeups, ends, against cancellations and a destruction | 2 jobs of 3 kinds, 2 workers, fair |
| `treesitter` | Is a ready tree the tree of the text; is the last text parsed, also when events are refused; are references counted? | 1 Buffer, 2 states, 3 jobs, 2 workers, 3 revisions |
| `terminal_host` | One Controller, no lost output, no late keystroke, order, roles, record against disk over attaches in the middle of a write and failing saves | 2 slots, 3 connections, 1 record beyond the snapshot, 1 change, 1 keystroke |
| `lua_pool` | Bounded output, one end for each job, every job ends, a shutdown needs no time limit | 2 jobs, 2 workers, 1 message of a handler's own, fair |

**Why the bounds are enough.** A wrong clean change id needs a saved step, an undo
below it and new edits: two texts and four revisions, of which `history` has five; the
stack overflows at its fourth step. A second background save is needed for a late first
one, and a third only repeats that. In `MachineSave` the stories to fear are
an edit, a save, a loss, a change elsewhere and a crash; reconnects, late writes and
replies in between are no moves, so six moves hold one more step. A pool needs two jobs and two workers for a lane that is held, a job that waits for it and a
worker to leave free; the proofs cover all other numbers. A document state with
a parse, the cleanup of the former one and that of its close uses three jobs, two states let
one be freed while the next parses, and three revisions give an edit to a tree that was edited before.
In `SafeWrite` two backups let one be left over when the next save makes another; the file, the guard, the save and a
background save remember at most three identities and three stamps, and one more is free.
In `TerminalHost` two slots and three connections give a Controller, a Viewer, a slot that is used again and each way in which
control moves. The queue holds one record beyond the snapshot, so that the role of a Client that leaves and
one change of the screen already fill it, and threads wait. One change is enough for output
to be late, lost or doubled, one keystroke to be late; more of them are more of the same records. In
`LuaWorkerPool` two jobs meet on one worker or take two; a handler that sends an end itself and then
fails sends the two ends that a job can get.

Deadlock is not checked: a bounded editor may stop (`MaxRevision`, `MaxMoves`), the user
may do nothing, and after a destruction nothing happens. `NoLostWakeup`,
`SettledIsCurrent` and the liveness properties say instead that no work is left over. In
`terminal_host` the host may also just end, and in `safe_write` a file that has both its backups takes no
other save.

`VIEW`s leave out state that nothing reads again: results of forgotten save tokens,
`disk_revision` where no property reads it, and in `safe_write` what the last save left behind and what
history says of it while no save runs (the next one forgets both), and the value of `outside`, of which
only a change matters.
Symmetry is used for interchangeable sets in runs without liveness.

**Fairness.** `BufferHistory!FairSpec`: the `file_io` worker runs and its messages are
drained at each frame; nobody must type or save. `MachineSave!FairSpec`: Client and server
threads run again and again and the Client reconnects in a loop
(`machine_client.lua`, `MachineClient:run`); nothing forces a drop, a save or a crash,
and moves are bounded, so drops are finite. `NativePool!FairSpec`: the scheduler runs each
thread that can run, the work of a job ends, and the main thread finishes a destruction
it began; it need not submit, drain or cancel. No fairness is asked of users or of
other programs. `TreeSitterService` states the end of its work as a state property
(`SettledIsCurrent`), so it needs none. `LuaWorkerPool!FairSpec`: the main thread drains in
each frame and goes on with a shutdown, and each worker thread that can run does; a handler
returns or fails. It does not ask that a drain gets to every worker in a given time, that
anybody cancels, or that a shutdown runs out of time. `TerminalHost` has no liveness
property: Clients may stop reading at any time, and the host answers by dropping them.

## Findings

Two runs show that the code does other than a text of the repository says:

1. `async_later`: a background save names its change id, not its text. After an undo
   below that id and two edits, an undo to it shows unsaved text as saved.
2. `machine_read_fails`: a read error while an unknown save is resolved leaves that save
   open, without a retry, until the connection drops again.

The passing runs state the same properties with exactly these cases excepted (`foreign`
in `CleanIsSaved`, `ReadErrors` off in `machine_resolves`), or for the jobs the code
means (`LanesKept`).

Known behaviours without a run of their own, each from reading the code while modelling it:

- *Offline saves.* The check after a reconnect repeats an offline save only if the Buffer
  `is_dirty()` (`init.lua:1219`), so that one of changed line endings or encoding stays on this PC, against the
  comments at 1099 ("It runs again after the reconnect") and 1070.
- *Durable writes.* Another program that writes between the last look of a save and its
  replacement, or its opening of the file, loses its text (`late`; a few system calls wide). After a
  save the Buffer takes the state of the file as known (`autosave_fast.lua:753`), also when another program wrote
  just before. A failed save that restored its backup leaves the file with another time, so the
  next save asks about a conflict. A save without a guard replaces what another program has written,
  and if it fails, or the program crashes in the middle, the text that comes back is the one it found
  when it made its copy. A temporary file, a copy or a backup that `os.remove` cannot remove stays beside
  the file, the first two without a word (`stuck`). When a torn file is saved again with its question
  unanswered, the torn text becomes a newer backup, which a load offers first (`piled`).
- *Native pool.* A Project run with background priority is no background work to the limit
  (`worker_pool.c:4356`), so background work can occupy every worker; the runtime test
  `worker_pool_native.lua:118` says that it leaves one. `LanesKept` speaks of the other jobs.
- *Terminal host, waits.* `waited` excepts what follows from a loop that stopped at a full
  queue: output can be sent twice to a Client whose role changed between the two passes of a
  broadcast (496-502); a new Client can get roles and output before its welcome
  (1069-1075); a small role or clear can go into a queue ahead of output that is waiting for
  room (comment 813, `docs/machines.md:395`); and a loop that goes on late can send an older
  number of Clients after a newer one. `NoOutputLost` and `OneController` hold in all of
  these. The monitor waits too (966), against the comment at 442.
- *Terminal host, slots.* A thread can wake so late that the Client it waited for is another
  one in the same slot; it then gives it a record made for the former. `PromptWakeups`
  excludes this.
- *Terminal host, record.* When `save_snapshot` fails, the record is written all the same, and
  says that nobody is attached although the disk is older than what Clients saw (`unsaved`). A Client
  that attaches between the look at the flags and the replacement of the record is not in it: the
  record then says that nobody is attached while it is, and may have been sent newer output, until
  the write that its attach asks for (`registry_requested`). `RecordedDetachIsSaved` speaks of what was sent
  before the look, and says that what was sent later went to a Client that still has its threads.
- *Terminal host, closes.* Two Clients that close at once both see each other and detach,
  and a Client that attaches between the count (912) and the end (927) loses the shell.
- *Channels.* `mm_channel_gc` drops its reference outside the mutex of the list of channels.
- *Lua pool.* A shutdown that runs out of time clears channels without acknowledging, so a
  worker in its supply waits for ever; the code leaves it on purpose (the excepted `late`
  in `JobsEnd`).
- *Terminal host, sizes.* A resize that changes only the size of a cell tells nobody (889). An attach whose
  snapshot or writer thread fails has set the size already (1051-1056); the reap tells the others.
  `RolesCurrent` does not speak of these.
- *Buffers.* A failed conversion sets `new_file` (`init.lua:917`), which the model of a failed save
  does not: the Buffer is then dirty more often. A reload keeps `new_file` (`init.lua:568`) and does not end a background save
  (581). The version that the user accepted is the base before the save that replaces it
  is known to work (940).
- *Machine Buffers.* Text that the encoding cannot hold, or more than 16 MiB, starts no save (1147-1151);
  in the callback of another save this error also drops the save that waited (1117).
- *Servers.* Another program can write between the check and the replacement (`serve.lua:368`).
- *Tree-sitter.* When the event of a completed parse is refused (`service.c:202`), its result waits for
  the next event, of whatever parse, or for a symbol search that polls; nothing asks again (`unheard`,
  excepted in `SettledIsCurrent`). The count of a snapshot is not atomic (`snapshot.c:155`); a schedule that
  fails leaves `scheduled_revision` (`treesitter/init.lua:222`).
- *Native pool.* A destruction without `cancel_running` leaves its queue unread (4446); no caller asks for it.

## Proofs

TLAPS proves for every value of the constants:

**BufferHistoryProofs**, from `TextsAssumption`, `UndosAssumption`, `BoundsAssumption`
and the two assumptions about switches:
`TypeCorrect`, `HistoryCorrect` (`StepsFit`; with it that the history is bounded and its
cursor never stands inside a group),
`SavedCorrect` (`CleanIsSaved`), `SynchronousSavedCorrect` (`LaterEditsRemainDirty` when
there are no background saves), `WritesGoForward` (`NeverOlder`), `OthersWorkIsKept`
(`BackgroundKeepsOtherWork`) and `SavedIsWritten` (`FinishIsHonest`).
`CleanIsSaved` is not inductive: the Buffer becomes clean by an undo, long after the save.
The invariant `IInv` adds `CleanHolds` (the text at the clean change id, wherever the
cursor stands, is the file's) and `PendingHolds` (the same for the change id of a
background save, with the text being saved, and revisions in order). Both speak of
`TextAt(i)`, the text at a change id. The lemmas about the history (`RecordEditHistory`,
`UndoHistory`, ...) show once that edits keep `TextAt` below the cursor and undo and redo
keep it everywhere; the lemmas about saves then use only that. `OthersWorkIsKept` needs `TouchInv`
besides: a background save knows that the file was changed or removed since it began. That the
file is gone must be part of it, because a Buffer whose missing file is accepted
(`MarkFileMissing`) then counts as changed from outside.

**SafeWriteProofs**, from `SafeWriteAssumption`, for any texts, identities, stamps and number of
backups: `TypeCorrect`, `TextIsKept` (`KeepsText`, the refinement of `AtomicSave`),
`OthersTextIsKept` (`OthersTextKept`), `SavesEndWhole` (`EndsWhole`) and `TornIsOfferedFirst`
(`TornIsOffered`). The invariant says for each place in `write_file_safely` what is on disk then:
`FileInv` (a file that is not synced is torn or has the text of the save about to be synced),
`BackupInv` (backups are synced, and the one that counts exists), `SaveInv` (what the save knows,
and the temporary files that it needs), `KeptInv` (a file that was torn before the save keeps the same
backup) and `TextInv`. The last is why the guard is enough: as long as the file has the stamp that the
guard expects, it has the text from before the save, and so have the copies made of it, whoever
wrote in between. Of a save without a guard it says nothing; the copy in hand is then the text that
comes back, and a step of `Look`. `LookInv` (what the last look of a guarded save saw; for the
others, that the identity is the one found at the beginning), `EndInv` (a save adds only
the backup in hand) and `OfferInv` (the backup of a torn file
is the newest) are added for one theorem each. What a removal does to each of the files, whether it
works or not, is one lemma.

**MachineSaveProofs**, from `ValuesAssumption`, `SwitchesAssumption` and `BoundsAssumption`:
`TypeCorrect`, `SavedTextIsOnMachine` (`CleanIsOnMachine`), `UnseenIsKept`
(`NothingUnseenOverwritten`), `ClosedBufferLeavesNoRecord` (`ClosedLeavesNoRecord`),
`WorkSurvivesCrash` (`CrashKeepsWork`) and `WaitingSaveAsIsKept` (`WaitingSaveAsGoesOut`), with any
number of messages and failures. The invariant has a part about the Buffer, `BufferGood`: what it
knows at its clean change id is the text of its version (`CleanGood`), its record has its
unsaved text (`RecordGood`), and the versions it names were seen (`NamesGood`). The other parts are
about messages in flight: a write has a base that the Client has seen, and the bytes of the open save if it has
its token (`WritesGood`); an answer that says that the save was made has its bytes
(`ResultsGood`). They hold because a new save takes a token that no message, no late write
and no memory of the server has. `ConnGood`, `WindowGood` (between its check and its replacement
the server's file has the base unless another program wrote) and `PromiseGood` (after a
crash the record has the promised text) complete it. The program changes the Buffer by chains of functions, so the
proof follows those: `Good(o, b, V)` says what a Buffer `b` is in the middle of a step that began
with `o`; one lemma for each function carries it on, and `ClientStepKeeps` puts the result
back into the invariant of the whole state. `WaitsOn`, `GoesOut` and `KeepsSave` do the same for a Save As that waits.

**NativePoolProofs**, from `PoolAssumption`: `TypeCorrect`, `NothingUsedAfterFree`,
`OneEnd`, `ReleasedAfterEnd`, `LanesAreKept` and `PoolKeepsPromise`, the refinement of
`JobService`. The invariant says where a job is: in the queue, in the queue that the
destruction took, or with one worker (`OneOwner`); that its references are one for its
handle and one for that place (`RefsCount`); what its status and its number of results
are at each place (`EndsInPlace`); that the running list is the jobs of busy workers
(`RunningListed`); and that the counters are the numbers of workers in their lanes
(`Counted`, with the library's facts about cardinality). The worker's order (result, leave
the list, drop the reference) is what makes it inductive.

**NativePoolWakeups**: `NoWakeupLost` (`NoLostWakeup`). A submission wakes one worker only, so
the invariant `Counts` is about numbers: while a worker sleeps, at least as many workers are on
their way to the queue (`Selecting`) as jobs could start before one ends (`Starts`: plain jobs,
background jobs up to the limit, one Project run). A submission adds at most one to each side;
a worker that takes a job lowers both; a worker that goes to sleep found none to take, and the
lemma that a choice finds a job when `Starts` is positive needs the least id of a finite set,
for which the library's theorem about well-founded relations serves. `QueueOrdered` gives it ids that tell the
jobs apart.

**TreeSitterServiceProofs**, from `ValuesAssumption` and `BoundsAssumption`: `TypeCorrect`,
`ReferencesCorrect` (`ReferencesCounted`), `ReadyCorrect` (`ReadyIsCurrent`) and `SettledCorrect`
(`SettledIsCurrent`), for any Buffers, states, jobs, workers and revisions. A job is in one place
(`PlaceInv`); the references of a state are its jobs, counted with the library's facts about
cardinality, and one for its owner (`RefInv`); an active job is one that still parses
(`ActiveInv`). For the text, the tree that a job starts from must fit the job's text (`TreeInv`), and
the job that a Buffer waits for must parse what was scheduled last (`StateInv`): a result that is
published is then of that text, and `RevisionInv` says that this is the Buffer's text unless a later one
is marked pending. `SettledIsCurrent` needs more, that nothing is forgotten: a Buffer that waits has an active job that
is not cancelled and whose end was signalled, or whose event was refused (`PollInv`), and one that does not wait shows what its
state has or is scheduled by its thread (`SettleInv`).

**TerminalHostProofs**, from `HostAssumption`, for any number of Clients, any queues and waits, and
with `PromptWakeups` or without: `ControllerIsOne` (`OneController`), `DetachIsSaved`
(`RecordedDetachIsSaved`), `TypeCorrect`, `KeystrokeIsRecent` (`NoLateKeystroke`), `OutputReaches`
(`NoOutputLost`), `OrderHolds` (`OrderWithoutWaits`) and `RolesReach` (`RolesCurrent`), in four layers.
The first invariant is `OneController` with `Sets` (an attached slot is
used and has a writer thread), `WaitInv` (what a thread that waits may have in hand) and `DiskInv`
(without a writer thread nobody was sent more than the disk has, unless the monitor is about
to save or the last save failed) and `RecordInv` (if the record about to be published says that nobody is there,
the disk had what was sent when that was found, under the same exception). `OneController` is not inductive alone: a loop that goes on after a wait drops
Clients by what it kept from before. The second, `TalkInv`, adds types that are tight enough:
what is queued, typed or known anywhere is at most as new as the host (`ClientInv`), inputs are not
older than what their Client sent before (`Rising`), what waits in the Controller's pipe was typed
at most one grant ago (`Recent`, in `InboxInv`), who writes to the shell writes the head of its own
pipe (`InputInv`), and a thread that waits does nothing else (`LoopInv`, `WorkInv`). A grant needs
the head of a pipe to be as new as the host, so all that was typed after it is too; this makes
`Recent` inductive. The third, `OutputInv`, is `CaughtUp`: whoever has a snapshot, or will get it from
the thread that attaches it, has every later output, or a waiting thread carries it; and `Owned`: a
snapshot in hand belongs to the thread that waits. The fourth, `QuietInv`, holds until a
thread first waits: each Client's records are in order, the last role says what holds now (`Told`),
and the number in it is right unless the monitor has yet to reap somebody.

**LuaWorkerPoolProofs**, from `LuaPoolAssumption`: `OutputIsBounded` (`Backpressure`), `TypeCorrect`
and `LuaPoolKeepsPromise`, the refinement of `JobService`. `TypeCorrect` rests on the choice of a
worker: the lane is a row of workers, their loads are natural numbers, so a least loaded one exists.
The invariant is `ChannelInv` (a worker
whose value is still there, or not counted, is in its supply) and `JobInv` (the pool keeps
exactly the jobs without an end, and a cancellation that is on its way was asked for).

**Model-checked only**: the liveness properties, `BackgroundSaveEnds`, `SaveResolves`, `JobsEnd` (of
both pools), `DestroyEnds` and `ShutdownEnds`. Liveness under fairness is out of the prover's
reach, and so are `ENABLED` and induction over data. Every invariant and action property of the passing
runs has a theorem; the runs check the same formulas on instances, and are the first to show it when
a change of a model breaks one.

## What is not modelled

`PROJECT.json` lists the remaining components with the reason for each. In short: text
algorithms, drawing, parsing and layout are sequential computations that tests reach;
shell and single-instance code is spread over handles and calls of Windows. A save is one
step in `BufferHistory`, and `SafeWrite` shows that this is what a crash sees of it. The repository has about a hundred thousand lines, most of them
drawing, text layout, bindings and views: the modules cover the parts whose state is shared,
and a small share of the lines.

Of the modelled components these parts are left out: in `SafeWrite` saves with
`config.safe_write` off, `Buffer.write_text_safely`, which saves texts of no Buffer and has no guard, the sync of a directory (a
failure is a warning, so a power failure could take the new name of a backup with it), two programs that
write one open file at a time, and temporary files of background saves whose result never comes back;
in `TerminalHost` the saves of the screen at intervals, the end of the shell and its
drain, recovery after a Windows session end, prepared shells, agent status, titles and editor
requests; in `LuaWorkerPool` the native pool behind it, the flow control of
`process_stream`; in `thread` channels the list of named channels and the copies of values; in
`TreeSitterService` the time limit of a parse, schedules that fail and queries.

## Plan

Done, in this order: `BufferHistory` and its proofs, `MachineSave`, `NativePool` with
`JobService` and its proofs, `TreeSitterService`, `TerminalHost` and its proofs,
`LuaWorkerPool` and its proofs, `NativePoolWakeups`, `SafeWrite` with `AtomicSave` and its proofs,
`TreeSitterServiceProofs`, `MachineSaveProofs`.

Next, to extend the model:

1. The end of a shell, its drain, and recovery after a Windows session end in `TerminalHost`.
2. Autosave and reload timers around `BufferHistory`.
3. Machine terminals, the symbol index, single instance and session end, as far
   as they fit.

Next, to prove: that output is sent twice to a Client only when its role changed during a broadcast,
and what remains of the order of records once threads wait, as `TerminalHost` theorems; for
`MachineSave`, that at most one write of a save takes effect on the server.
