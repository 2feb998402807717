---------------------------- MODULE TerminalHost ----------------------------
(***************************************************************************)
(* The process that owns a shell and its screen, and up to MAX_CLIENTS      *)
(* Clients that show it (src/terminal_host.c). One Client is the            *)
(* Controller: it types and sets the size. Each Client gets a snapshot of   *)
(* the host's screen and then every later change, through a bounded queue.  *)
(*                                                                          *)
(* Threads: the reader of the shell's output, one reader per Client (named  *)
(* by its slot), one writer per Client, and the monitor. A step is what a   *)
(* thread does between two releases of the host's lock. queue_record        *)
(* releases it while it waits for the Controller's full queue: there a loop *)
(* over the Clients stops in the middle, and `wait` holds the rest of it.   *)
(***************************************************************************)
EXTENDS Integers, FiniteSets, Sequences

CONSTANTS
  Slots,           \* the slots of Clients, in the order in which loops visit them
  Reader, Monitor, \* the thread that reads the shell's output, and the monitor
  None,            \* no slot, no thread, no wait
  QueueLimit,      \* records that a queue holds beyond the snapshot (8 MiB in the code)
  PromptWakeups,   \* a waiting thread runs before its Client's slot is used again
  MaxChanges,      \* bound: changes of the host's screen and of its size together
  MaxTyped,        \* bound: keystrokes
  Arrivals         \* bound: the connections, in order, each "local", "remote" or "viewonly"

Threads == Slots \cup {Reader, Monitor}

\* The records that a Client gets: a chunk of output, the welcome and the snapshot, and its role.
Records ==
  [type : {"output", "welcome", "replay"}, at : Nat] \cup
  [type : {"role"}, at : Nat, gen : Nat, controls : BOOLEAN, clients : Nat, size : Nat]

\* Where a thread waits in queue_record: for which slot, with what, and what of its loop is left.
Waits ==
  [for : Slots, records : Seq(Records), op : {"output", "resize", "take", "attach", "reap"},
   arg : Nat \cup {None}, rest : SUBSET Slots, epochs : [Slots -> Nat]]

ASSUME HostAssumption ==
  /\ Slots \subseteq Nat /\ IsFiniteSet(Slots)
  /\ Reader \notin Slots /\ Monitor \notin Slots /\ Reader # Monitor
  /\ None \notin Threads \cup Waits
  /\ Arrivals \in Seq({"local", "remote", "viewonly"})
  /\ QueueLimit \in Nat \ {0}
  /\ PromptWakeups \in BOOLEAN
  /\ {MaxChanges, MaxTyped} \subseteq Nat

VARIABLES
  stop,        \* the host ends
  rev,         \* changes that the host's screen has: chunks of output, clears
  grid,        \* changes of its size
  generation,  \* each grant of control makes a new one
  controller,  \* the controlling slot, or None
  used,        \* slots with a connection that the monitor has not reaped
  attached,    \* slots whose Client gets what the screen shows
  controls,    \* slots whose own controller flag is set
  stopped,     \* slots whose connection ends
  writers,     \* slots with a writer thread
  kind,        \* what the Client of a slot is
  epoch,       \* changes with each Client that attaches in the slot
  stream,      \* all that was queued for the slot's Client, oldest first
  written,     \* how much of it the Client has
  mind,        \* what the Client knows of its role
  inbox,       \* typed input on its way to the host
  doing,       \* what the reader thread of the slot is about
  wait,        \* where a thread waits for the room of a queue, and what it has left to do
  inputLock,   \* the thread that holds the input lock
  monitor,     \* what the monitor goes on with: to save, to write the record, to publish it
  recorded,    \* the session's record says that a Client is attached
  saved,       \* the changes that the screen on disk has
  report,      \* what the record that is being written says of that
  typed, connections,   \* counters for the bounds
  sent,        \* for the properties: the last change that some Client was sent
  owed,        \* for the properties: `sent` when `report` was found
  unsaved,     \* for the properties: what a Client was sent is not on disk, as the last save failed
  waited       \* for the properties: some thread has waited for a queue

hostVars == <<stop, rev, grid, generation, controller>>
slotVars == <<used, writers, kind, epoch>>
clientVars == <<attached, controls, stopped, stream, written, mind, inbox, sent>>
talkVars == <<doing, inputLock>>
recordVars == <<recorded, saved, report, owed, unsaved>>
diskVars == <<monitor, recordVars>>
waitVars == <<wait, waited>>
countVars == <<typed, connections>>
vars == <<hostVars, slotVars, clientVars, talkVars, diskVars, waitVars, countVars>>

\* Before its first role a Client takes itself for the Controller.
Stranger == [gen |-> 0, viewer |-> FALSE, pending |-> FALSE]

-----------------------------------------------------------------------------
\* Records. Each knows the state of the host's screen when it was made.
Output(at) == [type |-> "output", at |-> at]
Welcome(at) == [type |-> "welcome", at |-> at]
Replay(at) == [type |-> "replay", at |-> at]
Role(at, gen, ctl, clients, size) ==
  [type |-> "role", at |-> at, gen |-> gen, controls |-> ctl, clients |-> clients, size |-> size]

\* Mutant: the role of a new Client goes out first.
RoleFirst(c, gen, ctl, clients, size, at) ==
  <<Role(rev, gen, c \in ctl, clients, size), Welcome(rev), Replay(at)>>

\* What attach_client queues for the new Client in slot c: `at` is when the snapshot was made.
Greeting(c, gen, ctl, clients, size, at) ==
  <<Welcome(rev), Role(rev, gen, c \in ctl, clients, size), Replay(at)>>

\* The snapshot, its welcome and its role may exceed the limit (allowance).
Full(c, records) == Len(stream[c]) - written[c] + Len(records) > QueueLimit + 3
TooFull(to, records) == {c \in to : Full(c, records[c])}

\* Mutant: the roles are made before the flags change.
RolesOfBefore(to, att, ctl, gen, size) ==
  [c \in to |-> <<Role(rev, gen, c \in controls, Cardinality(att), size)>>]

\* What a loop of send_roles puts into the queue of each slot of `to`: the Clients that
\* the loop drops on its way are not counted in the records of later slots.
Roles(to, att, ctl, gen, size) ==
  [c \in to |-> <<Role(rev, gen, c \in ctl,
     Cardinality(att \ {d \in to \ ctl : d < c /\ Full(d, <<0>>)}), size)>>]

\* A loop that queues one record for each slot of `to` waits at a Controller whose queue
\* is full, and reaches only the slots before it.
Blocked(to, ctl) == {c \in to \cap ctl : Full(c, <<0>>)}
Reached(to, ctl) == {c \in to : \A k \in Blocked(to, ctl) : c < k}

Cut(f, gone, empty) == [c \in Slots |-> IF c \in gone THEN empty ELSE f[c]]

\* Mutant: what a dropped Client had sent so far stays counted.
LeaveCounted(gone, streams, boxes) ==
  /\ stopped' = stopped \cup gone
  /\ stream' = Cut(streams, gone, <<>>) /\ written' = written
  /\ mind' = Cut(mind, gone, Stranger) /\ inbox' = Cut(boxes, gone, <<>>)

\* What was queued for the Clients in `gone`, and what they sent, is lost.
Leave(gone, streams, boxes) ==
  /\ stopped' = stopped \cup gone
  /\ stream' = Cut(streams, gone, <<>>) /\ written' = Cut(written, gone, 0)
  /\ mind' = Cut(mind, gone, Stranger) /\ inbox' = Cut(boxes, gone, <<>>)

\* Mutant: a full queue loses the record, and the Viewer stays.
SendOrSkip(att, ctl, to, records, boxes) ==
  /\ attached' = att /\ controls' = ctl
  /\ Leave(attached \ att, [c \in Slots |-> IF c \in to /\ ~Full(c, records[c])
                                          THEN stream[c] \o records[c] ELSE stream[c]], boxes)
  /\ sent' = rev

\* queue_record for slots that need no wait: a Viewer whose queue is full is dropped.
Send(att, ctl, to, records, boxes) ==
  LET full == TooFull(to, records)
      ats == {sent} \cup {Head(records[c]).at : c \in to \ full}
  IN  /\ attached' = att \ full /\ controls' = ctl
      /\ Leave((attached \ att) \cup full,
               [c \in Slots |-> IF c \in to THEN stream[c] \o records[c] ELSE stream[c]], boxes)
      /\ sent' = CHOOSE at \in ats : \A a \in ats : a <= at

\* Thread t waits for the Controller in `stuck`, if there is one, and keeps the rest of its loop.
Wait(t, stuck, records, op, arg, rest) ==
  /\ wait' = [wait EXCEPT ![t] =
       IF stuck = {} THEN None
       ELSE LET k == CHOOSE k \in stuck : TRUE
            IN  [for |-> k, records |-> records[k], op |-> op, arg |-> arg,
                 rest |-> {c \in rest : c > k}, epochs |-> epoch]]
  /\ waited' = (waited \/ stuck # {})

\* send_roles by thread t, to all.
SendRoles(t, ctl, gen, size, boxes, op, arg) ==
  LET records == Roles(attached, attached, ctl, gen, size)
  IN  /\ Send(attached, ctl, Reached(attached, ctl), records, boxes)
      /\ Wait(t, Blocked(attached, ctl), records, op, arg, Slots)

\* Mutant: the host still counts the Client that left as its Controller.
StopButControls(c) ==
  /\ attached' = attached \ {c}
  /\ controls' = controls \ {c}
  /\ Leave({c}, stream, inbox)
  /\ UNCHANGED <<controller, sent>>

\* stop_client.
StopClient(c) ==
  /\ attached' = attached \ {c}
  /\ controls' = controls \ {c}
  /\ controller' = IF controller = c THEN None ELSE controller
  /\ Leave({c}, stream, inbox)
  /\ UNCHANGED sent

Init ==
  /\ stop = FALSE /\ rev = 0 /\ grid = 0 /\ generation = 0 /\ controller = None
  /\ used = {} /\ writers = {} /\ attached = {} /\ controls = {} /\ stopped = {}
  /\ kind = [c \in Slots |-> None]
  /\ epoch = [c \in Slots |-> 0]
  /\ stream = [c \in Slots |-> <<>>]
  /\ written = [c \in Slots |-> 0]
  /\ mind = [c \in Slots |-> Stranger]
  /\ inbox = [c \in Slots |-> <<>>]
  /\ doing = [c \in Slots |-> "idle"]
  /\ wait = [t \in Threads |-> None]
  /\ inputLock = None
  /\ monitor = "idle" /\ recorded = FALSE /\ saved = 0 /\ report = FALSE /\ owed = 0 /\ unsaved = FALSE
  /\ typed = 0 /\ connections = 0 /\ sent = 0 /\ waited = FALSE

-----------------------------------------------------------------------------
MayChange == rev + grid < MaxChanges

\* The shell's output, and clears.
Broadcast(t) ==
  LET records == [c \in attached |-> <<Output(rev + 1)>>]
      stuck == Blocked(attached, controls)
  IN  /\ wait[t] = None /\ ~stop /\ MayChange
      /\ rev' = rev + 1
      /\ Send(attached, controls, attached \ stuck, records, inbox)
      /\ Wait(t, stuck, records, "output", None, attached)
      /\ UNCHANGED <<stop, grid, generation, controller, slotVars, talkVars, diskVars, countVars>>

\* The reader thread of a Client reads the next message.
Idle(c) == c \in used \ stopped /\ doing[c] = "idle" /\ wait[c] = None

Clear(c) == Idle(c) /\ inbox[c] = <<>> /\ c \in controls /\ Broadcast(c)

Resize(c) ==
  /\ Idle(c) /\ inbox[c] = <<>> /\ c \in controls /\ MayChange
  /\ grid' = grid + 1
  /\ SendRoles(c, controls, generation, grid + 1, inbox, "resize", None)
  /\ UNCHANGED <<stop, rev, generation, controller, slotVars, talkVars, diskVars, countVars>>

Free(c) == used' = used \ {c} /\ kind' = [kind EXCEPT ![c] = None]

\* The slots that the rest of a loop is for: output goes to the Clients of that time.
Due(w, att, ctl) ==
  IF w.op = "output" THEN {c \in w.rest \cap ctl : epoch[c] = w.epochs[c]} ELSE w.rest \cap att

\* What a loop that goes on queues: the record that it waited with, its roles for the slots
\* that are `due`, and the greeting for the new Client in `own`.
LateRecords(w, att, ctl, due, own) ==
  LET roles == Roles(due, att, ctl, generation, grid)
      clients == Cardinality(att \ {d \in due \ ctl : Full(d, <<0>>)})
  IN  [c \in ({w.for} \cap att) \cup due \cup own |->
        IF c = w.for \/ w.op = "output" THEN w.records
        ELSE IF c \in own THEN Greeting(c, generation, ctl, clients, grid, w.arg) ELSE roles[c]]

\* Thread t, of which the wait w is over, queues the record that it waited with, and what is
\* left of its loop, for the Clients in `att`.
Proceed(t, w, att, ctl) ==
  LET due == Due(w, att, ctl)
      stuck == Blocked(due, ctl)
      own == IF w.op = "attach" /\ stuck = {} THEN ({t} \cap att) \ {w.for} ELSE {}
      records == LateRecords(w, att, ctl, due, own)
      held == stuck \cup TooFull(own \cap ctl, records)
  IN  /\ Send(att, ctl, ({w.for} \cap att) \cup Reached(due, ctl) \cup (own \ held), records, inbox)
      /\ Wait(t, held, records, w.op, w.arg, IF stuck = {} THEN {} ELSE w.rest)
      /\ inputLock' = IF held = {} /\ inputLock = t THEN None ELSE inputLock
      /\ IF w.op = "reap" /\ held = {}
           THEN Free(w.arg) /\ monitor' = "write"
           ELSE UNCHANGED <<used, kind, monitor>>

\* A thread that waited in queue_record goes on with its loop: its Client has room or left,
\* lost control, or made no progress for CLIENT_STALL_TIMEOUT_MS (stalled).
GoOn(t, stalled) ==
  LET k == wait[t].for
      drop == k \in attached /\ Full(k, wait[t].records) /\ (stalled \/ k \notin controls)
      gone == IF drop THEN {k} ELSE {}
  IN  /\ Proceed(t, wait[t], attached \ gone, controls \ gone)
      /\ controller' = IF controller \in gone THEN None ELSE controller
      /\ UNCHANGED <<stop, rev, grid, generation, writers, epoch, doing, recordVars, countVars>>

Resume(t) ==
  /\ wait[t] # None
  /\ \/ wait[t].for \notin attached \cap controls
     \/ ~Full(wait[t].for, wait[t].records)
  /\ GoOn(t, FALSE)

Stall(t) ==
  /\ wait[t] # None
  /\ wait[t].for \in attached \cap controls /\ Full(wait[t].for, wait[t].records)
  /\ GoOn(t, TRUE)

-----------------------------------------------------------------------------
\* Connections.
Connect(c) ==
  /\ monitor = "idle" /\ wait[Monitor] = None /\ ~stop
  /\ c \notin used /\ (\A d \in Slots : d < c => d \in used) /\ connections < Len(Arrivals)
  /\ PromptWakeups => \A t \in Threads : wait[t] # None => wait[t].for # c
  /\ connections' = connections + 1
  /\ used' = used \cup {c} /\ stopped' = stopped \ {c}
  /\ kind' = [kind EXCEPT ![c] = Arrivals[connections + 1]]
  /\ doing' = [doing EXCEPT ![c] = "hello"]
  /\ UNCHANGED <<hostVars, writers, epoch, attached, controls, stream, written, mind, inbox, sent,
                 inputLock, diskVars, waitVars, typed>>

\* attach_client after a valid HELLO: size tells whether a new Controller changes the size.
Attach(c, size) ==
  LET granted == /\ kind[c] # "viewonly"
                 /\ controller = None \/ (kind[c] = "local" /\ kind[controller] = "local")
      ctl == IF granted THEN (controls \ {controller}) \cup {c} ELSE controls
      att == attached \cup {c}
      gen == IF granted THEN generation + 1 ELSE generation
      stuck == Blocked(attached, ctl)
      own == IF stuck = {} THEN {c} ELSE {}
      roles == Roles(attached, att, ctl, gen, size)
      clients == Cardinality(att \ {d \in attached \ ctl : Full(d, <<0>>)})
      records == [d \in attached \cup own |->
        IF d = c THEN Greeting(d, gen, ctl, clients, size, rev) ELSE roles[d]]
  IN  /\ c \in used \ stopped /\ doing[c] = "hello" /\ inputLock = None /\ ~stop
      /\ size \in {grid} \cup (IF granted /\ MayChange THEN {grid + 1} ELSE {})
      /\ grid' = size /\ generation' = gen
      /\ controller' = IF granted THEN c ELSE controller
      /\ writers' = writers \cup {c}
      /\ epoch' = [epoch EXCEPT ![c] = @ + 1]
      /\ doing' = [doing EXCEPT ![c] = "idle"]
      /\ Send(att, ctl, Reached(attached, ctl) \cup own, records, inbox)
      /\ Wait(c, stuck, records, "attach", rev, Slots \ {c})
      /\ inputLock' = IF stuck = {} THEN None ELSE c
      /\ UNCHANGED <<stop, rev, used, kind, diskVars, countVars>>

\* A refused HELLO, a DETACH, a pipe that breaks.
Disconnect(c) ==
  /\ c \in used \ stopped /\ doing[c] \in {"hello", "idle"} /\ wait[c] = None
  /\ StopClient(c)
  /\ UNCHANGED <<stop, rev, grid, generation, slotVars, talkVars, diskVars, waitVars, countVars>>

WriterFails(c) ==
  /\ c \in attached \cap writers
  /\ StopClient(c)
  /\ UNCHANGED <<stop, rev, grid, generation, slotVars, talkVars, diskVars, waitVars, countVars>>

\* The writer thread sends a record, and the Client reads it.
Deliver(c) ==
  /\ c \in writers \ stopped /\ written[c] < Len(stream[c])
  /\ written' = [written EXCEPT ![c] = @ + 1]
  /\ LET r == stream[c][written[c] + 1]
     IN  mind' = IF r.type # "role" THEN mind
                 ELSE [mind EXCEPT ![c] = [gen |-> r.gen, viewer |-> ~r.controls,
                                           pending |-> @.pending /\ r.gen = @.gen]]
  /\ UNCHANGED <<hostVars, slotVars, attached, controls, stopped, stream, inbox, sent, talkVars, diskVars,
                 waitVars, countVars>>

-----------------------------------------------------------------------------
\* Control and typed input. A Viewer that types asks for control first, with the generation
\* it knows; the input follows on the same pipe. For the properties, an input names the
\* host's generation at the keystroke.
Types(c) ==
  LET m == mind[c]
      input == [type |-> "INPUT", gen |-> generation]
  IN  /\ c \in attached /\ written[c] > 0 /\ typed < MaxTyped
      /\ typed' = typed + 1
      /\ IF m.viewer /\ ~m.pending
           THEN /\ inbox' = [inbox EXCEPT ![c] = @ \o <<[type |-> "TAKE", gen |-> m.gen], input>>]
                /\ mind' = [mind EXCEPT ![c].pending = TRUE]
           ELSE /\ inbox' = [inbox EXCEPT ![c] = Append(@, input)]
                /\ UNCHANGED mind
      /\ UNCHANGED <<hostVars, slotVars, attached, controls, stopped, stream, written, sent, talkVars,
                     diskVars, waitVars, connections>>

Reads(c, type) == Idle(c) /\ inbox[c] # <<>> /\ Head(inbox[c]).type = type
Popped(c) == [inbox EXCEPT ![c] = Tail(@)]
Pop(c) ==
  /\ inbox' = Popped(c)
  /\ UNCHANGED <<attached, controls, stopped, stream, written, mind, sent>>

\* Mutant: a request wins with any generation.
GrantableAnyTime(c) == c \in attached /\ kind[c] # "viewonly"

\* take_control.
Grantable(c) == c \in attached /\ kind[c] # "viewonly" /\ Head(inbox[c]).gen = generation

TakeControl(c, size) ==
  LET ctl == (controls \ {controller}) \cup {c}
  IN  /\ Reads(c, "TAKE") /\ inputLock = None /\ Grantable(c)
      /\ size \in {grid} \cup (IF MayChange THEN {grid + 1} ELSE {})
      /\ generation' = generation + 1 /\ controller' = c /\ grid' = size
      /\ SendRoles(c, ctl, generation + 1, size, Popped(c), "take", None)
      /\ inputLock' = IF Blocked(attached, ctl) = {} THEN None ELSE c
      /\ UNCHANGED <<stop, rev, slotVars, doing, diskVars, countVars>>

RefuseTake(c) ==
  /\ Reads(c, "TAKE") /\ inputLock = None /\ ~Grantable(c)
  /\ Pop(c)
  /\ UNCHANGED <<hostVars, slotVars, talkVars, diskVars, waitVars, countVars>>

\* Input is written to the shell under the input lock, and only that of the Controller.
StartInput(c) ==
  /\ Reads(c, "INPUT") /\ inputLock = None
  /\ IF c \in controls
       THEN doing' = [doing EXCEPT ![c] = "input"] /\ inputLock' = c /\ UNCHANGED clientVars
       ELSE Pop(c) /\ UNCHANGED talkVars
  /\ UNCHANGED <<hostVars, slotVars, diskVars, waitVars, countVars>>

FinishInput(c) ==
  /\ doing[c] = "input"
  /\ IF c \in stopped THEN UNCHANGED clientVars ELSE Pop(c)
  /\ doing' = [doing EXCEPT ![c] = "idle"] /\ inputLock' = None
  /\ UNCHANGED <<hostVars, slotVars, diskVars, waitVars, countVars>>

-----------------------------------------------------------------------------
\* A Pane Close: the thread counts the other Clients under the lock, and acts after it.
StartClose(c) ==
  /\ Idle(c) /\ inbox[c] = <<>>
  /\ doing' = [doing EXCEPT ![c] = IF attached \ {c} = {} THEN "close" ELSE "detach"]
  /\ UNCHANGED <<hostVars, slotVars, clientVars, inputLock, diskVars, waitVars, countVars>>

\* A close through a control connection names the local Client it comes from, or none.
ControlClose(c, from) ==
  /\ c \in used \ stopped /\ doing[c] = "hello"
  /\ from \in {None} \cup {d \in attached : kind[d] = "local"}
  /\ IF from = None THEN UNCHANGED <<controller, clientVars>> ELSE StopClient(from)
  /\ doing' = [doing EXCEPT ![c] = IF attached \ {from} = {} THEN "close" ELSE "detach"]
  /\ UNCHANGED <<stop, rev, grid, generation, slotVars, inputLock, diskVars, waitVars, countVars>>

CloseDetaches(c) ==
  /\ doing[c] = "detach"
  /\ doing' = [doing EXCEPT ![c] = "idle"]
  /\ StopClient(c)
  /\ UNCHANGED <<stop, rev, grid, generation, slotVars, inputLock, diskVars, waitVars, countVars>>

\* stop_host.
CloseEnds(c) ==
  /\ doing[c] = "close"
  /\ doing' = [doing EXCEPT ![c] = "idle"]
  /\ stop' = TRUE
  /\ attached' = {} /\ controls' = {} /\ controller' = None
  /\ Leave(used, stream, inbox) /\ UNCHANGED sent
  /\ UNCHANGED <<rev, grid, generation, slotVars, inputLock, diskVars, waitVars, countVars>>

-----------------------------------------------------------------------------
\* The monitor. reap_client joins the threads of a stopped slot, tells the others, and
\* saves the screen when nobody is left.
Reap(c) ==
  /\ monitor = "idle" /\ wait[Monitor] = None /\ ~stop
  /\ c \in used \cap stopped /\ doing[c] \in {"hello", "idle"} /\ wait[c] = None
  /\ writers' = writers \ {c}
  /\ doing' = [doing EXCEPT ![c] = "idle"]
  /\ SendRoles(Monitor, controls, generation, grid, inbox, "reap", c)
  /\ IF Blocked(attached, controls) = {}
       THEN Free(c) /\ monitor' = IF attached = {} THEN "save" ELSE "write"
       ELSE UNCHANGED <<used, kind, monitor>>
  /\ UNCHANGED <<hostVars, epoch, inputLock, recordVars, countVars>>

\* save_snapshot. The reap goes on to write the record whether it worked or not.
SaveSnapshot ==
  /\ monitor = "save" /\ ~stop
  /\ saved' = rev /\ unsaved' = FALSE /\ monitor' = "write"
  /\ UNCHANGED <<hostVars, slotVars, clientVars, talkVars, recorded, report, owed, waitVars, countVars>>

SaveFails ==
  /\ monitor = "save" /\ ~stop
  /\ unsaved' = (sent > saved) /\ monitor' = "write"
  /\ UNCHANGED <<hostVars, slotVars, clientVars, talkVars, recorded, saved, report, owed, waitVars, countVars>>

\* Mutant: only attached Clients count.
OnlyAttached == attached # {}

\* What the record says of Clients. One that left counts until the monitor has reaped it.
AnyClient == attached \cup writers # {}

\* write_registry, after a reap or a save, and for an attach, a new title, a failed write and
\* so on. It looks at one slot after the other without the lock; as a slot only fills while
\* the monitor looks, it finds what was there at one of those moments.
ReadFlags ==
  /\ monitor \in {"idle", "write"} /\ wait[Monitor] = None /\ ~stop
  /\ report' = AnyClient /\ owed' = sent
  /\ monitor = "write" \/ report' # recorded
  /\ monitor' = "publish"
  /\ UNCHANGED <<hostVars, slotVars, clientVars, talkVars, recorded, saved, unsaved, waitVars, countVars>>

\* The rest of write_registry: the new record takes the place of the old one, or fails to.
Publish ==
  /\ monitor = "publish" /\ monitor' = "idle"
  /\ recorded' \in {report, recorded}
  /\ report' = FALSE /\ owed' = 0
  /\ UNCHANGED <<hostVars, slotVars, clientVars, talkVars, saved, unsaved, waitVars, countVars>>

-----------------------------------------------------------------------------
Next ==
  \/ Broadcast(Reader)
  \/ \E t \in Threads : Resume(t) \/ Stall(t)
  \/ \E c \in Slots :
       \/ Clear(c) \/ Resize(c)
       \/ Connect(c)
       \/ \E size \in {grid, grid + 1} : Attach(c, size) \/ TakeControl(c, size)
       \/ Disconnect(c) \/ WriterFails(c) \/ Deliver(c)
       \/ Types(c) \/ RefuseTake(c) \/ StartInput(c) \/ FinishInput(c)
       \/ StartClose(c) \/ CloseDetaches(c) \/ CloseEnds(c)
       \/ \E from \in Slots \cup {None} : ControlClose(c, from)
       \/ Reap(c)
  \/ SaveSnapshot \/ SaveFails
  \/ ReadFlags \/ Publish

Spec == Init /\ [][Next]_vars

-----------------------------------------------------------------------------
RecordsOf(c) == {stream[c][i] : i \in 1..Len(stream[c])}

TypeOK ==
  /\ stop \in BOOLEAN /\ rev \in Nat /\ grid \in Nat /\ generation \in Nat
  /\ controller \in Slots \cup {None}
  /\ UNION {used, attached, controls, stopped, writers} \subseteq Slots /\ attached \subseteq used
  /\ kind \in [Slots -> {"local", "remote", "viewonly", None}] /\ epoch \in [Slots -> Nat]
  /\ stream \in [Slots -> Seq(Records)] /\ \A c \in Slots : written[c] \in 0..Len(stream[c])
  /\ mind \in [Slots -> [gen : Nat, viewer : BOOLEAN, pending : BOOLEAN]]
  /\ doing \in [Slots -> {"hello", "idle", "input", "close", "detach"}]
  /\ inbox \in [Slots -> Seq([type : {"TAKE", "INPUT"}, gen : Nat])]
  /\ wait \in [Threads -> Waits \cup {None}]
  /\ inputLock \in Slots \cup {None}
  /\ monitor \in {"idle", "save", "write", "publish"} /\ recorded \in BOOLEAN /\ saved \in 0..rev
  /\ report \in BOOLEAN /\ owed \in Nat /\ unsaved \in BOOLEAN
  /\ typed \in Nat /\ connections \in Nat /\ waited \in BOOLEAN

\* The host's view of who controls and each slot's own flag agree, through grants, drops,
\* disconnects and waits that interleave: one Controller at most, and it is attached.
OneController == controls = {controller} \ {None} /\ controls \subseteq attached

\* A Client that attached has all output after its snapshot: it is in its stream, or a thread
\* that waits for a queue still has it in hand for that Client.
InHand(c, at) ==
  \E t \in Threads :
    /\ wait[t] # None /\ wait[t].op = "output" /\ wait[t].records = <<Output(at)>>
    /\ c = wait[t].for \/ (c \in wait[t].rest /\ epoch[c] = wait[t].epochs[c])
NoOutputLost ==
  \A c \in attached : \A r \in RecordsOf(c) :
    r.type = "replay" => \A at \in (r.at + 1)..rev : Output(at) \in RecordsOf(c) \/ InHand(c, at)

\* No late keystroke: when input reaches the shell, no other Client was given control after
\* it was typed. At most its own Client's request was granted, which came before it.
NoLateKeystroke ==
  \A c \in Slots : doing[c] = "input" /\ c \notin stopped =>
    c \in controls /\ generation <= Head(inbox[c]).gen + 1

\* What a Client gets is in the order in which the host's screen changed: a welcome, then
\* a snapshot and later changes, each once, and roles at their place between them.
InOrder(s) ==
  \A i, j \in 1..Len(s) : i < j =>
    /\ s[j].type # "welcome"
    /\ s[i].at <= s[j].at
    /\ s[j].type = "output" => s[i].at < s[j].at
InHostOrder == \A c \in attached : InOrder(stream[c])

\* The host keeps that order as long as no queue was ever full.
OrderWithoutWaits == ~waited => InHostOrder

\* The last role that a Client got.
LastRole(c) ==
  LET roles == {i \in 1..Len(stream[c]) : stream[c][i].type = "role"}
  IN  stream[c][CHOOSE i \in roles : \A j \in roles : j <= i]

\* Without a wait, and once the monitor has reaped those who left, each Client was told the
\* generation, the size, its role and how many Clients there are.
RolesCurrent ==
  ~waited /\ used \cap stopped = {} =>
    \A c \in attached : LastRole(c) =
      Role(LastRole(c).at, generation, c \in controls, Cardinality(attached), grid)

\* When the session's record begins to say that no Client is attached, the screen on disk
\* has all that any Client was sent before the host found that nobody was there, if the last
\* save worked. What was sent since went to a Client that the monitor has not reaped.
RecordedDetachIsSaved ==
  [][recorded /\ ~recorded' /\ ~unsaved => owed <= saved /\ (sent <= saved \/ writers # {})]_vars

=============================================================================
