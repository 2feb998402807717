-------------------------- MODULE TerminalHostProofs --------------------------
(***************************************************************************)
(* What TLAPS proves about TerminalHost, for every set of slots, queue      *)
(* limit and order of connections. IInv carries who controls and what is on *)
(* disk; TalkInv the types and what Clients typed; OutputInv, with them,    *)
(* that no output is lost; QuietInv the order of records and the roles as   *)
(* long as no thread waits for room. Each builds on those before it.        *)
(***************************************************************************)
EXTENDS TerminalHost, FiniteSetTheorems, SequenceTheorems, WellFoundedInduction, TLAPS

\* Only a Client that is attached has a queue, and no new Client is.
Absent(att, stp, str, wri) ==
  /\ att \cap stp = {} /\ wri \in [Slots -> Nat]
  /\ \A c \in Slots \ att : str[c] = <<>> /\ wri[c] = 0

Sets ==
  /\ used \subseteq Slots /\ writers \subseteq Slots /\ attached \subseteq used /\ attached \subseteq writers
  /\ doing \in [Slots -> {"hello", "idle", "input", "close", "detach"}]
  /\ \A c \in attached : doing[c] # "hello"
  /\ Absent(attached, stopped, stream, written)

\* What thread t may wait with.
Waiter(t, w, now, gone) ==
  /\ Head(w.records).at \in Nat /\ Head(w.records).at <= now
  /\ w.op = "output" => Len(w.records) = 1
  /\ w.op = "attach" => t \notin w.rest
  /\ w.op = "reap" => t = Monitor /\ w.arg \in gone
WaitInv ==
  /\ wait = [t \in Threads |-> wait[t]]
  /\ \A t \in Threads : wait[t] # None => Waiter(t, wait[t], rev, stopped)

\* Without a writer thread nobody was sent more than the disk has, except while the
\* monitor is about to save, which it does not wait with, or after its last save failed.
DiskInv ==
  /\ rev \in Nat /\ sent \in Nat /\ sent <= rev /\ saved \in Nat
  /\ wait[Monitor] # None => monitor # "save"
  /\ writers = {} /\ monitor # "save" => unsaved \/ sent <= saved

IInv == Sets /\ OneController /\ WaitInv /\ DiskInv

-----------------------------------------------------------------------------
LEMMA Latest ==
  ASSUME NEW n \in Nat, NEW S \in SUBSET (0..n), S # {}
  PROVE  LET m == CHOOSE m \in S : \A a \in S : a <= m IN m \in S
<1> DEFINE T == {n - a : a \in S}
<1>1. T \subseteq Nat /\ T # {}
  <2>1. \A a \in S : n - a \in Nat
    OBVIOUS
  <2> QED BY <2>1
<1>2. PICK x \in T : \A y \in T : ~(<<y, x>> \in OpToRel(<, Nat))
  BY <1>1, NatLessThanWellFounded, WFMin
<1>3. PICK m \in S : x = n - m
  BY <1>2
<1>4. ASSUME NEW a \in S PROVE a <= m
  <2>1. n - a \in T /\ n - a \in Nat /\ n - m \in Nat
    OBVIOUS
  <2>2. ~(n - a < n - m)
    BY <1>2, <1>3, <2>1 DEF OpToRel
  <2> QED BY <2>1, <2>2
<1> QED BY <1>3, <1>4

\* A loop that sends one record never finds a full queue at a Controller that it reaches.
LEMMA OneRecord == \A r : Len(r) = 1 => \A c : Full(c, r) <=> Full(c, <<0>>)
<1>1. Len(<<0>>) = 1
  OBVIOUS
<1> QED BY <1>1 DEF Full

LEMMA ReachedHaveRoom ==
  ASSUME NEW to \in SUBSET Slots, NEW ctl, NEW c \in Reached(to, ctl) \cap ctl, NEW r, Len(r) = 1
  PROVE  ~Full(c, r)
<1>1. c \in to \cap ctl /\ \A k \in Blocked(to, ctl) : c < k
  BY DEF Reached
<1>2. c \in Nat /\ ~(c < c)
  BY <1>1, HostAssumption
<1>3. c \notin Blocked(to, ctl)
  BY <1>1, <1>2
<1> QED BY <1>1, <1>3, OneRecord DEF Blocked

\* A role is one record, and a greeting starts with its welcome.
LEMMA RolesMade ==
  \A to, att, ctl, g, size : \A c \in to :
    LET r == Roles(to, att, ctl, g, size)[c] IN Len(r) = 1 /\ Head(r).at = rev
BY DEF Roles, Role

LEMMA GreetingMade ==
  \A c, g, ctl, n, size, at : LET r == Greeting(c, g, ctl, n, size, at) IN Len(r) = 3 /\ Head(r).at = rev
BY DEF Greeting, Welcome

Kept(att, ctl, to, n) ==
  /\ attached' \subseteq att /\ ctl \subseteq attached' /\ controls' = ctl
  /\ Absent(attached', stopped', stream', written')
  /\ stopped \subseteq stopped'
  /\ sent' \in Nat /\ sent' <= n /\ (to = {} => sent' = sent)

\* What a step that sends records, or that makes Clients leave, does to the Clients.
LEMMA SendKeeps ==
  ASSUME Absent(attached, stopped, stream, written), sent \in Nat,
         NEW att \in SUBSET Slots, NEW ctl \in SUBSET att, NEW to \in SUBSET att, NEW rec, NEW boxes,
         Send(att, ctl, to, rec, boxes),
         (att \ attached) \cap stopped = {},
         \A c \in to \cap ctl : ~Full(c, rec[c]),
         NEW n \in Nat, sent <= n, \A c \in to : Head(rec[c]).at \in Nat /\ Head(rec[c]).at <= n
  PROVE  Kept(att, ctl, to, n)
<1>1. PICK full : full = TooFull(to, rec)
  OBVIOUS
<1>2. PICK gone : gone = (attached \ att) \cup full
  OBVIOUS
<1>3. /\ attached' = att \ full /\ controls' = ctl /\ stopped' = stopped \cup gone
      /\ stream' = Cut([c \in Slots |-> IF c \in to THEN stream[c] \o rec[c] ELSE stream[c]], gone, <<>>)
      /\ written' = Cut(written, gone, 0)
  BY <1>1, <1>2 DEF Send, Leave
<1>4. /\ attached' \subseteq att /\ ctl \subseteq attached' /\ controls' = ctl
      /\ stopped \subseteq stopped' /\ attached' \cap stopped' = {}
  BY <1>1, <1>2, <1>3 DEF Absent, TooFull
<1>5. written' \in [Slots -> Nat]
  BY <1>3 DEF Cut, Absent
<1>6. ASSUME NEW c \in Slots \ attached' PROVE stream'[c] = <<>> /\ written'[c] = 0
  <2>1. CASE c \in gone
    BY <1>3, <2>1 DEF Cut
  <2>2. CASE c \notin gone
    <3>1. c \notin attached /\ c \notin to
      BY <1>1, <1>2, <1>3, <1>6, <2>2 DEF TooFull
    <3>2. stream[c] = <<>> /\ written[c] = 0
      BY <3>1 DEF Absent
    <3> QED BY <1>3, <2>2, <3>1, <3>2 DEF Cut
  <2> QED BY <2>1, <2>2
<1>7. sent' \in Nat /\ sent' <= n /\ (to = {} => sent' = sent)
  <2> DEFINE ats == {sent} \cup {Head(rec[c]).at : c \in to \ full}
  <2>1. sent' = CHOOSE at \in ats : \A a \in ats : a <= at
    BY <1>1 DEF Send
  <2>2. ats \in SUBSET (0..n) /\ ats # {} /\ (to = {} => ats = {sent})
    OBVIOUS
  <2> HIDE DEF ats
  <2>3. sent' \in ats
    BY <2>1, <2>2, Latest
  <2> QED BY <2>2, <2>3
<1> QED BY <1>4, <1>5, <1>6, <1>7 DEF Absent, Kept

Waited(t, stuck) ==
  /\ WaitInv'
  /\ \A u \in Threads \ {t} : wait'[u] = wait[u]
  /\ stuck = {} => wait'[t] = None

LEMMA WaitKeeps ==
  ASSUME WaitInv, rev \in Nat, NEW t \in Threads, NEW stuck \in SUBSET Slots, NEW rec, NEW op, NEW arg, NEW rest,
         Wait(t, stuck, rec, op, arg, rest),
         NEW now \in Nat, rev' = now, rev <= now, NEW gone, stopped' = gone, stopped \subseteq gone,
         \A k \in stuck : /\ Head(rec[k]).at \in Nat /\ Head(rec[k]).at <= now
                          /\ op = "output" => Len(rec[k]) = 1,
         op = "attach" => t \notin rest,
         op = "reap" => t = Monitor /\ arg \in gone
  PROVE  Waited(t, stuck)
<1>1. PICK k : k = CHOOSE i \in stuck : TRUE
  OBVIOUS
<1>2. PICK later : later = {c \in rest : c > k}
  OBVIOUS
<1>3. PICK x : x = IF stuck = {} THEN None
                   ELSE [for |-> k, records |-> rec[k], op |-> op, arg |-> arg, rest |-> later, epochs |-> epoch]
  OBVIOUS
<1>4. wait' = [wait EXCEPT ![t] = x]
  BY <1>1, <1>2, <1>3 DEF Wait
<1>5. x # None => Waiter(t, x, now, gone)
  <2>1. CASE stuck = {}
    BY <1>3, <2>1
  <2>2. CASE stuck # {}
    <3>1. k \in stuck
      BY <1>1, <2>2
    <3>2. x.records = rec[k] /\ x.op = op /\ x.arg = arg /\ x.rest \subseteq rest
      BY <1>2, <1>3, <2>2
    <3> QED BY <3>1, <3>2 DEF Waiter
  <2> QED BY <2>1, <2>2
<1>6. wait' = [u \in Threads |-> wait'[u]] /\ wait'[t] = x /\ \A u \in Threads \ {t} : wait'[u] = wait[u]
  BY <1>4 DEF WaitInv
<1>7. ASSUME NEW u \in Threads, wait'[u] # None PROVE Waiter(u, wait'[u], now, gone)
  <2>1. CASE u = t
    BY <1>5, <1>6, <1>7, <2>1
  <2>2. CASE u # t
    <3>1. PICK w : w = wait[u] /\ wait'[u] = w
      BY <1>6, <2>2
    <3>2. Waiter(u, w, rev, stopped)
      BY <1>7, <3>1 DEF WaitInv
    <3>3. Waiter(u, w, now, gone)
      BY <3>2 DEF Waiter
    <3> QED BY <3>1, <3>3
  <2> QED BY <2>1, <2>2
<1>8. WaitInv'
  BY <1>6, <1>7 DEF WaitInv
<1> QED BY <1>3, <1>6, <1>8 DEF Waited

-----------------------------------------------------------------------------
\* The steps that send records.

LEMMA BroadcastInv ==
  ASSUME IInv, NEW t \in Threads \ {Monitor}, Broadcast(t)
  PROVE  IInv'
<1>0. Sets /\ OneController /\ WaitInv /\ DiskInv /\ rev \in Nat /\ sent \in Nat
  BY DEF IInv, DiskInv
<1>1. PICK att, ctl, boxes, now : att = attached /\ ctl = controls /\ boxes = inbox /\ now = rev + 1
  OBVIOUS
<1>a. PICK stuck, rec, to : stuck = Blocked(att, ctl) /\ rec = [c \in att |-> <<Output(now)>>] /\ to = att \ stuck
  OBVIOUS
<1>2. /\ Send(att, ctl, to, rec, boxes) /\ Wait(t, stuck, rec, "output", None, att)
      /\ rev' = now /\ UNCHANGED <<controller, used, writers, doing, monitor, saved, unsaved>> /\ wait[t] = None
  BY <1>1, <1>a DEF Broadcast, slotVars, talkVars, diskVars, recordVars
<1>3. \A c \in att : Len(rec[c]) = 1 /\ Head(rec[c]).at = now
  BY <1>1, <1>a DEF Output
<1>4. \A c \in to \cap ctl : ~Full(c, rec[c])
  BY <1>1, <1>a, <1>3, OneRecord DEF Blocked
<1>5. Kept(att, ctl, to, now)
  <2>1. /\ Absent(attached, stopped, stream, written) /\ att \in SUBSET Slots
        /\ ctl \in SUBSET att /\ to \in SUBSET att /\ (att \ attached) \cap stopped = {}
    BY <1>0, <1>1, <1>a DEF Sets, OneController
  <2>2. now \in Nat /\ sent <= now /\ \A c \in to : Head(rec[c]).at \in Nat /\ Head(rec[c]).at <= now
    BY <1>0, <1>1, <1>a, <1>3 DEF DiskInv
  <2> QED BY <1>0, <1>2, <1>4, <2>1, <2>2, SendKeeps
<1>6. Waited(t, stuck)
  <2>1. stuck \in SUBSET Slots /\ now \in Nat /\ rev <= now
    BY <1>0, <1>1, <1>a DEF Blocked, Sets
  <2>2. \A k \in stuck : Head(rec[k]).at \in Nat /\ Head(rec[k]).at <= now /\ Len(rec[k]) = 1
    BY <1>0, <1>1, <1>a, <1>3 DEF Blocked
  <2>3. PICK gone : gone = stopped' /\ stopped \subseteq gone
    BY <1>5 DEF Kept
  <2> QED BY <1>0, <1>2, <2>1, <2>2, <2>3, WaitKeeps
<1>7. Sets'
  BY <1>0, <1>1, <1>2, <1>5 DEF Sets, Kept
<1>8. OneController'
  BY <1>0, <1>1, <1>2, <1>5 DEF OneController, Kept
<1>9. wait'[Monitor] # None => monitor' # "save"
  BY <1>0, <1>2, <1>6 DEF DiskInv, Threads, Waited
<1>10. DiskInv'
  BY <1>0, <1>1, <1>a, <1>2, <1>5, <1>9 DEF DiskInv, Sets, Kept
<1> QED BY <1>6, <1>7, <1>8, <1>10 DEF IInv, Waited

LEMMA SendRolesKeeps ==
  ASSUME IInv, NEW t \in Threads, NEW att, att = attached, NEW now, now = rev, rev' = rev,
         NEW ctl \in SUBSET att, NEW g, NEW size, NEW boxes,
         NEW op \in {"resize", "take", "reap"}, NEW arg, op = "reap" => t = Monitor /\ arg \in stopped,
         SendRoles(t, ctl, g, size, boxes, op, arg)
  PROVE  /\ \E to \in SUBSET att : Kept(att, ctl, to, now)
         /\ \E stuck : stuck = Blocked(att, ctl) /\ Waited(t, stuck)
<1>0. Sets /\ WaitInv /\ now \in Nat /\ sent \in Nat /\ sent <= now /\ rev \in Nat
  BY DEF IInv, DiskInv
<1>1. PICK stuck, rec, to : stuck = Blocked(att, ctl) /\ rec = Roles(att, att, ctl, g, size) /\ to = Reached(att, ctl)
  OBVIOUS
<1>2. Send(att, ctl, to, rec, boxes) /\ Wait(t, stuck, rec, op, arg, Slots)
  BY <1>1 DEF SendRoles
<1>3. \A c \in att : Len(rec[c]) = 1 /\ Head(rec[c]).at = now
  BY <1>1, RolesMade
<1>4. att \in SUBSET Slots /\ to \in SUBSET att /\ stuck \in SUBSET Slots /\ stuck \subseteq att
  BY <1>0, <1>1 DEF Sets, Reached, Blocked
<1>5. \A c \in to \cap ctl : ~Full(c, rec[c])
  BY <1>1, <1>3, <1>4, ReachedHaveRoom
<1>6. Kept(att, ctl, to, now)
  <2>1. Absent(attached, stopped, stream, written) /\ (att \ attached) \cap stopped = {}
    BY <1>0 DEF Sets
  <2>2. \A c \in to : Head(rec[c]).at \in Nat /\ Head(rec[c]).at <= now
    BY <1>0, <1>3, <1>4
  <2> QED BY <1>0, <1>2, <1>4, <1>5, <2>1, <2>2, SendKeeps
<1>7. PICK gone : gone = stopped' /\ stopped \subseteq gone
  BY <1>6 DEF Kept
<1>8. Waited(t, stuck)
  <2>1. \A k \in stuck : Head(rec[k]).at \in Nat /\ Head(rec[k]).at <= now /\ (op = "output" => Len(rec[k]) = 1)
    BY <1>0, <1>3, <1>4
  <2>2. rev' = now /\ rev <= now /\ op # "attach" /\ (op = "reap" => t = Monitor /\ arg \in gone)
    BY <1>0, <1>7
  <2> QED BY <1>0, <1>2, <1>4, <1>7, <2>1, <2>2, WaitKeeps
<1> QED BY <1>1, <1>4, <1>6, <1>8

LEMMA ResizeInv ==
  ASSUME IInv, NEW c \in Slots, Resize(c)
  PROVE  IInv'
<1>0. Sets /\ OneController /\ WaitInv /\ DiskInv /\ c \in Threads /\ c # Monitor /\ Monitor \in Threads
  BY HostAssumption DEF IInv, Threads
<1>1. PICK att, ctl, boxes, now, g, size : /\ att = attached /\ ctl = controls /\ boxes = inbox /\ now = rev
                                           /\ g = generation /\ size = grid + 1
  OBVIOUS
<1>2. /\ SendRoles(c, ctl, g, size, boxes, "resize", None)
      /\ rev' = rev /\ UNCHANGED <<controller, used, writers, doing, monitor, saved, unsaved>>
  BY <1>1 DEF Resize, slotVars, talkVars, diskVars, recordVars
<1>3. ctl \in SUBSET att
  BY <1>0, <1>1 DEF OneController
<1>4. PICK to \in SUBSET att : Kept(att, ctl, to, now)
  BY <1>0, <1>1, <1>2, <1>3, SendRolesKeeps
<1>5. PICK stuck : Waited(c, stuck)
  BY <1>0, <1>1, <1>2, <1>3, SendRolesKeeps
<1>6. Sets'
  BY <1>0, <1>1, <1>2, <1>4 DEF Sets, Kept
<1>7. OneController'
  BY <1>0, <1>1, <1>2, <1>4 DEF OneController, Kept
<1>8. wait'[Monitor] # None => monitor' # "save"
  BY <1>0, <1>2, <1>5 DEF DiskInv, Waited
<1>9. writers = {} => sent' = sent
  BY <1>0, <1>1, <1>4 DEF Sets, Kept
<1>10. DiskInv'
  BY <1>0, <1>1, <1>2, <1>4, <1>8, <1>9 DEF DiskInv, Kept
<1> QED BY <1>5, <1>6, <1>7, <1>10 DEF IInv, Waited

LEMMA TakeControlInv ==
  ASSUME IInv, NEW c \in Slots, NEW size, TakeControl(c, size)
  PROVE  IInv'
<1>0. Sets /\ OneController /\ WaitInv /\ DiskInv /\ c \in Threads /\ c # Monitor /\ Monitor \in Threads /\ c # None
  BY HostAssumption DEF IInv, Threads
<1>1. PICK att, ctl, boxes, now, g : /\ att = attached /\ ctl = (controls \ {controller}) \cup {c} /\ boxes = Popped(c)
                                     /\ now = rev /\ g = generation + 1
  OBVIOUS
<1>2. /\ SendRoles(c, ctl, g, size, boxes, "take", None) /\ controller' = c /\ c \in attached
      /\ rev' = rev /\ UNCHANGED <<used, writers, doing, monitor, saved, unsaved>>
  BY <1>1 DEF TakeControl, Grantable, slotVars, talkVars, diskVars, recordVars
<1>3. ctl = {c} /\ ctl \in SUBSET att
  BY <1>0, <1>1, <1>2 DEF OneController
<1>4. PICK to \in SUBSET att : Kept(att, ctl, to, now)
  BY <1>0, <1>1, <1>2, <1>3, SendRolesKeeps
<1>5. PICK stuck : Waited(c, stuck)
  BY <1>0, <1>1, <1>2, <1>3, SendRolesKeeps
<1>6. Sets'
  BY <1>0, <1>1, <1>2, <1>4 DEF Sets, Kept
<1>7. OneController'
  BY <1>0, <1>2, <1>3, <1>4 DEF OneController, Kept
<1>8. wait'[Monitor] # None => monitor' # "save"
  BY <1>0, <1>2, <1>5 DEF DiskInv, Waited
<1>9. writers = {} => sent' = sent
  BY <1>0, <1>1, <1>4 DEF Sets, Kept
<1>10. DiskInv'
  BY <1>0, <1>1, <1>2, <1>4, <1>8, <1>9 DEF DiskInv, Kept
<1> QED BY <1>5, <1>6, <1>7, <1>10 DEF IInv, Waited

LEMMA ReapInv ==
  ASSUME IInv, NEW c \in Slots, Reap(c)
  PROVE  IInv'
<1>0. Sets /\ OneController /\ WaitInv /\ DiskInv /\ Monitor \in Threads
  BY DEF IInv, Threads
<1>1. PICK att, ctl, boxes, now, g, size : /\ att = attached /\ ctl = controls /\ boxes = inbox /\ now = rev
                                           /\ g = generation /\ size = grid
  OBVIOUS
<1>2. /\ SendRoles(Monitor, ctl, g, size, boxes, "reap", c)
      /\ c \in stopped /\ monitor = "idle" /\ rev' = rev /\ UNCHANGED <<controller, saved, unsaved>>
      /\ writers' = writers \ {c} /\ doing' = [doing EXCEPT ![c] = "idle"]
      /\ IF Blocked(att, ctl) = {}
           THEN used' = used \ {c} /\ monitor' = IF att = {} THEN "save" ELSE "write"
           ELSE UNCHANGED <<used, monitor>>
  BY <1>1 DEF Reap, Free, hostVars, recordVars
<1>3. ctl \in SUBSET att /\ c \notin attached
  BY <1>0, <1>1, <1>2 DEF OneController, Sets, Absent
<1>4. PICK to \in SUBSET att : Kept(att, ctl, to, now)
  BY <1>0, <1>1, <1>2, <1>3, SendRolesKeeps
<1>5. PICK stuck : stuck = Blocked(att, ctl) /\ Waited(Monitor, stuck)
  BY <1>0, <1>1, <1>2, <1>3, SendRolesKeeps
<1>6. Sets'
  BY <1>0, <1>1, <1>2, <1>3, <1>4 DEF Sets, Kept
<1>7. OneController'
  BY <1>0, <1>1, <1>2, <1>4 DEF OneController, Kept
<1>8. wait'[Monitor] # None => monitor' # "save"
  BY <1>2, <1>5 DEF Waited
<1>9. writers' = {} /\ monitor' # "save" => writers = {} /\ sent' = sent
  <2>1. writers' = {} => att = {} /\ Blocked(att, ctl) = {}
    BY <1>0, <1>1, <1>2, <1>3 DEF Sets, Blocked
  <2> QED BY <1>2, <2>1
<1>10. DiskInv'
  BY <1>0, <1>1, <1>2, <1>4, <1>8, <1>9 DEF DiskInv, Kept
<1> QED BY <1>5, <1>6, <1>7, <1>10 DEF IInv, Waited

LEMMA AttachInv ==
  ASSUME IInv, NEW c \in Slots, NEW size, Attach(c, size)
  PROVE  IInv'
<1>0. /\ Sets /\ OneController /\ WaitInv /\ DiskInv /\ c \in Threads /\ c # Monitor /\ Monitor \in Threads
      /\ c # None /\ rev \in Nat /\ sent \in Nat
  BY HostAssumption DEF IInv, Threads, DiskInv
<1>1. PICK granted \in BOOLEAN :
        granted = (/\ kind[c] # "viewonly"
                   /\ controller = None \/ (kind[c] = "local" /\ kind[controller] = "local"))
  OBVIOUS
<1>2. PICK ctl, att, old, gen, boxes, now :
        /\ ctl = IF granted THEN (controls \ {controller}) \cup {c} ELSE controls
        /\ old = attached /\ att = old \cup {c} /\ gen = IF granted THEN generation + 1 ELSE generation
        /\ boxes = inbox /\ now = rev
  OBVIOUS
<1>3. PICK stuck, own, roles, clients :
        /\ stuck = Blocked(old, ctl) /\ own = IF stuck = {} THEN {c} ELSE {}
        /\ roles = Roles(old, att, ctl, gen, size)
        /\ clients = Cardinality(att \ {d \in old \ ctl : Full(d, <<0>>)})
  OBVIOUS
<1>4. PICK rec, to :
        /\ rec = [d \in old \cup own |-> IF d = c THEN Greeting(d, gen, ctl, clients, size, rev) ELSE roles[d]]
        /\ to = Reached(old, ctl) \cup own
  OBVIOUS
<1>5. /\ Send(att, ctl, to, rec, boxes) /\ Wait(c, stuck, rec, "attach", rev, Slots \ {c})
      /\ c \in used \ stopped /\ doing[c] = "hello" /\ controller' = IF granted THEN c ELSE controller
      /\ writers' = writers \cup {c} /\ doing' = [doing EXCEPT ![c] = "idle"]
      /\ rev' = rev /\ UNCHANGED <<used, monitor, saved, unsaved>>
  BY <1>1, <1>2, <1>3, <1>4 DEF Attach, diskVars, recordVars
<1>6. c \notin old /\ stream[c] = <<>> /\ written[c] = 0
  BY <1>0, <1>2, <1>5 DEF Sets, Absent
<1>7. ctl = (IF granted THEN {c} ELSE controls) /\ ctl \in SUBSET att /\ att \in SUBSET Slots /\ old \in SUBSET Slots
  BY <1>0, <1>2 DEF OneController, Sets
<1>8. /\ \A d \in old : Len(rec[d]) = 1 /\ Head(rec[d]).at = now
      /\ c \in own => rec[c] = Greeting(c, gen, ctl, clients, size, rev) /\ Head(rec[c]).at = now
  <2>1. \A d \in old : Len(roles[d]) = 1 /\ Head(roles[d]).at = now
    BY <1>2, <1>3, RolesMade
  <2>2. \A d \in old : rec[d] = roles[d]
    BY <1>4, <1>6
  <2>3. c \in own => rec[c] = Greeting(c, gen, ctl, clients, size, rev)
    BY <1>4
  <2> QED BY <1>2, <2>1, <2>2, <2>3, GreetingMade
<1>9. to \in SUBSET att /\ stuck \in SUBSET old /\ (c \in to => c \in own)
  BY <1>2, <1>3, <1>4, <1>6 DEF Reached, Blocked
<1>10. \A d \in to \cap ctl : ~Full(d, rec[d])
  <2> SUFFICES ASSUME NEW d \in to \cap ctl PROVE ~Full(d, rec[d])
    OBVIOUS
  <2>1. CASE d = c
    <3>1. Len(rec[c]) = 3
      BY <1>8, <1>9, <2>1, GreetingMade
    <3>2. ~(0 - 0 + 3 > QueueLimit + 3)
      BY HostAssumption
    <3>3. Len(stream[c]) - written[c] + Len(rec[c]) = 0 - 0 + 3
      BY <1>6, <3>1
    <3> QED BY <2>1, <3>2, <3>3 DEF Full
  <2>2. CASE d # c
    BY <1>3, <1>4, <1>7, <1>8, <1>9, <2>2, ReachedHaveRoom DEF Reached
  <2> QED BY <2>1, <2>2
<1>11. Kept(att, ctl, to, now)
  <2>1. Absent(attached, stopped, stream, written) /\ (att \ attached) \cap stopped = {}
    BY <1>0, <1>2, <1>5 DEF Sets
  <2>2. now \in Nat /\ sent <= now /\ \A d \in to : Head(rec[d]).at \in Nat /\ Head(rec[d]).at <= now
    BY <1>0, <1>2, <1>8, <1>9 DEF DiskInv
  <2> QED BY <1>0, <1>5, <1>7, <1>9, <1>10, <2>1, <2>2, SendKeeps
<1>12. Waited(c, stuck)
  <2>1. \A k \in stuck : Head(rec[k]).at \in Nat /\ Head(rec[k]).at <= now
    BY <1>0, <1>2, <1>8, <1>9
  <2>2. PICK gone : gone = stopped' /\ stopped \subseteq gone
    BY <1>11 DEF Kept
  <2>3. rev' = now /\ rev <= now /\ now \in Nat /\ stuck \in SUBSET Slots /\ Wait(c, stuck, rec, "attach", now, Slots \ {c})
    BY <1>0, <1>2, <1>5, <1>7, <1>9
  <2>4. c \notin Slots \ {c}
    OBVIOUS
  <2> QED BY <1>0, <2>1, <2>2, <2>3, <2>4, WaitKeeps
<1>13. Sets'
  BY <1>0, <1>2, <1>5, <1>11 DEF Sets, Kept
<1>14. OneController'
  BY <1>0, <1>5, <1>7, <1>11 DEF OneController, Kept
<1>15. DiskInv'
  BY <1>0, <1>2, <1>5, <1>11, <1>12 DEF DiskInv, Kept, Waited
<1> QED BY <1>12, <1>13, <1>14, <1>15 DEF IInv, Waited

LEMMA GoOnInv ==
  ASSUME IInv, NEW t \in Threads, NEW stalled \in BOOLEAN, wait[t] # None, GoOn(t, stalled),
         wait[t].for \in attached \cap controls /\ Full(wait[t].for, wait[t].records) => stalled
  PROVE  IInv'
<1>0. /\ Sets /\ OneController /\ WaitInv /\ DiskInv /\ Monitor \in Threads /\ rev \in Nat /\ sent \in Nat
      /\ None \notin Slots
  BY HostAssumption DEF IInv, Threads, DiskInv
<1>1. PICK w : w = wait[t] /\ Waiter(t, w, rev, stopped)
  BY <1>0 DEF WaitInv
<1>2. PICK k, gone, att, ctl, boxes, now :
        /\ k = w.for /\ boxes = inbox /\ now = rev
        /\ gone = IF k \in attached /\ Full(k, w.records) /\ (stalled \/ k \notin controls) THEN {k} ELSE {}
        /\ att = attached \ gone /\ ctl = controls \ gone
  OBVIOUS
<1>3. /\ Proceed(t, w, att, ctl) /\ controller' = IF controller \in gone THEN None ELSE controller
      /\ rev' = rev /\ UNCHANGED <<writers, doing, saved, unsaved>>
  BY <1>1, <1>2 DEF GoOn, recordVars
<1>4. PICK got, later : got = {w.for} \cap att /\ later = Due(w, att, ctl)
  OBVIOUS
<1>5. PICK stuck, own : /\ stuck = Blocked(later, ctl)
                        /\ own = IF w.op = "attach" /\ stuck = {} THEN ({t} \cap att) \ {w.for} ELSE {}
  OBVIOUS
<1>6. PICK roles, clients : /\ roles = Roles(later, att, ctl, generation, grid)
                            /\ clients = Cardinality(att \ {d \in later \ ctl : Full(d, <<0>>)})
  OBVIOUS
<1>a. PICK rec : rec = LateRecords(w, att, ctl, later, own)
  OBVIOUS
<1>7. rec = [c \in got \cup later \cup own |->
               IF c = w.for \/ w.op = "output" THEN w.records
               ELSE IF c \in own THEN Greeting(c, generation, ctl, clients, grid, w.arg) ELSE roles[c]]
  BY <1>4, <1>6, <1>a DEF LateRecords
<1>8. PICK held, to, rest : /\ held = stuck \cup TooFull(own \cap ctl, rec)
                            /\ to = got \cup Reached(later, ctl) \cup (own \ held)
                            /\ rest = IF stuck = {} THEN {} ELSE w.rest
  OBVIOUS
<1>9. /\ Send(att, ctl, to, rec, boxes) /\ Wait(t, held, rec, w.op, w.arg, rest)
      /\ IF w.op = "reap" /\ held = {}
           THEN used' = used \ {w.arg} /\ monitor' = "write"
           ELSE UNCHANGED <<used, monitor>>
  BY <1>2, <1>3, <1>4, <1>5, <1>a, <1>8 DEF Proceed, Free
<1>10. /\ att \in SUBSET attached /\ att \in SUBSET Slots /\ ctl \in SUBSET att
       /\ got \in SUBSET att /\ later \in SUBSET att /\ own \in SUBSET att /\ k \notin own /\ own \cap later = {}
  <2>1. ctl \in SUBSET att /\ att \in SUBSET attached /\ att \in SUBSET Slots
    BY <1>0, <1>2 DEF OneController, Sets
  <2>2. own \cap later = {}
    BY <1>1, <1>4, <1>5 DEF Waiter, Due
  <2> QED BY <1>2, <1>4, <1>5, <2>1, <2>2 DEF Due
<1>11. stuck \in SUBSET later /\ held \in SUBSET Slots /\ to \in SUBSET att /\ held \in SUBSET (later \cup own)
  BY <1>5, <1>8, <1>10 DEF Blocked, Reached, TooFull
<1>12. \A c \in got \cup later \cup own :
         /\ Head(rec[c]).at \in Nat /\ Head(rec[c]).at <= now
         /\ c = k => rec[c] = w.records
         /\ w.op = "output" => Len(rec[c]) = 1
         /\ c \in later /\ c # k => Len(rec[c]) = 1
  <2> SUFFICES ASSUME NEW c \in got \cup later \cup own
               PROVE  /\ Head(rec[c]).at \in Nat /\ Head(rec[c]).at <= now
                      /\ c = k => rec[c] = w.records
                      /\ w.op = "output" => Len(rec[c]) = 1
                      /\ c \in later /\ c # k => Len(rec[c]) = 1
    OBVIOUS
  <2>1. CASE c = k
    BY <1>1, <1>2, <1>7, <2>1 DEF Waiter
  <2>2. CASE c # k /\ c \in own
    <3>1. w.op # "output"
      BY <1>5, <2>2
    <3>2. rec[c] = Greeting(c, generation, ctl, clients, grid, w.arg)
      BY <1>2, <1>7, <2>2, <3>1
    <3>3. Head(rec[c]).at = now
      BY <1>2, <3>2, GreetingMade
    <3>4. now \in Nat /\ w.op # "output" /\ c \notin later
      BY <1>0, <1>2, <1>5, <1>10, <2>2
    <3> QED BY <2>2, <3>3, <3>4
  <2>3. CASE c # k /\ c \notin own /\ w.op = "output"
    <3>1. rec[c] = w.records
      BY <1>7, <2>3
    <3> QED BY <1>1, <1>2, <2>3, <3>1 DEF Waiter
  <2>4. CASE c # k /\ c \notin own /\ w.op # "output"
    <3>1. rec[c] = roles[c] /\ c \in later
      BY <1>2, <1>4, <1>7, <2>4
    <3>2. \A d \in later : Len(roles[d]) = 1 /\ Head(roles[d]).at = now
      BY <1>2, <1>6, RolesMade
    <3> QED BY <1>0, <1>2, <2>4, <3>1, <3>2
  <2> QED BY <2>1, <2>2, <2>3, <2>4
<1>13. \A c \in to \cap ctl : ~Full(c, rec[c])
  <2> SUFFICES ASSUME NEW c \in to \cap ctl PROVE ~Full(c, rec[c])
    OBVIOUS
  <2>1. CASE c = k
    <3>1. rec[c] = w.records
      BY <1>2, <1>4, <1>8, <1>10, <1>11, <1>12, <2>1 DEF Reached
    <3>2. gone = {} /\ k \in attached \cap controls
      BY <1>2, <1>10, <2>1
    <3>3. ~Full(k, w.records)
      BY <1>1, <1>2, <3>2
    <3> QED BY <2>1, <3>1, <3>3
  <2>2. CASE c # k /\ c \in own
    BY <1>2, <1>4, <1>8, <1>10, <2>2 DEF Reached, TooFull
  <2>3. CASE c # k /\ c \notin own
    <3>1. c \in Reached(later, ctl) /\ c \in later
      BY <1>2, <1>4, <1>8, <2>3 DEF Reached
    <3> QED BY <1>10, <1>12, <2>3, <3>1, ReachedHaveRoom
  <2> QED BY <2>1, <2>2, <2>3
<1>14. Kept(att, ctl, to, now)
  <2>1. Absent(attached, stopped, stream, written) /\ (att \ attached) \cap stopped = {}
    BY <1>0, <1>10 DEF Sets
  <2>2. now \in Nat /\ sent <= now /\ \A d \in to : Head(rec[d]).at \in Nat /\ Head(rec[d]).at <= now
    BY <1>0, <1>2, <1>8, <1>12 DEF DiskInv, Reached
  <2> QED BY <1>0, <1>9, <1>10, <1>11, <1>13, <2>1, <2>2, SendKeeps
<1>15. Waited(t, held)
  <2>1. \A c \in held : /\ Head(rec[c]).at \in Nat /\ Head(rec[c]).at <= now
                        /\ w.op = "output" => Len(rec[c]) = 1
    BY <1>11, <1>12
  <2>2. PICK left : left = stopped' /\ stopped \subseteq left
    BY <1>14 DEF Kept
  <2>3. rev' = now /\ rev <= now /\ now \in Nat /\ held \in SUBSET Slots
    BY <1>0, <1>2, <1>3, <1>11
  <2>4. (w.op = "attach" => t \notin rest) /\ (w.op = "reap" => t = Monitor /\ w.arg \in left)
    BY <1>1, <1>8, <2>2 DEF Waiter
  <2>5. PICK op, arg : op = w.op /\ arg = w.arg
    OBVIOUS
  <2> QED BY <1>0, <1>9, <2>1, <2>2, <2>3, <2>4, <2>5, WaitKeeps
<1>16. Sets'
  <2>1. attached' \subseteq used'
    BY <1>0, <1>1, <1>9, <1>10, <1>14 DEF Sets, Kept, Waiter, Absent
  <2>2. used' \subseteq used
    BY <1>9
  <2> QED BY <1>0, <1>3, <1>10, <1>14, <2>1, <2>2 DEF Sets, Kept
<1>17. OneController'
  <2>1. ctl = {controller'} \ {None}
    BY <1>0, <1>2, <1>3 DEF OneController
  <2> QED BY <2>1, <1>14 DEF OneController, Kept
<1>18. /\ wait'[Monitor] # None => monitor # "save" /\ monitor' # "save"
       /\ monitor' # "save" => monitor # "save"
  <2>1. CASE t = Monitor
    BY <1>0, <1>9, <2>1 DEF DiskInv
  <2>2. CASE t # Monitor
    BY <1>0, <1>1, <1>9, <1>15, <2>2 DEF DiskInv, Waited, Waiter
  <2> QED BY <2>1, <2>2
<1>19. writers = {} => sent' = sent
  BY <1>0, <1>10, <1>11, <1>14 DEF Sets, Kept
<1>20. DiskInv'
  BY <1>0, <1>2, <1>3, <1>9, <1>14, <1>18, <1>19 DEF DiskInv, Kept
<1> QED BY <1>15, <1>16, <1>17, <1>20 DEF IInv, Waited

-----------------------------------------------------------------------------
\* The steps that send nothing.

\* Waits stay valid while the slot that the monitor reaps stays stopped.
LEMMA WaitsStay ==
  ASSUME WaitInv, wait' = wait, rev' = rev,
         \A t \in Threads : wait[t] # None /\ wait[t].op = "reap" => wait[t].arg \in stopped'
  PROVE  WaitInv'
<1>1. ASSUME NEW t \in Threads, wait[t] # None PROVE Waiter(t, wait[t], rev, stopped')
  BY <1>1 DEF WaitInv, Waiter
<1>2. PICK left : left = stopped'
  OBVIOUS
<1>3. \A t \in Threads : wait[t] # None => Waiter(t, wait[t], rev, left)
  BY <1>1, <1>2
<1> QED BY <1>2, <1>3 DEF WaitInv

LEMMA StopKeeps ==
  ASSUME IInv, NEW c, StopClient(c), wait' = wait, rev' = rev
  PROVE  /\ attached' = attached \ {c} /\ Absent(attached', stopped', stream', written')
         /\ OneController' /\ WaitInv' /\ sent' = sent
<1>0. Sets /\ OneController /\ WaitInv
  BY DEF IInv
<1>1. /\ attached' = attached \ {c} /\ controls' = controls \ {c}
      /\ controller' = (IF controller = c THEN None ELSE controller)
      /\ stopped' = stopped \cup {c} /\ sent' = sent
      /\ stream' = [d \in Slots |-> IF d \in {c} THEN <<>> ELSE stream[d]]
      /\ written' = [d \in Slots |-> IF d \in {c} THEN 0 ELSE written[d]]
  BY DEF StopClient, Leave, Cut
<1>2. Absent(attached', stopped', stream', written')
  <2>1. written' \in [Slots -> Nat]
    BY <1>0, <1>1 DEF Absent, Sets
  <2>2. ASSUME NEW d \in Slots \ attached' PROVE stream'[d] = <<>> /\ written'[d] = 0
    BY <1>0, <1>1, <2>2 DEF Absent, Sets
  <2> QED BY <1>0, <1>1, <2>1, <2>2 DEF Absent, Sets
<1>3. OneController'
  BY <1>0, <1>1 DEF OneController
<1>4. WaitInv'
  BY <1>0, <1>1, WaitsStay DEF WaitInv, Waiter
<1> QED BY <1>1, <1>2, <1>3, <1>4

LEMMA StopInv ==
  ASSUME IInv, NEW c, StopClient(c), NEW d \in Slots, NEW p \in {"idle", "close", "detach"},
         doing' = doing \/ doing' = [doing EXCEPT ![d] = p],
         UNCHANGED <<wait, rev, used, writers, monitor, saved, unsaved>>
  PROVE  IInv'
<1>1. /\ attached' = attached \ {c} /\ Absent(attached', stopped', stream', written')
      /\ OneController' /\ WaitInv' /\ sent' = sent
  BY StopKeeps
<1>2. Sets'
  BY <1>1 DEF IInv, Sets
<1>3. DiskInv'
  BY <1>1 DEF IInv, DiskInv
<1> QED BY <1>1, <1>2, <1>3 DEF IInv

\* A step that changes no Client.
LEMMA PlainInv ==
  ASSUME IInv, UNCHANGED <<rev, controller, used, writers, wait, attached, controls, stopped, stream, written, sent>>,
         NEW c \in Slots, NEW p \in {"idle", "input", "close", "detach"},
         doing' = doing \/ doing' = [doing EXCEPT ![c] = p],
         wait[Monitor] # None => monitor' # "save",
         saved' \in Nat, writers = {} /\ monitor' # "save" => unsaved' \/ sent <= saved'
  PROVE  IInv'
<1>0. Sets /\ OneController /\ WaitInv /\ DiskInv
  BY DEF IInv
<1>1. Sets'
  BY <1>0 DEF Sets, Absent
<1>2. OneController'
  BY <1>0 DEF OneController
<1>3. WaitInv'
  BY <1>0, WaitsStay DEF WaitInv, Waiter
<1>4. DiskInv'
  BY <1>0 DEF DiskInv
<1> QED BY <1>1, <1>2, <1>3, <1>4 DEF IInv

LEMMA CloseEndsInv ==
  ASSUME IInv, NEW c \in Slots, CloseEnds(c)
  PROVE  IInv'
<1>0. Sets /\ OneController /\ WaitInv /\ DiskInv
  BY DEF IInv
<1>1. /\ attached' = {} /\ controls' = {} /\ controller' = None /\ stopped' = stopped \cup used
      /\ stream' = [d \in Slots |-> IF d \in used THEN <<>> ELSE stream[d]]
      /\ written' = [d \in Slots |-> IF d \in used THEN 0 ELSE written[d]]
      /\ doing' = [doing EXCEPT ![c] = "idle"]
      /\ UNCHANGED <<wait, rev, used, writers, monitor, saved, unsaved, sent>>
  BY DEF CloseEnds, Leave, Cut, slotVars, diskVars, recordVars, waitVars
<1>2. Absent(attached', stopped', stream', written')
  <2>1. written' \in [Slots -> Nat]
    BY <1>0, <1>1 DEF Absent, Sets
  <2>2. ASSUME NEW d \in Slots PROVE stream'[d] = <<>> /\ written'[d] = 0
    BY <1>0, <1>1, <2>2 DEF Absent, Sets
  <2> QED BY <1>1, <2>1, <2>2 DEF Absent
<1>3. Sets'
  BY <1>0, <1>1, <1>2 DEF Sets
<1>4. WaitInv'
  BY <1>0, <1>1, WaitsStay DEF WaitInv, Waiter
<1> QED BY <1>0, <1>1, <1>3, <1>4 DEF IInv, OneController, DiskInv

LEMMA ConnectInv ==
  ASSUME IInv, NEW c \in Slots, Connect(c)
  PROVE  IInv'
<1>0. Sets /\ OneController /\ WaitInv /\ DiskInv
  BY DEF IInv
<1>1. /\ wait[Monitor] = None /\ c \notin used
      /\ used' = used \cup {c} /\ stopped' = stopped \ {c} /\ doing' = [doing EXCEPT ![c] = "hello"]
      /\ UNCHANGED <<rev, controller, writers, attached, controls, stream, written, sent, wait, monitor, saved, unsaved>>
  BY DEF Connect, hostVars, diskVars, recordVars, waitVars
<1>2. Sets'
  BY <1>0, <1>1 DEF Sets, Absent
<1>3. WaitInv'
  BY <1>0, <1>1, WaitsStay DEF WaitInv, Waiter
<1> QED BY <1>0, <1>1, <1>2, <1>3 DEF IInv, OneController, DiskInv

LEMMA DeliverInv ==
  ASSUME IInv, NEW c \in Slots, Deliver(c)
  PROVE  IInv'
<1>0. Sets /\ OneController /\ WaitInv /\ DiskInv
  BY DEF IInv
<1>1. /\ written[c] < Len(stream[c]) /\ written' = [written EXCEPT ![c] = @ + 1]
      /\ UNCHANGED <<rev, controller, used, writers, attached, controls, stopped, stream, sent, doing, wait, monitor, saved, unsaved>>
  BY DEF Deliver, hostVars, slotVars, talkVars, diskVars, recordVars, waitVars
<1>2. c \in attached
  BY <1>0, <1>1 DEF Sets, Absent
<1>3. Sets'
  <2>1. written' \in [Slots -> Nat] /\ \A d \in Slots \ {c} : written'[d] = written[d]
    BY <1>0, <1>1 DEF Sets, Absent
  <2> QED BY <1>0, <1>1, <1>2, <2>1 DEF Sets, Absent
<1>4. WaitInv'
  BY <1>0, <1>1, WaitsStay DEF WaitInv, Waiter
<1> QED BY <1>0, <1>1, <1>3, <1>4 DEF IInv, OneController, DiskInv

-----------------------------------------------------------------------------
LEMMA InitInv == Init => IInv
<1> SUFFICES ASSUME Init PROVE IInv
  OBVIOUS
<1>1. Sets
  BY DEF Init, Sets, Absent
<1>2. OneController
  BY DEF Init, OneController
<1>3. WaitInv
  BY DEF Init, WaitInv
<1>4. DiskInv
  BY DEF Init, DiskInv
<1> QED BY <1>1, <1>2, <1>3, <1>4 DEF IInv

LEMMA SlotStepInv ==
  ASSUME IInv, NEW c \in Slots,
         \/ Types(c) \/ RefuseTake(c) \/ StartInput(c) \/ FinishInput(c) \/ StartClose(c)
         \/ Disconnect(c) \/ WriterFails(c) \/ CloseDetaches(c)
         \/ \E from \in Slots \cup {None} : ControlClose(c, from)
  PROVE  IInv'
<1>0. DiskInv
  BY DEF IInv
<1>1. CASE Types(c)
  BY <1>0, <1>1, PlainInv DEF DiskInv, Types, hostVars, slotVars, talkVars, diskVars, recordVars, waitVars
<1>2. CASE RefuseTake(c)
  BY <1>0, <1>2, PlainInv DEF DiskInv, RefuseTake, Pop, hostVars, slotVars, talkVars, diskVars, recordVars, waitVars
<1>3. CASE StartInput(c)
  BY <1>0, <1>3, PlainInv DEF DiskInv, StartInput, Pop, hostVars, slotVars, clientVars, talkVars, diskVars, recordVars, waitVars
<1>4. CASE FinishInput(c)
  BY <1>0, <1>4, PlainInv DEF DiskInv, FinishInput, Pop, hostVars, slotVars, clientVars, diskVars, recordVars, waitVars
<1>5. CASE StartClose(c)
  BY <1>0, <1>5, PlainInv DEF DiskInv, StartClose, hostVars, slotVars, clientVars, diskVars, recordVars, waitVars
<1>6. CASE Disconnect(c)
  BY <1>6, StopInv DEF Disconnect, slotVars, talkVars, diskVars, recordVars, waitVars
<1>7. CASE WriterFails(c)
  BY <1>7, StopInv DEF WriterFails, slotVars, talkVars, diskVars, recordVars, waitVars
<1>8. CASE CloseDetaches(c)
  BY <1>8, StopInv DEF CloseDetaches, slotVars, diskVars, recordVars, waitVars
<1>9. ASSUME NEW from \in Slots \cup {None}, ControlClose(c, from) PROVE IInv'
  <2>1. PICK p \in {"close", "detach"} : doing' = [doing EXCEPT ![c] = p]
    BY <1>9 DEF ControlClose
  <2>2. CASE from = None
    BY <1>0, <1>9, <2>1, <2>2, PlainInv DEF DiskInv, ControlClose, slotVars, clientVars, diskVars, recordVars, waitVars
  <2>3. CASE from # None
    BY <1>9, <2>1, <2>3, StopInv DEF ControlClose, slotVars, diskVars, recordVars, waitVars
  <2> QED BY <2>2, <2>3
<1> QED BY <1>1, <1>2, <1>3, <1>4, <1>5, <1>6, <1>7, <1>8, <1>9

\* What the monitor does by itself, without the lock of the host.
MonitorAlone == SaveSnapshot \/ SaveFails \/ ReadFlags \/ Publish

LEMMA MonitorStepInv ==
  ASSUME IInv, MonitorAlone \/ UNCHANGED vars
  PROVE  IInv'
<1>0. Sets /\ OneController /\ WaitInv /\ DiskInv
  BY DEF IInv
<1>1. /\ UNCHANGED <<rev, controller, used, writers, wait, attached, controls, stopped, stream, written, sent, doing>>
      /\ wait[Monitor] # None => monitor' # "save"
      /\ saved' \in Nat /\ (writers = {} /\ monitor' # "save" => unsaved' \/ sent <= saved')
  <2>1. CASE SaveSnapshot
    BY <1>0, <2>1 DEF DiskInv, SaveSnapshot, hostVars, slotVars, clientVars, talkVars, waitVars
  <2>2. CASE SaveFails
    <3>1. wait'[Monitor] = wait[Monitor] /\ monitor' # "save" /\ saved' = saved /\ unsaved' = (sent > saved)
      BY <2>2 DEF SaveFails, waitVars
    <3>2. sent > saved \/ sent <= saved
      BY <1>0 DEF DiskInv
    <3>3. UNCHANGED <<rev, controller, used, writers, wait, attached, controls, stopped, stream, written, sent, doing>>
      BY <2>2 DEF SaveFails, hostVars, slotVars, clientVars, talkVars, waitVars
    <3>4. unsaved' \/ sent <= saved
      BY <3>1, <3>2, Zenon
    <3> QED BY <1>0, <3>1, <3>3, <3>4 DEF DiskInv
  <2>3. CASE ReadFlags
    BY <1>0, <2>3 DEF DiskInv, ReadFlags, hostVars, slotVars, clientVars, talkVars, waitVars
  <2>4. CASE Publish
    BY <1>0, <2>4 DEF DiskInv, Publish, hostVars, slotVars, clientVars, talkVars, waitVars
  <2>5. CASE UNCHANGED vars
    BY <1>0, <2>5 DEF DiskInv, vars, hostVars, slotVars, clientVars, talkVars, diskVars, recordVars, waitVars
  <2> QED BY <2>1, <2>2, <2>3, <2>4, <2>5 DEF MonitorAlone
<1>2. Sets'
  BY <1>0, <1>1 DEF Sets, Absent
<1>3. OneController'
  BY <1>0, <1>1 DEF OneController
<1>4. WaitInv'
  BY <1>0, <1>1, WaitsStay DEF WaitInv, Waiter
<1>5. DiskInv'
  BY <1>0, <1>1 DEF DiskInv
<1> QED BY <1>2, <1>3, <1>4, <1>5 DEF IInv

LEMMA NextInv == IInv /\ [Next]_vars => IInv'
<1> SUFFICES ASSUME IInv, [Next]_vars PROVE IInv'
  OBVIOUS
<1>1. CASE Broadcast(Reader)
  BY <1>1, BroadcastInv, HostAssumption DEF Threads
<1>2. ASSUME NEW t \in Threads, Resume(t) \/ Stall(t) PROVE IInv'
  <2>1. CASE Resume(t)
    BY <2>1, GoOnInv DEF Resume
  <2>2. CASE Stall(t)
    BY <2>2, GoOnInv DEF Stall
  <2> QED BY <1>2, <2>1, <2>2
<1>3. ASSUME NEW c \in Slots, Clear(c) PROVE IInv'
  BY <1>3, BroadcastInv, HostAssumption DEF Clear, Threads
<1> QED BY <1>1, <1>2, <1>3, ResizeInv, ConnectInv, AttachInv, TakeControlInv, DeliverInv, CloseEndsInv, ReapInv,
           SlotStepInv, MonitorStepInv DEF Next, MonitorAlone

LEMMA Invariance == Spec => []IInv
BY InitInv, NextInv, PTL DEF Spec

\* The host's view of who controls and each slot's own flag agree.
THEOREM ControllerIsOne == Spec => []OneController
<1>1. IInv => OneController
  BY DEF IInv
<1> QED BY <1>1, Invariance, PTL

\* The record that the monitor is about to publish was found when the disk had what was sent.
RecordInv == monitor = "publish" /\ ~report => unsaved \/ owed <= saved

LEMMA RecordStays ==
  ASSUME Next PROVE MonitorAlone \/ (UNCHANGED recordVars /\ (monitor' = "publish" => monitor = "publish"))
<1> DEFINE Stays == UNCHANGED recordVars /\ (monitor' = "publish" => monitor = "publish")
<1>1. ASSUME NEW t, Broadcast(t) \/ Resume(t) \/ Stall(t) PROVE Stays
  <2>1. ASSUME NEW stalled, GoOn(t, stalled) PROVE Stays
    <3>1. PICK w, att, ctl : Proceed(t, w, att, ctl)
      BY <2>1 DEF GoOn
    <3> QED BY <2>1, <3>1 DEF GoOn, Proceed
  <2> QED BY <1>1, <2>1 DEF Broadcast, Resume, Stall, diskVars
<1>2. ASSUME NEW c \in Slots, NEW size, Attach(c, size) \/ TakeControl(c, size) PROVE Stays
  BY <1>2 DEF Attach, TakeControl, diskVars
<1>3. ASSUME NEW c \in Slots, Clear(c) \/ Resize(c) \/ Connect(c) \/ Deliver(c) PROVE Stays
  BY <1>1, <1>3 DEF Clear, Resize, Connect, Deliver, diskVars
<1>4. ASSUME NEW c \in Slots, Reap(c) PROVE Stays
  BY <1>4 DEF Reap
<1>5. ASSUME NEW c \in Slots, Types(c) \/ RefuseTake(c) \/ StartInput(c) \/ FinishInput(c) PROVE Stays
  BY <1>5 DEF Types, RefuseTake, StartInput, FinishInput, diskVars
<1>6. ASSUME NEW c \in Slots, Disconnect(c) \/ WriterFails(c) \/ StartClose(c) \/ CloseDetaches(c) \/ CloseEnds(c)
      PROVE  Stays
  BY <1>6 DEF Disconnect, WriterFails, StartClose, CloseDetaches, CloseEnds, diskVars
<1>7. ASSUME NEW c \in Slots, NEW from, ControlClose(c, from) PROVE Stays
  BY <1>7 DEF ControlClose, diskVars
<1> HIDE DEF Stays
<1>8. MonitorAlone \/ Stays
  BY <1>1, <1>2, <1>3, <1>4, <1>5, <1>6, <1>7 DEF Next, MonitorAlone
<1> QED BY <1>8 DEF Stays

\* The flags are read when no Client has a writer, or they say that one is there.
LEMMA RecordStep == IInv /\ RecordInv /\ [Next]_vars => RecordInv'
<1> SUFFICES ASSUME IInv, RecordInv, [Next]_vars PROVE RecordInv'
  OBVIOUS
<1>1. CASE SaveSnapshot \/ SaveFails \/ Publish
  BY <1>1 DEF SaveSnapshot, SaveFails, Publish, RecordInv
<1>2. CASE ReadFlags
  <2>1. ~report' => writers = {} /\ monitor # "save"
    BY <1>2 DEF ReadFlags, AnyClient
  <2>2. ~report' => unsaved \/ sent <= saved
    BY <2>1 DEF IInv, DiskInv
  <2>3. owed' = sent /\ UNCHANGED <<unsaved, saved>>
    BY <1>2 DEF ReadFlags
  <2> QED BY <2>2, <2>3 DEF RecordInv
<1>3. CASE UNCHANGED recordVars /\ (monitor' = "publish" => monitor = "publish")
  BY <1>3 DEF RecordInv, recordVars
<1>4. CASE UNCHANGED vars
  BY <1>4 DEF RecordInv, vars, diskVars, recordVars
<1> QED BY <1>1, <1>2, <1>3, <1>4, RecordStays DEF MonitorAlone

\* When the session's record begins to say that no Client is attached, the screen on disk has
\* all that any Client was sent before the host found that nobody was there, unless its last
\* save failed; only a Client that is not reaped was sent more since.
THEOREM DetachIsSaved == Spec => RecordedDetachIsSaved
<1>1. Init => RecordInv
  BY DEF Init, RecordInv
<1>2. Spec => [](IInv /\ RecordInv)
  <2>1. Init => IInv /\ RecordInv
    BY <1>1, InitInv
  <2>2. (IInv /\ RecordInv) /\ [Next]_vars => (IInv /\ RecordInv)'
    BY NextInv, RecordStep
  <2> QED BY <2>1, <2>2, PTL DEF Spec
<1>3. IInv /\ RecordInv /\ [Next]_vars
        => [recorded /\ ~recorded' /\ ~unsaved => owed <= saved /\ (sent <= saved \/ writers # {})]_vars
  <2> SUFFICES ASSUME IInv, RecordInv, Next, recorded, ~recorded', ~unsaved
               PROVE  owed <= saved /\ (sent <= saved \/ writers # {})
    OBVIOUS
  <2>1. monitor = "publish" /\ ~report
    BY RecordStays DEF MonitorAlone, SaveSnapshot, SaveFails, ReadFlags, Publish, recordVars
  <2> QED BY <2>1 DEF IInv, DiskInv, RecordInv
<1> QED BY <1>2, <1>3, PTL DEF Spec, RecordedDetachIsSaved

-----------------------------------------------------------------------------
\* What the Clients have and know, and what they typed.

\* Records of at most n changes and g grants.
RecordsBy(n, g) ==
  [type : {"output", "welcome", "replay"}, at : 0..n] \cup
  [type : {"role"}, at : 0..n, gen : 0..g, controls : BOOLEAN, clients : Nat, size : Nat]
WaitsBy(n, g) ==
  {w \in [for : Slots, records : Seq(RecordsBy(n, g)), op : {"output", "resize", "take", "attach", "reap"},
          arg : Nat \cup {None}, rest : SUBSET Slots, epochs : [Slots -> Nat]] :
     w.op = "attach" => w.arg \in 0..n}
Minds(g) == [gen : 0..g, viewer : BOOLEAN, pending : BOOLEAN]
Inputs(g) == [type : {"TAKE", "INPUT"}, gen : 0..g]

\* Whatever was queued for a Client and whatever it typed is at most as new as the host.
ClientInv ==
  /\ generation \in Nat
  /\ stream \in [Slots -> Seq(RecordsBy(rev, generation))]
  /\ written \in [Slots -> Nat] /\ \A c \in Slots : written[c] <= Len(stream[c])
  /\ mind \in [Slots -> Minds(generation)]
  /\ inbox \in [Slots -> Seq(Inputs(generation))]
  /\ \A c \in Slots \ attached : mind[c] = Stranger /\ inbox[c] = <<>>
  /\ \A t \in Threads : wait[t] # None => wait[t] \in WaitsBy(rev, generation)

\* The rest of the type invariant.
Rest ==
  /\ stop \in BOOLEAN /\ grid \in Nat
  /\ stopped \subseteq Slots /\ kind \in [Slots -> {"local", "remote", "viewonly", None}] /\ epoch \in [Slots -> Nat]
  /\ inputLock \in Slots \cup {None}
  /\ monitor \in {"idle", "save", "write", "publish"} /\ recorded \in BOOLEAN /\ saved \in 0..rev
  /\ report \in BOOLEAN /\ owed \in Nat /\ unsaved \in BOOLEAN
  /\ typed \in Nat /\ connections \in Nat /\ waited \in BOOLEAN

\* An input comes after what its Client sent before it, and what waits at the Controller was
\* typed after the last grant, or after the request that it answered.
Rising(s) == \A i, j \in 1..Len(s) : i < j /\ s[j].type = "INPUT" => s[i].gen <= s[j].gen
Recent(s, g) == \A i \in 1..Len(s) : s[i].type = "INPUT" => g <= s[i].gen + 1
InboxInv == \A c \in Slots : Rising(inbox[c]) /\ (c \in controls => Recent(inbox[c], generation))

\* A thread that writes input holds the input lock, and writes the head of its Client's inbox.
InputInv ==
  \A c \in Slots : doing[c] = "input" =>
    /\ inputLock = c /\ c \in used
    /\ c \notin stopped => c \in controls /\ inbox[c] # <<>> /\ Head(inbox[c]).type = "INPUT"

\* A thread that waits does nothing else, and the slot that the monitor reaps has no thread at work.
LoopInv ==
  /\ \A c \in Slots : wait[c] # None => doing[c] = "idle" /\ c \in used
  /\ wait[Monitor] # None => /\ wait[Monitor].op = "reap" /\ wait[Monitor].arg \in Slots
                             /\ doing[wait[Monitor].arg] = "idle" /\ wait[wait[Monitor].arg] = None

\* Only the thread of a slot in use is about something.
WorkInv == \A c \in Slots \ used : doing[c] = "idle"

TalkInv == ClientInv /\ Rest /\ InboxInv /\ InputInv /\ LoopInv /\ WorkInv

\* A sequence has a record, and the snapshot that was made after n changes.
Has(s, r) == \E i \in 1..Len(s) : s[i] = r
Replays(s, n) == \E i \in 1..Len(s) : s[i].type = "replay" /\ s[i].at = n
IsSeq(s) == \E S : s \in Seq(S)

\* The Client in slot c has a snapshot made after n changes, or its thread waits and will send
\* it; it has an output, or a thread waits with it for this Client.
Snapshot(c, n) == Replays(stream[c], n) \/ (wait[c] # None /\ wait[c].op = "attach" /\ wait[c].arg = n)
Carries(t, c, at) == wait[t] # None /\ wait[t].op = "output" /\ wait[t].records = <<Output(at)>> /\ wait[t].for = c
Gets(c, at) == Has(stream[c], Output(at)) \/ \E t \in Threads : Carries(t, c, at)

\* Whoever has a snapshot gets every later output, and a snapshot that waits for room belongs
\* to the thread that waits.
CaughtUp(c) == \A n \in Nat : Snapshot(c, n) => \A at \in (n + 1)..rev : Gets(c, at)
Owned(t, w) == \A n \in Nat : Replays(w.records, n) => w.op = "attach" /\ w.for = t /\ w.arg = n
OutputInv == (\A c \in attached : CaughtUp(c)) /\ \A t \in Threads : wait[t] # None => Owned(t, wait[t])

\* The last role in s.
LastIs(s, gen, ctl, n, size) ==
  \E i \in 1..Len(s) : /\ s[i] = Role(s[i].at, gen, ctl, n, size)
                       /\ \A j \in (i + 1)..Len(s) : s[j].type # "role"

\* The Client in slot c was told what holds now, except for how many Clients there are.
Told(c, n) == \E b \in BOOLEAN : (b <=> c \in controls) /\ LastIs(stream[c], generation, b, n, grid)

\* As long as nobody ever waited, each Client was sent everything in order, and knows how many
\* Clients there are unless the monitor has yet to reap one.
QuietInv ==
  ~waited =>
    /\ \A t \in Threads : wait[t] = None
    /\ \A c \in attached : stream[c] # <<>> /\ InOrder(stream[c])
    /\ \A c \in attached : \E n \in Nat : Told(c, n) /\ (used \cap stopped = {} => n = Cardinality(attached))


-----------------------------------------------------------------------------
\* What a step that sends records or makes Clients leave does to each Client.
Sent(att, to, rec, boxes) ==
  /\ attached' \subseteq att /\ attached' = att \ TooFull(to, rec)
  /\ stopped \subseteq stopped' /\ stopped' \subseteq stopped \cup used
  /\ (attached \cup att) \ attached' \subseteq stopped'
  /\ \A c \in attached' : /\ stream'[c] = IF c \in to THEN stream[c] \o rec[c] ELSE stream[c]
                          /\ written'[c] = written[c] /\ mind'[c] = mind[c] /\ inbox'[c] = boxes[c]
  /\ \A c \in Slots \ attached' :
       stream'[c] = <<>> /\ written'[c] = 0 /\ mind'[c] = Stranger /\ inbox'[c] = <<>>
  /\ stream' = [c \in Slots |-> stream'[c]] /\ written' = [c \in Slots |-> written'[c]]
  /\ mind' = [c \in Slots |-> mind'[c]] /\ inbox' = [c \in Slots |-> inbox'[c]]

LEMMA LeaveShape ==
  ASSUME NEW gone, NEW streams, NEW boxes, Leave(gone, streams, boxes)
  PROVE  /\ stopped' = stopped \cup gone
         /\ \A c \in Slots :
              /\ c \in gone => stream'[c] = <<>> /\ written'[c] = 0 /\ mind'[c] = Stranger /\ inbox'[c] = <<>>
              /\ c \notin gone => /\ stream'[c] = streams[c] /\ written'[c] = written[c]
                                  /\ mind'[c] = mind[c] /\ inbox'[c] = boxes[c]
         /\ stream' = [c \in Slots |-> stream'[c]] /\ written' = [c \in Slots |-> written'[c]]
         /\ mind' = [c \in Slots |-> mind'[c]] /\ inbox' = [c \in Slots |-> inbox'[c]]
BY DEF Leave, Cut

\* The invariant for slots without an attached Client.
Nobody(boxes) ==
  \A c \in Slots \ attached : /\ stream[c] = <<>> /\ written[c] = 0
                              /\ mind[c] = Stranger /\ boxes[c] = <<>>

LEMMA SendShape ==
  ASSUME NEW att \in SUBSET used, NEW to \in SUBSET att, NEW ctl, NEW rec, NEW boxes, used \subseteq Slots,
         attached \subseteq used, Nobody(boxes), Send(att, ctl, to, rec, boxes)
  PROVE  Sent(att, to, rec, boxes)
<1>1. PICK full, gone, streams :
        /\ full = TooFull(to, rec) /\ gone = (attached \ att) \cup full
        /\ streams = [c \in Slots |-> IF c \in to THEN stream[c] \o rec[c] ELSE stream[c]]
  OBVIOUS
<1>2. attached' = att \ full /\ Leave(gone, streams, boxes)
  BY <1>1 DEF Send
<1>3. full \subseteq to /\ gone \subseteq used
  BY <1>1 DEF TooFull
<1>4. /\ stopped' = stopped \cup gone
      /\ \A c \in Slots :
           /\ c \in gone => stream'[c] = <<>> /\ written'[c] = 0 /\ mind'[c] = Stranger /\ inbox'[c] = <<>>
           /\ c \notin gone => /\ stream'[c] = streams[c] /\ written'[c] = written[c]
                               /\ mind'[c] = mind[c] /\ inbox'[c] = boxes[c]
      /\ stream' = [c \in Slots |-> stream'[c]] /\ written' = [c \in Slots |-> written'[c]]
      /\ mind' = [c \in Slots |-> mind'[c]] /\ inbox' = [c \in Slots |-> inbox'[c]]
  BY <1>2, LeaveShape
<1>5. ASSUME NEW c \in attached'
      PROVE  /\ stream'[c] = IF c \in to THEN stream[c] \o rec[c] ELSE stream[c]
             /\ written'[c] = written[c] /\ mind'[c] = mind[c] /\ inbox'[c] = boxes[c]
  <2>1. c \in Slots /\ c \notin gone
    BY <1>1, <1>2, <1>5
  <2> QED BY <1>1, <1>4, <2>1
<1>6. ASSUME NEW c \in Slots \ attached'
      PROVE  stream'[c] = <<>> /\ written'[c] = 0 /\ mind'[c] = Stranger /\ inbox'[c] = <<>>
  <2>1. CASE c \in gone
    BY <1>4, <2>1
  <2>2. CASE c \notin gone
    <3>1. c \notin attached /\ c \notin to
      BY <1>1, <1>2, <1>3, <1>6, <2>2
    <3>2. streams[c] = stream[c]
      BY <1>1, <3>1
    <3> QED BY <1>4, <2>2, <3>1, <3>2 DEF Nobody
  <2> QED BY <2>1, <2>2
<1>7. (attached \cup att) \ attached' \subseteq stopped'
  BY <1>1, <1>2, <1>4
<1> QED BY <1>1, <1>2, <1>3, <1>4, <1>5, <1>6, <1>7 DEF Sent

LEMMA StopShape ==
  ASSUME NEW c \in used, used \subseteq Slots, attached \subseteq used, Nobody(inbox), StopClient(c), NEW rec
  PROVE  Sent(attached \ {c}, {}, rec, inbox)
<1>1. attached' = attached \ {c} /\ Leave({c}, stream, inbox)
  BY DEF StopClient
<1>2. /\ stopped' = stopped \cup {c}
      /\ \A d \in Slots :
           /\ d \in {c} => stream'[d] = <<>> /\ written'[d] = 0 /\ mind'[d] = Stranger /\ inbox'[d] = <<>>
           /\ d \notin {c} => /\ stream'[d] = stream[d] /\ written'[d] = written[d]
                              /\ mind'[d] = mind[d] /\ inbox'[d] = inbox[d]
      /\ stream' = [d \in Slots |-> stream'[d]] /\ written' = [d \in Slots |-> written'[d]]
      /\ mind' = [d \in Slots |-> mind'[d]] /\ inbox' = [d \in Slots |-> inbox'[d]]
  BY <1>1, LeaveShape
<1>3. TooFull({}, rec) = {}
  BY DEF TooFull
<1> QED BY <1>1, <1>2, <1>3 DEF Sent, Nobody

LEMMA EndShape ==
  ASSUME NEW c, CloseEnds(c), used \subseteq Slots, attached \subseteq used, Nobody(inbox), NEW rec
  PROVE  Sent({}, {}, rec, inbox)
<1>1. attached' = {} /\ Leave(used, stream, inbox)
  BY DEF CloseEnds
<1>2. /\ stopped' = stopped \cup used
      /\ \A d \in Slots :
           /\ d \in used => stream'[d] = <<>> /\ written'[d] = 0 /\ mind'[d] = Stranger /\ inbox'[d] = <<>>
           /\ d \notin used => /\ stream'[d] = stream[d] /\ written'[d] = written[d]
                               /\ mind'[d] = mind[d] /\ inbox'[d] = inbox[d]
      /\ stream' = [d \in Slots |-> stream'[d]] /\ written' = [d \in Slots |-> written'[d]]
      /\ mind' = [d \in Slots |-> mind'[d]] /\ inbox' = [d \in Slots |-> inbox'[d]]
  BY <1>1, LeaveShape
<1>3. TooFull({}, rec) = {}
  BY DEF TooFull
<1> QED BY <1>1, <1>2, <1>3 DEF Sent, Nobody

\* What thread t does with its wait.
Waiting(t, stuck, rec, op, arg) ==
  /\ \A u \in Threads \ {t} : wait'[u] = wait[u]
  /\ stuck = {} => wait'[t] = None
  /\ stuck # {} => \E k \in stuck, rest \in SUBSET Slots :
       wait'[t] = [for |-> k, records |-> rec[k], op |-> op, arg |-> arg, rest |-> rest, epochs |-> epoch]
  /\ waited' \in BOOLEAN /\ (waited' <=> waited \/ stuck # {})

LEMMA WaitShape ==
  ASSUME WaitInv, waited \in BOOLEAN, NEW t \in Threads, NEW stuck, NEW rec, NEW op, NEW arg, NEW rest \in SUBSET Slots,
         Wait(t, stuck, rec, op, arg, rest)
  PROVE  Waiting(t, stuck, rec, op, arg)
<1>1. PICK k : k = CHOOSE i \in stuck : TRUE
  OBVIOUS
<1>2. PICK later \in SUBSET Slots : later = {c \in rest : c > k}
  OBVIOUS
<1>3. PICK x : x = [for |-> k, records |-> rec[k], op |-> op, arg |-> arg, rest |-> later, epochs |-> epoch]
  OBVIOUS
<1>4. wait' = [wait EXCEPT ![t] = IF stuck = {} THEN None ELSE x]
  BY <1>1, <1>2, <1>3 DEF Wait
<1>5. /\ \A u \in Threads \ {t} : wait'[u] = wait[u]
      /\ wait'[t] = IF stuck = {} THEN None ELSE x
  BY <1>4 DEF WaitInv
<1>6. stuck # {} => k \in stuck
  BY <1>1
<1>7. waited' \in BOOLEAN /\ (waited' <=> waited \/ stuck # {})
  BY DEF Wait
<1> QED BY <1>3, <1>5, <1>6, <1>7 DEF Waiting

-----------------------------------------------------------------------------
\* The records that steps make.

LEMMA OutputBy ==
  ASSUME NEW n \in Nat, NEW g, NEW at \in 0..n
  PROVE  <<Output(at)>> \in Seq(RecordsBy(n, g))
<1>1. Output(at) \in RecordsBy(n, g)
  BY DEF Output, RecordsBy
<1> QED BY <1>1

LEMMA RoleBy ==
  ASSUME NEW n \in Nat, NEW g \in Nat, NEW at \in 0..n, NEW gen \in 0..g, NEW ctl, NEW c,
         NEW clients \in Nat, NEW size \in Nat
  PROVE  Role(at, gen, c \in ctl, clients, size) \in RecordsBy(n, g)
<1>1. PICK b \in BOOLEAN : b = (c \in ctl)
  <2>1. (c \in ctl) \in BOOLEAN
    OBVIOUS
  <2> QED BY <2>1, Zenon
<1>2. Role(at, gen, b, clients, size) \in RecordsBy(n, g)
  BY DEF Role, RecordsBy
<1> QED BY <1>1, <1>2

LEMMA RolesBy ==
  ASSUME NEW n \in Nat, NEW g \in Nat, rev \in 0..n, NEW gen \in 0..g, NEW to, NEW att \in SUBSET Slots, NEW ctl,
         NEW size \in Nat, NEW c \in to
  PROVE  Roles(to, att, ctl, gen, size)[c] \in Seq(RecordsBy(n, g))
<1>1. PICK some : some = att \ {d \in to \ ctl : d < c /\ Full(d, <<0>>)}
  OBVIOUS
<1>2. IsFiniteSet(some)
  BY <1>1, HostAssumption, FS_Subset
<1>3. PICK clients \in Nat : clients = Cardinality(some)
  BY <1>2, FS_CardinalityType
<1>4. Role(rev, gen, c \in ctl, clients, size) \in RecordsBy(n, g)
  BY RoleBy
<1>5. Roles(to, att, ctl, gen, size)[c] = <<Role(rev, gen, c \in ctl, clients, size)>>
  BY <1>1, <1>3 DEF Roles
<1> QED BY <1>4, <1>5

LEMMA GreetingBy ==
  ASSUME NEW n \in Nat, NEW g \in Nat, rev \in 0..n, NEW gen \in 0..g, NEW att \in SUBSET Slots, NEW ctl,
         NEW size \in Nat, NEW c, NEW at \in 0..n
  PROVE  Greeting(c, gen, ctl, Cardinality(att), size, at) \in Seq(RecordsBy(n, g))
<1>1. PICK clients \in Nat : clients = Cardinality(att)
  BY HostAssumption, FS_Subset, FS_CardinalityType
<1>2. Role(rev, gen, c \in ctl, clients, size) \in RecordsBy(n, g)
  BY RoleBy
<1>3. Welcome(rev) \in RecordsBy(n, g) /\ Replay(at) \in RecordsBy(n, g)
  BY DEF Welcome, Replay, RecordsBy
<1> QED BY <1>1, <1>2, <1>3 DEF Greeting

LEMMA RecordsGrow ==
  ASSUME NEW n \in Nat, NEW g \in Nat, NEW m \in 0..n, NEW h \in 0..g
  PROVE  /\ \A s \in Seq(RecordsBy(m, h)) : s \in Seq(RecordsBy(n, g))
         /\ WaitsBy(m, h) \subseteq WaitsBy(n, g)
<1>1. RecordsBy(m, h) \subseteq RecordsBy(n, g)
  BY DEF RecordsBy
<1>2. \A s \in Seq(RecordsBy(m, h)) : s \in Seq(RecordsBy(n, g))
  BY <1>1
<1>3. WaitsBy(m, h) \subseteq WaitsBy(n, g)
  BY <1>2 DEF WaitsBy
<1> QED BY <1>2, <1>3

-----------------------------------------------------------------------------
\* The parts of the invariant after a step that sends.

LEMMA SentClients ==
  ASSUME ClientInv, NEW att \in SUBSET Slots, NEW to \in SUBSET att, NEW rec, NEW boxes, Sent(att, to, rec, boxes),
         NEW n \in Nat, rev' = n, rev \in 0..n, NEW g \in Nat, generation' = g, generation \in 0..g,
         \A c \in to : rec[c] \in Seq(RecordsBy(n, g)),
         \A c \in Slots : boxes[c] \in Seq(Inputs(g)),
         \A t \in Threads : wait'[t] # None => wait'[t] \in WaitsBy(n, g)
  PROVE  ClientInv'
<1>0. \A c \in Slots : stream[c] \in Seq(RecordsBy(n, g)) /\ mind[c] \in Minds(g) /\ written[c] \in Nat
                       /\ written[c] <= Len(stream[c])
  <2>1. \A c \in Slots : stream[c] \in Seq(RecordsBy(n, g))
    BY RecordsGrow DEF ClientInv
  <2>2. Minds(generation) \subseteq Minds(g)
    BY DEF Minds
  <2> QED BY <2>1, <2>2 DEF ClientInv
<1>1. Stranger \in Minds(g)
  BY DEF Stranger, Minds
<1>2. ASSUME NEW c \in Slots
      PROVE  /\ stream'[c] \in Seq(RecordsBy(n, g)) /\ mind'[c] \in Minds(g) /\ inbox'[c] \in Seq(Inputs(g))
             /\ written'[c] \in Nat /\ written'[c] <= Len(stream'[c])
  <2>1. CASE c \notin attached'
    <3>1. stream'[c] = <<>> /\ written'[c] = 0 /\ mind'[c] = Stranger /\ inbox'[c] = <<>>
      BY <2>1 DEF Sent
    <3>2. <<>> \in Seq(RecordsBy(n, g)) /\ <<>> \in Seq(Inputs(g)) /\ Len(<<>>) = 0
      OBVIOUS
    <3> QED BY <1>1, <3>1, <3>2
  <2>2. CASE c \in attached'
    <3>1. /\ stream'[c] = IF c \in to THEN stream[c] \o rec[c] ELSE stream[c]
          /\ written'[c] = written[c] /\ mind'[c] = mind[c] /\ inbox'[c] = boxes[c]
      BY <2>2 DEF Sent
    <3>2. stream'[c] \in Seq(RecordsBy(n, g)) /\ Len(stream'[c]) \in Nat /\ Len(stream[c]) \in Nat
          /\ Len(stream[c]) <= Len(stream'[c])
      <4>1. CASE c \in to
        <5>1. PICK r \in Seq(RecordsBy(n, g)) : r = rec[c]
          BY <4>1
        <5>2. PICK s \in Seq(RecordsBy(n, g)) : s = stream[c]
          BY <1>0
        <5>3. stream'[c] = s \o r
          BY <3>1, <4>1, <5>1, <5>2
        <5>4. s \o r \in Seq(RecordsBy(n, g)) /\ Len(s \o r) = Len(s) + Len(r) /\ Len(s) \in Nat /\ Len(r) \in Nat
          OBVIOUS
        <5> QED BY <5>2, <5>3, <5>4
      <4>2. CASE c \notin to
        BY <1>0, <3>1, <4>2
      <4> QED BY <4>1, <4>2
    <3>3. written[c] <= Len(stream'[c]) /\ written[c] \in Nat /\ mind[c] \in Minds(g)
      BY <1>0, <3>2
    <3> QED BY <3>1, <3>2, <3>3
  <2> QED BY <2>1, <2>2
<1>3. /\ stream' \in [Slots -> Seq(RecordsBy(n, g))] /\ written' \in [Slots -> Nat]
      /\ mind' \in [Slots -> Minds(g)] /\ inbox' \in [Slots -> Seq(Inputs(g))]
  BY <1>2 DEF Sent
<1>4. \A c \in Slots \ attached' : mind'[c] = Stranger /\ inbox'[c] = <<>>
  BY DEF Sent
<1> QED BY <1>2, <1>3, <1>4 DEF ClientInv

LEMMA WaitingTypes ==
  ASSUME ClientInv, NEW n \in Nat, rev \in 0..n, NEW g \in Nat, generation \in 0..g, epoch \in [Slots -> Nat],
         NEW t, NEW stuck \in SUBSET Slots, NEW rec, NEW op \in {"output", "resize", "take", "attach", "reap"},
         NEW arg \in Nat \cup {None}, Waiting(t, stuck, rec, op, arg), \A c \in stuck : rec[c] \in Seq(RecordsBy(n, g)),
         op = "attach" => arg \in 0..n
  PROVE  \A u \in Threads : wait'[u] # None => wait'[u] \in WaitsBy(n, g)
<1>1. ASSUME NEW u \in Threads \ {t}, wait'[u] # None PROVE wait'[u] \in WaitsBy(n, g)
  <2>1. wait'[u] = wait[u]
    BY DEF Waiting
  <2>2. wait[u] \in WaitsBy(rev, generation)
    BY <1>1, <2>1 DEF ClientInv
  <2> QED BY <2>1, <2>2, RecordsGrow
<1>2. ASSUME wait'[t] # None PROVE wait'[t] \in WaitsBy(n, g)
  <2>1. PICK k \in stuck, rest \in SUBSET Slots :
          wait'[t] = [for |-> k, records |-> rec[k], op |-> op, arg |-> arg, rest |-> rest, epochs |-> epoch]
    BY <1>2 DEF Waiting
  <2>2. rec[k] \in Seq(RecordsBy(n, g)) /\ k \in Slots
    OBVIOUS
  <2>3. PICK r \in Seq(RecordsBy(n, g)) : r = rec[k]
    BY <2>2
  <2> QED BY <2>1, <2>2, <2>3 DEF WaitsBy
<1> QED BY <1>1, <1>2

LEMMA EmptyInbox == \A g : Rising(<<>>) /\ Recent(<<>>, g)
BY DEF Rising, Recent

LEMMA SentInbox ==
  ASSUME InboxInv, OneController', NEW att, NEW to, NEW rec, NEW boxes, Sent(att, to, rec, boxes),
         \A c \in attached' : Rising(boxes[c]) /\ (c \in controls' => Recent(boxes[c], generation'))
  PROVE  InboxInv'
<1>1. PICK g : g = generation'
  OBVIOUS
<1>2. ASSUME NEW c \in Slots PROVE Rising(inbox'[c]) /\ (c \in controls' => Recent(inbox'[c], g))
  <2>1. CASE c \notin attached'
    BY <2>1, EmptyInbox DEF Sent, OneController
  <2>2. CASE c \in attached'
    BY <1>1, <2>2 DEF Sent
  <2> QED BY <2>1, <2>2
<1> QED BY <1>1, <1>2 DEF InboxInv

\* A step that leaves the inboxes alone but for those of Clients that leave.
LEMMA SentInput ==
  ASSUME InputInv, OneController, NEW att, NEW to, NEW rec, Sent(att, to, rec, inbox),
         controls \cap attached' \subseteq controls',
         \A c \in Slots : doing'[c] = "input" => doing[c] = "input" /\ inputLock' = inputLock /\ c \in used'
  PROVE  InputInv'
<1> SUFFICES ASSUME NEW c \in Slots, doing'[c] = "input"
             PROVE  /\ inputLock' = c /\ c \in used'
                    /\ c \notin stopped' => c \in controls' /\ inbox'[c] # <<>> /\ Head(inbox'[c]).type = "INPUT"
  BY DEF InputInv
<1>1. inputLock' = c /\ c \in used' /\ (c \notin stopped => c \in controls /\ inbox[c] # <<>> /\ Head(inbox[c]).type = "INPUT")
  BY DEF InputInv
<1>2. ASSUME c \notin stopped' PROVE c \in attached' /\ c \in controls' /\ inbox'[c] = inbox[c] /\ c \notin stopped
  BY <1>1, <1>2 DEF Sent, OneController
<1> QED BY <1>1, <1>2

LEMMA WaitingLoop ==
  ASSUME LoopInv, WaitInv, NEW t \in Threads, NEW stuck, NEW rec, NEW op, NEW arg, Waiting(t, stuck, rec, op, arg),
         t \in Slots => t \in used' /\ doing'[t] = "idle" /\ (t \notin stopped \/ wait[t] # None),
         t = Monitor => op = "reap" /\ arg \in Slots /\ doing'[arg] = "idle" /\ wait[arg] = None,
         \A c \in Slots : wait[c] # None => c \in used' /\ doing'[c] = "idle",
         t # Monitor /\ wait[Monitor] # None => doing'[wait[Monitor].arg] = "idle"
  PROVE  LoopInv'
<1>0. Monitor \in Threads /\ Monitor \notin Slots /\ Slots \subseteq Threads
  BY HostAssumption DEF Threads
<1>1. ASSUME NEW c \in Slots, wait'[c] # None PROVE doing'[c] = "idle" /\ c \in used'
  BY <1>0, <1>1 DEF Waiting
<1>2. ASSUME wait'[Monitor] # None
      PROVE  /\ wait'[Monitor].op = "reap" /\ wait'[Monitor].arg \in Slots
             /\ doing'[wait'[Monitor].arg] = "idle" /\ wait'[wait'[Monitor].arg] = None
  <2>1. CASE t = Monitor
    <3>1. wait'[Monitor].op = op /\ wait'[Monitor].arg = arg
      <4>1. stuck # {}
        BY <1>2, <2>1 DEF Waiting
      <4>2. PICK k, rest : wait'[t] = [for |-> k, records |-> rec[k], op |-> op, arg |-> arg,
                                       rest |-> rest, epochs |-> epoch]
        BY <4>1 DEF Waiting
      <4> QED BY <2>1, <4>2
    <3>2. wait'[arg] = wait[arg]
      BY <1>0, <2>1 DEF Waiting
    <3> QED BY <2>1, <3>1, <3>2
  <2>2. CASE t # Monitor
    <3>1. PICK w, a : w = wait[Monitor] /\ wait'[Monitor] = w /\ a = w.arg
      BY <1>0, <2>2 DEF Waiting
    <3>2. w # None /\ w.op = "reap" /\ a \in Slots /\ doing'[a] = "idle" /\ wait[a] = None /\ a \in stopped
      BY <1>0, <1>2, <2>2, <3>1 DEF LoopInv, WaitInv, Waiter
    <3>3. a # t
      BY <3>2
    <3>4. wait'[a] = None
      BY <1>0, <3>2, <3>3 DEF Waiting
    <3> QED BY <3>1, <3>2, <3>4
  <2> QED BY <2>1, <2>2
<1> QED BY <1>1, <1>2 DEF LoopInv

-----------------------------------------------------------------------------
\* What each step that sends has to send, and to whom.

LEMMA NobodyThere == Sets /\ ClientInv => Nobody(inbox)
BY DEF Sets, Absent, ClientInv, Nobody

BroadcastRecords == [c \in attached |-> <<Output(rev + 1)>>]

LEMMA BroadcastSends ==
  ASSUME IInv, TalkInv, NEW t \in Threads, Broadcast(t)
  PROVE  \E rec, to, stuck :
           /\ rec = BroadcastRecords /\ stuck = Blocked(attached, controls) /\ to = attached \ stuck
           /\ Sent(attached, to, rec, inbox) /\ Waiting(t, stuck, rec, "output", None)
<1>1. PICK rec, stuck, to : rec = BroadcastRecords /\ stuck = Blocked(attached, controls) /\ to = attached \ stuck
  OBVIOUS
<1>2. Send(attached, controls, to, rec, inbox) /\ Wait(t, stuck, rec, "output", None, attached)
  BY <1>1 DEF Broadcast, BroadcastRecords
<1>3. /\ used \subseteq Slots /\ attached \in SUBSET used /\ attached \in SUBSET Slots /\ to \in SUBSET attached
      /\ Nobody(inbox) /\ WaitInv /\ waited \in BOOLEAN
  BY <1>1, NobodyThere DEF IInv, TalkInv, Sets, Rest
<1>4. Sent(attached, to, rec, inbox)
  BY <1>2, <1>3, SendShape
<1>5. Waiting(t, stuck, rec, "output", None)
  BY <1>2, <1>3, WaitShape
<1> QED BY <1>1, <1>4, <1>5

LEMMA RolesSent ==
  ASSUME IInv, TalkInv, NEW t \in Threads, NEW ctl, NEW g, NEW size, NEW boxes, Nobody(boxes), NEW op, NEW arg,
         SendRoles(t, ctl, g, size, boxes, op, arg)
  PROVE  \E rec, to, stuck :
           /\ rec = Roles(attached, attached, ctl, g, size) /\ stuck = Blocked(attached, ctl)
           /\ to = Reached(attached, ctl)
           /\ Sent(attached, to, rec, boxes) /\ Waiting(t, stuck, rec, op, arg)
<1>1. PICK rec, stuck, to : /\ rec = Roles(attached, attached, ctl, g, size) /\ stuck = Blocked(attached, ctl)
                            /\ to = Reached(attached, ctl)
  OBVIOUS
<1>2. Send(attached, ctl, to, rec, boxes) /\ Wait(t, stuck, rec, op, arg, Slots)
  BY <1>1 DEF SendRoles
<1>3. /\ used \subseteq Slots /\ attached \in SUBSET used /\ to \in SUBSET attached
      /\ WaitInv /\ waited \in BOOLEAN
  BY <1>1 DEF IInv, TalkInv, Sets, Rest, Reached
<1>4. Sent(attached, to, rec, boxes)
  BY <1>2, <1>3, SendShape
<1>5. Slots \in SUBSET Slots
  OBVIOUS
<1>6. Waiting(t, stuck, rec, op, arg)
  BY <1>2, <1>3, <1>5, WaitShape
<1> QED BY <1>1, <1>4, <1>6

\* What a new Client in slot c and the others are sent, and when it is the Controller.
Granted(c) ==
  /\ kind[c] # "viewonly"
  /\ controller = None \/ (kind[c] = "local" /\ kind[controller] = "local")
AttachControls(c) == IF Granted(c) THEN (controls \ {controller}) \cup {c} ELSE controls
AttachGeneration(c) == IF Granted(c) THEN generation + 1 ELSE generation
Itself(c, stuck) == IF stuck = {} THEN {c} ELSE {}
AttachRecords(c, ctl, gen, own, size) ==
  [d \in attached \cup own |->
    IF d = c
      THEN Greeting(d, gen, ctl,
             Cardinality((attached \cup {c}) \ {e \in attached \ ctl : Full(e, <<0>>)}), size, rev)
      ELSE Roles(attached, attached \cup {c}, ctl, gen, size)[d]]

LEMMA AttachSends ==
  ASSUME IInv, TalkInv, NEW c \in Slots, NEW size, Attach(c, size)
  PROVE  \E ctl, gen, own, rec, to, stuck :
           /\ ctl = AttachControls(c) /\ gen = AttachGeneration(c) /\ stuck = Blocked(attached, ctl)
           /\ own = Itself(c, stuck) /\ rec = AttachRecords(c, ctl, gen, own, size)
           /\ to = Reached(attached, ctl) \cup own
           /\ Sent(attached \cup {c}, to, rec, inbox) /\ Waiting(c, stuck, rec, "attach", rev)
<1>1. PICK ctl, gen, stuck : ctl = AttachControls(c) /\ gen = AttachGeneration(c) /\ stuck = Blocked(attached, ctl)
  OBVIOUS
<1>2. PICK own, att : own = Itself(c, stuck) /\ att = attached \cup {c}
  OBVIOUS
<1>3. PICK rec, to : rec = AttachRecords(c, ctl, gen, own, size) /\ to = Reached(attached, ctl) \cup own
  OBVIOUS
<1>4. /\ Send(att, ctl, to, rec, inbox) /\ Wait(c, stuck, rec, "attach", rev, Slots \ {c}) /\ c \in used
  BY <1>1, <1>2, <1>3 DEF Attach, Granted, AttachControls, AttachGeneration, Itself, AttachRecords
<1>5. /\ used \subseteq Slots /\ attached \subseteq used /\ att \in SUBSET used /\ to \in SUBSET att
      /\ Nobody(inbox) /\ WaitInv /\ waited \in BOOLEAN /\ c \in Threads
  BY <1>1, <1>2, <1>3, <1>4, NobodyThere DEF IInv, TalkInv, Sets, Rest, Reached, Itself, Threads
<1>6. Sent(att, to, rec, inbox)
  BY <1>4, <1>5, SendShape
<1>7. Slots \ {c} \in SUBSET Slots
  OBVIOUS
<1>8. Waiting(c, stuck, rec, "attach", rev)
  BY <1>4, <1>5, <1>7, WaitShape
<1> QED BY <1>1, <1>2, <1>3, <1>6, <1>8

\* What a thread that goes on with its wait w has to send, and to whom.
GoesOn(t, w, gone, att, ctl, due, stuck, own, rec, held, to) ==
  /\ gone \subseteq attached \cap {w.for}
  /\ att = attached \ gone /\ ctl = controls \ gone
  /\ due = Due(w, att, ctl) /\ stuck = Blocked(due, ctl)
  /\ own = IF w.op = "attach" /\ stuck = {} THEN ({t} \cap att) \ {w.for} ELSE {}
  /\ rec = LateRecords(w, att, ctl, due, own)
  /\ held = stuck \cup TooFull(own \cap ctl, rec)
  /\ to = ({w.for} \cap att) \cup Reached(due, ctl) \cup (own \ held)

LEMMA GoOnSends ==
  ASSUME IInv, TalkInv, NEW t \in Threads, NEW stalled, wait[t] # None, GoOn(t, stalled)
  PROVE  \E w, gone, att, ctl, due, stuck, own, rec, held, to :
           /\ w = wait[t] /\ GoesOn(t, w, gone, att, ctl, due, stuck, own, rec, held, to)
           /\ held \subseteq due \cup own /\ due \subseteq att /\ own \subseteq att /\ to \subseteq att
           /\ Sent(att, to, rec, inbox) /\ Waiting(t, held, rec, w.op, w.arg)
           /\ inputLock' = IF held = {} /\ inputLock = t THEN None ELSE inputLock
           /\ IF w.op = "reap" /\ held = {} THEN used' = used \ {w.arg} ELSE used' = used
<1>1. PICK w : w = wait[t] /\ w \in Waits
  <2>1. wait[t] \in WaitsBy(rev, generation)
    BY DEF TalkInv, ClientInv
  <2>2. rev \in Nat /\ generation \in Nat
    BY DEF IInv, DiskInv, TalkInv, ClientInv
  <2>3. \A s \in Seq(RecordsBy(rev, generation)) : s \in Seq(Records)
    <3>1. RecordsBy(rev, generation) \subseteq Records
      BY <2>2 DEF RecordsBy, Records
    <3> QED BY <3>1
  <2> QED BY <2>1, <2>3 DEF WaitsBy, Waits
<1>2. PICK gone : gone = IF w.for \in attached /\ Full(w.for, w.records) /\ (stalled \/ w.for \notin controls)
                         THEN {w.for} ELSE {}
  OBVIOUS
<1>3. PICK att, ctl : att = attached \ gone /\ ctl = controls \ gone
  OBVIOUS
<1>4. PICK due, stuck : due = Due(w, att, ctl) /\ stuck = Blocked(due, ctl)
  OBVIOUS
<1>5. PICK own : own = IF w.op = "attach" /\ stuck = {} THEN ({t} \cap att) \ {w.for} ELSE {}
  OBVIOUS
<1>6. PICK rec : rec = LateRecords(w, att, ctl, due, own)
  OBVIOUS
<1>7. PICK held, to, rest : /\ held = stuck \cup TooFull(own \cap ctl, rec)
                            /\ to = ({w.for} \cap att) \cup Reached(due, ctl) \cup (own \ held)
                            /\ rest = IF stuck = {} THEN {} ELSE w.rest
  OBVIOUS
<1>8. GoesOn(t, w, gone, att, ctl, due, stuck, own, rec, held, to)
  BY <1>2, <1>3, <1>4, <1>5, <1>6, <1>7 DEF GoesOn
<1>9. Proceed(t, w, att, ctl)
  BY <1>1, <1>2, <1>3 DEF GoOn
<1>10. /\ Send(att, ctl, to, rec, inbox) /\ Wait(t, held, rec, w.op, w.arg, rest)
       /\ inputLock' = IF held = {} /\ inputLock = t THEN None ELSE inputLock
       /\ IF w.op = "reap" /\ held = {} THEN used' = used \ {w.arg} ELSE used' = used
  BY <1>4, <1>5, <1>6, <1>7, <1>9 DEF Proceed, Free
<1>11. /\ used \subseteq Slots /\ attached \in SUBSET used /\ controls \subseteq attached
       /\ Nobody(inbox) /\ WaitInv /\ waited \in BOOLEAN /\ w.rest \in SUBSET Slots
  BY <1>1, NobodyThere DEF IInv, TalkInv, Sets, Rest, OneController, Waits
<1>12. att \in SUBSET used /\ ctl \subseteq att /\ due \subseteq att /\ own \subseteq att /\ rest \in SUBSET Slots
  BY <1>3, <1>4, <1>5, <1>7, <1>11 DEF Due
<1>13. to \in SUBSET att /\ held \subseteq due \cup own
  BY <1>4, <1>7, <1>12 DEF Reached, Blocked, TooFull
<1>14. Sent(att, to, rec, inbox)
  BY <1>10, <1>11, <1>12, <1>13, SendShape
<1>15. PICK op, arg : op = w.op /\ arg = w.arg
  OBVIOUS
<1>16. Waiting(t, held, rec, op, arg)
  BY <1>10, <1>11, <1>12, <1>15, WaitShape
<1> QED BY <1>1, <1>8, <1>10, <1>12, <1>13, <1>14, <1>15, <1>16

-----------------------------------------------------------------------------
\* The rest of the type invariant.

LEMMA StopsSlots ==
  ASSUME IInv, Rest, NEW att, NEW to, NEW rec, NEW boxes, Sent(att, to, rec, boxes)
  PROVE  stopped' \subseteq Slots
BY DEF IInv, Sets, Rest, Sent

LEMMA StopRest ==
  ASSUME Rest, NEW c \in Slots, StopClient(c),
         UNCHANGED <<stop, rev, grid, kind, epoch, inputLock, diskVars, recordVars, countVars, waited>>
  PROVE  Rest'
<1>1. stopped' \subseteq Slots
  BY DEF Rest, StopClient, Leave
<1> QED BY <1>1 DEF Rest, diskVars, recordVars, countVars

LEMMA SendRest ==
  ASSUME IInv, TalkInv, NEW t \in Threads, Broadcast(t) \/ (Resize(t) /\ t \in Slots)
  PROVE  Rest'
<1>0. Rest /\ rev \in Nat /\ t \in Threads
  BY DEF IInv, TalkInv, DiskInv
<1>1. CASE Broadcast(t)
  <2>1. stopped' \subseteq Slots /\ waited' \in BOOLEAN
    BY <1>0, <1>1, BroadcastSends, StopsSlots DEF Waiting
  <2> QED BY <1>0, <1>1, <2>1 DEF Rest, Broadcast, slotVars, talkVars, diskVars, recordVars, countVars
<1>2. CASE Resize(t) /\ t \in Slots
  <2>1. PICK ctl, g, size, boxes, op, arg : Nobody(boxes) /\ SendRoles(t, ctl, g, size, boxes, op, arg)
    <3>1. Nobody(inbox)
      BY NobodyThere DEF IInv, TalkInv
    <3> QED BY <1>2, <3>1 DEF Resize
  <2>2. stopped' \subseteq Slots /\ waited' \in BOOLEAN
    BY <1>0, <2>1, RolesSent, StopsSlots DEF Waiting
  <2> QED BY <1>0, <1>2, <2>2 DEF Rest, Resize, slotVars, talkVars, diskVars, recordVars, countVars
<1> QED BY <1>1, <1>2

LEMMA NobodyPopped == ASSUME Sets, ClientInv, NEW c \in attached PROVE Nobody(Popped(c))
<1>1. \A d \in Slots \ attached : Popped(c)[d] = inbox[d]
  BY DEF Popped, ClientInv
<1> QED BY <1>1, NobodyThere DEF Nobody

LEMMA TakeRest ==
  ASSUME IInv, TalkInv, NEW c \in Slots, NEW size \in {grid, grid + 1}, TakeControl(c, size)
  PROVE  Rest'
<1>0. Rest /\ rev \in Nat /\ c \in Threads
  BY DEF IInv, TalkInv, DiskInv, Threads
<1>1. PICK ctl, g, boxes, op, arg : Nobody(boxes) /\ SendRoles(c, ctl, g, size, boxes, op, arg)
  <2>1. Nobody(Popped(c))
    BY NobodyPopped DEF TakeControl, Grantable, IInv, TalkInv
  <2> QED BY <2>1 DEF TakeControl
<1>2. stopped' \subseteq Slots /\ waited' \in BOOLEAN
  BY <1>0, <1>1, RolesSent, StopsSlots DEF Waiting
<1>3. inputLock' \in Slots \cup {None}
  BY DEF TakeControl
<1>4. grid' \in Nat
  BY <1>0 DEF TakeControl, Rest
<1> QED BY <1>0, <1>2, <1>3, <1>4 DEF Rest, TakeControl, slotVars, diskVars, recordVars, countVars

LEMMA AttachRest ==
  ASSUME IInv, TalkInv, NEW c \in Slots, NEW size \in {grid, grid + 1}, Attach(c, size)
  PROVE  Rest'
<1>0. Rest /\ rev \in Nat
  BY DEF IInv, TalkInv, DiskInv
<1>1. stopped' \subseteq Slots /\ waited' \in BOOLEAN
  <2>1. PICK att, to, rec, stuck : Sent(att, to, rec, inbox) /\ Waiting(c, stuck, rec, "attach", rev)
    <3>1. PICK ctl, gen, own, rec, to, stuck :
            Sent(attached \cup {c}, to, rec, inbox) /\ Waiting(c, stuck, rec, "attach", rev)
      BY AttachSends
    <3> QED BY <3>1
  <2> QED BY <1>0, <2>1, StopsSlots DEF Waiting
<1>2. inputLock' \in Slots \cup {None}
  BY DEF Attach
<1>3. grid' \in Nat /\ epoch' \in [Slots -> Nat]
  BY <1>0 DEF Attach, Rest
<1> QED BY <1>0, <1>1, <1>2, <1>3 DEF Rest, Attach, diskVars, recordVars, countVars

LEMMA ReapRest ==
  ASSUME IInv, TalkInv, NEW c \in Slots, Reap(c)
  PROVE  Rest'
<1>0. Rest /\ rev \in Nat /\ Monitor \in Threads
  BY DEF IInv, TalkInv, DiskInv, Threads
<1>1. PICK ctl, g, size, boxes, op, arg : Nobody(boxes) /\ SendRoles(Monitor, ctl, g, size, boxes, op, arg)
  <2>1. Nobody(inbox)
    BY NobodyThere DEF IInv, TalkInv
  <2> QED BY <2>1 DEF Reap
<1>2. stopped' \subseteq Slots /\ waited' \in BOOLEAN
  BY <1>0, <1>1, RolesSent, StopsSlots DEF Waiting
<1>3. kind' \in [Slots -> {"local", "remote", "viewonly", None}] /\ monitor' \in {"idle", "save", "write", "publish"}
  BY <1>0 DEF Reap, Free, Rest
<1> QED BY <1>0, <1>2, <1>3 DEF Rest, Reap, hostVars, recordVars, countVars

LEMMA GoOnRest ==
  ASSUME IInv, TalkInv, NEW t \in Threads, NEW stalled, wait[t] # None, GoOn(t, stalled)
  PROVE  Rest'
<1>0. Rest /\ rev \in Nat
  BY DEF IInv, TalkInv, DiskInv
<1>1. stopped' \subseteq Slots /\ waited' \in BOOLEAN
  BY <1>0, GoOnSends, StopsSlots DEF Waiting
<1>2. inputLock' \in Slots \cup {None}
  BY <1>0, GoOnSends DEF Rest
<1>3. kind' \in [Slots -> {"local", "remote", "viewonly", None}] /\ monitor' \in {"idle", "save", "write", "publish"}
  <2>1. PICK w, att, ctl : Proceed(t, w, att, ctl)
    BY DEF GoOn
  <2> QED BY <1>0, <2>1 DEF Proceed, Free, Rest
<1> QED BY <1>0, <1>1, <1>2, <1>3 DEF Rest, GoOn, recordVars, countVars

LEMMA ConnectRest ==
  ASSUME Rest, NEW c \in Slots, Connect(c)
  PROVE  Rest'
<1>1. connections \in Nat /\ connections < Len(Arrivals)
  BY DEF Rest, Connect
<1>2. Arrivals[connections + 1] \in {"local", "remote", "viewonly"}
  BY <1>1, HostAssumption
<1>3. kind' \in [Slots -> {"local", "remote", "viewonly", None}] /\ stopped' \subseteq Slots /\ connections' \in Nat
  BY <1>1, <1>2 DEF Rest, Connect
<1> QED BY <1>3 DEF Rest, Connect, hostVars, diskVars, recordVars, waitVars

LEMMA RestStep == IInv /\ TalkInv /\ [Next]_vars => Rest'
<1> SUFFICES ASSUME IInv, TalkInv, [Next]_vars PROVE Rest'
  OBVIOUS
<1>0. Rest /\ ClientInv /\ rev \in Nat /\ sent \in Nat /\ used \subseteq Slots /\ attached \subseteq used /\ Slots \subseteq Threads
      /\ Reader \in Threads
  BY DEF IInv, TalkInv, DiskInv, Sets, Threads
<1> USE DEF hostVars, slotVars, clientVars, talkVars, diskVars, recordVars, waitVars, countVars
<1>1. ASSUME NEW t \in Threads, Resume(t) \/ Stall(t) PROVE Rest'
  BY <1>1, GoOnRest DEF Resume, Stall
<1>2. ASSUME NEW c \in Slots, Clear(c) PROVE Rest'
  BY <1>0, <1>2, SendRest DEF Clear
<1>3. ASSUME NEW c \in Slots, Resize(c) PROVE Rest'
  BY <1>0, <1>3, SendRest
<1>4. ASSUME NEW c \in Slots, Disconnect(c) \/ WriterFails(c) \/ CloseDetaches(c) PROVE Rest'
  <2>1. CASE Disconnect(c)
    BY <1>0, <2>1, StopRest DEF Disconnect
  <2>2. CASE WriterFails(c)
    BY <1>0, <2>2, StopRest DEF WriterFails
  <2>3. CASE CloseDetaches(c)
    BY <1>0, <2>3, StopRest DEF CloseDetaches
  <2> QED BY <1>4, <2>1, <2>2, <2>3
<1>6. ASSUME NEW c \in Slots, CloseEnds(c) PROVE Rest'
  <2>1. stopped' \subseteq Slots
    BY <1>0, <1>6 DEF CloseEnds, Leave, Rest
  <2> QED BY <1>0, <1>6, <2>1 DEF CloseEnds, Rest
<1>7. ASSUME NEW c \in Slots, NEW from \in Slots \cup {None}, ControlClose(c, from) PROVE Rest'
  <2>1. CASE from = None
    BY <1>0, <1>7, <2>1 DEF ControlClose, Rest
  <2>2. CASE from # None
    BY <1>0, <1>7, <2>2, StopRest DEF ControlClose
  <2> QED BY <2>1, <2>2
<1>8. ASSUME NEW c \in Slots, Deliver(c) \/ RefuseTake(c) \/ StartClose(c) PROVE Rest'
  BY <1>0, <1>8 DEF Deliver, RefuseTake, StartClose, Pop, Rest
<1>9. ASSUME NEW c \in Slots, Types(c) PROVE Rest'
  BY <1>0, <1>9 DEF Types, Rest
<1>10. ASSUME NEW c \in Slots, StartInput(c) \/ FinishInput(c) PROVE Rest'
  <2>1. inputLock' \in Slots \cup {None} /\ stopped' = stopped
    BY <1>0, <1>10 DEF StartInput, FinishInput, Pop, Rest
  <2> QED BY <1>0, <1>10, <2>1 DEF StartInput, FinishInput, Rest
<1>11. CASE SaveSnapshot \/ SaveFails
  <2>1. saved' \in 0..rev
    BY <1>0, <1>11 DEF SaveSnapshot, SaveFails, Rest
  <2>2. unsaved' \in BOOLEAN
    <3>1. (sent > saved) \in BOOLEAN
      OBVIOUS
    <3>2. unsaved' = FALSE \/ unsaved' = (sent > saved)
      BY <1>11 DEF SaveSnapshot, SaveFails
    <3> QED BY <3>1, <3>2, Zenon
  <2>3. monitor' = "write"
    BY <1>11 DEF SaveSnapshot, SaveFails
  <2>4. /\ UNCHANGED <<hostVars, slotVars, clientVars, talkVars, recorded, report, owed, waitVars, countVars>>
    BY <1>11 DEF SaveSnapshot, SaveFails
  <2> QED BY <1>0, <2>1, <2>2, <2>3, <2>4 DEF Rest
<1>12. CASE ReadFlags \/ Publish
  <2>1. recorded' \in BOOLEAN /\ report' \in BOOLEAN
    <3>1. AnyClient \in BOOLEAN /\ FALSE \in BOOLEAN
      BY DEF AnyClient
    <3>2. recorded \in BOOLEAN /\ report \in BOOLEAN
      BY <1>0 DEF Rest
    <3>3. report' = AnyClient \/ report' = FALSE
      BY <1>12, Zenon DEF ReadFlags, Publish
    <3>4. recorded' \in {report, recorded}
      BY <1>12 DEF ReadFlags, Publish
    <3>5. recorded' = report \/ recorded' = recorded
      BY <3>4, Zenon
    <3> QED BY <3>1, <3>2, <3>3, <3>5, Zenon
  <2>2. owed' \in Nat
    BY <1>0, <1>12 DEF ReadFlags, Publish
  <2> QED BY <1>0, <1>12, <2>1, <2>2 DEF ReadFlags, Publish, Rest
<1>13. CASE UNCHANGED vars
  BY <1>0, <1>13 DEF vars, Rest
<1> QED BY <1>0, <1>1, <1>2, <1>3, <1>4, <1>6, <1>7, <1>8, <1>9, <1>10, <1>11, <1>12, <1>13,
           SendRest, ConnectRest, AttachRest, TakeRest, ReapRest DEF Next

-----------------------------------------------------------------------------
\* Steps that send keep what the Clients have and type, and who writes and waits.

LEMMA TalkFacts ==
  ASSUME IInv, TalkInv
  PROVE  /\ Sets /\ OneController /\ WaitInv /\ ClientInv /\ Rest /\ InboxInv /\ InputInv /\ LoopInv /\ WorkInv
         /\ rev \in Nat /\ generation \in Nat /\ grid \in Nat /\ epoch \in [Slots -> Nat]
         /\ used \subseteq Slots /\ attached \subseteq used /\ controls \subseteq attached
         /\ Slots \subseteq Threads /\ Monitor \in Threads /\ Monitor \notin Slots /\ None \notin Slots
         /\ Nobody(inbox) /\ \A c \in Slots : inbox[c] \in Seq(Inputs(generation))
         /\ \A c \in Slots : wait[c] # None => doing[c] = "idle" /\ c \in used
BY NobodyThere, HostAssumption DEF IInv, TalkInv, DiskInv, ClientInv, Sets, Rest, OneController, LoopInv, Threads

LEMMA BroadcastTalk ==
  ASSUME IInv, IInv', TalkInv, NEW t \in Threads \ {Monitor}, Broadcast(t), t \in Slots => Idle(t)
  PROVE  ClientInv' /\ InboxInv' /\ InputInv' /\ LoopInv'
<1>0. /\ OneController /\ WaitInv /\ ClientInv /\ InboxInv /\ InputInv /\ LoopInv /\ rev \in Nat
      /\ generation \in Nat /\ epoch \in [Slots -> Nat] /\ attached \in SUBSET Slots
      /\ \A c \in Slots : inbox[c] \in Seq(Inputs(generation))
      /\ \A c \in Slots : wait[c] # None => doing[c] = "idle" /\ c \in used
  BY TalkFacts
<1>1. PICK rec, to, stuck :
        /\ rec = BroadcastRecords /\ stuck = Blocked(attached, controls) /\ to = attached \ stuck
        /\ Sent(attached, to, rec, inbox) /\ Waiting(t, stuck, rec, "output", None)
  BY BroadcastSends
<1>2. PICK n \in Nat, g \in Nat : n = rev + 1 /\ g = generation
  BY <1>0
<1>3. /\ rev' = n /\ generation' = g /\ UNCHANGED <<used, doing, inputLock>> /\ controls' = controls
  BY <1>2 DEF Broadcast, slotVars, talkVars, Send
<1>4. \A c \in attached : rec[c] \in Seq(RecordsBy(n, g))
  <2>1. \A c \in attached : rec[c] = <<Output(n)>>
    BY <1>1, <1>2 DEF BroadcastRecords
  <2>2. n \in 0..n
    OBVIOUS
  <2> QED BY <2>1, <2>2, OutputBy
<1>5. to \in SUBSET attached /\ stuck \in SUBSET attached /\ stuck \in SUBSET Slots
  BY <1>0, <1>1 DEF Blocked
<1>6. rev \in 0..n /\ generation \in 0..g
  BY <1>0, <1>2
<1>7. \A u \in Threads : wait'[u] # None => wait'[u] \in WaitsBy(n, g)
  <2>1. /\ \A c \in stuck : rec[c] \in Seq(RecordsBy(n, g))
        /\ None \in Nat \cup {None} /\ "output" \in {"output", "resize", "take", "attach", "reap"}
        /\ "output" # "attach"
    BY <1>4, <1>5
  <2> QED BY <1>0, <1>1, <1>5, <1>6, <2>1, WaitingTypes
<1>8. ClientInv'
  <2>1. \A c \in to : rec[c] \in Seq(RecordsBy(n, g))
    BY <1>4, <1>5
  <2>2. PICK boxes : boxes = inbox /\ \A c \in Slots : boxes[c] \in Seq(Inputs(g))
    BY <1>0, <1>2
  <2>3. PICK att \in SUBSET Slots : att = attached
    BY <1>0
  <2>4. Sent(att, to, rec, boxes) /\ to \in SUBSET att
    BY <1>1, <1>5, <2>2, <2>3
  <2> QED BY <1>0, <1>3, <1>6, <1>7, <2>1, <2>2, <2>4, SentClients
<1>9. InboxInv'
  <2>1. \A c \in attached' : Rising(inbox[c]) /\ (c \in controls' => Recent(inbox[c], generation'))
    BY <1>0, <1>1, <1>2, <1>3 DEF InboxInv, Sent
  <2>2. OneController'
    BY DEF IInv
  <2> QED BY <1>0, <1>1, <2>1, <2>2, SentInbox
<1>10. InputInv'
  BY <1>0, <1>1, <1>3, SentInput DEF InputInv
<1>11. LoopInv'
  <2>1. t \in Slots => t \in used' /\ doing'[t] = "idle" /\ (t \notin stopped \/ wait[t] # None)
    BY <1>3 DEF Idle
  <2>2. wait[Monitor] # None => doing'[wait[Monitor].arg] = "idle"
    BY <1>0, <1>3 DEF LoopInv
  <2> QED BY <1>0, <1>1, <1>3, <2>1, <2>2, WaitingLoop
<1> QED BY <1>8, <1>9, <1>10, <1>11

LEMMA RolesClients ==
  ASSUME IInv, TalkInv, NEW t \in Threads, NEW ctl, NEW g \in Nat, NEW size \in Nat, NEW boxes, Nobody(boxes),
         NEW op \in {"resize", "take", "reap"}, NEW arg \in Nat \cup {None},
         SendRoles(t, ctl, g, size, boxes, op, arg), rev' = rev, generation' = g, generation \in 0..g,
         \A c \in Slots : boxes[c] \in Seq(Inputs(g))
  PROVE  ClientInv'
<1>0. /\ ClientInv /\ rev \in Nat /\ epoch \in [Slots -> Nat]
  BY TalkFacts
<1>1. PICK att \in SUBSET Slots : att = attached
  BY TalkFacts
<1>2. PICK rec, to, stuck :
        /\ rec = Roles(att, att, ctl, g, size) /\ stuck = Blocked(att, ctl) /\ to = Reached(att, ctl)
        /\ Sent(att, to, rec, boxes) /\ Waiting(t, stuck, rec, op, arg)
  BY <1>1, RolesSent
<1>3. PICK n \in Nat : n = rev
  BY <1>0
<1>4. \A c \in att : rec[c] \in Seq(RecordsBy(n, g))
  <2>1. rev \in 0..n /\ g \in 0..g
    BY <1>3
  <2> QED BY <1>2, <2>1, RolesBy
<1>5. to \in SUBSET att /\ stuck \in SUBSET att /\ stuck \in SUBSET Slots
  BY <1>2 DEF Blocked, Reached
<1>6. \A u \in Threads : wait'[u] # None => wait'[u] \in WaitsBy(n, g)
  <2>1. (\A c \in stuck : rec[c] \in Seq(RecordsBy(n, g))) /\ op \in {"output", "resize", "take", "attach", "reap"}
        /\ rev \in 0..n /\ op # "attach"
    BY <1>3, <1>4, <1>5
  <2> QED BY <1>0, <1>2, <1>5, <2>1, WaitingTypes
<1>7. (\A c \in to : rec[c] \in Seq(RecordsBy(n, g))) /\ rev' = n /\ rev \in 0..n
  BY <1>3, <1>4, <1>5
<1> QED BY <1>0, <1>2, <1>5, <1>6, <1>7, SentClients

LEMMA ResizeTalk ==
  ASSUME IInv, IInv', TalkInv, NEW c \in Slots, Resize(c)
  PROVE  ClientInv' /\ InboxInv' /\ InputInv' /\ LoopInv'
<1>0. /\ OneController /\ WaitInv /\ InboxInv /\ InputInv /\ LoopInv
      /\ generation \in Nat /\ grid \in Nat /\ c \in Threads /\ c # Monitor /\ Nobody(inbox)
      /\ \A d \in Slots : inbox[d] \in Seq(Inputs(generation))
      /\ \A d \in Slots : wait[d] # None => doing[d] = "idle" /\ d \in used
  BY TalkFacts
<1>1. PICK g, size, boxes : g \in Nat /\ size \in Nat /\ g = generation /\ size = grid + 1 /\ boxes = inbox
  BY <1>0
<1>2. SendRoles(c, controls, g, size, boxes, "resize", None)
  BY <1>1 DEF Resize
<1>3. /\ rev' = rev /\ generation' = g /\ UNCHANGED <<used, doing, inputLock>> /\ controls' = controls /\ Idle(c)
  BY <1>1 DEF Resize, slotVars, talkVars, SendRoles, Send
<1>4. PICK rec, to, stuck : Sent(attached, to, rec, inbox) /\ Waiting(c, stuck, rec, "resize", None)
  <2>1. SendRoles(c, controls, g, size, inbox, "resize", None)
    BY <1>1, <1>2
  <2> QED BY <1>0, <2>1, RolesSent
<1>5. ClientInv'
  <2>1. /\ \A d \in Slots : boxes[d] \in Seq(Inputs(g))
        /\ Nobody(boxes) /\ generation \in 0..g /\ None \in Nat \cup {None}
    BY <1>0, <1>1
  <2>2. PICK op \in {"resize", "take", "reap"} : op = "resize"
    OBVIOUS
  <2>3. PICK ctl, arg : ctl = controls /\ arg = None
    OBVIOUS
  <2>4. SendRoles(c, ctl, g, size, boxes, op, arg)
    BY <1>2, <2>2, <2>3
  <2> QED BY <1>0, <1>1, <1>3, <2>1, <2>3, <2>4, RolesClients
<1>6. InboxInv'
  <2>1. \A d \in attached' : Rising(inbox[d]) /\ (d \in controls' => Recent(inbox[d], generation'))
    <3>1. attached' \subseteq Slots
      BY <1>4, TalkFacts DEF Sent
    <3> QED BY <1>0, <1>1, <1>3, <3>1 DEF InboxInv
  <2>2. OneController'
    BY DEF IInv
  <2> QED BY <1>0, <1>4, <2>1, <2>2, SentInbox
<1>7. InputInv'
  BY <1>0, <1>3, <1>4, SentInput DEF InputInv
<1>8. LoopInv'
  <2>1. c \in used' /\ doing'[c] = "idle" /\ c \notin stopped
    BY <1>3 DEF Idle
  <2>2. wait[Monitor] # None => doing'[wait[Monitor].arg] = "idle"
    BY <1>0, <1>3 DEF LoopInv
  <2> QED BY <1>0, <1>3, <1>4, <2>1, <2>2, WaitingLoop
<1> QED BY <1>5, <1>6, <1>7, <1>8

LEMMA PopInputs ==
  ASSUME NEW g \in Nat, NEW s \in Seq(Inputs(g)), s # <<>>, Rising(s)
  PROVE  /\ Tail(s) \in Seq(Inputs(g)) /\ Rising(Tail(s))
         /\ \A n : Recent(s, n) => Recent(Tail(s), n)
         /\ Head(s).gen \in Nat /\ (Head(s).type = "TAKE" => Recent(Tail(s), Head(s).gen + 1))
<1>1. /\ Tail(s) \in Seq(Inputs(g)) /\ Len(Tail(s)) = Len(s) - 1 /\ Len(s) \in Nat \ {0}
      /\ \A i \in 1..Len(Tail(s)) : Tail(s)[i] = s[i + 1] /\ i + 1 \in 1..Len(s)
  OBVIOUS
<1>2. Head(s) = s[1] /\ 1 \in 1..Len(s) /\ s[1] \in Inputs(g)
  BY <1>1
<1>3. Rising(Tail(s))
  <2>1. ASSUME NEW i \in 1..Len(Tail(s)), NEW j \in 1..Len(Tail(s)), i < j, Tail(s)[j].type = "INPUT"
        PROVE  Tail(s)[i].gen <= Tail(s)[j].gen
    BY <1>1, <2>1 DEF Rising
  <2> QED BY <2>1 DEF Rising
<1>4. \A n : Recent(s, n) => Recent(Tail(s), n)
  BY <1>1 DEF Recent
<1>5. Recent(Tail(s), Head(s).gen + 1)
  <2>1. ASSUME NEW i \in 1..Len(Tail(s)), Tail(s)[i].type = "INPUT"
        PROVE  Head(s).gen + 1 <= Tail(s)[i].gen + 1
    <3>1. s[1].gen <= s[i + 1].gen /\ Tail(s)[i] = s[i + 1]
      BY <1>1, <1>2, <2>1 DEF Rising
    <3>2. s[1] \in Inputs(g) /\ s[i + 1] \in Inputs(g)
      <4>1. i + 1 \in 1..Len(s)
        BY <1>1
      <4> QED BY <1>2, <4>1
    <3>3. s[1].gen \in Nat /\ s[i + 1].gen \in Nat
      BY <3>2 DEF Inputs
    <3> QED BY <1>2, <3>1, <3>3
  <2> QED BY <2>1 DEF Recent
<1> QED BY <1>1, <1>2, <1>3, <1>4, <1>5 DEF Inputs

LEMMA NoWriter ==
  ASSUME InputInv, inputLock = None, None \notin Slots, NEW c,
         doing' = doing \/ doing' = [doing EXCEPT ![c] = "idle"], DOMAIN doing = Slots
  PROVE  InputInv'
BY DEF InputInv

LEMMA TakeControlTalk ==
  ASSUME IInv, IInv', TalkInv, NEW c \in Slots, NEW size \in {grid, grid + 1}, TakeControl(c, size)
  PROVE  ClientInv' /\ InboxInv' /\ InputInv' /\ LoopInv'
<1>0. /\ Sets /\ OneController /\ WaitInv /\ ClientInv /\ InboxInv /\ InputInv /\ LoopInv
      /\ generation \in Nat /\ size \in Nat /\ c \in Threads /\ c # Monitor /\ None \notin Slots
      /\ \A d \in Slots : inbox[d] \in Seq(Inputs(generation))
      /\ \A d \in Slots : wait[d] # None => doing[d] = "idle" /\ d \in used
  BY TalkFacts
<1>a. PICK ctl, boxes : ctl = (controls \ {controller}) \cup {c} /\ boxes = Popped(c)
  OBVIOUS
<1>b. PICK g \in Nat : g = generation + 1
  BY <1>0
<1>1. /\ g \in Nat /\ g = generation + 1 /\ ctl = (controls \ {controller}) \cup {c} /\ boxes = Popped(c)
  BY <1>a, <1>b
<1>2. SendRoles(c, ctl, g, size, boxes, "take", None)
  BY <1>1 DEF TakeControl
<1>3. /\ rev' = rev /\ generation' = g /\ UNCHANGED <<used, doing>> /\ Idle(c) /\ inputLock = None
      /\ c \in attached /\ Head(inbox[c]).gen = generation /\ Head(inbox[c]).type = "TAKE" /\ inbox[c] # <<>>
      /\ controls' = ctl
  BY <1>1 DEF TakeControl, slotVars, SendRoles, Send, Reads, Grantable
<1>4. ctl = {c}
  BY <1>0, <1>1, <1>3 DEF OneController
<1>5. Nobody(boxes)
  BY <1>0, <1>1, <1>3, NobodyPopped
<1>6. PICK rec, to, stuck : Sent(attached, to, rec, boxes) /\ Waiting(c, stuck, rec, "take", None)
  BY <1>0, <1>2, <1>5, RolesSent
<1>7. PICK s : s = inbox[c] /\ s \in Seq(Inputs(generation)) /\ s # <<>> /\ Rising(s)
  BY <1>0, <1>3 DEF InboxInv
<1>8. /\ boxes[c] = Tail(s) /\ \A d \in Slots \ {c} : boxes[d] = inbox[d]
  BY <1>0, <1>1, <1>7 DEF Popped, ClientInv
<1>9. /\ Tail(s) \in Seq(Inputs(generation)) /\ Rising(Tail(s)) /\ Recent(Tail(s), g)
  BY <1>0, <1>1, <1>3, <1>7, PopInputs
<1>10. \A d \in Slots : boxes[d] \in Seq(Inputs(g))
  <2>1. Inputs(generation) \subseteq Inputs(g)
    BY <1>0, <1>1 DEF Inputs
  <2>2. \A d \in Slots : boxes[d] \in Seq(Inputs(generation))
    BY <1>0, <1>8, <1>9
  <2> QED BY <2>1, <2>2
<1>11. ClientInv'
  <2>1. generation \in 0..g /\ None \in Nat \cup {None}
    BY <1>0, <1>1
  <2>2. PICK op \in {"resize", "take", "reap"} : op = "take"
    OBVIOUS
  <2>3. PICK arg : arg = None
    OBVIOUS
  <2>4. PICK n \in Nat : n = size
    BY <1>0
  <2>5. SendRoles(c, ctl, g, n, boxes, op, arg) /\ arg \in Nat \cup {None}
    BY <1>2, <2>1, <2>2, <2>3, <2>4
  <2>6. rev' = rev /\ generation' = g
    BY <1>3
  <2> QED BY <1>0, <1>5, <1>10, <2>1, <2>5, <2>6, RolesClients
<1>12. InboxInv'
  <2>1. \A d \in attached' : Rising(boxes[d]) /\ (d \in controls' => Recent(boxes[d], g))
    <3>1. attached' \subseteq Slots
      BY <1>6, TalkFacts DEF Sent
    <3> QED BY <1>0, <1>3, <1>4, <1>8, <1>9, <3>1 DEF InboxInv
  <2>2. OneController'
    BY DEF IInv
  <2> QED BY <1>0, <1>3, <1>6, <2>1, <2>2, SentInbox
<1>13. InputInv'
  BY <1>0, <1>3, NoWriter DEF Sets
<1>14. LoopInv'
  <2>1. c \in used' /\ doing'[c] = "idle" /\ c \notin stopped
    BY <1>3 DEF Idle
  <2>2. wait[Monitor] # None => doing'[wait[Monitor].arg] = "idle"
    BY <1>0, <1>3 DEF LoopInv
  <2> QED BY <1>0, <1>3, <1>6, <2>1, <2>2, WaitingLoop
<1> QED BY <1>11, <1>12, <1>13, <1>14

LEMMA ReapTalk ==
  ASSUME IInv, IInv', TalkInv, NEW c \in Slots, Reap(c)
  PROVE  ClientInv' /\ InboxInv' /\ InputInv' /\ LoopInv'
<1>0. /\ Sets /\ OneController /\ WaitInv /\ InboxInv /\ InputInv /\ LoopInv
      /\ generation \in Nat /\ grid \in Nat /\ Monitor \in Threads /\ Monitor \notin Slots /\ Nobody(inbox)
      /\ \A d \in Slots : inbox[d] \in Seq(Inputs(generation))
      /\ \A d \in Slots : wait[d] # None => doing[d] = "idle" /\ d \in used
      /\ \A d \in Slots : d \in Nat
  BY TalkFacts, HostAssumption
<1>1. PICK g, size, boxes : g \in Nat /\ size \in Nat /\ g = generation /\ size = grid /\ boxes = inbox
  BY <1>0
<1>2. SendRoles(Monitor, controls, g, size, boxes, "reap", c)
  BY <1>1 DEF Reap
<1>3. /\ rev' = rev /\ generation' = g /\ controls' = controls /\ inputLock' = inputLock
      /\ doing' = [doing EXCEPT ![c] = "idle"] /\ doing[c] \in {"hello", "idle"} /\ wait[c] = None /\ wait[Monitor] = None
      /\ used \ {c} \subseteq used'
  BY <1>1 DEF Reap, hostVars, SendRoles, Send, Free
<1>4. PICK rec, to, stuck : Sent(attached, to, rec, inbox) /\ Waiting(Monitor, stuck, rec, "reap", c)
  <2>1. SendRoles(Monitor, controls, g, size, inbox, "reap", c)
    BY <1>1, <1>2
  <2> QED BY <1>0, <2>1, RolesSent
<1>5. ClientInv'
  <2>1. /\ \A d \in Slots : boxes[d] \in Seq(Inputs(g))
        /\ Nobody(boxes) /\ generation \in 0..g /\ c \in Nat \cup {None}
    BY <1>0, <1>1
  <2>2. PICK op \in {"resize", "take", "reap"} : op = "reap"
    OBVIOUS
  <2>3. PICK ctl, t : ctl = controls /\ t = Monitor
    OBVIOUS
  <2>4. SendRoles(t, ctl, g, size, boxes, op, c)
    BY <1>2, <2>2, <2>3
  <2> QED BY <1>0, <1>1, <1>3, <2>1, <2>3, <2>4, RolesClients
<1>6. InboxInv'
  <2>1. \A d \in attached' : Rising(inbox[d]) /\ (d \in controls' => Recent(inbox[d], generation'))
    <3>1. attached' \subseteq Slots
      BY <1>4, TalkFacts DEF Sent
    <3> QED BY <1>0, <1>1, <1>3, <3>1 DEF InboxInv
  <2>2. OneController'
    BY DEF IInv
  <2> QED BY <1>0, <1>4, <2>1, <2>2, SentInbox
<1>7. InputInv'
  <2>1. \A d \in Slots : doing'[d] = "input" => doing[d] = "input" /\ inputLock' = inputLock /\ d \in used'
    BY <1>0, <1>3 DEF InputInv, Sets
  <2> QED BY <1>0, <1>3, <1>4, <2>1, SentInput
<1>8. LoopInv'
  <2>1. doing'[c] = "idle" /\ \A d \in Slots : wait[d] # None => d \in used' /\ doing'[d] = "idle"
    BY <1>0, <1>3 DEF Sets
  <2> QED BY <1>0, <1>3, <1>4, <2>1, WaitingLoop
<1> QED BY <1>5, <1>6, <1>7, <1>8

LEMMA AttachTalk ==
  ASSUME IInv, IInv', TalkInv, NEW c \in Slots, NEW size \in {grid, grid + 1}, Attach(c, size)
  PROVE  ClientInv' /\ InboxInv' /\ InputInv' /\ LoopInv'
<1>0. /\ Sets /\ OneController /\ WaitInv /\ ClientInv /\ InboxInv /\ InputInv /\ LoopInv /\ rev \in Nat
      /\ generation \in Nat /\ size \in Nat /\ c \in Threads /\ c # Monitor /\ None \notin Slots
      /\ attached \in SUBSET Slots /\ epoch \in [Slots -> Nat] /\ Nobody(inbox)
      /\ \A d \in Slots : inbox[d] \in Seq(Inputs(generation))
      /\ \A d \in Slots : wait[d] # None => doing[d] = "idle" /\ d \in used
  BY TalkFacts
<1>1. PICK ctl, gen, own, rec, to, stuck :
        /\ ctl = AttachControls(c) /\ gen = AttachGeneration(c) /\ stuck = Blocked(attached, ctl)
        /\ own = Itself(c, stuck) /\ rec = AttachRecords(c, ctl, gen, own, size)
        /\ to = Reached(attached, ctl) \cup own
        /\ Sent(attached \cup {c}, to, rec, inbox) /\ Waiting(c, stuck, rec, "attach", rev)
  BY AttachSends
<1>2. /\ rev' = rev /\ generation' = gen /\ used' = used /\ doing' = [doing EXCEPT ![c] = "idle"]
      /\ c \in used \ stopped /\ inputLock = None /\ doing[c] = "hello"
  BY <1>1 DEF Attach, AttachGeneration, Granted
<1>3. controls' = ctl
  BY <1>1 DEF Attach, Send, AttachControls, Granted
<1>4. PICK n, g : n = rev /\ n \in Nat /\ g = gen /\ g \in Nat /\ generation \in 0..g
  BY <1>0, <1>1 DEF AttachGeneration
<1>5. c \notin attached /\ wait[c] = None /\ inbox[c] = <<>>
  BY <1>0, <1>2 DEF Sets, ClientInv
<1>6. PICK att \in SUBSET Slots : att = attached \cup {c}
  BY <1>0
<1>7. \A d \in attached \cup own : rec[d] \in Seq(RecordsBy(n, g))
  <2>0. rev \in 0..n /\ gen \in 0..g /\ n \in 0..n
    BY <1>4
  <2>1. ASSUME NEW d \in attached PROVE rec[d] \in Seq(RecordsBy(n, g))
    <3>1. rec[d] = Roles(attached, att, ctl, gen, size)[d]
      BY <1>1, <1>5, <1>6, <2>1 DEF AttachRecords
    <3> QED BY <1>0, <1>4, <2>0, <3>1, RolesBy
  <2>2. ASSUME c \in own PROVE rec[c] \in Seq(RecordsBy(n, g))
    <3>1. PICK some \in SUBSET Slots : some = att \ {e \in attached \ ctl : Full(e, <<0>>)}
      BY <1>6
    <3>2. rec[c] = Greeting(c, gen, ctl, Cardinality(some), size, rev)
      BY <1>1, <1>6, <2>2, <3>1 DEF AttachRecords
    <3>3. Greeting(c, gen, ctl, Cardinality(some), size, rev) \in Seq(RecordsBy(n, g))
      BY <1>0, <1>4, <2>0, GreetingBy
    <3> QED BY <3>2, <3>3
  <2> QED BY <1>1, <2>1, <2>2 DEF Itself
<1>8. to \in SUBSET att /\ stuck \in SUBSET Slots /\ stuck \subseteq attached /\ to \subseteq attached \cup own
  BY <1>0, <1>1, <1>6 DEF Blocked, Reached, Itself
<1>9. \A u \in Threads : wait'[u] # None => wait'[u] \in WaitsBy(n, g)
  <2>1. /\ \A d \in stuck : rec[d] \in Seq(RecordsBy(n, g))
        /\ "attach" \in {"output", "resize", "take", "attach", "reap"} /\ rev \in 0..n
    BY <1>4, <1>7, <1>8
  <2>2. PICK arg \in Nat \cup {None} : arg = rev /\ arg \in 0..n
    BY <1>0, <1>4
  <2>3. Waiting(c, stuck, rec, "attach", arg) /\ arg \in 0..n
    BY <1>1, <2>2
  <2> QED BY <1>0, <1>4, <1>8, <2>1, <2>3, WaitingTypes
<1>10. ClientInv'
  <2>1. \A d \in to : rec[d] \in Seq(RecordsBy(n, g))
    BY <1>7, <1>8
  <2>2. PICK boxes : boxes = inbox /\ \A d \in Slots : boxes[d] \in Seq(Inputs(g))
    <3>1. Inputs(generation) \subseteq Inputs(g)
      BY <1>0, <1>4 DEF Inputs
    <3>2. \A d \in Slots : inbox[d] \in Seq(Inputs(g))
      BY <1>0, <3>1
    <3> QED BY <3>2
  <2>3. Sent(att, to, rec, boxes)
    BY <1>1, <1>6, <2>2
  <2>4. rev' = n /\ rev \in 0..n /\ generation' = g
    BY <1>2, <1>4
  <2> QED BY <1>0, <1>4, <1>8, <1>9, <2>1, <2>2, <2>3, <2>4, SentClients
<1>11. InboxInv'
  <2>1. \A d \in attached' : Rising(inbox[d]) /\ (d \in ctl => Recent(inbox[d], g))
    <3> SUFFICES ASSUME NEW d \in attached' PROVE Rising(inbox[d]) /\ (d \in ctl => Recent(inbox[d], g))
      OBVIOUS
    <3>1. d \in Slots
      BY <1>1, <1>6 DEF Sent
    <3>2. CASE d = c
      BY <1>5, <3>2, EmptyInbox
    <3>3. CASE d # c /\ Granted(c)
      BY <1>0, <1>1, <3>1, <3>3 DEF AttachControls, OneController, InboxInv
    <3>4. CASE d # c /\ ~Granted(c)
      BY <1>0, <1>1, <1>4, <3>1, <3>4 DEF AttachControls, AttachGeneration, InboxInv
    <3> QED BY <3>2, <3>3, <3>4
  <2>2. OneController' /\ generation' = g
    BY <1>2, <1>4 DEF IInv
  <2> QED BY <1>0, <1>1, <1>3, <2>1, <2>2, SentInbox
<1>12. InputInv'
  BY <1>0, <1>2, NoWriter DEF Sets
<1>13. LoopInv'
  <2>1. /\ c \in used' /\ doing'[c] = "idle" /\ c \notin stopped
        /\ \A d \in Slots : wait[d] # None => d \in used' /\ doing'[d] = "idle"
    BY <1>0, <1>2, <1>5 DEF Sets
  <2>2. wait[Monitor] # None => doing'[wait[Monitor].arg] = "idle"
    BY <1>0, <1>2 DEF LoopInv, Sets
  <2> QED BY <1>0, <1>1, <2>1, <2>2, WaitingLoop
<1> QED BY <1>10, <1>11, <1>12, <1>13

LEMMA LateBy ==
  ASSUME IInv, TalkInv, NEW t \in Threads, NEW w, w = wait[t], w # None, NEW att \in SUBSET Slots, NEW ctl, NEW due, NEW own, own # {} => w.op = "attach",
         NEW c \in ({w.for} \cap att) \cup due \cup own
  PROVE  LateRecords(w, att, ctl, due, own)[c] \in Seq(RecordsBy(rev, generation))
<1>0. rev \in Nat /\ generation \in Nat /\ grid \in Nat /\ w \in WaitsBy(rev, generation) /\ rev \in 0..rev
      /\ generation \in 0..generation
  BY TalkFacts DEF ClientInv
<1>1. CASE c = w.for \/ w.op = "output"
  BY <1>0, <1>1 DEF LateRecords, WaitsBy
<1>2. CASE ~(c = w.for \/ w.op = "output") /\ c \in own
  <2>1. PICK some \in SUBSET Slots : some = att \ {d \in due \ ctl : Full(d, <<0>>)}
    OBVIOUS
  <2>2. LateRecords(w, att, ctl, due, own)[c] = Greeting(c, generation, ctl, Cardinality(some), grid, w.arg)
    BY <1>2, <2>1 DEF LateRecords
  <2>3. PICK at \in 0..rev : at = w.arg
    BY <1>0, <1>2 DEF WaitsBy
  <2>4. Greeting(c, generation, ctl, Cardinality(some), grid, at) \in Seq(RecordsBy(rev, generation))
    BY <1>0, GreetingBy
  <2> QED BY <2>2, <2>3, <2>4
<1>3. CASE ~(c = w.for \/ w.op = "output") /\ c \notin own
  <2>1. LateRecords(w, att, ctl, due, own)[c] = Roles(due, att, ctl, generation, grid)[c] /\ c \in due
    BY <1>3 DEF LateRecords
  <2> QED BY <1>0, <2>1, RolesBy
<1> QED BY <1>1, <1>2, <1>3

LEMMA GoOnTalk ==
  ASSUME IInv, IInv', TalkInv, NEW t \in Threads, NEW stalled, wait[t] # None, GoOn(t, stalled)
  PROVE  ClientInv' /\ InboxInv' /\ InputInv' /\ LoopInv'
<1>0. /\ Sets /\ OneController /\ WaitInv /\ ClientInv /\ InboxInv /\ InputInv /\ LoopInv /\ rev \in Nat
      /\ generation \in Nat /\ None \notin Slots /\ attached \subseteq Slots /\ epoch \in [Slots -> Nat]
      /\ \A d \in Slots : inbox[d] \in Seq(Inputs(generation))
      /\ \A d \in Slots : wait[d] # None => doing[d] = "idle" /\ d \in used
  BY TalkFacts
<1>1. PICK w, gone, att, ctl, due, stuck, own, rec, held, to :
        /\ w = wait[t] /\ GoesOn(t, w, gone, att, ctl, due, stuck, own, rec, held, to)
        /\ held \subseteq due \cup own /\ due \subseteq att /\ own \subseteq att /\ to \subseteq att
        /\ Sent(att, to, rec, inbox) /\ Waiting(t, held, rec, w.op, w.arg)
        /\ inputLock' = IF held = {} /\ inputLock = t THEN None ELSE inputLock
        /\ IF w.op = "reap" /\ held = {} THEN used' = used \ {w.arg} ELSE used' = used
  BY GoOnSends
<1>2. /\ att \subseteq attached /\ att \in SUBSET Slots /\ ctl = controls \ gone /\ attached \ att = gone
      /\ rec = LateRecords(w, att, ctl, due, own)
      /\ to \subseteq ({w.for} \cap att) \cup due \cup own
  BY <1>0, <1>1 DEF GoesOn, Reached
<1>3. rev' = rev /\ generation' = generation /\ doing' = doing
  BY DEF GoOn
<1>4. controls \cap attached' \subseteq controls' /\ controls' \subseteq controls
  <2>1. controls' \subseteq controls
    BY <1>0, <1>1 DEF GoOn, Proceed, Send
  <2>2. controls' = controls \ IF wait[t].for \in attached /\ Full(wait[t].for, wait[t].records)
                                   /\ (stalled \/ wait[t].for \notin controls) THEN {wait[t].for} ELSE {}
    BY DEF GoOn, Proceed, Send
  <2>3. attached' \subseteq attached \ IF wait[t].for \in attached /\ Full(wait[t].for, wait[t].records)
                                   /\ (stalled \/ wait[t].for \notin controls) THEN {wait[t].for} ELSE {}
    BY DEF GoOn, Proceed, Send
  <2> QED BY <2>1, <2>2, <2>3
<1>5. PICK n \in Nat, g \in Nat : n = rev /\ g = generation
  BY <1>0
<1>6. \A c \in ({w.for} \cap att) \cup due \cup own : rec[c] \in Seq(RecordsBy(n, g))
  <2>1. own # {} => w.op = "attach"
    BY <1>1 DEF GoesOn
  <2> QED BY <1>1, <1>2, <1>5, <2>1, LateBy
<1>7. \A u \in Threads : wait'[u] # None => wait'[u] \in WaitsBy(n, g)
  <2>1. w \in WaitsBy(n, g)
    BY <1>0, <1>1, <1>5 DEF ClientInv
  <2>2. PICK op, arg : op = w.op /\ arg = w.arg
    OBVIOUS
  <2>3. /\ op \in {"output", "resize", "take", "attach", "reap"} /\ arg \in Nat \cup {None}
        /\ op = "attach" => arg \in 0..n
    BY <2>1, <2>2 DEF WaitsBy
  <2>4. held \in SUBSET Slots /\ \A c \in held : rec[c] \in Seq(RecordsBy(n, g))
    BY <1>1, <1>2, <1>6
  <2>5. Waiting(t, held, rec, op, arg) /\ rev \in 0..n /\ generation \in 0..g
    BY <1>0, <1>1, <1>5, <2>2
  <2> QED BY <1>0, <2>3, <2>4, <2>5, WaitingTypes
<1>8. ClientInv'
  <2>1. (\A c \in to : rec[c] \in Seq(RecordsBy(n, g))) /\ to \in SUBSET att
    BY <1>1, <1>2, <1>6
  <2>2. PICK boxes : boxes = inbox /\ \A d \in Slots : boxes[d] \in Seq(Inputs(g))
    BY <1>0, <1>5
  <2>3. Sent(att, to, rec, boxes)
    BY <1>1, <2>2
  <2>4. rev' = n /\ rev \in 0..n /\ generation' = g /\ generation \in 0..g
    BY <1>0, <1>3, <1>5
  <2> QED BY <1>0, <1>2, <1>7, <2>1, <2>2, <2>3, <2>4, SentClients
<1>9. InboxInv'
  <2>1. \A d \in attached' : Rising(inbox[d]) /\ (d \in controls' => Recent(inbox[d], generation'))
    BY <1>0, <1>1, <1>2, <1>3, <1>4 DEF InboxInv, Sent
  <2>2. OneController'
    BY DEF IInv
  <2> QED BY <1>0, <1>1, <2>1, <2>2, SentInbox
<1>10. w.op = "reap" => t = Monitor /\ w.arg \in Slots /\ doing[w.arg] = "idle" /\ wait[w.arg] = None
  BY <1>0, <1>1 DEF WaitInv, Waiter, LoopInv
<1>11. InputInv'
  <2>1. \A d \in Slots : doing'[d] = "input" => doing[d] = "input" /\ inputLock' = inputLock /\ d \in used'
    BY <1>0, <1>1, <1>3, <1>10 DEF InputInv
  <2> QED BY <1>0, <1>1, <1>4, <2>1, SentInput
<1>12. LoopInv'
  <2>1. \A d \in Slots : wait[d] # None => d \in used' /\ doing'[d] = "idle"
    BY <1>0, <1>1, <1>3, <1>10
  <2>2. t = Monitor => w.op = "reap" /\ w.arg \in Slots /\ doing'[w.arg] = "idle" /\ wait[w.arg] = None
    BY <1>0, <1>1, <1>3 DEF LoopInv
  <2>3. wait[Monitor] # None => doing'[wait[Monitor].arg] = "idle"
    BY <1>0, <1>3 DEF LoopInv
  <2>4. PICK op, arg : op = w.op /\ arg = w.arg
    OBVIOUS
  <2> QED BY <1>0, <1>1, <2>1, <2>2, <2>3, <2>4, WaitingLoop
<1> QED BY <1>8, <1>9, <1>11, <1>12

-----------------------------------------------------------------------------
\* The other steps.

\* A step that only makes Clients leave.
LEMMA StopsTalk ==
  ASSUME IInv, IInv', TalkInv, NEW att \in SUBSET Slots, NEW rec, Sent(att, {}, rec, inbox),
         UNCHANGED <<rev, generation, wait, inputLock, used>>,
         controls \cap attached' \subseteq controls', controls' \subseteq controls,
         NEW c \in Slots, NEW p \in {"idle", "close", "detach"},
         doing' = doing \/ (wait[c] = None /\ doing' = [doing EXCEPT ![c] = p]),
         wait[Monitor] # None => doing'[wait[Monitor].arg] = "idle"
  PROVE  ClientInv' /\ InboxInv' /\ InputInv' /\ LoopInv'
<1>0. /\ Sets /\ OneController /\ ClientInv /\ InboxInv /\ InputInv /\ LoopInv /\ rev \in Nat
      /\ generation \in Nat /\ attached \subseteq Slots
      /\ \A d \in Slots : inbox[d] \in Seq(Inputs(generation))
      /\ \A d \in Slots : wait[d] # None => doing[d] = "idle" /\ d \in used
  BY TalkFacts
<1>1. ClientInv'
  <2>1. PICK n \in Nat, g \in Nat : n = rev /\ g = generation
    BY <1>0
  <2>2. PICK boxes : boxes = inbox /\ \A d \in Slots : boxes[d] \in Seq(Inputs(g))
    BY <1>0, <2>1
  <2>3. PICK to \in SUBSET att : to = {}
    OBVIOUS
  <2>4. Sent(att, to, rec, boxes) /\ \A d \in to : rec[d] \in Seq(RecordsBy(n, g))
    BY <2>2, <2>3
  <2>5. rev' = n /\ rev \in 0..n /\ generation' = g /\ generation \in 0..g
    BY <1>0, <2>1
  <2>6. \A t \in Threads : wait'[t] # None => wait'[t] \in WaitsBy(n, g)
    BY <1>0, <2>1 DEF ClientInv
  <2> QED BY <1>0, <2>2, <2>4, <2>5, <2>6, SentClients
<1>2. InboxInv'
  <2>1. \A d \in attached' : Rising(inbox[d]) /\ (d \in controls' => Recent(inbox[d], generation'))
    BY <1>0 DEF InboxInv, Sent
  <2>2. OneController'
    BY DEF IInv
  <2> QED BY <1>0, <2>1, <2>2, SentInbox
<1>3. InputInv'
  <2>1. \A d \in Slots : doing'[d] = "input" => doing[d] = "input"
    BY <1>0 DEF Sets
  <2>2. \A d \in Slots : doing'[d] = "input" => doing[d] = "input" /\ inputLock' = inputLock /\ d \in used'
    BY <1>0, <2>1 DEF InputInv
  <2> QED BY <1>0, <2>2, SentInput
<1>4. LoopInv'
  <2>1. \A d \in Slots : wait[d] # None => doing'[d] = "idle" /\ d \in used'
    BY <1>0 DEF Sets
  <2> QED BY <1>0, <2>1 DEF LoopInv
<1> QED BY <1>1, <1>2, <1>3, <1>4

\* A thread about something else than to idle is not of the slot that the monitor reaps.
LEMMA ReapedIdle ==
  ASSUME IInv, TalkInv, NEW c \in Slots, doing[c] # "idle" \/ c \notin stopped, NEW p,
         doing' = doing \/ doing' = [doing EXCEPT ![c] = p], wait[Monitor] # None
  PROVE  doing'[wait[Monitor].arg] = "idle"
<1>1. PICK a : a = wait[Monitor].arg
  OBVIOUS
<1>2. a \in Slots /\ doing[a] = "idle" /\ a \in stopped
  <2>1. Waiter(Monitor, wait[Monitor], rev, stopped) /\ wait[Monitor].op = "reap"
    BY TalkFacts DEF WaitInv, LoopInv
  <2> QED BY <1>1, <2>1, TalkFacts DEF Waiter, LoopInv
<1>3. a # c
  BY <1>2
<1> QED BY <1>1, <1>2, <1>3, TalkFacts DEF Sets

LEMMA StopStepsTalk ==
  ASSUME IInv, IInv', TalkInv, NEW c \in Slots,
         Disconnect(c) \/ WriterFails(c) \/ CloseDetaches(c)
  PROVE  ClientInv' /\ InboxInv' /\ InputInv' /\ LoopInv'
<1>0. /\ Sets /\ used \subseteq Slots /\ attached \subseteq used /\ Nobody(inbox) /\ WorkInv
      /\ \A d \in Slots : wait[d] # None => doing[d] = "idle" /\ d \in used
      /\ controls \subseteq attached /\ LoopInv
  BY TalkFacts
<1>1. StopClient(c) /\ UNCHANGED <<rev, generation, wait, inputLock, used>>
  BY DEF Disconnect, WriterFails, CloseDetaches, slotVars, talkVars, waitVars
<1>2. c \in used
  BY <1>0 DEF Disconnect, WriterFails, CloseDetaches, WorkInv
<1>3. PICK att \in SUBSET Slots : att = attached \ {c}
  BY <1>0
<1>4. PICK rec : Sent(att, {}, rec, inbox)
  BY <1>0, <1>1, <1>2, <1>3, StopShape
<1>5. controls' = controls \ {c} /\ attached' = attached \ {c}
  BY <1>1 DEF StopClient
<1>6. controls \cap attached' \subseteq controls' /\ controls' \subseteq controls
  BY <1>5
<1>7. PICK p \in {"idle", "close", "detach"} : p = "idle"
  OBVIOUS
<1>8. doing' = doing \/ (doing[c] # "idle" /\ wait[c] = None /\ doing' = [doing EXCEPT ![c] = p])
  BY <1>0, <1>7 DEF Disconnect, WriterFails, CloseDetaches, talkVars
<1>9. wait[Monitor] # None => doing'[wait[Monitor].arg] = "idle"
  <2>1. CASE doing' = doing
    BY <1>0, <2>1 DEF LoopInv
  <2>2. CASE doing[c] # "idle" /\ doing' = [doing EXCEPT ![c] = p]
    BY <2>2, ReapedIdle
  <2> QED BY <1>8, <2>1, <2>2
<1> QED BY <1>1, <1>4, <1>6, <1>8, <1>9, StopsTalk

LEMMA ControlCloseTalk ==
  ASSUME IInv, IInv', TalkInv, NEW c \in Slots, NEW from \in Slots \cup {None}, ControlClose(c, from)
  PROVE  ClientInv' /\ InboxInv' /\ InputInv' /\ LoopInv'
<1>0. /\ Sets /\ used \subseteq Slots /\ attached \subseteq used /\ Nobody(inbox)
      /\ \A d \in Slots : wait[d] # None => doing[d] = "idle" /\ d \in used
      /\ controls \subseteq attached /\ ClientInv
  BY TalkFacts
<1>1. UNCHANGED <<rev, generation, wait, inputLock, used>> /\ doing[c] # "idle" /\ wait[c] = None
  BY <1>0 DEF ControlClose, slotVars, waitVars
<1>2. PICK p \in {"idle", "close", "detach"} : doing' = [doing EXCEPT ![c] = p]
  BY DEF ControlClose
<1>3. wait[Monitor] # None => doing'[wait[Monitor].arg] = "idle"
  BY <1>1, <1>2, ReapedIdle
<1>4. PICK att, rec : /\ att \in SUBSET Slots /\ Sent(att, {}, rec, inbox) /\ controls \cap attached' \subseteq controls'
                                       /\ controls' \subseteq controls
  <2>1. CASE from = None
    <3>1. UNCHANGED clientVars
      BY <2>1 DEF ControlClose
    <3>2. Sent(attached, {}, <<>>, inbox)
      BY <1>0, <3>1 DEF clientVars, Sent, Nobody, ClientInv, TooFull
    <3> QED BY <1>0, <3>1, <3>2 DEF clientVars
  <2>2. CASE from # None
    <3>1. StopClient(from) /\ from \in attached
      BY <2>2 DEF ControlClose
    <3>2. PICK rec : rec = <<>>
      OBVIOUS
    <3>3. Sent(attached \ {from}, {}, rec, inbox)
      BY <1>0, <3>1, StopShape
    <3>4. controls' = controls \ {from} /\ attached' = attached \ {from}
      BY <3>1 DEF StopClient
    <3> QED BY <1>0, <3>3, <3>4
  <2> QED BY <2>1, <2>2
<1> QED BY <1>1, <1>2, <1>3, <1>4, StopsTalk

LEMMA CloseEndsTalk ==
  ASSUME IInv, IInv', TalkInv, NEW c \in Slots, CloseEnds(c)
  PROVE  ClientInv' /\ InboxInv' /\ InputInv' /\ LoopInv'
<1>0. /\ Sets /\ used \subseteq Slots /\ attached \subseteq used /\ Nobody(inbox)
      /\ \A d \in Slots : wait[d] # None => doing[d] = "idle" /\ d \in used
  BY TalkFacts
<1>1. /\ UNCHANGED <<rev, generation, wait, inputLock, used>> /\ doing[c] # "idle" /\ wait[c] = None
      /\ attached' = {} /\ controls' = {}
  BY <1>0 DEF CloseEnds, slotVars, waitVars
<1>2. PICK p \in {"idle", "close", "detach"} : doing' = [doing EXCEPT ![c] = p]
  BY DEF CloseEnds
<1>3. wait[Monitor] # None => doing'[wait[Monitor].arg] = "idle"
  BY <1>1, <1>2, ReapedIdle
<1>4. PICK att \in SUBSET Slots : \E rec : Sent(att, {}, rec, inbox)
  <2>1. PICK rec : rec = <<>>
    OBVIOUS
  <2> QED BY <1>0, EndShape
<1>5. controls \cap attached' \subseteq controls' /\ controls' \subseteq controls
  BY <1>1
<1> QED BY <1>1, <1>2, <1>3, <1>4, <1>5, StopsTalk

-----------------------------------------------------------------------------
\* Steps that send nothing and after which everybody who was attached still is.

LEMMA ClientsStay ==
  ASSUME ClientInv, UNCHANGED <<rev, generation, stream, wait, attached>>,
         written' \in [Slots -> Nat], \A c \in Slots : written'[c] <= Len(stream[c]),
         mind' \in [Slots -> Minds(generation)], inbox' \in [Slots -> Seq(Inputs(generation))],
         \A c \in Slots \ attached : mind'[c] = Stranger /\ inbox'[c] = <<>>
  PROVE  ClientInv'
<1>1. PICK n, g : n = rev /\ g = generation
  OBVIOUS
<1>2. \A t \in Threads : wait[t] # None => wait[t] \in WaitsBy(n, g)
  BY <1>1 DEF ClientInv
<1>3. g \in Nat /\ stream \in [Slots -> Seq(RecordsBy(n, g))]
  BY <1>1 DEF ClientInv
<1>4. rev' = n /\ generation' = g
  BY <1>1
<1> QED BY <1>1, <1>2, <1>3, <1>4 DEF ClientInv

LEMMA PopTalk ==
  ASSUME IInv, TalkInv, NEW c \in Slots, inbox[c] # <<>>, Pop(c), UNCHANGED <<rev, generation, wait>>
  PROVE  ClientInv' /\ InboxInv'
<1>0. /\ Sets /\ OneController /\ ClientInv /\ InboxInv /\ generation \in Nat
      /\ \A d \in Slots : inbox[d] \in Seq(Inputs(generation))
  BY TalkFacts
<1>1. PICK g \in Nat : g = generation
  BY <1>0
<1>2. PICK s : s = inbox[c] /\ s \in Seq(Inputs(g)) /\ s # <<>> /\ Rising(s)
  BY <1>0, <1>1 DEF InboxInv
<1>3. Tail(s) \in Seq(Inputs(g)) /\ Rising(Tail(s)) /\ (Recent(s, g) => Recent(Tail(s), g))
  BY <1>2, PopInputs
<1>4. /\ inbox' = [inbox EXCEPT ![c] = Tail(s)]
      /\ UNCHANGED <<attached, controls, stream, written, mind>>
  BY <1>2 DEF Pop, Popped
<1>5. c \in attached
  BY <1>2, <1>0 DEF ClientInv
<1>6. inbox' \in [Slots -> Seq(Inputs(g))] /\ inbox'[c] = Tail(s) /\ \A d \in Slots \ {c} : inbox'[d] = inbox[d]
  BY <1>0, <1>1, <1>3, <1>4 DEF ClientInv
<1>7. ClientInv'
  <2>1. /\ written' \in [Slots -> Nat] /\ \A d \in Slots : written'[d] <= Len(stream[d])
        /\ mind' \in [Slots -> Minds(generation)]
    BY <1>0, <1>4 DEF ClientInv
  <2>2. \A d \in Slots \ attached : mind'[d] = Stranger /\ inbox'[d] = <<>>
    BY <1>0, <1>4, <1>5, <1>6 DEF ClientInv
  <2> QED BY <1>0, <1>1, <1>4, <1>6, <2>1, <2>2, ClientsStay
<1>8. InboxInv'
  BY <1>0, <1>1, <1>2, <1>3, <1>4, <1>6 DEF InboxInv
<1> QED BY <1>7, <1>8

LEMMA ConnectTalk ==
  ASSUME IInv, TalkInv, NEW c \in Slots, Connect(c)
  PROVE  ClientInv' /\ InboxInv' /\ InputInv' /\ LoopInv'
<1>0. /\ Sets /\ ClientInv /\ InboxInv /\ InputInv /\ LoopInv
      /\ \A d \in Slots : wait[d] # None => doing[d] = "idle" /\ d \in used
  BY TalkFacts
<1>1. /\ UNCHANGED <<rev, generation, stream, wait, attached, written, mind, inbox, controls, inputLock>>
      /\ wait[Monitor] = None /\ c \notin used /\ used' = used \cup {c} /\ stopped' = stopped \ {c}
      /\ doing' = [doing EXCEPT ![c] = "hello"]
  BY DEF Connect, hostVars, waitVars
<1>2. ClientInv'
  BY <1>0, <1>1, ClientsStay DEF ClientInv
<1>3. InboxInv'
  BY <1>0, <1>1 DEF InboxInv
<1>4. InputInv'
  BY <1>0, <1>1 DEF InputInv, Sets
<1>5. LoopInv'
  BY <1>0, <1>1 DEF LoopInv, Sets
<1> QED BY <1>2, <1>3, <1>4, <1>5

LEMMA DeliverTalk ==
  ASSUME IInv, TalkInv, NEW c \in Slots, Deliver(c)
  PROVE  ClientInv' /\ InboxInv' /\ InputInv' /\ LoopInv'
<1>0. /\ Sets /\ ClientInv /\ InboxInv /\ InputInv /\ LoopInv /\ generation \in Nat /\ rev \in Nat
  BY TalkFacts
<1>1. /\ UNCHANGED <<rev, generation, stream, wait, attached, inbox, controls, inputLock, used, stopped, doing>>
      /\ written[c] < Len(stream[c]) /\ written' = [written EXCEPT ![c] = @ + 1]
  BY DEF Deliver, hostVars, slotVars, talkVars, waitVars
<1>2. PICK g \in Nat, n \in Nat : g = generation /\ n = rev
  BY <1>0
<1>3. PICK s \in Seq(RecordsBy(n, g)) : s = stream[c]
  BY <1>0, <1>2 DEF ClientInv
<1>4. PICK k \in Nat : k = written[c] /\ k < Len(s)
  BY <1>0, <1>1, <1>3 DEF ClientInv
<1>5. s[k + 1] \in RecordsBy(n, g)
  <2>1. k + 1 \in 1..Len(s)
    BY <1>4
  <2> QED BY <2>1
<1>6. PICK r \in RecordsBy(n, g) : r = s[k + 1]
  BY <1>5
<1>7. c \in attached
  BY <1>0, <1>3, <1>4 DEF Sets, Absent
<1>8. written' \in [Slots -> Nat] /\ \A d \in Slots : written'[d] <= Len(stream[d])
  BY <1>0, <1>1, <1>3, <1>4 DEF ClientInv
<1>9. mind' \in [Slots -> Minds(g)] /\ \A d \in Slots \ {c} : mind'[d] = mind[d]
  <2>1. CASE r.type # "role"
    <3>1. mind' = mind
      BY <1>3, <1>4, <1>6, <2>1 DEF Deliver
    <3> QED BY <1>0, <1>2, <3>1 DEF ClientInv
  <2>2. CASE r.type = "role"
    <3>1. r.gen \in 0..g /\ r.controls \in BOOLEAN
      BY <2>2 DEF RecordsBy
    <3>2. PICK m \in Minds(g) : m = mind[c]
      BY <1>0, <1>2 DEF ClientInv
    <3>3. PICK a \in BOOLEAN, b \in BOOLEAN : a = ~r.controls /\ b = (m.pending /\ r.gen = m.gen)
      <4>1. (~r.controls) \in BOOLEAN /\ (m.pending /\ r.gen = m.gen) \in BOOLEAN
        OBVIOUS
      <4> QED BY <4>1, Zenon
    <3>4. mind' = [mind EXCEPT ![c] = [gen |-> r.gen, viewer |-> a, pending |-> b]]
      BY <1>3, <1>4, <1>6, <2>2, <3>2, <3>3 DEF Deliver
    <3>5. [gen |-> r.gen, viewer |-> a, pending |-> b] \in Minds(g)
      BY <3>1 DEF Minds
    <3> QED BY <1>0, <1>2, <3>4, <3>5 DEF ClientInv
  <2> QED BY <2>1, <2>2
<1>10. ClientInv'
  <2>1. inbox' \in [Slots -> Seq(Inputs(generation))] /\ mind' \in [Slots -> Minds(generation)]
    BY <1>0, <1>1, <1>2, <1>9 DEF ClientInv
  <2>2. \A d \in Slots \ attached : mind'[d] = Stranger /\ inbox'[d] = <<>>
    BY <1>0, <1>1, <1>7, <1>9 DEF ClientInv
  <2> QED BY <1>0, <1>1, <1>8, <2>1, <2>2, ClientsStay
<1>11. InboxInv'
  BY <1>0, <1>1 DEF InboxInv
<1>12. InputInv'
  BY <1>0, <1>1 DEF InputInv
<1>13. LoopInv'
  BY <1>0, <1>1 DEF LoopInv
<1> QED BY <1>10, <1>11, <1>12, <1>13

\* Input that is typed now comes after all that its Client sent, and is recent.
LEMMA TypedInputs ==
  ASSUME NEW g \in Nat, NEW s \in Seq(Inputs(g)), NEW more \in Seq(Inputs(g)), Rising(s),
         \A i \in 1..Len(more) : more[i].type = "INPUT" => more[i].gen = g
  PROVE  /\ s \o more \in Seq(Inputs(g)) /\ Rising(s \o more) /\ (Recent(s, g) => Recent(s \o more, g))
         /\ s # <<>> => s \o more # <<>> /\ Head(s \o more) = Head(s)
<1>1. PICK u \in Seq(Inputs(g)) : u = s \o more
  <2>1. s \o more \in Seq(Inputs(g))
    OBVIOUS
  <2> QED BY <2>1, Zenon
<1>2. /\ Len(u) = Len(s) + Len(more) /\ Len(s) \in Nat /\ Len(more) \in Nat /\ Len(u) \in Nat
      /\ \A i \in 1..Len(s) : u[i] = s[i]
      /\ \A i \in 1..Len(more) : u[Len(s) + i] = more[i]
  BY <1>1
<1>3. ASSUME NEW j \in 1..Len(u), ~(j <= Len(s)), u[j].type = "INPUT" PROVE u[j].gen = g
  <2>1. PICK i \in 1..Len(more) : j = Len(s) + i
    <3>1. j - Len(s) \in 1..Len(more)
      BY <1>2, <1>3
    <3> QED BY <1>2, <3>1
  <2> QED BY <1>2, <1>3, <2>1
<1>4. \A i \in 1..Len(u) : u[i].gen \in 0..g
  <2>1. \A i \in 1..Len(u) : u[i] \in Inputs(g)
    OBVIOUS
  <2> QED BY <2>1 DEF Inputs
<1>5. Rising(u)
  <2>1. ASSUME NEW i \in 1..Len(u), NEW j \in 1..Len(u), i < j, u[j].type = "INPUT" PROVE u[i].gen <= u[j].gen
    <3>1. CASE j <= Len(s)
      <4>1. i \in 1..Len(s) /\ j \in 1..Len(s)
        BY <1>2, <2>1, <3>1
      <4>2. u[i] = s[i] /\ u[j] = s[j]
        BY <1>2, <4>1
      <4> QED BY <2>1, <4>1, <4>2 DEF Rising
    <3>2. CASE ~(j <= Len(s))
      <4>1. u[j].gen = g
        BY <1>3, <2>1, <3>2
      <4>2. u[i].gen \in 0..g
        BY <1>4
      <4> QED BY <4>1, <4>2
    <3> QED BY <3>1, <3>2
  <2> QED BY <2>1 DEF Rising
<1>6. ASSUME Recent(s, g) PROVE Recent(u, g)
  <2>1. ASSUME NEW i \in 1..Len(u), u[i].type = "INPUT" PROVE g <= u[i].gen + 1
    <3>1. CASE i <= Len(s)
      <4>1. i \in 1..Len(s)
        BY <1>2, <3>1
      <4>2. u[i] = s[i]
        BY <1>2, <4>1
      <4> QED BY <1>6, <2>1, <4>1, <4>2 DEF Recent
    <3>2. CASE ~(i <= Len(s))
      <4>1. u[i].gen = g
        BY <1>3, <2>1, <3>2
      <4> QED BY <4>1
    <3> QED BY <3>1, <3>2
  <2> QED BY <2>1 DEF Recent
<1>7. ASSUME s # <<>> PROVE u # <<>> /\ Head(u) = Head(s)
  <2>1. Len(s) > 0 /\ Len(u) > 0
    BY <1>2, <1>7
  <2>2. Head(s) = s[1] /\ Head(u) = u[1] /\ 1 \in 1..Len(s) /\ u # <<>>
    BY <1>7, <2>1
  <2> QED BY <1>2, <2>2
<1> QED BY <1>1, <1>5, <1>6, <1>7

LEMMA TypesTalk ==
  ASSUME IInv, TalkInv, NEW c \in Slots, Types(c)
  PROVE  ClientInv' /\ InboxInv' /\ InputInv' /\ LoopInv'
<1>0. /\ Sets /\ ClientInv /\ InboxInv /\ InputInv /\ LoopInv /\ generation \in Nat
  BY TalkFacts
<1>1. /\ UNCHANGED <<rev, generation, stream, wait, attached, controls, inputLock, used, stopped, doing, written>>
      /\ c \in attached
  BY DEF Types, hostVars, slotVars, talkVars, waitVars
<1>2. PICK g \in Nat : g = generation
  BY <1>0
<1>3. PICK s \in Seq(Inputs(g)) : s = inbox[c] /\ Rising(s)
  BY <1>0, <1>2 DEF ClientInv, InboxInv
<1>4. PICK m \in Minds(g) : m = mind[c]
  BY <1>0, <1>2 DEF ClientInv
<1>5. PICK input \in Inputs(g) : input = [type |-> "INPUT", gen |-> g]
  <2>1. [type |-> "INPUT", gen |-> g] \in Inputs(g)
    BY DEF Inputs
  <2> QED BY <2>1, Zenon
<1>6. PICK take \in Inputs(g) : take = [type |-> "TAKE", gen |-> m.gen]
  BY DEF Inputs, Minds
<1>7. PICK more \in Seq(Inputs(g)) :
        /\ \A i \in 1..Len(more) : more[i].type = "INPUT" => more[i].gen = g
        /\ inbox' = [inbox EXCEPT ![c] = s \o more]
        /\ mind' = mind \/ mind' = [mind EXCEPT ![c].pending = TRUE]
  <2>1. CASE m.viewer /\ ~m.pending
    <3>0. <<take, input>> \in Seq(Inputs(g))
      OBVIOUS
    <3>1. PICK more \in Seq(Inputs(g)) : more = <<take, input>>
      BY <3>0, Zenon
    <3>2. \A i \in 1..Len(more) : more[i].type = "INPUT" => more[i].gen = g
      BY <1>5, <1>6, <3>1
    <3>3. inbox' = [inbox EXCEPT ![c] = s \o more] /\ mind' = [mind EXCEPT ![c].pending = TRUE]
      BY <1>2, <1>3, <1>4, <1>5, <1>6, <2>1, <3>1 DEF Types
    <3> QED BY <3>2, <3>3
  <2>2. CASE ~(m.viewer /\ ~m.pending)
    <3>0. <<input>> \in Seq(Inputs(g))
      OBVIOUS
    <3>1. PICK more \in Seq(Inputs(g)) : more = <<input>>
      BY <3>0, Zenon
    <3>2. \A i \in 1..Len(more) : more[i].type = "INPUT" => more[i].gen = g
      BY <1>5, <3>1
    <3>3. Append(s, input) = s \o more
      BY <3>1
    <3>4. inbox' = [inbox EXCEPT ![c] = Append(s, input)] /\ mind' = mind
      BY <1>2, <1>3, <1>4, <1>5, <2>2 DEF Types
    <3> QED BY <3>2, <3>3, <3>4
  <2> QED BY <2>1, <2>2
<1>8. PICK u \in Seq(Inputs(g)) : /\ u = s \o more /\ Rising(u) /\ (Recent(s, g) => Recent(u, g))
                                  /\ s # <<>> => u # <<>> /\ Head(u) = Head(s)
  BY <1>3, <1>7, TypedInputs
<1>9. inbox' \in [Slots -> Seq(Inputs(g))] /\ inbox'[c] = u /\ \A d \in Slots \ {c} : inbox'[d] = inbox[d]
  BY <1>0, <1>2, <1>7, <1>8 DEF ClientInv
<1>10. mind' \in [Slots -> Minds(g)] /\ \A d \in Slots \ {c} : mind'[d] = mind[d]
  BY <1>0, <1>2, <1>7 DEF ClientInv, Minds
<1>11. ClientInv'
  <2>1. /\ inbox' \in [Slots -> Seq(Inputs(generation))] /\ mind' \in [Slots -> Minds(generation)]
        /\ written' \in [Slots -> Nat] /\ \A d \in Slots : written'[d] <= Len(stream[d])
    BY <1>0, <1>1, <1>2, <1>9, <1>10 DEF ClientInv
  <2>2. \A d \in Slots \ attached : mind'[d] = Stranger /\ inbox'[d] = <<>>
    BY <1>0, <1>1, <1>9, <1>10 DEF ClientInv
  <2> QED BY <1>0, <1>1, <2>1, <2>2, ClientsStay
<1>12. InboxInv'
  BY <1>0, <1>1, <1>2, <1>3, <1>8, <1>9 DEF InboxInv
<1>13. InputInv'
  BY <1>0, <1>1, <1>3, <1>8, <1>9 DEF InputInv
<1>14. LoopInv'
  BY <1>0, <1>1 DEF LoopInv
<1> QED BY <1>11, <1>12, <1>13, <1>14

\* A step in which the thread of slot c turns to something else, and nothing else changes.
LEMMA TurnsTalk ==
  ASSUME IInv, TalkInv, NEW c \in used \ stopped, wait[c] = None, NEW p \in {"idle", "input", "close", "detach"},
         UNCHANGED <<rev, generation, wait, used, clientVars>>, doing' = [doing EXCEPT ![c] = p]
  PROVE  ClientInv' /\ InboxInv' /\ LoopInv'
<1>0. /\ Sets /\ ClientInv /\ InboxInv /\ LoopInv /\ c \in Slots
      /\ \A d \in Slots : wait[d] # None => doing[d] = "idle" /\ d \in used
  BY TalkFacts
<1>1. ClientInv'
  BY <1>0, ClientsStay DEF ClientInv, clientVars
<1>2. InboxInv'
  BY <1>0 DEF InboxInv, clientVars
<1>3. wait[Monitor] # None => doing'[wait[Monitor].arg] = "idle"
  BY <1>0, ReapedIdle
<1>4. LoopInv'
  BY <1>0, <1>3 DEF LoopInv, Sets
<1> QED BY <1>1, <1>2, <1>4

LEMMA StartCloseTalk ==
  ASSUME IInv, TalkInv, NEW c \in Slots, StartClose(c)
  PROVE  ClientInv' /\ InboxInv' /\ InputInv' /\ LoopInv'
<1>0. Sets /\ InputInv
  BY TalkFacts
<1>1. /\ c \in used \ stopped /\ wait[c] = None
      /\ UNCHANGED <<rev, generation, wait, used, clientVars, inputLock>>
  BY DEF StartClose, Idle, hostVars, slotVars, waitVars
<1>2. PICK p \in {"close", "detach"} : doing' = [doing EXCEPT ![c] = p]
  BY DEF StartClose
<1>3. InputInv'
  BY <1>0, <1>1, <1>2 DEF InputInv, Sets, clientVars
<1> QED BY <1>1, <1>2, <1>3, TurnsTalk

LEMMA RefuseTakeTalk ==
  ASSUME IInv, TalkInv, NEW c \in Slots, RefuseTake(c)
  PROVE  ClientInv' /\ InboxInv' /\ InputInv' /\ LoopInv'
<1>0. Sets /\ InputInv /\ LoopInv /\ None \notin Slots
  BY TalkFacts
<1>1. /\ inbox[c] # <<>> /\ Pop(c) /\ inputLock = None
      /\ UNCHANGED <<rev, generation, wait, used, doing>>
  BY DEF RefuseTake, Reads, hostVars, slotVars, talkVars, waitVars
<1>2. ClientInv' /\ InboxInv'
  BY <1>1, PopTalk
<1>3. InputInv'
  BY <1>0, <1>1 DEF InputInv
<1>4. LoopInv'
  BY <1>0, <1>1 DEF LoopInv
<1> QED BY <1>2, <1>3, <1>4

LEMMA StartInputTalk ==
  ASSUME IInv, TalkInv, NEW c \in Slots, StartInput(c)
  PROVE  ClientInv' /\ InboxInv' /\ InputInv' /\ LoopInv'
<1>0. Sets /\ InputInv /\ LoopInv /\ None \notin Slots
  BY TalkFacts
<1>1. /\ inbox[c] # <<>> /\ Head(inbox[c]).type = "INPUT" /\ inputLock = None /\ c \in used \ stopped /\ wait[c] = None
      /\ UNCHANGED <<rev, generation, wait, used>>
  BY DEF StartInput, Reads, Idle, hostVars, slotVars, waitVars
<1>2. CASE c \in controls
  <2>1. doing' = [doing EXCEPT ![c] = "input"] /\ inputLock' = c /\ UNCHANGED clientVars
    BY <1>2 DEF StartInput
  <2>2. ClientInv' /\ InboxInv' /\ LoopInv'
    BY <1>1, <2>1, TurnsTalk
  <2>3. InputInv'
    BY <1>0, <1>1, <1>2, <2>1 DEF InputInv, Sets, clientVars
  <2> QED BY <2>2, <2>3
<1>3. CASE c \notin controls
  <2>1. Pop(c) /\ UNCHANGED talkVars
    BY <1>3 DEF StartInput
  <2>2. ClientInv' /\ InboxInv'
    BY <1>1, <2>1, PopTalk
  <2>3. InputInv'
    BY <1>0, <1>1, <2>1 DEF InputInv, talkVars
  <2>4. LoopInv'
    BY <1>0, <1>1, <2>1 DEF LoopInv, talkVars
  <2> QED BY <2>2, <2>3, <2>4
<1> QED BY <1>2, <1>3

LEMMA FinishInputTalk ==
  ASSUME IInv, TalkInv, NEW c \in Slots, FinishInput(c)
  PROVE  ClientInv' /\ InboxInv' /\ InputInv' /\ LoopInv'
<1>0. /\ Sets /\ ClientInv /\ InboxInv /\ InputInv /\ LoopInv /\ None \notin Slots
      /\ \A d \in Slots : wait[d] # None => doing[d] = "idle" /\ d \in used
  BY TalkFacts
<1>1. /\ doing[c] = "input" /\ doing' = [doing EXCEPT ![c] = "idle"] /\ inputLock' = None
      /\ UNCHANGED <<rev, generation, wait, used>>
  BY DEF FinishInput, hostVars, slotVars, waitVars
<1>2. inputLock = c /\ (c \notin stopped => inbox[c] # <<>>)
  BY <1>0, <1>1 DEF InputInv
<1>3. ClientInv' /\ InboxInv'
  <2>1. CASE c \in stopped
    <3>1. UNCHANGED clientVars
      BY <2>1 DEF FinishInput
    <3>2. ClientInv'
      BY <1>0, <1>1, <3>1, ClientsStay DEF ClientInv, clientVars
    <3> QED BY <1>0, <1>1, <3>1, <3>2 DEF InboxInv, clientVars
  <2>2. CASE c \notin stopped
    <3>1. Pop(c)
      BY <2>2 DEF FinishInput
    <3> QED BY <1>1, <1>2, <2>2, <3>1, PopTalk
  <2> QED BY <2>1, <2>2
<1>4. InputInv'
  <2>1. \A d \in Slots : doing'[d] # "input"
    BY <1>0, <1>1, <1>2 DEF InputInv, Sets
  <2> QED BY <2>1 DEF InputInv
<1>5. LoopInv'
  BY <1>0, <1>1 DEF LoopInv, Sets
<1> QED BY <1>3, <1>4, <1>5

LEMMA MonitorTalk ==
  ASSUME IInv, TalkInv, MonitorAlone \/ UNCHANGED vars
  PROVE  ClientInv' /\ InboxInv' /\ InputInv' /\ LoopInv'
<1>0. ClientInv /\ InboxInv /\ InputInv /\ LoopInv
  BY TalkFacts
<1>1. UNCHANGED <<rev, generation, stream, wait, attached, written, mind, inbox, controls, inputLock, used, stopped, doing>>
  BY DEF MonitorAlone, SaveSnapshot, SaveFails, ReadFlags, Publish, vars, hostVars, slotVars, clientVars, talkVars, waitVars
<1>2. ClientInv'
  BY <1>0, <1>1, ClientsStay DEF ClientInv
<1>3. InboxInv'
  BY <1>0, <1>1 DEF InboxInv
<1>4. InputInv'
  BY <1>0, <1>1 DEF InputInv
<1>5. LoopInv'
  BY <1>0, <1>1 DEF LoopInv
<1> QED BY <1>2, <1>3, <1>4, <1>5

-----------------------------------------------------------------------------
LEMMA WorkStep == IInv /\ TalkInv /\ [Next]_vars => WorkInv'
<1> SUFFICES ASSUME IInv, TalkInv, [Next]_vars PROVE WorkInv'
  OBVIOUS
<1>0. WorkInv /\ Sets /\ WaitInv /\ LoopInv
  BY TalkFacts
<1> USE DEF hostVars, slotVars, talkVars
<1>1. ASSUME NEW t, Broadcast(t) PROVE WorkInv'
  BY <1>0, <1>1 DEF Broadcast, WorkInv
<1>2. ASSUME NEW t \in Threads, Resume(t) \/ Stall(t) PROVE WorkInv'
  <2>1. PICK stalled : GoOn(t, stalled) /\ wait[t] # None
    BY <1>2 DEF Resume, Stall
  <2>2. doing' = doing
    BY <2>1 DEF GoOn
  <2>3. used' = used \/ (wait[t].op = "reap" /\ used' = used \ {wait[t].arg})
    BY <2>1 DEF GoOn, Proceed, Free
  <2>4. wait[t].op = "reap" => doing[wait[t].arg] = "idle"
    BY <1>0, <2>1 DEF WaitInv, Waiter, LoopInv
  <2> QED BY <1>0, <2>2, <2>3, <2>4 DEF WorkInv
<1>3. ASSUME NEW c \in Slots, Connect(c) PROVE WorkInv'
  BY <1>0, <1>3 DEF Connect, WorkInv, Sets
<1>4. ASSUME NEW c \in Slots, NEW size, Attach(c, size) \/ TakeControl(c, size) PROVE WorkInv'
  BY <1>0, <1>4 DEF Attach, TakeControl, WorkInv, Sets
<1>5. ASSUME NEW c \in Slots, Clear(c) \/ Resize(c) \/ Disconnect(c) \/ WriterFails(c) \/ Deliver(c) \/ Types(c)
                              \/ RefuseTake(c) PROVE WorkInv'
  BY <1>0, <1>1, <1>5 DEF Clear, Resize, Disconnect, WriterFails, Deliver, Types, RefuseTake, WorkInv
<1>6. ASSUME NEW c \in Slots, StartInput(c) \/ FinishInput(c) \/ StartClose(c) PROVE WorkInv'
  BY <1>0, <1>6 DEF StartInput, FinishInput, StartClose, Reads, Idle, WorkInv, Sets
<1>7. ASSUME NEW c \in Slots, CloseDetaches(c) \/ CloseEnds(c) PROVE WorkInv'
  BY <1>0, <1>7 DEF CloseDetaches, CloseEnds, WorkInv, Sets
<1>8. ASSUME NEW c \in Slots, NEW from, ControlClose(c, from) PROVE WorkInv'
  BY <1>0, <1>8 DEF ControlClose, WorkInv, Sets
<1>9. ASSUME NEW c \in Slots, Reap(c) PROVE WorkInv'
  <2>1. doing' = [doing EXCEPT ![c] = "idle"] /\ (used' = used \/ used' = used \ {c})
    BY <1>9 DEF Reap, Free
  <2> QED BY <1>0, <2>1 DEF WorkInv, Sets
<1>10. CASE MonitorAlone \/ UNCHANGED vars
  BY <1>0, <1>10 DEF MonitorAlone, SaveSnapshot, SaveFails, ReadFlags, Publish, vars, WorkInv
<1> QED BY <1>1, <1>2, <1>3, <1>4, <1>5, <1>6, <1>7, <1>8, <1>9, <1>10 DEF Next, MonitorAlone

LEMMA TalkStep == IInv /\ TalkInv /\ [Next]_vars => TalkInv'
<1> SUFFICES ASSUME IInv, TalkInv, [Next]_vars PROVE TalkInv'
  OBVIOUS
<1>0. IInv' /\ Rest' /\ WorkInv'
  BY NextInv, RestStep, WorkStep
<1>1. CASE Broadcast(Reader)
  <2>1. Reader \in Threads \ {Monitor} /\ Reader \notin Slots
    BY HostAssumption DEF Threads
  <2> QED BY <1>0, <1>1, <2>1, BroadcastTalk DEF TalkInv
<1>2. ASSUME NEW t \in Threads, Resume(t) \/ Stall(t) PROVE TalkInv'
  <2>1. PICK stalled : GoOn(t, stalled) /\ wait[t] # None
    BY <1>2 DEF Resume, Stall
  <2> QED BY <1>0, <2>1, GoOnTalk DEF TalkInv
<1>3. ASSUME NEW c \in Slots, Clear(c) PROVE TalkInv'
  <2>1. c \in Threads \ {Monitor} /\ Idle(c) /\ Broadcast(c)
    BY <1>3, HostAssumption DEF Threads, Clear
  <2> QED BY <1>0, <2>1, BroadcastTalk DEF TalkInv
<1>4. ASSUME NEW c \in Slots, Resize(c) \/ Connect(c) \/ Deliver(c) \/ Types(c) \/ Reap(c) PROVE TalkInv'
  BY <1>0, <1>4, ResizeTalk, ConnectTalk, DeliverTalk, TypesTalk, ReapTalk DEF TalkInv
<1>5. ASSUME NEW c \in Slots, NEW size \in {grid, grid + 1}, Attach(c, size) \/ TakeControl(c, size) PROVE TalkInv'
  BY <1>0, <1>5, AttachTalk, TakeControlTalk DEF TalkInv
<1>6. ASSUME NEW c \in Slots, RefuseTake(c) \/ StartInput(c) \/ FinishInput(c) \/ StartClose(c) PROVE TalkInv'
  BY <1>0, <1>6, RefuseTakeTalk, StartInputTalk, FinishInputTalk, StartCloseTalk DEF TalkInv
<1>7. ASSUME NEW c \in Slots, Disconnect(c) \/ WriterFails(c) \/ CloseDetaches(c) \/ CloseEnds(c) PROVE TalkInv'
  BY <1>0, <1>7, StopStepsTalk, CloseEndsTalk DEF TalkInv
<1>8. ASSUME NEW c \in Slots, NEW from \in Slots \cup {None}, ControlClose(c, from) PROVE TalkInv'
  BY <1>0, <1>8, ControlCloseTalk DEF TalkInv
<1>9. CASE MonitorAlone \/ UNCHANGED vars
  BY <1>0, <1>9, MonitorTalk DEF TalkInv
<1> QED BY <1>1, <1>2, <1>3, <1>4, <1>5, <1>6, <1>7, <1>8, <1>9 DEF Next, MonitorAlone

LEMMA InitTalk == Init => TalkInv
<1> SUFFICES ASSUME Init PROVE TalkInv
  OBVIOUS
<1>1. ClientInv
  <2>1. Stranger \in Minds(0) /\ \A n, g : <<>> \in Seq(RecordsBy(n, g)) /\ <<>> \in Seq(Inputs(g)) /\ Len(<<>>) = 0
    BY DEF Stranger, Minds
  <2> QED BY <2>1 DEF Init, ClientInv
<1>2. Rest
  <2>1. /\ stop \in BOOLEAN /\ grid \in Nat /\ inputLock \in Slots \cup {None} /\ recorded \in BOOLEAN
        /\ monitor \in {"idle", "save", "write", "publish"} /\ waited \in BOOLEAN
        /\ report \in BOOLEAN /\ owed \in Nat /\ unsaved \in BOOLEAN
    BY DEF Init
  <2>2. stopped \subseteq Slots /\ typed \in Nat /\ connections \in Nat /\ saved \in 0..rev
    BY DEF Init
  <2>3. kind \in [Slots -> {"local", "remote", "viewonly", None}] /\ epoch \in [Slots -> Nat]
    BY DEF Init
  <2> QED BY <2>1, <2>2, <2>3 DEF Rest
<1>3. InboxInv
  BY EmptyInbox DEF Init, InboxInv
<1>4. InputInv /\ LoopInv /\ WorkInv
  BY HostAssumption DEF Init, InputInv, LoopInv, WorkInv, Threads
<1> QED BY <1>1, <1>2, <1>3, <1>4 DEF TalkInv

LEMMA Talking == Spec => [](IInv /\ TalkInv)
<1>1. Init => IInv /\ TalkInv
  BY InitInv, InitTalk
<1>2. (IInv /\ TalkInv) /\ [Next]_vars => (IInv /\ TalkInv)'
  BY NextInv, TalkStep
<1> QED BY <1>1, <1>2, PTL DEF Spec

\* Every record, every wait and everything that was typed is of its type, and no queue was
\* read further than it goes.
THEOREM TypeCorrect == Spec => []TypeOK
<1>1. ASSUME IInv, TalkInv PROVE TypeOK
  <2>0. /\ Sets /\ OneController /\ WaitInv /\ ClientInv /\ Rest /\ rev \in Nat /\ generation \in Nat
    BY <1>1, TalkFacts
  <2>1. PICK n \in Nat, g \in Nat : n = rev /\ g = generation
    BY <2>0
  <2>2. \A s \in Seq(RecordsBy(n, g)) : s \in Seq(Records)
    <3>1. RecordsBy(n, g) \subseteq Records
      BY DEF RecordsBy, Records
    <3> QED BY <3>1
  <2>3. stream \in [Slots -> Seq(Records)] /\ \A c \in Slots : written[c] \in 0..Len(stream[c])
    <3>1. stream \in [Slots -> Seq(RecordsBy(n, g))]
      BY <2>0, <2>1 DEF ClientInv
    <3>2. stream \in [Slots -> Seq(Records)]
      BY <2>2, <3>1
    <3>3. \A c \in Slots : Len(stream[c]) \in Nat /\ written[c] \in Nat /\ written[c] <= Len(stream[c])
      BY <2>0, <3>1 DEF ClientInv
    <3> QED BY <3>2, <3>3
  <2>4. mind \in [Slots -> [gen : Nat, viewer : BOOLEAN, pending : BOOLEAN]]
    <3>1. Minds(g) \subseteq [gen : Nat, viewer : BOOLEAN, pending : BOOLEAN]
      BY DEF Minds
    <3> QED BY <2>0, <2>1, <3>1 DEF ClientInv
  <2>5. inbox \in [Slots -> Seq([type : {"TAKE", "INPUT"}, gen : Nat])]
    <3>1. PICK T : T = [type : {"TAKE", "INPUT"}, gen : Nat]
      OBVIOUS
    <3>2. Inputs(g) \subseteq T
      BY <3>1 DEF Inputs
    <3>3. PICK S : S = Inputs(g)
      OBVIOUS
    <3>4. \A s \in Seq(S) : s \in Seq(T)
      BY <3>2, <3>3
    <3>5. inbox \in [Slots -> Seq(T)]
      BY <2>0, <2>1, <3>3, <3>4 DEF ClientInv
    <3> QED BY <3>1, <3>5
  <2>6. wait \in [Threads -> Waits \cup {None}]
    <3>1. WaitsBy(n, g) \subseteq Waits
      BY <2>2 DEF WaitsBy, Waits
    <3>2. \A t \in Threads : wait[t] \in Waits \cup {None}
      BY <2>0, <2>1, <3>1 DEF ClientInv
    <3> QED BY <2>0, <3>2 DEF WaitInv
  <2>7. UNION {used, attached, controls, stopped, writers} \subseteq Slots /\ attached \subseteq used
        /\ controller \in Slots \cup {None}
    <3>1. used \subseteq Slots /\ attached \subseteq Slots /\ controls \subseteq Slots /\ stopped \subseteq Slots
          /\ writers \subseteq Slots /\ attached \subseteq used
      BY <2>0 DEF Sets, OneController, Rest
    <3>2. controller \in Slots \cup {None}
      BY <2>0, <3>1 DEF OneController
    <3> QED BY <3>1, <3>2
  <2> QED BY <2>0, <2>3, <2>4, <2>5, <2>6, <2>7 DEF TypeOK, Rest, Sets
<1> QED BY <1>1, Talking, PTL

\* When input reaches the shell its Client has control, and no other Client was given control
\* after it was typed: at most its own Client's request was granted.
THEOREM KeystrokeIsRecent == Spec => []NoLateKeystroke
<1>1. ASSUME IInv, TalkInv PROVE NoLateKeystroke
  <2>0. InboxInv /\ InputInv /\ generation \in Nat /\ \A c \in Slots : inbox[c] \in Seq(Inputs(generation))
    BY <1>1, TalkFacts
  <2> SUFFICES ASSUME NEW c \in Slots, doing[c] = "input", c \notin stopped
               PROVE  c \in controls /\ generation <= Head(inbox[c]).gen + 1
    BY DEF NoLateKeystroke
  <2>1. c \in controls /\ inbox[c] # <<>> /\ Head(inbox[c]).type = "INPUT" /\ Recent(inbox[c], generation)
    BY <2>0 DEF InputInv, InboxInv
  <2>2. 1 \in 1..Len(inbox[c]) /\ Head(inbox[c]) = inbox[c][1]
    BY <2>0, <2>1
  <2> QED BY <2>1, <2>2 DEF Recent
<1> QED BY <1>1, Talking, PTL

-----------------------------------------------------------------------------
\* Whoever has a snapshot gets every later output.

LEMMA Concat ==
  ASSUME NEW s, NEW r, IsSeq(s), IsSeq(r)
  PROVE  /\ \A x : Has(s, x) \/ Has(r, x) => Has(s \o r, x)
         /\ \A n : Replays(s \o r, n) => Replays(s, n) \/ Replays(r, n)
<1>1. PICK S : s \in Seq(S)
  BY DEF IsSeq
<1>2. PICK T : r \in Seq(T)
  BY DEF IsSeq
<1>3. PICK A : A = S \cup T
  OBVIOUS
<1>4. s \in Seq(A) /\ r \in Seq(A)
  <2>1. S \subseteq A /\ T \subseteq A
    BY <1>3
  <2> QED BY <1>1, <1>2, <2>1
<1>5. PICK u : u = s \o r
  OBVIOUS
<1>6. /\ Len(u) = Len(s) + Len(r) /\ Len(s) \in Nat /\ Len(r) \in Nat
      /\ \A i \in 1..Len(s) : u[i] = s[i] /\ i \in 1..Len(u)
      /\ \A i \in 1..Len(r) : u[Len(s) + i] = r[i] /\ Len(s) + i \in 1..Len(u)
  BY <1>4, <1>5
<1>7. \A i \in 1..Len(u) : (i \in 1..Len(s) /\ u[i] = s[i]) \/ \E j \in 1..Len(r) : u[i] = r[j]
  <2> SUFFICES ASSUME NEW i \in 1..Len(u), i \notin 1..Len(s) PROVE \E j \in 1..Len(r) : u[i] = r[j]
    BY <1>6
  <2>1. i - Len(s) \in 1..Len(r) /\ i = Len(s) + (i - Len(s))
    BY <1>6
  <2> QED BY <1>6, <2>1
<1>8. \A x : Has(s, x) \/ Has(r, x) => Has(u, x)
  BY <1>6 DEF Has
<1>9. \A n : Replays(u, n) => Replays(s, n) \/ Replays(r, n)
  <2> SUFFICES ASSUME NEW n, NEW i \in 1..Len(u), u[i].type = "replay", u[i].at = n
               PROVE  Replays(s, n) \/ Replays(r, n)
    BY DEF Replays
  <2>1. CASE i \in 1..Len(s) /\ u[i] = s[i]
    BY <2>1 DEF Replays
  <2>2. ASSUME NEW j \in 1..Len(r), u[i] = r[j] PROVE Replays(r, n)
    BY <2>2 DEF Replays
  <2> QED BY <1>7, <2>1, <2>2
<1> QED BY <1>5, <1>8, <1>9

LEMMA NoReplays ==
  /\ \A at : IsSeq(<<Output(at)>>) /\ Has(<<Output(at)>>, Output(at)) /\ \A n : ~Replays(<<Output(at)>>, n)
  /\ \A to, att, ctl, gen, size : \A c \in to :
       IsSeq(Roles(to, att, ctl, gen, size)[c]) /\ \A n : ~Replays(Roles(to, att, ctl, gen, size)[c], n)
  /\ \A c, gen, ctl, clients, size, at :
       IsSeq(Greeting(c, gen, ctl, clients, size, at))
       /\ \A n : Replays(Greeting(c, gen, ctl, clients, size, at), n) => n = at
<1>1. ASSUME NEW x PROVE IsSeq(<<x>>) /\ Has(<<x>>, x) /\ (x.type # "replay" => \A n : ~Replays(<<x>>, n))
  <2>1. PICK s : s = <<x>>
    OBVIOUS
  <2>2. s \in Seq({x}) /\ Len(s) = 1 /\ s[1] = x
    BY <2>1
  <2>3. 1..1 = {1}
    OBVIOUS
  <2>4. IsSeq(s)
    BY <2>2 DEF IsSeq
  <2>5. Has(s, x) /\ (x.type # "replay" => \A n : ~Replays(s, n))
    BY <2>2, <2>3 DEF Has, Replays
  <2> QED BY <2>1, <2>4, <2>5
<1>2. \A at : Output(at).type # "replay"
  BY DEF Output
<1>3. ASSUME NEW to, NEW att, NEW ctl, NEW gen, NEW size, NEW c \in to
      PROVE  IsSeq(Roles(to, att, ctl, gen, size)[c]) /\ \A n : ~Replays(Roles(to, att, ctl, gen, size)[c], n)
  <2>1. PICK n : Roles(to, att, ctl, gen, size)[c] = <<Role(rev, gen, c \in ctl, n, size)>>
    BY DEF Roles
  <2>2. PICK x : x = Role(rev, gen, c \in ctl, n, size)
    OBVIOUS
  <2>3. x.type # "replay"
    BY <2>2 DEF Role
  <2> QED BY <1>1, <2>1, <2>2, <2>3
<1>4. ASSUME NEW c, NEW gen, NEW ctl, NEW clients, NEW size, NEW at
      PROVE  IsSeq(Greeting(c, gen, ctl, clients, size, at))
             /\ \A n : Replays(Greeting(c, gen, ctl, clients, size, at), n) => n = at
  <2>a. PICK x, y, z : x = Welcome(rev) /\ y = Role(rev, gen, c \in ctl, clients, size) /\ z = Replay(at)
    OBVIOUS
  <2>1. /\ Greeting(c, gen, ctl, clients, size, at) = <<x, y, z>>
        /\ x.type # "replay" /\ y.type # "replay" /\ z.at = at
    BY <2>a DEF Greeting, Welcome, Role, Replay
  <2>2. PICK u : u = <<x, y, z>>
    OBVIOUS
  <2>3. u \in Seq({x, y, z}) /\ Len(u) = 3 /\ u[1] = x /\ u[2] = y /\ u[3] = z
    BY <2>2
  <2>4. IsSeq(u)
    BY <2>3 DEF IsSeq
  <2>5. \A n : Replays(u, n) => n = at
    <3>1. 1..3 = {1, 2, 3}
      OBVIOUS
    <3> QED BY <2>1, <2>3, <3>1 DEF Replays
  <2> QED BY <2>1, <2>2, <2>4, <2>5
<1> QED BY <1>1, <1>2, <1>3, <1>4

\* What a step that sends adds to the stream of a Client.
LEMMA SentMore ==
  ASSUME ClientInv, NEW att, NEW to, NEW rec, NEW boxes, Sent(att, to, rec, boxes), NEW c \in attached', c \in Slots,
         c \in to => IsSeq(rec[c])
  PROVE  /\ \A x : Has(stream[c], x) \/ (c \in to /\ Has(rec[c], x)) => Has(stream'[c], x)
         /\ \A n : Replays(stream'[c], n) => Replays(stream[c], n) \/ (c \in to /\ Replays(rec[c], n))
<1>1. IsSeq(stream[c])
  <2>1. stream[c] \in Seq(RecordsBy(rev, generation))
    BY DEF ClientInv
  <2> QED BY <2>1 DEF IsSeq
<1>2. stream'[c] = IF c \in to THEN stream[c] \o rec[c] ELSE stream[c]
  BY DEF Sent
<1>3. CASE c \in to
  <2>1. PICK s, r : s = stream[c] /\ r = rec[c] /\ stream'[c] = s \o r
    BY <1>2, <1>3
  <2>2. IsSeq(s) /\ IsSeq(r)
    BY <1>1, <1>3, <2>1
  <2> QED BY <1>3, <2>1, <2>2, Concat
<1>4. CASE c \notin to
  BY <1>2, <1>4
<1> QED BY <1>3, <1>4

\* Whoever had a snapshot and gets what it got is still caught up, until rev grows.
LEMMA CaughtUpStays ==
  ASSUME NEW c, CaughtUp(c), rev' = rev, \A n \in Nat : Snapshot(c, n)' => Snapshot(c, n),
         \A at : Gets(c, at) => Gets(c, at)'
  PROVE  CaughtUp(c)'
<1>1. PICK now : now = rev'
  OBVIOUS
<1>2. ASSUME NEW n \in Nat, Snapshot(c, n)', NEW at \in (n + 1)..now PROVE Gets(c, at)'
  BY <1>1, <1>2 DEF CaughtUp
<1> QED BY <1>1, <1>2 DEF CaughtUp

\* A step that sends nothing.
LEMMA StaysOutput ==
  ASSUME OutputInv, rev' = rev, wait' = wait, attached' \subseteq attached, \A c \in attached' : stream'[c] = stream[c]
  PROVE  OutputInv'
<1>1. ASSUME NEW c \in attached' PROVE CaughtUp(c)'
  <2>1. CaughtUp(c) /\ stream'[c] = stream[c]
    BY DEF OutputInv
  <2>2. \A n \in Nat : Snapshot(c, n)' => Snapshot(c, n)
    BY <2>1 DEF Snapshot
  <2>3. \A at : Gets(c, at) => Gets(c, at)'
    BY <2>1 DEF Gets, Carries
  <2> QED BY <2>1, <2>2, <2>3, CaughtUpStays
<1>2. \A t \in Threads : wait'[t] # None => Owned(t, wait'[t])
  BY DEF OutputInv
<1>3. PICK att : att = attached' /\ \A c \in att : CaughtUp(c)'
  BY <1>1
<1> QED BY <1>2, <1>3 DEF OutputInv

\* A new wait that keeps what the other threads carry.
LEMMA WaitsOwned ==
  ASSUME OutputInv, NEW t \in Threads, NEW stuck, NEW rec, NEW op, NEW arg, Waiting(t, stuck, rec, op, arg),
         \A k \in stuck : \A n \in Nat : Replays(rec[k], n) => op = "attach" /\ k = t /\ arg = n
  PROVE  /\ \A u \in Threads : wait'[u] # None => Owned(u, wait'[u])
         /\ wait'[t] # None => wait'[t].op = op /\ wait'[t].arg = arg
         /\ \A u \in Threads \ {t} : wait'[u] = wait[u]
<1>1. \A u \in Threads \ {t} : wait'[u] = wait[u]
  BY DEF Waiting
<1>2. ASSUME wait'[t] # None
      PROVE  Owned(t, wait'[t]) /\ wait'[t].op = op /\ wait'[t].arg = arg
  <2>1. PICK k, rest : /\ k \in stuck
          /\ wait'[t] = [for |-> k, records |-> rec[k], op |-> op, arg |-> arg, rest |-> rest, epochs |-> epoch]
    BY <1>2 DEF Waiting
  <2>2. PICK w : w = wait'[t] /\ w.for = k /\ w.records = rec[k] /\ w.op = op /\ w.arg = arg
    BY <2>1
  <2>3. ASSUME NEW n \in Nat, Replays(w.records, n) PROVE w.op = "attach" /\ w.for = t /\ w.arg = n
    <3>1. Replays(rec[k], n)
      BY <2>2, <2>3
    <3> QED BY <2>1, <2>2, <3>1
  <2>4. Owned(t, w)
    BY <2>3 DEF Owned
  <2> QED BY <2>2, <2>4
<1> QED BY <1>1, <1>2 DEF OutputInv

\* A thread that did not wait keeps what the others carry.
LEMMA CarriedOn ==
  ASSUME NEW t, wait[t] = None, \A u \in Threads \ {t} : wait'[u] = wait[u], NEW c, NEW at,
         Has(stream[c], Output(at)) => Has(stream'[c], Output(at))
  PROVE  Gets(c, at) => Gets(c, at)'
<1>1. ASSUME NEW u \in Threads, Carries(u, c, at) PROVE Carries(u, c, at)'
  <2>1. u # t
    BY <1>1 DEF Carries
  <2> QED BY <1>1, <2>1 DEF Carries
<1> QED BY <1>1 DEF Gets

LEMMA BroadcastOutput ==
  ASSUME IInv, TalkInv, OutputInv, NEW t \in Threads, Broadcast(t)
  PROVE  OutputInv'
<1>0. /\ ClientInv /\ OneController /\ attached \subseteq Slots /\ rev \in Nat
  BY TalkFacts
<1>1. PICK rec, to, stuck :
        /\ rec = BroadcastRecords /\ stuck = Blocked(attached, controls) /\ to = attached \ stuck
        /\ Sent(attached, to, rec, inbox) /\ Waiting(t, stuck, rec, "output", None)
  BY BroadcastSends
<1>2. wait[t] = None /\ rev' = rev + 1
  BY DEF Broadcast
<1>3. PICK now \in Nat : now = rev + 1
  BY <1>0
<1>4. \A c \in attached : rec[c] = <<Output(now)>>
  BY <1>1, <1>3 DEF BroadcastRecords
<1>5. \A c \in attached : IsSeq(rec[c]) /\ Has(rec[c], Output(now)) /\ \A n : ~Replays(rec[c], n)
  BY <1>4, NoReplays
<1>6. stuck \subseteq attached /\ to \subseteq attached /\ attached' \subseteq attached
      /\ \A c \in stuck, k \in stuck : c = k
  BY <1>0, <1>1 DEF Blocked, Sent, OneController
<1>7. /\ \A u \in Threads : wait'[u] # None => Owned(u, wait'[u])
      /\ wait'[t] # None => wait'[t].op = "output" /\ wait'[t].arg = None
      /\ \A u \in Threads \ {t} : wait'[u] = wait[u]
  BY <1>1, <1>5, <1>6, WaitsOwned
<1>8. ASSUME NEW c \in attached', NEW n \in Nat, Snapshot(c, n)', NEW at \in (n + 1)..now PROVE Gets(c, at)'
  <2>0. c \in attached /\ c \in Slots /\ c \in Threads
    BY <1>0, <1>6 DEF Threads
  <2>1. /\ \A x : Has(stream[c], x) \/ (c \in to /\ Has(rec[c], x)) => Has(stream'[c], x)
        /\ \A m : Replays(stream'[c], m) => Replays(stream[c], m) \/ (c \in to /\ Replays(rec[c], m))
    BY <1>0, <1>1, <1>5, <2>0, SentMore
  <2>2. Snapshot(c, n)
    <3>1. CASE Replays(stream'[c], n)
      BY <1>5, <2>0, <2>1, <3>1 DEF Snapshot
    <3>2. CASE wait'[c] # None /\ wait'[c].op = "attach" /\ wait'[c].arg = n
      <4>1. c # t
        BY <1>7, <3>2
      <4>2. wait'[c] = wait[c]
        BY <1>7, <2>0, <4>1
      <4> QED BY <3>2, <4>2 DEF Snapshot
    <3> QED BY <1>8, <3>1, <3>2 DEF Snapshot
  <2>3. CASE at # now
    <3>1. at \in (n + 1)..rev
      BY <1>0, <1>3, <2>3
    <3>2. Gets(c, at)
      BY <2>0, <2>2, <3>1 DEF OutputInv, CaughtUp
    <3> QED BY <1>2, <1>7, <2>1, <3>2, CarriedOn
  <2>4. CASE at = now /\ c \in to
    BY <1>5, <2>0, <2>1, <2>4 DEF Gets
  <2>5. CASE at = now /\ c \notin to
    <3>1. c \in stuck
      BY <1>1, <2>0, <2>5
    <3>2. PICK k, rest : /\ k \in stuck /\ rest \in SUBSET Slots
            /\ wait'[t] = [for |-> k, records |-> rec[k], op |-> "output", arg |-> None, rest |-> rest, epochs |-> epoch]
      BY <1>1, <3>1 DEF Waiting
    <3>3. k = c
      BY <1>6, <3>1, <3>2
    <3>4. PICK w : w = wait'[t]
      OBVIOUS
    <3>5. w.for = c /\ w.records = <<Output(at)>> /\ w.op = "output"
      BY <1>4, <2>0, <2>5, <3>2, <3>3, <3>4
    <3>6. w # None
      <4>1. <<Output(now)>> \in Seq(Records)
        <5>1. Output(now) \in Records
          BY DEF Output, Records
        <5> QED BY <5>1
      <4>2. epoch \in [Slots -> Nat]
        BY TalkFacts
      <4>3. PICK r \in Seq(Records), later \in SUBSET Slots :
              w = [for |-> c, records |-> r, op |-> "output", arg |-> None, rest |-> later, epochs |-> epoch]
        BY <1>4, <2>0, <3>2, <3>3, <3>4, <4>1
      <4>4. w \in Waits
        BY <2>0, <4>2, <4>3 DEF Waits
      <4> QED BY <4>4, HostAssumption
    <3>7. Carries(t, c, at)'
      BY <3>4, <3>5, <3>6 DEF Carries
    <3> QED BY <3>7 DEF Gets
  <2> QED BY <2>3, <2>4, <2>5
<1>9. ASSUME NEW c \in attached' PROVE CaughtUp(c)'
  <2>1. rev' = now
    BY <1>2, <1>3
  <2> QED BY <1>8, <2>1 DEF CaughtUp
<1>10. PICK att : att = attached' /\ \A c \in att : CaughtUp(c)'
  BY <1>9
<1> QED BY <1>7, <1>10 DEF OutputInv

LEMMA RolesOutput ==
  ASSUME IInv, TalkInv, OutputInv, NEW t \in Threads, NEW ctl, NEW g, NEW size, NEW boxes, Nobody(boxes),
         NEW op, NEW arg, op # "attach", SendRoles(t, ctl, g, size, boxes, op, arg), wait[t] = None, rev' = rev
  PROVE  OutputInv'
<1>0. ClientInv /\ attached \subseteq Slots
  BY TalkFacts
<1>1. PICK rec, to, stuck :
        /\ rec = Roles(attached, attached, ctl, g, size) /\ stuck = Blocked(attached, ctl)
        /\ to = Reached(attached, ctl)
        /\ Sent(attached, to, rec, boxes) /\ Waiting(t, stuck, rec, op, arg)
  BY RolesSent
<1>2. \A c \in attached : IsSeq(rec[c]) /\ \A n : ~Replays(rec[c], n)
  BY <1>1, NoReplays
<1>3. stuck \subseteq attached /\ to \subseteq attached /\ attached' \subseteq attached
  BY <1>1 DEF Blocked, Reached, Sent
<1>4. /\ \A u \in Threads : wait'[u] # None => Owned(u, wait'[u])
      /\ wait'[t] # None => wait'[t].op = op /\ wait'[t].arg = arg
      /\ \A u \in Threads \ {t} : wait'[u] = wait[u]
  BY <1>1, <1>2, <1>3, WaitsOwned
<1>5. ASSUME NEW c \in attached' PROVE CaughtUp(c)'
  <2>0. c \in attached /\ c \in Slots /\ c \in Threads /\ CaughtUp(c)
    BY <1>0, <1>3 DEF Threads, OutputInv
  <2>1. /\ \A x : Has(stream[c], x) \/ (c \in to /\ Has(rec[c], x)) => Has(stream'[c], x)
        /\ \A m : Replays(stream'[c], m) => Replays(stream[c], m) \/ (c \in to /\ Replays(rec[c], m))
    BY <1>0, <1>1, <1>2, <2>0, SentMore
  <2>2. ASSUME NEW n \in Nat, Snapshot(c, n)' PROVE Snapshot(c, n)
    <3>1. CASE Replays(stream'[c], n)
      BY <1>2, <2>0, <2>1, <3>1 DEF Snapshot
    <3>2. CASE wait'[c] # None /\ wait'[c].op = "attach" /\ wait'[c].arg = n
      <4>1. c # t
        BY <1>4, <3>2
      <4>2. wait'[c] = wait[c]
        BY <1>4, <2>0, <4>1
      <4> QED BY <3>2, <4>2 DEF Snapshot
    <3> QED BY <2>2, <3>1, <3>2 DEF Snapshot
  <2>3. \A at : Gets(c, at) => Gets(c, at)'
    BY <1>4, <2>1, CarriedOn
  <2> QED BY <2>0, <2>2, <2>3, CaughtUpStays
<1>6. PICK att : att = attached' /\ \A c \in att : CaughtUp(c)'
  BY <1>5
<1> QED BY <1>4, <1>6 DEF OutputInv

LEMMA AttachOutput ==
  ASSUME IInv, TalkInv, OutputInv, NEW c \in Slots, NEW size, Attach(c, size)
  PROVE  OutputInv'
<1>0. /\ ClientInv /\ attached \subseteq Slots /\ Sets /\ LoopInv /\ rev \in Nat
      /\ \A d \in Slots : wait[d] # None => doing[d] = "idle" /\ d \in used
  BY TalkFacts
<1>1. PICK ctl, gen, own, rec, to, stuck :
        /\ ctl = AttachControls(c) /\ gen = AttachGeneration(c) /\ stuck = Blocked(attached, ctl)
        /\ own = Itself(c, stuck) /\ rec = AttachRecords(c, ctl, gen, own, size)
        /\ to = Reached(attached, ctl) \cup own
        /\ Sent(attached \cup {c}, to, rec, inbox) /\ Waiting(c, stuck, rec, "attach", rev)
  BY AttachSends
<1>2. doing[c] = "hello" /\ rev' = rev
  BY DEF Attach
<1>3. c \notin attached /\ wait[c] = None /\ stream[c] = <<>> /\ c \in Threads
  BY <1>0, <1>2 DEF Sets, Absent, Threads
<1>4. \A d \in attached : IsSeq(rec[d]) /\ \A n : ~Replays(rec[d], n)
  <2>1. \A d \in attached : rec[d] = Roles(attached, attached \cup {c}, ctl, gen, size)[d]
    BY <1>1, <1>3 DEF AttachRecords
  <2> QED BY <2>1, NoReplays
<1>5. c \in own => IsSeq(rec[c]) /\ \A n : Replays(rec[c], n) => n = rev
  <2>1. PICK some : some = Cardinality((attached \cup {c}) \ {e \in attached \ ctl : Full(e, <<0>>)})
    OBVIOUS
  <2>2. c \in own => rec[c] = Greeting(c, gen, ctl, some, size, rev)
    BY <1>1, <2>1 DEF AttachRecords
  <2> QED BY <2>2, NoReplays
<1>6. stuck \subseteq attached /\ to \subseteq attached \cup own /\ attached' \subseteq attached \cup {c} /\ own \subseteq {c}
  BY <1>1 DEF Blocked, Reached, Sent, Itself
<1>7. /\ \A u \in Threads : wait'[u] # None => Owned(u, wait'[u])
      /\ wait'[c] # None => wait'[c].op = "attach" /\ wait'[c].arg = rev
      /\ \A u \in Threads \ {c} : wait'[u] = wait[u]
  BY <1>1, <1>3, <1>4, <1>6, WaitsOwned
<1>8. ASSUME NEW d \in attached', d # c PROVE CaughtUp(d)'
  <2>0. d \in attached /\ d \in Slots /\ d \in Threads /\ CaughtUp(d)
    BY <1>0, <1>6, <1>8 DEF Threads, OutputInv
  <2>1. /\ \A x : Has(stream[d], x) \/ (d \in to /\ Has(rec[d], x)) => Has(stream'[d], x)
        /\ \A m : Replays(stream'[d], m) => Replays(stream[d], m) \/ (d \in to /\ Replays(rec[d], m))
    BY <1>0, <1>1, <1>4, <2>0, SentMore
  <2>2. ASSUME NEW n \in Nat, Snapshot(d, n)' PROVE Snapshot(d, n)
    <3>1. wait'[d] = wait[d]
      BY <1>7, <1>8, <2>0
    <3> QED BY <1>4, <2>0, <2>1, <2>2, <3>1 DEF Snapshot
  <2>3. \A at : Gets(d, at) => Gets(d, at)'
    BY <1>3, <1>7, <2>1, CarriedOn
  <2> QED BY <1>2, <2>0, <2>2, <2>3, CaughtUpStays
<1>9. ASSUME c \in attached' PROVE CaughtUp(c)'
  <2>1. \A m : Replays(stream'[c], m) => Replays(stream[c], m) \/ (c \in to /\ Replays(rec[c], m))
    BY <1>0, <1>1, <1>3, <1>5, <1>6, <1>9, SentMore
  <2>2. \A m : ~Replays(stream[c], m)
    <3>1. 1..Len(<<>>) = {}
      OBVIOUS
    <3> QED BY <1>3, <3>1 DEF Replays
  <2>3. ASSUME NEW n \in Nat, Snapshot(c, n)' PROVE n = rev
    <3>1. CASE Replays(stream'[c], n)
      BY <1>3, <1>5, <1>6, <2>1, <2>2, <3>1
    <3>2. CASE wait'[c] # None /\ wait'[c].op = "attach" /\ wait'[c].arg = n
      BY <1>7, <3>2
    <3> QED BY <2>3, <3>1, <3>2 DEF Snapshot
  <2>4. PICK now \in Nat : now = rev /\ now = rev'
    BY <1>0, <1>2
  <2>5. ASSUME NEW n \in Nat, Snapshot(c, n)', NEW at \in (n + 1)..now PROVE FALSE
    BY <2>3, <2>4, <2>5
  <2> QED BY <2>4, <2>5 DEF CaughtUp
<1>10. PICK att : att = attached' /\ \A d \in att : CaughtUp(d)'
  BY <1>8, <1>9
<1> QED BY <1>7, <1>10 DEF OutputInv

\* A snapshot among the records r that a thread t with the wait w queues for slot c.
LateGood(t, w, c, r) ==
  /\ IsSeq(r) /\ \A n \in Nat : Replays(r, n) => w.op = "attach" /\ c = t /\ w.arg = n
  /\ c = w.for => r = w.records

LEMMA LateReplays ==
  ASSUME TalkInv, OutputInv, NEW t \in Threads, NEW w, w = wait[t], w # None, NEW att, NEW ctl, NEW due, NEW own,
         \A k \in own : k = t /\ w.op = "attach", NEW c, c \in ({w.for} \cap att) \cup due \cup own
  PROVE  LateGood(t, w, c, LateRecords(w, att, ctl, due, own)[c])
<1>0. Owned(t, w) /\ IsSeq(w.records)
  <2>1. w \in WaitsBy(rev, generation)
    BY DEF TalkInv, ClientInv
  <2>2. w.records \in Seq(RecordsBy(rev, generation))
    BY <2>1 DEF WaitsBy
  <2>3. Owned(t, w)
    BY DEF OutputInv
  <2> QED BY <2>2, <2>3 DEF IsSeq
<1>1. CASE c = w.for \/ w.op = "output"
  <2>1. LateRecords(w, att, ctl, due, own)[c] = w.records
    BY <1>1 DEF LateRecords
  <2>2. PICK r : r = w.records /\ IsSeq(r) /\ \A n \in Nat : Replays(r, n) => w.op = "attach" /\ w.for = t /\ w.arg = n
    BY <1>0 DEF Owned
  <2>3. w.op = "output" => w.op # "attach"
    OBVIOUS
  <2> QED BY <1>1, <2>1, <2>2, <2>3 DEF LateGood
<1>2. CASE ~(c = w.for \/ w.op = "output") /\ c \in own
  <2>1. PICK some : some = Cardinality(att \ {d \in due \ ctl : Full(d, <<0>>)})
    OBVIOUS
  <2>2. LateRecords(w, att, ctl, due, own)[c] = Greeting(c, generation, ctl, some, grid, w.arg)
    BY <1>2, <2>1 DEF LateRecords
  <2>3. PICK a : a = w.arg
    OBVIOUS
  <2>4. /\ IsSeq(Greeting(c, generation, ctl, some, grid, a))
        /\ \A n : Replays(Greeting(c, generation, ctl, some, grid, a), n) => n = a
    BY NoReplays
  <2> QED BY <1>2, <2>2, <2>3, <2>4 DEF LateGood
<1>3. CASE ~(c = w.for \/ w.op = "output") /\ c \notin own
  <2>1. LateRecords(w, att, ctl, due, own)[c] = Roles(due, att, ctl, generation, grid)[c] /\ c \in due
    BY <1>3 DEF LateRecords
  <2> QED BY <1>3, <2>1, NoReplays DEF LateGood
<1> QED BY <1>1, <1>2, <1>3

LEMMA GoOnOutput ==
  ASSUME IInv, TalkInv, OutputInv, NEW t \in Threads, NEW stalled, wait[t] # None, GoOn(t, stalled)
  PROVE  OutputInv'
<1>0. ClientInv /\ attached \subseteq Slots
  BY TalkFacts
<1>1. PICK w, gone, att, ctl, due, stuck, own, rec, held, to :
        /\ w = wait[t] /\ GoesOn(t, w, gone, att, ctl, due, stuck, own, rec, held, to)
        /\ held \subseteq due \cup own /\ due \subseteq att /\ own \subseteq att /\ to \subseteq att
        /\ Sent(att, to, rec, inbox) /\ Waiting(t, held, rec, w.op, w.arg)
  BY GoOnSends
<1>2. /\ att \subseteq attached /\ attached' \subseteq att /\ own \subseteq {t} /\ (own # {} => w.op = "attach")
      /\ rec = LateRecords(w, att, ctl, due, own) /\ {w.for} \cap att \subseteq to
      /\ to \subseteq ({w.for} \cap att) \cup due \cup own
  <2>1. att \subseteq attached /\ attached' \subseteq att
    BY <1>1 DEF GoesOn, Sent
  <2>2. own \subseteq {t} /\ (own # {} => w.op = "attach") /\ rec = LateRecords(w, att, ctl, due, own)
    BY <1>1 DEF GoesOn
  <2>3. {w.for} \cap att \subseteq to /\ to \subseteq ({w.for} \cap att) \cup due \cup own
    BY <1>1 DEF GoesOn, Reached
  <2> QED BY <2>1, <2>2, <2>3
<1>3. rev' = rev
  BY DEF GoOn
<1>4. ASSUME NEW c \in ({w.for} \cap att) \cup due \cup own
      PROVE  /\ IsSeq(rec[c]) /\ \A n \in Nat : Replays(rec[c], n) => w.op = "attach" /\ c = t /\ w.arg = n
             /\ c = w.for => rec[c] = w.records
  <2>1. LateGood(t, w, c, LateRecords(w, att, ctl, due, own)[c])
    <3>1. w = wait[t] /\ w # None
      BY <1>1
    <3>2. \A k \in own : k = t /\ w.op = "attach"
      BY <1>2
    <3>3. c \in ({w.for} \cap att) \cup due \cup own
      OBVIOUS
    <3> QED BY <3>1, <3>2, <3>3, LateReplays
  <2> QED BY <1>2, <2>1 DEF LateGood
<1>5. PICK op, arg : op = w.op /\ arg = w.arg
  OBVIOUS
<1>6. /\ \A u \in Threads : wait'[u] # None => Owned(u, wait'[u])
      /\ wait'[t] # None => wait'[t].op = op /\ wait'[t].arg = arg
      /\ \A u \in Threads \ {t} : wait'[u] = wait[u]
  <2>1. \A k \in held : \A n \in Nat : Replays(rec[k], n) => op = "attach" /\ k = t /\ arg = n
    BY <1>1, <1>4, <1>5
  <2>2. Waiting(t, held, rec, op, arg)
    BY <1>1, <1>5
  <2> QED BY <2>1, <2>2, WaitsOwned
<1>7. ASSUME NEW c \in attached' PROVE CaughtUp(c)'
  <2>0. c \in att /\ c \in attached /\ c \in Slots /\ c \in Threads /\ CaughtUp(c)
    BY <1>0, <1>2 DEF Threads, OutputInv
  <2>1. /\ \A x : Has(stream[c], x) \/ (c \in to /\ Has(rec[c], x)) => Has(stream'[c], x)
        /\ \A m : Replays(stream'[c], m) => Replays(stream[c], m) \/ (c \in to /\ Replays(rec[c], m))
    BY <1>0, <1>1, <1>2, <1>4, <2>0, SentMore
  <2>2. ASSUME NEW n \in Nat, Snapshot(c, n)' PROVE Snapshot(c, n)
    <3>1. CASE Replays(stream'[c], n)
      <4>1. CASE Replays(stream[c], n)
        BY <4>1 DEF Snapshot
      <4>2. CASE c \in to /\ Replays(rec[c], n)
        <5>1. w.op = "attach" /\ c = t /\ w.arg = n
          BY <1>2, <1>4, <4>2
        <5> QED BY <1>1, <5>1 DEF Snapshot
      <4> QED BY <2>1, <3>1, <4>1, <4>2
    <3>2. CASE wait'[c] # None /\ wait'[c].op = "attach" /\ wait'[c].arg = n
      <4>1. CASE c = t
        BY <1>1, <1>5, <1>6, <3>2, <4>1 DEF Snapshot
      <4>2. CASE c # t
        <5>1. wait'[c] = wait[c]
          BY <1>6, <2>0, <4>2
        <5> QED BY <3>2, <5>1 DEF Snapshot
      <4> QED BY <4>1, <4>2
    <3> QED BY <2>2, <3>1, <3>2 DEF Snapshot
  <2>3. ASSUME NEW at, Gets(c, at) PROVE Gets(c, at)'
    <3>1. CASE Has(stream[c], Output(at))
      BY <2>1, <3>1 DEF Gets
    <3>2. ASSUME NEW u \in Threads, Carries(u, c, at), u # t PROVE Gets(c, at)'
      <4>1. wait'[u] = wait[u]
        BY <1>6, <3>2
      <4> QED BY <3>2, <4>1 DEF Gets, Carries
    <3>3. CASE Carries(t, c, at)
      <4>1. w.records = <<Output(at)>> /\ w.for = c
        BY <1>1, <3>3 DEF Carries
      <4>2. c \in to /\ rec[c] = w.records
        BY <1>2, <1>4, <2>0, <4>1
      <4>3. Has(rec[c], Output(at))
        BY <4>1, <4>2, NoReplays
      <4> QED BY <2>1, <4>2, <4>3 DEF Gets
    <3> QED BY <2>3, <3>1, <3>2, <3>3 DEF Gets
  <2> QED BY <1>3, <2>0, <2>2, <2>3, CaughtUpStays
<1>8. PICK some : some = attached' /\ \A c \in some : CaughtUp(c)'
  BY <1>7
<1> QED BY <1>6, <1>8 DEF OutputInv

LEMMA OutputStep == IInv /\ TalkInv /\ OutputInv /\ [Next]_vars => OutputInv'
<1> SUFFICES ASSUME IInv, TalkInv, OutputInv, [Next]_vars PROVE OutputInv'
  OBVIOUS
<1>0. /\ Sets /\ ClientInv /\ attached \subseteq used /\ used \subseteq Slots /\ Nobody(inbox) /\ LoopInv
      /\ Slots \subseteq Threads /\ Reader \in Threads /\ Monitor \in Threads
  BY TalkFacts DEF Threads
<1>1. ASSUME NEW t \in Threads, Resume(t) \/ Stall(t) PROVE OutputInv'
  <2>1. PICK stalled : GoOn(t, stalled) /\ wait[t] # None
    BY <1>1 DEF Resume, Stall
  <2> QED BY <2>1, GoOnOutput
<1>2. ASSUME NEW t \in Threads, Broadcast(t) PROVE OutputInv'
  BY <1>2, BroadcastOutput
<1>3. ASSUME NEW c \in Slots, Clear(c) PROVE OutputInv'
  BY <1>0, <1>2, <1>3 DEF Clear
<1>4. ASSUME NEW c \in Slots, Resize(c) PROVE OutputInv'
  <2>1. wait[c] = None /\ rev' = rev /\ SendRoles(c, controls, generation, grid + 1, inbox, "resize", None)
    BY <1>4 DEF Resize, Idle
  <2>2. PICK g, size, op, arg : g = generation /\ size = grid + 1 /\ op = "resize" /\ op # "attach" /\ arg = None
    OBVIOUS
  <2>3. SendRoles(c, controls, g, size, inbox, op, arg)
    BY <2>1, <2>2
  <2> QED BY <1>0, <2>1, <2>2, <2>3, RolesOutput
<1>5. ASSUME NEW c \in Slots, NEW size, TakeControl(c, size) PROVE OutputInv'
  <2>a. PICK ctl, boxes : ctl = (controls \ {controller}) \cup {c} /\ boxes = Popped(c)
    OBVIOUS
  <2>b. PICK g, op, arg : g = generation + 1 /\ op = "take" /\ op # "attach" /\ arg = None
    OBVIOUS
  <2>1. /\ ctl = (controls \ {controller}) \cup {c} /\ g = generation + 1 /\ boxes = Popped(c)
        /\ op = "take" /\ op # "attach" /\ arg = None
    BY <2>a, <2>b
  <2>2. wait[c] = None /\ rev' = rev /\ SendRoles(c, ctl, g, size, boxes, op, arg) /\ c \in attached
    BY <1>5, <2>1 DEF TakeControl, Reads, Idle, Grantable
  <2>3. Nobody(boxes)
    BY <1>0, <2>1, <2>2, NobodyPopped
  <2> QED BY <1>0, <2>1, <2>2, <2>3, RolesOutput
<1>6. ASSUME NEW c \in Slots, Reap(c) PROVE OutputInv'
  <2>1. PICK g, size, op : g = generation /\ size = grid /\ op = "reap" /\ op # "attach"
    OBVIOUS
  <2>2. wait[Monitor] = None /\ rev' = rev /\ SendRoles(Monitor, controls, g, size, inbox, op, c)
    BY <1>6, <2>1 DEF Reap, hostVars
  <2> QED BY <1>0, <2>1, <2>2, RolesOutput
<1>7. ASSUME NEW c \in Slots, NEW size, Attach(c, size) PROVE OutputInv'
  BY <1>7, AttachOutput
<1>8. ASSUME NEW c \in used, StopClient(c), rev' = rev, wait' = wait PROVE OutputInv'
  <2>1. PICK rec : Sent(attached \ {c}, {}, rec, inbox)
    BY <1>0, <1>8, StopShape
  <2>2. attached' \subseteq attached /\ \A d \in attached' : stream'[d] = stream[d]
    BY <2>1 DEF Sent
  <2> QED BY <1>8, <2>2, StaysOutput
<1>9. ASSUME NEW c \in Slots, Disconnect(c) \/ WriterFails(c) \/ CloseDetaches(c) PROVE OutputInv'
  <2>1. StopClient(c) /\ rev' = rev /\ wait' = wait
    BY <1>9 DEF Disconnect, WriterFails, CloseDetaches, waitVars
  <2>2. c \in used
    BY <1>0, <1>9, TalkFacts DEF Disconnect, WriterFails, CloseDetaches, WorkInv
  <2> QED BY <1>8, <2>1, <2>2
<1>10. ASSUME NEW c \in Slots, CloseEnds(c) PROVE OutputInv'
  <2>1. attached' = {} /\ rev' = rev /\ wait' = wait
    BY <1>10 DEF CloseEnds, waitVars
  <2> QED BY <2>1, StaysOutput
<1>11. ASSUME NEW c \in Slots, NEW from \in Slots \cup {None}, ControlClose(c, from) PROVE OutputInv'
  <2>1. rev' = rev /\ wait' = wait
    BY <1>11 DEF ControlClose, waitVars
  <2>2. CASE from = None
    <3>1. UNCHANGED clientVars
      BY <1>11, <2>2 DEF ControlClose
    <3> QED BY <2>1, <3>1, StaysOutput DEF clientVars
  <2>3. CASE from # None
    <3>1. StopClient(from) /\ from \in used
      BY <1>0, <1>11, <2>3 DEF ControlClose
    <3> QED BY <1>8, <2>1, <3>1
  <2> QED BY <2>2, <2>3
<1>12. ASSUME NEW c \in Slots, Connect(c) \/ Deliver(c) \/ Types(c) PROVE OutputInv'
  <2>1. UNCHANGED <<rev, wait, attached, stream>>
    BY <1>12 DEF Connect, Deliver, Types, hostVars, waitVars
  <2> QED BY <2>1, StaysOutput
<1>13. ASSUME NEW c \in Slots, RefuseTake(c) \/ StartInput(c) \/ FinishInput(c) \/ StartClose(c) PROVE OutputInv'
  <2>1. UNCHANGED <<rev, wait, attached, stream>>
    BY <1>13 DEF RefuseTake, StartInput, FinishInput, StartClose, Pop, hostVars, clientVars, waitVars
  <2> QED BY <2>1, StaysOutput
<1>14. CASE MonitorAlone \/ UNCHANGED vars
  <2>1. UNCHANGED <<rev, wait, attached, stream>>
    BY <1>14 DEF MonitorAlone, SaveSnapshot, SaveFails, ReadFlags, Publish, vars, hostVars, clientVars, waitVars
  <2> QED BY <2>1, StaysOutput
<1> QED BY <1>0, <1>1, <1>2, <1>3, <1>4, <1>5, <1>6, <1>7, <1>9, <1>10, <1>11, <1>12, <1>13, <1>14 DEF Next, MonitorAlone

LEMMA InitOutput == Init => OutputInv
BY HostAssumption DEF Init, OutputInv

LEMMA OutputKept == Spec => [](IInv /\ TalkInv /\ OutputInv)
<1>1. Init => OutputInv
  BY InitOutput
<1>2. IInv /\ TalkInv /\ OutputInv /\ [Next]_vars => OutputInv'
  BY OutputStep
<1> QED BY <1>1, <1>2, Talking, PTL DEF Spec

\* A Client that attached has all output after its snapshot, or a thread that waits for room
\* in a queue still has it in hand for that Client.
THEOREM OutputReaches == Spec => []NoOutputLost
<1>1. ASSUME IInv, TalkInv, OutputInv PROVE NoOutputLost
  <2>0. rev \in Nat /\ attached \subseteq Slots /\ ClientInv
    BY <1>1, TalkFacts
  <2> SUFFICES ASSUME NEW c \in attached, NEW r \in RecordsOf(c), r.type = "replay", NEW at \in (r.at + 1)..rev
               PROVE  Output(at) \in RecordsOf(c) \/ InHand(c, at)
    BY DEF NoOutputLost
  <2>1. PICK i \in 1..Len(stream[c]) : r = stream[c][i]
    BY DEF RecordsOf
  <2>2. r.at \in Nat
    <3>1. PICK S, s : S = RecordsBy(rev, generation) /\ s = stream[c] /\ s \in Seq(S)
      BY <2>0 DEF ClientInv
    <3>2. r \in S
      BY <2>1, <3>1
    <3> QED BY <2>0, <3>1, <3>2 DEF RecordsBy
  <2>3. Snapshot(c, r.at)
    BY <2>1 DEF Snapshot, Replays
  <2>4. Gets(c, at)
    BY <1>1, <2>2, <2>3 DEF OutputInv, CaughtUp
  <2>5. CASE Has(stream[c], Output(at))
    BY <2>5 DEF Has, RecordsOf
  <2>6. ASSUME NEW t \in Threads, Carries(t, c, at) PROVE InHand(c, at)
    BY <2>6 DEF Carries, InHand
  <2> QED BY <2>4, <2>5, <2>6 DEF Gets
<1> QED BY <1>1, OutputKept, PTL

-----------------------------------------------------------------------------
\* As long as nobody waited, each Client is sent everything in order.

LEMMA Appended ==
  ASSUME NEW s, IsSeq(s), NEW x, NEW u, u = s \o <<x>>
  PROVE  /\ Len(s) \in Nat /\ Len(u) = Len(s) + 1 /\ u[Len(s) + 1] = x /\ u # <<>>
         /\ \A i \in 1..Len(s) : u[i] = s[i]
         /\ \A i \in 1..Len(u) : i \in 1..Len(s) \/ i = Len(s) + 1
<1>1. PICK S : s \in Seq(S)
  BY DEF IsSeq
<1>2. PICK A : A = S \cup {x}
  OBVIOUS
<1>3. s \in Seq(A) /\ <<x>> \in Seq(A)
  BY <1>1, <1>2
<1>4. Len(u) = Len(s) + 1 /\ Len(s) \in Nat /\ (\A i \in 1..Len(s) : u[i] = s[i]) /\ u[Len(s) + 1] = x
  BY <1>3
<1>5. u # <<>>
  <2>1. Len(<<>>) = 0
    OBVIOUS
  <2> QED BY <1>4, <2>1
<1>6. \A i \in 1..Len(u) : i \in 1..Len(s) \/ i = Len(s) + 1
  BY <1>4
<1> QED BY <1>4, <1>5, <1>6

LEMMA LastStays ==
  ASSUME NEW s, IsSeq(s), NEW x, x.type # "role", NEW gen, NEW ctl, NEW n, NEW size, LastIs(s, gen, ctl, n, size)
  PROVE  LastIs(s \o <<x>>, gen, ctl, n, size)
<1>1. PICK u : u = s \o <<x>>
  OBVIOUS
<1>2. /\ Len(s) \in Nat /\ Len(u) = Len(s) + 1 /\ u[Len(s) + 1] = x
      /\ \A i \in 1..Len(s) : u[i] = s[i]
      /\ \A i \in 1..Len(u) : i \in 1..Len(s) \/ i = Len(s) + 1
  BY <1>1, Appended
<1>3. PICK i \in 1..Len(s) : /\ s[i] = Role(s[i].at, gen, ctl, n, size)
                             /\ \A j \in (i + 1)..Len(s) : s[j].type # "role"
  BY DEF LastIs
<1>4. i \in 1..Len(u) /\ u[i] = Role(u[i].at, gen, ctl, n, size)
  BY <1>2, <1>3
<1>5. ASSUME NEW j \in (i + 1)..Len(u) PROVE u[j].type # "role"
  <2>1. CASE j = Len(s) + 1
    BY <1>2, <2>1
  <2>2. CASE j # Len(s) + 1
    <3>1. j \in (i + 1)..Len(s) /\ j \in 1..Len(s)
      BY <1>2, <1>3, <2>2
    <3> QED BY <1>2, <1>3, <3>1
  <2> QED BY <2>1, <2>2
<1> QED BY <1>1, <1>4, <1>5 DEF LastIs

LEMMA LastAppended ==
  ASSUME NEW s, IsSeq(s), NEW at, NEW gen, NEW ctl, NEW n, NEW size
  PROVE  LastIs(s \o <<Role(at, gen, ctl, n, size)>>, gen, ctl, n, size)
<1>0. PICK x : x = Role(at, gen, ctl, n, size)
  OBVIOUS
<1>1. x = Role(at, gen, ctl, n, size) /\ x.at = at
  BY <1>0 DEF Role
<1>2. PICK u : u = s \o <<x>>
  OBVIOUS
<1>3. Len(s) \in Nat /\ Len(u) = Len(s) + 1 /\ u[Len(s) + 1] = x
  BY <1>2, Appended
<1>4. PICK i \in 1..Len(u) : i = Len(u) /\ u[i] = Role(u[i].at, gen, ctl, n, size)
  BY <1>1, <1>3
<1>5. \A j \in (i + 1)..Len(u) : FALSE
  BY <1>3, <1>4
<1>6. LastIs(u, gen, ctl, n, size)
  BY <1>4, <1>5 DEF LastIs
<1> QED BY <1>1, <1>2, <1>6

LEMMA OrderAppended ==
  ASSUME NEW s, IsSeq(s), InOrder(s), NEW x, x.at \in Nat, x.type # "welcome",
         \A i \in 1..Len(s) : s[i].at \in Nat /\ s[i].at <= x.at /\ (x.type = "output" => s[i].at < x.at)
  PROVE  InOrder(s \o <<x>>)
<1>1. PICK u : u = s \o <<x>>
  OBVIOUS
<1>2. /\ Len(s) \in Nat /\ Len(u) = Len(s) + 1 /\ u[Len(s) + 1] = x
      /\ \A i \in 1..Len(s) : u[i] = s[i]
      /\ \A i \in 1..Len(u) : i \in 1..Len(s) \/ i = Len(s) + 1
  BY <1>1, Appended
<1>3. ASSUME NEW i \in 1..Len(u), NEW j \in 1..Len(u), i < j
      PROVE  u[j].type # "welcome" /\ u[i].at <= u[j].at /\ (u[j].type = "output" => u[i].at < u[j].at)
  <2>1. i \in 1..Len(s)
    BY <1>2, <1>3
  <2>2. CASE j \in 1..Len(s)
    BY <1>2, <1>3, <2>1, <2>2 DEF InOrder
  <2>3. CASE j = Len(s) + 1
    BY <1>2, <2>1, <2>3
  <2> QED BY <1>2, <2>2, <2>3
<1>4. InOrder(u)
  BY <1>3 DEF InOrder
<1> QED BY <1>1, <1>4

\* A role tells whether its Client controls.
LEMMA RoleTells ==
  ASSUME NEW at, NEW gen, NEW c, NEW ctl, NEW n, NEW size
  PROVE  \E b \in BOOLEAN : (b <=> c \in ctl) /\ Role(at, gen, c \in ctl, n, size) = Role(at, gen, b, n, size)
<1>1. PICK b \in BOOLEAN : b = (c \in ctl)
  <2>1. (c \in ctl) \in BOOLEAN
    OBVIOUS
  <2> QED BY <2>1, Zenon
<1>2. b <=> c \in ctl
  BY <1>1
<1>3. Role(at, gen, c \in ctl, n, size) = Role(at, gen, b, n, size)
  BY <1>1
<1> QED BY <1>2, <1>3, Zenon

\* What a Client was sent so far was made no later than now.
LEMMA SentBefore ==
  ASSUME ClientInv, rev \in Nat, NEW c \in Slots
  PROVE  IsSeq(stream[c]) /\ \A i \in 1..Len(stream[c]) : stream[c][i].at \in Nat /\ stream[c][i].at <= rev
<1>1. PICK n \in Nat : n = rev
  OBVIOUS
<1>2. PICK S, s : S = RecordsBy(n, generation) /\ s = stream[c] /\ s \in Seq(S)
  BY <1>1 DEF ClientInv
<1>3. \A r \in S : r.at \in 0..n
  BY <1>2 DEF RecordsBy
<1>4. \A i \in 1..Len(s) : s[i] \in S
  BY <1>2
<1>5. \A i \in 1..Len(s) : s[i].at \in Nat /\ s[i].at <= n
  BY <1>3, <1>4
<1>6. IsSeq(s)
  BY <1>2 DEF IsSeq
<1> QED BY <1>1, <1>2, <1>5, <1>6

\* A step that sends nothing, and after which nobody is left but who was attached.
LEMMA StaysQuiet ==
  ASSUME QuietInv, wait' = wait, waited' = waited, attached' \subseteq attached, generation' = generation, grid' = grid,
         \A c \in attached' : stream'[c] = stream[c] /\ (c \in controls' <=> c \in controls),
         used' \cap stopped' = {} => used \cap stopped = {} /\ attached' = attached
  PROVE  QuietInv'
<1> SUFFICES ASSUME ~waited' PROVE QuietInv'
  BY DEF QuietInv
<1>1. ~waited
  OBVIOUS
<1>2. \A t \in Threads : wait'[t] = None
  BY <1>1 DEF QuietInv
<1>3. \A c \in attached' : stream'[c] # <<>> /\ InOrder(stream'[c])
  BY <1>1 DEF QuietInv
<1>4. ASSUME NEW c \in attached'
      PROVE  \E n \in Nat : Told(c, n)' /\ (used' \cap stopped' = {} => n = Cardinality(attached'))
  <2>1. PICK n \in Nat : Told(c, n) /\ (used \cap stopped = {} => n = Cardinality(attached))
    BY <1>1 DEF QuietInv
  <2>2. Told(c, n)'
    BY <2>1 DEF Told
  <2> QED BY <2>1, <2>2
<1>5. PICK att : att = attached' /\ \A c \in att : \E n \in Nat : Told(c, n)' /\ (used' \cap stopped' = {} => n = Cardinality(att))
  BY <1>4
<1> QED BY <1>2, <1>3, <1>5 DEF QuietInv

LEMMA BroadcastQuiet ==
  ASSUME IInv, TalkInv, QuietInv, NEW t \in Threads, Broadcast(t)
  PROVE  QuietInv'
<1>0. ClientInv /\ attached \subseteq Slots /\ attached \subseteq used /\ rev \in Nat
  BY TalkFacts
<1>1. PICK rec, to, stuck :
        /\ rec = BroadcastRecords /\ stuck = Blocked(attached, controls) /\ to = attached \ stuck
        /\ Sent(attached, to, rec, inbox) /\ Waiting(t, stuck, rec, "output", None)
  BY BroadcastSends
<1>2. /\ generation' = generation /\ grid' = grid /\ used' = used /\ controls' = controls
  BY DEF Broadcast, Send, slotVars
<1> SUFFICES ASSUME ~waited' PROVE QuietInv'
  BY DEF QuietInv
<1>3. ~waited /\ stuck = {} /\ to = attached
  BY <1>1 DEF Waiting
<1>4. \A u \in Threads : wait'[u] = None
  BY <1>1, <1>3 DEF Waiting, QuietInv
<1>5. PICK now \in Nat : now = rev + 1
  BY <1>0
<1>6. ASSUME NEW c \in attached'
      PROVE  /\ stream'[c] # <<>> /\ InOrder(stream'[c])
             /\ \E n \in Nat : Told(c, n)' /\ (used' \cap stopped' = {} => n = Cardinality(attached'))
  <2>0. c \in attached /\ c \in Slots
    BY <1>0, <1>1 DEF Sent
  <2>1. PICK s, x : s = stream[c] /\ x = Output(now)
    OBVIOUS
  <2>2. stream'[c] = s \o <<x>>
    BY <1>1, <1>3, <1>5, <2>0, <2>1 DEF Sent, BroadcastRecords
  <2>3. x.at = now /\ x.type = "output"
    BY <2>1 DEF Output
  <2>4. IsSeq(s) /\ \A i \in 1..Len(s) : s[i].at \in Nat /\ s[i].at < now
    <3>1. IsSeq(stream[c]) /\ \A i \in 1..Len(stream[c]) : stream[c][i].at \in Nat /\ stream[c][i].at <= rev
      BY <1>0, <2>0, SentBefore
    <3>2. \A k \in Nat : k <= rev => k < now
      BY <1>0, <1>5
    <3> QED BY <2>1, <3>1, <3>2
  <2>5. stream'[c] # <<>> /\ InOrder(stream'[c])
    <3>1. InOrder(s)
      BY <1>3, <2>0, <2>1 DEF QuietInv
    <3>2. InOrder(s \o <<x>>)
      <4>1. x.type # "welcome" /\ \A i \in 1..Len(s) : s[i].at \in Nat /\ s[i].at <= x.at /\ (x.type = "output" => s[i].at < x.at)
        BY <2>3, <2>4
      <4> QED BY <2>3, <2>4, <3>1, <4>1, OrderAppended
    <3> QED BY <2>2, <2>4, <3>2, Appended
  <2>6. PICK n \in Nat : Told(c, n) /\ (used \cap stopped = {} => n = Cardinality(attached))
    BY <1>3, <2>0 DEF QuietInv
  <2>7. Told(c, n)'
    <3>1. PICK b \in BOOLEAN : (b <=> c \in controls) /\ LastIs(s, generation, b, n, grid)
      BY <2>1, <2>6 DEF Told
    <3>2. LastIs(s \o <<x>>, generation, b, n, grid)
      BY <2>3, <2>4, <3>1, LastStays
    <3> QED BY <1>2, <2>2, <3>1, <3>2 DEF Told
  <2>8. used' \cap stopped' = {} => used \cap stopped = {} /\ attached' = attached
    BY <1>0, <1>1, <1>2 DEF Sent
  <2> QED BY <2>5, <2>6, <2>7, <2>8
<1>7. PICK att : att = attached' /\ \A c \in att : /\ stream'[c] # <<>> /\ InOrder(stream'[c])
             /\ \E n \in Nat : Told(c, n)' /\ (used' \cap stopped' = {} => n = Cardinality(att))
  BY <1>6
<1> QED BY <1>4, <1>7 DEF QuietInv

\* The number of Clients that a loop of send_roles puts into the role of slot c: without a
\* Client that it drops, all of them.
LEMMA CountedAll ==
  ASSUME NEW att \in SUBSET Slots, NEW to \in SUBSET att, NEW ctl, NEW rec, NEW c, \A d \in to : Len(rec[d]) = 1,
         TooFull(to, rec) = {}
  PROVE  att \ {d \in to \ ctl : d < c /\ Full(d, <<0>>)} = att
<1>1. \A d \in to : ~Full(d, <<0>>)
  BY OneRecord DEF TooFull
<1> QED BY <1>1

\* After a role the Client knows it.
LEMMA ToldRole ==
  ASSUME NEW c, NEW s, IsSeq(s), NEW n, NEW size, NEW g, NEW ctl,
         stream'[c] = s \o <<Role(rev, g, c \in ctl, n, size)>>, generation' = g, grid' = size, controls' = ctl
  PROVE  Told(c, n)'
<1>1. PICK b \in BOOLEAN : (b <=> c \in ctl) /\ Role(rev, g, c \in ctl, n, size) = Role(rev, g, b, n, size)
  BY RoleTells
<1>2. LastIs(s \o <<Role(rev, g, b, n, size)>>, g, b, n, size)
  BY LastAppended
<1>3. PICK u : u = stream'[c]
  OBVIOUS
<1>4. LastIs(u, g, b, n, size)
  BY <1>1, <1>2, <1>3
<1> QED BY <1>1, <1>3, <1>4 DEF Told

LEMMA OrderRole ==
  ASSUME ClientInv, rev \in Nat, NEW c \in Slots, InOrder(stream[c]), NEW g, NEW b, NEW n, NEW size
  PROVE  /\ InOrder(stream[c] \o <<Role(rev, g, b, n, size)>>)
         /\ stream[c] \o <<Role(rev, g, b, n, size)>> # <<>>
<1>1. PICK s, x : s = stream[c] /\ x = Role(rev, g, b, n, size)
  OBVIOUS
<1>2. x.at = rev /\ x.type = "role"
  BY <1>1 DEF Role
<1>3. IsSeq(s) /\ \A i \in 1..Len(s) : s[i].at \in Nat /\ s[i].at <= rev
  BY <1>1, SentBefore
<1>4. x.type # "welcome" /\ \A i \in 1..Len(s) : s[i].at \in Nat /\ s[i].at <= x.at /\ (x.type = "output" => s[i].at < x.at)
  BY <1>2, <1>3
<1>5. InOrder(s \o <<x>>)
  BY <1>1, <1>2, <1>3, <1>4, OrderAppended
<1>6. s \o <<x>> # <<>>
  BY <1>3, Appended
<1> QED BY <1>1, <1>5, <1>6

LEMMA RolesQuiet ==
  ASSUME IInv, TalkInv, QuietInv, NEW t \in Threads, NEW ctl, NEW g, NEW size, NEW boxes, Nobody(boxes),
         NEW op, NEW arg, SendRoles(t, ctl, g, size, boxes, op, arg),
         generation' = g, grid' = size, attached \subseteq used'
  PROVE  QuietInv'
<1>0. ClientInv /\ attached \in SUBSET Slots /\ rev \in Nat
  BY TalkFacts
<1>1. PICK rec, to, stuck :
        /\ rec = Roles(attached, attached, ctl, g, size) /\ stuck = Blocked(attached, ctl)
        /\ to = Reached(attached, ctl)
        /\ Sent(attached, to, rec, boxes) /\ Waiting(t, stuck, rec, op, arg)
  BY RolesSent
<1>2. controls' = ctl
  BY DEF SendRoles, Send
<1> SUFFICES ASSUME ~waited' PROVE QuietInv'
  BY DEF QuietInv
<1>3. ~waited /\ stuck = {}
  BY <1>1 DEF Waiting
<1>4. to = attached
  BY <1>1, <1>3 DEF Reached
<1>5. \A u \in Threads : wait'[u] = None
  BY <1>1, <1>3 DEF Waiting, QuietInv
<1>6. used' \cap stopped' = {} => attached' = attached /\ TooFull(attached, rec) = {}
  <2>1. (attached \cup attached) \ attached' \subseteq stopped' /\ attached' = attached \ TooFull(attached, rec)
        /\ attached' \subseteq attached
    BY <1>1, <1>4 DEF Sent
  <2>2. TooFull(attached, rec) \subseteq attached
    BY DEF TooFull
  <2> QED BY <2>1, <2>2
<1>7. ASSUME NEW c \in attached'
      PROVE  /\ stream'[c] # <<>> /\ InOrder(stream'[c])
             /\ \E n \in Nat : Told(c, n)' /\ (used' \cap stopped' = {} => n = Cardinality(attached'))
  <2>0. c \in attached /\ c \in Slots
    BY <1>0, <1>1 DEF Sent
  <2>1. PICK some : some = attached \ {d \in attached \ ctl : d < c /\ Full(d, <<0>>)}
    OBVIOUS
  <2>2. PICK n \in Nat : n = Cardinality(some)
    BY <1>0, <2>1, HostAssumption, FS_Subset, FS_CardinalityType
  <2>3. rec[c] = <<Role(rev, g, c \in ctl, n, size)>>
    BY <1>1, <2>0, <2>1, <2>2 DEF Roles
  <2>4. stream'[c] = stream[c] \o <<Role(rev, g, c \in ctl, n, size)>>
    BY <1>1, <1>4, <2>0, <2>3 DEF Sent
  <2>5. stream'[c] # <<>> /\ InOrder(stream'[c])
    <3>1. InOrder(stream[c])
      BY <1>3, <2>0 DEF QuietInv
    <3>2. PICK b : b = (c \in ctl)
      OBVIOUS
    <3>3. stream'[c] = stream[c] \o <<Role(rev, g, b, n, size)>>
      BY <2>4, <3>2
    <3> QED BY <1>0, <2>0, <3>1, <3>3, OrderRole
  <2>6. Told(c, n)'
    <3>1. IsSeq(stream[c])
      BY <1>0, <2>0, SentBefore
    <3> QED BY <1>2, <2>4, <3>1, ToldRole
  <2>7. used' \cap stopped' = {} => n = Cardinality(attached')
    <3>1. \A d \in attached : Len(rec[d]) = 1
      BY <1>1, RolesMade
    <3>2. ASSUME TooFull(attached, rec) = {} PROVE some = attached
      <4>1. attached \in SUBSET attached
        OBVIOUS
      <4> QED BY <1>0, <2>1, <3>1, <3>2, <4>1, CountedAll
    <3> QED BY <1>6, <2>2, <3>2
  <2> QED BY <2>5, <2>6, <2>7
<1>8. PICK att : att = attached' /\ \A c \in att : /\ stream'[c] # <<>> /\ InOrder(stream'[c])
             /\ \E n \in Nat : Told(c, n)' /\ (used' \cap stopped' = {} => n = Cardinality(att))
  BY <1>7
<1> QED BY <1>5, <1>8 DEF QuietInv

\* The first records of a Client.
LEMMA Greeted ==
  ASSUME rev \in Nat, NEW c, NEW g, NEW ctl, NEW n, NEW size, NEW s, s = <<>> \o Greeting(c, g, ctl, n, size, rev),
         stream'[c] = s, generation' = g, grid' = size, controls' = ctl
  PROVE  s # <<>> /\ InOrder(s) /\ Told(c, n)'
<1>1. PICK b \in BOOLEAN : (b <=> c \in ctl) /\ Role(rev, g, c \in ctl, n, size) = Role(rev, g, b, n, size)
  BY RoleTells
<1>2. PICK x, y, z : x = Welcome(rev) /\ y = Role(rev, g, b, n, size) /\ z = Replay(rev)
  OBVIOUS
<1>3. s = <<x, y, z>>
  BY <1>1, <1>2 DEF Greeting
<1>4. Len(s) = 3 /\ s[1] = x /\ s[2] = y /\ s[3] = z /\ s # <<>> /\ 1..3 = {1, 2, 3}
  BY <1>3
<1>5. x.at = rev /\ y.at = rev /\ z.at = rev
  BY <1>2 DEF Welcome, Role, Replay
<1>6. y.type = "role" /\ z.type = "replay"
  BY <1>2 DEF Role, Replay
<1>7. InOrder(s)
  <2>1. ASSUME NEW i \in {1, 2, 3}, NEW j \in {1, 2, 3}, i < j
        PROVE  s[j].type # "welcome" /\ s[i].at <= s[j].at /\ (s[j].type = "output" => s[i].at < s[j].at)
    BY <1>4, <1>5, <1>6, <2>1
  <2>2. 1..Len(s) = {1, 2, 3}
    BY <1>4
  <2>3. ASSUME NEW i \in 1..Len(s), NEW j \in 1..Len(s), i < j
        PROVE  s[j].type # "welcome" /\ s[i].at <= s[j].at /\ (s[j].type = "output" => s[i].at < s[j].at)
    <3>1. i \in {1, 2, 3} /\ j \in {1, 2, 3}
      BY <2>2, Zenon
    <3> QED BY <2>1, <2>3, <3>1, Zenon
  <2> QED BY <2>3, Zenon DEF InOrder
<1>8. LastIs(s, g, b, n, size)
  <2>1. s[2] = Role(s[2].at, g, b, n, size)
    BY <1>2, <1>4, <1>5
  <2>2. \A j \in (2 + 1)..3 : s[j].type # "role"
    BY <1>4, <1>6
  <2>3. 2 \in 1..Len(s)
    BY <1>4
  <2> QED BY <1>4, <2>1, <2>2, <2>3 DEF LastIs
<1> QED BY <1>1, <1>4, <1>7, <1>8 DEF Told

LEMMA AttachQuiet ==
  ASSUME IInv, TalkInv, QuietInv, NEW c \in Slots, NEW size, Attach(c, size)
  PROVE  QuietInv'
<1>0. ClientInv /\ Sets /\ attached \in SUBSET Slots /\ attached \subseteq used /\ rev \in Nat
  BY TalkFacts
<1>1. PICK ctl, gen, own, rec, to, stuck :
        /\ ctl = AttachControls(c) /\ gen = AttachGeneration(c) /\ stuck = Blocked(attached, ctl)
        /\ own = Itself(c, stuck) /\ rec = AttachRecords(c, ctl, gen, own, size)
        /\ to = Reached(attached, ctl) \cup own
        /\ Sent(attached \cup {c}, to, rec, inbox) /\ Waiting(c, stuck, rec, "attach", rev)
  BY AttachSends
<1>2. /\ generation' = gen /\ grid' = size /\ used' = used /\ c \in used /\ doing[c] = "hello"
  BY <1>1 DEF Attach, AttachGeneration, Granted
<1>3. controls' = ctl
  BY <1>1 DEF Attach, Send, AttachControls, Granted
<1>4. c \notin attached /\ stream[c] = <<>>
  BY <1>0, <1>2 DEF Sets, Absent
<1> SUFFICES ASSUME ~waited' PROVE QuietInv'
  BY DEF QuietInv
<1>5. ~waited /\ stuck = {}
  BY <1>1 DEF Waiting
<1>6. PICK att \in SUBSET Slots : att = attached \cup {c}
  BY <1>0
<1>7. to = att /\ own = {c}
  BY <1>1, <1>5, <1>6 DEF Reached, Itself
<1>8. \A u \in Threads : wait'[u] = None
  BY <1>1, <1>5 DEF Waiting, QuietInv
<1>9. used' \cap stopped' = {} => attached' = att /\ TooFull(att, rec) = {}
  <2>1. (attached \cup att) \ attached' \subseteq stopped' /\ attached' = att \ TooFull(att, rec)
        /\ attached' \subseteq att
    BY <1>1, <1>6, <1>7 DEF Sent
  <2>2. TooFull(att, rec) \subseteq att
    BY DEF TooFull
  <2> QED BY <1>0, <1>2, <1>6, <2>1, <2>2
<1>10. \A d \in attached : rec[d] = Roles(attached, att, ctl, gen, size)[d]
  BY <1>1, <1>4, <1>6 DEF AttachRecords
<1>11. TooFull(att, rec) = {} => \A d \in attached : ~Full(d, <<0>>)
  <2>1. \A d \in attached : Len(rec[d]) = 1
    BY <1>10, RolesMade
  <2> QED BY <1>6, <2>1, OneRecord DEF TooFull
<1>12. ASSUME NEW d \in attached', d # c
       PROVE  /\ stream'[d] # <<>> /\ InOrder(stream'[d])
              /\ \E n \in Nat : Told(d, n)' /\ (used' \cap stopped' = {} => n = Cardinality(attached'))
  <2>0. d \in attached /\ d \in Slots
    BY <1>0, <1>1, <1>12 DEF Sent
  <2>1. PICK some : some = att \ {e \in attached \ ctl : e < d /\ Full(e, <<0>>)}
    OBVIOUS
  <2>2. PICK n \in Nat : n = Cardinality(some)
    BY <2>1, HostAssumption, FS_Subset, FS_CardinalityType
  <2>3. rec[d] = <<Role(rev, gen, d \in ctl, n, size)>>
    BY <1>10, <2>0, <2>1, <2>2 DEF Roles
  <2>4. stream'[d] = stream[d] \o <<Role(rev, gen, d \in ctl, n, size)>>
    BY <1>1, <1>6, <1>7, <2>0, <2>3 DEF Sent
  <2>5. stream'[d] # <<>> /\ InOrder(stream'[d])
    <3>1. InOrder(stream[d])
      BY <1>5, <2>0 DEF QuietInv
    <3>2. PICK b : b = (d \in ctl)
      OBVIOUS
    <3>3. stream'[d] = stream[d] \o <<Role(rev, gen, b, n, size)>>
      BY <2>4, <3>2
    <3> QED BY <1>0, <2>0, <3>1, <3>3, OrderRole
  <2>6. Told(d, n)'
    <3>1. IsSeq(stream[d])
      BY <1>0, <2>0, SentBefore
    <3> QED BY <1>2, <1>3, <2>4, <3>1, ToldRole
  <2>7. used' \cap stopped' = {} => n = Cardinality(attached')
    BY <1>9, <1>11, <2>1, <2>2
  <2> QED BY <2>5, <2>6, <2>7
<1>13. ASSUME c \in attached'
       PROVE  /\ stream'[c] # <<>> /\ InOrder(stream'[c])
              /\ \E n \in Nat : Told(c, n)' /\ (used' \cap stopped' = {} => n = Cardinality(attached'))
  <2>1. PICK some : some = att \ {e \in attached \ ctl : Full(e, <<0>>)}
    OBVIOUS
  <2>2. PICK n \in Nat : n = Cardinality(some)
    BY <2>1, HostAssumption, FS_Subset, FS_CardinalityType
  <2>3. rec[c] = Greeting(c, gen, ctl, n, size, rev)
    BY <1>1, <1>6, <1>7, <2>1, <2>2 DEF AttachRecords
  <2>4. PICK s : s = stream'[c]
    OBVIOUS
  <2>5. s = <<>> \o Greeting(c, gen, ctl, n, size, rev)
    BY <1>1, <1>4, <1>6, <1>7, <1>13, <2>3, <2>4 DEF Sent
  <2>6. s # <<>> /\ InOrder(s) /\ Told(c, n)'
    BY <1>0, <1>2, <1>3, <2>4, <2>5, Greeted
  <2>7. used' \cap stopped' = {} => n = Cardinality(attached')
    BY <1>9, <1>11, <2>1, <2>2
  <2> QED BY <2>4, <2>6, <2>7
<1>14. PICK now : now = attached' /\ \A d \in now : /\ stream'[d] # <<>> /\ InOrder(stream'[d])
             /\ \E n \in Nat : Told(d, n)' /\ (used' \cap stopped' = {} => n = Cardinality(now))
  BY <1>12, <1>13
<1> QED BY <1>8, <1>14 DEF QuietInv

LEMMA QuietStep == IInv /\ TalkInv /\ QuietInv /\ [Next]_vars => QuietInv'
<1> SUFFICES ASSUME IInv, TalkInv, QuietInv, [Next]_vars PROVE QuietInv'
  OBVIOUS
<1>0. /\ Sets /\ ClientInv /\ attached \subseteq used /\ used \subseteq Slots /\ Nobody(inbox) /\ WaitInv
      /\ Slots \subseteq Threads /\ Reader \in Threads /\ Monitor \in Threads /\ controls \subseteq attached
  BY TalkFacts DEF Threads
<1>1. ASSUME NEW t \in Threads, Resume(t) \/ Stall(t) PROVE QuietInv'
  <2>1. wait[t] # None /\ (waited' <=> waited \/ waited')
    <3>1. PICK stalled : GoOn(t, stalled) /\ wait[t] # None
      BY <1>1 DEF Resume, Stall
    <3>2. waited \in BOOLEAN
      BY TalkFacts DEF Rest
    <3>3. PICK w, held, rec : Waiting(t, held, rec, w.op, w.arg)
      <4>1. PICK w, gone, att, ctl, due, stuck, own, rec, held, to :
              GoesOn(t, w, gone, att, ctl, due, stuck, own, rec, held, to) /\ Waiting(t, held, rec, w.op, w.arg)
        BY <3>1, GoOnSends
      <4> QED BY <4>1
    <3> QED BY <3>1, <3>2, <3>3 DEF Waiting
  <2> QED BY <2>1 DEF QuietInv
<1>2. ASSUME NEW t \in Threads, Broadcast(t) PROVE QuietInv'
  BY <1>2, BroadcastQuiet
<1>3. ASSUME NEW c \in Slots, Clear(c) PROVE QuietInv'
  BY <1>0, <1>2, <1>3 DEF Clear
<1>4. ASSUME NEW c \in Slots, Resize(c) PROVE QuietInv'
  <2>1. PICK ctl, g, size, arg : ctl = controls /\ g = generation /\ size = grid + 1 /\ arg = None
    OBVIOUS
  <2>2. SendRoles(c, ctl, g, size, inbox, "resize", arg) /\ generation' = g /\ grid' = size /\ used' = used
    BY <1>4, <2>1 DEF Resize, slotVars
  <2>3. PICK op : op = "resize"
    OBVIOUS
  <2> QED BY <1>0, <2>2, <2>3, RolesQuiet
<1>5. ASSUME NEW c \in Slots, NEW size, TakeControl(c, size) PROVE QuietInv'
  <2>a. PICK ctl, boxes : ctl = (controls \ {controller}) \cup {c} /\ boxes = Popped(c)
    OBVIOUS
  <2>b. PICK g, op, arg : g = generation + 1 /\ op = "take" /\ arg = None
    OBVIOUS
  <2>1. SendRoles(c, ctl, g, size, boxes, op, arg) /\ generation' = g /\ grid' = size /\ used' = used /\ c \in attached
    BY <1>5, <2>a, <2>b DEF TakeControl, slotVars, Grantable
  <2>2. Nobody(boxes)
    BY <1>0, <2>a, <2>1, NobodyPopped
  <2> QED BY <1>0, <2>1, <2>2, RolesQuiet
<1>6. ASSUME NEW c \in Slots, Reap(c) PROVE QuietInv'
  <2>1. PICK g, size, op, ctl : g = generation /\ size = grid /\ op = "reap" /\ ctl = controls
    OBVIOUS
  <2>2. SendRoles(Monitor, ctl, g, size, inbox, op, c) /\ generation' = g /\ grid' = size
    BY <1>6, <2>1 DEF Reap, hostVars
  <2>3. c \in stopped /\ (used' = used \/ used' = used \ {c})
    BY <1>6 DEF Reap, Free
  <2>4. attached \subseteq used'
    BY <1>0, <2>3 DEF Sets, Absent
  <2> QED BY <1>0, <2>2, <2>4, RolesQuiet
<1>7. ASSUME NEW c \in Slots, NEW size, Attach(c, size) PROVE QuietInv'
  BY <1>7, AttachQuiet
<1>8. ASSUME NEW c \in used, StopClient(c), UNCHANGED <<wait, waited, generation, grid, used>> PROVE QuietInv'
  <2>1. PICK rec : Sent(attached \ {c}, {}, rec, inbox)
    BY <1>0, <1>8, StopShape
  <2>2. attached' \subseteq attached /\ \A d \in attached' : stream'[d] = stream[d]
    BY <2>1 DEF Sent
  <2>3. attached' = attached \ {c} /\ controls' = controls \ {c} /\ c \in stopped'
    BY <1>8 DEF StopClient, Leave
  <2> QED BY <1>8, <2>2, <2>3, StaysQuiet
<1>9. ASSUME NEW c \in Slots, Disconnect(c) \/ WriterFails(c) \/ CloseDetaches(c) PROVE QuietInv'
  <2>1. StopClient(c) /\ UNCHANGED <<wait, waited, generation, grid, used>>
    BY <1>9 DEF Disconnect, WriterFails, CloseDetaches, waitVars, slotVars
  <2>2. c \in used
    BY <1>0, <1>9, TalkFacts DEF Disconnect, WriterFails, CloseDetaches, WorkInv
  <2> QED BY <1>8, <2>1, <2>2
<1>10. ASSUME NEW c \in Slots, CloseEnds(c) PROVE QuietInv'
  <2>1. /\ attached' = {} /\ UNCHANGED <<wait, waited, generation, grid, used>> /\ stopped' = stopped \cup used
    BY <1>10 DEF CloseEnds, waitVars, slotVars, Leave
  <2>2. c \in used
    BY <1>10, TalkFacts DEF CloseEnds, WorkInv
  <2> QED BY <2>1, <2>2, StaysQuiet
<1>11. ASSUME NEW c \in Slots, NEW from \in Slots \cup {None}, ControlClose(c, from) PROVE QuietInv'
  <2>1. UNCHANGED <<wait, waited, generation, grid, used>>
    BY <1>11 DEF ControlClose, waitVars, slotVars
  <2>2. CASE from = None
    <3>1. UNCHANGED clientVars
      BY <1>11, <2>2 DEF ControlClose
    <3> QED BY <2>1, <3>1, StaysQuiet DEF clientVars
  <2>3. CASE from # None
    <3>1. StopClient(from) /\ from \in used
      BY <1>0, <1>11, <2>3 DEF ControlClose
    <3> QED BY <1>8, <2>1, <3>1
  <2> QED BY <2>2, <2>3
<1>12. ASSUME NEW c \in Slots, Connect(c) PROVE QuietInv'
  <2>1. /\ UNCHANGED <<wait, waited, generation, grid, attached, stream, controls>> /\ c \notin used
        /\ used' = used \cup {c} /\ stopped' = stopped \ {c}
    BY <1>12 DEF Connect, hostVars, waitVars
  <2>2. used' \cap stopped' = {} => used \cap stopped = {}
    BY <2>1
  <2> QED BY <2>1, <2>2, StaysQuiet
<1>13. ASSUME NEW c \in Slots, Deliver(c) \/ Types(c) \/ RefuseTake(c) PROVE QuietInv'
  <2>1. UNCHANGED <<wait, waited, generation, grid, attached, stream, controls, used, stopped>>
    BY <1>13 DEF Deliver, Types, RefuseTake, Pop, hostVars, slotVars, waitVars
  <2> QED BY <2>1, StaysQuiet
<1>14. ASSUME NEW c \in Slots, StartInput(c) \/ FinishInput(c) \/ StartClose(c) PROVE QuietInv'
  <2>1. UNCHANGED <<wait, waited, generation, grid, attached, stream, controls, used, stopped>>
    BY <1>14 DEF StartInput, FinishInput, StartClose, Pop, hostVars, slotVars, clientVars, waitVars
  <2> QED BY <2>1, StaysQuiet
<1>15. CASE MonitorAlone \/ UNCHANGED vars
  <2>1. UNCHANGED <<wait, waited, generation, grid, attached, stream, controls, used, stopped>>
    BY <1>15 DEF MonitorAlone, SaveSnapshot, SaveFails, ReadFlags, Publish, vars, hostVars, slotVars, clientVars, waitVars
  <2> QED BY <2>1, StaysQuiet
<1> QED BY <1>0, <1>1, <1>2, <1>3, <1>4, <1>5, <1>6, <1>7, <1>9, <1>10, <1>11, <1>12, <1>13, <1>14, <1>15 DEF Next, MonitorAlone

LEMMA InitQuiet == Init => QuietInv
BY DEF Init, QuietInv

LEMMA QuietKept == Spec => [](IInv /\ TalkInv /\ QuietInv)
<1>1. Init => QuietInv
  BY InitQuiet
<1>2. IInv /\ TalkInv /\ QuietInv /\ [Next]_vars => QuietInv'
  BY QuietStep
<1> QED BY <1>1, <1>2, Talking, PTL DEF Spec

\* As long as no queue was full, each Client gets the welcome, the snapshot and later changes
\* in the order in which the host's screen changed, each once.
THEOREM OrderHolds == Spec => []OrderWithoutWaits
<1>1. QuietInv => OrderWithoutWaits
  BY DEF QuietInv, OrderWithoutWaits, InHostOrder
<1> QED BY <1>1, QuietKept, PTL

LEMMA LastRoleIs ==
  ASSUME NEW c, NEW gen, NEW b, NEW n, NEW size, LastIs(stream[c], gen, b, n, size), IsSeq(stream[c])
  PROVE  LastRole(c) = Role(LastRole(c).at, gen, b, n, size)
<1>1. PICK s, roles : s = stream[c] /\ roles = {i \in 1..Len(s) : s[i].type = "role"}
  OBVIOUS
<1>2. PICK i \in 1..Len(s) : /\ s[i] = Role(s[i].at, gen, b, n, size)
                             /\ \A j \in (i + 1)..Len(s) : s[j].type # "role"
  BY <1>1 DEF LastIs
<1>3. Len(s) \in Nat
  BY <1>1 DEF IsSeq
<1>4. i \in roles /\ \A j \in roles : j <= i
  <2>1. s[i].type = "role"
    BY <1>2 DEF Role
  <2>2. ASSUME NEW j \in roles PROVE j <= i
    <3>1. j \in 1..Len(s) /\ s[j].type = "role"
      BY <1>1
    <3>2. j \notin (i + 1)..Len(s)
      BY <1>2, <3>1
    <3> QED BY <1>2, <1>3, <3>1, <3>2
  <2> QED BY <1>1, <2>1, <2>2
<1>5. PICK k : k = CHOOSE l \in roles : \A j \in roles : j <= l
  OBVIOUS
<1>6. k = i
  <2>1. k \in roles /\ \A j \in roles : j <= k
    BY <1>4, <1>5
  <2>2. k \in Nat /\ i \in Nat
    BY <1>1, <1>3, <1>4, <2>1
  <2> QED BY <1>4, <2>1, <2>2
<1>7. LastRole(c) = s[i]
  BY <1>1, <1>5, <1>6 DEF LastRole
<1> QED BY <1>2, <1>7

\* As long as no queue was full, and once the monitor has reaped those who left, each Client
\* was told the generation, the size, its role and how many Clients there are.
THEOREM RolesReach == Spec => []RolesCurrent
<1>1. ASSUME IInv, TalkInv, QuietInv PROVE RolesCurrent
  <2> SUFFICES ASSUME ~waited, used \cap stopped = {}, NEW c \in attached
               PROVE  LastRole(c) = Role(LastRole(c).at, generation, c \in controls, Cardinality(attached), grid)
    BY DEF RolesCurrent
  <2>1. PICK n \in Nat : Told(c, n) /\ n = Cardinality(attached)
    BY <1>1 DEF QuietInv
  <2>2. PICK b \in BOOLEAN : (b <=> c \in controls) /\ LastIs(stream[c], generation, b, n, grid)
    BY <2>1 DEF Told
  <2>3. IsSeq(stream[c])
    BY <1>1, TalkFacts, SentBefore
  <2>4. LastRole(c) = Role(LastRole(c).at, generation, b, n, grid)
    BY <2>2, <2>3, LastRoleIs
  <2>5. PICK d \in BOOLEAN : /\ d <=> c \in controls
                           /\ Role(LastRole(c).at, generation, c \in controls, Cardinality(attached), grid)
                              = Role(LastRole(c).at, generation, d, Cardinality(attached), grid)
    BY RoleTells
  <2>6. b = d
    BY <2>2, <2>5
  <2> QED BY <2>1, <2>4, <2>5, <2>6
<1> QED BY <1>1, QuietKept, PTL

=============================================================================
