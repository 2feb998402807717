---------------------- MODULE TreeSitterServiceProofs ----------------------
(***************************************************************************)
(* Proofs about TreeSitterService for any Buffers, states, jobs, workers    *)
(* and revisions: references are counted, so nothing is used after it was   *)
(* freed, and a tree that shows as ready is that of the Buffer's text.      *)
(***************************************************************************)
EXTENDS TreeSitterService, FiniteSetTheorems, SequenceTheorems, TLAPS

\* The jobs that name a state.
JobsOf(s) == {j \in Outstanding : job[j].doc = s}

\* A job is at one place, and a worker beyond its first step has one.
PlaceInv ==
  /\ \A i, k \in DOMAIN queue : queue[i] = queue[k] => i = k
  /\ \A j \in completed : j \notin ToSet(queue)
  /\ \A w \in Workers : held[w] # NoJob => held[w] \notin ToSet(queue) /\ held[w] \notin completed
  /\ \A v, w \in Workers : held[v] = held[w] /\ held[w] # NoJob => v = w
  /\ \A w \in Workers : pc[w] \in {"parse", "finish", "free"} <=> held[w] # NoJob
  /\ main = "stopped" => queue = <<>> /\ completed = {} /\ \A w \in Workers : held[w] = NoJob

\* References are counted, and the active job of a state is one that still parses for it.
RefInv ==
  /\ \A j \in Outstanding : job[j].doc \in States
  /\ \A s \in States : doc[s].refs = Cardinality(JobsOf(s)) + (IF doc[s].owned THEN 1 ELSE 0)
  /\ \A s \in States : doc[s].status = "none" => doc[s] = NewDoc

ActiveInv ==
  /\ \A s \in States : doc[s].active # NoJob =>
       /\ doc[s].active \in JobsOf(s) /\ ~job[doc[s].active].cleanup
       /\ \A w \in Workers : held[w] = doc[s].active => pc[w] # "free"
  /\ \A w \in Workers : pc[w] \in {"parse", "finish"} => ~job[held[w]].cleanup

\* The tree that a job starts from fits its text, so the tree it makes is of its text.
TreeInv ==
  \A j \in Outstanding : ~job[j].cleanup =>
    /\ job[j].old = NoTree \/ job[j].old.at = job[j].revision
    /\ job[j].outcome = "tree" => job[j].tree = Tree(job[j].revision, job[j].revision)

\* Each Buffer has a state of its own. A state without a Buffer has an empty table.
AttachInv ==
  /\ \A b, c \in Buffers : ts[b] = ts[c] /\ ts[b] # NoState => b = c
  /\ \A s \in States \ Attached : lua[s].generation = 0
  /\ \A s \in Attached : doc[s].owned /\ ~doc[s].closed
  /\ polling \subseteq Attached

\* A state of a Buffer: the job it waits for parses what was scheduled last, and a result waits
\* for a poll that will come.
StateInv ==
  \A s \in Attached :
    /\ doc[s].active # NoJob =>
         /\ Busy(s)
         /\ job[doc[s].active].generation = lua[s].generation
         /\ job[doc[s].active].revision = lua[s].scheduled
    /\ lua[s].status = "ready" => doc[s].status = "ready" /\ ~lua[s].pending
    /\ doc[s].status = "ready" /\ ~lua[s].pending
         => doc[s].tree = Tree(lua[s].scheduled, lua[s].scheduled)

RevisionInv ==
  \A b \in Buffers : ts[b] # NoState =>
    /\ lua[ts[b]].scheduled <= revision[b]
    /\ ~lua[ts[b]].pending => lua[ts[b]].scheduled = revision[b]

\* While the main thread runs.
PollInv ==
  main = "run" => \A s \in Attached :
    /\ doc[s].status \in {"queued", "parsing", "ready", "failed"}
    /\ Busy(s) => doc[s].active # NoJob
    /\ doc[s].active # NoJob => ~job[doc[s].active].cancel /\ job[doc[s].active].outcome # "canceled"
    /\ (\E j \in completed : job[j].doc = s) => signalled \/ s \in polling \/ s \in unheard

SettleInv ==
  \A b \in Buffers : ts[b] # NoState /\ ~Busy(ts[b]) /\ followup # ts[b] =>
    \/ lua[ts[b]].status = doc[ts[b]].status /\ lua[ts[b]].scheduled = revision[b]
    \/ lua[ts[b]].thread /\ lua[ts[b]].scheduled # revision[b]

IInv == /\ TypeOK /\ PlaceInv /\ RefInv /\ ActiveInv /\ TreeInv /\ AttachInv /\ StateInv
        /\ RevisionInv /\ PollInv /\ SettleInv

-----------------------------------------------------------------------------
(* Where jobs are *)

LEMMA AppendedSet ==
  ASSUME NEW S, NEW q \in Seq(S), NEW j \in S
  PROVE  Append(q, j) \in Seq(S) /\ ToSet(Append(q, j)) = ToSet(q) \cup {j}
<1>1. Append(q, j) \in Seq(S) /\ Len(Append(q, j)) = Len(q) + 1
  OBVIOUS
<1>2. ASSUME NEW x \in ToSet(q) PROVE x \in ToSet(Append(q, j))
  BY <1>1 DEF ToSet
<1>3. j \in ToSet(Append(q, j))
  BY <1>1 DEF ToSet
<1>4. ASSUME NEW x \in ToSet(Append(q, j)) PROVE x \in ToSet(q) \cup {j}
  BY <1>1 DEF ToSet
<1> QED  BY <1>1, <1>2, <1>3, <1>4

LEMMA TakenSet ==
  ASSUME NEW S, NEW q \in Seq(S), q # <<>>, \A i, k \in DOMAIN q : q[i] = q[k] => i = k
  PROVE  /\ Head(q) \in S /\ Tail(q) \in Seq(S) /\ ToSet(Tail(q)) = ToSet(q) \ {Head(q)}
         /\ Head(q) \in ToSet(q)
         /\ \A i, k \in DOMAIN Tail(q) : Tail(q)[i] = Tail(q)[k] => i = k
<1>1. /\ Len(q) \in Nat \ {0} /\ Head(q) = q[1] /\ Tail(q) \in Seq(S) /\ Len(Tail(q)) = Len(q) - 1
      /\ \A i \in 1 .. Len(q) - 1 : Tail(q)[i] = q[i + 1]
      /\ DOMAIN q = 1 .. Len(q) /\ DOMAIN Tail(q) = 1 .. Len(q) - 1
  BY HeadTailProperties, EmptySeq
<1>2. ASSUME NEW x \in ToSet(Tail(q)) PROVE x \in ToSet(q) \ {Head(q)}
  BY <1>1 DEF ToSet
<1>3. ASSUME NEW x \in ToSet(q) \ {Head(q)} PROVE x \in ToSet(Tail(q))
  <2>1. PICK i \in 2 .. Len(q) : x = q[i]
    BY <1>1 DEF ToSet
  <2>2. i - 1 \in 1 .. Len(q) - 1 /\ x = Tail(q)[i - 1]
    BY <1>1, <2>1
  <2> QED  BY <1>1, <2>2 DEF ToSet
<1>4. Head(q) \in S /\ Head(q) \in ToSet(q)
  BY <1>1 DEF ToSet
<1> QED  BY <1>1, <1>2, <1>3, <1>4

LEMMA JoinedSet ==
  ASSUME NEW S, NEW q \in Seq(S), NEW T \in SUBSET S, IsFiniteSet(T), NEW f \in SetToSeqs(T)
  PROVE  /\ q \o f \in Seq(S) /\ ToSet(q \o f) = ToSet(q) \cup T
         /\ (\A i, k \in DOMAIN q : q[i] = q[k] => i = k) /\ (\A x \in T : x \notin ToSet(q))
              => \A i, k \in DOMAIN (q \o f) : (q \o f)[i] = (q \o f)[k] => i = k
<1> DEFINE n == Cardinality(T)
<1>1. n \in Nat
  BY FS_CardinalityType
<1>2. f \in [1 .. n -> T] /\ \A i, k \in 1 .. n : f[i] = f[k] => i = k
  BY DEF SetToSeqs
<1>3. f \in Injection(1 .. n, T)
  BY <1>2 DEF Injection, IsInjective
<1>4. IsFiniteSet(1 .. n) /\ Cardinality(1 .. n) = n
  BY <1>1, FS_Interval
<1>5. f \in Surjection(1 .. n, T)
  BY <1>3, <1>4, FS_Injection
<1>6. f \in Seq(S) /\ Len(f) = n /\ \A x \in T : \E i \in 1 .. n : f[i] = x
  BY <1>1, <1>2, <1>5 DEF Surjection
<1>7. /\ q \o f \in Seq(S) /\ Len(q \o f) = Len(q) + n /\ Len(q) \in Nat /\ DOMAIN q = 1 .. Len(q)
      /\ DOMAIN (q \o f) = 1 .. Len(q) + n
      /\ \A i \in 1 .. Len(q) + n : (q \o f)[i] = IF i <= Len(q) THEN q[i] ELSE f[i - Len(q)]
  BY <1>1, <1>6
<1> HIDE DEF n
<1>8. ASSUME NEW x \in ToSet(q \o f) PROVE x \in ToSet(q) \cup T
  BY <1>1, <1>2, <1>7 DEF ToSet
<1>9. ASSUME NEW x \in ToSet(q) PROVE x \in ToSet(q \o f)
  BY <1>1, <1>7 DEF ToSet
<1>10. ASSUME NEW x \in T PROVE x \in ToSet(q \o f)
  <2>1. PICK i \in 1 .. n : f[i] = x
    BY <1>6
  <2>2. Len(q) + i \in 1 .. Len(q) + n /\ (q \o f)[Len(q) + i] = x
    BY <1>1, <1>7, <2>1
  <2> QED  BY <1>7, <2>2 DEF ToSet
<1>11. ASSUME \A i, k \in DOMAIN q : q[i] = q[k] => i = k, \A x \in T : x \notin ToSet(q),
              NEW i \in DOMAIN (q \o f), NEW k \in DOMAIN (q \o f), (q \o f)[i] = (q \o f)[k]
       PROVE  i = k
  <2>1. \A m \in 1 .. Len(q), h \in 1 .. n : q[m] # f[h]
    BY <1>2, <1>7, <1>11 DEF ToSet
  <2> QED  BY <1>1, <1>2, <1>7, <1>11, <2>1
<1> QED  BY <1>7, <1>8, <1>9, <1>10, <1>11

LEMMA OutstandingJobs ==
  ASSUME TypeOK
  PROVE  /\ NoJob \notin Jobs /\ NoState \notin States
         /\ Outstanding \subseteq Jobs /\ ToSet(queue) \subseteq Jobs
         /\ \A j \in Outstanding :
              j \in ToSet(queue) \/ j \in completed \/ \E w \in Workers : held[w] = j
         /\ ToSet(queue) \subseteq Outstanding /\ completed \subseteq Outstanding
         /\ \A w \in Workers : held[w] # NoJob => held[w] \in Outstanding
         /\ \A s : IsFiniteSet(JobsOf(s)) /\ Cardinality(JobsOf(s)) \in Nat
<1>1. NoJob \notin Jobs /\ NoState \notin States
  BY ValuesAssumption
<1>2. ToSet(queue) \subseteq Jobs
  BY DEF TypeOK, ToSet
<1>3. Outstanding \subseteq Jobs
  BY <1>2 DEF TypeOK, Outstanding
<1>4. \A s : IsFiniteSet(JobsOf(s)) /\ Cardinality(JobsOf(s)) \in Nat
  <2> SUFFICES ASSUME NEW s PROVE IsFiniteSet(JobsOf(s)) /\ Cardinality(JobsOf(s)) \in Nat
    OBVIOUS
  <2>1. JobsOf(s) \in SUBSET Jobs
    BY <1>3 DEF JobsOf
  <2> QED  BY <2>1, FS_Subset, FS_CardinalityType, BoundsAssumption
<1>5. \A j \in Outstanding : j \in ToSet(queue) \/ j \in completed \/ \E w \in Workers : held[w] = j
  BY DEF Outstanding
<1> QED  BY <1>1, <1>2, <1>3, <1>4, <1>5 DEF Outstanding

\* A free job goes to the end of the queue.
LEMMA QueuedPlaces ==
  ASSUME TypeOK, PlaceInv, main = "run", NEW j \in FreeJobs, queue' = Append(queue, j),
         UNCHANGED <<completed, held, pc, main>>
  PROVE  PlaceInv' /\ Outstanding' = Outstanding \cup {j} /\ queue' \in Seq(Jobs)
<1>1. j \in Jobs /\ j \notin ToSet(queue) /\ j \notin completed /\ \A w \in Workers : held[w] # j
  BY OutstandingJobs DEF FreeJobs
<1>2. queue' \in Seq(Jobs) /\ ToSet(queue') = ToSet(queue) \cup {j}
  BY <1>1, AppendedSet DEF TypeOK
<1>3. Outstanding' = Outstanding \cup {j}
  BY <1>2 DEF Outstanding
<1>4. \A i, k \in DOMAIN queue' : queue'[i] = queue'[k] => i = k
  <2>1. /\ queue \in Seq(Jobs) /\ Len(queue) \in Nat /\ DOMAIN queue' = 1 .. Len(queue) + 1
        /\ DOMAIN queue = 1 .. Len(queue)
        /\ \A i \in 1 .. Len(queue) + 1 : queue'[i] = IF i <= Len(queue) THEN queue[i] ELSE j
    BY <1>1 DEF TypeOK
  <2>2. \A i \in DOMAIN queue : queue[i] # j
    BY <1>1 DEF ToSet
  <2> QED  BY <2>1, <2>2 DEF PlaceInv
<1> QED  BY <1>1, <1>2, <1>3, <1>4 DEF PlaceInv

\* A job is added for s, and the others keep their states.
LEMMA AddedJobs ==
  ASSUME TypeOK, NEW s, NEW j, j \notin Outstanding, Outstanding' = Outstanding \cup {j},
         job'[j].doc = s, \A k \in Outstanding : job'[k].doc = job[k].doc
  PROVE  /\ Cardinality(JobsOf(s)') = Cardinality(JobsOf(s)) + 1
         /\ JobsOf(s)' = JobsOf(s) \cup {j}
         /\ \A x : x # s => JobsOf(x)' = JobsOf(x)
<1>1. JobsOf(s)' = JobsOf(s) \cup {j} /\ j \notin JobsOf(s)
  BY DEF JobsOf
<1>2. \A x : x # s => JobsOf(x)' = JobsOf(x)
  BY DEF JobsOf
<1>3. Cardinality(JobsOf(s) \cup {j}) = Cardinality(JobsOf(s)) + 1
  BY <1>1, OutstandingJobs, FS_AddElement
<1> QED  BY <1>1, <1>2, <1>3

\* A job of s is freed.
LEMMA FreedJobs ==
  ASSUME TypeOK, NEW s, NEW j \in Outstanding, job[j].doc = s, Outstanding' = Outstanding \ {j},
         \A k \in Outstanding \ {j} : job'[k].doc = job[k].doc
  PROVE  /\ Cardinality(JobsOf(s)') = Cardinality(JobsOf(s)) - 1
         /\ JobsOf(s)' = JobsOf(s) \ {j} /\ j \in JobsOf(s) /\ Cardinality(JobsOf(s)) >= 1
         /\ \A x : x # s => JobsOf(x)' = JobsOf(x)
<1>1. JobsOf(s)' = JobsOf(s) \ {j} /\ j \in JobsOf(s)
  BY DEF JobsOf
<1>2. \A x : x # s => JobsOf(x)' = JobsOf(x)
  BY DEF JobsOf
<1>3. Cardinality(JobsOf(s) \ {j}) = Cardinality(JobsOf(s)) - 1
  BY <1>1, OutstandingJobs, FS_RemoveElement
<1>4. Cardinality(JobsOf(s)) # 0 /\ Cardinality(JobsOf(s)) \in Nat
  BY <1>1, OutstandingJobs, FS_EmptySet
<1> QED  BY <1>1, <1>2, <1>3, <1>4

-----------------------------------------------------------------------------
(* The main thread schedules a parse *)

\* Whose text is s.
Whose(s, b) == \A c \in Buffers : ts[c] = s => c = b

\* A step that schedules revision r of Buffer b with its state s.
ParseStep(b, s, d, t, r, single) ==
  /\ Parse(s, d, t.generation, r, single)
  /\ ts' = [ts EXCEPT ![b] = s] /\ revision' = [revision EXCEPT ![b] = r]
  /\ lua' = [lua EXCEPT ![s] = t]
  /\ followup' \in States \cup {NoState} /\ (followup' = followup \/ followup = s)
  /\ UNCHANGED <<completed, workers, signalled, unheard, polling, main>>

LEMMA ParseInv ==
  ASSUME IInv, main = "run", NEW b \in Buffers, NEW s \in States, NEW d \in Documents,
         NEW t \in Tables,
         NEW r \in 1..MaxRevision, NEW single \in BOOLEAN, ParseStep(b, s, d, t, r, single),
         ts[b] = s \/ (ts[b] = NoState /\ JobsOf(s) = {}), Whose(s, b),
         d.owned, ~d.closed, d.active = NoJob, d.refs = Cardinality(JobsOf(s)) + 1,
         single => d.tree = NoTree \/ d.tree.at = r - 1,
         t.status # "ready", t.scheduled = r
  PROVE  IInv'
<1> USE DEF IInv
<1>1. PICK j \in FreeJobs :
        LET tree == IF single /\ d.tree # NoTree THEN Edited(d.tree, r) ELSE d.tree
        IN /\ doc' = [doc EXCEPT ![s] = [d EXCEPT !.status = "queued", !.active = j,
                                              !.refs = d.refs + 1, !.tree = tree]]
           /\ job' = [job EXCEPT ![j] = [NewJob EXCEPT !.doc = s, !.generation = t.generation,
                                 !.revision = r, !.old = IF single THEN tree ELSE NoTree]]
           /\ queue' = Append(queue, j)
  BY DEF ParseStep, Parse, Cancelled
<1> DEFINE tree == IF single /\ d.tree # NoTree THEN Edited(d.tree, r) ELSE d.tree
<1>2. tree \in Trees /\ (single => tree = NoTree \/ tree.at = r)
  <2>1. CASE single /\ d.tree # NoTree
    <3>1. d.tree \in [of : 0..MaxRevision, at : 0..MaxRevision]
      BY <2>1 DEF Documents, Trees
    <3> QED  BY <2>1, <3>1 DEF Edited, Trees
  <2> QED  BY <2>1 DEF Documents, Trees
<1> HIDE DEF tree
<1>3. /\ doc' = [doc EXCEPT ![s] = [d EXCEPT !.status = "queued", !.active = j,
                                              !.refs = d.refs + 1, !.tree = tree]]
      /\ job' = [job EXCEPT ![j] = [NewJob EXCEPT !.doc = s, !.generation = t.generation,
                                 !.revision = r, !.old = IF single THEN tree ELSE NoTree]]
  BY <1>1 DEF tree, Documents
<1>4. j \in Jobs /\ j \notin Outstanding
  BY DEF FreeJobs
<1>5. /\ doc' \in [States -> Documents] /\ \A x \in States \ {s} : doc'[x] = doc[x]
      /\ doc'[s].status = "queued" /\ doc'[s].active = j /\ doc'[s].refs = d.refs + 1
      /\ doc'[s].tree = tree /\ doc'[s].owned /\ ~doc'[s].closed
  <2> DEFINE e == [d EXCEPT !.status = "queued", !.active = j, !.refs = d.refs + 1, !.tree = tree]
  <2>1. e \in Documents
    <3>1. d.refs \in Nat /\ d.refs + 1 \in Nat
      BY DEF Documents
    <3> QED  BY <1>2, <1>4, <3>1 DEF Documents
  <2>2. /\ e.status = "queued" /\ e.active = j /\ e.refs = d.refs + 1 /\ e.tree = tree
        /\ e.owned = d.owned /\ e.closed = d.closed
    BY DEF Documents
  <2>3. doc' = [doc EXCEPT ![s] = e]
    BY <1>3
  <2> HIDE DEF e
  <2>4. doc' \in [States -> Documents] /\ doc'[s] = e /\ \A x \in States \ {s} : doc'[x] = doc[x]
    BY <2>1, <2>3 DEF TypeOK
  <2> QED  BY <2>2, <2>4
<1>6. /\ job' \in [Jobs -> ParseJobs] /\ \A k \in Jobs \ {j} : job'[k] = job[k]
      /\ job'[j].doc = s /\ job'[j].generation = t.generation /\ job'[j].revision = r
      /\ job'[j].old = (IF single THEN tree ELSE NoTree) /\ job'[j].outcome = "none"
      /\ ~job'[j].cancel /\ ~job'[j].cleanup
  <2>1. NoTree \in Trees /\ r \in 0..MaxRevision
    BY BoundsAssumption DEF Trees
  <2> QED  BY <1>2, <1>3, <1>4, <2>1 DEF TypeOK, ParseJobs, NewJob, Tables
<1>7. PlaceInv' /\ Outstanding' = Outstanding \cup {j} /\ queue' \in Seq(Jobs)
  BY <1>1, QueuedPlaces DEF ParseStep, workers
<1>8. /\ Cardinality(JobsOf(s)') = Cardinality(JobsOf(s)) + 1
      /\ JobsOf(s)' = JobsOf(s) \cup {j}
      /\ \A x : x # s => JobsOf(x)' = JobsOf(x)
  BY <1>4, <1>6, <1>7, AddedJobs, OutstandingJobs
<1>9. /\ ts' \in [Buffers -> States \cup {NoState}] /\ ts'[b] = s
      /\ \A c \in Buffers \ {b} : ts'[c] = ts[c] /\ ts'[c] # s
      /\ revision' \in [Buffers -> 1..MaxRevision] /\ revision'[b] = r
      /\ \A c \in Buffers \ {b} : revision'[c] = revision[c]
      /\ lua' \in [States -> Tables] /\ lua'[s] = t /\ \A x \in States \ {s} : lua'[x] = lua[x]
  BY DEF ParseStep, TypeOK, Whose
<1>10. /\ Attached' = Attached \cup {s} /\ Attached \subseteq States /\ s # NoState
       /\ \A x \in Attached : \E c \in Buffers : ts[c] = x
  BY <1>9, OutstandingJobs DEF Attached, TypeOK
<1>11. TypeOK'
  BY <1>5, <1>6, <1>7, <1>9 DEF TypeOK, ParseStep, workers
<1>12. RefInv'
  <2>1. \A k \in Outstanding' : job'[k].doc \in States
    BY <1>4, <1>6, <1>7, OutstandingJobs DEF RefInv
  <2>2. ASSUME NEW x \in States
        PROVE  doc'[x].refs = Cardinality(JobsOf(x)') + (IF doc'[x].owned THEN 1 ELSE 0)
    <3>1. CASE x = s
      BY <3>1, <1>5, <1>8, OutstandingJobs DEF RefInv
    <3>2. CASE x # s
      BY <3>2, <1>5, <1>8 DEF RefInv
    <3> QED  BY <3>1, <3>2
  <2>3. \A x \in States : doc'[x].status = "none" => doc'[x] = NewDoc
    BY <1>5 DEF RefInv
  <2> QED  BY <2>1, <2>2, <2>3 DEF RefInv
<1>13. ActiveInv'
  <2>1. UNCHANGED <<held, pc>> /\ \A w \in Workers : held[w] # j
    BY <1>4, OutstandingJobs DEF ParseStep, workers
  <2>2. ASSUME NEW x \in States, doc'[x].active # NoJob
        PROVE  /\ doc'[x].active \in JobsOf(x)' /\ ~job'[doc'[x].active].cleanup
               /\ \A w \in Workers : held'[w] = doc'[x].active => pc'[w] # "free"
    <3>1. CASE x = s
      BY <3>1, <2>1, <1>5, <1>6, <1>8
    <3>2. CASE x # s
      <4>1. doc[x].active \in JobsOf(x) /\ doc[x].active \in Jobs \ {j} /\ doc'[x].active = doc[x].active
        BY <2>2, <3>2, <1>4, <1>5, OutstandingJobs DEF ActiveInv, JobsOf
      <4> QED  BY <2>1, <2>2, <3>2, <4>1, <1>6, <1>8 DEF ActiveInv
    <3> QED  BY <3>1, <3>2
  <2>3. \A w \in Workers : pc'[w] \in {"parse", "finish"} => ~job'[held'[w]].cleanup
    <3>1. \A w \in Workers : pc[w] \in {"parse", "finish"} => held[w] \in Jobs \ {j}
      BY <2>1, OutstandingJobs DEF PlaceInv, TypeOK
    <3> QED  BY <3>1, <2>1, <1>6 DEF ActiveInv
  <2> QED  BY <2>2, <2>3 DEF ActiveInv
<1>14. TreeInv'
  BY <1>2, <1>4, <1>6, <1>7, OutstandingJobs DEF TreeInv
<1>15. AttachInv'
  <2>1. \A c, e \in Buffers : ts'[c] = ts'[e] /\ ts'[c] # NoState => c = e
    BY <1>9 DEF AttachInv
  <2>2. \A x \in States \ Attached' : lua'[x].generation = 0
    BY <1>9, <1>10 DEF AttachInv
  <2>3. \A x \in Attached' : doc'[x].owned /\ ~doc'[x].closed
    BY <1>5, <1>10 DEF AttachInv
  <2>4. polling' \subseteq Attached'
    BY <1>10 DEF AttachInv, ParseStep
  <2> QED  BY <2>1, <2>2, <2>3, <2>4 DEF AttachInv
<1>16. StateInv'
  BY <1>4, <1>5, <1>6, <1>8, <1>9, <1>10, OutstandingJobs DEF StateInv, Busy, ActiveInv, JobsOf
<1>17. RevisionInv'
  <2> SUFFICES ASSUME NEW c \in Buffers, ts'[c] # NoState
               PROVE  /\ lua'[ts'[c]].scheduled <= revision'[c]
                      /\ ~lua'[ts'[c]].pending => lua'[ts'[c]].scheduled = revision'[c]
    BY DEF RevisionInv
  <2>1. CASE c = b
    BY <2>1, <1>9
  <2>2. CASE c # b
    <3>1. ts[c] \in States \ {s} /\ ts'[c] = ts[c]
      BY <2>2, <1>9 DEF TypeOK
    <3> QED  BY <2>2, <3>1, <1>9 DEF RevisionInv
  <2> QED  BY <2>1, <2>2
<1>18. PollInv'
  <2> SUFFICES ASSUME NEW x \in Attached'
               PROVE  /\ doc'[x].status \in {"queued", "parsing", "ready", "failed"}
                      /\ doc'[x].status \in {"queued", "parsing"} => doc'[x].active # NoJob
                      /\ doc'[x].active # NoJob => /\ ~job'[doc'[x].active].cancel
                                                  /\ job'[doc'[x].active].outcome # "canceled"
                      /\ (\E k \in completed' : job'[k].doc = x) => signalled' \/ x \in polling' \/ x \in unheard'
    BY DEF PollInv, Busy
  <2>1. UNCHANGED <<completed, signalled, unheard, polling>> /\ j \notin completed /\ completed \subseteq Jobs
    BY <1>4, OutstandingJobs DEF ParseStep, TypeOK
  <2>2. CASE x = s
    <3>1. ts[b] = NoState => ~(\E k \in completed : job[k].doc = s)
      BY <1>10, OutstandingJobs DEF JobsOf
    <3>2. (\E k \in completed : job'[k].doc = s) => signalled \/ s \in polling \/ s \in unheard
      <4>1. ts[b] = s => s \in Attached
        BY <1>10 DEF Attached
      <4> QED  BY <2>1, <3>1, <4>1, <1>6, <1>4 DEF PollInv
    <3>3. /\ doc'[s].status = "queued" /\ doc'[s].active = j /\ j # NoJob
          /\ ~job'[j].cancel /\ job'[j].outcome # "canceled"
      BY <1>4, <1>5, <1>6, OutstandingJobs
    <3> QED  BY <2>1, <2>2, <3>2, <3>3
  <2>3. CASE x # s
    <3>1. x \in Attached /\ x \in States
      BY <2>3, <1>10
    <3>2. doc[x].active # NoJob => doc[x].active \in Jobs \ {j}
      BY <3>1, <1>4, OutstandingJobs DEF ActiveInv, JobsOf
    <3>3. doc'[x] = doc[x] /\ \A k \in completed : job'[k] = job[k]
      BY <2>1, <2>3, <3>1, <1>5, <1>6
    <3>4. doc[x].active # NoJob => job'[doc[x].active] = job[doc[x].active]
      BY <3>2, <1>6
    <3> QED  BY <2>1, <3>1, <3>3, <3>4 DEF PollInv, Busy
  <2> QED  BY <2>2, <2>3
<1>19. SettleInv'
  <2> SUFFICES ASSUME NEW c \in Buffers, ts'[c] # NoState,
                      doc'[ts'[c]].status \notin {"queued", "parsing"}, followup' # ts'[c]
               PROVE  \/ lua'[ts'[c]].status = doc'[ts'[c]].status /\ lua'[ts'[c]].scheduled = revision'[c]
                      \/ lua'[ts'[c]].thread /\ lua'[ts'[c]].scheduled # revision'[c]
    BY DEF SettleInv, Busy
  <2>1. c # b
    BY <1>5, <1>9
  <2>2. ts[c] \in States \ {s} /\ ts'[c] = ts[c]
    BY <2>1, <1>9 DEF TypeOK
  <2>3. ~Busy(ts[c]) /\ followup # ts[c]
    BY <2>2, <1>5 DEF Busy, ParseStep
  <2> QED  BY <2>1, <2>2, <2>3, <1>5, <1>9 DEF SettleInv
<1> QED  BY <1>7, <1>11, <1>12, <1>13, <1>14, <1>15, <1>16, <1>17, <1>18, <1>19

\* A step that changes the text of a Buffer and the table of its state, and schedules nothing.
TableStep(b, s, t, r) ==
  /\ ts[b] = s /\ revision' = [revision EXCEPT ![b] = r]
  /\ lua' = [lua EXCEPT ![s] = t]
  /\ followup' \in States \cup {NoState} /\ (followup' = followup \/ (followup = s /\ Busy(s)))
  /\ UNCHANGED <<ts, doc, job, queue, completed, workers, signalled, unheard, polling, main>>

\* Such a step keeps what was scheduled. It makes nothing ready, and what it leaves settled was.
LEMMA TableInv ==
  ASSUME IInv, NEW b \in Buffers, NEW s \in States, NEW t \in Tables, NEW r \in 1..MaxRevision,
         TableStep(b, s, t, r), r >= revision[b],
         t.generation = lua[s].generation, t.scheduled = lua[s].scheduled,
         t.pending \/ (~lua[s].pending /\ r = revision[b]),
         t.status # "ready" \/ t.status = lua[s].status,
         t.pending => lua[s].pending \/ t.status # "ready",
         \/ Busy(s)
         \/ t.status = lua[s].status /\ r = revision[b] /\ (t.thread \/ t.scheduled = r)
         \/ t.thread /\ t.scheduled # r
  PROVE  IInv'
<1> USE DEF IInv
<1>1. /\ Attached' = Attached /\ Outstanding' = Outstanding /\ \A x : JobsOf(x)' = JobsOf(x)
  BY DEF TableStep, Attached, Outstanding, workers, JobsOf
<1>2. /\ revision' \in [Buffers -> 1..MaxRevision] /\ revision'[b] = r
      /\ \A c \in Buffers \ {b} : revision'[c] = revision[c]
      /\ lua' \in [States -> Tables] /\ lua'[s] = t /\ \A x \in States \ {s} : lua'[x] = lua[x]
      /\ UNCHANGED <<ts, doc, job, queue, completed, held, pc, signalled, unheard, polling, main>>
  BY DEF TableStep, TypeOK, workers
<1>3. /\ s \in Attached /\ s # NoState /\ \A c \in Buffers : ts[c] = s => c = b
      /\ Attached \subseteq States /\ \A x \in Attached : \E c \in Buffers : ts[c] = x
      /\ \A c \in Buffers : ts[c] # NoState => ts[c] \in Attached
  BY OutstandingJobs DEF TableStep, Attached, AttachInv, TypeOK
<1>4. TypeOK'
  BY <1>2 DEF TypeOK, TableStep
<1>5. PlaceInv' /\ RefInv' /\ ActiveInv' /\ TreeInv'
  BY <1>1, <1>2 DEF PlaceInv, RefInv, ActiveInv, TreeInv
<1>6. AttachInv'
  BY <1>1, <1>2, <1>3 DEF AttachInv
<1>7. StateInv'
  BY <1>1, <1>2, <1>3 DEF StateInv, Busy
<1>8. PollInv'
  BY <1>1, <1>2 DEF PollInv, Busy
<1>9. RevisionInv'
  <2>1. /\ lua[s].scheduled \in Nat /\ revision[b] \in Nat /\ r \in Nat
        /\ lua[s].scheduled <= revision[b] /\ (~lua[s].pending => lua[s].scheduled = revision[b])
    BY <1>3 DEF RevisionInv, TypeOK, Tables, TableStep
  <2> SUFFICES ASSUME NEW c \in Buffers, ts[c] # NoState
               PROVE  /\ lua'[ts[c]].scheduled <= revision'[c]
                      /\ ~lua'[ts[c]].pending => lua'[ts[c]].scheduled = revision'[c]
    BY <1>2 DEF RevisionInv
  <2>2. CASE c = b
    <3>1. ts[c] = s
      BY <2>2 DEF TableStep
    <3> QED  BY <1>2, <2>1, <2>2, <3>1
  <2>3. CASE c # b
    <3>1. ts[c] \in States \ {s}
      BY <1>3, <2>3 DEF TypeOK
    <3> QED  BY <1>2, <2>3, <3>1 DEF RevisionInv
  <2> QED  BY <2>2, <2>3
<1>10. SettleInv'
  BY <1>2, <1>3 DEF SettleInv, Busy, TableStep
<1> QED  BY <1>4, <1>5, <1>6, <1>7, <1>8, <1>9, <1>10

\* A request to parse revision r of an attached Buffer: it waits for a parse that runs, or starts one.
RequestStep(b, s, t, r, single) ==
  /\ ts[b] = s /\ revision' = [revision EXCEPT ![b] = r]
  /\ lua' = [lua EXCEPT ![s] = t]
  /\ IF Busy(s) THEN UNCHANGED <<doc, job, queue>>
     ELSE Parse(s, doc[s], lua[s].generation + 1, r, single)
  /\ followup' \in States \cup {NoState} /\ (followup' = followup \/ followup = s)
  /\ UNCHANGED <<ts, completed, workers, signalled, unheard, polling, main>>

LEMMA RequestInv ==
  ASSUME IInv, main = "run", NEW b \in Buffers, NEW s \in States, NEW t \in Tables,
         NEW r \in 1..MaxRevision, NEW single \in BOOLEAN, RequestStep(b, s, t, r, single),
         r >= revision[b], t.status # "ready", single
             => doc[s].tree = NoTree \/ doc[s].tree.at = r - 1,
         IF Busy(s) THEN /\ t.generation = lua[s].generation /\ t.scheduled = lua[s].scheduled
                         /\ t.pending \/ (t.scheduled = r /\ ~lua[s].pending)
                    ELSE t.generation = lua[s].generation + 1 /\ t.scheduled = r
  PROVE  IInv'
<1> USE DEF IInv
<1>1. CASE Busy(s)
  <2>1. TableStep(b, s, t, r)
    BY <1>1 DEF RequestStep, TableStep
  <2>2. t.pending \/ (~lua[s].pending /\ r = revision[b])
    <3> SUFFICES ASSUME ~t.pending PROVE ~lua[s].pending /\ r = revision[b]
      OBVIOUS
    <3>1. t.scheduled = r /\ ~lua[s].pending /\ t.scheduled = lua[s].scheduled
      BY <1>1
    <3>2. ts[b] # NoState /\ ts[b] = s
      BY OutstandingJobs DEF RequestStep
    <3>3. lua[s].scheduled = revision[b]
      BY <3>1, <3>2 DEF RevisionInv
    <3> QED  BY <3>1, <3>3
  <2> QED  BY <1>1, <2>1, <2>2, TableInv
<1>2. CASE ~Busy(s)
  <2>1. s \in Attached /\ \A c \in Buffers : ts[c] = s => c = b
    BY OutstandingJobs DEF RequestStep, Attached, AttachInv
  <2>2. /\ doc[s] \in Documents /\ doc[s].owned /\ ~doc[s].closed /\ doc[s].active = NoJob
        /\ doc[s].refs = Cardinality(JobsOf(s)) + 1
    BY <1>2, <2>1 DEF TypeOK, AttachInv, StateInv, RefInv
  <2>3. ParseStep(b, s, doc[s], t, r, single)
    BY <1>2 DEF RequestStep, ParseStep, TypeOK
  <2> QED  BY <1>2, <2>1, <2>2, <2>3, ParseInv DEF RequestStep, Whose
<1> QED  BY <1>1, <1>2

LEMMA StaleTable ==
  \A t \in Tables : /\ Stale(t) \in Tables /\ Stale(t).generation = t.generation
                     /\ Stale(t).scheduled = t.scheduled /\ Stale(t).pending /\ Stale(t).thread
                     /\ Stale(t).status = "stale"
BY DEF Stale, Tables

\* What a request makes of a table, as it is or marked stale.
LEMMA RequestedTable ==
  ASSUME NEW s \in States, NEW t \in Tables, NEW r \in 1..MaxRevision
  PROVE  LET u == Requested(s, t, r)
         IN /\ u \in Tables /\ Stale(u) \in Tables
            /\ Stale(u).generation = u.generation /\ Stale(u).scheduled = u.scheduled
            /\ Stale(u).pending /\ Stale(u).thread /\ Stale(u).status = "stale"
            /\ Busy(s) => /\ u.generation = t.generation /\ u.scheduled = t.scheduled
                          /\ u.pending \/ (u.scheduled = r /\ ~t.pending)
                          /\ u.status = t.status
            /\ ~Busy(s) => /\ u.generation = t.generation + 1 /\ u.scheduled = r
                           /\ u.status = "queued" /\ ~u.pending
<1>1. CASE Busy(s)
  <2> DEFINE u == [t EXCEPT !.pending = @ \/ t.scheduled # r]
  <2>1. /\ u \in Tables /\ u.generation = t.generation /\ u.scheduled = t.scheduled
        /\ u.status = t.status /\ u.pending = (t.pending \/ t.scheduled # r)
    BY DEF Tables
  <2>2. u.pending \/ (u.scheduled = r /\ ~t.pending)
    <3>1. CASE t.scheduled # r
      BY <2>1, <3>1
    <3>2. CASE t.scheduled = r
      BY <2>1, <3>2
    <3> QED  BY <3>1, <3>2
  <2>3. Requested(s, t, r) = u
    BY <1>1 DEF Requested
  <2> HIDE DEF u
  <2> QED  BY <1>1, <2>1, <2>2, <2>3, StaleTable
<1>2. CASE ~Busy(s)
  <2> DEFINE u == [t EXCEPT !.generation = @ + 1, !.scheduled = r, !.pending = FALSE, !.status = "queued"]
  <2>1. r \in 0..MaxRevision /\ t.generation + 1 \in Nat
    BY DEF Tables
  <2>2. /\ u \in Tables /\ u.generation = t.generation + 1 /\ u.scheduled = r
        /\ u.status = "queued" /\ u.pending = FALSE
    BY <2>1 DEF Tables
  <2>3. Requested(s, t, r) = u
    BY <1>2 DEF Requested
  <2> HIDE DEF u
  <2> QED  BY <1>2, <2>2, <2>3, StaleTable
<1> QED  BY <1>1, <1>2

LEMMA EditInv == ASSUME IInv, NEW b \in Buffers, NEW single \in BOOLEAN, Edit(b, single)
                 PROVE IInv'
<1> USE DEF IInv
<1> DEFINE s == ts[b]  r == revision[b] + 1
<1>1. /\ r \in 1..MaxRevision /\ r >= revision[b] /\ revision[b] \in Nat /\ main = "run"
  BY BoundsAssumption DEF Edit, Running, TypeOK
<1>2. CASE s = NoState
  <2>1. UNCHANGED <<ts, lua, doc, job, queue, completed, workers, loop>>
    BY <1>2 DEF Edit
  <2>2. /\ revision' \in [Buffers -> 1..MaxRevision]
        /\ \A c \in Buffers : ts[c] # NoState => revision'[c] = revision[c]
    BY <1>1, <1>2 DEF Edit, TypeOK
  <2>3. /\ Attached' = Attached /\ Outstanding' = Outstanding /\ \A x : JobsOf(x)' = JobsOf(x)
        /\ UNCHANGED <<held, pc, signalled, unheard, polling, followup, main>>
    BY <2>1 DEF Attached, Outstanding, JobsOf, workers, loop
  <2>4. TypeOK' /\ PlaceInv' /\ RefInv' /\ ActiveInv' /\ TreeInv' /\ AttachInv'
    BY <2>1, <2>2, <2>3 DEF TypeOK, PlaceInv, RefInv, ActiveInv, TreeInv, AttachInv
  <2>5. StateInv' /\ RevisionInv' /\ PollInv' /\ SettleInv'
    BY <2>1, <2>2, <2>3 DEF StateInv, RevisionInv, PollInv, SettleInv, Busy
  <2> QED  BY <2>4, <2>5
<1>3. CASE s # NoState
  <2>1. s \in States /\ s \in Attached /\ lua[s] \in Tables
    BY <1>3 DEF TypeOK, Attached
  <2>2. /\ UNCHANGED <<ts, completed, workers, signalled, unheard, polling, followup, main>>
        /\ revision' = [revision EXCEPT ![b] = r]
        /\ followup' \in States \cup {NoState}
    BY DEF Edit, loop, TypeOK
  <2>3. CASE EditsTree(s, single)
    <3> DEFINE old == [lua[s] EXCEPT !.status = "stale"]  t == Requested(s, old, r)
    <3>1. old \in Tables /\ old.generation = lua[s].generation /\ old.status = "stale"
      BY <2>1 DEF Tables
    <3>2. ~Busy(s) /\ doc[s].tree.at = r - 1
      <4>1. /\ doc[s].status = "ready" /\ doc[s].tree = Tree(lua[s].scheduled, lua[s].scheduled)
            /\ lua[s].scheduled = revision[b]
        BY <2>1, <2>3, <1>3 DEF EditsTree, StateInv, RevisionInv
      <4> QED  BY <4>1, <1>1 DEF Busy, Tree
    <3>3. lua' = [lua EXCEPT ![s] = t] /\ Schedule(s, lua[s], r, TRUE)
      BY <1>3, <2>3 DEF Edit
    <3> HIDE DEF old
    <3>4. t \in Tables /\ t.generation = lua[s].generation + 1 /\ t.scheduled = r /\ t.status = "queued"
      BY <1>1, <2>1, <3>1, <3>2, RequestedTable
    <3> HIDE DEF t
    <3>5. RequestStep(b, s, t, r, TRUE)
      BY <2>2, <3>2, <3>3 DEF RequestStep, Schedule
    <3> QED  BY <1>1, <2>1, <3>2, <3>4, <3>5, RequestInv
  <2>4. CASE ~EditsTree(s, single)
    <3> DEFINE t == Stale(lua[s])
    <3>1. lua' = [lua EXCEPT ![s] = t] /\ UNCHANGED <<doc, job, queue>>
      BY <1>3, <2>4 DEF Edit
    <3>2. /\ t \in Tables /\ t.generation = lua[s].generation /\ t.scheduled = lua[s].scheduled
          /\ t.pending /\ t.thread /\ t.status = "stale"
      BY <2>1 DEF Stale, Tables
    <3> HIDE DEF t
    <3>3. t.scheduled # r
      BY <1>1, <1>3, <2>1, <3>2 DEF RevisionInv, Tables
    <3>4. TableStep(b, s, t, r)
      BY <2>2, <3>1 DEF TableStep
    <3> QED  BY <1>1, <2>1, <3>2, <3>3, <3>4, TableInv
  <2> QED  BY <2>3, <2>4
<1> QED  BY <1>2, <1>3

\* A state that is attached anew was free, so nothing names it.
LEMMA AttachNewInv ==
  ASSUME IInv, main = "run", NEW b \in Buffers, NEW r \in 1..MaxRevision, NEW loading \in BOOLEAN,
         ts[b] = NoState, AttachNew(b, r, loading), revision' = [revision EXCEPT ![b] = r],
         UNCHANGED <<completed, workers, loop>>
  PROVE  IInv'
<1> USE DEF IInv
<1>1. PICK s \in FreeStates :
    /\ ts' = [ts EXCEPT ![b] = s]
    /\ lua' = [lua EXCEPT ![s] = IF loading THEN Stale(Requested(s, lua[s], r)) ELSE Requested(s, lua[s], r)]
    /\ Parse(s, [doc[s] EXCEPT !.status = "idle", !.refs = 1, !.owned = TRUE], 1, r, FALSE)
  BY DEF AttachNew, TypeOK, FreeStates
<1>2. /\ s \in States /\ doc[s] = NewDoc /\ ~Busy(s)
  BY <1>1 DEF FreeStates, RefInv, Busy
<1>3. JobsOf(s) = {} /\ Cardinality(JobsOf(s)) = 0
  <2>1. doc[s].refs = 0 /\ doc[s].owned = FALSE
    BY <1>2 DEF NewDoc
  <2>2. Cardinality(JobsOf(s)) = 0
    BY <1>2, <2>1, OutstandingJobs DEF RefInv
  <2> QED  BY <2>2, OutstandingJobs, FS_EmptySet
<1>4. s \notin Attached
  BY <1>2 DEF AttachInv, NewDoc
<1> DEFINE d == [doc[s] EXCEPT !.status = "idle", !.refs = 1, !.owned = TRUE]
           u == Requested(s, lua[s], r)
           t == IF loading THEN Stale(u) ELSE u
<1>5. /\ d \in Documents /\ d.owned /\ ~d.closed /\ d.active = NoJob /\ d.refs = 1
  <2>1. doc[s] \in Documents
    BY <1>2 DEF TypeOK
  <2>2. /\ d.status = "idle" /\ d.refs = 1 /\ d.owned = TRUE
        /\ d.closed = FALSE /\ d.tree = NoTree /\ d.active = NoJob
    BY <1>2 DEF NewDoc
  <2>3. NoTree \in Trees
    BY DEF Trees
  <2>4. d \in Documents
    BY <2>1, <2>3 DEF Documents
  <2> HIDE DEF d
  <2> QED  BY <2>2, <2>4
<1>6. /\ t \in Tables /\ t.generation = 1 /\ t.scheduled = r /\ t.status # "ready"
  <2>1. lua[s] \in Tables /\ lua[s].generation = 0
    BY <1>2, <1>4 DEF TypeOK, AttachInv
  <2> HIDE DEF u
  <2>2. /\ u \in Tables /\ Stale(u) \in Tables
        /\ Stale(u).generation = u.generation /\ Stale(u).scheduled = u.scheduled
        /\ Stale(u).status = "stale"
        /\ u.generation = 0 + 1 /\ u.scheduled = r /\ u.status = "queued"
    BY <1>2, <2>1, RequestedTable DEF u
  <2> QED  BY <2>2
<1>7. ts' = [ts EXCEPT ![b] = s] /\ lua' = [lua EXCEPT ![s] = t] /\ Parse(s, d, 1, r, FALSE)
  BY <1>1
<1> HIDE DEF d, t
<1>8. ParseStep(b, s, d, t, r, FALSE)
  BY <1>6, <1>7 DEF ParseStep, loop, TypeOK
<1>9. Whose(s, b)
  BY <1>2, <1>4, OutstandingJobs DEF Whose, Attached
<1>10. FALSE \in BOOLEAN /\ d.refs = Cardinality(JobsOf(s)) + 1
  BY <1>3, <1>5
<1> QED  BY <1>2, <1>3, <1>5, <1>6, <1>8, <1>9, <1>10, ParseInv

LEMMA UpdateInv == ASSUME IInv, NEW b \in Buffers, AttachOrUpdate(b) PROVE IInv'
<1> USE DEF IInv
<1>1. main = "run" /\ revision[b] \in 1..MaxRevision /\ revision[b] >= revision[b]
  BY DEF AttachOrUpdate, Running, TypeOK
<1>2. revision' = [revision EXCEPT ![b] = revision[b]]
  BY DEF AttachOrUpdate, TypeOK
<1>3. CASE ts[b] = NoState
  BY <1>1, <1>2, <1>3, AttachNewInv DEF AttachOrUpdate
<1>4. CASE ts[b] # NoState
  <2> DEFINE s == ts[b]  r == revision[b]  t == Requested(s, lua[s], r)
  <2>1. s \in States /\ s \in Attached /\ lua[s] \in Tables
    BY <1>4 DEF TypeOK, Attached
  <2>2. /\ t \in Tables
        /\ Busy(s) => /\ t.generation = lua[s].generation /\ t.scheduled = lua[s].scheduled
                      /\ t.pending \/ (t.scheduled = r /\ ~lua[s].pending)
                      /\ t.status = lua[s].status
        /\ ~Busy(s) => t.generation = lua[s].generation + 1 /\ t.scheduled = r /\ t.status = "queued"
    BY <1>1, <2>1, RequestedTable
  <2>3. lua' = [lua EXCEPT ![s] = t] /\ Schedule(s, lua[s], r, FALSE) /\ ts' = ts
    BY <1>4 DEF AttachOrUpdate
  <2> HIDE DEF t
  <2>4. t.status # "ready"
    BY <2>1, <2>2 DEF StateInv, Busy
  <2>5. RequestStep(b, s, t, r, FALSE)
    BY <1>2, <2>3 DEF AttachOrUpdate, RequestStep, Schedule, loop, TypeOK
  <2> QED  BY <1>1, <2>1, <2>2, <2>4, <2>5, RequestInv
<1> QED  BY <1>3, <1>4

LEMMA LoadInv == ASSUME IInv, NEW b \in Buffers, Load(b) PROVE IInv'
<1> USE DEF IInv
<1> DEFINE s == ts[b]  r == revision[b] + 1
<1>1. main = "run" /\ r \in 1..MaxRevision /\ r >= revision[b]
  BY BoundsAssumption DEF Load, Running, TypeOK
<1>2. revision' = [revision EXCEPT ![b] = r] /\ UNCHANGED <<completed, workers, loop>>
  BY DEF Load
<1>3. CASE s = NoState
  <2>1. AttachNew(b, r, TRUE)
    BY <1>3 DEF Load
  <2> QED  BY <1>1, <1>2, <1>3, <2>1, AttachNewInv
<1>4. CASE s # NoState
  <2> DEFINE u == Requested(s, lua[s], r)  t == Stale(u)
  <2>1. s \in States /\ s \in Attached /\ lua[s] \in Tables
    BY <1>4 DEF TypeOK, Attached
  <2>2. /\ t \in Tables /\ t.pending /\ t.status = "stale"
        /\ Busy(s) => t.generation = lua[s].generation /\ t.scheduled = lua[s].scheduled
        /\ ~Busy(s) => t.generation = lua[s].generation + 1 /\ t.scheduled = r
    BY <1>1, <2>1, RequestedTable
  <2>3. lua' = [lua EXCEPT ![s] = t] /\ Schedule(s, lua[s], r, FALSE) /\ ts' = ts
    BY <1>4 DEF Load
  <2> HIDE DEF t
  <2>4. RequestStep(b, s, t, r, FALSE)
    BY <1>2, <2>3 DEF RequestStep, Schedule, loop, TypeOK
  <2> QED  BY <1>1, <2>1, <2>2, <2>4, RequestInv
<1> QED  BY <1>3, <1>4

LEMMA CoalescedInv == ASSUME IInv, NEW s \in States, Coalesced(s) PROVE IInv'
<1> USE DEF IInv
<1> DEFINE t == [lua[s] EXCEPT !.thread = FALSE]
<1>1. /\ main = "run" /\ followup = NoState
      /\ UNCHANGED <<revision, ts, completed, workers, loop>>
  BY DEF Coalesced, Running
<1>2. /\ lua[s] \in Tables /\ t \in Tables /\ t.generation = lua[s].generation
      /\ t.scheduled = lua[s].scheduled /\ t.pending = lua[s].pending /\ t.status = lua[s].status
  BY DEF TypeOK, Tables
<1>3. CASE s \notin Attached /\ lua' = [lua EXCEPT ![s].thread = FALSE] /\ UNCHANGED <<doc, job, queue>>
  <2>1. lua' = [lua EXCEPT ![s] = t]
    BY <1>3 DEF TypeOK
  <2> HIDE DEF t
  <2>2. lua' \in [States -> Tables] /\ lua'[s] = t /\ \A x \in States \ {s} : lua'[x] = lua[x]
    BY <1>2, <2>1 DEF TypeOK
  <2>3. /\ Attached' = Attached /\ Outstanding' = Outstanding /\ \A x : JobsOf(x)' = JobsOf(x)
        /\ UNCHANGED <<held, pc, signalled, unheard, polling, followup, main>>
    BY <1>1, <1>3 DEF Attached, Outstanding, JobsOf, workers, loop
  <2>4. \A c \in Buffers : ts[c] # NoState => ts[c] \in States \ {s}
    BY <1>3 DEF TypeOK, Attached
  <2>5. Attached \subseteq States \ {s}
    BY <2>4 DEF Attached
  <2>6. TypeOK' /\ PlaceInv' /\ RefInv' /\ ActiveInv' /\ TreeInv' /\ AttachInv'
    BY <1>1, <1>2, <1>3, <2>2, <2>3 DEF TypeOK, PlaceInv, RefInv, ActiveInv, TreeInv, AttachInv
  <2>7. StateInv' /\ PollInv'
    BY <1>1, <1>3, <2>2, <2>3, <2>5 DEF StateInv, PollInv, Busy
  <2>8. RevisionInv' /\ SettleInv'
    BY <1>1, <1>3, <2>2, <2>3, <2>4 DEF RevisionInv, SettleInv, Busy
  <2> QED  BY <2>6, <2>7, <2>8
<1>4. CASE \E b \in Buffers :
             /\ ts[b] = s
             /\ IF t.scheduled = revision[b]
                THEN lua' = [lua EXCEPT ![s] = t] /\ UNCHANGED <<doc, job, queue>>
                ELSE /\ lua' = [lua EXCEPT ![s] = Requested(s, t, revision[b])]
                     /\ Schedule(s, t, revision[b], FALSE)
  <2>1. PICK b \in Buffers :
             /\ ts[b] = s
             /\ IF t.scheduled = revision[b]
                THEN lua' = [lua EXCEPT ![s] = t] /\ UNCHANGED <<doc, job, queue>>
                ELSE /\ lua' = [lua EXCEPT ![s] = Requested(s, t, revision[b])]
                     /\ Schedule(s, t, revision[b], FALSE)
    BY <1>4
  <2> HIDE DEF t
  <2>2. /\ s \in Attached /\ s # NoState /\ revision[b] \in 1..MaxRevision /\ revision[b] >= revision[b]
        /\ revision' = [revision EXCEPT ![b] = revision[b]]
    BY <1>1, <2>1, OutstandingJobs DEF Attached, TypeOK
  <2>3. CASE t.scheduled = revision[b]
    <3>1. TableStep(b, s, t, revision[b])
      BY <1>1, <2>1, <2>2, <2>3 DEF TableStep, loop, TypeOK
    <3>2. \/ Busy(s) \/ t.status = lua[s].status
      BY <1>2
    <3>3. t.pending => lua[s].pending \/ t.status # "ready"
      BY <1>2
    <3> QED  BY <1>2, <2>2, <2>3, <3>1, <3>3, TableInv
  <2>4. CASE t.scheduled # revision[b]
    <3> DEFINE u == Requested(s, t, revision[b])
    <3>1. /\ u \in Tables
          /\ Busy(s) => /\ u.generation = t.generation /\ u.scheduled = t.scheduled
                        /\ u.pending \/ (u.scheduled = revision[b] /\ ~t.pending)
                        /\ u.status = t.status
          /\ ~Busy(s) => u.generation = t.generation + 1 /\ u.scheduled = revision[b] /\ u.status = "queued"
      BY <1>2, <2>2, RequestedTable
    <3>2. lua' = [lua EXCEPT ![s] = u] /\ Schedule(s, t, revision[b], FALSE)
      BY <2>1, <2>4
    <3> HIDE DEF u
    <3>3. u.status # "ready"
      BY <1>2, <2>2, <3>1 DEF StateInv, Busy
    <3>4. RequestStep(b, s, u, revision[b], FALSE)
      BY <1>1, <1>2, <2>1, <2>2, <3>2 DEF RequestStep, Schedule, loop, TypeOK
    <3> QED  BY <1>1, <1>2, <2>2, <3>1, <3>3, <3>4, RequestInv
  <2> QED  BY <2>3, <2>4
<1> QED  BY <1>3, <1>4 DEF Coalesced

LEMMA FollowUpInv == ASSUME IInv, FollowUp PROVE IInv'
<1> USE DEF IInv
<1>1. /\ main = "run" /\ followup # NoState /\ followup' = NoState
      /\ UNCHANGED <<revision, ts, completed, workers, signalled, unheard, polling, main>>
  BY DEF FollowUp
<1> DEFINE s == followup
<1>2. PICK b \in Buffers : /\ ts[b] = s /\ lua' = [lua EXCEPT ![s] = Requested(s, lua[s], revision[b])]
                           /\ Schedule(s, lua[s], revision[b], FALSE)
  BY DEF FollowUp, TypeOK
<1>3. /\ s \in States /\ s \in Attached /\ lua[s] \in Tables
      /\ revision[b] \in 1..MaxRevision /\ revision[b] >= revision[b]
      /\ revision' = [revision EXCEPT ![b] = revision[b]]
  BY <1>1, <1>2 DEF Attached, TypeOK
<1> DEFINE u == Requested(s, lua[s], revision[b])
<1>4. /\ u \in Tables
      /\ Busy(s) => /\ u.generation = lua[s].generation /\ u.scheduled = lua[s].scheduled
                    /\ u.pending \/ (u.scheduled = revision[b] /\ ~lua[s].pending)
                    /\ u.status = lua[s].status
      /\ ~Busy(s) => u.generation = lua[s].generation + 1 /\ u.scheduled = revision[b] /\ u.status = "queued"
  BY <1>3, RequestedTable
<1>5. lua' = [lua EXCEPT ![s] = u]
  BY <1>2
<1> HIDE DEF u
<1>6. u.status # "ready"
  BY <1>3, <1>4 DEF StateInv, Busy
<1>7. RequestStep(b, s, u, revision[b], FALSE)
  BY <1>1, <1>2, <1>3, <1>5 DEF RequestStep, Schedule
<1> QED  BY <1>1, <1>3, <1>4, <1>6, <1>7, RequestInv

-----------------------------------------------------------------------------
(* Closing, and the collector *)

\* What is left of a document after n references of it went.
LEMMA ReleasedDoc ==
  ASSUME NEW d \in Documents, NEW n \in Nat, n <= d.refs
  PROVE  /\ Released(d, n) \in Documents
         /\ d.refs = n => Released(d, n) = NewDoc
         /\ d.refs # n => LET e == Released(d, n)
                          IN /\ e.refs = d.refs - n /\ e.status = d.status /\ e.closed = d.closed
                             /\ e.tree = d.tree /\ e.active = d.active /\ e.owned = d.owned
<1>1. NewDoc \in Documents
  BY DEF NewDoc, Documents, Trees
<1>2. CASE d.refs = n
  BY <1>1, <1>2 DEF Released
<1>3. CASE d.refs # n
  <2> DEFINE e == [d EXCEPT !.refs = d.refs - n]
  <2>1. d.refs - n \in Nat
    BY DEF Documents
  <2>2. /\ e \in Documents /\ e.refs = d.refs - n /\ e.status = d.status /\ e.closed = d.closed
        /\ e.tree = d.tree /\ e.active = d.active /\ e.owned = d.owned
    BY <2>1 DEF Documents
  <2>3. Released(d, n) = e
    BY <1>3 DEF Released, Documents
  <2> HIDE DEF e
  <2> QED  BY <1>3, <2>2, <2>3
<1> QED  BY <1>2, <1>3

\* A job that is only to be freed, a new one, and a new table.
LEMMA CleanupJob ==
  /\ \A s \in States : Cleanup(s) \in ParseJobs /\ Cleanup(s).doc = s /\ Cleanup(s).cleanup
  /\ NewJob \in ParseJobs /\ NewTable \in Tables /\ NewTable.generation = 0
<1>1. 0 \in Nat /\ 0 \in 0..MaxRevision /\ NoTree \in Trees
  BY BoundsAssumption DEF Trees
<1>2. NewJob \in ParseJobs
  BY <1>1 DEF NewJob, ParseJobs
<1>3. NewTable \in Tables /\ NewTable.generation = 0
  BY <1>1 DEF NewTable, Tables
<1>4. ASSUME NEW s \in States
      PROVE Cleanup(s) \in ParseJobs /\ Cleanup(s).doc = s /\ Cleanup(s).cleanup
  <2>1. Cleanup(s) = [NewJob EXCEPT !.doc = s, !.cleanup = TRUE]
    BY DEF Cleanup
  <2> QED  BY <1>2, <2>1 DEF ParseJobs
<1> QED  BY <1>2, <1>3, <1>4

LEMMA CloseInv == ASSUME IInv, NEW b \in Buffers, Close(b) PROVE IInv'
<1> USE DEF IInv
<1>0. PICK s \in States : s = ts[b]
  BY DEF Close, TypeOK
<1> DEFINE e == Closed(doc[s])
<1>1. /\ main = "run" /\ s # NoState /\ ts' = [ts EXCEPT ![b] = NoState]
      /\ doc' = [doc EXCEPT ![s] = e]
      /\ lua' = [lua EXCEPT ![s] = [NewTable EXCEPT !.thread = lua[s].thread]]
      /\ UNCHANGED <<revision, completed, held, pc, signalled, polling, followup, main>>
      /\ unheard' = unheard \ {s}
  BY <1>0 DEF Close, Running, workers
<1>2. PICK j \in FreeJobs : /\ job' = [Cancelled(job, doc[s].active) EXCEPT ![j] = Cleanup(s)]
                            /\ queue' = Append(queue, j)
  BY <1>0 DEF Close
<1>3. /\ s \in States /\ s \in Attached /\ Attached \subseteq States
      /\ \A c \in Buffers \ {b} : ts[c] # s
      /\ \A x \in Attached : \E c \in Buffers : ts[c] = x
  BY <1>0, <1>1, OutstandingJobs DEF TypeOK, Attached, AttachInv
<1>4. j \in Jobs /\ j \notin Outstanding
  BY DEF FreeJobs
<1>5. /\ doc' \in [States -> Documents] /\ \A x \in States \ {s} : doc'[x] = doc[x]
      /\ doc'[s].status = "closed" /\ doc'[s].closed /\ doc'[s].refs = doc[s].refs + 1
      /\ doc'[s].active = doc[s].active /\ doc'[s].owned = doc[s].owned
  <2>1. doc[s] \in Documents /\ doc[s].refs + 1 \in Nat
    BY <1>3 DEF TypeOK, Documents
  <2>2. e \in Documents
    BY <2>1 DEF Closed, Documents, Trees
  <2>3. /\ e.status = "closed" /\ e.closed /\ e.refs = doc[s].refs + 1
        /\ e.active = doc[s].active /\ e.owned = doc[s].owned
    BY <2>1 DEF Closed, Documents
  <2> HIDE DEF e
  <2>5. doc' \in [States -> Documents] /\ doc'[s] = e /\ \A x \in States \ {s} : doc'[x] = doc[x]
    BY <1>1, <1>3, <2>2 DEF TypeOK
  <2> QED  BY <2>3, <2>5
<1> HIDE DEF e
<1>6. /\ job' \in [Jobs -> ParseJobs] /\ job'[j].doc = s /\ job'[j].cleanup
      /\ \A k \in Jobs \ {j} : /\ k # doc[s].active => job'[k] = job[k]
                               /\ job'[k].doc = job[k].doc /\ job'[k].cleanup = job[k].cleanup
                               /\ job'[k].old = job[k].old /\ job'[k].revision = job[k].revision
                               /\ job'[k].outcome = job[k].outcome /\ job'[k].tree = job[k].tree
  <2>1. Cleanup(s) \in ParseJobs /\ Cleanup(s).doc = s /\ Cleanup(s).cleanup
    BY CleanupJob
  <2>2. CASE doc[s].active = NoJob
    BY <1>2, <1>4, <2>1, <2>2 DEF Cancelled, TypeOK
  <2>3. CASE doc[s].active # NoJob
    <3> DEFINE a == doc[s].active  g == [job[a] EXCEPT !.cancel = TRUE]
    <3>1. a \in Jobs /\ job[a] \in ParseJobs
      BY <1>3, <2>3 DEF TypeOK, Documents
    <3>2. /\ g \in ParseJobs /\ g.doc = job[a].doc /\ g.cleanup = job[a].cleanup /\ g.old = job[a].old
          /\ g.revision = job[a].revision /\ g.outcome = job[a].outcome /\ g.tree = job[a].tree
      BY <3>1 DEF ParseJobs
    <3>3. job' = [[job EXCEPT ![a] = g] EXCEPT ![j] = Cleanup(s)]
      BY <1>2, <2>3, <3>1 DEF Cancelled, TypeOK
    <3> HIDE DEF a, g
    <3>4. /\ job' \in [Jobs -> ParseJobs] /\ job'[j] = Cleanup(s)
          /\ \A k \in Jobs \ {j} : job'[k] = IF k = a THEN g ELSE job[k]
      BY <1>4, <2>1, <3>1, <3>2, <3>3 DEF TypeOK
    <3> QED  BY <2>1, <3>2, <3>4 DEF a
  <2> QED  BY <2>2, <2>3
<1>7. PlaceInv' /\ Outstanding' = Outstanding \cup {j} /\ queue' \in Seq(Jobs)
  BY <1>1, <1>2, QueuedPlaces
<1>8. /\ Cardinality(JobsOf(s)') = Cardinality(JobsOf(s)) + 1
      /\ JobsOf(s)' = JobsOf(s) \cup {j} /\ \A x : x # s => JobsOf(x)' = JobsOf(x)
  <2>1. \A k \in Outstanding : job'[k].doc = job[k].doc
    BY <1>4, <1>6, OutstandingJobs
  <2> QED  BY <1>4, <1>6, <1>7, <2>1, AddedJobs
<1>9. /\ ts' \in [Buffers -> States \cup {NoState}] /\ ts'[b] = NoState
      /\ \A c \in Buffers \ {b} : ts'[c] = ts[c]
      /\ Attached' = Attached \ {s}
  BY <1>0, <1>1, <1>3 DEF TypeOK, Attached
<1>10. /\ lua' \in [States -> Tables] /\ lua'[s].generation = 0
       /\ \A x \in States \ {s} : lua'[x] = lua[x]
  <2> DEFINE f == [NewTable EXCEPT !.thread = lua[s].thread]
  <2>1. lua[s].thread \in BOOLEAN
    BY <1>3 DEF TypeOK, Tables
  <2>2. f \in Tables /\ f.generation = 0
    BY <2>1, CleanupJob DEF Tables
  <2>3. lua' = [lua EXCEPT ![s] = f]
    BY <1>1
  <2> HIDE DEF f
  <2> QED  BY <1>3, <2>2, <2>3 DEF TypeOK
<1>11. TypeOK'
  BY <1>1, <1>5, <1>6, <1>7, <1>9, <1>10 DEF TypeOK
<1>12. RefInv'
  <2>1. \A k \in Outstanding' : job'[k].doc \in States
    BY <1>3, <1>4, <1>6, <1>7, OutstandingJobs DEF RefInv
  <2>2. ASSUME NEW x \in States
        PROVE  doc'[x].refs = Cardinality(JobsOf(x)') + (IF doc'[x].owned THEN 1 ELSE 0)
    <3>1. CASE x = s
      BY <3>1, <1>3, <1>5, <1>8, OutstandingJobs DEF RefInv
    <3>2. CASE x # s
      BY <3>2, <1>5, <1>8 DEF RefInv
    <3> QED  BY <3>1, <3>2
  <2>3. \A x \in States : doc'[x].status = "none" => doc'[x] = NewDoc
    BY <1>5 DEF RefInv
  <2> QED  BY <2>1, <2>2, <2>3 DEF RefInv
<1>13. ActiveInv'
  <2>1. ASSUME NEW x \in States, doc'[x].active # NoJob
        PROVE  /\ doc'[x].active \in JobsOf(x)' /\ ~job'[doc'[x].active].cleanup
               /\ \A w \in Workers : held'[w] = doc'[x].active => pc'[w] # "free"
    <3>1. /\ doc'[x].active = doc[x].active /\ doc[x].active \in JobsOf(x)
          /\ doc[x].active \in Jobs \ {j}
      BY <2>1, <1>4, <1>5, OutstandingJobs DEF ActiveInv, JobsOf
    <3>2. JobsOf(x) \subseteq JobsOf(x)'
      BY <1>8
    <3> QED  BY <2>1, <3>1, <3>2, <1>1, <1>6 DEF ActiveInv
  <2>2. \A w \in Workers : pc'[w] \in {"parse", "finish"} => ~job'[held'[w]].cleanup
    <3>1. \A w \in Workers : pc[w] \in {"parse", "finish"} => held[w] \in Jobs \ {j}
      BY <1>4, OutstandingJobs DEF PlaceInv, TypeOK
    <3> QED  BY <3>1, <1>1, <1>6 DEF ActiveInv
  <2> QED  BY <2>1, <2>2 DEF ActiveInv
<1>14. TreeInv'
  BY <1>4, <1>6, <1>7, OutstandingJobs DEF TreeInv
<1>15. AttachInv'
  <2>1. \A c \in Buffers : ts'[c] # NoState => c # b /\ ts'[c] = ts[c]
    BY <1>9
  <2>2. \A x \in States \ Attached' : x = s \/ (x \in States \ Attached /\ lua'[x] = lua[x])
    BY <1>9, <1>10
  <2>3. \A x \in Attached' : x \in Attached /\ doc'[x] = doc[x]
    BY <1>3, <1>5, <1>9
  <2>4. polling' = {}
    BY <1>1 DEF Close, Running
  <2> QED  BY <2>1, <2>2, <2>3, <2>4, <1>10 DEF AttachInv
<1>16. \A x \in Attached \ {s} : doc[x].active # NoJob =>
          doc[x].active \in Jobs /\ job'[doc[x].active] = job[doc[x].active]
  <2>1. ASSUME NEW x \in Attached \ {s}, doc[x].active # NoJob
        PROVE  /\ doc[x].active \in Jobs \ {j} /\ job[doc[x].active].doc = x
    BY <2>1, <1>3, <1>4, OutstandingJobs DEF ActiveInv, JobsOf
  <2>2. doc[s].active # NoJob => job[doc[s].active].doc = s
    BY <1>3 DEF ActiveInv, JobsOf
  <2> QED  BY <2>1, <2>2, <1>6, OutstandingJobs
<1>17. StateInv'
  BY <1>3, <1>5, <1>9, <1>10, <1>16 DEF StateInv, Busy
<1>18. PollInv'
  <2>1. \A k \in completed : k \in Jobs \ {j} /\ job'[k].doc = job[k].doc
    BY <1>4, <1>6, OutstandingJobs DEF TypeOK
  <2>2. \A x \in Attached' : x \in Attached \ {s} /\ doc'[x] = doc[x]
    BY <1>3, <1>5, <1>9
  <2> QED  BY <1>1, <1>16, <2>1, <2>2 DEF PollInv, Busy
<1>19. RevisionInv' /\ SettleInv'
  <2>1. \A c \in Buffers : ts'[c] # NoState => ts'[c] \in States \ {s} /\ ts'[c] = ts[c]
    BY <1>3, <1>9 DEF TypeOK
  <2> QED  BY <2>1, <1>1, <1>5, <1>10 DEF RevisionInv, SettleInv, Busy
<1> QED  BY <1>7, <1>11, <1>12, <1>13, <1>14, <1>15, <1>17, <1>18, <1>19

LEMMA FinalizeInv == ASSUME IInv, NEW s \in States, Finalize(s) PROVE IInv'
<1> USE DEF IInv
<1> DEFINE d == [doc[s] EXCEPT !.owned = FALSE]
<1>1. /\ doc[s].owned /\ doc[s].closed /\ s \notin Attached
      /\ UNCHANGED <<revision, ts, lua, job, queue, completed, held, pc, signalled, unheard, polling, followup, main>>
  BY DEF Finalize, textvars, workers, loop
<1>2. /\ d \in Documents /\ d.refs = doc[s].refs /\ d.status = doc[s].status /\ d.closed = doc[s].closed
      /\ d.active = doc[s].active /\ d.owned = FALSE
  BY DEF TypeOK, Documents
<1>3. doc' = [doc EXCEPT ![s] = Released(d, 1)]
  BY DEF Finalize, TypeOK
<1> HIDE DEF d
<1>4. /\ doc[s].refs = Cardinality(JobsOf(s)) + 1 /\ Cardinality(JobsOf(s)) \in Nat /\ d.refs >= 1
  BY <1>1, <1>2, OutstandingJobs DEF RefInv
<1>5. Released(d, 1) \in Documents
  BY <1>2, <1>4, ReleasedDoc
<1>6. /\ doc' \in [States -> Documents] /\ doc'[s] = Released(d, 1)
      /\ \A x \in States \ {s} : doc'[x] = doc[x]
  BY <1>3, <1>5 DEF TypeOK
<1>7. /\ doc'[s].refs = Cardinality(JobsOf(s)) /\ ~doc'[s].owned
      /\ doc'[s].active \in {NoJob, doc[s].active} /\ (doc'[s].status = "none" => doc'[s] = NewDoc)
  <2>1. CASE d.refs = 1
    BY <1>2, <1>4, <1>6, <2>1, ReleasedDoc DEF NewDoc
  <2>2. CASE d.refs # 1
    <3>1. doc[s].status # "none"
      BY <1>1 DEF RefInv, NewDoc
    <3> QED  BY <1>2, <1>4, <1>6, <2>2, <3>1, ReleasedDoc
  <2> QED  BY <2>1, <2>2
<1>8. /\ Attached' = Attached /\ Outstanding' = Outstanding /\ \A x : JobsOf(x)' = JobsOf(x)
      /\ Attached \subseteq States \ {s} /\ \A c \in Buffers : ts[c] # NoState
           => ts[c] \in States \ {s}
  BY <1>1 DEF Attached, Outstanding, JobsOf, TypeOK
<1>9. TypeOK' /\ PlaceInv' /\ TreeInv'
  BY <1>1, <1>6, <1>8 DEF TypeOK, PlaceInv, TreeInv
<1>10. RefInv'
  BY <1>1, <1>4, <1>6, <1>7, <1>8 DEF RefInv
<1>11. ActiveInv'
  BY <1>1, <1>6, <1>7, <1>8 DEF ActiveInv
<1>12. AttachInv' /\ StateInv' /\ PollInv'
  BY <1>1, <1>6, <1>8 DEF AttachInv, StateInv, PollInv, Busy
<1>13. RevisionInv' /\ SettleInv'
  BY <1>1, <1>6, <1>8 DEF RevisionInv, SettleInv, Busy
<1> QED  BY <1>9, <1>10, <1>11, <1>12, <1>13

-----------------------------------------------------------------------------
(* Polls *)

\* What a poll makes of a state: nothing, when its active job is not among the results; the
\* outcome of that job, when the state is a Buffer's.
LEMMA PolledDoc ==
  ASSUME IInv, main = "run", NEW s \in States
  PROVE  /\ Polled(s) \in Documents /\ Polled(s).refs = doc[s].refs /\ Polled(s).owned = doc[s].owned
         /\ Polled(s).closed = doc[s].closed
         /\ doc[s].active \notin Mine(s) => Polled(s) = doc[s]
         /\ doc[s].active \in Mine(s) => Polled(s).active = NoJob /\ Polled(s).status # "none"
         /\ doc[s].active \in Mine(s) /\ s \in Attached =>
              /\ Polled(s).status \in {"ready", "failed"}
              /\ Polled(s).status = "ready"
                   => Polled(s).tree = Tree(lua[s].scheduled, lua[s].scheduled)
<1> USE DEF IInv
<1>1. doc[s] \in Documents /\ NoJob \notin Mine(s)
  BY OutstandingJobs DEF TypeOK, Mine
<1>2. CASE doc[s].active \notin Mine(s)
  <2>1. Current(s) = {}
    BY <1>2 DEF Current
  <2>2. [doc[s] EXCEPT !.active = IF @ \in Mine(s) THEN NoJob ELSE @] = doc[s]
    BY <1>1, <1>2 DEF Documents
  <2>3. Polled(s) = doc[s]
    BY <2>1, <2>2 DEF Polled
  <2> QED  BY <1>1, <1>2, <2>3
<1>3. CASE doc[s].active \in Mine(s)
  <2> DEFINE a == doc[s].active
             d == [doc[s] EXCEPT !.active = IF @ \in Mine(s) THEN NoJob ELSE @]
  <2>1. /\ d \in Documents /\ d.refs = doc[s].refs /\ d.owned = doc[s].owned /\ d.closed = doc[s].closed
        /\ d.active = NoJob /\ d.status = doc[s].status
    BY <1>1, <1>3 DEF Documents
  <2>2. doc[s].status # "none"
    BY <1>1, <1>3 DEF RefInv, NewDoc
  <2>3. a \in completed /\ job[a].doc = s /\ a \in Jobs /\ ~job[a].cleanup /\ a \in Outstanding
    BY <1>1, <1>3, OutstandingJobs DEF Mine, TypeOK, ActiveInv
  <2> HIDE DEF d
  <2>4. CASE Current(s) = {}
    <3>1. Polled(s) = d
      BY <2>4 DEF Polled, d
    <3>2. s \notin Attached
      <4> SUFFICES ASSUME s \in Attached PROVE a \in Current(s)
        BY <2>4
      <4>1. job[a].generation = lua[s].generation /\ ~doc[s].closed
        BY <1>1, <1>3, <2>3 DEF StateInv, AttachInv
      <4> QED  BY <1>3, <4>1 DEF Current
    <3> QED  BY <1>3, <2>1, <2>2, <3>1, <3>2
  <2>5. CASE Current(s) # {}
    <3>1. (CHOOSE x \in Current(s) : TRUE) = a
      <4>1. \A x \in Current(s) : x = a
        BY DEF Current
      <4> QED  BY <2>5, <4>1
    <3>2. Polled(s) = CASE job[a].outcome = "tree" -> [d EXCEPT !.tree = job[a].tree, !.status = "ready"]
                        [] job[a].outcome = "canceled" -> [d EXCEPT !.status = "canceled"]
                        [] OTHER -> [d EXCEPT !.status = "failed"]
      BY <2>5, <3>1 DEF Polled, d
    <3>3. CASE job[a].outcome = "tree"
      <4>1. Polled(s) = [d EXCEPT !.tree = job[a].tree, !.status = "ready"]
        BY <3>2, <3>3
      <4>2. job[a].tree \in Trees
        BY <2>3 DEF TypeOK, ParseJobs
      <4>3. /\ Polled(s) \in Documents /\ Polled(s).refs = d.refs /\ Polled(s).owned = d.owned
            /\ Polled(s).closed = d.closed /\ Polled(s).active = NoJob
            /\ Polled(s).status = "ready" /\ Polled(s).tree = job[a].tree
        BY <2>1, <4>1, <4>2 DEF Documents
      <4>4. s \in Attached => job[a].tree = Tree(lua[s].scheduled, lua[s].scheduled)
        BY <1>1, <1>3, <2>3, <3>3 DEF TreeInv, StateInv
      <4> QED  BY <1>3, <2>1, <4>3, <4>4
    <3>4. CASE job[a].outcome # "tree"
      <4>1. s \in Attached => job[a].outcome # "canceled"
        BY <1>1, <1>3 DEF PollInv
      <4>2. \/ job[a].outcome = "canceled" /\ Polled(s) = [d EXCEPT !.status = "canceled"]
            \/ job[a].outcome # "canceled" /\ Polled(s) = [d EXCEPT !.status = "failed"]
        BY <3>2, <3>4
      <4>3. /\ Polled(s) \in Documents /\ Polled(s).refs = d.refs /\ Polled(s).owned = d.owned
            /\ Polled(s).closed = d.closed /\ Polled(s).active = NoJob
            /\ Polled(s).status \in {"canceled", "failed"}
            /\ Polled(s).status = "failed" \/ job[a].outcome = "canceled"
        BY <2>1, <4>2 DEF Documents
      <4> QED  BY <1>3, <2>1, <4>1, <4>3
    <3> QED  BY <3>3, <3>4
  <2> QED  BY <2>4, <2>5
<1> QED  BY <1>2, <1>3

LEMMA PollStepInv ==
  ASSUME IInv, NEW s \in Attached, main = "run", followup = NoState, Poll(s),
         polling' = polling \/ polling' = polling \ {s}
  PROVE  IInv'
<1> USE DEF IInv
<1>0. s \in States
  BY OutstandingJobs DEF Attached, TypeOK
<1>1. /\ doc' = [doc EXCEPT ![s] = Polled(s)] /\ completed' = completed \ Mine(s)
      /\ job' = [j \in Jobs |-> IF j \in Mine(s) THEN Cleanup(s) ELSE job[j]]
      /\ IF ParsesAgain(s, Polled(s).status)
         THEN followup' = s /\ UNCHANGED lua
         ELSE followup' = NoState /\ lua' = [lua EXCEPT ![s].status = Polled(s).status]
      /\ unheard' = unheard \ {s}
      /\ UNCHANGED <<revision, ts, held, pc, signalled, main>>
  BY DEF Poll, workers
<1>2. PICK freed \in SetToSeqs(Mine(s)) : queue' = queue \o freed
  BY DEF Poll
<1>3. /\ Mine(s) \in SUBSET Jobs /\ IsFiniteSet(Mine(s)) /\ Mine(s) \subseteq completed
      /\ Mine(s) \subseteq Outstanding /\ \A k \in Mine(s) : job[k].doc = s
  <2>1. Mine(s) \in SUBSET Jobs
    BY DEF Mine, TypeOK
  <2> QED  BY <2>1, FS_Subset, BoundsAssumption, OutstandingJobs DEF Mine
<1>4. /\ queue' \in Seq(Jobs) /\ ToSet(queue') = ToSet(queue) \cup Mine(s)
      /\ \A i, k \in DOMAIN queue' : queue'[i] = queue'[k] => i = k
  <2>1. \A x \in Mine(s) : x \notin ToSet(queue)
    BY <1>3 DEF PlaceInv
  <2>2. queue \in Seq(Jobs)
    BY DEF TypeOK
  <2>3. /\ queue \o freed \in Seq(Jobs) /\ ToSet(queue \o freed) = ToSet(queue) \cup Mine(s)
        /\ (\A i, k \in DOMAIN queue : queue[i] = queue[k] => i = k) /\ (\A x \in Mine(s) : x \notin ToSet(queue))
             => \A i, k \in DOMAIN (queue \o freed) : (queue \o freed)[i] = (queue \o freed)[k]
                 => i = k
    BY <1>3, <2>2, JoinedSet
  <2> QED  BY <1>2, <2>1, <2>3 DEF PlaceInv
<1>5. Outstanding' = Outstanding
  BY <1>1, <1>3, <1>4 DEF Outstanding
<1>6. /\ job' \in [Jobs -> ParseJobs] /\ \A k \in Jobs : job'[k].doc = job[k].doc
      /\ \A k \in Jobs : k \notin Mine(s) => job'[k] = job[k]
      /\ \A k \in Mine(s) : job'[k].cleanup
  BY <1>0, <1>1, <1>3, CleanupJob DEF TypeOK
<1>7. \A x : JobsOf(x)' = JobsOf(x)
  BY <1>5, <1>6, OutstandingJobs DEF JobsOf
<1>8. Attached' = Attached /\ Attached \subseteq States
  BY <1>1, OutstandingJobs DEF Attached, TypeOK
<1>9. /\ doc' \in [States -> Documents] /\ doc'[s] = Polled(s)
      /\ \A x \in States \ {s} : doc'[x] = doc[x]
  BY <1>0, <1>1, PolledDoc DEF TypeOK
<1>10. lua' \in [States -> Tables] /\ \A x \in States : /\ x # s => lua'[x] = lua[x]
         /\ lua'[x].generation = lua[x].generation /\ lua'[x].scheduled = lua[x].scheduled
         /\ lua'[x].pending = lua[x].pending /\ lua'[x].thread = lua[x].thread
  <2>1. CASE ParsesAgain(s, Polled(s).status)
    BY <1>0, <1>1, <2>1 DEF TypeOK
  <2>2. CASE ~ParsesAgain(s, Polled(s).status)
    <3>0. Polled(s).status \in {"queued", "parsing", "ready", "failed"}
      BY <1>0, PolledDoc DEF PollInv
    <3> DEFINE t == [lua[s] EXCEPT !.status = Polled(s).status]
    <3>1. /\ t \in Tables /\ t.generation = lua[s].generation /\ t.scheduled = lua[s].scheduled
          /\ t.pending = lua[s].pending /\ t.thread = lua[s].thread
      BY <1>0, <3>0 DEF TypeOK, Tables
    <3>2. lua' = [lua EXCEPT ![s] = t]
      BY <1>0, <1>1, <2>2 DEF TypeOK
    <3> HIDE DEF t
    <3> QED  BY <1>0, <3>1, <3>2 DEF TypeOK
  <2> QED  BY <2>1, <2>2
<1>11. PlaceInv'
  BY <1>1, <1>3, <1>4 DEF PlaceInv
<1>12. TypeOK'
  BY <1>1, <1>4, <1>6, <1>9, <1>10 DEF TypeOK
<1>13. RefInv'
  <2>1. \A k \in Outstanding' : job'[k].doc \in States
    BY <1>5, <1>6, OutstandingJobs DEF RefInv
  <2>2. \A x \in States : doc'[x].refs = doc[x].refs /\ doc'[x].owned = doc[x].owned
    BY <1>0, <1>9, PolledDoc
  <2>3. \A x \in States : doc'[x].status = "none" => doc'[x] = NewDoc
    BY <1>0, <1>1, <1>9, PolledDoc DEF RefInv
  <2> QED  BY <1>7, <2>1, <2>2, <2>3 DEF RefInv
<1>14. \A x \in States : doc'[x].active # NoJob =>
         /\ doc'[x].active = doc[x].active /\ doc[x].active \in JobsOf(x) /\ doc[x].active \in Jobs
         /\ doc[x].active \notin Mine(s) /\ (x = s => doc'[s] = doc[s])
  <2> SUFFICES ASSUME NEW x \in States, doc'[x].active # NoJob
               PROVE  /\ doc'[x].active = doc[x].active /\ doc[x].active \in JobsOf(x) /\ doc[x].active \in Jobs
                      /\ doc[x].active \notin Mine(s) /\ (x = s => doc'[s] = doc[s])
    OBVIOUS
  <2>1. CASE x = s
    BY <1>0, <1>9, <2>1, PolledDoc, OutstandingJobs DEF ActiveInv, JobsOf
  <2>2. CASE x # s
    BY <1>3, <1>9, <2>2, OutstandingJobs DEF ActiveInv, JobsOf
  <2> QED  BY <2>1, <2>2
<1>15. ActiveInv'
  <2>1. \A w \in Workers : pc[w] \in {"parse", "finish"}
      => held[w] \in Jobs /\ held[w] \notin Mine(s)
    BY <1>3, OutstandingJobs DEF PlaceInv, TypeOK
  <2> QED  BY <1>1, <1>6, <1>7, <1>14, <2>1 DEF ActiveInv
<1>16. TreeInv'
  BY <1>5, <1>6, OutstandingJobs DEF TreeInv
<1>17. AttachInv'
  BY <1>0, <1>1, <1>8, <1>9, <1>10, PolledDoc DEF AttachInv
<1>18. ~ParsesAgain(s, Polled(s).status) => lua'[s].status = Polled(s).status
  <2> SUFFICES ASSUME ~ParsesAgain(s, Polled(s).status) PROVE lua'[s].status = Polled(s).status
    OBVIOUS
  <2>1. lua' = [lua EXCEPT ![s].status = Polled(s).status]
    BY <1>1
  <2>2. lua[s] \in Tables /\ lua \in [States -> Tables]
    BY <1>0 DEF TypeOK
  <2> QED  BY <1>0, <2>1, <2>2 DEF Tables
<1>19. StateInv'
  <2> SUFFICES ASSUME NEW x \in Attached
      PROVE /\ doc'[x].active # NoJob =>
               /\ doc'[x].status \in {"queued", "parsing"}
               /\ job'[doc'[x].active].generation = lua[x].generation
               /\ job'[doc'[x].active].revision = lua[x].scheduled
            /\ lua'[x].status = "ready" => doc'[x].status = "ready" /\ ~lua[x].pending
            /\ doc'[x].status = "ready" /\ ~lua[x].pending
                 => doc'[x].tree = Tree(lua[x].scheduled, lua[x].scheduled)
    BY <1>8, <1>10 DEF StateInv, Busy
  <2>1. CASE x # s
    BY <1>6, <1>8, <1>9, <1>10, <1>14, <2>1 DEF StateInv, Busy
  <2>2. CASE x = s
    <3>1. doc'[s].active # NoJob =>
               /\ doc'[s].status \in {"queued", "parsing"}
               /\ job'[doc'[s].active].generation = lua[s].generation
               /\ job'[doc'[s].active].revision = lua[s].scheduled
      <4> SUFFICES ASSUME doc'[s].active # NoJob
          PROVE /\ doc'[s].status \in {"queued", "parsing"}
                /\ job'[doc'[s].active].generation = lua[s].generation
                /\ job'[doc'[s].active].revision = lua[s].scheduled
        OBVIOUS
      <4>1. doc'[s] = doc[s] /\ job'[doc[s].active] = job[doc[s].active]
        BY <1>0, <1>6, <1>14
      <4> QED  BY <4>1, <2>2 DEF StateInv, Busy
    <3>2. doc'[s].status = "ready" /\ ~lua[s].pending
                                        => doc'[s].tree = Tree(lua[s].scheduled, lua[s].scheduled)
      BY <1>0, <1>9, <2>2, PolledDoc DEF StateInv
    <3>3. lua'[s].status = "ready" => doc'[s].status = "ready" /\ ~lua[s].pending
      <4>1. CASE ParsesAgain(s, Polled(s).status)
        BY <1>1, <2>2, <4>1 DEF ParsesAgain, StateInv
      <4>2. CASE ~ParsesAgain(s, Polled(s).status)
        BY <1>9, <1>18, <2>2, <4>2 DEF ParsesAgain
      <4> QED  BY <4>1, <4>2
    <3> QED  BY <2>2, <3>1, <3>2, <3>3
  <2> QED  BY <2>1, <2>2
<1>20. RevisionInv'
  <2>1. \A c \in Buffers : ts[c] # NoState => ts[c] \in States
    BY DEF TypeOK
  <2> QED  BY <1>1, <1>10, <2>1 DEF RevisionInv
<1>21. PollInv'
  <2> SUFFICES ASSUME NEW x \in Attached
      PROVE /\ doc'[x].status \in {"queued", "parsing", "ready", "failed"}
            /\ doc'[x].status \in {"queued", "parsing"} => doc'[x].active # NoJob
            /\ doc'[x].active # NoJob => ~job'[doc'[x].active].cancel /\ job'[doc'[x].active].outcome # "canceled"
            /\ (\E j \in completed' : job'[j].doc = x) => signalled \/ x \in polling' \/ x \in unheard'
    BY <1>1, <1>8 DEF PollInv, Busy
  <2>1. doc'[x].active # NoJob
      => ~job'[doc'[x].active].cancel /\ job'[doc'[x].active].outcome # "canceled"
    BY <1>6, <1>8, <1>14 DEF PollInv
  <2>2. (\E j \in completed' : job'[j].doc = x) => signalled \/ x \in polling' \/ x \in unheard'
    <3>1. \A k \in completed' : k \in completed /\ job'[k].doc = job[k].doc /\ job[k].doc # s
      BY <1>1, <1>6 DEF TypeOK, Mine
    <3>2. \A y \in unheard : y # s => y \in unheard'
      BY <1>1
    <3> QED  BY <3>1, <3>2 DEF PollInv
  <2>3. /\ doc'[x].status \in {"queued", "parsing", "ready", "failed"}
        /\ doc'[x].status \in {"queued", "parsing"} => doc'[x].active # NoJob
    <3>1. CASE x = s
      BY <1>0, <1>9, <3>1, PolledDoc DEF PollInv, Busy
    <3>2. CASE x # s
      BY <1>8, <1>9, <3>2 DEF PollInv, Busy
    <3> QED  BY <3>1, <3>2
  <2> QED  BY <2>1, <2>2, <2>3
<1>22. SettleInv'
  <2> SUFFICES ASSUME NEW c \in Buffers, ts[c] # NoState,
                      doc'[ts[c]].status \notin {"queued", "parsing"},
                      followup' # ts[c]
      PROVE  \/ lua'[ts[c]].status = doc'[ts[c]].status /\ lua'[ts[c]].scheduled = revision[c]
             \/ lua'[ts[c]].thread /\ lua'[ts[c]].scheduled # revision[c]
    BY <1>1 DEF SettleInv, Busy
  <2>1. ts[c] \in Attached /\ ts[c] \in States
    BY DEF Attached, TypeOK
  <2>2. CASE ts[c] = s
    <3>1. ~ParsesAgain(s, Polled(s).status)
      BY <1>1, <2>2
    <3>2. ~lua[s].pending
      BY <1>9, <2>2, <3>1 DEF ParsesAgain
    <3> QED  BY <1>9, <1>10, <1>18, <2>1, <2>2, <3>1, <3>2 DEF RevisionInv
  <2>3. CASE ts[c] # s
    BY <1>9, <1>10, <2>1, <2>3 DEF SettleInv, Busy
  <2> QED  BY <2>2, <2>3
<1> QED  BY <1>11, <1>12, <1>13, <1>15, <1>16, <1>17, <1>19, <1>20, <1>21, <1>22

LEMMA PollNextInv == ASSUME IInv, PollNext PROVE IInv'
<1>1. PICK s \in polling : Poll(s) /\ polling' = polling \ {s}
  BY DEF PollNext
<1>2. s \in Attached
  BY DEF IInv, AttachInv
<1> QED  BY <1>1, <1>2, PollStepInv DEF PollNext

LEMMA PollOneInv == ASSUME IInv, NEW s \in States, PollOne(s) PROVE IInv'
BY PollStepInv DEF PollOne, Running

LEMMA CompleteEventInv == ASSUME IInv, CompleteEvent PROVE IInv'
<1> USE DEF IInv
<1>1. /\ main = "run" /\ polling' = Attached /\ signalled' = FALSE
      /\ UNCHANGED <<revision, ts, lua, doc, job, queue, completed, held, pc, unheard, followup, main>>
  BY DEF CompleteEvent, Running, textvars, service, workers
<1>2. /\ Attached' = Attached /\ Outstanding' = Outstanding /\ \A x : JobsOf(x)' = JobsOf(x)
      /\ Attached \subseteq States
  BY <1>1, OutstandingJobs DEF Attached, Outstanding, JobsOf, TypeOK
<1>3. TypeOK' /\ PlaceInv' /\ RefInv' /\ ActiveInv' /\ TreeInv' /\ AttachInv'
  BY <1>1, <1>2 DEF TypeOK, PlaceInv, RefInv, ActiveInv, TreeInv, AttachInv
<1>4. StateInv' /\ RevisionInv' /\ PollInv' /\ SettleInv'
  BY <1>1, <1>2 DEF StateInv, RevisionInv, PollInv, SettleInv, Busy
<1> QED  BY <1>3, <1>4

-----------------------------------------------------------------------------
(* The workers *)

LEMMA TakeInv == ASSUME IInv, NEW w \in Workers, Take(w) PROVE IInv'
<1> USE DEF IInv
<1>1. /\ pc[w] = "look" /\ main = "run" /\ queue # <<>>
      /\ queue' = Tail(queue) /\ held' = [held EXCEPT ![w] = Head(queue)]
      /\ UNCHANGED <<revision, ts, lua, job, completed, signalled, unheard, polling, followup, main>>
  BY DEF Take, textvars, loop
<1>2. /\ queue \in Seq(Jobs) /\ held[w] = NoJob
      /\ \A i, k \in DOMAIN queue : queue[i] = queue[k] => i = k
  BY <1>1, OutstandingJobs DEF PlaceInv, TypeOK
<1>3. PICK j \in Jobs : /\ j = Head(queue) /\ queue' \in Seq(Jobs) /\ j \in ToSet(queue)
                        /\ ToSet(queue') = ToSet(queue) \ {j}
                        /\ \A i, k \in DOMAIN queue' : queue'[i] = queue'[k] => i = k
  <2>1. /\ Head(queue) \in Jobs /\ Tail(queue) \in Seq(Jobs) /\ Head(queue) \in ToSet(queue)
        /\ ToSet(Tail(queue)) = ToSet(queue) \ {Head(queue)}
        /\ \A i, k \in DOMAIN Tail(queue) : Tail(queue)[i] = Tail(queue)[k] => i = k
    BY <1>1, <1>2, TakenSet
  <2> QED  BY <1>1, <2>1
<1>4. j \in Outstanding /\ j # NoJob /\ j \notin completed /\ \A v \in Workers : held[v] # j
  BY <1>3, OutstandingJobs DEF PlaceInv
<1>5. PICK s \in States : s = job[j].doc
  BY <1>4 DEF RefInv
<1>6. held' \in [Workers -> Jobs \cup {NoJob}] /\ held'[w] = j /\ \A v \in Workers \ {w} : held'[v] = held[v]
  BY <1>1, <1>3 DEF TypeOK
<1>7. /\ pc' \in [Workers -> {"look", "parse", "finish", "free", "gone"}]
      /\ pc'[w] = (IF job[j].cleanup THEN "free" ELSE "parse")
      /\ \A v \in Workers \ {w} : pc'[v] = pc[v]
  BY <1>3 DEF Take, To, TypeOK
<1>8. Outstanding' = Outstanding
  <2>1. {held'[v] : v \in Workers} \ {NoJob} = ({held[v] : v \in Workers} \ {NoJob}) \cup {j}
    BY <1>2, <1>4, <1>6
  <2>2. ToSet(queue') \cup {j} = ToSet(queue) /\ completed' = completed
    BY <1>1, <1>3
  <2> QED  BY <2>1, <2>2 DEF Outstanding
<1>9. /\ doc' \in [States -> Documents] /\ \A x \in States \ {s} : doc'[x] = doc[x]
      /\ doc'[s].active = doc[s].active /\ doc'[s].refs = doc[s].refs /\ doc'[s].owned = doc[s].owned
      /\ doc'[s].closed = doc[s].closed /\ doc'[s].tree = doc[s].tree
      /\ doc'[s] = doc[s] \/ (doc[s].active = j /\ ~doc[s].closed /\ doc'[s].status = "parsing")
  <2>1. CASE doc' = doc
    BY <2>1 DEF TypeOK
  <2>2. CASE doc[s].active = j /\ ~doc[s].closed /\ doc' = [doc EXCEPT ![s].status = "parsing"]
    <3> DEFINE d == [doc[s] EXCEPT !.status = "parsing"]
    <3>1. /\ d \in Documents /\ d.active = doc[s].active /\ d.refs = doc[s].refs /\ d.owned = doc[s].owned
          /\ d.closed = doc[s].closed /\ d.tree = doc[s].tree /\ d.status = "parsing"
      BY DEF TypeOK, Documents
    <3>2. doc' = [doc EXCEPT ![s] = d]
      BY <2>2
    <3> HIDE DEF d
    <3> QED  BY <2>2, <3>1, <3>2 DEF TypeOK
  <2> QED  BY <1>3, <1>5, <2>1, <2>2 DEF Take
<1>10. /\ \A x : JobsOf(x)' = JobsOf(x)
       /\ Attached' = Attached /\ Attached \subseteq States
       /\ \A c \in Buffers : ts[c] # NoState => ts[c] \in Attached
  BY <1>1, <1>8 DEF JobsOf, Attached, TypeOK
<1>11. s \in Attached => doc'[s] = doc[s] \/ (doc[s].status \in {"queued", "parsing"} /\ doc'[s].status = "parsing")
  BY <1>4, <1>9 DEF StateInv, Busy
<1>12. PlaceInv'
  BY <1>1, <1>3, <1>4, <1>6, <1>7 DEF PlaceInv
<1>13. TypeOK'
  BY <1>1, <1>3, <1>6, <1>7, <1>9 DEF TypeOK
<1>14. RefInv'
  <2>1. \A x \in States : doc'[x].status = "none" => doc'[x] = NewDoc
    BY <1>9 DEF RefInv
  <2>2. \A x \in States : doc'[x].refs = doc[x].refs /\ doc'[x].owned = doc[x].owned
    BY <1>9
  <2> QED  BY <1>1, <1>8, <1>10, <2>1, <2>2 DEF RefInv
<1>15. ActiveInv'
  <2>1. \A x \in States : doc'[x].active = doc[x].active
    BY <1>9
  <2>2. ASSUME NEW x \in States, doc[x].active # NoJob, NEW v \in Workers,
               held'[v] = doc[x].active
        PROVE  pc'[v] # "free"
    <3>1. CASE v = w
      BY <1>6, <1>7, <2>2, <3>1 DEF ActiveInv
    <3>2. CASE v # w
      BY <1>6, <1>7, <2>2, <3>2 DEF ActiveInv
    <3> QED  BY <3>1, <3>2
  <2>3. \A v \in Workers : pc'[v] \in {"parse", "finish"} => ~job[held'[v]].cleanup
    <3> SUFFICES ASSUME NEW v \in Workers, pc'[v] \in {"parse", "finish"}
                 PROVE ~job[held'[v]].cleanup
      OBVIOUS
    <3>1. CASE v = w
      BY <1>6, <1>7, <3>1
    <3>2. CASE v # w
      BY <1>6, <1>7, <3>2 DEF ActiveInv
    <3> QED  BY <3>1, <3>2
  <2> QED  BY <1>1, <1>10, <2>1, <2>2, <2>3 DEF ActiveInv
<1>16. TreeInv' /\ RevisionInv'
  BY <1>1, <1>8 DEF TreeInv, RevisionInv
<1>17. AttachInv'
  BY <1>1, <1>9, <1>10 DEF AttachInv
<1>18. StateInv'
  <2> SUFFICES ASSUME NEW x \in Attached
      PROVE /\ doc'[x].active # NoJob =>
               /\ doc'[x].status \in {"queued", "parsing"}
               /\ job[doc'[x].active].generation = lua[x].generation
               /\ job[doc'[x].active].revision = lua[x].scheduled
            /\ lua[x].status = "ready" => doc'[x].status = "ready" /\ ~lua[x].pending
            /\ doc'[x].status = "ready" /\ ~lua[x].pending
                 => doc'[x].tree = Tree(lua[x].scheduled, lua[x].scheduled)
    BY <1>1, <1>10 DEF StateInv, Busy
  <2>1. CASE x # s
    BY <1>9, <1>10, <2>1 DEF StateInv, Busy
  <2>2. CASE x = s
    BY <1>9, <1>11, <2>2 DEF StateInv, Busy
  <2> QED  BY <2>1, <2>2
<1>19. PollInv'
  <2> SUFFICES ASSUME NEW x \in Attached
      PROVE /\ doc'[x].status \in {"queued", "parsing", "ready", "failed"}
            /\ doc'[x].status \in {"queued", "parsing"} => doc'[x].active # NoJob
            /\ doc'[x].active # NoJob => ~job[doc'[x].active].cancel /\ job[doc'[x].active].outcome # "canceled"
            /\ (\E k \in completed : job[k].doc = x) => signalled \/ x \in polling \/ x \in unheard
    BY <1>1, <1>10 DEF PollInv, Busy
  <2>1. CASE x # s
    BY <1>1, <1>9, <1>10, <2>1 DEF PollInv, Busy
  <2>2. CASE x = s
    BY <1>1, <1>4, <1>9, <1>11, <2>2 DEF PollInv, Busy
  <2> QED  BY <2>1, <2>2
<1>20. SettleInv'
  <2> SUFFICES ASSUME NEW c \in Buffers, ts[c] # NoState,
                      doc'[ts[c]].status \notin {"queued", "parsing"},
                      followup # ts[c]
      PROVE  \/ lua[ts[c]].status = doc'[ts[c]].status /\ lua[ts[c]].scheduled = revision[c]
             \/ lua[ts[c]].thread /\ lua[ts[c]].scheduled # revision[c]
    BY <1>1 DEF SettleInv, Busy
  <2>1. doc'[ts[c]] = doc[ts[c]]
    <3>1. ts[c] \in States /\ ts[c] \in Attached
      BY <1>10
    <3> QED  BY <1>9, <1>11, <3>1
  <2> QED  BY <2>1 DEF SettleInv, Busy
<1> QED  BY <1>12, <1>13, <1>14, <1>15, <1>16, <1>17, <1>18, <1>19, <1>20

LEMMA LeaveInv == ASSUME IInv, NEW w \in Workers, Leave(w) PROVE IInv'
<1> USE DEF IInv
<1>1. /\ pc[w] = "look" /\ main = "join"
      /\ UNCHANGED <<revision, ts, lua, doc, job, queue, completed, held, signalled, unheard, polling, followup, main>>
  BY DEF Leave, textvars, service, loop
<1>2. /\ pc' \in [Workers -> {"look", "parse", "finish", "free", "gone"}] /\ pc'[w] = "gone"
      /\ \A v \in Workers \ {w} : pc'[v] = pc[v]
  BY DEF Leave, To, TypeOK
<1>3. \A v \in Workers : /\ pc'[v] \in {"parse", "finish", "free"} <=> pc[v] \in {"parse", "finish", "free"}
                         /\ pc'[v] \in {"parse", "finish"} <=> pc[v] \in {"parse", "finish"}
                         /\ pc'[v] = "free" <=> pc[v] = "free"
  BY <1>1, <1>2
<1>4. /\ Attached' = Attached /\ Outstanding' = Outstanding /\ \A x : JobsOf(x)' = JobsOf(x)
  BY <1>1 DEF Attached, Outstanding, JobsOf
<1>5. TypeOK' /\ RefInv' /\ TreeInv' /\ AttachInv'
  BY <1>1, <1>2, <1>4 DEF TypeOK, RefInv, TreeInv, AttachInv
<1>6. PlaceInv'
  BY <1>1, <1>3 DEF PlaceInv
<1>7. ActiveInv'
  BY <1>1, <1>3, <1>4 DEF ActiveInv
<1>8. StateInv' /\ RevisionInv' /\ PollInv' /\ SettleInv'
  BY <1>1, <1>4 DEF StateInv, RevisionInv, PollInv, SettleInv, Busy
<1> QED  BY <1>5, <1>6, <1>7, <1>8

\* The job g of worker w after its parse: what it was for, with an outcome.
Parsed(g, h) ==
  /\ g.doc = h.doc /\ g.generation = h.generation /\ g.revision = h.revision /\ g.old = h.old
  /\ g.cancel = h.cancel /\ g.cleanup = h.cleanup
  /\ ~h.cancel => g.outcome # "canceled"
  /\ g.outcome = "tree" => g.tree = Tree(h.revision, h.revision)

LEMMA ParsedInv ==
  ASSUME IInv, NEW w \in Workers, pc[w] = "parse", To(w, "finish"),
         NEW g \in ParseJobs, Parsed(g, job[held[w]]), job' = [job EXCEPT ![held[w]] = g],
         UNCHANGED <<textvars, doc, queue, completed, held, loop>>
  PROVE  IInv'
<1> USE DEF IInv
<1>1. PICK j \in Jobs : j = held[w] /\ j # NoJob /\ j \in Outstanding
  BY OutstandingJobs DEF PlaceInv, TypeOK
<1>2. UNCHANGED <<revision, ts, lua, doc, queue, completed, held, signalled, unheard, polling, followup, main>>
  BY DEF textvars, loop
<1>3. /\ job' \in [Jobs -> ParseJobs] /\ Parsed(job'[j], job[j]) /\ \A k \in Jobs \ {j} : job'[k] = job[k]
  BY <1>1 DEF TypeOK
<1>4. /\ pc' \in [Workers -> {"look", "parse", "finish", "free", "gone"}] /\ pc'[w] = "finish"
      /\ \A v \in Workers \ {w} : pc'[v] = pc[v]
  BY DEF To, TypeOK
<1>5. \A k \in Jobs : /\ job'[k].doc = job[k].doc /\ job'[k].generation = job[k].generation
                      /\ job'[k].revision = job[k].revision /\ job'[k].old = job[k].old
                      /\ job'[k].cancel = job[k].cancel /\ job'[k].cleanup = job[k].cleanup
  BY <1>3 DEF Parsed
<1>6. \A k \in Jobs : job'[k].outcome = "canceled" => job[k].outcome = "canceled" \/ job[k].cancel
  BY <1>3 DEF Parsed
<1>7. /\ Attached' = Attached /\ Outstanding' = Outstanding
      /\ \A x : JobsOf(x)' = JobsOf(x)
  BY <1>2, <1>5, OutstandingJobs DEF Attached, Outstanding, JobsOf
<1>8. \A v \in Workers : /\ pc'[v] \in {"parse", "finish", "free"} <=> pc[v] \in {"parse", "finish", "free"}
                         /\ pc'[v] \in {"parse", "finish"} <=> pc[v] \in {"parse", "finish"}
                         /\ pc'[v] = "free" <=> pc[v] = "free"
  BY <1>4
<1>9. TypeOK'
  BY <1>2, <1>3, <1>4 DEF TypeOK
<1>10. PlaceInv'
  BY <1>2, <1>8 DEF PlaceInv
<1>11. RefInv'
  BY <1>2, <1>5, <1>7, OutstandingJobs DEF RefInv
<1>12. \A x \in States : doc[x].active # NoJob => doc[x].active \in Jobs
  BY DEF TypeOK, Documents
<1>13. ActiveInv'
  <2>1. \A v \in Workers : pc[v] \in {"parse", "finish"} => held[v] \in Jobs
    BY DEF PlaceInv, TypeOK
  <2> QED  BY <1>2, <1>5, <1>7, <1>8, <1>12, <2>1 DEF ActiveInv
<1>14. TreeInv'
  <2> SUFFICES ASSUME NEW k \in Outstanding, ~job'[k].cleanup
               PROVE  /\ job'[k].old = NoTree \/ job'[k].old.at = job'[k].revision
                      /\ job'[k].outcome = "tree"
                           => job'[k].tree = Tree(job'[k].revision, job'[k].revision)
    BY <1>7 DEF TreeInv
  <2>1. CASE k = j
    BY <1>1, <1>3, <2>1 DEF TreeInv, Parsed
  <2>2. CASE k # j
    BY <1>3, <2>2, OutstandingJobs DEF TreeInv
  <2> QED  BY <2>1, <2>2
<1>15. AttachInv' /\ RevisionInv' /\ SettleInv'
  BY <1>2, <1>7 DEF AttachInv, RevisionInv, SettleInv, Busy
<1>16. Attached \subseteq States
  BY DEF Attached, TypeOK
<1>17. StateInv'
  BY <1>2, <1>5, <1>7, <1>12, <1>16 DEF StateInv, Busy
<1>18. PollInv'
  <2>1. \A k \in completed : k \in Jobs
    BY DEF TypeOK
  <2> QED  BY <1>2, <1>5, <1>6, <1>7, <1>12, <1>16, <2>1 DEF PollInv, Busy
<1> QED  BY <1>9, <1>10, <1>11, <1>13, <1>14, <1>15, <1>17, <1>18

LEMMA ParseTextInv == ASSUME IInv, NEW w \in Workers, ParseText(w) PROVE IInv'
<1> USE DEF IInv
<1>1. PICK j \in Jobs : j = held[w] /\ j \in Outstanding /\ job[j] \in ParseJobs
  BY OutstandingJobs DEF ParseText, PlaceInv, TypeOK
<1>2. CASE job[j].cancel
  <2> DEFINE g == [job[j] EXCEPT !.outcome = "canceled"]
  <2>1. g \in ParseJobs /\ Parsed(g, job[j])
    BY <1>1, <1>2 DEF ParseJobs, Parsed
  <2>2. job' = [job EXCEPT ![held[w]] = g]
    BY <1>1, <1>2 DEF ParseText
  <2> HIDE DEF g
  <2> QED  BY <1>1, <2>1, <2>2, ParsedInv DEF ParseText
<1>3. CASE ~job[j].cancel
  <2> DEFINE r == job[j].revision  g == [job[j] EXCEPT !.outcome = "tree", !.tree = ParsedTree(j)]
  <2>1. ~job[j].cleanup
    BY <1>1 DEF ParseText, ActiveInv
  <2>2. ParsedTree(j) = Tree(r, r)
    BY <1>1, <2>1 DEF ParsedTree, TreeInv
  <2>3. Tree(r, r) \in Trees
    BY <1>1 DEF Tree, Trees, ParseJobs
  <2>4. g \in ParseJobs /\ Parsed(g, job[j])
    BY <1>1, <2>2, <2>3 DEF ParseJobs, Parsed
  <2>5. job' = [job EXCEPT ![held[w]] = g]
    BY <1>1, <1>3 DEF ParseText, TypeOK
  <2> HIDE DEF g
  <2> QED  BY <1>1, <2>4, <2>5, ParsedInv DEF ParseText
<1> QED  BY <1>2, <1>3

LEMMA ParseFailsInv == ASSUME IInv, NEW w \in Workers, ParseFails(w) PROVE IInv'
<1> USE DEF IInv
<1>1. PICK j \in Jobs : j = held[w] /\ j \in Outstanding /\ job[j] \in ParseJobs
  BY OutstandingJobs DEF ParseFails, PlaceInv, TypeOK
<1> DEFINE g == [job[j] EXCEPT !.outcome = "failed"]
<1>2. g \in ParseJobs /\ Parsed(g, job[j])
  BY <1>1 DEF ParseJobs, Parsed
<1>3. job' = [job EXCEPT ![held[w]] = g]
  BY <1>1 DEF ParseFails
<1> HIDE DEF g
<1> QED  BY <1>1, <1>2, <1>3, ParsedInv DEF ParseFails

\* Worker w no longer has its job.
LEMMA DroppedJob ==
  ASSUME IInv, NEW w \in Workers, NEW j \in Jobs, held[w] = j, held' = [held EXCEPT ![w] = NoJob],
         UNCHANGED <<queue, main>>
  PROVE  /\ held' \in [Workers -> Jobs \cup {NoJob}] /\ held'[w] = NoJob
         /\ \A v \in Workers \ {w} : held'[v] = held[v] /\ held'[v] # j
         /\ j \notin ToSet(queue) /\ j \notin completed /\ j \in Outstanding /\ j # NoJob
         /\ completed' = completed => Outstanding' = Outstanding \ {j}
         /\ completed' = completed \cup {j} => Outstanding' = Outstanding
<1> USE DEF IInv
<1>1. j # NoJob /\ j \in Outstanding
  BY OutstandingJobs
<1>2. /\ held' \in [Workers -> Jobs \cup {NoJob}] /\ held'[w] = NoJob
      /\ \A v \in Workers \ {w} : held'[v] = held[v] /\ held'[v] # j
  BY <1>1 DEF TypeOK, PlaceInv
<1>3. j \notin ToSet(queue) /\ j \notin completed
  BY <1>1 DEF PlaceInv
<1>4. {held'[v] : v \in Workers} \ {NoJob} = ({held[v] : v \in Workers} \ {NoJob}) \ {j}
  BY <1>1, <1>2
<1>5. completed' = completed => Outstanding' = Outstanding \ {j}
  BY <1>3, <1>4 DEF Outstanding
<1>6. completed' = completed \cup {j} => Outstanding' = Outstanding
  BY <1>1, <1>4 DEF Outstanding
<1> QED  BY <1>1, <1>2, <1>3, <1>5, <1>6

LEMMA FinishInv == ASSUME IInv, NEW w \in Workers, Finish(w) PROVE IInv'
<1> USE DEF IInv
<1>1. PICK j \in Jobs : j = held[w] /\ j # NoJob /\ j \in Outstanding /\ ~job[j].cleanup
  BY OutstandingJobs DEF Finish, PlaceInv, ActiveInv, TypeOK
<1>2. PICK s \in States : s = job[j].doc
  BY <1>1 DEF RefInv
<1>3. UNCHANGED <<revision, ts, lua, job, queue, polling, followup, main>> /\ pc[w] = "finish"
  BY DEF Finish, textvars
<1>4. /\ Attached' = Attached /\ Attached \subseteq States
      /\ \A c \in Buffers : ts[c] # NoState => ts[c] \in Attached
  BY <1>3 DEF Attached, TypeOK
<1>5. CASE doc[s].closed
  <2> DEFINE d == [doc[s] EXCEPT !.active = IF doc[s].active = j THEN NoJob ELSE doc[s].active]
  <2>1. /\ doc' = [doc EXCEPT ![s] = d] /\ To(w, "free") /\ UNCHANGED <<completed, held, signalled, unheard>>
    BY <1>1, <1>2, <1>5 DEF Finish
  <2>2. /\ d \in Documents /\ d.refs = doc[s].refs /\ d.owned = doc[s].owned /\ d.status = doc[s].status
        /\ d.active = IF doc[s].active = j THEN NoJob ELSE doc[s].active
    BY DEF TypeOK, Documents
  <2>3. doc[s].status # "none" /\ s \notin Attached
    BY <1>5 DEF RefInv, NewDoc, AttachInv
  <2> HIDE DEF d
  <2>4. /\ doc' \in [States -> Documents] /\ doc'[s] = d /\ \A x \in States \ {s} : doc'[x] = doc[x]
    BY <2>1, <2>2 DEF TypeOK
  <2>5. /\ pc' \in [Workers -> {"look", "parse", "finish", "free", "gone"}] /\ pc'[w] = "free"
        /\ \A v \in Workers \ {w} : pc'[v] = pc[v]
    BY <2>1 DEF To, TypeOK
  <2>6. Outstanding' = Outstanding /\ \A x : JobsOf(x)' = JobsOf(x)
    BY <1>3, <2>1 DEF Outstanding, JobsOf
  <2>7. TypeOK'
    BY <1>3, <2>1, <2>4, <2>5 DEF TypeOK
  <2>8. PlaceInv'
    BY <1>1, <1>3, <2>1, <2>5 DEF PlaceInv
  <2>9. RefInv'
    BY <1>3, <2>2, <2>3, <2>4, <2>6 DEF RefInv
  <2>10. ActiveInv'
    <3>1. \A x \in States : doc'[x].active # NoJob
        => doc'[x].active = doc[x].active /\ doc[x].active # j
      <4> SUFFICES ASSUME NEW x \in States, doc'[x].active # NoJob
                   PROVE  doc'[x].active = doc[x].active /\ doc[x].active # j
        OBVIOUS
      <4>1. CASE x = s
        BY <2>2, <2>4, <4>1
      <4>2. CASE x # s
        BY <1>2, <2>4, <4>2 DEF ActiveInv, JobsOf
      <4> QED  BY <4>1, <4>2
    <3>2. \A v \in Workers : held[v] = j => v = w
      BY <1>1 DEF PlaceInv
    <3> QED  BY <1>1, <1>3, <2>1, <2>5, <2>6, <3>1, <3>2 DEF ActiveInv
  <2>11. TreeInv' /\ RevisionInv'
    BY <1>3, <2>6 DEF TreeInv, RevisionInv
  <2>12. \A x \in Attached : doc'[x] = doc[x]
    BY <1>4, <2>3, <2>4
  <2>13. AttachInv' /\ StateInv' /\ PollInv'
    BY <1>3, <1>4, <2>1, <2>12 DEF AttachInv, StateInv, PollInv, Busy
  <2>14. SettleInv'
    BY <1>3, <1>4, <2>12 DEF SettleInv, Busy
  <2> QED  BY <2>7, <2>8, <2>9, <2>10, <2>11, <2>13, <2>14
<1>6. CASE ~doc[s].closed
  <2>1. /\ completed' = completed \cup {j} /\ held' = [held EXCEPT ![w] = NoJob]
        /\ signalled' \in BOOLEAN /\ (signalled => signalled') /\ (signalled' \/ s \in unheard')
        /\ unheard \subseteq unheard' /\ unheard' \subseteq States
        /\ To(w, "look") /\ UNCHANGED doc
    BY <1>1, <1>2, <1>6 DEF Finish, SignalMain, TypeOK
  <2>2. /\ held' \in [Workers -> Jobs \cup {NoJob}] /\ held'[w] = NoJob
        /\ \A v \in Workers \ {w} : held'[v] = held[v] /\ held'[v] # j
        /\ j \notin ToSet(queue) /\ j \notin completed
        /\ Outstanding' = Outstanding
    BY <1>1, <1>3, <2>1, DroppedJob
  <2>3. /\ pc' \in [Workers -> {"look", "parse", "finish", "free", "gone"}] /\ pc'[w] = "look"
        /\ \A v \in Workers \ {w} : pc'[v] = pc[v]
    BY <2>1 DEF To, TypeOK
  <2>4. \A x : JobsOf(x)' = JobsOf(x)
    BY <1>3, <2>2 DEF JobsOf
  <2>5. TypeOK'
    BY <1>3, <2>1, <2>2, <2>3 DEF TypeOK
  <2>6. PlaceInv'
    BY <1>1, <1>3, <2>1, <2>2, <2>3 DEF PlaceInv
  <2>7. RefInv' /\ TreeInv' /\ RevisionInv' /\ StateInv' /\ AttachInv' /\ SettleInv'
    BY <1>3, <1>4, <2>1, <2>2, <2>4 DEF RefInv, TreeInv, RevisionInv, StateInv, AttachInv,
       SettleInv, Busy
  <2>8. ActiveInv'
    BY <1>1, <1>3, <2>1, <2>2, <2>3, <2>4 DEF ActiveInv
  <2>9. PollInv'
    <3> SUFFICES ASSUME NEW x \in Attached, main = "run"
        PROVE  (\E k \in completed' : job[k].doc = x) => signalled' \/ x \in polling \/ x \in unheard'
      BY <1>3, <1>4, <2>1 DEF PollInv, Busy
    <3>1. ASSUME NEW k \in completed, job[k].doc = x
          PROVE  signalled' \/ x \in polling \/ x \in unheard'
      <4>1. signalled \/ x \in polling \/ x \in unheard
        BY <3>1 DEF PollInv
      <4> QED  BY <2>1, <4>1
    <3>2. job[j].doc = x => signalled' \/ x \in unheard'
      BY <1>2, <2>1
    <3> QED  BY <2>1, <3>1, <3>2
  <2> QED  BY <2>5, <2>6, <2>7, <2>8, <2>9
<1> QED  BY <1>5, <1>6

LEMMA FreeInv == ASSUME IInv, NEW w \in Workers, Free(w) PROVE IInv'
<1> USE DEF IInv
<1>1. PICK j \in Jobs : j = held[w] /\ j # NoJob /\ j \in Outstanding
  BY OutstandingJobs DEF Free, PlaceInv, TypeOK
<1>2. PICK s \in States : s = job[j].doc
  BY <1>1 DEF RefInv
<1>3. /\ pc[w] = "free" /\ held' = [held EXCEPT ![w] = NoJob] /\ job' = [job EXCEPT ![j] = NewJob]
      /\ doc' = [doc EXCEPT ![s] = Released(doc[s], 1)] /\ To(w, "look")
      /\ UNCHANGED <<revision, ts, lua, queue, completed, signalled, unheard, polling, followup, main>>
  BY <1>1, <1>2 DEF Free, FreeJob, textvars, loop
<1>4. /\ held' \in [Workers -> Jobs \cup {NoJob}] /\ held'[w] = NoJob
      /\ \A v \in Workers \ {w} : held'[v] = held[v] /\ held'[v] # j
      /\ j \notin ToSet(queue) /\ j \notin completed
      /\ Outstanding' = Outstanding \ {j}
  BY <1>1, <1>3, DroppedJob
<1>5. /\ pc' \in [Workers -> {"look", "parse", "finish", "free", "gone"}] /\ pc'[w] = "look"
      /\ \A v \in Workers \ {w} : pc'[v] = pc[v]
  BY <1>3 DEF To, TypeOK
<1>6. job' \in [Jobs -> ParseJobs] /\ \A k \in Jobs \ {j} : job'[k] = job[k]
  BY <1>3, CleanupJob DEF TypeOK
<1>7. /\ Cardinality(JobsOf(s)') = Cardinality(JobsOf(s)) - 1
      /\ JobsOf(s)' = JobsOf(s) \ {j} /\ j \in JobsOf(s) /\ Cardinality(JobsOf(s)) >= 1
      /\ \A x : x # s => JobsOf(x)' = JobsOf(x)
  <2>1. \A k \in Outstanding \ {j} : job'[k].doc = job[k].doc
    BY <1>6, OutstandingJobs
  <2> QED  BY <1>1, <1>2, <1>4, <2>1, FreedJobs
<1>8. /\ doc[s] \in Documents /\ doc[s].refs = Cardinality(JobsOf(s)) + (IF doc[s].owned THEN 1 ELSE 0)
      /\ Cardinality(JobsOf(s)) \in Nat /\ doc[s].refs >= 1
  BY <1>7, OutstandingJobs DEF RefInv, TypeOK
<1>9. /\ doc' \in [States -> Documents] /\ doc'[s] = Released(doc[s], 1)
      /\ \A x \in States \ {s} : doc'[x] = doc[x]
  BY <1>3, <1>8, ReleasedDoc DEF TypeOK
<1>10. doc[s].active # j
  BY <1>1, <1>3 DEF ActiveInv
<1>11. /\ doc'[s].refs = doc[s].refs - 1 /\ (doc[s].owned => doc'[s].owned /\ doc[s].refs # 1)
       /\ (doc'[s].owned => doc[s].owned) /\ doc'[s].active \in {NoJob, doc[s].active}
       /\ (doc'[s].status = "none" => doc'[s] = NewDoc)
       /\ doc[s].refs # 1 => /\ doc'[s].status = doc[s].status /\ doc'[s].closed = doc[s].closed
                             /\ doc'[s].tree = doc[s].tree /\ doc'[s].active = doc[s].active
  <2>1. CASE doc[s].refs = 1
    <3>1. ~doc[s].owned
      BY <1>7, <1>8, <2>1
    <3>2. doc'[s] = NewDoc
      BY <1>8, <1>9, <2>1, ReleasedDoc
    <3> QED  BY <2>1, <3>1, <3>2 DEF NewDoc
  <2>2. CASE doc[s].refs # 1
    <3>1. doc[s].status # "none"
      BY <1>8 DEF RefInv, NewDoc
    <3> QED  BY <1>8, <1>9, <2>2, <3>1, ReleasedDoc
  <2> QED  BY <2>1, <2>2
<1>12. /\ Attached' = Attached /\ Attached \subseteq States
       /\ \A c \in Buffers : ts[c] # NoState => ts[c] \in Attached
  BY <1>3 DEF Attached, TypeOK
<1>13. \A x \in Attached : /\ doc'[x].status = doc[x].status /\ doc'[x].closed = doc[x].closed
                           /\ doc'[x].tree = doc[x].tree /\ doc'[x].active = doc[x].active
                           /\ doc[x].owned => doc'[x].owned
  <2> SUFFICES ASSUME NEW x \in Attached
               PROVE  /\ doc'[x].status = doc[x].status /\ doc'[x].closed = doc[x].closed
                      /\ doc'[x].tree = doc[x].tree /\ doc'[x].active = doc[x].active
                      /\ doc[x].owned => doc'[x].owned
    OBVIOUS
  <2>1. CASE x = s
    <3>1. doc[s].owned
      BY <2>1 DEF AttachInv
    <3> QED  BY <1>11, <2>1, <3>1
  <2>2. CASE x # s
    BY <1>9, <1>12, <2>2
  <2> QED  BY <2>1, <2>2
<1>14. \A x \in States : doc'[x].active # NoJob =>
         /\ doc'[x].active = doc[x].active /\ doc[x].active \in Jobs \ {j}
         /\ doc[x].active \in JobsOf(x)
  <2> SUFFICES ASSUME NEW x \in States, doc'[x].active # NoJob
      PROVE /\ doc'[x].active = doc[x].active /\ doc[x].active \in Jobs \ {j}
            /\ doc[x].active \in JobsOf(x)
    OBVIOUS
  <2>1. doc'[x].active = doc[x].active
    BY <1>9, <1>11
  <2>2. doc[x].active \in JobsOf(x) /\ doc[x].active \in Jobs
    BY <2>1, OutstandingJobs DEF ActiveInv, JobsOf
  <2>3. doc[x].active # j
    BY <1>2, <1>10, <2>2 DEF JobsOf
  <2> QED  BY <2>1, <2>2, <2>3
<1>15. TypeOK'
  BY <1>3, <1>4, <1>5, <1>6, <1>9 DEF TypeOK
<1>16. PlaceInv'
  BY <1>1, <1>3, <1>4, <1>5 DEF PlaceInv
<1>17. RefInv'
  <2>1. \A k \in Outstanding' : job'[k].doc \in States
    BY <1>4, <1>6, OutstandingJobs DEF RefInv
  <2>2. ASSUME NEW x \in States
        PROVE  doc'[x].refs = Cardinality(JobsOf(x)') + (IF doc'[x].owned THEN 1 ELSE 0)
    <3>1. CASE x = s
      <4> DEFINE c == Cardinality(JobsOf(s))  n == Cardinality(JobsOf(s)')
      <4>0. n = c - 1 /\ c \in Nat /\ doc'[s].refs = doc[s].refs - 1
        BY <1>7, <1>8, <1>11
      <4>1. CASE doc[s].owned
        <5>1. doc[s].refs = c + 1 /\ doc'[s].owned
          BY <1>8, <1>11, <4>1
        <5> HIDE DEF c, n
        <5>2. doc'[s].refs = n + 1
          BY <4>0, <5>1
        <5> QED  BY <3>1, <5>1, <5>2 DEF n
      <4>2. CASE ~doc[s].owned
        <5>1. doc[s].refs = c + 0 /\ ~doc'[s].owned
          BY <1>8, <1>11, <4>2
        <5> HIDE DEF c, n
        <5>2. doc'[s].refs = n + 0
          BY <4>0, <5>1
        <5> QED  BY <3>1, <5>1, <5>2 DEF n
      <4> QED  BY <4>1, <4>2
    <3>2. CASE x # s
      BY <1>7, <1>9, <3>2 DEF RefInv
    <3> QED  BY <3>1, <3>2
  <2>3. \A x \in States : doc'[x].status = "none" => doc'[x] = NewDoc
    BY <1>9, <1>11 DEF RefInv
  <2> QED  BY <2>1, <2>2, <2>3 DEF RefInv
<1>18. ActiveInv'
  <2>1. ASSUME NEW x \in States, doc'[x].active # NoJob
        PROVE  /\ doc'[x].active \in JobsOf(x)' /\ ~job'[doc'[x].active].cleanup
               /\ \A v \in Workers : held'[v] = doc'[x].active => pc'[v] # "free"
    <3>1. /\ doc'[x].active = doc[x].active /\ doc[x].active \in Jobs \ {j}
          /\ doc[x].active \in JobsOf(x) /\ doc[x].active # NoJob
      BY <1>14, <2>1
    <3>2. doc[x].active \in JobsOf(x)'
      BY <1>7, <3>1
    <3>3. \A v \in Workers : held'[v] = doc[x].active => pc'[v] # "free"
      BY <1>4, <1>5, <3>1 DEF ActiveInv
    <3> QED  BY <1>6, <3>1, <3>2, <3>3 DEF ActiveInv
  <2>2. \A v \in Workers : pc'[v] \in {"parse", "finish"} => ~job'[held'[v]].cleanup
    <3>1. \A v \in Workers \ {w} : pc[v] \in {"parse", "finish"} => held[v] \in Jobs \ {j}
      BY <1>4, OutstandingJobs DEF PlaceInv, TypeOK
    <3> QED  BY <1>4, <1>5, <1>6, <3>1 DEF ActiveInv
  <2> QED  BY <2>1, <2>2 DEF ActiveInv
<1>19. TreeInv'
  BY <1>4, <1>6, OutstandingJobs DEF TreeInv
<1>20. AttachInv'
  BY <1>3, <1>12, <1>13 DEF AttachInv
<1>21. StateInv' /\ RevisionInv'
  BY <1>3, <1>6, <1>12, <1>13, <1>14 DEF StateInv, RevisionInv, Busy
<1>22. PollInv'
  <2>1. \A k \in completed : k \in Jobs \ {j}
    BY <1>4 DEF TypeOK
  <2> QED  BY <1>3, <1>6, <1>12, <1>13, <1>14, <2>1 DEF PollInv, Busy
<1>23. SettleInv'
  BY <1>3, <1>12, <1>13 DEF SettleInv, Busy
<1> QED  BY <1>15, <1>16, <1>17, <1>18, <1>19, <1>20, <1>21, <1>22, <1>23

-----------------------------------------------------------------------------
(* The end *)

LEMMA ShutdownInv == ASSUME IInv, Shutdown PROVE IInv'
<1> USE DEF IInv
<1>1. /\ main' = "join"
      /\ job' = [j \in Jobs |-> IF j \in Outstanding THEN [job[j] EXCEPT !.cancel = TRUE] ELSE job[j]]
      /\ UNCHANGED <<revision, ts, lua, doc, queue, completed, held, pc, signalled, unheard, polling, followup>>
  BY DEF Shutdown, textvars, workers
<1>2. job' \in [Jobs -> ParseJobs] /\ \A k \in Jobs :
        /\ job'[k].doc = job[k].doc /\ job'[k].generation = job[k].generation
        /\ job'[k].revision = job[k].revision /\ job'[k].old = job[k].old /\ job'[k].tree = job[k].tree
        /\ job'[k].outcome = job[k].outcome /\ job'[k].cleanup = job[k].cleanup
  <2> SUFFICES ASSUME NEW k \in Jobs
      PROVE /\ job'[k] \in ParseJobs
            /\ job'[k].doc = job[k].doc /\ job'[k].generation = job[k].generation
            /\ job'[k].revision = job[k].revision /\ job'[k].old = job[k].old /\ job'[k].tree = job[k].tree
            /\ job'[k].outcome = job[k].outcome /\ job'[k].cleanup = job[k].cleanup
    BY <1>1
  <2>1. job[k] \in ParseJobs /\ job'[k] = IF k \in Outstanding THEN [job[k] EXCEPT !.cancel = TRUE] ELSE job[k]
    BY <1>1 DEF TypeOK
  <2> QED  BY <2>1 DEF ParseJobs
<1>3. /\ Attached' = Attached /\ Outstanding' = Outstanding
      /\ \A x : JobsOf(x)' = JobsOf(x)
  BY <1>1, <1>2, OutstandingJobs DEF Attached, Outstanding, JobsOf
<1>4. \A x \in States : doc[x].active # NoJob => doc[x].active \in Jobs
  BY DEF TypeOK, Documents
<1>5. TypeOK' /\ PlaceInv'
  BY <1>1, <1>2 DEF TypeOK, PlaceInv
<1>6. RefInv' /\ TreeInv'
  BY <1>1, <1>2, <1>3, OutstandingJobs DEF RefInv, TreeInv
<1>7. ActiveInv'
  <2>1. \A v \in Workers : pc[v] \in {"parse", "finish"} => held[v] \in Jobs
    BY DEF PlaceInv, TypeOK
  <2> QED  BY <1>1, <1>2, <1>3, <1>4, <2>1 DEF ActiveInv
<1>8. AttachInv' /\ RevisionInv' /\ PollInv' /\ SettleInv'
  BY <1>1, <1>3 DEF AttachInv, RevisionInv, PollInv, SettleInv, Busy
<1>9. StateInv'
  <2>1. Attached \subseteq States
    BY DEF Attached, TypeOK
  <2> QED  BY <1>1, <1>2, <1>3, <1>4, <2>1 DEF StateInv, Busy
<1> QED  BY <1>5, <1>6, <1>7, <1>8, <1>9

LEMMA JoinInv == ASSUME IInv, Join PROVE IInv'
<1> USE DEF IInv
<1> DEFINE Left(s) == {j \in Outstanding : job[j].doc = s}
           Kept(s) == [doc[s] EXCEPT !.active = IF @ \in Outstanding THEN NoJob ELSE @]
<1>1. \A w \in Workers : held[w] = NoJob /\ pc[w] = "gone"
  BY OutstandingJobs DEF Join, PlaceInv, TypeOK
<1>2. ToSet(queue) \cup completed = Outstanding
  BY <1>1 DEF Outstanding
<1>3. /\ main' = "stopped" /\ job' = [j \in Jobs |-> NewJob] /\ queue' = <<>> /\ completed' = {}
      /\ doc' = [s \in States |-> IF Left(s) = {} THEN doc[s] ELSE Released(Kept(s), Cardinality(Left(s)))]
      /\ UNCHANGED <<revision, ts, lua, held, pc, signalled, unheard, polling, followup>>
  BY <1>2 DEF Join, textvars, workers
<1>4. \A s \in States : Left(s) = JobsOf(s)
  BY DEF JobsOf
<1>5. Outstanding' = {} /\ Attached' = Attached /\ Attached \subseteq States
  BY <1>1, <1>3 DEF Outstanding, Attached, TypeOK, ToSet
<1>6. \A s : JobsOf(s)' = {}
  BY <1>5 DEF JobsOf
<1>7. ASSUME NEW s \in States
      PROVE  /\ doc'[s] \in Documents /\ doc'[s].refs = (IF doc'[s].owned THEN 1 ELSE 0)
             /\ doc'[s].status = "none" => doc'[s] = NewDoc
             /\ doc'[s].active = NoJob
             /\ doc[s].owned => /\ doc'[s].owned /\ doc'[s].status = doc[s].status
                                /\ doc'[s].closed = doc[s].closed /\ doc'[s].tree = doc[s].tree
  <2>1. /\ doc[s] \in Documents /\ Cardinality(JobsOf(s)) \in Nat /\ IsFiniteSet(JobsOf(s))
        /\ doc[s].refs = Cardinality(JobsOf(s)) + (IF doc[s].owned THEN 1 ELSE 0)
    BY OutstandingJobs DEF TypeOK, RefInv
  <2>2. CASE JobsOf(s) = {}
    <3>1. doc'[s] = doc[s] /\ Cardinality(JobsOf(s)) = 0
      BY <1>3, <1>4, <2>2, FS_EmptySet
    <3>2. doc[s].active = NoJob
      BY <2>2 DEF ActiveInv
    <3> QED  BY <2>1, <3>1, <3>2 DEF RefInv
  <2>3. CASE JobsOf(s) # {}
    <3> DEFINE k == Kept(s)  n == Cardinality(JobsOf(s))
    <3>1. doc[s].active \in Outstanding \/ doc[s].active = NoJob
      BY DEF ActiveInv, JobsOf
    <3>2. /\ k \in Documents /\ k.refs = doc[s].refs /\ k.owned = doc[s].owned /\ k.status = doc[s].status
          /\ k.active = NoJob /\ k.closed = doc[s].closed /\ k.tree = doc[s].tree
      BY <2>1, <3>1 DEF Documents
    <3>3. n # 0 /\ n <= k.refs
      BY <2>1, <2>3, <3>2, FS_EmptySet
    <3>4. doc'[s] = Released(k, n)
      BY <1>3, <1>4, <2>3
    <3>5. doc[s].status # "none"
      BY <2>1, <3>2, <3>3 DEF RefInv, NewDoc
    <3> HIDE DEF k
    <3>6. CASE doc[s].owned
      <4>1. k.refs # n /\ k.refs - n = 1
        BY <2>1, <3>2, <3>6
      <4>2. /\ doc'[s] \in Documents /\ doc'[s].refs = k.refs - n /\ doc'[s].status = k.status
            /\ doc'[s].closed = k.closed /\ doc'[s].tree = k.tree /\ doc'[s].active = k.active
            /\ doc'[s].owned = k.owned
        BY <2>1, <3>2, <3>3, <3>4, <4>1, ReleasedDoc
      <4> QED  BY <3>2, <3>5, <3>6, <4>1, <4>2
    <3>7. CASE ~doc[s].owned
      <4>1. k.refs = n
        BY <2>1, <3>2, <3>7
      <4>2. doc'[s] = NewDoc /\ doc'[s] \in Documents
        BY <2>1, <3>2, <3>3, <3>4, <4>1, ReleasedDoc
      <4> QED  BY <3>7, <4>2 DEF NewDoc
    <3> QED  BY <3>6, <3>7
  <2> QED  BY <2>2, <2>3
<1> HIDE DEF Left, Kept
<1>8. doc' \in [States -> Documents]
  BY <1>3, <1>7
<1>9. TypeOK' /\ PlaceInv'
  BY <1>1, <1>3, <1>8, CleanupJob DEF TypeOK, PlaceInv, ToSet
<1>10. RefInv'
  <2>1. \A s \in States : Cardinality(JobsOf(s)') = 0
    BY <1>6, FS_EmptySet
  <2> QED  BY <1>5, <1>7, <2>1 DEF RefInv
<1>11. ActiveInv' /\ TreeInv' /\ PollInv' /\ RevisionInv'
  BY <1>1, <1>3, <1>5, <1>7 DEF ActiveInv, TreeInv, PollInv, RevisionInv
<1>12. \A s \in Attached : /\ doc[s].owned /\ doc'[s].owned /\ doc'[s].status = doc[s].status
                           /\ doc'[s].closed = doc[s].closed /\ doc'[s].tree = doc[s].tree
  BY <1>5, <1>7 DEF AttachInv
<1>13. AttachInv'
  BY <1>3, <1>5, <1>12 DEF AttachInv
<1>14. StateInv'
  <2> SUFFICES ASSUME NEW s \in Attached
               PROVE  /\ doc'[s].active = NoJob
                      /\ lua[s].status = "ready" => doc'[s].status = "ready" /\ ~lua[s].pending
                      /\ doc'[s].status = "ready" /\ ~lua[s].pending
                           => doc'[s].tree = Tree(lua[s].scheduled, lua[s].scheduled)
    BY <1>3, <1>5 DEF StateInv
  <2>1. doc'[s].active = NoJob
    BY <1>5, <1>7
  <2> QED  BY <1>12, <2>1 DEF StateInv
<1>15. SettleInv'
  <2>1. \A c \in Buffers : ts[c] # NoState => doc'[ts[c]].status = doc[ts[c]].status
    BY <1>12 DEF Attached
  <2> QED  BY <1>3, <2>1 DEF SettleInv, Busy
<1> QED  BY <1>9, <1>10, <1>11, <1>13, <1>14, <1>15

-----------------------------------------------------------------------------
(* The invariant, and what follows from it *)

LEMMA InitInv == Init => IInv
<1> SUFFICES ASSUME Init PROVE IInv
  OBVIOUS
<1> USE DEF Init
<1>1. 1 \in 1..MaxRevision
  BY BoundsAssumption
<1>2. NewDoc \in Documents /\ NewDoc.active = NoJob /\ NewDoc.refs = 0 /\ ~NewDoc.owned
  BY DEF NewDoc, Documents, Trees
<1>3. Outstanding = {} /\ Attached = {}
  BY DEF Outstanding, Attached, ToSet
<1>4. \A s \in States : JobsOf(s) = {} /\ Cardinality(JobsOf(s)) = 0
  BY <1>3, FS_EmptySet DEF JobsOf
<1>5. TypeOK
  <2>1. /\ revision \in [Buffers -> 1..MaxRevision] /\ ts \in [Buffers -> States \cup {NoState}]
        /\ lua \in [States -> Tables] /\ doc \in [States -> Documents] /\ job \in [Jobs -> ParseJobs]
    BY <1>1, <1>2, CleanupJob
  <2>2. queue \in Seq(Jobs) /\ completed \subseteq Jobs
    OBVIOUS
  <2>3. /\ held \in [Workers -> Jobs \cup {NoJob}]
        /\ pc \in [Workers -> {"look", "parse", "finish", "free", "gone"}]
    OBVIOUS
  <2>4. /\ signalled \in BOOLEAN /\ unheard \subseteq States /\ polling \subseteq States
        /\ followup \in States \cup {NoState} /\ main \in {"run", "join", "stopped"}
    OBVIOUS
  <2> QED  BY <2>1, <2>2, <2>3, <2>4 DEF TypeOK
<1>6. PlaceInv
  BY DEF PlaceInv, ToSet
<1>7. RefInv
  BY <1>2, <1>3, <1>4 DEF RefInv
<1>8. ActiveInv /\ TreeInv /\ StateInv /\ RevisionInv /\ PollInv /\ SettleInv
  BY <1>2, <1>3 DEF ActiveInv, TreeInv, StateInv, RevisionInv, PollInv, SettleInv
<1>9. AttachInv
  BY <1>3, CleanupJob DEF AttachInv
<1> QED  BY <1>5, <1>6, <1>7, <1>8, <1>9 DEF IInv

LEMMA StutterInv == IInv /\ UNCHANGED vars => IInv'
<1> SUFFICES ASSUME IInv, UNCHANGED vars PROVE IInv'
  OBVIOUS
<1>1. UNCHANGED <<revision, ts, lua, doc, job, queue, completed, held, pc, signalled, unheard, polling, followup, main>>
  BY DEF vars, textvars, service, workers, loop
<1>2. /\ Attached' = Attached /\ Outstanding' = Outstanding /\ \A x : JobsOf(x)' = JobsOf(x)
  BY <1>1 DEF Attached, Outstanding, JobsOf
<1> QED  BY <1>1, <1>2 DEF IInv, TypeOK, PlaceInv, RefInv, ActiveInv, TreeInv, AttachInv,
            StateInv,
            RevisionInv, PollInv, SettleInv, Busy

LEMMA NextInv == IInv /\ [Next]_vars => IInv'
<1> SUFFICES ASSUME IInv, [Next]_vars PROVE IInv'
  OBVIOUS
<1>1. CASE User
  BY <1>1, EditInv, UpdateInv, LoadInv, CloseInv DEF User
<1>2. CASE Polls
  BY <1>2, CompleteEventInv, PollNextInv, FollowUpInv DEF Polls
<1>3. CASE Threads
  BY <1>3, CoalescedInv DEF Threads
<1>4. CASE Shutdown \/ Join
  BY <1>4, ShutdownInv, JoinInv
<1>5. CASE \E s \in States : PollOne(s) \/ Finalize(s)
  BY <1>5, PollOneInv, FinalizeInv
<1>6. CASE \E w \in Workers : Worker(w)
  BY <1>6, TakeInv, LeaveInv, ParseTextInv, ParseFailsInv, FinishInv, FreeInv DEF Worker
<1>7. CASE UNCHANGED vars
  BY <1>7, StutterInv
<1> QED  BY <1>1, <1>2, <1>3, <1>4, <1>5, <1>6, <1>7 DEF Next

LEMMA Invariant == Spec => []IInv
BY InitInv, NextInv, PTL DEF Spec

\* Every variable keeps its type.
THEOREM TypeCorrect == Spec => []TypeOK
<1>1. IInv => TypeOK
  BY DEF IInv
<1> QED  BY <1>1, Invariant, PTL

\* Highlights that are ready are those of the Buffer's text: a tree is published only for the
\* generation that was scheduled last, and an edit goes only to a tree that fits the text.
THEOREM ReadyCorrect == Spec => []ReadyIsCurrent
<1>1. IInv => ReadyIsCurrent
  <2> SUFFICES ASSUME IInv, NEW b \in Buffers, ts[b] # NoState, lua[ts[b]].status = "ready"
               PROVE  doc[ts[b]].tree = Tree(revision[b], revision[b])
    BY DEF ReadyIsCurrent
  <2>1. ts[b] \in Attached
    BY DEF Attached
  <2> QED  BY <2>1 DEF IInv, StateInv, RevisionInv
<1> QED  BY <1>1, Invariant, PTL

\* The references of a state are those that its userdata and its jobs hold, so nothing is freed
\* while a list, a worker, a Buffer or active_job names it.
THEOREM ReferencesCorrect == Spec => []ReferencesCounted
<1>1. IInv => ReferencesCounted
  BY DEF IInv, ReferencesCounted, RefInv, ActiveInv, AttachInv, JobsOf
<1> QED  BY <1>1, Invariant, PTL

\* When nothing is left to do, each attached Buffer has the tree of its text or a failed parse of
\* it, except one with a result whose event SDL refused: no other result was left unpolled, and
\* no edit was lost on the way.
THEOREM SettledCorrect == Spec => []SettledIsCurrent
<1>1. IInv => SettledIsCurrent
  <2> SUFFICES ASSUME IInv, Running, ~signalled, queue = <<>>, \A w \in Workers : held[w] = NoJob,
                      \A s \in Attached : ~lua[s].thread,
                      NEW b \in Buffers, ts[b] # NoState, ts[b] \notin unheard
               PROVE  lua[ts[b]].scheduled = revision[b] /\ lua[ts[b]].status \in {"ready", "failed"}
    BY DEF SettledIsCurrent
  <2> USE DEF IInv
  <2>1. PICK s \in States : s = ts[b] /\ s \in Attached
    BY DEF Attached, TypeOK
  <2>2. Outstanding = completed /\ main = "run" /\ polling = {} /\ followup # s
    BY OutstandingJobs DEF Outstanding, ToSet, Running
  <2>3. \A j \in completed : job[j].doc # s
    BY <2>1, <2>2 DEF PollInv
  <2>4. doc[s].active = NoJob
    BY <2>1, <2>2, <2>3 DEF ActiveInv, JobsOf
  <2>5. ~Busy(s) /\ doc[s].status \in {"ready", "failed"}
    BY <2>1, <2>2, <2>4 DEF PollInv, Busy
  <2>6. lua[s].status = doc[s].status /\ lua[s].scheduled = revision[b]
    BY <2>1, <2>2, <2>5 DEF SettleInv
  <2> QED  BY <2>1, <2>5, <2>6
<1> QED  BY <1>1, Invariant, PTL

=============================================================================
