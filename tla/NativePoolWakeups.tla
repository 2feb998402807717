-------------------------- MODULE NativePoolWakeups --------------------------
(***************************************************************************)
(* Why no job of NativePool waits while a worker sleeps, for any number of  *)
(* jobs and workers. A submission wakes one worker only, so the argument    *)
(* counts: as long as a worker sleeps, at least as many workers are on      *)
(* their way to the queue as jobs could start.                              *)
(***************************************************************************)
EXTENDS NativePoolProofs, WellFoundedInduction

\* The queue is finite, and ids tell its jobs apart.
QueueOrdered ==
  /\ IsFiniteSet(queue)
  /\ \A j \in Jobs : id[j] <= lastId
  /\ \A i, j \in queue : id[i] = id[j] => i = j

\* The queued jobs of each lane, and how many of all could start before one ends.
Plain == {j \in queue : ~spec[j].project /\ ~Background(j)}
Backs == {j \in queue : Background(j)}
Runs == {j \in queue : spec[j].project}
BackStarts == IF Cardinality(Backs) <= Limit - backgrounds THEN Cardinality(Backs) ELSE Limit - backgrounds
RunStarts == IF Runs # {} /\ projects = 0 THEN 1 ELSE 0
Starts == Cardinality(Plain) + BackStarts + RunStarts

Selecting == {w \in Workers : pc[w] = "select"}
Counts == ~terminate /\ Waiting # {} => Starts <= Cardinality(Selecting)
WakeInv == QueueOrdered /\ Counts

-----------------------------------------------------------------------------
\* The choice of a worker takes a job when one could start.

LEMMA FirstId ==
  ASSUME NEW S \in SUBSET Jobs, S # {}, id \in [Jobs -> Nat]
  PROVE  \E j \in S : \A i \in S : id[j] <= id[i]
<1> DEFINE ids == {id[j] : j \in S}
<1>1. ids \subseteq Nat /\ ids # {}
  OBVIOUS
<1>2. PICK n \in ids : \A k \in ids : <<k, n>> \notin OpToRel(<, Nat)
  <2> HIDE DEF ids
  <2> QED BY <1>1, NatLessThanWellFounded, WFMin
<1>3. \A k \in ids : ~(k < n)
  BY <1>1, <1>2 DEF OpToRel
<1>4. PICK j \in S : n = id[j]
  BY <1>2
<1>5. \A i \in S : ~(id[i] < id[j])
  BY <1>3, <1>4
<1> QED BY <1>5

\* Some job of a set of queued jobs is before all others of the set.
LEMMA FirstOfAll ==
  ASSUME PlainTypes, QueueOrdered, NEW S \in SUBSET queue, S # {}
  PROVE  \E j \in S : \A i \in S \ {j} : Before(j, i)
<1>0. /\ \A j \in S : j \in Jobs /\ spec[j].priority \in {-1, 0, 1}
      /\ id \in [Jobs -> Nat]
  BY DEF PlainTypes, Priorities
<1>1. PICK p \in {-1, 0, 1} : /\ \E j \in S : spec[j].priority = p
                             /\ \A j \in S : spec[j].priority <= p
  <2>1. CASE \E j \in S : spec[j].priority = 1
    BY <1>0, <2>1
  <2>2. CASE (~\E j \in S : spec[j].priority = 1) /\ \E j \in S : spec[j].priority = 0
    BY <1>0, <2>2
  <2>3. CASE \A j \in S : spec[j].priority = -1
    BY <2>3
  <2> QED BY <1>0, <2>1, <2>2, <2>3
<1> DEFINE T == {j \in S : spec[j].priority = p}
<1>2. T \in SUBSET Jobs /\ T # {}
  BY <1>0, <1>1
<1>3. PICK j \in T : \A i \in T : id[j] <= id[i]
  <2> HIDE DEF T
  <2> QED BY <1>0, <1>2, FirstId
<1>4. ASSUME NEW i \in S \ {j} PROVE Before(j, i)
  <2>1. CASE spec[i].priority = p
    <3>1. id[j] <= id[i] /\ id[i] # id[j] /\ id[i] \in Nat /\ id[j] \in Nat
      BY <1>0, <1>3, <2>1 DEF QueueOrdered
    <3> QED BY <1>3, <2>1, <3>1 DEF Before
  <2>2. CASE spec[i].priority # p
    BY <1>0, <1>1, <1>3, <2>2 DEF Before
  <2> QED BY <2>1, <2>2
<1> QED BY <1>3, <1>4

LEMMA LanesOfQueue ==
  ASSUME PlainTypes, Counted, QueueOrdered
  PROVE  /\ Cardinality(Plain) \in Nat /\ Cardinality(Backs) \in Nat
         /\ IsFiniteSet(Plain) /\ IsFiniteSet(Backs)
         /\ Limit - backgrounds \in Nat /\ Limit \in Nat /\ backgrounds \in Nat /\ BackStarts \in Nat
         /\ RunStarts \in {0, 1} /\ projects \in Nat
<1>1. IsFiniteSet(Plain) /\ IsFiniteSet(Backs)
  <2>1. Plain \in SUBSET queue /\ Backs \in SUBSET queue
    BY DEF Plain, Backs
  <2> QED BY <2>1, FS_Subset DEF QueueOrdered
<1>2. Cardinality(Plain) \in Nat /\ Cardinality(Backs) \in Nat
  BY <1>1, FS_CardinalityType
<1>3. Limit \in Nat /\ backgrounds \in Nat /\ projects \in Nat /\ backgrounds <= Limit
  BY LanesFinite DEF Counted
<1> QED BY <1>1, <1>2, <1>3 DEF BackStarts, RunStarts

\* If the choice finds no job, none could start; if it finds one, some could.
LEMMA ChoiceFinds ==
  ASSUME PlainTypes, Counted, QueueOrdered
  PROVE  Selected = {} <=> Starts = 0
<1> USE LanesOfQueue
<1>1. Eligible = {} <=> Plain = {} /\ (Backs = {} \/ Limit - backgrounds = 0)
  <2>1. \A j \in queue : Background(j) => ~spec[j].project
    BY DEF Background
  <2>2. Eligible = Plain \cup (IF backgrounds < Limit THEN Backs ELSE {})
    BY <2>1 DEF Eligible, Plain, Backs
  <2> QED BY <2>2
<1>2. Plain = {} <=> Cardinality(Plain) = 0
  BY FS_EmptySet
<1>3. Backs = {} <=> Cardinality(Backs) = 0
  BY FS_EmptySet
<1>4. Eligible # {} => Selected # {}
  <2> SUFFICES ASSUME Eligible # {} PROVE Selected # {}
    OBVIOUS
  <2>1. Eligible \in SUBSET queue
    BY DEF Eligible
  <2>2. PICK j \in Eligible : \A i \in Eligible \ {j} : Before(j, i)
    BY <2>1, FirstOfAll
  <2> QED BY <2>2 DEF Selected
<1>5. Eligible = {} => (Selected = {} <=> Runs = {} \/ projects # 0)
  <2> SUFFICES ASSUME Eligible = {} PROVE Selected = {} <=> Runs = {} \/ projects # 0
    OBVIOUS
  <2>1. Selected = IF projects = 0
                   THEN {j \in queue : spec[j].project /\ \A i \in queue : spec[i].project => id[j] <= id[i]}
                   ELSE {}
    BY DEF Selected
  <2>2. Runs \in SUBSET Jobs /\ id \in [Jobs -> Nat]
    BY DEF Runs, PlainTypes
  <2>3. Runs # {} => \E j \in Runs : \A i \in Runs : id[j] <= id[i]
    BY <2>2, FirstId
  <2> QED BY <2>1, <2>3 DEF Runs
<1>6. Starts = 0 <=> Cardinality(Plain) = 0 /\ BackStarts = 0 /\ RunStarts = 0
  BY DEF Starts
<1>7. BackStarts = 0 <=> Cardinality(Backs) = 0 \/ Limit - backgrounds = 0
  BY DEF BackStarts
<1>8. RunStarts = 0 <=> Runs = {} \/ projects # 0
  BY DEF RunStarts
<1> QED BY <1>1, <1>2, <1>3, <1>4, <1>5, <1>6, <1>7, <1>8

-----------------------------------------------------------------------------
\* The steps.

\* Ids are given in order.
LEMMA SameOrder ==
  ASSUME QueueOrdered, UNCHANGED <<id, lastId>>, queue' \in SUBSET queue
  PROVE  QueueOrdered'
<1>1. IsFiniteSet(queue')
  BY FS_Subset DEF QueueOrdered
<1> QED BY <1>1 DEF QueueOrdered

LEMMA SubmitOrder ==
  ASSUME PlainTypes, QueueOrdered, NEW j \in Jobs, Submit(j)
  PROVE  QueueOrdered'
<1>0. /\ id \in [Jobs -> Nat] /\ lastId \in Nat /\ queue \subseteq Jobs
      /\ lastId' = lastId + 1 /\ id' = [id EXCEPT ![j] = lastId + 1] /\ queue' = queue \cup {j}
  BY DEF PlainTypes, Submit
<1>1. IsFiniteSet(queue')
  BY <1>0, FS_AddElement DEF QueueOrdered
<1>2. \A i \in Jobs : id'[i] <= lastId'
  BY <1>0 DEF QueueOrdered
<1>3. \A i \in queue : i # j => id'[i] = id[i] /\ id'[i] # id'[j]
  BY <1>0 DEF QueueOrdered
<1>4. \A i, k \in queue' : id'[i] = id'[k] => i = k
  BY <1>0, <1>3 DEF QueueOrdered
<1> QED BY <1>1, <1>2, <1>4 DEF QueueOrdered

LEMMA SelectingFinite ==
  /\ IsFiniteSet(Selecting) /\ Cardinality(Selecting) \in Nat
  /\ IsFiniteSet(Selecting') /\ Cardinality(Selecting') \in Nat
<1>1. Selecting \in SUBSET Workers /\ Selecting' \in SUBSET Workers
  BY DEF Selecting
<1>2. IsFiniteSet(Selecting) /\ IsFiniteSet(Selecting')
  BY <1>1, LanesFinite, FS_Subset
<1> QED BY <1>2, FS_CardinalityType

\* A step that changes neither queue nor lanes, and sends no worker from its way to the queue.
LEMMA SameStarts ==
  ASSUME PlainTypes, Counted, QueueOrdered, Counts, UNCHANGED <<spec, queue, backgrounds, projects, terminate>>,
         Waiting' \subseteq Waiting, Selecting \subseteq Selecting'
  PROVE  Counts'
<1>1. Starts' = Starts
  <2>1. Plain' = Plain /\ Backs' = Backs /\ Runs' = Runs
    BY DEF Plain, Backs, Runs, Background
  <2>2. BackStarts' = BackStarts /\ RunStarts' = RunStarts
    BY <2>1 DEF BackStarts, RunStarts, Limit
  <2> QED BY <2>1, <2>2 DEF Starts
<1>2. Cardinality(Selecting) <= Cardinality(Selecting')
  BY SelectingFinite, FS_Subset
<1>3. Starts \in Nat
  BY LanesOfQueue DEF Starts
<1>4. SUFFICES ASSUME ~terminate', Waiting' # {} PROVE Starts' <= Cardinality(Selecting')
  BY DEF Counts
<1>5. Starts <= Cardinality(Selecting)
  BY <1>4 DEF Counts
<1>6. Starts' <= Cardinality(Selecting')
  BY <1>1, <1>2, <1>3, <1>5, SelectingFinite
<1> QED BY <1>6

\* A submission adds one job that could start, and one worker on its way.
LEMMA SubmitCounts ==
  ASSUME PlainTypes, Counted, WakeInv, NEW j \in Jobs, Submit(j)
  PROVE  Counts'
<1>0. /\ pc \in [Workers -> Places] /\ queue' = queue \cup {j}
      /\ UNCHANGED <<spec, backgrounds, projects, terminate>> /\ Limit' = Limit
  BY DEF PlainTypes, Submit, lanes, Limit
<1>1. SUFFICES ASSUME ~terminate', Waiting' # {} PROVE Starts' <= Cardinality(Selecting')
  BY DEF Counts
<1>2. PICK w \in Waiting : pc' = [pc EXCEPT ![w] = "select"]
  BY <1>0, <1>1 DEF Submit, Signal, Waiting
<1>3. Selecting' = Selecting \cup {w} /\ w \notin Selecting
  BY <1>0, <1>2 DEF Selecting, Waiting
<1>4. Cardinality(Selecting') = Cardinality(Selecting) + 1
  BY <1>3, SelectingFinite, FS_AddElement
<1>5. Starts <= Cardinality(Selecting)
  BY <1>0, <1>1, <1>2 DEF WakeInv, Counts
<1>6. /\ Plain' = Plain \cup {i \in {j} : ~spec[i].project /\ ~Background(i)}
      /\ Backs' = Backs \cup {i \in {j} : Background(i)}
      /\ Runs' = Runs \cup {i \in {j} : spec[i].project}
  BY <1>0 DEF Plain, Backs, Runs, Background
<1>7. /\ Cardinality(Plain \cup {j}) <= Cardinality(Plain) + 1 /\ Cardinality(Plain \cup {j}) \in Nat
      /\ Cardinality(Backs \cup {j}) <= Cardinality(Backs) + 1 /\ Cardinality(Backs \cup {j}) \in Nat
  <2>1. /\ IsFiniteSet(Plain) /\ Cardinality(Plain) \in Nat
        /\ IsFiniteSet(Backs) /\ Cardinality(Backs) \in Nat
    BY LanesOfQueue DEF WakeInv
  <2>2. /\ Cardinality(Plain \cup {j}) = IF j \in Plain THEN Cardinality(Plain) ELSE Cardinality(Plain) + 1
        /\ Cardinality(Backs \cup {j}) = IF j \in Backs THEN Cardinality(Backs) ELSE Cardinality(Backs) + 1
    BY <2>1, FS_AddElement
  <2> QED BY <2>1, <2>2
<1>8. Starts' <= Starts + 1
  <2>1. CASE ~spec[j].project /\ ~Background(j)
    <3>1. Plain' = Plain \cup {j} /\ Backs' = Backs /\ Runs' = Runs
      BY <1>6, <2>1
    <3>2. BackStarts' = BackStarts /\ RunStarts' = RunStarts
      BY <1>0, <3>1 DEF BackStarts, RunStarts
    <3> QED BY <1>7, <3>1, <3>2, LanesOfQueue DEF Starts, WakeInv
  <2>2. CASE Background(j)
    <3>1. Plain' = Plain /\ Backs' = Backs \cup {j} /\ Runs' = Runs
      BY <1>6, <2>2 DEF Background
    <3>2. RunStarts' = RunStarts
      BY <1>0, <3>1 DEF RunStarts
    <3>3. BackStarts' <= BackStarts + 1
      BY <1>0, <1>7, <3>1, LanesOfQueue DEF BackStarts, WakeInv
    <3>4. BackStarts' \in Nat
      BY <1>0, <1>7, <3>1, LanesOfQueue DEF BackStarts, WakeInv
    <3> QED BY <3>1, <3>2, <3>3, <3>4, LanesOfQueue DEF Starts, WakeInv
  <2>3. CASE spec[j].project
    <3>1. Plain' = Plain /\ Backs' = Backs /\ Runs' = Runs \cup {j}
      BY <1>6, <2>3 DEF Background
    <3>2. BackStarts' = BackStarts
      BY <1>0, <3>1 DEF BackStarts
    <3>3. RunStarts' <= RunStarts + 1 /\ RunStarts' \in {0, 1}
      BY LanesOfQueue DEF RunStarts, WakeInv
    <3> QED BY <3>1, <3>2, <3>3, LanesOfQueue DEF Starts, WakeInv
  <2> QED BY <2>1, <2>2, <2>3
<1>9. Starts \in Nat /\ Starts' \in Int
  <2>1. Starts \in Nat
    BY LanesOfQueue DEF Starts, WakeInv
  <2>2. Cardinality(Plain') \in Nat /\ Cardinality(Backs') \in Nat
    <3>1. Plain' = Plain \cup {j} \/ Plain' = Plain
      BY <1>6
    <3>2. Backs' = Backs \cup {j} \/ Backs' = Backs
      BY <1>6
    <3> QED BY <1>7, <3>1, <3>2, LanesOfQueue DEF WakeInv
  <2>3. BackStarts' \in Int /\ RunStarts' \in Int
    BY <1>0, <2>2, LanesOfQueue DEF BackStarts, RunStarts, WakeInv
  <2> QED BY <2>1, <2>2, <2>3 DEF Starts
<1> QED BY <1>4, <1>5, <1>8, <1>9, SelectingFinite

\* A worker that takes a job leaves one fewer that could start; one that finds none sleeps
\* only when none could.
LEMMA SelectCounts ==
  ASSUME PlainTypes, OneOwner, Counted, WakeInv, NEW w \in Workers, Select(w)
  PROVE  Counts'
<1>0. /\ pc \in [Workers -> Places] /\ spec' = spec /\ terminate' = terminate /\ pc[w] = "select" /\ Limit' = Limit
  BY DEF PlainTypes, Select, job, Limit
<1>1. SUFFICES ASSUME ~terminate', Waiting' # {} PROVE Starts' <= Cardinality(Selecting')
  BY DEF Counts
<1>2. CASE Selected = {}
  <2>1. UNCHANGED <<queue, backgrounds, projects>>
    BY <1>0, <1>1, <1>2 DEF Select, lanes
  <2>2. Starts = 0
    BY <1>2, ChoiceFinds DEF WakeInv
  <2>3. Starts' = Starts
    <3>1. Plain' = Plain /\ Backs' = Backs /\ Runs' = Runs
      BY <1>0, <2>1 DEF Plain, Backs, Runs, Background
    <3>2. BackStarts' = BackStarts /\ RunStarts' = RunStarts
      BY <1>0, <2>1, <3>1 DEF BackStarts, RunStarts
    <3> QED BY <3>1, <3>2 DEF Starts
  <2> QED BY <2>2, <2>3, SelectingFinite
<1>3. CASE Selected # {}
  <2>1. PICK j \in Selected :
          /\ queue' = queue \ {j} /\ pc' = [pc EXCEPT ![w] = "start"]
          /\ projects' = IF spec[j].project THEN projects + 1 ELSE projects
          /\ backgrounds' = IF Background(j) THEN backgrounds + 1 ELSE backgrounds
    BY <1>0, <1>1, <1>3 DEF Select, Goes
  <2>2. /\ j \in queue
        /\ Background(j) => backgrounds < Limit
        /\ spec[j].project => projects = 0
    BY <2>1 DEF Selected, Eligible, Background
  <2>3. Selecting' = Selecting \ {w} /\ w \in Selecting
    BY <1>0, <2>1 DEF Selecting
  <2>4. Cardinality(Selecting') = Cardinality(Selecting) - 1
    BY <2>3, SelectingFinite, FS_RemoveElement
  <2>5. Waiting # {}
    BY <1>0, <1>1, <2>1 DEF Waiting
  <2>6. Starts <= Cardinality(Selecting)
    BY <1>0, <1>1, <2>5 DEF WakeInv, Counts
  <2>7. Plain' = Plain \ {j} /\ Backs' = Backs \ {j} /\ Runs' = Runs \ {j}
    BY <1>0, <2>1 DEF Plain, Backs, Runs, Background
  <2>8. Starts' = Starts - 1
    <3>1. CASE ~spec[j].project /\ ~Background(j)
      <4>1. j \in Plain /\ Plain' = Plain \ {j} /\ Backs' = Backs /\ Runs' = Runs
        BY <2>2, <2>7, <3>1 DEF Plain, Backs, Runs
      <4>2. Cardinality(Plain') = Cardinality(Plain) - 1
        BY <4>1, LanesOfQueue, FS_RemoveElement DEF WakeInv
      <4>3. BackStarts' = BackStarts /\ RunStarts' = RunStarts
        BY <1>0, <2>1, <3>1, <4>1 DEF BackStarts, RunStarts
      <4> QED BY <4>2, <4>3, LanesOfQueue DEF Starts, WakeInv
    <3>2. CASE Background(j)
      <4>1. j \in Backs /\ Backs' = Backs \ {j} /\ Plain' = Plain /\ Runs' = Runs
        BY <2>2, <2>7, <3>2 DEF Plain, Backs, Runs, Background
      <4>2. Cardinality(Backs') = Cardinality(Backs) - 1
        BY <4>1, LanesOfQueue, FS_RemoveElement DEF WakeInv
      <4>3. RunStarts' = RunStarts /\ backgrounds' = backgrounds + 1
        BY <2>1, <3>2, <4>1 DEF RunStarts, Background
      <4>4. BackStarts' = BackStarts - 1
        BY <1>0, <4>2, <4>3, LanesOfQueue DEF BackStarts, WakeInv
      <4> QED BY <4>1, <4>3, <4>4, LanesOfQueue DEF Starts, WakeInv
    <3>3. CASE spec[j].project
      <4>1. Plain' = Plain /\ Backs' = Backs /\ j \in Runs /\ projects' = projects + 1 /\ backgrounds' = backgrounds
        BY <2>1, <2>2, <2>7, <3>3 DEF Plain, Backs, Runs, Background
      <4>2. BackStarts' = BackStarts
        BY <1>0, <4>1 DEF BackStarts
      <4>3. RunStarts = 1 /\ RunStarts' = 0
        BY <2>2, <3>3, <4>1 DEF RunStarts
      <4> QED BY <4>1, <4>2, <4>3, LanesOfQueue DEF Starts, WakeInv
    <3> QED BY <3>1, <3>2, <3>3
  <2>9. Starts \in Nat
    BY LanesOfQueue DEF Starts, WakeInv
  <2> QED BY <2>4, <2>6, <2>8, <2>9, SelectingFinite
<1> QED BY <1>2, <1>3

LEMMA InitWakeInv == Init => WakeInv
<1> SUFFICES ASSUME Init PROVE WakeInv
  OBVIOUS
<1>1. QueueOrdered
  BY FS_EmptySet DEF Init, QueueOrdered
<1>2. Waiting = {}
  BY DEF Init, Waiting
<1> QED BY <1>1, <1>2 DEF WakeInv, Counts

LEMMA NextWakeInv == IInv /\ WakeInv /\ [Next]_vars => WakeInv'
<1> SUFFICES ASSUME IInv, WakeInv, [Next]_vars PROVE WakeInv'
  OBVIOUS
<1>0. /\ PlainTypes /\ OneOwner /\ Counted /\ QueueOrdered /\ Counts
      /\ pc \in [Workers -> Places]
  BY DEF IInv, PlacesInv, PlainTypes, WakeInv
<1>1. ASSUME NEW j \in Jobs, Submit(j) PROVE WakeInv'
  BY <1>0, <1>1, SubmitOrder, SubmitCounts DEF WakeInv
<1>2. ASSUME UNCHANGED <<spec, queue, backgrounds, projects, terminate, id, lastId, pc>>
      PROVE  WakeInv'
  <2>1. Waiting' = Waiting /\ Selecting' = Selecting
    BY <1>2 DEF Waiting, Selecting
  <2> QED BY <1>0, <1>2, <2>1, SameStarts, SameOrder DEF WakeInv
<1>3. ASSUME NEW j \in Jobs, Cancel(j) \/ Pop(j) \/ ReleaseHandle(j) \/ CancelDetached(j) PROVE WakeInv'
  BY <1>2, <1>3 DEF Cancel, Pop, ReleaseHandle, CancelDetached, job, lanes
<1>4. CASE SetCancel \/ Join \/ UNCHANGED vars
  BY <1>2, <1>4 DEF SetCancel, Join, vars, job, lanes
<1>5. ASSUME NEW c \in DestroyModes, Destroy(c) PROVE WakeInv'
  <2>1. UNCHANGED <<id, lastId>> /\ queue' \in SUBSET queue /\ terminate'
    BY <1>5 DEF Destroy
  <2>2. Counts'
    BY <2>1 DEF Counts
  <2> QED BY <1>0, <2>1, <2>2, SameOrder DEF WakeInv
<1>6. ASSUME NEW w \in Workers, NEW p \in Places, pc[w] \in Busy \cup {"release"}, p # "wait",
             pc' = [pc EXCEPT ![w] = p],
             UNCHANGED <<spec, queue, backgrounds, projects, terminate, id, lastId>>
      PROVE  WakeInv'
  <2>1. Waiting' \subseteq Waiting /\ Selecting \subseteq Selecting'
    BY <1>0, <1>6 DEF Waiting, Selecting, Busy
  <2> QED BY <1>0, <1>6, <2>1, SameStarts, SameOrder DEF WakeInv
<1>7. ASSUME NEW w \in Workers, Work(w) PROVE WakeInv'
  <2>1. CASE Select(w)
    <3>1. UNCHANGED <<id, lastId>> /\ queue' \in SUBSET queue
      BY <2>1 DEF Select, job
    <3> QED BY <1>0, <2>1, <3>1, SameOrder, SelectCounts DEF WakeInv
  <2>2. CASE Start(w)
    BY <1>6, <2>2 DEF Start, Goes, job, lanes, Busy, Places
  <2>3. ASSUME NEW o \in Terminal, EndWork(w, o) PROVE WakeInv'
    BY <1>6, <2>3 DEF EndWork, Goes, job, lanes, Busy, Places
  <2>4. CASE Report(w)
    BY <1>6, <2>4 DEF Report, Goes, job, lanes, Busy, Places
  <2>5. CASE Leave(w)
    <3>1. UNCHANGED <<id, lastId, queue>> /\ pc' = [Awake(pc) EXCEPT ![w] = "release"]
      BY <2>5 DEF Leave, job
    <3>2. Waiting' = {}
      BY <1>0, <3>1 DEF Waiting, Awake
    <3> QED BY <1>0, <3>1, <3>2, SameOrder DEF WakeInv, Counts
  <2>6. CASE ReleaseJob(w)
    BY <1>6, <2>6 DEF ReleaseJob, Goes, job, lanes, Busy, Places
  <2> QED BY <1>7, <2>1, <2>2, <2>3, <2>4, <2>5, <2>6 DEF Work
<1> QED BY <1>1, <1>3, <1>4, <1>5, <1>7 DEF Next, Main

\* While a job could start and the pool is not being destroyed, no worker sleeps unless
\* another is awake to take the job.
THEOREM NoWakeupLost == Spec => []NoLostWakeup
<1>1. IInv /\ WakeInv => NoLostWakeup
  <2> SUFFICES ASSUME IInv, WakeInv, Selected # {}, ~terminate, Waiting # {}
               PROVE  \E w \in Workers : pc[w] = "select"
    BY DEF NoLostWakeup
  <2>1. PlainTypes /\ Counted /\ QueueOrdered
    BY DEF IInv, PlacesInv, WakeInv
  <2>2. Starts \in Nat /\ Starts # 0
    BY <2>1, ChoiceFinds, LanesOfQueue DEF Starts
  <2>3. Starts <= Cardinality(Selecting)
    BY DEF WakeInv, Counts
  <2>4. Selecting # {}
    BY <2>2, <2>3, FS_EmptySet
  <2> QED BY <2>4 DEF Selecting
<1>2. Spec => []WakeInv
  BY Invariance, InitWakeInv, NextWakeInv, PTL DEF Spec
<1> QED BY <1>1, <1>2, Invariance, PTL
=============================================================================
