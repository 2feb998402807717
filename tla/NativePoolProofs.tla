-------------------------- MODULE NativePoolProofs --------------------------
(***************************************************************************)
(* What TLAPS proves about NativePool, for every set of jobs, number of     *)
(* workers and mix of priorities: the type invariant, that nothing is used  *)
(* after it is freed, that each job ends once, that the lanes are kept, and *)
(* that the pool implements JobService.                                     *)
(***************************************************************************)
EXTENDS NativePool, FiniteSetTheorems, TLAPS

\* The type invariant without the counters and the bounds of the references.
PlainTypes ==
  /\ spec \in [Jobs -> [priority : Priorities, project : BOOLEAN]]
  /\ status \in [Jobs -> {"none", "queued", "running"} \cup Terminal] /\ id \in [Jobs -> Nat]
  /\ refs \in [Jobs -> Int] /\ flagged \subseteq Jobs /\ handles \subseteq Jobs
  /\ queue \subseteq Jobs /\ running \subseteq Jobs /\ detached \subseteq Jobs /\ results \subseteq Jobs
  /\ lastId \in Nat
  /\ terminate \in BOOLEAN
  /\ pc \in [Workers -> Places] /\ held \in [Workers -> Jobs \cup {NoJob}]
  /\ main \in {"idle", "cancel", "detached", "gone"} /\ target \in Jobs \cup {NoJob}
  /\ ended \in [Jobs -> Nat]

\* A job is in one place: the queue, the queue that the destruction took, or a worker.
OneOwner ==
  /\ \A w \in Workers : held[w] = NoJob <=> pc[w] \in {"select", "wait", "exited"}
  /\ queue \cap detached = {}
  /\ \A w \in Workers : held[w] \notin queue /\ held[w] \notin detached
  /\ \A v, w \in Workers : held[v] = held[w] /\ held[v] # NoJob => v = w
Owned(j) == j \in queue \/ j \in detached \/ \E w \in Workers : held[w] = j

\* The running list is the jobs of the workers that have not left it.
RunningListed ==
  /\ \A w \in Workers : pc[w] \in Busy => held[w] \in running
  /\ \A j \in running : \E w \in Workers : pc[w] \in Busy /\ held[w] = j

\* One reference for the handle, and one for the owner.
RefsCount ==
  \A j \in Jobs : /\ j \in handles /\ Owned(j) => refs[j] = 2
                  /\ j \in handles /\ ~Owned(j) => refs[j] = 1
                  /\ j \notin handles /\ Owned(j) => refs[j] = 1
                  /\ j \notin handles /\ ~Owned(j) => refs[j] = 0

\* The status and the results of a job at each place.
EndsInPlace ==
  /\ \A j \in Jobs : status[j] = "none" => j \notin handles /\ ~Owned(j) /\ ended[j] = 0
  /\ \A j \in Jobs : j \in queue \/ j \in detached => status[j] = "queued" /\ ended[j] = 0
  /\ \A w \in Workers :
       /\ pc[w] \in {"start", "work"} => status[held[w]] \in {"queued", "running"}
       /\ pc[w] \in {"report", "leave", "release"} => status[held[w]] \in Terminal
       /\ pc[w] \in {"start", "work", "report"} => ended[held[w]] = 0
       /\ pc[w] \in {"leave", "release"} => ended[held[w]] = 1
  /\ \A j \in Jobs : status[j] # "none" /\ ~Owned(j) => status[j] \in Terminal /\ ended[j] = 1
  /\ \A j \in Jobs : status[j] = "cancelled" => j \in flagged

\* The main thread cancels a job that it has a handle of, and the queue that the
\* destruction took is empty before and after it.
MainInPlace ==
  /\ detached # {} => main = "detached"
  /\ main = "cancel" => target \in handles

\* The counters count the workers of their lane.
Counted ==
  /\ backgrounds = Cardinality(OnBackground) /\ backgrounds <= Limit
  /\ projects = Cardinality(OnProject) /\ projects <= 1

PlacesInv == PlainTypes /\ OneOwner /\ RunningListed /\ RefsCount /\ EndsInPlace /\ MainInPlace
IInv == PlacesInv /\ Counted

\* Who is woken looks for a job again.
LEMMA AwakeWakes ==
  ASSUME pc \in [Workers -> Places]
  PROVE  /\ Awake(pc) \in [Workers -> Places]
         /\ \A v \in Workers : Awake(pc)[v] = pc[v] \/ (pc[v] = "wait" /\ Awake(pc)[v] = "select")
BY DEF Awake, Places, Busy

LEMMA SignalWakes ==
  ASSUME pc \in [Workers -> Places], Signal
  PROVE  /\ pc' \in [Workers -> Places]
         /\ \A v \in Workers : pc'[v] = pc[v] \/ (pc[v] = "wait" /\ pc'[v] = "select")
<1>1. CASE pc' = pc
  BY <1>1
<1>2. ASSUME NEW w \in Workers, pc[w] = "wait", pc' = [pc EXCEPT ![w] = "select"]
      PROVE  /\ pc' \in [Workers -> Places]
             /\ \A v \in Workers : pc'[v] = pc[v] \/ (pc[v] = "wait" /\ pc'[v] = "select")
  BY <1>2 DEF Places, Busy
<1> QED BY <1>1, <1>2 DEF Signal, Waiting

LEMMA SubmitPlaces ==
  ASSUME PlacesInv, NEW j \in Jobs, Submit(j)
  PROVE  PlacesInv'
<1> USE PoolAssumption DEF PlacesInv, PlainTypes, Places, Busy, Terminal, job, lanes, Goes, Submit
<1>9. /\ pc' \in [Workers -> Places]
      /\ \A v \in Workers : pc'[v] = pc[v] \/ (pc[v] = "wait" /\ pc'[v] = "select")
  BY SignalWakes
<1>10. ~Owned(j) /\ Owned(j)' /\ \A i \in Jobs \ {j} : Owned(i)' <=> Owned(i)
  BY DEF Owned, EndsInPlace
<1>1. PlainTypes'
  BY <1>9 DEF PlainTypes
<1>2. OneOwner'
  BY <1>9, <1>10 DEF OneOwner, Owned
<1>3. RunningListed'
  BY <1>9 DEF OneOwner, RunningListed
<1>4. RefsCount'
  BY <1>9, <1>10 DEF RefsCount, EndsInPlace
<1>5. EndsInPlace'
  BY <1>9, <1>10 DEF OneOwner, EndsInPlace
<1>6. MainInPlace'
  BY <1>9 DEF MainInPlace
<1> QED BY <1>1, <1>2, <1>3, <1>4, <1>5, <1>6

LEMMA CancelPlaces ==
  ASSUME PlacesInv, NEW j \in Jobs, Cancel(j)
  PROVE  PlacesInv'
<1> USE PoolAssumption DEF PlacesInv, PlainTypes, Places, Busy, Terminal, job, lanes, Goes, Cancel
<1>10. \A i \in Jobs : Owned(i)' <=> Owned(i)
  BY DEF Owned
<1>1. PlainTypes'
  BY DEF PlainTypes
<1>2. OneOwner'
  BY DEF OneOwner
<1>3. RunningListed'
  BY DEF OneOwner, RunningListed
<1>4. RefsCount'
  BY <1>10 DEF RefsCount
<1>5. EndsInPlace'
  BY <1>10 DEF OneOwner, EndsInPlace
<1>6. MainInPlace'
  BY DEF MainInPlace
<1> QED BY <1>1, <1>2, <1>3, <1>4, <1>5, <1>6

LEMMA SetCancelPlaces ==
  ASSUME PlacesInv, SetCancel
  PROVE  PlacesInv'
<1> USE PoolAssumption DEF PlacesInv, PlainTypes, Places, Busy, Terminal, job, lanes, Goes, SetCancel
<1>10. \A i \in Jobs : Owned(i)' <=> Owned(i)
  BY DEF Owned
<1>1. PlainTypes'
  BY DEF PlainTypes, MainInPlace
<1>2. OneOwner'
  BY DEF OneOwner
<1>3. RunningListed'
  BY DEF OneOwner, RunningListed
<1>4. RefsCount'
  BY <1>10 DEF RefsCount
<1>5. EndsInPlace'
  BY <1>10 DEF OneOwner, EndsInPlace
<1>6. MainInPlace'
  BY DEF MainInPlace
<1> QED BY <1>1, <1>2, <1>3, <1>4, <1>5, <1>6

LEMMA ReleaseHandlePlaces ==
  ASSUME PlacesInv, NEW j \in Jobs, ReleaseHandle(j)
  PROVE  PlacesInv'
<1> USE PoolAssumption DEF PlacesInv, PlainTypes, Places, Busy, Terminal, job, lanes, Goes, ReleaseHandle
<1>10. \A i \in Jobs : Owned(i)' <=> Owned(i)
  BY DEF Owned
<1>1. PlainTypes'
  BY DEF PlainTypes
<1>2. OneOwner'
  BY DEF OneOwner
<1>3. RunningListed'
  BY DEF OneOwner, RunningListed
<1>4. RefsCount'
  BY <1>10 DEF RefsCount
<1>5. EndsInPlace'
  BY <1>10 DEF OneOwner, EndsInPlace
<1>6. MainInPlace'
  BY DEF MainInPlace
<1> QED BY <1>1, <1>2, <1>3, <1>4, <1>5, <1>6

LEMMA DestroyPlaces ==
  ASSUME PlacesInv, NEW c \in BOOLEAN, Destroy(c)
  PROVE  PlacesInv'
<1> USE PoolAssumption DEF PlacesInv, PlainTypes, Places, Busy, Terminal, job, lanes, Goes, Destroy
<1>9. /\ pc' \in [Workers -> Places]
      /\ \A v \in Workers : pc'[v] = pc[v] \/ (pc[v] = "wait" /\ pc'[v] = "select")
  BY AwakeWakes
<1>8. held' = held /\ ended' = ended /\ \A i \in Jobs : i \in queue' \/ i \in detached' <=> i \in queue \/ i \in detached
  BY DEF MainInPlace
<1>10. \A i \in Jobs : Owned(i)' <=> Owned(i)
  BY <1>8 DEF Owned
<1>1. PlainTypes'
  BY <1>8, <1>9 DEF PlainTypes
<1>2. OneOwner'
  BY <1>8, <1>9 DEF OneOwner, MainInPlace
<1>3. RunningListed'
  BY <1>8, <1>9 DEF OneOwner, RunningListed
<1>4. RefsCount'
  BY <1>8, <1>9, <1>10 DEF RefsCount
<1>5. EndsInPlace'
  BY <1>8, <1>9, <1>10 DEF OneOwner, EndsInPlace, MainInPlace
<1>6. MainInPlace'
  BY <1>8, <1>9 DEF MainInPlace
<1> QED BY <1>1, <1>2, <1>3, <1>4, <1>5, <1>6

LEMMA CancelDetachedPlaces ==
  ASSUME PlacesInv, NEW j \in Jobs, CancelDetached(j)
  PROVE  PlacesInv'
<1> USE PoolAssumption DEF PlacesInv, PlainTypes, Places, Busy, Terminal, job, lanes, Goes, CancelDetached
<1>10. Owned(j) /\ ~Owned(j)' /\ \A i \in Jobs \ {j} : Owned(i)' <=> Owned(i)
  BY DEF Owned, OneOwner
<1>1. PlainTypes'
  BY DEF PlainTypes
<1>2. OneOwner'
  BY DEF OneOwner
<1>3. RunningListed'
  BY DEF OneOwner, RunningListed
<1>4. RefsCount'
  BY <1>10 DEF RefsCount
<1>5. EndsInPlace'
  BY <1>10 DEF OneOwner, EndsInPlace
<1>6. MainInPlace'
  BY DEF MainInPlace
<1> QED BY <1>1, <1>2, <1>3, <1>4, <1>5, <1>6

LEMMA JoinPlaces ==
  ASSUME PlacesInv, Join
  PROVE  PlacesInv'
<1> USE PoolAssumption DEF PlacesInv, PlainTypes, Places, Busy, Terminal, job, lanes, Goes, Join
<1>10. \A i \in Jobs : Owned(i)' <=> Owned(i)
  BY DEF Owned
<1>1. PlainTypes'
  BY DEF PlainTypes
<1>2. OneOwner'
  BY DEF OneOwner
<1>3. RunningListed'
  BY DEF OneOwner, RunningListed
<1>4. RefsCount'
  BY <1>10 DEF RefsCount
<1>5. EndsInPlace'
  BY <1>10 DEF OneOwner, EndsInPlace
<1>6. MainInPlace'
  BY DEF MainInPlace
<1> QED BY <1>1, <1>2, <1>3, <1>4, <1>5, <1>6

LEMMA SelectPlaces ==
  ASSUME PlacesInv, NEW w \in Workers, Select(w)
  PROVE  PlacesInv'
<1> USE PoolAssumption DEF PlacesInv, PlainTypes, Places, Busy, Terminal, job, lanes, Goes
<1>1. CASE terminate \/ Selected = {}
  <2>1. /\ UNCHANGED <<job, lanes, queue, lastId, terminate, main, target, detached, results, ended>>
        /\ pc[w] = "select"
        /\ pc' = [pc EXCEPT ![w] = "exited"] \/ pc' = [pc EXCEPT ![w] = "wait"]
    BY <1>1 DEF Select
  <2>2. \A i \in Jobs : Owned(i)' <=> Owned(i)
    BY <2>1 DEF Owned
  <2>3. PlainTypes'
    BY <2>1, <2>2 DEF PlainTypes
  <2>4. OneOwner'
    BY <2>1, <2>2 DEF OneOwner
  <2>5. RunningListed'
    BY <2>1, <2>2 DEF OneOwner, RunningListed
  <2>6. RefsCount'
    BY <2>1, <2>2 DEF RefsCount
  <2>7. EndsInPlace'
    BY <2>1, <2>2 DEF OneOwner, EndsInPlace
  <2>8. MainInPlace'
    BY <2>1, <2>2 DEF MainInPlace
  <2> QED BY <2>3, <2>4, <2>5, <2>6, <2>7, <2>8
<1>2. CASE ~terminate /\ Selected # {}
  <2>1. PICK j \in queue :
          /\ queue' = queue \ {j} /\ held' = [held EXCEPT ![w] = j] /\ running' = running \cup {j}
          /\ pc[w] = "select" /\ pc' = [pc EXCEPT ![w] = "start"]
          /\ UNCHANGED <<job, lastId, terminate, main, target, detached, results, ended>>
    BY <1>2 DEF Select, Selected, Eligible
  <2>0. held[w] = NoJob /\ \A v \in Workers : held[v] # j
    BY <2>1 DEF OneOwner
  <2>2. \A i \in Jobs : Owned(i)' <=> Owned(i)
    <3>1. Owned(j) /\ Owned(j)'
      BY <2>1 DEF Owned
    <3>2. \A i \in Jobs \ {j} : Owned(i)' <=> Owned(i)
      BY <2>0, <2>1 DEF Owned
    <3> QED BY <3>1, <3>2
  <2>3. PlainTypes'
    BY <2>0, <2>1, <2>2 DEF PlainTypes
  <2>4. OneOwner'
    BY <2>0, <2>1, <2>2 DEF OneOwner
  <2>5. RunningListed'
    BY <2>0, <2>1, <2>2 DEF OneOwner, RunningListed
  <2>6. RefsCount'
    BY <2>0, <2>1, <2>2 DEF RefsCount
  <2>7. EndsInPlace'
    BY <2>0, <2>1, <2>2 DEF OneOwner, EndsInPlace
  <2>8. MainInPlace'
    BY <2>0, <2>1, <2>2 DEF MainInPlace
  <2> QED BY <2>3, <2>4, <2>5, <2>6, <2>7, <2>8
<1> QED BY <1>1, <1>2

LEMMA StartPlaces ==
  ASSUME PlacesInv, NEW w \in Workers, Start(w)
  PROVE  PlacesInv'
<1> USE PoolAssumption DEF PlacesInv, PlainTypes, Places, Busy, Terminal, job, lanes, Goes, Start
<1>8. PICK s \in {"cancelled", "running"} :
        /\ status' = [status EXCEPT ![held[w]] = s]
        /\ s = "cancelled" => held[w] \in flagged /\ pc' = [pc EXCEPT ![w] = "report"]
        /\ s = "running" => pc' = [pc EXCEPT ![w] = "work"]
  OBVIOUS
<1>9. held[w] \in Jobs
  BY DEF OneOwner
<1>10. \A i \in Jobs : Owned(i)' <=> Owned(i)
  BY DEF Owned
<1>1. PlainTypes'
  BY <1>8, <1>9 DEF PlainTypes
<1>2. OneOwner'
  BY <1>8, <1>9 DEF OneOwner
<1>3. RunningListed'
  BY <1>8, <1>9 DEF OneOwner, RunningListed
<1>4. RefsCount'
  BY <1>8, <1>9, <1>10 DEF RefsCount
<1>5. EndsInPlace'
  BY <1>8, <1>9, <1>10 DEF OneOwner, EndsInPlace
<1>6. MainInPlace'
  BY <1>8, <1>9 DEF MainInPlace
<1> QED BY <1>1, <1>2, <1>3, <1>4, <1>5, <1>6

LEMMA EndWorkPlaces ==
  ASSUME PlacesInv, NEW w \in Workers, NEW o \in Terminal, EndWork(w, o)
  PROVE  PlacesInv'
<1> USE PoolAssumption DEF PlacesInv, PlainTypes, Places, Busy, Terminal, job, lanes, Goes, EndWork
<1>9. held[w] \in Jobs
  BY DEF OneOwner
<1>10. \A i \in Jobs : Owned(i)' <=> Owned(i)
  BY DEF Owned
<1>1. PlainTypes'
  BY <1>9 DEF PlainTypes
<1>2. OneOwner'
  BY <1>9 DEF OneOwner
<1>3. RunningListed'
  BY <1>9 DEF OneOwner, RunningListed
<1>4. RefsCount'
  BY <1>9, <1>10 DEF RefsCount
<1>5. EndsInPlace'
  BY <1>9, <1>10 DEF OneOwner, EndsInPlace
<1>6. MainInPlace'
  BY <1>9 DEF MainInPlace
<1> QED BY <1>1, <1>2, <1>3, <1>4, <1>5, <1>6

LEMMA ReportPlaces ==
  ASSUME PlacesInv, NEW w \in Workers, Report(w)
  PROVE  PlacesInv'
<1> USE PoolAssumption DEF PlacesInv, PlainTypes, Places, Busy, Terminal, job, lanes, Goes, Report
<1>9. held[w] \in Jobs
  BY DEF OneOwner
<1>10. \A i \in Jobs : Owned(i)' <=> Owned(i)
  BY DEF Owned
<1>1. PlainTypes'
  BY <1>9 DEF PlainTypes
<1>2. OneOwner'
  BY <1>9 DEF OneOwner
<1>3. RunningListed'
  BY <1>9 DEF OneOwner, RunningListed
<1>4. RefsCount'
  BY <1>9, <1>10 DEF RefsCount
<1>5. EndsInPlace'
  BY <1>9, <1>10 DEF OneOwner, EndsInPlace
<1>6. MainInPlace'
  BY <1>9 DEF MainInPlace
<1> QED BY <1>1, <1>2, <1>3, <1>4, <1>5, <1>6

LEMMA LeavePlaces ==
  ASSUME PlacesInv, NEW w \in Workers, Leave(w)
  PROVE  PlacesInv'
<1> USE PoolAssumption DEF PlacesInv, PlainTypes, Places, Busy, Terminal, job, lanes, Goes, Leave
<1>9. /\ pc' \in [Workers -> Places] /\ pc'[w] = "release"
      /\ \A v \in Workers \ {w} : pc'[v] = pc[v] \/ (pc[v] = "wait" /\ pc'[v] = "select")
  BY AwakeWakes
<1>10. \A i \in Jobs : Owned(i)' <=> Owned(i)
  BY DEF Owned
<1>1. PlainTypes'
  BY <1>9 DEF PlainTypes
<1>2. OneOwner'
  BY <1>9 DEF OneOwner
<1>3. RunningListed'
  BY <1>9 DEF OneOwner, RunningListed
<1>4. RefsCount'
  BY <1>9, <1>10 DEF RefsCount
<1>5. EndsInPlace'
  BY <1>9, <1>10 DEF OneOwner, EndsInPlace
<1>6. MainInPlace'
  BY <1>9 DEF MainInPlace
<1> QED BY <1>1, <1>2, <1>3, <1>4, <1>5, <1>6

LEMMA ReleaseJobPlaces ==
  ASSUME PlacesInv, NEW w \in Workers, ReleaseJob(w)
  PROVE  PlacesInv'
<1> USE PoolAssumption DEF PlacesInv, PlainTypes, Places, Busy, Terminal, job, lanes, Goes, ReleaseJob
<1>9. PICK j \in Jobs : j = held[w] /\ Owned(j) /\ j \notin queue /\ j \notin detached
  BY DEF OneOwner, Owned
<1>8. \A i \in Jobs : (\E v \in Workers : held'[v] = i) <=> i # j /\ \E v \in Workers : held[v] = i
  BY <1>9 DEF OneOwner
<1>10. ~Owned(j)' /\ \A i \in Jobs \ {j} : Owned(i)' <=> Owned(i)
  BY <1>8, <1>9 DEF Owned
<1>1. PlainTypes'
  BY <1>8, <1>9 DEF PlainTypes
<1>2. OneOwner'
  BY <1>8, <1>9 DEF OneOwner
<1>3. RunningListed'
  BY <1>8, <1>9 DEF OneOwner, RunningListed
<1>4. RefsCount'
  BY <1>8, <1>9, <1>10 DEF RefsCount
<1>5. EndsInPlace'
  BY <1>8, <1>9, <1>10 DEF OneOwner, EndsInPlace
<1>6. MainInPlace'
  BY <1>8, <1>9 DEF MainInPlace
<1> QED BY <1>1, <1>2, <1>3, <1>4, <1>5, <1>6

-----------------------------------------------------------------------------
\* The counters.

LEMMA LanesFinite ==
  /\ IsFiniteSet(Workers) /\ Cardinality(Workers) \in Nat /\ Cardinality(Workers) > 0 /\ Limit \in Nat
  /\ IsFiniteSet(OnBackground) /\ IsFiniteSet(OnProject)
  /\ Cardinality(OnBackground) \in Nat /\ Cardinality(OnProject) \in Nat
<1>1. IsFiniteSet(Workers) /\ Cardinality(Workers) \in Nat
  BY PoolAssumption, FS_CardinalityType
<1>2. Cardinality(Workers) # 0
  BY PoolAssumption, FS_EmptySet
<1>3. OnBackground \in SUBSET Workers /\ OnProject \in SUBSET Workers
  BY DEF OnBackground, OnProject
<1>4. IsFiniteSet(OnBackground) /\ IsFiniteSet(OnProject)
  BY <1>1, <1>3, FS_Subset
<1>5. Cardinality(OnBackground) \in Nat /\ Cardinality(OnProject) \in Nat
  BY <1>4, FS_CardinalityType
<1> QED BY <1>1, <1>2, <1>4, <1>5 DEF Limit

\* A step that moves no worker into or out of a job keeps the counters right.
LEMMA SameLanes ==
  ASSUME Counted, UNCHANGED <<spec, backgrounds, projects>>,
         \A w \in Workers : /\ pc'[w] \in Busy <=> pc[w] \in Busy
                            /\ pc[w] \in Busy => held'[w] = held[w]
  PROVE  Counted'
<1>1. OnBackground' = OnBackground
  BY DEF OnBackground, Background
<1>2. OnProject' = OnProject
  BY DEF OnProject
<1> QED BY <1>1, <1>2 DEF Counted

LEMMA SelectCounted ==
  ASSUME PlacesInv, Counted, NEW w \in Workers, Select(w)
  PROVE  Counted'
<1>0. pc \in [Workers -> Places] /\ held \in [Workers -> Jobs \cup {NoJob}] /\ pc[w] = "select" /\ spec' = spec
  BY DEF PlacesInv, PlainTypes, Select, job
<1>1. CASE terminate \/ Selected = {}
  <2>1. /\ UNCHANGED <<spec, backgrounds, projects, held>>
        /\ pc' = [pc EXCEPT ![w] = "exited"] \/ pc' = [pc EXCEPT ![w] = "wait"]
    BY <1>1 DEF Select, Goes, job, lanes
  <2>2. \A v \in Workers : /\ pc'[v] \in Busy <=> pc[v] \in Busy
                           /\ pc[v] \in Busy => held'[v] = held[v]
    BY <1>0, <2>1 DEF Busy
  <2> QED BY <2>1, <2>2, SameLanes
<1>2. CASE ~terminate /\ Selected # {}
  <2>1. PICK j \in Selected :
          /\ held' = [held EXCEPT ![w] = j] /\ pc' = [pc EXCEPT ![w] = "start"]
          /\ projects' = IF spec[j].project THEN projects + 1 ELSE projects
          /\ backgrounds' = IF Background(j) THEN backgrounds + 1 ELSE backgrounds
    BY <1>2 DEF Select, Goes
  <2>2. /\ Background(j) => backgrounds < Limit
        /\ spec[j].project => projects = 0
    BY <2>1 DEF Selected, Eligible, Background
  <2>3. w \notin OnBackground /\ w \notin OnProject
    BY <1>0 DEF OnBackground, OnProject, Busy
  <2>4. OnBackground' = IF Background(j) THEN OnBackground \cup {w} ELSE OnBackground
    BY <1>0, <2>1, <2>3 DEF OnBackground, Background, Busy
  <2>5. OnProject' = IF spec[j].project THEN OnProject \cup {w} ELSE OnProject
    BY <1>0, <2>1, <2>3 DEF OnProject, Busy
  <2>6. /\ Cardinality(OnBackground \cup {w}) = Cardinality(OnBackground) + 1
        /\ Cardinality(OnProject \cup {w}) = Cardinality(OnProject) + 1
    BY <2>3, LanesFinite, FS_AddElement
  <2>7. Limit' = Limit
    BY DEF Limit
  <2>8. backgrounds' = Cardinality(OnBackground)' /\ backgrounds' <= Limit
    BY <2>1, <2>2, <2>4, <2>6, LanesFinite DEF Counted
  <2>9. projects' = Cardinality(OnProject)' /\ projects' <= 1
    BY <2>1, <2>2, <2>5, <2>6, LanesFinite DEF Counted
  <2> QED BY <2>7, <2>8, <2>9 DEF Counted
<1> QED BY <1>1, <1>2

LEMMA LeaveCounted ==
  ASSUME PlacesInv, Counted, NEW w \in Workers, Leave(w)
  PROVE  Counted'
<1>0. /\ pc \in [Workers -> Places] /\ pc[w] = "leave" /\ spec' = spec /\ held' = held
      /\ pc' = [Awake(pc) EXCEPT ![w] = "release"]
      /\ projects' = IF spec[held[w]].project THEN projects - 1 ELSE projects
      /\ backgrounds' = IF Background(held[w]) THEN backgrounds - 1 ELSE backgrounds
  BY DEF PlacesInv, PlainTypes, Leave, job
<1>1. pc'[w] = "release" /\ \A v \in Workers \ {w} : pc'[v] \in Busy <=> pc[v] \in Busy
  BY <1>0, AwakeWakes DEF Busy
<1>2. OnBackground' = OnBackground \ {w} /\ OnProject' = OnProject \ {w}
  BY <1>0, <1>1 DEF OnBackground, OnProject, Background, Busy
<1>3. (w \in OnBackground <=> Background(held[w])) /\ (w \in OnProject <=> spec[held[w]].project)
  BY <1>0 DEF OnBackground, OnProject, Busy
<1>4. /\ Cardinality(OnBackground \ {w}) = IF w \in OnBackground THEN Cardinality(OnBackground) - 1
                                           ELSE Cardinality(OnBackground)
      /\ Cardinality(OnProject \ {w}) = IF w \in OnProject THEN Cardinality(OnProject) - 1
                                        ELSE Cardinality(OnProject)
  BY LanesFinite, FS_RemoveElement
<1>5. Limit' = Limit
  BY DEF Limit
<1>6. backgrounds' = Cardinality(OnBackground)' /\ backgrounds' <= Limit
  BY <1>0, <1>2, <1>3, <1>4, LanesFinite DEF Counted
<1>7. projects' = Cardinality(OnProject)' /\ projects' <= 1
  BY <1>0, <1>2, <1>3, <1>4, LanesFinite DEF Counted
<1> QED BY <1>5, <1>6, <1>7 DEF Counted

-----------------------------------------------------------------------------
\* The invariant.

LEMMA InitIInv == Init => IInv
<1> SUFFICES ASSUME Init PROVE IInv
  OBVIOUS
<1>1. OnBackground = {} /\ OnProject = {}
  BY DEF Init, OnBackground, OnProject, Busy
<1>2. Counted
  BY <1>1, LanesFinite, FS_EmptySet DEF Init, Counted
<1>3. PlainTypes
  <2>1. spec \in [Jobs -> [priority : Priorities, project : BOOLEAN]]
    BY PoolAssumption DEF Init
  <2>2. pc \in [Workers -> Places] /\ held \in [Workers -> Jobs \cup {NoJob}]
    BY DEF Init, Places
  <2>3. status \in [Jobs -> {"none", "queued", "running"} \cup Terminal] /\ id \in [Jobs -> Nat]
    BY DEF Init
  <2>4. refs \in [Jobs -> Int] /\ ended \in [Jobs -> Nat]
    BY DEF Init
  <2> QED BY <2>1, <2>2, <2>3, <2>4 DEF Init, PlainTypes
<1>4. \A j \in Jobs : ~Owned(j)
  BY PoolAssumption DEF Init, Owned
<1>5. OneOwner /\ RunningListed /\ MainInPlace
  BY DEF Init, OneOwner, RunningListed, MainInPlace, Busy
<1>6. RefsCount /\ EndsInPlace
  BY <1>4 DEF Init, RefsCount, EndsInPlace
<1> QED BY <1>2, <1>3, <1>5, <1>6 DEF IInv, PlacesInv

LEMMA NextIInv == IInv /\ [Next]_vars => IInv'
<1> SUFFICES ASSUME IInv, [Next]_vars PROVE IInv'
  OBVIOUS
<1> USE DEF IInv
<1>0. pc \in [Workers -> Places] /\ held \in [Workers -> Jobs \cup {NoJob}]
  BY DEF PlacesInv, PlainTypes
<1>1. ASSUME NEW j \in Jobs, Submit(j) PROVE IInv'
  <2>1. /\ UNCHANGED <<spec, backgrounds, projects, held>>
        /\ \A w \in Workers : pc'[w] \in Busy <=> pc[w] \in Busy
    BY <1>0, <1>1, SignalWakes DEF Submit, lanes, Busy
  <2> QED BY <1>1, <2>1, SubmitPlaces, SameLanes
<1>2. ASSUME NEW j \in Jobs, Cancel(j) PROVE IInv'
  BY <1>2, CancelPlaces, SameLanes DEF Cancel, job, lanes
<1>3. CASE SetCancel
  BY <1>3, SetCancelPlaces, SameLanes DEF SetCancel, lanes
<1>4. ASSUME NEW j \in Jobs, Pop(j) PROVE IInv'
  <2>1. UNCHANGED <<job, lanes, queue, lastId, terminate, pc, main, target, detached, ended>> /\ results' \subseteq Jobs
    BY <1>4 DEF Pop, PlacesInv, PlainTypes
  <2>2. \A i \in Jobs : Owned(i)' <=> Owned(i)
    BY <2>1 DEF Owned, lanes
  <2>3. PlacesInv'
    BY <2>1, <2>2 DEF PlacesInv, PlainTypes, OneOwner, RunningListed, RefsCount, EndsInPlace, MainInPlace, job, lanes
  <2> QED BY <2>1, <2>3, SameLanes DEF job, lanes
<1>5. ASSUME NEW j \in Jobs, ReleaseHandle(j) PROVE IInv'
  BY <1>5, ReleaseHandlePlaces, SameLanes DEF ReleaseHandle, lanes
<1>6. ASSUME NEW j \in Jobs, CancelDetached(j) PROVE IInv'
  BY <1>6, CancelDetachedPlaces, SameLanes DEF CancelDetached, lanes
<1>7. CASE Join
  BY <1>7, JoinPlaces, SameLanes DEF Join, job, lanes
<1>8. ASSUME NEW c \in DestroyModes, Destroy(c) PROVE IInv'
  <2>1. /\ UNCHANGED <<spec, backgrounds, projects, held>>
        /\ \A w \in Workers : pc'[w] \in Busy <=> pc[w] \in Busy
    BY <1>0, <1>8, AwakeWakes DEF Destroy, lanes, Busy
  <2>2. c \in BOOLEAN
    BY PoolAssumption
  <2> QED BY <1>8, <2>1, <2>2, DestroyPlaces, SameLanes
<1>9. ASSUME NEW w \in Workers, Work(w) PROVE IInv'
  <2>1. CASE Select(w)
    BY <2>1, SelectPlaces, SelectCounted
  <2>2. CASE Leave(w)
    BY <2>2, LeavePlaces, LeaveCounted
  <2>3. CASE ReleaseJob(w)
    <3>1. /\ UNCHANGED <<spec, backgrounds, projects>>
          /\ \A v \in Workers : /\ pc'[v] \in Busy <=> pc[v] \in Busy
                                /\ pc[v] \in Busy => held'[v] = held[v]
      BY <1>0, <2>3 DEF ReleaseJob, Goes, Busy
    <3> QED BY <2>3, <3>1, ReleaseJobPlaces, SameLanes
  <2>4. ASSUME UNCHANGED <<spec, lanes>>, NEW p \in Busy, pc[w] \in Busy, pc' = [pc EXCEPT ![w] = p]
        PROVE  Counted'
    <3>1. \A v \in Workers : pc'[v] \in Busy <=> pc[v] \in Busy
      BY <1>0, <2>4
    <3> QED BY <2>4, <3>1, SameLanes DEF lanes
  <2>5. CASE Start(w)
    <3>1. PICK p \in Busy : pc' = [pc EXCEPT ![w] = p]
      BY <2>5 DEF Start, Goes, Busy
    <3>2. UNCHANGED <<spec, lanes>> /\ pc[w] \in Busy
      BY <2>5 DEF Start, Busy
    <3> QED BY <2>4, <2>5, <3>1, <3>2, StartPlaces
  <2>6. ASSUME NEW o \in Terminal, EndWork(w, o) PROVE IInv'
    <3>1. UNCHANGED <<spec, lanes>> /\ pc[w] \in Busy /\ "report" \in Busy /\ pc' = [pc EXCEPT ![w] = "report"]
      BY <2>6 DEF EndWork, Goes, Busy
    <3> QED BY <2>4, <2>6, <3>1, EndWorkPlaces
  <2>7. CASE Report(w)
    <3>1. UNCHANGED <<spec, lanes>> /\ pc[w] \in Busy /\ "leave" \in Busy /\ pc' = [pc EXCEPT ![w] = "leave"]
      BY <2>7 DEF Report, Goes, Busy, job
    <3> QED BY <2>4, <2>7, <3>1, ReportPlaces
  <2> QED BY <1>9, <2>1, <2>2, <2>3, <2>5, <2>6, <2>7 DEF Work
<1>10. CASE UNCHANGED vars
  <2>1. /\ UNCHANGED <<spec, status, id, refs, flagged, handles, running, backgrounds, projects, held>>
        /\ UNCHANGED <<queue, lastId, terminate, pc, main, target, detached, results, ended>>
    BY <1>10 DEF vars, job, lanes
  <2>2. PlacesInv'
    BY <2>1 DEF PlacesInv, PlainTypes, OneOwner, RunningListed, RefsCount, EndsInPlace, MainInPlace, Owned
  <2> QED BY <2>1, <2>2, SameLanes
<1> QED BY <1>1, <1>2, <1>3, <1>4, <1>5, <1>6, <1>7, <1>8, <1>9, <1>10 DEF Next, Main

THEOREM Invariance == Spec => []IInv
BY InitIInv, NextIInv, PTL DEF Spec

\* Every field has its type; the counters are never below zero, so that the code's tests
\* of them before it counts down never decide.
THEOREM TypeCorrect == Spec => []TypeOK
<1>1. IInv => TypeOK
  <2> SUFFICES ASSUME IInv PROVE TypeOK
    OBVIOUS
  <2>1. \A j \in Jobs : refs[j] \in 0..2
    BY DEF IInv, PlacesInv, RefsCount
  <2>2. refs \in [Jobs -> 0..2]
    BY <2>1 DEF IInv, PlacesInv, PlainTypes
  <2>3. backgrounds \in Nat /\ projects \in Nat
    BY LanesFinite DEF IInv, Counted
  <2> QED BY <2>2, <2>3 DEF IInv, PlacesInv, PlainTypes, TypeOK
<1> QED BY <1>1, Invariance, PTL

\* The pool never uses a job that its last reference has freed.
THEOREM NothingUsedAfterFree == Spec => []NoUseAfterFree
<1>1. IInv => NoUseAfterFree
  <2> SUFFICES ASSUME IInv PROVE NoUseAfterFree
    OBVIOUS
  <2>1. \A j \in Jobs : Owned(j) => refs[j] > 0
    BY DEF IInv, PlacesInv, RefsCount
  <2>2. \A j \in queue \cup detached \cup running : j \in Jobs /\ Owned(j)
    BY DEF IInv, PlacesInv, PlainTypes, RunningListed, Owned
  <2>3. \A w \in Workers : held[w] # NoJob => held[w] \in Jobs /\ Owned(held[w])
    BY DEF IInv, PlacesInv, PlainTypes, Owned
  <2>4. main = "cancel" => refs[target] > 0
    BY DEF IInv, PlacesInv, PlainTypes, MainInPlace, RefsCount
  <2> QED BY <2>1, <2>2, <2>3, <2>4 DEF NoUseAfterFree
<1> QED BY <1>1, Invariance, PTL

\* Where the result of a job is.
LEMMA EndedOrNot ==
  ASSUME IInv, NEW j \in Jobs
  PROVE  /\ ended[j] = 0 \/ ended[j] = 1
         /\ ended[j] = 1 => status[j] \in Terminal
<1>1. CASE Owned(j)
  <2>1. CASE j \in queue \/ j \in detached
    BY <2>1 DEF IInv, PlacesInv, EndsInPlace
  <2>2. ASSUME NEW w \in Workers, held[w] = j
        PROVE  /\ ended[j] = 0 \/ ended[j] = 1
               /\ ended[j] = 1 => status[j] \in Terminal
    <3>1. pc[w] \in {"start", "work", "report", "leave", "release"}
      BY <2>2, PoolAssumption DEF IInv, PlacesInv, OneOwner, PlainTypes, Places, Busy
    <3> QED BY <2>2, <3>1 DEF IInv, PlacesInv, EndsInPlace
  <2> QED BY <1>1, <2>1, <2>2 DEF Owned
<1>2. CASE ~Owned(j)
  BY <1>2 DEF IInv, PlacesInv, EndsInPlace
<1> QED BY <1>1, <1>2

\* A job reports its end at most once, whoever ends it.
THEOREM OneEnd == Spec => []EndsOnce
<1>1. IInv => EndsOnce
  BY EndedOrNot DEF EndsOnce
<1> QED BY <1>1, Invariance, PTL

\* A job without references has reported its end, and a job that has reported it keeps a
\* terminal status.
THEOREM ReleasedAfterEnd == Spec => []ReleasedJobEnded
<1>1. IInv => ReleasedJobEnded
  <2> SUFFICES ASSUME IInv, NEW j \in Jobs
               PROVE  /\ status[j] # "none" /\ refs[j] = 0 => ended[j] = 1
                      /\ ended[j] = 1 => status[j] \in Terminal
    BY DEF ReleasedJobEnded
  <2>1. refs[j] = 0 => ~Owned(j)
    BY DEF IInv, PlacesInv, RefsCount
  <2>2. status[j] # "none" /\ ~Owned(j) => ended[j] = 1
    BY DEF IInv, PlacesInv, EndsInPlace
  <2> QED BY <2>1, <2>2, EndedOrNot
<1> QED BY <1>1, Invariance, PTL

\* Background jobs leave a worker to other jobs, and Project runs follow one another.
THEOREM LanesAreKept == Spec => []LanesKept
<1>1. IInv => LanesKept
  BY LanesFinite DEF IInv, Counted, LanesKept, Limit
<1> QED BY <1>1, Invariance, PTL

-----------------------------------------------------------------------------
\* The pool implements JobService.

\* A step that changes no accepted job, no request and no outcome is a stutter.
LEMMA ServiceStutters ==
  ASSUME \A j \in Jobs : /\ status'[j] = "none" <=> status[j] = "none"
                         /\ ended'[j] = 0 <=> ended[j] = 0
                         /\ ended[j] # 0 => status'[j] = status[j],
         flagged' = flagged
  PROVE  UNCHANGED Service!vars
BY DEF Service!vars

\* A step that ends one job changes its outcome alone.
LEMMA OneOutcome ==
  ASSUME NEW j \in Jobs, ended'[j] = 1,
         \A i \in Jobs \ {j} : ended'[i] = ended[i] /\ status'[i] = status[i]
  PROVE  [i \in Jobs |-> IF ended'[i] = 0 THEN "none" ELSE status'[i]]
         = [[i \in Jobs |-> IF ended[i] = 0 THEN "none" ELSE status[i]] EXCEPT ![j] = status'[j]]
<1> DEFINE before == [i \in Jobs |-> IF ended[i] = 0 THEN "none" ELSE status[i]]
           after == [before EXCEPT ![j] = status'[j]]
<1>1. after[j] = status'[j] /\ \A i \in Jobs \ {j} : after[i] = IF ended[i] = 0 THEN "none" ELSE status[i]
  OBVIOUS
<1>2. after = [i \in Jobs |-> after[i]]
  OBVIOUS
<1>3. \A i \in Jobs : after[i] = IF ended'[i] = 0 THEN "none" ELSE status'[i]
  BY <1>1
<1> HIDE DEF after
<1>4. after = [i \in Jobs |-> IF ended'[i] = 0 THEN "none" ELSE status'[i]]
  BY <1>2, <1>3
<1> QED BY <1>4 DEF after

LEMMA NextService == IInv /\ [Next]_vars => [Service!Next]_(Service!vars)
<1> SUFFICES ASSUME IInv, [Next]_vars PROVE [Service!Next]_(Service!vars)
  OBVIOUS
<1>0. /\ status \in [Jobs -> {"none", "queued", "running"} \cup Terminal] /\ ended \in [Jobs -> Nat]
      /\ held \in [Workers -> Jobs \cup {NoJob}]
  BY DEF IInv, PlacesInv, PlainTypes
<1>1. ASSUME NEW j \in Jobs, Submit(j) PROVE Service!Submit(j)
  <2>1. status' = [status EXCEPT ![j] = "queued"] /\ flagged' = flagged /\ ended' = ended /\ status[j] = "none"
    BY <1>1 DEF Submit
  <2>2. ended[j] = 0
    BY <2>1 DEF IInv, PlacesInv, EndsInPlace
  <2>3. {i \in Jobs : status'[i] # "none"} = {i \in Jobs : status[i] # "none"} \cup {j}
    BY <1>0, <2>1
  <2>4. [i \in Jobs |-> IF ended'[i] = 0 THEN "none" ELSE status'[i]]
        = [i \in Jobs |-> IF ended[i] = 0 THEN "none" ELSE status[i]]
    BY <1>0, <2>1, <2>2
  <2> QED BY <2>1, <2>3, <2>4 DEF Service!Submit
<1>2. ASSUME NEW S, S \subseteq {i \in Jobs : status[i] # "none"}, flagged' = flagged \cup S,
             status' = status, ended' = ended
      PROVE  Service!Next \/ UNCHANGED Service!vars
  <2>1. CASE S = {}
    BY <1>2, <2>1, ServiceStutters
  <2>2. CASE S # {}
    <3>1. Service!Ask(S)
      BY <1>2, <2>2 DEF Service!Ask
    <3> QED BY <1>2, <3>1 DEF Service!Next
  <2> QED BY <2>1, <2>2
<1>3. CASE SetCancel
  <2>1. target \in Jobs /\ status[target] # "none"
    BY <1>3 DEF SetCancel, IInv, PlacesInv, PlainTypes, MainInPlace, EndsInPlace
  <2> QED BY <1>2, <1>3, <2>1 DEF SetCancel
<1>4. ASSUME NEW c \in BOOLEAN, Destroy(c) PROVE Service!Next \/ UNCHANGED Service!vars
  <2>1. running \subseteq {i \in Jobs : status[i] # "none"}
    <3>1. \A i \in running : i \in Jobs /\ Owned(i)
      BY DEF IInv, PlacesInv, PlainTypes, RunningListed, Owned
    <3> QED BY <3>1 DEF IInv, PlacesInv, EndsInPlace
  <2>2. status' = status /\ ended' = ended /\ (flagged' = flagged \cup running \/ flagged' = flagged)
    BY <1>4 DEF Destroy
  <2> QED BY <1>2, <2>1, <2>2, ServiceStutters
<1>5. ASSUME NEW j \in Jobs, CancelDetached(j) PROVE Service!AskAndEnd(j)
  <2>1. /\ status[j] = "queued" /\ ended[j] = 0
        /\ status' = [status EXCEPT ![j] = "cancelled"] /\ ended' = [ended EXCEPT ![j] = @ + 1]
        /\ flagged' = flagged \cup {j}
    BY <1>5 DEF CancelDetached, IInv, PlacesInv, EndsInPlace
  <2>2. {i \in Jobs : status'[i] # "none"} = {i \in Jobs : status[i] # "none"}
    BY <1>0, <2>1
  <2>3. /\ ended'[j] = 1 /\ status'[j] = "cancelled"
        /\ \A i \in Jobs \ {j} : ended'[i] = ended[i] /\ status'[i] = status[i]
    BY <1>0, <2>1
  <2>4. [i \in Jobs |-> IF ended'[i] = 0 THEN "none" ELSE status'[i]]
        = [[i \in Jobs |-> IF ended[i] = 0 THEN "none" ELSE status[i]] EXCEPT ![j] = "cancelled"]
    BY <2>3, OneOutcome
  <2> QED BY <2>1, <2>2, <2>4 DEF Service!AskAndEnd
<1>6. ASSUME NEW w \in Workers, Report(w) PROVE Service!Next
  <2>1. PICK j \in Jobs : j = held[w]
    BY <1>6 DEF Report, IInv, PlacesInv, OneOwner, PlainTypes
  <2>2. /\ status' = status /\ flagged' = flagged /\ ended' = [ended EXCEPT ![j] = @ + 1]
        /\ status[j] \in Terminal /\ ended[j] = 0 /\ (status[j] = "cancelled" => j \in flagged)
    BY <1>6, <2>1 DEF Report, job, IInv, PlacesInv, EndsInPlace
  <2>3. ended'[j] = 1 /\ \A i \in Jobs \ {j} : ended'[i] = ended[i] /\ status'[i] = status[i]
    BY <1>0, <2>2
  <2>4. [i \in Jobs |-> IF ended'[i] = 0 THEN "none" ELSE status'[i]]
        = [[i \in Jobs |-> IF ended[i] = 0 THEN "none" ELSE status[i]] EXCEPT ![j] = status[j]]
    BY <2>2, <2>3, OneOutcome
  <2>5. \E o \in Terminal : Service!End(j, o)
    <3>1. PICK o \in Terminal : o = status[j]
      BY <2>2
    <3>2. Service!End(j, o)
      BY <2>2, <2>4, <3>1 DEF Service!End, Terminal
    <3> QED BY <3>2
  <2> QED BY <2>5 DEF Service!Next
<1>7. ASSUME NEW w \in Workers, NEW s \in Terminal \cup {"running"}, pc[w] \in {"start", "work"},
             status' = [status EXCEPT ![held[w]] = s], ended' = ended, flagged' = flagged
      PROVE  UNCHANGED Service!vars
  <2>1. ended[held[w]] = 0 /\ status[held[w]] # "none" /\ s # "none" /\ held[w] \in Jobs
    BY <1>7 DEF IInv, PlacesInv, PlainTypes, OneOwner, EndsInPlace, Terminal
  <2> QED BY <1>0, <1>7, <2>1, ServiceStutters
<1>8. ASSUME NEW w \in Workers, Work(w) PROVE Service!Next \/ UNCHANGED Service!vars
  <2>1. CASE Start(w)
    BY <1>7, <2>1 DEF Start, Terminal
  <2>2. ASSUME NEW o \in Terminal, EndWork(w, o) PROVE UNCHANGED Service!vars
    BY <1>7, <2>2 DEF EndWork
  <2>3. CASE Select(w) \/ Leave(w) \/ ReleaseJob(w)
    BY <2>3, ServiceStutters DEF Select, Leave, ReleaseJob, job
  <2> QED BY <1>6, <1>8, <2>1, <2>2, <2>3 DEF Work
<1>9. ASSUME NEW j \in Jobs, Cancel(j) \/ Pop(j) \/ ReleaseHandle(j) PROVE UNCHANGED Service!vars
  BY <1>9, ServiceStutters DEF Cancel, Pop, ReleaseHandle, job
<1>10. CASE Join \/ UNCHANGED vars
  BY <1>10, ServiceStutters DEF Join, vars, job
<1> QED
  <2>1. \A j \in Jobs : Submit(j) \/ CancelDetached(j) => Service!Next
    BY <1>1, <1>5 DEF Service!Next
  <2>2. \A c \in DestroyModes : Destroy(c) => Service!Next \/ UNCHANGED Service!vars
    BY <1>4, PoolAssumption
  <2> QED BY <1>3, <1>8, <1>9, <1>10, <2>1, <2>2, <1>2 DEF Next, Main

\* Every job that the pool accepts ends as JobService promises: once, with one outcome, and
\* cancelled only when somebody asked, in every order of the threads' steps.
THEOREM PoolKeepsPromise == Spec => KeepsPromise
<1>1. Init => Service!Init
  BY DEF Init, Service!Init
<1> QED BY <1>1, Invariance, NextService, PTL DEF Spec, KeepsPromise, Service!Spec
=============================================================================
