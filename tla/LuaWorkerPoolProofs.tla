------------------------- MODULE LuaWorkerPoolProofs -------------------------
(***************************************************************************)
(* Proofs about LuaWorkerPool for any number of jobs, workers and messages: *)
(* a worker has at most one value in its output, the choice of a worker     *)
(* ends with one of the pool, and the pool implements JobService. What a    *)
(* job's end rests on is that a cancellation in an output was asked for,    *)
(* and that the pool keeps exactly the jobs without an end.                 *)
(***************************************************************************)
EXTENDS LuaWorkerPool, FiniteSetTheorems, SequenceTheorems, WellFoundedInduction, TLAPS

Types == Ends \cup {"run", "ready", "progress", "shutdown"}
Messages == [type : Types, job : Jobs \cup {NoJob}]
Places == {"start", "wait", "run", "supply", "stopped"}
Live == {"queued", "cancelling", "running"}

Sets ==
  /\ input \in [Workers -> Seq(Messages)] /\ output \in [Workers -> Seq(Messages)]
  /\ unreceived \in [Workers -> Nat] /\ pc \in [Workers -> Places] /\ after \in [Workers -> Places]
  /\ job \in [Workers -> Jobs \cup {NoJob}]
  /\ status \in [Jobs -> {"none"} \cup Live \cup Outcomes]
  /\ jobs \subseteq Jobs /\ asked \subseteq Jobs

\* A worker whose value is still there, or was not counted, is in its supply.
ChannelInv ==
  \A w \in Workers :
    /\ Len(output[w]) <= 1 /\ Len(output[w]) <= unreceived[w]
    /\ pc[w] # "supply" => output[w] = <<>>

AskedFor(m) == m.type = "cancelled" => m.job \in asked

JobInv ==
  /\ jobs = {j \in Jobs : status[j] \in Live}
  /\ \A j \in asked : status[j] # "none"
  /\ \A w \in Workers : output[w] # <<>> => AskedFor(Head(output[w]))

IInv == Sets /\ ChannelInv /\ JobInv

LEMMA InitInv == Init => IInv
<1> SUFFICES ASSUME Init PROVE IInv
  OBVIOUS
<1>1. Sets
  <2>1. /\ input \in [Workers -> Seq(Messages)] /\ output \in [Workers -> Seq(Messages)]
        /\ job \in [Workers -> Jobs \cup {NoJob}]
    BY DEF Init
  <2>2. /\ unreceived \in [Workers -> Nat] /\ pc \in [Workers -> Places]
        /\ after \in [Workers -> Places] /\ status \in [Jobs -> {"none"} \cup Live \cup Outcomes]
        /\ jobs \subseteq Jobs /\ asked \subseteq Jobs
    BY DEF Init, Places
  <2> QED  BY <2>1, <2>2 DEF Sets
<1>2. ChannelInv
  BY DEF Init, ChannelInv
<1>3. JobInv
  BY DEF Init, JobInv, Live
<1> QED  BY <1>1, <1>2, <1>3 DEF IInv

-----------------------------------------------------------------------------
\* A supply keeps the invariant, when its worker was not in one and a cancellation was asked for.
LEMMA SupplyInv ==
  ASSUME IInv, NEW w \in Workers, NEW m \in Messages, NEW then \in Places, AskedFor(m),
         pc[w] # "supply", Supply(w, m, then), UNCHANGED <<status, jobs, asked>>,
         input' \in [Workers -> Seq(Messages)], job' \in [Workers -> Jobs \cup {NoJob}]
  PROVE  IInv'
<1>1. Sets'
  <2>1. /\ output' \in [Workers -> Seq(Messages)] /\ unreceived' \in [Workers -> Nat]
    BY DEF IInv, Sets, Supply
  <2>2. pc' \in [Workers -> Places] /\ after' \in [Workers -> Places]
    BY DEF IInv, Sets, Supply, Places
  <2> QED  BY <2>1, <2>2 DEF IInv, Sets
<1>2. /\ output[w] = <<>> /\ output'[w] = <<m>> /\ unreceived'[w] = unreceived[w] + 1 /\ pc'[w] = "supply"
      /\ \A v \in Workers \ {w} :
           output'[v] = output[v] /\ unreceived'[v] = unreceived[v] /\ pc'[v] = pc[v]
  <2>1. output[w] = <<>>
    BY DEF IInv, ChannelInv
  <2> QED  BY <2>1 DEF IInv, Sets, Supply
<1>3. ChannelInv'
  <2>1. Len(output'[w]) = 1 /\ unreceived[w] \in Nat /\ Len(output[w]) = 0
    BY <1>2 DEF IInv, Sets
  <2>2. Len(output'[w]) <= 1 /\ Len(output'[w]) <= unreceived'[w] /\ pc'[w] = "supply"
    BY <1>2, <2>1
  <2>3. ASSUME NEW v \in Workers
        PROVE  /\ Len(output'[v]) <= 1 /\ Len(output'[v]) <= unreceived'[v]
               /\ pc'[v] # "supply" => output'[v] = <<>>
    <3>1. CASE v = w
      BY <2>2, <3>1, Zenon
    <3>2. CASE v # w
      BY <1>2, <3>2 DEF IInv, ChannelInv
    <3> QED  BY <3>1, <3>2
  <2> QED  BY <2>3 DEF ChannelInv
<1>4. JobInv'
  <2>1. \A v \in Workers : output'[v] # <<>> => AskedFor(Head(output'[v]))
    <3>1. Head(output'[w]) = m /\ AskedFor(m)'
      BY <1>2 DEF AskedFor
    <3> QED  BY <1>2, <3>1 DEF IInv, JobInv, AskedFor
  <2> QED  BY <2>1 DEF IInv, JobInv, AskedFor
<1> QED  BY <1>1, <1>3, <1>4 DEF IInv

\* So does a step of worker w that sends nothing and does not go back into a supply.
LEMMA QuietInv ==
  ASSUME IInv, NEW w \in Workers, NEW next \in Places, pc' = [pc EXCEPT ![w] = next],
         output[w] = <<>>, UNCHANGED <<status, jobs, asked, output, unreceived, after>>,
         input' \in [Workers -> Seq(Messages)], job' \in [Workers -> Jobs \cup {NoJob}]
  PROVE  IInv'
<1>1. Sets'
  BY DEF IInv, Sets
<1>2. ChannelInv'
  <2>1. \A v \in Workers : pc'[v] = IF v = w THEN next ELSE pc[v]
    BY DEF IInv, Sets
  <2> QED  BY <2>1 DEF IInv, ChannelInv
<1>3. JobInv'
  BY DEF IInv, JobInv, AskedFor
<1> QED  BY <1>1, <1>2, <1>3 DEF IInv

LEMMA WorkerInv ==
  ASSUME IInv, NEW w \in Workers, WorkerStep(w)
  PROVE  IInv'
<1> USE DEF Places, Message, mainVars, poolVars, channelVars, handlerVars
<1>0. /\ input[w] \in Seq(Messages) /\ job[w] \in Jobs \cup {NoJob} /\ after[w] \in Places
      /\ job \in [Workers -> Jobs \cup {NoJob}] /\ input \in [Workers -> Seq(Messages)]
  BY DEF IInv, Sets
<1>1. CASE Ready(w)
  <2>1. Message("ready", NoJob) \in Messages /\ AskedFor(Message("ready", NoJob))
    BY DEF Messages, Types, AskedFor
  <2> QED  BY <1>0, <1>1, <2>1, SupplyInv DEF Ready
<1>2. CASE Given(w)
  <2>1. output[w] = <<>>
    BY <1>2 DEF Given, IInv, ChannelInv, Sets
  <2> QED  BY <1>0, <1>2, <2>1, QuietInv DEF Given
<1>3. CASE Take(w)
  <2> DEFINE m == Head(input[w])
  <2>1. m \in Messages /\ input' \in [Workers -> Seq(Messages)]
    BY <1>0, <1>3 DEF Take
  <2>2. CASE m.type = "shutdown"
    <3>1. Message("shutdown", NoJob) \in Messages /\ AskedFor(Message("shutdown", NoJob))
      BY DEF Messages, Types, AskedFor
    <3> QED  BY <1>0, <1>3, <2>1, <2>2, <3>1, SupplyInv DEF Take
  <2>3. CASE m.type # "shutdown" /\ m.job \in asked
    <3>1. Message("cancelled", m.job) \in Messages /\ AskedFor(Message("cancelled", m.job))
      BY <2>1, <2>3 DEF Messages, Types, Ends, AskedFor
    <3> QED  BY <1>0, <1>3, <2>1, <2>3, <3>1, SupplyInv DEF Take
  <2>4. CASE m.type # "shutdown" /\ m.job \notin asked
    <3>1. output[w] = <<>>
      BY <1>3 DEF Take, IInv, ChannelInv
    <3>2. job' \in [Workers -> Jobs \cup {NoJob}]
      BY <1>0, <1>3, <2>1, <2>4 DEF Take, Messages
    <3> QED  BY <1>3, <2>1, <2>4, <3>1, <3>2, QuietInv DEF Take
  <2> QED  BY <2>2, <2>3, <2>4
<1>4. ASSUME NEW type \in Ends \cup {"progress"}, Send(w, type) PROVE IInv'
  <2>1. Message(type, job[w]) \in Messages /\ AskedFor(Message(type, job[w]))
    BY <1>0, <1>4 DEF Messages, Types, Ends, AskedFor, Send
  <2> QED  BY <1>0, <1>4, <2>1, SupplyInv DEF Send
<1>5. ASSUME Return(w) \/ Throw(w) PROVE job' \in [Workers -> Jobs \cup {NoJob}]
  BY <1>0, <1>5 DEF Return, Throw, EndJob
<1>6. CASE Return(w)
  <2>1. CASE terminal_sent[w]
    <3>1. output[w] = <<>>
      BY <1>6 DEF Return, IInv, ChannelInv
    <3> QED  BY <1>0, <1>5, <1>6, <2>1, <3>1, QuietInv DEF Return, Closing, EndJob
  <2>2. CASE ~terminal_sent[w]
    <3>1. PICK m : m = Message(IF job[w] \in asked THEN "cancelled" ELSE "complete", job[w])
      OBVIOUS
    <3>2. m \in Messages /\ AskedFor(m)
      BY <1>0, <3>1 DEF Messages, Types, Ends, AskedFor
    <3>3. Supply(w, m, "wait")
      <4>1. Closing(w) = <<m>>
        BY <2>2, <3>1 DEF Closing
      <4> QED  BY <1>6, <4>1 DEF Return
    <3> QED  BY <1>0, <1>5, <1>6, <3>2, <3>3, SupplyInv DEF Return, EndJob
  <2> QED  BY <2>1, <2>2
<1>7. CASE Throw(w)
  <2>1. Message("error", job[w]) \in Messages /\ AskedFor(Message("error", job[w]))
    BY <1>0 DEF Messages, Types, Ends, AskedFor
  <2> QED  BY <1>0, <1>5, <1>7, <2>1, SupplyInv DEF Throw, EndJob
<1> QED  BY <1>1, <1>2, <1>3, <1>4, <1>6, <1>7 DEF WorkerStep

-----------------------------------------------------------------------------
\* Steps of the main thread that leave the outputs alone, and set at most tokens.
LEMMA MainInv ==
  ASSUME IInv, asked \subseteq asked', asked' \subseteq Jobs, jobs' \subseteq Jobs,
         status' \in [Jobs -> {"none"} \cup Live \cup Outcomes],
         jobs' = {j \in Jobs : status'[j] \in Live}, \A j \in asked' : status'[j] # "none",
         input' \in [Workers -> Seq(Messages)], UNCHANGED <<output, unreceived, workerVars>>
  PROVE  IInv'
<1>1. Sets' /\ ChannelInv'
  BY DEF IInv, Sets, ChannelInv, workerVars, handlerVars
<1>2. JobInv'
  BY DEF IInv, JobInv, AskedFor
<1> QED  BY <1>1, <1>2 DEF IInv

LEMMA AskInv ==
  ASSUME IInv, NEW S \in SUBSET jobs, Ask(S)
  PROVE  /\ asked \subseteq asked' /\ asked' \subseteq Jobs
         /\ status' \in [Jobs -> {"none"} \cup Live \cup Outcomes]
         /\ jobs = {j \in Jobs : status'[j] \in Live}
         /\ \A j \in asked' : status'[j] # "none"
<1>1. \A j \in Jobs : status'[j] \in {status[j], "cancelling"} /\ (status'[j] = status[j] \/ status[j] = "queued")
  BY DEF Ask, IInv, Sets
<1>2. asked' = asked \cup S /\ S \subseteq Jobs
  BY DEF Ask, IInv, Sets
<1>3. status' \in [Jobs -> {"none"} \cup Live \cup Outcomes]
  BY <1>1 DEF Ask, IInv, Sets, Live
<1> QED  BY <1>1, <1>2, <1>3 DEF IInv, Sets, JobInv, Live

LEMMA SubmitInv ==
  ASSUME IInv, NEW j \in Jobs, NEW priority, Submit(j, priority)
  PROVE  IInv'
<1>1. PICK w : input' = [input EXCEPT ![w] = Append(@, Message("run", j))]
  BY DEF Submit
<1>2. Message("run", j) \in Messages
  BY DEF Message, Messages, Types
<1>3. input' \in [Workers -> Seq(Messages)]
  <2>1. CASE w \in Workers
    BY <1>1, <1>2, <2>1 DEF IInv, Sets
  <2>2. CASE w \notin Workers
    BY <1>1, <2>2 DEF IInv, Sets
  <2> QED  BY <2>1, <2>2
<1>4. /\ status' \in [Jobs -> {"none"} \cup Live \cup Outcomes] /\ asked' = asked
      /\ \A i \in Jobs : status'[i] = IF i = j THEN "queued" ELSE status[i]
  BY DEF Submit, IInv, Sets, Live
<1>5. jobs' = {i \in Jobs : status'[i] \in Live}
  BY <1>4 DEF Submit, IInv, JobInv, Live
<1> QED  BY <1>3, <1>4, <1>5, MainInv DEF Submit, IInv, Sets, JobInv

\* What a drain's step does with the output of worker w: nothing, or the pop of its message m,
\* which tells of a job that the pool keeps, or not.
LEMMA DrainCases ==
  ASSUME IInv, NEW stale \in BOOLEAN, NEW more \in BOOLEAN, Drain(stale, more)
  PROVE  /\ turn \in Workers
         /\ \/ UNCHANGED <<poolVars, output, unreceived>>
            \/ /\ output[turn] # <<>> /\ output' = [output EXCEPT ![turn] = Tail(@)]
               /\ unreceived' = Acknowledged(turn)
               /\ UNCHANGED asked
               /\ \/ UNCHANGED <<status, jobs>>
                  \/ Head(output[turn]).job \in jobs /\ Dispatch(Head(output[turn]), stale)
BY DEF Drain

\* The dispatch of a message that the invariant allows.
LEMMA DispatchInv ==
  ASSUME IInv, NEW m \in Messages, NEW stale \in BOOLEAN, AskedFor(m), m.job \in jobs, Dispatch(m, stale)
  PROVE  /\ status' \in [Jobs -> {"none"} \cup Live \cup Outcomes]
         /\ \A j \in Jobs \ {m.job} : status'[j] = status[j]
         /\ \/ status'[m.job] \in Live /\ jobs' = jobs
            \/ status'[m.job] \in Outcomes /\ jobs' = jobs \ {m.job}
         /\ status'[m.job] = "cancelled" => m.job \in asked
<1>1. m.job \in Jobs /\ status[m.job] \in Live /\ m.type \in Types
  BY DEF IInv, JobInv, Messages
<1>2. PICK s : /\ s \in Live \cup Outcomes /\ status' = [status EXCEPT ![m.job] = s]
               /\ s \in Live <=> m.type \notin Ends
               /\ s = "cancelled" => m.type = "cancelled"
  <2> DEFINE seen == IF status[m.job] \notin {"queued", "cancelling"} THEN status[m.job]
                     ELSE IF m.job \in asked THEN "cancelling" ELSE "running"
             end == IF stale THEN "stale" ELSE Outcome(m.type)
  <2>1. CASE m.type \notin Ends
    <3>1. status' = [status EXCEPT ![m.job] = seen]
      BY <2>1 DEF Dispatch
    <3>2. seen \in Live /\ seen # "cancelled"
      BY <1>1 DEF Live
    <3> QED  BY <2>1, <3>1, <3>2
  <2>2. CASE m.type \in Ends
    <3>1. status' = [status EXCEPT ![m.job] = end]
      BY <2>2 DEF Dispatch
    <3>2. end \in Outcomes /\ end \notin Live /\ (end = "cancelled" => m.type = "cancelled")
      BY <2>2 DEF Outcomes, Outcome, Ends, Live
    <3> QED  BY <2>2, <3>1, <3>2
  <2> QED  BY <2>1, <2>2
<1>3. jobs' = IF m.type \in Ends THEN jobs \ {m.job} ELSE jobs
  BY DEF Dispatch, Released
<1> QED  BY <1>1, <1>2, <1>3 DEF IInv, Sets, AskedFor

LEMMA DrainInv ==
  ASSUME IInv, NEW stale \in BOOLEAN, NEW more \in BOOLEAN, Drain(stale, more)
  PROVE  IInv'
<1>0. input' = input /\ UNCHANGED workerVars /\ turn \in Workers
  BY DEF Drain
<1>1. CASE UNCHANGED <<poolVars, output, unreceived>>
  BY <1>0, <1>1 DEF IInv, Sets, ChannelInv, JobInv, AskedFor, workerVars, handlerVars, poolVars
<1>2. ASSUME output[turn] # <<>>, output' = [output EXCEPT ![turn] = Tail(@)],
             unreceived' = Acknowledged(turn), UNCHANGED asked,
             \/ UNCHANGED <<status, jobs>>
             \/ Head(output[turn]).job \in jobs /\ Dispatch(Head(output[turn]), stale)
      PROVE  IInv'
  <2> DEFINE m == Head(output[turn])
  <2>1. m \in Messages /\ AskedFor(m) /\ Len(output[turn]) = 1 /\ Tail(output[turn]) = <<>>
    <3>1. PICK s : s = output[turn]
      OBVIOUS
    <3>2. s \in Seq(Messages) /\ s # <<>> /\ Len(s) <= 1
      BY <1>0, <1>2, <3>1 DEF IInv, Sets, ChannelInv
    <3>3. Len(s) = 1
      <4>1. Len(s) \in Nat \ {0}
        BY <3>2, EmptySeq
      <4> QED  BY <3>2, <4>1
    <3>4. Head(s) \in Messages /\ Tail(s) \in Seq(Messages) /\ Len(Tail(s)) = Len(s) - 1
      BY <3>2, HeadTailProperties
    <3>5. Tail(s) = <<>>
      <4>1. Len(Tail(s)) = 0
        BY <3>3, <3>4
      <4> QED  BY <3>4, <4>1, EmptySeq
    <3>6. AskedFor(m)
      BY <1>0, <1>2 DEF IInv, JobInv
    <3> QED  BY <3>1, <3>3, <3>4, <3>5, <3>6
  <2>2. /\ \A w \in Workers : output'[w] = IF w = turn THEN <<>> ELSE output[w]
        /\ output' \in [Workers -> Seq(Messages)]
    <3>1. <<>> \in Seq(Messages)
      BY EmptySeq
    <3>2. output \in [Workers -> Seq(Messages)]
      BY DEF IInv, Sets
    <3>3. output' = [output EXCEPT ![turn] = <<>>]
      BY <1>2, <2>1
    <3> QED  BY <3>1, <3>2, <3>3
  <2>3. /\ \A w \in Workers : unreceived'[w] = IF w = turn THEN unreceived[w] - 1 ELSE unreceived[w]
        /\ unreceived' \in [Workers -> Nat]
    <3>1. unreceived[turn] \in Nat /\ unreceived[turn] >= 1
      BY <1>0, <2>1 DEF IInv, Sets, ChannelInv
    <3> QED  BY <1>0, <1>2, <3>1 DEF Acknowledged, IInv, Sets
  <2>4. ChannelInv'
    BY <1>0, <2>2, <2>3 DEF IInv, ChannelInv, workerVars
  <2>5. /\ status' \in [Jobs -> {"none"} \cup Live \cup Outcomes] /\ jobs' \subseteq Jobs
        /\ jobs' = {j \in Jobs : status'[j] \in Live}
        /\ \A j \in asked : status'[j] # "none"
    <3>1. CASE UNCHANGED <<status, jobs>>
      BY <3>1 DEF IInv, Sets, JobInv
    <3>2. CASE m.job \in jobs /\ Dispatch(m, stale)
      <4>1. PICK j : j = m.job
        OBVIOUS
      <4>2. /\ status' \in [Jobs -> {"none"} \cup Live \cup Outcomes]
            /\ \A i \in Jobs \ {j} : status'[i] = status[i]
            /\ \/ status'[j] \in Live /\ jobs' = jobs
               \/ status'[j] \in Outcomes /\ jobs' = jobs \ {j}
        BY <2>1, <3>2, <4>1, DispatchInv
      <4>3. /\ jobs \subseteq Jobs /\ jobs = {i \in Jobs : status[i] \in Live}
            /\ \A i \in asked : i \in Jobs /\ status[i] # "none"
        BY DEF IInv, Sets, JobInv
      <4>4. Outcomes \cap Live = {} /\ "none" \notin Outcomes \cup Live
        BY DEF Live, Outcomes
      <4>5. jobs' \subseteq Jobs /\ jobs' = {i \in Jobs : status'[i] \in Live}
        <5>1. CASE status'[j] \in Live /\ jobs' = jobs
          BY <3>2, <4>1, <4>2, <4>3, <5>1
        <5>2. CASE status'[j] \in Outcomes /\ jobs' = jobs \ {j}
          BY <3>2, <4>1, <4>2, <4>3, <4>4, <5>2
        <5> QED  BY <4>2, <5>1, <5>2
      <4>6. \A i \in asked : status'[i] # "none"
        BY <4>2, <4>3, <4>4
      <4> QED  BY <4>2, <4>5, <4>6
    <3> QED  BY <1>2, <3>1, <3>2
  <2>6. Sets'
    BY <1>0, <1>2, <2>2, <2>3, <2>5 DEF IInv, Sets, workerVars, handlerVars
  <2>7. JobInv'
    BY <1>2, <2>2, <2>5 DEF IInv, JobInv, AskedFor
  <2> QED  BY <2>4, <2>6, <2>7 DEF IInv
<1> QED  BY <1>1, <1>2, DrainCases

LEMMA JoinInv ==
  ASSUME IInv, NEW w \in Workers, Join(w)
  PROVE  IInv'
<1>1. /\ \A v \in Workers : output'[v] = IF v = w THEN <<>> ELSE output[v]
      /\ input' \in [Workers -> Seq(Messages)] /\ output' \in [Workers -> Seq(Messages)]
  BY DEF Join, IInv, Sets
<1>2. Sets' /\ ChannelInv'
  BY <1>1 DEF Join, IInv, Sets, ChannelInv, poolVars, workerVars, handlerVars
<1>3. JobInv'
  BY <1>1 DEF Join, IInv, JobInv, AskedFor, poolVars
<1> QED  BY <1>2, <1>3 DEF IInv

LEMMA StepInv == IInv /\ [Next]_vars => IInv'
<1> SUFFICES ASSUME IInv, [Next]_vars PROVE IInv'
  OBVIOUS
<1>0. jobs \subseteq Jobs /\ asked \subseteq Jobs /\ input \in [Workers -> Seq(Messages)]
  BY DEF IInv, Sets
<1>1. ASSUME NEW j \in Jobs, Cancel(j) PROVE IInv'
  <2>1. {j} \in SUBSET jobs /\ Ask({j}) /\ UNCHANGED <<jobs, input, output, unreceived, workerVars>>
    BY <1>1 DEF Cancel, channelVars
  <2> QED  BY <1>0, <2>1, AskInv, MainInv
<1>2. ASSUME NEW j \in Jobs, NEW p, Submit(j, p) PROVE IInv'
  BY <1>2, SubmitInv
<1>3. CASE StartShutdown
  <2>1. Message("shutdown", NoJob) \in Messages
    BY DEF Message, Messages, Types
  <2>2. input' \in [Workers -> Seq(Messages)]
    <3>1. \A w \in Workers : Append(input[w], Message("shutdown", NoJob)) \in Seq(Messages)
      BY <1>0, <2>1
    <3> QED  BY <1>3, <3>1 DEF StartShutdown
  <2>3. Ask(jobs) /\ UNCHANGED <<jobs, output, unreceived, workerVars>>
    BY <1>3 DEF StartShutdown
  <2> QED  BY <1>0, <2>2, <2>3, AskInv, MainInv
<1>4. CASE TimeOut \/ BeginDrain \/ EndWait \/ UNCHANGED vars
  <2>1. UNCHANGED <<poolVars, channelVars, workerVars>>
    BY <1>4 DEF TimeOut, BeginDrain, EndWait, vars
  <2> QED  BY <2>1 DEF IInv, Sets, ChannelInv, JobInv, AskedFor, poolVars, channelVars, workerVars, handlerVars
<1>5. ASSUME NEW stale \in BOOLEAN, NEW more \in BOOLEAN, Drain(stale, more) PROVE IInv'
  BY <1>5, DrainInv
<1>6. ASSUME NEW w \in Workers, Join(w) PROVE IInv'
  BY <1>6, JoinInv
<1>7. ASSUME NEW w \in Workers, WorkerStep(w) PROVE IInv'
  BY <1>7, WorkerInv
<1> QED  BY <1>1, <1>2, <1>3, <1>4, <1>5, <1>6, <1>7 DEF Next, MainStep

LEMMA Invariant == Spec => []IInv
<1>1. Init => IInv
  BY InitInv
<1>2. IInv /\ [Next]_vars => IInv'
  BY StepInv
<1> QED  BY <1>1, <1>2, PTL DEF Spec

\* However many jobs and workers there are and however slowly the main thread drains, a worker
\* has at most one value in its output.
THEOREM OutputIsBounded == Spec => []Backpressure
<1>1. IInv => Backpressure
  BY DEF IInv, ChannelInv, Backpressure
<1> QED  BY <1>1, Invariant, PTL

-----------------------------------------------------------------------------
\* The choice of a worker takes one of the pool.

LEMMA Least ==
  ASSUME NEW S \in SUBSET Nat, S # {}
  PROVE  \E n \in S : \A k \in S : n <= k
<1>1. PICK n \in S : \A k \in S : <<k, n>> \notin OpToRel(<, Nat)
  BY NatLessThanWellFounded, WFMin
<1>2. \A k \in S : ~(k < n)
  BY <1>1 DEF OpToRel
<1> QED BY <1>2

\* A lane is a row of workers.
LEMMA LaneIsRow ==
  ASSUME NEW priority
  PROVE  \E first \in Workers, size \in 1..Count :
           /\ first + size - 1 \in Workers /\ Lane(priority) = first .. (first + size - 1)
           /\ Cardinality(Lane(priority)) = size
           /\ first = CHOOSE w \in Lane(priority) : \A v \in Lane(priority) : w <= v
<1>1. Count \in Nat \ {0}
  BY LuaPoolAssumption
<1>2. \E first \in Workers, last \in Workers : Lane(priority) = first..last /\ first <= last
  <2>1. 1 \in Workers /\ Count \in Workers /\ (Count # 1 => 2 \in Workers /\ 2 <= Count)
    BY <1>1 DEF Workers
  <2>2. CASE Lane(priority) = 1..Count
    BY <1>1, <2>1, <2>2
  <2>3. CASE Count # 1 /\ Lane(priority) = 2..Count
    BY <2>1, <2>3
  <2>4. CASE Lane(priority) = {1}
    <3>1. {1} = 1..1
      OBVIOUS
    <3> QED BY <2>1, <2>4, <3>1
  <2> QED BY <2>2, <2>3, <2>4 DEF Lane, Workers
<1>3. PICK first \in Workers, last \in Workers : Lane(priority) = first..last /\ first <= last
  BY <1>2
<1>4. Cardinality(Lane(priority)) = last - first + 1
  BY <1>3, FS_Interval DEF Workers
<1>5. first \in Lane(priority) /\ \A v \in Lane(priority) : first <= v
  BY <1>3 DEF Workers
<1>6. first = CHOOSE w \in Lane(priority) : \A v \in Lane(priority) : w <= v
  <2>1. \A w \in Lane(priority) : (\A v \in Lane(priority) : w <= v) => w = first
    BY <1>3, <1>5 DEF Workers
  <2> QED BY <1>5, <2>1
<1>7. PICK size \in 1..Count : size = last - first + 1 /\ last = first + size - 1
  BY <1>1, <1>3 DEF Workers
<1> QED BY <1>3, <1>4, <1>6, <1>7

LEMMA ChoiceIsWorker ==
  ASSUME jobs \subseteq Jobs, next_worker \in Workers \cup {0}, NEW priority
  PROVE  Choice(priority) \in Workers
<1>1. PICK first \in Workers, size \in 1..Count :
        /\ first + size - 1 \in Workers /\ Cardinality(Lane(priority)) = size
        /\ first = CHOOSE w \in Lane(priority) : \A v \in Lane(priority) : w <= v
  BY LaneIsRow
<1> DEFINE L(o) == Load(Nth(first, size, o))
           Best(o) == \A p \in 1..size : L(o) < L(p) \/ (L(o) = L(p) /\ o <= p)
<1>2. \A w : Load(w) \in Nat
  <2>1. ASSUME NEW w PROVE Load(w) \in Nat
    <3>1. IsFiniteSet({j \in jobs : worker_id[j] = w})
      BY LuaPoolAssumption, FS_Subset
    <3> QED BY <3>1, FS_CardinalityType DEF Load
  <2> QED BY <2>1
<1>3. \E o \in 1..size : Best(o)
  <2>0. \A o : L(o) \in Nat
    BY <1>2
  <2> DEFINE loads == {L(o) : o \in 1..size}
  <2>1. PICK n \in loads : \A k \in loads : n <= k
    <3>1. loads \in SUBSET Nat /\ loads # {}
      BY <2>0, LuaPoolAssumption
    <3> HIDE DEF loads
    <3> QED BY <3>1, Least
  <2> DEFINE offsets == {o \in 1..size : L(o) = n}
  <2>2. PICK o \in offsets : \A p \in offsets : o <= p
    <3>1. offsets \in SUBSET Nat /\ offsets # {}
      BY <2>1, LuaPoolAssumption
    <3> HIDE DEF offsets
    <3> QED BY <3>1, Least
  <2> HIDE DEF L
  <2>3. ASSUME NEW p \in 1..size PROVE L(o) < L(p) \/ (L(o) = L(p) /\ o <= p)
    <3>1. L(o) = n /\ n <= L(p) /\ L(p) \in Nat /\ n \in Nat
      BY <2>0, <2>1, <2>2
    <3> QED BY <2>2, <3>1
  <2> QED BY <2>3
<1>4. PICK o \in 1..size : o = CHOOSE i \in 1..size : Best(i)
  <2> HIDE DEF Best
  <2> QED BY <1>3
<1>5. Choice(priority) = Nth(first, size, o)
  BY <1>1, <1>4 DEF Choice
<1>6. Nth(first, size, o) \in Workers
  <2>1. PICK i \in Int : i = next_worker + o - first
    BY LuaPoolAssumption DEF Workers
  <2>2. i % size \in 0..(size - 1)
    BY LuaPoolAssumption
  <2> QED BY <1>1, <2>1, <2>2, LuaPoolAssumption DEF Nth, Workers
<1> QED BY <1>5, <1>6

\* The rest of the type invariant.
Rest ==
  /\ phase \in {"open", "closing", "waiting", "joining", "down"} /\ late \in BOOLEAN
  /\ worker_id \in [Jobs -> Workers \cup {0}] /\ turn \in Workers \cup {0} /\ next_worker \in Workers \cup {0}
  /\ acked \subseteq Workers /\ joined \subseteq Workers
  /\ terminal_sent \in [Workers -> BOOLEAN] /\ sends \in [Workers -> 0..MaxSends]

LEMMA RestInit == Init => Rest
<1> SUFFICES ASSUME Init PROVE Rest
  OBVIOUS
<1>1. terminal_sent \in [Workers -> BOOLEAN]
  BY DEF Init
<1>2. sends \in [Workers -> 0..MaxSends]
  BY LuaPoolAssumption DEF Init
<1>3. worker_id \in [Jobs -> Workers \cup {0}]
  BY DEF Init
<1> QED BY <1>1, <1>2, <1>3 DEF Init, Rest

LEMMA RestStep == IInv /\ Rest /\ [Next]_vars => Rest'
<1> SUFFICES ASSUME IInv, Rest, [Next]_vars PROVE Rest'
  OBVIOUS
<1> USE DEF Rest, poolVars, mainVars, channelVars, workerVars, handlerVars
<1>0. Count \in Nat \ {0} /\ MaxSends \in Nat
  BY LuaPoolAssumption
<1>1. ASSUME NEW j \in Jobs, Cancel(j) PROVE Rest'
  BY <1>1 DEF Cancel
<1>2. ASSUME NEW j \in Jobs, NEW p, Submit(j, p) PROVE Rest'
  <2>1. PICK w \in Workers : w = Choice(p)
    BY ChoiceIsWorker DEF IInv, Sets
  <2>2. worker_id' = [worker_id EXCEPT ![j] = w] /\ next_worker' = w /\ UNCHANGED <<mainVars, terminal_sent, sends>>
    BY <1>2, <2>1 DEF Submit
  <2> QED BY <2>2
<1>3. CASE StartShutdown
  BY <1>3 DEF StartShutdown
<1>4. CASE TimeOut
  BY <1>4 DEF TimeOut
<1>5. CASE BeginDrain
  BY <1>0, <1>5 DEF BeginDrain, Workers
<1>6. ASSUME NEW stale \in BOOLEAN, NEW more \in BOOLEAN, Drain(stale, more) PROVE Rest'
  <2>1. /\ turn \in Workers /\ acked' \in {acked, acked \cup {turn}} /\ turn' \in {0, Following(turn)}
        /\ UNCHANGED <<worker_id, next_worker, phase, late, joined, terminal_sent, sends>>
    BY <1>6 DEF Drain
  <2>2. Following(turn) \in Workers \cup {0}
    BY <1>0, <2>1 DEF Following, Workers
  <2> QED BY <2>1, <2>2
<1>7. CASE EndWait
  BY <1>7 DEF EndWait
<1>8. ASSUME NEW w \in Workers, Join(w) PROVE Rest'
  BY <1>8 DEF Join
<1>9. ASSUME NEW w \in Workers, WorkerStep(w) PROVE Rest'
  <2>1. CASE Ready(w) \/ Given(w) \/ Take(w)
    BY <2>1 DEF Ready, Given, Take
  <2>2. ASSUME NEW type, Send(w, type) PROVE Rest'
    <3>1. UNCHANGED <<mainVars, worker_id, next_worker>>
      BY <2>2 DEF Send
    <3>2. sends' \in [Workers -> 0..MaxSends]
      BY <1>0, <2>2 DEF Send
    <3>3. terminal_sent' \in [Workers -> BOOLEAN]
      <4>1. PICK b : b = (terminal_sent[w] \/ type \in Ends)
        OBVIOUS
      <4>2. b \in BOOLEAN
        BY <4>1, Zenon
      <4>3. terminal_sent' = [terminal_sent EXCEPT ![w] = b]
        BY <2>2, <4>1, Zenon DEF Send
      <4> QED BY <4>2, <4>3
    <3> QED BY <3>1, <3>2, <3>3
  <2>3. CASE Return(w) \/ Throw(w)
    <3>1. EndJob(w)
      BY <2>3 DEF Return, Throw
    <3>2. sends' \in [Workers -> 0..MaxSends]
      BY <1>0, <3>1 DEF EndJob
    <3>3. terminal_sent' \in [Workers -> BOOLEAN]
      BY <3>1 DEF EndJob
    <3> QED BY <3>1, <3>2, <3>3 DEF EndJob
  <2> QED BY <1>9, <2>1, <2>2, <2>3 DEF WorkerStep
<1>10. CASE UNCHANGED vars
  BY <1>10 DEF vars
<1> QED BY <1>1, <1>2, <1>3, <1>4, <1>5, <1>6, <1>7, <1>8, <1>9, <1>10 DEF Next, MainStep

\* Every variable keeps its type; above all, the choice of a worker, for any lane and however the
\* jobs are spread, ends with a worker of the pool.
THEOREM TypeCorrect == Spec => []TypeOK
<1>1. Sets /\ Rest => TypeOK
  BY DEF Sets, Rest, TypeOK, Places, Live
<1>2. Spec => []Rest
  BY RestInit, RestStep, Invariant, PTL DEF Spec
<1>3. IInv => Sets
  BY DEF IInv
<1> QED BY <1>1, <1>2, <1>3, Invariant, PTL

-----------------------------------------------------------------------------
\* The refinement: what JobService sees of a state.
Accepted == {j \in Jobs : status[j] # "none"}
OutcomeOf == [j \in Jobs |-> IF status[j] \in Outcomes THEN status[j] ELSE "none"]

LEMMA PromiseInit == Init => Promise!Init
BY DEF Init, Promise!Init, Outcomes

\* A step that leaves what JobService sees alone is a stutter.
LEMMA StutterPromise ==
  ASSUME UNCHANGED <<status, asked>>
  PROVE  UNCHANGED Promise!vars
BY DEF Promise!vars

LEMMA SubmitPromise ==
  ASSUME IInv, NEW j \in Jobs, NEW p, Submit(j, p)
  PROVE  Promise!Next
<1>1. /\ status[j] = "none" /\ asked' = asked
      /\ \A i \in Jobs : status'[i] = IF i = j THEN "queued" ELSE status[i]
  BY DEF Submit, IInv, Sets
<1>2. Accepted' = Accepted \cup {j} /\ j \notin Accepted
  BY <1>1 DEF Accepted
<1>3. OutcomeOf' = OutcomeOf
  BY <1>1 DEF OutcomeOf, Outcomes
<1>4. Promise!Submit(j)
  BY <1>1, <1>2, <1>3 DEF Promise!Submit, Accepted, OutcomeOf
<1> QED  BY <1>4 DEF Promise!Next

\* A cancellation of the jobs of S, of all with the shutdown.
LEMMA AskPromise ==
  ASSUME IInv, NEW S \in SUBSET jobs, Ask(S)
  PROVE  [Promise!Next]_(Promise!vars)
<1>1. /\ asked' = asked \cup S /\ S \subseteq Jobs
      /\ \A j \in Jobs : status'[j] = IF j \in S /\ status[j] = "queued" THEN "cancelling" ELSE status[j]
  BY DEF Ask, IInv, Sets
<1>2. Accepted' = Accepted /\ OutcomeOf' = OutcomeOf /\ S \subseteq Accepted
  BY <1>1 DEF Accepted, OutcomeOf, Outcomes, IInv, JobInv, Live
<1>3. CASE S = {}
  BY <1>1, <1>2, <1>3 DEF Promise!vars, Accepted, OutcomeOf
<1>4. CASE S # {}
  <2>1. Promise!Ask(S)
    BY <1>1, <1>2, <1>4 DEF Promise!Ask, Accepted, OutcomeOf
  <2> QED  BY <1>1, <2>1 DEF Promise!Next
<1> QED  BY <1>3, <1>4

\* A message that ends a job ends it with an outcome that JobService allows.
LEMMA DispatchPromise ==
  ASSUME IInv, NEW m \in Messages, NEW stale \in BOOLEAN, AskedFor(m), m.job \in jobs,
         Dispatch(m, stale), UNCHANGED asked
  PROVE  [Promise!Next]_(Promise!vars)
<1>1. PICK j : j = m.job
  OBVIOUS
<1>2. /\ j \in Jobs /\ status[j] \in Live /\ status'[j] \in Live \cup Outcomes
      /\ \A i \in Jobs \ {j} : status'[i] = status[i]
      /\ status'[j] = "cancelled" => j \in asked
  BY <1>1, DispatchInv DEF IInv, Sets, JobInv
<1>3. Accepted' = Accepted /\ j \in Accepted /\ OutcomeOf[j] = "none"
  BY <1>2 DEF Accepted, OutcomeOf, Live, Outcomes
<1>4. CASE status'[j] \in Live
  <2>1. OutcomeOf' = OutcomeOf
    BY <1>2, <1>4 DEF OutcomeOf, Live, Outcomes
  <2> QED  BY <1>3, <2>1 DEF Promise!vars, Accepted, OutcomeOf
<1>5. CASE status'[j] \in Outcomes
  <2>1. PICK o \in Outcomes : o = status'[j]
    BY <1>5
  <2>2. OutcomeOf' = [OutcomeOf EXCEPT ![j] = o]
    BY <1>2, <2>1 DEF OutcomeOf, Live, Outcomes
  <2>3. Promise!End(j, o)
    BY <1>2, <1>3, <2>1, <2>2 DEF Promise!End, Accepted, OutcomeOf
  <2> QED  BY <1>2, <2>3 DEF Promise!Next
<1> QED  BY <1>2, <1>4, <1>5

LEMMA PromiseStep == IInv /\ [Next]_vars => [Promise!Next]_(Promise!vars)
<1> SUFFICES ASSUME IInv, [Next]_vars PROVE [Promise!Next]_(Promise!vars)
  OBVIOUS
<1>1. ASSUME NEW j \in Jobs, Cancel(j) PROVE [Promise!Next]_(Promise!vars)
  <2>1. {j} \in SUBSET jobs /\ Ask({j})
    BY <1>1 DEF Cancel
  <2> QED  BY <2>1, AskPromise
<1>2. ASSUME NEW j \in Jobs, NEW p, Submit(j, p) PROVE [Promise!Next]_(Promise!vars)
  BY <1>2, SubmitPromise
<1>3. CASE StartShutdown
  BY <1>3, AskPromise DEF StartShutdown
<1>4. CASE TimeOut \/ BeginDrain \/ EndWait \/ UNCHANGED vars
  BY <1>4, StutterPromise DEF TimeOut, BeginDrain, EndWait, vars, poolVars
<1>5. ASSUME NEW stale \in BOOLEAN, NEW more \in BOOLEAN, Drain(stale, more)
      PROVE  [Promise!Next]_(Promise!vars)
  <2>1. CASE UNCHANGED <<status, asked>>
    BY <2>1, StutterPromise
  <2>2. ASSUME output[turn] # <<>>, turn \in Workers, UNCHANGED asked,
               Head(output[turn]).job \in jobs, Dispatch(Head(output[turn]), stale)
        PROVE  [Promise!Next]_(Promise!vars)
    <3>1. Head(output[turn]) \in Messages /\ AskedFor(Head(output[turn]))
      BY <2>2, HeadTailProperties DEF IInv, Sets, JobInv
    <3> QED  BY <2>2, <3>1, DispatchPromise
  <2> QED  BY <1>5, <2>1, <2>2, DrainCases DEF poolVars
<1>6. ASSUME NEW w \in Workers, Join(w) PROVE [Promise!Next]_(Promise!vars)
  BY <1>6, StutterPromise DEF Join, poolVars
<1>7. ASSUME NEW w \in Workers, WorkerStep(w) PROVE [Promise!Next]_(Promise!vars)
  <2>1. UNCHANGED <<status, asked>>
    BY <1>7 DEF WorkerStep, Ready, Given, Take, Send, Return, Throw, EndJob, poolVars
  <2> QED  BY <2>1, StutterPromise
<1> QED  BY <1>1, <1>2, <1>3, <1>4, <1>5, <1>6, <1>7 DEF Next, MainStep

\* LuaWorkerPool implements JobService: whatever handlers send and in whatever order
\* cancellations, ends and the shutdown meet, each job that submit took ends at most once, and is
\* cancelled only when somebody asked.
THEOREM LuaPoolKeepsPromise == Spec => KeepsPromise
<1>1. Init => Promise!Init
  BY PromiseInit
<1>2. IInv /\ [Next]_vars => [Promise!Next]_(Promise!vars)
  BY PromiseStep
<1> QED  BY <1>1, <1>2, Invariant, PTL DEF Spec, KeepsPromise, Promise!Spec

=============================================================================
