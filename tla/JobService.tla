------------------------------ MODULE JobService ------------------------------
(***************************************************************************)
(* What a worker pool promises for each job, whatever its threads do: an    *)
(* accepted job ends once, with one outcome, and is cancelled only when     *)
(* somebody asked for it.                                                   *)
(***************************************************************************)
CONSTANTS Jobs, Outcomes

VARIABLES
  accepted,   \* the jobs that submit took
  asked,      \* the jobs that somebody asked to cancel
  outcome     \* the outcome of each ended job

vars == <<accepted, asked, outcome>>

Init == accepted = {} /\ asked = {} /\ outcome = [j \in Jobs |-> "none"]

Submit(j) ==
  /\ j \notin accepted
  /\ accepted' = accepted \cup {j}
  /\ UNCHANGED <<asked, outcome>>

\* One job, or with the end of the pool every one.
Ask(S) ==
  /\ S # {} /\ S \subseteq accepted
  /\ asked' = asked \cup S
  /\ UNCHANGED <<accepted, outcome>>

End(j, o) ==
  /\ j \in accepted /\ outcome[j] = "none"
  /\ o = "cancelled" => j \in asked
  /\ outcome' = [outcome EXCEPT ![j] = o]
  /\ UNCHANGED <<accepted, asked>>

\* A job that had not started is cancelled with the end of the pool, in one step.
AskAndEnd(j) ==
  /\ j \in accepted /\ outcome[j] = "none"
  /\ asked' = asked \cup {j}
  /\ outcome' = [outcome EXCEPT ![j] = "cancelled"]
  /\ UNCHANGED accepted

Next == \/ \E j \in Jobs : Submit(j) \/ AskAndEnd(j) \/ \E o \in Outcomes : End(j, o)
        \/ \E S \in SUBSET Jobs : Ask(S)

Spec == Init /\ [][Next]_vars
=============================================================================
