---------------------------- MODULE MiningEngine ----------------------------
(***************************************************************************)
(* What the mining engine promises the pool session, and the session its   *)
(* pool: the devices work on the present job or rest, a share is offered   *)
(* under the job it was found for, and the job changes only while nobody   *)
(* works.  KawPowHost implements this with a flag, a vector of threads and *)
(* unprotected strings; StratumSession uses the engine as if it were this. *)
(***************************************************************************)

CONSTANTS Devices, Jobs, NoJob

VARIABLES
  job,     \* the present job
  work,    \* the job each device searches; NoJob: it rests
  offer    \* the job of the share each device is submitting; NoJob: it is not

vars == <<job, work, offer>>

Resting(d)    == work[d] = NoJob
Submitting(d) == offer[d] # NoJob

Init ==
  /\ job = NoJob
  /\ work = [d \in Devices |-> NoJob]
  /\ offer = [d \in Devices |-> NoJob]

\* A new job: whoever begins at once begins with it.
SetJob(j) ==
  /\ \A d \in Devices : Resting(d)
  /\ job' = j
  /\ work' \in [Devices -> {NoJob, j}]
  /\ UNCHANGED offer

Begin(d) ==
  /\ Resting(d)
  /\ work' = [work EXCEPT ![d] = job]
  /\ UNCHANGED <<job, offer>>

\* A share goes out under the job it was found for.
Offer(d) ==
  /\ ~Resting(d) /\ ~Submitting(d)
  /\ offer' = [offer EXCEPT ![d] = work[d]]
  /\ UNCHANGED <<job, work>>

\* The call returns; the device goes on or is done.
Sent(d) ==
  /\ Submitting(d)
  /\ offer' = [offer EXCEPT ![d] = NoJob]
  /\ work' \in {work, [work EXCEPT ![d] = NoJob]}
  /\ UNCHANGED job

Rest(d) ==
  /\ ~Submitting(d)
  /\ work' = [work EXCEPT ![d] = NoJob]
  /\ UNCHANGED <<job, offer>>

Next ==
  \/ \E j \in Jobs : SetJob(j)
  \/ \E d \in Devices : Begin(d) \/ Offer(d) \/ Sent(d) \/ Rest(d)

Spec == Init /\ [][Next]_vars
=============================================================================
