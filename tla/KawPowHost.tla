----------------------------- MODULE KawPowHost -----------------------------
(***************************************************************************)
(* The host side of the mining engine: class KawPow (kawpow_host.cpp) and  *)
(* the host loop of kawpow_cuda_search (kawpow.cu).                        *)
(*                                                                         *)
(* One main thread runs the Stratum receive loop and calls set_job and     *)
(* stop_mining; one mining thread per entry of the configured device list  *)
(* searches and calls submit_share.  The two sides share the job fields of *)
(* the KawPow object, which no lock protects: all that keeps a search and  *)
(* the share it submits on one job is the order in which the main thread   *)
(* clears continue_mining, joins, assigns the fields and starts threads.   *)
(*                                                                         *)
(* A job stands for the five values of one mining.notify; a field holds    *)
(* the job its present value came from, so a mixture of two jobs shows.    *)
(***************************************************************************)
EXTENDS Naturals, Sequences

CONSTANTS
  NumDevices,  \* length of config.getCudaDevices()
  Jobs,        \* the jobs the pool announces
  NoJob        \* the fields before the first mining.notify

ASSUME HostAssumption ==
  /\ NumDevices \in Nat
  /\ NoJob \notin Jobs

VARIABLES
  main,             \* where the main thread is
  ret,              \* where the main thread goes when stop_mining returns
  cursor,           \* its loop index: the next thread to join or start, or
                    \* the next field to assign
  arg,              \* the arguments of the set_job call in progress
  continue_mining,  \* std::atomic<bool> KawPow::continue_mining
  mining_threads,   \* the devices whose std::thread is in the vector
  fields,           \* current_job_id .. current_target of the KawPow object
  th,               \* where each device's mining thread is
  seen,             \* the values each search works with, by field
  shares,           \* every share handed to Stratum::submit
  stratum_alive     \* the Stratum object of main() has not been destroyed

mainVars   == <<main, ret, cursor, arg>>
kawpowVars == <<continue_mining, mining_threads, fields>>
threadVars == <<th, seen, shares>>
vars       == <<mainVars, kawpowVars, threadVars, stratum_alive>>

Devices    == 1..NumDevices
FieldOrder == <<"job_id", "header_hash", "seed_hash", "block_number", "target">>
Fields     == {"job_id", "header_hash", "seed_hash", "block_number", "target"}
SearchArgs == Fields \ {"job_id"}   \* what kawpow_cuda_search is given

MainPoints   == {"idle", "stop", "join", "assign", "spawn", "unwind", "exited"}
ThreadPoints == {"none", "start", "dag", "upload", "check", "batch",
                 "submit", "send", "done"}

\* A thread that has been started and not yet returned, and one that has been
\* started and not yet joined.
Running(d)  == th[d] \notin {"none", "done"}
Unjoined(d) == th[d] # "none"

Init ==
  /\ main = "idle" /\ ret = "idle" /\ cursor = 1 /\ arg = NoJob
  /\ continue_mining = FALSE
  /\ mining_threads = {}
  /\ fields = [f \in Fields |-> NoJob]
  /\ th = [d \in Devices |-> "none"]
  /\ seen = [d \in Devices |-> [f \in SearchArgs |-> NoJob]]
  /\ shares = {}
  /\ stratum_alive = TRUE

-----------------------------------------------------------------------------
(* The main thread.                                                        *)

Goto(point) == main' = point /\ cursor' = 1

\* (Faulty) set_job trusts the caller to have stopped the previous search.
NotifyWithoutStop(j, clean_job) ==
  /\ main = "idle"
  /\ Goto(IF clean_job THEN "stop" ELSE "assign")
  /\ ret' = "assign"
  /\ arg' = j
  /\ UNCHANGED <<kawpowVars, threadVars, stratum_alive>>

\* mining.notify with well-formed parameters: a clean job calls stop_mining
\* first, and set_job then calls it (again) before anything else.
Notify(j, clean_job) ==
  /\ main = "idle"
  /\ Goto("stop")
  /\ ret' = IF clean_job THEN "stop" ELSE "assign"
  /\ arg' = j
  /\ UNCHANGED <<kawpowVars, threadVars, stratum_alive>>

\* stop_mining returns to its caller; the one in process_single_message goes
\* on to the call set_job makes.
StopReturns ==
  /\ Goto(ret)
  /\ ret' = IF ret = "stop" THEN "assign" ELSE ret

\* The test and the store on entry to stop_mining.  Only the main thread
\* writes continue_mining, so the two are one step.
StopMining ==
  /\ main = "stop"
  /\ IF continue_mining
       THEN /\ continue_mining' = FALSE
            /\ Goto("join")
            /\ UNCHANGED ret
       ELSE /\ StopReturns
            /\ UNCHANGED continue_mining
  /\ UNCHANGED <<arg, mining_threads, fields, threadVars, stratum_alive>>

\* (Faulty) t.detach() in place of t.join().
DetachThread ==
  /\ main = "join" /\ cursor \in mining_threads
  /\ cursor' = cursor + 1
  /\ UNCHANGED <<main, ret, arg, kawpowVars, threadVars, stratum_alive>>

\* t.join() on the next element: returns once that thread has.
JoinThread ==
  /\ main = "join" /\ cursor \in mining_threads
  /\ th[cursor] = "done"
  /\ th' = [th EXCEPT ![cursor] = "none"]
  /\ cursor' = cursor + 1
  /\ UNCHANGED <<main, ret, arg, kawpowVars, seen, shares, stratum_alive>>

\* The loop over the vector is over: mining_threads.clear() and return.
ClearThreads ==
  /\ main = "join" /\ cursor \notin mining_threads
  /\ mining_threads' = {}
  /\ StopReturns
  /\ UNCHANGED <<arg, continue_mining, fields, threadVars, stratum_alive>>

\* The assignments of set_job, one field at a time.
AssignField ==
  /\ main = "assign" /\ cursor <= Len(FieldOrder)
  /\ fields' = [fields EXCEPT ![FieldOrder[cursor]] = arg]
  /\ cursor' = cursor + 1
  /\ UNCHANGED <<main, ret, arg, continue_mining, mining_threads, threadVars,
                 stratum_alive>>

\* (Faulty) continue_mining is left as stop_mining set it.
EnableMiningForgotten ==
  /\ main = "assign" /\ cursor > Len(FieldOrder)
  /\ Goto("spawn")
  /\ UNCHANGED <<ret, arg, kawpowVars, threadVars, stratum_alive>>

EnableMining ==
  /\ main = "assign" /\ cursor > Len(FieldOrder)
  /\ continue_mining' = TRUE
  /\ Goto("spawn")
  /\ UNCHANGED <<ret, arg, mining_threads, fields, threadVars, stratum_alive>>

\* mining_threads.emplace_back for the next configured device.
SpawnThread ==
  /\ main = "spawn" /\ cursor \in Devices
  /\ mining_threads' = mining_threads \cup {cursor}
  /\ th' = [th EXCEPT ![cursor] = "start"]
  /\ cursor' = cursor + 1
  /\ UNCHANGED <<main, ret, arg, continue_mining, fields, seen, shares,
                 stratum_alive>>

\* All devices started: set_job returns to the receive loop.
SetJobReturns ==
  /\ main = "spawn" /\ cursor \notin Devices
  /\ Goto("idle") /\ ret' = "idle"
  /\ UNCHANGED <<arg, kawpowVars, threadVars, stratum_alive>>

\* run() ends: it breaks out of its loop on a socket error, or an exception
\* reaches the handlers of main() -- among them the std::system_error of a
\* thread that cannot be started.  main() returns and destroys its objects,
\* the last one declared first: the Stratum object, then the KawPow object.
RunEnds ==
  /\ main = "idle" \/ (main = "spawn" /\ cursor \in Devices)
  /\ Goto("unwind") /\ ret' = "exited"
  /\ UNCHANGED <<arg, kawpowVars, threadVars, stratum_alive>>

DestroyStratum ==
  /\ main = "unwind"
  /\ stratum_alive' = FALSE
  /\ Goto("stop")     \* ~KawPow calls stop_mining
  /\ UNCHANGED <<ret, arg, kawpowVars, threadVars>>

MainStep ==
  \/ StopMining \/ JoinThread \/ ClearThreads
  \/ AssignField \/ EnableMining \/ SpawnThread \/ SetJobReturns
  \/ DestroyStratum

-----------------------------------------------------------------------------
(* A mining thread.                                                        *)

At(d, from, to) == th[d] = from /\ th' = [th EXCEPT ![d] = to]

ReadFields(d, names) ==
  seen' = [seen EXCEPT ![d] = [f \in SearchArgs |->
                                 IF f \in names THEN fields[f] ELSE @[f]]]

\* mining_thread_main evaluates the arguments of kawpow_cuda_search: the
\* block number by value, the strings as pointers into the KawPow object.
ThreadStart(d) ==
  /\ At(d, "start", "dag")
  /\ ReadFields(d, {"block_number"})
  /\ UNCHANGED <<mainVars, kawpowVars, shares, stratum_alive>>

\* get_dag reads the seed through its pointer, if it has a DAG to make (one that
\* is there was made for the same epoch: DagCache); on failure the search
\* returns.
GetDag(d) ==
  /\ At(d, "dag", "upload") \/ At(d, "dag", "done")
  /\ ReadFields(d, {"seed_hash"})
  /\ UNCHANGED <<mainVars, kawpowVars, shares, stratum_alive>>

\* cudaMemcpy of the header and the target through their pointers.
Upload(d) ==
  /\ At(d, "upload", "check")
  /\ ReadFields(d, {"header_hash", "target"})
  /\ UNCHANGED <<mainVars, kawpowVars, shares, stratum_alive>>

\* (Faulty) the loop condition does not look at the flag.
CheckNothing(d) ==
  /\ At(d, "check", "batch")
  /\ UNCHANGED <<mainVars, kawpowVars, seen, shares, stratum_alive>>

\* while (kawpow_instance->should_continue())
CheckContinue(d) ==
  /\ IF continue_mining THEN At(d, "check", "batch") ELSE At(d, "check", "done")
  /\ UNCHANGED <<mainVars, kawpowVars, seen, shares, stratum_alive>>

\* Launch a batch and read the result back: a share, or none.
RunBatch(d) ==
  /\ At(d, "batch", "check") \/ At(d, "batch", "submit")
  /\ UNCHANGED <<mainVars, kawpowVars, seen, shares, stratum_alive>>

\* submit_share passes the KawPow object's present job id and header to
\* Stratum::submit, whatever the search that found the nonce worked with.
SubmitShare(d) ==
  /\ At(d, "submit", "send")
  /\ shares' = shares \cup {[job_id      |-> fields["job_id"],
                             header_hash |-> fields["header_hash"],
                             found       |-> seen[d]]}
  /\ UNCHANGED <<mainVars, kawpowVars, seen, stratum_alive>>

\* send() returns, successfully or not, and the loop goes on.
SendReturns(d) ==
  /\ At(d, "send", "check")
  /\ UNCHANGED <<mainVars, kawpowVars, seen, shares, stratum_alive>>

ThreadStep(d) ==
  \/ ThreadStart(d) \/ GetDag(d) \/ Upload(d) \/ CheckContinue(d)
  \/ RunBatch(d) \/ SubmitShare(d) \/ SendReturns(d)

\* The process has ended.
Exited == main = "exited" /\ UNCHANGED vars

Next ==
  \/ \E j \in Jobs, clean_job \in BOOLEAN : Notify(j, clean_job)
  \/ RunEnds
  \/ MainStep
  \/ \E d \in Devices : ThreadStep(d)
  \/ Exited

Spec == Init /\ [][Next]_vars

\* The operating system keeps running every thread; the pool owes nothing.
\* That send() returns is part of the assumption on ThreadStep.
FairSpec ==
  /\ Spec
  /\ WF_vars(MainStep)
  /\ \A d \in Devices : WF_vars(ThreadStep(d))

-----------------------------------------------------------------------------
(* Properties.                                                             *)

TypeOK ==
  /\ main \in MainPoints
  /\ ret \in {"idle", "stop", "assign", "exited"}
  /\ cursor \in 1..(NumDevices + Len(FieldOrder) + 1)
  /\ arg \in Jobs \cup {NoJob}
  /\ continue_mining \in BOOLEAN
  /\ mining_threads \subseteq Devices
  /\ fields \in [Fields -> Jobs \cup {NoJob}]
  /\ th \in [Devices -> ThreadPoints]
  /\ seen \in [Devices -> [SearchArgs -> Jobs \cup {NoJob}]]
  /\ shares \subseteq [job_id : Jobs \cup {NoJob},
                       header_hash : Jobs \cup {NoJob},
                       found : [SearchArgs -> Jobs \cup {NoJob}]]
  /\ stratum_alive \in BOOLEAN

\* Every share goes out under the job it was found for: the job id and header
\* submit_share reads from the KawPow object, and the header, seed, block
\* number and target the search read from it earlier and piecemeal, all come
\* from one mining.notify.
ShareOfOneJob ==
  \A s \in shares :
    /\ s.job_id \in Jobs
    /\ s.header_hash = s.job_id
    /\ \A f \in SearchArgs : s.found[f] = s.job_id

\* set_job never touches a job field while a mining thread runs: the threads
\* hold c_str() pointers into these strings and read them without a lock.
JobFrozenWhileMining ==
  [][(\E d \in Devices : Running(d)) => UNCHANGED fields]_vars

\* No std::thread is overwritten, cleared or destroyed while joinable (which
\* would call std::terminate), so none is left behind either: a thread leaves
\* the vector only after its join, and enters it only into an empty slot.
NoThreadAbandoned ==
  [][\A d \in Devices :
       /\ d \in mining_threads \ mining_threads' => th[d] = "none"
       /\ th[d] # "none" /\ th'[d] = "start" => th[d] = "start"]_vars

\* stop_mining skips the joins when continue_mining is already false.  That is
\* sound because threads exist only while the flag is up or the main thread is
\* in the joins; in particular main() has none left once it has returned.
ThreadsOnlyWhileEnabled ==
  (\E d \in Devices : Unjoined(d)) => continue_mining \/ main = "join"

\* Every call into the engine returns, whatever the mining threads are doing:
\* a new job is never stuck behind the search it replaces, nor is shutdown.
CallsReturn == main \notin {"idle", "exited"} ~> main \in {"idle", "exited"}

\* Once continue_mining is false no thread begins anything: each of its steps takes
\* it nearer to its join, of which a thread that has just been started is eight
\* steps away and one in the middle of a batch five, at most.  The joins of
\* stop_mining rest on it: they wait for so many steps of each thread, not for the
\* end of its search.
StepsLeft == [none |-> 0, done |-> 1, check |-> 2, send |-> 3, submit |-> 4,
              batch |-> 5, upload |-> 6, dag |-> 7, start |-> 8]

StopWindsDown ==
  [][~continue_mining =>
       \A d \in Devices : th'[d] = th[d] \/ StepsLeft[th'[d]] < StepsLeft[th[d]]]_vars

\* The engine's promise (MiningEngine).  A device works from the moment it has
\* read its first field, on the job that field came from; a share is under way
\* while Stratum::submit holds references to the job id and the header.
Engine == INSTANCE MiningEngine WITH
  job   <- fields["job_id"],
  work  <- [d \in Devices |-> IF th[d] \in {"none", "start", "done"} THEN NoJob
                              ELSE seen[d]["block_number"]],
  offer <- [d \in Devices |-> IF th[d] = "send" THEN fields["job_id"] ELSE NoJob]

\* Flag, joins and unprotected fields add up to that promise: nobody's job
\* changes under a search or a submission, and what is submitted is the job
\* that was searched.
ImplementsEngine == Engine!Spec

\* "Stratum client not set, cannot submit share.": submit_share goes through
\* its stratum_client only while there is one to go through.
SubmitOnLiveStratum == \A d \in Devices : th[d] = "send" => stratum_alive
=============================================================================
