-------------------------- MODULE KawPowHostProofs --------------------------
(***************************************************************************)
(* Proofs about KawPowHost, for any number of devices and any set of jobs. *)
(***************************************************************************)
EXTENDS KawPowHost, TLAPS

\* The five job fields hold the values of one announced job.
FieldsOfOneJob ==
  /\ fields["job_id"] \in Jobs
  /\ \A f \in Fields : fields[f] = fields["job_id"]

\* The vector is filled and joined from the front.
HandlesInOrder ==
  /\ \A d \in mining_threads : \A e \in 1..d : e \in mining_threads
  /\ \A d \in Devices : Unjoined(d) => d \in mining_threads
  /\ main = "join" => \A d \in Devices : d < cursor => ~Unjoined(d)
  /\ main = "spawn" => \A d \in Devices : d \in mining_threads <=> d < cursor

\* When there are handles in the vector, and when the fields may be mixed.
HandlesWhileEnabled ==
  /\ mining_threads # {} => continue_mining \/ main = "join"
  /\ continue_mining => main \notin {"assign", "join"}
  /\ main = "spawn" => continue_mining

JobInProgress ==
  /\ main = "unwind" => ret = "exited"
  /\ main \in {"stop", "join"} /\ ret \in {"stop", "assign"} => arg \in Jobs
  /\ main = "assign" =>
       /\ arg \in Jobs
       /\ \A k \in 1..Len(FieldOrder) : k < cursor => fields[FieldOrder[k]] = arg
  /\ continue_mining \/ main = "join" => FieldsOfOneJob

\* What a thread has read so far is what the fields still hold.
SeenIsCurrent ==
  \A d \in Devices :
    /\ th[d] \in {"dag", "upload", "check", "batch", "submit", "send"} =>
         seen[d]["block_number"] = fields["block_number"]
    /\ th[d] \in {"upload", "check", "batch", "submit", "send"} =>
         seen[d]["seed_hash"] = fields["seed_hash"]
    /\ th[d] \in {"check", "batch", "submit", "send"} =>
         /\ seen[d]["header_hash"] = fields["header_hash"]
         /\ seen[d]["target"] = fields["target"]

HandlesInv == HandlesInOrder /\ HandlesWhileEnabled
JobInv     == JobInProgress /\ SeenIsCurrent /\ ShareOfOneJob
HostInv    == TypeOK /\ HandlesInv /\ JobInv

-----------------------------------------------------------------------------

LEMMA FieldOrderFacts ==
  /\ Len(FieldOrder) = 5
  /\ \A k \in 1..5 : FieldOrder[k] \in Fields
  /\ \A f \in Fields : \E k \in 1..5 : FieldOrder[k] = f
  BY DEF FieldOrder, Fields

\* The cursor's range, for the provers.
LEMMA CursorRange ==
  /\ 1..(NumDevices + Len(FieldOrder) + 1) = 1..(NumDevices + 6)
  /\ 1 \in 1..(NumDevices + 6)
  BY HostAssumption, FieldOrderFacts

\* What a thread's read of some fields leaves behind.
LEMMA ReadFieldsFacts ==
  ASSUME TypeOK, NEW d \in Devices, NEW names, ReadFields(d, names)
  PROVE  /\ seen' \in [Devices -> [SearchArgs -> Jobs \cup {NoJob}]]
         /\ \A e \in Devices : e # d => seen'[e] = seen[e]
         /\ \A f \in SearchArgs :
              seen'[d][f] = IF f \in names THEN fields[f] ELSE seen[d][f]
<1> DEFINE now == [f \in SearchArgs |->
                     IF f \in names THEN fields[f] ELSE seen[d][f]]
<1>1. seen' = [seen EXCEPT ![d] = now]
  BY DEF ReadFields
<1>2. now \in [SearchArgs -> Jobs \cup {NoJob}]
  BY DEF TypeOK, SearchArgs
<1>. QED
  BY <1>1, <1>2 DEF TypeOK

LEMMA TypeInit == Init => TypeOK
<1> SUFFICES ASSUME Init PROVE TypeOK
  OBVIOUS
<1>1. cursor \in 1..(NumDevices + Len(FieldOrder) + 1)
  BY CursorRange DEF Init
<1>2. th \in [Devices -> ThreadPoints]
  BY DEF Init, ThreadPoints
<1>3. seen \in [Devices -> [SearchArgs -> Jobs \cup {NoJob}]]
  BY DEF Init
<1>. QED
  BY <1>1, <1>2, <1>3 DEF Init, TypeOK, MainPoints

LEMMA TypeStep == TypeOK /\ [Next]_vars => TypeOK'
<1> SUFFICES ASSUME TypeOK, [Next]_vars PROVE TypeOK'
  OBVIOUS
<1> USE HostAssumption, FieldOrderFacts, CursorRange
    DEF TypeOK, Devices, MainPoints, ThreadPoints, Goto, StopReturns, At,
        mainVars, kawpowVars, threadVars
<1>1. ASSUME NEW j \in Jobs, NEW c \in BOOLEAN, Notify(j, c) PROVE TypeOK'
  BY <1>1 DEF Notify
<1>2. CASE StopMining
  BY <1>2 DEF StopMining
<1>3. CASE JoinThread
  BY <1>3 DEF JoinThread
<1>4. CASE ClearThreads
  BY <1>4 DEF ClearThreads
<1>5. CASE AssignField
  BY <1>5 DEF AssignField
<1>6. CASE EnableMining
  BY <1>6 DEF EnableMining
<1>7. CASE SpawnThread
  BY <1>7 DEF SpawnThread
<1>8. CASE SetJobReturns
  BY <1>8 DEF SetJobReturns
<1>9. CASE DestroyStratum
  BY <1>9 DEF DestroyStratum
<1>10. CASE RunEnds
  BY <1>10 DEF RunEnds
<1>11. ASSUME NEW d \in Devices, ThreadStart(d) PROVE TypeOK'
  BY <1>11, ReadFieldsFacts DEF ThreadStart
<1>12. ASSUME NEW d \in Devices, GetDag(d) PROVE TypeOK'
  BY <1>12, ReadFieldsFacts DEF GetDag
<1>13. ASSUME NEW d \in Devices, Upload(d) PROVE TypeOK'
  BY <1>13, ReadFieldsFacts DEF Upload
<1>14. ASSUME NEW d \in Devices, CheckContinue(d) PROVE TypeOK'
  BY <1>14 DEF CheckContinue
<1>15. ASSUME NEW d \in Devices, RunBatch(d) PROVE TypeOK'
  BY <1>15 DEF RunBatch
<1>16. ASSUME NEW d \in Devices, SubmitShare(d) PROVE TypeOK'
  <2> DEFINE s == [job_id |-> fields["job_id"],
                   header_hash |-> fields["header_hash"], found |-> seen[d]]
  <2>1. shares' = shares \cup {s}
    BY <1>16 DEF SubmitShare
  <2>2. s \in [job_id : Jobs \cup {NoJob}, header_hash : Jobs \cup {NoJob},
               found : [SearchArgs -> Jobs \cup {NoJob}]]
    BY DEF Fields
  <2>. QED
    BY <1>16, <2>1, <2>2 DEF SubmitShare
<1>17. ASSUME NEW d \in Devices, SendReturns(d) PROVE TypeOK'
  BY <1>17 DEF SendReturns
<1>18. CASE UNCHANGED vars
  BY <1>18 DEF vars
<1>. QED
  BY <1>1, <1>2, <1>3, <1>4, <1>5, <1>6, <1>7, <1>8, <1>9, <1>10, <1>11, <1>12, <1>13, <1>14, <1>15, <1>16, <1>17, <1>18 DEF Next, MainStep, ThreadStep, Exited

\* Every variable keeps its type.
THEOREM TypeCorrect == Spec => []TypeOK
  BY TypeInit, TypeStep, PTL DEF Spec

-----------------------------------------------------------------------------

LEMMA HandlesInit == Init => HandlesInv
  BY DEF Init, HandlesInv, HandlesInOrder, HandlesWhileEnabled, Unjoined

LEMMA HandlesStep == TypeOK /\ HandlesInv /\ [Next]_vars => HandlesInv'
<1> SUFFICES ASSUME TypeOK, HandlesInv, [Next]_vars PROVE HandlesInv'
  OBVIOUS
<1> USE HostAssumption
    DEF TypeOK, HandlesInv, HandlesInOrder, HandlesWhileEnabled, Unjoined,
        Devices, ThreadPoints, Goto, StopReturns, At, mainVars, kawpowVars,
        threadVars
<1>1. ASSUME NEW j \in Jobs, NEW c \in BOOLEAN, Notify(j, c) PROVE HandlesInv'
  BY <1>1 DEF Notify
<1>2. CASE StopMining
  BY <1>2 DEF StopMining
<1>3. CASE JoinThread
  BY <1>3 DEF JoinThread
<1>4. CASE ClearThreads
  BY <1>4 DEF ClearThreads
<1>5. CASE AssignField
  BY <1>5 DEF AssignField
<1>6. CASE EnableMining
  BY <1>6 DEF EnableMining
<1>7. CASE SpawnThread
  <2>1. /\ mining_threads' = mining_threads \cup {cursor}
        /\ cursor' = cursor + 1 /\ cursor \in Devices
        /\ main = "spawn" /\ main' = "spawn"
        /\ \A d \in Devices : d # cursor => th'[d] = th[d]
    BY <1>7 DEF SpawnThread
  <2>2. HandlesInOrder'
    <3>1. \A d \in Devices : d \in mining_threads' <=> d < cursor'
      BY <2>1
    <3>2. \A d \in mining_threads' : \A e \in 1..d : e \in mining_threads'
      BY <2>1, <3>1
    <3>3. \A d \in Devices : Unjoined(d)' => d \in mining_threads'
      BY <2>1
    <3>. QED
      BY <2>1, <3>1, <3>2, <3>3
  <2>3. HandlesWhileEnabled'
    BY <1>7 DEF SpawnThread
  <2>. QED
    BY <2>2, <2>3
<1>8. CASE SetJobReturns
  BY <1>8 DEF SetJobReturns
<1>9. CASE DestroyStratum
  BY <1>9 DEF DestroyStratum
<1>10. CASE RunEnds
  BY <1>10 DEF RunEnds
<1>11. ASSUME NEW d \in Devices, ThreadStart(d) PROVE HandlesInv'
  BY <1>11 DEF ThreadStart
<1>12. ASSUME NEW d \in Devices, GetDag(d) PROVE HandlesInv'
  BY <1>12 DEF GetDag
<1>13. ASSUME NEW d \in Devices, Upload(d) PROVE HandlesInv'
  BY <1>13 DEF Upload
<1>14. ASSUME NEW d \in Devices, CheckContinue(d) PROVE HandlesInv'
  BY <1>14 DEF CheckContinue
<1>15. ASSUME NEW d \in Devices, RunBatch(d) PROVE HandlesInv'
  BY <1>15 DEF RunBatch
<1>16. ASSUME NEW d \in Devices, SubmitShare(d) PROVE HandlesInv'
  BY <1>16 DEF SubmitShare
<1>17. ASSUME NEW d \in Devices, SendReturns(d) PROVE HandlesInv'
  BY <1>17 DEF SendReturns
<1>18. CASE UNCHANGED vars
  BY <1>18 DEF vars
<1>. QED
  BY <1>1, <1>2, <1>3, <1>4, <1>5, <1>6, <1>7, <1>8, <1>9, <1>10, <1>11, <1>12, <1>13, <1>14, <1>15, <1>16, <1>17, <1>18
  DEF Next, MainStep, ThreadStep, Exited

LEMMA JobInit == Init => JobInv
  BY DEF Init, JobInv, JobInProgress, SeenIsCurrent, ShareOfOneJob

LEMMA JobStep ==
  TypeOK /\ TypeOK' /\ HandlesInv /\ JobInv /\ [Next]_vars => JobInv'
<1> SUFFICES ASSUME TypeOK, TypeOK', HandlesInv, JobInv, [Next]_vars PROVE JobInv'
  OBVIOUS
<1> USE HostAssumption, FieldOrderFacts
    DEF TypeOK, HandlesInv, HandlesInOrder, HandlesWhileEnabled, Unjoined,
        JobInv, JobInProgress, FieldsOfOneJob, SeenIsCurrent, ShareOfOneJob,
        Devices, Fields, SearchArgs, ThreadPoints, Goto, StopReturns, At,
        mainVars, kawpowVars, threadVars
<1>1. ASSUME NEW j \in Jobs, NEW c \in BOOLEAN, Notify(j, c) PROVE JobInv'
  BY <1>1 DEF Notify
<1>2. CASE StopMining
  BY <1>2 DEF StopMining
<1>3. CASE JoinThread
  BY <1>3 DEF JoinThread
<1>4. CASE ClearThreads
  BY <1>4 DEF ClearThreads
<1>5. CASE AssignField
  BY <1>5 DEF AssignField
<1>6. CASE EnableMining
  BY <1>6 DEF EnableMining
<1>7. CASE SpawnThread
  BY <1>7 DEF SpawnThread
<1>8. CASE SetJobReturns
  BY <1>8 DEF SetJobReturns
<1>9. CASE DestroyStratum
  BY <1>9 DEF DestroyStratum
<1>10. CASE RunEnds
  BY <1>10 DEF RunEnds
<1>11. ASSUME NEW d \in Devices, ThreadStart(d) PROVE JobInv'
  BY <1>11, ReadFieldsFacts DEF ThreadStart
<1>12. ASSUME NEW d \in Devices, GetDag(d) PROVE JobInv'
  BY <1>12, ReadFieldsFacts DEF GetDag
<1>13. ASSUME NEW d \in Devices, Upload(d) PROVE JobInv'
  BY <1>13, ReadFieldsFacts DEF Upload
<1>14. ASSUME NEW d \in Devices, CheckContinue(d) PROVE JobInv'
  BY <1>14 DEF CheckContinue
<1>15. ASSUME NEW d \in Devices, RunBatch(d) PROVE JobInv'
  BY <1>15 DEF RunBatch
<1>16. ASSUME NEW d \in Devices, SubmitShare(d) PROVE JobInv'
  BY <1>16 DEF SubmitShare
<1>17. ASSUME NEW d \in Devices, SendReturns(d) PROVE JobInv'
  BY <1>17 DEF SendReturns
<1>18. CASE UNCHANGED vars
  BY <1>18 DEF vars
<1>. QED
  BY <1>1, <1>2, <1>3, <1>4, <1>5, <1>6, <1>7, <1>8, <1>9, <1>10, <1>11, <1>12, <1>13, <1>14, <1>15, <1>16, <1>17, <1>18
  DEF Next, MainStep, ThreadStep, Exited

-----------------------------------------------------------------------------
(* The theorems.                                                           *)

\* The inductive invariant of the host side.
THEOREM HostInvariant == Spec => []HostInv
<1>1. Init => HostInv
  BY TypeInit, HandlesInit, JobInit DEF HostInv
<1>2. HostInv /\ [Next]_vars => HostInv'
  BY TypeStep, HandlesStep, JobStep DEF HostInv
<1>. QED
  BY <1>1, <1>2, PTL DEF Spec

\* Every share is submitted under the job it was found for, however many
\* devices mine and whenever the pool announces, whatever it announces.
THEOREM ShareSafety == Spec => []ShareOfOneJob
<1>1. HostInv => ShareOfOneJob
  BY DEF HostInv, JobInv
<1>. QED
  BY <1>1, HostInvariant, PTL

\* The shortcut of stop_mining is sound: with the flag down and outside the
\* joins there is no thread to join, so none outlives the KawPow object.
THEOREM NoThreadWithoutFlag == Spec => []ThreadsOnlyWhileEnabled
<1>1. HostInv => ThreadsOnlyWhileEnabled
  BY DEF HostInv, HandlesInv, HandlesInOrder, HandlesWhileEnabled,
         ThreadsOnlyWhileEnabled
<1>. QED
  BY <1>1, HostInvariant, PTL

LEMMA FrozenStep ==
  HostInv /\ [Next]_vars /\ (\E d \in Devices : Running(d)) => UNCHANGED fields
<1> SUFFICES ASSUME HostInv, [Next]_vars, NEW d \in Devices, Running(d)
             PROVE  UNCHANGED fields
  OBVIOUS
<1>1. main # "assign"
  BY DEF HostInv, HandlesInv, HandlesInOrder, HandlesWhileEnabled, Running,
         Unjoined
<1>. QED
  BY <1>1 DEF Next, MainStep, ThreadStep, Exited, Notify, StopMining,
     JoinThread, ClearThreads, AssignField, EnableMining, SpawnThread,
     SetJobReturns, DestroyStratum, RunEnds, ThreadStart, GetDag, Upload,
     CheckContinue, RunBatch, SubmitShare, SendReturns, vars, kawpowVars

\* No job field is assigned while a mining thread runs.
THEOREM FrozenWhileMining == Spec => JobFrozenWhileMining
<1>1. HostInv /\ [Next]_vars =>
        [(\E d \in Devices : Running(d)) => UNCHANGED fields]_vars
  BY FrozenStep
<1>. QED
  BY <1>1, HostInvariant, PTL DEF Spec, JobFrozenWhileMining

LEMMA NoneAbandonedStep ==
  HostInv /\ [Next]_vars =>
    \A d \in Devices :
      /\ d \in mining_threads \ mining_threads' => th[d] = "none"
      /\ th[d] # "none" /\ th'[d] = "start" => th[d] = "start"
<1> SUFFICES ASSUME HostInv, [Next]_vars, NEW d \in Devices
             PROVE  /\ d \in mining_threads \ mining_threads' => th[d] = "none"
                    /\ th[d] # "none" /\ th'[d] = "start" => th[d] = "start"
  OBVIOUS
<1> USE HostAssumption
    DEF HostInv, TypeOK, HandlesInv, HandlesInOrder, Unjoined, Devices,
        ThreadPoints
<1>1. CASE ClearThreads
  <2>1. d \in mining_threads => d < cursor
    BY <1>1 DEF ClearThreads
  <2>. QED
    BY <1>1, <2>1 DEF ClearThreads, threadVars
<1>2. CASE SpawnThread
  <2>1. th[cursor] = "none"
    BY <1>2 DEF SpawnThread
  <2>. QED
    BY <1>2, <2>1 DEF SpawnThread
<1>3. CASE JoinThread
  BY <1>3 DEF JoinThread, kawpowVars
<1>4. ASSUME NEW e \in Devices, ThreadStep(e)
      PROVE  UNCHANGED mining_threads /\ (th'[d] = "start" => th[d] = "start")
  BY <1>4 DEF ThreadStep, ThreadStart, GetDag, Upload, CheckContinue, RunBatch,
              SubmitShare, SendReturns, At, kawpowVars
<1>5. CASE ~(ClearThreads \/ SpawnThread \/ JoinThread)
           /\ ~(\E e \in Devices : ThreadStep(e))
  <2>1. UNCHANGED <<mining_threads, th>>
    BY <1>5 DEF Next, MainStep, Exited, Notify, StopMining, AssignField,
       EnableMining, SetJobReturns, DestroyStratum, RunEnds, vars, kawpowVars,
       threadVars
  <2>. QED
    BY <2>1
<1>. QED
  BY <1>1, <1>2, <1>3, <1>4, <1>5

\* No std::thread is cleared, overwritten or destroyed before its join.
THEOREM NoneAbandoned == Spec => NoThreadAbandoned
<1>1. HostInv /\ [Next]_vars =>
        [\A d \in Devices :
           /\ d \in mining_threads \ mining_threads' => th[d] = "none"
           /\ th[d] # "none" /\ th'[d] = "start" => th[d] = "start"]_vars
  BY NoneAbandonedStep
<1>. QED
  BY <1>1, HostInvariant, PTL DEF Spec, NoThreadAbandoned

\* With the flag down the main thread starts no thread, and a thread's step leaves
\* it less to do.
LEMMA WindsDownStep ==
  HostInv /\ [Next]_vars /\ ~continue_mining =>
    \A d \in Devices : th'[d] = th[d] \/ StepsLeft[th'[d]] < StepsLeft[th[d]]
<1> SUFFICES ASSUME HostInv, [Next]_vars, ~continue_mining, NEW d \in Devices
             PROVE  th'[d] = th[d] \/ StepsLeft[th'[d]] < StepsLeft[th[d]]
  OBVIOUS
<1> USE DEF StepsLeft
<1>0. th \in [Devices -> ThreadPoints]
  BY DEF HostInv, TypeOK
<1>1. main # "spawn"
  BY DEF HostInv, HandlesInv, HandlesWhileEnabled
<1>2. CASE JoinThread
  BY <1>0, <1>2 DEF JoinThread
<1>3. ASSUME NEW e \in Devices, ThreadStep(e)
      PROVE  th'[d] = th[d] \/ StepsLeft[th'[d]] < StepsLeft[th[d]]
  <2>1. CASE ThreadStart(e)
    BY <1>0, <2>1 DEF ThreadStart, At
  <2>2. CASE GetDag(e)
    BY <1>0, <2>2 DEF GetDag, At
  <2>3. CASE Upload(e)
    BY <1>0, <2>3 DEF Upload, At
  <2>4. CASE CheckContinue(e)
    BY <1>0, <2>4 DEF CheckContinue, At
  <2>5. CASE RunBatch(e)
    BY <1>0, <2>5 DEF RunBatch, At
  <2>6. CASE SubmitShare(e)
    BY <1>0, <2>6 DEF SubmitShare, At
  <2>7. CASE SendReturns(e)
    BY <1>0, <2>7 DEF SendReturns, At
  <2>. QED
    BY <1>3, <2>1, <2>2, <2>3, <2>4, <2>5, <2>6, <2>7 DEF ThreadStep
<1>4. CASE UNCHANGED th
  BY <1>4
<1>5. JoinThread \/ (\E e \in Devices : ThreadStep(e)) \/ UNCHANGED th
  BY <1>1 DEF Next, MainStep, Exited, Notify, StopMining, ClearThreads, AssignField,
     EnableMining, SpawnThread, SetJobReturns, DestroyStratum, RunEnds, vars, threadVars
<1>. QED
  BY <1>2, <1>3, <1>4, <1>5

\* While the flag is down every mining thread only moves towards its join: what the
\* joins of stop_mining wait for is bounded, however many devices there are.
THEOREM WindsDown == Spec => StopWindsDown
<1>1. HostInv /\ [Next]_vars =>
        [~continue_mining =>
           \A d \in Devices : th'[d] = th[d] \/ StepsLeft[th'[d]] < StepsLeft[th[d]]]_vars
  BY WindsDownStep
<1>. QED
  BY <1>1, HostInvariant, PTL DEF Spec, StopWindsDown

-----------------------------------------------------------------------------
(* The refinement of MiningEngine.                                         *)

Working(d) == th[d] \notin {"none", "start", "done"}

\* While a device works, the job fields are those of one job, and the search has
\* its block number.
LEMMA WorkIsCurrent ==
  ASSUME HostInv, NEW d \in Devices, Unjoined(d)
  PROVE  /\ main # "assign"
         /\ fields["job_id"] \in Jobs /\ fields["block_number"] = fields["job_id"]
         /\ Working(d) /\ th[d] # "done" => seen[d]["block_number"] = fields["job_id"]
<1>1. continue_mining \/ main = "join"
  BY DEF HostInv, HandlesInv, HandlesInOrder, HandlesWhileEnabled
<1>2. FieldsOfOneJob /\ main # "assign"
  BY <1>1 DEF HostInv, HandlesInv, HandlesWhileEnabled, JobInv, JobInProgress
<1>. QED
  BY <1>2 DEF HostInv, TypeOK, JobInv, SeenIsCurrent, FieldsOfOneJob, Fields, Working,
              Unjoined, ThreadPoints

LEMMA EngineStep == HostInv /\ [Next]_vars => [Engine!Next]_(Engine!vars)
<1> SUFFICES ASSUME HostInv, [Next]_vars
             PROVE  Engine!Next \/ UNCHANGED Engine!vars
  OBVIOUS
<1> DEFINE W == [d \in Devices |-> IF th[d] \in {"none", "start", "done"} THEN NoJob
                                  ELSE seen[d]["block_number"]]
           O == [d \in Devices |-> IF th[d] = "send" THEN fields["job_id"] ELSE NoJob]
<1> USE HostAssumption
<1>0. /\ th \in [Devices -> ThreadPoints]
      /\ seen \in [Devices -> [SearchArgs -> Jobs \cup {NoJob}]]
      /\ fields \in [Fields -> Jobs \cup {NoJob}]
      /\ "block_number" \in SearchArgs
  BY DEF HostInv, TypeOK, SearchArgs, Fields
<1>1. CASE AssignField
  <2>1. \A d \in Devices : th[d] = "none"
    BY <1>1, WorkIsCurrent DEF AssignField, Unjoined
  <2>2. th' = th /\ seen' = seen
    BY <1>1 DEF AssignField, threadVars
  <2>3. CASE cursor = 1
    <3>1. arg \in Jobs /\ fields["job_id"]' = arg
      BY <1>0, <1>1, <2>3 DEF AssignField, HostInv, JobInv, JobInProgress, FieldOrder, Fields
    <3>2. PICK j \in Jobs : j = arg
      BY <3>1
    <3>3. Engine!SetJob(j)
      BY <2>1, <2>2, <3>1, <3>2 DEF Engine!SetJob, Engine!Resting
    <3>. QED
      BY <3>3 DEF Engine!Next
  <2>4. CASE cursor # 1
    <3>1. fields["job_id"]' = fields["job_id"]
      <4>1. cursor \in 2..5
        BY <1>1, <2>4, FieldOrderFacts DEF AssignField, HostInv, TypeOK
      <4>2. FieldOrder[cursor] # "job_id"
        BY <4>1 DEF FieldOrder
      <4>. QED
        BY <1>0, <1>1, <4>2 DEF AssignField, Fields
    <3>. QED
      BY <2>1, <2>2, <3>1 DEF Engine!vars
  <2>. QED
    BY <2>3, <2>4
<1>2. CASE SpawnThread
  <2>1. th[cursor] = "none" /\ cursor \in Devices
    BY <1>2 DEF SpawnThread, HostInv, HandlesInv, HandlesInOrder, Unjoined, TypeOK, Devices
  <2>2. /\ \A d \in Devices : th'[d] = IF d = cursor THEN "start" ELSE th[d]
        /\ UNCHANGED <<fields, seen>>
    BY <1>0, <1>2 DEF SpawnThread
  <2>. QED
    BY <2>1, <2>2 DEF Engine!vars
<1>3. CASE JoinThread
  <2>1. /\ \A d \in Devices : th'[d] = IF d = cursor THEN "none" ELSE th[d]
        /\ th[cursor] = "done"
        /\ UNCHANGED <<fields, seen>>
    BY <1>0, <1>3 DEF JoinThread, kawpowVars
  <2>. QED
    BY <2>1 DEF Engine!vars
<1>4. ASSUME NEW d \in Devices, ThreadStart(d)
      PROVE  Engine!Begin(d)
  <2>1. fields["block_number"] = fields["job_id"] /\ th[d] = "start"
    BY <1>4, WorkIsCurrent DEF ThreadStart, At, Unjoined
  <2>2. /\ th' = [th EXCEPT ![d] = "dag"] /\ UNCHANGED fields
        /\ seen'[d]["block_number"] = fields["block_number"]
        /\ \A e \in Devices : e # d => seen'[e] = seen[e]
    BY <1>0, <1>4, ReadFieldsFacts DEF ThreadStart, At, HostInv, kawpowVars
  <2>. QED
    BY <1>0, <2>1, <2>2 DEF Engine!Begin, Engine!Resting
<1>5. ASSUME NEW d \in Devices, GetDag(d) \/ Upload(d)
      PROVE  Engine!Rest(d) \/ UNCHANGED Engine!vars
  <2>1. /\ \A e \in Devices : seen'[e]["block_number"] = seen[e]["block_number"]
        /\ UNCHANGED fields
    <3>1. PICK names : ReadFields(d, names) /\ "block_number" \notin names
      BY <1>5 DEF GetDag, Upload
    <3>2. /\ \A e \in Devices : e # d => seen'[e] = seen[e]
          /\ seen'[d]["block_number"] = seen[d]["block_number"]
      BY <1>0, <3>1, ReadFieldsFacts DEF HostInv
    <3>. QED
      BY <1>5, <3>2 DEF GetDag, Upload, kawpowVars
  <2>2. CASE th[d] = "dag" /\ th' = [th EXCEPT ![d] = "done"]
    BY <1>0, <2>1, <2>2 DEF Engine!Rest, Engine!Submitting
  <2>3. CASE /\ th[d] \in {"dag", "upload"}
             /\ th' = [th EXCEPT ![d] = "upload"] \/ th' = [th EXCEPT ![d] = "check"]
    BY <1>0, <2>1, <2>3 DEF Engine!vars
  <2>. QED
    BY <1>5, <2>2, <2>3 DEF GetDag, Upload, At
<1>6. ASSUME NEW d \in Devices, CheckContinue(d) \/ RunBatch(d)
      PROVE  Engine!Rest(d) \/ UNCHANGED Engine!vars
  <2>1. UNCHANGED <<seen, fields>>
    BY <1>6 DEF CheckContinue, RunBatch, kawpowVars
  <2>2. CASE th[d] = "check" /\ th' = [th EXCEPT ![d] = "done"]
    BY <1>0, <2>1, <2>2 DEF Engine!Rest, Engine!Submitting
  <2>3. CASE /\ th[d] \in {"check", "batch"}
             /\ \E p \in {"check", "batch", "submit"} : th' = [th EXCEPT ![d] = p]
    BY <1>0, <2>1, <2>3 DEF Engine!vars
  <2>. QED
    BY <1>6, <2>2, <2>3 DEF CheckContinue, RunBatch, At
<1>7. ASSUME NEW d \in Devices, SubmitShare(d)
      PROVE  Engine!Offer(d)
  <2>1. /\ th[d] = "submit" /\ fields["job_id"] \in Jobs
        /\ seen[d]["block_number"] = fields["job_id"]
    BY <1>7, WorkIsCurrent DEF SubmitShare, At, Unjoined, Working
  <2>2. th' = [th EXCEPT ![d] = "send"] /\ UNCHANGED <<seen, fields>>
    BY <1>7 DEF SubmitShare, At, kawpowVars
  <2>. QED
    BY <1>0, <2>1, <2>2 DEF Engine!Offer, Engine!Resting, Engine!Submitting
<1>8. ASSUME NEW d \in Devices, SendReturns(d)
      PROVE  Engine!Sent(d)
  <2>1. th[d] = "send" /\ fields["job_id"] \in Jobs
    BY <1>8, WorkIsCurrent DEF SendReturns, At, Unjoined
  <2>2. th' = [th EXCEPT ![d] = "check"] /\ UNCHANGED <<seen, fields>>
    BY <1>8 DEF SendReturns, At, kawpowVars
  <2>. QED
    BY <1>0, <2>1, <2>2 DEF Engine!Sent, Engine!Submitting
<1>9. CASE UNCHANGED <<th, seen, fields>>
  BY <1>9 DEF Engine!vars
<1>10. \/ AssignField \/ SpawnThread \/ JoinThread
       \/ \E d \in Devices : ThreadStep(d)
       \/ UNCHANGED <<th, seen, fields>>
  BY DEF Next, MainStep, Exited, Notify, StopMining, ClearThreads, EnableMining,
         SetJobReturns, DestroyStratum, RunEnds, vars, kawpowVars, threadVars
<1>. QED
  BY <1>1, <1>2, <1>3, <1>4, <1>5, <1>6, <1>7, <1>8, <1>9, <1>10
  DEF ThreadStep, Engine!Next

\* The flag, the joins and the unprotected fields implement MiningEngine: no
\* job changes under a search or a submission, and a share goes out under the
\* job that was searched, for any number of devices.
THEOREM HostImplementsEngine == Spec => ImplementsEngine
<1>1. Init => Engine!Init
  BY DEF Init, Engine!Init, Fields
<1>2. HostInv /\ [Next]_vars => [Engine!Next]_(Engine!vars)
  BY EngineStep
<1>. QED
  BY <1>1, <1>2, HostInvariant, PTL DEF Spec, ImplementsEngine, Engine!Spec

=============================================================================
