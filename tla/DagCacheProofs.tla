--------------------------- MODULE DagCacheProofs ---------------------------
(***************************************************************************)
(* Proofs about DagCache, for any number of threads, devices, epochs,      *)
(* buffers and failures.                                                   *)
(***************************************************************************)
EXTENDS DagCache, TLAPS

\* A thread that is replacing the DAG of its device, and an entry that get_dag
\* would return at once.
Working(t) == th[t] \in {"light", "malloc_dag", "malloc_cache"}
Fresh(d)   == cache[d].epoch = job_epoch /\ cache[d].d_dag # None

\* A thread at work on an entry holds the entry's mutex.
LockInv == \A t \in Threads : Working(t) => entry_mutex[Device(t)] = t

\* Entries are replaced only when they are not fresh, and searched only when
\* they are.
EntryInv ==
  /\ \A d \in Devices : cache[d].epoch = None <=> cache[d].d_dag = None
  /\ \A t \in Threads :
       /\ th[t] # "idle" => job_epoch \in Epochs
       /\ Working(t) => ~Fresh(Device(t))
       /\ th[t] = "search" => Fresh(Device(t)) /\ dag[t] = cache[Device(t)].d_dag

\* What is allocated while an entry is being replaced: not the old DAG any more,
\* and the new one as soon as there is one.
MemoryInv ==
  \A t \in Threads :
    /\ th[t] = "malloc_dag" =>
         cache[Device(t)].d_dag \notin allocated[Device(t)]
    /\ th[t] = "malloc_cache" =>
         /\ dag[t] \in allocated[Device(t)]
         /\ \A a \in allocated[Device(t)] :
              a = dag[t] \/ a # cache[Device(t)].d_dag

\* Except between the cudaFree of the old DAG and the update, an entry that names
\* allocated memory names a DAG of its epoch, unless making that one failed; and it
\* does name allocated memory, if any, while nothing has failed.
Settled(d) ==
  \A t \in Threads : Device(t) = d => th[t] \notin {"malloc_dag", "malloc_cache"}

Right(d) ==
  cache[d].d_dag \in allocated[d] \ unmade[d] =>
    content[d][cache[d].d_dag] = cache[d].epoch

Named(d) == cache[d].d_dag # None => cache[d].d_dag \in allocated[d]

LiveInv == \A d \in Devices : Settled(d) => Right(d) /\ (failures = 0 => Named(d))

DagInv ==
  /\ TypeOK /\ LockInv /\ EntryInv /\ MemoryInv /\ LiveInv
  /\ NoDagLeaked /\ NoMutexLeftBehind

-----------------------------------------------------------------------------

LEMMA DeviceType == \A t \in Threads : Device(t) \in Devices
  BY DEF Device, Devices

\* Two threads are never at work on one device.
LEMMA OneWorker ==
  ASSUME LockInv, NEW t \in Threads, NEW u \in Threads,
         Working(t), Working(u), Device(t) = Device(u)
  PROVE  t = u
  BY DEF LockInv

LEMMA TypeInit == Init => TypeOK
<1> SUFFICES ASSUME Init PROVE TypeOK
  OBVIOUS
<1>1. /\ th \in [Threads -> {"idle"}] /\ dag \in [Threads -> {None}]
      /\ entry_mutex \in [Devices -> {None}]
      /\ allocated \in [Devices -> {{}}]
  BY DEF Init
<1>2. cache \in [Devices -> [epoch : {None}, d_dag : {None}]]
  BY DEF Init
<1>3. content \in [Devices -> [Addresses -> {None}]]
  BY DEF Init
<1>4. failures \in 0..MaxFailures
  BY DagAssumption DEF Init
<1>. QED
  BY <1>1, <1>2, <1>3, <1>4 DEF Init, TypeOK

LEMMA TypeStep == TypeOK /\ [Next]_vars => TypeOK'
<1> SUFFICES ASSUME TypeOK, [Next]_vars PROVE TypeOK'
  OBVIOUS
<1> USE DagAssumption, DeviceType
<1> USE DEF TypeOK, At, Unlock, Free, Fails, mapVars, entryVars, memVars
<1>1. ASSUME NEW e \in Epochs, SetJob(e) PROVE TypeOK'
  BY <1>1 DEF SetJob
<1>2. ASSUME NEW t \in Threads, ThreadStep(t) PROVE TypeOK'
  <2>1. CASE LockMap(t)
    BY <2>1 DEF LockMap
  <2>2. CASE Emplaced(t)
    BY <2>2 DEF Emplaced
  <2>3. CASE LookedUp(t)
    BY <2>3 DEF LookedUp
  <2>4. CASE Hit(t)
    BY <2>4 DEF Hit, Entry
  <2>5. CASE Miss(t)
    BY <2>5 DEF Miss
  <2>6. CASE FreeOldDag(t)
    BY <2>6 DEF FreeOldDag
  <2>7. CASE LightCacheFails(t)
    BY <2>7 DEF LightCacheFails
  <2>8. CASE MallocDag(t)
    BY <2>8 DEF MallocDag
  <2>9. CASE MallocDagFails(t)
    BY <2>9 DEF MallocDagFails
  <2>10. CASE GenerateDag(t)
    BY <2>10 DEF GenerateDag, UpdateEntry
  <2>13. CASE GenerateFails(t)
    <3>1. content' \in [Devices -> [Addresses -> Epochs \cup {None}]]
      <4>1. PICK c \in {content[Device(t)][dag[t]], None} :
              content' = [content EXCEPT ![Device(t)][dag[t]] = c]
        BY <2>13 DEF GenerateFails
      <4>2. CASE dag[t] \in Addresses
        BY <4>1, <4>2
      <4>3. CASE dag[t] \notin Addresses
        <5>1. [content[Device(t)] EXCEPT ![dag[t]] = c] = content[Device(t)]
          BY <4>3
        <5>. QED
          BY <4>1, <5>1
      <4>. QED
        BY <4>2, <4>3
    <3>. QED
      BY <2>13, <3>1 DEF GenerateFails, UpdateEntry
  <2>11. CASE MallocCacheFails(t)
    BY <2>11 DEF MallocCacheFails
  <2>12. CASE SearchReturns(t)
    BY <2>12 DEF SearchReturns
  <2>. QED
    BY <1>2, <2>1, <2>2, <2>3, <2>4, <2>5, <2>6, <2>7, <2>8, <2>9, <2>10,
       <2>11, <2>12, <2>13 DEF ThreadStep
<1>3. ASSUME NEW t \in Threads, LookupCrashes(t) PROVE TypeOK'
  BY <1>3 DEF LookupCrashes
<1>4. CASE UNCHANGED vars
  BY <1>4 DEF vars
<1>. QED
  BY <1>1, <1>2, <1>3, <1>4 DEF Next, Crashed

-----------------------------------------------------------------------------

\* A step of one thread leaves the others, and the other devices, alone.
LEMMA OthersUntouched ==
  ASSUME TypeOK, NEW t \in Threads, ThreadStep(t)
  PROVE  /\ job_epoch' = job_epoch
         /\ \A u \in Threads : u # t => th'[u] = th[u] /\ dag'[u] = dag[u]
         /\ \A d \in Devices : d # Device(t) =>
              /\ cache'[d] = cache[d] /\ allocated'[d] = allocated[d]
              /\ content'[d] = content[d] /\ unmade'[d] = unmade[d]
<1> USE DEF TypeOK, At, Free, mapVars, entryVars, memVars
<1>1. CASE LockMap(t) \/ Emplaced(t) \/ LookedUp(t) \/ Hit(t) \/ Miss(t) \/ SearchReturns(t)
  BY <1>1 DEF LockMap, Emplaced, LookedUp, Hit, Miss, SearchReturns
<1>2. CASE FreeOldDag(t)
  BY <1>2 DEF FreeOldDag
<1>3. CASE LightCacheFails(t) \/ MallocDagFails(t)
  BY <1>3 DEF LightCacheFails, MallocDagFails
<1>4. CASE MallocDag(t)
  BY <1>4 DEF MallocDag
<1>5. CASE GenerateDag(t) \/ GenerateFails(t)
  BY <1>5 DEF GenerateDag, GenerateFails, UpdateEntry
<1>6. CASE MallocCacheFails(t)
  BY <1>6 DEF MallocCacheFails
<1>. QED
  BY <1>1, <1>2, <1>3, <1>4, <1>5, <1>6 DEF ThreadStep

LEMMA LockStep == TypeOK /\ LockInv /\ [Next]_vars => LockInv'
<1> SUFFICES ASSUME TypeOK, LockInv, [Next]_vars, NEW u \in Threads, Working(u)'
             PROVE  entry_mutex'[Device(u)] = u
  BY DEF LockInv, Device
<1> USE DeviceType
<1>1. CASE UNCHANGED <<th, entry_mutex>>
  BY <1>1 DEF LockInv, Working
<1>2. ASSUME NEW e \in Epochs, SetJob(e) PROVE FALSE
  BY <1>2 DEF SetJob, Working
<1>3. ASSUME NEW t \in Threads, ThreadStep(t)
      PROVE  entry_mutex'[Device(u)] = u
  <2>1. ASSUME UNCHANGED entry_mutex, Working(t)' => Working(t)
        PROVE  entry_mutex'[Device(u)] = u
    <3>1. u # t => th'[u] = th[u]
      BY <1>3, OthersUntouched
    <3>. QED
      BY <2>1, <3>1 DEF LockInv, Working
  <2>2. ASSUME Unlock(t), Working(t), At(t, th[t], "idle") \/ At(t, th[t], "search")
        PROVE  entry_mutex'[Device(u)] = u
    <3>1. u # t /\ Working(u)
      BY <2>2 DEF At, TypeOK, Working
    <3>2. Device(u) # Device(t)
      BY <2>2, <3>1, OneWorker
    <3>. QED
      BY <2>2, <3>1, <3>2 DEF Unlock, LockInv, TypeOK
  <2>3. CASE LockMap(t) \/ Emplaced(t) \/ LookedUp(t) \/ Hit(t) \/ SearchReturns(t)
    BY <2>1, <2>3 DEF LockMap, Emplaced, LookedUp, Hit, SearchReturns, At, Working,
       TypeOK, entryVars
  <2>4. CASE Miss(t)
    <3>1. \A w \in Threads : Working(w) => Device(w) # Device(t)
      BY <2>4, DagAssumption DEF Miss, LockInv
    <3>. QED
      BY <2>4, <3>1 DEF Miss, At, LockInv, Working, TypeOK
  <2>5. CASE FreeOldDag(t) \/ MallocDag(t)
    BY <2>1, <2>5 DEF FreeOldDag, MallocDag, At, Working, TypeOK, entryVars
  <2>6. CASE LightCacheFails(t) \/ MallocDagFails(t) \/ MallocCacheFails(t)
    BY <2>2, <2>6 DEF LightCacheFails, MallocDagFails, MallocCacheFails, At, Working
  <2>7. CASE GenerateDag(t) \/ GenerateFails(t)
    BY <2>2, <2>7 DEF GenerateDag, GenerateFails, UpdateEntry, At, Working
  <2>. QED
    BY <1>3, <2>3, <2>4, <2>5, <2>6, <2>7 DEF ThreadStep
<1>4. ASSUME NEW t \in Threads, LookupCrashes(t)
      PROVE  entry_mutex'[Device(u)] = u
  BY <1>1, <1>4 DEF LookupCrashes, entryVars
<1>5. CASE UNCHANGED vars
  BY <1>1, <1>5 DEF vars, entryVars
<1>. QED
  BY <1>2, <1>3, <1>4, <1>5 DEF Next, Crashed

-----------------------------------------------------------------------------

LEMMA EntryStep == TypeOK /\ LockInv /\ EntryInv /\ MemoryInv /\ [Next]_vars => EntryInv'
<1> SUFFICES ASSUME TypeOK, LockInv, EntryInv, MemoryInv, [Next]_vars PROVE EntryInv'
  OBVIOUS
<1> USE DeviceType, DagAssumption
<1>1. CASE UNCHANGED <<th, job_epoch, dag, cache>>
  BY <1>1 DEF EntryInv, Working, Fresh, Device
<1>2. ASSUME NEW e \in Epochs, SetJob(e) PROVE EntryInv'
  BY <1>2 DEF SetJob, EntryInv, Working, entryVars
<1>3. ASSUME NEW t \in Threads, ThreadStep(t) PROVE EntryInv'
  <2> DEFINE d == Device(t)
  <2>1. /\ job_epoch' = job_epoch
        /\ \A u \in Threads : u # t => th'[u] = th[u] /\ dag'[u] = dag[u]
    BY <1>3, OthersUntouched
  <2>2. CASE UNCHANGED cache
    <3>1. \A e \in Devices : Fresh(e)' <=> Fresh(e)
      BY <2>1, <2>2 DEF Fresh
    <3>2. SUFFICES /\ th'[t] # "idle" => job_epoch \in Epochs
                   /\ Working(t)' => ~Fresh(d)
                   /\ th'[t] = "search" => Fresh(d) /\ dag'[t] = cache[d].d_dag
      BY <2>1, <2>2, <3>1 DEF EntryInv, Working, Device
    <3>4. CASE LockMap(t) \/ Emplaced(t) \/ LookedUp(t) \/ SearchReturns(t)
      BY <3>4 DEF LockMap, Emplaced, LookedUp, SearchReturns, At, TypeOK, EntryInv,
         Working
    <3>5. CASE Hit(t)
      BY <3>5 DEF Hit, At, TypeOK, EntryInv, Working, Fresh, Entry
    <3>6. CASE Miss(t)
      BY <3>6 DEF Miss, At, TypeOK, EntryInv, Working, Fresh, Entry
    <3>7. CASE FreeOldDag(t) \/ MallocDag(t)
      BY <3>7 DEF FreeOldDag, MallocDag, At, TypeOK, EntryInv, Working
    <3>8. CASE LightCacheFails(t) \/ MallocDagFails(t) \/ MallocCacheFails(t)
      BY <3>8 DEF LightCacheFails, MallocDagFails, MallocCacheFails, At, TypeOK, Working
    <3>9. CASE GenerateDag(t) \/ GenerateFails(t)
      <4>1. /\ th[t] = "malloc_cache" /\ th'[t] = "search"
            /\ cache'[d] = [epoch |-> job_epoch, d_dag |-> dag[t]]
            /\ dag' = dag
        BY <3>9 DEF GenerateDag, GenerateFails, UpdateEntry, At, TypeOK
      <4>2. job_epoch \in Epochs /\ dag[t] \in Addresses
        BY <4>1 DEF EntryInv, MemoryInv, TypeOK
      <4>. QED
        BY <2>2, <4>1, <4>2 DEF Fresh, EntryInv, Working
    <3>. QED
      BY <1>3, <3>4, <3>5, <3>6, <3>7, <3>8, <3>9 DEF ThreadStep
  <2>3. CASE GenerateDag(t) \/ GenerateFails(t)
    <3>1. /\ th[t] = "malloc_cache" /\ th'[t] = "search" /\ dag' = dag
          /\ cache'[d] = [epoch |-> job_epoch, d_dag |-> dag[t]]
          /\ \A e \in Devices : e # d => cache'[e] = cache[e]
      BY <2>3 DEF GenerateDag, GenerateFails, UpdateEntry, At, TypeOK
    <3>2. job_epoch \in Epochs /\ dag[t] \in Addresses
      BY <3>1 DEF EntryInv, MemoryInv, TypeOK
    <3>3. Working(t) /\ ~Fresh(d)
      BY <3>1 DEF EntryInv, Working
    <3>4. \A u \in Threads : u # t /\ Device(u) = d => ~Working(u) /\ th[u] # "search"
      BY <3>3, OneWorker DEF EntryInv
    <3>5. \A e \in Devices : cache'[e].epoch = None <=> cache'[e].d_dag = None
      BY <3>1, <3>2 DEF EntryInv
    <3>6. Fresh(d)' /\ \A e \in Devices : e # d => (Fresh(e)' <=> Fresh(e))
      BY <2>1, <3>1, <3>2 DEF Fresh
    <3>. QED
      BY <2>1, <3>1, <3>2, <3>4, <3>5, <3>6 DEF EntryInv, Working, Device
  <2>. QED
    BY <1>3, <2>2, <2>3 DEF ThreadStep, LockMap, Emplaced, LookedUp, Hit, Miss,
       FreeOldDag, LightCacheFails, MallocDag, MallocDagFails, MallocCacheFails,
       SearchReturns, entryVars
<1>4. ASSUME NEW t \in Threads, LookupCrashes(t) PROVE EntryInv'
  BY <1>1, <1>4 DEF LookupCrashes, entryVars
<1>5. CASE UNCHANGED vars
  BY <1>1, <1>5 DEF vars, entryVars
<1>. QED
  BY <1>2, <1>3, <1>4, <1>5 DEF Next, Crashed

-----------------------------------------------------------------------------

\* What a step of thread t must still be shown to keep of MemoryInv.
MemoryOf(u) ==
  /\ th[u] = "malloc_dag" =>
       cache[Device(u)].d_dag \notin allocated[Device(u)]
  /\ th[u] = "malloc_cache" =>
       /\ dag[u] \in allocated[Device(u)]
       /\ \A a \in allocated[Device(u)] :
            a = dag[u] \/ a # cache[Device(u)].d_dag

LEMMA MemoryStep == TypeOK /\ LockInv /\ MemoryInv /\ [Next]_vars => MemoryInv'
<1> SUFFICES ASSUME TypeOK, LockInv, MemoryInv, [Next]_vars, NEW u \in Threads
             PROVE  MemoryOf(u)'
  BY DEF MemoryInv, MemoryOf, Device
<1>0. MemoryOf(u)
  BY DEF MemoryInv, MemoryOf
<1> USE DeviceType
<1>1. CASE UNCHANGED <<th, dag, cache, allocated>>
  BY <1>0, <1>1 DEF MemoryOf, Device
<1>2. ASSUME NEW e \in Epochs, SetJob(e) PROVE MemoryOf(u)'
  BY <1>2 DEF SetJob, MemoryOf
<1>3. ASSUME NEW t \in Threads, ThreadStep(t) PROVE MemoryOf(u)'
  <2>1. CASE u # t /\ Device(u) # Device(t)
    BY <1>0, <1>3, <2>1, OthersUntouched DEF MemoryOf, Device
  <2>2. CASE u # t /\ Device(u) = Device(t)
    <3>1. SUFFICES ASSUME Working(u) PROVE MemoryOf(u)'
      BY <1>3, <2>2, OthersUntouched DEF MemoryOf, Working
    <3>2. ~Working(t)
      BY <2>2, <3>1, OneWorker
    <3>3. UNCHANGED <<cache, allocated>>
      BY <1>3, <3>2 DEF ThreadStep, Working, LockMap, Emplaced, LookedUp, Hit, Miss,
         FreeOldDag, LightCacheFails, MallocDag, MallocDagFails, GenerateDag,
         GenerateFails, UpdateEntry,
         MallocCacheFails, SearchReturns, At, entryVars, memVars
    <3>. QED
      BY <1>0, <1>3, <2>2, <3>3, OthersUntouched DEF MemoryOf, Device
  <2>3. CASE u = t
    <3>1. CASE FreeOldDag(t)
      <4>1. /\ th'[t] = "malloc_dag" /\ cache' = cache
            /\ allocated'[Device(t)] = allocated[Device(t)] \ {cache[Device(t)].d_dag}
        BY <3>1 DEF FreeOldDag, At, Free, Entry, TypeOK, entryVars
      <4>. QED
        BY <2>3, <4>1 DEF MemoryOf, Device
    <3>2. CASE MallocDag(t)
      <4>1. PICK a \in Room[Device(t)] \ allocated[Device(t)] :
              /\ allocated' = [allocated EXCEPT ![Device(t)] = @ \cup {a}]
              /\ dag' = [dag EXCEPT ![t] = a]
        BY <3>2 DEF MallocDag
      <4>2. /\ th[t] = "malloc_dag" /\ th'[t] = "malloc_cache" /\ cache' = cache
            /\ dag'[t] = a
            /\ allocated'[Device(t)] = allocated[Device(t)] \cup {a}
        BY <3>2, <4>1 DEF MallocDag, At, TypeOK, entryVars
      <4>. QED
        BY <1>0, <2>3, <4>2 DEF MemoryOf, Device
    <3>3. SUFFICES ASSUME ~FreeOldDag(t), ~MallocDag(t)
                   PROVE  th'[t] \notin {"malloc_dag", "malloc_cache"}
      BY <2>3, <3>1, <3>2 DEF MemoryOf
    <3>4. CASE LockMap(t) \/ Emplaced(t) \/ LookedUp(t) \/ Hit(t) \/ Miss(t)
      BY <3>4 DEF LockMap, Emplaced, LookedUp, Hit, Miss, At, TypeOK
    <3>5. CASE LightCacheFails(t) \/ MallocDagFails(t) \/ MallocCacheFails(t)
      BY <3>5 DEF LightCacheFails, MallocDagFails, MallocCacheFails, At, TypeOK
    <3>6. CASE GenerateDag(t) \/ GenerateFails(t) \/ SearchReturns(t)
      BY <3>6 DEF GenerateDag, GenerateFails, UpdateEntry, SearchReturns, At, TypeOK
    <3>. QED
      BY <1>3, <3>3, <3>4, <3>5, <3>6 DEF ThreadStep
  <2>. QED
    BY <2>1, <2>2, <2>3
<1>4. ASSUME NEW t \in Threads, LookupCrashes(t) PROVE MemoryOf(u)'
  BY <1>1, <1>4 DEF LookupCrashes, entryVars, memVars
<1>5. CASE UNCHANGED vars
  BY <1>1, <1>5 DEF vars, entryVars, memVars
<1>. QED
  BY <1>2, <1>3, <1>4, <1>5 DEF Next, Crashed

-----------------------------------------------------------------------------

LEMMA LeakStep == TypeOK /\ LockInv /\ MemoryInv /\ NoDagLeaked /\ [Next]_vars => NoDagLeaked'
<1> SUFFICES ASSUME TypeOK, LockInv, MemoryInv, NoDagLeaked, [Next]_vars,
                    NEW d \in Devices, NEW a \in allocated'[d], a # cache'[d].d_dag
             PROVE  \E u \in Threads : Device(u) = d /\ th'[u] = "malloc_cache" /\ dag'[u] = a
  BY DEF NoDagLeaked, Device
<1> DEFINE Owned == \E u \in Threads : Device(u) = d /\ th'[u] = "malloc_cache" /\ dag'[u] = a
<1> USE DeviceType
<1>0. ASSUME a \in allocated[d], a # cache[d].d_dag
      PROVE  \E u \in Threads : Device(u) = d /\ th[u] = "malloc_cache" /\ dag[u] = a
  BY <1>0 DEF NoDagLeaked
<1>1. CASE UNCHANGED <<th, dag, cache, allocated>>
  BY <1>0, <1>1
<1>2. ASSUME NEW e \in Epochs, SetJob(e) PROVE Owned
  BY <1>0, <1>2 DEF SetJob, entryVars, memVars
<1>3. ASSUME NEW t \in Threads, ThreadStep(t) PROVE Owned
  <2>1. \A u \in Threads : u # t => th'[u] = th[u] /\ dag'[u] = dag[u]
    BY <1>3, OthersUntouched
  <2>2. CASE d # Device(t)
    BY <1>0, <1>3, <2>1, <2>2, OthersUntouched
  <2>3. CASE d = Device(t) /\ th[t] # "malloc_cache" /\ allocated'[d] \subseteq allocated[d]
              /\ cache' = cache
    BY <1>0, <2>1, <2>3
  <2>4. CASE d = Device(t) /\ MallocDag(t)
    <3>1. PICK b \in Room[Device(t)] \ allocated[Device(t)] :
            /\ allocated' = [allocated EXCEPT ![Device(t)] = @ \cup {b}]
            /\ dag' = [dag EXCEPT ![t] = b]
      BY <2>4 DEF MallocDag
    <3>2. /\ th[t] = "malloc_dag" /\ th'[t] = "malloc_cache" /\ cache' = cache
          /\ dag'[t] = b /\ allocated'[d] = allocated[d] \cup {b}
      BY <2>4, <3>1 DEF MallocDag, At, TypeOK, entryVars
    <3>3. CASE a = b
      BY <2>4, <3>2, <3>3
    <3>4. CASE a # b
      BY <1>0, <2>1, <3>2, <3>4
    <3>. QED
      BY <3>3, <3>4
  <2>5. CASE d = Device(t) /\ th[t] = "malloc_cache"
    <3>1. \A x \in allocated[d] : x = dag[t] \/ x # cache[d].d_dag
      BY <2>5 DEF MemoryInv
    <3>2. \A u \in Threads : Device(u) = d /\ th[u] = "malloc_cache" => u = t
      BY <2>5, OneWorker DEF Working
    <3>3. \A x \in allocated[d] : x = dag[t]
      BY <3>1, <3>2 DEF NoDagLeaked
    <3>4. CASE GenerateDag(t) \/ GenerateFails(t)
      BY <2>5, <3>3, <3>4 DEF GenerateDag, GenerateFails, UpdateEntry, TypeOK
    <3>5. CASE MallocCacheFails(t)
      BY <2>5, <3>3, <3>5 DEF MallocCacheFails, Free, TypeOK
    <3>. QED
      BY <1>3, <2>5, <3>4, <3>5 DEF ThreadStep, At, LockMap, Emplaced, LookedUp, Hit,
         Miss, FreeOldDag, LightCacheFails, MallocDag, MallocDagFails, SearchReturns
  <2>6. CASE d = Device(t) /\ th[t] # "malloc_cache" /\ ~MallocDag(t)
    <3>1. CASE FreeOldDag(t)
      BY <2>3, <2>6, <3>1 DEF FreeOldDag, Free, TypeOK, entryVars
    <3>2. CASE ~FreeOldDag(t)
      BY <1>3, <2>3, <2>6, <3>2 DEF ThreadStep, LockMap, Emplaced, LookedUp, Hit, Miss,
         LightCacheFails, MallocDagFails, GenerateDag, GenerateFails, UpdateEntry,
         MallocCacheFails,
         SearchReturns, At, entryVars, memVars
    <3>. QED
      BY <3>1, <3>2
  <2>. QED
    BY <2>2, <2>4, <2>5, <2>6
<1>4. ASSUME NEW t \in Threads, LookupCrashes(t) PROVE Owned
  BY <1>1, <1>4 DEF LookupCrashes, entryVars, memVars
<1>5. CASE UNCHANGED vars
  BY <1>1, <1>5 DEF vars, entryVars, memVars
<1>. QED
  BY <1>2, <1>3, <1>4, <1>5 DEF Next, Crashed

-----------------------------------------------------------------------------

LEMMA LiveStep == TypeOK /\ LockInv /\ MemoryInv /\ LiveInv /\ [Next]_vars => LiveInv'
<1> DEFINE Ok(d) == Right(d) /\ (failures = 0 => Named(d))
<1> SUFFICES ASSUME TypeOK, LockInv, MemoryInv, LiveInv, [Next]_vars,
                    NEW d \in Devices, Settled(d)'
             PROVE  Ok(d)'
  BY DEF LiveInv
<1> USE DeviceType
<1>1. CASE UNCHANGED <<cache, allocated, content,
unmade>> /\ (failures' = 0 => failures = 0)
              /\ (Settled(d)' => Settled(d))
  BY <1>1 DEF LiveInv, Right, Named
<1>2. ASSUME NEW e \in Epochs, SetJob(e) PROVE Ok(d)'
  BY <1>1, <1>2 DEF SetJob, Settled, entryVars, memVars
<1>3. ASSUME NEW t \in Threads, ThreadStep(t) PROVE Ok(d)'
  <2>0. failures' = 0 => failures = 0
    BY <1>3, DagAssumption DEF TypeOK, ThreadStep, LockMap, Emplaced, LookedUp, Hit, Miss,
       FreeOldDag, LightCacheFails, MallocDag, MallocDagFails, GenerateDag,
       GenerateFails, UpdateEntry,
       MallocCacheFails, SearchReturns, Fails
  <2>1. CASE GenerateDag(t) /\ d = Device(t)
    <3>1. /\ th[t] = "malloc_cache"
          /\ cache'[d] = [epoch |-> job_epoch, d_dag |-> dag[t]]
          /\ allocated' = allocated
      BY <2>1 DEF GenerateDag, GenerateFails, UpdateEntry, At, TypeOK
    <3>2. dag[t] \in allocated[d] /\ dag[t] \in Addresses
      BY <2>1, <3>1 DEF MemoryInv, TypeOK
    <3>3. content'[d][dag[t]] = job_epoch
      BY <2>1, <3>2 DEF GenerateDag, TypeOK
    <3>. QED
      BY <3>1, <3>2, <3>3 DEF Right, Named
  <2>8. CASE GenerateFails(t) /\ d = Device(t)
    <3>1. /\ th[t] = "malloc_cache" /\ failures' # 0
          /\ cache'[d] = [epoch |-> job_epoch, d_dag |-> dag[t]]
      BY <2>8, DagAssumption DEF GenerateFails, UpdateEntry, At, Fails, TypeOK
    <3>2. dag[t] \in unmade'[d]
      BY <2>8 DEF GenerateFails, TypeOK
    <3>. QED
      BY <3>1, <3>2 DEF Right
  <2>2. CASE d # Device(t)
    <3>1. Settled(d)
      BY <1>3, <2>2, OthersUntouched DEF Settled, Device
    <3>. QED
      BY <1>3, <2>0, <2>2, <3>1, OthersUntouched DEF LiveInv, Right, Named
  <2>3. CASE LightCacheFails(t) /\ d = Device(t)
    <3>1. UNCHANGED <<cache, allocated, content, unmade>> /\ th[t] = "light"
      BY <2>3 DEF LightCacheFails, At, memVars
    <3>2. Settled(d)
      BY <1>3, <3>1, OthersUntouched DEF Settled, Device
    <3>. QED
      BY <1>1, <2>0, <3>1, <3>2
  <2>4. CASE MallocDagFails(t) /\ d = Device(t)
    <3>1. cache'[d].d_dag \notin allocated'[d] /\ failures' # 0
      BY <2>4, DagAssumption DEF MallocDagFails, At, Fails, MemoryInv, TypeOK, memVars
    <3>. QED
      BY <3>1 DEF Right
  <2>5. CASE MallocCacheFails(t) /\ d = Device(t)
    <3>1. th[t] = "malloc_cache" /\ cache' = cache /\ failures' # 0
          /\ allocated'[d] = allocated[d] \ {dag[t]}
      BY <2>5, DagAssumption DEF MallocCacheFails, At, Fails, Free, TypeOK
    <3>2. cache'[d].d_dag \notin allocated'[d]
      BY <2>5, <3>1 DEF MemoryInv
    <3>. QED
      BY <3>1, <3>2 DEF Right
  <2>6. CASE (FreeOldDag(t) \/ MallocDag(t)) /\ d = Device(t)
    <3>1. th'[t] \in {"malloc_dag", "malloc_cache"}
      BY <2>6 DEF FreeOldDag, MallocDag, At, TypeOK
    <3>. QED
      BY <2>6, <3>1 DEF Settled, Device
  <2>7. CASE LockMap(t) \/ Emplaced(t) \/ LookedUp(t) \/ Hit(t) \/ Miss(t) \/ SearchReturns(t)
    <3>1. UNCHANGED <<cache, allocated, content, unmade>>
      BY <2>7 DEF LockMap, Emplaced, LookedUp, Hit, Miss, SearchReturns, entryVars,
         memVars
    <3>2. th[t] \notin {"malloc_dag", "malloc_cache"}
      BY <2>7 DEF LockMap, Emplaced, LookedUp, Hit, Miss, SearchReturns, At
    <3>3. Settled(d)
      BY <1>3, <3>2, OthersUntouched DEF Settled, Device
    <3>. QED
      BY <1>1, <2>0, <3>1, <3>3
  <2>. QED
    BY <1>3, <2>1, <2>2, <2>3, <2>4, <2>5, <2>6, <2>7, <2>8 DEF ThreadStep
<1>4. ASSUME NEW t \in Threads, LookupCrashes(t) PROVE Ok(d)'
  BY <1>1, <1>4 DEF LookupCrashes, Settled, Device, entryVars, memVars
<1>5. CASE UNCHANGED vars
  BY <1>1, <1>5 DEF vars, Settled, Device, entryVars, memVars
<1>. QED
  BY <1>2, <1>3, <1>4, <1>5 DEF Next, Crashed

-----------------------------------------------------------------------------

\* A step takes a mutex only into the stretch it guards, and gives it back on the
\* way out of it.
LEMMA MutexStep ==
  TypeOK /\ LockInv /\ NoMutexLeftBehind /\ [Next]_vars => NoMutexLeftBehind'
<1> SUFFICES ASSUME TypeOK, LockInv, NoMutexLeftBehind, [Next]_vars
             PROVE  NoMutexLeftBehind'
  OBVIOUS
<1> USE DeviceType, DagAssumption
<1>1. CASE UNCHANGED <<th, g_dag_mutex, entry_mutex>>
  BY <1>1 DEF NoMutexLeftBehind, Device
<1>2. ASSUME NEW e \in Epochs, SetJob(e) PROVE NoMutexLeftBehind'
  <2>1. /\ g_dag_mutex = None /\ \A d \in Devices : entry_mutex[d] = None
    BY <1>2 DEF SetJob, NoMutexLeftBehind, TypeOK
  <2>. QED
    BY <1>2, <2>1 DEF SetJob, NoMutexLeftBehind, mapVars, entryVars
<1>3. ASSUME NEW t \in Threads, ThreadStep(t) PROVE NoMutexLeftBehind'
  <2>1. \A u \in Threads : u # t => th'[u] = th[u]
    BY <1>3, OthersUntouched
  <2>2. g_dag_mutex' # None => th'[g_dag_mutex'] = "emplace"
    <3>1. CASE LockMap(t)
      BY <3>1 DEF LockMap, At, TypeOK
    <3>2. CASE Emplaced(t)
      BY <3>2 DEF Emplaced
    <3>3. CASE ~LockMap(t) /\ ~Emplaced(t)
      <4>1. g_dag_mutex' = g_dag_mutex /\ th[t] # "emplace"
        BY <1>3, <3>3 DEF ThreadStep, LookedUp, Hit, Miss, FreeOldDag, LightCacheFails,
           MallocDag, MallocDagFails, GenerateDag, GenerateFails, UpdateEntry,
           MallocCacheFails, SearchReturns, At,
           mapVars
      <4>. QED
        BY <2>1, <4>1 DEF NoMutexLeftBehind, TypeOK
    <3>. QED
      BY <3>1, <3>2, <3>3
  <2>3. ASSUME NEW d \in Devices, d # Device(t), entry_mutex'[d] # None
        PROVE  /\ Device(entry_mutex'[d]) = d /\ entry_mutex'[d] \in Threads
               /\ th'[entry_mutex'[d]] \in {"light", "malloc_dag", "malloc_cache"}
    <3>1. entry_mutex'[d] = entry_mutex[d]
      BY <1>3, <2>3 DEF ThreadStep, LockMap, Emplaced, LookedUp, Hit, Miss, FreeOldDag,
         LightCacheFails, MallocDag, MallocDagFails, GenerateDag, GenerateFails,
         UpdateEntry, MallocCacheFails,
         SearchReturns, Unlock, TypeOK, entryVars
    <3>2. Device(entry_mutex[d]) = d /\ entry_mutex[d] # t /\ entry_mutex[d] \in Threads
      BY <2>3, <3>1 DEF NoMutexLeftBehind, TypeOK
    <3>. QED
      BY <2>1, <2>3, <3>1, <3>2 DEF NoMutexLeftBehind
  <2>4. ASSUME entry_mutex'[Device(t)] # None
        PROVE  /\ Device(entry_mutex'[Device(t)]) = Device(t)
               /\ th'[entry_mutex'[Device(t)]] \in {"light", "malloc_dag", "malloc_cache"}
    <3>1. CASE Miss(t) \/ FreeOldDag(t) \/ MallocDag(t)
      <4>1. entry_mutex'[Device(t)] = t
        BY <3>1 DEF Miss, FreeOldDag, MallocDag, LockInv, Working, At, TypeOK, entryVars
      <4>2. th'[t] \in {"light", "malloc_dag", "malloc_cache"}
        BY <3>1 DEF Miss, FreeOldDag, MallocDag, At, TypeOK
      <4>. QED
        BY <4>1, <4>2
    <3>2. CASE \/ LightCacheFails(t) \/ MallocDagFails(t) \/ MallocCacheFails(t)
               \/ GenerateDag(t) \/ GenerateFails(t)
      BY <2>4, <3>2 DEF LightCacheFails, MallocDagFails, MallocCacheFails, GenerateDag,
         GenerateFails, UpdateEntry, Unlock,
         TypeOK
    <3>3. CASE LockMap(t) \/ Emplaced(t) \/ LookedUp(t) \/ Hit(t) \/ SearchReturns(t)
      <4>1. entry_mutex' = entry_mutex /\ ~Working(t)
        BY <3>3 DEF LockMap, Emplaced, LookedUp, Hit, SearchReturns, At, Working,
           entryVars
      <4>2. entry_mutex[Device(t)] \in Threads
        BY <2>4, <4>1 DEF TypeOK
      <4>3. Device(entry_mutex[Device(t)]) = Device(t) /\ Working(entry_mutex[Device(t)])
        BY <2>4, <4>1 DEF NoMutexLeftBehind, Working
      <4>. QED
        BY <2>1, <4>1, <4>2, <4>3 DEF Working
    <3>. QED
      BY <1>3, <3>1, <3>2, <3>3 DEF ThreadStep
  <2>. QED
    BY <2>2, <2>3, <2>4 DEF NoMutexLeftBehind, Device
<1>4. ASSUME NEW t \in Threads, LookupCrashes(t) PROVE NoMutexLeftBehind'
  BY <1>1, <1>4 DEF LookupCrashes, mapVars, entryVars
<1>5. CASE UNCHANGED vars
  BY <1>1, <1>5 DEF vars, mapVars, entryVars
<1>. QED
  BY <1>2, <1>3, <1>4, <1>5 DEF Next, Crashed

-----------------------------------------------------------------------------
(* The theorems.                                                           *)

LEMMA DagInit == Init => DagInv
<1> SUFFICES ASSUME Init PROVE DagInv
  OBVIOUS
<1> USE DeviceType
<1>1. /\ \A t \in Threads : th[t] = "idle"
      /\ \A d \in Devices : cache[d].epoch = None /\ cache[d].d_dag = None /\ allocated[d] = {}
  BY DEF Init
<1>. QED
  BY <1>1, TypeInit DEF DagInv, LockInv, EntryInv, MemoryInv, LiveInv, Right, Named,
     NoDagLeaked, NoMutexLeftBehind, Working, Init

\* The inductive invariant of the DAG cache holds.
THEOREM DagInvariant == Spec => []DagInv
<1>1. Init => DagInv
  BY DagInit
<1>2. DagInv /\ [Next]_vars => DagInv'
  BY TypeStep, LockStep, EntryStep, MemoryStep, LiveStep, LeakStep, MutexStep DEF DagInv
<1>. QED
  BY <1>1, <1>2, PTL DEF Spec

\* get_dag keeps every variable in its type.
THEOREM DagTypeCorrect == Spec => []TypeOK
<1>1. DagInv => TypeOK
  BY DEF DagInv
<1>. QED
  BY <1>1, DagInvariant, PTL

\* Every search works on the DAG of its job's epoch, on allocated memory that holds
\* it, but for two exceptions: after a failure it may be on memory that has been
\* freed, and the generation of the very DAG it searches may have failed.
THEOREM SearchesOwnEpoch == Spec => []SearchHasItsDag
<1>1. DagInv => SearchHasItsDag
  <2> SUFFICES ASSUME DagInv, NEW t \in Threads, th[t] = "search"
               PROVE  /\ failures = 0 => dag[t] \in allocated[Device(t)]
                      /\ dag[t] \in allocated[Device(t)] \ unmade[Device(t)] =>
                           content[Device(t)][dag[t]] = job_epoch
    BY DEF SearchHasItsDag
  <2>1. Device(t) \in Devices /\ Fresh(Device(t)) /\ dag[t] = cache[Device(t)].d_dag
    BY DeviceType DEF DagInv, EntryInv
  <2>2. Settled(Device(t))
    BY <2>1 DEF DagInv, EntryInv, Settled, Working
  <2>. QED
    BY <2>1, <2>2 DEF DagInv, LiveInv, Right, Named, Fresh
<1>. QED
  BY <1>1, DagInvariant, PTL

\* Every mutex that is held is held by a thread of that device between lock and
\* unlock, whatever fails, for any number of threads and devices.
THEOREM MutexesReturned == Spec => []NoMutexLeftBehind
<1>1. DagInv => NoMutexLeftBehind
  BY DEF DagInv
<1>. QED
  BY <1>1, DagInvariant, PTL

\* Device memory is not leaked, whatever fails.
THEOREM NothingLeaked == Spec => []NoDagLeaked
<1>1. DagInv => NoDagLeaked
  BY DEF DagInv
<1>. QED
  BY <1>1, DagInvariant, PTL

\* An entry changes only while it is of another epoch than the job's.
LEMMA GenerateStep ==
  DagInv /\ [Next]_vars =>
    [\A d \in Devices : cache'[d] # cache[d] => cache[d].epoch # job_epoch]_vars
<1> SUFFICES ASSUME DagInv, [Next]_vars, NEW d \in Devices, cache'[d] # cache[d]
             PROVE  cache[d].epoch # job_epoch
  OBVIOUS
<1>1. PICK t \in Threads : ThreadStep(t)
  BY DEF Next, Crashed, SetJob, LookupCrashes, vars, entryVars
<1>2. UpdateEntry(t)
  BY <1>1 DEF ThreadStep, LockMap, Emplaced, LookedUp, Hit, Miss, FreeOldDag,
     LightCacheFails, MallocDag, MallocDagFails, MallocCacheFails, SearchReturns,
     GenerateDag, GenerateFails, entryVars
<1>3. d = Device(t) /\ Working(t) /\ th[t] # "idle"
  BY <1>1, <1>2, OthersUntouched DEF DagInv, UpdateEntry, At, Working
<1>4. job_epoch \in Epochs /\ ~Fresh(d)
  BY <1>3 DEF DagInv, EntryInv
<1>. QED
  BY <1>4, DagAssumption DEF Fresh, DagInv, EntryInv

\* A device whose DAG is up to date does not generate it again.
THEOREM NeverTwice == Spec => GeneratedOnce
<1>. QED
  BY DagInvariant, GenerateStep, PTL DEF Spec, GeneratedOnce
=============================================================================
