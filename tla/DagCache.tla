------------------------------ MODULE DagCache ------------------------------
(***************************************************************************)
(* get_dag (kawpow.cu): the process-wide cache of one DAG per CUDA device. *)
(*                                                                         *)
(* Each mining thread calls get_dag once per job, for the job's epoch.     *)
(* The map of cache entries is guarded by g_dag_mutex where an entry is    *)
(* made, but not where it is looked up again; an entry has a mutex of its  *)
(* own, held while the DAG is replaced.  Two threads may have the same     *)
(* device (nothing keeps the configured list free of repetitions).         *)
(*                                                                         *)
(* DeviceMemory is CUDA's allocator (external): an address is allocated or *)
(* not, may be handed out again once freed, with what was last written     *)
(* there, and cudaMalloc may fail.  So may the copy of the light cache and *)
(* the launch that makes a DAG, which the code does not look at (in detail *)
(* in DagGeneration).  The buffers a search allocates for itself are left  *)
(* out.  A job's epoch stands for its block number and seed.               *)
(***************************************************************************)
EXTENDS Naturals, FiniteSets

CONSTANTS
  Threads,      \* the mining threads, one per configured device entry
  DeviceOf,     \* the device_id each was started with
  Epochs,       \* epochs of the jobs announced
  Addresses,    \* of device memory
  Room,         \* bound: those where each device has room for a DAG
  MaxFailures,  \* bound: allocations and generations that fail
  None          \* nullptr, an unlocked mutex, the epoch of an empty entry

Devices == {DeviceOf[t] : t \in Threads}

ASSUME DagAssumption ==
  /\ DeviceOf \in [Threads -> Devices]
  /\ Room \in [Devices -> SUBSET Addresses]
  /\ MaxFailures \in Nat
  /\ None \notin Threads \cup Epochs \cup Addresses

VARIABLES
  th,            \* where each mining thread is
  job_epoch,     \* the epoch of the job the threads were started for
  dag,           \* the DAG get_dag gave each thread, or is making for it
  keys,          \* the keys of g_dag_caches
  g_dag_mutex,   \* who holds it
  cache,         \* the entries: epoch and d_dag
  entry_mutex,   \* who holds the mutex of each entry
  allocated,     \* per device, the addresses that are allocated
  content,       \* per device and address, the epoch whose whole DAG is there
  unmade,        \* history: the addresses whose last generation failed
  failures,      \* allocations and generations that have failed
  crashed        \* undefined behaviour has brought the process down

mapVars   == <<keys, g_dag_mutex>>
entryVars == <<cache, entry_mutex>>
memVars   == <<allocated, content, unmade>>
vars == <<th, job_epoch, dag, mapVars, entryVars, memVars, failures, crashed>>

Device(t)    == DeviceOf[t]
Entry(t)     == cache[Device(t)]
Inserting(t) == th[t] = "emplace" /\ Device(t) \notin keys

Init ==
  /\ th = [t \in Threads |-> "idle"]
  /\ job_epoch = None
  /\ dag = [t \in Threads |-> None]
  /\ keys = {} /\ g_dag_mutex = None
  /\ cache = [d \in Devices |-> [epoch |-> None, d_dag |-> None]]
  /\ entry_mutex = [d \in Devices |-> None]
  /\ allocated = [d \in Devices |-> {}]
  /\ content = [d \in Devices |-> [a \in Addresses |-> None]]
  /\ unmade = [d \in Devices |-> {}]
  /\ failures = 0 /\ crashed = FALSE

-----------------------------------------------------------------------------

At(t, from, to) == ~crashed /\ th[t] = from /\ th' = [th EXCEPT ![t] = to]

Unlock(t) == entry_mutex' = [entry_mutex EXCEPT ![Device(t)] = None]
Free(t, a) == allocated' = [allocated EXCEPT ![Device(t)] = @ \ {a}]
Fails == failures < MaxFailures /\ failures' = failures + 1

\* set_job: every thread of the previous job has been joined.
SetJob(e) ==
  /\ ~crashed /\ \A t \in Threads : th[t] = "idle"
  /\ th' = [t \in Threads |-> "call"]
  /\ job_epoch' = e
  /\ dag' = [t \in Threads |-> None]
  /\ UNCHANGED <<mapVars, entryVars, memVars, failures, crashed>>

\* Step 1: lock g_dag_mutex and enter try_emplace ...
LockMap(t) ==
  /\ At(t, "call", "emplace")
  /\ g_dag_mutex = None /\ g_dag_mutex' = t
  /\ UNCHANGED <<job_epoch, dag, keys, entryVars, memVars, failures, crashed>>

\* (Faulty) the entry is made for the thread, not for its device.
EmplacedForThread(t) ==
  /\ At(t, "emplace", "lookup")
  /\ keys' = keys \cup {t}
  /\ g_dag_mutex' = None
  /\ UNCHANGED <<job_epoch, dag, entryVars, memVars, failures, crashed>>

\* ... which adds the key if it is missing; unlock.
Emplaced(t) ==
  /\ At(t, "emplace", "lookup")
  /\ keys' = keys \cup {Device(t)}
  /\ g_dag_mutex' = None
  /\ UNCHANGED <<job_epoch, dag, entryVars, memVars, failures, crashed>>

\* Step 2: g_dag_caches[device_id], without g_dag_mutex, finds the entry.
LookedUp(t) ==
  /\ At(t, "lookup", "lock")
  /\ UNCHANGED <<job_epoch, dag, mapVars, entryVars, memVars, failures, crashed>>

\* A lookup in a map into which another thread is inserting: it finds the
\* entry, as above, or it follows a pointer that is being changed.
LookupCrashes(t) ==
  /\ ~crashed /\ th[t] = "lookup" /\ \E u \in Threads : Inserting(u)
  /\ crashed' = TRUE
  /\ UNCHANGED <<th, job_epoch, dag, mapVars, entryVars, memVars, failures>>

\* (Faulty) the entry is taken for the present one whatever its epoch.
HitAnyEpoch(t) ==
  /\ At(t, "lock", "search")
  /\ entry_mutex[Device(t)] = None
  /\ Entry(t).d_dag # None
  /\ dag' = [dag EXCEPT ![t] = Entry(t).d_dag]
  /\ UNCHANGED <<job_epoch, mapVars, entryVars, memVars, failures, crashed>>

\* Lock the entry: it has the DAG of this epoch, which is returned at once.
Hit(t) ==
  /\ At(t, "lock", "search")
  /\ entry_mutex[Device(t)] = None
  /\ Entry(t).epoch = job_epoch /\ Entry(t).d_dag # None
  /\ dag' = [dag EXCEPT ![t] = Entry(t).d_dag]
  /\ UNCHANGED <<job_epoch, mapVars, entryVars, memVars, failures, crashed>>

\* (Faulty) the entry's mutex is not taken.
MissUnlocked(t) ==
  /\ At(t, "lock", "light")
  /\ ~(Entry(t).epoch = job_epoch /\ Entry(t).d_dag # None)
  /\ UNCHANGED <<job_epoch, dag, mapVars, entryVars, memVars, failures, crashed>>

\* Lock the entry: it has none, or another epoch's.
Miss(t) ==
  /\ At(t, "lock", "light")
  /\ entry_mutex[Device(t)] = None
  /\ ~(Entry(t).epoch = job_epoch /\ Entry(t).d_dag # None)
  /\ entry_mutex' = [entry_mutex EXCEPT ![Device(t)] = t]
  /\ UNCHANGED <<job_epoch, dag, mapVars, cache, memVars, failures, crashed>>

\* The light cache is made; then cudaFree of the old DAG.  (cudaFree of an
\* address that is not allocated is an error nobody looks at.)
FreeOldDag(t) ==
  /\ At(t, "light", "malloc_dag")
  /\ Free(t, Entry(t).d_dag)
  /\ UNCHANGED <<job_epoch, dag, mapVars, entryVars, content, unmade, failures, crashed>>

\* The light cache cannot be allocated: nullptr, the old DAG still in place.
LightCacheFails(t) ==
  /\ At(t, "light", "idle")
  /\ Fails /\ Unlock(t)
  /\ UNCHANGED <<job_epoch, dag, mapVars, cache, memVars, crashed>>

MallocDag(t) ==
  /\ At(t, "malloc_dag", "malloc_cache")
  /\ \E a \in Room[Device(t)] \ allocated[Device(t)] :
       /\ allocated' = [allocated EXCEPT ![Device(t)] = @ \cup {a}]
       /\ dag' = [dag EXCEPT ![t] = a]
  /\ UNCHANGED <<job_epoch, mapVars, entryVars, content, unmade, failures, crashed>>

\* (Faulty) the mutex stays locked.
MallocDagFailsLocked(t) ==
  /\ At(t, "malloc_dag", "idle")
  /\ Fails
  /\ UNCHANGED <<job_epoch, dag, mapVars, entryVars, memVars, crashed>>

\* "GPU DAG Malloc failed": nullptr, and the entry is left as it was.
MallocDagFails(t) ==
  /\ At(t, "malloc_dag", "idle")
  /\ Fails /\ Unlock(t)
  /\ UNCHANGED <<job_epoch, dag, mapVars, cache, memVars, crashed>>

\* (Faulty) the new DAG is not freed.
MallocCacheFailsLeaking(t) ==
  /\ At(t, "malloc_cache", "idle")
  /\ Fails /\ Unlock(t)
  /\ dag' = [dag EXCEPT ![t] = None]
  /\ UNCHANGED <<job_epoch, mapVars, cache, memVars, crashed>>

\* "GPU Cache Malloc failed": the new DAG is freed, the entry left as it was.
MallocCacheFails(t) ==
  /\ At(t, "malloc_cache", "idle")
  /\ Fails /\ Unlock(t)
  /\ Free(t, dag[t])
  /\ dag' = [dag EXCEPT ![t] = None]
  /\ UNCHANGED <<job_epoch, mapVars, cache, content, unmade, crashed>>

\* The device cache is allocated and filled, generate_dag_kernel launched and
\* waited for, the device cache freed again; whatever has come of the DAG, the
\* entry is brought up to date.
UpdateEntry(t) ==
  /\ At(t, "malloc_cache", "search")
  /\ cache' = [cache EXCEPT ![Device(t)] = [epoch |-> job_epoch, d_dag |-> dag[t]]]
  /\ Unlock(t)
  /\ UNCHANGED <<job_epoch, dag, mapVars, allocated, crashed>>

GenerateDag(t) ==
  /\ UpdateEntry(t)
  /\ content' = [content EXCEPT ![Device(t)][dag[t]] = job_epoch]
  /\ unmade' = [unmade EXCEPT ![Device(t)] = @ \ {dag[t]}]
  /\ UNCHANGED failures

\* The copy, the launch or the kernel fails and nobody looks: what is cached is
\* what was at the address before, the DAG of another epoch it may be, or words
\* that are the DAG of none.
GenerateFails(t) ==
  /\ UpdateEntry(t)
  /\ \E c \in {content[Device(t)][dag[t]], None} :
       content' = [content EXCEPT ![Device(t)][dag[t]] = c]
  /\ unmade' = [unmade EXCEPT ![Device(t)] = @ \cup {dag[t]}]
  /\ Fails

\* The search loop is left: the host is stopping this job.
SearchReturns(t) ==
  /\ At(t, "search", "idle")
  /\ UNCHANGED <<job_epoch, dag, mapVars, entryVars, memVars, failures, crashed>>

ThreadStep(t) ==
  \/ LockMap(t) \/ Emplaced(t) \/ LookedUp(t)
  \/ Hit(t) \/ Miss(t) \/ FreeOldDag(t) \/ LightCacheFails(t)
  \/ MallocDag(t) \/ MallocDagFails(t)
  \/ GenerateDag(t) \/ GenerateFails(t) \/ MallocCacheFails(t)
  \/ SearchReturns(t)

Crashed == crashed /\ UNCHANGED vars

Next ==
  \/ \E e \in Epochs : SetJob(e)
  \/ \E t \in Threads : ThreadStep(t) \/ LookupCrashes(t)
  \/ Crashed

Spec == Init /\ [][Next]_vars

\* Every thread is scheduled.  A thread takes each mutex once per job, so a
\* mutex need not be fair for its waiters to get it.
FairSpec == Spec /\ \A t \in Threads : WF_vars(ThreadStep(t))

-----------------------------------------------------------------------------
(* Properties.                                                             *)

TypeOK ==
  /\ th \in [Threads -> {"idle", "call", "emplace", "lookup", "lock", "light",
                         "malloc_dag", "malloc_cache", "search"}]
  /\ job_epoch \in Epochs \cup {None}
  /\ dag \in [Threads -> Addresses \cup {None}]
  /\ keys \subseteq Devices /\ g_dag_mutex \in Threads \cup {None}
  /\ cache \in [Devices -> [epoch : Epochs \cup {None}, d_dag : Addresses \cup {None}]]
  /\ entry_mutex \in [Devices -> Threads \cup {None}]
  /\ allocated \in [Devices -> SUBSET Addresses]
  /\ content \in [Devices -> [Addresses -> Epochs \cup {None}]]
  /\ unmade \in [Devices -> SUBSET Addresses]
  /\ failures \in 0..MaxFailures /\ crashed \in BOOLEAN

\* Every search works on the DAG of its job's epoch, whichever thread of the
\* device made it, for whichever job.  Errors of CUDA that nobody looks at make two
\* exceptions, and no others: once something has failed it may be on memory that has
\* been freed, and on a DAG that was not made, if it was the generation at this very
\* address that failed and has not been repeated.
SearchHasItsDag ==
  \A t \in Threads : th[t] = "search" =>
    /\ failures = 0 => dag[t] \in allocated[Device(t)]
    /\ dag[t] \in allocated[Device(t)] \ unmade[Device(t)] =>
         content[Device(t)][dag[t]] = job_epoch

\* "Clean up old DAG": an entry nobody is working on names no DAG, or one that
\* is allocated, and not one that has been freed.
EntryNamesLiveDag ==
  \A d \in Devices : entry_mutex[d] = None /\ cache[d].d_dag # None =>
    cache[d].d_dag \in allocated[d]

\* Device memory is not leaked, whatever fails: what is allocated is named by
\* the entry or is the new DAG of the thread at work on it.
NoDagLeaked ==
  \A d \in Devices : \A a \in allocated[d] :
    \/ a = cache[d].d_dag
    \/ \E t \in Threads : Device(t) = d /\ th[t] = "malloc_cache" /\ dag[t] = a

\* A device whose DAG is up to date is not made to generate it again: of two
\* threads with one device the second waits for the first and shares its DAG.
GeneratedOnce ==
  [][\A d \in Devices : cache'[d] # cache[d] => cache[d].epoch # job_epoch]_vars

\* Every way out of get_dag gives its mutexes back: one that is held is held by a
\* thread between lock and unlock, of that device, and by one that waits for no
\* other, so that nobody waits for ever.
NoMutexLeftBehind ==
  /\ g_dag_mutex # None => th[g_dag_mutex] = "emplace"
  /\ \A d \in Devices : entry_mutex[d] # None =>
       /\ Device(entry_mutex[d]) = d
       /\ th[entry_mutex[d]] \in {"light", "malloc_dag", "malloc_cache"}

\* get_dag returns to every caller, with a DAG or without.
GetDagReturns ==
  \A t \in Threads : th[t] = "call" ~> th[t] \in {"search", "idle"} \/ crashed
=============================================================================
