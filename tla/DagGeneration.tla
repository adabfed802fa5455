----------------------------- MODULE DagGeneration -----------------------------
(***************************************************************************)
(* The making of one DAG (get_dag from the copy of the light cache to the  *)
(* update of the entry, and generate_dag_kernel): the host launches one    *)
(* GPU thread for each item and more, waits for them, and frees the light  *)
(* cache they read; the GPU threads fill their items word by word, in any  *)
(* interleaving.  It is GenerateDag of DagCache in detail.                 *)
(*                                                                         *)
(* No error code is looked at on the way: a copy, the launch or the device *)
(* may fail, and the DAG counts as made all the same.                      *)
(***************************************************************************)
EXTENDS DagLayout

CONSTANTS
  Epochs,        \* epochs the pool may ask for
  DagParents,    \* DAG_PARENTS, the rounds of a mix
  None           \* what a word holds that nobody has written

ASSUME GenerationAssumption ==
  /\ LayoutAssumption
  /\ Epochs \subseteq Nat
  /\ \A e \in Epochs : CacheNodes(e) # 0     \* as for epochs below 65472
  /\ DagParents \in Nat \ {0}
  /\ None \notin Nat \X Nat

VARIABLES
  epoch,       \* the epoch the DAG is made for
  host,        \* where get_dag is
  at,          \* where each GPU thread is
  i,           \* its loop variable
  reading,     \* the light cache word its parent_ptr (cache_node_ptr) points to
  d_dag,       \* for each word of the DAG: whose word it is, of which item
  d_cache,     \* the light cache is allocated
  failed       \* a copy or the launch has failed, or the device is lost

vars == <<epoch, host, at, i, reading, d_dag, d_cache, failed>>
gpuVars == <<at, i, reading, d_dag>>

Items == DagItems(epoch)
Nodes == CacheNodes(epoch)
Words == 0..(Items * HashWords - 1)

\* A GPU thread is a block and a lane.
GpuThreads == Blocks(Items) \X Lanes
Node(g) == NodeIndex(g[1], g[2])

\* Both buffers have been allocated.
Init ==
  /\ epoch \in Epochs
  /\ host = "upload"
  /\ at = [g \in GpuThreads |-> "none"]
  /\ i = [g \in GpuThreads |-> 0]
  /\ reading = [g \in GpuThreads |-> 0]
  /\ d_dag = [w \in Words |-> None]
  /\ d_cache = TRUE
  /\ failed = FALSE

-----------------------------------------------------------------------------
(* The host.                                                               *)

UploadCache ==
  /\ host = "upload" /\ host' = "launch"
  /\ failed' \in BOOLEAN
  /\ UNCHANGED <<epoch, gpuVars, d_cache>>

Launch ==
  /\ host = "launch" /\ host' = "sync"
  /\ at' = [g \in GpuThreads |-> "enter"]
  /\ UNCHANGED <<epoch, i, reading, d_dag, d_cache, failed>>

LaunchFails ==
  /\ host = "launch" /\ host' = "sync"
  /\ failed' = TRUE
  /\ UNCHANGED <<epoch, gpuVars, d_cache>>

\* (Faulty) The host does not wait.
SyncAtOnce ==
  /\ host = "sync" /\ host' = "free"
  /\ UNCHANGED <<epoch, gpuVars, d_cache, failed>>

\* cudaDeviceSynchronize.
Sync ==
  /\ host = "sync" /\ \A g \in GpuThreads : at[g] \in {"none", "done"}
  /\ host' = "free"
  /\ UNCHANGED <<epoch, gpuVars, d_cache, failed>>

FreeCache ==
  /\ host = "free" /\ host' = "update"
  /\ d_cache' = FALSE
  /\ UNCHANGED <<epoch, gpuVars, failed>>

\* The entry names the DAG from now on, and get_dag returns it.
UpdateEntry ==
  /\ host = "update" /\ host' = "returned"
  /\ UNCHANGED <<epoch, gpuVars, d_cache, failed>>

\* External: an error of the device ends what runs on it.
DeviceLost ==
  /\ host = "sync"
  /\ at' = [g \in GpuThreads |-> "done"]
  /\ failed' = TRUE
  /\ UNCHANGED <<epoch, host, i, reading, d_dag, d_cache>>

-----------------------------------------------------------------------------
(* generate_dag_kernel, for GPU thread g.                                  *)

\* A thread of the last block that has no item.
ReturnAtOnce(g) ==
  /\ at[g] = "enter" /\ ~Generates(Items, g[1], g[2])
  /\ at' = [at EXCEPT ![g] = "done"]
  /\ UNCHANGED <<epoch, host, i, reading, d_dag, d_cache, failed>>

\* The mix starts as a node of the light cache.
StartMix(g) ==
  /\ at[g] = "enter" /\ Generates(Items, g[1], g[2])
  /\ at' = [at EXCEPT ![g] = "mix"]
  /\ reading' = [reading EXCEPT ![g] = ParentPlace(Node(g), Nodes)]
  /\ UNCHANGED <<epoch, host, i, d_dag, d_cache, failed>>

\* One round with the parent that fnv1a_32 has chosen.
MixParent(g) ==
  /\ at[g] = "mix"
  /\ \E h \in 0..(Word - 1) : reading' = [reading EXCEPT ![g] = ParentPlace(h, Nodes)]
  /\ IF i[g] + 1 < DagParents
       THEN i' = [i EXCEPT ![g] = @ + 1] /\ UNCHANGED at
       ELSE i' = [i EXCEPT ![g] = 0] /\ at' = [at EXCEPT ![g] = "write"]
  /\ UNCHANGED <<epoch, host, d_dag, d_cache, failed>>

WriteWord(g) ==
  /\ at[g] = "write"
  /\ d_dag' = [d_dag EXCEPT ![ItemPlace(Node(g)) + i[g]] = <<Node(g), i[g]>>]
  /\ i' = [i EXCEPT ![g] = @ + 1]
  /\ at' = [at EXCEPT ![g] = IF i[g] + 1 < HashWords THEN @ ELSE "done"]
  /\ UNCHANGED <<epoch, host, reading, d_cache, failed>>

HostStep ==
  UploadCache \/ Launch \/ LaunchFails \/ Sync \/ FreeCache \/ UpdateEntry

GpuStep(g) == ReturnAtOnce(g) \/ StartMix(g) \/ MixParent(g) \/ WriteWord(g)

\* get_dag has returned.
Returned == host = "returned" /\ UNCHANGED vars

Next == HostStep \/ DeviceLost \/ (\E g \in GpuThreads : GpuStep(g)) \/ Returned

Spec == Init /\ [][Next]_vars

-----------------------------------------------------------------------------
(* Properties.                                                             *)

TypeOK ==
  /\ epoch \in Epochs
  /\ host \in {"upload", "launch", "sync", "free", "update", "returned"}
  /\ at \in [GpuThreads -> {"none", "enter", "mix", "write", "done"}]
  /\ i \in [GpuThreads -> Nat]
  /\ \A g \in GpuThreads :
       /\ at[g] = "mix" => i[g] < DagParents
       /\ at[g] = "write" => i[g] < HashWords
  /\ reading \in [GpuThreads -> Nat]
  /\ d_dag \in [Words -> {None} \cup (Nat \X (0..(HashWords - 1)))]
  /\ d_cache \in BOOLEAN /\ failed \in BOOLEAN

\* Whatever fnv1a_32 gives and however far the indexes of 32 bits wrap, no GPU
\* thread reads outside the light cache or writes outside the DAG.
AccessesInside ==
  \A g \in GpuThreads :
    /\ at[g] = "mix" =>
         reading[g]..(reading[g] + HashWords - 1)
           \subseteq 0..(CacheItems(epoch) * HashWords - 1)
    /\ at[g] = "write" => DagWords(Node(g)) \subseteq Words

\* The light cache is not freed under a GPU thread that has yet to read it.
CacheOutlivesReads ==
  \A g \in GpuThreads : at[g] \in {"enter", "mix"} => d_cache

Whole ==
  \A n \in 0..(Items - 1), k \in 0..(HashWords - 1) :
    d_dag[n * HashWords + k] = <<n, k>>

\* When get_dag returns and nothing has failed, every item of the DAG is in its
\* place, all of it, if the DAG has at most 2^32 words (16 GiB, epoch 1920), and
\* only then: node_index * HASH_WORDS wraps in a larger one.
WholeUpToWord ==
  host = "returned" /\ ~failed => (Whole <=> Items * HashWords <= Word)
=============================================================================
