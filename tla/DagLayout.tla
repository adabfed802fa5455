------------------------------- MODULE DagLayout -------------------------------
(***************************************************************************)
(* How the DAG of an epoch is laid out (kawpow.cu): its size, the launch   *)
(* of generate_dag_kernel, the words of device memory each of its GPU      *)
(* threads reads and writes, and the words the search reads.  What the     *)
(* words hold is left out: fnv1a_32 is any value below 2^32.               *)
(*                                                                         *)
(* Sizes are counted in items of HashWords words (64 bytes): the code      *)
(* computes bytes in 64 bits and divides.  The kernel computes in 32.      *)
(***************************************************************************)
EXTENDS Integers

CONSTANTS
  Word,                   \* 2^32
  HashWords,              \* words of an item, 16
  BlockSize,              \* GPU threads of a block, 256
  InitialItems,           \* 1 GiB of DAG ...
  GrowthItems,            \* ... and 8 MiB for each epoch
  InitialCacheItems,      \* 16 MiB of light cache ...
  GrowthCacheItems,       \* ... and 256 KiB for each epoch
  SearchItems             \* PROGPOW_LANES * PROGPOW_REGS

\* Word is a multiple of an item's words, which are several; the light cache is
\* never empty.
LayoutAssumption ==
  /\ Word \in Nat \ {0} /\ HashWords \in Nat \ {0, 1} /\ BlockSize \in Nat \ {0}
  /\ Word % HashWords = 0
  /\ InitialItems \in Nat /\ GrowthItems \in Nat
  /\ InitialCacheItems \in Nat \ {0} /\ GrowthCacheItems \in Nat
  /\ SearchItems \in Nat

\* get_kawpow_dag_size and the size of the light cache.
DagItems(epoch)   == InitialItems + epoch * GrowthItems
CacheItems(epoch) == InitialCacheItems + epoch * GrowthCacheItems

-----------------------------------------------------------------------------
(* generate_dag_kernel.                                                    *)

\* (Faulty) The last block is forgotten when it is not full.
BlocksRoundedDown(items) == 0..((items \div BlockSize) - 1)

\* The launch: enough blocks.
Blocks(items) == 0..(((items + BlockSize - 1) \div BlockSize) - 1)
Lanes         == 0..(BlockSize - 1)

\* blockIdx.x * blockDim.x + threadIdx.x, an uint32_t.
NodeIndex(b, x) == (b * BlockSize + x) % Word

\* (Faulty) One more item than there are.
GeneratesOneMore(items, b, x) == NodeIndex(b, x) <= items % Word

\* The threads that do not return at once; num_dag_items is an uint32_t too.
Generates(items, b, x) == NodeIndex(b, x) < items % Word

\* d_dag + node_index * HASH_WORDS: the product is taken in 32 bits.
ItemPlace(n) == (n * HashWords) % Word
DagWords(n)  == ItemPlace(n)..(ItemPlace(n) + HashWords - 1)

\* num_cache_words, which counts the items of the light cache: its words are an
\* uint32_t before they are divided.
CacheNodes(epoch) == ((CacheItems(epoch) * HashWords) % Word) \div HashWords

\* The light cache words a node reads for a hash value h: those of its own start
\* (h is node_index) and those of a parent.
ParentPlace(h, nodes) == ((h % nodes) * HashWords) % Word
ParentWords(h, nodes) ==
  ParentPlace(h, nodes)..(ParentPlace(h, nodes) + HashWords - 1)

-----------------------------------------------------------------------------
(* The search.                                                             *)

\* d_dag[dag_item_index * 16 + l]: dag_item_index is taken modulo a constant and
\* not modulo the items of the DAG.
ItemsRead == 0..(SearchItems - 1)
WordRead(k, l) == k * HashWords + l

-----------------------------------------------------------------------------
(* What they promise.                                                      *)

\* Every item of a DAG is made by exactly one GPU thread of the launch.
OneThreadEach(items) ==
  \A n \in 0..(items - 1) :
    \E b \in Blocks(items), x \in Lanes :
      /\ NodeIndex(b, x) = n /\ Generates(items, b, x)
      /\ \A c \in Blocks(items), y \in Lanes : NodeIndex(c, y) = n => c = b /\ y = x

\* No two items share a word, and none lies outside the allocation.
ItemsApart(items) ==
  \A n \in 0..(items - 1) :
    /\ DagWords(n) \subseteq 0..(items * HashWords - 1)
    /\ \A k \in 0..(items - 1) : k # n => DagWords(n) \cap DagWords(k) = {}

\* No light cache word outside the allocation is read, whatever the hashes are.
CacheReadInside(epoch, h) ==
  ParentWords(h, CacheNodes(epoch)) \subseteq 0..(CacheItems(epoch) * HashWords - 1)

\* The search reads words of the DAG, which generate_dag_kernel has written.
SearchReadsDag(items) ==
  \A k \in ItemsRead, l \in 0..(HashWords - 1) :
    WordRead(k, l) \in DagWords(k) /\ k < items
===============================================================================
