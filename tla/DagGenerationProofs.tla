-------------------------- MODULE DagGenerationProofs --------------------------
(***************************************************************************)
(* What holds of the layout of the DAG for every epoch, up to which size,  *)
(* and what the GPU threads that make it leave behind, for any number of   *)
(* them and in any order of their steps.                                   *)
(***************************************************************************)
EXTENDS DagGeneration, TLAPS

-----------------------------------------------------------------------------
(* Arithmetic.                                                             *)

\* An item ends where the next begins, or before.
LEMMA Rows ==
  ASSUME NEW a \in Nat, NEW b \in Nat, NEW h \in Nat \ {0}, a < b
  PROVE  a * h \in Nat /\ b * h \in Nat /\ a * h + h <= b * h
<1>1. PICK c \in Nat : b = a + 1 + c
  <2>1. b - a - 1 \in Nat /\ b = a + 1 + (b - a - 1)
    OBVIOUS
  <2>. QED
    BY <2>1
<1>2. a * h \in Nat /\ c * h \in Nat
  OBVIOUS
<1>3. (a + 1 + c) * h = a * h + h + c * h
  OBVIOUS
<1>. QED
  BY <1>1, <1>2, <1>3

\* A place tells its row and its column.
LEMMA OnePlace ==
  ASSUME NEW h \in Nat \ {0}, NEW a \in Nat, NEW b \in Nat,
         NEW k \in 0..(h - 1), NEW l \in 0..(h - 1), a * h + k = b * h + l
  PROVE  a = b /\ k = l
<1>1. a * h \in Nat /\ b * h \in Nat
  OBVIOUS
<1>2. ~(a < b)
  <2>. SUFFICES ASSUME a < b PROVE FALSE
    OBVIOUS
  <2>1. a * h + h <= b * h
    BY Rows
  <2>. QED
    BY <1>1, <2>1
<1>3. ~(b < a)
  <2>. SUFFICES ASSUME b < a PROVE FALSE
    OBVIOUS
  <2>1. b * h + h <= a * h
    BY Rows
  <2>. QED
    BY <1>1, <2>1
<1>4. a = b
  BY <1>2, <1>3
<1>. QED
  BY <1>1, <1>4

\* Every number is a row and a column.
LEMMA SomePlace ==
  ASSUME NEW n \in Nat, NEW h \in Nat \ {0}
  PROVE  \E a \in Nat, k \in 0..(h - 1) : n = a * h + k
<1>1. n \div h \in Nat /\ n % h \in 0..(h - 1) /\ n = h * (n \div h) + (n % h)
  OBVIOUS
<1>2. h * (n \div h) = (n \div h) * h
  BY <1>1
<1>. QED
  BY <1>1, <1>2

\* A number below Word is not changed by the 32-bit width.
LEMMA NoWrap ==
  ASSUME LayoutAssumption, NEW n \in Nat, n < Word PROVE n % Word = n
  BY DEF LayoutAssumption

\* A number of Word's size is so many items.
LEMMA Multiples ==
  ASSUME NEW w \in Nat \ {0}, NEW h \in Nat \ {0}, w % h = 0
  PROVE  \E q \in Nat \ {0} : w = q * h
<1>1. w \div h \in Nat /\ w = h * (w \div h) + (w % h)
  OBVIOUS
<1>2. PICK q \in Nat : w = h * q
  BY <1>1
<1>3. w = q * h /\ q # 0
  BY <1>2
<1>. QED
  BY <1>3

LEMMA WordsOfItems ==
  ASSUME LayoutAssumption PROVE \E q \in Nat \ {0} : Word = q * HashWords
<1>1. Word \in Nat \ {0} /\ HashWords \in Nat \ {0} /\ Word % HashWords = 0
  BY DEF LayoutAssumption
<1>. QED
  BY <1>1, Multiples, Zenon

\* Wherever an index of 32 bits points to, an item that starts there fits.
LEMMA PlaceBelowWord ==
  ASSUME LayoutAssumption, NEW n \in Nat
  PROVE  (n * HashWords) % Word \in Nat /\ ((n * HashWords) % Word) + HashWords <= Word
<1>1. Word \in Nat \ {0} /\ HashWords \in Nat \ {0}
  BY DEF LayoutAssumption
<1>2. PICK q \in Nat \ {0} : Word = q * HashWords
  BY WordsOfItems
<1>3. PICK j \in Nat, r \in 0..(q - 1) : n = j * q + r
  BY <1>2, SomePlace
<1>4. r \in Nat /\ r < q /\ r * HashWords \in Nat /\ r * HashWords + HashWords <= q * HashWords
  BY <1>1, <1>2, <1>3, Rows
<1>5. n * HashWords = j * Word + r * HashWords
  <2>1. n * HashWords = (j * q) * HashWords + r * HashWords
    BY <1>1, <1>2, <1>3
  <2>2. (j * q) * HashWords = j * (q * HashWords)
    BY <1>1, <1>2, <1>3
  <2>. QED
    BY <1>2, <2>1, <2>2
<1>6. r * HashWords < Word
  BY <1>1, <1>2, <1>4
<1>7. PICK s \in Nat : s = r * HashWords
  BY <1>4
<1>8. (n * HashWords) % Word = s
  <2>1. n * HashWords \in Nat
    BY <1>1
  <2>2. PICK m \in Nat : m = n * HashWords
    BY <2>1
  <2>3. m \div Word \in Nat /\ m % Word \in 0..(Word - 1) /\ m = Word * (m \div Word) + (m % Word)
    BY <1>1, <2>2
  <2>4. PICK d \in Nat, t \in 0..(Word - 1) : t = m % Word /\ m = d * Word + t
    <3>1. Word * (m \div Word) = (m \div Word) * Word
      BY <1>1, <2>3
    <3>. QED
      BY <2>3, <3>1
  <2>5. d * Word + t = j * Word + s /\ s \in 0..(Word - 1)
    BY <1>1, <1>5, <1>6, <1>7, <2>2, <2>4
  <2>. QED
    BY <1>1, <2>2, <2>4, <2>5, OnePlace
<1>. QED
  BY <1>1, <1>2, <1>4, <1>7, <1>8

LEMMA SizesAreNumbers ==
  ASSUME LayoutAssumption, NEW e \in Nat
  PROVE  DagItems(e) \in Nat /\ CacheItems(e) \in Nat \ {0}
<1>1. e * GrowthItems \in Nat /\ e * GrowthCacheItems \in Nat
  BY DEF LayoutAssumption
<1>. QED
  BY <1>1 DEF LayoutAssumption, DagItems, CacheItems

-----------------------------------------------------------------------------
(* The layout.                                                             *)

\* The launch has a GPU thread for every item.
LEMMA ThreadOfItem ==
  ASSUME LayoutAssumption, NEW items \in Nat, NEW n \in 0..(items - 1)
  PROVE  \E b \in Blocks(items), x \in Lanes : n = b * BlockSize + x
<1>1. BlockSize \in Nat \ {0}
  BY DEF LayoutAssumption
<1>2. PICK b \in Nat, x \in 0..(BlockSize - 1) : n = b * BlockSize + x
  BY <1>1, SomePlace
<1>3. PICK m \in Nat : m = items + BlockSize - 1
  BY <1>1
<1>4. PICK c \in Nat, y \in 0..(BlockSize - 1) : c = m \div BlockSize /\ m = c * BlockSize + y
  <2>1. \A k \in Nat \ {0} :
          /\ m \div k \in Nat /\ m % k \in 0..(k - 1)
          /\ m = (m \div k) * k + (m % k)
    OBVIOUS
  <2>. QED
    BY <1>1, <2>1
<1>5. b < c
  <2>. SUFFICES ASSUME c <= b PROVE FALSE
    BY <1>2, <1>4
  <2>1. c * BlockSize <= b * BlockSize
    <3>1. CASE c = b
      BY <1>1, <1>2, <3>1
    <3>2. CASE c < b
      BY <1>1, <1>2, <1>4, <3>2, Rows
    <3>. QED
      BY <1>2, <1>4, <3>1, <3>2
  <2>2. b * BlockSize \in Nat /\ c * BlockSize \in Nat
    BY <1>1, <1>2, <1>4
  <2>3. m >= n + BlockSize
    BY <1>1, <1>3
  <2>. QED
    BY <1>1, <1>2, <1>4, <2>1, <2>2, <2>3
<1>6. b \in Blocks(items)
  BY <1>2, <1>3, <1>4, <1>5 DEF Blocks
<1>. QED
  BY <1>2, <1>6 DEF Lanes

\* Below 256 GiB every item of a DAG is made by exactly one thread of the launch
\* get_dag makes, however little of the last block is needed.
THEOREM ItemsMadeOnce ==
  ASSUME LayoutAssumption, NEW items \in Nat,
         items < Word, items + BlockSize - 1 <= Word
  PROVE  OneThreadEach(items)
<1> SUFFICES ASSUME NEW n \in 0..(items - 1)
             PROVE  \E b \in Blocks(items), x \in Lanes :
                      /\ NodeIndex(b, x) = n /\ Generates(items, b, x)
                      /\ \A c \in Blocks(items), y \in Lanes :
                           NodeIndex(c, y) = n => c = b /\ y = x
  BY DEF OneThreadEach
<1>1. PICK b \in Blocks(items), x \in Lanes : n = b * BlockSize + x
  BY ThreadOfItem
<1>2. BlockSize \in Nat \ {0} /\ Word \in Nat \ {0}
  BY DEF LayoutAssumption
<1>3. ASSUME NEW c \in Blocks(items), NEW y \in Lanes
      PROVE  /\ c \in Nat /\ y \in 0..(BlockSize - 1)
             /\ c * BlockSize + y \in Nat /\ c * BlockSize + y < Word
  <2>1. PICK m \in Nat : m = items + BlockSize - 1
    BY <1>2
  <2>2. PICK d \in Nat, z \in 0..(BlockSize - 1) : d = m \div BlockSize /\ m = d * BlockSize + z
    <3>1. \A k \in Nat \ {0} :
            /\ m \div k \in Nat /\ m % k \in 0..(k - 1)
            /\ m = (m \div k) * k + (m % k)
      OBVIOUS
    <3>. QED
      BY <1>2, <3>1
  <2>3. c \in Nat /\ y \in 0..(BlockSize - 1) /\ c < d
    BY <2>1, <2>2 DEF Blocks, Lanes
  <2>4. c * BlockSize \in Nat /\ d * BlockSize \in Nat /\ c * BlockSize + BlockSize <= d * BlockSize
    BY <1>2, <2>2, <2>3, Rows
  <2>. QED
    BY <1>2, <2>1, <2>2, <2>3, <2>4
<1>4. \A c \in Blocks(items), y \in Lanes : NodeIndex(c, y) = c * BlockSize + y
  BY <1>3, NoWrap DEF NodeIndex
<1>5. items % Word = items
  BY <1>2, NoWrap
<1>6. NodeIndex(b, x) = n /\ Generates(items, b, x)
  BY <1>1, <1>4, <1>5 DEF Generates
<1>7. ASSUME NEW c \in Blocks(items), NEW y \in Lanes, NodeIndex(c, y) = n
      PROVE  c = b /\ y = x
  <2>1. c * BlockSize + y = b * BlockSize + x
    BY <1>1, <1>4, <1>7
  <2>2. c \in Nat /\ b \in Nat /\ x \in 0..(BlockSize - 1) /\ y \in 0..(BlockSize - 1)
    BY <1>3
  <2>. QED
    BY <1>2, <2>1, <2>2, OnePlace
<1>. QED
  BY <1>1, <1>6, <1>7

\* Up to Word words the index of an item's first word does not wrap.
LEMMA PlaceUpToWord ==
  ASSUME LayoutAssumption, NEW items \in Nat, items * HashWords <= Word,
         NEW n \in 0..(items - 1)
  PROVE  /\ ItemPlace(n) = n * HashWords
         /\ n * HashWords \in Nat /\ n * HashWords + HashWords <= items * HashWords
<1>1. HashWords \in Nat \ {0} /\ Word \in Nat \ {0}
  BY DEF LayoutAssumption
<1>2. /\ n * HashWords \in Nat /\ items * HashWords \in Nat
      /\ n * HashWords + HashWords <= items * HashWords
  BY <1>1, Rows
<1>3. PICK m \in Nat : m = n * HashWords
  BY <1>2
<1>4. m % Word = m
  BY <1>1, <1>2, <1>3, NoWrap
<1>. QED
  BY <1>2, <1>3, <1>4 DEF ItemPlace

\* Beyond Word words the last items wrap, and an item is put where the first is.
LEMMA FirstItemTwice ==
  ASSUME LayoutAssumption, NEW items \in Nat, items * HashWords > Word
  PROVE  \E k \in 0..(items - 1) : k # 0 /\ k * HashWords = Word /\ ItemPlace(k) = 0
<1>1. HashWords \in Nat \ {0} /\ Word \in Nat \ {0}
  BY DEF LayoutAssumption
<1>2. PICK k \in Nat \ {0} : Word = k * HashWords
  BY WordsOfItems
<1>3. k < items
  <2>. SUFFICES ASSUME items <= k PROVE FALSE
    BY <1>2
  <2>1. items * HashWords <= k * HashWords
    <3>1. CASE items = k
      BY <1>1, <1>2, <3>1
    <3>2. CASE items < k
      BY <1>1, <1>2, <3>2, Rows
    <3>. QED
      BY <1>2, <3>1, <3>2
  <2>2. items * HashWords \in Nat
    BY <1>1
  <2>. QED
    BY <1>1, <1>2, <2>1, <2>2
<1>4. Word % Word = 0
  <2>1. \A w \in Nat \ {0} : w % w = 0
    OBVIOUS
  <2>. QED
    BY <1>1, <2>1
<1>5. ItemPlace(k) = 0
  BY <1>2, <1>4 DEF ItemPlace
<1>. QED
  BY <1>2, <1>3, <1>5

\* The items of a DAG are apart and inside its allocation up to 16 GiB (Word
\* words), and no further: beyond, node_index * HASH_WORDS wraps, the items past
\* that point overwrite the first ones, and the end of the DAG is never written.
THEOREM ItemsApartUpToWord ==
  ASSUME LayoutAssumption, NEW items \in Nat
  PROVE  ItemsApart(items) <=> items * HashWords <= Word
<1>1. HashWords \in Nat \ {0} /\ Word \in Nat \ {0}
  BY DEF LayoutAssumption
<1>2. ASSUME items * HashWords <= Word PROVE ItemsApart(items)
  <2>1. ASSUME NEW n \in 0..(items - 1) PROVE DagWords(n) \subseteq 0..(items * HashWords - 1)
    <3>1. /\ ItemPlace(n) = n * HashWords
          /\ n * HashWords \in Nat /\ n * HashWords + HashWords <= items * HashWords
      BY <1>2, PlaceUpToWord
    <3>. QED
      BY <1>1, <3>1 DEF DagWords
  <2>2. ASSUME NEW n \in 0..(items - 1), NEW k \in 0..(items - 1), k # n
        PROVE  DagWords(n) \cap DagWords(k) = {}
    <3>1. ItemPlace(n) = n * HashWords /\ ItemPlace(k) = k * HashWords
      BY <1>2, PlaceUpToWord
    <3>2. n \in Nat /\ k \in Nat /\ n * HashWords \in Nat /\ k * HashWords \in Nat
      BY <1>1
    <3>3. CASE n < k
      <4>1. n * HashWords + HashWords <= k * HashWords
        BY <1>1, <3>2, <3>3, Rows
      <4>. QED
        BY <1>1, <3>1, <3>2, <4>1 DEF DagWords
    <3>4. CASE k < n
      <4>1. k * HashWords + HashWords <= n * HashWords
        BY <1>1, <3>2, <3>4, Rows
      <4>. QED
        BY <1>1, <3>1, <3>2, <4>1 DEF DagWords
    <3>. QED
      BY <2>2, <3>2, <3>3, <3>4
  <2>. QED
    BY <2>1, <2>2 DEF ItemsApart
<1>3. ASSUME items * HashWords > Word PROVE ~ItemsApart(items)
  <2>1. PICK k \in 0..(items - 1) : k # 0 /\ ItemPlace(k) = 0
    BY <1>3, FirstItemTwice
  <2>2. 0 \in 0..(items - 1) /\ ItemPlace(0) = 0
    BY <1>1, <2>1, NoWrap DEF ItemPlace
  <2>3. 0 \in DagWords(k) \cap DagWords(0)
    BY <1>1, <2>1, <2>2 DEF DagWords
  <2>. QED
    BY <2>1, <2>2, <2>3 DEF ItemsApart
<1>4. items * HashWords <= Word \/ items * HashWords > Word
  BY <1>1
<1>. QED
  BY <1>2, <1>3, <1>4

\* What division leaves over, and what it leaves out.
LEMMA Division ==
  ASSUME NEW n \in Nat, NEW w \in Nat \ {0}
  PROVE  /\ n \div w \in Nat /\ n % w \in 0..(w - 1)
         /\ n % w <= n /\ (n \div w) * w \in Nat /\ (n \div w) * w <= n
<1>1. n \div w \in Nat /\ n % w \in 0..(w - 1) /\ n = w * (n \div w) + (n % w)
  OBVIOUS
<1>2. PICK d \in Nat, r \in 0..(w - 1) : d = n \div w /\ r = n % w /\ n = w * d + r
  BY <1>1
<1>3. w * d = d * w /\ d * w \in Nat
  BY <1>2
<1>4. r <= n /\ d * w <= n
  BY <1>2, <1>3
<1>. QED
  BY <1>2, <1>3, <1>4

\* Whatever fnv1a_32 gives and however large the light cache is, a node reads only
\* words of it, unless num_cache_words is 0 and there is nothing to divide by.
THEOREM CacheReadsInside ==
  ASSUME LayoutAssumption, NEW e \in Nat, NEW h \in Nat, CacheNodes(e) # 0
  PROVE  CacheReadInside(e, h) /\ ParentPlace(h, CacheNodes(e)) \in Nat
<1>1. HashWords \in Nat \ {0} /\ Word \in Nat \ {0}
  BY DEF LayoutAssumption
<1>2. PICK c \in Nat : c = CacheItems(e) * HashWords
  <2>1. CacheItems(e) \in Nat
    BY SizesAreNumbers
  <2>. QED
    BY <1>1, <2>1
<1>3. PICK m \in Nat : m = c % Word /\ m <= c
  BY <1>1, <1>2, Division
<1>4. PICK nodes \in Nat \ {0} : nodes = CacheNodes(e) /\ nodes * HashWords <= m
  <2>1. CacheNodes(e) = m \div HashWords
    BY <1>2, <1>3 DEF CacheNodes
  <2>2. m \div HashWords \in Nat /\ (m \div HashWords) * HashWords <= m
    BY <1>1, <1>3, Division
  <2>. QED
    BY <2>1, <2>2
<1>5. PICK r \in 0..(nodes - 1) : r = h % nodes
  BY <1>4, Division
<1>6. PICK p \in Nat : p = r * HashWords /\ p + HashWords <= nodes * HashWords
  BY <1>1, <1>4, <1>5, Rows
<1>7. PICK q \in Nat : q = p % Word /\ q <= p
  <2>1. p % Word \in 0..(Word - 1) /\ p % Word <= p
    BY <1>1, Division, Zenon
  <2>. QED
    BY <1>1, <2>1
<1>8. ParentPlace(h, nodes) = q
  BY <1>5, <1>6, <1>7 DEF ParentPlace
<1>9. ParentWords(h, nodes) = q..(q + HashWords - 1)
  BY <1>8 DEF ParentWords
<1>10. nodes * HashWords \in Nat
  BY <1>1, <1>4
<1>11. q + HashWords - 1 <= c - 1
  BY <1>1, <1>3, <1>4, <1>6, <1>7, <1>10
<1>12. q..(q + HashWords - 1) \subseteq 0..(c - 1)
  BY <1>1, <1>11
<1>. QED
  BY <1>2, <1>4, <1>8, <1>9, <1>12 DEF CacheReadInside

\* The search reads words the generation kernel has written, in every epoch: the
\* items it can reach are there from the first on.
THEOREM SearchReadsInside ==
  ASSUME LayoutAssumption, NEW e \in Nat, InitialItems >= SearchItems,
         DagItems(e) * HashWords <= Word
  PROVE  SearchReadsDag(DagItems(e))
<1>1. HashWords \in Nat \ {0} /\ SearchItems \in Nat /\ InitialItems \in Nat
  BY DEF LayoutAssumption
<1>2. PICK items \in Nat : items = DagItems(e)
  BY SizesAreNumbers
<1>3. items >= SearchItems
  <2>1. e * GrowthItems \in Nat
    BY DEF LayoutAssumption
  <2>. QED
    BY <1>1, <1>2, <2>1 DEF DagItems
<1>4. ASSUME NEW k \in ItemsRead, NEW l \in 0..(HashWords - 1)
      PROVE  WordRead(k, l) \in DagWords(k) /\ k < items
  <2>1. k \in 0..(items - 1)
    BY <1>1, <1>3, <1>4 DEF ItemsRead
  <2>2. ItemPlace(k) = k * HashWords /\ k * HashWords \in Nat
    BY <1>2, <2>1, PlaceUpToWord
  <2>. QED
    BY <1>1, <2>1, <2>2 DEF WordRead, DagWords
<1>. QED
  BY <1>2, <1>4 DEF SearchReadsDag

-----------------------------------------------------------------------------
(* The GPU threads.                                                        *)

\* Who has started is where: nobody before the launch, nobody any more after the
\* host has waited, and the light cache is there until then.
PhaseInv ==
  /\ host = "upload" => ~failed
  /\ host \in {"upload", "launch"} => \A g \in GpuThreads : at[g] = "none"
  /\ host \notin {"upload", "launch"} /\ ~failed => \A g \in GpuThreads : at[g] # "none"
  /\ host \in {"free", "update", "returned"} =>
       \A g \in GpuThreads : at[g] \in {"none", "done"}
  /\ d_cache <=> host \notin {"update", "returned"}

\* Only threads with an item are at work, and each loop begins at 0.
WorkInv ==
  \A g \in GpuThreads :
    /\ at[g] \in {"mix", "write"} => Generates(Items, g[1], g[2])
    /\ at[g] \in {"none", "enter"} => i[g] = 0

\* The words of g's item, up to the k-th, are in their place.
Filled(g, k) == \A l \in 0..(k - 1) : d_dag[ItemPlace(Node(g)) + l] = <<Node(g), l>>

\* In a DAG of at most Word words nobody overwrites another's item; in a larger
\* one nobody ever reaches the word after Word.
FillInv ==
  /\ Items * HashWords <= Word /\ ~failed =>
       \A g \in GpuThreads : Generates(Items, g[1], g[2]) =>
         /\ at[g] = "write" => Filled(g, i[g])
         /\ at[g] = "done" => Filled(g, HashWords)
  /\ Items * HashWords > Word => d_dag[Word] = None

GenerationInv == TypeOK /\ AccessesInside /\ PhaseInv /\ WorkInv /\ FillInv

-----------------------------------------------------------------------------

LEMMA Numbers ==
  ASSUME epoch \in Epochs
  PROVE  /\ LayoutAssumption
         /\ Word \in Nat \ {0} /\ HashWords \in Nat \ {0} /\ DagParents \in Nat \ {0}
         /\ epoch \in Nat /\ Items \in Nat /\ Items * HashWords \in Nat
<1>1. LayoutAssumption /\ epoch \in Nat /\ DagParents \in Nat \ {0}
  BY GenerationAssumption
<1>2. Word \in Nat \ {0} /\ HashWords \in Nat \ {0}
  BY <1>1 DEF LayoutAssumption
<1>3. Items \in Nat
  BY <1>1, SizesAreNumbers DEF Items
<1>. QED
  BY <1>1, <1>2, <1>3

\* A thread's node is a number, that of an item if the thread has one.
LEMMA Nodes32 ==
  ASSUME epoch \in Epochs, NEW g \in GpuThreads
  PROVE  /\ Node(g) \in 0..(Word - 1)
         /\ Generates(Items, g[1], g[2]) => Node(g) \in 0..(Items - 1)
<1>1. /\ LayoutAssumption /\ Word \in Nat \ {0} /\ Items \in Nat
  BY Numbers
<1>2. g[1] \in Blocks(Items) /\ g[2] \in Lanes
  BY DEF GpuThreads
<1>3. g[1] * BlockSize + g[2] \in Nat
  <2>1. g[1] \in Nat /\ g[2] \in Nat /\ BlockSize \in Nat
    BY <1>1, <1>2 DEF Blocks, Lanes, LayoutAssumption
  <2>. QED
    BY <2>1
<1>4. Node(g) \in 0..(Word - 1)
  BY <1>1, <1>3, Division DEF Node, NodeIndex
<1>5. Items % Word <= Items /\ Items % Word \in Nat
  BY <1>1, Division
<1>. QED
  BY <1>1, <1>4, <1>5 DEF Generates, Node

\* What an item's thread writes to is in the DAG, wrapped or not.
LEMMA WritesInside ==
  ASSUME epoch \in Epochs, NEW g \in GpuThreads, Generates(Items, g[1], g[2])
  PROVE  /\ ItemPlace(Node(g)) \in Nat
         /\ ItemPlace(Node(g)) + HashWords <= Word
         /\ DagWords(Node(g)) \subseteq Words
<1>1. /\ LayoutAssumption /\ Word \in Nat \ {0} /\ HashWords \in Nat \ {0}
      /\ Items \in Nat /\ Items * HashWords \in Nat
  BY Numbers
<1>2. Node(g) \in Nat /\ Node(g) \in 0..(Items - 1)
  BY Nodes32
<1>3. ItemPlace(Node(g)) \in Nat /\ ItemPlace(Node(g)) + HashWords <= Word
  BY <1>1, <1>2, PlaceBelowWord DEF ItemPlace
<1>4. ItemPlace(Node(g)) + HashWords <= Items * HashWords
  <2>1. CASE Items * HashWords <= Word
    BY <1>1, <1>2, <2>1, PlaceUpToWord
  <2>2. CASE Items * HashWords > Word
    BY <1>1, <1>3, <2>2
  <2>. QED
    BY <1>1, <2>1, <2>2
<1>. QED
  BY <1>1, <1>3, <1>4 DEF DagWords, Words

LEMMA ReadsInside ==
  ASSUME epoch \in Epochs, NEW h \in Nat
  PROVE  /\ ParentPlace(h, Nodes) \in Nat
         /\ ParentPlace(h, Nodes)..(ParentPlace(h, Nodes) + HashWords - 1)
              \subseteq 0..(CacheItems(epoch) * HashWords - 1)
<1>1. LayoutAssumption /\ epoch \in Nat /\ CacheNodes(epoch) # 0
  BY GenerationAssumption
<1>2. CacheReadInside(epoch, h) /\ ParentPlace(h, CacheNodes(epoch)) \in Nat
  BY <1>1, CacheReadsInside
<1>. QED
  BY <1>2 DEF Nodes, CacheReadInside, ParentWords

\* The epoch, and all that depends on it, does not change.
LEMMA Fixed ==
  ASSUME [Next]_vars
  PROVE  /\ epoch' = epoch /\ Items' = Items /\ GpuThreads' = GpuThreads
         /\ Words' = Words /\ Nodes' = Nodes
<1>1. epoch' = epoch
  BY DEF Next, HostStep, GpuStep, Returned, vars, UploadCache, Launch, LaunchFails,
         Sync, FreeCache, UpdateEntry, DeviceLost, ReturnAtOnce, StartMix, MixParent,
         WriteWord
<1>. QED
  BY <1>1 DEF Items, GpuThreads, Words, Nodes

LEMMA GenerationInit == Init => GenerationInv
<1> SUFFICES ASSUME Init PROVE GenerationInv
  OBVIOUS
<1>1. /\ epoch \in Epochs /\ host = "upload" /\ d_cache = TRUE /\ failed = FALSE
      /\ at = [g \in GpuThreads |-> "none"] /\ i = [g \in GpuThreads |-> 0]
      /\ reading = [g \in GpuThreads |-> 0] /\ d_dag = [w \in Words |-> None]
  BY DEF Init
<1>2. Items * HashWords \in Nat /\ Word \in Nat
  BY <1>1, Numbers
<1>3. Items * HashWords > Word => d_dag[Word] = None
  BY <1>1, <1>2 DEF Words
<1>. QED
  BY <1>1, <1>3
     DEF GenerationInv, TypeOK, AccessesInside, PhaseInv, WorkInv, FillInv

\* A step is the host's, the device's end, a GPU thread's, or none.
LEMMA Steps ==
  ASSUME [Next]_vars, NEW ACTION P,
         UploadCache => P, Launch => P, LaunchFails => P, Sync => P, FreeCache => P,
         UpdateEntry => P, DeviceLost => P, UNCHANGED vars => P,
         \A g \in GpuThreads : ReturnAtOnce(g) \/ StartMix(g) => P,
         \A g \in GpuThreads : MixParent(g) \/ WriteWord(g) => P
  PROVE  P
  BY DEF Next, HostStep, GpuStep, Returned

LEMMA TypeStep == TypeOK /\ WorkInv /\ [Next]_vars => TypeOK'
<1> SUFFICES ASSUME TypeOK, WorkInv, [Next]_vars PROVE TypeOK'
  OBVIOUS
<1>1. /\ epoch' = epoch /\ Items' = Items /\ GpuThreads' = GpuThreads
      /\ Words' = Words /\ Nodes' = Nodes
  BY Fixed
<1>2. HashWords \in Nat \ {0} /\ DagParents \in Nat \ {0} /\ Word \in Nat
  BY Numbers DEF TypeOK
<1> USE <1>1 DEF TypeOK, gpuVars
<1>3. UploadCache => TypeOK'
  BY DEF UploadCache
<1>4. Launch => TypeOK'
  BY DEF Launch
<1>5. LaunchFails => TypeOK'
  BY DEF LaunchFails
<1>6. Sync => TypeOK'
  BY DEF Sync
<1>7. FreeCache => TypeOK'
  BY DEF FreeCache
<1>8. UpdateEntry => TypeOK'
  BY DEF UpdateEntry
<1>9. DeviceLost => TypeOK'
  BY DEF DeviceLost
<1>10. UNCHANGED vars => TypeOK'
  BY DEF vars
<1>11. ASSUME NEW g \in GpuThreads, ReturnAtOnce(g) PROVE TypeOK'
  BY <1>11 DEF ReturnAtOnce
<1>12. ASSUME NEW g \in GpuThreads, StartMix(g) PROVE TypeOK'
  <2>1. Node(g) \in Nat
    BY Nodes32, <1>2
  <2>2. ParentPlace(Node(g), Nodes) \in Nat
    BY <2>1, ReadsInside
  <2>. QED
    BY <1>2, <1>12, <2>2 DEF StartMix, WorkInv
<1>13. ASSUME NEW g \in GpuThreads, MixParent(g) PROVE TypeOK'
  <2>1. PICK h \in 0..(Word - 1) : reading' = [reading EXCEPT ![g] = ParentPlace(h, Nodes)]
    BY <1>13 DEF MixParent
  <2>2. ParentPlace(h, Nodes) \in Nat
    BY <1>2, ReadsInside
  <2>3. reading' \in [GpuThreads -> Nat]
    BY <2>1, <2>2
  <2>4. CASE i[g] + 1 < DagParents
    BY <1>2, <1>13, <2>3, <2>4 DEF MixParent
  <2>5. CASE ~(i[g] + 1 < DagParents)
    BY <1>2, <1>13, <2>3, <2>5 DEF MixParent
  <2>. QED
    BY <2>4, <2>5
<1>14. ASSUME NEW g \in GpuThreads, WriteWord(g) PROVE TypeOK'
  <2>1. Node(g) \in Nat /\ i[g] \in 0..(HashWords - 1)
    BY <1>2, <1>14, Nodes32 DEF WriteWord
  <2>2. d_dag' \in [Words -> {None} \cup (Nat \X (0..(HashWords - 1)))]
    BY <1>14, <2>1 DEF WriteWord
  <2>3. CASE i[g] + 1 < HashWords
    BY <1>2, <1>14, <2>2, <2>3 DEF WriteWord
  <2>4. CASE ~(i[g] + 1 < HashWords)
    BY <1>2, <1>14, <2>2, <2>4 DEF WriteWord
  <2>. QED
    BY <2>3, <2>4
<1>. QED
  BY <1>3, <1>4, <1>5, <1>6, <1>7, <1>8, <1>9, <1>10, <1>11, <1>12, <1>13, <1>14, Steps

\* A GPU thread does not move the others, and the host and the device move none of
\* them into the kernel's loops.
LEMMA OneThreadMoves ==
  ASSUME TypeOK, [Next]_vars
  PROVE  \/ \E g \in GpuThreads :
              /\ GpuStep(g)
              /\ \A o \in GpuThreads \ {g} : at'[o] = at[o] /\ i'[o] = i[o] /\ reading'[o] = reading[o]
              /\ UNCHANGED <<host, d_cache, failed>>
         \/ /\ UNCHANGED <<i, reading, d_dag>>
            /\ \A g \in GpuThreads : at'[g] = at[g] \/ at'[g] \in {"enter", "done"}
<1> DEFINE Others(g) == \A o \in GpuThreads \ {g} :
             at'[o] = at[o] /\ i'[o] = i[o] /\ reading'[o] = reading[o]
           P == \/ \E g \in GpuThreads :
                     /\ GpuStep(g) /\ Others(g) /\ UNCHANGED <<host, d_cache, failed>>
                \/ /\ UNCHANGED <<i, reading, d_dag>>
                   /\ \A g \in GpuThreads : at'[g] = at[g] \/ at'[g] \in {"enter", "done"}
<1>1. ASSUME UploadCache \/ LaunchFails \/ Sync \/ FreeCache \/ UpdateEntry \/ UNCHANGED vars
      PROVE  P
  BY <1>1 DEF UploadCache, LaunchFails, Sync, FreeCache, UpdateEntry, gpuVars, vars
<1>2. ASSUME Launch \/ DeviceLost PROVE P
  BY <1>2 DEF Launch, DeviceLost
<1>3. ASSUME NEW g \in GpuThreads, GpuStep(g) PROVE P
  <2>1. UNCHANGED <<host, d_cache, failed>>
    BY <1>3 DEF GpuStep, ReturnAtOnce, StartMix, MixParent, WriteWord
  <2>2. CASE ReturnAtOnce(g) \/ StartMix(g)
    BY <1>3, <2>1, <2>2 DEF ReturnAtOnce, StartMix, TypeOK
  <2>3. CASE MixParent(g)
    <3>1. PICK r : reading' = [reading EXCEPT ![g] = r]
      BY <2>3 DEF MixParent
    <3>2. \A o \in GpuThreads \ {g} : reading'[o] = reading[o]
      BY <3>1 DEF TypeOK
    <3>3. \A o \in GpuThreads \ {g} : at'[o] = at[o] /\ i'[o] = i[o]
      <4>1. CASE i[g] + 1 < DagParents
        BY <2>3, <4>1 DEF MixParent, TypeOK
      <4>2. CASE ~(i[g] + 1 < DagParents)
        BY <2>3, <4>2 DEF MixParent, TypeOK
      <4>. QED
        BY <4>1, <4>2
    <3>. QED
      BY <1>3, <2>1, <3>2, <3>3
  <2>4. CASE WriteWord(g)
    BY <1>3, <2>1, <2>4 DEF WriteWord, TypeOK
  <2>. QED
    BY <1>3, <2>1, <2>2, <2>3, <2>4 DEF GpuStep
<1>. QED
  BY <1>1, <1>2, <1>3 DEF Next, HostStep, Returned

LEMMA WorkStep == TypeOK /\ PhaseInv /\ WorkInv /\ [Next]_vars => WorkInv'
<1> SUFFICES ASSUME TypeOK, PhaseInv, WorkInv, [Next]_vars PROVE WorkInv'
  OBVIOUS
<1>1. /\ Items' = Items /\ GpuThreads' = GpuThreads
      /\ \A g \in GpuThreads :
           Generates(Items, g[1], g[2])' <=> Generates(Items, g[1], g[2])
  BY Fixed DEF Generates, NodeIndex
<1>2. ASSUME NEW g \in GpuThreads, GpuStep(g),
             \A o \in GpuThreads \ {g} : at'[o] = at[o] /\ i'[o] = i[o]
      PROVE  WorkInv'
  <2>1. at[g] \in {"enter", "mix", "write"} /\ at'[g] \notin {"none", "enter"}
    BY <1>2 DEF GpuStep, ReturnAtOnce, StartMix, MixParent, WriteWord, TypeOK
  <2>2. at'[g] \in {"mix", "write"} => Generates(Items, g[1], g[2])
    BY <1>2 DEF GpuStep, ReturnAtOnce, StartMix, MixParent, WriteWord, TypeOK, WorkInv
  <2>. QED
    BY <1>1, <1>2, <2>1, <2>2 DEF WorkInv
<1>3. ASSUME UNCHANGED i,
             \A g \in GpuThreads : at'[g] = at[g] \/ at'[g] = "done"
      PROVE  WorkInv'
  BY <1>1, <1>3 DEF WorkInv
<1>4. ASSUME Launch PROVE WorkInv'
  BY <1>1, <1>4 DEF Launch, WorkInv, PhaseInv
<1>5. Launch \/ \A g \in GpuThreads : at'[g] = "enter" => at[g] = "enter"
  BY Fixed DEF Next, HostStep, GpuStep, Returned, vars, gpuVars, UploadCache, Launch,
     LaunchFails, Sync, FreeCache, UpdateEntry, DeviceLost, ReturnAtOnce, StartMix,
     MixParent, WriteWord, TypeOK
<1>. QED
  BY <1>2, <1>3, <1>4, <1>5, OneThreadMoves

LEMMA AccessStep ==
  TypeOK /\ WorkInv /\ WorkInv' /\ AccessesInside /\ [Next]_vars => AccessesInside'
<1> SUFFICES ASSUME TypeOK, WorkInv, WorkInv', AccessesInside, [Next]_vars
             PROVE  AccessesInside'
  OBVIOUS
<1> DEFINE Reads(r) == r..(r + HashWords - 1) \subseteq 0..(CacheItems(epoch) * HashWords - 1)
<1>1. epoch \in Epochs /\ epoch' = epoch /\ Items' = Items /\ GpuThreads' = GpuThreads
      /\ Words' = Words
  BY Fixed DEF TypeOK
<1>2. \A g \in GpuThreads : at'[g] = "write" => DagWords(Node(g)) \subseteq Words
  <2>1. \A g \in GpuThreads : at'[g] = "write" => Generates(Items, g[1], g[2])
    BY <1>1 DEF WorkInv, Generates, NodeIndex
  <2>. QED
    BY <1>1, <2>1, WritesInside
<1>3. ASSUME NEW g \in GpuThreads, at'[g] = "mix" PROVE Reads(reading'[g])
  <2>1. CASE reading'[g] = reading[g] /\ at[g] = "mix"
    BY <2>1 DEF AccessesInside
  <2>2. CASE StartMix(g)
    <3>1. reading'[g] = ParentPlace(Node(g), Nodes)
      BY <2>2 DEF StartMix, TypeOK
    <3>2. Node(g) \in Nat
      BY <1>1, Nodes32, Numbers
    <3>. QED
      BY <1>1, <3>1, <3>2, ReadsInside
  <2>3. CASE MixParent(g)
    <3>1. PICK h \in 0..(Word - 1) : reading'[g] = ParentPlace(h, Nodes)
      BY <2>3 DEF MixParent, TypeOK
    <3>2. h \in Nat
      BY <1>1, Numbers
    <3>. QED
      BY <1>1, <3>1, <3>2, ReadsInside
  <2>4. (reading'[g] = reading[g] /\ at[g] = "mix") \/ StartMix(g) \/ MixParent(g)
    <3>1. ASSUME NEW k \in GpuThreads, GpuStep(k),
                 \A o \in GpuThreads \ {k} : at'[o] = at[o] /\ reading'[o] = reading[o]
          PROVE  (reading'[g] = reading[g] /\ at[g] = "mix") \/ StartMix(g) \/ MixParent(g)
      <4>1. CASE k = g
        BY <1>3, <3>1, <4>1 DEF GpuStep, ReturnAtOnce, WriteWord, TypeOK
      <4>2. CASE k # g
        BY <1>3, <3>1, <4>2
      <4>. QED
        BY <4>1, <4>2
    <3>. QED
      BY <1>3, <3>1, OneThreadMoves
  <2>. QED
    BY <2>1, <2>2, <2>3, <2>4
<1>4. \A g \in GpuThreads : Node(g)' = Node(g) /\ DagWords(Node(g))' = DagWords(Node(g))
  BY DEF Node, NodeIndex, DagWords, ItemPlace
<1>5. CacheItems(epoch)' = CacheItems(epoch)
  BY <1>1 DEF CacheItems
<1>. QED
  BY <1>1, <1>2, <1>3, <1>4, <1>5 DEF AccessesInside

LEMMA PhaseStep == TypeOK /\ PhaseInv /\ [Next]_vars => PhaseInv'
<1> SUFFICES ASSUME TypeOK, PhaseInv, [Next]_vars PROVE PhaseInv'
  OBVIOUS
<1>1. GpuThreads' = GpuThreads
  BY Fixed
<1> USE <1>1 DEF PhaseInv, TypeOK, gpuVars
<1>2. UploadCache => PhaseInv'
  BY DEF UploadCache
<1>3. Launch => PhaseInv'
  BY DEF Launch
<1>4. LaunchFails => PhaseInv'
  BY DEF LaunchFails
<1>5. Sync => PhaseInv'
  BY DEF Sync
<1>6. FreeCache => PhaseInv'
  BY DEF FreeCache
<1>7. UpdateEntry => PhaseInv'
  BY DEF UpdateEntry
<1>8. DeviceLost => PhaseInv'
  BY DEF DeviceLost
<1>9. UNCHANGED vars => PhaseInv'
  BY DEF vars
<1>10. ASSUME NEW g \in GpuThreads, GpuStep(g) PROVE PhaseInv'
  <2>1. UNCHANGED <<host, d_cache, failed>>
    BY <1>10 DEF GpuStep, ReturnAtOnce, StartMix, MixParent, WriteWord
  <2>2. at[g] \notin {"none", "done"} /\ at'[g] # "none"
    BY <1>10 DEF GpuStep, ReturnAtOnce, StartMix, MixParent, WriteWord
  <2>3. host = "sync"
    BY <2>2
  <2>4. \A o \in GpuThreads \ {g} : at'[o] = at[o]
    BY <1>10 DEF GpuStep, ReturnAtOnce, StartMix, MixParent, WriteWord
  <2>. QED
    BY <2>1, <2>2, <2>3, <2>4
<1>. QED
  BY <1>2, <1>3, <1>4, <1>5, <1>6, <1>7, <1>8, <1>9, <1>10, Steps DEF GpuStep

\* In a DAG of at most Word words, a thread that writes leaves what others have
\* written as it is: their words are not its own, or what it writes is the same.
LEMMA WriteKeeps ==
  ASSUME TypeOK, WorkInv, Items * HashWords <= Word,
         NEW k \in GpuThreads, WriteWord(k),
         NEW g \in GpuThreads, Generates(Items, g[1], g[2]),
         NEW l \in 0..(HashWords - 1),
         d_dag[ItemPlace(Node(g)) + l] = <<Node(g), l>> \/ (g = k /\ l = i[k])
  PROVE  d_dag'[ItemPlace(Node(g)) + l] = <<Node(g), l>>
<1>1. /\ LayoutAssumption /\ HashWords \in Nat \ {0} /\ Items \in Nat /\ epoch \in Epochs
  BY Numbers DEF TypeOK
<1>2. at[k] = "write" /\ i[k] \in 0..(HashWords - 1) /\ Generates(Items, k[1], k[2])
  BY <1>1 DEF WriteWord, TypeOK, WorkInv
<1>3. Node(k) \in 0..(Items - 1) /\ Node(g) \in 0..(Items - 1)
  BY <1>1, <1>2, Nodes32
<1>4. ItemPlace(Node(k)) = Node(k) * HashWords /\ ItemPlace(Node(g)) = Node(g) * HashWords
  BY <1>1, <1>3, PlaceUpToWord
<1>5. ItemPlace(Node(g)) + l \in Words
  <2>1. ItemPlace(Node(g)) \in Nat /\ DagWords(Node(g)) \subseteq Words
    BY <1>1, WritesInside
  <2>. QED
    BY <1>1, <2>1 DEF DagWords
<1>6. d_dag' = [d_dag EXCEPT ![ItemPlace(Node(k)) + i[k]] = <<Node(k), i[k]>>]
  BY DEF WriteWord
<1>7. CASE ItemPlace(Node(g)) + l = ItemPlace(Node(k)) + i[k]
  <2>1. Node(g) * HashWords + l = Node(k) * HashWords + i[k]
    BY <1>4, <1>7
  <2>2. Node(g) \in Nat /\ Node(k) \in Nat
    BY <1>1, <1>3
  <2>3. Node(g) = Node(k) /\ l = i[k]
    BY <1>1, <1>2, <2>1, <2>2, OnePlace
  <2>. QED
    BY <1>5, <1>6, <1>7, <2>3 DEF TypeOK
<1>8. CASE ItemPlace(Node(g)) + l # ItemPlace(Node(k)) + i[k]
  BY <1>5, <1>6, <1>8 DEF TypeOK
<1>. QED
  BY <1>7, <1>8

LEMMA FillStep ==
  TypeOK /\ PhaseInv /\ WorkInv /\ FillInv /\ [Next]_vars => FillInv'
<1> SUFFICES ASSUME TypeOK, PhaseInv, WorkInv, FillInv, [Next]_vars PROVE FillInv'
  OBVIOUS
<1>1. /\ epoch \in Epochs /\ Items' = Items /\ GpuThreads' = GpuThreads
      /\ LayoutAssumption /\ Word \in Nat \ {0} /\ HashWords \in Nat \ {0}
      /\ Items \in Nat /\ Items * HashWords \in Nat
  BY Fixed, Numbers DEF TypeOK
<1>2. \A g \in GpuThreads :
        /\ Generates(Items, g[1], g[2])' <=> Generates(Items, g[1], g[2])
        /\ Node(g)' = Node(g) /\ ItemPlace(Node(g))' = ItemPlace(Node(g))
  BY <1>1 DEF Generates, NodeIndex, Node, ItemPlace
<1>3. Items * HashWords > Word => d_dag'[Word] = None
  <2> SUFFICES ASSUME Items * HashWords > Word PROVE d_dag'[Word] = None
    OBVIOUS
  <2>1. d_dag[Word] = None /\ Word \in Words
    BY <1>1 DEF FillInv, Words
  <2>2. ASSUME NEW g \in GpuThreads, WriteWord(g) PROVE d_dag'[Word] = None
    <3>1. Generates(Items, g[1], g[2]) /\ i[g] \in 0..(HashWords - 1)
      BY <1>1, <2>2 DEF WriteWord, WorkInv, TypeOK
    <3>2. ItemPlace(Node(g)) \in Nat /\ ItemPlace(Node(g)) + HashWords <= Word
      BY <1>1, <3>1, WritesInside
    <3>3. ItemPlace(Node(g)) + i[g] # Word
      BY <1>1, <3>1, <3>2
    <3>. QED
      BY <2>1, <2>2, <3>3 DEF WriteWord, TypeOK
  <2>3. UNCHANGED d_dag \/ \E g \in GpuThreads : WriteWord(g)
    BY OneThreadMoves DEF GpuStep, ReturnAtOnce, StartMix, MixParent
  <2>. QED
    BY <2>1, <2>2, <2>3
<1>4. ASSUME Items * HashWords <= Word, ~failed',
             NEW g \in GpuThreads, Generates(Items, g[1], g[2])
      PROVE  /\ at'[g] = "write" => Filled(g, i[g])'
             /\ at'[g] = "done" => Filled(g, HashWords)'
  <2>1. ~failed
    BY <1>4 DEF Next, HostStep, GpuStep, Returned, vars, gpuVars, UploadCache, Launch,
       LaunchFails, Sync, FreeCache, UpdateEntry, DeviceLost, ReturnAtOnce, StartMix,
       MixParent, WriteWord, PhaseInv, TypeOK
  <2>2. /\ at[g] = "write" => Filled(g, i[g])
        /\ at[g] = "done" => Filled(g, HashWords)
    BY <1>4, <2>1 DEF FillInv
  <2>3. ASSUME UNCHANGED <<i, d_dag>>, at'[g] = at[g] \/ at'[g] = "enter"
        PROVE  /\ at'[g] = "write" => Filled(g, i[g])'
               /\ at'[g] = "done" => Filled(g, HashWords)'
    BY <1>2, <2>2, <2>3 DEF Filled
  <2>4. ASSUME NEW k \in GpuThreads, GpuStep(k), k # g,
               at'[g] = at[g] /\ i'[g] = i[g]
        PROVE  /\ at'[g] = "write" => Filled(g, i[g])'
               /\ at'[g] = "done" => Filled(g, HashWords)'
    <3>1. CASE UNCHANGED d_dag
      BY <1>2, <2>2, <2>4, <3>1 DEF Filled
    <3>2. CASE WriteWord(k)
      <4>1. \A l \in 0..(HashWords - 1) :
              d_dag[ItemPlace(Node(g)) + l] = <<Node(g), l>>
                => d_dag'[ItemPlace(Node(g)) + l] = <<Node(g), l>>
        BY <1>4, <3>2, WriteKeeps
      <4>2. at[g] = "write" => i[g] \in 0..(HashWords - 1)
        BY <1>1 DEF TypeOK
      <4>3. at[g] = "write" => Filled(g, i[g])'
        <5> SUFFICES ASSUME at[g] = "write", NEW l \in 0..(i[g] - 1)
                     PROVE  d_dag'[ItemPlace(Node(g)) + l] = <<Node(g), l>>
          BY <1>2, <2>4 DEF Filled
        <5>1. l \in 0..(HashWords - 1)
          BY <1>1, <4>2
        <5>. QED
          BY <2>2, <4>1, <5>1 DEF Filled
      <4>4. at[g] = "done" => Filled(g, HashWords)'
        BY <1>2, <2>2, <4>1 DEF Filled
      <4>. QED
        BY <2>4, <4>3, <4>4
    <3>. QED
      BY <2>4, <3>1, <3>2 DEF GpuStep, ReturnAtOnce, StartMix, MixParent
  <2>5. ASSUME GpuStep(g)
        PROVE  /\ at'[g] = "write" => Filled(g, i[g])'
               /\ at'[g] = "done" => Filled(g, HashWords)'
    <3>1. CASE ReturnAtOnce(g)
      BY <1>4, <3>1 DEF ReturnAtOnce
    <3>2. CASE StartMix(g)
      BY <3>2 DEF StartMix, TypeOK
    <3>3. CASE MixParent(g)
      <4>1. at'[g] = "mix" \/ (at'[g] = "write" /\ i'[g] = 0)
        BY <3>3 DEF MixParent, TypeOK
      <4>. QED
        BY <4>1 DEF Filled
    <3>4. CASE WriteWord(g)
      <4>1. at[g] = "write" /\ i[g] \in 0..(HashWords - 1) /\ Filled(g, i[g])
        BY <1>1, <2>2, <3>4 DEF WriteWord, TypeOK
      <4>2. \A l \in 0..i[g] : d_dag'[ItemPlace(Node(g)) + l] = <<Node(g), l>>
        <5> SUFFICES ASSUME NEW l \in 0..i[g]
                     PROVE  d_dag'[ItemPlace(Node(g)) + l] = <<Node(g), l>>
          OBVIOUS
        <5>1. l \in 0..(HashWords - 1)
          BY <1>1, <4>1
        <5>2. d_dag[ItemPlace(Node(g)) + l] = <<Node(g), l>> \/ l = i[g]
          BY <1>1, <4>1 DEF Filled
        <5>. QED
          BY <1>4, <3>4, <5>1, <5>2, WriteKeeps
      <4>3. i'[g] = i[g] + 1
        BY <3>4 DEF WriteWord, TypeOK
      <4>4. at'[g] = "done" => i[g] = HashWords - 1
        BY <1>1, <3>4, <4>1 DEF WriteWord, TypeOK
      <4>5. Filled(g, i[g])'
        BY <1>1, <1>2, <4>1, <4>2, <4>3 DEF Filled
      <4>6. at'[g] = "done" => Filled(g, HashWords)'
        BY <1>1, <1>2, <4>1, <4>2, <4>4 DEF Filled
      <4>. QED
        BY <4>5, <4>6
    <3>. QED
      BY <2>5, <3>1, <3>2, <3>3, <3>4 DEF GpuStep
  <2>6. \/ UNCHANGED <<i, d_dag>> /\ (at'[g] = at[g] \/ at'[g] = "enter")
        \/ GpuStep(g)
        \/ \E k \in GpuThreads : GpuStep(k) /\ k # g /\ at'[g] = at[g] /\ i'[g] = i[g]
    <3>1. CASE DeviceLost
      BY <1>4, <3>1 DEF DeviceLost
    <3>2. CASE \E k \in GpuThreads : GpuStep(k)
      <4>1. PICK k \in GpuThreads : GpuStep(k)
        BY <3>2
      <4>2. CASE k # g
        BY <4>1, <4>2 DEF GpuStep, ReturnAtOnce, StartMix, MixParent, WriteWord, TypeOK
      <4>. QED
        BY <4>1, <4>2
    <3>3. CASE HostStep \/ UNCHANGED vars
      BY <3>3 DEF HostStep, UploadCache, Launch, LaunchFails, Sync, FreeCache,
         UpdateEntry, vars, gpuVars
    <3>. QED
      BY <3>1, <3>2, <3>3 DEF Next, Returned
  <2>. QED
    BY <2>3, <2>4, <2>5, <2>6
<1>. QED
  BY <1>1, <1>2, <1>3, <1>4 DEF FillInv

-----------------------------------------------------------------------------

THEOREM GenerationInvariant == Spec => []GenerationInv
<1>1. GenerationInv /\ [Next]_vars => GenerationInv'
  BY TypeStep, WorkStep, AccessStep, PhaseStep, FillStep DEF GenerationInv
<1>. QED
  BY <1>1, GenerationInit, PTL DEF Spec

\* Every variable keeps its type: no GPU thread runs past the end of its loops.
THEOREM TypeCorrect == Spec => []TypeOK
<1>1. GenerationInv => TypeOK
  BY DEF GenerationInv
<1>. QED
  BY <1>1, GenerationInvariant, PTL

\* No GPU thread reads outside the light cache or writes outside the DAG, of
\* whatever size they are and however the indexes wrap.
THEOREM AccessesStayInside == Spec => []AccessesInside
<1>1. GenerationInv => AccessesInside
  BY DEF GenerationInv
<1>. QED
  BY <1>1, GenerationInvariant, PTL

\* The light cache is freed only when no GPU thread has anything to read any more.
THEOREM NoReadAfterFree == Spec => []CacheOutlivesReads
<1>1. GenerationInv => CacheOutlivesReads
  BY DEF GenerationInv, PhaseInv, TypeOK, CacheOutlivesReads
<1>. QED
  BY <1>1, GenerationInvariant, PTL

\* get_dag returns with every item in its place, all of it, if the DAG has at most
\* Word words, and only then, when nothing has failed.
THEOREM DagIsWhole == Spec => []WholeUpToWord
<1>1. ASSUME GenerationInv, host = "returned", ~failed, Items * HashWords <= Word PROVE Whole
  <2>1. /\ LayoutAssumption /\ Items \in Nat /\ epoch \in Epochs
        /\ Word \in Nat \ {0} /\ HashWords \in Nat \ {0}
    BY <1>1, Numbers DEF GenerationInv, TypeOK
  <2> SUFFICES ASSUME NEW n \in 0..(Items - 1), NEW k \in 0..(HashWords - 1)
               PROVE  d_dag[n * HashWords + k] = <<n, k>>
    BY DEF Whole
  <2>2. ItemPlace(n) = n * HashWords /\ n * HashWords + HashWords <= Word /\ n * HashWords \in Nat
    BY <1>1, <2>1, PlaceUpToWord
  <2>3. PICK b \in Blocks(Items), x \in Lanes : n = b * BlockSize + x
    BY <2>1, ThreadOfItem
  <2>4. n < Word /\ Items % Word = Items
    <3>1. Items < Word
      <4>1. ASSUME NEW m \in Nat, NEW h \in Nat \ {0, 1}
            PROVE  m * h = m + m + m * (h - 2) /\ m * (h - 2) \in Nat
        OBVIOUS
      <4>2. HashWords \in Nat \ {0, 1}
        BY <2>1 DEF LayoutAssumption
      <4>3. PICK rest \in Nat : Items * HashWords = Items + Items + rest
        BY <2>1, <4>1, <4>2
      <4>. QED
        BY <1>1, <2>1, <4>3
    <3>. QED
      BY <2>1, <3>1, NoWrap
  <2>5. NodeIndex(b, x) = n /\ <<b, x>> \in GpuThreads
    BY <2>1, <2>3, <2>4, NoWrap DEF NodeIndex, GpuThreads
  <2>6. Generates(Items, b, x)
    BY <2>1, <2>4, <2>5 DEF Generates
  <2>7. at[<<b, x>>] = "done"
    BY <1>1, <2>5 DEF GenerationInv, PhaseInv
  <2>8. Filled(<<b, x>>, HashWords)
    BY <1>1, <2>5, <2>6, <2>7 DEF GenerationInv, FillInv
  <2>. QED
    BY <2>1, <2>2, <2>5, <2>8 DEF Filled, Node
<1>2. ASSUME GenerationInv, Items * HashWords > Word PROVE ~Whole
  <2>1. /\ LayoutAssumption /\ Items \in Nat /\ epoch \in Epochs /\ HashWords \in Nat \ {0}
    BY <1>2, Numbers DEF GenerationInv, TypeOK
  <2>2. PICK k \in 0..(Items - 1) : k * HashWords = Word
    BY <1>2, <2>1, FirstItemTwice
  <2>3. d_dag[k * HashWords + 0] = None
    BY <1>2, <2>1, <2>2, Numbers DEF GenerationInv, FillInv
  <2>4. None # <<k, 0>>
    <3>1. None \notin Nat \X Nat
      BY GenerationAssumption
    <3>2. <<k, 0>> \in Nat \X Nat
      BY <2>1
    <3>. QED
      BY <3>1, <3>2
  <2>5. 0 \in 0..(HashWords - 1)
    BY <2>1
  <2>6. Whole => d_dag[k * HashWords + 0] = <<k, 0>>
    BY <2>5, Zenon DEF Whole
  <2>. QED
    BY <2>3, <2>4, <2>6
<1>3. GenerationInv => WholeUpToWord
  <2>1. GenerationInv => Items * HashWords \in Nat /\ Word \in Nat
    BY Numbers DEF GenerationInv, TypeOK
  <2>. QED
    BY <1>1, <1>2, <2>1 DEF WholeUpToWord
<1>. QED
  BY <1>3, GenerationInvariant, PTL


================================================================================
