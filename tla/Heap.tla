--------------------------------- MODULE Heap ---------------------------------
(***************************************************************************)
(* The kernel heap of src/utility/utility.c: malloc, calloc, free and      *)
(* realloc on the static memory_pool.                                      *)
(*                                                                         *)
(* The list of blocks from heap_start is the sequence heap; a block keeps  *)
(* the address of its header, an offset into memory_pool.  Every call runs *)
(* to its end before the next (commands and task bodies run with           *)
(* interrupts off).  Clients are the pointers callers hold: the model      *)
(* keeps what each asked for and how much of its own data is still there.  *)
(***************************************************************************)
EXTENDS Integers, Sequences, FiniteSets

CONSTANTS
  MEMORY_POOL_SIZE,   \* 8 MB in the code
  HEADER,             \* sizeof(Block), 12 in the code
  ALIGN,              \* sizes are rounded up to it, 8 in the code
  POOL_BASE,          \* the address of memory_pool
  Clients,            \* the holders of pointers
  Sizes               \* the sizes callers ask for, 0 included

ASSUME HeapAssumption ==
  /\ MEMORY_POOL_SIZE \in Nat /\ HEADER <= MEMORY_POOL_SIZE
  /\ HEADER \in Nat \ {0}
  /\ ALIGN \in Nat \ {0}
  /\ POOL_BASE \in Nat
  /\ Sizes \subseteq Nat

VARIABLES
  heap,    \* the blocks, in list order
  live     \* for each client none, or its pointer, the size it asked for and
           \* how many leading bytes hold what it wrote

heapVars == <<heap, live>>

Block == [addr : Int, size : Int, is_free : BOOLEAN]

NULL == -1
None == [ptr |-> NULL, size |-> 0, data |-> 0]

HeapInit ==
  /\ heap = <<>>
  /\ live = [c \in Clients |-> None]

-----------------------------------------------------------------------------
(* malloc: first fit, split, or a new block behind the last one.           *)

RoundUp_down(n) == (n \div ALIGN) * ALIGN     \* Mutant: rounds down.

RoundUp(n) == ((n + ALIGN - 1) \div ALIGN) * ALIGN

Fits(h, k, n) == h[k].is_free /\ h[k].size >= RoundUp(n)

SomeFit(h, n) == \E k \in 1 .. Len(h) : Fits(h, k, n)

FirstFit(h, n) ==
  CHOOSE k \in 1 .. Len(h) : Fits(h, k, n) /\ \A j \in 1 .. k - 1 : ~Fits(h, j, n)

\* What is left of block k is worth a block of its own.
Splits(h, k, n) == h[k].size >= RoundUp(n) + HEADER + ALIGN

Split_overlap(h, k, n) ==     \* Mutant: the rest is taken to be a header longer.
  [i \in 1 .. Len(h) + 1 |->
     IF i < k THEN h[i]
     ELSE IF i = k THEN [addr |-> h[k].addr, size |-> RoundUp(n), is_free |-> FALSE]
     ELSE IF i = k + 1
          THEN [addr |-> h[k].addr + HEADER + RoundUp(n),
                size |-> h[k].size - RoundUp(n), is_free |-> TRUE]
     ELSE h[i - 1]]

\* Block k keeps the first n bytes, a free block behind it the rest.
Split(h, k, n) ==
  [i \in 1 .. Len(h) + 1 |->
     IF i < k THEN h[i]
     ELSE IF i = k THEN [addr |-> h[k].addr, size |-> RoundUp(n), is_free |-> FALSE]
     ELSE IF i = k + 1
          THEN [addr |-> h[k].addr + HEADER + RoundUp(n),
                size |-> h[k].size - RoundUp(n) - HEADER, is_free |-> TRUE]
     ELSE h[i - 1]]

Take(h, k, n) == IF Splits(h, k, n) THEN Split(h, k, n) ELSE [h EXCEPT ![k].is_free = FALSE]

\* Where the next block would start, behind the last one.
EndOf(h) == IF h = <<>> THEN 0 ELSE h[Len(h)].addr + HEADER + h[Len(h)].size

Room(h, n) == EndOf(h) + HEADER + RoundUp(n) <= MEMORY_POOL_SIZE

\* The heap after malloc(n), n > 0.  A first request that does not fit
\* leaves heap_start at the zeroed pool: an allocated block of size 0.
MallocHeap(h, n) ==
  IF SomeFit(h, n) THEN Take(h, FirstFit(h, n), n)
  ELSE IF Room(h, n)
       THEN Append(h, [addr |-> EndOf(h), size |-> RoundUp(n), is_free |-> FALSE])
       ELSE IF h = <<>> THEN <<[addr |-> 0, size |-> 0, is_free |-> FALSE]>>
       ELSE h

\* The pointer malloc(n) returns.
MallocPtr(h, n) ==
  IF n = 0 THEN NULL
  ELSE IF SomeFit(h, n) THEN h[FirstFit(h, n)].addr + HEADER
  ELSE IF Room(h, n) THEN EndOf(h) + HEADER ELSE NULL

-----------------------------------------------------------------------------
(* free: the block is marked, then merged with its neighbours.             *)

\* Block k swallows block k + 1.
Merge(h, k) ==
  [i \in 1 .. Len(h) - 1 |->
     IF i < k THEN h[i]
     ELSE IF i = k THEN [h[k] EXCEPT !.size = @ + HEADER + h[k + 1].size]
     ELSE h[i + 1]]

MergeNext(h, k) == IF k < Len(h) /\ h[k + 1].is_free THEN Merge(h, k) ELSE h

MergePrev_never(h, k) == h     \* Mutant: no merge with the block before.

MergePrev(h, k) == IF k > 1 /\ h[k - 1].is_free THEN Merge(h, k - 1) ELSE h

\* The block of pointer p.
BlockOf(h, p) == CHOOSE k \in 1 .. Len(h) : h[k].addr + HEADER = p

FreeHeap(h, p) ==
  LET k == BlockOf(h, p)
  IN MergePrev(MergeNext([h EXCEPT ![k].is_free = TRUE], k), k)

-----------------------------------------------------------------------------
(* The calls.                                                              *)

\* malloc, and calloc, which only clears again what malloc has cleared.
malloc(c, n) ==
  /\ live[c] = None
  /\ n > 0
  /\ heap' = MallocHeap(heap, n)
  /\ live' = IF MallocPtr(heap, n) = NULL THEN live
             ELSE [live EXCEPT ![c] = [ptr |-> MallocPtr(heap, n), size |-> n, data |-> 0]]

\* The client writes all it asked for.
fill(c) ==
  /\ live[c] # None
  /\ live' = [live EXCEPT ![c].data = live[c].size]
  /\ UNCHANGED heap

free(c) ==
  /\ live[c] # None
  /\ heap' = FreeHeap(heap, live[c].ptr)
  /\ live' = [live EXCEPT ![c] = None]

Least(a, b) == IF a < b THEN a ELSE b

\* The word in front of the pointer, which realloc takes for the size of the
\* block: it is the header's last field, the address of the next block or 0.
WordBefore(p) ==
  LET k == BlockOf(heap, p) IN IF k < Len(heap) THEN POOL_BASE + heap[k + 1].addr ELSE 0

realloc_leak(c, n) ==     \* Mutant: the old block is not given back.
  /\ live[c] # None
  /\ n > 0
  /\ MallocPtr(heap, n) # NULL
  /\ heap' = MallocHeap(heap, n)
  /\ live' = [live EXCEPT ![c] =
                [ptr |-> MallocPtr(heap, n), size |-> n,
                 data |-> Least(live[c].data, Least(n, WordBefore(live[c].ptr)))]]

\* realloc of a pointer in use to n > 0; for 0 it is free, for NULL malloc,
\* and without room for the copy it changes nothing.
realloc(c, n) ==
  /\ live[c] # None
  /\ n > 0
  /\ MallocPtr(heap, n) # NULL
  /\ heap' = FreeHeap(MallocHeap(heap, n), live[c].ptr)
  /\ live' = [live EXCEPT ![c] =
                [ptr |-> MallocPtr(heap, n), size |-> n,
                 data |-> Least(live[c].data, Least(n, WordBefore(live[c].ptr)))]]

HeapNext ==
  \E c \in Clients :
    \/ fill(c)
    \/ free(c)
    \/ \E n \in Sizes : malloc(c, n) \/ realloc(c, n)

HeapSpec == HeapInit /\ [][HeapNext]_heapVars

-----------------------------------------------------------------------------
(* Type invariant.                                                         *)
HeapTypeOK ==
  /\ heap \in Seq(Block)
  /\ \A c \in Clients : live[c] = None \/ live[c].data \in 0 .. live[c].size

(* The blocks tile the pool: each starts where the one before ends, so no  *)
(* header lies inside another block however blocks were split and merged.  *)
BlocksTile ==
  /\ \A k \in 1 .. Len(heap) : heap[k].size >= 0
  /\ heap # <<>> => heap[1].addr = 0
  /\ \A k \in 1 .. Len(heap) - 1 : heap[k + 1].addr = heap[k].addr + HEADER + heap[k].size
  /\ EndOf(heap) <= MEMORY_POOL_SIZE

(* Free space never stays in two pieces side by side: a request fails only *)
(* if no run of free bytes between two allocations can take it.            *)
FreeBlocksMerged == \A k \in 1 .. Len(heap) - 1 : ~(heap[k].is_free /\ heap[k + 1].is_free)

Bytes(a, n) == a .. a + n - 1

(* What a client was given is its own: inside the pool, apart from every   *)
(* other client's bytes and from every block header.                       *)
LiveDisjoint ==
  \A c \in {d \in Clients : live[d] # None} :
    LET mine == Bytes(live[c].ptr, live[c].size) IN
    /\ mine \subseteq 0 .. MEMORY_POOL_SIZE - 1
    /\ \A d \in Clients \ {c} : mine \cap Bytes(live[d].ptr, live[d].size) = {}
    /\ \A k \in 1 .. Len(heap) : mine \cap Bytes(heap[k].addr, HEADER) = {}

(* No block is lost: whatever is not free belongs to one client (but the   *)
(* empty block a failed first request leaves).                             *)
UsedBlocksOwned ==
  \A k \in 1 .. Len(heap) :
    ~heap[k].is_free /\ heap[k].size > 0
      => \E c \in Clients : live[c].ptr = heap[k].addr + HEADER

(* The heap as the callers of malloc, free and realloc rely on it, through *)
(* any sequence of their calls: the blocks tile the pool, free neighbours  *)
(* are merged, what a client holds is its own, and nothing is lost.        *)
HeapSound == BlocksTile /\ FreeBlocksMerged /\ LiveDisjoint /\ UsedBlocksOwned

(* Block keeps "Size of usable memory (not including header)", and realloc *)
(* means to copy that much, or the new size if it is less: what the client *)
(* wrote survives up to the smaller of the two sizes.                      *)
ReallocKeepsData ==
  [][\A c \in Clients :
       live[c] # None /\ live'[c] # None
         => live'[c].data >= Least(live[c].data, live'[c].size)]_heapVars
=============================================================================
