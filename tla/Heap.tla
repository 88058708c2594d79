-------------------------------- MODULE Heap ---------------------------------
(***************************************************************************)
(* malloc.c: blocks with a head in front, taken from the firmware's pool   *)
(* or, for a boundary other than 8, from its pages, and given back by what *)
(* the head and the caller's pointer say.  Everything is in bytes; an      *)
(* address is counted from the start of the memory it is in, which the     *)
(* firmware aligns to the boundary.                                        *)
(***************************************************************************)
EXTENDS Integers

CONSTANTS PageBytes,
          HeadSize,     \* sizeof(CPOOL_HEAD)
          DataOffset,   \* where Data is in it: 16 of 16 on ARM, 28 of 32 on AARCH64
          Pointers,     \* bound: names for what the caller holds
          Sizes, Boundaries \* what it asks for

ASSUME HeapAssumption ==
  Sizes \subseteq Nat /\ Boundaries \subseteq Nat \ {0} /\ HeadSize \in Nat /\ DataOffset \in Nat

VARIABLES heap,     \* pointer -> its address, and what the head before it says:
                    \* [data, size, boundary, type]
          taken,    \* pointer -> what the firmware gave: [kind, amount, at]
          misuse    \* memory was given back that was not taken like this,
                    \* or copied from or to where no block is
heapVars == <<heap, taken, misuse>>

Pool == 8                        \* malloc's boundary
NoBlocks == [x \in {} |-> 0]
HeapInit == heap = NoBlocks /\ taken = NoBlocks /\ misuse = FALSE

AlignValue(n, b) == ((n + b - 1) \div b) * b
SizeToPages(n)   == (n + PageBytes - 1) \div PageBytes
NodeSize(size, boundary) == AlignValue(HeadSize, boundary) + size

(* What memalign gets from the firmware: the head ends where the boundary  *)
(* is reached again, and the caller is given the address of its Data.      *)
Amount(type, node, at) ==
  [kind |-> type, at |-> at, amount |-> IF type = "pool" THEN node ELSE SizeToPages(node)]
BlockHead(size, boundary) ==
  [size |-> size, boundary |-> boundary, type |-> IF boundary = Pool THEN "pool" ELSE "pages",
   data |-> AlignValue(HeadSize, boundary) - HeadSize + DataOffset]

(* What free gives back: as much as the head tells, from as far before the *)
(* caller's pointer as the aligned head is long.                           *)
ReturnedBug(h) == Amount(h.type, HeadSize + h.size, h.data - HeadSize)

Returned(h) ==
  Amount(h.type, NodeSize(h.size, h.boundary), h.data - AlignValue(HeadSize, h.boundary))

TakenWith(p, size, boundary, from) ==
  heap' = [x \in {p} \cup (DOMAIN heap \ from) |->
             IF x = p THEN BlockHead(size, boundary) ELSE heap[x]]
Gives(p, size, boundary, from) ==
  taken' = [x \in {p} \cup (DOMAIN taken \ from) |->
              IF x = p THEN Amount(BlockHead(size, boundary).type, NodeSize(size, boundary), 0)
              ELSE taken[x]]
GivesBack(p) == taken[p] # Returned(heap[p])

(* memalign, malloc and calloc.  A size of zero, and an allocation that    *)
(* fails, change nothing.                                                  *)
Memalign == \E p \in Pointers \ DOMAIN heap, size \in Sizes \ {0}, b \in Boundaries :
              TakenWith(p, size, b, {}) /\ Gives(p, size, b, {}) /\ UNCHANGED misuse

FreeBlock(p) == /\ misuse' = (misuse \/ GivesBack(p))
                /\ heap'  = [x \in DOMAIN heap \ {p} |-> heap[x]]
                /\ taken' = [x \in DOMAIN taken \ {p} |-> taken[x]]
Free == \E p \in DOMAIN heap : FreeBlock(p)

(* realloc: the same block for the same size; else a new one from the pool *)
(* with as much of the old as both hold.  About a block of pages it only   *)
(* complains.                                                              *)
NumCpy(old, new) == IF old < new THEN old ELSE new
Realloc ==
  \E p \in DOMAIN heap, new \in Sizes :
    LET old == heap[p].size
        n   == NumCpy(old, new)
    IN  /\ new # old
        /\ IF new = 0 THEN FreeBlock(p)
           ELSE \E q \in Pointers \ DOMAIN heap :
                  /\ TakenWith(q, new, Pool, {p}) /\ Gives(q, new, Pool, {p})
                  /\ misuse' = (misuse \/ GivesBack(p) \/ n > old \/ n > new)

HeapNext == Memalign \/ Free \/ Realloc
HeapSpec == HeapInit /\ [][HeapNext]_heapVars
-----------------------------------------------------------------------------
(* What is given back is what was taken: as much, in the same way and from *)
(* the same address; and no copy leaves the blocks it is between (free,    *)
(* realloc).                                                               *)
RegionsAreReclaimed == ~misuse

(* Whatever way a block came and went, the firmware gets back exactly what *)
(* it gave, so that no neighbour is freed with it, and what the caller     *)
(* holds is aligned as it asked (memalign, free, realloc).                 *)
BlocksComeBackWhole ==
  RegionsAreReclaimed /\ \A p \in DOMAIN heap : heap[p].data % heap[p].boundary = 0
=============================================================================
