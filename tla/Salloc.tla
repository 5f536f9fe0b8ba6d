------------------------------- MODULE Salloc -------------------------------
(* The simple allocator of src/salloc.c.  The free RAM of every region is a   *)
(* list of blocks, linked both ways through a header of one word              *)
(* (DYN_HEADER_SIZE) in front of each block, between two guards that are      *)
(* marked taken.  Addresses are counted in words of DYN_SIZE_MULT bytes, as   *)
(* the headers do; sizes that a caller asks for are in bytes.                 *)
EXTENDS Integers, Sequences, FiniteSetsExt, Functions

CONSTANTS
  MemStart, MemEnd,  \* MEM_START_ADDRESS and MEM_END_ADDRESS, one per region
  Sizes,             \* the sizes asked for, in bytes
  Values, Zero, Junk \* the words of a payload, see module Heap

DYN_SIZE_MULT == 8
DYN_HEADER_SIZE == 1  \* in words
DYN_MIN_SPLIT_SIZE == 2

NULL == 0

(* platform_get_first_free_ram and platform_get_last_free_ram: the bounds of  *)
(* a region, moved inwards to whole words.                                    *)
Regions == DOMAIN MemStart

Words(bytes) == ((bytes + DYN_SIZE_MULT) - 1) \div DYN_SIZE_MULT

FirstFreeRam(r) == Words(MemStart[r])

(* Wrong variant: the end of the region is moved outwards.                   *)
LastFreeRamOutwards(r) == Words(MemEnd[r]) + 1

LastFreeRam(r) ==
  IF MemEnd[r] % DYN_SIZE_MULT = 0 THEN MemEnd[r] \div DYN_SIZE_MULT
  ELSE (MemEnd[r] \div DYN_SIZE_MULT) - 1

(* The blocks at both ends of a region, which are never free.                 *)
FirstGuard(r) == FirstFreeRam(r)
LastGuard(r) == LastFreeRam(r) - 1

(* The words that lie wholly inside a region.                                 *)
Ram == UNION {FirstFreeRam(r) .. ((MemEnd[r] + 1) \div DYN_SIZE_MULT) - 1 :
                r \in Regions}

ASSUME SallocAssumption ==
  /\ Regions \subseteq Nat /\ IsFiniteSet(Regions)
  /\ \A r \in Regions : /\ MemStart[r] \in Nat \ {0}
                        /\ MemEnd[r] \in Nat
                        /\ FirstFreeRam(r) + 4 <= LastFreeRam(r)
  /\ \A r, q \in Regions : r < q => MemEnd[r] < MemStart[q]
  /\ Sizes \subseteq Nat

VARIABLES
  s_initialized,
  mem,   \* every word of RAM: a header or a word of somebody's payload
  live   \* the callers' view: the pointers they hold and the sizes they asked

vars == <<s_initialized, mem, live>>

Link == Ram \cup {NULL}
Header == [next : Link, prev : Link, taken : BOOLEAN]
Word == Values \cup {Zero, Junk}

Init ==
  /\ s_initialized = FALSE
  /\ mem = [w \in Ram |-> Junk]
  /\ live = << >>

-----------------------------------------------------------------------------
(* The list: m is the memory an operation works on, and every helper gives    *)
(* the memory it leaves.                                                      *)

IsFree(m, b) == ~m[b].taken

BlockSize(m, b) == IF m[b].next = NULL THEN 0 ELSE m[b].next - b

NewBlock(next, prev, taken) == [next |-> next, prev |-> prev, taken |-> taken]

(* s_init: in each region a guard, one free block, a guard.                   *)
Initialized ==
  LET blocks(r) ==
        LET g1 == FirstGuard(r)
            g2 == LastGuard(r)
        IN  [w \in Ram |-> CASE w = g1 -> NewBlock(g1 + 1, NULL, TRUE)
                             [] w = g1 + 1 -> NewBlock(g2, g1, FALSE)
                             [] w = g2 -> NewBlock(NULL, g1 + 1, TRUE)
                             [] OTHER -> mem[w]]
      region(w) == CHOOSE r \in Regions : MemStart[r] <= w * DYN_SIZE_MULT
                     /\ w * DYN_SIZE_MULT <= MemEnd[r]
  IN  IF s_initialized THEN mem
      ELSE [w \in Ram |-> blocks(region(w))[w]]

(* The first taken block before b, and the first one behind it; no walk along *)
(* a list takes more steps than RAM has words.                                *)
Steps == 0..Cardinality(Ram)

TakenBefore(m, b) ==
  LET walk[i \in Steps] ==
        IF i = 0 THEN b
        ELSE LET c == walk[i - 1] IN IF IsFree(m, c) THEN m[c].prev ELSE c
  IN  walk[Cardinality(Ram)]

TakenAfter(m, b) ==
  LET walk[i \in Steps] ==
        IF i = 0 THEN b
        ELSE LET c == walk[i - 1] IN IF IsFree(m, c) THEN m[c].next ELSE c
  IN  walk[Cardinality(Ram)]

(* Wrong variant: only the free blocks behind are joined.                    *)
CompactFreeForward(m, b) ==
  LET temp2 == TakenAfter([m EXCEPT ![b].taken = FALSE], b)
      merged == [m EXCEPT ![b] = [@ EXCEPT !.taken = FALSE, !.next = temp2],
                          ![temp2].prev = b]
  IN  [w \in Ram |-> IF b < w /\ w < temp2 THEN Junk ELSE merged[w]]

(* s_compact_free: mark b free and make one block of it and of its free       *)
(* neighbours.  What the block held, and headers that are in it now, is Junk. *)
CompactFree(m, b) ==
  LET freed == [m EXCEPT ![b].taken = FALSE]
      temp1 == freed[TakenBefore(freed, b)].next
      temp2 == TakenAfter(freed, b)
      merged == IF temp1 # b \/ freed[temp2].prev # b
                THEN [freed EXCEPT ![temp1].next = temp2, ![temp2].prev = temp1]
                ELSE freed
  IN  [w \in Ram |-> IF temp1 < w /\ w < temp2 THEN Junk ELSE merged[w]]

(* The end of s_get_free_block and of s_shrink_block: block b keeps size      *)
(* words and the rest becomes a free block, when it is large enough.  The     *)
(* flag of the new header is, until s_compact_free clears it, what was there. *)
CutTo(m, b, size, stale) ==
  LET temp == b + size
      next == m[b].next
  IN  IF BlockSize(m, b) - size < DYN_MIN_SPLIT_SIZE THEN m
      ELSE CompactFree([m EXCEPT ![temp] = NewBlock(next, b, stale),
                                 ![next].prev = temp,
                                 ![b].next = temp], temp)

(* Wrong variant: the last, incomplete word is not counted.                  *)
ActSizeDown(bytes) == (bytes \div DYN_SIZE_MULT) + DYN_HEADER_SIZE

(* The size of the block that serves a request: s_act_size.                   *)
ActSize(bytes) == Words(bytes + DYN_HEADER_SIZE * DYN_SIZE_MULT)

(* The blocks of a region in the order of the list, from the first guard on,  *)
(* and NULL behind the last one.                                              *)
Places(r) == 0..(LastGuard(r) - FirstGuard(r)) + 1

Chain(m, r) ==
  LET chain[i \in Places(r)] ==
        IF i = 0 THEN FirstGuard(r)
        ELSE LET b == chain[i - 1] IN IF b = NULL THEN NULL ELSE m[b].next
  IN  chain

Blocks(m, r) == {Chain(m, r)[i] : i \in Places(r)} \ {NULL}

(* s_get_free_block: the smallest free block that is large enough, the first  *)
(* of them in the list.                                                       *)
Fits(m, b, bytes) ==
  b # NULL /\ IsFree(m, b) /\ ActSize(bytes) <= BlockSize(m, b)

FreeBlock(m, bytes, r) ==
  LET list == Chain(m, r)
      size(i) == BlockSize(m, list[i])
      fit == {i \in Places(r) : Fits(m, list[i], bytes)}
      best == CHOOSE i \in fit :
                \A j \in fit : size(i) < size(j) \/ (size(i) = size(j) /\ i <= j)
  IN  IF bytes = 0 \/ fit = {} THEN NULL ELSE list[best]

(* smalloc: the block of the first region that has one, or NULL.              *)
Found(m, bytes) ==
  LET having == {r \in Regions : FreeBlock(m, bytes, r) # NULL}
  IN  IF having = {} THEN NULL ELSE FreeBlock(m, bytes, Min(having))

Taken(m, b, bytes, stale) ==
  CutTo([m EXCEPT ![b].taken = TRUE], b, ActSize(bytes), stale)

Pointer(b) == b + DYN_HEADER_SIZE
BlockOf(p) == p - DYN_HEADER_SIZE

ActualBlockSize(m, p) == BlockSize(m, BlockOf(p)) - DYN_HEADER_SIZE

With(p, bytes) ==
  [q \in DOMAIN live \cup {p} |-> IF q = p THEN bytes ELSE live[q]]

Without(p) == Restrict(live, DOMAIN live \ {p})

-----------------------------------------------------------------------------
(* The entry points.  Each of them initializes the list if nobody did.        *)

Smalloc(bytes, stale) ==
  LET b == Found(Initialized, bytes)
  IN  /\ s_initialized' = TRUE
      /\ IF b = NULL THEN mem' = Initialized /\ UNCHANGED live
         ELSE /\ mem' = Taken(Initialized, b, bytes, stale)
              /\ live' = With(Pointer(b), bytes)

Filled(m, p, bytes, v) ==
  [w \in Ram |-> IF w \in p .. (p + Words(bytes)) - 1 THEN v ELSE m[w]]

(* scalloc( nmemb, size ), where bytes is the product.                        *)
Scalloc(bytes, stale) ==
  LET b == Found(Initialized, bytes)
  IN  /\ s_initialized' = TRUE
      /\ IF b = NULL THEN mem' = Initialized /\ UNCHANGED live
         ELSE /\ mem' = Filled(Taken(Initialized, b, bytes, stale), Pointer(b),
                               bytes, Zero)
              /\ live' = With(Pointer(b), bytes)

Sfree(p) ==
  /\ s_initialized
  /\ mem' = CompactFree(mem, BlockOf(p))
  /\ live' = Without(p)
  /\ UNCHANGED s_initialized

(* memmove of the whole payload of the old block into the new one.            *)
Moved(m, to, from) ==
  [w \in Ram |-> IF w \in to .. (to + ActualBlockSize(m, from)) - 1
                 THEN m[(w - to) + from] ELSE m[w]]

(* Wrong variant: the old block is never freed.                              *)
MovingLeaks(p, b, bytes, stale) ==
  Moved(Taken(mem, b, bytes, stale), Pointer(b), p)

(* srealloc that moves: a new block, the copy, and the old block is freed.    *)
Moving(p, b, bytes, stale) ==
  CompactFree(Moved(Taken(mem, b, bytes, stale), Pointer(b), p), BlockOf(p))

(* srealloc: p itself when the size is the one it has, a shorter block in the *)
(* same place, or a move; with no memory to move to, nothing happens.         *)
Srealloc(p, bytes, stale) ==
  LET have == ActualBlockSize(mem, p) * DYN_SIZE_MULT
      b == Found(mem, bytes)
  IN  /\ s_initialized
      /\ bytes > 0
      /\ UNCHANGED s_initialized
      /\ \/ /\ bytes = have
            /\ live' = With(p, bytes)
            /\ UNCHANGED mem
         \/ /\ bytes < have
            /\ mem' = CutTo(mem, BlockOf(p), ActSize(bytes), stale)
            /\ live' = With(p, bytes)
         \/ /\ bytes > have
            /\ b # NULL
            /\ mem' = Moving(p, b, bytes, stale)
            /\ live' = [q \in (DOMAIN live \ {p}) \cup {Pointer(b)} |->
                          IF q = Pointer(b) THEN bytes ELSE live[q]]
         \/ /\ bytes > have
            /\ b = NULL
            /\ UNCHANGED <<mem, live>>

(* A caller stores into the memory it was given.                              *)
Store(p, v) ==
  /\ mem' = Filled(mem, p, live[p], v)
  /\ UNCHANGED <<s_initialized, live>>

Next ==
  \/ \E bytes \in Sizes, stale \in BOOLEAN :
        Smalloc(bytes, stale) \/ Scalloc(bytes, stale)
  \/ \E p \in DOMAIN live :
        \/ Sfree(p)
        \/ \E bytes \in Sizes, stale \in BOOLEAN : Srealloc(p, bytes, stale)
        \/ \E v \in Values : Store(p, v)

Spec == Init /\ [][Next]_vars

-----------------------------------------------------------------------------
(* Type invariant of the allocator: every word of RAM is a header whose links *)
(* stay in RAM or a word of payload.                                          *)
TypeOK ==
  /\ s_initialized \in BOOLEAN
  /\ mem \in [Ram -> Header \cup Word]
  /\ DOMAIN live \subseteq Ram
  /\ \A p \in DOMAIN live : live[p] \in Sizes

(* Whatever was allocated, shrunk, moved and released before, the blocks of a *)
(* region follow each other without a gap from guard to guard, the links      *)
(* backwards mirror those forwards, each has room for a payload, and no two   *)
(* free blocks are neighbours: memory that is free in one piece can be asked  *)
(* for in one piece (s_compact_free, s_get_free_block, s_shrink_block).       *)
Coalesced ==
  s_initialized => \A r \in Regions :
    LET blocks == Blocks(mem, r)
    IN  /\ LastGuard(r) \in blocks
        /\ ~IsFree(mem, FirstGuard(r)) /\ ~IsFree(mem, LastGuard(r))
        /\ \A b \in blocks \ {LastGuard(r)} :
             LET next == mem[b].next
             IN  /\ b < next /\ next <= LastGuard(r)
                 /\ mem[next].prev = b
                 /\ ~(IsFree(mem, b) /\ IsFree(mem, next))
                 /\ b # FirstGuard(r) => BlockSize(mem, b) >= DYN_MIN_SPLIT_SIZE

(* A block is marked taken exactly when a caller holds the pointer to it:     *)
(* nothing leaks, and no block that is in use can be handed out again         *)
(* (srealloc's free of the block it moved away from, sfree, smalloc).         *)
TakenAreLive ==
  s_initialized =>
    DOMAIN live =
      {Pointer(b) : b \in UNION {
         {c \in Blocks(mem, r) \ {FirstGuard(r), LastGuard(r)} : ~IsFree(mem, c)} :
         r \in Regions}}

(* The allocator keeps the promise of module Heap: the pieces it hands out    *)
(* lie in RAM, do not overlap each other, and keep what was stored in them,   *)
(* headers written around them and moves included.                            *)
heap == INSTANCE Heap WITH
  Lengths <- {Words(bytes) : bytes \in Sizes \ {0}},
  live <- [p \in DOMAIN live |->
             [i \in 1..Words(live[p]) |-> mem[(p + i) - 1]]]

ImplementsHeap == heap!Spec
=============================================================================
