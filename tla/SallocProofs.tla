---------------------------- MODULE SallocProofs ----------------------------
(* What module Salloc promises of the simple allocator, proved for any        *)
(* regions of RAM, sizes of requests and sequence of calls: the lists stay    *)
(* whole and coalesced (Coalesced), a block is taken exactly when a caller    *)
(* holds it (TakenAreLive), and what the callers see is a heap whose pieces   *)
(* do not overlap and keep their contents (ImplementsHeap).                   *)
EXTENDS Salloc, FiniteSetTheorems, WellFoundedInduction, TLAPS

-----------------------------------------------------------------------------
(* A list of blocks: m is the memory, B the addresses of its blocks.          *)

Lows == {FirstGuard(r) : r \in Regions}
Highs == {LastGuard(r) : r \in Regions}
Inner(B) == B \ (Lows \cup Highs)

(* No block lies between b and n, which are neighbours.                       *)
Follows(m, B, b, n) ==
  /\ n \in B \ Lows /\ b < n
  /\ m[n].prev = b
  /\ \A c \in B : c <= b \/ n <= c

Linked(m, B) ==
  /\ \A b \in B \ Highs : Follows(m, B, b, m[b].next)
  /\ \A b \in B \ Lows : m[b].prev \in B \ Highs /\ m[m[b].prev].next = b

List(m, B) ==
  /\ m \in [Ram -> Header \cup Word]
  /\ B \subseteq Ram /\ Lows \subseteq B /\ Highs \subseteq B
  /\ \A b \in B : m[b] \in Header /\ \E r \in Regions : b \in FirstGuard(r)..LastGuard(r)
  /\ \A w \in Ram \ B : m[w] \in Word
  /\ \A b \in Lows \cup Highs : ~IsFree(m, b)
  /\ \A b \in Highs : m[b].next = NULL
  /\ Linked(m, B)
  /\ \A b \in Inner(B) : b + DYN_MIN_SPLIT_SIZE <= m[b].next

(* No two free blocks are neighbours, but perhaps at b.                       *)
Apart(m, B) == \A c \in B \ Highs : ~(IsFree(m, c) /\ IsFree(m, m[c].next))

ApartBut(m, B, b) ==
  \A c \in B \ Highs : c # b /\ m[c].next # b => ~(IsFree(m, c) /\ IsFree(m, m[c].next))

Good(m, B) == List(m, B) /\ Apart(m, B)

(* The blocks that are in use, and that an operation leaves as they are.      *)
Used(m, B) == {b \in Inner(B) : ~IsFree(m, b)}

Untouched(m, m1, U) ==
  \A c \in U : /\ m1[c].next = m[c].next
               /\ \A w \in Ram : c < w /\ w < m[c].next => m1[w] = m[w]

(* Callers hold the blocks in use, and each block has room for its request.   *)
Owned(m, l, B) ==
  /\ DOMAIN l = {Pointer(b) : b \in Used(m, B)}
  /\ \A b \in Used(m, B) : /\ l[Pointer(b)] \in Sizes \ {0}
                           /\ b + ActSize(l[Pointer(b)]) <= m[b].next

(* All blocks of the memory m.                                                *)
Whole(m) == UNION {Blocks(m, r) : r \in Regions}

IInv ==
  /\ s_initialized \in BOOLEAN
  /\ s_initialized => Good(mem, Whole(mem)) /\ Owned(mem, live, Whole(mem))
  /\ ~s_initialized => mem = [w \in Ram |-> Junk] /\ live = << >>

-----------------------------------------------------------------------------
(* Induction over the naturals, from the library's theorem that every set of  *)
(* naturals has a least element.                                              *)

Smaller == {ss \in Nat \X Nat : ss[1] < ss[2]}

LEMMA SmallerWellFounded == IsWellFoundedOn(Smaller, Nat)
  BY NatLessThanWellFounded DEF OpToRel, Smaller

LEMMA Induct ==
    ASSUME NEW T, 0 \in T, \A n \in Nat : n \in T => n + 1 \in T
    PROVE  Nat \subseteq T
  <1> SUFFICES ASSUME Nat \ T # {} PROVE FALSE
    OBVIOUS
  <1>1. PICK x \in Nat \ T : \A y \in Nat \ T : <<y, x>> \notin Smaller
    BY SmallerWellFounded, WFMin
  <1>2. x - 1 \in Nat /\ x - 1 < x
    BY <1>1
  <1>3. x - 1 \in T
    BY <1>1, <1>2 DEF Smaller
  <1> QED
    BY <1>1, <1>2, <1>3

-----------------------------------------------------------------------------
(* Regions and sizes.                                                         *)

LEMMA RegionFacts ==
    ASSUME NEW r \in Regions
    PROVE  /\ FirstGuard(r) \in Nat \ {0} /\ LastGuard(r) \in Nat
           /\ FirstGuard(r) + 3 <= LastGuard(r)
           /\ FirstGuard(r)..LastGuard(r) \subseteq Ram
  <1>1. /\ MemStart[r] \in Nat \ {0} /\ MemEnd[r] \in Nat
        /\ FirstFreeRam(r) + 4 <= LastFreeRam(r)
    BY SallocAssumption
  <1>2. FirstGuard(r) \in Nat \ {0}
    BY <1>1 DEF FirstGuard, FirstFreeRam, Words, DYN_SIZE_MULT
  <1>3. LastGuard(r) \in Int /\ LastGuard(r) <= ((MemEnd[r] + 1) \div DYN_SIZE_MULT) - 1
        /\ ((MemEnd[r] + 1) \div DYN_SIZE_MULT) - 1 \in Int
    BY <1>1 DEF LastGuard, LastFreeRam, DYN_SIZE_MULT
  <1>4. FirstGuard(r) + 3 <= LastGuard(r)
    BY <1>1, <1>2, <1>3 DEF FirstGuard, LastGuard, LastFreeRam, DYN_SIZE_MULT
  <1>5. FirstGuard(r)..LastGuard(r)
          \subseteq FirstFreeRam(r)..((MemEnd[r] + 1) \div DYN_SIZE_MULT) - 1
    BY <1>2, <1>3 DEF FirstGuard
  <1>6. FirstGuard(r)..LastGuard(r) \subseteq Ram
    BY <1>5 DEF Ram
  <1> QED
    BY <1>2, <1>3, <1>4, <1>6

LEMMA RamFacts ==
  \A w \in Ram : /\ w \in Nat \ {0}
                 /\ \E r \in Regions : /\ FirstGuard(r) <= w
                                       /\ MemStart[r] <= w * DYN_SIZE_MULT
                                       /\ w * DYN_SIZE_MULT <= MemEnd[r]
  <1> SUFFICES ASSUME NEW w \in Ram
               PROVE  /\ w \in Nat \ {0}
                      /\ \E r \in Regions : /\ FirstGuard(r) <= w
                                            /\ MemStart[r] <= w * DYN_SIZE_MULT
                                            /\ w * DYN_SIZE_MULT <= MemEnd[r]
    OBVIOUS
  <1>1. PICK r \in Regions :
          w \in FirstFreeRam(r)..((MemEnd[r] + 1) \div DYN_SIZE_MULT) - 1
    BY DEF Ram
  <1>2. MemStart[r] \in Nat \ {0} /\ MemEnd[r] \in Nat
    BY SallocAssumption
  <1>3. PICK lo \in Nat \ {0}, hi \in Int :
          /\ lo = FirstFreeRam(r) /\ hi = ((MemEnd[r] + 1) \div DYN_SIZE_MULT) - 1
          /\ MemStart[r] <= lo * 8 /\ hi * 8 <= MemEnd[r]
    BY <1>2 DEF FirstFreeRam, Words, DYN_SIZE_MULT
  <1>4. w \in Nat \ {0} /\ lo <= w /\ w <= hi
    BY <1>1, <1>3
  <1>5. MemStart[r] <= w * 8 /\ w * 8 <= MemEnd[r]
    BY <1>2, <1>3, <1>4
  <1> QED
    BY <1>3, <1>4, <1>5 DEF FirstGuard, DYN_SIZE_MULT

(* The regions do not overlap.                                                *)
LEMMA RegionsApart ==
    ASSUME NEW r \in Regions, NEW q \in Regions, r # q
    PROVE  LastGuard(r) < FirstGuard(q) \/ LastGuard(q) < FirstGuard(r)
  <1>1. ASSUME NEW s \in Regions, NEW t \in Regions, s < t
        PROVE  LastGuard(s) < FirstGuard(t)
    <2>1. MemEnd[s] < MemStart[t] /\ MemEnd[s] \in Nat /\ MemStart[t] \in Nat
      BY <1>1, SallocAssumption
    <2> QED
      BY <2>1 DEF LastGuard, LastFreeRam, FirstGuard, FirstFreeRam, Words, DYN_SIZE_MULT
  <1>2. r < q \/ q < r
    BY SallocAssumption
  <1> QED
    BY <1>1, <1>2

LEMMA GuardsDiffer ==
    ASSUME NEW r \in Regions, NEW q \in Regions
    PROVE  /\ FirstGuard(r) # LastGuard(q)
           /\ FirstGuard(r) + 1 # LastGuard(q) /\ FirstGuard(r) + 1 # FirstGuard(q)
           /\ FirstGuard(r) = FirstGuard(q) => r = q
           /\ LastGuard(r) = LastGuard(q) => r = q
  BY RegionsApart, RegionFacts

LEMMA RamSteps == 
    ASSUME NEW w \in Ram
    PROVE  Cardinality(Ram) \in Nat /\ 2 <= Cardinality(Ram)
  <1>1. IsFiniteSet(Ram)
    <2> DEFINE S == {FirstFreeRam(r)..((MemEnd[r] + 1) \div DYN_SIZE_MULT) - 1 :
                       r \in Regions}
    <2>1. IsFiniteSet(S)
      <3>1. IsFiniteSet(Regions)
        BY SallocAssumption
      <3> DEFINE f == [r \in Regions |->
                         FirstFreeRam(r)..((MemEnd[r] + 1) \div DYN_SIZE_MULT) - 1]
      <3>2. f \in Surjection(Regions, S)
        BY DEF Surjection
      <3> QED
        BY <3>1, <3>2, FS_Surjection
    <2>2. \A T \in S : IsFiniteSet(T)
      <3> SUFFICES ASSUME NEW r \in Regions
            PROVE IsFiniteSet(FirstFreeRam(r)..((MemEnd[r] + 1) \div DYN_SIZE_MULT) - 1)
        OBVIOUS
      <3>1. FirstFreeRam(r) \in Int /\ ((MemEnd[r] + 1) \div DYN_SIZE_MULT) - 1 \in Int
        BY SallocAssumption DEF FirstFreeRam, Words, DYN_SIZE_MULT
      <3> QED
        BY <3>1, FS_Interval
    <2> QED
      BY <2>1, <2>2, FS_UNION DEF Ram
  <1>2. PICK r \in Regions : TRUE
    BY RamFacts
  <1>3. PICK a \in Nat : a = FirstGuard(r)
    BY RegionFacts
  <1>4. a \in Ram /\ a + 1 \in Ram
    BY <1>3, RegionFacts
  <1>5. IsFiniteSet({a}) /\ Cardinality({a}) = 1
    BY FS_Singleton
  <1>6. IsFiniteSet({a} \cup {a + 1}) /\ Cardinality({a} \cup {a + 1}) = 2
    BY <1>5, FS_AddElement
  <1>7. ({a} \cup {a + 1}) \in SUBSET Ram
    BY <1>4
  <1> QED
    BY <1>1, <1>6, <1>7, FS_Subset, FS_CardinalityType

LEMMA Rounded ==
    ASSUME NEW bytes \in Nat
    PROVE  /\ ActSize(bytes) = Words(bytes) + 1 /\ Words(bytes) \in Nat
           /\ bytes > 0 => Words(bytes) > 0
           /\ bytes <= Words(bytes) * DYN_SIZE_MULT
  BY DEF ActSize, Words, DYN_SIZE_MULT, DYN_HEADER_SIZE

-----------------------------------------------------------------------------
(* The walks of s_compact_free: at most two steps lead from a free block to   *)
(* one that is taken, since no two free blocks are neighbours.                *)

Goes(m, back, c) ==
  IF IsFree(m, c) THEN (IF back THEN m[c].prev ELSE m[c].next) ELSE c

Walks(f, m, back, b, n) ==
  f = [i \in 0..n |-> IF i = 0 THEN b ELSE Goes(m, back, f[i - 1])]

LEMMA WalksExist ==
    ASSUME NEW m, NEW back, NEW b
    PROVE  \A n \in Nat : \E f : Walks(f, m, back, b, n)
  <1> DEFINE T == {n \in Nat : \E f : Walks(f, m, back, b, n)}
  <1>1. 0 \in T
    <2>1. Walks([i \in 0..0 |-> b], m, back, b, 0)
      BY DEF Walks
    <2> QED
      BY <2>1
  <1>2. ASSUME NEW n \in Nat, n \in T PROVE n + 1 \in T
    <2>1. PICK f : Walks(f, m, back, b, n)
      BY <1>2
    <2> DEFINE g == [i \in 0..n + 1 |-> IF i = n + 1 THEN Goes(m, back, f[n]) ELSE f[i]]
    <2>2. \A i \in 0..n : f[i] = (IF i = 0 THEN b ELSE Goes(m, back, f[i - 1]))
      BY <2>1 DEF Walks
    <2>3. \A i \in 0..n + 1 : g[i] = (IF i = 0 THEN b ELSE Goes(m, back, g[i - 1]))
      BY <2>2
    <2>4. Walks(g, m, back, b, n + 1)
      BY <2>3 DEF Walks
    <2> QED
      BY <2>4
  <1> HIDE DEF T
  <1>3. Nat \subseteq T
    BY <1>1, <1>2, Induct
  <1> QED
    BY <1>3 DEF T

LEMMA WalkEnds ==
    ASSUME NEW m, NEW back, NEW b, NEW n \in Nat, 2 <= n, NEW f, Walks(f, m, back, b, n),
           NEW c, c = Goes(m, back, Goes(m, back, b)), ~IsFree(m, c)
    PROVE  f[n] = c
  <1>1. \A i \in 0..n : f[i] = IF i = 0 THEN b ELSE Goes(m, back, f[i - 1])
    BY DEF Walks
  <1>2. f[0] = b /\ f[1] = Goes(m, back, b) /\ f[2] = c
    <2>1. f[0] = b
      BY <1>1
    <2>2. f[1] = Goes(m, back, f[0])
      BY <1>1
    <2>3. f[2] = Goes(m, back, f[1])
      BY <1>1
    <2> QED
      BY <2>1, <2>2, <2>3
  <1> DEFINE T == {i \in Nat : i + 2 <= n => f[i + 2] = c}
  <1>3. 0 \in T
    BY <1>2
  <1>4. ASSUME NEW i \in Nat, i \in T PROVE i + 1 \in T
    <2> SUFFICES ASSUME i + 3 <= n PROVE f[i + 3] = c
      OBVIOUS
    <2>1. f[i + 2] = c
      BY <1>4
    <2>2. f[i + 3] = Goes(m, back, f[i + 2])
      BY <1>1
    <2> QED
      BY <2>1, <2>2 DEF Goes
  <1> HIDE DEF T
  <1>5. n - 2 \in T
    BY <1>3, <1>4, Induct
  <1> QED
    BY <1>5 DEF T

LEMMA TakenAfterIs ==
    ASSUME NEW m, NEW b, NEW w \in Ram,
           NEW c, c = Goes(m, FALSE, Goes(m, FALSE, b)), ~IsFree(m, c)
    PROVE  TakenAfter(m, b) = c
  <1> DEFINE n == Cardinality(Ram)
             f == CHOOSE f : Walks(f, m, FALSE, b, n)
  <1>1. n \in Nat /\ 2 <= n
    BY RamSteps
  <1>2. TakenAfter(m, b) = f[n]
    BY DEF TakenAfter, Walks, Goes, Steps
  <1>3. Walks(f, m, FALSE, b, n)
    BY <1>1, WalksExist
  <1> HIDE DEF f, n
  <1> QED
    BY <1>1, <1>2, <1>3, WalkEnds

LEMMA TakenBeforeIs ==
    ASSUME NEW m, NEW b, NEW w \in Ram,
           NEW c, c = Goes(m, TRUE, Goes(m, TRUE, b)), ~IsFree(m, c)
    PROVE  TakenBefore(m, b) = c
  <1> DEFINE n == Cardinality(Ram)
             f == CHOOSE f : Walks(f, m, TRUE, b, n)
  <1>1. n \in Nat /\ 2 <= n
    BY RamSteps
  <1>2. TakenBefore(m, b) = f[n]
    BY DEF TakenBefore, Walks, Goes, Steps
  <1>3. Walks(f, m, TRUE, b, n)
    BY <1>1, WalksExist
  <1> HIDE DEF f, n
  <1> QED
    BY <1>1, <1>2, <1>3, WalkEnds

-----------------------------------------------------------------------------
(* The blocks of a region, found by following the links from its first guard. *)

Chains(f, m, r, n) ==
  f = [i \in 0..n |-> IF i = 0 THEN FirstGuard(r)
                      ELSE IF f[i - 1] = NULL THEN NULL ELSE m[f[i - 1]].next]

LEMMA ChainsExist ==
    ASSUME NEW m, NEW r
    PROVE  \A n \in Nat : \E f : Chains(f, m, r, n)
  <1> DEFINE T == {n \in Nat : \E f : Chains(f, m, r, n)}
             Link1(b) == IF b = NULL THEN NULL ELSE m[b].next
  <1>1. 0 \in T
    <2>1. Chains([i \in 0..0 |-> FirstGuard(r)], m, r, 0)
      BY DEF Chains
    <2> QED
      BY <2>1
  <1>2. ASSUME NEW n \in Nat, n \in T PROVE n + 1 \in T
    <2>1. PICK f : Chains(f, m, r, n)
      BY <1>2
    <2> DEFINE g == [i \in 0..n + 1 |-> IF i = n + 1 THEN Link1(f[n]) ELSE f[i]]
    <2>2. \A i \in 0..n : f[i] = (IF i = 0 THEN FirstGuard(r) ELSE Link1(f[i - 1]))
      BY <2>1 DEF Chains
    <2>3. \A i \in 0..n + 1 : g[i] = (IF i = 0 THEN FirstGuard(r) ELSE Link1(g[i - 1]))
      <3> HIDE DEF Link1
      <3> QED
        BY <2>2
    <2>4. Chains(g, m, r, n + 1)
      BY <2>3 DEF Chains
    <2> QED
      BY <2>4
  <1> HIDE DEF T
  <1>3. Nat \subseteq T
    BY <1>1, <1>2, Induct
  <1> QED
    BY <1>3 DEF T

LEMMA ChainIs ==
    ASSUME NEW m, NEW r \in Regions
    PROVE  /\ Chain(m, r)[0] = FirstGuard(r)
           /\ \A i \in Nat : i + 1 \in Places(r) =>
                Chain(m, r)[i + 1] = IF Chain(m, r)[i] = NULL THEN NULL
                                     ELSE m[Chain(m, r)[i]].next
  <1> DEFINE n == (LastGuard(r) - FirstGuard(r)) + 1
             f == CHOOSE f : Chains(f, m, r, n)
  <1>1. n \in Nat
    BY RegionFacts
  <1>2. Chain(m, r) = f
    BY DEF Chain, Chains, Places
  <1>3. Chains(f, m, r, n)
    BY <1>1, ChainsExist
  <1>4. Places(r) = 0..n
    BY DEF Places
  <1> HIDE DEF f, n
  <1>5. \A i \in 0..n : f[i] = IF i = 0 THEN FirstGuard(r)
                      ELSE IF f[i - 1] = NULL THEN NULL ELSE m[f[i - 1]].next
    BY <1>3 DEF Chains
  <1>6. ASSUME NEW i \in Nat, i + 1 \in 0..n
        PROVE  f[i + 1] = IF f[i] = NULL THEN NULL ELSE m[f[i]].next
    <2>1. f[i + 1] = IF i + 1 = 0 THEN FirstGuard(r)
                      ELSE IF f[(i + 1) - 1] = NULL THEN NULL ELSE m[f[(i + 1) - 1]].next
      BY <1>5, <1>6
    <2>2. (i + 1) - 1 = i /\ i + 1 # 0
      OBVIOUS
    <2> QED
      BY <2>1, <2>2
  <1>7. f[0] = FirstGuard(r)
    BY <1>1, <1>5
  <1> QED
    BY <1>2, <1>4, <1>6, <1>7

-----------------------------------------------------------------------------
(* The links of a list visit every block of every region.                     *)

Within(B, r) == {b \in B : FirstGuard(r) <= b /\ b <= LastGuard(r)}

LEMMA Numbers ==
    ASSUME NEW m, NEW B, List(m, B)
    PROVE  /\ \A b \in B : b \in Nat \ {0} /\ b \in Ram /\ b # NULL
           /\ \A r \in Regions : /\ FirstGuard(r) \in Lows /\ FirstGuard(r) \in B
                                 /\ LastGuard(r) \in Highs /\ LastGuard(r) \in B
           /\ Lows \cap Highs = {}
           /\ \A b \in B : \E r \in Regions : b \in Within(B, r)
  <1>1. \A b \in B : b \in Nat \ {0} /\ b \in Ram /\ b # NULL
    BY RamFacts DEF List, NULL
  <1>2. \A r \in Regions : /\ FirstGuard(r) \in Lows /\ FirstGuard(r) \in B
                           /\ LastGuard(r) \in Highs /\ LastGuard(r) \in B
    BY DEF List, Lows, Highs
  <1>3. Lows \cap Highs = {}
    BY GuardsDiffer DEF Lows, Highs
  <1>4. ASSUME NEW b \in B PROVE \E r \in Regions : b \in Within(B, r)
    <2>1. PICK r \in Regions : b \in FirstGuard(r)..LastGuard(r)
      BY DEF List
    <2> QED
      BY <2>1 DEF Within
  <1> QED
    BY <1>1, <1>2, <1>3, <1>4

LEMMA OwnGuards ==
    ASSUME NEW m, NEW B, List(m, B), NEW r \in Regions, NEW b \in Within(B, r)
    PROVE  /\ b \in Highs <=> b = LastGuard(r)
           /\ b \in Lows <=> b = FirstGuard(r)
  <1>1. b \in Nat /\ FirstGuard(r) <= b /\ b <= LastGuard(r)
    BY Numbers DEF Within
  <1>2. ASSUME NEW q \in Regions, b = LastGuard(q) \/ b = FirstGuard(q)
        PROVE  q = r
    <2> SUFFICES ASSUME q # r PROVE FALSE
      OBVIOUS
    <2>1. LastGuard(r) < FirstGuard(q) \/ LastGuard(q) < FirstGuard(r)
      BY RegionsApart
    <2> QED
      BY <1>1, <1>2, <2>1, RegionFacts
  <1> QED
    BY <1>2 DEF Highs, Lows

LEMMA NextWithin ==
    ASSUME NEW m, NEW B, List(m, B), NEW r \in Regions,
           NEW b \in Within(B, r), b # LastGuard(r)
    PROVE  /\ m[b].next \in Within(B, r) /\ b < m[b].next
           /\ Follows(m, B, b, m[b].next)
  <1>1. b \in B \ Highs
    BY OwnGuards DEF Within
  <1>2. Follows(m, B, b, m[b].next)
    BY <1>1 DEF List, Linked
  <1>3. PICK n \in B : n = m[b].next
    BY <1>2 DEF Follows
  <1>4. b < n /\ \A c \in B : c <= b \/ n <= c
    BY <1>2, <1>3 DEF Follows
  <1>5. b \in Nat /\ n \in Nat /\ FirstGuard(r) <= b /\ b <= LastGuard(r)
    BY <1>1, Numbers DEF Within
  <1>6. LastGuard(r) \in B /\ LastGuard(r) \in Nat /\ FirstGuard(r) \in Nat
    BY Numbers, RegionFacts
  <1>7. n <= LastGuard(r) /\ FirstGuard(r) <= n
    BY <1>4, <1>5, <1>6
  <1> QED
    BY <1>2, <1>3, <1>4, <1>7 DEF Within

LEMMA BlocksAre ==
    ASSUME NEW m, NEW B, List(m, B), NEW r \in Regions
    PROVE  /\ Blocks(m, r) = Within(B, r)
           /\ \A i \in Places(r) : Chain(m, r)[i] = NULL \/ Chain(m, r)[i] \in Within(B, r)
  <1>1. PICK lo \in Nat, hi \in Nat : lo = FirstGuard(r) /\ hi = LastGuard(r) /\ lo + 3 <= hi
    BY RegionFacts
  <1>2. PICK f : f = Chain(m, r)
    OBVIOUS
  <1>3. PICK n \in Nat : n = (hi - lo) + 1
    BY <1>1
  <1>4. Places(r) = 0..n
    BY <1>1, <1>3 DEF Places
  <1>5. /\ f[0] = lo
        /\ \A i \in Nat : i + 1 <= n =>
             f[i + 1] = IF f[i] = NULL THEN NULL ELSE m[f[i]].next
    BY <1>1, <1>2, <1>4, ChainIs
  <1>6. PICK W : W = Within(B, r)
    OBVIOUS
  <1>7. /\ lo \in W /\ hi \in W
        /\ \A b \in W : b \in Nat /\ b # NULL /\ lo <= b /\ b <= hi
        /\ m[hi].next = NULL
        /\ \A b \in W : b # hi => /\ m[b].next \in W /\ b < m[b].next
                                  /\ \A c \in W : c <= b \/ m[b].next <= c
    <2>1. lo \in W /\ hi \in W
      BY <1>1, <1>6, Numbers DEF Within
    <2>2. \A b \in W : b \in Nat /\ b # NULL /\ lo <= b /\ b <= hi
      BY <1>1, <1>6, Numbers DEF Within
    <2>3. m[hi].next = NULL
      BY <1>1, Numbers DEF List
    <2>4. \A b \in W : b # hi => /\ m[b].next \in W /\ b < m[b].next
                                 /\ \A c \in W : c <= b \/ m[b].next <= c
      <3> SUFFICES ASSUME NEW b \in W, b # hi
                   PROVE  /\ m[b].next \in W /\ b < m[b].next
                          /\ \A c \in W : c <= b \/ m[b].next <= c
        OBVIOUS
      <3>1. m[b].next \in W /\ b < m[b].next /\ Follows(m, B, b, m[b].next)
        BY <1>1, <1>6, NextWithin
      <3>2. W \subseteq B
        BY <1>6 DEF Within
      <3> QED
        BY <3>1, <3>2 DEF Follows
    <2> QED
      BY <2>1, <2>2, <2>3, <2>4
  <1> DEFINE T == {i \in Nat : i <= n =>
                     /\ f[i] = NULL \/ f[i] \in W
                     /\ \A b \in W : \/ \E j \in 0..i : f[j] = b
                                     \/ f[i] # NULL /\ f[i] < b /\ lo + i <= f[i]}
  <1>8. 0 \in T
    <2>1. f[0] \in W /\ f[0] # NULL /\ f[0] = lo
      BY <1>5, <1>7
    <2>2. ASSUME NEW b \in W PROVE (\E j \in 0..0 : f[j] = b) \/ f[0] < b
      <3>1. b \in Nat /\ lo <= b
        BY <1>7
      <3>2. 0 \in 0..0
        OBVIOUS
      <3> QED
        BY <2>1, <3>1, <3>2
    <2> QED
      BY <2>1, <2>2
  <1>9. ASSUME NEW i \in Nat, i \in T PROVE i + 1 \in T
    <2> SUFFICES ASSUME i + 1 <= n
                 PROVE  /\ f[i + 1] = NULL \/ f[i + 1] \in W
                        /\ \A b \in W : \/ \E j \in 0..i + 1 : f[j] = b
                                        \/ /\ f[i + 1] # NULL /\ f[i + 1] < b
                                           /\ lo + (i + 1) <= f[i + 1]
      OBVIOUS
    <2>1. /\ f[i] = NULL \/ f[i] \in W
          /\ \A b \in W : \/ \E j \in 0..i : f[j] = b
                          \/ f[i] # NULL /\ f[i] < b /\ lo + i <= f[i]
      BY <1>9
    <2>2. f[i + 1] = IF f[i] = NULL THEN NULL ELSE m[f[i]].next
      BY <1>5
    <2>3. f[i + 1] = NULL \/ f[i + 1] \in W
      BY <1>7, <2>1, <2>2
    <2>4. ASSUME NEW b \in W, ~\E j \in 0..i + 1 : f[j] = b
          PROVE  f[i + 1] # NULL /\ f[i + 1] < b /\ lo + (i + 1) <= f[i + 1]
      <3>1. ~\E j \in 0..i : f[j] = b
        BY <2>4
      <3>2. f[i] # NULL /\ f[i] < b /\ lo + i <= f[i] /\ f[i] \in W
        BY <2>1, <3>1
      <3>3. f[i] \in Nat /\ b \in Nat /\ b <= hi
        BY <1>7, <3>2
      <3>4. f[i] # hi
        BY <3>2, <3>3
      <3>5. f[i + 1] = m[f[i]].next
        BY <2>2, <3>2
      <3>6. f[i + 1] \in W /\ f[i] < f[i + 1] /\ (b <= f[i] \/ f[i + 1] <= b)
        BY <1>7, <3>2, <3>4, <3>5
      <3>7. f[i + 1] \in Nat /\ f[i + 1] # NULL
        BY <1>7, <3>6
      <3>8. f[i + 1] # b
        <4>1. i + 1 \in 0..i + 1
          OBVIOUS
        <4> QED
          BY <2>4, <4>1
      <3> QED
        BY <3>2, <3>3, <3>6, <3>7, <3>8
    <2> QED
      BY <2>3, <2>4
  <1> HIDE DEF T
  <1>10. Nat \subseteq T
    BY <1>8, <1>9, Induct
  <1>11. \A i \in 0..n : f[i] = NULL \/ f[i] \in W
    BY <1>10 DEF T
  <1>12. ASSUME NEW b \in W PROVE \E j \in 0..n : f[j] = b
    <2>1. \/ \E j \in 0..n : f[j] = b
          \/ f[n] # NULL /\ f[n] < b /\ lo + n <= f[n]
      BY <1>10 DEF T
    <2>2. b \in Nat /\ b <= hi
      BY <1>7
    <2>3. f[n] # NULL => f[n] \in Nat
      <3>1. f[n] = NULL \/ f[n] \in W
        BY <1>11
      <3> QED
        BY <1>7, <3>1
    <2> QED
      BY <1>3, <2>1, <2>2, <2>3
  <1>13. Blocks(m, r) = {f[i] : i \in 0..n} \ {NULL}
    BY <1>2, <1>4 DEF Blocks
  <1>14. Blocks(m, r) = W
    <2>1. \A b \in W : b # NULL
      BY <1>7
    <2>2. \A x : x \in Blocks(m, r) <=> x # NULL /\ \E i \in 0..n : x = f[i]
      BY <1>13
    <2>3. \A x : x \in Blocks(m, r) <=> x \in W
      BY <1>11, <1>12, <2>1, <2>2
    <2> QED
      BY <2>3
  <1> QED
    BY <1>2, <1>4, <1>6, <1>11, <1>14

LEMMA WholeIs ==
    ASSUME NEW m, NEW B, List(m, B)
    PROVE  Whole(m) = B
  <1>1. \A r \in Regions : Blocks(m, r) = Within(B, r)
    BY BlocksAre
  <1>2. Whole(m) \subseteq B
    BY <1>1 DEF Whole, Within
  <1>3. B \subseteq Whole(m)
    BY <1>1, Numbers DEF Whole
  <1> QED
    BY <1>2, <1>3

-----------------------------------------------------------------------------
(* What the blocks of a list know of each other.                              *)

LEMMA Neighbours ==
    ASSUME NEW m, NEW B, List(m, B), NEW b \in Inner(B)
    PROVE  /\ m[b].next \in B \ Lows /\ b < m[b].next /\ m[m[b].next].prev = b
           /\ b + 2 <= m[b].next
           /\ \A c \in B : c <= b \/ m[b].next <= c
           /\ m[b].prev \in B \ Highs /\ m[b].prev < b /\ m[m[b].prev].next = b
           /\ \A c \in B : c <= m[b].prev \/ b <= c
  <1>1. b \in B \ Highs /\ b \in B \ Lows
    BY DEF Inner
  <1>2. Follows(m, B, b, m[b].next)
    BY <1>1 DEF List, Linked
  <1>3. m[b].prev \in B \ Highs /\ m[m[b].prev].next = b
    BY <1>1 DEF List, Linked
  <1>4. Follows(m, B, m[b].prev, b)
    BY <1>3 DEF List, Linked
  <1>5. b + 2 <= m[b].next
    BY DEF List, DYN_MIN_SPLIT_SIZE
  <1> QED
    BY <1>2, <1>3, <1>4, <1>5 DEF Follows

LEMMA Links ==
    ASSUME NEW m, NEW B, List(m, B), NEW b \in B
    PROVE  /\ m[b] \in Header
           /\ b \notin Highs => /\ m[b].next \in B \ Lows /\ b < m[b].next
                                /\ m[m[b].next].prev = b
                                /\ \A c \in B : c <= b \/ m[b].next <= c
           /\ b \notin Lows => /\ m[b].prev \in B \ Highs /\ m[b].prev < b
                               /\ m[m[b].prev].next = b
  <1>1. m[b] \in Header
    BY DEF List
  <1>2. ASSUME b \notin Highs
        PROVE  /\ m[b].next \in B \ Lows /\ b < m[b].next
               /\ m[m[b].next].prev = b
               /\ \A c \in B : c <= b \/ m[b].next <= c
    <2>1. Follows(m, B, b, m[b].next)
      BY <1>2 DEF List, Linked
    <2> QED
      BY <2>1 DEF Follows
  <1>3. ASSUME b \notin Lows
        PROVE  /\ m[b].prev \in B \ Highs /\ m[b].prev < b
               /\ m[m[b].prev].next = b
    <2>1. m[b].prev \in B \ Highs /\ m[m[b].prev].next = b
      BY <1>3 DEF List, Linked
    <2>2. Follows(m, B, m[b].prev, b)
      BY <2>1 DEF List, Linked
    <2> QED
      BY <2>1, <2>2 DEF Follows
  <1> QED
    BY <1>1, <1>2, <1>3

(* The words of a payload are not part of the list, nor are the marks.        *)
LEMMA SameLinks ==
    ASSUME NEW m, NEW B, List(m, B), NEW m1 \in [Ram -> Header \cup Word],
           \A b \in B : /\ m1[b] \in Header
                        /\ m1[b].next = m[b].next /\ m1[b].prev = m[b].prev,
           \A b \in Lows \cup Highs : ~IsFree(m1, b),
           \A w \in Ram \ B : m1[w] \in Word
    PROVE  List(m1, B)
  <1>1. B \subseteq Ram /\ Lows \subseteq B /\ Highs \subseteq B
        /\ \A b \in B : \E r \in Regions : b \in FirstGuard(r)..LastGuard(r)
    BY DEF List
  <1>2. \A b \in Highs : m1[b].next = NULL
    BY <1>1 DEF List
  <1>3. Linked(m1, B)
    <2>1. ASSUME NEW b \in B \ Highs
          PROVE  Follows(m1, B, b, m1[b].next)
      <3>1. Follows(m, B, b, m[b].next)
        BY DEF List, Linked
      <3>2. PICK n \in B : n = m[b].next /\ n = m1[b].next /\ Follows(m, B, b, n)
        BY <3>1 DEF Follows
      <3> QED
        BY <3>2 DEF Follows
    <2>2. ASSUME NEW b \in B \ Lows
          PROVE  m1[b].prev \in B \ Highs /\ m1[m1[b].prev].next = b
      BY DEF List, Linked
    <2> QED
      BY <2>1, <2>2 DEF Linked
  <1>4. \A b \in Inner(B) : b + DYN_MIN_SPLIT_SIZE <= m1[b].next
    BY DEF List, Inner
  <1> QED
    BY <1>1, <1>2, <1>3, <1>4 DEF List

(* m1 is m with the blocks from t1 to t2 made one.                            *)
Merged(m, m1, t1, t2) ==
  /\ m1 \in [Ram -> Header \cup Word]
  /\ m1[t1] \in Header /\ m1[t1].next = t2
  /\ m1[t1].prev = m[t1].prev /\ m1[t1].taken = m[t1].taken
  /\ m1[t2] \in Header /\ m1[t2].prev = t1
  /\ m1[t2].next = m[t2].next /\ m1[t2].taken = m[t2].taken
  /\ \A w \in Ram : t1 < w /\ w < t2 => m1[w] = Junk
  /\ \A w \in Ram : w < t1 \/ t2 < w => m1[w] = m[w]

Outside(B, t1, t2) == {c \in B : c <= t1 \/ t2 <= c}

LEMMA MergedIs ==
    ASSUME NEW m, NEW B, List(m, B), NEW t1 \in Inner(B), NEW t2 \in B \ Lows, t1 < t2,
           \A c \in B : t1 < c /\ c < t2 => c \in Inner(B),
           NEW m1, Merged(m, m1, t1, t2)
    PROVE  List(m1, Outside(B, t1, t2))
  <1> DEFINE B1 == Outside(B, t1, t2)
  <1>1. /\ B \subseteq Ram /\ Lows \subseteq B /\ Highs \subseteq B
        /\ \A b \in B : \E r \in Regions : b \in FirstGuard(r)..LastGuard(r)
    BY DEF List
  <1>2. t1 \in Nat /\ t2 \in Nat /\ (\A c \in B : c \in Nat) /\ \A w \in Ram : w \in Nat
    BY Numbers, RamFacts DEF Inner
  <1>3. t1 \in B /\ t1 \notin Lows /\ t1 \notin Highs /\ t2 \in B /\ t2 \notin Lows
        /\ t1 \in Ram /\ t2 \in Ram
    BY <1>1 DEF Inner
  <1>4. B1 \subseteq B /\ Lows \subseteq B1 /\ Highs \subseteq B1
        /\ t1 \in B1 /\ t2 \in B1
    <2>1. \A c \in B : c \in B1 \/ c \in Inner(B)
      BY <1>2 DEF Outside
    <2> QED
      BY <1>1, <1>2, <1>3, <2>1 DEF Inner, Outside
  <1>5. \A c \in B1 : c # t1 /\ c # t2 => m1[c] = m[c]
    BY <1>1, <1>2, <1>3 DEF Merged, Outside
  <1>6. \A c \in B1 : /\ m1[c] \in Header /\ m1[c].taken = m[c].taken
                      /\ c # t1 => m1[c].next = m[c].next
                      /\ c # t2 => m1[c].prev = m[c].prev
    <2>1. \A c \in B1 : m[c] \in Header
      BY <1>4 DEF List
    <2> QED
      BY <1>5, <2>1 DEF Merged
  <1>7. \A w \in Ram \ B1 : m1[w] \in Word
    <2> SUFFICES ASSUME NEW w \in Ram \ B1 PROVE m1[w] \in Word
      OBVIOUS
    <2>1. CASE t1 < w /\ w < t2
      BY <2>1 DEF Merged, Word
    <2>2. CASE ~(t1 < w /\ w < t2)
      <3>1. w \in Nat /\ w # t1 /\ w # t2
        BY <1>2, <1>4
      <3>2. w < t1 \/ t2 < w
        BY <1>2, <2>2, <3>1
      <3>3. w \notin B
        BY <1>2, <3>1, <3>2 DEF Outside
      <3> QED
        BY <3>2, <3>3 DEF Merged, List
    <2> QED
      BY <2>1, <2>2
  <1>8. m[t1].next <= t2 /\ t1 + 2 <= t2
    <2>1. /\ m[t1].next \in B \ Lows /\ t1 + 2 <= m[t1].next
          /\ \A c \in B : c <= t1 \/ m[t1].next <= c
      BY Neighbours
    <2>2. PICK n \in Nat : n = m[t1].next
      BY <1>2, <2>1
    <2>3. t2 <= t1 \/ n <= t2
      BY <1>3, <2>1, <2>2
    <2> QED
      BY <1>2, <2>1, <2>2, <2>3
  <1>9. ASSUME NEW b \in B1 \ Highs
        PROVE  Follows(m1, B1, b, m1[b].next)
    <2>1. b \in B /\ b \in Nat
      BY <1>2, <1>4
    <2>2. CASE b = t1
      <3>1. \A c \in B1 : c <= b \/ t2 <= c
        BY <2>2 DEF Outside
      <3> QED
        BY <1>3, <1>4, <2>2, <3>1 DEF Follows, Merged
    <2>3. CASE b # t1
      <3>1. PICK n \in B \ Lows : /\ n = m[b].next /\ b < n /\ m[n].prev = b
                                  /\ \A c \in B : c <= b \/ n <= c
        <4>1. /\ m[b].next \in B \ Lows /\ b < m[b].next /\ m[m[b].next].prev = b
              /\ \A c \in B : c <= b \/ m[b].next <= c
          BY <2>1, Links
        <4> QED
          BY <4>1
      <3>2. m1[b].next = n /\ n \in Nat
        BY <1>2, <1>6, <2>3, <3>1
      <3>3. n \in B1 /\ n # t2
        <4>1. b < t1 \/ t2 <= b
          BY <1>2, <2>1, <2>3 DEF Outside
        <4>2. CASE b < t1
          <5>1. n <= t1
            BY <1>2, <1>3, <2>1, <3>1, <3>2, <4>2
          <5> QED
            BY <1>2, <3>1, <3>2, <5>1 DEF Outside
        <4>3. CASE t2 <= b
          BY <1>2, <2>1, <3>1, <3>2, <4>3 DEF Outside
        <4> QED
          BY <4>1, <4>2, <4>3
      <3>4. m1[n].prev = b
        BY <1>6, <3>1, <3>3
      <3>5. n \in B1 \ Lows /\ \A c \in B1 : c <= b \/ n <= c
        BY <1>4, <3>1, <3>3
      <3>6. Follows(m1, B1, b, n)
        BY <3>1, <3>4, <3>5 DEF Follows
      <3> QED
        BY <3>2, <3>6
    <2> QED
      BY <2>2, <2>3
  <1>10. ASSUME NEW b \in B1 \ Lows
         PROVE  m1[b].prev \in B1 \ Highs /\ m1[m1[b].prev].next = b
    <2>1. b \in B /\ b \in Nat
      BY <1>2, <1>4
    <2>2. CASE b = t2
      BY <1>3, <1>4, <2>2 DEF Merged
    <2>3. CASE b # t2
      <3>1. PICK p \in B \ Highs : p = m[b].prev /\ p < b /\ m[p].next = b
        <4>1. /\ m[b].prev \in B \ Highs /\ m[b].prev < b
              /\ m[m[b].prev].next = b
          BY <2>1, Links
        <4> QED
          BY <4>1
      <3>2. m1[b].prev = p /\ p \in Nat
        BY <1>2, <1>6, <2>3, <3>1
      <3>3. \A c \in B : c <= p \/ b <= c
        BY <3>1, Links
      <3>4. p \in B1 /\ p # t1
        <4>1. b <= t1 \/ t2 < b
          BY <1>2, <2>1, <2>3 DEF Outside
        <4>2. CASE b <= t1
          BY <1>2, <2>1, <3>1, <3>2, <4>2 DEF Outside
        <4>3. CASE t2 < b
          <5>1. t2 <= p
            BY <1>2, <1>3, <2>1, <3>3, <4>3
          <5> QED
            BY <1>2, <3>1, <3>2, <5>1 DEF Outside
        <4> QED
          BY <4>1, <4>2, <4>3
      <3>5. m1[p].next = b
        BY <1>6, <3>1, <3>4
      <3> QED
        BY <3>1, <3>2, <3>4, <3>5
    <2> QED
      BY <2>2, <2>3
  <1>11. ASSUME NEW b \in Inner(B1) PROVE b + DYN_MIN_SPLIT_SIZE <= m1[b].next
    <2>1. CASE b = t1
      BY <1>8, <2>1 DEF Merged, DYN_MIN_SPLIT_SIZE
    <2>2. CASE b # t1
      <3>1. b \in B1 /\ b \in Inner(B)
        BY <1>4 DEF Inner
      <3>2. b + DYN_MIN_SPLIT_SIZE <= m[b].next
        BY <3>1 DEF List
      <3>3. m1[b].next = m[b].next
        BY <1>6, <2>2, <3>1
      <3> QED
        BY <3>2, <3>3
    <2> QED
      BY <2>1, <2>2
  <1>12. /\ \A b \in Lows \cup Highs : ~IsFree(m1, b)
         /\ \A b \in Highs : m1[b].next = NULL
    <2>1. \A b \in Lows \cup Highs : b \in B1 /\ b # t1 /\ ~IsFree(m, b)
      BY <1>3, <1>4 DEF List
    <2>2. \A b \in Highs : m[b].next = NULL
      BY DEF List
    <2> QED
      BY <1>6, <2>1, <2>2 DEF IsFree
  <1>13. \A b \in B1 : m1[b] \in Header /\ \E r \in Regions : b \in FirstGuard(r)..LastGuard(r)
    BY <1>1, <1>4, <1>6
  <1>14. Linked(m1, B1)
    BY <1>9, <1>10 DEF Linked
  <1>15. m1 \in [Ram -> Header \cup Word] /\ B1 \subseteq Ram
    BY <1>1, <1>4 DEF Merged
  <1> HIDE DEF B1
  <1>16. List(m1, B1)
    BY <1>4, <1>7, <1>11, <1>12, <1>13, <1>14, <1>15 DEF List
  <1> QED
    BY <1>16 DEF B1

-----------------------------------------------------------------------------
(* s_compact_free.                                                            *)

LEMMA HeaderLinks ==
    ASSUME NEW h \in Header, NEW x \in Link
    PROVE  /\ [h EXCEPT !.next = x] \in Header
           /\ [h EXCEPT !.next = x].next = x
           /\ [h EXCEPT !.next = x].prev = h.prev
           /\ [h EXCEPT !.next = x].taken = h.taken
           /\ [h EXCEPT !.prev = x] \in Header
           /\ [h EXCEPT !.prev = x].prev = x
           /\ [h EXCEPT !.prev = x].next = h.next
           /\ [h EXCEPT !.prev = x].taken = h.taken
  BY DEF Header

LEMMA HeaderMark ==
    ASSUME NEW h \in Header, NEW t \in BOOLEAN
    PROVE  /\ [h EXCEPT !.taken = t] \in Header
           /\ [h EXCEPT !.taken = t].next = h.next
           /\ [h EXCEPT !.taken = t].prev = h.prev
           /\ [h EXCEPT !.taken = t].taken = t
  BY DEF Header

(* A block is marked: k is the header that it gets.                           *)
LEMMA MarkIs ==
    ASSUME NEW m, NEW B, List(m, B), NEW b \in Inner(B), NEW k \in Header,
           k.next = m[b].next, k.prev = m[b].prev,
           NEW m1 \in [Ram -> Header \cup Word], m1[b] = k,
           \A w \in Ram : w # b => m1[w] = m[w]
    PROVE  /\ List(m1, B)
           /\ \A c \in B : m1[c].next = m[c].next /\ m1[c].prev = m[c].prev
  <1>1. b \in B /\ b \in Ram /\ b \notin Lows /\ b \notin Highs /\ B \subseteq Ram
        /\ m \in [Ram -> Header \cup Word]
    BY DEF List, Inner
  <1>6. \A c \in B : /\ m1[c] \in Header
                     /\ m1[c].next = m[c].next /\ m1[c].prev = m[c].prev
    BY <1>1 DEF List
  <1>7. \A c \in Lows \cup Highs : ~IsFree(m1, c)
    BY <1>1 DEF List, IsFree
  <1>8. \A w \in Ram \ B : m1[w] \in Word
    BY <1>1 DEF List
  <1>9. List(m1, B)
    BY <1>6, <1>7, <1>8, SameLinks
  <1> QED
    BY <1>6, <1>9

(* The blocks from t1 to t2 are made one.                                     *)
LEMMA Joined ==
    ASSUME NEW m, NEW B, List(m, B), NEW t1 \in B, NEW t2 \in B, t1 < t2, NEW m1, NEW m2,
           \/ m2 = [m EXCEPT ![t1].next = t2, ![t2].prev = t1]
           \/ m2 = m /\ m[t1].next = t2 /\ m[t2].prev = t1,
           m1 = [w \in Ram |-> IF t1 < w /\ w < t2 THEN Junk ELSE m2[w]]
    PROVE  Merged(m, m1, t1, t2)
  <1>1. t1 \in Ram /\ t2 \in Ram /\ m \in [Ram -> Header \cup Word]
        /\ t1 \in Nat /\ t2 \in Nat /\ \A w \in Ram : w \in Nat
    BY Numbers, RamFacts DEF List
  <1>2. PICK h1 \in Header, h2 \in Header : h1 = m[t1] /\ h2 = m[t2]
    BY DEF List
  <1>3. t1 \in Link /\ t2 \in Link
    BY <1>1 DEF Link
  <1>4. /\ m2 \in [Ram -> Header \cup Word]
        /\ m2[t1] \in Header /\ m2[t1].next = t2
        /\ m2[t1].prev = m[t1].prev /\ m2[t1].taken = m[t1].taken
        /\ m2[t2] \in Header /\ m2[t2].prev = t1
        /\ m2[t2].next = m[t2].next /\ m2[t2].taken = m[t2].taken
        /\ \A w \in Ram : w # t1 /\ w # t2 => m2[w] = m[w]
    <2>1. CASE m2 = [m EXCEPT ![t1].next = t2, ![t2].prev = t1]
      <3>1. PICK k1 \in Header : /\ k1 = [h1 EXCEPT !.next = t2]
                                 /\ k1.next = t2 /\ k1.prev = h1.prev /\ k1.taken = h1.taken
        BY <1>3, HeaderLinks
      <3>2. PICK k2 \in Header : /\ k2 = [h2 EXCEPT !.prev = t1]
                                 /\ k2.prev = t1 /\ k2.next = h2.next /\ k2.taken = h2.taken
        BY <1>3, HeaderLinks
      <3>3. m2 = [m EXCEPT ![t1] = k1, ![t2] = k2]
        <4>1. t1 # t2
          BY <1>1
        <4>2. PICK m3 : m3 = [m EXCEPT ![t1].next = t2]
          OBVIOUS
        <4>3. m3 = [m EXCEPT ![t1] = k1]
          BY <1>2, <3>1, <4>2
        <4>4. m3[t2] = h2 /\ m3 \in [Ram -> Header \cup Word]
          BY <1>1, <1>2, <4>1, <4>3
        <4>5. m2 = [m3 EXCEPT ![t2].prev = t1]
          BY <2>1, <4>2
        <4>6. m2 = [m3 EXCEPT ![t2] = k2]
          BY <3>2, <4>4, <4>5
        <4> QED
          BY <4>3, <4>6
      <3>4. /\ m2 \in [Ram -> Header \cup Word] /\ m2[t1] = k1 /\ m2[t2] = k2
            /\ \A w \in Ram : w # t1 /\ w # t2 => m2[w] = m[w]
        BY <1>1, <3>3
      <3> QED
        BY <1>2, <3>1, <3>2, <3>4
    <2>2. CASE m2 = m /\ m[t1].next = t2 /\ m[t2].prev = t1
      BY <1>1, <1>2, <2>2
    <2> QED
      BY <2>1, <2>2
  <1>5. m1 \in [Ram -> Header \cup Word]
    BY <1>4 DEF Word
  <1>6. m1[t1] = m2[t1] /\ m1[t2] = m2[t2]
    BY <1>1
  <1>7. /\ \A w \in Ram : t1 < w /\ w < t2 => m1[w] = Junk
        /\ \A w \in Ram : w < t1 \/ t2 < w => m1[w] = m[w]
    BY <1>1, <1>4
  <1> QED
    BY <1>4, <1>5, <1>6, <1>7 DEF Merged

(* The ends of the block that b becomes: its neighbours, when they are free,  *)
(* are followed by blocks in use.                                             *)
LEMMA CompactEnds ==
    ASSUME NEW m, NEW B, List(m, B), NEW b \in Inner(B), IsFree(m, b), ApartBut(m, B, b)
    PROVE  \E t1 \in Inner(B), t2 \in B \ Lows, x \in B \ Highs :
             /\ TakenBefore(m, b) = x /\ m[x].next = t1 /\ ~IsFree(m, x) /\ x < t1
             /\ TakenAfter(m, b) = t2 /\ ~IsFree(m, t2)
             /\ t1 <= b /\ b < t2 /\ IsFree(m, t1)
             /\ \A c \in B : t1 < c /\ c < t2 => c \in Inner(B) /\ IsFree(m, c)
             /\ m[t2].prev = t1 => m[t1].next = t2
  <1>1. b \in B /\ b \in Ram /\ (\A c \in B : c \in Nat) /\ Highs \subseteq B
    BY Numbers DEF List, Inner
  <1>2. PICK p \in B \ Highs : p = m[b].prev /\ p < b /\ m[p].next = b
                               /\ \A c \in B : c <= p \/ b <= c
    <2>1. m[b].prev \in B \ Highs /\ m[b].prev < b /\ m[m[b].prev].next = b
          /\ \A c \in B : c <= m[b].prev \/ b <= c
      BY Neighbours
    <2> QED
      BY <2>1
  <1>3. PICK n \in B \ Lows : n = m[b].next /\ b < n /\ m[n].prev = b
                              /\ \A c \in B : c <= b \/ n <= c
    <2>1. m[b].next \in B \ Lows /\ b < m[b].next /\ m[m[b].next].prev = b
          /\ \A c \in B : c <= b \/ m[b].next <= c
      BY Neighbours
    <2> QED
      BY <2>1
  <1>4. \A c \in B : IsFree(m, c) => c \in Inner(B)
    BY DEF List, Inner
  <1>5. \E t1 \in Inner(B), x \in B \ Highs :
          /\ TakenBefore(m, b) = x /\ m[x].next = t1 /\ ~IsFree(m, x) /\ x < t1
          /\ t1 <= b /\ IsFree(m, t1)
          /\ \A c \in B : t1 < c /\ c < b => FALSE
    <2>1. CASE ~IsFree(m, p)
      <3>1. p = Goes(m, TRUE, Goes(m, TRUE, b))
        BY <1>2, <2>1 DEF Goes
      <3>2. TakenBefore(m, b) = p
        BY <1>1, <2>1, <3>1, TakenBeforeIs
      <3> QED
        BY <1>1, <1>2, <2>1, <3>2
    <2>2. CASE IsFree(m, p)
      <3>1. p \in Inner(B)
        BY <1>4, <2>2
      <3>2. PICK q \in B \ Highs : q = m[p].prev /\ q < p /\ m[q].next = p
        <4>1. m[p].prev \in B \ Highs /\ m[p].prev < p /\ m[m[p].prev].next = p
          BY <3>1, Neighbours
        <4> QED
          BY <4>1
      <3>3. ~IsFree(m, q)
        <4>1. q # b /\ m[q].next # b
          BY <1>1, <1>2, <3>2
        <4> QED
          BY <2>2, <3>2, <4>1 DEF ApartBut
      <3>4. q = Goes(m, TRUE, Goes(m, TRUE, b))
        BY <1>2, <2>2, <3>2 DEF Goes
      <3>5. TakenBefore(m, b) = q
        BY <1>1, <3>3, <3>4, TakenBeforeIs
      <3>6. \A c \in B : p < c /\ c < b => FALSE
        BY <1>1, <1>2
      <3> QED
        BY <1>1, <1>2, <2>2, <3>1, <3>2, <3>3, <3>5, <3>6
    <2> QED
      BY <2>1, <2>2
  <1>6. \E t2 \in B \ Lows :
          /\ TakenAfter(m, b) = t2 /\ ~IsFree(m, t2) /\ b < t2
          /\ \A c \in B : b < c /\ c < t2 => IsFree(m, c)
    <2>1. CASE ~IsFree(m, n)
      <3>1. n = Goes(m, FALSE, Goes(m, FALSE, b))
        BY <1>3, <2>1 DEF Goes
      <3>2. TakenAfter(m, b) = n
        BY <1>1, <2>1, <3>1, TakenAfterIs
      <3> QED
        BY <1>1, <1>3, <2>1, <3>2
    <2>2. CASE IsFree(m, n)
      <3>1. n \in Inner(B)
        BY <1>4, <2>2
      <3>2. PICK k \in B \ Lows : k = m[n].next /\ n < k /\ \A c \in B : c <= n \/ k <= c
        <4>1. m[n].next \in B \ Lows /\ n < m[n].next
              /\ \A c \in B : c <= n \/ m[n].next <= c
          BY <3>1, Neighbours
        <4> QED
          BY <4>1
      <3>3. ~IsFree(m, k)
        <4>1. n # b /\ k # b /\ n \notin Highs
          BY <1>1, <1>3, <3>1, <3>2 DEF Inner
        <4> QED
          BY <2>2, <3>2, <4>1 DEF ApartBut
      <3>4. k = Goes(m, FALSE, Goes(m, FALSE, b))
        BY <1>3, <2>2, <3>2 DEF Goes
      <3>5. TakenAfter(m, b) = k
        BY <1>1, <3>3, <3>4, TakenAfterIs
      <3>6. \A c \in B : b < c /\ c < k => c = n
        BY <1>1, <1>3, <3>2
      <3>7. b < k
        BY <1>1, <1>3, <3>2
      <3> QED
        BY <2>2, <3>2, <3>3, <3>5, <3>6, <3>7
    <2> QED
      BY <2>1, <2>2
  <1>7. PICK t1 \in Inner(B), x \in B \ Highs :
          /\ TakenBefore(m, b) = x /\ m[x].next = t1 /\ ~IsFree(m, x) /\ x < t1
          /\ t1 <= b /\ IsFree(m, t1)
          /\ \A c \in B : t1 < c /\ c < b => FALSE
    BY <1>5
  <1>8. PICK t2 \in B \ Lows :
          /\ TakenAfter(m, b) = t2 /\ ~IsFree(m, t2) /\ b < t2
          /\ \A c \in B : b < c /\ c < t2 => IsFree(m, c)
    BY <1>6
  <1>9. \A c \in B : t1 < c /\ c < t2 => c \in Inner(B) /\ IsFree(m, c)
    <2> SUFFICES ASSUME NEW c \in B, t1 < c, c < t2
                 PROVE  c \in Inner(B) /\ IsFree(m, c)
      OBVIOUS
    <2>1. c = b \/ b < c
      BY <1>1, <1>7
    <2> QED
      BY <1>4, <1>8, <2>1
  <1>10. m[t2].prev = t1 => m[t1].next = t2
    <2>1. m[m[t2].prev].next = t2
      BY <1>8, Links
    <2> QED
      BY <2>1
  <1> QED
    BY <1>7, <1>8, <1>9, <1>10

LEMMA CompactFreeIs ==
    ASSUME NEW m, NEW B, List(m, B), NEW b \in Inner(B), ApartBut(m, B, b),
           NEW m1, m1 = CompactFree(m, b)
    PROVE  \E B1 : /\ Good(m1, B1)
                   /\ Used(m1, B1) = Used(m, B) \ {b}
                   /\ Untouched(m, m1, Used(m, B) \ {b})
  <1>1. PICK f : f = [m EXCEPT ![b].taken = FALSE]
    OBVIOUS
  <1>2. /\ List(f, B) /\ f[b].taken = FALSE
        /\ \A w \in Ram : w # b => f[w] = m[w]
        /\ \A c \in B : f[c].next = m[c].next /\ f[c].prev = m[c].prev
    <2>1. b \in Ram /\ m \in [Ram -> Header \cup Word]
      BY DEF List, Inner
    <2>2. PICK h \in Header : h = m[b]
      BY DEF List, Inner
    <2>3. PICK k \in Header : /\ k = [h EXCEPT !.taken = FALSE]
                              /\ k.next = h.next /\ k.prev = h.prev /\ k.taken = FALSE
      BY HeaderMark
    <2>4. f = [m EXCEPT ![b] = k]
      BY <1>1, <2>1, <2>2, <2>3
    <2>5. /\ f \in [Ram -> Header \cup Word] /\ f[b] = k
          /\ \A w \in Ram : w # b => f[w] = m[w]
      BY <2>1, <2>4
    <2>6. k.next = m[b].next /\ k.prev = m[b].prev
      BY <2>2, <2>3
    <2>7. List(f, B) /\ \A c \in B : f[c].next = m[c].next /\ f[c].prev = m[c].prev
      BY <2>5, <2>6, MarkIs
    <2> QED
      BY <2>3, <2>5, <2>7
  <1>3. /\ b \in B /\ B \subseteq Ram /\ IsFree(f, b)
        /\ (\A c \in B : c \in Nat) /\ \A w \in Ram : w \in Nat
    BY <1>2, Numbers, RamFacts DEF List, Inner, IsFree
  <1>4. ApartBut(f, B, b)
    <2> SUFFICES ASSUME NEW c \in B \ Highs, c # b, f[c].next # b
                 PROVE  ~(IsFree(f, c) /\ IsFree(f, f[c].next))
      BY DEF ApartBut
    <2>1. m[c].next \in B
      BY Links
    <2>2. f[c] = m[c] /\ f[m[c].next] = m[m[c].next]
      BY <1>2, <1>3, <2>1
    <2> QED
      BY <1>2, <2>2 DEF ApartBut, IsFree
  <1>5. PICK t1 \in Inner(B), t2 \in B \ Lows, x \in B \ Highs :
             /\ TakenBefore(f, b) = x /\ f[x].next = t1 /\ ~IsFree(f, x) /\ x < t1
             /\ TakenAfter(f, b) = t2 /\ ~IsFree(f, t2)
             /\ t1 <= b /\ b < t2 /\ IsFree(f, t1)
             /\ \A c \in B : t1 < c /\ c < t2 => c \in Inner(B) /\ IsFree(f, c)
             /\ f[t2].prev = t1 => f[t1].next = t2
    BY <1>2, <1>3, <1>4, CompactEnds
  <1>7. t1 \in B /\ t1 \in Nat /\ t2 \in Nat /\ b \in Nat /\ t1 < t2
    BY <1>3, <1>5 DEF Inner
  <1>8. Merged(f, m1, t1, t2)
    <2>1. PICK m2 : m2 = IF t1 # b \/ f[t2].prev # b
                         THEN [f EXCEPT ![t1].next = t2, ![t2].prev = t1] ELSE f
      OBVIOUS
    <2>2. m1 = [w \in Ram |-> IF t1 < w /\ w < t2 THEN Junk ELSE m2[w]]
      <3>1. m1 = LET temp1 == f[TakenBefore(f, b)].next
                     temp2 == TakenAfter(f, b)
                     merged == IF temp1 # b \/ f[temp2].prev # b
                               THEN [f EXCEPT ![temp1].next = temp2, ![temp2].prev = temp1]
                               ELSE f
                 IN  [w \in Ram |-> IF temp1 < w /\ w < temp2 THEN Junk ELSE merged[w]]
        BY <1>1 DEF CompactFree
      <3>2. f[TakenBefore(f, b)].next = t1 /\ TakenAfter(f, b) = t2
        BY <1>5
      <3>3. m1 = LET merged == IF t1 # b \/ f[t2].prev # b
                               THEN [f EXCEPT ![t1].next = t2, ![t2].prev = t1]
                               ELSE f
                 IN  [w \in Ram |-> IF t1 < w /\ w < t2 THEN Junk ELSE merged[w]]
        BY <3>1, <3>2
      <3> QED
        BY <2>1, <3>3
    <2>3. \/ m2 = [f EXCEPT ![t1].next = t2, ![t2].prev = t1]
          \/ m2 = f /\ f[t1].next = t2 /\ f[t2].prev = t1
      BY <1>5, <2>1
    <2> QED
      BY <1>2, <1>5, <1>7, <2>2, <2>3, Joined
  <1>9. PICK B1 : B1 = Outside(B, t1, t2)
    OBVIOUS
  <1>10. List(m1, B1)
    BY <1>2, <1>5, <1>7, <1>8, <1>9, MergedIs
  <1>11. /\ B1 \subseteq B /\ t1 \in B1 /\ t2 \in B1
         /\ \A c \in B1 : /\ m1[c].taken = f[c].taken
                          /\ c # t1 => m1[c].next = f[c].next
    <2>1. B1 \subseteq B /\ t1 \in B1 /\ t2 \in B1
      BY <1>5, <1>7, <1>9 DEF Outside
    <2>2. ASSUME NEW c \in B1
          PROVE  m1[c].taken = f[c].taken /\ (c # t1 => m1[c].next = f[c].next)
      <3>1. CASE c = t1 \/ c = t2
        BY <1>8, <3>1 DEF Merged
      <3>2. CASE c < t1 \/ t2 < c
        <4>1. c \in Ram
          BY <1>3, <2>1
        <4> QED
          BY <1>8, <3>2, <4>1 DEF Merged
      <3>3. c = t1 \/ c = t2 \/ c < t1 \/ t2 < c
        <4>1. c \in Nat /\ (c <= t1 \/ t2 <= c)
          BY <1>3, <1>9, <2>1 DEF Outside
        <4> QED
          BY <1>7, <4>1
      <3> QED
        BY <3>1, <3>2, <3>3
    <2> QED
      BY <2>1, <2>2
  <1>12. Apart(m1, B1)
    <2> SUFFICES ASSUME NEW c \in B1 \ Highs
                 PROVE  ~(IsFree(m1, c) /\ IsFree(m1, m1[c].next))
      BY DEF Apart
    <2>1. CASE c = t1
      <3>1. m1[c].next = t2
        BY <1>8, <2>1 DEF Merged
      <3> QED
        BY <1>5, <1>11, <3>1 DEF IsFree
    <2>2. CASE c # t1
      <3>1. PICK n : n = m1[c].next
        OBVIOUS
      <3>2. n = f[c].next /\ n \in B1
        BY <1>10, <1>11, <2>2, <3>1, Links
      <3>3. CASE n = t1
        <4>1. c = x
          <5>1. f[f[c].next].prev = c /\ f[f[x].next].prev = x
            BY <1>2, <1>5, <1>11, Links
          <5> QED
            BY <1>5, <3>2, <3>3, <5>1
        <4> QED
          BY <1>5, <1>11, <4>1 DEF IsFree
      <3>4. CASE n # t1
        <4>1. c # b /\ n # b
          BY <1>5, <1>7, <1>9, <2>2, <3>2, <3>4 DEF Outside
        <4>2. ~(IsFree(f, c) /\ IsFree(f, n))
          BY <1>4, <1>11, <3>2, <4>1 DEF ApartBut
        <4> QED
          BY <1>11, <3>1, <3>2, <4>2 DEF IsFree
      <3> QED
        BY <3>3, <3>4
    <2> QED
      BY <2>1, <2>2
  <1>13. \A c \in B : c # b => f[c].taken = m[c].taken
    BY <1>2, <1>3
  <1>14. Used(m1, B1) = Used(m, B) \ {b}
    <2>1. ASSUME NEW c \in Used(m, B), c # b
          PROVE  c \in Used(m1, B1)
      <3>1. c \in Inner(B) /\ ~IsFree(f, c) /\ c \in B /\ c \in Nat
        BY <1>3, <1>13, <2>1 DEF Used, Inner, IsFree
      <3>2. c \in B1
        BY <1>5, <1>7, <1>9, <3>1 DEF Outside
      <3> QED
        BY <1>11, <3>1, <3>2 DEF Used, Inner, IsFree
    <2>2. ASSUME NEW c \in Used(m1, B1)
          PROVE  c \in Used(m, B) /\ c # b
      <3>1. c \in B1 /\ c \in Inner(B) /\ ~IsFree(f, c)
        BY <1>11 DEF Used, Inner, IsFree
      <3>2. c # b
        BY <1>3, <3>1
      <3> QED
        BY <1>11, <1>13, <3>1, <3>2 DEF Used, IsFree
    <2> QED
      BY <2>1, <2>2
  <1>15. Untouched(m, m1, Used(m, B) \ {b})
    <2> SUFFICES ASSUME NEW c \in Used(m, B), c # b
                 PROVE  /\ m1[c].next = m[c].next
                        /\ \A w \in Ram : c < w /\ w < m[c].next => m1[w] = m[w]
      BY DEF Untouched
    <2>1. c \in Used(m1, B1) /\ c \in B1 /\ c \in B /\ c \in Inner(B) /\ c \in Nat
      BY <1>3, <1>14 DEF Used, Inner
    <2>2. c # t1
      BY <1>5, <1>11, <2>1 DEF Used, IsFree
    <2>3. m1[c].next = m[c].next
      BY <1>2, <1>11, <2>1, <2>2
    <2>4. PICK n \in Nat : /\ n = m[c].next /\ \A d \in B : d <= c \/ n <= d
      <3>1. m[c].next \in B /\ \A d \in B : d <= c \/ m[c].next <= d
        BY <2>1, Neighbours
      <3> QED
        BY <1>3, <3>1
    <2>5. ASSUME NEW w \in Ram, c < w, w < n
          PROVE  m1[w] = m[w]
      <3>1. w \in Nat /\ w \notin B
        BY <1>3, <2>1, <2>4, <2>5
      <3>2. f[w] = m[w]
        BY <1>2, <1>3, <3>1
      <3>3. t1 <= c \/ n <= t1
        BY <1>7, <2>4
      <3>4. c <= t1 \/ t2 <= c
        BY <1>9, <2>1 DEF Outside
      <3>5. w < t1 \/ t2 < w
        BY <1>7, <2>1, <2>2, <2>5, <3>1, <3>3, <3>4
      <3> QED
        BY <1>8, <3>2, <3>5 DEF Merged
    <2> QED
      BY <2>3, <2>4, <2>5
  <1> QED
    BY <1>10, <1>12, <1>14, <1>15 DEF Good


-----------------------------------------------------------------------------
(* The split of a block: the ends of s_get_free_block and s_shrink_block.     *)

(* m1 is m with the block b, which n follows, split at t.                     *)
Split(m, m1, b, t, n) ==
  /\ m1 \in [Ram -> Header \cup Word]
  /\ m1[b] \in Header /\ m1[b].next = t
  /\ m1[b].prev = m[b].prev /\ m1[b].taken = m[b].taken
  /\ m1[t] \in Header /\ m1[t].next = n /\ m1[t].prev = b
  /\ m1[n] \in Header /\ m1[n].prev = t
  /\ m1[n].next = m[n].next /\ m1[n].taken = m[n].taken
  /\ \A w \in Ram : w # b /\ w # t /\ w # n => m1[w] = m[w]

LEMMA SplitPlace ==
    ASSUME NEW m, NEW B, List(m, B), NEW b \in Inner(B), NEW n, n = m[b].next,
           NEW t \in Nat, b + 2 <= t, t + 2 <= n
    PROVE  /\ t \in Ram /\ t \notin B /\ t \notin Lows /\ t \notin Highs
           /\ \E r \in Regions : t \in FirstGuard(r)..LastGuard(r)
           /\ n \in B \ Lows /\ n \in Nat /\ b \in Nat /\ b \in B /\ b \notin Lows /\ b \notin Highs
           /\ \A c \in B : c <= b \/ n <= c
  <1>1. b \in B /\ b \notin Highs /\ b \notin Lows /\ \A c \in B : c \in Nat
    BY Numbers DEF Inner
  <1>2. n \in B \ Lows /\ b < n /\ \A c \in B : c <= b \/ n <= c
    BY Neighbours
  <1>3. b \in Nat /\ n \in Nat
    BY <1>1, <1>2
  <1>4. t \notin B
    BY <1>1, <1>2, <1>3
  <1>5. Lows \subseteq B /\ Highs \subseteq B
    BY DEF List
  <1>6. PICK r \in Regions : b \in Within(B, r)
    BY <1>1, Numbers
  <1>7. b # LastGuard(r)
    BY <1>1, <1>6 DEF Highs
  <1>8. n \in Within(B, r)
    BY <1>6, <1>7, NextWithin
  <1>9. PICK lo \in Nat, hi \in Nat : lo = FirstGuard(r) /\ hi = LastGuard(r)
    BY RegionFacts
  <1>10. lo <= b /\ n <= hi
    BY <1>6, <1>8, <1>9 DEF Within
  <1>11. t \in lo..hi
    BY <1>3, <1>10
  <1>12. lo..hi \subseteq Ram
    BY <1>9, RegionFacts
  <1> QED
    BY <1>1, <1>2, <1>3, <1>4, <1>5, <1>9, <1>11, <1>12

LEMMA SplitIs ==
    ASSUME NEW m, NEW B, List(m, B), NEW b \in Inner(B), NEW n, n = m[b].next,
           NEW t \in Nat, b + 2 <= t, t + 2 <= n, NEW m1, Split(m, m1, b, t, n)
    PROVE  List(m1, B \cup {t})
  <1>1. /\ t \in Ram /\ t \notin B /\ t \notin Lows /\ t \notin Highs
        /\ \E r \in Regions : t \in FirstGuard(r)..LastGuard(r)
        /\ n \in B \ Lows /\ n \in Nat /\ b \in Nat /\ b \in B /\ b \notin Lows /\ b \notin Highs
        /\ \A c \in B : c <= b \/ n <= c
    BY SplitPlace
  <1>2. /\ B \subseteq Ram /\ Lows \subseteq B /\ Highs \subseteq B
        /\ \A c \in B : c \in Nat
    BY Numbers DEF List
  <1>3. PICK B1 : B1 = B \cup {t}
    OBVIOUS
  <1>4. b < t /\ t < n
    BY <1>1
  <1>5. \A c \in B : /\ m1[c] \in Header /\ m1[c].taken = m[c].taken
                     /\ c # b => m1[c].next = m[c].next
                     /\ c # n => m1[c].prev = m[c].prev
    <2> SUFFICES ASSUME NEW c \in B
                 PROVE  /\ m1[c] \in Header /\ m1[c].taken = m[c].taken
                        /\ c # b => m1[c].next = m[c].next
                        /\ c # n => m1[c].prev = m[c].prev
      OBVIOUS
    <2>1. c \in Ram /\ c # t /\ m[c] \in Header
      BY <1>1, <1>2 DEF List
    <2>2. CASE c = b
      BY <2>2, <1>1, <1>4 DEF Split
    <2>3. CASE c = n
      BY <2>3, <1>1, <1>4 DEF Split
    <2>4. CASE c # b /\ c # n
      BY <2>1, <2>4 DEF Split
    <2> QED
      BY <2>2, <2>3, <2>4
  <1>6. \A w \in Ram \ B1 : m1[w] \in Word
    BY <1>1, <1>3 DEF Split, List
  <1>7. ASSUME NEW c \in B1 \ Highs
        PROVE  Follows(m1, B1, c, m1[c].next)
    <2>1. CASE c = b
      <3>1. m1[b].next = t /\ m1[t].prev = b
        BY DEF Split
      <3>2. t \in B1 \ Lows /\ \A d \in B1 : d <= b \/ t <= d
        BY <1>1, <1>2, <1>3, <1>4
      <3>3. Follows(m1, B1, b, t)
        BY <1>4, <3>1, <3>2 DEF Follows
      <3> QED
        BY <2>1, <3>1, <3>3
    <2>2. CASE c = t
      <3>1. m1[t].next = n /\ m1[n].prev = t
        BY DEF Split
      <3>2. n \in B1 \ Lows /\ \A d \in B1 : d <= t \/ n <= d
        BY <1>1, <1>2, <1>3, <1>4
      <3>3. Follows(m1, B1, t, n)
        BY <1>4, <3>1, <3>2 DEF Follows
      <3> QED
        BY <2>2, <3>1, <3>3
    <2>3. CASE c # b /\ c # t
      <3>1. c \in B /\ c \in Nat
        BY <1>2, <1>3, <2>3
      <3>2. PICK d \in B \ Lows : /\ d = m[c].next /\ c < d /\ m[d].prev = c
                                  /\ \A e \in B : e <= c \/ d <= e
        <4>1. /\ m[c].next \in B \ Lows /\ c < m[c].next /\ m[m[c].next].prev = c
              /\ \A e \in B : e <= c \/ m[c].next <= e
          BY <3>1, Links
        <4> QED
          BY <4>1
      <3>3. m1[c].next = d /\ d \in Nat
        BY <1>2, <1>5, <2>3, <3>1, <3>2
      <3>4. d # n
        <4>1. m[n].prev = b
          BY Neighbours
        <4> QED
          BY <2>3, <3>2, <4>1
      <3>5. m1[d].prev = c
        BY <1>5, <3>2, <3>4
      <3>6. t <= c \/ d <= t
        <4>1. c <= b \/ n <= c
          BY <1>1, <3>1
        <4>2. b <= c \/ d <= b
          BY <1>1, <3>1, <3>2, <3>3
        <4> QED
          BY <1>1, <1>4, <2>3, <3>1, <3>3, <4>1, <4>2
      <3>7. d \in B1 \ Lows /\ \A e \in B1 : e <= c \/ d <= e
        BY <1>3, <3>2, <3>6
      <3>8. Follows(m1, B1, c, d)
        BY <3>2, <3>5, <3>7 DEF Follows
      <3> QED
        BY <3>3, <3>8
    <2> QED
      BY <2>1, <2>2, <2>3
  <1>8. ASSUME NEW c \in B1 \ Lows
        PROVE  m1[c].prev \in B1 \ Highs /\ m1[m1[c].prev].next = c
    <2>1. CASE c = n
      BY <1>1, <1>3, <2>1 DEF Split
    <2>2. CASE c = t
      BY <1>1, <1>3, <2>2 DEF Split
    <2>3. CASE c # n /\ c # t
      <3>1. c \in B
        BY <1>3, <2>3
      <3>2. PICK p \in B \ Highs : p = m[c].prev /\ m[p].next = c
        <4>1. m[c].prev \in B \ Highs /\ m[m[c].prev].next = c
          BY <3>1, Links
        <4> QED
          BY <4>1
      <3>3. p # b
        BY <2>3, <3>2
      <3> QED
        BY <1>3, <1>5, <2>3, <3>1, <3>2, <3>3
    <2> QED
      BY <2>1, <2>2, <2>3
  <1>9. ASSUME NEW c \in Inner(B1) PROVE c + DYN_MIN_SPLIT_SIZE <= m1[c].next
    <2>1. CASE c = b \/ c = t
      BY <2>1 DEF Split, DYN_MIN_SPLIT_SIZE
    <2>2. CASE c # b /\ c # t
      <3>1. c \in B /\ c \in Inner(B)
        BY <1>3, <2>2 DEF Inner
      <3>2. c + DYN_MIN_SPLIT_SIZE <= m[c].next
        BY <3>1 DEF List
      <3> QED
        BY <1>5, <2>2, <3>1, <3>2
    <2> QED
      BY <2>1, <2>2
  <1>10. /\ \A c \in Lows \cup Highs : ~IsFree(m1, c)
         /\ \A c \in Highs : m1[c].next = NULL
    <2>1. \A c \in Lows \cup Highs : c \in B /\ c # b /\ ~IsFree(m, c)
      BY <1>1, <1>2 DEF List
    <2>2. \A c \in Highs : m[c].next = NULL
      BY DEF List
    <2> QED
      BY <1>5, <2>1, <2>2 DEF IsFree
  <1>11. \A c \in B1 : m1[c] \in Header /\ \E r \in Regions : c \in FirstGuard(r)..LastGuard(r)
    <2>1. \A c \in B : \E r \in Regions : c \in FirstGuard(r)..LastGuard(r)
      BY DEF List
    <2>2. m1[t] \in Header
      BY DEF Split
    <2> QED
      BY <1>1, <1>3, <1>5, <2>1, <2>2
  <1>12. Linked(m1, B1)
    BY <1>7, <1>8 DEF Linked
  <1>13. /\ m1 \in [Ram -> Header \cup Word] /\ B1 \subseteq Ram
         /\ Lows \subseteq B1 /\ Highs \subseteq B1
    BY <1>1, <1>2, <1>3 DEF Split
  <1>14. List(m1, B1)
    BY <1>6, <1>9, <1>10, <1>11, <1>12, <1>13 DEF List
  <1> QED
    BY <1>3, <1>14

LEMMA HeaderOf ==
    ASSUME NEW x \in Link, NEW y \in Link, NEW t \in BOOLEAN
    PROVE  /\ NewBlock(x, y, t) \in Header
           /\ NewBlock(x, y, t).next = x /\ NewBlock(x, y, t).prev = y
           /\ NewBlock(x, y, t).taken = t
  BY DEF NewBlock, Header

Alike(m, m1, b) == \A w \in Ram : b < w /\ w < m1[b].next => m1[w] = m[w]

(* Block b keeps its contents and at least size words, nothing else that is   *)
(* in use changes.                                                            *)
LEMMA CutToIs ==
    ASSUME NEW m, NEW B, Good(m, B), NEW b \in Used(m, B), NEW size \in Nat, 2 <= size,
           b + size <= m[b].next,
           NEW stale \in BOOLEAN, NEW m1, m1 = CutTo(m, b, size, stale)
    PROVE  \E B1 : /\ Good(m1, B1)
                   /\ Used(m1, B1) = Used(m, B)
                   /\ Untouched(m, m1, Used(m, B) \ {b})
                   /\ b + size <= m1[b].next /\ m1[b].next <= m[b].next
                   /\ Alike(m, m1, b)
  <1>1. /\ List(m, B) /\ Apart(m, B) /\ b \in Inner(B) /\ b \in B /\ b \in Nat
        /\ (\A c \in B : c \in Nat /\ c # NULL) /\ \A w \in Ram : w \in Nat
    BY Numbers, RamFacts DEF Good, Used, Inner
  <1>2. PICK n \in B : n = m[b].next /\ b + 2 <= n /\ \A c \in B : c <= b \/ n <= c
    <2>1. m[b].next \in B /\ b + 2 <= m[b].next /\ \A c \in B : c <= b \/ m[b].next <= c
      BY <1>1, Neighbours
    <2> QED
      BY <2>1
  <1>3. n \in Nat /\ n # NULL
    BY <1>1
  <1>4. BlockSize(m, b) = n - b
    BY <1>2, <1>3 DEF BlockSize
  <1>5. CASE (n - b) - size < DYN_MIN_SPLIT_SIZE
    <2>1. m1 = m
      BY <1>4, <1>5 DEF CutTo
    <2> QED
      BY <1>1, <1>2, <1>3, <2>1 DEF Untouched, Alike
  <1>6. CASE ~((n - b) - size < DYN_MIN_SPLIT_SIZE)
    <2>1. PICK t \in Nat : t = b + size
      BY <1>1
    <2>2. b + 2 <= t /\ t + 2 <= n
      BY <1>1, <1>3, <1>6, <2>1 DEF DYN_MIN_SPLIT_SIZE
    <2>3. PICK f : f = [m EXCEPT ![t] = NewBlock(n, b, stale), ![n].prev = t, ![b].next = t]
      OBVIOUS
    <2>4. m1 = CompactFree(f, t)
      BY <1>2, <1>4, <1>6, <2>1, <2>3 DEF CutTo
    <2>5. Split(m, f, b, t, n)
      <3>1. /\ t \in Ram /\ t \notin B
            /\ n \in B \ Lows /\ n \in Nat /\ b \in Nat /\ b \in B
        BY <1>1, <1>2, <2>2, SplitPlace
      <3>2. /\ b \in Ram /\ n \in Ram /\ b # t /\ t # n /\ b # n
            /\ m \in [Ram -> Header \cup Word]
        BY <1>1, <1>3, <2>2, <3>1 DEF List
      <3>3. b \in Link /\ n \in Link /\ t \in Link
        BY <3>1, <3>2 DEF Link
      <3>4. PICK hb \in Header, hn \in Header : hb = m[b] /\ hn = m[n]
        BY <1>1, <1>3, <2>2, <3>1 DEF List
      <3>5. PICK k \in Header : k = NewBlock(n, b, stale) /\ k.next = n /\ k.prev = b
        BY <3>3, HeaderOf
      <3>6. PICK kn \in Header : /\ kn = [hn EXCEPT !.prev = t]
                                 /\ kn.prev = t /\ kn.next = hn.next /\ kn.taken = hn.taken
        BY <3>3, HeaderLinks
      <3>7. PICK kb \in Header : /\ kb = [hb EXCEPT !.next = t]
                                 /\ kb.next = t /\ kb.prev = hb.prev /\ kb.taken = hb.taken
        BY <3>3, HeaderLinks
      <3>8. PICK f2 : f2 = [m EXCEPT ![t] = NewBlock(n, b, stale)]
        OBVIOUS
      <3>9. f2 \in [Ram -> Header \cup Word] /\ f2[t] = k
            /\ \A w \in Ram : w # t => f2[w] = m[w]
        BY <3>1, <3>2, <3>5, <3>8
      <3>10. PICK f3 : f3 = [f2 EXCEPT ![n].prev = t]
        OBVIOUS
      <3>11. f3 = [f2 EXCEPT ![n] = kn]
        BY <3>2, <3>4, <3>6, <3>9, <3>10
      <3>12. f3 \in [Ram -> Header \cup Word] /\ f3[n] = kn
             /\ \A w \in Ram : w # n => f3[w] = f2[w]
        BY <3>2, <3>9, <3>11
      <3>13. f = [f3 EXCEPT ![b].next = t]
        BY <2>3, <3>8, <3>10
      <3>14. f = [f3 EXCEPT ![b] = kb]
        BY <3>2, <3>4, <3>7, <3>9, <3>12, <3>13
      <3>15. f \in [Ram -> Header \cup Word] /\ f[b] = kb
             /\ \A w \in Ram : w # b => f[w] = f3[w]
        BY <3>2, <3>12, <3>14
      <3>16. f[t] = k /\ f[n] = kn
        BY <3>1, <3>2, <3>9, <3>12, <3>15
      <3> QED
        BY <3>4, <3>5, <3>6, <3>7, <3>9, <3>12, <3>15, <3>16 DEF Split
    <2>6. /\ t \in Ram /\ t \notin B /\ t \notin Lows /\ t \notin Highs
          /\ n \notin Lows
      BY <1>1, <1>2, <2>2, SplitPlace
    <2>7. PICK B0 : B0 = B \cup {t}
      OBVIOUS
    <2>8. List(f, B0)
      BY <1>1, <1>2, <2>2, <2>5, <2>7, SplitIs
    <2>9. t \in Inner(B0)
      BY <2>6, <2>7 DEF Inner
    <2>10. \A c \in B : /\ f[c].taken = m[c].taken
                        /\ c # b => f[c].next = m[c].next
      <3> SUFFICES ASSUME NEW c \in B
                   PROVE  f[c].taken = m[c].taken /\ (c # b => f[c].next = m[c].next)
        OBVIOUS
      <3>1. c \in Ram /\ c # t
        BY <1>1, <2>6, Numbers
      <3> QED
        BY <2>5, <3>1 DEF Split
    <2>11. ApartBut(f, B0, t)
      <3> SUFFICES ASSUME NEW c \in B0 \ Highs, c # t, f[c].next # t
                   PROVE  ~(IsFree(f, c) /\ IsFree(f, f[c].next))
        BY DEF ApartBut
      <3>1. c \in B /\ c # b
        BY <2>5, <2>7 DEF Split
      <3>2. m[c].next \in B /\ ~(IsFree(m, c) /\ IsFree(m, m[c].next))
        BY <1>1, <3>1, Links DEF Apart
      <3> QED
        BY <2>10, <3>1, <3>2 DEF IsFree
    <2>12. PICK B1 : /\ Good(m1, B1) /\ Used(m1, B1) = Used(f, B0) \ {t}
                     /\ Untouched(f, m1, Used(f, B0) \ {t})
      BY <2>4, <2>8, <2>9, <2>11, CompactFreeIs
    <2>13. Used(f, B0) \ {t} = Used(m, B)
      BY <2>6, <2>7, <2>10 DEF Used, Inner, IsFree
    <2>14. /\ m1[b].next = t
           /\ \A w \in Ram : b < w /\ w < t => m1[w] = m[w]
      <3>1. f[b].next = t
        BY <2>5 DEF Split
      <3>2. m1[b].next = t /\ \A w \in Ram : b < w /\ w < t => m1[w] = f[w]
        BY <2>12, <2>13, <3>1 DEF Untouched
      <3>3. \A w \in Ram : b < w /\ w < t => f[w] = m[w]
        BY <1>1, <1>3, <2>2, <2>5 DEF Split
      <3> QED
        BY <3>2, <3>3
    <2>15. Untouched(m, m1, Used(m, B) \ {b})
      <3> SUFFICES ASSUME NEW c \in Used(m, B), c # b
                   PROVE  /\ m1[c].next = m[c].next
                          /\ \A w \in Ram : c < w /\ w < m[c].next => m1[w] = m[w]
        BY DEF Untouched
      <3>2. c \in B /\ c \in Inner(B) /\ c \in Nat
        BY <1>1 DEF Used, Inner
      <3>3. PICK d \in Nat : d = m[c].next /\ c < d /\ \A e \in B : e <= c \/ d <= e
        <4>1. m[c].next \in B /\ c < m[c].next /\ \A e \in B : e <= c \/ m[c].next <= e
          BY <1>1, <3>2, Neighbours
        <4> QED
          BY <1>1, <4>1
      <3>4. f[c].next = d /\ m1[c].next = d
            /\ \A w \in Ram : c < w /\ w < d => m1[w] = f[w]
        BY <2>10, <2>12, <2>13, <3>2, <3>3 DEF Untouched
      <3>5. ASSUME NEW w \in Ram, c < w, w < d PROVE f[w] = m[w]
        <4>1. w \in Nat /\ w # b /\ w # n
          BY <1>1, <3>2, <3>3, <3>5
        <4>2. w # t
          <5>1. c < b \/ n <= c
            BY <1>1, <1>2, <1>3, <3>2
          <5>2. b <= c \/ d <= b
            BY <1>1, <3>2, <3>3
          <5> QED
            BY <1>1, <1>3, <2>2, <3>2, <3>3, <3>5, <4>1, <5>1, <5>2
        <4> QED
          BY <2>5, <4>1, <4>2 DEF Split
      <3> QED
        BY <3>3, <3>4, <3>5
    <2>16. b + size <= m1[b].next /\ m1[b].next <= m[b].next
      BY <1>1, <1>2, <1>3, <2>1, <2>2, <2>14
    <2>17. Alike(m, m1, b)
      BY <2>14 DEF Alike
    <2> QED
      BY <2>12, <2>13, <2>15, <2>16, <2>17
  <1> QED
    BY <1>5, <1>6

-----------------------------------------------------------------------------
(* s_get_free_block and smalloc: what they find fits, and taking it leaves    *)
(* everything else as it is.                                                  *)

LEMMA Least ==
    ASSUME NEW T, T \subseteq Nat, T # {}
    PROVE  \E x \in T : \A y \in T : x <= y
  <1>1. PICK x \in T : \A y \in T : <<y, x>> \notin Smaller
    BY SmallerWellFounded, WFMin
  <1>2. ASSUME NEW y \in T PROVE x <= y
    <2>1. <<y, x>> \notin Smaller /\ x \in Nat /\ y \in Nat
      BY <1>1
    <2>2. ~(y < x)
      BY <2>1 DEF Smaller
    <2> QED
      BY <2>1, <2>2
  <1> QED
    BY <1>2

LEMMA FreeBlockIs ==
    ASSUME NEW m, NEW B, List(m, B), NEW bytes \in Nat, NEW r \in Regions,
           NEW b, b = FreeBlock(m, bytes, r), b # NULL
    PROVE  /\ bytes # 0 /\ b \in Inner(B) /\ IsFree(m, b)
           /\ b + ActSize(bytes) <= m[b].next
  <1>1. PICK list : list = Chain(m, r)
    OBVIOUS
  <1>2. PICK fit : fit = {i \in Places(r) : Fits(m, list[i], bytes)}
    OBVIOUS
  <1>3. b = LET best == CHOOSE i \in fit : \A j \in fit :
                          \/ BlockSize(m, list[i]) < BlockSize(m, list[j])
                          \/ BlockSize(m, list[i]) = BlockSize(m, list[j]) /\ i <= j
            IN  IF bytes = 0 \/ fit = {} THEN NULL ELSE list[best]
    BY <1>1, <1>2 DEF FreeBlock
  <1>4. fit \subseteq Nat /\ fit # {} /\ bytes # 0
    <2>1. Places(r) \subseteq Nat
      BY DEF Places
    <2> QED
      BY <1>2, <1>3, <2>1
  <1>5. /\ \A c \in B : c \in Nat /\ c # NULL
        /\ Highs \subseteq B /\ ActSize(bytes) \in Nat /\ ActSize(bytes) > 0
    <2>1. ActSize(bytes) = Words(bytes) + 1 /\ Words(bytes) \in Nat
      BY Rounded
    <2> QED
      BY <2>1, Numbers DEF List
  <1>6. ASSUME NEW c \in B, Fits(m, c, bytes)
        PROVE  /\ c \in Inner(B) /\ IsFree(m, c)
               /\ BlockSize(m, c) \in Nat /\ c + ActSize(bytes) <= m[c].next
    <2>1. c \in Inner(B) /\ IsFree(m, c)
      BY <1>6 DEF Fits, List, Inner
    <2>2. PICK n \in B : n = m[c].next /\ c < n
      <3>1. m[c].next \in B /\ c < m[c].next
        BY <2>1, Neighbours
      <3> QED
        BY <3>1
    <2>3. c \in Nat /\ n \in Nat /\ n # NULL
      BY <1>5
    <2>4. BlockSize(m, c) = n - c
      BY <2>2, <2>3 DEF BlockSize
    <2>5. ActSize(bytes) <= n - c
      BY <1>6, <2>4 DEF Fits
    <2>6. n - c \in Nat /\ c + ActSize(bytes) <= n
      BY <1>5, <2>2, <2>3, <2>5
    <2> QED
      BY <2>1, <2>2, <2>4, <2>6
  <1>7. ASSUME NEW i \in fit
        PROVE  list[i] \in B /\ Fits(m, list[i], bytes)
    <2>1. i \in Places(r) /\ Fits(m, list[i], bytes)
      BY <1>2
    <2>2. list[i] # NULL
      BY <2>1 DEF Fits
    <2> QED
      BY <1>1, <2>1, <2>2, BlocksAre DEF Within
  <1>8. \A i \in fit : BlockSize(m, list[i]) \in Nat
    BY <1>6, <1>7
  <1>9. \E i \in fit : \A j \in fit :
          \/ BlockSize(m, list[i]) < BlockSize(m, list[j])
          \/ BlockSize(m, list[i]) = BlockSize(m, list[j]) /\ i <= j
    <2>1. PICK S : S = {BlockSize(m, list[i]) : i \in fit}
      OBVIOUS
    <2>2. S \subseteq Nat /\ S # {}
      BY <1>4, <1>8, <2>1
    <2>3. PICK s \in S : \A t \in S : s <= t
      BY <2>2, Least
    <2>4. PICK T : T = {i \in fit : BlockSize(m, list[i]) = s}
      OBVIOUS
    <2>5. T \subseteq Nat /\ T # {}
      BY <1>4, <2>1, <2>3, <2>4
    <2>6. PICK i \in T : \A j \in T : i <= j
      BY <2>5, Least
    <2>7. i \in fit /\ BlockSize(m, list[i]) = s
      BY <2>4
    <2>8. ASSUME NEW j \in fit
          PROVE  \/ BlockSize(m, list[i]) < BlockSize(m, list[j])
                 \/ BlockSize(m, list[i]) = BlockSize(m, list[j]) /\ i <= j
      <3>1. PICK t \in Nat : t = BlockSize(m, list[j])
        BY <1>8
      <3>2. s <= t /\ s \in Nat
        BY <2>1, <2>2, <2>3, <3>1
      <3>3. CASE t = s
        <4>1. j \in T
          BY <2>4, <3>1, <3>3
        <4> QED
          BY <2>6, <2>7, <3>1, <3>3, <4>1
      <3>4. CASE t # s
        <4>1. s < t
          BY <3>2, <3>4
        <4> QED
          BY <2>7, <3>1, <4>1
      <3> QED
        BY <3>3, <3>4
    <2> QED
      BY <2>7, <2>8
  <1>10. PICK i \in fit : b = list[i]
    BY <1>3, <1>4, <1>9
  <1> QED
    BY <1>4, <1>6, <1>7, <1>10

LEMMA FoundIs ==
    ASSUME NEW m, NEW B, List(m, B), NEW bytes \in Nat,
           NEW b, b = Found(m, bytes), b # NULL
    PROVE  /\ bytes # 0 /\ b \in Inner(B) /\ IsFree(m, b)
           /\ b + ActSize(bytes) <= m[b].next
  <1>1. PICK having : having = {r \in Regions : FreeBlock(m, bytes, r) # NULL}
    OBVIOUS
  <1>2. b = IF having = {} THEN NULL ELSE FreeBlock(m, bytes, Min(having))
    BY <1>1 DEF Found
  <1>3. having # {} /\ having \subseteq Nat
    BY <1>1, <1>2, SallocAssumption
  <1>4. PICK r \in having : \A q \in having : r <= q
    BY <1>3, Least
  <1>5. Min(having) \in having
    BY <1>4 DEF Min
  <1>6. PICK q \in Regions : b = FreeBlock(m, bytes, q)
    BY <1>1, <1>2, <1>3, <1>5
  <1> QED
    BY <1>6, FreeBlockIs

LEMMA TakenIs ==
    ASSUME NEW m, NEW B, Good(m, B), NEW b \in Inner(B), IsFree(m, b),
           NEW bytes \in Nat \ {0}, b + ActSize(bytes) <= m[b].next,
           NEW stale \in BOOLEAN, NEW m1, m1 = Taken(m, b, bytes, stale)
    PROVE  \E B1 : /\ Good(m1, B1)
                   /\ Used(m1, B1) = Used(m, B) \cup {b} /\ b \notin Used(m, B)
                   /\ Untouched(m, m1, Used(m, B))
                   /\ b + ActSize(bytes) <= m1[b].next
  <1>1. /\ List(m, B) /\ Apart(m, B) /\ b \in B /\ b \in Ram
        /\ m \in [Ram -> Header \cup Word]
        /\ \A c \in B : c \in Nat /\ c \in Ram
    BY Numbers DEF Good, List, Inner
  <1>2. PICK f : f = [m EXCEPT ![b].taken = TRUE]
    OBVIOUS
  <1>3. m1 = CutTo(f, b, ActSize(bytes), stale)
    BY <1>2 DEF Taken
  <1>4. PICK h \in Header : h = m[b]
    BY <1>1 DEF List
  <1>5. PICK k \in Header : /\ k = [h EXCEPT !.taken = TRUE]
                            /\ k.next = h.next /\ k.prev = h.prev /\ k.taken = TRUE
    BY HeaderMark
  <1>6. f = [m EXCEPT ![b] = k]
    BY <1>1, <1>2, <1>4, <1>5
  <1>7. /\ f \in [Ram -> Header \cup Word] /\ f[b] = k
        /\ \A w \in Ram : w # b => f[w] = m[w]
    BY <1>1, <1>6
  <1>8. k.next = m[b].next /\ k.prev = m[b].prev
    BY <1>4, <1>5
  <1>9. List(f, B) /\ \A c \in B : f[c].next = m[c].next /\ f[c].prev = m[c].prev
    BY <1>1, <1>7, <1>8, MarkIs
  <1>10. f[b].taken /\ \A c \in B : c # b => f[c].taken = m[c].taken
    BY <1>1, <1>5, <1>7
  <1>11. Apart(f, B)
    <2> SUFFICES ASSUME NEW c \in B \ Highs, IsFree(f, c), IsFree(f, f[c].next)
                 PROVE  FALSE
      BY DEF Apart
    <2>1. m[c].next \in B /\ f[c].next = m[c].next
      BY <1>1, <1>9, Links
    <2>2. IsFree(m, c) /\ IsFree(m, m[c].next)
      BY <1>10, <2>1 DEF IsFree
    <2> QED
      BY <1>1, <2>2 DEF Apart
  <1>12. Good(f, B) /\ Used(f, B) = Used(m, B) \cup {b} /\ b \notin Used(m, B)
    <2>1. Inner(B) \subseteq B
      BY DEF Inner
    <2> QED
      BY <1>9, <1>10, <1>11, <2>1 DEF Good, Used, IsFree
  <1>13. PICK size \in Nat : size = ActSize(bytes) /\ 2 <= size
    BY Rounded
  <1>14. m1 = CutTo(f, b, size, stale) /\ b + size <= f[b].next /\ b \in Used(f, B)
    BY <1>1, <1>3, <1>9, <1>12, <1>13
  <1>15. PICK B1 : /\ Good(m1, B1)
                   /\ Used(m1, B1) = Used(f, B)
                   /\ Untouched(f, m1, Used(f, B) \ {b})
                   /\ b + size <= m1[b].next
    <2>1. Good(f, B) /\ 2 <= size
      BY <1>12, <1>13
    <2> QED
      BY <1>14, <2>1, CutToIs
  <1>16. Untouched(m, m1, Used(m, B))
    <2> SUFFICES ASSUME NEW c \in Used(m, B)
                 PROVE  /\ m1[c].next = m[c].next
                        /\ \A w \in Ram : c < w /\ w < m[c].next => m1[w] = m[w]
      BY DEF Untouched
    <2>1. c \in B /\ c \in Inner(B) /\ c # b
      BY <1>12 DEF Used, Inner
    <2>2. PICK d \in Nat : d = m[c].next /\ \A e \in B : e <= c \/ d <= e
      <3>1. m[c].next \in B /\ \A e \in B : e <= c \/ m[c].next <= e
        BY <1>1, <2>1, Neighbours
      <3> QED
        BY <1>1, <3>1
    <2>3. m1[c].next = d /\ \A w \in Ram : c < w /\ w < d => m1[w] = f[w]
      BY <1>9, <1>12, <1>15, <2>1, <2>2 DEF Untouched
    <2>4. \A w \in Ram : c < w /\ w < d => f[w] = m[w]
      BY <1>1, <1>7, <2>1, <2>2, RamFacts
    <2> QED
      BY <2>2, <2>3, <2>4
  <1> QED
    BY <1>12, <1>13, <1>15, <1>16

-----------------------------------------------------------------------------
(* What is stored in a payload disturbs no header.                            *)

LEMMA PayloadIs ==
    ASSUME NEW m, NEW B, Good(m, B), NEW m1 \in [Ram -> Header \cup Word],
           \A b \in B : m1[b] = m[b], \A w \in Ram \ B : m1[w] \in Word
    PROVE  Good(m1, B) /\ Used(m1, B) = Used(m, B)
  <1>1. List(m, B) /\ Apart(m, B)
    BY DEF Good
  <1>2. \A b \in Lows \cup Highs : ~IsFree(m1, b)
    BY <1>1 DEF List, IsFree
  <1>3. \A b \in B : m1[b] \in Header /\ m1[b].next = m[b].next /\ m1[b].prev = m[b].prev
    BY <1>1 DEF List
  <1>4. List(m1, B)
    BY <1>1, <1>2, <1>3, SameLinks
  <1>5. Apart(m1, B)
    <2> SUFFICES ASSUME NEW c \in B \ Highs
                 PROVE  ~(IsFree(m1, c) /\ IsFree(m1, m1[c].next))
      BY DEF Apart
    <2>1. m[c].next \in B
      BY <1>1, Links
    <2> QED
      BY <1>1, <1>3, <2>1 DEF Apart, IsFree
  <1>6. Used(m1, B) = Used(m, B)
    BY DEF Used, Inner, IsFree
  <1> QED
    BY <1>4, <1>5, <1>6 DEF Good

(* The payload of a block is in RAM and holds no header.                      *)
LEMMA PayloadHolds ==
    ASSUME NEW m, NEW B, List(m, B), NEW b \in Inner(B)
    PROVE  /\ b \in Nat /\ m[b].next \in Nat
           /\ \A w \in Int : b < w /\ w < m[b].next =>
                w \in Ram /\ w \notin B /\ m[w] \in Word
           /\ \A c \in B : c <= b \/ m[b].next <= c
  <1>1. /\ b \in B /\ b \notin Highs /\ \A c \in B : c \in Nat
    BY Numbers DEF Inner
  <1>2. PICK n \in B : n = m[b].next /\ \A c \in B : c <= b \/ n <= c
    <2>1. m[b].next \in B /\ \A c \in B : c <= b \/ m[b].next <= c
      BY Neighbours
    <2> QED
      BY <2>1
  <1>3. PICK r \in Regions : b \in Within(B, r)
    BY <1>1, Numbers
  <1>4. n \in Within(B, r)
    <2>1. b # LastGuard(r)
      BY <1>1, <1>3 DEF Highs
    <2> QED
      BY <1>2, <1>3, <2>1, NextWithin
  <1>5. PICK lo \in Nat, hi \in Nat : lo = FirstGuard(r) /\ hi = LastGuard(r)
    BY RegionFacts
  <1>6. lo <= b /\ n <= hi /\ lo..hi \subseteq Ram
    BY <1>3, <1>4, <1>5, RegionFacts DEF Within
  <1>7. ASSUME NEW w \in Int, b < w, w < n
        PROVE  w \in Ram /\ w \notin B /\ m[w] \in Word
    <2>1. b \in Nat /\ n \in Nat
      BY <1>1
    <2>2. w \in Ram
      BY <1>6, <1>7, <2>1, <1>5
    <2>3. w \notin B
      BY <1>1, <1>2, <1>7, <2>1
    <2> QED
      BY <2>2, <2>3 DEF List
  <1> QED
    BY <1>1, <1>2, <1>7

(* memmove in srealloc: the payload of block c is copied to that of block b.  *)
Copied(m, m1, b, c) == \A i \in Nat \ {0} : c + i < m[c].next => m1[b + i] = m[c + i]

LEMMA MovedIs ==
    ASSUME NEW m, NEW B, Good(m, B), NEW b \in Used(m, B), NEW c \in Used(m, B), b # c,
           m[c].next - c <= m[b].next - b,
           NEW m1, m1 = Moved(m, Pointer(b), Pointer(c))
    PROVE  /\ Good(m1, B) /\ Used(m1, B) = Used(m, B)
           /\ Untouched(m, m1, Used(m, B) \ {b})
           /\ \A d \in Used(m, B) : m1[d].next = m[d].next
           /\ Copied(m, m1, b, c)
  <1>1. /\ List(m, B) /\ b \in Inner(B) /\ c \in Inner(B) /\ m \in [Ram -> Header \cup Word]
        /\ B \subseteq Ram /\ b \in B /\ c \in B
        /\ (\A d \in B : d \in Nat /\ d # NULL) /\ \A w \in Ram : w \in Nat
    BY Numbers, RamFacts DEF Good, Used, List, Inner
  <1>2. PICK n \in Nat : /\ n = m[b].next
                         /\ \A w \in Int : b < w /\ w < n => w \in Ram /\ w \notin B
                         /\ \A d \in B : d <= b \/ n <= d
    BY <1>1, PayloadHolds
  <1>3. PICK k \in Nat : /\ k = m[c].next
                         /\ \A w \in Int : c < w /\ w < k => w \in Ram /\ m[w] \in Word
    BY <1>1, PayloadHolds
  <1>4. b \in Nat /\ c \in Nat /\ k - c <= n - b /\ k # NULL
    <2>1. m[c].next \in B
      BY <1>1, Neighbours
    <2> QED
      BY <1>1, <1>2, <1>3, <2>1
  <1>5. m1 = [w \in Ram |-> IF w \in (b + 1)..(b + (k - c) - 1) THEN m[(w - b) + c] ELSE m[w]]
    <2>1. Pointer(b) = b + 1 /\ Pointer(c) = c + 1 /\ BlockOf(c + 1) = c
      BY <1>4 DEF Pointer, BlockOf, DYN_HEADER_SIZE
    <2>2. ActualBlockSize(m, Pointer(c)) = (k - c) - 1
      BY <1>3, <1>4, <2>1 DEF ActualBlockSize, BlockSize, DYN_HEADER_SIZE
    <2>3. m1 = [w \in Ram |-> IF w \in (b + 1)..((b + 1) + ((k - c) - 1)) - 1
                              THEN m[(w - (b + 1)) + (c + 1)] ELSE m[w]]
      BY <2>1, <2>2 DEF Moved
    <2>4. ((b + 1) + ((k - c) - 1)) - 1 = b + (k - c) - 1
      BY <1>4
    <2>5. \A w \in Ram : (w - (b + 1)) + (c + 1) = (w - b) + c
      BY <1>1, <1>4
    <2> QED
      BY <2>3, <2>4, <2>5
  <1>6. PICK top \in Int : top = b + (k - c) - 1 /\ top < n
    BY <1>4
  <1>7. /\ \A w \in Ram : w \in (b + 1)..top => m1[w] = m[(w - b) + c] /\ m1[w] \in Word
        /\ \A w \in Ram : w \notin (b + 1)..top => m1[w] = m[w]
    <2>1. ASSUME NEW w \in Ram, w \in (b + 1)..top
          PROVE  m1[w] = m[(w - b) + c] /\ m1[w] \in Word
      <3>1. PICK x \in Int : x = (w - b) + c /\ c < x /\ x < k
        BY <1>1, <1>4, <1>6, <2>1
      <3>2. m1[w] = m[x]
        BY <1>5, <1>6, <2>1, <3>1
      <3> QED
        BY <1>3, <3>1, <3>2
    <2>2. \A w \in Ram : w \notin (b + 1)..top => m1[w] = m[w]
      BY <1>5, <1>6
    <2> QED
      BY <2>1, <2>2
  <1>8. m1 \in [Ram -> Header \cup Word]
    <2>1. \A w \in Ram : m1[w] \in Header \cup Word
      BY <1>1, <1>7
    <2> QED
      BY <1>5, <2>1
  <1>9. \A d \in B : m1[d] = m[d]
    <2> SUFFICES ASSUME NEW d \in B PROVE m1[d] = m[d]
      OBVIOUS
    <2>1. d \notin (b + 1)..top
      BY <1>1, <1>2, <1>4, <1>6
    <2> QED
      BY <1>1, <1>7, <2>1
  <1>10. \A w \in Ram \ B : m1[w] \in Word
    BY <1>1, <1>7 DEF List
  <1>11. Good(m1, B) /\ Used(m1, B) = Used(m, B)
    BY <1>8, <1>9, <1>10, PayloadIs
  <1>12. \A d \in Used(m, B) : m1[d].next = m[d].next
    BY <1>9 DEF Used, Inner
  <1>13. Untouched(m, m1, Used(m, B) \ {b})
    <2> SUFFICES ASSUME NEW d \in Used(m, B), d # b, NEW w \in Ram, d < w, w < m[d].next
                 PROVE  m1[w] = m[w]
      BY <1>12 DEF Untouched
    <2>1. d \in Inner(B) /\ d \in B
      BY DEF Used, Inner
    <2>2. PICK e \in Nat : e = m[d].next /\ \A x \in B : x <= d \/ e <= x
      BY <1>1, <2>1, PayloadHolds
    <2>3. (d <= b \/ n <= d) /\ (b <= d \/ e <= b)
      BY <1>1, <1>2, <2>1, <2>2
    <2>4. w \notin (b + 1)..top
      BY <1>1, <1>4, <1>6, <2>1, <2>2, <2>3
    <2> QED
      BY <1>7, <2>4
  <1>14. ASSUME NEW i \in Nat \ {0}, c + i < k PROVE m1[b + i] = m[c + i]
    <2>1. PICK w \in Int : w = b + i /\ b < w /\ w < n /\ w \in (b + 1)..top
                           /\ (w - b) + c = c + i
      BY <1>4, <1>6, <1>14
    <2>2. w \in Ram
      BY <1>2, <2>1
    <2> QED
      BY <1>7, <2>1, <2>2
  <1>15. Copied(m, m1, b, c)
    BY <1>3, <1>14 DEF Copied
  <1> QED
    BY <1>11, <1>12, <1>13, <1>15

-----------------------------------------------------------------------------
(* s_init makes one free block of every region.                               *)

LEMMA RegionOf ==
    ASSUME NEW q \in Regions, NEW w \in FirstGuard(q)..LastGuard(q)
    PROVE  q = CHOOSE r \in Regions : MemStart[r] <= w * DYN_SIZE_MULT
                                      /\ w * DYN_SIZE_MULT <= MemEnd[r]
  <1>1. MemStart[q] <= w * DYN_SIZE_MULT /\ w * DYN_SIZE_MULT <= MemEnd[q]
    <2>1. MemStart[q] \in Nat \ {0} /\ MemEnd[q] \in Nat
      BY SallocAssumption
    <2>2. MemStart[q] <= FirstGuard(q) * 8
      BY <2>1 DEF FirstGuard, FirstFreeRam, Words, DYN_SIZE_MULT
    <2>3. LastGuard(q) * 8 <= MemEnd[q]
      BY <2>1 DEF LastGuard, LastFreeRam, DYN_SIZE_MULT
    <2>4. PICK lo \in Nat, hi \in Nat : lo = FirstGuard(q) /\ hi = LastGuard(q)
      BY RegionFacts
    <2>5. w \in Nat /\ lo <= w /\ w <= hi
      BY <2>4
    <2> QED
      BY <2>1, <2>2, <2>3, <2>4, <2>5 DEF DYN_SIZE_MULT
  <1>2. ASSUME NEW r \in Regions, MemStart[r] <= w * DYN_SIZE_MULT,
               w * DYN_SIZE_MULT <= MemEnd[r]
        PROVE  r = q
    <2>1. PICK x \in Nat : x = w * DYN_SIZE_MULT
      <3>1. w \in Nat
        BY RegionFacts
      <3> QED
        BY <3>1 DEF DYN_SIZE_MULT
    <2>2. MemStart[r] \in Nat /\ MemEnd[r] \in Nat /\ MemStart[q] \in Nat /\ MemEnd[q] \in Nat
      BY SallocAssumption
    <2>3. ~(r < q) /\ ~(q < r)
      <3>1. r < q => MemEnd[r] < MemStart[q]
        BY SallocAssumption
      <3>2. q < r => MemEnd[q] < MemStart[r]
        BY SallocAssumption
      <3> QED
        BY <1>1, <1>2, <2>1, <2>2, <3>1, <3>2
    <2> QED
      BY <2>3, SallocAssumption
  <1> QED
    BY <1>1, <1>2

FirstBlocks == {FirstGuard(r) + 1 : r \in Regions}
FirstList == (Lows \cup Highs) \cup FirstBlocks

LEMMA InitializedWords ==
    ASSUME ~s_initialized, mem = [w \in Ram |-> Junk]
    PROVE  \E m1 :
             /\ m1 = Initialized
             /\ m1 \in [Ram -> Header \cup Word]
             /\ \A q \in Regions :
                  /\ m1[FirstGuard(q)] = NewBlock(FirstGuard(q) + 1, NULL, TRUE)
                  /\ m1[FirstGuard(q) + 1] = NewBlock(LastGuard(q), FirstGuard(q), FALSE)
                  /\ m1[LastGuard(q)] = NewBlock(NULL, FirstGuard(q) + 1, TRUE)
             /\ \A w \in Ram \ FirstList : m1[w] = Junk
  <1>1. PICK m1 : m1 = Initialized
    OBVIOUS
  <1> DEFINE Reg(w) == CHOOSE r \in Regions : MemStart[r] <= w * DYN_SIZE_MULT
                                              /\ w * DYN_SIZE_MULT <= MemEnd[r]
             At(w, r) == CASE w = FirstGuard(r) -> NewBlock(FirstGuard(r) + 1, NULL, TRUE)
                           [] w = FirstGuard(r) + 1 ->
                                NewBlock(LastGuard(r), FirstGuard(r), FALSE)
                           [] w = LastGuard(r) -> NewBlock(NULL, FirstGuard(r) + 1, TRUE)
                           [] OTHER -> Junk
  <1>2. \A w \in Ram : Reg(w) \in Regions
    BY RamFacts
  <1>3. m1 = [w \in Ram |-> At(w, Reg(w))]
    <2> DEFINE G(r) == [w \in Ram |->
                  CASE w = FirstGuard(r) -> NewBlock(FirstGuard(r) + 1, NULL, TRUE)
                    [] w = FirstGuard(r) + 1 -> NewBlock(LastGuard(r), FirstGuard(r), FALSE)
                    [] w = LastGuard(r) -> NewBlock(NULL, FirstGuard(r) + 1, TRUE)
                    [] OTHER -> mem[w]]
    <2>1. m1 = [w \in Ram |-> G(Reg(w))[w]]
      BY <1>1 DEF Initialized
    <2>2. ASSUME NEW w \in Ram, NEW r PROVE G(r)[w] = At(w, r)
      <3>1. mem[w] = Junk
        OBVIOUS
      <3> QED
        BY <3>1
    <2> HIDE DEF G, At, Reg
    <2> QED
      BY <2>1, <2>2
  <1>4. \A w \in Ram : m1[w] = At(w, Reg(w))
    BY <1>3
  <1>5. ASSUME NEW q \in Regions
        PROVE  /\ FirstGuard(q) \in Ram /\ FirstGuard(q) + 1 \in Ram /\ LastGuard(q) \in Ram
               /\ m1[FirstGuard(q)] = NewBlock(FirstGuard(q) + 1, NULL, TRUE)
               /\ m1[FirstGuard(q) + 1] = NewBlock(LastGuard(q), FirstGuard(q), FALSE)
               /\ m1[LastGuard(q)] = NewBlock(NULL, FirstGuard(q) + 1, TRUE)
    <2>1. PICK lo \in Nat, hi \in Nat : lo = FirstGuard(q) /\ hi = LastGuard(q)
                                        /\ lo + 3 <= hi /\ lo..hi \subseteq Ram
      BY RegionFacts
    <2>2. lo \in lo..hi /\ lo + 1 \in lo..hi /\ hi \in lo..hi
      BY <2>1
    <2>3. lo \in Ram /\ lo + 1 \in Ram /\ hi \in Ram
      BY <2>1, <2>2
    <2>4. Reg(lo) = q /\ Reg(lo + 1) = q /\ Reg(hi) = q
      BY <2>1, <2>2, RegionOf
    <2>5. m1[lo] = At(lo, q) /\ m1[lo + 1] = At(lo + 1, q) /\ m1[hi] = At(hi, q)
      BY <1>4, <2>3, <2>4
    <2> HIDE DEF Reg
    <2>6. At(lo, q) = NewBlock(lo + 1, NULL, TRUE)
      <3>1. lo # lo + 1 /\ lo # hi
        BY <2>1
      <3> QED
        BY ONLY <2>1, <3>1
    <2>7. At(lo + 1, q) = NewBlock(hi, lo, FALSE)
      <3>1. lo # lo + 1 /\ lo + 1 # hi
        BY <2>1
      <3> QED
        BY ONLY <2>1, <3>1
    <2>8. At(hi, q) = NewBlock(NULL, lo + 1, TRUE)
      BY <2>1
    <2> HIDE DEF At, Reg
    <2> QED
      BY <2>1, <2>3, <2>5, <2>6, <2>7, <2>8
  <1>6. ASSUME NEW w \in Ram \ FirstList PROVE m1[w] = Junk
    <2>1. PICK r \in Regions : m1[w] = At(w, r)
      BY <1>2, <1>4
    <2>2. w # FirstGuard(r) /\ w # LastGuard(r) /\ w # FirstGuard(r) + 1
      BY DEF FirstList, FirstBlocks, Lows, Highs
    <2> QED
      BY <2>1, <2>2
  <1>7. m1 \in [Ram -> Header \cup Word]
    <2>1. ASSUME NEW w \in Ram PROVE m1[w] \in Header \cup Word
      <3>1. CASE w \in Ram \ FirstList
        BY <1>6, <3>1 DEF Word
      <3>2. CASE w \in FirstList
        <4>1. PICK q \in Regions : w = FirstGuard(q) \/ w = LastGuard(q)
                                   \/ w = FirstGuard(q) + 1
          BY <3>2 DEF FirstList, FirstBlocks, Lows, Highs
        <4>2. /\ FirstGuard(q) \in Link /\ FirstGuard(q) + 1 \in Link
              /\ LastGuard(q) \in Link /\ NULL \in Link
          BY <1>5 DEF Link
        <4>3. \A x \in Link, y \in Link : NewBlock(x, y, TRUE) \in Header
                                          /\ NewBlock(x, y, FALSE) \in Header
          BY HeaderOf
        <4> QED
          BY <1>5, <4>1, <4>2, <4>3
      <3> QED
        BY <3>1, <3>2
    <2> HIDE DEF At, Reg
    <2> QED
      BY <1>3, <2>1
  <1> QED
    BY <1>1, <1>5, <1>6, <1>7

LEMMA InitializedIs ==
    ASSUME ~s_initialized, mem = [w \in Ram |-> Junk]
    PROVE  \E m1, B : m1 = Initialized /\ Good(m1, B) /\ Used(m1, B) = {}
  <1>1. PICK m1 :
             /\ m1 = Initialized
             /\ m1 \in [Ram -> Header \cup Word]
             /\ \A q \in Regions :
                  /\ m1[FirstGuard(q)] = NewBlock(FirstGuard(q) + 1, NULL, TRUE)
                  /\ m1[FirstGuard(q) + 1] = NewBlock(LastGuard(q), FirstGuard(q), FALSE)
                  /\ m1[LastGuard(q)] = NewBlock(NULL, FirstGuard(q) + 1, TRUE)
             /\ \A w \in Ram \ FirstList : m1[w] = Junk
    BY InitializedWords
  <1>2. PICK B : B = FirstList
    OBVIOUS
  <1>3. ASSUME NEW q \in Regions
        PROVE  \E lo \in Nat, hi \in Nat, mid \in Nat :
                 /\ lo = FirstGuard(q) /\ hi = LastGuard(q) /\ mid = lo + 1 /\ mid + 2 <= hi
                 /\ lo..hi \subseteq Ram
                 /\ m1[lo] \in Header /\ m1[lo].next = mid /\ ~IsFree(m1, lo)
                 /\ m1[mid] \in Header /\ m1[mid].next = hi /\ m1[mid].prev = lo
                 /\ m1[hi] \in Header /\ m1[hi].next = NULL /\ m1[hi].prev = mid
                 /\ ~IsFree(m1, hi) /\ IsFree(m1, mid)
                 /\ \A c \in B : c <= lo \/ c = mid \/ hi <= c
    <2>1. PICK lo \in Nat, hi \in Nat, mid \in Nat :
            /\ lo = FirstGuard(q) /\ hi = LastGuard(q) /\ mid = lo + 1 /\ mid + 2 <= hi
            /\ lo..hi \subseteq Ram
      <3>1. PICK lo \in Nat, hi \in Nat : /\ lo = FirstGuard(q) /\ hi = LastGuard(q)
                                          /\ lo + 3 <= hi /\ lo..hi \subseteq Ram
        BY RegionFacts
      <3>2. PICK mid \in Nat : mid = lo + 1
        OBVIOUS
      <3>3. mid + 2 <= hi
        BY <3>1, <3>2
      <3> QED
        BY <3>1, <3>2, <3>3
    <2>2. lo \in Link /\ mid \in Link /\ hi \in Link /\ NULL \in Link
      <3>1. lo \in lo..hi /\ mid \in lo..hi /\ hi \in lo..hi
        BY <2>1
      <3> QED
        BY <2>1, <3>1 DEF Link
    <2>3. /\ m1[lo] = NewBlock(mid, NULL, TRUE)
          /\ m1[mid] = NewBlock(hi, lo, FALSE)
          /\ m1[hi] = NewBlock(NULL, mid, TRUE)
      BY <1>1, <2>1
    <2>4. /\ m1[lo] \in Header /\ m1[lo].next = mid /\ m1[lo].taken
          /\ m1[hi] \in Header /\ m1[hi].next = NULL /\ m1[hi].prev = mid /\ m1[hi].taken
          /\ m1[mid] \in Header /\ m1[mid].next = hi /\ m1[mid].prev = lo
          /\ ~m1[mid].taken
      <3>1. \A x \in Link, y \in Link :
              /\ NewBlock(x, y, TRUE) \in Header
              /\ NewBlock(x, y, TRUE).next = x /\ NewBlock(x, y, TRUE).prev = y
              /\ NewBlock(x, y, TRUE).taken
        BY DEF NewBlock, Header
      <3>2. \A x \in Link, y \in Link :
              /\ NewBlock(x, y, FALSE) \in Header
              /\ NewBlock(x, y, FALSE).next = x /\ NewBlock(x, y, FALSE).prev = y
              /\ ~NewBlock(x, y, FALSE).taken
        BY DEF NewBlock, Header
      <3>3. PICK g1 : g1 = m1[lo] /\ g1 \in Header /\ g1.next = mid /\ g1.taken
        BY <2>2, <2>3, <3>1
      <3>4. PICK g2 : /\ g2 = m1[hi] /\ g2 \in Header /\ g2.next = NULL /\ g2.prev = mid
                      /\ g2.taken
        BY <2>2, <2>3, <3>1
      <3>5. PICK f : /\ f = m1[mid] /\ f \in Header /\ f.next = hi /\ f.prev = lo
                     /\ ~f.taken
        BY <2>2, <2>3, <3>2
      <3> QED
        BY <3>3, <3>4, <3>5
    <2>5. \A c \in B : c <= lo \/ c = mid \/ hi <= c
      <3> SUFFICES ASSUME NEW c \in B PROVE c <= lo \/ c = mid \/ hi <= c
        OBVIOUS
      <3>1. PICK r \in Regions : c = FirstGuard(r) \/ c = LastGuard(r)
                                 \/ c = FirstGuard(r) + 1
        BY <1>2 DEF FirstList, FirstBlocks, Lows, Highs
      <3>2. CASE r = q
        BY <2>1, <3>1, <3>2
      <3>3. CASE r # q
        <4>1. PICK l \in Nat, h \in Nat : l = FirstGuard(r) /\ h = LastGuard(r) /\ l + 3 <= h
          BY RegionFacts
        <4>2. hi < l \/ h < lo
          BY <2>1, <3>3, <4>1, RegionsApart
        <4> QED
          BY <2>1, <3>1, <4>1, <4>2
      <3> QED
        BY <3>2, <3>3
    <2> QED
      BY <2>1, <2>4, <2>5 DEF IsFree
  <1>4. ASSUME NEW b \in B
        PROVE  \E q \in Regions : b = FirstGuard(q) \/ b = LastGuard(q)
                                  \/ b = FirstGuard(q) + 1
    BY <1>2 DEF FirstList, FirstBlocks, Lows, Highs
  <1>5. ASSUME NEW q \in Regions
        PROVE  /\ FirstGuard(q) \in B \cap Lows /\ FirstGuard(q) \notin Highs
               /\ LastGuard(q) \in B \cap Highs /\ LastGuard(q) \notin Lows
               /\ FirstGuard(q) + 1 \in Inner(B)
    BY <1>2, GuardsDiffer DEF FirstList, FirstBlocks, Lows, Highs, Inner
  <1>6. ASSUME NEW b \in B
        PROVE  /\ b \in Ram /\ m1[b] \in Header
               /\ \E r \in Regions : b \in FirstGuard(r)..LastGuard(r)
    <2>1. PICK q \in Regions : b = FirstGuard(q) \/ b = LastGuard(q) \/ b = FirstGuard(q) + 1
      BY <1>4
    <2>2. PICK lo \in Nat, hi \in Nat, mid \in Nat :
                 /\ lo = FirstGuard(q) /\ hi = LastGuard(q) /\ mid = lo + 1 /\ mid + 2 <= hi
                 /\ lo..hi \subseteq Ram
                 /\ m1[lo] \in Header /\ m1[mid] \in Header /\ m1[hi] \in Header
      BY <1>3
    <2>3. b \in lo..hi
      BY <2>1, <2>2
    <2> QED
      BY <2>1, <2>2, <2>3
  <1>7. \A b \in B \ Highs : Follows(m1, B, b, m1[b].next)
    <2> SUFFICES ASSUME NEW b \in B \ Highs PROVE Follows(m1, B, b, m1[b].next)
      OBVIOUS
    <2>1. PICK q \in Regions : b = FirstGuard(q) \/ b = FirstGuard(q) + 1
      BY <1>4, <1>5
    <2>2. PICK lo \in Nat, hi \in Nat, mid \in Nat :
                 /\ lo = FirstGuard(q) /\ hi = LastGuard(q) /\ mid = lo + 1 /\ mid + 2 <= hi
                 /\ m1[lo].next = mid
                 /\ m1[mid].next = hi /\ m1[mid].prev = lo
                 /\ m1[hi].prev = mid
                 /\ \A c \in B : c <= lo \/ c = mid \/ hi <= c
      BY <1>3
    <2>3. mid \in B \ Lows /\ hi \in B \ Lows
      BY <1>5, <2>2 DEF Inner
    <2>4. \A c \in B : c \in Nat
      BY <1>6, RamFacts
    <2>5. CASE b = lo
      <3>1. \A c \in B : c <= b \/ mid <= c
        BY <2>2, <2>4, <2>5
      <3> QED
        BY <2>2, <2>3, <2>5, <3>1 DEF Follows
    <2>6. CASE b = mid
      <3>1. \A c \in B : c <= b \/ hi <= c
        BY <2>2, <2>4, <2>6
      <3> QED
        BY <2>2, <2>3, <2>6, <3>1 DEF Follows
    <2> QED
      BY <2>1, <2>2, <2>5, <2>6
  <1>8. \A b \in B \ Lows : m1[b].prev \in B \ Highs /\ m1[m1[b].prev].next = b
    <2> SUFFICES ASSUME NEW b \in B \ Lows
                 PROVE  m1[b].prev \in B \ Highs /\ m1[m1[b].prev].next = b
      OBVIOUS
    <2>1. PICK q \in Regions : b = LastGuard(q) \/ b = FirstGuard(q) + 1
      BY <1>4, <1>5
    <2>2. PICK lo \in Nat, hi \in Nat, mid \in Nat :
                 /\ lo = FirstGuard(q) /\ hi = LastGuard(q) /\ mid = lo + 1
                 /\ m1[lo].next = mid
                 /\ m1[mid].next = hi /\ m1[mid].prev = lo
                 /\ m1[hi].prev = mid
      BY <1>3
    <2>3. lo \in B \ Highs /\ mid \in B \ Highs
      BY <1>5, <2>2 DEF Inner
    <2> QED
      BY <2>1, <2>2, <2>3
  <1>9. ASSUME NEW b \in Inner(B)
        PROVE  /\ b + DYN_MIN_SPLIT_SIZE <= m1[b].next /\ IsFree(m1, b)
               /\ m1[b].next \in Highs
    <2>1. PICK q \in Regions : b = FirstGuard(q) + 1
      BY <1>4, <1>5 DEF Inner
    <2>2. PICK lo \in Nat, hi \in Nat, mid \in Nat :
                 /\ lo = FirstGuard(q) /\ hi = LastGuard(q) /\ mid = lo + 1 /\ mid + 2 <= hi
                 /\ m1[mid].next = hi /\ IsFree(m1, mid)
      BY <1>3
    <2>3. hi \in Highs
      BY <2>2 DEF Highs
    <2> QED
      BY <2>1, <2>2, <2>3 DEF DYN_MIN_SPLIT_SIZE
  <1>10. /\ \A b \in Lows \cup Highs : ~IsFree(m1, b)
         /\ \A b \in Highs : m1[b].next = NULL
    <2>1. ASSUME NEW q \in Regions
          PROVE  ~IsFree(m1, FirstGuard(q)) /\ ~IsFree(m1, LastGuard(q))
                 /\ m1[LastGuard(q)].next = NULL
      BY <1>3
    <2> QED
      BY <2>1 DEF Lows, Highs
  <1>11. \A w \in Ram \ B : m1[w] \in Word
    BY <1>1, <1>2 DEF Word
  <1>12. Lows \subseteq B /\ Highs \subseteq B /\ B \subseteq Ram
    BY <1>5, <1>6 DEF Lows, Highs
  <1>13. Linked(m1, B)
    BY <1>7, <1>8 DEF Linked
  <1>14. List(m1, B)
    BY <1>1, <1>6, <1>9, <1>10, <1>11, <1>12, <1>13 DEF List
  <1>15. Apart(m1, B)
    <2> SUFFICES ASSUME NEW c \in B \ Highs, IsFree(m1, c), IsFree(m1, m1[c].next)
                 PROVE  FALSE
      BY DEF Apart
    <2>1. c \in Inner(B)
      BY <1>10 DEF Inner
    <2>2. m1[c].next \in Highs
      BY <1>9, <2>1
    <2> QED
      BY <1>10, <2>2
  <1>16. Used(m1, B) = {}
    BY <1>9 DEF Used
  <1> QED
    BY <1>1, <1>14, <1>15, <1>16 DEF Good

-----------------------------------------------------------------------------
(* What the callers hold, over the operations.                                *)

(* Blocks that callers hold stay as they are, but for those at ps.            *)
Kept(m, l, m1, l1, ps) ==
  \A q \in DOMAIN l \ ps :
    /\ q \in DOMAIN l1 /\ l1[q] = l[q]
    /\ \A i \in 1..Words(l[q]) : m1[(q + i) - 1] = m[(q + i) - 1]

(* The words of the piece p, as far as n, are those of the piece q in m1.     *)
Carried(m, m1, p, q, n) == \A i \in 1..n : m1[(q + i) - 1] = m[(p + i) - 1]

Holds(m, l, B) == Good(m, B) /\ Owned(m, l, B)

LEMMA PointerIs ==
    ASSUME NEW b \in Nat
    PROVE  Pointer(b) = b + 1 /\ BlockOf(b + 1) = b
  BY DEF Pointer, BlockOf, DYN_HEADER_SIZE

LEMMA UsedIs ==
    ASSUME NEW m, NEW B, Good(m, B), NEW b \in Used(m, B)
    PROVE  b \in Nat \ {0} /\ b \in B /\ b \in Inner(B) /\ Pointer(b) = b + 1
           /\ BlockOf(b + 1) = b /\ m[b].next \in Nat /\ b + 2 <= m[b].next
  <1>1. List(m, B) /\ b \in Inner(B) /\ b \in B
    BY DEF Good, Used, Inner
  <1>2. b \in Nat \ {0}
    BY <1>1, Numbers
  <1>3. m[b].next \in Nat /\ b + 2 <= m[b].next
    BY <1>1, PayloadHolds, Neighbours
  <1> QED
    BY <1>1, <1>2, <1>3, PointerIs

(* The block that a pointer gives access to.                                  *)
LEMMA HeldIs ==
    ASSUME NEW m, NEW l, NEW B, Holds(m, l, B), NEW p \in DOMAIN l
    PROVE  \E b \in Used(m, B), n \in Nat, words \in Nat :
             /\ p = b + 1 /\ p = Pointer(b) /\ b = BlockOf(p) /\ b \in Nat
             /\ l[p] \in Sizes \ {0} /\ l[p] \in Nat
             /\ words = Words(l[p]) /\ 1 <= words
             /\ n = m[b].next /\ b + words < n
             /\ b + ActSize(l[p]) <= m[b].next
  <1>1. Good(m, B) /\ Owned(m, l, B)
    BY DEF Holds
  <1>2. PICK b \in Used(m, B) : p = Pointer(b)
    BY <1>1 DEF Owned
  <1>3. b \in Nat /\ Pointer(b) = b + 1 /\ BlockOf(b + 1) = b /\ m[b].next \in Nat
    BY <1>1, UsedIs
  <1>4. l[p] \in Sizes \ {0} /\ b + ActSize(l[p]) <= m[b].next
    BY <1>1, <1>2 DEF Owned
  <1>5. l[p] \in Nat \ {0}
    BY <1>4, SallocAssumption
  <1>6. PICK words \in Nat : words = Words(l[p]) /\ ActSize(l[p]) = words + 1 /\ 1 <= words
    <2>1. /\ Words(l[p]) \in Nat /\ ActSize(l[p]) = Words(l[p]) + 1 /\ Words(l[p]) > 0
      BY <1>5, Rounded
    <2> QED
      BY <2>1
  <1>7. PICK n \in Nat : n = m[b].next
    BY <1>3
  <1>8. b + words < n
    BY <1>3, <1>4, <1>6, <1>7
  <1> QED
    BY <1>2, <1>3, <1>4, <1>5, <1>6, <1>7, <1>8

(* The words of a payload, as the block sees them.                            *)
LEMMA WordsOf ==
    ASSUME NEW b \in Nat, NEW i \in Int
    PROVE  ((b + 1) + i) - 1 = b + i
  OBVIOUS

(* What an operation leaves untouched is kept.                                *)
LEMMA KeptIs ==
    ASSUME NEW m, NEW l, NEW B, Holds(m, l, B), NEW m1, NEW l1, NEW U,
           U \subseteq Used(m, B), Untouched(m, m1, U),
           NEW ps, \A b \in Used(m, B) \ U : Pointer(b) \in ps,
           \A q \in DOMAIN l \ ps : q \in DOMAIN l1 /\ l1[q] = l[q]
    PROVE  Kept(m, l, m1, l1, ps)
  <1> SUFFICES ASSUME NEW q \in DOMAIN l \ ps, NEW i \in 1..Words(l[q])
               PROVE  m1[(q + i) - 1] = m[(q + i) - 1]
    BY DEF Kept
  <1>1. PICK b \in Used(m, B), n \in Nat, words \in Nat :
             /\ q = b + 1 /\ q = Pointer(b) /\ b \in Nat
             /\ words = Words(l[q]) /\ n = m[b].next /\ b + words < n
    BY HeldIs
  <1>2. b \in U
    BY <1>1
  <1>3. i \in Nat /\ 1 <= i /\ i <= words
    BY <1>1
  <1>4. PICK w \in Int : w = (q + i) - 1 /\ b < w /\ w < n
    BY <1>1, <1>3
  <1>5. List(m, B) /\ b \in Inner(B)
    BY DEF Holds, Good, Used
  <1>6. w \in Ram
    BY <1>1, <1>4, <1>5, PayloadHolds
  <1> QED
    BY <1>1, <1>2, <1>4, <1>6 DEF Untouched

(* The callers of the new state.                                              *)
LEMMA OwnedIs ==
    ASSUME NEW m, NEW l, NEW B, Holds(m, l, B), NEW m1, NEW l1, NEW B1, Good(m1, B1),
           NEW U, U \subseteq Used(m, B), Untouched(m, m1, U), U \subseteq Used(m1, B1),
           DOMAIN l1 = {Pointer(b) : b \in Used(m1, B1)},
           \A b \in U : l1[Pointer(b)] = l[Pointer(b)],
           \A b \in Used(m1, B1) \ U : /\ l1[Pointer(b)] \in Sizes \ {0}
                                       /\ b + ActSize(l1[Pointer(b)]) <= m1[b].next
    PROVE  Holds(m1, l1, B1)
  <1>1. ASSUME NEW b \in U
        PROVE  /\ l1[Pointer(b)] \in Sizes \ {0}
               /\ b + ActSize(l1[Pointer(b)]) <= m1[b].next
    <2>1. l[Pointer(b)] \in Sizes \ {0} /\ b + ActSize(l[Pointer(b)]) <= m[b].next
      BY DEF Holds, Owned
    <2>2. m1[b].next = m[b].next
      BY DEF Untouched
    <2> QED
      BY <2>1, <2>2
  <1> QED
    BY <1>1 DEF Holds, Owned

LEMMA ReleasedIs ==
    ASSUME NEW m, NEW l, NEW B, Holds(m, l, B), NEW p \in DOMAIN l,
           NEW m1, m1 = CompactFree(m, BlockOf(p)),
           NEW l1, DOMAIN l1 = DOMAIN l \ {p}, \A q \in DOMAIN l1 : l1[q] = l[q]
    PROVE  \E B1 : Holds(m1, l1, B1) /\ Kept(m, l, m1, l1, {p})
  <1>1. Good(m, B) /\ List(m, B) /\ DOMAIN l = {Pointer(c) : c \in Used(m, B)}
    BY DEF Holds, Good, Owned
  <1>2. PICK b \in Used(m, B) : p = b + 1 /\ p = Pointer(b) /\ b = BlockOf(p) /\ b \in Nat
    BY HeldIs
  <1>3. b \in Inner(B) /\ m1 = CompactFree(m, b)
    BY <1>2 DEF Used
  <1>4. ApartBut(m, B, b)
    BY <1>1 DEF Good, Apart, ApartBut
  <1>5. PICK U : U = Used(m, B) \ {b}
    OBVIOUS
  <1>6. PICK B1 : Good(m1, B1) /\ Used(m1, B1) = U /\ Untouched(m, m1, U)
    BY <1>1, <1>3, <1>4, <1>5, CompactFreeIs
  <1>7. \A c \in Used(m, B) : Pointer(c) = c + 1 /\ c \in Nat
    BY <1>1, UsedIs
  <1>8. DOMAIN l1 = {Pointer(c) : c \in U}
    <2>1. \A c \in Used(m, B) : Pointer(c) = p <=> c = b
      BY <1>2, <1>7
    <2> QED
      BY <1>1, <1>5, <2>1
  <1>9. \A c \in U : l1[Pointer(c)] = l[Pointer(c)]
    BY <1>8
  <1>10. Holds(m1, l1, B1)
    BY <1>5, <1>6, <1>8, <1>9, OwnedIs
  <1>11. Kept(m, l, m1, l1, {p})
    <2>1. U \subseteq Used(m, B) /\ \A c \in Used(m, B) \ U : Pointer(c) \in {p}
      BY <1>2, <1>5
    <2>2. \A q \in DOMAIN l \ {p} : q \in DOMAIN l1 /\ l1[q] = l[q]
      OBVIOUS
    <2> QED
      BY <1>6, <2>1, <2>2, KeptIs
  <1> QED
    BY <1>10, <1>11

LEMMA ObtainedIs ==
    ASSUME NEW m, NEW l, NEW B, Holds(m, l, B), NEW b \in Inner(B), IsFree(m, b),
           NEW bytes \in Sizes \ {0}, b + ActSize(bytes) <= m[b].next,
           NEW stale \in BOOLEAN, NEW m1, m1 = Taken(m, b, bytes, stale),
           NEW l1, DOMAIN l1 = DOMAIN l \cup {Pointer(b)},
           \A q \in DOMAIN l1 : l1[q] = IF q = Pointer(b) THEN bytes ELSE l[q]
    PROVE  /\ Pointer(b) \notin DOMAIN l
           /\ \E B1 : /\ Holds(m1, l1, B1) /\ Kept(m, l, m1, l1, {})
                      /\ Used(m1, B1) = Used(m, B) \cup {b} /\ b \notin Used(m, B)
                      /\ Untouched(m, m1, Used(m, B)) /\ b + ActSize(bytes) <= m1[b].next
  <1>1. Good(m, B) /\ List(m, B) /\ DOMAIN l = {Pointer(c) : c \in Used(m, B)}
    BY DEF Holds, Good, Owned
  <1>2. bytes \in Nat \ {0}
    BY SallocAssumption
  <1>3. PICK U : U = Used(m, B)
    OBVIOUS
  <1>4. PICK B1 : /\ Good(m1, B1) /\ Used(m1, B1) = U \cup {b} /\ b \notin U
                  /\ Untouched(m, m1, U) /\ b + ActSize(bytes) <= m1[b].next
    BY <1>1, <1>2, <1>3, TakenIs
  <1>5. \A c \in U \cup {b} : Pointer(c) = c + 1 /\ c \in Nat
    BY <1>4, UsedIs
  <1>6. Pointer(b) \notin DOMAIN l
    BY <1>1, <1>3, <1>4, <1>5
  <1>7. DOMAIN l1 = {Pointer(c) : c \in U \cup {b}}
    BY <1>1, <1>3
  <1>8. \A c \in U : l1[Pointer(c)] = l[Pointer(c)]
    BY <1>1, <1>3, <1>6, <1>7
  <1>9. \A c \in Used(m1, B1) \ U : /\ l1[Pointer(c)] \in Sizes \ {0}
                                    /\ c + ActSize(l1[Pointer(c)]) <= m1[c].next
    <2>1. l1[Pointer(b)] = bytes
      BY <1>7
    <2>2. \A c \in Used(m1, B1) \ U : c = b
      BY <1>4
    <2> QED
      BY <1>4, <2>1, <2>2
  <1>10. U \subseteq Used(m, B) /\ U \subseteq Used(m1, B1)
         /\ DOMAIN l1 = {Pointer(c) : c \in Used(m1, B1)}
    BY <1>3, <1>4, <1>7
  <1>11. Holds(m1, l1, B1)
    BY <1>4, <1>8, <1>9, <1>10, OwnedIs
  <1>12. Kept(m, l, m1, l1, {})
    <2>1. \A c \in Used(m, B) \ U : Pointer(c) \in {}
      BY <1>3
    <2>2. \A q \in DOMAIN l \ {} : q \in DOMAIN l1 /\ l1[q] = l[q]
      BY <1>6
    <2> QED
      BY <1>4, <1>10, <2>1, <2>2, KeptIs
  <1> QED
    BY <1>3, <1>4, <1>6, <1>11, <1>12

(* scalloc and the callers fill the words of a piece.                         *)
LEMMA FillIs ==
    ASSUME NEW m, NEW l, NEW B, Holds(m, l, B), NEW p \in DOMAIN l, NEW v \in Word,
           NEW m1, m1 = Filled(m, p, l[p], v)
    PROVE  /\ \E B1 : Holds(m1, l, B1)
           /\ Kept(m, l, m1, l, {p})
           /\ \A i \in 1..Words(l[p]) : m1[(p + i) - 1] = v
  <1>1. Good(m, B) /\ List(m, B) /\ DOMAIN l = {Pointer(c) : c \in Used(m, B)}
    BY DEF Holds, Good, Owned
  <1>2. PICK b \in Used(m, B), n \in Nat, words \in Nat :
             /\ p = b + 1 /\ p = Pointer(b) /\ b \in Nat /\ l[p] \in Nat
             /\ words = Words(l[p])
             /\ n = m[b].next /\ b + words < n
             /\ b + ActSize(l[p]) <= m[b].next
    BY HeldIs
  <1>3. PICK bytes \in Nat : bytes = l[p]
    BY <1>2
  <1>4. /\ Good(m1, B) /\ Used(m1, B) = Used(m, B)
        /\ Untouched(m, m1, Used(m, B) \ {b})
        /\ \A c \in Used(m, B) : m1[c].next = m[c].next
        /\ \A w \in Ram : w \in (b + 1)..(b + Words(l[p])) => m1[w] = v
    <2>1. m1 = Filled(m, Pointer(b), bytes, v) /\ b + ActSize(bytes) <= m[b].next
      BY <1>2, <1>3
    <2>2. /\ Good(m1, B) /\ Used(m1, B) = Used(m, B)
          /\ Untouched(m, m1, Used(m, B) \ {b})
          /\ \A c \in Used(m, B) : m1[c].next = m[c].next
          /\ \A w \in Ram : w \in (b + 1)..(b + Words(bytes)) => m1[w] = v
      <3>1. /\ List(m, B) /\ b \in Inner(B) /\ m \in [Ram -> Header \cup Word]
            /\ B \subseteq Ram
            /\ (\A c \in B : c \in Nat) /\ \A w \in Ram : w \in Nat
        BY <1>1, Numbers, RamFacts DEF Used, List
      <3>2. PICK far \in Nat : /\ far = m[b].next
                               /\ \A w \in Int : b < w /\ w < far => w \in Ram /\ w \notin B
                               /\ \A e \in B : e <= b \/ far <= e
        BY <3>1, PayloadHolds
      <3>3. PICK span \in Nat : span = Words(bytes) /\ b + span < far /\ b \in Nat
        <4>1. Words(bytes) \in Nat /\ ActSize(bytes) = Words(bytes) + 1
          BY Rounded
        <4>2. b \in Nat
          BY <3>1 DEF Inner
        <4> QED
          BY <2>1, <3>2, <4>1, <4>2
      <3>4. m1 = [w \in Ram |-> IF w \in (b + 1)..(b + span) THEN v ELSE m[w]]
        <4>1. Pointer(b) = b + 1 /\ ((b + 1) + span) - 1 = b + span
          BY <3>3 DEF Pointer, DYN_HEADER_SIZE
        <4> QED
          BY <2>1, <3>3, <4>1 DEF Filled
      <3>5. /\ \A w \in Ram : w \in (b + 1)..(b + span) => m1[w] = v
            /\ \A w \in Ram : w \notin (b + 1)..(b + span) => m1[w] = m[w]
        BY <3>4
      <3>6. m1 \in [Ram -> Header \cup Word]
        BY <3>1, <3>4
      <3>7. \A c \in B : m1[c] = m[c]
        <4> SUFFICES ASSUME NEW c \in B PROVE m1[c] = m[c]
          OBVIOUS
        <4>1. c \notin (b + 1)..(b + span)
          BY <3>1, <3>2, <3>3
        <4> QED
          BY <3>1, <3>5, <4>1
      <3>8. \A w \in Ram \ B : m1[w] \in Word
        BY <3>1, <3>5 DEF List
      <3>9. Good(m1, B) /\ Used(m1, B) = Used(m, B)
        BY <1>1, <3>6, <3>7, <3>8, PayloadIs
      <3>10. \A c \in Used(m, B) : m1[c].next = m[c].next
        BY <3>7 DEF Used, Inner
      <3>11. Untouched(m, m1, Used(m, B) \ {b})
        <4> SUFFICES ASSUME NEW c \in Used(m, B), c # b, NEW w \in Ram, c < w, w < m[c].next
                     PROVE  m1[w] = m[w]
          BY <3>10 DEF Untouched
        <4>1. c \in Inner(B) /\ c \in B
          BY DEF Used, Inner
        <4>2. PICK d \in Nat : d = m[c].next /\ \A e \in B : e <= c \/ d <= e
          BY <3>1, <4>1, PayloadHolds
        <4>3. b \in B
          BY <3>1 DEF Inner
        <4>4. (c <= b \/ far <= c) /\ (b <= c \/ d <= b)
          <5>1. c <= b \/ far <= c
            BY <3>2, <4>1
          <5>2. b <= c \/ d <= b
            BY <4>2, <4>3
          <5> QED
            BY <5>1, <5>2
        <4>5. w \notin (b + 1)..(b + span)
          BY <3>1, <3>3, <4>1, <4>2, <4>4
        <4> QED
          BY <3>5, <4>5
      <3> QED
        BY <3>3, <3>5, <3>9, <3>10, <3>11
    <2> QED
      BY <1>3, <2>2
  <1>5. Holds(m1, l, B)
    BY <1>4 DEF Holds, Owned
  <1>6. Kept(m, l, m1, l, {p})
    <2>1. PICK U : U = Used(m, B) \ {b}
      OBVIOUS
    <2>2. U \subseteq Used(m, B) /\ Untouched(m, m1, U)
          /\ \A c \in Used(m, B) \ U : Pointer(c) \in {p}
      BY <1>2, <1>4, <2>1
    <2> QED
      BY <2>2, KeptIs
  <1>7. ASSUME NEW i \in 1..Words(l[p]) PROVE m1[(p + i) - 1] = v
    <2>1. i \in Int /\ 1 <= i /\ i <= words
      BY <1>2
    <2>2. PICK w \in Int : w = (p + i) - 1 /\ b < w /\ w < n /\ w \in (b + 1)..(b + words)
      BY <1>2, <2>1
    <2>3. w \in Ram
      BY <1>1, <1>2, <2>2, PayloadHolds DEF Used
    <2> QED
      BY <1>2, <1>4, <2>2, <2>3
  <1> QED
    BY <1>5, <1>6, <1>7

LEMMA RoomIs ==
    ASSUME NEW m, NEW l, NEW B, Holds(m, l, B), NEW p \in DOMAIN l
    PROVE  \E b \in Used(m, B), n \in Nat, room \in Nat :
             /\ p = b + 1 /\ p = Pointer(b) /\ b = BlockOf(p) /\ b \in Nat
             /\ n = m[b].next /\ n = (b + 1) + room
             /\ room = ActualBlockSize(m, p) /\ Words(l[p]) <= room
             /\ Words(l[p]) \in Nat
  <1>1. PICK b \in Used(m, B), n \in Nat, words \in Nat :
             /\ p = b + 1 /\ p = Pointer(b) /\ b = BlockOf(p) /\ b \in Nat
             /\ words = Words(l[p]) /\ n = m[b].next /\ b + words < n
    BY HeldIs
  <1>2. n # NULL
    BY <1>1 DEF NULL
  <1>3. ActualBlockSize(m, p) = (n - b) - 1
    BY <1>1, <1>2 DEF ActualBlockSize, BlockSize, DYN_HEADER_SIZE
  <1>4. PICK room \in Nat : room = (n - b) - 1
    BY <1>1
  <1>5. n = (b + 1) + room /\ words <= room /\ room = ActualBlockSize(m, p)
    BY <1>1, <1>3, <1>4
  <1> QED
    BY <1>1, <1>5

(* srealloc that stays where it is: s_shrink_block, and a request of the size *)
(* that the block has.                                                        *)
LEMMA ResizedIs ==
    ASSUME NEW m, NEW l, NEW B, Holds(m, l, B), NEW b \in Used(m, B),
           NEW bytes \in Sizes \ {0}, NEW m1, NEW B1, Good(m1, B1), Used(m1, B1) = Used(m, B),
           Untouched(m, m1, Used(m, B) \ {b}), b + ActSize(bytes) <= m1[b].next,
           NEW l1, DOMAIN l1 = DOMAIN l,
           \A q \in DOMAIN l1 : l1[q] = IF q = Pointer(b) THEN bytes ELSE l[q]
    PROVE  Holds(m1, l1, B1) /\ Kept(m, l, m1, l1, {Pointer(b)})
  <1>1. Good(m, B) /\ DOMAIN l = {Pointer(c) : c \in Used(m, B)}
    BY DEF Holds, Owned
  <1>2. \A c \in Used(m, B) : Pointer(c) = c + 1 /\ c \in Nat
    BY <1>1, UsedIs
  <1>3. PICK U : U = Used(m, B) \ {b}
    OBVIOUS
  <1>4. \A c \in U : l1[Pointer(c)] = l[Pointer(c)]
    BY <1>1, <1>2, <1>3
  <1>5. \A c \in Used(m1, B1) \ U : /\ l1[Pointer(c)] \in Sizes \ {0}
                                    /\ c + ActSize(l1[Pointer(c)]) <= m1[c].next
    <2>1. l1[Pointer(b)] = bytes
      BY <1>1
    <2>2. \A c \in Used(m1, B1) \ U : c = b
      BY <1>3
    <2> QED
      BY <2>1, <2>2
  <1>6. /\ U \subseteq Used(m, B) /\ U \subseteq Used(m1, B1) /\ Untouched(m, m1, U)
        /\ DOMAIN l1 = {Pointer(c) : c \in Used(m1, B1)}
    BY <1>1, <1>3
  <1>7. Holds(m1, l1, B1)
    BY <1>4, <1>5, <1>6, OwnedIs
  <1>8. Kept(m, l, m1, l1, {Pointer(b)})
    <2>1. \A c \in Used(m, B) \ U : Pointer(c) \in {Pointer(b)}
      BY <1>3
    <2>2. \A q \in DOMAIN l \ {Pointer(b)} : q \in DOMAIN l1 /\ l1[q] = l[q]
      OBVIOUS
    <2> QED
      BY <1>6, <2>1, <2>2, KeptIs
  <1> QED
    BY <1>7, <1>8

LEMMA ShrunkIs ==
    ASSUME NEW m, NEW l, NEW B, Holds(m, l, B), NEW p \in DOMAIN l,
           NEW bytes \in Sizes \ {0}, bytes <= ActualBlockSize(m, p) * DYN_SIZE_MULT,
           NEW stale \in BOOLEAN,
           NEW m1, m1 = m \/ m1 = CutTo(m, BlockOf(p), ActSize(bytes), stale),
           NEW l1, DOMAIN l1 = DOMAIN l,
           \A q \in DOMAIN l1 : l1[q] = IF q = p THEN bytes ELSE l[q]
    PROVE  /\ \E B1 : Holds(m1, l1, B1)
           /\ Kept(m, l, m1, l1, {p})
           /\ Carried(m, m1, p, p, Words(bytes))
  <1>1. PICK b \in Used(m, B), n \in Nat, room \in Nat :
             /\ p = b + 1 /\ p = Pointer(b) /\ b = BlockOf(p) /\ b \in Nat
             /\ n = m[b].next /\ n = (b + 1) + room
             /\ room = ActualBlockSize(m, p)
    BY RoomIs
  <1>2. Good(m, B) /\ List(m, B) /\ b \in Inner(B)
    BY DEF Holds, Good, Used
  <1>3. PICK size \in Nat, words \in Nat : /\ size = ActSize(bytes) /\ words = Words(bytes)
                                           /\ size = words + 1 /\ 2 <= size /\ b + size <= n
    <2>1. bytes \in Nat \ {0}
      BY SallocAssumption
    <2>2. PICK words \in Nat : words = Words(bytes) /\ ActSize(bytes) = words + 1 /\ words > 0
      <3>1. Words(bytes) \in Nat /\ ActSize(bytes) = Words(bytes) + 1 /\ Words(bytes) > 0
        BY <2>1, Rounded
      <3> QED
        BY <3>1
    <2>3. bytes <= room * 8
      BY <1>1 DEF DYN_SIZE_MULT
    <2>4. words <= room
      <3>1. words = ((bytes + 8) - 1) \div 8
        BY <2>2 DEF Words, DYN_SIZE_MULT
      <3> QED
        BY <2>1, <2>3, <3>1
    <2> QED
      BY <1>1, <2>2, <2>4
  <1>4. \E B1 : /\ Good(m1, B1) /\ Used(m1, B1) = Used(m, B)
                /\ Untouched(m, m1, Used(m, B) \ {b})
                /\ b + size <= m1[b].next
                /\ \A w \in Ram : b < w /\ w < b + size => m1[w] = m[w]
    <2>1. CASE m1 = m
      BY <1>1, <1>2, <1>3, <2>1 DEF Untouched
    <2>2. CASE m1 = CutTo(m, BlockOf(p), ActSize(bytes), stale)
      <3>1. m1 = CutTo(m, b, size, stale) /\ b + size <= m[b].next
        BY <1>1, <1>3, <2>2
      <3>2. PICK B1 : /\ Good(m1, B1) /\ Used(m1, B1) = Used(m, B)
                      /\ Untouched(m, m1, Used(m, B) \ {b})
                      /\ b + size <= m1[b].next
                      /\ Alike(m, m1, b)
        BY <1>2, <1>3, <3>1, CutToIs
      <3>3. m1[b].next \in Nat
        BY <3>2, UsedIs
      <3>4. \A w \in Ram : b < w /\ w < b + size => m1[w] = m[w]
        BY <1>1, <1>3, <3>2, <3>3, RamFacts DEF Alike
      <3> QED
        BY <3>2, <3>4
    <2> QED
      BY <2>1, <2>2
  <1>5. PICK B1 : /\ Good(m1, B1) /\ Used(m1, B1) = Used(m, B)
                  /\ Untouched(m, m1, Used(m, B) \ {b})
                  /\ b + size <= m1[b].next
                  /\ \A w \in Ram : b < w /\ w < b + size => m1[w] = m[w]
    BY <1>4
  <1>6. Holds(m1, l1, B1) /\ Kept(m, l, m1, l1, {p})
    <2>1. b + ActSize(bytes) <= m1[b].next
      BY <1>3, <1>5
    <2>2. \A q \in DOMAIN l1 : l1[q] = IF q = Pointer(b) THEN bytes ELSE l[q]
      BY <1>1
    <2>3. Holds(m1, l1, B1) /\ Kept(m, l, m1, l1, {Pointer(b)})
      BY <1>5, <2>1, <2>2, ResizedIs
    <2> QED
      BY <1>1, <2>3
  <1>7. ASSUME NEW i \in 1..Words(bytes) PROVE m1[(p + i) - 1] = m[(p + i) - 1]
    <2>1. i \in Int /\ 1 <= i /\ i <= words
      BY <1>3
    <2>2. PICK w \in Int : w = (p + i) - 1 /\ b < w /\ w < n /\ w < b + size
      <3>1. PICK w \in Int : w = b + i
        BY <1>1, <2>1
      <3>2. w = (p + i) - 1
        BY <1>1, <2>1, <3>1
      <3>3. w < b + size /\ b < w
        BY <1>1, <1>3, <2>1, <3>1
      <3>4. w < n
        BY <1>1, <1>3, <3>1, <3>3
      <3> QED
        BY <3>2, <3>3, <3>4
    <2>3. w \in Ram
      <3>1. \A x \in Int : b < x /\ x < m[b].next => x \in Ram
        BY <1>2, PayloadHolds
      <3> QED
        BY <1>1, <2>2, <3>1
    <2> QED
      BY <1>5, <2>2, <2>3
  <1>8. Carried(m, m1, p, p, Words(bytes))
    BY <1>7 DEF Carried
  <1> QED
    BY <1>5, <1>6, <1>8

(* The piece p is replaced by a piece q of another size.                      *)
Replaced(l, l1, p, q, bytes) ==
  /\ DOMAIN l1 = (DOMAIN l \ {p}) \cup {q}
  /\ \A x \in DOMAIN l1 : l1[x] = IF x = q THEN bytes ELSE l[x]

(* srealloc that moves a piece to the free block b.                           *)
LEMMA MovingIs ==
    ASSUME NEW m, NEW l, NEW B, Holds(m, l, B), NEW p \in DOMAIN l,
           NEW bytes \in Sizes \ {0}, bytes > ActualBlockSize(m, p) * DYN_SIZE_MULT,
           NEW b \in Inner(B), IsFree(m, b), b + ActSize(bytes) <= m[b].next,
           NEW stale \in BOOLEAN, NEW m3,
           m3 = CompactFree(Moved(Taken(m, b, bytes, stale), Pointer(b), p), BlockOf(p)),
           NEW l3, Replaced(l, l3, p, Pointer(b), bytes)
    PROVE  /\ \E B3 : Holds(m3, l3, B3)
           /\ Kept(m, l, m3, l3, {p})
           /\ Pointer(b) \notin DOMAIN l
           /\ Carried(m, m3, p, Pointer(b), Words(l[p]))
  <1>1. PICK c \in Used(m, B), n \in Nat, room \in Nat :
             /\ p = c + 1 /\ p = Pointer(c) /\ c = BlockOf(p) /\ c \in Nat
             /\ n = m[c].next /\ n = (c + 1) + room
             /\ room = ActualBlockSize(m, p) /\ Words(l[p]) <= room
             /\ Words(l[p]) \in Nat
    BY RoomIs
  <1>2. PICK m1 : m1 = Taken(m, b, bytes, stale)
    OBVIOUS
  <1>3. PICK l1 : l1 = [q \in DOMAIN l \cup {Pointer(b)} |->
                          IF q = Pointer(b) THEN bytes ELSE l[q]]
    OBVIOUS
  <1>4. /\ DOMAIN l1 = DOMAIN l \cup {Pointer(b)}
        /\ \A q \in DOMAIN l1 : l1[q] = IF q = Pointer(b) THEN bytes ELSE l[q]
    BY <1>3
  <1>5. /\ Pointer(b) \notin DOMAIN l
        /\ \E B1 : /\ Holds(m1, l1, B1) /\ Kept(m, l, m1, l1, {})
                   /\ Used(m1, B1) = Used(m, B) \cup {b} /\ b \notin Used(m, B)
                   /\ Untouched(m, m1, Used(m, B)) /\ b + ActSize(bytes) <= m1[b].next
    BY <1>2, <1>4, ObtainedIs
  <1>6. PICK B1 : /\ Holds(m1, l1, B1) /\ Kept(m, l, m1, l1, {})
                  /\ Used(m1, B1) = Used(m, B) \cup {b} /\ b \notin Used(m, B)
                  /\ Untouched(m, m1, Used(m, B)) /\ b + ActSize(bytes) <= m1[b].next
    BY <1>5
  <1>7. /\ b \in Used(m1, B1) /\ c \in Used(m1, B1) /\ b # c
        /\ Good(m1, B1) /\ Owned(m1, l1, B1)
    BY <1>1, <1>6 DEF Holds
  <1>8. b \in Nat /\ Pointer(b) = b + 1 /\ m1[b].next \in Nat
    BY <1>7, UsedIs
  <1>9. PICK words \in Nat : /\ words = Words(bytes) /\ ActSize(bytes) = words + 1
                             /\ room < words
    <2>1. bytes \in Nat
      BY SallocAssumption
    <2>2. PICK words \in Nat : words = Words(bytes) /\ ActSize(bytes) = words + 1
      BY <2>1, Rounded
    <2>3. words = ((bytes + 8) - 1) \div 8
      BY <2>2 DEF Words, DYN_SIZE_MULT
    <2>4. bytes > room * 8
      BY <1>1 DEF DYN_SIZE_MULT
    <2> QED
      BY <2>1, <2>2, <2>3, <2>4
  <1>10. m1[c].next = n /\ m1[c].next - c <= m1[b].next - b
    <2>1. m1[c].next = n
      BY <1>1, <1>6 DEF Untouched
    <2>2. PICK k \in Nat : k = m1[b].next /\ b + (words + 1) <= k
      BY <1>6, <1>8, <1>9
    <2>3. n - c <= k - b
      BY <1>1, <1>8, <1>9, <2>2
    <2> QED
      BY <2>1, <2>2, <2>3
  <1>11. PICK m2 : m2 = Moved(m1, Pointer(b), Pointer(c))
    OBVIOUS
  <1>12. m3 = CompactFree(m2, BlockOf(p))
    BY <1>1, <1>2, <1>11
  <1>13. /\ Good(m2, B1) /\ Used(m2, B1) = Used(m1, B1)
         /\ Untouched(m1, m2, Used(m1, B1) \ {b})
         /\ \A d \in Used(m1, B1) : m2[d].next = m1[d].next
         /\ Copied(m1, m2, b, c)
    BY <1>7, <1>10, <1>11, MovedIs
  <1>14. Holds(m2, l1, B1)
    BY <1>7, <1>13 DEF Holds, Owned
  <1>15. Kept(m1, l1, m2, l1, {Pointer(b)})
    <2>1. PICK U : U = Used(m1, B1) \ {b}
      OBVIOUS
    <2>2. U \subseteq Used(m1, B1) /\ Untouched(m1, m2, U)
          /\ \A d \in Used(m1, B1) \ U : Pointer(d) \in {Pointer(b)}
      BY <1>13, <2>1
    <2> QED
      BY <1>6, <2>2, KeptIs
  <1>16. p # Pointer(b)
    BY <1>5
  <1>17. /\ DOMAIN l3 = DOMAIN l1 \ {p} /\ p \in DOMAIN l1
         /\ \A q \in DOMAIN l3 : l3[q] = l1[q]
    <2>1. DOMAIN l3 = (DOMAIN l \ {p}) \cup {Pointer(b)}
          /\ \A q \in DOMAIN l3 : l3[q] = IF q = Pointer(b) THEN bytes ELSE l[q]
      BY DEF Replaced
    <2> QED
      BY <1>4, <1>5, <1>16, <2>1
  <1>18. PICK B3 : Holds(m3, l3, B3) /\ Kept(m2, l1, m3, l3, {p})
    BY <1>12, <1>14, <1>17, ReleasedIs
  <1>19. ASSUME NEW q \in DOMAIN l \ {p}
         PROVE  /\ q \in DOMAIN l3 /\ l3[q] = l[q]
                /\ \A i \in 1..Words(l[q]) : m3[(q + i) - 1] = m[(q + i) - 1]
    <2>1. q \in DOMAIN l1 /\ q # Pointer(b) /\ l1[q] = l[q] /\ q \in DOMAIN l3
      BY <1>4, <1>5, <1>17
    <2>2. l3[q] = l[q]
      BY <1>17, <2>1
    <2>3. \A i \in 1..Words(l[q]) : m1[(q + i) - 1] = m[(q + i) - 1]
      BY <1>6 DEF Kept
    <2>4. \A i \in 1..Words(l[q]) : m2[(q + i) - 1] = m1[(q + i) - 1]
      BY <1>15, <2>1 DEF Kept
    <2>5. \A i \in 1..Words(l[q]) : m3[(q + i) - 1] = m2[(q + i) - 1]
      BY <1>18, <2>1 DEF Kept
    <2> QED
      BY <2>1, <2>2, <2>3, <2>4, <2>5
  <1>20. Kept(m, l, m3, l3, {p})
    BY <1>19 DEF Kept
  <1>21. ASSUME NEW i \in 1..Words(l[p])
         PROVE  m3[(Pointer(b) + i) - 1] = m[(p + i) - 1]
    <2>1. i \in Nat \ {0} /\ i <= room /\ i \in 1..words
      BY <1>1, <1>9
    <2>2. (Pointer(b) + i) - 1 = b + i /\ (p + i) - 1 = c + i
      BY <1>1, <1>8, <2>1
    <2>3. m1[c + i] = m[c + i]
      <3>1. m1[(p + i) - 1] = m[(p + i) - 1]
        BY <1>6 DEF Kept
      <3> QED
        BY <2>2, <3>1
    <2>4. m2[b + i] = m1[c + i]
      <3>1. c + i < m1[c].next
        <4>1. c + i < n
          BY <1>1, <2>1
        <4> QED
          BY <1>10, <4>1
      <3> QED
        BY <1>13, <2>1, <3>1 DEF Copied
    <2>5. m3[b + i] = m2[b + i]
      <3>1. Pointer(b) \in DOMAIN l1 \ {p} /\ l1[Pointer(b)] = bytes
        BY <1>4, <1>16
      <3>2. i \in 1..Words(l1[Pointer(b)])
        BY <1>9, <2>1, <3>1
      <3>3. m3[(Pointer(b) + i) - 1] = m2[(Pointer(b) + i) - 1]
        BY <1>18, <3>1, <3>2 DEF Kept
      <3> QED
        BY <2>2, <3>3
    <2> QED
      BY <2>2, <2>3, <2>4, <2>5
  <1>22. Carried(m, m3, p, Pointer(b), Words(l[p]))
    BY <1>21 DEF Carried
  <1> QED
    BY <1>5, <1>18, <1>20, <1>22

-----------------------------------------------------------------------------
(* Every action keeps the invariant, and does to the pieces of the callers    *)
(* what it promises.                                                          *)

Obtains(m, l, m1, l1) ==
  \E p : /\ p \notin DOMAIN l /\ DOMAIN l1 = DOMAIN l \cup {p}
         /\ Kept(m, l, m1, l1, {})

Releases(m, l, m1, l1, p) ==
  DOMAIN l1 = DOMAIN l \ {p} /\ Kept(m, l, m1, l1, {p})

(* The piece p is now the piece q, the words of both are the same.            *)
Same(m, l, m1, l1, p, q) ==
  \A i \in 1..Words(l[p]) : i \in 1..Words(l1[q]) => m1[(q + i) - 1] = m[(p + i) - 1]

Resizes(m, l, m1, l1, p) ==
  \E q : /\ q \notin DOMAIN l \ {p} /\ DOMAIN l1 = (DOMAIN l \ {p}) \cup {q}
         /\ Kept(m, l, m1, l1, {p})
         /\ Same(m, l, m1, l1, p, q)

Fills(m, l, m1, p, v) == \A i \in 1..Words(l[p]) : m1[(p + i) - 1] = v

Stores(m, l, m1, l1, p, v) ==
  l1 = l /\ Kept(m, l, m1, l1, {p}) /\ Fills(m, l, m1, p, v)

Does(m, l, m1, l1) ==
  \/ l1 = l /\ Kept(m, l, m1, l1, {})
  \/ Obtains(m, l, m1, l1)
  \/ \E p \in DOMAIN l : \/ Releases(m, l, m1, l1, p)
                         \/ Resizes(m, l, m1, l1, p)
                         \/ \E v \in Values : Stores(m, l, m1, l1, p, v)

LEMMA Ready ==
    ASSUME IInv
    PROVE  \E m, B, l : /\ m = Initialized /\ l = live
                        /\ Holds(m, l, B) /\ Kept(mem, live, m, l, {})
                        /\ s_initialized => m = mem
  <1>1. CASE s_initialized
    <2>1. Initialized = mem
      BY <1>1 DEF Initialized
    <2>2. Holds(mem, live, Whole(mem)) /\ Kept(mem, live, mem, live, {})
      BY <1>1 DEF IInv, Holds, Kept
    <2> QED
      BY <2>1, <2>2
  <1>2. CASE ~s_initialized
    <2>1. mem = [w \in Ram |-> Junk] /\ live = << >>
      BY <1>2 DEF IInv
    <2>2. PICK m, B : m = Initialized /\ Good(m, B) /\ Used(m, B) = {}
      BY <1>2, <2>1, InitializedIs
    <2>3. PICK l : l = live
      OBVIOUS
    <2>4. DOMAIN l = {}
      BY <2>1, <2>3
    <2>5. Owned(m, l, B)
      BY <2>2, <2>4 DEF Owned
    <2>6. Kept(mem, live, m, l, {})
      BY <2>3, <2>4 DEF Kept
    <2> QED
      BY <1>2, <2>2, <2>3, <2>5, <2>6 DEF Holds
  <1> QED
    BY <1>1, <1>2 DEF IInv

LEMMA Knows ==
    ASSUME s_initialized' = TRUE, NEW m1, m1 = mem', NEW l1, l1 = live',
           NEW B1, Holds(m1, l1, B1)
    PROVE  IInv'
  <1>1. Whole(m1) = B1
    BY WholeIs DEF Holds, Good
  <1>2. Good(m1, Whole(m1)) /\ Owned(m1, l1, Whole(m1))
    BY <1>1 DEF Holds
  <1> QED
    BY <1>2 DEF IInv

LEMMA WithIs ==
    ASSUME NEW p, NEW bytes
    PROVE  \E l1 : /\ l1 = With(p, bytes) /\ DOMAIN l1 = DOMAIN live \cup {p}
                   /\ \A q \in DOMAIN l1 : l1[q] = IF q = p THEN bytes ELSE live[q]
  <1>1. PICK l1 : l1 = With(p, bytes)
    OBVIOUS
  <1>2. l1 = [q \in DOMAIN live \cup {p} |-> IF q = p THEN bytes ELSE live[q]]
    BY <1>1 DEF With
  <1>3. DOMAIN l1 = DOMAIN live \cup {p}
    BY <1>2
  <1>4. \A q \in DOMAIN l1 : l1[q] = IF q = p THEN bytes ELSE live[q]
    BY <1>2
  <1> QED
    BY <1>1, <1>3, <1>4

LEMMA KeptTrans ==
    ASSUME NEW m, NEW l, NEW m1, NEW l1, NEW m2, NEW l2, NEW ps,
           Kept(m, l, m1, l1, {}), Kept(m1, l1, m2, l2, ps), ps \cap DOMAIN l = {}
    PROVE  Kept(m, l, m2, l2, {})
  <1> SUFFICES ASSUME NEW q \in DOMAIN l
               PROVE  /\ q \in DOMAIN l2 /\ l2[q] = l[q]
                      /\ \A i \in 1..Words(l[q]) : m2[(q + i) - 1] = m[(q + i) - 1]
    BY DEF Kept
  <1>1. /\ q \in DOMAIN l1 /\ l1[q] = l[q]
        /\ \A i \in 1..Words(l[q]) : m1[(q + i) - 1] = m[(q + i) - 1]
    BY DEF Kept
  <1>2. /\ q \in DOMAIN l2 /\ l2[q] = l1[q]
        /\ \A i \in 1..Words(l1[q]) : m2[(q + i) - 1] = m1[(q + i) - 1]
    BY <1>1 DEF Kept
  <1> QED
    BY <1>1, <1>2

(* smalloc and scalloc that find the block b; scalloc fills it.               *)
LEMMA ServedIs ==
    ASSUME IInv, NEW bytes \in Sizes, NEW stale \in BOOLEAN,
           NEW b, b = Found(Initialized, bytes), b # NULL,
           s_initialized' = TRUE, live' = With(Pointer(b), bytes),
           \/ mem' = Taken(Initialized, b, bytes, stale)
           \/ mem' = Filled(Taken(Initialized, b, bytes, stale), Pointer(b), bytes, Zero)
    PROVE  IInv' /\ Obtains(mem, live, mem', live')
  <1>1. PICK m, B, l : /\ m = Initialized /\ l = live
                       /\ Holds(m, l, B) /\ Kept(mem, live, m, l, {})
    BY Ready
  <1>2. b = Found(m, bytes) /\ List(m, B) /\ bytes \in Nat
    BY <1>1, SallocAssumption DEF Holds, Good
  <1>3. /\ bytes \in Sizes \ {0} /\ b \in Inner(B) /\ IsFree(m, b)
        /\ b + ActSize(bytes) <= m[b].next
    BY <1>2, FoundIs
  <1>4. PICK l1 : /\ l1 = With(Pointer(b), bytes) /\ DOMAIN l1 = DOMAIN live \cup {Pointer(b)}
                  /\ \A q \in DOMAIN l1 : l1[q] = IF q = Pointer(b) THEN bytes ELSE live[q]
    BY WithIs
  <1>5. PICK m1 : m1 = Taken(m, b, bytes, stale)
    OBVIOUS
  <1>6. /\ Pointer(b) \notin DOMAIN l
        /\ \E B1 : Holds(m1, l1, B1) /\ Kept(m, l, m1, l1, {})
    <2>1. /\ DOMAIN l1 = DOMAIN l \cup {Pointer(b)}
          /\ \A q \in DOMAIN l1 : l1[q] = IF q = Pointer(b) THEN bytes ELSE l[q]
      BY <1>1, <1>4
    <2>2. /\ Pointer(b) \notin DOMAIN l
          /\ \E B1 : /\ Holds(m1, l1, B1) /\ Kept(m, l, m1, l1, {})
                     /\ Used(m1, B1) = Used(m, B) \cup {b} /\ b \notin Used(m, B)
                     /\ Untouched(m, m1, Used(m, B)) /\ b + ActSize(bytes) <= m1[b].next
      BY <1>1, <1>3, <1>5, <2>1, ObtainedIs
    <2> QED
      BY <2>2
  <1>7. PICK B1 : Holds(m1, l1, B1) /\ Kept(m, l, m1, l1, {})
    BY <1>6
  <1>8. Kept(mem, live, m1, l1, {})
    <2>1. Kept(mem, live, m, l, {}) /\ Kept(m, l, m1, l1, {})
      BY <1>1, <1>7
    <2> QED
      BY <2>1, KeptTrans
  <1>9. PICK m2 : m2 = mem'
    OBVIOUS
  <1>10. (\E B2 : Holds(m2, l1, B2)) /\ Kept(mem, live, m2, l1, {})
    <2>1. CASE mem' = Taken(Initialized, b, bytes, stale)
      <3>1. m2 = m1
        BY <1>1, <1>5, <1>9, <2>1
      <3> QED
        BY <1>7, <1>8, <3>1
    <2>2. CASE mem' = Filled(Taken(Initialized, b, bytes, stale), Pointer(b), bytes, Zero)
      <3>1. PICK p \in DOMAIN l1 : p = Pointer(b) /\ l1[p] = bytes
        BY <1>4
      <3>2. m2 = Filled(m1, p, l1[p], Zero) /\ Zero \in Word
        BY <1>1, <1>5, <1>9, <2>2, <3>1 DEF Word
      <3>3. (\E B2 : Holds(m2, l1, B2)) /\ Kept(m1, l1, m2, l1, {p})
        BY <1>7, <3>2, FillIs
      <3>4. {p} \cap DOMAIN live = {}
        BY <1>1, <1>6, <3>1
      <3>5. Kept(mem, live, m2, l1, {})
        BY <1>8, <3>3, <3>4, KeptTrans
      <3> QED
        BY <3>3, <3>5
    <2> QED
      BY <2>1, <2>2
  <1>11. l1 = live'
    BY <1>4
  <1>12. IInv'
    <2>1. PICK B2 : Holds(m2, l1, B2)
      BY <1>10
    <2> QED
      BY <1>9, <1>11, <2>1, Knows
  <1>13. Obtains(mem, live, m2, l1)
    BY <1>1, <1>4, <1>6, <1>10 DEF Obtains
  <1> QED
    BY <1>9, <1>11, <1>12, <1>13

(* smalloc and scalloc that find no memory.                                   *)
LEMMA RefusedIs ==
    ASSUME IInv, s_initialized' = TRUE, mem' = Initialized, live' = live
    PROVE  IInv' /\ Kept(mem, live, mem', live', {})
  <1>1. PICK m, B, l : /\ m = Initialized /\ l = live
                       /\ Holds(m, l, B) /\ Kept(mem, live, m, l, {})
    BY Ready
  <1>2. m = mem' /\ l = live'
    BY <1>1
  <1>3. IInv'
    BY <1>1, <1>2, Knows
  <1> QED
    BY <1>1, <1>2, <1>3

LEMMA SmallocIs ==
    ASSUME IInv, NEW bytes \in Sizes, NEW stale \in BOOLEAN, Smalloc(bytes, stale)
    PROVE  IInv' /\ Does(mem, live, mem', live')
  <1>1. PICK b : b = Found(Initialized, bytes)
    OBVIOUS
  <1>2. s_initialized' = TRUE
    BY DEF Smalloc
  <1>3. CASE b = NULL
    <2>1. mem' = Initialized /\ live' = live
      BY <1>1, <1>3 DEF Smalloc
    <2> QED
      BY <1>2, <2>1, RefusedIs DEF Does
  <1>4. CASE b # NULL
    <2>1. mem' = Taken(Initialized, b, bytes, stale) /\ live' = With(Pointer(b), bytes)
      BY <1>1, <1>4 DEF Smalloc
    <2>2. IInv' /\ Obtains(mem, live, mem', live')
      BY <1>1, <1>2, <1>4, <2>1, ServedIs
    <2> QED
      BY <2>2 DEF Does
  <1> QED
    BY <1>3, <1>4

LEMMA ScallocIs ==
    ASSUME IInv, NEW bytes \in Sizes, NEW stale \in BOOLEAN, Scalloc(bytes, stale)
    PROVE  IInv' /\ Does(mem, live, mem', live')
  <1>1. PICK b : b = Found(Initialized, bytes)
    OBVIOUS
  <1>2. s_initialized' = TRUE
    BY DEF Scalloc
  <1>3. CASE b = NULL
    <2>1. mem' = Initialized /\ live' = live
      BY <1>1, <1>3 DEF Scalloc
    <2> QED
      BY <1>2, <2>1, RefusedIs DEF Does
  <1>4. CASE b # NULL
    <2>1. /\ mem' = Filled(Taken(Initialized, b, bytes, stale), Pointer(b), bytes, Zero)
          /\ live' = With(Pointer(b), bytes)
      BY <1>1, <1>4 DEF Scalloc
    <2>2. IInv' /\ Obtains(mem, live, mem', live')
      BY <1>1, <1>2, <1>4, <2>1, ServedIs
    <2> QED
      BY <2>2 DEF Does
  <1> QED
    BY <1>3, <1>4

(* The other operations are called when there is a piece: after s_init.       *)
LEMMA Begun ==
    ASSUME IInv, s_initialized
    PROVE  \E m, B, l : m = mem /\ l = live /\ Holds(m, l, B) /\ m = Initialized
  <1>1. Initialized = mem
    BY DEF Initialized
  <1>2. Holds(mem, live, Whole(mem))
    BY DEF IInv, Holds
  <1> QED
    BY <1>1, <1>2

LEMMA SfreeIs ==
    ASSUME IInv, NEW p \in DOMAIN live, Sfree(p)
    PROVE  IInv' /\ Releases(mem, live, mem', live', p)
  <1>1. /\ s_initialized /\ s_initialized' = s_initialized
        /\ mem' = CompactFree(mem, BlockOf(p)) /\ live' = Without(p)
    BY DEF Sfree
  <1>2. s_initialized' = TRUE
    BY <1>1 DEF IInv
  <1>3. PICK m, B, l : m = mem /\ l = live /\ Holds(m, l, B)
    BY <1>1, Begun
  <1>4. PICK m1, l1 : m1 = mem' /\ l1 = live'
    OBVIOUS
  <1>5. l1 = [q \in DOMAIN l \ {p} |-> l[q]]
    BY <1>1, <1>3, <1>4 DEF Without, Restrict
  <1>6. DOMAIN l1 = DOMAIN l \ {p} /\ \A q \in DOMAIN l1 : l1[q] = l[q]
    BY <1>5
  <1>7. m1 = CompactFree(m, BlockOf(p)) /\ p \in DOMAIN l
    BY <1>1, <1>3, <1>4
  <1>8. PICK B1 : Holds(m1, l1, B1) /\ Kept(m, l, m1, l1, {p})
    BY <1>3, <1>6, <1>7, ReleasedIs
  <1>9. IInv'
    BY <1>2, <1>4, <1>8, Knows
  <1>10. Releases(m, l, m1, l1, p)
    BY <1>6, <1>8 DEF Releases
  <1> QED
    BY <1>3, <1>4, <1>9, <1>10

LEMMA StoreIs ==
    ASSUME IInv, NEW p \in DOMAIN live, NEW v \in Values, Store(p, v)
    PROVE  IInv' /\ Stores(mem, live, mem', live', p, v)
  <1>1. /\ s_initialized' = s_initialized
        /\ mem' = Filled(mem, p, live[p], v) /\ live' = live
    BY DEF Store
  <1>2. s_initialized
    <2>1. CASE ~s_initialized
      <3>1. live = << >>
        BY <2>1 DEF IInv
      <3> QED
        BY <3>1
    <2> QED
      BY <2>1
  <1>3. s_initialized' = TRUE
    BY <1>1, <1>2 DEF IInv
  <1>4. PICK m, B, l : m = mem /\ l = live /\ Holds(m, l, B)
    BY <1>2, Begun
  <1>5. PICK m1 : m1 = mem'
    OBVIOUS
  <1>6. m1 = Filled(m, p, l[p], v) /\ p \in DOMAIN l /\ v \in Word
    BY <1>1, <1>4, <1>5 DEF Word
  <1>7. /\ \E B1 : Holds(m1, l, B1)
        /\ Kept(m, l, m1, l, {p}) /\ Fills(m, l, m1, p, v)
    BY <1>4, <1>6, FillIs DEF Fills
  <1>8. PICK B1 : Holds(m1, l, B1)
    BY <1>7
  <1>9. l = live'
    BY <1>1, <1>4
  <1>10. IInv'
    BY <1>3, <1>5, <1>8, <1>9, Knows
  <1>11. Stores(m, l, m1, l, p, v)
    BY <1>7 DEF Stores
  <1> QED
    BY <1>4, <1>5, <1>9, <1>10, <1>11

LEMMA SreallocIs ==
    ASSUME IInv, NEW p \in DOMAIN live, NEW bytes \in Sizes, NEW stale \in BOOLEAN,
           Srealloc(p, bytes, stale)
    PROVE  IInv' /\ Does(mem, live, mem', live')
  <1> DEFINE have == ActualBlockSize(mem, p) * DYN_SIZE_MULT
  <1>1. s_initialized /\ bytes > 0 /\ s_initialized' = s_initialized
    BY DEF Srealloc
  <1>2. s_initialized' = TRUE /\ bytes \in Sizes \ {0} /\ bytes \in Nat
    BY <1>1, SallocAssumption DEF IInv
  <1>3. PICK m, B, l : m = mem /\ l = live /\ Holds(m, l, B)
    BY <1>1, Begun
  <1>4. PICK m1, l1 : m1 = mem' /\ l1 = live'
    OBVIOUS
  <1>5. p \in DOMAIN l
    BY <1>3
  <1>6. PICK room \in Nat : room = ActualBlockSize(m, p)
    BY <1>3, <1>5, RoomIs
  <1>7. PICK size \in Nat : size = room * DYN_SIZE_MULT /\ size = have
    BY <1>3, <1>6 DEF DYN_SIZE_MULT
  <1>8. PICK b : b = Found(mem, bytes)
    OBVIOUS
  <1> HIDE DEF have
  <1>9. \/ bytes = have /\ live' = With(p, bytes) /\ mem' = mem
        \/ /\ bytes < have
           /\ mem' = CutTo(mem, BlockOf(p), ActSize(bytes), stale)
           /\ live' = With(p, bytes)
        \/ /\ bytes > have /\ b # NULL
           /\ mem' = Moving(p, b, bytes, stale)
           /\ live' = [q \in (DOMAIN live \ {p}) \cup {Pointer(b)} |->
                         IF q = Pointer(b) THEN bytes ELSE live[q]]
        \/ mem' = mem /\ live' = live
    BY <1>8 DEF Srealloc, have
  <1>10. CASE \/ bytes = have /\ live' = With(p, bytes) /\ mem' = mem
              \/ /\ bytes < have
                 /\ mem' = CutTo(mem, BlockOf(p), ActSize(bytes), stale)
                 /\ live' = With(p, bytes)
    <2>1. DOMAIN l1 = DOMAIN l /\ \A q \in DOMAIN l1 : l1[q] = IF q = p THEN bytes ELSE l[q]
      <3>1. PICK l2 : /\ l2 = With(p, bytes) /\ DOMAIN l2 = DOMAIN live \cup {p}
                      /\ \A q \in DOMAIN l2 : l2[q] = IF q = p THEN bytes ELSE live[q]
        BY WithIs
      <3>2. l1 = l2
        BY <1>4, <1>10, <3>1
      <3> QED
        BY <1>3, <3>1, <3>2
    <2>2. bytes <= ActualBlockSize(m, p) * DYN_SIZE_MULT
      BY <1>2, <1>6, <1>7, <1>10
    <2>3. m1 = m \/ m1 = CutTo(m, BlockOf(p), ActSize(bytes), stale)
      BY <1>3, <1>4, <1>10
    <2>4. /\ \E B1 : Holds(m1, l1, B1)
          /\ Kept(m, l, m1, l1, {p})
          /\ Carried(m, m1, p, p, Words(bytes))
      BY <1>2, <1>3, <1>5, <2>1, <2>2, <2>3, ShrunkIs
    <2>5. PICK B1 : Holds(m1, l1, B1)
      BY <2>4
    <2>6. IInv'
      BY <1>2, <1>4, <2>5, Knows
    <2>7. Same(m, l, m1, l1, p, p)
      <3>1. l1[p] = bytes
        BY <1>5, <2>1
      <3> QED
        BY <2>4, <3>1 DEF Same, Carried
    <2>8. DOMAIN l1 = (DOMAIN l \ {p}) \cup {p} /\ p \notin DOMAIN l \ {p}
      BY <1>5, <2>1
    <2>9. Resizes(m, l, m1, l1, p)
      BY <2>4, <2>7, <2>8 DEF Resizes
    <2> QED
      BY <1>3, <1>4, <2>6, <2>9 DEF Does
  <1>11. CASE /\ bytes > have /\ b # NULL
              /\ mem' = Moving(p, b, bytes, stale)
              /\ live' = [q \in (DOMAIN live \ {p}) \cup {Pointer(b)} |->
                            IF q = Pointer(b) THEN bytes ELSE live[q]]
    <2>1. b = Found(m, bytes) /\ List(m, B)
      BY <1>3, <1>8 DEF Holds, Good
    <2>2. b \in Inner(B) /\ IsFree(m, b) /\ b + ActSize(bytes) <= m[b].next
      BY <1>2, <1>11, <2>1, FoundIs
    <2>3. /\ DOMAIN l1 = (DOMAIN l \ {p}) \cup {Pointer(b)}
          /\ \A q \in DOMAIN l1 : l1[q] = IF q = Pointer(b) THEN bytes ELSE l[q]
      <3>1. l1 = [q \in (DOMAIN l \ {p}) \cup {Pointer(b)} |->
                    IF q = Pointer(b) THEN bytes ELSE l[q]]
        BY <1>3, <1>4, <1>11
      <3> QED
        BY <3>1
    <2>4. m1 = CompactFree(Moved(Taken(m, b, bytes, stale), Pointer(b), p), BlockOf(p))
      BY <1>3, <1>4, <1>11 DEF Moving
    <2>5. bytes > ActualBlockSize(m, p) * DYN_SIZE_MULT
      BY <1>2, <1>6, <1>7, <1>11
    <2>6. /\ \E B1 : Holds(m1, l1, B1)
          /\ Kept(m, l, m1, l1, {p})
          /\ Pointer(b) \notin DOMAIN l
          /\ Carried(m, m1, p, Pointer(b), Words(l[p]))
      <3>1. Replaced(l, l1, p, Pointer(b), bytes)
        BY <2>3 DEF Replaced
      <3> QED
        BY <1>2, <1>3, <1>5, <2>2, <2>4, <2>5, <3>1, MovingIs
    <2>7. PICK B1 : Holds(m1, l1, B1)
      BY <2>6
    <2>8. IInv'
      BY <1>2, <1>4, <2>7, Knows
    <2>9. Same(m, l, m1, l1, p, Pointer(b))
      BY <2>6 DEF Same, Carried
    <2>10. Resizes(m, l, m1, l1, p)
      BY <2>3, <2>6, <2>9 DEF Resizes
    <2> QED
      BY <1>3, <1>4, <1>5, <2>8, <2>10 DEF Does
  <1>12. CASE mem' = mem /\ live' = live
    <2>1. IInv'
      BY <1>2, <1>3, <1>12, Knows
    <2>2. Kept(mem, live, mem', live', {})
      BY <1>12 DEF Kept
    <2> QED
      BY <1>12, <2>1, <2>2 DEF Does
  <1> QED
    BY <1>9, <1>10, <1>11, <1>12

LEMMA InitKnows ==
    ASSUME Init
    PROVE  IInv
  BY DEF Init, IInv

LEMMA NextKeeps ==
    ASSUME IInv, Next
    PROVE  IInv' /\ Does(mem, live, mem', live')
  <1>1. ASSUME NEW bytes \in Sizes, NEW stale \in BOOLEAN,
               Smalloc(bytes, stale) \/ Scalloc(bytes, stale)
        PROVE  IInv' /\ Does(mem, live, mem', live')
    BY <1>1, SmallocIs, ScallocIs
  <1>2. ASSUME NEW p \in DOMAIN live, Sfree(p)
        PROVE  IInv' /\ Does(mem, live, mem', live')
    <2>1. IInv' /\ Releases(mem, live, mem', live', p)
      BY <1>2, SfreeIs
    <2> QED
      BY <2>1 DEF Does
  <1>3. ASSUME NEW p \in DOMAIN live, NEW bytes \in Sizes, NEW stale \in BOOLEAN,
               Srealloc(p, bytes, stale)
        PROVE  IInv' /\ Does(mem, live, mem', live')
    BY <1>3, SreallocIs
  <1>4. ASSUME NEW p \in DOMAIN live, NEW v \in Values, Store(p, v)
        PROVE  IInv' /\ Does(mem, live, mem', live')
    <2>1. IInv' /\ Stores(mem, live, mem', live', p, v)
      BY <1>4, StoreIs
    <2> QED
      BY <2>1 DEF Does
  <1> QED
    BY <1>1, <1>2, <1>3, <1>4 DEF Next

LEMMA StutterKeeps ==
    ASSUME IInv, UNCHANGED vars
    PROVE  IInv'
  BY DEF IInv, vars

-----------------------------------------------------------------------------
(* The invariants that the runs check.                                        *)

(* The pieces that callers hold lie in RAM, are apart, and hold words.        *)
LEMMA PiecesAre ==
    ASSUME NEW m, NEW l, NEW B, Holds(m, l, B)
    PROVE  /\ \A p \in DOMAIN l :
                /\ Words(l[p]) \in Nat /\ p \in Nat /\ p \in Ram
                /\ l[p] \in Sizes \ {0}
                /\ \A i \in 1..Words(l[p]) :
                     (p + i) - 1 \in Ram /\ m[(p + i) - 1] \in Word
           /\ \A p, q \in DOMAIN l : p # q =>
                p + Words(l[p]) < q \/ q + Words(l[q]) < p
  <1>1. Good(m, B) /\ List(m, B)
    BY DEF Holds, Good
  <1>2. ASSUME NEW p \in DOMAIN l
        PROVE  /\ Words(l[p]) \in Nat /\ p \in Nat /\ p \in Ram
               /\ l[p] \in Sizes \ {0}
               /\ \A i \in 1..Words(l[p]) :
                    (p + i) - 1 \in Ram /\ m[(p + i) - 1] \in Word
    <2>1. PICK b \in Used(m, B), n \in Nat, words \in Nat :
             /\ p = b + 1 /\ b \in Nat
             /\ l[p] \in Sizes \ {0}
             /\ words = Words(l[p]) /\ 1 <= words
             /\ n = m[b].next /\ b + words < n
      BY HeldIs
    <2>2. \A w \in Int : b < w /\ w < n => w \in Ram /\ m[w] \in Word
      <3>1. \A w \in Int : b < w /\ w < m[b].next => w \in Ram /\ m[w] \in Word
        BY <1>1, PayloadHolds DEF Used
      <3> QED
        BY <2>1, <3>1
    <2>3. p \in Ram
      BY <2>1, <2>2
    <2>4. ASSUME NEW i \in 1..Words(l[p])
          PROVE  (p + i) - 1 \in Ram /\ m[(p + i) - 1] \in Word
      <3>1. i \in Int /\ 1 <= i /\ i <= words
        BY <2>1
      <3>2. PICK w \in Int : w = (p + i) - 1
        BY <2>1, <3>1
      <3>3. b < w /\ w < n
        BY <2>1, <3>1, <3>2
      <3> QED
        BY <2>2, <3>2, <3>3
    <2> QED
      BY <2>1, <2>3, <2>4
  <1>3. ASSUME NEW p \in DOMAIN l, NEW q \in DOMAIN l, p # q
        PROVE  p + Words(l[p]) < q \/ q + Words(l[q]) < p
    <2>1. PICK b \in Used(m, B), n \in Nat, words \in Nat :
             /\ p = b + 1 /\ b \in Nat
             /\ words = Words(l[p])
             /\ n = m[b].next /\ b + words < n
      BY HeldIs
    <2>2. PICK c \in Used(m, B), k \in Nat, more \in Nat :
             /\ q = c + 1 /\ c \in Nat
             /\ more = Words(l[q])
             /\ k = m[c].next /\ c + more < k
      BY HeldIs
    <2>3. n <= c \/ k <= b
      <3>1. b \in Inner(B) /\ c \in Inner(B) /\ b \in B /\ c \in B
        BY DEF Used, Inner
      <3>2. c <= b \/ n <= c
        BY <1>1, <2>1, <3>1, PayloadHolds
      <3>3. b <= c \/ k <= b
        BY <1>1, <2>2, <3>1, PayloadHolds
      <3> QED
        BY <1>3, <2>1, <2>2, <3>2, <3>3
    <2> QED
      BY <2>1, <2>2, <2>3
  <1> QED
    BY <1>2, <1>3

LEMMA TypeKnown ==
    ASSUME IInv
    PROVE  TypeOK
  <1>1. CASE s_initialized
    <2>1. PICK m, B, l : m = mem /\ l = live /\ Holds(m, l, B)
      BY <1>1, Begun
    <2>2. m \in [Ram -> Header \cup Word]
      BY <2>1 DEF Holds, Good, List
    <2>3. \A p \in DOMAIN l : p \in Ram /\ l[p] \in Sizes \ {0}
      BY <2>1, PiecesAre
    <2> QED
      BY <1>1, <2>1, <2>2, <2>3 DEF TypeOK
  <1>2. CASE ~s_initialized
    <2>1. mem = [w \in Ram |-> Junk] /\ live = << >>
      BY <1>2 DEF IInv
    <2>2. PICK l : l = live
      OBVIOUS
    <2>3. DOMAIN l = {}
      BY <2>1, <2>2
    <2>4. mem \in [Ram -> Header \cup Word]
      BY <2>1 DEF Word
    <2>5. DOMAIN live \subseteq Ram /\ \A p \in DOMAIN live : live[p] \in Sizes
      BY <2>2, <2>3
    <2>6. s_initialized \in BOOLEAN
      BY DEF IInv
    <2> QED
      BY <2>4, <2>5, <2>6 DEF TypeOK
  <1> QED
    BY <1>1, <1>2 DEF IInv

LEMMA CoalescedKnown ==
    ASSUME IInv
    PROVE  Coalesced
  <1> SUFFICES ASSUME s_initialized, NEW r \in Regions
               PROVE  /\ LastGuard(r) \in Blocks(mem, r)
                      /\ ~IsFree(mem, FirstGuard(r)) /\ ~IsFree(mem, LastGuard(r))
                      /\ \A b \in Blocks(mem, r) \ {LastGuard(r)} :
                           /\ b < mem[b].next /\ mem[b].next <= LastGuard(r)
                           /\ mem[mem[b].next].prev = b
                           /\ ~(IsFree(mem, b) /\ IsFree(mem, mem[b].next))
                           /\ b # FirstGuard(r) => BlockSize(mem, b) >= DYN_MIN_SPLIT_SIZE
    BY DEF Coalesced
  <1>1. PICK m, B, l : m = mem /\ l = live /\ Holds(m, l, B)
    BY Begun
  <1>2. List(m, B) /\ Apart(m, B)
    BY <1>1 DEF Holds, Good
  <1>3. Blocks(m, r) = Within(B, r)
    BY <1>2, BlocksAre
  <1>4. /\ FirstGuard(r) \in Lows /\ FirstGuard(r) \in B
        /\ LastGuard(r) \in Highs /\ LastGuard(r) \in B
    BY <1>2, Numbers
  <1>5. LastGuard(r) \in Within(B, r)
    BY <1>4, RegionFacts DEF Within
  <1>6. ~IsFree(m, FirstGuard(r)) /\ ~IsFree(m, LastGuard(r))
    BY <1>2, <1>4 DEF List
  <1>7. ASSUME NEW b \in Within(B, r), b # LastGuard(r)
        PROVE  /\ b < m[b].next /\ m[b].next <= LastGuard(r)
               /\ m[m[b].next].prev = b
               /\ ~(IsFree(m, b) /\ IsFree(m, m[b].next))
               /\ b # FirstGuard(r) => BlockSize(m, b) >= DYN_MIN_SPLIT_SIZE
    <2>1. /\ m[b].next \in Within(B, r) /\ b < m[b].next
          /\ m[m[b].next].prev = b
      BY <1>2, <1>7, NextWithin DEF Follows
    <2>2. b \in B \ Highs
      BY <1>2, <1>7, OwnGuards DEF Within
    <2>3. ~(IsFree(m, b) /\ IsFree(m, m[b].next))
      BY <1>2, <2>2 DEF Apart
    <2>4. ASSUME b # FirstGuard(r) PROVE BlockSize(m, b) >= DYN_MIN_SPLIT_SIZE
      <3>1. b \in Inner(B)
        BY <1>2, <2>2, <2>4, OwnGuards DEF Inner
      <3>2. PICK n \in Nat : n = m[b].next /\ n # NULL /\ b \in Nat
        BY <1>2, <2>1, <3>1, Numbers DEF Within, Inner
      <3>3. b + DYN_MIN_SPLIT_SIZE <= n
        BY <1>2, <3>1, <3>2 DEF List
      <3>4. BlockSize(m, b) = n - b
        BY <3>2 DEF BlockSize
      <3> QED
        BY <3>2, <3>3, <3>4 DEF DYN_MIN_SPLIT_SIZE
    <2> QED
      BY <2>1, <2>3, <2>4 DEF Within
  <1> QED
    BY <1>1, <1>3, <1>5, <1>6, <1>7

LEMMA TakenKnown ==
    ASSUME IInv
    PROVE  TakenAreLive
  <1> SUFFICES ASSUME s_initialized
               PROVE  DOMAIN live =
                 {Pointer(b) : b \in UNION {
                    {c \in Blocks(mem, r) \ {FirstGuard(r), LastGuard(r)} : ~IsFree(mem, c)} :
                    r \in Regions}}
    BY DEF TakenAreLive
  <1>1. PICK m, B, l : m = mem /\ l = live /\ Holds(m, l, B)
    BY Begun
  <1>2. List(m, B) /\ DOMAIN l = {Pointer(b) : b \in Used(m, B)}
    BY <1>1 DEF Holds, Good, Owned
  <1>3. PICK U : U = UNION {
          {c \in Blocks(m, r) \ {FirstGuard(r), LastGuard(r)} : ~IsFree(m, c)} : r \in Regions}
    OBVIOUS
  <1>4. ASSUME NEW c \in U PROVE c \in Used(m, B)
    <2>1. PICK r \in Regions : /\ c \in Blocks(m, r) /\ ~IsFree(m, c)
                               /\ c # FirstGuard(r) /\ c # LastGuard(r)
      BY <1>3
    <2>2. c \in Within(B, r)
      BY <1>2, <2>1, BlocksAre
    <2>3. c \in B /\ c \notin Highs /\ c \notin Lows
      BY <1>2, <2>1, <2>2, OwnGuards DEF Within
    <2> QED
      BY <2>1, <2>3 DEF Used, Inner
  <1>5. ASSUME NEW c \in Used(m, B) PROVE c \in U
    <2>1. c \in B /\ c \notin Highs /\ c \notin Lows /\ ~IsFree(m, c)
      BY DEF Used, Inner
    <2>2. PICK r \in Regions : c \in Within(B, r)
      BY <1>2, <2>1, Numbers
    <2>3. c \in Blocks(m, r)
      BY <1>2, <2>2, BlocksAre
    <2>4. c # FirstGuard(r) /\ c # LastGuard(r)
      BY <2>1 DEF Lows, Highs
    <2> QED
      BY <1>3, <2>1, <2>3, <2>4
  <1>6. U = Used(m, B)
    BY <1>4, <1>5
  <1> QED
    BY <1>1, <1>2, <1>3, <1>6

(* Every entry point leaves the lists whole and the callers in possession of  *)
(* exactly the blocks that are marked taken.                                  *)
THEOREM InvariantHolds == Spec => []IInv
  <1>1. IInv /\ [Next]_vars => IInv'
    BY NextKeeps, StutterKeeps
  <1> QED
    BY <1>1, InitKnows, PTL DEF Spec

(* Whatever is called in whatever order, every word of RAM is a header whose  *)
(* links stay in RAM or a word of payload.                                    *)
THEOREM TypeCorrect == Spec => []TypeOK
  BY InvariantHolds, TypeKnown, PTL

(* s_compact_free, s_get_free_block and s_shrink_block leave lists without    *)
(* gaps, linked alike in both directions, and without neighbours that are     *)
(* both free, for any regions and any sequence of calls.                      *)
THEOREM StaysCoalesced == Spec => []Coalesced
  BY InvariantHolds, CoalescedKnown, PTL

(* A block is marked taken exactly while a caller holds the pointer to it:    *)
(* smalloc, scalloc, srealloc and sfree neither leak memory nor hand it out   *)
(* twice.                                                                     *)
THEOREM TakenAreHeld == Spec => []TakenAreLive
  BY InvariantHolds, TakenKnown, PTL

-----------------------------------------------------------------------------
(* The pieces as module Heap sees them.                                       *)

View(m, l) == [p \in DOMAIN l |-> [i \in 1..Words(l[p]) |-> m[(p + i) - 1]]]

Sized(l) == \A p \in DOMAIN l : Words(l[p]) \in Nat

LEMMA Lengthy ==
    ASSUME NEW S, NEW n \in Nat, NEW f \in [1..n -> S]
    PROVE  Len(f) = n
  <1>1. f \in Seq(S)
    OBVIOUS
  <1> QED
    BY <1>1

LEMMA ViewIs ==
    ASSUME NEW m, NEW l, Sized(l), NEW v, v = View(m, l)
    PROVE  /\ DOMAIN v = DOMAIN l
           /\ \A p \in DOMAIN l : Len(v[p]) = Words(l[p])
  <1>1. /\ DOMAIN v = DOMAIN l
        /\ \A p \in DOMAIN l : v[p] = [i \in 1..Words(l[p]) |-> m[(p + i) - 1]]
    BY DEF View
  <1>2. ASSUME NEW p \in DOMAIN l PROVE Len(v[p]) = Words(l[p])
    <2>1. PICK n \in Nat : n = Words(l[p])
      BY DEF Sized
    <2>2. PICK S : S = {m[(p + i) - 1] : i \in 1..n}
      OBVIOUS
    <2>3. PICK f : f = v[p]
      OBVIOUS
    <2>4. f = [i \in 1..n |-> m[(p + i) - 1]]
      BY <1>1, <2>1, <2>3
    <2>5. f \in [1..n -> S]
      BY <2>2, <2>4
    <2> QED
      BY <2>1, <2>3, <2>5, Lengthy
  <1> QED
    BY <1>1, <1>2

KeepsAll(v, v1, ps) == \A q \in DOMAIN v \ ps : q \in DOMAIN v1 /\ v1[q] = v[q]

LEMMA ViewKept ==
    ASSUME NEW m, NEW l, NEW m1, NEW l1, Sized(l), Sized(l1), NEW ps, Kept(m, l, m1, l1, ps),
           NEW v, v = View(m, l), NEW v1, v1 = View(m1, l1)
    PROVE  KeepsAll(v, v1, ps)
  <1>1. /\ DOMAIN v = DOMAIN l /\ DOMAIN v1 = DOMAIN l1
        /\ \A p \in DOMAIN l : v[p] = [i \in 1..Words(l[p]) |-> m[(p + i) - 1]]
        /\ \A p \in DOMAIN l1 : v1[p] = [i \in 1..Words(l1[p]) |-> m1[(p + i) - 1]]
    BY DEF View
  <1>2. ASSUME NEW q \in DOMAIN l \ ps PROVE q \in DOMAIN l1 /\ v1[q] = v[q]
    <2>1. /\ q \in DOMAIN l1 /\ l1[q] = l[q]
          /\ \A i \in 1..Words(l[q]) : m1[(q + i) - 1] = m[(q + i) - 1]
      BY DEF Kept
    <2>2. PICK n \in Nat : n = Words(l[q])
      BY DEF Sized
    <2>3. v[q] = [i \in 1..n |-> m[(q + i) - 1]]
      BY <1>1, <2>2
    <2>4. v1[q] = [i \in 1..n |-> m1[(q + i) - 1]]
      BY <1>1, <2>1, <2>2
    <2>5. \A i \in 1..n : m1[(q + i) - 1] = m[(q + i) - 1]
      BY <2>1, <2>2
    <2> QED
      BY <2>1, <2>3, <2>4, <2>5
  <1> QED
    BY <1>1, <1>2 DEF KeepsAll

Room(p, n) == p .. (p + n) - 1

(* What Heap asks of a new piece.                                             *)
Given(v, v1, p, n, others) ==
  /\ DOMAIN v1 = others \cup {p}
  /\ Room(p, n) \subseteq Ram
  /\ \A q \in others : Room(p, n) \cap Room(q, Len(v[q])) = {}
  /\ v1[p] \in [1..n -> Word]

LEMMA GivenIs ==
    ASSUME NEW m, NEW l, Sized(l), NEW m1, NEW l1, NEW B1, Holds(m1, l1, B1),
           NEW v, v = View(m, l), NEW v1, v1 = View(m1, l1),
           NEW ps, Kept(m, l, m1, l1, ps),
           NEW others, others \subseteq DOMAIN l \ ps,
           NEW p, p \notin others, DOMAIN l1 = others \cup {p}
    PROVE  /\ Given(v, v1, p, Words(l1[p]), others)
           /\ Words(l1[p]) \in {Words(bytes) : bytes \in Sizes \ {0}}
  <1>1. Sized(l1)
    BY PiecesAre DEF Sized
  <1>2. /\ DOMAIN v = DOMAIN l /\ DOMAIN v1 = DOMAIN l1
        /\ \A q \in DOMAIN l : Len(v[q]) = Words(l[q])
        /\ v1[p] = [i \in 1..Words(l1[p]) |-> m1[(p + i) - 1]]
    <2>1. DOMAIN v = DOMAIN l /\ \A q \in DOMAIN l : Len(v[q]) = Words(l[q])
      BY ViewIs
    <2>2. p \in DOMAIN l1
      OBVIOUS
    <2>3. DOMAIN v1 = DOMAIN l1 /\ v1[p] = [i \in 1..Words(l1[p]) |-> m1[(p + i) - 1]]
      BY <2>2 DEF View
    <2> QED
      BY <2>1, <2>3
  <1>3. PICK n \in Nat : n = Words(l1[p])
    BY <1>1 DEF Sized
  <1>4. /\ p \in Nat /\ l1[p] \in Sizes \ {0}
        /\ \A i \in 1..n : (p + i) - 1 \in Ram /\ m1[(p + i) - 1] \in Word
    BY <1>3, PiecesAre
  <1>5. Room(p, n) \subseteq Ram
    <2> SUFFICES ASSUME NEW w \in Room(p, n) PROVE w \in Ram
      OBVIOUS
    <2>1. w \in Int /\ p <= w /\ w <= (p + n) - 1
      BY <1>3, <1>4 DEF Room
    <2>2. PICK i \in 1..n : (p + i) - 1 = w
      <3>1. (w - p) + 1 \in 1..n /\ (p + ((w - p) + 1)) - 1 = w
        BY <1>3, <1>4, <2>1
      <3> QED
        BY <3>1
    <2> QED
      BY <1>4, <2>2
  <1>6. ASSUME NEW q \in others PROVE Room(p, n) \cap Room(q, Len(v[q])) = {}
    <2>1. q \in DOMAIN l1 /\ q \in DOMAIN l /\ q # p /\ l1[q] = l[q]
      BY DEF Kept
    <2>2. PICK k \in Nat : k = Words(l1[q]) /\ k = Len(v[q]) /\ q \in Nat
      <3>1. Words(l1[q]) \in Nat /\ q \in Nat
        BY <2>1, PiecesAre
      <3> QED
        BY <1>2, <2>1, <3>1
    <2>3. p + n < q \/ q + k < p
      BY <1>3, <2>1, <2>2, PiecesAre
    <2>4. ASSUME NEW w, w \in Room(p, n), w \in Room(q, k) PROVE FALSE
      BY <1>3, <1>4, <2>2, <2>3, <2>4 DEF Room
    <2> QED
      BY <2>2, <2>4
  <1>7. v1[p] \in [1..n -> Word]
    <2>1. v1[p] = [i \in 1..n |-> m1[(p + i) - 1]]
      BY <1>2, <1>3
    <2> QED
      BY <1>4, <2>1
  <1>8. Given(v, v1, p, n, others)
    BY <1>2, <1>5, <1>6, <1>7 DEF Given
  <1> QED
    BY <1>3, <1>4, <1>8

Lengths == {Words(bytes) : bytes \in Sizes \ {0}}

GivenSome(v, v1) ==
  \E n \in Lengths, p \in DOMAIN v1 : Given(v, v1, p, n, DOMAIN v) /\ KeepsAll(v, v1, {})

GivenBack(v, v1, p) == DOMAIN v1 = DOMAIN v \ {p} /\ KeepsAll(v, v1, {p})

Copies(v, v1, p, q, n) == \A i \in 1..Min({n, Len(v[p])}) : v1[q][i] = v[p][i]

GivenFor(v, v1, p) ==
  \E n \in Lengths, q \in DOMAIN v1 :
    Given(v, v1, q, n, DOMAIN v \ {p}) /\ Copies(v, v1, p, q, n) /\ KeepsAll(v, v1, {p})

StoredAt(v, v1, p, x) == v1 = [v EXCEPT ![p] = [i \in DOMAIN @ |-> x]]

LEMMA SameView ==
    ASSUME NEW m, NEW l, NEW m1, Sized(l), Kept(m, l, m1, l, {}),
           NEW v, v = View(m, l), NEW v1, v1 = View(m1, l)
    PROVE  v1 = v
  <1>1. KeepsAll(v, v1, {})
    BY ViewKept
  <1>2. DOMAIN v = DOMAIN l /\ DOMAIN v1 = DOMAIN l
        /\ v = [q \in DOMAIN l |-> v[q]] /\ v1 = [q \in DOMAIN l |-> v1[q]]
    BY DEF View
  <1>3. \A q \in DOMAIN l : v1[q] = v[q]
    BY <1>1, <1>2 DEF KeepsAll
  <1> QED
    BY <1>2, <1>3

LEMMA MinOfTwo ==
    ASSUME NEW a \in Nat, NEW b \in Nat
    PROVE  /\ Min({a, b}) \in Nat /\ Min({a, b}) <= a /\ Min({a, b}) <= b
  <1>1. \E x \in {a, b} : \A y \in {a, b} : x <= y
    OBVIOUS
  <1>2. Min({a, b}) \in {a, b} /\ \A y \in {a, b} : Min({a, b}) <= y
    BY <1>1 DEF Min
  <1> QED
    BY <1>2

LEMMA ViewCopies ==
    ASSUME NEW m, NEW l, NEW m1, NEW l1, Sized(l), Sized(l1), NEW p \in DOMAIN l,
           NEW q \in DOMAIN l1, Same(m, l, m1, l1, p, q),
           NEW v, v = View(m, l), NEW v1, v1 = View(m1, l1)
    PROVE  Copies(v, v1, p, q, Words(l1[q]))
  <1>1. PICK n \in Nat, k \in Nat : n = Words(l1[q]) /\ k = Words(l[p]) /\ Len(v[p]) = k
    BY ViewIs DEF Sized
  <1>2. v[p] = [i \in 1..k |-> m[(p + i) - 1]]
    BY <1>1 DEF View
  <1>3. v1[q] = [i \in 1..n |-> m1[(q + i) - 1]]
    BY <1>1 DEF View
  <1>4. Min({n, k}) \in Nat /\ Min({n, k}) <= n /\ Min({n, k}) <= k
    BY MinOfTwo
  <1>5. ASSUME NEW i \in 1..Min({n, k}) PROVE v1[q][i] = v[p][i]
    <2>1. i \in 1..n /\ i \in 1..k
      BY <1>4
    <2>2. m1[(q + i) - 1] = m[(p + i) - 1]
      BY <1>1, <2>1 DEF Same
    <2> QED
      BY <1>2, <1>3, <2>1, <2>2
  <1> QED
    BY <1>1, <1>5 DEF Copies

LEMMA ViewStores ==
    ASSUME NEW m, NEW l, NEW m1, Sized(l), NEW p \in DOMAIN l, NEW x,
           Kept(m, l, m1, l, {p}), Fills(m, l, m1, p, x),
           NEW v, v = View(m, l), NEW v1, v1 = View(m1, l)
    PROVE  StoredAt(v, v1, p, x)
  <1>1. KeepsAll(v, v1, {p})
    BY ViewKept
  <1>2. DOMAIN v = DOMAIN l /\ DOMAIN v1 = DOMAIN l
        /\ v = [q \in DOMAIN l |-> v[q]] /\ v1 = [q \in DOMAIN l |-> v1[q]]
    BY DEF View
  <1>3. \A q \in DOMAIN l : q # p => v1[q] = v[q]
    BY <1>1, <1>2 DEF KeepsAll
  <1>4. PICK k \in Nat : k = Words(l[p])
    BY DEF Sized
  <1>5. v[p] = [i \in 1..k |-> m[(p + i) - 1]]
    BY <1>4 DEF View
  <1>6. v1[p] = [i \in 1..k |-> m1[(p + i) - 1]]
    BY <1>4 DEF View
  <1>7. \A i \in 1..k : m1[(p + i) - 1] = x
    BY <1>4 DEF Fills
  <1>8. DOMAIN v[p] = 1..k
    BY <1>5
  <1>9. v1[p] = [i \in 1..k |-> x]
    BY <1>6, <1>7
  <1>10. PICK s : s = [i \in DOMAIN v[p] |-> x]
    OBVIOUS
  <1>11. v1[p] = s
    BY <1>8, <1>9, <1>10
  <1>12. v1 = [v EXCEPT ![p] = s]
    BY <1>2, <1>3, <1>11
  <1> QED
    BY <1>10, <1>12 DEF StoredAt

LEMMA ViewDoes ==
    ASSUME NEW m, NEW l, Sized(l), NEW m1, NEW l1, NEW B1, Holds(m1, l1, B1),
           Does(m, l, m1, l1), NEW v, v = View(m, l), NEW v1, v1 = View(m1, l1)
    PROVE  \/ v1 = v
           \/ GivenSome(v, v1)
           \/ \E p \in DOMAIN v : \/ GivenBack(v, v1, p)
                                  \/ GivenFor(v, v1, p)
                                  \/ \E x \in Values : StoredAt(v, v1, p, x)
  <1>1. Sized(l1)
    BY PiecesAre DEF Sized
  <1>2. DOMAIN v = DOMAIN l /\ DOMAIN v1 = DOMAIN l1
    BY DEF View
  <1>3. CASE l1 = l /\ Kept(m, l, m1, l1, {})
    BY <1>3, SameView
  <1>4. CASE Obtains(m, l, m1, l1)
    <2>1. PICK p : /\ p \notin DOMAIN l /\ DOMAIN l1 = DOMAIN l \cup {p}
                   /\ Kept(m, l, m1, l1, {})
      BY <1>4 DEF Obtains
    <2>2. PICK others : others = DOMAIN l
      OBVIOUS
    <2>3. others \subseteq DOMAIN l \ {} /\ p \notin others /\ DOMAIN l1 = others \cup {p}
      BY <2>1, <2>2
    <2>4. Given(v, v1, p, Words(l1[p]), others) /\ Words(l1[p]) \in Lengths
      BY <2>1, <2>3, GivenIs DEF Lengths
    <2>5. KeepsAll(v, v1, {})
      BY <1>1, <2>1, ViewKept
    <2>6. GivenSome(v, v1)
      BY <1>2, <2>1, <2>2, <2>4, <2>5 DEF GivenSome
    <2> QED
      BY <2>6
  <1>5. ASSUME NEW p \in DOMAIN l, Releases(m, l, m1, l1, p)
        PROVE  GivenBack(v, v1, p)
    <2>1. KeepsAll(v, v1, {p})
      BY <1>1, <1>5, ViewKept DEF Releases
    <2> QED
      BY <1>2, <1>5, <2>1 DEF GivenBack, Releases
  <1>6. ASSUME NEW p \in DOMAIN l, Resizes(m, l, m1, l1, p)
        PROVE  GivenFor(v, v1, p)
    <2>1. PICK q : /\ q \notin DOMAIN l \ {p} /\ DOMAIN l1 = (DOMAIN l \ {p}) \cup {q}
                   /\ Kept(m, l, m1, l1, {p})
                   /\ Same(m, l, m1, l1, p, q)
      BY <1>6 DEF Resizes
    <2>2. PICK others : others = DOMAIN l \ {p}
      OBVIOUS
    <2>3. others \subseteq DOMAIN l \ {p} /\ q \notin others /\ DOMAIN l1 = others \cup {q}
      BY <2>1, <2>2
    <2>4. Given(v, v1, q, Words(l1[q]), others) /\ Words(l1[q]) \in Lengths
      BY <2>1, <2>3, GivenIs DEF Lengths
    <2>5. KeepsAll(v, v1, {p})
      BY <1>1, <2>1, ViewKept
    <2>6. Copies(v, v1, p, q, Words(l1[q])) /\ q \in DOMAIN l1
      <3>1. q \in DOMAIN l1
        BY <2>1
      <3> QED
        BY <1>1, <2>1, <3>1, ViewCopies
    <2> QED
      BY <1>2, <2>2, <2>4, <2>5, <2>6 DEF GivenFor
  <1>7. ASSUME NEW p \in DOMAIN l, NEW x \in Values, Stores(m, l, m1, l1, p, x)
        PROVE  StoredAt(v, v1, p, x)
    BY <1>7, ViewStores DEF Stores
  <1> QED
    BY <1>2, <1>3, <1>4, <1>5, <1>6, <1>7 DEF Does

-----------------------------------------------------------------------------
(* The steps of module Heap.                                                  *)

LEMMA KeepsMaps ==
    ASSUME NEW v, v = View(mem, live), NEW v1, v1 = View(mem, live)',
           NEW ps, KeepsAll(v, v1, ps)
    PROVE  heap!Keeps(ps)
  <1>1. /\ v = [p \in DOMAIN live |-> [i \in 1..Words(live[p]) |-> mem[(p + i) - 1]]]
        /\ v1 = [p \in DOMAIN live |-> [i \in 1..Words(live[p]) |-> mem[(p + i) - 1]]]'
    BY DEF View
  <1> QED
    BY <1>1 DEF heap!Keeps, KeepsAll

LEMMA ObtainMaps ==
    ASSUME NEW v, v = View(mem, live), NEW v1, v1 = View(mem, live)',
           NEW n, NEW p \in DOMAIN v1, Given(v, v1, p, n, DOMAIN v), KeepsAll(v, v1, {})
    PROVE  heap!Obtain(n)
  <1>1. /\ v = [q \in DOMAIN live |-> [i \in 1..Words(live[q]) |-> mem[(q + i) - 1]]]
        /\ v1 = [q \in DOMAIN live |-> [i \in 1..Words(live[q]) |-> mem[(q + i) - 1]]]'
    BY DEF View
  <1>2. heap!Word = Word
    BY DEF heap!Word, Word
  <1>3. \A q, k : heap!Extent(q, k) = Room(q, k)
    BY DEF heap!Extent, Room
  <1>4. heap!Keeps({})
    BY KeepsMaps
  <1>5. \E q \in DOMAIN v1 :
          /\ DOMAIN v1 = DOMAIN v \cup {q}
          /\ heap!Extent(q, n) \subseteq Ram
          /\ \A c \in DOMAIN v : heap!Extent(q, n) \cap heap!Extent(c, Len(v[c])) = {}
          /\ v1[q] \in [1..n -> heap!Word]
    BY <1>2, <1>3 DEF Given
  <1> QED
    BY <1>1, <1>4, <1>5 DEF heap!Obtain, heap!Gets

LEMMA ResizeMaps ==
    ASSUME NEW v, v = View(mem, live), NEW v1, v1 = View(mem, live)',
           NEW p, NEW n, NEW q \in DOMAIN v1, Given(v, v1, q, n, DOMAIN v \ {p}),
           Copies(v, v1, p, q, n), KeepsAll(v, v1, {p})
    PROVE  heap!Resize(p, n)
  <1>1. /\ v = [c \in DOMAIN live |-> [i \in 1..Words(live[c]) |-> mem[(c + i) - 1]]]
        /\ v1 = [c \in DOMAIN live |-> [i \in 1..Words(live[c]) |-> mem[(c + i) - 1]]]'
    BY DEF View
  <1>2. heap!Word = Word
    BY DEF heap!Word, Word
  <1>3. \A c, k : heap!Extent(c, k) = Room(c, k)
    BY DEF heap!Extent, Room
  <1>4. heap!Keeps({p})
    BY KeepsMaps
  <1>5. \A S : heap!Min(S) = Min(S)
    BY DEF heap!Min, Min
  <1>6. \E c \in DOMAIN v1 :
          /\ DOMAIN v1 = (DOMAIN v \ {p}) \cup {c}
          /\ heap!Extent(c, n) \subseteq Ram
          /\ \A d \in DOMAIN v \ {p} :
               heap!Extent(c, n) \cap heap!Extent(d, Len(v[d])) = {}
          /\ v1[c] \in [1..n -> heap!Word]
          /\ \A i \in 1..heap!Min({n, Len(v[p])}) : v1[c][i] = v[p][i]
    BY <1>2, <1>3, <1>5 DEF Given, Copies
  <1> QED
    BY <1>1, <1>4, <1>6 DEF heap!Resize, heap!Gets

LEMMA Serving ==
    ASSUME IInv, Next
    PROVE  s_initialized' = TRUE
  <1>1. ASSUME NEW bytes \in Sizes, NEW stale \in BOOLEAN,
               Smalloc(bytes, stale) \/ Scalloc(bytes, stale)
        PROVE  s_initialized' = TRUE
    BY <1>1 DEF Smalloc, Scalloc
  <1>2. ASSUME NEW p \in DOMAIN live PROVE s_initialized = TRUE
    <2>1. ASSUME ~s_initialized PROVE FALSE
      BY <2>1, <1>2 DEF IInv
    <2> QED
      BY <2>1 DEF IInv
  <1>3. ASSUME NEW p \in DOMAIN live, Sfree(p) PROVE s_initialized' = TRUE
    BY <1>2, <1>3 DEF Sfree
  <1>4. ASSUME NEW p \in DOMAIN live, NEW bytes \in Sizes, NEW stale \in BOOLEAN,
               Srealloc(p, bytes, stale)
        PROVE  s_initialized' = TRUE
    <2>1. s_initialized' = s_initialized
      BY <1>4 DEF Srealloc
    <2> QED
      BY <1>2, <2>1
  <1>5. ASSUME NEW p \in DOMAIN live, NEW v \in Values, Store(p, v)
        PROVE  s_initialized' = TRUE
    BY <1>2, <1>5 DEF Store
  <1> QED
    BY <1>1, <1>3, <1>4, <1>5 DEF Next

LEMMA SizedNow ==
    ASSUME IInv
    PROVE  Sized(live)
  <1>1. CASE s_initialized
    <2>1. Holds(mem, live, Whole(mem))
      BY <1>1 DEF IInv, Holds
    <2> QED
      BY <2>1, PiecesAre DEF Sized
  <1>2. CASE ~s_initialized
    <2>1. DOMAIN live = {}
      BY <1>2 DEF IInv
    <2> QED
      BY <2>1 DEF Sized
  <1> QED
    BY <1>1, <1>2 DEF IInv

LEMMA StepMaps ==
    ASSUME IInv, IInv', s_initialized' = TRUE, Does(mem, live, mem', live')
    PROVE  [heap!Next]_(View(mem, live))
  <1>1. PICK v, v1 : v = View(mem, live) /\ v1 = View(mem, live)'
    OBVIOUS
  <1>2. PICK m, l, m1, l1 : m = mem /\ l = live /\ m1 = mem' /\ l1 = live'
    OBVIOUS
  <1>3. v = View(m, l) /\ v1 = View(m1, l1)
    BY <1>1, <1>2 DEF View
  <1>4. Sized(l)
    BY <1>2, SizedNow
  <1>5. PICK B1 : B1 = Whole(m1)
    OBVIOUS
  <1>6. Holds(m1, l1, B1)
    BY <1>2, <1>5 DEF IInv, Holds, Whole
  <1>7. Does(m, l, m1, l1)
    BY <1>2
  <1>8. /\ v = [q \in DOMAIN live |-> [i \in 1..Words(live[q]) |-> mem[(q + i) - 1]]]
        /\ v1 = [q \in DOMAIN live |-> [i \in 1..Words(live[q]) |-> mem[(q + i) - 1]]]'
    BY <1>1 DEF View
  <1>9. CASE v1 = v
    BY <1>1, <1>9
  <1>10. CASE GivenSome(v, v1)
    <2>1. PICK n \in Lengths, p \in DOMAIN v1 :
                 Given(v, v1, p, n, DOMAIN v) /\ KeepsAll(v, v1, {})
      BY <1>10 DEF GivenSome
    <2>3. heap!Obtain(n)
      BY <1>1, <2>1, ObtainMaps
    <2> QED
      BY <2>3 DEF heap!Next, Lengths
  <1>11. ASSUME NEW p \in DOMAIN v, GivenBack(v, v1, p) PROVE heap!Next
    <2>1. heap!Keeps({p})
      BY <1>1, <1>11, KeepsMaps DEF GivenBack
    <2>2. heap!Release(p)
      BY <1>8, <1>11, <2>1 DEF heap!Release, GivenBack
    <2> QED
      BY <1>8, <2>2 DEF heap!Next
  <1>12. ASSUME NEW p \in DOMAIN v, GivenFor(v, v1, p) PROVE heap!Next
    <2>1. PICK n \in Lengths, q \in DOMAIN v1 :
                 /\ Given(v, v1, q, n, DOMAIN v \ {p})
                 /\ Copies(v, v1, p, q, n) /\ KeepsAll(v, v1, {p})
      BY <1>12 DEF GivenFor
    <2>4. heap!Resize(p, n)
      BY <1>1, <2>1, ResizeMaps
    <2> QED
      BY <1>8, <2>4 DEF heap!Next, Lengths
  <1>13. ASSUME NEW p \in DOMAIN v, NEW x \in Values, StoredAt(v, v1, p, x)
         PROVE  heap!Next
    <2>1. heap!Store(p, x)
      BY <1>8, <1>13 DEF heap!Store, StoredAt
    <2> QED
      BY <1>8, <2>1 DEF heap!Next
  <1> QED
    BY <1>3, <1>4, <1>6, <1>7, <1>9, <1>10, <1>11, <1>12, <1>13, ViewDoes

(* The heap of the callers is what module Heap promises: smalloc, scalloc,    *)
(* srealloc and sfree hand out pieces of RAM that do not overlap, and what is *)
(* stored in a piece stays there until it is released, also when srealloc     *)
(* moves it, for any regions, sizes and sequence of calls.                    *)
THEOREM HeapRefined == Spec => ImplementsHeap
  <1>1. Init => heap!Init
    <2> SUFFICES ASSUME Init PROVE heap!Init
      OBVIOUS
    <2>1. live = << >>
      BY DEF Init
    <2>2. DOMAIN live = {}
      BY <2>1
    <2> QED
      BY <2>2 DEF heap!Init
  <1>2. IInv /\ Next => [heap!Next]_(View(mem, live))
    BY NextKeeps, Serving, StepMaps
  <1>3. UNCHANGED vars => UNCHANGED View(mem, live)
    BY DEF vars, View
  <1>4. IInv /\ [Next]_vars => [heap!Next]_(View(mem, live))
    BY <1>2, <1>3
  <1> QED
    BY <1>1, <1>4, InvariantHolds, PTL DEF Spec, ImplementsHeap, heap!Spec, View

=============================================================================
