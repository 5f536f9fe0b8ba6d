----------------------------- MODULE AdcProofs ------------------------------
(* What module Adc promises of the ADC sampling, proved for any channels,     *)
(* numbers of samples, filter lengths and number of calls: every variable     *)
(* keeps its type, the samples in the buffer of a channel were converted on   *)
(* it unless the interrupt came into a flush of the buffer (BufferedOwn), and *)
(* outside a change of its length the filter is an average over its whole     *)
(* ring (AverageOfRing).                                                      *)
EXTENDS Adc, FiniteSetTheorems, SequenceTheorems, WellFoundedInduction, TLAPS

-----------------------------------------------------------------------------
(* The inductive invariant.                                                   *)

Total(cells) == FoldSeq(+, 0, cells)

(* The sequencer is programmed with the channels of last_ch_active, and each  *)
(* of them knows its place in sample_buf.                                     *)
InPlace ==
  /\ seq = Programmed(last_ch_active)
  /\ \A c \in last_ch_active : value_ptr[c] = Position(last_ch_active, c)

(* When the interrupt is pending every channel of the sequence has been       *)
(* converted; no place of sample_buf ever holds the zero of a flush.          *)
Converted == irq => \A c \in last_ch_active : Value(c) = Volt[c]
NoZero == \A i \in 1..Cardinality(Channels) : sample_buf[i] # 0

(* A channel with a fresh value has a place, so has one whose bits are about  *)
(* to be written back with it.                                                *)
Placed == \A c \in Channels : flags[c].value_fresh => value_ptr[c] # 0

(* What is in a buffer was converted on its channel, or the buffer is torn.   *)
Sources(c) == IF c \in torn THEN {Volt[c], Stray} ELSE {Volt[c]}
Within(e, sources) == \A i \in 1..Len(e) : e[i] \in sources
Own == \A c \in Channels : Within(buf[c].elems, Sources(c))

(* Between the read and the write of the bits the main program never raises   *)
(* smooth_ready, it at most writes again what is there; and the filter of a   *)
(* flush is empty until its end.                                              *)
Flushed(c) ==
  c \notin raced /\ logsmoothlen[c] > 0 =>
    /\ Len(smooth[c].cells) = Realsize(logsmoothlen[c])
    /\ smooth[c].idx = 0 /\ smooth[c].sum = 0

Storing ==
  /\ main.bits \in Flag /\ main.field # ""
  /\ main.bits.smooth_ready => flags[Ch].smooth_ready
  /\ main.bits.value_fresh => value_ptr[Ch] # 0
  /\ main.field = "smooth_ready" /\ main.value => flags[Ch].smooth_ready
  /\ main.field = "value_fresh" => ~main.value
  /\ main.then \in {"activate", "take", "count", "inactivate", "flush", "zero",
                    "idle"}
  /\ main.then = "take" => main.left # 0
  /\ main.then = "count" => main.sample # 0 /\ main.left # 0
  /\ main.then = "flush" => logsmoothlen[Ch] = 0
  /\ main.then = "zero" =>
       main.field = "smooth_ready" /\ ~main.value /\ Flushed(Ch)

(* What adc.sample asks for and what adc.setsmoothing asks for.               *)
Sampling == {"setup", "resize", "pointers", "request", "pend", "activate",
             "activated", "start", "program", "run", "trigger"}

Asking ==
  /\ main.op = "sample" =>
       main.pc \in Sampling \/ (At("store") /\ main.then = "activate")
  /\ main.pc \in {"setup", "resize", "request", "pend", "activate", "activated"}
       \/ (At("pointers") /\ main.op = "sample")
       \/ (At("store") /\ main.then = "activate")
     => main.log \in LogCounts
  /\ main.pc \in {"retime", "unpend", "inactivate", "inactivated", "stop", "halt",
                  "disable"}
       \/ (At("store") /\ main.then = "inactivate")
     => main.op = "setclock" \/ main.log \in LogLengths
  /\ main.pc \in {"smoothing", "length", "realloc"} => main.log \in LogLengths

MainKnows ==
  /\ main.pc # "idle" => main.todo # << >>
  /\ Asking
  /\ At("store") => Storing
  /\ At("take") => main.left # 0
  /\ At("count") => main.sample # 0 /\ main.left # 0
  /\ At("realloc") => main.log = logsmoothlen[Ch]
  /\ At("flush") /\ Ch \notin raced /\ logsmoothlen[Ch] > 0
       => Len(smooth[Ch].cells) = Realsize(logsmoothlen[Ch])
  /\ At("zero") => Flushed(Ch) /\ (Ch \notin raced => ~flags[Ch].smooth_ready)

(* The ring of a filter that is in use: its cells are written one by one.     *)
RingOf(s, log) ==
  /\ Len(s.cells) = Realsize(log)
  /\ s.idx \in 0..Len(s.cells)
  /\ s.sum = Total(s.cells)
  /\ \A i \in 1..s.idx : s.cells[i] # 0

Full(s) == \A i \in 1..Len(s.cells) : s.cells[i] # 0

Rings(c) ==
  /\ RingOf(smooth[c], logsmoothlen[c])
  /\ flags[c].smooth_ready => Full(smooth[c])

FilterKnows ==
  \A c \in Channels :
    logsmoothlen[c] > 0 /\ c \notin raced /\ ~Resizing(c) => Rings(c)

IInv ==
  /\ TypeOK /\ InPlace /\ Converted /\ NoZero /\ Placed
  /\ MainKnows /\ FilterKnows /\ Own

-----------------------------------------------------------------------------
(* Induction over the naturals, from the library's theorem that every set of  *)
(* naturals has a least element.                                              *)

Smaller == {ss \in Nat \X Nat : ss[1] < ss[2]}

LEMMA SmallerWellFounded == IsWellFoundedOn(Smaller, Nat)
  BY NatLessThanWellFounded DEF OpToRel, Smaller

LEMMA Induct ==
    ASSUME NEW T, 0 \in T, \A n \in Nat : n \in T => n + 1 \in T
    PROVE  Nat \subseteq T
  <1> SUFFICES ASSUME Nat \ T # {} PROVE FALSE
    OBVIOUS
  <1>1. PICK x \in Nat \ T : \A y \in Nat \ T : <<y, x>> \notin Smaller
    BY SmallerWellFounded, WFMin
  <1>2. x - 1 \in Nat /\ x - 1 < x
    BY <1>1
  <1>3. x - 1 \in T
    BY <1>1, <1>2 DEF Smaller
  <1> QED
    BY <1>1, <1>2, <1>3

-----------------------------------------------------------------------------
(* The length of a filter is positive.                                        *)

Shifts(f, n) ==
  /\ f = [i \in 0..n |-> IF i = 0 THEN 1 ELSE 2 * f[i - 1]]
  /\ \A i \in 0..n : f[i] \in Nat \ {0}

LEMMA ShiftsExist == \A n \in Nat : \E f : Shifts(f, n)
  <1> DEFINE T == {n \in Nat : \E f : Shifts(f, n)}
  <1>1. 0 \in T
    <2>1. Shifts([i \in 0..0 |-> 1], 0)
      BY DEF Shifts
    <2> QED
      BY <2>1
  <1>2. ASSUME NEW n \in Nat, n \in T PROVE n + 1 \in T
    <2>1. PICK f : Shifts(f, n)
      BY <1>2
    <2> DEFINE g == [i \in 0..n + 1 |-> IF i = n + 1 THEN 2 * f[n] ELSE f[i]]
    <2>2. \A i \in 0..n : f[i] = (IF i = 0 THEN 1 ELSE 2 * f[i - 1]) /\ f[i] \in Nat \ {0}
      BY <2>1 DEF Shifts
    <2>3. \A i \in 0..n + 1 :
             g[i] = (IF i = 0 THEN 1 ELSE 2 * g[i - 1]) /\ g[i] \in Nat \ {0}
      BY <2>2
    <2>4. Shifts(g, n + 1)
      BY <2>3 DEF Shifts
    <2> QED
      BY <2>4
  <1> HIDE DEF T
  <1>3. Nat \subseteq T
    BY <1>1, <1>2, Induct
  <1> QED
    BY <1>3 DEF T

LEMMA RealsizePositive == ASSUME NEW n \in Nat PROVE Realsize(n) \in Nat \ {0}
  <1> DEFINE Body(f) == [i \in 0..n |-> IF i = 0 THEN 1 ELSE 2 * f[i - 1]]
             c == CHOOSE f : f = Body(f)
  <1>1. \E f : f = Body(f)
    BY ShiftsExist DEF Shifts
  <1>2. c = Body(c)
    BY <1>1
  <1>3. Realsize(n) = c[n]
    BY DEF Realsize
  <1> HIDE DEF c
  <1>4. \A i \in 0..n : c[i] = IF i = 0 THEN 1 ELSE 2 * c[i - 1]
    BY <1>2
  <1> DEFINE T == {i \in Nat : i <= n => c[i] \in Nat \ {0}}
  <1>5. 0 \in T
    BY <1>4
  <1>6. ASSUME NEW i \in Nat, i \in T PROVE i + 1 \in T
    <2> SUFFICES ASSUME i + 1 <= n PROVE c[i + 1] \in Nat \ {0}
      OBVIOUS
    <2>1. c[i + 1] = 2 * c[i]
      BY <1>4
    <2>2. c[i] \in Nat \ {0}
      BY <1>6
    <2> QED
      BY <2>1, <2>2
  <1> HIDE DEF T
  <1>7. Nat \subseteq T
    BY <1>5, <1>6, Induct
  <1> QED
    BY <1>3, <1>7 DEF T

-----------------------------------------------------------------------------
(* The sum of the cells of a filter: FoldSeq adds them up in an order that    *)
(* only depends on their indices.                                             *)

Taken(s) == CHOOSE x \in s : TRUE
Small(S, n) == {s \in SUBSET S : Cardinality(s) <= n}

Adds(f, D, it) ==
  it = [s \in D |-> IF s = {} THEN 0 ELSE f[Taken(s)] + it[s \ {Taken(s)}]]

LEMMA OneLess ==
    ASSUME NEW S, IsFiniteSet(S), NEW n \in Nat, NEW s \in Small(S, n + 1), s # {}
    PROVE  Taken(s) \in s /\ Taken(s) \in S /\ s \ {Taken(s)} \in Small(S, n)
  <1>1. Taken(s) \in s /\ s \in SUBSET S
    BY DEF Taken, Small
  <1>2. IsFiniteSet(s) /\ Cardinality(s) \in Nat /\ Cardinality(s) <= n + 1
    BY <1>1, FS_Subset, FS_CardinalityType DEF Small
  <1>3. Cardinality(s \ {Taken(s)}) = Cardinality(s) - 1
    BY <1>1, <1>2, FS_RemoveElement
  <1> QED
    BY <1>1, <1>2, <1>3 DEF Small

LEMMA SmallIsAll ==
    ASSUME NEW S, IsFiniteSet(S)
    PROVE  /\ Cardinality(S) \in Nat /\ Small(S, Cardinality(S)) = SUBSET S
           /\ Small(S, 0) = {{}}
  <1>1. Cardinality(S) \in Nat
    BY FS_CardinalityType
  <1>2. \A s \in SUBSET S : Cardinality(s) <= Cardinality(S) /\ IsFiniteSet(s)
    BY FS_Subset
  <1>3. Small(S, 0) \subseteq {{}}
    <2> SUFFICES ASSUME NEW s \in Small(S, 0) PROVE s = {}
      OBVIOUS
    <2>1. s \in SUBSET S /\ Cardinality(s) <= 0 /\ IsFiniteSet(s)
      BY <1>2 DEF Small
    <2>2. Cardinality(s) = 0
      BY <2>1, FS_CardinalityType
    <2> QED
      BY <2>1, <2>2, FS_EmptySet
  <1>4. {} \in Small(S, 0)
    BY FS_EmptySet DEF Small
  <1> QED
    BY <1>1, <1>2, <1>3, <1>4 DEF Small

LEMMA AddsExist ==
    ASSUME NEW S, IsFiniteSet(S), NEW f
    PROVE  \E it : Adds(f, SUBSET S, it)
  <1> DEFINE T == {n \in Nat : \E it : Adds(f, Small(S, n), it)}
  <1>1. 0 \in T
    <2>1. Adds(f, {{}}, [s \in {{}} |-> 0])
      BY DEF Adds
    <2> QED
      BY <2>1, SmallIsAll
  <1>2. ASSUME NEW n \in Nat, n \in T PROVE n + 1 \in T
    <2>1. PICK it : Adds(f, Small(S, n), it)
      BY <1>2
    <2> DEFINE Next1(s) == IF s = {} THEN 0 ELSE f[Taken(s)] + it[s \ {Taken(s)}]
               g == [s \in Small(S, n + 1) |-> Next1(s)]
    <2>2. \A s \in Small(S, n) : s \in Small(S, n + 1) /\ g[s] = it[s]
      <3> SUFFICES ASSUME NEW s \in Small(S, n)
                   PROVE  s \in Small(S, n + 1) /\ g[s] = it[s]
        OBVIOUS
      <3>1. s \in SUBSET S /\ Cardinality(s) <= n
        BY DEF Small
      <3>2. Cardinality(s) \in Nat
        BY <3>1, FS_Subset, FS_CardinalityType
      <3>3. s \in Small(S, n + 1)
        BY <3>1, <3>2 DEF Small
      <3>4. it[s] = Next1(s)
        BY <2>1 DEF Adds
      <3> QED
        BY <3>3, <3>4
    <2>3. ASSUME NEW s \in Small(S, n + 1), s # {}
          PROVE  it[s \ {Taken(s)}] = g[s \ {Taken(s)}]
      BY <2>2, <2>3, OneLess
    <2>4. \A s \in Small(S, n + 1) :
             g[s] = IF s = {} THEN 0 ELSE f[Taken(s)] + g[s \ {Taken(s)}]
      <3> HIDE DEF g
      <3>1. \A s \in Small(S, n + 1) : g[s] = Next1(s)
        BY DEF g
      <3> QED
        BY <2>3, <3>1
    <2>5. Adds(f, Small(S, n + 1), g)
      <3> DEFINE h == [s \in Small(S, n + 1) |->
                         IF s = {} THEN 0 ELSE f[Taken(s)] + g[s \ {Taken(s)}]]
      <3>1. g = h
        BY <2>4
      <3> QED
        BY <3>1 DEF Adds
    <2> HIDE DEF g
    <2> QED
      BY <2>5
  <1> HIDE DEF T
  <1>3. Cardinality(S) \in T
    BY <1>1, <1>2, Induct, SmallIsAll
  <1>4. \E it : Adds(f, Small(S, Cardinality(S)), it)
    BY <1>3 DEF T
  <1>5. Small(S, Cardinality(S)) = SUBSET S
    BY SmallIsAll
  <1> QED
    BY <1>4, <1>5

LEMMA TotalAdds ==
    ASSUME NEW f, IsFiniteSet(DOMAIN f)
    PROVE  \E it : Adds(f, SUBSET DOMAIN f, it) /\ Total(f) = it[DOMAIN f]
  <1> DEFINE c == CHOOSE it : Adds(f, SUBSET DOMAIN f, it)
  <1>1. Total(f) = c[DOMAIN f]
    BY DEF Total, FoldSeq, FoldFunction, FoldFunctionOnSet, MapThenFoldSet, Adds, Taken
  <1>2. Adds(f, SUBSET DOMAIN f, c)
    BY AddsExist
  <1> QED
    BY <1>1, <1>2

(* The sum follows a change of one cell, and that of zeros is zero.           *)
Grown(it, jt, S, i, d) ==
  \A s \in S : it[s] \in Int /\ jt[s] = it[s] + (IF i \in s THEN d ELSE 0)

LEMMA AddsGrow ==
    ASSUME NEW S, IsFiniteSet(S), NEW f, NEW g, NEW it, NEW jt, NEW i, NEW d \in Int,
           \A x \in S : f[x] \in Int /\ g[x] = f[x] + (IF x = i THEN d ELSE 0),
           Adds(f, SUBSET S, it), Adds(g, SUBSET S, jt)
    PROVE  Grown(it, jt, SUBSET S, i, d)
  <1> DEFINE T == {n \in Nat : Grown(it, jt, Small(S, n), i, d)}
  <1>1. it[{}] = 0 /\ jt[{}] = 0
    BY DEF Adds
  <1>2. 0 \in T
    <2>1. Small(S, 0) = {{}} /\ 0 \in Nat
      BY SmallIsAll
    <2>2. i \notin {}
      OBVIOUS
    <2> QED
      BY <1>1, <2>1, <2>2 DEF Grown
  <1>3. ASSUME NEW n \in Nat, n \in T PROVE n + 1 \in T
    <2> SUFFICES ASSUME NEW s \in Small(S, n + 1)
                 PROVE  it[s] \in Int /\ jt[s] = it[s] + (IF i \in s THEN d ELSE 0)
      BY DEF Grown
    <2>1. CASE s = {}
      BY <1>1, <2>1
    <2>2. CASE s # {}
      <3> DEFINE x == Taken(s)
                 r == s \ {Taken(s)}
      <3>1. x \in s /\ x \in S /\ r \in Small(S, n)
        BY <2>2, OneLess
      <3>2. s \in SUBSET S
        BY DEF Small
      <3>3. it[s] = f[x] + it[r] /\ jt[s] = g[x] + jt[r]
        BY <2>2, <3>2 DEF Adds
      <3>4. it[r] \in Int /\ jt[r] = it[r] + (IF i \in r THEN d ELSE 0)
        BY <1>3, <3>1 DEF Grown
      <3>5. i \in s <=> (i \in r \/ x = i)
        BY <3>1
      <3>6. i \in r => x # i
        OBVIOUS
      <3>7. f[x] \in Int /\ g[x] = f[x] + (IF x = i THEN d ELSE 0)
        BY <3>1
      <3> HIDE DEF x, r
      <3> QED
        BY <3>3, <3>4, <3>5, <3>6, <3>7
    <2> QED
      BY <2>1, <2>2
  <1> HIDE DEF T
  <1>4. Cardinality(S) \in T
    BY <1>2, <1>3, Induct, SmallIsAll
  <1>5. Grown(it, jt, Small(S, Cardinality(S)), i, d)
    BY <1>4 DEF T
  <1>6. Small(S, Cardinality(S)) = SUBSET S
    BY SmallIsAll
  <1> QED
    BY <1>5, <1>6

LEMMA TotalType ==
    ASSUME NEW s \in Seq(Int)
    PROVE  Total(s) \in Int
  <1>1. DOMAIN s = 1..Len(s) /\ Len(s) \in Nat /\ \A x \in DOMAIN s : s[x] \in Int
    BY LenProperties
  <1>2. IsFiniteSet(DOMAIN s)
    BY <1>1, FS_Interval
  <1>3. PICK it : Adds(s, SUBSET DOMAIN s, it) /\ Total(s) = it[DOMAIN s]
    BY <1>2, TotalAdds
  <1>4. \A x \in DOMAIN s : s[x] \in Int /\ s[x] = s[x] + (IF x = 0 THEN 0 ELSE 0)
    BY <1>1
  <1>5. Grown(it, it, SUBSET DOMAIN s, 0, 0)
    BY <1>2, <1>3, <1>4, AddsGrow
  <1> QED
    BY <1>3, <1>5 DEF Grown

LEMMA TotalUpdate ==
    ASSUME NEW s \in Seq(Int), NEW i \in 1..Len(s), NEW v \in Int
    PROVE  Total([s EXCEPT ![i] = v]) = Total(s) - s[i] + v
  <1> DEFINE r == [s EXCEPT ![i] = v]
  <1>1. DOMAIN s = 1..Len(s) /\ Len(s) \in Nat /\ \A x \in DOMAIN s : s[x] \in Int
    BY LenProperties
  <1>2. IsFiniteSet(DOMAIN s) /\ i \in DOMAIN s /\ s[i] \in Int
    BY <1>1, FS_Interval
  <1>3. DOMAIN r = DOMAIN s
    OBVIOUS
  <1>4. \A x \in DOMAIN s : r[x] = s[x] + (IF x = i THEN v - s[i] ELSE 0)
    BY <1>1, <1>2
  <1> HIDE DEF r
  <1>5. PICK it : Adds(s, SUBSET DOMAIN s, it) /\ Total(s) = it[DOMAIN s]
    BY <1>2, TotalAdds
  <1>6. PICK jt : Adds(r, SUBSET DOMAIN s, jt) /\ Total(r) = jt[DOMAIN s]
    <2>1. IsFiniteSet(DOMAIN r)
      BY <1>2, <1>3
    <2> QED
      BY <1>3, <2>1, TotalAdds
  <1>7. v - s[i] \in Int
    BY <1>2
  <1>8. Grown(it, jt, SUBSET DOMAIN s, i, v - s[i])
    <2> DEFINE d == v - s[i]
    <2>1. d \in Int /\ \A x \in DOMAIN s : s[x] \in Int /\ r[x] = s[x] + (IF x = i THEN d ELSE 0)
      BY <1>1, <1>4, <1>7
    <2> HIDE DEF d
    <2>2. Grown(it, jt, SUBSET DOMAIN s, i, d)
      BY <1>2, <1>5, <1>6, <2>1, AddsGrow
    <2> QED
      BY <2>2 DEF d
  <1>9. it[DOMAIN s] \in Int /\ jt[DOMAIN s] = it[DOMAIN s] + (v - s[i])
    BY <1>2, <1>8 DEF Grown
  <1>10. Total(r) = Total(s) - s[i] + v
    BY <1>2, <1>5, <1>6, <1>9
  <1> QED
    BY <1>10 DEF r

LEMMA TotalZeros ==
    ASSUME NEW s \in Seq(Int), \A i \in 1..Len(s) : s[i] = 0
    PROVE  Total(s) = 0
  <1>1. DOMAIN s = 1..Len(s) /\ Len(s) \in Nat
    BY LenProperties
  <1>2. IsFiniteSet(DOMAIN s)
    BY <1>1, FS_Interval
  <1>3. PICK it : Adds(s, SUBSET DOMAIN s, it) /\ Total(s) = it[DOMAIN s]
    BY <1>2, TotalAdds
  <1> DEFINE T == {n \in Nat : \A u \in Small(DOMAIN s, n) : it[u] = 0}
  <1>4. it[{}] = 0
    BY <1>3 DEF Adds
  <1>5. 0 \in T
    BY <1>2, <1>4, SmallIsAll
  <1>6. ASSUME NEW n \in Nat, n \in T PROVE n + 1 \in T
    <2> SUFFICES ASSUME NEW u \in Small(DOMAIN s, n + 1) PROVE it[u] = 0
      OBVIOUS
    <2> SUFFICES ASSUME u # {} PROVE it[u] = 0
      BY <1>4
    <2>1. Taken(u) \in DOMAIN s /\ u \ {Taken(u)} \in Small(DOMAIN s, n)
      BY <1>2, OneLess
    <2>2. u \in SUBSET DOMAIN s
      BY DEF Small
    <2>3. it[u] = s[Taken(u)] + it[u \ {Taken(u)}]
      BY <1>3, <2>2 DEF Adds
    <2>4. it[u \ {Taken(u)}] = 0
      BY <1>6, <2>1
    <2>5. s[Taken(u)] = 0
      BY <1>1, <2>1
    <2> QED
      BY <2>3, <2>4, <2>5
  <1> HIDE DEF T
  <1>7. Cardinality(DOMAIN s) \in T
    BY <1>2, <1>5, <1>6, Induct, SmallIsAll
  <1>8. DOMAIN s \in Small(DOMAIN s, Cardinality(DOMAIN s))
    BY <1>2, SmallIsAll
  <1> QED
    BY <1>3, <1>7, <1>8 DEF T

-----------------------------------------------------------------------------
(* One sample more in a filter.                                               *)

LEMMA RingGrows ==
    ASSUME NEW s \in Filter, NEW log \in Nat, NEW v \in Int, v # 0, RingOf(s, log)
    PROVE  LET t == Smoothed(s, log, v)
           IN  /\ t \in Filter /\ RingOf(t, log)
               /\ Wraps(s, log) => Full(s)
               /\ Full(s) => Full(t)
  <1> DEFINE i == (IF Wraps(s, log) THEN 0 ELSE s.idx) + 1
             r == [s.cells EXCEPT ![i] = v]
             t == Smoothed(s, log, v)
  <1>1. s.cells \in Seq(Int) /\ s.idx \in Nat /\ s.sum \in Int
    BY DEF Filter
  <1>2. /\ Len(s.cells) = Realsize(log) /\ s.idx \in 0..Len(s.cells)
        /\ s.sum = Total(s.cells) /\ \A j \in 1..s.idx : s.cells[j] # 0
    BY DEF RingOf
  <1>3. Len(s.cells) \in Nat \ {0}
    BY <1>2, RealsizePositive
  <1>4. i \in 1..Len(s.cells) /\ i \in Nat
    BY <1>2, <1>3 DEF Wraps
  <1>5. r \in Seq(Int) /\ Len(r) = Len(s.cells)
        /\ \A j \in 1..Len(s.cells) : r[j] = IF j = i THEN v ELSE s.cells[j]
    BY <1>1, <1>4, LenProperties
  <1>6. s.cells[i] \in Int
    BY <1>1, <1>4, LenProperties
  <1>7. t = [idx |-> i, sum |-> (s.sum - s.cells[i]) + v, cells |-> r]
    BY DEF Smoothed
  <1>8. Total(r) = Total(s.cells) - s.cells[i] + v
    BY <1>1, <1>4, TotalUpdate
  <1>9. t \in Filter
    <2> HIDE DEF i, r, t
    <2> QED
      BY <1>1, <1>4, <1>5, <1>6, <1>7 DEF Filter
  <1>10. \A j \in 1..i : r[j] # 0
    <2> SUFFICES ASSUME NEW j \in 1..i PROVE r[j] # 0
      OBVIOUS
    <2>1. j = i \/ j \in 1..s.idx
      BY <1>1, <1>4
    <2>2. j \in 1..Len(s.cells)
      BY <1>4, <1>3
    <2> HIDE DEF i, r
    <2> QED
      BY <1>2, <1>5, <2>1, <2>2
  <1>11. Wraps(s, log) => Full(s)
    BY <1>2 DEF Wraps, Full
  <1>12. Full(s) => Full(t)
    <2> HIDE DEF i, r, t
    <2> QED
      BY <1>5, <1>7 DEF Full
  <1>13. RingOf(t, log)
    <2> HIDE DEF i, r, t
    <2>1. t.cells = r /\ t.idx = i /\ t.sum = (s.sum - s.cells[i]) + v
      BY <1>7
    <2>2. t.sum = Total(t.cells)
      BY <1>2, <1>8, <2>1
    <2>3. Len(t.cells) = Realsize(log) /\ t.idx \in 0..Len(t.cells)
      BY <1>2, <1>4, <1>5, <2>1
    <2> QED
      BY <1>10, <2>1, <2>2, <2>3 DEF RingOf
  <1> QED
    BY <1>9, <1>11, <1>12, <1>13

(* A flushed filter is an empty ring.                                         *)
LEMMA EmptyRing ==
    ASSUME NEW s \in Filter, NEW log \in Nat, Len(s.cells) = Realsize(log),
           s.idx = 0, s.sum = 0
    PROVE  LET t == [s EXCEPT !.cells = [i \in DOMAIN @ |-> 0]]
           IN  t \in Filter /\ RingOf(t, log)
  <1> DEFINE r == [i \in DOMAIN s.cells |-> 0]
             t == [s EXCEPT !.cells = [i \in DOMAIN @ |-> 0]]
  <1>1. s.cells \in Seq(Int) /\ s.idx \in Nat /\ s.sum \in Int
    BY DEF Filter
  <1>2. DOMAIN s.cells = 1..Len(s.cells) /\ Len(s.cells) \in Nat
    BY <1>1, LenProperties
  <1>3. r \in Seq(Int) /\ Len(r) = Len(s.cells) /\ \A i \in 1..Len(r) : r[i] = 0
    BY <1>2
  <1>4. t = [idx |-> s.idx, sum |-> s.sum, cells |-> r]
    <2>1. PICK q : q = r
      OBVIOUS
    <2>2. t = [s EXCEPT !.cells = q]
      BY <2>1
    <2> HIDE DEF t
    <2>3. t = [idx |-> s.idx, sum |-> s.sum, cells |-> q]
      BY <2>2 DEF Filter
    <2> QED
      BY <2>1, <2>3
  <1> HIDE DEF r, t
  <1>5. t \in Filter
    BY <1>1, <1>3, <1>4 DEF Filter
  <1>6. Total(r) = 0
    BY <1>3, TotalZeros
  <1>7. t.cells = r /\ t.idx = 0 /\ t.sum = 0
    BY <1>4
  <1>8. Len(r) \in Nat
    BY <1>2, <1>3
  <1>9. RingOf(t, log)
    BY <1>3, <1>6, <1>7, <1>8 DEF RingOf
  <1> QED
    BY <1>5, <1>9 DEF t

-----------------------------------------------------------------------------
(* The places of the channels in a sequence.                                  *)

Below(active, c) == {d \in active : d < c}

LEMMA ChannelSets ==
    ASSUME NEW active \in SUBSET Channels
    PROVE  /\ IsFiniteSet(active) /\ Cardinality(active) \in Nat
           /\ Cardinality(active) <= Cardinality(Channels)
           /\ Cardinality(Channels) \in Nat
  BY AdcAssumption, FS_Subset, FS_CardinalityType

LEMMA BelowPosition ==
    ASSUME NEW active \in SUBSET Channels, NEW c \in active
    PROVE  /\ Position(active, c) = Cardinality(Below(active, c)) + 1
           /\ Cardinality(Below(active, c)) \in Nat
           /\ Position(active, c) \in 1..Cardinality(active)
  <1>1. active \subseteq Nat /\ c \in Nat
    BY AdcAssumption
  <1>2. Below(active, c) \in SUBSET Channels
    BY DEF Below
  <1>3. IsFiniteSet(Below(active, c)) /\ Cardinality(Below(active, c)) \in Nat
    BY <1>2, ChannelSets
  <1>4. c \notin Below(active, c)
    BY <1>1 DEF Below
  <1>5. {d \in active : d <= c} = Below(active, c) \cup {c}
    <2>1. \A d \in active : d <= c <=> d < c \/ d = c
      BY <1>1
    <2> QED
      BY <2>1 DEF Below
  <1>6. Cardinality(Below(active, c) \cup {c}) = Cardinality(Below(active, c)) + 1
    BY <1>3, <1>4, FS_AddElement
  <1>7. Position(active, c) = Cardinality(Below(active, c)) + 1
    BY <1>5, <1>6 DEF Position
  <1>8. (Below(active, c) \cup {c}) \in SUBSET active
    BY DEF Below
  <1>9. Cardinality(Below(active, c) \cup {c}) <= Cardinality(active)
    BY <1>8, ChannelSets, FS_Subset
  <1>10. Cardinality(active) \in Nat
    BY ChannelSets
  <1> QED
    BY <1>3, <1>6, <1>7, <1>9, <1>10

LEMMA PositionsDiffer ==
    ASSUME NEW active \in SUBSET Channels, NEW c \in active, NEW e \in active, c < e
    PROVE  Position(active, c) < Position(active, e)
  <1>1. active \subseteq Nat
    BY AdcAssumption
  <1>2. Below(active, c) \in SUBSET Below(active, e)
    <2>1. \A d \in active : d < c => d < e
      BY <1>1
    <2> QED
      BY <2>1 DEF Below
  <1>3. c \in Below(active, e) /\ c \notin Below(active, c)
    BY <1>1 DEF Below
  <1>4. IsFiniteSet(Below(active, e))
    <2>1. Below(active, e) \in SUBSET Channels
      BY DEF Below
    <2> QED
      BY <2>1, ChannelSets
  <1>5. Cardinality(Below(active, c)) <= Cardinality(Below(active, e))
        /\ Cardinality(Below(active, c)) # Cardinality(Below(active, e))
    BY <1>2, <1>3, <1>4, FS_Subset
  <1> QED
    BY <1>5, BelowPosition

LEMMA PositionsOnto ==
    ASSUME NEW active \in SUBSET Channels, NEW i \in 1..Cardinality(active)
    PROVE  \E c \in active : Position(active, c) = i
  <1> DEFINE f == [c \in active |-> Position(active, c)]
             T == 1..Cardinality(active)
  <1>1. f \in [active -> T]
    BY BelowPosition
  <1>2. \A c, e \in active : f[c] = f[e] => c = e
    <2> SUFFICES ASSUME NEW c \in active, NEW e \in active, f[c] = f[e], c # e PROVE FALSE
      OBVIOUS
    <2>1. c < e \/ e < c
      BY AdcAssumption
    <2>2. Position(active, c) \in Nat /\ Position(active, e) \in Nat
      BY BelowPosition
    <2> QED
      BY <2>1, <2>2, PositionsDiffer
  <1>3. IsFiniteSet(T) /\ Cardinality(T) = Cardinality(active)
    BY ChannelSets, FS_Interval
  <1> HIDE DEF f, T
  <1>4. f \in Injection(active, T)
    BY <1>1, <1>2 DEF Injection, IsInjective
  <1>5. f \in Surjection(active, T)
    BY <1>3, <1>4, FS_Injection
  <1>6. \E c \in active : f[c] = i
    BY <1>5 DEF Surjection, T
  <1> QED
    BY <1>6 DEF f

(* The sequence holds the active channels, each in its place.                 *)
LEMMA ProgrammedIs ==
    ASSUME NEW active \in SUBSET Channels
    PROVE  LET s == Programmed(active)
           IN  /\ s \in Seq(Channels) /\ Len(s) = Cardinality(active)
               /\ Range(s) = active
               /\ \A c \in active : s[Position(active, c)] = c
  <1> DEFINE s == Programmed(active)
             At1(i) == CHOOSE c \in active : Cardinality(Below(active, c)) = i - 1
  <1>1. Cardinality(active) \in Nat
    BY ChannelSets
  <1>2. s = [i \in 1..Cardinality(active) |-> At1(i)]
    BY DEF Programmed, Below
  <1>3. ASSUME NEW i \in 1..Cardinality(active)
        PROVE  s[i] \in active /\ Position(active, s[i]) = i
    <2>1. PICK c \in active : Position(active, c) = i
      BY PositionsOnto
    <2>2. Cardinality(Below(active, c)) = i - 1
      BY <2>1, BelowPosition
    <2>3. At1(i) \in active /\ Cardinality(Below(active, At1(i))) = i - 1
      BY <2>2
    <2>4. s[i] = At1(i)
      BY <1>2
    <2> HIDE DEF s, At1
    <2>5. Position(active, s[i]) = (i - 1) + 1
      BY <2>3, <2>4, BelowPosition
    <2> QED
      BY <2>3, <2>4, <2>5
  <1> HIDE DEF s
  <1>4. DOMAIN s = 1..Cardinality(active)
    BY <1>2
  <1>5. s \in Seq(Channels) /\ Len(s) = Cardinality(active)
    <2>1. s \in [1..Cardinality(active) -> Channels]
      BY <1>2, <1>3
    <2> QED
      BY <1>1, <2>1
  <1>6. ASSUME NEW c \in active PROVE s[Position(active, c)] = c
    <2>1. Position(active, c) \in 1..Cardinality(active)
      BY BelowPosition
    <2>2. PICK e : e = s[Position(active, c)]
      OBVIOUS
    <2>3. e \in active /\ Position(active, e) = Position(active, c)
      BY <1>3, <2>1, <2>2
    <2>4. ~(c < e) /\ ~(e < c)
      BY <2>1, <2>3, PositionsDiffer
    <2>5. c = e
      BY <2>3, <2>4, AdcAssumption
    <2> QED
      BY <2>2, <2>5
  <1>7. Range(s) = active
    <2>1. Range(s) \subseteq active
      BY <1>3, <1>4 DEF Range
    <2>2. ASSUME NEW c \in active PROVE c \in Range(s)
      BY <1>4, <1>6, BelowPosition DEF Range
    <2> QED
      BY <2>1, <2>2
  <1> QED
    BY <1>5, <1>6, <1>7 DEF s

-----------------------------------------------------------------------------
(* What waits in a buffer.                                                    *)

LEMMA RangeWithin ==
    ASSUME NEW e \in Seq(Int), NEW S
    PROVE  Within(e, S) => Range(e) \subseteq S
  <1>1. DOMAIN e = 1..Len(e)
    BY LenProperties
  <1> QED
    BY <1>1 DEF Range, Within

LEMMA FirstReplaced ==
    ASSUME NEW e \in Seq(Int), NEW v \in Int, NEW S, v \in S
    PROVE  LET x == [e EXCEPT ![1] = v]
           IN  x \in Seq(Int) /\ Len(x) = Len(e) /\ (Within(e, S) => Within(x, S))
  <1> DEFINE x == [e EXCEPT ![1] = v]
  <1>1. Len(e) \in Nat /\ DOMAIN e = 1..Len(e) /\ \A i \in 1..Len(e) : e[i] \in Int
    BY LenProperties
  <1>2. DOMAIN x = 1..Len(e)
    BY <1>1
  <1>3. \A i \in 1..Len(e) : x[i] = IF i = 1 THEN v ELSE e[i]
    BY <1>1
  <1>4. x = [i \in 1..Len(e) |-> x[i]]
    BY <1>2
  <1> HIDE DEF x
  <1>5. x \in [1..Len(e) -> Int]
    BY <1>1, <1>3, <1>4
  <1>6. x \in Seq(Int) /\ Len(x) = Len(e)
    BY <1>1, <1>5
  <1> QED
    BY <1>3, <1>6 DEF Within, x

LEMMA Written ==
    ASSUME NEW b \in Ring, NEW v \in Int, NEW S, v \in S
    PROVE  LET w == BufWrite(b, v)
           IN  /\ w \in Ring /\ (w = b \/ Len(w.elems) <= w.size + 1)
               /\ Within(b.elems, S) => Within(w.elems, S)
  <1> DEFINE e == b.elems
             o == IF Len(e) = b.size THEN [e EXCEPT ![1] = v] ELSE e
             w == BufWrite(b, v)
  <1>1. e \in Seq(Int) /\ b.size \in Nat /\ Len(e) \in Nat
    BY LenProperties DEF Ring
  <1>2. CASE NoBuffer(b) \/ Len(e) > b.size
    BY <1>1, <1>2 DEF BufWrite, Ring
  <1>3. CASE ~(NoBuffer(b) \/ Len(e) > b.size)
    <2>1. o \in Seq(Int) /\ Len(o) = Len(e) /\ (Within(e, S) => Within(o, S))
      <3>1. CASE Len(e) = b.size
        <4> DEFINE x == [e EXCEPT ![1] = v]
        <4>1. x \in Seq(Int) /\ Len(x) = Len(e) /\ (Within(e, S) => Within(x, S))
          BY <1>1, FirstReplaced
        <4> QED
          BY <3>1, <4>1
      <3>2. CASE Len(e) # b.size
        BY <1>1, <3>2
      <3> QED
        BY <3>1, <3>2
    <2>2. w = [b EXCEPT !.elems = Append(o, v)]
      BY <1>1, <1>3 DEF BufWrite
    <2> HIDE DEF o, w
    <2>3. Append(o, v) \in Seq(Int) /\ Len(Append(o, v)) = Len(e) + 1
      BY <2>1, AppendProperties
    <2>4. Within(o, S) => Within(Append(o, v), S)
      BY <1>1, <2>1, AppendProperties DEF Within
    <2>5. w \in Ring /\ w.size = b.size /\ w.elems = Append(o, v)
      BY <1>1, <2>2, <2>3 DEF Ring
    <2> QED
      BY <1>1, <1>3, <2>1, <2>3, <2>4, <2>5 DEF w
  <1> QED
    BY <1>1, <1>2, <1>3

-----------------------------------------------------------------------------
(* The sequencer is programmed, if the channels have changed.                 *)

LEMMA Programming ==
    ASSUME TypeOK, InPlace, NEW active \in SUBSET Channels,
           NEW bits \in [Channels -> Flag], UpdateSequence(active, bits)
    PROVE  /\ flags' \in [Channels -> Flag] /\ seq' \in Seq(Channels)
           /\ value_ptr' \in [Channels -> 0..Cardinality(Channels)]
           /\ last_ch_active' = active /\ InPlace'
           /\ \A c \in Channels :
                /\ flags'[c].smooth_ready = bits[c].smooth_ready
                /\ flags'[c].value_fresh => bits[c].value_fresh
                /\ value_ptr[c] # 0 => value_ptr'[c] # 0
  <1>1. /\ value_ptr \in [Channels -> 0..Cardinality(Channels)]
        /\ seq \in Seq(Channels) /\ flags \in [Channels -> Flag]
    BY DEF TypeOK
  <1>2. CASE active = last_ch_active
    <2>1. flags' = bits /\ UNCHANGED <<seq, value_ptr, last_ch_active>>
      BY <1>2 DEF UpdateSequence, Changes
    <2> QED
      BY <1>1, <1>2, <2>1 DEF InPlace
  <1>3. CASE active # last_ch_active
    <2>1. /\ seq' = Programmed(active)
          /\ value_ptr' = [c \in Channels |-> IF c \in active THEN Position(active, c)
                                              ELSE value_ptr[c]]
          /\ flags' = [c \in Channels |-> IF c \in active
                         THEN [bits[c] EXCEPT !.value_fresh = FALSE] ELSE bits[c]]
          /\ last_ch_active' = active
      BY <1>3 DEF UpdateSequence, Changes
    <2>2. seq' \in Seq(Channels)
      BY <2>1, ProgrammedIs
    <2>3. \A c \in active : Position(active, c) \in 1..Cardinality(Channels)
      <3> SUFFICES ASSUME NEW c \in active
                   PROVE  Position(active, c) \in 1..Cardinality(Channels)
        OBVIOUS
      <3>1. Position(active, c) \in 1..Cardinality(active)
        BY BelowPosition
      <3> QED
        BY <3>1, ChannelSets
    <2>4. value_ptr' \in [Channels -> 0..Cardinality(Channels)]
      <3>1. Cardinality(Channels) \in Nat
        BY ChannelSets
      <3> QED
        BY <1>1, <2>1, <2>3, <3>1
    <2>5. \A c \in Channels : value_ptr[c] # 0 => value_ptr'[c] # 0
      BY <2>1, <2>3
    <2>6. ASSUME NEW c \in Channels
          PROVE  /\ flags'[c] \in Flag
                 /\ flags'[c].smooth_ready = bits[c].smooth_ready
                 /\ flags'[c].value_fresh => bits[c].value_fresh
      <3>1. PICK b \in Flag : b = bits[c]
        OBVIOUS
      <3>2. flags'[c] = IF c \in active THEN [b EXCEPT !.value_fresh = FALSE] ELSE b
        BY <2>1, <3>1
      <3>3. flags'[c] \in Flag /\ flags'[c].smooth_ready = b.smooth_ready
            /\ (flags'[c].value_fresh => b.value_fresh)
        BY <3>2 DEF Flag
      <3> QED
        BY <3>1, <3>3
    <2>7. flags' \in [Channels -> Flag]
      BY <2>1, <2>6
    <2>8. InPlace'
      BY <2>1 DEF InPlace
    <2> QED
      BY <2>1, <2>2, <2>4, <2>5, <2>6, <2>7, <2>8
  <1> QED
    BY <1>2, <1>3

-----------------------------------------------------------------------------
(* The interrupt handler.                                                     *)

LEMMA IsrFlagsAre ==
    ASSUME TypeOK, NEW c \in Channels
    PROVE  /\ IsrFlags(c) \in Flag
           /\ IsrFlags(c).smooth_ready =
                (flags[c].smooth_ready
                   \/ (WarmsUp(c) /\ Wraps(smooth[c], logsmoothlen[c])))
  <1>1. PICK f \in Flag : f = flags[c]
    BY DEF TypeOK
  <1>2. PICK w \in BOOLEAN : w = Wraps(smooth[c], logsmoothlen[c])
    BY DEF Wraps
  <1>3. PICK q \in BOOLEAN : q = (~(reqsamples[c] > 1))
    OBVIOUS
  <1>4. IsrFlags(c) =
          IF WarmsUp(c) THEN [f EXCEPT !.value_fresh = FALSE, !.smooth_ready = @ \/ w]
          ELSE [f EXCEPT !.value_fresh = q]
    BY <1>1, <1>2, <1>3 DEF IsrFlags
  <1>5. CASE WarmsUp(c)
    BY <1>1, <1>2, <1>4, <1>5 DEF Flag
  <1>6. CASE ~WarmsUp(c)
    BY <1>1, <1>2, <1>4, <1>6 DEF Flag
  <1> QED
    BY <1>5, <1>6

LEMMA IsrChanges ==
    ASSUME TypeOK, InPlace, Isr
    PROVE  /\ Range(seq) = last_ch_active
           /\ flags' \in [Channels -> Flag] /\ seq' \in Seq(Channels)
           /\ value_ptr' \in [Channels -> 0..Cardinality(Channels)]
           /\ last_ch_active' \subseteq Channels /\ ch_active' \subseteq Channels
           /\ InPlace'
           /\ \A c \in Channels :
                /\ flags'[c].smooth_ready =
                     (flags[c].smooth_ready
                        \/ (/\ c \in last_ch_active /\ WarmsUp(c)
                            /\ Wraps(smooth[c], logsmoothlen[c])))
                /\ flags'[c].value_fresh => flags[c].value_fresh \/ c \in last_ch_active
                /\ value_ptr[c] # 0 => value_ptr'[c] # 0
  <1> DEFINE converted == Range(seq)
             stopped == {c \in converted : Satisfied(c)}
             active == ch_active \ stopped
             bits == [c \in Channels |->
                 CASE c \in stopped -> [IsrFlags(c) EXCEPT !.op_pending = FALSE]
                   [] c \in converted \ stopped -> IsrFlags(c)
                   [] OTHER -> flags[c]]
  <1>1. last_ch_active \in SUBSET Channels /\ ch_active \in SUBSET Channels
        /\ flags \in [Channels -> Flag]
    BY DEF TypeOK
  <1>2. Range(seq) = last_ch_active
    BY <1>1, ProgrammedIs DEF InPlace
  <1>3. ASSUME NEW c \in Channels
        PROVE  /\ bits[c] \in Flag
               /\ bits[c].smooth_ready =
                     (flags[c].smooth_ready
                        \/ (/\ c \in last_ch_active /\ WarmsUp(c)
                            /\ Wraps(smooth[c], logsmoothlen[c])))
               /\ bits[c].value_fresh => flags[c].value_fresh \/ c \in last_ch_active
    <2>1. PICK f \in Flag : f = IsrFlags(c)
      BY IsrFlagsAre
    <2>2. f.smooth_ready = (flags[c].smooth_ready
                   \/ (WarmsUp(c) /\ Wraps(smooth[c], logsmoothlen[c])))
      BY <2>1, IsrFlagsAre
    <2>3. bits[c] = CASE c \in stopped -> [f EXCEPT !.op_pending = FALSE]
                      [] c \in converted \ stopped -> f
                      [] OTHER -> flags[c]
      BY <2>1
    <2> HIDE DEF bits
    <2>4. CASE c \in stopped
      <3>1. bits[c] = [f EXCEPT !.op_pending = FALSE] /\ c \in last_ch_active
        BY <1>2, <2>3, <2>4
      <3>2. bits[c] \in Flag /\ bits[c].smooth_ready = f.smooth_ready
        BY <3>1 DEF Flag
      <3> QED
        BY <2>2, <3>1, <3>2
    <2>5. CASE c \in converted \ stopped
      <3>1. bits[c] = f /\ c \in last_ch_active
        BY <1>2, <2>3, <2>5
      <3> QED
        BY <2>2, <3>1
    <2>6. CASE c \notin converted
      <3>1. bits[c] = flags[c] /\ c \notin last_ch_active
        BY <1>2, <2>3, <2>6
      <3>2. PICK b : b = flags[c].smooth_ready
        OBVIOUS
      <3>3. b \in BOOLEAN
        BY <1>1, <3>2 DEF Flag
      <3> QED
        BY <1>1, <3>1, <3>2, <3>3
    <2> QED
      BY <2>4, <2>5, <2>6
  <1>4. bits \in [Channels -> Flag]
    BY <1>3
  <1>5. active \in SUBSET Channels
    BY <1>1
  <1>6. /\ ch_active' = active
        /\ IF running' THEN UpdateSequence(active, bits)
           ELSE flags' = bits /\ UNCHANGED <<seq, value_ptr, last_ch_active>>
    BY DEF Isr
  <1> HIDE DEF bits, active
  <1>7. CASE running'
    <2>1. UpdateSequence(active, bits)
      BY <1>6, <1>7
    <2>2. /\ flags' \in [Channels -> Flag] /\ seq' \in Seq(Channels)
          /\ value_ptr' \in [Channels -> 0..Cardinality(Channels)]
          /\ last_ch_active' = active /\ InPlace'
          /\ \A c \in Channels :
               /\ flags'[c].smooth_ready = bits[c].smooth_ready
               /\ flags'[c].value_fresh => bits[c].value_fresh
               /\ value_ptr[c] # 0 => value_ptr'[c] # 0
      BY <1>4, <1>5, <2>1, Programming
    <2> QED
      BY <1>2, <1>3, <1>5, <1>6, <2>2
  <1>8. CASE ~running'
    <2>1. flags' = bits /\ UNCHANGED <<seq, value_ptr, last_ch_active>>
      BY <1>6, <1>8
    <2>2. InPlace'
      BY <2>1 DEF InPlace
    <2>3. /\ seq \in Seq(Channels)
          /\ value_ptr \in [Channels -> 0..Cardinality(Channels)]
      BY DEF TypeOK
    <2> QED
      BY <1>1, <1>2, <1>3, <1>4, <1>5, <1>6, <2>1, <2>2, <2>3
  <1> QED
    BY <1>7, <1>8

(* What the handler reads for a channel of the sequence was converted on it.  *)
LEMMA IsrReads ==
    ASSUME TypeOK, InPlace, Converted, Isr, NEW c \in last_ch_active
    PROVE  /\ c \in Channels /\ Value(c) = Volt[c] /\ Value(c) \in Int /\ Value(c) # 0
           /\ value_ptr[c] # 0
  <1>1. c \in Channels /\ last_ch_active \in SUBSET Channels
    BY DEF TypeOK
  <1>2. irq
    BY DEF Isr
  <1>3. Value(c) = Volt[c]
    BY <1>2 DEF Converted
  <1>4. value_ptr[c] # 0
    BY <1>1, BelowPosition DEF InPlace
  <1> QED
    BY <1>1, <1>3, <1>4, AdcAssumption

-----------------------------------------------------------------------------
(* Steps that leave parts of the state alone.                                 *)

LEMMA StillInPlace ==
    ASSUME InPlace, Converted, NoZero, irq' => irq,
           UNCHANGED <<seq, last_ch_active, value_ptr, sample_buf>>
    PROVE  InPlace' /\ Converted' /\ NoZero'
  BY DEF InPlace, Converted, NoZero, Value

LEMMA StillPlaced ==
    ASSUME Placed, UNCHANGED <<flags, value_ptr>>
    PROVE  Placed'
  BY DEF Placed

LEMMA StillOwn ==
    ASSUME Own, UNCHANGED <<buf, torn>>
    PROVE  Own'
  BY DEF Own, Sources

(* Outside of buf_set no buffer holds more than its size and one element.     *)
LEMMA Fits ==
    ASSUME IInv, main.pc # "resize"
    PROVE  \A c \in Channels : Len(buf[c].elems) <= buf[c].size + 1
  BY DEF IInv, TypeOK, Resized, At

LEMMA StillRings ==
    ASSUME FilterKnows, UNCHANGED <<flags, logsmoothlen, smooth, raced>>,
           \A c \in Channels : Resizing(c) => Resizing(c)'
    PROVE  FilterKnows'
  <1> SUFFICES ASSUME NEW c \in Channels,
                      logsmoothlen'[c] > 0 /\ c \notin raced' /\ ~Resizing(c)'
               PROVE  Rings(c)'
    BY DEF FilterKnows
  <1>1. Rings(c)
    BY DEF FilterKnows
  <1> QED
    BY <1>1 DEF Rings

LEMMA SameMain ==
    ASSUME MainKnows,
           UNCHANGED <<flags, logsmoothlen, value_ptr, smooth, main, raced>>
    PROVE  MainKnows'
  <1>1. Ch' = Ch
    BY DEF Ch
  <1>2. Flushed(Ch)' <=> Flushed(Ch)
    BY <1>1 DEF Flushed
  <1>3. Storing' <=> Storing
    BY <1>1, <1>2 DEF Storing
  <1>4. Asking' <=> Asking
    BY DEF Asking, At
  <1> QED
    BY <1>1, <1>2, <1>3, <1>4 DEF MainKnows, At

LEMMA Calm ==
    ASSUME IInv, TypeOK', MainKnows', Own', irq' => irq,
           UNCHANGED <<flags, logsmoothlen, value_ptr, smooth, seq, last_ch_active,
                       sample_buf, raced>>,
           \A c \in Channels : Resizing(c) => Resizing(c)'
    PROVE  IInv'
  BY StillInPlace, StillPlaced, StillRings DEF IInv

LEMMA OnlyMain ==
    ASSUME IInv, UNCHANGED <<channel, device, hardware, raced, torn>>,
           main' \in Locals, calls' \in 0..MaxCalls, stalled' \in BOOLEAN, MainKnows',
           main.pc # "resize" \/ main' = main,
           \A c \in Channels : Resizing(c) => Resizing(c)'
    PROVE  IInv'
  <1>1. \A c \in Channels : Len(buf[c].elems) <= buf[c].size + 1 \/ Resized(c)'
    <2>1. CASE main.pc # "resize"
      BY <2>1, Fits
    <2>2. CASE main' = main
      BY <2>2 DEF IInv, TypeOK, Resized, At, Ch
    <2> QED
      BY <2>1, <2>2
  <1>2. TypeOK'
    BY <1>1 DEF IInv, TypeOK, channel, device, hardware
  <1>3. Own'
    BY StillOwn DEF IInv, channel
  <1>4. irq' => irq
    BY DEF hardware
  <1> QED
    BY <1>2, <1>3, <1>4, Calm DEF channel, device, hardware

Quiet == main.pc \notin {"realloc", "flush", "zero"} /\ ~(At("store") /\ main.then = "zero")

LEMMA QuietStays ==
    ASSUME Quiet
    PROVE  \A c \in Channels : Resizing(c) => Resizing(c)'
  BY DEF Quiet, Resizing, At

-----------------------------------------------------------------------------
(* The calls of the program.                                                  *)

(* The locals stay in type when the bits of a channel are read, and again when *)
(* they have been written: with the channel in hand, and with a new one.       *)
LEMMA FlagSteps ==
    ASSUME NEW m \in Locals, NEW p \in Places,
           NEW f \in {"", "op_pending", "blocking", "smooth_ready", "value_fresh"},
           NEW v \in BOOLEAN, NEW b \in Flag \cup {<< >>}, NEW t \in Places \cup {""}
    PROVE  [m EXCEPT !.pc = p, !.field = f, !.value = v, !.bits = b, !.then = t]
             \in Locals
  BY DEF Locals

LEMMA FlagStepsOf ==
    ASSUME NEW m \in Locals, NEW p \in Places, NEW q \in Seq(Channels),
           NEW f \in {"", "op_pending", "blocking", "smooth_ready", "value_fresh"},
           NEW v \in BOOLEAN, NEW b \in Flag \cup {<< >>}, NEW t \in Places \cup {""}
    PROVE  [m EXCEPT !.pc = p, !.todo = q, !.field = f, !.value = v, !.bits = b,
                     !.then = t] \in Locals
  BY DEF Locals

LEMMA NoLocalsFine == NoLocals \in Locals
  BY DEF NoLocals, Locals, Places

LEMMA IdleKnows ==
    ASSUME main' = NoLocals
    PROVE  MainKnows'
  BY DEF NoLocals, MainKnows, Asking, Sampling, At

LEMMA OneChannel ==
    ASSUME NEW c \in Channels
    PROVE  \E q \in Seq(Channels) : q = <<c>> /\ q # << >> /\ Head(q) = c
  <1> DEFINE q == <<c>>
  <1>1. q \in Seq(Channels) /\ Len(q) = 1 /\ Head(q) = c
    OBVIOUS
  <1>2. q # << >>
    <2>1. Len(<< >>) = 0
      OBVIOUS
    <2> HIDE DEF q
    <2> QED
      BY <1>1, <2>1
  <1> QED
    BY <1>1, <1>2

LEMMA CallKeeps ==
    ASSUME IInv, NEW op, NEW m \in Locals, Calls(op, m), MainKnows'
    PROVE  IInv'
  <1>1. op \in AllOps
    BY AdcAssumption DEF Calls
  <1>2. main' = [m EXCEPT !.op = op]
    BY DEF Calls
  <1>3. main' \in Locals
    BY <1>1, <1>2 DEF Locals
  <1>4. /\ calls < MaxCalls /\ calls' = calls + 1
        /\ UNCHANGED <<channel, device, hardware, raced, torn, stalled>>
    BY DEF Calls
  <1>5. calls' \in 0..MaxCalls /\ stalled' \in BOOLEAN
    BY <1>4, AdcAssumption DEF IInv, TypeOK
  <1>6. Quiet /\ main.pc # "resize"
    BY DEF Calls, Quiet, At
  <1> QED
    BY <1>3, <1>4, <1>5, <1>6, QuietStays, OnlyMain

LEMMA SampleKeeps ==
    ASSUME IInv, Sample
    PROVE  IInv'
  <1>1. \E chs \in Seq(Channels), log \in LogCounts :
          /\ chs # << >>
          /\ Calls("sample", [NoLocals EXCEPT !.pc = "setup", !.todo = chs, !.log = log])
    <2>1. PICK chs \in {<<c>> : c \in Channels} \cup (Channels \X Channels),
               log \in LogCounts :
            Calls("sample", [NoLocals EXCEPT !.pc = "setup", !.todo = chs, !.log = log])
      BY DEF Sample
    <2>2. chs \in Seq(Channels) /\ chs # << >>
      <3>1. CASE chs \in {<<c>> : c \in Channels}
        BY <3>1, OneChannel
      <3>2. CASE chs \in Channels \X Channels
        <4>1. PICK d \in Channels, e \in Channels : chs = <<d, e>>
          BY <3>2
        <4>2. <<d, e>> \in Seq(Channels) /\ Len(<<d, e>>) = 2 /\ Len(<< >>) = 0
          OBVIOUS
        <4> QED
          BY <4>1, <4>2
      <3> QED
        BY <3>1, <3>2
    <2> QED
      BY <2>1, <2>2
  <1>2. PICK chs \in Seq(Channels), log \in LogCounts :
          /\ chs # << >>
          /\ Calls("sample", [NoLocals EXCEPT !.pc = "setup", !.todo = chs, !.log = log])
    BY <1>1
  <1>3. PICK n \in Locals : n = NoLocals
    BY NoLocalsFine
  <1> DEFINE m == [n EXCEPT !.pc = "setup", !.todo = chs, !.log = log]
  <1>4. log \in Nat
    BY AdcAssumption
  <1>5. m \in Locals /\ m.pc = "setup" /\ m.todo = chs /\ m.log = log
    BY <1>4 DEF Locals, Places
  <1>6. Calls("sample", m)
    BY <1>2, <1>3
  <1> HIDE DEF m
  <1>7. main' = [m EXCEPT !.op = "sample"]
    BY <1>6 DEF Calls
  <1>8. main'.pc = "setup" /\ main'.todo # << >> /\ main'.log \in LogCounts
    BY <1>2, <1>5, <1>7 DEF Locals
  <1>9. MainKnows'
    BY <1>8 DEF MainKnows, Asking, Sampling, At
  <1> QED
    BY <1>5, <1>6, <1>9, CallKeeps

LEMMA GetSamplesKeeps ==
    ASSUME IInv, GetSamples
    PROVE  IInv'
  <1>1. PICK c \in Channels, k \in 1..2 :
          Calls("getsamples",
                [NoLocals EXCEPT !.pc = "wait", !.todo = <<c>>, !.left = k])
    BY DEF GetSamples
  <1>2. PICK n \in Locals : n = NoLocals
    BY NoLocalsFine
  <1>0. PICK q \in Seq(Channels) : q = <<c>> /\ q # << >> /\ Head(q) = c
    BY OneChannel
  <1> DEFINE m == [n EXCEPT !.pc = "wait", !.todo = q, !.left = k]
  <1>3. m \in Locals /\ m.pc = "wait" /\ m.todo = q
    <2>1. k \in Nat
      OBVIOUS
    <2> QED
      BY <2>1 DEF Locals, Places
  <1>4. Calls("getsamples", m)
    BY <1>1, <1>2, <1>0
  <1> HIDE DEF m
  <1>5. main' = [m EXCEPT !.op = "getsamples"]
    BY <1>4 DEF Calls
  <1>6. main'.pc = "wait" /\ main'.todo # << >> /\ main'.op = "getsamples"
    BY <1>0, <1>3, <1>5 DEF Locals
  <1>7. MainKnows'
    BY <1>6 DEF MainKnows, Asking, Sampling, At
  <1> QED
    BY <1>3, <1>4, <1>7, CallKeeps

LEMMA SetClockKeeps ==
    ASSUME IInv, SetClock
    PROVE  IInv'
  <1>1. PICK c \in Channels, timed \in BOOLEAN :
          Calls("setclock",
                [NoLocals EXCEPT !.pc = "retime", !.todo = <<c>>, !.timed = timed])
    BY DEF SetClock
  <1>2. PICK n \in Locals : n = NoLocals
    BY NoLocalsFine
  <1>0. PICK q \in Seq(Channels) : q = <<c>> /\ q # << >> /\ Head(q) = c
    BY OneChannel
  <1> DEFINE m == [n EXCEPT !.pc = "retime", !.todo = q, !.timed = timed]
  <1>3. m \in Locals /\ m.pc = "retime" /\ m.todo = q
    BY DEF Locals, Places
  <1>4. Calls("setclock", m)
    BY <1>1, <1>2, <1>0
  <1> HIDE DEF m
  <1>5. main' = [m EXCEPT !.op = "setclock"]
    BY <1>4 DEF Calls
  <1>6. main'.pc = "retime" /\ main'.todo # << >> /\ main'.op = "setclock"
    BY <1>0, <1>3, <1>5 DEF Locals
  <1>7. MainKnows'
    BY <1>6 DEF MainKnows, Asking, Sampling, At
  <1> QED
    BY <1>3, <1>4, <1>7, CallKeeps

LEMMA SetSmoothingKeeps ==
    ASSUME IInv, SetSmoothing
    PROVE  IInv'
  <1>1. PICK c \in Channels, log \in LogLengths :
          Calls("setsmoothing",
                [NoLocals EXCEPT !.pc = "smoothing", !.todo = <<c>>, !.log = log])
    BY DEF SetSmoothing
  <1>2. PICK n \in Locals : n = NoLocals
    BY NoLocalsFine
  <1>0. PICK q \in Seq(Channels) : q = <<c>> /\ q # << >> /\ Head(q) = c
    BY OneChannel
  <1> DEFINE m == [n EXCEPT !.pc = "smoothing", !.todo = q, !.log = log]
  <1>3. log \in Nat
    BY AdcAssumption
  <1>4. m \in Locals /\ m.pc = "smoothing" /\ m.todo = q /\ m.log = log
    BY <1>3 DEF Locals, Places
  <1>5. Calls("setsmoothing", m)
    BY <1>1, <1>2, <1>0
  <1> HIDE DEF m
  <1>6. main' = [m EXCEPT !.op = "setsmoothing"]
    BY <1>5 DEF Calls
  <1>7. /\ main'.pc = "smoothing" /\ main'.todo # << >> /\ main'.log \in LogLengths
        /\ main'.op = "setsmoothing"
    BY <1>0, <1>4, <1>6 DEF Locals
  <1>8. MainKnows'
    BY <1>7 DEF MainKnows, Asking, Sampling, At
  <1> QED
    BY <1>4, <1>5, <1>8, CallKeeps

LEMMA SetBlockingKeeps ==
    ASSUME IInv, SetBlocking
    PROVE  IInv'
  <1>1. PICK c \in Channels, mode \in BOOLEAN :
          Calls("setblocking",
                [NoLocals EXCEPT !.pc = "store", !.todo = <<c>>, !.field = "blocking",
                   !.value = mode, !.bits = flags[c], !.then = "idle"])
    BY DEF SetBlocking
  <1>2. PICK n \in Locals : n = NoLocals
    BY NoLocalsFine
  <1>3. PICK b \in Flag : b = flags[c]
    BY DEF IInv, TypeOK
  <1>0. PICK q \in Seq(Channels) : q = <<c>> /\ q # << >> /\ Head(q) = c
    BY OneChannel
  <1> DEFINE m == [n EXCEPT !.pc = "store", !.todo = q, !.field = "blocking",
                     !.value = mode, !.bits = b, !.then = "idle"]
  <1>4. /\ m \in Locals /\ m.pc = "store" /\ m.todo = q /\ m.field = "blocking"
        /\ m.bits = b /\ m.then = "idle"
    <2>1. /\ m.pc = "store" /\ m.todo = q /\ m.field = "blocking" /\ m.value = mode
          /\ m.bits = b /\ m.then = "idle"
      BY DEF Locals
    <2>2. "store" \in Places /\ "idle" \in Places \cup {""} /\ b \in Flag \cup {<< >>}
      BY DEF Places
    <2>3. m \in Locals
      BY <2>2, FlagStepsOf
    <2> QED
      BY <2>1, <2>3
  <1>5. Calls("setblocking", m)
    BY <1>1, <1>2, <1>0, <1>3
  <1> HIDE DEF m
  <1>6. main' = [m EXCEPT !.op = "setblocking"] /\ UNCHANGED <<flags, value_ptr>>
    BY <1>5 DEF Calls, channel
  <1>7. /\ main'.pc = "store" /\ main'.todo # << >> /\ main'.field = "blocking"
        /\ main'.bits = b /\ main'.then = "idle" /\ main'.op = "setblocking"
    BY <1>0, <1>4, <1>6 DEF Locals
  <1>8. Ch' = c
    <2>1. main'.todo = q
      BY <1>0, <1>4, <1>6 DEF Locals
    <2> QED
      BY <1>0, <2>1 DEF Ch
  <1>9. b.smooth_ready => flags'[Ch'].smooth_ready
    BY <1>3, <1>6, <1>8
  <1>10. b.value_fresh => value_ptr'[Ch'] # 0
    BY <1>3, <1>6, <1>8 DEF IInv, Placed
  <1>11. Storing'
    BY <1>7, <1>9, <1>10 DEF Storing
  <1>12. MainKnows'
    BY <1>7, <1>11 DEF MainKnows, Asking, Sampling, At
  <1> QED
    BY <1>4, <1>5, <1>12, CallKeeps

-----------------------------------------------------------------------------
(* Steps of the main program that leave the channels alone.                   *)

LEMMA Busy ==
    ASSUME IInv, main.pc # "idle"
    PROVE  main \in Locals /\ main.todo # << >> /\ Ch \in Channels
  <1>1. main \in Locals /\ main.todo # << >>
    BY DEF IInv, TypeOK, MainKnows
  <1>2. main.todo \in Seq(Channels)
    BY <1>1 DEF Locals
  <1> QED
    BY <1>1, <1>2, HeadTailProperties DEF Ch

LEMMA SampleOnly ==
    ASSUME IInv, main.pc \notin Sampling,
           ~(At("store") /\ main.then = "activate")
    PROVE  main.op # "sample"
  BY DEF IInv, MainKnows, Asking

LEMMA MainAndDevice ==
    ASSUME IInv, Quiet, main.pc # "resize", main' \in Locals, MainKnows',
           UNCHANGED <<channel, last_ch_active, seq, sample_buf, calls, raced, torn>>,
           ch_active' \in SUBSET Channels,
           running' \in BOOLEAN, clocked' \in BOOLEAN, stalled' \in BOOLEAN,
           converting' \in BOOLEAN, irq' \in BOOLEAN, nvic' \in BOOLEAN,
           trigger' \in BOOLEAN, irq' => irq
    PROVE  IInv'
  <1>1. \A c \in Channels : Len(buf[c].elems) <= buf[c].size + 1
    BY Fits
  <1>2. TypeOK'
    BY <1>1 DEF IInv, TypeOK, channel
  <1>3. Own'
    BY StillOwn DEF IInv, channel
  <1> QED
    BY <1>2, <1>3, Calm, QuietStays DEF channel

LEMMA Types ==
    ASSUME IInv
    PROVE  /\ ch_active \in SUBSET Channels /\ last_ch_active \in SUBSET Channels
           /\ running \in BOOLEAN /\ nvic \in BOOLEAN /\ stalled \in BOOLEAN
           /\ clocked \in BOOLEAN /\ trigger \in BOOLEAN
           /\ irq \in BOOLEAN /\ converting \in BOOLEAN
           /\ raced \in SUBSET Channels /\ torn \in SUBSET Channels
           /\ main \in Locals /\ calls \in 0..MaxCalls
  BY DEF IInv, TypeOK

(* A step of the main program that leaves everything but its place alone.     *)
LEMMA MainOnly ==
    ASSUME IInv, Quiet, main.pc # "resize", main' \in Locals, MainKnows',
           UNCHANGED <<channel, device, hardware, ghosts>>
    PROVE  IInv'
  BY Types, MainAndDevice DEF device, hardware, ghosts

(* The main program goes on to another place of the same call.                *)
LEMMA GoneTo ==
    ASSUME IInv, main.pc # "idle", NEW pc \in Places, Goto(pc)
    PROVE  /\ main' \in Locals /\ main'.pc = pc /\ main'.todo = main.todo
           /\ main'.log = main.log /\ main'.op = main.op /\ main'.left = main.left
           /\ main'.sample = main.sample /\ main'.todo # << >> /\ Ch' = Ch
  <1>1. main \in Locals /\ main.todo # << >>
    BY Busy
  <1>2. main' = [main EXCEPT !.pc = pc]
    BY DEF Goto
  <1>3. /\ main' \in Locals /\ main'.pc = pc /\ main'.todo = main.todo
        /\ main'.log = main.log /\ main'.op = main.op /\ main'.left = main.left
        /\ main'.sample = main.sample
    BY <1>1, <1>2 DEF Locals
  <1> QED
    BY <1>1, <1>3 DEF Ch

LEMMA LoadActiveKeeps ==
    ASSUME IInv, LoadActive
    PROVE  IInv'
  <1>1. main \in Locals /\ main.todo # << >> /\ ch_active \in SUBSET Channels
    BY Busy, Types DEF LoadActive
  <1>2. /\ main' = [main EXCEPT !.active = ch_active,
                      !.pc = IF @ = "activate" THEN "activated" ELSE "inactivated"]
        /\ main.pc \in {"activate", "inactivate"}
        /\ UNCHANGED <<channel, device, hardware, ghosts>>
    BY DEF LoadActive
  <1>3. /\ main'.pc = (IF main.pc = "activate" THEN "activated" ELSE "inactivated")
        /\ main'.todo = main.todo /\ main'.log = main.log /\ main'.op = main.op
        /\ main' \in Locals
    <2>1. PICK p \in {"activated", "inactivated"} :
            p = (IF main.pc = "activate" THEN "activated" ELSE "inactivated")
      OBVIOUS
    <2>2. main' = [main EXCEPT !.active = ch_active, !.pc = p]
      BY <1>2, <2>1
    <2>3. p \in Places
      BY <2>1 DEF Places
    <2>4. main' \in Locals /\ main'.pc = p
      BY <1>1, <2>2, <2>3 DEF Locals
    <2>5. main'.todo = main.todo /\ main'.log = main.log /\ main'.op = main.op
      BY <1>1, <2>2 DEF Locals
    <2> QED
      BY <2>1, <2>4, <2>5
  <1>4. /\ main.pc = "activate" => main.log \in LogCounts
        /\ main.pc = "inactivate" =>
             main.op # "sample" /\ (main.op = "setclock" \/ main.log \in LogLengths)
    BY SampleOnly DEF IInv, MainKnows, Asking, Sampling, At
  <1>5. MainKnows'
    BY <1>1, <1>2, <1>3, <1>4 DEF MainKnows, Asking, Sampling, At
  <1>6. Quiet /\ main.pc # "resize"
    BY <1>2 DEF Quiet, At
  <1> QED
    BY <1>2, <1>3, <1>5, <1>6, MainOnly

LEMMA ActivatedKeeps ==
    ASSUME IInv, Activated
    PROVE  IInv'
  <1>1. main \in Locals /\ main.todo # << >> /\ Ch \in Channels
    BY Busy DEF Activated, At
  <1>2. /\ ch_active' = main.active \cup {Ch} /\ main.pc = "activated"
        /\ main' = [main EXCEPT !.active = {},
                !.pc = IF Len(main.todo) > 1 THEN "setup" ELSE "start",
                !.todo = IF Len(@) > 1 THEN Tail(@) ELSE @]
        /\ UNCHANGED <<channel, last_ch_active, running, clocked, seq, hardware,
                       ghosts>>
    BY DEF Activated, At
  <1>3. main.todo \in Seq(Channels)
    BY <1>1 DEF Locals
  <1>4. PICK q \in Seq(Channels) :
          q = (IF Len(main.todo) > 1 THEN Tail(main.todo) ELSE main.todo) /\ q # << >>
    <2>1. CASE Len(main.todo) > 1
      <3>1. Tail(main.todo) \in Seq(Channels) /\ Len(Tail(main.todo)) = Len(main.todo) - 1
        BY <1>1, <1>3, HeadTailProperties
      <3>2. Len(main.todo) \in Nat
        BY <1>3, LenProperties
      <3>3. Tail(main.todo) # << >>
        <4>1. PICK t \in Seq(Channels) : t = Tail(main.todo)
          BY <3>1
        <4>2. Len(t) # 0
          BY <2>1, <3>1, <3>2, <4>1
        <4>3. t # << >>
          BY <4>2
        <4> QED
          BY <4>1, <4>3
      <3> QED
        BY <2>1, <3>1, <3>3
    <2>2. CASE ~(Len(main.todo) > 1)
      BY <1>1, <1>3, <2>2
    <2> QED
      BY <2>1, <2>2
  <1>5. PICK p \in {"setup", "start"} : p = IF Len(main.todo) > 1 THEN "setup" ELSE "start"
    OBVIOUS
  <1>6. main' = [main EXCEPT !.active = {}, !.pc = p, !.todo = q]
    BY <1>2, <1>4, <1>5
  <1>7. /\ main'.pc = p /\ main'.todo = q /\ main'.log = main.log /\ main' \in Locals
    BY <1>1, <1>6 DEF Locals, Places
  <1>8. main.log \in LogCounts
    BY <1>2 DEF IInv, MainKnows, Asking
  <1>9. MainKnows'
    BY <1>4, <1>5, <1>7, <1>8 DEF MainKnows, Asking, Sampling, At
  <1>10. Quiet /\ main.pc # "resize"
    BY <1>2 DEF Quiet, At
  <1>11. ch_active' \in SUBSET Channels
    BY <1>1, <1>2 DEF Locals
  <1> QED
    BY <1>2, <1>7, <1>9, <1>10, <1>11, Types, MainAndDevice DEF hardware, ghosts

LEMMA WaitKeeps ==
    ASSUME IInv, Wait
    PROVE  IInv'
  <1>1. main \in Locals /\ main.todo # << >> /\ Ch \in Channels
    BY Busy DEF Wait, At
  <1> DEFINE n == Available(flags[Ch], buf[Ch])
  <1>2. /\ main.pc = "wait" /\ main' = [main EXCEPT !.pc = "get", !.left = Min({@, n})]
        /\ UNCHANGED <<channel, device, hardware, ghosts>>
    BY DEF Wait, At
  <1>3. n \in Nat
    <2>1. PICK b \in Ring : b = buf[Ch]
      BY <1>1 DEF IInv, TypeOK
    <2>2. b.elems \in Seq(Int)
      BY DEF Ring
    <2> QED
      BY <2>1, <2>2, LenProperties DEF Available
  <1> HIDE DEF n
  <1>4. PICK k \in Nat : k = Min({main.left, n})
    <2>1. main.left \in Nat
      BY <1>1 DEF Locals
    <2> QED
      BY <1>3, <2>1 DEF Min
  <1>5. main' = [main EXCEPT !.pc = "get", !.left = k]
    BY <1>2, <1>4
  <1>6. /\ main'.pc = "get" /\ main'.todo = main.todo /\ main'.op = main.op
        /\ main' \in Locals
    BY <1>1, <1>5 DEF Locals, Places
  <1>9. main.op # "sample"
    BY <1>2, SampleOnly DEF Sampling, At
  <1>7. MainKnows'
    BY <1>1, <1>6, <1>9 DEF MainKnows, Asking, Sampling, At
  <1>8. Quiet /\ main.pc # "resize"
    BY <1>2 DEF Quiet, At
  <1> QED
    BY <1>2, <1>6, <1>7, <1>8, MainOnly

LEMMA GetNothingKeeps ==
    ASSUME IInv, GetNothing
    PROVE  IInv'
  <1>1. main \in Locals /\ main.todo # << >> /\ Ch \in Channels
    BY Busy DEF GetNothing, At
  <1>2. main.pc = "get" /\ UNCHANGED <<channel, device, hardware, ghosts>>
    BY DEF GetNothing, At
  <1>3. main' = NoLocals \/ (main.left # 0 /\ main' = [main EXCEPT !.left = @ - 1])
    BY DEF GetNothing, Return, Got
  <1>4. main' \in Locals /\ MainKnows'
    <2>1. CASE main' = NoLocals
      BY <2>1, NoLocalsFine, IdleKnows
    <2>2. CASE main.left # 0 /\ main' = [main EXCEPT !.left = @ - 1]
      <3>1. main.left \in Nat
        BY <1>1 DEF Locals
      <3>2. main.left - 1 \in Nat
        BY <2>2, <3>1
      <3>3. /\ main'.pc = "get" /\ main'.todo = main.todo /\ main'.op = main.op
            /\ main' \in Locals
        BY <1>1, <1>2, <2>2, <3>2 DEF Locals
      <3>4. main.op # "sample"
        BY <1>2, SampleOnly DEF Sampling, At
      <3> QED
        BY <1>1, <3>3, <3>4 DEF MainKnows, Asking, Sampling, At
    <2> QED
      BY <1>3, <2>1, <2>2
  <1>5. Quiet /\ main.pc # "resize"
    BY <1>2 DEF Quiet, At
  <1> QED
    BY <1>2, <1>4, <1>5, MainOnly

LEMMA InactivatedKeeps ==
    ASSUME IInv, Inactivated
    PROVE  IInv'
  <1>1. main \in Locals /\ main.todo # << >> /\ Ch \in Channels
    BY Busy DEF Inactivated, At
  <1>2. /\ ch_active' = main.active \ {Ch} /\ main.pc = "inactivated"
        /\ main' = [main EXCEPT !.active = {}, !.pc = "stop"]
        /\ UNCHANGED <<channel, last_ch_active, running, clocked, seq, hardware,
                       ghosts>>
    BY DEF Inactivated, At
  <1>3. /\ main'.pc = "stop" /\ main'.todo = main.todo /\ main'.log = main.log
        /\ main'.op = main.op /\ main' \in Locals
    BY <1>1, <1>2 DEF Locals, Places
  <1>4. main.op # "sample" /\ (main.op = "setclock" \/ main.log \in LogLengths)
    BY <1>2, SampleOnly DEF IInv, MainKnows, Asking, Sampling, At
  <1>5. MainKnows'
    BY <1>1, <1>3, <1>4 DEF MainKnows, Asking, Sampling, At
  <1>6. Quiet /\ main.pc # "resize"
    BY <1>2 DEF Quiet, At
  <1>7. ch_active' \in SUBSET Channels
    BY <1>1, <1>2 DEF Locals
  <1> QED
    BY <1>2, <1>3, <1>5, <1>6, <1>7, Types, MainAndDevice DEF hardware, ghosts

(* After platform_adc_stop the call returns, or the length is changed.        *)
LEMMA StoppedKnows ==
    ASSUME IInv, main.pc \in {"stop", "disable"}, Stopped
    PROVE  main' \in Locals /\ MainKnows'
  <1>1. main.op # "sample" /\ (main.op = "setclock" \/ main.log \in LogLengths)
    BY SampleOnly DEF IInv, MainKnows, Asking, Sampling, At
  <1>2. CASE main.op = "setclock"
    <2>1. Goto("reclock")
      BY <1>2 DEF Stopped
    <2>2. /\ main' \in Locals /\ main'.pc = "reclock" /\ main'.op = main.op
          /\ main'.todo # << >>
      BY <2>1, GoneTo DEF Places
    <2> QED
      BY <1>1, <2>2 DEF MainKnows, Asking, Sampling, At
  <1>3. CASE main.op # "setclock"
    <2>1. Goto("length")
      BY <1>3 DEF Stopped
    <2>2. /\ main' \in Locals /\ main'.pc = "length" /\ main'.op = main.op
          /\ main'.log = main.log /\ main'.todo # << >>
      BY <2>1, GoneTo DEF Places
    <2> QED
      BY <1>1, <1>3, <2>2 DEF MainKnows, Asking, Sampling, At
  <1> QED
    BY <1>2, <1>3

LEMMA StopKeeps ==
    ASSUME IInv, Stop
    PROVE  IInv'
  <1>1. main.pc = "stop" /\ UNCHANGED <<channel, device, hardware, ghosts>>
    BY DEF Stop, At
  <1>2. main' \in Locals /\ MainKnows'
    <2>1. CASE Goto("halt")
      <3>1. /\ main' \in Locals /\ main'.pc = "halt" /\ main'.op = main.op
            /\ main'.log = main.log /\ main'.todo # << >>
        BY <1>1, <2>1, GoneTo DEF Places
      <3>2. main.op # "sample" /\ (main.op = "setclock" \/ main.log \in LogLengths)
        BY <1>1, SampleOnly DEF IInv, MainKnows, Asking, Sampling, At
      <3> QED
        BY <3>1, <3>2 DEF MainKnows, Asking, Sampling, At
    <2>2. CASE Stopped
      BY <1>1, <2>2, StoppedKnows
    <2> QED
      BY <2>1, <2>2 DEF Stop
  <1>3. Quiet /\ main.pc # "resize"
    BY <1>1 DEF Quiet, At
  <1> QED
    BY <1>1, <1>2, <1>3, MainOnly

LEMMA UntriggerKeeps ==
    ASSUME IInv, Untrigger
    PROVE  IInv'
  <1>1. /\ main.pc = "halt" /\ trigger' = FALSE /\ Goto("disable")
        /\ UNCHANGED <<channel, device, sample_buf, converting, irq, nvic, ghosts>>
    BY DEF Untrigger, At
  <1>2. /\ main' \in Locals /\ main'.pc = "disable" /\ main'.op = main.op
        /\ main'.log = main.log /\ main'.todo # << >>
    BY <1>1, GoneTo DEF Places
  <1>3. main.op # "sample" /\ (main.op = "setclock" \/ main.log \in LogLengths)
    BY <1>1, SampleOnly DEF IInv, MainKnows, Asking, Sampling, At
  <1>4. MainKnows'
    BY <1>2, <1>3 DEF MainKnows, Asking, Sampling, At
  <1>5. Quiet /\ main.pc # "resize"
    BY <1>1 DEF Quiet, At
  <1> QED
    BY <1>1, <1>2, <1>4, <1>5, Types, MainAndDevice DEF device, ghosts

LEMMA HaltKeeps ==
    ASSUME IInv, Halt
    PROVE  IInv'
  <1>1. /\ main.pc = "disable" /\ running' = FALSE /\ nvic' = FALSE /\ Stopped
        /\ UNCHANGED <<channel, ch_active, last_ch_active, clocked, seq, sample_buf,
                 converting, irq, trigger, ghosts>>
    BY DEF Halt, At
  <1>2. main' \in Locals /\ MainKnows'
    BY <1>1, StoppedKnows
  <1>3. Quiet /\ main.pc # "resize"
    BY <1>1 DEF Quiet, At
  <1> QED
    BY <1>1, <1>2, <1>3, Types, MainAndDevice DEF ghosts

LEMMA RetimeKeeps ==
    ASSUME IInv, Retime
    PROVE  IInv'
  <1>1. /\ main.pc = "retime" /\ Goto("unpend")
        /\ UNCHANGED <<channel, ch_active, last_ch_active, clocked, seq, hardware,
                 calls, raced, torn>>
    BY DEF Retime, At
  <1>2. running' \in BOOLEAN /\ stalled' \in BOOLEAN
    BY DEF Retime
  <1>3. /\ main' \in Locals /\ main'.pc = "unpend" /\ main'.op = main.op
        /\ main'.log = main.log /\ main'.todo # << >>
    BY <1>1, GoneTo DEF Places
  <1>4. main.op # "sample" /\ (main.op = "setclock" \/ main.log \in LogLengths)
    BY <1>1, SampleOnly DEF IInv, MainKnows, Asking, Sampling, At
  <1>5. MainKnows'
    BY <1>3, <1>4 DEF MainKnows, Asking, Sampling, At
  <1>6. Quiet /\ main.pc # "resize"
    BY <1>1 DEF Quiet, At
  <1> QED
    BY <1>1, <1>2, <1>3, <1>5, <1>6, Types, MainAndDevice DEF hardware

LEMMA ReclockKeeps ==
    ASSUME IInv, Reclock
    PROVE  IInv'
  <1>1. /\ main.pc = "reclock" /\ trigger' = FALSE
        /\ main' = [main EXCEPT !.pc = "clock", !.ran = running]
        /\ stalled' = (stalled \/ (running /\ clocked))
        /\ UNCHANGED <<channel, device, sample_buf, converting, irq, nvic, calls, raced,
                 torn>>
    BY DEF Reclock, At
  <1>2. main \in Locals /\ main.todo # << >> /\ running \in BOOLEAN
    BY <1>1, Busy, Types
  <1>3. /\ main' \in Locals /\ main'.pc = "clock" /\ main'.todo = main.todo
        /\ main'.op = main.op
    BY <1>1, <1>2 DEF Locals, Places
  <1>4. main.op # "sample"
    BY <1>1, SampleOnly DEF Sampling, At
  <1>5. MainKnows'
    BY <1>2, <1>3, <1>4 DEF MainKnows, Asking, Sampling, At
  <1>6. Quiet /\ main.pc # "resize"
    BY <1>1 DEF Quiet, At
  <1>7. stalled' \in BOOLEAN
    BY <1>1
  <1> QED
    BY <1>1, <1>3, <1>5, <1>6, <1>7, Types, MainAndDevice DEF device

LEMMA ClockKeeps ==
    ASSUME IInv, Clock
    PROVE  IInv'
  <1>1. /\ main.pc = "clock" /\ clocked' = main.timed /\ running' = main.ran
        /\ stalled' = (stalled \/ (main.ran /\ ~running))
        /\ main' = NoLocals
        /\ UNCHANGED <<channel, ch_active, last_ch_active, seq, hardware, calls, raced,
                 torn>>
    BY DEF Clock, At, Return
  <1>2. clocked' \in BOOLEAN /\ running' \in BOOLEAN /\ stalled' \in BOOLEAN
    <2>1. main.timed \in BOOLEAN /\ main.ran \in BOOLEAN
      BY Types DEF Locals
    <2> QED
      BY <1>1, <2>1
  <1>3. main' \in Locals /\ MainKnows'
    BY <1>1, NoLocalsFine, IdleKnows
  <1>4. Quiet /\ main.pc # "resize"
    BY <1>1 DEF Quiet, At
  <1> QED
    BY <1>1, <1>2, <1>3, <1>4, Types, MainAndDevice DEF hardware

-----------------------------------------------------------------------------
(* The read of a channel's bits before one of them is written.                *)

LEMMA LoadKnows ==
    ASSUME IInv, main.pc # "idle",
           NEW field \in {"op_pending", "smooth_ready"}, NEW value \in BOOLEAN,
           NEW then \in {"activate", "take", "inactivate", "flush", "zero", "idle"},
           Load(field, value, then), UNCHANGED <<flags, value_ptr>>,
           field = "smooth_ready" /\ value => flags[Ch].smooth_ready,
           main.op = "sample" => then = "activate",
           then = "activate" => main.log \in LogCounts,
           then = "take" => main.left # 0,
           then = "inactivate" => main.op = "setclock" \/ main.log \in LogLengths,
           then = "flush" => logsmoothlen'[Ch] = 0,
           then = "zero" => field = "smooth_ready" /\ ~value /\ Flushed(Ch)'
    PROVE  /\ main' \in Locals /\ MainKnows'
           /\ main'.pc = "store" /\ main'.then = then /\ Ch' = Ch
           /\ main'.todo = main.todo
  <1>1. main \in Locals /\ main.todo # << >> /\ Ch \in Channels
    BY Busy
  <1>2. PICK c \in Channels : c = Ch
    BY <1>1
  <1>3. PICK b \in Flag : b = flags[c]
    BY <1>2 DEF IInv, TypeOK
  <1>4. main' = [main EXCEPT !.pc = "store", !.field = field, !.value = value,
                             !.bits = b, !.then = then]
    BY <1>2, <1>3 DEF Load
  <1>5. /\ main' \in Locals /\ main'.pc = "store" /\ main'.then = then
        /\ main'.todo = main.todo /\ main'.field = field /\ main'.value = value
        /\ main'.bits = b /\ main'.log = main.log /\ main'.op = main.op
        /\ main'.left = main.left
    <2>1. /\ main'.pc = "store" /\ main'.then = then
          /\ main'.todo = main.todo /\ main'.field = field /\ main'.value = value
          /\ main'.bits = b /\ main'.log = main.log /\ main'.op = main.op
          /\ main'.left = main.left
      BY <1>1, <1>4 DEF Locals
    <2>2. "store" \in Places /\ then \in Places \cup {""} /\ b \in Flag \cup {<< >>}
      BY DEF Places
    <2>3. main' \in Locals
      BY <1>1, <1>4, <2>2, FlagSteps
    <2> QED
      BY <2>1, <2>3
  <1>6. Ch' = c
    BY <1>2, <1>5 DEF Ch
  <1>7. b.smooth_ready => flags'[Ch'].smooth_ready
    BY <1>3, <1>6
  <1>8. b.value_fresh => value_ptr'[Ch'] # 0
    BY <1>3, <1>6 DEF IInv, Placed
  <1>9. then = "zero" => Flushed(c)'
    BY <1>2, <1>6 DEF Flushed
  <1>12. field = "smooth_ready" /\ value => flags'[Ch'].smooth_ready
    BY <1>2, <1>6
  <1>10. Storing'
    BY <1>2, <1>5, <1>6, <1>7, <1>8, <1>9, <1>12 DEF Storing
  <1>11. MainKnows'
    BY <1>1, <1>5, <1>10 DEF MainKnows, Asking, Sampling, At
  <1> QED
    BY <1>2, <1>5, <1>6, <1>11

LEMMA UnpendKeeps ==
    ASSUME IInv, Unpend
    PROVE  IInv'
  <1>1. /\ main.pc = "unpend" /\ Load("op_pending", FALSE, "inactivate")
        /\ UNCHANGED <<channel, device, hardware, ghosts>>
    BY DEF Unpend, At
  <1>2. main.op # "sample" /\ (main.op = "setclock" \/ main.log \in LogLengths)
    BY <1>1, SampleOnly DEF IInv, MainKnows, Asking, Sampling, At
  <1>3. main' \in Locals /\ MainKnows'
    <2>1. UNCHANGED <<flags, value_ptr>>
      BY <1>1 DEF channel
    <2> QED
      BY <1>1, <1>2, <2>1, LoadKnows
  <1>4. Quiet /\ main.pc # "resize"
    BY <1>1 DEF Quiet, At
  <1> QED
    BY <1>1, <1>3, <1>4, MainOnly

LEMMA PendKeeps ==
    ASSUME IInv, Pend
    PROVE  IInv'
  <1>1. /\ main.pc = "pend" /\ Load("op_pending", TRUE, "activate")
        /\ UNCHANGED <<channel, device, hardware, ghosts>>
    BY DEF Pend, At
  <1>2. main.log \in LogCounts
    BY <1>1 DEF IInv, MainKnows, Asking
  <1>3. main' \in Locals /\ MainKnows'
    <2>1. UNCHANGED <<flags, value_ptr>>
      BY <1>1 DEF channel
    <2> QED
      BY <1>1, <1>2, <2>1, LoadKnows
  <1>4. Quiet /\ main.pc # "resize"
    BY <1>1 DEF Quiet, At
  <1> QED
    BY <1>1, <1>3, <1>4, MainOnly

LEMMA StopFirstKeeps ==
    ASSUME IInv, StopFirst
    PROVE  IInv'
  <1>1. main.pc = "smoothing" /\ UNCHANGED <<channel, device, hardware, ghosts>>
    BY DEF StopFirst, At
  <1>2. PICK p \in {"unpend", "length"} : Goto(p)
    BY DEF StopFirst
  <1>3. /\ main' \in Locals /\ main'.pc = p /\ main'.op = main.op
        /\ main'.log = main.log /\ main'.todo # << >>
    BY <1>1, <1>2, GoneTo DEF Places
  <1>4. main.op # "sample" /\ main.log \in LogLengths
    BY <1>1, SampleOnly DEF IInv, MainKnows, Asking, Sampling, At
  <1>5. MainKnows'
    BY <1>3, <1>4 DEF MainKnows, Asking, Sampling, At
  <1>6. Quiet /\ main.pc # "resize"
    BY <1>1 DEF Quiet, At
  <1> QED
    BY <1>1, <1>3, <1>5, <1>6, MainOnly

LEMMA GetFreshKeeps ==
    ASSUME IInv, GetFresh
    PROVE  IInv'
  <1>1. main \in Locals /\ main.todo # << >> /\ Ch \in Channels
    BY Busy DEF GetFresh, At
  <1>2. PICK c \in Channels : c = Ch
    BY <1>1
  <1>3. PICK b \in Flag : b = flags[c]
    BY DEF IInv, TypeOK
  <1>4. /\ main.pc = "take" /\ b.value_fresh
        /\ main' = [main EXCEPT !.pc = "store", !.field = "value_fresh",
                !.value = FALSE, !.bits = b, !.then = "count", !.sample = Value(c)]
        /\ UNCHANGED <<channel, device, hardware, ghosts>>
    BY <1>2, <1>3 DEF GetFresh, At
  <1>5. value_ptr[c] \in 1..Cardinality(Channels)
    <2>1. value_ptr[c] \in 0..Cardinality(Channels)
      BY DEF IInv, TypeOK
    <2>2. value_ptr[c] # 0
      BY <1>3, <1>4 DEF IInv, Placed
    <2> QED
      BY <2>1, <2>2, ChannelSets
  <1>6. PICK v \in Int : v = Value(c) /\ v # 0
    BY <1>5 DEF IInv, TypeOK, NoZero, Value
  <1>7. main' = [main EXCEPT !.pc = "store", !.field = "value_fresh",
                !.value = FALSE, !.bits = b, !.then = "count", !.sample = v]
    BY <1>4, <1>6
  <1>8. /\ main' \in Locals /\ main'.pc = "store" /\ main'.then = "count"
        /\ main'.todo = main.todo /\ main'.field = "value_fresh" /\ main'.value = FALSE
        /\ main'.bits = b /\ main'.sample = v /\ main'.left = main.left
        /\ main'.op = main.op
    BY <1>1, <1>7 DEF Locals, Places
  <1>16. main.left # 0 /\ main.op # "sample"
    BY <1>4, SampleOnly DEF IInv, MainKnows, Sampling, At
  <1>9. Ch' = c
    BY <1>2, <1>8 DEF Ch
  <1>10. UNCHANGED <<flags, value_ptr>>
    BY <1>4 DEF channel
  <1>11. b.smooth_ready => flags'[Ch'].smooth_ready
    BY <1>3, <1>9, <1>10
  <1>12. value_ptr'[Ch'] # 0
    BY <1>5, <1>9, <1>10
  <1>13. Storing'
    BY <1>4, <1>6, <1>8, <1>11, <1>12, <1>16 DEF Storing
  <1>14. MainKnows'
    BY <1>1, <1>8, <1>13, <1>16 DEF MainKnows, Asking, Sampling, At
  <1>15. Quiet /\ main.pc # "resize"
    BY <1>4 DEF Quiet, At
  <1> QED
    BY <1>4, <1>8, <1>14, <1>15, MainOnly

-----------------------------------------------------------------------------
(* Steps of the main program that change its channel.                         *)

LEMMA NoElements ==
    ASSUME NEW n \in Nat, NEW S
    PROVE  LET e == [size |-> n, elems |-> << >>]
           IN  /\ e \in Ring /\ e.size = n /\ e.elems = << >>
               /\ Len(e.elems) <= e.size + 1 /\ Within(e.elems, S)
  <1>1. PICK none : none = << >> /\ none \in Seq(Int) /\ Len(none) = 0
    <2>1. << >> \in Seq(Int) /\ Len(<< >>) = 0
      OBVIOUS
    <2> QED
      BY <2>1
  <1>2. PICK e : e = [size |-> n, elems |-> none]
    OBVIOUS
  <1>3. e \in Ring /\ e.size = n /\ e.elems = none
    BY <1>1, <1>2 DEF Ring
  <1>4. Len(e.elems) <= e.size + 1 /\ Within(e.elems, S)
    BY <1>1, <1>3 DEF Within
  <1> QED
    BY <1>1, <1>2, <1>3, <1>4

(* The buffer of the main program's channel changes.                          *)
LEMMA BufferChanges ==
    ASSUME IInv, Quiet, NEW c \in Channels, c = Ch, NEW e \in Ring,
           buf' = [buf EXCEPT ![c] = e],
           Within(e.elems, Sources(c)'), Len(e.elems) <= e.size + 1 \/ Resized(c)',
           torn' \in SUBSET Channels, \A d \in Channels \ {c} : d \in torn' <=> d \in torn,
           main' \in Locals, MainKnows', stalled' \in BOOLEAN,
           UNCHANGED <<flags, reqsamples, logsmoothlen, value_ptr, smooth, device,
                       hardware, calls, raced>>
    PROVE  IInv'
  <1>1. /\ buf \in [Channels -> Ring]
        /\ \A d \in Channels : Len(buf[d].elems) <= buf[d].size + 1 \/ Resized(d)
    BY DEF IInv, TypeOK
  <1>2. /\ buf' \in [Channels -> Ring] /\ buf'[c] = e
        /\ \A d \in Channels \ {c} : buf'[d] = buf[d]
    BY <1>1
  <1>3. \A d \in Channels : Len(buf'[d].elems) <= buf'[d].size + 1 \/ Resized(d)'
    <2> SUFFICES ASSUME NEW d \in Channels
                 PROVE  Len(buf'[d].elems) <= buf'[d].size + 1 \/ Resized(d)'
      OBVIOUS
    <2>1. CASE d = c
      BY <1>2, <2>1
    <2>2. CASE d # c
      <3>1. ~Resized(d)
        BY <2>2 DEF Resized
      <3> QED
        BY <1>1, <1>2, <2>2, <3>1
    <2> QED
      BY <2>1, <2>2
  <1>4. Own'
    <2> SUFFICES ASSUME NEW d \in Channels PROVE Within(buf'[d].elems, Sources(d)')
      BY DEF Own
    <2>1. CASE d = c
      BY <1>2, <2>1
    <2>2. CASE d # c
      <3>1. Within(buf[d].elems, Sources(d))
        BY DEF IInv, Own
      <3>2. Sources(d)' = Sources(d)
        BY <2>2 DEF Sources
      <3> QED
        BY <1>2, <2>2, <3>1, <3>2
    <2> QED
      BY <2>1, <2>2
  <1>5. TypeOK'
    BY <1>2, <1>3 DEF IInv, TypeOK, device, hardware
  <1>6. irq' => irq
    BY DEF hardware
  <1> QED
    BY <1>4, <1>5, <1>6, QuietStays, Calm DEF device, hardware

LEMMA SetupKeeps ==
    ASSUME IInv, Setup
    PROVE  IInv'
  <1>1. main \in Locals /\ main.todo # << >> /\ Ch \in Channels
    BY Busy DEF Setup, At
  <1>2. /\ main.pc = "setup"
        /\ UNCHANGED <<flags, reqsamples, logsmoothlen, value_ptr, smooth, device,
                     hardware, calls, raced, stalled>>
    BY DEF Setup, At
  <1>3. main.log \in LogCounts /\ main.log \in Nat
    BY <1>1, <1>2 DEF IInv, MainKnows, Asking, Locals
  <1>4. PICK c \in Channels : c = Ch
    BY <1>1
  <1>5. PICK z \in Nat \ {0} : z = Realsize(main.log)
    BY <1>3, RealsizePositive
  <1>6. Quiet /\ main.pc # "resize"
    BY <1>2 DEF Quiet, At
  <1>7. PICK p \in {"request", "resize"} :
          /\ Goto(p)
          /\ p = "request" => UNCHANGED <<buf, torn>>
          /\ p = "resize" => /\ buf' = [buf EXCEPT ![c].size = z]
                             /\ torn' = torn \cup {c}
    BY <1>4, <1>5 DEF Setup
  <1>8. /\ main' \in Locals /\ main'.pc = p /\ main'.op = main.op
        /\ main'.log = main.log /\ main'.todo # << >> /\ Ch' = Ch
    BY <1>2, <1>7, GoneTo DEF Places
  <1>9. MainKnows'
    BY <1>3, <1>8 DEF MainKnows, Asking, Sampling, At
  <1>10. CASE p = "request"
    <2>1. UNCHANGED <<channel, device, hardware, ghosts>>
      BY <1>2, <1>7, <1>10 DEF channel, ghosts
    <2> QED
      BY <1>6, <1>8, <1>9, <2>1, MainOnly
  <1>11. CASE p = "resize"
    <2>1. PICK b \in Ring : b = buf[c]
      BY DEF IInv, TypeOK
    <2>2. PICK e : e = [b EXCEPT !.size = z]
      OBVIOUS
    <2>3. e \in Ring /\ e.elems = b.elems
      BY <2>2 DEF Ring
    <2>4. buf' = [buf EXCEPT ![c] = e]
      BY <1>7, <1>11, <2>1, <2>2 DEF IInv, TypeOK
    <2>5. torn' = torn \cup {c} /\ torn \in SUBSET Channels
      BY <1>7, <1>11, Types
    <2>6. Within(e.elems, Sources(c)')
      <3>1. Within(b.elems, Sources(c))
        BY <2>1 DEF IInv, Own
      <3>2. Sources(c) \subseteq Sources(c)'
        BY <2>5 DEF Sources
      <3> QED
        BY <2>3, <3>1, <3>2 DEF Within
    <2>7. Resized(c)'
      BY <1>4, <1>8, <1>11 DEF Resized, At
    <2>8. stalled' \in BOOLEAN
      BY <1>2, Types
    <2>9. torn' \in SUBSET Channels /\ \A d \in Channels \ {c} : d \in torn' <=> d \in torn
      BY <2>5
    <2> QED
      BY <1>2, <1>4, <1>6, <1>8, <1>9, <2>3, <2>4, <2>6, <2>7, <2>8, <2>9, BufferChanges
  <1> QED
    BY <1>10, <1>11

LEMMA SetupFailsKeeps ==
    ASSUME IInv, SetupFails
    PROVE  IInv'
  <1>1. main.pc = "resize" /\ main' = NoLocals
    BY DEF SetupFails, At, Return
  <1>2. PICK c \in Channels : c = Ch
    BY <1>1, Busy
  <1>3. PICK e : e = [size |-> 0, elems |-> << >>]
    OBVIOUS
  <1>4. /\ buf' = [buf EXCEPT ![c] = e]
        /\ torn' = torn \ {c}
        /\ stalled' = (stalled \/ (~running /\ ch_active # {}))
        /\ UNCHANGED <<flags, reqsamples, logsmoothlen, value_ptr, smooth, device,
                       hardware, calls, raced>>
    BY <1>2, <1>3 DEF SetupFails
  <1>5. e \in Ring /\ Len(e.elems) <= e.size + 1 /\ Within(e.elems, Sources(c)')
    BY <1>3, NoElements
  <1>6. main' \in Locals /\ MainKnows'
    BY <1>1, NoLocalsFine, IdleKnows
  <1>7. Quiet
    BY <1>1 DEF Quiet, At
  <1>8. torn' \in SUBSET Channels /\ \A d \in Channels \ {c} : d \in torn' <=> d \in torn
    BY <1>4, Types
  <1>9. stalled' \in BOOLEAN
    BY <1>4
  <1> QED
    BY <1>2, <1>4, <1>5, <1>6, <1>7, <1>8, <1>9, BufferChanges

LEMMA FlushCountKeeps ==
    ASSUME IInv, FlushCount
    PROVE  IInv'
  <1>1. main.pc \in {"resize", "empty"} /\ Goto("pointers")
    BY DEF FlushCount
  <1>2. PICK c \in Channels : c = Ch
    BY <1>1, Busy
  <1>3. /\ buf' = [buf EXCEPT ![c].elems = << >>]
        /\ torn' = torn \ {c}
        /\ UNCHANGED <<flags, reqsamples, logsmoothlen, value_ptr, smooth, device,
                       hardware, calls, raced, stalled>>
    BY <1>2 DEF FlushCount
  <1>4. PICK b \in Ring : b = buf[c]
    BY DEF IInv, TypeOK
  <1>5. PICK n \in Nat : n = b.size
    BY DEF Ring
  <1>6. PICK e : e = [size |-> n, elems |-> << >>]
    OBVIOUS
  <1>7. e \in Ring /\ Len(e.elems) <= e.size + 1 /\ Within(e.elems, Sources(c)')
    BY <1>6, NoElements
  <1>8. e = [b EXCEPT !.elems = << >>]
    BY <1>5, <1>6 DEF Ring
  <1>9. buf' = [buf EXCEPT ![c] = e]
    BY <1>3, <1>4, <1>8 DEF IInv, TypeOK
  <1>10. /\ main' \in Locals /\ main'.pc = "pointers" /\ main'.op = main.op
         /\ main'.log = main.log /\ main'.todo # << >>
    BY <1>1, GoneTo DEF Places
  <1>11. main.op = "sample" => main.log \in LogCounts
    BY <1>1 DEF IInv, MainKnows, Asking, Sampling, At
  <1>12. MainKnows'
    BY <1>10, <1>11 DEF MainKnows, Asking, Sampling, At
  <1>13. Quiet
    BY <1>1 DEF Quiet, At
  <1>14. torn' \in SUBSET Channels /\ \A d \in Channels \ {c} : d \in torn' <=> d \in torn
    BY <1>3, Types
  <1>15. stalled' \in BOOLEAN
    BY <1>3, Types
  <1> QED
    BY <1>2, <1>3, <1>7, <1>9, <1>10, <1>12, <1>13, <1>14, <1>15, BufferChanges

LEMMA FlushPointersKeeps ==
    ASSUME IInv, FlushPointers
    PROVE  IInv'
  <1>1. main.pc = "pointers" /\ UNCHANGED <<channel, device, hardware, ghosts>>
    BY DEF FlushPointers, At
  <1>2. main' \in Locals /\ MainKnows'
    <2>1. CASE main.op = "sample"
      <3>1. Goto("request")
        BY <2>1 DEF FlushPointers
      <3>2. /\ main' \in Locals /\ main'.pc = "request" /\ main'.op = main.op
            /\ main'.log = main.log /\ main'.todo # << >>
        BY <1>1, <3>1, GoneTo DEF Places
      <3>3. main.log \in LogCounts
        BY <1>1, <2>1 DEF IInv, MainKnows, Asking, At
      <3> QED
        BY <3>2, <3>3 DEF MainKnows, Asking, Sampling, At
    <2>2. CASE main.op # "sample"
      BY <2>2, NoLocalsFine, IdleKnows DEF FlushPointers, Return
    <2> QED
      BY <2>1, <2>2
  <1>3. Quiet /\ main.pc # "resize"
    BY <1>1 DEF Quiet, At
  <1> QED
    BY <1>1, <1>2, <1>3, MainOnly

LEMMA RequestKeeps ==
    ASSUME IInv, Request
    PROVE  IInv'
  <1>1. /\ main.pc = "request" /\ Goto("pend")
        /\ UNCHANGED <<flags, logsmoothlen, value_ptr, smooth, buf, device, hardware,
                       ghosts>>
    BY DEF Request, At
  <1>2. PICK c \in Channels : c = Ch
    BY <1>1, Busy
  <1>3. main.log \in LogCounts
    BY <1>1 DEF IInv, MainKnows, Asking
  <1>4. PICK z \in Nat \ {0} : z = Realsize(main.log)
    BY <1>3, AdcAssumption, RealsizePositive
  <1>5. reqsamples' = [reqsamples EXCEPT ![c] = z]
    BY <1>2, <1>4 DEF Request
  <1>6. /\ main' \in Locals /\ main'.pc = "pend" /\ main'.op = main.op
        /\ main'.log = main.log /\ main'.todo # << >>
    BY <1>1, GoneTo DEF Places
  <1>7. MainKnows'
    BY <1>3, <1>6 DEF MainKnows, Asking, Sampling, At
  <1>8. /\ reqsamples' \in [Channels -> Nat]
        /\ \A d \in Channels :
             reqsamples'[d] > 0 => \E log \in LogCounts : reqsamples'[d] <= Realsize(log)
    <2>1. /\ reqsamples \in [Channels -> Nat]
          /\ \A d \in Channels :
               reqsamples[d] > 0 => \E log \in LogCounts : reqsamples[d] <= Realsize(log)
      BY DEF IInv, TypeOK
    <2>2. \E log \in LogCounts : z <= Realsize(log)
      BY <1>3, <1>4
    <2> QED
      BY <1>5, <2>1, <2>2
  <1>9. \A d \in Channels : Len(buf[d].elems) <= buf[d].size + 1
    BY <1>1, Fits
  <1>10. TypeOK'
    BY <1>1, <1>6, <1>8, <1>9 DEF IInv, TypeOK, device, hardware, ghosts
  <1>11. Own' /\ (irq' => irq)
    BY <1>1, StillOwn DEF IInv, hardware, ghosts
  <1>12. Quiet
    BY <1>1 DEF Quiet, At
  <1> QED
    BY <1>1, <1>7, <1>10, <1>11, <1>12, QuietStays, Calm DEF device, hardware, ghosts

(* The rings stay when no smooth_ready is raised.                             *)
LEMMA ReadyFalls ==
    ASSUME FilterKnows, UNCHANGED <<logsmoothlen, smooth, raced>>,
           \A c \in Channels : flags'[c].smooth_ready => flags[c].smooth_ready,
           \A c \in Channels : Resizing(c) => Resizing(c)'
    PROVE  FilterKnows'
  <1> SUFFICES ASSUME NEW c \in Channels,
                      logsmoothlen'[c] > 0 /\ c \notin raced' /\ ~Resizing(c)'
               PROVE  Rings(c)'
    BY DEF FilterKnows
  <1>1. Rings(c)
    BY DEF FilterKnows
  <1>2. flags'[c].smooth_ready => flags[c].smooth_ready
    OBVIOUS
  <1> QED
    BY <1>1, <1>2 DEF Rings

LEMMA StartKeeps ==
    ASSUME IInv, Start
    PROVE  IInv'
  <1>1. main.pc = "start" /\ UNCHANGED <<channel, device, hardware, ghosts>>
    BY DEF Start, At
  <1>2. main' \in Locals /\ MainKnows'
    <2>1. CASE Return
      BY <2>1, NoLocalsFine, IdleKnows DEF Return
    <2>2. CASE Goto("program")
      <3>1. main' \in Locals /\ main'.pc = "program" /\ main'.todo # << >>
        BY <1>1, <2>2, GoneTo DEF Places
      <3> QED
        BY <3>1 DEF MainKnows, Asking, Sampling, At
    <2> QED
      BY <2>1, <2>2 DEF Start
  <1>3. Quiet /\ main.pc # "resize"
    BY <1>1 DEF Quiet, At
  <1> QED
    BY <1>1, <1>2, <1>3, MainOnly

LEMMA ProgramKeeps ==
    ASSUME IInv, Program
    PROVE  IInv'
  <1>1. /\ main.pc = "program" /\ UpdateSequence(ch_active, flags) /\ Goto("run")
        /\ UNCHANGED <<reqsamples, logsmoothlen, smooth, buf, ch_active, running,
                       clocked, sample_buf, nvic, ghosts>>
    BY DEF Program, At
  <1>2. main' \in Locals /\ main'.pc = "run" /\ main'.todo # << >>
    BY <1>1, GoneTo DEF Places
  <1>3. MainKnows'
    BY <1>2 DEF MainKnows, Asking, Sampling, At
  <1>4. Quiet /\ \A c \in Channels : Len(buf[c].elems) <= buf[c].size + 1
    BY <1>1, Fits DEF Quiet, At
  <1>5. ch_active \in SUBSET Channels /\ flags \in [Channels -> Flag] /\ TypeOK /\ InPlace
    BY DEF IInv, TypeOK
  <1>6. /\ flags' \in [Channels -> Flag] /\ seq' \in Seq(Channels)
        /\ value_ptr' \in [Channels -> 0..Cardinality(Channels)]
        /\ last_ch_active' = ch_active /\ InPlace'
        /\ \A c \in Channels :
             /\ flags'[c].smooth_ready = flags[c].smooth_ready
             /\ flags'[c].value_fresh => flags[c].value_fresh
             /\ value_ptr[c] # 0 => value_ptr'[c] # 0
    BY <1>1, <1>5, Programming
  <1>7. /\ converting' \in BOOLEAN /\ irq' \in BOOLEAN /\ trigger' \in BOOLEAN
        /\ Changes(ch_active) => irq' = FALSE
        /\ ~Changes(ch_active) => irq' = irq
    <2>1. CASE Changes(ch_active)
      BY <2>1 DEF Program
    <2>2. CASE ~Changes(ch_active)
      BY <2>2, Types DEF Program
    <2> QED
      BY <2>1, <2>2
  <1>8. TypeOK'
    BY <1>1, <1>2, <1>4, <1>5, <1>6, <1>7 DEF TypeOK, ghosts
  <1>9. Placed'
    BY <1>6 DEF IInv, Placed
  <1>10. Converted' /\ NoZero'
    <2>1. NoZero'
      BY <1>1 DEF IInv, NoZero
    <2>2. CASE Changes(ch_active)
      BY <1>7, <2>1, <2>2 DEF Converted
    <2>3. CASE ~Changes(ch_active)
      <3>1. UNCHANGED <<seq, value_ptr, last_ch_active>>
        BY <1>1, <2>3 DEF UpdateSequence
      <3> QED
        BY <1>1, <1>7, <2>1, <2>3, <3>1 DEF IInv, Converted, Value
    <2> QED
      BY <2>2, <2>3
  <1>11. Own'
    BY <1>1, StillOwn DEF IInv, ghosts
  <1>12. FilterKnows'
    <2>1. \A c \in Channels : flags'[c].smooth_ready => flags[c].smooth_ready
      BY <1>6
    <2> QED
      BY <1>1, <1>4, <2>1, QuietStays, ReadyFalls DEF IInv, ghosts
  <1> QED
    BY <1>3, <1>6, <1>8, <1>9, <1>10, <1>11, <1>12 DEF IInv

LEMMA RunKeeps ==
    ASSUME IInv, Run
    PROVE  IInv'
  <1>1. /\ main.pc = "run" /\ running' = TRUE /\ Goto("trigger")
        /\ UNCHANGED <<channel, ch_active, last_ch_active, clocked, seq, hardware,
                       ghosts>>
    BY DEF Run, At
  <1>2. main' \in Locals /\ main'.pc = "trigger" /\ main'.todo # << >>
    BY <1>1, GoneTo DEF Places
  <1>3. MainKnows'
    BY <1>2 DEF MainKnows, Asking, Sampling, At
  <1>4. Quiet /\ main.pc # "resize"
    BY <1>1 DEF Quiet, At
  <1> QED
    BY <1>1, <1>2, <1>3, <1>4, Types, MainAndDevice DEF hardware, ghosts

LEMMA TriggerFirstKeeps ==
    ASSUME IInv, TriggerFirst
    PROVE  IInv'
  <1>1. /\ main.pc = "trigger" /\ irq' = FALSE /\ nvic' = TRUE /\ stalled' = FALSE
        /\ trigger' = (trigger \/ clocked) /\ converting' = (converting \/ ~clocked)
        /\ main' = NoLocals
        /\ UNCHANGED <<channel, device, sample_buf, calls, raced, torn>>
    BY DEF TriggerFirst, At, Return
  <1>2. main' \in Locals /\ MainKnows'
    BY <1>1, NoLocalsFine, IdleKnows
  <1>3. Quiet /\ main.pc # "resize"
    BY <1>1 DEF Quiet, At
  <1>4. trigger' \in BOOLEAN /\ converting' \in BOOLEAN
    BY <1>1
  <1> QED
    BY <1>1, <1>2, <1>3, <1>4, Types, MainAndDevice DEF device

LEMMA StoreKeeps ==
    ASSUME IInv, Store
    PROVE  IInv'
  <1>1. main \in Locals /\ main.todo # << >> /\ Ch \in Channels
    BY Busy DEF Store, At
  <1>2. PICK c \in Channels : c = Ch
    BY <1>1
  <1>3. Storing /\ main.pc = "store" /\ Asking
    BY DEF Store, At, IInv, MainKnows
  <1>4. PICK b \in Flag : b = main.bits
    BY <1>3 DEF Storing
  <1>5. PICK f \in {"op_pending", "blocking", "smooth_ready", "value_fresh"},
             v \in BOOLEAN : f = main.field /\ v = main.value
    BY <1>1, <1>3 DEF Locals, Storing
  <1>6. /\ flags' = [flags EXCEPT ![c] = [b EXCEPT ![f] = v]]
        /\ UNCHANGED <<reqsamples, logsmoothlen, value_ptr, smooth, buf, device,
                 hardware, ghosts>>
    BY <1>2, <1>4, <1>5 DEF Store
  <1>7. PICK g \in Flag : /\ g = [b EXCEPT ![f] = v]
                          /\ g.smooth_ready = (IF f = "smooth_ready" THEN v ELSE b.smooth_ready)
                          /\ g.value_fresh = (IF f = "value_fresh" THEN v ELSE b.value_fresh)
    <2>0. PICK h : h = [b EXCEPT ![f] = v]
      OBVIOUS
    <2>1. /\ h \in Flag
          /\ h.smooth_ready = (IF f = "smooth_ready" THEN v ELSE b.smooth_ready)
          /\ h.value_fresh = (IF f = "value_fresh" THEN v ELSE b.value_fresh)
      <3>1. CASE f = "op_pending"
        <4>1. h = [b EXCEPT !.op_pending = v]
          BY <2>0, <3>1
        <4> QED
          BY <3>1, <4>1 DEF Flag
      <3>2. CASE f = "blocking"
        <4>1. h = [b EXCEPT !.blocking = v]
          BY <2>0, <3>2
        <4> QED
          BY <3>2, <4>1 DEF Flag
      <3>3. CASE f = "smooth_ready"
        <4>1. h = [b EXCEPT !.smooth_ready = v]
          BY <2>0, <3>3
        <4> QED
          BY <3>3, <4>1 DEF Flag
      <3>4. CASE f = "value_fresh"
        <4>1. h = [b EXCEPT !.value_fresh = v]
          BY <2>0, <3>4
        <4> QED
          BY <3>4, <4>1 DEF Flag
      <3> QED
        BY <3>1, <3>2, <3>3, <3>4
    <2> QED
      BY <2>0, <2>1
  <1>8. /\ f = "value_fresh" => ~v
        /\ f = "smooth_ready" /\ v => flags[c].smooth_ready
        /\ b.smooth_ready => flags[c].smooth_ready
        /\ b.value_fresh => value_ptr[c] # 0
    BY <1>2, <1>3, <1>4, <1>5 DEF Storing
  <1>9. flags \in [Channels -> Flag]
    BY DEF IInv, TypeOK
  <1>10. /\ flags' \in [Channels -> Flag] /\ flags'[c] = g
         /\ \A d \in Channels : d # c => flags'[d] = flags[d]
    BY <1>6, <1>7, <1>9
  <1>11. Placed'
    BY <1>6, <1>7, <1>8, <1>10 DEF IInv, Placed
  <1>12. \A d \in Channels : flags'[d].smooth_ready => flags[d].smooth_ready
    BY <1>7, <1>8, <1>10
  <1>13. /\ main' \in Locals /\ MainKnows'
         /\ main.then = "zero" => main'.pc = "zero" /\ main'.todo = main.todo
    <2>1. CASE main.then = "idle"
      BY <2>1, NoLocalsFine, IdleKnows DEF Store, Return
    <2>2. CASE main.then # "idle"
      <3>1. PICK p \in {"activate", "take", "count", "inactivate", "flush", "zero"} :
              p = main.then
        BY <1>3, <2>2 DEF Storing
      <3>2. PICK none : none = << >> /\ none \in Flag \cup {<< >>}
        OBVIOUS
      <3>3. main' = [main EXCEPT !.pc = p, !.field = "", !.value = FALSE,
                                 !.bits = none, !.then = ""]
        BY <2>2, <3>1, <3>2 DEF Store
      <3>4. /\ main' \in Locals /\ main'.pc = p /\ main'.todo = main.todo
            /\ main'.log = main.log /\ main'.op = main.op /\ main'.sample = main.sample
            /\ main'.left = main.left
        <4>1. /\ main'.pc = p /\ main'.todo = main.todo
              /\ main'.log = main.log /\ main'.op = main.op
              /\ main'.sample = main.sample /\ main'.left = main.left
          BY <1>1, <3>3 DEF Locals
        <4>2. p \in Places
          BY <3>1 DEF Places
        <4>3. main' \in Locals
          BY <1>1, <3>2, <3>3, <4>2, FlagSteps
        <4> QED
          BY <4>1, <4>3
      <3>5. Ch' = c
        BY <1>2, <3>4 DEF Ch
      <3>6. p = "zero" => Flushed(c)' /\ ~flags'[c].smooth_ready
        <4> SUFFICES ASSUME p = "zero" PROVE Flushed(c)' /\ ~flags'[c].smooth_ready
          OBVIOUS
        <4>1. Flushed(c) /\ f = "smooth_ready" /\ ~v
          BY <1>2, <1>3, <1>5, <3>1 DEF Storing
        <4>2. Flushed(c)'
          BY <1>6, <4>1 DEF Flushed, ghosts
        <4> QED
          BY <1>7, <1>8, <1>10, <4>1, <4>2
      <3>7. p = "flush" => logsmoothlen'[c] = 0
        BY <1>2, <1>3, <1>6, <3>1 DEF Storing
      <3>8. /\ p = "count" => main.sample # 0 /\ main.left # 0
            /\ p = "take" => main.left # 0
        BY <1>3, <3>1 DEF Storing
      <3>9. p = "activate" => main.log \in LogCounts
        BY <1>3, <3>1 DEF Asking, At
      <3>10. p = "inactivate" => main.op = "setclock" \/ main.log \in LogLengths
        BY <1>3, <3>1 DEF Asking, At
      <3>15. main.op = "sample" => p = "activate"
        BY <1>3, <3>1 DEF Asking, Sampling, At
      <3>11. Asking'
        BY <3>1, <3>4, <3>9, <3>10, <3>15 DEF Asking, Sampling, At
      <3>12. p = "flush" => ~(logsmoothlen'[Ch'] > 0)
        BY <3>5, <3>7
      <3>13. p = "zero" => Flushed(Ch)' /\ ~flags'[Ch'].smooth_ready
        BY <3>5, <3>6 DEF Flushed
      <3>14. MainKnows'
        BY <1>1, <3>1, <3>4, <3>8, <3>11, <3>12, <3>13 DEF MainKnows, At
      <3> QED
        BY <3>1, <3>4, <3>14
    <2> QED
      BY <2>1, <2>2
  <1>14. \A d \in Channels : Resizing(d) => Resizing(d)'
    <2>1. CASE main.then = "zero"
      BY <1>3, <1>13, <2>1 DEF Resizing, Ch
    <2>2. CASE main.then # "zero"
      BY <1>3, <2>2 DEF Resizing
    <2> QED
      BY <2>1, <2>2
  <1>15. TypeOK'
    <2>1. \A d \in Channels : Len(buf[d].elems) <= buf[d].size + 1
      BY <1>3, Fits
    <2> QED
      BY <1>6, <1>10, <1>13, <2>1 DEF IInv, TypeOK, device, hardware, ghosts
  <1>16. FilterKnows'
    BY <1>6, <1>12, <1>14, ReadyFalls DEF IInv, ghosts
  <1>17. InPlace' /\ Converted' /\ NoZero' /\ Own'
    BY <1>6, StillInPlace, StillOwn DEF IInv, device, hardware, ghosts
  <1> QED
    BY <1>11, <1>13, <1>15, <1>16, <1>17 DEF IInv

(* The other channels: nothing happens to their filters.                      *)
LEMMA OthersRing ==
    ASSUME FilterKnows, NEW k, k = Ch, raced' = raced,
           \A c \in Channels \ {k} :
             /\ logsmoothlen'[c] = logsmoothlen[c] /\ smooth'[c] = smooth[c]
             /\ flags'[c].smooth_ready => flags[c].smooth_ready,
           logsmoothlen'[k] > 0 /\ k \notin raced' /\ ~Resizing(k)' => Rings(k)'
    PROVE  FilterKnows'
  <1> SUFFICES ASSUME NEW c \in Channels,
                      logsmoothlen'[c] > 0 /\ c \notin raced' /\ ~Resizing(c)'
               PROVE  Rings(c)'
    BY DEF FilterKnows
  <1>1. CASE c = k
    BY <1>1
  <1>2. CASE c # k
    <2>1. ~Resizing(c)
      BY <1>2 DEF Resizing
    <2>2. Rings(c)
      BY <1>2, <2>1 DEF FilterKnows
    <2>3. /\ logsmoothlen'[c] = logsmoothlen[c] /\ smooth'[c] = smooth[c]
          /\ flags'[c].smooth_ready => flags[c].smooth_ready
      BY <1>2
    <2> QED
      BY <2>2, <2>3 DEF Rings
  <1> QED
    BY <1>1, <1>2

LEMMA TakeKeeps ==
    ASSUME IInv, Take
    PROVE  IInv'
  <1>1. main \in Locals /\ main.todo # << >> /\ Ch \in Channels
    BY Busy DEF Take, At
  <1>2. PICK c \in Channels : c = Ch
    BY <1>1
  <1>3. /\ main.pc = "get" /\ main.left # 0
        /\ UNCHANGED <<flags, reqsamples, logsmoothlen, value_ptr, buf, device,
                       hardware, ghosts>>
    BY DEF Take, At, Got
  <1>4. main.op # "sample"
    BY <1>3, SampleOnly DEF Sampling, At
  <1>5. Quiet /\ main.pc # "resize"
    BY <1>3 DEF Quiet, At
  <1>6. CASE Goto("take") /\ UNCHANGED smooth
    <2>1. /\ main' \in Locals /\ main'.pc = "take" /\ main'.op = main.op
          /\ main'.left = main.left /\ main'.todo # << >>
      BY <1>3, <1>6, GoneTo DEF Places
    <2>2. MainKnows'
      BY <1>3, <1>4, <2>1 DEF MainKnows, Asking, Sampling, At
    <2>3. UNCHANGED <<channel, device, hardware, ghosts>>
      BY <1>3, <1>6 DEF channel
    <2> QED
      BY <1>5, <2>1, <2>2, <2>3, MainOnly
  <1>7. CASE /\ logsmoothlen[c] > 0 /\ flags[c].smooth_ready
             /\ smooth' = [smooth EXCEPT ![c].idx = 0]
             /\ Load("smooth_ready", TRUE, "take")
    <2>1. /\ main' \in Locals /\ MainKnows' /\ main'.pc = "store"
          /\ main'.then = "take"
      <3>1. UNCHANGED <<flags, value_ptr>> /\ flags[Ch].smooth_ready
        BY <1>2, <1>3, <1>7
      <3> QED
        BY <1>3, <1>4, <1>7, <3>1, LoadKnows
    <2>2. smooth \in [Channels -> Filter] /\ logsmoothlen[c] \in Nat
      BY DEF IInv, TypeOK
    <2>3. PICK s \in Filter : s = smooth[c]
      BY <2>2
    <2>4. PICK n \in Nat : n = 0
      OBVIOUS
    <2>5. PICK t : t = [s EXCEPT !.idx = n]
      OBVIOUS
    <2>6. t \in Filter /\ t.idx = n /\ t.sum = s.sum /\ t.cells = s.cells
      BY <2>5 DEF Filter
    <2>7. smooth' = [smooth EXCEPT ![c] = t]
      BY <1>7, <2>2, <2>3, <2>4, <2>5
    <2>8. smooth' \in [Channels -> Filter] /\ smooth'[c] = t
          /\ \A d \in Channels \ {c} : smooth'[d] = smooth[d]
      BY <2>2, <2>6, <2>7
    <2>9. logsmoothlen'[c] > 0 /\ c \notin raced' /\ ~Resizing(c)' => Rings(c)'
      <3> SUFFICES ASSUME c \notin raced PROVE Rings(c)'
        BY <1>3 DEF ghosts
      <3>1. ~Resizing(c)
        BY <1>3 DEF Resizing
      <3>2. RingOf(s, logsmoothlen[c]) /\ (flags[c].smooth_ready => Full(s))
        BY <1>7, <2>3, <3>1 DEF IInv, FilterKnows, Rings
      <3>3. Len(s.cells) \in Nat
        BY LenProperties DEF Filter
      <3>4. RingOf(t, logsmoothlen[c])
        BY <2>4, <2>6, <3>2, <3>3 DEF RingOf
      <3>5. flags[c].smooth_ready => Full(t)
        BY <2>6, <3>2 DEF Full
      <3>6. UNCHANGED <<flags, logsmoothlen>>
        BY <1>3
      <3> QED
        BY <2>8, <3>4, <3>5, <3>6 DEF Rings
    <2>10. FilterKnows'
      <3>1. /\ raced' = raced /\ FilterKnows
            /\ \A d \in Channels \ {c} :
                 /\ logsmoothlen'[d] = logsmoothlen[d] /\ smooth'[d] = smooth[d]
                 /\ flags'[d].smooth_ready => flags[d].smooth_ready
        BY <1>3, <2>8 DEF ghosts, IInv
      <3> QED
        BY <1>2, <2>9, <3>1, OthersRing
    <2>11. \A d \in Channels : Len(buf[d].elems) <= buf[d].size + 1
      BY <1>3, Fits
    <2>12. TypeOK'
      BY <1>3, <2>1, <2>8, <2>11 DEF IInv, TypeOK, device, hardware, ghosts
    <2>13. InPlace' /\ Converted' /\ NoZero' /\ Own' /\ Placed'
      BY <1>3, StillInPlace, StillOwn, StillPlaced DEF IInv, device, hardware, ghosts
    <2> QED
      BY <2>1, <2>10, <2>12, <2>13 DEF IInv
  <1>8. logsmoothlen[c] \in Nat /\ (logsmoothlen[c] > 0 => flags[c].smooth_ready)
    <2>1. logsmoothlen[c] \in Nat
      BY DEF IInv, TypeOK
    <2> QED
      BY <1>2, <2>1 DEF Take, Processes
  <1> QED
    BY <1>2, <1>6, <1>7, <1>8 DEF Take

LEMMA GetBufferedKeeps ==
    ASSUME IInv, GetBuffered
    PROVE  IInv'
  <1>1. main \in Locals /\ main.todo # << >> /\ Ch \in Channels
    BY Busy DEF GetBuffered, At
  <1>2. PICK c \in Channels : c = Ch
    BY <1>1
  <1>3. PICK b \in Ring : b = buf[c]
    BY DEF IInv, TypeOK
  <1>4. b.elems \in Seq(Int) /\ b.size \in Nat
    BY DEF Ring
  <1>5. /\ main.pc = "take"
        /\ UNCHANGED <<flags, reqsamples, logsmoothlen, value_ptr, smooth, device,
                 hardware, ghosts>>
    BY DEF GetBuffered, At
  <1>6. main.left # 0 /\ main.op # "sample"
    BY <1>5, SampleOnly DEF IInv, MainKnows, Sampling, At
  <1>7. Quiet /\ main.pc # "resize"
    BY <1>5 DEF Quiet, At
  <1>8. ASSUME NEW v \in Int, v # 0,
               main' = [main EXCEPT !.pc = "count", !.sample = v]
        PROVE  main' \in Locals /\ MainKnows'
    <2>1. /\ main' \in Locals /\ main'.pc = "count" /\ main'.todo = main.todo
          /\ main'.sample = v /\ main'.left = main.left /\ main'.op = main.op
      BY <1>1, <1>8 DEF Locals, Places
    <2> QED
      BY <1>1, <1>6, <1>8, <2>1 DEF MainKnows, Asking, Sampling, At
  <1>9. CASE b.elems = << >>
    <2>1. main' = [main EXCEPT !.pc = "count", !.sample = Stray] /\ UNCHANGED buf
      BY <1>2, <1>3, <1>9 DEF GetBuffered
    <2>2. Stray \in Int /\ Stray # 0
      BY DEF Stray
    <2>3. main' \in Locals /\ MainKnows'
      BY <1>8, <2>1, <2>2
    <2>4. UNCHANGED <<channel, device, hardware, ghosts>>
      BY <1>5, <2>1 DEF channel
    <2> QED
      BY <1>7, <2>3, <2>4, MainOnly
  <1>10. CASE b.elems # << >>
    <2>1. /\ main' = [main EXCEPT !.pc = "count", !.sample = Head(b.elems)]
          /\ buf' = [buf EXCEPT ![c].elems = Tail(@)]
      BY <1>2, <1>3, <1>10 DEF GetBuffered
    <2>2. /\ Head(b.elems) \in Int /\ Head(b.elems) = b.elems[1] /\ Len(b.elems) \in Nat \ {0}
          /\ Tail(b.elems) \in Seq(Int) /\ Len(Tail(b.elems)) = Len(b.elems) - 1
          /\ \A i \in 1..Len(Tail(b.elems)) : Tail(b.elems)[i] = b.elems[i + 1]
      BY <1>4, <1>10, HeadTailProperties, LenProperties
    <2>3. Within(b.elems, Sources(c)) /\ Len(b.elems) <= b.size + 1
      BY <1>3, <1>7, Fits DEF IInv, Own
    <2>4. Head(b.elems) \in Sources(c)
      BY <2>2, <2>3 DEF Within
    <2>5. \A v \in Sources(c) : v # 0
      BY AdcAssumption DEF Sources, Stray
    <2>6. PICK v \in Int : v = Head(b.elems) /\ v # 0
      BY <2>2, <2>4, <2>5
    <2>7. main' \in Locals /\ MainKnows'
      BY <1>8, <2>1, <2>6
    <2>8. PICK t \in Seq(Int) : /\ t = Tail(b.elems) /\ Len(t) = Len(b.elems) - 1
                                /\ Within(t, Sources(c))
      <3>1. PICK t \in Seq(Int) : /\ t = Tail(b.elems) /\ Len(t) = Len(b.elems) - 1
                                  /\ \A i \in 1..Len(t) : t[i] = b.elems[i + 1]
        BY <2>2
      <3>2. ASSUME NEW i \in 1..Len(t) PROVE t[i] \in Sources(c)
        <4>1. i + 1 \in 1..Len(b.elems) /\ t[i] = b.elems[i + 1]
          BY <2>2, <3>1
        <4> QED
          BY <2>3, <4>1 DEF Within
      <3>3. Within(t, Sources(c))
        BY <3>2 DEF Within
      <3> QED
        BY <3>1, <3>3
    <2>9. PICK e \in Ring : e = [b EXCEPT !.elems = t] /\ e.elems = t /\ e.size = b.size
      <3> DEFINE x == [b EXCEPT !.elems = t]
      <3>1. x \in Ring /\ x.elems = t /\ x.size = b.size
        BY DEF Ring
      <3> QED
        BY <3>1
    <2>10. buf' = [buf EXCEPT ![c] = e]
      BY <1>3, <2>1, <2>8, <2>9 DEF IInv, TypeOK
    <2>11. Len(e.elems) <= e.size + 1
      BY <1>4, <2>2, <2>3, <2>8, <2>9
    <2>12. Within(e.elems, Sources(c)')
      <3>1. Sources(c)' = Sources(c)
        BY <1>5 DEF Sources, ghosts
      <3> QED
        BY <2>8, <2>9, <3>1
    <2>13. /\ torn' \in SUBSET Channels /\ stalled' \in BOOLEAN
           /\ \A d \in Channels \ {c} : d \in torn' <=> d \in torn
      BY <1>5, Types DEF ghosts
    <2>14. UNCHANGED <<flags, reqsamples, logsmoothlen, value_ptr, smooth, device,
                       hardware, calls, raced>>
      BY <1>5 DEF ghosts
    <2> QED
      BY <1>2, <1>7, <2>7, <2>10, <2>11, <2>12, <2>13, <2>14, BufferChanges
  <1> QED
    BY <1>9, <1>10

LEMMA CountKeeps ==
    ASSUME IInv, Count
    PROVE  IInv'
  <1>1. main \in Locals /\ main.todo # << >> /\ Ch \in Channels
    BY Busy DEF Count, At
  <1>2. PICK c \in Channels : c = Ch
    BY <1>1
  <1>3. PICK v \in Int : v = main.sample /\ v # 0
    BY <1>1 DEF Locals, Count, IInv, MainKnows
  <1>4. /\ main.pc = "count"
        /\ reqsamples' = [reqsamples EXCEPT ![c] = IF @ > 0 THEN @ - 1 ELSE 0]
        /\ smooth' = IF logsmoothlen[c] = 0 \/ c \in raced THEN smooth
               ELSE [smooth EXCEPT ![c] = Smoothed(@, logsmoothlen[c], v)]
        /\ main' = [main EXCEPT !.pc = "get", !.left = @ - 1, !.sample = 0]
        /\ UNCHANGED <<flags, logsmoothlen, value_ptr, buf, device, hardware, ghosts>>
    BY <1>2, <1>3 DEF Count, At
  <1>5. main.left \in Nat /\ main.left - 1 \in Nat
    <2>1. main.left \in Nat
      BY <1>1 DEF Locals
    <2>2. main.left # 0
      BY <1>4 DEF IInv, MainKnows, At
    <2> QED
      BY <2>1, <2>2
  <1>6. /\ main'.pc = "get" /\ main'.todo = main.todo /\ main'.op = main.op
        /\ main' \in Locals
    <2>1. PICK k \in Nat : k = main.left - 1
      BY <1>5
    <2>2. PICK z \in Int : z = 0
      OBVIOUS
    <2>3. main' = [main EXCEPT !.pc = "get", !.left = k, !.sample = z]
      BY <1>4, <2>1, <2>2
    <2>4. main'.pc = "get" /\ main'.todo = main.todo /\ main'.op = main.op
      BY <1>1, <2>3 DEF Locals
    <2>5. main' \in Locals
      BY <1>1, <2>3 DEF Locals, Places
    <2> QED
      BY <2>4, <2>5
  <1>7. MainKnows'
    <2>1. main.op # "sample"
      BY <1>4, SampleOnly DEF Sampling, At
    <2> QED
      BY <1>1, <1>6, <2>1 DEF MainKnows, Asking, Sampling, At
  <1>8. /\ reqsamples' \in [Channels -> Nat]
        /\ \A d \in Channels :
             reqsamples'[d] > 0 => \E log \in LogCounts : reqsamples'[d] <= Realsize(log)
    <2>1. /\ reqsamples \in [Channels -> Nat]
          /\ \A d \in Channels :
               reqsamples[d] > 0 => \E log \in LogCounts : reqsamples[d] <= Realsize(log)
      BY DEF IInv, TypeOK
    <2>2. \A log \in LogCounts : Realsize(log) \in Nat
      BY RealsizePositive, AdcAssumption
    <2>3. PICK n \in Nat : /\ n = (IF reqsamples[c] > 0 THEN reqsamples[c] - 1 ELSE 0)
                           /\ n <= reqsamples[c]
      BY <2>1
    <2>4. reqsamples' = [reqsamples EXCEPT ![c] = n]
      BY <1>4, <2>3
    <2>5. n > 0 => \E log \in LogCounts : n <= Realsize(log)
      BY <2>1, <2>2, <2>3
    <2> QED
      BY <2>1, <2>4, <2>5
  <1>9. smooth \in [Channels -> Filter] /\ logsmoothlen \in [Channels -> Nat]
        /\ flags \in [Channels -> Flag]
    BY DEF IInv, TypeOK
  <1>10. ~Resizing(c)
    BY <1>4 DEF Resizing
  <1>11. logsmoothlen[c] > 0 /\ c \notin raced => Rings(c)
    BY <1>10 DEF IInv, FilterKnows
  <1>12. smooth' \in [Channels -> Filter]
         /\ (\A d \in Channels \ {c} : smooth'[d] = smooth[d])
         /\ (logsmoothlen[c] > 0 /\ c \notin raced => Rings(c)')
    <2>1. CASE logsmoothlen[c] = 0 \/ c \in raced
      <3>1. smooth' = smooth
        BY <1>4, <2>1
      <3>2. ~(logsmoothlen[c] > 0 /\ c \notin raced)
        BY <2>1
      <3> QED
        BY <1>9, <3>1, <3>2
    <2>2. CASE ~(logsmoothlen[c] = 0 \/ c \in raced)
      <3>1. PICK s \in Filter : s = smooth[c]
        BY <1>9
      <3>2. PICK log \in Nat : log = logsmoothlen[c] /\ log > 0
        BY <1>9, <2>2
      <3>3. RingOf(s, log) /\ (flags[c].smooth_ready => Full(s))
        BY <1>11, <2>2, <3>1, <3>2 DEF Rings
      <3>4. PICK t : t = Smoothed(s, log, v)
        OBVIOUS
      <3>5. t \in Filter /\ RingOf(t, log) /\ (Full(s) => Full(t))
        BY <1>3, <3>3, <3>4, RingGrows
      <3>6. smooth' = [smooth EXCEPT ![c] = t]
        BY <1>4, <2>2, <3>1, <3>2, <3>4
      <3>7. smooth' \in [Channels -> Filter] /\ smooth'[c] = t
            /\ \A d \in Channels \ {c} : smooth'[d] = smooth[d]
        BY <1>9, <3>5, <3>6
      <3>8. Rings(c)'
        BY <1>4, <3>2, <3>3, <3>5, <3>7 DEF Rings
      <3> QED
        BY <3>7, <3>8
    <2> QED
      BY <2>1, <2>2
  <1>13. TypeOK'
    <2>1. \A d \in Channels : Len(buf[d].elems) <= buf[d].size + 1
      BY <1>4, Fits
    <2> QED
      BY <1>4, <1>6, <1>8, <1>12, <2>1 DEF IInv, TypeOK, device, hardware, ghosts
  <1>14. FilterKnows'
    <2>1. logsmoothlen'[c] > 0 /\ c \notin raced' /\ ~Resizing(c)' => Rings(c)'
      BY <1>4, <1>12 DEF ghosts
    <2>2. /\ raced' = raced /\ FilterKnows
          /\ \A d \in Channels \ {c} :
               /\ logsmoothlen'[d] = logsmoothlen[d] /\ smooth'[d] = smooth[d]
               /\ flags'[d].smooth_ready => flags[d].smooth_ready
      BY <1>4, <1>12 DEF ghosts, IInv
    <2> QED
      BY <1>2, <2>1, <2>2, OthersRing
  <1>15. InPlace' /\ Converted' /\ NoZero' /\ Own' /\ Placed'
    BY <1>4, StillInPlace, StillOwn, StillPlaced DEF IInv, device, hardware, ghosts
  <1> QED
    BY <1>7, <1>13, <1>14, <1>15 DEF IInv

-----------------------------------------------------------------------------
(* The change of the length of a filter.                                      *)

LEMMA LengthKeeps ==
    ASSUME IInv, Length
    PROVE  IInv'
  <1>1. main \in Locals /\ main.todo # << >> /\ Ch \in Channels
    BY Busy DEF Length, At
  <1>2. PICK c \in Channels : c = Ch
    BY <1>1
  <1>3. PICK log \in LogLengths : log = main.log
    BY DEF Length, At, IInv, MainKnows, Asking
  <1>4. log \in Nat
    BY AdcAssumption
  <1>5. PICK p \in {"flush", "realloc"} :
          p = IF log = logsmoothlen[c] THEN "flush" ELSE "realloc"
    OBVIOUS
  <1>6. /\ main.pc = "length"
        /\ logsmoothlen' = [logsmoothlen EXCEPT ![c] = log]
        /\ main' = [main EXCEPT !.pc = p]
        /\ UNCHANGED <<flags, reqsamples, value_ptr, smooth, buf, device, hardware,
                 ghosts>>
    BY <1>2, <1>3, <1>5 DEF Length, Goto, At
  <1>7. /\ main' \in Locals /\ main'.pc = p /\ main'.todo = main.todo
        /\ main'.log = main.log /\ main'.op = main.op
    BY <1>1, <1>6 DEF Locals, Places
  <1>8. Ch' = c
    BY <1>2, <1>7 DEF Ch
  <1>9. /\ logsmoothlen \in [Channels -> Nat]
        /\ \A d \in Channels : logsmoothlen[d] \in LogLengths \cup {0}
    BY DEF IInv, TypeOK
  <1>10. /\ logsmoothlen' \in [Channels -> Nat] /\ logsmoothlen'[c] = log
         /\ \A d \in Channels : d # c => logsmoothlen'[d] = logsmoothlen[d]
         /\ \A d \in Channels : logsmoothlen'[d] \in LogLengths \cup {0}
    BY <1>4, <1>6, <1>9
  <1>11. ~Resizing(c)
    BY <1>6 DEF Resizing
  <1>12. p = "flush" /\ c \notin raced' /\ logsmoothlen'[c] > 0
           => Len(smooth'[c].cells) = Realsize(logsmoothlen'[c])
    <2> SUFFICES ASSUME p = "flush", c \notin raced, log > 0
                 PROVE  Len(smooth[c].cells) = Realsize(log)
      BY <1>6, <1>10 DEF ghosts
    <2>1. log = logsmoothlen[c]
      BY <1>5
    <2>2. Rings(c)
      BY <1>11, <2>1 DEF IInv, FilterKnows
    <2> QED
      BY <2>1, <2>2 DEF Rings, RingOf
  <1>13. MainKnows'
    <2>1. Asking'
      <3>1. main.op # "sample"
        BY <1>6, SampleOnly DEF Sampling, At
      <3> QED
        BY <1>3, <1>5, <1>7, <3>1 DEF Asking, Sampling, At
    <2>2. p = "realloc" => main'.log = logsmoothlen'[Ch']
      BY <1>3, <1>7, <1>8, <1>10
    <2>3. p = "flush" /\ Ch' \notin raced' /\ logsmoothlen'[Ch'] > 0
            => Len(smooth'[Ch'].cells) = Realsize(logsmoothlen'[Ch'])
      BY <1>8, <1>12
    <2> QED
      BY <1>1, <1>5, <1>7, <2>1, <2>2, <2>3 DEF MainKnows, At
  <1>14. Resizing(c)'
    BY <1>1, <1>5, <1>7, <1>8 DEF Resizing
  <1>15. FilterKnows'
    <2>1. raced' = raced /\ FilterKnows
      BY <1>6 DEF ghosts, IInv
    <2>2. \A d \in Channels \ {c} :
             /\ logsmoothlen'[d] = logsmoothlen[d] /\ smooth'[d] = smooth[d]
             /\ flags'[d].smooth_ready => flags[d].smooth_ready
      BY <1>6, <1>10
    <2> QED
      BY <1>2, <1>14, <2>1, <2>2, OthersRing
  <1>16. TypeOK'
    <2>1. \A d \in Channels : Len(buf[d].elems) <= buf[d].size + 1
      BY <1>6, Fits
    <2> QED
      BY <1>6, <1>7, <1>10, <2>1 DEF IInv, TypeOK, device, hardware, ghosts
  <1>17. InPlace' /\ Converted' /\ NoZero' /\ Own' /\ Placed'
    BY <1>6, StillInPlace, StillOwn, StillPlaced DEF IInv, device, hardware, ghosts
  <1> QED
    BY <1>13, <1>15, <1>16, <1>17 DEF IInv

LEMMA ReallocKeeps ==
    ASSUME IInv, Realloc
    PROVE  IInv'
  <1>1. main \in Locals /\ main.todo # << >> /\ Ch \in Channels
    BY Busy DEF Realloc, At
  <1>2. PICK c \in Channels : c = Ch
    BY <1>1
  <1>3. PICK log \in Nat : log = main.log
    BY <1>1 DEF Locals
  <1>4. log = logsmoothlen[c]
    BY <1>2, <1>3 DEF Realloc, At, IInv, MainKnows
  <1>5. PICK s \in Filter : s = smooth[c]
    BY DEF IInv, TypeOK
  <1>6. s.cells \in Seq(Int)
    BY DEF Filter
  <1> DEFINE new == [i \in 1..Realsize(log) |->
                       IF i \in DOMAIN s.cells THEN s.cells[i] ELSE Garbage]
  <1>7. new \in Seq(Int) /\ Len(new) = Realsize(log)
    <2>1. Realsize(log) \in Nat
      BY RealsizePositive
    <2>2. \A i \in DOMAIN s.cells : s.cells[i] \in Int
      BY <1>6
    <2> QED
      BY <2>1, <2>2 DEF Garbage
  <1>8. /\ main.pc = "realloc"
        /\ smooth' = [smooth EXCEPT ![c].cells = new]
        /\ main' = [main EXCEPT !.pc = "flush"]
        /\ UNCHANGED <<flags, reqsamples, logsmoothlen, value_ptr, buf, device,
                     hardware, ghosts>>
    BY <1>2, <1>3, <1>5 DEF Realloc, Goto, At
  <1>9. PICK q \in Seq(Int) : q = new /\ Len(q) = Realsize(log)
    BY <1>7
  <1> HIDE DEF new
  <1>10. PICK t \in Filter : t = [s EXCEPT !.cells = q] /\ t.cells = q
    <2>1. PICK t : t = [s EXCEPT !.cells = q]
      OBVIOUS
    <2>2. t \in Filter /\ t.cells = q
      BY <2>1 DEF Filter
    <2> QED
      BY <2>1, <2>2
  <1>11. smooth \in [Channels -> Filter]
    BY DEF IInv, TypeOK
  <1>12. smooth' = [smooth EXCEPT ![c] = t]
    BY <1>5, <1>8, <1>9, <1>10, <1>11
  <1>13. smooth' \in [Channels -> Filter] /\ smooth'[c] = t
         /\ \A d \in Channels \ {c} : smooth'[d] = smooth[d]
    BY <1>11, <1>12
  <1>14. /\ main' \in Locals /\ main'.pc = "flush" /\ main'.todo = main.todo
         /\ main'.op = main.op
    BY <1>1, <1>8 DEF Locals, Places
  <1>15. Ch' = c
    BY <1>2, <1>14 DEF Ch
  <1>16. Len(smooth'[Ch'].cells) = Realsize(logsmoothlen'[Ch'])
    BY <1>4, <1>8, <1>9, <1>10, <1>13, <1>15
  <1>17. MainKnows'
    <2>1. main.op # "sample"
      BY <1>8, SampleOnly DEF Sampling, At
    <2> QED
      BY <1>1, <1>14, <1>16, <2>1 DEF MainKnows, Asking, Sampling, At
  <1>18. Resizing(c)'
    BY <1>1, <1>14, <1>15 DEF Resizing
  <1>19. FilterKnows'
    <2>1. raced' = raced /\ FilterKnows
      BY <1>8 DEF ghosts, IInv
    <2>2. \A d \in Channels \ {c} :
             /\ logsmoothlen'[d] = logsmoothlen[d] /\ smooth'[d] = smooth[d]
             /\ flags'[d].smooth_ready => flags[d].smooth_ready
      BY <1>8, <1>13
    <2> QED
      BY <1>2, <1>18, <2>1, <2>2, OthersRing
  <1>20. TypeOK'
    <2>1. \A d \in Channels : Len(buf[d].elems) <= buf[d].size + 1
      BY <1>8, Fits
    <2> QED
      BY <1>8, <1>13, <1>14, <2>1 DEF IInv, TypeOK, device, hardware, ghosts
  <1>21. InPlace' /\ Converted' /\ NoZero' /\ Own' /\ Placed'
    BY <1>8, StillInPlace, StillOwn, StillPlaced DEF IInv, device, hardware, ghosts
  <1> QED
    BY <1>17, <1>19, <1>20, <1>21 DEF IInv


LEMMA ReallocFailsKeeps ==
    ASSUME IInv, ReallocFails
    PROVE  IInv'
  <1>1. main \in Locals /\ main.todo # << >> /\ Ch \in Channels
    BY Busy DEF ReallocFails, At
  <1>2. PICK c \in Channels : c = Ch
    BY <1>1
  <1>3. PICK p \in {"flush", "idle"} : p = IF main.log = 0 THEN "flush" ELSE "idle"
    OBVIOUS
  <1>4. /\ main.pc = "realloc"
        /\ logsmoothlen' = [logsmoothlen EXCEPT ![c] = 0]
        /\ smooth' = [smooth EXCEPT ![c] = [idx |-> 0, sum |-> 0, cells |-> << >>]]
        /\ Load("smooth_ready", FALSE, p)
        /\ UNCHANGED <<flags, reqsamples, value_ptr, buf, device, hardware, ghosts>>
    BY <1>2, <1>3 DEF ReallocFails, At
  <1>5. /\ logsmoothlen \in [Channels -> Nat] /\ smooth \in [Channels -> Filter]
        /\ \A d \in Channels : logsmoothlen[d] \in LogLengths \cup {0}
    BY DEF IInv, TypeOK
  <1>6. /\ logsmoothlen' \in [Channels -> Nat] /\ logsmoothlen'[c] = 0
        /\ \A d \in Channels : d # c => logsmoothlen'[d] = logsmoothlen[d]
        /\ \A d \in Channels : logsmoothlen'[d] \in LogLengths \cup {0}
    BY <1>4, <1>5
  <1>7. PICK t \in Filter : t = [idx |-> 0, sum |-> 0, cells |-> << >>]
    <2>1. PICK none : none = << >> /\ none \in Seq(Int)
      <3>1. << >> \in Seq(Int)
        OBVIOUS
      <3> QED
        BY <3>1
    <2>2. [idx |-> 0, sum |-> 0, cells |-> none] \in Filter
      BY <2>1 DEF Filter
    <2> QED
      BY <2>1, <2>2
  <1>8. smooth' \in [Channels -> Filter]
        /\ \A d \in Channels \ {c} : smooth'[d] = smooth[d]
    <2>1. smooth' = [smooth EXCEPT ![c] = t]
      BY <1>4, <1>7
    <2> QED
      BY <1>5, <2>1
  <1>9. main' \in Locals /\ MainKnows'
    <2>1. logsmoothlen'[Ch] = 0
      BY <1>2, <1>6
    <2>2. main.op # "sample"
      BY <1>4, SampleOnly DEF Sampling, At
    <2> QED
      BY <1>3, <1>4, <2>1, <2>2, LoadKnows
  <1>10. FilterKnows'
    <2>1. raced' = raced /\ FilterKnows
      BY <1>4 DEF ghosts, IInv
    <2>2. ~(logsmoothlen'[c] > 0)
      BY <1>6
    <2>3. \A d \in Channels \ {c} :
             /\ logsmoothlen'[d] = logsmoothlen[d] /\ smooth'[d] = smooth[d]
             /\ flags'[d].smooth_ready => flags[d].smooth_ready
      BY <1>4, <1>6, <1>8
    <2> QED
      BY <1>2, <2>1, <2>2, <2>3, OthersRing
  <1>11. TypeOK'
    <2>1. \A d \in Channels : Len(buf[d].elems) <= buf[d].size + 1
      BY <1>4, Fits
    <2> QED
      BY <1>4, <1>6, <1>8, <1>9, <2>1 DEF IInv, TypeOK, device, hardware, ghosts
  <1>12. InPlace' /\ Converted' /\ NoZero' /\ Own' /\ Placed'
    BY <1>4, StillInPlace, StillOwn, StillPlaced DEF IInv, device, hardware, ghosts
  <1> QED
    BY <1>9, <1>10, <1>11, <1>12 DEF IInv

LEMMA FlushKeeps ==
    ASSUME IInv, Flush
    PROVE  IInv'
  <1>1. main \in Locals /\ main.todo # << >> /\ Ch \in Channels
    BY Busy DEF Flush, At
  <1>2. PICK c \in Channels : c = Ch
    BY <1>1
  <1>3. /\ main.pc = "flush"
        /\ smooth' = [smooth EXCEPT ![c].idx = 0, ![c].sum = 0]
        /\ Load("smooth_ready", FALSE, "zero")
        /\ UNCHANGED <<flags, reqsamples, logsmoothlen, value_ptr, buf, device,
                 hardware, ghosts>>
    BY <1>2 DEF Flush, At
  <1>4. smooth \in [Channels -> Filter]
    BY DEF IInv, TypeOK
  <1>5. PICK s \in Filter : s = smooth[c]
    BY <1>4
  <1>6. PICK t \in Filter : /\ t = [s EXCEPT !.idx = 0, !.sum = 0]
                            /\ t.idx = 0 /\ t.sum = 0 /\ t.cells = s.cells
    <2>1. PICK n \in Nat, z \in Int : n = 0 /\ z = 0
      OBVIOUS
    <2>2. PICK r \in Filter : r = [s EXCEPT !.idx = n]
      BY DEF Filter
    <2>3. PICK t \in Filter : t = [r EXCEPT !.sum = z]
      BY DEF Filter
    <2>4. t.idx = n /\ t.sum = z /\ t.cells = s.cells
      BY <2>2, <2>3 DEF Filter
    <2>5. t = [s EXCEPT !.idx = n, !.sum = z]
      BY <2>2, <2>3 DEF Filter
    <2> QED
      BY <2>1, <2>3, <2>4, <2>5
  <1>7. smooth' = [smooth EXCEPT ![c] = t]
    BY <1>3, <1>4, <1>5, <1>6
  <1>8. smooth' \in [Channels -> Filter] /\ smooth'[c] = t
        /\ \A d \in Channels \ {c} : smooth'[d] = smooth[d]
    BY <1>4, <1>7
  <1>9. c \notin raced /\ logsmoothlen[c] > 0
          => Len(smooth[c].cells) = Realsize(logsmoothlen[c])
    BY <1>2, <1>3 DEF IInv, MainKnows, At
  <1>10. UNCHANGED <<logsmoothlen, raced, flags, value_ptr>>
    BY <1>3 DEF ghosts
  <1>11. Flushed(c)'
    BY <1>5, <1>6, <1>8, <1>9, <1>10 DEF Flushed
  <1>12. Flushed(Ch)'
    <2>1. Ch' = Ch
      <3>1. main' = [main EXCEPT !.pc = "store", !.field = "smooth_ready",
                       !.value = FALSE, !.bits = flags[Ch], !.then = "zero"]
        BY <1>3 DEF Load
      <3>2. main'.todo = main.todo
        BY <1>1, <3>1 DEF Locals
      <3> QED
        BY <3>2 DEF Ch
    <2> QED
      BY <1>2, <1>11, <2>1 DEF Flushed
  <1>13. /\ main' \in Locals /\ MainKnows' /\ main'.pc = "store" /\ main'.then = "zero"
         /\ Ch' = Ch /\ main'.todo = main.todo
    <2>1. main.op # "sample"
      BY <1>3, SampleOnly DEF Sampling, At
    <2> QED
      BY <1>3, <1>10, <1>12, <2>1, LoadKnows
  <1>14. Resizing(c)'
    BY <1>1, <1>2, <1>13 DEF Resizing
  <1>15. FilterKnows'
    <2>1. raced' = raced /\ FilterKnows
      BY <1>10 DEF IInv
    <2>2. \A d \in Channels \ {c} :
             /\ logsmoothlen'[d] = logsmoothlen[d] /\ smooth'[d] = smooth[d]
             /\ flags'[d].smooth_ready => flags[d].smooth_ready
      BY <1>10, <1>8
    <2> QED
      BY <1>2, <1>14, <2>1, <2>2, OthersRing
  <1>16. TypeOK'
    <2>1. \A d \in Channels : Len(buf[d].elems) <= buf[d].size + 1
      BY <1>3, Fits
    <2> QED
      BY <1>3, <1>8, <1>13, <2>1 DEF IInv, TypeOK, device, hardware, ghosts
  <1>17. InPlace' /\ Converted' /\ NoZero' /\ Own' /\ Placed'
    BY <1>3, StillInPlace, StillOwn, StillPlaced DEF IInv, device, hardware, ghosts
  <1> QED
    BY <1>13, <1>15, <1>16, <1>17 DEF IInv

LEMMA ZeroKeeps ==
    ASSUME IInv, Zero
    PROVE  IInv'
  <1>1. main \in Locals /\ main.todo # << >> /\ Ch \in Channels
    BY Busy DEF Zero, At
  <1>2. PICK c \in Channels : c = Ch
    BY <1>1
  <1>3. /\ main.pc = "zero"
        /\ smooth' = IF logsmoothlen[c] = 0 THEN smooth
                     ELSE [smooth EXCEPT ![c].cells = [i \in DOMAIN @ |-> 0]]
        /\ Goto("empty")
        /\ UNCHANGED <<flags, reqsamples, logsmoothlen, value_ptr, buf, device,
                       hardware, ghosts>>
    BY <1>2 DEF Zero, At
  <1>4. main' \in Locals /\ MainKnows'
    <2>1. /\ main' \in Locals /\ main'.pc = "empty" /\ main'.op = main.op
          /\ main'.todo # << >>
      BY <1>3, GoneTo DEF Places
    <2>2. main.op # "sample"
      BY <1>3, SampleOnly DEF Sampling, At
    <2> QED
      BY <2>1, <2>2 DEF MainKnows, Asking, Sampling, At
  <1>5. smooth \in [Channels -> Filter] /\ logsmoothlen \in [Channels -> Nat]
    BY DEF IInv, TypeOK
  <1>6. c \notin raced => Flushed(c) /\ ~flags[c].smooth_ready
    BY <1>2, <1>3 DEF IInv, MainKnows, At
  <1>7. PICK s \in Filter : s = smooth[c]
    BY <1>5
  <1>8. PICK log \in Nat : log = logsmoothlen[c]
    BY <1>5
  <1>9. PICK t : t = [s EXCEPT !.cells = [i \in DOMAIN @ |-> 0]]
    OBVIOUS
  <1>10. t \in Filter
    <2>1. PICK q : q = [i \in DOMAIN s.cells |-> 0]
      OBVIOUS
    <2>2. s.cells \in Seq(Int)
      BY DEF Filter
    <2>3. q \in Seq(Int)
      BY <2>1, <2>2
    <2>4. t = [s EXCEPT !.cells = q]
      BY <1>9, <2>1
    <2> QED
      BY <2>3, <2>4 DEF Filter
  <1>11. log > 0 => smooth' = [smooth EXCEPT ![c] = t]
    BY <1>3, <1>5, <1>7, <1>8, <1>9
  <1>12. smooth' \in [Channels -> Filter]
         /\ (\A d \in Channels \ {c} : smooth'[d] = smooth[d])
         /\ (log > 0 => smooth'[c] = t)
    <2>1. CASE log = 0
      BY <1>3, <1>5, <1>8, <2>1
    <2>2. CASE log > 0
      BY <1>5, <1>10, <1>11, <2>2
    <2> QED
      BY <2>1, <2>2
  <1>13. logsmoothlen'[c] > 0 /\ c \notin raced' => Rings(c)'
    <2> SUFFICES ASSUME log > 0, c \notin raced PROVE Rings(c)'
      BY <1>3, <1>8 DEF ghosts
    <2>1. Len(s.cells) = Realsize(log) /\ s.idx = 0 /\ s.sum = 0
      BY <1>6, <1>7, <1>8 DEF Flushed
    <2>2. RingOf(t, log)
      BY <1>9, <2>1, EmptyRing
    <2>3. smooth'[c] = t /\ logsmoothlen'[c] = log /\ ~flags'[c].smooth_ready
      BY <1>3, <1>6, <1>8, <1>12
    <2> QED
      BY <2>2, <2>3 DEF Rings
  <1>14. FilterKnows'
    <2>1. raced' = raced /\ FilterKnows
      BY <1>3 DEF ghosts, IInv
    <2>2. \A d \in Channels \ {c} :
             /\ logsmoothlen'[d] = logsmoothlen[d] /\ smooth'[d] = smooth[d]
             /\ flags'[d].smooth_ready => flags[d].smooth_ready
      BY <1>3, <1>12
    <2> QED
      BY <1>2, <1>13, <2>1, <2>2, OthersRing
  <1>15. \A d \in Channels : Len(buf[d].elems) <= buf[d].size + 1
    BY <1>3, Fits
  <1>16. TypeOK'
    BY <1>3, <1>4, <1>12, <1>15 DEF IInv, TypeOK, device, hardware, ghosts
  <1>17. InPlace' /\ Converted' /\ NoZero' /\ Placed' /\ Own'
    BY <1>3, StillInPlace, StillPlaced, StillOwn DEF IInv, device, hardware, ghosts
  <1> QED
    BY <1>4, <1>14, <1>16, <1>17 DEF IInv

-----------------------------------------------------------------------------
(* The converter: it stores every conversion of the sequence in its place.    *)

LEMMA DmaKeeps ==
    ASSUME IInv, Dma
    PROVE  IInv'
  <1>1. /\ sample_buf' = [i \in DOMAIN sample_buf |->
                            IF i <= Len(seq) THEN Volt[seq[i]] ELSE sample_buf[i]]
        /\ converting' = FALSE /\ irq' = TRUE
        /\ UNCHANGED <<channel, device, nvic, trigger, main, ghosts>>
    BY DEF Dma
  <1>2. TypeOK /\ InPlace /\ NoZero
    BY DEF IInv
  <1>3. last_ch_active \in SUBSET Channels /\ seq \in Seq(Channels)
    BY <1>2 DEF TypeOK
  <1>4. PICK n \in Nat : n = Cardinality(Channels)
    BY <1>3, ChannelSets
  <1>5. sample_buf \in [1..n -> Int]
    BY <1>2, <1>4 DEF TypeOK
  <1>6. \A i \in 1..n : i <= Len(seq) => Volt[seq[i]] \in Nat \ {0}
    BY <1>3, AdcAssumption
  <1>7. /\ sample_buf' \in [1..n -> Int]
        /\ \A i \in 1..n : sample_buf'[i] =
             IF i <= Len(seq) THEN Volt[seq[i]] ELSE sample_buf[i]
    BY <1>1, <1>5, <1>6
  <1>8. NoZero'
    BY <1>2, <1>4, <1>6, <1>7 DEF NoZero
  <1>9. \A c \in last_ch_active :
          /\ value_ptr[c] = Position(last_ch_active, c)
          /\ value_ptr[c] \in 1..n /\ value_ptr[c] <= Len(seq)
          /\ seq[value_ptr[c]] = c
    <2> SUFFICES ASSUME NEW c \in last_ch_active
                 PROVE  /\ value_ptr[c] = Position(last_ch_active, c)
                        /\ value_ptr[c] \in 1..n /\ value_ptr[c] <= Len(seq)
                        /\ seq[value_ptr[c]] = c
      OBVIOUS
    <2>1. value_ptr[c] = Position(last_ch_active, c) /\ seq = Programmed(last_ch_active)
      BY <1>2 DEF InPlace
    <2>2. Position(last_ch_active, c) \in 1..Cardinality(last_ch_active)
      BY <1>3, BelowPosition
    <2>3. Len(seq) = Cardinality(last_ch_active)
          /\ seq[Position(last_ch_active, c)] = c
      BY <1>3, <2>1, ProgrammedIs
    <2>4. Cardinality(last_ch_active) \in Nat /\ Cardinality(last_ch_active) <= n
      BY <1>3, <1>4, ChannelSets
    <2> QED
      BY <2>1, <2>2, <2>3, <2>4
  <1>10. \A c \in last_ch_active : Value(c)' = Volt[c]
    <2>1. UNCHANGED <<value_ptr, last_ch_active>>
      BY <1>1 DEF channel, device
    <2> QED
      BY <1>7, <1>9, <2>1 DEF Value
  <1>11. Converted'
    BY <1>1, <1>10 DEF Converted, device
  <1>12. TypeOK'
    <2>1. \A c \in Channels : Resized(c)' <=> Resized(c)
      BY <1>1 DEF Resized, At, Ch
    <2> QED
      BY <1>1, <1>2, <1>4, <1>7, <2>1 DEF TypeOK, channel, device, ghosts
  <1>13. InPlace' /\ Placed' /\ Own'
    BY <1>1, StillPlaced, StillOwn DEF IInv, InPlace, channel, device, ghosts
  <1>14. MainKnows'
    BY <1>1, SameMain DEF IInv, channel, ghosts
  <1>15. FilterKnows'
    <2>1. \A c \in Channels : Resizing(c) => Resizing(c)'
      BY <1>1 DEF Resizing, Ch
    <2> QED
      BY <1>1, <2>1, StillRings DEF IInv, channel, ghosts
  <1> QED
    BY <1>8, <1>11, <1>12, <1>13, <1>14, <1>15 DEF IInv

LEMMA TickKeeps ==
    ASSUME IInv, Tick
    PROVE  IInv'
  <1>1. /\ converting' = TRUE
        /\ UNCHANGED <<channel, device, sample_buf, irq, nvic, trigger, main, ghosts>>
    BY DEF Tick
  <1>2. \A c \in Channels : (Resized(c)' <=> Resized(c)) /\ (Resizing(c) => Resizing(c)')
    BY <1>1 DEF Resized, Resizing, At, Ch
  <1>3. TypeOK'
    BY <1>1, <1>2 DEF IInv, TypeOK, channel, device, ghosts
  <1>4. MainKnows' /\ Own'
    BY <1>1, SameMain, StillOwn DEF IInv, channel, ghosts
  <1> QED
    BY <1>1, <1>2, <1>3, <1>4, Calm DEF channel, device, ghosts

-----------------------------------------------------------------------------
(* What the interrupt handler does to the buffers and to the filters.         *)

(* The filter of c takes a sample in: it warms up, and is not being resized.  *)
Feeds(c) == c \in last_ch_active /\ WarmsUp(c) /\ ~Resizing(c) /\ c \notin raced

LEMMA IsrFilters ==
    ASSUME IInv, Isr
    PROVE  /\ smooth' = [c \in Channels |-> IF Feeds(c)
                           THEN Smoothed(smooth[c], logsmoothlen[c], Value(c))
                           ELSE smooth[c]]
           /\ raced' = raced \cup {c \in last_ch_active : WarmsUp(c) /\ Resizing(c)}
           /\ buf' = [c \in Channels |-> IF c \in last_ch_active THEN IsrBuf(c)
                                         ELSE buf[c]]
           /\ torn' = torn \cup {c \in last_ch_active : Tears(c)}
  <1>1. Range(seq) = last_ch_active
    BY IsrChanges DEF IInv
  <1> DEFINE smoothing == {c \in Range(seq) : WarmsUp(c)}
             racing == {c \in smoothing : Resizing(c)}
  <1>2. /\ buf' = [c \in Channels |-> IF c \in Range(seq) THEN IsrBuf(c) ELSE buf[c]]
        /\ smooth' = [c \in Channels |-> IF c \in smoothing \ (racing \cup raced)
                        THEN Smoothed(smooth[c], logsmoothlen[c], Value(c))
                        ELSE smooth[c]]
        /\ raced' = raced \cup racing
        /\ torn' = torn \cup {c \in Range(seq) : Tears(c)}
    BY DEF Isr
  <1>3. racing = {c \in last_ch_active : WarmsUp(c) /\ Resizing(c)}
    BY <1>1
  <1>4. \A c : c \in smoothing \ (racing \cup raced) <=> Feeds(c)
    BY <1>1 DEF Feeds
  <1> HIDE DEF smoothing, racing
  <1> QED
    BY <1>1, <1>2, <1>3, <1>4

(* A filter that is fed stays a ring, and is whole when its index wraps.      *)
LEMMA FedRing ==
    ASSUME IInv, Isr, NEW c \in Channels, Feeds(c)
    PROVE  /\ smooth'[c] \in Filter /\ RingOf(smooth'[c], logsmoothlen[c])
           /\ Wraps(smooth[c], logsmoothlen[c]) => Full(smooth'[c])
           /\ Full(smooth[c]) => Full(smooth'[c])
  <1>1. PICK s \in Filter : s = smooth[c]
    BY DEF IInv, TypeOK
  <1>2. PICK log \in Nat : log = logsmoothlen[c]
    BY DEF IInv, TypeOK
  <1>3. PICK v \in Int : v = Value(c) /\ v # 0
    BY IsrReads DEF IInv, Feeds
  <1>4. smooth'[c] = Smoothed(s, log, v)
    BY <1>1, <1>2, <1>3, IsrFilters
  <1>5. RingOf(s, log)
    BY <1>1, <1>2 DEF IInv, FilterKnows, Rings, Feeds, WarmsUp
  <1>6. PICK t : t = Smoothed(s, log, v)
    OBVIOUS
  <1>7. /\ t \in Filter /\ RingOf(t, log)
        /\ Wraps(s, log) => Full(s)
        /\ Full(s) => Full(t)
    BY <1>3, <1>5, <1>6, RingGrows
  <1> QED
    BY <1>1, <1>2, <1>4, <1>6, <1>7

LEMMA IsrBuffers ==
    ASSUME IInv, Isr, NEW c \in Channels
    PROVE  /\ buf'[c] \in Ring
           /\ Len(buf'[c].elems) <= buf'[c].size + 1 \/ Resized(c)
           /\ Within(buf'[c].elems, Sources(c)')
  <1>1. PICK b \in Ring : b = buf[c]
    BY DEF IInv, TypeOK
  <1>2. Len(b.elems) <= b.size + 1 \/ Resized(c)
    BY <1>1 DEF IInv, TypeOK
  <1>3. Within(b.elems, Sources(c)')
    <2>1. Within(b.elems, Sources(c))
      BY <1>1 DEF IInv, Own
    <2>2. Sources(c) \subseteq Sources(c)'
      BY IsrFilters DEF Sources
    <2> QED
      BY <2>1, <2>2 DEF Within
  <1>4. CASE c \in last_ch_active /\ Writes(c)
    <2>1. PICK v \in Int : /\ v = IF c \in torn \/ Tears(c) THEN Stray ELSE Value(c)
                           /\ v \in Sources(c)'
      <3>1. Value(c) = Volt[c] /\ Value(c) \in Int /\ Stray \in Int
        BY <1>4, IsrReads DEF IInv, Stray
      <3>2. c \in torn' <=> (c \in torn \/ Tears(c))
        BY <1>4, IsrFilters
      <3> QED
        BY <3>1, <3>2 DEF Sources
    <2>2. PICK w : w = BufWrite(b, v)
      OBVIOUS
    <2>3. buf'[c] = w
      BY <1>1, <1>4, <2>1, <2>2, IsrFilters DEF IsrBuf
    <2>4. PICK S : S = Sources(c)'
      OBVIOUS
    <2>5. /\ w \in Ring /\ (w = b \/ Len(w.elems) <= w.size + 1)
          /\ Within(b.elems, S) => Within(w.elems, S)
      BY <2>1, <2>2, <2>4, Written
    <2> QED
      BY <1>2, <1>3, <2>3, <2>4, <2>5
  <1>5. CASE ~(c \in last_ch_active /\ Writes(c))
    <2>1. buf'[c] = b
      BY <1>1, <1>5, IsrFilters DEF IsrBuf
    <2> QED
      BY <1>2, <1>3, <2>1
  <1> QED
    BY <1>4, <1>5

LEMMA IsrKeeps ==
    ASSUME IInv, Isr
    PROVE  IInv'
  <1>1. TypeOK /\ InPlace /\ Converted /\ Placed /\ FilterKnows /\ MainKnows /\ NoZero
    BY DEF IInv
  <1>2. /\ UNCHANGED <<clocked, reqsamples, logsmoothlen, sample_buf, main, calls,
                       stalled>>
        /\ irq' = FALSE
        /\ running' \in BOOLEAN /\ nvic' \in BOOLEAN /\ converting' \in BOOLEAN
        /\ trigger' \in BOOLEAN
    <2>1. running \in BOOLEAN /\ converting \in BOOLEAN
      BY <1>1 DEF TypeOK
    <2> DEFINE stopped == {c \in Range(seq) : Satisfied(c)}
               halts == Halts(stopped, ch_active \ stopped)
               updates == running' /\ Changes(ch_active \ stopped)
    <2>2. /\ UNCHANGED <<clocked, reqsamples, logsmoothlen, sample_buf, main, calls,
                         stalled>>
          /\ irq' = FALSE /\ running' = (running /\ ~halts) /\ nvic' = ~halts
          /\ trigger' = (~halts /\ IF updates THEN clocked ELSE trigger)
          /\ converting' = ((converting /\ ~updates) \/ (running' /\ ~clocked))
      BY DEF Isr
    <2> HIDE DEF halts, updates
    <2> QED
      BY <2>1, <2>2
  <1>3. /\ Range(seq) = last_ch_active
        /\ flags' \in [Channels -> Flag] /\ seq' \in Seq(Channels)
        /\ value_ptr' \in [Channels -> 0..Cardinality(Channels)]
        /\ last_ch_active' \subseteq Channels /\ ch_active' \subseteq Channels
        /\ InPlace'
    BY <1>1, IsrChanges
  <1>4. \A c \in Channels :
          /\ flags'[c].smooth_ready =
               (flags[c].smooth_ready
                  \/ (/\ c \in last_ch_active /\ WarmsUp(c)
                      /\ Wraps(smooth[c], logsmoothlen[c])))
          /\ flags'[c].value_fresh => flags[c].value_fresh \/ c \in last_ch_active
          /\ value_ptr[c] # 0 => value_ptr'[c] # 0
    BY <1>1, IsrChanges
  <1>5. last_ch_active \in SUBSET Channels
    BY <1>1 DEF TypeOK
  <1>6. /\ raced' = raced \cup {c \in last_ch_active : WarmsUp(c) /\ Resizing(c)}
        /\ raced' \in SUBSET Channels
    BY <1>1, <1>5, IsrFilters DEF TypeOK
  <1>7. \A c \in Channels : ~Feeds(c) => smooth'[c] = smooth[c]
    BY IsrFilters
  <1>8. smooth' \in [Channels -> Filter]
    <2>1. \A c \in Channels : smooth'[c] \in Filter
      BY <1>1, <1>7, FedRing DEF TypeOK
    <2> QED
      BY <2>1, IsrFilters
  <1>9. buf' \in [Channels -> Ring]
    BY IsrBuffers, IsrFilters
  <1>10. TypeOK'
    <2>1. \A c \in Channels : Len(buf'[c].elems) <= buf'[c].size + 1 \/ Resized(c)'
      <3>1. \A c \in Channels : Resized(c)' <=> Resized(c)
        BY <1>2 DEF Resized, At, Ch
      <3> QED
        BY <3>1, IsrBuffers
    <2>2. torn' \in SUBSET Channels
      BY <1>5, IsrFilters, Types
    <2> QED
      BY <1>1, <1>2, <1>3, <1>6, <1>8, <1>9, <2>1, <2>2 DEF TypeOK
  <1>11. Own'
    BY IsrBuffers DEF Own
  <1>12. Converted' /\ NoZero'
    BY <1>1, <1>2 DEF Converted, NoZero
  <1>13. Placed'
    <2>1. \A c \in last_ch_active : value_ptr[c] # 0
      BY <1>1, IsrReads
    <2> QED
      BY <1>1, <1>4, <2>1 DEF Placed
  <1>14. \A c \in Channels : Resizing(c)' <=> Resizing(c)
    BY <1>2 DEF Resizing, Ch
  <1>15. FilterKnows'
    <2> SUFFICES ASSUME NEW c \in Channels, logsmoothlen[c] > 0, c \notin raced',
                        ~Resizing(c)
                 PROVE  Rings(c)'
      BY <1>2, <1>14 DEF FilterKnows
    <2>1. c \notin raced /\ Rings(c)
      BY <1>1, <1>6 DEF FilterKnows
    <2>2. CASE Feeds(c)
      <3>1. /\ RingOf(smooth'[c], logsmoothlen[c])
            /\ Wraps(smooth[c], logsmoothlen[c]) => Full(smooth'[c])
        BY <2>2, FedRing
      <3>2. flags'[c].smooth_ready => Full(smooth'[c])
        BY <1>4, <2>2, <3>1 DEF Feeds, WarmsUp
      <3> QED
        BY <1>2, <3>1, <3>2 DEF Rings
    <2>3. CASE ~Feeds(c)
      <3>1. ~(c \in last_ch_active /\ WarmsUp(c))
        BY <2>1, <2>3 DEF Feeds
      <3>2. flags'[c].smooth_ready => flags[c].smooth_ready
        BY <1>4, <3>1
      <3>3. smooth'[c] = smooth[c]
        BY <1>7, <2>3
      <3> QED
        BY <1>2, <2>1, <3>2, <3>3 DEF Rings
    <2> QED
      BY <2>2, <2>3
  <1>16. MainKnows'
    <2>1. UNCHANGED <<main, logsmoothlen>> /\ Ch' = Ch /\ raced \subseteq raced'
      BY <1>2, <1>6 DEF Ch
    <2>2. main \in Locals
      BY <1>1 DEF TypeOK
    <2>3. main.pc # "idle" => Ch \in Channels
      <3>1. main.todo \in Seq(Channels)
        BY <2>2 DEF Locals
      <3>2. main.pc # "idle" => main.todo # << >>
        BY <1>1 DEF MainKnows
      <3> QED
        BY <3>1, <3>2 DEF Ch
    <2>4. ASSUME Resizing(Ch), Ch \in Channels
          PROVE  /\ smooth'[Ch] = smooth[Ch]
                 /\ Ch \notin raced' /\ logsmoothlen[Ch] > 0
                      => flags'[Ch].smooth_ready = flags[Ch].smooth_ready
      <3>1. ~Feeds(Ch)
        BY <2>4 DEF Feeds
      <3>2. Ch \notin raced' => ~(Ch \in last_ch_active /\ WarmsUp(Ch))
        BY <1>6, <2>4
      <3>3. PICK b \in BOOLEAN : b = flags[Ch].smooth_ready
        BY <1>1, <2>4 DEF TypeOK, Flag
      <3> QED
        BY <1>4, <1>7, <2>4, <3>1, <3>2, <3>3
    <2>5. At("store") => Storing'
      <3> SUFFICES ASSUME At("store") PROVE Storing'
        OBVIOUS
      <3>1. Storing /\ Ch \in Channels /\ main.todo # << >>
        BY <1>1, <2>3 DEF MainKnows, At
      <3>2. main.bits.smooth_ready => flags'[Ch].smooth_ready
        BY <1>4, <3>1 DEF Storing
      <3>3. main.bits.value_fresh => value_ptr'[Ch] # 0
        BY <1>4, <3>1 DEF Storing
      <3>4. main.then = "zero" => Flushed(Ch)'
        <4> SUFFICES ASSUME main.then = "zero" PROVE Flushed(Ch)'
          OBVIOUS
        <4>1. Resizing(Ch)
          BY <3>1 DEF Resizing, At
        <4>2. smooth'[Ch] = smooth[Ch] /\ Flushed(Ch)
          BY <2>4, <3>1, <4>1 DEF Storing
        <4> QED
          BY <2>1, <4>2 DEF Flushed
      <3>5. main.field = "smooth_ready" /\ main.value => flags'[Ch].smooth_ready
        BY <1>4, <3>1 DEF Storing
      <3> QED
        BY <2>1, <3>1, <3>2, <3>3, <3>4, <3>5 DEF Storing
    <2>6. At("flush") \/ At("zero") => smooth'[Ch] = smooth[Ch] /\ Resizing(Ch)
      <3>1. At("flush") \/ At("zero") => Resizing(Ch) /\ Ch \in Channels
        BY <1>1, <2>3 DEF Resizing, MainKnows, At
      <3> QED
        BY <2>4, <3>1
    <2>7. At("zero") => Flushed(Ch)' /\ (Ch \notin raced' => ~flags'[Ch].smooth_ready)
      <3> SUFFICES ASSUME At("zero")
                   PROVE  Flushed(Ch)' /\ (Ch \notin raced' => ~flags'[Ch].smooth_ready)
        OBVIOUS
      <3>1. /\ Flushed(Ch) /\ (Ch \notin raced => ~flags[Ch].smooth_ready)
            /\ Ch \in Channels
        BY <1>1, <2>3 DEF MainKnows, At
      <3>2. Flushed(Ch)'
        BY <2>1, <2>6, <3>1 DEF Flushed
      <3>3. Ch \notin raced' => ~(Ch \in last_ch_active /\ WarmsUp(Ch))
        BY <1>6, <2>6
      <3> QED
        BY <1>4, <2>1, <3>1, <3>2, <3>3
    <2>8. Asking'
      BY <1>1, <2>1 DEF MainKnows, Asking, Sampling, At
    <2> QED
      BY <1>1, <2>1, <2>5, <2>6, <2>7, <2>8 DEF MainKnows, At
  <1> QED
    BY <1>3, <1>10, <1>11, <1>12, <1>13, <1>15, <1>16 DEF IInv

-----------------------------------------------------------------------------
(* The invariant holds at first and is kept by every step.                    *)

LEMMA InitKnows == Init => IInv
  <1> SUFFICES ASSUME Init PROVE IInv
    OBVIOUS
  <1>1. PICK n \in Nat : n = Cardinality(Channels)
    BY AdcAssumption, ChannelSets
  <1>2. PICK none : none = << >> /\ none \in Seq(Int) /\ none \in Seq(Channels)
                    /\ Len(none) = 0
    <2>1. << >> \in Seq(Int) /\ << >> \in Seq(Channels) /\ Len(<< >>) = 0
      OBVIOUS
    <2> QED
      BY <2>1
  <1>3. PICK z \in Nat : z = 0
    OBVIOUS
  <1>4. flags \in [Channels -> Flag]
        /\ \A c \in Channels : flags[c].value_fresh = FALSE
    BY DEF Init, Flag
  <1>5. smooth \in [Channels -> Filter]
    <2>1. [idx |-> z, sum |-> z, cells |-> none] \in Filter
      BY <1>2 DEF Filter
    <2>2. smooth = [c \in Channels |-> [idx |-> z, sum |-> z, cells |-> none]]
      BY <1>2, <1>3 DEF Init
    <2> QED
      BY <2>1, <2>2
  <1>6. buf \in [Channels -> Ring]
        /\ \A c \in Channels : Len(buf[c].elems) <= buf[c].size + 1
                               /\ Within(buf[c].elems, Sources(c))
    <2>1. PICK two \in Nat : two = 2
      OBVIOUS
    <2>2. PICK b \in Ring : b = [size |-> two, elems |-> none]
      BY <1>2, <2>1 DEF Ring
    <2>3. buf = [c \in Channels |-> b]
      BY <1>2, <2>1, <2>2 DEF Init
    <2>4. b.size = 2 /\ Len(b.elems) = 0
      BY <1>2, <2>1, <2>2
    <2> QED
      BY <2>2, <2>3, <2>4 DEF Within
  <1>7. sample_buf \in [1..n -> Int] /\ \A i \in 1..n : sample_buf[i] = -1
    BY <1>1 DEF Init, Unconverted
  <1>8. seq \in Seq(Channels)
    BY <1>2 DEF Init
  <1>9. value_ptr \in [Channels -> 0..n]
    BY DEF Init
  <1>10. /\ reqsamples \in [Channels -> Nat] /\ logsmoothlen \in [Channels -> Nat]
         /\ \A c \in Channels : reqsamples[c] = 0 /\ logsmoothlen[c] = 0
    BY DEF Init
  <1>11. main = NoLocals /\ main \in Locals
    BY NoLocalsFine DEF Init
  <1>12. /\ ch_active = {} /\ last_ch_active = {} /\ raced = {} /\ calls = 0
         /\ running = FALSE /\ converting = FALSE /\ irq = FALSE /\ nvic = FALSE
         /\ clocked = FALSE /\ trigger = FALSE /\ torn = {}
         /\ stalled = FALSE /\ seq = << >>
    BY DEF Init
  <1>13. calls \in 0..MaxCalls
    BY <1>12, AdcAssumption
  <1>14. TypeOK
    <2>1. {running, clocked, converting, irq, nvic, trigger, stalled} \subseteq BOOLEAN
      BY <1>12
    <2>2. ch_active \subseteq Channels /\ last_ch_active \subseteq Channels
          /\ raced \subseteq Channels /\ torn \subseteq Channels
      BY <1>12
    <2>3. \A c \in Channels :
            /\ ~(reqsamples[c] > 0)
            /\ logsmoothlen[c] \in LogLengths \cup {0}
            /\ Len(buf[c].elems) <= buf[c].size + 1
      BY <1>6, <1>10
    <2>4. sample_buf \in [1..Cardinality(Channels) -> Int]
          /\ value_ptr \in [Channels -> 0..Cardinality(Channels)]
      BY <1>1, <1>7, <1>9
    <2>5. buf \in [Channels -> Ring]
      BY <1>6
    <2> QED
      BY <1>4, <1>5, <1>8, <1>10, <1>11, <1>13, <2>1, <2>2, <2>3, <2>4, <2>5 DEF TypeOK
  <1>15. InPlace
    <2>1. Cardinality({}) = 0
      BY FS_EmptySet
    <2>2. PICK s : s = Programmed({})
      OBVIOUS
    <2>3. s \in Seq(Channels) /\ Len(s) = 0
      BY <2>1, <2>2, ProgrammedIs
    <2>4. s = << >>
      BY <2>3, EmptySeq
    <2> QED
      BY <1>12, <2>2, <2>4 DEF InPlace
  <1>16. Converted /\ NoZero /\ Placed /\ Own
    <2>1. Converted
      BY <1>12 DEF Converted
    <2>2. NoZero
      <3>1. \A i \in 1..n : sample_buf[i] # 0
        BY <1>7
      <3> QED
        BY <1>1, <3>1 DEF NoZero
    <2>3. Placed /\ Own
      BY <1>4, <1>6 DEF Placed, Own
    <2> QED
      BY <2>1, <2>2, <2>3
  <1>17. MainKnows
    BY <1>11 DEF MainKnows, NoLocals, Asking, Sampling, At
  <1>18. FilterKnows
    BY <1>10 DEF FilterKnows
  <1> QED
    BY <1>14, <1>15, <1>16, <1>17, <1>18 DEF IInv

LEMMA StutterKeeps ==
    ASSUME IInv, UNCHANGED vars
    PROVE  IInv'
  <1>1. UNCHANGED <<channel, device, hardware, main, ghosts>>
    BY DEF vars
  <1>2. /\ UNCHANGED <<channel, device, hardware, raced, torn>>
        /\ main' = main /\ calls' = calls /\ stalled' = stalled
    BY <1>1 DEF ghosts
  <1>3. main' \in Locals /\ calls' \in 0..MaxCalls /\ stalled' \in BOOLEAN
    BY <1>2 DEF IInv, TypeOK
  <1>4. \A c \in Channels : Resizing(c) => Resizing(c)'
    BY <1>2 DEF Resizing, Ch
  <1>5. MainKnows'
    BY <1>2, SameMain DEF IInv, channel
  <1> QED
    BY <1>2, <1>3, <1>4, <1>5, OnlyMain

LEMMA NextKeeps == IInv /\ [Next]_vars => IInv'
  <1> SUFFICES ASSUME IInv, [Next]_vars PROVE IInv'
    OBVIOUS
  <1>1. CASE Dma
    BY <1>1, DmaKeeps
  <1>2. CASE Isr
    BY <1>2, IsrKeeps
  <1>6. CASE Tick
    BY <1>6, TickKeeps
  <1>3. CASE MainStep
    <2>1. CASE Setup \/ SetupFails \/ FlushCount \/ FlushPointers \/ Request \/ Pend
      BY <2>1, SetupKeeps, SetupFailsKeeps, FlushCountKeeps, FlushPointersKeeps,
         RequestKeeps, PendKeeps
    <2>2. CASE LoadActive \/ Activated \/ Start \/ Program \/ Run \/ TriggerFirst
      BY <2>2, LoadActiveKeeps, ActivatedKeeps, StartKeeps, ProgramKeeps, RunKeeps,
         TriggerFirstKeeps
    <2>3. CASE Wait \/ GetNothing \/ Take \/ GetFresh \/ GetBuffered \/ Count
      BY <2>3, WaitKeeps, GetNothingKeeps, TakeKeeps, GetFreshKeeps, GetBufferedKeeps,
         CountKeeps
    <2>4. CASE Store \/ Unpend \/ Inactivated \/ Stop \/ Untrigger \/ Halt
      BY <2>4, StoreKeeps, UnpendKeeps, InactivatedKeeps, StopKeeps, UntriggerKeeps,
         HaltKeeps
    <2>5. CASE Retime \/ Reclock \/ Clock
      BY <2>5, RetimeKeeps, ReclockKeeps, ClockKeeps
    <2>6. CASE StopFirst \/ Length \/ Realloc \/ ReallocFails \/ Flush \/ Zero
      BY <2>6, StopFirstKeeps, LengthKeeps, ReallocKeeps, ReallocFailsKeeps, FlushKeeps,
         ZeroKeeps
    <2> QED
      BY <1>3, <2>1, <2>2, <2>3, <2>4, <2>5, <2>6 DEF MainStep
  <1>4. CASE MainCalls
    BY <1>4, SampleKeeps, GetSamplesKeeps, SetClockKeeps, SetBlockingKeeps,
       SetSmoothingKeeps DEF MainCalls
  <1>5. CASE UNCHANGED vars
    BY <1>5, StutterKeeps
  <1> QED
    BY <1>1, <1>2, <1>3, <1>4, <1>5, <1>6 DEF Next

LEMMA Invariance == Spec => []IInv
  BY InitKnows, NextKeeps, PTL DEF Spec

-----------------------------------------------------------------------------
(* Every variable of the sampling has its type: no place of a channel lies    *)
(* outside of sample_buf, no buffer grows past its size and one element, and  *)
(* no channel asks for more samples than a call of adc.sample has asked for.  *)
THEOREM TypeCorrect == Spec => []TypeOK
  <1>1. IInv => TypeOK
    BY DEF IInv
  <1> QED
    BY <1>1, Invariance, PTL

(* What waits in the buffer of a channel was converted on it: DMA1's handler  *)
(* reads the place that adc_update_dev_sequence gave the channel, and the     *)
(* conversions in sample_buf are those of the sequence it programmed.  That   *)
(* holds of every buffer that no interrupt has torn: that is from the first   *)
(* store of a buf_flush on, if no interrupt that wrote to the buffer came     *)
(* between this store and the last one, until buf_set resizes it.             *)
THEOREM BufferedSamplesOwn == Spec => []BufferedOwn
  <1>1. IInv => BufferedOwn
    <2> SUFFICES ASSUME IInv, NEW c \in Channels \ torn
                 PROVE  Range(buf[c].elems) \subseteq {Volt[c]}
      BY DEF BufferedOwn
    <2>1. PICK b \in Ring : b = buf[c]
      BY DEF IInv, TypeOK
    <2>2. b.elems \in Seq(Int)
      BY DEF Ring
    <2>3. Within(b.elems, {Volt[c]})
      BY <2>1 DEF IInv, Own, Sources
    <2> QED
      BY <2>1, <2>2, <2>3, RangeWithin
  <1> QED
    BY <1>1, Invariance, PTL

(* The filter that adc_smooth_data feeds, first from the interrupt and then   *)
(* from the main program, is an average over all of its ring as soon as       *)
(* smooth_ready says so, and its sum is the sum of its cells, for any length  *)
(* and however often adc_update_smoothing changes it.                         *)
THEOREM FilterAverages == Spec => []AverageOfRing
  <1>1. IInv => AverageOfRing
    <2> SUFFICES ASSUME IInv, NEW c \in Channels,
                        logsmoothlen[c] > 0 /\ c \notin raced /\ ~Resizing(c)
                 PROVE  LET s == smooth[c]
                        IN  /\ Len(s.cells) = Realsize(logsmoothlen[c])
                            /\ s.idx \in 0..Len(s.cells)
                            /\ s.sum = FoldSeq(+, 0, s.cells)
                            /\ flags[c].smooth_ready => 0 \notin Range(s.cells)
      BY DEF AverageOfRing
    <2>1. Rings(c)
      BY DEF IInv, FilterKnows
    <2>2. smooth[c].cells \in Seq(Int)
      BY DEF IInv, TypeOK, Filter
    <2>3. DOMAIN smooth[c].cells = 1..Len(smooth[c].cells)
      BY <2>2, LenProperties
    <2>4. Full(smooth[c]) => 0 \notin Range(smooth[c].cells)
      BY <2>3 DEF Full, Range
    <2> QED
      BY <2>1, <2>4 DEF Rings, RingOf, Total
  <1> QED
    BY <1>1, Invariance, PTL
=============================================================================
