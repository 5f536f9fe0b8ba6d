----------------------------- MODULE BufProofs -----------------------------
(***************************************************************************)
(* Theorems about Buf, for every set of sizes, every kind of data and all  *)
(* devices: what the receive interrupt and the main program can rely on at *)
(* every statement.                                                        *)
(***************************************************************************)
EXTENDS Buf, Integers, TLAPS

----------------------------------------------------------------------------
(* Arithmetic on the ring                                                  *)

\* What division with remainder is.
LEMMA Division ==
    ASSUME NEW a \in Nat, NEW n \in Nat \ {0}
    PROVE  /\ a = n * (a \div n) + (a % n)
           /\ a % n \in 0 .. n - 1
           /\ a \div n \in Int
  BY SMT

\* A larger factor makes a product larger by a whole n.
LEMMA WholeStep ==
    ASSUME NEW n \in Nat \ {0}, NEW x \in Int, NEW y \in Int, x >= y + 1
    PROVE  n * x >= n * y + n
  BY SMT

\* Quotient and remainder are unique.
LEMMA ModUnique ==
    ASSUME NEW n \in Nat \ {0}, NEW a \in Nat, NEW q \in Int,
           NEW r \in 0 .. n - 1, a = n * q + r
    PROVE  a % n = r
  <1> DEFINE p == a \div n
             s == a % n
  <1>1. n * q + r = n * p + s /\ s \in 0 .. n - 1 /\ p \in Int
    BY Division
  <1>2. CASE q >= p + 1
    <2>1. n * q >= n * p + n
      BY <1>1, <1>2, WholeStep
    <2> QED
      BY <2>1, <1>1, SMT
  <1>3. CASE p >= q + 1
    <2>1. n * p >= n * q + n
      BY <1>1, <1>3, WholeStep
    <2> QED
      BY <2>1, <1>1, SMT
  <1>4. CASE p = q
    BY <1>1, <1>4, SMT
  <1> QED
    BY <1>1, <1>2, <1>3, <1>4, SMT

\* A remainder can be taken before an addition.
LEMMA ModAdd ==
    ASSUME NEW a \in Nat, NEW b \in Nat, NEW n \in Nat \ {0}
    PROVE  ((a % n) + b) % n = (a + b) % n
  <1> DEFINE q == a \div n
             r == a % n
  <1>1. a = n * q + r /\ r \in 0 .. n - 1 /\ q \in Int
    BY Division
  <1> HIDE DEF q, r
  <1> DEFINE p == (r + b) \div n
             s == (r + b) % n
  <1>2. r + b = n * p + s /\ s \in 0 .. n - 1 /\ p \in Int
    <2>1. r + b \in Nat
      BY <1>1, SMT
    <2> QED
      BY <2>1, Division
  <1> HIDE DEF p, s
  <1>3. n * (q + p) = n * q + n * p
    BY <1>1, <1>2, SMT
  <1>4. a + b = n * (q + p) + s
    BY <1>1, <1>2, <1>3, SMT
  <1>5. (a + b) % n = s
    <2>1. a + b \in Nat /\ q + p \in Int
      BY <1>1, <1>2, SMT
    <2> QED
      BY <2>1, <1>2, <1>4, ModUnique
  <1> QED
    BY <1>5 DEF r, s

\* Two positions less than a whole ring apart are different slots.
LEMMA ModApart ==
    ASSUME NEW a \in Nat, NEW n \in Nat \ {0}, NEW j \in 1 .. n - 1
    PROVE  (a + j) % n # a % n
  <1> SUFFICES ASSUME (a + j) % n = a % n PROVE FALSE
    OBVIOUS
  <1> DEFINE q == a \div n
             p == (a + j) \div n
             r == a % n
  <1>1. a = n * q + r /\ r \in 0 .. n - 1 /\ q \in Int
    BY Division
  <1>2. a + j = n * p + r /\ p \in Int
    <2>1. a + j \in Nat
      BY SMT
    <2> QED
      BY <2>1, Division
  <1> HIDE DEF q, p, r
  <1>3. n * p = n * q + j
    BY <1>1, <1>2, SMT
  <1>4. CASE p >= q + 1
    <2>1. n * p >= n * q + n
      BY <1>1, <1>2, <1>4, WholeStep
    <2> QED
      BY <2>1, <1>1, <1>2, <1>3, SMT
  <1>5. CASE q >= p + 1
    <2>1. n * q >= n * p + n
      BY <1>1, <1>2, <1>5, WholeStep
    <2> QED
      BY <2>1, <1>1, <1>2, <1>3, SMT
  <1>6. CASE p = q
    BY <1>1, <1>3, <1>6, SMT
  <1> QED
    BY <1>1, <1>2, <1>4, <1>5, <1>6, SMT

\* A position inside the ring is its own slot.
LEMMA ModSmall ==
    ASSUME NEW n \in Nat \ {0}, NEW a \in 0 .. n - 1
    PROVE  a % n = a
  <1>1. a = n * 0 + a
    BY SMT
  <1> QED
    BY <1>1, ModUnique

----------------------------------------------------------------------------
(* Types, the bound on the count, and failures                             *)

\* What is true at each statement besides the types: an element is only
\* counted off a buffer in use, and the history is as long as the count.
Counted ==
    /\ pc \in {"count", "rptr"} => size # NONE
    /\ pc = "count" => count > 0
    /\ pc = "realloc" => size = req
    /\ Len(unread) = count

TInv == TypeOK /\ Counted /\ CountBounded

\* MaxSize is what its name says, and the ring has room for every size.
LEMMA MaxSizeIsMax ==
    /\ MaxSize \in Nat \ {0}
    /\ \A n \in Sizes : n \in Nat \ {0} /\ n <= MaxSize
  <1>1. \E m \in Sizes : \A r \in Sizes : r <= m
    BY SizesAssumption
  <1>2. MaxSize \in Sizes /\ \A r \in Sizes : r <= MaxSize
    BY <1>1 DEF MaxSize
  <1> QED
    BY <1>2, SizesAssumption

\* Advancing a pointer keeps it inside the ring.
LEMMA ModIncrInRing ==
    ASSUME size \in Sizes, NEW p \in Cells
    PROVE  ModIncr(p) \in 0 .. size - 1 /\ ModIncr(p) \in Cells
  <1>1. p + 1 \in Nat /\ size \in Nat \ {0} /\ size <= MaxSize
    BY MaxSizeIsMax DEF Cells
  <1>2. (p + 1) % size \in 0 .. size - 1
    BY <1>1, Division
  <1> QED
    BY <1>1, <1>2, MaxSizeIsMax DEF ModIncr, Cells

\* The buffer starts well-typed and empty.
LEMMA TypeInit == Init => TInv
  BY MaxSizeIsMax
     DEF Init, TInv, TypeOK, Counted, CountBounded, Cells, Labels, NONE

\* Every statement, and the interrupt between any two, keeps the types, the
\* count and the history together.
LEMMA TypeStep == TInv /\ [Next]_vars => TInv'
  <1> SUFFICES ASSUME TInv, [Next]_vars PROVE TInv'
    OBVIOUS
  <1> USE DEF TInv
  <1>1. ASSUME NEW d \in Data, buf_write(d) PROVE TInv'
    <2>1. size \in Sizes /\ size <= MaxSize /\ size \in Nat /\ MaxSize \in Nat
      BY <1>1, MaxSizeIsMax DEF buf_write, TypeOK
    <2>2. ModIncr(wptr) \in Cells
      BY <2>1, ModIncrInRing DEF TypeOK
    <2>3. mem' \in [Cells -> Data \cup {Junk}]
      BY <1>1 DEF buf_write, TypeOK
    <2>4. unread' \in Seq(Data) /\ Len(unread') = Len(unread) + 1
      BY <1>1 DEF buf_write, TypeOK
    <2>5. TypeOK'
      BY <1>1, <2>2, <2>3, <2>4 DEF buf_write, TypeOK, mainVars
    <2>6. Counted' /\ CountBounded'
      BY <1>1, <2>1, <2>4
         DEF buf_write, Room, Counted, CountBounded, TypeOK, mainVars
    <2> QED
      BY <2>5, <2>6
  <1>2. CASE ReadCopy
    <2>1. mem[rptr] \in Data \cup {Junk}
      BY DEF TypeOK
    <2> QED
      BY <1>2, <2>1
         DEF ReadCopy, TypeOK, Labels, Counted, CountBounded, bufVars, histVars
  <1>3. CASE ReadCount
    <2>1. unread # <<>>
      BY <1>3 DEF ReadCount, Counted, TypeOK
    <2>2. unread' \in Seq(Data) /\ Len(unread') = Len(unread) - 1
      BY <1>3, <2>1 DEF ReadCount, TypeOK
    <2>3. count' = count - 1 /\ count' \in Nat
      BY <1>3 DEF ReadCount, Counted, TypeOK
    <2>4. TypeOK'
      BY <1>3, <2>2, <2>3 DEF ReadCount, TypeOK, Labels
    <2> QED
      BY <1>3, <2>2, <2>3, <2>4, MaxSizeIsMax
         DEF ReadCount, Counted, CountBounded, TypeOK
  <1>4. CASE ReadAdvance
    <2>1. ModIncr(rptr) \in Cells
      BY <1>4, ModIncrInRing DEF ReadAdvance, Counted, TypeOK
    <2> QED
      BY <1>4, <2>1
         DEF ReadAdvance, TypeOK, Labels, Counted, CountBounded, histVars
  <1>5. ASSUME NEW n \in Sizes \cup {NONE}, SetSize(n) PROVE TInv'
    BY <1>5 DEF SetSize, TypeOK, Labels, Counted, CountBounded
  <1>6. CASE ReallocOk
    BY <1>6
       DEF ReallocOk, TypeOK, Labels, Counted, CountBounded, NONE, histVars
  <1>7. CASE ReallocFail
    BY <1>7 DEF ReallocFail, TypeOK, Labels, Counted, CountBounded, histVars
  <1>8. CASE FailNone
    BY <1>8 DEF FailNone, TypeOK, Labels, Counted, CountBounded, histVars
  <1>9. CASE FailZero
    BY <1>9, MaxSizeIsMax
       DEF FailZero, TypeOK, Labels, Cells, Counted, CountBounded
  <1>10. CASE FlushCount
    <2>1. unread' \in Seq(Data) /\ Len(unread') = 0
      BY <1>10 DEF FlushCount
    <2>2. TypeOK'
      BY <1>10, <2>1 DEF FlushCount, TypeOK, Labels
    <2>3. count' = 0 /\ pc' = "wptr0"
      BY <1>10 DEF FlushCount
    <2>4. Counted' /\ CountBounded'
      BY <2>1, <2>3, MaxSizeIsMax DEF Counted, CountBounded
    <2> QED
      BY <2>2, <2>4
  <1>11. CASE FlushWptr
    BY <1>11, MaxSizeIsMax
       DEF FlushWptr, TypeOK, Labels, Cells, Counted, CountBounded, histVars
  <1>12. CASE FlushRptr
    BY <1>12, MaxSizeIsMax
       DEF FlushRptr, TypeOK, Labels, Cells, Counted, CountBounded, histVars
  <1>13. CASE AdcStop \/ ACTIVATE_CHANNEL
    BY <1>13 DEF AdcStop, ACTIVATE_CHANNEL, TypeOK, Counted, CountBounded,
                 mainVars, histVars
  <1>14. CASE adc_update_smoothing
    BY <1>14
       DEF adc_update_smoothing, TypeOK, Labels, Counted, CountBounded, bufVars,
           histVars
  <1>15. CASE UNCHANGED vars
    BY <1>15
       DEF vars, bufVars, mainVars, histVars, TypeOK, Counted, CountBounded
  <1> QED
    BY <1>1, <1>2, <1>3, <1>4, <1>5, <1>6, <1>7, <1>8, <1>9, <1>10, <1>11,
       <1>12, <1>13, <1>14, <1>15
       DEF Next, buf_read, buf_set, buf_flush

\* The invariant holds of every behaviour.
LEMMA TypeInvariant == Spec => []TInv
  BY TypeInit, TypeStep, PTL DEF Spec

\* Every pointer stays inside the largest buffer, whatever is called in
\* whatever order and wherever the interrupt strikes.
THEOREM TypeCorrect == Spec => []TypeOK
  <1>1. TInv => TypeOK
    BY DEF TInv
  <1> QED
    BY <1>1, TypeInvariant, PTL

\* The overflow test of buf_write bounds the count by the largest size in use
\* plus one, although buf_set never clears it.
THEOREM CountStaysBounded == Spec => []CountBounded
  <1>1. TInv => CountBounded
    BY DEF TInv
  <1> QED
    BY <1>1, TypeInvariant, PTL

----------------------------------------------------------------------------
(* Allocation failures                                                     *)

\* Between the new size and the memory for it, and after a failure, there may
\* be none; elsewhere the buffer without memory is disabled and empty, and one
\* in use has the memory of its size.
Failure ==
    /\ pc \in {"none", "zero"} => cap = 0
    /\ pc = "zero" => size = NONE
    /\ cap = 0 /\ pc \notin {"realloc", "none", "zero"} =>
           size = NONE /\ count = 0 /\ wptr = 0 /\ rptr = 0
    /\ size # NONE /\ pc \notin {"realloc", "none"} => cap = size

\* Every statement keeps this; the interrupt cannot disturb it, because it
\* does nothing once the buffer is disabled.
LEMMA FailureStep == TInv /\ Failure /\ [Next]_vars => Failure'
  <1> SUFFICES ASSUME TInv, Failure, [Next]_vars PROVE Failure'
    OBVIOUS
  <1> USE DEF TInv, Failure
  <1>1. ASSUME NEW d \in Data, buf_write(d) PROVE Failure'
    BY <1>1 DEF buf_write, mainVars
  <1>2. CASE buf_read
    <2>1. pc \in {"count", "rptr"} => size # NONE /\ cap = size
      BY DEF Counted
    <2>2. CASE ReadCopy
      BY <2>2 DEF ReadCopy, bufVars
    <2>3. CASE ReadCount
      BY <2>3, <2>1 DEF ReadCount, NONE
    <2>4. CASE ReadAdvance
      BY <2>4, <2>1 DEF ReadAdvance, NONE
    <2> QED
      BY <1>2, <2>2, <2>3, <2>4 DEF buf_read
  <1>3. CASE buf_set
    <2>1. ASSUME NEW n \in Sizes \cup {NONE}, SetSize(n) PROVE Failure'
      BY <2>1 DEF SetSize
    <2>2. CASE ReallocOk
      <3>1. cap' # 0 /\ pc' \in {"idle", "count0"} /\ size' = req
        BY <2>2, MaxSizeIsMax DEF ReallocOk, TypeOK, Counted
      <3>2. req # NONE => cap' = req
        BY <2>2 DEF ReallocOk
      <3> QED
        BY <3>1, <3>2
    <2>3. CASE ReallocFail \/ FailNone \/ FailZero
      BY <2>3 DEF ReallocFail, FailNone, FailZero, histVars
    <2> QED
      BY <1>3, <2>1, <2>2, <2>3 DEF buf_set
  <1>4. CASE buf_flush
    BY <1>4 DEF buf_flush, adc_update_smoothing, FlushCount, FlushWptr, FlushRptr,
                histVars, bufVars
  <1>5. CASE AdcStop \/ ACTIVATE_CHANNEL
    BY <1>5 DEF AdcStop, ACTIVATE_CHANNEL, mainVars
  <1>6. CASE UNCHANGED vars
    BY <1>6 DEF vars, bufVars, mainVars
  <1> QED
    BY <1>1, <1>2, <1>3, <1>4, <1>5, <1>6 DEF Next

\* After a failed allocation buf_set leaves a disabled, empty buffer, with the
\* receive interrupt enabled throughout.
THEOREM FailureEmpties == Spec => []FailedIsEmpty
  <1>1. Init => Failure
    BY DEF Init, Failure
  <1>2. Failure => FailedIsEmpty
    BY DEF Failure, FailedIsEmpty
  <1> QED
    BY <1>1, <1>2, FailureStep, TypeInvariant, PTL DEF Spec

----------------------------------------------------------------------------
(* The ring of a buffer that has been set up once or flushed               *)

\* While buf_set has no memory for a buffer that had none before, the buffer is
\* empty, unless an element is written to where the memory is not.
Unready ==
    ~resized /\ pc \in {"realloc", "none"} =>
        cap = 0 /\ (~torn => wptr = 0 /\ rptr = 0 /\ count = 0)

\* The count, whether or not an element arrived inside buf_flush.
AtMost == ~resized /\ size # NONE => count <= size + 1

\* Both ends are slots of the ring.
Slots == NextRead \in 0 .. size - 1 /\ NextWrite \in 0 .. size - 1

Fine == Slots /\ Aligned /\ NewestPerSlot /\ ReadsOldestOrNewest

\* What the theorems about the ring rest on.
Ring == Unready /\ AtMost /\ (Whole => Fine)

\* The count is bounded by the size, and the buffer without memory is empty,
\* whatever happens.
LEMMA UnreadyStep ==
    TInv /\ Failure /\ Unready /\ AtMost /\ [Next]_vars => Unready' /\ AtMost'
  <1> SUFFICES ASSUME TInv, Failure, Unready, AtMost, [Next]_vars
               PROVE  Unready' /\ AtMost'
    OBVIOUS
  <1>0. /\ size \in Nat /\ count \in Nat /\ req \in Nat
        /\ \A n \in Sizes \cup {NONE} : n \in Nat
    BY MaxSizeIsMax DEF TInv, TypeOK, NONE
  <1> USE <1>0 DEF Unready, AtMost
  <1>1. ASSUME NEW d \in Data, buf_write(d) PROVE Unready' /\ AtMost'
    <2>1. /\ count' = count + 1 /\ count <= size /\ size' = size
          /\ resized' = resized /\ cap' = cap /\ pc' = pc
          /\ pc \in {"realloc", "none"} => torn'
      BY <1>1 DEF buf_write, Room, mainVars
    <2> QED
      BY <2>1
  <1>2. CASE buf_read
    <2>1. pc = "count" => count > 0
      BY DEF TInv, Counted
    <2> QED
      BY <1>2, <2>1
         DEF buf_read, ReadCopy, ReadCount, ReadAdvance, bufVars, histVars
  <1>3. CASE buf_set
    <2>1. ASSUME NEW n \in Sizes \cup {NONE}, SetSize(n)
          PROVE  Unready' /\ AtMost'
      <3>1. /\ pc = "idle" /\ pc' = "realloc" /\ size' = n /\ n \in Nat
            /\ resized' = (resized \/ cap # 0)
            /\ UNCHANGED <<cap, wptr, rptr, count>>
        BY <2>1 DEF SetSize
      <3>2. cap = 0 => count = 0 /\ wptr = 0 /\ rptr = 0
        BY <3>1 DEF Failure
      <3>3. ~resized' => cap = 0
        BY <3>1
      <3> QED
        BY <3>1, <3>2, <3>3
    <2>2. CASE ReallocOk
      BY <2>2 DEF ReallocOk, histVars
    <2>3. CASE ReallocFail
      BY <2>3 DEF ReallocFail, histVars
    <2>4. CASE FailNone \/ FailZero
      BY <2>4 DEF FailNone, FailZero, histVars, Failure
    <2> QED
      BY <1>3, <2>1, <2>2, <2>3, <2>4 DEF buf_set
  <1>4. CASE buf_flush
    BY <1>4 DEF buf_flush, adc_update_smoothing, FlushCount, FlushWptr,
                FlushRptr, bufVars, histVars
  <1>5. CASE AdcStop \/ ACTIVATE_CHANNEL \/ UNCHANGED vars
    BY <1>5 DEF AdcStop, ACTIVATE_CHANNEL, vars, bufVars, mainVars, histVars
  <1> QED
    BY <1>1, <1>2, <1>3, <1>4, <1>5 DEF Next

\* The two ends of the ring and the count, for a buffer that is whole.
LEMMA RingFacts ==
    ASSUME TInv, Failure, Ring, Whole
    PROVE  /\ size # NONE /\ size \in Sizes /\ size \in Nat \ {0}
           /\ ~resized /\ ~torn
           /\ NextRead \in 0 .. size - 1 /\ NextWrite \in 0 .. size - 1
           /\ count \in Nat /\ count <= size + 1 /\ Len(unread) = count
           /\ (NextRead + count) % size = NextWrite
           /\ unread \in Seq(Data)
  <1>1. size \in Sizes /\ size \in Nat \ {0}
    BY MaxSizeIsMax DEF TInv, TypeOK, Whole
  <1> QED
    BY <1>1 DEF TInv, TypeOK, Counted, Ring, AtMost, Fine, Slots, Aligned, Whole

\* An element that arrives is stored behind the others, in the slot of the one
\* that is a whole ring older.
LEMMA WriteKeepsRing ==
    ASSUME TInv, Failure, Ring, Whole', NEW d \in Data, buf_write(d)
    PROVE  Fine'
  <1> DEFINE L == Len(unread)
  <1>1. /\ Whole /\ pc \notin {"realloc", "none", "wptr0"}
        /\ size # NONE /\ cap = size
    BY DEF buf_write, Whole, Failure
  <1>2. /\ size \in Nat \ {0} /\ size \in Sizes
        /\ NextWrite \in 0 .. size - 1 /\ NextRead \in 0 .. size - 1
        /\ count \in Nat /\ L = count
        /\ (NextRead + count) % size = NextWrite
    BY <1>1, RingFacts
  <1>3. /\ NextRead' = NextRead /\ size' = size /\ pc' = pc /\ data' = data
        /\ NextWrite = wptr /\ NextWrite' = wptr'
    BY <1>1 DEF buf_write, NextRead, NextWrite, ModIncr, mainVars
  <1>4. /\ mem' = [mem EXCEPT ![wptr] = d]
        /\ mem \in [Cells -> Data \cup {Junk}] /\ wptr \in Cells
    BY <1>1, <1>2, <1>3 DEF buf_write, TInv, TypeOK
  <1>5. /\ unread' = Append(unread, d) /\ unread \in Seq(Data)
        /\ count' = count + 1
        /\ wptr' = (wptr + 1) % size
    BY DEF buf_write, ModIncr, TInv, TypeOK
  <1>6. Slots'
    <2>1. wptr + 1 \in Nat
      BY <1>2, <1>3
    <2>2. wptr' \in 0 .. size - 1
      BY <2>1, <1>2, <1>5, Division
    <2> QED
      BY <2>2, <1>2, <1>3 DEF Slots
  <1>7. Aligned'
    <2>1. NextRead + count \in Nat /\ size \in Nat \ {0} /\ 1 \in Nat
      BY <1>2
    <2>2. (((NextRead + count) % size) + 1) % size = (NextRead + count + 1) % size
      BY <2>1, ModAdd
    <2>3. NextRead + count + 1 = NextRead + (count + 1)
      BY <1>2
    <2> QED
      BY <2>2, <2>3, <1>2, <1>3, <1>5 DEF Aligned
  <1>8. NewestPerSlot'
    <2> SUFFICES ASSUME NEW k \in 1 .. L + 1, k + size > L + 1
                 PROVE  mem'[(NextRead + k - 1) % size] = unread'[k]
      BY <1>2, <1>3, <1>5 DEF NewestPerSlot
    <2>1. CASE k = L + 1
      <3>1. NextRead + k - 1 = NextRead + count
        BY <2>1, <1>2
      <3>2. unread'[k] = d
        BY <2>1, <1>5
      <3> QED
        BY <3>1, <3>2, <1>2, <1>3, <1>4
    <2>2. CASE k # L + 1
      <3> DEFINE a == NextRead + k - 1
                 j == L + 1 - k
      <3>1. k \in 1 .. L /\ k + size > L /\ j \in 1 .. size - 1 /\ a \in Nat
            /\ a + j = NextRead + count
        BY <2>2, <1>2
      <3>2. mem[a % size] = unread[k]
        BY <3>1, <1>1 DEF Ring, Fine, NewestPerSlot
      <3> HIDE DEF a, j
      <3>3. a % size # wptr
        BY <3>1, <1>2, <1>3, ModApart
      <3>4. a % size \in Cells
        <4>1. a % size \in 0 .. size - 1
          BY <3>1, <1>2, Division
        <4>2. size <= MaxSize /\ MaxSize \in Nat
          BY <1>2, MaxSizeIsMax
        <4> QED
          BY <4>1, <4>2, <1>2 DEF Cells
      <3>5. mem'[a % size] = mem[a % size]
        BY <3>3, <3>4, <1>4
      <3>6. unread'[k] = unread[k]
        BY <3>1, <1>5
      <3> QED
        BY <3>2, <3>5, <3>6 DEF a
    <2> QED
      BY <2>1, <2>2
  <1>9. ReadsOldestOrNewest'
    <2> SUFFICES ASSUME pc = "count"
                 PROVE  \/ data = Head(unread')
                        \/ Len(unread') > size /\ data = unread'[size + 1]
      BY <1>3 DEF ReadsOldestOrNewest
    <2>1. L > 0
      BY <1>2 DEF TInv, Counted
    <2>2. Head(unread') = Head(unread) /\ Len(unread') = L + 1
          /\ \A k \in 1 .. L : unread'[k] = unread[k]
      BY <2>1, <1>5
    <2>3. \/ data = Head(unread)
          \/ L > size /\ data = unread[size + 1]
      BY <1>1 DEF Ring, Fine, ReadsOldestOrNewest
    <2> QED
      BY <2>2, <2>3, <1>2
  <1> QED
    BY <1>6, <1>7, <1>8, <1>9 DEF Fine

\* buf_read copies the oldest element, or the newest if that one took its slot.
LEMMA ReadCopyKeepsRing ==
    ASSUME TInv, Failure, Ring, Whole', ReadCopy
    PROVE  Fine'
  <1> DEFINE L == Len(unread)
  <1>1. /\ Whole /\ count # 0 /\ pc = "idle" /\ pc' = "count"
        /\ data' = mem[rptr] /\ unread' = unread /\ size' = size
        /\ count' = count /\ mem' = mem /\ wptr' = wptr /\ rptr' = rptr
    BY DEF ReadCopy, bufVars, histVars, Whole
  <1>2. NextRead = rptr /\ NextRead' = rptr /\ NextWrite' = NextWrite
    BY <1>1 DEF NextRead, NextWrite
  <1>3. Slots' /\ Aligned' /\ NewestPerSlot'
    BY <1>1, <1>2 DEF Ring, Fine, Slots, Aligned, NewestPerSlot
  <1>4. /\ size \in Nat \ {0} /\ rptr \in 0 .. size - 1
        /\ L \in 1 .. size + 1 /\ unread \in Seq(Data)
    BY <1>1, <1>2, RingFacts
  <1>5. CASE L <= size
    <2>1. mem[(rptr + 1 - 1) % size] = unread[1]
      BY <1>1, <1>2, <1>4, <1>5 DEF Ring, Fine, NewestPerSlot
    <2>2. (rptr + 1 - 1) % size = rptr
      BY <1>4, ModSmall
    <2> QED
      BY <2>1, <2>2, <1>1, <1>3, <1>4 DEF Fine, ReadsOldestOrNewest
  <1>6. CASE L = size + 1
    <2>1. mem[(rptr + (size + 1) - 1) % size] = unread[size + 1]
      BY <1>1, <1>2, <1>4, <1>6 DEF Ring, Fine, NewestPerSlot
    <2>2. rptr + (size + 1) - 1 = size * 1 + rptr
          /\ rptr + (size + 1) - 1 \in Nat
      BY <1>4
    <2>3. (rptr + (size + 1) - 1) % size = rptr
      BY <2>2, <1>4, ModUnique
    <2> QED
      BY <2>1, <2>3, <1>1, <1>3, <1>4, <1>6 DEF Fine, ReadsOldestOrNewest
  <1> QED
    BY <1>4, <1>5, <1>6

\* Counting an element off moves the next read by one slot.
LEMMA ReadCountKeepsRing ==
    ASSUME TInv, Failure, Ring, Whole', ReadCount
    PROVE  Fine'
  <1> DEFINE L == Len(unread)
  <1>1. /\ Whole /\ pc = "count" /\ pc' = "rptr" /\ count' = count - 1
        /\ unread' = Tail(unread) /\ size' = size
        /\ wptr' = wptr /\ rptr' = rptr /\ mem' = mem
    BY DEF ReadCount, Whole
  <1>2. count > 0
    BY <1>1 DEF TInv, Counted
  <1>3. NextRead = rptr /\ NextRead' = (rptr + 1) % size
        /\ NextWrite' = NextWrite
    BY <1>1 DEF NextRead, NextWrite, ModIncr
  <1>4. /\ size \in Nat \ {0} /\ rptr \in 0 .. size - 1
        /\ NextWrite \in 0 .. size - 1
        /\ count \in 1 .. size + 1 /\ L = count /\ unread \in Seq(Data)
        /\ (rptr + count) % size = NextWrite
    BY <1>1, <1>2, <1>3, RingFacts
  <1>5. \A b \in Nat : (((rptr + 1) % size) + b) % size = (rptr + 1 + b) % size
    <2>1. rptr + 1 \in Nat /\ size \in Nat \ {0}
      BY <1>4
    <2> QED
      BY <2>1, ModAdd
  <1>6. (rptr + 1) % size \in 0 .. size - 1
    <2>1. rptr + 1 \in Nat
      BY <1>4
    <2> QED
      BY <2>1, <1>4, Division
  <1>7. Slots'
    BY <1>1, <1>3, <1>4, <1>6 DEF Slots
  <1>8. Aligned'
    <2>1. count - 1 \in Nat /\ rptr + 1 + (count - 1) = rptr + count
      BY <1>4
    <2> QED
      BY <2>1, <1>1, <1>3, <1>4, <1>5 DEF Aligned
  <1>9. NewestPerSlot'
    <2>1. L # 0 /\ Len(unread') = L - 1
          /\ \A k \in 1 .. L - 1 : unread'[k] = unread[k + 1]
      BY <1>1, <1>4
    <2> SUFFICES ASSUME NEW k \in 1 .. L - 1, k + size > L - 1
                 PROVE  mem[(NextRead' + k - 1) % size] = unread[k + 1]
      BY <1>1, <2>1 DEF NewestPerSlot
    <2>2. k + 1 \in 1 .. L /\ (k + 1) + size > L
      BY <1>4
    <2>3. mem[(rptr + (k + 1) - 1) % size] = unread[k + 1]
      BY <2>2, <1>1, <1>3 DEF Ring, Fine, NewestPerSlot
    <2>4. k - 1 \in Nat /\ rptr + 1 + (k - 1) = rptr + (k + 1) - 1
      BY <1>4
    <2>5. (NextRead' + (k - 1)) % size = (rptr + (k + 1) - 1) % size
      BY <2>4, <1>3, <1>5
    <2>6. NextRead' + (k - 1) = NextRead' + k - 1
      BY <1>3, <1>4, <1>6
    <2> QED
      BY <2>3, <2>5, <2>6
  <1>10. ReadsOldestOrNewest'
    BY <1>1 DEF ReadsOldestOrNewest
  <1> QED
    BY <1>7, <1>8, <1>9, <1>10 DEF Fine

\* An empty buffer whose next read and write are its first slot is fine.
LEMMA EmptyIsFine ==
    ASSUME TInv', NextRead' = 0, NextWrite' = 0, count' = 0, pc' # "count",
           size' # NONE
    PROVE  Fine'
  <1>1. size' \in Nat \ {0} /\ 0 \in 0 .. size' - 1 /\ Len(unread') = 0
    BY MaxSizeIsMax DEF TInv, TypeOK, Counted
  <1>2. \A n \in Nat \ {0} : 0 % n = 0
    BY ModSmall
  <1>3. (NextRead' + count') % size' = NextWrite'
    <2>1. NextRead' + count' = 0
      OBVIOUS
    <2>2. 0 % size' = 0
      BY <1>1, <1>2
    <2> QED
      BY <2>1, <2>2
  <1>4. Slots'
    BY <1>1 DEF Slots
  <1>5. NewestPerSlot'
    BY <1>1 DEF NewestPerSlot
  <1>6. Aligned' /\ ReadsOldestOrNewest'
    BY <1>3 DEF Aligned, ReadsOldestOrNewest
  <1> QED
    BY <1>4, <1>5, <1>6 DEF Fine

\* Everything that happens keeps the ring.
LEMMA RingStep ==
    TInv /\ TInv' /\ Failure /\ Ring /\ [Next]_vars => Ring'
  <1> SUFFICES ASSUME TInv, TInv', Failure, Ring, [Next]_vars, Whole'
               PROVE  Fine'
    BY UnreadyStep DEF Ring
  <1>0. ~resized' /\ ~torn' /\ size' # NONE
    BY DEF Whole
  <1>1. ASSUME NEW d \in Data, buf_write(d)
        PROVE  Fine'
    BY <1>1, WriteKeepsRing
  <1>2. CASE ReadCopy
    BY <1>2, ReadCopyKeepsRing
  <1>3. CASE ReadCount
    BY <1>3, ReadCountKeepsRing
  <1>4. CASE ReadAdvance
    <2>1. Whole /\ pc' = "idle" /\ NextRead' = NextRead
          /\ NextWrite' = NextWrite /\ mem' = mem /\ unread' = unread
          /\ size' = size /\ count' = count
      BY <1>4, <1>0
         DEF ReadAdvance, NextRead, NextWrite, ModIncr, histVars, Whole
    <2> QED
      BY <2>1
         DEF Ring, Fine, Slots, Aligned, NewestPerSlot, ReadsOldestOrNewest
  <1>5. ASSUME NEW n \in Sizes \cup {NONE}, SetSize(n)
        PROVE  Fine'
    <2>1. cap = 0 /\ pc = "idle" /\ pc' = "realloc"
          /\ wptr' = wptr /\ rptr' = rptr /\ count' = count
      BY <1>5, <1>0 DEF SetSize
    <2>2. wptr = 0 /\ rptr = 0 /\ count = 0
      BY <2>1 DEF Failure
    <2>3. NextRead' = 0 /\ NextWrite' = 0
      BY <2>1, <2>2 DEF NextRead, NextWrite
    <2> QED
      BY <2>1, <2>2, <2>3, <1>0, EmptyIsFine
  <1>6. CASE ReallocOk \/ ReallocFail
    <2>1. /\ pc = "realloc" /\ pc' \in {"idle", "count0", "none"}
          /\ ~resized /\ ~torn
          /\ wptr' = wptr /\ rptr' = rptr /\ count' = count
      BY <1>6, <1>0 DEF ReallocOk, ReallocFail, histVars
    <2>2. wptr = 0 /\ rptr = 0 /\ count = 0
      BY <2>1 DEF Ring, Unready
    <2>3. NextRead' = 0 /\ NextWrite' = 0
      BY <2>1, <2>2 DEF NextRead, NextWrite
    <2> QED
      BY <2>1, <2>2, <2>3, <1>0, EmptyIsFine
  <1>7. CASE FailNone \/ FailZero
    BY <1>7, <1>0 DEF FailNone, FailZero, Failure
  <1>8. CASE FlushCount
    <2>1. NextRead' = 0 /\ NextWrite' = 0 /\ count' = 0 /\ pc' # "count"
      BY <1>8 DEF FlushCount, NextRead, NextWrite
    <2> QED
      BY <2>1, <1>0, EmptyIsFine
  <1>9. CASE FlushWptr \/ FlushRptr \/ adc_update_smoothing
    <2>1. Whole /\ pc' \in {"rptr0", "idle", "count0"} /\ NextRead' = NextRead
          /\ NextWrite' = NextWrite /\ mem' = mem /\ unread' = unread
          /\ size' = size /\ count' = count
      BY <1>9, <1>0
         DEF FlushWptr, FlushRptr, adc_update_smoothing, NextRead, NextWrite,
             bufVars, histVars, Whole
    <2> QED
      BY <2>1
         DEF Ring, Fine, Slots, Aligned, NewestPerSlot, ReadsOldestOrNewest
  <1>10. CASE AdcStop \/ ACTIVATE_CHANNEL \/ UNCHANGED vars
    <2>1. /\ Whole /\ UNCHANGED <<size, mem, wptr, rptr, count, pc, data, unread>>
      BY <1>10, <1>0
         DEF AdcStop, ACTIVATE_CHANNEL, vars, bufVars, mainVars, histVars, Whole
    <2>2. NextRead' = NextRead /\ NextWrite' = NextWrite
      BY <2>1 DEF NextRead, NextWrite, ModIncr
    <2> QED
      BY <2>1, <2>2
         DEF Ring, Fine, Slots, Aligned, NewestPerSlot, ReadsOldestOrNewest
  <1> QED
    BY <1>1, <1>2, <1>3, <1>4, <1>5, <1>6, <1>7, <1>8, <1>9, <1>10
       DEF Next, buf_read, buf_set, buf_flush

\* The conjunction of the three parts is the inductive invariant.
LEMMA RingInvariant == Spec => [](TInv /\ Failure /\ Ring)
  <1>1. Init => TInv /\ Failure /\ Ring
    BY TypeInit DEF Init, Failure, Ring, Unready, AtMost, Whole
  <1>2. TInv /\ Failure /\ Ring /\ [Next]_vars => (TInv /\ Failure /\ Ring)'
    BY TypeStep, FailureStep, RingStep
  <1> QED
    BY <1>1, <1>2, PTL DEF Spec

\* The ends of the ring never drift apart, for every size and at every statement
\* of buf_read and buf_flush an interrupt may strike, in a buffer that was not
\* resized since its last flush, unless an element arrived inside buf_set or
\* between the first two stores of buf_flush.
THEOREM EndsAgree == Spec => []Aligned
  <1>1. TInv /\ Failure /\ Ring => Aligned
    BY DEF Ring, Fine, Aligned
  <1> QED
    BY <1>1, RingInvariant, PTL

\* Under the same condition every slot holds the newest accepted element that
\* belongs there.
THEOREM SlotsHoldNewest == Spec => []NewestPerSlot
  <1>1. TInv /\ Failure /\ Ring => NewestPerSlot
    BY DEF Ring, Fine, NewestPerSlot
  <1> QED
    BY <1>1, RingInvariant, PTL

\* At most one accepted element is overwritten before it is read, in a buffer
\* that was not resized since its last flush, wherever an element arrives.
THEOREM OneOver == Spec => []AtMostOneOver
  <1>1. TInv /\ Failure /\ Ring => AtMostOneOver
    BY DEF TInv, Counted, Ring, AtMost, AtMostOneOver
  <1> QED
    BY <1>1, RingInvariant, PTL

\* buf_read returns the oldest element, or the newest if that one was lost,
\* under the condition of EndsAgree.
THEOREM OldestOrNewest == Spec => []ReadsOldestOrNewest
  <1>1. TInv /\ Failure /\ Ring => ReadsOldestOrNewest
    BY DEF Ring, Fine, ReadsOldestOrNewest
  <1> QED
    BY <1>1, RingInvariant, PTL

=============================================================================
