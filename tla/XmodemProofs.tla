--------------------------- MODULE XmodemProofs ---------------------------
(***************************************************************************)
(* Theorems about Xmodem, for any file, any block modulus, any numbers of  *)
(* tries and faults: type correctness; and as long as noise has not        *)
(* shifted the receiver against the stream, the blocks stored are those of *)
(* the file, the sender is never ahead of the receiver, and every step is  *)
(* one that Transfer allows.                                               *)
(***************************************************************************)
EXTENDS Xmodem, Integers, SequenceTheorems, TLAPS

----------------------------------------------------------------------------
(* Arithmetic on the numbers of the blocks                                 *)

\* What division with remainder is.
LEMMA Division ==
    ASSUME NEW a \in Nat, NEW n \in Nat \ {0}
    PROVE  /\ a = n * (a \div n) + (a % n)
           /\ a % n \in 0 .. n - 1
           /\ a \div n \in Int
  BY SMT

\* A larger factor makes a product larger by a whole n.
LEMMA WholeStep ==
    ASSUME NEW n \in Nat \ {0}, NEW x \in Int, NEW y \in Int, x >= y + 1
    PROVE  n * x >= n * y + n
  BY SMT

\* Quotient and remainder are unique.
LEMMA ModUnique ==
    ASSUME NEW n \in Nat \ {0}, NEW a \in Nat, NEW q \in Int,
           NEW r \in 0 .. n - 1, a = n * q + r
    PROVE  a % n = r
  <1> DEFINE p == a \div n
             s == a % n
  <1>1. n * q + r = n * p + s /\ s \in 0 .. n - 1 /\ p \in Int
    BY Division
  <1>2. CASE q >= p + 1
    <2>1. n * q >= n * p + n
      BY <1>1, <1>2, WholeStep
    <2> QED
      BY <2>1, <1>1, SMT
  <1>3. CASE p >= q + 1
    <2>1. n * p >= n * q + n
      BY <1>1, <1>3, WholeStep
    <2> QED
      BY <2>1, <1>1, SMT
  <1>4. CASE p = q
    BY <1>1, <1>4, SMT
  <1> QED
    BY <1>1, <1>2, <1>3, <1>4, SMT

\* A remainder can be taken before an addition.
LEMMA ModAdd ==
    ASSUME NEW a \in Nat, NEW b \in Nat, NEW n \in Nat \ {0}
    PROVE  ((a % n) + b) % n = (a + b) % n
  <1> DEFINE q == a \div n
             r == a % n
  <1>1. a = n * q + r /\ r \in 0 .. n - 1 /\ q \in Int
    BY Division
  <1> HIDE DEF q, r
  <1> DEFINE p == (r + b) \div n
             s == (r + b) % n
  <1>2. r + b = n * p + s /\ s \in 0 .. n - 1 /\ p \in Int
    <2>1. r + b \in Nat
      BY <1>1, SMT
    <2> QED
      BY <2>1, Division
  <1> HIDE DEF p, s
  <1>3. n * (q + p) = n * q + n * p
    BY <1>1, <1>2, SMT
  <1>4. a + b = n * (q + p) + s
    BY <1>1, <1>2, <1>3, SMT
  <1>5. (a + b) % n = s
    <2>1. a + b \in Nat /\ q + p \in Int
      BY <1>1, <1>2, SMT
    <2> QED
      BY <2>1, <1>2, <1>4, ModUnique
  <1> QED
    BY <1>5 DEF r, s

\* Two numbers less than the modulus apart have different remainders.
LEMMA ModApart ==
    ASSUME NEW a \in Nat, NEW n \in Nat \ {0}, NEW j \in 1 .. n - 1
    PROVE  (a + j) % n # a % n
  <1> SUFFICES ASSUME (a + j) % n = a % n PROVE FALSE
    OBVIOUS
  <1> DEFINE q == a \div n
             p == (a + j) \div n
             r == a % n
  <1>1. a = n * q + r /\ r \in 0 .. n - 1 /\ q \in Int
    BY Division
  <1>2. a + j = n * p + r /\ p \in Int
    <2>1. a + j \in Nat
      BY SMT
    <2> QED
      BY <2>1, Division
  <1> HIDE DEF q, p, r
  <1>3. n * p = n * q + j
    BY <1>1, <1>2, SMT
  <1>4. CASE p >= q + 1
    <2>1. n * p >= n * q + n
      BY <1>1, <1>2, <1>4, WholeStep
    <2> QED
      BY <2>1, <1>1, <1>2, <1>3, SMT
  <1>5. CASE q >= p + 1
    <2>1. n * q >= n * p + n
      BY <1>1, <1>2, <1>5, WholeStep
    <2> QED
      BY <2>1, <1>1, <1>2, <1>3, SMT
  <1>6. CASE p = q
    BY <1>1, <1>3, <1>6, SMT
  <1> QED
    BY <1>1, <1>2, <1>4, <1>5, <1>6, SMT

----------------------------------------------------------------------------
(* Bytes on the line                                                       *)

\* The others move up.
LEMMA RemovedLeaves ==
    ASSUME NEW S, NEW q \in Seq(S), NEW i \in 1 .. Len(q)
    PROVE  /\ RemoveAt(q, i) \in Seq(S) /\ Len(RemoveAt(q, i)) = Len(q) - 1
           /\ \A j \in 1 .. Len(q) - 1 : RemoveAt(q, i)[j] = IF j < i THEN q[j] ELSE q[j + 1]
  <1> DEFINE a == SubSeq(q, 1, i - 1)
             b == SubSeq(q, i + 1, Len(q))
             r == a \o b
  <1>0. Len(q) \in Nat /\ \A j \in 1 .. Len(q) : q[j] \in S
    BY LenProperties, ElementOfSeq
  <1>1. /\ a \in Seq(S) /\ Len(a) = i - 1
        /\ \A j \in 1 .. i - 1 : a[j] = q[j]
    BY <1>0, SubSeqProperties, SMT
  <1>2. /\ b \in Seq(S) /\ Len(b) = Len(q) - i
        /\ \A j \in 1 .. Len(q) - i : b[j] = q[j + i]
    BY <1>0, SubSeqProperties, SMT
  <1> HIDE DEF a, b
  <1>3. /\ r \in Seq(S) /\ Len(r) = Len(q) - 1
        /\ \A j \in 1 .. Len(q) - 1 : r[j] = IF j < i THEN q[j] ELSE q[j + 1]
    <2>1. /\ r \in Seq(S) /\ Len(r) = Len(a) + Len(b)
          /\ \A j \in 1 .. Len(a) + Len(b) :
                r[j] = IF j <= Len(a) THEN a[j] ELSE b[j - Len(a)]
      BY <1>1, <1>2, ConcatProperties
    <2>2. Len(a) + Len(b) = Len(q) - 1
      BY <1>0, <1>1, <1>2, SMT
    <2> HIDE DEF r
    <2>3. ASSUME NEW j \in 1 .. Len(q) - 1
          PROVE  r[j] = IF j < i THEN q[j] ELSE q[j + 1]
      <3>1. CASE j < i
        BY <1>0, <1>1, <2>1, <2>2, <3>1, SMT
      <3>2. CASE ~ (j < i)
        <4>1. j - Len(a) \in 1 .. Len(q) - i /\ (j - Len(a)) + i = j + 1 /\ ~ (j <= Len(a))
          BY <1>0, <1>1, <3>2, SMT
        <4> QED
          BY <1>2, <2>1, <2>2, <3>2, <4>1
      <3> QED
        BY <3>1, <3>2
    <2> QED
      BY <2>1, <2>2, <2>3
  <1>4. RemoveAt(q, i) = r
    BY DEF RemoveAt, a, b
  <1> HIDE DEF r
  <1> QED
    BY <1>3, <1>4

\* What the assumption on the constants says of them one by one.
LEMMA Constants ==
    /\ BlockMod \in Nat \ {0, 1} /\ File \in Seq(Nat) /\ Len(File) \in Nat \ {0}
    /\ SOH # EOT /\ SOH # CAN /\ EOT # CAN
    /\ RETRY_LIMIT \in Nat \ {0} /\ INITIAL \in Nat \ {0} /\ INCREMENT \in Nat \ {0}
    /\ SenderTries \in Nat \ {0} /\ MaxFaults \in Nat
    /\ Codes \subseteq Bytes /\ Garbled \in Bytes
    /\ Garbled # SOH /\ Garbled # EOT /\ Garbled # CAN
    /\ \A n \in Nat : n % BlockMod \in BlockBytes /\ NextNum(n) \in BlockBytes
    /\ \A n \in BlockBytes : Complement(n) \in BlockBytes
  <1>1. Len(File) \in Nat \ {0}
    BY XmodemAssumption, EmptySeq, LenProperties
  <1>2. BlockMod \in Nat \ {0}
    BY XmodemAssumption
  <1>3. \A n \in Nat : n % BlockMod \in BlockBytes
    BY <1>2, Division DEF BlockBytes
  <1>4. \A n \in Nat : NextNum(n) \in BlockBytes
    BY <1>3 DEF NextNum
  <1>5. \A n \in BlockBytes : Complement(n) \in BlockBytes
    BY <1>2 DEF BlockBytes, Complement
  <1> QED
    BY <1>1, <1>3, <1>4, <1>5, XmodemAssumption DEF Codes, Bytes

\* A block: its five bytes.
LEMMA Records ==
    ASSUME NEW n \in 1 .. Len(File)
    PROVE  /\ Record(n) \in Seq(Bytes) /\ Len(Record(n)) = 5
           /\ Record(n)[1] = SOH
           /\ Record(n)[2] = n % BlockMod /\ Record(n)[2] \in BlockBytes
           /\ Record(n)[3] = Complement(n % BlockMod)
           /\ Record(n)[4] = File[n] /\ File[n] \in Data
           /\ Record(n)[5] = Check(File[n])
           /\ \A k \in 1 .. 5 : Record(n)[k] \in Bytes
  <1>1. n \in Nat /\ n % BlockMod \in BlockBytes /\ Complement(n % BlockMod) \in BlockBytes
    BY Constants
  <1>2. File[n] \in Data /\ Check(File[n]) \in Bytes
    BY DEF Data, Bytes
  <1>3. SOH \in Bytes /\ BlockBytes \subseteq Bytes /\ Data \subseteq Bytes
    BY DEF Bytes, Codes
  <1> QED
    BY <1>1, <1>2, <1>3 DEF Record

\* The bytes of one transmission, the first one marked.
LEMMA Bursts ==
    ASSUME NEW q \in Seq(Bytes)
    PROVE  /\ Burst(q) \in Seq(Wire) /\ Len(Burst(q)) = Len(q)
           /\ \A i \in 1 .. Len(q) : Burst(q)[i].b = q[i] /\ (Burst(q)[i].first <=> i = 1)
  <1>1. Len(q) \in Nat /\ \A i \in 1 .. Len(q) : q[i] \in Bytes
    BY LenProperties, ElementOfSeq
  <1>2. \A i \in 1 .. Len(q) : [b |-> q[i], first |-> i = 1] \in Wire
    BY <1>1 DEF Wire
  <1>3. Burst(q) \in Seq(Wire)
    BY <1>1, <1>2, IsASeq DEF Burst
  <1>4. DOMAIN Burst(q) = 1 .. Len(q)
    BY DEF Burst
  <1>5. Len(Burst(q)) = Len(q)
    BY <1>1, <1>3, <1>4, LenProperties
  <1> QED
    BY <1>3, <1>5 DEF Burst

LEMMA Singles == <<EOT>> \in Seq(Bytes) /\ <<CAN>> \in Seq(Bytes)
  <1>1. EOT \in Bytes /\ CAN \in Bytes
    BY Constants DEF Codes
  <1> QED
    BY <1>1

LEMMA Transmissions ==
    ASSUME NEW n \in 1 .. Len(File), NEW pc
    PROVE  /\ Transmission(n, pc) \in Seq(Wire)
           /\ pc = "eot" => Transmission(n, pc) = Burst(<<EOT>>)
           /\ pc # "eot" => Transmission(n, pc) = Burst(Record(n))
  <1>1. Burst(<<EOT>>) \in Seq(Wire)
    BY Bursts, Singles
  <1>2. Burst(Record(n)) \in Seq(Wire)
    BY Bursts, Records
  <1> QED
    BY <1>1, <1>2 DEF Transmission

LEMMA Cancellation == Burst(<<CAN>>) \in Seq(Wire)
  BY Bursts, Singles

\* A byte is read.
LEMMA ReadByte ==
    ASSUME NEW q \in Seq(Wire), q # <<>>
    PROVE  Head(q) \in Wire /\ Head(q).b \in Bytes /\ Tail(q) \in Seq(Wire)
  <1>1. Head(q) \in Wire /\ Tail(q) \in Seq(Wire)
    BY HeadTailProperties
  <1> QED
    BY <1>1 DEF Wire

\* A byte is lost, the next one may become the first of its transmission.
LEMMA LostByte ==
    ASSUME NEW q \in Seq(Wire), NEW i \in 1 .. Len(q)
    PROVE  Without(q, i) \in Seq(Wire)
  <1> DEFINE t == RemoveAt(q, i)
  <1>1. t \in Seq(Wire)
    BY RemovedLeaves
  <1> HIDE DEF t
  <1>2. ASSUME i <= Len(t) PROVE [t EXCEPT ![i].first = TRUE] \in Seq(Wire)
    <2>1. i \in 1 .. Len(t) /\ t[i] \in Wire
      BY <1>1, <1>2, LenProperties, ElementOfSeq
    <2> DEFINE w == [t[i] EXCEPT !.first = TRUE]
    <2>2. w \in Wire
      BY <2>1 DEF Wire
    <2> HIDE DEF w
    <2>3. [t EXCEPT ![i] = w] \in Seq(Wire)
      BY <1>1, <2>1, <2>2, ExceptSeq
    <2> QED
      BY <2>3 DEF w
  <1> QED
    BY <1>1, <1>2 DEF Without, t

----------------------------------------------------------------------------
(* Types                                                                   *)

\* What the flags say of the place in xmodem_receive, and that a record to be
\* kept is there.
Places ==
    /\ rx.then = "none" <=> rx.pc # "flush"
    /\ rx.result = "none" <=> rx.pc # "returned"
    /\ rx.then = "accept" => Len(rx.buf) = 3

Typed == TypeOK /\ Places

LEMMA TypedInit == Init => Typed
  <1> SUFFICES ASSUME Init PROVE Typed
    OBVIOUS
  <1>1. NextNum(0) \in BlockBytes
    BY Constants
  <1>2. <<>> \in Seq(Bytes) /\ <<>> \in Seq(Wire) /\ <<>> \in Seq(Replies) /\ Len(<<>>) = 0
    BY EmptySeq
  <1>3. rx \in Receivers /\ Len(rx.buf) < 4
    BY <1>1, <1>2, Constants DEF Init, Receivers
  <1>4. tx \in Senders
    BY Constants DEF Init, Senders
  <1>5. Places /\ Len(dest) <= rx.limit
    BY <1>2, Constants DEF Init, Places
  <1>6. faults \in 0 .. MaxFaults
    BY Constants DEF Init
  <1> QED
    BY <1>2, <1>3, <1>4, <1>5, <1>6 DEF Init, Typed, TypeOK

\* What a call of xmodem_in_func takes off the line.
LEMMA ByteTyped ==
    ASSUME NEW q \in Seq(Wire), q # <<>>
    PROVE  Tail(q) \in Seq(Wire)
  BY ReadByte

\* The receiver sends one byte, or nothing.
LEMMA OutTyped ==
    ASSUME NEW q \in Seq(Replies), NEW c \in Replies
    PROVE  Append(q, c) \in Seq(Replies)
  BY AppendProperties

LEMMA ReceiverTyped == ASSUME Typed, xmodem_receive PROVE Typed'
  <1> USE DEF Typed, TypeOK
  <1>0. /\ rx.buf \in Seq(Bytes) /\ Len(rx.buf) \in Nat /\ Len(dest) \in Nat
        /\ rx.limit \in Nat /\ INCREMENT \in Nat \ {0}
        /\ RETRY_LIMIT \in Nat \ {0}
        /\ rx.retries \in 0 .. RETRY_LIMIT
        /\ <<>> \in Seq(Bytes) /\ Len(<<>>) = 0
    BY LenProperties, EmptySeq, Constants DEF Receivers
  <1>1. \A b : Byte(b) => b \in Bytes /\ toRx' \in Seq(Wire)
    BY ReadByte DEF Byte
  <1>2. Timeout => toRx' \in Seq(Wire)
    BY DEF Timeout
  <1>3. \A c \in Replies : Out(c) => toTx' \in Seq(Replies)
    BY OutTyped DEF Out
  <1>4. "ACK" \in Replies /\ "NAK" \in Replies /\ "C" \in Replies /\ "CAN" \in Replies
    BY DEF Replies
  <1>5. Receiver => tx' \in Senders /\ faults' \in 0 .. MaxFaults /\ misaligned' \in BOOLEAN
    BY DEF Receiver
  <1>6. Silent => toTx' \in Seq(Replies)
    BY DEF Silent
  <1>7. CASE RxTop
    <2>3. rx.retries - 1 \in 0 .. RETRY_LIMIT
      BY <1>0, <1>7 DEF RxTop
    <2>4. rx.pc = "top" /\ rx' = [rx EXCEPT !.pc = "open", !.retries = @ - 1]
      BY <1>7 DEF RxTop
    <2>1. rx' \in Receivers /\ rx'.buf = rx.buf /\ Places'
      BY <1>0, <2>3, <2>4 DEF Receivers, Places
    <2>2. toTx' \in Seq(Replies) /\ dest' = dest /\ toRx' = toRx /\ rx'.limit = rx.limit
      BY <1>3, <1>4, <1>6, <1>7 DEF RxTop, Receivers
    <2> QED
      BY <1>5, <1>7, <2>1, <2>2 DEF RxTop
  <1>8. CASE RxExceeded
    <2>1. rx' \in Receivers /\ rx'.buf = rx.buf /\ rx'.limit = rx.limit /\ Places'
      BY <1>0, <1>8 DEF RxExceeded, Flush, Receivers, Places, Results
    <2> QED
      BY <1>5, <1>8, <2>1 DEF RxExceeded
  <1>9. CASE RxNothing
    <2>1. rx' \in Receivers /\ rx'.buf = rx.buf /\ rx'.limit = rx.limit /\ Places'
      BY <1>0, <1>9 DEF RxNothing, Again, Receivers, Places
    <2> QED
      BY <1>1, <1>2, <1>5, <1>9, <2>1 DEF RxNothing
  <1>10. CASE RxEot
    <2>1. rx' \in Receivers /\ rx'.buf = rx.buf /\ rx'.limit = rx.limit /\ Places'
      BY <1>0, <1>10 DEF RxEot, Flush, Receivers, Places, Results
    <2> QED
      BY <1>1, <1>3, <1>4, <1>5, <1>10, <2>1 DEF RxEot
  <1>11. CASE RxCan
    <2>1. rx' \in Receivers /\ rx'.buf = rx.buf /\ rx'.limit = rx.limit /\ Places'
      BY <1>0, <1>11 DEF RxCan, Flush, Receivers, Places, Results
    <2> QED
      BY <1>1, <1>3, <1>4, <1>5, <1>11, <2>1 DEF RxCan
  <1>12. CASE RxSoh
    <2>1. rx' \in Receivers /\ rx'.buf = <<>> /\ rx'.limit = rx.limit /\ Places'
      BY <1>0, <1>12 DEF RxSoh, Receivers, Places
    <2> QED
      BY <1>0, <1>1, <1>5, <1>12, <2>1 DEF RxSoh
  <1>13. CASE RxRecordByte
    <2>1. PICK b \in Bytes : Byte(b) /\ rx' = [rx EXCEPT !.buf = Append(@, b)]
      BY <1>13 DEF RxRecordByte
    <2>2. Append(rx.buf, b) \in Seq(Bytes) /\ Len(Append(rx.buf, b)) = Len(rx.buf) + 1
      BY <1>0, AppendProperties
    <2>3. rx.pc = "record" /\ Len(rx.buf) < 3
      BY <1>13 DEF RxRecordByte
    <2>4. /\ rx' \in Receivers /\ rx'.buf = Append(rx.buf, b) /\ rx'.limit = rx.limit
          /\ rx'.pc = rx.pc /\ rx'.then = rx.then /\ rx'.result = rx.result
      BY <2>1, <2>2 DEF Receivers
    <2>5. Places'
      BY <2>3, <2>4 DEF Places
    <2>6. Len(rx'.buf) < 4
      BY <1>0, <2>2, <2>3, <2>4
    <2> QED
      BY <1>1, <1>5, <1>13, <2>1, <2>4, <2>5, <2>6 DEF RxRecordByte
  <1>14. CASE RxRecordTimeout
    <2>1. rx' \in Receivers /\ rx'.buf = <<>> /\ rx'.limit = rx.limit /\ Places'
      BY <1>0, <1>14 DEF RxRecordTimeout, RecordError, Receivers, Places
    <2> QED
      BY <1>0, <1>2, <1>3, <1>4, <1>5, <1>14, <2>1 DEF RxRecordTimeout, RecordError
  <1>15. CASE RxRecordLast
    <2>1. PICK b \in Bytes :
            /\ Byte(b)
            /\ \/ Flush("accept") /\ Silent
               \/ RecordError
      BY <1>15 DEF RxRecordLast
    <2>2. rx.pc = "record" /\ Len(rx.buf) = 3 /\ UNCHANGED dest /\ Receiver
      BY <1>15 DEF RxRecordLast
    <2>3. CASE Flush("accept") /\ Silent
      <3>1. rx' \in Receivers /\ rx'.buf = rx.buf /\ rx'.limit = rx.limit /\ Places'
        BY <1>0, <2>2, <2>3 DEF Flush, Receivers, Places
      <3> QED
        BY <1>1, <1>5, <1>6, <2>1, <2>2, <2>3, <3>1
    <2>4. CASE RecordError
      <3>1. rx' \in Receivers /\ rx'.buf = <<>> /\ rx'.limit = rx.limit /\ Places'
        BY <1>0, <2>2, <2>4 DEF RecordError, Receivers, Places
      <3> QED
        BY <1>0, <1>1, <1>3, <1>4, <1>5, <2>1, <2>2, <2>4, <3>1 DEF RecordError
    <2> QED
      BY <2>1, <2>3, <2>4
  <1>16. CASE RxFlushByte
    <2>1. Places'
      BY <1>16 DEF RxFlushByte, Places
    <2> QED
      BY <1>1, <1>5, <1>16, <2>1 DEF RxFlushByte
  <1>17. CASE RxReturn
    <2>1. /\ rx' \in Receivers /\ rx'.buf = rx.buf /\ rx'.limit = rx.limit
          /\ rx'.pc = "returned" /\ rx'.then = "none" /\ rx'.result = rx.then /\ rx.then \in Results
      BY <1>17 DEF RxReturn, Receivers
    <2>2. Places'
      BY <2>1 DEF Places, Results
    <2>3. toTx' \in Seq(Replies)
      <3>1. <<"CAN", "CAN", "CAN">> \in Seq(Replies)
        BY <1>4
      <3>2. Cancel => toTx' \in Seq(Replies)
        BY <3>1, ConcatProperties DEF Cancel
      <3> QED
        BY <1>6, <1>17, <3>2 DEF RxReturn
    <2> QED
      BY <1>2, <1>5, <1>17, <2>1, <2>2, <2>3 DEF RxReturn
  <1>18. CASE RxAccept
    <2>1. Len(rx.buf) = 3 /\ rx.buf[3] \in Bytes
      <3>1. Len(rx.buf) = 3
        BY <1>18 DEF RxAccept, Places
      <3> QED
        BY <1>0, <3>1, ElementOfSeq
    <2>2. dest' \in Seq(Bytes) /\ Len(dest') = Len(dest) + 1
      BY <1>18, <2>1, AppendProperties DEF RxAccept
    <2>3. NextNum(rx.packnum) \in BlockBytes
      <3>1. rx.packnum \in Nat
        BY DEF Receivers, BlockBytes
      <3> QED
        BY <3>1, Constants
    <2> DEFINE l == IF NeedsMore(Len(dest), rx.limit) THEN rx.limit + INCREMENT ELSE rx.limit
    <2>4. l \in Nat /\ Len(dest) + 1 <= l
      BY <1>0 DEF NeedsMore
    <2>5. /\ rx' \in Receivers /\ rx'.limit = l /\ rx'.buf = <<>>
          /\ rx'.pc = "top" /\ rx'.then = "none" /\ rx'.result = rx.result
      <3> HIDE DEF l
      <3>1. rx' = [rx EXCEPT !.retries = RETRY_LIMIT, !.packnum = NextNum(rx.packnum),
                             !.pc = "top", !.then = "none", !.buf = <<>>, !.limit = l]
        BY <1>18 DEF RxAccept, Accepted, l, Receivers
      <3>2. RETRY_LIMIT \in 0 .. RETRY_LIMIT
        BY <1>0
      <3> QED
        BY <1>0, <2>3, <2>4, <3>1, <3>2 DEF Receivers
    <2>6. rx.pc = "flush"
      BY <1>18 DEF RxAccept
    <2>7. Places'
      BY <2>5, <2>6 DEF Places
    <2> HIDE DEF l
    <2>8. toTx' \in Seq(Replies) /\ toRx' \in Seq(Wire)
      BY <1>2, <1>3, <1>4, <1>18 DEF RxAccept
    <2>9. Receiver
      BY <1>18 DEF RxAccept
    <2> QED
      BY <1>0, <1>5, <2>2, <2>4, <2>5, <2>7, <2>8, <2>9
  <1>19. CASE RxNoMemory
    <2>3. NextNum(rx.packnum) \in BlockBytes
      <3>1. rx.packnum \in Nat
        BY DEF Receivers, BlockBytes
      <3> QED
        BY <3>1, Constants
    <2>4. rx.limit + INCREMENT \in Nat /\ Len(dest) <= rx.limit + INCREMENT
      BY <1>0
    <2>5. /\ rx' \in Receivers /\ rx'.limit = rx.limit + INCREMENT /\ rx'.buf = <<>>
          /\ rx'.pc = rx.pc /\ rx'.then = "nomem" /\ rx'.result = rx.result
      <3>1. rx' = [rx EXCEPT !.retries = RETRY_LIMIT, !.packnum = NextNum(rx.packnum),
                             !.then = "nomem", !.buf = <<>>, !.limit = rx.limit + INCREMENT]
        BY <1>19 DEF RxNoMemory, Accepted, Receivers
      <3>2. RETRY_LIMIT \in 0 .. RETRY_LIMIT
        BY <1>0
      <3> QED
        BY <1>0, <2>3, <2>4, <3>1, <3>2 DEF Receivers, Results
    <2>6. rx.pc = "flush"
      BY <1>19 DEF RxNoMemory
    <2>7. Places'
      BY <2>5, <2>6 DEF Places
    <2> QED
      BY <1>0, <1>2, <1>5, <1>19, <2>4, <2>5, <2>7 DEF RxNoMemory
  <1> QED
    BY <1>7, <1>8, <1>9, <1>10, <1>11, <1>12, <1>13, <1>14, <1>15, <1>16, <1>17, <1>18, <1>19
    DEF xmodem_receive

LEMMA SenderTyped == ASSUME Typed, TxNext PROVE Typed'
  <1> USE DEF Typed, TypeOK
  <1>0. /\ tx.block \in 1 .. Len(File) /\ tx.tries \in 0 .. SenderTries
        /\ Len(File) \in Nat \ {0} /\ SenderTries \in Nat \ {0}
    BY Constants DEF Senders
  <1>1. /\ tx.block \in 1 .. Len(File) /\ tx.tries \in 0 .. SenderTries
        /\ 1 \in 0 .. SenderTries /\ 1 \in 1 .. Len(File)
        /\ tx.tries < SenderTries => tx.tries + 1 \in 0 .. SenderTries
        /\ tx.block # Len(File) => tx.block + 1 \in 1 .. Len(File)
    BY <1>0
  <1>2. \A c : Reply(c) => toTx' \in Seq(Replies)
    <2>1. ASSUME toTx # <<>> PROVE Tail(toTx) \in Seq(Replies)
      BY <2>1, HeadTailProperties
    <2> QED
      BY <2>1 DEF Reply
  <1>3. ASSUME NEW n \in 1 .. Len(File), NEW pc
        PROVE  toRx \o Transmission(n, pc) \in Seq(Wire)
    BY Transmissions, ConcatProperties
  <1>4. toRx \o Burst(<<CAN>>) \in Seq(Wire)
    BY Cancellation, ConcatProperties
  <1>5. Sender => Places' /\ rx' = rx /\ dest' = dest /\ faults' = faults /\ misaligned' = misaligned
    BY DEF Sender, Places
  <1>6. GiveUp => tx' \in Senders /\ toRx' \in Seq(Wire)
    BY <1>4 DEF GiveUp, Senders
  <1>7. CASE TxStart
    <2>1. tx' \in Senders
      BY <1>1, <1>7 DEF TxStart, Senders
    <2> QED
      BY <1>1, <1>2, <1>3, <1>5, <1>7, <2>1 DEF TxStart
  <1>8. CASE TxAdvance
    <2>1. tx' \in Senders
      BY <1>1, <1>8 DEF TxAdvance, Senders
    <2>2. tx'.block \in 1 .. Len(File)
      BY <2>1 DEF Senders
    <2>3. PICK t : t = tx'
      OBVIOUS
    <2>4. toRx' = toRx \o Transmission(t.block, t.pc)
      BY <1>8, <2>3 DEF TxAdvance
    <2>5. toRx' \in Seq(Wire)
      BY <1>3, <2>2, <2>3, <2>4
    <2> QED
      BY <1>2, <1>5, <1>8, <2>1, <2>5 DEF TxAdvance
  <1>9. CASE TxDone
    <2>1. tx' \in Senders
      BY <1>9 DEF TxDone, Senders
    <2> QED
      BY <1>2, <1>5, <1>9, <2>1 DEF TxDone
  <1>10. CASE TxRepeat
    <2>1. toTx' \in Seq(Replies)
      BY <1>2, <1>10 DEF TxRepeat
    <2>2. tx' \in Senders /\ toRx' \in Seq(Wire)
      <3>1. ASSUME tx.tries < SenderTries, tx' = [tx EXCEPT !.tries = @ + 1] PROVE tx' \in Senders
        BY <1>1, <3>1 DEF Senders
      <3> QED
        BY <1>1, <1>3, <1>6, <1>10, <3>1 DEF TxRepeat
    <2> QED
      BY <1>5, <1>10, <2>1, <2>2 DEF TxRepeat
  <1>11. CASE TxOther
    <2>1. tx' \in Senders
      BY <1>11 DEF TxOther, Senders
    <2> QED
      BY <1>2, <1>5, <1>11, <2>1 DEF TxOther
  <1>12. CASE TxCancel
    BY <1>5, <1>6, <1>12 DEF TxCancel
  <1> QED
    BY <1>7, <1>8, <1>9, <1>10, <1>11, <1>12 DEF TxNext

LEMMA LineTyped == ASSUME Typed, Line PROVE Typed'
  <1> USE DEF Typed, TypeOK
  <1>1. Fault => /\ faults' \in 0 .. MaxFaults
                 /\ rx' = rx /\ dest' = dest /\ tx' = tx /\ Places'
    BY Constants DEF Fault, Places
  <1>2. CASE LoseByte
    BY <1>1, <1>2, LostByte DEF LoseByte
  <1>3. CASE GarbleByte
    <2>1. PICK i \in 1 .. Len(toRx) :
             /\ toRx' = [toRx EXCEPT ![i].b = Garbled]
             /\ misaligned' = (misaligned \/ toRx[i].first)
      BY <1>3 DEF GarbleByte
    <2>2. toRx[i] \in Wire
      BY ElementOfSeq
    <2> DEFINE w == [toRx[i] EXCEPT !.b = Garbled]
    <2>3. w \in Wire
      BY <2>2, Constants DEF Wire
    <2> HIDE DEF w
    <2>4. [toRx EXCEPT ![i] = w] \in Seq(Wire)
      BY <2>3, ExceptSeq
    <2>5. toRx' \in Seq(Wire)
      BY <2>1, <2>4 DEF w
    <2>6. misaligned' \in BOOLEAN
      BY <2>1, <2>2 DEF Wire
    <2> QED
      BY <1>1, <1>3, <2>5, <2>6 DEF GarbleByte
  <1>4. CASE LoseReply
    <2>1. PICK i \in 1 .. Len(toTx) : toTx' = RemoveAt(toTx, i)
      BY <1>4 DEF LoseReply
    <2>2. toTx' \in Seq(Replies)
      BY <2>1, RemovedLeaves
    <2> QED
      BY <1>1, <1>4, <2>2 DEF LoseReply
  <1> QED
    BY <1>2, <1>3, <1>4 DEF Line

LEMMA TypedNext == ASSUME Typed, [Next]_vars PROVE Typed'
  <1>1. CASE UNCHANGED vars
    BY <1>1 DEF Typed, TypeOK, Places, vars
  <1> QED
    BY <1>1, ReceiverTyped, SenderTyped, LineTyped DEF Next

\* The variables keep their types, and what is stored never outgrows the
\* buffer: xmodem_receive grows it before the memcpy.
THEOREM TypeCorrect == Spec => []TypeOK
  <1>1. Typed => TypeOK
    BY DEF Typed
  <1> QED
    BY <1>1, TypedInit, TypedNext, PTL DEF Spec

----------------------------------------------------------------------------
(* The stream, as long as no byte is missing and none that starts a        *)
(* transmission was changed                                                *)

\* The k-th byte after XM_SOH of block n, or what noise made of it.
Came(n, k, w) == ~w.first /\ w.b \in {Record(n)[k + 1], Garbled}

\* After the i-th byte the rest of block n follows, then another transmission.
RecordAt(s, i, n) ==
    /\ i + 4 <= Len(s)
    /\ \A k \in 1 .. 4 : Came(n, k, s[i + k])
    /\ i + 5 <= Len(s) => s[i + 5].first

AloneAt(s, i) == i + 1 <= Len(s) => s[i + 1].first

\* The sender, at p, has all its blocks acknowledged; d blocks are stored.
AllSent(p, d) == p \in {"eot", "done", "failed"} /\ d = Len(File)

\* What starts with the i-th byte: block n, the end or a cancellation.
SentAt(s, i, n, d, bl, p) ==
    \/ s[i].b = SOH /\ n \in 1 .. bl /\ RecordAt(s, i, n)
    \/ s[i].b = EOT /\ AloneAt(s, i) /\ AllSent(p, d)
    \/ s[i].b = CAN /\ AloneAt(s, i) /\ p = "failed"

\* Only the last block stored can be repeated, before the next one.
Number(i, cut, d) == IF i <= cut THEN d ELSE d + 1

StreamOf(s, cut, d, bl, p) ==
    \A i \in 1 .. Len(s) : s[i].first => SentAt(s, i, Number(i, cut, d), d, bl, p)

Begins(s) == s # <<>> => s[1].first

\* The bytes of block n that are still to come when those of buf have come.
RestOf(buf, s, n) ==
    /\ \A k \in 1 .. Len(buf) : buf[k] \in {Record(n)[k + 1], Garbled}
    /\ 4 - Len(buf) <= Len(s)
    /\ \A k \in 1 .. 4 - Len(buf) : Came(n, Len(buf) + k, s[k])
    /\ 5 - Len(buf) <= Len(s) => s[5 - Len(buf)].first

LEMMA StreamTail ==
    ASSUME NEW s \in Seq(Wire), s # <<>>, NEW cut \in Nat, NEW d, NEW bl, NEW p,
           StreamOf(s, cut, d, bl, p)
    PROVE  StreamOf(Tail(s), IF cut = 0 THEN 0 ELSE cut - 1, d, bl, p)
  <1> DEFINE t == Tail(s)
             c == IF cut = 0 THEN 0 ELSE cut - 1
  <1>1. /\ t \in Seq(Wire) /\ Len(t) = Len(s) - 1 /\ Len(s) \in Nat /\ Len(t) \in Nat
        /\ \A i \in 1 .. Len(t) : t[i] = s[i + 1]
    BY HeadTailProperties, LenProperties
  <1> HIDE DEF t
  <1> SUFFICES ASSUME NEW i \in 1 .. Len(t), t[i].first
               PROVE  SentAt(t, i, Number(i, c, d), d, bl, p)
    BY DEF StreamOf, t
  <1>2. i + 1 \in 1 .. Len(s) /\ t[i] = s[i + 1]
    BY <1>1
  <1>3. Number(i, c, d) = Number(i + 1, cut, d)
    BY DEF Number
  <1> DEFINE n == Number(i, c, d)
  <1>4. SentAt(s, i + 1, n, d, bl, p)
    BY <1>2, <1>3 DEF StreamOf
  <1> HIDE DEF n, c
  <1>5. RecordAt(s, i + 1, n) => RecordAt(t, i, n)
    <2> SUFFICES ASSUME RecordAt(s, i + 1, n) PROVE RecordAt(t, i, n)
      OBVIOUS
    <2>1. i + 4 <= Len(t)
      BY <1>1 DEF RecordAt
    <2>2. ASSUME NEW k \in 1 .. 4 PROVE Came(n, k, t[i + k])
      <3>1. i + k \in 1 .. Len(t) /\ (i + k) + 1 = (i + 1) + k
        BY <1>1, <2>1
      <3> QED
        BY <1>1, <3>1 DEF RecordAt
    <2>3. ASSUME i + 5 <= Len(t) PROVE t[i + 5].first
      <3>1. i + 5 \in 1 .. Len(t) /\ (i + 5) + 1 = (i + 1) + 5 /\ (i + 1) + 5 <= Len(s)
        BY <1>1, <2>3
      <3> QED
        BY <1>1, <3>1 DEF RecordAt
    <2> QED
      BY <2>1, <2>2, <2>3 DEF RecordAt
  <1>6. AloneAt(s, i + 1) => AloneAt(t, i)
    <2> SUFFICES ASSUME AloneAt(s, i + 1), i + 1 <= Len(t) PROVE t[i + 1].first
      BY DEF AloneAt
    <2>1. i + 1 \in 1 .. Len(t) /\ (i + 1) + 1 <= Len(s)
      BY <1>1
    <2> QED
      BY <1>1, <2>1 DEF AloneAt
  <1>7. SentAt(t, i, n, d, bl, p)
    BY <1>2, <1>4, <1>5, <1>6 DEF SentAt
  <1> QED
    BY <1>7 DEF n

\* The sender moves on, the stream stays.
LEMMA StreamLater ==
    ASSUME NEW s, NEW cut, NEW d, NEW bl \in Nat, NEW p, NEW bl2 \in Nat, NEW p2,
           StreamOf(s, cut, d, bl, p), bl <= bl2,
           AllSent(p, d) => AllSent(p2, d), p = "failed" => p2 = "failed"
    PROVE  StreamOf(s, cut, d, bl2, p2)
  <1> SUFFICES ASSUME NEW i \in 1 .. Len(s), s[i].first
               PROVE  SentAt(s, i, Number(i, cut, d), d, bl2, p2)
    BY DEF StreamOf
  <1> DEFINE n == Number(i, cut, d)
  <1>1. SentAt(s, i, n, d, bl, p)
    BY DEF StreamOf
  <1> HIDE DEF n
  <1>2. n \in 1 .. bl => n \in 1 .. bl2
    OBVIOUS
  <1>3. SentAt(s, i, n, d, bl2, p2)
    BY <1>1, <1>2 DEF SentAt
  <1> QED
    BY <1>3 DEF n

\* Another transmission is appended.
LEMMA SentKept ==
    ASSUME NEW s \in Seq(Wire), NEW T \in Seq(Wire), T # <<>>, T[1].first,
           NEW i \in 1 .. Len(s), NEW n, NEW d, NEW bl, NEW p,
           SentAt(s, i, n, d, bl, p)
    PROVE  SentAt(s \o T, i, n, d, bl, p)
  <1> DEFINE r == s \o T
  <1>1. /\ r \in Seq(Wire) /\ Len(r) = Len(s) + Len(T) /\ Len(s) \in Nat /\ Len(T) \in Nat \ {0}
        /\ \A j \in 1 .. Len(s) : r[j] = s[j]
        /\ r[Len(s) + 1] = T[1]
    <2>1. Len(s) \in Nat /\ Len(T) \in Nat \ {0}
      BY LenProperties, EmptySeq
    <2>2. \A j \in 1 .. Len(s) + Len(T) : r[j] = IF j <= Len(s) THEN s[j] ELSE T[j - Len(s)]
      BY ConcatProperties
    <2>3. (Len(s) + 1) - Len(s) = 1
      BY <2>1
    <2> QED
      BY <2>1, <2>2, <2>3, ConcatProperties
  <1> HIDE DEF r
  <1>2. RecordAt(s, i, n) => RecordAt(r, i, n)
    <2> SUFFICES ASSUME RecordAt(s, i, n) PROVE RecordAt(r, i, n)
      OBVIOUS
    <2>1. i + 4 <= Len(s) /\ i + 4 <= Len(r)
      BY <1>1 DEF RecordAt
    <2>2. ASSUME NEW k \in 1 .. 4 PROVE Came(n, k, r[i + k])
      <3>1. i + k \in 1 .. Len(s)
        BY <1>1, <2>1
      <3> QED
        BY <1>1, <3>1 DEF RecordAt
    <2>3. r[i + 5].first
      <3>1. CASE i + 5 <= Len(s)
        <4>1. i + 5 \in 1 .. Len(s)
          BY <3>1, <1>1
        <4> QED
          BY <1>1, <3>1, <4>1 DEF RecordAt
      <3>2. CASE i + 5 = Len(s) + 1
        BY <1>1, <3>2
      <3> QED
        BY <1>1, <2>1, <3>1, <3>2
    <2> QED
      BY <2>1, <2>2, <2>3 DEF RecordAt
  <1>3. AloneAt(s, i) => AloneAt(r, i)
    <2> SUFFICES ASSUME AloneAt(s, i) PROVE r[i + 1].first
      BY DEF AloneAt
    <2>1. CASE i + 1 <= Len(s)
      <3>1. i + 1 \in 1 .. Len(s)
        BY <2>1, <1>1
      <3> QED
        BY <1>1, <2>1, <3>1 DEF AloneAt
    <2>2. CASE i + 1 = Len(s) + 1
      BY <1>1, <2>2
    <2> QED
      BY <1>1, <2>1, <2>2
  <1> QED
    BY <1>1, <1>2, <1>3 DEF SentAt, r

LEMMA StreamGrows ==
    ASSUME NEW s \in Seq(Wire), NEW T \in Seq(Wire), T # <<>>, T[1].first,
           \A k \in 2 .. Len(T) : ~T[k].first,
           NEW cut, NEW cut2, NEW d, NEW bl, NEW p,
           StreamOf(s, cut, d, bl, p),
           \A i \in 1 .. Len(s) :
              Number(i, cut, d) \in 1 .. bl => Number(i, cut2, d) = Number(i, cut, d),
           SentAt(s \o T, Len(s) + 1, Number(Len(s) + 1, cut2, d), d, bl, p)
    PROVE  StreamOf(s \o T, cut2, d, bl, p)
  <1> DEFINE r == s \o T
  <1>1. /\ Len(r) = Len(s) + Len(T) /\ Len(s) \in Nat /\ Len(T) \in Nat
        /\ \A j \in 1 .. Len(s) + Len(T) : r[j] = IF j <= Len(s) THEN s[j] ELSE T[j - Len(s)]
    BY ConcatProperties, LenProperties
  <1>2. SentAt(r, Len(s) + 1, Number(Len(s) + 1, cut2, d), d, bl, p)
    OBVIOUS
  <1> SUFFICES ASSUME NEW i \in 1 .. Len(r), r[i].first
               PROVE  SentAt(r, i, Number(i, cut2, d), d, bl, p)
    BY DEF StreamOf
  <1>3. CASE i <= Len(s)
    <2>1. i \in 1 .. Len(s)
      BY <1>1, <1>3
    <2>2. SentAt(s, i, Number(i, cut, d), d, bl, p)
      BY <1>1, <1>3, <2>1 DEF StreamOf
    <2>3. SentAt(r, i, Number(i, cut, d), d, bl, p)
      BY <2>1, <2>2, SentKept
    <2>4. CASE Number(i, cut, d) \in 1 .. bl
      BY <2>1, <2>3, <2>4
    <2>5. CASE Number(i, cut, d) \notin 1 .. bl
      BY <2>3, <2>5 DEF SentAt
    <2> QED
      BY <2>4, <2>5
  <1>4. CASE i = Len(s) + 1
    BY <1>2, <1>4
  <1>5. CASE i > Len(s) + 1
    <2>1. i - Len(s) \in 2 .. Len(T) /\ ~ (i <= Len(s)) /\ i \in 1 .. Len(s) + Len(T)
      BY <1>1, <1>5
    <2> QED
      BY <1>1, <2>1
  <1> QED
    BY <1>1, <1>3, <1>4, <1>5

LEMMA RecordAppended ==
    ASSUME NEW s \in Seq(Wire), NEW n \in 1 .. Len(File), NEW d, NEW bl \in Nat, NEW p,
           n \in 1 .. bl
    PROVE  SentAt(s \o Burst(Record(n)), Len(s) + 1, n, d, bl, p)
  <1> DEFINE T == Burst(Record(n))
             r == s \o T
  <1>1. /\ T \in Seq(Wire) /\ Len(T) = 5
        /\ \A i \in 1 .. 5 : T[i].b = Record(n)[i] /\ (T[i].first <=> i = 1)
    BY Records, Bursts
  <1> HIDE DEF T
  <1>2. /\ Len(r) = Len(s) + 5 /\ Len(s) \in Nat
        /\ \A j \in 1 .. Len(s) + 5 : r[j] = IF j <= Len(s) THEN s[j] ELSE T[j - Len(s)]
    <2>1. /\ Len(r) = Len(s) + Len(T) /\ Len(s) \in Nat
          /\ \A j \in 1 .. Len(s) + Len(T) : r[j] = IF j <= Len(s) THEN s[j] ELSE T[j - Len(s)]
      <3>1. T \in Seq(Wire)
        BY <1>1
      <3> QED
        BY <3>1, ConcatProperties, LenProperties
    <2> HIDE DEF r
    <2> QED
      BY <1>1, <2>1
  <1> HIDE DEF r
  <1>3. \A k \in 1 .. 5 : r[Len(s) + k] = T[k]
    <2> SUFFICES ASSUME NEW k \in 1 .. 5 PROVE r[Len(s) + k] = T[k]
      OBVIOUS
    <2>1. /\ Len(s) + k \in 1 .. Len(s) + 5 /\ ~ (Len(s) + k <= Len(s))
          /\ (Len(s) + k) - Len(s) = k
      BY <1>2
    <2> QED
      BY <1>2, <2>1
  <1>4. r[Len(s) + 1].b = SOH
    BY <1>1, <1>3, Records
  <1>5. ASSUME NEW k \in 1 .. 4 PROVE Came(n, k, r[Len(s) + 1 + k])
    <2>1. k + 1 \in 1 .. 5 /\ Len(s) + (k + 1) = Len(s) + 1 + k /\ k + 1 # 1
      BY <1>2
    <2> QED
      BY <1>1, <1>3, <2>1 DEF Came
  <1>6. RecordAt(r, Len(s) + 1, n)
    BY <1>2, <1>5 DEF RecordAt
  <1> QED
    BY <1>4, <1>6 DEF SentAt, r, T

LEMMA OneAppended ==
    ASSUME NEW s \in Seq(Wire), NEW c \in {EOT, CAN}, NEW n, NEW d, NEW bl, NEW p,
           c = EOT => AllSent(p, d), c = CAN => p = "failed"
    PROVE  SentAt(s \o Burst(<<c>>), Len(s) + 1, n, d, bl, p)
  <1> DEFINE T == Burst(<<c>>)
             r == s \o T
  <1>1. T \in Seq(Wire) /\ Len(T) = 1 /\ T[1].b = c
    <2> DEFINE q == <<c>>
    <2>1. q \in Seq(Bytes) /\ Len(q) = 1 /\ q[1] = c
      BY Singles
    <2> HIDE DEF q
    <2>2. Burst(q) \in Seq(Wire) /\ Len(Burst(q)) = 1 /\ Burst(q)[1].b = q[1]
      BY <2>1, Bursts
    <2> QED
      BY <2>1, <2>2 DEF q
  <1> HIDE DEF T
  <1>2. /\ Len(r) = Len(s) + 1 /\ Len(s) \in Nat
        /\ \A j \in 1 .. Len(s) + 1 : r[j] = IF j <= Len(s) THEN s[j] ELSE T[j - Len(s)]
    <2>1. /\ Len(r) = Len(s) + Len(T) /\ Len(s) \in Nat
          /\ \A j \in 1 .. Len(s) + Len(T) : r[j] = IF j <= Len(s) THEN s[j] ELSE T[j - Len(s)]
      BY <1>1, ConcatProperties, LenProperties
    <2> HIDE DEF r
    <2> QED
      BY <1>1, <2>1
  <1> HIDE DEF r
  <1>3. r[Len(s) + 1] = T[1]
    <2>1. (Len(s) + 1) - Len(s) = 1 /\ Len(s) + 1 \in 1 .. Len(s) + 1
      BY <1>2
    <2> QED
      BY <1>2, <2>1
  <1>4. AloneAt(r, Len(s) + 1)
    BY <1>2 DEF AloneAt
  <1> QED
    BY <1>1, <1>3, <1>4 DEF SentAt, r, T

\* The rest of a record that is being read stays the rest of it.
LEMMA RestKept ==
    ASSUME NEW s \in Seq(Wire), NEW T \in Seq(Wire), T # <<>>, T[1].first,
           NEW buf \in Seq(Bytes), Len(buf) < 4, NEW n, RestOf(buf, s, n)
    PROVE  RestOf(buf, s \o T, n)
  <1> DEFINE r == s \o T
             m == 4 - Len(buf)
  <1>1. /\ Len(r) = Len(s) + Len(T) /\ Len(s) \in Nat /\ Len(T) \in Nat \ {0}
        /\ \A j \in 1 .. Len(s) : r[j] = s[j]
        /\ r[Len(s) + 1] = T[1]
    <2>1. Len(s) \in Nat /\ Len(T) \in Nat \ {0}
      BY LenProperties, EmptySeq
    <2>2. \A j \in 1 .. Len(s) + Len(T) : r[j] = IF j <= Len(s) THEN s[j] ELSE T[j - Len(s)]
      BY ConcatProperties
    <2>3. (Len(s) + 1) - Len(s) = 1
      BY <2>1
    <2> QED
      BY <2>1, <2>2, <2>3, ConcatProperties
  <1> HIDE DEF r
  <1>2. Len(buf) \in Nat /\ m \in 1 .. 4 /\ m <= Len(s) /\ 5 - Len(buf) = m + 1
    BY LenProperties DEF RestOf
  <1>3. ASSUME NEW k \in 1 .. m PROVE Came(n, Len(buf) + k, r[k])
    <2>1. k \in 1 .. Len(s)
      BY <1>1, <1>2
    <2> QED
      BY <1>1, <2>1 DEF RestOf
  <1>4. r[m + 1].first
    <2>1. CASE m + 1 <= Len(s)
      <3>1. m + 1 \in 1 .. Len(s)
        BY <1>1, <1>2, <2>1
      <3> QED
        BY <1>1, <1>2, <2>1, <3>1 DEF RestOf
    <2>2. CASE m = Len(s)
      BY <1>1, <2>2
    <2> QED
      BY <1>1, <1>2, <2>1, <2>2
  <1>5. m <= Len(r)
    BY <1>1, <1>2
  <1> QED
    BY <1>2, <1>3, <1>4, <1>5 DEF RestOf, r

\* There is always another byte of it.
LEMMA RestComes ==
    ASSUME NEW s \in Seq(Wire), NEW buf \in Seq(Bytes), Len(buf) < 4, NEW n, RestOf(buf, s, n)
    PROVE  /\ s # <<>> /\ Came(n, Len(buf) + 1, Head(s)) /\ ~Head(s).first
           /\ Head(s).b \in {Record(n)[Len(buf) + 2], Garbled}
  <1>1. Len(buf) \in Nat /\ Len(s) \in Nat /\ 4 - Len(buf) <= Len(s) /\ 1 \in 1 .. 4 - Len(buf)
    BY LenProperties DEF RestOf
  <1>2. s # <<>> /\ Head(s) = s[1]
    BY <1>1, EmptySeq
  <1>3. Came(n, Len(buf) + 1, s[1])
    BY <1>1 DEF RestOf
  <1>4. (Len(buf) + 1) + 1 = Len(buf) + 2
    BY <1>1
  <1> QED
    BY <1>2, <1>3, <1>4 DEF Came

LEMMA RestTaken ==
    ASSUME NEW s \in Seq(Wire), NEW buf \in Seq(Bytes), Len(buf) < 3, NEW n, RestOf(buf, s, n)
    PROVE  RestOf(Append(buf, Head(s).b), Tail(s), n)
  <1> DEFINE c == Head(s).b
             u == Append(buf, c)
             t == Tail(s)
  <1>1. Len(buf) \in Nat /\ Len(s) \in Nat /\ 4 - Len(buf) <= Len(s)
    BY LenProperties DEF RestOf
  <1>2. s # <<>> /\ c \in {Record(n)[Len(buf) + 2], Garbled} /\ c \in Bytes
    BY <1>1, RestComes, ReadByte
  <1>3. Len(t) = Len(s) - 1 /\ \A i \in 1 .. Len(t) : t[i] = s[i + 1]
    BY <1>2, HeadTailProperties
  <1> HIDE DEF c, t
  <1>4. /\ Len(u) = Len(buf) + 1 /\ u[Len(buf) + 1] = c
        /\ \A i \in 1 .. Len(buf) : u[i] = buf[i]
    BY <1>2, AppendProperties
  <1> HIDE DEF u
  <1>5. ASSUME NEW k \in 1 .. Len(u) PROVE u[k] \in {Record(n)[k + 1], Garbled}
    <2>1. CASE k <= Len(buf)
      <3>1. k \in 1 .. Len(buf)
        BY <1>1, <2>1
      <3> QED
        BY <1>4, <3>1 DEF RestOf
    <2>2. CASE k = Len(buf) + 1
      <3>1. k + 1 = Len(buf) + 2
        BY <1>1, <2>2
      <3> QED
        BY <1>2, <1>4, <2>2, <3>1
    <2> QED
      BY <1>1, <1>4, <2>1, <2>2
  <1>6. ASSUME NEW k \in 1 .. 4 - Len(u) PROVE Came(n, Len(u) + k, t[k])
    <2>1. /\ k + 1 \in 1 .. 4 - Len(buf) /\ Len(buf) + (k + 1) = Len(u) + k
          /\ k \in 1 .. Len(t)
      BY <1>1, <1>3, <1>4
    <2> QED
      BY <1>3, <2>1 DEF RestOf
  <1>7. ASSUME 5 - Len(u) <= Len(t) PROVE t[5 - Len(u)].first
    <2>1. /\ 5 - Len(u) \in 1 .. Len(t) /\ (5 - Len(u)) + 1 = 5 - Len(buf)
          /\ 5 - Len(buf) <= Len(s)
      BY <1>1, <1>3, <1>4, <1>7
    <2> QED
      BY <1>3, <2>1 DEF RestOf
  <1>8. 4 - Len(u) <= Len(t)
    BY <1>1, <1>3, <1>4
  <1> QED
    BY <1>5, <1>6, <1>7, <1>8 DEF RestOf, u, t, c

LEMMA RestEnds ==
    ASSUME NEW s \in Seq(Wire), NEW buf \in Seq(Bytes), Len(buf) = 3, NEW n, RestOf(buf, s, n)
    PROVE  Begins(Tail(s))
  <1>1. s # <<>>
    <2>1. Len(buf) < 4
      OBVIOUS
    <2> QED
      BY <2>1, RestComes
  <1>2. /\ Len(Tail(s)) = Len(s) - 1 /\ \A i \in 1 .. Len(Tail(s)) : Tail(s)[i] = s[i + 1]
        /\ Len(s) \in Nat /\ Tail(s) \in Seq(Wire)
    BY <1>1, HeadTailProperties, LenProperties
  <1> SUFFICES ASSUME Tail(s) # <<>> PROVE Tail(s)[1].first
    BY DEF Begins
  <1>3. 1 \in 1 .. Len(Tail(s)) /\ 2 <= Len(s)
    BY <1>2, EmptySeq, LenProperties
  <1>4. Tail(s)[1] = s[2] /\ 5 - Len(buf) = 2
    BY <1>2, <1>3
  <1> QED
    BY <1>3, <1>4 DEF RestOf

\* What is read where a transmission begins.
LEMMA FirstByte ==
    ASSUME NEW s \in Seq(Wire), s # <<>>, NEW n, NEW d, NEW bl, NEW p,
           SentAt(s, 1, n, d, bl, p)
    PROVE  /\ Head(s).b \in Codes
           /\ Head(s).b = SOH => n \in 1 .. bl /\ RestOf(<<>>, Tail(s), n)
           /\ Head(s).b = EOT => AllSent(p, d) /\ Begins(Tail(s))
           /\ Head(s).b = CAN => p = "failed" /\ Begins(Tail(s))
  <1> DEFINE t == Tail(s)
  <1>1. /\ t \in Seq(Wire) /\ Len(t) = Len(s) - 1 /\ \A i \in 1 .. Len(t) : t[i] = s[i + 1]
        /\ Len(s) \in Nat /\ Head(s) = s[1]
    BY HeadTailProperties, LenProperties
  <1> HIDE DEF t
  <1>2. AloneAt(s, 1) => Begins(t)
    <2> SUFFICES ASSUME AloneAt(s, 1), t # <<>> PROVE t[1].first
      BY DEF Begins
    <2>1. 1 \in 1 .. Len(t) /\ 1 + 1 <= Len(s)
      BY <1>1, EmptySeq, LenProperties
    <2> QED
      BY <1>1, <2>1 DEF AloneAt
  <1>3. RecordAt(s, 1, n) => RestOf(<<>>, t, n)
    <2> SUFFICES ASSUME RecordAt(s, 1, n) PROVE RestOf(<<>>, t, n)
      OBVIOUS
    <2>1. Len(<<>>) = 0 /\ 4 <= Len(t)
      BY <1>1, EmptySeq DEF RecordAt
    <2>2. ASSUME NEW k \in 1 .. 4 PROVE Came(n, 0 + k, t[k])
      <3>1. k \in 1 .. Len(t) /\ t[k] = s[1 + k] /\ 0 + k = k
        BY <1>1, <2>1
      <3> QED
        BY <3>1 DEF RecordAt
    <2>3. ASSUME 5 <= Len(t) PROVE t[5].first
      <3>1. 5 \in 1 .. Len(t) /\ t[5] = s[6] /\ 1 + 5 <= Len(s)
        BY <1>1, <2>3
      <3> QED
        BY <3>1 DEF RecordAt
    <2> QED
      BY <2>1, <2>2, <2>3 DEF RestOf
  <1>4. SOH # EOT /\ SOH # CAN /\ EOT # CAN
    BY Constants
  <1> QED
    BY <1>1, <1>2, <1>3, <1>4 DEF SentAt, Codes, t

\* Noise changes a byte that does not begin a transmission.
LEMMA Garbling ==
    ASSUME NEW s \in Seq(Wire), NEW i \in 1 .. Len(s), ~s[i].first
    PROVE  LET r == [s EXCEPT ![i].b = Garbled]
           IN  /\ Len(r) = Len(s) /\ (r = <<>> <=> s = <<>>)
               /\ \A j \in 1 .. Len(s) : /\ r[j].first = s[j].first
                                         /\ r[j].b = IF j = i THEN Garbled ELSE s[j].b
  <1> DEFINE w == [s[i] EXCEPT !.b = Garbled]
             r == [s EXCEPT ![i] = w]
  <1>1. s[i] \in Wire /\ \A j \in 1 .. Len(s) : s[j] \in Wire
    BY ElementOfSeq
  <1>2. w \in Wire /\ w.b = Garbled /\ w.first = s[i].first
    BY <1>1, Constants DEF Wire
  <1> HIDE DEF w
  <1>3. /\ r \in Seq(Wire) /\ Len(r) = Len(s) /\ r[i] = w
        /\ \A j \in 1 .. Len(s) : j # i => r[j] = s[j]
    BY <1>2, ExceptSeq, LenProperties
  <1> HIDE DEF r
  <1>4. (r = <<>> <=> s = <<>>)
    BY <1>3, EmptySeq, LenProperties
  <1>5. r = [s EXCEPT ![i].b = Garbled]
    BY DEF r, w
  <1> QED
    BY <1>2, <1>3, <1>4, <1>5

LEMMA StreamGarbled ==
    ASSUME NEW s \in Seq(Wire), NEW i \in 1 .. Len(s), ~s[i].first
    PROVE  LET r == [s EXCEPT ![i].b = Garbled]
           IN  /\ \A cut, d, bl, p : StreamOf(s, cut, d, bl, p) => StreamOf(r, cut, d, bl, p)
               /\ Begins(s) => Begins(r)
               /\ \A buf \in Seq(Bytes) : \A n :
                     Len(buf) < 4 /\ RestOf(buf, s, n) => RestOf(buf, r, n)
  <1> DEFINE r == [s EXCEPT ![i].b = Garbled]
  <1>1. /\ Len(r) = Len(s) /\ (r = <<>> <=> s = <<>>) /\ Len(s) \in Nat
        /\ \A j \in 1 .. Len(s) : /\ r[j].first = s[j].first
                                  /\ r[j].b = IF j = i THEN Garbled ELSE s[j].b
    BY Garbling, LenProperties
  <1> HIDE DEF r
  <1>2. \A n, k : \A j \in 1 .. Len(s) : Came(n, k, s[j]) => Came(n, k, r[j])
    BY <1>1 DEF Came
  <1>3. ASSUME NEW cut, NEW d, NEW bl, NEW p, StreamOf(s, cut, d, bl, p),
               NEW j \in 1 .. Len(r), r[j].first
        PROVE  SentAt(r, j, Number(j, cut, d), d, bl, p)
    <2>1. j # i /\ j \in 1 .. Len(s) /\ r[j].b = s[j].b /\ s[j].first
      BY <1>1, <1>3
    <2> DEFINE n == Number(j, cut, d)
    <2>2. SentAt(s, j, n, d, bl, p)
      BY <1>3, <2>1 DEF StreamOf
    <2> HIDE DEF n
    <2>3. AloneAt(s, j) => AloneAt(r, j)
      BY <1>1 DEF AloneAt
    <2>4. RecordAt(s, j, n) => RecordAt(r, j, n)
      <3> SUFFICES ASSUME RecordAt(s, j, n) PROVE RecordAt(r, j, n)
        OBVIOUS
      <3>1. j + 4 <= Len(r)
        BY <1>1 DEF RecordAt
      <3>2. ASSUME NEW k \in 1 .. 4 PROVE Came(n, k, r[j + k])
        <4>1. j + k \in 1 .. Len(s)
          BY <1>1, <3>1
        <4> QED
          BY <1>2, <4>1 DEF RecordAt
      <3>3. ASSUME j + 5 <= Len(r) PROVE r[j + 5].first
        <4>1. j + 5 \in 1 .. Len(s)
          BY <1>1, <3>3
        <4> QED
          BY <1>1, <4>1 DEF RecordAt
      <3> QED
        BY <3>1, <3>2, <3>3 DEF RecordAt
    <2> QED
      BY <2>1, <2>2, <2>3, <2>4 DEF SentAt, n
  <1>4. Begins(s) => Begins(r)
    <2> SUFFICES ASSUME Begins(s), r # <<>> PROVE r[1].first
      BY DEF Begins
    <2>1. 1 \in 1 .. Len(s)
      BY <1>1, EmptySeq
    <2> QED
      BY <1>1, <2>1 DEF Begins
  <1>5. ASSUME NEW buf \in Seq(Bytes), NEW n, Len(buf) < 4, RestOf(buf, s, n)
        PROVE  RestOf(buf, r, n)
    <2>1. Len(buf) \in Nat /\ 4 - Len(buf) <= Len(s)
      BY <1>5, LenProperties DEF RestOf
    <2>2. ASSUME NEW k \in 1 .. 4 - Len(buf) PROVE Came(n, Len(buf) + k, r[k])
      <3>1. k \in 1 .. Len(s)
        BY <1>1, <2>1
      <3> QED
        BY <1>2, <1>5, <3>1 DEF RestOf
    <2>3. ASSUME 5 - Len(buf) <= Len(r) PROVE r[5 - Len(buf)].first
      <3>1. 5 - Len(buf) \in 1 .. Len(s) /\ 5 - Len(buf) <= Len(s)
        BY <1>1, <1>5, <2>1, <2>3
      <3> QED
        BY <1>1, <1>5, <3>1 DEF RestOf
    <2> QED
      BY <1>1, <1>5, <2>2, <2>3 DEF RestOf
  <1> QED
    BY <1>3, <1>4, <1>5 DEF StreamOf, r

LEMMA FourBytes ==
    ASSUME NEW buf \in Seq(Bytes), NEW b \in Bytes
    PROVE  Len(buf) = 3 => Append(buf, b)[1] = buf[1] /\ Append(buf, b)[3] = buf[3]
                           /\ Append(buf, b)[4] = b
  <1> DEFINE r == Append(buf, b)
             l == Len(buf)
  <1>1. \A i \in 1 .. l : r[i] = buf[i]
    BY AppendProperties
  <1>2. r[l + 1] = b
    BY AppendProperties
  <1> HIDE DEF r, l
  <1> SUFFICES ASSUME l = 3 PROVE r[1] = buf[1] /\ r[3] = buf[3] /\ r[4] = b
    BY DEF r, l
  <1>4. 1 \in 1 .. l /\ 3 \in 1 .. l /\ l + 1 = 4
    OBVIOUS
  <1> QED
    BY <1>1, <1>2, <1>4

\* xmodem_get_record takes the block that is next and no other.
LEMMA Recognized ==
    ASSUME NEW d \in Nat, NEW n \in {d, d + 1}, n \in 1 .. Len(File),
           NEW buf \in Seq(Bytes), Len(buf) = 3, NEW b \in {Record(n)[5], Garbled},
           \A k \in 1 .. 3 : buf[k] \in {Record(n)[k + 1], Garbled},
           GoodRecord((d + 1) % BlockMod, Append(buf, b))
    PROVE  n = d + 1 /\ buf[3] = File[d + 1]
  <1> DEFINE r == Append(buf, b)
  <1>0. b \in Bytes
    <2>1. Record(n)[5] \in Bytes /\ Garbled \in Bytes
      BY Records, Constants
    <2> QED
      BY <2>1
  <1>1. /\ Record(n)[2] = n % BlockMod /\ Record(n)[2] \in BlockBytes
        /\ Record(n)[4] = File[n] /\ File[n] \in Data /\ Record(n)[5] = Check(File[n])
    BY Records
  <1>2. r[1] = buf[1] /\ r[3] = buf[3] /\ r[4] = b
    BY <1>0, FourBytes
  <1> HIDE DEF r
  <1>3. buf[1] = (d + 1) % BlockMod /\ b = Check(buf[3])
    BY <1>2 DEF GoodRecord, r
  <1>4. buf[1] \in {Record(n)[2], Garbled} /\ buf[3] \in {Record(n)[4], Garbled}
    <2>1. 1 \in 1 .. 3 /\ 3 \in 1 .. 3
      OBVIOUS
    <2> QED
      BY <2>1
  <1>5. Garbled \notin BlockBytes /\ (d + 1) % BlockMod \in BlockBytes
    <2>1. d + 1 \in Nat
      OBVIOUS
    <2> QED
      BY <2>1, Constants, XmodemAssumption
  <1>6. n % BlockMod = (d + 1) % BlockMod
    BY <1>1, <1>3, <1>4, <1>5
  <1>7. n # d
    <2>1. 1 \in 1 .. BlockMod - 1 /\ BlockMod \in Nat \ {0}
      BY Constants
    <2> QED
      BY <1>6, <2>1, ModApart
  <1>8. buf[3] # Garbled
    <2> SUFFICES ASSUME buf[3] = Garbled PROVE FALSE
      OBVIOUS
    <2>1. b = Check(Garbled)
      BY <1>3
    <2>2. b # Garbled
      BY <2>1, XmodemAssumption
    <2>3. Check(Garbled) = Check(File[n])
      BY <1>1, <2>1, <2>2
    <2>4. Garbled = File[n]
      BY <1>1, <2>3, XmodemAssumption
    <2> QED
      BY <1>1, <2>4, XmodemAssumption
  <1> QED
    BY <1>1, <1>4, <1>7, <1>8

\* Where the receiver is in the stream; cut is as in Number.
ReceiverAt(r, s, cut, d, bl) ==
    /\ r.pc \in {"top", "open"} => Begins(s)
    /\ r.pc = "record" =>
          \E n \in {d, d + 1} : n \in 1 .. bl /\ (n = d + 1 => cut = 0) /\ RestOf(r.buf, s, n)
    /\ r.then = "accept" => d + 1 \in 1 .. bl /\ cut = 0 /\ r.buf[3] = File[d + 1]

Receiving == {r \in Receivers : Len(r.buf) < 4}
Blocks == 1 .. Len(File)

InStep(r, s, d, bl, p) ==
    \E cut \in 0 .. Len(s) : StreamOf(s, cut, d, bl, p) /\ ReceiverAt(r, s, cut, d, bl)

LEMMA NotEmpty == ASSUME NEW q \in Seq(Wire), Len(q) # 0 PROVE q # <<>>
  OBVIOUS

LEMMA Lengths ==
    ASSUME NEW s \in Seq(Wire), NEW T \in Seq(Wire)
    PROVE  /\ s \o T \in Seq(Wire) /\ Len(s \o T) = Len(s) + Len(T)
           /\ Len(s) \in Nat /\ Len(T) \in Nat
  BY ConcatProperties, LenProperties

LEMMA BeginsKept ==
    ASSUME NEW s \in Seq(Wire), NEW T \in Seq(Wire), T # <<>>, T[1].first, Begins(s)
    PROVE  Begins(s \o T)
  <1> DEFINE r == s \o T
  <1>1. /\ Len(s) \in Nat /\ Len(T) \in Nat \ {0}
        /\ \A j \in 1 .. Len(s) + Len(T) : r[j] = IF j <= Len(s) THEN s[j] ELSE T[j - Len(s)]
    BY LenProperties, EmptySeq, ConcatProperties
  <1> HIDE DEF r
  <1>2. 1 \in 1 .. Len(s) + Len(T)
    BY <1>1
  <1>3. CASE Len(s) = 0
    <2>1. 1 - Len(s) = 1 /\ ~ (1 <= Len(s))
      BY <1>3
    <2>2. r[1] = T[1]
      BY <1>1, <1>2, <2>1
    <2> QED
      BY <2>2 DEF Begins, r
  <1>4. CASE Len(s) # 0
    <2>1. s # <<>> /\ 1 <= Len(s)
      BY <1>1, <1>4, EmptySeq
    <2>2. r[1] = s[1]
      BY <1>1, <1>2, <2>1
    <2> QED
      BY <2>1, <2>2 DEF Begins, r
  <1> QED
    BY <1>3, <1>4

\* The receiver keeps its place when a transmission is appended.
LEMMA PlaceKept ==
    ASSUME NEW s \in Seq(Wire), NEW T \in Seq(Wire), T # <<>>, T[1].first,
           NEW r \in Receiving, NEW cut \in Nat, NEW cut2 \in Nat,
           NEW d \in Nat, NEW bl \in Nat, ReceiverAt(r, s, cut, d, bl),
           cut2 = cut \/ bl = d
    PROVE  ReceiverAt(r, s \o T, cut2, d, bl)
  <1>1. r.buf \in Seq(Bytes) /\ Len(r.buf) < 4
    BY DEF Receivers, Receiving
  <1>2. \A n : RestOf(r.buf, s, n) => RestOf(r.buf, s \o T, n)
    BY <1>1, RestKept
  <1>3. Begins(s) => Begins(s \o T)
    BY BeginsKept
  <1>4. d + 1 \in 1 .. bl => cut2 = cut
    OBVIOUS
  <1> QED
    BY <1>2, <1>3, <1>4 DEF ReceiverAt

LEMMA RecordSent ==
    ASSUME NEW s \in Seq(Wire), NEW r \in Receiving, NEW d \in Nat,
           NEW bl \in Blocks, NEW p, bl \in {d, d + 1}, InStep(r, s, d, bl, p)
    PROVE  InStep(r, s \o Burst(Record(bl)), d, bl, p)
  <1> DEFINE T == Burst(Record(bl))
  <1>1. /\ T \in Seq(Wire) /\ Len(T) = 5 /\ T[1].first
        /\ \A k \in 2 .. Len(T) : ~T[k].first
    <2>1. /\ T \in Seq(Wire) /\ Len(T) = 5
          /\ \A i \in 1 .. 5 : T[i].first <=> i = 1
      BY Records, Bursts DEF Blocks
    <2> QED
      BY <2>1
  <1>0. T \in Seq(Wire) /\ Len(T) = 5
    BY <1>1
  <1> HIDE DEF T
  <1>2. T # <<>>
    BY <1>0, NotEmpty
  <1>3. bl \in Nat /\ bl \in 1 .. bl
    BY Constants DEF Blocks
  <1>4. \A n : n = bl => SentAt(s \o T, Len(s) + 1, n, d, bl, p)
    BY <1>3, RecordAppended DEF T, Blocks
  <1>5. PICK cut \in 0 .. Len(s) : StreamOf(s, cut, d, bl, p) /\ ReceiverAt(r, s, cut, d, bl)
    BY DEF InStep
  <1>6. Len(s) \in Nat /\ cut \in Nat /\ Len(s \o T) = Len(s) + 5
    <2>1. Len(s) \in Nat /\ Len(s \o T) = Len(s) + Len(T)
      BY <1>0, Lengths
    <2>2. cut \in Nat
      BY <2>1
    <2> QED
      BY <1>0, <2>1, <2>2
  <1>7. CASE bl = d + 1
    <2>1. Number(Len(s) + 1, cut, d) = bl
      BY <1>6, <1>7 DEF Number
    <2>2. StreamOf(s \o T, cut, d, bl, p)
      BY <1>1, <1>2, <1>4, <1>5, <2>1, StreamGrows
    <2>3. ReceiverAt(r, s \o T, cut, d, bl)
      BY <1>1, <1>2, <1>3, <1>5, <1>6, PlaceKept
    <2>4. cut \in 0 .. Len(s \o T)
      BY <1>6
    <2> QED
      BY <2>2, <2>3, <2>4 DEF InStep, T
  <1>8. CASE bl = d
    <2> DEFINE c == Len(s) + 5
    <2>1. c \in Nat /\ c \in 0 .. Len(s \o T)
      BY <1>6
    <2>2. Number(Len(s) + 1, c, d) = bl
      BY <1>6, <1>8 DEF Number
    <2>3. \A i \in 1 .. Len(s) :
             Number(i, cut, d) \in 1 .. bl => Number(i, c, d) = Number(i, cut, d)
      BY <1>6, <1>8 DEF Number
    <2> HIDE DEF c
    <2>4. StreamOf(s \o T, c, d, bl, p)
      BY <1>1, <1>2, <1>4, <1>5, <2>2, <2>3, StreamGrows
    <2>5. ReceiverAt(r, s \o T, c, d, bl)
      BY <1>1, <1>2, <1>3, <1>5, <1>6, <1>8, <2>1, PlaceKept
    <2> QED
      BY <2>1, <2>4, <2>5 DEF InStep, T
  <1> QED
    BY <1>7, <1>8

LEMMA OneByte ==
    ASSUME NEW c \in {EOT, CAN}
    PROVE  /\ Burst(<<c>>) \in Seq(Wire) /\ Len(Burst(<<c>>)) = 1 /\ Burst(<<c>>)[1].first
           /\ Burst(<<c>>) # <<>>
  <1> DEFINE q == <<c>>
             T == Burst(q)
  <1>1. q \in Seq(Bytes) /\ Len(q) = 1
    BY Singles
  <1> HIDE DEF q
  <1>2. T \in Seq(Wire) /\ Len(T) = 1 /\ \A i \in 1 .. 1 : T[i].first <=> i = 1
    BY <1>1, Bursts
  <1> HIDE DEF T
  <1>3. T # <<>>
    <2>1. Len(<<>>) = 0
      BY EmptySeq
    <2>2. Len(T) # 0
      BY <1>2
    <2>3. Len(T) # Len(<<>>)
      BY <2>1, <2>2
    <2> QED
      BY <2>3
  <1>4. T[1].first
    BY <1>2
  <1> QED
    BY <1>2, <1>3, <1>4 DEF T, q

LEMMA OneSent ==
    ASSUME NEW s \in Seq(Wire), NEW r \in Receiving, NEW d \in Nat,
           NEW bl \in Blocks, NEW p, InStep(r, s, d, bl, p),
           NEW c \in {EOT, CAN}, c = EOT => AllSent(p, d), c = CAN => p = "failed"
    PROVE  InStep(r, s \o Burst(<<c>>), d, bl, p)
  <1> DEFINE T == Burst(<<c>>)
  <1>0. T \in Seq(Wire) /\ Len(T) = 1
    BY OneByte
  <1>1. T[1].first /\ T # <<>>
    BY OneByte
  <1> HIDE DEF T
  <1>2. \A k \in 2 .. Len(T) : ~T[k].first
    <2>1. \A k \in 2 .. Len(T) : FALSE
      BY <1>0
    <2> QED
      BY <2>1
  <1>3. \A n : SentAt(s \o T, Len(s) + 1, n, d, bl, p)
    BY OneAppended DEF T
  <1>4. PICK cut \in 0 .. Len(s) : StreamOf(s, cut, d, bl, p) /\ ReceiverAt(r, s, cut, d, bl)
    BY DEF InStep
  <1>5. /\ Len(s) \in Nat /\ cut \in Nat /\ Len(s \o T) = Len(s) + 1 /\ bl \in Nat
        /\ cut \in 0 .. Len(s \o T)
    <2>1. bl \in Nat
      BY Constants DEF Blocks
    <2>2. Len(s) \in Nat /\ Len(s \o T) = Len(s) + Len(T)
      BY <1>0, Lengths
    <2>3. cut \in Nat
      BY <2>2
    <2> QED
      BY <1>0, <2>1, <2>2, <2>3
  <1>6. StreamOf(s \o T, cut, d, bl, p)
    BY <1>0, <1>1, <1>2, <1>3, <1>4, StreamGrows
  <1>7. ReceiverAt(r, s \o T, cut, d, bl)
    BY <1>0, <1>1, <1>4, <1>5, PlaceKept
  <1> QED
    BY <1>5, <1>6, <1>7 DEF InStep, T

\* The sender moves on.
LEMMA StepLater ==
    ASSUME NEW s, NEW r, NEW d \in Nat, NEW bl \in Nat, NEW p, NEW bl2 \in Nat, NEW p2,
           InStep(r, s, d, bl, p), bl <= bl2,
           AllSent(p, d) => AllSent(p2, d), p = "failed" => p2 = "failed"
    PROVE  InStep(r, s, d, bl2, p2)
  <1>1. PICK cut \in 0 .. Len(s) : StreamOf(s, cut, d, bl, p) /\ ReceiverAt(r, s, cut, d, bl)
    BY DEF InStep
  <1>2. StreamOf(s, cut, d, bl2, p2)
    BY <1>1, StreamLater
  <1>3. \A n : n \in 1 .. bl => n \in 1 .. bl2
    OBVIOUS
  <1>4. ReceiverAt(r, s, cut, d, bl2)
    BY <1>1, <1>3 DEF ReceiverAt
  <1> QED
    BY <1>2, <1>4 DEF InStep

\* What is read when the receiver waits for a transmission.
LEMMA ReadFirst ==
    ASSUME NEW s \in Seq(Wire), s # <<>>, NEW r, r.pc = "open", r.then # "accept",
           NEW d \in Nat, NEW bl \in Nat, NEW p, InStep(r, s, d, bl, p)
    PROVE  LET t == Tail(s)
           IN  /\ Head(s).b \in Codes
               /\ Head(s).b = EOT => AllSent(p, d)
               /\ Head(s).b = CAN => p = "failed"
               /\ \E cut \in 0 .. Len(t) :
                     /\ StreamOf(t, cut, d, bl, p)
                     /\ Head(s).b = SOH =>
                           \E n \in {d, d + 1} :
                              n \in 1 .. bl /\ (n = d + 1 => cut = 0) /\ RestOf(<<>>, t, n)
  <1>1. PICK cut \in 0 .. Len(s) : StreamOf(s, cut, d, bl, p) /\ ReceiverAt(r, s, cut, d, bl)
    BY DEF InStep
  <1>2. /\ Len(s) \in Nat \ {0} /\ Len(Tail(s)) = Len(s) - 1 /\ cut \in Nat
        /\ 1 \in 1 .. Len(s)
    BY HeadTailProperties, LenProperties, EmptySeq
  <1> DEFINE n == Number(1, cut, d)
             c == IF cut = 0 THEN 0 ELSE cut - 1
  <1>3. s[1].first
    BY <1>1 DEF ReceiverAt, Begins
  <1>4. SentAt(s, 1, n, d, bl, p)
    BY <1>1, <1>2, <1>3 DEF StreamOf
  <1>5. StreamOf(Tail(s), c, d, bl, p) /\ c \in 0 .. Len(Tail(s))
    BY <1>1, <1>2, StreamTail
  <1>6. n \in {d, d + 1} /\ (n = d + 1 => c = 0)
    BY <1>2 DEF Number
  <1> HIDE DEF n, c
  <1>7. /\ Head(s).b \in Codes
        /\ Head(s).b = SOH => n \in 1 .. bl /\ RestOf(<<>>, Tail(s), n)
        /\ Head(s).b = EOT => AllSent(p, d)
        /\ Head(s).b = CAN => p = "failed"
    BY <1>4, FirstByte
  <1> QED
    BY <1>5, <1>6, <1>7

\* A byte is dropped in xmodem_flush.
LEMMA ReadDropped ==
    ASSUME NEW s \in Seq(Wire), s # <<>>, NEW r, r.pc = "flush",
           NEW d \in Nat, NEW bl \in Nat, NEW p, InStep(r, s, d, bl, p)
    PROVE  InStep(r, Tail(s), d, bl, p)
  <1>1. PICK cut \in 0 .. Len(s) : StreamOf(s, cut, d, bl, p) /\ ReceiverAt(r, s, cut, d, bl)
    BY DEF InStep
  <1>2. /\ Len(s) \in Nat \ {0} /\ Len(Tail(s)) = Len(s) - 1 /\ cut \in Nat
    BY HeadTailProperties, LenProperties, EmptySeq
  <1> DEFINE c == IF cut = 0 THEN 0 ELSE cut - 1
  <1>3. StreamOf(Tail(s), c, d, bl, p) /\ c \in 0 .. Len(Tail(s))
    BY <1>1, <1>2, StreamTail
  <1>4. ReceiverAt(r, Tail(s), c, d, bl)
    BY <1>1, <1>2 DEF ReceiverAt
  <1> HIDE DEF c
  <1> QED
    BY <1>3, <1>4 DEF InStep

----------------------------------------------------------------------------
(* The replies                                                             *)

\* How many of the receiver's acknowledgements the sender has taken, and how
\* many the receiver has given: one for a block, one for the end.
Succeeded == "ok" \in {rx.then, rx.result}
Taken ==
    CASE tx.pc = "eot" -> tx.block
      [] tx.pc = "done" -> tx.block + 1
      [] OTHER -> tx.block - 1
Given == IF Succeeded THEN Len(dest) + 1 ELSE Len(dest)

\* At most one is on the line, and only when one more was given than taken.
AnswersOf(q, taken, given) ==
    /\ taken <= given
    /\ \A i \in 1 .. Len(q) : q[i] = "ACK" => taken < given
    /\ \A i, j \in 1 .. Len(q) : q[i] = "ACK" /\ q[j] = "ACK" => i = j

LEMMA AnswerOther ==
    ASSUME NEW q \in Seq(Replies), NEW c \in Replies \ {"ACK"}, NEW t, NEW g, AnswersOf(q, t, g)
    PROVE  AnswersOf(Append(q, c), t, g)
  <1> DEFINE r == Append(q, c)
  <1>1. /\ Len(r) = Len(q) + 1 /\ r[Len(q) + 1] = c /\ Len(q) \in Nat
        /\ \A i \in 1 .. Len(q) : r[i] = q[i]
    BY AppendProperties, LenProperties
  <1> HIDE DEF r
  <1>2. \A i \in 1 .. Len(r) : r[i] = "ACK" => i \in 1 .. Len(q) /\ q[i] = "ACK"
    BY <1>1
  <1> QED
    BY <1>2 DEF AnswersOf, r

LEMMA AnswerAck ==
    ASSUME NEW q \in Seq(Replies), NEW g \in Nat, AnswersOf(q, g, g)
    PROVE  AnswersOf(Append(q, "ACK"), g, g + 1)
  <1> DEFINE r == Append(q, "ACK")
  <1>1. /\ Len(r) = Len(q) + 1 /\ Len(q) \in Nat
        /\ \A i \in 1 .. Len(q) : r[i] = q[i]
    BY AppendProperties, LenProperties DEF Replies
  <1> HIDE DEF r
  <1>2. \A i \in 1 .. Len(q) : q[i] # "ACK"
    BY DEF AnswersOf
  <1>3. \A i \in 1 .. Len(r) : r[i] = "ACK" => i = Len(q) + 1
    BY <1>1, <1>2
  <1> QED
    BY <1>3 DEF AnswersOf, r

LEMMA AnswerRead ==
    ASSUME NEW q \in Seq(Replies), q # <<>>, NEW t \in Nat, NEW g \in Nat, AnswersOf(q, t, g)
    PROVE  /\ AnswersOf(Tail(q), t, g)
           /\ Head(q) = "ACK" => t + 1 <= g /\ AnswersOf(Tail(q), t + 1, g)
  <1> DEFINE r == Tail(q)
  <1>1. /\ Len(r) = Len(q) - 1 /\ Len(q) \in Nat \ {0} /\ Head(q) = q[1]
        /\ \A i \in 1 .. Len(r) : r[i] = q[i + 1]
    BY HeadTailProperties, LenProperties, EmptySeq
  <1> HIDE DEF r
  <1>2. ASSUME NEW i \in 1 .. Len(r) PROVE i + 1 \in 1 .. Len(q) /\ r[i] = q[i + 1]
    BY <1>1
  <1>3. AnswersOf(r, t, g)
    BY <1>1, <1>2 DEF AnswersOf
  <1>4. ASSUME Head(q) = "ACK" PROVE t + 1 <= g /\ AnswersOf(r, t + 1, g)
    <2>1. 1 \in 1 .. Len(q) /\ q[1] = "ACK"
      BY <1>1, <1>4
    <2>2. t + 1 <= g
      BY <2>1 DEF AnswersOf
    <2>3. \A i \in 1 .. Len(r) : r[i] # "ACK"
      <3> SUFFICES ASSUME NEW i \in 1 .. Len(r), r[i] = "ACK" PROVE FALSE
        OBVIOUS
      <3>1. i + 1 \in 1 .. Len(q) /\ q[i + 1] = "ACK" /\ i + 1 # 1
        BY <1>1, <1>2
      <3> QED
        BY <2>1, <3>1 DEF AnswersOf
    <2> QED
      BY <2>2, <2>3 DEF AnswersOf
  <1> QED
    BY <1>3, <1>4 DEF r

LEMMA AnswerLost ==
    ASSUME NEW q \in Seq(Replies), NEW i \in 1 .. Len(q), NEW t, NEW g, AnswersOf(q, t, g)
    PROVE  AnswersOf(RemoveAt(q, i), t, g)
  <1> DEFINE r == RemoveAt(q, i)
             f == [j \in 1 .. Len(q) - 1 |-> IF j < i THEN j ELSE j + 1]
  <1>1. /\ Len(r) = Len(q) - 1 /\ Len(q) \in Nat
        /\ \A j \in 1 .. Len(q) - 1 : r[j] = IF j < i THEN q[j] ELSE q[j + 1]
    BY RemovedLeaves, LenProperties
  <1> HIDE DEF r
  <1>2. \A j \in 1 .. Len(q) - 1 : f[j] \in 1 .. Len(q) /\ r[j] = q[f[j]]
    BY <1>1
  <1>3. \A j, k \in 1 .. Len(q) - 1 : f[j] = f[k] => j = k
    BY <1>1
  <1> HIDE DEF f
  <1> QED
    BY <1>1, <1>2, <1>3 DEF AnswersOf, r

LEMMA AnswerCancel ==
    ASSUME NEW q \in Seq(Replies), NEW t, NEW g, AnswersOf(q, t, g)
    PROVE  AnswersOf(q \o <<"CAN", "CAN", "CAN">>, t, g)
  <1> DEFINE T == <<"CAN", "CAN", "CAN">>
             r == q \o T
  <1>1. T \in Seq(Replies) /\ Len(T) = 3 /\ \A i \in 1 .. 3 : T[i] = "CAN"
    BY DEF Replies
  <1> HIDE DEF T
  <1>2. /\ Len(r) = Len(q) + Len(T) /\ Len(q) \in Nat
        /\ \A j \in 1 .. Len(q) + Len(T) : r[j] = IF j <= Len(q) THEN q[j] ELSE T[j - Len(q)]
    BY <1>1, ConcatProperties, LenProperties
  <1> HIDE DEF r
  <1>3. ASSUME NEW i \in 1 .. Len(r), r[i] = "ACK" PROVE i \in 1 .. Len(q) /\ q[i] = "ACK"
    <2>1. CASE i <= Len(q)
      BY <1>2, <1>3, <2>1
    <2>2. CASE i > Len(q)
      <3>1. i - Len(q) \in 1 .. 3 /\ i \in 1 .. Len(q) + Len(T) /\ ~ (i <= Len(q))
        BY <1>1, <1>2, <2>2
      <3> QED
        BY <1>1, <1>2, <1>3, <3>1
    <2> QED
      BY <1>2, <2>1, <2>2
  <1> QED
    BY <1>3 DEF AnswersOf, r, T

----------------------------------------------------------------------------
(* The inductive invariant                                                 *)

Aligned == InStep(rx, toRx, Len(dest), tx.block, tx.pc)

Answers == tx.pc # "failed" => AnswersOf(toTx, Taken, Given)

\* The blocks of the file, in order; the one awaited is the sender's or the
\* one after it.
Stored ==
    /\ \A i \in 1 .. Len(dest) : dest[i] = File[i]
    /\ tx.block \in {Len(dest), Len(dest) + 1}
    /\ rx.then \in {"none", "accept"} /\ rx.pc # "returned" =>
          rx.packnum = (Len(dest) + 1) % BlockMod
    /\ Succeeded => AllSent(tx.pc, Len(dest))
    /\ tx.pc = "wait" => tx.block = 1 /\ Len(dest) = 0 /\ toRx = <<>> /\ rx.then # "accept"
    /\ tx.pc \in {"eot", "done"} => tx.block = Len(File)

Sync == Aligned /\ Answers /\ Stored

IInv == Typed /\ (~misaligned => Sync)

LEMMA SyncInit == Init => Sync
  <1> SUFFICES ASSUME Init PROVE Sync
    OBVIOUS
  <1>1. Len(<<>>) = 0 /\ 0 \in 0 .. Len(<<>>)
    BY EmptySeq
  <1>2. Aligned
    <2>1. StreamOf(toRx, 0, Len(dest), tx.block, tx.pc)
      BY <1>1 DEF Init, StreamOf
    <2>2. ReceiverAt(rx, toRx, 0, Len(dest), tx.block)
      BY DEF Init, ReceiverAt, Begins
    <2> QED
      BY <1>1, <2>1, <2>2 DEF Aligned, InStep, Init
  <1>3. Answers
    BY <1>1 DEF Init, Answers, AnswersOf, Taken, Given, Succeeded
  <1>4. Stored
    BY <1>1 DEF Init, Stored, Succeeded, NextNum
  <1> QED
    BY <1>2, <1>3, <1>4 DEF Sync

LEMMA SamePlace ==
    ASSUME NEW s, NEW r, NEW r2, NEW d, NEW bl, NEW p, InStep(r, s, d, bl, p),
           r2.pc \in {"top", "open"} => r.pc \in {"top", "open"},
           r2.pc # "record", r2.then # "accept"
    PROVE  InStep(r2, s, d, bl, p)
  BY DEF InStep, ReceiverAt

LEMMA AnswersKept ==
    ASSUME Typed, Answers, UNCHANGED <<dest, tx>>, Succeeded' <=> Succeeded,
           UNCHANGED toTx \/ \E c \in Replies \ {"ACK"} : Out(c)
    PROVE  Answers'
  <1>1. Taken' = Taken /\ Given' = Given /\ tx'.pc = tx.pc
    BY DEF Taken, Given
  <1>2. CASE UNCHANGED toTx
    BY <1>1, <1>2 DEF Answers
  <1>3. CASE \E c \in Replies \ {"ACK"} : Out(c)
    <2>1. PICK c \in Replies \ {"ACK"} : toTx' = Append(toTx, c)
      BY <1>3 DEF Out
    <2>2. PICK q, t, g : q = toTx /\ t = Taken /\ g = Given
      OBVIOUS
    <2>3. q \in Seq(Replies)
      BY <2>2 DEF Typed, TypeOK
    <2>4. AnswersOf(q, t, g) => AnswersOf(Append(q, c), t, g)
      BY <2>3, AnswerOther
    <2> QED
      BY <1>1, <2>1, <2>2, <2>4 DEF Answers
  <1> QED
    BY <1>2, <1>3

LEMMA StoredKept ==
    ASSUME Stored, UNCHANGED <<dest, tx>>,
           Succeeded' => Succeeded \/ AllSent(tx.pc, Len(dest)),
           rx'.then \in {"none", "accept"} /\ rx'.pc # "returned" =>
              rx.then \in {"none", "accept"} /\ rx.pc # "returned" /\ rx'.packnum = rx.packnum,
           toRx = <<>> => toRx' = <<>>,
           rx'.then = "accept" => rx.then = "accept" \/ toRx # <<>>
    PROVE  Stored'
  <1>1. Succeeded' => AllSent(tx.pc, Len(dest))
    BY DEF Stored
  <1> QED
    BY <1>1 DEF Stored

\* A wait for the sender that comes to nothing finds the stream between two
\* transmissions.
LEMMA NoByte ==
    ASSUME Typed, Timeout
    PROVE  toRx' = toRx /\ Begins(toRx)
  BY DEF Timeout, Begins

LEMMA ReceiverNumbers ==
    ASSUME Typed
    PROVE  /\ Len(dest) \in Nat /\ tx.block \in Nat /\ rx.buf \in Seq(Bytes) /\ Len(rx.buf) < 4
           /\ toRx \in Seq(Wire) /\ rx \in Receivers
           /\ rx.pc \notin {"flush", "returned"} => rx.then = "none" /\ rx.result = "none" /\ ~Succeeded
  <1>1. /\ Len(dest) \in Nat /\ rx.buf \in Seq(Bytes) /\ Len(rx.buf) < 4
        /\ toRx \in Seq(Wire) /\ rx \in Receivers
    BY LenProperties DEF Typed, TypeOK, Receivers
  <1>2. tx.block \in 1 .. Len(File)
    BY DEF Typed, TypeOK, Senders
  <1>3. tx.block \in Nat
    <2>1. \A n : n \in 1 .. Len(File) => n \in Nat
      OBVIOUS
    <2> QED
      BY <1>2, <2>1
  <1> QED
    BY <1>1, <1>3 DEF Typed, Places, Succeeded

LEMMA OpenSync ==
    ASSUME Typed, Sync, RxTop \/ RxExceeded \/ RxNothing \/ RxEot \/ RxCan \/ RxSoh
    PROVE  Sync'
  <1>0. /\ Len(dest) \in Nat /\ tx.block \in Nat /\ toRx \in Seq(Wire) /\ rx \in Receivers
        /\ rx.then = "none" /\ rx.result = "none" /\ ~Succeeded
    BY ReceiverNumbers DEF RxTop, RxExceeded, RxNothing, RxEot, RxCan, RxSoh
  <1>1. PICK s, d, bl, p, r : s = toRx /\ d = Len(dest) /\ bl = tx.block /\ p = tx.pc /\ r = rx
    OBVIOUS
  <1>2. InStep(r, s, d, bl, p) /\ d \in Nat /\ bl \in Nat /\ s \in Seq(Wire)
    BY <1>0, <1>1 DEF Sync, Aligned
  <1>3. UNCHANGED <<dest, tx>>
    BY DEF RxTop, RxExceeded, RxNothing, RxEot, RxCan, RxSoh, Receiver
  <1>4. \A b : Byte(b) => s # <<>> /\ b = Head(s).b /\ toRx' = Tail(s)
    BY <1>1 DEF Byte
  <1>5. s = <<>> => toRx' = <<>>
    BY <1>1, <1>4 DEF RxTop, RxExceeded, RxNothing, RxEot, RxCan, RxSoh, Timeout
  <1> DEFINE Reads ==
        /\ Head(s).b \in Codes
        /\ Head(s).b = EOT => AllSent(p, d)
        /\ Head(s).b = CAN => p = "failed"
        /\ \E cut \in 0 .. Len(Tail(s)) :
              /\ StreamOf(Tail(s), cut, d, bl, p)
              /\ Head(s).b = SOH =>
                    \E n \in {d, d + 1} :
                       n \in 1 .. bl /\ (n = d + 1 => cut = 0) /\ RestOf(<<>>, Tail(s), n)
  <1>6. rx.pc = "open" /\ s # <<>> => Reads
    <2> SUFFICES ASSUME rx.pc = "open", s # <<>> PROVE Reads
      OBVIOUS
    <2>1. r.pc = "open" /\ r.then # "accept"
      BY <1>0, <1>1
    <2> QED
      BY <1>2, <2>1, ReadFirst
  <1> HIDE DEF Reads
  <1>7. CASE RxTop
    <2>1. /\ rx'.pc = "open" /\ rx'.then = "none" /\ rx'.result = "none" /\ rx.pc = "top"
          /\ rx'.packnum = rx.packnum /\ toRx' = toRx
      BY <1>0, <1>7 DEF RxTop, Receivers
    <2>2. ~Succeeded'
      BY <2>1 DEF Succeeded
    <2>3. Answers'
      <3>1. UNCHANGED toTx \/ Out("C")
        BY <1>7 DEF RxTop, Silent
      <3>2. "C" \in Replies \ {"ACK"}
        BY DEF Replies
      <3> QED
        BY <1>0, <1>3, <2>2, <3>1, <3>2, AnswersKept DEF Sync
    <2>4. Aligned'
      <3>1. InStep(rx', s, d, bl, p)
        BY <1>1, <1>2, <2>1, SamePlace
      <3> QED
        BY <1>1, <1>3, <2>1, <3>1 DEF Aligned
    <2>5. Stored'
      BY <1>0, <1>3, <2>1, <2>2, StoredKept DEF Sync
    <2> QED
      BY <2>3, <2>4, <2>5 DEF Sync
  <1>8. CASE RxExceeded
    <2>1. /\ rx'.pc = "flush" /\ rx'.then = "exceeded" /\ rx'.result = "none" /\ toRx' = toRx
          /\ toTx' = toTx
      BY <1>0, <1>8 DEF RxExceeded, Flush, Receivers
    <2>2. ~Succeeded'
      BY <2>1 DEF Succeeded
    <2>3. Answers'
      BY <1>0, <1>3, <2>1, <2>2, AnswersKept DEF Sync
    <2>4. Aligned'
      <3>1. InStep(rx', s, d, bl, p)
        BY <1>2, <2>1, SamePlace
      <3> QED
        BY <1>1, <1>3, <2>1, <3>1 DEF Aligned
    <2>5. Stored'
      BY <1>0, <1>3, <2>1, <2>2, StoredKept DEF Sync
    <2> QED
      BY <2>3, <2>4, <2>5 DEF Sync
  <1>9. CASE RxNothing
    <2>0. rx.pc = "open" /\ toTx' = toTx
      BY <1>9 DEF RxNothing
    <2>1. toRx' = toRx
      <3>1. ASSUME NEW b \in Bytes \ Codes, Byte(b) PROVE FALSE
        BY <1>4, <1>6, <2>0, <3>1 DEF Reads
      <3> QED
        BY <1>9, <3>1 DEF RxNothing, Timeout
    <2>2. /\ rx'.pc = "top" /\ rx'.then = "none" /\ rx'.result = "none"
          /\ rx'.packnum = rx.packnum
      BY <1>0, <1>9 DEF RxNothing, Again, Receivers
    <2>3. ~Succeeded'
      BY <2>2 DEF Succeeded
    <2>4. Answers'
      BY <1>0, <1>3, <2>0, <2>3, AnswersKept DEF Sync
    <2>5. Aligned'
      <3>1. InStep(rx', s, d, bl, p)
        BY <1>1, <1>2, <2>0, <2>2, SamePlace
      <3> QED
        BY <1>1, <1>3, <2>1, <3>1 DEF Aligned
    <2>6. Stored'
      BY <1>0, <1>3, <2>0, <2>1, <2>2, <2>3, StoredKept DEF Sync
    <2> QED
      BY <2>4, <2>5, <2>6 DEF Sync
  <1>10. CASE RxEot
    <2>1. /\ rx.pc = "open" /\ rx'.pc = "flush" /\ rx'.then = "ok" /\ rx'.result = "none"
          /\ s # <<>> /\ Head(s).b = EOT /\ toRx' = Tail(s) /\ toTx' = Append(toTx, "ACK")
      BY <1>0, <1>4, <1>10 DEF RxEot, Flush, Receivers, Out
    <2>2. Succeeded' /\ AllSent(p, d)
      BY <1>6, <2>1 DEF Succeeded, Reads
    <2>3. PICK cut \in 0 .. Len(Tail(s)) : StreamOf(Tail(s), cut, d, bl, p)
      BY <1>6, <2>1 DEF Reads
    <2>4. Aligned'
      <3>1. ReceiverAt(rx', Tail(s), cut, d, bl)
        BY <2>1 DEF ReceiverAt
      <3> QED
        BY <1>1, <1>3, <2>1, <2>3, <3>1 DEF Aligned, InStep
    <2>5. Stored'
      BY <1>0, <1>1, <1>3, <1>5, <2>1, <2>2, StoredKept DEF Sync
    <2>6. Answers'
      <3> SUFFICES ASSUME tx.pc # "failed" PROVE AnswersOf(toTx', Taken', Given')
        BY <1>3 DEF Answers
      <3>1. p \in {"eot", "done"} /\ bl = d
        BY <1>1, <2>2 DEF AllSent, Sync, Stored
      <3>2. Given = d /\ Given' = d + 1 /\ Taken' = Taken
        BY <1>0, <1>1, <1>3, <2>2 DEF Given, Taken
      <3>3. AnswersOf(toTx, Taken, d)
        BY <3>2 DEF Sync, Answers
      <3>4. Taken = d
        BY <1>1, <1>2, <3>1, <3>3 DEF Taken, AnswersOf
      <3>5. PICK q : q = toTx
        OBVIOUS
      <3>6. q \in Seq(Replies) /\ AnswersOf(q, d, d)
        BY <3>3, <3>4, <3>5 DEF Typed, TypeOK
      <3>7. AnswersOf(Append(q, "ACK"), d, d + 1)
        BY <1>2, <3>6, AnswerAck
      <3> QED
        BY <2>1, <3>2, <3>4, <3>5, <3>7
    <2> QED
      BY <2>4, <2>5, <2>6 DEF Sync
  <1>11. CASE RxCan
    <2>1. /\ rx.pc = "open" /\ rx'.pc = "flush" /\ rx'.then = "cancelled" /\ rx'.result = "none"
          /\ s # <<>> /\ Head(s).b = CAN /\ toRx' = Tail(s)
      BY <1>0, <1>4, <1>11 DEF RxCan, Flush, Receivers
    <2>2. ~Succeeded' /\ p = "failed"
      BY <1>6, <2>1 DEF Succeeded, Reads
    <2>3. PICK cut \in 0 .. Len(Tail(s)) : StreamOf(Tail(s), cut, d, bl, p)
      BY <1>6, <2>1 DEF Reads
    <2>4. Aligned'
      <3>1. ReceiverAt(rx', Tail(s), cut, d, bl)
        BY <2>1 DEF ReceiverAt
      <3> QED
        BY <1>1, <1>3, <2>1, <2>3, <3>1 DEF Aligned, InStep
    <2>5. Stored'
      BY <1>0, <1>1, <1>3, <1>5, <2>1, <2>2, StoredKept DEF Sync
    <2>6. Answers'
      BY <1>1, <1>3, <2>2 DEF Answers
    <2> QED
      BY <2>4, <2>5, <2>6 DEF Sync
  <1>12. CASE RxSoh
    <2>1. /\ rx.pc = "open" /\ rx'.pc = "record" /\ rx'.then = "none" /\ rx'.result = "none"
          /\ rx'.buf = <<>> /\ rx'.packnum = rx.packnum /\ toTx' = toTx
          /\ s # <<>> /\ Head(s).b = SOH /\ toRx' = Tail(s)
      BY <1>0, <1>4, <1>12 DEF RxSoh, Receivers
    <2>2. ~Succeeded'
      BY <2>1 DEF Succeeded
    <2>3. PICK cut \in 0 .. Len(Tail(s)) :
             /\ StreamOf(Tail(s), cut, d, bl, p)
             /\ \E n \in {d, d + 1} :
                   n \in 1 .. bl /\ (n = d + 1 => cut = 0) /\ RestOf(<<>>, Tail(s), n)
      BY <1>6, <2>1 DEF Reads
    <2>4. Aligned'
      <3>1. ReceiverAt(rx', Tail(s), cut, d, bl)
        BY <2>1, <2>3 DEF ReceiverAt
      <3> QED
        BY <1>1, <1>3, <2>1, <2>3, <3>1 DEF Aligned, InStep
    <2>5. Stored'
      BY <1>0, <1>1, <1>3, <1>5, <2>1, <2>2, StoredKept DEF Sync
    <2>6. Answers'
      BY <1>0, <1>3, <2>1, <2>2, AnswersKept DEF Sync
    <2> QED
      BY <2>4, <2>5, <2>6 DEF Sync
  <1> QED
    BY <1>7, <1>8, <1>9, <1>10, <1>11, <1>12

LEMMA RecordSync ==
    ASSUME Typed, Sync, RxRecordByte \/ RxRecordTimeout \/ RxRecordLast
    PROVE  Sync'
  <1>0. /\ Len(dest) \in Nat /\ tx.block \in Nat /\ toRx \in Seq(Wire) /\ rx \in Receivers
        /\ rx.buf \in Seq(Bytes) /\ Len(rx.buf) < 4
        /\ rx.pc = "record" /\ rx.then = "none" /\ rx.result = "none" /\ ~Succeeded
    BY ReceiverNumbers DEF RxRecordByte, RxRecordTimeout, RxRecordLast
  <1>1. PICK s, d, bl, p, buf :
           s = toRx /\ d = Len(dest) /\ bl = tx.block /\ p = tx.pc /\ buf = rx.buf
    OBVIOUS
  <1>2. /\ d \in Nat /\ bl \in Nat /\ s \in Seq(Wire)
        /\ buf \in Seq(Bytes) /\ Len(buf) < 4
    BY <1>0, <1>1
  <1>3. PICK cut \in 0 .. Len(s) :
           StreamOf(s, cut, d, bl, p) /\ ReceiverAt(rx, s, cut, d, bl)
    BY <1>1 DEF Sync, Aligned, InStep
  <1>4. PICK n \in {d, d + 1} : n \in 1 .. bl /\ (n = d + 1 => cut = 0) /\ RestOf(buf, s, n)
    BY <1>0, <1>1, <1>3 DEF ReceiverAt
  <1>5. s # <<>> /\ ~Head(s).first /\ Head(s).b \in {Record(n)[Len(buf) + 2], Garbled}
    BY <1>2, <1>4, RestComes
  <1>6. UNCHANGED <<dest, tx>>
    BY DEF RxRecordByte, RxRecordTimeout, RxRecordLast, Receiver
  <1> DEFINE c == IF cut = 0 THEN 0 ELSE cut - 1
  <1>7. StreamOf(Tail(s), c, d, bl, p) /\ c \in 0 .. Len(Tail(s)) /\ (n = d + 1 => c = 0)
    <2>1. Len(s) \in Nat \ {0} /\ Len(Tail(s)) = Len(s) - 1
      BY <1>2, <1>5, HeadTailProperties, LenProperties, EmptySeq
    <2>2. cut \in Nat
      BY <2>1
    <2> QED
      BY <1>2, <1>3, <1>4, <1>5, <2>1, <2>2, StreamTail
  <1> HIDE DEF c
  <1>8. ~Timeout
    BY <1>1, <1>5 DEF Timeout
  <1>9. CASE RxRecordByte
    <2>1. /\ Len(rx.buf) < 3 /\ toTx' = toTx /\ toRx' = Tail(s)
          /\ rx' = [rx EXCEPT !.buf = Append(buf, Head(s).b)]
      BY <1>1, <1>9 DEF RxRecordByte, Byte
    <2>2. /\ rx'.pc = "record" /\ rx'.then = "none" /\ rx'.result = "none"
          /\ rx'.packnum = rx.packnum /\ rx'.buf = Append(buf, Head(s).b)
      BY <1>0, <2>1 DEF Receivers
    <2>3. ~Succeeded'
      BY <2>2 DEF Succeeded
    <2>4. RestOf(Append(buf, Head(s).b), Tail(s), n)
      <3>1. Len(buf) < 3
        BY <1>1, <2>1
      <3> QED
        BY <1>2, <1>4, <3>1, RestTaken
    <2>5. Aligned'
      <3>1. ReceiverAt(rx', Tail(s), c, d, bl)
        BY <1>4, <1>7, <2>2, <2>4 DEF ReceiverAt
      <3> QED
        BY <1>1, <1>6, <1>7, <2>1, <3>1 DEF Aligned, InStep
    <2>6. Stored'
      BY <1>0, <1>1, <1>5, <1>6, <2>2, <2>3, StoredKept DEF Sync
    <2>7. Answers'
      BY <1>0, <1>6, <2>1, <2>3, AnswersKept DEF Sync
    <2> QED
      BY <2>5, <2>6, <2>7 DEF Sync
  <1>10. CASE RxRecordTimeout
    BY <1>8, <1>10 DEF RxRecordTimeout
  <1>11. CASE RxRecordLast
    <2>1. PICK b \in Bytes :
            /\ Byte(b)
            /\ IF GoodRecord(rx.packnum, Append(rx.buf, b))
               THEN Flush("accept") /\ Silent
               ELSE RecordError
      BY <1>11 DEF RxRecordLast
    <2>2. Len(buf) = 3 /\ toRx' = Tail(s) /\ b = Head(s).b
      BY <1>1, <1>11, <2>1 DEF RxRecordLast, Byte
    <2>3. Begins(Tail(s))
      BY <1>2, <1>4, <2>2, RestEnds
    <2>4. CASE GoodRecord(rx.packnum, Append(rx.buf, b))
      <3>1. /\ rx'.pc = "flush" /\ rx'.then = "accept" /\ rx'.result = "none"
            /\ rx'.packnum = rx.packnum /\ rx'.buf = buf /\ toTx' = toTx
        BY <1>0, <1>1, <2>1, <2>4 DEF Flush, Silent, Receivers
      <3>2. ~Succeeded'
        BY <3>1 DEF Succeeded
      <3>3. n = d + 1 /\ buf[3] = File[d + 1]
        <4>1. rx.packnum = (d + 1) % BlockMod
          BY <1>0, <1>1 DEF Sync, Stored
        <4>2. GoodRecord((d + 1) % BlockMod, Append(buf, b))
          BY <1>1, <2>4, <4>1
        <4>3. n \in 1 .. Len(File)
          <5>1. bl \in 1 .. Len(File)
            BY <1>1 DEF Typed, TypeOK, Senders
          <5>2. Len(File) \in Nat
            BY Constants
          <5> QED
            BY <1>2, <1>4, <5>1, <5>2
        <4>4. b \in {Record(n)[5], Garbled}
          <5>1. Len(buf) + 2 = 5
            BY <2>2
          <5> QED
            BY <1>5, <2>2, <5>1
        <4>5. \A k \in 1 .. 3 : buf[k] \in {Record(n)[k + 1], Garbled}
          BY <1>4, <2>2 DEF RestOf
        <4> QED
          BY <1>2, <1>4, <2>2, <4>2, <4>3, <4>4, <4>5, Recognized
      <3>4. Aligned'
        <4>1. ReceiverAt(rx', Tail(s), c, d, bl)
          BY <1>4, <1>7, <3>1, <3>3 DEF ReceiverAt
        <4> QED
          BY <1>1, <1>6, <1>7, <2>2, <4>1 DEF Aligned, InStep
      <3>5. Stored'
        BY <1>0, <1>1, <1>5, <1>6, <3>1, <3>2, StoredKept DEF Sync
      <3>6. Answers'
        BY <1>0, <1>6, <3>1, <3>2, AnswersKept DEF Sync
      <3> QED
        BY <3>4, <3>5, <3>6 DEF Sync
    <2>5. CASE ~GoodRecord(rx.packnum, Append(rx.buf, b))
      <3>0. RecordError
        BY <2>1, <2>5
      <3>1. /\ rx'.pc = "top" /\ rx'.then = "none" /\ rx'.result = "none"
            /\ rx'.packnum = rx.packnum /\ Out("NAK")
        BY <1>0, <3>0 DEF RecordError, Receivers
      <3>2. ~Succeeded'
        BY <3>1 DEF Succeeded
      <3>3. Aligned'
        <4>1. ReceiverAt(rx', Tail(s), c, d, bl)
          BY <2>3, <3>1 DEF ReceiverAt
        <4> QED
          BY <1>1, <1>6, <1>7, <2>2, <4>1 DEF Aligned, InStep
      <3>4. Stored'
        BY <1>0, <1>1, <1>5, <1>6, <3>1, <3>2, StoredKept DEF Sync
      <3>5. Answers'
        <4>1. "NAK" \in Replies \ {"ACK"}
          BY DEF Replies
        <4> QED
          BY <1>0, <1>6, <3>1, <3>2, <4>1, AnswersKept DEF Sync
      <3> QED
        BY <3>3, <3>4, <3>5 DEF Sync
    <2> QED
      BY <2>4, <2>5
  <1> QED
    BY <1>9, <1>10, <1>11

LEMMA FlushSync ==
    ASSUME Typed, Sync, RxFlushByte \/ RxReturn \/ RxNoMemory
    PROVE  Sync'
  <1>0. /\ Len(dest) \in Nat /\ tx.block \in Nat /\ toRx \in Seq(Wire) /\ rx \in Receivers
    BY ReceiverNumbers
  <1>1. rx.pc = "flush" /\ rx.then # "none" /\ rx.result = "none"
    BY DEF RxFlushByte, RxReturn, RxNoMemory, Typed, Places
  <1>2. PICK s, d, bl, p, r : s = toRx /\ d = Len(dest) /\ bl = tx.block /\ p = tx.pc /\ r = rx
    OBVIOUS
  <1>3. InStep(r, s, d, bl, p) /\ d \in Nat /\ bl \in Nat /\ s \in Seq(Wire) /\ r.pc = "flush"
    BY <1>0, <1>1, <1>2 DEF Sync, Aligned
  <1>4. UNCHANGED <<dest, tx>>
    BY DEF RxFlushByte, RxReturn, RxNoMemory, Receiver
  <1>5. CASE RxFlushByte
    <2>1. s # <<>> /\ toRx' = Tail(s) /\ rx' = rx /\ toTx' = toTx
      BY <1>2, <1>5 DEF RxFlushByte, Byte
    <2>2. Succeeded' <=> Succeeded
      BY <2>1 DEF Succeeded
    <2>3. Aligned'
      <3>1. InStep(r, Tail(s), d, bl, p)
        BY <1>3, <2>1, ReadDropped
      <3> QED
        BY <1>2, <1>4, <2>1, <3>1 DEF Aligned
    <2>4. Stored'
      BY <1>2, <1>4, <2>1, <2>2, StoredKept DEF Sync
    <2>5. Answers'
      BY <1>4, <2>1, <2>2, AnswersKept DEF Sync
    <2> QED
      BY <2>3, <2>4, <2>5 DEF Sync
  <1>6. CASE RxReturn
    <2>1. /\ rx'.pc = "returned" /\ rx'.then = "none" /\ rx'.result = rx.then
          /\ toRx' = toRx
      BY <1>0, <1>6 DEF RxReturn, Receivers, Timeout
    <2>2. Succeeded' <=> Succeeded
      BY <1>1, <2>1 DEF Succeeded
    <2>3. Aligned'
      <3>1. InStep(rx', s, d, bl, p)
        BY <1>3, <2>1, SamePlace
      <3> QED
        BY <1>2, <1>4, <2>1, <3>1 DEF Aligned
    <2>4. Stored'
      BY <1>4, <2>1, <2>2, StoredKept DEF Sync
    <2>5. Answers'
      <3>1. CASE UNCHANGED toTx
        BY <1>4, <2>2, <3>1, AnswersKept DEF Sync
      <3>2. CASE Cancel
        <4>1. Taken' = Taken /\ Given' = Given
          BY <1>4, <2>2 DEF Taken, Given
        <4>2. PICK q, t, g : q = toTx /\ t = Taken /\ g = Given
          OBVIOUS
        <4>3. q \in Seq(Replies)
          BY <4>2 DEF Typed, TypeOK
        <4>4. AnswersOf(q, t, g) => AnswersOf(q \o <<"CAN", "CAN", "CAN">>, t, g)
          BY <4>3, AnswerCancel
        <4> QED
          BY <1>4, <3>2, <4>1, <4>2, <4>4 DEF Sync, Answers, Cancel
      <3> QED
        BY <1>6, <3>1, <3>2 DEF RxReturn, Silent
    <2> QED
      BY <2>3, <2>4, <2>5 DEF Sync
  <1>7. CASE RxNoMemory
    <2>1. /\ rx'.pc = "flush" /\ rx'.then = "nomem" /\ rx'.result = "none"
          /\ toRx' = toRx /\ toTx' = toTx /\ rx.then = "accept"
      BY <1>0, <1>1, <1>7 DEF RxNoMemory, Accepted, Receivers, Timeout
    <2>2. ~Succeeded /\ ~Succeeded'
      BY <1>1, <2>1 DEF Succeeded
    <2>3. Aligned'
      <3>1. InStep(rx', s, d, bl, p)
        BY <1>3, <2>1, SamePlace
      <3> QED
        BY <1>2, <1>4, <2>1, <3>1 DEF Aligned
    <2>4. Stored'
      BY <1>4, <2>1, <2>2, StoredKept DEF Sync
    <2>5. Answers'
      BY <1>4, <2>1, <2>2, AnswersKept DEF Sync
    <2> QED
      BY <2>3, <2>4, <2>5 DEF Sync
  <1> QED
    BY <1>5, <1>6, <1>7

\* The stream once the block that is next has been stored.
LEMMA StreamAccepted ==
    ASSUME NEW s \in Seq(Wire), NEW d \in Nat, NEW bl \in Nat, NEW p,
           StreamOf(s, 0, d, bl, p), ~AllSent(p, d)
    PROVE  StreamOf(s, Len(s), d + 1, bl, p)
  <1> SUFFICES ASSUME NEW i \in 1 .. Len(s), s[i].first
               PROVE  SentAt(s, i, Number(i, Len(s), d + 1), d + 1, bl, p)
    BY DEF StreamOf
  <1>1. Len(s) \in Nat
    BY LenProperties
  <1>2. Number(i, Len(s), d + 1) = d + 1 /\ Number(i, 0, d) = d + 1
    BY <1>1 DEF Number
  <1>3. SentAt(s, i, d + 1, d, bl, p)
    BY <1>2 DEF StreamOf
  <1>4. SentAt(s, i, d + 1, d + 1, bl, p)
    BY <1>3 DEF SentAt
  <1> QED
    BY <1>2, <1>4

LEMMA AcceptSync ==
    ASSUME Typed, Sync, RxAccept
    PROVE  Sync'
  <1>0. /\ Len(dest) \in Nat /\ tx.block \in Nat /\ toRx \in Seq(Wire) /\ rx \in Receivers
        /\ rx.buf \in Seq(Bytes) /\ Len(rx.buf) < 4
    BY ReceiverNumbers
  <1>1. /\ rx.pc = "flush" /\ rx.then = "accept" /\ rx.result = "none" /\ ~Succeeded
        /\ Len(rx.buf) = 3
    BY DEF RxAccept, Typed, Places, Succeeded
  <1>2. PICK s, d, bl, p : s = toRx /\ d = Len(dest) /\ bl = tx.block /\ p = tx.pc
    OBVIOUS
  <1>3. d \in Nat /\ bl \in Nat /\ s \in Seq(Wire)
    BY <1>0, <1>2
  <1>4. PICK cut \in 0 .. Len(s) :
           StreamOf(s, cut, d, bl, p) /\ ReceiverAt(rx, s, cut, d, bl)
    BY <1>2 DEF Sync, Aligned, InStep
  <1>5. cut = 0 /\ d + 1 \in 1 .. bl /\ rx.buf[3] = File[d + 1]
    BY <1>1, <1>4 DEF ReceiverAt
  <1>6. bl \in 1 .. Len(File) /\ Len(File) \in Nat
    BY <1>2, Constants DEF Typed, TypeOK, Senders
  <1>7. bl = d + 1 /\ ~AllSent(p, d)
    <2>1. bl \in {d, d + 1}
      BY <1>2 DEF Sync, Stored
    <2>2. d # Len(File)
      BY <1>3, <1>5, <1>6
    <2> QED
      BY <1>3, <1>5, <2>1, <2>2 DEF AllSent
  <1>8. /\ UNCHANGED tx /\ toRx' = s /\ Begins(s) /\ dest' = Append(dest, rx.buf[3])
        /\ toTx' = Append(toTx, "ACK")
    BY <1>2, NoByte DEF RxAccept, Receiver, Out
  <1>9. /\ rx'.pc = "top" /\ rx'.then = "none" /\ rx'.result = "none"
        /\ rx'.packnum = NextNum(rx.packnum)
    BY <1>0, <1>1 DEF RxAccept, Accepted, Receivers
  <1>10. ~Succeeded'
    BY <1>9 DEF Succeeded
  <1>11. /\ Len(dest') = d + 1
         /\ \A i \in 1 .. d : dest'[i] = dest[i]
         /\ dest'[d + 1] = File[d + 1]
    <2>1. dest \in Seq(Bytes) /\ rx.buf[3] \in Bytes
      BY <1>0, <1>1, ElementOfSeq DEF Typed, TypeOK
    <2> QED
      BY <1>2, <1>5, <1>8, <2>1, AppendProperties
  <1>12. Aligned'
    <2>1. StreamOf(s, Len(s), d + 1, bl, p)
      BY <1>3, <1>4, <1>5, <1>7, StreamAccepted
    <2>2. ReceiverAt(rx', s, Len(s), d + 1, bl)
      BY <1>8, <1>9 DEF ReceiverAt
    <2>3. Len(s) \in 0 .. Len(s)
      <3>1. Len(s) \in Nat
        BY <1>3, LenProperties
      <3> QED
        BY <3>1
    <2> QED
      BY <1>2, <1>8, <1>11, <2>1, <2>2, <2>3 DEF Aligned, InStep
  <1>13. Stored'
    <2>1. \A i \in 1 .. d + 1 : dest'[i] = File[i]
      <3> SUFFICES ASSUME NEW i \in 1 .. d + 1 PROVE dest'[i] = File[i]
        OBVIOUS
      <3>1. CASE i \in 1 .. d
        BY <1>2, <1>11, <3>1 DEF Sync, Stored
      <3>2. CASE i = d + 1
        BY <1>11, <3>2
      <3> QED
        BY <1>3, <3>1, <3>2
    <2>2. rx'.packnum = ((d + 1) + 1) % BlockMod
      <3>1. rx.packnum = (d + 1) % BlockMod
        BY <1>1, <1>2 DEF Sync, Stored
      <3>2. d + 1 \in Nat /\ BlockMod \in Nat \ {0}
        BY <1>3, Constants
      <3> QED
        BY <1>9, <3>1, <3>2, ModAdd DEF NextNum
    <2>3. p # "wait"
      BY <1>1, <1>2 DEF Sync, Stored
    <2>4. p \in {"eot", "done"} => bl = Len(File)
      BY <1>2 DEF Sync, Stored
    <2> QED
      BY <1>2, <1>7, <1>8, <1>9, <1>10, <1>11, <2>1, <2>2, <2>3, <2>4 DEF Stored
  <1>14. Answers'
    <2> SUFFICES ASSUME p # "failed" PROVE AnswersOf(toTx', Taken', Given')
      BY <1>2, <1>8 DEF Answers
    <2>1. Given = d /\ Given' = d + 1 /\ Taken' = Taken
      BY <1>1, <1>2, <1>8, <1>10, <1>11 DEF Given, Taken
    <2>2. AnswersOf(toTx, Taken, d)
      BY <1>2, <2>1 DEF Sync, Answers
    <2>3. Taken = d
      BY <1>2, <1>3, <1>7, <2>2 DEF Taken, AnswersOf
    <2>4. PICK q : q = toTx
      OBVIOUS
    <2>5. q \in Seq(Replies) /\ AnswersOf(q, d, d)
      BY <2>2, <2>3, <2>4 DEF Typed, TypeOK
    <2>6. AnswersOf(Append(q, "ACK"), d, d + 1)
      BY <1>3, <2>5, AnswerAck
    <2> QED
      BY <1>8, <2>1, <2>3, <2>4, <2>6
  <1> QED
    BY <1>12, <1>13, <1>14 DEF Sync

LEMMA ReceiverSync == ASSUME Typed, Sync, xmodem_receive PROVE Sync'
  BY OpenSync, RecordSync, FlushSync, AcceptSync DEF xmodem_receive

----------------------------------------------------------------------------
(* The sender's steps                                                      *)

LEMMA StoredSender ==
    ASSUME Stored, UNCHANGED <<rx, dest>>,
           tx'.block \in {Len(dest), Len(dest) + 1},
           AllSent(tx.pc, Len(dest)) => AllSent(tx'.pc, Len(dest)),
           tx'.pc = "wait" => tx' = tx /\ toRx' = toRx,
           tx'.pc \in {"eot", "done"} => tx'.block = Len(File)
    PROVE  Stored'
  <1>1. Succeeded' => Succeeded
    BY DEF Succeeded
  <1> QED
    BY <1>1 DEF Stored

\* What the sender takes for acknowledged when it has sent everything.
LEMMA EndKnown ==
    ASSUME Typed, Sync, tx.pc \in {"eot", "done"}
    PROVE  Len(dest) = Len(File) /\ (tx.pc = "done" => Succeeded)
  <1>1. Len(dest) \in Nat /\ tx.block \in Nat
    BY ReceiverNumbers
  <1>2. tx.block = Len(File) /\ tx.block \in {Len(dest), Len(dest) + 1}
    BY DEF Sync, Stored
  <1>3. Taken <= Given /\ Taken = IF tx.pc = "eot" THEN tx.block ELSE tx.block + 1
    BY DEF Sync, Answers, AnswersOf, Taken
  <1>4. CASE Succeeded
    BY <1>4 DEF Sync, Stored, AllSent
  <1>5. CASE ~Succeeded
    <2>1. Given = Len(dest)
      BY <1>5 DEF Given
    <2> QED
      BY <1>1, <1>2, <1>3, <2>1
  <1> QED
    BY <1>4, <1>5

LEMMA SenderSync == ASSUME Typed, Sync, TxNext PROVE Sync'
  <1>0. /\ Len(dest) \in Nat /\ tx.block \in Nat /\ toRx \in Seq(Wire) /\ rx \in Receiving
        /\ tx \in Senders /\ tx.block \in Blocks /\ Len(File) \in Nat /\ toTx \in Seq(Replies)
    BY ReceiverNumbers, Constants DEF Receiving, Typed, TypeOK, Senders, Blocks
  <1>1. PICK s, d, bl, p, r, q, t, g :
           /\ s = toRx /\ d = Len(dest) /\ bl = tx.block /\ p = tx.pc /\ r = rx
           /\ q = toTx /\ t = Taken /\ g = Given
    OBVIOUS
  <1>2. /\ d \in Nat /\ bl \in Nat /\ bl \in Blocks /\ s \in Seq(Wire) /\ r \in Receiving
        /\ q \in Seq(Replies) /\ bl \in {d, d + 1}
        /\ InStep(r, s, d, bl, p)
    BY <1>0, <1>1 DEF Sync, Aligned, Stored
  <1>3. t \in Nat /\ g \in Nat
    <2>1. bl >= 1
      BY <1>0, <1>2 DEF Blocks
    <2> QED
      BY <1>1, <1>2, <2>1 DEF Taken, Given
  <1>4. p # "failed" => AnswersOf(q, t, g)
    BY <1>1 DEF Sync, Answers
  <1>5. UNCHANGED <<rx, dest, misaligned>>
    BY DEF TxNext, TxStart, TxAdvance, TxDone, TxRepeat, TxOther, TxCancel, Sender
  <1>6. Given' = g
    BY <1>1, <1>5 DEF Given, Succeeded
  <1>7. \A c : Reply(c) => q # <<>> /\ c = Head(q) /\ toTx' = Tail(q)
    BY <1>1 DEF Reply
  <1>8. q # <<>> /\ p # "failed" =>
           /\ AnswersOf(Tail(q), t, g)
           /\ Head(q) = "ACK" => t + 1 <= g /\ AnswersOf(Tail(q), t + 1, g)
    BY <1>2, <1>3, <1>4, AnswerRead
  <1>9. ASSUME GiveUp, p \in {"sent", "eot"} PROVE Sync'
    <2>1. tx'.pc = "failed" /\ tx'.block = bl /\ toRx' = s \o Burst(<<CAN>>)
      BY <1>0, <1>1, <1>9 DEF GiveUp, Senders
    <2>2. InStep(r, s, d, bl, "failed")
      <3>1. AllSent(p, d) => AllSent("failed", d)
        BY DEF AllSent
      <3>2. bl <= bl
        BY <1>2
      <3> QED
        BY <1>2, <3>1, <3>2, StepLater
    <2>3. InStep(r, s \o Burst(<<CAN>>), d, bl, "failed")
      <3>1. CAN # EOT
        BY Constants
      <3> QED
        BY <1>2, <2>2, <3>1, OneSent
    <2>4. Aligned'
      BY <1>1, <1>5, <2>1, <2>3 DEF Aligned
    <2>5. Answers'
      BY <2>1 DEF Answers
    <2>6. Stored'
      <3>1. AllSent(tx.pc, Len(dest)) => AllSent(tx'.pc, Len(dest))
        BY <2>1 DEF AllSent
      <3> QED
        BY <1>1, <1>2, <1>5, <2>1, <3>1, StoredSender DEF Sync
    <2> QED
      BY <2>4, <2>5, <2>6 DEF Sync
  <1>10. CASE TxStart
    <2>1. /\ p = "wait" /\ tx'.pc = "sent" /\ tx'.block = bl /\ bl = 1 /\ d = 0
          /\ toTx' = Tail(q) /\ q # <<>> /\ toRx' = s \o Burst(Record(bl))
      BY <1>0, <1>1, <1>7, <1>10 DEF TxStart, Senders, Transmission, Sync, Stored
    <2>2. InStep(r, s, d, bl, "sent")
      <3>1. AllSent(p, d) => AllSent("sent", d)
        BY <2>1 DEF AllSent
      <3>2. bl <= bl
        BY <1>2
      <3> QED
        BY <1>2, <2>1, <3>1, <3>2, StepLater
    <2>3. InStep(r, s \o Burst(Record(bl)), d, bl, "sent")
      BY <1>2, <2>2, RecordSent
    <2>4. Aligned'
      BY <1>1, <1>5, <2>1, <2>3 DEF Aligned
    <2>5. Answers'
      <3>1. Taken' = t
        BY <1>1, <2>1 DEF Taken
      <3> QED
        BY <1>6, <1>8, <2>1, <3>1 DEF Answers
    <2>6. Stored'
      <3>1. AllSent(tx.pc, Len(dest)) => AllSent(tx'.pc, Len(dest))
        BY <1>1, <2>1 DEF AllSent
      <3> QED
        BY <1>1, <1>2, <1>5, <2>1, <3>1, StoredSender DEF Sync
    <2> QED
      BY <2>4, <2>5, <2>6 DEF Sync
  <1>11. CASE TxAdvance
    <2>1. p = "sent" /\ q # <<>> /\ Head(q) = "ACK" /\ toTx' = Tail(q)
      BY <1>1, <1>7, <1>11 DEF TxAdvance
    <2>2. ~Succeeded /\ ~AllSent(p, d)
      BY <1>1, <2>1 DEF Sync, Stored, AllSent
    <2>3. t = bl - 1 /\ g = d
      BY <1>1, <2>1, <2>2 DEF Taken, Given
    <2>4. t + 1 <= g /\ AnswersOf(Tail(q), t + 1, g)
      BY <1>8, <2>1
    <2>5. bl = d
      BY <1>2, <2>3, <2>4
    <2>6. CASE bl = Len(File)
      <3>1. tx'.pc = "eot" /\ tx'.block = bl
        BY <1>0, <1>1, <1>11, <2>6 DEF TxAdvance, Senders
      <3>2. toRx' = s \o Burst(<<EOT>>)
        <4>1. PICK u : u = tx'
          OBVIOUS
        <4>2. toRx' = s \o Transmission(u.block, u.pc)
          BY <1>1, <1>11, <4>1 DEF TxAdvance
        <4> QED
          BY <3>1, <4>1, <4>2 DEF Transmission
      <3>3. InStep(r, s, d, bl, "eot")
        <4>1. bl <= bl
          BY <1>2
        <4> QED
          BY <1>2, <2>1, <2>2, <4>1, StepLater
      <3>4. InStep(r, s \o Burst(<<EOT>>), d, bl, "eot")
        <4>1. AllSent("eot", d) /\ CAN # EOT
          BY <2>5, <2>6, Constants DEF AllSent
        <4> QED
          BY <1>2, <3>3, <4>1, OneSent
      <3>5. Aligned'
        BY <1>1, <1>5, <3>1, <3>2, <3>4 DEF Aligned
      <3>6. Answers'
        <4>1. Taken' = t + 1
          BY <1>2, <2>3, <3>1 DEF Taken
        <4> QED
          BY <1>6, <2>1, <2>4, <4>1 DEF Answers
      <3>7. Stored'
        BY <1>1, <1>2, <1>5, <2>2, <2>6, <3>1, StoredSender DEF Sync
      <3> QED
        BY <3>5, <3>6, <3>7 DEF Sync
    <2>7. CASE bl # Len(File)
      <3>1. tx'.pc = "sent" /\ tx'.block = bl + 1
        BY <1>0, <1>1, <1>11, <2>1, <2>7 DEF TxAdvance, Senders
      <3>2. toRx' = s \o Burst(Record(bl + 1))
        <4>1. PICK u : u = tx'
          OBVIOUS
        <4>2. toRx' = s \o Transmission(u.block, u.pc)
          BY <1>1, <1>11, <4>1 DEF TxAdvance
        <4> QED
          BY <3>1, <4>1, <4>2 DEF Transmission
      <3>3. bl + 1 \in Blocks /\ bl + 1 \in Nat /\ bl <= bl + 1 /\ bl + 1 = d + 1
        BY <1>0, <1>2, <2>5, <2>7 DEF Blocks
      <3>4. InStep(r, s, d, bl + 1, "sent")
        BY <1>2, <2>1, <2>2, <3>3, StepLater
      <3>5. InStep(r, s \o Burst(Record(bl + 1)), d, bl + 1, "sent")
        BY <1>2, <3>3, <3>4, RecordSent
      <3>6. Aligned'
        BY <1>1, <1>5, <3>1, <3>2, <3>5 DEF Aligned
      <3>7. Answers'
        <4>1. Taken' = t + 1
          BY <1>2, <2>3, <3>1 DEF Taken
        <4> QED
          BY <1>6, <2>1, <2>4, <4>1 DEF Answers
      <3>8. Stored'
        BY <1>1, <1>2, <1>5, <2>2, <3>1, <3>3, StoredSender DEF Sync
      <3> QED
        BY <3>6, <3>7, <3>8 DEF Sync
    <2> QED
      BY <2>6, <2>7
  <1>12. CASE TxDone
    <2>1. /\ p = "eot" /\ q # <<>> /\ Head(q) = "ACK" /\ toTx' = Tail(q)
          /\ tx'.pc = "done" /\ tx'.block = bl /\ toRx' = s
      BY <1>0, <1>1, <1>7, <1>12 DEF TxDone, Senders
    <2>2. AllSent(p, d) => AllSent("done", d)
      BY DEF AllSent
    <2>3. Aligned'
      <3>1. bl <= bl
        BY <1>2
      <3>2. InStep(r, s, d, bl, "done")
        BY <1>2, <2>1, <2>2, <3>1, StepLater
      <3> QED
        BY <1>1, <1>5, <2>1, <3>2 DEF Aligned
    <2>4. Answers'
      <3>1. Taken' = t + 1
        BY <1>1, <1>2, <2>1 DEF Taken
      <3> QED
        BY <1>6, <1>8, <2>1, <3>1 DEF Answers
    <2>5. Stored'
      <3>1. bl = Len(File)
        BY <1>1, <2>1 DEF Sync, Stored
      <3> QED
        BY <1>1, <1>2, <1>5, <2>1, <2>2, <3>1, StoredSender DEF Sync
    <2> QED
      BY <2>3, <2>4, <2>5 DEF Sync
  <1>13. CASE TxRepeat
    <2>1. p \in {"sent", "eot"}
      BY <1>1, <1>13 DEF TxRepeat
    <2>2. AnswersOf(toTx', t, g)
      BY <1>1, <1>4, <1>7, <1>8, <1>13, <2>1 DEF TxRepeat
    <2>3. CASE GiveUp
      BY <1>9, <2>1, <2>3
    <2>4. CASE ~GiveUp
      <3>1. /\ tx'.pc = p /\ tx'.block = bl
            /\ toRx' = s \o Transmission(bl, p)
        BY <1>0, <1>1, <1>13, <2>4 DEF TxRepeat, Senders
      <3>2. InStep(r, s \o Transmission(bl, p), d, bl, p)
        <4>1. CASE p = "eot"
          <5>1. AllSent("eot", d) /\ CAN # EOT
            BY <1>1, <4>1, EndKnown, Constants DEF AllSent
          <5>2. InStep(r, s \o Burst(<<EOT>>), d, bl, p)
            BY <1>2, <4>1, <5>1, OneSent
          <5> QED
            BY <4>1, <5>2 DEF Transmission
        <4>2. CASE p = "sent"
          <5>1. InStep(r, s \o Burst(Record(bl)), d, bl, p)
            BY <1>2, RecordSent
          <5> QED
            BY <4>2, <5>1 DEF Transmission
        <4> QED
          BY <2>1, <4>1, <4>2
      <3>3. Aligned'
        BY <1>1, <1>5, <3>1, <3>2 DEF Aligned
      <3>4. Answers'
        <4>1. Taken' = t
          BY <1>1, <3>1 DEF Taken
        <4> QED
          BY <1>6, <2>2, <4>1 DEF Answers
      <3>5. Stored'
        <4>1. p \in {"eot", "done"} => bl = Len(File)
          BY <1>1 DEF Sync, Stored
        <4> QED
          BY <1>1, <1>2, <1>5, <2>1, <3>1, <4>1, StoredSender DEF Sync
      <3> QED
        BY <3>3, <3>4, <3>5 DEF Sync
    <2> QED
      BY <2>3, <2>4
  <1>14. CASE TxOther
    <2>1. toRx' = s /\ q # <<>> /\ toTx' = Tail(q) /\ p \in {"wait", "sent", "eot"}
      BY <1>1, <1>7, <1>14 DEF TxOther
    <2>2. CASE tx' = [tx EXCEPT !.pc = "failed"]
      <3>1. tx'.pc = "failed" /\ tx'.block = bl
        BY <1>0, <1>1, <2>2 DEF Senders
      <3>2. AllSent(p, d) => AllSent("failed", d)
        BY DEF AllSent
      <3>3. Aligned'
        <4>1. bl <= bl
          BY <1>2
        <4>2. InStep(r, s, d, bl, "failed")
          BY <1>2, <3>2, <4>1, StepLater
        <4> QED
          BY <1>1, <1>5, <2>1, <3>1, <4>2 DEF Aligned
      <3>4. Answers'
        BY <3>1 DEF Answers
      <3>5. Stored'
        BY <1>1, <1>2, <1>5, <3>1, <3>2, StoredSender DEF Sync
      <3> QED
        BY <3>3, <3>4, <3>5 DEF Sync
    <2>3. CASE tx' = tx
      <3>1. Aligned'
        BY <1>1, <1>2, <1>5, <2>1, <2>3 DEF Aligned
      <3>2. Answers'
        <4>1. Taken' = t /\ tx'.pc = p
          BY <1>1, <2>3 DEF Taken
        <4> QED
          BY <1>6, <1>8, <2>1, <4>1 DEF Answers
      <3>3. Stored'
        <4>1. p \in {"eot", "done"} => bl = Len(File)
          BY <1>1 DEF Sync, Stored
        <4> QED
          BY <1>1, <1>2, <1>5, <2>1, <2>3, <4>1, StoredSender DEF Sync
      <3> QED
        BY <3>1, <3>2, <3>3 DEF Sync
    <2> QED
      BY <1>14, <2>2, <2>3 DEF TxOther
  <1>15. CASE TxCancel
    BY <1>1, <1>9, <1>15 DEF TxCancel
  <1> QED
    BY <1>10, <1>11, <1>12, <1>13, <1>14, <1>15 DEF TxNext

----------------------------------------------------------------------------
(* Noise                                                                   *)

LEMMA LineSync == ASSUME Typed, Sync, Line, ~misaligned' PROVE Sync'
  <1>1. UNCHANGED <<rx, dest, tx>>
    BY DEF Line, LoseByte, GarbleByte, LoseReply, Fault
  <1>2. Succeeded' = Succeeded /\ Taken' = Taken /\ Given' = Given
    BY <1>1 DEF Succeeded, Taken, Given
  <1>3. PICK s, d, bl, p, r : s = toRx /\ d = Len(dest) /\ bl = tx.block /\ p = tx.pc /\ r = rx
    OBVIOUS
  <1>4. s \in Seq(Wire) /\ r.buf \in Seq(Bytes) /\ Len(r.buf) < 4 /\ InStep(r, s, d, bl, p)
    BY <1>3, ReceiverNumbers DEF Sync, Aligned
  <1>5. CASE LoseByte
    BY <1>5 DEF LoseByte
  <1>6. CASE GarbleByte
    <2>1. PICK i \in 1 .. Len(s) : ~s[i].first /\ toRx' = [s EXCEPT ![i].b = Garbled]
      BY <1>3, <1>6 DEF GarbleByte
    <2> DEFINE z == [s EXCEPT ![i].b = Garbled]
    <2>2. /\ \A cut : StreamOf(s, cut, d, bl, p) => StreamOf(z, cut, d, bl, p)
          /\ Begins(s) => Begins(z)
          /\ \A n : RestOf(r.buf, s, n) => RestOf(r.buf, z, n)
      BY <1>4, <2>1, StreamGarbled
    <2>3. Len(z) = Len(s) /\ (z = <<>> <=> s = <<>>)
      BY <1>4, <2>1, Garbling
    <2> HIDE DEF z
    <2>4. Aligned'
      <3>1. InStep(r, z, d, bl, p)
        BY <1>4, <2>2, <2>3 DEF InStep, ReceiverAt
      <3> QED
        BY <1>1, <1>3, <2>1, <3>1 DEF Aligned, z
    <2>5. Answers'
      <3>1. UNCHANGED toTx
        BY <1>6 DEF GarbleByte
      <3> QED
        BY <1>1, <1>2, <3>1 DEF Sync, Answers
    <2>6. Stored'
      <3>1. toRx = <<>> => toRx' = <<>>
        BY <1>3, <2>1, <2>3 DEF z
      <3> QED
        BY <1>1, <1>2, <3>1, StoredKept DEF Sync, Stored
    <2> QED
      BY <2>4, <2>5, <2>6 DEF Sync
  <1>7. CASE LoseReply
    <2>1. toRx' = toRx
      BY <1>7 DEF LoseReply
    <2>2. Aligned'
      BY <1>1, <2>1 DEF Sync, Aligned
    <2>3. Answers'
      <3>1. PICK q, t, g : q = toTx /\ t = Taken /\ g = Given
        OBVIOUS
      <3>2. PICK i \in 1 .. Len(q) : toTx' = RemoveAt(q, i)
        BY <1>7, <3>1 DEF LoseReply
      <3>3. q \in Seq(Replies)
        BY <3>1 DEF Typed, TypeOK
      <3>4. AnswersOf(q, t, g) => AnswersOf(RemoveAt(q, i), t, g)
        BY <3>3, AnswerLost
      <3> QED
        BY <1>1, <1>2, <3>1, <3>2, <3>4 DEF Sync, Answers
    <2>4. Stored'
      BY <1>1, <1>2, <2>1, StoredKept DEF Sync, Stored
    <2> QED
      BY <2>2, <2>3, <2>4 DEF Sync
  <1> QED
    BY <1>5, <1>6, <1>7 DEF Line

LEMMA InvInit == Init => IInv
  BY TypedInit, SyncInit DEF IInv

LEMMA InvNext == ASSUME IInv, [Next]_vars PROVE IInv'
  <1>1. Typed'
    BY TypedNext DEF IInv
  <1>2. ASSUME ~misaligned' PROVE Sync'
    <2>1. CASE xmodem_receive
      <3>1. misaligned' = misaligned
        BY <2>1 DEF xmodem_receive, RxTop, RxExceeded, RxNothing, RxEot, RxCan, RxSoh,
                    RxRecordByte, RxRecordTimeout, RxRecordLast, RxFlushByte, RxReturn,
                    RxAccept, RxNoMemory, Receiver
      <3> QED
        BY <1>2, <2>1, <3>1, ReceiverSync DEF IInv
    <2>2. CASE TxNext
      <3>1. misaligned' = misaligned
        BY <2>2 DEF TxNext, TxStart, TxAdvance, TxDone, TxRepeat, TxOther, TxCancel, Sender
      <3> QED
        BY <1>2, <2>2, <3>1, SenderSync DEF IInv
    <2>3. CASE Line
      <3>1. ~misaligned
        BY <1>2, <2>3 DEF Line, LoseByte, GarbleByte, LoseReply
      <3> QED
        BY <1>2, <2>3, <3>1, LineSync DEF IInv
    <2>4. CASE UNCHANGED vars
      BY <1>2, <2>4 DEF vars, IInv, Sync, Aligned, Answers, Stored, Succeeded, Taken, Given
    <2> QED
      BY <2>1, <2>2, <2>3, <2>4 DEF Next
  <1> QED
    BY <1>1, <1>2 DEF IInv

\* The sender is never ahead of the receiver, unless a byte is missing or the
\* first one of a transmission was changed (the ACKs of xmodem_receive).
THEOREM SenderNeverAhead == Spec => []SenderKnows
  <1>1. ASSUME IInv PROVE SenderKnows
    <2> SUFFICES ASSUME ~misaligned
                 PROVE  /\ Acknowledged <= Len(dest)
                        /\ tx.pc = "done" => "ok" \in {rx.then, rx.result}
      BY DEF SenderKnows
    <2>1. Typed /\ Sync
      BY <1>1 DEF IInv
    <2>2. Len(dest) \in Nat /\ tx.block \in Nat /\ tx.block \in {Len(dest), Len(dest) + 1}
      BY <2>1, ReceiverNumbers DEF Sync, Stored
    <2>3. CASE tx.pc \in {"eot", "done"}
      BY <2>1, <2>2, <2>3, EndKnown DEF Acknowledged, Succeeded
    <2>4. CASE tx.pc \notin {"eot", "done"}
      BY <2>2, <2>4 DEF Acknowledged
    <2> QED
      BY <2>3, <2>4
  <1> QED
    BY <1>1, InvInit, InvNext, PTL DEF Spec

\* The safety half of ImplementsTransfer while the receiver is in step with the
\* stream: xmodem_receive stores the blocks of the file in order and once each,
\* and returns a size only when it has all of them.
TransferInStep == Abs!Init /\ [][~misaligned => [Abs!Next]_(Abs!vars)]_vars

LEMMA TransferStep ==
    ASSUME IInv, [Next]_vars, ~misaligned
    PROVE  [Abs!Next]_(Abs!vars)
  <1> USE DEF Abs!vars
  <1>0. Typed /\ Sync
    BY DEF IInv
  <1>1. CASE RxAccept
    <2>1. rx.then = "accept" /\ rx.pc = "flush" /\ rx.result = "none"
      BY <1>0, <1>1 DEF RxAccept, Typed, Places
    <2>2. rx'.result = "none"
      BY <1>0, <1>1, <2>1, ReceiverNumbers DEF RxAccept, Accepted, Receivers
    <2>3. Outcome = "running" /\ Outcome' = "running"
      BY <2>1, <2>2 DEF Outcome
    <2>4. /\ dest' = Append(dest, File[Len(dest) + 1])
          /\ Len(dest) + 1 \in 1 .. tx.block /\ misaligned' = misaligned
      BY <1>0, <1>1, <2>1 DEF RxAccept, Receiver, Sync, Aligned, InStep, ReceiverAt
    <2>5. Len(dest) < Len(File)
      <3>1. tx.block \in 1 .. Len(File)
        BY <1>0 DEF Typed, TypeOK, Senders
      <3>2. Len(dest) \in Nat /\ Len(File) \in Nat
        BY <1>0, ReceiverNumbers, Constants
      <3> QED
        BY <2>4, <3>1, <3>2
    <2> QED
      BY <2>3, <2>4, <2>5 DEF Abs!Next, Abs!Deliver
  <1>2. CASE RxReturn
    <2>1. rx.pc = "flush" /\ rx.result = "none" /\ rx.then \in Results
      BY <1>0, <1>2 DEF RxReturn, Typed, Places
    <2>2. rx'.result = rx.then
      BY <1>0, <1>2, ReceiverNumbers DEF RxReturn, Receivers
    <2>3. Outcome = "running" /\ UNCHANGED <<dest, misaligned>>
      BY <1>2, <2>1 DEF Outcome, RxReturn, Receiver
    <2>4. CASE rx.then = "ok"
      <3>1. Len(dest) = Len(File)
        BY <1>0, <2>4 DEF Sync, Stored, AllSent, Succeeded
      <3>2. \A i \in 1 .. Len(dest) : dest[i] = File[i]
        BY <1>0 DEF Sync, Stored
      <3>3. dest \in Seq(Bytes) /\ File \in Seq(Nat)
        BY <1>0, Constants DEF Typed, TypeOK
      <3>4. dest = File
        BY <3>1, <3>2, <3>3, SeqEqual
      <3>5. Outcome' = "ok"
        BY <2>2, <2>4 DEF Outcome
      <3> QED
        BY <2>3, <3>4, <3>5 DEF Abs!Next, Abs!Succeed
    <2>5. CASE rx.then # "ok"
      <3>1. Outcome' = "failed"
        BY <2>1, <2>2, <2>5 DEF Outcome, Results
      <3> QED
        BY <2>3, <3>1 DEF Abs!Next, Abs!Fail
    <2> QED
      BY <2>4, <2>5
  <1>3. CASE LoseByte \/ GarbleByte
    <2>1. rx' = rx /\ dest' = dest
      BY <1>3 DEF LoseByte, GarbleByte, Fault
    <2>2. Outcome' = Outcome
      BY <2>1 DEF Outcome
    <2>3. misaligned' = TRUE \/ misaligned' = misaligned
      <3>1. misaligned' \in BOOLEAN /\ misaligned \in BOOLEAN
        BY <1>0, TypedNext DEF Typed, TypeOK
      <3> QED
        BY <3>1
    <2> QED
      BY <2>1, <2>2, <2>3 DEF Abs!Next, Abs!Noise
  <1>4. ASSUME rx'.result = rx.result, UNCHANGED <<dest, misaligned>>
        PROVE  UNCHANGED Abs!vars
    BY <1>4 DEF Outcome
  <1>5. rx \in Receivers
    BY <1>0, ReceiverNumbers
  <1>6. CASE RxTop \/ RxExceeded \/ RxNothing \/ RxEot \/ RxCan \/ RxSoh
    <2>1. rx'.result = rx.result /\ UNCHANGED <<dest, misaligned>>
      BY <1>5, <1>6 DEF RxTop, RxExceeded, RxNothing, RxEot, RxCan, RxSoh, Flush, Again,
                        Receivers, Receiver
    <2> QED
      BY <1>4, <2>1
  <1>7. CASE RxRecordByte \/ RxRecordTimeout \/ RxRecordLast \/ RxFlushByte
    <2>1. rx'.result = rx.result /\ UNCHANGED <<dest, misaligned>>
      BY <1>5, <1>7 DEF RxRecordByte, RxRecordTimeout, RxRecordLast, RxFlushByte, Flush,
                        RecordError, Receivers, Receiver
    <2> QED
      BY <1>4, <2>1
  <1>8. CASE RxNoMemory
    <2>1. rx'.result = rx.result /\ UNCHANGED <<dest, misaligned>>
      BY <1>5, <1>8 DEF RxNoMemory, Accepted, Receivers, Receiver
    <2> QED
      BY <1>4, <2>1
  <1>9. CASE TxNext
    BY <1>4, <1>9 DEF TxNext, TxStart, TxAdvance, TxDone, TxRepeat, TxOther, TxCancel, Sender
  <1>10. CASE LoseReply
    BY <1>4, <1>10 DEF LoseReply, Fault
  <1>11. CASE UNCHANGED vars
    BY <1>4, <1>11 DEF vars
  <1> QED
    BY <1>1, <1>2, <1>3, <1>6, <1>7, <1>8, <1>9, <1>10, <1>11
    DEF Next, xmodem_receive, Line

THEOREM TransferRefined == Spec => TransferInStep
  <1>1. Init => Abs!Init
    BY DEF Init, Abs!Init, Outcome
  <1>2. ASSUME IInv, [Next]_vars PROVE [~misaligned => [Abs!Next]_(Abs!vars)]_vars
    BY <1>2, TransferStep
  <1> QED
    BY <1>1, <1>2, InvInit, InvNext, PTL DEF Spec, TransferInStep
=============================================================================
