--------------------------- MODULE SermuxProofs ---------------------------
(***************************************************************************)
(* Theorems about Sermux, for any sets of services and of data bytes and   *)
(* any number of bytes and restarts: type correctness; each direction of   *)
(* the link is a FIFO as long as neither side restarts; both sides agree   *)
(* on the service in use after any number of restarts; a restart loses     *)
(* bytes but changes and misdirects none.                                  *)
(***************************************************************************)
EXTENDS Sermux, Integers, SequenceTheorems, TLAPS

----------------------------------------------------------------------------
(* What the bytes on a line mean to the side that will receive them        *)

\* The service in force before the i-th byte, when it is `sid' before the first.
IsSid(q, sid, i, s) ==
    \/ s = sid /\ \A k \in 1 .. i - 1 : q[k].b \notin Services
    \/ \E j \in 1 .. i - 1 :
           /\ q[j].b = s /\ s \in Services
           /\ \A k \in j + 1 .. i - 1 : q[k].b \notin Services

\* Is the i-th byte escaped, when the first one is or is not?
EscAt(q, esc, i) == IF i = 1 THEN esc = TRUE ELSE q[i - 1].b = ESC

\* The i-th byte is a byte of data: it will be taken for what was sent.
Means(q, sid, esc, S, i) ==
    /\ q[i].n \in 1 .. Len(S)
    /\ IsSid(q, sid, i, S[q[i].n].s)
    /\ EscAt(q, esc, i) => S[q[i].n].b \in Special /\ q[i].b = Xored(S[q[i].n].b)
    /\ ~EscAt(q, esc, i) => S[q[i].n].b \notin Special /\ q[i].b = S[q[i].n].b

\* The i-th byte is a control byte that the protocol allows there.
Controls(q, esc, i) == q[i].b \in Services \cup {ESC} /\ ~EscAt(q, esc, i)

Sends == Seq([s : Services, b : Payload])

\* The line q carries the bytes of S after the first `done' up to `total', in order.
Numbered(q, done, total) ==
    /\ \A i \in 1 .. Len(q) : q[i].n # 0 => done < q[i].n /\ q[i].n <= total
    /\ \A i, j \in 1 .. Len(q) : i < j /\ q[i].n # 0 /\ q[j].n # 0 => q[i].n < q[j].n
    /\ \A n \in done + 1 .. total : \E i \in 1 .. Len(q) : q[i].n = n

Channel(q, sid, esc, S, done, total, out, open) ==
    /\ q \in Seq(Wire) /\ S \in Sends
    /\ done \in Nat /\ total \in Nat /\ done <= total /\ total <= Len(S)
    /\ \A i \in 1 .. Len(q) : IF q[i].n # 0 THEN Means(q, sid, esc, S, i)
                              ELSE Controls(q, esc, i)
    /\ Numbered(q, done, total)
    /\ IsSid(q, sid, Len(q) + 1, out)
    /\ EscAt(q, esc, Len(q) + 1) <=> open = TRUE

\* What BytesAssumption says of single bytes: no byte of data looks like a
\* control byte once it is escaped.
LEMMA SpecialBytes ==
    /\ Services \subseteq Special /\ ESC \in Special /\ FORCE \in Special
    /\ ESC \notin Services /\ FORCE \notin Services /\ ESC # FORCE
    /\ None \notin Services /\ Special \subseteq Bytes /\ Payload \subseteq Bytes
    /\ \A b \in Special : Xored(b) \notin Special
    /\ \A b \in Bytes : Xored(b) \in Bytes /\ Xored(Xored(b)) = b
    /\ MaxSends \in Nat /\ MaxRestarts \in Nat
    /\ 0 \in 0 .. MaxSends
  <1>1. \A b \in Bytes : Xored(Xored(b)) = b
    BY BytesAssumption
  <1>2. \A b \in Bytes : Xored(b) \in Bytes
    <2> TAKE b \in Bytes
    <2>1. CASE b \in Special \cup Payload
      BY <2>1 DEF Bytes
    <2>2. CASE b \notin Special \cup Payload
      <3>1. PICK c \in Special \cup Payload : b = Xored(c)
        BY <2>2 DEF Bytes
      <3>2. c \in Bytes
        BY DEF Bytes
      <3>3. Xored(b) = c
        BY <1>1, <3>1, <3>2
      <3> QED
        BY <3>2, <3>3
    <2> QED
      BY <2>1, <2>2
  <1>3. MaxSends \in Nat /\ MaxRestarts \in Nat /\ 0 \in 0 .. MaxSends
    BY BytesAssumption, SMT
  <1> QED
    BY <1>1, <1>2, <1>3, BytesAssumption DEF Special, Bytes

\* A line that grows means the same up to where it has grown.
LEMMA Grown ==
    ASSUME NEW q \in Seq(Wire), NEW w \in Wire, NEW sid, NEW esc, NEW i \in 1 .. Len(q) + 1
    PROVE  /\ \A s : IsSid(Append(q, w), sid, i, s) <=> IsSid(q, sid, i, s)
           /\ EscAt(Append(q, w), esc, i) <=> EscAt(q, esc, i)
           /\ i \in 1 .. Len(q) => Append(q, w)[i] = q[i]
  <1> DEFINE r == Append(q, w)
  <1>1. Len(q) \in Nat /\ \A k \in 1 .. Len(q) : r[k] = q[k]
    BY LenProperties, AppendProperties
  <1> HIDE DEF r
  <1>2. \A k \in 1 .. i - 1 : k \in 1 .. Len(q)
    BY <1>1, SMT
  <1>3. i # 1 => i - 1 \in 1 .. Len(q)
    BY <1>1, SMT
  <1>4. \A j \in 1 .. i - 1 : \A k \in j + 1 .. i - 1 : k \in 1 .. i - 1
    BY <1>1, SMT
  <1>5. ASSUME NEW s PROVE IsSid(r, sid, i, s) <=> IsSid(q, sid, i, s)
    BY <1>1, <1>2, <1>4 DEF IsSid
  <1>6. EscAt(r, esc, i) <=> EscAt(q, esc, i)
    BY <1>1, <1>3 DEF EscAt
  <1> QED
    BY <1>1, <1>5, <1>6 DEF r

\* The service in force behind the last byte.
LEMMA SidBehind ==
    ASSUME NEW q \in Seq(Wire), NEW w \in Wire, NEW sid, NEW out, IsSid(q, sid, Len(q) + 1, out)
    PROVE  /\ w.b \in Services => IsSid(Append(q, w), sid, Len(q) + 2, w.b)
           /\ w.b \notin Services => IsSid(Append(q, w), sid, Len(q) + 2, out)
  <1> DEFINE r == Append(q, w)
  <1>1. Len(q) \in Nat /\ r[Len(q) + 1] = w /\ \A k \in 1 .. Len(q) : r[k] = q[k]
    BY LenProperties, AppendProperties
  <1> HIDE DEF r
  <1>2. Len(q) + 1 \in 1 .. (Len(q) + 2) - 1 /\ (Len(q) + 1) + 1 .. (Len(q) + 2) - 1 = {}
    BY <1>1, SMT
  <1>3. w.b \in Services => IsSid(r, sid, Len(q) + 2, w.b)
    BY <1>1, <1>2 DEF IsSid
  <1>4. ASSUME w.b \notin Services PROVE IsSid(r, sid, Len(q) + 2, out)
    <2>1. /\ (Len(q) + 1) - 1 = Len(q) /\ (Len(q) + 2) - 1 = Len(q) + 1
          /\ \A k \in 1 .. Len(q) + 1 : k \in 1 .. Len(q) \/ k = Len(q) + 1
          /\ \A j \in 1 .. Len(q) : \A k \in j + 1 .. Len(q) + 1 :
                k \in j + 1 .. Len(q) \/ k = Len(q) + 1
          /\ \A j \in 1 .. Len(q) : j \in 1 .. Len(q) + 1
          /\ \A j \in 1 .. Len(q) : \A k \in j + 1 .. Len(q) : k \in 1 .. Len(q)
      BY <1>1, SMT
    <2>2. CASE out = sid /\ \A k \in 1 .. Len(q) : q[k].b \notin Services
      BY <1>1, <1>4, <2>1, <2>2 DEF IsSid
    <2>3. ASSUME NEW j \in 1 .. Len(q), q[j].b = out, out \in Services,
                 \A k \in j + 1 .. Len(q) : q[k].b \notin Services
          PROVE  IsSid(r, sid, Len(q) + 2, out)
      <3>1. \A k \in j + 1 .. Len(q) + 1 : r[k].b \notin Services
        BY <1>1, <1>4, <2>1, <2>3
      <3> QED
        BY <1>1, <2>1, <2>3, <3>1 DEF IsSid
    <2> QED
      BY <2>1, <2>2, <2>3 DEF IsSid
  <1> QED
    BY <1>3, <1>4 DEF r

\* What is on the line keeps its meaning when a byte follows.
LEMMA GrownMeans ==
    ASSUME NEW q \in Seq(Wire), NEW w \in Wire, NEW sid, NEW esc, NEW S, NEW i \in 1 .. Len(q),
           IF q[i].n # 0 THEN Means(q, sid, esc, S, i) ELSE Controls(q, esc, i)
    PROVE  LET r == Append(q, w)
           IN  IF r[i].n # 0 THEN Means(r, sid, esc, S, i) ELSE Controls(r, esc, i)
  <1> DEFINE r == Append(q, w)
  <1>1. i \in 1 .. Len(q) + 1
    BY LenProperties, SMT
  <1>2. /\ \A s : IsSid(r, sid, i, s) <=> IsSid(q, sid, i, s)
        /\ EscAt(r, esc, i) <=> EscAt(q, esc, i)
        /\ r[i] = q[i]
    BY <1>1, Grown
  <1> HIDE DEF r
  <1>3. Means(q, sid, esc, S, i) => Means(r, sid, esc, S, i)
    BY <1>2, Zenon DEF Means
  <1>4. Controls(q, esc, i) => Controls(r, esc, i)
    BY <1>2, Zenon DEF Controls
  <1> QED
    BY <1>2, <1>3, <1>4 DEF r

\* A control byte is sent.
LEMMA SendControl ==
    ASSUME NEW q, NEW sid, NEW esc, NEW S, NEW done, NEW total, NEW out,
           Channel(q, sid, esc, S, done, total, out, FALSE),
           NEW b \in Services \cup {ESC}
    PROVE  Channel(Append(q, Control(b)), sid, esc, S, done, total,
                   IF b = ESC THEN out ELSE b, b = ESC)
  <1> DEFINE w == Control(b)
             r == Append(q, w)
             o == IF b = ESC THEN out ELSE b
  <1>0. q \in Seq(Wire) /\ Len(q) \in Nat
    BY LenProperties DEF Channel
  <1>1. w \in Wire /\ w.b = b /\ w.n = 0
    BY SpecialBytes DEF Control, Wire
  <1> HIDE DEF w
  <1>2. /\ r \in Seq(Wire) /\ Len(r) = Len(q) + 1 /\ r[Len(q) + 1] = w
        /\ \A k \in 1 .. Len(q) : r[k] = q[k]
    BY <1>0, <1>1, AppendProperties
  <1>3. /\ \A i \in 1 .. Len(r) : i \in 1 .. Len(q) \/ i = Len(q) + 1
        /\ \A i \in 1 .. Len(q) : i \in 1 .. Len(r)
        /\ Len(q) + 1 \in 1 .. Len(q) + 1
        /\ Len(r) + 1 = Len(q) + 2 /\ Len(r) + 1 # 1 /\ (Len(r) + 1) - 1 = Len(q) + 1
    BY <1>0, <1>2, SMT
  <1>4. \A i \in 1 .. Len(q) : IF r[i].n # 0 THEN Means(r, sid, esc, S, i)
                               ELSE Controls(r, esc, i)
    BY <1>0, <1>1, GrownMeans DEF Channel
  <1>5. Controls(r, esc, Len(q) + 1) /\ r[Len(q) + 1].n = 0
    <2>1. ~EscAt(q, esc, Len(q) + 1)
      BY DEF Channel
    <2>2. ~EscAt(r, esc, Len(q) + 1)
      BY <1>0, <1>1, <1>3, <2>1, Grown
    <2> QED
      BY <1>1, <1>2, <2>2 DEF Controls
  <1>6. IsSid(r, sid, Len(r) + 1, o)
    BY <1>0, <1>1, <1>3, SidBehind, SpecialBytes DEF Channel
  <1> HIDE DEF r
  <1>7. EscAt(r, esc, Len(r) + 1) <=> b = ESC
    BY <1>1, <1>2, <1>3 DEF EscAt
  <1>8. Numbered(r, done, total)
    <2>1. /\ \A i \in 1 .. Len(q) : q[i].n # 0 => done < q[i].n /\ q[i].n <= total
          /\ \A i, j \in 1 .. Len(q) : i < j /\ q[i].n # 0 /\ q[j].n # 0 => q[i].n < q[j].n
          /\ \A n \in done + 1 .. total : \E i \in 1 .. Len(q) : q[i].n = n
      BY DEF Channel, Numbered
    <2>2. \A n \in done + 1 .. total : \E i \in 1 .. Len(r) : r[i].n = n
      BY <1>2, <1>3, <2>1
    <2>3. \A i \in 1 .. Len(r) : r[i].n # 0 => i \in 1 .. Len(q) /\ r[i] = q[i]
      BY <1>2, <1>3, <1>5
    <2> QED
      BY <2>1, <2>2, <2>3 DEF Numbered
  <1>9. \A i \in 1 .. Len(r) : IF r[i].n # 0 THEN Means(r, sid, esc, S, i)
                               ELSE Controls(r, esc, i)
    BY <1>3, <1>4, <1>5
  <1> QED
    BY <1>2, <1>6, <1>7, <1>8, <1>9 DEF Channel, r, w, o

\* The byte of a service is sent.
LEMMA SendService ==
    ASSUME NEW q, NEW sid, NEW esc, NEW S, NEW done, NEW total, NEW out,
           Channel(q, sid, esc, S, done, total, out, FALSE),
           NEW b \in Services
    PROVE  Channel(Append(q, Control(b)), sid, esc, S, done, total, b, FALSE)
  <1>1. b # ESC /\ b \in Services \cup {ESC}
    BY SpecialBytes
  <1>2. Channel(Append(q, Control(b)), sid, esc, S, done, total,
                IF b = ESC THEN out ELSE b, b = ESC)
    BY <1>1, SendControl
  <1> QED
    BY <1>1, <1>2 DEF Channel

\* SERMUX_ESCAPE_CHAR is sent.
LEMMA SendEscape ==
    ASSUME NEW q, NEW sid, NEW esc, NEW S, NEW done, NEW total, NEW out,
           Channel(q, sid, esc, S, done, total, out, FALSE)
    PROVE  Channel(Append(q, Control(ESC)), sid, esc, S, done, total, out, TRUE)
  <1>1. Channel(Append(q, Control(ESC)), sid, esc, S, done, total,
                IF ESC = ESC THEN out ELSE ESC, ESC = ESC)
    BY SendControl
  <1> QED
    BY <1>1 DEF Channel

\* The parts of a byte on the line.
LEMMA LineType ==
    ASSUME NEW q \in Seq(Wire), NEW i \in 1 .. Len(q)
    PROVE  q[i] \in Wire /\ q[i].b \in Bytes /\ q[i].n \in Nat /\ q[i].n \in 0 .. MaxSends
  <1>1. q[i] \in Wire
    BY ElementOfSeq
  <1>2. q[i].b \in Bytes /\ q[i].n \in 0 .. MaxSends
    BY <1>1 DEF Wire
  <1>3. q[i].n \in Nat
    BY <1>2, SpecialBytes, SMT
  <1> QED
    BY <1>1, <1>2, <1>3

\* The next byte of data is sent, behind its service and, if it needs one, an
\* escape.
LEMMA SendNext ==
    ASSUME NEW q, NEW sid, NEW esc, NEW S, NEW done, NEW total, NEW out, NEW open \in BOOLEAN,
           Channel(q, sid, esc, S, done, total, out, open),
           total + 1 <= Len(S), S[total + 1].s = out,
           open <=> S[total + 1].b \in Special,
           NEW w \in Wire, w.n = total + 1,
           w.b = IF open THEN Xored(S[total + 1].b) ELSE S[total + 1].b
    PROVE  Channel(Append(q, w), sid, esc, S, done, total + 1, out, FALSE)
  <1> DEFINE r == Append(q, w)
             t == total + 1
  <1>0. /\ q \in Seq(Wire) /\ Len(q) \in Nat /\ total \in Nat /\ t \in Nat /\ t # 0
        /\ t \in 1 .. Len(S) /\ S \in Sends /\ done \in Nat /\ done < t
    BY LenProperties, SMT DEF Channel, Sends
  <1>1. S[t] \in [s : Services, b : Payload]
    BY <1>0, ElementOfSeq DEF Sends
  <1>2. /\ r \in Seq(Wire) /\ Len(r) = Len(q) + 1 /\ r[Len(q) + 1] = w
        /\ \A k \in 1 .. Len(q) : r[k] = q[k]
    BY <1>0, AppendProperties
  <1>3. /\ \A i \in 1 .. Len(r) : i \in 1 .. Len(q) \/ i = Len(q) + 1
        /\ \A i \in 1 .. Len(q) : i \in 1 .. Len(r)
        /\ Len(q) + 1 \in 1 .. Len(q) + 1 /\ Len(q) + 1 \in 1 .. Len(r)
        /\ Len(r) + 1 = Len(q) + 2 /\ Len(r) + 1 # 1 /\ (Len(r) + 1) - 1 = Len(q) + 1
    BY <1>0, <1>2, SMT
  <1>4. \A i \in 1 .. Len(q) : IF r[i].n # 0 THEN Means(r, sid, esc, S, i)
                               ELSE Controls(r, esc, i)
    BY <1>0, GrownMeans DEF Channel
  <1>5. w.b \notin Special
    BY SpecialBytes
  <1>6. Means(r, sid, esc, S, Len(q) + 1)
    <2>1. IsSid(q, sid, Len(q) + 1, out) /\ (EscAt(q, esc, Len(q) + 1) <=> open)
      BY DEF Channel
    <2>2. IsSid(r, sid, Len(q) + 1, out) /\ (EscAt(r, esc, Len(q) + 1) <=> open)
      BY <1>0, <1>3, <2>1, Grown
    <2> QED
      BY <1>0, <1>2, <2>2 DEF Means
  <1>7. IsSid(r, sid, Len(r) + 1, out)
    BY <1>0, <1>3, <1>5, SidBehind, SpecialBytes DEF Channel
  <1> HIDE DEF r
  <1>8. ~EscAt(r, esc, Len(r) + 1)
    BY <1>2, <1>3, <1>5, SpecialBytes DEF EscAt
  <1>9. Numbered(r, done, t)
    <2>1. /\ \A i \in 1 .. Len(q) : q[i].n # 0 => done < q[i].n /\ q[i].n <= total
          /\ \A i, j \in 1 .. Len(q) : i < j /\ q[i].n # 0 /\ q[j].n # 0 => q[i].n < q[j].n
          /\ \A n \in done + 1 .. total : \E i \in 1 .. Len(q) : q[i].n = n
      BY DEF Channel, Numbered
    <2>2. \A i \in 1 .. Len(q) : q[i].n \in Nat
      BY <1>0, LineType
    <2>3. \A i \in 1 .. Len(r) : r[i].n # 0 => done < r[i].n /\ r[i].n <= t
      <3> SUFFICES ASSUME NEW i \in 1 .. Len(r), r[i].n # 0
                   PROVE  done < r[i].n /\ r[i].n <= t
        OBVIOUS
      <3>1. CASE i \in 1 .. Len(q)
        <4>1. r[i].n \in Nat /\ done < r[i].n /\ r[i].n <= total
          BY <1>2, <2>1, <2>2, <3>1
        <4> QED
          BY <1>0, <4>1, SMT
      <3>2. CASE i = Len(q) + 1
        BY <1>0, <1>2, <3>2, SMT
      <3> QED
        BY <1>3, <3>1, <3>2
    <2>4. \A i, j \in 1 .. Len(r) : i < j /\ r[i].n # 0 /\ r[j].n # 0 => r[i].n < r[j].n
      <3> SUFFICES ASSUME NEW i \in 1 .. Len(r), NEW j \in 1 .. Len(r), i < j,
                          r[i].n # 0, r[j].n # 0
                   PROVE  r[i].n < r[j].n
        OBVIOUS
      <3>1. i \in 1 .. Len(q)
        BY <1>0, <1>2, SMT
      <3>2. CASE j \in 1 .. Len(q)
        BY <1>2, <2>1, <3>1, <3>2
      <3>3. CASE j = Len(q) + 1
        <4>1. r[i].n \in Nat /\ r[i].n <= total
          BY <1>2, <2>1, <2>2, <3>1
        <4>2. r[j].n = total + 1
          BY <1>2, <3>3
        <4> QED
          BY <1>0, <4>1, <4>2, SMT
      <3> QED
        BY <1>3, <3>2, <3>3
    <2>5. \A n \in done + 1 .. t : \E i \in 1 .. Len(r) : r[i].n = n
      <3> TAKE n \in done + 1 .. t
      <3>1. n \in done + 1 .. total \/ n = t
        BY <1>0, SMT
      <3>2. CASE n \in done + 1 .. total
        BY <1>2, <1>3, <2>1, <3>2
      <3>3. CASE n = t
        BY <1>2, <1>3, <3>3
      <3> QED
        BY <3>1, <3>2, <3>3
    <2> QED
      BY <2>3, <2>4, <2>5 DEF Numbered
  <1>10. \A i \in 1 .. Len(r) : IF r[i].n # 0 THEN Means(r, sid, esc, S, i)
                                ELSE Controls(r, esc, i)
    BY <1>0, <1>2, <1>3, <1>4, <1>6
  <1>11. done <= t /\ t <= Len(S)
    BY <1>0, SMT
  <1> QED
    BY <1>0, <1>2, <1>7, <1>8, <1>9, <1>10, <1>11 DEF Channel, r, t

\* A user gives a byte to the sender.
LEMMA MoreToSend ==
    ASSUME NEW q, NEW sid, NEW esc, NEW S, NEW done, NEW total, NEW out, NEW open,
           Channel(q, sid, esc, S, done, total, out, open),
           NEW e \in [s : Services, b : Payload]
    PROVE  Channel(q, sid, esc, Append(S, e), done, total, out, open)
  <1>1. /\ Append(S, e) \in Sends /\ Len(Append(S, e)) = Len(S) + 1 /\ Len(S) \in Nat
        /\ \A n \in 1 .. Len(S) : Append(S, e)[n] = S[n] /\ n \in 1 .. Len(S) + 1
    <2>1. S \in Sends /\ Len(S) \in Nat
      BY LenProperties DEF Channel, Sends
    <2> QED
      BY <2>1, AppendProperties, SMT DEF Sends
  <1>2. \A i \in 1 .. Len(q) : Means(q, sid, esc, S, i) => Means(q, sid, esc, Append(S, e), i)
    BY <1>1 DEF Means
  <1>3. total \in Nat /\ total <= Len(S) => total <= Len(S) + 1
    BY <1>1, SMT
  <1> QED
    BY <1>1, <1>2, <1>3 DEF Channel

\* The first byte is read: the service in force becomes s, the escape e.
LEMMA Shifted ==
    ASSUME NEW q \in Seq(Wire), q # <<>>, NEW sid, NEW esc, NEW s, NEW e,
           s = IF Head(q).b \in Services THEN Head(q).b ELSE sid,
           e = TRUE <=> Head(q).b = ESC,
           NEW i \in 1 .. Len(Tail(q)) + 1
    PROVE  /\ \A o : IsSid(q, sid, i + 1, o) => IsSid(Tail(q), s, i, o)
           /\ EscAt(Tail(q), e, i) <=> EscAt(q, esc, i + 1)
  <1> DEFINE t == Tail(q)
  <1>1. /\ Len(q) \in Nat /\ Len(t) = Len(q) - 1 /\ Len(t) \in Nat /\ Head(q) = q[1]
        /\ \A k \in 1 .. Len(t) : t[k] = q[k + 1]
    BY LenProperties, HeadTailProperties, EmptySeq, SMT
  <1> HIDE DEF t
  <1>2. /\ i + 1 # 1 /\ (i + 1) - 1 = i /\ i \in Nat
        /\ \A k \in 1 .. i - 1 : k \in 1 .. Len(t) /\ k + 1 \in 1 .. i
        /\ i # 1 => i - 1 \in 1 .. Len(t) /\ (i - 1) + 1 = i
        /\ 1 \in 1 .. i
    BY <1>1, SMT
  <1>3. EscAt(t, e, i) <=> EscAt(q, esc, i + 1)
    BY <1>1, <1>2 DEF EscAt
  <1>4. ASSUME NEW o, o = sid, \A k \in 1 .. i : q[k].b \notin Services
        PROVE  IsSid(t, s, i, o)
    <2>1. s = sid
      BY <1>1, <1>2, <1>4
    <2>2. \A k \in 1 .. i - 1 : t[k].b \notin Services
      BY <1>1, <1>2, <1>4
    <2> QED
      BY <1>4, <2>1, <2>2 DEF IsSid
  <1>5. ASSUME NEW o, NEW j \in 1 .. i, q[j].b = o, o \in Services,
               \A k \in j + 1 .. i : q[k].b \notin Services
        PROVE  IsSid(t, s, i, o)
    <2>1. CASE j = 1
      <3>1. s = o
        BY <1>1, <1>5, <2>1
      <3>2. \A k \in 1 .. i - 1 : k + 1 \in j + 1 .. i
        BY <1>2, <2>1, SMT
      <3>3. \A k \in 1 .. i - 1 : t[k].b \notin Services
        BY <1>1, <1>2, <1>5, <3>2
      <3> QED
        BY <3>1, <3>3 DEF IsSid
    <2>2. CASE j # 1
      <3>1. j - 1 \in 1 .. i - 1 /\ (j - 1) + 1 = j
            /\ \A k \in (j - 1) + 1 .. i - 1 : k + 1 \in j + 1 .. i /\ k \in 1 .. i - 1
        BY <1>2, <2>2, SMT
      <3>2. t[j - 1].b = o
        BY <1>1, <1>2, <1>5, <3>1
      <3>3. \A k \in (j - 1) + 1 .. i - 1 : t[k].b \notin Services
        BY <1>1, <1>2, <1>5, <3>1
      <3> QED
        BY <1>5, <3>1, <3>2, <3>3 DEF IsSid
    <2> QED
      BY <2>1, <2>2
  <1>6. ASSUME NEW o, IsSid(q, sid, i + 1, o) PROVE IsSid(t, s, i, o)
    BY <1>2, <1>4, <1>5, <1>6 DEF IsSid
  <1> QED
    BY <1>3, <1>6 DEF t

\* What is behind the first byte keeps its meaning when that one is read.
LEMMA ReadOne ==
    ASSUME NEW q, q # <<>>, NEW sid, NEW esc, NEW S, NEW done, NEW total, NEW out, NEW open,
           Channel(q, sid, esc, S, done, total, out, open),
           NEW s, s = IF Head(q).b \in Services THEN Head(q).b ELSE sid,
           NEW e, e = TRUE <=> Head(q).b = ESC,
           NEW d, d = IF Head(q).n # 0 THEN done + 1 ELSE done
    PROVE  /\ Channel(Tail(q), s, e, S, d, total, out, open)
           /\ Head(q).n # 0 => Head(q).n = done + 1 /\ Means(q, sid, esc, S, 1)
           /\ Head(q).n = 0 => Controls(q, esc, 1)
  <1> DEFINE t == Tail(q)
  <1>0. q \in Seq(Wire) /\ done \in Nat /\ total \in Nat /\ done <= total
    BY DEF Channel
  <1>1. /\ Len(q) \in Nat /\ Len(t) = Len(q) - 1 /\ Len(t) \in Nat /\ Head(q) = q[1]
        /\ t \in Seq(Wire) /\ \A k \in 1 .. Len(t) : t[k] = q[k + 1]
    BY <1>0, LenProperties, HeadTailProperties, EmptySeq, SMT
  <1>2. \A i \in 1 .. Len(t) + 1 :
            /\ \A o : IsSid(q, sid, i + 1, o) => IsSid(t, s, i, o)
            /\ EscAt(t, e, i) <=> EscAt(q, esc, i + 1)
    BY <1>0, Shifted
  <1> HIDE DEF t
  <1>3. /\ 1 \in 1 .. Len(q) /\ (Len(t) + 1) + 1 = Len(q) + 1 /\ Len(t) + 1 \in 1 .. Len(t) + 1
        /\ \A i \in 1 .. Len(t) : /\ i \in 1 .. Len(t) + 1 /\ i + 1 \in 1 .. Len(q)
                                  /\ 1 < i + 1
        /\ \A i \in 1 .. Len(q) : i # 1 => i - 1 \in 1 .. Len(t) /\ (i - 1) + 1 = i /\ 1 < i
    BY <1>1, SMT
  <1>4. /\ \A i \in 1 .. Len(q) : q[i].n # 0 => done < q[i].n /\ q[i].n <= total
        /\ \A i, j \in 1 .. Len(q) : i < j /\ q[i].n # 0 /\ q[j].n # 0 => q[i].n < q[j].n
        /\ \A n \in done + 1 .. total : \E i \in 1 .. Len(q) : q[i].n = n
        /\ \A i \in 1 .. Len(q) : q[i].n \in Nat
    BY <1>0, LineType DEF Channel, Numbered
  <1>5. ASSUME q[1].n # 0 PROVE q[1].n = done + 1
    <2>1. done + 1 \in done + 1 .. total /\ done + 1 # 0
      BY <1>0, <1>3, <1>4, <1>5, SMT
    <2>2. PICK i \in 1 .. Len(q) : q[i].n = done + 1
      BY <1>4, <2>1
    <2>3. CASE i = 1
      BY <2>2, <2>3
    <2>4. CASE i # 1
      <3>1. q[1].n < q[i].n /\ done < q[1].n /\ q[1].n \in Nat
        BY <1>3, <1>4, <1>5, <2>1, <2>2, <2>4
      <3> QED
        BY <1>0, <2>2, <3>1, SMT
    <2> QED
      BY <2>3, <2>4
  <1>6. d \in Nat /\ d <= total
    <2>1. CASE q[1].n # 0
      <3>1. q[1].n <= total
        BY <1>3, <1>4, <2>1
      <3> QED
        BY <1>0, <1>1, <1>5, <2>1, <3>1, SMT
    <2>2. CASE q[1].n = 0
      BY <1>0, <1>1, <2>2
    <2> QED
      BY <2>1, <2>2
  <1>7. Numbered(t, d, total)
    <2>1. ASSUME NEW i \in 1 .. Len(t), t[i].n # 0 PROVE d < t[i].n /\ t[i].n <= total
      <3>1. /\ t[i].n = q[i + 1].n /\ i + 1 \in 1 .. Len(q) /\ 1 < i + 1
            /\ t[i].n \in Nat /\ done < t[i].n /\ t[i].n <= total
        BY <1>1, <1>3, <1>4, <2>1
      <3>2. CASE q[1].n # 0
        <4>1. q[1].n < t[i].n
          BY <1>3, <1>4, <2>1, <3>1, <3>2
        <4> QED
          BY <1>1, <1>5, <3>1, <3>2, <4>1
      <3>3. CASE q[1].n = 0
        BY <1>1, <3>1, <3>3
      <3> QED
        BY <3>2, <3>3
    <2>2. ASSUME NEW i \in 1 .. Len(t), NEW j \in 1 .. Len(t), i < j, t[i].n # 0, t[j].n # 0
          PROVE  t[i].n < t[j].n
      <3>1. i + 1 < j + 1
        BY <1>1, <2>2, SMT
      <3>2. /\ i + 1 \in 1 .. Len(q) /\ j + 1 \in 1 .. Len(q)
            /\ t[i].n = q[i + 1].n /\ t[j].n = q[j + 1].n
        BY <1>1, <1>3
      <3> HIDE DEF t
      <3>3. q[i + 1].n # 0 /\ q[j + 1].n # 0
        BY <2>2, <3>2
      <3> QED
        BY <1>4, <3>1, <3>2, <3>3
    <2>3. ASSUME NEW n \in d + 1 .. total PROVE \E i \in 1 .. Len(t) : t[i].n = n
      <3>1. n \in done + 1 .. total /\ n # 0 /\ (q[1].n # 0 => n # done + 1)
        BY <1>0, <1>1, <1>6, SMT
      <3>2. PICK i \in 1 .. Len(q) : q[i].n = n
        BY <1>4, <3>1
      <3>3. i # 1
        BY <1>5, <3>1, <3>2
      <3> QED
        BY <1>1, <1>3, <3>2, <3>3
    <2> QED
      BY <2>1, <2>2, <2>3 DEF Numbered
  <1>8. ASSUME NEW i \in 1 .. Len(t)
        PROVE  IF t[i].n # 0 THEN Means(t, s, e, S, i) ELSE Controls(t, e, i)
    <2>1. /\ t[i] = q[i + 1] /\ i + 1 \in 1 .. Len(q)
          /\ \A o : IsSid(q, sid, i + 1, o) => IsSid(t, s, i, o)
          /\ EscAt(t, e, i) <=> EscAt(q, esc, i + 1)
      BY <1>1, <1>2, <1>3
    <2>2. IF q[i + 1].n # 0 THEN Means(q, sid, esc, S, i + 1) ELSE Controls(q, esc, i + 1)
      BY <2>1 DEF Channel
    <2>3. Means(q, sid, esc, S, i + 1) => Means(t, s, e, S, i)
      BY <2>1, Zenon DEF Means
    <2>4. Controls(q, esc, i + 1) => Controls(t, e, i)
      BY <2>1, Zenon DEF Controls
    <2> QED
      BY <2>1, <2>2, <2>3, <2>4
  <1>9. IsSid(t, s, Len(t) + 1, out) /\ (EscAt(t, e, Len(t) + 1) <=> open = TRUE)
    BY <1>2, <1>3 DEF Channel
  <1>10. Channel(t, s, e, S, d, total, out, open)
    <2>1. S \in Sends /\ total \in Nat /\ total <= Len(S)
      BY DEF Channel
    <2> QED
      BY <1>1, <1>6, <1>7, <1>8, <1>9, <2>1 DEF Channel
  <1>11. /\ q[1].n # 0 => Means(q, sid, esc, S, 1)
         /\ q[1].n = 0 => Controls(q, esc, 1)
    BY <1>3 DEF Channel
  <1> QED
    BY <1>1, <1>5, <1>10, <1>11 DEF t

\* The side that reads a control byte.
LEMMA ReadControl ==
    ASSUME NEW q, q # <<>>, NEW sid, NEW esc \in BOOLEAN, NEW S, NEW done, NEW total,
           NEW out, NEW open, Channel(q, sid, esc, S, done, total, out, open),
           Head(q).b \in Special
    PROVE  Head(q).b \in Services \cup {ESC} /\ Head(q).n = 0 /\ esc = FALSE
  <1>1. q \in Seq(Wire) /\ Head(q) = q[1] /\ S \in Sends
    BY DEF Channel
  <1>2. Means(q, sid, esc, S, 1) => q[1].b \notin Special
    BY SpecialBytes DEF Means
  <1>3. Head(q).n = 0 /\ Controls(q, esc, 1)
    BY <1>1, <1>2, ReadOne
  <1>4. esc = FALSE /\ Head(q).b \in Services \cup {ESC}
    BY <1>1, <1>3 DEF Controls, EscAt
  <1> QED
    BY <1>3, <1>4

\* The receiver takes the byte of a service.
LEMMA ReadService ==
    ASSUME NEW q, q # <<>>, NEW sid, NEW esc \in BOOLEAN, NEW S, NEW done, NEW total,
           NEW out, NEW open, Channel(q, sid, esc, S, done, total, out, open),
           Head(q).b \in Services, NEW e, e = FALSE
    PROVE  Channel(Tail(q), Head(q).b, e, S, done, total, out, open)
  <1>1. Head(q).n = 0
    BY ReadControl, SpecialBytes
  <1> QED
    BY <1>1, ReadOne, SpecialBytes

\* The receiver takes SERMUX_ESCAPE_CHAR.
LEMMA ReadEscape ==
    ASSUME NEW q, q # <<>>, NEW sid, NEW esc \in BOOLEAN, NEW S, NEW done, NEW total,
           NEW out, NEW open, Channel(q, sid, esc, S, done, total, out, open),
           Head(q).b = ESC, NEW e, e = TRUE
    PROVE  Channel(Tail(q), sid, e, S, done, total, out, open)
  <1>1. Head(q).n = 0
    BY ReadControl, SpecialBytes
  <1>2. /\ sid = IF Head(q).b \in Services THEN Head(q).b ELSE sid
        /\ done = IF Head(q).n # 0 THEN done + 1 ELSE done
    BY <1>1, SpecialBytes
  <1>3. e = TRUE <=> Head(q).b = ESC
    OBVIOUS
  <1> QED
    BY <1>2, <1>3, ReadOne

\* The side that reads data: it is the next byte that was sent.
LEMMA ReadData ==
    ASSUME NEW q, q # <<>>, NEW sid, NEW esc \in BOOLEAN, NEW S, NEW done, NEW total,
           NEW out, NEW open, Channel(q, sid, esc, S, done, total, out, open),
           Head(q).b \notin Services \cup {ESC}
    PROVE  /\ Head(q).n # 0 /\ done + 1 \in 1 .. Len(S)
           /\ sid = S[done + 1].s /\ sid \in Services
           /\ S[done + 1].b = IF esc THEN Xored(Head(q).b) ELSE Head(q).b
           /\ esc => S[done + 1].b \in Special
           /\ Head(q).b \notin Special
  <1>1. q \in Seq(Wire) /\ Head(q) = q[1] /\ S \in Sends
    BY DEF Channel
  <1>2. ~Controls(q, esc, 1)
    BY <1>1 DEF Controls
  <1>3. Head(q).n # 0 /\ Head(q).n = done + 1 /\ Means(q, sid, esc, S, 1)
    BY <1>2, ReadOne
  <1>4. done + 1 \in 1 .. Len(S)
    BY <1>1, <1>3 DEF Means
  <1>5. S[done + 1] \in [s : Services, b : Payload]
    BY <1>1, <1>4, ElementOfSeq DEF Sends
  <1>6. S[done + 1].s = sid
    <2>1. IsSid(q, sid, 1, S[done + 1].s)
      BY <1>1, <1>3 DEF Means
    <2>2. 1 .. 1 - 1 = {}
      BY SMT
    <2> QED
      BY <2>1, <2>2 DEF IsSid
  <1>7. /\ esc => S[done + 1].b \in Special /\ Head(q).b = Xored(S[done + 1].b)
        /\ ~esc => S[done + 1].b \notin Special /\ Head(q).b = S[done + 1].b
    BY <1>1, <1>3 DEF Means, EscAt
  <1> QED
    BY <1>3, <1>4, <1>5, <1>6, <1>7, SpecialBytes

\* What is left on the line behind a byte of data.
LEMMA DataRead ==
    ASSUME NEW q, q # <<>>, NEW sid, NEW esc \in BOOLEAN, NEW S, NEW done, NEW total,
           NEW out, NEW open, Channel(q, sid, esc, S, done, total, out, open),
           Head(q).b \notin Services \cup {ESC}, NEW e, e = FALSE, NEW d, d = done + 1
    PROVE  Channel(Tail(q), sid, e, S, d, total, out, open)
  <1>1. Head(q).n # 0
    BY ReadData
  <1>2. /\ sid = IF Head(q).b \in Services THEN Head(q).b ELSE sid
        /\ d = IF Head(q).n # 0 THEN done + 1 ELSE done
        /\ e = TRUE <=> Head(q).b = ESC
    BY <1>1
  <1> QED
    BY <1>2, ReadOne

\* When the line is empty, all that was sent has been handed out.
LEMMA NothingLeft ==
    ASSUME NEW sid, NEW esc, NEW S, NEW done, NEW total, NEW out, NEW open,
           Channel(<<>>, sid, esc, S, done, total, out, open)
    PROVE  done = total
  <1>1. 1 .. Len(<<>>) = {} /\ done \in Nat /\ total \in Nat /\ done <= total
    BY EmptySeq, SMT DEF Channel
  <1>2. done + 1 \notin done + 1 .. total
    BY <1>1 DEF Channel, Numbered
  <1> QED
    BY <1>1, <1>2, SMT

----------------------------------------------------------------------------
(* Types                                                                   *)

Takes == Seq([s : Services, b : Bytes, n : 0 .. MaxSends])
Args == [id : Services, data : Payload]

DevTypes ==
    /\ dev \in [sid_in : Services \cup {None}, sid_out : Services \cup {None},
                got_esc : BOOLEAN, last_sent : LastSent]
    /\ pc \in Labels
    /\ arg \in Args \cup {NoArg}
    /\ pc # "idle" => arg \in Args

HostTypes ==
    host \in [sid_in : Services \cup {None}, sid_out : Services \cup {None},
              got_esc : BOOLEAN, prev_sent : LastSent, up : BOOLEAN]

SentTypes ==
    /\ sent \in [Sides -> Sends]
    /\ \A side \in Sides : Len(sent[side]) <= MaxSends

TakenTypes == taken \in [Sides -> Takes]

LineTypes == toHost \in Seq(Wire) /\ toDev \in Seq(Wire)

FaultTypes == restarts \in [Sides -> 0 .. MaxRestarts] /\ raced \in BOOLEAN

Types == DevTypes /\ HostTypes /\ SentTypes /\ TakenTypes /\ LineTypes /\ FaultTypes

\* The inductive types imply those the run checks.
LEMMA TypesSuffice == Types => TypeOK
  <1> SUFFICES ASSUME Types PROVE TypeOK
    OBVIOUS
  <1>1. \A side \in Sides : /\ sent[side] \in Seq([s : Services, b : Payload])
                            /\ Len(sent[side]) <= MaxSends
                            /\ taken[side] \in Seq([s : Services, b : Bytes, n : 0 .. MaxSends])
    BY DEF Types, SentTypes, TakenTypes, Sends, Takes
  <1> QED
    BY <1>1 DEF Types, DevTypes, HostTypes, LineTypes, FaultTypes, TypeOK, Args

\* Everything that is kept for a repetition is a sequence of at most two bytes.
LEMMA LastSentType ==
    /\ NothingSent \in LastSent
    /\ \A b \in Bytes, n \in 0 .. MaxSends :
          /\ Plain(b, n) \in LastSent /\ Plain(b, n) \in Seq(Wire)
          /\ Escaped(b, n) \in LastSent /\ Escaped(b, n) \in Seq(Wire)
          /\ Encoded(b, n) \in LastSent /\ Encoded(b, n) \in Seq(Wire)
    /\ \A last \in LastSent : last \in Seq(Wire)
  <1>1. \A last \in LastSent : last \in Seq(Wire)
    <2> TAKE last \in LastSent
    <2>1. PICK n \in 0 .. 2 : last \in [1 .. n -> Wire]
      BY DEF LastSent
    <2>2. n \in Nat
      BY SMT
    <2> QED
      BY <2>1, <2>2, SeqDef
  <1>2. \A q \in Seq(Wire) : Len(q) \in 0 .. 2 => q \in LastSent
    <2> TAKE q \in Seq(Wire)
    <2>1. q \in [1 .. Len(q) -> Wire]
      BY LenProperties
    <2> QED
      BY <2>1 DEF LastSent
  <1>3. NothingSent \in LastSent
    <2>1. NothingSent \in Seq(Wire) /\ Len(NothingSent) = 0 /\ 0 \in 0 .. 2
      BY EmptySeq DEF NothingSent
    <2> QED
      BY <1>2, <2>1
  <1>4. ASSUME NEW b \in Bytes, NEW n \in 0 .. MaxSends
        PROVE  /\ Plain(b, n) \in Seq(Wire) /\ Len(Plain(b, n)) \in 0 .. 2
               /\ Escaped(b, n) \in Seq(Wire) /\ Len(Escaped(b, n)) \in 0 .. 2
    <2>1. [b |-> b, n |-> n] \in Wire /\ [b |-> Xored(b), n |-> n] \in Wire
          /\ Control(ESC) \in Wire
      BY SpecialBytes DEF Wire, Control
    <2> QED
      BY <2>1, SMT DEF Plain, Escaped
  <1> QED
    BY <1>1, <1>2, <1>3, <1>4 DEF Encoded, LastSent

\* The answer to SERMUX_FORCE_SID_CHAR can be put on the line.
LEMMA RepeatType ==
    ASSUME NEW s \in Services \cup {None}, NEW last \in LastSent
    PROVE  Repeat(s, last) \in Seq(Wire)
  <1>1. SidByte(s) \in Wire
    BY SpecialBytes DEF SidByte, Control, Wire
  <1>2. <<SidByte(s)>> \in Seq(Wire) /\ last \in Seq(Wire)
    BY <1>1, LastSentType
  <1> QED
    BY <1>2, ConcatProperties DEF Repeat

\* At the start nothing was sent.
LEMMA TypesInit == Init => Types
  <1> SUFFICES ASSUME Init PROVE Types
    OBVIOUS
  <1>1. DevTypes /\ HostTypes
    BY LastSentType DEF Init, DevTypes, HostTypes, DevStart, HostStart, Labels
  <1>2. SentTypes /\ TakenTypes
    <2>1. <<>> \in Sends /\ <<>> \in Takes /\ Len(<<>>) = 0 /\ 0 <= MaxSends
      BY EmptySeq, SpecialBytes, SMT DEF Sends, Takes
    <2> QED
      BY <2>1 DEF Init, SentTypes, TakenTypes, Sides
  <1>3. LineTypes /\ FaultTypes
    <2>1. 0 \in 0 .. MaxRestarts
      BY SpecialBytes, SMT
    <2>2. Nobody \in [Sides -> 0 .. MaxRestarts]
      BY <2>1 DEF Nobody, Sides
    <2>3. LineTypes
      BY EmptySeq DEF Init, LineTypes
    <2> QED
      BY <2>2, <2>3 DEF Init, FaultTypes
  <1> QED
    BY <1>1, <1>2, <1>3 DEF Types

\* The user of one side gives it a byte.
LEMMA UserSends ==
    ASSUME Types, MaySend, NEW side \in Sides, NEW id \in Services, NEW c \in Payload,
           sent' = [sent EXCEPT ![side] = Append(@, [s |-> id, b |-> c])]
    PROVE  /\ SentTypes' /\ Len(sent'[side]) \in 0 .. MaxSends
           /\ Len(sent'[side]) = Len(sent[side]) + 1
  <1>1. \A x \in Sides : sent[x] \in Sends /\ Len(sent[x]) \in Nat
    BY LenProperties DEF Types, SentTypes, Sends
  <1>2. [s |-> id, b |-> c] \in [s : Services, b : Payload]
    OBVIOUS
  <1>3. /\ Append(sent[side], [s |-> id, b |-> c]) \in Sends
        /\ Len(Append(sent[side], [s |-> id, b |-> c])) = Len(sent[side]) + 1
    <2> DEFINE e == [s |-> id, b |-> c]
    <2>1. e \in [s : Services, b : Payload] /\ sent[side] \in Seq([s : Services, b : Payload])
      BY <1>1, <1>2 DEF Sends
    <2> HIDE DEF e
    <2>2. /\ Append(sent[side], e) \in Seq([s : Services, b : Payload])
          /\ Len(Append(sent[side], e)) = Len(sent[side]) + 1
      BY <2>1, AppendProperties
    <2> QED
      BY <2>2 DEF Sends, e
  <1>4. Len(sent[side]) + 1 <= MaxSends
    <2>1. /\ Len(sent["host"]) \in Nat /\ Len(sent["dev"]) \in Nat /\ MaxSends \in Nat
          /\ Len(sent["host"]) + Len(sent["dev"]) < MaxSends
      BY <1>1, SpecialBytes DEF MaySend, Sides
    <2>2. Len(sent["host"]) + 1 <= MaxSends /\ Len(sent["dev"]) + 1 <= MaxSends
      <3>1. \A a, b, m \in Nat : a + b < m => a + 1 <= m /\ b + 1 <= m
        BY SMT
      <3> QED
        BY <2>1, <3>1, Zenon
    <2> QED
      BY <2>2 DEF Sides
  <1>5. sent'[side] = Append(sent[side], [s |-> id, b |-> c])
        /\ \A x \in Sides : x # side => sent'[x] = sent[x]
    BY DEF Types, SentTypes
  <1>6. sent' \in [Sides -> Sends]
    BY <1>3 DEF Types, SentTypes
  <1> QED
    BY <1>1, <1>3, <1>4, <1>5, <1>6, SpecialBytes, SMT DEF Types, SentTypes

\* Every statement of platform_uart_send keeps the types.
LEMMA SendKeepsTypes == Types /\ platform_uart_send => Types'
  <1> SUFFICES ASSUME Types, platform_uart_send PROVE Types'
    OBVIOUS
  <1> USE DEF Types
  <1>0. /\ Len(sent["dev"]) \in 0 .. MaxSends
        /\ arg \in Args => arg.id \in Services /\ arg.data \in Bytes /\ Xored(arg.data) \in Bytes
        /\ ESC \in Bytes /\ Services \subseteq Bytes /\ 0 \in 0 .. MaxSends
    <2>1. Len(sent["dev"]) \in Nat /\ Len(sent["dev"]) <= MaxSends
      BY LenProperties DEF SentTypes, Sends, Sides
    <2>2. Len(sent["dev"]) \in 0 .. MaxSends
      <3>1. \A n \in Nat : n <= MaxSends => n \in 0 .. MaxSends
        BY SpecialBytes, SMT
      <3> QED
        BY <2>1, <3>1
    <2> QED
      BY <2>2, SpecialBytes DEF Args
  <1>1. HostTypes' /\ FaultTypes' /\ TakenTypes' /\ UNCHANGED toDev
    BY DEF platform_uart_send, SendSid, SetLast, SendEsc, SendXored, SendData, SetMask, SetOut,
           Transmit, HostTypes, FaultTypes, TakenTypes
  <1>2. ASSUME NEW id \in Services, NEW data \in Payload, SendSid(id, data) PROVE Types'
    <2>1. SentTypes'
      BY <1>2, UserSends DEF SendSid, Sides
    <2>2. DevTypes'
      BY <1>2 DEF SendSid, DevTypes, Labels, Args
    <2>3. Control(id) \in Wire
      BY <1>0 DEF Control, Wire
    <2>4. LineTypes'
      BY <1>1, <1>2, <2>3, AppendProperties DEF SendSid, LineTypes
    <2> QED
      BY <1>1, <2>1, <2>2, <2>4
  <1>3. CASE SetLast
    <2>1. Plain(arg.data, Now) \in LastSent
      BY <1>0, <1>3, LastSentType DEF SetLast, DevTypes, Now
    <2>2. DevTypes'
      BY <1>3, <2>1 DEF SetLast, DevTypes, Labels
    <2> QED
      BY <1>1, <1>3, <2>2 DEF SetLast, SentTypes, LineTypes
  <1>4. CASE SetMask
    <2>1. Escaped(arg.data, Now) \in LastSent
      BY <1>0, <1>4, LastSentType DEF SetMask, DevTypes, Now
    <2>2. DevTypes'
      BY <1>4, <2>1 DEF SetMask, DevTypes, Labels
    <2> QED
      BY <1>1, <1>4, <2>2 DEF SetMask, SentTypes, LineTypes
  <1>5. CASE SetOut
    <2>1. DevTypes'
      BY <1>0, <1>5 DEF SetOut, DevTypes, Labels
    <2> QED
      BY <1>1, <1>5, <2>1 DEF SetOut, SentTypes, LineTypes
  <1>6. ASSUME NEW label, NEW w \in Wire, NEW next \in Labels, label # "idle",
               Transmit(label, w, next)
        PROVE  Types'
    <2>1. DevTypes' /\ SentTypes'
      BY <1>6 DEF Transmit, DevTypes, SentTypes
    <2>2. LineTypes'
      BY <1>1, <1>6, AppendProperties DEF Transmit, LineTypes
    <2> QED
      BY <1>1, <2>1, <2>2
  <1>7. CASE SendEsc
    <2>1. Control(ESC) \in Wire /\ "xor" \in Labels
      BY <1>0 DEF Control, Wire, Labels
    <2> QED
      BY <1>6, <1>7, <2>1 DEF SendEsc
  <1>8. CASE SendXored
    <2>1. [b |-> Xored(arg.data), n |-> Now] \in Wire /\ "mask" \in Labels
      BY <1>0, <1>8 DEF SendXored, Transmit, DevTypes, Now, Wire, Labels
    <2> QED
      BY <1>6, <1>8, <2>1 DEF SendXored
  <1>9. CASE SendData
    <2>1. [b |-> arg.data, n |-> Now] \in Wire /\ "out" \in Labels
      BY <1>0, <1>9 DEF SendData, Transmit, DevTypes, Now, Wire, Labels
    <2> QED
      BY <1>6, <1>9, <2>1 DEF SendData
  <1> QED
    BY <1>2, <1>3, <1>4, <1>5, <1>7, <1>8, <1>9 DEF platform_uart_send

\* What a side hands out to its user.
LEMMA GotType ==
    ASSUME NEW side, side.sid_in \in Services, NEW w \in Wire
    PROVE  Got(side, w) \in [s : Services, b : Bytes, n : 0 .. MaxSends]
  BY SpecialBytes DEF Got, Wire

\* A byte is handed out to the user of one side.
LEMMA TakenType ==
    ASSUME TakenTypes, NEW side \in Sides, NEW t \in [s : Services, b : Bytes, n : 0 .. MaxSends],
           taken' = [taken EXCEPT ![side] = Append(@, t)]
    PROVE  TakenTypes'
  <1>1. taken[side] \in Takes
    BY DEF TakenTypes
  <1>2. Append(taken[side], t) \in Takes
    BY <1>1, AppendProperties DEF Takes
  <1> QED
    BY <1>2 DEF TakenTypes

\* The receive handler of the device keeps the types.
LEMMA DevReceiveKeepsTypes == Types /\ cmn_rx_handler => Types'
  <1> SUFFICES ASSUME Types, cmn_rx_handler PROVE Types'
    OBVIOUS
  <1> USE DEF Types
  <1> DEFINE w == Head(toDev)
  <1>1. /\ toDev # <<>> /\ toDev' = Tail(toDev) /\ UNCHANGED <<pc, arg, host, sent, restarts>>
        /\ DevRxEsc(w) \/ DevRxSid(w) \/ DevRxForce(w) \/ DevRxUnknown(w) \/ DevRxData(w)
    BY DEF cmn_rx_handler
  <1>2. w \in Wire /\ toDev' \in Seq(Wire) /\ w.b \in Bytes
    <2>1. w \in Wire /\ toDev' \in Seq(Wire)
      BY <1>1, HeadTailProperties DEF LineTypes
    <2> QED
      BY <2>1 DEF Wire
  <1> HIDE DEF w
  <1>3. HostTypes' /\ SentTypes'
    BY <1>1 DEF HostTypes, SentTypes
  <1>4. CASE DevRxEsc(w)
    BY <1>1, <1>2, <1>3, <1>4 DEF DevRxEsc, DevTypes, LineTypes, TakenTypes, FaultTypes
  <1>5. CASE DevRxSid(w)
    BY <1>1, <1>2, <1>3, <1>5 DEF DevRxSid, DevTypes, LineTypes, TakenTypes, FaultTypes
  <1>6. CASE DevRxForce(w)
    <2>1. Repeat(dev.sid_out, dev.last_sent) \in Seq(Wire)
      BY RepeatType DEF DevTypes
    <2>2. toHost' \in Seq(Wire)
      BY <1>6, <2>1, ConcatProperties DEF DevRxForce, LineTypes
    <2>3. DevTypes'
      BY <1>1, <1>6, LastSentType DEF DevRxForce, DevTypes
    <2>4. raced' \in BOOLEAN
      BY <1>6, Zenon DEF DevRxForce
    <2> QED
      BY <1>1, <1>2, <1>3, <1>6, <2>2, <2>3, <2>4 DEF DevRxForce, LineTypes, TakenTypes, FaultTypes
  <1>7. CASE DevRxUnknown(w)
    <2>1. Control(FORCE) \in Wire
      BY SpecialBytes DEF Control, Wire
    <2>2. toHost' \in Seq(Wire)
      BY <1>7, <2>1, AppendProperties DEF DevRxUnknown, LineTypes
    <2>3. DevTypes'
      BY <1>1, <1>7 DEF DevRxUnknown, DevData, ClearEsc, DevTypes
    <2> QED
    BY <1>1, <1>2, <1>3, <1>7, <2>2, <2>3
      DEF DevRxUnknown, DevData, LineTypes, TakenTypes, FaultTypes
  <1>8. CASE DevRxData(w)
    <2>1. dev.sid_in \in Services
      BY <1>8 DEF DevRxData, DevTypes
    <2>2. TakenTypes'
      BY <1>2, <1>8, <2>1, GotType, TakenType DEF DevRxData, Sides
    <2>3. DevTypes'
      BY <1>1, <1>8 DEF DevRxData, DevData, ClearEsc, DevTypes
    <2> QED
      BY <1>1, <1>2, <1>3, <1>8, <2>2, <2>3 DEF DevRxData, DevData, LineTypes, FaultTypes
  <1> QED
    BY <1>1, <1>4, <1>5, <1>6, <1>7, <1>8

\* An iteration of the host that reads a byte keeps the types.
LEMMA HostReceiveKeepsTypes == Types /\ HostReceive => Types'
  <1> SUFFICES ASSUME Types, HostReceive PROVE Types'
    OBVIOUS
  <1> USE DEF Types
  <1> DEFINE w == Head(toHost)
  <1>1. /\ toHost # <<>> /\ toHost' = Tail(toHost)
        /\ UNCHANGED <<dev, pc, arg, sent, restarts, raced>>
        /\ \/ HostRxEsc(w) \/ HostRxSid(w) \/ HostRxForce(w) \/ HostExit(w)
           \/ HostRxUnknown(w) \/ HostRxData(w)
    BY DEF HostReceive, devVars
  <1>2. w \in Wire /\ toHost' \in Seq(Wire) /\ w.b \in Bytes
    <2>1. w \in Wire /\ toHost' \in Seq(Wire)
      BY <1>1, HeadTailProperties DEF LineTypes
    <2> QED
      BY <2>1 DEF Wire
  <1> HIDE DEF w
  <1>3. DevTypes' /\ SentTypes' /\ FaultTypes'
    BY <1>1 DEF DevTypes, SentTypes, FaultTypes
  <1>4. CASE HostRxEsc(w)
    BY <1>2, <1>3, <1>4 DEF HostRxEsc, HostTypes, LineTypes, TakenTypes
  <1>5. CASE HostRxSid(w)
    BY <1>2, <1>3, <1>5 DEF HostRxSid, HostTypes, LineTypes, TakenTypes
  <1>6. CASE HostRxForce(w)
    <2>1. Repeat(host.sid_out, host.prev_sent) \in Seq(Wire)
      BY RepeatType DEF HostTypes
    <2>2. toDev' \in Seq(Wire)
      BY <1>6, <2>1, ConcatProperties DEF HostRxForce, LineTypes
    <2>3. HostTypes'
      BY <1>6, LastSentType DEF HostRxForce, HostTypes
    <2> QED
      BY <1>2, <1>3, <1>6, <2>2, <2>3 DEF HostRxForce, LineTypes, TakenTypes
  <1>7. CASE HostExit(w)
    BY <1>2, <1>3, <1>7 DEF HostExit, HostTypes, LineTypes, TakenTypes
  <1>8. CASE HostRxUnknown(w)
    <2>1. Control(FORCE) \in Wire
      BY SpecialBytes DEF Control, Wire
    <2>2. toDev' \in Seq(Wire)
      BY <1>8, <2>1, AppendProperties DEF HostRxUnknown, LineTypes
    <2>3. HostTypes'
      BY <1>8 DEF HostRxUnknown, HostData, ClearEsc, HostTypes
    <2> QED
      BY <1>2, <1>3, <1>8, <2>2, <2>3 DEF HostRxUnknown, LineTypes, TakenTypes
  <1>9. CASE HostRxData(w)
    <2>1. host.sid_in \in Services
      BY <1>9 DEF HostRxData, HostTypes
    <2>2. TakenTypes'
      BY <1>2, <1>9, <2>1, GotType, TakenType DEF HostRxData, Sides
    <2>3. HostTypes'
      BY <1>9 DEF HostRxData, HostData, ClearEsc, HostTypes
    <2> QED
      BY <1>2, <1>3, <1>9, <2>2, <2>3 DEF HostRxData, LineTypes
  <1> QED
    BY <1>1, <1>4, <1>5, <1>6, <1>7, <1>8, <1>9

\* An iteration of the host that sends a byte keeps the types.
LEMMA HostSendKeepsTypes ==
    ASSUME Types, NEW id \in Services, NEW c \in Payload, HostSend(id, c)
    PROVE  Types'
  <1> USE DEF Types
  <1>1. SentTypes' /\ Len(sent'["host"]) \in 0 .. MaxSends
    BY UserSends DEF HostSend, Sides
  <1> DEFINE code == Encoded(c, Len(sent'["host"]))
             first == IF SidNeeded(id) THEN <<Control(id)>> ELSE <<>>
  <1>2. code \in Seq(Wire) /\ code \in LastSent
    BY <1>1, LastSentType, SpecialBytes
  <1>3. Control(id) \in Wire
    BY SpecialBytes DEF Control, Wire
  <1>4. first \in Seq(Wire)
    BY <1>3, EmptySeq
  <1>5. toDev' = (toDev \o first) \o code /\ host' = [host EXCEPT !.prev_sent = code, !.sid_out = id]
    BY DEF HostSend
  <1> HIDE DEF code, first
  <1>6. toDev' \in Seq(Wire)
    BY <1>2, <1>4, <1>5, ConcatProperties DEF LineTypes
  <1>7. HostTypes'
    BY <1>2, <1>5 DEF HostTypes
  <1> QED
    BY <1>1, <1>6, <1>7 DEF HostSend, devVars, DevTypes, TakenTypes, LineTypes, FaultTypes

\* A restart is counted, and seen by NoRestart.
LEMMA RestartType ==
    ASSUME FaultTypes, NEW side \in Sides, Restart(side), UNCHANGED raced
    PROVE  FaultTypes' /\ restarts' # Nobody
  <1>1. /\ restarts["host"] \in Nat /\ restarts["dev"] \in Nat /\ restarts[side] \in Nat
        /\ restarts["host"] + restarts["dev"] < MaxRestarts
    BY SpecialBytes, SMT DEF FaultTypes, Restart, Sides
  <1>2. restarts[side] + 1 \in 0 .. MaxRestarts /\ restarts[side] + 1 # 0
    <2>1. \A a, b \in Nat : a + b < MaxRestarts =>
              /\ a + 1 \in 0 .. MaxRestarts /\ a + 1 # 0
              /\ b + 1 \in 0 .. MaxRestarts /\ b + 1 # 0
      BY SpecialBytes, SMT
    <2> QED
      BY <1>1, <2>1, Zenon DEF Sides
  <1>3. restarts' \in [Sides -> 0 .. MaxRestarts] /\ restarts'[side] = restarts[side] + 1
    BY <1>2 DEF FaultTypes, Restart
  <1>4. Nobody[side] = 0
    BY DEF Nobody, Sides
  <1> QED
    BY <1>2, <1>3, <1>4 DEF FaultTypes

\* What is left of a line is a line.
LEMMA RestNotLonger ==
    ASSUME NEW q \in Seq(Wire), NEW k \in 1 .. Len(q) + 1
    PROVE  SubSeq(q, k, Len(q)) \in Seq(Wire)
  <1>1. Len(q) \in Nat /\ k \in Int /\ \A i \in k .. Len(q) : i \in 1 .. Len(q)
    BY LenProperties, SMT
  <1>2. \A i \in k .. Len(q) : q[i] \in Wire
    BY <1>1, ElementOfSeq
  <1> QED
    BY <1>1, <1>2, SubSeqProperties

\* Both restarts keep the types.
LEMMA RestartKeepsTypes ==
    ASSUME Types, DevRestart \/ HostRestart
    PROVE  Types' /\ ~NoRestart'
  <1> USE DEF Types
  <1>1. CASE DevRestart
    <2>1. FaultTypes' /\ ~NoRestart'
      BY <1>1, RestartType DEF DevRestart, Sides, NoRestart
    <2>2. DevTypes'
      BY <1>1, LastSentType DEF DevRestart, DevStart, DevTypes, Labels
    <2>3. LineTypes'
      BY <1>1, RestNotLonger DEF DevRestart, LineTypes
    <2> QED
      BY <1>1, <2>1, <2>2, <2>3 DEF DevRestart, HostTypes, SentTypes, TakenTypes
  <1>2. CASE HostRestart
    <2>1. FaultTypes' /\ ~NoRestart'
      BY <1>2, RestartType DEF HostRestart, Sides, NoRestart
    <2>2. HostTypes'
      BY <1>2, LastSentType DEF HostRestart, HostStart, HostTypes
    <2>3. LineTypes'
      BY <1>2, RestNotLonger DEF HostRestart, LineTypes
    <2> QED
      BY <1>2, <2>1, <2>2, <2>3 DEF HostRestart, devVars, DevTypes, SentTypes, TakenTypes
  <1> QED
    BY <1>1, <1>2

\* Every step keeps the types.
LEMMA StepKeepsTypes == Types /\ [Next]_vars => Types'
  <1> SUFFICES ASSUME Types, [Next]_vars PROVE Types'
    OBVIOUS
  <1>1. CASE UNCHANGED vars
    BY <1>1 DEF vars, devVars, Types, DevTypes, HostTypes, SentTypes, TakenTypes, LineTypes, FaultTypes
  <1> QED
    BY <1>1, SendKeepsTypes, DevReceiveKeepsTypes, HostReceiveKeepsTypes, HostSendKeepsTypes,
       RestartKeepsTypes DEF Next

----------------------------------------------------------------------------
(* Each direction is a FIFO                                                *)

\* The byte of data of platform_uart_send is not on the line yet.
Sending == pc \in {"last", "esc", "xor", "data"}

\* The bytes of the device's users that are on the line or beyond.
OnLine == IF Sending THEN Now - 1 ELSE Now

\* The service of the last byte that the device has put on the line.
DevOut == IF pc = "idle" THEN dev.sid_out ELSE arg.id

AtByte ==
    /\ Sending => Now \in Nat \ {0} /\ sent["dev"][Now] = [s |-> arg.id, b |-> arg.data]
    /\ pc \in {"esc", "xor", "mask"} => arg.data \in Special
    /\ pc = "data" => arg.data \notin Special

\* What was handed out is what was sent.
AreFirst(ts, us) ==
    /\ Len(ts) <= Len(us)
    /\ \A i \in 1 .. Len(ts) : ts[i].s = us[i].s /\ ts[i].b = us[i].b

ToDev ==
    Channel(toDev, dev.sid_in, dev.got_esc, sent["host"], Len(taken["dev"]),
            Len(sent["host"]), host.sid_out, FALSE)

ToHost ==
    Channel(toHost, host.sid_in, host.got_esc, sent["dev"], Len(taken["host"]),
            OnLine, DevOut, IF pc = "xor" THEN TRUE ELSE FALSE)

Fifo ==
    /\ host.up = TRUE
    /\ ToDev /\ ToHost /\ AtByte
    /\ AreFirst(taken["dev"], sent["host"])
    /\ AreFirst(taken["host"], sent["dev"])

MuxInv == Types /\ (NoRestart => Fifo)

\* The empty line between two sides that have not spoken yet.
LEMMA ChannelNew == Channel(<<>>, None, FALSE, <<>>, 0, 0, None, FALSE)
  <1>1. /\ <<>> \in Seq(Wire) /\ <<>> \in Sends /\ Len(<<>>) = 0
        /\ 1 .. Len(<<>>) = {} /\ 0 + 1 .. 0 = {} /\ 1 .. (Len(<<>>) + 1) - 1 = {}
        /\ Len(<<>>) + 1 = 1 /\ 0 \in Nat /\ 0 <= 0
    BY EmptySeq, SMT DEF Sends
  <1>2. IsSid(<<>>, None, Len(<<>>) + 1, None)
    BY <1>1 DEF IsSid
  <1>3. EscAt(<<>>, FALSE, Len(<<>>) + 1) <=> FALSE = TRUE
    BY <1>1 DEF EscAt
  <1>4. Numbered(<<>>, 0, 0)
    BY <1>1 DEF Numbered
  <1> QED
    BY <1>1, <1>2, <1>3, <1>4 DEF Channel

\* At the start both lines are empty.
LEMMA FifoInit == Init => Fifo
  <1> SUFFICES ASSUME Init PROVE Fifo
    OBVIOUS
  <1>1. Len(<<>>) = 0 /\ Len(<<>>) <= Len(<<>>) /\ 1 .. Len(<<>>) = {}
    BY EmptySeq, SMT
  <1>2. ToDev
    BY <1>1, ChannelNew DEF Init, ToDev, DevStart, HostStart
  <1>3. OnLine = 0 /\ DevOut = None /\ pc # "xor" /\ ~Sending
    BY <1>1 DEF Init, OnLine, Now, Sending, DevOut, DevStart
  <1>4. ToHost
    BY <1>1, <1>3, ChannelNew DEF Init, ToHost, HostStart
  <1> QED
    BY <1>1, <1>2, <1>3, <1>4 DEF Init, Fifo, AtByte, AreFirst, HostStart

\* The user of one side gives it a byte: nothing that was taken changes.
LEMMA AppendedFirst ==
    ASSUME NEW us \in Sends, NEW ts \in Takes, AreFirst(ts, us),
           NEW e \in [s : Services, b : Payload]
    PROVE  /\ AreFirst(ts, Append(us, e))
           /\ Append(us, e) \in Sends /\ Len(Append(us, e)) = Len(us) + 1
           /\ Append(us, e)[Len(us) + 1] = e
  <1>1. /\ Append(us, e) \in Sends /\ Len(Append(us, e)) = Len(us) + 1
        /\ \A i \in 1 .. Len(us) : Append(us, e)[i] = us[i]
        /\ Append(us, e)[Len(us) + 1] = e
        /\ Len(us) \in Nat /\ Len(ts) \in Nat
    BY AppendProperties, LenProperties DEF Sends, Takes
  <1>2. Len(ts) <= Len(us) + 1 /\ \A i \in 1 .. Len(ts) : i \in 1 .. Len(us)
    BY <1>1, SMT DEF AreFirst
  <1> QED
    BY <1>1, <1>2 DEF AreFirst

\* The next byte is handed out.
LEMMA TakenFirst ==
    ASSUME NEW us \in Sends, NEW ts \in Takes, AreFirst(ts, us), Len(ts) + 1 \in 1 .. Len(us),
           NEW t \in [s : Services, b : Bytes, n : 0 .. MaxSends],
           t.s = us[Len(ts) + 1].s, t.b = us[Len(ts) + 1].b
    PROVE  AreFirst(Append(ts, t), us) /\ Len(Append(ts, t)) = Len(ts) + 1
  <1>1. /\ Len(Append(ts, t)) = Len(ts) + 1
        /\ \A i \in 1 .. Len(ts) : Append(ts, t)[i] = ts[i]
        /\ Append(ts, t)[Len(ts) + 1] = t
        /\ Len(us) \in Nat /\ Len(ts) \in Nat
    BY AppendProperties, LenProperties DEF Sends, Takes
  <1>2. /\ Len(ts) + 1 <= Len(us)
        /\ \A i \in 1 .. Len(ts) + 1 : i \in 1 .. Len(ts) \/ i = Len(ts) + 1
    BY <1>1, SMT
  <1> QED
    BY <1>1, <1>2 DEF AreFirst

\* The device sends, statement by statement.
LEMMA SendKeeps ==
    ASSUME Types, Fifo, platform_uart_send
    PROVE  Fifo'
  <1> USE DEF Types
  <1>0. /\ sent["dev"] \in Sends /\ taken["host"] \in Takes /\ Len(sent["dev"]) \in Nat
        /\ DOMAIN sent = Sides
    BY LenProperties DEF SentTypes, TakenTypes, Sides, Sends
  <1>1. UNCHANGED <<host, toDev, taken>> /\ sent'["host"] = sent["host"]
        /\ dev'.sid_in = dev.sid_in /\ dev'.got_esc = dev.got_esc
    BY <1>0 DEF platform_uart_send, SendSid, SetLast, SendEsc, SendXored, SendData, SetMask,
                SetOut, Transmit, DevTypes, Sides
  <1>2. ToDev' /\ host'.up = TRUE /\ AreFirst(taken'["dev"], sent'["host"])
    BY <1>1 DEF Fifo, ToDev
  <1>3. ASSUME NEW id \in Services, NEW data \in Payload, SendSid(id, data)
        PROVE  ToHost' /\ AtByte' /\ AreFirst(taken'["host"], sent'["dev"])
    <2> DEFINE e == [s |-> id, b |-> data]
    <2>1. /\ pc = "idle" /\ pc' = "last" /\ arg'.id = id /\ arg'.data = data
          /\ sent'["dev"] = Append(sent["dev"], e)
          /\ toHost' = IF id = dev.sid_out THEN toHost ELSE Append(toHost, Control(id))
      BY <1>0, <1>3 DEF SendSid, Sides
    <2>2. /\ AreFirst(taken["host"], sent'["dev"]) /\ sent'["dev"] \in Sends
          /\ Len(sent'["dev"]) = Len(sent["dev"]) + 1
          /\ sent'["dev"][Len(sent["dev"]) + 1] = e
      BY <1>0, <2>1, AppendedFirst DEF Fifo
    <2>3. Now' = Now + 1 /\ Now' - 1 = Now /\ OnLine = Now /\ OnLine' = Now /\ Now' \in Nat \ {0}
      BY <1>0, <2>1, <2>2, SMT DEF Now, OnLine, Sending
    <2>4. Channel(toHost, host.sid_in, host.got_esc, sent'["dev"], Len(taken["host"]),
                  Now, dev.sid_out, FALSE)
      <3>1. Channel(toHost, host.sid_in, host.got_esc, sent["dev"], Len(taken["host"]),
                    Now, dev.sid_out, FALSE)
        BY <2>1, <2>3 DEF Fifo, ToHost, DevOut
      <3> QED
        BY <2>1, <3>1, MoreToSend
    <2>5. Channel(toHost', host.sid_in, host.got_esc, sent'["dev"], Len(taken["host"]),
                  Now, id, FALSE)
      <3>1. CASE id = dev.sid_out
        BY <2>1, <2>4, <3>1
      <3>2. CASE id # dev.sid_out
        BY <2>1, <2>4, <3>2, SendService
      <3> QED
        BY <3>1, <3>2
    <2>6. ToHost'
      BY <1>1, <2>1, <2>3, <2>5 DEF ToHost, DevOut
    <2>7. AtByte'
      BY <1>0, <2>1, <2>2, <2>3 DEF AtByte, Now
    <2> QED
      BY <1>1, <2>2, <2>6, <2>7
  <1>4. ASSUME UNCHANGED <<toHost, sent>>, OnLine' = OnLine, DevOut' = DevOut, AtByte',
               pc # "xor", pc' # "xor"
        PROVE  ToHost' /\ AtByte' /\ AreFirst(taken'["host"], sent'["dev"])
    BY <1>1, <1>4 DEF Fifo, ToHost
  <1>5. CASE SetLast
    <2>1. /\ pc = "last" /\ pc' = IF arg.data \in Special THEN "esc" ELSE "data"
          /\ UNCHANGED <<arg, toHost, sent>>
      BY <1>5 DEF SetLast
    <2>2. Sending /\ Sending' /\ Now' = Now /\ pc' # "xor" /\ pc' # "idle" /\ pc' # "mask"
      BY <2>1 DEF Sending, Now
    <2>3. OnLine' = OnLine /\ DevOut' = DevOut
      BY <2>1, <2>2 DEF OnLine, DevOut
    <2>4. AtByte'
      BY <2>1, <2>2 DEF AtByte, Fifo
    <2> QED
      BY <1>2, <1>4, <2>1, <2>2, <2>3, <2>4 DEF Fifo
  <1>6. CASE SetMask
    <2>1. pc = "mask" /\ pc' = "out" /\ UNCHANGED <<arg, toHost, sent>>
      BY <1>6 DEF SetMask
    <2>2. ~Sending /\ ~Sending' /\ Now' = Now
      BY <2>1 DEF Sending, Now
    <2>3. OnLine' = OnLine /\ DevOut' = DevOut
      BY <2>1, <2>2 DEF OnLine, DevOut
    <2>4. AtByte'
      BY <2>1, <2>2 DEF AtByte
    <2> QED
      BY <1>2, <1>4, <2>1, <2>3, <2>4 DEF Fifo
  <1>7. CASE SetOut
    <2>1. dev'.sid_out = arg.id /\ pc = "out" /\ pc' = "idle" /\ UNCHANGED <<toHost, sent>>
      BY <1>7 DEF SetOut, DevTypes
    <2>2. ~Sending /\ ~Sending' /\ Now' = Now
      BY <2>1 DEF Sending, Now
    <2>3. OnLine' = OnLine /\ DevOut' = DevOut
      BY <2>1, <2>2 DEF OnLine, DevOut
    <2>4. AtByte'
      BY <2>1, <2>2 DEF AtByte
    <2> QED
      BY <1>2, <1>4, <2>1, <2>3, <2>4 DEF Fifo
  <1>8. CASE SendEsc
    <2>1. /\ pc = "esc" /\ pc' = "xor" /\ toHost' = Append(toHost, Control(ESC))
          /\ UNCHANGED <<arg, dev, sent>>
      BY <1>8 DEF SendEsc, Transmit
    <2>2. Sending /\ Sending' /\ Now' = Now
      BY <2>1 DEF Sending, Now
    <2>3. OnLine' = OnLine /\ DevOut' = DevOut
      BY <2>1, <2>2 DEF OnLine, DevOut
    <2>4. Channel(toHost, host.sid_in, host.got_esc, sent["dev"], Len(taken["host"]),
                  OnLine, DevOut, FALSE)
      BY <2>1 DEF Fifo, ToHost
    <2>5. Channel(toHost', host.sid_in, host.got_esc, sent["dev"], Len(taken["host"]),
                  OnLine, DevOut, TRUE)
      BY <2>1, <2>4, SendEscape
    <2>6. ToHost'
      BY <1>1, <2>1, <2>3, <2>5 DEF ToHost
    <2>7. AtByte'
      BY <2>1, <2>2 DEF AtByte, Fifo
    <2> QED
      BY <1>1, <1>2, <2>1, <2>6, <2>7 DEF Fifo
  <1>9. ASSUME NEW open \in BOOLEAN, NEW w, pc = IF open THEN "xor" ELSE "data",
               w = [b |-> IF open THEN Xored(arg.data) ELSE arg.data, n |-> Now],
               NEW next \in {"mask", "out"}, next = "mask" => open,
               toHost' = Append(toHost, w), pc' = next, UNCHANGED <<arg, dev, sent>>
        PROVE  ToHost' /\ AtByte' /\ AreFirst(taken'["host"], sent'["dev"])
    <2>1. pc # "idle" /\ arg \in Args /\ Sending /\ Sending' = FALSE /\ pc' # "idle"
          /\ pc \in {"xor", "data"} /\ (pc = "xor" <=> open)
      BY <1>9 DEF DevTypes, Sending
    <2>2. /\ Now \in Nat \ {0} /\ sent["dev"][Now] = [s |-> arg.id, b |-> arg.data]
          /\ open <=> arg.data \in Special
      BY <2>1 DEF Fifo, AtByte, Sending
    <2>3. OnLine = Now - 1 /\ OnLine' = Now /\ OnLine + 1 = Now /\ Now <= Len(sent["dev"])
      BY <1>9, <2>1, <2>2, SMT DEF OnLine, Now
    <2>4. Now \in 0 .. MaxSends
      <3>1. Len(sent["dev"]) <= MaxSends /\ Len(sent["dev"]) \in Nat
        BY <1>0 DEF SentTypes, Sides
      <3>2. \A n \in Nat : n <= MaxSends => n \in 0 .. MaxSends
        BY SpecialBytes, SMT
      <3> QED
        BY <3>1, <3>2 DEF Now
    <2>5. w \in Wire /\ w.n = Now /\ w.b = IF open THEN Xored(arg.data) ELSE arg.data
      BY <1>9, <2>1, <2>4, SpecialBytes DEF Wire, Args
    <2>6. Channel(toHost, host.sid_in, host.got_esc, sent["dev"], Len(taken["host"]),
                  OnLine, arg.id, open)
      <3>1. DevOut = arg.id
        BY <2>1 DEF DevOut
      <3>2. CASE open
        BY <2>1, <3>1, <3>2 DEF Fifo, ToHost
      <3>3. CASE ~open
        BY <2>1, <3>1, <3>3 DEF Fifo, ToHost
      <3> QED
        BY <3>2, <3>3
    <2>7. Channel(toHost', host.sid_in, host.got_esc, sent["dev"], Len(taken["host"]),
                  Now, arg.id, FALSE)
      <3>1. /\ sent["dev"][OnLine + 1].s = arg.id /\ sent["dev"][OnLine + 1].b = arg.data
            /\ OnLine + 1 <= Len(sent["dev"]) /\ w.n = OnLine + 1
        BY <2>2, <2>3, <2>5
      <3>2. Channel(Append(toHost, w), host.sid_in, host.got_esc, sent["dev"],
                    Len(taken["host"]), OnLine + 1, arg.id, FALSE)
        BY <2>2, <2>5, <2>6, <3>1, SendNext
      <3> QED
        BY <1>9, <2>3, <3>2
    <2>8. DevOut' = arg.id /\ pc' # "xor"
      BY <1>9, <2>1 DEF DevOut
    <2>9. ToHost'
      BY <1>1, <1>9, <2>3, <2>7, <2>8 DEF ToHost
    <2>10. AtByte'
      BY <1>9, <2>1, <2>2 DEF AtByte, Sending
    <2> QED
      BY <1>1, <1>9, <2>9, <2>10 DEF Fifo
  <1>10. CASE SendXored
    <2> DEFINE w == [b |-> IF TRUE THEN Xored(arg.data) ELSE arg.data, n |-> Now]
    <2>1. /\ "mask" \in {"mask", "out"}
          /\ pc = IF TRUE THEN "xor" ELSE "data"
          /\ toHost' = Append(toHost, w) /\ pc' = "mask" /\ UNCHANGED <<arg, dev, sent>>
      BY <1>10 DEF SendXored, Transmit
    <2> HIDE DEF w
    <2>2. w = [b |-> IF TRUE THEN Xored(arg.data) ELSE arg.data, n |-> Now]
      BY DEF w
    <2> QED
      BY <1>2, <1>9, <2>1, <2>2 DEF Fifo
  <1>11. CASE SendData
    <2> DEFINE w == [b |-> IF FALSE THEN Xored(arg.data) ELSE arg.data, n |-> Now]
    <2>1. /\ "out" \in {"mask", "out"}
          /\ pc = IF FALSE THEN "xor" ELSE "data"
          /\ toHost' = Append(toHost, w) /\ pc' = "out" /\ UNCHANGED <<arg, dev, sent>>
      BY <1>11 DEF SendData, Transmit
    <2> HIDE DEF w
    <2>2. w = [b |-> IF FALSE THEN Xored(arg.data) ELSE arg.data, n |-> Now]
      BY DEF w
    <2> QED
      BY <1>2, <1>9, <2>1, <2>2 DEF Fifo
  <1> QED
    BY <1>2, <1>3, <1>5, <1>6, <1>7, <1>8, <1>10, <1>11 DEF platform_uart_send, Fifo

\* The receive handler of the device hands out the next byte that was sent, and
\* is never asked to repeat.
LEMMA DevReceiveKeeps ==
    ASSUME Types, Fifo, cmn_rx_handler
    PROVE  Fifo'
  <1> USE DEF Types
  <1> DEFINE w == Head(toDev)
             S == sent["host"]
             done == Len(taken["dev"])
  <1>1. /\ toDev # <<>> /\ toDev' = Tail(toDev) /\ UNCHANGED <<pc, arg, host, sent, restarts>>
        /\ DevRxEsc(w) \/ DevRxSid(w) \/ DevRxForce(w) \/ DevRxUnknown(w) \/ DevRxData(w)
    BY DEF cmn_rx_handler
  <1>2. /\ Channel(toDev, dev.sid_in, dev.got_esc, S, done, Len(S), host.sid_out, FALSE)
        /\ dev.got_esc \in BOOLEAN /\ S \in Sends /\ taken["dev"] \in Takes /\ w \in Wire
    <2>1. w \in Wire
      BY <1>1, HeadTailProperties DEF LineTypes
    <2> QED
      BY <2>1 DEF Fifo, ToDev, DevTypes, SentTypes, TakenTypes, Sides
  <1> HIDE DEF w, S, done
  <1>3. ASSUME w.b \in Special
        PROVE  /\ w.b \in Services \cup {ESC} /\ dev.got_esc = FALSE
               /\ w.b \in Services /\ dev'.got_esc = FALSE =>
                    Channel(toDev', w.b, dev'.got_esc, S, done, Len(S), host.sid_out, FALSE)
               /\ w.b = ESC /\ dev'.got_esc = TRUE =>
                    Channel(toDev', dev.sid_in, dev'.got_esc, S, done, Len(S), host.sid_out, FALSE)
    <2> DEFINE o == FALSE
               e == dev'.got_esc
    <2>1. /\ w = Head(toDev) /\ toDev # <<>> /\ toDev' = Tail(toDev)
          /\ Channel(toDev, dev.sid_in, dev.got_esc, S, done, Len(S), host.sid_out, o)
      BY <1>1, <1>2 DEF w
    <2> HIDE DEF o, e
    <2>2. w.b \in Services \cup {ESC} /\ dev.got_esc = FALSE
      BY <1>2, <1>3, <2>1, ReadControl
    <2>3. w.b \in Services /\ e = FALSE =>
            Channel(Tail(toDev), w.b, e, S, done, Len(S), host.sid_out, o)
      BY <1>2, <1>3, <2>1, ReadService
    <2>4. w.b = ESC /\ e = TRUE =>
            Channel(Tail(toDev), dev.sid_in, e, S, done, Len(S), host.sid_out, o)
      BY <1>2, <1>3, <2>1, ReadEscape
    <2> QED
      BY <2>1, <2>2, <2>3, <2>4 DEF o, e
  <1>4. ASSUME w.b \notin Services \cup {ESC}
        PROVE  /\ done + 1 \in 1 .. Len(S)
               /\ dev.sid_in = S[done + 1].s /\ dev.sid_in \in Services
               /\ S[done + 1].b = IF dev.got_esc THEN Xored(w.b) ELSE w.b
               /\ dev.got_esc => S[done + 1].b \in Special
               /\ dev'.got_esc = FALSE =>
                    Channel(toDev', dev.sid_in, dev'.got_esc, S, done + 1, Len(S),
                            host.sid_out, FALSE)
    <2> DEFINE o == FALSE
               e == dev'.got_esc
    <2>1. /\ w = Head(toDev) /\ toDev # <<>> /\ toDev' = Tail(toDev)
          /\ Channel(toDev, dev.sid_in, dev.got_esc, S, done, Len(S), host.sid_out, o)
      BY <1>1, <1>2 DEF w
    <2> HIDE DEF o, e
    <2>2. /\ done + 1 \in 1 .. Len(S)
          /\ dev.sid_in = S[done + 1].s /\ dev.sid_in \in Services
          /\ S[done + 1].b = IF dev.got_esc THEN Xored(w.b) ELSE w.b
          /\ dev.got_esc => S[done + 1].b \in Special
      BY <1>2, <1>4, <2>1, ReadData
    <2>3. e = FALSE => Channel(Tail(toDev), dev.sid_in, e, S, done + 1, Len(S), host.sid_out, o)
      BY <1>2, <1>4, <2>1, DataRead
    <2> QED
      BY <2>1, <2>2, <2>3 DEF o, e
  <1>5. ASSUME UNCHANGED toHost, dev'.sid_out = dev.sid_out, taken'["host"] = taken["host"],
               ToDev', AreFirst(taken'["dev"], sent'["host"])
        PROVE  Fifo'
    <2>1. OnLine' = OnLine /\ DevOut' = DevOut
      BY <1>1, <1>5 DEF OnLine, DevOut, Sending, Now
    <2>2. ToHost'
      BY <1>1, <1>5, <2>1 DEF Fifo, ToHost
    <2>3. AtByte'
      BY <1>1 DEF Fifo, AtByte, Sending, Now
    <2> QED
      BY <1>1, <1>5, <2>2, <2>3 DEF Fifo
  <1>6. CASE DevRxEsc(w)
    <2>1. /\ w.b = ESC /\ dev'.sid_in = dev.sid_in /\ dev'.sid_out = dev.sid_out
          /\ dev'.got_esc = TRUE /\ UNCHANGED <<toHost, taken>>
      BY <1>6 DEF DevRxEsc, DevTypes
    <2>2. ToDev'
      BY <1>1, <1>3, <2>1, SpecialBytes DEF ToDev, S, done
    <2> QED
      BY <1>1, <1>5, <2>1, <2>2 DEF Fifo
  <1>7. CASE DevRxSid(w)
    <2>1. /\ w.b \in Services /\ dev'.sid_in = w.b /\ dev'.sid_out = dev.sid_out
          /\ dev'.got_esc = dev.got_esc /\ UNCHANGED <<toHost, taken>>
      BY <1>7 DEF DevRxSid, DevTypes
    <2>2. w.b \in Special
      BY <2>1, SpecialBytes
    <2>3. ToDev'
      BY <1>1, <1>3, <2>1, <2>2 DEF ToDev, S, done
    <2> QED
      BY <1>1, <1>5, <2>1, <2>3 DEF Fifo
  <1>8. ~DevRxForce(w)
    BY <1>3, SpecialBytes DEF DevRxForce
  <1>9. ~DevRxUnknown(w)
    BY <1>4, SpecialBytes DEF DevRxUnknown, DevData
  <1>10. CASE DevRxData(w)
    <2> DEFINE t == Got(dev, w)
    <2>1. /\ w.b \notin Services \cup {ESC} /\ dev'.sid_in = dev.sid_in
          /\ dev'.sid_out = dev.sid_out /\ dev'.got_esc = FALSE /\ UNCHANGED toHost
          /\ taken'["host"] = taken["host"] /\ taken'["dev"] = Append(taken["dev"], t)
      BY <1>10 DEF DevRxData, DevData, ClearEsc, DevTypes, TakenTypes, Sides
    <2>2. t \in [s : Services, b : Bytes, n : 0 .. MaxSends]
      BY <1>2, <1>4, <2>1, GotType
    <2>3. t.s = S[done + 1].s /\ t.b = S[done + 1].b
      BY <1>4, <2>1 DEF Got
    <2> HIDE DEF t
    <2>4. AreFirst(taken'["dev"], S) /\ Len(taken'["dev"]) = done + 1
      BY <1>2, <1>4, <2>1, <2>2, <2>3, TakenFirst DEF Fifo, S, done
    <2>5. ToDev'
      BY <1>1, <1>4, <2>1, <2>4 DEF ToDev, S
    <2> QED
      BY <1>1, <1>5, <2>1, <2>4, <2>5 DEF S
  <1> QED
    BY <1>1, <1>6, <1>7, <1>8, <1>9, <1>10

\* The host hands out the next byte that was sent, is never asked to repeat
\* and finds no protocol error.
LEMMA HostReceiveKeeps ==
    ASSUME Types, Fifo, HostReceive
    PROVE  Fifo'
  <1> USE DEF Types
  <1> DEFINE w == Head(toHost)
             S == sent["dev"]
             done == Len(taken["host"])
             open == IF pc = "xor" THEN TRUE ELSE FALSE
  <1>1. /\ toHost # <<>> /\ toHost' = Tail(toHost)
        /\ UNCHANGED <<dev, pc, arg, sent, restarts, raced>>
        /\ \/ HostRxEsc(w) \/ HostRxSid(w) \/ HostRxForce(w) \/ HostExit(w)
           \/ HostRxUnknown(w) \/ HostRxData(w)
    BY DEF HostReceive, devVars
  <1>2. /\ Channel(toHost, host.sid_in, host.got_esc, S, done, OnLine, DevOut, open)
        /\ host.got_esc \in BOOLEAN /\ S \in Sends /\ taken["host"] \in Takes /\ w \in Wire
    <2>1. w \in Wire
      BY <1>1, HeadTailProperties DEF LineTypes
    <2> QED
      BY <2>1 DEF Fifo, ToHost, HostTypes, SentTypes, TakenTypes, Sides
  <1> HIDE DEF w, S, done
  <1>3. ASSUME w.b \in Special
        PROVE  /\ w.b \in Services \cup {ESC} /\ host.got_esc = FALSE
               /\ w.b \in Services /\ host'.got_esc = FALSE =>
                    Channel(toHost', w.b, host'.got_esc, S, done, OnLine, DevOut, open)
               /\ w.b = ESC /\ host'.got_esc = TRUE =>
                    Channel(toHost', host.sid_in, host'.got_esc, S, done, OnLine, DevOut, open)
    <2> DEFINE o == open
               e == host'.got_esc
    <2>1. /\ w = Head(toHost) /\ toHost # <<>> /\ toHost' = Tail(toHost)
          /\ Channel(toHost, host.sid_in, host.got_esc, S, done, OnLine, DevOut, o)
      BY <1>1, <1>2 DEF w
    <2> HIDE DEF o, e
    <2>2. w.b \in Services \cup {ESC} /\ host.got_esc = FALSE
      BY <1>2, <1>3, <2>1, ReadControl
    <2>3. w.b \in Services /\ e = FALSE => Channel(Tail(toHost), w.b, e, S, done, OnLine, DevOut, o)
      BY <1>2, <1>3, <2>1, ReadService
    <2>4. w.b = ESC /\ e = TRUE => Channel(Tail(toHost), host.sid_in, e, S, done, OnLine, DevOut, o)
      BY <1>2, <1>3, <2>1, ReadEscape
    <2> QED
      BY <2>1, <2>2, <2>3, <2>4 DEF o, e
  <1>4. ASSUME w.b \notin Services \cup {ESC}
        PROVE  /\ done + 1 \in 1 .. Len(S)
               /\ host.sid_in = S[done + 1].s /\ host.sid_in \in Services
               /\ S[done + 1].b = IF host.got_esc THEN Xored(w.b) ELSE w.b
               /\ host.got_esc => S[done + 1].b \in Special
               /\ host'.got_esc = FALSE =>
                    Channel(toHost', host.sid_in, host'.got_esc, S, done + 1, OnLine, DevOut, open)
    <2> DEFINE o == open
               e == host'.got_esc
    <2>1. /\ w = Head(toHost) /\ toHost # <<>> /\ toHost' = Tail(toHost)
          /\ Channel(toHost, host.sid_in, host.got_esc, S, done, OnLine, DevOut, o)
      BY <1>1, <1>2 DEF w
    <2> HIDE DEF o, e
    <2>2. /\ done + 1 \in 1 .. Len(S)
          /\ host.sid_in = S[done + 1].s /\ host.sid_in \in Services
          /\ S[done + 1].b = IF host.got_esc THEN Xored(w.b) ELSE w.b
          /\ host.got_esc => S[done + 1].b \in Special
      BY <1>2, <1>4, <2>1, ReadData
    <2>3. e = FALSE => Channel(Tail(toHost), host.sid_in, e, S, done + 1, OnLine, DevOut, o)
      BY <1>2, <1>4, <2>1, DataRead
    <2> QED
      BY <2>1, <2>2, <2>3 DEF o, e
  <1>5. OnLine' = OnLine /\ DevOut' = DevOut /\ open' = open
    BY <1>1 DEF OnLine, DevOut, Sending, Now
  <1>6. ASSUME UNCHANGED toDev, host'.sid_out = host.sid_out, host'.up = host.up,
               taken'["dev"] = taken["dev"], ToHost', AreFirst(taken'["host"], sent'["dev"])
        PROVE  Fifo'
    <2>1. ToDev'
      BY <1>1, <1>6 DEF Fifo, ToDev
    <2>2. AtByte'
      BY <1>1 DEF Fifo, AtByte, Sending, Now
    <2> QED
      BY <1>1, <1>6, <2>1, <2>2 DEF Fifo
  <1>7. CASE HostRxEsc(w)
    <2>1. /\ w.b = ESC /\ host'.sid_in = host.sid_in /\ host'.sid_out = host.sid_out
          /\ host'.got_esc = TRUE /\ host'.up = host.up /\ UNCHANGED <<toDev, taken>>
      BY <1>7 DEF HostRxEsc, HostTypes
    <2>2. ToHost'
      BY <1>1, <1>3, <1>5, <2>1, SpecialBytes DEF ToHost, S, done
    <2> QED
      BY <1>1, <1>6, <2>1, <2>2 DEF Fifo
  <1>8. CASE HostRxSid(w)
    <2>1. /\ w.b \in Services /\ host'.sid_in = w.b /\ host'.sid_out = host.sid_out
          /\ host'.got_esc = host.got_esc /\ host'.up = host.up /\ UNCHANGED <<toDev, taken>>
      BY <1>8 DEF HostRxSid, HostTypes
    <2>2. w.b \in Special
      BY <2>1, SpecialBytes
    <2>3. ToHost'
      BY <1>1, <1>3, <1>5, <2>1, <2>2 DEF ToHost, S, done
    <2> QED
      BY <1>1, <1>6, <2>1, <2>3 DEF Fifo
  <1>9. ~HostRxForce(w)
    BY <1>3, SpecialBytes DEF HostRxForce
  <1>10. ~HostExit(w)
    <2>1. w.b # FORCE
      BY <1>3, SpecialBytes
    <2>2. ~BadEscape(w)
      BY <1>4, SpecialBytes DEF BadEscape
    <2> QED
      BY <2>1, <2>2 DEF HostExit
  <1>11. ~HostRxUnknown(w)
    BY <1>4, SpecialBytes DEF HostRxUnknown, HostData
  <1>12. CASE HostRxData(w)
    <2> DEFINE t == Got(host, w)
    <2>1. /\ w.b \notin Services \cup {ESC} /\ host'.sid_in = host.sid_in
          /\ host'.sid_out = host.sid_out /\ host'.got_esc = FALSE /\ host'.up = host.up
          /\ UNCHANGED toDev /\ taken'["dev"] = taken["dev"]
          /\ taken'["host"] = Append(taken["host"], t)
      BY <1>12, SpecialBytes DEF HostRxData, HostData, ClearEsc, HostTypes, TakenTypes, Sides
    <2>2. t \in [s : Services, b : Bytes, n : 0 .. MaxSends]
      BY <1>2, <1>4, <2>1, GotType
    <2>3. t.s = S[done + 1].s /\ t.b = S[done + 1].b
      BY <1>4, <2>1 DEF Got
    <2> HIDE DEF t
    <2>4. AreFirst(taken'["host"], S) /\ Len(taken'["host"]) = done + 1
      BY <1>2, <1>4, <2>1, <2>2, <2>3, TakenFirst DEF Fifo, S, done
    <2>5. ToHost'
      BY <1>1, <1>4, <1>5, <2>1, <2>4 DEF ToHost, S
    <2> QED
      BY <1>1, <1>6, <2>1, <2>4, <2>5 DEF S
  <1> QED
    BY <1>1, <1>7, <1>8, <1>9, <1>10, <1>11, <1>12

\* The bytes of a send are put on the line one behind the other.
LEMMA OneBehindTheOther ==
    ASSUME NEW q \in Seq(Wire), NEW v \in Wire, NEW w \in Wire
    PROVE  /\ q \o <<>> = q /\ q \o <<w>> = Append(q, w)
           /\ q \o <<v, w>> = Append(Append(q, v), w)
  <1>1. q \o <<>> = q /\ q \o <<w>> = Append(q, w)
    BY ConcatEmptySeq, AppendIsConcat
  <1>2. Append(Append(q, v), w) = (q \o <<v>>) \o <<w>>
    BY AppendIsConcat, AppendProperties
  <1>3. (q \o <<v>>) \o <<w>> = q \o (<<v>> \o <<w>>)
    BY ConcatAssociative
  <1>4. <<v>> \o <<w>> = <<v, w>>
    <2>1. <<v>> \o <<w>> = Append(<<v>>, w)
      BY AppendIsConcat
    <2>2. /\ <<v>> \in Seq(Wire) /\ Len(<<v>>) = 1 /\ <<v>>[1] = v
          /\ <<v, w>> \in Seq(Wire) /\ Len(<<v, w>>) = 2 /\ <<v, w>>[1] = v /\ <<v, w>>[2] = w
      OBVIOUS
    <2>3. /\ Append(<<v>>, w) \in Seq(Wire) /\ Len(Append(<<v>>, w)) = 2
          /\ Append(<<v>>, w)[1] = v /\ Append(<<v>>, w)[2] = w
      BY <2>2, AppendProperties
    <2>4. Append(<<v>>, w) = <<v, w>>
      <3>1. \A i \in 1 .. 2 : i = 1 \/ i = 2
        OBVIOUS
      <3> QED
        BY <2>2, <2>3, <3>1, SeqEqual
    <2> QED
      BY <2>1, <2>4
  <1> QED
    BY <1>1, <1>2, <1>3, <1>4

\* The host sends the service, if it is not the last one, the escape, if the
\* byte needs one, and the byte.
LEMMA HostSendKeeps ==
    ASSUME Types, Fifo, NEW id \in Services, NEW c \in Payload, HostSend(id, c)
    PROVE  Fifo'
  <1> USE DEF Types
  <1> DEFINE e == [s |-> id, b |-> c]
             S == sent["host"]
             T == Append(S, e)
             first == IF SidNeeded(id) THEN <<Control(id)>> ELSE <<>>
             code == Encoded(c, Len(T))
             done == Len(taken["dev"])
             q == toDev \o first
  <1>1. /\ sent' = [sent EXCEPT !["host"] = Append(@, e)]
        /\ UNCHANGED <<dev, pc, arg, toHost, taken, restarts, raced>>
        /\ sent'["host"] = T /\ sent'["dev"] = sent["dev"]
        /\ toDev' = q \o code
        /\ host'.sid_out = id /\ host'.sid_in = host.sid_in /\ host'.got_esc = host.got_esc
        /\ host'.up = host.up
    <2>1. sent' = [sent EXCEPT !["host"] = Append(@, e)]
      BY DEF HostSend
    <2>2. sent'["host"] = T /\ sent'["dev"] = sent["dev"]
      BY <2>1 DEF SentTypes, Sides
    <2> QED
      BY <2>1, <2>2 DEF HostSend, devVars, HostTypes
  <1>2. e \in [s : Services, b : Payload] /\ S \in Sends /\ taken["dev"] \in Takes
    BY DEF SentTypes, TakenTypes, Sides
  <1>3. /\ AreFirst(taken["dev"], T) /\ T \in Sends /\ Len(T) = Len(S) + 1 /\ T[Len(S) + 1] = e
        /\ Len(S) + 1 <= Len(T)
    <2>1. /\ AreFirst(taken["dev"], T) /\ T \in Sends /\ Len(T) = Len(S) + 1
          /\ T[Len(S) + 1] = e
      BY <1>2, AppendedFirst DEF Fifo
    <2> HIDE DEF T
    <2>2. Len(S) \in Nat
      BY <1>2, LenProperties DEF Sends
    <2> QED
      BY <2>1, <2>2, SMT
  <1>4. Len(T) \in 0 .. MaxSends
    BY <1>1, UserSends DEF HostSend, Sides
  <1> HIDE DEF T
  <1>5. Channel(toDev, dev.sid_in, dev.got_esc, T, done, Len(S), host.sid_out, FALSE)
    BY <1>2, MoreToSend DEF Fifo, ToDev, T
  <1>6. Channel(q, dev.sid_in, dev.got_esc, T, done, Len(S), id, FALSE) /\ q \in Seq(Wire)
    <2>1. toDev \in Seq(Wire) /\ Control(id) \in Wire
      BY SpecialBytes DEF LineTypes, Control, Wire
    <2>2. CASE SidNeeded(id)
      <3>1. q = Append(toDev, Control(id))
        BY <2>1, <2>2, OneBehindTheOther
      <3>2. Channel(q, dev.sid_in, dev.got_esc, T, done, Len(S), id, FALSE)
        BY <1>5, <3>1, SendService
      <3> QED
        BY <3>2 DEF Channel
    <2>3. CASE ~SidNeeded(id)
      <3>1. q = toDev /\ id = host.sid_out
        BY <2>1, <2>3, OneBehindTheOther DEF SidNeeded
      <3> QED
        BY <1>5, <2>1, <3>1
    <2> QED
      BY <2>2, <2>3
  <1> HIDE DEF q
  <1>7. c \in Bytes /\ Xored(c) \in Bytes /\ Control(ESC) \in Wire
    BY SpecialBytes DEF Control, Wire
  <1>8. Channel(toDev', dev.sid_in, dev.got_esc, T, done, Len(S) + 1, id, FALSE)
    <2>1. T[Len(S) + 1].s = id /\ T[Len(S) + 1].b = c
      BY <1>3
    <2>2. CASE c \in Special
      <3> DEFINE w == [b |-> Xored(c), n |-> Len(T)]
                 r == Append(q, Control(ESC))
      <3>1. w \in Wire /\ w.n = Len(S) + 1 /\ w.b = Xored(c)
        BY <1>3, <1>4, <1>7 DEF Wire
      <3>2. code = <<Control(ESC), w>>
        BY <2>2 DEF Encoded, Escaped
      <3> HIDE DEF w
      <3>3. toDev' = Append(r, w)
        <4>1. q \o <<Control(ESC), w>> = Append(Append(q, Control(ESC)), w)
          BY <1>6, <1>7, <3>1, OneBehindTheOther
        <4> QED
          BY <1>1, <3>2, <4>1
      <3>4. Channel(r, dev.sid_in, dev.got_esc, T, done, Len(S), id, TRUE)
        BY <1>6, SendEscape
      <3> HIDE DEF r
      <3>5. Channel(Append(r, w), dev.sid_in, dev.got_esc, T, done, Len(S) + 1, id, FALSE)
        BY <1>3, <2>1, <2>2, <3>1, <3>4, SendNext
      <3> QED
        BY <3>3, <3>5
    <2>3. CASE c \notin Special
      <3> DEFINE w == [b |-> c, n |-> Len(T)]
      <3>1. w \in Wire /\ w.n = Len(S) + 1 /\ w.b = c
        BY <1>3, <1>4, <1>7 DEF Wire
      <3>2. code = <<w>>
        BY <2>3 DEF Encoded, Plain
      <3> HIDE DEF w
      <3>3. toDev' = Append(q, w)
        BY <1>1, <1>6, <3>1, <3>2, OneBehindTheOther
      <3>4. Channel(Append(q, w), dev.sid_in, dev.got_esc, T, done, Len(S) + 1, id, FALSE)
        BY <1>3, <1>6, <2>1, <2>3, <3>1, SendNext
      <3> QED
        BY <3>3, <3>4
    <2> QED
      BY <2>2, <2>3
  <1>9. ToDev'
    BY <1>1, <1>3, <1>8 DEF ToDev
  <1>10. ToHost' /\ AtByte'
    <2>1. OnLine' = OnLine /\ DevOut' = DevOut
      BY <1>1 DEF OnLine, DevOut, Sending, Now
    <2>2. ToHost'
      BY <1>1, <2>1 DEF Fifo, ToHost
    <2>3. AtByte'
      BY <1>1 DEF Fifo, AtByte, Sending, Now
    <2> QED
      BY <2>2, <2>3
  <1> QED
    BY <1>1, <1>3, <1>9, <1>10 DEF Fifo

\* Every step keeps the invariant; a restart makes it say nothing.
LEMMA StepKeepsFifo == MuxInv /\ [Next]_vars => MuxInv'
  <1> SUFFICES ASSUME MuxInv, [Next]_vars PROVE MuxInv'
    OBVIOUS
  <1>1. Types /\ Types'
    BY StepKeepsTypes DEF MuxInv
  <1>2. SUFFICES ASSUME NoRestart' PROVE Fifo'
    BY <1>1 DEF MuxInv
  <1>3. ~DevRestart /\ ~HostRestart
    BY <1>1, <1>2, RestartKeepsTypes
  <1>4. restarts' = restarts
    BY <1>3 DEF Next, vars, platform_uart_send, SendSid, SetLast, SendEsc, SendXored, SendData,
                SetMask, SetOut, Transmit, cmn_rx_handler, HostReceive, HostSend
  <1>5. Fifo
    BY <1>2, <1>4 DEF MuxInv, NoRestart
  <1>6. CASE UNCHANGED vars
    <2>1. OnLine' = OnLine /\ DevOut' = DevOut
      BY <1>6 DEF vars, devVars, OnLine, DevOut, Sending, Now
    <2>2. ToDev' /\ ToHost'
      BY <1>5, <1>6, <2>1 DEF vars, devVars, Fifo, ToDev, ToHost
    <2>3. AtByte'
      BY <1>5, <1>6 DEF vars, devVars, Fifo, AtByte, Sending, Now
    <2> QED
      BY <1>5, <1>6, <2>2, <2>3 DEF vars, Fifo
  <1> QED
    BY <1>1, <1>3, <1>5, <1>6, SendKeeps, DevReceiveKeeps, HostReceiveKeeps, HostSendKeeps DEF Next

\* What both lines carry stays in step with what was sent and handed out.
THEOREM MuxInvariant == Spec => []MuxInv
  <1>1. Init => MuxInv
    BY TypesInit, FifoInit DEF MuxInv
  <1> QED
    BY <1>1, StepKeepsFifo, PTL DEF Spec

\* What was handed out, without the ghost, is a prefix of what was sent.
LEMMA FirstIsPrefix ==
    ASSUME NEW us \in Sends, NEW ts \in Takes, AreFirst(ts, us)
    PROVE  IsPrefix(AsSent(ts), us)
  <1> DEFINE as == AsSent(ts)
             n == Len(ts)
             p == SubSeq(us, 1, n)
  <1>1. /\ n \in Nat /\ DOMAIN ts = 1 .. n /\ Len(us) \in Nat /\ n <= Len(us)
        /\ \A i \in 1 .. n : i \in 1 .. Len(us)
    <2>1. n \in Nat /\ DOMAIN ts = 1 .. n /\ Len(us) \in Nat /\ n <= Len(us)
      BY LenProperties DEF Sends, Takes, AreFirst
    <2> QED
      BY <2>1, SMT
  <1>2. \A i \in 1 .. n : us[i] \in [s : Services, b : Payload]
    BY <1>1, ElementOfSeq DEF Sends
  <1>3. \A i \in 1 .. n : User(ts[i]) = us[i]
    BY <1>2 DEF User, AreFirst
  <1>4. as \in [1 .. n -> [s : Services, b : Payload]] /\ \A i \in 1 .. n : as[i] = us[i]
    BY <1>1, <1>2, <1>3 DEF AsSent
  <1> HIDE DEF as
  <1>5. as \in Sends /\ Len(as) = n
    <2>1. as \in Sends
      <3>1. n \in Nat /\ as \in [1 .. n -> [s : Services, b : Payload]]
        BY <1>1, <1>4
      <3> HIDE DEF n
      <3> QED
        BY <3>1, SeqDef DEF Sends
    <2>2. DOMAIN as = 1 .. Len(as) /\ Len(as) \in Nat
      BY <2>1, LenProperties DEF Sends
    <2>3. 1 .. Len(as) = 1 .. n
      BY <1>4, <2>2
    <2>4. \A a, b \in Nat : 1 .. a = 1 .. b => a = b
      <3>1. \A a, b \in Nat : a < b => b \in 1 .. b /\ b \notin 1 .. a
        BY SMT
      <3>2. \A a, b \in Nat : a < b \/ b < a \/ a = b
        BY SMT
      <3> QED
        BY <3>1, <3>2, Zenon
    <2> QED
      BY <1>1, <2>1, <2>2, <2>3, <2>4, Zenon
  <1>6. p \in Sends /\ Len(p) = n /\ \A i \in 1 .. n : p[i] = us[i]
    BY <1>1, <1>2, SubSeqProperties DEF Sends
  <1>7. SubSeq(as, 1, Len(as)) = as
    BY <1>5, SubSeqFull DEF Sends
  <1> HIDE DEF p, n
  <1>8. as = p
    BY <1>4, <1>5, <1>6, SeqEqual DEF Sends
  <1> QED
    BY <1>1, <1>5, <1>7, <1>8 DEF IsPrefix, as, p, n

\* The variables of both sides, the arguments of a send that is under way, the
\* bytes on the line and the histories keep their types, restarts included.
THEOREM TypeCorrect == Spec => []TypeOK
  <1>1. MuxInv => TypeOK
    BY TypesSuffice DEF MuxInv
  <1> QED
    BY <1>1, MuxInvariant, PTL

\* As long as neither side restarts, every byte is handed out on the service
\* it was sent on, once and in order, and the host does not give up.
THEOREM LinkInOrder == Spec => []InOrder
  <1>1. MuxInv => InOrder
    <2> SUFFICES ASSUME Types, Fifo PROVE
                   /\ host.up
                   /\ IsPrefix(AsSent(taken["dev"]), sent["host"])
                   /\ IsPrefix(AsSent(taken["host"]), sent["dev"])
                   /\ Quiet => /\ Len(taken["dev"]) = Len(sent["host"])
                               /\ Len(taken["host"]) = Len(sent["dev"])
      BY Zenon DEF MuxInv, InOrder
    <2>1. \A side \in Sides : sent[side] \in Sends /\ taken[side] \in Takes
      BY DEF Types, SentTypes, TakenTypes
    <2>2. /\ IsPrefix(AsSent(taken["dev"]), sent["host"])
          /\ IsPrefix(AsSent(taken["host"]), sent["dev"])
      BY <2>1, FirstIsPrefix DEF Fifo, Sides
    <2>3. ASSUME Quiet PROVE Len(taken["dev"]) = Len(sent["host"])
      BY <2>3, NothingLeft DEF Quiet, Fifo, ToDev
    <2>4. ASSUME Quiet PROVE Len(taken["host"]) = Len(sent["dev"])
      <3>1. OnLine = Len(sent["dev"])
        BY <2>4 DEF Quiet, OnLine, Sending, Now
      <3> QED
        BY <2>4, <3>1, NothingLeft DEF Quiet, Fifo, ToHost
    <2> QED
      BY <2>2, <2>3, <2>4 DEF Fifo
  <1> QED
    BY <1>1, MuxInvariant, PTL

----------------------------------------------------------------------------
(* The two sides agree on the service, restarts included                   *)

\* The receiver will know `out' behind the last byte, or no service at all.
InForce(q, sid, out) == \E o \in {None, out} : IsSid(q, sid, Len(q) + 1, o)

NoSid(q) == \A i \in 1 .. Len(q) : q[i].b \notin Services

\* The byte of a service puts that service in force.
LEMMA SelectsService ==
    ASSUME NEW q \in Seq(Wire), NEW w \in Wire, NEW sid, w.b \in Services
    PROVE  InForce(Append(q, w), sid, w.b)
  <1> DEFINE r == Append(q, w)
  <1>1. Len(q) \in Nat /\ Len(r) = Len(q) + 1 /\ r[Len(q) + 1] = w
    BY LenProperties, AppendProperties
  <1> HIDE DEF r
  <1>2. Len(q) + 1 \in 1 .. (Len(r) + 1) - 1 /\ (Len(q) + 1) + 1 .. (Len(r) + 1) - 1 = {}
    BY <1>1, SMT
  <1>3. IsSid(r, sid, Len(r) + 1, w.b)
    BY <1>1, <1>2 DEF IsSid
  <1> QED
    BY <1>3 DEF InForce, r

\* Bytes that select nothing follow.
LEMMA QuietTail ==
    ASSUME NEW q \in Seq(Wire), NEW r \in Seq(Wire), NoSid(r), NEW sid, NEW out,
           InForce(q, sid, out)
    PROVE  InForce(q \o r, sid, out)
  <1> DEFINE t == q \o r
  <1>1. /\ Len(q) \in Nat /\ Len(r) \in Nat /\ Len(t) = Len(q) + Len(r)
        /\ \A i \in 1 .. Len(q) + Len(r) : t[i] = IF i <= Len(q) THEN q[i] ELSE r[i - Len(q)]
    BY LenProperties, ConcatProperties
  <1> HIDE DEF t
  <1>2. \A i \in 1 .. Len(t) : \/ i \in 1 .. Len(q) /\ t[i] = q[i]
                               \/ t[i].b \notin Services
    <2> TAKE i \in 1 .. Len(t)
    <2>1. CASE i <= Len(q)
      BY <1>1, <2>1
    <2>2. CASE ~(i <= Len(q))
      <3>1. i - Len(q) \in 1 .. Len(r) /\ t[i] = r[i - Len(q)]
        BY <1>1, <2>2
      <3> QED
        BY <3>1 DEF NoSid
    <2> QED
      BY <2>1, <2>2
  <1>3. /\ (Len(t) + 1) - 1 = Len(t) /\ (Len(q) + 1) - 1 = Len(q)
        /\ \A i \in 1 .. Len(q) : i \in 1 .. Len(t)
        /\ \A j \in 1 .. Len(q) : \A k \in j + 1 .. Len(t) : k \in 1 .. Len(t)
        /\ \A j \in 1 .. Len(q) : \A k \in j + 1 .. Len(t) :
              k \in 1 .. Len(q) => k \in j + 1 .. Len(q)
    BY <1>1, SMT
  <1>4. \A i \in 1 .. Len(q) : t[i] = q[i]
    BY <1>1, <1>3, SMT
  <1>5. PICK o \in {None, out} : IsSid(q, sid, Len(q) + 1, o)
    BY DEF InForce
  <1>6. CASE o = sid /\ \A k \in 1 .. Len(q) : q[k].b \notin Services
    <2>1. \A k \in 1 .. Len(t) : t[k].b \notin Services
      BY <1>2, <1>6
    <2> QED
      BY <1>3, <1>6, <2>1 DEF InForce, IsSid, t
  <1>7. ASSUME NEW j \in 1 .. Len(q), q[j].b = o, o \in Services,
               \A k \in j + 1 .. Len(q) : q[k].b \notin Services
        PROVE  InForce(t, sid, out)
    <2>1. t[j].b = o /\ j \in 1 .. Len(t)
      BY <1>3, <1>4, <1>7
    <2>2. \A k \in j + 1 .. Len(t) : t[k].b \notin Services
      BY <1>2, <1>3, <1>7
    <2>3. IsSid(t, sid, Len(t) + 1, o)
      BY <1>3, <1>7, <2>1, <2>2 DEF IsSid
    <2> QED
      BY <2>3 DEF InForce
  <1> QED
    BY <1>3, <1>5, <1>6, <1>7 DEF IsSid, t

\* A byte that selects nothing follows.
LEMMA QuietByte ==
    ASSUME NEW q \in Seq(Wire), NEW w \in Wire, w.b \notin Services, NEW sid, NEW out,
           InForce(q, sid, out)
    PROVE  InForce(Append(q, w), sid, out)
  <1>1. NoSid(<<w>>) /\ <<w>> \in Seq(Wire)
    BY DEF NoSid
  <1> QED
    BY <1>1, AppendIsConcat, QuietTail

\* The answer to SERMUX_FORCE_SID_CHAR selects the sender's service again.
LEMMA RepeatSelects ==
    ASSUME NEW q \in Seq(Wire), NEW s \in Services, NEW last \in LastSent, NoSid(last), NEW sid
    PROVE  InForce(q \o Repeat(s, last), sid, s)
  <1> DEFINE w == Control(s)
  <1>1. w \in Wire /\ w.b = s /\ SidByte(s) = w
    BY SpecialBytes DEF Control, Wire, SidByte
  <1> HIDE DEF w
  <1>2. last \in Seq(Wire) /\ <<w>> \in Seq(Wire)
    BY <1>1, LastSentType
  <1>3. q \o Repeat(s, last) = (q \o <<w>>) \o last
    BY <1>1, <1>2, ConcatAssociative DEF Repeat
  <1>4. q \o <<w>> = Append(q, w) /\ Append(q, w) \in Seq(Wire)
    BY <1>1, AppendIsConcat, AppendProperties
  <1>5. InForce(Append(q, w), sid, s)
    BY <1>1, SelectsService
  <1> QED
    BY <1>2, <1>3, <1>4, <1>5, QuietTail

\* A byte is read.
LEMMA ReadKeepsService ==
    ASSUME NEW q \in Seq(Wire), q # <<>>, NEW sid, NEW out, InForce(q, sid, out),
           NEW s, s = IF Head(q).b \in Services THEN Head(q).b ELSE sid
    PROVE  InForce(Tail(q), s, out)
  <1>1. PICK o \in {None, out} : IsSid(q, sid, Len(q) + 1, o)
    BY DEF InForce
  <1>2. /\ Len(Tail(q)) + 1 \in 1 .. Len(Tail(q)) + 1
        /\ (Len(Tail(q)) + 1) + 1 = Len(q) + 1
    BY LenProperties, HeadTailProperties, EmptySeq, SMT
  <1>3. PICK e \in {TRUE, FALSE} : e = TRUE <=> Head(q).b = ESC
    OBVIOUS
  <1>4. IsSid(Tail(q), s, Len(Tail(q)) + 1, o)
    BY <1>1, <1>2, <1>3, Shifted
  <1> QED
    BY <1>4 DEF InForce

\* The receiver is restarted and what arrived first is lost.
LEMMA LostKeepsService ==
    ASSUME NEW q \in Seq(Wire), NEW sid, NEW out, InForce(q, sid, out),
           NEW k \in 1 .. Len(q) + 1
    PROVE  InForce(SubSeq(q, k, Len(q)), None, out)
  <1> DEFINE t == SubSeq(q, k, Len(q))
             n == Len(q)
  <1>1. n \in Nat /\ k \in Nat /\ k # 0 /\ k \in Int /\ n \in Int /\ k <= n + 1
        /\ \A i \in k .. n : i \in 1 .. n
    BY LenProperties, SMT
  <1>2. \A i \in k .. n : q[i] \in Wire
    BY <1>1, ElementOfSeq
  <1>3. /\ Len(t) = IF k <= n THEN (n - k) + 1 ELSE 0
        /\ \A i \in 1 .. (n - k) + 1 : t[i] = q[(k + i) - 1]
    BY <1>1, <1>2, SubSeqProperties
  <1> HIDE DEF t, n
  <1>4. Len(t) = (n - k) + 1 /\ Len(t) \in Nat /\ (Len(t) + 1) - 1 = Len(t) /\ (n + 1) - 1 = n
        /\ \A i \in 1 .. Len(t) : (k + i) - 1 \in 1 .. n
    BY <1>1, <1>3, SMT
  <1>5. \A i \in 1 .. Len(t) : t[i] = q[(k + i) - 1]
    BY <1>3, <1>4
  <1>6. ASSUME \A i \in 1 .. Len(t) : t[i].b \notin Services PROVE InForce(t, None, out)
    BY <1>4, <1>6 DEF InForce, IsSid
  <1>7. PICK o \in {None, out} : IsSid(q, sid, n + 1, o)
    BY DEF InForce, n
  <1>8. CASE o = sid /\ \A i \in 1 .. n : q[i].b \notin Services
    BY <1>4, <1>5, <1>6, <1>8 DEF t, n
  <1>9. ASSUME NEW j \in 1 .. n, q[j].b = o, o \in Services,
               \A i \in j + 1 .. n : q[i].b \notin Services
        PROVE  InForce(t, None, out)
    <2>1. CASE j < k
      <3>1. \A i \in 1 .. Len(t) : (k + i) - 1 \in j + 1 .. n
        BY <1>1, <1>4, <2>1, SMT
      <3> QED
        BY <1>5, <1>6, <1>9, <3>1
    <2>2. CASE ~(j < k)
      <3> DEFINE h == (j - k) + 1
      <3>1. h \in 1 .. Len(t) /\ (k + h) - 1 = j
            /\ \A i \in h + 1 .. Len(t) : (k + i) - 1 \in j + 1 .. n /\ i \in 1 .. Len(t)
        BY <1>1, <1>4, <2>2, SMT
      <3> HIDE DEF h
      <3>2. t[h].b = o /\ \A i \in h + 1 .. Len(t) : t[i].b \notin Services
        BY <1>5, <1>9, <3>1
      <3>3. IsSid(t, None, Len(t) + 1, o)
        BY <1>4, <1>9, <3>1, <3>2 DEF IsSid
      <3> QED
        BY <3>3 DEF InForce
    <2> QED
      BY <2>1, <2>2
  <1> QED
    BY <1>4, <1>7, <1>8, <1>9 DEF IsSid, t, n

\* What is kept for a repetition selects no service, except while the device
\* has stored the bare byte and not yet the mask.
Kept ==
    /\ NoSid(host.prev_sent)
    /\ pc \notin {"esc", "xor", "mask"} => NoSid(dev.last_sent)

\* The test of the data byte in platform_uart_send still holds.
Tested ==
    /\ pc \in {"esc", "xor", "mask"} => arg.data \in Special
    /\ pc = "data" => arg.data \notin Special

DevKnows == host.sid_out # None => InForce(toDev, dev.sid_in, host.sid_out)

HostKnows == ~raced /\ DevOut # None => InForce(toHost, host.sid_in, DevOut)

Agree == Kept /\ Tested /\ DevKnows /\ HostKnows

AgreeInv == Types /\ Agree

\* What a byte of data looks like on the link selects no service.
LEMMA EncodedSelectsNothing ==
    ASSUME NEW b \in Bytes, NEW n
    PROVE  /\ b \notin Special => NoSid(Plain(b, n))
           /\ b \in Special => NoSid(Escaped(b, n))
           /\ NoSid(Encoded(b, n)) /\ NoSid(NothingSent)
  <1>1. b \notin Special => NoSid(Plain(b, n))
    <2>1. Len(Plain(b, n)) = 1 /\ Plain(b, n)[1].b = b
      BY DEF Plain
    <2>2. \A i \in 1 .. 1 : i = 1
      OBVIOUS
    <2> QED
      BY <2>1, <2>2, SpecialBytes DEF NoSid
  <1>2. b \in Special => NoSid(Escaped(b, n))
    <2>1. /\ Len(Escaped(b, n)) = 2 /\ Escaped(b, n)[1].b = ESC
          /\ Escaped(b, n)[2].b = Xored(b)
      BY DEF Escaped, Control
    <2>2. \A i \in 1 .. 2 : i = 1 \/ i = 2
      OBVIOUS
    <2> QED
      BY <2>1, <2>2, SpecialBytes DEF NoSid
  <1>3. NoSid(NothingSent)
    <2>1. 1 .. Len(<<>>) = {}
      BY EmptySeq, SMT
    <2> QED
      BY <2>1 DEF NoSid, NothingSent
  <1> QED
    BY <1>1, <1>2, <1>3 DEF Encoded

\* At the start no side knows a service.
LEMMA AgreeInit == Init => Agree
  <1>1. NoSid(NothingSent)
    <2>1. 1 .. Len(<<>>) = {}
      BY EmptySeq, SMT
    <2> QED
      BY <2>1 DEF NoSid, NothingSent
  <1> QED
    BY <1>1 DEF Init, Agree, Kept, Tested, DevKnows, HostKnows, DevOut, DevStart, HostStart

\* platform_uart_send selects its service before it relies on it, statement by
\* statement.
LEMMA SendKeepsAgree ==
    ASSUME Types, Agree, platform_uart_send
    PROVE  Agree'
  <1> USE DEF Types
  <1>1. UNCHANGED <<host, toDev, raced>> /\ dev'.sid_in = dev.sid_in
    BY DEF platform_uart_send, SendSid, SetLast, SendEsc, SendXored, SendData, SetMask, SetOut,
           Transmit, DevTypes
  <1>2. DevKnows' /\ NoSid(host'.prev_sent)
    BY <1>1 DEF Agree, DevKnows, Kept
  <1>3. /\ toHost \in Seq(Wire) /\ dev.sid_out \in Services \cup {None}
        /\ pc # "idle" => arg \in Args /\ DevOut = arg.id /\ arg.id \in Services
                          /\ arg.data \in Bytes
        /\ pc = "idle" => DevOut = dev.sid_out
    BY SpecialBytes DEF LineTypes, DevTypes, Args, DevOut
  <1>4. ASSUME NEW id \in Services, NEW data \in Payload, SendSid(id, data) PROVE Agree'
    <2>1. /\ pc = "idle" /\ pc' = "last" /\ arg'.id = id /\ UNCHANGED <<dev, host, raced>>
          /\ toHost' = IF id = dev.sid_out THEN toHost ELSE Append(toHost, Control(id))
      BY <1>4 DEF SendSid
    <2>2. Control(id) \in Wire /\ Control(id).b = id /\ id # None
      BY SpecialBytes DEF Control, Wire
    <2>3. DevOut' = id
      BY <2>1 DEF DevOut
    <2>4. CASE id = dev.sid_out
      <3>1. HostKnows'
        BY <1>3, <2>1, <2>2, <2>3, <2>4 DEF Agree, HostKnows
      <3> QED
        BY <1>2, <2>1, <3>1 DEF Agree, Kept, Tested
    <2>5. CASE id # dev.sid_out
      <3>1. InForce(toHost', host.sid_in, Control(id).b)
        BY <1>3, <2>1, <2>2, <2>5, SelectsService
      <3>2. HostKnows'
        BY <2>1, <2>2, <2>3, <3>1 DEF HostKnows
      <3> QED
        BY <1>2, <2>1, <3>2 DEF Agree, Kept, Tested
    <2> QED
      BY <2>4, <2>5
  <1>5. ASSUME UNCHANGED <<toHost, raced>>, DevOut' = DevOut PROVE HostKnows'
    BY <1>1, <1>5 DEF Agree, HostKnows
  <1>6. CASE SetLast
    <2>1. /\ pc = "last" /\ pc' = IF arg.data \in Special THEN "esc" ELSE "data"
          /\ UNCHANGED <<arg, toHost>> /\ dev'.last_sent = Plain(arg.data, Now)
      BY <1>6 DEF SetLast, DevTypes
    <2>2. HostKnows'
      BY <1>1, <1>5, <2>1 DEF DevOut
    <2>3. Kept'
      BY <1>2, <1>3, <2>1, EncodedSelectsNothing DEF Kept
    <2> QED
      BY <1>2, <2>1, <2>2, <2>3 DEF Agree, Tested
  <1>7. CASE SetMask
    <2>1. /\ pc = "mask" /\ pc' = "out" /\ UNCHANGED <<arg, toHost>>
          /\ dev'.last_sent = Escaped(arg.data, Now)
      BY <1>7 DEF SetMask, DevTypes
    <2>2. HostKnows'
      BY <1>1, <1>5, <2>1 DEF DevOut
    <2>3. arg.data \in Special
      BY <2>1 DEF Agree, Tested
    <2>4. Kept'
      BY <1>2, <1>3, <2>1, <2>3, EncodedSelectsNothing DEF Kept
    <2> QED
      BY <1>2, <2>1, <2>2, <2>4 DEF Agree, Tested
  <1>8. CASE SetOut
    <2>1. /\ pc = "out" /\ pc' = "idle" /\ UNCHANGED toHost
          /\ dev'.last_sent = dev.last_sent /\ dev'.sid_out = arg.id
      BY <1>8 DEF SetOut, DevTypes
    <2>2. HostKnows'
      BY <1>1, <1>5, <2>1 DEF DevOut
    <2> QED
      BY <1>2, <2>1, <2>2 DEF Agree, Tested, Kept
  <1>9. ASSUME NEW w \in Wire, w.b \notin Services, pc # "idle", pc' # "idle",
               toHost' = Append(toHost, w), UNCHANGED <<arg, dev>>
        PROVE  HostKnows'
    <2>1. DevOut' = DevOut
      BY <1>9 DEF DevOut
    <2>2. InForce(toHost, host.sid_in, DevOut) => InForce(toHost', host.sid_in, DevOut)
      BY <1>3, <1>9, QuietByte
    <2> QED
      BY <1>1, <2>1, <2>2 DEF Agree, HostKnows
  <1>10. Len(sent["dev"]) \in 0 .. MaxSends
    <2>1. Len(sent["dev"]) \in Nat /\ Len(sent["dev"]) <= MaxSends
      BY LenProperties DEF SentTypes, Sends, Sides
    <2>2. \A n \in Nat : n <= MaxSends => n \in 0 .. MaxSends
      BY SpecialBytes, SMT
    <2> QED
      BY <2>1, <2>2
  <1>11. CASE SendEsc
    <2>1. /\ pc = "esc" /\ pc' = "xor" /\ toHost' = Append(toHost, Control(ESC))
          /\ UNCHANGED <<arg, dev>>
      BY <1>11 DEF SendEsc, Transmit
    <2>2. Control(ESC) \in Wire /\ Control(ESC).b \notin Services
      BY SpecialBytes DEF Control, Wire
    <2>3. HostKnows'
      BY <1>9, <2>1, <2>2
    <2> QED
      BY <1>2, <2>1, <2>3 DEF Agree, Tested, Kept
  <1>12. CASE SendXored
    <2> DEFINE w == [b |-> Xored(arg.data), n |-> Now]
    <2>1. /\ pc = "xor" /\ pc' = "mask" /\ toHost' = Append(toHost, w) /\ UNCHANGED <<arg, dev>>
      BY <1>12 DEF SendXored, Transmit
    <2>2. arg.data \in Special
      BY <2>1 DEF Agree, Tested
    <2>3. w \in Wire /\ w.b \notin Services
      BY <1>3, <1>10, <2>1, <2>2, SpecialBytes DEF Wire, Now
    <2> HIDE DEF w
    <2>4. HostKnows'
      BY <1>9, <2>1, <2>3
    <2> QED
      BY <1>2, <2>1, <2>2, <2>4 DEF Agree, Tested, Kept
  <1>13. CASE SendData
    <2> DEFINE w == [b |-> arg.data, n |-> Now]
    <2>1. /\ pc = "data" /\ pc' = "out" /\ toHost' = Append(toHost, w) /\ UNCHANGED <<arg, dev>>
      BY <1>13 DEF SendData, Transmit
    <2>2. w \in Wire /\ w.b \notin Services
      BY <1>3, <1>10, <2>1, SpecialBytes DEF Wire, Now, Agree, Tested
    <2> HIDE DEF w
    <2>3. HostKnows'
      BY <1>9, <2>1, <2>2
    <2> QED
      BY <1>2, <2>1, <2>3 DEF Agree, Tested, Kept
  <1> QED
    BY <1>4, <1>6, <1>7, <1>8, <1>11, <1>12, <1>13 DEF platform_uart_send

\* The receive handler follows the services on the line, and a repetition outside
\* platform_uart_send selects the last service again.
LEMMA DevReceiveKeepsAgree ==
    ASSUME Types, Agree, cmn_rx_handler
    PROVE  Agree'
  <1> USE DEF Types
  <1> DEFINE w == Head(toDev)
  <1>1. /\ toDev # <<>> /\ toDev' = Tail(toDev) /\ UNCHANGED <<pc, arg, host, sent, restarts>>
        /\ DevRxEsc(w) \/ DevRxSid(w) \/ DevRxForce(w) \/ DevRxUnknown(w) \/ DevRxData(w)
    BY DEF cmn_rx_handler
  <1>2. toDev \in Seq(Wire) /\ toHost \in Seq(Wire) /\ dev.sid_out \in Services \cup {None}
        /\ dev.last_sent \in LastSent
    BY DEF LineTypes, DevTypes
  <1>3. Tested' /\ NoSid(host'.prev_sent)
    BY <1>1 DEF Agree, Tested, Kept
  <1>4. ASSUME dev'.sid_in = IF w.b \in Services THEN w.b ELSE dev.sid_in PROVE DevKnows'
    BY <1>1, <1>2, <1>4, ReadKeepsService DEF Agree, DevKnows
  <1> HIDE DEF w
  <1>5. dev'.sid_out = dev.sid_out /\ DevKnows' /\ (dev'.last_sent = dev.last_sent \/ DevRxForce(w))
    <2>1. dev'.sid_in = IF w.b \in Services THEN w.b ELSE dev.sid_in
      BY <1>1, SpecialBytes DEF DevRxEsc, DevRxSid, DevRxForce, DevRxUnknown, DevRxData, DevData,
                                ClearEsc, DevTypes
    <2>2. dev'.sid_out = dev.sid_out
      BY <1>1 DEF DevRxEsc, DevRxSid, DevRxForce, DevRxUnknown, DevRxData, DevData, ClearEsc,
                  DevTypes
    <2>3. dev'.last_sent = dev.last_sent \/ DevRxForce(w)
      BY <1>1 DEF DevRxEsc, DevRxSid, DevRxForce, DevRxUnknown, DevRxData, DevData, ClearEsc,
                  DevTypes
    <2> QED
      BY <1>4, <2>1, <2>2, <2>3
  <1>6. DevOut' = DevOut
    BY <1>1, <1>5 DEF DevOut
  <1>7. CASE UNCHANGED <<toHost, raced>> /\ dev'.last_sent = dev.last_sent
    BY <1>1, <1>3, <1>5, <1>6, <1>7 DEF Agree, HostKnows, Kept
  <1>8. CASE DevRxForce(w)
    <2>1. /\ toHost' = toHost \o Repeat(dev.sid_out, dev.last_sent)
          /\ dev'.last_sent = NothingSent /\ (raced' <=> raced \/ pc # "idle")
      BY <1>8 DEF DevRxForce, DevTypes
    <2>2. Kept'
      <3>1. NoSid(NothingSent)
        BY EncodedSelectsNothing, SpecialBytes
      <3> QED
        BY <1>3, <2>1, <3>1 DEF Kept
    <2>3. ASSUME ~raced', DevOut # None PROVE InForce(toHost', host.sid_in, DevOut)
      <3>1. pc = "idle" /\ DevOut = dev.sid_out /\ dev.sid_out \in Services
        BY <1>2, <2>1, <2>3 DEF DevOut
      <3>2. NoSid(dev.last_sent)
        BY <3>1 DEF Agree, Kept
      <3> QED
        BY <1>2, <2>1, <3>1, <3>2, RepeatSelects
    <2> QED
      BY <1>1, <1>3, <1>5, <1>6, <2>2, <2>3 DEF Agree, HostKnows
  <1>9. CASE DevRxUnknown(w)
    <2>1. toHost' = Append(toHost, Control(FORCE)) /\ UNCHANGED raced
          /\ dev'.last_sent = dev.last_sent
      BY <1>9 DEF DevRxUnknown, DevData, ClearEsc, DevTypes
    <2>2. Control(FORCE) \in Wire /\ Control(FORCE).b \notin Services
      BY SpecialBytes DEF Control, Wire
    <2>3. InForce(toHost, host.sid_in, DevOut) => InForce(toHost', host.sid_in, DevOut)
      BY <1>2, <2>1, <2>2, QuietByte
    <2> QED
      BY <1>1, <1>3, <1>5, <1>6, <2>1, <2>3 DEF Agree, HostKnows, Kept
  <1>10. DevRxEsc(w) \/ DevRxSid(w) \/ DevRxData(w)
         => UNCHANGED <<toHost, raced>> /\ dev'.last_sent = dev.last_sent
    BY DEF DevRxEsc, DevRxSid, DevRxData, DevData, ClearEsc, DevTypes
  <1> QED
    BY <1>1, <1>7, <1>8, <1>9, <1>10

\* The host follows the services on the line, even when it gives up.
LEMMA HostReceiveKeepsAgree ==
    ASSUME Types, Agree, HostReceive
    PROVE  Agree'
  <1> USE DEF Types
  <1> DEFINE w == Head(toHost)
  <1>1. /\ toHost # <<>> /\ toHost' = Tail(toHost)
        /\ UNCHANGED <<dev, pc, arg, sent, restarts, raced>>
        /\ \/ HostRxEsc(w) \/ HostRxSid(w) \/ HostRxForce(w) \/ HostExit(w)
           \/ HostRxUnknown(w) \/ HostRxData(w)
    BY DEF HostReceive, devVars
  <1>2. /\ toDev \in Seq(Wire) /\ toHost \in Seq(Wire) /\ host.sid_out \in Services \cup {None}
        /\ host.prev_sent \in LastSent
    BY DEF LineTypes, HostTypes
  <1>3. DevOut' = DevOut /\ Tested' /\ (pc' \notin {"esc", "xor", "mask"} => NoSid(dev'.last_sent))
    BY <1>1 DEF DevOut, Agree, Tested, Kept
  <1>4. ASSUME host'.sid_in = IF w.b \in Services THEN w.b ELSE host.sid_in PROVE HostKnows'
    BY <1>1, <1>2, <1>3, <1>4, ReadKeepsService DEF Agree, HostKnows
  <1> HIDE DEF w
  <1>5. HostKnows' /\ host'.sid_out = host.sid_out
    <2>1. host'.sid_in = IF w.b \in Services THEN w.b ELSE host.sid_in
      BY <1>1, SpecialBytes DEF HostRxEsc, HostRxSid, HostRxForce, HostExit, BadEscape,
                                HostRxUnknown, HostRxData, HostData, ClearEsc, HostTypes
    <2>2. host'.sid_out = host.sid_out
      BY <1>1 DEF HostRxEsc, HostRxSid, HostRxForce, HostExit, HostRxUnknown, HostRxData,
                  HostData, ClearEsc, HostTypes
    <2> QED
      BY <1>4, <2>1, <2>2
  <1>6. CASE UNCHANGED toDev /\ host'.prev_sent = host.prev_sent
    BY <1>1, <1>3, <1>5, <1>6 DEF Agree, DevKnows, Kept
  <1>7. CASE HostRxForce(w)
    <2>1. toDev' = toDev \o Repeat(host.sid_out, host.prev_sent) /\ host'.prev_sent = NothingSent
      BY <1>7 DEF HostRxForce, HostTypes
    <2>2. NoSid(NothingSent) /\ NoSid(host.prev_sent)
      BY EncodedSelectsNothing, SpecialBytes DEF Agree, Kept
    <2>3. host.sid_out # None => InForce(toDev', dev.sid_in, host.sid_out)
      BY <1>2, <2>1, <2>2, RepeatSelects
    <2> QED
      BY <1>1, <1>3, <1>5, <2>1, <2>2, <2>3 DEF Agree, DevKnows, Kept
  <1>8. CASE HostRxUnknown(w)
    <2>1. toDev' = Append(toDev, Control(FORCE)) /\ host'.prev_sent = host.prev_sent
      BY <1>8 DEF HostRxUnknown, HostData, ClearEsc, HostTypes
    <2>2. Control(FORCE) \in Wire /\ Control(FORCE).b \notin Services
      BY SpecialBytes DEF Control, Wire
    <2>3. InForce(toDev, dev.sid_in, host.sid_out) => InForce(toDev', dev.sid_in, host.sid_out)
      BY <1>2, <2>1, <2>2, QuietByte
    <2> QED
      BY <1>1, <1>3, <1>5, <2>1, <2>3 DEF Agree, DevKnows, Kept
  <1>9. HostRxEsc(w) \/ HostRxSid(w) \/ HostExit(w) \/ HostRxData(w)
        => UNCHANGED toDev /\ host'.prev_sent = host.prev_sent
    BY DEF HostRxEsc, HostRxSid, HostExit, HostRxData, HostData, ClearEsc, HostTypes
  <1> QED
    BY <1>1, <1>6, <1>7, <1>8, <1>9

\* The host selects the service of the byte it sends.
LEMMA HostSendKeepsAgree ==
    ASSUME Types, Agree, NEW id \in Services, NEW c \in Payload, HostSend(id, c)
    PROVE  Agree'
  <1> USE DEF Types
  <1> DEFINE code == Encoded(c, Len(sent'["host"]))
             first == IF SidNeeded(id) THEN <<Control(id)>> ELSE <<>>
             q == toDev \o first
  <1>1. UNCHANGED <<dev, pc, arg, toHost, taken, restarts, raced>>
    BY DEF HostSend, devVars
  <1>2. /\ toDev' = q \o code /\ host'.sid_out = id /\ host'.prev_sent = code
        /\ host'.sid_in = host.sid_in
    BY DEF HostSend, HostTypes
  <1>3. code \in Seq(Wire) /\ NoSid(code)
    <2>1. c \in Bytes /\ Len(sent'["host"]) \in 0 .. MaxSends
      BY UserSends, SpecialBytes DEF HostSend, Sides
    <2> QED
      BY <2>1, LastSentType, EncodedSelectsNothing
  <1>4. /\ Control(id) \in Wire /\ Control(id).b = id /\ id # None /\ toDev \in Seq(Wire)
    BY SpecialBytes DEF Control, Wire, LineTypes
  <1>5. q \in Seq(Wire) /\ InForce(q, dev.sid_in, id)
    <2>1. CASE SidNeeded(id)
      <3>1. q = Append(toDev, Control(id)) /\ Append(toDev, Control(id)) \in Seq(Wire)
        BY <1>4, <2>1, OneBehindTheOther, AppendProperties
      <3>2. InForce(Append(toDev, Control(id)), dev.sid_in, Control(id).b)
        BY <1>4, SelectsService
      <3> QED
        BY <1>4, <3>1, <3>2
    <2>2. CASE ~SidNeeded(id)
      <3>1. q = toDev /\ id = host.sid_out
        BY <1>4, <2>2, OneBehindTheOther DEF SidNeeded
      <3> QED
        BY <1>4, <3>1 DEF Agree, DevKnows
    <2> QED
      BY <2>1, <2>2
  <1> HIDE DEF q, code
  <1>6. InForce(toDev', dev.sid_in, id)
    BY <1>2, <1>3, <1>5, QuietTail
  <1>7. DevOut' = DevOut
    BY <1>1 DEF DevOut
  <1> QED
    BY <1>1, <1>2, <1>3, <1>6, <1>7 DEF Agree, Kept, Tested, DevKnows, HostKnows

\* A side that restarts knows no service; losing the start of the line makes its
\* receiver know less, never something else.
LEMMA RestartKeepsAgree ==
    ASSUME Types, Agree, DevRestart \/ HostRestart
    PROVE  Agree'
  <1> USE DEF Types
  <1>1. NoSid(NothingSent) /\ toDev \in Seq(Wire) /\ toHost \in Seq(Wire)
    <2>1. NoSid(NothingSent)
      BY EncodedSelectsNothing, SpecialBytes
    <2> QED
      BY <2>1 DEF LineTypes
  <1>2. CASE DevRestart
    <2>1. /\ dev'.sid_in = None /\ dev'.sid_out = None /\ dev'.last_sent = NothingSent
          /\ pc' = "idle" /\ UNCHANGED <<host, toHost>>
      BY <1>2 DEF DevRestart, DevStart
    <2>2. PICK k \in 1 .. Len(toDev) + 1 : toDev' = SubSeq(toDev, k, Len(toDev))
      BY <1>2 DEF DevRestart
    <2>3. InForce(toDev, dev.sid_in, host.sid_out) => InForce(toDev', None, host.sid_out)
      BY <1>1, <2>2, LostKeepsService
    <2>4. DevOut' = None
      BY <2>1 DEF DevOut
    <2> QED
      BY <1>1, <2>1, <2>3, <2>4 DEF Agree, Kept, Tested, DevKnows, HostKnows
  <1>3. CASE HostRestart
    <2>1. /\ host'.sid_in = None /\ host'.sid_out = None /\ host'.prev_sent = NothingSent
          /\ UNCHANGED <<dev, pc, arg, toDev, raced>>
      BY <1>3 DEF HostRestart, HostStart, devVars
    <2>2. PICK k \in 1 .. Len(toHost) + 1 : toHost' = SubSeq(toHost, k, Len(toHost))
      BY <1>3 DEF HostRestart
    <2>3. InForce(toHost, host.sid_in, DevOut) => InForce(toHost', None, DevOut)
      BY <1>1, <2>2, LostKeepsService
    <2>4. DevOut' = DevOut
      BY <2>1 DEF DevOut
    <2> QED
      BY <1>1, <2>1, <2>3, <2>4 DEF Agree, Kept, Tested, DevKnows, HostKnows
  <1> QED
    BY <1>2, <1>3

\* Behind what is under way, each receiver will know the service in use or none.
THEOREM AgreeInvariant == Spec => []AgreeInv
  <1>1. Init => AgreeInv
    BY TypesInit, AgreeInit DEF AgreeInv
  <1>2. AgreeInv /\ [Next]_vars => AgreeInv'
    <2> SUFFICES ASSUME Types, Agree, [Next]_vars PROVE Agree'
      BY StepKeepsTypes DEF AgreeInv
    <2>1. CASE UNCHANGED vars
      <3>1. DevOut' = DevOut
        BY <2>1 DEF vars, devVars, DevOut
      <3> QED
        BY <2>1, <3>1 DEF vars, devVars, Agree, Kept, Tested, DevKnows, HostKnows
    <2> QED
      BY <2>1, SendKeepsAgree, DevReceiveKeepsAgree, HostReceiveKeepsAgree, HostSendKeepsAgree,
         RestartKeepsAgree DEF Next
  <1> QED
    BY <1>1, <1>2, PTL DEF Spec

\* When nothing is under way, each side that knows a service knows the one the
\* other side is using, after any number of restarts, unless a repetition has
\* interrupted platform_uart_send.
THEOREM SidesAgree == Spec => []AgreeWhenQuiet
  <1>1. AgreeInv => AgreeWhenQuiet
    <2> SUFFICES ASSUME Types, Agree, Quiet
                 PROVE  /\ \/ dev.sid_in = None \/ host.sid_out = None
                           \/ dev.sid_in = host.sid_out
                        /\ ~raced => \/ host.sid_in = None \/ dev.sid_out = None
                                     \/ ~host.up \/ host.sid_in = dev.sid_out
      BY Zenon DEF AgreeInv, AgreeWhenQuiet
    <2>1. ASSUME NEW sid, NEW out, InForce(<<>>, sid, out) PROVE sid = None \/ sid = out
      <3>1. (Len(<<>>) + 1) - 1 = 0 /\ 1 .. 0 = {}
        BY EmptySeq, SMT
      <3> QED
        BY <2>1, <3>1 DEF InForce, IsSid
    <2>2. DevOut = dev.sid_out
      BY DEF Quiet, DevOut
    <2> QED
      BY <2>1, <2>2 DEF Quiet, Agree, DevKnows, HostKnows
  <1> QED
    BY <1>1, AgreeInvariant, PTL

----------------------------------------------------------------------------
(* What restarts leave of the data                                         *)

\* The i-th byte is a byte of data.  If the receiver knows the service, it will
\* take the byte for what was sent; the first byte behind a loss may lack its
\* escape, but then the receiver knows no service.
Reads(q, sid, esc, S, i) ==
    /\ q[i].n \in 1 .. Len(S) /\ q[i].b \notin Special
    /\ IsSid(q, sid, i, None) \/ IsSid(q, sid, i, S[q[i].n].s)
    /\ EscAt(q, esc, i) => S[q[i].n].b \in Special /\ q[i].b = Xored(S[q[i].n].b)
    /\ ~EscAt(q, esc, i) =>
           \/ IsSid(q, sid, i, None)
           \/ S[q[i].n].b \notin Special /\ q[i].b = S[q[i].n].b

Passes(q, esc, i) == q[i].b \in Special /\ ~EscAt(q, esc, i)

\* The line q, of which the beginning may be lost, carries bytes of S; behind
\* them the service `out' is in force, or the receiver knows none.
Carries(q, sid, esc, S, out, open) ==
    /\ q \in Seq(Wire) /\ S \in Sends
    /\ \A i \in 1 .. Len(q) : IF q[i].n # 0 THEN Reads(q, sid, esc, S, i)
                              ELSE Passes(q, esc, i)
    /\ IsSid(q, sid, Len(q) + 1, None) \/ IsSid(q, sid, Len(q) + 1, out)
    /\ EscAt(q, esc, Len(q) + 1) => open = TRUE
    /\ open = TRUE => EscAt(q, esc, Len(q) + 1) \/ IsSid(q, sid, Len(q) + 1, None)

\* The number of the i-th byte, when those handed out and those under way are
\* counted together.
NumAt(ts, q, i) == IF i <= Len(ts) THEN ts[i].n ELSE q[i - Len(ts)].n

Total(ts, q) == Len(ts) + Len(q)

\* The bytes handed out and under way are in order, none is there more than
\* twice, and the last one sent only once if it may still be repeated.
InStep(ts, q, top, once) ==
    /\ \A i \in 1 .. Total(ts, q) : NumAt(ts, q, i) \in 0 .. top
    /\ \A i, j \in 1 .. Total(ts, q) :
          i < j /\ NumAt(ts, q, i) # 0 /\ NumAt(ts, q, j) # 0
          => NumAt(ts, q, i) <= NumAt(ts, q, j)
    /\ \A i, j, k \in 1 .. Total(ts, q) :
          i < j /\ j < k /\ NumAt(ts, q, i) # 0
          => ~(NumAt(ts, q, i) = NumAt(ts, q, j) /\ NumAt(ts, q, j) = NumAt(ts, q, k))
    /\ once = TRUE =>
          \A i, j \in 1 .. Total(ts, q) :
             i < j /\ NumAt(ts, q, i) # 0 => ~(NumAt(ts, q, i) = top /\ NumAt(ts, q, j) = top)

\* What was handed out was sent, on that service.
Right(ts, us) ==
    \A i \in 1 .. Len(ts) : /\ ts[i].n \in 1 .. Len(us)
                            /\ ts[i].s = us[ts[i].n].s /\ ts[i].b = us[ts[i].n].b

\* The receiver knows a service when it comes to the i-th byte.
HeardAt(q, sid, i) == sid # None \/ \E j \in 1 .. i - 1 : q[j].b \in Services

\* A sender that has not restarted puts no data in front of its first service.
Heard(q, sid, on) ==
    /\ \A i \in 1 .. Len(q) : q[i].b \notin Special => HeardAt(q, sid, i)
    /\ on = TRUE => HeardAt(q, sid, Len(q) + 1)

NoForce(q) == \A i \in 1 .. Len(q) : q[i].b # FORCE

\* What is kept for a repetition is the last byte sent.
Repeats(last, S, out) ==
    last # NothingSent =>
        /\ Len(S) # 0 /\ out \in Services
        /\ S[Len(S)].s = out /\ last = Encoded(S[Len(S)].b, Len(S))

Flag(p) == IF p THEN TRUE ELSE FALSE

Once == Flag((pc = "idle" /\ dev.last_sent # NothingSent) \/ pc \in {"mask", "out"})

\* The byte that platform_uart_send is sending.
AtSend ==
    /\ pc # "idle" => Now # 0 /\ sent["dev"][Now] = [s |-> arg.id, b |-> arg.data]
    /\ Tested
    /\ host.prev_sent # NothingSent => host.sid_out \in Services
    /\ pc = "idle" /\ dev.last_sent # NothingSent => dev.sid_out \in Services

DevLine ==
    /\ Carries(toDev, dev.sid_in, dev.got_esc, sent["host"], host.sid_out, FALSE)
    /\ NoForce(toDev)
    /\ InStep(taken["dev"], toDev, Len(sent["host"]), Flag(host.prev_sent # NothingSent))
    /\ Right(taken["dev"], sent["host"])
    /\ Repeats(host.prev_sent, sent["host"], host.sid_out)
    /\ Heard(toHost, host.sid_in, Flag(dev.sid_out # None \/ pc # "idle"))

HostLine ==
    /\ Carries(toHost, host.sid_in, host.got_esc, sent["dev"], DevOut, Flag(pc = "xor"))
    /\ InStep(taken["host"], toHost, OnLine, Once)
    /\ Right(taken["host"], sent["dev"])
    /\ pc = "idle" => Repeats(dev.last_sent, sent["dev"], dev.sid_out)
    /\ pc = "out" => dev.last_sent = Encoded(arg.data, Now)
    /\ pc = "data" => dev.last_sent = Plain(arg.data, Now)
    /\ pc \notin {"idle", "last"} => dev.last_sent # NothingSent
    /\ Heard(toDev, dev.sid_in, Flag(host.sid_out # None))

Survives ==
    /\ AtSend
    /\ restarts["host"] = 0 => DevLine
    /\ restarts["dev"] = 0 /\ ~raced => HostLine

RestartInv == Types /\ Survives

\* What is on the line keeps its meaning when a byte follows.
LEMMA GrownReads ==
    ASSUME NEW q \in Seq(Wire), NEW w \in Wire, NEW sid, NEW esc, NEW S, NEW i \in 1 .. Len(q),
           IF q[i].n # 0 THEN Reads(q, sid, esc, S, i) ELSE Passes(q, esc, i)
    PROVE  LET r == Append(q, w)
           IN  IF r[i].n # 0 THEN Reads(r, sid, esc, S, i) ELSE Passes(r, esc, i)
  <1> DEFINE r == Append(q, w)
  <1>1. i \in 1 .. Len(q) + 1
    BY LenProperties, SMT
  <1>2. /\ \A s : IsSid(r, sid, i, s) <=> IsSid(q, sid, i, s)
        /\ EscAt(r, esc, i) <=> EscAt(q, esc, i)
        /\ r[i] = q[i]
    BY <1>1, Grown
  <1> HIDE DEF r
  <1>3. Reads(q, sid, esc, S, i) => Reads(r, sid, esc, S, i)
    BY <1>2, Zenon DEF Reads
  <1>4. Passes(q, esc, i) => Passes(r, esc, i)
    BY <1>2, Zenon DEF Passes
  <1> QED
    BY <1>2, <1>3, <1>4 DEF r

\* A control byte is sent.
LEMMA ControlCarried ==
    ASSUME NEW q, NEW sid, NEW esc, NEW S, NEW out, Carries(q, sid, esc, S, out, FALSE),
           NEW b \in Special
    PROVE  Carries(Append(q, Control(b)), sid, esc, S,
                   IF b \in Services THEN b ELSE out, IF b = ESC THEN TRUE ELSE FALSE)
  <1> DEFINE w == Control(b)
             r == Append(q, w)
             o == IF b \in Services THEN b ELSE out
             p == IF b = ESC THEN TRUE ELSE FALSE
  <1>0. q \in Seq(Wire) /\ Len(q) \in Nat
    BY LenProperties DEF Carries
  <1>1. w \in Wire /\ w.b = b /\ w.n = 0
    BY SpecialBytes DEF Control, Wire
  <1> HIDE DEF w
  <1>2. /\ r \in Seq(Wire) /\ Len(r) = Len(q) + 1 /\ r[Len(q) + 1] = w
        /\ \A k \in 1 .. Len(q) : r[k] = q[k]
    BY <1>0, <1>1, AppendProperties
  <1>3. /\ \A i \in 1 .. Len(r) : i \in 1 .. Len(q) \/ i = Len(q) + 1
        /\ \A i \in 1 .. Len(q) : i \in 1 .. Len(q) + 1
        /\ Len(q) + 1 \in 1 .. Len(q) + 1
        /\ Len(r) + 1 = Len(q) + 2 /\ Len(r) + 1 # 1 /\ (Len(r) + 1) - 1 = Len(q) + 1
    BY <1>0, <1>2, SMT
  <1>4. \A i \in 1 .. Len(q) : IF r[i].n # 0 THEN Reads(r, sid, esc, S, i)
                               ELSE Passes(r, esc, i)
    BY <1>0, <1>1, GrownReads DEF Carries
  <1>5. Passes(r, esc, Len(q) + 1) /\ r[Len(q) + 1].n = 0
    <2>1. ~EscAt(q, esc, Len(q) + 1)
      BY DEF Carries
    <2>2. ~EscAt(r, esc, Len(q) + 1)
      BY <1>0, <1>1, <1>3, <2>1, Grown
    <2> QED
      BY <1>1, <1>2, <2>2 DEF Passes
  <1>6. IsSid(r, sid, Len(r) + 1, None) \/ IsSid(r, sid, Len(r) + 1, o)
    BY <1>0, <1>1, <1>3, SidBehind DEF Carries
  <1> HIDE DEF r
  <1>7. EscAt(r, esc, Len(r) + 1) <=> b = ESC
    BY <1>1, <1>2, <1>3 DEF EscAt
  <1>8. \A i \in 1 .. Len(r) : IF r[i].n # 0 THEN Reads(r, sid, esc, S, i)
                               ELSE Passes(r, esc, i)
    BY <1>3, <1>4, <1>5
  <1>9. /\ EscAt(r, esc, Len(r) + 1) => p = TRUE
        /\ p = TRUE => EscAt(r, esc, Len(r) + 1)
    BY <1>7
  <1> HIDE DEF o, p
  <1>10. Carries(r, sid, esc, S, o, p)
    BY <1>2, <1>6, <1>8, <1>9 DEF Carries
  <1> QED
    BY <1>10 DEF r, o, p, w

\* A byte of data is sent, behind its service and, if it needs one, an escape.
LEMMA DataCarried ==
    ASSUME NEW q, NEW sid, NEW esc, NEW S, NEW out, NEW open,
           Carries(q, sid, esc, S, out, open),
           NEW w \in Wire, NEW n \in 1 .. Len(S), w.n = n, n # 0, S[n].s = out,
           w.b \notin Special,
           open = TRUE => S[n].b \in Special /\ w.b = Xored(S[n].b),
           open # TRUE => S[n].b \notin Special /\ w.b = S[n].b
    PROVE  Carries(Append(q, w), sid, esc, S, out, FALSE)
  <1> DEFINE r == Append(q, w)
  <1>0. q \in Seq(Wire) /\ Len(q) \in Nat
    BY LenProperties DEF Carries
  <1>2. /\ r \in Seq(Wire) /\ Len(r) = Len(q) + 1 /\ r[Len(q) + 1] = w
        /\ \A k \in 1 .. Len(q) : r[k] = q[k]
    BY <1>0, AppendProperties
  <1>3. /\ \A i \in 1 .. Len(r) : i \in 1 .. Len(q) \/ i = Len(q) + 1
        /\ \A i \in 1 .. Len(q) : i \in 1 .. Len(q) + 1
        /\ Len(q) + 1 \in 1 .. Len(q) + 1
        /\ Len(r) + 1 = Len(q) + 2 /\ Len(r) + 1 # 1 /\ (Len(r) + 1) - 1 = Len(q) + 1
    BY <1>0, <1>2, SMT
  <1>4. \A i \in 1 .. Len(q) : IF r[i].n # 0 THEN Reads(r, sid, esc, S, i)
                               ELSE Passes(r, esc, i)
    BY <1>0, GrownReads DEF Carries
  <1>5. /\ \A s : IsSid(r, sid, Len(q) + 1, s) <=> IsSid(q, sid, Len(q) + 1, s)
        /\ EscAt(r, esc, Len(q) + 1) <=> EscAt(q, esc, Len(q) + 1)
    BY <1>0, <1>3, Grown
  <1>6. IsSid(r, sid, Len(r) + 1, None) \/ IsSid(r, sid, Len(r) + 1, out)
    BY <1>0, <1>3, SidBehind, SpecialBytes DEF Carries
  <1> HIDE DEF r
  <1>7. ~EscAt(r, esc, Len(r) + 1)
    BY <1>2, <1>3, SpecialBytes DEF EscAt
  <1>8. Reads(r, sid, esc, S, Len(q) + 1)
    BY <1>2, <1>5 DEF Reads, Carries
  <1>9. \A i \in 1 .. Len(r) : IF r[i].n # 0 THEN Reads(r, sid, esc, S, i)
                               ELSE Passes(r, esc, i)
    BY <1>2, <1>3, <1>4, <1>8
  <1>10. S \in Sends
    BY DEF Carries
  <1>11. Carries(r, sid, esc, S, out, FALSE)
    BY <1>2, <1>6, <1>7, <1>9, <1>10 DEF Carries
  <1> QED
    BY <1>11 DEF r

\* The sender's user has more to send.
LEMMA MoreCarried ==
    ASSUME NEW q, NEW sid, NEW esc, NEW S, NEW out, NEW open,
           Carries(q, sid, esc, S, out, open),
           NEW e \in [s : Services, b : Payload]
    PROVE  Carries(q, sid, esc, Append(S, e), out, open)
  <1>1. /\ Append(S, e) \in Sends
        /\ \A n \in 1 .. Len(S) : Append(S, e)[n] = S[n] /\ n \in 1 .. Len(Append(S, e))
    <2>1. S \in Sends /\ Len(S) \in Nat
      BY LenProperties DEF Carries, Sends
    <2> QED
      BY <2>1, AppendProperties, SMT DEF Sends
  <1>2. \A i \in 1 .. Len(q) : Reads(q, sid, esc, S, i) => Reads(q, sid, esc, Append(S, e), i)
    BY <1>1 DEF Reads
  <1> QED
    BY <1>1, <1>2 DEF Carries

\* The first byte is read: the service in force becomes s, the escape e.
LEMMA CarriesRead ==
    ASSUME NEW q, q # <<>>, NEW sid, NEW esc, NEW S, NEW out, NEW open,
           Carries(q, sid, esc, S, out, open),
           NEW s, s = IF Head(q).b \in Services THEN Head(q).b ELSE sid,
           NEW e, e = TRUE <=> Head(q).b = ESC
    PROVE  /\ Carries(Tail(q), s, e, S, out, open)
           /\ Head(q).n # 0 => Reads(q, sid, esc, S, 1)
           /\ Head(q).n = 0 => Passes(q, esc, 1)
  <1> DEFINE t == Tail(q)
  <1>0. q \in Seq(Wire) /\ S \in Sends
    BY DEF Carries
  <1>1. /\ Len(q) \in Nat /\ Len(t) = Len(q) - 1 /\ Len(t) \in Nat /\ Head(q) = q[1]
        /\ t \in Seq(Wire) /\ \A k \in 1 .. Len(t) : t[k] = q[k + 1]
    BY <1>0, LenProperties, HeadTailProperties, EmptySeq, SMT
  <1>2. \A i \in 1 .. Len(t) + 1 :
            /\ \A o : IsSid(q, sid, i + 1, o) => IsSid(t, s, i, o)
            /\ EscAt(t, e, i) <=> EscAt(q, esc, i + 1)
    BY <1>0, Shifted
  <1> HIDE DEF t
  <1>3. /\ 1 \in 1 .. Len(q) /\ (Len(t) + 1) + 1 = Len(q) + 1 /\ Len(t) + 1 \in 1 .. Len(t) + 1
        /\ \A i \in 1 .. Len(t) : i \in 1 .. Len(t) + 1 /\ i + 1 \in 1 .. Len(q)
    BY <1>1, SMT
  <1>4. \A i \in 1 .. Len(q) : IF q[i].n # 0 THEN Reads(q, sid, esc, S, i)
                               ELSE Passes(q, esc, i)
    BY DEF Carries
  <1>5. ASSUME NEW i \in 1 .. Len(t)
        PROVE  IF t[i].n # 0 THEN Reads(t, s, e, S, i) ELSE Passes(t, e, i)
    <2>1. t[i] = q[i + 1] /\ (EscAt(t, e, i) <=> EscAt(q, esc, i + 1))
          /\ \A o : IsSid(q, sid, i + 1, o) => IsSid(t, s, i, o)
      BY <1>1, <1>2, <1>3
    <2>2. IF q[i + 1].n # 0 THEN Reads(q, sid, esc, S, i + 1) ELSE Passes(q, esc, i + 1)
      BY <1>3, <1>4
    <2>3. Reads(q, sid, esc, S, i + 1) => Reads(t, s, e, S, i)
      BY <2>1, Zenon DEF Reads
    <2>4. Passes(q, esc, i + 1) => Passes(t, e, i)
      BY <2>1, Zenon DEF Passes
    <2> QED
      BY <2>1, <2>2, <2>3, <2>4
  <1>6. /\ IsSid(t, s, Len(t) + 1, None) \/ IsSid(t, s, Len(t) + 1, out)
        /\ EscAt(t, e, Len(t) + 1) => open = TRUE
        /\ open = TRUE => EscAt(t, e, Len(t) + 1) \/ IsSid(t, s, Len(t) + 1, None)
    BY <1>2, <1>3 DEF Carries
  <1>7. Carries(t, s, e, S, out, open)
    BY <1>0, <1>1, <1>5, <1>6 DEF Carries
  <1>8. /\ Head(q).n # 0 => Reads(q, sid, esc, S, 1)
        /\ Head(q).n = 0 => Passes(q, esc, 1)
    BY <1>1, <1>3, <1>4
  <1> QED
    BY <1>7, <1>8 DEF t

\* A byte of data that a receiver with a service reads is what was sent.
LEMMA Decoded ==
    ASSUME NEW q, NEW sid, sid # None, NEW esc \in BOOLEAN, NEW S \in Sends,
           Reads(q, sid, esc, S, 1)
    PROVE  /\ S[q[1].n].s = sid
           /\ (IF esc THEN Xored(q[1].b) ELSE q[1].b) = S[q[1].n].b
           /\ ~(esc /\ q[1].b \notin Special /\ Xored(q[1].b) \notin Special)
  <1>1. 1 .. 1 - 1 = {}
    BY SMT
  <1>2. \A o : IsSid(q, sid, 1, o) => o = sid
    BY <1>1 DEF IsSid
  <1>3. S[q[1].n].s = sid /\ ~IsSid(q, sid, 1, None) /\ (EscAt(q, esc, 1) <=> esc = TRUE)
    BY <1>2 DEF Reads, EscAt
  <1>4. CASE esc = TRUE
    <2>1. S[q[1].n].b \in Special /\ q[1].b = Xored(S[q[1].n].b)
      BY <1>3, <1>4 DEF Reads
    <2>2. Xored(q[1].b) = S[q[1].n].b
      BY <2>1, SpecialBytes
    <2> QED
      BY <1>3, <1>4, <2>1, <2>2
  <1>5. CASE esc = FALSE
    BY <1>3, <1>5 DEF Reads
  <1> QED
    BY <1>4, <1>5

\* The parts of what is left of a line when its beginning is lost.
LEMMA LostIs ==
    ASSUME NEW q \in Seq(Wire), NEW k \in 1 .. Len(q) + 1, NEW t, t = SubSeq(q, k, Len(q))
    PROVE  /\ t \in Seq(Wire) /\ Len(t) \in Nat /\ Len(t) = (Len(q) - k) + 1
           /\ Len(q) \in Nat /\ k \in Nat /\ k # 0
           /\ \A i \in 1 .. Len(t) : (k + i) - 1 \in 1 .. Len(q) /\ t[i] = q[(k + i) - 1]
  <1> DEFINE n == Len(q)
  <1>1. n \in Nat /\ k \in Nat /\ k # 0 /\ k \in Int /\ n \in Int /\ k <= n + 1
        /\ \A i \in k .. n : i \in 1 .. n
    BY LenProperties, SMT
  <1>2. \A i \in k .. n : q[i] \in Wire
    BY <1>1, ElementOfSeq
  <1>3. /\ t \in Seq(Wire) /\ Len(t) = IF k <= n THEN (n - k) + 1 ELSE 0
        /\ \A i \in 1 .. (n - k) + 1 : t[i] = q[(k + i) - 1]
    BY <1>1, <1>2, SubSeqProperties
  <1> HIDE DEF n
  <1>4. Len(t) = (n - k) + 1 /\ Len(t) \in Nat
        /\ \A i \in 1 .. Len(t) : (k + i) - 1 \in 1 .. n
    BY <1>1, <1>3, SMT
  <1> QED
    BY <1>1, <1>3, <1>4 DEF n

\* The receiver is restarted: it knows the service in force or none.
LEMMA LostSid ==
    ASSUME NEW q \in Seq(Wire), NEW k \in 1 .. Len(q) + 1, NEW t, t = SubSeq(q, k, Len(q)),
           NEW i \in 1 .. Len(t) + 1, NEW sid, NEW o, IsSid(q, sid, (k + i) - 1, o)
    PROVE  IsSid(t, None, i, None) \/ IsSid(t, None, i, o)
  <1>1. /\ Len(t) \in Nat /\ Len(q) \in Nat /\ k \in Nat /\ k # 0
        /\ \A h \in 1 .. Len(t) : (k + h) - 1 \in 1 .. Len(q) /\ t[h] = q[(k + h) - 1]
    BY LostIs
  <1>2. /\ ((k + i) - 1) - 1 = (k + i) - 2 /\ i \in Nat
        /\ \A h \in 1 .. i - 1 : h \in 1 .. Len(t) /\ (k + h) - 1 \in 1 .. ((k + i) - 1) - 1
    BY <1>1, SMT
  <1>3. ASSUME \A h \in 1 .. i - 1 : t[h].b \notin Services PROVE IsSid(t, None, i, None)
    BY <1>3 DEF IsSid
  <1>4. CASE \A h \in 1 .. ((k + i) - 1) - 1 : q[h].b \notin Services
    BY <1>1, <1>2, <1>3, <1>4
  <1>5. ASSUME NEW j \in 1 .. ((k + i) - 1) - 1, q[j].b = o, o \in Services,
               \A h \in j + 1 .. ((k + i) - 1) - 1 : q[h].b \notin Services
        PROVE  IsSid(t, None, i, None) \/ IsSid(t, None, i, o)
    <2>1. CASE j < k
      <3>1. \A h \in 1 .. i - 1 : (k + h) - 1 \in j + 1 .. ((k + i) - 1) - 1 /\ h \in 1 .. Len(t)
        BY <1>1, <2>1, SMT
      <3> QED
        BY <1>1, <1>3, <1>5, <3>1
    <2>2. CASE ~(j < k)
      <3> DEFINE g == (j - k) + 1
      <3>1. /\ j \in Int /\ k <= j /\ j <= (k + i) - 2 /\ i \in Nat /\ k \in Nat
            /\ i <= Len(t) + 1 /\ Len(t) \in Nat
        BY <1>1, <2>2, SMT
      <3>2. g \in 1 .. i - 1 /\ (k + g) - 1 = j /\ g \in 1 .. Len(t)
        BY <3>1, SMT
      <3>3. \A h \in g + 1 .. i - 1 :
                 (k + h) - 1 \in j + 1 .. ((k + i) - 1) - 1 /\ h \in 1 .. Len(t)
        BY <3>1, SMT
      <3> HIDE DEF g
      <3>4. t[g].b = o /\ \A h \in g + 1 .. i - 1 : t[h].b \notin Services
        BY <1>1, <1>5, <3>2, <3>3
      <3> QED
        BY <1>5, <3>2, <3>4 DEF IsSid
    <2> QED
      BY <2>1, <2>2
  <1> QED
    BY <1>4, <1>5 DEF IsSid

\* The receiver is restarted and what arrived first is lost, perhaps an escape
\* or a service: what is left is read as before, or without a service.
LEMMA CarriesLost ==
    ASSUME NEW q, NEW sid, NEW esc, NEW S, NEW out, NEW open,
           Carries(q, sid, esc, S, out, open),
           NEW k \in 1 .. Len(q) + 1
    PROVE  Carries(SubSeq(q, k, Len(q)), None, FALSE, S, out, open)
  <1>1. PICK t : t = SubSeq(q, k, Len(q))
    OBVIOUS
  <1>2. q \in Seq(Wire) /\ S \in Sends
    BY DEF Carries
  <1>3. /\ t \in Seq(Wire) /\ Len(t) \in Nat /\ Len(t) = (Len(q) - k) + 1
        /\ Len(q) \in Nat /\ k \in Nat /\ k # 0
        /\ \A i \in 1 .. Len(t) : (k + i) - 1 \in 1 .. Len(q) /\ t[i] = q[(k + i) - 1]
    BY <1>1, <1>2, LostIs
  <1>4. \A i \in 1 .. Len(t) + 1 : \A o :
          IsSid(q, sid, (k + i) - 1, o) => IsSid(t, None, i, None) \/ IsSid(t, None, i, o)
    BY <1>1, <1>2, LostSid
  <1>5. \A i \in 1 .. Len(t) + 1 :
          \/ i = 1 /\ ~EscAt(t, FALSE, i) /\ IsSid(t, None, i, None)
          \/ i # 1 /\ (EscAt(t, FALSE, i) <=> EscAt(q, esc, (k + i) - 1))
    <2> SUFFICES ASSUME NEW i \in 1 .. Len(t) + 1
                 PROVE  \/ i = 1 /\ ~EscAt(t, FALSE, i) /\ IsSid(t, None, i, None)
                        \/ i # 1 /\ (EscAt(t, FALSE, i) <=> EscAt(q, esc, (k + i) - 1))
      OBVIOUS
    <2>1. CASE i = 1
      <3>1. 1 .. i - 1 = {}
        BY <2>1, SMT
      <3> QED
        BY <2>1, <3>1 DEF EscAt, IsSid
    <2>2. CASE i # 1
      <3>1. i - 1 \in 1 .. Len(t) /\ (k + (i - 1)) - 1 = ((k + i) - 1) - 1 /\ (k + i) - 1 # 1
        BY <1>3, <2>2, SMT
      <3>2. t[i - 1] = q[((k + i) - 1) - 1]
        BY <1>3, <3>1
      <3> QED
        BY <2>2, <3>1, <3>2 DEF EscAt
    <2> QED
      BY <2>1, <2>2
  <1>6. \A i \in 1 .. Len(t) : i \in 1 .. Len(t) + 1
    BY <1>3, SMT
  <1>7. ASSUME NEW i \in 1 .. Len(t)
        PROVE  IF t[i].n # 0 THEN Reads(t, None, FALSE, S, i) ELSE Passes(t, FALSE, i)
    <2>1. PICK h : h = (k + i) - 1
      OBVIOUS
    <2>2. /\ h \in 1 .. Len(q) /\ t[i] = q[h] /\ i \in 1 .. Len(t) + 1
          /\ \A o : IsSid(q, sid, h, o) => IsSid(t, None, i, None) \/ IsSid(t, None, i, o)
          /\ \/ ~EscAt(t, FALSE, i) /\ IsSid(t, None, i, None)
             \/ EscAt(t, FALSE, i) <=> EscAt(q, esc, h)
      BY <1>3, <1>4, <1>5, <1>6, <2>1
    <2>3. IF q[h].n # 0 THEN Reads(q, sid, esc, S, h) ELSE Passes(q, esc, h)
      BY <2>2 DEF Carries
    <2>4. Reads(q, sid, esc, S, h) => Reads(t, None, FALSE, S, i)
      <3> SUFFICES ASSUME Reads(q, sid, esc, S, h) PROVE Reads(t, None, FALSE, S, i)
        OBVIOUS
      <3>1. IsSid(q, sid, h, None) => IsSid(t, None, i, None)
        BY <2>2
      <3>2. IsSid(t, None, i, None) \/ IsSid(t, None, i, S[t[i].n].s)
        BY <2>2 DEF Reads
      <3>3. EscAt(t, FALSE, i) => S[t[i].n].b \in Special /\ t[i].b = Xored(S[t[i].n].b)
        BY <2>2 DEF Reads
      <3>4. ~EscAt(t, FALSE, i) =>
               \/ IsSid(t, None, i, None)
               \/ S[t[i].n].b \notin Special /\ t[i].b = S[t[i].n].b
        BY <2>2, <3>1 DEF Reads
      <3>5. t[i].n \in 1 .. Len(S) /\ t[i].b \notin Special
        BY <2>2 DEF Reads
      <3> QED
        BY <3>2, <3>3, <3>4, <3>5 DEF Reads
    <2>5. Passes(q, esc, h) => Passes(t, FALSE, i)
      BY <2>2 DEF Passes
    <2> QED
      BY <2>2, <2>3, <2>4, <2>5
  <1>8. (k + (Len(t) + 1)) - 1 = Len(q) + 1 /\ Len(t) + 1 \in 1 .. Len(t) + 1
    BY <1>3, SMT
  <1>9. IsSid(t, None, Len(t) + 1, None) \/ IsSid(t, None, Len(t) + 1, out)
    BY <1>4, <1>8 DEF Carries
  <1>10. /\ EscAt(t, FALSE, Len(t) + 1) => open = TRUE
         /\ open = TRUE => EscAt(t, FALSE, Len(t) + 1) \/ IsSid(t, None, Len(t) + 1, None)
    BY <1>4, <1>5, <1>8 DEF Carries
  <1>11. Carries(t, None, FALSE, S, out, open)
    BY <1>2, <1>3, <1>7, <1>9, <1>10 DEF Carries
  <1> QED
    BY <1>1, <1>11

\* A byte follows: a service, a control byte, or data behind a service.
LEMMA HeardMore ==
    ASSUME NEW q \in Seq(Wire), NEW w \in Wire, NEW sid, NEW on, Heard(q, sid, on)
    PROVE  /\ w.b \in Services => Heard(Append(q, w), sid, TRUE)
           /\ w.b \in Special \/ on = TRUE => Heard(Append(q, w), sid, on)
  <1> DEFINE r == Append(q, w)
  <1>1. /\ Len(q) \in Nat /\ Len(r) = Len(q) + 1 /\ r[Len(q) + 1] = w
        /\ \A k \in 1 .. Len(q) : r[k] = q[k]
    BY LenProperties, AppendProperties
  <1> HIDE DEF r
  <1>2. /\ \A i \in 1 .. Len(r) : i \in 1 .. Len(q) \/ i = Len(q) + 1
        /\ \A i \in 1 .. Len(q) + 1 : \A j \in 1 .. i - 1 : j \in 1 .. Len(q)
        /\ \A i \in 1 .. Len(q) : i \in 1 .. Len(q) + 1
        /\ Len(q) + 1 \in 1 .. Len(q) + 1
        /\ (Len(r) + 1) - 1 = Len(q) + 1 /\ (Len(q) + 1) - 1 = Len(q)
        /\ \A j \in 1 .. Len(q) : j \in 1 .. Len(q) + 1
    BY <1>1, SMT
  <1>3. ASSUME NEW i \in 1 .. Len(q) + 1, HeardAt(q, sid, i) PROVE HeardAt(r, sid, i)
    BY <1>1, <1>2, <1>3 DEF HeardAt
  <1>4. \A i \in 1 .. Len(q) : r[i].b \notin Special => HeardAt(r, sid, i)
    BY <1>1, <1>2, <1>3 DEF Heard
  <1>5. on = TRUE => HeardAt(r, sid, Len(q) + 1) /\ HeardAt(r, sid, Len(r) + 1)
    <2> SUFFICES ASSUME on = TRUE
                 PROVE  HeardAt(r, sid, Len(q) + 1) /\ HeardAt(r, sid, Len(r) + 1)
      OBVIOUS
    <2>1. HeardAt(r, sid, Len(q) + 1)
      BY <1>2, <1>3 DEF Heard
    <2> QED
      BY <1>2, <2>1 DEF HeardAt
  <1>6. w.b \in Services => HeardAt(r, sid, Len(r) + 1) /\ w.b \in Special
    BY <1>1, <1>2, SpecialBytes DEF HeardAt
  <1>7. w.b \in Special \/ on = TRUE =>
          \A i \in 1 .. Len(r) : r[i].b \notin Special => HeardAt(r, sid, i)
    BY <1>1, <1>2, <1>4, <1>5
  <1>8. w.b \in Services => Heard(r, sid, TRUE)
    BY <1>6, <1>7 DEF Heard
  <1>9. w.b \in Special \/ on = TRUE => Heard(r, sid, on)
    BY <1>5, <1>7 DEF Heard
  <1> QED
    BY <1>8, <1>9 DEF r

\* The first byte is read.
LEMMA HeardRead ==
    ASSUME NEW q \in Seq(Wire), q # <<>>, NEW sid, NEW on, Heard(q, sid, on),
           NEW s, s = IF Head(q).b \in Services THEN Head(q).b ELSE sid
    PROVE  /\ Heard(Tail(q), s, on)
           /\ sid = None => Head(q).b \in Special
  <1> DEFINE t == Tail(q)
  <1>1. /\ Len(q) \in Nat /\ Len(t) = Len(q) - 1 /\ Len(t) \in Nat /\ Head(q) = q[1]
        /\ \A k \in 1 .. Len(t) : t[k] = q[k + 1]
    BY LenProperties, HeadTailProperties, EmptySeq, SMT
  <1> HIDE DEF t
  <1>2. /\ 1 \in 1 .. Len(q) /\ 1 .. 1 - 1 = {}
        /\ \A i \in 1 .. Len(t) : i \in 1 .. Len(t) + 1 /\ i + 1 \in 1 .. Len(q)
        /\ Len(t) + 1 \in 1 .. Len(t) + 1 /\ (Len(t) + 1) + 1 = Len(q) + 1
        /\ \A i \in 1 .. Len(t) + 1 : \A j \in 1 .. (i + 1) - 1 :
              j = 1 \/ (j - 1 \in 1 .. i - 1 /\ j - 1 \in 1 .. Len(t) /\ (j - 1) + 1 = j)
    BY <1>1, SMT
  <1>3. ASSUME NEW i \in 1 .. Len(t) + 1, HeardAt(q, sid, i + 1) PROVE HeardAt(t, s, i)
    <2>1. CASE sid # None \/ Head(q).b \in Services
      BY <2>1, SpecialBytes DEF HeardAt
    <2>2. ASSUME NEW j \in 1 .. (i + 1) - 1, q[j].b \in Services, j # 1
          PROVE  HeardAt(t, s, i)
      <3>1. j - 1 \in 1 .. i - 1 /\ j - 1 \in 1 .. Len(t) /\ (j - 1) + 1 = j
        BY <1>2, <2>2
      <3>2. t[j - 1] = q[j]
        BY <1>1, <3>1
      <3> QED
        BY <2>2, <3>1, <3>2 DEF HeardAt
    <2> QED
      BY <1>1, <1>3, <2>1, <2>2 DEF HeardAt
  <1>4. Heard(t, s, on)
    BY <1>1, <1>2, <1>3 DEF Heard
  <1>5. sid = None => Head(q).b \in Special
    <2>1. ~HeardAt(q, None, 1)
      BY <1>2 DEF HeardAt
    <2> QED
      BY <1>1, <1>2, <2>1 DEF Heard
  <1> QED
    BY <1>4, <1>5 DEF t

\* Bytes that are handed out or lost leave the others in order.
LEMMA Thinned ==
    ASSUME NEW ts, NEW q, NEW top, NEW once, InStep(ts, q, top, once),
           NEW ts1, NEW q1, Total(ts, q) \in Nat, Total(ts1, q1) \in Nat, NEW g,
           \A i \in 1 .. Total(ts1, q1) : /\ g[i] \in 1 .. Total(ts, q)
                                          /\ NumAt(ts1, q1, i) = NumAt(ts, q, g[i]),
           \A i, j \in 1 .. Total(ts1, q1) : i < j => g[i] < g[j]
    PROVE  InStep(ts1, q1, top, once)
  <1>1. PICK N : N = 1 .. Total(ts1, q1)
    OBVIOUS
  <1>2. \A i, j \in N : i < j /\ NumAt(ts1, q1, i) # 0 /\ NumAt(ts1, q1, j) # 0
                        => NumAt(ts1, q1, i) <= NumAt(ts1, q1, j)
    <2> SUFFICES ASSUME NEW i \in N, NEW j \in N, i < j, NumAt(ts1, q1, i) # 0,
                        NumAt(ts1, q1, j) # 0
                 PROVE  NumAt(ts1, q1, i) <= NumAt(ts1, q1, j)
      OBVIOUS
    <2>1. /\ g[i] \in 1 .. Total(ts, q) /\ g[j] \in 1 .. Total(ts, q) /\ g[i] < g[j]
          /\ NumAt(ts1, q1, i) = NumAt(ts, q, g[i]) /\ NumAt(ts1, q1, j) = NumAt(ts, q, g[j])
      BY <1>1
    <2> QED
      BY <2>1 DEF InStep
  <1>3. \A i, j, k \in N :
          i < j /\ j < k /\ NumAt(ts1, q1, i) # 0
          => ~(NumAt(ts1, q1, i) = NumAt(ts1, q1, j) /\ NumAt(ts1, q1, j) = NumAt(ts1, q1, k))
    <2> SUFFICES ASSUME NEW i \in N, NEW j \in N, NEW k \in N, i < j, j < k,
                        NumAt(ts1, q1, i) # 0
                 PROVE  ~(NumAt(ts1, q1, i) = NumAt(ts1, q1, j)
                          /\ NumAt(ts1, q1, j) = NumAt(ts1, q1, k))
      OBVIOUS
    <2>1. /\ g[i] \in 1 .. Total(ts, q) /\ g[j] \in 1 .. Total(ts, q)
          /\ g[k] \in 1 .. Total(ts, q) /\ g[i] < g[j] /\ g[j] < g[k]
          /\ NumAt(ts1, q1, i) = NumAt(ts, q, g[i]) /\ NumAt(ts1, q1, j) = NumAt(ts, q, g[j])
          /\ NumAt(ts1, q1, k) = NumAt(ts, q, g[k])
      BY <1>1
    <2> QED
      BY <2>1 DEF InStep
  <1>4. once = TRUE =>
          \A i, j \in N : i < j /\ NumAt(ts1, q1, i) # 0
                          => ~(NumAt(ts1, q1, i) = top /\ NumAt(ts1, q1, j) = top)
    <2> SUFFICES ASSUME once = TRUE, NEW i \in N, NEW j \in N, i < j, NumAt(ts1, q1, i) # 0
                 PROVE  ~(NumAt(ts1, q1, i) = top /\ NumAt(ts1, q1, j) = top)
      OBVIOUS
    <2>1. /\ g[i] \in 1 .. Total(ts, q) /\ g[j] \in 1 .. Total(ts, q) /\ g[i] < g[j]
          /\ NumAt(ts1, q1, i) = NumAt(ts, q, g[i]) /\ NumAt(ts1, q1, j) = NumAt(ts, q, g[j])
      BY <1>1
    <2> QED
      BY <2>1 DEF InStep
  <1>5. \A i \in N : NumAt(ts1, q1, i) \in 0 .. top
    BY <1>1 DEF InStep
  <1> QED
    BY <1>1, <1>2, <1>3, <1>4, <1>5 DEF InStep

\* The beginning of the line is lost or not handed out.
LEMMA BeginningGone ==
    ASSUME NEW ts \in Takes, NEW q \in Seq(Wire), NEW top, NEW once, InStep(ts, q, top, once),
           NEW q1 \in Seq(Wire), NEW d \in Nat, Len(q1) = Len(q) - d,
           \A i \in 1 .. Len(q1) : q1[i] = q[i + d]
    PROVE  InStep(ts, q1, top, once)
  <1>1. PICK a \in Nat, b \in Nat, c \in Nat : a = Len(ts) /\ b = Len(q) /\ c = Len(q1)
    BY LenProperties DEF Takes
  <1>2. Total(ts, q) = a + b /\ Total(ts, q1) = a + c /\ c = b - d
    BY <1>1 DEF Total
  <1>3. PICK g : g = [i \in 1 .. a + c |-> IF i <= a THEN i ELSE i + d]
    OBVIOUS
  <1>4. ASSUME NEW i \in 1 .. a + c
        PROVE  g[i] \in 1 .. a + b /\ NumAt(ts, q1, i) = NumAt(ts, q, g[i])
    <2>1. CASE i <= a
      <3>1. g[i] = i /\ i \in 1 .. a + b
        BY <1>1, <1>2, <1>3, <2>1
      <3> QED
        BY <1>1, <2>1, <3>1 DEF NumAt
    <2>2. CASE ~(i <= a)
      <3>1. g[i] = i + d /\ i + d \in 1 .. a + b /\ ~(i + d <= a) /\ i - a \in 1 .. c
            /\ (i + d) - a = (i - a) + d
        BY <1>1, <1>2, <1>3, <2>2
      <3>2. q1[i - a] = q[(i + d) - a]
        BY <1>1, <3>1
      <3> QED
        BY <1>1, <2>2, <3>1, <3>2 DEF NumAt
    <2> QED
      BY <2>1, <2>2
  <1>5. \A i, j \in 1 .. a + c : i < j => g[i] < g[j]
    BY <1>3
  <1>6. a + b \in Nat /\ a + c \in Nat
    OBVIOUS
  <1> QED
    BY <1>2, <1>4, <1>5, <1>6, Thinned

\* The first byte is handed out.
LEMMA HandedOut ==
    ASSUME NEW ts \in Takes, NEW q \in Seq(Wire), q # <<>>, NEW top, NEW once,
           InStep(ts, q, top, once),
           NEW t \in [s : Services, b : Bytes, n : 0 .. MaxSends], t.n = Head(q).n
    PROVE  InStep(Append(ts, t), Tail(q), top, once)
  <1>1. PICK r, u : r = Tail(q) /\ u = Append(ts, t)
    OBVIOUS
  <1>2. /\ Len(q) \in Nat /\ Len(r) = Len(q) - 1 /\ Len(r) \in Nat /\ Head(q) = q[1]
        /\ \A k \in 1 .. Len(r) : r[k] = q[k + 1]
    BY <1>1, LenProperties, HeadTailProperties, EmptySeq, SMT
  <1>3. /\ Len(ts) \in Nat /\ Len(u) = Len(ts) + 1 /\ u[Len(ts) + 1] = t
        /\ \A k \in 1 .. Len(ts) : u[k] = ts[k]
    BY <1>1, LenProperties, AppendProperties DEF Takes
  <1>4. PICK a \in Nat, c \in Nat : a = Len(ts) /\ c = Len(r)
    BY <1>2, <1>3
  <1>5. Total(ts, q) = a + (c + 1) /\ Total(u, r) = a + (c + 1) /\ Len(u) = a + 1
    BY <1>2, <1>3, <1>4 DEF Total
  <1>6. PICK g : g = [i \in 1 .. a + (c + 1) |-> i]
    OBVIOUS
  <1>7. ASSUME NEW i \in 1 .. a + (c + 1)
        PROVE  g[i] \in 1 .. a + (c + 1) /\ NumAt(u, r, i) = NumAt(ts, q, g[i])
    <2>0. g[i] = i
      BY <1>6
    <2>1. CASE i <= a
      <3>1. i <= a + 1 /\ u[i] = ts[i]
        BY <1>3, <1>4, <2>1
      <3> QED
        BY <1>4, <1>5, <2>0, <2>1, <3>1 DEF NumAt
    <2>2. CASE i = a + 1
      <3>1. ~(i <= a) /\ i - a = 1 /\ i <= a + 1
        BY <2>2
      <3> QED
        BY <1>2, <1>3, <1>4, <1>5, <2>0, <2>2, <3>1 DEF NumAt
    <2>3. CASE ~(i <= a + 1)
      <3>1. ~(i <= a) /\ i - (a + 1) \in 1 .. c /\ (i - (a + 1)) + 1 = i - a
        BY <2>3
      <3>2. r[i - (a + 1)] = q[i - a]
        BY <1>2, <1>4, <3>1
      <3> QED
        BY <1>4, <1>5, <2>0, <2>3, <3>1, <3>2 DEF NumAt
    <2> QED
      BY <2>1, <2>2, <2>3
  <1>8. \A i, j \in 1 .. a + (c + 1) : i < j => g[i] < g[j]
    BY <1>6
  <1>9. /\ Total(ts, q) \in Nat /\ Total(u, r) \in Nat
        /\ \A i \in 1 .. Total(u, r) : /\ g[i] \in 1 .. Total(ts, q)
                                      /\ NumAt(u, r, i) = NumAt(ts, q, g[i])
        /\ \A i, j \in 1 .. Total(u, r) : i < j => g[i] < g[j]
    BY <1>5, <1>7, <1>8
  <1>10. InStep(u, r, top, once)
    BY <1>9, Thinned
  <1> QED
    BY <1>1, <1>10

\* The first m numbers of L, as InStep has them.
Ordered(L, m, top, once) ==
    /\ \A i \in 1 .. m : L[i] \in 0 .. top
    /\ \A i, j \in 1 .. m : i < j /\ L[i] # 0 /\ L[j] # 0 => L[i] <= L[j]
    /\ \A i, j, k \in 1 .. m : i < j /\ j < k /\ L[i] # 0 => ~(L[i] = L[j] /\ L[j] = L[k])
    /\ once = TRUE => \A i, j \in 1 .. m : i < j /\ L[i] # 0 => ~(L[i] = top /\ L[j] = top)

\* A byte is sent: a control byte, the next byte of data, or the last one again.
LEMMA StepOn ==
    ASSUME NEW ts \in Takes, NEW q \in Seq(Wire), NEW w \in Wire, NEW top \in Nat, NEW once,
           InStep(ts, q, top, once)
    PROVE  /\ w.n = 0 => InStep(ts, Append(q, w), top, once)
           /\ w.n = top + 1 => InStep(ts, Append(q, w), top + 1, TRUE)
           /\ w.n = top /\ once = TRUE => InStep(ts, Append(q, w), top, FALSE)
  <1>1. PICK r : r = Append(q, w)
    OBVIOUS
  <1>2. /\ Len(q) \in Nat /\ Len(r) = Len(q) + 1 /\ r[Len(q) + 1] = w
        /\ \A k \in 1 .. Len(q) : r[k] = q[k]
    BY <1>1, LenProperties, AppendProperties
  <1>a. PICK a \in Nat, b \in Nat : a = Len(ts) /\ b = Len(q)
    BY <1>2, LenProperties DEF Takes
  <1>m. PICK m \in Nat : m = a + b
    OBVIOUS
  <1>l. PICK L : L = [i \in 1 .. m |-> NumAt(ts, q, i)]
    OBVIOUS
  <1>n. PICK M : M = [i \in 1 .. m + 1 |-> NumAt(ts, r, i)]
    OBVIOUS
  <1>3. /\ a = Len(ts) /\ b = Len(q) /\ m = a + b
        /\ L = [i \in 1 .. m |-> NumAt(ts, q, i)]
        /\ M = [i \in 1 .. m + 1 |-> NumAt(ts, r, i)]
    BY <1>a, <1>m, <1>l, <1>n
  <1>4. Total(ts, q) = m /\ Total(ts, r) = m + 1
    BY <1>2, <1>3 DEF Total
  <1>5. ASSUME NEW i \in 1 .. m PROVE M[i] = L[i]
    <2>0. i \in 1 .. m + 1
      OBVIOUS
    <2>1. CASE i <= a
      BY <1>3, <2>0, <2>1 DEF NumAt
    <2>2. CASE ~(i <= a)
      <3>1. i - a \in 1 .. b
        BY <1>3, <2>2
      <3>2. r[i - a] = q[i - a]
        BY <1>2, <1>3, <3>1
      <3> QED
        BY <1>3, <2>0, <2>2, <3>2 DEF NumAt
    <2> QED
      BY <2>1, <2>2
  <1>6. M[m + 1] = w.n
    <2>1. m + 1 \in 1 .. m + 1 /\ ~(m + 1 <= a) /\ (m + 1) - a = b + 1
      BY <1>3
    <2> QED
      BY <1>2, <1>3, <2>1 DEF NumAt
  <1>7. /\ \A i \in 1 .. m : L[i] \in 0 .. top
        /\ \A i, j \in 1 .. m : i < j /\ L[i] # 0 /\ L[j] # 0 => L[i] <= L[j]
        /\ \A i, j, k \in 1 .. m : i < j /\ j < k /\ L[i] # 0 => ~(L[i] = L[j] /\ L[j] = L[k])
        /\ once = TRUE => \A i, j \in 1 .. m : i < j /\ L[i] # 0 => ~(L[i] = top /\ L[j] = top)
    BY <1>3, <1>4 DEF InStep
  <1>8. ASSUME NEW x, NEW o, Ordered(M, m + 1, x, o)
        PROVE  InStep(ts, r, x, o)
    BY <1>3, <1>4, <1>8 DEF InStep, Ordered
  <1>9. /\ \A i \in 1 .. m + 1 : i \in 1 .. m \/ i = m + 1
        /\ \A i \in 1 .. m, j \in 1 .. m + 1 : j < i => j \in 1 .. m
        /\ \A i, j \in 1 .. m + 1 : i < j => i \in 1 .. m
    OBVIOUS
  <1>10. ASSUME w.n = 0 PROVE InStep(ts, r, top, once)
    <2>1. \A i \in 1 .. m + 1 : M[i] \in 0 .. top
      BY <1>5, <1>6, <1>7, <1>9, <1>10
    <2>2. \A i, j \in 1 .. m + 1 : i < j /\ M[i] # 0 /\ M[j] # 0 => M[i] <= M[j]
      BY <1>5, <1>6, <1>7, <1>9, <1>10
    <2>3. \A i, j, k \in 1 .. m + 1 :
             i < j /\ j < k /\ M[i] # 0 => ~(M[i] = M[j] /\ M[j] = M[k])
      <3> SUFFICES ASSUME NEW i \in 1 .. m + 1, NEW j \in 1 .. m + 1, NEW k \in 1 .. m + 1,
                          i < j, j < k, M[i] # 0, M[i] = M[j], M[j] = M[k]
                   PROVE  FALSE
        OBVIOUS
      <3>1. i \in 1 .. m /\ j \in 1 .. m /\ k \in 1 .. m
        BY <1>6, <1>9, <1>10
      <3> QED
        BY <1>5, <1>7, <3>1
    <2>4. once = TRUE => \A i, j \in 1 .. m + 1 : i < j /\ M[i] # 0 => ~(M[i] = top /\ M[j] = top)
      <3> SUFFICES ASSUME once = TRUE, NEW i \in 1 .. m + 1, NEW j \in 1 .. m + 1,
                          i < j, M[i] # 0, M[i] = top, M[j] = top
                   PROVE  FALSE
        OBVIOUS
      <3>1. i \in 1 .. m /\ j \in 1 .. m
        BY <1>6, <1>9, <1>10
      <3> QED
        BY <1>5, <1>7, <3>1
    <2>5. Ordered(M, m + 1, top, once)
      BY <2>1, <2>2, <2>3, <2>4 DEF Ordered
    <2> QED
      BY <1>8, <2>5
  <1>11. ASSUME w.n = top + 1 PROVE InStep(ts, r, top + 1, TRUE)
    <2>1. \A i \in 1 .. m : M[i] \in 0 .. top /\ M[i] <= top + 1 /\ M[i] # top + 1
      BY <1>5, <1>7
    <2>2. \A i \in 1 .. m + 1 : M[i] \in 0 .. top + 1
      BY <1>6, <1>9, <1>11, <2>1
    <2>3. \A i, j \in 1 .. m + 1 : i < j /\ M[i] # 0 /\ M[j] # 0 => M[i] <= M[j]
      BY <1>5, <1>6, <1>7, <1>9, <1>11, <2>1
    <2>4. \A i, j, k \in 1 .. m + 1 :
             i < j /\ j < k /\ M[i] # 0 => ~(M[i] = M[j] /\ M[j] = M[k])
      <3> SUFFICES ASSUME NEW i \in 1 .. m + 1, NEW j \in 1 .. m + 1, NEW k \in 1 .. m + 1,
                          i < j, j < k, M[i] # 0, M[i] = M[j], M[j] = M[k]
                   PROVE  FALSE
        OBVIOUS
      <3>1. i \in 1 .. m /\ j \in 1 .. m
        BY <1>9
      <3>2. k \in 1 .. m
        BY <1>6, <1>9, <1>11, <2>1, <3>1
      <3> QED
        BY <1>5, <1>7, <3>1, <3>2
    <2>5. \A i, j \in 1 .. m + 1 : i < j /\ M[i] # 0 => ~(M[i] = top + 1 /\ M[j] = top + 1)
      BY <1>9, <2>1
    <2>6. Ordered(M, m + 1, top + 1, TRUE)
      BY <2>2, <2>3, <2>4, <2>5 DEF Ordered
    <2> QED
      BY <1>8, <2>6
  <1>12. ASSUME w.n = top, once = TRUE PROVE InStep(ts, r, top, FALSE)
    <2>1. \A i \in 1 .. m + 1 : M[i] \in 0 .. top
      BY <1>5, <1>6, <1>7, <1>9, <1>12
    <2>2. \A i, j \in 1 .. m + 1 : i < j /\ M[i] # 0 /\ M[j] # 0 => M[i] <= M[j]
      BY <1>5, <1>6, <1>7, <1>9, <1>12
    <2>3. \A i, j, k \in 1 .. m + 1 :
             i < j /\ j < k /\ M[i] # 0 => ~(M[i] = M[j] /\ M[j] = M[k])
      <3> SUFFICES ASSUME NEW i \in 1 .. m + 1, NEW j \in 1 .. m + 1, NEW k \in 1 .. m + 1,
                          i < j, j < k, M[i] # 0, M[i] = M[j], M[j] = M[k]
                   PROVE  FALSE
        OBVIOUS
      <3>1. i \in 1 .. m /\ j \in 1 .. m
        BY <1>9
      <3>2. CASE k \in 1 .. m
        BY <1>5, <1>7, <3>1, <3>2
      <3>3. CASE k = m + 1
        BY <1>5, <1>6, <1>7, <1>12, <3>1, <3>3
      <3> QED
        BY <1>9, <3>2, <3>3
    <2>4. Ordered(M, m + 1, top, FALSE)
      BY <2>1, <2>2, <2>3 DEF Ordered
    <2> QED
      BY <1>8, <2>4
  <1> QED
    BY <1>1, <1>10, <1>11, <1>12

\* The next byte is about to be sent, or the last one is not repeated any more.
LEMMA StepRaised ==
    ASSUME NEW ts, NEW q, NEW top \in Nat, NEW once, InStep(ts, q, top, once)
    PROVE  /\ \A o : InStep(ts, q, top + 1, o)
           /\ InStep(ts, q, top, FALSE)
  <1>1. PICK m, L : m = Total(ts, q) /\ L = [i \in 1 .. m |-> NumAt(ts, q, i)]
    OBVIOUS
  <1>2. \A i \in 1 .. m : L[i] \in 0 .. top
    BY <1>1 DEF InStep
  <1>3. \A i \in 1 .. m : L[i] \in 0 .. top + 1 /\ L[i] # top + 1
    BY <1>2, SMT
  <1>4. \A i \in 1 .. Total(ts, q) : NumAt(ts, q, i) \in 0 .. top + 1 /\ NumAt(ts, q, i) # top + 1
    BY <1>1, <1>3
  <1> QED
    BY <1>4, Zenon DEF InStep

\* A byte of data is put on the line as one byte or as two.
LEMMA EncodedLine ==
    ASSUME NEW q \in Seq(Wire), NEW b \in Bytes, NEW n \in 0 .. MaxSends
    PROVE  /\ Control(ESC) \in Wire
           /\ [b |-> Xored(b), n |-> n] \in Wire /\ [b |-> b, n |-> n] \in Wire
           /\ b \in Special => q \o Encoded(b, n)
                               = Append(Append(q, Control(ESC)), [b |-> Xored(b), n |-> n])
           /\ b \notin Special => q \o Encoded(b, n) = Append(q, [b |-> b, n |-> n])
  <1>1. PICK v, x, y : v = Control(ESC) /\ x = [b |-> Xored(b), n |-> n] /\ y = [b |-> b, n |-> n]
    OBVIOUS
  <1>2. v \in Wire /\ x \in Wire /\ y \in Wire
    BY <1>1, SpecialBytes DEF Control, Wire
  <1>3. q \o <<v, x>> = Append(Append(q, v), x) /\ q \o <<y>> = Append(q, y)
    BY <1>2, OneBehindTheOther
  <1>4. /\ b \in Special => Encoded(b, n) = <<v, x>>
        /\ b \notin Special => Encoded(b, n) = <<y>>
    BY <1>1 DEF Encoded, Escaped, Plain
  <1> QED
    BY <1>1, <1>2, <1>3, <1>4

\* A byte of data is put on the line behind its service.
LEMMA EncodedCarried ==
    ASSUME NEW q, NEW sid, NEW esc, NEW S, NEW out, Carries(q, sid, esc, S, out, FALSE),
           NEW n \in 1 .. Len(S), n \in 0 .. MaxSends, S[n].s = out
    PROVE  Carries(q \o Encoded(S[n].b, n), sid, esc, S, out, FALSE)
  <1>1. q \in Seq(Wire) /\ S \in Sends /\ n # 0
    BY SMT DEF Carries
  <1>2. PICK b : b = S[n].b
    OBVIOUS
  <1>3. b \in Bytes
    <2>1. S[n] \in [s : Services, b : Payload]
      BY <1>1, ElementOfSeq DEF Sends
    <2> QED
      BY <1>2, <2>1, SpecialBytes
  <1>4. PICK x, y : x = [b |-> Xored(b), n |-> n] /\ y = [b |-> b, n |-> n]
    OBVIOUS
  <1>5. /\ x \in Wire /\ y \in Wire
        /\ x.b = Xored(b) /\ x.n = n /\ y.b = b /\ y.n = n
    BY <1>3, <1>4, <1>1, EncodedLine
  <1>6. CASE b \in Special
    <2>1. PICK r : r = Append(q, Control(ESC))
      OBVIOUS
    <2>2. q \o Encoded(b, n) = Append(r, x)
      BY <1>1, <1>3, <1>4, <1>6, <2>1, EncodedLine
    <2>3. Carries(r, sid, esc, S, out, TRUE)
      BY <2>1, ControlCarried, SpecialBytes
    <2>4. Carries(Append(r, x), sid, esc, S, out, FALSE)
      BY <1>1, <1>2, <1>5, <1>6, <2>3, DataCarried, SpecialBytes
    <2> QED
      BY <1>2, <2>2, <2>4
  <1>7. CASE b \notin Special
    <2>1. q \o Encoded(b, n) = Append(q, y)
      BY <1>1, <1>3, <1>4, <1>7, EncodedLine
    <2>2. Carries(Append(q, y), sid, esc, S, out, FALSE)
      BY <1>1, <1>2, <1>5, <1>7, DataCarried
    <2> QED
      BY <1>2, <2>1, <2>2
  <1> QED
    BY <1>6, <1>7

\* It is the next one, or the last one again.
LEMMA EncodedInStep ==
    ASSUME NEW ts \in Takes, NEW q \in Seq(Wire), NEW b \in Bytes, NEW n \in 0 .. MaxSends,
           NEW top \in Nat, NEW once, InStep(ts, q, top, once)
    PROVE  /\ n = top + 1 => InStep(ts, q \o Encoded(b, n), top + 1, TRUE)
           /\ n = top /\ once = TRUE => InStep(ts, q \o Encoded(b, n), top, FALSE)
  <1>1. PICK v, x, y : v = Control(ESC) /\ x = [b |-> Xored(b), n |-> n] /\ y = [b |-> b, n |-> n]
    OBVIOUS
  <1>2. v \in Wire /\ x \in Wire /\ y \in Wire /\ v.n = 0 /\ x.n = n /\ y.n = n
    BY <1>1, EncodedLine DEF Control
  <1>3. CASE b \in Special
    <2>1. PICK r : r = Append(q, v)
      OBVIOUS
    <2>2. InStep(ts, r, top, once)
      BY <1>2, <2>1, StepOn
    <2>3. r \in Seq(Wire)
      BY <1>2, <2>1, AppendProperties
    <2>4. q \o Encoded(b, n) = Append(r, x)
      BY <1>1, <1>3, <2>1, EncodedLine
    <2> QED
      BY <1>2, <2>2, <2>3, <2>4, StepOn
  <1>4. CASE b \notin Special
    <2>1. q \o Encoded(b, n) = Append(q, y)
      BY <1>1, <1>4, EncodedLine
    <2> QED
      BY <1>2, <2>1, StepOn
  <1> QED
    BY <1>3, <1>4

\* The service and the last byte are put on the line again.
LEMMA Repeated ==
    ASSUME NEW q, NEW sid, NEW esc, NEW S, NEW out, Carries(q, sid, esc, S, out, FALSE),
           NEW n, n = Len(S), n # 0, n \in 0 .. MaxSends,
           NEW s \in Services, S[n].s = s,
           NEW ts \in Takes, InStep(ts, q, n, TRUE),
           NEW r, r = q \o Repeat(s, Encoded(S[n].b, n))
    PROVE  /\ Carries(r, sid, esc, S, s, FALSE)
           /\ InStep(ts, r, n, FALSE)
  <1>1. q \in Seq(Wire) /\ S \in Sends /\ n \in Nat
    BY LenProperties DEF Carries, Sends
  <1>2. n \in 1 .. n
    BY <1>1, SMT
  <1>3. PICK b : b = S[n].b
    OBVIOUS
  <1>4. b \in Bytes
    <2>1. S[n] \in [s : Services, b : Payload]
      BY <1>1, <1>2, ElementOfSeq DEF Sends
    <2> QED
      BY <1>3, <2>1, SpecialBytes
  <1>5. PICK v, code, p : v = Control(s) /\ code = Encoded(b, n) /\ p = Append(q, v)
    OBVIOUS
  <1>6. v \in Wire /\ v.n = 0 /\ v.b = s /\ code \in Seq(Wire)
    BY <1>4, <1>5, SpecialBytes, LastSentType DEF Control, Wire
  <1>7. r = p \o code
    <2>1. Repeat(s, code) = <<v>> \o code
      BY <1>5, SpecialBytes DEF Repeat, SidByte
    <2>2. <<v>> \in Seq(Wire)
      BY <1>6
    <2>3. q \o (<<v>> \o code) = (q \o <<v>>) \o code
      <3>1. q \in Seq(Wire) /\ code \in Seq(Wire)
        BY <1>1, <1>6
      <3> QED
        BY <2>2, <3>1, ConcatAssociative
    <2>4. q \o <<v>> = Append(q, v)
      BY <1>1, <1>6, OneBehindTheOther
    <2> QED
      BY <1>3, <1>5, <2>1, <2>3, <2>4
  <1>8. Carries(p, sid, esc, S, s, FALSE)
    BY <1>5, <1>6, ControlCarried, SpecialBytes
  <1>9. Carries(p \o code, sid, esc, S, s, FALSE)
    BY <1>2, <1>3, <1>5, <1>8, EncodedCarried
  <1>10. p \in Seq(Wire) /\ InStep(ts, p, n, TRUE)
    BY <1>1, <1>5, <1>6, StepOn, AppendProperties
  <1>11. InStep(ts, p \o code, n, FALSE)
    BY <1>1, <1>4, <1>5, <1>10, EncodedInStep
  <1> QED
    BY <1>7, <1>9, <1>11

\* Neither a byte of data nor a service asks for a repetition.
LEMMA NoForceMore ==
    ASSUME NEW q \in Seq(Wire), NoForce(q)
    PROVE  /\ \A w \in Wire : w.b # FORCE => NoForce(Append(q, w))
           /\ \A b \in Bytes, n \in 0 .. MaxSends : NoForce(q \o Encoded(b, n))
           /\ q # <<>> => NoForce(Tail(q)) /\ Head(q).b # FORCE
           /\ \A k \in 1 .. Len(q) + 1 : NoForce(SubSeq(q, k, Len(q)))
  <1>1. ASSUME NEW p \in Seq(Wire), NoForce(p), NEW w \in Wire, w.b # FORCE
        PROVE  Append(p, w) \in Seq(Wire) /\ NoForce(Append(p, w))
    <2>1. /\ Len(Append(p, w)) = Len(p) + 1 /\ Len(p) \in Nat /\ Append(p, w)[Len(p) + 1] = w
          /\ \A k \in 1 .. Len(p) : Append(p, w)[k] = p[k]
          /\ Append(p, w) \in Seq(Wire)
      BY AppendProperties, LenProperties
    <2>2. \A i \in 1 .. Len(p) + 1 : i \in 1 .. Len(p) \/ i = Len(p) + 1
      BY <2>1, SMT
    <2> QED
      BY <1>1, <2>1, <2>2 DEF NoForce
  <1>2. ASSUME NEW b \in Bytes, NEW n \in 0 .. MaxSends PROVE NoForce(q \o Encoded(b, n))
    <2>1. PICK v, x, y :
              v = Control(ESC) /\ x = [b |-> Xored(b), n |-> n] /\ y = [b |-> b, n |-> n]
      OBVIOUS
    <2>2. v \in Wire /\ x \in Wire /\ y \in Wire /\ v.b = ESC /\ x.b = Xored(b) /\ y.b = b
      BY <2>1, EncodedLine DEF Control
    <2>3. CASE b \in Special
      <3>1. x.b # FORCE /\ v.b # FORCE
        BY <2>2, <2>3, SpecialBytes
      <3>2. Append(q, v) \in Seq(Wire) /\ NoForce(Append(q, v))
        BY <1>1, <2>2, <3>1
      <3>3. NoForce(Append(Append(q, v), x))
        BY <1>1, <2>2, <3>1, <3>2
      <3> QED
        BY <2>1, <2>3, <3>3, EncodedLine
    <2>4. CASE b \notin Special
      <3>1. NoForce(Append(q, y))
        BY <1>1, <2>2, <2>4, SpecialBytes
      <3> QED
        BY <2>1, <2>4, <3>1, EncodedLine
    <2> QED
      BY <2>3, <2>4
  <1>3. ASSUME q # <<>> PROVE NoForce(Tail(q)) /\ Head(q).b # FORCE
    <2>1. /\ Len(q) \in Nat /\ Len(Tail(q)) = Len(q) - 1 /\ Head(q) = q[1] /\ Len(q) # 0
          /\ \A k \in 1 .. Len(Tail(q)) : Tail(q)[k] = q[k + 1]
      BY <1>3, LenProperties, HeadTailProperties, EmptySeq, SMT
    <2>2. 1 \in 1 .. Len(q) /\ \A k \in 1 .. Len(Tail(q)) : k + 1 \in 1 .. Len(q)
      BY <2>1, SMT
    <2> QED
      BY <2>1, <2>2 DEF NoForce
  <1>4. ASSUME NEW k \in 1 .. Len(q) + 1 PROVE NoForce(SubSeq(q, k, Len(q)))
    <2>1. PICK t : t = SubSeq(q, k, Len(q))
      OBVIOUS
    <2>2. \A i \in 1 .. Len(t) : (k + i) - 1 \in 1 .. Len(q) /\ t[i] = q[(k + i) - 1]
      BY <2>1, LostIs
    <2> QED
      BY <2>1, <2>2 DEF NoForce
  <1> QED
    BY <1>1, <1>2, <1>3, <1>4

\* Once a service is on the line, anything may follow.
LEMMA HeardOn ==
    ASSUME NEW q \in Seq(Wire), NEW t \in Seq(Wire), NEW sid, Heard(q, sid, TRUE)
    PROVE  Heard(q \o t, sid, TRUE)
  <1>1. PICK r : r = q \o t
    OBVIOUS
  <1>2. /\ Len(q) \in Nat /\ Len(t) \in Nat /\ Len(r) = Len(q) + Len(t)
        /\ \A i \in 1 .. Len(q) : r[i] = q[i]
    BY <1>1, LenProperties, ConcatProperties
  <1>3. /\ \A i \in 1 .. Len(r) + 1 : i \in 1 .. Len(q) \/ Len(q) + 1 <= i
        /\ \A i \in 1 .. Len(q) : \A j \in 1 .. i - 1 : j \in 1 .. Len(q)
        /\ \A i \in 1 .. Len(r) + 1 : Len(q) + 1 <= i
                 => \A j \in 1 .. (Len(q) + 1) - 1 : j \in 1 .. Len(q) /\ j \in 1 .. i - 1
        /\ \A i \in 1 .. Len(r) : i \in 1 .. Len(r) + 1
        /\ Len(r) + 1 \in 1 .. Len(r) + 1 /\ Len(q) + 1 <= Len(r) + 1
    BY <1>2, SMT
  <1>4. HeardAt(q, sid, Len(q) + 1)
    BY DEF Heard
  <1>5. ASSUME NEW i \in 1 .. Len(r) + 1, Len(q) + 1 <= i PROVE HeardAt(r, sid, i)
    BY <1>2, <1>3, <1>4, <1>5 DEF HeardAt
  <1>6. ASSUME NEW i \in 1 .. Len(q), r[i].b \notin Special PROVE HeardAt(r, sid, i)
    <2>1. HeardAt(q, sid, i)
      BY <1>2, <1>6 DEF Heard
    <2> QED
      BY <1>2, <1>3, <2>1 DEF HeardAt
  <1> QED
    BY <1>1, <1>3, <1>5, <1>6 DEF Heard

\* A repetition starts with the service.
LEMMA HeardAgain ==
    ASSUME NEW q \in Seq(Wire), NEW sid, NEW on, Heard(q, sid, on),
           NEW s \in Services \cup {None}, NEW last \in LastSent, s # None \/ on = TRUE
    PROVE  Heard(q \o Repeat(s, last), sid, TRUE)
  <1>1. PICK v : v = SidByte(s)
    OBVIOUS
  <1>2. /\ v \in Wire /\ last \in Seq(Wire) /\ v.b \in Special
        /\ s # None => v.b \in Services
    BY <1>1, LastSentType, SpecialBytes DEF SidByte, Control, Wire
  <1>3. Heard(Append(q, v), sid, TRUE)
    BY <1>2, HeardMore
  <1>4. q \o Repeat(s, last) = Append(q, v) \o last
    <2>1. <<v>> \in Seq(Wire)
      BY <1>2
    <2>2. q \o (<<v>> \o last) = (q \o <<v>>) \o last
      BY <1>2, <2>1, ConcatAssociative
    <2>3. q \o <<v>> = Append(q, v)
      BY <1>2, OneBehindTheOther
    <2> QED
      BY <1>1, <2>2, <2>3 DEF Repeat
  <1>5. Append(q, v) \in Seq(Wire)
    BY <1>2, AppendProperties
  <1> QED
    BY <1>2, <1>3, <1>4, <1>5, HeardOn

\* What is lost, the receiver has not heard.
LEMMA HeardNothing == \A sid : Heard(<<>>, sid, FALSE)
  <1>1. 1 .. Len(<<>>) = {}
    BY EmptySeq, SMT
  <1> QED
    BY <1>1 DEF Heard

\* More is sent, or what was read right is handed out.
LEMMA RightMore ==
    ASSUME NEW ts \in Takes, NEW us \in Sends, Right(ts, us)
    PROVE  /\ \A e \in [s : Services, b : Payload] : Right(ts, Append(us, e))
           /\ \A t \in [s : Services, b : Bytes, n : 0 .. MaxSends] :
                 t.n \in 1 .. Len(us) /\ t.s = us[t.n].s /\ t.b = us[t.n].b
                 => Right(Append(ts, t), us)
  <1>1. ASSUME NEW e \in [s : Services, b : Payload] PROVE Right(ts, Append(us, e))
    <2>1. /\ Len(us) \in Nat /\ Len(Append(us, e)) = Len(us) + 1
          /\ \A n \in 1 .. Len(us) : Append(us, e)[n] = us[n]
      BY LenProperties, AppendProperties DEF Sends
    <2>2. \A n \in 1 .. Len(us) : n \in 1 .. Len(us) + 1
      BY <2>1, SMT
    <2> QED
      BY <2>1, <2>2 DEF Right
  <1>2. ASSUME NEW t \in [s : Services, b : Bytes, n : 0 .. MaxSends],
               t.n \in 1 .. Len(us), t.s = us[t.n].s, t.b = us[t.n].b
        PROVE  Right(Append(ts, t), us)
    <2>1. PICK r : r = Append(ts, t)
      OBVIOUS
    <2>2. /\ Len(ts) \in Nat /\ Len(r) = Len(ts) + 1 /\ r[Len(ts) + 1] = t
          /\ \A k \in 1 .. Len(ts) : r[k] = ts[k]
      BY <2>1, LenProperties, AppendProperties DEF Takes
    <2>3. \A i \in 1 .. Len(r) : i \in 1 .. Len(ts) \/ i = Len(ts) + 1
      BY <2>2, SMT
    <2> QED
      BY <1>2, <2>1, <2>2, <2>3 DEF Right
  <1> QED
    BY <1>1, <1>2

\* The byte of platform_uart_send stays the last one of the device's users.
LEMMA SendKeepsByte ==
    ASSUME Types, AtSend, platform_uart_send
    PROVE  AtSend'
  <1> USE DEF Types
  <1>1. UNCHANGED host
    BY DEF platform_uart_send, SendSid, SetLast, SendEsc, SendXored, SendData, SetMask, SetOut,
           Transmit
  <1>2. ASSUME NEW id \in Services, NEW data \in Payload, SendSid(id, data) PROVE AtSend'
    <2>1. /\ pc' = "last" /\ arg'.id = id /\ arg'.data = data
          /\ sent'["dev"] = Append(sent["dev"], [s |-> id, b |-> data])
      BY <1>2 DEF SendSid, SentTypes, Sides
    <2>2. Now' # 0 /\ sent'["dev"][Now'] = [s |-> id, b |-> data]
      <3>1. PICK e : e = [s |-> id, b |-> data]
        OBVIOUS
      <3>2. sent["dev"] \in Seq([s : Services, b : Payload]) /\ e \in [s : Services, b : Payload]
        BY <3>1 DEF SentTypes, Sides, Sends
      <3>3. Len(sent["dev"]) \in Nat /\ Len(Append(sent["dev"], e)) = Len(sent["dev"]) + 1
            /\ Append(sent["dev"], e)[Len(sent["dev"]) + 1] = e
        BY <3>2, LenProperties, AppendProperties
      <3>4. Len(sent["dev"]) + 1 # 0
        BY <3>3, SMT
      <3> QED
        BY <2>1, <3>1, <3>3, <3>4 DEF Now
    <2> QED
      BY <1>1, <2>1, <2>2 DEF AtSend, Tested
  <1>3. ASSUME pc # "idle", pc' # "idle", UNCHANGED <<arg, sent>>, Tested' PROVE AtSend'
    BY <1>1, <1>3 DEF AtSend, Now
  <1>4. CASE SetLast
    BY <1>3, <1>4 DEF SetLast, Tested
  <1>5. CASE SetMask
    BY <1>3, <1>5 DEF SetMask, Tested
  <1>6. CASE SendEsc
    BY <1>3, <1>6 DEF SendEsc, Transmit, AtSend, Tested
  <1>7. CASE SendXored
    BY <1>3, <1>7 DEF SendXored, Transmit, AtSend, Tested
  <1>8. CASE SendData
    BY <1>3, <1>8 DEF SendData, Transmit, AtSend, Tested
  <1>9. CASE SetOut
    <2>1. pc' = "idle" /\ dev'.sid_out \in Services
      BY <1>9 DEF SetOut, DevTypes, Args
    <2> QED
      BY <1>1, <2>1 DEF AtSend, Tested
  <1> QED
    BY <1>2, <1>4, <1>5, <1>6, <1>7, <1>8, <1>9 DEF platform_uart_send

\* Data of the device follows its first service.
LEMMA SendKeepsDevLine ==
    ASSUME Types, DevLine, platform_uart_send
    PROVE  DevLine'
  <1> USE DEF Types
  <1>1. /\ UNCHANGED <<host, toDev, taken>> /\ sent'["host"] = sent["host"]
        /\ dev'.sid_in = dev.sid_in /\ dev'.got_esc = dev.got_esc
    BY DEF platform_uart_send, SendSid, SetLast, SendEsc, SendXored, SendData, SetMask, SetOut,
           Transmit, DevTypes, SentTypes, Sides
  <1>2. /\ toHost \in Seq(Wire) /\ dev.sid_out \in Services \cup {None}
        /\ pc # "idle" => arg.id \in Services /\ arg.data \in Bytes
        /\ Len(sent["dev"]) \in 0 .. MaxSends
    <2>1. /\ toHost \in Seq(Wire) /\ dev.sid_out \in Services \cup {None}
          /\ pc # "idle" => arg.id \in Services /\ arg.data \in Bytes
      BY SpecialBytes DEF LineTypes, DevTypes, Args
    <2>2. Len(sent["dev"]) \in Nat /\ Len(sent["dev"]) <= MaxSends
      BY LenProperties DEF SentTypes, Sends, Sides
    <2>3. \A n \in Nat : n <= MaxSends => n \in 0 .. MaxSends
      BY SpecialBytes, SMT
    <2> QED
      BY <2>1, <2>2, <2>3
  <1>3. /\ dev.sid_out # None \/ pc # "idle" => Heard(toHost, host.sid_in, TRUE)
        /\ dev.sid_out = None /\ pc = "idle" => Heard(toHost, host.sid_in, FALSE)
    BY DEF DevLine, Flag
  <1>4. ASSUME Heard(toHost', host.sid_in, TRUE), dev'.sid_out # None \/ pc' # "idle"
        PROVE  DevLine'
    <2>1. Heard(toHost', host'.sid_in, Flag(dev'.sid_out # None \/ pc' # "idle"))
      BY <1>1, <1>4 DEF Flag
    <2> QED
      BY <1>1, <2>1 DEF DevLine
  <1>5. ASSUME NEW id \in Services, NEW data \in Payload, SendSid(id, data) PROVE DevLine'
    <2>1. /\ pc' = "last"
          /\ toHost' = IF id = dev.sid_out THEN toHost ELSE Append(toHost, Control(id))
      BY <1>5 DEF SendSid
    <2>2. Control(id) \in Wire /\ Control(id).b = id /\ id # None
      BY SpecialBytes DEF Control, Wire
    <2>3. CASE id = dev.sid_out
      BY <1>3, <1>4, <2>1, <2>2, <2>3
    <2>4. CASE id # dev.sid_out
      <3>1. Heard(Append(toHost, Control(id)), host.sid_in, TRUE)
        BY <1>2, <1>3, <2>2, HeardMore
      <3> QED
        BY <1>4, <2>1, <2>4, <3>1
    <2> QED
      BY <2>3, <2>4
  <1>6. CASE SetLast \/ SetMask
    BY <1>3, <1>4, <1>6 DEF SetLast, SetMask
  <1>7. CASE SetOut
    <2>1. dev'.sid_out # None /\ UNCHANGED toHost /\ pc # "idle"
      BY <1>2, <1>7, SpecialBytes DEF SetOut, DevTypes
    <2> QED
      BY <1>3, <1>4, <2>1
  <1>8. ASSUME NEW w \in Wire, pc # "idle", pc' # "idle", toHost' = Append(toHost, w)
        PROVE  DevLine'
    <2>1. Heard(Append(toHost, w), host.sid_in, TRUE)
      BY <1>2, <1>3, <1>8, HeardMore
    <2> QED
      BY <1>4, <1>8, <2>1
  <1>9. CASE SendEsc
    <2>1. Control(ESC) \in Wire
      BY SpecialBytes DEF Control, Wire
    <2> QED
      BY <1>8, <1>9, <2>1 DEF SendEsc, Transmit
  <1>10. CASE SendXored
    <2>1. [b |-> Xored(arg.data), n |-> Now] \in Wire
      BY <1>2, <1>10, SpecialBytes DEF SendXored, Transmit, Wire, Now
    <2> QED
      BY <1>8, <1>10, <2>1 DEF SendXored, Transmit
  <1>11. CASE SendData
    <2>1. [b |-> arg.data, n |-> Now] \in Wire
      BY <1>2, <1>11 DEF SendData, Transmit, Wire, Now
    <2> QED
      BY <1>8, <1>11, <2>1 DEF SendData, Transmit
  <1> QED
    BY <1>5, <1>6, <1>7, <1>9, <1>10, <1>11 DEF platform_uart_send

\* platform_uart_send puts its byte on the line behind the service and, if it
\* needs one, the escape; it keeps the byte for a repetition while it does so.
LEMMA SendKeepsHostLine ==
    ASSUME Types, AtSend, HostLine, platform_uart_send
    PROVE  HostLine'
  <1> USE DEF Types
  <1> DEFINE S == sent["dev"]
  <1>1. /\ UNCHANGED <<host, toDev, taken>> /\ dev'.sid_in = dev.sid_in
    BY DEF platform_uart_send, SendSid, SetLast, SendEsc, SendXored, SendData, SetMask, SetOut,
           Transmit, DevTypes
  <1>2. Heard(toDev', dev'.sid_in, Flag(host'.sid_out # None))
    BY <1>1 DEF HostLine
  <1>3. /\ toHost \in Seq(Wire) /\ taken["host"] \in Takes /\ S \in Sends
        /\ Now = Len(S) /\ Now \in Nat /\ Now \in 0 .. MaxSends
        /\ dev.sid_out \in Services \cup {None}
        /\ pc # "idle" => /\ arg.id \in Services /\ arg.data \in Bytes /\ Now \in 1 .. Now
                          /\ Now # 0 /\ S[Now].s = arg.id /\ S[Now].b = arg.data
                          /\ Now - 1 \in Nat /\ (Now - 1) + 1 = Now /\ DevOut = arg.id
    <2>1. /\ toHost \in Seq(Wire) /\ taken["host"] \in Takes /\ S \in Sends
          /\ dev.sid_out \in Services \cup {None}
          /\ pc # "idle" => arg.id \in Services /\ arg.data \in Bytes /\ DevOut = arg.id
      BY SpecialBytes DEF LineTypes, TakenTypes, SentTypes, DevTypes, Sides, Args, DevOut
    <2>2. Now = Len(S) /\ Now \in Nat /\ Now <= MaxSends
      BY LenProperties DEF SentTypes, Sends, Sides, Now
    <2>3. \A n \in Nat : /\ n <= MaxSends => n \in 0 .. MaxSends
                         /\ n # 0 => n \in 1 .. n /\ n - 1 \in Nat /\ (n - 1) + 1 = n
      BY SpecialBytes, SMT
    <2>4. pc # "idle" => Now # 0 /\ S[Now].s = arg.id /\ S[Now].b = arg.data
      BY DEF AtSend
    <2> QED
      BY <2>1, <2>2, <2>3, <2>4
  <1> HIDE DEF S
  <1>4. ASSUME pc' # "idle", UNCHANGED <<arg, sent>>, pc # "idle",
               Carries(toHost', host.sid_in, host.got_esc, S, arg.id, Flag(pc' = "xor")),
               InStep(taken["host"], toHost', OnLine', Once'),
               pc' = "out" => dev'.last_sent = Encoded(arg.data, Now),
               pc' = "data" => dev'.last_sent = Plain(arg.data, Now),
               pc' # "last" => dev'.last_sent # NothingSent
        PROVE  HostLine'
    <2>1. DevOut' = arg.id /\ Now' = Now
      BY <1>4 DEF DevOut, Now
    <2>2. Right(taken["host"], S)
      BY DEF HostLine, S
    <2> QED
      BY <1>1, <1>2, <1>4, <2>1, <2>2 DEF HostLine, S
  <1>5. ASSUME NEW id \in Services, NEW data \in Payload, SendSid(id, data) PROVE HostLine'
    <2> DEFINE e == [s |-> id, b |-> data]
               T == Append(S, e)
               v == Control(id)
    <2>1. /\ pc = "idle" /\ pc' = "last" /\ arg'.id = id /\ UNCHANGED <<dev, host, raced>>
          /\ toHost' = IF id = dev.sid_out THEN toHost ELSE Append(toHost, v)
          /\ sent'["dev"] = T
      BY <1>5 DEF SendSid, S, SentTypes, Sides
    <2>2. e \in [s : Services, b : Payload]
      OBVIOUS
    <2>3. v \in Wire /\ v.b = id /\ v.n = 0 /\ id # None /\ id \in Special /\ id # ESC
      BY SpecialBytes DEF Control, Wire
    <2> HIDE DEF e, v
    <2>4. Len(T) = Len(S) + 1 /\ Len(T) - 1 = Len(S)
      BY <1>3, <2>2, AppendProperties, LenProperties, SMT DEF Sends
    <2> HIDE DEF T
    <2>5. DevOut' = id /\ OnLine' = Now /\ Once' = FALSE /\ Flag(pc' = "xor") = FALSE
      BY <1>3, <2>1, <2>4 DEF DevOut, OnLine, Sending, Now, Once, Flag
    <2>6. DevOut = dev.sid_out /\ OnLine = Now /\ Flag(pc = "xor") = FALSE
      BY <2>1 DEF DevOut, OnLine, Sending, Flag
    <2>7. Carries(toHost, host.sid_in, host.got_esc, T, dev.sid_out, FALSE)
      <3>1. Carries(toHost, host.sid_in, host.got_esc, S, dev.sid_out, FALSE)
        BY <2>6 DEF HostLine, S
      <3> QED
        BY <2>2, <3>1, MoreCarried DEF T
    <2>8. InStep(taken["host"], toHost, Now, FALSE)
      <3>1. InStep(taken["host"], toHost, Now, Once)
        BY <2>6 DEF HostLine
      <3> QED
        BY <1>3, <3>1, StepRaised
    <2>9. Carries(toHost', host.sid_in, host.got_esc, T, id, FALSE)
          /\ InStep(taken["host"], toHost', Now, FALSE)
      <3>1. CASE id = dev.sid_out
        BY <2>1, <2>7, <2>8, <3>1
      <3>2. CASE id # dev.sid_out
        <4>1. Carries(Append(toHost, v), host.sid_in, host.got_esc, T, id, FALSE)
          BY <2>3, <2>7, ControlCarried DEF v
        <4>2. InStep(taken["host"], Append(toHost, v), Now, FALSE)
          BY <1>3, <2>3, <2>8, StepOn
        <4> QED
          BY <2>1, <3>2, <4>1, <4>2
      <3> QED
        BY <3>1, <3>2
    <2>10. Right(taken["host"], T)
      <3>1. Right(taken["host"], S)
        BY DEF HostLine, S
      <3> QED
        BY <1>3, <2>2, <3>1, RightMore DEF T
    <2> QED
      BY <1>1, <1>2, <2>1, <2>5, <2>9, <2>10 DEF HostLine
  <1>6. /\ pc \in {"last", "esc", "xor", "data"} => OnLine = Now - 1 /\ Once = FALSE
        /\ pc \in {"mask", "out"} => OnLine = Now /\ Once = TRUE
        /\ pc' \in {"last", "esc", "xor", "data"} => OnLine' = Now' - 1 /\ Once' = FALSE
        /\ pc' \in {"mask", "out"} => OnLine' = Now' /\ Once' = TRUE
        /\ pc # "idle" /\ pc # "xor" =>
              Carries(toHost, host.sid_in, host.got_esc, S, arg.id, FALSE)
        /\ pc = "xor" => Carries(toHost, host.sid_in, host.got_esc, S, arg.id, TRUE)
        /\ InStep(taken["host"], toHost, OnLine, Once)
    <2>1. /\ pc \in {"last", "esc", "xor", "data"} => OnLine = Now - 1 /\ Once = FALSE
          /\ pc \in {"mask", "out"} => OnLine = Now /\ Once = TRUE
      BY DEF OnLine, Sending, Once, Flag
    <2>2. /\ pc' \in {"last", "esc", "xor", "data"} => OnLine' = Now' - 1 /\ Once' = FALSE
          /\ pc' \in {"mask", "out"} => OnLine' = Now' /\ Once' = TRUE
      BY DEF OnLine, Sending, Once, Flag
    <2>3. Carries(toHost, host.sid_in, host.got_esc, S, DevOut, Flag(pc = "xor"))
          /\ InStep(taken["host"], toHost, OnLine, Once)
      BY DEF HostLine, S
    <2> QED
      BY <1>3, <2>1, <2>2, <2>3 DEF Flag
  <1>7. CASE SetLast
    <2>1. /\ pc = "last" /\ UNCHANGED <<arg, sent, toHost>> /\ Now' = Now
          /\ pc' = IF arg.data \in Special THEN "esc" ELSE "data"
          /\ dev'.last_sent = Plain(arg.data, Now)
      BY <1>7 DEF SetLast, DevTypes, Now
    <2>2. Plain(arg.data, Now) # NothingSent
      <3>1. Len(Plain(arg.data, Now)) = 1 /\ Len(NothingSent) = 0
        BY EmptySeq DEF Plain, NothingSent
      <3> QED
        BY <3>1
    <2>3. /\ Carries(toHost', host.sid_in, host.got_esc, S, arg.id, Flag(pc' = "xor"))
          /\ InStep(taken["host"], toHost', OnLine', Once')
      BY <1>6, <2>1 DEF Flag
    <2> QED
      BY <1>4, <2>1, <2>2, <2>3
  <1>8. CASE SetMask
    <2>1. /\ pc = "mask" /\ pc' = "out" /\ UNCHANGED <<arg, sent, toHost>> /\ Now' = Now
          /\ dev'.last_sent = Escaped(arg.data, Now) /\ arg.data \in Special
      BY <1>8 DEF SetMask, DevTypes, Now, AtSend, Tested
    <2>2. Escaped(arg.data, Now) # NothingSent /\ Escaped(arg.data, Now) = Encoded(arg.data, Now)
      <3>1. Len(Escaped(arg.data, Now)) = 2 /\ Len(NothingSent) = 0
        BY EmptySeq DEF Escaped, NothingSent
      <3> QED
        BY <2>1, <3>1 DEF Encoded
    <2>3. /\ Carries(toHost', host.sid_in, host.got_esc, S, arg.id, Flag(pc' = "xor"))
          /\ InStep(taken["host"], toHost', OnLine', Once')
      BY <1>6, <2>1 DEF Flag
    <2> QED
      BY <1>4, <2>1, <2>2, <2>3
  <1>9. CASE SendEsc
    <2>1. /\ pc = "esc" /\ pc' = "xor" /\ UNCHANGED <<arg, sent, dev>> /\ Now' = Now
          /\ toHost' = Append(toHost, Control(ESC)) /\ dev.last_sent # NothingSent
      BY <1>9 DEF SendEsc, Transmit, Now, HostLine
    <2>2. Control(ESC) \in Wire /\ Control(ESC).n = 0
      BY SpecialBytes DEF Control, Wire
    <2>3. Carries(toHost', host.sid_in, host.got_esc, S, arg.id, TRUE)
      BY <1>6, <2>1, ControlCarried, SpecialBytes
    <2>4. InStep(taken["host"], toHost', Now - 1, FALSE)
      BY <1>3, <1>6, <2>1, <2>2, StepOn
    <2> QED
      BY <1>4, <1>6, <2>1, <2>3, <2>4 DEF Flag
  <1>10. CASE SendXored
    <2>1. PICK w : w = [b |-> Xored(arg.data), n |-> Now]
      OBVIOUS
    <2>2. /\ pc = "xor" /\ pc' = "mask" /\ UNCHANGED <<arg, sent, dev>> /\ Now' = Now
          /\ toHost' = Append(toHost, w) /\ dev.last_sent # NothingSent /\ arg.data \in Special
      BY <1>10, <2>1 DEF SendXored, Transmit, Now, HostLine, AtSend, Tested
    <2>3. w \in Wire /\ w.b = Xored(arg.data) /\ w.b \notin Special /\ w.n = Now
      BY <1>3, <2>1, <2>2, SpecialBytes DEF Wire
    <2>4. Carries(toHost', host.sid_in, host.got_esc, S, arg.id, FALSE)
      BY <1>3, <1>6, <2>2, <2>3, DataCarried
    <2>5. InStep(taken["host"], toHost', Now, TRUE)
      BY <1>3, <1>6, <2>2, <2>3, StepOn
    <2> QED
      BY <1>4, <1>6, <2>2, <2>4, <2>5 DEF Flag
  <1>11. CASE SendData
    <2>1. PICK w : w = [b |-> arg.data, n |-> Now]
      OBVIOUS
    <2>2. /\ pc = "data" /\ pc' = "out" /\ UNCHANGED <<arg, sent, dev>> /\ Now' = Now
          /\ toHost' = Append(toHost, w) /\ dev.last_sent # NothingSent /\ arg.data \notin Special
          /\ dev.last_sent = Encoded(arg.data, Now)
      BY <1>11, <2>1 DEF SendData, Transmit, Now, HostLine, AtSend, Tested, Encoded
    <2>3. w \in Wire /\ w.b = arg.data /\ w.n = Now
      BY <1>3, <2>1, <2>2 DEF Wire
    <2>4. Carries(toHost', host.sid_in, host.got_esc, S, arg.id, FALSE)
      BY <1>3, <1>6, <2>2, <2>3, DataCarried
    <2>5. InStep(taken["host"], toHost', Now, TRUE)
      BY <1>3, <1>6, <2>2, <2>3, StepOn
    <2> QED
      BY <1>4, <1>6, <2>2, <2>4, <2>5 DEF Flag
  <1>12. CASE SetOut
    <2>1. /\ pc = "out" /\ pc' = "idle" /\ UNCHANGED <<toHost, sent>> /\ Now' = Now
          /\ dev'.last_sent = dev.last_sent /\ dev'.sid_out = arg.id
          /\ dev.last_sent # NothingSent /\ dev.last_sent = Encoded(arg.data, Now)
      BY <1>12 DEF SetOut, DevTypes, Now, HostLine
    <2>2. DevOut' = arg.id /\ OnLine' = Now /\ Once' = TRUE /\ Flag(pc' = "xor") = FALSE
      BY <2>1 DEF DevOut, OnLine, Sending, Once, Flag
    <2>3. Repeats(dev'.last_sent, S, arg.id)
      BY <1>3, <2>1 DEF Repeats
    <2>4. /\ Carries(toHost, host.sid_in, host.got_esc, S, arg.id, FALSE)
          /\ InStep(taken["host"], toHost, Now, TRUE) /\ Right(taken["host"], S)
      <3>1. Right(taken["host"], S)
        BY DEF HostLine, S
      <3> QED
        BY <1>6, <2>1, <3>1
    <2> QED
      BY <1>1, <1>2, <2>1, <2>2, <2>3, <2>4 DEF HostLine, S
  <1> QED
    BY <1>5, <1>7, <1>8, <1>9, <1>10, <1>11, <1>12 DEF platform_uart_send

\* What the first byte of a line that carries data says to a handler.
LEMMA FirstRead ==
    ASSUME NEW q, q # <<>>, NEW sid, NEW esc, NEW S, NEW out, NEW open,
           Carries(q, sid, esc, S, out, open)
    PROVE  /\ Head(q) \in Wire /\ Head(q).b \in Bytes
           /\ Head(q).b = ESC => esc # TRUE /\ Carries(Tail(q), sid, TRUE, S, out, open)
           /\ Head(q).b \in Services =>
                 esc # TRUE /\ Carries(Tail(q), Head(q).b, FALSE, S, out, open)
           /\ Head(q).b \notin Services \cup {ESC} => Carries(Tail(q), sid, FALSE, S, out, open)
           /\ Head(q).b \in Special => esc # TRUE
           /\ Head(q).b \notin Special =>
                 Reads(q, sid, esc, S, 1) /\ (esc = TRUE => Xored(Head(q).b) \in Special)
  <1>1. PICK w : w = Head(q)
    OBVIOUS
  <1>2. /\ q \in Seq(Wire) /\ S \in Sends /\ Len(q) \in Nat /\ Len(q) # 0
        /\ Tail(q) \in Seq(Wire) /\ Len(Tail(q)) = Len(q) - 1 /\ w = q[1] /\ w \in Wire
        /\ \A k \in 1 .. Len(Tail(q)) : Tail(q)[k] = q[k + 1]
    <2>1. q \in Seq(Wire) /\ S \in Sends
      BY DEF Carries
    <2> QED
      BY <1>1, <2>1, LenProperties, HeadTailProperties, EmptySeq, SMT
  <1>3. w.b \in Bytes /\ w.n \in Nat
    <2>1. 1 \in 1 .. Len(q)
      BY <1>2, SMT
    <2> QED
      BY <1>2, <2>1, LineType
  <1>4. /\ w.n # 0 => Reads(q, sid, esc, S, 1)
        /\ w.n = 0 => Passes(q, esc, 1)
        /\ \A s, e : /\ s = IF w.b \in Services THEN w.b ELSE sid
                     /\ e = TRUE <=> w.b = ESC
                     => Carries(Tail(q), s, e, S, out, open)
    <2>1. ASSUME NEW s, NEW e, s = IF w.b \in Services THEN w.b ELSE sid, e = TRUE <=> w.b = ESC
          PROVE  /\ Carries(Tail(q), s, e, S, out, open)
                 /\ w.n # 0 => Reads(q, sid, esc, S, 1)
                 /\ w.n = 0 => Passes(q, esc, 1)
      BY <1>1, <2>1, CarriesRead
    <2>2. CASE w.b = ESC
      <3>1. TRUE = TRUE <=> w.b = ESC
        BY <2>2
      <3> QED
        BY <2>1, <3>1
    <2>3. CASE w.b # ESC
      <3>1. FALSE = TRUE <=> w.b = ESC
        BY <2>3
      <3> QED
        BY <2>1, <3>1
    <2> QED
      BY <2>2, <2>3
  <1>5. /\ w.b \in Special => w.n = 0 /\ esc # TRUE
        /\ w.b \notin Special => w.n # 0
    BY <1>2, <1>4 DEF Reads, Passes, EscAt
  <1>9. w.b = ESC => esc # TRUE /\ Carries(Tail(q), sid, TRUE, S, out, open)
    BY <1>4, <1>5, SpecialBytes
  <1>10. w.b \in Services => esc # TRUE /\ Carries(Tail(q), w.b, FALSE, S, out, open)
    <2>1. ASSUME w.b \in Services PROVE esc # TRUE /\ (FALSE = TRUE <=> w.b = ESC)
      BY <1>5, <2>1, SpecialBytes
    <2> QED
      BY <1>4, <2>1
  <1>11. w.b \notin Services \cup {ESC} => Carries(Tail(q), sid, FALSE, S, out, open)
    <2>1. ASSUME w.b \notin Services \cup {ESC} PROVE FALSE = TRUE <=> w.b = ESC
      BY <2>1
    <2> QED
      BY <1>4, <2>1
  <1>12. ASSUME w.b \notin Special, esc = TRUE PROVE Xored(w.b) \in Special
    <2>1. Reads(q, sid, esc, S, 1) /\ EscAt(q, esc, 1)
      BY <1>4, <1>5, <1>12 DEF EscAt
    <2>2. S[w.n].b \in Special /\ w.b = Xored(S[w.n].b)
      BY <1>2, <2>1 DEF Reads
    <2> QED
      BY <2>2, SpecialBytes
  <1> QED
    BY <1>1, <1>2, <1>3, <1>4, <1>5, <1>9, <1>10, <1>11, <1>12

\* It is dropped, or it is handed out.
LEMMA FirstTaken ==
    ASSUME NEW q, q # <<>>, NEW sid, NEW esc \in BOOLEAN, NEW S, NEW out, NEW open,
           Carries(q, sid, esc, S, out, open),
           NEW ts \in Takes, NEW top, NEW once, InStep(ts, q, top, once), Right(ts, S)
    PROVE  /\ InStep(ts, Tail(q), top, once)
           /\ Head(q).b \notin Special /\ sid \in Services =>
                 \A t \in [s : Services, b : Bytes, n : 0 .. MaxSends] :
                    /\ t.n = Head(q).n /\ t.s = sid
                    /\ t.b = IF esc THEN Xored(Head(q).b) ELSE Head(q).b
                    => InStep(Append(ts, t), Tail(q), top, once) /\ Right(Append(ts, t), S)
  <1>1. PICK w : w = Head(q)
    OBVIOUS
  <1>2. /\ q \in Seq(Wire) /\ S \in Sends /\ Len(q) \in Nat /\ Len(q) # 0
        /\ Tail(q) \in Seq(Wire) /\ Len(Tail(q)) = Len(q) - 1 /\ w = q[1] /\ w \in Wire
        /\ \A k \in 1 .. Len(Tail(q)) : Tail(q)[k] = q[k + 1]
    <2>1. q \in Seq(Wire) /\ S \in Sends
      BY DEF Carries
    <2> QED
      BY <1>1, <2>1, LenProperties, HeadTailProperties, EmptySeq, SMT
  <1>3. w.b \in Bytes /\ w.n \in Nat
    <2>1. 1 \in 1 .. Len(q)
      BY <1>2, SMT
    <2> QED
      BY <1>2, <2>1, LineType
  <1>4. w.b \notin Special => Reads(q, sid, esc, S, 1)
    BY <1>1, FirstRead
  <1>6. InStep(ts, Tail(q), top, once)
    <2>1. 1 \in Nat
      OBVIOUS
    <2> QED
      BY <1>2, <2>1, BeginningGone
  <1>7. ASSUME sid # None, w.b \notin Special
        PROVE  /\ w.n \in 1 .. Len(S) /\ S[w.n].s = sid
               /\ (IF esc THEN Xored(w.b) ELSE w.b) = S[w.n].b
    <2>1. Reads(q, sid, esc, S, 1)
      BY <1>4, <1>7
    <2>2. w.n \in 1 .. Len(S)
      BY <1>2, <2>1 DEF Reads
    <2> QED
      BY <1>2, <1>7, <2>1, <2>2, Decoded
  <1>8. ASSUME NEW t \in [s : Services, b : Bytes, n : 0 .. MaxSends], sid \in Services,
               w.b \notin Special, t.n = w.n, t.s = sid, t.b = IF esc THEN Xored(w.b) ELSE w.b
        PROVE  InStep(Append(ts, t), Tail(q), top, once) /\ Right(Append(ts, t), S)
    <2>1. sid # None
      BY <1>8, SpecialBytes
    <2>2. t.n \in 1 .. Len(S) /\ t.s = S[t.n].s /\ t.b = S[t.n].b
      BY <1>7, <1>8, <2>1
    <2>3. Right(Append(ts, t), S)
      BY <1>2, <2>2, RightMore
    <2>4. InStep(Append(ts, t), Tail(q), top, once)
      BY <1>1, <1>2, <1>8, HandedOut
    <2> QED
      BY <2>3, <2>4
  <1> QED
    BY <1>1, <1>6, <1>7, <1>8

\* The receive handler does not touch what platform_uart_send is sending.
LEMMA DevReceiveKeepsByte ==
    ASSUME Types, AtSend, cmn_rx_handler
    PROVE  AtSend'
  <1> USE DEF Types
  <1> DEFINE w == Head(toDev)
  <1>1. /\ UNCHANGED <<pc, arg, host, sent>>
        /\ DevRxEsc(w) \/ DevRxSid(w) \/ DevRxForce(w) \/ DevRxUnknown(w) \/ DevRxData(w)
    BY DEF cmn_rx_handler
  <1> HIDE DEF w
  <1>2. dev'.sid_out = dev.sid_out /\ (dev'.last_sent = dev.last_sent \/ dev'.last_sent = NothingSent)
    BY <1>1 DEF DevRxEsc, DevRxSid, DevRxForce, DevRxUnknown, DevRxData, DevData, ClearEsc, DevTypes
  <1> QED
    BY <1>1, <1>2 DEF AtSend, Tested, Now

\* The device hands out what the host has sent, or drops a byte and asks for it
\* again.
LEMMA DevReceiveKeepsDevLine ==
    ASSUME Types, DevLine, cmn_rx_handler
    PROVE  DevLine'
  <1> USE DEF Types
  <1> DEFINE w == Head(toDev)
             S == sent["host"]
             ts == taken["dev"]
             once == Flag(host.prev_sent # NothingSent)
  <1>1. /\ toDev # <<>> /\ toDev' = Tail(toDev) /\ UNCHANGED <<pc, arg, host, sent, restarts>>
        /\ DevRxEsc(w) \/ DevRxSid(w) \/ DevRxForce(w) \/ DevRxUnknown(w) \/ DevRxData(w)
    BY DEF cmn_rx_handler
  <1>2. /\ Carries(toDev, dev.sid_in, dev.got_esc, S, host.sid_out, FALSE)
        /\ dev.got_esc \in BOOLEAN /\ ts \in Takes
        /\ InStep(ts, toDev, Len(S), once) /\ Right(ts, S)
        /\ toHost \in Seq(Wire) /\ toDev \in Seq(Wire) /\ NoForce(toDev)
        /\ dev.sid_in \in Services \cup {None}
    BY DEF DevLine, DevTypes, TakenTypes, LineTypes, Sides
  <1>3. w.b # FORCE /\ NoForce(toDev')
    BY <1>1, <1>2, NoForceMore
  <1> HIDE DEF w, S, ts, once
  <1>4. /\ w \in Wire /\ w.b \in Bytes
        /\ w.b = ESC => Carries(toDev', dev.sid_in, TRUE, S, host.sid_out, FALSE)
        /\ w.b \in Services =>
              dev.got_esc = FALSE /\ Carries(toDev', w.b, FALSE, S, host.sid_out, FALSE)
        /\ w.b \notin Services \cup {ESC} => Carries(toDev', dev.sid_in, FALSE, S, host.sid_out, FALSE)
        /\ InStep(ts, toDev', Len(S), once)
    <2>1. PICK q, sid, esc, out, top, open :
              /\ q = toDev /\ sid = dev.sid_in /\ esc = dev.got_esc /\ out = host.sid_out
              /\ top = Len(S) /\ open = FALSE
      OBVIOUS
    <2>2. /\ q # <<>> /\ Carries(q, sid, esc, S, out, open) /\ esc \in BOOLEAN /\ ts \in Takes
          /\ InStep(ts, q, top, once) /\ Right(ts, S)
      BY <1>1, <1>2, <2>1
    <2>3. /\ Head(q) \in Wire /\ Head(q).b \in Bytes
          /\ Head(q).b = ESC => Carries(Tail(q), sid, TRUE, S, out, open)
          /\ Head(q).b \in Services => esc # TRUE /\ Carries(Tail(q), Head(q).b, FALSE, S, out, open)
          /\ Head(q).b \notin Services \cup {ESC} => Carries(Tail(q), sid, FALSE, S, out, open)
          /\ InStep(ts, Tail(q), top, once)
      BY <2>2, FirstRead, FirstTaken
    <2>4. w = Head(q) /\ toDev' = Tail(q)
      BY <1>1, <2>1 DEF w
    <2>5. w.b \in Services => esc = FALSE
      BY <2>2, <2>3, <2>4
    <2>6. Carries(toDev', sid, TRUE, S, out, open) = Carries(toDev', dev.sid_in, TRUE, S, host.sid_out, FALSE)
      BY <2>1
    <2>7. Carries(toDev', sid, FALSE, S, out, open) = Carries(toDev', dev.sid_in, FALSE, S, host.sid_out, FALSE)
      BY <2>1
    <2>8. Carries(toDev', w.b, FALSE, S, out, open) = Carries(toDev', w.b, FALSE, S, host.sid_out, FALSE)
      BY <2>1
    <2> QED
      BY <2>1, <2>3, <2>4, <2>5, <2>6, <2>7, <2>8
  <1>5. dev'.sid_out = dev.sid_out /\ Heard(toHost, host.sid_in, Flag(dev.sid_out # None \/ pc # "idle"))
        /\ Repeats(host.prev_sent, S, host.sid_out)
    BY <1>1 DEF DevLine, S, DevRxEsc, DevRxSid, DevRxForce, DevRxUnknown, DevRxData, DevData, ClearEsc,
                DevTypes
  <1>6. ASSUME Carries(toDev', dev'.sid_in, dev'.got_esc, S, host.sid_out, FALSE),
               InStep(taken'["dev"], toDev', Len(S), once), Right(taken'["dev"], S),
               Heard(toHost', host.sid_in, Flag(dev.sid_out # None \/ pc # "idle"))
        PROVE  DevLine'
    <2>1. sent'["host"] = S /\ once = Flag(host'.prev_sent # NothingSent)
      BY <1>1 DEF S, once
    <2>2. Flag(dev'.sid_out # None \/ pc' # "idle") = Flag(dev.sid_out # None \/ pc # "idle")
      BY <1>1, <1>5 DEF Flag
    <2>3. Heard(toHost', host'.sid_in, Flag(dev'.sid_out # None \/ pc' # "idle"))
      BY <1>1, <1>6, <2>2
    <2>4. Repeats(host'.prev_sent, sent'["host"], host'.sid_out)
      BY <1>1, <1>5, <2>1
    <2> QED
      BY <1>1, <1>3, <1>6, <2>1, <2>3, <2>4 DEF DevLine
  <1>7. CASE DevRxEsc(w)
    <2>1. w.b = ESC /\ dev'.sid_in = dev.sid_in /\ dev'.got_esc = TRUE /\ UNCHANGED <<toHost, taken>>
      BY <1>7 DEF DevRxEsc, DevTypes
    <2> QED
      BY <1>2, <1>4, <1>5, <1>6, <2>1 DEF ts
  <1>8. CASE DevRxSid(w)
    <2>1. /\ w.b \in Services /\ dev'.sid_in = w.b /\ dev'.got_esc = dev.got_esc
          /\ UNCHANGED <<toHost, taken>>
      BY <1>8 DEF DevRxSid, DevTypes
    <2> QED
      BY <1>2, <1>4, <1>5, <1>6, <2>1 DEF ts
  <1>9. ~DevRxForce(w)
    BY <1>3 DEF DevRxForce
  <1>10. CASE DevRxUnknown(w)
    <2>1. /\ w.b \notin Services \cup {ESC} /\ dev'.sid_in = dev.sid_in /\ dev'.got_esc = FALSE
          /\ toHost' = Append(toHost, Control(FORCE)) /\ UNCHANGED taken
      BY <1>10 DEF DevRxUnknown, DevData, ClearEsc, DevTypes
    <2>2. PICK v : v = Control(FORCE)
      OBVIOUS
    <2>3. v \in Wire /\ v.b \in Special
      BY <2>2, SpecialBytes DEF Control, Wire
    <2>4. PICK on : on = Flag(dev.sid_out # None \/ pc # "idle")
      OBVIOUS
    <2>5. Heard(Append(toHost, v), host.sid_in, on)
      BY <1>2, <1>5, <2>3, <2>4, HeardMore
    <2> QED
      BY <1>2, <1>4, <1>6, <2>1, <2>2, <2>4, <2>5 DEF ts
  <1>11. CASE DevRxData(w)
    <2> DEFINE t == Got(dev, w)
    <2>1. /\ w.b \notin Services \cup {ESC} /\ dev'.sid_in = dev.sid_in /\ dev'.got_esc = FALSE
          /\ UNCHANGED toHost /\ taken'["dev"] = Append(ts, t) /\ dev.sid_in \in Services
      BY <1>2, <1>11 DEF DevRxData, DevData, ClearEsc, DevTypes, TakenTypes, Sides, ts
    <2>2. t \in [s : Services, b : Bytes, n : 0 .. MaxSends]
      BY <1>4, <2>1, GotType
    <2>3. t.n = w.n /\ t.s = dev.sid_in /\ t.b = IF dev.got_esc THEN Xored(w.b) ELSE w.b
      BY DEF Got
    <2>4. w.b \notin Special
      BY <1>3, <2>1 DEF Special
    <2> HIDE DEF t
    <2>5. InStep(Append(ts, t), toDev', Len(S), once) /\ Right(Append(ts, t), S)
      BY <1>1, <1>2, <2>1, <2>2, <2>3, <2>4, FirstTaken DEF w
    <2> QED
      BY <1>4, <1>5, <1>6, <2>1, <2>5
  <1> QED
    BY <1>1, <1>7, <1>8, <1>9, <1>10, <1>11

\* The device answers a request with the last byte of its users, unless the
\* request interrupts platform_uart_send; it asks for nothing itself while an
\* escape waits for its byte.
LEMMA DevReceiveKeepsHostLine ==
    ASSUME Types, AtSend, HostLine, cmn_rx_handler, ~raced'
    PROVE  HostLine'
  <1> USE DEF Types
  <1> DEFINE w == Head(toDev)
             S == sent["dev"]
             ts == taken["host"]
  <1>1. /\ toDev # <<>> /\ toDev' = Tail(toDev) /\ UNCHANGED <<pc, arg, host, sent, restarts>>
        /\ DevRxEsc(w) \/ DevRxSid(w) \/ DevRxForce(w) \/ DevRxUnknown(w) \/ DevRxData(w)
    BY DEF cmn_rx_handler
  <1>2. /\ Carries(toHost, host.sid_in, host.got_esc, S, DevOut, Flag(pc = "xor"))
        /\ InStep(ts, toHost, OnLine, Once) /\ Right(ts, S) /\ ts \in Takes
        /\ toHost \in Seq(Wire) /\ toDev \in Seq(Wire)
        /\ OnLine \in Nat /\ Len(S) \in Nat /\ Len(S) \in 0 .. MaxSends
    <2>1. /\ Carries(toHost, host.sid_in, host.got_esc, S, DevOut, Flag(pc = "xor"))
          /\ InStep(ts, toHost, OnLine, Once) /\ Right(ts, S) /\ ts \in Takes
          /\ toHost \in Seq(Wire) /\ toDev \in Seq(Wire)
      BY DEF HostLine, TakenTypes, LineTypes, Sides
    <2>2. Len(S) \in Nat /\ Len(S) <= MaxSends
      BY LenProperties DEF SentTypes, Sends, Sides
    <2>3. \A n \in Nat : n <= MaxSends => n \in 0 .. MaxSends
      BY SpecialBytes, SMT
    <2>4. pc # "idle" => Now # 0
      BY DEF AtSend
    <2>5. \A n \in Nat : n # 0 => n - 1 \in Nat
      BY SMT
    <2>6. OnLine \in Nat
      BY <2>2, <2>4, <2>5 DEF OnLine, Sending, Now
    <2> QED
      BY <2>1, <2>2, <2>3, <2>6
  <1> HIDE DEF w
  <1>3. dev'.sid_in = IF w.b \in Services THEN w.b ELSE dev.sid_in
    BY <1>1, SpecialBytes DEF DevRxEsc, DevRxSid, DevRxForce, DevRxUnknown, DevRxData, DevData,
                              ClearEsc, DevTypes
  <1>4. /\ Heard(toDev', dev'.sid_in, Flag(host'.sid_out # None))
        /\ dev.sid_in = None => w.b \in Special
    <2>1. PICK on, s : on = Flag(host.sid_out # None) /\ s = dev'.sid_in
      OBVIOUS
    <2>2. Heard(toDev, dev.sid_in, on)
      BY <2>1 DEF HostLine
    <2>3. Heard(Tail(toDev), s, on) /\ (dev.sid_in = None => w.b \in Special)
      BY <1>1, <1>2, <1>3, <2>1, <2>2, HeardRead DEF w
    <2> QED
      BY <1>1, <2>1, <2>3
  <1>5. taken'["host"] = ts /\ sent'["dev"] = S /\ OnLine' = OnLine /\ dev'.sid_out = dev.sid_out
    BY <1>1 DEF DevRxEsc, DevRxSid, DevRxForce, DevRxUnknown, DevRxData, DevData, ClearEsc,
                DevTypes, TakenTypes, Sides, OnLine, Sending, Now
  <1>6. DevOut' = DevOut
    BY <1>1, <1>5 DEF DevOut
  <1> HIDE DEF S, ts
  <1>7. ASSUME dev'.last_sent = dev.last_sent,
               Carries(toHost', host.sid_in, host.got_esc, S, DevOut, Flag(pc = "xor")),
               InStep(ts, toHost', OnLine, Once)
        PROVE  HostLine'
    <2>1. Once' = Once
      BY <1>1, <1>7 DEF Once, Flag
    <2>2. Flag(pc' = "xor") = Flag(pc = "xor") /\ Now' = Now
      BY <1>1 DEF Now
    <2>3. /\ pc = "idle" => Repeats(dev.last_sent, S, dev.sid_out)
          /\ pc = "out" => dev.last_sent = Encoded(arg.data, Now)
          /\ pc = "data" => dev.last_sent = Plain(arg.data, Now)
          /\ pc \notin {"idle", "last"} => dev.last_sent # NothingSent
      BY DEF HostLine, S
    <2> QED
      BY <1>1, <1>2, <1>4, <1>5, <1>6, <1>7, <2>1, <2>2, <2>3 DEF HostLine
  <1>8. CASE DevRxEsc(w) \/ DevRxSid(w) \/ DevRxData(w)
    <2>1. UNCHANGED toHost /\ dev'.last_sent = dev.last_sent
      BY <1>8 DEF DevRxEsc, DevRxSid, DevRxData, DevData, ClearEsc, DevTypes
    <2> QED
      BY <1>2, <1>7, <2>1
  <1>9. CASE DevRxUnknown(w)
    <2>1. PICK v : v = Control(FORCE)
      OBVIOUS
    <2>2. /\ w.b \notin Services \cup {ESC} /\ (w.b = FORCE => dev.last_sent = NothingSent)
          /\ toHost' = Append(toHost, v) /\ dev'.last_sent = dev.last_sent /\ dev.sid_in = None
      BY <1>9, <2>1 DEF DevRxUnknown, DevData, ClearEsc, DevTypes
    <2>3. pc # "xor"
      <3>1. dev.last_sent = NothingSent
        BY <1>4, <2>2 DEF Special
      <3> QED
        BY <3>1 DEF HostLine
    <2>4. v \in Wire /\ v.n = 0 /\ FORCE \in Special /\ FORCE \notin Services /\ FORCE # ESC
      BY <2>1, SpecialBytes DEF Control, Wire
    <2>5. Flag(pc = "xor") = FALSE
      BY <2>3 DEF Flag
    <2>6. PICK out, top, once : out = DevOut /\ top = OnLine /\ once = Once
      OBVIOUS
    <2>7. Carries(toHost, host.sid_in, host.got_esc, S, out, FALSE)
      BY <1>2, <2>5, <2>6
    <2>8. Carries(Append(toHost, v), host.sid_in, host.got_esc, S, out, FALSE)
      BY <2>1, <2>4, <2>7, ControlCarried
    <2>9. InStep(ts, Append(toHost, v), top, once)
      BY <1>2, <2>4, <2>6, StepOn
    <2> QED
      BY <1>7, <2>2, <2>5, <2>6, <2>8, <2>9
  <1>10. CASE DevRxForce(w)
    <2>1. /\ dev.last_sent # NothingSent /\ dev'.last_sent = NothingSent
          /\ toHost' = toHost \o Repeat(dev.sid_out, dev.last_sent)
          /\ (raced' <=> raced \/ pc # "idle")
      BY <1>10 DEF DevRxForce, DevTypes
    <2>2. pc = "idle"
      BY <2>1
    <2>3. PICK n, s : n = Len(S) /\ s = dev.sid_out
      OBVIOUS
    <2>4. n # 0 /\ s \in Services /\ S[n].s = s /\ dev.last_sent = Encoded(S[n].b, n)
      BY <2>1, <2>2, <2>3 DEF HostLine, Repeats, S
    <2>5. DevOut = s /\ OnLine = n /\ Once = TRUE /\ Flag(pc = "xor") = FALSE /\ Once' = FALSE
      BY <1>1, <2>1, <2>2, <2>3 DEF DevOut, OnLine, Sending, Now, Once, Flag, S
    <2>6. /\ Carries(toHost, host.sid_in, host.got_esc, S, s, FALSE)
          /\ InStep(ts, toHost, n, TRUE)
      BY <1>2, <2>5
    <2>7. /\ Carries(toHost', host.sid_in, host.got_esc, S, s, FALSE)
          /\ InStep(ts, toHost', n, FALSE)
      <3>1. PICK q, sid, esc, out, r :
                /\ q = toHost /\ sid = host.sid_in /\ esc = host.got_esc /\ out = s /\ r = toHost'
        OBVIOUS
      <3>2. /\ Carries(q, sid, esc, S, out, FALSE) /\ n = Len(S) /\ n # 0 /\ n \in 0 .. MaxSends
            /\ s \in Services /\ S[n].s = s /\ ts \in Takes /\ InStep(ts, q, n, TRUE)
            /\ r = q \o Repeat(s, Encoded(S[n].b, n))
        BY <1>2, <2>1, <2>3, <2>4, <2>6, <3>1
      <3>3. Carries(r, sid, esc, S, s, FALSE) /\ InStep(ts, r, n, FALSE)
        BY <3>2, Repeated
      <3> QED
        BY <3>1, <3>3
    <2>8. DevOut' = s /\ OnLine' = n /\ Flag(pc' = "xor") = FALSE
      BY <1>1, <1>5, <1>6, <2>5
    <2>9. Repeats(dev'.last_sent, S, dev'.sid_out)
      BY <2>1 DEF Repeats
    <2> QED
      BY <1>1, <1>2, <1>4, <1>5, <2>2, <2>5, <2>7, <2>8, <2>9 DEF HostLine
  <1> QED
    BY <1>1, <1>8, <1>9, <1>10

\* The answer to a request is no request.
LEMMA NoForceRepeat ==
    ASSUME NEW q \in Seq(Wire), NoForce(q), NEW s \in Services, NEW b \in Bytes,
           NEW n \in 0 .. MaxSends
    PROVE  NoForce(q \o Repeat(s, Encoded(b, n)))
  <1>1. PICK v, code : v = Control(s) /\ code = Encoded(b, n)
    OBVIOUS
  <1>2. v \in Wire /\ v.b # FORCE /\ code \in Seq(Wire)
    BY <1>1, SpecialBytes, LastSentType DEF Control, Wire
  <1>3. <<v>> \in Seq(Wire) /\ Repeat(s, code) = <<v>> \o code
    BY <1>1, <1>2, SpecialBytes DEF Repeat, SidByte
  <1>4. q \o (<<v>> \o code) = (q \o <<v>>) \o code
    <2>1. code \in Seq(Wire)
      BY <1>2
    <2> QED
      BY <1>3, <2>1, ConcatAssociative
  <1>5. q \o <<v>> = Append(q, v) /\ Append(q, v) \in Seq(Wire) /\ NoForce(Append(q, v))
    BY <1>2, OneBehindTheOther, AppendProperties, NoForceMore
  <1>6. NoForce(Append(q, v) \o code)
    BY <1>1, <1>5, NoForceMore
  <1> QED
    BY <1>1, <1>3, <1>4, <1>5, <1>6

\* The host does not touch what platform_uart_send is sending.
LEMMA HostReceiveKeepsByte ==
    ASSUME Types, AtSend, HostReceive
    PROVE  AtSend'
  <1> USE DEF Types
  <1> DEFINE w == Head(toHost)
  <1>1. /\ UNCHANGED <<dev, pc, arg, sent>>
        /\ \/ HostRxEsc(w) \/ HostRxSid(w) \/ HostRxForce(w) \/ HostExit(w)
           \/ HostRxUnknown(w) \/ HostRxData(w)
    BY DEF HostReceive, devVars
  <1> HIDE DEF w
  <1>2. /\ host'.sid_out = host.sid_out
        /\ host'.prev_sent = host.prev_sent \/ host'.prev_sent = NothingSent
    BY <1>1 DEF HostRxEsc, HostRxSid, HostRxForce, HostExit, HostRxUnknown, HostRxData,
                HostData, ClearEsc, HostTypes
  <1> QED
    BY <1>1, <1>2 DEF AtSend, Tested, Now

\* A host that has not restarted never asks for a repetition; it answers the
\* request of the device with the last byte it has sent.
LEMMA HostReceiveKeepsDevLine ==
    ASSUME Types, AtSend, DevLine, HostReceive
    PROVE  DevLine'
  <1> USE DEF Types
  <1> DEFINE w == Head(toHost)
             S == sent["host"]
             ts == taken["dev"]
  <1>1. /\ toHost # <<>> /\ toHost' = Tail(toHost)
        /\ UNCHANGED <<dev, pc, arg, sent, restarts, raced>>
        /\ \/ HostRxEsc(w) \/ HostRxSid(w) \/ HostRxForce(w) \/ HostExit(w)
           \/ HostRxUnknown(w) \/ HostRxData(w)
    BY DEF HostReceive, devVars
  <1>2. /\ Carries(toDev, dev.sid_in, dev.got_esc, S, host.sid_out, FALSE)
        /\ InStep(ts, toDev, Len(S), Flag(host.prev_sent # NothingSent)) /\ Right(ts, S)
        /\ NoForce(toDev) /\ ts \in Takes
        /\ Repeats(host.prev_sent, S, host.sid_out)
        /\ toHost \in Seq(Wire) /\ toDev \in Seq(Wire) /\ S \in Sends
        /\ Len(S) \in Nat /\ Len(S) \in 0 .. MaxSends
    <2>1. Len(S) \in Nat /\ Len(S) <= MaxSends
      BY LenProperties DEF SentTypes, Sends, Sides
    <2>2. \A n \in Nat : n <= MaxSends => n \in 0 .. MaxSends
      BY SpecialBytes, SMT
    <2>3. /\ Carries(toDev, dev.sid_in, dev.got_esc, S, host.sid_out, FALSE)
          /\ InStep(ts, toDev, Len(S), Flag(host.prev_sent # NothingSent)) /\ Right(ts, S)
          /\ NoForce(toDev) /\ ts \in Takes
          /\ Repeats(host.prev_sent, S, host.sid_out)
          /\ toHost \in Seq(Wire) /\ toDev \in Seq(Wire) /\ S \in Sends
      BY DEF DevLine, TakenTypes, LineTypes, SentTypes, Sides
    <2> QED
      BY <2>1, <2>2, <2>3
  <1> HIDE DEF w
  <1>3. /\ host'.sid_in = IF w.b \in Services THEN w.b ELSE host.sid_in
        /\ host'.sid_out = host.sid_out
    <2>1. host'.sid_in = IF w.b \in Services THEN w.b ELSE host.sid_in
      BY <1>1, SpecialBytes DEF HostRxEsc, HostRxSid, HostRxForce, HostExit, BadEscape,
                                HostRxUnknown, HostRxData, HostData, ClearEsc, HostTypes
    <2>2. host'.sid_out = host.sid_out
      BY <1>1 DEF HostRxEsc, HostRxSid, HostRxForce, HostExit, HostRxUnknown, HostRxData,
                  HostData, ClearEsc, HostTypes
    <2> QED
      BY <2>1, <2>2
  <1>4. /\ Heard(toHost', host'.sid_in, Flag(dev'.sid_out # None \/ pc' # "idle"))
        /\ host.sid_in = None => w.b \in Special
    <2>1. PICK on, s : on = Flag(dev.sid_out # None \/ pc # "idle") /\ s = host'.sid_in
      OBVIOUS
    <2>2. Heard(toHost, host.sid_in, on)
      BY <2>1 DEF DevLine
    <2>3. Heard(Tail(toHost), s, on) /\ (host.sid_in = None => w.b \in Special)
      BY <1>1, <1>2, <1>3, <2>1, <2>2, HeardRead DEF w
    <2> QED
      BY <1>1, <2>1, <2>3
  <1> HIDE DEF S, ts
  <1>5. sent'["host"] = S
    BY <1>1 DEF S
  <1>6. CASE UNCHANGED toDev /\ host'.prev_sent = host.prev_sent /\ taken'["dev"] = ts
    BY <1>1, <1>2, <1>3, <1>4, <1>5, <1>6 DEF DevLine
  <1>7. HostRxEsc(w) \/ HostRxSid(w) \/ HostExit(w) \/ HostRxData(w)
        => UNCHANGED toDev /\ host'.prev_sent = host.prev_sent /\ taken'["dev"] = ts
    BY DEF HostRxEsc, HostRxSid, HostExit, HostRxData, HostData, ClearEsc, HostTypes, TakenTypes,
           Sides, ts
  <1>8. ~HostRxUnknown(w)
    BY <1>4 DEF HostRxUnknown, HostData
  <1>9. CASE HostRxForce(w)
    <2>1. /\ host.prev_sent # NothingSent /\ host'.prev_sent = NothingSent
          /\ toDev' = toDev \o Repeat(host.sid_out, host.prev_sent) /\ UNCHANGED taken
      BY <1>9 DEF HostRxForce, HostTypes
    <2>2. PICK n, s, b : n = Len(S) /\ s = host.sid_out /\ b = S[Len(S)].b
      OBVIOUS
    <2>3. n # 0 /\ s \in Services /\ S[n].s = s /\ host.prev_sent = Encoded(b, n)
          /\ n \in 0 .. MaxSends
      BY <1>2, <2>1, <2>2 DEF Repeats
    <2>4. b \in Bytes
      <3>1. n \in 1 .. Len(S)
        BY <1>2, <2>2, <2>3, SMT
      <3>2. S[n] \in [s : Services, b : Payload]
        BY <1>2, <3>1, ElementOfSeq DEF Sends
      <3> QED
        BY <2>2, <3>2, SpecialBytes
    <2>5. /\ Carries(toDev', dev.sid_in, dev.got_esc, S, s, FALSE)
          /\ InStep(ts, toDev', n, FALSE)
      <3>1. PICK q, sid, esc, out, r :
                /\ q = toDev /\ sid = dev.sid_in /\ esc = dev.got_esc /\ out = s /\ r = toDev'
        OBVIOUS
      <3>2. Flag(host.prev_sent # NothingSent) = TRUE
        BY <2>1 DEF Flag
      <3>3. /\ Carries(q, sid, esc, S, out, FALSE) /\ n = Len(S) /\ n # 0 /\ n \in 0 .. MaxSends
            /\ s \in Services /\ S[n].s = s /\ ts \in Takes /\ InStep(ts, q, n, TRUE)
            /\ r = q \o Repeat(s, Encoded(S[n].b, n))
        BY <1>2, <2>1, <2>2, <2>3, <3>1, <3>2
      <3>4. Carries(r, sid, esc, S, s, FALSE) /\ InStep(ts, r, n, FALSE)
        BY <3>3, Repeated
      <3> QED
        BY <3>1, <3>4
    <2>6. NoForce(toDev')
      BY <1>2, <2>1, <2>2, <2>3, <2>4, NoForceRepeat
    <2>7. /\ Repeats(host'.prev_sent, S, host'.sid_out)
          /\ Flag(host'.prev_sent # NothingSent) = FALSE
      BY <2>1 DEF Repeats, Flag
    <2> QED
      BY <1>1, <1>2, <1>3, <1>4, <1>5, <2>1, <2>2, <2>5, <2>6, <2>7 DEF DevLine, ts
  <1> QED
    BY <1>1, <1>6, <1>7, <1>8, <1>9

\* The host hands out what the device has sent, finds no protocol error in it,
\* and asks for nothing once it has sent a service.
LEMMA HostReceiveKeepsHostLine ==
    ASSUME Types, AtSend, HostLine, HostReceive
    PROVE  HostLine'
  <1> USE DEF Types
  <1> DEFINE w == Head(toHost)
             S == sent["dev"]
             ts == taken["host"]
  <1>1. /\ toHost # <<>> /\ toHost' = Tail(toHost)
        /\ UNCHANGED <<dev, pc, arg, sent, restarts, raced>>
        /\ \/ HostRxEsc(w) \/ HostRxSid(w) \/ HostRxForce(w) \/ HostExit(w)
           \/ HostRxUnknown(w) \/ HostRxData(w)
    BY DEF HostReceive, devVars
  <1>2. PICK q, sid, esc, out, open, top, once :
            /\ q = toHost /\ sid = host.sid_in /\ esc = host.got_esc /\ out = DevOut
            /\ open = Flag(pc = "xor") /\ top = OnLine /\ once = Once
    OBVIOUS
  <1>3. /\ Carries(q, sid, esc, S, out, open) /\ q # <<>> /\ esc \in BOOLEAN
        /\ InStep(ts, q, top, once) /\ Right(ts, S) /\ ts \in Takes
        /\ toHost \in Seq(Wire) /\ toDev \in Seq(Wire)
        /\ host.sid_in \in Services \cup {None}
    BY <1>1, <1>2 DEF HostLine, TakenTypes, LineTypes, HostTypes, Sides
  <1>4. w = Head(q) /\ toHost' = Tail(q)
    BY <1>1, <1>2
  <1> HIDE DEF w, S, ts
  <1>5. /\ w \in Wire /\ w.b \in Bytes
        /\ w.b = ESC => Carries(toHost', sid, TRUE, S, out, open)
        /\ w.b \in Services => Carries(toHost', w.b, FALSE, S, out, open)
        /\ w.b \notin Services \cup {ESC} => Carries(toHost', sid, FALSE, S, out, open)
        /\ w.b \in Special => esc # TRUE
        /\ w.b \notin Special /\ esc = TRUE => Xored(w.b) \in Special
    BY <1>3, <1>4, FirstRead
  <1>6. InStep(ts, toHost', top, once)
    BY <1>3, <1>4, FirstTaken
  <1>7. w.b \in Special => host.got_esc = FALSE
    <2>1. w.b \in Special => esc = FALSE
      BY <1>3, <1>5
    <2> QED
      BY <1>2, <2>1
  <1>8. ASSUME Carries(toHost', host'.sid_in, host'.got_esc, S, out, open),
               InStep(taken'["host"], toHost', top, once), Right(taken'["host"], S),
               Heard(toDev', dev.sid_in, Flag(host'.sid_out # None))
        PROVE  HostLine'
    <2>1. /\ DevOut' = DevOut /\ OnLine' = OnLine /\ Once' = Once /\ Now' = Now
          /\ Flag(pc' = "xor") = open /\ sent'["dev"] = S
      BY <1>1, <1>2 DEF DevOut, OnLine, Sending, Now, Once, S
    <2>2. /\ Carries(toHost', host'.sid_in, host'.got_esc, sent'["dev"], DevOut', Flag(pc' = "xor"))
          /\ InStep(taken'["host"], toHost', OnLine', Once')
          /\ Right(taken'["host"], sent'["dev"])
          /\ Heard(toDev', dev'.sid_in, Flag(host'.sid_out # None))
      BY <1>1, <1>2, <1>8, <2>1
    <2>3. /\ pc = "idle" => Repeats(dev.last_sent, S, dev.sid_out)
          /\ pc = "out" => dev.last_sent = Encoded(arg.data, Now)
          /\ pc = "data" => dev.last_sent = Plain(arg.data, Now)
          /\ pc \notin {"idle", "last"} => dev.last_sent # NothingSent
      BY DEF HostLine, S
    <2> QED
      BY <1>1, <2>1, <2>2, <2>3 DEF HostLine
  <1>9. Heard(toDev, dev.sid_in, Flag(host.sid_out # None))
    BY DEF HostLine
  <1>10. CASE HostRxEsc(w)
    <2>1. /\ w.b = ESC /\ host'.sid_in = host.sid_in /\ host'.got_esc = TRUE
          /\ host'.sid_out = host.sid_out /\ UNCHANGED <<toDev, taken>>
      BY <1>10 DEF HostRxEsc, HostTypes
    <2> QED
      BY <1>2, <1>3, <1>5, <1>6, <1>8, <1>9, <2>1 DEF ts
  <1>11. CASE HostRxSid(w)
    <2>1. /\ w.b \in Services /\ host'.sid_in = w.b /\ host'.got_esc = host.got_esc
          /\ host'.sid_out = host.sid_out /\ UNCHANGED <<toDev, taken>>
      BY <1>11 DEF HostRxSid, HostTypes
    <2>2. host'.got_esc = FALSE
      BY <1>7, <2>1, SpecialBytes
    <2> QED
      BY <1>2, <1>3, <1>5, <1>6, <1>8, <1>9, <2>1, <2>2 DEF ts
  <1>12. CASE HostRxForce(w)
    <2>1. /\ w.b = FORCE /\ host'.sid_in = host.sid_in /\ host'.got_esc = host.got_esc
          /\ host'.sid_out = host.sid_out /\ UNCHANGED taken
          /\ toDev' = toDev \o Repeat(host.sid_out, host.prev_sent)
          /\ host.prev_sent # NothingSent /\ host.prev_sent \in LastSent
      BY <1>12 DEF HostRxForce, HostTypes
    <2>2. host'.got_esc = FALSE /\ w.b \notin Services \cup {ESC}
      BY <1>7, <2>1, SpecialBytes
    <2>3. host.sid_out \in Services /\ host.sid_out # None
      BY <2>1, SpecialBytes DEF AtSend
    <2>4. PICK on : on = Flag(host.sid_out # None)
      OBVIOUS
    <2>5. Heard(toDev', dev.sid_in, TRUE)
      BY <1>3, <1>9, <2>1, <2>3, <2>4, HeardAgain
    <2>6. Heard(toDev', dev.sid_in, Flag(host'.sid_out # None))
      BY <2>1, <2>3, <2>5 DEF Flag
    <2> QED
      BY <1>2, <1>3, <1>5, <1>6, <1>8, <2>1, <2>2, <2>6 DEF ts
  <1>13. CASE HostExit(w)
    <2>1. /\ w.b = FORCE \/ BadEscape(w)
          /\ host'.sid_in = host.sid_in /\ host'.got_esc = host.got_esc
          /\ host'.sid_out = host.sid_out /\ UNCHANGED <<toDev, taken>>
      BY <1>13 DEF HostExit, HostTypes
    <2>2. ~BadEscape(w)
      <3>1. host.got_esc /\ w.b \notin Special => Xored(w.b) \in Special
        BY <1>2, <1>5
      <3> QED
        BY <3>1 DEF BadEscape
    <2>3. host'.got_esc = FALSE /\ w.b \notin Services \cup {ESC}
      BY <1>7, <2>1, <2>2, SpecialBytes
    <2> QED
      BY <1>2, <1>3, <1>5, <1>6, <1>8, <1>9, <2>1, <2>3 DEF ts
  <1>14. CASE HostRxUnknown(w)
    <2>1. PICK v, on : v = Control(FORCE) /\ on = Flag(host.sid_out # None)
      OBVIOUS
    <2>2. /\ w.b \notin Services \cup {ESC} /\ host'.sid_in = host.sid_in /\ host'.got_esc = FALSE
          /\ host'.sid_out = host.sid_out /\ UNCHANGED taken /\ toDev' = Append(toDev, v)
      BY <1>14, <2>1, SpecialBytes DEF HostRxUnknown, HostData, ClearEsc, HostTypes
    <2>3. v \in Wire /\ v.b \in Special
      BY <2>1, SpecialBytes DEF Control, Wire
    <2>4. Heard(Append(toDev, v), dev.sid_in, on)
      BY <1>3, <1>9, <2>1, <2>3, HeardMore
    <2> QED
      BY <1>2, <1>3, <1>5, <1>6, <1>8, <2>1, <2>2, <2>4 DEF ts
  <1>15. CASE HostRxData(w)
    <2> DEFINE t == Got(host, w)
    <2>1. /\ w.b \notin Special /\ w.b \notin Services \cup {ESC}
          /\ host'.sid_in = host.sid_in /\ host'.got_esc = FALSE
          /\ host'.sid_out = host.sid_out /\ UNCHANGED toDev
          /\ taken'["host"] = Append(ts, t) /\ host.sid_in \in Services
      BY <1>3, <1>15, SpecialBytes
         DEF HostRxData, HostData, ClearEsc, HostTypes, TakenTypes, Sides, ts
    <2>2. t \in [s : Services, b : Bytes, n : 0 .. MaxSends]
      BY <1>5, <2>1, GotType
    <2>3. t.n = w.n /\ t.s = sid /\ t.b = IF esc THEN Xored(w.b) ELSE w.b
      BY <1>2 DEF Got
    <2> HIDE DEF t
    <2>4. InStep(Append(ts, t), toHost', top, once) /\ Right(Append(ts, t), S)
      <3>1. sid \in Services /\ Head(q).b \notin Special
        BY <1>2, <1>4, <2>1
      <3>2. t.n = Head(q).n /\ t.s = sid /\ t.b = IF esc THEN Xored(Head(q).b) ELSE Head(q).b
        BY <1>4, <2>3
      <3>3. InStep(Append(ts, t), Tail(q), top, once) /\ Right(Append(ts, t), S)
        BY <1>3, <2>2, <3>1, <3>2, FirstTaken
      <3> QED
        BY <1>4, <3>3
    <2> QED
      BY <1>2, <1>5, <1>8, <1>9, <2>1, <2>4
  <1> QED
    BY <1>1, <1>10, <1>11, <1>12, <1>13, <1>14, <1>15

\* What the host keeps is something.
LEMMA EncodedIs == \A b, n : Encoded(b, n) # NothingSent
  <1> TAKE b, n
  <1>1. Len(Plain(b, n)) = 1 /\ Len(Escaped(b, n)) = 2 /\ Len(NothingSent) = 0
    BY EmptySeq DEF Plain, Escaped, NothingSent
  <1>2. Plain(b, n) # NothingSent /\ Escaped(b, n) # NothingSent
    BY <1>1
  <1> QED
    BY <1>2 DEF Encoded

\* The host puts its byte on the line behind the service, and keeps it.
LEMMA HostSendKeepsLines ==
    ASSUME Types, AtSend, NEW id \in Services, NEW c \in Payload, HostSend(id, c)
    PROVE  AtSend' /\ (DevLine => DevLine') /\ (HostLine => HostLine')
  <1> USE DEF Types
  <1>1. PICK e, S, T, n, code : /\ e = [s |-> id, b |-> c] /\ S = sent["host"] /\ T = Append(S, e)
                                /\ n = Len(T) /\ code = Encoded(c, n)
    OBVIOUS
  <1>2. PICK first, q : first = (IF SidNeeded(id) THEN <<Control(id)>> ELSE <<>>) /\ q = toDev \o first
    OBVIOUS
  <1>3. /\ UNCHANGED <<dev, pc, arg, toHost, taken, restarts, raced>>
        /\ sent'["host"] = T /\ sent'["dev"] = sent["dev"]
        /\ toDev' = q \o code
        /\ host'.sid_out = id /\ host'.sid_in = host.sid_in /\ host'.got_esc = host.got_esc
        /\ host'.prev_sent = code
    <2>1. sent'["host"] = T /\ sent'["dev"] = sent["dev"]
      BY <1>1 DEF HostSend, SentTypes, Sides
    <2>2. toDev' = q \o code /\ host' = [host EXCEPT !.prev_sent = code, !.sid_out = id]
      BY <1>1, <1>2, <2>1 DEF HostSend
    <2> QED
      BY <2>1, <2>2 DEF HostSend, devVars, HostTypes
  <1>4. /\ e \in [s : Services, b : Payload] /\ S \in Sends /\ taken["dev"] \in Takes
        /\ T \in Sends /\ Len(S) \in Nat /\ n = Len(S) + 1 /\ T[n] = e
        /\ n \in 1 .. Len(T) /\ n # 0 /\ T[n].s = id /\ T[n].b = c
    <2>1. e \in [s : Services, b : Payload] /\ S \in Sends /\ taken["dev"] \in Takes
      BY <1>1 DEF SentTypes, TakenTypes, Sides
    <2>2. T \in Sends /\ Len(S) \in Nat /\ n = Len(S) + 1 /\ T[Len(S) + 1] = e
      BY <1>1, <2>1, AppendProperties, LenProperties DEF Sends
    <2>3. n \in 1 .. n /\ n # 0
      BY <2>2, SMT
    <2> QED
      BY <1>1, <2>1, <2>2, <2>3
  <1>5. n \in 0 .. MaxSends
    BY <1>1, <1>3, UserSends DEF HostSend, Sides
  <1>6. c \in Bytes /\ id \in Special /\ id # ESC /\ id # FORCE /\ id # None
    BY SpecialBytes
  <1>7. code \in Seq(Wire) /\ code # NothingSent
    BY <1>1, <1>5, <1>6, LastSentType, EncodedIs
  <1>8. PICK v : v = Control(id)
    OBVIOUS
  <1>9. v \in Wire /\ v.b = id /\ v.n = 0 /\ toDev \in Seq(Wire) /\ toHost \in Seq(Wire)
    BY <1>8, SpecialBytes DEF Control, Wire, LineTypes
  <1>10. q = Append(toDev, v) \/ (q = toDev /\ id = host.sid_out)
    <2>1. SidNeeded(id) => q = Append(toDev, v)
      BY <1>2, <1>8, <1>9, OneBehindTheOther
    <2>2. ~SidNeeded(id) => q = toDev
      BY <1>2, <1>9, OneBehindTheOther
    <2>3. ~SidNeeded(id) => id = host.sid_out
      BY DEF SidNeeded
    <2> QED
      BY <2>1, <2>2, <2>3
  <1>11. q \in Seq(Wire)
    BY <1>9, <1>10, AppendProperties
  <1>12. AtSend'
    BY <1>3 DEF AtSend, Tested, Now
  <1>13. ASSUME DevLine PROVE DevLine'
    <2>1. PICK sid, esc, out, ts, once, p :
              /\ sid = dev.sid_in /\ esc = dev.got_esc /\ out = host.sid_out /\ ts = taken["dev"]
              /\ once = Flag(host.prev_sent # NothingSent) /\ p = toDev
      OBVIOUS
    <2>2. /\ Carries(p, sid, esc, S, out, FALSE) /\ NoForce(p)
          /\ InStep(ts, p, Len(S), once) /\ Right(ts, S)
          /\ ts \in Takes /\ p \in Seq(Wire)
      BY <1>1, <1>4, <1>9, <1>13, <2>1 DEF DevLine
    <2>3. Carries(p, sid, esc, T, out, FALSE)
      BY <1>1, <1>4, <2>2, MoreCarried
    <2>4. /\ Carries(q, sid, esc, T, id, FALSE) /\ NoForce(q) /\ InStep(ts, q, Len(S), once)
      <3>1. CASE q = Append(p, v)
        <4>1. Carries(q, sid, esc, T, id, FALSE)
          BY <1>6, <1>8, <1>9, <2>3, <3>1, ControlCarried
        <4>2. NoForce(q)
          BY <1>6, <1>9, <2>2, <3>1, NoForceMore
        <4>3. InStep(ts, q, Len(S), once)
          BY <1>4, <1>9, <2>2, <3>1, StepOn
        <4> QED
          BY <4>1, <4>2, <4>3
      <3>2. CASE q = p /\ id = out
        BY <2>2, <2>3, <3>2
      <3> QED
        BY <1>10, <2>1, <3>1, <3>2
    <2>5. Carries(q \o code, sid, esc, T, id, FALSE)
      BY <1>1, <1>4, <1>5, <2>4, EncodedCarried
    <2>6. NoForce(q \o code)
      BY <1>1, <1>5, <1>6, <1>11, <2>4, NoForceMore
    <2>7. InStep(ts, q \o code, n, TRUE)
      <3>1. InStep(ts, q \o Encoded(c, n), Len(S) + 1, TRUE)
        BY <1>4, <1>5, <1>6, <1>11, <2>2, <2>4, EncodedInStep
      <3> QED
        BY <1>1, <1>4, <3>1
    <2>8. Right(ts, T)
      BY <1>1, <1>4, <2>2, RightMore
    <2>9. Repeats(code, T, id) /\ Flag(code # NothingSent) = TRUE
      BY <1>1, <1>4, <1>7 DEF Repeats, Flag
    <2>10. Heard(toHost', host'.sid_in, Flag(dev'.sid_out # None \/ pc' # "idle"))
      BY <1>3, <1>13 DEF DevLine
    <2> QED
      BY <1>1, <1>3, <2>1, <2>5, <2>6, <2>7, <2>8, <2>9, <2>10 DEF DevLine
  <1>14. ASSUME HostLine PROVE HostLine'
    <2>1. PICK sid, on : sid = dev.sid_in /\ on = Flag(host.sid_out # None)
      OBVIOUS
    <2>2. Heard(toDev, sid, on)
      BY <1>14, <2>1 DEF HostLine
    <2>3. Heard(q, sid, TRUE)
      <3>1. CASE q = Append(toDev, v)
        BY <1>9, <2>2, <3>1, HeardMore
      <3>2. CASE q = toDev /\ id = host.sid_out
        <4>1. on = TRUE
          BY <1>6, <2>1, <3>2 DEF Flag
        <4> QED
          BY <2>2, <3>2, <4>1
      <3> QED
        BY <1>10, <3>1, <3>2
    <2>4. Heard(q \o code, sid, TRUE)
      BY <1>7, <1>11, <2>3, HeardOn
    <2>5. Heard(toDev', dev'.sid_in, Flag(host'.sid_out # None))
      BY <1>3, <1>6, <2>1, <2>4 DEF Flag
    <2>6. DevOut' = DevOut /\ OnLine' = OnLine /\ Once' = Once /\ Now' = Now
      BY <1>3 DEF DevOut, OnLine, Sending, Now, Once
    <2> QED
      BY <1>3, <1>14, <2>5, <2>6 DEF HostLine
  <1> QED
    BY <1>12, <1>13, <1>14

\* A side that restarts knows no service.  What it then receives may lack its
\* beginning, and it is the side that asks for the service.
LEMMA RestartKeepsLines ==
    ASSUME Types, AtSend
    PROVE  /\ DevRestart => AtSend' /\ (DevLine => DevLine')
           /\ HostRestart => AtSend' /\ (HostLine => HostLine')
  <1> USE DEF Types
  <1>1. /\ toHost \in Seq(Wire) /\ toDev \in Seq(Wire)
        /\ taken["host"] \in Takes /\ taken["dev"] \in Takes
    BY DEF LineTypes, TakenTypes, Sides
  <1>2. ASSUME NEW q \in Seq(Wire), NEW k \in 1 .. Len(q) + 1, NEW ts \in Takes, NEW top, NEW once,
               InStep(ts, q, top, once)
        PROVE  InStep(ts, SubSeq(q, k, Len(q)), top, once)
    <2>1. PICK t, d : t = SubSeq(q, k, Len(q)) /\ d = k - 1
      OBVIOUS
    <2>2. /\ t \in Seq(Wire) /\ Len(t) \in Nat /\ Len(t) = (Len(q) - k) + 1
          /\ Len(q) \in Nat /\ k \in Nat /\ k # 0
          /\ \A i \in 1 .. Len(t) : (k + i) - 1 \in 1 .. Len(q) /\ t[i] = q[(k + i) - 1]
      BY <2>1, LostIs
    <2>3. d \in Nat /\ Len(t) = Len(q) - d /\ \A i \in 1 .. Len(t) : (k + i) - 1 = i + d
      BY <2>1, <2>2, SMT
    <2>4. \A i \in 1 .. Len(t) : t[i] = q[i + d]
      BY <2>2, <2>3
    <2>5. InStep(ts, t, top, once)
      BY <1>2, <2>2, <2>3, <2>4, BeginningGone
    <2> QED
      BY <2>1, <2>5
  <1>3. ASSUME NEW q, NEW sid, NEW on, Heard(q, sid, on) PROVE Heard(q, sid, FALSE)
    BY <1>3 DEF Heard
  <1>4. ASSUME DevRestart PROVE AtSend' /\ (DevLine => DevLine')
    <2>1. /\ dev'.sid_in = None /\ dev'.sid_out = None /\ dev'.last_sent = NothingSent
          /\ dev'.got_esc = FALSE /\ pc' = "idle" /\ UNCHANGED <<host, toHost, sent, taken>>
      BY <1>4 DEF DevRestart, DevStart
    <2>2. PICK k \in 1 .. Len(toDev) + 1 : toDev' = SubSeq(toDev, k, Len(toDev))
      BY <1>4 DEF DevRestart
    <2>3. AtSend'
      BY <2>1 DEF AtSend, Tested
    <2>4. ASSUME DevLine PROVE DevLine'
      <3>1. PICK q, sid, esc, out, ts, once, S, top :
                /\ q = toDev /\ sid = dev.sid_in /\ esc = dev.got_esc /\ out = host.sid_out
                /\ ts = taken["dev"] /\ once = Flag(host.prev_sent # NothingSent)
                /\ S = sent["host"] /\ top = Len(S)
        OBVIOUS
      <3>2. /\ Carries(q, sid, esc, S, out, FALSE) /\ NoForce(q) /\ InStep(ts, q, top, once)
            /\ q \in Seq(Wire) /\ ts \in Takes /\ k \in 1 .. Len(q) + 1
        BY <1>1, <2>2, <2>4, <3>1 DEF DevLine
      <3>3. Carries(SubSeq(q, k, Len(q)), None, FALSE, S, out, FALSE)
        BY <3>2, CarriesLost
      <3>4. NoForce(SubSeq(q, k, Len(q)))
        BY <3>2, NoForceMore
      <3>5. InStep(ts, SubSeq(q, k, Len(q)), top, once)
        BY <1>2, <3>2
      <3>6. Heard(toHost', host'.sid_in, Flag(dev'.sid_out # None \/ pc' # "idle"))
        <4>1. Flag(dev'.sid_out # None \/ pc' # "idle") = FALSE
          BY <2>1 DEF Flag
        <4>2. PICK on, s, r : on = Flag(dev.sid_out # None \/ pc # "idle") /\ s = host.sid_in /\ r = toHost
          OBVIOUS
        <4>3. Heard(r, s, on)
          BY <2>4, <4>2 DEF DevLine
        <4>4. Heard(r, s, FALSE)
          BY <1>3, <4>3
        <4> QED
          BY <2>1, <4>1, <4>2, <4>4
      <3> QED
        BY <2>1, <2>2, <2>4, <3>1, <3>3, <3>4, <3>5, <3>6 DEF DevLine
    <2> QED
      BY <2>3, <2>4
  <1>5. ASSUME HostRestart PROVE AtSend' /\ (HostLine => HostLine')
    <2>1. /\ host'.sid_in = None /\ host'.sid_out = None /\ host'.prev_sent = NothingSent
          /\ host'.got_esc = FALSE /\ UNCHANGED <<dev, pc, arg, toDev, sent, taken>>
      BY <1>5 DEF HostRestart, HostStart, devVars
    <2>2. PICK k \in 1 .. Len(toHost) + 1 : toHost' = SubSeq(toHost, k, Len(toHost))
      BY <1>5 DEF HostRestart
    <2>3. AtSend'
      BY <2>1 DEF AtSend, Tested, Now
    <2>4. ASSUME HostLine PROVE HostLine'
      <3>1. PICK q, sid, esc, out, ts, once, S, top, open :
                /\ q = toHost /\ sid = host.sid_in /\ esc = host.got_esc /\ out = DevOut
                /\ ts = taken["host"] /\ once = Once /\ S = sent["dev"] /\ top = OnLine
                /\ open = Flag(pc = "xor")
        OBVIOUS
      <3>2. /\ Carries(q, sid, esc, S, out, open) /\ InStep(ts, q, top, once)
            /\ q \in Seq(Wire) /\ ts \in Takes /\ k \in 1 .. Len(q) + 1
        BY <1>1, <2>2, <2>4, <3>1 DEF HostLine
      <3>3. Carries(SubSeq(q, k, Len(q)), None, FALSE, S, out, open)
        BY <3>2, CarriesLost
      <3>4. InStep(ts, SubSeq(q, k, Len(q)), top, once)
        BY <1>2, <3>2
      <3>5. Heard(toDev', dev'.sid_in, Flag(host'.sid_out # None))
        <4>1. Flag(host'.sid_out # None) = FALSE
          BY <2>1 DEF Flag
        <4>2. PICK on, s, r : on = Flag(host.sid_out # None) /\ s = dev.sid_in /\ r = toDev
          OBVIOUS
        <4>3. Heard(r, s, on)
          BY <2>4, <4>2 DEF HostLine
        <4>4. Heard(r, s, FALSE)
          BY <1>3, <4>3
        <4> QED
          BY <2>1, <4>1, <4>2, <4>4
      <3>6. /\ DevOut' = out /\ OnLine' = top /\ Once' = once /\ Now' = Now
            /\ Flag(pc' = "xor") = open
        BY <2>1, <3>1 DEF DevOut, OnLine, Sending, Now, Once
      <3> QED
        BY <2>1, <2>2, <2>4, <3>1, <3>3, <3>4, <3>5, <3>6 DEF HostLine
    <2> QED
      BY <2>3, <2>4
  <1> QED
    BY <1>4, <1>5

\* At the start nothing is under way.
LEMMA SurvivesInit == Init => Survives
  <1> SUFFICES ASSUME Init PROVE Survives
    OBVIOUS
  <1>1. /\ 1 .. Len(<<>>) = {} /\ Len(<<>>) + 1 = 1 /\ 1 .. 1 - 1 = {} /\ Len(<<>>) = 0
        /\ Len(<<>>) + Len(<<>>) = 0 /\ 1 .. 0 = {}
    BY EmptySeq, SMT
  <1>2. <<>> \in Seq(Wire) /\ <<>> \in Sends
    BY EmptySeq DEF Sends
  <1>3. Carries(<<>>, None, FALSE, <<>>, None, FALSE)
    BY <1>1, <1>2 DEF Carries, IsSid, EscAt
  <1>4. InStep(<<>>, <<>>, 0, FALSE) /\ Right(<<>>, <<>>) /\ NoForce(<<>>)
    BY <1>1 DEF InStep, Total, Right, NoForce
  <1>5. Repeats(NothingSent, <<>>, None) /\ Heard(<<>>, None, FALSE)
    BY HeardNothing DEF Repeats
  <1>6. /\ dev.sid_in = None /\ dev.sid_out = None /\ dev.got_esc = FALSE
        /\ dev.last_sent = NothingSent /\ host.sid_in = None /\ host.sid_out = None
        /\ host.got_esc = FALSE /\ host.prev_sent = NothingSent /\ pc = "idle"
        /\ toDev = <<>> /\ toHost = <<>> /\ sent["host"] = <<>> /\ sent["dev"] = <<>>
        /\ taken["host"] = <<>> /\ taken["dev"] = <<>>
    BY DEF Init, DevStart, HostStart
  <1>7. /\ DevOut = None /\ OnLine = 0 /\ Once = FALSE /\ Flag(pc = "xor") = FALSE
        /\ Flag(host.prev_sent # NothingSent) = FALSE /\ Flag(host.sid_out # None) = FALSE
        /\ Flag(dev.sid_out # None \/ pc # "idle") = FALSE
    BY <1>1, <1>6 DEF DevOut, OnLine, Sending, Now, Once, Flag
  <1>8. DevLine
    BY <1>1, <1>3, <1>4, <1>5, <1>6, <1>7 DEF DevLine
  <1>9. HostLine
    BY <1>3, <1>4, <1>5, <1>6, <1>7 DEF HostLine
  <1>10. AtSend
    BY <1>6 DEF AtSend, Tested
  <1> QED
    BY <1>8, <1>9, <1>10 DEF Survives

\* Every step keeps what restarts leave of the data.
LEMMA StepKeepsSurvives == Types /\ Survives /\ [Next]_vars => Survives'
  <1> SUFFICES ASSUME Types, Survives, [Next]_vars PROVE Survives'
    OBVIOUS
  <1>1. AtSend
    BY DEF Survives
  <1>2. ASSUME AtSend', UNCHANGED <<restarts, raced>>, DevLine => DevLine',
               ~raced /\ HostLine => HostLine'
        PROVE  Survives'
    BY <1>2 DEF Survives
  <1>3. CASE UNCHANGED vars
    <2>1. UNCHANGED <<dev, pc, arg, host, toHost, toDev, sent, taken, restarts, raced>>
      BY <1>3 DEF vars, devVars
    <2>2. DevOut' = DevOut /\ OnLine' = OnLine /\ Once' = Once /\ Now' = Now
      BY <2>1 DEF DevOut, OnLine, Sending, Now, Once
    <2>3. AtSend'
      BY <1>1, <2>1 DEF AtSend, Tested, Now
    <2>4. DevLine => DevLine'
      BY <2>1 DEF DevLine
    <2>5. HostLine => HostLine'
      BY <2>1, <2>2 DEF HostLine
    <2> QED
      BY <1>2, <2>1, <2>3, <2>4, <2>5
  <1>4. CASE platform_uart_send
    <2>1. UNCHANGED <<restarts, raced>>
      BY <1>4 DEF platform_uart_send, SendSid, SetLast, SendEsc, SendXored, SendData, SetMask,
                  SetOut, Transmit
    <2> QED
      BY <1>1, <1>2, <1>4, <2>1, SendKeepsByte, SendKeepsDevLine, SendKeepsHostLine
  <1>5. CASE cmn_rx_handler
    <2>1. UNCHANGED restarts /\ (~raced' => ~raced)
      <3> DEFINE w == Head(toDev)
      <3>1. /\ UNCHANGED restarts
            /\ DevRxEsc(w) \/ DevRxSid(w) \/ DevRxForce(w) \/ DevRxUnknown(w) \/ DevRxData(w)
        BY <1>5 DEF cmn_rx_handler
      <3> HIDE DEF w
      <3>2. DevRxForce(w) => (~raced' => ~raced)
        BY Zenon DEF DevRxForce
      <3>3. ~DevRxForce(w) => UNCHANGED raced
        BY <3>1 DEF DevRxEsc, DevRxSid, DevRxUnknown, DevRxData, DevData
      <3> QED
        BY <3>1, <3>2, <3>3
    <2>2. AtSend' /\ (DevLine => DevLine') /\ (~raced' /\ HostLine => HostLine')
      BY <1>1, <1>5, DevReceiveKeepsByte, DevReceiveKeepsDevLine, DevReceiveKeepsHostLine
    <2> QED
      BY <2>1, <2>2 DEF Survives
  <1>6. CASE HostReceive
    <2>1. UNCHANGED <<restarts, raced>>
      BY <1>6 DEF HostReceive
    <2> QED
      BY <1>1, <1>2, <1>6, <2>1, HostReceiveKeepsByte, HostReceiveKeepsDevLine,
         HostReceiveKeepsHostLine
  <1>7. ASSUME NEW id \in Services, NEW c \in Payload, HostSend(id, c) PROVE Survives'
    <2>1. UNCHANGED <<restarts, raced>>
      BY <1>7 DEF HostSend
    <2> QED
      BY <1>1, <1>2, <1>7, <2>1, HostSendKeepsLines
  <1>8. ASSUME NEW side \in Sides, Restart(side)
        PROVE  /\ restarts'[side] # 0
               /\ \A other \in Sides : other # side => restarts'[other] = restarts[other]
    <2>1. restarts \in [Sides -> 0 .. MaxRestarts]
      BY DEF Types, FaultTypes
    <2>2. restarts[side] \in Nat
      BY <2>1, SpecialBytes, SMT
    <2>3. restarts[side] + 1 # 0
      BY <2>2, SMT
    <2> QED
      BY <1>8, <2>1, <2>3 DEF Restart
  <1>9. CASE DevRestart
    <2>1. restarts'["dev"] # 0 /\ restarts'["host"] = restarts["host"]
      BY <1>8, <1>9 DEF DevRestart, Sides
    <2>2. AtSend' /\ (DevLine => DevLine')
      BY <1>1, <1>9, RestartKeepsLines
    <2> QED
      BY <2>1, <2>2 DEF Survives
  <1>10. CASE HostRestart
    <2>1. restarts'["host"] # 0 /\ restarts'["dev"] = restarts["dev"] /\ UNCHANGED raced
      BY <1>8, <1>10 DEF HostRestart, Sides
    <2>2. AtSend' /\ (HostLine => HostLine')
      BY <1>1, <1>10, RestartKeepsLines
    <2> QED
      BY <2>1, <2>2 DEF Survives
  <1> QED
    BY <1>3, <1>4, <1>5, <1>6, <1>7, <1>9, <1>10 DEF Next

\* What is handed out and what is on the line stays in order and unchanged, with
\* the reservations of RestartKeepsData, in every reachable state.
THEOREM RestartInvariant == Spec => []RestartInv
  <1>1. Init => RestartInv
    BY TypesInit, SurvivesInit DEF RestartInv
  <1>2. RestartInv /\ [Next]_vars => RestartInv'
    BY StepKeepsTypes, StepKeepsSurvives DEF RestartInv
  <1> QED
    BY <1>1, <1>2, PTL DEF Spec

\* Bytes that are in step with what was sent, and right, are genuine.
LEMMA RightIsGenuine ==
    ASSUME NEW ts \in Takes, NEW q \in Seq(Wire), NEW us \in Sends, NEW top, NEW once,
           InStep(ts, q, top, once), Right(ts, us)
    PROVE  Genuine(ts, us)
  <1>1. Len(ts) \in Nat /\ Len(q) \in Nat /\ Len(us) \in Nat
    BY LenProperties DEF Takes, Sends
  <1>2. ASSUME NEW i \in 1 .. Len(ts) PROVE i \in 1 .. Total(ts, q) /\ NumAt(ts, q, i) = ts[i].n
    BY <1>1 DEF Total, NumAt
  <1>3. ASSUME NEW i \in 1 .. Len(ts)
        PROVE  ts[i].n \in 1 .. Len(us) /\ ts[i].n # 0 /\ User(ts[i]) = us[ts[i].n]
    <2>1. ts[i].n \in 1 .. Len(us) /\ ts[i].s = us[ts[i].n].s /\ ts[i].b = us[ts[i].n].b
      BY DEF Right
    <2>2. ts[i].n # 0
      BY <1>1, <2>1, SMT
    <2>3. us[ts[i].n] \in [s : Services, b : Payload]
      BY <2>1, ElementOfSeq DEF Sends
    <2> QED
      BY <2>1, <2>2, <2>3 DEF User
  <1>4. ASSUME NEW i \in 1 .. Len(ts), NEW j \in 1 .. Len(ts), i < j
        PROVE  ts[i].n <= ts[j].n
    <2>1. NumAt(ts, q, i) <= NumAt(ts, q, j)
      BY <1>2, <1>3, <1>4 DEF InStep
    <2> QED
      BY <1>2, <2>1
  <1>5. ASSUME NEW i \in 1 .. Len(ts) - 2 PROVE ts[i].n # ts[i + 2].n
    <2>1. /\ i \in 1 .. Len(ts) /\ i + 1 \in 1 .. Len(ts) /\ i + 2 \in 1 .. Len(ts)
          /\ i < i + 1 /\ i + 1 < i + 2
      BY <1>1, SMT
    <2>2. ~(ts[i].n = ts[i + 1].n /\ ts[i + 1].n = ts[i + 2].n)
      BY <1>2, <1>3, <2>1 DEF InStep
    <2>3. ts[i].n <= ts[i + 1].n /\ ts[i + 1].n <= ts[i + 2].n
      BY <1>4, <2>1
    <2>4. ts[i].n \in Nat /\ ts[i + 1].n \in Nat /\ ts[i + 2].n \in Nat
      BY <1>1, <1>3, <2>1
    <2> QED
      BY <2>2, <2>3, <2>4, SMT
  <1> QED
    BY <1>3, <1>4, <1>5 DEF Genuine

\* However often the device restarts, it hands out bytes that were given to a host
\* that has not: unchanged, on their service, in order and none more than twice.
\* The same holds for the host, unless a repetition has interrupted
\* platform_uart_send.
THEOREM DataSurvivesRestarts == Spec => []RestartKeepsData
  <1>1. RestartInv => RestartKeepsData
    <2> SUFFICES ASSUME Types, Survives PROVE RestartKeepsData
      BY DEF RestartInv
    <2>1. /\ taken["dev"] \in Takes /\ taken["host"] \in Takes
          /\ sent["dev"] \in Sends /\ sent["host"] \in Sends
          /\ toHost \in Seq(Wire) /\ toDev \in Seq(Wire)
      BY DEF Types, TakenTypes, SentTypes, LineTypes, Sides
    <2>2. ASSUME restarts["host"] = 0 PROVE Genuine(taken["dev"], sent["host"])
      <3>1. PICK ts, q, us, top, once :
                /\ ts = taken["dev"] /\ q = toDev /\ us = sent["host"] /\ top = Len(sent["host"])
                /\ once = Flag(host.prev_sent # NothingSent)
        OBVIOUS
      <3>2. InStep(ts, q, top, once) /\ Right(ts, us)
        BY <2>2, <3>1 DEF Survives, DevLine
      <3> QED
        BY <2>1, <3>1, <3>2, RightIsGenuine
    <2>3. ASSUME restarts["dev"] = 0, ~raced PROVE Genuine(taken["host"], sent["dev"])
      <3>1. PICK ts, q, us, top, once :
                /\ ts = taken["host"] /\ q = toHost /\ us = sent["dev"] /\ top = OnLine
                /\ once = Once
        OBVIOUS
      <3>2. InStep(ts, q, top, once) /\ Right(ts, us)
        BY <2>3, <3>1 DEF Survives, HostLine
      <3> QED
        BY <2>1, <3>1, <3>2, RightIsGenuine
    <2> QED
      BY <2>2, <2>3 DEF RestartKeepsData
  <1> QED
    BY <1>1, RestartInvariant, PTL
=============================================================================
