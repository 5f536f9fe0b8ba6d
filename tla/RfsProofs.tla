---------------------------- MODULE RfsProofs ----------------------------
(***************************************************************************)
(* Theorems about Rfs, for any number of descriptors, chunks, requests,    *)
(* lost symbols and restarts: every answer is taken once and in order, and *)
(* it is the answer to the request that waits for it unless a call has     *)
(* given up before; what is counted as written is in the file; and the     *)
(* server has no descriptor open that the program does not know of and     *)
(* that no failed call accounts for.                                       *)
(***************************************************************************)
EXTENDS Rfs, Integers, SequenceTheorems, FiniteSetTheorems, WellFoundedInduction, TLAPS

----------------------------------------------------------------------------
(* The requests that the ends of packets on a line stand for               *)

Carries(w, K) == w.k = "body" /\ w.m.kind \in K

Carried(q, K) == {q[i].m.seq : i \in {j \in 1 .. Len(q) : Carries(q[j], K)}}

Ordered(q, K) ==
    \A i, j \in 1 .. Len(q) :
        i < j /\ Carries(q[i], K) /\ Carries(q[j], K) => q[i].m.seq < q[j].m.seq

\* What arrives leaves the line; it comes before what is still on it.
LEMMA TailCarried ==
    ASSUME NEW S, NEW q \in Seq(S), q # <<>>, NEW K
    PROVE  /\ Tail(q) \in Seq(S) /\ Head(q) \in S
           /\ Carried(Tail(q), K) \subseteq Carried(q, K)
           /\ Carries(Head(q), K) => Head(q).m.seq \in Carried(q, K)
           /\ Ordered(q, K) =>
                 /\ Ordered(Tail(q), K)
                 /\ Carries(Head(q), K) =>
                       \A n \in Carried(Tail(q), K) : Head(q).m.seq < n
  <1>1. /\ Head(q) \in S /\ Tail(q) \in Seq(S)
        /\ Len(Tail(q)) = Len(q) - 1
        /\ \A i \in 1 .. Len(Tail(q)) : Tail(q)[i] = q[i + 1]
    BY HeadTailProperties
  <1>2. Head(q) = q[1] /\ Len(q) \in Nat /\ Len(q) >= 1
    BY EmptySeq, SMT
  <1>3. \A i \in 1 .. Len(Tail(q)) : i + 1 \in 1 .. Len(q) /\ 1 < i + 1
    BY <1>1, <1>2, SMT
  <1>4. Carried(Tail(q), K) \subseteq Carried(q, K)
    BY <1>1, <1>3 DEF Carried
  <1>5. Carries(Head(q), K) => Head(q).m.seq \in Carried(q, K)
    <2>1. 1 \in 1 .. Len(q)
      BY <1>2, SMT
    <2> QED
      BY <1>2, <2>1 DEF Carried
  <1>6. ASSUME Ordered(q, K) PROVE Ordered(Tail(q), K)
    <2> SUFFICES ASSUME NEW i \in 1 .. Len(Tail(q)), NEW j \in 1 .. Len(Tail(q)), i < j,
                        Carries(Tail(q)[i], K), Carries(Tail(q)[j], K)
                 PROVE  Tail(q)[i].m.seq < Tail(q)[j].m.seq
      BY DEF Ordered
    <2>1. i + 1 < j + 1
      BY <1>1, <1>2, SMT
    <2> QED
      BY <1>1, <1>3, <1>6, <2>1 DEF Ordered
  <1>7. ASSUME Ordered(q, K), Carries(Head(q), K), NEW n \in Carried(Tail(q), K)
        PROVE  Head(q).m.seq < n
    <2>1. PICK i \in 1 .. Len(Tail(q)) : Carries(Tail(q)[i], K) /\ n = Tail(q)[i].m.seq
      BY DEF Carried
    <2>2. 1 \in 1 .. Len(q)
      BY <1>2, SMT
    <2> QED
      BY <1>1, <1>2, <1>3, <1>7, <2>1, <2>2 DEF Ordered
  <1> QED
    BY <1>1, <1>4, <1>5, <1>6, <1>7

\* A packet is put on the line behind everything else.
LEMMA PacketCarried ==
    ASSUME NEW S, NEW q \in Seq(S), NEW m, NEW K,
           [k |-> "size", m |-> m] \in S, [k |-> "body", m |-> m] \in S
    PROVE  /\ q \o Packet(m) \in Seq(S)
           /\ m.kind \in K => Carried(q \o Packet(m), K) = Carried(q, K) \cup {m.seq}
           /\ m.kind \notin K => Carried(q \o Packet(m), K) = Carried(q, K)
           /\ Ordered(q, K) /\ (m.kind \in K => \A n \in Carried(q, K) : n < m.seq)
                 => Ordered(q \o Packet(m), K)
  <1> DEFINE p == Packet(m)
             r == q \o p
  <1>1. p \in Seq(S) /\ Len(p) = 2
        /\ p[1] = [k |-> "size", m |-> m] /\ p[2] = [k |-> "body", m |-> m]
    BY SMT DEF Packet
  <1> HIDE DEF p
  <1>2. /\ r \in Seq(S) /\ Len(r) = Len(q) + Len(p)
        /\ \A i \in 1 .. Len(q) + Len(p) :
              r[i] = IF i <= Len(q) THEN q[i] ELSE p[i - Len(q)]
    BY <1>1, ConcatProperties
  <1>3. Len(q) \in Nat
    BY LenProperties
  <1>4. /\ \A i \in 1 .. Len(q) : i \in 1 .. Len(r) /\ r[i] = q[i]
        /\ \A i \in 1 .. Len(r) : i \in 1 .. Len(q) \/ i = Len(q) + 1 \/ i = Len(q) + 2
        /\ Len(q) + 1 \in 1 .. Len(r) /\ Len(q) + 2 \in 1 .. Len(r)
        /\ r[Len(q) + 1] = p[1] /\ r[Len(q) + 2] = p[2]
    BY <1>1, <1>2, <1>3, SMT
  <1> HIDE DEF r
  <1>5. ~Carries(r[Len(q) + 1], K)
    BY <1>1, <1>4 DEF Carries
  <1>6. /\ Carries(r[Len(q) + 2], K) <=> m.kind \in K
        /\ r[Len(q) + 2].m.seq = m.seq
    BY <1>1, <1>4 DEF Carries
  <1>7. m.kind \in K => Carried(r, K) = Carried(q, K) \cup {m.seq}
    BY <1>4, <1>5, <1>6 DEF Carried
  <1>8. m.kind \notin K => Carried(r, K) = Carried(q, K)
    BY <1>4, <1>5, <1>6 DEF Carried
  <1>9. ASSUME Ordered(q, K), m.kind \in K => \A n \in Carried(q, K) : n < m.seq
        PROVE  Ordered(r, K)
    <2> SUFFICES ASSUME NEW i \in 1 .. Len(r), NEW j \in 1 .. Len(r), i < j,
                        Carries(r[i], K), Carries(r[j], K)
                 PROVE  r[i].m.seq < r[j].m.seq
      BY DEF Ordered
    <2>1. i # Len(q) + 1 /\ j # Len(q) + 1
      BY <1>5
    <2>2. i \in 1 .. Len(q)
      BY <2>1, <1>2, <1>3, <1>4, SMT
    <2>3. CASE j \in 1 .. Len(q)
      BY <1>4, <1>9, <2>2, <2>3 DEF Ordered
    <2>4. CASE j = Len(q) + 2
      <3>1. r[i].m.seq \in Carried(q, K)
        BY <1>4, <2>2 DEF Carried
      <3> QED
        BY <1>6, <1>9, <2>4, <3>1
    <2> QED
      BY <1>4, <2>1, <2>3, <2>4
  <1> QED
    BY <1>2, <1>7, <1>8, <1>9 DEF r, p

\* r is q without some of its symbols.
Within(r, q) ==
    \E f \in [1 .. Len(r) -> 1 .. Len(q)] :
        /\ \A i, j \in 1 .. Len(r) : i < j => f[i] < f[j]
        /\ \A i \in 1 .. Len(r) : r[i] = q[f[i]]

\* Without some symbols, the rest stays in order.
LEMMA WithinCarried ==
    ASSUME NEW q, NEW r, NEW K, Within(r, q)
    PROVE  /\ Carried(r, K) \subseteq Carried(q, K)
           /\ Ordered(q, K) => Ordered(r, K)
  <1>1. PICK f \in [1 .. Len(r) -> 1 .. Len(q)] :
            /\ \A i, j \in 1 .. Len(r) : i < j => f[i] < f[j]
            /\ \A i \in 1 .. Len(r) : r[i] = q[f[i]]
    BY DEF Within
  <1>2. \A i \in 1 .. Len(r) : f[i] \in 1 .. Len(q)
    OBVIOUS
  <1>3. Carried(r, K) \subseteq Carried(q, K)
    <2> SUFFICES ASSUME NEW i \in 1 .. Len(r), Carries(r[i], K)
                 PROVE  r[i].m.seq \in Carried(q, K)
      BY DEF Carried
    <2>1. r[i] = q[f[i]] /\ f[i] \in 1 .. Len(q)
      BY <1>1, <1>2
    <2> QED
      BY <2>1 DEF Carried
  <1>4. ASSUME Ordered(q, K) PROVE Ordered(r, K)
    <2> SUFFICES ASSUME NEW i \in 1 .. Len(r), NEW j \in 1 .. Len(r), i < j,
                        Carries(r[i], K), Carries(r[j], K)
                 PROVE  r[i].m.seq < r[j].m.seq
      BY DEF Ordered
    <2> QED
      BY <1>1, <1>2, <1>4 DEF Ordered
  <1> QED
    BY <1>3, <1>4

\* The others move up.
LEMMA RemovedLeaves ==
    ASSUME NEW S, NEW q \in Seq(S), NEW i \in 1 .. Len(q)
    PROVE  /\ RemoveAt(q, i) \in Seq(S) /\ Len(RemoveAt(q, i)) = Len(q) - 1
           /\ \A j \in 1 .. Len(q) - 1 : RemoveAt(q, i)[j] = IF j < i THEN q[j] ELSE q[j + 1]
           /\ \A j \in 1 .. Len(q) : j = i \/ \E k \in 1 .. Len(RemoveAt(q, i)) : RemoveAt(q, i)[k] = q[j]
  <1> DEFINE a == SubSeq(q, 1, i - 1)
             b == SubSeq(q, i + 1, Len(q))
             r == a \o b
  <1>0. Len(q) \in Nat /\ \A j \in 1 .. Len(q) : q[j] \in S
    BY LenProperties, ElementOfSeq
  <1>1. /\ a \in Seq(S) /\ Len(a) = i - 1
        /\ \A j \in 1 .. i - 1 : a[j] = q[j]
    BY <1>0, SubSeqProperties, SMT
  <1>2. /\ b \in Seq(S) /\ Len(b) = Len(q) - i
        /\ \A j \in 1 .. Len(q) - i : b[j] = q[j + i]
    BY <1>0, SubSeqProperties, SMT
  <1> HIDE DEF a, b
  <1>3. /\ r \in Seq(S) /\ Len(r) = Len(q) - 1
        /\ \A j \in 1 .. Len(q) - 1 : r[j] = IF j < i THEN q[j] ELSE q[j + 1]
    <2>1. /\ r \in Seq(S) /\ Len(r) = Len(a) + Len(b)
          /\ \A j \in 1 .. Len(a) + Len(b) :
                r[j] = IF j <= Len(a) THEN a[j] ELSE b[j - Len(a)]
      BY <1>1, <1>2, ConcatProperties
    <2>2. Len(a) + Len(b) = Len(q) - 1
      BY <1>0, <1>1, <1>2, SMT
    <2> HIDE DEF r
    <2>3. ASSUME NEW j \in 1 .. Len(q) - 1
          PROVE  r[j] = IF j < i THEN q[j] ELSE q[j + 1]
      <3>1. CASE j < i
        BY <1>0, <1>1, <2>1, <2>2, <3>1, SMT
      <3>2. CASE ~ (j < i)
        <4>1. j - Len(a) \in 1 .. Len(q) - i /\ (j - Len(a)) + i = j + 1 /\ ~ (j <= Len(a))
          BY <1>0, <1>1, <3>2, SMT
        <4> QED
          BY <1>2, <2>1, <2>2, <3>2, <4>1
      <3> QED
        BY <3>1, <3>2
    <2> QED
      BY <2>1, <2>2, <2>3
  <1>4. RemoveAt(q, i) = r
    BY DEF RemoveAt, a, b
  <1> HIDE DEF r
  <1>5. ASSUME NEW j \in 1 .. Len(q), j # i
        PROVE  \E k \in 1 .. Len(r) : r[k] = q[j]
    <2>1. CASE j < i
      <3>1. j \in 1 .. Len(r) /\ r[j] = q[j]
        BY <1>0, <1>3, <2>1, SMT
      <3> QED
        BY <3>1
    <2>2. CASE ~ (j < i)
      <3>1. j - 1 \in 1 .. Len(r) /\ ~ (j - 1 < i) /\ (j - 1) + 1 = j
        BY <1>0, <1>3, <1>5, <2>2, SMT
      <3>2. r[j - 1] = q[j]
        BY <1>3, <3>1
      <3> QED
        BY <3>1, <3>2
    <2> QED
      BY <2>1, <2>2
  <1> QED
    BY <1>3, <1>4, <1>5

\* A symbol is lost.
LEMMA RemovedWithin ==
    ASSUME NEW S, NEW q \in Seq(S), NEW i \in 1 .. Len(q)
    PROVE  RemoveAt(q, i) \in Seq(S) /\ Within(RemoveAt(q, i), q)
  <1> DEFINE r == RemoveAt(q, i)
             f == [j \in 1 .. Len(r) |-> IF j < i THEN j ELSE j + 1]
  <1>1. /\ r \in Seq(S) /\ Len(r) = Len(q) - 1 /\ Len(q) \in Nat
        /\ \A j \in 1 .. Len(q) - 1 : r[j] = IF j < i THEN q[j] ELSE q[j + 1]
    BY RemovedLeaves, LenProperties
  <1> HIDE DEF r
  <1>2. f \in [1 .. Len(r) -> 1 .. Len(q)]
    BY <1>1, SMT
  <1>3. \A j, k \in 1 .. Len(r) : j < k => f[j] < f[k]
    BY <1>1, SMT
  <1>4. \A j \in 1 .. Len(r) : r[j] = q[f[j]]
    BY <1>1, SMT
  <1> HIDE DEF f
  <1>5. Within(r, q)
    BY <1>2, <1>3, <1>4 DEF Within
  <1> QED
    BY <1>1, <1>5 DEF r

\* The server that starts again drops what has arrived.
LEMMA RestWithin ==
    ASSUME NEW S, NEW q \in Seq(S), NEW n \in 0 .. Len(q)
    PROVE  /\ SubSeq(q, n + 1, Len(q)) \in Seq(S)
           /\ Within(SubSeq(q, n + 1, Len(q)), q)
  <1> DEFINE r == SubSeq(q, n + 1, Len(q))
  <1>0. Len(q) \in Nat /\ \A j \in 1 .. Len(q) : q[j] \in S
    BY LenProperties, ElementOfSeq
  <1>1. /\ r \in Seq(S) /\ Len(r) = Len(q) - n
        /\ \A j \in 1 .. Len(q) - n : r[j] = q[j + n]
    BY <1>0, SubSeqProperties, SMT
  <1> HIDE DEF r
  <1>2. Within(r, q)
    <2> DEFINE f == [j \in 1 .. Len(r) |-> j + n]
    <2>1. f \in [1 .. Len(r) -> 1 .. Len(q)]
      BY <1>0, <1>1, SMT
    <2>2. \A j, k \in 1 .. Len(r) : j < k => f[j] < f[k]
      BY <1>0, <1>1, SMT
    <2>3. \A j \in 1 .. Len(r) : r[j] = q[f[j]]
      BY <1>0, <1>1, SMT
    <2> HIDE DEF f
    <2> QED
      BY <2>1, <2>2, <2>3 DEF Within
  <1> QED
    BY <1>1, <1>2 DEF r

\* The operating system has a smallest free descriptor.
LEMMA MinIn ==
    ASSUME NEW T, T \subseteq Nat, T # {}
    PROVE  Min(T) \in T
  <1>1. \E x \in T : \A y \in T : ~ (<<y, x>> \in OpToRel(<, Nat))
    BY WFMin, NatLessThanWellFounded
  <1>2. PICK x \in T : \A y \in T : ~ (<<y, x>> \in OpToRel(<, Nat))
    BY <1>1
  <1>3. \A y \in T : x <= y
    <2> TAKE y \in T
    <2>1. ~ (y < x)
      BY <1>2, Zenon DEF OpToRel
    <2> QED
      BY <2>1, SMT
  <1> QED
    BY <1>3, Zenon DEF Min

----------------------------------------------------------------------------
(* Types                                                                   *)

\* What a handler answers to an opening call is a descriptor.
Sane(m) == m.kind = "res" /\ m.op \in {"open", "opendir"} => m.val \in Handles \cup {None}

Requests == {s \in Symbol : s.m.kind = "req"}
Answers == {s \in Symbol : Sane(s.m)}

ClientTypes ==
    /\ cli \in [pc : {"idle", "flush", "header", "body"}, op : Ops,
                h : Handles \cup {None}, seq : Seqs, todo : 0 .. MaxChunks,
                clobbered : BOOLEAN]
    /\ cli.pc # "idle" => /\ cli.todo > 0
                          /\ cli.seq + cli.todo <= MaxRequests + 1
                          /\ failed < cli.seq
    /\ failed \in Nat /\ failed <= cli.seq
    /\ held \in [Kinds -> SUBSET Handles]
    /\ late \in BOOLEAN
    /\ accepted \in Seqs \X Seqs
    /\ stored \in Seq(Seqs)

ServerTypes ==
    /\ srv \in [pc : {"header", "flush", "body", "reply", "down"}, m : Message]
    /\ Sane(srv.m)
    /\ srv.pc = "body" => srv.m.kind = "req"
    /\ handles \in [Handles -> [kind : Kinds \cup {"free"}, at : Seqs]]
    /\ file \in Seq(Seqs)

LineTypes ==
    /\ toSrv \in Seq(Requests) /\ toCli \in Seq(Answers)
    /\ lost \in 0 .. MaxLost /\ restarts \in 0 .. MaxRestarts

Types == ClientTypes /\ ServerTypes /\ LineTypes

LEMMA Constants ==
    /\ MaxHandles \in Nat \ {0} /\ MaxChunks \in Nat \ {0}
    /\ MaxEntries \in Nat /\ MaxRequests \in Nat /\ MaxLost \in Nat /\ MaxRestarts \in Nat
  BY RfsAssumption

LEMMA TypesSuffice == Types => TypeOK
  <1> SUFFICES ASSUME Types PROVE TypeOK
    OBVIOUS
  <1>1. toSrv \in Seq(Symbol) /\ toCli \in Seq(Symbol)
    BY SeqMonotonic DEF Types, LineTypes, Requests, Answers
  <1>2. failed \in Seqs
    BY Constants, SMT DEF Types, ClientTypes, Seqs
  <1> QED
    BY <1>1, <1>2 DEF Types, ClientTypes, ServerTypes, LineTypes, TypeOK

LEMMA TypesInit == Init => Types
  <1> SUFFICES ASSUME Init PROVE Types
    OBVIOUS
  <1>1. 0 \in Seqs /\ 0 \in 0 .. MaxChunks /\ 0 \in Nat /\ 0 \in 0 .. MaxLost
        /\ 0 \in 0 .. MaxRestarts
    BY Constants, SMT DEF Seqs
  <1>2. /\ cli \in [pc : {"idle", "flush", "header", "body"}, op : Ops,
                h : Handles \cup {None}, seq : Seqs, todo : 0 .. MaxChunks,
                clobbered : BOOLEAN]
        /\ cli.pc = "idle" /\ cli.seq = 0
    BY <1>1 DEF Init, Idle, Ops
  <1>3. ClientTypes
    <2>1. accepted \in Seqs \X Seqs /\ held \in [Kinds -> SUBSET Handles] /\ late \in BOOLEAN
      BY <1>1 DEF Init
    <2>2. failed = 0 /\ failed \in Nat /\ failed <= cli.seq
      BY <1>2, SMT DEF Init
    <2>3. stored \in Seq(Seqs)
      BY EmptySeq DEF Init
    <2> QED
      BY <1>2, <2>1, <2>2, <2>3 DEF ClientTypes
  <1>4. ServerTypes
    BY <1>1, EmptySeq DEF Init, ServerTypes, NoMessage, Message, Sane, Ops, Free
  <1>5. LineTypes
    BY <1>1, EmptySeq DEF Init, LineTypes
  <1> QED
    BY <1>3, <1>4, <1>5 DEF Types

----------------------------------------------------------------------------
(* Types: the client                                                       *)

\* The state of the client when a call starts.
LEMMA CallTypes ==
    ASSUME Types, MayCall, NEW op \in Ops, NEW h \in Handles \cup {None},
           NEW n \in 1 .. MaxChunks, cli.seq + n <= MaxRequests, Request(op, h, n),
           held' \in [Kinds -> SUBSET Handles], stored' \in Seq(Seqs),
           Afresh, UNCHANGED <<accepted, failed>>
    PROVE  ClientTypes'
  <1>1. cli.seq \in Nat /\ cli.seq + 1 \in Seqs /\ n \in 0 .. MaxChunks
    BY Constants, SMT DEF Types, ClientTypes, MayCall, Seqs
  <1>2. /\ cli' \in [pc : {"idle", "flush", "header", "body"}, op : Ops,
                h : Handles \cup {None}, seq : Seqs, todo : 0 .. MaxChunks,
                clobbered : BOOLEAN]
        /\ cli'.seq = cli.seq + 1 /\ cli'.todo = n
    BY <1>1 DEF Request
  <1>3. late' \in BOOLEAN
    BY Zenon DEF Afresh
  <1>4. /\ cli'.todo > 0 /\ cli'.seq + cli'.todo <= MaxRequests + 1
        /\ failed' < cli'.seq /\ failed' \in Nat /\ failed' <= cli'.seq
    BY <1>1, <1>2, Constants, SMT DEF Types, ClientTypes
  <1> QED
    BY <1>2, <1>3, <1>4 DEF Types, ClientTypes

LEMMA CallKeepsTypes == Types /\ Call => Types'
  <1> SUFFICES ASSUME Types, Call PROVE Types'
    OBVIOUS
  <1> USE DEF Types
  <1>0. /\ held \in [Kinds -> SUBSET Handles] /\ stored \in Seq(Seqs)
        /\ 1 \in 1 .. MaxChunks /\ <<>> \in Seq(Seqs)
        /\ None \in Handles \cup {None}
        /\ MayCall => cli.seq + 1 <= MaxRequests
    BY Constants, EmptySeq, SMT DEF ClientTypes, MayCall, Seqs
  <1>1. ASSUME NEW kind \in Kinds, Open(kind) PROVE ClientTypes'
    <2>1. Opening[kind] \in Ops
      BY DEF Kinds, Opening, Ops
    <2> QED
      BY <1>0, <1>1, <2>1, CallTypes DEF Open
  <1>2. ASSUME NEW kind \in Kinds, NEW h \in Handles, Close(kind, h) PROVE ClientTypes'
    <2>1. Closing[kind] \in Ops
      BY DEF Kinds, Closing, Ops
    <2>2. held' \in [Kinds -> SUBSET Handles]
      BY <1>0, <1>2 DEF Close
    <2> QED
      BY <1>0, <1>2, <2>1, <2>2, CallTypes DEF Close
  <1>3. ASSUME NEW h \in Handles, Readdir(h) PROVE ClientTypes'
    <2>1. "readdir" \in Ops
      BY DEF Ops
    <2> QED
      BY <1>0, <1>3, <2>1, CallTypes DEF Readdir
  <1>4. ASSUME NEW h \in Handles, Seek(h) PROVE ClientTypes'
    <2>1. "lseek" \in Ops
      BY DEF Ops
    <2> QED
      BY <1>0, <1>4, <2>1, CallTypes DEF Seek
  <1>5. ASSUME NEW h \in Handles, NEW n \in 1 .. MaxChunks, NEW op \in {"read", "write"},
               Transfer(op, h, n)
        PROVE  ClientTypes'
    <2>1. op \in Ops
      BY DEF Ops
    <2> QED
      BY <1>0, <1>5, <2>1, CallTypes DEF Transfer
  <1>6. ServerTypes' /\ LineTypes'
    <2>1. UNCHANGED <<toSrv, toCli>> /\ ServerSide
      BY DEF Call, Open, Close, Readdir, Seek, Transfer
    <2> QED
      BY <2>1 DEF ServerSide, faultVars, ServerTypes, LineTypes
  <1> QED
    BY <1>1, <1>2, <1>3, <1>4, <1>5, <1>6 DEF Call

\* A call gives up.
LEMMA FailTypes ==
    ASSUME Types, cli.pc # "idle", NEW line, Fail(line), UNCHANGED <<held, accepted, stored>>
    PROVE  ClientTypes'
  <1> USE DEF Types
  <1>1. /\ cli' \in [pc : {"idle", "flush", "header", "body"}, op : Ops,
                h : Handles \cup {None}, seq : Seqs, todo : 0 .. MaxChunks,
                clobbered : BOOLEAN]
        /\ cli'.pc = "idle" /\ cli'.seq = cli.seq /\ cli.seq \in Nat
    BY DEF Fail, ClientTypes, Seqs
  <1>2. late' \in BOOLEAN
    BY Zenon DEF Fail
  <1>3. failed' \in Nat /\ failed' <= cli'.seq
    BY <1>1, SMT DEF Fail, ClientTypes
  <1> QED
    BY <1>1, <1>2, <1>3 DEF ClientTypes

\* What arrives at the client leaves the line.
LEMMA ArrivesTypes ==
    ASSUME Types, toCli # <<>>, toCli' = Tail(toCli), UNCHANGED toSrv, ServerSide
    PROVE  ServerTypes' /\ LineTypes'
  <1>1. toCli' \in Seq(Answers)
    BY TailCarried DEF Types, LineTypes
  <1> QED
    BY <1>1 DEF Types, ServerTypes, LineTypes, ServerSide, faultVars

LEMMA PacketTypes ==
    ASSUME NEW m \in Message
    PROVE  /\ m.kind = "req" => /\ [k |-> "size", m |-> m] \in Requests
                                /\ [k |-> "body", m |-> m] \in Requests
           /\ Sane(m) => /\ [k |-> "size", m |-> m] \in Answers
                         /\ [k |-> "body", m |-> m] \in Answers
  BY DEF Requests, Answers, Symbol

LEMMA SendKeepsTypes == Types /\ SendRequest => Types'
  <1> SUFFICES ASSUME Types, SendRequest PROVE Types'
    OBVIOUS
  <1> USE DEF Types
  <1>1. ServerTypes'
    BY DEF SendRequest, ServerSide, ServerTypes
  <1>2. CASE cli.clobbered
    <2>1. ClientTypes'
      BY <1>2, FailTypes DEF SendRequest
    <2> QED
      BY <1>1, <1>2, <2>1 DEF SendRequest, ServerSide, faultVars, LineTypes
  <1>3. CASE ~cli.clobbered
    <2> DEFINE m == [kind |-> "req", op |-> cli.op, seq |-> cli.seq, h |-> cli.h, val |-> 0]
    <2>1. m \in Message /\ m.kind = "req"
      BY DEF ClientTypes, Message
    <2>2. toSrv' = toSrv \o Packet(m)
      BY <1>3 DEF SendRequest
    <2> HIDE DEF m
    <2>3. toSrv' \in Seq(Requests)
      BY <2>1, <2>2, PacketTypes, PacketCarried DEF LineTypes
    <2>4. ClientTypes'
      BY <1>3 DEF SendRequest, ClientTypes
    <2> QED
      BY <1>1, <2>3, <2>4 DEF SendRequest, ServerSide, faultVars, LineTypes
  <1> QED
    BY <1>2, <1>3

LEMMA AcceptTypes ==
    ASSUME Types, cli.pc = "body", NEW s \in Answers, ReadResponse(s), Accept(s.m)
    PROVE  ClientTypes'
  <1> USE DEF Types
  <1>0. s.m \in Message /\ Sane(s.m) /\ s.m.kind = "res" /\ s.m.op = cli.op
    BY DEF Answers, ReadResponse, Symbol
  <1>1. s.m.seq \in Seqs /\ s.m.val \in Nat
    BY <1>0 DEF Message
  <1>2. /\ cli' \in [pc : {"idle", "flush", "header", "body"}, op : Ops,
                h : Handles \cup {None}, seq : Seqs, todo : 0 .. MaxChunks,
                clobbered : BOOLEAN]
        /\ failed' \in Nat /\ failed' <= cli'.seq
        /\ cli'.pc # "idle" => /\ cli'.todo > 0
                               /\ cli'.seq + cli'.todo <= MaxRequests + 1
                               /\ failed' < cli'.seq
    <2>1. CASE cli.op \in {"read", "write"} /\ s.m.val > 0 /\ cli.todo > 1
      <3>1. cli' = [cli EXCEPT !.pc = "flush", !.seq = @ + 1, !.todo = @ - 1,
                               !.clobbered = FALSE]
        BY <2>1 DEF Accept, Continue
      <3>2. /\ cli.seq + 1 \in Seqs /\ cli.todo - 1 \in 0 .. MaxChunks /\ cli.todo - 1 > 0
            /\ (cli.seq + 1) + (cli.todo - 1) <= MaxRequests + 1
            /\ failed < cli.seq + 1 /\ failed <= cli.seq + 1
        BY <2>1, Constants, SMT DEF ClientTypes, Seqs
      <3> QED
        BY <3>1, <3>2 DEF Accept, ClientTypes
    <2>2. CASE ~(cli.op \in {"read", "write"} /\ s.m.val > 0 /\ cli.todo > 1)
      <3>1. cli' = [cli EXCEPT !.pc = "idle"]
        BY <2>2 DEF Accept, Continue
      <3> QED
        BY <3>1 DEF Accept, ClientTypes
    <2> QED
      BY <2>1, <2>2
  <1>3. stored' \in Seq(Seqs)
    BY AppendProperties DEF Accept, Counted, ClientTypes
  <1>4. accepted' \in Seqs \X Seqs
    BY <1>1 DEF Accept, ClientTypes
  <1>5. held' \in [Kinds -> SUBSET Handles]
    <2>1. cli.op = Opening[KindOf(cli.op)] /\ s.m.val # None =>
              s.m.val \in Handles /\ KindOf(cli.op) \in Kinds
      BY <1>0 DEF Sane, KindOf, Opening, Kinds
    <2> QED
      BY <2>1 DEF Accept, ClientTypes
  <1> QED
    BY <1>2, <1>3, <1>4, <1>5 DEF Accept, ClientTypes

LEMMA ClientKeepsTypes == Types /\ Client => Types'
  <1> SUFFICES ASSUME Types, Client PROVE Types'
    OBVIOUS
  <1> USE DEF Types
  <1>1. CASE FlushByte
    <2>1. ClientTypes'
      BY <1>1 DEF FlushByte, ClientTypes, history
    <2> QED
      BY <1>1, <2>1, ArrivesTypes DEF FlushByte
  <1>2. CASE RecvHeader
    <2>1. CASE Head(toCli).k = "size"
      BY <1>2, <2>1, ArrivesTypes DEF RecvHeader, ClientTypes
    <2>2. CASE Head(toCli).k # "size"
      <3>1. ClientTypes'
        BY <1>2, <2>2, FailTypes DEF RecvHeader
      <3> QED
        BY <1>2, <3>1, ArrivesTypes DEF RecvHeader
    <2> QED
      BY <2>1, <2>2
  <1>3. CASE RecvBody
    <2>1. ServerTypes' /\ LineTypes' /\ Head(toCli) \in Answers
      BY <1>3, ArrivesTypes, TailCarried DEF RecvBody, LineTypes
    <2>2. ClientTypes'
      <3>1. CASE ReadResponse(Head(toCli))
        BY <1>3, <2>1, <3>1, AcceptTypes DEF RecvBody
      <3>2. CASE ~ReadResponse(Head(toCli))
        BY <1>3, <3>2, FailTypes DEF RecvBody
      <3> QED
        BY <3>1, <3>2
    <2> QED
      BY <2>1, <2>2
  <1>4. CASE RecvTimeout
    <2>1. ClientTypes'
      BY <1>4, FailTypes DEF RecvTimeout
    <2> QED
      BY <1>4, <2>1 DEF RecvTimeout, ServerSide, faultVars, ServerTypes, LineTypes
  <1> QED
    BY <1>1, <1>2, <1>3, <1>4, CallKeepsTypes, SendKeepsTypes DEF Client

----------------------------------------------------------------------------
(* Requests and answers under way                                          *)

\* Requests to be executed, the one that is answered, answers to be read.
Asked == Carried(toSrv, {"req"})
Answering == IF srv.pc = "reply" /\ srv.m.kind = "res" THEN {srv.m.seq} ELSE {}
Answered == Carried(toCli, {"res"})
UnderWay == Answered \cup Answering \cup Asked

\* The last request that was sent.
Top == IF cli.pc = "flush" THEN cli.seq - 1 ELSE cli.seq

\* The older a request, the further it has come; each is answered once.
Order ==
    /\ Ordered(toCli, {"res"}) /\ Ordered(toSrv, {"req"})
    /\ \A a \in Answered : \A n \in Answering \cup Asked : a < n
    /\ \A b \in Answering : \A n \in Asked : b < n
    /\ accepted[2] <= Top
    /\ \A n \in UnderWay : accepted[2] < n /\ n <= Top
    /\ \A h \in Handles : /\ handles[h].at <= Top
                          /\ \A n \in Asked : handles[h].at < n

\* Without a late answer nothing but the request of the call is under way.
Fresh ==
    ~late => /\ UnderWay \subseteq {cli.seq}
             /\ cli.pc \in {"idle", "flush"} => UnderWay = {}

RfsInv == Types /\ Order /\ Fresh

LEMMA CarriedType ==
    ASSUME NEW q \in Seq(Symbol), NEW K
    PROVE  Carried(q, K) \subseteq Seqs
  <1> SUFFICES ASSUME NEW i \in 1 .. Len(q)
               PROVE  q[i].m.seq \in Seqs
    BY DEF Carried
  <1>1. q[i] \in Symbol
    BY ElementOfSeq
  <1> QED
    BY <1>1 DEF Symbol, Message

LEMMA UnderWayType ==
    ASSUME Types
    PROVE  /\ UnderWay \subseteq Nat /\ Asked \subseteq Nat
           /\ Answering \subseteq Nat /\ Answered \subseteq Nat
           /\ Asked \subseteq Seqs /\ Answered \subseteq Seqs /\ Answering \subseteq Seqs
           /\ Top \in Int /\ accepted[1] \in Nat /\ accepted[2] \in Nat
           /\ \A h \in Handles : handles[h].at \in Nat
           /\ cli.seq \in Nat
  <1> USE DEF Types
  <1>1. toSrv \in Seq(Symbol) /\ toCli \in Seq(Symbol)
    BY TypesSuffice DEF TypeOK
  <1>2. Seqs \subseteq Nat
    BY Constants, SMT DEF Seqs
  <1>3. Asked \subseteq Seqs /\ Answered \subseteq Seqs
    BY <1>1, CarriedType DEF Asked, Answered
  <1>4. Answering \subseteq Seqs
    BY DEF Answering, ServerTypes, Message
  <1>5. cli.seq \in Nat /\ accepted[1] \in Nat /\ accepted[2] \in Nat
    BY <1>2 DEF ClientTypes
  <1>6. Top \in Int
    BY <1>5, SMT DEF Top
  <1>7. \A h \in Handles : handles[h].at \in Nat
    BY <1>2 DEF ServerTypes
  <1> QED
    BY <1>2, <1>3, <1>4, <1>5, <1>6, <1>7 DEF UnderWay

LEMMA OrderInit == Init => Order /\ Fresh
  <1> SUFFICES ASSUME Init PROVE Order /\ Fresh
    OBVIOUS
  <1>1. \A K : Carried(<<>>, K) = {} /\ Ordered(<<>>, K)
    <2>1. 1 .. Len(<<>>) = {}
      BY EmptySeq, SMT
    <2> QED
      BY <2>1 DEF Carried, Ordered
  <1>2. Asked = {} /\ Answered = {} /\ Answering = {} /\ UnderWay = {}
    BY <1>1 DEF Init, Asked, Answered, Answering, UnderWay
  <1>3. Top = 0 /\ accepted[2] = 0 /\ \A h \in Handles : handles[h].at = 0
    BY DEF Init, Top, Idle, Free
  <1> QED
    BY <1>1, <1>2, <1>3, SMT DEF Init, Order, Fresh

\* Nothing is put on its way, perhaps something is dropped.
LEMMA Fewer ==
    ASSUME Types, Types', Order,
           Ordered(toCli, {"res"})', Ordered(toSrv, {"req"})',
           Answered' \subseteq Answered, Answering' \subseteq Answering, Asked' \subseteq Asked,
           accepted' = accepted, Top <= Top',
           \A h \in Handles : handles'[h].at <= handles[h].at
    PROVE  Order' /\ UnderWay' \subseteq UnderWay
  <1>0. /\ UnderWay \subseteq Nat /\ Asked \subseteq Nat
        /\ Top \in Int /\ accepted[2] \in Nat
        /\ \A h \in Handles : handles[h].at \in Nat
        /\ Top' \in Int
        /\ \A h \in Handles : handles'[h].at \in Nat
    <2>1. cli'.seq \in Nat /\ \A h \in Handles : handles'[h].at \in Nat
      BY Constants, SMT DEF Types, ClientTypes, ServerTypes, Seqs
    <2>2. Top' \in Int
      BY <2>1, SMT DEF Top
    <2> QED
      BY <2>1, <2>2, UnderWayType
  <1>1. UnderWay' \subseteq UnderWay
    BY DEF UnderWay
  <1>2. accepted'[2] <= Top' /\ \A n \in UnderWay' : accepted'[2] < n /\ n <= Top'
    BY <1>0, <1>1 DEF Order
  <1>3. \A h \in Handles : handles'[h].at <= Top' /\ \A n \in Asked' : handles'[h].at < n
    <2> SUFFICES ASSUME NEW h \in Handles
                 PROVE  handles'[h].at <= Top' /\ \A n \in Asked' : handles'[h].at < n
      OBVIOUS
    <2>1. handles'[h].at <= handles[h].at /\ handles[h].at <= Top
          /\ \A n \in Asked : handles[h].at < n
      BY DEF Order
    <2> QED
      BY <1>0, <2>1
  <1>4. /\ \A a \in Answered' : \A n \in Answering' \cup Asked' : a < n
        /\ \A b \in Answering' : \A n \in Asked' : b < n
    BY DEF Order
  <1> QED
    BY <1>1, <1>2, <1>3, <1>4 DEF Order

LEMMA NotAlive ==
    ASSUME Types, NEW N, NEW line \in Seq(Symbol), ~Alive(N, line)
    PROVE  \A n \in Carried(line, {"res"}) \cup Answering \cup Asked : n \notin N
  <1> USE DEF Types
  <1>0. toSrv \in Seq(Symbol)
    BY TypesSuffice DEF TypeOK
  <1>1. \A q \in Seq(Symbol) : \A K : \A n \in Carried(q, K) :
            \E w \in Range(q) : w.k = "body" /\ w.m.seq = n
    <2> TAKE q \in Seq(Symbol)
    <2> TAKE K
    <2> TAKE n \in Carried(q, K)
    <2>1. PICK i \in 1 .. Len(q) : Carries(q[i], K) /\ n = q[i].m.seq
      BY DEF Carried
    <2>2. q[i] \in Range(q)
      BY LenProperties DEF Range
    <2> QED
      BY <2>1, <2>2 DEF Carries
  <1>2. \A n \in Carried(line, {"res"}) \cup Asked : n \notin N
    BY <1>0, <1>1 DEF Alive, Asked
  <1>3. \A n \in Answering : n \notin N
    BY DEF Alive, Answering
  <1> QED
    BY <1>2, <1>3

\* What the client does to the lines: perhaps it reads a symbol.
Reads == (toCli # <<>> /\ toCli' = Tail(toCli)) \/ UNCHANGED toCli

LEMMA ReadsFewer ==
    ASSUME Types, Types', Order, Reads, UNCHANGED <<toSrv, accepted>>, ServerSide, Top <= Top'
    PROVE  Order' /\ UnderWay' \subseteq UnderWay
  <1>1. Ordered(toCli', {"res"}) /\ Carried(toCli', {"res"}) \subseteq Answered
    <2>1. toCli \in Seq(Answers) /\ Ordered(toCli, {"res"})
      BY DEF Types, LineTypes, Order
    <2>2. CASE toCli # <<>> /\ toCli' = Tail(toCli)
      BY <2>1, <2>2, TailCarried DEF Answered
    <2>3. CASE UNCHANGED toCli
      BY <2>1, <2>3 DEF Answered
    <2> QED
      BY <2>2, <2>3 DEF Reads
  <1>2. Ordered(toSrv', {"req"}) /\ Asked' \subseteq Asked /\ Answering' \subseteq Answering
    BY DEF ServerSide, Order, Asked, Answering
  <1>3. \A h \in Handles : handles'[h].at <= handles[h].at
    BY UnderWayType DEF ServerSide
  <1> QED
    BY <1>1, <1>2, <1>3, Fewer DEF Answered

LEMMA FailKeeps ==
    ASSUME RfsInv, Types', cli.pc # "idle", Fail(toCli'), Reads,
           UNCHANGED <<toSrv, accepted>>, ServerSide
    PROVE  Order' /\ Fresh'
  <1> USE DEF RfsInv
  <1>1. cli'.pc = "idle" /\ cli'.seq = cli.seq
    BY DEF Fail, Types, ClientTypes
  <1>2. Top <= Top'
    BY <1>1, UnderWayType, SMT DEF Top
  <1>3. Order' /\ UnderWay' \subseteq UnderWay
    BY <1>2, ReadsFewer
  <1>4. ASSUME ~late' PROVE UnderWay' = {}
    <2>1. ~late /\ ~Alive({cli.seq}, toCli')
      BY <1>4 DEF Fail
    <2>2. toCli' \in Seq(Symbol)
      BY SeqMonotonic DEF Types, LineTypes, Answers
    <2>3. \A n \in UnderWay' : n \notin {cli.seq}
      <3>1. \A n \in Carried(toCli', {"res"}) \cup Answering \cup Asked : n \notin {cli.seq}
        BY <2>1, <2>2, NotAlive
      <3> QED
        BY <3>1 DEF UnderWay, Answered, Answering, Asked, ServerSide
    <2>4. UnderWay \subseteq {cli.seq}
      BY <2>1 DEF Fresh
    <2> QED
      BY <1>3, <2>3, <2>4
  <1> QED
    BY <1>3, <1>4 DEF Fresh

LEMMA CallKeeps == RfsInv /\ Types' /\ Call => Order' /\ Fresh'
  <1> SUFFICES ASSUME RfsInv, Types', Call PROVE Order' /\ Fresh'
    OBVIOUS
  <1> USE DEF RfsInv
  <1>1. /\ cli.pc = "idle" /\ cli'.pc = "flush" /\ cli'.seq = cli.seq + 1
        /\ Afresh /\ UNCHANGED <<toSrv, toCli, accepted>> /\ ServerSide
    BY DEF Call, Open, Close, Readdir, Seek, Transfer, MayCall, Request
  <1>2. Top <= Top'
    BY <1>1, UnderWayType, SMT DEF Top
  <1>3. Order' /\ UnderWay' \subseteq UnderWay
    BY <1>1, <1>2, ReadsFewer DEF Reads
  <1>4. ASSUME ~late' PROVE UnderWay = {}
    <2>1. CASE ~late
      BY <1>1, <2>1 DEF Fresh
    <2>2. CASE ~Alive(Seqs, toCli)
      <3>1. toCli \in Seq(Symbol)
        BY TypesSuffice DEF TypeOK
      <3>2. \A n \in UnderWay : n \notin Seqs
        BY <2>2, <3>1, NotAlive DEF UnderWay, Answered
      <3> QED
        BY <3>2, UnderWayType DEF UnderWay
    <2> QED
      BY <1>1, <1>4, <2>1, <2>2 DEF Afresh
  <1> QED
    BY <1>3, <1>4 DEF Fresh

\* The flush reads what is there; a header is read.
LEMMA ReadKeeps ==
    ASSUME RfsInv, Types', Reads, UNCHANGED <<toSrv, accepted, late>>, ServerSide,
           cli'.seq = cli.seq,
           cli'.pc = cli.pc \/ (cli.pc = "header" /\ cli'.pc = "body")
    PROVE  Order' /\ Fresh'
  <1> USE DEF RfsInv
  <1>1. Top <= Top'
    BY UnderWayType, SMT DEF Top
  <1>2. Order' /\ UnderWay' \subseteq UnderWay
    BY <1>1, ReadsFewer
  <1> QED
    BY <1>2 DEF Fresh

LEMMA SendKeeps == RfsInv /\ Types' /\ SendRequest => Order' /\ Fresh'
  <1> SUFFICES ASSUME RfsInv, Types', SendRequest PROVE Order' /\ Fresh'
    OBVIOUS
  <1> USE DEF RfsInv
  <1>1. CASE cli.clobbered
    BY <1>1, FailKeeps DEF SendRequest, Reads
  <1>2. CASE ~cli.clobbered
    <2> DEFINE m == [kind |-> "req", op |-> cli.op, seq |-> cli.seq, h |-> cli.h, val |-> 0]
    <2>1. m \in Message /\ m.kind = "req" /\ m.seq = cli.seq
      BY DEF Types, ClientTypes, Message
    <2>2. toSrv' = toSrv \o Packet(m)
      BY <1>2 DEF SendRequest
    <2> HIDE DEF m
    <2>3. /\ cli.pc = "flush" /\ cli'.pc = "header" /\ cli'.seq = cli.seq
          /\ UNCHANGED <<toCli, accepted, late, handles, srv>>
      BY <1>2 DEF SendRequest, ServerSide, Types, ClientTypes
    <2>4. Top = cli.seq - 1 /\ Top' = cli.seq /\ cli.seq \in Nat
      BY <2>3, UnderWayType DEF Top
    <2>5. \A n \in UnderWay : n < cli.seq
      BY <2>4, UnderWayType, SMT DEF Order
    <2>6. /\ Carried(toSrv', {"req"}) = Asked \cup {cli.seq}
          /\ Ordered(toSrv', {"req"})
      <3>1. /\ [k |-> "size", m |-> m] \in Requests /\ [k |-> "body", m |-> m] \in Requests
            /\ toSrv \in Seq(Requests)
        BY <2>1, PacketTypes DEF Types, LineTypes
      <3>2. \A n \in Carried(toSrv, {"req"}) : n < m.seq
        BY <2>1, <2>5 DEF UnderWay, Asked
      <3> QED
        BY <2>1, <2>2, <3>1, <3>2, PacketCarried DEF Asked, Order
    <2>7. /\ Asked' = Asked \cup {cli.seq} /\ Answering' = Answering /\ Answered' = Answered
          /\ UnderWay' = UnderWay \cup {cli.seq}
      BY <2>3, <2>6 DEF Asked, Answering, Answered, UnderWay
    <2>8. Order'
      <3>1. /\ \A a \in Answered' : \A n \in Answering' \cup Asked' : a < n
            /\ \A b \in Answering' : \A n \in Asked' : b < n
        BY <2>5, <2>7 DEF Order, UnderWay
      <3>2. accepted'[2] <= Top' /\ \A n \in UnderWay' : accepted'[2] < n /\ n <= Top'
        BY <2>3, <2>4, <2>5, <2>7, UnderWayType, SMT DEF Order
      <3>3. \A h \in Handles : handles'[h].at <= Top' /\ \A n \in Asked' : handles'[h].at < n
        BY <2>3, <2>4, <2>7, UnderWayType, SMT DEF Order
      <3> QED
        BY <2>3, <2>6, <3>1, <3>2, <3>3 DEF Order
    <2>9. Fresh'
      BY <2>3, <2>7 DEF Fresh
    <2> QED
      BY <2>8, <2>9
  <1> QED
    BY <1>1, <1>2

\* The answer that is read is older than all that is under way.
LEMMA AcceptKeeps ==
    ASSUME RfsInv, Types', RecvBody, ReadResponse(Head(toCli))
    PROVE  /\ Order' /\ Fresh'
           /\ accepted[2] < accepted'[2] /\ accepted'[2] <= accepted'[1]
           /\ ~late => accepted'[2] = accepted'[1]
  <1> USE DEF RfsInv
  <1> DEFINE s == Head(toCli)
             n == s.m.seq
  <1>1. /\ Accept(s.m) /\ toCli # <<>> /\ toCli' = Tail(toCli) /\ cli.pc = "body"
        /\ UNCHANGED <<toSrv, srv, handles, late>>
    BY DEF RecvBody, Accept, ServerSide
  <1>2. Carries(s, {"res"})
    BY DEF ReadResponse, Carries
  <1>3. /\ Carried(toCli', {"res"}) \subseteq Answered /\ n \in Answered
        /\ Ordered(toCli', {"res"}) /\ \A a \in Carried(toCli', {"res"}) : n < a
    BY <1>1, <1>2, TailCarried DEF Types, LineTypes, Order, Answered
  <1>4. accepted' = <<cli.seq, n>>
    BY <1>1 DEF Accept
  <1>5. Top = cli.seq /\ Top' = cli.seq /\ cli'.pc \in {"idle", "flush"}
    BY <1>1, UnderWayType, SMT DEF Accept, Continue, Top, Types, ClientTypes
  <1> HIDE DEF s, n
  <1>6. n \in Nat /\ n <= cli.seq /\ accepted[2] < n
    BY <1>3, <1>5, UnderWayType DEF Order, UnderWay
  <1>7. /\ Answered' \subseteq Answered /\ Answering' = Answering /\ Asked' = Asked
        /\ UnderWay' \subseteq UnderWay /\ \A k \in UnderWay' : n < k
    BY <1>1, <1>3 DEF Answered, Answering, Asked, UnderWay, Order
  <1>8. Order'
    <2>1. accepted'[2] <= Top' /\ \A k \in UnderWay' : accepted'[2] < k /\ k <= Top'
      BY <1>4, <1>5, <1>6, <1>7 DEF Order
    <2>2. /\ \A a \in Answered' : \A k \in Answering' \cup Asked' : a < k
          /\ \A b \in Answering' : \A k \in Asked' : b < k
      BY <1>7 DEF Order
    <2>3. \A h \in Handles : handles'[h].at <= Top' /\ \A k \in Asked' : handles'[h].at < k
      BY <1>1, <1>5, <1>7 DEF Order
    <2> QED
      BY <1>1, <1>3, <2>1, <2>2, <2>3 DEF Order
  <1>9. ~late => n = cli.seq
    BY <1>3 DEF Fresh, UnderWay
  <1>10. Fresh'
    <2>1. ASSUME ~late PROVE UnderWay' = {}
      <3>1. UnderWay' \subseteq {n}
        BY <1>7, <1>9, <2>1 DEF Fresh
      <3>2. ~ (n < n)
        BY <1>6, SMT
      <3> QED
        BY <1>7, <3>1, <3>2
    <2> QED
      BY <1>1, <2>1 DEF Fresh
  <1> QED
    BY <1>4, <1>6, <1>8, <1>9, <1>10, SMT

LEMMA ClientKeeps == RfsInv /\ Types' /\ Client => Order' /\ Fresh'
  <1> SUFFICES ASSUME RfsInv, Types', Client PROVE Order' /\ Fresh'
    OBVIOUS
  <1>1. CASE FlushByte
    <2>1. cli'.pc = cli.pc /\ cli'.seq = cli.seq
      BY <1>1 DEF FlushByte, RfsInv, Types, ClientTypes
    <2> QED
      BY <1>1, <2>1, ReadKeeps DEF FlushByte, Reads, history
  <1>2. CASE RecvHeader
    <2>1. CASE Head(toCli).k = "size"
      <3>1. cli'.pc = "body" /\ cli'.seq = cli.seq
        BY <1>2, <2>1 DEF RecvHeader, RfsInv, Types, ClientTypes
      <3> QED
        BY <1>2, <2>1, <3>1, ReadKeeps DEF RecvHeader, Reads
    <2>2. CASE Head(toCli).k # "size"
      BY <1>2, <2>2, FailKeeps DEF RecvHeader, Reads
    <2> QED
      BY <2>1, <2>2
  <1>3. CASE RecvBody
    <2>1. CASE ReadResponse(Head(toCli))
      BY <1>3, <2>1, AcceptKeeps
    <2>2. CASE ~ReadResponse(Head(toCli))
      BY <1>3, <2>2, FailKeeps DEF RecvBody, Reads
    <2> QED
      BY <2>1, <2>2
  <1>4. CASE RecvTimeout
    BY <1>4, FailKeeps DEF RecvTimeout, Reads
  <1> QED
    BY <1>1, <1>2, <1>3, <1>4, CallKeeps, SendKeeps DEF Client

----------------------------------------------------------------------------
(* The server                                                              *)

\* What arrives at the server leaves the line.
LEMMA TakesTypes ==
    ASSUME Types, toSrv # <<>>, toSrv' = Tail(toSrv)
    PROVE  /\ toSrv' \in Seq(Requests)
           /\ Head(toSrv) \in Requests /\ Head(toSrv).m \in Message
           /\ Head(toSrv).m.kind = "req" /\ Head(toSrv).m.seq \in Seqs /\ Sane(Head(toSrv).m)
           /\ ClientSide => ClientTypes'
  <1>1. toSrv' \in Seq(Requests) /\ Head(toSrv) \in Requests
    BY TailCarried DEF Types, LineTypes
  <1>2. ClientSide => ClientTypes'
    BY DEF ClientSide, ClientTypes, Types, history
  <1> QED
    BY <1>1, <1>2 DEF Requests, Symbol, Message, Sane

\* The server drops symbols, or reads all but the rest of a packet.
LEMMA DropKeeps ==
    ASSUME RfsInv, Types', ClientSide, UNCHANGED toCli,
           Ordered(toSrv', {"req"}), Carried(toSrv', {"req"}) \subseteq Asked,
           Answering' \subseteq Answering,
           \A h \in Handles : handles'[h].at <= handles[h].at
    PROVE  Order' /\ Fresh'
  <1>1. /\ Answered' = Answered /\ Ordered(toCli', {"res"}) /\ Top' = Top
        /\ UNCHANGED <<cli, accepted, late>>
    BY DEF ClientSide, history, RfsInv, Order, Answered, Top
  <1>2. Order' /\ UnderWay' \subseteq UnderWay
    BY <1>1, UnderWayType, Fewer DEF RfsInv, Asked
  <1> QED
    BY <1>1, <1>2 DEF Fresh, RfsInv

LEMMA HeaderKeeps == RfsInv /\ SrvHeader => RfsInv'
  <1> SUFFICES ASSUME RfsInv, SrvHeader PROVE RfsInv'
    OBVIOUS
  <1> USE DEF RfsInv
  <1>1. /\ toSrv # <<>> /\ toSrv' = Tail(toSrv) /\ ClientSide
        /\ UNCHANGED <<handles, file, toCli, lost, restarts>>
    BY DEF SrvHeader, faultVars
  <1>2. /\ srv'.pc \in {"body", "flush"} /\ srv'.m = Head(toSrv).m
        /\ srv' = [pc |-> srv'.pc, m |-> srv'.m]
    BY DEF SrvHeader
  <1>3. Types'
    <2>1. ServerTypes'
      BY <1>1, <1>2, TakesTypes DEF Types, ServerTypes
    <2> QED
      BY <1>1, <2>1, TakesTypes DEF Types, LineTypes
  <1>4. Answering' \subseteq Answering
    BY <1>2 DEF Answering
  <1>5. Ordered(toSrv', {"req"}) /\ Carried(toSrv', {"req"}) \subseteq Asked
    BY <1>1, TailCarried DEF Types, LineTypes, Order, Asked
  <1> QED
    BY <1>1, <1>3, <1>4, <1>5, DropKeeps, UnderWayType

LEMMA SrvFlushKeeps == RfsInv /\ SrvFlush => RfsInv'
  <1> SUFFICES ASSUME RfsInv, SrvFlush PROVE RfsInv'
    OBVIOUS
  <1> USE DEF RfsInv
  <1>1. /\ ClientSide /\ UNCHANGED <<handles, file, toCli, lost, restarts>>
        /\ \/ toSrv # <<>> /\ toSrv' = Tail(toSrv)
           \/ UNCHANGED toSrv
        /\ srv.pc = "flush"
        /\ srv' = srv \/ srv' = [srv EXCEPT !.pc = "header"]
    BY DEF SrvFlush, faultVars
  <1>2. ServerTypes' /\ srv'.pc # "reply"
    BY <1>1 DEF Types, ServerTypes
  <1>3. ClientTypes'
    BY <1>1 DEF ClientSide, ClientTypes, Types, history
  <1>4. /\ toSrv' \in Seq(Requests)
        /\ Ordered(toSrv', {"req"}) /\ Carried(toSrv', {"req"}) \subseteq Asked
    <2>0. toSrv \in Seq(Requests) /\ Ordered(toSrv, {"req"})
      BY DEF Types, LineTypes, Order
    <2>1. CASE toSrv # <<>> /\ toSrv' = Tail(toSrv)
      BY <2>0, <2>1, TailCarried DEF Asked
    <2>2. CASE UNCHANGED toSrv
      BY <2>0, <2>2 DEF Asked
    <2> QED
      BY <1>1, <2>1, <2>2
  <1>5. Types'
    BY <1>1, <1>2, <1>3, <1>4 DEF Types, LineTypes
  <1>6. Answering' \subseteq Answering
    BY <1>2 DEF Answering
  <1> QED
    BY <1>1, <1>4, <1>5, <1>6, DropKeeps, UnderWayType

LEMMA ReplyKeeps == RfsInv /\ SrvReply => RfsInv'
  <1> SUFFICES ASSUME RfsInv, SrvReply PROVE RfsInv'
    OBVIOUS
  <1> USE DEF RfsInv
  <1>1. /\ ClientSide /\ UNCHANGED <<handles, file, toSrv, lost, restarts>>
        /\ toCli' = toCli \o Packet(srv.m)
        /\ srv.pc = "reply" /\ srv' = [srv EXCEPT !.pc = "header"]
    BY DEF SrvReply, faultVars
  <1>2. srv.m \in Message /\ Sane(srv.m) /\ toCli \in Seq(Answers)
    BY DEF Types, ServerTypes, LineTypes
  <1>3. /\ [k |-> "size", m |-> srv.m] \in Answers /\ [k |-> "body", m |-> srv.m] \in Answers
    BY <1>2, PacketTypes
  <1>4. Types'
    <2>1. toCli' \in Seq(Answers)
      BY <1>1, <1>2, <1>3, PacketCarried
    <2>2. ServerTypes'
      BY <1>1 DEF Types, ServerTypes
    <2>3. ClientTypes'
      BY <1>1 DEF ClientSide, ClientTypes, Types, history
    <2> QED
      BY <1>1, <2>1, <2>2, <2>3 DEF Types, LineTypes
  <1>5. /\ Answering' = {} /\ Asked' = Asked /\ Top' = Top
        /\ UNCHANGED <<cli, accepted, late>>
    BY <1>1 DEF Answering, Asked, Top, ClientSide, history, Types, ServerTypes
  <1>6. /\ Answered' = Answered \cup Answering /\ Ordered(toCli', {"res"})
        /\ UnderWay' = UnderWay
    <2>1. CASE srv.m.kind = "res"
      <3>1. Answering = {srv.m.seq} /\ \A n \in Carried(toCli, {"res"}) : n < srv.m.seq
        BY <1>1, <2>1 DEF Answering, Order, Answered
      <3>2. /\ Carried(toCli', {"res"}) = Carried(toCli, {"res"}) \cup {srv.m.seq}
            /\ Ordered(toCli, {"res"}) => Ordered(toCli', {"res"})
        BY <1>1, <1>2, <1>3, <2>1, <3>1, PacketCarried
      <3>3. Answered' = Answered \cup Answering /\ Ordered(toCli', {"res"})
        BY <3>1, <3>2 DEF Answered, Order
      <3> QED
        BY <1>5, <3>3 DEF UnderWay
    <2>2. CASE srv.m.kind # "res"
      <3>1. Answering = {}
        BY <2>2 DEF Answering
      <3>2. Answered' = Answered /\ Ordered(toCli', {"res"})
        BY <1>1, <1>2, <1>3, <2>2, PacketCarried DEF Answered, Order
      <3> QED
        BY <1>5, <3>1, <3>2 DEF UnderWay
    <2> QED
      BY <2>1, <2>2
  <1>7. Order'
    <2>1. \A a \in Answered' : \A n \in Answering' \cup Asked' : a < n
      BY <1>5, <1>6 DEF Order
    <2> QED
      BY <1>1, <1>5, <1>6, <2>1 DEF Order
  <1>8. Fresh'
    BY <1>5, <1>6 DEF Fresh
  <1> QED
    BY <1>4, <1>7, <1>8

\* No descriptor moves on by more than one.
Moved ==
    /\ handles' \in [Handles -> [kind : Kinds \cup {"free"}, at : Nat]]
    /\ \A h \in Handles : handles'[h].at = 0 \/ handles'[h].at = handles[h].at
                          \/ handles'[h].at = handles[h].at + 1

\* An answer to the request, or something that is no answer.
AnswerTo(m) ==
    /\ srv' \in [pc : {"reply", "down"}, m : Message]
    /\ Sane(srv'.m)
    /\ srv'.pc = "reply" /\ srv'.m.kind = "res" => srv'.m.seq = m.seq

LEMMA ReplyAnswers ==
    ASSUME NEW m \in Message, NEW val \in Nat, Reply(m, val),
           m.op \in {"open", "opendir"} => val \in Handles \cup {None}
    PROVE  AnswerTo(m)
  BY DEF Reply, AnswerTo, Message, Sane

\* server_execute_request
LEMMA ExecuteAnswers ==
    ASSUME Types, NEW m \in Message, m.kind = "req", Execute(m), srv.pc = "body"
    PROVE  AnswerTo(m) /\ Moved /\ file' \in Seq(Seqs)
  <1> USE DEF Types
  <1>0. /\ handles \in [Handles -> [kind : Kinds \cup {"free"}, at : Nat]]
        /\ \A h \in Handles : handles[h].at \in Nat
    <2>1. Seqs \subseteq Nat
      BY Constants, SMT DEF Seqs
    <2> QED
      BY <2>1 DEF ServerTypes
  <1>1. Handles \subseteq Nat /\ 0 \in Nat /\ 1 \in Nat /\ m.h \in Handles \cup {None}
        /\ m.seq \in Seqs /\ file \in Seq(Seqs) /\ Handles \cup {None} \subseteq Nat
    BY Constants, SMT DEF Handles, None, Message, ServerTypes
  <1>2. UNCHANGED handles => Moved
    BY <1>0 DEF Moved
  <1>3. ASSUME m.h \in Handles, handles' = [handles EXCEPT ![m.h].at = @ + 1]
        PROVE  Moved
    BY <1>0, <1>3, SMT DEF Moved
  <1>4. ASSUME m.h \in Handles, handles' = [handles EXCEPT ![m.h].at = 0]
        PROVE  Moved
    BY <1>0, <1>4, SMT DEF Moved
  <1>5. ASSUME NEW h \in Handles, NEW r \in [kind : Kinds \cup {"free"}, at : {0}],
               handles' = [handles EXCEPT ![h] = r]
        PROVE  Moved
    BY <1>0, <1>5, SMT DEF Moved
  <1>6. IsOpen(m) => m.h \in Handles
    BY <1>1 DEF IsOpen
  <1>7. ASSUME NEW val \in Nat, Reply(m, val), m.op \notin {"open", "opendir"}
        PROVE  AnswerTo(m)
    BY <1>7, ReplyAnswers
  <1>8. CASE m.op \in {"open", "opendir"} /\ ServerOpen(m)
    <2>1. CASE Reply(m, None) /\ UNCHANGED <<handles, file>>
      BY <1>1, <1>2, <2>1, ReplyAnswers DEF None
    <2>2. CASE ~(Reply(m, None) /\ UNCHANGED <<handles, file>>)
      <3> DEFINE F == {x \in Handles : handles[x] = Free}
                 h == Min(F)
      <3>1. F # {} /\ F \subseteq Nat /\ F \subseteq Handles
        BY <1>1, <1>8, <2>2 DEF ServerOpen
      <3>2. /\ handles' = [handles EXCEPT ![h] = [kind |-> KindOf(m.op), at |-> 0]]
            /\ Reply(m, h) /\ UNCHANGED file
        BY <1>8, <2>2 DEF ServerOpen
      <3>3. h \in Handles
        BY <3>1, MinIn
      <3> HIDE DEF h
      <3>4. [kind |-> KindOf(m.op), at |-> 0] \in [kind : Kinds \cup {"free"}, at : {0}]
        BY DEF KindOf, Kinds
      <3> QED
        BY <1>1, <1>5, <3>2, <3>3, <3>4, ReplyAnswers
    <2> QED
      BY <2>1, <2>2
  <1>9. CASE m.op \in {"close", "closedir"} /\ ServerClose(m)
    <2>1. Moved
      <3>1. Free \in [kind : Kinds \cup {"free"}, at : {0}]
        BY DEF Free
      <3> QED
        BY <1>2, <1>5, <1>6, <1>9, <3>1 DEF ServerClose
    <2> QED
      BY <1>1, <1>7, <1>9, <2>1 DEF ServerClose
  <1>10. CASE m.op = "write" /\ ServerWrite(m)
    <2>1. CASE Reply(m, 0) /\ UNCHANGED <<handles, file>>
      BY <1>1, <1>2, <1>7, <1>10, <2>1
    <2>2. CASE ~(Reply(m, 0) /\ UNCHANGED <<handles, file>>)
      <3>1. /\ IsOpen(m) /\ file' = WriteAt(file, handles[m.h].at, m.seq)
            /\ handles' = [handles EXCEPT ![m.h].at = @ + 1] /\ Reply(m, 1)
        BY <1>10, <2>2 DEF ServerWrite
      <3>2. file' \in Seq(Seqs)
        <4>1. CASE handles[m.h].at < Len(file)
          <5>1. file' = [file EXCEPT ![handles[m.h].at + 1] = m.seq]
            BY <3>1, <4>1 DEF WriteAt
          <5>2. handles[m.h].at + 1 \in 1 .. Len(file)
            BY <1>0, <1>1, <1>6, <3>1, <4>1, LenProperties, SMT
          <5> QED
            BY <1>1, <5>1, <5>2, ExceptSeq
        <4>2. CASE ~(handles[m.h].at < Len(file))
          BY <1>1, <3>1, <4>2, AppendProperties DEF WriteAt
        <4> QED
          BY <4>1, <4>2
      <3> QED
        BY <1>1, <1>3, <1>6, <1>7, <1>10, <3>1, <3>2
    <2> QED
      BY <2>1, <2>2
  <1>11. CASE m.op = "read" /\ ServerRead(m)
    <2>1. CASE ~IsOpen(m)
      <3>1. AnswerTo(m)
        BY <1>11, <2>1 DEF ServerRead, AnswerTo, Message, Sane
      <3> QED
        BY <1>1, <1>2, <1>11, <2>1, <3>1 DEF ServerRead
    <2>2. CASE IsOpen(m)
      BY <1>1, <1>2, <1>3, <1>6, <1>7, <1>11, <2>2 DEF ServerRead
    <2> QED
      BY <2>1, <2>2
  <1>12. CASE m.op = "readdir" /\ ServerReaddir(m)
    <2>1. CASE ~IsOpen(m) /\ srv' = [srv EXCEPT !.pc = "down"] /\ UNCHANGED handles
      <3>1. AnswerTo(m)
        BY <2>1 DEF AnswerTo, ServerTypes
      <3> QED
        BY <1>1, <1>2, <1>12, <2>1, <3>1 DEF ServerReaddir
    <2>2. CASE IsOpen(m) /\ Reply(m, 1) /\ handles' = [handles EXCEPT ![m.h].at = @ + 1]
      BY <1>1, <1>3, <1>6, <1>7, <1>12, <2>2 DEF ServerReaddir
    <2>3. CASE Reply(m, 0) /\ UNCHANGED handles
      BY <1>1, <1>2, <1>7, <1>12, <2>3 DEF ServerReaddir
    <2> QED
      BY <1>12, <2>1, <2>2, <2>3 DEF ServerReaddir
  <1>13. CASE m.op = "lseek" /\ ServerSeek(m)
    <2>1. Moved
      BY <1>2, <1>4, <1>6, <1>13 DEF ServerSeek
    <2> QED
      BY <1>1, <1>7, <1>13, <2>1 DEF ServerSeek
  <1> QED
    BY <1>8, <1>9, <1>10, <1>11, <1>12, <1>13 DEF Execute

\* The request that is executed is older than all that wait, and younger than
\* all that were answered and all that moved a descriptor.
LEMMA BodyKeeps == RfsInv /\ SrvBody => RfsInv'
  <1> SUFFICES ASSUME RfsInv, SrvBody PROVE RfsInv'
    OBVIOUS
  <1> USE DEF RfsInv
  <1> DEFINE s == Head(toSrv)
             n == s.m.seq
  <1>1. /\ srv.pc = "body" /\ toSrv # <<>> /\ toSrv' = Tail(toSrv) /\ ClientSide
        /\ UNCHANGED <<toCli, lost, restarts>> /\ ServerRequest(s)
    BY DEF SrvBody, faultVars
  <1>2. /\ toSrv' \in Seq(Requests) /\ s.m \in Message /\ s.m.kind = "req" /\ n \in Seqs
        /\ ClientTypes'
    BY <1>1, TakesTypes
  <1>3. /\ Carried(toSrv', {"req"}) \subseteq Asked /\ Ordered(toSrv', {"req"})
    BY <1>1, TailCarried DEF Types, LineTypes, Order, Asked
  <1>4. CASE s.k = "body"
    <2>1. Execute(s.m)
      BY <1>1, <1>4 DEF ServerRequest
    <2>2. AnswerTo(s.m) /\ Moved /\ file' \in Seq(Seqs)
      BY <1>1, <1>2, <2>1, ExecuteAnswers
    <2>3. Carries(s, {"req"})
      BY <1>2, <1>4 DEF Carries
    <2>4. n \in Asked /\ \A k \in Carried(toSrv', {"req"}) : n < k
      BY <1>1, <2>3, TailCarried DEF Types, LineTypes, Order, Asked
    <2> HIDE DEF s, n
    <2>5. n \in Nat /\ n <= Top /\ accepted[2] < n /\ \A a \in Answered : a < n
      BY <2>4, UnderWayType DEF Order, UnderWay
    <2>6. \A h \in Handles : handles'[h].at \in Nat /\ handles'[h].at <= n
      <3> SUFFICES ASSUME NEW h \in Handles
                   PROVE  handles'[h].at \in Nat /\ handles'[h].at <= n
        OBVIOUS
      <3>1. handles[h].at \in Nat /\ handles[h].at < n
        BY <2>4, UnderWayType DEF Order
      <3>2. \/ handles'[h].at = 0
            \/ handles'[h].at = handles[h].at
            \/ handles'[h].at = handles[h].at + 1
        BY <2>2 DEF Moved
      <3> QED
        BY <2>5, <3>1, <3>2, SMT
    <2>7. Types'
      <3>1. handles' \in [Handles -> [kind : Kinds \cup {"free"}, at : Seqs]]
        <4>1. \A h \in Handles : handles'[h].at \in Seqs
          BY <1>2, <2>6, Constants, SMT DEF Seqs, n
        <4> QED
          BY <2>2, <4>1 DEF Moved
      <3>2. ServerTypes'
        BY <2>2, <3>1 DEF AnswerTo, ServerTypes
      <3> QED
        BY <1>1, <1>2, <3>2 DEF Types, LineTypes
    <2>8. /\ Answered' = Answered /\ Answering' \subseteq {n} /\ Asked' \subseteq Asked
          /\ Answering = {} /\ Top' = Top /\ UNCHANGED <<cli, accepted, late>>
          /\ \A k \in Asked' : n < k
      BY <1>1, <1>3, <2>2, <2>4
         DEF Answered, Answering, Asked, Top, ClientSide, history, AnswerTo, n
    <2>9. UnderWay' \subseteq UnderWay
      BY <2>4, <2>8 DEF UnderWay
    <2>10. Order'
      <3>1. /\ \A a \in Answered' : \A k \in Answering' \cup Asked' : a < k
            /\ \A b \in Answering' : \A k \in Asked' : b < k
        BY <2>5, <2>8 DEF Order
      <3>2. accepted'[2] <= Top' /\ \A k \in UnderWay' : accepted'[2] < k /\ k <= Top'
        BY <2>8, <2>9 DEF Order
      <3>3. \A h \in Handles : handles'[h].at <= Top' /\ \A k \in Asked' : handles'[h].at < k
        <4> SUFFICES ASSUME NEW h \in Handles
                     PROVE  handles'[h].at <= Top' /\ \A k \in Asked' : handles'[h].at < k
          OBVIOUS
        <4>1. handles'[h].at <= Top'
          BY <2>5, <2>6, <2>8, UnderWayType, SMT
        <4>2. ASSUME NEW k \in Asked' PROVE handles'[h].at < k
          <5>1. k \in Nat /\ n < k
            BY <2>8, <4>2, UnderWayType
          <5> QED
            BY <2>5, <2>6, <5>1, SMT
        <4> QED
          BY <4>1, <4>2
      <3>4. Ordered(toCli', {"res"})
        BY <1>1 DEF Order
      <3> QED
        BY <1>3, <3>1, <3>2, <3>3, <3>4 DEF Order
    <2>11. Fresh'
      BY <2>8, <2>9 DEF Fresh
    <2> QED
      BY <2>7, <2>10, <2>11
  <1>5. CASE s.k # "body"
    <2>1. srv' = [srv EXCEPT !.pc = "reply"] /\ UNCHANGED <<handles, file>>
      BY <1>1, <1>5 DEF ServerRequest, NotExecuted
    <2>2. Types'
      <3>1. ServerTypes'
        BY <2>1 DEF Types, ServerTypes
      <3> QED
        BY <1>1, <1>2, <3>1 DEF Types, LineTypes
    <2>3. Answering' \subseteq Answering
      <3>1. srv'.m.kind = "req"
        BY <1>1, <2>1 DEF Types, ServerTypes
      <3> QED
        BY <3>1 DEF Answering
    <2> QED
      BY <1>1, <1>3, <2>1, <2>2, <2>3, DropKeeps, UnderWayType
  <1> QED
    BY <1>4, <1>5

LEMMA RestartKeeps == RfsInv /\ SrvRestart => RfsInv'
  <1> SUFFICES ASSUME RfsInv, SrvRestart PROVE RfsInv'
    OBVIOUS
  <1> USE DEF RfsInv
  <1>1. /\ restarts < MaxRestarts /\ restarts' = restarts + 1
        /\ srv' = [pc |-> "header", m |-> NoMessage]
        /\ handles' = [h \in Handles |-> Free]
        /\ UNCHANGED <<file, toCli, lost>> /\ ClientSide
    BY DEF SrvRestart
  <1>2. PICK n \in 0 .. Len(toSrv) : toSrv' = SubSeq(toSrv, n + 1, Len(toSrv))
    BY DEF SrvRestart
  <1>3. /\ toSrv' \in Seq(Requests)
        /\ Carried(toSrv', {"req"}) \subseteq Asked /\ Ordered(toSrv', {"req"})
    BY <1>2, RestWithin, WithinCarried DEF Types, LineTypes, Order, Asked
  <1>4. Types'
    <2>1. 0 \in Seqs /\ restarts' \in 0 .. MaxRestarts /\ 0 \in Nat
      BY <1>1, Constants, SMT DEF Types, LineTypes, Seqs
    <2>2. ServerTypes'
      BY <1>1, <2>1 DEF Types, ServerTypes, NoMessage, Message, Sane, Ops, Free
    <2>3. ClientTypes'
      BY <1>1 DEF ClientSide, ClientTypes, Types, history
    <2> QED
      BY <1>1, <1>3, <2>1, <2>2, <2>3 DEF Types, LineTypes
  <1>5. Answering' \subseteq Answering
    BY <1>1 DEF Answering
  <1>6. \A h \in Handles : handles'[h].at <= handles[h].at
    <2>1. \A h \in Handles : handles'[h].at = 0
      BY <1>1 DEF Free
    <2> QED
      BY <2>1, UnderWayType, SMT
  <1> QED
    BY <1>1, <1>3, <1>4, <1>5, <1>6, DropKeeps

LEMMA LoseKeeps == RfsInv /\ Lose => RfsInv'
  <1> SUFFICES ASSUME RfsInv, Lose PROVE RfsInv'
    OBVIOUS
  <1> USE DEF RfsInv
  <1>1. /\ lost < MaxLost /\ lost' = lost + 1 /\ ClientSide
        /\ UNCHANGED <<srv, handles, file, restarts>>
    BY DEF Lose
  <1> DEFINE Rest ==
        /\ toSrv' \in Seq(Requests) /\ toCli' \in Seq(Answers)
        /\ Carried(toSrv', {"req"}) \subseteq Asked /\ Ordered(toSrv', {"req"})
        /\ Carried(toCli', {"res"}) \subseteq Answered /\ Ordered(toCli', {"res"})
  <1>2. Rest
    <2>0. /\ toSrv \in Seq(Requests) /\ toCli \in Seq(Answers)
          /\ Ordered(toSrv, {"req"}) /\ Ordered(toCli, {"res"})
      BY DEF Types, LineTypes, Order
    <2>1. ASSUME NEW i \in 1 .. Len(toSrv), toSrv' = RemoveAt(toSrv, i), UNCHANGED toCli
          PROVE  Rest
      BY <2>0, <2>1, RemovedWithin, WithinCarried DEF Asked, Answered
    <2>2. ASSUME NEW i \in 1 .. Len(toCli), toCli' = RemoveAt(toCli, i), UNCHANGED toSrv
          PROVE  Rest
      BY <2>0, <2>2, RemovedWithin, WithinCarried DEF Asked, Answered
    <2> QED
      BY <2>1, <2>2 DEF Lose
  <1>3. Types'
    <2>1. lost' \in 0 .. MaxLost
      BY <1>1, Constants, SMT DEF Types, LineTypes
    <2>2. ClientTypes' /\ ServerTypes'
      BY <1>1 DEF ClientSide, ClientTypes, ServerTypes, Types, history
    <2> QED
      BY <1>1, <1>2, <2>1, <2>2 DEF Types, LineTypes
  <1>4. Answering' \subseteq Answering /\ Top' = Top /\ UNCHANGED <<cli, accepted, late>>
    BY <1>1 DEF Answering, ClientSide, history, Top
  <1>5. Order' /\ UnderWay' \subseteq UnderWay
    BY <1>1, <1>2, <1>3, <1>4, Fewer, UnderWayType DEF Asked, Answered
  <1> QED
    BY <1>3, <1>4, <1>5 DEF Fresh

----------------------------------------------------------------------------
(* The theorems                                                            *)

LEMMA StepKeeps == RfsInv /\ [Next]_vars => RfsInv'
  <1> SUFFICES ASSUME RfsInv, [Next]_vars PROVE RfsInv'
    OBVIOUS
  <1>1. CASE Client
    BY <1>1, ClientKeepsTypes, ClientKeeps DEF RfsInv
  <1>2. CASE Server
    BY <1>2, HeaderKeeps, SrvFlushKeeps, BodyKeeps, ReplyKeeps DEF Server
  <1>3. CASE SrvRestart
    BY <1>3, RestartKeeps
  <1>4. CASE Lose
    BY <1>4, LoseKeeps
  <1>5. CASE UNCHANGED vars
    <2>1. Types'
      BY <1>5 DEF vars, history, RfsInv, Types, ClientTypes, ServerTypes, LineTypes, faultVars
    <2>2. /\ Asked' = Asked /\ Answering' = Answering /\ Answered' = Answered
          /\ UnderWay' = UnderWay /\ Top' = Top
      BY <1>5 DEF vars, Asked, Answering, Answered, UnderWay, Top
    <2> QED
      BY <1>5, <2>1, <2>2 DEF vars, RfsInv, Order, Fresh
  <1> QED
    BY <1>1, <1>2, <1>3, <1>4, <1>5 DEF Next

\* RfsInv holds in every state of every behaviour.
THEOREM InvariantHolds == Spec => []RfsInv
  <1>1. Init => RfsInv
    BY TypesInit, OrderInit DEF RfsInv
  <1> QED
    BY <1>1, StepKeeps, PTL DEF Spec

\* Every variable has its type: no answer makes the client hold a descriptor
\* that does not exist, and no chunk is read or written after the last one.
THEOREM TypeCorrect == Spec => []TypeOK
  <1>1. RfsInv => TypeOK
    BY TypesSuffice DEF RfsInv
  <1> QED
    BY <1>1, InvariantHolds, PTL

\* rfsch_send_request_read_response takes answers at most once and in order,
\* and the right one unless a call gave up on a live request before.
THEOREM AnswersBelong == Spec => AnswerIsOwn
  <1> DEFINE Own == /\ accepted[2] < accepted'[2] /\ accepted'[2] <= accepted'[1]
                    /\ ~late => accepted'[2] = accepted'[1]
  <1>1. RfsInv /\ RfsInv' /\ [Next]_vars => [accepted' # accepted => Own]_vars
    <2> SUFFICES ASSUME RfsInv, RfsInv', Next, accepted' # accepted PROVE Own
      BY DEF vars, history
    <2>1. RecvBody /\ ReadResponse(Head(toCli))
      BY DEF Next, Client, Call, Open, Close, Readdir, Seek, Transfer, FlushByte, SendRequest,
             RecvHeader, RecvBody, RecvTimeout, Server, SrvHeader, SrvFlush, SrvBody, SrvReply,
             SrvRestart, Lose, ClientSide, history
    <2> QED
      BY <2>1, AcceptKeeps DEF RfsInv
  <1> QED
    BY <1>1, InvariantHolds, PTL DEF Spec, AnswerIsOwn

----------------------------------------------------------------------------
(* The messages under way                                                  *)

Bodies(q, K) == {q[i].m : i \in {j \in 1 .. Len(q) : Carries(q[j], K)}}

\* The request that is about to be sent.
Pending ==
    IF cli.pc = "flush"
    THEN {[kind |-> "req", op |-> cli.op, seq |-> cli.seq, h |-> cli.h, val |-> 0]}
    ELSE {}
Ahead == Bodies(toSrv, {"req"})
Behind == Bodies(toCli, {"res"}) \cup (IF srv.pc = "reply" /\ srv.m.kind = "res"
                                       THEN {srv.m} ELSE {})
Messages == Pending \cup Ahead \cup Behind

\* The numbers a line carries are those of its messages.
LEMMA CarriedBodies == \A q, K : Carried(q, K) = {m.seq : m \in Bodies(q, K)}
  BY DEF Carried, Bodies

LEMMA SeqsUnderWay ==
    /\ Asked = {m.seq : m \in Ahead}
    /\ \A m \in Behind : m.seq \in UnderWay
  BY CarriedBodies DEF Asked, Answered, Answering, UnderWay, Ahead, Behind

LEMMA SeqsUnderWayNext ==
    /\ Asked' = {m.seq : m \in Ahead'}
    /\ \A m \in Behind' : m.seq \in UnderWay'
  BY CarriedBodies DEF Asked, Answered, Answering, UnderWay, Ahead, Behind

\* What arrives leaves the line.
LEMMA TailBodies ==
    ASSUME NEW S, NEW q \in Seq(S), q # <<>>, NEW K
    PROVE  /\ Bodies(Tail(q), K) \subseteq Bodies(q, K)
           /\ Bodies(q, K) \subseteq Bodies(Tail(q), K) \cup {Head(q).m}
           /\ Carries(Head(q), K) => Head(q).m \in Bodies(q, K)
           /\ ~Carries(Head(q), K) => Bodies(q, K) = Bodies(Tail(q), K)
  <1>1. /\ Len(Tail(q)) = Len(q) - 1
        /\ \A i \in 1 .. Len(Tail(q)) : Tail(q)[i] = q[i + 1]
    BY HeadTailProperties
  <1>2. Head(q) = q[1] /\ Len(q) \in Nat /\ Len(q) >= 1
    BY EmptySeq, SMT
  <1>3. /\ \A i \in 1 .. Len(Tail(q)) : i + 1 \in 1 .. Len(q)
        /\ 1 \in 1 .. Len(q)
        /\ \A i \in 1 .. Len(q) : i = 1 \/ (i - 1 \in 1 .. Len(Tail(q)) /\ (i - 1) + 1 = i)
    BY <1>1, <1>2, SMT
  <1>4. Bodies(Tail(q), K) \subseteq Bodies(q, K)
    BY <1>1, <1>3 DEF Bodies
  <1>5. ASSUME NEW i \in 1 .. Len(q), Carries(q[i], K), i # 1
        PROVE  q[i].m \in Bodies(Tail(q), K)
    <2>1. i - 1 \in 1 .. Len(Tail(q)) /\ Tail(q)[i - 1] = q[i]
      BY <1>1, <1>3, <1>5
    <2> QED
      BY <1>5, <2>1 DEF Bodies
  <1> QED
    BY <1>2, <1>3, <1>4, <1>5 DEF Bodies

\* A packet is put on the line.
LEMMA PacketBodies ==
    ASSUME NEW S, NEW q \in Seq(S), NEW m, NEW K,
           [k |-> "size", m |-> m] \in S, [k |-> "body", m |-> m] \in S
    PROVE  Bodies(q \o Packet(m), K) = Bodies(q, K) \cup (IF m.kind \in K THEN {m} ELSE {})
  <1> DEFINE p == Packet(m)
             r == q \o p
  <1>1. p \in Seq(S) /\ Len(p) = 2
        /\ p[1] = [k |-> "size", m |-> m] /\ p[2] = [k |-> "body", m |-> m]
    BY SMT DEF Packet
  <1> HIDE DEF p
  <1>2. /\ r \in Seq(S) /\ Len(r) = Len(q) + Len(p)
        /\ \A i \in 1 .. Len(q) + Len(p) :
              r[i] = IF i <= Len(q) THEN q[i] ELSE p[i - Len(q)]
    BY <1>1, ConcatProperties
  <1>3. Len(q) \in Nat
    BY LenProperties
  <1>4. /\ \A i \in 1 .. Len(q) : i \in 1 .. Len(r) /\ r[i] = q[i]
        /\ \A i \in 1 .. Len(r) : i \in 1 .. Len(q) \/ i = Len(q) + 1 \/ i = Len(q) + 2
        /\ Len(q) + 1 \in 1 .. Len(r) /\ Len(q) + 2 \in 1 .. Len(r)
        /\ r[Len(q) + 1] = p[1] /\ r[Len(q) + 2] = p[2]
    BY <1>1, <1>2, <1>3, SMT
  <1> HIDE DEF r
  <1>5. ~Carries(r[Len(q) + 1], K)
    BY <1>1, <1>4 DEF Carries
  <1>6. /\ Carries(r[Len(q) + 2], K) <=> m.kind \in K
        /\ r[Len(q) + 2].m = m
    BY <1>1, <1>4 DEF Carries
  <1>7. Bodies(r, K) = Bodies(q, K) \cup (IF m.kind \in K THEN {m} ELSE {})
    BY <1>4, <1>5, <1>6 DEF Bodies
  <1> QED
    BY <1>7 DEF r, p

\* Without some symbols, a line carries no more messages.
LEMMA WithinBodies ==
    ASSUME NEW q, NEW r, NEW K, Within(r, q)
    PROVE  Bodies(r, K) \subseteq Bodies(q, K)
  <1>1. PICK f \in [1 .. Len(r) -> 1 .. Len(q)] : \A i \in 1 .. Len(r) : r[i] = q[f[i]]
    BY DEF Within
  <1>2. \A i \in 1 .. Len(r) : f[i] \in 1 .. Len(q)
    OBVIOUS
  <1> QED
    BY <1>1, <1>2 DEF Bodies

\* A line is at most one message short when a symbol of it is lost.
LEMMA RemovedBodies ==
    ASSUME NEW S, NEW q \in Seq(S), NEW i \in 1 .. Len(q), NEW K
    PROVE  /\ Bodies(RemoveAt(q, i), K) \subseteq Bodies(q, K)
           /\ Bodies(q, K) \subseteq Bodies(RemoveAt(q, i), K) \cup {q[i].m}
  <1>1. Bodies(RemoveAt(q, i), K) \subseteq Bodies(q, K)
    BY RemovedWithin, WithinBodies
  <1>2. \A j \in 1 .. Len(q) : j = i \/ \E k \in 1 .. Len(RemoveAt(q, i)) : RemoveAt(q, i)[k] = q[j]
    BY RemovedLeaves
  <1> QED
    BY <1>1, <1>2 DEF Bodies

----------------------------------------------------------------------------
(* Most steps move messages, or lose one                                   *)

\* The opening and closing calls that failed, and the one in progress.
Calls == failed + (IF cli.pc # "idle" /\ OpensOrCloses(cli.op) THEN 1 ELSE 0)

\* What all steps have in common but the start of a call, the execution of a
\* request and the end of a request that was answered.
Quiet ==
    /\ cli'.op = cli.op /\ cli'.h = cli.h /\ cli'.seq = cli.seq
    /\ UNCHANGED <<held, stored, file>>
    /\ Calls' = Calls
    /\ ~late' => ~late
    /\ cli'.pc = "flush" => cli.pc = "flush"
    /\ Ahead' \subseteq Ahead \cup Pending
    /\ Behind' \subseteq Behind
    /\ \/ UNCHANGED handles /\ \E m : Messages \subseteq Messages' \cup {m}
       \/ handles' = [h \in Handles |-> Free]

\* The client reads a symbol, at most.
LEMMA ReadsBodies ==
    ASSUME Types, Reads, UNCHANGED toSrv, ServerSide
    PROVE  Ahead' = Ahead /\ Behind' \subseteq Behind /\ \E m : Behind \subseteq Behind' \cup {m}
  <1>1. Ahead' = Ahead
    BY DEF Ahead
  <1>2. UNCHANGED srv /\ toCli \in Seq(Answers)
    BY DEF ServerSide, Types, LineTypes
  <1>3. CASE toCli # <<>> /\ toCli' = Tail(toCli)
    <2>1. /\ Bodies(toCli', {"res"}) \subseteq Bodies(toCli, {"res"})
          /\ Bodies(toCli, {"res"}) \subseteq Bodies(toCli', {"res"}) \cup {Head(toCli).m}
      BY <1>2, <1>3, TailBodies
    <2>2. Behind' \subseteq Behind /\ Behind \subseteq Behind' \cup {Head(toCli).m}
      BY <1>2, <2>1 DEF Behind
    <2> QED
      BY <1>1, <2>2
  <1>4. CASE UNCHANGED toCli
    BY <1>1, <1>2, <1>4 DEF Behind
  <1> QED
    BY <1>3, <1>4 DEF Reads

\* A call that gives up has failed.
LEMMA CallsIdle ==
    ASSUME Types, cli.pc # "idle", NEW line, Fail(line)
    PROVE  /\ Calls' = Calls /\ (~late' => ~late)
           /\ cli'.pc = "idle" /\ cli'.op = cli.op /\ cli'.h = cli.h /\ cli'.seq = cli.seq
  <1>1. /\ cli'.pc = "idle" /\ cli'.op = cli.op /\ cli'.h = cli.h /\ cli'.seq = cli.seq
        /\ failed \in Nat
    BY DEF Fail, Types, ClientTypes
  <1>2. ~late' => ~late
    BY DEF Fail
  <1>3. failed' = IF OpensOrCloses(cli.op) THEN failed + 1 ELSE failed
    BY DEF Fail
  <1>4. Calls' = failed'
    BY <1>1, <1>3, SMT DEF Calls
  <1> QED
    BY <1>1, <1>2, <1>3, <1>4, SMT DEF Calls

LEMMA FailQuiet ==
    ASSUME Types, cli.pc # "idle", Fail(toCli'), Reads,
           UNCHANGED <<toSrv, held, stored>>, ServerSide,
           cli.pc = "flush" => UNCHANGED toCli
    PROVE  Quiet
  <1>1. /\ Calls' = Calls /\ (~late' => ~late)
        /\ cli'.pc = "idle" /\ cli'.op = cli.op /\ cli'.h = cli.h /\ cli'.seq = cli.seq
    BY CallsIdle
  <1>2. Ahead' = Ahead /\ Behind' \subseteq Behind /\ UNCHANGED <<handles, file, srv>>
    BY ReadsBodies DEF ServerSide
  <1>3. \E m : Messages \subseteq Messages' \cup {m}
    <2>1. CASE cli.pc = "flush"
      <3>1. Behind' = Behind
        BY <1>2, <2>1 DEF Behind
      <3>2. \E m : Pending \subseteq {m}
        BY <2>1 DEF Pending
      <3> QED
        BY <1>2, <3>1, <3>2 DEF Messages
    <2>2. CASE cli.pc # "flush"
      <3>1. Pending = {}
        BY <2>2 DEF Pending
      <3> QED
        BY <1>2, <3>1, ReadsBodies DEF Messages
    <2> QED
      BY <2>1, <2>2
  <1> QED
    BY <1>1, <1>2, <1>3 DEF Quiet

LEMMA ReadQuiet ==
    ASSUME Types, Reads, UNCHANGED <<toSrv, held, stored, late, failed>>, ServerSide,
           cli'.op = cli.op, cli'.h = cli.h, cli'.seq = cli.seq,
           cli'.pc = cli.pc \/ (cli.pc = "header" /\ cli'.pc = "body")
    PROVE  Quiet
  <1>1. Ahead' = Ahead /\ Behind' \subseteq Behind /\ UNCHANGED <<handles, file, srv>>
    BY ReadsBodies DEF ServerSide
  <1>2. Calls' = Calls
    BY DEF Calls
  <1>3. Pending' = Pending
    BY DEF Pending
  <1>4. \E m : Messages \subseteq Messages' \cup {m}
    BY <1>1, <1>3, ReadsBodies DEF Messages
  <1> QED
    BY <1>1, <1>2, <1>4 DEF Quiet

LEMMA SendQuiet == Types /\ SendRequest => Quiet
  <1> SUFFICES ASSUME Types, SendRequest PROVE Quiet
    OBVIOUS
  <1>1. CASE cli.clobbered
    BY <1>1, FailQuiet DEF SendRequest, Reads
  <1>2. CASE ~cli.clobbered
    <2> DEFINE m == [kind |-> "req", op |-> cli.op, seq |-> cli.seq, h |-> cli.h, val |-> 0]
    <2>1. m \in Message /\ m.kind = "req" /\ (cli.pc = "flush" => Pending = {m})
      BY DEF Types, ClientTypes, Message, Pending
    <2>2. toSrv' = toSrv \o Packet(m)
      BY <1>2 DEF SendRequest
    <2> HIDE DEF m
    <2>3. /\ cli.pc = "flush" /\ cli'.pc = "header" /\ cli'.seq = cli.seq
          /\ cli'.op = cli.op /\ cli'.h = cli.h
          /\ UNCHANGED <<toCli, held, stored, file, failed, late, handles, srv>>
      BY <1>2 DEF SendRequest, ServerSide, Types, ClientTypes
    <2>4. Ahead' = Ahead \cup {m}
      <3>1. /\ [k |-> "size", m |-> m] \in Requests /\ [k |-> "body", m |-> m] \in Requests
            /\ toSrv \in Seq(Requests)
        BY <2>1, PacketTypes DEF Types, LineTypes
      <3> QED
        BY <2>1, <2>2, <3>1, PacketBodies DEF Ahead
    <2>5. Behind' = Behind /\ Pending' = {} /\ Calls' = Calls
      BY <2>3 DEF Behind, Pending, Calls
    <2>6. Messages \subseteq Messages'
      BY <2>1, <2>3, <2>4, <2>5 DEF Messages
    <2> QED
      BY <2>1, <2>3, <2>4, <2>5, <2>6 DEF Quiet
  <1> QED
    BY <1>1, <1>2

LEMMA ClientQuiet ==
    ASSUME Types, Client, ~Call, ~(RecvBody /\ ReadResponse(Head(toCli)))
    PROVE  Quiet
  <1>1. CASE FlushByte
    <2>1. cli'.pc = cli.pc /\ cli'.seq = cli.seq /\ cli'.op = cli.op /\ cli'.h = cli.h
      BY <1>1 DEF FlushByte, Types, ClientTypes
    <2> QED
      BY <1>1, <2>1, ReadQuiet DEF FlushByte, Reads, history
  <1>2. CASE RecvHeader
    <2>1. CASE Head(toCli).k = "size"
      <3>1. cli'.pc = "body" /\ cli'.seq = cli.seq /\ cli'.op = cli.op /\ cli'.h = cli.h
        BY <1>2, <2>1 DEF RecvHeader, Types, ClientTypes
      <3> QED
        BY <1>2, <2>1, <3>1, ReadQuiet DEF RecvHeader, Reads
    <2>2. CASE Head(toCli).k # "size"
      BY <1>2, <2>2, FailQuiet DEF RecvHeader, Reads
    <2> QED
      BY <2>1, <2>2
  <1>3. CASE RecvBody
    BY <1>3, FailQuiet DEF RecvBody, Reads
  <1>4. CASE RecvTimeout
    BY <1>4, FailQuiet DEF RecvTimeout, Reads
  <1> QED
    BY <1>1, <1>2, <1>3, <1>4, SendQuiet DEF Client

\* Nothing changes on the side of the client.
LEMMA ServerQuiet ==
    ASSUME Types, ClientSide, UNCHANGED <<file, toCli>>,
           Ahead' \subseteq Ahead,
           Behind' \subseteq Behind,
           \/ UNCHANGED handles /\ \E m : Ahead \cup Behind \subseteq Ahead' \cup Behind' \cup {m}
           \/ handles' = [h \in Handles |-> Free]
    PROVE  Quiet
  <1>1. UNCHANGED <<cli, held, stored, failed, late>>
    BY DEF ClientSide, history
  <1>2. Pending' = Pending /\ Calls' = Calls
    BY <1>1 DEF Pending, Calls
  <1> QED
    BY <1>1, <1>2 DEF Quiet, Messages

\* The server takes a symbol off the line.
LEMMA TakesQuiet ==
    ASSUME Types, ClientSide, UNCHANGED <<file, toCli, handles>>,
           (toSrv # <<>> /\ toSrv' = Tail(toSrv)) \/ UNCHANGED toSrv, Behind' = Behind
    PROVE  Quiet
  <1>1. Ahead' \subseteq Ahead /\ \E m : Ahead \subseteq Ahead' \cup {m}
    BY TailBodies DEF Types, LineTypes, Ahead
  <1> QED
    BY <1>1, ServerQuiet

LEMMA ServerStepQuiet ==
    ASSUME Types, Server, ~(SrvBody /\ Head(toSrv).k = "body")
    PROVE  Quiet
  <1>1. CASE SrvHeader
    <2>1. Behind' = Behind
      BY <1>1 DEF SrvHeader, Behind
    <2> QED
      BY <1>1, <2>1, TakesQuiet DEF SrvHeader
  <1>2. CASE SrvFlush
    <2>1. srv.pc # "reply" /\ srv'.pc # "reply"
      BY <1>2 DEF SrvFlush, Types, ServerTypes
    <2>2. Behind' = Behind
      BY <1>2, <2>1 DEF SrvFlush, Behind
    <2> QED
      BY <1>2, <2>2, TakesQuiet DEF SrvFlush
  <1>3. CASE SrvBody
    <2>1. /\ srv.pc = "body" /\ srv.m.kind = "req"
          /\ srv' = [srv EXCEPT !.pc = "reply"] /\ UNCHANGED <<handles, file>>
      BY <1>3 DEF SrvBody, ServerRequest, NotExecuted, Types, ServerTypes
    <2>2. srv'.m = srv.m
      BY <2>1 DEF Types, ServerTypes
    <2>3. Behind' = Behind
      BY <1>3, <2>1, <2>2 DEF SrvBody, Behind
    <2> QED
      BY <1>3, <2>1, <2>3, TakesQuiet DEF SrvBody
  <1>4. CASE SrvReply
    <2>1. /\ ClientSide /\ UNCHANGED <<handles, file, toSrv>>
          /\ toCli' = toCli \o Packet(srv.m)
          /\ srv.pc = "reply" /\ srv' = [srv EXCEPT !.pc = "header"]
      BY <1>4 DEF SrvReply
    <2>2. srv.m \in Message /\ Sane(srv.m) /\ toCli \in Seq(Answers) /\ srv'.pc = "header"
      BY <2>1 DEF Types, ServerTypes, LineTypes
    <2>3. /\ [k |-> "size", m |-> srv.m] \in Answers /\ [k |-> "body", m |-> srv.m] \in Answers
      BY <2>2, PacketTypes
    <2>4. Bodies(toCli', {"res"})
            = Bodies(toCli, {"res"}) \cup (IF srv.m.kind \in {"res"} THEN {srv.m} ELSE {})
      BY <2>1, <2>2, <2>3, PacketBodies
    <2>5. Behind' = Behind
      BY <2>1, <2>2, <2>4 DEF Behind
    <2>6. Ahead' = Ahead /\ Pending' = Pending /\ Calls' = Calls
          /\ UNCHANGED <<cli, held, stored, failed, late>>
      BY <2>1 DEF Ahead, Pending, Calls, ClientSide, history
    <2> QED
      BY <2>1, <2>5, <2>6 DEF Quiet, Messages
  <1> QED
    BY <1>1, <1>2, <1>3, <1>4 DEF Server

LEMMA RestartQuiet == Types /\ SrvRestart => Quiet
  <1> SUFFICES ASSUME Types, SrvRestart PROVE Quiet
    OBVIOUS
  <1>1. /\ srv' = [pc |-> "header", m |-> NoMessage]
        /\ handles' = [h \in Handles |-> Free]
        /\ UNCHANGED <<file, toCli>> /\ ClientSide
    BY DEF SrvRestart
  <1>2. PICK n \in 0 .. Len(toSrv) : toSrv' = SubSeq(toSrv, n + 1, Len(toSrv))
    BY DEF SrvRestart
  <1>3. Ahead' \subseteq Ahead
    BY <1>2, RestWithin, WithinBodies DEF Types, LineTypes, Ahead
  <1>4. Behind' \subseteq Behind
    BY <1>1 DEF Behind
  <1> QED
    BY <1>1, <1>3, <1>4, ServerQuiet

LEMMA LoseQuiet == Types /\ Lose => Quiet
  <1> SUFFICES ASSUME Types, Lose PROVE Quiet
    OBVIOUS
  <1>1. ClientSide /\ UNCHANGED <<srv, handles, file>>
    BY DEF Lose
  <1>2. toSrv \in Seq(Requests) /\ toCli \in Seq(Answers)
    BY DEF Types, LineTypes
  <1> DEFINE Rest == /\ Ahead' \subseteq Ahead /\ Behind' \subseteq Behind
                     /\ \E m : Ahead \cup Behind \subseteq Ahead' \cup Behind' \cup {m}
  <1>3. Rest
    <2>1. ASSUME NEW i \in 1 .. Len(toSrv), toSrv' = RemoveAt(toSrv, i), UNCHANGED toCli
          PROVE  Rest
      BY <1>1, <1>2, <2>1, RemovedBodies DEF Ahead, Behind
    <2>2. ASSUME NEW i \in 1 .. Len(toCli), toCli' = RemoveAt(toCli, i), UNCHANGED toSrv
          PROVE  Rest
      BY <1>1, <1>2, <2>2, RemovedBodies DEF Ahead, Behind
    <2> QED
      BY <2>1, <2>2 DEF Lose
  <1>4. UNCHANGED <<cli, held, stored, failed, late>>
    BY <1>1 DEF ClientSide, history
  <1>5. Pending' = Pending /\ Calls' = Calls
    BY <1>4 DEF Pending, Calls
  <1> QED
    BY <1>1, <1>3, <1>4, <1>5 DEF Quiet, Messages

----------------------------------------------------------------------------
(* What was written is in the file                                         *)

\* A descriptor of the file is never behind its end.
FileAt == \A h \in Handles : handles[h].kind = "file" => handles[h].at <= Len(file)

\* The requests that bear the number of the call are the call's.
Own ==
    /\ cli.op = "write" => cli.h \in Handles
    /\ \A m \in Ahead : m.seq = cli.seq => m.op = cli.op /\ m.h = cli.h

\* The chunk of the last request is written, and the client will read so.
Confirmed == \E m \in Behind : m.seq = cli.seq /\ m.val > 0

\* The chunks that were counted start behind place p of the file.  While the
\* next one is to come, the descriptor is behind them; once it has been written
\* it follows them.
WrittenFrom(p) ==
    /\ p + Len(stored) <= Len(file)
    /\ \A j \in 1 .. Len(stored) : file[p + j] = stored[j]
    /\ (cli.pc = "flush" \/ cli.seq \in Asked) /\ handles[cli.h].kind = "file"
          => handles[cli.h].at = p + Len(stored)
    /\ Confirmed =>
          /\ p + Len(stored) < Len(file) /\ file[p + Len(stored) + 1] = cli.seq
          /\ handles[cli.h].kind = "file" => handles[cli.h].at = p + Len(stored) + 1

Written == cli.op = "write" /\ ~late => \E p \in Nat : WrittenFrom(p)

StoredInv == FileAt /\ Own /\ Written

LEMMA Lengths ==
    ASSUME Types
    PROVE  /\ file \in Seq(Seqs) /\ Len(file) \in Nat
           /\ stored \in Seq(Seqs) /\ Len(stored) \in Nat
           /\ \A h \in Handles : handles[h].at \in Nat
           /\ cli.seq \in Nat
  BY LenProperties, UnderWayType DEF Types, ServerTypes, ClientTypes

LEMMA StoredInit == Init => StoredInv
  <1> SUFFICES ASSUME Init PROVE StoredInv
    OBVIOUS
  <1>1. Ahead = {}
    <2>1. 1 .. Len(<<>>) = {}
      BY EmptySeq, SMT
    <2> QED
      BY <2>1 DEF Ahead, Bodies, Init
  <1>2. FileAt /\ cli.op # "write"
    BY DEF Init, FileAt, Free, Idle
  <1> QED
    BY <1>1, <1>2 DEF StoredInv, Own, Written

\* What is written stays, and so does its place.
LEMMA QuietStored ==
    ASSUME RfsInv, RfsInv', StoredInv, Quiet
    PROVE  StoredInv'
  <1> USE DEF RfsInv
  <1>1. FileAt'
    <2>1. CASE UNCHANGED handles
      BY <2>1 DEF Quiet, StoredInv, FileAt
    <2>2. CASE handles' = [h \in Handles |-> Free]
      BY <2>2 DEF Free, FileAt
    <2> QED
      BY <2>1, <2>2 DEF Quiet
  <1>2. Own'
    <2>1. \A m \in Pending : m.op = cli.op /\ m.h = cli.h
      BY DEF Pending
    <2> QED
      BY <2>1 DEF Quiet, StoredInv, Own
  <1>3. ASSUME cli'.op = "write", ~late' PROVE \E p \in Nat : WrittenFrom(p)'
    <2>1. PICK p \in Nat : WrittenFrom(p)
      BY <1>3 DEF Quiet, StoredInv, Written
    <2>2. cli'.pc = "flush" \/ cli'.seq \in Asked' => cli.pc = "flush" \/ cli.seq \in Asked
      <3>1. Pending # {} => cli.pc = "flush"
        BY DEF Pending
      <3> QED
        BY <3>1, SeqsUnderWay, SeqsUnderWayNext DEF Quiet
    <2>3. Confirmed' => Confirmed
      BY DEF Quiet, Confirmed
    <2>4. UNCHANGED handles \/ handles'[cli.h].kind # "file"
      <3>1. cli.h \in Handles
        BY <1>3 DEF StoredInv, Own, Quiet
      <3> QED
        BY <3>1 DEF Quiet, Free
    <2> QED
      BY <2>1, <2>2, <2>3, <2>4 DEF Quiet, WrittenFrom
  <1> QED
    BY <1>1, <1>2, <1>3 DEF StoredInv, Written

\* A call starts: nothing is counted, and what bears its number is to come.
LEMMA CallStored ==
    ASSUME RfsInv, RfsInv', StoredInv, Call
    PROVE  StoredInv'
  <1> USE DEF RfsInv
  <1>1. /\ cli.pc = "idle" /\ cli'.pc = "flush" /\ cli'.seq = cli.seq + 1
        /\ UNCHANGED <<toSrv, toCli, handles, file, srv>>
        /\ cli'.op = "write" => stored' = <<>> /\ cli'.h \in Handles
    BY DEF Call, Open, Close, Readdir, Seek, Transfer, MayCall, Request, ServerSide,
           Opening, Closing, Kinds
  <1>2. FileAt'
    BY <1>1 DEF StoredInv, FileAt
  <1>3. \A n \in UnderWay' : n # cli'.seq
    <2>1. Top' = cli'.seq - 1 /\ cli'.seq \in Nat
      BY <1>1, UnderWayType, SMT DEF Top
    <2>2. \A n \in UnderWay' : n \in Nat /\ n <= Top'
      <3>1. UnderWay' = UnderWay
        BY <1>1 DEF UnderWay, Asked, Answered, Answering
      <3> QED
        BY <3>1, UnderWayType DEF Order
    <2> QED
      BY <2>1, <2>2, SMT
  <1>4. Own'
    BY <1>1, <1>3, SeqsUnderWayNext DEF Own, UnderWay
  <1>5. ASSUME cli'.op = "write", ~late' PROVE \E p \in Nat : WrittenFrom(p)'
    <2>0. \A h \in Handles : handles[h].kind = "file" => handles[h].at <= Len(file)
      BY DEF StoredInv, FileAt
    <2>1. PICK p \in Nat : /\ p + 0 = p /\ p <= Len(file)
                           /\ handles[cli'.h].kind = "file" => handles[cli'.h].at = p
      <3>1. CASE handles[cli'.h].kind = "file"
        BY <1>1, <1>5, <2>0, <3>1, Lengths, SMT
      <3>2. CASE handles[cli'.h].kind # "file"
        BY <3>2, Lengths, SMT
      <3> QED
        BY <3>1, <3>2
    <2>2. Len(stored') = 0 /\ 1 .. 0 = {}
      BY <1>1, <1>5, EmptySeq, SMT
    <2>3. ~Confirmed'
      BY <1>3, SeqsUnderWayNext DEF Confirmed
    <2>4. handles'[cli'.h].kind = "file" => handles'[cli'.h].at = p
      BY <1>1, <2>1
    <2>5. WrittenFrom(p)'
      BY <1>1, <2>1, <2>2, <2>3, <2>4 DEF WrittenFrom
    <2> QED
      BY <2>5
  <1> QED
    BY <1>2, <1>4, <1>5 DEF StoredInv, Written

\* An answer is taken: if a chunk was written, it is counted.
LEMMA AcceptStored ==
    ASSUME RfsInv, RfsInv', StoredInv, RecvBody, ReadResponse(Head(toCli))
    PROVE  StoredInv'
  <1> USE DEF RfsInv
  <1> DEFINE m == Head(toCli).m
  <1>1. /\ Accept(m) /\ toCli # <<>> /\ toCli' = Tail(toCli)
        /\ UNCHANGED <<toSrv, handles, file, srv, late>>
        /\ m.op = cli.op /\ Carries(Head(toCli), {"res"})
    BY DEF RecvBody, Accept, ServerSide, ReadResponse, Carries
  <1>2. /\ cli'.op = cli.op /\ cli'.h = cli.h /\ cli'.pc \in {"idle", "flush"}
        /\ \/ cli'.seq = cli.seq /\ cli'.pc = "idle"
           \/ cli'.seq = cli.seq + 1 /\ cli'.pc = "flush" /\ m.val > 0
        /\ stored' = IF cli.op = "write" /\ m.val > 0 THEN Append(stored, cli.seq) ELSE stored
    BY <1>1 DEF Accept, Continue, Counted, Types, ClientTypes
  <1>3. m \in Behind
    BY <1>1, TailBodies DEF Types, LineTypes, Behind
  <1>4. Asked' = Asked /\ Ahead' = Ahead
    BY <1>1 DEF Asked, Ahead
  <1> HIDE DEF m
  <1>5. FileAt'
    BY <1>1 DEF StoredInv, FileAt
  <1>6. Own'
    <2>1. ASSUME cli'.seq = cli.seq + 1 PROVE \A n \in Asked : n # cli'.seq
      <3>1. Top = cli.seq
        BY DEF Top, RecvBody
      <3>2. \A n \in Asked : n \in Nat /\ n <= cli.seq
        BY <3>1, UnderWayType DEF Order, UnderWay
      <3> QED
        BY <2>1, <3>2, UnderWayType, SMT
    <2> QED
      BY <1>2, <1>4, <2>1, SeqsUnderWay DEF StoredInv, Own
  <1>7. ASSUME cli.op = "write", ~late PROVE \E p \in Nat : WrittenFrom(p)'
    <2>1. PICK p \in Nat : WrittenFrom(p)
      BY <1>7 DEF StoredInv, Written
    <2>2. UnderWay' = {}
      BY <1>1, <1>2, <1>7 DEF Fresh
    <2>3. ~Confirmed' /\ Asked' = {}
      BY <2>2, SeqsUnderWayNext DEF Confirmed, UnderWay
    <2>4. m.seq = cli.seq
      BY <1>3, <1>7, SeqsUnderWay DEF Fresh
    <2>5. CASE m.val > 0
      <3>1. Confirmed
        BY <1>3, <2>4, <2>5 DEF Confirmed
      <3>2. /\ stored' = Append(stored, cli.seq) /\ Len(stored') = Len(stored) + 1
            /\ \A j \in 1 .. Len(stored) : stored'[j] = stored[j]
            /\ stored'[Len(stored) + 1] = cli.seq
        BY <1>2, <1>7, <2>5, AppendProperties, Lengths DEF Types, ClientTypes
      <3>3. p + Len(stored) < Len(file) /\ file[p + Len(stored) + 1] = cli.seq
            /\ (handles[cli.h].kind = "file" => handles[cli.h].at = p + Len(stored) + 1)
        BY <2>1, <3>1 DEF WrittenFrom
      <3>4. p + Len(stored') <= Len(file) /\ p + Len(stored) + 1 = p + Len(stored')
            /\ p + (Len(stored) + 1) = p + Len(stored) + 1
        BY <3>2, <3>3, Lengths, SMT
      <3>5. \A j \in 1 .. Len(stored') : file[p + j] = stored'[j]
        <4>1. \A j \in 1 .. Len(stored') : j \in 1 .. Len(stored) \/ j = Len(stored) + 1
          BY <3>2, Lengths, SMT
        <4>2. \A j \in 1 .. Len(stored) : file[p + j] = stored[j]
          BY <2>1 DEF WrittenFrom
        <4> QED
          BY <3>2, <3>3, <3>4, <4>1, <4>2
      <3> QED
        BY <1>1, <1>2, <2>3, <3>3, <3>4, <3>5 DEF WrittenFrom
    <2>6. CASE ~ (m.val > 0)
      BY <1>1, <1>2, <2>1, <2>3, <2>6 DEF WrittenFrom
    <2> QED
      BY <2>5, <2>6
  <1> QED
    BY <1>1, <1>2, <1>5, <1>6, <1>7 DEF StoredInv, Written

\* A chunk is written over another, or behind the last one.
LEMMA WrittenAt ==
    ASSUME NEW f \in Seq(Seqs), NEW at \in Nat, NEW c \in Seqs, at <= Len(f)
    PROVE  /\ WriteAt(f, at, c) \in Seq(Seqs)
           /\ Len(WriteAt(f, at, c)) >= Len(f) /\ Len(WriteAt(f, at, c)) > at
           /\ WriteAt(f, at, c)[at + 1] = c
           /\ \A j \in 1 .. Len(f) : j # at + 1 => WriteAt(f, at, c)[j] = f[j]
  <1>1. Len(f) \in Nat
    BY LenProperties
  <1>2. CASE at < Len(f)
    <2>1. WriteAt(f, at, c) = [f EXCEPT ![at + 1] = c] /\ at + 1 \in 1 .. Len(f)
      BY <1>1, <1>2, SMT DEF WriteAt
    <2>2. /\ [f EXCEPT ![at + 1] = c] \in Seq(Seqs) /\ Len([f EXCEPT ![at + 1] = c]) = Len(f)
          /\ \A j \in 1 .. Len(f) : [f EXCEPT ![at + 1] = c][j] = IF j = at + 1 THEN c ELSE f[j]
      BY <2>1, ExceptSeq
    <2> QED
      BY <1>1, <1>2, <2>1, <2>2, SMT
  <1>3. CASE ~ (at < Len(f))
    <2>1. WriteAt(f, at, c) = Append(f, c) /\ at = Len(f)
      BY <1>1, <1>3, SMT DEF WriteAt
    <2>2. /\ Append(f, c) \in Seq(Seqs) /\ Len(Append(f, c)) = Len(f) + 1
          /\ \A j \in 1 .. Len(f) : Append(f, c)[j] = f[j]
          /\ Append(f, c)[Len(f) + 1] = c
      BY AppendProperties
    <2> QED
      BY <1>1, <2>1, <2>2, SMT
  <1> QED
    BY <1>2, <1>3

\* The request whose rest arrives at the server.
LEMMA TakenRequest ==
    ASSUME RfsInv, RfsInv', SrvBody, Head(toSrv).k = "body"
    PROVE  LET m == Head(toSrv).m
           IN  /\ m \in Message /\ m.kind = "req" /\ m \in Ahead /\ m.seq \in Asked
               /\ Execute(m) /\ srv.pc = "body" /\ ClientSide /\ UNCHANGED toCli
               /\ AnswerTo(m)
               /\ Ahead' \subseteq Ahead /\ Ahead \subseteq Ahead' \cup {m}
               /\ \A n \in Asked' : m.seq < n
               /\ Behind' \subseteq Behind \cup {srv'.m} /\ Behind \subseteq Behind'
               /\ srv'.pc = "reply" /\ srv'.m.kind = "res" => srv'.m \in Behind'
               /\ srv'.m \in Behind' => srv'.m \in Behind \/ srv'.m.kind = "res"
               /\ \A n \in Behind : n.seq < m.seq
  <1> USE DEF RfsInv
  <1> DEFINE m == Head(toSrv).m
  <1>1. /\ srv.pc = "body" /\ toSrv # <<>> /\ toSrv' = Tail(toSrv) /\ ClientSide
        /\ UNCHANGED toCli /\ Execute(m)
    BY DEF SrvBody, ServerRequest
  <1>2. m \in Message /\ m.kind = "req" /\ Carries(Head(toSrv), {"req"})
    BY <1>1, TakesTypes DEF Carries
  <1>3. /\ m \in Ahead /\ Ahead' \subseteq Ahead /\ Ahead \subseteq Ahead' \cup {m}
    BY <1>1, <1>2, TailBodies DEF Types, LineTypes, Ahead
  <1>4. m.seq \in Asked /\ \A n \in Asked' : m.seq < n
    BY <1>1, <1>2, TailCarried DEF Types, LineTypes, Order, Asked
  <1>5. AnswerTo(m)
    BY <1>1, <1>2, ExecuteAnswers
  <1>6. Behind = Bodies(toCli, {"res"})
    BY <1>1 DEF Behind
  <1>7. Behind' = Behind \cup (IF srv'.pc = "reply" /\ srv'.m.kind = "res" THEN {srv'.m} ELSE {})
    BY <1>1, <1>6 DEF Behind
  <1>8. \A n \in Behind : n.seq < m.seq
    BY <1>4, <1>6, CarriedBodies DEF Order, Answered
  <1> QED
    BY <1>1, <1>2, <1>3, <1>4, <1>5, <1>7, <1>8

\* What a request does to the file, and where the descriptors then are.
LEMMA ExecuteFile ==
    ASSUME Types, FileAt, NEW m \in Message, m.kind = "req", Execute(m), srv.pc = "body"
    PROVE  \/ /\ UNCHANGED file
              /\ \A h \in Handles : handles'[h].kind = "file" => handles'[h].at <= Len(file)
              /\ m.op = "write" => UNCHANGED handles /\ srv'.m.val = 0
           \/ /\ m.op = "write" /\ m.h \in Handles /\ handles[m.h].kind = "file"
              /\ file' = WriteAt(file, handles[m.h].at, m.seq)
              /\ handles' = [handles EXCEPT ![m.h].at = @ + 1]
  <1> USE DEF Types
  <1> DEFINE Inside == \A h \in Handles : handles'[h].kind = "file" => handles'[h].at <= Len(file)
  <1>0. /\ handles \in [Handles -> [kind : Kinds \cup {"free"}, at : Seqs]]
        /\ \A h \in Handles : handles[h].at \in Nat
        /\ Len(file) \in Nat /\ 0 <= Len(file)
        /\ IsOpen(m) => m.h \in Handles
        /\ \A h \in Handles : handles[h].kind = "file" => handles[h].at <= Len(file)
    BY Lengths, SMT DEF ServerTypes, IsOpen, Message, FileAt
  <1>1. UNCHANGED handles => Inside
    BY <1>0
  <1>2. ASSUME NEW h \in Handles, NEW r, handles' = [handles EXCEPT ![h] = r],
               r.kind = "file" => r.at <= Len(file)
        PROVE  Inside
    BY <1>0, <1>2
  <1>3. CASE m.op \in {"open", "opendir"} /\ ServerOpen(m)
    <2>1. CASE UNCHANGED <<handles, file>>
      BY <1>1, <1>3, <2>1
    <2>2. CASE ~UNCHANGED <<handles, file>>
      <3> DEFINE F == {x \in Handles : handles[x] = Free}
                 h == Min(F)
      <3>1. F # {} /\ F \subseteq Nat /\ F \subseteq Handles
        BY <1>3, <2>2, Constants, SMT DEF ServerOpen, Handles
      <3>2. handles' = [handles EXCEPT ![h] = [kind |-> KindOf(m.op), at |-> 0]] /\ UNCHANGED file
        BY <1>3, <2>2 DEF ServerOpen
      <3>3. h \in Handles
        BY <3>1, MinIn
      <3> HIDE DEF h
      <3>4. Inside
        BY <1>0, <1>2, <3>2, <3>3
      <3> QED
        BY <1>3, <3>2, <3>4
    <2> QED
      BY <2>1, <2>2
  <1>4. CASE m.op \in {"close", "closedir"} /\ ServerClose(m)
    BY <1>0, <1>1, <1>2, <1>4 DEF ServerClose, Free
  <1>5. CASE m.op = "write" /\ ServerWrite(m)
    <2>1. CASE Reply(m, 0) /\ UNCHANGED <<handles, file>>
      <3>1. srv'.m.val = 0
        BY <2>1 DEF Reply, Message
      <3> QED
        BY <1>1, <2>1, <3>1
    <2>2. CASE ~(Reply(m, 0) /\ UNCHANGED <<handles, file>>)
      BY <1>0, <1>5, <2>2 DEF ServerWrite, IsOpen, KindOf
    <2> QED
      BY <2>1, <2>2
  <1>6. CASE m.op = "read" /\ ServerRead(m)
    <2>1. CASE UNCHANGED handles
      BY <1>1, <1>6, <2>1 DEF ServerRead
    <2>2. CASE ~UNCHANGED handles
      <3>1. /\ m.h \in Handles /\ handles[m.h].at < Len(file) /\ UNCHANGED file
            /\ handles' = [handles EXCEPT ![m.h].at = @ + 1]
        BY <1>0, <1>6, <2>2 DEF ServerRead
      <3>2. handles[m.h].at + 1 <= Len(file)
        BY <1>0, <3>1, SMT
      <3>3. Inside
        BY <1>0, <3>1, <3>2
      <3> QED
        BY <1>6, <3>1, <3>3
    <2> QED
      BY <2>1, <2>2
  <1>7. CASE m.op = "readdir" /\ ServerReaddir(m)
    <2>1. CASE UNCHANGED handles
      BY <1>1, <1>7, <2>1 DEF ServerReaddir
    <2>2. CASE ~UNCHANGED handles
      <3>1. /\ m.h \in Handles /\ handles[m.h].kind = "dir" /\ UNCHANGED file
            /\ handles' = [handles EXCEPT ![m.h].at = @ + 1]
        BY <1>0, <1>7, <2>2 DEF ServerReaddir, IsOpen, KindOf
      <3>2. Inside
        BY <1>0, <3>1
      <3> QED
        BY <1>7, <3>1, <3>2
    <2> QED
      BY <2>1, <2>2
  <1>8. CASE m.op = "lseek" /\ ServerSeek(m)
    <2>1. CASE UNCHANGED handles
      BY <1>1, <1>8, <2>1 DEF ServerSeek
    <2>2. CASE ~UNCHANGED handles
      <3>1. m.h \in Handles /\ UNCHANGED file /\ handles' = [handles EXCEPT ![m.h].at = 0]
        BY <1>0, <1>8, <2>2 DEF ServerSeek
      <3>2. Inside
        BY <1>0, <3>1
      <3> QED
        BY <1>8, <3>1, <3>2
    <2> QED
      BY <2>1, <2>2
  <1> QED
    BY <1>3, <1>4, <1>5, <1>6, <1>7, <1>8 DEF Execute

\* A request is executed: if the call waits for it, it is the call's.
LEMMA ExecuteStored ==
    ASSUME RfsInv, RfsInv', StoredInv, SrvBody, Head(toSrv).k = "body"
    PROVE  StoredInv'
  <1> USE DEF RfsInv
  <1> DEFINE m == Head(toSrv).m
  <1>1. /\ m \in Message /\ m.kind = "req" /\ m \in Ahead /\ m.seq \in Asked
        /\ Execute(m) /\ srv.pc = "body" /\ UNCHANGED <<cli, stored, late, toCli>>
        /\ Ahead' \subseteq Ahead /\ \A n \in Asked' : m.seq < n
        /\ Behind' \subseteq Behind \cup {srv'.m}
        /\ \A n \in Behind : n.seq < m.seq
    BY TakenRequest DEF ClientSide, history
  <1>2. m.seq \in Nat /\ m.seq \in Seqs
    BY <1>1, UnderWayType
  <1> HIDE DEF m
  <1>3. \/ /\ UNCHANGED file
           /\ \A h \in Handles : handles'[h].kind = "file" => handles'[h].at <= Len(file)
           /\ m.op = "write" => UNCHANGED handles /\ srv'.m.val = 0
        \/ /\ m.op = "write" /\ m.h \in Handles /\ handles[m.h].kind = "file"
           /\ file' = WriteAt(file, handles[m.h].at, m.seq)
           /\ handles' = [handles EXCEPT ![m.h].at = @ + 1]
    BY <1>1, ExecuteFile DEF StoredInv
  <1>4. Own'
    BY <1>1 DEF StoredInv, Own
  <1>5. ASSUME cli.op = "write", ~late
        PROVE  /\ m.seq = cli.seq /\ m.op = "write" /\ m.h = cli.h /\ cli.h \in Handles
               /\ cli.pc # "flush" /\ cli.seq \notin Asked' /\ ~Confirmed
    <2>1. m.seq = cli.seq /\ cli.pc # "flush"
      BY <1>1, <1>5 DEF Fresh, UnderWay
    <2>2. ~ (m.seq < m.seq)
      BY <1>2, SMT
    <2> QED
      BY <1>1, <1>5, <2>1, <2>2 DEF Confirmed, StoredInv, Own
  <1>6. CASE /\ UNCHANGED file
             /\ \A h \in Handles : handles'[h].kind = "file" => handles'[h].at <= Len(file)
             /\ m.op = "write" => UNCHANGED handles /\ srv'.m.val = 0
    <2>1. FileAt'
      BY <1>6 DEF FileAt
    <2>2. ASSUME cli.op = "write", ~late PROVE \E p \in Nat : WrittenFrom(p)'
      <3>1. PICK p \in Nat : WrittenFrom(p)
        BY <2>2 DEF StoredInv, Written
      <3>2. ~Confirmed'
        <4>1. ~ (0 > 0)
          BY SMT
        <4> QED
          BY <1>1, <1>5, <1>6, <2>2, <4>1 DEF Confirmed
      <3> QED
        BY <1>1, <1>5, <1>6, <2>2, <3>1, <3>2 DEF WrittenFrom
    <2> QED
      BY <1>1, <1>4, <2>1, <2>2 DEF StoredInv, Written
  <1>7. CASE /\ m.op = "write" /\ m.h \in Handles /\ handles[m.h].kind = "file"
             /\ file' = WriteAt(file, handles[m.h].at, m.seq)
             /\ handles' = [handles EXCEPT ![m.h].at = @ + 1]
    <2>0. PICK a \in Nat, d \in Seqs :
                 /\ a = handles[m.h].at /\ d = m.seq
                 /\ a <= Len(file) /\ Len(file) \in Nat /\ file \in Seq(Seqs)
                 /\ file' = WriteAt(file, a, d)
                 /\ handles'[m.h].at = a + 1 /\ handles'[m.h].kind = "file"
                 /\ \A h \in Handles : h # m.h => handles'[h] = handles[h]
      BY <1>2, <1>7, Lengths DEF StoredInv, FileAt, Types, ServerTypes
    <2>1. /\ file' \in Seq(Seqs) /\ Len(file') >= Len(file) /\ Len(file') > a
          /\ file'[a + 1] = d
          /\ \A j \in 1 .. Len(file) : j # a + 1 => file'[j] = file[j]
      BY <2>0, WrittenAt
    <2>2. Len(file') \in Nat
      BY <2>1, LenProperties
    <2>3. FileAt'
      <3> SUFFICES ASSUME NEW h \in Handles, handles'[h].kind = "file"
                   PROVE  handles'[h].at <= Len(file')
        BY DEF FileAt
      <3>1. CASE h = m.h
        BY <2>0, <2>1, <2>2, <3>1, SMT
      <3>2. CASE h # m.h
        <4>1. handles'[h].at = handles[h].at /\ handles[h].at \in Nat /\ handles[h].at <= Len(file)
          BY <2>0, <3>2, Lengths DEF StoredInv, FileAt
        <4> QED
          BY <2>0, <2>1, <2>2, <4>1, SMT
      <3> QED
        BY <3>1, <3>2
    <2>4. ASSUME cli.op = "write", ~late PROVE \E p \in Nat : WrittenFrom(p)'
      <3>1. PICK p \in Nat : WrittenFrom(p)
        BY <2>4 DEF StoredInv, Written
      <3>2. /\ m.seq = cli.seq /\ m.h = cli.h /\ cli.pc # "flush" /\ cli.seq \notin Asked'
            /\ cli.seq \in Asked
        BY <1>1, <1>5, <2>4
      <3>3. a = p + Len(stored) /\ Len(stored) \in Nat
        BY <1>7, <3>1, <3>2, <2>0, Lengths DEF WrittenFrom
      <3>4. \A j \in 1 .. Len(stored) : p + j \in 1 .. Len(file) /\ p + j # a + 1
        BY <2>0, <3>3, SMT
      <3>5. \A j \in 1 .. Len(stored) : file'[p + j] = stored[j]
        BY <2>1, <3>1, <3>4 DEF WrittenFrom
      <3>6. p + Len(stored) <= Len(file') /\ p + Len(stored) < Len(file')
        BY <2>0, <2>1, <2>2, <3>3, SMT
      <3> QED
        BY <1>1, <2>0, <2>1, <3>2, <3>3, <3>5, <3>6 DEF WrittenFrom
    <2> QED
      BY <1>1, <1>4, <2>3, <2>4 DEF StoredInv, Written
  <1> QED
    BY <1>3, <1>6, <1>7

LEMMA StepQuiet ==
    ASSUME RfsInv, Next
    PROVE  \/ Quiet
           \/ Call
           \/ RecvBody /\ ReadResponse(Head(toCli))
           \/ SrvBody /\ Head(toSrv).k = "body"
  BY ClientQuiet, ServerStepQuiet, RestartQuiet, LoseQuiet DEF Next, RfsInv

LEMMA StepStored == RfsInv /\ RfsInv' /\ StoredInv /\ [Next]_vars => StoredInv'
  <1> SUFFICES ASSUME RfsInv, RfsInv', StoredInv, [Next]_vars PROVE StoredInv'
    OBVIOUS
  <1>1. CASE Next
    BY <1>1, StepQuiet, QuietStored, CallStored, AcceptStored, ExecuteStored
  <1>2. CASE UNCHANGED vars
    BY <1>2 DEF vars, history, StoredInv, FileAt, Own, Written, WrittenFrom, Confirmed,
                Ahead, Behind, Asked
  <1> QED
    BY <1>1, <1>2

LEMMA StoredSuffices == RfsInv /\ StoredInv => CountedIsStored
  <1> SUFFICES ASSUME RfsInv, StoredInv, stored # <<>>, cli.op = "write", ~late
               PROVE  \E i \in 0 .. Len(file) - Len(stored) :
                          SubSeq(file, i + 1, i + Len(stored)) = stored
    BY DEF CountedIsStored
  <1>1. PICK p \in Nat : WrittenFrom(p)
    BY DEF StoredInv, Written
  <1>2. /\ p + Len(stored) <= Len(file) /\ \A j \in 1 .. Len(stored) : file[p + j] = stored[j]
        /\ file \in Seq(Seqs) /\ stored \in Seq(Seqs)
        /\ Len(stored) \in Nat /\ Len(file) \in Nat
    BY <1>1, Lengths DEF WrittenFrom, RfsInv
  <1>3. p \in 0 .. Len(file) - Len(stored)
    BY <1>2, SMT
  <1> DEFINE s == SubSeq(file, p + 1, p + Len(stored))
  <1>4. s \in Seq(Seqs) /\ Len(s) = Len(stored) /\ \A j \in 1 .. Len(stored) : s[j] = file[p + j]
    <2>1. /\ \A i \in p + 1 .. p + Len(stored) : i \in 1 .. Len(file)
          /\ p + 1 <= p + Len(stored) + 1
          /\ (p + Len(stored)) - (p + 1) + 1 = Len(stored)
          /\ \A j \in 1 .. Len(stored) : (p + 1) + j - 1 = p + j
      BY <1>2, SMT
    <2> QED
      BY <1>2, <2>1, SubSeqProperties, SMT
  <1> HIDE DEF s
  <1>5. s = stored
    BY <1>2, <1>4, SeqEqual
  <1> QED
    BY <1>3, <1>5 DEF s

\* rfs_write_r: what was counted as written is in the file in one piece, unless
\* a call has given up on a live request.
THEOREM WrittenIsStored == Spec => []CountedIsStored
  <1>1. Init => StoredInv
    BY StoredInit
  <1>2. RfsInv /\ RfsInv' /\ StoredInv /\ [Next]_vars => StoredInv'
    BY StepStored
  <1>3. RfsInv /\ StoredInv => CountedIsStored
    BY StoredSuffices
  <1> QED
    BY <1>1, <1>2, <1>3, InvariantHolds, PTL DEF Spec

----------------------------------------------------------------------------
(* Descriptors the program does not know of                                *)

Leaked == UNION {OpenAt(k) \ held[k] : k \in Kinds}

\* The answer that will tell the program of h, or the request that closes it.
Covers(m, h) ==
    \E k \in Kinds :
        /\ handles[h].kind = k
        /\ \/ m.kind = "res" /\ m.op = Opening[k] /\ m.val = h
           \/ m.kind = "req" /\ m.op = Closing[k] /\ m.h = h

Uncovered == {h \in Leaked : ~\E m \in Messages : Covers(m, h)}

\* The opening and closing calls that are still under way.
Tokens == {m \in Messages : OpensOrCloses(m.op)}

\* Each descriptor that no message takes care of was paid for by a call that
\* failed, and each opening or closing message by another such call, or by the
\* one in progress.
Balance == Cardinality(Tokens) + Cardinality(Uncovered) <= Calls

LEMMA LeakedAt ==
    /\ \A h \in Leaked : h \in Handles /\ handles[h].kind \in Kinds /\ h \notin held[handles[h].kind]
    /\ \A h \in Handles : handles[h].kind \in Kinds /\ h \notin held[handles[h].kind] => h \in Leaked
  BY DEF Leaked, OpenAt

\* A message takes care of one descriptor.
LEMMA CoversOne ==
    ASSUME NEW m, NEW h, Covers(m, h)
    PROVE  OpensOrCloses(m.op) /\ h = (IF m.kind = "res" THEN m.val ELSE m.h)
  BY DEF Covers, OpensOrCloses

LEMMA BodiesFinite ==
    ASSUME NEW S, NEW q \in Seq(S), NEW K
    PROVE  IsFiniteSet(Bodies(q, K))
  <1> DEFINE D == {j \in 1 .. Len(q) : Carries(q[j], K)}
             f == [i \in D |-> q[i].m]
  <1>1. IsFiniteSet(D)
    <2>1. Len(q) \in Int /\ 1 \in Int
      BY LenProperties, SMT
    <2>2. IsFiniteSet(1 .. Len(q))
      BY <2>1, FS_Interval
    <2> QED
      BY <2>2, FS_Subset
  <1>2. f \in Surjection(D, Bodies(q, K))
    BY DEF Surjection, Bodies
  <1> QED
    BY <1>1, <1>2, FS_Surjection

LEMMA Finite ==
    ASSUME Types
    PROVE  /\ IsFiniteSet(Messages) /\ IsFiniteSet(Tokens) /\ IsFiniteSet(Uncovered)
           /\ Cardinality(Tokens) \in Nat /\ Cardinality(Uncovered) \in Nat
           /\ IsFiniteSet(Handles) /\ Calls \in Nat
  <1>1. IsFiniteSet(Ahead) /\ IsFiniteSet(Bodies(toCli, {"res"}))
    BY BodiesFinite DEF Types, LineTypes, Ahead
  <1>2. \A x : IsFiniteSet({x})
    BY FS_Singleton
  <1>3. IsFiniteSet({})
    BY FS_EmptySet
  <1>4. IsFiniteSet(Behind)
    BY <1>1, <1>2, <1>3, FS_Union DEF Behind
  <1>5. IsFiniteSet(Pending)
    BY <1>2, <1>3 DEF Pending
  <1>6. IsFiniteSet(Messages)
    BY <1>1, <1>4, <1>5, FS_Union DEF Messages
  <1>7. IsFiniteSet(Handles)
    <2>1. MaxHandles \in Int /\ 1 \in Int
      BY Constants, SMT
    <2> QED
      BY <2>1, FS_Interval DEF Handles
  <1>8. IsFiniteSet(Tokens)
    BY <1>6, FS_Subset DEF Tokens
  <1>9. IsFiniteSet(Uncovered)
    <2>1. Uncovered \subseteq Handles
      BY LeakedAt DEF Uncovered
    <2> QED
      BY <1>7, <2>1, FS_Subset
  <1>10. Calls \in Nat
    BY SMT DEF Calls, Types, ClientTypes
  <1> QED
    BY <1>6, <1>7, <1>8, <1>9, <1>10, FS_CardinalityType

\* The message that goes was a token, or took care of nothing.
LEMMA Replaced ==
    ASSUME NEW A, NEW B, IsFiniteSet(A), NEW m, NEW m2, m \in A, B \subseteq (A \ {m}) \cup {m2}
    PROVE  IsFiniteSet(B) /\ Cardinality(B) <= Cardinality(A)
  <1> DEFINE C == A \ {m}
  <1>1. IsFiniteSet(C) /\ Cardinality(C) = Cardinality(A) - 1
    BY FS_RemoveElement
  <1>2. Cardinality(A) \in Nat /\ Cardinality(C) \in Nat
    BY <1>1, FS_CardinalityType
  <1>3. /\ IsFiniteSet(C \cup {m2})
        /\ Cardinality(C \cup {m2}) = IF m2 \in C THEN Cardinality(C) ELSE Cardinality(C) + 1
    BY <1>1, FS_AddElement
  <1>4. IsFiniteSet(B) /\ Cardinality(B) <= Cardinality(C \cup {m2})
    BY <1>3, FS_Subset
  <1>5. Cardinality(B) \in Nat
    BY <1>4, FS_CardinalityType
  <1> HIDE DEF C
  <1> QED
    BY <1>1, <1>2, <1>3, <1>4, <1>5, SMT

LEMMA OneMore ==
    ASSUME NEW A, NEW B, IsFiniteSet(A), NEW m, B \subseteq A \cup {m}
    PROVE  /\ IsFiniteSet(B) /\ Cardinality(B) <= Cardinality(A) + 1
           /\ Cardinality(A) \in Nat /\ Cardinality(B) \in Nat
  <1>1. /\ IsFiniteSet(A \cup {m})
        /\ Cardinality(A \cup {m}) = IF m \in A THEN Cardinality(A) ELSE Cardinality(A) + 1
    BY FS_AddElement
  <1>2. IsFiniteSet(B) /\ Cardinality(B) <= Cardinality(A \cup {m})
    BY <1>1, FS_Subset
  <1>3. Cardinality(A) \in Nat /\ Cardinality(B) \in Nat
    BY <1>2, FS_CardinalityType
  <1> QED
    BY <1>1, <1>2, <1>3, SMT

LEMMA OneLess ==
    ASSUME NEW A, NEW B, IsFiniteSet(A), NEW m, m \in A, B \subseteq A \ {m}
    PROVE  /\ IsFiniteSet(B) /\ Cardinality(B) + 1 <= Cardinality(A)
           /\ Cardinality(A) \in Nat /\ Cardinality(B) \in Nat
  <1>1. IsFiniteSet(A \ {m}) /\ Cardinality(A \ {m}) = Cardinality(A) - 1
    BY FS_RemoveElement
  <1>2. IsFiniteSet(B) /\ Cardinality(B) <= Cardinality(A \ {m})
    BY <1>1, FS_Subset
  <1>3. Cardinality(A) \in Nat /\ Cardinality(B) \in Nat
    BY <1>2, FS_CardinalityType
  <1> QED
    BY <1>1, <1>2, <1>3, SMT

LEMMA Fewest ==
    ASSUME NEW A, NEW B, IsFiniteSet(A), B \subseteq A
    PROVE  /\ IsFiniteSet(B) /\ Cardinality(B) <= Cardinality(A)
           /\ Cardinality(A) \in Nat /\ Cardinality(B) \in Nat
  BY FS_Subset, FS_CardinalityType

LEMMA BalanceInit == Init => Balance
  <1> SUFFICES ASSUME Init PROVE Balance
    OBVIOUS
  <1>1. Messages = {}
    <2>1. 1 .. Len(<<>>) = {}
      BY EmptySeq, SMT
    <2> QED
      BY <2>1 DEF Messages, Pending, Ahead, Behind, Bodies, Init, Idle
  <1>2. Uncovered = {}
    BY LeakedAt DEF Uncovered, Init, Free, Kinds
  <1>3. Tokens = {} /\ Cardinality({}) = 0 /\ Calls = 0
    BY <1>1, FS_EmptySet, SMT DEF Tokens, Calls, Init, Idle
  <1> QED
    BY <1>2, <1>3, SMT DEF Balance

LEMMA AheadAsk == \A m \in Ahead : m.kind = "req"
  BY DEF Ahead, Bodies, Carries

LEMMA BehindAnswer == \A m \in Behind' : m.kind = "res"
  BY DEF Behind, Bodies, Carries

\* What a request does to the descriptors, and its answer.
LEMMA ExecuteEffect ==
    ASSUME Types, NEW m \in Message, m.kind = "req", Execute(m), srv.pc = "body"
    PROVE  \/ /\ m.op \in {"open", "opendir"} /\ srv'.pc = "reply"
              /\ srv'.m = [m EXCEPT !.kind = "res", !.val = srv'.m.val]
              /\ \/ UNCHANGED handles
                 \/ /\ srv'.m.val \in Handles
                    /\ handles' = [handles EXCEPT ![srv'.m.val] = [kind |-> KindOf(m.op), at |-> 0]]
           \/ /\ m.op \in {"close", "closedir"} /\ srv'.pc = "reply"
              /\ srv'.m = [m EXCEPT !.kind = "res", !.val = srv'.m.val]
              /\ handles' = IF IsOpen(m) THEN [handles EXCEPT ![m.h] = Free] ELSE handles
           \/ /\ ~OpensOrCloses(m.op)
              /\ srv'.m.op = m.op \/ srv'.m.kind = "req"
              /\ \A h \in Handles : handles'[h].kind = handles[h].kind
  <1> USE DEF Types
  <1>0. /\ handles \in [Handles -> [kind : Kinds \cup {"free"}, at : Seqs]]
        /\ IsOpen(m) => m.h \in Handles
        /\ \A val : Reply(m, val) => /\ srv'.m = [m EXCEPT !.kind = "res", !.val = val]
                                     /\ srv'.pc = "reply" /\ srv'.m.op = m.op /\ srv'.m.val = val
    <2>1. IsOpen(m) => m.h \in Handles
      BY DEF IsOpen, Message
    <2>2. ASSUME NEW val, Reply(m, val)
          PROVE  /\ srv'.m = [m EXCEPT !.kind = "res", !.val = val]
                 /\ srv'.pc = "reply" /\ srv'.m.op = m.op /\ srv'.m.val = val
      BY <2>2 DEF Reply, Message
    <2> QED
      BY <2>1, <2>2 DEF ServerTypes
  <1>1. CASE m.op \in {"open", "opendir"} /\ ServerOpen(m)
    <2>1. CASE Reply(m, None) /\ UNCHANGED <<handles, file>>
      BY <1>0, <1>1, <2>1
    <2>2. CASE ~(Reply(m, None) /\ UNCHANGED <<handles, file>>)
      <3> DEFINE F == {x \in Handles : handles[x] = Free}
                 h == Min(F)
      <3>1. F # {} /\ F \subseteq Nat /\ F \subseteq Handles
        BY <1>1, <2>2, Constants, SMT DEF ServerOpen, Handles
      <3>2. /\ handles' = [handles EXCEPT ![h] = [kind |-> KindOf(m.op), at |-> 0]]
            /\ Reply(m, h)
        BY <1>1, <2>2 DEF ServerOpen
      <3>3. h \in Handles
        BY <3>1, MinIn
      <3> HIDE DEF h
      <3> QED
        BY <1>0, <1>1, <3>2, <3>3
    <2> QED
      BY <2>1, <2>2
  <1>2. CASE m.op \in {"close", "closedir"} /\ ServerClose(m)
    BY <1>0, <1>2 DEF ServerClose
  <1>3. CASE m.op \in {"write", "read", "readdir", "lseek"}
    <2>1. ~OpensOrCloses(m.op)
      BY <1>3 DEF OpensOrCloses, Opening, Closing, Kinds
    <2>2. srv'.m.op = m.op \/ srv'.m.kind = "req"
      <3>1. CASE ServerWrite(m) \/ ServerSeek(m)
        BY <1>0, <3>1 DEF ServerWrite, ServerSeek
      <3>2. CASE ServerReaddir(m)
        <4>1. srv' = [srv EXCEPT !.pc = "down"] => srv'.m = srv.m /\ srv.m.kind = "req"
          BY DEF ServerTypes
        <4> QED
          BY <1>0, <3>2, <4>1 DEF ServerReaddir
      <3>3. CASE ServerRead(m)
        <4>1. srv' = [pc |-> "reply", m |-> [m EXCEPT !.kind = "bad"]] => srv'.m.op = m.op
          BY DEF Message
        <4> QED
          BY <1>0, <3>3, <4>1 DEF ServerRead
      <3> QED
        BY <1>3, <3>1, <3>2, <3>3 DEF Execute
    <2>3. \A h \in Handles : handles'[h].kind = handles[h].kind
      <3>1. UNCHANGED handles \/ \E n : IsOpen(m) /\ handles' = [handles EXCEPT ![m.h].at = n]
        <4>1. CASE m.op = "write" /\ ServerWrite(m)
          BY <4>1 DEF ServerWrite
        <4>2. CASE m.op = "read" /\ ServerRead(m)
          BY <4>2 DEF ServerRead
        <4>3. CASE m.op = "readdir" /\ ServerReaddir(m)
          BY <4>3 DEF ServerReaddir
        <4>4. CASE m.op = "lseek" /\ ServerSeek(m)
          BY <4>4 DEF ServerSeek
        <4> QED
          BY <1>3, <4>1, <4>2, <4>3, <4>4 DEF Execute
      <3> QED
        <4>1. CASE UNCHANGED handles
          BY <4>1
        <4>2. ASSUME NEW n, m.h \in Handles, handles' = [handles EXCEPT ![m.h].at = n],
                     NEW h \in Handles
              PROVE  handles'[h].kind = handles[h].kind
          <5>1. PICK x \in Handles : x = m.h
            BY <4>2
          <5>2. handles' = [handles EXCEPT ![x].at = n]
            BY <4>2, <5>1
          <5>3. handles[x] \in [kind : Kinds \cup {"free"}, at : Seqs]
            BY <1>0
          <5> QED
            BY <1>0, <5>2, <5>3
        <4> QED
          BY <1>0, <3>1, <4>1, <4>2
    <2> QED
      BY <2>1, <2>2, <2>3
  <1> QED
    BY <1>1, <1>2, <1>3 DEF Execute

LEMMA QuietBalance ==
    ASSUME Types, Types', Balance, Quiet
    PROVE  Balance'
  <1>1. Messages' \subseteq Messages
    <2>1. Pending' \subseteq Pending
      BY DEF Quiet, Pending
    <2> QED
      BY <2>1 DEF Quiet, Messages
  <1>2. Tokens' \subseteq Tokens
    BY <1>1 DEF Tokens
  <1>3. Calls' = Calls /\ Calls \in Nat
    BY Finite DEF Quiet
  <1>4. CASE handles' = [h \in Handles |-> Free]
    <2>1. Uncovered' = {}
      BY <1>4 DEF Uncovered, Leaked, OpenAt, Free, Kinds
    <2>2. /\ Cardinality(Tokens') <= Cardinality(Tokens) /\ Cardinality(Uncovered') = 0
          /\ Cardinality(Tokens') \in Nat
      BY <1>2, <2>1, Finite, Fewest, FS_EmptySet
    <2> QED
      BY <1>3, <2>2, Finite, SMT DEF Balance
  <1>5. ASSUME UNCHANGED handles, NEW m, Messages \subseteq Messages' \cup {m}
        PROVE  Balance'
    <2>1. Leaked' = Leaked /\ \A n, h : Covers(n, h)' <=> Covers(n, h)
      BY <1>5 DEF Quiet, Leaked, OpenAt, Covers
    <2>2. CASE m \in Messages /\ OpensOrCloses(m.op) /\ m \notin Messages'
      <3> DEFINE x == IF m.kind = "res" THEN m.val ELSE m.h
      <3>1. Tokens' \subseteq Tokens \ {m} /\ m \in Tokens
        BY <1>1, <2>2 DEF Tokens
      <3>2. Uncovered' \subseteq Uncovered \cup {x}
        <4> SUFFICES ASSUME NEW h \in Leaked, ~\E n \in Messages' : Covers(n, h)', h # x
                     PROVE  ~\E n \in Messages : Covers(n, h)
          BY <2>1 DEF Uncovered
        <4>1. ~Covers(m, h)
          BY CoversOne
        <4> QED
          BY <1>5, <2>1, <4>1
      <3> HIDE DEF x
      <3>3. /\ Cardinality(Tokens') + 1 <= Cardinality(Tokens)
            /\ Cardinality(Uncovered') <= Cardinality(Uncovered) + 1
            /\ Cardinality(Tokens') \in Nat /\ Cardinality(Uncovered') \in Nat
        BY <3>1, <3>2, Finite, OneLess, OneMore
      <3> QED
        BY <1>3, <3>3, Finite, SMT DEF Balance
    <2>3. CASE ~(m \in Messages /\ OpensOrCloses(m.op) /\ m \notin Messages')
      <3>1. Uncovered' \subseteq Uncovered
        <4> SUFFICES ASSUME NEW h \in Leaked, ~\E n \in Messages' : Covers(n, h)'
                     PROVE  ~\E n \in Messages : Covers(n, h)
          BY <2>1 DEF Uncovered
        <4> QED
          BY <1>5, <2>1, <2>3, CoversOne
      <3>2. /\ Cardinality(Tokens') <= Cardinality(Tokens)
            /\ Cardinality(Uncovered') <= Cardinality(Uncovered)
            /\ Cardinality(Tokens') \in Nat /\ Cardinality(Uncovered') \in Nat
        BY <1>2, <3>1, Finite, Fewest
      <3> QED
        BY <1>3, <3>2, Finite, SMT DEF Balance
    <2> QED
      BY <2>2, <2>3
  <1> QED
    BY <1>4, <1>5 DEF Quiet

\* A call starts: a closing one takes care of what it takes from the program.
LEMMA CallBalance ==
    ASSUME Types, Types', Balance, Call
    PROVE  Balance'
  <1> DEFINE r == [kind |-> "req", op |-> cli'.op, seq |-> cli'.seq, h |-> cli'.h, val |-> 0]
  <1>1. /\ cli.pc = "idle" /\ cli'.pc = "flush" /\ UNCHANGED <<toSrv, toCli, handles, srv, failed>>
        /\ \/ UNCHANGED held
           \/ \E k \in Kinds : /\ cli'.op = Closing[k]
                               /\ held' = [held EXCEPT ![k] = @ \ {cli'.h}]
    BY DEF Call, Open, Close, Readdir, Seek, Transfer, MayCall, Request, ServerSide
  <1>2. Messages' = Messages \cup {r}
    <2>1. Pending = {} /\ Pending' = {r}
      BY <1>1 DEF Pending
    <2>2. Ahead' = Ahead /\ Behind' = Behind
      BY <1>1 DEF Ahead, Behind
    <2> QED
      BY <2>1, <2>2 DEF Messages
  <1>3. \A n, h : Covers(n, h)' <=> Covers(n, h)
    BY <1>1 DEF Covers
  <1>4. Uncovered' \subseteq Uncovered
    <2> SUFFICES ASSUME NEW h \in Leaked', ~\E n \in Messages' : Covers(n, h)'
                 PROVE  h \in Leaked
      BY <1>2, <1>3 DEF Uncovered
    <2>1. CASE UNCHANGED held
      BY <1>1, <2>1 DEF Leaked, OpenAt
    <2>2. ASSUME NEW k \in Kinds, cli'.op = Closing[k],
                 held' = [held EXCEPT ![k] = @ \ {cli'.h}]
          PROVE  h \in Leaked
      <3>1. PICK j \in Kinds : h \in Handles /\ handles[h].kind = j /\ h \notin held'[j]
        BY <1>1 DEF Leaked, OpenAt
      <3>2. CASE j = k /\ h = cli'.h
        <4>1. Covers(r, h)
          BY <2>2, <3>1, <3>2 DEF Covers
        <4> QED
          BY <1>2, <1>3, <4>1
      <3>3. CASE ~(j = k /\ h = cli'.h)
        <4>1. h \notin held[j]
          BY <2>2, <3>1, <3>3 DEF Types, ClientTypes
        <4> QED
          BY <3>1, <4>1 DEF Leaked, OpenAt
      <3> QED
        BY <3>2, <3>3
    <2> QED
      BY <1>1, <2>1, <2>2
  <1>5. failed \in Nat /\ Calls = failed
        /\ Calls' = failed + (IF OpensOrCloses(cli'.op) THEN 1 ELSE 0)
    BY <1>1, SMT DEF Calls, Types, ClientTypes
  <1>6. /\ Cardinality(Uncovered') <= Cardinality(Uncovered)
        /\ Cardinality(Uncovered') \in Nat
    BY <1>4, Finite, Fewest
  <1>7. CASE OpensOrCloses(cli'.op)
    <2>1. Tokens' \subseteq Tokens \cup {r}
      BY <1>2 DEF Tokens
    <2> HIDE DEF r
    <2>2. Cardinality(Tokens') <= Cardinality(Tokens) + 1 /\ Cardinality(Tokens') \in Nat
      BY <2>1, Finite, OneMore
    <2> QED
      BY <1>5, <1>6, <1>7, <2>2, Finite, SMT DEF Balance
  <1>8. CASE ~OpensOrCloses(cli'.op)
    <2>1. Tokens' \subseteq Tokens
      BY <1>2, <1>8 DEF Tokens
    <2>2. Cardinality(Tokens') <= Cardinality(Tokens) /\ Cardinality(Tokens') \in Nat
      BY <2>1, Finite, Fewest
    <2> QED
      BY <1>5, <1>6, <1>8, <2>2, Finite, SMT DEF Balance
  <1> QED
    BY <1>7, <1>8

\* An answer is taken: what it opened is the program's.
LEMMA AcceptBalance ==
    ASSUME RfsInv, RfsInv', Balance, RecvBody, ReadResponse(Head(toCli))
    PROVE  Balance'
  <1> USE DEF RfsInv
  <1> DEFINE m == Head(toCli).m
             x == m.val
  <1>1. /\ Accept(m) /\ toCli # <<>> /\ toCli' = Tail(toCli) /\ cli.pc = "body"
        /\ UNCHANGED <<toSrv, handles, srv, failed>>
        /\ m.op = cli.op /\ m.kind = "res" /\ Carries(Head(toCli), {"res"})
    BY DEF RecvBody, Accept, ServerSide, ReadResponse, Carries
  <1>2. \/ cli'.pc = "idle"
        \/ cli'.pc = "flush" /\ cli'.op = cli.op /\ cli.op \in {"read", "write"}
    BY <1>1 DEF Accept, Continue, Types, ClientTypes
  <1>3. /\ toCli \in Seq(Answers) /\ m.seq \in Answered /\ m \in Behind
        /\ Bodies(toCli', {"res"}) \subseteq Bodies(toCli, {"res"})
        /\ Bodies(toCli, {"res"}) \subseteq Bodies(toCli', {"res"}) \cup {m}
    BY <1>1, TailBodies, TailCarried DEF Types, LineTypes, Behind, Answered
  <1>4. /\ Ahead' = Ahead /\ Pending = {}
        /\ Behind' \subseteq Behind /\ Behind \subseteq Behind' \cup {m}
    BY <1>1, <1>3 DEF Ahead, Pending, Behind
  <1>5. \A n \in Pending' : ~OpensOrCloses(n.op)
    BY <1>2 DEF Pending, OpensOrCloses, Opening, Closing, Kinds
  <1>6. m \notin Behind'
    <2>1. accepted' = <<cli.seq, m.seq>>
      BY <1>1 DEF Accept
    <2>2. \A n \in UnderWay' : accepted'[2] < n
      BY DEF Order
    <2>3. m.seq \in Nat /\ ~ (m.seq < m.seq)
      BY <1>3, UnderWayType, SMT
    <2> QED
      BY <2>1, <2>2, <2>3, SeqsUnderWayNext
  <1>7. \A n, h : Covers(n, h)' <=> Covers(n, h)
    BY <1>1 DEF Covers
  <1>8. \A n : OpensOrCloses(n.op) => (n \in Messages' => n \in Messages /\ n # m)
    <2>1. m \notin Ahead
      BY <1>1, AheadAsk
    <2> QED
      BY <1>4, <1>5, <1>6, <2>1 DEF Messages
  <1>9. Tokens' \subseteq Tokens /\ (OpensOrCloses(cli.op) => Tokens' \subseteq Tokens \ {m} /\ m \in Tokens)
    BY <1>1, <1>3, <1>8 DEF Tokens, Messages
  <1> HIDE DEF m, x
  <1>10. Uncovered' \subseteq Uncovered
    <2> SUFFICES ASSUME NEW h \in Leaked', ~\E n \in Messages' : Covers(n, h)'
                 PROVE  h \in Leaked /\ ~\E n \in Messages : Covers(n, h)
      BY DEF Uncovered
    <2>1. /\ h \in Handles /\ handles[h].kind \in Kinds
          /\ h \notin held'[handles[h].kind]
      BY <1>1 DEF Leaked, OpenAt
    <2>2. \A k \in Kinds : held[k] \subseteq held'[k]
      BY <1>1 DEF Accept, Types, ClientTypes
    <2>3. h \in Leaked
      BY <2>1, <2>2, LeakedAt
    <2>4. ~Covers(m, h)
      <3> SUFFICES ASSUME Covers(m, h) PROVE FALSE
        OBVIOUS
      <3>1. PICK k \in Kinds : handles[h].kind = k /\ m.op = Opening[k] /\ m.val = h
        BY <1>1 DEF Covers
      <3>2. cli.op = Opening[KindOf(cli.op)] /\ KindOf(cli.op) = k
        BY <1>1, <3>1 DEF KindOf, Opening, Kinds
      <3>3. m.val # None
        BY <2>1, <3>1, Constants, SMT DEF Handles, None
      <3>4. h \in held'[k]
        BY <1>1, <3>1, <3>2, <3>3 DEF Accept, Types, ClientTypes
      <3> QED
        BY <2>1, <3>1, <3>4
    <2> QED
      BY <1>4, <1>7, <2>3, <2>4 DEF Messages
  <1>11. failed \in Nat
         /\ Calls = failed + (IF OpensOrCloses(cli.op) THEN 1 ELSE 0) /\ Calls' = failed
    <2>1. ~OpensOrCloses(cli.op) \/ cli'.pc = "idle"
      BY <1>2 DEF OpensOrCloses, Opening, Closing, Kinds
    <2>2. cli'.op = cli.op
      BY <1>1 DEF Accept, Continue, Types, ClientTypes
    <2> QED
      BY <1>1, <2>1, <2>2, SMT DEF Calls, Types, ClientTypes
  <1>12. /\ Cardinality(Uncovered') <= Cardinality(Uncovered)
         /\ Cardinality(Uncovered') \in Nat
    BY <1>10, Finite, Fewest
  <1>13. CASE OpensOrCloses(cli.op)
    <2>1. Cardinality(Tokens') + 1 <= Cardinality(Tokens) /\ Cardinality(Tokens') \in Nat
      BY <1>9, <1>13, Finite, OneLess
    <2> QED
      BY <1>11, <1>12, <1>13, <2>1, Finite, SMT DEF Balance
  <1>14. CASE ~OpensOrCloses(cli.op)
    <2>1. Cardinality(Tokens') <= Cardinality(Tokens) /\ Cardinality(Tokens') \in Nat
      BY <1>9, Finite, Fewest
    <2> QED
      BY <1>11, <1>12, <1>14, <2>1, Finite, SMT DEF Balance
  <1> QED
    BY <1>13, <1>14

\* A request is executed: the answer takes its place.
LEMMA ExecuteBalance ==
    ASSUME RfsInv, RfsInv', Balance, SrvBody, Head(toSrv).k = "body"
    PROVE  Balance'
  <1> USE DEF RfsInv
  <1> DEFINE m == Head(toSrv).m
  <1>0. PICK m2 : m2 = srv'.m
    OBVIOUS
  <1>1. /\ m \in Message /\ m.kind = "req" /\ m \in Ahead /\ m.seq \in Asked
        /\ Execute(m) /\ srv.pc = "body" /\ UNCHANGED <<cli, held, failed>>
        /\ Ahead' \subseteq Ahead /\ Ahead \subseteq Ahead' \cup {m}
        /\ \A n \in Asked' : m.seq < n
        /\ Behind' \subseteq Behind \cup {m2} /\ Behind \subseteq Behind'
        /\ srv'.pc = "reply" /\ m2.kind = "res" => m2 \in Behind'
        /\ m2 \in Behind' => m2 \in Behind \/ m2.kind = "res"
    BY <1>0, TakenRequest DEF ClientSide, history
  <1>2. m.seq \in Nat /\ ~ (m.seq < m.seq)
    BY <1>1, UnderWayType, SMT
  <1> HIDE DEF m
  <1>3. Pending' = Pending /\ Calls' = Calls /\ Calls \in Nat
    BY <1>1, Finite DEF Pending, Calls
  <1>4. m \notin Messages'
    <2>1. m \notin Ahead'
      BY <1>1, <1>2, SeqsUnderWayNext
    <2>2. m \notin Pending
      <3>1. cli.pc = "flush" => m.seq # cli.seq
        <4>1. m.seq <= Top
          BY <1>1 DEF Order, UnderWay
        <4> QED
          BY <1>2, <4>1, UnderWayType, SMT DEF Top
      <3> QED
        BY <3>1 DEF Pending
    <2>3. m \notin Behind'
      BY <1>1, BehindAnswer
    <2> QED
      BY <1>3, <2>1, <2>2, <2>3 DEF Messages
  <1>5. Messages' \subseteq (Messages \ {m}) \cup {m2} /\ Messages \subseteq Messages' \cup {m}
        /\ m \in Messages
    BY <1>1, <1>3, <1>4 DEF Messages
  <1>6. m2 \in Messages' => m2 \in Messages \/ m2.kind = "res"
    BY <1>1, <1>3 DEF Messages
  <1>7. \A h \in Handles : Covers(m, h) =>
            h = m.h /\ m.op \in {"close", "closedir"} /\ IsOpen(m)
    <2>1. \A h \in Handles : h # None
      BY Constants, SMT DEF Handles, None
    <2> QED
      BY <1>1, <2>1 DEF Covers, IsOpen, Closing, Kinds, KindOf
  <1>8. handles \in [Handles -> [kind : Kinds \cup {"free"}, at : Seqs]]
    BY DEF Types, ServerTypes
  <1>9. \/ /\ m.op \in {"open", "opendir"} /\ srv'.pc = "reply"
           /\ m2 = [m EXCEPT !.kind = "res", !.val = m2.val]
           /\ \/ UNCHANGED handles
              \/ /\ m2.val \in Handles
                 /\ handles' = [handles EXCEPT ![m2.val] = [kind |-> KindOf(m.op), at |-> 0]]
        \/ /\ m.op \in {"close", "closedir"} /\ srv'.pc = "reply"
           /\ m2 = [m EXCEPT !.kind = "res", !.val = m2.val]
           /\ handles' = IF IsOpen(m) THEN [handles EXCEPT ![m.h] = Free] ELSE handles
        \/ /\ ~OpensOrCloses(m.op)
           /\ m2.op = m.op \/ m2.kind = "req"
           /\ \A h \in Handles : handles'[h].kind = handles[h].kind
    BY <1>0, <1>1, ExecuteEffect
  <1>10. /\ OpensOrCloses(m.op) => m2.op = m.op
         /\ ~OpensOrCloses(m.op) /\ m2 \in Messages' => m2 \in Messages \/ ~OpensOrCloses(m2.op)
    <2>1. m.op \in {"open", "opendir", "close", "closedir"} => OpensOrCloses(m.op)
      BY DEF OpensOrCloses, Opening, Closing, Kinds
    <2>2. m2 = [m EXCEPT !.kind = "res", !.val = m2.val] => m2.op = m.op
      BY <1>1 DEF Message
    <2> QED
      BY <1>6, <1>9, <2>1, <2>2
  <1>11. ASSUME NEW h \in Uncovered' PROVE h \in Uncovered
    <2>1. /\ h \in Handles /\ handles'[h].kind \in Kinds /\ h \notin held[handles'[h].kind]
          /\ ~\E n \in Messages' : Covers(n, h)'
      BY <1>1, <1>11 DEF Uncovered, Leaked, OpenAt
    <2>2. ASSUME handles'[h].kind = handles[h].kind, ~Covers(m, h)
          PROVE  h \in Uncovered
      <3>1. h \in Leaked
        BY <2>1, <2>2, LeakedAt
      <3>2. \A n : Covers(n, h)' <=> Covers(n, h)
        BY <2>2 DEF Covers
      <3> QED
        BY <1>5, <2>1, <2>2, <3>1, <3>2 DEF Uncovered
    <2>3. CASE m.op \in {"open", "opendir"}
      <3>1. ~Covers(m, h)
        BY <1>7, <2>1, <2>3
      <3>2. CASE UNCHANGED handles
        BY <2>2, <3>1, <3>2
      <3>3. CASE /\ m2.val \in Handles /\ srv'.pc = "reply"
                 /\ m2 = [m EXCEPT !.kind = "res", !.val = m2.val]
                 /\ handles' = [handles EXCEPT ![m2.val] = [kind |-> KindOf(m.op), at |-> 0]]
        <4>1. CASE h = m2.val
          <5>1. m2.kind = "res" /\ m2.op = m.op /\ m2 \in Messages'
            BY <1>1, <3>3 DEF Message, Messages
          <5>2. /\ KindOf(m.op) \in Kinds /\ m.op = Opening[KindOf(m.op)]
                /\ handles'[h].kind = KindOf(m.op)
            BY <1>8, <2>3, <3>3, <4>1 DEF KindOf, Kinds, Opening
          <5>3. Covers(m2, h)'
            BY <4>1, <5>1, <5>2 DEF Covers
          <5> QED
            BY <2>1, <5>1, <5>3
        <4>2. CASE h # m2.val
          <5>1. handles'[h] = handles[h]
            BY <1>8, <2>1, <3>3, <4>2
          <5> QED
            BY <2>2, <3>1, <5>1
        <4> QED
          BY <4>1, <4>2
      <3>4. OpensOrCloses(m.op)
        BY <2>3 DEF OpensOrCloses, Opening, Kinds
      <3> QED
        BY <1>9, <2>3, <3>2, <3>3, <3>4
    <2>4. CASE m.op \in {"close", "closedir"}
      <3>1. handles' = IF IsOpen(m) THEN [handles EXCEPT ![m.h] = Free] ELSE handles
        <4>1. OpensOrCloses(m.op)
          BY <2>4 DEF OpensOrCloses, Closing, Kinds
        <4> QED
          BY <1>9, <2>4, <4>1
      <3>2. CASE IsOpen(m)
        <4>1. h # m.h
          BY <1>8, <2>1, <3>1, <3>2 DEF Free, Kinds
        <4>2. handles'[h] = handles[h]
          BY <1>8, <2>1, <3>1, <3>2, <4>1
        <4> QED
          BY <1>7, <2>1, <2>2, <4>1, <4>2
      <3>3. CASE ~IsOpen(m)
        BY <1>7, <2>1, <2>2, <3>1, <3>3
      <3> QED
        BY <3>2, <3>3
    <2>5. CASE m.op \notin {"open", "opendir", "close", "closedir"}
      BY <1>7, <1>9, <2>1, <2>2, <2>5
    <2> QED
      BY <2>3, <2>4, <2>5
  <1>12. Cardinality(Tokens') <= Cardinality(Tokens) /\ Cardinality(Tokens') \in Nat
    <2>1. CASE OpensOrCloses(m.op)
      <3>1. m \in Tokens /\ Tokens' \subseteq (Tokens \ {m}) \cup {m2}
        BY <1>5, <1>10, <2>1 DEF Tokens
      <3>2. IsFiniteSet(Tokens') /\ Cardinality(Tokens') <= Cardinality(Tokens)
        BY <3>1, Finite, Replaced
      <3> QED
        BY <3>2, FS_CardinalityType
    <2>2. CASE ~OpensOrCloses(m.op)
      <3>1. Tokens' \subseteq Tokens
        BY <1>5, <1>10, <2>2 DEF Tokens
      <3> QED
        BY <3>1, Finite, Fewest
    <2> QED
      BY <2>1, <2>2
  <1>13. Cardinality(Uncovered') <= Cardinality(Uncovered) /\ Cardinality(Uncovered') \in Nat
    BY <1>11, Finite, Fewest
  <1> QED
    BY <1>3, <1>12, <1>13, Finite, SMT DEF Balance

LEMMA StepBalance == RfsInv /\ RfsInv' /\ Balance /\ [Next]_vars => Balance'
  <1> SUFFICES ASSUME RfsInv, RfsInv', Balance, [Next]_vars PROVE Balance'
    OBVIOUS
  <1>1. CASE Next
    BY <1>1, StepQuiet, QuietBalance, CallBalance, AcceptBalance, ExecuteBalance DEF RfsInv
  <1>2. CASE UNCHANGED vars
    <2>1. Messages' = Messages /\ Leaked' = Leaked /\ Calls' = Calls
      BY <1>2 DEF vars, history, Messages, Pending, Ahead, Behind, Leaked, OpenAt, Calls
    <2>2. Tokens' = Tokens
      BY <2>1 DEF Tokens
    <2>3. Uncovered' = Uncovered
      BY <1>2, <2>1 DEF vars, Uncovered, Covers
    <2> QED
      BY <2>1, <2>2, <2>3 DEF Balance
  <1> QED
    BY <1>1, <1>2

\* Each descriptor a message takes care of has a message of its own.
LEMMA BalanceSuffices == Types /\ Balance => DescriptorsKnown
  <1> SUFFICES ASSUME Types, Balance PROVE DescriptorsKnown
    OBVIOUS
  <1> DEFINE Covered == Leaked \ Uncovered
             f == [h \in Covered |-> CHOOSE m \in Tokens : Covers(m, h)]
  <1>1. \A h \in Covered : f[h] \in Tokens /\ Covers(f[h], h)
    <2> SUFFICES ASSUME NEW h \in Covered
                 PROVE  \E m \in Tokens : Covers(m, h)
      OBVIOUS
    <2>1. PICK m \in Messages : Covers(m, h)
      BY DEF Uncovered
    <2> QED
      BY <2>1, CoversOne DEF Tokens
  <1>2. f \in [Covered -> Tokens]
    BY <1>1
  <1>3. \A g, h \in Covered : f[g] = f[h] => g = h
    <2> SUFFICES ASSUME NEW g \in Covered, NEW h \in Covered, f[g] = f[h] PROVE g = h
      OBVIOUS
    <2> DEFINE m == f[g]
    <2>1. Covers(m, g) /\ Covers(m, h)
      BY <1>1
    <2> HIDE DEF m, f
    <2> QED
      BY <2>1, CoversOne
  <1>4. f \in Injection(Covered, Tokens)
    BY <1>2, <1>3 DEF Injection, IsInjective
  <1>5. IsFiniteSet(Covered) /\ Cardinality(Covered) <= Cardinality(Tokens)
    BY <1>4, Finite, FS_Injection
  <1>6. IsFiniteSet(Leaked)
    <2>1. Leaked \subseteq Handles
      BY LeakedAt
    <2> QED
      BY <2>1, Finite, FS_Subset
  <1>7. Leaked = Covered \cup Uncovered /\ Covered \cap Uncovered = {}
    BY DEF Uncovered
  <1> HIDE DEF Covered, f
  <1>8. Cardinality(Leaked) = Cardinality(Covered) + Cardinality(Uncovered)
    <2>1. Cardinality(Covered \cup Uncovered)
            = Cardinality(Covered) + Cardinality(Uncovered) - Cardinality(Covered \cap Uncovered)
      BY <1>5, Finite, FS_Union
    <2>2. Cardinality(Covered \cap Uncovered) = 0
      BY <1>7, FS_EmptySet
    <2>3. Cardinality(Covered) \in Nat
      BY <1>5, FS_CardinalityType
    <2> QED
      BY <1>7, <2>1, <2>2, <2>3, Finite, SMT
  <1>9. Cardinality(Leaked) <= Calls
    <2>1. Cardinality(Covered) \in Nat
      BY <1>5, FS_CardinalityType
    <2> QED
      BY <1>5, <1>8, <2>1, Finite, SMT DEF Balance
  <1> QED
    BY <1>9 DEF DescriptorsKnown, Leaked, Calls

\* server_open, server_close: a descriptor the program does not know of is one
\* of a call that failed, or of the one in progress.
THEOREM DescriptorsAccounted == Spec => []DescriptorsKnown
  <1>1. Init => Balance
    BY BalanceInit
  <1>2. RfsInv /\ RfsInv' /\ Balance /\ [Next]_vars => Balance'
    BY StepBalance
  <1>3. RfsInv /\ Balance => DescriptorsKnown
    BY BalanceSuffices DEF RfsInv
  <1> QED
    BY <1>1, <1>2, <1>3, InvariantHolds, PTL DEF Spec
=============================================================================
