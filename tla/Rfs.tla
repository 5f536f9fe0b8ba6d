-------------------------------- MODULE Rfs --------------------------------
(***************************************************************************)
(* The remote file system over a serial line: the calls of the board       *)
(* (src/remotefs/elua_rfs.c, client.c) and the server on the PC            *)
(* (rfs_server_src/server.c, rfs_transports.c).                            *)
(*                                                                         *)
(* A packet is two symbols: its first byte, which says that a size         *)
(* follows, and the rest.  Either can be lost.  The client sends one       *)
(* request at a time and gives up when nothing arrives in time; the        *)
(* server has no timeout.  Packets carry no number: seq is a ghost.        *)
(***************************************************************************)
EXTENDS Naturals, Sequences, SequencesExt, FiniteSets, FiniteSetsExt

CONSTANTS
    MaxHandles,     \* bound: descriptors the server's OS has for us
    MaxEntries,     \* entries of the directory
    MaxChunks,      \* bound: RFS_REAL_BUFFER_SIZEs in one read or write
    MaxRequests,    \* bound: requests of the client
    MaxLost,        \* bound: symbols lost on the line
    MaxRestarts     \* bound: restarts of the server

ASSUME RfsAssumption ==
    /\ MaxHandles \in Nat \ {0} /\ MaxChunks \in Nat \ {0}
    /\ {MaxEntries, MaxRequests, MaxLost, MaxRestarts} \subseteq Nat

VARIABLES
    cli,        \* the call in progress: where it is and its arguments
    held,       \* what the Lua program has open, by kind
    srv,        \* the server: where it is and rfs_buffer
    handles,    \* the server's descriptors and directory streams
    file,       \* the file: the numbers of the requests that wrote its chunks
    toSrv, toCli,
    lost, restarts,     \* histories: faults so far
    late,       \* history: did a call give up whose request was alive, and
                \* has not everything been over since when a call started?
    accepted,   \* history: the last answer: <<call, request it answers>>
    stored,     \* history: requests rfs_write_r counted as written
    failed      \* history: opening and closing calls that failed

vars == <<cli, held, srv, handles, file, toSrv, toCli, lost, restarts, late,
          accepted, stored, failed>>
faultVars == <<lost, restarts>>
history == <<late, accepted, stored, failed>>

\* What RFS_OP_... acts on.
Kinds == {"file", "dir"}
Opening == [file |-> "open", dir |-> "opendir"]
Closing == [file |-> "close", dir |-> "closedir"]
Stepping == [file |-> "read", dir |-> "readdir"]
Ops == {"open", "write", "read", "close", "lseek", "opendir", "readdir", "closedir"}
OpensOrCloses(op) == op \in {Opening[k] : k \in Kinds} \cup {Closing[k] : k \in Kinds}
KindOf(op) == IF op \in {"opendir", "readdir", "closedir"} THEN "dir" ELSE "file"

Handles == 1 .. MaxHandles
None == 0               \* -1 of a descriptor, 0 of a directory stream
Free == [kind |-> "free", at |-> 0]
Seqs == 0 .. MaxRequests

\* kind: a request, a response, or neither.  val: what the response returns.
Message == [kind : {"req", "res", "bad"}, op : Ops, seq : Seqs, h : Handles \cup {None},
            val : Nat]
Symbol == [k : {"size", "body"}, m : Message]
Packet(m) == <<[k |-> "size", m |-> m], [k |-> "body", m |-> m]>>

NoMessage == [kind |-> "bad", op |-> "open", seq |-> 0, h |-> None, val |-> 0]
Idle == [pc |-> "idle", op |-> "open", h |-> None, seq |-> 0, todo |-> 0, clobbered |-> FALSE]

TypeOK ==
    /\ cli \in [pc : {"idle", "flush", "header", "body"}, op : Ops,
                h : Handles \cup {None}, seq : Seqs, todo : 0 .. MaxChunks,
                clobbered : BOOLEAN]
    /\ cli.pc # "idle" => cli.todo > 0
    /\ held \in [Kinds -> SUBSET Handles]
    /\ srv \in [pc : {"header", "flush", "body", "reply", "down"}, m : Message]
    /\ handles \in [Handles -> [kind : Kinds \cup {"free"}, at : Seqs]]
    /\ file \in Seq(Seqs)
    /\ toSrv \in Seq(Symbol) /\ toCli \in Seq(Symbol)
    /\ lost \in 0 .. MaxLost /\ restarts \in 0 .. MaxRestarts
    /\ late \in BOOLEAN
    /\ accepted \in Seqs \X Seqs
    /\ stored \in Seq(Seqs)
    /\ failed \in Seqs

Init ==
    /\ cli = Idle
    /\ held = [k \in Kinds |-> {}]
    /\ srv = [pc |-> "header", m |-> NoMessage]
    /\ handles = [h \in Handles |-> Free]
    /\ file = <<>>
    /\ toSrv = <<>> /\ toCli = <<>>
    /\ lost = 0 /\ restarts = 0
    /\ late = FALSE /\ accepted = <<0, 0>> /\ stored = <<>> /\ failed = 0

----------------------------------------------------------------------------
(* The client: rfs_..._r and rfsc_...                                      *)

ServerSide == UNCHANGED <<srv, handles, file, faultVars>>

\* Is a request, or the answer to it, still to be read by the other side?
Alive(seqs, line) ==
    \/ \E w \in Range(toSrv) \cup Range(line) : w.k = "body" /\ w.m.seq \in seqs
    \/ srv.pc = "reply" /\ srv.m.seq \in seqs

\* The request is in rfsc_buffer; rfsch_send_request_read_response starts.
Request(op, h, todo) ==
    cli' = [pc |-> "flush", op |-> op, h |-> h, seq |-> cli.seq + 1, todo |-> todo,
            clobbered |-> FALSE]

\* A call that starts when all that went before is over starts afresh.
Afresh == late' = (late /\ Alive(Seqs, toCli))

MayCall == cli.pc = "idle" /\ cli.seq < MaxRequests

Open(kind) ==
    /\ MayCall
    /\ Request(Opening[kind], None, 1)
    /\ Afresh
    /\ UNCHANGED <<held, toSrv, toCli, accepted, stored, failed>>
    /\ ServerSide

\* The descriptor is gone for the program whatever the call returns.
Close(kind, h) ==
    /\ MayCall
    /\ h \in held[kind]
    /\ Request(Closing[kind], h, 1)
    /\ held' = [held EXCEPT ![kind] = @ \ {h}]
    /\ Afresh
    /\ UNCHANGED <<toSrv, toCli, accepted, stored, failed>>
    /\ ServerSide

Readdir(h) ==
    /\ MayCall
    /\ h \in held["dir"]
    /\ Request("readdir", h, 1)
    /\ Afresh
    /\ UNCHANGED <<held, toSrv, toCli, accepted, stored, failed>>
    /\ ServerSide

Seek(h) ==
    /\ MayCall
    /\ h \in held["file"]
    /\ Request("lseek", h, 1)
    /\ Afresh
    /\ UNCHANGED <<held, toSrv, toCli, accepted, stored, failed>>
    /\ ServerSide

\* rfs_write_r and rfs_read_r: a request per chunk.
Transfer(op, h, chunks) ==
    /\ MayCall
    /\ h \in held["file"]
    /\ cli.seq + chunks <= MaxRequests
    /\ Request(op, h, chunks)
    /\ stored' = <<>>
    /\ Afresh
    /\ UNCHANGED <<held, toSrv, toCli, accepted, failed>>
    /\ ServerSide

Call ==
    \/ \E kind \in Kinds : Open(kind) \/ \E h \in Handles : Close(kind, h)
    \/ \E h \in Handles : \/ Readdir(h) \/ Seek(h)
                          \/ \E n \in 1 .. MaxChunks, op \in {"read", "write"} :
                                Transfer(op, h, n)

\* Empty receive buffer.  The byte goes where the first byte of the request is.
FlushByte ==
    /\ cli.pc = "flush"
    /\ toCli # <<>>
    /\ cli' = [cli EXCEPT !.clobbered = Head(toCli).k # "size"]
    /\ toCli' = Tail(toCli)
    /\ UNCHANGED <<held, toSrv, history>>
    /\ ServerSide

\* CLIENT_ERR: the call returns, the chunks counted so far are the result.
Fail(line) ==
    /\ cli' = [cli EXCEPT !.pc = "idle"]
    /\ late' = (late \/ Alive({cli.seq}, line))
    /\ failed' = IF OpensOrCloses(cli.op) THEN failed + 1 ELSE failed

\* Nothing more has arrived: send, unless the request has been spoilt.
SendRequest ==
    /\ cli.pc = "flush"
    /\ IF cli.clobbered
       THEN Fail(toCli) /\ UNCHANGED toSrv
       ELSE /\ cli' = [cli EXCEPT !.pc = "header"]
            /\ toSrv' = toSrv \o Packet([kind |-> "req", op |-> cli.op, seq |-> cli.seq,
                                         h |-> cli.h, val |-> 0])
            /\ UNCHANGED <<failed, late>>
    /\ UNCHANGED <<held, toCli, accepted, stored>>
    /\ ServerSide

RecvHeader ==
    /\ cli.pc = "header"
    /\ toCli # <<>>
    /\ IF Head(toCli).k = "size"
       THEN cli' = [cli EXCEPT !.pc = "body"] /\ UNCHANGED <<failed, late>>
       ELSE Fail(Tail(toCli))
    /\ toCli' = Tail(toCli)
    /\ UNCHANGED <<held, toSrv, accepted, stored>>
    /\ ServerSide

\* remotefs_..._read_response: a response, and to this operation.
ReadResponse(s) == s.k = "body" /\ s.m.kind = "res" /\ s.m.op = cli.op

\* Wrong variant: one request too many.
ContinueOneMore(val) ==
    cli' = IF cli.op \in {"read", "write"} /\ val > 0 /\ cli.todo > 0
           THEN [cli EXCEPT !.pc = "flush", !.seq = @ + 1, !.todo = @ - 1,
                            !.clobbered = FALSE]
           ELSE [cli EXCEPT !.pc = "idle"]

\* The next chunk, unless this was the last one or a short one.
Continue(val) ==
    cli' = IF cli.op \in {"read", "write"} /\ val > 0 /\ cli.todo > 1
           THEN [cli EXCEPT !.pc = "flush", !.seq = @ + 1, !.todo = @ - 1,
                            !.clobbered = FALSE]
           ELSE [cli EXCEPT !.pc = "idle"]

\* Wrong variant: what was asked for is counted, not what the server wrote.
CountedAsked(m) == IF cli.op = "write" THEN Append(stored, cli.seq) ELSE stored

\* total += res
Counted(m) == IF cli.op = "write" /\ m.val > 0 THEN Append(stored, cli.seq) ELSE stored

Accept(m) ==
    /\ Continue(m.val)
    /\ accepted' = <<cli.seq, m.seq>>
    /\ stored' = Counted(m)
    /\ held' = IF cli.op = Opening[KindOf(cli.op)] /\ m.val # None
               THEN [held EXCEPT ![KindOf(cli.op)] = @ \cup {m.val}] ELSE held
    /\ UNCHANGED <<failed, late>>

RecvBody ==
    /\ cli.pc = "body"
    /\ toCli # <<>>
    /\ IF ReadResponse(Head(toCli))
       THEN Accept(Head(toCli).m)
       ELSE Fail(Tail(toCli)) /\ UNCHANGED <<accepted, stored, held>>
    /\ toCli' = Tail(toCli)
    /\ UNCHANGED toSrv
    /\ ServerSide

RecvTimeout ==
    /\ cli.pc \in {"header", "body"}
    /\ Fail(toCli)
    /\ UNCHANGED <<held, toSrv, toCli, accepted, stored>>
    /\ ServerSide

Client == Call \/ FlushByte \/ SendRequest \/ RecvHeader \/ RecvBody \/ RecvTimeout

----------------------------------------------------------------------------
(* The server                                                              *)

ClientSide == UNCHANGED <<cli, held, history>>

\* ser_read_request_packet: first the length.
SrvHeader ==
    /\ srv.pc = "header"
    /\ toSrv # <<>>
    /\ srv' = [pc |-> IF Head(toSrv).k = "size" THEN "body" ELSE "flush",
               m |-> Head(toSrv).m]
    /\ toSrv' = Tail(toSrv)
    /\ UNCHANGED <<handles, file, toCli, faultVars>>
    /\ ClientSide

\* flush_serial: drops what has arrived.
SrvFlush ==
    /\ srv.pc = "flush"
    /\ \/ toSrv # <<>> /\ toSrv' = Tail(toSrv) /\ UNCHANGED srv
       \/ srv' = [srv EXCEPT !.pc = "header"] /\ UNCHANGED toSrv
    /\ UNCHANGED <<handles, file, toCli, faultVars>>
    /\ ClientSide

Reply(m, val) ==
    srv' = [pc |-> "reply", m |-> [m EXCEPT !.kind = "res", !.val = val]]

IsOpen(m) == m.h # None /\ handles[m.h].kind = KindOf(m.op)

ServerOpen(m) ==
    \/ /\ \E h \in Handles : handles[h] = Free
       /\ LET h == Min({x \in Handles : handles[x] = Free})
          IN  /\ handles' = [handles EXCEPT ![h] = [kind |-> KindOf(m.op), at |-> 0]]
              /\ Reply(m, h)
       /\ UNCHANGED file
    \/ Reply(m, None) /\ UNCHANGED <<handles, file>>

\* Wrong variant: a directory stream stays open.
ServerCloseFiles(m) ==
    /\ handles' = IF IsOpen(m) /\ m.op = "close" THEN [handles EXCEPT ![m.h] = Free] ELSE handles
    /\ Reply(m, IF m.op = "closedir" THEN m.h ELSE 0)
    /\ UNCHANGED file

\* server_closedir answers with the stream, not with what os_closedir returns.
ServerClose(m) ==
    /\ handles' = IF IsOpen(m) THEN [handles EXCEPT ![m.h] = Free] ELSE handles
    /\ Reply(m, IF m.op = "closedir" THEN m.h ELSE 0)
    /\ UNCHANGED file

WriteAt(f, at, c) == IF at < Len(f) THEN [f EXCEPT ![at + 1] = c] ELSE Append(f, c)

\* The whole chunk is written, or nothing: no descriptor, no space.
ServerWrite(m) ==
    \/ /\ IsOpen(m)
       /\ file' = WriteAt(file, handles[m.h].at, m.seq)
       /\ handles' = [handles EXCEPT ![m.h].at = @ + 1]
       /\ Reply(m, 1)
    \/ Reply(m, 0) /\ UNCHANGED <<handles, file>>

\* os_read without a descriptor: the size is -1 and the response has no shape.
ServerRead(m) ==
    /\ IF IsOpen(m)
       THEN IF handles[m.h].at < Len(file)
            THEN Reply(m, 1) /\ handles' = [handles EXCEPT ![m.h].at = @ + 1]
            ELSE Reply(m, 0) /\ UNCHANGED handles
       ELSE srv' = [pc |-> "reply", m |-> [m EXCEPT !.kind = "bad"]] /\ UNCHANGED handles
    /\ UNCHANGED file

\* A stream that is not open is a stray pointer: no name, or the end of the server.
ServerReaddir(m) ==
    /\ \/ /\ IsOpen(m) /\ handles[m.h].at < MaxEntries
          /\ Reply(m, 1)
          /\ handles' = [handles EXCEPT ![m.h].at = @ + 1]
       \/ /\ IsOpen(m) => handles[m.h].at = MaxEntries
          /\ Reply(m, 0) /\ UNCHANGED handles
       \/ ~IsOpen(m) /\ srv' = [srv EXCEPT !.pc = "down"] /\ UNCHANGED handles
    /\ UNCHANGED file

ServerSeek(m) ==
    /\ handles' = IF IsOpen(m) THEN [handles EXCEPT ![m.h].at = 0] ELSE handles
    /\ Reply(m, 0)
    /\ UNCHANGED file

\* server_execute_request
Execute(m) ==
    \/ m.op \in {"open", "opendir"} /\ ServerOpen(m)
    \/ m.op \in {"close", "closedir"} /\ ServerClose(m)
    \/ m.op = "write" /\ ServerWrite(m)
    \/ m.op = "read" /\ ServerRead(m)
    \/ m.op = "readdir" /\ ServerReaddir(m)
    \/ m.op = "lseek" /\ ServerSeek(m)

\* A packet put together from two is not executed, and rfs_buffer still holds
\* it when the response is sent.
NotExecuted == srv' = [srv EXCEPT !.pc = "reply"] /\ UNCHANGED <<handles, file>>

\* Wrong variant: the end of the packet is not looked at.
RequestNoEnd(s) == IF s.k = "body" THEN Execute(s.m) ELSE Execute(srv.m)

\* remotefs_..._read_request and the handler.
ServerRequest(s) == IF s.k = "body" THEN Execute(s.m) ELSE NotExecuted

\* The rest of the packet.
SrvBody ==
    /\ srv.pc = "body"
    /\ toSrv # <<>>
    /\ ServerRequest(Head(toSrv))
    /\ toSrv' = Tail(toSrv)
    /\ UNCHANGED <<toCli, faultVars>>
    /\ ClientSide

SrvReply ==
    /\ srv.pc = "reply"
    /\ toCli' = toCli \o Packet(srv.m)
    /\ srv' = [srv EXCEPT !.pc = "header"]
    /\ UNCHANGED <<handles, file, toSrv, faultVars>>
    /\ ClientSide

\* The program is killed and started again; what has arrived is flushed.
SrvRestart ==
    /\ restarts < MaxRestarts
    /\ restarts' = restarts + 1
    /\ srv' = [pc |-> "header", m |-> NoMessage]
    /\ handles' = [h \in Handles |-> Free]
    /\ \E n \in 0 .. Len(toSrv) : toSrv' = SubSeq(toSrv, n + 1, Len(toSrv))
    /\ UNCHANGED <<file, toCli, lost>>
    /\ ClientSide

Server == SrvHeader \/ SrvFlush \/ SrvBody \/ SrvReply

----------------------------------------------------------------------------

Lose ==
    /\ lost < MaxLost
    /\ lost' = lost + 1
    /\ \/ /\ \E i \in 1 .. Len(toSrv) : toSrv' = RemoveAt(toSrv, i)
          /\ UNCHANGED toCli
       \/ /\ \E i \in 1 .. Len(toCli) : toCli' = RemoveAt(toCli, i)
          /\ UNCHANGED toSrv
    /\ UNCHANGED <<srv, handles, file, restarts>>
    /\ ClientSide

Next == Client \/ Server \/ SrvRestart \/ Lose

Spec == Init /\ [][Next]_vars

----------------------------------------------------------------------------
(* Properties                                                              *)

\* An answer is taken for a request of the same or an earlier call, each at
\* most once and in the order of the requests, whatever is lost and however
\* often the server restarts.  It is taken for the request it answers, unless a
\* call has given up, on silence or on a damaged answer, while its request was
\* alive; and that is forgotten once a call has started with nothing of the
\* past under way (rfsch_send_request_read_response).
AnswerIsOwn ==
    [][accepted' # accepted =>
           /\ accepted[2] < accepted'[2] /\ accepted'[2] <= accepted'[1]
           /\ ~late => accepted'[2] = accepted'[1]]_vars

\* What rfs_write_r has counted as written so far is in the file, in one
\* piece, unless a call has given up on a live request.
CountedIsStored ==
    stored # <<>> /\ cli.op = "write" /\ ~late =>
        \E i \in 0 .. Len(file) - Len(stored) :
            SubSeq(file, i + 1, i + Len(stored)) = stored

OpenAt(kind) == {h \in Handles : handles[h].kind = kind}

\* The server has no descriptor the program does not know of, but for one per
\* opening or closing call that failed or is in progress (server_open,
\* server_close, rfsc_open, rfsc_close).
DescriptorsKnown ==
    Cardinality(UNION {OpenAt(k) \ held[k] : k \in Kinds})
        <= failed + (IF cli.pc # "idle" /\ OpensOrCloses(cli.op) THEN 1 ELSE 0)
=============================================================================
