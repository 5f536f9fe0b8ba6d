------------------------------ MODULE Xmodem ------------------------------
(***************************************************************************)
(* XMODEM reception (src/xmodem.c) against a sender program on a PC, over  *)
(* a serial line that loses and changes bytes.  The receiver is modelled   *)
(* call by call of xmodem_in_func; what it does between two calls is one   *)
(* step.  A block carries one data byte and one check byte.                *)
(*                                                                         *)
(* Timing: the bytes of one transmission follow each other without a gap,  *)
(* so the receiver times out only between two transmissions or when bytes  *)
(* are missing.  Anything else may be early or late.                       *)
(***************************************************************************)
EXTENDS Naturals, Sequences, SequencesExt

CONSTANTS
    File,           \* the data bytes to transfer, one per block
    BlockMod,       \* 256: block numbers are an unsigned char
    SOH, EOT, CAN,  \* XM_SOH, XM_EOT, XM_CAN
    Check(_),       \* the CRC of a data byte
    Garbled,        \* what a byte changed on the line turns into
    RETRY_LIMIT,    \* XMODEM_RETRY_LIMIT
    INITIAL,        \* XMODEM_INITIAL_BUFFER_SIZE, in blocks
    INCREMENT,      \* XMODEM_INCREMENT_AMMOUNT, in blocks
    SenderTries,    \* how often the sender sends one thing
    MaxFaults       \* bound: bytes lost or changed

Data == {File[i] : i \in 1 .. Len(File)}
Codes == {SOH, EOT, CAN}
BlockBytes == 0 .. BlockMod - 1
Bytes == Codes \cup BlockBytes \cup Data \cup {Check(d) : d \in Data} \cup {Garbled}

ASSUME XmodemAssumption ==
    /\ File \in Seq(Nat) /\ File # <<>> /\ BlockMod \in Nat \ {0, 1}
    /\ SOH # EOT /\ SOH # CAN /\ EOT # CAN
    /\ \A d \in Data : Check(d) \in Nat
    /\ \A d, e \in Data \cup {Garbled} : Check(d) = Check(e) => d = e
    /\ Check(Garbled) # Garbled
    /\ Garbled \notin Codes \cup BlockBytes \cup Data \cup {Check(d) : d \in Data}
    /\ RETRY_LIMIT \in Nat \ {0} /\ INITIAL \in Nat \ {0} /\ INCREMENT \in Nat \ {0}
    /\ SenderTries \in Nat \ {0} /\ MaxFaults \in Nat

VARIABLES
    rx,         \* the locals of xmodem_receive and where it is
    dest,       \* what it has stored
    toRx, toTx, \* bytes on the line
    tx,         \* the sender: what it waits for, its block, its tries
    faults,     \* history: bytes lost or changed
    misaligned  \* history: a byte is missing, or one that starts a block changed

vars == <<rx, dest, toRx, toTx, tx, faults, misaligned>>

Replies == {"C", "ACK", "NAK", "CAN"}
Results == {"ok", "cancelled", "nomem", "exceeded"}

\* A byte on its way to the receiver.  first: it starts a transmission.
Wire == [b : Bytes, first : BOOLEAN]
Burst(bytes) == [i \in 1 .. Len(bytes) |-> [b |-> bytes[i], first |-> i = 1]]

\* packnum ++ on an unsigned char.
NextNum(n) == (n + 1) % BlockMod
Complement(n) == BlockMod - 1 - n

Receivers ==
    [pc : {"top", "open", "record", "flush", "returned"}, starting : BOOLEAN,
     packnum : BlockBytes, retries : 0 .. RETRY_LIMIT, buf : Seq(Bytes), limit : Nat,
     then : Results \cup {"accept", "none"}, result : Results \cup {"none"}]

Senders == [pc : {"wait", "sent", "eot", "done", "failed"},
            block : 1 .. Len(File), tries : 0 .. SenderTries]

TypeOK ==
    /\ rx \in Receivers /\ Len(rx.buf) < 4
    /\ dest \in Seq(Bytes)
    /\ Len(dest) <= rx.limit
    /\ toRx \in Seq(Wire) /\ toTx \in Seq(Replies)
    /\ tx \in Senders
    /\ faults \in 0 .. MaxFaults
    /\ misaligned \in BOOLEAN

Init ==
    /\ rx = [pc |-> "top", starting |-> TRUE, packnum |-> NextNum(0),
             retries |-> RETRY_LIMIT, buf |-> <<>>, limit |-> INITIAL,
             then |-> "none", result |-> "none"]
    /\ dest = <<>>
    /\ toRx = <<>> /\ toTx = <<>>
    /\ tx = [pc |-> "wait", block |-> 1, tries |-> 0]
    /\ faults = 0 /\ misaligned = FALSE

----------------------------------------------------------------------------
(* xmodem_in_func: a byte, or -1 when none arrives in time                 *)

Byte(b) ==
    /\ toRx # <<>>
    /\ b = Head(toRx).b
    /\ toRx' = Tail(toRx)

Timeout ==
    /\ toRx # <<>> => Head(toRx).first
    /\ UNCHANGED toRx

Out(c) == toTx' = Append(toTx, c)
Silent == UNCHANGED toTx

Flush(then) == rx' = [rx EXCEPT !.pc = "flush", !.then = then]
Receiver == UNCHANGED <<tx, faults, misaligned>>

----------------------------------------------------------------------------
(* xmodem_receive                                                          *)

\* while( retries-- ), and the invitation to send with CRCs.
RxTop ==
    /\ rx.pc = "top"
    /\ rx.retries > 0
    /\ rx' = [rx EXCEPT !.pc = "open", !.retries = @ - 1]
    /\ IF rx.starting THEN Out("C") ELSE Silent
    /\ UNCHANGED <<dest, toRx>>
    /\ Receiver

\* Exceeded retry count.
RxExceeded ==
    /\ rx.pc = "top"
    /\ rx.retries = 0
    /\ Flush("exceeded")
    /\ UNCHANGED <<dest, toRx, toTx>>
    /\ Receiver

Again == rx' = [rx EXCEPT !.pc = "top"]

RxNothing ==
    /\ rx.pc = "open"
    /\ \/ Timeout
       \/ \E b \in Bytes \ Codes : Byte(b)
    /\ Again
    /\ UNCHANGED <<dest, toTx>>
    /\ Receiver

RxEot ==
    /\ rx.pc = "open"
    /\ Byte(EOT)
    /\ Out("ACK")
    /\ Flush("ok")
    /\ UNCHANGED dest
    /\ Receiver

RxCan ==
    /\ rx.pc = "open"
    /\ Byte(CAN)
    /\ Out("ACK")
    /\ Flush("cancelled")
    /\ UNCHANGED dest
    /\ Receiver

RxSoh ==
    /\ rx.pc = "open"
    /\ Byte(SOH)
    /\ rx' = [rx EXCEPT !.pc = "record", !.starting = FALSE, !.buf = <<>>]
    /\ UNCHANGED <<dest, toTx>>
    /\ Receiver

\* Wrong variant: any block that came through unchanged is taken.
GoodRecordAnyNumber(num, r) == r[4] = Check(r[3])

\* The checks of xmodem_get_record on number, complement and CRC.
GoodRecord(num, r) ==
    /\ r[1] = num
    /\ r[2] = Complement(num)
    /\ r[4] = Check(r[3])

\* The bytes of xmodem_get_record before the last one.
RxRecordByte ==
    /\ rx.pc = "record"
    /\ Len(rx.buf) < 3
    /\ \E b \in Bytes : Byte(b) /\ rx' = [rx EXCEPT !.buf = Append(@, b)]
    /\ UNCHANGED <<dest, toTx>>
    /\ Receiver

RecordError ==
    /\ rx' = [rx EXCEPT !.pc = "top", !.buf = <<>>]
    /\ Out("NAK")

RxRecordTimeout ==
    /\ rx.pc = "record"
    /\ Timeout
    /\ RecordError
    /\ UNCHANGED dest
    /\ Receiver

RxRecordLast ==
    /\ rx.pc = "record"
    /\ Len(rx.buf) = 3
    /\ \E b \in Bytes :
          /\ Byte(b)
          /\ IF GoodRecord(rx.packnum, Append(rx.buf, b))
             THEN Flush("accept") /\ Silent
             ELSE RecordError
    /\ UNCHANGED dest
    /\ Receiver

\* xmodem_flush: drop what arrives until nothing does.
RxFlushByte ==
    /\ rx.pc = "flush"
    /\ \E b \in Bytes : Byte(b)
    /\ UNCHANGED <<rx, dest, toTx>>
    /\ Receiver

Cancel == toTx' = toTx \o <<"CAN", "CAN", "CAN">>

\* The return statements; XMODEM_FLUSH_AND_XM_CAN after an error of ours.
RxReturn ==
    /\ rx.pc = "flush" /\ rx.then \in Results
    /\ Timeout
    /\ rx' = [rx EXCEPT !.pc = "returned", !.result = rx.then, !.then = "none"]
    /\ IF rx.then \in {"nomem", "exceeded"} THEN Cancel ELSE Silent
    /\ UNCHANGED dest
    /\ Receiver

\* Wrong variant: one block more fits before the buffer grows.
NeedsMoreLate(size, limit) == size > limit

\* size + PXM_ACKET_SIZE > limit
NeedsMore(size, limit) == size + 1 > limit

Accepted == [rx EXCEPT !.retries = RETRY_LIMIT, !.packnum = NextNum(@)]

\* A valid packet, kept: realloc where needed, the acknowledgement, memcpy.
RxAccept ==
    /\ rx.pc = "flush" /\ rx.then = "accept"
    /\ Timeout
    /\ rx' = [Accepted EXCEPT
                !.pc = "top", !.then = "none", !.buf = <<>>,
                !.limit = IF NeedsMore(Len(dest), rx.limit) THEN @ + INCREMENT ELSE @]
    /\ dest' = Append(dest, rx.buf[3])
    /\ Out("ACK")
    /\ Receiver

\* Wrong variant: the acknowledgement goes out before the memory is there.
RxNoMemoryAcked ==
    /\ rx.pc = "flush" /\ rx.then = "accept"
    /\ Timeout
    /\ NeedsMore(Len(dest), rx.limit)
    /\ rx' = [Accepted EXCEPT !.then = "nomem", !.buf = <<>>, !.limit = @ + INCREMENT]
    /\ Out("ACK")
    /\ UNCHANGED dest
    /\ Receiver

\* realloc fails: the packet is neither kept nor acknowledged.
RxNoMemory ==
    /\ rx.pc = "flush" /\ rx.then = "accept"
    /\ Timeout
    /\ NeedsMore(Len(dest), rx.limit)
    /\ rx' = [Accepted EXCEPT !.then = "nomem", !.buf = <<>>, !.limit = @ + INCREMENT]
    /\ UNCHANGED <<dest, toTx>>
    /\ Receiver

xmodem_receive ==
    \/ RxTop \/ RxExceeded \/ RxNothing \/ RxEot \/ RxCan \/ RxSoh
    \/ RxRecordByte \/ RxRecordTimeout \/ RxRecordLast
    \/ RxFlushByte \/ RxReturn \/ RxAccept \/ RxNoMemory

----------------------------------------------------------------------------
(* The sender: a terminal program on the PC                                *)

Sender == UNCHANGED <<rx, dest, faults, misaligned>>

Record(n) ==
    <<SOH, n % BlockMod, Complement(n % BlockMod), File[n], Check(File[n])>>

Transmission(n, pc) == Burst(IF pc = "eot" THEN <<EOT>> ELSE Record(n))

Reply(c) == toTx # <<>> /\ c = Head(toTx) /\ toTx' = Tail(toTx)

TxStart ==
    /\ tx.pc = "wait"
    /\ Reply("C")
    /\ tx' = [tx EXCEPT !.pc = "sent", !.tries = 1]
    /\ toRx' = toRx \o Transmission(1, "sent")
    /\ Sender

\* The next block, or the end of the file.
TxAdvance ==
    /\ tx.pc = "sent"
    /\ Reply("ACK")
    /\ tx' = IF tx.block = Len(File)
             THEN [tx EXCEPT !.pc = "eot", !.tries = 1]
             ELSE [tx EXCEPT !.block = @ + 1, !.tries = 1]
    /\ toRx' = toRx \o Transmission(tx'.block, tx'.pc)
    /\ Sender

TxDone ==
    /\ tx.pc = "eot"
    /\ Reply("ACK")
    /\ tx' = [tx EXCEPT !.pc = "done"]
    /\ UNCHANGED toRx
    /\ Sender

GiveUp ==
    /\ tx' = [tx EXCEPT !.pc = "failed"]
    /\ toRx' = toRx \o Burst(<<CAN>>)

\* A refusal, a late invitation or no answer: the same again.
TxRepeat ==
    /\ tx.pc \in {"sent", "eot"}
    /\ \/ Reply("NAK")
       \/ Reply("C")
       \/ toTx = <<>> /\ UNCHANGED toTx
    /\ IF tx.tries < SenderTries
       THEN /\ tx' = [tx EXCEPT !.tries = @ + 1]
            /\ toRx' = toRx \o Transmission(tx.block, tx.pc)
       ELSE GiveUp
    /\ Sender

\* The receiver cancels, or answers what was not asked.
TxOther ==
    /\ tx.pc \in {"wait", "sent", "eot"}
    /\ \/ Reply("CAN") /\ tx' = [tx EXCEPT !.pc = "failed"]
       \/ tx.pc = "wait" /\ (Reply("NAK") \/ Reply("ACK")) /\ UNCHANGED tx
    /\ UNCHANGED toRx
    /\ Sender

\* The user stops the transfer.
TxCancel ==
    /\ tx.pc \in {"sent", "eot"}
    /\ GiveUp
    /\ UNCHANGED toTx
    /\ Sender

TxNext == TxStart \/ TxAdvance \/ TxDone \/ TxRepeat \/ TxOther \/ TxCancel

----------------------------------------------------------------------------
(* The line                                                                *)

Fault ==
    /\ faults < MaxFaults
    /\ faults' = faults + 1
    /\ UNCHANGED <<rx, dest, tx>>

\* The byte after a lost first one is now the first to arrive.
Without(s, i) ==
    LET t == RemoveAt(s, i)
    IN  IF s[i].first /\ i <= Len(t) THEN [t EXCEPT ![i].first = TRUE] ELSE t

LoseByte ==
    /\ Fault
    /\ \E i \in 1 .. Len(toRx) : toRx' = Without(toRx, i)
    /\ misaligned' = TRUE
    /\ UNCHANGED toTx

GarbleByte ==
    /\ Fault
    /\ \E i \in 1 .. Len(toRx) :
          /\ toRx[i].b # Garbled
          /\ toRx' = [toRx EXCEPT ![i].b = Garbled]
          /\ misaligned' = (misaligned \/ toRx[i].first)
    /\ UNCHANGED toTx

LoseReply ==
    /\ Fault
    /\ \E i \in 1 .. Len(toTx) : toTx' = RemoveAt(toTx, i)
    /\ UNCHANGED <<toRx, misaligned>>

Line == LoseByte \/ GarbleByte \/ LoseReply

----------------------------------------------------------------------------

Next == xmodem_receive \/ TxNext \/ Line

\* The receiver is a loop that runs; every call of xmodem_in_func returns.
Spec == Init /\ [][Next]_vars /\ WF_vars(xmodem_receive)

----------------------------------------------------------------------------
(* Properties                                                              *)

Outcome ==
    CASE rx.result = "none" -> "running"
      [] rx.result = "ok" -> "ok"
      [] OTHER -> "failed"

Abs == INSTANCE Transfer WITH delivered <- dest, outcome <- Outcome

\* Whatever is lost, changed, repeated or late, the blocks stored are those of
\* the file, in order, once each; the call returns; and unless a byte is
\* missing or the first one of a transmission damaged, it returns a size only
\* when the file is complete (xmodem_receive).
ImplementsTransfer == Abs!Spec

Acknowledged == IF tx.pc \in {"eot", "done"} THEN Len(File) ELSE tx.block - 1

\* The sender is never ahead of the receiver: a block it takes for
\* acknowledged is stored, and when it takes the end for acknowledged the
\* receiver has ended with success; under the same condition on noise.
\* (The ACKs of xmodem_receive carry no block number.)
SenderKnows ==
    ~misaligned =>
        /\ Acknowledged <= Len(dest)
        /\ tx.pc = "done" => "ok" \in {rx.then, rx.result}
=============================================================================
