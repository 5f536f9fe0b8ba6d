------------------------------ MODULE Sermux ------------------------------
(***************************************************************************)
(* The serial multiplexer: virtual UARTs of the device (src/common_uart.c) *)
(* and virtual serial ports of the host (mux_src/main.c in "mux" mode)     *)
(* share one serial link.  A byte that selects a service precedes the data *)
(* of that service, data bytes that look like control bytes are escaped,   *)
(* and a side that does not know the service of what it receives asks the  *)
(* other one to repeat the service and the last byte.                      *)
(*                                                                         *)
(* On the device the receive interrupt runs between any two statements of  *)
(* platform_uart_send.  The host is one loop; an iteration is one step.    *)
(* The link neither loses nor changes bytes; either side may restart.      *)
(***************************************************************************)
EXTENDS Naturals, Sequences, SequencesExt

CONSTANTS
    Services,       \* SERMUX_SERVICE_ID_FIRST ..
    ESC,            \* SERMUX_ESCAPE_CHAR
    FORCE,          \* SERMUX_FORCE_SID_CHAR, the byte 0xFF
    Payload,        \* the data bytes the users send
    Xored(_),       \* a byte with its 5th bit flipped
    None,           \* the value -1 of a service ID
    MaxSends,       \* bound: bytes sent by the users of both sides
    MaxRestarts     \* bound: restarts of both sides

Special == Services \cup {ESC, FORCE}
Bytes == Special \cup Payload \cup {Xored(b) : b \in Special \cup Payload}

ASSUME BytesAssumption ==
    /\ ESC # FORCE /\ {ESC, FORCE} \cap Services = {}
    /\ None \notin Bytes
    /\ \A b \in Special : Xored(b) \notin Special
    /\ \A b \in Bytes : Xored(Xored(b)) = b
    /\ MaxSends \in Nat /\ MaxRestarts \in Nat

VARIABLES
    dev,        \* uart_service_id_in, _out, uart_got_esc, uart_last_sent
    pc,         \* the next statement of platform_uart_send, or "idle"
    arg,        \* its arguments
    host,       \* service_id_in, _out, got_esc, prev_sent, running
    toHost, toDev,  \* bytes on the link
    sent,       \* history: what users gave to either side
    taken,      \* history: what the other side handed out
    restarts,   \* history: restarts of either side
    raced       \* history: was a byte repeated during platform_uart_send?

devVars == <<dev, pc, arg>>
vars == <<devVars, host, toHost, toDev, sent, taken, restarts, raced>>

\* A byte on the link.  n is a ghost: the byte belongs to the n-th one sent
\* in its direction, 0 for a control byte.
Wire == [b : Bytes, n : 0 .. MaxSends]
Control(b) == [b |-> b, n |-> 0]

\* uart_last_sent and prev_sent: the bytes to repeat, <<>> for -1, two bytes
\* when SERMUX_ESC_MASK is set.
NothingSent == <<>>

Escaped(b, n) == <<Control(ESC), [b |-> Xored(b), n |-> n]>>
Plain(b, n) == <<[b |-> b, n |-> n]>>

\* What a byte of data looks like on the link.
Encoded(b, n) == IF b \in Special THEN Escaped(b, n) ELSE Plain(b, n)

\* Wrong variant: the service ID -1 has a byte of its own.
SidByteWide(s) == Control(s)

\* The service ID -1 is sent as the byte 0xFF.
SidByte(s) == Control(IF s = None THEN FORCE ELSE s)

\* Wrong variant: the mask of the escape character is not looked at.
RepeatNoEscape(s, last) == <<SidByte(s), last[Len(last)]>>

\* The answer to SERMUX_FORCE_SID_CHAR.
Repeat(s, last) == <<SidByte(s)>> \o last

DevStart == [sid_in |-> None, sid_out |-> None, got_esc |-> FALSE,
             last_sent |-> NothingSent]
HostStart == [sid_in |-> None, sid_out |-> None, got_esc |-> FALSE,
              prev_sent |-> NothingSent, up |-> TRUE]
NoArg == [id |-> None, data |-> None]
Nobody == [host |-> 0, dev |-> 0]

Labels == {"idle", "last", "esc", "xor", "mask", "data", "out"}
Sides == {"host", "dev"}
LastSent == UNION {[1 .. n -> Wire] : n \in 0 .. 2}

TypeOK ==
    /\ dev \in [sid_in : Services \cup {None}, sid_out : Services \cup {None},
                got_esc : BOOLEAN, last_sent : LastSent]
    /\ pc \in Labels
    /\ arg \in [id : Services, data : Payload] \cup {NoArg}
    /\ host \in [sid_in : Services \cup {None}, sid_out : Services \cup {None},
                 got_esc : BOOLEAN, prev_sent : LastSent, up : BOOLEAN]
    /\ toHost \in Seq(Wire) /\ toDev \in Seq(Wire)
    /\ \A s \in Sides : /\ sent[s] \in Seq([s : Services, b : Payload])
                        /\ Len(sent[s]) <= MaxSends
                        /\ taken[s] \in Seq([s : Services, b : Bytes,
                                             n : 0 .. MaxSends])
    /\ restarts \in [Sides -> 0 .. MaxRestarts]
    /\ raced \in BOOLEAN

Init ==
    /\ dev = DevStart /\ pc = "idle" /\ arg = NoArg
    /\ host = HostStart
    /\ toHost = <<>> /\ toDev = <<>>
    /\ sent = [host |-> <<>>, dev |-> <<>>]
    /\ taken = [host |-> <<>>, dev |-> <<>>]
    /\ restarts = Nobody /\ raced = FALSE

MaySend == Len(sent["host"]) + Len(sent["dev"]) < MaxSends

----------------------------------------------------------------------------
(* The device: platform_uart_send                                          *)

\* The service of the user's byte, when it is not the last one used.
SendSid(id, data) ==
    /\ pc = "idle"
    /\ MaySend
    /\ arg' = [id |-> id, data |-> data]
    /\ sent' = [sent EXCEPT !["dev"] = Append(@, [s |-> id, b |-> data])]
    /\ toHost' = IF id = dev.sid_out THEN toHost ELSE Append(toHost, Control(id))
    /\ pc' = "last"
    /\ UNCHANGED <<dev, host, toDev, taken, restarts, raced>>

Now == Len(sent["dev"])

SetLast ==
    /\ pc = "last"
    /\ dev' = [dev EXCEPT !.last_sent = Plain(arg.data, Now)]
    /\ pc' = IF arg.data \in Special THEN "esc" ELSE "data"
    /\ UNCHANGED <<arg, host, toHost, toDev, sent, taken, restarts, raced>>

\* platform_s_uart_send, one byte.
Transmit(label, w, next) ==
    /\ pc = label
    /\ toHost' = Append(toHost, w)
    /\ pc' = next
    /\ UNCHANGED <<dev, arg, host, toDev, sent, taken, restarts, raced>>

SendEsc == Transmit("esc", Control(ESC), "xor")
SendXored == Transmit("xor", [b |-> Xored(arg.data), n |-> Now], "mask")
SendData == Transmit("data", [b |-> arg.data, n |-> Now], "out")

SetMask ==
    /\ pc = "mask"
    /\ dev' = [dev EXCEPT !.last_sent = Escaped(arg.data, Now)]
    /\ pc' = "out"
    /\ UNCHANGED <<arg, host, toHost, toDev, sent, taken, restarts, raced>>

SetOut ==
    /\ pc = "out"
    /\ dev' = [dev EXCEPT !.sid_out = arg.id]
    /\ pc' = "idle" /\ arg' = NoArg
    /\ UNCHANGED <<host, toHost, toDev, sent, taken, restarts, raced>>

platform_uart_send ==
    \/ \E id \in Services, data \in Payload : SendSid(id, data)
    \/ SetLast \/ SendEsc \/ SendXored \/ SetMask \/ SendData \/ SetOut

----------------------------------------------------------------------------
(* The device: cmn_rx_handler, called by the receive interrupt             *)

\* Wrong variant: the escape is not forgotten.
ClearEscNot(s) == s

ClearEsc(s) == [s EXCEPT !.got_esc = FALSE]

\* What is handed out: the service, the byte without its escape, the ghost.
Got(side, w) == [s |-> side.sid_in, n |-> w.n,
                 b |-> IF side.got_esc THEN Xored(w.b) ELSE w.b]

DevRxEsc(w) ==
    /\ w.b = ESC
    /\ dev' = [dev EXCEPT !.got_esc = TRUE]
    /\ UNCHANGED <<toHost, taken, raced>>

DevRxSid(w) ==
    /\ w.b \in Services
    /\ dev' = [dev EXCEPT !.sid_in = w.b]
    /\ UNCHANGED <<toHost, taken, raced>>

DevRxForce(w) ==
    /\ w.b = FORCE /\ dev.last_sent # NothingSent
    /\ toHost' = toHost \o Repeat(dev.sid_out, dev.last_sent)
    /\ dev' = [dev EXCEPT !.last_sent = NothingSent]
    /\ raced' = (raced \/ pc # "idle")
    /\ UNCHANGED taken

\* SERMUX_FORCE_SID_CHAR is data when there is nothing to repeat.
DevData(w) ==
    /\ w.b \notin Services \cup {ESC}
    /\ w.b = FORCE => dev.last_sent = NothingSent
    /\ dev' = ClearEsc(dev)
    /\ UNCHANGED raced

DevRxUnknown(w) ==
    /\ DevData(w)
    /\ dev.sid_in = None
    /\ toHost' = Append(toHost, Control(FORCE))
    /\ UNCHANGED taken

\* buf_write
DevRxData(w) ==
    /\ DevData(w)
    /\ dev.sid_in # None
    /\ taken' = [taken EXCEPT !["dev"] = Append(@, Got(dev, w))]
    /\ UNCHANGED toHost

cmn_rx_handler ==
    /\ toDev # <<>>
    /\ toDev' = Tail(toDev)
    /\ LET w == Head(toDev) IN
           \/ DevRxEsc(w) \/ DevRxSid(w) \/ DevRxForce(w)
           \/ DevRxUnknown(w) \/ DevRxData(w)
    /\ UNCHANGED <<pc, arg, host, sent, restarts>>

----------------------------------------------------------------------------
(* The host: main                                                          *)

HostRxEsc(w) ==
    /\ w.b = ESC
    /\ host' = [host EXCEPT !.got_esc = TRUE]
    /\ UNCHANGED <<toDev, taken>>

HostRxSid(w) ==
    /\ w.b \in Services
    /\ host' = [host EXCEPT !.sid_in = w.b]
    /\ UNCHANGED <<toDev, taken>>

HostRxForce(w) ==
    /\ w.b = FORCE /\ host.prev_sent # NothingSent
    /\ toDev' = toDev \o Repeat(host.sid_out, host.prev_sent)
    /\ host' = [host EXCEPT !.prev_sent = NothingSent]
    /\ UNCHANGED taken

\* "Protocol error": nothing to repeat, or an escape that was not needed.
BadEscape(w) ==
    host.got_esc /\ w.b \notin Special /\ Xored(w.b) \notin Special

HostExit(w) ==
    /\ \/ w.b = FORCE /\ host.prev_sent = NothingSent
       \/ BadEscape(w)
    /\ host' = [host EXCEPT !.up = FALSE]
    /\ UNCHANGED <<toDev, taken>>

HostData(w) ==
    /\ w.b \notin Special
    /\ ~BadEscape(w)
    /\ host' = ClearEsc(host)

HostRxUnknown(w) ==
    /\ HostData(w)
    /\ host.sid_in = None
    /\ toDev' = Append(toDev, Control(FORCE))
    /\ UNCHANGED taken

\* ser_write_byte
HostRxData(w) ==
    /\ HostData(w)
    /\ host.sid_in # None
    /\ taken' = [taken EXCEPT !["host"] = Append(@, Got(host, w))]
    /\ UNCHANGED toDev

HostReceive ==
    /\ host.up
    /\ toHost # <<>>
    /\ toHost' = Tail(toHost)
    /\ LET w == Head(toHost) IN
           \/ HostRxEsc(w) \/ HostRxSid(w) \/ HostRxForce(w) \/ HostExit(w)
           \/ HostRxUnknown(w) \/ HostRxData(w)
    /\ UNCHANGED <<devVars, sent, restarts, raced>>

\* Wrong variant: the service is repeated only when it is not known at all.
SidNeededOnce(id) == host.sid_out = None

SidNeeded(id) == id # host.sid_out

\* A byte arrived on the virtual port of service `id'.
HostSend(id, c) ==
    /\ host.up
    /\ MaySend
    /\ sent' = [sent EXCEPT !["host"] = Append(@, [s |-> id, b |-> c])]
    /\ LET code == Encoded(c, Len(sent'["host"])) IN
           /\ toDev' = toDev
                       \o (IF SidNeeded(id) THEN <<Control(id)>> ELSE <<>>)
                       \o code
           /\ host' = [host EXCEPT !.prev_sent = code, !.sid_out = id]
    /\ UNCHANGED <<devVars, toHost, taken, restarts, raced>>

----------------------------------------------------------------------------
(* Restarts                                                                *)

Restart(side) ==
    /\ restarts["host"] + restarts["dev"] < MaxRestarts
    /\ restarts' = [restarts EXCEPT ![side] = @ + 1]

\* The board is reset, between any two statements.  What has not left its UART
\* is sent; the first bytes that arrive while it boots are lost.
DevRestart ==
    /\ Restart("dev")
    /\ dev' = DevStart /\ pc' = "idle" /\ arg' = NoArg
    /\ \E k \in 1 .. Len(toDev) + 1 : toDev' = SubSeq(toDev, k, Len(toDev))
    /\ UNCHANGED <<host, toHost, sent, taken, raced>>

\* The multiplexer is started again, after it has given up or was stopped
\* between two iterations.  What arrives before it opens the port is lost.
HostRestart ==
    /\ Restart("host")
    /\ host' = HostStart
    /\ \E k \in 1 .. Len(toHost) + 1 : toHost' = SubSeq(toHost, k, Len(toHost))
    /\ UNCHANGED <<devVars, toDev, sent, taken, raced>>

Next ==
    \/ platform_uart_send
    \/ cmn_rx_handler
    \/ HostReceive
    \/ \E id \in Services, c \in Payload : HostSend(id, c)
    \/ DevRestart
    \/ HostRestart

Spec == Init /\ [][Next]_vars

----------------------------------------------------------------------------
(* Properties                                                              *)

NoRestart == restarts = Nobody
Quiet == pc = "idle" /\ toHost = <<>> /\ toDev = <<>>

User(t) == [s |-> t.s, b |-> t.b]
AsSent(ts) == [i \in DOMAIN ts |-> User(ts[i])]

\* As long as neither side restarts, each direction is a FIFO: every byte is
\* handed out on the service it was sent on, once and in order, whatever its
\* value and whatever the interrupt interrupts; and the host keeps running.
InOrder ==
    NoRestart =>
        /\ host.up
        /\ IsPrefix(AsSent(taken["dev"]), sent["host"])
        /\ IsPrefix(AsSent(taken["host"]), sent["dev"])
        /\ Quiet => /\ Len(taken["dev"]) = Len(sent["host"])
                    /\ Len(taken["host"]) = Len(sent["dev"])

\* Each byte of `ts' is one of `us', on its service; the bytes keep their
\* order, and none is there more than twice.
Genuine(ts, us) ==
    /\ \A i \in 1 .. Len(ts) : ts[i].n # 0 /\ User(ts[i]) = us[ts[i].n]
    /\ \A i, j \in 1 .. Len(ts) : i < j => ts[i].n <= ts[j].n
    /\ \A i \in 1 .. Len(ts) - 2 : ts[i].n # ts[i + 2].n

\* The board may be reset at any time, in the middle of an escape sequence
\* too: what it then takes for data was sent to that service.  Bytes may be
\* lost, and the last one repeated once, but never changed or misdirected.
\* The same goes for the host, unless its request to repeat interrupted
\* platform_uart_send.
RestartKeepsData ==
    /\ restarts["host"] = 0 => Genuine(taken["dev"], sent["host"])
    /\ restarts["dev"] = 0 /\ ~raced => Genuine(taken["host"], sent["dev"])

\* When nothing is under way, the two sides agree on the service in use, after
\* any number of restarts, with the same exception.
AgreeWhenQuiet ==
    Quiet =>
        /\ dev.sid_in = None \/ host.sid_out = None \/ dev.sid_in = host.sid_out
        /\ ~raced => \/ host.sid_in = None \/ dev.sid_out = None
                     \/ ~host.up \/ host.sid_in = dev.sid_out
=============================================================================
