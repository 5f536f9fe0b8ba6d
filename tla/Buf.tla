-------------------------------- MODULE Buf --------------------------------
(***************************************************************************)
(* The "char device" buffers of src/buf.c, one descriptor: a ring that the *)
(* receive interrupt of the device fills (cmn_uart_rx_inthandler in        *)
(* src/common_uart.c, the end-of-conversion interrupt for an ADC channel)  *)
(* and the main program reads, resizes and flushes.  The interrupt runs    *)
(* between any two statements of the main program; the main program does   *)
(* not run during an interrupt, so buf_write is one step.                  *)
(***************************************************************************)
EXTENDS Naturals, Sequences

CONSTANTS
    Sizes,      \* the buffer sizes in use (in elements)
    Data,       \* what can be received
    Junk,       \* uninitialised memory
    Devices     \* what the buffer may belong to: a UART, a virtual UART of the
                \* serial multiplexer, an ADC channel

\* The code's sizes are powers of two up to 2^15.
ASSUME SizesAssumption ==
    /\ Sizes \subseteq Nat \ {0}
    /\ \E s \in Sizes : \A r \in Sizes : r <= s
ASSUME JunkAssumption == Junk \notin Data
ASSUME DevicesAssumption == Devices \subseteq {"uart", "vuart", "adc"}

VARIABLES
    dev,        \* what it belongs to
    size,       \* BUF_REALSIZE, or 0 when logsize is BUF_SIZE_NONE
    cap,        \* how many elements `buf' points to, 0 for NULL
    mem,        \* the memory at `buf'
    wptr, rptr, count,
    listening,  \* the receive interrupt is enabled, the channel is active
    pc,         \* where the main program is in a buffer function
    req,        \* the argument of buf_set
    data,       \* the element buf_read has copied
    unread,     \* history: what buf_write accepted and buf_read did not count
    resized,    \* history: was buf_set called for an allocated buffer, and
                \* buf_flush not since?
    torn        \* history: did an element arrive inside buf_set, or between the
                \* first two stores of buf_flush, and no flush since?

bufVars == <<size, cap, mem, wptr, rptr, count, listening>>
mainVars == <<dev, pc, req, data>>
histVars == <<unread, resized, torn>>
vars == <<bufVars, mainVars, histVars>>

\* BUF_SIZE_NONE
NONE == 0
MaxSize == CHOOSE s \in Sizes : \A r \in Sizes : r <= s
Cells == 0 .. MaxSize - 1

\* "idle": in none of them; the others name the next statement.
Labels == {"idle", "count", "rptr", "realloc", "none", "zero",
           "count0", "wptr0", "rptr0"}

TypeOK ==
    /\ dev \in Devices
    /\ size \in Sizes \cup {NONE}
    /\ cap \in Sizes \cup {0, 1}
    /\ mem \in [Cells -> Data \cup {Junk}]
    /\ wptr \in Cells /\ rptr \in Cells
    /\ count \in Nat
    /\ listening \in BOOLEAN
    /\ pc \in Labels
    /\ req \in Sizes \cup {NONE}
    /\ data \in Data \cup {Junk}
    /\ unread \in Seq(Data)
    /\ resized \in BOOLEAN /\ torn \in BOOLEAN

\* The bytes of a virtual UART arrive from the start, in the interrupt of the
\* physical one.
Init ==
    /\ dev \in Devices
    /\ size = NONE /\ cap = 0
    /\ mem = [i \in Cells |-> Junk]
    /\ wptr = 0 /\ rptr = 0 /\ count = 0
    /\ listening = (dev = "vuart")
    /\ pc = "idle" /\ req = NONE /\ data = Junk
    /\ unread = <<>> /\ resized = FALSE /\ torn = FALSE

\* Wrong variant: the mask forgotten.
ModIncrUnmasked(p) == p + 1

\* BUF_MOD_INCR
ModIncr(p) == (p + 1) % size

----------------------------------------------------------------------------
(* The interrupt                                                           *)

\* Wrong variant: the overflow test is gone.
RoomAlways == TRUE

\* The negation of the overflow test, count > BUF_REALSIZE.
Room == count <= size

\* Nothing is received while the buffer is disabled.  With a full buffer the
\* element is dropped and buf_write returns PLATFORM_ERR.  A write beyond the
\* allocated memory goes somewhere else.  (torn) There is no memory yet, or no
\* longer, in buf_set; in buf_flush the pointer just advanced is reset, the count
\* is not.
buf_write(d) ==
    /\ listening
    /\ size # NONE
    /\ Room
    /\ mem' = IF wptr < cap THEN [mem EXCEPT ![wptr] = d] ELSE mem
    /\ wptr' = ModIncr(wptr)
    /\ count' = count + 1
    /\ unread' = Append(unread, d)
    /\ torn' = (torn \/ pc \in {"realloc", "none", "wptr0"})
    /\ UNCHANGED <<size, cap, rptr, listening, mainVars, resized>>

----------------------------------------------------------------------------
(* buf_read                                                                *)

\* Wrong variant: the element is copied from the write pointer.
ReadCopyWptr ==
    /\ pc = "idle"
    /\ size # NONE /\ count # 0
    /\ data' = mem[wptr]
    /\ pc' = "count"
    /\ UNCHANGED <<bufVars, dev, req, histVars>>

ReadCopy ==
    /\ pc = "idle"
    /\ size # NONE /\ count # 0
    /\ data' = mem[rptr]
    /\ pc' = "count"
    /\ UNCHANGED <<bufVars, dev, req, histVars>>

\* Interrupts are disabled around the decrement.
ReadCount ==
    /\ pc = "count"
    /\ count' = count - 1
    /\ unread' = Tail(unread)
    /\ pc' = "rptr"
    /\ UNCHANGED <<dev, size, cap, mem, wptr, rptr, req, data, listening,
                   resized, torn>>

\* Wrong variant: the read pointer is not advanced.
ReadAdvanceNot ==
    /\ pc = "rptr"
    /\ pc' = "idle" /\ data' = Junk
    /\ UNCHANGED <<bufVars, dev, req, histVars>>

ReadAdvance ==
    /\ pc = "rptr"
    /\ rptr' = ModIncr(rptr)
    /\ pc' = "idle" /\ data' = Junk
    /\ UNCHANGED <<dev, size, cap, mem, wptr, count, req, histVars, listening>>

----------------------------------------------------------------------------
(* buf_set                                                                 *)

\* The new size is in force before the memory is.  Only a physical UART can do
\* without a buffer, and only an ADC channel has one of a single element, whose
\* logsize is not that of BUF_SIZE_NONE because its elements have two bytes;
\* adc_setup_channel only asks for a size the buffer does not have.
SetSize(n) ==
    /\ pc = "idle"
    /\ n = NONE => dev = "uart"
    /\ n = 1 => dev = "adc"
    /\ dev = "adc" => n # size
    /\ req' = n /\ size' = n
    /\ resized' = (resized \/ cap # 0)
    /\ pc' = "realloc"
    /\ UNCHANGED <<dev, cap, mem, wptr, rptr, count, data, unread, torn,
                   listening>>

\* realloc keeps what fits; for BUF_SIZE_NONE it is asked for one byte.  The
\* pointers and the count stay as they are.  platform_uart_set_buffer then
\* enables the receive interrupt; adc_setup_channel flushes the buffer.
ReallocOk ==
    /\ pc = "realloc"
    /\ cap' = IF req = NONE THEN 1 ELSE req
    /\ mem' = [i \in Cells |-> IF i < cap' THEN mem[i] ELSE Junk]
    /\ listening' = (listening \/ (dev = "uart" /\ req # NONE))
    /\ pc' = (IF dev = "adc" THEN "count0" ELSE "idle") /\ req' = NONE
    /\ UNCHANGED <<dev, size, wptr, rptr, count, data, histVars>>

ReallocFail ==
    /\ pc = "realloc"
    /\ cap' = 0
    /\ mem' = [i \in Cells |-> Junk]
    /\ pc' = "none"
    /\ UNCHANGED <<dev, size, wptr, rptr, count, req, data, histVars, listening>>

\* Wrong variant: the buffer is not disabled.
FailNoneForgotten ==
    /\ pc = "none"
    /\ pc' = "zero"
    /\ UNCHANGED <<bufVars, dev, req, data, histVars>>

FailNone ==
    /\ pc = "none"
    /\ size' = NONE
    /\ pc' = "zero"
    /\ UNCHANGED <<dev, cap, mem, wptr, rptr, count, req, data, histVars, listening>>

\* The buffer is disabled by now, so the interrupt does not see the difference
\* between the three assignments, nor a flush that follows (buf_set reports no
\* error for a size whose logarithm is that of BUF_SIZE_NONE).
FailZero ==
    /\ pc = "zero"
    /\ rptr' = 0 /\ wptr' = 0 /\ count' = 0
    /\ unread' = <<>>
    /\ resized' = FALSE /\ torn' = FALSE
    /\ pc' = "idle" /\ req' = NONE
    /\ UNCHANGED <<dev, size, cap, mem, data, listening>>

----------------------------------------------------------------------------
(* buf_flush: rptr = wptr = count = 0, that is count first.                *)

\* adc_update_smoothing flushes the buffer it finds, of whatever size.  It stops
\* the channel before only if its request is pending, and a conversion that is
\* under way ends after that.  (adc_setup_channel flushes the buffer it has
\* resized: ReallocOk.)  Neither disables interrupts.
adc_update_smoothing ==
    /\ dev = "adc" /\ pc = "idle"
    /\ pc' = "count0"
    /\ UNCHANGED <<bufVars, dev, req, data, histVars>>

FlushCount ==
    /\ pc = "count0"
    /\ count' = 0
    /\ unread' = <<>>
    /\ resized' = FALSE /\ torn' = FALSE
    /\ pc' = "wptr0"
    /\ UNCHANGED <<dev, size, cap, mem, wptr, rptr, req, data, listening>>

FlushWptr ==
    /\ pc = "wptr0"
    /\ wptr' = 0
    /\ pc' = "rptr0"
    /\ UNCHANGED <<dev, size, cap, mem, rptr, count, req, data, histVars, listening>>

FlushRptr ==
    /\ pc = "rptr0"
    /\ rptr' = 0
    /\ pc' = "idle"
    /\ UNCHANGED <<dev, size, cap, mem, wptr, count, req, data, histVars, listening>>

----------------------------------------------------------------------------
buf_read == ReadCopy \/ ReadCount \/ ReadAdvance

buf_set ==
    \/ \E n \in Sizes \cup {NONE} : SetSize(n)
    \/ ReallocOk
    \/ ReallocFail
    \/ FailNone
    \/ FailZero

\* adc.sample has set up the channel, whether that took a new size or not.
ACTIVATE_CHANNEL ==
    /\ dev = "adc" /\ pc = "idle"
    /\ listening' = TRUE
    /\ UNCHANGED <<size, cap, mem, wptr, rptr, count, mainVars, histVars>>

\* The conversions asked for are done: platform_adc_stop, in the interrupt.
AdcStop ==
    /\ dev = "adc" /\ listening
    /\ listening' = FALSE
    /\ UNCHANGED <<size, cap, mem, wptr, rptr, count, mainVars, histVars>>

buf_flush == adc_update_smoothing \/ FlushCount \/ FlushWptr \/ FlushRptr

Next ==
    \/ \E d \in Data : buf_write(d)
    \/ buf_read
    \/ buf_set
    \/ buf_flush
    \/ ACTIVATE_CHANNEL
    \/ AdcStop

Spec == Init /\ [][Next]_vars

----------------------------------------------------------------------------
(* Properties                                                              *)

\* Where the next element is read and written, once the buf_read or buf_flush in
\* progress is complete.
NextRead ==
    CASE pc = "rptr" -> ModIncr(rptr)
      [] pc \in {"wptr0", "rptr0"} -> 0
      [] OTHER -> rptr
NextWrite == IF pc = "wptr0" THEN 0 ELSE wptr

\* Nothing has come between the fields of the descriptor: since it was set up or
\* last flushed it was not resized, and no element arrived inside buf_set or
\* between the first two stores of buf_flush, where the code lets it.
Whole == ~resized /\ ~torn /\ size # NONE

\* In a buffer that is set up once, or flushed afterwards, the read pointer is
\* always `count' places behind the write pointer, at every statement of
\* buf_read and buf_flush at which the interrupt may strike: the two ends of
\* the ring never drift apart.  The only exceptions are those of Whole: in
\* buf_flush an element that arrives before the store to wptr, and no other,
\* breaks the ring (buf.c:106).
Aligned == Whole => (NextRead + count) % size = NextWrite

\* Under the same condition every slot holds the newest accepted element that
\* belongs there.  Only an element that is a whole ring older than the newest
\* one has lost its place.
NewestPerSlot ==
    Whole =>
        \A k \in 1 .. Len(unread) :
            k + size > Len(unread) => mem[(NextRead + k - 1) % size] = unread[k]

\* Unless the buffer was resized and not flushed since, at most one accepted
\* element is overwritten before it is read: the count exceeds the size by one
\* at most, also when an element arrives inside buf_flush.  (It also says that
\* the 16 bits of `count' suffice for BUF_SIZE_32768.)
AtMostOneOver ==
    /\ Len(unread) = count
    /\ ~resized /\ size # NONE => count <= size + 1

\* In a buffer that is Whole, buf_read returns the oldest unread element or, if
\* that one has lost its place, the newest.
ReadsOldestOrNewest ==
    Whole /\ pc = "count" => \/ data = Head(unread)
                             \/ Len(unread) > size /\ data = unread[size + 1]

\* Whatever the program does with the buffer, the count stays within one of
\* the largest size it ever had.
CountBounded == count <= MaxSize + 1

\* After an allocation failure the buffer is disabled and empty, although the
\* interrupt was writing into it while buf_set ran.
FailedIsEmpty ==
    pc = "idle" /\ cap = 0 =>
        size = NONE /\ count = 0 /\ wptr = 0 /\ rptr = 0
=============================================================================
