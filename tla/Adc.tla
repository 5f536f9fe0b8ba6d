-------------------------------- MODULE Adc ---------------------------------
(* ADC sampling: src/elua_adc.c, the entry points of src/modules/adc.c and    *)
(* the sequencer of src/platform/stm32/platform.c.  The main program calls    *)
(* adc.sample, adc.getsample(s), adc.setsmoothing, adc.setblocking and        *)
(* adc.setclock, one memory access of it at a time where the interrupt could  *)
(* tell the difference; the converter runs through the programmed sequence    *)
(* of channels by DMA and then interrupts.  The status bits of a channel are  *)
(* bit fields of one byte: a write of one is a read and a write of all.       *)
EXTENDS Integers, SequencesExt, FiniteSetsExt

CONSTANTS
  Channels,   \* NUM_ADC channels, a set of naturals
  Volt,       \* what a conversion of a channel gives
  LogCounts,  \* the logarithms of the numbers of samples asked for
  LogLengths, \* the logarithms of the lengths of the filter
  Ops,        \* the calls the program makes
  MaxCalls    \* BOUND: calls the program makes

AllOps == {"sample", "getsamples", "setsmoothing", "setblocking", "setclock"}

ASSUME AdcAssumption ==
  /\ Channels \subseteq Nat /\ Channels # {} /\ IsFiniteSet(Channels)
  /\ Volt \in [Channels -> Nat \ {0}]
  /\ LogCounts \subseteq Nat /\ LogLengths \subseteq Nat
  /\ Ops \subseteq AllOps
  /\ MaxCalls \in Nat

VARIABLES
  flags,      \* the bit fields of every channel
  reqsamples, logsmoothlen, value_ptr,
  smooth,     \* smoothidx, smoothsum and smoothbuf of every channel
  buf,        \* the channel's buffer, see module Buf: its size and elements
  ch_active, last_ch_active,
  running, clocked,       \* the bit fields of the sequencer, one byte
  seq,        \* ch_state[ 0 .. seq_len - 1 ], what the hardware converts
  sample_buf,
  converting, irq, nvic,  \* the hardware: a conversion runs, its interrupt
                          \* is pending, the interrupt is enabled
  trigger,    \* the hardware: a timer starts the conversions
  main,       \* where the main program is, and its locals
  calls,
  raced,      \* channels whose filter the interrupt used while it was resized
  torn,       \* channels whose buffer was resized, or written to between the
              \* stores of buf_flush, and not flushed since
  stalled     \* a call has left the sequencer without conversions

channel == <<flags, reqsamples, logsmoothlen, value_ptr, smooth, buf>>
device == <<ch_active, last_ch_active, running, clocked, seq>>
hardware == <<sample_buf, converting, irq, nvic, trigger>>
ghosts == <<calls, raced, torn, stalled>>
vars == <<channel, device, hardware, main, ghosts>>

Flag == [op_pending : BOOLEAN, blocking : BOOLEAN,
         smooth_ready : BOOLEAN, value_fresh : BOOLEAN]

(* SMOOTH_REALSIZE: 1 shifted to the left.                                    *)
Realsize(log) ==
  LET shifted[n \in 0..log] == IF n = 0 THEN 1 ELSE 2 * shifted[n - 1]
  IN  shifted[log]

(* What realloc leaves in memory that is new.                                 *)
Garbage == 0

(* What a place of sample_buf holds before its first conversion.  The memory  *)
(* is zero there too; a number of its own tells it from the zero of a flush.  *)
Unconverted == -1

(* What is read from a torn buffer: whatever its slot holds, own or not.  Also *)
(* what an empty buffer leaves in the sample, which nobody has set.           *)
Stray == -2

NoLocals == [pc |-> "idle", op |-> "", todo |-> << >>, log |-> 0, left |-> 0,
             sample |-> 0, field |-> "", value |-> FALSE,
             bits |-> << >>, then |-> "", active |-> {}, timed |-> FALSE,
             ran |-> FALSE]

Ch == Head(main.todo)
At(pc) == main.pc = pc

Init ==
  /\ flags = [c \in Channels |-> [op_pending |-> FALSE, blocking |-> TRUE,
                               smooth_ready |-> FALSE, value_fresh |-> FALSE]]
  /\ reqsamples = [c \in Channels |-> 0]
  /\ logsmoothlen = [c \in Channels |-> 0]
  /\ value_ptr = [c \in Channels |-> 0]
  /\ smooth = [c \in Channels |-> [idx |-> 0, sum |-> 0, cells |-> << >>]]
  /\ buf = [c \in Channels |-> [size |-> 2, elems |-> << >>]]
  /\ ch_active = {} /\ last_ch_active = {} /\ seq = << >>
  /\ running = FALSE /\ clocked = FALSE
  /\ sample_buf = [i \in 1..Cardinality(Channels) |-> Unconverted]
  /\ converting = FALSE /\ irq = FALSE /\ nvic = FALSE /\ trigger = FALSE
  /\ main = NoLocals
  /\ calls = 0 /\ raced = {} /\ torn = {} /\ stalled = FALSE

-----------------------------------------------------------------------------
(* The parts that the interrupt and the main program share.                   *)

(* adc_samples_available for the given bits and buffer.                       *)
Available(f, b) ==
  IF b.elems # << >> THEN Len(b.elems) ELSE IF f.value_fresh THEN 1 ELSE 0

(* adc_smooth_data: the sample replaces the oldest one of the ring.           *)
Wraps(s, log) == s.idx = Realsize(log)

Smoothed(s, log, sample) ==
  LET i == (IF Wraps(s, log) THEN 0 ELSE s.idx) + 1
  IN  [idx |-> i, sum |-> (s.sum - s.cells[i]) + sample,
       cells |-> [s.cells EXCEPT ![i] = sample]]

\* Wrong variant: the elements are not counted.
BufWriteAlways(b, v) == [b EXCEPT !.elems = Append(@, v)]

(* buf_write: a full ring loses its oldest element, see module Buf; a buffer  *)
(* without memory takes nothing.                                              *)
NoBuffer(b) == b.size = 0

BufWrite(b, v) ==
  IF NoBuffer(b) \/ Len(b.elems) > b.size THEN b
  ELSE [b EXCEPT !.elems =
          Append(IF Len(@) = b.size THEN [@ EXCEPT ![1] = v] ELSE @, v)]

(* The place of a channel in sample_buf.                                      *)
\* Wrong variant: it is the number of the channel.
PositionById(active, c) == c + 1

Position(active, c) == Cardinality({d \in active : d <= c})

(* The active channels in the order of their numbers.                         *)
Programmed(active) ==
  [i \in 1..Cardinality(active) |->
     CHOOSE c \in active : Cardinality({d \in active : d < c}) = i - 1]

(* adc_update_dev_sequence and platform_adc_update_sequence: the hardware is  *)
(* reset and programmed with the active channels, when they have changed.     *)
Changes(active) == active # last_ch_active

UpdateSequence(active, bits) ==
  IF ~Changes(active) THEN
    /\ flags' = bits
    /\ UNCHANGED <<seq, value_ptr, last_ch_active>>
  ELSE
    /\ seq' = Programmed(active)
    /\ value_ptr' = [c \in Channels |-> IF c \in active THEN Position(active, c)
                                        ELSE value_ptr[c]]
    /\ flags' = [c \in Channels |-> IF c \in active
                   THEN [bits[c] EXCEPT !.value_fresh = FALSE] ELSE bits[c]]
    /\ last_ch_active' = active

-----------------------------------------------------------------------------
(* The hardware and the interrupt handler DMA1_Channel1_IRQHandler.           *)

(* The DMA has stored a conversion of every channel of the sequence.          *)
Dma ==
  /\ converting
  /\ sample_buf' = [i \in DOMAIN sample_buf |->
                      IF i <= Len(seq) THEN Volt[seq[i]] ELSE sample_buf[i]]
  /\ converting' = FALSE
  /\ irq' = TRUE
  /\ UNCHANGED <<channel, device, nvic, trigger, main, ghosts>>

(* The timer starts the next conversions.                                     *)
Tick ==
  /\ trigger /\ ~converting
  /\ converting' = TRUE
  /\ UNCHANGED <<channel, device, sample_buf, irq, nvic, trigger, main, ghosts>>

(* The main program is between the new length of the filter and its flush.    *)
Resizing(c) ==
  /\ main.todo # << >> /\ Ch = c
  /\ main.pc \in {"realloc", "flush", "zero"}
     \/ (main.pc = "store" /\ main.then = "zero")

WarmsUp(c) == logsmoothlen[c] > 0 /\ ~flags[c].smooth_ready

(* The handler for one channel: its bits and its buffer afterwards.           *)
Value(c) == sample_buf[value_ptr[c]]

IsrFlags(c) ==
  IF WarmsUp(c) THEN [flags[c] EXCEPT !.value_fresh = FALSE,
                        !.smooth_ready = @ \/ Wraps(smooth[c], logsmoothlen[c])]
  ELSE [flags[c] EXCEPT !.value_fresh = ~(reqsamples[c] > 1)]

Writes(c) == ~WarmsUp(c) /\ reqsamples[c] > 1

\* The main program is between the store to the count of the buffer and that to
\* its pointers: the write pointer that the interrupt advances is then reset.
Tears(c) == Writes(c) /\ At("pointers") /\ Ch = c /\ ~NoBuffer(buf[c])

IsrBuf(c) ==
  IF Writes(c)
  THEN BufWrite(buf[c], IF c \in torn \/ Tears(c) THEN Stray ELSE Value(c))
  ELSE buf[c]

Satisfied(c) == Available(IsrFlags(c), IsrBuf(c)) >= reqsamples[c]

\* Wrong variant: the first channel that is done stops the sequencer.
HaltsAtFirst(stopped, active) == stopped # {}

(* platform_adc_stop of the last active channel stops the sequencer.          *)
Halts(stopped, active) == stopped # {} /\ active = {}

Isr ==
  LET converted == Range(seq)
      stopped == {c \in converted : Satisfied(c)}
      active == ch_active \ stopped
      halts == Halts(stopped, active)
      bits == [c \in Channels |->
                 CASE c \in stopped -> [IsrFlags(c) EXCEPT !.op_pending = FALSE]
                   [] c \in converted \ stopped -> IsrFlags(c)
                   [] OTHER -> flags[c]]
      smoothing == {c \in converted : WarmsUp(c)}
      racing == {c \in smoothing : Resizing(c)}
      updates == running' /\ Changes(active)
  IN  /\ irq /\ nvic
      /\ irq' = FALSE
      /\ buf' = [c \in Channels |-> IF c \in converted THEN IsrBuf(c) ELSE buf[c]]
      /\ smooth' = [c \in Channels |-> IF c \in smoothing \ (racing \cup raced)
                      THEN Smoothed(smooth[c], logsmoothlen[c], Value(c))
                      ELSE smooth[c]]
      /\ raced' = raced \cup racing
      /\ torn' = torn \cup {c \in converted : Tears(c)}
      /\ ch_active' = active
      /\ running' = (running /\ ~halts)
      /\ nvic' = ~halts
      /\ trigger' = (~halts /\ IF updates THEN clocked ELSE trigger)
      /\ IF running' THEN UpdateSequence(active, bits)
         ELSE flags' = bits /\ UNCHANGED <<seq, value_ptr, last_ch_active>>
      /\ converting' = ((converting /\ ~updates) \/ (running' /\ ~clocked))
      /\ UNCHANGED <<clocked, reqsamples, logsmoothlen, sample_buf, main, calls,
                     stalled>>

-----------------------------------------------------------------------------
(* The main program.                                                          *)

Goto(pc) == main' = [main EXCEPT !.pc = pc]
Return == main' = NoLocals

Calls(op, locals) ==
  /\ op \in Ops
  /\ main.pc = "idle"
  /\ calls < MaxCalls
  /\ calls' = calls + 1
  /\ main' = [locals EXCEPT !.op = op]
  /\ UNCHANGED <<channel, device, hardware, raced, torn, stalled>>

(* A bit field is written: all bits are read, and written back changed.       *)
Load(field, value, then) ==
  main' = [main EXCEPT !.pc = "store", !.field = field, !.value = value,
                       !.bits = flags[Ch], !.then = then]

Store ==
  /\ At("store")
  /\ flags' = [flags EXCEPT ![Ch] = [main.bits EXCEPT ![main.field] = main.value]]
  /\ IF main.then = "idle" THEN Return
     ELSE main' = [main EXCEPT !.pc = main.then, !.field = "", !.value = FALSE,
                               !.bits = << >>, !.then = ""]
  /\ UNCHANGED <<reqsamples, logsmoothlen, value_ptr, smooth, buf, device,
                 hardware, ghosts>>

(* adc.sample of one channel or of a list: adc_setup_channel for each of      *)
(* them, which disables no interrupts (it only reads their state), then       *)
(* platform_adc_start_sequence.                                               *)
Sample ==
  \E list \in {<<c>> : c \in Channels} \cup (Channels \X Channels),
     log \in LogCounts :
    Calls("sample", [NoLocals EXCEPT !.pc = "setup", !.todo = list, !.log = log])

\* buf_set puts the new size in force before the memory.
Setup ==
  LET size == Realsize(main.log)
  IN  /\ At("setup")
      /\ IF size = buf[Ch].size
         THEN Goto("request") /\ UNCHANGED <<buf, torn>>
         ELSE /\ Goto("resize")
              /\ buf' = [buf EXCEPT ![Ch].size = size]
              /\ torn' = torn \cup {Ch}
      /\ UNCHANGED <<flags, reqsamples, logsmoothlen, value_ptr, smooth, device,
                     hardware, calls, raced, stalled>>

\* The buffer is gone, and the channels that were set up before this one wait.
\* (That nothing is written any more is stored before the buffer is empty; the
\* interrupt that comes in between might as well have come before.)
SetupFails ==
  /\ At("resize")
  /\ buf' = [buf EXCEPT ![Ch] = [size |-> 0, elems |-> << >>]]
  /\ torn' = torn \ {Ch}
  /\ stalled' = (stalled \/ (~running /\ ch_active # {}))
  /\ Return
  /\ UNCHANGED <<flags, reqsamples, logsmoothlen, value_ptr, smooth, device,
                 hardware, calls, raced>>

(* buf_flush, of the resized buffer and at the end of adc_update_smoothing:   *)
(* the count, then both pointers.                                             *)
FlushCount ==
  /\ main.pc \in {"resize", "empty"}
  /\ buf' = [buf EXCEPT ![Ch].elems = << >>]
  /\ torn' = torn \ {Ch}
  /\ Goto("pointers")
  /\ UNCHANGED <<flags, reqsamples, logsmoothlen, value_ptr, smooth, device,
                 hardware, calls, raced, stalled>>

FlushPointers ==
  /\ At("pointers")
  /\ IF main.op = "sample" THEN Goto("request") ELSE Return
  /\ UNCHANGED <<channel, device, hardware, ghosts>>

Request ==
  /\ At("request")
  /\ reqsamples' = [reqsamples EXCEPT ![Ch] = Realsize(main.log)]
  /\ Goto("pend")
  /\ UNCHANGED <<flags, logsmoothlen, value_ptr, smooth, buf, device, hardware,
                 ghosts>>

Pend ==
  /\ At("pend")
  /\ Load("op_pending", TRUE, "activate")
  /\ UNCHANGED <<channel, device, hardware, ghosts>>

(* ACTIVATE_CHANNEL and INACTIVATE_CHANNEL: ch_active is read, then written.  *)
LoadActive ==
  /\ main.pc \in {"activate", "inactivate"}
  /\ main' = [main EXCEPT !.active = ch_active,
                !.pc = IF @ = "activate" THEN "activated" ELSE "inactivated"]
  /\ UNCHANGED <<channel, device, hardware, ghosts>>

Activated ==
  /\ At("activated")
  /\ ch_active' = main.active \cup {Ch}
  /\ main' = [main EXCEPT !.active = {},
                !.pc = IF Len(main.todo) > 1 THEN "setup" ELSE "start",
                !.todo = IF Len(@) > 1 THEN Tail(@) ELSE @]
  /\ UNCHANGED <<channel, last_ch_active, running, clocked, seq, hardware, ghosts>>

\* platform_adc_start_sequence.  It disables interrupts only to program the
\* sequence; the conversion interrupt is enabled here if setclock left it so.
Start ==
  /\ At("start")
  /\ IF running THEN Return ELSE Goto("program")
  /\ UNCHANGED <<channel, device, hardware, ghosts>>

Program ==
  /\ At("program")
  /\ UpdateSequence(ch_active, flags)
  /\ IF Changes(ch_active)
     THEN converting' = FALSE /\ irq' = FALSE /\ trigger' = FALSE
     ELSE UNCHANGED <<converting, irq, trigger>>
  /\ Goto("run")
  /\ UNCHANGED <<reqsamples, logsmoothlen, smooth, buf, ch_active, running,
                 clocked, sample_buf, nvic, ghosts>>

Run ==
  /\ At("run")
  /\ running' = TRUE
  /\ Goto("trigger")
  /\ UNCHANGED <<channel, ch_active, last_ch_active, clocked, seq, hardware,
                 ghosts>>

TriggerFirst ==
  /\ At("trigger")
  /\ irq' = FALSE /\ nvic' = TRUE
  /\ trigger' = (trigger \/ clocked)
  /\ converting' = (converting \/ ~clocked)
  /\ stalled' = FALSE
  /\ Return
  /\ UNCHANGED <<channel, device, sample_buf, calls, raced, torn>>

(* adc.getsample, adc.getsamples and adc.insertsamples: adc_wait_samples, and *)
(* adc_get_processed_sample as often as there are samples.                    *)
GetSamples ==
  \E c \in Channels, n \in 1..2 :
    Calls("getsamples", [NoLocals EXCEPT !.pc = "wait", !.todo = <<c>>, !.left = n])

Wait ==
  LET available == Available(flags[Ch], buf[Ch])
  IN  /\ At("wait")
      /\ \/ available >= main.left
         \/ ~flags[Ch].blocking
         \/ ~flags[Ch].op_pending
      /\ main' = [main EXCEPT !.pc = "get", !.left = Min({@, available})]
      /\ UNCHANGED <<channel, device, hardware, ghosts>>

Got == main.left = 0
Processes(c) == logsmoothlen[c] = 0 \/ flags[c].smooth_ready

GetNothing ==
  /\ At("get")
  /\ \/ Got /\ Return
     \/ /\ ~Got
        /\ Available(flags[Ch], buf[Ch]) = 0 \/ ~Processes(Ch)
        /\ main' = [main EXCEPT !.left = @ - 1]
  /\ UNCHANGED <<channel, device, hardware, ghosts>>

Take ==
  /\ At("get") /\ ~Got /\ Processes(Ch)
  /\ Available(flags[Ch], buf[Ch]) # 0
  /\ IF logsmoothlen[Ch] > 0 /\ Wraps(smooth[Ch], logsmoothlen[Ch])
     THEN /\ smooth' = [smooth EXCEPT ![Ch].idx = 0]
          /\ Load("smooth_ready", TRUE, "take")
     ELSE Goto("take") /\ UNCHANGED smooth
  /\ UNCHANGED <<flags, reqsamples, logsmoothlen, value_ptr, buf, device,
                 hardware, ghosts>>

GetFresh ==
  /\ At("take")
  /\ flags[Ch].value_fresh
  /\ main' = [main EXCEPT !.pc = "store", !.field = "value_fresh",
                !.value = FALSE, !.bits = flags[Ch], !.then = "count",
                !.sample = Value(Ch)]
  /\ UNCHANGED <<channel, device, hardware, ghosts>>

\* A value that was fresh before may have gone, and the buffer be empty.
GetBuffered ==
  LET elems == buf[Ch].elems
  IN  /\ At("take")
      /\ ~flags[Ch].value_fresh
      /\ IF elems = << >>
         THEN main' = [main EXCEPT !.pc = "count", !.sample = Stray] /\ UNCHANGED buf
         ELSE /\ main' = [main EXCEPT !.pc = "count", !.sample = Head(elems)]
              /\ buf' = [buf EXCEPT ![Ch].elems = Tail(@)]
      /\ UNCHANGED <<flags, reqsamples, logsmoothlen, value_ptr, smooth, device,
                     hardware, ghosts>>

Count ==
  /\ At("count")
  /\ reqsamples' = [reqsamples EXCEPT ![Ch] = IF @ > 0 THEN @ - 1 ELSE 0]
  /\ smooth' = IF logsmoothlen[Ch] = 0 \/ Ch \in raced THEN smooth
               ELSE [smooth EXCEPT ![Ch] =
                       Smoothed(@, logsmoothlen[Ch], main.sample)]
  /\ main' = [main EXCEPT !.pc = "get", !.left = @ - 1, !.sample = 0]
  /\ UNCHANGED <<flags, logsmoothlen, value_ptr, buf, device, hardware, ghosts>>

(* platform_adc_stop, called by adc_update_smoothing and by setclock.         *)
Inactivated ==
  /\ At("inactivated")
  /\ ch_active' = main.active \ {Ch}
  /\ main' = [main EXCEPT !.active = {}, !.pc = "stop"]
  /\ UNCHANGED <<channel, last_ch_active, running, clocked, seq, hardware, ghosts>>

Stopped == Goto(IF main.op = "setclock" THEN "reclock" ELSE "length")

Stop ==
  /\ At("stop")
  /\ IF ch_active = {} THEN Goto("halt") ELSE Stopped
  /\ UNCHANGED <<channel, device, hardware, ghosts>>

Untrigger ==
  /\ At("halt")
  /\ trigger' = FALSE
  /\ Goto("disable")
  /\ UNCHANGED <<channel, device, sample_buf, converting, irq, nvic, ghosts>>

Halt ==
  /\ At("disable")
  /\ running' = FALSE /\ nvic' = FALSE
  /\ Stopped
  /\ UNCHANGED <<channel, ch_active, last_ch_active, clocked, seq, sample_buf,
                 converting, irq, trigger, ghosts>>

(* adc.setclock, with a frequency or with none: platform_adc_set_timer, which *)
(* halts the sequencer when the timer is another one and stops the channel,   *)
(* then platform_adc_set_clock.  The only timer of the port is timer 2, and   *)
(* timer 0 goes with no frequency: the timer is another one when there is a   *)
(* frequency and was none, or the reverse.                                    *)
SetClock ==
  \E c \in Channels, timed \in BOOLEAN :
    Calls("setclock",
          [NoLocals EXCEPT !.pc = "retime", !.todo = <<c>>, !.timed = timed])

Retime ==
  /\ At("retime")
  /\ running' = (running /\ main.timed = clocked)
  /\ stalled' = (stalled \/ (running /\ ~running'))
  /\ Goto("unpend")
  /\ UNCHANGED <<channel, ch_active, last_ch_active, clocked, seq, hardware,
                 calls, raced, torn>>

Unpend ==
  /\ At("unpend")
  /\ Load("op_pending", FALSE, "inactivate")
  /\ UNCHANGED <<channel, device, hardware, ghosts>>

\* The trigger is disabled, whatever the timer was, and nothing enables it again
\* while the sequence stays the same.  `clocked' shares a byte with `running':
\* both are read, and written back.
Reclock ==
  /\ At("reclock")
  /\ trigger' = FALSE
  /\ main' = [main EXCEPT !.pc = "clock", !.ran = running]
  /\ stalled' = (stalled \/ (running /\ clocked))
  /\ UNCHANGED <<channel, device, sample_buf, converting, irq, nvic, calls, raced,
                 torn>>

\* The source of the trigger in the ADC is taken to change with `clocked'.
\* (stalled) The interrupt has halted the sequencer, and the write undoes it: the
\* interrupt is disabled, and no adc.sample will start a running sequencer.
Clock ==
  /\ At("clock")
  /\ clocked' = main.timed
  /\ running' = main.ran
  /\ stalled' = (stalled \/ (main.ran /\ ~running))
  /\ Return
  /\ UNCHANGED <<channel, ch_active, last_ch_active, seq, hardware, calls, raced,
                 torn>>

SetBlocking ==
  \E c \in Channels, mode \in BOOLEAN :
    Calls("setblocking", [NoLocals EXCEPT !.pc = "store", !.todo = <<c>>,
            !.field = "blocking", !.value = mode, !.bits = flags[c],
            !.then = "idle"])

(* adc.setsmoothing: adc_update_smoothing.                                    *)
SetSmoothing ==
  \E c \in Channels, log \in LogLengths :
    Calls("setsmoothing",
          [NoLocals EXCEPT !.pc = "smoothing", !.todo = <<c>>, !.log = log])

StopFirst ==
  /\ At("smoothing")
  /\ Goto(IF flags[Ch].op_pending THEN "unpend" ELSE "length")
  /\ UNCHANGED <<channel, device, hardware, ghosts>>

Length ==
  /\ At("length")
  /\ logsmoothlen' = [logsmoothlen EXCEPT ![Ch] = main.log]
  /\ Goto(IF main.log = logsmoothlen[Ch] THEN "flush" ELSE "realloc")
  /\ UNCHANGED <<flags, reqsamples, value_ptr, smooth, buf, device, hardware,
                 ghosts>>

Realloc ==
  LET old == smooth[Ch].cells
  IN  /\ At("realloc")
      /\ smooth' = [smooth EXCEPT ![Ch].cells =
                      [i \in 1..Realsize(main.log) |->
                         IF i \in DOMAIN old THEN old[i] ELSE Garbage]]
      /\ Goto("flush")
      /\ UNCHANGED <<flags, reqsamples, logsmoothlen, value_ptr, buf, device,
                     hardware, ghosts>>

ReallocFails ==
  /\ At("realloc")
  /\ logsmoothlen' = [logsmoothlen EXCEPT ![Ch] = 0]
  /\ smooth' = [smooth EXCEPT ![Ch] = [idx |-> 0, sum |-> 0, cells |-> << >>]]
  /\ Load("smooth_ready", FALSE, IF main.log = 0 THEN "flush" ELSE "idle")
  /\ UNCHANGED <<flags, reqsamples, value_ptr, buf, device, hardware, ghosts>>

\* Wrong variant: the sum is not reset.
FlushIndexOnly ==
  /\ At("flush")
  /\ smooth' = [smooth EXCEPT ![Ch].idx = 0]
  /\ Load("smooth_ready", FALSE, "zero")
  /\ UNCHANGED <<flags, reqsamples, logsmoothlen, value_ptr, buf, device, hardware,
                 ghosts>>

(* adc_flush_smoothing, then buf_flush.                                       *)
Flush ==
  /\ At("flush")
  /\ smooth' = [smooth EXCEPT ![Ch].idx = 0, ![Ch].sum = 0]
  /\ Load("smooth_ready", FALSE, "zero")
  /\ UNCHANGED <<flags, reqsamples, logsmoothlen, value_ptr, buf, device,
                 hardware, ghosts>>

Zero ==
  /\ At("zero")
  /\ smooth' = IF logsmoothlen[Ch] = 0 THEN smooth
               ELSE [smooth EXCEPT ![Ch].cells = [i \in DOMAIN @ |-> 0]]
  /\ Goto("empty")
  /\ UNCHANGED <<flags, reqsamples, logsmoothlen, value_ptr, buf, device, hardware,
                 ghosts>>

-----------------------------------------------------------------------------
MainStep ==
  \/ Store
  \/ Setup \/ SetupFails \/ FlushCount \/ FlushPointers \/ Request \/ Pend
  \/ LoadActive \/ Activated \/ Start \/ Program \/ Run \/ TriggerFirst
  \/ Wait \/ GetNothing \/ Take \/ GetFresh \/ GetBuffered \/ Count
  \/ Unpend \/ Inactivated \/ Stop \/ Untrigger \/ Halt
  \/ Retime \/ Reclock \/ Clock
  \/ StopFirst \/ Length \/ Realloc \/ ReallocFails \/ Flush \/ Zero

MainCalls == Sample \/ GetSamples \/ SetClock \/ SetBlocking \/ SetSmoothing

Next == Dma \/ Tick \/ Isr \/ MainStep \/ MainCalls

Spec == Init /\ [][Next]_vars

(* The converter converts, the timer ticks, the interrupt is served, and the  *)
(* main program goes on with the call it is in.                               *)
FairSpec ==
  Spec /\ WF_vars(Dma) /\ WF_vars(Tick) /\ WF_vars(Isr) /\ WF_vars(MainStep)

-----------------------------------------------------------------------------
Filter == [idx : Nat, sum : Int, cells : Seq(Int)]
Ring == [size : Nat, elems : Seq(Int)]

(* The places in the code where the main program can be, and its locals.      *)
Places == {"idle", "setup", "resize", "pointers", "request", "pend", "store",
           "activate", "activated", "start", "program", "run", "trigger", "wait",
           "get", "take", "count", "unpend", "inactivate", "inactivated", "stop",
           "halt", "disable", "retime", "reclock", "clock", "smoothing",
           "length", "realloc", "flush", "zero", "empty"}

Locals == [pc : Places, op : AllOps \cup {""}, todo : Seq(Channels), log : Nat,
           left : Nat, sample : Int,
           field : {"", "op_pending", "blocking", "smooth_ready", "value_fresh"},
           value : BOOLEAN, bits : Flag \cup {<< >>}, then : Places \cup {""},
           active : SUBSET Channels, timed : BOOLEAN, ran : BOOLEAN]

(* The buffer has its new size, and still its old elements.                   *)
Resized(c) == At("resize") /\ Ch = c

TypeOK ==
  /\ flags \in [Channels -> Flag]
  /\ smooth \in [Channels -> Filter] /\ buf \in [Channels -> Ring]
  /\ reqsamples \in [Channels -> Nat] /\ logsmoothlen \in [Channels -> Nat]
  /\ value_ptr \in [Channels -> 0..Cardinality(Channels)]
  /\ \A c \in Channels :
       /\ reqsamples[c] > 0 => \E log \in LogCounts : reqsamples[c] <= Realsize(log)
       /\ logsmoothlen[c] \in LogLengths \cup {0}
       /\ Len(buf[c].elems) <= buf[c].size + 1 \/ Resized(c)
  /\ ch_active \subseteq Channels /\ last_ch_active \subseteq Channels
  /\ seq \in Seq(Channels)
  /\ sample_buf \in [1..Cardinality(Channels) -> Int]
  /\ {running, clocked, converting, irq, nvic, trigger, stalled} \subseteq BOOLEAN
  /\ main \in Locals
  /\ calls \in 0..MaxCalls /\ raced \subseteq Channels /\ torn \subseteq Channels

(* Outside a change of its length the filter is an average over the whole     *)
(* ring: the sum is the sum of the cells, the index is inside, and once the   *)
(* filter is ready every cell holds a sample, none the zero of the flush --   *)
(* although first the interrupt and then the main program feed it             *)
(* (adc_smooth_data), unless the interrupt came into the change itself.  (The *)
(* sample may be one that was never converted: when a value_fresh is written  *)
(* back that the interrupt has cleared, the next read takes what the place    *)
(* the channel now has in sample_buf happens to hold.)                        *)
AverageOfRing ==
  \A c \in Channels :
    (logsmoothlen[c] > 0 /\ c \notin raced /\ ~Resizing(c)) =>
      LET s == smooth[c]
      IN  /\ Len(s.cells) = Realsize(logsmoothlen[c])
          /\ s.idx \in 0..Len(s.cells)
          /\ s.sum = FoldSeq(+, 0, s.cells)
          /\ flags[c].smooth_ready => 0 \notin Range(s.cells)

(* A channel with samples pending is sampled until it is taken out of the     *)
(* sequence, whatever the main program and the interrupt overwrite in         *)
(* ch_active and in the bits, and whether the program or a timer starts the   *)
(* conversions, unless a call has left the sequencer without conversions:     *)
(* adc.setclock, when the timer is another one (common.c:352), when the       *)
(* sequencer runs on the same timer and only loses its trigger                *)
(* (platform.c:1202), or when the write of `clocked' brings back the          *)
(* `running' of a sequencer that has halted (platform.c:1206, 1227); or an    *)
(* adc.sample that finds no memory for a buffer, of this channel or in a list *)
(* that is half set up.  After a race nothing is known of the filter, and     *)
(* nothing is said.                                                           *)
Pending(c) == flags[c].op_pending /\ c \in ch_active

Completes ==
  \A c \in Channels :
    Pending(c) ~> (~Pending(c) \/ stalled \/ NoBuffer(buf[c]) \/ raced # {})

(* What waits in the buffer of a channel was converted on it, however often   *)
(* adc_update_dev_sequence moves its place in sample_buf, and whenever        *)
(* adc.sample resizes the buffer or adc.setsmoothing flushes it: except after *)
(* an interrupt that came between the stores of buf_flush to the count and to *)
(* the pointers (buf.c:106), which both calls run with interrupts enabled,    *)
(* until the next flush.  (A sample that is not in a buffer waits in          *)
(* sample_buf itself, where the next sequence overwrites it.)                 *)
BufferedOwn == \A c \in Channels \ torn : Range(buf[c].elems) \subseteq {Volt[c]}

(* A blocking call returns: it waits for samples or for the end of sampling   *)
(* (adc_wait_samples).  It does not: a write of another bit of the byte, say  *)
(* by adc.setblocking, writes op_pending back that the interrupt has cleared. *)
WaitEnds ==
  At("wait") ~> (~At("wait") \/ stalled \/ NoBuffer(buf[Ch]) \/ raced # {})
=============================================================================
