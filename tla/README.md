# TLA+ models of eLua

eLua runs Lua programs on microcontrollers without an operating system.  Its own code (as opposed
to the Lua interpreter, dlmalloc, FatFs and uIP, which it includes) is a layer of device services
between interrupt service routines, a single main program and, over serial lines, programs on a PC.
Little of it is algorithmic; almost all of its difficulty is in what may happen *between* two
statements.  The modules here model that layer statement by statement where an interrupt, a tick
or a peer can observe the difference, and as whole handlers elsewhere.

Paths are relative to the root of the repository.

## 1. Inventory

| Component | State | Operations | Interacts with | Hard behaviour |
|---|---|---|---|---|
| Lua interrupt handlers (`src/elua_int.c`, `src/modules/cpu.c`) | ring `elua_int_queue` with two indices, enable bits, handler table in the Lua registry | `elua_int_add` (ISRs), `elua_int_hook` (count hook), `cpu.set_int_handler`, `cpu.cli/sei`, `elua_int_cleanup` | every ISR; the Lua VM's hooks, coroutines and error unwinding | ISR between any two statements, full ring, errors in handlers, coroutines, restart of the Lua state |
| Character buffers (`src/buf.c`) | per device: size, memory, `rptr`, `wptr`, `count` | `buf_set`, `buf_write` (ISR), `buf_read`, `buf_flush` | UART receive interrupt, ADC end-of-conversion interrupt, `realloc` | the ISR writes while the program reads, resizes, or fails to allocate |
| Virtual timers (`src/common_tmr.c`) | counters, limits, three shared byte arrays, one reset request | tick interrupt; set match, reset, delay, flags, enable | tick ISR, Lua interrupt queue | read-modify-write of shared bytes, spinning on the ISR, wrap-around |
| Serial multiplexer (`src/common_uart.c`, `mux_src/main.c`) | per side: service in/out, pending escape, last byte sent | send, receive, repeat request | two programs over one line; receive ISR | escapes, restart of one side, a repeat in the middle of a send |
| UART receive with timeout (`src/common_uart.c`) | none of its own | `platform_uart_recv` | buffers, timers | a timeout racing a byte |
| Remote file system (`src/remotefs/`, `rfs_server_src/`, `src/eluarpc.c`) | one shared packet buffer, server file descriptors | open, read, write, seek, close, directory | client and server over a serial line | late answers (packets carry no number), lost bytes |
| XMODEM (`src/xmodem.c`) | expected block, retries, growing buffer | `xmodem_receive` | sender over a serial line, timer | lost acknowledgements, duplicate blocks |
| ADC (`src/elua_adc.c`, `src/modules/adc.c`) | per channel state, per device sequence, smoothing ring | setup, sample, get, end-of-sequence ISR | buffers, platform ISRs | the sequence changes while it is converted |
| Simple allocator (`src/salloc.c`) | list of blocks | malloc, realloc, free | Lua | long sequences of calls |
| File systems, device manager (`src/newlib/devman.c`, `genstd.c`, `src/romfs.c`, `src/mmcfs.c`, `src/semifs.c`) | device table, descriptor tables | register, open, read, close | C library | descriptors composed of two numbers |
| LuaRPC (`src/modules/luarpc.c`) | link and exception state | client and server calls | serial line | a link that breaks in the middle of a call |
| nRF24, PS/2, networking (`src/nrf/nrf.c`, `src/ps2.c`, `src/elua_uip.c`) | radio mode; bit receiver and key queue; sockets | | ISRs | mode changes against interrupts |
| Shell, editor, line editing, terminal, help, other Lua modules | text | commands | console | none of the concurrent kind |
| Interrupt dispatch (`src/common.c`, platform `platform_int.c`) | chains of C handlers | `cmn_int_handler` | all ISRs | preemption priorities |
| Lua interpreter, dlmalloc, FatFs, uIP, platform drivers, build scripts | | | | vendored, register-level or generated; they appear as environment only |

What makes each correct:

* interrupt queue: accepted interrupts are served once, in order; none waits while the hook is off;
  a new Lua program starts clean;
* buffers: what is read is what was written, in order; the two ends agree after anything;
* timers: a match neither early, nor twice, nor lost; calls that wait for the tick return;
* multiplexer: a byte reaches the service it was sent on, unchanged, and a restart is survived;
* remote files and XMODEM: an answer, or a block, is taken for what it answers; nothing twice;
* allocator: blocks cover the arena, no two free neighbours, payloads are disjoint.

`PROJECT.json` lists every component with its status and every hazard with its source line and the
properties that watch it.

## 2. Modules

| Module | Models | State and actions |
|---|---|---|
| `IntFifo` | what `doc/en/inthandlers.txt` promises | a bounded FIFO, the interrupt in service, whether a Lua state exists |
| `EluaInt` | `src/elua_int.c`, `cpu.set_int_handler/cli/sei`, the interpreter's hooks | `elua_int_add` in one step; `elua_int_hook` as fetch, clear, advance, dispatch, return or error, finish; coroutines, `lua_open`, `lua_close` |
| `EluaIntNested` | `elua_int_add` on a CPU with preemption priorities | extends `EluaInt`; the check, the store and the publication of the index per priority level |
| `EluaIntProofs` | theorems about `EluaInt` | |
| `Buf` | `src/buf.c` for one descriptor | the ISR's `buf_write` in one step, the main program's calls split at every access to shared fields |
| `BufProofs` | theorems about `Buf` and the arithmetic of a ring | |
| `VTmr` | `src/common_tmr.c` | the tick in one step; each call of the main program as the list of its statements (`Program`) |
| `VTmrProofs` | theorems about `VTmr` | |
| `Sermux` | both ends of the multiplexer | `platform_uart_send` by statements, `cmn_rx_handler` (ISR) in one step, an iteration of the host's loop in one step, two byte streams, restarts |
| `SermuxProofs` | theorems about `Sermux` and about what a line of bytes means to its reader | |
| `Transfer` | what the caller of `xmodem_receive` counts on | blocks delivered in order, an outcome |
| `Xmodem` | `src/xmodem.c` and a sender on a PC | the receiver call by call of `xmodem_in_func`; sender; line that loses and changes bytes |
| `XmodemProofs` | theorems about `Xmodem` and about streams of whole transmissions | |
| `Rfs` | `src/remotefs/client.c`, `elua_rfs.c`, `src/eluarpc.c`; `rfs_server_src/server.c`, `rfs_transports.c`, `os_io_posix.c` | the client's call as flush, header, body; the server as header, flush, body, reply; loss, restarts |
| `RfsProofs` | theorems about `Rfs`, about sequences that lose elements and the messages on them | |
| `Heap` | what clients of an allocator rely on | pieces of RAM with their contents |
| `Salloc` | `src/salloc.c`, the bounds of RAM in `src/common.c` | memory as words, the list of blocks in its headers; one action per entry point |
| `SallocProofs` | theorems about `Salloc`, about lists of blocks and what each helper does to them | |
| `Adc` | `src/elua_adc.c`, `src/modules/adc.c`, the sequencer of the stm32 port | main program by memory accesses, DMA, interrupt handler in one step |
| `AdcProofs` | theorems about `Adc`, about sums over sequences and the order of channels in one | |
| `MC...` | | values of the constants for TLC |

Names are those of the code where possible.  An operator preceded by "Wrong variant" is a plausible
mistake in the definition after it; replacing the definition by the variant makes TLC refute the
property that `PROJECT.json` pairs with it.

### Grain

ISRs do not preempt each other on most ports, and the main program does not run during an ISR, so an
ISR is one step.  The main program's statements are separate steps wherever an ISR reads or writes
the same memory; consecutive private statements share one.  `EluaIntNested` gives up the first
simplification for the stm32 port, whose lines have different priorities
(`src/platform/stm32/platform_int.c:309-345`).  `Salloc` has no concurrency (nothing calls it from an
ISR) and one step per call; in `Xmodem` and `Rfs` a step ends where a side waits for the line.

### Abstractions

* `EluaInt`: the Lua program is arbitrary: it may do any of its operations at any time.  A handler
  returns or, with `HandlersMayFail`, raises an error that unwinds the running thread.  `__gc`
  metamethods run by `lua_close` are left out.  Per-source hardware masks are left out: all sources
  are enabled.
* `Buf`: pointers count elements, not bytes; memory is a function of cells, cells beyond the
  allocation read as `Junk`.  `realloc` copies in one step.  The descriptor belongs to a UART, to a virtual UART
  of the multiplexer, which receives from the start, or to an ADC channel, the only one whose buffer may have a
  single element (`adc.sample( id, 1 )`).  `buf_flush` has the code's two callers: `adc_setup_channel`, of the
  buffer it has just resized, and `adc_update_smoothing` (`src/elua_adc.c:176`), of the buffer it finds; both
  run with interrupts enabled, so the interrupt may strike between any two of its three stores.
* `VTmr`: periods are in ticks.  The counter counts modulo `Modulus` (2^32 in the code).  `cpu.cli()` and
  `cpu.sei()` hold the tick back; it is not counted how many ticks are lost meanwhile.  Two histories follow the
  one-shot timers: `spent` (fired since they were set up) and `struck` (may fire again: the tick cleared their bit while
  a call for another timer held a copy of the byte, or `cpu.sei( id, timer )` enabled them).
* `Sermux`: bytes are model values with an involution `Xored`; each byte carries a ghost number that
  says which user byte it belongs to.  The line neither loses nor changes bytes; what a side that
  starts misses is the beginning of what is under way.  A host that is killed between two `write`
  calls of one escape sequence is not modelled, nor are services only one side has configured.
* `Xmodem`: a block carries one data byte and one check byte, which is the CRC as an injective function;
  a changed byte turns into one that is no valid data.  Block numbers wrap at `BlockMod`.  Bytes of one
  transmission follow each other without a gap, so a timeout happens only between transmissions or when
  bytes are missing; otherwise a timeout may come at any time.  `shell_recv` cutting off the padding is
  left out.
* `Rfs`: a packet is two symbols, the first byte, which announces a size, and the rest.  Either is lost
  as a whole.  Damaged symbols are those the code itself produces: a request whose first byte was
  overwritten, a packet put together from two.  One file, one directory; the UDP and memory transports
  and the pipe of `rfsmux` are not modelled.
* `Salloc`: addresses are words of 8 bytes, as in the headers.  A word nobody owns is `Junk`: what a
  caller finds in fresh memory is arbitrary.  The taken flag of a header that has just been created is
  whatever was there (`stale`) until the code sets it.  Requests within 15 bytes of the largest
  `size_t` and products `nmemb * size` that overflow are not enumerated.  The loops along a list (`TakenBefore`,
  `TakenAfter`, `Chain`) are iterations over as many steps as RAM has words: on a whole list they
  end where the loops of the code end, and on no list do they leave their result unspecified, which is what
  lets them be reasoned about.
* `Adc`: the 4 flags of a channel are bit fields of one byte, so a write by the main program is a load and a
  store; `smooth_ready = 1` at the wrap of the ring (`Take`) is one of them.  `running` and `clocked` of the sequencer share
  a byte too; the main program's writes of `running` cannot lose anything, as the interrupt never writes `clocked`, but
  its write of `clocked` can undo the interrupt's of `running` (`Reclock`, `Clock`).  `buf_write` and `buf_read` are
  the abstract ring of `Buf`, in one step; `buf_set` and `buf_flush` are not: the new size, the failure, the count and the pointers
  are steps of their own (`Setup`, `SetupFails`, `FlushCount`, `FlushPointers`), as are the stores of
  `adc_setup_channel` behind them (`Request`, `Pend`, `Activated`).  A buffer whose fields do not fit together is
  `torn`: what the interrupt stores in it reads back as `Stray`, an unspecified value, until the next flush; what such a write does
  to memory outside the buffer is not modelled.  What a conversion of a channel gives is a
  constant of that channel (`Volt`).  `platform_adc_start_sequence`, `platform_adc_stop` and
  `platform_adc_set_clock` are split where they touch the hardware, for `adc.setclock` can leave the conversion interrupt
  enabled while the sequencer does not run.  Timer 2 is the only one that stm32 allows (`platform.c:1021-1025`), and
  `adc.setclock` without a frequency passes timer 0: so `timer_id` differs from the new one exactly when `clocked`
  differs from the new mode, and needs no variable.  Clock rates and the latch of the interrupt
  controller across a disable are left out.

## 3. What is checked

Every run is listed in `PROJECT.json`.  "Holds" runs check several properties; each of the other two
refutes one statement of the documentation or of a comment by a short trace.

| Run | Instance | Result |
|---|---|---|
| `int_fifo` | ring of 4, two interrupts, no coroutine, handlers return; 17 242 states | holds: the ring is the FIFO of `IntFifo` (refinement, with its liveness), no wake-up is lost |
| `int_any` | ring of 2, two interrupts, a coroutine, handlers fail; 38 306 states | holds: nothing waiting is overwritten; closing the Lua state repairs everything |
| `int_x_preempt` | ring of 2, two priorities | **violated**: a waiting interrupt is overwritten |
| `buf_both` | sizes 1, 2 and 4, two data values, UART, virtual UART and ADC; 312 115 states | holds: ends aligned at every statement and slots right while nothing is torn, at most one element lost and count bounded even then, clean after a failed allocation |
| `vtmr_two` | two timers, modulus 4, both types, all operations; 2 499 178 states | holds: matches on time when set up disabled; a one-shot timer fires again only if struck (or enabled again), and then once |
| `vtmr_finish` | one timer, modulus 6, `cpu.cli` and `cpu.sei`; 11 265 states | holds: every operation ends that does not wait for a tick that is held back |
| `sermux_link` | two services, three data bytes, three bytes sent, two restarts; 3 268 318 states up to symmetry | holds: FIFO without restarts; after restarts nothing changed or misdirected, but for two windows |
| `xmodem_line` | five blocks, numbers modulo 4, two faults, two tries of the sender; 364 612 states | holds: implements `Transfer` with its liveness; the sender is never ahead of the receiver |
| `rfs_line` | four requests, one loss, one restart of the server, two descriptors; 2 690 000 states | holds: answers in order, each at most once, and of the right call unless a call gave up before; no unknown descriptors |
| `salloc_arena` | two regions of 6 and 8 words, guards included, sizes 0, 8, 9 and 24 bytes; 12 241 states | holds: implements `Heap`; lists whole and coalesced after any sequence of calls |
| `adc_calls` | two channels, three calls, 1 or 2 samples, filter off or of length 2, software and timer triggers; 583 865 states | holds: the filter is an average unless it was resized under the interrupt, buffers hold the channel's own samples unless torn, pending sampling ends unless a call left the sequencer without conversions |
| `adc_x_wait` | the same | **violated**: a blocking `adc.getsample` never returns |

### Bounds, and why they are enough

* Rings: 2 and 4 slots wrap around many times and are often full; the sequences of interrupts are not
  bounded, since `pending` cannot exceed the ring.  One coroutine suffices to inherit the hook and to
  run while the main thread's hook is set; nested resumption of several adds depth only.
* `Buf`: sizes 2 and 4 give a shrink and a growth, and 4 elements are twice wrapped by a run in which
  `count` is at most 5; size 1 is the ring in which both pointers are always 0.  Nothing else is bounded.
* `VTmr`: `Modulus` 4 and 6 with periods from 2 to `Modulus - 1` make counters wrap during a delay of
  the largest period.  Two timers share every byte; a third adds no new pair.  `age` is capped at
  `Modulus`, above every limit.
* `Sermux`: `MaxSends` = 3 bytes over both directions and `MaxRestarts` = 2 over both sides bound the
  state.  Three bytes are the least in which a change of service, a repeat and the byte after it all
  occur; two restarts allow the host to give up after a reset of the board and to be started again.
  The data are a plain byte, a byte that must be escaped and the plain byte it is escaped to.
  The services are interchangeable (`SYMMETRY`, safety only).  Deadlock is not checked, because
  when the bounds are used up nothing is left to do.
* `Xmodem`: the file has five blocks, so that the numbers wrap once and the buffer grows twice
  (`INITIAL` = `INCREMENT` = 2); a block number and a data byte equal to `EOT` stand for block 4 of the
  code.  `MaxFaults` = 2 damages a block and the answer to it, or two tries of one block.  `RETRY_LIMIT` = 3
  is more than the faults and fewer than the tries together.  The call ends by itself, so the model stops
  (no deadlock check).
* `Rfs`: `MaxRequests` = 4 is an open, a write of two chunks and a call after it, or three calls around a
  restart; one loss gives one late answer or one merged packet, and a restart loses what the server had.
  With two losses the run takes longer than is practical and showed nothing else on smaller numbers of
  requests.  `MaxHandles` = 2 lets a forgotten descriptor and a new one exist together.
* `Salloc`: between the guards one region has 4 words, which a request leaves too small a rest of or splits in
  two, the other 6, which hold three smallest blocks, so that a block is joined on both sides.  Sizes are zero, one word exactly, one word and a byte, three words.  Nothing
  bounds the number of calls.  One stored value suffices to tell kept from forgotten memory.
* `Adc`: `MaxCalls` = 3 is a `setsmoothing`, a `sample` and any call during it, or two `adc.setclock` around a
  `sample`.  Two channels give a change of sequence; the filter of length 2 fills and wraps; buffers of 1
  and 2 elements are resized both ways.  Deadlock is not checked: after the last call
  nothing is left to do.

### Fairness

* `EluaInt!FairSpec`: weak fairness of the hook's steps.  The VM counts instructions and calls the hook
  every second one, a handler is assumed to return, and nothing obliges an interrupt to arrive.
* `VTmr!FairSpec`: weak fairness of the tick, which is periodic hardware, and strong fairness of the main
  program's next statement.  Strong, because the loop of `vtmr_delay` is enabled only while the
  counter is large enough: the main program executes many iterations per tick, so a condition that
  holds between two ticks is seen.  Only liveness runs use it.
* `Xmodem!Spec`: weak fairness of the receiver's steps, its timeouts included, which come from a hardware
  timer.  Nothing is assumed of the sender but that it gives up after `SenderTries`; without that the
  flush before a `NAK` could last for ever.
* `Adc!FairSpec`: weak fairness of the converter, of the timer while it triggers conversions (`Tick`), which is
  periodic hardware, of the interrupt while enabled, and of the main program's next access.  Nothing obliges
  the program to make a call.

### What the refuted statements show

1. `int_x_preempt` (`src/elua_int.c:81`).  Check, store and index update of `elua_int_add` are not
   atomic for ISRs of higher priority.
2. `adc_x_wait` (`src/modules/adc.c`, `inc/elua_adc.h:11`).  The status bits of a channel share a byte.  The last
   conversion clears `op_pending` between the read and the write of `adc.setblocking`, which writes it
   back; `adc.getsample` then waits for a sampling that nobody will end.

Behaviour that the models contain and no run is devoted to, each found as a counterexample to the
stronger statement while the properties were written:

* An error in a handler leaves the hook by `longjmp` before it compares the queue with the hook
  (`src/elua_int.c:48`).  The hook then runs on an empty slot, the reader overtakes the writer, and a later
  interrupt waits behind it without a hook until more of them arrive, although `doc/en/inthandlers.txt:10`
  says that the hook is set as long as the queue is not empty (`ArmedWhileQueued` with `HandlersMayFail`).
* A coroutine created while interrupts wait inherits the hook (`src/lua/lstate.c:134`) and runs it on an empty
  queue; a handler that resumes it can be interrupted by another handler.  A running coroutine
  that has no hook delays all interrupts, as `elua_int_add` sets the main thread's (`src/elua_int.c:86`).
* `buf_set` leaves the pointers as they are (`src/buf.c:97`): a buffer that is made smaller has pointers beyond
  its end, which is why `Buf`'s statements about alignment leave out a buffer from a change of its size until its next flush (`resized`).
* The overflow test of `buf_write` is `count > size`, not `>=` (`src/buf.c:124`): a full buffer accepts one more
  element, returns `PLATFORM_OK`, and hands it out in place of the oldest (`ReadsOldestOrNewest` says this much).
* `buf_flush` stores 0 to the count, then to `wptr`, then to `rptr` (`src/buf.c:106`).  A conversion that ends between the first two
  leaves count 1 and both pointers 0: the ring, also of a buffer that was set up once, is one place out of step until
  its next flush, and `buf_read` hands out slots nobody wrote.  Both callers are open to the interrupt: `adc_update_smoothing`
  (`src/elua_adc.c:176`) does nothing about it, and `adc_setup_channel` calls `platform_cpu_get_global_interrupts`
  where it means `_set_` (`:82`).  The same happens inside `buf_set`, whose new size is in force before the memory.  The
  history `torn` of `Buf` and of `Adc` marks exactly these windows, and the properties about contents exclude them;
  in `Buf` an element that arrives between the stores to `wptr` and to `rptr`, or in any statement of `buf_read`, does no harm.
* A delay longer than the period of a cyclic match on the same timer never returns (`src/common_tmr.c:97`),
  as the tick keeps resetting the counter; nor does any operation that waits for the tick after
  `cpu.cli()` (`:87`).  `OpsFinish` excludes exactly these two.
* With two timers, the main program's read-modify-write of the byte of enable bits (`src/common_tmr.c:146`)
  undoes the tick's disabling of another timer, and a one-shot timer fires twice.  `SecondShot` is what remains: a second
  interrupt needs such a stroke of the tick, or `cpu.sei`, and there is no third without another one.
* A timer set up again while enabled compares the old counter with the new limit and fires early
  (`src/common_tmr.c:115`); its flag, cleared before the reset, is set again by the tick that serves the
  reset (`:120`); clearing one timer's flag can lose another's (`:133`).
* Multiplexer: a repeat request that interrupts `platform_uart_send` is answered with the old service and the
  new byte, so the byte appears on the wrong service (`src/common_uart.c:94`; the history `raced`).  A
  board reset between the two bytes of an escape makes the host decode the next byte as escaped,
  or stop with "invalid escape sequence".  Two bytes under way to a freshly reset board cause two
  repeat requests, and the host stops at the second one (`mux_src/main.c:297`); the other way round, the
  device takes the second request for data.  The recommended order of start in
  `doc/en/sermux.txt` avoids most of this.
* XMODEM: when the byte that starts a block is lost or changed, the receiver reads the bytes of the block as
  control codes, and the number of block 4 is `EOT`: a truncated file is reported as complete
  (`src/xmodem.c:136`; the history `misaligned`).  When the `ACK` of a block is lost, the repeated block is
  answered with `NAK` until the retries run out (`:93`); the transfer fails, safely.  Every stray byte
  costs a retry.
* Remote files: bytes that are dropped before a request is sent are read into the buffer that holds the
  request (`src/remotefs/client.c:43`), so the request goes out with a wrong first byte, or does not.  An answer
  that comes too late is taken for the answer to the next request of the same operation (`:60`).  The
  server has no timeout: the start of a request completes an earlier one whose end was lost, and the
  merged packet is sent back unexecuted.  `rfs_write_r` returns the count so far (0 at the first chunk)
  instead of -1 when a chunk fails.  `server_closedir` returns its argument.  A read that fails on the
  server produces a response the client cannot parse.
* ADC: a channel that has been stopped stays in the programmed sequence until the next interrupt, so
  `adc.setsmoothing` resizes a filter that the interrupt still feeds, and it may write behind the
  buffer (`src/elua_adc.c:158`, contrary to the comment at 143-155; the history `raced`).  `adc.setclock`
  with another timer and an `adc.sample` of a list that fails half way leave the sequencer halted with
  channels pending (`src/common.c:352`, `src/modules/adc.c:116`).  `adc.setclock` with the same timer
  disables its trigger and nothing enables it again while the sequence stays the same (`src/platform/stm32/platform.c:1202`).
  Worse, its write of `clocked` (`:1206`, `:1227`) writes back the `running` it has read: when the interrupt has halted the sequencer in
  between, `running` is 1 with the interrupt disabled, no later `adc.sample` starts a sequencer that seems to run,
  and its channels stay pending for good.  The history `stalled` marks these four cases, and `Completes` excludes them;
  the next `platform_adc_start_sequence` that really starts the sequencer clears it.  ACTIVATE_CHANNEL with the interrupt enabled
  (`src/elua_adc.c:95`) brings back a channel that was taken out meanwhile; it is converted once more
  and taken out again.  A single sample waits
  in the buffer of the DMA and is replaced by another channel's after a change of the sequence.
  A `value_fresh` that is written back after the interrupt has cleared it (the byte of status bits
  again) makes the next read take whatever the channel's place holds, even one that was never
  converted; `sample_buf` is zero there, and the model tells that zero (`Unconverted`) from the zeros of a flush.
  `adc.getsamples` returns nothing (`src/modules/adc.c:188`).  Samples left over from one request are
  returned by the next.

## 4. What is proved

`EluaIntProofs` proves, for every ring size, every set of interrupts and resources and every set of coroutines:

| Theorem | Statement | Assumes |
|---|---|---|
| `TypeCorrect` | type correctness | nothing |
| `NeverOverwritten` | no step replaces a waiting interrupt | nothing: any program, coroutines, failing handlers |
| `ClosedIsClean` | without a Lua state nothing of the last program is left | nothing |
| `RingIsFifo` | the ring holds exactly the accepted, not yet taken interrupts, in order | `WellBehaved` |
| `HookFollowsQueue` | the main thread's hook is set whenever one waits and never runs on an empty slot | `WellBehaved` |
| `HookNeverEmpty` | the second half of the same, as a statement of its own | `WellBehaved` |
| `ImplementsFifoSafety` | every step is a step of `IntFifo` or leaves it unchanged | `WellBehaved` |

`WellBehaved` says that there are no coroutines and handlers do not fail, the two conditions under
which the behaviour listed above does not occur.  The assumptions on constants are
those of `EluaInt`.

Arguments.  `TypeOK` is inductive by itself.  `NoOverwrite` then follows from the shape of the two actions
that write the ring: `elua_int_add` stores only in an empty slot (`HasRoom`), the hook only empties one.
`CleanWhenClosed` is not inductive: it must be known that the chain of resumed threads is emptied by
`lua_close` alone, not by a coroutine that returns or fails; `CleanInv` adds that the main thread is at the
bottom of the chain whenever there is one.  `RingMatches` is not inductive either: what the hook may take depends
on where the hook is, and that it is never on an empty slot depends on when it was armed.  `FifoInv` joins
the content of the ring (`Holds`, from the reader's position `Start` on), the position of
the hook, and the arming of the hook; `AddAppends` and `TakeIsTail` are the two lemmas about circular
positions that carry the arithmetic.  The refinement uses the same invariant: `elua_int_add` is
`Accept`, the clearing of the slot is `Take`, the last statement is `Done`, `lua_close` is `Close`.

`BufProofs` proves every property of the run `buf_both`, for every set of positive sizes with a largest one, all data and
all three devices, with nothing else assumed:

| Theorem | Statement |
|---|---|
| `TypeCorrect` | type correctness; both pointers stay inside the largest ring |
| `CountStaysBounded` | `count` is at most one more than the largest size, whatever is resized |
| `FailureEmpties` | after a failed `realloc` the buffer is disabled and empty |
| `EndsAgree` | while the buffer is `Whole`, `wptr` is `count` places ahead of the next read, at every statement of `buf_read` and `buf_flush` |
| `SlotsHoldNewest` | while it is `Whole`, every slot holds the newest element that belongs there |
| `OneOver` | unless it was resized and not flushed since, at most one accepted element is overwritten; `count` is the number accepted and not read |
| `OldestOrNewest` | while it is `Whole`, `buf_read` returns the oldest element or, overrun by one, the newest |

`Whole` is a condition on histories of two races of the code: since it was set up or last flushed, the buffer was not resized (`resized`), and no
element arrived inside `buf_set` or between the first two stores of `buf_flush` (`torn`).  Without `~torn` the three theorems that
name it are false of the code, as section 3 says; `OneOver` does not need it.  `TInv` adds to the types that
`count` is the length of the history and positive where it is about to be decremented: without that
`count` could wrap below 0.  `Failure` adds to `FailedIsEmpty` that memory is only ever missing inside
`buf_set`.  `Ring` joins the three properties about a `Whole` buffer with `Slots` (both ends lie inside the size in force), with the
bound of the count, which an interrupted flush does not break (`AtMost`), and with `Unready`, which says that a buffer
without memory is empty until an element is written to where the memory is not.  The three properties need
each other: that an element is stored behind the others is `Aligned`, that it displaces
nothing newer is `NewestPerSlot` with `ModApart` (two positions less than a ring apart are
different slots), and what `buf_read` then copies follows from both.  The provers do not
multiply by a variable, so `Division`, `ModUnique` and `ModAdd` state the arithmetic of remainders for a
ring of any size.

`VTmrProofs` proves, for every set of timers, every width of the counters and every choice of operations,
`cpu.cli()` included:

| Theorem | Statement | Assumes |
|---|---|---|
| `TypeCorrect` | type correctness | nothing |
| `CyclicStaysBelow` | the counter of a cyclic timer stays below its limit once its reset is served | nothing |
| `FiresOnTime` | no match interrupt comes early, and a cyclic one comes exactly on time | `~LiveReconfig` |
| `SecondShotOnlyAfterStrike` | `SecondShot`: a one-shot timer queues one interrupt per set-up; another one only if the tick cleared its enable bit while a call for another timer held a copy of the byte, or `cpu.sei( id, timer )` enabled it again; and no third one for the same reason | nothing |

`~LiveReconfig` says that a timer is disabled when a match interrupt is set up for it; with it set
the code does fire early, as section 3 says.  `TypeOK` is not inductive: what
a statement may leave behind depends on the call it belongs to, which `Position` ties to the statements
left.  `TmrInv` adds `Setup`: outside `vtmr_set_match_int` the counter of an armed timer is never ahead of the time
since it was set up, and for a cyclic timer equal to it and below the limit; inside, from the
statement that stores the limit to the tick that serves the reset, the counter is stale and only the
disabled mask keeps the tick from comparing it.  `Disabled` is that last fact, and the
only place where `~LiveReconfig` is needed.  `Spent` says that a one-shot timer that fired is enabled, or has its bit set in the
copy of the byte that a call is about to write back, only if it was struck; `LoadedBefore`, that the copy is always
taken in the step before it is written, is what makes the window of `Struck` the whole of the race.  Any number of timers may share the bytes.

`RfsProofs` proves, for any number of descriptors, chunks, requests, lost symbols and restarts of the server, with nothing
else assumed:

| Theorem | Statement |
|---|---|
| `TypeCorrect` | type correctness |
| `AnswersBelong` | the action property `AnswerIsOwn`: answers are taken once, in order, and by the request they answer unless a call gave up on a live one |
| `WrittenIsStored` | the invariant `CountedIsStored`: the chunks counted as written are in the file in one piece, unless a call gave up on a live request |
| `DescriptorsAccounted` | the invariant `DescriptorsKnown`: every descriptor the program does not know of is paid for by a call that failed |

Packets carry no number, so what is proved rests on order alone.  `RfsInv` has three parts.  `Types` adds to `TypeOK` what
the handlers put in a response (a descriptor, or none) and that a call never has more chunks left than requests.
`Order` lists the requests by how far they have come: taken answers, answers on the line, the one that the
server holds, requests on the line, the one to be sent; each is older than the next, and a descriptor has moved no
further than the last request executed on it allows.  Two halves of different packets do not break it, because a packet
put together from two is not executed (`ServerRequest`).  `Fresh` says that without a call that gave up on a live
request only the current request can be under way.  What is read, lost or flushed makes fewer packets (`Fewer`, over
`WithinCarried`: a sequence that loses elements keeps its order), what is sent is younger than all (`PacketCarried`).

`CountedIsStored` and `DescriptorsKnown` say nothing of requests and answers under way, so each gets an invariant that
does.  Most steps only move a message or lose one (`Quiet`, `StepQuiet`); the start of a call, the execution of a request
and the reading of its answer are treated one by one.  `StoredInv`: the chunks counted stand in the file from some place
on; while the request for the next one is still to be executed the descriptor is right behind them, and once an
answer that confirms it exists the chunk is there.  It rests on `Fresh`: a request that is executed while a call waits
is the call's.  `Balance`: opening and closing messages under way, plus the
descriptors no message takes care of, are at most as many as the calls that failed or are in progress.  A message takes care
of a descriptor if it is the answer that will tell the program of it or the request that will close it; losing a message
releases one descriptor and gives up one message, executing an opening request puts its answer in its place.  Each
descriptor taken care of has a message of its own (`CoversOne`), so the sum bounds the descriptors unknown.

`XmodemProofs` proves, for any file of at least one block, any `BlockMod` from 2 on, any retry limits and any number of
faults, from `XmodemAssumption` alone (the three codes are different; the check byte tells blocks apart; a changed
byte is none that is sent, and is not its own check byte):

| Theorem | Statement | Assumes |
|---|---|---|
| `TypeCorrect` | type correctness; what is stored fits in the buffer | nothing |
| `SenderNeverAhead` | a block the sender takes for acknowledged is stored; when it takes the end for acknowledged the call has succeeded | `~misaligned` |
| `TransferRefined` | every step is a step of `Transfer` or leaves it unchanged | `~misaligned` |

`~misaligned` is the condition in `SenderKnows` itself: no byte is missing and none that starts a transmission was changed.
`SenderKnows` is about an `ACK` without a number, so it rests on what every byte under way belongs to.
`StreamOf` says it: each byte marked as the first of a transmission is followed by the rest of that transmission and then by
another one; a block is the last one stored or the one after it, and no repetition of the former follows the latter
(`cut`).  `ReceiverAt` places the receiver in this stream: between two transmissions, or inside a block whose
remaining bytes are still to come (`RestOf`), so that its timeout cannot strike there.  `Recognized` is the
step that the whole depends on: among the two blocks that can arrive, number, complement and check accept only the one
awaited, and unchanged.  `AnswersOf` says that at most one `ACK` is on the line, and
only when the receiver has given one more than the sender has taken; it is what makes an `ACK` without a number
unambiguous.  Once the stream is shifted, data may read like a block, and nothing of this is left: that the blocks
stored are right even then is checked by `xmodem_line` for a file whose data cannot be taken for a block.

`SermuxProofs` proves, for any sets of services and data bytes, any number of bytes sent and any number of
restarts, from `BytesAssumption` alone:

| Theorem | Statement |
|---|---|
| `TypeCorrect` | type correctness |
| `LinkInOrder` | without restarts each direction hands out every byte on its service, once, in order, unescaped; the host does not give up |
| `SidesAgree` | when nothing is under way the sides agree on the service in use, after any number of restarts, unless a repetition interrupted `platform_uart_send` |
| `DataSurvivesRestarts` | `RestartKeepsData`: what a side hands out was sent to that service by a peer that has not restarted, unchanged, in order and at most twice; for the host with the same exception |

`InOrder` says nothing of bytes that are under way, so it is far from inductive.  `Channel` says what a line *means*
to the side that will read it: the bytes of data on it are numbered without a gap from the last one handed out to the
last one sent, each of them finds its own service in force (`IsSid`) and follows an escape exactly if it needs one
(`EscAt`), and no control byte follows an escape.  A line that means something keeps its meaning when a byte is added
(`SendControl`, `SendNext`) and when its first byte is read (`ReadOne`).  In the middle of
`platform_uart_send` the byte of the user is sent but not on the line (`OnLine`), and the service on the line may be
ahead of `uart_service_id_out` (`DevOut`).  That neither side is ever asked to repeat, and that the host finds no
protocol error, follows: a byte of data is in force on a service of its own, never on -1.  `SidesAgree` needs less of the line, only
the last service byte on it (`InForce`), and that survives the loss of any beginning of the line
(`LostKeepsService`).  What it needs besides is that a repetition selects nothing (`Kept`), which is false in
the two statements between the store of the bare byte and that of its mask; this is where `raced` comes in.

`DataSurvivesRestarts` needs a meaning of a line whose beginning is lost, maybe between an escape and its byte
(`Carries`): a byte of data is on the line behind its service or behind none, and a byte whose escape is missing only
behind none.  So a reader that knows a service decodes what it reads (`Decoded`), and `CarriesLost` is the step that a
restart takes.  Order and repetitions are counted over what was handed out and what is on the line together
(`InStep`): numbers ascend, none is there three times, and the last one only once as long as it may be
repeated (`Once`); handing out a byte changes nothing of that, and losing bytes thins it out (`Thinned`).  A repetition is right because what is
kept is the last byte sent, encoded for the service it follows (`Repeats`), which holds outside `platform_uart_send`
only.  The two directions meet in `Heard`: a side that has not restarted puts no data on the line in front of its first
service, so its peer asks for nothing before it knows one unless it is itself the one that has restarted.  This is why
the side that was not restarted never takes a request for data, and why the device asks for nothing between an escape and
its byte.  The invariant `RestartInv` was model-checked on the 3.3 million states of `sermux_link` before it was proved.

`AdcProofs` proves every safety property of the run `adc_calls`, for any finite set of channels, any numbers of samples, filter
lengths, conversion values and calls, from `AdcAssumption` alone:

| Theorem | Statement |
|---|---|
| `TypeCorrect` | type correctness; no channel's place is outside `sample_buf`, no buffer holds more than its size and one, but between its new size and its flush |
| `BufferedSamplesOwn` | the invariant `BufferedOwn`: what waits in a channel's buffer was converted on it, unless the buffer is `torn` |
| `FilterAverages` | the invariant `AverageOfRing`: outside a change of its length the filter is an average over its whole ring |

`torn` in `BufferedOwn`, `raced` in `AverageOfRing` and `stalled` in `Completes` are conditions on histories, each for a race
or failure that the code really has (section 3); the model takes the step and the property says nothing until a flush, or a start of the
sequencer, has repaired it (`raced` is never taken back).  `BufferedOwn` is proved from `Own`, which
says of a torn buffer, too, where its elements come from (`Sources`).  It holds because `adc_update_dev_sequence` gives places and programs the hardware in one go (`InPlace`), and the
interrupt only reads after a whole conversion of that sequence (`Converted`); `ProgrammedIs` is what both rest on: the
channel with *n* active channels up to its own number is the *n*-th of the sequence.  `AverageOfRing`
says nothing of a filter that is being resized, so `MainKnows` follows the main program through the change: from
`Flush` on the sum and the index are 0 and nobody raises `smooth_ready` unless the interrupt raced (`Flushed`), and
the bits that a `store` will write back are no readier than those it replaces (`Storing`).  `RingOf` adds to the sum that the
cells before the index hold samples, which is what makes the ring whole when the index wraps.  That the cells
hold no zero of a flush needs `Placed`: a fresh value is only read by a channel that has a place.  The first version of
the model started `sample_buf` at 0; the induction failed on a stale `value_fresh`, and TLC confirmed
with four calls that an unconverted place can reach the filter (section 3).  The sum of a sequence is a fold of the
community modules, whose recursion over subsets `AddsExist`, `AddsGrow` and `TotalZeros` follow by induction
on the number of elements; `Induct` derives that induction from the least-element theorem (`WFMin`) of the library.
`ShiftsExist` does the same for the powers of two in `SMOOTH_REALSIZE`.

`SallocProofs` proves every property of the run `salloc_arena`, for any number of regions of any size, any stored values and sizes of requests
and any sequence of calls, from `SallocAssumption` alone (finitely many regions, in ascending order, each with room for its
guards and a smallest block):

| Theorem | Statement |
|---|---|
| `TypeCorrect` | type correctness: a word of RAM is a header whose links stay in RAM, or payload |
| `StaysCoalesced` | the invariant `Coalesced`: lists without gaps, linked alike both ways, no two free blocks side by side |
| `TakenAreHeld` | the invariant `TakenAreLive`: a block is marked taken exactly while a caller holds the pointer to it |
| `HeapRefined` | `ImplementsHeap`: every step is a step of `Heap` or leaves the pieces of the callers as they are |

The inductive invariant `IInv` is about the set of all blocks, `Whole(mem)`, not about walks along the lists: between a block and the one its
`next` leads to lies no other (`Follows`), `prev` undoes `next` (`Linked`), headers are at the blocks and nowhere else
(`List`), free blocks are apart (`Apart`), and callers hold the blocks in use, each with room for what was asked
(`Owned`).  Coalescing alone is not inductive: that merging a freed block keeps the list whole needs that no header lies inside a
block, and that a split leaves room for a payload needs the smallest size of the others.  `BlocksAre` and `WholeIs` lead from such a set of
blocks back to what a walk from the first guard finds.  There is one lemma for what each helper
of the code does to a list (`CompactFreeIs`, `SplitIs`, `CutToIs`, `FreeBlockIs`, `TakenIs`, `InitializedIs`), each for an arbitrary memory and
set of blocks, with the blocks it leaves untouched; `srealloc` that moves is their
composition (`MovingIs`): the block taken first is `Untouched` by the release of the other one.  `Does` sums up what an entry point may do to the pieces, and `ViewDoes`
carries that to the pieces as `Heap` sees them.

Only model-checked: liveness (`EveryInterruptLeaves`, the fairness part of `ImplementsFifo` and `ImplementsTransfer`,
`OpsFinish`, `Completes`), which is out of the prover's reach.  Every invariant and every other action property
of the passing runs is stated by a theorem.

## 5. Plan

Models, as far as they deserve it: `platform_uart_recv` with its timeout over `Buf` and `VTmr`; descriptors of
`devman` and `romfs`; the `ps2` bit receiver; nRF24 mode switches; LuaRPC link states; the remaining
transports of the remote file system; `__gc` metamethods during `lua_close`.

Proofs: the safety properties of the parts that are modelled later; those of the present modules are proved.

## 6. Not modelled, and why

The vendored parts (Lua core beyond hooks and threads, dlmalloc, FatFs, uIP), register-level drivers,
which have no logic of their own, the shell, editor, terminal and help, which are sequential text
processing, and the build scripts.  Of the parts with state of their own, `devman`, `romfs` and `mmcfs` keep
tables that are filled at start-up and are used by one thread, LuaRPC is a blocking request and
answer over a line it does not survive, and the nRF24 and PS/2 drivers are planned.
