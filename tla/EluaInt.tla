------------------------------ MODULE EluaInt ------------------------------
(***************************************************************************)
(* Lua interrupt handlers: the ring of src/elua_int.c between the C        *)
(* interrupt service routines, which call elua_int_add, and the Lua        *)
(* virtual machine, whose count hook elua_int_hook takes one interrupt at  *)
(* a time and calls its Lua handler.                                       *)
(*                                                                         *)
(* Actors.  An ISR runs between any two steps of the main program, as long *)
(* as interrupts are enabled globally; the main program does not run while *)
(* an ISR does, so elua_int_add is one step.  (EluaIntNested splits it,    *)
(* for CPUs on which ISRs preempt each other.)  The main program is the    *)
(* Lua VM: the main thread and the coroutines it resumes, of which the     *)
(* last one of `chain' runs.  elua_int_hook is split where an ISR can see  *)
(* the difference.                                                         *)
(***************************************************************************)
EXTENDS Naturals, Sequences

CONSTANTS
    QSize,            \* 1 << PLATFORM_INT_QUEUE_LOG_SIZE
    Ids,              \* interrupt IDs, ELUA_INT_FIRST_ID .. INT_ELUA_LAST
    Resnums,          \* resource numbers
    Empty,            \* an element whose id is ELUA_INT_EMPTY_SLOT
    Main,             \* the main Lua thread, the one lua_getstate() returns
    Coroutines,       \* the other Lua threads a program may create
    HandlersMayFail   \* may a Lua handler raise an error?

Items == [id : Ids, resnum : Resnums]
Threads == {Main} \cup Coroutines

ASSUME QSizeAssumption == QSize \in Nat \ {0}
ASSUME EmptyAssumption == Empty \notin Items
ASSUME ThreadAssumption == Main \notin Coroutines
ASSUME FailAssumption == HandlersMayFail \in BOOLEAN

VARIABLES
    queue,       \* elua_int_queue
    read_idx,    \* elua_int_read_idx
    write_idx,   \* elua_int_write_idx
    flags,       \* elua_int_flags, as the set of enabled IDs
    handlers,    \* IDs with a function in the registry's handler table
    gie,         \* global interrupt enable of the CPU
    hook,        \* the threads whose L->hook is elua_int_hook
    chain,       \* the main thread and the nested resumed coroutines;
                 \* <<>> when there is no Lua state (lua_crtstate is NULL)
    suspended,   \* the coroutines that can be resumed
    pc,          \* where each thread is in elua_int_hook
    crt,         \* elua_int_hook's local variable, per thread
    pending      \* history: accepted interrupts not yet taken, in order

intVars == <<queue, read_idx, write_idx, flags, handlers>>
vmVars  == <<hook, chain, suspended, pc, crt>>
vars    == <<intVars, gie, vmVars, pending>>

Slots == 0 .. QSize - 1

\* "vm": running bytecode; "handler": running a Lua interrupt handler; the
\* others name the next statement of elua_int_hook.
Labels == {"vm", "clear", "advance", "dispatch", "handler", "finish"}

TypeOK ==
    /\ queue \in [Slots -> Items \cup {Empty}]
    /\ read_idx \in Slots /\ write_idx \in Slots
    /\ flags \in SUBSET Ids /\ handlers \in SUBSET Ids
    /\ gie \in BOOLEAN
    /\ hook \in SUBSET Threads
    /\ chain \in Seq(Threads)
    /\ suspended \in SUBSET Coroutines
    /\ pc \in [Threads -> Labels]
    /\ crt \in [Threads -> Items \cup {Empty}]
    /\ pending \in Seq(Items)

----------------------------------------------------------------------------
(* The ring and the hook                                                   *)

\* Wrong variant: the mask forgotten.
NextIdxUnmasked(i) == i + 1

\* ( idx + 1 ) & INT_IDX_MASK; QSize is a power of two in the code.
NextIdx(i) == (i + 1) % QSize

EmptyQueue == [i \in Slots |-> Empty]

LuaOpen == chain # <<>>
Running == chain[Len(chain)]

\* L->hook of t is set (lua_sethook with the hook) or cleared.
Arm(t) == hook' = hook \cup {t}
Disarm(t) == hook' = hook \ {t}

Goto(t, label) == pc' = [pc EXCEPT ![t] = label]

\* The running thread executes Lua code, of the program or of a handler.
InLua(t) ==
    /\ LuaOpen
    /\ t = Running
    /\ pc[t] \in {"vm", "handler"}

Init ==
    /\ queue = EmptyQueue
    /\ read_idx = 0 /\ write_idx = 0
    /\ flags = {} /\ handlers = {}
    /\ gie = TRUE
    /\ hook = {}
    /\ chain = <<>>
    /\ suspended = {}
    /\ pc = [t \in Threads |-> "vm"]
    /\ crt = [t \in Threads |-> Empty]
    /\ pending = <<>>

----------------------------------------------------------------------------
(* Interrupt service routine                                               *)

\* Wrong variant: the usual full test of a ring, which compares the indices.
HasRoomByIndex == NextIdx(write_idx) # read_idx

\* The two early returns: no Lua state or a disabled ID, and a full ring.
Wanted(id) == LuaOpen /\ id \in flags
HasRoom == queue[write_idx] = Empty

elua_int_add(id, resnum) ==
    /\ gie
    /\ Wanted(id)
    /\ HasRoom
    /\ queue' = [queue EXCEPT ![write_idx] = [id |-> id, resnum |-> resnum]]
    /\ write_idx' = NextIdx(write_idx)
    /\ Arm(Main)
    /\ pending' = Append(pending, [id |-> id, resnum |-> resnum])
    /\ UNCHANGED <<read_idx, flags, handlers, gie, chain, suspended, pc, crt>>

----------------------------------------------------------------------------
(* elua_int_hook, called by luaD_callhook                                  *)

\* Wrong variant: the index is advanced before the element is copied.
HookFetchNext(t) ==
    /\ LuaOpen /\ t = Running
    /\ pc[t] = "vm" /\ t \in hook
    /\ crt' = [crt EXCEPT ![t] = queue[NextIdx(read_idx)]]
    /\ Goto(t, "clear")
    /\ UNCHANGED <<intVars, gie, hook, chain, suspended, pending>>

\* luaD_callhook only calls a hook outside of a hook (L->allowhook), on the
\* running thread.  First statement: copy the element.
HookFetch(t) ==
    /\ LuaOpen /\ t = Running
    /\ pc[t] = "vm" /\ t \in hook
    /\ crt' = [crt EXCEPT ![t] = queue[read_idx]]
    /\ Goto(t, "clear")
    /\ UNCHANGED <<intVars, gie, hook, chain, suspended, pending>>

HookClear(t) ==
    /\ LuaOpen /\ t = Running
    /\ pc[t] = "clear"
    /\ queue' = [queue EXCEPT ![read_idx] = Empty]
    /\ Goto(t, "advance")
    /\ pending' = IF queue[read_idx] = Empty THEN pending ELSE Tail(pending)
    /\ UNCHANGED <<read_idx, write_idx, flags, handlers, gie,
                   hook, chain, suspended, crt>>

HookAdvance(t) ==
    /\ LuaOpen /\ t = Running
    /\ pc[t] = "advance"
    /\ read_idx' = NextIdx(read_idx)
    /\ Goto(t, "dispatch")
    /\ UNCHANGED <<queue, write_idx, flags, handlers, gie,
                   hook, chain, suspended, crt, pending>>

\* The handler is called when the ID is still enabled and the table has a
\* function for it.  ELUA_INT_EMPTY_SLOT is never an enabled ID.
Callable(x) == x # Empty /\ x.id \in flags /\ x.id \in handlers

\* Wrong variant: the hook waits for a handler to be set.
HookDispatchWaits(t) ==
    /\ LuaOpen /\ t = Running
    /\ pc[t] = "dispatch"
    /\ Goto(t, IF Callable(crt[t]) THEN "handler" ELSE "dispatch")
    /\ UNCHANGED <<intVars, gie, hook, chain, suspended, crt, pending>>

HookDispatch(t) ==
    /\ LuaOpen /\ t = Running
    /\ pc[t] = "dispatch"
    /\ Goto(t, IF Callable(crt[t]) THEN "handler" ELSE "finish")
    /\ UNCHANGED <<intVars, gie, hook, chain, suspended, crt, pending>>

HandlerReturn(t) ==
    /\ LuaOpen /\ t = Running
    /\ pc[t] = "handler"
    /\ Goto(t, "finish")
    /\ UNCHANGED <<intVars, gie, hook, chain, suspended, crt, pending>>

\* Wrong variants: the hook is cleared without looking at the queue, or never.
HookFinishAlways(t) ==
    /\ LuaOpen /\ t = Running
    /\ pc[t] = "finish"
    /\ Disarm(t)
    /\ Goto(t, "vm")
    /\ crt' = [crt EXCEPT ![t] = Empty]
    /\ UNCHANGED <<intVars, gie, chain, suspended, pending>>

HookFinishNever(t) ==
    /\ LuaOpen /\ t = Running
    /\ pc[t] = "finish"
    /\ Goto(t, "vm")
    /\ crt' = [crt EXCEPT ![t] = Empty]
    /\ UNCHANGED <<intVars, gie, hook, chain, suspended, pending>>

\* Interrupts are disabled around the last test, so it is one step.
HookFinish(t) ==
    /\ LuaOpen /\ t = Running
    /\ pc[t] = "finish"
    /\ IF queue[read_idx] = Empty THEN Disarm(t) ELSE UNCHANGED hook
    /\ Goto(t, "vm")
    /\ crt' = [crt EXCEPT ![t] = Empty]
    /\ UNCHANGED <<intVars, gie, chain, suspended, pending>>

\* t is unwound by an error: the main thread continues after the pcall around
\* the failing code, which restores allowhook; a coroutine is dead and its
\* resumer continues.  elua_int_hook is abandoned where it was.
Unwind(t) ==
    /\ Goto(t, "vm")
    /\ crt' = [crt EXCEPT ![t] = Empty]
    /\ chain' = IF t = Main THEN chain ELSE SubSeq(chain, 1, Len(chain) - 1)
    /\ hook' = IF t = Main THEN hook ELSE hook \ {t}

HandlerError(t) ==
    /\ HandlersMayFail
    /\ LuaOpen /\ t = Running
    /\ pc[t] = "handler"
    /\ Unwind(t)
    /\ UNCHANGED <<intVars, gie, suspended, pending>>

----------------------------------------------------------------------------
(* What Lua code can do                                                    *)

\* cpu.set_int_handler( id, f ): the flag first, then the handler table.
cpu_set_int_handler(t, id) ==
    /\ InLua(t)
    /\ flags' = flags \cup {id}
    /\ handlers' = handlers \cup {id}
    /\ UNCHANGED <<queue, read_idx, write_idx, gie, vmVars, pending>>

\* cpu.set_int_handler( id, nil )
cpu_clear_int_handler(t, id) ==
    /\ InLua(t)
    /\ flags' = flags \ {id}
    /\ handlers' = handlers \ {id}
    /\ UNCHANGED <<queue, read_idx, write_idx, gie, vmVars, pending>>

\* The table has to grow and there is no memory: the ID is enabled already.
cpu_set_int_handler_nomem(t, id) ==
    /\ InLua(t)
    /\ pc[t] = "handler" => HandlersMayFail
    /\ id \notin handlers
    /\ flags' = flags \cup {id}
    /\ Unwind(t)
    /\ UNCHANGED <<queue, read_idx, write_idx, handlers, gie, suspended,
                   pending>>

cpu_cli(t) ==
    /\ InLua(t)
    /\ gie' = FALSE
    /\ UNCHANGED <<intVars, vmVars, pending>>

cpu_sei(t) ==
    /\ InLua(t)
    /\ gie' = TRUE
    /\ UNCHANGED <<intVars, vmVars, pending>>

\* luaE_newthread: the new thread starts with its creator's hook.
luaE_newthread(t, c) ==
    /\ InLua(t)
    /\ c \notin suspended /\ \A i \in 1..Len(chain) : chain[i] # c
    /\ suspended' = suspended \cup {c}
    /\ hook' = IF t \in hook THEN hook \cup {c} ELSE hook \ {c}
    /\ UNCHANGED <<intVars, gie, chain, pc, crt, pending>>

lua_resume(t, c) ==
    /\ InLua(t)
    /\ c \in suspended
    /\ suspended' = suspended \ {c}
    /\ chain' = Append(chain, c)
    /\ UNCHANGED <<intVars, gie, hook, pc, crt, pending>>

\* A coroutine yields; in a handler that is an error ("attempt to yield
\* across metamethod/C-call boundary"), see HandlerError.
lua_yield(t) ==
    /\ LuaOpen /\ t = Running
    /\ t # Main /\ pc[t] = "vm"
    /\ suspended' = suspended \cup {t}
    /\ chain' = SubSeq(chain, 1, Len(chain) - 1)
    /\ UNCHANGED <<intVars, gie, hook, pc, crt, pending>>

\* The body of a coroutine returns.
CoroutineReturn(t) ==
    /\ LuaOpen /\ t = Running
    /\ t # Main /\ pc[t] = "vm"
    /\ Unwind(t)
    /\ UNCHANGED <<intVars, gie, suspended, pending>>

----------------------------------------------------------------------------
(* Creating and closing the Lua state                                      *)

lua_open ==
    /\ ~LuaOpen
    /\ chain' = <<Main>>
    /\ UNCHANGED <<intVars, gie, hook, suspended, pc, crt, pending>>

\* Wrong variant: the read index keeps its value.
elua_int_cleanup_no_read ==
    /\ flags' = {}
    /\ write_idx' = 0
    /\ queue' = EmptyQueue
    /\ UNCHANGED read_idx

elua_int_cleanup ==
    /\ flags' = {}
    /\ read_idx' = 0 /\ write_idx' = 0
    /\ queue' = EmptyQueue

\* The program has ended.  Interrupts are disabled until the clean-up is done.
lua_close ==
    /\ chain = <<Main>> /\ pc[Main] = "vm"
    /\ chain' = <<>>
    /\ hook' = {}
    /\ suspended' = {}
    /\ handlers' = {}
    /\ elua_int_cleanup
    /\ pending' = <<>>
    /\ UNCHANGED <<gie, pc, crt>>

----------------------------------------------------------------------------
Isr == \E id \in Ids, resnum \in Resnums : elua_int_add(id, resnum)

HookStep(t) ==
    \/ HookFetch(t)
    \/ HookClear(t)
    \/ HookAdvance(t)
    \/ HookDispatch(t)
    \/ HandlerReturn(t)
    \/ HookFinish(t)

LuaCode(t) ==
    \/ \E id \in Ids : \/ cpu_set_int_handler(t, id)
                       \/ cpu_clear_int_handler(t, id)
                       \/ cpu_set_int_handler_nomem(t, id)
    \/ cpu_cli(t)
    \/ cpu_sei(t)
    \/ HandlerError(t)
    \/ \E c \in Coroutines : luaE_newthread(t, c) \/ lua_resume(t, c)
    \/ lua_yield(t)
    \/ CoroutineReturn(t)

MainProgram ==
    \/ \E t \in Threads : HookStep(t) \/ LuaCode(t)
    \/ lua_open
    \/ lua_close

Next == Isr \/ MainProgram

Spec == Init /\ [][Next]_vars

\* The Lua VM executes instructions, hence calls the hook of the running
\* thread (every 2 instructions), and interrupt handlers return.  Nothing
\* makes an interrupt happen or a program end.
FairSpec == Spec /\ WF_vars(\E t \in Threads : HookStep(t))

----------------------------------------------------------------------------
(* Properties                                                              *)

QueueEmpty == \A i \in Slots : queue[i] = Empty

\* Where the oldest waiting interrupt is: elua_int_hook has already emptied
\* the slot at read_idx when it is about to advance.
Start == IF pc[Main] = "advance" THEN NextIdx(read_idx) ELSE read_idx

\* How many slots after slot s, in the order of the ring, slot i comes.
Offset(s, i) == IF i >= s THEN i - s ELSE i + QSize - s

\* The ring q with its oldest element at s and its writer at w holds the
\* sequence p.
Holds(q, s, w, p) ==
    /\ Len(p) <= QSize
    /\ \A i \in Slots :
          q[i] = IF Offset(s, i) < Len(p) THEN p[Offset(s, i) + 1] ELSE Empty
    /\ IF Len(p) = QSize THEN w = s ELSE Offset(s, w) = Len(p)

\* The ring holds exactly the accepted interrupts that were not taken yet, in
\* the order in which the ISRs added them, from the reader's position on,
\* and the writer's index is the slot after the newest: no interleaving of
\* elua_int_add with the statements of elua_int_hook loses, duplicates or
\* reorders an interrupt.
RingMatches == Holds(queue, Start, write_idx, pending)

\* "As long as the queue is not empty, a Lua hook is set to run"
\* (doc/en/inthandlers.txt:10): also between the last test of elua_int_hook
\* and the interrupts that arrive around it.
ArmedWhileQueued == ~QueueEmpty => Main \in hook

\* "After all the interrupts are handled and the queue is emptied, the hook is
\* automatically disabled" (doc/en/inthandlers.txt:11): whenever the program's
\* own code runs, the hook of the running thread is set only if an interrupt
\* waits at read_idx, so elua_int_hook never takes an element from an empty slot.
NeverRunsOnEmpty ==
    LuaOpen /\ pc[Running] = "vm" /\ Running \in hook => queue[read_idx] # Empty

\* elua_int_add and elua_int_hook give the queue of doc/en/inthandlers.txt.
Fifo == INSTANCE IntFifo WITH
    Capacity <- QSize,
    NoItem   <- Empty,
    fifo     <- pending,
    current  <- IF pc[Main] \in {"vm", "clear"} THEN Empty ELSE crt[Main],
    open     <- LuaOpen
ImplementsFifo == Fifo!FifoSpec

\* Every queued interrupt leaves its slot: it is taken by the hook, or the
\* Lua state is closed.
EveryInterruptLeaves ==
    \A i \in Slots : queue[i] # Empty ~> queue[i] = Empty

\* Whatever the Lua program does, a waiting interrupt is never overwritten:
\* a slot goes from occupied to empty before it is written again.
NoOverwrite ==
    [][\A i \in Slots : queue[i] # Empty => queue'[i] \in {queue[i], Empty}]_vars

\* Whatever the previous program did (handlers that failed, coroutines that
\* ran the hook), there is nothing left of it without a Lua state: no queued
\* interrupt, no enabled ID, no hook, and the indices agree again.
CleanWhenClosed ==
    ~LuaOpen => /\ QueueEmpty /\ read_idx = write_idx
                /\ flags = {} /\ handlers = {} /\ hook = {}
=============================================================================
